--------------------------- MODULE SessionProofs ---------------------------
(***************************************************************************)
(* The stream table, GOAWAY and cancelled writes of an HTTP/2 session, for *)
(* any number of calls, frames and queued writes: proofs about Session.    *)
(***************************************************************************)
EXTENDS Session, TLAPS

\* The shape of the records: weaker than TypeOK, which also bounds the numbers.
PCs == {"acquire", "admission", "reserve", "flow", "unreserved", "write", "await", "response", "done"}
Fields == [streams : SUBSET Calls, nextStreamID : Nat \ {0}, connectionWindow : Int,
           initialStreamWindow : Int, maxFrameSize : Nat, maxConcurrent : Nat \cup {Cardinality(Calls)},
           goAway : Nat \cup {NoGoAway}, closeErr : SessionErrors \cup {"none"}]
Stream == [id : Nat, sendWindow : Int, finished : BOOLEAN, result : Results,
           headersReceived : BOOLEAN, informational : Nat]
Streams == [Calls -> Stream]
DoCall == [pc : PCs, kind : {"headers", "data", "reset"}, size : Int, offset : Int, result : Results]
DoCalls == [Calls -> DoCall]
CallJobs == [call : Calls, kind : {"headers", "data", "reset"}, size : Int, first : BOOLEAN]
Jobs == CallJobs \cup {Control}

Shape == s \in Fields /\ st \in Streams /\ call \in DoCalls

Records ==
  /\ Shape
  /\ written \in [Calls -> {"none", "queued", "started", "ok", "write", "ctx"}]
  /\ writeCh \in Seq(Jobs)
  /\ writer \in [pc : {"take", "write", "stop", "exited"}, job : Jobs, err : {"none", "write", "writeCtx"}]
  /\ writer.pc = "stop" => writer.err # "none"
  /\ reader.data # "none" => reader.of \in Calls /\ reader.data \in {"more", "response", "protocol", "tooLarge"}
  /\ wire \in [opened : SUBSET Calls, data : [Calls -> Int], committed : SUBSET Calls, credit : Int]

\* The stream table: a call has no stream before it has acquired one, and none is left when
\* the session is closed.
Table ==
  /\ StreamsExact
  /\ \A c \in Calls : call[c].pc \in {"acquire", "admission"} => st[c].id = 0 /\ ~st[c].finished
  /\ IsClosed => s.streams = {}

\* Who was told of a GOAWAY: the bound is known by then, and it only falls.
Refusals ==
  /\ \A c \in Calls : call[c].result = "goaway" =>
       At(c, "done") /\ (st[c].id = 0 \/ (s.goAway # NoGoAway /\ st[c].id > s.goAway))
  /\ \A c \in Calls : st[c].result = "goaway" => s.goAway # NoGoAway /\ st[c].id > s.goAway
  /\ s.goAway # NoGoAway => \A c \in s.streams : st[c].id <= s.goAway

\* What a call was told about its context is so.
Contexts ==
  \A c \in Calls :
    /\ written[c] = "ctx" \/ At(c, "unreserved") => c \in ctx
    /\ call[c].kind = "reset" /\ call[c].pc \in {"write", "await"} => c \in ctx
    /\ st[c].result = "ctx" \/ call[c].result = "ctx" => c \in ctx

\* A queued write belongs to a call that waits for it, or that gave it up, and then its
\* context is done or the session closed.  A write that was started is waited for until the
\* session is closed.  No call has two.
Owned(job, c) == job \in CallJobs /\ job.call = c

QueueOf(c) ==
  /\ \A i \in 1..Len(writeCh) : Owned(writeCh[i], c) =>
       \/ At(c, "await") /\ written[c] = "queued" /\ call[c].kind = writeCh[i].kind
       \/ At(c, "done") /\ (IsClosed \/ (c \in ctx /\ writeCh[i].kind # "reset"))
  /\ \A i, k \in 1..Len(writeCh) : Owned(writeCh[i], c) /\ Owned(writeCh[k], c) => i = k
  /\ writer.pc = "write" /\ Owned(writer.job, c) =>
       /\ \/ At(c, "await") /\ written[c] = "started"
          \/ At(c, "done") /\ IsClosed
       /\ \A i \in 1..Len(writeCh) : ~Owned(writeCh[i], c)

Queue == \A c \in Calls : QueueOf(c)

SessionInv == Records /\ Table /\ Refusals /\ Contexts /\ Queue

\* The invariant holds of a new session.
LEMMA SessionInitially == Init => SessionInv
<1> SUFFICES ASSUME Init PROVE SessionInv
  OBVIOUS
<1>1. Table /\ Refusals /\ Contexts
  BY SMTT(30) DEF Init, Table, StreamsExact, Refusals, Contexts, At, IsClosed
<1>2. Queue
  BY DEF Init, Queue, QueueOf
<1>3. s \in Fields
  BY SessionAssumption DEF Init, Fields
<1>4. st \in Streams /\ call \in DoCalls
  BY SessionAssumption DEF Init, Streams, Stream, DoCalls, DoCall, PCs, Results
<1>5. writeCh \in Seq(Jobs) /\ Control \in Jobs
  BY DEF Init, Jobs
<1>6. Records
  BY <1>3, <1>4, <1>5, SessionAssumption DEF Records, Shape, Init
<1> QED BY <1>1, <1>2, <1>6, Zenon DEF SessionInv
-----------------------------------------------------------------------------
(* What a step does to the table and to the calls                          *)

\* The streams x leave the table with result e, and no stream gets another number.
Leave(x, e) ==
  /\ s'.streams = s.streams \ x /\ s'.goAway = s.goAway
  /\ s'.closeErr = s.closeErr \/ (s'.closeErr # "none" /\ s'.streams = {})
  /\ \A c \in Calls :
       /\ st'[c].id = st[c].id
       /\ st'[c].finished <=> (st[c].finished \/ c \in Live(x))
       /\ st'[c].result = IF c \in Live(x) THEN e ELSE st[c].result

\* A call returns only without a stream in the table, and is told what is so.
Lawful(c) ==
  /\ call'[c].pc \in {"acquire", "admission"} => call[c].pc \in {"acquire", "admission"}
  /\ At(c, "done") => call'[c].pc = "done"
  /\ call'[c].pc = "done" => At(c, "done") \/ c \notin s'.streams
  /\ call'[c].result = "goaway" =>
       \/ call[c].result = "goaway"
       \/ call'[c].pc = "done" /\ (st[c].id = 0 \/ st[c].result = "goaway")
  /\ call'[c].result = "ctx" => call[c].result = "ctx" \/ c \in ctx
  /\ call'[c].pc = "unreserved" => At(c, "unreserved") \/ c \in ctx
  /\ call'[c].kind = "reset" /\ call'[c].pc \in {"write", "await"} =>
       c \in ctx \/ (call[c].kind = "reset" /\ call[c].pc \in {"write", "await"})

\* A call that waits for its write, or that returned, is left where it is.
Stays(c) ==
  /\ At(c, "await") => call'[c].pc = "await" /\ call'[c].kind = call[c].kind
  /\ At(c, "done") => call'[c].pc = "done"

\* The calls f, with sleepers woken.
WokenAs(f) ==
  \A c \in Calls :
    \/ call'[c] = f[c]
    \/ f[c].pc = "admission" /\ call'[c] = [f[c] EXCEPT !.pc = "acquire"]
    \/ f[c].pc = "flow" /\ call'[c] = [f[c] EXCEPT !.pc = "reserve"]

\* The table stays exact and the refusals right when streams leave it lawfully.
LEMMA TableKept ==
  ASSUME SessionInv, Shape', NEW x, NEW e, e # "goaway", Leave(x, e), \A c \in Calls : Lawful(c)
  PROVE  Table' /\ Refusals'
<1>1. s.streams \subseteq Calls /\ s'.streams = s.streams \ x
  BY DEF SessionInv, Records, Shape, Fields, Leave
<1>2. ASSUME NEW c \in Calls
      PROVE  /\ c \in s'.streams <=> (st'[c].id # 0 /\ ~st'[c].finished)
             /\ c \in s'.streams => call'[c].pc # "done"
             /\ call'[c].pc \in {"acquire", "admission"} => st'[c].id = 0 /\ ~st'[c].finished
  BY <1>1 DEF Lawful, At, Leave, Live, SessionInv, Table, StreamsExact
<1>3. ASSUME NEW c \in Calls
      PROVE  /\ call'[c].result = "goaway" =>
                  call'[c].pc = "done" /\ (st'[c].id = 0 \/ (s'.goAway # NoGoAway /\ st'[c].id > s'.goAway))
             /\ st'[c].result = "goaway" => s'.goAway # NoGoAway /\ st'[c].id > s'.goAway
  BY DEF SessionInv, Refusals, Leave, Lawful, At
<1> QED BY <1>3, <1>1, <1>2, Zenon
           DEF Refusals, At, Table, StreamsExact, IsClosed, SessionInv, Leave

\* What a call was told about its context stays so: contexts stay done.
LEMMA ContextsKept ==
  ASSUME SessionInv, \A c \in Calls : Lawful(c), ctx \subseteq ctx',
         \A c \in Calls : st'[c].result = "ctx" => st[c].result = "ctx" \/ c \in ctx,
         \A c \in Calls : written'[c] = "ctx" => written[c] = "ctx" \/ c \in ctx
  PROVE  Contexts'
BY DEF SessionInv, Contexts, Lawful, At

\* The queue stays right for a call whose write does not move; others may queue one.
LEMMA QueueOfKept ==
  ASSUME SessionInv, NEW c \in Calls, Stays(c), IsClosed => IsClosed', ctx \subseteq ctx',
         written'[c] = written[c], writer' = writer \/ writer'.pc # "write",
         \A i \in 1..Len(writeCh') :
           Owned(writeCh'[i], c) => i \in 1..Len(writeCh) /\ writeCh'[i] = writeCh[i]
  PROVE  QueueOf(c)'
  BY SMTT(30) DEF QueueOf, At, Owned, SessionInv, Queue, Stays

\* The queue stays right when no call's write moves; the read loop may queue one of its own.
LEMMA QueueKept ==
  ASSUME SessionInv, \A c \in Calls : Stays(c), IsClosed => IsClosed', ctx \subseteq ctx',
         UNCHANGED written, writer' = writer \/ writer'.pc # "write",
         writeCh' = writeCh \/ writeCh' = Append(writeCh, Control)
  PROVE  Queue'
<1>1. ASSUME NEW c \in Calls, NEW i \in 1..Len(writeCh'), Owned(writeCh'[i], c)
      PROVE  i \in 1..Len(writeCh) /\ writeCh'[i] = writeCh[i]
  <2>1. CASE writeCh' = writeCh
    BY <2>1 DEF Control, Job, CallJobs, SessionInv, Records
  <2>2. CASE writeCh' = Append(writeCh, Control)
    BY <1>1, <2>2 DEF Owned, Control, Job, CallJobs, SessionInv, Records
  <2> QED BY <2>1, <2>2
<1>2. ASSUME NEW c \in Calls PROVE QueueOf(c)'
  BY <1>1, QueueOfKept
<1> QED BY <1>2, Zenon DEF Queue
-----------------------------------------------------------------------------
(* Finishing streams, waking sleepers                                      *)

\* A signal wakes the sleepers on one channel and leaves the other calls alone.
LEMMA Waking ==
  ASSUME NEW f \in DoCalls, NEW x,
         \/ call' = Woken(x, f) \/ call' = signalFlow(f) \/ call' = signalAdmission(f)
         \/ call' = signalAdmission(Woken(x, f))
  PROVE  call' \in DoCalls /\ WokenAs(f)
<1> DEFINE Wakes(c, r) ==
      \/ r = f[c]
      \/ f[c].pc = "admission" /\ r = [f[c] EXCEPT !.pc = "acquire"]
      \/ f[c].pc = "flow" /\ r = [f[c] EXCEPT !.pc = "reserve"]
<1>1. ASSUME NEW g \in DoCalls, \A c \in Calls : Wakes(c, g[c])
      PROVE  signalAdmission(g) \in DoCalls /\ \A c \in Calls : Wakes(c, signalAdmission(g)[c])
  <2>1. ASSUME NEW c \in Calls
        PROVE  signalAdmission(g)[c] \in DoCall /\ Wakes(c, signalAdmission(g)[c])
    <3>1. g[c] \in DoCall /\ f[c] \in DoCall /\ Wakes(c, g[c])
      BY <1>1 DEF DoCalls
    <3>2. signalAdmission(g)[c] = IF g[c].pc = "admission" THEN [g[c] EXCEPT !.pc = "acquire"] ELSE g[c]
      BY DEF signalAdmission, WakeFrom
    <3> QED BY <3>1, <3>2 DEF DoCall, PCs
  <2> QED BY <2>1, Zenon DEF DoCalls, signalAdmission, WakeFrom
<1>2. signalFlow(f) \in DoCalls /\ \A c \in Calls : Wakes(c, signalFlow(f)[c])
  <2>1. ASSUME NEW c \in Calls
        PROVE  signalFlow(f)[c] \in DoCall /\ Wakes(c, signalFlow(f)[c])
    BY DEF DoCall, PCs, DoCalls, signalFlow, WakeFrom
  <2> QED BY <2>1, Zenon DEF DoCalls, signalFlow, WakeFrom
<1>3. f \in DoCalls /\ \A c \in Calls : Wakes(c, f[c])
  OBVIOUS
<1> HIDE DEF Wakes
<1>4. call' \in DoCalls /\ \A c \in Calls : Wakes(c, call'[c])
  BY <1>1, <1>2, <1>3 DEF Woken
<1> QED BY <1>4 DEF Wakes, WokenAs

\* finishLocked marks the streams it is given that are in the table, and no other.
LEMMA Marking ==
  ASSUME st \in Streams, NEW x, NEW e \in Results, st' = FinishedSt(x, e)
  PROVE  /\ st' \in Streams
         /\ \A c \in Calls :
              /\ st'[c].id = st[c].id
              /\ st'[c].finished <=> (st[c].finished \/ c \in Live(x))
              /\ st'[c].result = IF c \in Live(x) THEN e ELSE st[c].result
<1>1. ASSUME NEW c \in Calls, c \in Live(x)
      PROVE  st'[c] = [st[c] EXCEPT !.finished = TRUE, !.result = e]
  BY <1>1, Zenon DEF FinishedSt
<1>2. ASSUME NEW c \in Calls, c \notin Live(x)
      PROVE  st'[c] = st[c]
  BY <1>2, Zenon DEF FinishedSt
<1>3. ASSUME NEW c \in Calls
      PROVE  /\ st'[c] \in Stream /\ st'[c].id = st[c].id
             /\ st'[c].finished <=> (st[c].finished \/ c \in Live(x))
             /\ st'[c].result = IF c \in Live(x) THEN e ELSE st[c].result
  <2>1. CASE c \in Live(x)
    BY <1>1, <2>1, ZenonT(30) DEF Stream, Streams
  <2>2. CASE c \notin Live(x)
    BY <1>2, <2>2, Zenon DEF Streams
  <2> QED BY <2>1, <2>2
<1> QED BY <1>3, Zenon DEF Streams, FinishedSt

\* finishStream of the streams x.
LEMMA Finishing ==
  ASSUME Shape, NEW x, NEW e \in Results, NEW f \in DoCalls, FinishStreams(x, e, f)
  PROVE  Shape' /\ Leave(x, e) /\ WokenAs(f)
  BY Waking, Marking, Zenon DEF Shape, FinishStreams, Fields, Leave

\* shutdown empties the table, once.
LEMMA ShuttingDown ==
  ASSUME Shape, NEW err \in SessionErrors, Shutdown(err)
  PROVE  Shape' /\ WokenAs(call) /\ (Leave({}, err) \/ Leave(Calls, err))
<1>1. CASE IsClosed
  BY <1>1 DEF Shutdown, Shape, WokenAs, Leave, Live
<1>2. CASE ~IsClosed
  <2>1. s' = [s EXCEPT !.closeErr = err, !.streams = {}] /\ st' = FinishedSt(Calls, err)
    BY <1>2 DEF Shutdown
  <2> QED BY <1>2, Waking, <2>1, Marking, Zenon
             DEF Shape, Shutdown, Fields, Leave, Results, SessionErrors
<1> QED BY <1>1, <1>2

\* Nothing leaves the table, and nobody is woken.
LEMMA Unmoved ==
  ASSUME Shape, UNCHANGED <<s, st, call>>
  PROVE  Shape' /\ WokenAs(call) /\ Leave({}, "none")
  BY DEF Shape, WokenAs, Leave, Live

\* To be woken is lawful.
LEMMA WakingIsLawful ==
  ASSUME SessionInv, WokenAs(call)
  PROVE  \A c \in Calls : Lawful(c) /\ Stays(c)
<1> SUFFICES ASSUME NEW c \in Calls
             PROVE  Lawful(c) /\ Stays(c)
  OBVIOUS
<1>1. call[c] \in DoCall
  BY DEF SessionInv, Records, Shape, DoCalls
<1> QED BY <1>1, Zenon DEF DoCall, WokenAs, Lawful, Stays, At

\* A step of the read loop, of shutdown or of the environment: streams leave the table and
\* sleepers wake, and no write of a call moves.
LEMMA LoopStep ==
  ASSUME SessionInv, Records', NEW x, NEW e, e \notin {"goaway", "ctx"}, Leave(x, e), WokenAs(call),
         ctx \subseteq ctx', UNCHANGED written, writer' = writer \/ writer'.pc # "write",
         writeCh' = writeCh \/ writeCh' = Append(writeCh, Control)
  PROVE  SessionInv'
<1>1. \A c \in Calls : Lawful(c) /\ Stays(c)
  BY WakingIsLawful
<1> QED BY <1>1, TableKept, ContextsKept, QueueKept, ZenonT(30)
           DEF SessionInv, Records, Leave, IsClosed

\* A step of Do that touches nothing but the call.
LEMMA LocalStep ==
  ASSUME SessionInv, NEW c \in Calls, NEW f \in DoCalls, Local(f),
         \A d \in Calls \ {c} : f[d] = call[d], Lawful(c), call[c].pc \notin {"await", "done"}
  PROVE  SessionInv'
<1>1. \A d \in Calls : Lawful(d) /\ Stays(d)
  BY DEF Local, Lawful, Stays, At
<1>2. Leave({}, "none") /\ UNCHANGED <<s, st, ctx, writeCh, written, writer>>
  BY DEF Local, Leave, Live
<1> QED BY <1>1, <1>2, ContextsKept, QueueKept, TableKept, SMTT(30)
           DEF SessionInv, Records, Shape, Local, IsClosed
-----------------------------------------------------------------------------
(* Do                                                                      *)

\* Do returns r, with no stream of its own in the table.
LEMMA Returning ==
  ASSUME SessionInv, NEW c \in Calls, NEW r \in Results, Local(Returned(c, r)),
         call[c].pc \notin {"await", "done"}, c \notin s.streams,
         r = "goaway" => st[c].id = 0 \/ st[c].result = "goaway", r = "ctx" => c \in ctx
  PROVE  SessionInv'
<1> DEFINE f == Returned(c, r)
<1>1. /\ f \in DoCalls /\ \A d \in Calls \ {c} : f[d] = call[d]
      /\ f[c].pc = "done" /\ f[c].kind = "headers" /\ f[c].result = r
  BY DEF Returned, DoCalls, DoCall, PCs, SessionInv, Records, Shape
<1> QED BY <1>1, LocalStep DEF Lawful, Local

\* Do goes to sleep, sees its context, or resets its stream because of it.
LEMMA Going ==
  ASSUME SessionInv, NEW c \in Calls, call[c].pc \notin {"await", "done"},
         \/ At(c, "acquire") /\ Local(Goes(c, "admission"))
         \/ Local(Goes(c, "flow"))
         \/ c \in ctx /\ Local(Goes(c, "unreserved"))
         \/ c \in ctx /\ Local(Writes(c, "reset"))
  PROVE  SessionInv'
<1>1. call \in DoCalls /\ (call[c].result = "goaway" => At(c, "done"))
  BY DEF SessionInv, Records, Shape, Refusals
<1>2. ASSUME NEW pc \in {"admission", "flow", "unreserved"}, Local(Goes(c, pc)),
             pc = "admission" => At(c, "acquire"), pc = "unreserved" => c \in ctx
      PROVE  SessionInv'
  <2> DEFINE f == Goes(c, pc)
  <2>1. Lawful(c)
    BY <1>2, <1>1, Zenon DEF Lawful, At, Local, Goes, DoCalls, DoCall, PCs
  <2> QED BY <1>2, <2>1, LocalStep, <1>1, ZenonT(30) DEF Goes, DoCalls, DoCall, PCs
<1>3. ASSUME c \in ctx, Local(Writes(c, "reset"))
      PROVE  SessionInv'
  <2> DEFINE f == Writes(c, "reset")
  <2>1. /\ f \in DoCalls /\ \A d \in Calls \ {c} : f[d] = call[d]
        /\ f[c].pc = "write" /\ f[c].result = call[c].result
    BY <1>1 DEF Writes, DoCalls, DoCall, PCs
  <2> QED BY <1>3, <2>1, LocalStep DEF Lawful, At, Local
<1> QED BY <1>2, <1>3

\* The steps of Do that touch nothing but the call.
LEMMA LocalSteps ==
  ASSUME SessionInv, NEW c \in Calls,
         \/ acquireRefused(c) \/ acquireWaits(c) \/ acquireGivesUp(c)
         \/ reserveWaits(c) \/ reserveFinished(c) \/ reserveCancelled(c)
         \/ unreservedReturns(c) \/ unreservedResets(c) \/ awaitResponse(c)
  PROVE  SessionInv'
<1>1. /\ s.closeErr \in SessionErrors \cup {"none"} /\ st[c].result \in Results
      /\ c \in s.streams => ~st[c].finished /\ st[c].id # 0 /\ ~IsClosed
      /\ call[c].pc \in {"acquire", "admission"} => st[c].id = 0
      /\ At(c, "unreserved") \/ st[c].result = "ctx" => c \in ctx
  BY SMTT(30) DEF SessionInv, Records, Shape, Fields, Streams, Stream, Table, StreamsExact, Contexts
<1>2. ASSUME IsClosed, Local(Returned(c, s.closeErr)), call[c].pc \notin {"await", "done"}
      PROVE  SessionInv'
  BY <1>1, <1>2, Returning DEF Results, SessionErrors, IsClosed
<1>3. ASSUME st[c].finished \/ IsClosed, Local(Returned(c, st[c].result)), call[c].pc \notin {"await", "done"}
      PROVE  SessionInv'
  BY <1>1, <1>3, Returning
<1>4. {"ctx", "goaway", "closed", "torn"} \subseteq Results
  BY DEF Results, SessionErrors, StreamErrors
<1>5. CASE acquireRefused(c)
  BY <1>1, <1>2, <1>4, <1>5, Returning, SMTT(30) DEF acquireRefused, At
<1>6. CASE acquireWaits(c)
  BY <1>6, Going, SMTT(30) DEF acquireWaits, At
<1>7. CASE acquireGivesUp(c)
  BY <1>1, <1>2, <1>4, <1>7, Returning, Zenon DEF acquireGivesUp, At
<1>8. CASE reserveWaits(c)
  BY <1>8, Going DEF reserveWaits, At
<1>9. CASE reserveFinished(c)
  BY <1>3, <1>9, SMTT(30) DEF reserveFinished, At
<1>10. CASE reserveCancelled(c)
  BY <1>10, Going, SMTT(30) DEF reserveCancelled, At
<1>11. CASE unreservedReturns(c)
  BY <1>1, <1>3, <1>4, <1>11, Returning DEF unreservedReturns, At
<1>12. CASE unreservedResets(c)
  BY <1>1, <1>12, Going, Zenon DEF unreservedResets, At
<1>13. CASE awaitResponse(c)
  BY <1>2, <1>3, <1>13, Going DEF awaitResponse, At
<1> QED BY <1>5, <1>6, <1>7, <1>8, <1>9, <1>10, <1>11, <1>12, <1>13, Zenon

\* acquireStream: the call gets a stream of its own, with a number not 0.
LEMMA Opening ==
  ASSUME SessionInv, NEW c \in Calls, acquireOpens(c)
  PROVE  SessionInv'
<1>1. /\ s \in Fields /\ st \in Streams /\ call \in DoCalls /\ st[c].id = 0 /\ ~st[c].finished
      /\ s.goAway = NoGoAway /\ ~IsClosed /\ At(c, "acquire")
  BY DEF SessionInv, Records, Shape, Table, acquireOpens, CanOpen, At
<1>2. /\ s' \in Fields /\ s'.streams = s.streams \cup {c} /\ s'.goAway = s.goAway
      /\ s'.closeErr = s.closeErr
  <2>1. s.nextStreamID + 2 \in Nat \ {0} /\ s.streams \cup {c} \in SUBSET Calls
    BY <1>1 DEF Fields
  <2> QED BY <1>1, <2>1, Zenon DEF Fields, acquireOpens
<1>3. /\ st' \in Streams /\ st'[c].id = s.nextStreamID /\ s.nextStreamID # 0
      /\ st'[c].finished = st[c].finished /\ st'[c].result = st[c].result
      /\ \A d \in Calls \ {c} : st'[d] = st[d]
  <2> DEFINE r == [st[c] EXCEPT !.id = s.nextStreamID, !.sendWindow = s.initialStreamWindow]
  <2>1. s.nextStreamID \in Nat \ {0} /\ s.initialStreamWindow \in Int /\ st[c] \in Stream
    BY <1>1 DEF Fields, Streams
  <2> HIDE DEF r
  <2> QED BY <1>1, <2>1, Zenon DEF Streams, acquireOpens, Stream
<1>4. /\ call' \in DoCalls /\ call'[c].pc = "write" /\ call'[c].kind = "headers"
      /\ call'[c].result = call[c].result /\ \A d \in Calls \ {c} : call'[d] = call[d]
  BY <1>1, ZenonT(30) DEF acquireOpens, Writes, DoCalls, DoCall, PCs
<1>5. Table'
  <2>1. ASSUME NEW d \in Calls
        PROVE  /\ d \in s'.streams <=> (st'[d].id # 0 /\ ~st'[d].finished)
               /\ d \in s'.streams => call'[d].pc # "done"
               /\ call'[d].pc \in {"acquire", "admission"} => st'[d].id = 0 /\ ~st'[d].finished
    BY <1>1, <1>2, <1>3, <1>4 DEF SessionInv, Table, StreamsExact, At
  <2> QED BY <2>1, <1>1, <1>2 DEF Table, StreamsExact, At, IsClosed, Fields
<1>6. Refusals'
  BY <1>1, <1>2, <1>3, <1>4 DEF SessionInv, Refusals, At
<1>7. Contexts'
  BY <1>3, <1>4, ZenonT(30) DEF SessionInv, Contexts, At, acquireOpens, env
<1> QED BY <1>5, <1>6, <1>7, <1>2, <1>3, <1>4, QueueKept, <1>1, ZenonT(30)
           DEF SessionInv, Records, Shape, IsClosed, Stays, At, acquireOpens, env

\* The least of four integers is an integer.
LEMMA MinIsInt ==
  ASSUME NEW a \in Int, NEW b \in Int, NEW u \in Int, NEW v \in Int
  PROVE  Min({a, b, u, v}) \in Int
<1> DEFINE S == {a, b, u, v}
<1> QED BY DEF Min

\* reserveSend takes from the windows only.
LEMMA Reserving ==
  ASSUME SessionInv, NEW c \in Calls, reserveSend(c)
  PROVE  SessionInv'
<1>1. /\ s \in Fields /\ st \in Streams /\ call \in DoCalls /\ At(c, "reserve") /\ BodyLen \in Int
  BY SessionAssumption DEF SessionInv, Records, Shape, reserveSend, Reserve, At
<1>2. Available(c) \in Int
  <2>1. s.maxFrameSize \in Int /\ s.connectionWindow \in Int
    BY <1>1 DEF Fields
  <2>2. st[c].sendWindow \in Int /\ BodyLen - call[c].offset \in Int
    BY <1>1 DEF Stream, DoCall, Streams, DoCalls
  <2> QED BY <2>1, <2>2, MinIsInt, Zenon DEF Available
<1>3. PICK size \in Int : Reserve(c, size)
  BY <1>2 DEF reserveSend
<1>4. s' \in Fields /\ s'.streams = s.streams /\ s'.goAway = s.goAway /\ s'.closeErr = s.closeErr
  BY <1>1, <1>3 DEF Reserve, Fields
<1>5. /\ st' \in Streams
      /\ \A d \in Calls : /\ st'[d].id = st[d].id /\ st'[d].finished = st[d].finished
                          /\ st'[d].result = st[d].result
  BY <1>1, <1>3 DEF Reserve, Streams, Stream
<1>6. /\ call' \in DoCalls /\ call'[c].pc = "write" /\ call'[c].kind = "data"
      /\ call'[c].result = call[c].result /\ \A d \in Calls \ {c} : call'[d] = call[d]
  <2> DEFINE r == [call[c] EXCEPT !.pc = "write", !.kind = "data", !.size = size]
  <2>1. r \in DoCall /\ r.pc = "write" /\ r.kind = "data" /\ r.result = call[c].result
    BY <1>1, Zenon DEF DoCalls, DoCall, PCs
  <2> HIDE DEF r
  <2> QED BY <1>1, <2>1, <1>3, Zenon DEF DoCalls, Reserve, Writes, DoCall
<1>7. Leave({}, "none")
  BY <1>4, <1>5 DEF Leave, Live
<1>8. \A d \in Calls : Lawful(d) /\ Stays(d)
  BY <1>1, <1>6 DEF Lawful, Stays, At
<1>9. UNCHANGED <<ctx, writeCh, written, writer, reader, wire>> /\ (IsClosed => IsClosed')
  BY <1>3, <1>4, Zenon DEF Reserve, env, IsClosed
<1>10. Shape' /\ Records'
  BY <1>4, <1>5, <1>6, <1>9 DEF SessionInv, Records, Shape
<1> QED BY <1>5, <1>7, <1>8, <1>9, <1>10, TableKept, ContextsKept, QueueKept, Zenon DEF SessionInv
-----------------------------------------------------------------------------
(* Session.write                                                           *)

\* What Do does after a write: it goes on, or finishes its stream and returns.
AfterEffect(c) ==
  \/ /\ call' \in DoCalls /\ call'[c].pc \in {"reserve", "response"} /\ call'[c].result = call[c].result
     /\ \A d \in Calls \ {c} : call'[d] = call[d]
     /\ UNCHANGED <<s, st>>
  \/ \E e \in Results \ {"goaway"} :
       (e = "ctx" => c \in ctx) /\ FinishStreams({c}, e, Returned(c, e))

\* A call that goes on with the next part of the body.
MovedTo(q, pc, n, k) == [q EXCEPT !.pc = pc, !.offset = n, !.size = k]

\* It keeps its result.
LEMMA Moving ==
  ASSUME NEW q \in DoCall, NEW pc \in PCs, NEW n \in Int, NEW k \in Int
  PROVE  /\ MovedTo(q, pc, n, k) \in DoCall
         /\ MovedTo(q, pc, n, k).pc = pc /\ MovedTo(q, pc, n, k).result = q.result
BY Zenon DEF MovedTo, DoCall

\* After a write that failed, or a reset, the stream is finished.
LEMMA AfterWriting ==
  ASSUME SessionInv, NEW c \in Calls, NEW r \in {"ok", "ctx"} \cup SessionErrors,
         r = "ctx" => c \in ctx, AfterWrite(c, r), call[c].pc \in {"write", "await"}
  PROVE  /\ AfterEffect(c)
         /\ r # "ok" \/ call[c].kind = "reset" =>
              \E e \in Results : FinishStreams({c}, e, Returned(c, e))
<1>1. call \in DoCalls /\ call[c] \in DoCall /\ (call[c].kind = "reset" => c \in ctx)
  BY DEF SessionInv, Records, Shape, DoCalls, Contexts
<1>2. CASE call[c].kind = "headers" /\ r = "ok" /\ call' = Goes(c, "reserve") /\ UNCHANGED <<s, st>>
  BY <1>1, <1>2, SMTT(30) DEF AfterEffect, Goes, DoCalls, DoCall, PCs
<1>3. CASE /\ call[c].kind = "data" /\ r = "ok"
           /\ LET sent == call[c].offset + call[c].size
              IN call' = [Goes(c, IF sent = BodyLen THEN "response" ELSE "reserve")
                            EXCEPT ![c].offset = sent, ![c].size = 0]
           /\ UNCHANGED <<s, st>>
  <2> DEFINE sent == call[c].offset + call[c].size
             pc == IF sent = BodyLen THEN "response" ELSE "reserve"
             q == MovedTo(call[c], pc, sent, 0)
  <2>1. call' = [call EXCEPT ![c] = q]
    BY <1>1, <1>3, Zenon DEF Goes, DoCalls, DoCall, MovedTo
  <2>2. sent \in Int /\ 0 \in Int /\ pc \in {"reserve", "response"} /\ pc \in PCs
    BY <1>1 DEF DoCall, PCs
  <2> HIDE DEF sent, pc
  <2>3. q \in DoCall /\ q.pc = pc /\ q.result = call[c].result
    BY <1>1, <2>2, Moving
  <2> HIDE DEF q
  <2> QED BY <1>1, <1>3, <2>1, <2>2, <2>3, ZenonT(30) DEF AfterEffect, DoCalls
<1>4. CASE call[c].kind # "reset" /\ r # "ok" /\ FinishStreams({c}, r, Returned(c, r))
  BY <1>4 DEF AfterEffect, Results, SessionErrors, StreamErrors
<1>5. CASE call[c].kind = "reset" /\ FinishStreams({c}, "ctx", Returned(c, "ctx"))
  BY <1>1, <1>5 DEF AfterEffect, Results, SessionErrors, StreamErrors
<1> QED BY <1>2, <1>3, <1>4, <1>5, Zenon DEF AfterWrite

\* Session.write returns to its call: the write is done, was never queued, or is given up,
\* and then the call returns.
LEMMA WriteReturning ==
  ASSUME SessionInv, NEW c \in Calls, NEW r \in {"ok", "ctx"} \cup SessionErrors,
         r = "ctx" => c \in ctx, AfterWrite(c, r), call[c].pc \in {"write", "await"},
         \/ At(c, "write") \/ written[c] \notin {"queued", "started"}
         \/ r # "ok" /\ (IsClosed \/ (Cancelled(c) /\ written[c] = "queued"))
  PROVE  SessionInv'
<1>1. /\ UNCHANGED <<ctx, writeCh, writer, reader, wire>>
      /\ written' = [written EXCEPT ![c] = "none"]
  BY DEF AfterWrite
<1>2. Shape /\ call \in DoCalls /\ (call[c].result = "goaway" => At(c, "done"))
  BY SMTT(30) DEF SessionInv, Records, Shape, Refusals
<1>3. ASSUME NEW e \in Results, FinishStreams({c}, e, Returned(c, e))
      PROVE  /\ Shape' /\ Leave({c}, e) /\ call'[c].pc = "done"
             /\ (e # "goaway" /\ (e = "ctx" => c \in ctx)) => \A d \in Calls : Lawful(d)
             /\ \A d \in Calls \ {c} : Stays(d)
  <2> DEFINE f == Returned(c, e)
  <2>1. /\ f \in DoCalls /\ \A d \in Calls \ {c} : f[d] = call[d]
        /\ f[c].pc = "done" /\ f[c].kind = "headers" /\ f[c].result = e
    BY <1>2, <1>3, SMTT(30) DEF Returned, DoCalls, DoCall, PCs
  <2> HIDE DEF f
  <2>2. Shape' /\ Leave({c}, e) /\ WokenAs(f)
    BY <1>2, <1>3, <2>1, Finishing, Zenon DEF f
  <2>3. ASSUME NEW d \in Calls, d # c
        PROVE  Lawful(d) /\ Stays(d)
    <3>1. /\ call'[d].result = call[d].result /\ call'[d].kind = call[d].kind
          /\ \/ call'[d].pc = call[d].pc
             \/ call[d].pc = "admission" /\ call'[d].pc = "acquire"
             \/ call[d].pc = "flow" /\ call'[d].pc = "reserve"
      <4>1. \/ call'[d] = call[d]
            \/ call[d].pc = "admission" /\ call'[d] = [call[d] EXCEPT !.pc = "acquire"]
            \/ call[d].pc = "flow" /\ call'[d] = [call[d] EXCEPT !.pc = "reserve"]
        BY <2>2, <1>2, <2>1, <2>3, ZenonT(30) DEF WokenAs, DoCalls, SessionInv, Refusals
      <4> QED BY <4>1, <1>2, <2>1, <2>3 DEF DoCall, DoCalls, SessionInv, Refusals
    <3> QED BY <3>1 DEF Lawful, Stays, At
  <2>4. (e # "goaway" /\ (e = "ctx" => c \in ctx)) => Lawful(c)
    BY <2>1, <2>2, Zenon DEF Lawful, At, WokenAs, Leave
  <2> QED BY <2>1, <2>2, <2>3, <2>4, Zenon DEF WokenAs, Leave
<1>4. /\ Shape' /\ \A d \in Calls : Lawful(d)
      /\ \A d \in Calls \ {c} : Stays(d)
      /\ \E x, e : e # "goaway" /\ (e = "ctx" => Live(x) \subseteq ctx) /\ Leave(x, e)
  <2>1. CASE /\ call' \in DoCalls /\ call'[c].pc \in {"reserve", "response"}
             /\ call'[c].result = call[c].result
             /\ \A d \in Calls \ {c} : call'[d] = call[d]
             /\ UNCHANGED <<s, st>>
    <3>1. Leave({}, "none") /\ \A d \in Calls \ {c} : Stays(d)
      BY <2>1, SMTT(30) DEF Leave, Live, Stays, At
    <3> QED BY <3>1, <1>2, <2>1, Zenon DEF Shape, Lawful, At
  <2>2. ASSUME NEW e \in Results \ {"goaway"}, e = "ctx" => c \in ctx, FinishStreams({c}, e, Returned(c, e))
        PROVE  <1>4!:
    BY <1>3, <2>2, Zenon DEF Live
  <2> QED BY <2>1, <2>2, AfterWriting, Zenon DEF AfterEffect
<1>5. IsClosed => IsClosed'
  BY <1>4, SMTT(30) DEF Leave, IsClosed
<1>6. ASSUME NEW d \in Calls, d # c PROVE QueueOf(d)'
  BY <1>1, <1>4, <1>5, <1>6, QueueOfKept, Zenon DEF SessionInv, Records
<1>7. QueueOf(c)'
  <2>1. CASE At(c, "write") \/ written[c] \notin {"queued", "started"}
    BY <1>1, <2>1, SMTT(30) DEF QueueOf, Owned, SessionInv, Queue, At
  <2>2. CASE r # "ok" /\ (IsClosed \/ (Cancelled(c) /\ written[c] = "queued"))
    BY <1>1, <1>5, <2>2, <1>3, AfterWriting, ZenonT(30)
       DEF SessionInv, Queue, QueueOf, Owned, At, Cancelled
  <2> QED BY <2>1, <2>2, ZenonT(30)
<1> QED BY <1>6, <1>7, <1>1, <1>4, TableKept, ContextsKept, ZenonT(30)
           DEF SessionInv, Queue, Records, Leave

\* A write refused, finished or given up.
LEMMA WriteEnds ==
  ASSUME SessionInv, NEW c \in Calls, writeRefused(c) \/ writeReturns(c) \/ writeGivesUp(c)
  PROVE  SessionInv'
<1>1. /\ IsClosed => s.closeErr \in {"ok", "ctx"} \cup SessionErrors /\ s.closeErr \notin {"ok", "ctx"}
      /\ written[c] = "ctx" => c \in ctx
      /\ "write" \in SessionErrors
  BY Zenon DEF SessionInv, Records, Shape, Fields, Contexts, IsClosed, SessionErrors
<1>2. CASE writeRefused(c)
  BY <1>1, <1>2, WriteReturning, Zenon DEF writeRefused, Cancelled, At
<1>3. CASE writeReturns(c)
  BY <1>1, WriteReturning, <1>3, Zenon DEF At, writeReturns
<1>4. CASE writeGivesUp(c)
  BY <1>1, <1>4, WriteReturning, Zenon DEF writeGivesUp, Cancelled, At
<1> QED BY <1>2, <1>3, <1>4, Zenon

\* A write is queued; the call has no other one.
LEMMA WriteQueued ==
  ASSUME SessionInv, NEW c \in Calls, writeQueues(c)
  PROVE  SessionInv'
<1> DEFINE job == Job(c, call[c].kind, call[c].size, call[c].offset = 0)
<1>1. /\ call \in DoCalls /\ call[c] \in DoCall /\ At(c, "write") /\ writeCh \in Seq(Jobs)
      /\ written \in [Calls -> {"none", "queued", "started", "ok", "write", "ctx"}]
  BY DEF SessionInv, Records, Shape, DoCalls, writeQueues
<1>2. /\ writeCh' = Append(writeCh, job) /\ written' = [written EXCEPT ![c] = "queued"]
      /\ call' = Goes(c, "await") /\ UNCHANGED <<s, st, ctx, writer, reader, wire>>
  BY DEF writeQueues
<1>3. job \in CallJobs /\ job.call = c /\ job.kind = call[c].kind
  BY <1>1 DEF Job, CallJobs, DoCall
<1> HIDE DEF job
<1>4. /\ call' \in DoCalls /\ call'[c].pc = "await" /\ call'[c].kind = call[c].kind
      /\ call'[c].result = call[c].result /\ \A d \in Calls \ {c} : call'[d] = call[d]
  BY <1>1, <1>2, ZenonT(30) DEF Goes, DoCalls, DoCall, PCs
<1>5. /\ writeCh' \in Seq(Jobs) /\ Len(writeCh') = Len(writeCh) + 1
      /\ writeCh'[Len(writeCh) + 1] = job /\ \A i \in 1..Len(writeCh) : writeCh'[i] = writeCh[i]
  BY <1>1, <1>2, <1>3, SMTT(30) DEF Jobs
<1>6. \A d \in Calls : Lawful(d)
  BY <1>1, <1>4, Zenon DEF Lawful, At
<1>7. Leave({}, "none")
  BY <1>2, SMTT(30) DEF Leave, Live
<1>8. Table' /\ Refusals'
  BY <1>6, <1>7, TableKept, <1>1, <1>2, <1>4, <1>5, ZenonT(30) DEF SessionInv, Records, Shape
<1>9. ASSUME NEW d \in Calls, d # c PROVE QueueOf(d)'
  BY <1>2, QueueOfKept, <1>1, <1>3, <1>4, <1>9, <1>5, SMTT(30) DEF Stays, At, IsClosed, Owned
<1>10. QueueOf(c)'
  <2>1. /\ \A i \in 1..Len(writeCh) : ~Owned(writeCh[i], c)
        /\ ~(writer.pc = "write" /\ Owned(writer.job, c))
    BY <1>1 DEF SessionInv, Queue, QueueOf, At
  <2> QED BY <2>1, <1>2, <1>3, <1>4, <1>5, <1>1 DEF QueueOf, At
<1>11. Contexts'
  BY <1>6, <1>1, <1>2, ContextsKept, ZenonT(30)
<1>12. Records'
  BY <1>1, <1>2, <1>4, <1>5 DEF SessionInv, Records, Shape
<1> QED BY <1>8, <1>9, <1>10, <1>11, <1>12, Zenon DEF SessionInv, Queue
-----------------------------------------------------------------------------
(* writeLoop                                                               *)

\* The write loop tells a waiting call w about its write, and no other call anything.
LEMMA Telling ==
  ASSUME SessionInv, NEW job \in Jobs, NEW w \in {"none", "queued", "started", "ok", "write", "ctx"},
         written' = Tells(job, w)
  PROVE  /\ written' \in [Calls -> {"none", "queued", "started", "ok", "write", "ctx"}]
         /\ \A c \in Calls : ~Owned(job, c) => written'[c] = written[c]
         /\ \A c \in Calls : Owned(job, c) => written'[c] = IF At(c, "await") THEN w ELSE written[c]
<1>1. CASE job = Control
  BY <1>1 DEF Tells, Owned, SessionInv, Records, Control, Job, CallJobs
<1>2. CASE job # Control
  BY <1>2, ZenonT(30) DEF Tells, Owned, SessionInv, Records, Jobs, CallJobs
<1> QED BY <1>1, <1>2

\* A step of the write loop leaves the table alone.
LEMMA TableAlone ==
  ASSUME SessionInv, UNCHANGED <<s, st, call, ctx>>, Shape',
         \A c \in Calls : written'[c] = "ctx" => written[c] = "ctx" \/ c \in ctx
  PROVE  Table' /\ Refusals' /\ Contexts'
<1>1. Leave({}, "none")
  BY Zenon DEF Leave, Live
<1> QED BY <1>1, TableKept, ContextsKept, Zenon DEF Lawful, At

\* The head of the queue is started, or dropped because its context is done.  A call that
\* gave its write up has a context that is done, or the session is closed.
LEMMA Taking ==
  ASSUME SessionInv, WriterTakes
  PROVE  SessionInv'
<1> DEFINE job == Head(writeCh)
<1>1. writeCh \in Seq(Jobs) /\ writeCh # <<>> /\ writer.pc = "take" /\ Shape
  BY DEF SessionInv, Records, WriterTakes
<1>2. /\ job \in Jobs /\ job = writeCh[1] /\ 1 \in 1..Len(writeCh)
      /\ writeCh' \in Seq(Jobs) /\ Len(writeCh') = Len(writeCh) - 1 /\ Len(writeCh) \in Nat
      /\ \A i \in 1..Len(writeCh') : i + 1 \in 1..Len(writeCh) /\ writeCh'[i] = writeCh[i + 1]
  BY <1>1 DEF WriterTakes
<1>3. /\ writer' = IF OverdueJob(job) THEN writer ELSE [writer EXCEPT !.pc = "write", !.job = job]
      /\ written' = Tells(job, IF OverdueJob(job) THEN "ctx" ELSE "started")
      /\ UNCHANGED <<s, st, call, ctx, reader, wire>>
  BY DEF WriterTakes
<1> HIDE DEF job
<1>4. /\ written' \in [Calls -> {"none", "queued", "started", "ok", "write", "ctx"}]
      /\ \A c \in Calls : ~Owned(job, c) => written'[c] = written[c]
      /\ \A c \in Calls : Owned(job, c) =>
           written'[c] = IF At(c, "await") THEN (IF OverdueJob(job) THEN "ctx" ELSE "started") ELSE written[c]
  BY <1>2, <1>3, Telling
<1>5. /\ writer' \in [pc : {"take", "write", "stop", "exited"}, job : Jobs, err : {"none", "write", "writeCtx"}]
      /\ writer'.pc # "stop"
      /\ writer'.pc = "write" => ~OverdueJob(job) /\ writer'.job = job
  BY <1>1, <1>2, <1>3, Zenon DEF SessionInv, Records
<1>6. ASSUME NEW c \in Calls, ~Owned(job, c) PROVE QueueOf(c)'
  <2>1. ~(writer'.pc = "write" /\ Owned(writer'.job, c)) /\ written'[c] = written[c] /\ QueueOf(c)
    BY <1>4, <1>5, <1>6 DEF SessionInv, Queue, Owned
  <2>2. ASSUME NEW i \in 1..Len(writeCh'), NEW k \in 1..Len(writeCh'),
               Owned(writeCh'[i], c), Owned(writeCh'[k], c)
        PROVE  i = k
    <3>1. /\ i + 1 \in 1..Len(writeCh) /\ writeCh'[i] = writeCh[i + 1]
          /\ k + 1 \in 1..Len(writeCh) /\ writeCh'[k] = writeCh[k + 1]
      BY <1>2, <2>2, Zenon
    <3>2. i + 1 = k + 1
      BY <2>1, <2>2, <3>1, Zenon DEF QueueOf
    <3> QED BY <1>2, <3>2
  <2> QED BY <2>1, <2>2, <1>2, <1>3 DEF QueueOf, At, Owned, IsClosed
<1>7. ASSUME NEW c \in Calls, Owned(job, c) PROVE QueueOf(c)'
  <2>1. QueueOf(c)
    BY Zenon DEF SessionInv, Queue
  <2>2. ASSUME NEW i \in 1..Len(writeCh'), Owned(writeCh'[i], c) PROVE FALSE
    <3>1. i + 1 \in 1..Len(writeCh) /\ Owned(writeCh[i + 1], c) /\ Owned(writeCh[1], c)
      BY <1>2, <1>7, <2>2, Zenon
    <3>2. i + 1 = 1
      BY <1>2, <2>1, <3>1, Zenon DEF QueueOf
    <3> QED BY <1>2, <3>2
  <2>3. At(c, "await") \/ (At(c, "done") /\ (IsClosed \/ OverdueJob(job)))
    BY <1>2, <1>7, <2>1 DEF QueueOf, Owned, CallJobs, OverdueJob
  <2>4. writer'.pc = "write" =>
          (At(c, "await") /\ written'[c] = "started") \/ (At(c, "done") /\ IsClosed)
    <3>1. writer'.pc = "write" => ~OverdueJob(job)
      BY <1>5, Zenon
    <3>2. At(c, "await") /\ ~OverdueJob(job) => written'[c] = "started"
      BY <1>4, <1>7, Zenon
    <3> QED BY <2>3, <3>1, <3>2, Zenon
  <2>5. (At(c, "await") => At(c, "await")') /\ (At(c, "done") => At(c, "done")') /\ (IsClosed => IsClosed')
    BY <1>3, Zenon DEF At, IsClosed
  <2> QED BY <2>2, <2>4, <2>5, Zenon DEF QueueOf
<1> QED BY <1>6, <1>7, <1>1, <1>2, <1>3, <1>4, <1>5, TableAlone
           DEF SessionInv, Queue, Records, Shape, Owned, OverdueJob

\* What the server gets is of the job's call.
LEMMA Wiring ==
  ASSUME SessionInv, NEW job \in Jobs, NEW n \in Int
  PROVE  /\ OnWire(job, n) \in [opened : SUBSET Calls, data : [Calls -> Int], committed : SUBSET Calls, credit : Int]
         /\ \A c \in Calls : ~Owned(job, c) => OnWire(job, n).data[c] = wire.data[c]
<1>1. wire \in [opened : SUBSET Calls, data : [Calls -> Int], committed : SUBSET Calls, credit : Int]
  BY DEF SessionInv, Records
<1>2. CASE job.kind \in {"reset", "control"}
  BY <1>1, <1>2 DEF OnWire
<1>3. CASE job.kind \notin {"reset", "control"}
  <2>1. job \in CallJobs /\ job.call \in Calls /\ job.kind \in {"headers", "data"}
    BY <1>3 DEF Jobs, CallJobs, Control, Job
  <2>2. CASE job.kind = "headers"
    BY <1>1, <2>1, <2>2 DEF OnWire
  <2>3. CASE job.kind = "data"
    <3> DEFINE first == IF job.first THEN wire.committed \cup {job.call} ELSE wire.committed
               sent == [wire.data EXCEPT ![job.call] = wire.data[job.call] + n]
    <3>1. OnWire(job, n) = [wire EXCEPT !.data = sent, !.committed = first]
      BY <1>1, <2>3 DEF OnWire
    <3>2. first \in SUBSET Calls /\ sent \in [Calls -> Int]
      BY <1>1, <2>1
    <3>3. \A c \in Calls : ~Owned(job, c) => sent[c] = wire.data[c]
      BY <1>1, <2>1, Zenon DEF Owned
    <3> HIDE DEF first, sent
    <3> QED BY <1>1, <3>1, <3>2, <3>3, Zenon
  <2> QED BY <2>1, <2>2, <2>3
<1> QED BY <1>2, <1>3

\* The write loop is through with a write, or fails at it.
LEMMA Writing ==
  ASSUME SessionInv, WriterWrites \/ WriterFails
  PROVE  /\ SessionInv'
         /\ \A c \in Calls : At(c, "done") /\ ~IsClosed => wire'.data[c] = wire.data[c]
<1> DEFINE job == writer.job
<1>1. /\ writer \in [pc : {"take", "write", "stop", "exited"}, job : Jobs, err : {"none", "write", "writeCtx"}]
      /\ wire \in [opened : SUBSET Calls, data : [Calls -> Int], committed : SUBSET Calls, credit : Int]
      /\ writer.pc = "write" /\ job \in Jobs /\ Control \in Jobs /\ Shape
  BY DEF SessionInv, Records, WriterWrites, WriterFails, Jobs
<1>2. UNCHANGED <<s, st, call, ctx, writeCh, reader>>
  BY DEF WriterWrites, WriterFails
<1>3. /\ writer' \in [pc : {"take", "write", "stop", "exited"}, job : Jobs, err : {"none", "write", "writeCtx"}]
      /\ writer'.pc # "write" /\ (writer'.pc = "stop" => writer'.err # "none")
  BY <1>1, Zenon DEF WriterWrites, WriterFails
<1>4. wire' = wire \/ \E n \in Int : wire' = OnWire(job, n)
  <2>1. CASE WriterWrites
    BY <2>1, <1>1, SMTT(30) DEF WriterWrites, Jobs, CallJobs, Control, Job, OnWire
  <2>2. CASE WriterFails
    BY <2>2, <1>1, SMTT(30) DEF WriterFails, Jobs, CallJobs, Control, Job
  <2> QED BY <2>1, <2>2
<1>5. /\ wire' \in [opened : SUBSET Calls, data : [Calls -> Int], committed : SUBSET Calls, credit : Int]
      /\ \A c \in Calls : ~Owned(job, c) => wire'.data[c] = wire.data[c]
  BY <1>1, <1>4, Wiring, SMTT(30)
<1>6. /\ written' \in [Calls -> {"none", "queued", "started", "ok", "write", "ctx"}]
      /\ \A c \in Calls : ~Owned(job, c) => written'[c] = written[c]
      /\ \A c \in Calls : written'[c] = "ctx" => written[c] = "ctx" \/ c \in ctx
  <2>1. PICK w \in {"ok", "write", "ctx"} : written' = Tells(job, w) /\ (w = "ctx" => OverdueJob(job))
    BY DEF WriterWrites, WriterFails
  <2> QED BY <1>1, <2>1, Telling DEF Owned, OverdueJob
<1>7. ASSUME NEW c \in Calls, ~Owned(job, c) PROVE QueueOf(c)'
  BY <1>2, <1>3, <1>6, <1>7, QueueOfKept, Zenon DEF Stays, At, IsClosed
<1>8. ASSUME NEW c \in Calls, Owned(job, c) PROVE QueueOf(c)'
  BY <1>1, <1>2, <1>3, <1>8, ZenonT(30) DEF SessionInv, Queue, QueueOf, Owned
<1>9. ASSUME NEW c \in Calls, At(c, "done"), ~IsClosed PROVE wire'.data[c] = wire.data[c]
  BY <1>1, <1>5, <1>9, Zenon DEF SessionInv, Queue, QueueOf, At
<1> QED BY <1>7, <1>8, <1>9, <1>1, <1>2, <1>3, <1>5, <1>6, TableAlone
           DEF SessionInv, Queue, Records, Shape

\* The write loop shuts the session down, or sees that it is closed.
LEMMA Stopping ==
  ASSUME SessionInv, WriterStops \/ WriterExits
  PROVE  SessionInv'
<1>1. /\ writer \in [pc : {"take", "write", "stop", "exited"}, job : Jobs, err : {"none", "write", "writeCtx"}]
      /\ Shape /\ Control \in Jobs /\ (writer.pc = "stop" => writer.err \in SessionErrors)
  BY DEF SessionInv, Records, Jobs, SessionErrors
<1>2. /\ writer' \in [pc : {"take", "write", "stop", "exited"}, job : Jobs, err : {"none", "write", "writeCtx"}]
      /\ writer'.pc = "exited" /\ UNCHANGED <<ctx, writeCh, written, reader, wire>>
  BY <1>1, Zenon DEF WriterStops, WriterExits
<1>3. Shape' /\ WokenAs(call) /\ \E x, e : e \notin {"goaway", "ctx"} /\ Leave(x, e)
  <2>1. CASE WriterStops
    BY <1>1, ShuttingDown, <2>1 DEF WriterStops, SessionErrors
  <2>2. CASE WriterExits
    BY <1>1, Unmoved, <2>2 DEF WriterExits
  <2> QED BY <2>1, <2>2
<1> QED BY <1>2, <1>3, LoopStep DEF SessionInv, Records
-----------------------------------------------------------------------------
(* readLoop                                                                *)

\* A frame was read, and streams left the table for a reason other than GOAWAY.
LEMMA FrameRead ==
  ASSUME SessionInv, NEW next \in {Reading, Queueing}, Reads(next), Shape', WokenAs(call),
         NEW x, NEW e, e \notin {"goaway", "ctx"}, Leave(x, e),
         wire' \in [opened : SUBSET Calls, data : [Calls -> Int], committed : SUBSET Calls, credit : Int]
  PROVE  SessionInv'
  BY LoopStep DEF Reads, Reading, Queueing, SessionInv, Records

\* Only windows, limits or what was read of a response change.
LEMMA Touching ==
  ASSUME s'.streams = s.streams, s'.goAway = s.goAway, s'.closeErr = s.closeErr,
         \A c \in Calls : /\ st'[c].id = st[c].id /\ st'[c].finished = st[c].finished
                          /\ st'[c].result = st[c].result
  PROVE  Leave({}, "none")
BY DEF Leave, Live

\* The connection breaks, or the server breaks the protocol.
LEMMA ReadEnds ==
  ASSUME SessionInv, ReadFails \/ ReadViolation
  PROVE  SessionInv'
<1>1. /\ "read" \in SessionErrors /\ "protocol" \in SessionErrors /\ Shape
      /\ {"read", "protocol"} \cap {"goaway", "ctx"} = {}
  BY DEF SessionErrors, SessionInv, Records
<1>2. CASE ReadFails
  BY <1>1, LoopStep, ShuttingDown, <1>2, Zenon DEF SessionInv, Records, ReadFails
<1>3. CASE ReadViolation
  BY <1>1, FrameRead, <1>3, ShuttingDown, Zenon DEF SessionInv, Records, ReadViolation
<1> QED BY <1>2, <1>3

\* The stream of c is finished by a frame.
LEMMA FrameFinishes ==
  ASSUME SessionInv, NEW c \in Calls, NEW e \in {"response", "protocol", "tooLarge", "reset"},
         NEW next \in {Reading, Queueing}, Reads(next), FinishStreams({c}, e, call), UNCHANGED wire
  PROVE  SessionInv'
  BY FrameRead, Finishing, ZenonT(30) DEF SessionInv, Records, Shape, Results, StreamErrors

\* One field of the stream of c changes, and it is not the number or the result.
LEMMA FrameTouches ==
  ASSUME SessionInv, NEW c \in Calls, NEW q \in Stream,
         q.id = st[c].id, q.finished = st[c].finished, q.result = st[c].result,
         st' = [st EXCEPT ![c] = q], s' = s, call' = call \/ call' = signalFlow(call),
         Reads(Reading), UNCHANGED wire
  PROVE  SessionInv'
<1>1. Shape /\ st \in Streams /\ call \in DoCalls
  BY DEF SessionInv, Records, Shape
<1>2. call' \in DoCalls /\ WokenAs(call)
  <2>1. CASE call' = call
    BY <1>1, <2>1 DEF WokenAs
  <2>2. CASE call' = signalFlow(call)
    BY <1>1, <2>2, Waking
  <2> QED BY <2>1, <2>2
<1> QED BY <1>2, FrameRead, <1>1, Touching, Zenon DEF SessionInv, Records, Shape, Streams

\* Frames about one stream.
LEMMA Answering ==
  ASSUME SessionInv, NEW c \in Calls, Answers(c)
  PROVE  SessionInv'
<1>1. Shape /\ st[c] \in Stream /\ call \in DoCalls
  BY DEF SessionInv, Records, Shape, Streams
<1>2. CASE ReadMalformed(c) \/ ReadReset(c)
  BY <1>2, FrameFinishes DEF ReadMalformed, ReadReset
<1>3. ASSUME NEW invalid \in BOOLEAN, ReadInformational(c, invalid)
      PROVE  SessionInv'
  <2> DEFINE n == st[c].informational + 1
             q == [st[c] EXCEPT !.informational = n]
  <2>1. /\ Reads(Reading) /\ wire' = wire
        /\ \/ FinishStreams({c}, "protocol", call)
           \/ st' = [st EXCEPT ![c] = q] /\ UNCHANGED <<s, call>>
    BY <1>3 DEF ReadInformational
  <2>2. q \in Stream /\ q.id = st[c].id /\ q.finished = st[c].finished /\ q.result = st[c].result
    <3>1. n \in Nat
      BY <1>1 DEF Stream
    <3> HIDE DEF n
    <3> QED BY <1>1, <3>1 DEF Stream
  <2> HIDE DEF q
  <2> QED BY <2>1, <2>2, FrameFinishes, FrameTouches
<1>4. ASSUME NEW end \in BOOLEAN, NEW r \in {"response", "protocol", "tooLarge"}, ReadHeaders(c, end, r)
      PROVE  SessionInv'
  <2> DEFINE q == [st[c] EXCEPT !.headersReceived = TRUE]
  <2>1. /\ Reads(Reading) /\ wire' = wire
        /\ \/ FinishStreams({c}, "protocol", call) \/ FinishStreams({c}, r, call)
           \/ st' = [st EXCEPT ![c] = q] /\ UNCHANGED <<s, call>>
    BY <1>4 DEF ReadHeaders
  <2>2. q \in Stream /\ q.id = st[c].id /\ q.finished = st[c].finished /\ q.result = st[c].result
    BY <1>1, Zenon DEF Stream
  <2> HIDE DEF q
  <2> QED BY <2>1, <2>2, FrameFinishes, FrameTouches
<1>5. ASSUME NEW d \in {"more", "response", "protocol", "tooLarge"}, ReadData(c, d)
      PROVE  SessionInv'
  BY LoopStep, <1>1, Unmoved, <1>5, Zenon
     DEF SessionInv, Records, ReadData, Reads, Reading, Queueing
<1> QED BY <1>2, <1>3, <1>4, <1>5, Zenon DEF Answers

\* The read loop queues a frame of its own, and then handles the DATA it read.
LEMMA ReaderQueueing ==
  ASSUME SessionInv, ReaderQueues
  PROVE  SessionInv'
<1>1. /\ Shape /\ call \in DoCalls /\ writeCh \in Seq(Jobs) /\ Control \in Jobs
      /\ reader.data # "none" => reader.of \in Calls /\ reader.data \in {"more", "response", "protocol", "tooLarge"}
  BY DEF SessionInv, Records, Shape, Jobs
<1>2. writeCh' \in Seq(Jobs)
  BY <1>1, SMTT(30) DEF ReaderQueues, Reading
<1>3. Shape' /\ WokenAs(call) /\ \E x, e : e \notin {"goaway", "ctx"} /\ Leave(x, e)
  <2>1. CASE UNCHANGED <<s, st, call>>
    BY <1>1, <2>1, Unmoved
  <2>2. ASSUME NEW x, NEW e \in {"response", "protocol", "tooLarge"}, FinishStreams(x, e, call)
        PROVE  Shape' /\ WokenAs(call) /\ e \notin {"goaway", "ctx"} /\ Leave(x, e)
    BY <1>1, <2>2, Finishing, Zenon DEF Results, StreamErrors
  <2> QED BY <2>1, <2>2, <1>1 DEF ReaderQueues, HandledData
<1> QED BY <1>3, LoopStep, <1>2 DEF SessionInv, Records, ReaderQueues, Reading

\* WINDOW_UPDATE, SETTINGS and PING.
LEMMA Tuning ==
  ASSUME SessionInv,
         \/ \E n \in Increments : ReadConnectionUpdate(n) \/ \E c \in Calls : ReadStreamUpdate(c, n)
         \/ \E n \in 0..WindowSize : ReadInitialWindow(n)
         \/ \E n \in FrameSizes : ReadFrameSize(n)
         \/ \E n \in StreamLimits : ReadMaxConcurrent(n)
         \/ ReadPing
  PROVE  SessionInv'
<1>1. /\ Shape /\ s \in Fields /\ st \in Streams /\ call \in DoCalls
      /\ wire \in [opened : SUBSET Calls, data : [Calls -> Int], committed : SUBSET Calls, credit : Int]
      /\ Increments \subseteq Int /\ 0..WindowSize \subseteq Int /\ FrameSizes \subseteq Nat
      /\ StreamLimits \subseteq Nat /\ "none" \notin {"goaway", "ctx"}
  BY SessionAssumption DEF SessionInv, Records, Shape
<1>2. ASSUME NEW n \in Increments, ReadConnectionUpdate(n)
      PROVE  SessionInv'
  BY <1>1, FrameRead, <1>2, Waking, Touching, SMTT(30) DEF ReadConnectionUpdate, Fields, Shape
<1>3. ASSUME NEW n \in Increments, NEW c \in Calls, ReadStreamUpdate(c, n)
      PROVE  SessionInv'
  <2> DEFINE q == [st[c] EXCEPT !.sendWindow = st[c].sendWindow + n]
  <2>1. Reads(Reading) /\ wire' = wire /\ s' = s /\ call' = signalFlow(call) /\ st' = [st EXCEPT ![c] = q]
    BY <1>3 DEF ReadStreamUpdate
  <2>2. q \in Stream /\ q.id = st[c].id /\ q.finished = st[c].finished /\ q.result = st[c].result
    BY <1>1 DEF Streams, Stream
  <2> HIDE DEF q
  <2> QED BY <2>1, <2>2, FrameTouches, Zenon
<1>4. ASSUME NEW n \in 0..WindowSize, ReadInitialWindow(n)
      PROVE  SessionInv'
  <2>1. ASSUME NEW d \in Calls
        PROVE  /\ st'[d] \in Stream /\ st'[d].id = st[d].id /\ st'[d].finished = st[d].finished
               /\ st'[d].result = st[d].result
    <3> DEFINE q == [st[d] EXCEPT !.sendWindow = st[d].sendWindow + (n - s.initialStreamWindow)]
    <3>1. st'[d] = IF d \in s.streams THEN q ELSE st[d]
      BY <1>4, Zenon DEF ReadInitialWindow
    <3>2. st[d] \in Stream /\ s.initialStreamWindow \in Int /\ n \in Int
      BY <1>1 DEF Streams, Fields
    <3>3. q \in Stream /\ q.id = st[d].id /\ q.finished = st[d].finished /\ q.result = st[d].result
      BY <3>2 DEF Stream
    <3> HIDE DEF q
    <3> QED BY <3>1, <3>2, <3>3, Zenon
  <2> QED BY <1>1, FrameRead, <1>4, Waking, <2>1, Touching, Zenon
             DEF ReadInitialWindow, Shape, Fields, Streams
<1>5. ASSUME NEW n \in Nat, ReadFrameSize(n) \/ ReadMaxConcurrent(n)
      PROVE  SessionInv'
  <2>1. call' \in DoCalls /\ WokenAs(call)
    <3>1. CASE call' = call
      BY <1>1, <3>1 DEF WokenAs
    <3>2. CASE call' = signalAdmission(call)
      BY <1>1, <3>2, Waking, SMTT(30)
    <3> QED BY <3>1, <3>2, <1>5 DEF ReadFrameSize, ReadMaxConcurrent
  <2> QED BY <1>1, <2>1, FrameRead, Touching, <1>5
             DEF Shape, ReadFrameSize, ReadMaxConcurrent, Fields
<1>6. CASE ReadPing
  BY <1>1, Unmoved, FrameRead, <1>6 DEF ReadPing
<1> QED BY <1>1, <1>2, <1>3, <1>4, <1>5, <1>6, SMTT(30)

\* The bound is the least LastStreamID so far.
LEMMA BoundIsLeast ==
  ASSUME s \in Fields, NEW last \in Nat
  PROVE  Bound(last) \in Nat /\ (s.goAway # NoGoAway => Bound(last) <= s.goAway)
<1>1. CASE s.goAway = NoGoAway
  BY <1>1 DEF Bound
<1>2. CASE s.goAway # NoGoAway
  BY <1>2 DEF Bound, Min, Fields
<1> QED BY <1>1, <1>2

\* A GOAWAY lowers the bound: the streams above it leave the table and are told so, and the
\* calls told before have numbers above the old bound.
LEMMA GoingAway ==
  ASSUME SessionInv, NEW last \in Nat, handleGoAway(last)
  PROVE  SessionInv'
<1> DEFINE b == Bound(last)
           x == {c \in s.streams : st[c].id > b}
<1>1. Shape /\ s \in Fields /\ st \in Streams /\ call \in DoCalls /\ "goaway" \in Results
  BY DEF SessionInv, Records, Shape, Results, StreamErrors
<1>2. b \in Nat /\ (s.goAway # NoGoAway => b <= s.goAway) /\ b # NoGoAway
  BY <1>1, BoundIsLeast DEF NoGoAway
<1>3. /\ s' = [s EXCEPT !.goAway = b, !.streams = s.streams \ x] /\ st' = FinishedSt(x, "goaway")
      /\ call' = signalAdmission(Woken(x, call)) /\ Reads(Reading) /\ wire' = wire
  BY DEF handleGoAway
<1> HIDE DEF b
<1>4. x \subseteq s.streams /\ s.streams \subseteq Calls
  BY <1>1 DEF Fields
<1>5. \A c \in s.streams : c \in x <=> st[c].id > b
  OBVIOUS
<1> HIDE DEF x
<1>6. s' \in Fields /\ s'.goAway = b /\ s'.streams = s.streams \ x /\ s'.closeErr = s.closeErr
  BY <1>1, <1>2, <1>3, <1>4, ZenonT(30) DEF Fields
<1>7. /\ st' \in Streams
      /\ \A c \in Calls : /\ st'[c].id = st[c].id
                          /\ st'[c].finished <=> (st[c].finished \/ c \in Live(x))
                          /\ st'[c].result = IF c \in Live(x) THEN "goaway" ELSE st[c].result
  BY <1>1, <1>3, Marking, Zenon
<1>8. Shape' /\ Records'
  BY <1>6, <1>7, <1>1, <1>3, Waking, Zenon DEF SessionInv, Records, Shape, Reads, Reading
<1>9. \A c \in Calls : Lawful(c) /\ Stays(c)
  BY WakingIsLawful, <1>1, <1>3, Waking
<1>10. Table'
  <2>1. ASSUME NEW c \in Calls
        PROVE  /\ c \in s'.streams <=> (st'[c].id # 0 /\ ~st'[c].finished)
               /\ c \in s'.streams => call'[c].pc # "done"
               /\ call'[c].pc \in {"acquire", "admission"} => st'[c].id = 0 /\ ~st'[c].finished
    <3>1. /\ c \in s.streams <=> (st[c].id # 0 /\ ~st[c].finished)
          /\ At(c, "done") => c \notin s.streams
          /\ call[c].pc \in {"acquire", "admission"} => st[c].id = 0 /\ ~st[c].finished
      BY Zenon DEF SessionInv, Table, StreamsExact
    <3>2. c \in s'.streams <=> (c \in s.streams /\ c \notin Live(x))
      BY <1>6, Zenon DEF Live
    <3>3. c \in Live(x) => c \in s.streams
      BY Zenon DEF Live
    <3>4. st'[c].id = st[c].id /\ (st'[c].finished <=> (st[c].finished \/ c \in Live(x)))
      BY <1>7, Zenon
    <3> QED BY <1>9, <3>1, <3>2, <3>3, <3>4, Zenon DEF Lawful
  <2> QED BY <2>1, <1>3, <1>4, <1>6, Zenon DEF Table, StreamsExact, At, Reads, IsClosed
<1>11. Refusals'
  <2>1. ASSUME NEW c \in Calls
        PROVE  /\ call'[c].result = "goaway" =>
                    call'[c].pc = "done" /\ (st'[c].id = 0 \/ (s'.goAway # NoGoAway /\ st'[c].id > s'.goAway))
               /\ st'[c].result = "goaway" => s'.goAway # NoGoAway /\ st'[c].id > s'.goAway
    <3>1. /\ call[c].result = "goaway" => st[c].id = 0 \/ (s.goAway # NoGoAway /\ st[c].id > s.goAway)
          /\ st[c].result = "goaway" => s.goAway # NoGoAway /\ st[c].id > s.goAway
          /\ call[c].result = "goaway" => At(c, "done")
      BY Zenon DEF SessionInv, Refusals
    <3>2. st'[c].id = st[c].id /\ s'.goAway = b /\ s'.goAway # NoGoAway
      BY <1>2, <1>6, <1>7, Zenon
    <3>3. s.goAway # NoGoAway /\ st[c].id > s.goAway => st[c].id > b
      BY <1>1, <1>2 DEF Streams, Stream, Fields
    <3>4. c \in Live(x) => st[c].id > b
      BY <1>5, Zenon DEF Live
    <3>5. st'[c].result = "goaway" => s'.goAway # NoGoAway /\ st'[c].id > s'.goAway
      BY <1>7, <3>1, <3>2, <3>3, <3>4, Zenon
    <3>6. call'[c].result = "goaway" => call'[c].pc = "done"
      BY <1>9, <3>1, Zenon DEF Lawful
    <3>7. call'[c].result = "goaway" => call[c].result = "goaway" \/ st[c].id = 0 \/ st[c].result = "goaway"
      BY <1>9, Zenon DEF Lawful
    <3> QED BY <3>1, <3>2, <3>3, <3>5, <3>6, <3>7, Zenon
  <2>2. ASSUME NEW c \in s'.streams PROVE st'[c].id <= s'.goAway
    BY <1>2, <1>5, <1>6, <1>7, <1>1, <1>4, SMTT(30) DEF Streams, Stream
  <2> QED BY <2>1, <2>2, Zenon DEF Refusals, At
<1> QED BY <1>8, <1>10, <1>11, <1>9, ContextsKept, <1>7, <1>6, QueueKept, <1>3, Zenon
           DEF SessionInv, IsClosed, Reads, Reading
-----------------------------------------------------------------------------
(* The inductive invariant                                                 *)

\* Contexts end, the connection is closed, and the pool closes the session.
LEMMA Outside ==
  ASSUME SessionInv, (\E c \in Calls : Cancel(c)) \/ ConnClose \/ Close \/ Idle \/ UNCHANGED vars
  PROVE  SessionInv'
<1>1. Shape /\ "closed" \in SessionErrors /\ {"closed", "none"} \cap {"goaway", "ctx"} = {}
  BY Zenon DEF SessionInv, Records, SessionErrors
<1>2. ctx \subseteq ctx' /\ UNCHANGED <<writeCh, written, writer, reader, wire>>
  BY Zenon DEF Cancel, ConnClose, Close, Idle, env, vars
<1>3. UNCHANGED <<s, st, call>> \/ Shutdown("closed")
  BY DEF Cancel, ConnClose, Close, Idle, vars
<1>4. Shape' /\ WokenAs(call) /\ \E x, e : e \notin {"goaway", "ctx"} /\ Leave(x, e)
  BY <1>1, <1>3, Unmoved, ShuttingDown, Zenon
<1>5. Records'
  BY <1>2, <1>4 DEF SessionInv, Records
<1> QED BY <1>2, <1>4, <1>5, LoopStep

\* Every step of the session keeps it.
LEMMA SessionStep == SessionInv /\ [Next]_vars => SessionInv'
<1> SUFFICES ASSUME SessionInv, [Next]_vars PROVE SessionInv'
  OBVIOUS
<1>1. ASSUME NEW c \in Calls, CallStep(c) PROVE SessionInv'
  BY <1>1, LocalSteps, Opening, Reserving, WriteEnds, WriteQueued, Zenon DEF CallStep
<1>2. CASE WriterStep
  BY <1>2, Taking, Writing, Stopping, Zenon DEF WriterStep
<1>3. CASE ReadStep
  BY <1>3, ReadEnds, ReaderQueueing, Zenon DEF ReadStep
<1>4. CASE ServerSpeaks
  <2>1. ASSUME NEW last \in {0} \cup {st[c].id : c \in Opened}, handleGoAway(last) PROVE SessionInv'
    <3>1. last \in Nat
      BY DEF SessionInv, Records, Shape, Streams, Stream, Opened
    <3> QED BY <2>1, <3>1, GoingAway, Zenon
  <2> QED BY <1>4, <2>1, ReadEnds, Answering, Tuning, ZenonT(30) DEF ServerSpeaks
<1> QED BY <1>1, <1>2, <1>3, <1>4, Outside, Zenon DEF Next

\* The inductive invariant holds in every reachable state of the session.
THEOREM SessionKept == Spec => []SessionInv
BY SessionInitially, SessionStep, PTL DEF Spec

\* The stream table holds exactly the streams that are not finished, and none of a call whose
\* Do returned: acquireStream, finishLocked, shutdown and every return of Do agree on it.
THEOREM TableExact == Spec => []StreamsExact
<1>1. SessionInv => StreamsExact
  BY Zenon DEF SessionInv, Table
<1> QED BY <1>1, SessionKept, PTL

\* Do reports a GOAWAY only to a call whose stream is above the server's bound, or that has
\* none, and no stream above the bound stays open (handleGoAway).
THEOREM GoAwayRight == Spec => []GoAwayIsRight
<1>1. SessionInv => GoAwayIsRight
  BY DEF SessionInv, Refusals, GoAwayIsRight
<1> QED BY <1>1, SessionKept, PTL

\* Until the session is closed writeLoop writes no DATA of a call whose Do returned.
LEMMA SilentStep ==
  ASSUME SessionInv, [Next]_vars, NEW c \in Calls, At(c, "done"), ~IsClosed
  PROVE  wire'.data[c] = wire.data[c]
<1>1. CASE WriterWrites \/ WriterFails
  BY <1>1, Writing, SMTT(30)
<1>2. CASE UNCHANGED wire
  BY <1>2
<1>3. ASSUME NEW n \in Increments, ReadConnectionUpdate(n) PROVE wire'.data[c] = wire.data[c]
  BY <1>3 DEF ReadConnectionUpdate, SessionInv, Records
<1>4. ASSUME NEW d \in Calls, CallStep(d) \/ Cancel(d) PROVE UNCHANGED wire
  BY <1>4, ZenonT(30)
     DEF CallStep, Cancel, acquireRefused, acquireOpens, acquireWaits, acquireGivesUp, reserveSend,
     Reserve, reserveWaits, reserveFinished, reserveCancelled, unreservedReturns,
     unreservedResets, awaitResponse,
     writeRefused, writeQueues, writeReturns, writeGivesUp, AfterWrite, Local, env
<1>5. ASSUME ServerSpeaks PROVE UNCHANGED wire \/ \E n \in Increments : ReadConnectionUpdate(n)
  BY <1>5, Zenon DEF ServerSpeaks, ReadViolation, ReadPing, Answers, ReadMalformed, ReadReset,
     ReadInformational,
     ReadHeaders, ReadData, handleGoAway, ReadStreamUpdate, ReadInitialWindow, ReadFrameSize,
     ReadMaxConcurrent
<1>6. ASSUME ReadStep \/ WriterTakes \/ WriterStops \/ WriterExits \/ ConnClose \/ Close \/ Idle \/ UNCHANGED vars
      PROVE  UNCHANGED wire
  BY <1>6 DEF ReadStep, ReadFails, ReaderQueues, WriterTakes, WriterStops, WriterExits, ConnClose,
     Close,
     Idle, env, vars
<1> QED BY <1>1, <1>2, <1>3, <1>4, <1>5, <1>6, ZenonT(30) DEF Next, WriterStep

\* A write that Do gave up in the queue, because its context was done, is never written while
\* the session lives (writeLoop looks at the context before it starts a write).
THEOREM CancelSilent == Spec => CancelledIsSilent
<1>1. SessionInv /\ [Next]_vars =>
        [\A c \in Calls : At(c, "done") /\ call[c].result = "ctx" /\ ~IsClosed
           => wire'.data[c] = wire.data[c]]_vars
  BY SilentStep
<1> QED BY <1>1, SessionKept, PTL DEF Spec, CancelledIsSilent
=============================================================================
