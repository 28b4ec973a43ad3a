----------------------------- MODULE Session ------------------------------
(***************************************************************************)
(* One HTTP/2 session (internal/h2/session.go): the calls of Do that share *)
(* it, the write loop, the read loop and what the server sends.            *)
(*                                                                         *)
(* A section under Session.mu is one step, and so is a channel operation.  *)
(* Octets come in units; of a frame only what Do, the flow control or the  *)
(* stream table look at is kept.  The server speaks only of streams whose  *)
(* HEADERS it has got, and sends at most MaxFrames frames.                 *)
(***************************************************************************)
EXTENDS Integers, Sequences, FiniteSets, FiniteSetsExt, Functions

CONSTANTS
  Calls,            \* the calls of Do, each with a context of its own
  BodyLen,          \* len(request.Body), in units
  QueueCap,         \* capacity of writeCh (64)
  WindowSize,       \* defaultWindowSize
  MaxWindowSize,    \* maxWindowSize
  MaxStreamID,      \* math.MaxInt32
  MaxInformational, \* maxInformationalResponses (8)
  MaxFrames,        \* bound: frames the server sends
  Topics,           \* bound: what they are about
  Breaks,           \* bound: the connection may break
  FrameSizes, StreamLimits, Increments   \* bounds: values the server sends

ASSUME SessionAssumption ==
  /\ IsFiniteSet(Calls) /\ BodyLen \in Nat \ {0} /\ QueueCap \in Nat \ {0}
  /\ WindowSize \in Nat /\ MaxWindowSize \in Nat /\ WindowSize <= MaxWindowSize
  /\ MaxStreamID \in Nat /\ MaxInformational \in Nat /\ MaxFrames \in Nat
  /\ Topics \subseteq {"answers", "goaway", "flow", "settings"} /\ Breaks \in BOOLEAN
  /\ FrameSizes \subseteq Nat \ {0} /\ StreamLimits \subseteq Nat /\ Increments \subseteq Nat \ {0}

VARIABLES
  s,        \* the fields of Session
  st,       \* the stream of each call
  call,     \* where each Do is, and what it returned
  ctx,      \* the calls whose context is done
  writeCh,  \* queued write calls
  written,  \* done of each call's current write call, and whether it was started
  writer, reader,   \* the loops
  connOpen, \* conn.Close was not called yet
  wire,     \* history: HEADERS in the order written, DATA and RST_STREAM by call
  frames    \* frames read so far

vars == <<s, st, call, ctx, writeCh, written, writer, reader, connOpen, wire, frames>>

SessionErrors == {"closed", "read", "protocol", "write", "writeCtx"}
StreamErrors  == {"protocol", "tooLarge", "reset", "goaway"}
Results == SessionErrors \cup StreamErrors \cup {"none", "response", "ctx", "torn"}

NoGoAway == -1
IsClosed == s.closeErr # "none"     \* s.done is closed

\* A write call: of whom, which frame, how much DATA, and whether it is the first chunk.
Job(c, kind, size, first) == [call |-> c, kind |-> kind, size |-> size, first |-> first]
Control == Job("none", "control", 0, FALSE)     \* a write of the read loop

TypeOK ==
  /\ s \in [streams : SUBSET Calls, nextStreamID : Nat, connectionWindow : 0..MaxWindowSize,
            initialStreamWindow : 0..MaxWindowSize, maxFrameSize : FrameSizes,
            maxConcurrent : StreamLimits \cup {Cardinality(Calls)},
            goAway : Nat \cup {NoGoAway}, closeErr : SessionErrors \cup {"none"}]
  /\ st \in [Calls -> [id : Nat, sendWindow : (-MaxWindowSize)..(2 * MaxWindowSize),
                       finished : BOOLEAN, result : Results, headersReceived : BOOLEAN,
                       informational : 0..(MaxInformational + 1)]]
  /\ call \in [Calls -> [pc : {"acquire", "admission", "reserve", "flow", "unreserved",
                               "write", "await", "response", "done"},
                         kind : {"headers", "data", "reset"}, size : 0..BodyLen,
                         offset : 0..BodyLen, result : Results]]
  /\ ctx \subseteq Calls
  /\ Len(writeCh) <= QueueCap
  /\ written \in [Calls -> {"none", "queued", "started", "ok", "write", "ctx"}]
  /\ writer.pc \in {"take", "write", "stop", "exited"}
  /\ reader \in [pc : {"read", "queue"}, data : {"none", "more", "response", "protocol", "tooLarge"},
                 of : Calls \cup {"none"}]
  /\ connOpen \in BOOLEAN
  /\ wire \in [opened : SUBSET Calls, data : [Calls -> 0..BodyLen], committed : SUBSET Calls,
               credit : Nat]
  /\ frames \in 0..MaxFrames

\* The state NewSession leaves; acquireStream makes the streams.
Init ==
  /\ s = [streams |-> {}, nextStreamID |-> 1, connectionWindow |-> WindowSize,
          initialStreamWindow |-> WindowSize, maxFrameSize |-> 1,
          maxConcurrent |-> Cardinality(Calls), goAway |-> NoGoAway, closeErr |-> "none"]
  /\ st = [c \in Calls |-> [id |-> 0, sendWindow |-> 0, finished |-> FALSE, result |-> "none",
                            headersReceived |-> FALSE, informational |-> 0]]
  /\ call = [c \in Calls |-> [pc |-> "acquire", kind |-> "headers", size |-> 0, offset |-> 0,
                              result |-> "none"]]
  /\ ctx = {} /\ writeCh = <<>> /\ written = [c \in Calls |-> "none"]
  /\ writer = [pc |-> "take", job |-> Control, err |-> "none"]
  /\ reader = [pc |-> "read", data |-> "none", of |-> "none"]
  /\ connOpen = TRUE
  /\ wire = [opened |-> {}, data |-> [c \in Calls |-> 0], committed |-> {},
             credit |-> WindowSize]
  /\ frames = 0
-----------------------------------------------------------------------------
(* Finishing streams                                                       *)

\* signalAdmissionLocked and signalFlowLocked: sleepers on the channel look again.
WakeFrom(f, pc, to) == [c \in Calls |-> IF f[c].pc = pc THEN [f[c] EXCEPT !.pc = to] ELSE f[c]]
signalAdmission(f) == WakeFrom(f, "admission", "acquire")

signalFlow(f) == WakeFrom(f, "flow", "reserve")

\* finishLocked of the streams in x that are in the table: the streams afterwards, and
\* the calls f with the sleepers woken.
Live(x)        == x \cap s.streams
FinishedSt(x, err) ==
  [c \in Calls |-> IF c \in Live(x) THEN [st[c] EXCEPT !.finished = TRUE, !.result = err] ELSE st[c]]
Woken(x, f)    == IF Live(x) = {} THEN f ELSE signalAdmission(signalFlow(f))

\* Seeded fault: the stream stays in the table.
FinishKeepsEntry(x, err, f) ==
  /\ st' = FinishedSt(x, err)
  /\ call' = Woken(x, f)
  /\ UNCHANGED s

\* finishStream, cancelStream, with f the calls as the caller leaves them.
FinishStreams(x, err, f) ==
  /\ s' = [s EXCEPT !.streams = @ \ x]
  /\ st' = FinishedSt(x, err)
  /\ call' = Woken(x, f)

\* shutdown, up to conn.Close; only the first one counts.
Shutdown(err) ==
  IF IsClosed THEN UNCHANGED <<s, st, call>>
  ELSE /\ s' = [s EXCEPT !.closeErr = err, !.streams = {}]
       /\ st' = FinishedSt(Calls, err)
       /\ call' = Woken(Calls, call)

ConnClose ==
  /\ IsClosed /\ connOpen
  /\ connOpen' = FALSE
  /\ UNCHANGED <<s, st, call, ctx, writeCh, written, writer, reader, wire, frames>>
-----------------------------------------------------------------------------
(* Do                                                                      *)

At(c, pc) == call[c].pc = pc

Returned(c, r) ==
  [call EXCEPT ![c] = [pc |-> "done", kind |-> "headers", size |-> 0, offset |-> 0, result |-> r]]
Goes(c, pc)    == [call EXCEPT ![c].pc = pc]
Writes(c, k)   == [call EXCEPT ![c].pc = "write", ![c].kind = k]

\* A step of call c that touches nothing but the call.
Local(f) == call' = f /\ UNCHANGED <<s, st, ctx, writeCh, written, writer, reader, connOpen, wire, frames>>

env == <<ctx, writeCh, written, writer, reader, connOpen, wire, frames>>

acquireRefused(c) ==
  /\ At(c, "acquire")
  /\ \/ IsClosed /\ Local(Returned(c, s.closeErr))
     \/ ~IsClosed /\ s.goAway # NoGoAway /\ Local(Returned(c, "goaway"))
     \/ ~IsClosed /\ s.goAway = NoGoAway /\ s.nextStreamID > MaxStreamID /\ Local(Returned(c, "closed"))

CanOpen == ~IsClosed /\ s.goAway = NoGoAway /\ s.nextStreamID <= MaxStreamID

acquireOpens(c) ==
  /\ At(c, "acquire") /\ CanOpen /\ Cardinality(s.streams) < s.maxConcurrent
  /\ st' = [st EXCEPT ![c].id = s.nextStreamID, ![c].sendWindow = s.initialStreamWindow]
  /\ s' = [s EXCEPT !.nextStreamID = @ + 2, !.streams = @ \cup {c}]
  /\ call' = Writes(c, "headers")
  /\ UNCHANGED env

acquireWaits(c) ==
  /\ At(c, "acquire") /\ CanOpen /\ Cardinality(s.streams) >= s.maxConcurrent
  /\ Local(Goes(c, "admission"))

acquireGivesUp(c) ==
  /\ At(c, "admission")
  /\ \/ c \in ctx /\ Local(Returned(c, "ctx"))
     \/ IsClosed /\ Local(Returned(c, s.closeErr))

\* reserveSend.
Available(c) == Min({BodyLen - call[c].offset, s.maxFrameSize, s.connectionWindow, st[c].sendWindow})

Reserve(c, size) ==
  /\ At(c, "reserve") /\ ~st[c].finished /\ c \notin ctx
  /\ size > 0
  /\ s' = [s EXCEPT !.connectionWindow = @ - size]
  /\ st' = [st EXCEPT ![c].sendWindow = @ - size]
  /\ call' = [Writes(c, "data") EXCEPT ![c].size = size]
  /\ UNCHANGED env

\* Seeded fault: the connection window is not looked at.
ReserveByStream(c) ==
  LET size == Min({BodyLen - call[c].offset, s.maxFrameSize, st[c].sendWindow})
  IN /\ At(c, "reserve") /\ ~st[c].finished /\ c \notin ctx
     /\ size > 0
     /\ s' = [s EXCEPT !.connectionWindow = Max({0, @ - size})]
     /\ st' = [st EXCEPT ![c].sendWindow = @ - size]
     /\ call' = [Writes(c, "data") EXCEPT ![c].size = size]
     /\ UNCHANGED env

reserveSend(c) == Reserve(c, Available(c))

reserveWaits(c) ==
  /\ At(c, "reserve") /\ c \notin ctx /\ ~st[c].finished /\ Available(c) <= 0
  /\ Local(Goes(c, "flow"))

\* The stream is finished, also by a shutdown: Do returns its response and error.
reserveFinished(c) ==
  /\ \/ At(c, "reserve") /\ c \notin ctx /\ st[c].finished
     \/ At(c, "flow") /\ IsClosed
  /\ Local(Returned(c, st[c].result))

\* Seeded fault: a call asleep on the window does not see its context.
reserveCancelledAwake(c) ==
  /\ At(c, "reserve") /\ c \in ctx
  /\ Local(Goes(c, "unreserved"))

reserveCancelled(c) ==
  /\ call[c].pc \in {"reserve", "flow"} /\ c \in ctx
  /\ Local(Goes(c, "unreserved"))

\* Do reads st.finished without the lock.  A stream being finished meanwhile may be
\* seen, not be seen, or be seen before its response and error.
unreservedReturns(c) ==
  /\ At(c, "unreserved") /\ st[c].finished
  /\ \E r \in {st[c].result, "torn"} : Local(Returned(c, r))

unreservedResets(c) == At(c, "unreserved") /\ Local(Writes(c, "reset"))

\* The last loop of Do.
awaitResponse(c) ==
  /\ At(c, "response")
  /\ \/ st[c].finished /\ Local(Returned(c, st[c].result))
     \/ c \in ctx /\ Local(Writes(c, "reset"))
     \/ IsClosed /\ Local(Returned(c, s.closeErr))
-----------------------------------------------------------------------------
(* Session.write, by a call                                                *)

\* The context the write runs under: resetCanceledStream writes under none.
Cancelled(c) == c \in ctx /\ call[c].kind # "reset"

\* What Do does with the result r of a write; fail and resetCanceledStream finish
\* the stream.
AfterWrite(c, r) ==
  /\ written' = [written EXCEPT ![c] = "none"]
  /\ \/ /\ call[c].kind = "headers" /\ r = "ok"
        /\ call' = Goes(c, "reserve") /\ UNCHANGED <<s, st>>
     \/ /\ call[c].kind = "data" /\ r = "ok"
        /\ LET sent == call[c].offset + call[c].size
           IN call' = [Goes(c, IF sent = BodyLen THEN "response" ELSE "reserve")
                         EXCEPT ![c].offset = sent, ![c].size = 0]
        /\ UNCHANGED <<s, st>>
     \/ /\ call[c].kind # "reset" /\ r # "ok"
        /\ FinishStreams({c}, r, Returned(c, r))
     \/ /\ call[c].kind = "reset"
        /\ FinishStreams({c}, "ctx", Returned(c, "ctx"))
  /\ UNCHANGED <<ctx, writeCh, writer, reader, connOpen, wire, frames>>

writeRefused(c) ==
  /\ At(c, "write")
  /\ \/ Cancelled(c) /\ AfterWrite(c, "ctx")
     \/ IsClosed /\ AfterWrite(c, s.closeErr)

writeQueues(c) ==
  /\ At(c, "write") /\ Len(writeCh) < QueueCap
  /\ writeCh' = Append(writeCh, Job(c, call[c].kind, call[c].size, call[c].offset = 0))
  /\ written' = [written EXCEPT ![c] = "queued"]
  /\ call' = Goes(c, "await")
  /\ UNCHANGED <<s, st, ctx, writer, reader, connOpen, wire, frames>>

writeReturns(c) ==
  /\ At(c, "await") /\ written[c] \in {"ok", "write", "ctx"}
  /\ AfterWrite(c, written[c])

\* A write the loop has not started is given up; one it has, only with the session.
writeGivesUp(c) ==
  /\ At(c, "await")
  /\ \/ Cancelled(c) /\ (written[c] = "queued" \/ IsClosed) /\ AfterWrite(c, "ctx")
     \/ IsClosed /\ AfterWrite(c, s.closeErr)

CallStep(c) ==
  \/ acquireRefused(c) \/ acquireOpens(c) \/ acquireWaits(c) \/ acquireGivesUp(c)
  \/ reserveSend(c) \/ reserveWaits(c) \/ reserveFinished(c) \/ reserveCancelled(c)
  \/ unreservedReturns(c) \/ unreservedResets(c) \/ awaitResponse(c)
  \/ writeRefused(c) \/ writeQueues(c) \/ writeReturns(c) \/ writeGivesUp(c)

\* The attempt times out or is cancelled; Send cancels its context when Do returned,
\* which matters while a write of it is still around.
Cancel(c) ==
  /\ c \notin ctx
  /\ At(c, "done") => \E job \in Range(writeCh) \cup {writer.job} : job.call = c
  /\ ctx' = ctx \cup {c}
  /\ UNCHANGED <<s, st, call, writeCh, written, writer, reader, connOpen, wire, frames>>
-----------------------------------------------------------------------------
(* writeLoop                                                               *)

\* Seeded fault: the context of a queued write is not looked at.
NeverOverdue(job) == FALSE

\* call.ctx.Err(): control frames and resets have no context.
OverdueJob(job) == job.kind \in {"headers", "data"} /\ job.call \in ctx

\* What a job tells its call, if that still waits for it.
Tells(job, w) ==
  IF job = Control \/ ~At(job.call, "await") THEN written ELSE [written EXCEPT ![job.call] = w]

\* The head of the queue is started, and skipped if its context is done.
WriterTakes ==
  /\ writer.pc = "take" /\ writeCh # <<>>
  /\ LET job == Head(writeCh)
     IN /\ writer' = IF OverdueJob(job) THEN writer ELSE [writer EXCEPT !.pc = "write", !.job = job]
        /\ written' = Tells(job, IF OverdueJob(job) THEN "ctx" ELSE "started")
  /\ writeCh' = Tail(writeCh)
  /\ UNCHANGED <<s, st, call, ctx, reader, connOpen, wire, frames>>

\* MarkCommitted, then what reaches the server: the frame, or size units of DATA.
OnWire(job, size) ==
  CASE job.kind = "headers" -> [wire EXCEPT !.opened = @ \cup {job.call}]
    [] job.kind \in {"reset", "control"} -> wire
    [] job.kind = "data"    -> [wire EXCEPT !.data[job.call] = @ + size,
                                            !.committed = IF job.first THEN @ \cup {job.call} ELSE @]

WriterWrites ==
  /\ writer.pc = "write" /\ connOpen
  /\ writer' = [writer EXCEPT !.pc = "take", !.job = Control]
  /\ wire' = OnWire(writer.job, writer.job.size)
  /\ written' = Tells(writer.job, "ok")
  /\ UNCHANGED <<s, st, call, ctx, writeCh, reader, connOpen, frames>>

\* The connection broke, was closed, or the context's end set a write deadline; the
\* DATA may be out or not.
WriterFails ==
  /\ writer.pc = "write" /\ (Breaks \/ ~connOpen \/ OverdueJob(writer.job))
  /\ writer' = [writer EXCEPT !.pc = "stop", !.err = IF OverdueJob(writer.job) THEN "writeCtx" ELSE "write"]
  /\ written' = Tells(writer.job, IF OverdueJob(writer.job) THEN "ctx" ELSE "write")
  /\ IF writer.job.kind = "data"
     THEN \E size \in {0, writer.job.size} : wire' = OnWire(writer.job, size)
     ELSE UNCHANGED wire
  /\ UNCHANGED <<s, st, call, ctx, writeCh, reader, connOpen, frames>>

WriterStops ==
  /\ writer.pc = "stop"
  /\ Shutdown(writer.err)
  /\ writer' = [writer EXCEPT !.pc = "exited", !.job = Control, !.err = "none"]
  /\ UNCHANGED <<ctx, writeCh, written, reader, connOpen, wire, frames>>

\* An exit with nothing queued makes no difference.
WriterExits ==
  /\ writer.pc = "take" /\ IsClosed /\ writeCh # <<>>
  /\ writer' = [writer EXCEPT !.pc = "exited"]
  /\ UNCHANGED <<s, st, call, ctx, writeCh, written, reader, connOpen, wire, frames>>

WriterStep == WriterTakes \/ WriterWrites \/ WriterFails \/ WriterStops \/ WriterExits
-----------------------------------------------------------------------------
(* readLoop                                                                *)

Opened == wire.opened

Reading == [pc |-> "read", data |-> "none", of |-> "none"]
Queueing == [Reading EXCEPT !.pc = "queue"]     \* in Session.queue, then reads on

\* The loop reads one more frame and goes on as next.
Reads(next) ==
  /\ reader.pc = "read" /\ ~IsClosed /\ frames < MaxFrames
  /\ frames' = frames + 1
  /\ reader' = next
  /\ UNCHANGED <<ctx, writeCh, written, writer, connOpen>>

\* The loop's own shutdown; after another one's it ends at the next read.
ReadFails ==
  /\ Breaks /\ reader.pc = "read" /\ ~IsClosed
  /\ Shutdown("read")
  /\ UNCHANGED <<ctx, writeCh, written, writer, reader, connOpen, wire, frames>>

\* PUSH_PROMISE, an invalid setting or too large a window update ends the session.
ReadViolation ==
  /\ Reads(Reading)
  /\ Shutdown("protocol") /\ UNCHANGED wire

\* HEADERS that do not decode, or a stream error of the framer: RST_STREAM is queued.
ReadMalformed(c) ==
  /\ c \in Opened /\ Reads(Queueing)
  /\ FinishStreams({c}, "protocol", call) /\ UNCHANGED wire

\* 101, END_STREAM, one after the final headers, or one too many is invalid.
ReadInformational(c, invalid) ==
  /\ c \in Opened \cap s.streams /\ Reads(Reading)
  /\ LET n == st[c].informational + 1
     IN IF invalid \/ st[c].headersReceived \/ n > MaxInformational
        THEN FinishStreams({c}, "protocol", call)
        ELSE st' = [st EXCEPT ![c].informational = n] /\ UNCHANGED <<s, call>>
  /\ UNCHANGED wire

\* Final headers.  With END_STREAM they are the whole response, or less than declared,
\* or more than finalizeResponse takes.
ReadHeaders(c, end, r) ==
  /\ c \in Opened \cap s.streams /\ Reads(Reading)
  /\ \/ st[c].headersReceived /\ FinishStreams({c}, "protocol", call)
     \/ ~st[c].headersReceived /\ end /\ FinishStreams({c}, r, call)
     \/ /\ ~st[c].headersReceived /\ ~end
        /\ st' = [st EXCEPT ![c].headersReceived = TRUE] /\ UNCHANGED <<s, call>>
  /\ UNCHANGED wire

\* handleData gives the window back first, and looks at the stream when that is queued.
ReadData(c, d) ==
  /\ c \in Opened /\ Reads([Queueing EXCEPT !.data = d, !.of = c])
  /\ UNCHANGED <<s, st, call, wire>>

\* The rest of handleData, on a stream still in the table.
HandledData(c, d) ==
  IF c \notin s.streams \/ (st[c].headersReceived /\ d = "more")
  THEN UNCHANGED <<s, st, call>>
  ELSE FinishStreams({c}, IF st[c].headersReceived THEN d ELSE "protocol", call)

\* Session.queue, and what its caller does next.
ReaderQueues ==
  /\ reader.pc = "queue"
  /\ \/ Len(writeCh) < QueueCap /\ writeCh' = Append(writeCh, Control)
     \/ IsClosed /\ UNCHANGED writeCh
  /\ IF reader.data = "none" THEN UNCHANGED <<s, st, call>> ELSE HandledData(reader.of, reader.data)
  /\ reader' = Reading
  /\ UNCHANGED <<ctx, written, writer, connOpen, wire, frames>>

ReadReset(c) ==
  /\ c \in Opened /\ Reads(Reading)
  /\ FinishStreams({c}, "reset", call) /\ UNCHANGED wire

\* Seeded fault: the latest GOAWAY counts, not the lowest.
LatestBound(last) == last

\* The acceptance bound after a GOAWAY with this LastStreamID.
Bound(last) == IF s.goAway = NoGoAway THEN last ELSE Min({s.goAway, last})

handleGoAway(last) ==
  /\ Reads(Reading)
  /\ LET x == {c \in s.streams : st[c].id > Bound(last)}
     IN /\ s' = [s EXCEPT !.goAway = Bound(last), !.streams = @ \ x]
        /\ st' = FinishedSt(x, "goaway")
        /\ call' = signalAdmission(Woken(x, call))
  /\ UNCHANGED wire

\* handleWindowUpdate; too large an increment ends the session.
ReadConnectionUpdate(n) ==
  /\ Reads(Reading) /\ s.connectionWindow + n <= MaxWindowSize
  /\ s' = [s EXCEPT !.connectionWindow = @ + n]
  /\ wire' = [wire EXCEPT !.credit = @ + n]
  /\ call' = signalFlow(call) /\ UNCHANGED st

ReadStreamUpdate(c, n) ==
  /\ c \in Opened \cap s.streams
  /\ Reads(Reading) /\ st[c].sendWindow + n <= MaxWindowSize
  /\ st' = [st EXCEPT ![c].sendWindow = @ + n]
  /\ call' = signalFlow(call) /\ UNCHANGED <<s, wire>>

\* applySettings, one setting at a time, then the acknowledgement is queued.
ReadInitialWindow(n) ==
  /\ Reads(Queueing)
  /\ s' = [s EXCEPT !.initialStreamWindow = n]
  /\ st' = [c \in Calls |-> IF c \in s.streams
              THEN [st[c] EXCEPT !.sendWindow = @ + (n - s.initialStreamWindow)] ELSE st[c]]
  /\ call' = signalFlow(call) /\ UNCHANGED wire

ReadFrameSize(n) ==
  /\ Reads(Queueing)
  /\ s' = [s EXCEPT !.maxFrameSize = n] /\ UNCHANGED <<st, call, wire>>

ReadMaxConcurrent(n) ==
  /\ Reads(Queueing)
  /\ s' = [s EXCEPT !.maxConcurrent = n]
  /\ call' = signalAdmission(call) /\ UNCHANGED <<st, wire>>

ReadPing == Reads(Queueing) /\ UNCHANGED <<s, st, call, wire>>

ReadStep == ReadFails \/ ReaderQueues

Answers(c) ==
  \/ ReadMalformed(c) \/ ReadReset(c)
  \/ \E invalid \in BOOLEAN : ReadInformational(c, invalid)
  \/ \E end \in BOOLEAN, r \in {"response", "protocol", "tooLarge"} : ReadHeaders(c, end, r)
  \/ \E d \in {"more", "response", "protocol", "tooLarge"} : ReadData(c, d)

ServerSpeaks ==
  \/ "answers" \in Topics /\ (ReadViolation \/ ReadPing \/ \E c \in Calls : Answers(c))
  \/ "goaway" \in Topics /\ \E last \in {0} \cup {st[c].id : c \in Opened} : handleGoAway(last)
  \/ "flow" \in Topics /\ \E n \in Increments :
       ReadConnectionUpdate(n) \/ \E c \in Calls : ReadStreamUpdate(c, n)
  \/ "settings" \in Topics
     /\ \/ \E n \in 0..WindowSize : ReadInitialWindow(n)
        \/ \E n \in FrameSizes : ReadFrameSize(n)
        \/ \E n \in StreamLimits : ReadMaxConcurrent(n)
-----------------------------------------------------------------------------
AllDone == \A c \in Calls : At(c, "done")

\* Session.Close: the pool closes a session that has no lease.
Close ==
  /\ AllDone /\ ~IsClosed
  /\ Shutdown("closed")
  /\ UNCHANGED env

Idle == AllDone /\ UNCHANGED vars

Next ==
  \/ \E c \in Calls : CallStep(c) \/ Cancel(c)
  \/ WriterStep \/ ReadStep \/ ServerSpeaks \/ ConnClose \/ Close \/ Idle

Spec == Init /\ [][Next]_vars

\* The goroutine of writeLoop runs.  Nothing makes the peer take a frame: a write that
\* blocks ends with the context it is made under, whose end sets the write deadline, and
\* a reset or control frame has no such context.
WriterRuns ==
  \/ WriterTakes \/ WriterStops \/ WriterExits
  \/ OverdueJob(writer.job) /\ (WriterWrites \/ WriterFails)

\* Goroutines run, and contexts end: newAttemptContexts gives each attempt a timeout.
FairSpec ==
  /\ Spec
  /\ \A c \in Calls : WF_vars(CallStep(c)) /\ WF_vars(Cancel(c))
  /\ WF_vars(WriterRuns) /\ WF_vars(ReaderQueues)
-----------------------------------------------------------------------------
(* Properties                                                              *)

SumData == FoldFunction(+, 0, wire.data)

\* The stream table holds exactly the streams that are not finished (finishLocked closes
\* st.done, and closing it twice would panic), and a call that returned has none in it: no
\* slot of maxConcurrent is lost on any path out of Do.
StreamsExact ==
  /\ \A c \in Calls : c \in s.streams <=> (st[c].id # 0 /\ ~st[c].finished)
  /\ \A c \in s.streams : ~At(c, "done")

\* Every variable keeps its type, and the stream table is exact.
TableIsExact == TypeOK /\ StreamsExact

\* All calls together never send more DATA than the server gave credit for, whatever
\* updates race the reservations, and DATA of a request is on the wire only if
\* MarkCommitted was called for its attempt, a write that failed or was cancelled included.
DataIsCovered ==
  /\ SumData <= wire.credit
  /\ \A c \in Calls : wire.data[c] > 0 => c \in wire.committed

\* A call told that the server will not process its stream (GOAWAY) has no stream or one
\* above the server's bound, whatever GOAWAYs follow, and no stream above it stays open.
GoAwayIsRight ==
  /\ \A c \in Calls : call[c].result = "goaway" => st[c].id = 0 \/ st[c].id > s.goAway
  /\ s.goAway # NoGoAway => \A c \in s.streams : st[c].id <= s.goAway

\* While the session lives, writeLoop writes no DATA of a call whose Do returned for its
\* context: a write that was given up in the queue stays unwritten.
CancelledIsSilent ==
  [][\A c \in Calls : At(c, "done") /\ call[c].result = "ctx" /\ ~IsClosed
        => wire'.data[c] = wire.data[c]]_vars

\* The peer takes no more octets while writeLoop writes a frame without a context, and
\* Do wants to send its RST_STREAM (resetCanceledStream).
Stalled == writer.pc = "write" /\ writer.job.kind \in {"reset", "control"} /\ ~IsClosed
Resetting(c) == call[c].pc \in {"write", "await"} /\ call[c].kind = "reset"

\* Do returns once its context is done, wherever it sleeps, even if the peer never reads
\* again.  The one exception is a Do that has to queue or write its RST_STREAM while
\* such a peer blocks writeLoop in a reset or control frame for ever: both are written
\* under context.Background().  No other wait of calls and loops for each other lasts.
DoReturns ==
  \A c \in Calls : (c \in ctx ~> At(c, "done")) \/ <>[](Stalled /\ Resetting(c))

\* The cancellation of one call is not returned to another one by Do.
CancelStaysOwn == \A c \in Calls : call[c].result = "writeCtx" => c \in ctx
=============================================================================
