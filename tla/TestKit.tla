------------------------------- MODULE TestKit -------------------------------
(***************************************************************************)
(* The test kit's transport and observer (reposttest/transport.go,         *)
(* reposttest/observer.go).                                                *)
(*                                                                         *)
(* ScriptedTransport hands its scripts out in FIFO order; a script is a    *)
(* fixed outcome or a ControlledResponse, which the test settles while the *)
(* attempt waits and its context may end.  RecordingObserver counts the    *)
(* operations it has seen start and not end; it sees an event when the     *)
(* runtime's dispatcher (observer.go) delivers it, if that did not drop it.*)
(***************************************************************************)
EXTENDS Naturals, Sequences

CONSTANTS
  Attempts,                       \* calls of ScriptedTransport.Send
  Controlled,                      \* the ControlledResponses the test enqueues
  Settlers,                       \* calls of Complete or Fail
  Ops,                            \* operations the runtime reports
  Fixed, NoOutcome                \* the fixed script and its outcome; no outcome

ASSUME TestKitAssumption ==
  /\ Fixed \notin Controlled /\ NoOutcome \notin Settlers \cup Attempts \cup Controlled \cup {Fixed}
  /\ Settlers \cap Attempts = {}

VARIABLES
  scripts, enqueued,              \* t.scripts; whether each response, and Fixed, was enqueued
  attemptPC, attemptScript, attemptOutcome,
  settled, result,                \* c.done; what c.result holds
  winner, accepted,               \* whose settlement was first; the calls told they won
  settlePC,
  opPC,                           \* which of its events each operation has emitted
  queue,                          \* d.events
  events, unread, active,         \* r.events, r.unread, r.active
  lostStart,                      \* whether the start of an operation was dropped
  flushPC, begun,                 \* FlushObservers; the operations begun when it was called
  quiescencePC, quiescent         \* AwaitQuiescence; whether it was right when it returned

scriptVars == <<scripts, enqueued, attemptPC, attemptScript, attemptOutcome, settled, result,
                winner, accepted, settlePC>>
recordVars == <<opPC, queue, events, unread, active, lostStart, flushPC, begun, quiescencePC,
                quiescent>>
kitVars == <<scriptVars, recordVars>>

Scripts == Controlled \cup {Fixed}
Settlements == Settlers \cup Attempts \cup {Fixed, NoOutcome}
EventKinds == {"start", "attempt", "end"}
Events == [op : Ops, kind : EventKinds]

KitTypeOK ==
  /\ scripts \in Seq(Scripts) /\ enqueued \subseteq Scripts
  /\ attemptPC \in [Attempts -> {"idle", "waiting", "cancel", "receive", "returned"}]
  /\ attemptScript \in [Attempts -> Scripts \cup {NoOutcome}]
  /\ attemptOutcome \in [Attempts -> Settlements]
  /\ settled \subseteq Controlled /\ result \in [Controlled -> Settlements]
  /\ winner \in [Controlled -> Settlements] /\ accepted \subseteq Settlers \X Controlled
  /\ settlePC \in [Settlers -> {"idle", "returned"}]
  /\ opPC \in [Ops -> {"idle", "started", "attempted", "ended"}]
  /\ queue \in Seq(Events) /\ events \in Seq(Events) /\ unread \in Seq(Events) /\ active \in Nat
  /\ lostStart \in BOOLEAN /\ flushPC \in {"idle", "waiting", "returned"} /\ begun \subseteq Ops
  /\ quiescencePC \in {"waiting", "returned"} /\ quiescent \in BOOLEAN

KitInit ==
  /\ scripts = <<>> /\ enqueued = {}
  /\ attemptPC = [a \in Attempts |-> "idle"]
  /\ attemptScript = [a \in Attempts |-> NoOutcome]
  /\ attemptOutcome = [a \in Attempts |-> NoOutcome]
  /\ settled = {} /\ result = [c \in Controlled |-> NoOutcome]
  /\ winner = [c \in Controlled |-> NoOutcome] /\ accepted = {}
  /\ settlePC = [b \in Settlers |-> "idle"]
  /\ opPC = [o \in Ops |-> "idle"] /\ queue = <<>> /\ events = <<>> /\ unread = <<>> /\ active = 0
  /\ lostStart = FALSE /\ flushPC = "idle" /\ begun = {}
  /\ quiescencePC = "waiting" /\ quiescent = TRUE
-----------------------------------------------------------------------------
(* ScriptedTransport                                                       *)

Enqueue(x) ==
  /\ x \notin enqueued
  /\ enqueued' = enqueued \cup {x} /\ scripts' = Append(scripts, x)
  /\ UNCHANGED <<attemptPC, attemptScript, attemptOutcome, settled, result, winner, accepted,
                 settlePC, recordVars>>

\* An exhausted script is an empty outcome; a fixed one answers at once.
Send(a) ==
  /\ attemptPC[a] = "idle"
  /\ IF scripts = <<>>
     THEN /\ attemptPC' = [attemptPC EXCEPT ![a] = "returned"]
          /\ UNCHANGED <<scripts, attemptScript, attemptOutcome>>
     ELSE /\ scripts' = Tail(scripts)
          /\ attemptScript' = [attemptScript EXCEPT ![a] = Head(scripts)]
          /\ IF Head(scripts) = Fixed
             THEN /\ attemptPC' = [attemptPC EXCEPT ![a] = "returned"]
                  /\ attemptOutcome' = [attemptOutcome EXCEPT ![a] = Fixed]
             ELSE attemptPC' = [attemptPC EXCEPT ![a] = "waiting"] /\ UNCHANGED attemptOutcome
  /\ UNCHANGED <<enqueued, settled, result, winner, accepted, settlePC, recordVars>>

\* c.result <- outcome, under c.mu: room for one, and only the first settlement gets here.
Settle(c, by) ==
  /\ c \notin settled => result[c] = NoOutcome
  /\ IF c \in settled THEN UNCHANGED <<settled, result, winner>>
     ELSE /\ settled' = settled \cup {c} /\ result' = [result EXCEPT ![c] = by]
          /\ winner' = [winner EXCEPT ![c] = by]

\* Seeded fault: a later settlement replaces one that was not yet received.
SettleAgain(b, c) ==
  /\ settlePC[b] = "idle" /\ c \in enqueued
  /\ settled' = settled \cup {c} /\ result' = [result EXCEPT ![c] = b]
  /\ winner' = [winner EXCEPT ![c] = IF @ = NoOutcome THEN b ELSE @]
  /\ accepted' = accepted \cup {<<b, c>>}
  /\ settlePC' = [settlePC EXCEPT ![b] = "returned"]
  /\ UNCHANGED <<scripts, enqueued, attemptPC, attemptScript, attemptOutcome, recordVars>>

Complete(b, c) ==
  /\ settlePC[b] = "idle" /\ c \in enqueued
  /\ Settle(c, b)
  /\ accepted' = IF c \in settled THEN accepted ELSE accepted \cup {<<b, c>>}
  /\ settlePC' = [settlePC EXCEPT ![b] = "returned"]
  /\ UNCHANGED <<scripts, enqueued, attemptPC, attemptScript, attemptOutcome, recordVars>>

\* ctx.Done() wins the select in wait, perhaps against a result that is there by now.
ContextEnds(a) ==
  /\ attemptPC[a] = "waiting"
  /\ attemptPC' = [attemptPC EXCEPT ![a] = "cancel"]
  /\ UNCHANGED <<scripts, enqueued, attemptScript, attemptOutcome, settled, result, winner,
                 accepted, settlePC, recordVars>>

CancelScript(a) ==
  /\ attemptPC[a] = "cancel"
  /\ Settle(attemptScript[a], a)
  /\ attemptPC' = [attemptPC EXCEPT ![a] = "receive"]
  /\ UNCHANGED <<scripts, enqueued, attemptScript, attemptOutcome, accepted, settlePC, recordVars>>

Receive(a) ==
  /\ attemptPC[a] \in {"waiting", "receive"} /\ result[attemptScript[a]] # NoOutcome
  /\ attemptOutcome' = [attemptOutcome EXCEPT ![a] = result[attemptScript[a]]]
  /\ result' = [result EXCEPT ![attemptScript[a]] = NoOutcome]
  /\ attemptPC' = [attemptPC EXCEPT ![a] = "returned"]
  /\ UNCHANGED <<scripts, enqueued, attemptScript, settled, winner, accepted, settlePC, recordVars>>
-----------------------------------------------------------------------------
(* RecordingObserver, and the dispatcher that calls it                     *)

\* emit: the operation goes on whether its event is queued, or dropped because the queue is
\* full or the runtime is closing.
Emit(o, kind) ==
  /\ \/ kind = "start" /\ opPC[o] = "idle" /\ opPC' = [opPC EXCEPT ![o] = "started"]
     \/ kind = "attempt" /\ opPC[o] = "started" /\ opPC' = [opPC EXCEPT ![o] = "attempted"]
     \/ kind = "end" /\ opPC[o] \in {"started", "attempted"} /\ opPC' = [opPC EXCEPT ![o] = "ended"]
  /\ \/ queue' = Append(queue, [op |-> o, kind |-> kind]) /\ UNCHANGED lostStart
     \/ lostStart' = (lostStart \/ kind = "start") /\ UNCHANGED queue
  /\ UNCHANGED <<events, unread, active, flushPC, begun, quiescencePC, quiescent, scriptVars>>

\* The callback that Observer() returns.
Callback(event) ==
  /\ events' = Append(events, event) /\ unread' = Append(unread, event)
  /\ active' = IF event.kind = "start" THEN active + 1
               ELSE IF event.kind = "end" /\ active > 0 THEN active - 1 ELSE active

Deliver ==
  /\ queue # <<>> /\ queue' = Tail(queue) /\ Callback(Head(queue))
  /\ UNCHANGED <<opPC, lostStart, flushPC, begun, quiescencePC, quiescent, scriptVars>>

\* The runtime closes: what is still queued is dropped.
DropPending ==
  /\ queue # <<>> /\ queue' = <<>>
  /\ lostStart' = (lostStart \/ \E i \in 1..Len(queue) : queue[i].kind = "start")
  /\ UNCHANGED <<opPC, events, unread, active, flushPC, begun, quiescencePC, quiescent, scriptVars>>

\* The test calls FlushObservers, which waits until nothing is pending.
CallFlush ==
  /\ flushPC = "idle" /\ flushPC' = "waiting"
  /\ begun' = {o \in Ops : opPC[o] # "idle"}
  /\ UNCHANGED <<opPC, queue, events, unread, active, lostStart, quiescencePC, quiescent, scriptVars>>

FlushReturns ==
  /\ flushPC = "waiting" /\ queue = <<>> /\ flushPC' = "returned"
  /\ UNCHANGED <<opPC, queue, events, unread, active, lostStart, begun, quiescencePC, quiescent,
                 scriptVars>>

AwaitNext ==
  /\ unread # <<>> /\ unread' = Tail(unread)
  /\ UNCHANGED <<opPC, queue, events, active, lostStart, flushPC, begun, quiescencePC, quiescent,
                 scriptVars>>

Observed(o, kind) == \E i \in 1..Len(events) : events[i] = [op |-> o, kind |-> kind]

\* The operations that AwaitQuiescence promises to have ended: those observed, and after
\* FlushObservers those begun before it.
Promised == {o \in Ops : Observed(o, "start") \/ (flushPC = "returned" /\ o \in begun)}

\* The test may call FlushObservers first.
AwaitQuiescence ==
  /\ quiescencePC = "waiting" /\ flushPC # "waiting"
  /\ events # <<>> /\ active = 0 /\ events[Len(events)].kind = "end"
  /\ quiescencePC' = "returned"
  /\ quiescent' = /\ \E o \in Ops : Observed(o, "start") /\ Observed(o, "end")
                  /\ \A o \in Promised : opPC[o] = "ended"
  /\ UNCHANGED <<opPC, queue, events, unread, active, lostStart, flushPC, begun, scriptVars>>
-----------------------------------------------------------------------------
ScriptStep == \E a \in Attempts : CancelScript(a) \/ Receive(a)

ScriptNext ==
  \/ ScriptStep
  \/ \E x \in Scripts : Enqueue(x)
  \/ \E a \in Attempts : Send(a) \/ ContextEnds(a)
  \/ \E b \in Settlers, c \in Controlled : Complete(b, c)

RecordNext ==
  \/ Deliver \/ DropPending \/ CallFlush \/ FlushReturns \/ AwaitNext \/ AwaitQuiescence
  \/ \E o \in Ops, kind \in EventKinds : Emit(o, kind)
-----------------------------------------------------------------------------
(* Properties                                                              *)

EndsWith(all, end) ==
  Len(end) <= Len(all) /\ \A i \in 1..Len(end) : end[i] = all[Len(all) - Len(end) + i]

\* ControlledResponse: "The first settlement wins", whoever else settles and whether or not
\* the attempt's context ends meanwhile: exactly the winner is told so, and the attempt gets
\* that outcome.  As long as no start was dropped, AwaitQuiescence returns only when some
\* operation was observed from start to end and none that was observed is under way; nor,
\* if FlushObservers returned before, one that began before FlushObservers was called.
\* (An operation whose start is still queued may be.)  AwaitNext skips nothing.
KitIsExact ==
  /\ KitTypeOK
  /\ \A c \in Controlled, b \in Settlers : <<b, c>> \in accepted <=> winner[c] = b
  /\ \A a \in Attempts : attemptPC[a] = "returned" /\ attemptScript[a] \in Controlled
                           => attemptOutcome[a] = winner[attemptScript[a]]
  /\ quiescencePC = "returned" /\ ~lostStart => quiescent
  /\ EndsWith(events, unread)

\* An attempt on a ControlledResponse returns once the response is settled or its context
\* has ended: the receive after Cancel never blocks, whichever settlement was first.
PendingReturns ==
  \A a \in Attempts :
    attemptPC[a] = "cancel" \/ (attemptPC[a] = "waiting" /\ attemptScript[a] \in settled)
      ~> attemptPC[a] = "returned"
=============================================================================
