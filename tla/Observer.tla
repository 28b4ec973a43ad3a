------------------------------ MODULE Observer ------------------------------
(***************************************************************************)
(* The observer dispatcher (observer.go): a bounded queue that operations  *)
(* fill without blocking, one goroutine that runs the callback, and Close  *)
(* and FlushObservers, which wait on it with a condition variable.         *)
(*                                                                         *)
(* Every section under observerDispatcher.mu or runtimeState.mu is one     *)
(* step, and so is every channel operation outside them.  cond.Wait is     *)
(* modelled with its sleeping waiters: only a Broadcast makes them look    *)
(* again, so a missing wake-up shows as a waiter that sleeps for ever.     *)
(*                                                                         *)
(* An event is emitted once; Closers are calls of Close from outside, and  *)
(* SelfClosers calls made by the callback itself.                          *)
(***************************************************************************)
EXTENDS Saturating, Sequences, FiniteSets, Functions

CONSTANTS
  Events, Closers, SelfClosers, Flushers,
  Capacity               \* observerQueueCapacity

ASSUME CapacityAssumption == Capacity \in Nat \ {0}

ASSUME CallersAssumption ==
  IsFiniteSet(Events) /\ Closers \cap SelfClosers = {}

VARIABLES
  queue,                 \* the buffered channel `events'
  pending, active, closing,
  stopCloses,            \* how often close(stop) was called
  dropped, failures,     \* DroppedObserverEvents, ObserverFailures
  runPC,                 \* where run() is
  inHand,                \* events run() has received and not completed
  emitPC, closePC, flushPC,
  accepted, delivered    \* history: events enqueued, events given to the callback

counterVars == <<dropped, failures>>
callerVars  == <<emitPC, closePC, flushPC>>
vars == <<queue, pending, active, closing, stopCloses, counterVars, runPC, inHand,
          callerVars, accepted, delivered>>

RunStates ==
  {"poll",        \* the first select of the loop
   "select",      \* the second select
   "claim",       \* received an event, claimDelivery is next
   "callback",    \* the observer runs
   "settle",      \* the observer returned; deliver takes mu
   "miss",        \* claimDelivery was false: count the drop
   "complete",    \* ... and complete(1)
   "drain",       \* the loop of dropPending
   "drained",     \* dropPending counted its drops; complete(dropped)
   "exit",        \* about to close(done)
   "done"}

EmitStates  == {"start", "queued", "dropping", "counted"}
CloseStates == {"start", "sleeping", "awake", "waiting", "done"}
FlushStates == {"start", "sleeping", "awake", "done"}

TypeOK ==
  /\ queue \in Seq(Events) /\ inHand \in Seq(Events)
  /\ accepted \in Seq(Events) /\ delivered \in Seq(Events)
  /\ pending \in Nat /\ stopCloses \in Nat
  /\ active \in BOOLEAN /\ closing \in BOOLEAN
  /\ dropped \in 0..MaxCounter /\ failures \in 0..MaxCounter
  /\ runPC \in RunStates
  /\ emitPC \in [Events -> EmitStates]
  /\ closePC \in [Closers \cup SelfClosers -> CloseStates]
  /\ flushPC \in [Flushers -> FlushStates]

Init ==
  /\ queue = <<>> /\ inHand = <<>> /\ accepted = <<>> /\ delivered = <<>>
  /\ pending = 0 /\ stopCloses = 0
  /\ active = FALSE /\ closing = FALSE
  /\ dropped = 0 /\ failures = 0
  /\ runPC = "poll"
  /\ emitPC = [e \in Events |-> "start"]
  /\ closePC = [c \in Closers \cup SelfClosers |-> "start"]
  /\ flushPC = [f \in Flushers |-> "start"]

\* The channel `stop' is closed.
Stopped == stopCloses > 0

Wake(pcs) == [x \in DOMAIN pcs |-> IF pcs[x] = "sleeping" THEN "awake" ELSE pcs[x]]

\* cond.Broadcast(): every sleeping waiter will look again.
Broadcast == closePC' = Wake(closePC) /\ flushPC' = Wake(flushPC)

RunMoves(from, to) == runPC = from /\ runPC' = to
-----------------------------------------------------------------------------
(* emit                                                                    *)

Enqueue(e) ==
  /\ emitPC[e] = "start"
  /\ ~closing /\ Len(queue) < Capacity
  /\ emitPC' = [emitPC EXCEPT ![e] = "queued"]
  /\ queue' = Append(queue, e)
  /\ accepted' = Append(accepted, e)
  /\ pending' = pending + 1
  /\ UNCHANGED <<active, closing, stopCloses, counterVars, runPC, inHand, closePC,
                 flushPC, delivered>>

\* The dispatcher is closing or the queue is full: unlock, then count the drop.
RefuseEvent(e) ==
  /\ emitPC[e] = "start"
  /\ closing \/ Len(queue) >= Capacity
  /\ emitPC' = [emitPC EXCEPT ![e] = "dropping"]
  /\ UNCHANGED <<queue, pending, active, closing, stopCloses, counterVars, runPC,
                 inHand, closePC, flushPC, accepted, delivered>>

CountRefused(e) ==
  /\ emitPC[e] = "dropping"
  /\ emitPC' = [emitPC EXCEPT ![e] = "counted"]
  /\ dropped' = SaturatingAdd(dropped, 1)
  /\ UNCHANGED <<queue, pending, active, closing, stopCloses, failures, runPC,
                 inHand, closePC, flushPC, accepted, delivered>>

EmitStep(e) == Enqueue(e) \/ RefuseEvent(e) \/ CountRefused(e)
-----------------------------------------------------------------------------
(* run                                                                     *)

\* Seeded fault: run returns on stop without dropPending.
ExitOnStop ==
  /\ Stopped
  /\ RunMoves("poll", "exit")
  /\ UNCHANGED <<queue, pending, active, closing, stopCloses, counterVars, inHand,
                 callerVars, accepted, delivered>>

PollStop ==
  /\ Stopped
  /\ RunMoves("poll", "drain")
  /\ UNCHANGED <<queue, pending, active, closing, stopCloses, counterVars, inHand,
                 callerVars, accepted, delivered>>

PollDefault ==
  /\ ~Stopped
  /\ RunMoves("poll", "select")
  /\ UNCHANGED <<queue, pending, active, closing, stopCloses, counterVars, inHand,
                 callerVars, accepted, delivered>>

\* With an event and the stop both ready, the second select takes either.
SelectEvent ==
  /\ queue # <<>>
  /\ RunMoves("select", "claim")
  /\ queue' = Tail(queue)
  /\ inHand' = <<Head(queue)>>
  /\ UNCHANGED <<pending, active, closing, stopCloses, counterVars, callerVars,
                 accepted, delivered>>

SelectStop ==
  /\ Stopped
  /\ RunMoves("select", "drain")
  /\ UNCHANGED <<queue, pending, active, closing, stopCloses, counterVars, inHand,
                 callerVars, accepted, delivered>>

\* claimDelivery returned true, and the callback starts.
ClaimDelivery ==
  /\ ~closing
  /\ RunMoves("claim", "callback")
  /\ active' = TRUE
  /\ delivered' = Append(delivered, Head(inHand))
  /\ UNCHANGED <<queue, pending, closing, stopCloses, counterVars, inHand, callerVars,
                 accepted>>

ClaimMissed ==
  /\ closing
  /\ RunMoves("claim", "miss")
  /\ UNCHANGED <<queue, pending, active, closing, stopCloses, counterVars, inHand,
                 callerVars, accepted, delivered>>

\* The callback returned or panicked; deliver recovers the panic.  A Close that
\* the callback called has returned before.
CallbackEnds ==
  /\ \A c \in SelfClosers : closePC[c] \in {"start", "done"}
  /\ RunMoves("callback", "settle")
  /\ failures' \in {failures, SaturatingAdd(failures, 1)}
  /\ UNCHANGED <<queue, pending, active, closing, stopCloses, dropped, inHand,
                 callerVars, accepted, delivered>>

Settle ==
  /\ RunMoves("settle", "poll")
  /\ active' = FALSE
  /\ pending' = pending - 1
  /\ inHand' = <<>>
  /\ Broadcast
  /\ UNCHANGED <<queue, closing, stopCloses, counterVars, emitPC, accepted, delivered>>

\* Seeded fault: a batch of drops counts as one.
CountOne ==
  /\ dropped' = SaturatingAdd(dropped, 1)
  /\ UNCHANGED <<queue, pending, active, closing, stopCloses, failures, inHand,
                 callerVars, accepted, delivered>>

\* addDroppedObserverEvents for what run() holds.
CountInHand ==
  /\ dropped' = SaturatingAdd(dropped, Len(inHand))
  /\ UNCHANGED <<queue, pending, active, closing, stopCloses, failures, inHand,
                 callerVars, accepted, delivered>>

CountMissed == RunMoves("miss", "complete") /\ CountInHand

\* Seeded fault: complete never wakes the waiters.
CompleteQuietly ==
  /\ pending' = pending - Len(inHand)
  /\ inHand' = <<>>
  /\ UNCHANGED <<closePC, flushPC>>
  /\ UNCHANGED <<queue, active, closing, stopCloses, counterVars, emitPC, accepted,
                 delivered>>

\* complete(count): wakes the waiters when nothing is pending any more.
Complete ==
  /\ pending' = pending - Len(inHand)
  /\ inHand' = <<>>
  /\ IF pending = Len(inHand) THEN Broadcast ELSE UNCHANGED <<closePC, flushPC>>
  /\ UNCHANGED <<queue, active, closing, stopCloses, counterVars, emitPC, accepted,
                 delivered>>

CompleteMissed == RunMoves("complete", "poll") /\ Complete

\* dropPending receives until the queue is empty.
DropEvent ==
  /\ queue # <<>>
  /\ RunMoves("drain", "drain")
  /\ queue' = Tail(queue)
  /\ inHand' = Append(inHand, Head(queue))
  /\ UNCHANGED <<pending, active, closing, stopCloses, counterVars, callerVars,
                 accepted, delivered>>

DropNothing ==
  /\ queue = <<>> /\ inHand = <<>>
  /\ RunMoves("drain", "exit")
  /\ UNCHANGED <<queue, pending, active, closing, stopCloses, counterVars, inHand,
                 callerVars, accepted, delivered>>

CountDropped == queue = <<>> /\ inHand # <<>> /\ RunMoves("drain", "drained") /\ CountInHand

CompleteDropped == RunMoves("drained", "exit") /\ Complete

\* The deferred close(done).
RunExits ==
  /\ RunMoves("exit", "done")
  /\ UNCHANGED <<queue, pending, active, closing, stopCloses, counterVars, inHand,
                 callerVars, accepted, delivered>>

RunStep ==
  \/ PollStop \/ PollDefault \/ SelectEvent \/ SelectStop
  \/ ClaimDelivery \/ ClaimMissed \/ CallbackEnds \/ Settle
  \/ CountMissed \/ CompleteMissed
  \/ DropEvent \/ DropNothing \/ CountDropped \/ CompleteDropped \/ RunExits
-----------------------------------------------------------------------------
(* close                                                                   *)

\* What close leaves alone.
CloseFrame ==
  UNCHANGED <<queue, pending, active, counterVars, runPC, inHand, emitPC, flushPC,
              accepted, delivered>>

\* Holding mu: wait for the callback, or close(stop) and wait for done.
AwaitCallback(c) ==
  /\ closePC' = [closePC EXCEPT ![c] = IF active THEN "sleeping" ELSE "waiting"]
  /\ stopCloses' = IF active THEN stopCloses ELSE stopCloses + 1

\* Seeded fault: a second Close returns without waiting for `done'.
CloseReturnsEarly(c) ==
  /\ c \in Closers /\ closePC[c] = "start"
  /\ closing
  /\ closePC' = [closePC EXCEPT ![c] = "done"]
  /\ UNCHANGED <<closing, stopCloses>>
  /\ CloseFrame

CloseFirst(c) ==
  /\ c \in Closers /\ closePC[c] = "start"
  /\ ~closing
  /\ closing' = TRUE
  /\ AwaitCallback(c)
  /\ CloseFrame

CloseLater(c) ==
  /\ c \in Closers /\ closePC[c] = "start"
  /\ closing
  /\ closePC' = [closePC EXCEPT ![c] = "waiting"]
  /\ UNCHANGED <<closing, stopCloses>>
  /\ CloseFrame

\* cond.Wait returned.
CloseWakes(c) ==
  /\ closePC[c] = "awake"
  /\ AwaitCallback(c)
  /\ UNCHANGED closing
  /\ CloseFrame

\* <-done returned.
CloseEnds(c) ==
  /\ closePC[c] = "waiting" /\ runPC = "done"
  /\ closePC' = [closePC EXCEPT ![c] = "done"]
  /\ UNCHANGED <<closing, stopCloses>>
  /\ CloseFrame

\* Close called by the callback: close(stop) at once, and never wait.
SelfClose(c) ==
  /\ c \in SelfClosers /\ closePC[c] = "start"
  /\ runPC = "callback"
  /\ closing' = TRUE
  /\ stopCloses' = IF closing THEN stopCloses ELSE stopCloses + 1
  /\ closePC' = [closePC EXCEPT ![c] = "done"]
  /\ CloseFrame

CloseStep(c) ==
  CloseFirst(c) \/ CloseLater(c) \/ CloseWakes(c) \/ CloseEnds(c) \/ SelfClose(c)

\* flush: look at pending, now or after a Broadcast.
FlushStep(f) ==
  /\ flushPC[f] \in {"start", "awake"}
  /\ flushPC' = [flushPC EXCEPT ![f] = IF pending # 0 THEN "sleeping" ELSE "done"]
  /\ UNCHANGED <<queue, pending, active, closing, stopCloses, counterVars, runPC,
                 inHand, emitPC, closePC, accepted, delivered>>
-----------------------------------------------------------------------------
\* Every caller was served and the goroutine ended.
Finished ==
  /\ \A e \in Events : emitPC[e] \in {"queued", "counted"}
  /\ \A c \in Closers : closePC[c] = "done"
  /\ \A f \in Flushers : flushPC[f] = "done"
  /\ runPC = "done"
  /\ UNCHANGED vars

Next ==
  \/ RunStep
  \/ \E e \in Events : EmitStep(e)
  \/ \E c \in Closers \cup SelfClosers : CloseStep(c)
  \/ \E f \in Flushers : FlushStep(f)
  \/ Finished

Spec == Init /\ [][Next]_vars
\* The goroutine runs, the observer returns from every event, and the callers
\* that entered a method keep going.  Nobody has to emit, close or flush.
Fairness ==
  /\ WF_vars(RunStep)
  /\ \A e \in Events : WF_vars(CountRefused(e))
  /\ \A c \in Closers : WF_vars(closePC[c] # "start" /\ CloseStep(c))
  /\ \A f \in Flushers : WF_vars(flushPC[f] # "start" /\ FlushStep(f))

FairSpec == Spec /\ Fairness
-----------------------------------------------------------------------------
(* Properties                                                              *)

\* pending counts exactly the events that are queued or in the hands of run():
\* no path of deliver, complete or dropPending forgets one or counts one twice,
\* so flush waits for them all and for nothing else.
PendingIsExact == pending = Len(queue) + Len(inHand)

\* The callback sees the accepted events in the order of emission and without
\* a gap; what Close discards is a suffix (run, claimDelivery, dropPending).
DeliveredIsPrefix ==
  /\ Len(delivered) <= Len(accepted)
  /\ \A i \in 1..Len(delivered) : delivered[i] = accepted[i]

\* The events whose drop was counted: refused by emit, or accepted and gone
\* without the callback having seen them.
CountedDrops ==
  {e \in Events :
     \/ emitPC[e] = "counted"
     \/ /\ emitPC[e] = "queued"
        /\ e \notin Range(delivered) \cup Range(queue)
        /\ e \in Range(inHand) => runPC \in {"complete", "drained"}}

\* DroppedObserverEvents is the number of events that were lost, capped: every
\* event is delivered or counted once, whoever of emit, run and dropPending
\* loses it.
DropsAreCounted ==
  dropped = IF Cardinality(CountedDrops) < MaxCounter THEN Cardinality(CountedDrops)
            ELSE MaxCounter

\* close(stop) runs at most once, whoever closes: a second one would panic.
StopClosedOnce == stopCloses <= 1

\* When run() has ended nothing is left behind: an event emitted around Close
\* is delivered, dropped by dropPending or refused, never stranded.
DoneIsEmpty == runPC = "done" => queue = <<>> /\ pending = 0 /\ ~active

\* No callback runs once a Close from outside has returned, even if the
\* callback itself closed the runtime first (close, SelfClose).
ClosedIsQuiet ==
  \A c \in Closers : closePC[c] = "done" => runPC = "done"

\* Nobody sleeps without a wake-up to come: a Close sleeps only while the
\* callback runs, a flush only while an event is pending (deliver, complete).
SleepersWillWake ==
  /\ \A c \in Closers : closePC[c] = "sleeping" => active
  /\ \A f \in Flushers : flushPC[f] = "sleeping" => pending # 0

\* Every accepted event reaches the callback or is counted as dropped.
EventSettles ==
  \A e \in Events :
    emitPC[e] = "queued" ~> e \in Range(delivered) \/ e \in CountedDrops
-----------------------------------------------------------------------------
(* The inductive invariant behind the theorems of ObserverProofs           *)

\* What run() holds at each of its places.
RunShape ==
  /\ active <=> runPC \in {"callback", "settle"}
  /\ runPC \in {"claim", "callback", "settle", "miss", "complete"} => Len(inHand) = 1
  /\ runPC \in {"poll", "select", "exit", "done"} => inHand = <<>>
  /\ runPC \in {"miss", "complete"} => closing
  /\ runPC \in {"drain", "drained", "exit", "done"} => Stopped
  /\ runPC \in {"drained", "exit", "done"} => queue = <<>>

\* Who may still close `stop': the one Close that waits for the callback.
CloseShape ==
  /\ Stopped => closing
  /\ \A c \in Closers : closePC[c] \in {"sleeping", "awake"} => closing /\ ~Stopped
  /\ \A c, d \in Closers : closePC[c] \in {"sleeping", "awake"}
                             /\ closePC[d] \in {"sleeping", "awake"} => c = d
  /\ \A c \in SelfClosers : closePC[c] \in {"start", "done"}

\* Where the queued event, the event to be claimed and the delivered ones lie
\* in the order of acceptance.
OrderShape ==
  /\ Len(queue) <= Len(accepted)
  /\ \A i \in 1..Len(queue) : queue[i] = accepted[Len(accepted) - Len(queue) + i]
  /\ runPC = "claim" => /\ Len(queue) < Len(accepted)
                        /\ inHand[1] = accepted[Len(accepted) - Len(queue)]
  /\ ~closing =>
       Len(accepted) = Len(delivered) + Len(queue) + (IF runPC = "claim" THEN 1 ELSE 0)

\* Where an accepted event is: in the queue once, in the hands of run() once, or
\* gone; only the event of the callback is in hand and delivered.
PlaceShape ==
  /\ IsInjective(queue) /\ IsInjective(inHand)
  /\ Range(queue) \cap (Range(inHand) \cup Range(delivered)) = {}
  /\ IF active THEN Range(inHand) \subseteq Range(delivered)
     ELSE Range(inHand) \cap Range(delivered) = {}
  /\ \A e \in Range(queue) \cup Range(inHand) \cup Range(delivered) : emitPC[e] = "queued"

DispatchInv ==
  /\ TypeOK
  /\ PendingIsExact /\ RunShape
  /\ StopClosedOnce /\ CloseShape
  /\ ClosedIsQuiet /\ SleepersWillWake
  /\ OrderShape /\ DeliveredIsPrefix

Inv == DispatchInv /\ PlaceShape
=============================================================================
