--------------------------- MODULE ObserverProofs ---------------------------
(***************************************************************************)
(* Proofs about Observer, for any sets of events and callers and any       *)
(* capacity.                                                               *)
(***************************************************************************)
EXTENDS Observer, TLAPS

\* The diagnostic counters never pass their cap (saturatingAdd).
LEMMA SaturatingAddRange ==
  ASSUME NEW n \in 0..MaxCounter, NEW d \in Nat
  PROVE  SaturatingAdd(n, d) \in 0..MaxCounter
  BY CounterAssumption DEF SaturatingAdd

-----------------------------------------------------------------------------
(* Steps that move no event and wake nobody                                *)

\* What such a step leaves alone.
Still == UNCHANGED <<queue, pending, active, closing, stopCloses, inHand, closePC,
                     flushPC, accepted, delivered>>

\* A step that only moves run(), or an emitter, between two of its places and
\* counts a drop or a failure.
LEMMA StillStep ==
  ASSUME DispatchInv, Still, RunShape',
         emitPC' \in [Events -> EmitStates], runPC' \in RunStates,
         dropped' \in 0..MaxCounter, failures' \in 0..MaxCounter,
         runPC = "done" => runPC' = "done",
         runPC' = "claim" => runPC = "claim",
         runPC = "claim" => runPC' = "claim" \/ closing
  PROVE  DispatchInv'
<1> USE DEF Still
<1>1. OrderShape' /\ DeliveredIsPrefix'
  BY SMTT(30) DEF DispatchInv, OrderShape, DeliveredIsPrefix
<1> QED BY <1>1, Zenon
           DEF DispatchInv, TypeOK, PendingIsExact, StopClosedOnce, CloseShape, Stopped,
               ClosedIsQuiet,
               SleepersWillWake

\* The places of run() between which only runPC changes.
LEMMA QuietRunInv ==
  ASSUME DispatchInv,
         PollStop \/ PollDefault \/ SelectStop \/ ClaimMissed \/ DropNothing \/ RunExits
  PROVE  DispatchInv'
<1> USE DEF PollStop, PollDefault, SelectStop, ClaimMissed, DropNothing, RunExits,
            RunMoves, counterVars, callerVars
<1>1. RunShape'
  BY SMTT(30) DEF DispatchInv, TypeOK, RunShape, Stopped
<1> QED BY <1>1, StillStep, Zenon DEF DispatchInv, TypeOK, RunStates, Still

\* The observer returned or panicked; run() counted what it drops.
LEMMA CountingRunInv ==
  ASSUME DispatchInv, CallbackEnds \/ CountMissed \/ CountDropped
  PROVE  DispatchInv'
<1> USE DEF CallbackEnds, CountMissed, CountDropped, CountInHand, RunMoves, callerVars
<1>1. RunShape'
  BY DEF DispatchInv, TypeOK, RunShape, Stopped
<1>2. dropped' \in 0..MaxCounter /\ failures' \in 0..MaxCounter
  <2>1. Len(inHand) \in Nat /\ dropped \in 0..MaxCounter /\ failures \in 0..MaxCounter
    BY DEF DispatchInv, TypeOK
  <2> QED BY <2>1, SaturatingAddRange, Zenon
<1> QED BY <1>1, <1>2, StillStep, Zenon DEF DispatchInv, TypeOK, RunStates, Still

\* emit refused an event, or counted it.
LEMMA RefuseInv ==
  ASSUME DispatchInv, NEW e \in Events, RefuseEvent(e) \/ CountRefused(e)
  PROVE  DispatchInv'
<1> USE DEF RefuseEvent, CountRefused, counterVars
<1>1. RunShape'
  BY DEF DispatchInv, RunShape, Stopped
<1>2. dropped' \in 0..MaxCounter /\ failures' \in 0..MaxCounter
  BY SaturatingAddRange, Zenon DEF DispatchInv, TypeOK
<1> QED BY <1>1, <1>2, StillStep, Zenon DEF DispatchInv, TypeOK, EmitStates, Still

-----------------------------------------------------------------------------
(* Steps that move an event                                                *)

\* Lengths are natural numbers.
LEMMA Lengths ==
  ASSUME DispatchInv
  PROVE  /\ Len(queue) \in Nat /\ Len(inHand) \in Nat
         /\ Len(accepted) \in Nat /\ Len(delivered) \in Nat
         /\ pending \in Nat /\ pending = Len(queue) + Len(inHand)
  BY DEF DispatchInv, TypeOK, PendingIsExact

\* emit puts an event at the end of the queue: nobody is closing.
LEMMA EnqueueInv ==
  ASSUME DispatchInv, NEW e \in Events, Enqueue(e)
  PROVE  DispatchInv'
<1> USE DEF Enqueue, counterVars
<1>1. ClosedIsQuiet' /\ SleepersWillWake'
  BY DEF DispatchInv, TypeOK, ClosedIsQuiet, SleepersWillWake
<1>2. Len(queue') = Len(queue) + 1 /\ Len(accepted') = Len(accepted) + 1
  BY DEF DispatchInv, TypeOK
<1>3. ASSUME NEW i \in 1..Len(queue')
      PROVE  queue'[i] = accepted'[Len(accepted') - Len(queue') + i]
  <2>1. /\ Len(queue) \in Nat /\ Len(accepted) \in Nat /\ Len(queue) <= Len(accepted)
        /\ i \in Nat /\ 1 <= i /\ i <= Len(queue) + 1
        /\ Len(accepted') - Len(queue') + i = Len(accepted) - Len(queue) + i
    BY <1>2, SMTT(30) DEF DispatchInv, TypeOK, OrderShape
  <2>2. CASE i = Len(queue) + 1
    BY <2>1, <2>2, SMTT(30) DEF DispatchInv, TypeOK
  <2>3. CASE i # Len(queue) + 1
    <3>1. i \in 1..Len(queue) /\ Len(accepted) - Len(queue) + i \in 1..Len(accepted)
      BY <2>1, <2>3
    <3>2. queue'[i] = queue[i]
      BY <3>1 DEF DispatchInv, TypeOK
    <3>3. accepted'[Len(accepted) - Len(queue) + i] = accepted[Len(accepted) - Len(queue) + i]
      BY <3>1 DEF DispatchInv, TypeOK
    <3> QED BY <2>1, <3>1, <3>2, <3>3, Zenon DEF DispatchInv, OrderShape
  <2> QED BY <2>2, <2>3, Zenon
<1>4. runPC = "claim" => /\ Len(queue') < Len(accepted')
                         /\ inHand[1] = accepted'[Len(accepted') - Len(queue')]
  <2> SUFFICES ASSUME runPC = "claim"
               PROVE  /\ Len(queue') < Len(accepted')
                      /\ inHand[1] = accepted'[Len(accepted') - Len(queue')]
    BY Zenon
  <2>1. Len(queue) < Len(accepted) /\ inHand[1] = accepted[Len(accepted) - Len(queue)]
    BY Zenon DEF DispatchInv, OrderShape
  <2>2. /\ Len(accepted') - Len(queue') = Len(accepted) - Len(queue)
        /\ Len(accepted) - Len(queue) \in 1..Len(accepted) /\ Len(queue') < Len(accepted')
    BY <1>2, <2>1 DEF DispatchInv, TypeOK
  <2>3. accepted'[Len(accepted) - Len(queue)] = accepted[Len(accepted) - Len(queue)]
    BY <2>2 DEF DispatchInv, TypeOK
  <2> QED BY <2>1, <2>2, <2>3, Zenon
<1>5. OrderShape'
  <2>1. Len(queue') <= Len(accepted')
    BY <1>2 DEF DispatchInv, TypeOK, OrderShape
  <2>2. ~closing' => Len(accepted') = Len(delivered') + Len(queue')
                                       + (IF runPC' = "claim" THEN 1 ELSE 0)
    <3>1. Len(accepted) = Len(delivered) + Len(queue) + (IF runPC = "claim" THEN 1 ELSE 0)
      BY DEF DispatchInv, OrderShape
    <3>2. delivered' = delivered /\ runPC' = runPC
      OBVIOUS
    <3> HIDE DEF Enqueue
    <3> QED BY <1>2, <3>1, <3>2, Lengths
  <2> QED BY <1>3, <1>4, <2>1, <2>2, Zenon DEF OrderShape
<1>6. DeliveredIsPrefix'
  BY <1>2 DEF DispatchInv, TypeOK, DeliveredIsPrefix
<1> QED BY <1>1, <1>5, <1>6
           DEF DispatchInv, TypeOK, EmitStates, PendingIsExact, RunShape, CloseShape, Stopped,
               StopClosedOnce

\* The second select takes the first event.
LEMMA SelectEventInv ==
  ASSUME DispatchInv, SelectEvent
  PROVE  DispatchInv'
<1> USE DEF SelectEvent, RunMoves, counterVars, callerVars
<1>1. ClosedIsQuiet' /\ SleepersWillWake' /\ DeliveredIsPrefix'
  BY DEF DispatchInv, ClosedIsQuiet, SleepersWillWake, DeliveredIsPrefix
<1>2. queue \in Seq(Events) /\ queue # <<>> /\ inHand' = <<Head(queue)>> /\ queue' = Tail(queue)
  BY DEF DispatchInv, TypeOK
<1>3. OrderShape'
  BY <1>2 DEF DispatchInv, RunShape, OrderShape
<1> QED BY <1>1, <1>3
           DEF DispatchInv, TypeOK, RunStates, PendingIsExact, RunShape, CloseShape, Stopped,
               StopClosedOnce

\* claimDelivery succeeded: nobody is closing, so nothing was dropped yet and
\* the event is the next one in the order of acceptance.
LEMMA ClaimDeliveryInv ==
  ASSUME DispatchInv, ClaimDelivery
  PROVE  DispatchInv'
<1> USE DEF ClaimDelivery, RunMoves, counterVars, callerVars
<1>1. Len(inHand) = 1 /\ Head(inHand) = inHand[1] /\ Head(inHand) \in Events
  <2>1. inHand \in Seq(Events) /\ Len(inHand) = 1
    BY DEF DispatchInv, TypeOK, RunShape
  <2>2. inHand[1] \in Events
    BY <2>1, SMTT(30)
  <2> QED BY <2>1, <2>2
<1>2. Len(delivered') = Len(delivered) + 1 /\ delivered' \in Seq(Events)
  BY <1>1 DEF DispatchInv, TypeOK
<1>3. ClosedIsQuiet' /\ SleepersWillWake'
  BY DEF DispatchInv, ClosedIsQuiet, SleepersWillWake
<1>4. Len(accepted) = Len(delivered) + Len(queue) + 1
  BY DEF DispatchInv, OrderShape
<1>5. ASSUME NEW i \in 1..Len(delivered') PROVE delivered'[i] = accepted[i]
  <2>1. CASE i = Len(delivered) + 1
    BY <1>4, <2>1, <1>1 DEF DispatchInv, TypeOK, OrderShape
  <2>2. CASE i \in 1..Len(delivered)
    <3>1. delivered'[i] = delivered[i]
      BY <2>2 DEF DispatchInv, TypeOK
    <3> QED BY <2>2, <3>1, Zenon DEF DispatchInv, DeliveredIsPrefix
  <2> QED BY <1>2, <2>1, <2>2 DEF DispatchInv, TypeOK
<1>6. DeliveredIsPrefix'
  <2>1. Len(delivered') <= Len(accepted)
    BY <1>2, <1>4 DEF DispatchInv, TypeOK
  <2> QED BY <1>5, <2>1 DEF DeliveredIsPrefix
<1> QED BY <1>3, <1>6, <1>2, <1>4, SMTT(30)
           DEF DispatchInv, TypeOK, RunStates, PendingIsExact, RunShape, Stopped, StopClosedOnce,
               CloseShape, OrderShape

\* A Broadcast changes who sleeps and nothing else about the callers.
LEMMA WakeFacts ==
  ASSUME DispatchInv, Broadcast
  PROVE  /\ closePC' \in [Closers \cup SelfClosers -> CloseStates]
         /\ flushPC' \in [Flushers -> FlushStates]
         /\ \A c \in Closers \cup SelfClosers :
              closePC'[c] = IF closePC[c] = "sleeping" THEN "awake" ELSE closePC[c]
         /\ \A f \in Flushers :
              flushPC'[f] = IF flushPC[f] = "sleeping" THEN "awake" ELSE flushPC[f]
  BY DEF DispatchInv, TypeOK, Broadcast, Wake, CloseStates, FlushStates

\* deliver gives the event up and wakes everybody.
LEMMA SettleInv ==
  ASSUME DispatchInv, Settle
  PROVE  DispatchInv'
<1> USE DEF Settle, RunMoves, counterVars
<1>1. Len(inHand) = 1
  BY DEF DispatchInv, RunShape
<1>2. TypeOK'
  <2>1. active' \in BOOLEAN
    BY Zenon
  <2> QED BY <2>1, <1>1, Lengths, WakeFacts DEF DispatchInv, TypeOK, RunStates
<1>3. OrderShape' /\ DeliveredIsPrefix'
  BY DEF DispatchInv, OrderShape, DeliveredIsPrefix
<1> QED BY <1>2, <1>3, Lengths, <1>1, WakeFacts
           DEF DispatchInv, PendingIsExact, RunShape, Stopped, ClosedIsQuiet, SleepersWillWake,
               StopClosedOnce, CloseShape
\* complete gives up all that run() holds, and wakes everybody if that was all.
LEMMA CompleteInv ==
  ASSUME DispatchInv, CompleteMissed \/ CompleteDropped
  PROVE  DispatchInv'
<1> USE DEF CompleteMissed, CompleteDropped, Complete, RunMoves, counterVars
<1>1. pending' = Len(queue) /\ pending' \in Nat /\ Len(inHand') = 0
  BY Lengths
<1>2. ~active /\ runPC' \in RunStates
  BY DEF DispatchInv, RunShape, RunStates
<1>3. PendingIsExact' /\ RunShape'
  BY <1>1, Lengths DEF DispatchInv, PendingIsExact, RunShape, Stopped
<1>4. CASE pending = Len(inHand)
  <2>1. Broadcast
    BY <1>4
  <2>2. TypeOK'
    BY <1>1, <1>2, <2>1, WakeFacts, SMTT(30) DEF DispatchInv, TypeOK
  <2>3. StopClosedOnce' /\ CloseShape'
    BY <2>1, WakeFacts DEF DispatchInv, StopClosedOnce, CloseShape, Stopped
  <2> QED BY <1>3, <2>2, <2>3, <2>1, WakeFacts, Zenon
             DEF DispatchInv, OrderShape, DeliveredIsPrefix, ClosedIsQuiet, SleepersWillWake
<1>5. CASE pending # Len(inHand)
  <2>1. pending' # 0 /\ UNCHANGED <<closePC, flushPC>>
    BY <1>5, Lengths
  <2>2. TypeOK'
    BY <1>1, <1>2, <2>1, SMTT(30) DEF DispatchInv, TypeOK
  <2>3. ClosedIsQuiet' /\ SleepersWillWake'
    BY <2>1 DEF DispatchInv, ClosedIsQuiet, SleepersWillWake
  <2> QED BY <1>3, <2>2, <2>3, <2>1, Zenon
             DEF DispatchInv, OrderShape, DeliveredIsPrefix, StopClosedOnce, CloseShape, Stopped
<1> QED BY <1>4, <1>5

\* dropPending takes one event: somebody is closing, so the order of what was
\* delivered is settled.
LEMMA DropEventInv ==
  ASSUME DispatchInv, DropEvent
  PROVE  DispatchInv'
<1> USE DEF DropEvent, RunMoves, counterVars, callerVars
<1>1. /\ Len(queue') = Len(queue) - 1 /\ Len(queue) > 0
      /\ \A i \in 1..Len(queue') : queue'[i] = queue[i + 1]
  BY DEF DispatchInv, TypeOK
<1>2. ClosedIsQuiet' /\ SleepersWillWake'
  BY DEF DispatchInv, ClosedIsQuiet, SleepersWillWake
<1>3. OrderShape'
  <2>1. ASSUME NEW i \in 1..Len(queue')
        PROVE  queue'[i] = accepted[Len(accepted) - Len(queue') + i]
    <3>1. i + 1 \in 1..Len(queue)
          /\ Len(accepted) - Len(queue') + i = Len(accepted) - Len(queue) + (i + 1)
      BY <1>1, Lengths
    <3> QED BY <1>1, <3>1, Zenon DEF DispatchInv, OrderShape
  <2> QED BY <2>1, <1>1, Lengths DEF OrderShape, DispatchInv, RunShape, CloseShape
<1> QED BY <1>2, <1>3, SMTT(30)
           DEF DispatchInv, TypeOK, RunStates, PendingIsExact, RunShape, Stopped, StopClosedOnce,
               CloseShape, DeliveredIsPrefix
-----------------------------------------------------------------------------
(* The callers                                                             *)

\* A step of Close moves no event and never reopens the dispatcher.
LEMMA CloseFrameInv ==
  ASSUME DispatchInv, CloseFrame, closing => closing', stopCloses <= stopCloses',
         closing' \in BOOLEAN, stopCloses' \in Nat,
         closePC' \in [Closers \cup SelfClosers -> CloseStates],
         StopClosedOnce', CloseShape', ClosedIsQuiet',
         \A c \in Closers : closePC'[c] = "sleeping" => active
  PROVE  DispatchInv'
<1> USE DEF CloseFrame, counterVars
<1> QED BY DEF DispatchInv, TypeOK, PendingIsExact, SleepersWillWake, RunShape, Stopped, OrderShape,
               DeliveredIsPrefix

\* The first Close from outside.
LEMMA CloseFirstInv ==
  ASSUME DispatchInv, NEW c \in Closers, CloseFirst(c)
  PROVE  DispatchInv'
<1> USE DEF CloseFirst, AwaitCallback
<1>1. closePC' \in [Closers \cup SelfClosers -> CloseStates] /\ stopCloses' \in Nat
  BY DEF DispatchInv, TypeOK, CloseStates
<1>2. stopCloses = 0 /\ \A d \in Closers : closePC[d] \notin {"sleeping", "awake"}
  BY DEF DispatchInv, TypeOK, CloseShape, Stopped
<1>3. CloseShape'
  BY <1>2, CallersAssumption DEF DispatchInv, CloseShape, Stopped, TypeOK
<1>4. ClosedIsQuiet' /\ \A d \in Closers : closePC'[d] = "sleeping" => active
  BY DEF DispatchInv, ClosedIsQuiet, SleepersWillWake, CloseFrame, TypeOK
<1> QED BY <1>1, <1>3, <1>4, CloseFrameInv, <1>2 DEF StopClosedOnce

\* The Close that waited for the callback closes `stop': only it could.
LEMMA CloseWakesInv ==
  ASSUME DispatchInv, NEW c \in Closers \cup SelfClosers, CloseWakes(c)
  PROVE  DispatchInv'
<1> USE DEF CloseWakes, AwaitCallback
<1>1. closePC' \in [Closers \cup SelfClosers -> CloseStates] /\ stopCloses' \in Nat
  BY DEF DispatchInv, TypeOK, CloseStates
<1>2. c \in Closers /\ closing /\ stopCloses = 0
  BY DEF DispatchInv, TypeOK, CloseShape, Stopped
<1>3. CloseShape'
  BY <1>2, CallersAssumption DEF DispatchInv, CloseShape, Stopped, TypeOK
<1>4. ClosedIsQuiet' /\ \A d \in Closers : closePC'[d] = "sleeping" => active
  BY DEF DispatchInv, ClosedIsQuiet, SleepersWillWake, CloseFrame, TypeOK
<1> QED BY <1>1, <1>3, <1>4, CloseFrameInv, <1>2 DEF StopClosedOnce

\* A later Close goes to wait, or leaves after run() has ended.
LEMMA CloseWaitsInv ==
  ASSUME DispatchInv, NEW c \in Closers \cup SelfClosers, CloseLater(c) \/ CloseEnds(c)
  PROVE  DispatchInv'
<1> USE DEF CloseLater, CloseEnds
<1>1. StopClosedOnce' /\ stopCloses <= stopCloses'
  BY DEF DispatchInv, TypeOK, StopClosedOnce
<1>2. CloseShape'
  BY CallersAssumption, Zenon DEF DispatchInv, CloseShape, Stopped, TypeOK
<1> QED BY <1>1, <1>2, CloseFrameInv, Zenon
           DEF DispatchInv, TypeOK, CloseStates, ClosedIsQuiet, SleepersWillWake, CloseFrame,
               CloseShape
\* The callback closes: it closes `stop' only if it is the first to close.
LEMMA SelfCloseInv ==
  ASSUME DispatchInv, NEW c \in SelfClosers, SelfClose(c)
  PROVE  DispatchInv'
<1> USE DEF SelfClose
<1>1. closePC' \in [Closers \cup SelfClosers -> CloseStates] /\ stopCloses' \in Nat
  BY DEF DispatchInv, TypeOK, CloseStates
<1>2. StopClosedOnce' /\ stopCloses <= stopCloses'
  BY DEF DispatchInv, TypeOK, StopClosedOnce, CloseShape, Stopped
<1> QED BY <1>1, <1>2, CloseFrameInv, CallersAssumption, Zenon
           DEF DispatchInv, CloseShape, Stopped, TypeOK, ClosedIsQuiet, SleepersWillWake, CloseFrame

\* flush looks at pending.
LEMMA FlushInv ==
  ASSUME DispatchInv, NEW f \in Flushers, FlushStep(f)
  PROVE  DispatchInv'
<1> USE DEF FlushStep, counterVars
<1>1. ClosedIsQuiet' /\ SleepersWillWake'
  BY DEF DispatchInv, TypeOK, ClosedIsQuiet, SleepersWillWake
<1>2. OrderShape' /\ DeliveredIsPrefix'
  BY SMTT(30) DEF DispatchInv, OrderShape, DeliveredIsPrefix
<1> QED BY <1>1, <1>2
           DEF DispatchInv, TypeOK, FlushStates, PendingIsExact, StopClosedOnce, CloseShape,
               RunShape,
               Stopped

\* A stuttering step.
LEMMA StutterInv ==
  ASSUME DispatchInv, UNCHANGED vars
  PROVE  DispatchInv'
  BY DEF vars, counterVars, callerVars, DispatchInv, TypeOK, PendingIsExact, RunShape,
     StopClosedOnce,
         CloseShape, Stopped, ClosedIsQuiet, SleepersWillWake, OrderShape, DeliveredIsPrefix

\* The initial state.
LEMMA InitInv == Init => DispatchInv
<1> SUFFICES ASSUME Init PROVE DispatchInv
  OBVIOUS
<1> USE DEF Init
<1>1. TypeOK
  <2>1. active \in BOOLEAN /\ closing \in BOOLEAN
    BY Zenon
  <2> QED BY <2>1, CounterAssumption DEF TypeOK, RunStates, EmitStates, CloseStates, FlushStates
<1>2. ClosedIsQuiet /\ SleepersWillWake /\ OrderShape /\ DeliveredIsPrefix
  BY DEF ClosedIsQuiet, SleepersWillWake, OrderShape, DeliveredIsPrefix
<1> QED BY <1>1, <1>2 DEF DispatchInv, PendingIsExact, RunShape, StopClosedOnce, CloseShape, Stopped

\* Every step preserves the invariant.
LEMMA NextInv ==
  ASSUME DispatchInv, [Next]_vars
  PROVE  DispatchInv'
<1>1. CASE RunStep
  BY <1>1, QuietRunInv, CountingRunInv, SelectEventInv, ClaimDeliveryInv, SettleInv,
     CompleteInv, DropEventInv DEF RunStep
<1>2. ASSUME NEW e \in Events, EmitStep(e) PROVE DispatchInv'
  BY <1>2, EnqueueInv, RefuseInv DEF EmitStep
<1>3. ASSUME NEW c \in Closers \cup SelfClosers, CloseStep(c) PROVE DispatchInv'
  <2>1. CASE CloseFirst(c)
    BY <2>1, CloseFirstInv DEF CloseFirst
  <2>2. CASE CloseLater(c) \/ CloseEnds(c)
    BY <2>2, CloseWaitsInv
  <2>3. CASE CloseWakes(c)
    BY <2>3, CloseWakesInv
  <2>4. CASE SelfClose(c)
    BY <2>4, SelfCloseInv, Zenon DEF SelfClose
  <2> QED BY <1>3, <2>1, <2>2, <2>3, <2>4 DEF CloseStep
<1>4. ASSUME NEW f \in Flushers, FlushStep(f) PROVE DispatchInv'
  BY <1>4, FlushInv
<1>5. CASE Finished \/ UNCHANGED vars
  BY <1>5, StutterInv DEF Finished
<1> QED BY <1>1, <1>2, <1>3, <1>4, <1>5 DEF Next

-----------------------------------------------------------------------------
(* Which events are lost, and how many                                     *)

\* What a sequence holds once an event is appended.
LEMMA AppendHolds ==
  ASSUME NEW q \in Seq(Events), NEW e \in Events
  PROVE  /\ Range(Append(q, e)) = Range(q) \cup {e}
         /\ IsInjective(q) /\ e \notin Range(q) => IsInjective(Append(q, e))
<1> DEFINE r == Append(q, e)
<1>1. /\ DOMAIN q = 1..Len(q) /\ DOMAIN r = 1..(Len(q) + 1) /\ Len(q) \in Nat
      /\ r[Len(q) + 1] = e /\ \A i \in 1..Len(q) : r[i] = q[i]
  OBVIOUS
<1>2. \A i \in DOMAIN r : i \in DOMAIN q \/ i = Len(q) + 1
  BY <1>1
<1>3. DOMAIN q \subseteq DOMAIN r /\ Len(q) + 1 \in DOMAIN r
  BY <1>1
<1> HIDE DEF r
<1>4. Range(r) = Range(q) \cup {e}
  BY <1>1, <1>2, <1>3, Zenon DEF Range
<1>5. ASSUME IsInjective(q), e \notin Range(q) PROVE IsInjective(r)
  BY <1>1, <1>2, <1>5, Zenon DEF IsInjective, Range
<1> QED BY <1>4, <1>5 DEF r

\* What it holds once its first event is taken.
LEMMA TailHolds ==
  ASSUME NEW q \in Seq(Events), q # <<>>, IsInjective(q)
  PROVE  /\ Head(q) \in Events /\ Tail(q) \in Seq(Events) /\ IsInjective(Tail(q))
         /\ Range(q) = Range(Tail(q)) \cup {Head(q)} /\ Head(q) \notin Range(Tail(q))
<1> DEFINE r == Tail(q)
<1>1. /\ Head(q) = q[1] /\ Head(q) \in Events /\ r \in Seq(Events) /\ Len(q) \in Nat /\ Len(q) > 0
      /\ DOMAIN q = 1..Len(q) /\ DOMAIN r = 1..(Len(q) - 1)
      /\ \A i \in 1..(Len(q) - 1) : r[i] = q[i + 1]
  OBVIOUS
<1>2. \A i \in DOMAIN r : i \in Nat /\ i + 1 \in DOMAIN q /\ i + 1 # 1 /\ r[i] = q[i + 1]
  BY <1>1
<1>3. \A j \in DOMAIN q : j = 1 \/ \E i \in DOMAIN r : j = i + 1
  <2> SUFFICES ASSUME NEW j \in DOMAIN q, j # 1 PROVE j - 1 \in DOMAIN r /\ j = (j - 1) + 1
    OBVIOUS
  <2> QED BY <1>1
<1>4. 1 \in DOMAIN q
  BY <1>1
<1>5. \A i, j \in DOMAIN r : i + 1 = j + 1 => i = j
  BY <1>1
<1> HIDE DEF r
<1>6. IsInjective(r)
  BY <1>2, <1>5, Zenon DEF IsInjective
<1>7. Range(q) = Range(r) \cup {q[1]}
  BY <1>2, <1>3, <1>4 DEF Range
<1>8. q[1] \notin Range(r)
  BY <1>2, <1>4 DEF Range, IsInjective
<1> QED BY <1>1, <1>6, <1>7, <1>8 DEF r

\* What short sequences hold.
LEMMA FewHold ==
  /\ Range(<<>>) = {} /\ IsInjective(<<>>)
  /\ \A e \in Events : Range(<<e>>) = {e} /\ IsInjective(<<e>>)
  BY DEF Range, IsInjective

\* The events that are delivered or may still be: whatever else was accepted is lost.
Kept ==
  Range(delivered) \cup Range(queue)
    \cup (IF runPC \in {"complete", "drained"} THEN {} ELSE Range(inHand))

\* Losing nothing and losing the events of G.
LosesNothing == CountedDrops' = CountedDrops /\ dropped' = dropped
Loses(G) ==
  /\ CountedDrops' = CountedDrops \cup G /\ CountedDrops \cap G = {} /\ G \subseteq Events

\* A step of run() that keeps every event loses none.
LEMMA KeepsAll ==
  ASSUME emitPC' = emitPC, Kept' = Kept
  PROVE  CountedDrops' = CountedDrops
  BY Zenon DEF CountedDrops, Kept

\* Steps that move no event.
LEMMA StillPlaces ==
  ASSUME Inv, UNCHANGED <<queue, inHand, delivered, emitPC, active, dropped>>,
         runPC' = runPC \/ {runPC, runPC'} \cap {"complete", "drained"} = {}
  PROVE  PlaceShape' /\ LosesNothing
<1>1. PlaceShape'
  BY DEF Inv, PlaceShape
<1>2. Kept' = Kept
  BY Zenon DEF Kept
<1> QED BY <1>1, <1>2, KeepsAll DEF LosesNothing

\* run() receives the first event of the queue.
LEMMA ReceivePlaces ==
  ASSUME Inv, SelectEvent \/ DropEvent
  PROVE  PlaceShape' /\ LosesNothing
<1> DEFINE h == Head(queue)
<1>1. /\ queue # <<>> /\ queue' = Tail(queue) /\ inHand' = Append(inHand, h)
      /\ UNCHANGED <<active, delivered, emitPC, dropped>> /\ ~active
      /\ {runPC, runPC'} \cap {"complete", "drained"} = {}
  <2>1. /\ queue # <<>> /\ queue' = Tail(queue) /\ runPC \in {"select", "drain"} /\ runPC' \in {"claim", "drain"}
        /\ UNCHANGED <<active, delivered, emitPC, dropped>>
        /\ inHand' = Append(inHand, h) \/ (runPC = "select" /\ inHand' = <<h>>)
    BY Zenon DEF SelectEvent, DropEvent, RunMoves, counterVars, callerVars
  <2>2. ~active /\ (runPC = "select" => inHand = <<>>)
    BY <2>1 DEF Inv, DispatchInv, RunShape
  <2>3. Append(<<>>, h) = <<h>>
    OBVIOUS
  <2> QED BY <2>1, <2>2, <2>3, Zenon
<1>2. queue \in Seq(Events) /\ inHand \in Seq(Events) /\ PlaceShape
  BY DEF Inv, DispatchInv, TypeOK
<1>3. /\ h \in Events /\ IsInjective(queue') /\ Range(queue) = Range(queue') \cup {h}
      /\ h \notin Range(queue') /\ h \notin Range(inHand)
  BY <1>1, <1>2, TailHolds DEF PlaceShape
<1>4. Range(inHand') = Range(inHand) \cup {h} /\ IsInjective(inHand')
  BY <1>1, <1>2, <1>3, AppendHolds DEF PlaceShape
<1> HIDE DEF h
<1>5. PlaceShape'
  BY <1>1, <1>2, <1>3, <1>4 DEF PlaceShape
<1>6. Kept' = Kept
  BY <1>1, <1>3, <1>4, Zenon DEF Kept
<1> QED BY <1>1, <1>5, <1>6, KeepsAll DEF LosesNothing

\* The callback takes the event in hand.
LEMMA ClaimPlaces ==
  ASSUME Inv, ClaimDelivery
  PROVE  PlaceShape' /\ LosesNothing
<1>1. /\ runPC = "claim" /\ runPC' = "callback" /\ delivered' = Append(delivered, Head(inHand)) /\ active'
      /\ UNCHANGED <<queue, inHand, emitPC, dropped>>
  BY Zenon DEF ClaimDelivery, RunMoves, counterVars, callerVars
<1>2. /\ delivered \in Seq(Events) /\ inHand \in Seq(Events) /\ Len(inHand) = 1 /\ PlaceShape /\ ~active
  BY <1>1 DEF Inv, DispatchInv, TypeOK, RunShape
<1>3. Head(inHand) \in Events /\ Range(inHand) = {Head(inHand)}
  BY <1>2 DEF Range
<1>4. Range(delivered') = Range(delivered) \cup Range(inHand)
  BY <1>1, <1>2, <1>3, AppendHolds
<1>5. PlaceShape'
  BY <1>1, <1>2, <1>4 DEF PlaceShape
<1>6. Kept' = Kept
  BY <1>1, <1>4 DEF Kept
<1> QED BY <1>1, <1>5, <1>6, KeepsAll DEF LosesNothing

\* run() is done with what it holds: the callback saw it, or its loss was counted.
LEMMA ReleasePlaces ==
  ASSUME Inv, Settle \/ CompleteMissed \/ CompleteDropped
  PROVE  PlaceShape' /\ LosesNothing
<1>1. /\ inHand' = <<>> /\ UNCHANGED <<queue, delivered, emitPC, dropped>>
      /\ (runPC = "settle" /\ ~active') \/ (runPC \in {"complete", "drained"} /\ active' = active)
      /\ runPC' \in {"poll", "exit"}
  BY Zenon DEF Settle, CompleteMissed, CompleteDropped, Complete, RunMoves, counterVars
<1>2. PlaceShape /\ (active <=> runPC \in {"callback", "settle"})
  BY DEF Inv, DispatchInv, RunShape
<1>3. Range(inHand') = {} /\ IsInjective(inHand')
  BY <1>1, FewHold
<1>4. PlaceShape'
  BY <1>1, <1>2, <1>3 DEF PlaceShape
<1>5. Kept' = Kept
  BY <1>1, <1>2, <1>3 DEF Kept, PlaceShape
<1> QED BY <1>1, <1>4, <1>5, KeepsAll DEF LosesNothing

\* run() counts what it holds.
LEMMA CountPlaces ==
  ASSUME Inv, CountMissed \/ CountDropped
  PROVE  PlaceShape' /\ Loses(Range(inHand)) /\ dropped' = SaturatingAdd(dropped, Len(inHand))
<1>1. /\ UNCHANGED <<queue, inHand, delivered, emitPC, active>> /\ dropped' = SaturatingAdd(dropped, Len(inHand))
      /\ runPC \in {"miss", "drain"} /\ runPC' \in {"complete", "drained"}
  BY Zenon DEF CountMissed, CountDropped, CountInHand, RunMoves, callerVars
<1>2. PlaceShape /\ ~active /\ inHand \in Seq(Events)
  BY <1>1 DEF Inv, DispatchInv, RunShape, TypeOK
<1>3. PlaceShape' /\ Range(inHand) \subseteq Events
  <2>1. Range(inHand) \subseteq Events
    BY <1>2 DEF Range
  <2> QED BY <2>1, <1>1, <1>2 DEF PlaceShape
<1>4. Loses(Range(inHand))
  BY <1>1, <1>2, <1>3 DEF Loses, CountedDrops, PlaceShape
<1> QED BY <1>1, <1>3, <1>4

\* emit accepts, refuses or counts an event.
LEMMA EmitPlaces ==
  ASSUME Inv, NEW e \in Events, EmitStep(e)
  PROVE  /\ PlaceShape'
         /\ LosesNothing \/ (Loses({e}) /\ dropped' = SaturatingAdd(dropped, 1))
<1>1. PlaceShape /\ emitPC \in [Events -> EmitStates] /\ queue \in Seq(Events)
  BY DEF Inv, DispatchInv, TypeOK
<1>2. UNCHANGED <<inHand, delivered, active, runPC>>
  BY Zenon DEF EmitStep, Enqueue, RefuseEvent, CountRefused
<1>3. CASE Enqueue(e)
  <2>1. /\ emitPC[e] = "start" /\ emitPC' = [emitPC EXCEPT ![e] = "queued"] /\ dropped' = dropped
        /\ queue' = Append(queue, e)
    BY <1>3, Zenon DEF Enqueue, counterVars
  <2>2. e \notin Range(queue) \cup Range(inHand) \cup Range(delivered)
    BY <1>1, <2>1 DEF PlaceShape
  <2>3. Range(queue') = Range(queue) \cup {e} /\ IsInjective(queue')
    BY <1>1, <2>1, <2>2, AppendHolds DEF PlaceShape
  <2>4. PlaceShape'
    BY <1>1, <1>2, <2>1, <2>2, <2>3 DEF PlaceShape
  <2>5. CountedDrops' = CountedDrops
    BY <1>1, <1>2, <2>1, <2>3 DEF CountedDrops
  <2> QED BY <2>1, <2>4, <2>5 DEF LosesNothing
<1>4. CASE RefuseEvent(e)
  <2>1. emitPC[e] = "start" /\ emitPC' = [emitPC EXCEPT ![e] = "dropping"] /\ UNCHANGED <<queue, dropped>>
    BY <1>4, Zenon DEF RefuseEvent, counterVars
  <2>2. PlaceShape'
    BY <1>1, <1>2, <2>1 DEF PlaceShape
  <2>3. CountedDrops' = CountedDrops
    BY <1>1, <1>2, <2>1 DEF CountedDrops
  <2> QED BY <2>1, <2>2, <2>3 DEF LosesNothing
<1>5. CASE CountRefused(e)
  <2>1. /\ emitPC[e] = "dropping" /\ emitPC' = [emitPC EXCEPT ![e] = "counted"] /\ UNCHANGED queue
        /\ dropped' = SaturatingAdd(dropped, 1)
    BY <1>5, Zenon DEF CountRefused
  <2>2. PlaceShape'
    BY <1>1, <1>2, <2>1 DEF PlaceShape
  <2>3. Loses({e})
    BY <1>1, <1>2, <2>1 DEF CountedDrops, Loses
  <2> QED BY <2>1, <2>2, <2>3
<1> QED BY <1>3, <1>4, <1>5 DEF EmitStep

\* Every step keeps the places, and loses nothing or counts what it loses.
LEMMA NextPlaces ==
  ASSUME Inv, [Next]_vars
  PROVE  /\ PlaceShape'
         /\ \/ LosesNothing
            \/ Loses(Range(inHand)) /\ dropped' = SaturatingAdd(dropped, Len(inHand))
            \/ \E e \in Events : Loses({e}) /\ dropped' = SaturatingAdd(dropped, 1)
<1>1. CASE \/ PollStop \/ PollDefault \/ SelectStop \/ ClaimMissed \/ DropNothing \/ RunExits
           \/ CallbackEnds
  <2>1. /\ UNCHANGED <<queue, inHand, delivered, emitPC, active, dropped>>
        /\ runPC \in {"poll", "select", "claim", "drain", "exit", "callback"}
        /\ runPC' \in {"drain", "select", "miss", "exit", "done", "settle"}
    BY <1>1, Zenon DEF PollStop, PollDefault, SelectStop, ClaimMissed, DropNothing, RunExits,
       CallbackEnds, RunMoves, counterVars, callerVars
  <2>2. {runPC, runPC'} \cap {"complete", "drained"} = {}
    BY <2>1
  <2> QED BY <2>1, <2>2, StillPlaces
<1>2. CASE (\E c \in Closers \cup SelfClosers : CloseStep(c)) \/ (\E f \in Flushers : FlushStep(f))
           \/ Finished \/ UNCHANGED vars
  <2>1. UNCHANGED <<queue, inHand, delivered, emitPC, active, dropped, runPC>>
    BY <1>2, Zenon
       DEF CloseStep, CloseFirst, CloseLater, CloseWakes, CloseEnds, SelfClose, CloseFrame,
       FlushStep, Finished, vars, counterVars, callerVars
  <2> QED BY <2>1, StillPlaces
<1> QED BY <1>1, <1>2, ReceivePlaces, ClaimPlaces, ReleasePlaces, CountPlaces, EmitPlaces, Zenon
           DEF Next, RunStep

\* Nothing is accepted or lost yet.
LEMMA InitPlaces == Init => PlaceShape /\ CountedDrops = {} /\ dropped = 0
  BY FewHold DEF Init, PlaceShape, CountedDrops

\* A capped count that grows by d (saturatingAdd).
LEMMA SaturatingCount ==
  ASSUME NEW n \in Nat, NEW d \in Nat, dropped = IF n < MaxCounter THEN n ELSE MaxCounter
  PROVE  SaturatingAdd(dropped, d) = IF n + d < MaxCounter THEN n + d ELSE MaxCounter
  BY CounterAssumption DEF SaturatingAdd
-----------------------------------------------------------------------------
(* The theorems                                                            *)

\* Inv holds in every state of every behaviour of the dispatcher.
THEOREM Invariance == Spec => []Inv
<1>1. Init => Inv
  BY InitInv, InitPlaces DEF Inv
<1>2. Inv /\ [Next]_vars => Inv'
  BY NextInv, NextPlaces DEF Inv
<1> QED BY <1>1, <1>2, PTL DEF Spec

\* pending never loses or repeats an event (emit, deliver, complete).
THEOREM PendingExact == Spec => []PendingIsExact
<1>1. Inv => PendingIsExact
  BY DEF Inv, DispatchInv
<1> QED BY <1>1, Invariance, PTL

\* Delivery is in the order of emission and without a gap, for every capacity.
THEOREM InOrder == Spec => []DeliveredIsPrefix
<1>1. Inv => DeliveredIsPrefix
  BY DEF Inv, DispatchInv
<1> QED BY <1>1, Invariance, PTL

\* However closes from outside and from the callback race, `stop' is closed
\* once and close(stop) never panics.
THEOREM StopOnce == Spec => []StopClosedOnce
<1>1. Inv => StopClosedOnce
  BY DEF Inv, DispatchInv
<1> QED BY <1>1, Invariance, PTL

\* The goroutine leaves no event behind.
THEOREM NothingStranded == Spec => []DoneIsEmpty
<1>1. ASSUME Inv PROVE DoneIsEmpty
  BY <1>1 DEF DoneIsEmpty, Inv, DispatchInv, TypeOK, RunShape, PendingIsExact
<1> QED BY <1>1, Invariance, PTL

\* A Close from outside returns only when no callback runs or will run.
THEOREM CloseIsQuiet == Spec => []ClosedIsQuiet
<1>1. Inv => ClosedIsQuiet
  BY DEF Inv, DispatchInv
<1> QED BY <1>1, Invariance, PTL

\* The wake-up that a sleeping Close or flush needs is always still to come.
THEOREM NoLostWakeup == Spec => []SleepersWillWake
<1>1. Inv => SleepersWillWake
  BY DEF Inv, DispatchInv
<1> QED BY <1>1, Invariance, PTL
-----------------------------------------------------------------------------
(* Counting the losses                                                     *)

INSTANCE FiniteSetTheorems

\* A sequence without repetitions is as long as it holds events.
LEMMA LengthCounts ==
  ASSUME NEW q \in Seq(Events), IsInjective(q)
  PROVE  IsFiniteSet(Range(q)) /\ Cardinality(Range(q)) = Len(q)
<1>1. q \in Bijection(1..Len(q), Range(q))
  BY DEF Bijection, Injection, Surjection, Range
<1>2. IsFiniteSet(1..Len(q)) /\ Cardinality(1..Len(q)) = Len(q)
  <2>1. Len(q) \in Nat /\ 1 \in Int
    OBVIOUS
  <2>2. IsFiniteSet(1..Len(q)) /\ Cardinality(1..Len(q)) = IF 1 > Len(q) THEN 0 ELSE Len(q) - 1 + 1
    BY <2>1, FS_Interval, SMTT(30)
  <2> QED BY <2>1, <2>2
<1> QED BY <1>1, <1>2, FS_Bijection DEF ExistsBijection

\* A loss that is counted keeps the count exact.
LEMMA LossCounted ==
  ASSUME DropsAreCounted, NEW G, Loses(G), NEW n \in Nat, Cardinality(G) = n,
         dropped' = SaturatingAdd(dropped, n)
  PROVE  DropsAreCounted'
<1>1. IsFiniteSet(CountedDrops) /\ IsFiniteSet(G)
  BY CallersAssumption, FS_Subset DEF CountedDrops, Loses
<1>2. Cardinality(CountedDrops) \in Nat
  BY <1>1, FS_CardinalityType
<1>3. Cardinality(CountedDrops') = Cardinality(CountedDrops) + n
  <2>1. CountedDrops' = CountedDrops \cup G /\ CountedDrops \cap G = {}
    BY DEF Loses
  <2>2. Cardinality(CountedDrops \cup G)
          = Cardinality(CountedDrops) + Cardinality(G) - Cardinality(CountedDrops \cap G)
    BY <1>1, FS_Union, Zenon
  <2>3. Cardinality(CountedDrops \cap G) = 0
    BY <2>1, FS_EmptySet, Zenon
  <2> QED BY <1>2, <2>1, <2>2, <2>3
<1> QED BY <1>2, <1>3, SaturatingCount DEF DropsAreCounted

\* DroppedObserverEvents is exact up to its cap, for any number of events, any capacity
\* and any order of emit, run, dropPending and Close: every event that was emitted is
\* delivered, still on its way, or counted once.
THEOREM DropsCounted == Spec => []DropsAreCounted
<1>1. Init => DropsAreCounted
  BY InitPlaces, FS_EmptySet, CounterAssumption DEF DropsAreCounted
<1>2. ASSUME Inv, DropsAreCounted, [Next]_vars PROVE DropsAreCounted'
  <2>1. CASE LosesNothing
    BY <1>2, <2>1 DEF LosesNothing, DropsAreCounted
  <2>2. CASE Loses(Range(inHand)) /\ dropped' = SaturatingAdd(dropped, Len(inHand))
    <3>1. inHand \in Seq(Events) /\ IsInjective(inHand)
      BY <1>2 DEF Inv, DispatchInv, TypeOK, PlaceShape
    <3>2. Len(inHand) \in Nat /\ Cardinality(Range(inHand)) = Len(inHand)
      BY <3>1, LengthCounts
    <3> QED BY <1>2, <2>2, <3>2, LossCounted
  <2>3. ASSUME NEW e \in Events, Loses({e}), dropped' = SaturatingAdd(dropped, 1) PROVE DropsAreCounted'
    <3>1. Cardinality({e}) = 1
      BY FS_Singleton
    <3> QED BY <1>2, <2>3, <3>1, LossCounted
  <2> QED BY <1>2, <2>1, <2>2, <2>3, NextPlaces, Zenon
<1> QED BY <1>1, <1>2, Invariance, PTL DEF Spec
=============================================================================
