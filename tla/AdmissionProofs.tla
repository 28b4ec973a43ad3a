--------------------------- MODULE AdmissionProofs ---------------------------
(***************************************************************************)
(* Proofs about Admission, for any number of sends and closes and any      *)
(* limits that LimitsAssumption allows.                                    *)
(***************************************************************************)
EXTENDS Admission, FiniteSetLaws, TLAPS

\* What the lemma of an action concludes.
Preserved == Inv => Inv'

\* A reservation is a natural number (state.go constants).
LEMMA ReservationNat == Reservation \in Nat
  BY LimitsAssumption DEF Reservation

\* What Inv says about the counters.
Accounts ==
  /\ CountersMatchPermits
  /\ wg = Cardinality(Awaited)
  /\ WithinLimits

\* A step that moves no permit between the sets and touches no counter keeps
\* the books balanced.
LEMMA QuietAccounts ==
  ASSUME Inv, Holding' = Holding, Awaited' = Awaited,
         heldBytes' = heldBytes, inFlight' = inFlight, buffered' = buffered, wg' = wg
  PROVE  Accounts'
  BY DEF Inv, Accounts, CountersMatchPermits, WithinLimits, HeldUnits

-----------------------------------------------------------------------------
(* Preservation of Inv.  A step of one Send changes the shape of its own   *)
(* permit only, so each action is argued at p and the frame lemma does the *)
(* other permits.                                                          *)

\* What a step of p leaves alone at every other permit.
FrameOf(p) ==
  \A q \in Ops \ {p} :
    /\ sendPC'[q] = sendPC[q] /\ callPC'[q] = callPC[q] /\ shrunk'[q] = shrunk[q]
    /\ activeCalls'[q] = activeCalls[q]
    /\ releaseRequested'[q] = releaseRequested[q] /\ released'[q] = released[q]
    /\ heldBytes'[q] = heldBytes[q] /\ releasePC'[q] = releasePC[q]

\* The parts of Inv, put together after a step of p.
LEMMA StepOfSend ==
  ASSUME NEW p \in Ops, FrameOf(p), TypeOK', Accounts',
         PermitShape(p)', WorkspaceShape(p)', CloseShape'
  PROVE  Preserved
<1> SUFFICES ASSUME Inv PROVE Inv'
  BY DEF Preserved
<1>1. ASSUME NEW q \in Ops \ {p} PROVE PermitShape(q)' /\ WorkspaceShape(q)'
  BY DEF FrameOf, PermitShape, WorkspaceShape, Admitted, Inv
<1> QED BY <1>1 DEF Inv, Accounts

\* A step that touches neither the closing flags nor the WaitGroup.
LEMMA QuietClose ==
  ASSUME Inv, UNCHANGED <<closeVars, wg>>
  PROVE  CloseShape'
  BY DEF Inv, CloseShape, closeVars

\* admit returned an error.
LEMMA RejectInv ==
  ASSUME NEW p \in Ops, Reject(p),
         concurrencyRejections' \in 0..MaxCounter, byteRejections' \in 0..MaxCounter
  PROVE  Preserved
<1> SUFFICES ASSUME Inv PROVE Preserved
  BY DEF Preserved
<1>1. PermitShape(p)' /\ WorkspaceShape(p)'
  BY DEF Inv, TypeOK, PermitShape, WorkspaceShape, Admitted, Reject, SendMoves, permitVars
<1>2. Accounts'
  BY QuietAccounts DEF Reject, permitVars, Inv, TypeOK, SendMoves, Holding, Awaited, Admitted
<1> QED BY <1>1, <1>2, StepOfSend, QuietClose, Zenon
           DEF Inv, TypeOK, Reject, SendMoves, SendStates, closeVars, permitVars, FrameOf

\* The diagnostic counters never pass their cap (saturatingAdd).
LEMMA SaturatingAddRange ==
  ASSUME NEW n \in 0..MaxCounter
  PROVE  SaturatingAdd(n, 1) \in 0..MaxCounter
  BY CounterAssumption DEF SaturatingAdd

\* beginCall and the start of the call's goroutine.
LEMMA BeginCallInv ==
  ASSUME NEW p \in Ops, NEW kind \in {"hook", "attempt"}, BeginCall(p, kind)
  PROVE  Preserved
<1> SUFFICES ASSUME Inv PROVE Preserved
  BY DEF Preserved
<1>1. TypeOK'
  BY LimitsAssumption
     DEF Inv, TypeOK, PermitShape, BeginCall, SendMoves, SendStates, CallStates, ReleaseStates,
         stateVars, closeVars, permitVars
<1>2. PermitShape(p)' /\ WorkspaceShape(p)'
  BY DEF Inv, TypeOK, PermitShape, WorkspaceShape, Admitted, BeginCall, SendMoves, permitVars
<1>3. Holding' = Holding /\ Awaited' = Awaited
  BY DEF Inv, TypeOK, PermitShape, BeginCall, SendMoves, Holding, Awaited, Admitted, permitVars
<1> QED BY <1>1, <1>2, StepOfSend, <1>3, QuietAccounts, QuietClose, Zenon
           DEF Inv, TypeOK, FrameOf, BeginCall, SendMoves, permitVars, stateVars

\* The hook's goroutine ends, after its Send left or before.
LEMMA HookEndsInv ==
  ASSUME NEW p \in Ops, HookEnds(p)
  PROVE  Preserved
<1> SUFFICES ASSUME Inv PROVE Preserved
  BY DEF Preserved
<1>1. TypeOK'
  BY DEF Inv, TypeOK, PermitShape, HookEnds, EndCall, SendStates, CallStates, ReleaseStates,
         stateVars, closeVars, permitVars
<1>2. PermitShape(p)' /\ WorkspaceShape(p)'
  BY DEF Inv, TypeOK, PermitShape, WorkspaceShape, Admitted, HookEnds, EndCall, permitVars
<1>3. Holding' = Holding /\ Awaited' = Awaited
  BY DEF Inv, TypeOK, PermitShape, HookEnds, EndCall, Holding, Awaited, Admitted, permitVars
<1> QED BY <1>1, <1>2, StepOfSend, <1>3, QuietAccounts, QuietClose, Zenon
           DEF Inv, TypeOK, FrameOf, HookEnds, EndCall, permitVars, stateVars

\* Send receives the hook's result.
LEMMA HookResultInv ==
  ASSUME NEW p \in Ops, HookResult(p)
  PROVE  Preserved
<1> SUFFICES ASSUME Inv PROVE Preserved
  BY DEF Preserved
<1>1. TypeOK'
  BY DEF Inv, TypeOK, PermitShape, HookResult, SendMoves, SendStates, CallStates, ReleaseStates,
         stateVars, closeVars, permitVars
<1>2. Holding' = Holding /\ Awaited' = Awaited
  BY DEF Inv, TypeOK, PermitShape, HookResult, SendMoves, Holding, Awaited, Admitted, permitVars
<1>3. FrameOf(p)
  BY DEF Inv, TypeOK, FrameOf, HookResult, SendMoves, permitVars
<1> QED BY <1>1, <1>3, StepOfSend, <1>2, QuietAccounts, QuietClose, Zenon
           DEF Inv, TypeOK, PermitShape, WorkspaceShape, Admitted, HookResult, SendMoves,
               permitVars, stateVars

\* Send gives a call up at the operation deadline.
LEMMA AbandonCallInv ==
  ASSUME NEW p \in Ops, AbandonCall(p)
  PROVE  Preserved
<1> SUFFICES ASSUME Inv PROVE Preserved
  BY DEF Preserved
<1>1. TypeOK'
  BY DEF Inv, TypeOK, PermitShape, AbandonCall, SendMoves, SendStates, CallStates, ReleaseStates,
         stateVars, closeVars, permitVars
<1>2. Holding' = Holding /\ Awaited' = Awaited
  BY DEF Inv, TypeOK, PermitShape, AbandonCall, SendMoves, Holding, Awaited, Admitted, permitVars
<1>3. FrameOf(p)
  BY DEF Inv, TypeOK, FrameOf, AbandonCall, SendMoves, permitVars
<1>4. Accounts' /\ CloseShape'
  BY <1>2, QuietAccounts, QuietClose DEF AbandonCall, SendMoves, stateVars, permitVars
<1> QED BY <1>1, <1>3, <1>4, StepOfSend, Zenon
           DEF Inv, TypeOK, PermitShape, WorkspaceShape, Admitted, AbandonCall, SendMoves,
               permitVars

\* The transport returned.
LEMMA AttemptEndsInv ==
  ASSUME NEW p \in Ops, AttemptEnds(p)
  PROVE  Preserved
<1> SUFFICES ASSUME Inv PROVE Preserved
  BY DEF Preserved
<1>1. TypeOK'
  BY DEF Inv, TypeOK, PermitShape, AttemptEnds, SendStates, CallStates, ReleaseStates,
         stateVars, closeVars, permitVars
<1>2. FrameOf(p)
  BY DEF Inv, TypeOK, FrameOf, AttemptEnds, permitVars
<1>3. Accounts' /\ CloseShape'
  BY QuietAccounts, QuietClose, Zenon
     DEF AttemptEnds, stateVars, permitVars, Inv, TypeOK, PermitShape, Holding, Awaited,
         Admitted
<1> QED BY <1>1, <1>2, <1>3, StepOfSend, Zenon
           DEF Inv, TypeOK, PermitShape, WorkspaceShape, Admitted, AttemptEnds, permitVars

\* Send receives the attempt's outcome.
LEMMA AttemptResultInv ==
  ASSUME NEW p \in Ops, AttemptResult(p)
  PROVE  Preserved
<1> SUFFICES ASSUME Inv PROVE Preserved
  BY DEF Preserved
<1>1. TypeOK'
  BY DEF Inv, TypeOK, PermitShape, AttemptResult, EndCall, SendMoves, SendStates, CallStates,
     ReleaseStates,
         stateVars, closeVars, permitVars
<1>2. PermitShape(p)' /\ WorkspaceShape(p)'
  BY DEF Inv, TypeOK, PermitShape, WorkspaceShape, Admitted, AttemptResult, EndCall, SendMoves,
     permitVars
<1>3. Holding' = Holding /\ Awaited' = Awaited
  BY DEF Inv, TypeOK, PermitShape, AttemptResult, EndCall, SendMoves, Holding, Awaited, Admitted,
     permitVars
<1> QED BY <1>1, <1>2, StepOfSend, <1>3, QuietAccounts, QuietClose, Zenon
           DEF Inv, TypeOK, FrameOf, AttemptResult, EndCall, SendMoves, permitVars, stateVars

\* An abandoned attempt ends.
LEMMA AbandonedAttemptEndsInv ==
  ASSUME NEW p \in Ops, AbandonedAttemptEnds(p)
  PROVE  Preserved
<1> SUFFICES ASSUME Inv PROVE Preserved
  BY DEF Preserved
<1>1. TypeOK'
  BY SMTT(30) DEF Inv, TypeOK, PermitShape, AbandonedAttemptEnds, EndCall, SendStates, CallStates,
     ReleaseStates,
         stateVars, closeVars, permitVars
<1>2. PermitShape(p)' /\ WorkspaceShape(p)'
  BY SMTT(30) DEF Inv, TypeOK, PermitShape, WorkspaceShape, Admitted, AbandonedAttemptEnds,
     EndCall, permitVars
<1>3. Holding' = Holding /\ Awaited' = Awaited
  BY DEF Inv, TypeOK, PermitShape, AbandonedAttemptEnds, EndCall, Holding, Awaited, Admitted,
     permitVars
<1> QED BY <1>1, <1>2, StepOfSend, <1>3, QuietAccounts, QuietClose, Zenon
           DEF Inv, TypeOK, FrameOf, AbandonedAttemptEnds, EndCall, permitVars, stateVars

\* release decides who finalizes.
LEMMA ReleaseInv ==
  ASSUME NEW p \in Ops, Release(p)
  PROVE  Preserved
<1> SUFFICES ASSUME Inv PROVE Preserved
  BY DEF Preserved
<1>1. TypeOK'
  BY DEF Inv, TypeOK, PermitShape, Release, SendStates, CallStates, ReleaseStates,
         stateVars, closeVars, permitVars
<1>2. PermitShape(p)' /\ WorkspaceShape(p)'
  BY Zenon DEF Inv, TypeOK, PermitShape, WorkspaceShape, Admitted, Release, permitVars
<1>3. Accounts' /\ CloseShape'
  BY QuietAccounts, QuietClose, Zenon
     DEF Release, stateVars, permitVars, Inv, TypeOK, PermitShape, Holding, Awaited, Admitted
<1> QED BY <1>1, <1>2, <1>3, StepOfSend, Zenon DEF Inv, TypeOK, FrameOf, Release, permitVars

\* Send returns.
LEMMA ReturnInv ==
  ASSUME NEW p \in Ops, Return(p)
  PROVE  Preserved
<1> SUFFICES ASSUME Inv PROVE Preserved
  BY DEF Preserved
<1>1. TypeOK'
  BY SMTT(30)
     DEF Inv, TypeOK, PermitShape, Return, SendMoves, SendStates, CallStates, ReleaseStates,
         stateVars, closeVars, permitVars
<1>2. Holding' = Holding /\ Awaited' = Awaited
  BY DEF Inv, TypeOK, PermitShape, Return, SendMoves, Holding, Awaited, Admitted, permitVars
<1>3. FrameOf(p)
  BY DEF Inv, TypeOK, FrameOf, Return, SendMoves, permitVars
<1> QED BY <1>1, <1>3, StepOfSend, <1>2, QuietAccounts, QuietClose, Zenon
           DEF Inv, TypeOK, PermitShape, WorkspaceShape, Admitted, Return, SendMoves,
               permitVars, stateVars

\* The deadline context expires.
LEMMA ExpireInv ==
  ASSUME NEW p \in Ops, Expire(p)
  PROVE  Preserved
<1> SUFFICES ASSUME Inv PROVE Preserved
  BY DEF Preserved
<1>1. TypeOK'
  BY SMTT(30) DEF Inv, TypeOK, PermitShape, Expire, SendStates, CallStates, ReleaseStates,
         stateVars, closeVars, permitVars
<1>2. Accounts' /\ CloseShape'
  BY QuietAccounts, QuietClose, Zenon
     DEF Expire, stateVars, permitVars, Inv, TypeOK, PermitShape, Holding, Awaited, Admitted
<1> QED BY <1>1, <1>2, StepOfSend, Zenon
           DEF Inv, TypeOK, PermitShape, WorkspaceShape, Admitted, Expire, permitVars, FrameOf
\* All of these: what Send and its calls do, except for admit and shrinkRequest.
LEMMA QuietSendInv ==
  ASSUME NEW p \in Ops, SendStep(p) \/ Expire(p) \/ CallStep(p),
         ~Admit(p), ~(\E size \in 1..RequestWorkspace : ShrinkRequest(p, size))
  PROVE  Preserved
<1> SUFFICES ASSUME Inv PROVE Preserved
  BY DEF Preserved
<1>0. concurrencyRejections \in 0..MaxCounter /\ byteRejections \in 0..MaxCounter
  BY DEF Inv, TypeOK
<1>1. CASE RejectClosed(p) \/ RejectDeadlineOrClock(p)
  BY <1>0, <1>1, RejectInv DEF RejectClosed, RejectDeadlineOrClock
<1>2. CASE RejectConcurrency(p)
  BY <1>0, <1>2, RejectInv, SaturatingAddRange DEF RejectConcurrency
<1>3. CASE RejectBytes(p)
  BY <1>0, <1>3, RejectInv, SaturatingAddRange DEF RejectBytes
<1>4. CASE BeginHook(p) \/ BeginAttempt(p)
  BY <1>4, BeginCallInv DEF BeginHook, BeginAttempt
<1>5. CASE HookResult(p) \/ AttemptResult(p) \/ AbandonCall(p)
  BY <1>5, HookResultInv, AttemptResultInv, AbandonCallInv
<1>6. CASE Release(p) \/ Return(p)
  BY <1>6, ReleaseInv, ReturnInv
<1>7. CASE Expire(p)
  BY <1>7, ExpireInv
<1>8. CASE CallStep(p)
  BY <1>8, HookEndsInv, AttemptEndsInv, AbandonedAttemptEndsInv DEF CallStep
<1> QED BY <1>1, <1>2, <1>3, <1>4, <1>5, <1>6, <1>7, <1>8, SMTT(30) DEF SendStep

\* The steps of Close.
LEMMA CloseInv ==
  ASSUME NEW c \in Closers, CloseStep(c)
  PROVE  Preserved
<1> SUFFICES ASSUME Inv PROVE Inv'
  BY DEF Preserved
<1>1. UNCHANGED <<stateVars, wg, permitVars, sendVars, releasePC>>
  BY DEF CloseStep, BeginClose, LoseClose, WaitForOperations, FinishClose,
         WaitUntilClosed, CloseMoves
<1>2. TypeOK'
  BY <1>1, Zenon DEF Inv, TypeOK, CloseStep, BeginClose, LoseClose, WaitForOperations,
     FinishClose, WaitUntilClosed, CloseMoves, CloseStates, stateVars, permitVars, sendVars
<1>3. Accounts'
  BY <1>1, QuietAccounts DEF stateVars, permitVars, Holding, Awaited, Admitted, sendVars
<1>4. CloseShape'
  BY <1>1 DEF Inv, TypeOK, CloseShape, CloseStep, BeginClose, LoseClose,
     WaitForOperations, FinishClose, WaitUntilClosed, CloseMoves
<1> QED BY <1>2, <1>3, <1>4, <1>1
           DEF Inv, Accounts, PermitShape, WorkspaceShape, Admitted, permitVars, sendVars

\* A stuttering step.
LEMMA StutterInv ==
  ASSUME UNCHANGED vars
  PROVE  Preserved
<1> SUFFICES ASSUME Inv PROVE Inv'
  BY Zenon DEF Preserved
<1> USE DEF vars, stateVars, closeVars, permitVars, sendVars
<1>1. Accounts' /\ CloseShape'
  BY QuietAccounts, QuietClose DEF Holding, Awaited, Admitted
<1> QED BY <1>1 DEF Inv, Accounts, TypeOK, PermitShape, WorkspaceShape, Admitted
-----------------------------------------------------------------------------
(* Step simulation of Gate by Admission: in a state that satisfies Inv,    *)
(* every step of Admission is a step of Gate or leaves the gate alone.     *)

\* A step that the gate does not see.
Unseen == Holding' = Holding /\ Gone' = Gone /\ Phase' = Phase

\* Rejections, calls, shrinks, the request of a release, Done and the return
\* of a Send are invisible.
LEMMA UnseenSend ==
  ASSUME Inv, NEW p \in Ops,
         \/ SendStep(p) /\ ~Admit(p)
         \/ Expire(p) \/ CallStep(p) \/ SignalRelease(p)
  PROVE  Unseen
<1> USE DEF Holding, Gone, Admitted, stateVars, closeVars, permitVars, sendVars
<1>1. PermitShape(p) /\ TypeOK
  BY DEF Inv
<1>2. Phase' = Phase
  <2>1. CASE RejectClosed(p) \/ RejectConcurrency(p) \/ RejectBytes(p) \/ RejectDeadlineOrClock(p)
    BY <2>1, SMTT(30)
       DEF Phase, RejectClosed, RejectConcurrency, RejectBytes, RejectDeadlineOrClock,
       Reject
  <2>2. CASE BeginHook(p) \/ BeginAttempt(p) \/ HookResult(p) \/ AttemptResult(p)
             \/ AbandonCall(p)
    BY <2>2 DEF Phase, BeginHook, BeginAttempt, BeginCall, HookResult, AttemptResult,
       AbandonCall
  <2>3. CASE \E size \in 1..RequestWorkspace : ShrinkRequest(p, size)
    BY <2>3, SMTT(30) DEF Phase, ShrinkRequest
  <2>4. CASE Release(p) \/ Return(p) \/ Expire(p) \/ SignalRelease(p)
    BY <2>4 DEF Phase, Release, Return, Expire, SignalRelease
  <2>5. CASE HookEnds(p) \/ AttemptEnds(p) \/ AbandonedAttemptEnds(p)
    BY <2>5, SMTT(30) DEF Phase, HookEnds, AttemptEnds, AbandonedAttemptEnds
  <2> QED BY <2>1, <2>2, <2>3, <2>4, <2>5 DEF SendStep, CallStep
<1>3. CASE RejectClosed(p) \/ RejectConcurrency(p) \/ RejectBytes(p) \/ RejectDeadlineOrClock(p)
  BY <1>1, <1>2, <1>3, SMTT(30) DEF TypeOK, Unseen, RejectClosed, RejectConcurrency, RejectBytes,
     RejectDeadlineOrClock, Reject, SendMoves
<1>4. CASE BeginHook(p) \/ BeginAttempt(p)
  BY <1>1, <1>2, <1>4, SMTT(30) DEF TypeOK, Unseen, BeginHook, BeginAttempt, BeginCall, SendMoves
<1>5. CASE HookResult(p) \/ AbandonCall(p) \/ Return(p)
  BY <1>1, <1>2, <1>5, SMTT(30) DEF TypeOK, Unseen, HookResult, AbandonCall, Return, SendMoves
<1>6. CASE AttemptResult(p)
  BY <1>1, <1>2, <1>6, Zenon DEF TypeOK, PermitShape, Unseen, AttemptResult, EndCall, SendMoves
<1>7. CASE \E size \in 1..RequestWorkspace : ShrinkRequest(p, size)
  BY <1>2, <1>7, Zenon DEF Unseen, ShrinkRequest
<1>8. CASE Release(p)
  BY <1>1, <1>2, <1>8, ZenonT(30) DEF TypeOK, PermitShape, Unseen, Release
<1>9. CASE Expire(p) \/ AttemptEnds(p)
  <2>1. sendPC' = sendPC /\ releasePC' = releasePC
    BY <1>9, Zenon DEF Expire, AttemptEnds
  <2> QED BY <1>2, <2>1, Zenon DEF Unseen
<1>10. CASE HookEnds(p) \/ AbandonedAttemptEnds(p)
  <2>1. EndCall(p) /\ sendPC' = sendPC
    BY <1>10, Zenon DEF HookEnds, AbandonedAttemptEnds
  <2>2. ~released[p] => releasePC[p] = "none"
    BY <1>1, Zenon DEF PermitShape
  <2>3. \/ releasePC' = releasePC
        \/ releasePC[p] = "none" /\ releasePC' = [releasePC EXCEPT ![p] = "subtract"]
    <3>1. releasePC \in [Ops -> ReleaseStates]
      BY <1>1, Zenon DEF TypeOK
    <3>2. CASE activeCalls[p] = 1 /\ releaseRequested[p] /\ ~released[p]
      BY <2>1, <2>2, <3>2, Zenon DEF EndCall
    <3>3. CASE ~(activeCalls[p] = 1 /\ releaseRequested[p] /\ ~released[p])
      BY <2>1, <3>1, <3>3, SMT DEF EndCall
    <3> QED BY <3>2, <3>3, Zenon
  <2>4. releasePC \in [Ops -> ReleaseStates]
    BY <1>1, Zenon DEF TypeOK
  <2>5. Holding' = Holding /\ Gone' = Gone
    BY <2>1, <2>3, <2>4, SMT
  <2> QED BY <1>2, <2>5, Zenon DEF Unseen
<1>11. CASE SignalRelease(p)
  BY <1>1, <1>2, <1>11 DEF TypeOK, Unseen, SignalRelease
<1> QED BY <1>3, <1>4, <1>5, <1>6, <1>7, <1>8, <1>9, <1>10, <1>11 DEF SendStep, CallStep

\* Every step of Admission is a step of the gate or invisible: when wg is 0, Close waits
\* for no operation.
LEMMA GateStep ==
  ASSUME Inv, [Next]_vars, wg = 0 => Awaited = {}
  PROVE  [AsGate!Next]_(AsGate!gateVars)
<1>1. ASSUME Unseen
      PROVE  UNCHANGED AsGate!gateVars
  BY <1>1, ZenonT(30) DEF Unseen, AsGate!gateVars
<1>2. ASSUME NEW p \in Ops, Admit(p) PROVE AsGate!Enter(p)
  <2>1. sendPC[p] = "start" /\ releasePC[p] = "none"
    BY <1>2, SMTT(30) DEF Inv, PermitShape, Admit, SendMoves
  <2>2. Holding' = Holding \cup {p} /\ Gone' = Gone /\ Phase' = Phase /\ Phase = "open"
    BY <1>2, <2>1 DEF Inv, TypeOK, Admit, SendMoves, Open, Holding, Gone, Admitted, Phase,
       closeVars
  <2>3. AsGate!Cardinality(Holding) = Cardinality(Holding)
    BY DEF AsGate!Cardinality, Cardinality
  <2> QED BY <2>2, <2>3, <2>1, <1>2, Zenon
             DEF AsGate!Enter, Holding, Gone, Admitted, Inv, CountersMatchPermits, Admit,
                 HasSlot
<1>3. ASSUME NEW p \in Ops, SubtractRelease(p) PROVE AsGate!Leave(p)
  <2>1. p \in Holding
    BY <1>3, SMTT(30) DEF Inv, PermitShape, SubtractRelease, Holding, Admitted
  <2>2. Holding' = Holding \ {p} /\ Gone' = Gone \cup {p} /\ Phase' = Phase
    BY <1>3, <2>1 DEF Inv, TypeOK, SubtractRelease, Holding, Gone, Admitted, Phase,
       closeVars, sendVars
  <2> QED BY <2>1, <2>2, ZenonT(30) DEF AsGate!Leave
<1>4. ASSUME NEW c \in Closers, CloseStep(c) PROVE Unseen \/ AsGate!Shut \/ AsGate!Close
  <2>1. Holding' = Holding /\ Gone' = Gone
    BY <1>4 DEF CloseStep, BeginClose, LoseClose, WaitForOperations, FinishClose,
       WaitUntilClosed, CloseMoves, Holding, Gone, Admitted, sendVars
  <2>2. CASE BeginClose(c)
    BY <2>1, <2>2 DEF BeginClose, Open, Phase, AsGate!Shut
  <2>3. CASE LoseClose(c) \/ WaitForOperations(c) \/ WaitUntilClosed(c)
    BY <2>1, <2>3 DEF LoseClose, WaitForOperations, WaitUntilClosed, Phase, Unseen
  <2>4. CASE FinishClose(c)
    BY <2>1, <2>4, Zenon
       DEF FinishClose, Phase, Unseen, AsGate!Close, Inv, CloseShape, CloseMoves, Holding,
           Awaited
  <2> QED BY <1>4, <2>2, <2>3, <2>4, SMTT(30) DEF CloseStep
<1>5. ASSUME Finished \/ UNCHANGED vars
      PROVE  Unseen
  BY <1>5, SMTT(30)
     DEF Unseen, Phase, vars, closeVars, sendVars, Finished, Holding, Gone, Admitted
<1>6. ASSUME NEW p \in Ops, SendStep(p) \/ Expire(p) \/ CallStep(p) \/ FinishStep(p)
      PROVE  Unseen \/ Admit(p) \/ SubtractRelease(p)
  BY <1>6, UnseenSend DEF FinishStep
<1>7. Unseen \/ AsGate!Next
  <2>1. ASSUME NEW p \in Ops, SendStep(p) \/ Expire(p) \/ CallStep(p) \/ FinishStep(p)
        PROVE  Unseen \/ AsGate!Next
    BY <2>1, <1>2, <1>3, <1>6, Zenon DEF AsGate!Next
  <2>2. ASSUME NEW c \in Closers, CloseStep(c)
        PROVE  Unseen \/ AsGate!Next
    BY <2>2, <1>4, Zenon DEF AsGate!Next
  <2>3. CASE Next
    BY <2>1, <2>2, <2>3, <1>5, Zenon DEF Next
  <2> QED BY <2>3, <1>5, Zenon
<1> QED BY <1>1, <1>7, Zenon
-----------------------------------------------------------------------------
(* Counting reserved bytes.  A sum over permits is the cardinality of a    *)
(* set of pairs, to which the laws of finite sets apply.                   *)

Units(f) == {u \in Ops \X (1..Reservation) : u[2] <= f[u[1]]}

\* The bytes the diagnostics count for each permit.
Counted == [p \in Ops |-> IF p \in Holding THEN heldBytes[p] ELSE 0]

\* Any set of units is finite: there are finitely many sends.
LEMMA UnitsFinite ==
  ASSUME Laws, NEW f
  PROVE  IsFiniteSet(Units(f)) /\ Cardinality(Units(f)) \in Nat
  BY ReservationNat, FiniteAssumption, Zenon DEF Laws, SubsetLaw, ColumnLaw, Units

\* Changing what one permit holds changes the total by exactly the difference.
LEMMA UnitsUpdate ==
  ASSUME Laws,
         NEW f \in [Ops -> 0..Reservation], NEW g \in [Ops -> 0..Reservation],
         NEW p \in Ops, \A q \in Ops \ {p} : g[q] = f[q]
  PROVE  Cardinality(Units(g)) = Cardinality(Units(f)) - f[p] + g[p]
<1> DEFINE Rest == {u \in Units(f) : u[1] # p}
<1> DEFINE Column(k) == {p} \X (1..k)
<1>1. ASSUME NEW h \in [Ops -> 0..Reservation], \A q \in Ops \ {p} : h[q] = f[q]
      PROVE  Cardinality(Units(h)) = Cardinality(Rest) + h[p]
  <2>1. h[p] \in Nat /\ h[p] <= Reservation
    BY ReservationNat
  <2>2. Units(h) = Rest \cup Column(h[p])
    <3>1. ASSUME NEW u \in Units(h) PROVE u \in Rest \cup Column(h[p])
      BY <1>1, <3>1, <2>1, ReservationNat DEF Units
    <3>2. ASSUME NEW u \in Rest PROVE u \in Units(h)
      BY <1>1, <3>2, ReservationNat DEF Units
    <3>3. ASSUME NEW u \in Column(h[p]) PROVE u \in Units(h)
      BY <3>3, <2>1, ReservationNat DEF Units
    <3> QED BY <3>1, <3>2, <3>3
  <2>3. IsFiniteSet(Column(h[p])) /\ Cardinality(Column(h[p])) = h[p]
    BY <2>1, Zenon DEF Laws, ColumnLaw
  <2> QED BY <2>2, <2>3, UnitsFinite, SMTT(30) DEF Laws, UnionLaw, SubsetLaw
<1>2. Cardinality(Units(g)) = Cardinality(Rest) + g[p]
  BY <1>1
<1> QED BY <1>2, ReservationNat, UnitsFinite, <1>1 DEF Laws, SubsetLaw

\* The units of the specification are those of Counted.
LEMMA HeldUnitsCounted ==
  ASSUME TypeOK
  PROVE  HeldUnits = Units(Counted) /\ Counted \in [Ops -> 0..Reservation]
<1>1. ASSUME NEW u \in Ops \X (1..Reservation)
      PROVE  (u[1] \in Holding /\ u[2] <= heldBytes[u[1]]) <=> u[2] <= Counted[u[1]]
  BY <1>1, ReservationNat DEF TypeOK, Counted
<1> QED BY <1>1, ReservationNat DEF HeldUnits, Units, TypeOK, Counted

\* The sets of permits are finite.
LEMMA PermitSetsFinite ==
  ASSUME Laws
  PROVE  /\ IsFiniteSet(Holding) /\ Cardinality(Holding) \in Nat
         /\ IsFiniteSet(Awaited) /\ Cardinality(Awaited) \in Nat
  BY FiniteAssumption, Zenon DEF Laws, SubsetLaw, Holding, Awaited, Admitted

-----------------------------------------------------------------------------
(* The counters.                                                           *)

\* A step that changes what is counted for one permit changes the number of
\* units by the difference.
LEMMA CountedStep ==
  ASSUME Laws, TypeOK, TypeOK', NEW p \in Ops,
         \A q \in Ops \ {p} : Counted'[q] = Counted[q]
  PROVE  /\ Counted[p] \in Nat /\ Counted'[p] \in Nat
         /\ Cardinality(HeldUnits) \in Nat /\ Cardinality(HeldUnits') \in Nat
         /\ Cardinality(HeldUnits') = Cardinality(HeldUnits) - Counted[p] + Counted'[p]
<1>1. Counted' \in [Ops -> 0..Reservation]
  BY ReservationNat DEF TypeOK, Counted
<1>2. HeldUnits' = Units(Counted')
  <2>1. ASSUME NEW u \in Ops \X (1..Reservation)
        PROVE  (u[1] \in Holding' /\ u[2] <= heldBytes'[u[1]]) <=> u[2] <= Counted'[u[1]]
    BY <2>1, ReservationNat, SMTT(30) DEF TypeOK, Counted
  <2> QED BY <2>1, SMTT(30) DEF HeldUnits, Units
<1> QED BY <1>1, <1>2, UnitsFinite, ReservationNat, HeldUnitsCounted, UnitsUpdate, SMTT(30)

\* admit adds one permit with a complete reservation.
LEMMA AdmitAccounts ==
  ASSUME Laws, Inv, NEW p \in Ops, Admit(p), TypeOK'
  PROVE  Accounts'
<1>1. Holding' = Holding \cup {p} /\ Awaited' = Awaited \cup {p}
  <2>1. /\ releasePC[p] = "none" /\ releasePC' = releasePC
        /\ \A q \in Ops \ {p} : sendPC'[q] = sendPC[q]
        /\ p \in Admitted'
    <3>1. sendPC \in [Ops -> SendStates] /\ sendPC[p] = "start" /\ releasePC' = releasePC
          /\ sendPC' = [sendPC EXCEPT ![p] = "running"]
      BY Zenon DEF Inv, TypeOK, Admit, SendMoves
    <3>2. releasePC[p] = "none"
      BY <3>1 DEF Inv, PermitShape
    <3> QED BY <3>1, <3>2 DEF Admitted
  <2> QED BY <2>1 DEF Holding, Awaited, Admitted
<1>2. p \notin Holding /\ p \notin Awaited
  BY DEF Holding, Awaited, Inv, PermitShape, Admit, SendMoves, Admitted
<1>3. \A q \in Ops \ {p} : Counted'[q] = Counted[q]
  BY <1>1, Zenon DEF Inv, TypeOK, Admit, Counted
<1>4. Counted[p] = 0 /\ Counted'[p] = Reservation
  BY <1>1, <1>2, Zenon DEF Inv, TypeOK, Admit, Counted
<1>5. Cardinality(HeldUnits') = Cardinality(HeldUnits) + Reservation
  BY <1>3, <1>4, CountedStep, ReservationNat, SMTT(30) DEF Inv
<1>6. inFlight' <= MaxInFlight /\ buffered' <= MaxBuffered
  BY LimitsAssumption, ReservationNat, SMTT(30) DEF Inv, TypeOK, Admit, HasSlot, HasWorkspace
<1> QED BY <1>5, <1>6, <1>1, <1>2, PermitSetsFinite, Zenon
           DEF Inv, Admit, Accounts, CountersMatchPermits, WithinLimits, Laws, AddLaw

\* shrinkRequest takes the same bytes from the permit and from the total.
LEMMA ShrinkAccounts ==
  ASSUME Laws, Inv, NEW p \in Ops, NEW size \in 1..RequestWorkspace,
         ShrinkRequest(p, size), TypeOK
  PROVE  TypeOK' /\ Accounts'
<1>1. ReleasedBytes(size) \in 0..RequestWorkspace
  BY LimitsAssumption, SMTT(30) DEF ReleasedBytes
<1>2. p \in Holding /\ heldBytes[p] = Reservation
  BY DEF Inv, PermitShape, WorkspaceShape, ShrinkRequest, Holding, Admitted
<1>3. Holding' = Holding /\ Awaited' = Awaited
  BY DEF ShrinkRequest, Holding, Awaited, Admitted
<1>4. buffered >= Reservation
  <2>1. heldBytes[p] <= Cardinality(HeldUnits)
    <3>1. Cardinality({p} \X (1..Reservation)) = Reservation
      BY ReservationNat, Zenon DEF Laws, ColumnLaw
    <3> QED BY <3>1, <1>2, ReservationNat, HeldUnitsCounted, UnitsFinite, SMTT(30)
               DEF Laws, SubsetLaw, HeldUnits
  <2> QED BY <2>1, <1>2 DEF Inv, CountersMatchPermits
<1>5. buffered' \in Nat /\ buffered' = buffered - ReleasedBytes(size)
  BY <1>1, <1>4, ReservationNat, LimitsAssumption, SMTT(30) DEF TypeOK, ShrinkRequest, Reservation
<1>6. TypeOK'
  BY <1>5, <1>2, <1>1, ReservationNat, LimitsAssumption, SMTT(30)
     DEF TypeOK, ShrinkRequest, closeVars, Reservation
<1>7. \A q \in Ops \ {p} : Counted'[q] = Counted[q]
  BY <1>3 DEF TypeOK, ShrinkRequest, Counted
<1>8. Counted[p] = Reservation /\ Counted'[p] = Reservation - ReleasedBytes(size)
  BY <1>2, <1>3, SMTT(30) DEF TypeOK, ShrinkRequest, Counted
<1>9. Cardinality(HeldUnits') = Cardinality(HeldUnits) - ReleasedBytes(size)
  BY <1>1, <1>6, <1>7, <1>8, CountedStep, ReservationNat, LimitsAssumption, SMTT(30)
<1>10. buffered' <= MaxBuffered /\ inFlight' = inFlight /\ wg' = wg
  BY <1>1, <1>5, LimitsAssumption, SMTT(30) DEF Inv, TypeOK, WithinLimits, ShrinkRequest
<1> QED BY <1>3, <1>5, <1>6, <1>9, <1>10, SMTT(30)
        DEF Inv, Accounts, CountersMatchPermits, WithinLimits
\* The locked half of finishRelease takes out one permit and all it holds.
LEMMA SubtractAccounts ==
  ASSUME Laws, Inv, TypeOK, NEW p \in Ops, SubtractRelease(p)
  PROVE  TypeOK' /\ Accounts'
<1>1. p \in Holding
  BY DEF Inv, PermitShape, SubtractRelease, Holding, Admitted
<1>2. Holding' = Holding \ {p} /\ Awaited' = Awaited
  BY <1>1 DEF TypeOK, SubtractRelease, sendVars, Holding, Awaited, Admitted
<1>3. Cardinality(Holding) >= 1
  BY <1>1, PermitSetsFinite, Zenon DEF Laws, RemoveLaw
<1>4. heldBytes[p] \in 0..Reservation
  BY DEF TypeOK
<1>5. heldBytes[p] <= Cardinality(HeldUnits)
  <2>1. heldBytes[p] \in Nat
    BY <1>4, ReservationNat
  <2>2. Cardinality({p} \X (1..heldBytes[p])) = heldBytes[p]
    BY <2>1, Zenon DEF Laws, ColumnLaw
  <2> QED BY <2>2, <1>1, <1>4, ReservationNat, HeldUnitsCounted, UnitsFinite
             DEF Laws, SubsetLaw, HeldUnits
<1>6. inFlight' \in Nat /\ buffered' \in Nat
  <2>1. inFlight = Cardinality(Holding) /\ buffered = Cardinality(HeldUnits)
    BY Zenon DEF Inv, CountersMatchPermits
  <2>2. inFlight \in Nat /\ buffered \in Nat
    BY Zenon DEF TypeOK
  <2>3. inFlight' = inFlight - 1 /\ buffered' = buffered - heldBytes[p]
    BY Zenon DEF SubtractRelease
  <2> QED BY <2>1, <2>2, <2>3, <1>3, <1>4, <1>5, ReservationNat
<1>7. TypeOK'
  BY <1>6 DEF TypeOK, SubtractRelease, closeVars, permitVars, sendVars, ReleaseStates
<1>8. Cardinality(HeldUnits') = Cardinality(HeldUnits) - heldBytes[p]
  BY <1>4, <1>7, CountedStep, ReservationNat, <1>2, <1>1, SMTT(30)
     DEF SubtractRelease, permitVars, Counted
<1>9. WithinLimits'
  BY <1>4, LimitsAssumption, ReservationNat, SMTT(30)
     DEF Inv, TypeOK, WithinLimits, SubtractRelease
<1> QED BY <1>7, <1>9, <1>8, <1>1, <1>2, PermitSetsFinite, ZenonT(30)
           DEF Accounts, Inv, CountersMatchPermits, SubtractRelease, Laws, RemoveLaw

\* wg.Done() takes out one awaited permit, so the counter was positive.
LEMMA SignalAccounts ==
  ASSUME Laws, Inv, TypeOK, NEW p \in Ops, SignalRelease(p)
  PROVE  TypeOK' /\ Accounts' /\ wg > 0
<1>1. p \in Awaited
  BY DEF Inv, PermitShape, SignalRelease, Awaited, Admitted
<1>2. Holding' = Holding /\ Awaited' = Awaited \ {p}
  BY <1>1 DEF TypeOK, SignalRelease, sendVars, Holding, Awaited, Admitted
<1>3. Cardinality(Awaited) >= 1
  BY <1>1, PermitSetsFinite, Zenon DEF Laws, RemoveLaw
<1>4. wg' \in Nat /\ wg > 0
  BY <1>3, PermitSetsFinite DEF Inv, SignalRelease
<1>5. TypeOK'
  BY <1>4 DEF TypeOK, SignalRelease, stateVars, closeVars, permitVars, sendVars, ReleaseStates
<1>6. HeldUnits' = HeldUnits
  BY <1>2 DEF SignalRelease, permitVars, HeldUnits
<1> QED BY <1>2, <1>4, <1>5, <1>6, <1>1, PermitSetsFinite, Zenon
           DEF Inv, Accounts, CountersMatchPermits, WithinLimits, SignalRelease, stateVars,
               Laws, RemoveLaw
-----------------------------------------------------------------------------
(* Preservation of Inv by the actions that move the counters.              *)

\* admit succeeded: nobody was closing.
LEMMA AdmitInv ==
  ASSUME Laws, NEW p \in Ops, Admit(p)
  PROVE  Preserved
<1> SUFFICES ASSUME Inv PROVE Preserved
  BY Zenon DEF Preserved
<1>1. TypeOK'
  BY ReservationNat, SMTT(30)
     DEF Inv, TypeOK, Admit, SendMoves, SendStates, closeVars
<1>2. PermitShape(p)' /\ WorkspaceShape(p)'
  BY SMTT(30) DEF Inv, TypeOK, PermitShape, WorkspaceShape, Admit, SendMoves
<1> QED BY <1>1, <1>2, AdmitAccounts, StepOfSend, Zenon
           DEF Inv, TypeOK, FrameOf, Admit, SendMoves, CloseShape, Open, closeVars
\* shrinkRequest.
LEMMA ShrinkInv ==
  ASSUME Laws, NEW p \in Ops, NEW size \in 1..RequestWorkspace, ShrinkRequest(p, size)
  PROVE  Preserved
<1> SUFFICES ASSUME Inv PROVE Preserved
  BY ZenonT(30) DEF Preserved
<1>1. PermitShape(p)' /\ WorkspaceShape(p)'
  BY SMTT(30)
     DEF Inv, TypeOK, PermitShape, WorkspaceShape, Admitted, ShrinkRequest, permitVars, sendVars
<1> QED BY <1>1, StepOfSend, ShrinkAccounts, QuietClose, Zenon
           DEF Inv, TypeOK, FrameOf, ShrinkRequest, permitVars, sendVars

\* finishRelease reduces the counters.
LEMMA SubtractInv ==
  ASSUME Laws, NEW p \in Ops, SubtractRelease(p)
  PROVE  Preserved
<1> SUFFICES ASSUME Inv PROVE Preserved
  BY DEF Preserved
<1>1. PermitShape(p)' /\ WorkspaceShape(p)'
  BY SMTT(30)
     DEF Inv, TypeOK, PermitShape, WorkspaceShape, Admitted, SubtractRelease, permitVars, sendVars
<1> QED BY <1>1, StepOfSend, SubtractAccounts, QuietClose, Zenon
           DEF Inv, TypeOK, FrameOf, SubtractRelease, permitVars, sendVars

\* finishRelease calls Done: no Close had passed its Wait.
LEMMA SignalInv ==
  ASSUME Laws, NEW p \in Ops, SignalRelease(p)
  PROVE  Preserved
<1> SUFFICES ASSUME Inv PROVE Preserved
  BY DEF Preserved
<1>1. PermitShape(p)' /\ WorkspaceShape(p)'
  BY SMTT(30)
     DEF Inv, TypeOK, PermitShape, WorkspaceShape, Admitted, SignalRelease, permitVars, sendVars
<1>2. CloseShape'
  <2>1. ~closed /\ \A c \in Closers : closePC[c] # "drained"
    BY SignalAccounts DEF Inv, CloseShape
  <2> QED BY <2>1 DEF Inv, CloseShape, SignalRelease, closeVars
<1> QED BY <1>1, <1>2, StepOfSend, SignalAccounts, ZenonT(30)
           DEF Inv, TypeOK, FrameOf, SignalRelease, permitVars, sendVars

\* The initial state: nothing is admitted, nothing is counted.
LEMMA InitInv ==
  ASSUME Laws, Init
  PROVE  Inv
<1>1. TypeOK
  <2>1. 0 \in 0..Reservation /\ 0 \in 0..MaxCounter /\ 0 \in 0..MaxCalls
    BY ReservationNat, LimitsAssumption, CounterAssumption, SMTT(30)
  <2> QED BY <2>1, Zenon
     DEF Init, TypeOK, SendStates, CallStates, ReleaseStates, CloseStates
<1>2. Admitted = {} /\ Holding = {} /\ Awaited = {} /\ HeldUnits = {}
  BY DEF Init, Admitted, Holding, Awaited, HeldUnits
<1>3. \A p \in Ops : PermitShape(p) /\ WorkspaceShape(p)
  BY <1>2, SMTT(30) DEF Init, PermitShape, WorkspaceShape
<1> QED BY <1>1, <1>3, <1>2, LimitsAssumption, SMTT(30)
           DEF Inv, Accounts, Init, CountersMatchPermits, WithinLimits, Laws, EmptyLaw,
               CloseShape

\* Every step preserves the invariant.
LEMMA NextInv ==
  ASSUME Laws, [Next]_vars
  PROVE  Preserved
<1>1. ASSUME NEW p \in Ops, SendStep(p) \/ Expire(p) \/ CallStep(p) PROVE Preserved
  <2>1. CASE Admit(p)
    BY <2>1, AdmitInv
  <2>2. CASE \E size \in 1..RequestWorkspace : ShrinkRequest(p, size)
    BY <2>2, ShrinkInv
  <2> QED BY <1>1, <2>1, <2>2, QuietSendInv, SMTT(30)
<1>2. ASSUME NEW p \in Ops, FinishStep(p) PROVE Preserved
  BY <1>2, SubtractInv, SignalInv, SMTT(30) DEF FinishStep
<1>3. ASSUME NEW c \in Closers, CloseStep(c) PROVE Preserved
  BY <1>3, CloseInv
<1>4. CASE Finished \/ UNCHANGED vars
  BY <1>4, StutterInv DEF Finished
<1> QED BY <1>1, <1>2, <1>3, <1>4, SMTT(30) DEF Next
-----------------------------------------------------------------------------
(* What the invariant says, and the one action property.                   *)

\* The WaitGroup counts the operations that Close waits for.
LEMMA NoneAwaited ==
  ASSUME Laws, Inv, wg = 0
  PROVE  Awaited = {}
  BY PermitSetsFinite, Zenon DEF Inv, Laws, EmptyLaw

\* Closed means drained: nothing is awaited, so nothing is held.
LEMMA InvDrains ==
  ASSUME Laws, Inv
  PROVE  ClosedIsDrained
<1> SUFFICES ASSUME closed PROVE inFlight = 0 /\ buffered = 0 /\ wg = 0
  BY DEF ClosedIsDrained
<1>1. wg = 0
  BY DEF Inv, CloseShape
<1>2. Holding = {} /\ HeldUnits = {}
  BY <1>1, NoneAwaited DEF Holding, Awaited, HeldUnits
<1> QED BY <1>1, <1>2 DEF Inv, CountersMatchPermits, Laws, EmptyLaw

\* The permits of running calls and of returned sends.
LEMMA InvPermits ==
  ASSUME Inv
  PROVE  CallKeepsReservation /\ ReturnedIsReleased
  BY SMTT(30) DEF Inv, TypeOK, PermitShape, CallKeepsReservation, ReturnedIsReleased, Holding,
     Admitted

\* Only admit adds to the WaitGroup, and it needs an open runtime.
LEMMA NoAddStep ==
  ASSUME Inv, [Next]_vars, NEW c \in Closers, closePC[c] \in {"draining", "drained"}
  PROVE  wg' <= wg
<1>1. ~Open /\ wg \in Nat
  BY SMTT(30) DEF Inv, TypeOK, CloseShape, Open
<1>2. wg' = wg \/ wg' = wg - 1
  BY <1>1, ZenonT(30)
     DEF Next, SendStep, Expire, CallStep, FinishStep, CloseStep, Finished, vars, RejectClosed,
         RejectConcurrency, RejectBytes, RejectDeadlineOrClock, Reject, Admit, BeginHook,
         BeginAttempt, BeginCall, HookResult, AttemptResult, AbandonCall, ShrinkRequest,
         Release, Return, HookEnds, AttemptEnds, AbandonedAttemptEnds, SubtractRelease,
         SignalRelease, BeginClose, LoseClose, WaitForOperations, FinishClose, WaitUntilClosed,
         CloseMoves
<1> QED BY <1>1, <1>2

\* The initial states of the gate.
LEMMA GateInit == Init => AsGate!Init
  BY DEF Init, AsGate!Init, Holding, Gone, Admitted, Phase

\* The three facts of an invariance proof, under the laws of finite sets.
LEMMA InductiveInv ==
  ASSUME Laws
  PROVE  /\ Init => Inv
         /\ Inv /\ [Next]_vars => Inv'
         /\ Inv => /\ TypeOK /\ CountersMatchPermits /\ WithinLimits /\ ClosedIsDrained
                   /\ CallKeepsReservation /\ ReturnedIsReleased
<1>1. Init => Inv
  BY InitInv
<1>2. Inv /\ [Next]_vars => Inv'
  BY NextInv DEF Preserved
<1>3. Inv => TypeOK /\ CountersMatchPermits /\ WithinLimits
  BY DEF Inv
<1> QED BY <1>1, <1>2, <1>3, InvDrains, InvPermits, Zenon
-----------------------------------------------------------------------------
(* The theorems                                                            *)

INSTANCE FiniteSetTheorems

\* The laws of finite sets hold.
LEMMA FiniteSetsObey == Laws
<1>1. SubsetLaw
  BY FS_Subset, FS_CardinalityType DEF SubsetLaw
<1>2. RemoveLaw
  <2> SUFFICES ASSUME NEW S, NEW x, IsFiniteSet(S), x \in S
               PROVE  /\ IsFiniteSet(S \ {x}) /\ Cardinality(S) \in Nat /\ Cardinality(S) >= 1
                      /\ Cardinality(S \ {x}) = Cardinality(S) - 1
    BY DEF RemoveLaw
  <2> QED BY FS_RemoveElement, FS_CardinalityType, FS_EmptySet
<1>3. UnionLaw
  <2> SUFFICES ASSUME NEW S, NEW T, IsFiniteSet(S), IsFiniteSet(T), S \cap T = {}
               PROVE  /\ IsFiniteSet(S \cup T)
                      /\ Cardinality(S \cup T) = Cardinality(S) + Cardinality(T)
    BY DEF UnionLaw
  <2>1. Cardinality(S) \in Nat /\ Cardinality(T) \in Nat /\ Cardinality(S \cap T) = 0
    BY FS_CardinalityType, FS_EmptySet
  <2>2. /\ IsFiniteSet(S \cup T)
        /\ Cardinality(S \cup T) = Cardinality(S) + Cardinality(T) - Cardinality(S \cap T)
    BY FS_Union, Zenon
  <2> QED BY <2>1, <2>2
<1>4. ColumnLaw
  <2> SUFFICES ASSUME NEW k \in Nat
               PROVE  /\ \A x : IsFiniteSet({x} \X (1..k)) /\ Cardinality({x} \X (1..k)) = k
                      /\ \A S : IsFiniteSet(S) => IsFiniteSet(S \X (1..k))
    BY Zenon DEF ColumnLaw
  <2>1. IsFiniteSet(1..k) /\ Cardinality(1..k) = k
    BY FS_Interval
  <2>2. ASSUME NEW S, IsFiniteSet(S)
        PROVE  /\ IsFiniteSet(S \X (1..k))
               /\ Cardinality(S \X (1..k)) = Cardinality(S) * Cardinality(1..k)
    BY <2>1, <2>2, FS_Product, Zenon
  <2>3. ASSUME NEW x
        PROVE  IsFiniteSet({x} \X (1..k)) /\ Cardinality({x} \X (1..k)) = k
    <3>1. 1 * k = k
      OBVIOUS
    <3> QED BY <2>1, <3>1, <2>2, FS_Singleton, Zenon
  <2> QED BY <2>2, <2>3, Zenon
<1> QED BY <1>1, <1>2, <1>3, <1>4, FS_EmptySet, FS_AddElement, Zenon DEF Laws, EmptyLaw, AddLaw

\* Inv holds in every state of every behaviour.
THEOREM Invariance == Spec => []Inv
  BY FiniteSetsObey, InductiveInv, PTL DEF Spec

\* Every variable of the admission state keeps its type; in particular
\* InFlightOperations, BufferedBytes and the WaitGroup's counter are never
\* negative, and the rejection counters stay below their cap.
THEOREM TypeCorrectness == Spec => []TypeOK
  BY FiniteSetsObey, InductiveInv, Invariance, PTL

\* The diagnostics count exactly the outstanding permits and what they hold:
\* no interleaving of admit, shrinkRequest, release and endCall leaks a
\* reservation or gives one back twice.
THEOREM Accounting == Spec => []CountersMatchPermits
  BY FiniteSetsObey, InductiveInv, Invariance, PTL

\* admit keeps the configured limits.
THEOREM Limits == Spec => []WithinLimits
  BY FiniteSetsObey, InductiveInv, Invariance, PTL

\* A snapshot that shows Closed shows no operation and no reserved byte.
THEOREM CloseDrains == Spec => []ClosedIsDrained
  BY FiniteSetsObey, InductiveInv, Invariance, PTL

\* release and endCall never free a permit under a call that still runs, even
\* one whose Send has returned.
THEOREM CallsKeepReservations == Spec => []CallKeepsReservation
  BY FiniteSetsObey, InductiveInv, Invariance, PTL

\* One of release and endCall finalizes every permit.
THEOREM ReturnReleases == Spec => []ReturnedIsReleased
  BY FiniteSetsObey, InductiveInv, Invariance, PTL

\* The WaitGroup is never added to once a Close waits on it.
THEOREM NoReuseWhileDraining == Spec => NoAddWhileDraining
<1> DEFINE Quiet == (\E c \in Closers : closePC[c] \in {"draining", "drained"}) => wg' <= wg
<1>1. Inv /\ [Next]_vars => [Quiet]_vars
  BY NoAddStep, Zenon
<1> QED BY <1>1, Invariance, PTL DEF Spec, NoAddWhileDraining

\* Admission implements Gate: the runtime implements the gate, for any number
\* of sends and closes.
THEOREM AdmissionImplementsGate == Spec => ImplementsGate
<1>1. Inv /\ [Next]_vars => [AsGate!Next]_(AsGate!gateVars)
  BY GateStep, NoneAwaited, FiniteSetsObey
<1> QED BY <1>1, GateInit, Invariance, PTL DEF Spec, ImplementsGate, AsGate!Spec
=============================================================================
