-------------------------- MODULE OperationProofs --------------------------
(***************************************************************************)
(* What the caller of Send is told about delivery is right for every       *)
(* number of attempts: proofs about Operation.                             *)
(*                                                                         *)
(* Most steps of sendAdmitted only move it on or return an error; two      *)
(* lemmas, Moving and Returning, say once what such a step must satisfy.   *)
(***************************************************************************)
EXTENDS Operation, TLAPS

\* The errors that are neither a success nor a nil pointer.
Errors == [code : ErrorCodes, delivery : Deliveries \ {"ACCEPTED"}]

\* What holds of an error that sendAdmitted may return, given the floor: a delivery that
\* excludes an earlier delivery needs the floor to be down, doubt needs a reason.
Founded(err) ==
  /\ err \in Errors
  /\ err.delivery \in {"NOT_SENT", "REJECTED"} => ~committed
  /\ err.delivery \in {"POSSIBLY_SENT", "CANCELLED_UNKNOWN"} => Reasons # {}

\* The records that stand for no error and for a nil error are no errors, nor is a success.
LEMMA Distinct == None \notin Errors /\ NilError \notin Errors /\ Accepted \notin Errors
BY DEF None, NilError, Accepted, Errors, Err, Deliveries

\* preAttemptTerminal and deadlineTerminal give an error that says NOT_SENT exactly if
\* nothing was sent, and the deadline's if that has passed.
LEMMA TerminalErrors ==
  ASSUME TypeOK, NEW sent \in BOOLEAN,
         NEW t \in (preAttemptTerminal(sent) \cup deadlineTerminal(sent)) \ {None}
  PROVE  /\ t \in Errors
         /\ ~sent => t.delivery = "NOT_SENT"
         /\ sent => t.delivery \in {"POSSIBLY_SENT", "CANCELLED_UNKNOWN"}
         /\ deadline => t.code = "OPERATION_DEADLINE"
BY DEF TypeOK, preAttemptTerminal, deadlineTerminal, ClockTerminal, operationDeadlineError,
       deliveryForCommit, deliveryForCancel, Err, None, Errors, ErrorCodes, FailureCodes, Deliveries
-----------------------------------------------------------------------------
\* The operation begins in a state that satisfies the invariant.
LEMMA Initially == Init => LoopInv
<1> SUFFICES ASSUME Init PROVE LoopInv
  OBVIOUS
<1>1. TypeOK
  <2>1. stage \in 1..Len(Hooks)
    BY DEF Init, Hooks
  <2>2. trace \in Seq(EventKinds \X (0..MaxAttempts))
    BY DEF Init
  <2>3. attempt \in 0..MaxAttempts
    BY OperationAssumption DEF Init
  <2> QED BY <2>1, <2>2, <2>3, Zenon DEF Init, TypeOK, PCs, Deliveries, None, Err
<1>2. OperationShape
  BY OperationAssumption DEF Init, OperationShape, Done, Preparing, InProgress, BackingOff, None,
     IsSuccess, Nothing, Failures
<1>3. DeliveryIsHonest
  BY DEF Init, DeliveryIsHonest, FloorHolds, NotSentIsTrue, DoubtIsFounded, SuccessStands,
     NeverNilError, Done, None, NilError, Err
<1> QED BY <1>1, <1>2, <1>3
           DEF LoopInv, Init, TransportShape, Failures, Nothing, HistoryShape, Current,
               InProgress, Reasons
-----------------------------------------------------------------------------
(* The two kinds of steps that change little                               *)

\* What such a step leaves alone: it may report an event.
MoveFrame ==
  /\ UNCHANGED <<attempt, floorVars, contextVars, transportVars, outcome, writeVars, answerVars>>
  /\ open' \in BOOLEAN /\ trace' \in Seq(EventKinds \X (0..MaxAttempts))

\* An event can be appended to the trace.
LEMMA Appends ==
  ASSUME TypeOK, NEW kind \in EventKinds, NEW n \in 0..MaxAttempts
  PROVE  Append(trace, <<kind, n>>) \in Seq(EventKinds \X (0..MaxAttempts))
BY DEF TypeOK

\* sendAdmitted goes on, outside of an attempt, without a result.
Moves ==
  /\ MoveFrame /\ UNCHANGED result /\ result = None /\ stage' \in 1..Len(Hooks)
  /\ pc \notin InProgress /\ pc' \in PCs \ (InProgress \cup {"finish", "returned"})
  /\ pc' \in Preparing => pc \in Preparing
  /\ pc' \in BackingOff => pc \in BackingOff
  /\ pc' = "loop" => pc \in Preparing \cup BackingOff
  /\ pc' = "abandoned" => deadline

\* A step that moves on keeps the invariant.
LEMMA Moving == LoopInv /\ Moves => LoopInv'
<1> SUFFICES ASSUME LoopInv, Moves PROVE LoopInv'
  OBVIOUS
<1> USE DEF Moves, MoveFrame, floorVars, contextVars, transportVars, writeVars, answerVars
<1>1. TransportShape'
  BY DEF LoopInv, TransportShape, OperationShape, Done, InProgress
<1>2. OperationShape'
  BY OperationAssumption
     DEF LoopInv, OperationShape, Preparing, InProgress, BackingOff, Done, IsSuccess, Reasons
<1>3. HistoryShape'
  BY DEF LoopInv, HistoryShape, Current, Reasons
<1>4. DeliveryIsHonest'
  BY DEF LoopInv, OperationShape, DeliveryIsHonest, FloorHolds, NotSentIsTrue, DoubtIsFounded,
     SuccessStands, NeverNilError, Done
<1> QED BY <1>1, <1>2, <1>3, <1>4 DEF LoopInv, TypeOK

\* sendAdmitted returns an error from outside of an attempt.
Returns(err) ==
  /\ PrepareFrame /\ UNCHANGED stage /\ pc \notin InProgress /\ result = None
  /\ pc' \in {"finish", "returned"} /\ result' = err

\* A return of a founded error keeps the invariant.
LEMMA Returning ==
  ASSUME NEW err, LoopInv, Returns(err), Founded(err) PROVE LoopInv'
<1> USE DEF Returns, PrepareFrame, floorVars, traceVars, contextVars, transportVars, writeVars,
            answerVars
<1>1. result' # None /\ result' # NilError /\ tPC = "idle"
  BY Distinct DEF Founded, LoopInv, TransportShape, OperationShape, InProgress
<1>2. OperationShape'
  BY <1>1 DEF LoopInv, OperationShape, Done, Preparing, InProgress, BackingOff, IsSuccess
<1>3. DeliveryIsHonest'
  <2>1. FloorHolds' /\ NotSentIsTrue'
    BY <1>1 DEF FloorHolds, NotSentIsTrue, Founded, LoopInv, HistoryShape, Current
  <2>2. DoubtIsFounded'
    BY DEF DoubtIsFounded, Founded, Reasons
  <2> QED BY <2>1, <2>2, <1>1
             DEF DeliveryIsHonest, SuccessStands, NeverNilError, LoopInv, OperationShape,
                 InProgress, Done, IsSuccess
<1> QED BY <1>2, <1>3, <1>1
           DEF LoopInv, TypeOK, Founded, Errors, PCs, TransportShape, HistoryShape, Current,
               InProgress

\* Outside of an attempt, the errors of the terminal checks are founded on the floor.
LEMMA TerminalIsFounded ==
  ASSUME LoopInv, result = None, pc \notin InProgress, NEW t \in preAttemptTerminal(committed) \ {None}
  PROVE  Founded(t)
  BY TerminalErrors DEF Founded, LoopInv, TypeOK, HistoryShape, Current

\* So is an error that says what the floor says, and one that backoff takes over.
LEMMA FloorIsFounded ==
  ASSUME LoopInv, result = None, pc \notin InProgress, NEW code \in ErrorCodes
  PROVE  /\ Founded(Err(code, deliveryForCommit(committed)))
         /\ pc \in BackingOff => Founded(Err(code, last))
         /\ pc \in Preparing => Founded(Err(code, "NOT_SENT")) /\ committed = FALSE
<1>1. committed \in BOOLEAN /\ last \in Deliveries /\ (committed => Reasons # {})
  BY DEF LoopInv, TypeOK, HistoryShape, Current
<1>2. ASSUME pc \in BackingOff PROVE Founded(Err(code, last))
  BY <1>1, <1>2 DEF LoopInv, OperationShape, Founded, Errors, Err, Deliveries
<1> QED BY <1>2, <1>1
           DEF Founded, Errors, Err, deliveryForCommit, Deliveries, LoopInv, OperationShape
-----------------------------------------------------------------------------
(* The steps before the attempts, between them and after a failed call     *)

\* sendAdmitted is outside of an attempt and has no result.
Between == pc \in PCs \ (InProgress \cup {"finish", "returned"})

\* A terminal check that stops the operation keeps the invariant.
LEMMA Stopping ==
  ASSUME LoopInv, Between, PrepareFrame, UNCHANGED stage, NEW t \in Stops(committed),
         pc' \in {"finish", "returned"}, result' = t
  PROVE  LoopInv'
  BY Returning, TerminalIsFounded, Zenon
     DEF Returns, LoopInv, OperationShape, Between, Done, Stops

\* So does an error that takes its delivery from the floor or from the failed attempt, or
\* that comes before the attempts.
LEMMA Failing ==
  ASSUME LoopInv, Between, PrepareFrame, UNCHANGED stage, NEW code \in ErrorCodes, NEW delivery,
         \/ delivery = deliveryForCommit(committed)
         \/ delivery = last /\ pc \in BackingOff
         \/ delivery = "NOT_SENT" /\ pc \in Preparing,
         Return(Err(code, delivery))
  PROVE  LoopInv'
<1>1. result = None /\ pc \notin InProgress
  BY DEF LoopInv, OperationShape, Between, Done
<1> QED BY <1>1, Returning, FloorIsFounded, Zenon DEF Returns, Return

\* The steps of the hooks.
LEMMA HookSteps ==
  ASSUME LoopInv,
         \/ CheckSchema \/ StageStops \/ SkipHook \/ RefuseKey \/ CallHook \/ HookReturns
         \/ HookedStops \/ HookedFails \/ ProviderFails \/ ProviderFailed \/ HookedOK
  PROVE  LoopInv'
<1>1. /\ PrepareFrame /\ pc \in {"schema", "stage", "hook", "hooked", "unprovided"}
      /\ stage \in 1..Len(Hooks) /\ Len(Hooks) = 5
  BY Zenon
     DEF LoopInv, TypeOK, Hooks, CheckSchema, StageStops, SkipHook, RefuseKey, CallHook,
         HookReturns, HookedStops, HookedFails, ProviderFails, ProviderFailed, HookedOK
<1>2. Between /\ result = None /\ committed = FALSE /\ MoveFrame
  BY <1>1 DEF MoveFrame, PrepareFrame, traceVars, Between, PCs, InProgress, LoopInv, TypeOK,
     OperationShape, Done, Preparing
<1>3. CASE UNCHANGED result /\ stage' \in 1..Len(Hooks) /\ pc' \in {"stage", "hook", "hooked", "unprovided", "loop"}
  BY <1>1, <1>2, <1>3, Moving DEF Moves, Between, PCs, InProgress, Preparing, BackingOff
<1>4. CASE StageStops \/ HookedStops
  BY <1>1, <1>2, <1>4, Stopping, Zenon DEF StageStops, HookedStops, Return
<1>5. ASSUME NEW code \in ErrorCodes, Return(Err(code, "NOT_SENT")), UNCHANGED stage
      PROVE  LoopInv'
  BY <1>1, <1>2, <1>5, Failing DEF Preparing
<1>6. CASE CheckSchema
  BY <1>1, <1>3, <1>5, <1>6 DEF CheckSchema, ErrorCodes, FailureCodes
<1>7. CASE SkipHook \/ HookedOK
  <2>1. NextStage
    BY <1>7, Zenon DEF SkipHook, HookedOK
  <2> QED BY <1>1, <1>3, <2>1 DEF NextStage
<1>8. CASE CallHook \/ HookReturns \/ ProviderFails
  BY <1>1, <1>3, <1>8, Zenon DEF CallHook, HookReturns, ProviderFails
<1>9. CASE RefuseKey
  BY <1>5, <1>9, Zenon DEF RefuseKey, ErrorCodes, FailureCodes
<1>10. CASE HookedFails
  BY <1>5, <1>10 DEF HookedFails, HookFaults, ErrorCodes, FailureCodes
<1>11. CASE ProviderFailed
  BY <1>5, <1>11 DEF ProviderFailed, ErrorCodes, FailureCodes
<1> QED BY <1>4, <1>6, <1>7, <1>8, <1>9, <1>10, <1>11

\* The head of the loop, backoff, and what follows a call that was given up.
LEMMA LoopSteps ==
  ASSUME LoopInv,
         \/ LoopStops \/ BackoffFails \/ SampleEntropy \/ EntropyReturns \/ WallClockFailed
         \/ SchedulerReturns \/ SleepStops \/ SleepEnds \/ AbandonHook \/ AbandonedReturns
  PROVE  LoopInv'
<1>1. /\ PrepareFrame /\ UNCHANGED stage /\ stage \in 1..Len(Hooks)
      /\ pc \in BackingOff \cup {"loop", "hook", "abandoned"}
  BY DEF LoopInv, TypeOK, BackingOff, LoopStops, BackoffFails, SampleEntropy, EntropyReturns,
     WallClockFailed,
         SchedulerReturns, SleepStops, SleepEnds, AbandonHook, AbandonedReturns
<1>2. Between /\ result = None /\ MoveFrame
  BY <1>1 DEF MoveFrame, PrepareFrame, traceVars, Between, PCs, InProgress, BackingOff, LoopInv,
     TypeOK, OperationShape, Done
<1>3. CASE LoopStops \/ SleepStops
  BY <1>1, <1>2, <1>3, Stopping DEF LoopStops, SleepStops, Return
<1>4. CASE BackoffFails
  BY <1>1, <1>2, <1>4, Failing, SMTT(30)
     DEF BackoffFails, operationDeadlineError, ErrorCodes, FailureCodes
<1>5. CASE SampleEntropy \/ SchedulerReturns
  BY <1>1, <1>2, <1>5, Moving
     DEF SampleEntropy, SchedulerReturns, Moves, Between, PCs, InProgress, Preparing, BackingOff
<1>6. ASSUME UNCHANGED result, pc \in BackingOff, pc' \in {"delay", "loop"} PROVE LoopInv'
  BY <1>1, <1>2, <1>6, Moving DEF Moves, Between, PCs, InProgress, Preparing, BackingOff
<1>7. ASSUME Return(Err("CONFIGURATION", last)), pc \in BackingOff PROVE LoopInv'
  BY <1>1, <1>2, <1>7, Failing, Zenon DEF ErrorCodes, FailureCodes
<1>8. CASE EntropyReturns \/ WallClockFailed \/ SleepEnds
  BY <1>6, <1>7, <1>8 DEF EntropyReturns, WallClockFailed, SleepEnds, BackingOff
<1>9. CASE AbandonHook
  BY <1>1, <1>2, <1>9, Moving
     DEF AbandonHook, Moves, Between, PCs, InProgress, Preparing, BackingOff
<1>10. CASE AbandonedReturns
  <2>1. None \notin preAttemptTerminal(committed)
    BY <1>10
       DEF AbandonedReturns, LoopInv, OperationShape, preAttemptTerminal, operationDeadlineError,
       None, Err
  <2> QED BY <1>1, <1>2, <1>10, <2>1, Stopping, Zenon DEF AbandonedReturns, Stops, Return
<1> QED BY <1>3, <1>4, <1>5, <1>8, <1>9, <1>10

\* The first check, and the two steps that only report an event.
LEMMA ReportingSteps ==
  ASSUME LoopInv, BeginStops \/ startObservability \/ ScheduleRetry
  PROVE  LoopInv'
<1>1. CASE BeginStops
  BY <1>1, Stopping, Zenon
     DEF BeginStops, PrepareFrame, Between, PCs, InProgress, LoopInv, TypeOK, OperationShape,
         Preparing
<1>2. CASE startObservability \/ ScheduleRetry
  <2>1. trace' \in Seq(EventKinds \X (0..MaxAttempts))
    BY <1>2, Appends, Zenon
       DEF startObservability, ScheduleRetry, Event, LoopInv, EventKinds, TypeOK
  <2>2. /\ MoveFrame /\ UNCHANGED <<result, stage>> /\ stage \in 1..Len(Hooks)
        /\ \/ pc = "begin" /\ pc' = "schema"
           \/ pc = "delay" /\ pc' = "sleep"
    BY <1>2, <2>1, Zenon
       DEF startObservability, ScheduleRetry, MoveFrame, floorVars, contextVars, transportVars,
           writeVars, answerVars, LoopInv, TypeOK
  <2> QED BY <2>2, Moving, Zenon
             DEF Moves, PCs, InProgress, Preparing, BackingOff, LoopInv, OperationShape, Done
<1> QED BY <1>1, <1>2
-----------------------------------------------------------------------------
(* An attempt, until its outcome is judged                                 *)

\* The start of an attempt keeps the invariant: the next number is in range, and no
\* history knows it.
LEMMA Starting == LoopInv /\ startAttempt => LoopInv'
<1> SUFFICES ASSUME LoopInv, startAttempt PROVE LoopInv'
  OBVIOUS
<1> USE DEF startAttempt, floorVars, contextVars, writeVars, answerVars
<1>1. /\ tPC = "idle" /\ result = None /\ attempt \in Nat /\ attempt' \in 1..MaxAttempts
      /\ MaxAttempts \in Nat /\ attempt' = attempt + 1
  BY OperationAssumption DEF LoopInv, TypeOK, TransportShape, OperationShape, Done
<1>2. TypeOK'
  <2>1. trace' \in Seq(EventKinds \X (0..MaxAttempts))
    BY <1>1, Appends DEF LoopInv, EventKinds
  <2>2. /\ pc' = "started" /\ open' \in BOOLEAN /\ tracker' \in BOOLEAN /\ outcome' = Nothing
        /\ UNCHANGED <<stage, committed, last, result, deadline, late, closed, caller, tPC, offer,
                       wire, marked, cleared, doubtful, disowned>>
    BY Zenon
  <2> HIDE DEF startAttempt
  <2> QED BY <2>1, <2>2, <1>1 DEF LoopInv, TypeOK, PCs
<1>3. HistoryShape'
  BY <1>1 DEF LoopInv, HistoryShape, Current, InProgress, Reasons
<1>4. DeliveryIsHonest'
  BY <1>1 DEF LoopInv, OperationShape, DeliveryIsHonest, FloorHolds, NotSentIsTrue, DoubtIsFounded,
     SuccessStands, NeverNilError, Done
<1> QED BY <1>2, <1>3, <1>4, <1>1, SMTT(30)
           DEF LoopInv, TransportShape, OperationShape, Failures, Nothing, Done, Preparing,
               InProgress, BackingOff, IsSuccess

\* The steps between the start of an attempt and its judgement touch neither the floor nor
\* the histories.
LEMMA Calling ==
  ASSUME LoopInv, CallTransport \/ AttemptExpires \/ ReceiveOutcome \/ AbandonAttempt \/ TimedOutRetries
  PROVE  LoopInv'
<1>1. /\ UNCHANGED <<stage, attempt, committed, last, result, open, trace, deadline, late, closed,
                     caller, tracker, wire, marked, cleared, doubtful, disowned>>
      /\ pc \in InProgress \ {"outcome"} /\ pc' \in InProgress \ {"started"}
  BY DEF CallTransport, AttemptExpires, ReceiveOutcome, AbandonAttempt, TimedOutRetries,
     SelectFrame,
         floorVars, traceVars, contextVars, transportVars, writeVars, answerVars, InProgress
<1>2. /\ result = None /\ ~Done /\ ~Done'
  BY <1>1, Zenon DEF LoopInv, OperationShape, Done, InProgress
<1>3. outcome' \in Outcomes \cup {Nothing} /\ offer' \in Outcomes \cup {Nothing} /\ tPC' \in {"idle", "send", "wrote", "marked", "offer"}
  <2>1. Failure("ATTEMPT_TIMEOUT", tracker) \in Outcomes
    BY DEF LoopInv, TypeOK, Failure, Outcomes, Failures, FailureCodes
  <2> QED BY <2>1
             DEF LoopInv, TypeOK, TransportShape, CallTransport, AttemptExpires, ReceiveOutcome,
             AbandonAttempt,
           TimedOutRetries, SelectFrame, transportVars
<1>4. TransportShape'
  <2>1. CASE TimedOutRetries
    <3>1. ~deadline
      BY <2>1, Zenon
         DEF TimedOutRetries, Passes, preAttemptTerminal, operationDeadlineError, Err, None
    <3> QED BY <1>2, <2>1, <3>1, SMTT(30)
               DEF TimedOutRetries, transportVars, contextVars, floorVars, LoopInv, TransportShape
  <2>2. CASE CallTransport
    BY <1>1, <1>2, <2>2, SMTT(30) DEF CallTransport, LoopInv, TransportShape, OperationShape,
       InProgress, contextVars, Failures, Nothing
  <2>3. CASE ReceiveOutcome
    BY <1>1, <1>2, <2>3, Zenon DEF ReceiveOutcome, SelectFrame, contextVars, LoopInv,
       TransportShape, OperationShape, Failures, Nothing
  <2>4. CASE AttemptExpires \/ AbandonAttempt
    BY <1>1, <1>2, <2>4, Zenon DEF AttemptExpires, AbandonAttempt, SelectFrame, contextVars,
       LoopInv, TransportShape, OperationShape
  <2> QED BY <2>1, <2>2, <2>3, <2>4
<1>5. OperationShape'
  <2>1. /\ outcome' \in Failures /\ outcome'.sent => tracker'
        /\ pc' \in {"calling", "late", "timedOut"} => outcome' = Nothing
        /\ pc' = "outcome" => outcome' \in Outcomes
    <3>1. CASE TimedOutRetries
      BY <1>1, <3>1, SMTT(30)
         DEF TimedOutRetries, Failure, LoopInv, TypeOK, Outcomes, Failures, FailureCodes
    <3>2. CASE ReceiveOutcome
      BY <1>1, <3>2, SMTT(30) DEF ReceiveOutcome, LoopInv, TransportShape, Failures, Nothing
    <3>3. CASE CallTransport \/ AttemptExpires \/ AbandonAttempt
      BY <1>1, <3>3, Zenon
         DEF CallTransport, AttemptExpires, AbandonAttempt, LoopInv, OperationShape, Failures,
             Nothing
    <3> QED BY <3>1, <3>2, <3>3, Zenon
  <2> QED BY <1>1, <1>2, <2>1
             DEF LoopInv, OperationShape, Preparing, InProgress, BackingOff, IsSuccess, Nothing
<1>6. HistoryShape'
  <2>1. tPC = "wrote" => tPC' = "wrote"
    BY <1>1, <1>2 DEF CallTransport, AttemptExpires, ReceiveOutcome, AbandonAttempt,
       TimedOutRetries, transportVars, LoopInv, TransportShape, InProgress
  <2> QED BY <1>1, <1>2, <2>1, SMTT(30) DEF LoopInv, HistoryShape, Current, Reasons
<1>7. DeliveryIsHonest'
  BY <1>1, <1>2 DEF LoopInv, DeliveryIsHonest, FloorHolds, NotSentIsTrue, DoubtIsFounded,
     SuccessStands, NeverNilError
<1> QED BY <1>4, <1>5, <1>6, <1>7, <1>1, <1>3 DEF LoopInv, TypeOK, PCs, InProgress

\* An attempt that is given up ends the operation: the tracker, read in time, tells whether
\* it was committed, and a transport that still runs leaves the deadline as the reason.
LEMMA GivingUp == LoopInv /\ TimedOutStops => LoopInv'
<1> SUFFICES ASSUME LoopInv, TimedOutStops PROVE LoopInv'
  OBVIOUS
<1> USE DEF floorVars, contextVars, transportVars, writeVars, answerVars
<1>1. PICK t \in Stops(committed \/ tracker) : Return(t)
  BY SMTT(30) DEF TimedOutStops
<1>2. /\ pc = "timedOut" /\ pc' = "finish" /\ result' = t /\ result = None /\ outcome = Nothing
      /\ attempt > 0 /\ open' = FALSE /\ Current = {attempt}
      /\ UNCHANGED <<stage, attempt, committed, last, deadline, late, closed, caller, tPC, tracker,
                     offer, outcome, wire, marked, cleared, doubtful, disowned>>
  BY <1>1 DEF TimedOutStops, endAttempt, Return, LoopInv, OperationShape, InProgress, Done, Current
<1>3. /\ t \in Errors
      /\ ~(committed \/ tracker) => t.delivery = "NOT_SENT"
      /\ committed \/ tracker => t.delivery \in {"POSSIBLY_SENT", "CANCELLED_UNKNOWN"}
      /\ deadline => t.code = "OPERATION_DEADLINE"
  BY <1>1, TerminalErrors, Zenon DEF Stops, LoopInv, TypeOK
<1>4. result' # None /\ result' # NilError
  BY <1>2, <1>3, Distinct, Zenon
<1>5. TypeOK'
  <2>1. trace' \in Seq(EventKinds \X (0..MaxAttempts))
    BY Appends DEF TimedOutStops, endAttempt, Event, LoopInv, EventKinds, TypeOK
  <2>2. pc' \in PCs /\ open' \in BOOLEAN
        /\ result' \in [code : ErrorCodes \cup {"none", "nil"}, delivery : Deliveries \cup {"none", "nil"}]
    BY <1>2, <1>3, Zenon DEF PCs, Errors
  <2> QED BY <1>2, <2>1, <2>2 DEF LoopInv, TypeOK
<1>6. DeliveryIsHonest'
  <2>1. SuccessStands'
    BY <1>2 DEF SuccessStands, IsSuccess, Nothing
  <2> QED BY <1>4, <2>1, <1>2, <1>3, Zenon
             DEF DeliveryIsHonest, NeverNilError, FloorHolds, LoopInv, HistoryShape,
                 NotSentIsTrue, TransportShape, Done, DoubtIsFounded, Reasons
<1> QED BY <1>5, <1>6, <1>2, <1>3, <1>4, Zenon
           DEF LoopInv, TransportShape, Done, OperationShape, Preparing, InProgress, BackingOff,
               HistoryShape, Current

\* The transport's steps change only its own goroutine and the histories of its writes; after
\* the operation has given up they no longer count.
LEMMA Transporting == LoopInv /\ TransportStep => LoopInv'
<1> SUFFICES ASSUME LoopInv, TransportStep PROVE LoopInv'
  OBVIOUS
<1>1. UNCHANGED <<pc, stage, attempt, committed, last, result, open, trace, deadline, late, closed,
                  caller, outcome, cleared, doubtful, disowned>>
  BY SMTT(30) DEF TransportStep, TransportWrites, MarkCommitted, TransportReturns, DropOutcome,
     TransportFrame,
         floorVars, traceVars, contextVars, answerVars
<1>2. \/ /\ tPC = "wrote" /\ tPC' = "marked" /\ tracker' = TRUE /\ UNCHANGED <<wire, offer>>
         /\ marked' = IF result = None THEN marked \cup {attempt} ELSE marked
      \/ /\ tPC \in {"send", "marked", "offer"} /\ tPC' \in {"wrote", "offer", "idle"} /\ UNCHANGED <<marked, tracker>>
         /\ wire' = IF tPC' = "wrote" THEN wire \cup {attempt} ELSE wire
         /\ tPC' = "wrote" => tPC = "send" /\ UNCHANGED offer
         /\ tPC' = "offer" => /\ offer' \in Outcomes /\ tPC \in {"send", "marked"}
                              /\ offer' \in Failures /\ offer'.sent => tPC = "marked"
         /\ tPC' = "idle" => offer' = Nothing /\ pc \notin {"calling", "late"}
  <2>1. CASE TransportReturns
    BY <2>1
       DEF TransportReturns, writeVars, Outcomes, Unwritten, AfterWrite, PostCommit, Responses,
           Failures, Malformed
  <2>2. CASE TransportWrites \/ MarkCommitted \/ DropOutcome
    BY <2>2 DEF TransportWrites, MarkCommitted, DropOutcome, writeVars
  <2> QED BY <2>1, <2>2, ZenonT(30) DEF TransportStep
<1>3. /\ tPC # "idle" /\ (Done <=> result # None)
      /\ \/ pc \in {"calling", "late"}
         \/ pc = "timedOut" /\ deadline
         \/ Done /\ result.code = "OPERATION_DEADLINE"
  BY <1>2 DEF LoopInv, TransportShape, OperationShape
<1>4. attempt \in 1..MaxAttempts
  BY <1>3, OperationAssumption DEF LoopInv, TypeOK, TransportShape
<1>5. TypeOK'
  <2>1. /\ tPC' \in {"idle", "send", "wrote", "marked", "offer"} /\ tracker' \in BOOLEAN
        /\ wire' \subseteq 1..MaxAttempts /\ marked' \subseteq 1..MaxAttempts
    BY <1>2, <1>4, Zenon DEF LoopInv, TypeOK
  <2> QED BY <1>1, <2>1, <1>2, SMTT(30) DEF LoopInv, TypeOK
<1>6. OperationShape'
  BY <1>1, <1>2, <1>3, Zenon
     DEF LoopInv, OperationShape, Done, BackingOff, Preparing, InProgress, IsSuccess
<1>7. HistoryShape'
  <2>1. ASSUME result = None
        PROVE  /\ tracker' <=> attempt \in marked'
               /\ wire' \subseteq marked' \cup (IF tPC' = "wrote" THEN {attempt} ELSE {})
               /\ ~committed => marked' \subseteq cleared \cup disowned \cup {attempt}
               /\ committed => Reasons' \ {attempt} # {}
    BY <2>1, <1>1, <1>3, <1>2 DEF LoopInv, HistoryShape, Current, InProgress, Done, Reasons
  <2> QED BY <1>1, <2>1, <1>3, <1>2, <1>4 DEF LoopInv, HistoryShape, Current, InProgress, Done
<1>8. DeliveryIsHonest'
  BY <1>1, <1>2, <1>3, SMTT(30) DEF LoopInv, DeliveryIsHonest, FloorHolds, NotSentIsTrue,
     DoubtIsFounded, SuccessStands, NeverNilError,
              Done, IsSuccess
<1> QED BY <1>5, <1>6, <1>7, <1>8, <1>1, <1>3, <1>4, <1>2, SMTT(30)
           DEF LoopInv, TransportShape, Done, Nothing, Failures
-----------------------------------------------------------------------------
(* Judging an outcome                                                      *)

\* What the next floor and the next histories must support an error with.
FoundedNext(err) ==
  /\ err \in Errors
  /\ err.delivery \in {"NOT_SENT", "REJECTED"} => ~committed'
  /\ err.delivery \in {"POSSIBLY_SENT", "CANCELLED_UNKNOWN"} => Reasons' # {}

\* The state in which an outcome is judged.
LEMMA AtOutcome ==
  ASSUME LoopInv, Judge
  PROVE  /\ pc = "outcome" /\ tPC = "idle" /\ result = None /\ outcome \in Outcomes
         /\ Current = {attempt} /\ attempt \in 1..MaxAttempts /\ wire \subseteq marked
         /\ committed \in BOOLEAN /\ tracker \in BOOLEAN /\ committed' = Floor(outcome)
         /\ attempt \notin cleared \cup doubtful \cup disowned
         /\ tracker <=> attempt \in marked
         /\ outcome \in Failures /\ outcome.sent => tracker
         /\ ~committed => marked \subseteq cleared \cup disowned \cup {attempt}
         /\ committed => Reasons \ {attempt} # {}
<1>1. pc = "outcome" /\ committed' = Floor(outcome)
  BY SMTT(30) DEF Judge
<1>2. attempt \in 1..MaxAttempts
  BY <1>1, OperationAssumption, SMTT(30) DEF LoopInv, TypeOK, OperationShape, InProgress
<1> QED BY <1>1, <1>2, Zenon
           DEF LoopInv, TypeOK, OperationShape, HistoryShape, Current, InProgress,
               TransportShape, Done

\* The three ways in which an outcome changes the floor and the histories.
LEMMA Answers ==
  ASSUME LoopInv, Judge
  PROVE  /\ committed' \in BOOLEAN /\ (committed => committed')
         /\ \/ outcome \in Responses /\ outcome.status \in {"3xx4xx", "407", "429"} /\ attempt \in cleared'
            \/ outcome \in Failures /\ outcome.code \in PreCommitCodes /\ attempt \in disowned'
            \/ tracker => committed'
            \/ outcome \in Responses /\ committed'
         /\ committed' => \/ committed
                          \/ attempt \in doubtful'
                          \/ tracker /\ attempt \notin cleared'
         /\ outcome \in Responses /\ outcome.fault = "timeout" => attempt \in doubtful'
         /\ outcome \in Failures /\ outcome.sent => attempt \notin cleared'
         /\ cleared \subseteq cleared' /\ cleared' \subseteq cleared \cup {attempt}
         /\ doubtful \subseteq doubtful' /\ doubtful' \subseteq doubtful \cup {attempt}
         /\ disowned \subseteq disowned' /\ disowned' \subseteq disowned \cup {attempt}
<1>1. /\ outcome \in Outcomes /\ committed \in BOOLEAN /\ tracker \in BOOLEAN /\ committed' = Floor(outcome)
      /\ attempt \notin cleared \cup doubtful \cup disowned
      /\ outcome \in Failures /\ outcome.sent => tracker
  BY AtOutcome, SMTT(30)
<1>2. CASE outcome \in Responses
  <2>1. outcome.kind = "response" /\ outcome \notin Failures /\ outcome # Malformed /\ outcome.status \in Statuses
    BY <1>2 DEF Responses, Failures, Malformed
  <2>2. CASE outcome.status \in {"3xx4xx", "407", "429"}
    BY <1>1, <1>2, <2>1, <2>2 DEF Floor, responseMayHaveBeenAccepted, Judge
  <2>3. CASE outcome.status \in {"2xx", "409", "5xx"}
    BY <1>1, <1>2, <2>1, <2>3 DEF Floor, responseMayHaveBeenAccepted, Judge
  <2> QED BY <2>1, <2>2, <2>3 DEF Statuses
<1>3. CASE outcome \in Failures
  <2>1. outcome.kind = "failure" /\ outcome \notin Responses /\ outcome # Malformed /\ outcome.sent \in BOOLEAN
    BY <1>3 DEF Responses, Failures, Malformed
  <2>2. CASE outcome.code \in PreCommitCodes
    BY <1>1, <1>3, <2>1, <2>2, SMTT(30) DEF Floor, Judge
  <2>3. CASE outcome.code \notin PreCommitCodes
    BY <1>1, <1>3, <2>1, <2>3 DEF Floor, Judge
  <2> QED BY <2>2, <2>3
<1>4. CASE outcome = Malformed
  <2>1. outcome.kind = "malformed" /\ outcome \notin Responses /\ outcome \notin Failures
    BY <1>4 DEF Responses, Failures, Malformed
  <2> QED BY <1>1, <2>1, <1>4, SMTT(30) DEF Floor, Judge
<1> QED BY <1>1, <1>2, <1>3, <1>4 DEF Outcomes

\* What the floor means after a judgement, with no attempt left over: if it is down, every
\* committed attempt was refused or disowned; if it is up, there is a reason to doubt.
LEMMA FloorAfter ==
  ASSUME LoopInv, Judge
  PROVE  /\ ~committed' => marked \subseteq cleared' \cup disowned'
         /\ committed' => Reasons' # {}
         /\ marked' = marked
<1>1. marked' = marked
  BY DEF Judge, writeVars
<1>2. ASSUME committed' PROVE Reasons' # {}
  BY AtOutcome, <1>2, Answers, <1>1 DEF Reasons
<1> QED BY <1>1, <1>2, AtOutcome, Answers

\* The error of an attempt is founded on the floor that its judgement leaves.
LEMMA VerdictIsFounded ==
  ASSUME LoopInv, Judge, IsError
  PROVE  LET v == AttemptVerdict(outcome) IN
           /\ v.delivery \in {"NOT_SENT", "REJECTED", "POSSIBLY_SENT"}
           /\ FoundedNext(Err(v.code, v.delivery))
<1>1. committed' = Floor(outcome) /\ committed' \in BOOLEAN /\ committed \in BOOLEAN /\ (committed' => Reasons' # {})
  BY AtOutcome, Answers, FloorAfter, SMTT(30)
<1> DEFINE v == AttemptVerdict(outcome)
<1>2. CASE outcome \in Failures
  BY <1>1, <1>2, AtOutcome, Answers, FloorAfter
     DEF FoundedNext, Err, Errors, ErrorCodes, Deliveries, Failures, Reasons, Verdict,
         deliveryForCommit, AttemptVerdict
<1>3. CASE outcome \in Responses
  <2>1. outcome.kind = "response" /\ outcome.status \in Statuses /\ outcome.fault \in Faults /\ ~IsSuccess(outcome)
    BY <1>3 DEF Responses, IsError
  <2>2. /\ ResponseVerdict(outcome).code \in {"ATTEMPT_TIMEOUT", "HTTP_REJECTED", "PROXY", "RATE_LIMITED",
                "SERVER_FAILURE", "RESPONSE_TOO_LARGE", "RESPONSE_PROTOCOL"}
        /\ ResponseVerdict(outcome).delivery \in {"REJECTED", "NOT_SENT"} =>
               outcome.status \in {"3xx4xx", "407", "429"} /\ outcome.fault # "timeout"
        /\ ResponseVerdict(outcome).delivery = "NOT_SENT" => ResponseVerdict(outcome).code = "PROXY"
        /\ ResponseVerdict(outcome).delivery \in {"NOT_SENT", "REJECTED", "POSSIBLY_SENT"}
        /\ ResponseVerdict(outcome).delivery = "POSSIBLY_SENT" =>
               outcome.status \in {"2xx", "409", "5xx"} \/ outcome.fault = "timeout"
    BY <2>1 DEF ResponseVerdict, Verdict, Statuses, Faults, IsSuccess
  <2>3. /\ v.code = ResponseVerdict(outcome).code
        /\ v.delivery = IF committed /\ (v.code = "PROXY" \/ ResponseVerdict(outcome).delivery = "REJECTED")
                         THEN "POSSIBLY_SENT" ELSE ResponseVerdict(outcome).delivery
    BY <1>1, <2>1 DEF AttemptVerdict, ResponseVerdict, Verdict
  <2> QED BY <2>1, <2>2, <2>3, <1>1, <1>3, Answers, Zenon
             DEF FoundedNext, Err, Errors, Deliveries, Floor, responseMayHaveBeenAccepted,
                 Reasons, ErrorCodes, FailureCodes, PreCommitCodes
<1> QED BY <1>2, <1>3, SMTT(30) DEF IsError

\* What a judgement does to everything but the result.
LEMMA Judging ==
  ASSUME LoopInv, Judge,
         result' \in Errors \cup {Accepted, None}, last' \in Deliveries, pc' \in {"finish", "backoff"},
         pc' = "finish" <=> result' # None
  PROVE  /\ TypeOK' /\ TransportShape' /\ HistoryShape' /\ wire' \subseteq marked'
         /\ UNCHANGED <<outcome, tracker, attempt>>
<1>1. /\ UNCHANGED <<stage, attempt, deadline, late, closed, caller, tPC, tracker, offer, outcome, wire, marked>>
      /\ open' \in BOOLEAN
  BY Zenon DEF Judge, endAttempt, contextVars, transportVars, writeVars
<1>2. TypeOK'
  <2>1. trace' \in Seq(EventKinds \X (0..MaxAttempts))
    <3>1. "attempt.end" \in EventKinds /\ attempt \in 0..MaxAttempts
      BY DEF EventKinds, LoopInv, TypeOK
    <3> QED BY <3>1, Appends DEF Judge, endAttempt, Event, LoopInv
  <2>2. result' \in [code : ErrorCodes \cup {"none", "nil"}, delivery : Deliveries \cup {"none", "nil"}]
    BY DEF Errors, Accepted, None, Err, Deliveries
  <2>3. cleared' \subseteq 1..MaxAttempts /\ doubtful' \subseteq 1..MaxAttempts /\ disowned' \subseteq 1..MaxAttempts
    <3>1. attempt \in 1..MaxAttempts
      BY AtOutcome, SMTT(30)
    <3>2. cleared' \subseteq cleared \cup {attempt} /\ doubtful' \subseteq doubtful \cup {attempt}
          /\ disowned' \subseteq disowned \cup {attempt}
      BY Answers
    <3> QED BY <3>1, <3>2 DEF LoopInv, TypeOK
  <2>4. pc' \in PCs
    BY DEF PCs
  <2>5. committed' \in BOOLEAN
    BY Answers, SMTT(30)
  <2> QED BY <1>1, <2>1, <2>2, <2>3, <2>4, <2>5 DEF LoopInv, TypeOK
<1>3. TransportShape'
  <2>1. tPC = "idle"
    BY AtOutcome, SMTT(30)
  <2> QED BY <1>1, <2>1 DEF LoopInv, TransportShape
<1>4. wire' \subseteq marked'
  BY <1>1, AtOutcome, SMTT(30)
<1>5. HistoryShape'
  <2>1. Current' = {}
    BY SMTT(30) DEF Current, InProgress
  <2>2. wire' \cup marked' \cup cleared' \cup doubtful' \cup disowned' \subseteq 1..attempt'
    <3>1. attempt \in 1..attempt
      BY AtOutcome, SMTT(30)
    <3>2. cleared' \subseteq cleared \cup {attempt} /\ doubtful' \subseteq doubtful \cup {attempt}
          /\ disowned' \subseteq disowned \cup {attempt}
      BY Answers
    <3> QED BY <1>1, <3>1, <3>2, SMTT(30) DEF LoopInv, HistoryShape
  <2>3. tracker' <=> attempt' \in marked'
    BY <1>1, AtOutcome
  <2>4. (~committed' => marked' \subseteq cleared' \cup disowned') /\ (committed' => Reasons' # {})
    BY FloorAfter
  <2>5. Reasons' \ {} = Reasons'
    OBVIOUS
  <2> QED BY <1>4, <2>1, <2>2, <2>3, <2>4, <2>5, SMTT(30) DEF HistoryShape
<1> QED BY <1>1, <1>2, <1>3, <1>4, <1>5, SMTT(30)

\* A judgement that ends the operation with a founded error, or with a success that has
\* one, keeps the invariant.
LEMMA Concluding ==
  ASSUME LoopInv, Judge, NEW err, Return(err), UNCHANGED last,
         FoundedNext(err) \/ err = Accepted,
         IsSuccess(outcome) => \/ err = Accepted
                               \/ err.code \in {"OPERATION_DEADLINE", "CONFIGURATION"} /\ err.delivery = "POSSIBLY_SENT"
  PROVE  LoopInv'
<1>1. /\ result' \in Errors \cup {Accepted, None} /\ result' # None /\ result' # NilError
      /\ last' \in Deliveries /\ pc' = "finish" /\ result' = err
  BY Distinct, SMTT(30) DEF FoundedNext, Return, LoopInv, TypeOK, Accepted, None, NilError, Err
<1>2. /\ TypeOK' /\ TransportShape' /\ HistoryShape' /\ wire' \subseteq marked'
      /\ UNCHANGED <<outcome, tracker, attempt>>
  BY <1>1, Judging, Zenon
<1>3. DeliveryIsHonest'
  <2>1. SuccessStands'
    BY <1>1, <1>2 DEF SuccessStands, IsSuccess
  <2> QED BY <1>1, <2>1, <1>2, FloorAfter
             DEF DeliveryIsHonest, NeverNilError, FloorHolds, NotSentIsTrue, FoundedNext,
                 Accepted, Err, DoubtIsFounded, Reasons
<1> QED BY <1>2, <1>3, <1>1, Zenon
           DEF LoopInv, OperationShape, Done, Preparing, InProgress, BackingOff

\* Every judgement keeps the invariant.
LEMMA Judgements ==
  ASSUME LoopInv, JudgeMalformed \/ JudgeSuccess \/ JudgeStops \/ JudgeFinal \/ JudgeRetry
  PROVE  LoopInv'
<1>1. Judge
  BY Zenon DEF JudgeMalformed, JudgeSuccess, JudgeStops, JudgeFinal, JudgeRetry
<1>2. committed' = Floor(outcome) /\ Floor(outcome) \in BOOLEAN /\ (committed' => Reasons' # {})
  BY <1>1, AtOutcome, Answers, FloorAfter
<1>3. CASE JudgeMalformed
  <2>1. outcome = Malformed /\ ~IsSuccess(outcome) /\ attempt \in doubtful'
    BY <1>1, <1>3 DEF JudgeMalformed, IsSuccess, Malformed, Judge
  <2> QED BY <1>1, <1>3, <2>1, Concluding, ZenonT(30)
             DEF JudgeMalformed, FoundedNext, Err, Errors, ErrorCodes, FailureCodes, Deliveries,
                 Reasons
<1>4. CASE JudgeSuccess
  <2>1. PICK t \in deadlineTerminal(Floor(outcome)) : Return(IF t = None THEN Accepted ELSE t)
    BY <1>4 DEF JudgeSuccess
  <2>2. Floor(outcome) = TRUE /\ committed' = TRUE /\ UNCHANGED last
    BY <1>4, <1>2, Zenon DEF JudgeSuccess, IsSuccess, Floor, responseMayHaveBeenAccepted
  <2>3. t # None => t \in Errors
    BY <2>1, <2>2, TerminalErrors, Zenon DEF LoopInv
  <2>4. CASE t = None
    BY <1>1, <2>1, <2>2, <2>4, Concluding
  <2>5. CASE t # None
    BY <1>1, <2>1, <2>2, <2>5, Concluding, <1>2, <2>3, Zenon
       DEF deadlineTerminal, ClockTerminal, operationDeadlineError, deliveryForCommit, Err,
           FoundedNext
  <2> QED BY <2>4, <2>5
<1>5. CASE JudgeStops
  <2>1. PICK t \in Stops(Floor(outcome)) : Return(t)
    BY <1>5 DEF JudgeStops
  <2> QED BY <1>1, <1>5, <2>1, Concluding, <1>2, TerminalErrors
             DEF JudgeStops, IsError, FoundedNext, Stops, LoopInv
<1>6. CASE JudgeFinal
  <2> DEFINE v == AttemptVerdict(outcome)
  <2> HIDE DEF v
  <2> QED BY <1>1, <1>6, Concluding, VerdictIsFounded, Zenon DEF JudgeFinal, IsError
<1>7. CASE JudgeRetry
  <2>1. /\ last' \in {"NOT_SENT", "REJECTED", "POSSIBLY_SENT"}
        /\ last' # "POSSIBLY_SENT" => ~committed'
        /\ last' = "POSSIBLY_SENT" => Reasons' # {}
    <3> DEFINE v == AttemptVerdict(outcome)
    <3> HIDE DEF v
    <3> QED BY <1>1, <1>7, VerdictIsFounded DEF FoundedNext, Err, JudgeRetry
  <2>2. pc' = "backoff" /\ result' = None /\ attempt < MaxAttempts /\ ~IsSuccess(outcome)
    BY <1>7, OperationAssumption, <1>1, AtOutcome DEF JudgeRetry, IsFinal, IsError
  <2>3. /\ TypeOK' /\ TransportShape' /\ HistoryShape' /\ UNCHANGED <<outcome, tracker, attempt>>
    BY <1>1, <2>1, <2>2, Judging, SMTT(30) DEF Deliveries
  <2>4. DeliveryIsHonest'
    BY <2>2 DEF DeliveryIsHonest, FloorHolds, NotSentIsTrue, DoubtIsFounded, SuccessStands,
       NeverNilError,
                Done, None, NilError, Err
  <2> QED BY <2>3, <2>4, <2>1, <2>2, Zenon
             DEF LoopInv, OperationShape, Preparing, InProgress, BackingOff, Done, IsSuccess
<1> QED BY <1>3, <1>4, <1>5, <1>6, <1>7
-----------------------------------------------------------------------------
\* The deferred finish, the contexts, and steps that change nothing.
LEMMA Ending ==
  ASSUME LoopInv, finish \/ ContextChanges \/ UNCHANGED vars
  PROVE  LoopInv'
<1> USE DEF floorVars, traceVars, contextVars, transportVars, writeVars, answerVars
<1>1. /\ UNCHANGED <<stage, attempt, committed, last, result, tPC, tracker, offer, outcome, wire, marked,
                     cleared, doubtful, disowned>>
      /\ pc' = pc \/ (pc = "finish" /\ pc' = "returned")
      /\ deadline => deadline'
  BY Zenon DEF finish, ContextChanges, vars, LoopInv, TypeOK
<1>2. open' \in BOOLEAN /\ trace' \in Seq(EventKinds \X (0..MaxAttempts))
  <2>1. CASE finish
    <3>1. \A kind \in EventKinds : <<Event(kind)>> \in Seq(EventKinds \X (0..MaxAttempts))
      BY DEF Event, LoopInv, TypeOK
    <3>2. /\ "attempt.end" \in EventKinds /\ "operation.cancel" \in EventKinds /\ "operation.end" \in EventKinds
          /\ <<>> \in Seq(EventKinds \X (0..MaxAttempts))
      BY DEF EventKinds
    <3>3. \A a, b, c, d \in Seq(EventKinds \X (0..MaxAttempts)) :
             a \o b \o c \o d \in Seq(EventKinds \X (0..MaxAttempts))
      OBVIOUS
    <3>4. trace \in Seq(EventKinds \X (0..MaxAttempts))
      BY DEF LoopInv, TypeOK
    <3> QED BY <2>1, <3>1, <3>2, <3>3, <3>4, Zenon DEF finish
  <2>2. CASE UNCHANGED traceVars
    BY <2>2, Zenon DEF LoopInv, TypeOK
  <2> QED BY <2>1, <2>2 DEF ContextChanges, vars
<1>3. TypeOK'
  <2>1. /\ pc' \in PCs /\ deadline' \in BOOLEAN /\ late' \in BOOLEAN /\ closed' \in BOOLEAN
        /\ caller' \in {"live", "cancelled", "expired"}
    <3>1. pc' \in PCs
      BY <1>1 DEF PCs, LoopInv, TypeOK
    <3> QED BY <3>1, ZenonT(30) DEF finish, ContextChanges, vars, LoopInv, TypeOK
  <2> QED BY <1>1, <1>2, <2>1, SMTT(30) DEF LoopInv, TypeOK
<1>4. Done' <=> Done
  BY <1>1 DEF Done
<1>5. OperationShape'
  <2>1. CASE pc' = pc
    BY <1>1, <1>4, <2>1, SMTT(30)
       DEF LoopInv, OperationShape, Reasons, IsSuccess, Preparing, InProgress, BackingOff
  <2>2. CASE pc = "finish" /\ pc' = "returned"
    BY <1>1, <1>4, <2>2, Zenon
       DEF LoopInv, OperationShape, Reasons, IsSuccess, Preparing, InProgress, BackingOff
  <2> QED BY <1>1, <2>1, <2>2, Zenon
<1>6. HistoryShape'
  BY <1>1, Zenon DEF LoopInv, HistoryShape, Current, InProgress, Reasons
<1>7. DeliveryIsHonest'
  BY <1>1, <1>4, SMTT(30) DEF LoopInv, DeliveryIsHonest, FloorHolds, NotSentIsTrue, DoubtIsFounded,
     SuccessStands, NeverNilError, IsSuccess
<1> QED BY <1>3, <1>5, <1>6, <1>7, <1>1, <1>4, Zenon DEF LoopInv, TransportShape, Done

\* The inductive step.
LEMMA Stepping == LoopInv /\ [Next]_vars => LoopInv'
BY HookSteps, LoopSteps, ReportingSteps, Starting, Calling, GivingUp, Transporting, Judgements,
   Ending, ZenonT(30)
   DEF Next, OwnStep, HookStep, Finished

-----------------------------------------------------------------------------
(* The events                                                              *)

Delaying == {"backoff", "entropy", "delay"}
Sleeping == {"sleep", "slept", "sleepFailed"}

\* A step that reports nothing moves on among places where the same event came last.
Quiet ==
  /\ UNCHANGED <<attempt, open, trace>>
  /\ \/ pc' = pc
     \/ pc = "begin" /\ pc' = "returned"
     \/ pc \in Preparing \ {"begin"} /\ pc' \in (Preparing \ {"begin"}) \cup {"loop"}
     \/ pc \in InProgress /\ pc' \in InProgress
     \/ pc \in Delaying /\ pc' \in Delaying
     \/ pc \in Sleeping /\ pc' \in Sleeping \cup {"loop"}
     \/ pc \in PCs \ (InProgress \cup {"begin", "returned"}) /\ pc' \in {"abandoned", "finish"}

\* Such a step leaves the events as they have to be.
LEMMA QuietEvents ==
  ASSUME OperationShape, EventShape, Quiet
  PROVE  EventShape'
<1>1. /\ pc' \in InProgress <=> pc \in InProgress
      /\ pc' = "begin" => pc = "begin"
      /\ pc' = "returned" => pc \in {"begin", "returned"}
      /\ pc' \notin {"begin", "returned"} => pc \notin {"begin", "returned"}
      /\ pc' \in BackingOff => pc \in BackingOff
  BY SMT DEF Quiet, Preparing, InProgress, BackingOff, Delaying, Sleeping
<1>2. pc' \notin {"begin", "returned"} => LastReport \subseteq LastReport'
  <2>1. CASE pc' = pc
    BY <2>1, ZenonT(30) DEF LastReport, Quiet
  <2>2. CASE pc' # pc
    BY <2>2, <1>1, SMT
       DEF LastReport, Quiet, Preparing, InProgress, Delaying, Sleeping, PCs, OperationShape,
           EventShape, BackingOff
  <2> QED BY <2>1, <2>2
<1> HIDE DEF LastReport, Ordered
<1> QED BY <1>1, <1>2, SMTT(30) DEF Quiet, EventShape, EventsInOrder, Ordered, Follows

\* The steps that report nothing.
LEMMA QuietSteps ==
  ASSUME OperationShape, EventShape, pc \in PCs,
         \/ BeginStops \/ CheckSchema \/ StageStops \/ SkipHook \/ RefuseKey \/ CallHook
         \/ AbandonHook \/ AbandonedReturns \/ HookedStops \/ HookedFails \/ ProviderFails
         \/ ProviderFailed \/ HookedOK \/ LoopStops \/ CallTransport \/ ReceiveOutcome
         \/ AbandonAttempt \/ TimedOutRetries \/ BackoffFails \/ SampleEntropy
         \/ WallClockFailed \/ SleepStops \/ SleepEnds \/ HookStep \/ TransportStep
         \/ AttemptExpires \/ ContextChanges \/ UNCHANGED vars
  PROVE  EventShape'
<1> USE DEF Preparing, InProgress, Delaying, Sleeping
<1>1. CASE BeginStops \/ CheckSchema \/ StageStops \/ SkipHook \/ RefuseKey \/ CallHook
  <2>1. /\ UNCHANGED <<attempt, open, trace>>
        /\ \/ pc = "begin" /\ pc' = "returned"
           \/ pc \in {"schema", "stage"} /\ pc' \in {"stage", "hook", "loop", "finish"}
    BY <1>1, ZenonT(20)
       DEF BeginStops, CheckSchema, StageStops, SkipHook, RefuseKey, CallHook, NextStage,
       Return, PrepareFrame, traceVars
  <2> QED BY <2>1, QuietEvents, SMT DEF Quiet, PCs
<1>2. CASE \/ AbandonHook \/ AbandonedReturns \/ HookedStops \/ HookedFails \/ ProviderFails
           \/ ProviderFailed \/ HookedOK
  <2>1. /\ UNCHANGED <<attempt, open, trace>>
        /\ \/ pc \in {"hook", "entropy", "sleep"} /\ pc' = "abandoned"
           \/ pc = "abandoned" /\ pc' = "finish"
           \/ pc \in {"hooked", "unprovided"} /\ pc' \in {"stage", "unprovided", "loop", "finish"}
    BY <1>2, ZenonT(20) DEF AbandonHook, AbandonedReturns, HookedStops, HookedFails, ProviderFails,
       ProviderFailed, HookedOK, NextStage, Return, PrepareFrame, traceVars
  <2> QED BY <2>1, QuietEvents, SMT DEF Quiet, PCs
<1>3. CASE \/ LoopStops \/ CallTransport \/ ReceiveOutcome \/ AbandonAttempt \/ TimedOutRetries
           \/ AttemptExpires
  <2>1. /\ UNCHANGED <<attempt, open, trace>>
        /\ \/ pc = "loop" /\ pc' = "finish"
           \/ pc \in InProgress /\ pc' \in InProgress
    BY <1>3, ZenonT(20)
       DEF LoopStops, CallTransport, ReceiveOutcome, AbandonAttempt, TimedOutRetries,
       AttemptExpires, SelectFrame, Return, PrepareFrame, traceVars
  <2> QED BY <2>1, QuietEvents, SMT DEF Quiet, PCs
<1>4. CASE BackoffFails \/ SampleEntropy \/ WallClockFailed \/ SleepStops \/ SleepEnds \/ HookStep
  <2>1. /\ UNCHANGED <<attempt, open, trace>>
        /\ \/ pc = "hook" /\ pc' = "hooked"
           \/ pc \in Delaying /\ pc' \in Delaying \cup {"finish"}
           \/ pc \in Sleeping /\ pc' \in Sleeping \cup {"loop", "finish"}
    BY <1>4, ZenonT(20)
       DEF BackoffFails, SampleEntropy, WallClockFailed, SleepStops, SleepEnds, HookStep,
       HookReturns, EntropyReturns, SchedulerReturns, Return, PrepareFrame, traceVars
  <2> QED BY <2>1, QuietEvents, SMT DEF Quiet, PCs
<1>5. CASE TransportStep \/ ContextChanges \/ UNCHANGED vars
  BY QuietEvents, <1>5, Zenon
     DEF Quiet, TransportStep, TransportWrites, MarkCommitted, TransportReturns, DropOutcome,
         TransportFrame, ContextChanges, vars, traceVars
<1> QED BY <1>1, <1>2, <1>3, <1>4, <1>5, Zenon

\* An event that may follow the last one keeps the events in order, and is then the last.
LEMMA OneMore ==
  ASSUME NEW events \in Seq(EventKinds \X (0..MaxAttempts)), Ordered(events),
         NEW e \in EventKinds \X (0..MaxAttempts),
         IF events = <<>> THEN e = <<"operation.start", 0>> ELSE Follows(events[Len(events)], e)
  PROVE  LET more == Append(events, e)
         IN /\ Ordered(more) /\ more # <<>> /\ more[Len(more)] = e
            /\ more \in Seq(EventKinds \X (0..MaxAttempts))
<1> DEFINE more == Append(events, e)
<1>1. /\ more \in Seq(EventKinds \X (0..MaxAttempts)) /\ Len(more) = Len(events) + 1
      /\ more[Len(more)] = e /\ \A i \in 1..Len(events) : more[i] = events[i]
  OBVIOUS
<1>2. Len(events) \in Nat /\ (events = <<>> <=> Len(events) = 0) /\ more # <<>>
  BY <1>1
<1> HIDE DEF more
<1>3. \A i \in 1..(Len(more) - 1) : Follows(more[i], more[i + 1])
  <2> SUFFICES ASSUME NEW i \in 1..(Len(more) - 1) PROVE Follows(more[i], more[i + 1])
    BY Zenon
  <2>1. CASE i = Len(events)
    BY <1>1, <1>2, <2>1, SMTT(30)
  <2>2. CASE i # Len(events)
    <3>1. i \in 1..(Len(events) - 1) /\ i \in 1..Len(events) /\ i + 1 \in 1..Len(events)
      BY <2>2, <1>1, <1>2
    <3> QED BY <3>1, <1>1, Zenon DEF Ordered
  <2> QED BY <2>1, <2>2
<1>4. more[1] = <<"operation.start", 0>>
  <2>1. CASE events = <<>>
    BY <2>1, <1>1, <1>2
  <2>2. CASE events # <<>>
    <3>1. 1 \in 1..Len(events)
      BY <2>2, <1>2
    <3> QED BY <2>2, <3>1, <1>1, Zenon DEF Ordered
  <2> QED BY <2>1, <2>2
<1> QED BY <1>1, <1>2, <1>3, <1>4, Zenon DEF Ordered, more

\* The steps that report an event outside of finish: the one that is due.
LEMMA ReportingEvents ==
  ASSUME TypeOK, attempt' \in 0..MaxAttempts, OperationShape, EventShape,
         \/ startObservability \/ startAttempt \/ TimedOutStops \/ JudgeMalformed \/ JudgeSuccess
         \/ JudgeStops \/ JudgeFinal \/ JudgeRetry \/ ScheduleRetry
  PROVE  EventShape'
<1>1. trace \in Seq(EventKinds \X (0..MaxAttempts)) /\ attempt \in 0..MaxAttempts /\ Ordered(trace)
  BY Zenon DEF TypeOK, EventShape, EventsInOrder
<1>2. CASE startObservability
  <2>1. /\ trace = <<>> /\ attempt = 0 /\ attempt' = 0 /\ ~open /\ open' = open /\ pc' = "schema"
        /\ trace' = Append(trace, <<"operation.start", 0>>)
    BY <1>2, SMT DEF startObservability, EventShape, OperationShape, Event, Preparing, InProgress
  <2>2. Ordered(trace') /\ trace' # <<>> /\ trace'[Len(trace')] = <<"operation.start", 0>>
    BY <1>1, <2>1, OneMore, ZenonT(30) DEF EventKinds
  <2> QED BY <2>1, <2>2, SMTT(30)
             DEF EventShape, EventsInOrder, InProgress, BackingOff, LastReport, Preparing
<1>3. CASE startAttempt
  <2> DEFINE e == <<"attempt.start", attempt + 1>>
  <2>1. /\ trace # <<>> /\ attempt' = attempt + 1 /\ open' = TRUE /\ pc' = "started" /\ pc = "loop"
        /\ trace' = Append(trace, e)
    BY <1>3, Zenon DEF startAttempt, EventShape
  <2>2. Follows(trace[Len(trace)], e)
    BY <1>1, <2>1 DEF Follows, EventShape, LastReport, Preparing
  <2>3. e \in EventKinds \X (0..MaxAttempts)
    BY <2>1 DEF EventKinds
  <2>4. Ordered(trace') /\ trace' # <<>> /\ trace'[Len(trace')] = e
    <3> HIDE DEF e
    <3> QED BY <1>1, <2>1, <2>2, <2>3, OneMore, Zenon
  <2> QED BY <2>1, <2>4, SMT, Zenon
             DEF EventShape, EventsInOrder, InProgress, BackingOff, LastReport, Preparing
<1>4. CASE \/ TimedOutStops \/ JudgeMalformed \/ JudgeSuccess \/ JudgeStops \/ JudgeFinal \/ JudgeRetry
  <2> DEFINE e == <<"attempt.end", attempt>>
  <2>1. /\ pc \in {"timedOut", "outcome"} /\ pc' \in {"finish", "backoff"} /\ attempt' = attempt
        /\ open' = FALSE /\ trace' = Append(trace, e)
    BY <1>4, Zenon DEF TimedOutStops, JudgeMalformed, JudgeSuccess, JudgeStops, JudgeFinal,
       JudgeRetry, Judge, endAttempt, Return, Event
  <2>2. trace # <<>> /\ trace[Len(trace)] = <<"attempt.start", attempt>> /\ attempt > 0
    BY <2>1, SMT DEF EventShape, OperationShape, LastReport, Preparing, InProgress
  <2>3. Follows(trace[Len(trace)], e)
    BY <2>2 DEF Follows
  <2>4. e \in EventKinds \X (0..MaxAttempts)
    BY <1>1 DEF EventKinds
  <2>5. Ordered(trace') /\ trace' # <<>> /\ trace'[Len(trace')] = e
    <3> HIDE DEF e
    <3> QED BY <1>1, <2>1, <2>2, <2>3, <2>4, OneMore, Zenon
  <2> QED BY <2>1, <2>2, <2>5, SMT
             DEF EventShape, EventsInOrder, InProgress, BackingOff, LastReport, Preparing
<1>5. CASE ScheduleRetry
  <2> DEFINE e == <<"retry.delay", attempt>>
  <2>1. /\ pc = "delay" /\ pc' = "sleep" /\ attempt' = attempt /\ open' = open
        /\ trace' = Append(trace, e)
    BY <1>5, Zenon DEF ScheduleRetry, Event
  <2>2. trace # <<>> /\ trace[Len(trace)] = <<"attempt.end", attempt>> /\ attempt > 0 /\ ~open
    BY <2>1, SMT DEF EventShape, LastReport, Preparing, InProgress, BackingOff
  <2>3. Follows(trace[Len(trace)], e)
    BY <2>2 DEF Follows
  <2>4. e \in EventKinds \X (0..MaxAttempts)
    BY <1>1 DEF EventKinds
  <2>5. Ordered(trace') /\ trace' # <<>> /\ trace'[Len(trace')] = e
    <3> HIDE DEF e
    <3> QED BY <1>1, <2>1, <2>2, <2>3, <2>4, OneMore, Zenon
  <2> QED BY <2>1, <2>2, <2>5, SMT
             DEF EventShape, EventsInOrder, InProgress, BackingOff, LastReport, Preparing
<1> QED BY <1>2, <1>3, <1>4, <1>5, Zenon

\* finish finds no open attempt: it reports a cancellation, perhaps, and the end.
LEMMA FinishEvents ==
  ASSUME TypeOK, EventShape, finish
  PROVE  EventShape'
<1> DEFINE cancel == <<"operation.cancel", attempt>>
           end == <<"operation.end", attempt>>
           E == EventKinds \X (0..MaxAttempts)
<1>1. /\ trace \in Seq(E) /\ Ordered(trace) /\ trace # <<>> /\ ~open
      /\ trace[Len(trace)][1] \in {"operation.start", "attempt.end", "retry.delay"}
  BY SMT, Zenon DEF TypeOK, EventShape, EventsInOrder, InProgress, finish, LastReport, Preparing
<1>2. cancel \in E /\ end \in E
  BY Zenon DEF TypeOK, EventKinds
<1>3. Follows(trace[Len(trace)], cancel) /\ Follows(trace[Len(trace)], end) /\ Follows(cancel, end)
  BY <1>1 DEF Follows
<1>4. trace' = Append(trace, end) \/ trace' = Append(Append(trace, cancel), end)
  <2>1. \A t \in Seq(E) : \A a, b \in E :
          /\ t \o <<>> \o <<>> \o <<b>> = Append(t, b)
          /\ t \o <<>> \o <<a>> \o <<b>> = Append(Append(t, a), b)
    OBVIOUS
  <2>2. \/ trace' = trace \o <<>> \o <<>> \o <<end>>
        \/ trace' = trace \o <<>> \o <<cancel>> \o <<end>>
    BY <1>1, Zenon DEF finish, Event
  <2> HIDE DEF cancel, end, E
  <2> QED BY <1>1, <1>2, <2>1, <2>2, Zenon
<1>5. Ordered(trace') /\ trace'[Len(trace')] = end
  <2> HIDE DEF cancel, end
  <2>1. CASE trace' = Append(trace, end)
    BY <1>1, <1>2, <1>3, <2>1, OneMore, Zenon
  <2>2. CASE trace' = Append(Append(trace, cancel), end)
    <3> DEFINE t == Append(trace, cancel)
    <3>1. t \in Seq(E) /\ Ordered(t) /\ t # <<>> /\ t[Len(t)] = cancel
      BY <1>1, <1>2, <1>3, OneMore, Zenon
    <3> HIDE DEF t
    <3> QED BY <3>1, <1>2, <1>3, OneMore, <2>2, ZenonT(30) DEF t
  <2> QED BY <1>4, <2>1, <2>2
<1>6. pc' = "returned" /\ open' = FALSE
  BY Zenon DEF finish
<1>7. trace'[Len(trace')][1] = "operation.end"
  BY <1>5
<1> HIDE DEF cancel, end, E
<1> QED BY <1>5, <1>6, <1>7, SMTT(30) DEF EventShape, EventsInOrder, InProgress, BackingOff

\* The events are as they have to be at the start, and after every step.
LEMMA EventsStep ==
  /\ Init => EventShape
  /\ LoopInv /\ LoopInv' /\ EventShape /\ [Next]_vars => EventShape'
<1>1. ASSUME LoopInv, LoopInv', EventShape, [Next]_vars PROVE EventShape'
  BY <1>1, QuietSteps, ReportingEvents, FinishEvents, ZenonT(20)
     DEF Next, OwnStep, Finished, LoopInv, TypeOK
<1> QED BY <1>1 DEF Init, EventShape, EventsInOrder, Ordered, InProgress, BackingOff
-----------------------------------------------------------------------------
(* What it gives                                                           *)

\* The retry loop's invariant holds for every number of attempts: committed stands for a
\* committed attempt that was not refused, the attempt in progress apart, a transport call
\* runs only while it is waited for or after the deadline, and the event reported last fits
\* the place in the loop.
THEOREM Invariance == Spec => []Inv
<1>1. Init => Inv
  BY Initially, EventsStep DEF Inv
<1>2. Inv /\ [Next]_vars => Inv'
  BY Stepping, EventsStep DEF Inv
<1> QED BY <1>1, <1>2, PTL DEF Spec

\* What Send returns about delivery is right on every path, however often it retries: the
\* commitment floor survives, NOT_SENT is true, doubt has a reason, a success is not lost
\* and no error is nil (operation.go's sendAdmitted and backoff).
THEOREM HonestDelivery == Spec => []DeliveryIsHonest
<1>1. Inv => DeliveryIsHonest
  BY DEF Inv, LoopInv
<1> QED BY Invariance, <1>1, PTL

\* sendAdmitted never starts an attempt, judges one or waits for the next while a call of
\* the transport is running.
THEOREM NoOverlap == Spec => []AttemptsDoNotOverlap
<1>1. Inv => AttemptsDoNotOverlap
  BY DEF Inv, LoopInv, TransportShape, AttemptsDoNotOverlap, Done
<1> QED BY Invariance, <1>1, PTL

\* The observer of an operation sees operation.start first, its attempts one by one and
\* each ended, a retry delay only between two of them, and operation.end last, whichever
\* way sendAdmitted returns (telemetry.go's operationObservability).
THEOREM EventsOrdered == Spec => []EventsInOrder
<1>1. Inv => EventsInOrder
  BY DEF Inv, EventShape
<1> QED BY Invariance, <1>1, PTL
=============================================================================
