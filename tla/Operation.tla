----------------------------- MODULE Operation -----------------------------
(***************************************************************************)
(* One admitted operation: Runtime.sendAdmitted and backoff with the hooks *)
(* they call, the attempt loop, the classification of an attempt and the   *)
(* commitment floor (operation.go, operation_response.go), and the events  *)
(* it reports (telemetry.go).                                              *)
(*                                                                         *)
(* Around it: the deadline context, the caller's context, the runtime's    *)
(* context and the monotonic clock, which change at any time, and the      *)
(* goroutine that runs Transport.Send, which the operation may abandon at  *)
(* its deadline and which then goes on by itself.                          *)
(*                                                                         *)
(* A call of preAttemptTerminal is one step.  Two such calls with nothing  *)
(* between them are one check.  The permit is in Admission.                *)
(***************************************************************************)
EXTENDS Naturals, Sequences, FiniteSets, Transport

CONSTANTS
  MaxAttempts            \* config.maxAttempts

ASSUME OperationAssumption ==
  MaxAttempts \in Nat \ {0}

VARIABLES
  pc,                    \* where sendAdmitted or backoff is
  stage,                 \* index of the hook it is at
  attempt,               \* number of the attempt last started
  committed,             \* the commitment floor
  last,                  \* delivery state of the error that is being retried
  result,                \* what Send returns
  open, trace,           \* observability.attemptNumber # 0; the events emitted
  deadline,              \* deadlineContext.Err() # nil
  late,                  \* the monotonic clock reached exclusiveDeadline
  closed,                \* runtime context cancelled
  caller,                \* the caller's context: "live", "cancelled", "expired"
  tPC, tracker, offer,   \* the transport's goroutine, its CommitTracker and outcome
  outcome,               \* the outcome the operation judges
  wire, marked,          \* history: attempts that wrote request bytes; that were
                         \* marked committed before the operation had its result
  cleared, doubtful,     \* history: attempts answered by a refusal; ambiguously
  disowned               \* history: attempts that failed with a pre-commit code

floorVars     == <<committed, last>>
traceVars     == <<open, trace>>
contextVars   == <<deadline, late, closed, caller>>
transportVars == <<tPC, tracker, offer>>
answerVars    == <<cleared, doubtful, disowned>>
writeVars     == <<wire, marked>>
vars == <<pc, stage, attempt, floorVars, result, traceVars, contextVars,
          transportVars, outcome, writeVars, answerVars>>

Hooks == <<"apiKey", "idempotencyKey", "now", "serialize", "marshal">>

RetryableCodes == {"DNS", "CONNECT", "IO", "ATTEMPT_TIMEOUT", "PROXY"}

Deliveries == {"NOT_SENT", "POSSIBLY_SENT", "ACCEPTED", "REJECTED", "CANCELLED_UNKNOWN"}
ErrorCodes ==
  FailureCodes \cup {"CLOSED", "VALIDATION", "SERIALIZATION", "REQUEST_TOO_LARGE",
    "OPERATION_DEADLINE", "RATE_LIMITED", "HTTP_REJECTED", "SERVER_FAILURE",
    "RESPONSE_TOO_LARGE", "RESPONSE_PROTOCOL", "DESCRIPTOR_VERSION"}
Err(code, delivery) == [code |-> code, delivery |-> delivery]
Accepted == Err("none", "ACCEPTED")
None     == Err("none", "none")        \* no error, and no result yet
NilError == Err("nil", "nil")          \* a nil *Error returned as an error

PCs ==
  {"begin", "schema", "stage",
   "hook", "hooked",         \* in boundedPermitCall; it completed
   "unprovided",             \* the API key provider failed
   "abandoned",              \* it did not complete: the terminal check is next
   "loop", "started",
   "calling",                \* in the outer select of boundedAttemptCall
   "late",                   \* in the inner one, after the attempt deadline
   "timedOut",               \* the attempt did not complete
   "outcome",                \* an outcome is to be judged
   "backoff", "entropy", "delay", "sleep", "slept", "sleepFailed",
   "finish", "returned"}

EventKinds == {"operation.start", "attempt.start", "attempt.end", "retry.delay",
               "operation.cancel", "operation.end"}
Event(kind) == <<kind, attempt>>

TypeOK ==
  /\ pc \in PCs /\ stage \in 1..Len(Hooks)
  /\ attempt \in 0..MaxAttempts
  /\ committed \in BOOLEAN /\ last \in Deliveries
  /\ result \in [code : ErrorCodes \cup {"none", "nil"},
                 delivery : Deliveries \cup {"none", "nil"}]
  /\ open \in BOOLEAN /\ trace \in Seq(EventKinds \X (0..MaxAttempts))
  /\ deadline \in BOOLEAN /\ late \in BOOLEAN /\ closed \in BOOLEAN
  /\ caller \in {"live", "cancelled", "expired"}
  /\ tPC \in {"idle", "send", "wrote", "marked", "offer"} /\ tracker \in BOOLEAN
  /\ offer \in Outcomes \cup {Nothing} /\ outcome \in Outcomes \cup {Nothing}
  /\ wire \subseteq 1..MaxAttempts /\ marked \subseteq 1..MaxAttempts
  /\ cleared \subseteq 1..MaxAttempts /\ doubtful \subseteq 1..MaxAttempts
  /\ disowned \subseteq 1..MaxAttempts

Init ==
  /\ pc = "begin" /\ stage = 1 /\ attempt = 0
  /\ committed = FALSE /\ last = "NOT_SENT" /\ result = None
  /\ open = FALSE /\ trace = <<>>
  /\ deadline = FALSE /\ late = FALSE /\ closed = FALSE /\ caller = "live"
  /\ tPC = "idle" /\ tracker = FALSE /\ offer = Nothing /\ outcome = Nothing
  /\ wire = {} /\ marked = {} /\ cleared = {} /\ doubtful = {} /\ disowned = {}
-----------------------------------------------------------------------------
(* Terminal checks                                                         *)

deliveryForCommit(sent) == IF sent THEN "POSSIBLY_SENT" ELSE "NOT_SENT"
deliveryForCancel(sent) == IF sent THEN "CANCELLED_UNKNOWN" ELSE "NOT_SENT"

operationDeadlineError(sent) == Err("OPERATION_DEADLINE", deliveryForCommit(sent))

\* What the clock says: it may panic, being the caller's code.
ClockTerminal(sent) ==
  {Err("CONFIGURATION", deliveryForCommit(sent)),
   IF late THEN operationDeadlineError(sent) ELSE None}

\* Seeded fault: the deadline is looked up on the monotonic clock only.
TerminalByClock(sent) ==
  IF caller = "expired" THEN {operationDeadlineError(sent)}
  ELSE IF closed THEN {Err("CLOSED", deliveryForCancel(sent))}
  ELSE IF caller = "cancelled" THEN {Err("CANCELLED", deliveryForCancel(sent))}
  ELSE ClockTerminal(sent)

\* The results preAttemptTerminal can have.  The operation's own context is done
\* only when one of the contexts named here is.
preAttemptTerminal(sent) ==
  IF deadline \/ caller = "expired" THEN {operationDeadlineError(sent)}
  ELSE IF closed THEN {Err("CLOSED", deliveryForCancel(sent))}
  ELSE IF caller = "cancelled" THEN {Err("CANCELLED", deliveryForCancel(sent))}
  ELSE ClockTerminal(sent)

deadlineTerminal(sent) ==
  IF deadline THEN {operationDeadlineError(sent)} ELSE ClockTerminal(sent)

Passes(sent) == None \in preAttemptTerminal(sent)
Stops(sent)  == preAttemptTerminal(sent) \ {None}

\* sendAdmitted returns; the deferred finish comes next.
Return(err) == pc' = "finish" /\ result' = err
-----------------------------------------------------------------------------
(* Before the attempts                                                     *)

\* The first check comes before startObservability: nothing is reported.
BeginStops ==
  /\ pc = "begin"
  /\ \E t \in Stops(FALSE) : result' = t
  /\ pc' = "returned"
  /\ UNCHANGED <<stage, attempt, floorVars, traceVars, contextVars, transportVars,
                 outcome, writeVars, answerVars>>

startObservability ==
  /\ pc = "begin" /\ Passes(FALSE)
  /\ pc' = "schema"
  /\ trace' = Append(trace, Event("operation.start"))
  /\ UNCHANGED <<stage, attempt, floorVars, result, open, contextVars, transportVars,
                 outcome, writeVars, answerVars>>

\* What the steps before the attempt loop leave alone.
PrepareFrame ==
  UNCHANGED <<attempt, floorVars, traceVars, contextVars, transportVars, outcome,
              writeVars, answerVars>>

CheckSchema ==
  /\ pc = "schema"
  /\ \/ pc' = "stage" /\ UNCHANGED result
     \/ \E code \in {"DESCRIPTOR_VERSION", "CONFIGURATION"} : Return(Err(code, "NOT_SENT"))
  /\ UNCHANGED stage
  /\ PrepareFrame

Hook == Hooks[stage]

\* On to the next hook, or to the attempts.
NextStage ==
  /\ IF stage < Len(Hooks) THEN pc' = "stage" /\ stage' = stage + 1
                           ELSE pc' = "loop" /\ UNCHANGED stage
  /\ UNCHANGED result

StageStops ==
  /\ pc = "stage"
  /\ \E t \in Stops(FALSE) : Return(t)
  /\ UNCHANGED stage
  /\ PrepareFrame

\* No provider is configured, or the caller gave an idempotency key: there is
\* nothing to call, but the key may be missing or invalid.
SkipHook ==
  /\ pc = "stage" /\ Passes(FALSE)
  /\ Hook \in {"apiKey", "idempotencyKey"}
  /\ NextStage
  /\ PrepareFrame

RefuseKey ==
  /\ pc = "stage" /\ UNCHANGED stage
  /\ \/ Hook = "apiKey" /\ Return(Err("CONFIGURATION", "NOT_SENT"))
     \/ Hook = "idempotencyKey" /\ Passes(FALSE) /\ Return(Err("VALIDATION", "NOT_SENT"))
  /\ PrepareFrame

\* boundedPermitCall.
CallHook ==
  /\ pc = "stage" /\ Passes(FALSE)
  /\ pc' = "hook"
  /\ UNCHANGED <<stage, result>>
  /\ PrepareFrame

\* The caller's hook returns or panics; nothing obliges it to.
HookReturns ==
  /\ pc = "hook"
  /\ pc' = "hooked"
  /\ UNCHANGED <<stage, result>>
  /\ PrepareFrame

\* Seeded fault: a hook is waited for without a bound.
NeverAbandon == FALSE

\* The deadline branch of the select, for the hooks, the retry entropy and a
\* scheduler that is not the built-in one.
AbandonHook ==
  /\ pc \in {"hook", "entropy", "sleep"} /\ deadline
  /\ pc' = "abandoned"
  /\ UNCHANGED <<stage, result>>
  /\ PrepareFrame

\* Not completed: return what preAttemptTerminal says, whatever it says.
AbandonedReturns ==
  /\ pc = "abandoned"
  /\ \E t \in preAttemptTerminal(committed) : Return(IF t = None THEN NilError ELSE t)
  /\ UNCHANGED stage
  /\ PrepareFrame

HookedStops ==
  /\ pc = "hooked"
  /\ \E t \in Stops(FALSE) : Return(t)
  /\ UNCHANGED stage
  /\ PrepareFrame

\* The errors a hook's own result can lead to.
HookFaults(hook) ==
  CASE hook = "serialize" -> {"CONFIGURATION", "VALIDATION"}
    [] hook = "marshal"   -> {"SERIALIZATION", "REQUEST_TOO_LARGE"}
    [] OTHER              -> {"CONFIGURATION"}

HookedFails ==
  /\ pc = "hooked" /\ Passes(FALSE)
  /\ \E code \in HookFaults(Hook) : Return(Err(code, "NOT_SENT"))
  /\ UNCHANGED stage
  /\ PrepareFrame

\* A failed API key provider is a cancellation if the operation's context, read
\* after the check, is done: by cancellation, Close or the deadline.
ProviderFails ==
  /\ pc = "hooked" /\ Hook = "apiKey" /\ Passes(FALSE)
  /\ pc' = "unprovided"
  /\ UNCHANGED <<stage, result>>
  /\ PrepareFrame

ProviderFailed ==
  /\ pc = "unprovided"
  /\ \/ Return(Err("CONFIGURATION", "NOT_SENT"))
     \/ /\ deadline \/ closed \/ caller = "cancelled"
        /\ Return(Err("CANCELLED", "NOT_SENT"))
  /\ UNCHANGED stage
  /\ PrepareFrame

\* After the last hook the permit is shrunk to the body (Admission).
HookedOK ==
  /\ pc = "hooked" /\ Passes(FALSE)
  /\ NextStage
  /\ PrepareFrame
-----------------------------------------------------------------------------
(* The transport's goroutine.  Transport is an interface; the built-in one  *)
(* marks the tracker right after the first body byte was written, over      *)
(* HTTP/2 right before: a marked attempt counts as written.                *)

TransportFrame ==
  UNCHANGED <<pc, stage, attempt, floorVars, result, traceVars, contextVars, outcome,
              answerVars>>

TransportWrites ==
  /\ tPC = "send"
  /\ tPC' = "wrote"
  /\ wire' = wire \cup {attempt}
  /\ UNCHANGED <<tracker, offer, marked>>
  /\ TransportFrame

MarkCommitted ==
  /\ tPC = "wrote"
  /\ tPC' = "marked" /\ tracker' = TRUE
  /\ marked' = IF result = None THEN marked \cup {attempt} ELSE marked
  /\ UNCHANGED <<offer, wire>>
  /\ TransportFrame

\* A panic gives the empty outcome, which is malformed.
TransportReturns ==
  /\ \/ tPC = "send" /\ offer' \in Responses \cup {Malformed} \cup Unwritten
     \/ tPC = "marked" /\ offer' \in Responses \cup {Malformed} \cup AfterWrite
  /\ tPC' = "offer"
  /\ UNCHANGED <<tracker, writeVars>>
  /\ TransportFrame

\* The goroutine that boundedAttemptCall left behind takes the outcome.
DropOutcome ==
  /\ tPC = "offer" /\ pc \notin {"calling", "late"}
  /\ tPC' = "idle" /\ offer' = Nothing
  /\ UNCHANGED <<tracker, writeVars>>
  /\ TransportFrame
-----------------------------------------------------------------------------
(* The attempt loop                                                        *)

LoopStops ==
  /\ pc = "loop"
  /\ \E t \in Stops(committed) : Return(t)
  /\ UNCHANGED stage
  /\ PrepareFrame

startAttempt ==
  /\ pc = "loop" /\ Passes(committed)
  /\ attempt' = attempt + 1
  /\ open' = TRUE /\ trace' = Append(trace, <<"attempt.start", attempt'>>)
  /\ pc' = "started"
  /\ tracker' = FALSE /\ outcome' = Nothing
  /\ UNCHANGED <<stage, floorVars, result, contextVars, tPC, offer, writeVars, answerVars>>

\* boundedAttemptCall starts the goroutine, unless the deadline has passed.
CallTransport ==
  /\ pc = "started"
  /\ IF deadline THEN pc' = "timedOut" /\ UNCHANGED tPC
                 ELSE pc' = "calling" /\ tPC' = "send"
  /\ UNCHANGED <<stage, attempt, floorVars, result, traceVars, contextVars, tracker,
                 offer, outcome, writeVars, answerVars>>

\* What the selects of boundedAttemptCall leave alone.
SelectFrame ==
  UNCHANGED <<stage, attempt, floorVars, result, traceVars, contextVars, tracker,
              writeVars, answerVars>>

\* Seeded fault: the attempt is over at its deadline, whatever the transport does.
TimeOutAtOnce ==
  /\ pc = "calling"
  /\ pc' = "timedOut" /\ outcome' = Nothing
  /\ UNCHANGED <<tPC, offer>>
  /\ SelectFrame

AttemptExpires ==
  /\ pc = "calling"
  /\ pc' = "late"
  /\ UNCHANGED <<tPC, offer, outcome>>
  /\ SelectFrame

\* The outcome arrives; the attempt deadline, read afterwards, has passed or not.
ReceiveOutcome ==
  /\ tPC = "offer"
  /\ tPC' = "idle" /\ offer' = Nothing
  /\ \/ pc = "calling" /\ pc' = "outcome" /\ outcome' = offer
     \/ pc \in {"calling", "late"} /\ pc' = "timedOut" /\ outcome' = Nothing
  /\ SelectFrame

AbandonAttempt ==
  /\ pc \in {"calling", "late"} /\ deadline
  /\ pc' = "timedOut" /\ outcome' = Nothing
  /\ UNCHANGED <<tPC, offer>>
  /\ SelectFrame
-----------------------------------------------------------------------------
(* Judging an outcome                                                      *)

responseMayHaveBeenAccepted(status) == status \in {"2xx", "409", "5xx"}

IsSuccess(o) == o.kind = "response" /\ o.status = "2xx" /\ o.fault = "none"

\* The floor after this attempt.
Floor(o) ==
  committed \/ CASE o.kind = "response" -> responseMayHaveBeenAccepted(o.status)
                 [] o.kind = "failure"  -> (tracker \/ o.sent) /\ o.code \notin PreCommitCodes
                 [] OTHER               -> tracker

\* The error of this attempt: an answer that settles only this attempt leaves
\* the doubt about an earlier one; classifyAttemptFailure.
AttemptVerdict(o) ==
  IF o.kind = "response"
  THEN LET v == ResponseVerdict(o) IN
       [v EXCEPT !.delivery =
          IF committed /\ (v.code = "PROXY" \/ @ = "REJECTED") THEN "POSSIBLY_SENT" ELSE @]
  ELSE Verdict(o.code, deliveryForCommit(Floor(o) \/ o.sent), o.code \in RetryableCodes)

\* Seeded fault: endAttempt forgets to reset attemptNumber.
EndAttemptOnly == open' = open /\ trace' = Append(trace, Event("attempt.end"))

endAttempt == open' = FALSE /\ trace' = Append(trace, Event("attempt.end"))

\* Seeded fault: the tracker of the attempt that is given up is not read.
TimedOutStopsUnread ==
  /\ pc = "timedOut"
  /\ \E t \in Stops(committed) : Return(t)
  /\ endAttempt
  /\ UNCHANGED <<stage, attempt, floorVars, contextVars, transportVars, outcome,
                 writeVars, answerVars>>

TimedOutStops ==
  /\ pc = "timedOut"
  /\ \E t \in Stops(committed \/ tracker) : Return(t)
  /\ endAttempt
  /\ UNCHANGED <<stage, attempt, floorVars, contextVars, transportVars, outcome,
                 writeVars, answerVars>>

TimedOutRetries ==
  /\ pc = "timedOut" /\ Passes(committed \/ tracker)
  /\ outcome' = Failure("ATTEMPT_TIMEOUT", tracker)
  /\ pc' = "outcome"
  /\ UNCHANGED <<stage, attempt, floorVars, result, traceVars, contextVars,
                 transportVars, writeVars, answerVars>>

\* An outcome is judged: the floor rises, the history notes what the answer, if
\* any, proves about the request, and the attempt ends.
Judge ==
  /\ pc = "outcome"
  /\ committed' = Floor(outcome)
  /\ LET refusal == outcome \in Responses /\ outcome.status \in {"3xx4xx", "407", "429"}
         preCommit == outcome \in Failures /\ outcome.code \in PreCommitCodes
         unclear == \/ outcome = Malformed
                    \/ outcome \in Responses /\ (outcome.fault = "timeout" \/ ~refusal)
     IN /\ cleared' = IF refusal THEN cleared \cup {attempt} ELSE cleared
        /\ doubtful' = IF unclear THEN doubtful \cup {attempt} ELSE doubtful
        /\ disowned' = IF preCommit THEN disowned \cup {attempt} ELSE disowned
  /\ endAttempt
  /\ UNCHANGED <<stage, attempt, contextVars, transportVars, outcome, writeVars>>

JudgeMalformed ==
  /\ outcome = Malformed
  /\ Judge
  /\ Return(Err("IO", "POSSIBLY_SENT"))
  /\ UNCHANGED last

\* A completed success wins over a cancellation, not over the deadline.
JudgeSuccess ==
  /\ IsSuccess(outcome)
  /\ Judge
  /\ \E t \in deadlineTerminal(Floor(outcome)) : Return(IF t = None THEN Accepted ELSE t)
  /\ UNCHANGED last

IsError == outcome \in Failures \cup Responses /\ ~IsSuccess(outcome)

JudgeStops ==
  /\ IsError
  /\ Judge
  /\ \E t \in Stops(Floor(outcome)) : Return(t)
  /\ UNCHANGED last

IsFinal == ~AttemptVerdict(outcome).retryable \/ attempt = MaxAttempts

JudgeFinal ==
  /\ IsError /\ IsFinal /\ Passes(Floor(outcome))
  /\ Judge
  /\ LET v == AttemptVerdict(outcome) IN Return(Err(v.code, v.delivery))
  /\ UNCHANGED last

JudgeRetry ==
  /\ IsError /\ ~IsFinal /\ Passes(Floor(outcome))
  /\ Judge
  /\ last' = AttemptVerdict(outcome).delivery
  /\ pc' = "backoff" /\ UNCHANGED result
-----------------------------------------------------------------------------
(* backoff                                                                 *)

\* The clock panics, or less than a millisecond is left.
BackoffFails ==
  /\ pc = "backoff"
  /\ \/ Return(Err("CONFIGURATION", deliveryForCommit(committed)))
     \/ Return(operationDeadlineError(committed))
  /\ UNCHANGED stage
  /\ PrepareFrame

SampleEntropy ==
  /\ pc = "backoff" /\ ~late
  /\ pc' = "entropy"
  /\ UNCHANGED <<stage, result>>
  /\ PrepareFrame

\* The caller's entropy returns a value in range, or a bad one or a panic.
EntropyReturns ==
  /\ pc = "entropy" /\ UNCHANGED stage
  /\ \/ pc' = "delay" /\ UNCHANGED result
     \/ Return(Err("CONFIGURATION", last))
  /\ PrepareFrame

\* A Retry-After date needs the wall clock that was read with the headers.
WallClockFailed ==
  /\ pc = "delay" /\ outcome \in Responses /\ responseStatusRetryable(outcome.status)
  /\ Return(Err("CONFIGURATION", last))
  /\ UNCHANGED stage
  /\ PrepareFrame

ScheduleRetry ==
  /\ pc = "delay"
  /\ trace' = Append(trace, Event("retry.delay"))
  /\ pc' = "sleep"
  /\ UNCHANGED <<stage, attempt, floorVars, result, open, contextVars, transportVars,
                 outcome, writeVars, answerVars>>

SchedulerReturns ==
  /\ pc = "sleep"
  /\ pc' \in {"slept", "sleepFailed"}
  /\ UNCHANGED <<stage, result>>
  /\ PrepareFrame

SleepStops ==
  /\ pc \in {"slept", "sleepFailed"}
  /\ \E t \in Stops(committed) : Return(t)
  /\ UNCHANGED stage
  /\ PrepareFrame

SleepEnds ==
  /\ Passes(committed)
  /\ \/ pc = "slept" /\ pc' = "loop" /\ UNCHANGED result
     \/ pc = "sleepFailed" /\ Return(Err("CONFIGURATION", last))
  /\ UNCHANGED stage
  /\ PrepareFrame
-----------------------------------------------------------------------------
\* The deferred observability.finish: an attempt that is still open ends, and a
\* cancellation that no Close explains is reported before the end.
finish ==
  /\ pc = "finish"
  /\ LET ended  == IF open THEN <<Event("attempt.end")>> ELSE <<>>
         cancel == IF result.code = "CANCELLED" /\ ~closed THEN <<Event("operation.cancel")>>
                   ELSE <<>>
     IN trace' = trace \o ended \o cancel \o <<Event("operation.end")>>
  /\ open' = FALSE
  /\ pc' = "returned"
  /\ UNCHANGED <<stage, attempt, floorVars, result, contextVars, transportVars, outcome,
                 writeVars, answerVars>>

\* The contexts and the clock.
ContextChanges ==
  /\ pc # "returned"
  /\ \/ deadline' = TRUE /\ UNCHANGED <<late, closed, caller>>
     \/ late' = TRUE /\ UNCHANGED <<deadline, closed, caller>>
     \/ closed' = TRUE /\ UNCHANGED <<deadline, late, caller>>
     \/ /\ caller = "live" /\ caller' \in {"cancelled", "expired"}
        /\ UNCHANGED <<deadline, late, closed>>
  /\ UNCHANGED <<pc, stage, attempt, floorVars, result, traceVars, transportVars,
                 outcome, writeVars, answerVars>>

\* The operation's own code, as opposed to what it waits for.
OwnStep ==
  \/ BeginStops \/ startObservability \/ CheckSchema
  \/ StageStops \/ SkipHook \/ RefuseKey \/ CallHook \/ AbandonHook \/ AbandonedReturns
  \/ HookedStops \/ HookedFails \/ ProviderFails \/ ProviderFailed \/ HookedOK
  \/ LoopStops \/ startAttempt \/ CallTransport \/ ReceiveOutcome \/ AbandonAttempt
  \/ TimedOutStops \/ TimedOutRetries
  \/ JudgeMalformed \/ JudgeSuccess \/ JudgeStops \/ JudgeFinal \/ JudgeRetry
  \/ BackoffFails \/ SampleEntropy \/ WallClockFailed \/ ScheduleRetry
  \/ SleepStops \/ SleepEnds \/ finish

HookStep == HookReturns \/ EntropyReturns \/ SchedulerReturns

TransportStep == TransportWrites \/ MarkCommitted \/ TransportReturns \/ DropOutcome

Finished == pc = "returned" /\ tPC = "idle" /\ UNCHANGED vars

Next == OwnStep \/ HookStep \/ TransportStep \/ AttemptExpires \/ ContextChanges \/ Finished

Spec == Init /\ [][Next]_vars

\* Send's goroutine runs.  Nothing is assumed of the hooks, of the scheduler or
\* of the transport.
FairSpec == Spec /\ WF_vars(OwnStep)
-----------------------------------------------------------------------------
(* Properties                                                              *)

Done == pc \in {"finish", "returned"}

\* An error never says NOT_SENT or REJECTED while an attempt that was marked
\* committed went unanswered, or was answered ambiguously: the commitment floor
\* survives every later attempt, hook failure, cancellation and timeout.  The only
\* way to lose it is a pre-commit code for the committed attempt itself, which
\* sendAdmitted believes (LaterFailureKeepsFloor shows what follows).
FloorHolds ==
  Done /\ result.delivery \in {"NOT_SENT", "REJECTED"} => marked \subseteq cleared \cup disowned

\* A pre-commit failure that follows a committed attempt with no refusal for an
\* answer cannot bring the operation back to NOT_SENT.  This is FloorHolds for one
\* error only, in the words of the transport test case on commitment.
LaterFailureKeepsFloor ==
  Done /\ result.code \in PreCommitCodes /\ (\E a \in marked \ cleared : a < attempt)
    => result.delivery = "POSSIBLY_SENT"

\* NOT_SENT is the truth about the wire, too, unless the operation was cut off at
\* its deadline: in every other case it has waited for the transport to return.  Again
\* a pre-commit code for an attempt that wrote is the only exception.
NotSentIsTrue ==
  Done /\ result.delivery = "NOT_SENT" /\ result.code # "OPERATION_DEADLINE"
    => wire \subseteq cleared \cup disowned

\* No needless doubt: POSSIBLY_SENT and CANCELLED_UNKNOWN name an attempt that was
\* committed and not refused, or whose outcome was ambiguous.  A 429 leaves none.
DoubtIsFounded ==
  Done /\ result.delivery \in {"POSSIBLY_SENT", "CANCELLED_UNKNOWN"}
    => (marked \ cleared) \cup doubtful # {}

\* A success that arrived in time is reported as a success, or as POSSIBLY_SENT
\* when the deadline has passed; never as cancelled, closed or not sent.
SuccessStands ==
  Done /\ IsSuccess(outcome) =>
    \/ result = Accepted
    \/ result.code \in {"OPERATION_DEADLINE", "CONFIGURATION"} /\ result.delivery = "POSSIBLY_SENT"

\* No path returns a nil *Error as an error: whoever gives up a call finds the reason
\* again in preAttemptTerminal.
NeverNilError == result # NilError

\* What the caller is told about delivery is neither too little nor too much, on every
\* path out of sendAdmitted: the floor holds, NOT_SENT is true, doubt has a reason, a
\* success is not lost and an error is one.
DeliveryIsHonest == FloorHolds /\ NotSentIsTrue /\ DoubtIsFounded /\ SuccessStands /\ NeverNilError

\* A retry never runs beside the attempt before it: when an attempt is judged, and
\* until the next one starts, no call of the transport is running.
AttemptsDoNotOverlap ==
  pc \in {"outcome", "loop", "started", "backoff", "entropy", "delay", "sleep", "slept"} => tPC = "idle"

\* Which event may follow which.
Follows(a, b) ==
  \/ /\ b = <<"attempt.start", a[2] + 1>>
     /\ a[1] = IF a[2] = 0 THEN "operation.start" ELSE "retry.delay"
  \/ b[1] = "attempt.end" /\ a = <<"attempt.start", b[2]>>
  \/ b[1] = "retry.delay" /\ a = <<"attempt.end", b[2]>>
  \/ b[1] = "operation.cancel" /\ a[1] \in {"operation.start", "attempt.end", "retry.delay"}
  \/ b[1] = "operation.end" /\ a[1] \notin {"attempt.start", "operation.end"}

Ordered(events) ==
  /\ events # <<>> => events[1] = <<"operation.start", 0>>
  /\ \A i \in 1..(Len(events) - 1) : Follows(events[i], events[i + 1])

\* The observer sees operation.start first, attempts one by one and each ended,
\* retry delays only between attempts, and operation.end last, on every path.
EventsInOrder ==
  /\ Ordered(trace)
  /\ pc = "returned" /\ trace # <<>> => trace[Len(trace)][1] = "operation.end"

\* Once its deadline has passed, Send returns, even if the hook, the scheduler or
\* the transport it waits for never does.
DeadlineReturns == deadline ~> pc = "returned"
-----------------------------------------------------------------------------
(* The inductive invariant behind the theorems of OperationProofs          *)

Preparing == {"begin", "schema", "stage", "hook", "hooked", "unprovided"}
InProgress == {"started", "calling", "late", "timedOut", "outcome"}
BackingOff == {"backoff", "entropy", "delay", "sleep", "slept", "sleepFailed"}

\* The attempt whose outcome the floor does not know yet.
Current == IF pc \in InProgress THEN {attempt} ELSE {}

\* The attempts that give reason to doubt.
Reasons == (marked \ cleared) \cup doubtful

\* Where the transport's goroutine can be: it runs only while it is waited for, or after
\* it was abandoned at the deadline, and it says that it sent only what it marked.
TransportShape ==
  /\ tPC # "idle" => \/ pc \in {"calling", "late"}
                     \/ pc = "timedOut" /\ deadline
                     \/ Done /\ result.code = "OPERATION_DEADLINE"
  /\ tPC # "idle" => attempt > 0
  /\ pc \in {"calling", "late"} => tPC # "idle"
  /\ tPC # "offer" => offer = Nothing
  /\ tPC = "offer" => offer \in Outcomes
  /\ tPC = "marked" => tracker
  /\ offer \in Failures /\ offer.sent => tracker

\* Where the operation can be, and what it has in hand there.
OperationShape ==
  /\ Done <=> result # None
  /\ pc = "abandoned" => deadline
  /\ pc \in Preparing => attempt = 0 /\ ~committed
  /\ pc \in InProgress => attempt > 0
  /\ pc \in BackingOff \cup {"loop"} => attempt < MaxAttempts
  /\ pc \in {"started", "calling", "late", "timedOut"} => outcome = Nothing
  /\ pc = "outcome" => outcome \in Outcomes
  /\ outcome \in Failures /\ outcome.sent => tracker
  /\ pc \notin {"outcome", "finish", "returned"} => ~IsSuccess(outcome)
  /\ pc \in BackingOff => last \in {"NOT_SENT", "REJECTED", "POSSIBLY_SENT"}
  /\ pc \in BackingOff /\ last # "POSSIBLY_SENT" => ~committed
  /\ pc \in BackingOff /\ last = "POSSIBLY_SENT" => Reasons # {}

\* What the histories hold until there is a result.
HistoryShape ==
  /\ wire \cup marked \cup cleared \cup doubtful \cup disowned \subseteq 1..attempt
  /\ Current \cap (cleared \cup doubtful \cup disowned) = {}
  /\ result = None =>
       /\ tracker <=> attempt \in marked
       /\ wire \subseteq marked \cup (IF tPC = "wrote" THEN {attempt} ELSE {})
       /\ ~committed => marked \subseteq cleared \cup disowned \cup Current
       /\ committed => Reasons \ Current # {}

\* What was reported last, by where the operation is.
LastReport ==
  {kind \in {"operation.start", "attempt.start", "attempt.end", "retry.delay"} :
     /\ pc \in Preparing => kind = "operation.start"
     /\ pc = "loop" => kind = IF attempt = 0 THEN "operation.start" ELSE "retry.delay"
     /\ kind = "attempt.start" <=> pc \in InProgress
     /\ pc \in {"backoff", "entropy", "delay"} => kind = "attempt.end"
     /\ pc \in {"sleep", "slept", "sleepFailed"} => kind = "retry.delay"}

\* Each place reports what is due there, and an attempt is open while it is in progress.
EventShape ==
  /\ EventsInOrder
  /\ open <=> pc \in InProgress
  /\ pc \in BackingOff => attempt > 0
  /\ pc = "begin" => trace = <<>>
  /\ pc \notin {"begin", "returned"} =>
       trace # <<>> /\ trace[Len(trace)] \in LastReport \X {attempt}

\* The retry loop's invariant: what committed stands for between the attempts, and which
\* calls may still be running.
LoopInv == TypeOK /\ TransportShape /\ OperationShape /\ HistoryShape /\ DeliveryIsHonest

Inv == LoopInv /\ EventShape
=============================================================================
