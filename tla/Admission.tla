------------------------------ MODULE Admission ------------------------------
(***************************************************************************)
(* Admission control and shutdown of a Runtime without an observer:        *)
(* state.go (runtimeState, operationPermit), the admission and release     *)
(* skeleton of Runtime.Send and Runtime.Close (runtime.go), and the calls  *)
(* that an operation runs under its permit, boundedPermitCall and          *)
(* boundedAttemptCall (operation.go).                                      *)
(*                                                                         *)
(* Every mutex-protected section is one step.  finishRelease is two steps, *)
(* because it gives the counters back under runtimeState.mu and calls      *)
(* WaitGroup.Done after unlocking.                                         *)
(*                                                                         *)
(* What an operation does between two calls is modelled in Operation; here *)
(* it may make up to MaxCalls calls and leave at any point in between.     *)
(***************************************************************************)
EXTENDS Saturating, FiniteSets

CONSTANTS
  Ops,               \* the calls of Runtime.Send
  Closers,           \* the calls of Runtime.Close
  MaxInFlight,       \* maxInFlightOperations
  MaxBuffered,       \* maxBufferedBytes
  RequestWorkspace,  \* requestWorkspaceBytes
  OtherWorkspace,    \* responseWorkspaceBytes + parserScratchBytes
  MaxCalls           \* calls under the permit that one operation can make

\* initialOperationReservationBytes
Reservation == RequestWorkspace + OtherWorkspace

\* The limits snapshotConfig accepts: at least one operation, and room for at
\* least one complete reservation.
ASSUME LimitsAssumption ==
  /\ MaxInFlight \in Nat \ {0}
  /\ RequestWorkspace \in Nat \ {0}
  /\ OtherWorkspace \in Nat
  /\ MaxBuffered \in Nat
  /\ Reservation <= MaxBuffered
  /\ MaxCalls \in Nat

\* A process makes finitely many calls.
ASSUME FiniteAssumption == IsFiniteSet(Ops) /\ IsFiniteSet(Closers)

VARIABLES
  inFlight,          \* diagnostics.InFlightOperations
  buffered,          \* diagnostics.BufferedBytes
  concurrencyRejections,
  byteRejections,
  closing,
  closed,            \* diagnostics.Closed; closeDone is closed with it
  wg,                \* counter of the WaitGroup
  sendPC,            \* where each Send is
  callPC,            \* where the call that the Send made last is
  calls,             \* how many calls it made
  expired,           \* deadlineContext.Err() != nil
  activeCalls, releaseRequested, released, heldBytes,  \* operationPermit
  shrunk,            \* shrinkRequest was reached
  releasePC,         \* progress of finishRelease for each permit
  closePC            \* where each Close is

stateVars  == <<inFlight, buffered, concurrencyRejections, byteRejections>>
closeVars  == <<closing, closed, closePC>>
permitVars == <<activeCalls, releaseRequested, released, heldBytes>>
sendVars   == <<sendPC, callPC, calls, expired, shrunk>>
vars == <<stateVars, closeVars, wg, permitVars, sendVars, releasePC>>

SendStates ==
  {"start",       \* deadlineContext exists, admit not entered
   "rejected",    \* admit returned an error, and so does Send
   "running",     \* admitted, between two calls
   "hook",        \* in the select of boundedPermitCall
   "attempt",     \* in a select of boundedAttemptCall
   "leaving",     \* gave a call up; only returning is left
   "finishing",   \* release decided to finalize
   "returned"}

CallStates ==
  {"none",        \* no call, or its result was received
   "hook",        \* the goroutine of boundedPermitCall is in call()
   "result",      \* that goroutine ended; the result is in the channel
   "attempt",     \* the goroutine of boundedAttemptCall is in call()
   "offer"}       \* call() returned; blocked on sending the outcome

ReleaseStates ==
  {"none",        \* released is false
   "subtract",    \* released was set, the counters are not reduced yet
   "signal",      \* the counters are reduced, Done is not called yet
   "done"}

CloseStates ==
  {"start",
   "draining",    \* won beginClose, in waitForOperations
   "drained",     \* before finishClose
   "waiting",     \* lost beginClose, in waitUntilClosed
   "done"}

TypeOK ==
  /\ inFlight \in Nat /\ buffered \in Nat /\ wg \in Nat
  /\ concurrencyRejections \in 0..MaxCounter
  /\ byteRejections \in 0..MaxCounter
  /\ closing \in BOOLEAN /\ closed \in BOOLEAN
  /\ closePC \in [Closers -> CloseStates]
  /\ sendPC \in [Ops -> SendStates]
  /\ callPC \in [Ops -> CallStates]
  /\ calls \in [Ops -> 0..MaxCalls]
  /\ expired \in [Ops -> BOOLEAN]
  /\ shrunk \in [Ops -> BOOLEAN]
  /\ activeCalls \in [Ops -> Nat]
  /\ releaseRequested \in [Ops -> BOOLEAN]
  /\ released \in [Ops -> BOOLEAN]
  /\ heldBytes \in [Ops -> 0..Reservation]
  /\ releasePC \in [Ops -> ReleaseStates]

Init ==
  /\ inFlight = 0 /\ buffered = 0 /\ wg = 0
  /\ concurrencyRejections = 0 /\ byteRejections = 0
  /\ closing = FALSE /\ closed = FALSE
  /\ closePC = [c \in Closers |-> "start"]
  /\ sendPC = [p \in Ops |-> "start"]
  /\ callPC = [p \in Ops |-> "none"]
  /\ calls = [p \in Ops |-> 0]
  /\ expired = [p \in Ops |-> FALSE]
  /\ shrunk = [p \in Ops |-> FALSE]
  /\ activeCalls = [p \in Ops |-> 0]
  /\ releaseRequested = [p \in Ops |-> FALSE]
  /\ released = [p \in Ops |-> FALSE]
  /\ heldBytes = [p \in Ops |-> 0]
  /\ releasePC = [p \in Ops |-> "none"]

SendMoves(p, from, to) ==
  /\ sendPC[p] = from
  /\ sendPC' = [sendPC EXCEPT ![p] = to]
-----------------------------------------------------------------------------
(* Runtime.Send: admission                                                 *)

\* Seeded fault: admission and beginClose look at Closed only.
OpenUntilClosed == ~closed

\* The three checks of admit, in the order of the code.
Open         == ~closing /\ ~closed
HasSlot      == inFlight < MaxInFlight
HasWorkspace == buffered <= MaxBuffered - Reservation

\* admit returns an error: no permit, and Send returns it.
Reject(p) ==
  /\ SendMoves(p, "start", "rejected")
  /\ UNCHANGED <<inFlight, buffered, closeVars, wg, permitVars, callPC, calls,
                 expired, shrunk, releasePC>>

RejectClosed(p) ==
  /\ ~Open
  /\ Reject(p)
  /\ UNCHANGED <<concurrencyRejections, byteRejections>>

RejectConcurrency(p) ==
  /\ Open /\ ~HasSlot
  /\ Reject(p)
  /\ concurrencyRejections' = SaturatingAdd(concurrencyRejections, 1)
  /\ UNCHANGED byteRejections

RejectBytes(p) ==
  /\ Open /\ HasSlot /\ ~HasWorkspace
  /\ Reject(p)
  /\ byteRejections' = SaturatingAdd(byteRejections, 1)
  /\ UNCHANGED concurrencyRejections

\* The deadline passed before admission, or the monotonic clock panicked
\* (the clock is the caller's code, so it may).
RejectDeadlineOrClock(p) ==
  /\ Open /\ HasSlot /\ HasWorkspace
  /\ Reject(p)
  /\ UNCHANGED <<concurrencyRejections, byteRejections>>

Admit(p) ==
  /\ Open /\ HasSlot /\ HasWorkspace
  /\ ~expired[p]
  /\ SendMoves(p, "start", "running")
  /\ inFlight' = inFlight + 1
  /\ buffered' = buffered + Reservation
  /\ wg' = wg + 1
  /\ heldBytes' = [heldBytes EXCEPT ![p] = Reservation]
  /\ UNCHANGED <<concurrencyRejections, byteRejections, closeVars, callPC, calls,
                 expired, shrunk, activeCalls, releaseRequested, released, releasePC>>

\* The timer of operationDeadlineContext fires.
Expire(p) ==
  /\ sendPC[p] \in {"start", "running", "hook", "attempt"}
  /\ ~expired[p]
  /\ expired' = [expired EXCEPT ![p] = TRUE]
  /\ UNCHANGED <<stateVars, closeVars, wg, permitVars, sendPC, callPC, calls,
                 shrunk, releasePC>>

-----------------------------------------------------------------------------
(* Calls under the permit                                                  *)

\* beginCall, reached only when the deadline context was still open.
BeginCall(p, kind) ==
  /\ ~expired[p]
  /\ calls[p] < MaxCalls
  /\ SendMoves(p, "running", kind)
  /\ callPC' = [callPC EXCEPT ![p] = kind]
  /\ calls' = [calls EXCEPT ![p] = @ + 1]
  /\ activeCalls' = [activeCalls EXCEPT ![p] = @ + 1]
  /\ UNCHANGED <<stateVars, closeVars, wg, releaseRequested, released, heldBytes,
                 expired, shrunk, releasePC>>

BeginHook(p) == BeginCall(p, "hook")

\* An attempt needs the request body, whose workspace was shrunk before.
BeginAttempt(p) == shrunk[p] /\ BeginCall(p, "attempt")

\* endCall: the last call of a permit whose release was requested finalizes.
EndCall(p) ==
  LET finalize == activeCalls[p] = 1 /\ releaseRequested[p] /\ ~released[p] IN
  /\ activeCalls' = [activeCalls EXCEPT ![p] = @ - 1]
  /\ released' = [released EXCEPT ![p] = @ \/ finalize]
  /\ releasePC' = [releasePC EXCEPT ![p] = IF finalize THEN "subtract" ELSE @]
  /\ UNCHANGED <<releaseRequested, heldBytes>>

\* The goroutine of boundedPermitCall leaves call(): endCall is deferred, so it
\* runs before the result is put in the buffered channel.
HookEnds(p) ==
  /\ callPC[p] = "hook"
  /\ callPC' = [callPC EXCEPT ![p] = "result"]
  /\ EndCall(p)
  /\ UNCHANGED <<stateVars, closeVars, wg, sendPC, calls, expired, shrunk>>

HookResult(p) ==
  /\ callPC[p] = "result"
  /\ SendMoves(p, "hook", "running")
  /\ callPC' = [callPC EXCEPT ![p] = "none"]
  /\ UNCHANGED <<stateVars, closeVars, wg, permitVars, calls, expired, shrunk, releasePC>>

\* The deadline branch of either select: Send gives the call up, and
\* preAttemptTerminal makes it return.
AbandonCall(p) ==
  /\ expired[p]
  /\ \/ SendMoves(p, "hook", "leaving")
     \/ SendMoves(p, "attempt", "leaving")
  /\ UNCHANGED <<stateVars, closeVars, wg, permitVars, callPC, calls, expired,
                 shrunk, releasePC>>

\* transport.Send returned in the goroutine of boundedAttemptCall.
AttemptEnds(p) ==
  /\ callPC[p] = "attempt"
  /\ callPC' = [callPC EXCEPT ![p] = "offer"]
  /\ UNCHANGED <<stateVars, closeVars, wg, permitVars, sendPC, calls, expired,
                 shrunk, releasePC>>

\* Send receives the outcome (before or after the attempt deadline).
AttemptResult(p) ==
  /\ callPC[p] = "offer"
  /\ SendMoves(p, "attempt", "running")
  /\ callPC' = [callPC EXCEPT ![p] = "none"]
  /\ EndCall(p)
  /\ UNCHANGED <<stateVars, closeVars, wg, calls, expired, shrunk>>

\* The goroutine started on abandonment receives the outcome instead.
AbandonedAttemptEnds(p) ==
  /\ callPC[p] = "offer"
  /\ sendPC[p] \in {"leaving", "finishing", "returned"}
  /\ callPC' = [callPC EXCEPT ![p] = "none"]
  /\ EndCall(p)
  /\ UNCHANGED <<stateVars, closeVars, wg, sendPC, calls, expired, shrunk>>
-----------------------------------------------------------------------------
(* Shrinking and releasing the reservation                                 *)

\* What shrinkRequest(size) gives back: nothing when the size is out of range.
ReleasedBytes(size) ==
  IF size < 0 \/ size >= RequestWorkspace THEN 0 ELSE RequestWorkspace - size

\* Seeded fault: the diagnostics are reduced, the permit's own record is not.
ShrinkCounterOnly(p, size) ==
  /\ sendPC[p] = "running" /\ ~shrunk[p]
  /\ shrunk' = [shrunk EXCEPT ![p] = TRUE]
  /\ buffered' = buffered - ReleasedBytes(size)
  /\ UNCHANGED <<inFlight, concurrencyRejections, byteRejections, closeVars, wg,
                 sendPC, callPC, calls, expired, permitVars, releasePC>>

\* The marshalled body has `size' bytes; at most maxPayloadBytes, which is the
\* size of the request workspace.
ShrinkRequest(p, size) ==
  /\ sendPC[p] = "running" /\ ~shrunk[p]
  /\ shrunk' = [shrunk EXCEPT ![p] = TRUE]
  /\ heldBytes' = [heldBytes EXCEPT ![p] = @ - ReleasedBytes(size)]
  /\ buffered' = buffered - ReleasedBytes(size)
  /\ UNCHANGED <<inFlight, concurrencyRejections, byteRejections, closeVars, wg,
                 sendPC, callPC, calls, expired, activeCalls, releaseRequested,
                 released, releasePC>>

\* The deferred release() of Send.  With a call still running it only records
\* the request, and Send returns.
Release(p) ==
  LET finalize == activeCalls[p] = 0 /\ ~released[p] IN
  /\ sendPC[p] \in {"running", "leaving"}
  /\ releaseRequested' = [releaseRequested EXCEPT ![p] = TRUE]
  /\ released' = [released EXCEPT ![p] = @ \/ finalize]
  /\ releasePC' = [releasePC EXCEPT ![p] = IF finalize THEN "subtract" ELSE @]
  /\ sendPC' = [sendPC EXCEPT ![p] = IF finalize THEN "finishing" ELSE "returned"]
  /\ UNCHANGED <<stateVars, closeVars, wg, activeCalls, heldBytes, callPC, calls,
                 expired, shrunk>>

\* finishRelease under runtimeState.mu, run by Send or by the last call.
SubtractRelease(p) ==
  /\ releasePC[p] = "subtract"
  /\ releasePC' = [releasePC EXCEPT ![p] = "signal"]
  /\ inFlight' = inFlight - 1
  /\ buffered' = buffered - heldBytes[p]
  /\ UNCHANGED <<concurrencyRejections, byteRejections, closeVars, wg, permitVars,
                 sendVars>>

\* wg.Done() of finishRelease.
SignalRelease(p) ==
  /\ releasePC[p] = "signal"
  /\ releasePC' = [releasePC EXCEPT ![p] = "done"]
  /\ wg' = wg - 1
  /\ UNCHANGED <<stateVars, closeVars, permitVars, sendVars>>

\* Send returns after its own finishRelease.
Return(p) ==
  /\ releasePC[p] = "done"
  /\ SendMoves(p, "finishing", "returned")
  /\ UNCHANGED <<stateVars, closeVars, wg, permitVars, callPC, calls, expired,
                 shrunk, releasePC>>

-----------------------------------------------------------------------------
(* Runtime.Close                                                           *)

CloseMoves(c, from, to) ==
  /\ closePC[c] = from
  /\ closePC' = [closePC EXCEPT ![c] = to]
  /\ UNCHANGED <<stateVars, wg, permitVars, sendVars, releasePC>>

\* beginClose returned true; r.cancel() then only prompts operations to leave,
\* which they may do at any time here.
BeginClose(c) ==
  /\ Open
  /\ CloseMoves(c, "start", "draining")
  /\ closing' = TRUE
  /\ UNCHANGED closed

\* beginClose returned false.
LoseClose(c) ==
  /\ ~Open
  /\ CloseMoves(c, "start", "waiting")
  /\ UNCHANGED <<closing, closed>>

\* Seeded fault: Close does not wait for the operations.
WaitForNobody(c) ==
  /\ CloseMoves(c, "draining", "drained")
  /\ UNCHANGED <<closing, closed>>

\* wg.Wait() returned.
WaitForOperations(c) ==
  /\ wg = 0
  /\ CloseMoves(c, "draining", "drained")
  /\ UNCHANGED <<closing, closed>>

FinishClose(c) ==
  /\ CloseMoves(c, "drained", "done")
  /\ closed' = TRUE
  /\ UNCHANGED closing

\* <-closeDone returned.
WaitUntilClosed(c) ==
  /\ closed
  /\ CloseMoves(c, "waiting", "done")
  /\ UNCHANGED <<closing, closed>>
-----------------------------------------------------------------------------
SendStep(p) ==
  \/ RejectClosed(p) \/ RejectConcurrency(p) \/ RejectBytes(p)
  \/ RejectDeadlineOrClock(p) \/ Admit(p)
  \/ BeginHook(p) \/ BeginAttempt(p)
  \/ HookResult(p) \/ AttemptResult(p) \/ AbandonCall(p)
  \/ \E size \in 1..RequestWorkspace : ShrinkRequest(p, size)
  \/ Release(p) \/ Return(p)

\* Steps of the goroutines that outlive a call.
CallStep(p) == HookEnds(p) \/ AttemptEnds(p) \/ AbandonedAttemptEnds(p)

FinishStep(p) == SubtractRelease(p) \/ SignalRelease(p)

CloseStep(c) ==
  \/ BeginClose(c) \/ LoseClose(c) \/ WaitForOperations(c)
  \/ FinishClose(c) \/ WaitUntilClosed(c)

\* Everything was called and everything returned.
Finished ==
  /\ \A p \in Ops : sendPC[p] \in {"rejected", "returned"}
  /\ \A p \in Ops : sendPC[p] = "returned" => releasePC[p] = "done"
  /\ \A c \in Closers : closePC[c] = "done"
  /\ UNCHANGED vars

Next ==
  \/ \E p \in Ops : SendStep(p) \/ Expire(p) \/ CallStep(p) \/ FinishStep(p)
  \/ \E c \in Closers : CloseStep(c)
  \/ Finished

Spec == Init /\ [][Next]_vars
-----------------------------------------------------------------------------
(* Properties                                                              *)

Admitted == {p \in Ops : sendPC[p] \notin {"start", "rejected"}}

\* The permits whose reservation the diagnostics still count.
Holding == {p \in Admitted : releasePC[p] \in {"none", "subtract"}}

\* The permits whose wg.Done() is still to come.
Awaited == {p \in Admitted : releasePC[p] # "done"}

\* One element for every byte a counted permit holds.
HeldUnits == {u \in Ops \X (1..Reservation) :
                u[1] \in Holding /\ u[2] <= heldBytes[u[1]]}

\* The diagnostics are exactly what the outstanding permits hold, however
\* admissions, shrinks, late calls and releases interleave (admit, release,
\* endCall, finishRelease, shrinkRequest): nothing leaks, and nothing is
\* given back twice.
CountersMatchPermits ==
  /\ inFlight = Cardinality(Holding)
  /\ buffered = Cardinality(HeldUnits)

\* The configured limits are never exceeded (admit).
WithinLimits == inFlight <= MaxInFlight /\ buffered <= MaxBuffered

\* No snapshot shows Closed with operations in flight or bytes reserved:
\* finishClose comes after every finishRelease, and nobody is admitted once
\* beginClose has won.
ClosedIsDrained == closed => inFlight = 0 /\ buffered = 0 /\ wg = 0

\* A hook or an attempt that outlives the Send that started it still owns its
\* workspace: the permit is not released under it (release, endCall).
CallKeepsReservation ==
  \A p \in Ops : callPC[p] \in {"hook", "attempt", "offer"} =>
                   ~released[p] /\ p \in Holding

\* A Send that returned while nothing runs under its permit has given the
\* permit up: one of release and endCall finalized (state.go).
ReturnedIsReleased ==
  \A p \in Ops : sendPC[p] = "returned" /\ callPC[p] \in {"none", "result"}
                   => released[p]

\* WaitGroup.Add is never called while a Close is in, or past, wg.Wait(): the
\* reuse that sync.WaitGroup forbids does not happen (admit, beginClose).
NoAddWhileDraining ==
  [][(\E c \in Closers : closePC[c] \in {"draining", "drained"}) => wg' <= wg]_vars
-----------------------------------------------------------------------------
(* The inductive invariant behind the theorems of AdmissionProofs          *)

\* How the places of a Send, of its call and of its release fit together.
PermitShape(p) ==
  /\ sendPC[p] \in {"start", "rejected"} =>
       /\ callPC[p] = "none" /\ ~shrunk[p]
       /\ ~released[p]
  /\ sendPC[p] = "running" => callPC[p] = "none"
  /\ sendPC[p] = "hook" => callPC[p] \in {"hook", "result"}
  /\ sendPC[p] = "attempt" => callPC[p] \in {"attempt", "offer"}
  /\ activeCalls[p] = IF callPC[p] \in {"hook", "attempt", "offer"} THEN 1 ELSE 0
  /\ releaseRequested[p] <=> sendPC[p] \in {"finishing", "returned"}
  /\ released[p] <=> releasePC[p] # "none"
  /\ released[p] => releaseRequested[p] /\ activeCalls[p] = 0
  /\ releaseRequested[p] /\ activeCalls[p] = 0 => released[p]

\* Before the shrink a permit holds a complete reservation.
WorkspaceShape(p) == p \in Admitted /\ ~shrunk[p] => heldBytes[p] = Reservation

\* What a Close that is under way has established.
CloseShape ==
  /\ closed => closing /\ wg = 0
  /\ \A c \in Closers :
       /\ closePC[c] \in {"draining", "drained"} => closing
       /\ closePC[c] = "drained" => wg = 0

Inv ==
  /\ TypeOK
  /\ \A p \in Ops : PermitShape(p) /\ WorkspaceShape(p)
  /\ CountersMatchPermits
  /\ wg = Cardinality(Awaited)
  /\ WithinLimits
  /\ CloseShape
-----------------------------------------------------------------------------
(* Admission implements Gate                                               *)

Gone == {p \in Admitted : releasePC[p] \in {"signal", "done"}}

Phase == IF closed THEN "closed" ELSE IF closing THEN "closing" ELSE "open"

AsGate == INSTANCE Gate WITH inside <- Holding, gone <- Gone, phase <- Phase

\* Seen through its reservations the runtime is a gate: admit, the locked half
\* of finishRelease, beginClose and finishClose are its steps, and no other
\* step of a Send, of its calls or of a Close shows.
ImplementsGate == AsGate!Spec
=============================================================================
