------------------------------ MODULE Runtime -------------------------------
(***************************************************************************)
(* A Runtime with an observer: Admission and Observer composed as Send and *)
(* Close compose them (runtime.go, telemetry.go).                          *)
(*                                                                         *)
(* An admitted operation emits its events from the goroutine of Send,      *)
(* between admission and release.  Close drains the operations first and   *)
(* closes the dispatcher next; a Close that the observer callback itself   *)
(* makes waits for operations but never for the dispatcher.                *)
(***************************************************************************)
EXTENDS Integers, Sequences, FiniteSets

CONSTANTS
  Ops, Closers, SelfClosers, Flushers,
  MaxInFlight, MaxBuffered, RequestWorkspace, OtherWorkspace, MaxCounter, MaxCalls,
  Capacity

VARIABLES
  \* Admission
  inFlight, buffered, concurrencyRejections, byteRejections, closing, closed, wg,
  sendPC, callPC, calls, expired, activeCalls, releaseRequested, released, heldBytes,
  shrunk, releasePC, closePC,
  \* Observer; `sealed' is observerDispatcher.closing, sealPC where close() is
  queue, pending, active, sealed, stopCloses, dropped, failures, runPC, inHand,
  emitPC, sealPC, flushPC, accepted, delivered

\* operation.start and operation.end stand for all events of an operation.
Events == Ops \X {"start", "end"}

A == INSTANCE Admission WITH Closers <- Closers \cup SelfClosers

O == INSTANCE Observer WITH closing <- sealed, closePC <- sealPC

admissionVars ==
  <<inFlight, buffered, concurrencyRejections, byteRejections, closing, closed, wg,
    sendPC, callPC, calls, expired, activeCalls, releaseRequested, released, heldBytes,
    shrunk, releasePC, closePC>>

observerVars ==
  <<queue, pending, active, sealed, stopCloses, dropped, failures, runPC, inHand,
    emitPC, sealPC, flushPC, accepted, delivered>>

vars == <<admissionVars, observerVars>>

Init == A!Init /\ O!Init
-----------------------------------------------------------------------------
(* Send                                                                    *)

Settled(e) == emitPC[e] \in {"queued", "counted"}

NotEmitted(p) == emitPC[<<p, "start">>] = "start" /\ emitPC[<<p, "end">>] = "start"

\* startObservability has emitted operation.start, finish has not begun.
Observed(p) == Settled(<<p, "start">>) /\ emitPC[<<p, "end">>] = "start"

\* Admission; then calls only between the two events; the release after the
\* deferred finish, or before startObservability when sendAdmitted's first
\* check is terminal.
SendStep(p) ==
  /\ \/ sendPC[p] \in {"start", "finishing"} /\ A!SendStep(p)
     \/ sendPC[p] \in {"running", "hook", "attempt"} /\ Observed(p)
          /\ A!SendStep(p) /\ ~A!Release(p)
     \/ NotEmitted(p) /\ A!Release(p)
     \/ Settled(<<p, "end">>) /\ A!Release(p)
  /\ UNCHANGED observerVars

\* The deadline timer, the goroutines of calls, and finishRelease.
CallStep(p) == A!CallStep(p) /\ UNCHANGED observerVars
FinishStep(p) == A!FinishStep(p) /\ UNCHANGED observerVars
Expire(p) == A!Expire(p) /\ UNCHANGED observerVars

\* startObservability, in the goroutine of Send.
EmitStart(p) == sendPC[p] = "running" /\ O!EmitStep(<<p, "start">>)

\* The deferred finish.
EmitEnd(p) ==
  /\ sendPC[p] \in {"running", "leaving"}
  /\ Settled(<<p, "start">>)
  /\ O!EmitStep(<<p, "end">>)

Emit(p) == (EmitStart(p) \/ EmitEnd(p)) /\ UNCHANGED admissionVars
-----------------------------------------------------------------------------
(* Close from outside                                                      *)

\* beginClose, waitForOperations, and waitUntilClosed of a loser.
CloseAdmission(c) ==
  /\ A!BeginClose(c) \/ A!LoseClose(c) \/ A!WaitForOperations(c) \/ A!WaitUntilClosed(c)
  /\ UNCHANGED observerVars

\* Seeded fault: the loser of beginClose does not wait for the dispatcher.
SealByWinner(c) ==
  /\ closePC[c] = "drained"
  /\ O!CloseStep(c)
  /\ UNCHANGED admissionVars

\* observer.close(), by the winner before finishClose and by a loser after
\* waitUntilClosed.
Seal(c) ==
  /\ closePC[c] \in {"drained", "done"}
  /\ O!CloseStep(c)
  /\ UNCHANGED admissionVars

\* finishClose; closeIdleConnections before it touches no state modelled here.
FinishClose(c) ==
  /\ sealPC[c] = "done"
  /\ A!FinishClose(c)
  /\ UNCHANGED observerVars
-----------------------------------------------------------------------------
(* Close from the callback                                                 *)

\* The callback is inside its Close.
InClose(c) == closePC[c] \in {"draining", "drained"}

SelfBegin(c) ==
  /\ runPC = "callback" /\ \A d \in SelfClosers : ~InClose(d)
  /\ A!BeginClose(c)
  /\ UNCHANGED observerVars

\* beginClose was lost: the callback's Close returns at once.
SelfLose(c) ==
  /\ runPC = "callback" /\ \A d \in SelfClosers : ~InClose(d)
  /\ ~A!Open
  /\ A!CloseMoves(c, "start", "done")
  /\ UNCHANGED <<closing, closed>>
  /\ UNCHANGED observerVars

SelfDrain(c) == A!WaitForOperations(c) /\ UNCHANGED observerVars

SelfSeal(c) ==
  /\ closePC[c] = "drained"
  /\ O!SelfClose(c)
  /\ UNCHANGED admissionVars

SelfStep(c) ==
  SelfBegin(c) \/ SelfLose(c) \/ SelfDrain(c) \/ SelfSeal(c) \/ FinishClose(c)
-----------------------------------------------------------------------------
\* The dispatcher runs; a callback that closes returns after its Close.
Dispatch ==
  /\ runPC = "callback" => \A c \in SelfClosers : ~InClose(c)
  /\ O!RunStep
  /\ UNCHANGED admissionVars

Flush(f) == O!FlushStep(f) /\ UNCHANGED admissionVars

\* Close has returned to its caller.
Returned(c) == closePC[c] = "done" /\ sealPC[c] = "done"

CloseStep(c) == CloseAdmission(c) \/ Seal(c) \/ FinishClose(c)

Finished ==
  /\ \A p \in Ops : sendPC[p] \in {"rejected", "returned"}
  /\ \A c \in Closers : Returned(c)
  /\ \A f \in Flushers : flushPC[f] = "done"
  /\ UNCHANGED vars

Next ==
  \/ \E p \in Ops : SendStep(p) \/ Emit(p) \/ Expire(p) \/ CallStep(p) \/ FinishStep(p)
  \/ \E c \in Closers : CloseStep(c)
  \/ \E c \in SelfClosers : SelfStep(c)
  \/ \E f \in Flushers : Flush(f)
  \/ Dispatch
  \/ Finished

Spec == Init /\ [][Next]_vars
\* As in Admission and Observer: goroutines run, hooks, transport and observer
\* return, and nobody has to start a Send, a Close or a flush.
Fairness ==
  /\ WF_vars(Dispatch)
  /\ \A p \in Ops : /\ WF_vars(sendPC[p] # "start" /\ (SendStep(p) \/ Emit(p)))
                     /\ WF_vars(CallStep(p))
                     /\ WF_vars(FinishStep(p))
  /\ \A c \in Closers : WF_vars(closePC[c] # "start" /\ CloseStep(c))
  /\ \A c \in SelfClosers : WF_vars(closePC[c] # "start" /\ SelfStep(c))
  /\ \A f \in Flushers : WF_vars(flushPC[f] # "start" /\ Flush(f))

FairSpec == Spec /\ Fairness
-----------------------------------------------------------------------------
(* Properties                                                              *)

\* A Close from outside returns to a quiet runtime, also when the callback
\* closed first and published Closed before it returned: nothing is in flight,
\* no callback runs or will run, and every event of every operation was
\* delivered or counted as dropped (Close, the comment in runtime.go:103).  The
\* dispatcher is sealed only after the last event of the last operation: an
\* event is lost to a full queue or to dropPending, never to an operation that
\* outlives the dispatcher (waitForOperations before observer.close()).
CloseIsQuiescent ==
  /\ \A c \in Closers : Returned(c) =>
       /\ closed /\ inFlight = 0 /\ buffered = 0
       /\ runPC = "done" /\ pending = 0
       /\ Len(delivered) + dropped =
            Cardinality({e \in Events : emitPC[e] # "start"})
  /\ sealed => \A p \in A!Admitted : NotEmitted(p) \/ Settled(<<p, "end">>)

\* Nobody waits for ever: every Close returns, the outside ones and the callback's own,
\* which waits for operations while it holds the dispatcher up, and every flush does.
CloseReturns ==
  /\ \A c \in Closers : closePC[c] # "start" ~> Returned(c)
  /\ \A c \in SelfClosers : closePC[c] # "start" ~> closePC[c] = "done"
  /\ \A f \in Flushers : flushPC[f] # "start" ~> flushPC[f] = "done"
=============================================================================
