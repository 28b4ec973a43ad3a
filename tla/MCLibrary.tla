----------------------------- MODULE MCLibrary -----------------------------
(***************************************************************************)
(* The parts of the library that work by themselves, checked in one run:   *)
(* a behaviour is a behaviour of one part, chosen at the start, while the  *)
(* others stay as they are.                                                *)
(***************************************************************************)
EXTENDS Backoff, ManualTime, TestKit, StrictJSON, Payload, Response

VARIABLE part

Parts == {"backoff", "time", "script", "record", "parser", "serialize", "walk", "encode", "response"}

libraryVars == <<part, backoffVars, timeVars, kitVars, parserVars, payloadVars, responseVars>>

\* What may be left of the operation's time, in nanoseconds: its deadline may have passed.
MCRemainings == {-1, 0, 1, 2, 9, 15}

LibraryInit ==
  /\ part \in Parts
  /\ BackoffInit /\ TimeInit /\ KitInit /\ ParserInit /\ PayloadInit /\ ResponseInit

LibraryNext ==
  \/ /\ part = "backoff" /\ BackoffNext
     /\ UNCHANGED <<part, timeVars, kitVars, parserVars, payloadVars, responseVars>>
  \/ /\ part = "time" /\ TimeNext
     /\ UNCHANGED <<part, backoffVars, kitVars, parserVars, payloadVars, responseVars>>
  \/ /\ \/ part = "script" /\ ScriptNext
        \/ part = "record" /\ RecordNext
     /\ UNCHANGED <<part, backoffVars, timeVars, parserVars, payloadVars, responseVars>>
  \/ /\ part = "parser" /\ ParserNext
     /\ UNCHANGED <<part, backoffVars, timeVars, kitVars, payloadVars, responseVars>>
  \/ /\ \/ part = "serialize" /\ SerializeNext
        \/ part = "walk" /\ WalkNext
        \/ part = "encode" /\ EncodeNext
     /\ UNCHANGED <<part, backoffVars, timeVars, kitVars, parserVars, responseVars>>
  \/ /\ part = "response" /\ ResponseNext
     /\ UNCHANGED <<part, backoffVars, timeVars, kitVars, parserVars, payloadVars>>

\* The goroutines of Sleep, Advance, AwaitSleepCount and Send go on running: a mutex is
\* released after finitely many steps, and a select takes a channel that is ready.
LibrarySpec ==
  /\ LibraryInit /\ [][LibraryNext]_libraryVars
  /\ WF_timeVars(part = "time" /\ TimeStep)
  /\ WF_kitVars(part = "script" /\ ScriptStep)

\* Of the test kit's waits these end: that of a sleeper whose time has come, that of a test
\* for a number of sleeps that was reached, and that of an attempt whose response is settled
\* or whose context ended.  (AwaitNext and AwaitQuiescence wait for the runtime, for ever if
\* it dropped what they wait for.)
KitReturns == SleepReturns /\ PendingReturns
=============================================================================
