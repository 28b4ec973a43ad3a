----------------------------- MODULE Saturating -----------------------------
(***************************************************************************)
(* The saturating addition of the diagnostic counters (state.go), which    *)
(* Admission and Observer share.                                           *)
(***************************************************************************)
EXTENDS Integers

CONSTANT MaxCounter   \* maximumDiagnosticCounter

ASSUME CounterAssumption == MaxCounter \in Nat

SaturatingAdd(counter, delta) ==
  IF delta <= 0 \/ counter >= MaxCounter THEN counter
  ELSE IF delta > MaxCounter - counter THEN MaxCounter
  ELSE counter + delta
=============================================================================
