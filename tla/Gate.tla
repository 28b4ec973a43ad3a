-------------------------------- MODULE Gate --------------------------------
(***************************************************************************)
(* What admission control promises (runtime.go, state.go): a gate that     *)
(* lets every operation in at most once and out exactly once, never has    *)
(* more than MaxInFlight of them inside, and is closed for good only when  *)
(* it was shut first and everybody has left.                               *)
(***************************************************************************)
EXTENDS Naturals, FiniteSets

CONSTANTS Ops, MaxInFlight

VARIABLES
  inside,   \* operations that were admitted and hold a reservation
  gone,     \* operations that gave their reservation back
  phase     \* "open", "closing" or "closed"

gateVars == <<inside, gone, phase>>

Init == inside = {} /\ gone = {} /\ phase = "open"

Enter(p) ==
  /\ phase = "open"
  /\ p \notin inside \cup gone
  /\ Cardinality(inside) < MaxInFlight
  /\ inside' = inside \cup {p}
  /\ UNCHANGED <<gone, phase>>

Leave(p) ==
  /\ p \in inside
  /\ inside' = inside \ {p}
  /\ gone' = gone \cup {p}
  /\ UNCHANGED phase

Shut ==
  /\ phase = "open"
  /\ phase' = "closing"
  /\ UNCHANGED <<inside, gone>>

Close ==
  /\ phase = "closing"
  /\ inside = {}
  /\ phase' = "closed"
  /\ UNCHANGED <<inside, gone>>

Next == Shut \/ Close \/ \E p \in Ops : Enter(p) \/ Leave(p)

Spec == Init /\ [][Next]_gateVars
=============================================================================
