----------------------------- MODULE MCSession ----------------------------
(* Session for TLC: calls are interchangeable.                             *)
EXTENDS Session, TLC

Symmetry == Permutations(Calls)
=============================================================================
