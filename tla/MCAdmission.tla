----------------------------- MODULE MCAdmission -----------------------------
(* Small instances of Admission for TLC. *)
EXTENDS Admission, TLC

\* Sends are interchangeable, and so are Closes: sound, as the run checks no liveness.
Symmetry == Permutations(Ops) \union Permutations(Closers)
=============================================================================
