---------------------------- MODULE FiniteSetLaws ----------------------------
(***************************************************************************)
(* What the proofs of this project use of finite sets and their            *)
(* cardinality, as formulas.  A lemma that counts assumes the law it needs *)
(* and the proof module that states it derives every law from              *)
(* FiniteSetTheorems (its lemma FiniteSetsObey) before its theorems: no    *)
(* theorem has a law among its hypotheses.                                 *)
(***************************************************************************)
EXTENDS Integers, FiniteSets

\* A finite set has a size; its subsets are finite and no larger.
SubsetLaw ==
  \A S : IsFiniteSet(S) =>
    /\ Cardinality(S) \in Nat
    /\ \A T \in SUBSET S : /\ IsFiniteSet(T) /\ Cardinality(T) \in Nat
                           /\ Cardinality(T) <= Cardinality(S)

\* The empty set is the one with no elements.
EmptyLaw ==
  /\ IsFiniteSet({}) /\ Cardinality({}) = 0
  /\ \A S : IsFiniteSet(S) => (Cardinality(S) = 0 <=> S = {})

\* One element more.
AddLaw ==
  \A S, x : IsFiniteSet(S) /\ x \notin S =>
    IsFiniteSet(S \cup {x}) /\ Cardinality(S \cup {x}) = Cardinality(S) + 1

\* One element less.
RemoveLaw ==
  \A S, x : IsFiniteSet(S) /\ x \in S =>
    /\ IsFiniteSet(S \ {x}) /\ Cardinality(S) \in Nat /\ Cardinality(S) >= 1
    /\ Cardinality(S \ {x}) = Cardinality(S) - 1

\* Two sets with nothing in common.
UnionLaw ==
  \A S, T : IsFiniteSet(S) /\ IsFiniteSet(T) /\ S \cap T = {} =>
    IsFiniteSet(S \cup T) /\ Cardinality(S \cup T) = Cardinality(S) + Cardinality(T)

\* A column of k pairs, and a finite set of columns.
ColumnLaw ==
  \A k \in Nat :
    /\ \A x : IsFiniteSet({x} \X (1..k)) /\ Cardinality({x} \X (1..k)) = k
    /\ \A S : IsFiniteSet(S) => IsFiniteSet(S \X (1..k))

Laws == SubsetLaw /\ EmptyLaw /\ AddLaw /\ RemoveLaw /\ UnionLaw /\ ColumnLaw
=============================================================================
