----------------------------- MODULE PoolProofs -----------------------------
(***************************************************************************)
(* The pool keeps to its cap, never closes a connection in use, and loses  *)
(* none, for any number of callers, connections and places: proofs about   *)
(* Pool.                                                                   *)
(***************************************************************************)
EXTENDS Pool, Integers, FiniteSetTheorems, TLAPS

Dialing    == {a \in Acquirers : pc[a] = "dialing"}
Holders(c) == {a \in Acquirers : pc[a] = "leased" /\ lease[a] = c}
Orphans    == {a \in Acquirers : pc[a] = "orphan"}

\* The counters are what their names say.
Counts ==
  /\ pending = Cardinality(Dialing)
  /\ \A c \in Conns : active[c] = Cardinality(Holders(c))

\* Who is responsible for each connection.
Custody ==
  /\ entries \subseteq open /\ open \subseteq entries \cup {lease[a] : a \in Orphans}
  /\ \A a \in Acquirers : pc[a] = "leased" => lease[a] \in entries
  /\ \A a \in Orphans : lease[a] \in open \ entries /\ closed
  /\ \A a, b \in Orphans : lease[a] = lease[b] => a = b
  /\ \A c \in Conns : closes[c] = 0 \/ (closes[c] = 1 /\ c \notin open)
  /\ \A c \in Conns : mode[c] = "none" => c \notin open /\ closes[c] = 0
  /\ \A c \in Conns : mode[c] # "shared" => active[c] <= 1
  /\ closed => \A c \in entries : active[c] > 0

\* The cap counts the open connections and the places that are promised to dials.
Cap == Cardinality(open) + pending <= MaxConnections

PoolInv == TypeOK /\ Counts /\ Custody /\ Cap
-----------------------------------------------------------------------------
(* Counting                                                                *)

\* The sets that are counted are finite.
LEMMA Finite ==
  ASSUME TypeOK
  PROVE  /\ IsFiniteSet(Dialing) /\ IsFiniteSet(open) /\ Cardinality(open) \in Nat
         /\ Cardinality(Acquirers) \in Nat
         /\ \A c \in Conns : IsFiniteSet(Holders(c)) /\ Cardinality(Holders(c)) \in 0..Cardinality(Acquirers)
<1>1. ASSUME NEW c \in Conns PROVE IsFiniteSet(Holders(c)) /\ Cardinality(Holders(c)) \in 0..Cardinality(Acquirers)
  BY FS_CardinalityType, FS_Subset, PoolAssumption DEF Holders
<1> QED BY <1>1, PoolAssumption, FS_Subset, FS_CardinalityType DEF TypeOK, Dialing

\* A set has one element more than what is left without one of them.
LEMMA Split ==
  ASSUME NEW S, IsFiniteSet(S), NEW e
  PROVE  /\ IsFiniteSet(S \ {e}) /\ Cardinality(S) \in Nat /\ Cardinality(S \ {e}) \in Nat
         /\ Cardinality(S) = Cardinality(S \ {e}) + (IF e \in S THEN 1 ELSE 0)
<1>1. CASE e \in S
  BY <1>1, FS_RemoveElement, FS_Subset, FS_CardinalityType
<1>2. CASE e \notin S
  BY <1>2, FS_Subset, FS_CardinalityType
<1> QED BY <1>1, <1>2

\* Every acquirer but a stays where it is, unless it is woken.
Others(a) ==
  \A b \in Acquirers \ {a} :
    lease'[b] = lease[b] /\ (pc'[b] = pc[b] \/ (pc[b] = "waiting" /\ pc'[b] = "acquire"))

Dials(a)    == IF pc[a] = "dialing" THEN 1 ELSE 0
Holds(a, c) == IF pc[a] = "leased" /\ lease[a] = c THEN 1 ELSE 0

\* If the counters follow a, they are right again.
LEMMA Recount ==
  ASSUME TypeOK, Counts, NEW a \in Acquirers, Others(a),
         pending \in Nat, pending' \in Int, pending' + Dials(a) = pending + Dials(a)',
         active' \in [Conns -> Int], \A c \in Conns : active'[c] + Holds(a, c) = active[c] + Holds(a, c)'
  PROVE  Counts' /\ pending' \in Nat /\ active' \in [Conns -> 0..Cardinality(Acquirers)]
<1>1. Cardinality(Dialing) = Cardinality(Dialing \ {a}) + Dials(a) /\ Cardinality(Dialing \ {a}) \in Nat
  BY Finite, Split DEF Dials, Dialing
<1>2. IsFiniteSet(Dialing') /\ \A c \in Conns : IsFiniteSet(Holders(c)')
  BY PoolAssumption, FS_Subset DEF Dialing, Holders
<1>3. Dialing' \ {a} = Dialing \ {a}
  BY DEF Dialing, Others
<1>4. ASSUME NEW c \in Conns
      PROVE  active'[c] = Cardinality(Holders(c)') /\ Cardinality(Holders(c)') \in 0..Cardinality(Acquirers)
  <2>1. a \in Holders(c) <=> pc[a] = "leased" /\ lease[a] = c
    BY DEF Holders
  <2>2. /\ Cardinality(Holders(c)) = Cardinality(Holders(c) \ {a}) + Holds(a, c)
        /\ Cardinality(Holders(c) \ {a}) \in Nat
    BY <2>1, Finite, Split DEF Holds
  <2>3. Cardinality(Holders(c)') = Cardinality(Holders(c)' \ {a}) + (IF a \in Holders(c)' THEN 1 ELSE 0)
    BY <1>2, Split
  <2>4. active'[c] = Cardinality(Holders(c)')
    <3>1. Cardinality(Holders(c)' \ {a}) = Cardinality(Holders(c) \ {a})
      BY Zenon DEF Holders, Others
    <3> QED BY <2>2, <2>3, <3>1 DEF Holds, Holders, Counts
  <2> QED BY <2>4, Finite, <1>2, PoolAssumption, FS_Subset, FS_CardinalityType DEF Holders
<1> QED BY <1>4, <1>1, <1>3, <1>2, Split, SMTT(30) DEF Counts, Dials, Dialing

\* A connection has a holder exactly if it is active.
LEMMA Unheld ==
  ASSUME PoolInv, NEW c \in Conns
  PROVE  active[c] \in Nat /\ (active[c] > 0 <=> \E a \in Acquirers : pc[a] = "leased" /\ lease[a] = c)
<1>1. active[c] = Cardinality(Holders(c)) /\ IsFiniteSet(Holders(c)) /\ Cardinality(Holders(c)) \in Nat
  BY Finite, FS_CardinalityType DEF PoolInv, Counts
<1> QED BY <1>1, FS_EmptySet DEF Holders
-----------------------------------------------------------------------------
(* The steps                                                               *)

\* What every step must show about types, its counters being right.
LEMMA Typing ==
  ASSUME Counts', pending' \in Nat, Cap', open' \subseteq Conns
  PROVE  pending' \in 0..MaxConnections
  BY PoolAssumption, FS_Subset, FS_CardinalityType DEF Cap

\* Custody after a step that takes the entries in g out and closes them, if nobody holds
\* them then; the calls that have an orphan stay the same.
LEMMA Closing ==
  ASSUME PoolInv, NEW g \in SUBSET entries, CloseConns(g), entries' = entries \ g, mode' = mode,
         \A a \in Acquirers : /\ pc'[a] = "orphan" <=> pc[a] = "orphan"
                              /\ pc[a] = "orphan" => lease'[a] = lease[a],
         \A a \in Acquirers : pc'[a] = "leased" => lease'[a] \in entries',
         \A c \in Conns : mode[c] # "shared" => active'[c] <= 1,
         closed => closed', closed' => \A c \in entries' : active'[c] > 0
  PROVE  /\ Custody' /\ Cardinality(open') <= Cardinality(open) /\ Cardinality(open') \in Nat
         /\ entries' \subseteq Conns /\ open' \subseteq Conns /\ closes' \in [Conns -> Nat]
<1>1. /\ open' = open \ g /\ entries \subseteq Conns /\ open \subseteq Conns /\ entries \subseteq open
      /\ closes \in [Conns -> Nat]
      /\ closes' = [c \in Conns |-> IF c \in g THEN closes[c] + 1 ELSE closes[c]]
  BY DEF CloseConns, PoolInv, TypeOK, Custody
<1>2. Cardinality(open') <= Cardinality(open) /\ Cardinality(open') \in Nat
  <2>1. IsFiniteSet(open) /\ open' \subseteq open
    BY <1>1, Finite, Zenon DEF PoolInv
  <2> QED BY <2>1, FS_Subset, FS_CardinalityType
<1>3. Custody'
  BY <1>1, SMTT(30) DEF PoolInv, Custody, Orphans
<1>4. entries' \subseteq Conns /\ open' \subseteq Conns /\ closes' \in [Conns -> Nat]
  BY <1>1
<1> QED BY <1>2, <1>3, <1>4, Zenon

\* What expireLocked takes out is not held.
LEMMA Expiring ==
  ASSUME PoolInv, NEW x \in SUBSET entries, Expire(x)
  PROVE  /\ Expired(x) \in SUBSET entries /\ CloseConns(Expired(x)) /\ entries' = entries \ Expired(x)
         /\ \A c \in Expired(x) : active[c] = 0
         /\ \A a \in Acquirers : pc[a] = "leased" => lease[a] \in entries'
         /\ Retired(x) \in [Conns -> BOOLEAN] /\ Scanned(x) \in [Conns -> BOOLEAN]
  BY Unheld DEF Expire, Expired, Kept, PoolInv, Custody, TypeOK, Retired, Scanned

\* A call that looks for a connection and finds the pool closed, or no place.
LEMMA LookStep ==
  ASSUME PoolInv, NEW a \in Acquirers, NEW x \in SUBSET entries,
         AcquireClosed(a, x) \/ AcquireDial(a, x) \/ AcquireWait(a, x)
  PROVE  PoolInv'
<1>1. /\ Expire(x) /\ pc[a] = "acquire" /\ retiring' \in {Retired(x), Scanned(x)}
      /\ pc' = [pc EXCEPT ![a] = pc'[a]] /\ pc'[a] \in {"done", "waiting", "dialing"}
      /\ UNCHANGED <<since, mode, active, closed, lease, dead>>
      /\ pending' = IF pc'[a] = "dialing" THEN pending + 1 ELSE pending
  BY DEF AcquireClosed, AcquireDial, AcquireWait, PoolInv, TypeOK
<1>2. /\ Expired(x) \in SUBSET entries /\ CloseConns(Expired(x)) /\ entries' = entries \ Expired(x)
      /\ \A b \in Acquirers : pc[b] = "leased" => lease[b] \in entries'
      /\ retiring' \in [Conns -> BOOLEAN] /\ pending \in Nat
  BY <1>1, Expiring DEF PoolInv, TypeOK
<1>3. /\ Custody' /\ Cardinality(open') <= Cardinality(open) /\ Cardinality(open') \in Nat
      /\ entries' \subseteq Conns /\ open' \subseteq Conns /\ closes' \in [Conns -> Nat]
  BY <1>1, <1>2, Closing, SMTT(30) DEF PoolInv, Custody, Others, TypeOK, PCs
<1>4. Cap'
  <2>1. CASE pc'[a] = "dialing"
    <3>1. open' = Kept(x)
      BY <1>2, <1>1, <2>1
         DEF CloseConns, Kept, PoolInv, Custody, AcquireClosed, AcquireDial, AcquireWait, TypeOK
    <3> QED BY <1>1, <1>2, <1>3, <2>1, PoolAssumption, <3>1, SMTT(30)
               DEF AcquireDial, HasRoom, Cap, AcquireClosed, AcquireWait, PoolInv, TypeOK
  <2>2. CASE pc'[a] # "dialing"
    <3>1. pending' = pending /\ Cardinality(open) + pending <= MaxConnections
      BY <1>1, <2>2, Zenon DEF Cap, PoolInv
    <3>2. Cardinality(open) \in Nat /\ MaxConnections \in Nat
      BY Finite, PoolAssumption, Zenon DEF PoolInv
    <3> QED BY <1>2, <1>3, <3>1, <3>2 DEF Cap
  <2> QED BY <2>1, <2>2
<1> QED BY <1>3, <1>4, <1>2, Recount, <1>1, Typing
           DEF PoolInv, TypeOK, Holds, Dials, Others, PCs

\* A call that finds a connection holds it from then on.
LEMMA ReuseStep ==
  ASSUME PoolInv, NEW a \in Acquirers, NEW x \in SUBSET entries, NEW c \in Kept(x), AcquireReuse(a, c, x)
  PROVE  PoolInv'
<1>1. /\ Expire(x) /\ pc[a] = "acquire" /\ retiring' = Scanned(x) /\ closed = FALSE
      /\ pc' = [pc EXCEPT ![a] = "leased"] /\ lease' = [lease EXCEPT ![a] = c]
      /\ active' = [active EXCEPT ![c] = @ + 1] /\ (mode[c] = "shared" \/ active[c] = 0)
      /\ UNCHANGED <<since, mode, pending, closed, dead>>
  BY SMTT(30) DEF AcquireReuse, IsFirst, Candidates, Usable, PoolInv, TypeOK
<1>2. /\ Expired(x) \in SUBSET entries /\ CloseConns(Expired(x)) /\ entries' = entries \ Expired(x)
      /\ \A b \in Acquirers : pc[b] = "leased" => lease[b] \in entries'
      /\ retiring' \in [Conns -> BOOLEAN] /\ pending \in Nat /\ active \in [Conns -> Nat]
      /\ c \in entries' /\ c \in Conns
  BY <1>1, Expiring, Finite, SMTT(30) DEF PoolInv, TypeOK, Kept
<1> QED BY <1>2, Recount, <1>1, Finite, PoolAssumption, Typing, Closing, SMTT(30)
           DEF PoolInv, Holds, Dials, Cap, TypeOK, Others, PCs, Custody

\* A call that gives up, or whose dial fails, leaves the connections alone.
LEMMA LeaveStep ==
  ASSUME PoolInv, NEW a \in Acquirers, AcquireCancelled(a) \/ DialFails(a)
  PROVE  PoolInv'
<1>1. Counts' /\ pending' \in Nat
  BY Recount, SMTT(30)
     DEF PoolInv, Others, TypeOK, Holds, Dials, AcquireCancelled, DialFails, Signalled, Woken,
         entryVars, connVars, PCs
<1> QED BY <1>1, Finite, PoolAssumption, Typing, SMTT(30)
           DEF PoolInv, Custody, Orphans, TypeOK, Cap, AcquireCancelled, DialFails, Signalled,
               Woken, entryVars, connVars, PCs

\* A dialled connection takes the place of its dial, as an entry or, if the pool was closed
\* in the meantime, as an orphan.
LEMMA DialedStep ==
  ASSUME PoolInv, NEW a \in Acquirers, NEW c \in Conns, NEW m \in Modes, Dialed(a, c, m) \/ DialedTooLate(a, c, m)
  PROVE  PoolInv'
<1>1. /\ pc[a] = "dialing" /\ mode[c] = "none" /\ pc' \in [Acquirers -> PCs]
      /\ mode' = [mode EXCEPT ![c] = m] /\ pending' = pending - 1 /\ open' = open \cup {c}
      /\ lease' = [lease EXCEPT ![a] = c]
      /\ \A b \in Acquirers : b # a => pc'[b] = pc[b] \/ (pc[b] = "waiting" /\ pc'[b] = "acquire")
      /\ UNCHANGED <<retiring, closed, dead, closes>>
      /\ \/ ~closed /\ pc'[a] = "leased" /\ active' = [active EXCEPT ![c] = 1] /\ entries' = entries \cup {c}
         \/ closed /\ pc'[a] = "orphan" /\ active' = active /\ entries' = entries
  BY SMTT(30) DEF Dialed, AddEntry, DialedTooLate, Signalled, Woken, PoolInv, TypeOK, PCs
<1>2. /\ c \notin open /\ closes[c] = 0 /\ active[c] = 0 /\ pending \in Nat /\ active \in [Conns -> Nat]
      /\ c \notin entries /\ (\A b \in Acquirers : pc[b] \in {"leased", "orphan"} => lease[b] \in open)
  BY Unheld, <1>1, Finite, SMTT(30) DEF PoolInv, TypeOK, Custody, Orphans
<1>3. since' \in [Conns -> Nat]
  <2>1. Cardinality({d \in Conns : mode[d] # "none"}) \in Nat
    BY PoolAssumption, FS_Subset, FS_CardinalityType, SMTT(30)
  <2> QED BY <2>1 DEF Dialed, AddEntry, DialedTooLate, PoolInv, TypeOK
<1>4. Counts' /\ pending' \in Nat /\ active' \in [Conns -> 0..Cardinality(Acquirers)]
  BY <1>2, Recount, <1>1, SMTT(30) DEF PoolInv, Holds, TypeOK, Dials, Others
<1>5. Custody'
  <2>1. \A b \in Orphans' : lease'[b] \in open' \ entries' /\ closed'
    <3>1. SUFFICES ASSUME NEW b \in Acquirers, pc'[b] = "orphan" PROVE lease'[b] \in open' \ entries' /\ closed'
      BY DEF Orphans
    <3>2. CASE b = a
      BY <1>1, <1>2, <3>1, <3>2, SMTT(30) DEF PoolInv, TypeOK
    <3>3. CASE b # a
      BY <1>1, <3>1, <3>3, <1>2 DEF PoolInv, Custody, Orphans, TypeOK
    <3> QED BY <3>2, <3>3
  <2> QED BY <2>1, <1>1, <1>2, SMTT(30) DEF Custody, PoolInv, Orphans, TypeOK, Modes
<1>6. Cap'
  <2>1. Cardinality(open') = Cardinality(open) + 1 /\ Cardinality(open) \in Nat
    BY <1>1, <1>2, Finite, FS_AddElement, Zenon DEF PoolInv
  <2> QED BY <1>1, <1>2, <2>1, PoolAssumption, SMTT(30) DEF PoolInv, Cap
<1> QED BY <1>4, <1>5, <1>6, <1>1, <1>3, Typing, Zenon DEF PoolInv, TypeOK, Modes

\* An orphan is closed by the call that dialled it.
LEMMA OrphanStep ==
  ASSUME PoolInv, NEW a \in Acquirers, CloseOrphan(a)
  PROVE  PoolInv'
<1> DEFINE c == lease[a]
<1>1. /\ pc[a] = "orphan" /\ CloseConns({c}) /\ pc' = [pc EXCEPT ![a] = "done"]
      /\ lease' = [lease EXCEPT ![a] = NoConn]
      /\ UNCHANGED <<entries, since, mode, active, retiring, pending, closed, dead>>
  BY DEF CloseOrphan, entryVars
<1>2. c \in open \ entries /\ closed /\ c \in Conns /\ \A b \in Orphans : b # a => lease[b] # c
  BY <1>1 DEF PoolInv, Custody, Orphans, TypeOK
<1> HIDE DEF c
<1>3. /\ open' = open \ {c} /\ closes' \in [Conns -> Nat] /\ closes'[c] = closes[c] + 1
      /\ \A d \in Conns : d # c => closes'[d] = closes[d]
  BY <1>1, <1>2, SMTT(30) DEF CloseConns, PoolInv, TypeOK
<1>4. /\ pc' \in [Acquirers -> PCs] /\ lease' \in [Acquirers -> Conns \cup {NoConn}] /\ Others(a) /\ pc'[a] = "done"
      /\ \A b \in Acquirers : b # a => pc'[b] = pc[b] /\ lease'[b] = lease[b]
  BY <1>1, SMTT(30) DEF Others, PoolInv, TypeOK, PCs
<1>5. Custody'
  <2>1. entries' \subseteq open' /\ open' \subseteq entries' \cup {lease'[b] : b \in Orphans'}
    <3>1. ASSUME NEW d \in open', d \notin entries' PROVE d \in {lease'[b] : b \in Orphans'}
      <4>1. PICK b \in Orphans : d = lease[b]
        BY <1>1, <1>3, <3>1, SMTT(30) DEF PoolInv, Custody
      <4> QED BY <1>3, <4>1, <1>4, SMTT(30) DEF c, Orphans
    <3> QED BY <3>1, <1>1, <1>2, <1>3, SMTT(30) DEF PoolInv, Custody
  <2> QED BY <2>1, <1>1, <1>4, <1>2, <1>3, SMTT(30) DEF Custody, PoolInv, Orphans
<1>6. Cap'
  <2>1. Cardinality(open') <= Cardinality(open) /\ Cardinality(open') \in Nat /\ Cardinality(open) \in Nat
    BY <1>3, Finite, FS_Subset, FS_CardinalityType, Zenon DEF PoolInv
  <2> QED BY <1>1, <2>1, PoolAssumption, SMTT(30) DEF PoolInv, TypeOK, Cap
<1> QED BY <1>5, <1>6, <1>4, Recount, <1>1, <1>3 DEF PoolInv, TypeOK, Dials, Holds

\* A release closes the connection only if nobody else holds it.
LEMMA ReleaseStep ==
  ASSUME PoolInv, NEW a \in Acquirers, Release(a)
  PROVE  PoolInv'
<1>1. PICK c \in Conns : c = lease[a]
  BY SMTT(30) DEF Release, ReleaseWith, PoolInv, Custody, TypeOK
<1>2. PICK reusable \in BOOLEAN :
        LET retires == retiring[c] \/ ~reusable \/ closed
            goes    == retires /\ active[c] = 1
        IN /\ active' = [active EXCEPT ![c] = @ - 1]
           /\ retiring' = [retiring EXCEPT ![c] = retires]
           /\ entries' = IF goes THEN Without(c) ELSE entries
           /\ CloseConns(IF goes THEN {c} ELSE {})
  BY <1>1, ZenonT(30) DEF Release, ReleaseWith
<1> DEFINE goes == (retiring[c] \/ ~reusable \/ closed) /\ active[c] = 1
           g    == IF goes THEN {c} ELSE {}
<1>3. /\ pc[a] = "leased" /\ lease' = [lease EXCEPT ![a] = NoConn] /\ pc'[a] = "done" /\ pc' \in [Acquirers -> PCs]
      /\ \A b \in Acquirers : b # a => pc'[b] = pc[b] \/ (pc[b] = "waiting" /\ pc'[b] = "acquire")
      /\ UNCHANGED <<since, mode, pending, closed, dead>>
  BY DEF Release, ReleaseWith, Signalled, Woken, PoolInv, TypeOK, PCs
<1>4. c \in entries /\ c \in Conns /\ active[c] > 0 /\ active \in [Conns -> Nat] /\ pending \in Nat
  BY <1>1, <1>3, Unheld, Finite DEF PoolInv, Custody, TypeOK
<1>5. g \in SUBSET entries /\ CloseConns(g) /\ entries' = entries \ g
  BY <1>2, <1>4 DEF Without
<1>6. retiring' \in [Conns -> BOOLEAN] /\ active' = [active EXCEPT ![c] = @ - 1]
  BY <1>2, <1>4 DEF PoolInv, TypeOK
<1>7. closed /\ c \in entries' => active[c] # 1
  BY <1>5, SMTT(30)
<1>8. g = {} \/ (g = {c} /\ active[c] = 1)
  OBVIOUS
<1> HIDE DEF g, goes
<1>9. active[c] = 1 => \A b \in Acquirers : ~(pc'[b] = "leased" /\ lease'[b] = c)
  <2> SUFFICES ASSUME active[c] = 1 PROVE Holders(c)' = {}
    BY DEF Holders
  <2>1. IsFiniteSet(Holders(c)')
    BY PoolAssumption, FS_Subset, Zenon DEF Holders
  <2> QED BY <2>1, FS_EmptySet, <1>4, <1>6, Recount, <1>3, <1>1, SMTT(30)
             DEF Counts, PoolInv, TypeOK, Holds, Dials, Others
<1>10. /\ Custody' /\ Cardinality(open') <= Cardinality(open) /\ Cardinality(open') \in Nat
       /\ entries' \subseteq Conns /\ open' \subseteq Conns /\ closes' \in [Conns -> Nat]
  <2>1. ASSUME NEW b \in Acquirers, pc'[b] = "leased" PROVE lease'[b] \in entries'
    BY <1>5, <1>8, <1>9, <2>1, <1>3, SMTT(30) DEF PoolInv, TypeOK, Custody
  <2> QED BY <1>3, <1>5, <2>1, Closing, <1>4, <1>6, <1>7, SMTT(30) DEF PoolInv, TypeOK, Custody
<1> QED BY <1>10, <1>3, <1>4, Finite, PoolAssumption, <1>6, Typing, Recount, <1>1, SMTT(30)
           DEF PoolInv, Cap, TypeOK, Holds, Dials, Others

\* Close takes out and closes what nobody holds, and wakes the sleepers.
LEMMA CloseStep ==
  ASSUME PoolInv, Close
  PROVE  PoolInv'
<1> DEFINE g == {c \in entries : active[c] = 0}
<1>1. /\ CloseConns(g) /\ pc' = Woken(pc) /\ closed' = TRUE
      /\ retiring' = [c \in Conns |-> retiring[c] \/ c \in entries]
      /\ UNCHANGED <<since, mode, active, pending, lease, dead>>
  BY DEF Close
<1>2. active \in [Conns -> Nat] /\ entries \subseteq Conns
  BY Finite DEF PoolInv, TypeOK
<1>3. g \in SUBSET entries /\ entries' = entries \ g
  BY <1>2 DEF Close
<1>4. pc' \in [Acquirers -> PCs] /\ \A a \in Acquirers : pc'[a] = pc[a] \/ (pc[a] = "waiting" /\ pc'[a] = "acquire")
  BY <1>1, SMTT(30) DEF Woken, PoolInv, TypeOK, PCs
<1>5. Counts'
  BY <1>1, <1>4, SMTT(30) DEF PoolInv, Counts, Dialing, Holders
<1>6. \A c \in entries' : active[c] > 0
  BY <1>2, <1>3
<1>7. \A a \in Acquirers : pc[a] = "leased" => lease[a] \in entries'
  <2> SUFFICES ASSUME NEW a \in Acquirers, pc[a] = "leased" PROVE lease[a] \in entries'
    OBVIOUS
  <2> QED BY <1>3, <1>2, Unheld DEF PoolInv, Custody
<1> HIDE DEF g
<1>8. /\ \A a \in Acquirers : (pc'[a] = "orphan" <=> pc[a] = "orphan") /\ lease'[a] = lease[a]
      /\ \A a \in Acquirers : pc'[a] = "leased" => lease'[a] \in entries'
  BY <1>1, <1>4, <1>7
<1>9. /\ \A c \in Conns : mode[c] # "shared" => active'[c] <= 1
      /\ closed' => \A c \in entries' : active'[c] > 0
  BY <1>1, <1>6, Zenon DEF PoolInv, Custody
<1>10. /\ Custody' /\ Cardinality(open') <= Cardinality(open) /\ Cardinality(open') \in Nat
       /\ entries' \subseteq Conns /\ open' \subseteq Conns /\ closes' \in [Conns -> Nat]
  BY <1>1, <1>3, <1>8, <1>9, Closing, Zenon
<1>11. TypeOK'
  <2>1. retiring' \in [Conns -> BOOLEAN]
    BY <1>1 DEF PoolInv, TypeOK
  <2> QED BY <1>1, <1>4, <1>10, <2>1, Zenon DEF PoolInv, TypeOK
<1>12. Cap'
  BY <1>1, <1>10, Finite, PoolAssumption DEF PoolInv, Cap, TypeOK
<1> QED BY <1>5, <1>10, <1>11, <1>12, Zenon DEF PoolInv

\* A session that dies, and steps that change nothing.
LEMMA IdleStep == PoolInv /\ ((\E c \in Conns : Die(c)) \/ UNCHANGED vars) => PoolInv'
<1> SUFFICES ASSUME PoolInv, (\E c \in Conns : Die(c)) \/ UNCHANGED vars PROVE PoolInv'
  OBVIOUS
<1>1. /\ UNCHANGED <<entries, since, mode, active, retiring, pending, closed, pc, lease, open, closes>>
      /\ dead' \subseteq Conns
  BY DEF Die, vars, entryVars, connVars, PoolInv, TypeOK
<1>2. Dialing' = Dialing /\ Orphans' = Orphans /\ \A c \in Conns : Holders(c)' = Holders(c)
  BY <1>1 DEF Dialing, Orphans, Holders
<1> QED BY <1>1, <1>2 DEF PoolInv, TypeOK, Counts, Custody, Cap

\* The pool is empty.
LEMMA PoolInitially == Init => PoolInv
<1> SUFFICES ASSUME Init PROVE PoolInv
  OBVIOUS
<1>1. Cardinality({}) = 0 /\ Cardinality(Acquirers) \in Nat
  BY PoolAssumption, FS_EmptySet, FS_CardinalityType
<1>2. TypeOK
  <2>1. closed \in BOOLEAN /\ entries \subseteq Conns /\ dead \subseteq Conns /\ open \subseteq Conns
    BY Zenon DEF Init
  <2> QED BY <2>1, <1>1, PoolAssumption DEF TypeOK, Init, PCs
<1>3. Cap
  BY <1>1, PoolAssumption DEF Init, Cap
<1> QED BY <1>2, <1>3, <1>1 DEF PoolInv, Init, Counts, Dialing, Orphans, Holders, Custody

\* The inductive invariant: the counters count, every open connection has exactly one
\* custodian, and connections and promised places together keep to the cap.
LEMMA PoolInvariance == Spec => []PoolInv
<1>1. PoolInv /\ [Next]_vars => PoolInv'
  <2> SUFFICES ASSUME PoolInv, [Next]_vars PROVE PoolInv'
    OBVIOUS
  <2>1. ASSUME NEW a \in Acquirers, Acquire(a) PROVE PoolInv'
    BY <2>1, LookStep, ReuseStep DEF Acquire
  <2>2. ASSUME NEW a \in Acquirers, Dial(a) PROVE PoolInv'
    BY <2>2, LeaveStep, DialedStep, OrphanStep DEF Dial
  <2>3. ASSUME NEW a \in Acquirers, Release(a) \/ AcquireCancelled(a) PROVE PoolInv'
    BY <2>3, ReleaseStep, LeaveStep
  <2> QED BY <2>1, <2>2, <2>3, CloseStep, IdleStep DEF Next, Step, Finished
<1> QED BY <1>1, PoolInitially, PTL DEF Spec

\* For any number of calls and any cap, the connections that exist and the dials in
\* progress never exceed MaxConnections (pool.go's Acquire).
THEOREM CapKept == Spec => []CapHolds
<1>1. PoolInv => CapHolds
  BY SMTT(30) DEF PoolInv, CapHolds, Cap, Counts, Dialing
<1> QED BY <1>1, PoolInvariance, PTL

\* No lease is ever closed under its holder, and an HTTP/1.1 connection has one holder,
\* however Acquire, Release, expiry and Close interleave.
THEOREM LeasesGood == Spec => []LeaseIsGood
<1>1. PoolInv => LeaseIsGood
  <2> SUFFICES ASSUME PoolInv, NEW a \in Acquirers, pc[a] = "leased"
               PROVE  /\ lease[a] \in open
                      /\ \A b \in Acquirers \ {a} :
                           pc[b] = "leased" /\ lease[b] = lease[a] => mode[lease[a]] = "shared"
    BY DEF LeaseIsGood
  <2>1. ASSUME NEW b \in Acquirers \ {a}, pc[b] = "leased", lease[b] = lease[a], mode[lease[a]] # "shared"
        PROVE  FALSE
    <3> DEFINE S == Holders(lease[a])
    <3>1. a \in S /\ b \in S \ {a}
      BY <2>1, Zenon DEF Holders
    <3>2. IsFiniteSet(S) /\ Cardinality(S) <= 1
      BY <2>1, Finite, SMTT(30) DEF PoolInv, Counts, Custody, TypeOK
    <3> HIDE DEF S
    <3>3. /\ IsFiniteSet(S \ {a}) /\ Cardinality(S) \in Nat /\ Cardinality(S \ {a}) \in Nat
          /\ Cardinality(S) = Cardinality(S \ {a}) + 1
      BY <3>1, <3>2, Split
    <3> QED BY <3>1, <3>3, FS_EmptySet, <3>2, SMTT(30)
  <2> QED BY <2>1 DEF PoolInv, Custody, TypeOK
<1> QED BY <1>1, PoolInvariance, PTL

\* No connection is lost or closed twice, whichever of release, expiry, Close and a late
\* dial gets to it.
THEOREM NothingLeaks == Spec => []NoneLeaks
<1>1. PoolInv => NoneLeaks
  <2> SUFFICES ASSUME PoolInv PROVE NoneLeaks
    OBVIOUS
  <2>1. ASSUME closed, NEW c \in open PROVE c \in {lease[a] : a \in Acquirers}
    <3>1. CASE c \in entries
      BY Unheld, <2>1, <3>1, SMTT(30) DEF PoolInv, Custody, TypeOK
    <3>2. CASE c \notin entries
      BY <3>2 DEF PoolInv, Custody, Orphans
    <3> QED BY <3>1, <3>2
  <2> QED BY <2>1 DEF NoneLeaks, PoolInv, Custody, Orphans
<1> QED BY <1>1, PoolInvariance, PTL
=============================================================================
