------------------------------- MODULE Pool -------------------------------
(***************************************************************************)
(* The connection pool of the raw transport (internal/pool/pool.go), for   *)
(* one origin: origins share nothing but the notify channel, where a       *)
(* signal of another origin only makes a sleeper look again.               *)
(*                                                                         *)
(* A section under Pool.mu is one step; dial and resource.Close of an      *)
(* orphan run outside of it.  The clock is left out: any set of entries    *)
(* may turn out to be expired.  An acquirer is one Acquire and the Release *)
(* of its lease.  Entries are only ever appended and taken out, so the     *)
(* slice is the set of its entries, ordered by when they were appended.    *)
(***************************************************************************)
EXTENDS Naturals, FiniteSets

CONSTANTS
  Acquirers,        \* the calls of Acquire
  Conns, NoConn,    \* the connections that can be dialled; none of them
  MaxConnections    \* options.MaxConnections

ASSUME PoolAssumption ==
  /\ IsFiniteSet(Acquirers) /\ IsFiniteSet(Conns) /\ NoConn \notin Conns
  /\ MaxConnections \in Nat \ {0}

VARIABLES
  entries, since,   \* p.entries[key]; when each was appended, as a rank
  mode, active, retiring,   \* fields of entry, by connection
  pending, closed,  \* p.pending[key], p.closed
  pc, lease,        \* where each acquirer is; its connection
  dead,             \* connections whose Reusable is false
  open, closes      \* the connections that are open; Close calls, by connection

entryVars == <<entries, since, mode, active, retiring>>
connVars  == <<dead, open, closes>>
vars == <<entryVars, pending, closed, pc, lease, connVars>>

Modes == {"exclusive", "shared"}
PCs == {"acquire",  \* before the locked section of Acquire
        "dialing", "waiting", "leased",
        "orphan",   \* the pool was closed during the dial
        "done"}

TypeOK ==
  /\ entries \subseteq Conns /\ since \in [Conns -> Nat]
  /\ mode \in [Conns -> Modes \cup {"none"}]
  /\ active \in [Conns -> 0..Cardinality(Acquirers)] /\ retiring \in [Conns -> BOOLEAN]
  /\ pending \in 0..MaxConnections /\ closed \in BOOLEAN
  /\ pc \in [Acquirers -> PCs] /\ lease \in [Acquirers -> Conns \cup {NoConn}]
  /\ dead \subseteq Conns /\ open \subseteq Conns /\ closes \in [Conns -> Nat]

Init ==
  /\ entries = {} /\ since = [c \in Conns |-> 0] /\ mode = [c \in Conns |-> "none"]
  /\ active = [c \in Conns |-> 0] /\ retiring = [c \in Conns |-> FALSE]
  /\ pending = 0 /\ closed = FALSE
  /\ pc = [a \in Acquirers |-> "acquire"] /\ lease = [a \in Acquirers |-> NoConn]
  /\ dead = {} /\ open = {} /\ closes = [c \in Conns |-> 0]
-----------------------------------------------------------------------------
(* Helpers                                                                 *)

\* The resources in s are closed.
CloseConns(s) ==
  /\ open' = open \ s
  /\ closes' = [c \in Conns |-> IF c \in s THEN closes[c] + 1 ELSE closes[c]]

\* close(notify): every sleeper looks again.
Woken(f) == [a \in Acquirers |-> IF f[a] = "waiting" THEN "acquire" ELSE f[a]]

\* signalLocked.
Signalled(f) == IF closed THEN f ELSE Woken(f)

\* expireLocked, when the entries in x have reached their lifetime or idle timeout:
\* the retiring flags, the entries that go, and those that stay.
Retired(x) == [c \in Conns |-> retiring[c] \/ c \in x]
Expired(x) == {c \in entries : Retired(x)[c] /\ active[c] = 0}
Kept(x)    == entries \ Expired(x)

\* availableLocked: which candidates it may return, the first of them, which it does
\* return, and the candidates it looks at before.
Usable(c, x) == c \notin dead /\ ~Retired(x)[c] /\ (mode[c] = "shared" \/ active[c] = 0)
Candidates(x) == {c \in Kept(x) : Usable(c, x)}
IsFirst(c, x) == c \in Candidates(x) /\ \A d \in Candidates(x) : since[c] <= since[d]
Skipped(x)    == {d \in Kept(x) : \A c \in Candidates(x) : since[d] < since[c]}
\* ... which it retires if they are not Reusable.
Scanned(x) == [c \in Conns |-> Retired(x)[c] \/ (c \in Skipped(x) /\ c \in dead)]

\* Seeded fault: expired connections are forgotten, not closed.
ExpireForgets(x) == entries' = Kept(x) /\ UNCHANGED <<open, closes>>

Expire(x) == entries' = Kept(x) /\ CloseConns(Expired(x))
-----------------------------------------------------------------------------
(* Acquire                                                                 *)

\* ctx.Err() is not nil, or ctx.Done() wins the select.
AcquireCancelled(a) ==
  /\ pc[a] \in {"acquire", "waiting"}
  /\ pc' = [pc EXCEPT ![a] = "done"]
  /\ UNCHANGED <<entryVars, pending, closed, lease, connVars>>

AcquireClosed(a, x) ==
  /\ pc[a] = "acquire" /\ closed
  /\ Expire(x) /\ retiring' = Retired(x)
  /\ pc' = [pc EXCEPT ![a] = "done"]
  /\ UNCHANGED <<since, mode, active, pending, closed, lease, dead>>

AcquireReuse(a, c, x) ==
  /\ pc[a] = "acquire" /\ ~closed /\ IsFirst(c, x)
  /\ Expire(x) /\ retiring' = Scanned(x)
  /\ active' = [active EXCEPT ![c] = @ + 1] /\ lease' = [lease EXCEPT ![a] = c]
  /\ pc' = [pc EXCEPT ![a] = "leased"]
  /\ UNCHANGED <<since, mode, pending, closed, dead>>

\* Seeded fault: dials in progress do not count.
RoomBesidesPending(x) == Cardinality(Kept(x)) < MaxConnections

HasRoom(x) == Cardinality(Kept(x)) + pending < MaxConnections

AcquireDial(a, x) ==
  /\ pc[a] = "acquire" /\ ~closed /\ Candidates(x) = {} /\ HasRoom(x)
  /\ Expire(x) /\ retiring' = Scanned(x)
  /\ pending' = pending + 1
  /\ pc' = [pc EXCEPT ![a] = "dialing"]
  /\ UNCHANGED <<since, mode, active, closed, lease, dead>>

AcquireWait(a, x) ==
  /\ pc[a] = "acquire" /\ ~closed /\ Candidates(x) = {} /\ ~HasRoom(x)
  /\ Expire(x) /\ retiring' = Scanned(x)
  /\ pc' = [pc EXCEPT ![a] = "waiting"]
  /\ UNCHANGED <<since, mode, active, pending, closed, lease, dead>>

Acquire(a) ==
  \E x \in SUBSET entries :
    \/ AcquireClosed(a, x) \/ AcquireDial(a, x) \/ AcquireWait(a, x)
    \/ \E c \in Kept(x) : AcquireReuse(a, c, x)

DialFails(a) ==
  /\ pc[a] = "dialing"
  /\ pending' = pending - 1
  /\ pc' = Signalled([pc EXCEPT ![a] = "done"])
  /\ UNCHANGED <<entryVars, closed, lease, connVars>>

\* The dialled connection c becomes an entry with one lease.
AddEntry(a, c, m) ==
  /\ pc[a] = "dialing" /\ mode[c] = "none"
  /\ mode' = [mode EXCEPT ![c] = m]
  /\ pending' = pending - 1
  /\ open' = open \cup {c} /\ lease' = [lease EXCEPT ![a] = c]
  /\ active' = [active EXCEPT ![c] = 1] /\ entries' = entries \cup {c}
  /\ since' = [since EXCEPT ![c] = Cardinality({d \in Conns : mode[d] # "none"})]
  /\ pc' = Signalled([pc EXCEPT ![a] = "leased"])
  /\ UNCHANGED <<retiring, closed, dead, closes>>

Dialed(a, c, m) == ~closed /\ AddEntry(a, c, m)

DialedTooLate(a, c, m) ==
  /\ pc[a] = "dialing" /\ mode[c] = "none" /\ closed
  /\ mode' = [mode EXCEPT ![c] = m]
  /\ pending' = pending - 1
  /\ open' = open \cup {c} /\ lease' = [lease EXCEPT ![a] = c]
  /\ pc' = [pc EXCEPT ![a] = "orphan"]
  /\ UNCHANGED <<entries, since, active, retiring, closed, dead, closes>>

CloseOrphan(a) ==
  /\ pc[a] = "orphan"
  /\ CloseConns({lease[a]})
  /\ pc' = [pc EXCEPT ![a] = "done"] /\ lease' = [lease EXCEPT ![a] = NoConn]
  /\ UNCHANGED <<entryVars, pending, closed, dead>>

Dial(a) ==
  \/ DialFails(a) \/ CloseOrphan(a)
  \/ \E c \in Conns, m \in Modes : Dialed(a, c, m) \/ DialedTooLate(a, c, m)
-----------------------------------------------------------------------------
(* Release and Close                                                       *)

\* Release, with the last lease of a retiring connection closing it.  remaining is
\* what removeLocked leaves, next the acquirers afterwards.
ReleaseWith(a, remaining, next) ==
  /\ pc[a] = "leased"
  /\ \E reusable \in BOOLEAN :
       LET c == lease[a]
           retires == retiring[c] \/ ~reusable \/ closed
           goes    == retires /\ active[c] = 1
       IN /\ mode[c] = "shared" => reusable = (c \notin dead)
          /\ active' = [active EXCEPT ![c] = @ - 1]
          /\ retiring' = [retiring EXCEPT ![c] = retires]
          /\ entries' = IF goes THEN remaining ELSE entries
          /\ CloseConns(IF goes THEN {c} ELSE {})
  /\ lease' = [lease EXCEPT ![a] = NoConn]
  /\ pc' = next
  /\ UNCHANGED <<since, mode, pending, closed, dead>>

Without(c) == entries \ {c}

\* Seeded fault: nobody is told of the release.
ReleaseQuietly(a)    == ReleaseWith(a, Without(lease[a]), [pc EXCEPT ![a] = "done"])

Release(a) == ReleaseWith(a, Without(lease[a]), Signalled([pc EXCEPT ![a] = "done"]))

\* Seeded fault: Close closes the leased connections, too.
CloseEverything ==
  /\ ~closed
  /\ closed' = TRUE /\ entries' = {}
  /\ retiring' = [c \in Conns |-> retiring[c] \/ c \in entries]
  /\ CloseConns(entries)
  /\ pc' = Woken(pc)
  /\ UNCHANGED <<since, mode, active, pending, lease, dead>>

Close ==
  /\ ~closed
  /\ closed' = TRUE
  /\ retiring' = [c \in Conns |-> retiring[c] \/ c \in entries]
  /\ entries' = {c \in entries : active[c] > 0}
  /\ CloseConns({c \in entries : active[c] = 0})
  /\ pc' = Woken(pc)
  /\ UNCHANGED <<since, mode, active, pending, lease, dead>>

\* Session.Reusable turns false (external to the pool).
Die(c) ==
  /\ mode[c] = "shared" /\ c \in open \ dead
  /\ dead' = dead \cup {c}
  /\ UNCHANGED <<entryVars, pending, closed, pc, lease, open, closes>>

Step(a) == Acquire(a) \/ Dial(a) \/ Release(a)

Finished == (\A a \in Acquirers : pc[a] = "done") /\ UNCHANGED vars

Next ==
  \/ \E a \in Acquirers : Step(a) \/ AcquireCancelled(a)
  \/ Close \/ (\E c \in Conns : Die(c)) \/ Finished

Spec == Init /\ [][Next]_vars

\* Goroutines run, and the connect and attempt timeouts end a dial and a lease.
FairSpec == Spec /\ \A a \in Acquirers : WF_vars(Step(a))
-----------------------------------------------------------------------------
(* Properties                                                              *)

\* Every variable keeps its type, and the per-origin cap bounds the connections that
\* exist, whatever the counters say: open ones and dials in progress.
CapHolds ==
  /\ TypeOK
  /\ Cardinality(open) + Cardinality({a \in Acquirers : pc[a] = "dialing"}) <= MaxConnections

\* A lease is good for as long as it is held: no expiry, no Close and no release of
\* another share closes its connection, and no other lease has it unless it is a
\* multiplexed session.
LeaseIsGood ==
  \A a \in Acquirers : pc[a] = "leased" =>
    /\ lease[a] \in open
    /\ \A b \in Acquirers \ {a} :
         pc[b] = "leased" /\ lease[b] = lease[a] => mode[lease[a]] = "shared"

\* No connection is lost and none is closed twice: resource.Close is called at most
\* once on all paths together, an open connection is an entry or about to be closed,
\* and after Close it is leased as well.
NoneLeaks ==
  /\ \A c \in Conns : closes[c] <= 1
  /\ open \subseteq entries \cup {lease[a] : a \in {b \in Acquirers : pc[b] = "orphan"}}
  /\ closed => open \subseteq {lease[a] : a \in Acquirers}

\* Acquire reuses a connection or dials under the cap; it sleeps only while somebody
\* is left who will signal: a lease or a dial in progress.
SleeperWillWake ==
  (\E a \in Acquirers : pc[a] = "waiting") => \E a \in Acquirers : pc[a] \in {"leased", "dialing"}

\* An idle session that is not Reusable any more still holds a place under the cap.
Stranded == \E c \in entries : active[c] = 0 /\ c \in dead

\* Every Acquire returns, at the cap too, unless an unusable idle session is left in
\* its place for ever (only a later call of expireLocked takes it out).
AcquireReturns == []<>~Stranded => \A a \in Acquirers : <>(pc[a] = "done")
=============================================================================
