------------------------------- MODULE Attempt -------------------------------
(***************************************************************************)
(* One attempt with the connection it dials: rawTransport.Send             *)
(* (RawTransport) and rawTransport.dial (Dial) as one program.             *)
(*                                                                         *)
(* Acquire hands out a connection of the pool or dials one, and sendH1     *)
(* dials one to replace a connection from the pool that turned out stale,  *)
(* so that an attempt dials at most once.  The context of the dial is a    *)
(* child of the attempt's, with the connect timeout on top, and the        *)
(* callbacks of the dial outlive it.                                       *)
(***************************************************************************)
EXTENDS RawTransport, FiniteSets

CONSTANTS Addresses, NoConn

VARIABLES
  dialled,               \* the attempt has called dial
  route, dialPC, ended, round, dialer, stop, conn, watch, hurry, rushed, status, requested,
  result, open, requests \* the state of Dial; requested is its certificate

localVars == <<route, dialPC, round, dialer, stop, status, requested, requests>>
dialVars  == <<localVars, result, ended, conn, watch, hurry, rushed, open>>
attemptVars == <<vars, dialled, dialVars>>

D == INSTANCE Dial WITH pc <- dialPC, certificate <- requested

ASSUME DialAssumption ==
  /\ IsFiniteSet(Addresses) /\ Addresses # {} /\ NoConn \notin (1..2) \X Addresses

\* How dial will reach the server is settled, but matters only to a dial.
Unrouted == [proxied |-> FALSE, provider |-> FALSE, resolver |-> FALSE, https |-> FALSE]

AttemptInit == Init /\ dialled = FALSE /\ D!Init /\ route = Unrouted
-----------------------------------------------------------------------------
(* The two contexts                                                        *)

AttemptEnds ==
  /\ ContextEnds
  /\ ended' = IF ended = "no" THEN "ended" ELSE ended
  /\ UNCHANGED <<dialled, localVars, result, conn, watch, hurry, rushed, open>>

Dialling == pc \in {"acquire", "redial"} /\ dialled

ConnectTimeout == Dialling /\ D!ContextEnds /\ UNCHANGED <<vars, dialled>>
-----------------------------------------------------------------------------
(* The pool and the dial                                                   *)

\* Acquire gives a connection that was leased before, or fails without dialling: the
\* context has ended, or the pool is closed.
AcquirePooled ==
  /\ ~dialled
  /\ \/ AcquireH1 /\ reused'
     \/ AcquireH2
     \/ AcquireFails("other")
     \/ ctx = "expired" /\ AcquireFails("deadline")
     \/ ctx = "cancelled" /\ AcquireFails("cancelled")
  /\ UNCHANGED <<dialled, dialVars>>

BeginDial ==
  /\ pc \in {"acquire", "redial"} /\ ~dialled
  /\ dialled' = TRUE /\ route' \in D!Routes
  /\ UNCHANGED <<vars, dialPC, round, dialer, stop, status, requested, requests>>
  /\ UNCHANGED <<result, ended, conn, watch, hurry, rushed, open>>

DialPeer == Dialling /\ D!PeerStep /\ UNCHANGED <<vars, dialled>>
DialFail == Dialling /\ D!FailStep /\ UNCHANGED <<vars, dialled>>
DialOwn  == Dialling /\ D!OwnStep /\ UNCHANGED <<vars, dialled>>
DialCallback == D!Callback /\ UNCHANGED <<vars, dialled>>

\* Seeded fault: the connect timeout passes for a cancellation.
EndCausesBlurred == IF ended = "ended" THEN {"deadline", "cancelled"} ELSE {}

EndCauses ==
  CASE ended # "ended" -> {}
    [] ended = "ended" /\ ctx = "cancelled" -> {"deadline", "cancelled"}
    [] OTHER -> {"deadline"}

\* What dialFailure finds in the error.
DialCauses ==
  CASE result = "tcp" -> {"dns", "refused", "timeout", "other"} \cup EndCauses
    [] result = "tls" -> Causes \cup {"certificate"} \cup EndCauses
    [] result = "session" -> Causes
    [] OTHER -> {result}

\* dial has returned: its local variables are gone, and the connections in left open.
Take(left) ==
  /\ open' = left
  /\ route' = Unrouted /\ round' = 1 /\ dialer' = [a \in Addresses |-> "idle"] /\ stop' = FALSE
  /\ status' = 0 /\ requested' = FALSE /\ requests' = <<>>
  /\ UNCHANGED <<dialled, dialPC, result, ended, conn, watch, hurry, rushed>>

AcquireDialled ==
  /\ dialPC = "returned"
  /\ \/ result = "h1" /\ AcquireH1 /\ ~reused' /\ certificate' = requested /\ Take(open)
     \/ result = "h2" /\ AcquireH2 /\ Take(open)
     \/ result \in {"h1", "h2"} /\ AcquireFails("other") /\ Take({})
     \/ result \notin {"h1", "h2"} /\ \E e \in DialCauses : AcquireFails(e) /\ Take(open)

RedialDialled ==
  /\ dialPC = "returned"
  /\ \/ result = "h1" /\ Redial /\ Take(open)
     \/ result = "h2" /\ RedialMismatch /\ Take({})
     \/ result \notin {"h1", "h2"} /\ \E e \in DialCauses : RedialFails(e) /\ Take(open)

\* The steps of RawTransport, which close the connection when its lease is released for
\* good, or the one of the replay.
Settling ==
  /\ dialled' = dialled
  /\ open' = IF fresh' = "closed" \/ (~reused /\ lease' = "retired") THEN {} ELSE open
  /\ UNCHANGED <<localVars, result, ended, conn, watch, hurry, rushed>>

AttemptNext ==
  \/ AttemptEnds \/ ConnectTimeout
  \/ AcquirePooled \/ BeginDial \/ DialPeer \/ DialFail \/ DialOwn \/ DialCallback
  \/ AcquireDialled \/ RedialDialled
  \/ (PeerStep \/ OwnStep \/ CallbackRuns) /\ Settling
  \/ Done /\ UNCHANGED <<dialled, dialVars>>

AttemptSpec == AttemptInit /\ [][AttemptNext]_attemptVars

\* The goroutine of Send runs, the callbacks of a context run once it has ended, and what
\* is bound to a context, or to a connection past its deadline or closed, fails.  Nothing
\* is assumed of a peer or of the caller's resolver and provider.
FairAttempt ==
  /\ AttemptSpec
  /\ WF_attemptVars(OwnStep /\ Settling) /\ WF_attemptVars(CallbackRuns /\ Settling)
  /\ WF_attemptVars(AcquireDialled \/ RedialDialled) /\ WF_attemptVars(DialOwn)
  /\ WF_attemptVars(ctx # "live" /\ AcquirePooled) /\ WF_attemptVars(pc = "redial" /\ BeginDial)
  /\ WF_attemptVars(DialCallback)
  /\ WF_attemptVars(Dialling /\ D!Interrupted /\ UNCHANGED <<vars, dialled>>)
-----------------------------------------------------------------------------
(* Properties                                                              *)

\* To everything above it, an attempt is what RawTransport says, where a dial is one
\* step that fails or not: whatever happens inside dial, its errors are ones that
\* dialFailure accounts for, and each only when it is due.
ImplementsRaw == Spec

\* Every connection dialled for an attempt is accounted for: dial leaves one open or none
\* (losers of the race, refused tunnels and failed handshakes are closed, and no goroutine
\* dials on behind its back), what it hands over stays open until the lease is released or
\* the replay ends, and then it is closed or kept in the pool.  In particular neither the
\* context's end nor the cancel that dial and Send defer reaches it through a callback of
\* the dial that is left (connectOnce, NewSession, Pool.Acquire, sendH1).  A proxy gets the
\* credentials only once it asked for them, on a connection of their own (Connect).
OneOrNone ==
  /\ D!TypeOK
  /\ Dialling => D!OneOrNone
  /\ D!CredentialsAreAskedFor
  /\ dialled /\ ~Dialling =>
       /\ open = IF (lease \in {"held", "kept"} /\ ~reused) \/ fresh = "open" THEN {conn} ELSE {}
       /\ rushed => ended = "ended"

\* What Send waits for without a bound: the caller's CredentialsProvider or DNSResolver
\* (callProvider, resolve), and the write of an RST_STREAM (resetCanceledStream).
Held ==
  \/ pc = "doReset"
  \/ Dialling /\ (dialPC = "provider" \/ (dialPC = "resolve" /\ route.resolver))

\* When its context ends, Send returns: a server or a proxy that stays silent cannot hold
\* the attempt, nor can the built-in resolver.  Only the caller's own code and a peer that
\* no longer reads the frames of a session can, and no race of the dial, the callbacks of
\* its context and the exchange does.
SendReturns == (ctx # "live" ~> pc = "returned") \/ <>[]Held
=============================================================================
