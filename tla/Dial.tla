-------------------------------- MODULE Dial --------------------------------
(***************************************************************************)
(* A new connection: rawTransport.dial and dialProxy (transport_raw.go),   *)
(* proxyconnect.Connect and connectOnce, tlsx.DialTCP and dialResolved.    *)
(*                                                                         *)
(* Every address of the host is dialled by a goroutine of its own and the  *)
(* first connection wins.  Through a proxy there are up to two such races, *)
(* the second to send the credentials a 407 asked for; while the proxy     *)
(* answers, a callback of the context may close the connection, and while  *)
(* NewSession waits for the server's SETTINGS another one may set its      *)
(* deadline.  dial cancels the context itself when it returns.             *)
(*                                                                         *)
(* A connection is the round and the address it was dialled for.  The      *)
(* connect timeout and the attempt's end are one end of the context.       *)
(* Attempt composes this with RawTransport.                                *)
(***************************************************************************)
EXTENDS Naturals, Sequences, FiniteSets

CONSTANTS
  Addresses,             \* what the name resolves to
  NoConn

Rounds == 1..2
Conns == Rounds \X Addresses

VARIABLES
  route,                 \* options.Proxy, its CredentialsProvider, options.DNSResolver,
                         \* endpoint.scheme
  pc,
  ended,                 \* the connect context: "no", "ended", or "returned" if it
                         \* lived until dial cancelled it
  round,                 \* which race this is
  dialer,                \* the goroutines of dialResolved and what they sent
  stop,                  \* dialContext is cancelled
  conn,                  \* winner, and then the connection that is set up
  watch,                 \* connections a callback of the context will close
  hurry,                 \* a callback of the context will set conn's deadline
  rushed,                \* conn's deadline has passed
  status,                \* of the last CONNECT
  certificate,           \* clientCertificateRequested
  result,                \* what dial returns
  open, requests         \* history: open connections; the CONNECTs written

raceVars == <<dialer, stop>>
rushVars == <<hurry, rushed>>
vars == <<route, pc, ended, round, raceVars, conn, watch, rushVars, status, certificate, result,
          open, requests>>

DialStates == {"idle", "dialling", "connected", "failed", "taken"}
Results == {"none", "h1", "h2", "tcp", "negotiation", "tls", "session", "proxy", "proxyAuth", "credentials"}
Routes == {r \in [proxied : BOOLEAN, provider : BOOLEAN, resolver : BOOLEAN, https : BOOLEAN] :
             r.provider => r.proxied}

TypeOK ==
  /\ route \in Routes
  /\ pc \in {"resolve", "race", "connect", "answer", "answered", "status", "provider",
             "tls", "deadline", "preface", "done", "returned"}
  /\ ended \in {"no", "ended", "returned"} /\ hurry \in BOOLEAN /\ rushed \in BOOLEAN
  /\ round \in Rounds /\ stop \in BOOLEAN
  /\ dialer \in [Addresses -> DialStates]
  /\ conn \in Conns \cup {NoConn} /\ watch \subseteq Conns
  /\ status \in {0, 200, 407, 502} /\ certificate \in BOOLEAN /\ result \in Results
  /\ open \subseteq Conns
  /\ requests \in Seq([on : Conns, credentials : BOOLEAN])

Init ==
  /\ route \in Routes
  /\ pc = "resolve" /\ ended = "no" /\ hurry = FALSE /\ rushed = FALSE /\ round = 1 /\ stop = FALSE
  /\ dialer = [a \in Addresses |-> "idle"]
  /\ conn = NoConn /\ watch = {} /\ status = 0 /\ certificate = FALSE /\ result = "none"
  /\ open = {} /\ requests = <<>>

Return(r) == pc' = "done" /\ result' = r
Close(c) == open' = open \ {c}
\* The error dial returns: connectOnce makes every one of them a proxy failure.
DialError == IF route.proxied THEN "proxy" ELSE "tcp"

ContextEnds ==
  /\ ended = "no" /\ pc # "returned"
  /\ ended' = "ended"
  /\ UNCHANGED <<route, pc, round, raceVars, conn, watch, rushVars, status, certificate, result,
                 open, requests>>

\* The deferred cancel of dial: callbacks that are still there run now.
CancelOnReturn ==
  /\ pc = "done"
  /\ pc' = "returned" /\ ended' = IF ended = "no" THEN "returned" ELSE ended
  /\ UNCHANGED <<route, round, raceVars, conn, watch, rushVars, status, certificate, result,
                 open, requests>>
-----------------------------------------------------------------------------
(* dialResolved                                                            *)

RaceFrame == UNCHANGED <<route, ended, round, watch, rushVars, status, certificate, requests>>

\* connectOnce looks at the context first; the name may not resolve, or to nothing.  The
\* caller's DNSResolver, if there is one, is called here.
ResolveFails ==
  /\ pc = "resolve"
  /\ Return(DialError)
  /\ UNCHANGED <<raceVars, conn, open>> /\ RaceFrame

StartRace ==
  /\ pc = "resolve" /\ ~(route.proxied /\ ended # "no")
  /\ pc' = "race" /\ stop' = FALSE /\ conn' = NoConn
  /\ dialer' = [a \in Addresses |-> "dialling"]
  /\ UNCHANGED <<result, open>> /\ RaceFrame

\* A dial may succeed although its context has just ended.
DialerConnects(a) ==
  /\ dialer[a] = "dialling"
  /\ dialer' = [dialer EXCEPT ![a] = "connected"]
  /\ open' = open \cup {<<round, a>>}
  /\ UNCHANGED <<pc, stop, conn, result>> /\ RaceFrame

DialerFails(a) ==
  /\ dialer[a] = "dialling"
  /\ dialer' = [dialer EXCEPT ![a] = "failed"]
  /\ UNCHANGED <<pc, stop, conn, result, open>> /\ RaceFrame

CollectResult(a) ==
  /\ pc = "race" /\ dialer[a] \in {"connected", "failed"}
  /\ dialer' = [dialer EXCEPT ![a] = "taken"]
  /\ IF dialer[a] = "connected" /\ conn = NoConn
     THEN conn' = <<round, a>> /\ stop' = TRUE /\ UNCHANGED open
     ELSE Close(<<round, a>>) /\ UNCHANGED <<conn, stop>>
  /\ UNCHANGED <<pc, result>> /\ RaceFrame

EndRace ==
  /\ pc = "race" /\ \A a \in Addresses : dialer[a] = "taken"
  /\ IF conn = NoConn THEN Return(DialError)
     ELSE pc' = (IF route.proxied THEN "connect" ELSE "tls") /\ UNCHANGED result
  /\ UNCHANGED <<raceVars, conn, open>> /\ RaceFrame
-----------------------------------------------------------------------------
(* Connect and connectOnce                                                 *)

ProxyFrame == UNCHANGED <<route, ended, raceVars, rushVars, conn, certificate>>

SendConnect ==
  /\ pc = "connect"
  /\ pc' = "answer" /\ watch' = watch \cup {conn}
  /\ requests' = Append(requests, [on |-> conn, credentials |-> round = 2])
  /\ UNCHANGED <<round, status, result, open>> /\ ProxyFrame

\* The callback of the context, in a goroutine of its own.
CloseOnEnd(c) ==
  /\ ended # "no" /\ c \in watch
  /\ watch' = watch \ {c} /\ Close(c)
  /\ UNCHANGED <<route, pc, ended, round, raceVars, conn, rushVars, status, certificate, result, requests>>

\* The write or the read fails, or the answer is no response head.  The deferred stop
\* takes the callback back if the context lives.
ConnectFails ==
  /\ pc = "answer"
  /\ Close(conn) /\ watch' = (IF ended # "no" THEN watch ELSE watch \ {conn})
  /\ Return("proxy")
  /\ UNCHANGED <<round, status, requests>> /\ ProxyFrame

ReadResponseHead ==
  /\ pc = "answer" /\ conn \in open
  /\ pc' = "answered" /\ status' \in {200, 407, 502}
  /\ UNCHANGED <<round, watch, result, open, requests>> /\ ProxyFrame

\* stopCancellation() is true: the callback will not run.
StopCancellation ==
  /\ pc = "answered" /\ ended = "no"
  /\ pc' = "status" /\ watch' = watch \ {conn}
  /\ UNCHANGED <<round, status, result, open, requests>> /\ ProxyFrame

\* It is false: connectOnce waits for the callback.
AwaitCancellation ==
  /\ pc = "answered" /\ ended # "no" /\ conn \notin watch
  /\ Return("proxy")
  /\ UNCHANGED <<round, watch, status, open, requests>> /\ ProxyFrame

UseTunnel ==
  /\ pc = "status" /\ status = 200
  /\ pc' = "tls"
  /\ UNCHANGED <<round, watch, status, result, open, requests>> /\ ProxyFrame

RefuseTunnel ==
  /\ pc = "status" /\ status # 200
  /\ Close(conn)
  /\ IF status = 407 /\ round = 1 /\ route.provider THEN pc' = "provider" /\ UNCHANGED result
     ELSE Return(IF status = 407 THEN "proxyAuth" ELSE "proxy")
  /\ UNCHANGED <<round, watch, status, requests>> /\ ProxyFrame

\* callProvider; a panic is a failure.  Nothing bounds the call.
ProviderReturns ==
  /\ pc = "provider"
  /\ \/ pc' = "resolve" /\ round' = 2 /\ UNCHANGED result
     \/ Return("credentials") /\ UNCHANGED round
  /\ UNCHANGED <<watch, status, open, requests>> /\ ProxyFrame
-----------------------------------------------------------------------------
(* The rest of dial                                                        *)

SetupFrame == UNCHANGED <<route, ended, round, raceVars, conn, watch, status, requests>>

UsePlain ==
  /\ pc = "tls" /\ ~route.https
  /\ Return("h1")
  /\ UNCHANGED <<certificate, open, rushVars>> /\ SetupFrame

HandshakeFails ==
  /\ pc = "tls" /\ route.https
  /\ certificate' \in BOOLEAN
  /\ Close(conn) /\ Return(IF certificate' THEN "negotiation" ELSE "tls")
  /\ UNCHANGED rushVars /\ SetupFrame

\* With HTTP/2 comes NewSession, which registers its callback first.
Handshake ==
  /\ pc = "tls" /\ route.https /\ conn \in open
  /\ certificate' \in BOOLEAN
  /\ \/ pc' = "deadline" /\ hurry' = TRUE /\ UNCHANGED result
     \/ Return("h1") /\ UNCHANGED hurry
  /\ UNCHANGED <<open, rushed>> /\ SetupFrame

\* The deadline of the context, which undoes what a callback has already done.
SetHandshakeDeadline ==
  /\ pc = "deadline"
  /\ pc' = "preface" /\ rushed' = FALSE
  /\ UNCHANGED <<certificate, result, open, hurry>> /\ SetupFrame

\* ... and passes in its turn, at the latest some time after the context has ended.
DeadlinePasses ==
  /\ pc = "preface" /\ ended # "no" /\ ~rushed
  /\ rushed' = TRUE
  /\ UNCHANGED <<certificate, pc, result, open, hurry>> /\ SetupFrame

\* The callback of NewSession, in a goroutine of its own.
RushOnEnd ==
  /\ ended # "no" /\ hurry
  /\ hurry' = FALSE /\ rushed' = TRUE
  /\ UNCHANGED <<certificate, pc, result, open>> /\ SetupFrame

\* Seeded fault: the callback is not taken back.
KeepHurry == rushed' = FALSE /\ UNCHANGED hurry

\* The deferred end of NewSession: a callback that has begun is not waited for.
StopHurry == rushed' = FALSE /\ hurry' = (hurry /\ ended # "no")

\* SetDeadline, the write of the preface or of a SETTINGS frame fails, or the server's
\* is not one.
PrefaceFails ==
  /\ pc \in {"deadline", "preface"}
  /\ StopHurry
  /\ Close(conn) /\ Return(IF certificate THEN "negotiation" ELSE "session")
  /\ UNCHANGED certificate /\ SetupFrame

NewSession ==
  /\ pc = "preface" /\ conn \in open
  /\ StopHurry
  /\ Return("h2")
  /\ UNCHANGED <<certificate, open>> /\ SetupFrame
-----------------------------------------------------------------------------
Done == pc = "returned" /\ UNCHANGED vars

\* What the network decides while the context lives, and the caller's provider and
\* resolver always.
PeerStep ==
  \/ StartRace \/ ProviderReturns
  \/ \E a \in Addresses : DialerConnects(a)
  \/ ReadResponseHead \/ Handshake \/ NewSession
\* It fails on its own, and must when the context has ended.
FailStep ==
  \/ ResolveFails \/ ConnectFails \/ HandshakeFails \/ PrefaceFails
  \/ \E a \in Addresses : DialerFails(a)
OwnStep ==
  \/ EndRace \/ SendConnect \/ StopCancellation \/ AwaitCancellation
  \/ UseTunnel \/ RefuseTunnel \/ UsePlain \/ SetHandshakeDeadline \/ CancelOnReturn
  \/ \E a \in Addresses : CollectResult(a)
Callback == DeadlinePasses \/ RushOnEnd \/ \E c \in Conns : CloseOnEnd(c)

Next == ContextEnds \/ PeerStep \/ FailStep \/ OwnStep \/ Callback \/ Done
Spec == Init /\ [][Next]_vars

\* An operation bound to a context, a cancelled dial and a read from a closed connection
\* or past its deadline fail.  The caller's code gets the context and may ignore it.
Interrupted ==
  \/ (ended # "no" \/ stop) /\ \E a \in Addresses : DialerFails(a)
  \/ ended # "no" /\ (HandshakeFails \/ (~route.resolver /\ ResolveFails))
  \/ conn \notin open /\ ConnectFails
  \/ rushed /\ pc = "preface" /\ PrefaceFails
-----------------------------------------------------------------------------
(* Properties                                                              *)

\* When dial has returned, the connection it hands over is open and the only one, and
\* after a failure none is: losers of the race (dialResolved), refused tunnels (Connect)
\* and failed handshakes (dial) are closed.  If the context lived, neither its callbacks
\* nor dial's own cancel touch the connection: none is left that closes it or sets its
\* deadline (connectOnce, NewSession).  dialResolved returns only after every goroutine
\* it started has sent its result, so none opens a connection behind its back.
OneOrNone ==
  /\ TypeOK
  /\ pc \in {"done", "returned"} => open = IF result \in {"h1", "h2"} THEN {conn} ELSE {}
  /\ pc = "returned" /\ result \in {"h1", "h2"} /\ rushed => ended = "ended"
  /\ pc # "race" => \A a \in Addresses : dialer[a] \in {"idle", "taken"}

\* Connect sends credentials at most once, on a connection of their own, and only after
\* a request without them was answered by 407.
CredentialsAreAskedFor ==
  \A i \in DOMAIN requests :
    requests[i].credentials =>
      i = 2 /\ Len(requests) = 2 /\ ~requests[1].credentials
      /\ requests[1].on # requests[2].on /\ requests[1].on \notin open
=============================================================================
