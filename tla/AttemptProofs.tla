---------------------------- MODULE AttemptProofs ----------------------------
(***************************************************************************)
(* With the steps of dial in full, an attempt is still the one RawTransport*)
(* specifies, and loses no connection: proofs about Attempt.               *)
(***************************************************************************)
EXTENDS Attempt, RawTransportProofs, Sequences
-----------------------------------------------------------------------------
(* The steps of dial                                                       *)

\* What dial returned is a connection.
Handed == result \in {"h1", "h2"}

\* Which connections are open at each place of dial.
RaceShape ==
  /\ \A x \in open : x = conn \/ \E a \in Addresses : x = <<round, a>> /\ dialer[a] = "connected"
  /\ \A a \in Addresses : dialer[a] = "connected" => <<round, a>> \in open
  /\ conn # NoConn => conn \in open /\ \E a \in Addresses : conn = <<round, a>> /\ dialer[a] = "taken"

OpenShape ==
  /\ dialPC = "race" => RaceShape
  /\ dialPC # "race" => \A a \in Addresses : dialer[a] \in {"idle", "taken"}
  /\ dialPC \in {"connect", "status", "tls", "deadline", "preface"} => open = {conn}
  /\ dialPC \in {"answer", "answered"} => open = watch /\ (ended = "no" => watch = {conn})
  /\ dialPC \in {"resolve", "provider"} => open = {}
  /\ dialPC \in {"connect", "answer", "answered", "status", "tls", "deadline", "preface"} => conn \in D!Conns
  /\ Dialling => \A x \in open : x[1] = round

\* Which callbacks of the context are left, and what they may still touch.
WatchShape ==
  /\ watch \subseteq {conn}
  /\ watch # {} => dialPC \in {"answer", "answered"} \/ (dialPC \in {"done", "returned"} /\ ~Handed)
  /\ hurry \/ rushed => dialPC \in {"deadline", "preface"} \/ ended = "ended"
  /\ ended = "returned" => dialPC = "returned"

\* What dial returns.
ReturnShape ==
  /\ dialPC \in {"done", "returned"} <=> result # "none"
  /\ Handed => conn \in D!Conns
  /\ Dialling /\ dialPC \in {"done", "returned"} => open = IF Handed THEN {conn} ELSE {}

\* The CONNECTs of the two rounds.
RequestShape ==
  /\ Len(requests) <= round
  /\ \A i \in 1..Len(requests) : requests[i].on[1] = i /\ (requests[i].credentials <=> i = 2)
  /\ dialPC \in {"resolve", "race", "connect"} => Len(requests) = round - 1
  /\ dialPC \in {"answer", "answered", "status", "provider"} => Len(requests) = round
  /\ dialPC = "provider" => round = 1

\* Before the attempt dials, and after it has taken what dial returned.
Undialled ==
  /\ dialPC = "resolve" /\ result = "none" /\ conn = NoConn /\ open = {} /\ round = 1
  /\ dialer = [a \in Addresses |-> "idle"]

TakenShape ==
  /\ dialPC = "returned" /\ requests = <<>>
  /\ open = IF (lease \in {"held", "kept"} /\ ~reused) \/ fresh = "open" THEN {conn} ELSE {}
  /\ open # {} => Handed

\* Where Send is when it dials, and which connection is the dialled one.
LinkShape ==
  /\ ~dialled => Undialled
  /\ dialled /\ ~Dialling => TakenShape
  /\ pc \in Before => ~reused
  /\ pc \in Before \ {"acquire"} => ~dialled
  /\ dialled /\ pc \in OnH1 \cup OnH2 => (on = "pooled" <=> ~reused)
  /\ fresh # "none" => reused

DialInv == D!TypeOK /\ OpenShape /\ WatchShape /\ ReturnShape /\ RequestShape

AttemptInv == RawInv /\ DialInv /\ LinkShape

\* A connection of a dial is a pair of the round and an address.
LEMMA ConnsAre == /\ D!Conns = (1..2) \X Addresses /\ NoConn \notin D!Conns
                  /\ \A r \in 1..2, a \in Addresses : <<r, a>> \in D!Conns /\ <<r, a>>[1] = r
BY DialAssumption, SMTT(30) DEF D!Conns, D!Rounds

\* The race of dialResolved.
LEMMA StartRaceStep == DialInv /\ UNCHANGED <<pc, dialled>> /\ D!StartRace => DialInv'
<1> SUFFICES ASSUME DialInv, UNCHANGED <<pc, dialled>>, D!StartRace PROVE DialInv'
  OBVIOUS
<1>1. /\ dialPC = "resolve" /\ dialPC' = "race" /\ stop' = FALSE /\ conn' = NoConn
      /\ dialer' = [a \in Addresses |-> "dialling"]
      /\ UNCHANGED <<route, ended, round, watch, hurry, rushed, status, requested, result, open, requests>>
  BY DEF D!StartRace, D!RaceFrame, D!rushVars
<1>2. D!TypeOK'
  <2>1. stop' \in BOOLEAN
    BY <1>1, Zenon
  <2> QED BY <1>1, <2>1 DEF DialInv, D!TypeOK, D!DialStates
<1> QED BY <1>2, <1>1, ConnsAre
           DEF DialInv, OpenShape, RaceShape, WatchShape, ReturnShape, RequestShape, Handed

\* A dialer goroutine connects or fails.
LEMMA DialerSteps ==
  ASSUME DialInv, UNCHANGED <<pc, dialled>>, NEW a \in Addresses, D!DialerConnects(a) \/ D!DialerFails(a)
  PROVE  DialInv'
<1>1. /\ UNCHANGED <<route, dialPC, ended, round, stop, conn, watch, hurry, rushed, status, requested, result,
                     requests>>
      /\ dialer[a] = "dialling"
      /\ \/ dialer' = [dialer EXCEPT ![a] = "connected"] /\ open' = open \cup {<<round, a>>}
         \/ dialer' = [dialer EXCEPT ![a] = "failed"] /\ open' = open
  BY DEF D!DialerConnects, D!DialerFails, D!RaceFrame, D!rushVars
<1> QED BY <1>1, ConnsAre
           DEF DialInv, D!TypeOK, D!DialStates, WatchShape, ReturnShape, RequestShape, Handed,
               OpenShape, D!Rounds, RaceShape, Dialling

\* The collector takes a result: the first connection wins, any other is closed.
LEMMA CollectStep ==
  ASSUME DialInv, UNCHANGED <<pc, dialled>>, NEW a \in Addresses, D!CollectResult(a)
  PROVE  DialInv'
<1>1. /\ UNCHANGED <<route, dialPC, ended, round, watch, hurry, rushed, status, requested, result, requests>>
      /\ dialPC = "race" /\ dialer[a] \in {"connected", "failed"}
      /\ dialer' = [dialer EXCEPT ![a] = "taken"]
      /\ IF dialer[a] = "connected" /\ conn = NoConn
         THEN conn' = <<round, a>> /\ stop' = TRUE /\ open' = open
         ELSE conn' = conn /\ stop' = stop /\ open' = open \ {<<round, a>>}
  BY DEF D!CollectResult, D!Close, D!RaceFrame, D!rushVars
<1>2. dialer \in [Addresses -> D!DialStates] /\ round \in 1..2 /\ RaceShape /\ watch = {}
  BY <1>1 DEF DialInv, OpenShape, WatchShape, D!TypeOK, D!Rounds
<1>3. D!TypeOK'
  <2>1. stop' \in BOOLEAN
    BY <1>1, ZenonT(30) DEF DialInv, D!TypeOK
  <2> QED BY <1>1, <2>1, <1>2, ConnsAre DEF DialInv, D!TypeOK, D!DialStates
<1>4. OpenShape'
  <2>1. CASE dialer[a] = "connected" /\ conn = NoConn
    BY <1>1, <1>2, <2>1, ConnsAre DEF OpenShape, RaceShape, Dialling, DialInv, D!TypeOK
  <2>2. CASE ~(dialer[a] = "connected" /\ conn = NoConn)
    BY <1>1, <1>2, <2>2 DEF OpenShape, RaceShape, Dialling, DialInv
  <2> QED BY <2>1, <2>2
<1> QED BY <1>3, <1>4, <1>1, <1>2
           DEF DialInv, WatchShape, ReturnShape, RequestShape, Handed, D!TypeOK

\* The race ends with a winner or with the last error; the resolver fails.
LEMMA EndRaceSteps ==
  ASSUME DialInv, UNCHANGED <<pc, dialled>>, D!EndRace \/ D!ResolveFails
  PROVE  DialInv'
<1>1. /\ UNCHANGED <<route, ended, round, dialer, stop, conn, watch, hurry, rushed, status, requested, open,
                     requests>>
      /\ dialPC \in {"resolve", "race"} /\ (dialPC = "race" => \A a \in Addresses : dialer[a] = "taken")
      /\ \/ /\ dialPC' = "done" /\ result' \in {"proxy", "tcp"}
            /\ dialPC = "race" => conn = NoConn
         \/ dialPC' \in {"connect", "tls"} /\ result' = result /\ dialPC = "race" /\ conn # NoConn
  BY Zenon DEF D!EndRace, D!ResolveFails, D!Return, D!DialError, D!RaceFrame, D!raceVars, D!rushVars
<1> QED BY <1>1, ConnsAre
           DEF DialInv, D!TypeOK, D!Results, OpenShape, Dialling, WatchShape, ReturnShape,
               RequestShape, Handed, RaceShape

\* connectOnce.
LEMMA SendConnectStep ==
  ASSUME DialInv, Dialling, UNCHANGED <<pc, dialled>>, D!SendConnect
  PROVE  DialInv'
<1> DEFINE R == [on : D!Conns, credentials : BOOLEAN]
           r == [on |-> conn, credentials |-> round = 2]
<1>1. /\ open = {conn} /\ conn \in D!Conns /\ conn[1] = round /\ round \in 1..2 /\ Len(requests) = round - 1
      /\ watch = {}
  BY DEF DialInv, OpenShape, WatchShape, RequestShape, D!TypeOK, D!Rounds, D!SendConnect,
         D!ProxyFrame, D!raceVars, D!rushVars
<1>2. r \in R /\ r.on = conn /\ (r.credentials <=> round = 2)
  BY <1>1, ZenonT(30)
<1> HIDE DEF r
<1> HIDE DEF R
<1> QED BY <1>1, <1>2
           DEF DialInv, D!TypeOK, R, OpenShape, WatchShape, ReturnShape, Handed, RequestShape,
               D!SendConnect, D!ProxyFrame, D!raceVars, D!rushVars

\* Where dial has one connection, and what a step from there to the next leaves: that
\* connection, or what it returns.
Holding == {"connect", "answer", "answered", "status", "tls", "deadline", "preface"}

Typed ==
  /\ UNCHANGED <<pc, dialled, route, ended, round, dialer, stop, conn, requests>>
  /\ hurry' \in BOOLEAN /\ rushed' \in BOOLEAN /\ requested' \in BOOLEAN
  /\ status' \in {0, 200, 407, 502}
  /\ hurry' \/ rushed' => dialPC' \in {"deadline", "preface"} \/ ended = "ended"
GoesOn ==
  /\ dialPC' \in {"status", "tls", "deadline", "preface"} /\ (dialPC' = "status" => dialPC = "answered")
  /\ open = {conn} /\ open' = open /\ watch' = {} /\ result' = result
FailsWith(r) ==
  /\ dialPC' = "done" /\ result' = r /\ r \in D!Results \ {"none", "h1", "h2"}
  /\ open' = {} /\ watch' \subseteq {conn}
HandsOver ==
  /\ dialPC' = "done" /\ result' \in {"h1", "h2"}
  /\ open = {conn} /\ open' = open /\ watch' = {}

\* What holds while dial has one connection in hand.
LEMMA HoldingIs ==
  ASSUME DialInv, dialPC \in Holding
  PROVE  /\ conn \in D!Conns /\ watch \subseteq {conn} /\ ended \in {"no", "ended"}
         /\ dialPC \notin {"answer", "answered"} => open = {conn} /\ watch = {}
         /\ dialPC \in {"answer", "answered"} => open = watch /\ (ended = "no" => watch = {conn})
         /\ hurry \in BOOLEAN /\ rushed \in BOOLEAN /\ requested \in BOOLEAN
         /\ status \in {0, 200, 407, 502} /\ round \in 1..2 /\ result = "none"
         /\ hurry \/ rushed => dialPC \in {"deadline", "preface"} \/ ended = "ended"
         /\ \A a \in Addresses : dialer[a] \in {"idle", "taken"}
  BY DEF DialInv, OpenShape, Holding, D!TypeOK, D!Rounds, WatchShape, ReturnShape

\* A step that keeps, hands over or closes the connection in hand keeps the invariant.
LEMMA HoldingStep ==
  ASSUME DialInv, dialPC \in Holding, Typed, GoesOn \/ HandsOver \/ \E r : FailsWith(r)
  PROVE  DialInv'
<1>1. RequestShape'
  BY DEF DialInv, RequestShape, Typed, GoesOn, HandsOver, FailsWith
<1> QED BY <1>1, HoldingIs, SMTT(30)
           DEF DialInv, D!TypeOK, Typed, GoesOn, HandsOver, FailsWith, D!Results, OpenShape,
               Dialling, WatchShape, Handed, ReturnShape

\* Writing or reading a CONNECT fails; the context's callback is stopped or waited for.
LEMMA AnswerSteps ==
  ASSUME DialInv, UNCHANGED <<pc, dialled>>, D!ConnectFails \/ D!StopCancellation \/ D!AwaitCancellation
  PROVE  DialInv'
<1> USE DEF D!Return, D!Close, D!ProxyFrame, D!raceVars, D!rushVars, Typed, Holding
<1>1. CASE D!ConnectFails
  BY HoldingStep, <1>1, HoldingIs DEF D!ConnectFails, FailsWith, D!Results
<1>2. CASE D!StopCancellation
  BY HoldingStep, <1>2, HoldingIs DEF D!StopCancellation, GoesOn
<1>3. CASE D!AwaitCancellation
  BY HoldingStep, <1>3, HoldingIs DEF D!AwaitCancellation, FailsWith, D!Results
<1> QED BY <1>1, <1>2, <1>3, Zenon

\* The proxy's answer is read.
LEMMA ReadHeadStep == DialInv /\ UNCHANGED <<pc, dialled>> /\ D!ReadResponseHead => DialInv'
<1> SUFFICES ASSUME DialInv, UNCHANGED <<pc, dialled>>, D!ReadResponseHead PROVE DialInv'
  OBVIOUS
<1> QED BY DEF DialInv, D!TypeOK, OpenShape, WatchShape, Dialling, Handed, ReturnShape,
               RequestShape, D!ReadResponseHead, D!ProxyFrame, D!raceVars, D!rushVars

\* The answer opens the tunnel or refuses it.
LEMMA TunnelSteps ==
  ASSUME DialInv, UNCHANGED <<pc, dialled>>, D!UseTunnel \/ D!RefuseTunnel
  PROVE  DialInv'
<1> USE DEF D!Return, D!Close, D!ProxyFrame, D!raceVars, D!rushVars
<1>1. dialPC = "status" /\ dialPC \in Holding
  BY DEF D!UseTunnel, D!RefuseTunnel, Holding
<1>2. CASE D!UseTunnel
  BY <1>1, HoldingStep, <1>2, HoldingIs DEF D!UseTunnel, Typed, GoesOn
<1>3. CASE D!RefuseTunnel
  <2>1. CASE dialPC' = "provider" /\ result' = result /\ round = 1
    BY <2>1, <1>1, <1>3, HoldingIs
       DEF DialInv, D!TypeOK, OpenShape, WatchShape, Handed, ReturnShape, RequestShape,
           D!RefuseTunnel
  <2>2. CASE \E r \in {"proxy", "proxyAuth"} : dialPC' = "done" /\ result' = r
    BY <1>1, HoldingStep, HoldingIs, <2>2, <1>3, SMTT(30)
       DEF Typed, FailsWith, D!Results, D!RefuseTunnel
  <2> QED BY <2>1, <2>2, <1>3, ZenonT(30) DEF D!RefuseTunnel
<1> QED BY <1>2, <1>3

\* The credentials provider returns, and the second round begins or dial fails.
LEMMA ProviderStep == DialInv /\ UNCHANGED <<pc, dialled>> /\ D!ProviderReturns => DialInv'
<1> SUFFICES ASSUME DialInv, UNCHANGED <<pc, dialled>>, D!ProviderReturns PROVE DialInv'
  OBVIOUS
<1>1. /\ UNCHANGED <<route, ended, dialer, stop, hurry, rushed, conn, requested, watch, status, open, requests>>
      /\ dialPC = "provider"
      /\ \/ dialPC' = "resolve" /\ round' = 2 /\ result' = result
         \/ dialPC' = "done" /\ result' = "credentials" /\ round' = round
  BY DEF D!ProviderReturns, D!Return, D!ProxyFrame, D!raceVars, D!rushVars
<1> QED BY <1>1
           DEF DialInv, D!TypeOK, D!Rounds, D!Results, OpenShape, WatchShape, Handed,
               ReturnShape, RequestShape

\* The TLS handshake and NewSession.
LEMMA HandshakeSteps ==
  ASSUME DialInv, UNCHANGED <<pc, dialled>>, D!UsePlain \/ D!HandshakeFails \/ D!Handshake
  PROVE  DialInv'
<1>1. dialPC = "tls" /\ dialPC \in Holding
  BY SMTT(30) DEF D!UsePlain, D!HandshakeFails, D!Handshake, Holding
<1>2. /\ UNCHANGED <<route, ended, round, dialer, stop, conn, watch, status, requests, rushed>>
      /\ requested' \in BOOLEAN
      /\ \/ dialPC' = "done" /\ result' = "h1" /\ open' = open /\ hurry' = hurry
         \/ dialPC' = "done" /\ result' \in {"negotiation", "tls"} /\ open' = open \ {conn} /\ hurry' = hurry
         \/ dialPC' = "deadline" /\ result' = result /\ open' = open /\ hurry' = TRUE
  BY <1>1, HoldingIs
     DEF D!UsePlain, D!HandshakeFails, D!Handshake, D!Return, D!Close, D!SetupFrame, D!raceVars,
     D!rushVars
<1>3. hurry' \in BOOLEAN /\ (hurry' \/ rushed' => dialPC' = "deadline" \/ ended = "ended")
  <2>1. CASE hurry' = hurry
    BY <1>1, <1>2, <2>1, HoldingIs
  <2>2. CASE hurry' = TRUE /\ dialPC' = "deadline"
    BY <2>2
  <2> QED BY <1>2, <2>1, <2>2, Zenon
<1> QED BY <1>1, HoldingStep, <1>2, <1>3, HoldingIs
           DEF Typed, GoesOn, HandsOver, FailsWith, D!Results

\* The handshake of NewSession.
LEMMA PrefaceSteps ==
  ASSUME DialInv, UNCHANGED <<pc, dialled>>, D!SetHandshakeDeadline \/ D!PrefaceFails \/ D!NewSession
  PROVE  DialInv'
<1>1. /\ UNCHANGED <<route, ended, round, dialer, stop, conn, watch, status, requests, requested>>
      /\ rushed' = FALSE
      /\ \/ dialPC' = "preface" /\ result' = result /\ open' = open
         \/ dialPC' = "done" /\ result' = "h2" /\ open' = open
         \/ dialPC' = "done" /\ result' \in {"negotiation", "session"} /\ open' = open \ {conn}
  BY DEF D!SetHandshakeDeadline, D!PrefaceFails, D!NewSession, D!StopHurry, D!Return, D!Close,
     D!SetupFrame,
     D!raceVars, D!rushVars
<1>2. hurry' \in BOOLEAN /\ (hurry' => dialPC' = "preface" \/ ended # "no")
  <2>1. CASE D!SetHandshakeDeadline
    BY <2>1, HoldingIs DEF D!SetHandshakeDeadline, D!PrefaceFails, D!NewSession, Holding
  <2>2. CASE D!PrefaceFails \/ D!NewSession
    BY <2>2, Zenon DEF D!PrefaceFails, D!NewSession, D!StopHurry
  <2> QED BY <2>1, <2>2
<1>3. rushed' \in BOOLEAN /\ ~rushed'
  BY <1>1, Zenon
<1> QED BY HoldingStep, <1>1, <1>3, HoldingIs, <1>2
           DEF Typed, GoesOn, HandsOver, FailsWith, D!Results, D!SetHandshakeDeadline,
               D!PrefaceFails, D!NewSession, Holding

\* The connect timeout, and dial's own cancel.
LEMMA DialContextSteps ==
  ASSUME DialInv, UNCHANGED <<pc, dialled>>, D!ContextEnds \/ D!CancelOnReturn
  PROVE  DialInv'
<1>1. /\ UNCHANGED <<route, round, dialer, stop, conn, watch, hurry, rushed, status, requested, result, open,
                     requests>>
      /\ \/ ended = "no" /\ ended' = "ended" /\ dialPC' = dialPC /\ dialPC # "returned"
         \/ /\ dialPC = "done" /\ dialPC' = "returned"
            /\ ended' = IF ended = "no" THEN "returned" ELSE ended
  BY DEF D!ContextEnds, D!CancelOnReturn, D!raceVars, D!rushVars
<1> QED BY <1>1
           DEF DialInv, D!TypeOK, OpenShape, RaceShape, Dialling, WatchShape, Handed,
               ReturnShape, RequestShape

\* The callbacks of the context, whenever they run: what they close was not handed over.
LEMMA DialCallbackSteps ==
  ASSUME DialInv, UNCHANGED <<pc, dialled>>, D!Callback
  PROVE  /\ DialInv'
         /\ dialPC = "returned" /\ (open # {} => Handed) => open' = open
         /\ UNCHANGED <<dialPC, result, conn, round, dialer, requests>>
         /\ open = {} => open' = {}
<1>1. CASE D!DeadlinePasses \/ D!RushOnEnd
  <2>1. /\ UNCHANGED <<route, dialPC, ended, round, dialer, stop, conn, watch, status, requested, result,
                       open, requests>>
        /\ hurry' \in {hurry, FALSE} /\ rushed' = TRUE
        /\ dialPC = "preface" \/ hurry
    BY <1>1, Zenon DEF D!DeadlinePasses, D!RushOnEnd, D!raceVars, D!SetupFrame
  <2>2. D!TypeOK'
    <3>1. hurry' \in BOOLEAN
      BY <2>1, ZenonT(30) DEF DialInv, D!TypeOK
    <3> QED BY <2>1, <3>1 DEF DialInv, D!TypeOK
  <2> QED BY <2>1, <2>2, SMTT(30)
             DEF DialInv, OpenShape, RaceShape, ReturnShape, RequestShape, Handed, Dialling,
                 WatchShape
<1>2. CASE \E c \in D!Conns : D!CloseOnEnd(c)
  <2>1. PICK c \in D!Conns : D!CloseOnEnd(c)
    BY <1>2
  <2> QED BY <2>1
             DEF DialInv, Handed, D!TypeOK, OpenShape, Dialling, WatchShape, ReturnShape,
                 RequestShape, D!CloseOnEnd, D!Close, D!raceVars, D!rushVars
<1> QED BY <1>1, <1>2, Zenon DEF D!Callback

\* Every step of dial.
LEMMA DialSteps ==
  ASSUME DialInv, Dialling, UNCHANGED <<pc, dialled>>,
         D!ContextEnds \/ D!PeerStep \/ D!FailStep \/ D!OwnStep
  PROVE  DialInv'
<1>1. CASE D!ContextEnds
  BY <1>1, DialContextSteps
<1>2. CASE D!PeerStep
  BY <1>2, StartRaceStep, ProviderStep, DialerSteps, ReadHeadStep, HandshakeSteps, PrefaceSteps, Zenon
     DEF D!PeerStep
<1>3. CASE D!FailStep
  BY <1>3, DialerSteps, EndRaceSteps, AnswerSteps, HandshakeSteps, PrefaceSteps, Zenon
     DEF D!FailStep
<1>4. CASE D!OwnStep
  BY <1>4, EndRaceSteps, CollectStep, SendConnectStep, AnswerSteps, TunnelSteps, HandshakeSteps,
     PrefaceSteps, DialContextSteps, Zenon DEF D!OwnStep
<1> QED BY <1>1, <1>2, <1>3, <1>4
-----------------------------------------------------------------------------
(* The attempt and its dial                                                *)

\* What a step of Send does to the connections it has.
Moves ==
  \/ /\ pc \in {"prepare", "request"} /\ pc' \in {"request", "acquire", "done"}
     /\ UNCHANGED <<lease, reused, fresh, on>>
  \/ /\ pc \in OnH1 \cup OnH2 /\ pc' \in OnH1 \cup OnH2
     /\ UNCHANGED <<lease, reused, fresh, on>>
  \/ /\ pc \in OnH1 \cup OnH2 /\ on = "pooled" /\ pc' = "done"
     /\ lease' \in {"kept", "retired"} /\ UNCHANGED <<reused, fresh, on>>
  \/ /\ pc = "exchanged" /\ on = "fresh" /\ pc' = "done"
     /\ fresh' = "closed" /\ UNCHANGED <<lease, reused, on>>
  \/ /\ pc = "exchanged" /\ on = "pooled" /\ reused /\ pc' = "redial"
     /\ lease' = "retired" /\ UNCHANGED <<reused, fresh, on>>
  \/ /\ pc \in {"done", "returned"} /\ pc' \in {"done", "returned"}
     /\ UNCHANGED <<lease, reused, fresh, on>>

\* A step of Send that dials nothing moves between the places of an exchange, keeps its lease
\* and connection or settles both, and touches nothing of the dial.
LEMMA MovesAre ==
  ASSUME RawInv, PeerStep \/ OwnStep \/ CallbackRuns
  PROVE  Moves
<1> USE DEF Moves, OnH1, OnH2, Exchanging, leaseVars, deadlineVars, history, ExchangeFrame,
            Exchanged, Finish
<1>1. CASE WriteFails \/ WriteHead \/ WriteBody \/ HeadFails \/ HeadInvalid \/ ReadInterim
           \/ ReadFinalHead \/ ReadBody
  BY <1>1, ZenonT(30) DEF WriteFails, WriteHead, WriteBody, HeadFails, HeadInvalid, ReadInterim,
     ReadFinalHead, ReadBody
<1>2. CASE DoWrites \/ DoMarks \/ DoResets
  BY <1>2, ZenonT(30) DEF DoWrites, DoMarks, DoResets
<1>3. CASE DoAnswers \/ DoLosesSession \/ DoInterrupted \/ DoReset
  <2>1. PICK err, head : DoEnds(err, head)
    BY <1>3 DEF DoAnswers, DoLosesSession, DoInterrupted, DoReset
  <2>2. pc \in OnH2
    BY <1>3, Zenon DEF DoAnswers, DoLosesSession, DoInterrupted, DoReset
  <2> QED BY <2>1, <2>2, Zenon DEF DoEnds, RawInv, LeaseShape
<1>4. CASE parseRawEndpoint \/ makeH1Request \/ CancelOnReturn
  BY <1>4, Zenon DEF parseRawEndpoint, makeH1Request, CancelOnReturn
<1>5. CASE BeginExchange \/ BeginFails \/ MarkFirstByte \/ SettleExchange \/ Interrupt
  BY <1>5, ZenonT(30) DEF BeginExchange, BeginFails, MarkFirstByte, SettleExchange, Interrupt
<1>6. CASE RefuseCertificate \/ FinishExchange
  BY <1>6, ZenonT(30) DEF RefuseCertificate, FinishExchange
<1>7. CASE StartReplay \/ FinishReplay
  BY <1>7 DEF StartReplay, FinishReplay, IsStale
<1>8. CASE CallbackRuns
  BY <1>8, Zenon DEF CallbackRuns, RawInv, DeadlineShape
<1>9. CASE LateMark \/ LateWrite \/ LateDropped
  <2>1. pc \in {"done", "returned"}
    BY <1>9 DEF LateMark, LateWrite, LateDropped, RawInv, LateShape, Returned
  <2> QED BY <1>9, <2>1, Zenon DEF LateMark, LateWrite, LateDropped, LateFrame
<1> QED BY <1>1, <1>2, <1>3, <1>4, <1>5, <1>6, <1>7, <1>8, <1>9, ZenonT(30) DEF PeerStep, OwnStep

\* Steps of Send after the dial: the dialled connection is closed when its lease is retired or
\* the replay ends.
LEMMA SettlingSteps ==
  ASSUME AttemptInv, Moves, Settling
  PROVE  DialInv' /\ LinkShape'
<1> USE DEF AttemptInv
<1>1. /\ UNCHANGED <<dialled, route, dialPC, round, dialer, stop, status, requested, requests, result, ended,
                     conn, watch, hurry, rushed>>
      /\ open' = IF fresh' = "closed" \/ (~reused /\ lease' = "retired") THEN {} ELSE open
  BY DEF Settling, localVars
<1>2. LinkShape /\ LeaseShape /\ pc \notin {"acquire", "redial"}
  BY Zenon DEF RawInv, Moves, OnH1, OnH2, Exchanging
<1>3. ~Dialling /\ ~Dialling'
  BY <1>1, <1>2, Zenon DEF Dialling, Moves, LinkShape, Before, OnH1, OnH2, Exchanging
<1>4. dialled => TakenShape'
  <2> SUFFICES ASSUME dialled PROVE TakenShape'
    OBVIOUS
  <2>1. TakenShape /\ pc \notin Before /\ (fresh # "none" => reused)
    BY <1>2, <1>3 DEF LinkShape, Moves, Before, OnH1, OnH2, Exchanging
  <2>2. CASE UNCHANGED <<lease, reused, fresh, on>>
    BY <1>1, <2>1, <2>2, Zenon DEF TakenShape, Handed
  <2>3. CASE pc \in OnH1 \cup OnH2 /\ on = "pooled" /\ lease' \in {"kept", "retired"}
             /\ UNCHANGED <<reused, fresh, on>>
    BY <1>1, <2>1, <2>3, <1>2, SMTT(30) DEF TakenShape, Handed, LeaseShape, LinkShape
  <2>4. CASE pc = "exchanged" /\ on = "fresh" /\ fresh' = "closed" /\ UNCHANGED <<lease, reused, on>>
    BY <1>1, <2>1, <2>4, <1>2 DEF TakenShape, Handed, LeaseShape
  <2>5. CASE pc = "exchanged" /\ on = "pooled" /\ reused
    BY <1>2, <2>5, ZenonT(30) DEF LinkShape, OnH1
  <2> QED BY <2>1, <2>2, <2>3, <2>4, <2>5 DEF Moves, Before
<1>5. DialInv'
  BY <1>1, <1>3, <1>2, SMTT(30)
     DEF DialInv, D!TypeOK, OpenShape, RaceShape, LinkShape, TakenShape, Undialled, WatchShape,
         ReturnShape, RequestShape, Handed
<1> QED BY <1>5, <1>1, <1>3, <1>4, <1>2
           DEF LinkShape, Undialled, Moves, Before, OnH1, OnH2, Exchanging, LeaseShape

\* What dialFailure finds in the error of a dial is due when the dial fails.
LEMMA CausesAreDue ==
  ASSUME D!TypeOK, ReturnShape, dialPC = "returned", ~Handed
  PROVE  DialCauses \subseteq DialErrorsNow
<1>1. result \in {"tcp", "negotiation", "tls", "session", "proxy", "proxyAuth", "credentials"}
  BY DEF D!TypeOK, D!Results, ReturnShape, Handed
<1>2. EndCauses \subseteq DialErrorsNow
  BY DEF EndCauses, DialErrorsNow, DialErrors
<1>3. Causes \cup {"certificate", "dns", "refused", "timeout", "other"} \subseteq DialErrorsNow
  BY DEF Causes, DialErrorsNow, DialErrors, CauseCode
<1>4. {"negotiation", "proxy", "proxyAuth", "credentials"} \subseteq DialErrorsNow
  BY DEF DialErrorsNow, DialErrors
<1>5. CASE result = "tcp"
  BY <1>2, <1>3, <1>5 DEF DialCauses
<1>6. CASE result \in {"tls", "session"}
  BY <1>2, <1>3, <1>6 DEF DialCauses
<1>7. CASE result \in {"negotiation", "proxy", "proxyAuth", "credentials"}
  BY <1>4, <1>7 DEF DialCauses
<1> QED BY <1>1, <1>5, <1>6, <1>7

\* Acquire or sendH1 takes what dial returned.
LEMMA TakeStep ==
  ASSUME DialInv, dialPC = "returned", NEW left, Take(left), left \in {open, {}}, pc' \notin {"acquire", "redial"}
  PROVE  DialInv'
<1> USE DEF DialInv, Take, Handed
<1>1. D!TypeOK'
  <2>1. route' \in D!Routes
    BY DEF Unrouted, D!Routes
  <2>2. dialer' \in [Addresses -> D!DialStates]
    BY DEF D!DialStates
  <2>3. open' \subseteq D!Conns
    BY DEF D!TypeOK
  <2>4. round' \in D!Rounds /\ status' \in {0, 200, 407, 502}
    BY DEF D!Rounds
  <2>5. stop' \in BOOLEAN /\ requested' \in BOOLEAN
    BY Zenon
  <2>6. requests' \in Seq([on : D!Conns, credentials : BOOLEAN])
    OBVIOUS
  <2>7. UNCHANGED <<dialPC, result, ended, conn, watch, hurry, rushed>>
    OBVIOUS
  <2> HIDE DEF Take
  <2> QED BY <2>1, <2>2, <2>3, <2>4, <2>5, <2>6, <2>7, SMTT(30) DEF D!TypeOK
<1> QED BY <1>1, SMTT(30) DEF OpenShape, Dialling, WatchShape, ReturnShape, RequestShape

\* Send takes what the dial of Acquire returned, and RawTransport allows that outcome.
LEMMA AcquireDialledStep ==
  ASSUME AttemptInv, AcquireDialled
  PROVE  DialInv' /\ LinkShape' /\ (AcquireH1 \/ AcquireH2 \/ \E e \in DialErrorsNow : AcquireFails(e))
<1> USE DEF AttemptInv
<1>1. pc = "acquire" /\ dialPC = "returned" /\ dialled
  BY SMTT(30) DEF AcquireDialled, AcquireH1, AcquireH2, AcquireFails, LinkShape, Undialled
<1>2. open = (IF Handed THEN {conn} ELSE {}) /\ ~reused /\ fresh = "none" /\ on = "pooled" /\ lease = "none"
  BY <1>1 DEF DialInv, ReturnShape, Dialling, LinkShape, RawInv, LeaseShape, Before
<1>3. CASE (result = "h1" /\ AcquireH1 /\ ~reused' /\ Take(open)) \/ (result = "h2" /\ AcquireH2 /\ Take(open))
  <2>1. /\ pc' \in {"begin", "do"} /\ lease' = "held" /\ ~reused' /\ fresh' = "none" /\ on' = "pooled"
        /\ Handed /\ Take(open)
    BY <1>2, <1>3 DEF AcquireH1, AcquireH2, Handed
  <2> QED BY <1>3, <1>1, <2>1, TakeStep, <1>2, Zenon
             DEF LinkShape, Take, TakenShape, Handed, Before
<1>4. CASE \/ Handed /\ AcquireFails("other") /\ Take({})
           \/ ~Handed /\ \E e \in DialCauses : AcquireFails(e) /\ Take(open)
  <2>1. \E e \in DialErrorsNow : AcquireFails(e)
    BY <1>1, <1>4, CausesAreDue DEF DialInv, DialErrorsNow, DialErrors, CauseCode, Causes
  <2> QED BY <2>1, <1>1, TakeStep, <1>2, <1>4, Zenon
             DEF AcquireFails, Finish, leaseVars, LinkShape, Take, TakenShape, Handed, Before,
                 OnH1, OnH2, Exchanging
<1> QED BY <1>3, <1>4, SMTT(30) DEF AcquireDialled, Handed

\* sendH1 takes what its redial returned, and RawTransport allows that outcome.
LEMMA RedialDialledStep ==
  ASSUME AttemptInv, RedialDialled
  PROVE  DialInv' /\ LinkShape' /\ (Redial \/ RedialMismatch \/ \E e \in DialErrorsNow : RedialFails(e))
<1> USE DEF AttemptInv
<1>1. pc = "redial" /\ dialPC = "returned" /\ dialled
  BY ZenonT(30) DEF RedialDialled, Redial, RedialMismatch, RedialFails, LinkShape, Undialled
<1>2. open = (IF Handed THEN {conn} ELSE {}) /\ reused /\ fresh = "none" /\ on = "pooled" /\ lease = "retired"
  BY <1>1, Zenon DEF DialInv, ReturnShape, Dialling, LinkShape, RawInv, LeaseShape
<1>3. CASE result = "h1" /\ Redial /\ Take(open)
  BY <1>3, <1>1, TakeStep, <1>2, Zenon DEF Redial, Handed, LinkShape, Take, TakenShape, Before
<1>4. CASE \/ result = "h2" /\ RedialMismatch /\ Take({})
           \/ ~Handed /\ \E e \in DialCauses : RedialFails(e) /\ Take(open)
  <2>1. RedialMismatch \/ \E e \in DialErrorsNow : RedialFails(e)
    BY <1>1, <1>4, CausesAreDue DEF DialInv
  <2> QED BY <2>1, <1>1, TakeStep, <1>2, <1>4, ZenonT(30)
             DEF RedialMismatch, RedialFails, Finish, leaseVars, LinkShape, Take, TakenShape,
                 Handed, Before, OnH1, OnH2, Exchanging
<1> QED BY <1>3, <1>4 DEF RedialDialled, Handed

\* The attempt's own context ends, or the pool needs no dial, or one begins.
LEMMA OutsideSteps ==
  ASSUME AttemptInv, AttemptEnds \/ AcquirePooled \/ BeginDial
  PROVE  DialInv' /\ LinkShape'
<1>1. CASE AttemptEnds
  <2>1. /\ UNCHANGED <<pc, lease, reused, fresh, on, dialled, route, dialPC, round, dialer, stop, status,
                       requested, requests, result, conn, watch, hurry, rushed, open>>
        /\ ended' = IF ended = "no" THEN "ended" ELSE ended
    BY <1>1, SMTT(30) DEF AttemptEnds, ContextEnds, localVars, leaseVars
  <2>2. LinkShape'
    BY <2>1, ZenonT(30) DEF AttemptInv, Handed, LinkShape, Undialled, TakenShape, Dialling
  <2>3. D!TypeOK' /\ OpenShape'
    BY <2>1, SMTT(30) DEF DialInv, AttemptInv, D!TypeOK, Handed, OpenShape, RaceShape, Dialling
  <2>4. WatchShape' /\ ReturnShape' /\ RequestShape'
    BY <2>1, SMTT(30) DEF DialInv, AttemptInv, Handed, ReturnShape, RequestShape, Dialling, WatchShape
  <2> QED BY <2>2, <2>3, <2>4, Zenon DEF DialInv
<1>2. CASE AcquirePooled
  <2>1. /\ UNCHANGED <<dialled, route, dialPC, round, dialer, stop, status, requested, requests, result,
                       ended, conn, watch, hurry, rushed, open>>
        /\ ~dialled
    BY <1>2, ZenonT(30) DEF AcquirePooled, dialVars, localVars
  <2>2. pc = "acquire" /\ pc' \in {"begin", "do", "done"} /\ fresh' = fresh
    BY <1>2, SMTT(30) DEF AcquirePooled, AcquireH1, AcquireH2, AcquireFails, Finish, leaseVars
  <2>3. LinkShape'
    BY <2>1, <2>2, ZenonT(30)
       DEF AttemptInv, Handed, LinkShape, Undialled, TakenShape, Dialling, Before, RawInv,
           LeaseShape
  <2>4. D!TypeOK' /\ OpenShape'
    BY <2>1, SMTT(30) DEF DialInv, AttemptInv, D!TypeOK, Handed, OpenShape, RaceShape, Dialling
  <2>5. WatchShape' /\ ReturnShape' /\ RequestShape'
    BY <2>1, <2>2, SMTT(30)
       DEF DialInv, AttemptInv, Handed, ReturnShape, RequestShape, Dialling, WatchShape
  <2> QED BY <2>3, <2>4, <2>5, Zenon DEF DialInv
<1>3. CASE BeginDial
  <2>1. /\ UNCHANGED <<pc, lease, reused, fresh, on, dialPC, round, dialer, stop, status, requested, requests,
                       result, ended, conn, watch, hurry, rushed, open>>
        /\ ~dialled /\ dialled' = TRUE /\ pc \in {"acquire", "redial"} /\ route' \in D!Routes
    BY <1>3 DEF BeginDial, vars, leaseVars
  <2>2. LinkShape'
    BY <2>1 DEF AttemptInv, Handed, LinkShape, Dialling, Before, OnH1, OnH2, Exchanging
  <2>3. D!TypeOK'
    BY <2>1 DEF DialInv, AttemptInv, D!TypeOK
  <2>4. OpenShape' /\ WatchShape' /\ ReturnShape' /\ RequestShape'
    BY <2>1 DEF DialInv, AttemptInv, Handed, OpenShape, ReturnShape, RequestShape, WatchShape,
                Undialled, LinkShape
  <2> QED BY <2>2, <2>3, <2>4, Zenon DEF DialInv
<1> QED BY <1>1, <1>2, <1>3

\* A step inside dial is none to Send.
LEMMA InsideSteps ==
  ASSUME AttemptInv, ConnectTimeout \/ DialPeer \/ DialFail \/ DialOwn \/ DialCallback
  PROVE  DialInv' /\ LinkShape' /\ UNCHANGED vars
<1> USE DEF AttemptInv
<1>1. UNCHANGED vars /\ UNCHANGED <<pc, lease, reused, fresh, on, dialled>>
  BY Zenon DEF ConnectTimeout, DialPeer, DialFail, DialOwn, DialCallback, vars, leaseVars
<1>2. CASE ConnectTimeout \/ DialPeer \/ DialFail \/ DialOwn
  BY <1>1, <1>2, DialSteps, Zenon
     DEF ConnectTimeout, DialPeer, DialFail, DialOwn, LinkShape, Dialling, Before, OnH1, OnH2,
         Exchanging
<1>3. CASE DialCallback
  <2>1. /\ DialInv' /\ (dialPC = "returned" /\ (open # {} => Handed) => open' = open)
        /\ UNCHANGED <<dialPC, result, conn, round, dialer, requests>>
        /\ (open = {} => open' = {})
    BY <1>1, <1>3, DialCallbackSteps, ZenonT(30) DEF DialCallback
  <2> QED BY <1>1, <2>1, SMTT(30) DEF LinkShape, Dialling, Undialled, TakenShape, Handed
<1> QED BY <1>2, <1>3, Zenon

\* The invariant holds before the attempt dials.
LEMMA AttemptInitially == AttemptInit => AttemptInv
<1> SUFFICES ASSUME AttemptInit PROVE AttemptInv
  OBVIOUS
<1> USE DEF AttemptInit, D!Init
<1>1. D!TypeOK
  <2>1. stop \in BOOLEAN /\ hurry \in BOOLEAN /\ rushed \in BOOLEAN /\ requested \in BOOLEAN
    BY Zenon
  <2> QED BY <2>1, SMTT(30) DEF D!TypeOK, D!DialStates, D!Rounds, D!Results
<1> QED BY <1>1, RawInitially
           DEF AttemptInv, DialInv, OpenShape, WatchShape, ReturnShape, RequestShape, Dialling,
               Handed, LinkShape, Undialled, Init, Before

\* A step of the attempt keeps the invariant, and is one of Send's or none.
LEMMA AttemptStep == AttemptInv /\ [AttemptNext]_attemptVars => AttemptInv' /\ [Next]_vars
<1> SUFFICES ASSUME AttemptInv, [AttemptNext]_attemptVars PROVE AttemptInv' /\ [Next]_vars
  OBVIOUS
<1>1. CASE AttemptEnds \/ AcquirePooled \/ BeginDial
  <2>1. [Next]_vars
    <3>1. CASE AttemptEnds \/ BeginDial
      BY <3>1 DEF AttemptEnds, BeginDial, Next
    <3>2. CASE AcquirePooled
      BY <3>2 DEF AcquirePooled, Next, ConnectStep, DialErrorsNow, DialErrors, CauseCode, Causes
    <3> QED BY <1>1, <3>1, <3>2, SMTT(30)
  <2> QED BY <1>1, <2>1, OutsideSteps, RawStep DEF AttemptInv
<1>2. CASE ConnectTimeout \/ DialPeer \/ DialFail \/ DialOwn \/ DialCallback
  BY <1>2, InsideSteps, RawStep DEF AttemptInv
<1>3. CASE AcquireDialled \/ RedialDialled
  BY RawStep, <1>3, AcquireDialledStep, RedialDialledStep DEF AttemptInv, Next, ConnectStep
<1>4. CASE (PeerStep \/ OwnStep \/ CallbackRuns) /\ Settling
  BY <1>4, SettlingSteps, RawStep, MovesAre, ZenonT(30) DEF AttemptInv, Next
<1>5. CASE (Done /\ UNCHANGED <<dialled, dialVars>>) \/ UNCHANGED attemptVars
  <2>1. UNCHANGED <<pc, lease, reused, fresh, on, dialled, route, dialPC, round, dialer, stop, status, requested,
                    requests, result, ended, conn, watch, hurry, rushed, open>>
    BY <1>5, Zenon DEF vars, leaseVars, dialVars, localVars, Done, attemptVars
  <2>2. LinkShape'
    BY <2>1 DEF AttemptInv, LinkShape, Undialled, TakenShape, Dialling, Handed
  <2>3. D!TypeOK'
    BY <2>1 DEF AttemptInv, DialInv, D!TypeOK
  <2>4. OpenShape'
    BY <2>1 DEF AttemptInv, DialInv, OpenShape, RaceShape, Dialling, Handed
  <2>5. WatchShape' /\ ReturnShape' /\ RequestShape'
    BY <2>1 DEF AttemptInv, DialInv, WatchShape, ReturnShape, RequestShape, Dialling, Handed
  <2>6. UNCHANGED vars
    BY <1>5, Zenon DEF Done, attemptVars
  <2> QED BY <2>2, <2>3, <2>4, <2>5, <2>6, RawStep, Zenon DEF AttemptInv, DialInv
<1> QED BY <1>1, <1>2, <1>3, <1>4, <1>5 DEF AttemptNext

\* The inductive invariant holds in every state.
LEMMA AttemptKept == AttemptSpec => []AttemptInv
BY AttemptInitially, AttemptStep, PTL DEF AttemptSpec

\* The invariant accounts for every connection.
LEMMA AttemptInvImplies == AttemptInv => OneOrNone
<1> SUFFICES ASSUME AttemptInv PROVE OneOrNone
  OBVIOUS
<1> USE DEF AttemptInv, DialInv, Handed
<1>1. D!CredentialsAreAskedFor
  <2> SUFFICES ASSUME NEW i \in DOMAIN requests, requests[i].credentials
               PROVE  /\ i = 2 /\ Len(requests) = 2 /\ ~requests[1].credentials
                      /\ requests[1].on # requests[2].on /\ requests[1].on \notin open
    BY Zenon DEF D!CredentialsAreAskedFor
  <2>1. /\ DOMAIN requests = 1..Len(requests) /\ Len(requests) \in Nat /\ round \in 1..2
        /\ Len(requests) <= round
    BY SMTT(30) DEF D!TypeOK, D!Rounds, RequestShape
  <2>2. i = 2 /\ Len(requests) = 2 /\ round = 2
    BY <2>1, SMTT(30) DEF RequestShape
  <2> QED BY <2>2, SMTT(30) DEF RequestShape, OpenShape, LinkShape, Undialled, TakenShape
<1> QED BY <1>1
           DEF OneOrNone, TakenShape, D!OneOrNone, OpenShape, WatchShape, ReturnShape, LinkShape

\* Every connection dialled for an attempt is the one handed over, until its lease is
\* released, or closed, however the race, the proxy, the handshakes and the context's end
\* interleave; no callback of the dial's context reaches it later, and a proxy gets
\* credentials only when it asked for them.  (dial, dialResolved, Connect, NewSession,
\* Pool.Acquire, sendH1)
THEOREM OneConnection == AttemptSpec => []OneOrNone
BY AttemptKept, AttemptInvImplies, PTL

\* With dial in full, an attempt is what RawTransport specifies: every step is one of
\* Send's or invisible to it, and a dial fails only with an error that dialFailure
\* accounts for, when it is due.
THEOREM AttemptImplementsRaw == AttemptSpec => ImplementsRaw
<1>1. AttemptInit => Init
  BY DEF AttemptInit
<1> QED BY <1>1, AttemptKept, AttemptStep, PTL DEF AttemptSpec, ImplementsRaw, Spec
=============================================================================
