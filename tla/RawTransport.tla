---------------------------- MODULE RawTransport ----------------------------
(***************************************************************************)
(* One attempt of the built-in transport: rawTransport.Send with sendH1,   *)
(* exchangeH1 and the mapping of what happened to an outcome               *)
(* (transport_raw.go, transport_errors.go), over one HTTP/1.1 exchange     *)
(* (internal/h1) step by step, and over Session.Do as Session models it.   *)
(*                                                                         *)
(* An HTTP/1.1 connection that was idle in the pool may have been closed   *)
(* by the server: sendH1 then dials a fresh one and sends the request      *)
(* again.  The context ends at any time, and interrupts what waits on the  *)
(* network: a callback sets the deadline of the connection, which may be   *)
(* about to go back to the pool.                                           *)
(*                                                                         *)
(* Acquiring a lease and dialling are one step each.  Pool has the former, *)
(* Dial the latter, and Attempt shows that this module with the steps of   *)
(* Dial implements this module.                                            *)
(***************************************************************************)
EXTENDS Naturals, Transport

CONSTANT
  MaxInformational       \* maxInformationalResponses

\* What the network gives an exchange: "timeout" is the kernel's (ETIMEDOUT),
\* "record" bytes that are no TLS record.
Causes == {"eof", "reset", "closed", "other", "timeout", "record"}

ASSUME RawTransportAssumption == MaxInformational \in Nat

VARIABLES
  pc,
  ctx,                   \* "live", "cancelled", "expired"
  lease,                 \* "none", "held", "kept" or "retired"
  reused, certificate,   \* lease.Reused(); connection.clientCertificateRequested
  fresh,                 \* the connection of the replay: "none", "open", "closed"
  on,                    \* the connection of the exchange: "pooled" or "fresh"
  callback, deadline,    \* the context's callback is registered; the deadline of the
                         \* connection: "none", the context's own, or "past"
  tracker,               \* the CommitTracker
  exchange,              \* rawExchange
  interim,               \* informational responses read
  outcome,               \* what Send returns
  late,                  \* the first DATA, if Do left it behind: "queued" or "marked"
  stray,                 \* history: that DATA was marked after Do had returned
  octets, heard, final   \* history: connections that took body octets; that gave
                         \* response bytes; a final status line was read

leaseVars == <<lease, reused, certificate, fresh, on>>
deadlineVars == <<callback, deadline>>
lateVars  == <<late, stray>>
history   == <<octets, heard, final>>
vars == <<pc, ctx, leaseVars, deadlineVars, tracker, exchange, interim, outcome, lateVars, history>>

Connections == {"pooled", "fresh"}
\* response.Status: "none" is 0, "1xx" an informational one.
Heads == Statuses \cup {"none", "1xx"}
\* How a session ends under a call that did nothing to it: the network's errors, the
\* context's error of another call whose write it interrupted, or a violation.
SessionErrors == Causes \cup {"cancelled", "deadline", "protocol"}
\* The errors of readLine and the parsers of a head, and of the readers of a body.
HeadErrors == {"protocol", "headerLimit"}
BodyErrors == HeadErrors \cup {"tooLarge", "tooLargeGzip", "expansion", "incomplete"}
NoExchange == [err |-> "none", status |-> "none", wrote |-> FALSE, committed |-> FALSE,
               earlier |-> FALSE]

PCs == {"prepare", "request", "acquire", "begin", "write", "body", "mark", "head", "response",
        "settle", "exchanged", "redial", "do", "doMark", "doing", "doReset", "done", "returned"}
TypeOK ==
  /\ pc \in PCs /\ ctx \in {"live", "cancelled", "expired"}
  /\ lease \in {"none", "held", "kept", "retired"} /\ fresh \in {"none", "open", "closed"}
  /\ reused \in BOOLEAN /\ certificate \in BOOLEAN /\ on \in Connections
  /\ callback \in BOOLEAN /\ deadline \in {"none", "context", "past"} /\ tracker \in BOOLEAN
  /\ exchange \in [err : {"none", "interrupted", "goAway", "streamReset"} \cup SessionErrors \cup BodyErrors,
                   status : Heads, wrote : BOOLEAN, committed : BOOLEAN, earlier : BOOLEAN]
  /\ interim \in 0..MaxInformational
  /\ outcome \in Failures \cup Responses \cup {Nothing}
  /\ late \in {"none", "queued", "marked"} /\ stray \in BOOLEAN
  /\ octets \subseteq Connections /\ heard \subseteq Connections /\ final \in BOOLEAN

Init ==
  /\ pc = "prepare" /\ ctx = "live"
  /\ lease = "none" /\ reused = FALSE /\ certificate = FALSE
  /\ fresh = "none" /\ on = "pooled"
  /\ callback = FALSE /\ deadline = "none"
  /\ tracker = FALSE /\ exchange = NoExchange /\ interim = 0 /\ outcome = Nothing
  /\ late = "none" /\ stray = FALSE
  /\ octets = {} /\ heard = {} /\ final = FALSE
-----------------------------------------------------------------------------
(* From what happened to an outcome                                        *)

CauseCode ==
  [c \in Causes \cup {"dns", "certificate", "refused"} |->
     CASE c = "dns" -> "DNS"
       [] c \in {"certificate", "record"} -> "TLS"
       [] c \in {"refused", "timeout"} -> "CONNECT"
       [] OTHER -> "IO"]

\* "interrupted" is the timeout of a connection whose deadline the context's end set.
classifyTransportCause(cause) ==
  IF ctx = "expired" \/ cause = "deadline" THEN "ATTEMPT_TIMEOUT"
  ELSE IF ctx = "cancelled" \/ cause = "cancelled" THEN "CANCELLED"
  ELSE CauseCode[cause]

\* "deadline" is the connect timeout, and the context's own; "negotiation" a TLS
\* failure after the server asked for a client certificate.
DialErrors ==
  DOMAIN CauseCode \cup {"deadline", "cancelled", "negotiation", "proxy", "proxyAuth", "credentials"}

dialFailure(err) ==
  CASE err = "negotiation" -> Failure("TLS", FALSE)
    [] err = "credentials" -> Failure("CONFIGURATION", FALSE)
    [] err = "proxyAuth"   -> Failure("PROXY_AUTH", FALSE)
    [] err = "proxy"       -> Failure("PROXY", FALSE)
    [] err = "deadline" /\ ctx = "live" -> Failure("CONNECT", FALSE)
    [] OTHER -> Failure(classifyTransportCause(err), FALSE)

\* h1Outcome and h2Outcome: no status is taken for 202, so that the answer is in doubt.
StatusClass(head) == CASE head = "none" -> "2xx" [] head = "1xx" -> "3xx4xx" [] OTHER -> head
\* retryForbidden, which only a status other than 2xx reads, or the violation itself.
Violation(head, fault) == IF StatusClass(head) = "2xx" THEN fault ELSE "limit"

BadResponse(err, head) ==
  Response(StatusClass(head),
    CASE err \in {"tooLarge", "headerLimit"} -> "limit"
      [] err \in {"tooLargeGzip", "expansion", "protocol"} -> Violation(head, "protocol")
      [] err = "incomplete" -> IF StatusClass(head) = "2xx" THEN "invalid" ELSE "none")

\* A complete 2xx is valid or not; the operation looks into it.
GoodResponses(head) ==
  {Response(StatusClass(head), f) : f \in IF head = "2xx" THEN {"none", "invalid"} ELSE {"none"}}

\* classifyTransportCause of an exchange, with the response it was reading.
CauseOutcome(err, head, committed) ==
  LET code == classifyTransportCause(err)
  IN IF code = "ATTEMPT_TIMEOUT" /\ head # "none"
     THEN Response(StatusClass(head), "timeout") ELSE Failure(code, committed)

mapH1Exchange ==
  IF exchange.err = "none" THEN GoodResponses(exchange.status)
  ELSE IF exchange.err \in BodyErrors THEN {BadResponse(exchange.err, exchange.status)}
  ELSE {CauseOutcome(exchange.err, exchange.status, exchange.committed \/ exchange.earlier)}

Finish(result) == pc' = "done" /\ outcome' = result
-----------------------------------------------------------------------------
(* Send up to the exchange                                                 *)

ContextEnds ==
  /\ ctx = "live" /\ pc \notin {"done", "returned"}
  /\ ctx' \in {"cancelled", "expired"}
  /\ UNCHANGED <<pc, lateVars, leaseVars, deadlineVars, tracker, exchange, interim, outcome, history>>

\* The deferred cancel of Send: a callback that is still registered runs now.
CancelOnReturn ==
  /\ pc = "done"
  /\ pc' = "returned" /\ ctx' = IF ctx = "live" THEN "cancelled" ELSE ctx
  /\ UNCHANGED <<lateVars, leaseVars, deadlineVars, tracker, exchange, interim, outcome, history>>

SendFrame == UNCHANGED <<ctx, lateVars, deadlineVars, tracker, exchange, interim, history>>

parseRawEndpoint ==
  /\ pc = "prepare"
  /\ \/ pc' = "request" /\ UNCHANGED outcome
     \/ Finish(Failure("IO", FALSE))
  /\ UNCHANGED leaseVars /\ SendFrame

makeH1Request ==
  /\ pc = "request"
  /\ \/ pc' = "acquire" /\ UNCHANGED outcome
     \/ Finish(Failure("IO", FALSE))
  /\ UNCHANGED leaseVars /\ SendFrame

\* The errors the pool and dial can return now.
DialErrorsNow == {e \in DialErrors : e = "cancelled" => ctx = "cancelled"}

AcquireFails(e) ==
  /\ pc = "acquire"
  /\ Finish(dialFailure(e))
  /\ UNCHANGED leaseVars /\ SendFrame

AcquireH1 ==
  /\ pc = "acquire"
  /\ pc' = "begin" /\ lease' = "held"
  /\ reused' \in BOOLEAN /\ certificate' \in BOOLEAN
  /\ UNCHANGED <<fresh, on, outcome>> /\ SendFrame

AcquireH2 ==
  /\ pc = "acquire"
  /\ pc' = "do" /\ lease' = "held"
  /\ UNCHANGED <<reused, certificate, fresh, on, outcome>> /\ SendFrame
-----------------------------------------------------------------------------
(* exchangeH1 on the pooled or the fresh connection                        *)

ExchangeFrame == UNCHANGED <<ctx, lateVars, leaseVars, deadlineVars, outcome>>

\* The connection gets the deadline of the context, and the callback is registered.
BeginExchange ==
  /\ pc = "begin"
  /\ pc' = "write" /\ callback' = TRUE /\ deadline' = "context"
  /\ UNCHANGED <<ctx, lateVars, leaseVars, tracker, exchange, interim, outcome, history>>

BeginFails ==
  /\ pc = "begin"
  /\ pc' = "exchanged"
  /\ \E e \in Causes : exchange' = [exchange EXCEPT !.err = e]
  /\ UNCHANGED <<tracker, interim, history>> /\ ExchangeFrame

\* The callback, in a goroutine of its own.
CallbackRuns ==
  /\ ctx # "live" /\ callback
  /\ callback' = FALSE /\ deadline' = "past"
  /\ UNCHANGED <<pc, ctx, lateVars, leaseVars, tracker, exchange, interim, outcome, history>>

Exchanged(err, head) ==
  /\ pc' = "settle"
  /\ exchange' = [exchange EXCEPT !.err = err, !.status = head]

\* Seeded fault: the callback is not taken back.
SettleUnstopped ==
  /\ pc = "settle"
  /\ pc' = "exchanged" /\ deadline' = "none"
  /\ UNCHANGED <<ctx, lateVars, leaseVars, callback, tracker, exchange, interim, outcome, history>>

\* The deferred end of exchangeH1: the callback is taken back, or waited for.
SettleExchange ==
  /\ pc = "settle" /\ (ctx = "live" \/ ~callback)
  /\ pc' = "exchanged" /\ callback' = FALSE /\ deadline' = "none"
  /\ UNCHANGED <<ctx, lateVars, leaseVars, tracker, exchange, interim, outcome, history>>

\* An invalid request, or a write that took nothing.
WriteFails ==
  /\ pc \in {"write", "body"}
  /\ \E e \in Causes : Exchanged(e, "none")
  /\ UNCHANGED <<tracker, interim, history>> /\ ExchangeFrame

WriteHead ==
  /\ pc = "write"
  /\ pc' = "body"
  /\ UNCHANGED <<tracker, exchange, interim, history>> /\ ExchangeFrame

\* The first Write of the body takes a byte or more.
WriteBody ==
  /\ pc = "body"
  /\ pc' = "mark" /\ octets' = octets \cup {on}
  /\ UNCHANGED <<tracker, exchange, interim, heard, final>> /\ ExchangeFrame

ErrorsNow == Causes \cup IF ctx = "live" THEN {} ELSE {"interrupted"}

\* The callback of writeAll, and then the rest of the body or an error.
MarkFirstByte ==
  /\ pc = "mark"
  /\ tracker' = TRUE
  /\ \/ /\ pc' = "head"
        /\ exchange' = [exchange EXCEPT !.committed = TRUE, !.wrote = TRUE]
     \/ \E e \in ErrorsNow :
          /\ pc' = "settle"
          /\ exchange' = [exchange EXCEPT !.committed = TRUE, !.err = e]
  /\ UNCHANGED <<interim, history>> /\ ExchangeFrame

Hears == heard' = heard \cup {on}

HeadFails ==
  /\ pc = "head"
  /\ \E e \in Causes, head \in Heads :
       /\ Exchanged(e, head) /\ final' = (head \in Statuses)
       /\ Hears \/ (head = "none" /\ UNCHANGED heard)
  /\ UNCHANGED <<tracker, interim, octets>> /\ ExchangeFrame

HeadInvalid ==
  /\ pc = "head"
  /\ \E e \in HeadErrors, head \in Heads :
       Exchanged(e, head) /\ final' = (head \in Statuses)
  /\ Hears
  /\ UNCHANGED <<tracker, interim, octets>> /\ ExchangeFrame

\* One more than maxInformationalResponses, a 101, or one with a body is an error.
ReadInterim ==
  /\ pc = "head"
  /\ \/ interim < MaxInformational /\ interim' = interim + 1 /\ UNCHANGED <<pc, exchange>>
     \/ Exchanged("protocol", "1xx") /\ UNCHANGED interim
  /\ Hears
  /\ UNCHANGED <<tracker, octets, final>> /\ ExchangeFrame

ReadFinalHead ==
  /\ pc = "head"
  /\ pc' = "response" /\ final' = TRUE
  /\ \E status \in Statuses : exchange' = [exchange EXCEPT !.status = status]
  /\ Hears
  /\ UNCHANGED <<tracker, interim, octets>> /\ ExchangeFrame

\* The body: complete, or one of the errors; every error of the connection is an
\* incomplete body.
ReadBody ==
  /\ pc = "response"
  /\ \E e \in {"none"} \cup BodyErrors : Exchanged(e, exchange.status)
  /\ UNCHANGED <<tracker, interim, history>> /\ ExchangeFrame

\* Seeded fault: only the attempt's own deadline is set on the connection.
InterruptAtDeadline ==
  /\ ctx = "expired"
  /\ \/ pc \in {"write", "body", "head"} /\ Exchanged("interrupted", "none")
     \/ pc = "response" /\ Exchanged("incomplete", exchange.status)
  /\ UNCHANGED <<tracker, interim, history>> /\ ExchangeFrame

\* The connection's deadline fails what waits on it.
Interrupt ==
  /\ deadline = "past" \/ ctx = "expired"
  /\ \/ pc \in {"write", "body"} /\ Exchanged("interrupted", "none") /\ UNCHANGED <<heard, final>>
     \/ pc = "head" /\ \E head \in Heads :
          /\ Exchanged("interrupted", head) /\ final' = (head \in Statuses)
          /\ Hears \/ (head = "none" /\ UNCHANGED heard)
     \/ pc = "response" /\ Exchanged("incomplete", exchange.status) /\ UNCHANGED <<heard, final>>
  /\ UNCHANGED <<tracker, interim, octets>> /\ ExchangeFrame
-----------------------------------------------------------------------------
(* sendH1 after an exchange                                                *)

\* Seeded fault: response bytes are not counted.
IsStaleUncounted ==
  /\ reused /\ exchange.wrote
  /\ exchange.err \in {"eof", "closed", "reset"}

\* staleH1Failure on a connection from the pool that took the request and gave nothing.
IsStale ==
  /\ reused /\ exchange.wrote /\ on \notin heard
  /\ exchange.err \in {"eof", "closed", "reset"}

SettleFrame == UNCHANGED <<ctx, lateVars, deadlineVars, tracker, interim, history>>

RefuseCertificate ==
  /\ pc = "exchanged" /\ on = "pooled"
  /\ exchange.err # "none" /\ certificate
  /\ lease' = "retired"
  /\ Finish(Failure("TLS", FALSE))
  /\ UNCHANGED <<reused, certificate, fresh, on, exchange>> /\ SettleFrame

StartReplay ==
  /\ pc = "exchanged" /\ on = "pooled" /\ ~certificate
  /\ IsStale
  /\ lease' = "retired" /\ pc' = "redial"
  /\ UNCHANGED <<reused, certificate, fresh, on, exchange, outcome>> /\ SettleFrame

FinishExchange ==
  /\ pc = "exchanged" /\ on = "pooled"
  /\ ~(exchange.err # "none" /\ certificate) /\ ~IsStale
  /\ lease' \in IF exchange.err = "none" /\ ctx = "live" THEN {"kept", "retired"} ELSE {"retired"}
  /\ \E o \in mapH1Exchange : Finish(o)
  /\ UNCHANGED <<reused, certificate, fresh, on, exchange>> /\ SettleFrame

RedialFails(e) ==
  /\ pc = "redial"
  /\ Finish([dialFailure(e) EXCEPT !.sent = exchange.committed])
  /\ UNCHANGED <<leaseVars, exchange>> /\ SettleFrame

\* Seeded fault: the connection is not closed.
RedialMismatchLeaks ==
  /\ pc = "redial"
  /\ fresh' = "open"
  /\ Finish(Failure("IO", exchange.committed))
  /\ UNCHANGED <<lease, reused, certificate, on, exchange>> /\ SettleFrame

\* The fresh connection speaks HTTP/2.
RedialMismatch ==
  /\ pc = "redial"
  /\ fresh' = "closed"
  /\ Finish(Failure("IO", exchange.committed))
  /\ UNCHANGED <<lease, reused, certificate, on, exchange>> /\ SettleFrame

\* Seeded fault: the commitment of the first exchange is not carried over.
RedialAnew ==
  /\ pc = "redial"
  /\ fresh' = "open" /\ on' = "fresh" /\ pc' = "begin"
  /\ exchange' = NoExchange
  /\ UNCHANGED <<lease, reused, certificate, outcome>> /\ SettleFrame

Redial ==
  /\ pc = "redial"
  /\ fresh' = "open" /\ on' = "fresh" /\ pc' = "begin"
  /\ exchange' = [NoExchange EXCEPT !.earlier = exchange.committed]
  /\ UNCHANGED <<lease, reused, certificate, outcome>> /\ SettleFrame

FinishReplay ==
  /\ pc = "exchanged" /\ on = "fresh"
  /\ fresh' = "closed"
  /\ \E o \in mapH1Exchange : Finish(o)
  /\ UNCHANGED <<lease, reused, certificate, on, exchange>> /\ SettleFrame
-----------------------------------------------------------------------------
(* HTTP/2                                                                  *)

\* What Session does for this request: its write loop marks and then writes, and the
\* answer comes at any time.
DoMarks ==
  /\ pc = "do"
  /\ pc' = "doMark" /\ tracker' = TRUE
  /\ UNCHANGED <<ctx, lateVars, leaseVars, deadlineVars, exchange, interim, outcome, history>>

DoWrites ==
  /\ pc = "doMark"
  /\ pc' = "doing" /\ octets' = {on}
  /\ UNCHANGED <<ctx, lateVars, leaseVars, deadlineVars, tracker, exchange, interim, outcome, heard, final>>

mapH2Exchange(err, head) ==
  CASE err = "none" -> GoodResponses(head)
    [] err \in {"tooLarge", "tooLargeGzip", "protocol"} -> {BadResponse(err, head)}
    [] err = "goAway" -> {Failure("IO", FALSE)}
    [] err = "streamReset" -> {Failure("IO", tracker)}
    [] OTHER -> {CauseOutcome(err, head, tracker)}

DoEnds(err, head) ==
  /\ lease' \in {"kept", "retired"}
  /\ \E o \in mapH2Exchange(err, head) : Finish(o)
  /\ final' = (head # "none")
  /\ exchange' = [exchange EXCEPT !.err = err, !.status = head]
  /\ UNCHANGED <<ctx, stray, reused, certificate, fresh, on, deadlineVars, tracker, interim, octets, heard>>

\* The end of the session lets Do return from the write of its DATA, which is queued or
\* with the write loop (the two last cases of Session.write).
LeavesBehind ==
  late' \in {"none"} \cup (CASE pc = "do" -> {"queued"} [] pc = "doMark" -> {"marked"} [] OTHER -> {})

DoAnswers ==
  /\ pc \in {"do", "doMark", "doing"} /\ UNCHANGED late
  /\ \/ \E status \in Statuses : DoEnds("none", status)
     \/ \E err \in {"tooLarge", "tooLargeGzip", "protocol"}, head \in Statuses \cup {"none"} :
          DoEnds(err, head)
     \/ \E err \in {"goAway", "streamReset"} : DoEnds(err, "none")

\* The session ends, by another call's doing too.
DoLosesSession ==
  /\ pc \in {"do", "doMark", "doing"} /\ LeavesBehind
  /\ \E err \in SessionErrors : DoEnds(err, "none")

\* The context's end is noticed where there is no stream yet or a write waits in the
\* queue; it ends a write in progress by its deadline, or that one is left behind.
DoInterrupted ==
  /\ pc \in {"do", "doMark", "doing"} /\ ctx # "live" /\ LeavesBehind
  /\ DoEnds("interrupted", "none")

\* Otherwise resetCanceledStream queues an RST_STREAM and waits until it is written ...
DoResets ==
  /\ pc \in {"do", "doing"} /\ ctx # "live"
  /\ pc' = "doReset"
  /\ UNCHANGED <<ctx, lateVars, leaseVars, deadlineVars, tracker, exchange, interim, outcome, history>>

\* ... under no context: that is for the peer to allow, or the session ends.
DoReset ==
  /\ pc = "doReset" /\ UNCHANGED late
  /\ \E err \in {"interrupted", "protocol"} : DoEnds(err, "none")

\* The write loop takes the DATA that was left behind, marks and writes it, before the
\* connection is closed; or it ends first, or finds that Send has cancelled the context.
LateFrame ==
  UNCHANGED <<pc, ctx, leaseVars, deadlineVars, exchange, interim, outcome, heard, final>>

LateMark ==
  /\ late = "queued"
  /\ late' = "marked" /\ tracker' = TRUE /\ stray' = TRUE
  /\ UNCHANGED octets /\ LateFrame

LateWrite ==
  /\ late = "marked"
  /\ late' = "none" /\ octets' = {on}
  /\ UNCHANGED <<tracker, stray>> /\ LateFrame

LateDropped ==
  /\ late # "none"
  /\ late' = "none"
  /\ UNCHANGED <<tracker, stray, octets>> /\ LateFrame
-----------------------------------------------------------------------------
Done == pc = "returned" /\ UNCHANGED vars

\* What the server and the network decide.
PeerStep ==
  \/ WriteFails \/ WriteHead \/ WriteBody
  \/ HeadFails \/ HeadInvalid \/ ReadInterim \/ ReadFinalHead \/ ReadBody
  \/ DoWrites \/ DoMarks \/ DoAnswers \/ DoLosesSession \/ DoReset
  \/ LateMark \/ LateWrite \/ LateDropped

\* What needs no peer, or ends the wait for one when the context has ended.
OwnStep ==
  \/ parseRawEndpoint \/ makeH1Request \/ BeginExchange \/ BeginFails \/ MarkFirstByte
  \/ SettleExchange \/ RefuseCertificate \/ StartReplay \/ FinishExchange \/ FinishReplay
  \/ CancelOnReturn \/ Interrupt \/ DoInterrupted \/ DoResets

\* Acquire or dial returns.
ConnectStep ==
  \/ AcquireH1 \/ AcquireH2 \/ RedialMismatch \/ Redial
  \/ \E e \in DialErrorsNow : AcquireFails(e) \/ RedialFails(e)

Next == ContextEnds \/ PeerStep \/ OwnStep \/ CallbackRuns \/ ConnectStep \/ Done
Spec == Init /\ [][Next]_vars
-----------------------------------------------------------------------------
(* Properties                                                              *)

Returned == pc \in {"done", "returned"}

\* sendH1 writes a request a second time only if the first connection came from the
\* pool and gave not one byte of a response.
ReplayIsSafe == "fresh" \in octets => reused /\ "pooled" \notin heard

\* What Send leaves behind is what its callers rely on: every variable has its type, the
\* lease was released and the connection of the replay closed (sendH1, Send), a failure of
\* an attempt that was not marked when Do or the exchange ended does not claim to be sent,
\* and after a write a code from before the commitment comes from a redial, a late network
\* error or a certificate.
MeetsContract ==
  /\ TypeOK
  /\ Returned =>
       /\ lease # "held" /\ fresh # "open"
       /\ outcome \in Responses \cup (IF tracker /\ ~stray THEN AfterWrite ELSE Unwritten)

\* If a connection took octets of the body, the tracker is marked (h1.writeAll,
\* Session.Do), and a failure says that they may have been sent (sendH1, mapH2Exchange),
\* unless a GOAWAY promises that the stream was not processed, the server had asked for a
\* client certificate (transport_raw.go:147-150), or the session ended under an unmarked
\* write that the write loop carries out after Do returned (session.go:335).  An outcome
\* that lets the operation conclude that the request was refused comes from the status
\* line of a final response (h1Outcome, validateAttemptResponse), or from an informational
\* one that h1 rejected (h1.go:204-206).
OutcomeIsTrue ==
  Returned =>
    /\ octets # {} =>
         /\ tracker
         /\ outcome.kind = "failure" =>
              outcome.sent \/ exchange.err = "goAway" \/ certificate
              \/ (stray /\ exchange.err \in SessionErrors \cup {"interrupted"})
    /\ outcome.kind = "response" /\ outcome.status \in {"3xx4xx", "407", "429"}
         => final \/ exchange.status = "1xx"

\* A connection that goes back to the pool carries nothing of this attempt: no deadline,
\* and none that its context's callback sets later, when Send itself cancels the context
\* (exchangeH1, Send).
KeptIsClean == lease = "kept" => deadline = "none"
=============================================================================
