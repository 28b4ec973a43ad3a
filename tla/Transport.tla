----------------------------- MODULE Transport -----------------------------
(***************************************************************************)
(* What a transport returns for one attempt (transport.go), as the         *)
(* operation judges it: a failure with its code and commitment, or a       *)
(* response with its status class and what is wrong with it.               *)
(***************************************************************************)

PreCommitCodes == {"DNS", "CONNECT", "PROXY", "PROXY_AUTH", "TLS"}
\* PROXY_AUTH is PROXY with the reason PROXY_AUTH_REQUIRED.
FailureCodes == PreCommitCodes \cup {"IO", "ATTEMPT_TIMEOUT", "CANCELLED", "CONFIGURATION"}

\* "3xx4xx" is every status that is not one of the others.
Statuses == {"2xx", "3xx4xx", "407", "409", "429", "5xx"}
\* What else validateAttemptResponse looks at: the body timed out; retryForbidden, or
\* a limit of a 2xx; a protocol violation; a body that is not the expected JSON.
Faults == {"none", "timeout", "limit", "protocol", "invalid"}

Failure(code, sent) == [kind |-> "failure", code |-> code, sent |-> sent]
Response(status, fault) == [kind |-> "response", status |-> status, fault |-> fault]
Failures  == [kind : {"failure"}, code : FailureCodes, sent : BOOLEAN]
Responses == [kind : {"response"}, status : Statuses, fault : Faults]
Malformed == [kind |-> "malformed"]    \* no or two results, or an invalid one
Nothing   == [kind |-> "nothing"]
Outcomes  == Failures \cup Responses \cup {Malformed}

responseStatusRetryable(status) == status \in {"2xx", "409", "429", "5xx"}

Verdict(code, delivery, retryable) ==
  [code |-> code, delivery |-> delivery, retryable |-> retryable]

\* validateAttemptResponse, for a response that is not a success.
ResponseVerdict(r) ==
  LET retryable == /\ responseStatusRetryable(r.status) /\ r.fault # "limit"
                   /\ r.status = "2xx" => r.fault # "protocol"
  IN
  CASE r.fault = "timeout"   -> Verdict("ATTEMPT_TIMEOUT", "POSSIBLY_SENT", TRUE)
    [] OTHER ->
       CASE r.status = "3xx4xx" -> Verdict("HTTP_REJECTED", "REJECTED", retryable)
         [] r.status = "407"    -> Verdict("PROXY", "NOT_SENT", retryable)
         [] r.status = "429"    -> Verdict("RATE_LIMITED", "REJECTED", retryable)
         [] r.status = "409"    -> Verdict("HTTP_REJECTED", "POSSIBLY_SENT", retryable)
         [] r.status = "5xx"    -> Verdict("SERVER_FAILURE", "POSSIBLY_SENT", retryable)
         [] OTHER -> Verdict(IF r.fault = "limit" THEN "RESPONSE_TOO_LARGE"
                             ELSE "RESPONSE_PROTOCOL", "POSSIBLY_SENT", retryable)

\* A failure of an attempt that wrote nothing; of one that wrote request bytes, when
\* the codes before the commitment are kept for the former; and when they are not: a
\* redial or a late network error says it was sent, a client certificate may not.
Unwritten  == {f \in Failures : ~f.sent}
PostCommit == {f \in Failures : f.code \notin PreCommitCodes}
AfterWrite == PostCommit \cup {f \in Failures : f.sent \/ f.code = "TLS"}
=============================================================================
