------------------------------ MODULE Response ------------------------------
(***************************************************************************)
(* From what a transport received to the error or result of the attempt    *)
(* (response_factory.go, operation_response.go): a response is built, the  *)
(* operation takes its snapshot, looks at its shape and judges it.         *)
(*                                                                         *)
(* It is built by NewAttemptResponse from the wire data, by hand in a      *)
(* custom transport (with any numbers in it), or by the built-in transport *)
(* (mapH1Exchange, mapH2Exchange).  Lengths are small numbers.             *)
(***************************************************************************)
EXTENDS Integers, Transport

CONSTANTS
  MaxPayload,            \* maxPayloadBytes
  ErrorBody,             \* wirelimits.ErrorBodyBytes
  Expansion,             \* wirelimits.ExpansionRatio
  Lengths                \* of bodies

ASSUME ResponseAssumption ==
  MaxPayload \in Nat \ {0} /\ ErrorBody \in 0..MaxPayload /\ Expansion \in Nat \ {0}
  /\ Lengths \subseteq Nat

VARIABLES
  responsePC,            \* "build", "snapshot", "shape", "validate", "judged", "malformed", "refused"
  origin,                \* who built it: see Custom and BuiltIns
  response,              \* the AttemptResponse
  content,               \* what validateAttemptResponse finds in headers and body
  judged                 \* its verdict

responseVars == <<responsePC, origin, response, content, judged>>

HeaderKinds == {"valid", "invalid", "over"}      \* an invalid byte; past a limit
Encodings == {"identity", "gzip", "unknown"}
\* A fitting JSON result; the wrong media type, no UTF-8, or another result; past a JSON limit.
Contents == {"result", "other", "jsonLimit"}
Snapshots == {"none", "set", "failed"}           \* HeadersReceivedAtSet, HeaderClockFailed

Custom == {"normalized", "handmade"}
\* A response whose headers were complete; one that broke off before they were; an empty one.
BuiltIns == {"complete", "head", "empty"}

Success(status) == status = "2xx"

\* A response with nothing in it; dated says that it has a Retry-After date.
Blank(status, headers, encoding, dated) ==
  [status |-> status, headers |-> headers, encoding |-> encoding, dated |-> dated,
   snapshot |-> "none", body |-> 0, compressed |-> 0, decompressed |-> 0, truncated |-> FALSE,
   normalized |-> FALSE, protocol |-> FALSE, limit |-> FALSE, forbidden |-> FALSE,
   incomplete |-> FALSE, timeout |-> FALSE]

ResponseInit ==
  /\ responsePC = "build" /\ origin = "normalized" /\ content = "result"
  /\ response = Blank("2xx", "valid", "identity", FALSE) /\ judged = Nothing
-----------------------------------------------------------------------------
(* NewAttemptResponse                                                      *)

NeedsSnapshot(status, dated) == dated /\ responseStatusRetryable(status)

\* markResponseHeaderViolation, for headers that are not valid.
MarkHeaders(r) ==
  IF r.headers = "over" THEN [r EXCEPT !.limit = TRUE, !.forbidden = TRUE, !.body = 0]
  ELSE [r EXCEPT !.protocol = TRUE, !.body = 0]

\* normalizeAttemptResponse; wire and decoded are lengths, decoded is -1 for corrupt gzip.
Normalize(blank, wire, decoded) ==
  LET r == [blank EXCEPT !.normalized = TRUE]
      sized == [r EXCEPT !.compressed = wire, !.decompressed = IF decoded < 0 THEN 0 ELSE decoded]
      broken == [sized EXCEPT !.protocol = TRUE, !.forbidden = ~Success(r.status)]
  IN CASE r.headers # "valid" -> MarkHeaders(r)
       [] r.headers = "valid" /\ r.encoding = "unknown" -> [r EXCEPT !.protocol = TRUE]
       [] r.headers = "valid" /\ r.encoding # "unknown" /\ wire > MaxPayload ->
            IF r.encoding = "identity"
            THEN [r EXCEPT !.compressed = wire, !.decompressed = wire, !.limit = TRUE,
                           !.forbidden = ~Success(r.status)]
            ELSE [r EXCEPT !.compressed = wire, !.protocol = TRUE, !.forbidden = ~Success(r.status)]
       [] OTHER ->
            IF decoded < 0 \/ decoded > MaxPayload \/ (wire > 0 /\ decoded > wire * Expansion) THEN broken
            ELSE IF ~Success(r.status) THEN [sized EXCEPT !.truncated = decoded > ErrorBody]
            ELSE [sized EXCEPT !.body = decoded]

Snapshot(r, answer) == IF NeedsSnapshot(r.status, r.dated) THEN [r EXCEPT !.snapshot = answer] ELSE r

\* decodeAttemptResponseBody: an empty body is no gzip stream.
Decodes(encoding, wire, decoded) ==
  /\ encoding = "identity" => decoded = wire
  /\ encoding = "gzip" /\ wire = 0 => decoded = -1

\* The wall clock is the caller's: it answers or it panics.
NewAttemptResponse(blank, wire, decoded) ==
  /\ responsePC = "build" /\ origin' = "normalized"
  /\ Decodes(blank.encoding, wire, decoded)
  /\ \E answer \in {"set", "failed"} : response' = Snapshot(Normalize(blank, wire, decoded), answer)
  /\ responsePC' = "snapshot" /\ UNCHANGED <<content, judged>>

\* Invalid arguments: there is no response.
RefuseArguments ==
  /\ responsePC = "build" /\ responsePC' = "refused"
  /\ UNCHANGED <<origin, response, content, judged>>

\* A custom transport fills in the exported fields as it likes.
HandMade(blank, body, compressed, decompressed, truncated, snapshot) ==
  /\ responsePC = "build" /\ origin' = "handmade"
  /\ response' = [blank EXCEPT !.body = body, !.compressed = compressed, !.decompressed = decompressed,
                               !.truncated = truncated, !.snapshot = snapshot]
  /\ responsePC' = "snapshot" /\ UNCHANGED <<content, judged>>
-----------------------------------------------------------------------------
(* The built-in transport.  It reads the wall clock when the headers of a  *)
(* response are complete, in the callback of h1 and of h2.                 *)

markBodyLimitViolation(r) ==
  IF r.encoding = "gzip" THEN [r EXCEPT !.protocol = TRUE] ELSE [r EXCEPT !.limit = TRUE]

Broken(r, how) ==
  CASE how = "tooLarge" -> [markBodyLimitViolation(r) EXCEPT !.forbidden = ~Success(r.status)]
    [] how = "protocol" -> [r EXCEPT !.protocol = TRUE, !.forbidden = ~Success(r.status)]
    [] how = "headers"  -> [r EXCEPT !.limit = TRUE, !.forbidden = TRUE]
    [] how = "cut"      -> [r EXCEPT !.truncated = TRUE, !.incomplete = TRUE]
    [] how = "timeout"  -> [r EXCEPT !.timeout = TRUE]

Breaks == {"tooLarge", "protocol", "headers", "cut", "timeout"}

\* A complete response, or one that broke off in its body.
BuiltIn(blank, wire, decoded, answer) ==
  /\ responsePC = "build" /\ origin' = "complete"
  /\ blank.headers = "valid" /\ blank.encoding # "unknown"
  /\ wire <= MaxPayload /\ decoded <= MaxPayload /\ decoded <= wire * Expansion
  /\ Decodes(blank.encoding, wire, decoded)
  /\ LET r == Snapshot([blank EXCEPT !.compressed = wire, !.decompressed = decoded], answer)
     IN \/ response' = [r EXCEPT !.body = IF Success(r.status) THEN decoded ELSE 0,
                                 !.truncated = ~Success(r.status) /\ decoded > ErrorBody]
        \/ \E how \in Breaks : response' = Broken(r, how)
  /\ responsePC' = "snapshot" /\ UNCHANGED <<content, judged>>

\* HTTP/1.1: after the status a header is bad, too long or one too many, the framing or the
\* encoding is refused, or time runs out.  The headers read so far are kept, a date among
\* them perhaps, and the clock is not read.
BrokenHead(blank, how) ==
  /\ responsePC = "build" /\ origin' = "head"
  /\ blank.headers # "invalid" /\ how \in {"protocol", "headers", "timeout"}
  /\ blank.headers = "over" => how = "headers"
  /\ response' = Broken(blank, how)
  /\ responsePC' = "snapshot" /\ UNCHANGED <<content, judged>>

\* HTTP/2: the response is thrown away, perhaps after the clock was read for its headers.
\* HTTP/1.1: the status line is bad or too long.  A 202 without headers takes its place,
\* retryForbidden since the status was not a 2xx.
EmptyResponse(blank, how, answer) ==
  /\ responsePC = "build" /\ origin' = "empty"
  /\ blank.headers = "valid" /\ how \in {"tooLarge", "protocol", "headers"}
  /\ response' = [Broken(Blank("2xx", "valid", "identity", FALSE), how)
                     EXCEPT !.forbidden = TRUE, !.snapshot = Snapshot(blank, answer).snapshot]
  /\ responsePC' = "snapshot" /\ UNCHANGED <<content, judged>>
-----------------------------------------------------------------------------
(* The operation                                                           *)

\* Seeded fault: the remainder of the ratio is forgotten.
ExceedsByQuotient(r) ==
  \/ r.body > MaxPayload \/ r.compressed > MaxPayload \/ r.decompressed > MaxPayload
  \/ IF r.compressed = 0 THEN r.decompressed > 0 ELSE r.decompressed \div r.compressed > Expansion

responseExceedsLimits(r) ==
  \/ r.body > MaxPayload \/ r.compressed > MaxPayload \/ r.decompressed > MaxPayload
  \/ IF r.compressed = 0 THEN r.decompressed > 0
     ELSE \/ r.decompressed \div r.compressed > Expansion
          \/ r.decompressed \div r.compressed = Expansion /\ r.decompressed % r.compressed > 0

snapshotAttemptResponse ==
  /\ responsePC = "snapshot"
  /\ LET r == IF response.headers = "valid" THEN response ELSE MarkHeaders(response)
     IN response' = IF ~r.normalized /\ ~r.protocol /\ ~r.limit /\ responseExceedsLimits(r)
                    THEN markBodyLimitViolation(r) ELSE r
  /\ responsePC' = "shape" /\ UNCHANGED <<origin, content, judged>>

\* validAttemptResponseShape: the wall clock was read exactly when the date needs it.
WellFormed(r) == r.snapshot # "none" <=> NeedsSnapshot(r.status, r.dated)

CheckShape ==
  /\ responsePC = "shape"
  /\ responsePC' = IF WellFormed(response) THEN "validate" ELSE "malformed"
  /\ UNCHANGED <<origin, response, content, judged>>

\* validateAttemptResponse
Validate(r, found) ==
  LET status == r.status
      retryable == responseStatusRetryable(status) /\ ~r.forbidden
      tooLarge == Verdict("RESPONSE_TOO_LARGE", "POSSIBLY_SENT", FALSE)
      protocol == Verdict("RESPONSE_PROTOCOL", "POSSIBLY_SENT", TRUE)
  IN CASE r.timeout -> Verdict("ATTEMPT_TIMEOUT", "POSSIBLY_SENT", TRUE)
       [] ~r.timeout /\ ~Success(status) ->
           (CASE status = "3xx4xx" -> Verdict("HTTP_REJECTED", "REJECTED", retryable)
              [] status = "407"    -> Verdict("PROXY", "NOT_SENT", retryable)
              [] status = "429"    -> Verdict("RATE_LIMITED", "REJECTED", retryable)
              [] status = "409"    -> Verdict("HTTP_REJECTED", "POSSIBLY_SENT", retryable)
              [] status = "5xx"    -> Verdict("SERVER_FAILURE", "POSSIBLY_SENT", retryable))
       [] OTHER ->
            IF r.limit \/ (~r.normalized /\ ~r.protocol /\ responseExceedsLimits(r)) THEN tooLarge
            ELSE IF r.protocol THEN Verdict("RESPONSE_PROTOCOL", "POSSIBLY_SENT", FALSE)
            ELSE IF r.truncated /\ ~r.incomplete THEN tooLarge
            ELSE IF r.body = 0 \/ found = "other" THEN protocol
            ELSE IF found = "jsonLimit" THEN tooLarge
            ELSE Verdict("none", "ACCEPTED", FALSE)

validateAttemptResponse ==
  /\ responsePC = "validate"
  /\ content' \in Contents /\ judged' = Validate(response, content')
  /\ responsePC' = "judged" /\ UNCHANGED <<origin, response>>

Build ==
  \E status \in Statuses, headers \in HeaderKinds, encoding \in Encodings, dated \in BOOLEAN :
    LET blank == Blank(status, headers, encoding, dated)
    IN \/ \E wire \in Lengths, decoded \in Lengths \cup {-1} : NewAttemptResponse(blank, wire, decoded)
       \/ \E body, compressed, decompressed \in Lengths, truncated \in BOOLEAN, snapshot \in Snapshots :
            HandMade(blank, body, compressed, decompressed, truncated, snapshot)
       \/ \E wire, decoded \in Lengths, answer \in {"set", "failed"} : BuiltIn(blank, wire, decoded, answer)
       \/ \E how \in Breaks : BrokenHead(blank, how)
       \/ \E how \in Breaks, answer \in {"set", "failed"} : EmptyResponse(blank, how, answer)

ResponseNext ==
  \/ responsePC = "build" /\ Build
  \/ RefuseArguments \/ snapshotAttemptResponse \/ CheckShape \/ validateAttemptResponse

ResponseSpec == ResponseInit /\ [][ResponseNext]_responseVars
-----------------------------------------------------------------------------
(* Properties                                                              *)

Exceeds(r) ==
  \/ r.headers = "over" \/ r.body > MaxPayload \/ r.compressed > MaxPayload
  \/ r.decompressed > MaxPayload \/ r.decompressed > r.compressed * Expansion

\* However a response was built:
\* - a result is returned only for a 2xx with valid headers and a body within every limit;
\* - a hand-made or normalized 2xx is RESPONSE_TOO_LARGE only when a limit is exceeded or the
\*   body was cut at one, and after a violation no 2xx is retried;
\* - what NewAttemptResponse builds is never malformed, nor what the built-in transport does
\*   once it has the headers; it does build a malformed response, which ends the operation,
\*   when a head with a Retry-After date breaks off, or a response is thrown away for whose
\*   date the clock was read, and in no other case;
\* - the verdict is one that the operation's model gives some response of that status.
ResponseIsSound ==
  /\ responsePC = "judged" =>
       /\ judged.code = "none" =>
            /\ Success(response.status) /\ response.headers = "valid" /\ ~Exceeds(response)
            /\ content = "result" /\ response.body > 0 /\ ~response.truncated
       /\ origin \in Custom /\ judged.code = "RESPONSE_TOO_LARGE" =>
            Exceeds(response) \/ response.truncated \/ content = "jsonLimit"
       /\ judged.retryable /\ ~response.timeout =>
            /\ responseStatusRetryable(response.status)
            /\ Success(response.status) => ~Exceeds(response) /\ response.headers = "valid"
       /\ \E fault \in Faults :
            judged = IF Success(response.status) /\ fault = "none" THEN Verdict("none", "ACCEPTED", FALSE)
                     ELSE ResponseVerdict(Response(response.status, fault))
  /\ responsePC = "malformed" =>
       \/ origin = "handmade"
       \/ origin = "head" /\ NeedsSnapshot(response.status, response.dated)
       \/ origin = "empty" /\ response.snapshot # "none"
=============================================================================
