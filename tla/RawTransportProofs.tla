------------------------- MODULE RawTransportProofs -------------------------
(***************************************************************************)
(* One attempt keeps its contract whatever the network, the server and the *)
(* context do: proofs about RawTransport.                                  *)
(***************************************************************************)
EXTENDS RawTransport, TLAPS

\* Where Send is.
Before == {"prepare", "request", "acquire"}
Exchanging == {"write", "body", "mark", "head", "response", "settle"}
OnH1 == Exchanging \cup {"begin", "exchanged"}
OnH2 == {"do", "doMark", "doing", "doReset"}

\* Which connection the request is on, and what the first one gave before a replay.
LeaseShape ==
  /\ pc \in Before => lease = "none" /\ octets = {} /\ ~tracker
  /\ pc \in Before \cup OnH2 \cup {"redial"} => on = "pooled" /\ fresh = "none"
  /\ pc \in OnH1 \cup OnH2 =>
       IF on = "fresh" THEN lease = "retired" /\ fresh = "open"
       ELSE lease = "held" /\ fresh = "none"
  /\ pc = "redial" => lease = "retired"
  /\ pc = "redial" \/ on = "fresh" => reused /\ "pooled" \notin heard
  /\ "fresh" \in octets => on = "fresh"

\* When the connection has a deadline, and what interrupts an exchange.
DeadlineShape ==
  /\ callback \/ deadline # "none" => pc \in Exchanging
  /\ deadline = "past" \/ exchange.err = "interrupted" \/ pc = "doReset" => ctx # "live"
  /\ lease = "kept" => Returned

\* What the exchange knows of the octets that were written and the head that was read.
CommitShape ==
  /\ octets # {} => tracker \/ pc = "mark"
  /\ pc \in {"doMark", "doing"} => tracker
  /\ pc = "do" => ~tracker
  /\ pc \in Before \cup OnH1 \cup {"redial"} =>
       (tracker <=> exchange.committed \/ exchange.earlier)
  /\ on = "pooled" => ~exchange.earlier
  /\ exchange.err \in {"goAway", "streamReset"} => Returned
  /\ exchange.status \in Statuses => final

\* What Send returns, from what it knows then.
ResultShape ==
  Returned =>
    /\ lease # "held" /\ fresh # "open"
    /\ outcome \in Responses \cup (IF tracker /\ ~stray THEN AfterWrite ELSE Unwritten)

\* What Do may leave behind when the session ends under it.
LateShape ==
  /\ late # "none" \/ stray => Returned /\ exchange.err \in SessionErrors \cup {"interrupted"}
  /\ late = "queued" => ~tracker
  /\ late = "marked" => tracker /\ (stray \/ outcome.kind # "failure" \/ outcome.sent)

RawInv ==
  /\ TypeOK /\ LeaseShape /\ DeadlineShape /\ CommitShape /\ ResultShape /\ LateShape
  /\ OutcomeIsTrue
-----------------------------------------------------------------------------
(* What an outcome can be                                                  *)

ExchangeErrors == {"none", "interrupted", "goAway", "streamReset"} \cup SessionErrors \cup BodyErrors
Exchanges ==
  [err : ExchangeErrors, status : Heads, wrote : BOOLEAN, committed : BOOLEAN, earlier : BOOLEAN]

\* A failure of an attempt that has written, or has not, as tracked says.
Tells(o, tracked) == o \in Failures /\ (o.sent <=> tracked)

\* Which statuses may stand for the head that was read.
Speaks(o, head) == o \in Responses /\ o.status = StatusClass(head)

\* A membership is a truth value.
LEMMA TruthIs ==
  ASSUME NEW x, NEW a, NEW S, x = (a \in S)
  PROVE  x \in BOOLEAN /\ (a \in S => x)
<1>1. CASE a \in S
  BY <1>1, Zenon
<1>2. CASE a \notin S
  BY <1>2, SMT
<1> QED BY <1>1, <1>2

\* The fields of a failure.
LEMMA FailureIs ==
  ASSUME NEW code \in FailureCodes, NEW sent \in BOOLEAN
  PROVE  /\ Failure(code, sent) \in Failures
         /\ Failure(code, sent).kind = "failure"
         /\ Failure(code, sent).code = code
         /\ Failure(code, sent).sent = sent
BY DEF Failure, Failures

\* The fields of a response.
LEMMA ResponseIs ==
  ASSUME NEW class \in Statuses, NEW fault \in Faults
  PROVE  /\ Response(class, fault) \in Responses
         /\ Response(class, fault).kind = "response"
         /\ Response(class, fault).status = class
BY DEF Response, Responses

\* A failure is no response.
LEMMA KindsDiffer ==
  /\ \A o \in Failures : o.kind = "failure"
  /\ \A o \in Responses : o.kind = "response"
BY DEF Failures, Responses

\* A head that reads as a refusal was a final or an informational one.
LEMMA ClassIs ==
  ASSUME NEW head \in Heads
  PROVE  /\ StatusClass(head) \in Statuses
         /\ StatusClass(head) \in {"3xx4xx", "407", "429"} => head \in Statuses \cup {"1xx"}
BY DEF Heads, Statuses, StatusClass

\* Every cause has a code.
LEMMA CodeIs ==
  ASSUME NEW cause \in Causes \cup {"dns", "certificate", "refused"}
  PROVE  CauseCode[cause] \in FailureCodes
BY DEF CauseCode, Causes, FailureCodes, PreCommitCodes

\* Every cause an exchange or a dial meets has a code.
LEMMA ClassifiedIs ==
  ASSUME NEW cause,
         \/ cause \in Causes \cup {"dns", "certificate", "refused"}
         \/ cause = "interrupted" /\ ctx # "live"
         \/ cause \in {"deadline", "cancelled"},
         ctx \in {"live", "cancelled", "expired"}
  PROVE  classifyTransportCause(cause) \in FailureCodes
BY CodeIs DEF classifyTransportCause, FailureCodes

\* dialFailure has an outcome for every error of a dial, and claims nothing was sent.
LEMMA DialFailureIs ==
  ASSUME NEW e \in DialErrorsNow, ctx \in {"live", "cancelled", "expired"}
  PROVE  dialFailure(e) \in Failures /\ dialFailure(e).sent = FALSE
<1>1. CASE e \in {"negotiation", "credentials", "proxyAuth", "proxy"}
  BY <1>1, FailureIs, Zenon DEF dialFailure, FailureCodes, PreCommitCodes
<1>2. CASE e = "deadline" /\ ctx = "live"
  BY <1>2, FailureIs, Zenon DEF dialFailure, FailureCodes, PreCommitCodes
<1>3. CASE e \notin {"negotiation", "credentials", "proxyAuth", "proxy"} /\ ~(e = "deadline" /\ ctx = "live")
  <2>1. e \in Causes \cup {"dns", "certificate", "refused"} \cup {"deadline", "cancelled"}
    BY <1>3 DEF DialErrorsNow, DialErrors, CauseCode
  <2>2. classifyTransportCause(e) \in FailureCodes
    BY <2>1, ClassifiedIs
  <2>3. dialFailure(e) = Failure(classifyTransportCause(e), FALSE)
    BY <1>3, Zenon DEF dialFailure
  <2> QED BY <2>2, <2>3, FailureIs, ZenonT(30)
<1> QED BY <1>1, <1>2, <1>3, Zenon

\* An exchange that a cause ended: a response only for a head that was read.
LEMMA CauseOutcomeIs ==
  ASSUME NEW err, NEW head \in Heads, NEW sent \in BOOLEAN,
         err \in Causes \cup {"cancelled", "deadline"} \/ (err = "interrupted" /\ ctx # "live"),
         ctx \in {"live", "cancelled", "expired"}
  PROVE  Tells(CauseOutcome(err, head, sent), sent) \/ Speaks(CauseOutcome(err, head, sent), head)
<1>1. classifyTransportCause(err) \in FailureCodes
  BY ClassifiedIs
<1>2. "timeout" \in Faults
  BY DEF Faults
<1> QED BY <1>1, <1>2, FailureIs, ResponseIs, ClassIs DEF CauseOutcome, Tells, Speaks

\* A response read to its end has the status of its head.
LEMMA GoodResponseIs ==
  ASSUME NEW head \in Heads, NEW o \in GoodResponses(head)
  PROVE  Speaks(o, head)
BY ResponseIs, ClassIs DEF GoodResponses, Speaks, Faults

\* A response whose body failed has the status of its head.
LEMMA BadResponseIs ==
  ASSUME NEW err \in BodyErrors, NEW head \in Heads
  PROVE  Speaks(BadResponse(err, head), head)
<1>1. PICK fault \in Faults : BadResponse(err, head) = Response(StatusClass(head), fault)
  BY DEF BadResponse, BodyErrors, HeadErrors, Violation, Faults
<1> QED BY <1>1, ResponseIs, ClassIs DEF Speaks
-----------------------------------------------------------------------------
(* The steps of RawTransport                                               *)

\* The invariant holds before the attempt.
LEMMA RawInitially == Init => RawInv
<1> SUFFICES ASSUME Init PROVE RawInv
  OBVIOUS
<1>1. NoExchange \in Exchanges
  BY DEF NoExchange, Exchanges, ExchangeErrors, Heads
<1>2. TypeOK
  <2>1. interim \in 0..MaxInformational
    BY RawTransportAssumption DEF Init
  <2>2. exchange \in Exchanges /\ outcome \in {Nothing} /\ octets = {} /\ heard = {}
    BY <1>1 DEF Init
  <2> QED BY <2>1, <2>2, Zenon DEF Init, TypeOK, PCs, Connections, Exchanges, ExchangeErrors
<1>3. LeaseShape /\ DeadlineShape /\ CommitShape
  BY DEF Init, NoExchange, LeaseShape, DeadlineShape, CommitShape, Returned, Before, Exchanging,
     OnH1, OnH2, Statuses
<1>4. ResultShape /\ LateShape /\ OutcomeIsTrue
  BY DEF Init, ResultShape, LateShape, OutcomeIsTrue, Returned
<1> QED BY <1>2, <1>3, <1>4 DEF RawInv

\* Nothing is left behind before Send returns.
LEMMA Punctual ==
  ASSUME RawInv, ~Returned, UNCHANGED lateVars
  PROVE  LateShape' /\ late' = "none" /\ stray' = FALSE
<1>1. late = "none" /\ stray = FALSE
  BY DEF RawInv, LateShape, TypeOK
<1> QED BY <1>1 DEF LateShape, lateVars

\* An attempt that fails before it has a connection.
LEMMA FailsEarly ==
  ASSUME RawInv, pc \in Before, NEW f \in Failures, f.sent = FALSE,
         Finish(f), UNCHANGED leaseVars, SendFrame
  PROVE  RawInv'
<1> USE DEF Finish, leaseVars, SendFrame, deadlineVars, lateVars, history
<1>4. LateShape' /\ late' = "none" /\ stray' = FALSE
  BY Punctual DEF Before, Returned
<1>1. TypeOK'
  BY DEF RawInv, TypeOK, PCs
<1>2. LeaseShape' /\ DeadlineShape' /\ CommitShape'
  BY DEF RawInv, LeaseShape, DeadlineShape, CommitShape, Returned, Before, Exchanging, OnH1, OnH2
<1>3. ResultShape' /\ OutcomeIsTrue'
  BY KindsDiffer DEF RawInv, LeaseShape, ResultShape, OutcomeIsTrue, Unwritten, Returned, Before
<1> QED BY <1>1, <1>2, <1>3, <1>4 DEF RawInv

\* Send up to the exchange.
LEMMA SendUp ==
  ASSUME RawInv,
         \/ parseRawEndpoint \/ makeH1Request \/ AcquireH1 \/ AcquireH2
         \/ \E e \in DialErrorsNow : AcquireFails(e)
  PROVE  RawInv'
<1> USE DEF leaseVars, SendFrame, deadlineVars, lateVars, history
<1>1. ctx \in {"live", "cancelled", "expired"}
  BY DEF RawInv, TypeOK
<1>2. Failure("IO", FALSE) \in Failures /\ Failure("IO", FALSE).sent = FALSE
  BY FailureIs, Zenon DEF FailureCodes
<1>3. CASE (parseRawEndpoint \/ makeH1Request) /\ pc' # "done"
  <2> /\ pc \in Before /\ pc' \in {"request", "acquire"}
      /\ UNCHANGED outcome /\ UNCHANGED leaseVars /\ SendFrame
    BY <1>3, Zenon DEF parseRawEndpoint, makeH1Request, Finish, Before
  <2>1. TypeOK'
    BY DEF RawInv, TypeOK, PCs
  <2>2. LeaseShape' /\ DeadlineShape' /\ CommitShape'
    BY DEF RawInv, LeaseShape, DeadlineShape, CommitShape, Returned, Before, Exchanging, OnH1, OnH2
  <2>3. ResultShape' /\ OutcomeIsTrue'
    BY SMTT(30) DEF ResultShape, OutcomeIsTrue, Returned
  <2>4. LateShape'
    BY Punctual DEF Before, Returned
  <2> QED BY <2>1, <2>2, <2>3, <2>4 DEF RawInv
<1>4. CASE (parseRawEndpoint \/ makeH1Request) /\ pc' = "done"
  BY <1>2, <1>4, FailsEarly, Zenon DEF parseRawEndpoint, makeH1Request, Before
<1>5. CASE \E e \in DialErrorsNow : AcquireFails(e)
  BY <1>1, <1>5, FailsEarly, DialFailureIs, Zenon DEF AcquireFails, Before
<1>6. CASE AcquireH1 \/ AcquireH2
  <2>1. TypeOK'
    BY <1>6 DEF AcquireH1, AcquireH2, RawInv, TypeOK, PCs
  <2>2. LeaseShape' /\ DeadlineShape' /\ CommitShape'
    BY <1>6 DEF AcquireH1, AcquireH2, RawInv, LeaseShape, DeadlineShape,
       CommitShape, Returned, Before, Exchanging, OnH1, OnH2
  <2>3. ResultShape' /\ OutcomeIsTrue'
    BY <1>6 DEF AcquireH1, AcquireH2, ResultShape, OutcomeIsTrue, Returned
  <2>4. LateShape'
    BY <1>6, Punctual DEF AcquireH1, AcquireH2, Returned
  <2> QED BY <2>1, <2>2, <2>3, <2>4 DEF RawInv
<1> QED BY <1>3, <1>4, <1>5, <1>6

\* The context, and the callback that waits for its end.
LEMMA ContextSteps ==
  ASSUME RawInv, ContextEnds \/ CancelOnReturn \/ CallbackRuns
  PROVE  RawInv'
<1> USE DEF ContextEnds, CancelOnReturn, CallbackRuns, leaseVars, deadlineVars, lateVars, history
<1>1. TypeOK'
  <2>1. /\ pc' \in PCs /\ ctx' \in {"live", "cancelled", "expired"}
        /\ callback' \in BOOLEAN /\ deadline' \in {"none", "context", "past"}
    BY Zenon DEF RawInv, TypeOK, PCs
  <2> QED BY <2>1 DEF RawInv, TypeOK
<1>2. LeaseShape'
  BY DEF RawInv, LeaseShape, Before, Exchanging, OnH1, OnH2
<1>3. DeadlineShape'
  BY DEF RawInv, DeadlineShape, Returned, Exchanging
<1>4. CommitShape'
  BY DEF RawInv, CommitShape, Returned, Before, Exchanging, OnH1
<1>5. ResultShape' /\ OutcomeIsTrue'
  BY DEF RawInv, ResultShape, OutcomeIsTrue, Returned
<1>6. LateShape'
  BY DEF RawInv, LateShape, Returned
<1> QED BY <1>1, <1>2, <1>3, <1>4, <1>5, <1>6, SMTT(30) DEF RawInv

\* What a step of an exchange does to the rest: it stays where it is until it settles.
ExchangeKeeps ==
  /\ ExchangeFrame /\ pc \in OnH1 /\ pc' \in OnH1
  /\ exchange'.earlier = exchange.earlier
  /\ octets \subseteq octets' /\ octets' \subseteq octets \cup {on}
  /\ heard \subseteq heard' /\ heard' \subseteq heard \cup {on}

\* Such a step keeps the invariant if it marks what it wrote, and if what it read and what
\* interrupted it was there.
LEMMA ExchangeStep ==
  ASSUME RawInv, ExchangeKeeps, exchange' \in Exchanges, interim' \in 0..MaxInformational,
         tracker' \in BOOLEAN, final' \in BOOLEAN,
         exchange'.err \in ErrorsNow \cup {"none"} \cup BodyErrors \cup {exchange.err},
         tracker' <=> exchange'.committed \/ exchange'.earlier,
         octets' # {} => tracker' \/ pc' = "mark",
         callback \/ deadline # "none" => pc' \in Exchanging,
         exchange'.status \in Statuses => final'
  PROVE  RawInv'
<1> USE DEF ExchangeKeeps, ExchangeFrame, leaseVars, deadlineVars, lateVars
<1>1. TypeOK'
  <2>1. octets' \subseteq Connections /\ heard' \subseteq Connections /\ pc' \in PCs
    BY DEF RawInv, TypeOK, OnH1, Exchanging, PCs
  <2> QED BY <2>1, SMTT(30) DEF RawInv, TypeOK, Exchanges, ExchangeErrors
<1>2. LeaseShape'
  BY DEF RawInv, LeaseShape, Before, OnH1, OnH2, Exchanging
<1>3. DeadlineShape'
  <2>1. exchange'.err = "interrupted" => ctx # "live"
    BY DEF RawInv, DeadlineShape, ErrorsNow, Causes, BodyErrors, HeadErrors
  <2> QED BY <2>1 DEF RawInv, DeadlineShape, Returned, OnH1, Exchanging
<1>4. CommitShape'
  <2>1. exchange'.err \notin {"goAway", "streamReset"}
    BY DEF RawInv, CommitShape, Returned, OnH1, Exchanging, ErrorsNow, Causes, BodyErrors,
       HeadErrors
  <2> QED BY <2>1 DEF RawInv, CommitShape, OnH1, Exchanging
<1>5. ResultShape' /\ OutcomeIsTrue'
  BY DEF ResultShape, OutcomeIsTrue, Returned, OnH1, Exchanging
<1>6. LateShape'
  BY Punctual DEF Returned, OnH1, Exchanging
<1> QED BY <1>1, <1>2, <1>3, <1>4, <1>5, <1>6 DEF RawInv

\* An exchange that has ended with an error and a head, or goes on.
LEMMA ExchangedIs ==
  ASSUME RawInv, NEW err \in ExchangeErrors, NEW head \in Heads, Exchanged(err, head)
  PROVE  /\ exchange' \in Exchanges /\ exchange'.err = err /\ exchange'.status = head
         /\ exchange'.committed = exchange.committed /\ exchange'.earlier = exchange.earlier
         /\ pc' = "settle"
BY Zenon DEF RawInv, TypeOK, Exchanges, ExchangeErrors, Exchanged

\* The steps of an exchange while nothing of it has been answered.
LEMMA WriteSteps ==
  ASSUME RawInv, BeginFails \/ WriteFails \/ WriteHead \/ WriteBody \/ MarkFirstByte
  PROVE  RawInv'
<1> USE DEF history
<1>1. /\ exchange \in Exchanges /\ interim \in 0..MaxInformational /\ final \in BOOLEAN
      /\ tracker \in BOOLEAN /\ "none" \in Heads
  BY DEF RawInv, TypeOK, Exchanges, ExchangeErrors, Heads
<1>2. /\ exchange.status \in Statuses => final
      /\ octets # {} => tracker \/ pc = "mark"
      /\ pc \in OnH1 => (tracker <=> exchange.committed \/ exchange.earlier)
      /\ callback \/ deadline # "none" => pc \in Exchanging
  BY DEF RawInv, CommitShape, DeadlineShape
<1>3. "none" \notin Statuses /\ Causes \subseteq ExchangeErrors /\ Causes \subseteq ErrorsNow
      /\ ErrorsNow \subseteq ExchangeErrors
  BY DEF Statuses, ExchangeErrors, SessionErrors, ErrorsNow
<1>4. CASE BeginFails
  <2>1. PICK e \in Causes : exchange' = [exchange EXCEPT !.err = e]
    BY <1>4 DEF BeginFails
  <2>2. /\ exchange' \in Exchanges /\ exchange'.err = e /\ exchange'.status = exchange.status
        /\ exchange'.committed = exchange.committed /\ exchange'.earlier = exchange.earlier
    BY <1>1, <1>3, <2>1 DEF Exchanges
  <2>3. ExchangeKeeps
    BY <1>4, <2>2 DEF BeginFails, ExchangeKeeps, OnH1
  <2>4. /\ pc = "begin" /\ pc' = "exchanged"
        /\ UNCHANGED <<tracker, interim, octets, final, callback, deadline>>
    BY <1>4 DEF BeginFails, ExchangeFrame, deadlineVars
  <2> QED BY <1>1, <1>2, <1>3, <2>2, <2>3, <2>4, ExchangeStep DEF OnH1, Exchanging
<1>5. CASE WriteFails
  <2>1. PICK e \in Causes : Exchanged(e, "none")
    BY <1>5 DEF WriteFails
  <2>2. ExchangeKeeps
    BY <1>1, <1>3, <1>5, <2>1, ExchangedIs DEF WriteFails, ExchangeKeeps, OnH1, Exchanging
  <2>3. /\ pc \in {"write", "body"}
        /\ UNCHANGED <<tracker, interim, octets, final, callback, deadline>>
    BY <1>5 DEF WriteFails, ExchangeFrame, deadlineVars
  <2> QED BY <1>1, <1>2, <1>3, <2>1, <2>2, <2>3, ExchangedIs, ExchangeStep DEF OnH1, Exchanging
<1>6. CASE WriteHead \/ WriteBody
  <2>1. ExchangeKeeps
    BY <1>6 DEF WriteHead, WriteBody, ExchangeKeeps, OnH1, Exchanging
  <2>2. /\ pc \in {"write", "body"} /\ pc' \in {"body", "mark"}
        /\ UNCHANGED <<tracker, interim, exchange, final, callback, deadline>>
        /\ octets' # octets => pc' = "mark"
    BY <1>6 DEF WriteHead, WriteBody, ExchangeFrame, deadlineVars
  <2> QED BY <1>1, <1>2, <2>1, <2>2, ExchangeStep DEF OnH1, Exchanging
<1>7. CASE MarkFirstByte
  <2>1. /\ exchange' \in Exchanges /\ exchange'.committed /\ exchange'.earlier = exchange.earlier
        /\ exchange'.status = exchange.status /\ exchange'.err \in ErrorsNow \cup {exchange.err}
    BY <1>1, <1>3, <1>7, ZenonT(30) DEF MarkFirstByte, Exchanges
  <2>2. ExchangeKeeps
    BY <1>7, <2>1, ZenonT(30) DEF MarkFirstByte, ExchangeKeeps, OnH1, Exchanging
  <2>3. /\ pc' \in {"head", "settle"} /\ tracker'
        /\ UNCHANGED <<interim, octets, final, callback, deadline>> /\ tracker' \in BOOLEAN
    BY <1>7, Zenon DEF MarkFirstByte, ExchangeFrame, deadlineVars
  <2> QED BY <1>1, <1>2, <2>1, <2>2, <2>3, ExchangeStep, SMTT(30) DEF Exchanging
<1> QED BY <1>4, <1>5, <1>6, <1>7

\* And those that read the answer, or end the wait for it.
LEMMA ReadSteps ==
  ASSUME RawInv, HeadFails \/ HeadInvalid \/ ReadInterim \/ ReadFinalHead \/ ReadBody \/ Interrupt
  PROVE  RawInv'
<1> USE DEF history
<1>1. /\ exchange \in Exchanges /\ exchange.status \in Heads
      /\ interim \in 0..MaxInformational /\ final \in BOOLEAN
      /\ tracker \in BOOLEAN /\ {"none", "1xx"} \subseteq Heads /\ Statuses \subseteq Heads
  BY DEF RawInv, TypeOK, Exchanges, ExchangeErrors, Heads
<1>2. /\ exchange.status \in Statuses => final
      /\ octets # {} => tracker \/ pc = "mark"
      /\ pc \in OnH1 => (tracker <=> exchange.committed \/ exchange.earlier)
      /\ deadline = "past" => ctx # "live"
  BY DEF RawInv, CommitShape, DeadlineShape
<1>3. /\ "none" \notin Statuses /\ "1xx" \notin Statuses
      /\ Causes \subseteq ErrorsNow /\ HeadErrors \subseteq BodyErrors /\ "incomplete" \in BodyErrors
      /\ ErrorsNow \cup BodyErrors \cup {"none"} \subseteq ExchangeErrors
      /\ ctx # "live" => "interrupted" \in ErrorsNow
  BY ZenonT(30) DEF Statuses, ExchangeErrors, SessionErrors, ErrorsNow, BodyErrors
<1>4. /\ pc \in {"write", "body", "head", "response"} /\ pc' \in {"head", "response", "settle"}
      /\ UNCHANGED <<tracker, octets>> /\ ExchangeFrame
      /\ heard' = heard \/ heard' = heard \cup {on}
  BY Zenon DEF HeadFails, HeadInvalid, ReadInterim, ReadFinalHead, ReadBody, Interrupt, Exchanged, Hears
<1>5. interim' \in 0..MaxInformational
  BY <1>1, RawTransportAssumption
     DEF HeadFails, HeadInvalid, ReadInterim, ReadFinalHead, ReadBody, Interrupt
<1> DEFINE Ends(err, head) ==
             Exchanged(err, head) /\ (head \in Statuses => final') /\ final' \in BOOLEAN
           Errors == ErrorsNow \cup BodyErrors \cup {"none"}
<1>6. (\E err \in Errors, head \in Heads : Ends(err, head)) \/ ReadFinalHead \/ UNCHANGED <<exchange, final>>
  <2>1. CASE HeadFails
    <3>1. PICK e \in Causes, head \in Heads : Ends(e, head)
      BY <2>1, TruthIs, Zenon DEF HeadFails
    <3> QED BY <1>3, <3>1
  <2>2. CASE HeadInvalid
    <3>1. PICK e \in HeadErrors, head \in Heads : Ends(e, head)
      BY <2>2, TruthIs, Zenon DEF HeadInvalid
    <3> QED BY <1>3, <3>1
  <2>3. CASE ReadInterim
    <3>1. (Exchanged("protocol", "1xx") /\ UNCHANGED final) \/ UNCHANGED <<exchange, final>>
      BY <2>3, Zenon DEF ReadInterim
    <3> QED BY <1>1, <1>3, <3>1 DEF HeadErrors
  <2>4. CASE ReadBody
    <3>1. PICK e \in {"none"} \cup BodyErrors : Exchanged(e, exchange.status) /\ UNCHANGED final
      BY <2>4, Zenon DEF ReadBody
    <3> QED BY <1>1, <1>2, <3>1
  <2>5. CASE Interrupt
    <3>1. ctx # "live"
      BY <1>2, <2>5 DEF Interrupt
    <3>2. CASE Exchanged("interrupted", "none") /\ UNCHANGED final
      BY <1>1, <1>3, <3>1, <3>2
    <3>3. CASE \E head \in Heads : Ends("interrupted", head)
      BY <1>3, <3>1, <3>3
    <3>4. CASE Exchanged("incomplete", exchange.status) /\ UNCHANGED final
      BY <1>1, <1>2, <1>3, <3>4
    <3> QED BY <2>5, <3>2, <3>3, <3>4, TruthIs, Zenon DEF Interrupt
  <2> QED BY <2>1, <2>2, <2>3, <2>4, <2>5
<1> DEFINE Read == /\ exchange' \in Exchanges
                   /\ exchange'.committed = exchange.committed
                   /\ exchange'.earlier = exchange.earlier
                   /\ exchange'.err \in Errors \cup {exchange.err}
                   /\ exchange'.status \in Statuses => final'
                   /\ final' \in BOOLEAN
<1>7. Read
  <2>1. CASE ReadFinalHead
    BY <1>1, <2>1, SMTT(30) DEF ReadFinalHead, Exchanges
  <2>2. ASSUME NEW err \in Errors, NEW head \in Heads, Ends(err, head)
        PROVE  Read
    BY <1>3, <2>2, ExchangedIs, SMTT(30)
  <2> QED BY <1>1, <1>2, <1>6, <2>1, <2>2
<1>8. ExchangeKeeps
  BY <1>4, <1>7 DEF ExchangeKeeps, OnH1, Exchanging
<1> QED BY <1>1, <1>2, <1>4, <1>5, <1>7, <1>8, ExchangeStep
           DEF ExchangeFrame, deadlineVars, OnH1, Exchanging

\* The connection gets a deadline, and loses it before the exchange is over.
LEMMA DeadlineSteps ==
  ASSUME RawInv, BeginExchange \/ SettleExchange
  PROVE  RawInv'
<1> USE DEF BeginExchange, SettleExchange, leaseVars, lateVars, history
<1>1. pc \in {"begin", "settle"} /\ pc' \in {"write", "exchanged"} /\ (pc' = "exchanged" => pc = "settle")
  OBVIOUS
<1>2. TypeOK'
  <2>1. pc' \in PCs /\ callback' \in BOOLEAN /\ deadline' \in {"none", "context", "past"}
    BY <1>1, Zenon DEF PCs
  <2> QED BY <2>1 DEF RawInv, TypeOK
<1>3. LeaseShape'
  BY <1>1 DEF RawInv, LeaseShape, Before, OnH1, OnH2, Exchanging
<1>4. DeadlineShape'
  BY DEF RawInv, DeadlineShape, Returned, Exchanging
<1>5. CommitShape'
  BY <1>1 DEF RawInv, CommitShape, Returned, Before, OnH1, Exchanging
<1>6. ResultShape' /\ OutcomeIsTrue'
  BY <1>1 DEF ResultShape, OutcomeIsTrue, Returned
<1>7. LateShape'
  BY <1>1, Punctual DEF Returned
<1> QED BY <1>2, <1>3, <1>4, <1>5, <1>6, <1>7 DEF RawInv

\* Send returns with what it knows: a failure that tells whether the tracker is marked, one
\* that the server has vouched for, or a response with the status that was read.
LEMMA Finishes ==
  ASSUME RawInv, pc \in {"exchanged", "redial"} \cup OnH2, NEW o, Finish(o),
         UNCHANGED <<ctx, reused, certificate, on, callback, deadline, tracker, interim, octets,
         heard, stray>>,
         late' \in {"none", "queued", "marked"}, LateShape',
         lease' \in {"kept", "retired"}, fresh' \in {"none", "closed"},
         exchange' \in Exchanges, exchange'.err = "interrupted" => ctx # "live",
         on = "pooled" => ~exchange'.earlier,
         final' \in BOOLEAN, exchange'.status \in Statuses => final',
         \/ Tells(o, tracker)
         \/ /\ o \in Failures /\ ~o.sent
            /\ (o.code = "TLS" /\ certificate) \/ (o.code = "IO" /\ exchange'.err = "goAway")
         \/ Speaks(o, exchange'.status)
  PROVE  RawInv'
<1> USE DEF Finish
<1>1. /\ o \in Responses \cup Failures
      /\ o \in Responses \cup (IF tracker THEN AfterWrite ELSE Unwritten)
  BY DEF RawInv, TypeOK, Tells, Speaks, AfterWrite, PostCommit, Unwritten, PreCommitCodes
<1>2. pc \notin Exchanging /\ pc \notin Before
  BY DEF Exchanging, Before, OnH2
<1>9. stray = FALSE
  BY DEF RawInv, TypeOK, LateShape, Returned, OnH2
<1>3. TypeOK'
  BY <1>1 DEF RawInv, TypeOK, PCs, Exchanges, ExchangeErrors
<1>4. LeaseShape'
  BY DEF RawInv, LeaseShape, Before, OnH1, OnH2, Exchanging
<1>5. DeadlineShape'
  BY <1>2, SMTT(30) DEF RawInv, DeadlineShape, Returned
<1>6. CommitShape'
  BY <1>2 DEF RawInv, CommitShape, Returned, Before, OnH1, OnH2, Exchanging
<1>7. ResultShape'
  BY <1>1, <1>9 DEF ResultShape
<1>8. OutcomeIsTrue'
  <2>1. octets # {} => tracker
    BY <1>2 DEF RawInv, CommitShape, Exchanging
  <2>2. o.kind = "failure" => o \in Failures
    BY <1>1, KindsDiffer
  <2>3. o \in Failures /\ tracker => o.sent \/ exchange'.err = "goAway" \/ certificate
    BY KindsDiffer DEF Tells, Speaks
  <2>4. o.kind = "response" => Speaks(o, exchange'.status)
    BY KindsDiffer DEF Tells
  <2>5. exchange'.status \in Heads
    BY DEF Exchanges
  <2>6. o.kind = "response" /\ o.status \in {"3xx4xx", "407", "429"} => final' \/ exchange'.status = "1xx"
    BY <2>4, <2>5, ClassIs DEF Speaks
  <2> QED BY <2>1, <2>2, <2>3, <2>6, Zenon DEF OutcomeIsTrue
<1> QED BY <1>3, <1>4, <1>5, <1>6, <1>7, <1>8 DEF RawInv

\* mapH1Exchange has an outcome for every exchange that can end.
LEMMA MappedIs ==
  ASSUME RawInv, pc = "exchanged", NEW o \in mapH1Exchange
  PROVE  Tells(o, tracker) \/ Speaks(o, exchange.status)
<1>1. /\ exchange \in Exchanges /\ exchange.status \in Heads /\ tracker \in BOOLEAN
      /\ exchange.err \in ExchangeErrors /\ exchange.committed \in BOOLEAN /\ exchange.earlier \in BOOLEAN
      /\ ctx \in {"live", "cancelled", "expired"}
  BY DEF RawInv, TypeOK, Exchanges, ExchangeErrors
<1>2. /\ tracker <=> exchange.committed \/ exchange.earlier
      /\ exchange.err = "interrupted" => ctx # "live"
      /\ exchange.err \notin {"goAway", "streamReset"}
  BY DEF RawInv, CommitShape, DeadlineShape, Returned, OnH1
<1>3. CASE exchange.err = "none"
  BY <1>1, <1>3, GoodResponseIs DEF mapH1Exchange
<1>4. CASE exchange.err \in BodyErrors /\ exchange.err # "none"
  BY <1>1, <1>4, BadResponseIs DEF mapH1Exchange
<1>5. CASE exchange.err \notin BodyErrors \cup {"none"}
  <2> DEFINE sent == exchange.committed \/ exchange.earlier
  <2>1. exchange.err \in Causes \cup {"cancelled", "deadline"} \/ (exchange.err = "interrupted" /\ ctx # "live")
    BY <1>1, <1>2, <1>5 DEF ExchangeErrors, SessionErrors, BodyErrors, HeadErrors
  <2>2. sent \in BOOLEAN
    BY <1>1
  <2>3. o = CauseOutcome(exchange.err, exchange.status, sent)
    BY <1>5, Zenon DEF mapH1Exchange
  <2> HIDE DEF sent
  <2>4. Tells(o, sent) \/ Speaks(o, exchange.status)
    BY <1>1, <2>1, <2>2, <2>3, CauseOutcomeIs
  <2> QED BY <1>2, <2>4 DEF Tells, sent
<1> QED BY <1>3, <1>4, <1>5

\* sendH1 after an exchange that is not replayed.
LEMMA FinishSteps ==
  ASSUME RawInv, RefuseCertificate \/ FinishExchange \/ FinishReplay
  PROVE  RawInv'
<1> USE DEF SettleFrame, deadlineVars, lateVars, history
<1>1. /\ exchange \in Exchanges /\ final \in BOOLEAN
      /\ exchange.status \in Statuses => final
      /\ exchange.err = "interrupted" => ctx # "live"
      /\ on = "pooled" => ~exchange.earlier
  BY DEF RawInv, TypeOK, Exchanges, ExchangeErrors, CommitShape, DeadlineShape
<1>2. pc = "exchanged" /\ UNCHANGED <<exchange, final>>
  BY Zenon DEF RefuseCertificate, FinishExchange, FinishReplay
<1>3. lease' \in {"kept", "retired"} /\ fresh' \in {"none", "closed"}
  BY <1>2, Zenon
     DEF RefuseCertificate, FinishExchange, FinishReplay, RawInv, LeaseShape, TypeOK, Connections,
     OnH1, OnH2
<1>4. UNCHANGED <<ctx, reused, certificate, on, callback, deadline, tracker, interim, octets, heard, stray>>
  BY Zenon DEF RefuseCertificate, FinishExchange, FinishReplay
<1>7. LateShape' /\ late' \in {"none", "queued", "marked"}
  <2>1. UNCHANGED lateVars
    BY Zenon DEF RefuseCertificate, FinishExchange, FinishReplay
  <2> QED BY <1>2, <2>1, Punctual DEF Returned
<1>5. CASE RefuseCertificate
  <2>1. Finish(Failure("TLS", FALSE)) /\ certificate
    BY <1>5, Zenon DEF RefuseCertificate
  <2>2. /\ Failure("TLS", FALSE) \in Failures /\ ~Failure("TLS", FALSE).sent
        /\ Failure("TLS", FALSE).code = "TLS"
    BY FailureIs, Zenon DEF FailureCodes, PreCommitCodes
  <2> QED BY <1>1, <1>2, <1>3, <1>4, <1>7, <2>1, <2>2, Finishes, Zenon
<1>6. CASE FinishExchange \/ FinishReplay
  <2>1. PICK o \in mapH1Exchange : Finish(o)
    BY <1>6, Zenon DEF FinishExchange, FinishReplay
  <2>2. Tells(o, tracker) \/ Speaks(o, exchange'.status)
    BY <1>2, MappedIs
  <2> QED BY <1>1, <1>2, <1>3, <1>4, <1>7, <2>1, <2>2, Finishes
<1> QED BY <1>5, <1>6, SMTT(30)

\* A connection that turned out stale, and the fresh one.
LEMMA ReplaySteps ==
  ASSUME RawInv, StartReplay \/ Redial
  PROVE  RawInv'
<1> USE DEF SettleFrame, deadlineVars, lateVars, history
<1>1. /\ exchange \in Exchanges /\ exchange' \in Exchanges
      /\ exchange'.committed \/ exchange'.earlier <=> exchange.committed \/ exchange.earlier
      /\ exchange'.err # "goAway" /\ exchange'.err # "streamReset"
      /\ exchange'.err = "interrupted" => ctx # "live"
      /\ exchange'.status \in Statuses => final
      /\ on' = "pooled" => ~exchange'.earlier
  <2>1. exchange \in Exchanges
    BY DEF RawInv, TypeOK, Exchanges, ExchangeErrors
  <2>2. CASE StartReplay
    BY <2>1, <2>2 DEF StartReplay, IsStale, RawInv, CommitShape
  <2>3. CASE Redial
    <3>1. ~exchange.earlier
      BY <2>3 DEF Redial, RawInv, CommitShape, LeaseShape
    <3>2. exchange' = [NoExchange EXCEPT !.earlier = exchange.committed] /\ on' = "fresh"
      BY <2>3, Zenon DEF Redial
    <3>3. NoExchange \in Exchanges /\ exchange.committed \in BOOLEAN
      BY <2>1 DEF Exchanges, ExchangeErrors, Heads, NoExchange
    <3>4. /\ exchange' \in Exchanges /\ exchange'.earlier = exchange.committed
          /\ exchange'.committed = NoExchange.committed /\ exchange'.err = NoExchange.err
          /\ exchange'.status = NoExchange.status
      BY <3>2, <3>3 DEF Exchanges
    <3>5. NoExchange.committed = FALSE /\ NoExchange.err = "none" /\ NoExchange.status = "none"
      BY DEF NoExchange
    <3> QED BY <2>1, <3>1, <3>2, <3>4, <3>5 DEF Statuses
  <2> QED BY <2>2, <2>3
<1>2. \/ /\ pc = "exchanged" /\ on = "pooled" /\ reused /\ "pooled" \notin heard
         /\ pc' = "redial" /\ lease' = "retired" /\ UNCHANGED <<on, fresh>>
      \/ pc = "redial" /\ pc' = "begin" /\ on' = "fresh" /\ fresh' = "open" /\ UNCHANGED lease
  BY DEF StartReplay, Redial, IsStale
<1>3. UNCHANGED <<reused, certificate, outcome, ctx, callback, deadline, tracker, interim, octets, heard,
                  final, late, stray>>
  BY SMTT(30) DEF StartReplay, Redial
<1>4. TypeOK'
  BY <1>1, <1>2, <1>3, SMTT(30) DEF RawInv, TypeOK, PCs, Connections, Exchanges, ExchangeErrors
<1>5. LeaseShape'
  BY <1>2, <1>3, SMTT(30)
     DEF RawInv, TypeOK, Connections, LeaseShape, Before, OnH1, OnH2, Exchanging
<1>6. DeadlineShape'
  BY <1>1, <1>2, <1>3, SMTT(30) DEF RawInv, DeadlineShape, Returned, Exchanging
<1>7. CommitShape'
  BY <1>1, <1>2, <1>3 DEF RawInv, CommitShape, OnH1, Exchanging, Before
<1>8. ResultShape' /\ OutcomeIsTrue'
  BY <1>2, SMTT(30) DEF ResultShape, OutcomeIsTrue, Returned
<1>9. LateShape'
  BY <1>2, <1>3, Punctual DEF Returned
<1> QED BY <1>4, <1>5, <1>6, <1>7, <1>8, <1>9 DEF RawInv

\* A replay that cannot begin says what the first exchange has sent.
LEMMA RedialSteps ==
  ASSUME RawInv, RedialMismatch \/ \E e \in DialErrorsNow : RedialFails(e)
  PROVE  RawInv'
<1> USE DEF SettleFrame, leaseVars, deadlineVars, lateVars, history
<1>1. /\ exchange \in Exchanges /\ exchange.committed \in BOOLEAN /\ final \in BOOLEAN
      /\ exchange.status \in Statuses => final
      /\ exchange.err = "interrupted" => ctx # "live"
      /\ on = "pooled" => ~exchange.earlier
      /\ ctx \in {"live", "cancelled", "expired"} /\ tracker \in BOOLEAN
  BY DEF RawInv, TypeOK, Exchanges, ExchangeErrors, CommitShape, DeadlineShape
<1>2. pc = "redial" /\ UNCHANGED <<exchange, final>>
  BY Zenon DEF RedialMismatch, RedialFails
<1>3. tracker <=> exchange.committed
  BY <1>1, <1>2 DEF RawInv, CommitShape, LeaseShape
<1>4. lease' \in {"kept", "retired"} /\ fresh' \in {"none", "closed"}
  BY <1>2, Zenon DEF RedialMismatch, RedialFails, RawInv, LeaseShape
<1>5. UNCHANGED <<ctx, reused, certificate, on, callback, deadline, tracker, interim, octets, heard, stray>>
  BY Zenon DEF RedialMismatch, RedialFails
<1>8. LateShape' /\ late' \in {"none", "queued", "marked"}
  <2>1. UNCHANGED lateVars
    BY Zenon DEF RedialMismatch, RedialFails
  <2> QED BY <1>2, <2>1, Punctual DEF Returned
<1>6. PICK o : Finish(o) /\ Tells(o, exchange.committed)
  <2>1. CASE RedialMismatch
    <3>1. Finish(Failure("IO", exchange.committed))
      BY <2>1, Zenon DEF RedialMismatch
    <3> QED BY <1>1, <3>1, FailureIs DEF Tells, FailureCodes
  <2>2. ASSUME NEW e \in DialErrorsNow, RedialFails(e) PROVE \E o : Finish(o) /\ Tells(o, exchange.committed)
    <3>1. Finish([dialFailure(e) EXCEPT !.sent = exchange.committed])
      BY <2>2, Zenon DEF RedialFails
    <3>2. dialFailure(e) \in Failures
      BY <1>1, DialFailureIs, Zenon
    <3>3. Tells([dialFailure(e) EXCEPT !.sent = exchange.committed], exchange.committed)
      BY <1>1, <3>2 DEF Tells, Failures
    <3> QED BY <3>1, <3>3
  <2> QED BY <2>1, <2>2
<1>7. Tells(o, tracker)
  BY <1>3, <1>6 DEF Tells
<1> QED BY <1>1, <1>2, <1>4, <1>5, <1>6, <1>7, <1>8, Finishes, SMTT(30)

\* mapH2Exchange has an outcome for everything that Session.Do returns.
LEMMA DoMappedIs ==
  ASSUME NEW err, NEW head \in Heads, NEW o \in mapH2Exchange(err, head), tracker \in BOOLEAN,
         ctx \in {"live", "cancelled", "expired"},
         \/ err \in {"none", "tooLarge", "tooLargeGzip", "protocol", "goAway", "streamReset"} \cup SessionErrors
         \/ err = "interrupted" /\ ctx # "live"
  PROVE  \/ Tells(o, tracker) \/ Speaks(o, head)
         \/ o \in Failures /\ ~o.sent /\ o.code = "IO" /\ err = "goAway"
<1>1. "IO" \in FailureCodes
  BY DEF FailureCodes
<1>2. CASE err = "none"
  BY <1>2, GoodResponseIs DEF mapH2Exchange
<1>3. CASE err \in {"tooLarge", "tooLargeGzip", "protocol"}
  <2>1. o = BadResponse(err, head) /\ err \in BodyErrors
    BY <1>3, Zenon DEF mapH2Exchange, BodyErrors, HeadErrors
  <2> QED BY <2>1, BadResponseIs
<1>4. CASE err = "goAway"
  <2>1. o = Failure("IO", FALSE)
    BY <1>4 DEF mapH2Exchange
  <2> QED BY <1>1, <1>4, <2>1, FailureIs, Zenon
<1>5. CASE err = "streamReset"
  <2>1. o = Failure("IO", tracker)
    BY <1>5 DEF mapH2Exchange
  <2> QED BY <1>1, <2>1, FailureIs DEF Tells
<1>6. CASE err \in Causes \cup {"cancelled", "deadline"} \/ (err = "interrupted" /\ ctx # "live")
  <2>1. err \notin {"none", "tooLarge", "tooLargeGzip", "protocol", "goAway", "streamReset"}
    BY <1>6 DEF Causes
  <2>2. o = CauseOutcome(err, head, tracker)
    BY <2>1, Zenon DEF mapH2Exchange
  <2> QED BY <1>6, <2>2, CauseOutcomeIs
<1> QED BY <1>2, <1>3, <1>4, <1>5, <1>6 DEF SessionErrors

\* A Do of the session ends, with a response or an error.
LEMMA DoEndsSteps ==
  ASSUME RawInv, pc \in OnH2, NEW err, NEW head \in Statuses \cup {"none"}, DoEnds(err, head),
         \/ err \in {"none", "tooLarge", "tooLargeGzip", "protocol", "goAway", "streamReset"} \cup SessionErrors
         \/ err = "interrupted" /\ ctx # "live",
         UNCHANGED late \/ (LeavesBehind /\ err \in SessionErrors \cup {"interrupted"})
  PROVE  RawInv'
<1> USE DEF deadlineVars
<1>1. /\ exchange \in Exchanges /\ on = "pooled" /\ fresh = "none" /\ ~exchange.earlier
      /\ ctx \in {"live", "cancelled", "expired"} /\ tracker \in BOOLEAN
  BY DEF RawInv, TypeOK, Exchanges, ExchangeErrors, LeaseShape, CommitShape
<1>2. err \in ExchangeErrors /\ head \in Heads
  BY DEF ExchangeErrors, SessionErrors, BodyErrors, HeadErrors, Heads
<1>3. /\ exchange' \in Exchanges /\ exchange'.err = err /\ exchange'.status = head
      /\ exchange'.earlier = exchange.earlier
  BY <1>1, <1>2, ZenonT(30) DEF DoEnds, Exchanges
<1>4. final' \in BOOLEAN /\ (head \in Statuses => final')
  <2>1. final' = (head # "none")
    BY Zenon DEF DoEnds
  <2>2. CASE head = "none"
    BY <2>1, <2>2, SMT DEF Statuses
  <2>3. CASE head # "none"
    BY <2>1, <2>3, Zenon
  <2> QED BY <2>2, <2>3
<1>5. /\ lease' \in {"kept", "retired"} /\ fresh' \in {"none", "closed"}
      /\ UNCHANGED <<ctx, reused, certificate, on, callback, deadline, tracker, interim, octets, heard, stray>>
  BY <1>1 DEF DoEnds
<1>6. err = "interrupted" => ctx # "live"
  BY DEF SessionErrors, Causes
<1>7. PICK o \in mapH2Exchange(err, head) : Finish(o)
  BY Zenon DEF DoEnds
<1>8. \/ Tells(o, tracker) \/ Speaks(o, head)
      \/ o \in Failures /\ ~o.sent /\ o.code = "IO" /\ err = "goAway"
  BY <1>1, <1>2, DoMappedIs
<1>9. late = "none" /\ stray = FALSE /\ (pc = "do" => ~tracker) /\ (pc = "doMark" => tracker)
  BY DEF RawInv, TypeOK, LateShape, CommitShape, Returned, OnH2
<1>10. /\ late' \in {"none", "queued", "marked"} /\ (late' = "queued" => ~tracker)
       /\ late' = "marked" => tracker
       /\ late' # "none" => err \in SessionErrors \cup {"interrupted"}
  BY <1>9 DEF LeavesBehind
<1>11. late' = "marked" => o.kind # "failure" \/ o.sent
  <2>1. err \in SessionErrors \cup {"interrupted"} => err # "goAway"
    BY DEF SessionErrors, Causes
  <2> QED BY <1>8, <1>10, <2>1, KindsDiffer DEF Tells, Speaks
<1>12. LateShape'
  BY <1>3, <1>5, <1>7, <1>9, <1>10, <1>11 DEF LateShape, Returned, Finish
<1> QED BY <1>1, <1>3, <1>4, <1>5, <1>6, <1>7, <1>8, <1>10, <1>12, Finishes

\* What Session does for this request.
LEMMA DoSteps ==
  ASSUME RawInv,
         \/ DoMarks \/ DoWrites \/ DoAnswers \/ DoLosesSession \/ DoInterrupted \/ DoResets \/ DoReset
  PROVE  RawInv'
<1>1. CASE DoMarks \/ DoWrites
  <2> USE DEF leaseVars, deadlineVars, lateVars, history
  <2>1. /\ pc \in {"do", "doMark"} /\ pc' \in {"doMark", "doing"}
        /\ UNCHANGED <<ctx, lease, reused, certificate, fresh, on, callback, deadline, exchange,
                       interim, outcome, late, stray, heard, final>>
    BY <1>1, SMTT(30) DEF DoMarks, DoWrites
  <2>2. tracker' = TRUE /\ octets' \subseteq octets \cup {"pooled"}
    BY <1>1, SMTT(30) DEF DoMarks, DoWrites, RawInv, TypeOK, CommitShape, LeaseShape, OnH2
  <2>3. TypeOK'
    BY <2>1, <2>2, SMTT(30) DEF RawInv, TypeOK, PCs, Connections
  <2>4. LeaseShape'
    BY <2>1, <2>2, SMTT(30) DEF RawInv, LeaseShape, Before, OnH1, OnH2, Exchanging
  <2>5. DeadlineShape' /\ CommitShape'
    BY <2>1, <2>2, SMTT(30)
       DEF RawInv, DeadlineShape, CommitShape, Returned, Before, OnH1, Exchanging
  <2>6. ResultShape' /\ OutcomeIsTrue'
    BY <2>1 DEF ResultShape, OutcomeIsTrue, Returned
  <2>7. LateShape'
    BY <2>1, Punctual DEF Returned
  <2> QED BY <2>3, <2>4, <2>5, <2>6, <2>7, SMTT(30) DEF RawInv
<1>2. CASE DoAnswers
  BY <1>2, DoEndsSteps DEF DoAnswers, OnH2
<1>3. CASE DoLosesSession
  BY <1>3, DoEndsSteps DEF DoLosesSession, OnH2
<1>4. CASE DoInterrupted
  BY <1>4, DoEndsSteps DEF DoInterrupted, OnH2
<1>5. CASE DoReset
  <2>1. PICK err \in {"interrupted", "protocol"} : DoEnds(err, "none")
    BY <1>5, Zenon DEF DoReset
  <2>2. pc \in OnH2 /\ UNCHANGED late /\ ctx # "live"
    BY <1>5 DEF DoReset, OnH2, RawInv, DeadlineShape
  <2> QED BY <2>1, <2>2, DoEndsSteps
<1>6. CASE DoResets
  <2> USE DEF leaseVars, deadlineVars, lateVars, history
  <2>1. /\ pc \in {"do", "doing"} /\ pc' = "doReset" /\ ctx # "live"
        /\ UNCHANGED <<ctx, lease, reused, certificate, fresh, on, callback, deadline, tracker,
                       exchange, interim, outcome, late, stray, octets, heard, final>>
    BY <1>6, Zenon DEF DoResets
  <2>2. TypeOK'
    BY <2>1 DEF RawInv, TypeOK, PCs
  <2>3. LeaseShape'
    BY <2>1 DEF RawInv, LeaseShape, Before, OnH1, OnH2, Exchanging
  <2>4. DeadlineShape' /\ CommitShape'
    BY <2>1 DEF RawInv, DeadlineShape, CommitShape, Returned, Before, OnH1, Exchanging
  <2>5. ResultShape' /\ OutcomeIsTrue'
    BY <2>1 DEF ResultShape, OutcomeIsTrue, Returned
  <2>6. LateShape'
    BY <2>1, Punctual DEF Returned
  <2> QED BY <2>2, <2>3, <2>4, <2>5, <2>6 DEF RawInv
<1> QED BY <1>1, <1>2, <1>3, <1>4, <1>5, <1>6

\* What the write loop does with the DATA that Do left behind.
LEMMA LateSteps ==
  ASSUME RawInv, LateMark \/ LateWrite \/ LateDropped
  PROVE  RawInv'
<1> USE DEF LateFrame, leaseVars, deadlineVars
<1>1. /\ late # "none" /\ Returned /\ exchange.err \in SessionErrors \cup {"interrupted"}
      /\ late = "queued" => ~tracker
      /\ late = "marked" => tracker /\ (stray \/ outcome.kind # "failure" \/ outcome.sent)
  BY DEF RawInv, LateShape, LateMark, LateWrite, LateDropped
<1>2. /\ UNCHANGED <<pc, ctx, lease, reused, certificate, fresh, on, callback, deadline, exchange,
                     interim, outcome, heard, final>>
      /\ late' \in {"none", "marked"}
  BY DEF LateMark, LateWrite, LateDropped
<1>3. \/ late = "queued" /\ late' = "marked" /\ tracker' = TRUE /\ stray' = TRUE /\ octets' = octets
      \/ late = "marked" /\ late' = "none" /\ octets' = {on} /\ UNCHANGED <<tracker, stray>>
      \/ late' = "none" /\ UNCHANGED <<tracker, stray, octets>>
  BY DEF LateMark, LateWrite, LateDropped
<1>4. TypeOK'
  <2>1. octets' \subseteq Connections /\ tracker' \in BOOLEAN /\ stray' \in BOOLEAN
    BY <1>3 DEF RawInv, TypeOK
  <2> QED BY <1>2, <2>1 DEF RawInv, TypeOK
<1>5. LeaseShape'
  BY <1>1, <1>2, <1>3 DEF RawInv, LeaseShape, Returned, Before, OnH1, OnH2, Exchanging
<1>6. DeadlineShape'
  BY <1>2 DEF RawInv, DeadlineShape, Returned
<1>7. CommitShape'
  BY <1>1, <1>2, <1>3 DEF RawInv, CommitShape, Returned, Before, OnH1, Exchanging
<1>8. ResultShape'
  BY <1>1, <1>2, <1>3 DEF RawInv, ResultShape, Returned
<1>9. LateShape'
  BY <1>1, <1>2, <1>3 DEF RawInv, LateShape, Returned
<1>10. OutcomeIsTrue'
  BY <1>1, <1>2, <1>3 DEF RawInv, OutcomeIsTrue, Returned
<1> QED BY <1>4, <1>5, <1>6, <1>7, <1>8, <1>9, <1>10 DEF RawInv

\* Every step of an attempt keeps the invariant.
LEMMA RawStep == RawInv /\ [Next]_vars => RawInv'
<1> SUFFICES ASSUME RawInv, [Next]_vars PROVE RawInv'
  OBVIOUS
<1>1. CASE UNCHANGED vars
  <2>1. UNCHANGED <<pc, ctx, lease, reused, certificate, fresh, on, callback, deadline, tracker,
                    exchange, interim, outcome, late, stray, octets, heard, final>>
    BY <1>1, Zenon DEF vars, leaseVars, deadlineVars, lateVars, history
  <2>2. TypeOK' /\ LeaseShape' /\ DeadlineShape' /\ CommitShape'
    <3>1. TypeOK' /\ LeaseShape'
      BY <2>1 DEF RawInv, TypeOK, LeaseShape, Returned
    <3>2. DeadlineShape'
      BY <2>1 DEF RawInv, DeadlineShape, Returned
    <3>3. CommitShape'
      BY <2>1 DEF RawInv, CommitShape, Returned
    <3> QED BY <3>1, <3>2, <3>3, Zenon
  <2>3. ResultShape' /\ OutcomeIsTrue'
    BY <2>1 DEF RawInv, ResultShape, OutcomeIsTrue, Returned
  <2>4. LateShape'
    BY <2>1 DEF RawInv, LateShape, Returned
  <2> QED BY <2>2, <2>3, <2>4 DEF RawInv
<1>2. CASE ContextEnds \/ CallbackRuns
  BY <1>2, ContextSteps
<1>3. CASE PeerStep
  BY <1>3, WriteSteps, ReadSteps, DoSteps, LateSteps DEF PeerStep
<1>4. CASE OwnStep
  BY <1>4, SendUp, DeadlineSteps, WriteSteps, FinishSteps, ReplaySteps, ContextSteps, ReadSteps,
     DoSteps, SMTT(30)
     DEF OwnStep
<1>5. CASE ConnectStep
  BY <1>5, SendUp, ReplaySteps, RedialSteps DEF ConnectStep
<1> QED BY <1>1, <1>2, <1>3, <1>4, <1>5 DEF Next, Done

\* The inductive invariant holds in every state.
LEMMA RawKept == Spec => []RawInv
BY RawInitially, RawStep, PTL DEF Spec

\* What the four properties say follows from the invariant.
LEMMA RawInvImplies == RawInv => ReplayIsSafe /\ MeetsContract /\ OutcomeIsTrue /\ KeptIsClean
<1> SUFFICES ASSUME RawInv PROVE ReplayIsSafe /\ MeetsContract /\ OutcomeIsTrue /\ KeptIsClean
  OBVIOUS
<1>1. ReplayIsSafe
  BY DEF RawInv, LeaseShape, ReplayIsSafe
<1>2. MeetsContract /\ OutcomeIsTrue
  BY DEF RawInv, ResultShape, MeetsContract
<1>3. KeptIsClean
  BY DEF RawInv, TypeOK, DeadlineShape, KeptIsClean, Returned, Exchanging
<1> QED BY <1>1, <1>2, <1>3

\* sendH1 sends a request a second time only on a fresh connection, after one from the
\* pool answered nothing, whatever else happens to the attempt.
THEOREM ReplaySafe == Spec => []ReplayIsSafe
BY RawKept, RawInvImplies, PTL

\* Send leaves no lease held and no replay connection open, and its outcome is one that
\* the operation's model gives a transport.
THEOREM ContractMet == Spec => []MeetsContract
BY RawKept, RawInvImplies, PTL

\* A failure owns up to the octets that were written before Send returned, or after the
\* end of the session let it return, if the tracker was marked by then; a refusal was read.
THEOREM OutcomeTrue == Spec => []OutcomeIsTrue
BY RawKept, RawInvImplies, PTL

\* A connection goes back to the pool without a deadline, and none is set later.
THEOREM KeptClean == Spec => []KeptIsClean
BY RawKept, RawInvImplies, PTL
=============================================================================
