# Verification of repost-go

TLA+ models of the repost-go client runtime (`src/`), the TLC runs that check
them on small instances, and TLAPS proofs of the properties that hold for every
instance. `PROJECT.json` lists the components, the runs with their properties,
the seeded fault that breaks each property, the source lines of every
definition, the hazards of the code and the theorems.

## The system

A `Runtime` sends webhooks. `Send` is called from any number of goroutines:

1. `state.go` admits the operation (slots and bytes are bounded) and hands out a
   *permit*; the permit is released when `Send` has returned and no call it
   started is still running.
2. `operation.go` runs the caller's hooks (clock, API key, idempotency key,
   serialization) in goroutines bounded by the operation deadline, then the
   attempt loop: one transport call per attempt, classification of its outcome,
   backoff. It keeps a *commitment floor*: once a request may have been sent, no
   later error may claim that it was not.
3. `transport_raw.go` makes one attempt. It takes a connection from
   `internal/pool`, dialling one if needed (`internal/tlsx`,
   `internal/proxyconnect`), speaks HTTP/1.1 (`internal/h1`) or HTTP/2
   (`internal/h2`), and replays the request once on a fresh connection when a
   pooled one turns out to be dead.
4. `telemetry.go` reports events to `observer.go`, whose dispatcher goroutine runs
   the observer callback behind a bounded queue.
5. `Close` rejects new sends, cancels and drains the admitted ones, closes the
   dispatcher and the idle connections. The callback itself may call it.

Beside this stand parts that work by themselves: strict JSON
(`internal/strictjson`), serialization (`serialize.go`, `ordered.go`), building and
judging responses (`response_factory.go`, `operation_response.go`), the test kit
`reposttest`, configuration, error tables and the OpenTelemetry bridge.

## Modules

| Module | Models | State and actions |
| --- | --- | --- |
| `Saturating` | `saturatingAdd` of the diagnostic counters | an operator with its cap as a constant |
| `Admission` | `runtimeState`, `operationPermit`, the admission and release skeleton of `Send`, `Close` without an observer, `boundedPermitCall` and `boundedAttemptCall` | the diagnostics, the WaitGroup, and per send where `Send`, its current call and its release are; one action per locked section, `finishRelease` in two |
| `Gate` | what admission promises: in at most once, out once, never more than the limit, closed only when empty | three variables; `Admission` implements it |
| `Observer` | `observerDispatcher` | queue, `pending`, `active`, `closing`, the goroutine of `run`, and every caller of `emit`, `close` and `flush`; `cond.Wait` keeps its sleepers, which only a Broadcast wakes |
| `Runtime` | `Send`, `Close` and `FlushObservers` with an observer | instances of `Admission` and `Observer` that share the closers; a Close drains first and seals the dispatcher next |
| `Transport` | the outcomes a transport may return (`transport.go`) | sets of failures and responses, before and after a write |
| `Operation` | `sendAdmitted`, the steps of `backoff`, the verdict on an outcome, the events of `telemetry.go` | the place in the loop, the floor, the attempt's tracker, the abandoned transport goroutine, three contexts and a clock that change at any time |
| `Backoff` | the delay that `backoff` computes | the loop that doubles the cap, the entropy, Retry-After; integers wrap at `IntBound` |
| `Pool` | `internal/pool` for one origin | the set of entries with the order they were appended in, leases, dials in progress, sleepers on `notify`; one action per locked section |
| `Session` | `internal/h2` `Session`: `Do`, the write loop, the read loop, flow control, GOAWAY, cancellation, shutdown | the session under its mutex, a stream and a call record per `Do`, the writer, the reader, and what reached the wire |
| `RawTransport` | `rawTransport.Send`, `sendH1`, `exchangeH1`, the order of reads and writes of `internal/h1`, the mapping to outcomes | one attempt, its lease, tracker and exchange, the deadline its context's callback sets, which connection took or answered what, and the DATA that `Do` leaves with the write loop when its session ends |
| `Dial` | `rawTransport.dial`, `dialProxy`, `proxyconnect.Connect`, `tlsx.dialResolved`, the handshake of `NewSession` | the race of the addresses, up to two CONNECTs, the context's callbacks, TLS and the HTTP/2 preface |
| `Attempt` | `RawTransport` and `Dial` as one program | the state of both and whether the attempt has dialled |
| `StrictJSON` | `internal/strictjson` | the recursive descent with its stack made explicit, one action per lexeme; the grammar as a set of phrases to compare with |
| `Payload` | `serialize.go`, `ordered.go` | three walks with explicit stacks: collecting issues up to the error the caller gets, looking for cycles in a value with its bad keys and addresses, encoding up to the limit |
| `Response` | `response_factory.go`, `operation_response.go` | one response from where it is built to its verdict: by `NewAttemptResponse`, by hand, or by the built-in transport from a complete head, from a head that broke off, or in place of what it threw away |
| `ManualTime` | `reposttest/manual.go` | both mutexes, concurrent `Sleep`, `Advance` and `AwaitSleepCount` |
| `TestKit` | `reposttest/transport.go`, `reposttest/observer.go` | scripts and controlled responses with several settlers; events from `emit` through the queue to the recording, `FlushObservers` and waiting tests |
| `MCAdmission`, `MCSession` | | symmetry sets for TLC |
| `MCLibrary` | | a behaviour of one of the last six parts or of `Backoff`, chosen at the start |
| `FiniteSetLaws` | | facts about finite sets as formulas, for the lemmas that count |
| `AdmissionProofs`, `ObserverProofs`, `OperationProofs`, `PoolProofs`, `SessionProofs`, `RawTransportProofs`, `AttemptProofs`, `LibraryProofs` | | the proofs |

The modules meet at these interfaces:

- `Runtime` composes `Admission` and `Observer`.
- `Operation` assumes of a transport only that its outcomes are those of
  `Transport`; `RawTransport` is checked and proved to return such outcomes
  (`MeetsContract`), and `Response` to give only verdicts that `Operation` knows
  (`ResponseIsSound`).
- `Attempt` composes `RawTransport` and `Dial`, and is checked and proved to implement
  `RawTransport`, where a dial is one step (`ImplementsRaw`).
- `RawTransport` takes the lease of `Pool` as one step and a `Do` of `Session` as two.
- `Operation` leaves the length of a delay to `Backoff`.

Data is abstracted to what the properties tell apart: statuses are classes, bodies
are units of octets, errors are kinds, delays and clock readings are left out and
any timer may fire at any time (`Backoff` and `ManualTime`, which are about time,
have numbers instead). Operators commented *Seeded fault* are variants of
the definition that follows them and are used by no specification.

## Runs

States are distinct states; all runs take less than three minutes.

| Run | Instance | What it shows |
| --- | --- | --- |
| `admission` | 3 sends, 2 closes, 2 slots, room for one reservation and a half; 764,262 | `Inv` (types, exact counters, limits), a call that outlives its `Send` keeps the permit, `Closed` only when drained, no `WaitGroup.Add` during `Wait`, refinement of `Gate` |
| `observer` | 3 events, a queue of 2, 2 outside closes, one by the callback, a flush; 86,077 | `Inv` (exact `pending`, one close of `stop`, no lost wake-up, the place of every event), order, every drop counted, silence after Close, every event settles |
| `runtime` | 1 send with a call it may abandon, an outside close, the callback's close, a flush; 56,790 | an outside Close returns to a quiet runtime, the dispatcher is sealed after the last event, everybody returns |
| `operation` | 2 attempts; 297,469 | `Inv`, the inductive invariant of the proofs; the commitment floor holds and NOT_SENT is true except through finding 1, POSSIBLY_SENT has a cause, a success is not lost, attempts do not overlap, no typed nil error, events in order, return after the deadline |
| `operation_stale_replay` | 2 attempts | finding 1 |
| `pool` | 3 calls, 3 connections, a cap of 2; 35,119 | the cap, leases stay good, nothing leaks or is closed twice, Acquire returns |
| `pool_stall` | 3 calls, a cap of 1 | finding 2 |
| `session` | 1 stream and a call without an identifier, 3 frames; 1,478,890 | exact stream table, GOAWAY reported only to unprocessed calls, silence after cancellation |
| `session_flow` | 2 streams, windows of 1, bodies of 2; 161,210 | credit, commitment before DATA, `Do` returns after its context, also when the server stops reading, unless its own RST_STREAM waits for such a server |
| `session_collateral` | 2 streams | finding 3 |
| `attempt` | 2 informational responses, 3 addresses, all routes; 308,065 | body octets are marked, replay only without an answer, outcomes meet `Transport`, a connection goes back to the pool without a deadline, each dialled connection is handed over or closed, credentials only after a 407, `Send` returns unless the caller's code or the write of an RST_STREAM holds it, refinement of `RawTransport` |
| `library` | see below; 488,075 | the delay equals its closed form, the parser accepts exactly the grammar within the limits, issues, cycles and the size limit are exact, responses are judged soundly, sleepers, settlements and recorded events are exact, and `Sleep`, `AwaitSleepCount` and attempts on a script return |

### Bounds

- *Admission*: three sends, two slots and room for two reservations only after one
  shrank make both overloads and a drain with a straggler meet. The proofs cover all other sizes.
- *Observer*: three events and a queue of two give a full queue, an event in hand
  and one refused at the same time. `MaxCounter` is small so that the counters
  reach their cap. The proofs cover all other sizes.
- *Runtime*: one send has all the orders of its two events, its late call and both
  closes; a second one adds admission, which `Admission` covers.
- *Operation*: two attempts have a first, a retried and a last one; the floor is
  carried from one to the next. Three attempts (1,841,989 states) hold the same
  invariants but leave no time for liveness.
- *Pool*: with a cap of two and three calls one sleeps while two leases, or a lease
  and a dial, end in any order. Expiry is nondeterministic.
- *Session*: `Topics`, `MaxFrames` and `Breaks` bound what the server does. Three
  frames are an informational response, headers and data, or two GOAWAYs around an
  answer; two calls with a window of one sleep in every place there is.
- *Attempt* has no bound but `maxInformationalResponses` and the number of addresses:
  a race with a winner, a loser that connected and a loser that did not. An attempt
  dials at most once. The proofs cover any number of both.
- *Backoff*: integers wrap at 16, and the delays and the remaining time reach up to
  15 with up to six attempts, so that every sum or product that could wrap does.
- *StrictJSON*: documents of up to seven tokens with a depth and a number of members
  of two pass each limit by one, alone and together; a third name is needed for one
  member too many without a duplicate.
- *Payload*: three issues kept of five, paths shorter and longer than the limit on
  one, a total that three long ones exceed, models three deep; all values of three
  nodes with up to two children, which share parts and addresses, have bad keys and cycles
  of every length;
  pieces that meet, miss and pass the limit.
- *Response*: bodies around both size limits and an expansion ratio of one, built in
  all five ways.
- *ManualTime*, *TestKit*: two sleepers against two advances, one waiting test; three
  attempts, two controlled responses with two settlers, two operations. The proofs
  cover all other sizes of `ManualTime`, and of `Backoff` and `Response`.

Deadlock is checked in every run but `library`: each module ends in an explicit step
that stutters when all work is done, and any other standstill is an error. The parts
in `library` stop when their input is used up.

### Fairness

Weak fairness of the steps of goroutines that have started; callers need not start
anything. Beyond that:

- `Observer` and `Runtime` assume that the observer callback, the hooks and the
  transport return. The code waits for them without a bound in `Close`, so
  `CloseReturns` cannot hold without this.
- `Operation` assumes nothing of hooks, scheduler or transport: `DeadlineReturns`
  says that `Send` bounds them all.
- `Pool` assumes that a dial and a lease end, which the connect and attempt timeouts
  see to.
- `Session`: contexts end, since each attempt has a timeout. The server may stay silent
  and may stop reading: a write is only sure to end once its context has ended, which
  sets the write deadline. RST_STREAM and control frames are written under
  `context.Background()` and may block for ever.
- `Attempt`: own steps, the callbacks of an ended context, and that what is bound to a
  context fails when it has ended. Server, proxy and the built-in resolver may stay
  silent. Of the caller's `DNSResolver` and `CredentialsProvider`, which are called
  without a bound (tlsx.go:341, proxyconnect.go:176), and of the write of an RST_STREAM
  nothing is assumed: `SendReturns` names them as what can hold `Send`.
- `library`: the steps of `Sleep`, `Advance`, `AwaitSleepCount` and of a waiting
  attempt. No test is obliged to advance the clock or to settle a response.

## Proofs

TLAPS proves, for any finite sets of callers and any limits that satisfy the named
assumptions (`LimitsAssumption` and the others of `Admission`, `Saturating` and
`Observer`: what `snapshotConfig` accepts, a positive queue capacity, disjoint kinds
of callers; `OperationAssumption`: at least one attempt; `PoolAssumption`: finite sets
and a positive cap; `SessionAssumption`: finitely many calls and natural sizes;
`RawTransportAssumption` and `DialAssumption`: a natural bound on informational
responses, and finitely many addresses; `ManualTimeAssumption`: natural durations;
`BackoffAssumption`: durations fit the integers; `ResponseAssumption`: natural sizes, an
error body no larger than a payload):

- `AdmissionProofs`: `Invariance` (`Spec => []Inv`), and from it `TypeCorrectness`,
  `Accounting`, `Limits`, `CloseDrains`, `CallsKeepReservations`, `ReturnReleases`,
  `NoReuseWhileDraining`; and `AdmissionImplementsGate`.
- `ObserverProofs`: `Invariance`, and from it `PendingExact`, `InOrder`, `StopOnce`,
  `NothingStranded`, `CloseIsQuiet`, `NoLostWakeup`; and `DropsCounted`.
- `OperationProofs`: `Invariance`, and from it `HonestDelivery`, `NoOverlap` and
  `EventsOrdered`, for any number of attempts.
- `PoolProofs`: `CapKept`, `LeasesGood` and `NothingLeaks`.
- `SessionProofs`: `TableExact`, `GoAwayRight` and `CancelSilent`, for any number of
  calls, frames and queued writes.
- `RawTransportProofs`: `ReplaySafe`, `ContractMet`, `OutcomeTrue` and `KeptClean`, for any
  number of informational responses.
- `AttemptProofs`: `OneConnection`, and that `AttemptSpec` implements the specification of
  `RawTransport` (`AttemptImplementsRaw`), for any number of addresses.
- `LibraryProofs`: `SleepersExact` for any number of sleepers, advances and waiting tests,
  `DelayRight` for any width of the integers, `ResponseSound` for any limits and lengths.

`PowersOfTwo` in `Backoff` is an assumption of another kind: it says of the powers of two
up to `MaxAttempt` that each is twice the one before and that they grow, which is true of
the numbers but unknown to the provers. TLC evaluates it for the `MaxAttempt` of the run.
The library's theorems on finite sets slow down every step of the module that has them in
scope. `FiniteSetLaws` states those that are needed as formulas; lemmas that count assume
a law, and the module derives the laws from the library (`FiniteSetsObey`) before its
theorems, so that no theorem rests on them.

**Admission.** No property is inductive alone. That `Closed` is only seen when
drained needs that the WaitGroup counts exactly the permits that were not signalled;
that needs the counters to be exact between the two steps of `finishRelease`, and
that in turn a shape for each permit: which of `released`, `releaseRequested`,
`activeCalls` and `heldBytes` go together at each place of `Send`, of its call and of
the release. `BufferedBytes` is a sum over permits. It is stated as the cardinality
of the set of pairs of a permit and one of its units, so that adding and removing a
permit's share follows from the library's facts on finite sets and no induction is
needed. The actions that move no counter come first, then the four that do; the
refinement maps every step to a step of `Gate` or a stutter, with the holders of a
reservation as the operations inside.

**Observer.** `Inv` joins the exact `pending` with the place of the goroutine
(`RunShape`), what each place of a closer implies (`CloseShape`), and the order of
events (`OrderShape`: the queue is a suffix of the accepted sequence and the event to
be claimed comes right before it; until a Close begins these and the delivered ones
make up the whole sequence, and afterwards nothing is claimed). `NoLostWakeup` is
part of it: a sleeper implies that a delivery or a `complete` is still to come.
`DropsCounted` needs the places of the accepted events (`PlaceShape`): the queue and what
the goroutine holds have no event twice and none in common, and of what it holds only the
event of the callback was delivered. A step then loses no event, or it loses one that
`emit` refused, or all that the goroutine holds, and it adds just that number to the
counter; at the cap the counter stays.

**Operation.** What is returned about delivery depends on attempts that are over.
`HistoryShape` says what the floor stands for: as long as it is down, every marked
attempt but the one in progress was refused or disowned, and once it is up there is a
reason other than the attempt in progress. `TransportShape` bounds what an abandoned
transport call can still do: it runs only while it is waited for, or after the
operation's deadline, in which case the result is the deadline's. `OperationShape`
ties the place in the loop to the values in hand (the deadline that `abandoned` saw,
the delivery `backoff` carries). The proof has one lemma for all steps that only move
the loop on, one for all that return an error which the floor supports, one for each
step of an attempt, and a group for the judgement of an outcome, where the floor and
the histories change together. The order of the events needs no induction over the
sequence: `EventShape` says which event came last at each place of the loop and that an
attempt is open exactly while it is in progress, and a step appends what may follow it.

**Pool.** `Counts` says that `active` and `pending` are the cardinalities of the sets
of holders and dials; `Custody` that an open connection is an entry or belongs to
exactly one caller that is about to close it, that what nobody has dialled yet is
neither open nor closed, and that a closed pool keeps only what is leased; `Cap` that
entries and promised places keep to the cap. One lemma (`Recount`) covers the counters
for any step of one caller, and one (`Closing`) any step that closes connections
nobody holds, so that each action only has to name what it closes. `entries` is a set
with the rank of each entry, which is what `availableLocked` needs of the order.

**Session.** `SessionInv` has a part for each question. `Table`: the table is exact, a
call has no stream before `acquireStream`, and a closed session has none. `Refusals`:
whoever was told of a GOAWAY, the call or its stream, has a number above the bound that
is known by then; the bound only falls (`BoundIsLeast`), so a later GOAWAY keeps that
true. `Contexts`: what a call was told about its context is so. `Queue`: a queued write
belongs to a call that waits for it or gave it up, and whoever gave one up in a live
session has a context that is done, which is what `writeLoop` looks at; a write that was
started is waited for until the session is closed; and no call has two. Most steps only
let streams leave the table and wake sleepers. `Leave`, `Lawful` and `Stays` say what
such a step may do, one lemma for each part shows that it keeps that part, and an action
has only to be shown to be one. `acquireOpens`, `handleGoAway`, and the steps that queue,
start, end or give up a write have proofs of their own. The windows are only typed: `DataIsCovered`
sums over all calls and is model-checked.

**RawTransport.** `LeaseShape` says which connection the request is on and that a replay
follows a silent pooled one; `CommitShape` that octets are owned up to by the tracker or
are about to be, and what the exchange and its predecessor know of them; `DeadlineShape`
that a deadline on the connection and the callback that sets it live only inside an
exchange; `ResultShape` ties the outcome to all three. `LateShape` is about DATA that is
left with the write loop: only the end of the session or of the context leaves any, and if
the mark comes after `Do` returned (`stray`), nothing was marked before. One lemma for each group of steps
shows that they keep all parts.

**Attempt.** The invariant joins that of `RawTransport` with one of the dial. `RaceShape`
and `OpenShape` say at each place which connections are open and who will close them,
`WatchShape` which callbacks of the context are left, `ReturnShape` what `dial` hands
over, `RequestShape` who asked a proxy for credentials; `LinkShape` couples the dial to
the place of `Send` that waits for it. The refinement is then a case analysis: a step of
`Dial` is invisible to `RawTransport` until it returns, and its return is the dial that
`RawTransport` takes in one step, with an error that is due by then. That is why the
theorems on `RawTransport` hold of the composed program, too.

**ManualTime.** That no due sleeper is forgotten needs `ClockShape`: whoever has read
the clock and not registered yet is either not due or known to an `Advance` that has
not released yet. `MutexShape` says that only one sleeper is in that place.

**Backoff.** `LoopShape` says that the cap is the base doubled once for each round that is
gone, or that it met the largest delay and no round is left; `DelayFits` that cap, delay
and remaining time keep to their bounds at each place, so that no sum or product wraps.

**Response.** `ResponseInv` says for each way to build a response what is known of it when
it is judged (`Built`), which is what the rules of `validateAttemptResponse` rely on, and which of them can lack
the time of their date or have one they do not need.

Only model-checked:

- liveness, and everything that needs fairness or ENABLED;
- `CloseIsQuiescent` of `Runtime`: it relates the states of two instances, whose proofs
  would have to be repeated for every step of the composition;
- `DataIsCovered` of `Session`, which sums over all calls with a fold, and with it the
  bounds of its `TypeOK`: what a fold computes needs an induction over data;
- `ParserAgrees`, `IssuesAreExact`, `WalkIsExact` and `LimitIsExact`: their reference
  definitions are recursive, and so out of the provers' reach;
- `KitIsExact` of `TestKit`: code that only tests use. In one module with the proofs of
  `LibraryProofs` the provers run out of time on it.

## Findings

1. `operation_stale_replay`: an attempt whose request was written can come back with
   a pre-commit code (the redial of the replay fails, or the kernel times the
   connection out), `sendAdmitted` clears its commitment, and a later error says
   NOT_SENT. `FloorHolds` and `NotSentIsTrue` of the run `operation` exempt exactly
   the attempts that failed with a pre-commit code (history variable `disowned`):
   they show that there is no other way to lose the floor. Without the exemption
   both are violated.
2. `pool_stall`: an idle session that stopped being reusable keeps its place under
   the cap, and Acquire sleeps with nobody left to signal. `AcquireReturns` of the
   run `pool` shows that nothing else can hold Acquire up.
3. `session_collateral`: the cancellation of a blocked write ends the session with
   the canceller's error, and the other calls report CANCELLED.

The models show more differences between code and text. No run is kept for them; the
steps that lead to each are in the module named:

- `Session`: identifiers are taken under the lock and HEADERS queued later
  (session.go:162), so streams can be opened out of order.
- `Session`: a call cancelled between its reservation and its write releases its
  stream without RST_STREAM (session.go:190), and the credit it took from the
  connection window is not given back (session.go:285), although session.go:368-370
  says that a cancellation "must leave the session usable".
- `Session`, `RawTransport`: `Do` can report the end of the session while its first DATA
  is queued or with the write loop, which may then mark the attempt and write the frame
  (session.go:335). `Send` may have answered NOT_SENT by then; `sendAdmitted` reads the
  tracker again (operation.go:244), perhaps still too early. `OutcomeIsTrue` makes an
  exception for it, `MeetsContract` takes the tracker as it was when `Do` returned, and
  `Operation` assumes of a transport that it writes nothing after its `Send` returned.
- `Session`: with a server that stops reading, a reset or control frame blocks the write
  loop, and every `Do` that has to reset its stream waits behind it past its context,
  although session.go:340-342 says "The stream is finished either way". `DoReturns` and
  `SendReturns` make an exception for it.
- `RawTransport`: on a connection whose server asked for a client certificate every
  exchange error is an uncommitted TLS failure (transport_raw.go:147-150); the case
  failure-mapping-mtls-after-commitment.json expects POSSIBLY_SENT. `OutcomeIsTrue`
  makes an exception for it.
- `RawTransport`: an invalid informational response is handed over with its 1xx
  status (h1.go:204-206), which the operation takes for a refusal. `OutcomeIsTrue`
  makes an exception for it.
- `Dial`: `NewSession` stops its context callback without waiting for it
  (session.go:101-105), so that a session can be handed over with a past deadline if
  the context ended during the handshake; `exchangeH1` waits for its own.
- `Operation`, `Response`: a 3xx or 4xx whose body timed out is a retryable
  ATTEMPT_TIMEOUT, although its status line had settled the attempt.
- `Response`: a hand-made non-2xx response that exceeds the size limits may be
  retried, the same response built by `NewAttemptResponse` may not.
- `Response`: the built-in transport, too, builds malformed responses. HTTP/1.1 reads the
  wall clock in the callback for complete headers (h1.go:208): a retryable status with a
  Retry-After date whose head then breaks off (h1.go:158-199) has a date without a time.
  HTTP/2 may throw a response away after the callback (session.go:486-539): the 202 in
  its place has a time without a date. The operation reports both as IO, POSSIBLY_SENT,
  and does not retry (operation.go:255-269). `ResponseIsSound` says that only these and
  hand-made responses are malformed. `RawTransport` and `Operation` have no dates: a
  malformed response is one of the outcomes of `Transport`.
- `Payload`: where a model is expected and the value is no object, serialization stops
  with an error of its own (serialize.go:88-89, 119-121): the caller is told of one issue,
  not truncated, however many were found before (operation.go:763-769).
- `Payload`: a map with a bad key is not looked into (serialize.go:413-421), so a cycle
  through it is reported as the bad key only. Ancestors are known by kind, address and
  length (serialize.go:375-378), so a pointer to an array that holds a pointer to its own
  first element is reported as CYCLE. No cyclic value passes (`WalkIsExact`).
- `RawTransport`: a replay is dialled outside the pool, so an origin can have one
  connection more than the cap for each attempt that replays.
- `TestKit`: `AwaitQuiescence` "waits until [...] no observed operation remains active"
  (reposttest/observer.go:72-73). If the runtime's queue dropped the start of an
  operation it may return early, and if it dropped an end it waits for ever. It also
  returns while a start is queued, which is why the comment asks for `FlushObservers`
  first: `KitIsExact` says what is promised with it and without.
- Configuration (read, not modelled): webhooks.go:59-60 says that `RetryBaseDelay`
  cannot exceed `RetryMaxDelay`; config.go:146 compares them only when both are given.
  `Backoff` takes them in any order, and the delay stays right.

## Not modelled, and why

- Configuration, error tables, identifier generation, transport options, generated
  descriptors: read once or pure, each a comparison with constants, a table or a
  grammar of characters. Nothing in them takes a second step.
- The header codec of `internal/h2/framing.go`, the parsers of `internal/h1`, escapes,
  numbers, the size limit and the UTF-8 check of strict JSON, header grammar and dates, certificate and key parsing:
  character-level data. Their errors are modelled where they change control.
- The telemetry bridge and its OpenTelemetry adapter: calls into a library; the
  events around them are in `Operation`.
- `reposttest/controls.go`: generators that hand out a fixed list.
- Several origins of a `Pool`: they share only `notify`.
- `Operation` over `Attempt` instead of over `Transport`'s sets: the product of both
  is out of TLC's reach, and `MeetsContract` with `ResponseIsSound` checks the
  interface from the other side. The same holds for `Session` below `RawTransport`.
