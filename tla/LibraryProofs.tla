--------------------------- MODULE LibraryProofs ---------------------------
(***************************************************************************)
(* Proofs about the parts of the library that work by themselves: the test *)
(* kit's scheduler (ManualTime), the delay before a retry (Backoff) and    *)
(* the judgement of a response (Response).                                 *)
(***************************************************************************)
EXTENDS ManualTime, Backoff, Response, TLAPS

-----------------------------------------------------------------------------
(* The manual scheduler                                                    *)

\* An Advance is on its way that will release s.
Reached(s) == \E a \in Advancers : Advancing(a) /\ due[s] <= advanceTo[a]

\* Who has the mutex, and who is in the list.
MutexShape ==
  /\ \A s \in Sleepers : sleepPC[s] \in {"locked", "read"} => holder = s
  /\ \A s \in waiters : sleepPC[s] \in {"waiting", "removing"}

\* The clock has been moved as far as an Advance on its way says, and a sleep that has read
\* the clock but is not registered yet is either empty or known to whoever moved the clock
\* since.
ClockShape ==
  /\ \A a \in Advancers : Advancing(a) => advanceTo[a] <= elapsed
  /\ \A s \in Sleepers : sleepPC[s] = "read" =>
       IF asked[s] = 0 THEN due[s] <= elapsed ELSE due[s] <= elapsed => Reached(s)

TimeInv == SleepersAreExact /\ MutexShape /\ ClockShape

\* No call has begun.
LEMMA TimeInitially == TimeInit => TimeInv
BY ManualTimeAssumption
   DEF TimeInit, TimeInv, SleepersAreExact, TimeTypeOK, SleepPCs, MutexShape, ClockShape, Advancing

\* Every step of a Sleep keeps the invariant.
LEMMA SleepStep ==
  ASSUME TimeInv, NEW s \in Sleepers,
         \/ \E d \in Durations : LockScheduler(s, d)
         \/ ReadClock(s) \/ Register(s) \/ EndSleep(s) \/ CancelSleep(s) \/ RemoveWaiter(s)
  PROVE  TimeInv'
<1> USE DEF sleepVars, advanceVars, countVars
<1>1. /\ UNCHANGED <<elapsed, advancePC, advanceTo, countPC, countTo, seen>>
      /\ sleepPC' = [sleepPC EXCEPT ![s] = sleepPC'[s]] /\ sleepPC'[s] \in SleepPCs
  BY Zenon DEF LockScheduler, ReadClock, Register, EndSleep, CancelSleep, RemoveWaiter, TimeInv,
     SleepersAreExact, TimeTypeOK, SleepPCs
<1>2. TimeTypeOK'
  BY <1>1, ManualTimeAssumption, SMTT(30)
     DEF LockScheduler, ReadClock, Register, EndSleep, CancelSleep, RemoveWaiter, TimeInv,
         SleepersAreExact, TimeTypeOK
<1>3. SleepersAreExact'
  BY <1>1, <1>2, SMTT(30)
     DEF LockScheduler, ReadClock, Register, EndSleep, CancelSleep, RemoveWaiter, TimeInv,
     SleepersAreExact, TimeTypeOK,
         MutexShape, ClockShape, Reached, Advancing
<1>4. MutexShape'
  BY <1>1, <1>2, ManualTimeAssumption, SMTT(30)
     DEF LockScheduler, ReadClock, Register, EndSleep, CancelSleep, RemoveWaiter, TimeInv,
         SleepersAreExact, TimeTypeOK, MutexShape
<1>5. ClockShape'
  BY <1>1, <1>2
     DEF LockScheduler, ReadClock, Register, EndSleep, CancelSleep, RemoveWaiter, TimeInv,
     SleepersAreExact, TimeTypeOK,
         MutexShape, ClockShape, Reached, Advancing
<1> QED BY <1>3, <1>4, <1>5, SMTT(30) DEF TimeInv

\* So does the first half of an Advance: whoever is due by now has it to wait for.
LEMMA AdvanceStep ==
  ASSUME TimeInv, NEW a \in Advancers, NEW d \in Durations, Advance(a, d)
  PROVE  TimeInv'
<1> USE DEF sleepVars, countVars
<1> QED BY ManualTimeAssumption
           DEF TimeInv, Advance, SleepersAreExact, TimeTypeOK, Advancing, MutexShape,
               ClockShape, Reached

\* And the second: it takes the mutex, so no Sleep has read the clock and not registered.
LEMMA ReleaseStep ==
  ASSUME TimeInv, NEW a \in Advancers, Release(a)
  PROVE  TimeInv'
<1> USE DEF countVars
<1> QED BY ManualTimeAssumption
           DEF TimeInv, SleepersAreExact, Reached, Release, TimeTypeOK, SleepPCs, ClockShape,
               Advancing, MutexShape

\* AwaitSleepCount only looks.
LEMMA CountStep ==
  ASSUME TimeInv, NEW c \in Counters,
         AwaitSleepCount(c, Cardinality(Sleepers)) \/ CheckCount(c) \/ CountChanged(c) \/ CancelCount(c)
  PROVE  TimeInv'
<1> USE DEF sleepVars, advanceVars, AwaitSleepCount, CheckCount, CountChanged, CancelCount
<1>1. Cardinality(Sleepers) \in Nat
  BY ManualTimeAssumption, SMTT(30)
<1>2. TimeTypeOK'
  BY <1>1, SMTT(30) DEF TimeInv, SleepersAreExact, TimeTypeOK
<1>3. MutexShape' /\ ClockShape'
  BY DEF TimeInv, MutexShape, ClockShape, Reached, Advancing
<1> QED BY <1>3, <1>2, SMTT(30) DEF TimeInv, SleepersAreExact, Advancing

\* ManualScheduler is exact however many calls of Sleep, Advance and AwaitSleepCount run
\* side by side and whatever their durations: no sleep ends before its time, and while the
\* clock says that a registered sleep is over, an Advance is on its way to release it.
THEOREM SleepersExact == TimeSpec => []SleepersAreExact
<1>1. TimeInv /\ [TimeNext]_timeVars => TimeInv'
  <2> SUFFICES ASSUME TimeInv, [TimeNext]_timeVars PROVE TimeInv'
    OBVIOUS
  <2>1. CASE UNCHANGED timeVars
    BY <2>1 DEF timeVars, sleepVars, advanceVars, countVars, TimeInv, SleepersAreExact,
       TimeTypeOK, MutexShape, ClockShape,
                Reached, Advancing
  <2>2. CASE TimeNext
    BY <2>2, SleepStep, AdvanceStep, ReleaseStep, CountStep DEF TimeNext, TimeStep
  <2> QED BY <2>1, <2>2
<1>2. TimeInv => SleepersAreExact
  BY DEF TimeInv
<1> QED BY <1>1, <1>2, TimeInitially, PTL DEF TimeSpec
-----------------------------------------------------------------------------
(* The delay before a retry                                                *)

\* What min and max compute of two or three integers.
LEMMA MinIs ==
  ASSUME NEW a \in Int, NEW b \in Int, NEW c \in Int
  PROVE  /\ Min({a, b, c}) \in {a, b, c}
         /\ Min({a, b, c}) <= a /\ Min({a, b, c}) <= b /\ Min({a, b, c}) <= c
<1>1. \E x \in {a, b, c} : \A y \in {a, b, c} : x <= y
  <2>1. CASE a <= b /\ a <= c  BY <2>1
  <2>2. CASE b <= a /\ b <= c  BY <2>2
  <2>3. CASE c <= a /\ c <= b  BY <2>3
  <2> QED BY <2>1, <2>2, <2>3
<1> QED BY <1>1 DEF Min

\* The minimum of two numbers.
LEMMA MinOfTwoIs ==
  ASSUME NEW a \in Int, NEW b \in Int
  PROVE  Min({a, b}) \in {a, b} /\ Min({a, b}) <= a /\ Min({a, b}) <= b
  BY MinIs, SMTT(30)

\* The maximum of two numbers.
LEMMA MaxIs ==
  ASSUME NEW a \in Int, NEW b \in Int
  PROVE  Max({a, b}) \in {a, b} /\ Max({a, b}) >= a /\ Max({a, b}) >= b
<1>1. \E x \in {a, b} : \A y \in {a, b} : x >= y
  <2>1. CASE a >= b  BY <2>1
  <2>2. CASE b >= a  BY <2>2
  <2> QED BY <2>1, <2>2
<1> QED BY <1>1 DEF Max

\* A product grows with its first factor.
LEMMA Times ==
  ASSUME NEW a \in Nat, NEW b \in Nat, NEW c \in Nat, a <= b
  PROVE  a * c <= b * c
OBVIOUS

BackoffTypeOK ==
  /\ backoffPC \in {"idle", "loop", "entropy", "delay", "sleep", "failed"}
  /\ retryBase \in 0..(IntBound - 1) /\ retryMax \in 0..(IntBound - 1)
  /\ attemptNumber \in 1..MaxAttempt /\ iterations \in 0..(attemptNumber - 1)
  /\ remainingNanos \in Int /\ remainingMillis \in Int
  /\ capMillis \in 0..(IntBound - 1) /\ retryAfter \in 0..(IntBound - 1) /\ delayMillis \in Int

\* The cap that k iterations of the loop make of the base, were there no maximum.
Doubled(k) == retryBase * 2^k

\* The loop has doubled the base once for each iteration that is gone, or it has met the
\* maximum and is over.
LoopShape ==
  backoffPC = "loop" =>
    \/ capMillis = Doubled(attemptNumber - 1 - iterations)
    \/ iterations = 0 /\ capMillis = retryMax /\ retryMax <= Doubled(attemptNumber - 1)

BackoffInv == BackoffTypeOK /\ DelayFits /\ LoopShape /\ DelayIsRight

\* Doubling once more is one power more, and more powers make no smaller cap.
LEMMA Doubling ==
  ASSUME BackoffTypeOK, NEW j \in 0..(MaxAttempt - 1), NEW k \in 0..(MaxAttempt - 1)
  PROVE  /\ Doubled(k) \in Nat /\ Doubled(0) = retryBase
         /\ Doubled(k + 1) = 2 * Doubled(k)
         /\ j <= k => Doubled(j) <= Doubled(k)
  BY PowersOfTwo, BackoffAssumption DEF Doubled, BackoffTypeOK

\* backoff starts with its inputs.
LEMMA BeginStep ==
  ASSUME BackoffInv, NEW base \in Delays, NEW maximum \in Delays, NEW number \in 1..MaxAttempt,
         NEW nanos \in Remainings, BeginBackoff(base, maximum, number, nanos)
  PROVE  BackoffInv'
  BY BackoffAssumption, PowersOfTwo
     DEF BackoffInv, BeginBackoff, BackoffTypeOK, DelayFits, LoopShape, Doubled, DelayIsRight

\* One pass of the loop: the cap doubles or stays at the maximum, without overflow.
LEMMA DoubleStep ==
  ASSUME BackoffInv, DoubleCap PROVE BackoffInv'
<1> USE DEF inputVars
<1>1. /\ backoffPC = "loop" /\ UNCHANGED <<backoffPC, inputVars, retryAfter, delayMillis>>
      /\ iterations \in 1..(attemptNumber - 1) /\ attemptNumber \in 1..MaxAttempt
      /\ IntBound \in Nat /\ MaxAttempt \in Nat
      /\ capMillis \in 0..(IntBound - 1) /\ retryMax \in 0..(IntBound - 1)
      /\ capMillis = Doubled(attemptNumber - 1 - iterations)
  BY BackoffAssumption DEF DoubleCap, BackoffInv, BackoffTypeOK, LoopShape
<1>2. Doubled(attemptNumber - iterations) = 2 * capMillis /\ Doubled(attemptNumber - 1) \in Int
      /\ Doubled(attemptNumber - iterations) <= Doubled(attemptNumber - 1)
  <2> DEFINE k == attemptNumber - 1 - iterations
  <2> HIDE DEF k
  <2> QED BY <1>1, Doubling DEF k, BackoffInv
<1>3. LoopShape'
  <2>1. CASE capMillis' = retryMax /\ iterations' = 0 /\ 2 * capMillis > retryMax
    BY <1>1, <1>2, <2>1 DEF LoopShape, Doubled
  <2>2. CASE capMillis' = 2 * capMillis /\ iterations' = iterations - 1
    BY <1>2, <2>2, <1>1 DEF LoopShape, Doubled
  <2> QED BY <2>1, <2>2, <1>1 DEF DoubleCap, Wrapped
<1> QED BY <1>3, <1>1 DEF BackoffInv, BackoffTypeOK, DelayFits, DelayIsRight, DoubleCap, Wrapped

\* The loop ends, and the cap is bounded by what is left of the deadline.
LEMMA BoundStep ==
  ASSUME BackoffInv, BoundCap PROVE BackoffInv'
<1> USE DEF inputVars
<1> DEFINE full == Doubled(attemptNumber - 1)
<1>1. /\ backoffPC = "loop" /\ backoffPC' = "entropy"
      /\ UNCHANGED <<inputVars, iterations, retryAfter, delayMillis>>
      /\ capMillis' = Min({capMillis, retryMax, remainingMillis})
      /\ capMillis \in Nat /\ retryMax \in 0..(IntBound - 1) /\ remainingMillis \in 1..(IntBound - 2)
      /\ full \in Nat /\ IntBound \in Nat /\ attemptNumber \in 1..MaxAttempt
      /\ capMillis = full \/ (capMillis = retryMax /\ retryMax <= full)
  <2> HIDE DEF full
  <2> QED BY BackoffAssumption, Doubling
             DEF BoundCap, BackoffInv, BackoffTypeOK, DelayFits, LoopShape, full
<1> HIDE DEF full
<1>2. /\ capMillis' \in {capMillis, retryMax, remainingMillis}
      /\ capMillis' <= capMillis /\ capMillis' <= retryMax /\ capMillis' <= remainingMillis
  BY <1>1, MinIs
<1>3. capMillis' = Min({full, retryMax, remainingMillis})
  <2>1. /\ Min({full, retryMax, remainingMillis}) \in {full, retryMax, remainingMillis}
        /\ Min({full, retryMax, remainingMillis}) <= full
        /\ Min({full, retryMax, remainingMillis}) <= retryMax
        /\ Min({full, retryMax, remainingMillis}) <= remainingMillis
    <3>1. full \in Int /\ retryMax \in Int /\ remainingMillis \in Int
      BY <1>1, SMTT(30)
    <3> QED BY <3>1, MinIs, Zenon
  <2> QED BY <1>1, <1>2, <2>1
<1> QED BY <1>1, <1>2, <1>3
           DEF BackoffInv, BackoffTypeOK, DelayFits, LoopShape, DelayIsRight, full, Doubled

\* The entropy gives a delay up to the cap, or fails.
LEMMA SampleStep ==
  ASSUME BackoffInv, NEW value \in -1..(IntBound - 1), SampleJitter(value) PROVE BackoffInv'
<1> USE DEF inputVars
<1> QED BY BackoffAssumption
           DEF BackoffInv, BackoffTypeOK, DelayFits, LoopShape, DelayIsRight, SampleJitter,
               Wrapped

\* Retry-After lengthens the delay, up to its own cap and the deadline.
LEMMA RetryAfterStep ==
  ASSUME BackoffInv, NEW after \in Delays, ApplyRetryAfter(after) PROVE BackoffInv'
<1> USE DEF inputVars
<1>1. /\ backoffPC = "delay" /\ backoffPC' = "sleep" /\ retryAfter' = after
      /\ UNCHANGED <<inputVars, iterations, capMillis>>
      /\ delayMillis \in 0..capMillis /\ capMillis \in 0..(IntBound - 1) /\ IntBound \in Nat
      /\ capMillis <= remainingMillis
      /\ remainingMillis \in 1..(IntBound - 2) /\ remainingNanos \in Int /\ Millisecond \in Nat
      /\ remainingMillis * Millisecond <= remainingNanos
      /\ after \in 0..(IntBound - 1) /\ RetryAfterCap \in Nat
  BY BackoffAssumption DEF ApplyRetryAfter, BackoffInv, BackoffTypeOK, DelayFits
<1> DEFINE told == Min({after, RetryAfterCap, remainingMillis})
           wanted == Min({after, RetryAfterCap})
           most == Max({capMillis, wanted})
           longer == Max({delayMillis, told})
<1>2. /\ told \in {after, RetryAfterCap, remainingMillis} /\ told <= after
      /\ told <= RetryAfterCap /\ told <= remainingMillis
      /\ wanted \in {after, RetryAfterCap} /\ wanted <= after /\ wanted <= RetryAfterCap
  <2>1. after \in Int /\ RetryAfterCap \in Int /\ remainingMillis \in Int
    BY <1>1
  <2> QED BY <2>1, MinIs, MinOfTwoIs, Zenon
<1> HIDE DEF told, wanted
<1>3. /\ told \in Nat /\ wanted \in Nat /\ told <= wanted
      /\ most \in Nat /\ most >= capMillis /\ most >= wanted
      /\ longer \in {delayMillis, told} /\ longer >= delayMillis /\ longer >= told
  <2>1. told \in Int /\ wanted \in Int /\ capMillis \in Int /\ delayMillis \in Int
    BY <1>1, <1>2
  <2>2. /\ most \in {capMillis, wanted} /\ most >= capMillis /\ most >= wanted
        /\ longer \in {delayMillis, told} /\ longer >= delayMillis /\ longer >= told
    BY <2>1, MaxIs, Zenon
  <2> HIDE DEF most, longer
  <2> QED BY <1>1, <2>2, <1>2
<1>4. delayMillis' = IF after = 0 THEN delayMillis ELSE longer
  BY DEF ApplyRetryAfter, told
<1> HIDE DEF most, longer
<1>5. delayMillis' \in 0..most /\ delayMillis' >= told /\ delayMillis' \in 0..remainingMillis
  BY <1>1, <1>2, <1>3, <1>4
<1>6. delayMillis' * Millisecond <= remainingNanos
  <2>1. delayMillis' * Millisecond <= remainingMillis * Millisecond
    <3>1. delayMillis' \in Nat /\ remainingMillis \in Nat /\ delayMillis' <= remainingMillis
          /\ Millisecond \in Nat
      BY <1>1, <1>5
    <3> QED BY <3>1, Times, Zenon
  <2>2. delayMillis' * Millisecond \in Int /\ remainingMillis * Millisecond \in Int
    BY <1>1, <1>5, SMTT(30)
  <2> QED BY <1>1, <2>1, <2>2
<1>7. DelayIsRight'
  BY <1>1, <1>5, <1>6, Zenon DEF BackoffInv, DelayIsRight, told, wanted, most
<1> QED BY <1>7, <1>1, <1>5, SMTT(30) DEF BackoffInv, BackoffTypeOK, DelayFits, LoopShape

\* For every width of the integers and every input, the cap that backoff doubles its way to
\* is the closed form of DelayIsRight, no step of it overflows, and the delay that is slept
\* keeps to the cap, to Retry-After and to the operation's deadline.
THEOREM DelayRight == BackoffSpec => []DelayIsRight
<1>1. BackoffInit => BackoffInv
  BY BackoffAssumption
     DEF BackoffInit, BackoffInv, BackoffTypeOK, DelayFits, LoopShape, DelayIsRight
<1>2. BackoffInv /\ [BackoffNext]_backoffVars => BackoffInv'
  <2> SUFFICES ASSUME BackoffInv, [BackoffNext]_backoffVars PROVE BackoffInv'
    OBVIOUS
  <2>1. CASE BackoffNext
    BY <2>1, BeginStep, DoubleStep, BoundStep, SampleStep, RetryAfterStep DEF BackoffNext
  <2>2. CASE UNCHANGED backoffVars
    BY <2>2 DEF backoffVars, BackoffInv, BackoffTypeOK, DelayFits, LoopShape, DelayIsRight, Doubled
  <2> QED BY <2>1, <2>2
<1>3. BackoffInv => DelayIsRight
  BY DEF BackoffInv
<1> QED BY <1>1, <1>2, <1>3, PTL DEF BackoffSpec
-----------------------------------------------------------------------------
(* The judgement of a response                                             *)

AttemptResponses ==
  [status : Statuses, headers : HeaderKinds, encoding : Encodings, dated : BOOLEAN,
   snapshot : Snapshots, body : Nat, compressed : Nat, decompressed : Nat, truncated : BOOLEAN,
   normalized : BOOLEAN, protocol : BOOLEAN, limit : BOOLEAN, forbidden : BOOLEAN,
   incomplete : BOOLEAN, timeout : BOOLEAN]

\* A limit is exceeded, whatever the length of the body.
OverLimit(r) ==
  \/ r.headers = "over" \/ r.compressed > MaxPayload
  \/ r.decompressed > MaxPayload \/ r.decompressed > r.compressed * Expansion

\* What holds of a response however it was built.
Built(r, o) ==
  /\ r \in AttemptResponses
  /\ o \in {"normalized", "complete"} => WellFormed(r)
  /\ o = "head" => r.snapshot = "none"
  /\ o = "empty" => ~r.dated
  /\ r.incomplete => r.body = 0
  /\ r.normalized => (Success(r.status) /\ ~r.limit /\ ~r.protocol => ~Exceeds(r))

\* What the marks of a fresh response mean, and what they mean of one that the operation has
\* looked at.
FreshMarks(r, o) ==
  /\ o = "handmade" => ~r.limit
  /\ o = "normalized" /\ r.limit => OverLimit(r)

SeenMarks(r, o) ==
  /\ o \in Custom /\ r.limit => Exceeds(r)
  /\ r.headers # "valid" => r.limit \/ r.protocol

ResponseInv ==
  /\ origin \in Custom \cup BuiltIns
  /\ responsePC \notin {"build", "refused"} => Built(response, origin)
  /\ responsePC = "snapshot" => FreshMarks(response, origin)
  /\ responsePC \in {"shape", "validate", "judged"} => SeenMarks(response, origin)
  /\ ResponseIsSound

\* The division of responseExceedsLimits tells exactly when the ratio is exceeded.
LEMMA RatioIsExact ==
  ASSUME NEW c \in Nat, NEW d \in Nat
  PROVE  d > c * Expansion <=>
           IF c = 0 THEN d > 0
           ELSE d \div c > Expansion \/ (d \div c = Expansion /\ d % c > 0)
<1>1. CASE c = 0
  BY <1>1, ResponseAssumption
<1>2. CASE c # 0
  <2> DEFINE q == d \div c
             m == d % c
  <2>1. q \in Nat /\ m \in Nat /\ m < c /\ d = c * q + m /\ Expansion \in Nat
    BY <1>2, ResponseAssumption
  <2> HIDE DEF q, m
  <2>2. CASE q < Expansion
    BY <2>1, <2>2, <1>2 DEF q, m
  <2>3. CASE q = Expansion
    BY <2>1, <2>3, <1>2 DEF q, m
  <2>4. CASE q > Expansion
    BY <2>1, <2>4, <1>2 DEF q, m
  <2> QED BY <2>1, <2>2, <2>3, <2>4
<1> QED BY <1>1, <1>2

\* The limits that responseExceedsLimits tests are those of Exceeds.
LEMMA LimitsAreExact ==
  ASSUME NEW r \in AttemptResponses
  PROVE  Exceeds(r) <=> responseExceedsLimits(r) \/ r.headers = "over"
  BY RatioIsExact DEF Exceeds, responseExceedsLimits, AttemptResponses

\* A response before its body is read.
LEMMA BlankIs ==
  ASSUME NEW status \in Statuses, NEW headers \in HeaderKinds, NEW encoding \in Encodings, NEW dated \in BOOLEAN
  PROVE  LET b == Blank(status, headers, encoding, dated)
         IN /\ b \in AttemptResponses /\ b.status = status /\ b.headers = headers
            /\ b.encoding = encoding /\ b.dated = dated /\ b.snapshot = "none"
            /\ b.body = 0 /\ b.compressed = 0 /\ b.decompressed = 0
            /\ ~b.truncated /\ ~b.normalized /\ ~b.protocol /\ ~b.limit /\ ~b.forbidden
            /\ ~b.incomplete /\ ~b.timeout
BY DEF Blank, AttemptResponses, Snapshots

\* What NewAttemptResponse makes of the wire data, before it looks at the clock.
Normal(n, b) ==
  /\ n \in AttemptResponses /\ n.status = b.status /\ n.dated = b.dated /\ n.snapshot = b.snapshot
  /\ n.normalized /\ ~n.incomplete
  /\ n.limit => OverLimit(n)
  /\ Success(n.status) /\ ~n.limit /\ ~n.protocol => ~Exceeds(n)

\* What normalizing does to a response, whichever limit its body meets.
LEMMA NormalizeIs ==
  ASSUME NEW b \in AttemptResponses, b.body = 0, b.compressed = 0, b.decompressed = 0, ~b.protocol,
         ~b.limit, ~b.incomplete,
         NEW wire \in Nat, NEW decoded \in Nat \cup {-1}, Decodes(b.encoding, wire, decoded)
  PROVE  Normal(Normalize(b, wire, decoded), b)
<1> DEFINE r == [b EXCEPT !.normalized = TRUE]
           bad == ~Success(r.status)
           long == decoded > ErrorBody
           size == IF decoded < 0 THEN 0 ELSE decoded
           sized == [r EXCEPT !.compressed = wire, !.decompressed = size]
           broken == [sized EXCEPT !.protocol = TRUE, !.forbidden = bad]
           n == Normalize(b, wire, decoded)
<1>1. /\ r \in AttemptResponses /\ r.status = b.status /\ r.dated = b.dated /\ r.snapshot = b.snapshot
      /\ r.headers = b.headers /\ r.encoding = b.encoding /\ r.normalized /\ ~r.incomplete
      /\ ~r.protocol /\ ~r.limit /\ r.body = 0 /\ r.compressed = 0 /\ r.decompressed = 0
  BY Zenon DEF AttemptResponses
<1>2. bad \in BOOLEAN /\ long \in BOOLEAN /\ size \in Nat
  <2>1. ASSUME decoded > ErrorBody PROVE long \in BOOLEAN
    BY <2>1, Zenon
  <2>2. ASSUME ~(decoded > ErrorBody) PROVE long \in BOOLEAN
    BY <2>2, SMT
  <2> QED BY <2>1, <2>2 DEF Success
<1> HIDE DEF size, long, bad
<1>3. MaxPayload \in Nat /\ Expansion \in Nat /\ wire * Expansion \in Nat
  BY ResponseAssumption
<1>4. /\ sized \in AttemptResponses /\ sized.status = b.status /\ sized.dated = b.dated
      /\ sized.snapshot = b.snapshot /\ sized.headers = b.headers /\ sized.normalized /\ ~sized.incomplete
      /\ ~sized.protocol /\ ~sized.limit /\ sized.body = 0 /\ sized.compressed = wire
      /\ sized.decompressed = size
  BY <1>1, <1>2, Zenon DEF AttemptResponses
<1> SUFFICES Normal(n, b)
  OBVIOUS
<1> HIDE DEF r, sized, n
<1>5. CASE r.headers # "valid"
  <2>1. CASE r.headers = "over"
    <3>1. n = [r EXCEPT !.limit = TRUE, !.forbidden = TRUE, !.body = 0]
      BY <2>1, <1>5 DEF MarkHeaders, n, Normalize, r
    <3> QED BY <1>1, <2>1, <3>1, Zenon DEF AttemptResponses, Normal, OverLimit
  <2>2. CASE r.headers # "over"
    <3>1. n = [r EXCEPT !.protocol = TRUE, !.body = 0]
      BY <2>2, <1>5 DEF MarkHeaders, n, Normalize, r
    <3> QED BY <1>1, <3>1, Zenon DEF AttemptResponses, Normal
  <2> QED BY <2>1, <2>2
<1>6. CASE r.headers = "valid" /\ r.encoding = "unknown"
  <2>1. n = [r EXCEPT !.protocol = TRUE]
    BY <1>6, Zenon DEF n, Normalize, r
  <2> QED BY <1>1, <2>1, Zenon DEF AttemptResponses, Normal
<1>7. CASE r.headers = "valid" /\ r.encoding # "unknown" /\ wire > MaxPayload
  <2>1. CASE r.encoding = "identity"
    <3>1. n = [r EXCEPT !.compressed = wire, !.decompressed = wire, !.limit = TRUE, !.forbidden = bad]
      BY <2>1, <1>7 DEF n, Normalize, r, bad
    <3> QED BY <1>1, <1>2, <1>3, <1>7, <3>1, Zenon DEF AttemptResponses, Normal, OverLimit
  <2>2. CASE r.encoding # "identity"
    <3>1. n = [r EXCEPT !.compressed = wire, !.protocol = TRUE, !.forbidden = bad]
      BY <2>2, <1>7 DEF n, Normalize, r, bad
    <3> QED BY <1>1, <1>2, <3>1, Zenon DEF AttemptResponses, Normal
  <2> QED BY <2>1, <2>2
<1>8. CASE r.headers = "valid" /\ r.encoding # "unknown" /\ ~(wire > MaxPayload)
  <2>1. n = IF decoded < 0 \/ decoded > MaxPayload \/ (wire > 0 /\ decoded > wire * Expansion) THEN broken
            ELSE IF bad THEN [sized EXCEPT !.truncated = long]
            ELSE [sized EXCEPT !.body = decoded]
    BY <1>8, Zenon DEF n, Normalize, r, sized, size, bad, long
  <2>2. CASE decoded < 0 \/ decoded > MaxPayload \/ (wire > 0 /\ decoded > wire * Expansion)
    <3>1. n = broken
      BY <2>1, <2>2
    <3> QED BY <1>2, <1>4, <3>1, ZenonT(30) DEF AttemptResponses, Normal
  <2>3. CASE ~(decoded < 0 \/ decoded > MaxPayload \/ (wire > 0 /\ decoded > wire * Expansion)) /\ bad
    BY <1>2, <1>4, <2>3, <2>1, <1>1 DEF AttemptResponses, Normal, bad
  <2>4. CASE ~(decoded < 0 \/ decoded > MaxPayload \/ (wire > 0 /\ decoded > wire * Expansion)) /\ ~bad
    BY <1>1, <1>3, <1>4, <1>8, <2>1, <2>4, SMTT(30)
       DEF AttemptResponses, Normal, Exceeds, size, Decodes, Encodings
  <2> QED BY <2>2, <2>3, <2>4
<1> QED BY <1>5, <1>6, <1>7, <1>8

\* The wall clock is read exactly when the date needs it.
LEMMA SnapshotIs ==
  ASSUME NEW r \in AttemptResponses, r.snapshot = "none", NEW answer \in {"set", "failed"}
  PROVE  LET n == Snapshot(r, answer)
         IN /\ n \in AttemptResponses /\ WellFormed(n)
            /\ n.status = r.status /\ n.headers = r.headers /\ n.encoding = r.encoding
            /\ n.body = r.body /\ n.compressed = r.compressed /\ n.decompressed = r.decompressed
            /\ n.normalized = r.normalized /\ n.limit = r.limit /\ n.protocol = r.protocol
            /\ n.incomplete = r.incomplete
<1>1. CASE NeedsSnapshot(r.status, r.dated)
  BY <1>1 DEF AttemptResponses, Snapshots, Snapshot, WellFormed
<1>2. CASE ~NeedsSnapshot(r.status, r.dated)
  BY <1>2, Zenon DEF Snapshot, WellFormed
<1> QED BY <1>1, <1>2

\* NewAttemptResponse builds a response that is right.
LEMMA NewResponseStep ==
  ASSUME NEW status \in Statuses, NEW headers \in HeaderKinds, NEW encoding \in Encodings,
         NEW dated \in BOOLEAN, NEW wire \in Lengths, NEW decoded \in Lengths \cup {-1},
         NewAttemptResponse(Blank(status, headers, encoding, dated), wire, decoded)
  PROVE  ResponseInv'
<1> DEFINE b == Blank(status, headers, encoding, dated)
           n == Normalize(b, wire, decoded)
<1>1. PICK answer \in {"set", "failed"} : response' = Snapshot(n, answer)
  BY DEF NewAttemptResponse
<1>2. wire \in Nat /\ decoded \in Nat \cup {-1} /\ Decodes(b.encoding, wire, decoded)
  BY ResponseAssumption, SMTT(30) DEF NewAttemptResponse
<1>3. /\ b \in AttemptResponses /\ b.body = 0 /\ b.compressed = 0 /\ b.decompressed = 0 /\ ~b.protocol
      /\ ~b.limit /\ ~b.incomplete /\ b.snapshot = "none"
  BY BlankIs, SMTT(30)
<1> HIDE DEF b
<1>4. /\ n \in AttemptResponses /\ n.snapshot = "none" /\ n.normalized /\ ~n.incomplete
      /\ n.limit => OverLimit(n)
      /\ Success(n.status) /\ ~n.limit /\ ~n.protocol => ~Exceeds(n)
  BY <1>2, <1>3, NormalizeIs, SMTT(30) DEF Normal
<1> HIDE DEF n
<1> QED BY <1>4, <1>1, SnapshotIs
           DEF ResponseInv, ResponseIsSound, Built, FreshMarks, OverLimit, Exceeds,
               NewAttemptResponse, Custom

\* A change that leaves status, date and snapshot alone leaves the shape alone.
LEMMA ShapeIs ==
  ASSUME NEW r, NEW n, n.status = r.status, n.dated = r.dated, n.snapshot = r.snapshot
  PROVE  WellFormed(n) <=> WellFormed(r)
BY Zenon DEF WellFormed

\* A custom transport marks nothing.
LEMMA HandMadeStep ==
  ASSUME NEW status \in Statuses, NEW headers \in HeaderKinds, NEW encoding \in Encodings,
         NEW dated \in BOOLEAN, NEW body \in Lengths, NEW compressed \in Lengths,
         NEW decompressed \in Lengths, NEW truncated \in BOOLEAN, NEW snapshot \in Snapshots,
         HandMade(Blank(status, headers, encoding, dated), body, compressed, decompressed,
                  truncated, snapshot)
  PROVE  ResponseInv'
<1> DEFINE b == Blank(status, headers, encoding, dated)
<1>1. /\ response' = [b EXCEPT !.body = body, !.compressed = compressed, !.decompressed = decompressed,
                               !.truncated = truncated, !.snapshot = snapshot]
      /\ origin' = "handmade" /\ responsePC' = "snapshot"
  BY Zenon DEF HandMade
<1>2. b \in AttemptResponses /\ ~b.limit /\ ~b.normalized /\ ~b.incomplete
  BY BlankIs
<1> HIDE DEF b
<1>3. response' \in AttemptResponses /\ ~response'.limit /\ ~response'.normalized /\ ~response'.incomplete
  BY <1>1, <1>2, ResponseAssumption, ZenonT(30) DEF AttemptResponses
<1> QED BY <1>1, <1>3 DEF ResponseInv, Built, FreshMarks, ResponseIsSound, Custom

\* What a response of the built-in transport that broke off keeps.
LEMMA BrokenIs ==
  ASSUME NEW r \in AttemptResponses, NEW how \in Breaks
  PROVE  LET n == Broken(r, how)
         IN /\ n \in AttemptResponses /\ n.status = r.status /\ n.dated = r.dated
            /\ n.snapshot = r.snapshot /\ n.body = r.body /\ n.normalized = r.normalized
<1> DEFINE bad == ~Success(r.status)
           n == Broken(r, how)
<1>1. bad \in BOOLEAN
  BY Zenon DEF Success
<1> HIDE DEF bad
<1>2. CASE how = "tooLarge"
  <2>1. CASE r.encoding = "gzip"
    <3>1. n = [[r EXCEPT !.protocol = TRUE] EXCEPT !.forbidden = bad]
      BY <2>1, <1>2, Zenon DEF markBodyLimitViolation, Broken, bad
    <3> HIDE DEF n
    <3>2. /\ n \in AttemptResponses /\ n.status = r.status /\ n.dated = r.dated
          /\ n.snapshot = r.snapshot /\ n.body = r.body /\ n.normalized = r.normalized
      BY <1>1, <3>1, Zenon DEF AttemptResponses
    <3> QED BY <3>2 DEF n
  <2>2. CASE r.encoding # "gzip"
    <3>1. n = [[r EXCEPT !.limit = TRUE] EXCEPT !.forbidden = bad]
      BY <2>2, <1>2, Zenon DEF markBodyLimitViolation, Broken, bad
    <3> HIDE DEF n
    <3>2. /\ n \in AttemptResponses /\ n.status = r.status /\ n.dated = r.dated
          /\ n.snapshot = r.snapshot /\ n.body = r.body /\ n.normalized = r.normalized
      BY <1>1, <3>1, Zenon DEF AttemptResponses
    <3> QED BY <3>2 DEF n
  <2> QED BY <2>1, <2>2
<1>3. CASE how = "protocol"
  BY <1>1, <1>3, ZenonT(30) DEF AttemptResponses, Broken, bad
<1>4. CASE how = "headers"
  BY <1>4, Zenon DEF Broken, AttemptResponses
<1>5. CASE how = "cut"
  BY <1>5, Zenon DEF Broken, AttemptResponses
<1>6. CASE how = "timeout"
  BY <1>6, Zenon DEF Broken, AttemptResponses
<1> QED BY <1>2, <1>3, <1>4, <1>5, <1>6 DEF Breaks

\* The built-in transport builds a response that is right.
LEMMA BuiltInStep ==
  ASSUME NEW status \in Statuses, NEW headers \in HeaderKinds, NEW encoding \in Encodings,
         NEW dated \in BOOLEAN, NEW wire \in Lengths, NEW decoded \in Lengths,
         NEW answer \in {"set", "failed"},
         BuiltIn(Blank(status, headers, encoding, dated), wire, decoded, answer)
  PROVE  ResponseInv'
<1> DEFINE b == Blank(status, headers, encoding, dated)
           sized == [b EXCEPT !.compressed = wire, !.decompressed = decoded]
           r == Snapshot(sized, answer)
           cut == ~Success(r.status) /\ decoded > ErrorBody
           kept == IF Success(r.status) THEN decoded ELSE 0
<1>1. /\ \/ response' = [r EXCEPT !.body = kept, !.truncated = cut]
         \/ \E how \in Breaks : response' = Broken(r, how)
      /\ origin' = "complete" /\ responsePC' = "snapshot"
  BY Zenon DEF BuiltIn
<1>2. cut \in BOOLEAN
  <2>1. ASSUME cut PROVE cut \in BOOLEAN
    BY <2>1, Zenon
  <2>2. ASSUME ~cut PROVE cut \in BOOLEAN
    BY <2>2, SMT
  <2> QED BY <2>1, <2>2
<1> HIDE DEF cut
<1>3. wire \in Nat /\ decoded \in Nat /\ kept \in Nat
  BY ResponseAssumption, Zenon
<1> HIDE DEF kept
<1>4. b \in AttemptResponses /\ ~b.normalized /\ ~b.incomplete /\ b.snapshot = "none" /\ b.body = 0
  BY BlankIs
<1> HIDE DEF b
<1>5. /\ sized \in AttemptResponses /\ ~sized.normalized /\ ~sized.incomplete
      /\ sized.snapshot = "none" /\ sized.body = 0
  BY <1>3, <1>4, Zenon DEF AttemptResponses
<1> HIDE DEF sized
<1>6. r \in AttemptResponses /\ WellFormed(r) /\ ~r.normalized /\ ~r.incomplete /\ r.body = 0
  BY <1>5, SnapshotIs
<1> HIDE DEF r
<1>7. /\ response' \in AttemptResponses /\ response'.status = r.status /\ response'.dated = r.dated
      /\ response'.snapshot = r.snapshot /\ ~response'.normalized
      /\ response'.incomplete => response'.body = 0
  <2>1. CASE response' = [r EXCEPT !.body = kept, !.truncated = cut]
    BY <1>2, <1>3, <1>6, <2>1, Zenon DEF AttemptResponses
  <2>2. ASSUME NEW how \in Breaks, response' = Broken(r, how)
        PROVE  /\ response' \in AttemptResponses /\ response'.status = r.status
               /\ response'.dated = r.dated /\ response'.snapshot = r.snapshot
               /\ response'.body = r.body /\ response'.normalized = r.normalized
    BY <2>2, <1>6, BrokenIs, Zenon
  <2> QED BY <1>1, <1>6, <2>1, <2>2
<1> QED BY <1>1, <1>6, <1>7, ShapeIs DEF ResponseInv, ResponseIsSound, Built, FreshMarks, BuiltIns

\* A head that broke off has no snapshot and no body.
LEMMA BrokenHeadStep ==
  ASSUME NEW status \in Statuses, NEW headers \in HeaderKinds, NEW encoding \in Encodings,
         NEW dated \in BOOLEAN, NEW how \in Breaks,
         BrokenHead(Blank(status, headers, encoding, dated), how)
  PROVE  ResponseInv'
<1> DEFINE b == Blank(status, headers, encoding, dated)
<1>1. response' = Broken(b, how) /\ origin' = "head" /\ responsePC' = "snapshot"
  BY Zenon DEF BrokenHead
<1>2. b \in AttemptResponses /\ b.snapshot = "none" /\ b.body = 0 /\ ~b.normalized
  BY BlankIs
<1> HIDE DEF b
<1>3. /\ response' \in AttemptResponses /\ response'.snapshot = b.snapshot
      /\ response'.body = b.body /\ response'.normalized = b.normalized
  BY <1>1, <1>2, BrokenIs, Zenon
<1> QED BY <1>1, <1>2, <1>3 DEF ResponseInv, ResponseIsSound, Built, FreshMarks, BuiltIns

\* An empty response has no date and no body.
LEMMA EmptyResponseStep ==
  ASSUME NEW status \in Statuses, NEW headers \in HeaderKinds, NEW encoding \in Encodings,
         NEW dated \in BOOLEAN, NEW how \in Breaks, NEW answer \in {"set", "failed"},
         EmptyResponse(Blank(status, headers, encoding, dated), how, answer)
  PROVE  ResponseInv'
<1> DEFINE clock == Snapshot(Blank(status, headers, encoding, dated), answer).snapshot
           b == Blank("2xx", "valid", "identity", FALSE)
           r == Broken(b, how)
<1>1. /\ response' = [r EXCEPT !.forbidden = TRUE, !.snapshot = clock]
      /\ origin' = "empty" /\ responsePC' = "snapshot"
  BY Zenon DEF EmptyResponse
<1>2. b \in AttemptResponses /\ ~b.dated /\ b.body = 0 /\ ~b.normalized
  <2>1. "2xx" \in Statuses /\ "valid" \in HeaderKinds /\ "identity" \in Encodings
    BY DEF Statuses, HeaderKinds, Encodings
  <2> QED BY <2>1 DEF Blank, AttemptResponses, Snapshots
<1>3. clock \in Snapshots
  <2> DEFINE q == Blank(status, headers, encoding, dated)
  <2>1. q \in AttemptResponses /\ q.snapshot = "none"
    BY BlankIs
  <2> HIDE DEF q
  <2>2. Snapshot(q, answer) \in AttemptResponses
    BY <2>1, SnapshotIs
  <2> QED BY <2>2 DEF AttemptResponses, q
<1> HIDE DEF b, clock
<1>4. r \in AttemptResponses /\ r.dated = b.dated /\ r.body = b.body /\ r.normalized = b.normalized
  BY <1>2, BrokenIs, Zenon
<1> HIDE DEF r
<1>5. /\ response' \in AttemptResponses /\ response'.dated = r.dated
      /\ response'.body = r.body /\ response'.normalized = r.normalized
  BY <1>1, <1>3, <1>4, Zenon DEF AttemptResponses
<1> QED BY <1>1, <1>2, <1>4, <1>5 DEF ResponseInv, ResponseIsSound, Built, FreshMarks, BuiltIns

\* Headers that are not valid leave a mark and no body.
LEMMA MarkedIs ==
  ASSUME NEW r \in AttemptResponses, r.headers # "valid"
  PROVE  LET n == MarkHeaders(r)
         IN /\ n \in AttemptResponses /\ n.status = r.status /\ n.dated = r.dated
            /\ n.snapshot = r.snapshot /\ n.headers = r.headers /\ n.body = 0
            /\ n.compressed = r.compressed /\ n.decompressed = r.decompressed
            /\ n.normalized = r.normalized /\ (n.limit \/ n.protocol)
            /\ n.limit => r.limit \/ r.headers = "over"
<1>1. CASE r.headers = "over"
  BY <1>1, Zenon DEF MarkHeaders, AttemptResponses
<1>2. CASE r.headers # "over"
  BY <1>2, Zenon DEF MarkHeaders, AttemptResponses
<1> QED BY <1>1, <1>2

\* A violation of the limits marks a response and changes nothing else of it.
LEMMA LimitMarkIs ==
  ASSUME NEW r \in AttemptResponses
  PROVE  LET n == markBodyLimitViolation(r)
         IN /\ n \in AttemptResponses /\ n.status = r.status /\ n.dated = r.dated
            /\ n.snapshot = r.snapshot /\ n.headers = r.headers /\ n.body = r.body
            /\ n.compressed = r.compressed /\ n.decompressed = r.decompressed
            /\ n.normalized = r.normalized /\ n.incomplete = r.incomplete /\ (n.limit \/ n.protocol)
<1>1. CASE r.encoding = "gzip"
  BY <1>1, Zenon DEF markBodyLimitViolation, AttemptResponses
<1>2. CASE r.encoding # "gzip"
  BY <1>2, Zenon DEF markBodyLimitViolation, AttemptResponses
<1> QED BY <1>1, <1>2

\* The operation's snapshot of a response keeps it right.
LEMMA OperationSnapshotStep ==
  ASSUME ResponseInv, snapshotAttemptResponse
  PROVE  ResponseInv'
<1> DEFINE r == IF response.headers = "valid" THEN response ELSE MarkHeaders(response)
           over == ~r.normalized /\ ~r.protocol /\ ~r.limit /\ responseExceedsLimits(r)
<1>1. /\ Built(response, origin) /\ FreshMarks(response, origin) /\ response \in AttemptResponses
      /\ origin \in Custom \cup BuiltIns
  BY SMTT(30) DEF ResponseInv, snapshotAttemptResponse, Built
<1>2. /\ response' = (IF over THEN markBodyLimitViolation(r) ELSE r)
      /\ responsePC' = "shape" /\ origin' = origin
  BY Zenon DEF snapshotAttemptResponse
<1>3. /\ Built(r, origin) /\ r \in AttemptResponses
      /\ origin \in Custom /\ r.limit => Exceeds(r)
      /\ r.headers # "valid" => r.limit \/ r.protocol
  <2>1. CASE response.headers = "valid"
    <3>1. r = response
      BY <2>1
    <3> HIDE DEF r
    <3> QED BY <1>1, <2>1, <3>1 DEF FreshMarks, OverLimit, Exceeds, Custom
  <2>2. CASE response.headers # "valid"
    <3>1. r = MarkHeaders(response)
      BY <2>2
    <3> HIDE DEF r
    <3>2. /\ r \in AttemptResponses /\ r.status = response.status /\ r.dated = response.dated
          /\ r.snapshot = response.snapshot /\ r.headers = response.headers /\ r.body = 0
          /\ r.compressed = response.compressed /\ r.decompressed = response.decompressed
          /\ (r.limit \/ r.protocol)
          /\ r.limit => response.limit \/ response.headers = "over"
      BY <1>1, <2>2, <3>1, MarkedIs, Zenon
    <3> QED BY <1>1, <3>2, ShapeIs DEF FreshMarks, OverLimit, Exceeds, Built, Custom
  <2> QED BY <2>1, <2>2
<1> HIDE DEF r
<1>4. Built(response', origin) /\ SeenMarks(response', origin)
  <2>1. CASE ~over
    BY <1>2, <1>3, <2>1, SMTT(30) DEF SeenMarks
  <2>2. CASE over
    <3>1. /\ response' \in AttemptResponses /\ response'.status = r.status /\ response'.dated = r.dated
          /\ response'.snapshot = r.snapshot /\ response'.headers = r.headers
          /\ response'.body = r.body /\ response'.compressed = r.compressed
          /\ response'.decompressed = r.decompressed /\ response'.incomplete = r.incomplete
          /\ (response'.limit \/ response'.protocol)
      BY <1>3, LimitMarkIs, <1>2, <2>2, Zenon
    <3> QED BY <3>1, <1>3, <2>2, LimitsAreExact, ShapeIs DEF SeenMarks, Exceeds, Built
  <2> QED BY <2>1, <2>2, SMTT(30)
<1> QED BY <1>1, <1>2, <1>4, SMTT(30) DEF ResponseInv, ResponseIsSound

\* The check of a response's shape keeps it right.
LEMMA ShapeStep ==
  ASSUME ResponseInv, CheckShape
  PROVE  ResponseInv'
<1>1. /\ responsePC = "shape" /\ response' = response /\ origin' = origin
      /\ responsePC' = IF WellFormed(response) THEN "validate" ELSE "malformed"
  BY Zenon DEF CheckShape
<1>2. Built(response, origin) /\ SeenMarks(response, origin) /\ origin \in Custom \cup BuiltIns
  BY <1>1, SMTT(30) DEF ResponseInv
<1>3. CASE WellFormed(response)
  BY <1>1, <1>2, <1>3, SMTT(30) DEF ResponseInv, ResponseIsSound
<1>4. CASE ~WellFormed(response)
  <2>1. \/ origin = "handmade"
        \/ origin = "head" /\ NeedsSnapshot(response.status, response.dated)
        \/ origin = "empty" /\ response.snapshot # "none"
    BY <1>2, <1>4 DEF Built, Custom, BuiltIns, WellFormed, NeedsSnapshot
  <2> QED BY <1>1, <1>2, <1>4, <2>1, SMTT(30) DEF ResponseInv, ResponseIsSound
<1> QED BY <1>3, <1>4

\* What ResponseIsSound says of a verdict.
Judges(v, r, o, found) ==
  /\ v.code = "none" =>
       /\ Success(r.status) /\ r.headers = "valid" /\ ~Exceeds(r)
       /\ found = "result" /\ r.body > 0 /\ ~r.truncated
  /\ o \in Custom /\ v.code = "RESPONSE_TOO_LARGE" =>
       Exceeds(r) \/ r.truncated \/ found = "jsonLimit"
  /\ v.retryable /\ ~r.timeout =>
       /\ responseStatusRetryable(r.status)
       /\ Success(r.status) => ~Exceeds(r) /\ r.headers = "valid"
  /\ \E fault \in Faults :
       v = IF Success(r.status) /\ fault = "none" THEN Verdict("none", "ACCEPTED", FALSE)
           ELSE ResponseVerdict(Response(r.status, fault))

\* The verdicts of the operation's model, by status and fault.
LEMMA ModelVerdict ==
  ASSUME NEW status \in Statuses, NEW fault \in Faults
  PROVE  LET v == ResponseVerdict(Response(status, fault))
         IN /\ fault = "timeout" => v = Verdict("ATTEMPT_TIMEOUT", "POSSIBLY_SENT", TRUE)
            /\ fault \in {"none", "limit"} =>
                 LET retryable == responseStatusRetryable(status) /\ fault # "limit"
                 IN /\ status = "3xx4xx" => v = Verdict("HTTP_REJECTED", "REJECTED", retryable)
                    /\ status = "407" => v = Verdict("PROXY", "NOT_SENT", retryable)
                    /\ status = "429" => v = Verdict("RATE_LIMITED", "REJECTED", retryable)
                    /\ status = "409" => v = Verdict("HTTP_REJECTED", "POSSIBLY_SENT", retryable)
                    /\ status = "5xx" => v = Verdict("SERVER_FAILURE", "POSSIBLY_SENT", retryable)
            /\ status = "2xx" =>
                 /\ fault = "limit" => v = Verdict("RESPONSE_TOO_LARGE", "POSSIBLY_SENT", FALSE)
                 /\ fault = "protocol" => v = Verdict("RESPONSE_PROTOCOL", "POSSIBLY_SENT", FALSE)
                 /\ fault = "invalid" => v = Verdict("RESPONSE_PROTOCOL", "POSSIBLY_SENT", TRUE)
<1> DEFINE q == Response(status, fault)
           retryable == /\ responseStatusRetryable(q.status) /\ q.fault # "limit"
                        /\ q.status = "2xx" => q.fault # "protocol"
           v == ResponseVerdict(q)
<1>1. q.status = status /\ q.fault = fault
  BY DEF Response
<1> HIDE DEF q
<1>2. CASE fault = "timeout"
  BY <1>1, <1>2, Zenon DEF ResponseVerdict, q
<1>3. CASE fault # "timeout" /\ status # "2xx"
  <2>1. retryable = (responseStatusRetryable(status) /\ fault # "limit")
    BY <1>1, <1>3, Zenon
  <2> HIDE DEF retryable
  <2> QED BY <1>3, <2>1, <1>1, Zenon DEF q, ResponseVerdict, retryable
<1>4. CASE fault # "timeout" /\ status = "2xx"
  <2>1. v = Verdict(IF fault = "limit" THEN "RESPONSE_TOO_LARGE" ELSE "RESPONSE_PROTOCOL", "POSSIBLY_SENT", retryable)
    BY <1>1, <1>4, Zenon DEF ResponseVerdict
  <2>2. /\ fault \in {"limit", "protocol"} => retryable = FALSE
        /\ fault = "invalid" => retryable = TRUE
    BY <1>1, <1>4, SMTT(30) DEF responseStatusRetryable
  <2> HIDE DEF retryable, v
  <2> QED BY <1>4, <2>1, <2>2, Zenon DEF q, v
<1> QED BY <1>2, <1>3, <1>4, Zenon

\* A response whose body timed out is judged so whatever its status.
LEMMA TimeoutJudged ==
  ASSUME NEW r \in AttemptResponses, r.timeout, NEW o, NEW found
  PROVE  Judges(Validate(r, found), r, o, found)
<1> DEFINE v == Verdict("ATTEMPT_TIMEOUT", "POSSIBLY_SENT", TRUE)
<1>1. Validate(r, found) = v
  BY Zenon DEF Validate
<1>2. v.code = "ATTEMPT_TIMEOUT"
  BY DEF Verdict
<1>3. ResponseVerdict(Response(r.status, "timeout")) = v
  BY ModelVerdict, ZenonT(30) DEF AttemptResponses, Faults
<1> HIDE DEF v
<1> QED BY <1>1, <1>2, <1>3, Zenon DEF Judges, Faults

\* A status that is no success is judged by itself, and retried unless a violation forbids it.
LEMMA RejectionJudged ==
  ASSUME NEW r \in AttemptResponses, ~r.timeout, ~Success(r.status), NEW o, NEW found
  PROVE  Judges(Validate(r, found), r, o, found)
<1> DEFINE v == Validate(r, found)
           retryable == responseStatusRetryable(r.status) /\ ~r.forbidden
           fault == IF r.forbidden THEN "limit" ELSE "none"
<1>1. r.status \in {"3xx4xx", "407", "429", "409", "5xx"} /\ fault \in {"none", "limit"} /\ fault \in Faults
  BY DEF AttemptResponses, Statuses, Success, Faults
<1>2. retryable = (responseStatusRetryable(r.status) /\ fault # "limit")
  BY Zenon
<1>3. /\ r.status = "3xx4xx" => v = Verdict("HTTP_REJECTED", "REJECTED", retryable)
      /\ r.status = "407" => v = Verdict("PROXY", "NOT_SENT", retryable)
      /\ r.status = "429" => v = Verdict("RATE_LIMITED", "REJECTED", retryable)
      /\ r.status = "409" => v = Verdict("HTTP_REJECTED", "POSSIBLY_SENT", retryable)
      /\ r.status = "5xx" => v = Verdict("SERVER_FAILURE", "POSSIBLY_SENT", retryable)
  BY Zenon DEF Validate
<1>4. retryable => responseStatusRetryable(r.status)
  OBVIOUS
<1> HIDE DEF v, retryable, fault
<1>5. r.status \in Statuses /\ ~Success(r.status)
  BY DEF AttemptResponses, Statuses
<1>6. v.code \notin {"none", "RESPONSE_TOO_LARGE"} /\ v.retryable = retryable
  BY <1>1, <1>3 DEF Verdict
<1>7. v = ResponseVerdict(Response(r.status, fault))
  BY <1>1, <1>2, <1>3, <1>5, ModelVerdict, Zenon
<1> QED BY <1>1, <1>4, <1>5, <1>6, <1>7, Zenon DEF v, Judges

\* A 2xx is a result only when nothing is wrong with it.
LEMMA SuccessJudged ==
  ASSUME NEW r, NEW o, Built(r, o), SeenMarks(r, o), ~r.timeout, Success(r.status),
         NEW found \in Contents
  PROVE  Judges(Validate(r, found), r, o, found)
<1> DEFINE v == Validate(r, found)
           over == r.limit \/ (~r.normalized /\ ~r.protocol /\ responseExceedsLimits(r))
           tooLarge == Verdict("RESPONSE_TOO_LARGE", "POSSIBLY_SENT", FALSE)
           broken == Verdict("RESPONSE_PROTOCOL", "POSSIBLY_SENT", FALSE)
           protocol == Verdict("RESPONSE_PROTOCOL", "POSSIBLY_SENT", TRUE)
           accepted == Verdict("none", "ACCEPTED", FALSE)
           model(fault) == ResponseVerdict(Response(r.status, fault))
<1>1. /\ r \in AttemptResponses /\ r.status = "2xx" /\ r.status \in Statuses
      /\ r.body \in Nat /\ responseStatusRetryable(r.status)
  BY DEF Built, AttemptResponses, Success, responseStatusRetryable
<1>2. /\ tooLarge = model("limit") /\ broken = model("protocol") /\ protocol = model("invalid")
      /\ {"limit", "protocol", "invalid", "none"} \subseteq Faults
  BY <1>1, ModelVerdict, Zenon DEF Faults
<1>3. /\ tooLarge.code = "RESPONSE_TOO_LARGE" /\ ~tooLarge.retryable
      /\ broken.code = "RESPONSE_PROTOCOL" /\ ~broken.retryable
      /\ protocol.code = "RESPONSE_PROTOCOL" /\ accepted.code = "none" /\ ~accepted.retryable
  BY DEF Verdict
<1>4. v = IF over THEN tooLarge ELSE IF r.protocol THEN broken
          ELSE IF r.truncated /\ ~r.incomplete THEN tooLarge
          ELSE IF r.body = 0 \/ found = "other" THEN protocol
          ELSE IF found = "jsonLimit" THEN tooLarge ELSE accepted
  BY Zenon DEF Validate
<1> HIDE DEF v, tooLarge, broken, protocol, accepted, model
<1>5. ~over /\ ~r.protocol => ~Exceeds(r) /\ r.headers = "valid"
  BY <1>1, LimitsAreExact, SMTT(30) DEF SeenMarks, Built
<1>6. o \in Custom /\ over => Exceeds(r)
  BY <1>1, LimitsAreExact, SMTT(30) DEF SeenMarks
<1> HIDE DEF over
<1>7. v.code = "none" =>
        r.headers = "valid" /\ ~Exceeds(r) /\ found = "result" /\ r.body > 0 /\ ~r.truncated
  BY <1>1, <1>5, <1>3, <1>4, SMTT(30) DEF Built, Contents
<1> QED BY <1>1, <1>7, <1>2, <1>4, <1>3, <1>6, <1>5, Zenon DEF v, Judges, model, accepted

\* validateAttemptResponse judges every response that passed the other checks.
LEMMA JudgementStep ==
  ASSUME ResponseInv, validateAttemptResponse
  PROVE  ResponseInv'
<1>1. /\ responsePC = "validate" /\ responsePC' = "judged" /\ content' \in Contents
      /\ judged' = Validate(response, content') /\ response' = response /\ origin' = origin
  BY Zenon DEF validateAttemptResponse
<1>2. Judges(judged', response, origin, content')
  BY <1>1, TimeoutJudged, RejectionJudged, SuccessJudged DEF ResponseInv, Built
<1>3. ResponseIsSound'
  BY <1>1, <1>2, ZenonT(30) DEF ResponseIsSound, Judges
<1> QED BY <1>1, <1>3 DEF ResponseInv, Built

\* However the response of an attempt was built, by NewAttemptResponse, by hand in a custom
\* transport or by the built-in one, validateAttemptResponse takes it for a result only when
\* it is a 2xx within every limit, and it is malformed only when made by hand, or where
\* the built-in transport had not read the clock yet or read it for nothing; for every value
\* of the limits and every length.
THEOREM ResponseSound == ResponseSpec => []ResponseIsSound
<1>1. ResponseInit => ResponseInv
  BY DEF ResponseInit, ResponseInv, ResponseIsSound, Custom
<1>2. ResponseInv /\ [ResponseNext]_responseVars => ResponseInv'
  <2> SUFFICES ASSUME ResponseInv, [ResponseNext]_responseVars PROVE ResponseInv'
    OBVIOUS
  <2>1. CASE Build
    BY <2>1, NewResponseStep, HandMadeStep, BuiltInStep, BrokenHeadStep, EmptyResponseStep, SMTT(30)
       DEF Build
  <2>2. CASE RefuseArguments
    BY <2>2, SMTT(30) DEF RefuseArguments, ResponseInv, ResponseIsSound
  <2>3. CASE UNCHANGED responseVars
    BY <2>3, Zenon DEF responseVars, ResponseInv, ResponseIsSound
  <2> QED BY <2>1, <2>2, <2>3, OperationSnapshotStep, ShapeStep, JudgementStep, Zenon
             DEF ResponseNext
<1>3. ResponseInv => ResponseIsSound
  BY DEF ResponseInv
<1> QED BY <1>1, <1>2, <1>3, PTL DEF ResponseSpec
=============================================================================
