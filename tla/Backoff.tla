------------------------------ MODULE Backoff ------------------------------
(***************************************************************************)
(* How long Runtime.backoff sleeps before the next attempt (operation.go): *)
(* the cap doubles with every attempt, the entropy picks a delay below it, *)
(* and a Retry-After may ask for more.  Operation has the rest of backoff. *)
(*                                                                         *)
(* Times are in milliseconds, but for the time that remains, which is      *)
(* measured in nanoseconds, and integers overflow at IntBound.             *)
(***************************************************************************)
EXTENDS Integers, FiniteSetsExt

CONSTANTS
  IntBound,              \* 2^63
  Millisecond,           \* in nanoseconds
  RetryAfterCap,         \* retryAfterCap
  Delays,                \* values of the configured delays and of Retry-After
  Remainings,            \* values of the time that remains, in nanoseconds
  MaxAttempt             \* bounds the number of the attempt

ASSUME BackoffAssumption ==
  /\ IntBound \in Nat /\ Millisecond \in 2..IntBound /\ RetryAfterCap \in Nat
  /\ Delays \subseteq 0..(IntBound - 1) /\ Remainings \subseteq (-IntBound)..(IntBound - 1)
  /\ MaxAttempt \in Nat \ {0}

\* What DelayIsRight rests on that the provers do not know: what a power of two is.
ASSUME PowersOfTwo ==
  /\ 2^0 = 1
  /\ \A n \in 0..MaxAttempt : 2^n \in Nat /\ 2^(n + 1) = 2 * 2^n
  /\ \A m, n \in 0..MaxAttempt : m <= n => 2^m <= 2^n

VARIABLES
  backoffPC,             \* "idle", "loop", "entropy", "delay", "sleep", "failed"
  retryBase, retryMax,   \* config.retryBaseDelay and retryMaxDelay
  attemptNumber,         \* of the attempt that failed
  remainingNanos, remainingMillis,
  iterations,            \* of the loop that are left
  capMillis, retryAfter, delayMillis

backoffVars == <<backoffPC, retryBase, retryMax, attemptNumber, remainingNanos, remainingMillis,
                 iterations, capMillis, retryAfter, delayMillis>>
inputVars == <<retryBase, retryMax, attemptNumber, remainingNanos, remainingMillis>>

BackoffInit ==
  /\ backoffPC = "idle" /\ retryBase = 0 /\ retryMax = 0 /\ attemptNumber = 1
  /\ remainingNanos = 0 /\ remainingMillis = 0 /\ iterations = 0 /\ capMillis = 0
  /\ retryAfter = 0 /\ delayMillis = 0
-----------------------------------------------------------------------------
\* The sum of two int64 that are not negative.
Wrapped(n) == IF n >= IntBound THEN n - 2 * IntBound ELSE n

\* Nothing keeps a configured base delay below the default maximum, or the other way
\* round: snapshotConfig compares them if both are given.
BeginBackoff(base, maximum, number, nanos) ==
  /\ backoffPC = "idle"
  /\ retryBase' = base /\ retryMax' = maximum /\ attemptNumber' = number
  /\ remainingNanos' = nanos /\ remainingMillis' = IF nanos <= 0 THEN 0 ELSE nanos \div Millisecond
  /\ backoffPC' = IF remainingMillis' <= 0 THEN "failed" ELSE "loop"
  /\ capMillis' = base /\ iterations' = number - 1
  /\ UNCHANGED <<retryAfter, delayMillis>>

\* Seeded fault: the cap is compared after it was doubled.
DoubleFirst ==
  /\ backoffPC = "loop" /\ iterations > 0
  /\ capMillis' = Wrapped(2 * capMillis) /\ iterations' = iterations - 1
  /\ UNCHANGED <<backoffPC, inputVars, retryAfter, delayMillis>>

DoubleCap ==
  /\ backoffPC = "loop" /\ iterations > 0
  /\ IF capMillis > retryMax - capMillis
     THEN capMillis' = retryMax /\ iterations' = 0
     ELSE capMillis' = Wrapped(2 * capMillis) /\ iterations' = iterations - 1
  /\ UNCHANGED <<backoffPC, inputVars, retryAfter, delayMillis>>

BoundCap ==
  /\ backoffPC = "loop" /\ iterations = 0
  /\ capMillis' = Min({capMillis, retryMax, remainingMillis})
  /\ backoffPC' = "entropy"
  /\ UNCHANGED <<inputVars, iterations, retryAfter, delayMillis>>

\* sampleRetryEntropy: a value outside of its bound, or a panic, is an error.
SampleJitter(value) ==
  /\ backoffPC = "entropy"
  /\ IF value >= 0 /\ value < Wrapped(capMillis + 1)
     THEN backoffPC' = "delay" /\ delayMillis' = value
     ELSE backoffPC' = "failed" /\ UNCHANGED delayMillis
  /\ UNCHANGED <<inputVars, iterations, capMillis, retryAfter>>

\* Zero: there is no Retry-After, or no valid one.
ApplyRetryAfter(after) ==
  /\ backoffPC = "delay"
  /\ retryAfter' = after
  /\ delayMillis' = IF after = 0 THEN delayMillis
                    ELSE Max({delayMillis, Min({after, RetryAfterCap, remainingMillis})})
  /\ backoffPC' = "sleep"
  /\ UNCHANGED <<inputVars, iterations, capMillis>>

BackoffNext ==
  \/ \E base \in Delays, maximum \in Delays, number \in 1..MaxAttempt, nanos \in Remainings :
       BeginBackoff(base, maximum, number, nanos)
  \/ DoubleCap \/ BoundCap
  \/ \E value \in -1..(IntBound - 1) : SampleJitter(value)
  \/ \E after \in Delays : ApplyRetryAfter(after)

BackoffSpec == BackoffInit /\ [][BackoffNext]_backoffVars
-----------------------------------------------------------------------------
(* Properties                                                              *)

\* The cap is min(base * 2^(attempt - 1), maximum, remaining), whatever the numbers and
\* however often it doubles, and the delay that backoff sleeps neither exceeds it without
\* a Retry-After nor lasts beyond the operation's deadline.
DelayIsRight ==
  /\ backoffPC \in {"entropy", "delay", "sleep"} =>
       capMillis = Min({retryBase * 2^(attemptNumber - 1), retryMax, remainingMillis})
  /\ backoffPC = "sleep" =>
       /\ delayMillis \in 0..Max({capMillis, Min({retryAfter, RetryAfterCap})})
       /\ delayMillis * Millisecond <= remainingNanos
       /\ delayMillis >= Min({retryAfter, RetryAfterCap, remainingMillis})

\* What DelayIsRight rests on: no value overflows, and each bound holds once it is applied.
DelayFits ==
  /\ capMillis \in 0..(IntBound - 1) /\ retryMax \in 0..(IntBound - 1)
  /\ backoffPC \in {"loop", "entropy", "delay", "sleep"} =>
       remainingMillis \in 1..(IntBound - 2) /\ remainingMillis * Millisecond <= remainingNanos
  /\ backoffPC \in {"entropy", "delay", "sleep"} => capMillis <= retryMax /\ capMillis <= remainingMillis
  /\ backoffPC = "delay" => delayMillis \in 0..capMillis
  /\ backoffPC = "sleep" => delayMillis \in 0..remainingMillis
=============================================================================
