----------------------------- MODULE ManualTime -----------------------------
(***************************************************************************)
(* The test kit's time: ManualClock and ManualScheduler                    *)
(* (reposttest/manual.go), with concurrent calls of Sleep, Advance and     *)
(* AwaitSleepCount.                                                        *)
(*                                                                         *)
(* The clock and the scheduler have a mutex each.  Sleep reads the clock   *)
(* while it holds the scheduler's; Advance moves the clock and then, with  *)
(* neither held in between, releases the sleepers that are due.            *)
(***************************************************************************)
EXTENDS Naturals, FiniteSets

CONSTANTS
  Sleepers, Advancers, Counters,  \* calls of Sleep, of Advance, of AwaitSleepCount
  Durations,                      \* what Sleep and Advance are called with
  Nobody                          \* holds the scheduler's mutex when it is free

ASSUME ManualTimeAssumption ==
  /\ IsFiniteSet(Sleepers) /\ Cardinality(Sleepers) \in Nat
  /\ Durations \subseteq Nat /\ Nobody \notin Sleepers

VARIABLES
  elapsed,                        \* clock.elapsed
  holder,                         \* who is in Sleep's section under scheduler.mu
  sleepPC, asked, due,            \* each Sleep: where it is, its duration, waiter.due
  waiters, slept,                 \* scheduler.waiters by sleeper; len(scheduler.sleeps)
  signals,                        \* how often scheduler.changed was closed
  advancePC, advanceTo,           \* each Advance: where it is, its now
  countPC, countTo, seen          \* each AwaitSleepCount: where it is, its count, and
                                  \* signals when it took scheduler.changed

sleepVars   == <<holder, sleepPC, asked, due, waiters, slept, signals>>
advanceVars == <<elapsed, advancePC, advanceTo>>
countVars   == <<countPC, countTo, seen>>
timeVars == <<sleepVars, advanceVars, countVars>>

SleepPCs == {"idle", "locked", "read", "waiting", "released", "removing", "slept", "cancelled"}

TimeTypeOK ==
  /\ elapsed \in Nat /\ holder \in Sleepers \cup {Nobody}
  /\ sleepPC \in [Sleepers -> SleepPCs]
  /\ asked \in [Sleepers -> Nat] /\ due \in [Sleepers -> Nat]
  /\ waiters \subseteq Sleepers /\ slept \in Nat /\ signals \in Nat
  /\ advancePC \in [Advancers -> {"idle", "release", "done"}] /\ advanceTo \in [Advancers -> Nat]
  /\ countPC \in [Counters -> {"idle", "check", "wait", "done", "cancelled"}]
  /\ countTo \in [Counters -> Nat] /\ seen \in [Counters -> Nat]

TimeInit ==
  /\ elapsed = 0 /\ holder = Nobody
  /\ sleepPC = [s \in Sleepers |-> "idle"] /\ asked = [s \in Sleepers |-> 0]
  /\ due = [s \in Sleepers |-> 0] /\ waiters = {} /\ slept = 0 /\ signals = 0
  /\ advancePC = [a \in Advancers |-> "idle"] /\ advanceTo = [a \in Advancers |-> 0]
  /\ countPC = [c \in Counters |-> "idle"] /\ countTo = [c \in Counters |-> 0]
  /\ seen = [c \in Counters |-> 0]
-----------------------------------------------------------------------------
(* Sleep                                                                   *)

\* Seeded fault: the clock is read before the mutex is taken.
LockAfterReading(s, duration) ==
  /\ sleepPC[s] = "idle"
  /\ asked' = [asked EXCEPT ![s] = duration] /\ due' = [due EXCEPT ![s] = elapsed + duration]
  /\ sleepPC' = [sleepPC EXCEPT ![s] = "read"]
  /\ UNCHANGED <<holder, waiters, slept, signals, advanceVars, countVars>>

LockScheduler(s, duration) ==
  /\ sleepPC[s] = "idle" /\ holder = Nobody
  /\ holder' = s /\ asked' = [asked EXCEPT ![s] = duration]
  /\ sleepPC' = [sleepPC EXCEPT ![s] = "locked"]
  /\ UNCHANGED <<due, waiters, slept, signals, advanceVars, countVars>>

ReadClock(s) ==
  /\ sleepPC[s] = "locked"
  /\ due' = [due EXCEPT ![s] = elapsed + asked[s]]
  /\ sleepPC' = [sleepPC EXCEPT ![s] = "read"]
  /\ UNCHANGED <<holder, asked, waiters, slept, signals, advanceVars, countVars>>

\* Seeded fault: a sleep of zero is counted without a signal.
RegisterSilently(s) ==
  /\ sleepPC[s] = "read"
  /\ holder' = Nobody /\ slept' = slept + 1
  /\ IF asked[s] = 0
     THEN sleepPC' = [sleepPC EXCEPT ![s] = "slept"] /\ UNCHANGED <<waiters, signals>>
     ELSE /\ sleepPC' = [sleepPC EXCEPT ![s] = "waiting"] /\ waiters' = waiters \cup {s}
          /\ signals' = signals + 1
  /\ UNCHANGED <<asked, due, advanceVars, countVars>>

\* The sleep is counted, and its waiter registered unless there is nothing to wait for.
Register(s) ==
  /\ sleepPC[s] = "read"
  /\ holder' = Nobody /\ slept' = slept + 1 /\ signals' = signals + 1
  /\ IF asked[s] = 0
     THEN sleepPC' = [sleepPC EXCEPT ![s] = "slept"] /\ UNCHANGED waiters
     ELSE sleepPC' = [sleepPC EXCEPT ![s] = "waiting"] /\ waiters' = waiters \cup {s}
  /\ UNCHANGED <<asked, due, advanceVars, countVars>>

EndSleep(s) ==
  /\ sleepPC[s] = "released"
  /\ sleepPC' = [sleepPC EXCEPT ![s] = "slept"]
  /\ UNCHANGED <<holder, asked, due, waiters, slept, signals, advanceVars, countVars>>

\* ctx.Done() wins the select, perhaps against a channel that is closed by now.
CancelSleep(s) ==
  /\ sleepPC[s] \in {"waiting", "released"}
  /\ sleepPC' = [sleepPC EXCEPT ![s] = "removing"]
  /\ UNCHANGED <<holder, asked, due, waiters, slept, signals, advanceVars, countVars>>

RemoveWaiter(s) ==
  /\ sleepPC[s] = "removing" /\ holder = Nobody
  /\ waiters' = waiters \ {s}
  /\ sleepPC' = [sleepPC EXCEPT ![s] = "cancelled"]
  /\ UNCHANGED <<holder, asked, due, slept, signals, advanceVars, countVars>>
-----------------------------------------------------------------------------
(* Advance                                                                 *)

Advance(a, duration) ==
  /\ advancePC[a] = "idle"
  /\ elapsed' = elapsed + duration /\ advanceTo' = [advanceTo EXCEPT ![a] = elapsed + duration]
  /\ advancePC' = [advancePC EXCEPT ![a] = "release"]
  /\ UNCHANGED <<sleepVars, countVars>>

\* release: the waiters that are due leave the list, and their channels are closed.
Release(a) ==
  /\ advancePC[a] = "release" /\ holder = Nobody
  /\ LET gone == {s \in waiters : due[s] <= advanceTo[a]}
     IN /\ waiters' = waiters \ gone
        /\ sleepPC' = [s \in Sleepers |-> IF s \in gone /\ sleepPC[s] = "waiting" THEN "released"
                                          ELSE sleepPC[s]]
  /\ advancePC' = [advancePC EXCEPT ![a] = "done"]
  /\ UNCHANGED <<holder, asked, due, slept, signals, elapsed, advanceTo, countVars>>
-----------------------------------------------------------------------------
(* AwaitSleepCount                                                         *)

AwaitSleepCount(c, count) ==
  /\ countPC[c] = "idle"
  /\ countPC' = [countPC EXCEPT ![c] = "check"] /\ countTo' = [countTo EXCEPT ![c] = count]
  /\ UNCHANGED <<seen, sleepVars, advanceVars>>

CheckCount(c) ==
  /\ countPC[c] = "check" /\ holder = Nobody
  /\ countPC' = [countPC EXCEPT ![c] = IF slept >= countTo[c] THEN "done" ELSE "wait"]
  /\ seen' = [seen EXCEPT ![c] = signals]
  /\ UNCHANGED <<countTo, sleepVars, advanceVars>>

CountChanged(c) ==
  /\ countPC[c] = "wait" /\ seen[c] # signals
  /\ countPC' = [countPC EXCEPT ![c] = "check"]
  /\ UNCHANGED <<countTo, seen, sleepVars, advanceVars>>

CancelCount(c) ==
  /\ countPC[c] = "wait"
  /\ countPC' = [countPC EXCEPT ![c] = "cancelled"]
  /\ UNCHANGED <<countTo, seen, sleepVars, advanceVars>>
-----------------------------------------------------------------------------
\* Steps of goroutines that are running, as opposed to new calls and cancellations.
TimeStep ==
  \/ \E s \in Sleepers : ReadClock(s) \/ Register(s) \/ EndSleep(s) \/ RemoveWaiter(s)
  \/ \E a \in Advancers : Release(a)
  \/ \E c \in Counters : CheckCount(c) \/ CountChanged(c)

TimeNext ==
  \/ TimeStep
  \/ \E s \in Sleepers : CancelSleep(s) \/ \E d \in Durations : LockScheduler(s, d)
  \/ \E a \in Advancers, d \in Durations : Advance(a, d)
  \/ \E c \in Counters : CancelCount(c) \/ AwaitSleepCount(c, Cardinality(Sleepers))

TimeSpec == TimeInit /\ [][TimeNext]_timeVars
-----------------------------------------------------------------------------
(* Properties                                                              *)

Advancing(a) == advancePC[a] = "release"

\* No sleeper wakes early, and none is forgotten: while the clock says that a registered
\* sleep is over, an Advance that will release it is still on its way.  For that, Sleep
\* must read the clock under the scheduler's mutex, and Advance move it before it takes
\* the mutex.
SleepersAreExact ==
  /\ TimeTypeOK
  /\ \A s \in Sleepers : sleepPC[s] \in {"released", "slept"} => due[s] <= elapsed
  /\ \A s \in waiters : due[s] <= elapsed => \E a \in Advancers : Advancing(a) /\ due[s] <= advanceTo[a]
  /\ \A s \in Sleepers : sleepPC[s] = "waiting" => s \in waiters

\* A sleep whose time has come returns, and so does a call that waits for a number of
\* sleeps that has been reached: neither misses the signal it waits for.
SleepReturns ==
  /\ \A s \in Sleepers : (sleepPC[s] = "waiting" /\ due[s] <= elapsed) ~> sleepPC[s] \in {"slept", "cancelled"}
  /\ \A c \in Counters : (countPC[c] = "wait" /\ slept >= countTo[c]) ~> countPC[c] \in {"done", "cancelled"}
=============================================================================
