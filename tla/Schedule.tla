------------------------------- MODULE Schedule -------------------------------
(***************************************************************************)
(* schedule.run of loop.go: the retry loop that Do, GetBytes and the       *)
(* RetryRoundTripper share.  One behaviour is one call of run.             *)
(*                                                                         *)
(* The attempt and pause closures belong to the doors, so here an attempt  *)
(* may return any verdict and a pause may last any time; the door modules  *)
(* EXTEND this one and strengthen both.  Time moves by Tick.  A timer may  *)
(* be served up to Lag ticks late (the scheduler, the step from the        *)
(* ceiling check to the armed timer), and the caller's context may end at  *)
(* any moment, before the call too.                                        *)
(***************************************************************************)
EXTENDS Durations

CONSTANTS
  MaxAttempts,   \* schedule.attempts, at least one once normalized
  BaseDelay,     \* schedule.baseDelay, positive once normalized
  MaxElapsed,    \* schedule.maxElapsed; zero means no ceiling
  Waits,         \* the explicit waits an attempt may ask for; only a positive
                 \* one counts
  Lag            \* ticks by which a due timer may be served late

ASSUME ScheduleAssumption ==
  /\ MaxAttempts \in Nat \ {0}
  /\ BaseDelay \in 1 .. MaxDur
  /\ MaxElapsed \in 0 .. MaxDur
  /\ Waits \subseteq Duration
  /\ Lag \in Nat

VARIABLES
  pc,        \* where the loop is
  n,         \* 0-based index of the attempt
  backoff,   \* the exponential base of the next jittered wait
  wait,      \* the wait resolved for the next retry
  timer,     \* ticks left on SleepCtx's timer; below zero once it is due
  elapsed,   \* time since start, held at Horizon
  ctx        \* the caller's context

scheduleVars == <<pc, n, backoff, wait, timer, elapsed, ctx>>

\* The last three are the ways run returns: done, exhausted, or with an error.
Running == {"attempt", "pause", "sleep"}
Returns == {"judged", "exhausted", "stopElapsed", "stopCtx"}

\* No later elapsed time changes what the ceiling decides, or whether an
\* attempt began Lag ticks past it.
Horizon == IF MaxElapsed > 0 THEN MaxElapsed + Lag ELSE 0

ScheduleInit ==
  /\ pc = "attempt"
  /\ n = 0
  /\ backoff = BaseDelay
  /\ wait = 0
  /\ timer = 0
  /\ elapsed = 0
  /\ ctx \in {"live", "ended"}

(***************************************************************************)
(* The loop.                                                               *)
(***************************************************************************)

\* attempt reports done.
AttemptDone ==
  /\ pc = "attempt"
  /\ pc' = "judged"
  /\ UNCHANGED <<n, backoff, wait, timer, elapsed, ctx>>

\* Mutant: the exhaustion test is off by one.
AttemptFailsOneMore(explicit) ==
  /\ pc = "attempt"
  /\ IF n = MaxAttempts
       THEN pc' = "exhausted" /\ UNCHANGED wait
       ELSE pc' = "pause" /\ wait' \in resolveWait(explicit, backoff)
  /\ UNCHANGED <<n, backoff, timer, elapsed, ctx>>

\* attempt asks for another: out of budget, or a wait is resolved for it.
AttemptFails(explicit) ==
  /\ pc = "attempt"
  /\ IF n = MaxAttempts - 1
       THEN pc' = "exhausted" /\ UNCHANGED wait
       ELSE pc' = "pause" /\ wait' \in resolveWait(explicit, backoff)
  /\ UNCHANGED <<n, backoff, timer, elapsed, ctx>>

\* Mutant: a wait that meets the ceiling exactly is let through.
elapsedExceededPast == MaxElapsed > 0 /\ wait > MaxElapsed - elapsed

elapsedExceeded == MaxElapsed > 0 /\ wait >= MaxElapsed - elapsed

StopElapsed ==
  /\ pc = "pause"
  /\ elapsedExceeded
  /\ pc' = "stopElapsed"
  /\ UNCHANGED <<n, backoff, wait, timer, elapsed, ctx>>

NextAttempt ==
  /\ pc' = "attempt"
  /\ n' = n + 1
  /\ backoff' = SafeDouble(backoff)
  /\ timer' = 0
  /\ UNCHANGED <<wait, elapsed, ctx>>

\* SleepCtx with nothing to wait for returns at once, the context unread.
SkipSleep ==
  /\ pc = "pause"
  /\ ~elapsedExceeded
  /\ wait <= 0
  /\ NextAttempt

StartSleep ==
  /\ pc = "pause"
  /\ ~elapsedExceeded
  /\ wait > 0
  /\ pc' = "sleep"
  /\ timer' = wait
  /\ UNCHANGED <<n, backoff, wait, elapsed, ctx>>

\* SleepCtx's select: with the timer due and the context ended, either wins.
TimerFires ==
  /\ pc = "sleep"
  /\ timer <= 0
  /\ NextAttempt

CtxEndsSleep ==
  /\ pc = "sleep"
  /\ ctx = "ended"
  /\ pc' = "stopCtx"
  /\ timer' = 0
  /\ UNCHANGED <<n, backoff, wait, elapsed, ctx>>

(***************************************************************************)
(* The environment: the clock and the caller.                              *)
(***************************************************************************)

Tick ==
  /\ pc \in Running
  /\ pc = "sleep" => timer > -Lag
  /\ elapsed' = IF elapsed < Horizon THEN elapsed + 1 ELSE elapsed
  /\ timer' = IF pc = "sleep" THEN timer - 1 ELSE timer
  /\ UNCHANGED <<pc, n, backoff, wait, ctx>>

EndCtx ==
  /\ pc \in Running
  /\ ctx = "live"
  /\ ctx' = "ended"
  /\ UNCHANGED <<pc, n, backoff, wait, timer, elapsed>>

\* run has returned: nothing moves any more.
Returned == pc \in Returns /\ UNCHANGED scheduleVars

Between == StopElapsed \/ SkipSleep \/ StartSleep \/ TimerFires \/ CtxEndsSleep

ScheduleNext ==
  \/ AttemptDone
  \/ \E explicit \in Waits : AttemptFails(explicit)
  \/ Between
  \/ Tick
  \/ EndCtx
  \/ Returned

(***************************************************************************)
(* Every attempt returns (the doors pass it a context to honor), the       *)
(* goroutine is scheduled, and time passes.  The caller owes nothing.      *)
(***************************************************************************)
ScheduleFairness ==
  /\ WF_scheduleVars(AttemptDone \/ \E explicit \in Waits : AttemptFails(explicit))
  /\ WF_scheduleVars(Between)
  /\ WF_scheduleVars(Tick)

ScheduleSafety == ScheduleInit /\ [][ScheduleNext]_scheduleVars

ScheduleSpec == ScheduleSafety /\ ScheduleFairness

(***************************************************************************)
(* Properties.                                                             *)
(***************************************************************************)

\* Type invariant of run's locals, the sleep's timer and the caller's context.
ScheduleTypeOK ==
  /\ pc \in Running \cup Returns
  /\ n \in 0 .. MaxAttempts - 1
  /\ backoff \in 1 .. MaxDur
  /\ wait \in 0 .. MaxDur
  /\ timer \in -Lag .. MaxDur
  /\ elapsed \in 0 .. Horizon
  /\ ctx \in {"live", "ended"}

\* The base of the k-th retry were durations unbounded: BaseDelay * 2^k.
Exponential[k \in 0 .. MaxAttempts - 1] ==
  IF k = 0 THEN BaseDelay ELSE 2 * Exponential[k - 1]

\* The base advances on every retry, those that waited an explicit time
\* included, and saturates at the widest duration instead of wrapping.
BackoffIsExponential ==
  backoff = IF Exponential[n] > MaxDur THEN MaxDur ELSE Exponential[n]

\* A resolved wait is an explicit one or within half the backoff and all of it,
\* so past a backoff of one nanosecond no retry skips its sleep: the loop never
\* spins, not even when the base has saturated.
WaitInRange ==
  pc \in {"pause", "sleep"} =>
    /\ (wait \in Waits /\ wait > 0) \/ (backoff \div 2 <= wait /\ wait <= backoff)
    /\ backoff > 1 => wait > 0

\* An armed sleep ends strictly before the elapsed ceiling, whatever time the
\* attempts and the pause hooks took.
SleepFitsBudget ==
  pc = "sleep" /\ MaxElapsed > 0 => elapsed + timer < MaxElapsed

\* The inductive invariant: a wait is only for a retry the budget still has,
\* and the base never falls below its first value.
ScheduleInv ==
  /\ ScheduleTypeOK
  /\ pc \in {"pause", "sleep"} => n < MaxAttempts - 1
  /\ backoff >= BaseDelay
  /\ WaitInRange
  /\ SleepFitsBudget

\* With a ceiling set, a retry begins before it, up to the scheduler's lag:
\* neither a long attempt nor a slow pause hook lets one begin past it.
RetryBeforeCeiling ==
  [][pc # "attempt" /\ pc' = "attempt" /\ MaxElapsed > 0
       => elapsed < MaxElapsed + Lag]_scheduleVars

Promise == INSTANCE BoundedRetry WITH
  made  <- n + 1,
  phase <- IF pc \in {"pause", "sleep"} THEN "between"
           ELSE IF pc \in {"stopElapsed", "stopCtx"} THEN "gaveUp"
           ELSE pc

\* The loop implements the bounded-retry promise: the budget counts every
\* attempt, exhaustion is reported after the last one and only then, and every
\* call returns.
KeepsPromise == Promise!Spec

\* Its safety half, every step a step of the promise or a stutter.
KeepsPromiseSafety == Promise!Init /\ [][Promise!Next]_(Promise!vars)

==============================================================================
