---------------------------- MODULE ScheduleProofs ----------------------------
(***************************************************************************)
(* Schedule.tla's safety, for every budget, delay, ceiling, set of         *)
(* explicit waits and scheduling lag.  No theorem uses fairness.           *)
(***************************************************************************)
EXTENDS Schedule, OperatorProofs

USE DEF Duration

(***************************************************************************)
(* Duration arithmetic.                                                    *)
(***************************************************************************)

\* Doubling a positive duration saturates at the widest one and never wraps.
LEMMA SafeDoubleSaturates ==
  ASSUME NEW d \in 1 .. MaxDur
  PROVE  /\ SafeDouble(d) = IF 2 * d > MaxDur THEN MaxDur ELSE 2 * d
         /\ SafeDouble(d) \in d .. MaxDur
BY DurationsAssumption DEF SafeDouble, Wrap

\* A wait drawn from a positive backoff lies between its half and all of it.
LEMMA JitterRange ==
  ASSUME NEW b \in 1 .. MaxDur, NEW w \in JitteredBackoff(b)
  PROVE  /\ w \in 0 .. MaxDur
         /\ b \div 2 <= w /\ w <= b
         /\ b > 1 => w > 0
BY DurationsAssumption DEF JitteredBackoff

\* A positive explicit wait is taken as it is, any other is ignored.
LEMMA ResolveWaitRange ==
  ASSUME NEW b \in 1 .. MaxDur, NEW e \in Waits, NEW w \in resolveWait(e, b)
  PROVE  /\ w \in 0 .. MaxDur
         /\ (w \in Waits /\ w > 0) \/ (b \div 2 <= w /\ w <= b)
         /\ b > 1 => w > 0
<1>1. CASE e > 0
  BY <1>1, ScheduleAssumption, DurationsAssumption DEF resolveWait
<1>2. CASE ~(e > 0)
  <2>1. w \in JitteredBackoff(b)
    BY <1>2 DEF resolveWait
  <2> QED BY <2>1, JitterRange
<1> QED BY <1>1, <1>2

(***************************************************************************)
(* The inductive invariant.                                                *)
(***************************************************************************)

\* Beginning the next attempt keeps it while the budget has one.
LEMMA NextAttemptKeepsInv ==
  ASSUME ScheduleInv, NextAttempt, n < MaxAttempts - 1
  PROVE  ScheduleInv'
<1> USE ScheduleAssumption, DurationsAssumption DEF Running, Returns
<1>1. backoff \in 1 .. MaxDur /\ backoff >= BaseDelay
  BY DEF ScheduleInv, ScheduleTypeOK
<1>2. SafeDouble(backoff) \in backoff .. MaxDur
  BY <1>1, SafeDoubleSaturates
<1>3. ScheduleTypeOK'
  BY <1>1, <1>2 DEF ScheduleInv, ScheduleTypeOK, NextAttempt, Horizon
<1>4. (backoff >= BaseDelay)'
  BY <1>1, <1>2 DEF NextAttempt
<1>5. WaitInRange' /\ SleepFitsBudget' /\ (pc \notin {"pause", "sleep"})'
  BY DEF NextAttempt, WaitInRange, SleepFitsBudget
<1> QED BY <1>3, <1>4, <1>5 DEF ScheduleInv

\* A failed attempt keeps it: the wait is in range, and only within the budget.
LEMMA AttemptFailsKeepsInv ==
  ASSUME ScheduleInv, NEW explicit \in Waits, AttemptFails(explicit)
  PROVE  ScheduleInv'
<1> USE ScheduleAssumption, DurationsAssumption DEF Running, Returns
<1>1. backoff \in 1 .. MaxDur /\ backoff >= BaseDelay /\ n \in 0 .. MaxAttempts - 1
  BY DEF ScheduleInv, ScheduleTypeOK
<1>2. CASE n = MaxAttempts - 1
  BY <1>2 DEF AttemptFails, ScheduleInv, ScheduleTypeOK, WaitInRange,
              SleepFitsBudget, Horizon
<1>3. CASE n # MaxAttempts - 1
  <2>1. wait' \in resolveWait(explicit, backoff) /\ pc' = "pause"
    BY <1>3 DEF AttemptFails
  <2>2. /\ wait' \in 0 .. MaxDur
        /\ (wait' \in Waits /\ wait' > 0) \/ (backoff \div 2 <= wait' /\ wait' <= backoff)
        /\ backoff > 1 => wait' > 0
    BY <1>1, <2>1, ResolveWaitRange
  <2>3. UNCHANGED <<n, backoff, timer, elapsed, ctx>>
    BY DEF AttemptFails
  <2>4. ScheduleTypeOK'
    BY <2>1, <2>2, <2>3 DEF ScheduleInv, ScheduleTypeOK, Horizon
  <2>5. WaitInRange'
    BY <1>1, <2>2, <2>3 DEF WaitInRange
  <2>6. SleepFitsBudget' /\ (n < MaxAttempts - 1)'
    BY <1>1, <1>3, <2>1, <2>3 DEF SleepFitsBudget
  <2> QED BY <1>1, <2>3, <2>4, <2>5, <2>6 DEF ScheduleInv
<1> QED BY <1>2, <1>3

\* The loop starts in it.
LEMMA ScheduleInvInit == ScheduleInit => ScheduleInv
BY ScheduleAssumption, DurationsAssumption
   DEF ScheduleInit, ScheduleInv, ScheduleTypeOK, WaitInRange, SleepFitsBudget,
       Horizon, Running

\* Every step of the loop keeps it.
LEMMA ScheduleInvStep == ScheduleInv /\ [ScheduleNext]_scheduleVars => ScheduleInv'
<1> USE ScheduleAssumption, DurationsAssumption DEF Running, Returns
<1> SUFFICES ASSUME ScheduleInv, [ScheduleNext]_scheduleVars
             PROVE  ScheduleInv'
  OBVIOUS
<1> USE DEF ScheduleInv, ScheduleTypeOK, WaitInRange, SleepFitsBudget, Horizon
<1>1. CASE AttemptDone
  BY <1>1 DEF AttemptDone
<1>2. ASSUME NEW explicit \in Waits, AttemptFails(explicit)  PROVE ScheduleInv'
  BY <1>2, AttemptFailsKeepsInv
<1>3. CASE StopElapsed
  BY <1>3 DEF StopElapsed
<1>4. CASE SkipSleep
  BY <1>4, NextAttemptKeepsInv DEF SkipSleep
<1>5. CASE StartSleep
  BY <1>5 DEF StartSleep, elapsedExceeded
<1>6. CASE TimerFires
  BY <1>6, NextAttemptKeepsInv DEF TimerFires
<1>7. CASE CtxEndsSleep
  BY <1>7 DEF CtxEndsSleep
<1>8. CASE Tick
  BY <1>8 DEF Tick
<1>9. CASE EndCtx
  BY <1>9 DEF EndCtx
<1>10. CASE UNCHANGED scheduleVars
  BY <1>10 DEF scheduleVars
<1> QED BY <1>1, <1>2, <1>3, <1>4, <1>5, <1>6, <1>7, <1>8, <1>9, <1>10
        DEF ScheduleNext, Between, Returned

\* It holds of every behaviour of the loop, on any fairness or none.
THEOREM InductiveInvariant == ScheduleSafety => []ScheduleInv
BY ScheduleInvInit, ScheduleInvStep, PTL DEF ScheduleSafety

(***************************************************************************)
(* What follows from it.                                                   *)
(***************************************************************************)

\* Every reachable state has the types of the Go locals: the index stays below
\* the budget and no duration leaves its width.
THEOREM Typing == ScheduleSafety => []ScheduleTypeOK
<1>1. ScheduleInv => ScheduleTypeOK
  BY DEF ScheduleInv
<1> QED BY <1>1, InductiveInvariant, PTL

\* The exponential is what its recursion says.
LEMMA ExponentialDoubles ==
  /\ Exponential \in [0 .. MaxAttempts - 1 -> Nat]
  /\ Exponential[0] = BaseDelay
  /\ \A k \in 1 .. MaxAttempts - 1 : Exponential[k] = 2 * Exponential[k - 1]
<1> DEFINE N   == MaxAttempts - 1
           two == 2
<1>1. N \in Nat /\ BaseDelay \in Nat /\ two \in Nat
  BY ScheduleAssumption
<1>2. DefinedGeometric(Exponential, N, BaseDelay, two)
  BY DEF Exponential, DefinedGeometric
<1> HIDE DEF N, two
<1>3. /\ Exponential \in [0 .. N -> Nat]
      /\ Exponential[0] = BaseDelay
      /\ \A k \in 1 .. N : Exponential[k] = two * Exponential[k - 1]
  BY <1>1, <1>2, GeometricRecursion
<1> QED BY <1>3 DEF N, two

\* Every retry doubles the base, whatever it waited, until the widest duration.
THEOREM BackoffDoubles == ScheduleSafety => []BackoffIsExponential
<1> USE ScheduleAssumption, DurationsAssumption
<1>1. ScheduleInit => BackoffIsExponential
  BY ExponentialDoubles DEF ScheduleInit, BackoffIsExponential
<1>2. ASSUME ScheduleInv, BackoffIsExponential, NextAttempt, n < MaxAttempts - 1
      PROVE  BackoffIsExponential'
  <2>1. /\ backoff \in 1 .. MaxDur /\ n \in 0 .. MaxAttempts - 1
        /\ n + 1 \in 1 .. MaxAttempts - 1
    BY <1>2 DEF ScheduleInv, ScheduleTypeOK
  <2>2. Exponential[n + 1] = 2 * Exponential[n] /\ Exponential[n] \in Nat
    BY <2>1, ExponentialDoubles
  <2>3. SafeDouble(backoff) = IF 2 * backoff > MaxDur THEN MaxDur ELSE 2 * backoff
    BY <2>1, SafeDoubleSaturates
  <2>4. n' = n + 1 /\ backoff' = SafeDouble(backoff)
    BY <1>2 DEF NextAttempt
  <2> QED BY <1>2, <2>1, <2>2, <2>3, <2>4 DEF BackoffIsExponential
<1>3. ScheduleInv /\ BackoffIsExponential /\ [ScheduleNext]_scheduleVars => BackoffIsExponential'
  <2> SUFFICES ASSUME ScheduleInv, BackoffIsExponential, [ScheduleNext]_scheduleVars
               PROVE  BackoffIsExponential'
    OBVIOUS
  <2>1. CASE SkipSleep \/ TimerFires
    BY <1>2, <2>1 DEF SkipSleep, TimerFires, ScheduleInv
  <2>2. CASE UNCHANGED <<n, backoff>>
    BY <2>2 DEF BackoffIsExponential
  <2>3. SkipSleep \/ TimerFires \/ UNCHANGED <<n, backoff>>
    BY DEF ScheduleNext, Between, Returned, AttemptDone, AttemptFails, StopElapsed,
           StartSleep, CtxEndsSleep, Tick, EndCtx, scheduleVars
  <2> QED BY <2>1, <2>2, <2>3
<1> QED BY <1>1, <1>3, InductiveInvariant, PTL DEF ScheduleSafety

\* Every wait is an explicit one or an equal jitter of the base, and past a
\* backoff of one nanosecond never empty: the loop cannot spin.
THEOREM WaitsInRange == ScheduleSafety => []WaitInRange
<1>1. ScheduleInv => WaitInRange
  BY DEF ScheduleInv
<1> QED BY <1>1, InductiveInvariant, PTL

\* No sleep is armed past the elapsed ceiling.
THEOREM SleepsFitBudget == ScheduleSafety => []SleepFitsBudget
<1>1. ScheduleInv => SleepFitsBudget
  BY DEF ScheduleInv
<1> QED BY <1>1, InductiveInvariant, PTL

\* With a ceiling set, every retry begins before it, up to the scheduling lag.
THEOREM RetriesBeforeCeiling == ScheduleSafety => RetryBeforeCeiling
<1> USE ScheduleAssumption, DurationsAssumption DEF Running, Returns
<1>1. ScheduleInv /\ [ScheduleNext]_scheduleVars =>
        [pc # "attempt" /\ pc' = "attempt" /\ MaxElapsed > 0
           => elapsed < MaxElapsed + Lag]_scheduleVars
  <2> SUFFICES ASSUME ScheduleInv, ScheduleNext, pc # "attempt", pc' = "attempt",
                      MaxElapsed > 0
               PROVE  elapsed < MaxElapsed + Lag
    OBVIOUS
  <2>1. wait \in 0 .. MaxDur /\ timer \in -Lag .. MaxDur /\ elapsed \in 0 .. Horizon
    BY DEF ScheduleInv, ScheduleTypeOK
  <2>2. CASE SkipSleep
    BY <2>1, <2>2 DEF SkipSleep, elapsedExceeded, Horizon
  <2>3. CASE TimerFires
    BY <2>1, <2>3 DEF TimerFires, ScheduleInv, SleepFitsBudget, Horizon
  <2>4. SkipSleep \/ TimerFires
    BY DEF ScheduleNext, Between, AttemptDone, AttemptFails, StopElapsed, StartSleep,
           CtxEndsSleep, Tick, EndCtx, Returned, scheduleVars
  <2> QED BY <2>2, <2>3, <2>4
<1> QED BY <1>1, InductiveInvariant, PTL DEF ScheduleSafety, RetryBeforeCeiling

\* The loop implements the bounded-retry promise: its first state is the
\* promise's, and each of its steps is one of the promise's or a stutter.
THEOREM ImplementsPromise == ScheduleSafety => KeepsPromiseSafety
<1> USE ScheduleAssumption DEF Running, Returns
<1>1. ScheduleInit => Promise!Init
  BY DEF ScheduleInit, Promise!Init
<1>2. ScheduleInv /\ [ScheduleNext]_scheduleVars => [Promise!Next]_(Promise!vars)
  <2> SUFFICES ASSUME ScheduleInv, [ScheduleNext]_scheduleVars
               PROVE  [Promise!Next]_(Promise!vars)
    OBVIOUS
  <2>0. pc \in Running \cup Returns /\ n \in 0 .. MaxAttempts - 1
    BY DEF ScheduleInv, ScheduleTypeOK
  <2> USE <2>0 DEF Promise!Next, Promise!vars
  <2>1. CASE AttemptDone
    BY <2>1 DEF AttemptDone, Promise!Conclude
  <2>2. ASSUME NEW explicit \in Waits, AttemptFails(explicit)
        PROVE  [Promise!Next]_(Promise!vars)
    BY <2>2 DEF AttemptFails, Promise!Fail
  <2>3. CASE StopElapsed
    BY <2>3 DEF StopElapsed, Promise!GiveUp
  <2>4. CASE SkipSleep
    BY <2>4 DEF SkipSleep, NextAttempt, Promise!Retry
  <2>5. CASE StartSleep
    BY <2>5 DEF StartSleep
  <2>6. CASE TimerFires
    BY <2>6 DEF TimerFires, NextAttempt, Promise!Retry
  <2>7. CASE CtxEndsSleep
    BY <2>7 DEF CtxEndsSleep, Promise!GiveUp
  <2>8. CASE Tick
    BY <2>8 DEF Tick
  <2>9. CASE EndCtx
    BY <2>9 DEF EndCtx
  <2>10. CASE UNCHANGED scheduleVars
    BY <2>10 DEF scheduleVars
  <2> QED BY <2>1, <2>2, <2>3, <2>4, <2>5, <2>6, <2>7, <2>8, <2>9, <2>10
          DEF ScheduleNext, Between, Returned
<1> QED BY <1>1, <1>2, InductiveInvariant, PTL DEF ScheduleSafety, KeepsPromiseSafety

(***************************************************************************)
(* The safety half of termination.                                         *)
(***************************************************************************)

\* The moves the loop may still make: three to an attempt (it fails, a sleep is
\* armed, the sleep ends) and what is left of the current one.
MovesLeft ==
  3 * (MaxAttempts - 1 - n)
    + (IF pc = "attempt" THEN 3 ELSE IF pc = "pause" THEN 2 ELSE IF pc = "sleep" THEN 1 ELSE 0)

\* Whatever the attempts return and whenever the caller's context ends, every
\* move of schedule.run uses one of a number of moves set by the budget, and no
\* passing of time or of a context gives one back: run can fail to return only by
\* waiting for an attempt, a pause or a timer, never by going round.
THEOREM LoopCannotGoRound ==
  ScheduleSafety =>
    [][/\ MovesLeft' \in Nat
       /\ MovesLeft' <= MovesLeft
       /\ pc' # pc => MovesLeft' < MovesLeft]_scheduleVars
<1> USE ScheduleAssumption DEF Running, Returns
<1>1. ScheduleInv /\ [ScheduleNext]_scheduleVars =>
        [/\ MovesLeft' \in Nat
         /\ MovesLeft' <= MovesLeft
         /\ pc' # pc => MovesLeft' < MovesLeft]_scheduleVars
  <2> SUFFICES ASSUME ScheduleInv, ScheduleNext
               PROVE  /\ MovesLeft' \in Nat
                      /\ MovesLeft' <= MovesLeft
                      /\ pc' # pc => MovesLeft' < MovesLeft
    OBVIOUS
  <2>1. /\ pc \in Running \cup Returns /\ n \in 0 .. MaxAttempts - 1
        /\ pc \in {"pause", "sleep"} => n < MaxAttempts - 1
    BY DEF ScheduleInv, ScheduleTypeOK
  <2> USE <2>1 DEF MovesLeft
  <2>2. CASE AttemptDone
    BY <2>2 DEF AttemptDone
  <2>3. ASSUME NEW explicit \in Waits, AttemptFails(explicit)
        PROVE  MovesLeft' \in Nat /\ MovesLeft' < MovesLeft
    BY <2>3 DEF AttemptFails
  <2>4. CASE SkipSleep \/ TimerFires
    BY <2>4 DEF SkipSleep, TimerFires, NextAttempt
  <2>5. CASE StopElapsed \/ StartSleep \/ CtxEndsSleep
    BY <2>5 DEF StopElapsed, StartSleep, CtxEndsSleep
  <2>6. CASE UNCHANGED <<pc, n>>
    BY <2>6
  <2>7. Tick \/ EndCtx \/ Returned => UNCHANGED <<pc, n>>
    BY DEF Tick, EndCtx, Returned, scheduleVars
  <2>8. MovesLeft \in Int
    OBVIOUS
  <2> HIDE DEF MovesLeft
  <2> QED BY <2>2, <2>3, <2>4, <2>5, <2>6, <2>7, <2>8 DEF ScheduleNext, Between
<1> QED BY <1>1, InductiveInvariant, PTL DEF ScheduleSafety

==============================================================================
