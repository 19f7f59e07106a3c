------------------------------- MODULE DoProofs -------------------------------
(***************************************************************************)
(* Do.tla's safety for every budget, set of errors, rate-limit option and  *)
(* attempt bound: the door runs the schedule, waits only on a retryable    *)
(* verdict, and returns a cancellation as a cancellation.                  *)
(***************************************************************************)
EXTENDS Do, ScheduleProofs

\* Any error the closure judges asks for a wait the schedule knows.
LEMMA VerdictWaits ==
  ASSUME err \in Raised, rlMode \in RateLimitModes  PROVE Verdict.wait \in Waits
BY DoAssumption DEF Raised, Verdict

\* Each step of the door is a step of the schedule, or leaves it where it is.
LEMMA StepOfSchedule == DoInv /\ [DoNext]_vars => [ScheduleNext]_scheduleVars
<1> SUFFICES ASSUME DoInv, [DoNext]_vars  PROVE [ScheduleNext]_scheduleVars
  OBVIOUS
<1>1. CASE FnReturns
  BY <1>1 DEF FnReturns, FnSucceeds, FnFails, ScheduleNext
<1>2. CASE ReadCallerCtx \/ markAttemptTimeout
  BY <1>2 DEF ReadCallerCtx, markAttemptTimeout
<1>3. CASE JudgeCallerGone \/ JudgeFinal
  BY <1>3 DEF JudgeCallerGone, JudgeFinal, ScheduleNext
<1>4. CASE JudgeRetryable
  <2>1. Verdict.wait \in Waits /\ AttemptFails(Verdict.wait)
    BY <1>4, VerdictWaits DEF JudgeRetryable, AttemptFails, DoInv
  <2> QED BY <2>1 DEF ScheduleNext
<1>5. CASE Wait \/ Retry \/ DoTick \/ DoEndCtx \/ DoReturned
  BY <1>5 DEF Wait, Retry, DoTick, DoEndCtx, DoReturned, ScheduleNext, Between
<1>6. CASE UNCHANGED vars
  BY <1>6 DEF vars
<1> QED BY <1>1, <1>2, <1>3, <1>4, <1>5, <1>6 DEF DoNext, Program, Closure

(***************************************************************************)
(* The inductive invariant.                                                *)
(***************************************************************************)

\* A call starts with no verdict and its first attempt running.
LEMMA DoInvInit == DoInit => DoInv
BY DoAssumption, ScheduleAssumption
   DEF DoInit, ScheduleInit, DoInv, Waiting, Duration

\* A retryable verdict's explicit wait, when positive, is the wait resolved.
LEMMA JudgeRetryableKeepsInv ==
  ASSUME ScheduleInv, DoInv, JudgeRetryable  PROVE DoInv'
<1>1. /\ pc = "attempt" /\ step = "judge" /\ err \in Raised
      /\ Verdict.retryable /\ Verdict.wait \in Waits
      /\ rlMode = "rlOnly" \/ ctx # "ended"
  BY VerdictWaits DEF JudgeRetryable, AttemptFails, callerGone, DoInv
<1>2. UNCHANGED <<n, ctx, rlMode, attemptTimeout, step, err, attemptTimer, endedAt>> /\ Verdict' = Verdict
  BY DEF JudgeRetryable, AttemptFails, doVars, Verdict
<1>3. /\ pc' \in {"exhausted", "pause"}
      /\ pc' = "pause" => wait' \in resolveWait(Verdict.wait, backoff)
  BY DEF JudgeRetryable, AttemptFails
<1>4. pc' = "pause" /\ Verdict.wait > 0 => wait' = Verdict.wait
  BY <1>3 DEF resolveWait
<1> QED BY <1>1, <1>2, <1>3, <1>4 DEF DoInv, Waiting

\* Every step of the door keeps it.
LEMMA DoInvStep == ScheduleInv /\ DoInv /\ [DoNext]_vars => DoInv'
<1> SUFFICES ASSUME ScheduleInv, DoInv, [DoNext]_vars  PROVE DoInv'
  OBVIOUS
<1>n. n \in 0 .. MaxAttempts - 1 /\ pc \in Running \cup Returns
  BY DEF ScheduleInv, ScheduleTypeOK
<1>w. Waiting => n < MaxAttempts - 1
  BY DEF ScheduleInv, Waiting
<1> USE <1>n, ScheduleAssumption, DoAssumption DEF DoInv, Waiting, Running, Returns, Duration
<1>1. CASE FnSucceeds
  BY <1>1 DEF FnSucceeds, AttemptDone
<1>2. ASSUME NEW e \in FnErrors, FnFails(e)  PROVE DoInv'
  BY <1>2 DEF FnFails, Raised, scheduleVars
<1>3. CASE ReadCallerCtx
  BY <1>3 DEF ReadCallerCtx, Raised, scheduleVars
<1>4. CASE markAttemptTimeout
  BY <1>4 DEF markAttemptTimeout, Raised, scheduleVars
<1>5. CASE JudgeCallerGone
  BY <1>5 DEF JudgeCallerGone, AttemptDone
<1>6. CASE JudgeFinal
  BY <1>6 DEF JudgeFinal, AttemptDone, doVars
<1>7. CASE JudgeRetryable
  BY <1>7, JudgeRetryableKeepsInv
<1>8. CASE Wait
  BY <1>8 DEF Wait, StartSleep, CtxEndsSleep, doVars, Verdict
<1>9. CASE Retry
  BY <1>9 DEF Retry, SkipSleep, TimerFires, NextAttempt
<1>10. CASE DoTick
  BY <1>10 DEF DoTick, Tick, Verdict
<1>11. CASE DoEndCtx
  BY <1>11, <1>w DEF DoEndCtx, EndCtx, Verdict
<1>12. CASE DoReturned \/ UNCHANGED vars
  BY <1>12 DEF DoReturned, Returned, scheduleVars, doVars, vars, Verdict
<1> QED BY <1>1, <1>2, <1>3, <1>4, <1>5, <1>6, <1>7, <1>8, <1>9, <1>10, <1>11, <1>12
        DEF DoNext, FnReturns, Program, Closure

\* The schedule's invariant and the door's, together, hold of every behaviour.
THEOREM DoInductiveInvariant == DoSpec => [](ScheduleInv /\ DoInv)
<1>1. DoInit => ScheduleInv /\ DoInv
  BY ScheduleInvInit, DoInvInit DEF DoInit
<1>2. ScheduleInv /\ DoInv /\ [DoNext]_vars => ScheduleInv' /\ DoInv'
  BY StepOfSchedule, ScheduleInvStep, DoInvStep
<1> QED BY <1>1, <1>2, PTL DEF DoSpec

(***************************************************************************)
(* What follows from it.                                                   *)
(***************************************************************************)

\* Do runs the schedule: whatever schedule.run guarantees (the budget, the waits,
\* the promise) holds of every call.
THEOREM DoRunsSchedule == DoSpec => ScheduleSafety
<1>1. DoInit => ScheduleInit
  BY DEF DoInit
<1> QED BY <1>1, StepOfSchedule, DoInductiveInvariant, PTL DEF DoSpec, ScheduleSafety

\* So it implements the bounded-retry promise.
THEOREM DoKeepsPromise == DoSpec => KeepsPromiseSafety
BY DoRunsSchedule, ImplementsPromise, PTL

\* Do waits on no auth, permanent, rate-limit or caller's context error but the
\* rate limits its option asks for, however errors are marked and wrapped.
THEOREM DoSettledNotRetried == DoSpec => []SettledNotRetried
<1>1. DoInv => SettledNotRetried
  <2> SUFFICES ASSUME DoInv, Waiting, ~(rlMode # "rlNone" /\ Is(err, {"rateLimit"}))
               PROVE  /\ rlMode # "rlOnly"
                      /\ ~Is(err, {"auth", "permanent", "rateLimit"})
                      /\ isCallerContextError(err) => IsAttemptTimeout(err)
    BY DEF SettledNotRetried
  <2>1. classify(err, rlMode, rlMaxWait).retryable
    BY DEF DoInv, Verdict
  <2>2. rlMode # "rlOnly" /\ IsTransient(err)
    BY <2>1 DEF classify
  <2>3. /\ ~IsPermanent(err) /\ ~Is(err, {"auth", "rateLimit"})
        /\ IsAttemptTimeout(err) \/ ~isCallerContextError(err)
    BY <2>2 DEF IsTransient
  <2>4. ~Is(err, {"auth", "permanent", "rateLimit"})
    BY <2>3 DEF Is, IsPermanent
  <2> QED BY <2>2, <2>3, <2>4
<1> QED BY <1>1, DoInductiveInvariant, PTL

\* A rate limit's wait is positive and within the ceiling, whatever the hint.
THEOREM DoRateLimitWaitBounded == DoSpec => []RateLimitWaitBounded
<1>1. DoInv => RateLimitWaitBounded
  <2> SUFFICES ASSUME DoInv, Waiting, rlMode # "rlNone", Is(err, {"rateLimit"})
               PROVE  wait \in 1 .. rlMaxWait
    BY DEF RateLimitWaitBounded
  <2> DEFINE asked == rateLimitWait(err, rlMaxWait)
  <2>1. Verdict.wait = asked /\ err \in Raised
    BY DEF Verdict, classify, DoInv
  <2>2. asked \in Int
    <3>1. asked \in Waits
      BY <2>1, VerdictWaits DEF DoInv
    <3>2. \A w \in Waits : w \in Int
      BY ScheduleAssumption, DurationsAssumption DEF Duration
    <3> QED BY <3>1, <3>2
  <2>3. rlMaxWait \in Nat /\ rlMaxWait >= 1
    BY DoAssumption, DurationsAssumption
  <2>4. asked \in 1 .. rlMaxWait
    BY <2>2, <2>3 DEF rateLimitWait
  <2>5. wait = asked
    BY <2>1, <2>4, <2>3 DEF DoInv
  <2> QED BY <2>4, <2>5
<1> QED BY <1>1, DoInductiveInvariant, PTL

\* No attempt begins for a caller whose context ended, but for the one a sleep's
\* expiry may let through.
THEOREM DoNoRetryOnceCallerGone == DoSpec => []NoRetryOnceCallerGone
<1>1. DoInv => NoRetryOnceCallerGone
  BY DEF DoInv, NoRetryOnceCallerGone
<1> QED BY <1>1, DoInductiveInvariant, PTL

\* A cancellation is returned as one: an attempt judged after the caller's context
\* ended returns its success or the context's error.
THEOREM DoCallerSeesCancellation == DoSpec => CallerSeesCancellation
<1>1. [DoNext]_vars =>
        [pc = "attempt" /\ pc' # "attempt" /\ rlMode # "rlOnly" /\ ctx = "ended"
           => pc' = "judged" /\ err' \in {nil, CtxErr}]_vars
  <2> SUFFICES ASSUME DoNext, pc = "attempt", pc' # "attempt", callerGone
               PROVE  pc' = "judged" /\ err' \in {nil, CtxErr}
    BY DEF callerGone
  <2>1. CASE FnReturns
    BY <2>1 DEF FnReturns, FnSucceeds, FnFails, AttemptDone, scheduleVars
  <2>2. CASE Closure
    BY <2>2 DEF Closure, ReadCallerCtx, markAttemptTimeout, JudgeCallerGone, JudgeFinal,
                JudgeRetryable, AttemptDone, scheduleVars
  <2>3. CASE Wait \/ Retry
    BY <2>3 DEF Wait, Retry, StartSleep, CtxEndsSleep, SkipSleep, TimerFires
  <2>4. CASE DoTick \/ DoEndCtx \/ DoReturned
    BY <2>4 DEF DoTick, Tick, DoEndCtx, EndCtx, DoReturned, Returned, Returns
  <2> QED BY <2>1, <2>2, <2>3, <2>4 DEF DoNext, Program
<1> QED BY <1>1, PTL DEF DoSpec, CallerSeesCancellation

(***************************************************************************)
(* The attempt-timeout mark.                                               *)
(***************************************************************************)

\* An error about to be judged that carries the mark had its bound expire, or the
\* caller's context has ended and the closure is about to read that.
MarkInv == rlMode # "rlOnly" =>
  /\ pc = "attempt" /\ step = "judge" /\ IsAttemptTimeout(err) =>
       ctx = "ended" \/ (attemptTimeout > 0 /\ attemptTimer = 0)
  /\ MarkOnlyOwnBound

\* Neither a success nor the context's error carries a mark.
LEMMA Unmarked == ~IsAttemptTimeout(nil) /\ ~IsAttemptTimeout(CtxErr)
BY DEF IsAttemptTimeout, Is, nil, CtxErr, Layer

\* The race between markAttemptTimeout's two reads does no harm where the closure
\* reads the caller's context again: without WithRateLimitOnly, and for functions
\* that mark nothing themselves, no error Do acts on or returns carries its mark
\* unless the attempt's own bound expired.
THEOREM DoMarkOverruled ==
  ASSUME \A e \in FnErrors : ~IsAttemptTimeout(e)
  PROVE  DoSpec => []MarkOverruled
<1>1. DoInit => MarkInv
  BY Unmarked DEF DoInit, ScheduleInit, MarkInv, MarkOnlyOwnBound
<1>2. DoInv /\ MarkInv /\ [DoNext]_vars => MarkInv'
  <2> SUFFICES ASSUME DoInv, MarkInv, [DoNext]_vars  PROVE MarkInv'
    OBVIOUS
  <2> USE DEF MarkInv, MarkOnlyOwnBound
  <2>t. attemptTimer \in 0 .. attemptTimeout /\ attemptTimeout \in Nat
    BY DoAssumption, DurationsAssumption DEF DoInv
  <2>1. CASE FnSucceeds
    BY <2>1, Unmarked DEF FnSucceeds, AttemptDone
  <2>2. ASSUME NEW e \in FnErrors, FnFails(e)  PROVE MarkInv'
    BY <2>2 DEF FnFails, scheduleVars
  <2>3. CASE ReadCallerCtx
    <3>1. err' = err /\ ~IsAttemptTimeout(err) /\ pc' = "attempt"
      BY <2>3 DEF ReadCallerCtx, DoInv, scheduleVars
    <3> QED BY <3>1
  <2>4. CASE markAttemptTimeout
    <3>1. ~IsAttemptTimeout(err)
      BY <2>4 DEF markAttemptTimeout, DoInv
    <3>2. CASE AttemptCtxEnded
      BY <2>4, <3>2 DEF markAttemptTimeout, AttemptCtxEnded, scheduleVars
    <3>3. CASE ~AttemptCtxEnded
      BY <2>4, <3>1, <3>3 DEF markAttemptTimeout, scheduleVars
    <3> QED BY <3>2, <3>3
  <2>5. CASE JudgeCallerGone
    BY <2>5, Unmarked DEF JudgeCallerGone, AttemptDone
  <2>6. CASE JudgeFinal
    BY <2>6 DEF JudgeFinal, AttemptDone, callerGone, doVars
  <2>7. CASE JudgeRetryable
    BY <2>7 DEF JudgeRetryable, AttemptFails, callerGone, doVars
  <2>8. CASE Wait
    BY <2>8 DEF Wait, StartSleep, CtxEndsSleep, doVars
  <2>9. CASE Retry
    BY <2>9 DEF Retry, SkipSleep, TimerFires, NextAttempt
  <2>10. CASE DoTick
    BY <2>10, <2>t DEF DoTick, Tick
  <2>11. CASE DoEndCtx
    BY <2>11 DEF DoEndCtx, EndCtx
  <2>12. CASE DoReturned \/ UNCHANGED vars
    BY <2>12 DEF DoReturned, Returned, scheduleVars, doVars, vars
  <2> QED BY <2>1, <2>2, <2>3, <2>4, <2>5, <2>6, <2>7, <2>8, <2>9, <2>10, <2>11, <2>12
          DEF DoNext, FnReturns, Program, Closure
<1>3. MarkInv => MarkOverruled
  BY DEF MarkInv, MarkOverruled
<1> QED BY <1>1, <1>2, <1>3, DoInductiveInvariant, PTL DEF DoSpec

==============================================================================
