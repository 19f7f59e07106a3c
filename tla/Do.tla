---------------------------------- MODULE Do ----------------------------------
(***************************************************************************)
(* Door 1, Do of loop.go: the schedule runs the caller's function, judges  *)
(* its error and sleeps.  The attempt closure is three reads of clocks and *)
(* contexts that other goroutines end meanwhile, so each is a step:        *)
(*   call    fn is running                                                 *)
(*   caller  markAttemptTimeout is about to read the caller's context      *)
(*   bound   and then the attempt's own                                    *)
(*   judge   the closure is about to read the caller's context again       *)
(***************************************************************************)
EXTENDS Schedule, Errors

CONSTANTS
  FnErrors,         \* the errors fn may return
  RateLimitModes,   \* the rate-limit options a caller may give, or none
  rlMaxWait,        \* the option's ceiling, positive once normalized
  AttemptTimeouts   \* the bounds of WithAttemptTimeout; zero means none

ASSUME DoAssumption ==
  /\ nil \notin FnErrors
  /\ RateLimitModes \subseteq {"rlNone", "rlRetry", "rlOnly"}
  /\ rlMaxWait \in 1 .. MaxDur
  /\ AttemptTimeouts \subseteq 0 .. MaxDur
  /\ MaxElapsed = 0
  /\ \A e \in FnErrors : \A f \in {e, AttemptTimeout(e)} : \A mode \in RateLimitModes :
       classify(f, mode, rlMaxWait).wait \in Waits

VARIABLES
  rlMode,         \* which rate-limit option the call was given
  attemptTimeout, \* and which attempt bound
  step,           \* where the attempt closure is
  err,            \* Do's captured error; nil before the first verdict
  attemptTimer,   \* ticks left of the attempt's bound
  endedAt         \* history: the attempt ctx ended in, or before

doVars == <<rlMode, attemptTimeout, step, err, attemptTimer, endedAt>>
vars == <<scheduleVars, doVars>>

CtxErr == <<Layer("deadline")>>   \* canceled is read the same way

DoInit ==
  /\ ScheduleInit
  /\ rlMode \in RateLimitModes
  /\ attemptTimeout \in AttemptTimeouts
  /\ step = "call"
  /\ err = nil
  /\ attemptTimer = attemptTimeout
  /\ endedAt = 0

\* Mutant: fn runs under a context of its own, cut off from the caller's.
AttemptCtxDetached == attemptTimeout > 0 /\ attemptTimer = 0

\* Mutant: fn runs under the caller's context, the attempt's bound unused.
AttemptCtxUnbounded == ctx = "ended"

\* The attempt context derives from the caller's and ends with it.
AttemptCtxEnded == ctx = "ended" \/ (attemptTimeout > 0 /\ attemptTimer = 0)

(***************************************************************************)
(* The attempt closure.                                                    *)
(***************************************************************************)

\* A nil error is neither marked nor judged, even under an ended context.
FnSucceeds ==
  /\ step = "call"
  /\ AttemptDone
  /\ err' = nil
  /\ UNCHANGED <<rlMode, attemptTimeout, step, attemptTimer, endedAt>>

FnFails(e) ==
  /\ pc = "attempt" /\ step = "call"
  /\ err' = e
  /\ step' = IF attemptTimeout > 0 THEN "caller" ELSE "judge"
  /\ UNCHANGED <<scheduleVars, rlMode, attemptTimeout, attemptTimer, endedAt>>

ReadCallerCtx ==
  /\ pc = "attempt" /\ step = "caller"
  /\ step' = IF ctx = "ended" THEN "judge" ELSE "bound"
  /\ UNCHANGED <<scheduleVars, rlMode, attemptTimeout, err, attemptTimer, endedAt>>

\* Mutant: any deadline is taken for the attempt's own.
markAnyDeadline ==
  /\ pc = "attempt" /\ step = "bound"
  /\ step' = "judge"
  /\ err' = IF MatchesDeadline(err) THEN AttemptTimeout(err) ELSE err
  /\ UNCHANGED <<scheduleVars, rlMode, attemptTimeout, attemptTimer, endedAt>>

markAttemptTimeout ==
  /\ pc = "attempt" /\ step = "bound"
  /\ step' = "judge"
  /\ err' = IF AttemptCtxEnded /\ MatchesDeadline(err) THEN AttemptTimeout(err) ELSE err
  /\ UNCHANGED <<scheduleVars, rlMode, attemptTimeout, attemptTimer, endedAt>>

\* Mutant: the caller's context is not read after an attempt.
callerGoneNever == FALSE

\* Except under WithRateLimitOnly an ended caller replaces the error.
callerGone == rlMode # "rlOnly" /\ ctx = "ended"

Verdict == classify(err, rlMode, rlMaxWait)

JudgeCallerGone ==
  /\ step = "judge"
  /\ callerGone
  /\ AttemptDone
  /\ err' = CtxErr
  /\ UNCHANGED <<rlMode, attemptTimeout, step, attemptTimer, endedAt>>

JudgeFinal ==
  /\ step = "judge"
  /\ ~callerGone /\ ~Verdict.retryable
  /\ AttemptDone
  /\ UNCHANGED doVars

\* Mutant: the verdict's wait is dropped.
JudgeRetryableNoHint ==
  /\ step = "judge"
  /\ ~callerGone /\ Verdict.retryable
  /\ AttemptFails(0)
  /\ UNCHANGED doVars

JudgeRetryable ==
  /\ step = "judge"
  /\ ~callerGone /\ Verdict.retryable
  /\ AttemptFails(Verdict.wait)
  /\ UNCHANGED doVars

(***************************************************************************)
(* Between attempts.                                                       *)
(***************************************************************************)

Wait == (StartSleep \/ CtxEndsSleep) /\ UNCHANGED doVars

Retry ==
  /\ SkipSleep \/ TimerFires
  /\ step' = "call"
  /\ attemptTimer' = attemptTimeout
  /\ UNCHANGED <<rlMode, attemptTimeout, err, endedAt>>

(***************************************************************************)
(* The environment.                                                        *)
(***************************************************************************)

DoTick ==
  /\ Tick
  /\ attemptTimer' = IF pc = "attempt" /\ attemptTimer > 0
                       THEN attemptTimer - 1 ELSE attemptTimer
  /\ UNCHANGED <<rlMode, attemptTimeout, step, err, endedAt>>

DoEndCtx ==
  /\ EndCtx
  /\ endedAt' = IF pc = "attempt" THEN n ELSE n + 1
  /\ UNCHANGED <<rlMode, attemptTimeout, step, err, attemptTimer>>

DoReturned == Returned /\ UNCHANGED doVars

FnReturns == FnSucceeds \/ \E e \in FnErrors : FnFails(e)
Closure   == ReadCallerCtx \/ markAttemptTimeout
               \/ JudgeCallerGone \/ JudgeFinal \/ JudgeRetryable
Program   == Closure \/ Wait \/ Retry

DoNext == FnReturns \/ Program \/ DoTick \/ DoEndCtx \/ DoReturned

(***************************************************************************)
(* fn honors the context it is given, the loop's goroutine is scheduled    *)
(* and time passes.  fn owes nothing while its context is live.            *)
(***************************************************************************)
DoFairness ==
  /\ WF_vars(AttemptCtxEnded /\ FnReturns)
  /\ WF_vars(Program)
  /\ WF_vars(DoTick)

DoSpec == DoInit /\ [][DoNext]_vars /\ DoFairness

(***************************************************************************)
(* Properties.                                                             *)
(***************************************************************************)

Waiting == pc \in {"pause", "sleep"}

\* The inductive invariant, with the types of the closure's captured variables.
\* The closure judges an error fn returned; while the loop waits, that error's
\* verdict is retryable and its explicit wait, if any, is the loop's; a context
\* that ended meanwhile lets one attempt through.
Raised == FnErrors \cup {AttemptTimeout(e) : e \in FnErrors}

DoInv ==
  /\ rlMode \in RateLimitModes
  /\ attemptTimeout \in AttemptTimeouts
  /\ step \in {"call", "caller", "bound", "judge"}
  /\ err \in {nil, CtxErr} \cup Raised
  /\ attemptTimer \in 0 .. attemptTimeout
  /\ endedAt \in 0 .. MaxAttempts
  /\ pc = "attempt" /\ step \in {"caller", "bound"} => err \in FnErrors
  /\ (pc = "attempt" /\ step = "judge") \/ Waiting => err \in Raised
  /\ Waiting => /\ Verdict.retryable
                /\ Verdict.wait > 0 => wait = Verdict.wait
  /\ rlMode # "rlOnly" /\ ctx = "ended" => n <= endedAt /\ (Waiting => n < endedAt)

\* A caller out of budget is not retried: whenever the context ended, no attempt
\* begins after the one it ended in, or after the one a sleep's expiry let
\* through in the race with the context.  WithRateLimitOnly gives no such bound.
NoRetryOnceCallerGone ==
  rlMode # "rlOnly" /\ ctx = "ended" => n <= endedAt

\* markAttemptTimeout marks an error only when the attempt's own bound expired:
\* an error Do acts on or returns carries Do's mark only if the bound is spent,
\* never because the caller's context ended between the two reads.  (Stated for
\* functions that mark nothing themselves.)
MarkOnlyOwnBound ==
  pc # "attempt" /\ IsAttemptTimeout(err) => attemptTimeout > 0 /\ attemptTimer = 0

\* It holds wherever the closure reads the caller's context again after the mark,
\* which overrides a mark made in the race: everywhere but WithRateLimitOnly.
MarkOverruled == rlMode # "rlOnly" => MarkOnlyOwnBound

\* What settles a call is never retried, whatever is marked on it: unless a
\* rate-limit option speaks for it, an error waited on is no auth, permanent or
\* rate-limit error, nor the caller's own context's (a deadline marked as one
\* attempt's excepted); and under WithRateLimitOnly nothing else is waited on.
SettledNotRetried ==
  Waiting /\ ~(rlMode # "rlNone" /\ Is(err, {"rateLimit"})) =>
    /\ rlMode # "rlOnly"
    /\ ~Is(err, {"auth", "permanent", "rateLimit"})
    /\ isCallerContextError(err) => IsAttemptTimeout(err)

\* "Permanent wraps err to indicate it should never be retried", "regardless of
\* other retry policies" (httpx.go's PermanentError).
PermanentNeverRetried == Waiting => ~IsPermanent(err)

\* A rate limit's wait is positive and at most the option's ceiling, whatever
\* the upstream's raw hint says, so no retry skips the sleep that reads the context.
RateLimitWaitBounded ==
  Waiting /\ rlMode # "rlNone" /\ Is(err, {"rateLimit"}) => wait \in 1 .. rlMaxWait

\* An attempt judged after the caller's context ended returns its success or
\* ctx.Err(): neither exhaustion nor the attempt's error hides the cancellation.
CallerSeesCancellation ==
  [][pc = "attempt" /\ pc' # "attempt" /\ rlMode # "rlOnly" /\ ctx = "ended"
       => pc' = "judged" /\ err' \in {nil, CtxErr}]_vars

\* Once the caller's context ends the call returns, if fn honors its context.
EndedCtxReturns == (ctx = "ended") ~> (pc \in Returns)

\* With an attempt bound every call returns, even under a context that never
\* ends, if fn honors the context it is given.
BoundedCallReturns == attemptTimeout > 0 => <>(pc \in Returns)

==============================================================================
