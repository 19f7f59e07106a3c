------------------------------- MODULE NestedGet -------------------------------
(***************************************************************************)
(* GetBytes run as the function of a Do, the composition docs/retries.md   *)
(* recommends: one loop inside another.  This module's own state is        *)
(* GetBytes and its ctx the context GetBytes is given; the loop around it  *)
(* is the instance Outer.  The function bounds each attempt with           *)
(* ContextWithDefaultTimeout, calls GetBytes and, when its author took the *)
(* documented advice, marks an exhausted retryable status for one more     *)
(* outer attempt.                                                          *)
(***************************************************************************)
EXTENDS GetBytes

CONSTANTS
  OuterAttempts,    \* the outer loop's budget
  AttemptTimeouts,  \* the bounds its WithAttemptTimeout may set, or zero
  DefaultTimeouts   \* the defaults of ContextWithDefaultTimeout; zero means none

ASSUME NestedGetAssumption ==
  /\ OuterAttempts \in Nat \ {0}
  /\ AttemptTimeouts \subseteq 0 .. MaxDur
  /\ DefaultTimeouts \subseteq 0 .. MaxDur

VARIABLES
  oPc, oN, oBackoff, oWait, oTimer, callerCtx,            \* the outer schedule
  attemptTimeout, oStep, oErr, attemptTimer, oEndedAt,    \* the outer closure
  hasDeadline,    \* whether the caller's context carries a deadline
  def,            \* the function's default timeout
  defTimer,       \* ticks left of it in this attempt
  marks,          \* whether the function marks an exhausted retryable status
  deadBegun       \* history: requests begun under the caller's ended context

loopVars == <<oPc, oN, oBackoff, oWait, oTimer, callerCtx,
              attemptTimeout, oStep, oErr, attemptTimer, oEndedAt>>
fnVars   == <<hasDeadline, def, defTimer, marks, deadBegun>>
nestVars == <<vars, loopVars, fnVars>>

\* What the function may hand to Do: an ended sleep's context error, an attempt's
\* own failure, or the same exhausted, with its hint and with the mark.
SafeErrors   == {LogSafeError(e) : e \in AttemptErrors}
Exhaustions  == {Exhausted(e, ra) : e \in SafeErrors, ra \in Waits}
GetFailures  == {CtxErr} \cup SafeErrors \cup Exhaustions
                  \cup {MarkTransient(e) : e \in Exhaustions}

Outer == INSTANCE Do WITH
  pc <- oPc, n <- oN, backoff <- oBackoff, wait <- oWait, timer <- oTimer,
  elapsed <- 0, ctx <- callerCtx,
  attemptTimeout <- attemptTimeout, step <- oStep, err <- oErr,
  attemptTimer <- attemptTimer, endedAt <- oEndedAt, rlMode <- "rlNone",
  MaxAttempts <- OuterAttempts, FnErrors <- GetFailures,
  RateLimitModes <- {"rlNone"}, rlMaxWait <- 1

\* Mutant: the default applies to every attempt.
ContextWithDefaultTimeoutAlways == def > 0

\* The default bounds only a context that carries no deadline, neither the
\* caller's nor the outer loop's attempt bound.
ContextWithDefaultTimeout == def > 0 /\ ~hasDeadline /\ attemptTimeout = 0

NestInit ==
  /\ GBInit
  /\ Outer!DoInit
  /\ ctx = callerCtx
  /\ hasDeadline \in BOOLEAN /\ marks \in BOOLEAN
  /\ def \in DefaultTimeouts
  /\ defTimer = def
  /\ deadBegun = IF callerCtx = "ended" THEN 1 ELSE 0

\* Counted up to two: one is allowed.
RequestBegins ==
  deadBegun' = IF callerCtx = "ended" /\ deadBegun < 2 THEN deadBegun + 1 ELSE deadBegun

(***************************************************************************)
(* Inside the function.                                                    *)
(***************************************************************************)
GetSteps == (ClientReturns \/ BodyReturns \/ Wait) /\ UNCHANGED <<loopVars, fnVars>>

GetRetries ==
  /\ Retry
  /\ RequestBegins
  /\ UNCHANGED <<loopVars, hasDeadline, def, defTimer, marks>>

\* The caller's policy for what GetBytes returned: a retryable status is marked,
\* and only an exhausted GetBytes fails with one.
fnErr == IF marks /\ pc = "exhausted" /\ Is(err, {"status"})
           THEN MarkTransient(returnedErr) ELSE returnedErr

FnReturns ==
  /\ pc \in Returns
  /\ \E e \in {fnErr} : IF e = nil THEN Outer!FnSucceeds ELSE Outer!FnFails(e)
  /\ UNCHANGED <<vars, fnVars>>

(***************************************************************************)
(* The loop around it.                                                     *)
(***************************************************************************)
LoopJudges == (Outer!Closure \/ Outer!Wait) /\ UNCHANGED <<vars, fnVars>>

\* A new call of the function, so a new call of GetBytes.
LoopRetries ==
  /\ Outer!Retry
  /\ pc' = "attempt" /\ n' = 0 /\ backoff' = BaseDelay /\ wait' = 0 /\ timer' = 0
  /\ ctx' = callerCtx
  /\ step' = "do" /\ body' = NoBody /\ err' = nil /\ retryAfter' = 0
  /\ open' = FALSE /\ served' = 0 /\ hint' = 0
  /\ startedDead' = (callerCtx = "ended")
  /\ defTimer' = def
  /\ RequestBegins
  /\ UNCHANGED <<elapsed, maxBodyBytes, hasDeadline, def, marks>>

(***************************************************************************)
(* The environment.  The caller's end reaches the contexts derived from    *)
(* it at once; a bound's or a default's expiry is seen a step later.       *)
(***************************************************************************)
NestTick ==
  /\ Outer!DoTick
  /\ IF pc \in Running THEN GBTick ELSE UNCHANGED vars
  /\ defTimer' = IF pc \in Running /\ defTimer > 0 THEN defTimer - 1 ELSE defTimer
  /\ UNCHANGED <<hasDeadline, def, marks, deadBegun>>

CallerEnds ==
  /\ Outer!DoEndCtx
  /\ ctx' = "ended"
  /\ UNCHANGED <<pc, n, backoff, wait, timer, elapsed, gbVars, fnVars>>

AttemptExpires ==
  /\ \/ attemptTimeout > 0 /\ attemptTimer = 0
     \/ ContextWithDefaultTimeout /\ defTimer = 0
  /\ EndCtx
  /\ UNCHANGED <<gbVars, loopVars, fnVars>>

NestReturned == Outer!DoReturned /\ UNCHANGED nestVars

NestNext == GetSteps \/ GetRetries \/ FnReturns \/ LoopJudges \/ LoopRetries
              \/ NestTick \/ CallerEnds \/ AttemptExpires \/ NestReturned

(***************************************************************************)
(* Only the client and the bodies are asked to honor a context; the loops  *)
(* run and time passes.                                                    *)
(***************************************************************************)
NestFairness ==
  /\ WF_nestVars(RequestCtxEnded /\ (ClientReturns \/ BodyReturns) /\ UNCHANGED <<loopVars, fnVars>>)
  /\ WF_nestVars((Wait /\ UNCHANGED <<loopVars, fnVars>>) \/ GetRetries \/ FnReturns)
  /\ WF_nestVars(LoopJudges \/ LoopRetries)
  /\ WF_nestVars(NestTick)
  /\ WF_nestVars(AttemptExpires)

NestSpec == NestInit /\ [][NestNext]_nestVars /\ NestFairness

(***************************************************************************)
(* Properties.                                                             *)
(***************************************************************************)

\* Do's promises rest on a function that returns once its context has ended.
\* GetBytes is one, whatever it was doing then (in the client, reading a body,
\* asleep between its own attempts): the nest implements Do with its fairness.
NestImplementsDo == Outer!DoSpec

\* The loops agree on what is worth another try.  The outer one never gives up on a
\* failure the inner one retried for its transport error, though it judges another
\* error: reduced, wrapped and exhausted.  What the inner one settled it retries in
\* three cases only: a body that could not be read, a timeout the *url.Error hid from
\* the inner verdict, and the end of its own attempt bound.
LoopsAgree ==
  /\ oPc = "judged" /\ oErr # nil /\ callerCtx = "live" =>
       ~IsTransient(IF pc = "stopCtx" THEN CtxErr ELSE err)
  /\ Outer!Waiting /\ pc = "judged" =>
       \/ \E e \in ReadErrors \cup {CtxErr} : err = ReadErr(e)
       \/ err[1].kind = "url" /\ ~isTimeout(err) /\ isTimeout(LogSafeError(err))
       \/ attemptTimer = 0 /\ IsAttemptTimeout(oErr)

\* A caller whose context is live is told of a deadline only when no bound but the
\* function's default applied: an attempt bound's expiry is retried, from wherever
\* GetBytes was, and the default undercuts neither it nor the caller's deadline.
LiveCallerNoDeadline ==
  oPc = "judged" /\ callerCtx = "live" /\ isCallerContextError(oErr) =>
    def > 0 /\ ~hasDeadline /\ attemptTimeout = 0

\* However the two loops' sleeps race with it, at most one request is begun after
\* the caller's context ended: neither loop multiplies the other's lapse.
OneDeadRequest == deadBegun <= 1

\* The outer loop waits what the last response asked for, and its own backoff when
\* the last attempt had none, whatever earlier responses or earlier calls asked.
HintHonored ==
  Outer!Waiting =>
    IF pc = "exhausted" /\ hint > 0 THEN oWait = hint ELSE oWait <= oBackoff

==============================================================================
