------------------------------- MODULE GetBytes -------------------------------
(***************************************************************************)
(* Door 2, GetBytes of loop.go: each attempt is one http.Client.Do and,    *)
(* for a 2xx, a bounded read of its body.  The door reads no context       *)
(* itself: it relies on the client, which fails a request whose context    *)
(* has ended, and on the schedule's sleep.                                 *)
(*                                                                         *)
(* The client and the server are external.  A body is its length, and one  *)
(* byte past the cap stands for every longer one; a cap as wide as an      *)
(* int64 (MaxDur) has none past it.                                        *)
(***************************************************************************)
EXTENDS Schedule, Errors

CONSTANTS
  ClientErrors,   \* what a transport failure may be, below the *url.Error
  ReadErrors,     \* how reading a body may fail
  BodyCaps        \* the body caps a call may have, positive once normalized

ASSUME GetBytesAssumption ==
  /\ ClientErrors \cup ReadErrors \subseteq Error \ {nil}
  /\ BodyCaps \subseteq 1 .. MaxDur
  /\ MaxElapsed = 0
  /\ 0 \in Waits

VARIABLES
  maxBodyBytes, \* the call's body cap
  step,         \* do: in the client; read: reading a 2xx body
  body, err,    \* the closure's captured results
  retryAfter,   \* the last attempt's capped Retry-After
  open,         \* whether the attempt's response body is open
  served,       \* the length of the body being read
  hint,         \* history: the header of the last attempt's response
  startedDead   \* history: the attempt began under an ended context

gbVars == <<maxBodyBytes, step, body, err, retryAfter, open, served, hint, startedDead>>
vars == <<scheduleVars, gbVars>>

NoBody     == -1
CtxErr     == <<Layer("deadline")>>        \* canceled is read the same way
StatusErr  == <<Layer("status")>>          \* *StatusError is not Transient
TooLarge   == <<Layer("tooLarge")>>
UrlError(e) == <<Layer("url")>> \o e
InvalidErr == UrlError(<<Layer("opaque")>>)

GBInit ==
  /\ ScheduleInit
  /\ maxBodyBytes \in BodyCaps
  /\ step = "do"
  /\ body = NoBody /\ err = nil /\ retryAfter = 0
  /\ open = FALSE /\ served = 0
  /\ hint = 0
  /\ startedDead = (ctx = "ended")

\* What getAttempt hands back to the closure.
Yields(b, ra, e) == body' = b /\ retryAfter' = ra /\ err' = e

\* http.NewRequestWithContext refuses the URL.
RequestInvalid ==
  /\ step = "do"
  /\ n = 0
  /\ AttemptDone
  /\ Yields(NoBody, 0, InvalidErr)
  /\ UNCHANGED <<maxBodyBytes, step, open, served, hint, startedDead>>

\* Mutant: the hint of an earlier response stays.
ClientFailsStaleHint(e) ==
  /\ pc = "attempt" /\ step = "do"
  /\ startedDead => e = CtxErr
  /\ e = CtxErr => ctx = "ended"
  /\ IF IsTransient(UrlError(e)) THEN AttemptFails(0) ELSE AttemptDone
  /\ Yields(NoBody, retryAfter, UrlError(e))
  /\ hint' = 0
  /\ UNCHANGED <<maxBodyBytes, step, open, served, startedDead>>

\* The client wraps a transport failure in one *url.Error; under an ended
\* context the failure is the context's.
ClientFails(e) ==
  /\ pc = "attempt" /\ step = "do"
  /\ startedDead => e = CtxErr
  /\ e = CtxErr => ctx = "ended"
  /\ IF IsTransient(UrlError(e)) THEN AttemptFails(0) ELSE AttemptDone
  /\ Yields(NoBody, 0, UrlError(e))
  /\ hint' = 0
  /\ UNCHANGED <<maxBodyBytes, step, open, served, startedDead>>

\* IsRetryableStatus accepts: the body is drained, the header kept.
RetryableStatus(header) ==
  /\ step = "do"
  /\ ~startedDead
  /\ AttemptFails(header)
  /\ Yields(NoBody, header, StatusErr)
  /\ hint' = header
  /\ UNCHANGED <<maxBodyBytes, step, open, served, startedDead>>

\* Any other status outside 2xx settles the call; its header is not read.
FinalStatus(header) ==
  /\ step = "do"
  /\ ~startedDead
  /\ AttemptDone
  /\ Yields(NoBody, 0, StatusErr)
  /\ hint' = header
  /\ UNCHANGED <<maxBodyBytes, step, open, served, startedDead>>

SuccessStatus(length) ==
  /\ pc = "attempt" /\ step = "do"
  /\ ~startedDead
  /\ step' = "read"
  /\ open' = TRUE
  /\ served' = length
  /\ hint' = 0
  /\ UNCHANGED <<scheduleVars, maxBodyBytes, body, err, retryAfter, startedDead>>

(***************************************************************************)
(* ReadLimitedBody: a probe of one byte past the cap, a deferred close.    *)
(***************************************************************************)
Lengths == 0 .. (IF maxBodyBytes < MaxDur THEN maxBodyBytes + 1 ELSE MaxDur)

\* Mutant: the probe stops at the cap.
probeAtCap == maxBodyBytes

probe == IF maxBodyBytes < MaxDur THEN Wrap(maxBodyBytes + 1) ELSE maxBodyBytes

\* io.LimitReader yields nothing past its limit, and nothing at all below zero.
LimitRead(limit) == IF limit < 0 THEN 0 ELSE IF served < limit THEN served ELSE limit

ReadLimitedBody ==
  LET data == LimitRead(probe)
  IN  IF data > maxBodyBytes THEN Yields(NoBody, 0, TooLarge) ELSE Yields(data, 0, nil)

\* Mutant: the body is read and left open.
ReadEndsUnclosed ==
  /\ step = "read"
  /\ AttemptDone
  /\ ReadLimitedBody
  /\ UNCHANGED <<maxBodyBytes, step, open, served, hint, startedDead>>

ReadEnds ==
  /\ step = "read"
  /\ AttemptDone
  /\ ReadLimitedBody
  /\ open' = FALSE
  /\ UNCHANGED <<maxBodyBytes, step, served, hint, startedDead>>

\* A cut connection, or the context that ended under the read.
ReadErr(e) == <<Layer("wrap")>> \o e

ReadFails(e) ==
  /\ step = "read"
  /\ e = CtxErr => ctx = "ended"
  /\ AttemptDone
  /\ Yields(NoBody, 0, ReadErr(e))
  /\ open' = FALSE
  /\ UNCHANGED <<maxBodyBytes, step, served, hint, startedDead>>

(***************************************************************************)
(* Between attempts, and the environment.                                  *)
(***************************************************************************)
Wait == (StartSleep \/ CtxEndsSleep) /\ UNCHANGED gbVars

Retry ==
  /\ SkipSleep \/ TimerFires
  /\ startedDead' = (ctx = "ended")
  /\ UNCHANGED <<maxBodyBytes, step, body, err, retryAfter, open, served, hint>>

GBTick     == Tick /\ UNCHANGED gbVars
GBEndCtx   == EndCtx /\ UNCHANGED gbVars
GBReturned == Returned /\ UNCHANGED gbVars

ClientReturns ==
  \/ RequestInvalid
  \/ \E e \in ClientErrors \cup {CtxErr} : ClientFails(e)
  \/ \E header \in Waits : RetryableStatus(header) \/ FinalStatus(header)
  \/ \E length \in Lengths : SuccessStatus(length)

BodyReturns == ReadEnds \/ \E e \in ReadErrors \cup {CtxErr} : ReadFails(e)

GBNext == ClientReturns \/ BodyReturns \/ Wait \/ Retry
            \/ GBTick \/ GBEndCtx \/ GBReturned

\* Mutant: the request carries no context of the caller's.
RequestCtxDetached == FALSE

\* The request carries the caller's context.
RequestCtxEnded == ctx = "ended"

(***************************************************************************)
(* The client and its response bodies honor the request's context, the     *)
(* loop's goroutine is scheduled and time passes.                          *)
(***************************************************************************)
GBFairness ==
  /\ WF_vars(RequestCtxEnded /\ (ClientReturns \/ BodyReturns))
  /\ WF_vars(Wait \/ Retry)
  /\ WF_vars(GBTick)

GBSpec == GBInit /\ [][GBNext]_vars /\ GBFairness

(***************************************************************************)
(* What GetBytes returns.                                                  *)
(***************************************************************************)
returnedBody == IF pc = "judged" /\ err = nil THEN body ELSE NoBody

Exhausted(e, ra) ==
  LET exhaustedErr == <<Layer("wrap")>> \o e
  IN  IF ra > 0 THEN <<Timed("hint", ra)>> \o exhaustedErr ELSE exhaustedErr

returnedErr ==
  CASE pc = "stopCtx"   -> CtxErr
    [] pc = "exhausted" -> Exhausted(LogSafeError(err), retryAfter)
    [] OTHER            -> LogSafeError(err)

(***************************************************************************)
(* Properties.                                                             *)
(***************************************************************************)

AttemptErrors ==
  {InvalidErr, StatusErr, TooLarge, UrlError(CtxErr)}
    \cup {UrlError(e) : e \in ClientErrors}
    \cup {ReadErr(e) : e \in ReadErrors \cup {CtxErr}}

\* Type invariant of the closure's captured variables.
GBTypeOK ==
  /\ maxBodyBytes \in BodyCaps
  /\ step \in {"do", "read"}
  /\ body \in {NoBody} \cup 0 .. maxBodyBytes
  /\ err \in {nil} \cup AttemptErrors
  /\ retryAfter \in Waits
  /\ open \in BOOLEAN /\ startedDead \in BOOLEAN
  /\ served \in Lengths
  /\ hint \in Waits

\* The inductive invariant.  A response body is open exactly while it is read, so
\* GetBytes leaves none behind however an attempt ends; a body is captured by a
\* settled attempt alone; the loop waits with the last attempt's own hint; what
\* exhausts the budget is a status or a transient failure of the client, and those
\* settle no call, though a transient failure to read the body does; and the
\* context's own error is only seen once the context has ended.
GBInv ==
  /\ GBTypeOK
  /\ open <=> pc = "attempt" /\ step = "read"
  /\ body # NoBody => pc = "judged" /\ err = nil /\ body = served
  /\ pc = "judged" => (err = nil <=> body # NoBody)
  /\ pc \in {"pause", "sleep", "exhausted"} =>
       step = "do" /\ err # nil /\ retryAfter = hint
  /\ pc = "exhausted" =>
       err = StatusErr \/ (IsTransient(err) /\ \E e \in ClientErrors : err = UrlError(e))
  /\ pc = "judged" /\ IsTransient(err) => \E e \in ReadErrors \cup {CtxErr} : err = ReadErr(e)
  /\ pc = "stopCtx" \/ err \in {UrlError(CtxErr), ReadErr(CtxErr)} => ctx = "ended"
  /\ pc # "stopElapsed"
  /\ ctx = "live" => ~startedDead

\* A returned body is the whole body the server sent and within the cap; past
\* the cap nothing is returned but a too-large error.
BodyNeverTruncated ==
  pc \in Returns =>
    /\ returnedBody # NoBody => returnedBody = served /\ served <= maxBodyBytes
    /\ returnedBody = NoBody <=> returnedErr # nil

\* No error leaves GetBytes with a *url.Error in it, whose message is the raw URL,
\* and an exhausted call's error still names a cause worth the retries.
ReturnedErrorSafe ==
  pc \in Returns =>
    /\ ~Is(returnedErr, {"url"})
    /\ pc = "exhausted" => Is(returnedErr, {"status"}) \/ IsTransient(returnedErr)

\* README.md: "All three entry points retry transient network errors", which
\* docs/retries.md says include "an unexpected end of body": a call settled before
\* its budget is spent was not settled by a transient error.
TransientErrorsRetried == pc = "judged" => ~IsTransient(err)

==============================================================================
