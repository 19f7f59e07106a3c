----------------------------- MODULE RoundTripper -----------------------------
(***************************************************************************)
(* Door 3, RetryRoundTripper.RoundTrip of roundtripper.go: the schedule    *)
(* resends a request through a base transport and owns two kinds of body.  *)
(* A response body is the door's from the base's answer until it is closed *)
(* or handed to the caller; a rewound request body is the door's from      *)
(* GetBody until the base takes it.                                        *)
(*                                                                         *)
(* Inside an attempt the closure is at build, prepare (the PrepareRetry    *)
(* hook), send (in the base transport) or check (the CheckRetry hook);     *)
(* inside a pause at hook (OnRetry, then the drain) or ready.              *)
(***************************************************************************)
EXTENDS Schedule, Errors

CONSTANTS
  Requests,            \* the requests a caller may send
  TransportErrors,     \* the errors the base transport may return
  Transports           \* TransportConfigs: [checkRetry : whether a caller's
                       \* CheckRetry is set, retryNonIdempotent : BOOLEAN]

ASSUME RoundTripperAssumption ==
  /\ Requests \subseteq [safe : BOOLEAN, body : {"none", "rewindable", "oneShot"}]
  /\ TransportErrors \subseteq Error /\ nil \notin TransportErrors
  /\ Transports \subseteq [checkRetry : BOOLEAN, retryNonIdempotent : BOOLEAN]
  /\ 0 \in Waits

VARIABLES
  rt,         \* the RetryRoundTripper's configuration
  req,        \* the caller's request
  step,       \* where the closure is
  resp, err,  \* the closure's captured results of the last round trip
  respBody,   \* the response body of each attempt
  tryBody,    \* the body of the request being built or sent
  endedAt     \* history: the attempt ctx ended in, or before

rtVars == <<rt, req, step, resp, err, respBody, tryBody, endedAt>>
vars == <<scheduleVars, rtVars>>

Attempts == 0 .. MaxAttempts - 1

\* An answer: the attempt it came with, the status rule's verdict, its header.
Responses(k) == [at : {k}, retryable : BOOLEAN, retryAfter : Waits]
NoResp == [at |-> -1, retryable |-> FALSE, retryAfter |-> 0]

CtxErr     == <<Layer("deadline")>>   \* canceled is read the same way
RewindErr  == <<Layer("wrap"), Layer("rewind")>>
PrepareErr == <<Layer("wrap"), Layer("prepare")>>
CheckErr   == <<Layer("check")>>

\* Mutant: the body is not asked whether it replays.
canRetryAnyBody(r) == r.safe \/ rt.retryNonIdempotent

\* May be sent more than once: safe or opted in, with a body that replays.
canRetry(r) == (r.safe \/ rt.retryNonIdempotent) /\ r.body # "oneShot"

RTInit ==
  /\ ScheduleInit
  /\ rt \in Transports
  /\ req \in Requests
  /\ step = IF canRetry(req) THEN "build" ELSE "send"
  /\ resp = NoResp /\ err = nil
  /\ respBody = [k \in Attempts |-> "none"]
  /\ tryBody = IF canRetry(req) \/ req.body = "none" THEN "none" ELSE "fresh"
  /\ endedAt = 0

\* drainResp of the captured response, if there is one.
Drained == [k \in Attempts |-> IF k = resp.at THEN "closed" ELSE respBody[k]]

(***************************************************************************)
(* buildAttemptRequest.                                                    *)
(***************************************************************************)

\* A clone shares the caller's body, consumed once the first attempt sent it;
\* GetBody, when the request has one, replaces it on a retry.
CloneBody == IF req.body = "none" THEN "none"
             ELSE IF n = 0 \/ req.body = "rewindable" THEN "fresh"
             ELSE "spent"

BuildAttempt ==
  /\ pc = "attempt" /\ step = "build"
  /\ tryBody' = CloneBody
  /\ step' = IF n = 0 THEN "send" ELSE "prepare"
  /\ UNCHANGED <<scheduleVars, rt, req, resp, err, respBody, endedAt>>

\* Mutant: the earlier response is kept beside the new error.
RewindFailsStale ==
  /\ step = "build"
  /\ n > 0 /\ req.body = "rewindable"
  /\ AttemptDone
  /\ err' = RewindErr
  /\ UNCHANGED <<rt, req, step, resp, respBody, tryBody, endedAt>>

RewindFails ==
  /\ step = "build"
  /\ n > 0 /\ req.body = "rewindable"
  /\ AttemptDone
  /\ resp' = NoResp /\ err' = RewindErr
  /\ UNCHANGED <<rt, req, step, respBody, tryBody, endedAt>>

Prepared ==
  /\ pc = "attempt" /\ step = "prepare"
  /\ step' = "send"
  /\ UNCHANGED <<scheduleVars, rt, req, resp, err, respBody, tryBody, endedAt>>

PrepareFails ==
  /\ step = "prepare"
  /\ AttemptDone
  /\ resp' = NoResp /\ err' = PrepareErr
  /\ UNCHANGED <<rt, req, step, respBody, tryBody, endedAt>>

(***************************************************************************)
(* roundTripOnce.  A request that may not be retried is passed through:    *)
(* the base's answer is the door's.  The base takes the request body.      *)
(***************************************************************************)

SendReturns ==
  /\ step = "send"
  /\ tryBody' = IF tryBody = "none" THEN "none" ELSE "spent"
  /\ IF canRetry(req)
       THEN pc = "attempt" /\ step' = "check" /\ UNCHANGED scheduleVars
       ELSE AttemptDone /\ UNCHANGED step
  /\ UNCHANGED <<rt, req, endedAt>>

BaseResponds(r) ==
  /\ SendReturns
  /\ resp' = r /\ err' = nil
  /\ respBody' = [respBody EXCEPT ![n] = "open"]

BaseFails(e) ==
  /\ SendReturns
  /\ resp' = NoResp /\ err' = nameHangUp(e)
  /\ UNCHANGED respBody

(***************************************************************************)
(* The verdict.                                                            *)
(***************************************************************************)

retryableRoundTrip == IF err # nil THEN IsTransient(err) ELSE resp.retryable

\* What CheckRetry may answer: the default policy, or whatever the caller's says.
Verdicts == IF rt.checkRetry THEN BOOLEAN ELSE {retryableRoundTrip}

\* Mutant: the response CheckRetry saw is dropped, not drained.
CheckFailsUndrained ==
  /\ step = "check"
  /\ rt.checkRetry
  /\ AttemptDone
  /\ resp' = NoResp /\ err' = CheckErr
  /\ UNCHANGED <<rt, req, step, respBody, tryBody, endedAt>>

CheckFails ==
  /\ step = "check"
  /\ rt.checkRetry
  /\ AttemptDone
  /\ respBody' = Drained
  /\ resp' = NoResp /\ err' = CheckErr
  /\ UNCHANGED <<rt, req, step, tryBody, endedAt>>

CheckStops ==
  /\ step = "check"
  /\ FALSE \in Verdicts
  /\ AttemptDone
  /\ UNCHANGED rtVars

CheckCallerGone ==
  /\ step = "check"
  /\ TRUE \in Verdicts /\ ctx = "ended"
  /\ AttemptDone
  /\ respBody' = Drained
  /\ resp' = NoResp /\ err' = CtxErr
  /\ UNCHANGED <<rt, req, step, tryBody, endedAt>>

\* Mutant: a retry is asked for without reading the context.
CheckRetriesBlind ==
  /\ step = "check"
  /\ TRUE \in Verdicts
  /\ AttemptFails(resp.retryAfter)
  /\ step' = "hook"
  /\ UNCHANGED <<rt, req, resp, err, respBody, tryBody, endedAt>>

CheckRetries ==
  /\ step = "check"
  /\ TRUE \in Verdicts /\ ctx = "live"
  /\ AttemptFails(resp.retryAfter)
  /\ step' = "hook"
  /\ UNCHANGED <<rt, req, resp, err, respBody, tryBody, endedAt>>

(***************************************************************************)
(* Between attempts: the pause hook, then the schedule's stops and sleep.  *)
(***************************************************************************)

\* Mutant: a pause releases nothing.
PauseUndrained ==
  /\ pc = "pause" /\ step = "hook"
  /\ step' = "ready"
  /\ UNCHANGED <<scheduleVars, rt, req, resp, err, respBody, tryBody, endedAt>>

Pause ==
  /\ pc = "pause" /\ step = "hook"
  /\ respBody' = Drained
  /\ step' = "ready"
  /\ UNCHANGED <<scheduleVars, rt, req, resp, err, tryBody, endedAt>>

Wait == /\ step = "ready"
        /\ StopElapsed \/ StartSleep \/ CtxEndsSleep
        /\ UNCHANGED rtVars

Retry == /\ step = "ready"
         /\ SkipSleep \/ TimerFires
         /\ step' = "build"
         /\ UNCHANGED <<rt, req, resp, err, respBody, tryBody, endedAt>>

(***************************************************************************)
(* The environment.                                                        *)
(***************************************************************************)

RTTick == Tick /\ UNCHANGED rtVars

RTEndCtx ==
  /\ EndCtx
  /\ endedAt' = IF pc = "attempt" THEN n ELSE n + 1
  /\ UNCHANGED <<rt, req, step, resp, err, respBody, tryBody>>

RTReturned == Returned /\ UNCHANGED rtVars

BaseReturns == \/ \E r \in Responses(n) : BaseResponds(r)
               \/ \E e \in TransportErrors : BaseFails(e)

\* These drain the captured response, whose body may stall.
BodyDrains == CheckFails \/ Pause

Program == \/ BuildAttempt \/ RewindFails \/ Prepared \/ PrepareFails
           \/ CheckStops \/ CheckCallerGone \/ CheckRetries
           \/ Wait \/ Retry

RTNext == BaseReturns \/ BodyDrains \/ Program \/ RTTick \/ RTEndCtx \/ RTReturned

\* Mutant: the clone is sent under a context of its own.
RequestCtxDetached == FALSE

\* The clone carries the caller's context.
RequestCtxEnded == ctx = "ended"

(***************************************************************************)
(* The base transport and the response bodies honor the request's context, *)
(* the hooks return and time passes.  While the context is live the base   *)
(* owes no answer and a body no end: the elapsed ceiling, which is checked *)
(* after the drain, interrupts neither.                                    *)
(***************************************************************************)
RTFairness ==
  /\ WF_vars(RequestCtxEnded /\ (BaseReturns \/ BodyDrains))
  /\ WF_vars(resp = NoResp /\ BodyDrains)
  /\ WF_vars(Program)
  /\ WF_vars(RTTick)

RTSpec == RTInit /\ [][RTNext]_vars /\ RTFairness

(***************************************************************************)
(* What RoundTrip returns.                                                 *)
(***************************************************************************)

returnedResp == IF pc \in {"judged", "exhausted"} THEN resp ELSE NoResp

returnedErr == CASE pc = "stopElapsed" -> <<Layer("elapsed")>> \o err
                 [] pc = "stopCtx"     -> CtxErr
                 [] OTHER              -> err

(***************************************************************************)
(* Properties.                                                             *)
(***************************************************************************)

\* Type invariant of the closure's captured variables and the two bodies.
RTTypeOK ==
  /\ rt \in Transports /\ req \in Requests
  /\ step \in {"build", "prepare", "send", "check", "hook", "ready"}
  /\ resp \in {NoResp} \cup UNION {Responses(k) : k \in Attempts}
  /\ err \in {nil, CtxErr, RewindErr, PrepareErr, CheckErr}
             \cup {nameHangUp(e) : e \in TransportErrors}
  /\ respBody \in [Attempts -> {"none", "open", "closed"}]
  /\ tryBody \in {"none", "fresh", "spent"}
  /\ endedAt \in 0 .. MaxAttempts

\* The inductive invariant.  A response is the door's to close from the base's
\* answer to the end of the pause; before the answer and after the pause no body
\* is open.  A body about to be sent is whole.  A context that ended while the
\* loop waits lets one attempt through.
Settled == \/ pc = "attempt" /\ step = "check"
           \/ pc = "pause" /\ step = "hook"
           \/ pc \in {"judged", "exhausted"}

Ownership ==
  /\ pc = "attempt" => step \in {"build", "prepare", "send", "check"}
  /\ pc = "pause"   => step \in {"hook", "ready"}
  /\ ~canRetry(req) => n = 0 /\ pc \in {"attempt", "judged"} /\ step = "send"
  /\ IF Settled
       THEN /\ \A k \in Attempts : respBody[k] = "open" <=> k = resp.at
            /\ resp = NoResp <=> err # nil
            /\ resp # NoResp => resp.at = n
       ELSE \A k \in Attempts : respBody[k] # "open"
  /\ pc = "attempt" /\ step \in {"prepare", "send"} => tryBody # "spent"
  /\ ctx = "ended" => n <= endedAt /\ (pc \in {"pause", "sleep"} => n < endedAt)

RTInv == RTTypeOK /\ Ownership

\* However the call ends (a verdict, exhaustion, a hook's error, the ceiling, the
\* caller's context), every response body is closed but the one handed to the
\* caller, and that one is the last attempt's and still open.
ResponsesAccounted ==
  pc \in Returns =>
    /\ \A k \in Attempts : respBody[k] = "open" <=> k = returnedResp.at
    /\ returnedResp # NoResp => returnedResp.at = n

\* While an attempt is built or in flight, no earlier response body is open: each
\* retry gives the failed attempt's connection back before it takes one.
OneResponseOpen ==
  pc = "attempt" /\ step \in {"build", "prepare", "send"} =>
    \A k \in Attempts : respBody[k] # "open"

\* http.RoundTripper's contract: a response or an error, never both or neither.
ResponseXorError ==
  pc \in Returns => (returnedResp = NoResp <=> returnedErr # nil)

\* A request that is not safe to repeat, or whose body cannot be replayed, is
\* sent once; and no attempt sends a body an earlier one consumed.
OnlyReplayableResent ==
  /\ ~req.safe /\ ~rt.retryNonIdempotent => n = 0
  /\ step = "send" => tryBody # "spent" \/ pc # "attempt"

\* A caller out of budget is not retried, even by a custom CheckRetry that asks
\* for it: no attempt begins after the one the context ended in, or after the
\* one a sleep's expiry let through in the race with the context.
NoRetryOnceCallerGone == ctx = "ended" => n <= endedAt

\* Once the request's context ends RoundTrip returns, wherever the call was held: in
\* the base transport, in a drain between two attempts, or asleep.
EndedCtxReturns == (ctx = "ended") ~> (pc \in Returns)

\* RoundTrip "implements http.RoundTripper", which must close the request body on
\* errors too: a body GetBody opened has reached the base by the time it returns.
RewoundBodyReleased == pc \in Returns => tryBody # "fresh"

==============================================================================
