-------------------------- MODULE RoundTripperProofs --------------------------
(***************************************************************************)
(* RoundTripper.tla's safety for every budget, request, base transport,    *)
(* policy and ceiling: the door runs the schedule, accounts for every      *)
(* response body, and retries no caller whose context has ended.           *)
(***************************************************************************)
EXTENDS RoundTripper, ScheduleProofs, OperatorProofs

\* The errors the door makes are errors, and naming a hang-up keeps one.
LEMMA NotNil ==
  /\ CtxErr # nil /\ RewindErr # nil /\ PrepareErr # nil /\ CheckErr # nil
  /\ \A e \in TransportErrors : nameHangUp(e) # nil
BY RoundTripperAssumption
   DEF CtxErr, RewindErr, PrepareErr, CheckErr, nil, nameHangUp, errServerClosed, Layer

\* A captured response is none, or one some attempt brought.
LEMMA ResponseShape ==
  ASSUME RTInv
  PROVE  /\ resp.retryAfter \in Waits
         /\ resp = NoResp => resp.at = -1
         /\ resp # NoResp => resp.at \in Attempts
BY RoundTripperAssumption DEF RTInv, RTTypeOK, Responses, NoResp

\* Each step of the door is a step of the schedule, or leaves it where it is.
LEMMA StepOfSchedule == RTInv /\ [RTNext]_vars => [ScheduleNext]_scheduleVars
<1> SUFFICES ASSUME RTInv, [RTNext]_vars  PROVE [ScheduleNext]_scheduleVars
  OBVIOUS
<1>1. ASSUME NEW r \in Responses(n), BaseResponds(r)
      PROVE  [ScheduleNext]_scheduleVars
  BY <1>1 DEF BaseResponds, SendReturns, ScheduleNext
<1>2. ASSUME NEW e \in TransportErrors, BaseFails(e)
      PROVE  [ScheduleNext]_scheduleVars
  BY <1>2 DEF BaseFails, SendReturns, ScheduleNext
<1>3. CASE CheckRetries
  BY <1>3, ResponseShape DEF CheckRetries, ScheduleNext
<1>4. CASE BuildAttempt \/ Prepared \/ Pause
  BY <1>4 DEF BuildAttempt, Prepared, Pause
<1>5. CASE RewindFails \/ PrepareFails \/ CheckFails \/ CheckStops \/ CheckCallerGone
  BY <1>5 DEF RewindFails, PrepareFails, CheckFails, CheckStops, CheckCallerGone,
              ScheduleNext
<1>6. CASE Wait \/ Retry \/ RTTick \/ RTEndCtx \/ RTReturned
  BY <1>6 DEF Wait, Retry, RTTick, RTEndCtx, RTReturned, ScheduleNext, Between
<1>7. CASE UNCHANGED vars
  BY <1>7 DEF vars
<1> QED BY <1>1, <1>2, <1>3, <1>4, <1>5, <1>6, <1>7 DEF RTNext, BaseReturns, BodyDrains, Program

\* Draining the captured response leaves no body open.
LEMMA DrainedClosesAll ==
  ASSUME RTInv, Settled
  PROVE  \A k \in Attempts : Drained[k] # "open"
BY DEF RTInv, RTTypeOK, Ownership, Drained

(***************************************************************************)
(* The inductive invariant.                                                *)
(***************************************************************************)

\* A call starts with no response and no body of its own open.
LEMMA RTInvInit == RTInit => RTInv
BY RoundTripperAssumption, ScheduleAssumption
   DEF RTInit, ScheduleInit, RTInv, RTTypeOK, Ownership, Settled, Attempts

\* Every step of the door keeps its variables' types.
LEMMA RTTypeStep == ScheduleInv /\ RTInv /\ [RTNext]_vars => RTTypeOK'
<1> SUFFICES ASSUME ScheduleInv, RTInv, [RTNext]_vars  PROVE RTTypeOK'
  OBVIOUS
<1>n. RTTypeOK /\ n \in Attempts
  BY DEF ScheduleInv, ScheduleTypeOK, RTInv, Attempts
<1>d. Drained \in [Attempts -> {"none", "open", "closed"}]
  BY <1>n DEF RTTypeOK, Drained
<1> USE <1>n, ScheduleAssumption DEF RTTypeOK
<1>1. CASE BuildAttempt
  BY <1>1 DEF BuildAttempt, CloneBody
<1>2. CASE RewindFails \/ PrepareFails
  BY <1>2 DEF RewindFails, PrepareFails
<1>3. CASE Prepared
  BY <1>3 DEF Prepared
<1>4. ASSUME NEW r \in Responses(n), BaseResponds(r)  PROVE RTTypeOK'
  <2>1. r \in UNION {Responses(k) : k \in Attempts}
    OBVIOUS
  <2> QED BY <1>4, <2>1 DEF BaseResponds, SendReturns
<1>5. ASSUME NEW e \in TransportErrors, BaseFails(e)  PROVE RTTypeOK'
  BY <1>5 DEF BaseFails, SendReturns
<1>6. CASE CheckFails \/ CheckStops \/ CheckCallerGone \/ CheckRetries
  BY <1>6, <1>d DEF CheckFails, CheckStops, CheckCallerGone, CheckRetries, rtVars
<1>7. CASE Pause
  BY <1>7, <1>d DEF Pause
<1>8. CASE Wait \/ Retry \/ RTTick \/ RTReturned \/ UNCHANGED vars
  BY <1>8 DEF Wait, Retry, RTTick, RTReturned, rtVars, vars
<1>9. CASE RTEndCtx
  BY <1>9 DEF RTEndCtx, Attempts
<1> QED BY <1>1, <1>2, <1>3, <1>4, <1>5, <1>6, <1>7, <1>8, <1>9
        DEF RTNext, BaseReturns, BodyDrains, Program

\* Every step of the door keeps what it says of the bodies.
LEMMA OwnershipStep == ScheduleInv /\ RTInv /\ [RTNext]_vars => Ownership'
<1> SUFFICES ASSUME ScheduleInv, RTInv, [RTNext]_vars  PROVE Ownership'
  OBVIOUS
<1>n. n \in Attempts /\ pc \in Running \cup Returns
  BY DEF ScheduleInv, ScheduleTypeOK, Attempts
<1>t. /\ Ownership /\ respBody \in [Attempts -> {"none", "open", "closed"}]
      /\ resp = NoResp \/ resp \in UNION {Responses(k) : k \in Attempts}
      /\ endedAt \in Nat
  BY ScheduleAssumption DEF RTInv, RTTypeOK
<1>b. req.body \in {"none", "rewindable", "oneShot"}
  BY RoundTripperAssumption DEF RTInv, RTTypeOK
<1> USE <1>n, <1>t, ScheduleAssumption DEF Ownership, Settled, canRetry, Attempts,
                                   Running, Returns
<1>1. CASE BuildAttempt
  BY <1>1, <1>b DEF BuildAttempt, CloneBody, scheduleVars
<1>2. CASE RewindFails
  BY <1>2, NotNil DEF RewindFails, AttemptDone, NoResp
<1>3. CASE Prepared
  BY <1>3 DEF Prepared, scheduleVars
<1>4. CASE PrepareFails
  BY <1>4, NotNil DEF PrepareFails, AttemptDone, NoResp
<1>5. ASSUME NEW r \in Responses(n), BaseResponds(r)  PROVE Ownership'
  <2>1. r \in UNION {Responses(k) : k \in Attempts} /\ r.at = n /\ r # NoResp
    BY DEF Responses, NoResp
  <2>2. CASE canRetry(req)
    BY <1>5, <2>1, <2>2 DEF BaseResponds, SendReturns, scheduleVars
  <2>3. CASE ~canRetry(req)
    BY <1>5, <2>1, <2>3 DEF BaseResponds, SendReturns, AttemptDone
  <2> QED BY <2>2, <2>3
<1>6. ASSUME NEW e \in TransportErrors, BaseFails(e)  PROVE Ownership'
  <2>1. nameHangUp(e) # nil
    BY NotNil
  <2>2. CASE canRetry(req)
    BY <1>6, <2>1, <2>2 DEF BaseFails, SendReturns, scheduleVars, NoResp
  <2>3. CASE ~canRetry(req)
    BY <1>6, <2>1, <2>3 DEF BaseFails, SendReturns, AttemptDone, NoResp
  <2> QED BY <2>2, <2>3
<1>7. CASE CheckFails
  BY <1>7, NotNil, DrainedClosesAll DEF CheckFails, AttemptDone, NoResp
<1>8. CASE CheckStops
  BY <1>8 DEF CheckStops, AttemptDone, rtVars
<1>9. CASE CheckCallerGone
  BY <1>9, NotNil, DrainedClosesAll DEF CheckCallerGone, AttemptDone, NoResp
<1>10. CASE CheckRetries
  BY <1>10 DEF CheckRetries, AttemptFails
<1>11. CASE Pause
  BY <1>11, DrainedClosesAll DEF Pause, scheduleVars
<1>12. CASE Wait
  BY <1>12 DEF Wait, StopElapsed, StartSleep, CtxEndsSleep, rtVars
<1>13. CASE Retry
  BY <1>13 DEF Retry, SkipSleep, TimerFires, NextAttempt
<1>14. CASE RTTick
  BY <1>14 DEF RTTick, Tick, rtVars
<1>15. CASE RTEndCtx
  BY <1>15 DEF RTEndCtx, EndCtx
<1>16. CASE RTReturned \/ UNCHANGED vars
  BY <1>16 DEF RTReturned, Returned, scheduleVars, rtVars, vars
<1> QED BY <1>1, <1>2, <1>3, <1>4, <1>5, <1>6, <1>7, <1>8, <1>9, <1>10, <1>11,
           <1>12, <1>13, <1>14, <1>15, <1>16
        DEF RTNext, BaseReturns, BodyDrains, Program

\* The schedule's invariant and the door's, together, hold of every behaviour.
THEOREM RTInductiveInvariant == RTSpec => [](ScheduleInv /\ RTInv)
<1>1. RTInit => ScheduleInv /\ RTInv
  BY ScheduleInvInit, RTInvInit DEF RTInit
<1>2. ScheduleInv /\ RTInv /\ [RTNext]_vars => ScheduleInv' /\ RTInv'
  BY StepOfSchedule, ScheduleInvStep, RTTypeStep, OwnershipStep DEF RTInv
<1> QED BY <1>1, <1>2, PTL DEF RTSpec

(***************************************************************************)
(* What follows from it.                                                   *)
(***************************************************************************)

\* The transport runs the schedule: whatever schedule.run guarantees (the budget,
\* the waits, the ceiling, the promise) holds of every RoundTrip.
THEOREM RTRunsSchedule == RTSpec => ScheduleSafety
<1>1. RTInit => ScheduleInit
  BY DEF RTInit
<1> QED BY <1>1, StepOfSchedule, RTInductiveInvariant, PTL DEF RTSpec, ScheduleSafety

\* So it implements the bounded-retry promise.
THEOREM RTKeepsPromise == RTSpec => KeepsPromiseSafety
BY RTRunsSchedule, ImplementsPromise, PTL

\* However a RoundTrip ends, every response body is closed but the returned one.
THEOREM RTResponsesAccounted == RTSpec => []ResponsesAccounted
<1>1. ASSUME ScheduleInv, RTInv, pc \in {"judged", "exhausted"}
      PROVE  ResponsesAccounted
  <2>1. returnedResp = resp
    BY <1>1 DEF returnedResp
  <2> QED BY <1>1, <2>1 DEF RTInv, Ownership, Settled, ResponsesAccounted
<1>2. ASSUME ScheduleInv, RTInv, pc \notin {"judged", "exhausted"}
      PROVE  ResponsesAccounted
  <2>1. returnedResp = NoResp /\ \A k \in Attempts : k # NoResp.at
    BY <1>2, ScheduleAssumption DEF returnedResp, NoResp, Attempts
  <2> QED BY <1>2, <2>1 DEF RTInv, Ownership, Settled, ResponsesAccounted, Returns
<1>3. ScheduleInv /\ RTInv => ResponsesAccounted
  BY <1>1, <1>2
<1> QED BY <1>3, RTInductiveInvariant, PTL

\* A captured error has layers, so the ceiling's error is one more on top of it.
LEMMA ErrorShape ==
  ASSUME RTInv
  PROVE  err \in Error /\ <<Layer("elapsed")>> \o err # nil
<1>1. /\ nil \in Error /\ CtxErr \in Error /\ CheckErr \in Error
      /\ RewindErr \in Error /\ PrepareErr \in Error
  <2>1. \A k \in {"deadline", "wrap", "rewind", "prepare", "check"} : Layer(k) \in LayerSet
    BY DEF Layer, LayerSet, Kinds, OwnKinds, LibraryKinds
  <2> QED BY <2>1, SmallErrors DEF CtxErr, CheckErr, RewindErr, PrepareErr
<1>2. \A e \in TransportErrors : nameHangUp(e) \in Error
  BY RoundTripperAssumption, CauseOfNothing DEF nameHangUp
<1>3. err \in Error
  BY <1>1, <1>2 DEF RTInv, RTTypeOK
<1>4. Layer("elapsed") \in LayerSet
  BY DEF Layer, LayerSet, Kinds, OwnKinds, LibraryKinds
<1> QED BY <1>3, <1>4, LayerOnTop

\* RoundTrip returns a response or an error, never both and never neither.
THEOREM RTResponseXorError == RTSpec => []ResponseXorError
<1>1. ASSUME RTInv, pc \in Returns  PROVE (returnedResp = NoResp <=> returnedErr # nil)
  <2>1. CASE pc \in {"judged", "exhausted"}
    <3>1. returnedResp = resp /\ returnedErr = err
      BY <2>1 DEF returnedResp, returnedErr
    <3> QED BY <1>1, <2>1, <3>1 DEF RTInv, Ownership, Settled
  <2>2. CASE pc = "stopElapsed"
    BY <1>1, <2>2, ErrorShape DEF returnedResp, returnedErr
  <2>3. CASE pc = "stopCtx"
    BY <2>3, NotNil DEF returnedResp, returnedErr
  <2> QED BY <1>1, <2>1, <2>2, <2>3 DEF Returns
<1>2. RTInv => ResponseXorError
  BY <1>1 DEF ResponseXorError
<1> QED BY <1>2, RTInductiveInvariant, PTL

\* No retry is built or sent while an earlier response body is open.
THEOREM RTOneResponseOpen == RTSpec => []OneResponseOpen
<1>1. RTInv => OneResponseOpen
  BY DEF RTInv, Ownership, Settled, OneResponseOpen
<1> QED BY <1>1, RTInductiveInvariant, PTL

\* What may not be repeated is sent once, and no attempt sends a consumed body.
THEOREM RTOnlyReplayableResent == RTSpec => []OnlyReplayableResent
<1>1. RTInv => OnlyReplayableResent
  BY DEF RTInv, Ownership, canRetry, OnlyReplayableResent
<1> QED BY <1>1, RTInductiveInvariant, PTL

\* A retry never begins for a caller whose context ended, but for the one attempt
\* a sleep's expiry may let through.
THEOREM RTNoRetryOnceCallerGone == RTSpec => []NoRetryOnceCallerGone
<1>1. RTInv => NoRetryOnceCallerGone
  BY DEF RTInv, Ownership, NoRetryOnceCallerGone
<1> QED BY <1>1, RTInductiveInvariant, PTL

==============================================================================
