---------------------------- MODULE GetBytesProofs ----------------------------
(***************************************************************************)
(* GetBytes.tla's safety for every budget, set of failures, body cap and   *)
(* Retry-After, and NestedGet.tla's for every two loops: GetBytes runs the *)
(* schedule, closes what it opens, returns whole bodies and safe errors,   *)
(* and as the function of a Do it is a function Do's proofs speak of.      *)
(***************************************************************************)
EXTENDS NestedGet, ScheduleProofs

(***************************************************************************)
(* The errors of one attempt.                                              *)
(***************************************************************************)

\* The layers GetBytes puts on and the errors it makes itself.
LEMMA OwnLayers ==
  /\ \A k \in {"url", "wrap", "deadline", "status", "tooLarge", "opaque"} :
       Layer(k) \in LayerSet /\ Layer(k).kind = k
  /\ {CtxErr, StatusErr, TooLarge} \subseteq Error \ {nil}
  /\ <<Layer("opaque")>> \in Error
<1>1. \A k \in {"url", "wrap", "deadline", "status", "tooLarge", "opaque"} :
        Layer(k) \in LayerSet /\ Layer(k).kind = k
  BY DEF Layer, LayerSet, Kinds, OwnKinds, LibraryKinds
<1>2. {CtxErr, StatusErr, TooLarge} \subseteq Error \ {nil} /\ <<Layer("opaque")>> \in Error
  BY <1>1, SmallErrors, OfOneLayer DEF CtxErr, StatusErr, TooLarge
<1> QED BY <1>1, <1>2

\* What an attempt may fail with is an error and not nil.
LEMMA AttemptErrorType == AttemptErrors \subseteq Error \ {nil}
<1>1. \A e \in Error : UrlError(e) \in Error \ {nil} /\ ReadErr(e) \in Error \ {nil}
  BY OwnLayers, LayerOnTop DEF UrlError, ReadErr
<1>2. ClientErrors \cup ReadErrors \cup {CtxErr} \subseteq Error
  BY GetBytesAssumption, OwnLayers
<1>3. {InvalidErr, UrlError(CtxErr)} \subseteq Error \ {nil}
  BY <1>1, OwnLayers DEF InvalidErr
<1>4. \A e \in ClientErrors : UrlError(e) \in Error \ {nil}
  BY <1>1, <1>2
<1>5. \A e \in ReadErrors \cup {CtxErr} : ReadErr(e) \in Error \ {nil}
  BY <1>1, <1>2
<1> QED BY <1>3, <1>4, <1>5, OwnLayers DEF AttemptErrors

\* The errors that settle a call whatever they are in.
LEMMA FinalErrors ==
  /\ ~IsTransient(CtxErr) /\ ~IsTransient(UrlError(CtxErr))
  /\ ~IsTransient(StatusErr) /\ ~IsTransient(TooLarge) /\ ~IsTransient(InvalidErr)
<1>1. ~IsTransient(CtxErr) /\ ~IsTransient(UrlError(CtxErr))
  <2>1. /\ \A kinds : Is(CtxErr, kinds) <=> "deadline" \in kinds
        /\ \A kinds : Is(UrlError(CtxErr), kinds) <=> "url" \in kinds \/ "deadline" \in kinds
    BY OwnLayers, IsOnTop, OfOneLayer DEF UrlError, CtxErr
  <2> QED BY <2>1 DEF IsTransient, IsAttemptTimeout, isCallerContextError, MatchesDeadline
<1>2. ~IsTransient(StatusErr) /\ ~IsTransient(TooLarge)
  BY OwnLayers, PlainIsFinal DEF StatusErr, TooLarge
<1>3. ~IsTransient(InvalidErr)
  <2> DEFINE t == <<Layer("opaque")>>
  <2>1. t \in Error /\ t # nil /\ ~Is(t, {"url"}) /\ ~IsTransient(t)
    BY OwnLayers, OfOneLayer, PlainIsFinal
  <2>2. t # <<Layer("eof")>>
    BY DEF Layer
  <2> HIDE DEF t
  <2>3. reduceURLErrors(<<Layer("url")>> \o t) = t
    BY <2>1, <2>2, OwnLayers, ReducedOnce DEF nameHangUp
  <2>4. ~IsTransient(<<Layer("url")>> \o t)
    BY <2>1, <2>3, OwnLayers, ReductionKeepsTransience
  <2> QED BY <2>4 DEF t, InvalidErr, UrlError
<1> QED BY <1>1, <1>2, <1>3

\* No error is none to retry.
LEMMA NothingIsFinal == ~IsTransient(nil)
<1>1. \A kinds : ~Is(nil, kinds)
  BY DEF Is, nil
<1>2. ~isReset(nil) /\ ~isTimeout(nil)
  BY <1>1 DEF isReset, isTimeout
<1> QED BY <1>1, <1>2, CauseTransient DEF IsTransient, IsAttemptTimeout

\* Only the context's error is the context's error, in the client's wrap and the
\* body reader's.
LEMMA ErrorsApart ==
  /\ \A e \in Error : /\ UrlError(e) \in {UrlError(CtxErr), ReadErr(CtxErr)} => e = CtxErr
                      /\ ReadErr(e) \in {UrlError(CtxErr), ReadErr(CtxErr)} => e = CtxErr
  /\ {nil, InvalidErr, StatusErr, TooLarge} \cap {UrlError(CtxErr), ReadErr(CtxErr)} = {}
<1>1. CtxErr \in Error /\ <<Layer("opaque")>> \in Error /\ <<Layer("opaque")>> # CtxErr
  BY OwnLayers DEF CtxErr, Layer
<1>2. \A e \in Error : /\ Below(UrlError(e), 1) = e /\ UrlError(e)[1].kind = "url"
                       /\ Below(ReadErr(e), 1) = e /\ ReadErr(e)[1].kind = "wrap"
                       /\ UrlError(e) # nil /\ ReadErr(e) # nil
  <2> SUFFICES ASSUME NEW e \in Error
               PROVE  /\ Below(UrlError(e), 1) = e /\ UrlError(e)[1].kind = "url"
                      /\ Below(ReadErr(e), 1) = e /\ ReadErr(e)[1].kind = "wrap"
                      /\ UrlError(e) # nil /\ ReadErr(e) # nil
    OBVIOUS
  <2>1. ASSUME NEW k \in {"url", "wrap"}
        PROVE  /\ Below(<<Layer(k)>> \o e, 1) = e
               /\ (<<Layer(k)>> \o e)[1].kind = k
               /\ <<Layer(k)>> \o e # nil
    <3> DEFINE x == Layer(k)
    <3>1. x \in LayerSet /\ x.kind = k
      BY OwnLayers
    <3> HIDE DEF x
    <3>2. <<x>> \o e \in Error /\ <<x>> \o e # nil /\ (<<x>> \o e)[1] = x
      BY <3>1, LayerOnTop
    <3>3. Below(<<x>> \o e, 1) = e
      BY <3>2, BelowOutermost
    <3> QED BY <3>1, <3>2, <3>3 DEF x
  <2> QED BY <2>1 DEF UrlError, ReadErr
<1>3. StatusErr[1].kind = "status" /\ TooLarge[1].kind = "tooLarge"
  BY DEF StatusErr, TooLarge, Layer
<1>4. \A e \in Error : UrlError(e) = UrlError(CtxErr) => e = CtxErr
  BY <1>1, <1>2
<1>5. \A e \in Error : ReadErr(e) = ReadErr(CtxErr) => e = CtxErr
  BY <1>1, <1>2
<1>6. \A e \in Error : UrlError(e) # ReadErr(CtxErr) /\ ReadErr(e) # UrlError(CtxErr)
  BY <1>1, <1>2
<1>7. InvalidErr # UrlError(CtxErr) /\ InvalidErr # ReadErr(CtxErr)
  BY <1>1, <1>4, <1>6 DEF InvalidErr
<1>8. \A e \in {nil, StatusErr, TooLarge} : e # UrlError(CtxErr) /\ e # ReadErr(CtxErr)
  BY <1>1, <1>2, <1>3
<1> QED BY <1>4, <1>5, <1>6, <1>7, <1>8

(***************************************************************************)
(* GetBytes runs the schedule.                                             *)
(***************************************************************************)

\* Whatever the client answers, the schedule sees an attempt done or failed, and the
\* explicit wait is a header's or none.
LEMMA GetStepOfSchedule == [GBNext]_vars => [ScheduleNext]_scheduleVars
<1> SUFFICES ASSUME [GBNext]_vars  PROVE [ScheduleNext]_scheduleVars
  OBVIOUS
<1>1. CASE RequestInvalid
  BY <1>1 DEF RequestInvalid, ScheduleNext
<1>2. ASSUME NEW e \in ClientErrors \cup {CtxErr}, ClientFails(e)
      PROVE  [ScheduleNext]_scheduleVars
  BY <1>2, GetBytesAssumption DEF ClientFails, ScheduleNext
<1>3. ASSUME NEW header \in Waits, RetryableStatus(header) \/ FinalStatus(header)
      PROVE  [ScheduleNext]_scheduleVars
  BY <1>3 DEF RetryableStatus, FinalStatus, ScheduleNext
<1>4. ASSUME NEW length \in Lengths, SuccessStatus(length)  PROVE [ScheduleNext]_scheduleVars
  BY <1>4 DEF SuccessStatus
<1>5. CASE BodyReturns
  BY <1>5 DEF BodyReturns, ReadEnds, ReadFails, ScheduleNext
<1>6. CASE Wait \/ Retry
  BY <1>6 DEF Wait, Retry, ScheduleNext, Between
<1>7. CASE GBTick \/ GBEndCtx \/ GBReturned
  BY <1>7 DEF GBTick, GBEndCtx, GBReturned, ScheduleNext
<1>8. CASE UNCHANGED vars
  BY <1>8 DEF vars
<1> QED BY <1>1, <1>2, <1>3, <1>4, <1>5, <1>6, <1>7, <1>8 DEF GBNext, ClientReturns

\* A call of GetBytes is a run of the schedule, so what schedule.run guarantees of
\* its budget and waits holds of it.
THEOREM GBRunsSchedule == GBSpec => ScheduleSafety
<1>1. GBInit => ScheduleInit
  BY DEF GBInit
<1> QED BY <1>1, GetStepOfSchedule, PTL DEF GBSpec, ScheduleSafety

\* So it implements the bounded-retry promise.
THEOREM GBKeepsPromise == GBSpec => KeepsPromiseSafety
BY GBRunsSchedule, ImplementsPromise, PTL

(***************************************************************************)
(* The inductive invariant.                                                *)
(***************************************************************************)

\* A call begins with nothing captured and nothing open.
LEMMA GBInvInit == GBInit => GBInv
<1> SUFFICES ASSUME GBInit  PROVE GBInv
  OBVIOUS
<1>1. /\ maxBodyBytes \in 1 .. MaxDur /\ maxBodyBytes \in BodyCaps /\ 0 \in Waits
      /\ MaxDur \in Nat
  BY GetBytesAssumption, DurationsAssumption DEF GBInit
<1>2. 0 \in Lengths
  BY <1>1 DEF Lengths
<1>3. GBTypeOK
  BY <1>1, <1>2 DEF GBInit, GBTypeOK
<1> QED BY <1>3, ErrorsApart DEF GBInit, ScheduleInit, GBInv

\* Reading a body of the length served yields it whole, or nothing past the cap.
LEMMA ReadIsWhole ==
  ASSUME GBTypeOK
  PROVE  LET data == LimitRead(probe)
         IN  /\ data \in Nat
             /\ data <= maxBodyBytes => data = served
             /\ data > maxBodyBytes <=> served > maxBodyBytes
<1>1. maxBodyBytes \in 1 .. MaxDur /\ served \in Lengths /\ MaxDur \in Nat
  BY GetBytesAssumption, DurationsAssumption DEF GBTypeOK
<1>2. CASE maxBodyBytes < MaxDur
  <2>1. probe = maxBodyBytes + 1
    BY <1>1, <1>2 DEF probe, Wrap
  <2>2. served \in 0 .. maxBodyBytes + 1
    BY <1>1, <1>2 DEF Lengths
  <2> QED BY <1>1, <2>1, <2>2 DEF LimitRead
<1>3. CASE ~(maxBodyBytes < MaxDur)
  <2>1. probe = maxBodyBytes /\ maxBodyBytes = MaxDur
    BY <1>1, <1>3 DEF probe
  <2>2. served \in 0 .. maxBodyBytes
    BY <1>1, <1>3, <2>1 DEF Lengths
  <2> QED BY <1>1, <2>1, <2>2 DEF LimitRead
<1> QED BY <1>2, <1>3

\* What the client answers keeps it.
LEMMA ClientKeepsInv == GBInv /\ ScheduleInv /\ ClientReturns => GBInv'
<1> SUFFICES ASSUME GBInv, ScheduleInv, ClientReturns  PROVE GBInv'
  OBVIOUS
<1> USE DEF GBInv
<1>0. /\ 0 \in Waits /\ AttemptErrors \subseteq Error \ {nil}
      /\ {InvalidErr, StatusErr, TooLarge, UrlError(CtxErr)} \subseteq AttemptErrors
      /\ \A e \in ClientErrors \cup {CtxErr} : e \in Error /\ UrlError(e) \in AttemptErrors
  BY AttemptErrorType, OwnLayers, GetBytesAssumption DEF AttemptErrors
<1> DEFINE OfCtx == {UrlError(CtxErr), ReadErr(CtxErr)}
<1>1. CASE RequestInvalid
  BY <1>0, <1>1, FinalErrors, ErrorsApart
     DEF RequestInvalid, AttemptDone, Yields, GBTypeOK, Lengths
<1>2. ASSUME NEW e \in ClientErrors \cup {CtxErr}, ClientFails(e)  PROVE GBInv'
  <2> DEFINE f == UrlError(e)
  <2>1. f \in OfCtx => ctx = "ended"
    BY <1>0, <1>2, ErrorsApart DEF ClientFails
  <2>2. IsTransient(f) => e \in ClientErrors
    BY FinalErrors
  <2>3. f \in AttemptErrors /\ f # nil
    BY <1>0
  <2>4. /\ pc = "attempt" /\ step = "do"
        /\ Yields(NoBody, 0, f) /\ hint' = 0
        /\ UNCHANGED <<maxBodyBytes, step, open, served, startedDead>>
        /\ IF IsTransient(f) THEN AttemptFails(0) ELSE AttemptDone
    BY <1>2 DEF ClientFails
  <2>5. \E d \in ClientErrors \cup {CtxErr} : f = UrlError(d) /\ (IsTransient(f) => d \in ClientErrors)
    BY <2>2
  <2> HIDE DEF f
  <2>6. CASE IsTransient(f)
    BY <1>0, <2>1, <2>3, <2>4, <2>5, <2>6 DEF AttemptFails, Yields, GBTypeOK, Lengths
  <2>7. CASE ~IsTransient(f)
    BY <1>0, <2>1, <2>3, <2>4, <2>7 DEF AttemptDone, Yields, GBTypeOK, Lengths
  <2> QED BY <2>6, <2>7
<1>3. ASSUME NEW header \in Waits, RetryableStatus(header)  PROVE GBInv'
  BY <1>0, <1>3, ErrorsApart DEF RetryableStatus, AttemptFails, Yields, GBTypeOK, Lengths
<1>4. ASSUME NEW header \in Waits, FinalStatus(header)  PROVE GBInv'
  BY <1>0, <1>4, FinalErrors, ErrorsApart DEF FinalStatus, AttemptDone, Yields, GBTypeOK, Lengths
<1>5. ASSUME NEW length \in Lengths, SuccessStatus(length)  PROVE GBInv'
  BY <1>0, <1>5 DEF SuccessStatus, scheduleVars, GBTypeOK, Lengths
<1> QED BY <1>1, <1>2, <1>3, <1>4, <1>5 DEF ClientReturns

\* What reading the body ends in keeps it.
LEMMA BodyKeepsInv == GBInv /\ ScheduleInv /\ BodyReturns => GBInv'
<1> SUFFICES ASSUME GBInv, ScheduleInv, BodyReturns  PROVE GBInv'
  OBVIOUS
<1> USE DEF GBInv
<1>0. /\ 0 \in Waits /\ AttemptErrors \subseteq Error \ {nil} /\ TooLarge \in AttemptErrors
      /\ \A e \in ReadErrors \cup {CtxErr} : e \in Error /\ ReadErr(e) \in AttemptErrors
  BY AttemptErrorType, OwnLayers, GetBytesAssumption DEF AttemptErrors
<1>1. CASE ReadEnds
  <2> DEFINE data == LimitRead(probe)
  <2>1. /\ data \in Nat
        /\ data <= maxBodyBytes => data = served
        /\ maxBodyBytes \in Nat
    BY ReadIsWhole, GetBytesAssumption, DurationsAssumption DEF GBTypeOK
  <2>2. ReadLimitedBody <=>
          IF data > maxBodyBytes THEN Yields(NoBody, 0, TooLarge) ELSE Yields(data, 0, nil)
    BY DEF ReadLimitedBody
  <2> HIDE DEF data
  <2>3. CASE data > maxBodyBytes
    BY <1>0, <1>1, <2>2, <2>3, FinalErrors, ErrorsApart
       DEF ReadEnds, AttemptDone, Yields, GBTypeOK, Lengths
  <2>4. CASE ~(data > maxBodyBytes)
    <3>1. data = served /\ data \in 0 .. maxBodyBytes /\ data # NoBody
      BY <2>1, <2>4 DEF NoBody
    <3>2. ~IsTransient(nil)
      BY NothingIsFinal
    <3> QED BY <1>0, <1>1, <2>2, <2>4, <3>1, <3>2, ErrorsApart
            DEF ReadEnds, AttemptDone, Yields, GBTypeOK, Lengths
  <2> QED BY <2>3, <2>4
<1>2. ASSUME NEW e \in ReadErrors \cup {CtxErr}, ReadFails(e)  PROVE GBInv'
  <2>1. ReadErr(e) \in {UrlError(CtxErr), ReadErr(CtxErr)} => ctx = "ended"
    BY <1>0, <1>2, ErrorsApart DEF ReadFails
  <2> QED BY <1>0, <1>2, <2>1 DEF ReadFails, AttemptDone, Yields, GBTypeOK, Lengths
<1> QED BY <1>1, <1>2 DEF BodyReturns

\* Every step of the door keeps it.
LEMMA GBInvStep == GBInv /\ ScheduleInv /\ [GBNext]_vars => GBInv'
<1> SUFFICES ASSUME GBInv, ScheduleInv, [GBNext]_vars  PROVE GBInv'
  OBVIOUS
<1>1. CASE ClientReturns
  BY <1>1, ClientKeepsInv
<1>2. CASE BodyReturns
  BY <1>2, BodyKeepsInv
<1>3. CASE Wait
  BY <1>3 DEF Wait, StartSleep, CtxEndsSleep, gbVars, GBInv, GBTypeOK, Lengths
<1>4. CASE Retry
  BY <1>4 DEF Retry, SkipSleep, TimerFires, NextAttempt, GBInv, GBTypeOK, Lengths
<1>5. CASE GBTick \/ GBEndCtx
  BY <1>5 DEF GBTick, Tick, GBEndCtx, EndCtx, gbVars, GBInv, GBTypeOK, Lengths
<1>6. CASE GBReturned \/ UNCHANGED vars
  BY <1>6 DEF GBReturned, Returned, scheduleVars, gbVars, vars, GBInv, GBTypeOK, Lengths
<1> QED BY <1>1, <1>2, <1>3, <1>4, <1>5, <1>6 DEF GBNext

\* No response body is left open, no body captured but by the attempt that settled
\* the call, and every wait is the last attempt's own, however attempts end.
THEOREM GBInvariant == GBSpec => []GBInv
<1>1. GBInit => ScheduleInv /\ GBInv
  BY ScheduleInvInit, GBInvInit DEF GBInit
<1>2. ScheduleInv /\ GBInv /\ [GBNext]_vars => ScheduleInv' /\ GBInv'
  BY GetStepOfSchedule, ScheduleInvStep, GBInvStep
<1> QED BY <1>1, <1>2, PTL DEF GBSpec

(***************************************************************************)
(* What GetBytes returns.                                                  *)
(***************************************************************************)

\* A hint put on an exhausted call's error is a layer.
LEMMA HintIsLayer ==
  ASSUME NEW ra \in Waits
  PROVE  Timed("hint", ra) \in LayerSet /\ Timed("hint", ra).kind = "hint"
<1>1. ra \in Int
  BY ScheduleAssumption, DurationsAssumption DEF Duration
<1> QED BY <1>1 DEF Timed, LayerSet, Kinds, OwnKinds, LibraryKinds

\* A reduction leaves an error an error, and one without a *url.Error.
LEMMA ReturnedIsSafe ==
  ASSUME GBInv, pc \in Returns
  PROVE  /\ returnedErr \in Error
         /\ ~Is(returnedErr, {"url"})
         /\ returnedErr = nil <=> pc = "judged" /\ err = nil
<1>1. err \in Error
  BY AttemptErrorType, SmallErrors DEF GBInv, GBTypeOK
<1>2. /\ LogSafeError(err) \in Error /\ ~Is(LogSafeError(err), {"url"})
      /\ LogSafeError(err) = nil <=> err = nil
  <2>1. ~Is(nil, {"url"})
    BY DEF Is, nil
  <2> QED BY <1>1, <2>1, SmallErrors, ReductionIsSafe DEF LogSafeError
<1>3. CASE pc = "stopCtx"
  <2>1. CtxErr \in Error \ {nil} /\ ~Is(CtxErr, {"url"})
    BY OwnLayers, OfOneLayer DEF CtxErr
  <2> QED BY <1>3, <2>1 DEF returnedErr
<1>4. CASE pc = "exhausted"
  <2> DEFINE w == <<Layer("wrap")>> \o LogSafeError(err)
             h == <<Timed("hint", retryAfter)>> \o w
  <2> DEFINE s == LogSafeError(err)
             x == Layer("wrap")
  <2>1. w \in Error /\ w # nil /\ ~Is(w, {"url"})
    <3>1. /\ s \in Error /\ ~Is(s, {"url"})
          /\ x \in LayerSet /\ x.kind = "wrap" /\ w = <<x>> \o s
      BY <1>2, OwnLayers
    <3> HIDE DEF s, x, w
    <3>2. w \in Error /\ w # nil
      BY <3>1, LayerOnTop
    <3>3. ~Is(w, {"url"})
      BY <3>1, IsOnTop
    <3> QED BY <3>2, <3>3
  <2>2. Timed("hint", retryAfter) \in LayerSet /\ Timed("hint", retryAfter).kind = "hint"
    BY HintIsLayer DEF GBInv, GBTypeOK
  <2> HIDE DEF w
  <2>3. h \in Error /\ h # nil /\ ~Is(h, {"url"})
    BY <2>1, <2>2, LayerOnTop, IsOnTop
  <2>4. returnedErr = IF retryAfter > 0 THEN h ELSE w
    BY <1>4 DEF returnedErr, Exhausted, w
  <2> HIDE DEF h
  <2> QED BY <1>4, <2>1, <2>3, <2>4
<1>5. CASE pc = "judged"
  BY <1>2, <1>5 DEF returnedErr
<1> QED BY <1>3, <1>4, <1>5 DEF Returns, GBInv

\* A settled call's body is the whole body served, and it has either a body or an error.
LEMMA BodyIsWhole == GBInv => BodyNeverTruncated
<1> SUFFICES ASSUME GBInv, pc \in Returns
             PROVE  /\ returnedBody # NoBody => returnedBody = served /\ served <= maxBodyBytes
                    /\ returnedBody = NoBody <=> returnedErr # nil
  BY DEF BodyNeverTruncated
<1>1. returnedErr = nil <=> pc = "judged" /\ err = nil
  BY ReturnedIsSafe
<1>2. maxBodyBytes \in Nat /\ body \in {NoBody} \cup 0 .. maxBodyBytes
  BY GetBytesAssumption, DurationsAssumption DEF GBInv, GBTypeOK
<1>3. body # NoBody => body = served /\ served <= maxBodyBytes
  BY <1>2 DEF GBInv
<1>4. pc = "judged" => (err = nil <=> body # NoBody)
  BY DEF GBInv
<1> QED BY <1>1, <1>3, <1>4 DEF returnedBody

\* A returned body is the whole body served, within the cap, and comes with no error;
\* without one there is an error.
THEOREM GBBodyWhole == GBSpec => []BodyNeverTruncated
BY GBInvariant, BodyIsWhole, PTL

\* No error GetBytes returns holds the raw URL of a *url.Error, whatever the client
\* failed with.
THEOREM GBErrorsHoldNoURL == GBSpec => [](pc \in Returns => ~Is(returnedErr, {"url"}))
<1>1. GBInv => (pc \in Returns => ~Is(returnedErr, {"url"}))
  BY ReturnedIsSafe
<1> QED BY <1>1, GBInvariant, PTL

\* A transient failure of the client stays transient without the URL, and so does it
\* wrapped as exhausted.
LEMMA ReducedFailureIsTransient ==
  ASSUME NEW e \in Error, ~Is(e, {"url"}), IsTransient(UrlError(e))
  PROVE  /\ LogSafeError(UrlError(e)) \in Error
         /\ ~Is(LogSafeError(UrlError(e)), {"url"})
         /\ IsTransient(LogSafeError(UrlError(e)))
<1>1. UrlError(e) \in Error \ {nil}
  BY OwnLayers, LayerOnTop DEF UrlError
<1>2. LogSafeError(UrlError(e)) = reduceURLErrors(UrlError(e))
  BY <1>1 DEF LogSafeError
<1>3. IsTransient(reduceURLErrors(UrlError(e)))
  BY OwnLayers, ReductionKeepsTransience DEF UrlError
<1> QED BY <1>1, <1>2, <1>3, ReductionIsSafe

\* A status has no URL to lose.
LEMMA StatusIsSafe ==
  LogSafeError(StatusErr) = StatusErr /\ Is(StatusErr, {"status"}) /\ ~Is(StatusErr, {"url"})
<1>1. StatusErr # nil /\ Is(StatusErr, {"status"}) /\ ~Is(StatusErr, {"url"})
  BY OwnLayers, OfOneLayer DEF StatusErr
<1> HIDE DEF StatusErr
<1>2. Peeled(StatusErr) = StatusErr
  BY <1>1 DEF Peeled
<1>3. reduceURLErrors(StatusErr) = StatusErr
  BY <1>1, <1>2, OnePeelingReduces
<1> QED BY <1>1, <1>3 DEF LogSafeError

\* An exhaustion's wrap and hint hide no layer and keep transience.
LEMMA ExhaustedKeeps ==
  ASSUME NEW e \in Error, ~Is(e, {"url"}), NEW ra \in Waits
  PROVE  /\ Exhausted(e, ra) \in Error
         /\ \A kinds : Is(e, kinds) => Is(Exhausted(e, ra), kinds)
         /\ IsTransient(Exhausted(e, ra)) <=> IsTransient(e)
<1> DEFINE w == <<Layer("wrap")>> \o e
           h == <<Timed("hint", ra)>> \o w
<1>1. /\ w \in Error /\ ~Is(w, {"url"})
      /\ \A kinds : Is(e, kinds) => Is(w, kinds)
      /\ IsTransient(w) <=> IsTransient(e)
  BY OwnLayers, LayerOnTop, IsOnTop, PrefixKeepsTransience
<1>2. Exhausted(e, ra) = IF ra > 0 THEN h ELSE w
  BY DEF Exhausted
<1> HIDE DEF w
<1>3. /\ h \in Error
      /\ \A kinds : Is(w, kinds) => Is(h, kinds)
      /\ IsTransient(h) <=> IsTransient(w)
  BY <1>1, HintIsLayer, LayerOnTop, IsOnTop, PrefixKeepsTransience
<1> QED BY <1>1, <1>2, <1>3

\* The client wraps its transport's failure in the one *url.Error there is; then what an
\* exhausted call failed with last is still a retryable status or transient.
LEMMA ReturnedStaysRetryable ==
  ASSUME \A e \in ClientErrors : ~Is(e, {"url"})
  PROVE  GBInv => ReturnedErrorSafe
<1> SUFFICES ASSUME GBInv, pc = "exhausted"
             PROVE  Is(returnedErr, {"status"}) \/ IsTransient(returnedErr)
  BY ReturnedIsSafe DEF ReturnedErrorSafe
<1>1. returnedErr = Exhausted(LogSafeError(err), retryAfter) /\ retryAfter \in Waits
  BY DEF returnedErr, GBInv, GBTypeOK
<1>2. CASE err = StatusErr
  BY <1>1, <1>2, StatusIsSafe, OwnLayers, ExhaustedKeeps
<1>3. CASE IsTransient(err) /\ \E e \in ClientErrors : err = UrlError(e)
  <2>1. PICK e \in ClientErrors : err = UrlError(e)
    BY <1>3
  <2>2. e \in Error /\ ~Is(e, {"url"})
    BY GetBytesAssumption
  <2> QED BY <1>1, <1>3, <2>1, <2>2, ReducedFailureIsTransient, ExhaustedKeeps
<1> QED BY <1>2, <1>3 DEF GBInv

\* No error leaves GetBytes with a *url.Error in it, and an exhausted call's error
\* still names a cause worth the retries: a caller's own loop may go on from it.
THEOREM GBErrorSafe ==
  ASSUME \A e \in ClientErrors : ~Is(e, {"url"})
  PROVE  GBSpec => []ReturnedErrorSafe
BY GBInvariant, ReturnedStaysRetryable, PTL

(***************************************************************************)
(* GetBytes in a Do: every step is a step of the inner loop or leaves it,  *)
(* or calls it anew, and every step is one of Do or leaves Do where it is. *)
(***************************************************************************)

\* Do's loop is in the function.
InFn == oPc = "attempt" /\ oStep = "call"

\* The bound of the outer loop's attempt has expired.
BoundSpent == attemptTimeout > 0 /\ attemptTimer = 0

\* The types the two contexts and the outer loop's timers keep.
LoopTyped ==
  /\ oPc \in Running \cup Returns
  /\ oStep \in {"call", "caller", "bound", "judge"}
  /\ oBackoff \in 1 .. MaxDur
  /\ callerCtx \in {"live", "ended"}
  /\ attemptTimeout \in AttemptTimeouts /\ attemptTimer \in 0 .. attemptTimeout

\* GetBytes runs only while the function does, under a context that ends with the
\* caller's, and before it only when a bound or the default expires.
CtxInv ==
  /\ pc \in Running => InFn
  /\ callerCtx = "ended" => ctx = "ended"
  /\ callerCtx = "live" /\ ctx = "ended" => BoundSpent \/ ContextWithDefaultTimeout

\* What the inner loop and the two contexts keep between them.
NestInv == ScheduleInv /\ GBInv /\ LoopTyped /\ CtxInv

\* What the function hands back is nil, from a settled call, or a failure Do's model
\* is given.
LEMMA FnErrType ==
  ASSUME GBInv, pc \in Returns
  PROVE  /\ fnErr \in {nil} \cup GetFailures
         /\ fnErr \in Error
         /\ fnErr = nil => pc = "judged"
<1>1. /\ returnedErr \in Error
      /\ returnedErr = nil <=> pc = "judged" /\ err = nil
  BY ReturnedIsSafe
<1>2. CASE pc = "judged"
  <2>1. returnedErr = LogSafeError(err) /\ fnErr = returnedErr
    BY <1>2 DEF returnedErr, fnErr
  <2>2. err = nil \/ err \in AttemptErrors
    BY DEF GBInv, GBTypeOK
  <2> QED BY <1>1, <1>2, <2>1, <2>2 DEF GetFailures, SafeErrors
<1>3. CASE pc = "stopCtx"
  <2>1. returnedErr = CtxErr /\ fnErr = returnedErr
    BY <1>3 DEF returnedErr, fnErr
  <2> QED BY <1>1, <1>3, <2>1 DEF GetFailures
<1>4. CASE pc = "exhausted"
  <2>1. err \in AttemptErrors /\ retryAfter \in Waits
    BY <1>4 DEF GBInv, GBTypeOK
  <2>2. returnedErr = Exhausted(LogSafeError(err), retryAfter) /\ returnedErr # nil
    BY <1>1, <1>4 DEF returnedErr
  <2>3. returnedErr \in Exhaustions
    BY <2>1, <2>2 DEF Exhaustions, SafeErrors
  <2>4. MarkTransient(returnedErr) \in Error \ {nil}
    <3>1. Layer("markTransient") \in LayerSet
      BY DEF Layer, LayerSet, Kinds, OwnKinds, LibraryKinds
    <3> QED BY <1>1, <2>2, <3>1, LayerOnTop DEF MarkTransient
  <2> QED BY <1>1, <2>2, <2>3, <2>4 DEF GetFailures, fnErr
<1> QED BY <1>2, <1>3, <1>4 DEF Returns, GBInv

\* The nest starts as a call of each loop.
LEMMA NestInvInit == NestInit => NestInv
<1> SUFFICES ASSUME NestInit  PROVE NestInv
  OBVIOUS
<1>1. ScheduleInv /\ GBInv
  BY ScheduleInvInit, GBInvInit DEF NestInit, GBInit
<1>2. LoopTyped
  BY NestedGetAssumption, ScheduleAssumption, DurationsAssumption
     DEF NestInit, Outer!DoInit, Outer!ScheduleInit, LoopTyped, Running
<1>3. CtxInv
  BY DEF NestInit, Outer!DoInit, Outer!ScheduleInit, CtxInv, InFn
<1> QED BY <1>1, <1>2, <1>3 DEF NestInv

\* Every step is a step of Do or leaves Do where it is.
LEMMA StepOfDo == NestInv /\ [NestNext]_nestVars => [Outer!DoNext]_(Outer!vars)
<1> SUFFICES ASSUME NestInv, [NestNext]_nestVars  PROVE [Outer!DoNext]_(Outer!vars)
  OBVIOUS
<1>1. CASE UNCHANGED loopVars
  BY <1>1 DEF loopVars, Outer!vars, Outer!scheduleVars, Outer!doVars
<1>2. CASE GetSteps \/ GetRetries \/ AttemptExpires
  BY <1>1, <1>2 DEF GetSteps, GetRetries, AttemptExpires, loopVars
<1>3. CASE FnReturns
  <2>1. fnErr # nil => fnErr \in GetFailures
    BY <1>3, FnErrType DEF FnReturns, NestInv
  <2>2. CASE fnErr = nil
    BY <1>3, <2>2 DEF FnReturns, Outer!DoNext, Outer!FnReturns
  <2>3. CASE fnErr # nil
    <3>1. Outer!FnFails(fnErr)
      BY <1>3, <2>3 DEF FnReturns
    <3> QED BY <2>1, <2>3, <3>1 DEF Outer!DoNext, Outer!FnReturns
  <2> QED BY <2>2, <2>3
<1>4. CASE LoopJudges \/ LoopRetries
  BY <1>4 DEF LoopJudges, LoopRetries, Outer!DoNext, Outer!Program
<1>5. CASE NestTick \/ CallerEnds
  BY <1>5 DEF NestTick, CallerEnds, Outer!DoNext
<1>6. CASE NestReturned \/ UNCHANGED nestVars
  BY <1>1, <1>6 DEF NestReturned, nestVars
<1> QED BY <1>2, <1>3, <1>4, <1>5, <1>6 DEF NestNext

\* A new call of GetBytes starts over, whatever the last one left.
LEMMA NewCallKeepsGet ==
  ASSUME ScheduleInv, GBInv, LoopTyped, LoopRetries  PROVE ScheduleInv' /\ GBInv'
<1>1. /\ pc' = "attempt" /\ n' = 0 /\ backoff' = BaseDelay /\ wait' = 0 /\ timer' = 0
      /\ ctx' = callerCtx /\ elapsed' = elapsed
      /\ step' = "do" /\ body' = NoBody /\ err' = nil /\ retryAfter' = 0
      /\ open' = FALSE /\ served' = 0 /\ hint' = 0
      /\ startedDead' = (callerCtx = "ended") /\ maxBodyBytes' = maxBodyBytes
  BY DEF LoopRetries
<1>2. ScheduleInv'
  BY <1>1, ScheduleAssumption, DurationsAssumption
     DEF ScheduleInv, ScheduleTypeOK, WaitInRange, SleepFitsBudget, Horizon, Running, LoopTyped
<1>3. maxBodyBytes \in 1 .. MaxDur /\ maxBodyBytes \in BodyCaps /\ 0 \in Waits /\ MaxDur \in Nat
  BY GetBytesAssumption, DurationsAssumption DEF GBInv, GBTypeOK
<1>4. (0 \in Lengths)'
  BY <1>1, <1>3 DEF Lengths
<1>5. GBTypeOK'
  BY <1>1, <1>3, <1>4 DEF GBTypeOK
<1>6. GBInv'
  BY <1>1, <1>5, ErrorsApart DEF GBInv
<1> QED BY <1>2, <1>6

\* Every step keeps it.
LEMMA NestInvStep == NestInv /\ [NestNext]_nestVars => NestInv'
<1> SUFFICES ASSUME NestInv, [NestNext]_nestVars  PROVE NestInv'
  OBVIOUS
<1> USE DEF NestInv
<1>t. attemptTimeout \in Nat /\ AttemptTimeouts \subseteq Nat
  BY NestedGetAssumption, DurationsAssumption DEF LoopTyped
<1>1. CASE UNCHANGED <<loopVars, fnVars>> /\ (ClientReturns \/ BodyReturns \/ Wait \/ Retry)
  <2>1. ScheduleInv' /\ GBInv'
    BY <1>1, GetStepOfSchedule, ScheduleInvStep, GBInvStep DEF GBNext
  <2>2. pc \in Running /\ ctx' = ctx
    <3>1. CASE ClientReturns
      BY <3>1 DEF ClientReturns, RequestInvalid, ClientFails, RetryableStatus, FinalStatus,
                  SuccessStatus, AttemptDone, AttemptFails, scheduleVars, Running
    <3>2. CASE BodyReturns
      BY <3>2 DEF BodyReturns, ReadEnds, ReadFails, AttemptDone, Running
    <3>3. CASE Wait \/ Retry
      BY <3>3 DEF Wait, Retry, StartSleep, CtxEndsSleep, SkipSleep, TimerFires, NextAttempt, Running
    <3> QED BY <1>1, <3>1, <3>2, <3>3
  <2>3. LoopTyped' /\ CtxInv'
    BY <1>1, <2>2
       DEF LoopTyped, CtxInv, InFn, BoundSpent, ContextWithDefaultTimeout, loopVars, fnVars
  <2> QED BY <2>1, <2>3
<1>2. CASE GetSteps
  BY <1>1, <1>2 DEF GetSteps
<1>3. CASE GetRetries
  <2>1. ScheduleInv' /\ GBInv'
    BY <1>3, GetStepOfSchedule, ScheduleInvStep, GBInvStep DEF GetRetries, GBNext
  <2>2. pc \in Running /\ ctx' = ctx
    BY <1>3 DEF GetRetries, Retry, SkipSleep, TimerFires, NextAttempt, Running
  <2>3. LoopTyped' /\ CtxInv'
    BY <1>3, <2>2 DEF GetRetries, LoopTyped, CtxInv, InFn, BoundSpent, ContextWithDefaultTimeout, loopVars
  <2> QED BY <2>1, <2>3
<1>4. CASE FnReturns \/ LoopJudges
  <2>1. UNCHANGED <<vars, fnVars>> /\ pc \notin Running
    <3>1. CASE FnReturns
      BY <3>1 DEF FnReturns, Returns, Running
    <3>2. CASE LoopJudges
      BY <3>2 DEF LoopJudges, Outer!Closure, Outer!ReadCallerCtx, Outer!markAttemptTimeout,
                  Outer!JudgeCallerGone, Outer!JudgeFinal, Outer!JudgeRetryable, Outer!Wait,
                  Outer!StartSleep, Outer!CtxEndsSleep, CtxInv, InFn
    <3> QED BY <1>4, <3>1, <3>2
  <2>2. ScheduleInv' /\ GBInv' /\ UNCHANGED <<pc, ctx, def, hasDeadline>>
    <3>1. [GBNext]_vars
      BY <2>1
    <3> QED BY <2>1, <3>1, GetStepOfSchedule, ScheduleInvStep, GBInvStep DEF vars, scheduleVars, fnVars
  <2>3. /\ UNCHANGED <<oBackoff, callerCtx, attemptTimeout, attemptTimer>>
        /\ oPc' \in Running \cup Returns /\ oStep' \in {"call", "caller", "bound", "judge"}
    <3>1. CASE FnReturns
      <4>1. Outer!FnSucceeds \/ Outer!FnFails(fnErr)
        BY <3>1 DEF FnReturns
      <4> QED BY <4>1 DEF Outer!FnSucceeds, Outer!FnFails, Outer!AttemptDone, Outer!scheduleVars,
                          LoopTyped, Running, Returns
    <3>2. CASE LoopJudges
      BY <3>2 DEF LoopJudges, Outer!Closure, Outer!ReadCallerCtx, Outer!markAttemptTimeout,
                  Outer!JudgeCallerGone, Outer!JudgeFinal, Outer!JudgeRetryable, Outer!Wait,
                  Outer!StartSleep, Outer!CtxEndsSleep, Outer!AttemptDone, Outer!AttemptFails,
                  Outer!scheduleVars, Outer!doVars, LoopTyped, Running, Returns
    <3> QED BY <1>4, <3>1, <3>2
  <2>4. LoopTyped' /\ CtxInv'
    BY <2>1, <2>2, <2>3 DEF LoopTyped, CtxInv, BoundSpent, ContextWithDefaultTimeout
  <2> QED BY <2>2, <2>4
<1>5. CASE LoopRetries
  <2>1. ScheduleInv' /\ GBInv'
    BY <1>5, NewCallKeepsGet
  <2>2. /\ oPc' = "attempt" /\ oStep' = "call" /\ attemptTimer' = attemptTimeout
        /\ oBackoff' = SafeDouble(oBackoff) /\ UNCHANGED <<callerCtx, attemptTimeout>>
        /\ ctx' = callerCtx
    BY <1>5 DEF LoopRetries, Outer!Retry, Outer!SkipSleep, Outer!TimerFires, Outer!NextAttempt,
                Outer!SafeDouble, SafeDouble, Outer!Wrap, Wrap
  <2>3. oBackoff' \in 1 .. MaxDur
    BY <2>2, SafeDoubleSaturates DEF LoopTyped
  <2>4. LoopTyped' /\ CtxInv'
    BY <1>t, <2>2, <2>3 DEF LoopTyped, CtxInv, InFn, Running, Returns
  <2> QED BY <2>1, <2>4
<1>6. CASE NestTick
  <2>1. [GBNext]_vars /\ UNCHANGED <<pc, ctx, def, hasDeadline>>
    <3>1. CASE pc \in Running
      BY <1>6, <3>1 DEF NestTick, GBNext, GBTick, Tick
    <3>2. CASE pc \notin Running
      BY <1>6, <3>2 DEF NestTick, vars, scheduleVars
    <3> QED BY <1>6, <3>1, <3>2 DEF NestTick
  <2>2. ScheduleInv' /\ GBInv'
    BY <2>1, GetStepOfSchedule, ScheduleInvStep, GBInvStep
  <2>3. /\ UNCHANGED <<oPc, oStep, oBackoff, callerCtx, attemptTimeout>>
        /\ attemptTimer' = IF oPc = "attempt" /\ attemptTimer > 0 THEN attemptTimer - 1 ELSE attemptTimer
    BY <1>6 DEF NestTick, Outer!DoTick, Outer!Tick
  <2>4. LoopTyped' /\ CtxInv'
    BY <1>t, <2>1, <2>3 DEF LoopTyped, CtxInv, InFn, BoundSpent, ContextWithDefaultTimeout
  <2> QED BY <2>2, <2>4
<1>7. CASE CallerEnds
  <2>1. /\ UNCHANGED <<oPc, oStep, oBackoff, attemptTimeout, attemptTimer, gbVars>>
        /\ UNCHANGED <<pc, n, backoff, wait, timer, elapsed>>
        /\ callerCtx' = "ended" /\ ctx' = "ended"
    BY <1>7 DEF CallerEnds, Outer!DoEndCtx, Outer!EndCtx
  <2>2. ScheduleInv' /\ GBInv'
    BY <2>1 DEF ScheduleInv, ScheduleTypeOK, WaitInRange, SleepFitsBudget, GBInv, GBTypeOK, Lengths, gbVars
  <2>3. LoopTyped' /\ CtxInv'
    BY <2>1 DEF LoopTyped, CtxInv, InFn
  <2> QED BY <2>2, <2>3
<1>8. CASE AttemptExpires
  <2>1. /\ UNCHANGED <<gbVars, loopVars, fnVars>> /\ EndCtx
        /\ BoundSpent \/ ContextWithDefaultTimeout
    BY <1>8 DEF AttemptExpires, BoundSpent
  <2>2. ScheduleInv' /\ GBInv'
    BY <2>1, GetStepOfSchedule, ScheduleInvStep, GBInvStep DEF GBNext, GBEndCtx
  <2>3. LoopTyped' /\ CtxInv'
    BY <2>1 DEF EndCtx, LoopTyped, CtxInv, InFn, BoundSpent, ContextWithDefaultTimeout, loopVars, fnVars
  <2> QED BY <2>2, <2>3
<1>9. CASE NestReturned \/ UNCHANGED nestVars
  <2>1. UNCHANGED nestVars
    BY <1>9 DEF NestReturned
  <2>2. ScheduleInv' /\ GBInv'
    BY <2>1, GetStepOfSchedule, ScheduleInvStep, GBInvStep DEF nestVars
  <2>3. LoopTyped' /\ CtxInv'
    BY <2>1 DEF nestVars, vars, scheduleVars, loopVars, fnVars, LoopTyped, CtxInv, InFn, BoundSpent, ContextWithDefaultTimeout
  <2> QED BY <2>2, <2>3
<1> QED BY <1>2, <1>3, <1>4, <1>5, <1>6, <1>7, <1>8, <1>9 DEF NestNext

\* The two loops keep their invariants together, whichever contexts end and
\* whichever bounds expire.
THEOREM NestInvariant == NestSpec => []NestInv
BY NestInvInit, NestInvStep, PTL DEF NestSpec

\* Each call the outer loop makes of GetBytes keeps what GetBytes promises alone, its
\* contexts shared and its attempts cut short by bounds it does not set.
THEOREM NestKeepsGet ==
  ASSUME \A e \in ClientErrors : ~Is(e, {"url"})
  PROVE  NestSpec => [](BodyNeverTruncated /\ ReturnedErrorSafe)
<1>1. NestInv => BodyNeverTruncated /\ ReturnedErrorSafe
  BY BodyIsWhole, ReturnedStaysRetryable DEF NestInv
<1> QED BY <1>1, NestInvariant, PTL

\* The nest is a run of Do, its function GetBytes: whatever Do promises of its
\* attempts, waits and cancellations holds of the outer loop.
THEOREM NestRunsDo == NestSpec => Outer!DoInit /\ [][Outer!DoNext]_(Outer!vars)
<1>1. NestInit => Outer!DoInit
  BY DEF NestInit
<1> QED BY <1>1, StepOfDo, NestInvariant, PTL DEF NestSpec

(***************************************************************************)
(* One request at most is begun for a caller that is gone.                 *)
(***************************************************************************)

\* A request begun under the caller's ended context settles its call of GetBytes,
\* and that call settles Do's.
DeadInv ==
  \/ deadBegun = 0
  \/ /\ deadBegun = 1 /\ callerCtx = "ended"
     /\ oPc \notin {"pause", "sleep"}
     /\ InFn => (pc = "attempt" /\ step = "do" /\ startedDead) \/ pc = "judged"

\* Whatever the client answers a request begun dead, the call is settled.
LEMMA DeadRequestSettles ==
  ASSUME pc = "attempt", step = "do", startedDead, ClientReturns \/ BodyReturns \/ Wait \/ Retry
  PROVE  pc' = "judged"
<1>1. CASE RequestInvalid
  BY <1>1 DEF RequestInvalid, AttemptDone
<1>2. ASSUME NEW e \in ClientErrors \cup {CtxErr}, ClientFails(e)  PROVE pc' = "judged"
  <2>1. ~IsTransient(UrlError(e))
    BY <1>2, FinalErrors DEF ClientFails
  <2> QED BY <1>2, <2>1 DEF ClientFails, AttemptDone
<1>3. ASSUME NEW header \in Waits, RetryableStatus(header) \/ FinalStatus(header)  PROVE FALSE
  BY <1>3 DEF RetryableStatus, FinalStatus
<1>4. ASSUME NEW length \in Lengths, SuccessStatus(length)  PROVE FALSE
  BY <1>4 DEF SuccessStatus
<1>5. CASE BodyReturns
  BY <1>5 DEF BodyReturns, ReadEnds, ReadFails
<1>6. CASE Wait \/ Retry
  BY <1>6 DEF Wait, Retry, StartSleep, CtxEndsSleep, SkipSleep, TimerFires
<1> QED BY <1>1, <1>2, <1>3, <1>4, <1>5, <1>6 DEF ClientReturns

\* Every step keeps it.
LEMMA DeadInvStep == NestInv /\ DeadInv /\ [NestNext]_nestVars => DeadInv'
<1> SUFFICES ASSUME NestInv, DeadInv, [NestNext]_nestVars  PROVE DeadInv'
  OBVIOUS
<1>c. /\ pc \in Running => InFn
      /\ callerCtx = "ended" => ctx = "ended"
      /\ callerCtx \in {"live", "ended"}
  BY DEF NestInv, CtxInv, LoopTyped
<1>1. CASE GetSteps
  <2>1. UNCHANGED <<deadBegun, callerCtx, oPc, oStep>> /\ pc \in Running
    BY <1>1 DEF GetSteps, loopVars, fnVars, ClientReturns, RequestInvalid, ClientFails,
                RetryableStatus, FinalStatus, SuccessStatus, BodyReturns, ReadEnds, ReadFails,
                Wait, StartSleep, CtxEndsSleep, AttemptDone, AttemptFails, Running
  <2>2. CASE deadBegun = 0
    BY <2>1, <2>2 DEF DeadInv
  <2>3. CASE deadBegun # 0
    <3>1. pc = "attempt" /\ step = "do" /\ startedDead
      BY <1>c, <2>1, <2>3 DEF DeadInv, Running
    <3>2. pc' = "judged"
      BY <1>1, <3>1, DeadRequestSettles DEF GetSteps
    <3> QED BY <2>1, <2>3, <3>2 DEF DeadInv, InFn
  <2> QED BY <2>2, <2>3
<1>2. CASE GetRetries
  <2>1. /\ pc \in {"pause", "sleep"} /\ pc' = "attempt" /\ step' = step
        /\ startedDead' = (ctx = "ended")
        /\ UNCHANGED <<callerCtx, oPc, oStep>> /\ RequestBegins
    BY <1>2 DEF GetRetries, Retry, SkipSleep, TimerFires, NextAttempt, loopVars
  <2>2. InFn /\ step = "do" /\ deadBegun = 0
    BY <1>c, <2>1 DEF DeadInv, Running, NestInv, GBInv
  <2>3. callerCtx = "ended" => startedDead'
    BY <1>c, <2>1
  <2>4. /\ pc' = "attempt" /\ step' = "do" /\ callerCtx' = callerCtx /\ oPc' = "attempt"
        /\ deadBegun' = IF callerCtx = "ended" THEN 1 ELSE 0
    BY <2>1, <2>2 DEF InFn, RequestBegins
  <2> QED BY <2>3, <2>4 DEF DeadInv
<1>3. CASE FnReturns
  <2>1. Outer!FnSucceeds \/ Outer!FnFails(fnErr)
    BY <1>3 DEF FnReturns
  <2>2. /\ InFn /\ oPc' \in {"attempt", "judged"}
        /\ oPc' = "attempt" => oStep' # "call"
        /\ callerCtx' = callerCtx
    BY <2>1 DEF Outer!FnSucceeds, Outer!FnFails, Outer!AttemptDone, Outer!scheduleVars, InFn
  <2>3. deadBegun' = deadBegun
    BY <1>3 DEF FnReturns, fnVars
  <2> QED BY <2>2, <2>3 DEF DeadInv, InFn
<1>4. CASE LoopJudges
  <2>1. UNCHANGED <<deadBegun, callerCtx>>
    BY <1>4 DEF LoopJudges, fnVars, Outer!Closure, Outer!ReadCallerCtx, Outer!markAttemptTimeout,
                Outer!JudgeCallerGone, Outer!JudgeFinal, Outer!JudgeRetryable, Outer!Wait,
                Outer!StartSleep, Outer!CtxEndsSleep, Outer!AttemptDone, Outer!AttemptFails,
                Outer!scheduleVars
  <2>2. CASE deadBegun = 0
    BY <2>1, <2>2 DEF DeadInv
  <2>3. CASE deadBegun # 0
    <3>1. callerCtx = "ended" /\ oPc \notin {"pause", "sleep"} /\ deadBegun = 1
      BY <2>3 DEF DeadInv
    <3>2. oPc' \in {"attempt", "judged"} /\ (oPc' = "attempt" => oStep' # "call")
      BY <1>4, <3>1
         DEF LoopJudges, Outer!Closure, Outer!ReadCallerCtx, Outer!markAttemptTimeout,
             Outer!JudgeCallerGone, Outer!JudgeFinal, Outer!JudgeRetryable, Outer!callerGone,
             Outer!Wait, Outer!StartSleep, Outer!CtxEndsSleep, Outer!AttemptDone,
             Outer!scheduleVars
    <3> QED BY <2>1, <3>1, <3>2 DEF DeadInv, InFn
  <2> QED BY <2>2, <2>3
<1>5. CASE LoopRetries
  <2>1. /\ oPc \in {"pause", "sleep"} /\ oPc' = "attempt" /\ callerCtx' = callerCtx
        /\ pc' = "attempt" /\ step' = "do" /\ startedDead' = (callerCtx = "ended")
        /\ RequestBegins
    BY <1>5 DEF LoopRetries, Outer!Retry, Outer!SkipSleep, Outer!TimerFires, Outer!NextAttempt
  <2>2. deadBegun = 0
    BY <2>1 DEF DeadInv
  <2>3. callerCtx = "ended" => startedDead'
    BY <2>1
  <2>4. /\ pc' = "attempt" /\ step' = "do" /\ callerCtx' = callerCtx /\ oPc' = "attempt"
        /\ deadBegun' = IF callerCtx = "ended" THEN 1 ELSE 0
    BY <2>1, <2>2 DEF RequestBegins
  <2> QED BY <2>3, <2>4 DEF DeadInv
<1>6. CASE NestTick
  <2>1. UNCHANGED <<oPc, oStep, callerCtx, deadBegun, pc, step, startedDead>>
    BY <1>6 DEF NestTick, Outer!DoTick, Outer!Tick, GBTick, Tick, gbVars, vars, scheduleVars
  <2> QED BY <2>1 DEF DeadInv, InFn
<1>7. CASE CallerEnds
  <2>1. callerCtx = "live" /\ deadBegun' = deadBegun
    BY <1>7 DEF CallerEnds, Outer!DoEndCtx, Outer!EndCtx, fnVars
  <2> QED BY <2>1 DEF DeadInv
<1>8. CASE AttemptExpires \/ NestReturned \/ UNCHANGED nestVars
  <2>1. UNCHANGED <<oPc, oStep, callerCtx, deadBegun, pc, step, startedDead>>
    BY <1>8 DEF AttemptExpires, EndCtx, NestReturned, nestVars, vars, scheduleVars, gbVars,
                loopVars, fnVars
  <2> QED BY <2>1 DEF DeadInv, InFn
<1> QED BY <1>1, <1>2, <1>3, <1>4, <1>5, <1>6, <1>7, <1>8 DEF NestNext

\* However the two loops' sleeps race with the caller's end, at most one request is
\* begun after it.
THEOREM NestOneDeadRequest == NestSpec => []OneDeadRequest
<1>1. NestInit => DeadInv
  BY DEF NestInit, GBInit, ScheduleInit, Outer!DoInit, Outer!ScheduleInit, DeadInv
<1>2. DeadInv => OneDeadRequest
  BY DEF DeadInv, OneDeadRequest
<1> QED BY <1>1, <1>2, NestInvariant, DeadInvStep, PTL DEF NestSpec

(***************************************************************************)
(* What the two loops make of one failure.                                 *)
(***************************************************************************)

\* The outer loop reads an error as the inner one does.
LEMMA SameReading ==
  /\ Outer!nil = nil /\ Outer!CtxErr = CtxErr
  /\ \A e : /\ Outer!IsTransient(e) <=> IsTransient(e)
            /\ Outer!retryAfterHintWait(e) = retryAfterHintWait(e)
            /\ Outer!MatchesDeadline(e) <=> MatchesDeadline(e)
            /\ Outer!AttemptTimeout(e) = AttemptTimeout(e)
<1>1. /\ Outer!nil = nil /\ Outer!CtxErr = CtxErr
      /\ \A e : Outer!AttemptTimeout(e) = AttemptTimeout(e)
  BY DEF Outer!nil, nil, Outer!CtxErr, CtxErr, Outer!Layer, Layer, Outer!AttemptTimeout, AttemptTimeout
<1>2. \A e, kinds : Outer!Is(e, kinds) <=> Is(e, kinds)
  BY DEF Outer!Is, Is
<1>3. \A e, kinds : Outer!First(e, kinds) = First(e, kinds)
  BY DEF Outer!First, First
<1>4. \A e, i : Outer!EndOf(e, i) = EndOf(e, i) /\ Outer!Below(e, i) = Below(e, i)
  BY DEF Outer!EndOf, EndOf, Outer!Below, Below
<1>5. \A e : Outer!Timeout(e) = Timeout(e)
  BY <1>4, Zenon DEF Outer!Timeout, Timeout
<1>6. \A e : Outer!isTimeout(e) <=> isTimeout(e)
  BY <1>2, <1>3, <1>5 DEF Outer!isTimeout, isTimeout, Outer!NetErrors, NetErrors
<1>7. \A e : Outer!isReset(e) <=> isReset(e)
  BY <1>2, <1>3, <1>4 DEF Outer!isReset, isReset, Outer!Layer, Layer
<1>8. \A e : Outer!CauseOf(e) = CauseOf(e)
  BY <1>2, <1>6, <1>7 DEF Outer!CauseOf, CauseOf, Outer!HasCause, HasCause, Outer!Causes, Causes
<1>9. \A e : Outer!MatchesDeadline(e) <=> MatchesDeadline(e)
  BY <1>2 DEF Outer!MatchesDeadline, MatchesDeadline
<1>10. \A e : Outer!retryAfterHintWait(e) = retryAfterHintWait(e)
  BY <1>2, <1>3 DEF Outer!retryAfterHintWait, retryAfterHintWait
<1>11. \A e : Outer!IsTransient(e) <=> IsTransient(e)
  BY <1>2, <1>3, <1>8, <1>9
     DEF Outer!IsTransient, IsTransient, Outer!IsPermanent, IsPermanent, Outer!IsAttemptTimeout,
         IsAttemptTimeout, Outer!isCallerContextError, isCallerContextError,
         Outer!Transient, Transient, Outer!SaysYes, SaysYes
<1> QED BY <1>1, <1>9, <1>10, <1>11

\* What the outer closure judges, waits on or settles with is what the function
\* handed back, marked only with its own bound spent or the caller gone, or the
\* context's own error in its place once the caller is gone; and the verdict on it
\* is what the loop goes by.
JudgeInv ==
  /\ oPc = "attempt" /\ oStep \in {"caller", "bound"} =>
       oErr = fnErr /\ fnErr # nil /\ attemptTimeout > 0
  /\ oPc # "attempt" \/ oStep = "judge" =>
       \/ oErr = fnErr /\ (fnErr = nil => oPc = "judged")
       \/ oErr = AttemptTimeout(fnErr) /\ fnErr # nil /\ (callerCtx = "ended" \/ BoundSpent)
       \/ oErr = CtxErr /\ callerCtx = "ended" /\ oPc = "judged"
  /\ oPc \in {"pause", "sleep"} =>
       /\ IsTransient(oErr)
       /\ oErr = fnErr \/ (oErr = AttemptTimeout(fnErr) /\ BoundSpent)
       /\ IF retryAfterHintWait(oErr) > 0 THEN oWait = retryAfterHintWait(oErr)
                                          ELSE oWait <= oBackoff
  /\ oPc = "judged" /\ callerCtx = "live" /\ oErr # nil => ~IsTransient(oErr)

\* A step within the function, or into it, leaves the outer closure nothing to judge.
LEMMA InFnKeepsJudge == InFn' => JudgeInv'
BY DEF InFn, JudgeInv

\* The function hands back a failure to judge, or settles the call.
LEMMA ReturnKeepsJudge == FnReturns => JudgeInv'
<1> SUFFICES ASSUME FnReturns  PROVE JudgeInv'
  OBVIOUS
<1>1. fnErr' = fnErr
  BY DEF FnReturns, vars, scheduleVars, gbVars, fnVars, fnErr, returnedErr
<1>2. CASE fnErr = nil
  <2>1. Outer!FnSucceeds
    BY <1>2 DEF FnReturns
  <2>2. oPc' = "judged" /\ oErr' = nil
    BY <2>1, SameReading DEF Outer!FnSucceeds, Outer!AttemptDone
  <2> QED BY <1>1, <1>2, <2>2 DEF JudgeInv
<1>3. CASE fnErr # nil
  <2>1. Outer!FnFails(fnErr)
    BY <1>3 DEF FnReturns
  <2>2. /\ oPc' = "attempt" /\ oErr' = fnErr /\ attemptTimeout' = attemptTimeout
        /\ oStep' = IF attemptTimeout > 0 THEN "caller" ELSE "judge"
    BY <2>1 DEF Outer!FnFails, Outer!scheduleVars
  <2> QED BY <1>1, <1>3, <2>2 DEF JudgeInv
<1> QED BY <1>2, <1>3

\* The closure's reads and verdict keep it, and so does what the loop waits for.
LEMMA JudgeKeepsJudge == NestInv /\ JudgeInv /\ LoopJudges => JudgeInv'
<1> SUFFICES ASSUME NestInv, JudgeInv, LoopJudges  PROVE JudgeInv'
  OBVIOUS
<1>1. fnErr' = fnErr
  BY DEF LoopJudges, vars, scheduleVars, gbVars, fnVars, fnErr, returnedErr
<1>2. CASE Outer!ReadCallerCtx
  <2>1. /\ oPc = "attempt" /\ oStep = "caller" /\ oPc' = "attempt"
        /\ oStep' \in {"judge", "bound"}
        /\ UNCHANGED <<oErr, attemptTimeout, callerCtx>>
    BY <1>2 DEF Outer!ReadCallerCtx, Outer!scheduleVars
  <2> QED BY <1>1, <2>1 DEF JudgeInv
<1>3. CASE Outer!markAttemptTimeout
  <2>1. /\ oPc = "attempt" /\ oStep = "bound" /\ oPc' = "attempt" /\ oStep' = "judge"
        /\ UNCHANGED <<attemptTimeout, attemptTimer, callerCtx>>
    BY <1>3 DEF Outer!markAttemptTimeout, Outer!scheduleVars
  <2>2. \/ oErr' = oErr
        \/ oErr' = AttemptTimeout(oErr) /\ (callerCtx = "ended" \/ BoundSpent)
    BY <1>3, SameReading DEF Outer!markAttemptTimeout, Outer!AttemptCtxEnded, BoundSpent
  <2> QED BY <1>1, <2>1, <2>2 DEF JudgeInv, BoundSpent
<1>4. CASE Outer!JudgeCallerGone
  <2>1. oPc' = "judged" /\ oErr' = CtxErr /\ callerCtx = "ended" /\ callerCtx' = callerCtx
    BY <1>4, SameReading DEF Outer!JudgeCallerGone, Outer!callerGone, Outer!AttemptDone
  <2> QED BY <2>1 DEF JudgeInv
<1>5. CASE Outer!JudgeFinal
  <2>1. /\ oPc = "attempt" /\ oStep = "judge" /\ oPc' = "judged"
        /\ callerCtx # "ended" /\ ~Outer!Verdict.retryable
        /\ UNCHANGED <<oErr, attemptTimeout, attemptTimer, callerCtx>>
    BY <1>5 DEF Outer!JudgeFinal, Outer!callerGone, Outer!AttemptDone, Outer!doVars
  <2>2. ~IsTransient(oErr)
    BY <2>1, SameReading DEF Outer!Verdict, Outer!classify
  <2> QED BY <1>1, <2>1, <2>2 DEF JudgeInv, BoundSpent
<1>6. CASE Outer!JudgeRetryable
  <2> DEFINE w == retryAfterHintWait(oErr)
  <2>1. /\ oPc = "attempt" /\ oStep = "judge" /\ oPc' \in {"exhausted", "pause"}
        /\ callerCtx # "ended" /\ Outer!Verdict.retryable
        /\ oPc' = "pause" => oWait' \in Outer!resolveWait(Outer!Verdict.wait, oBackoff)
        /\ UNCHANGED <<oErr, attemptTimeout, attemptTimer, callerCtx, oBackoff>>
    BY <1>6 DEF Outer!JudgeRetryable, Outer!callerGone, Outer!AttemptFails, Outer!doVars
  <2>2. IsTransient(oErr) /\ Outer!Verdict.wait = w
    BY <2>1, SameReading DEF Outer!Verdict, Outer!classify
  <2>3. oPc' = "pause" => IF w > 0 THEN oWait' = w ELSE oWait' <= oBackoff
    <3> SUFFICES ASSUME oPc' = "pause"  PROVE IF w > 0 THEN oWait' = w ELSE oWait' <= oBackoff
      OBVIOUS
    <3>1. oWait' \in Outer!resolveWait(w, oBackoff)
      BY <2>1, <2>2
    <3>2. oBackoff \in 1 .. MaxDur
      BY DEF NestInv, LoopTyped
    <3> HIDE DEF w
    <3>3. CASE w > 0
      BY <3>1, <3>3 DEF Outer!resolveWait
    <3>4. CASE ~(w > 0)
      <4>1. oWait' \in JitteredBackoff(oBackoff)
        BY <3>1, <3>4 DEF Outer!resolveWait, Outer!JitteredBackoff, JitteredBackoff
      <4> QED BY <3>2, <3>4, <4>1, JitterRange
    <3> QED BY <3>3, <3>4
  <2>4. /\ fnErr # nil
        /\ oErr = fnErr \/ (oErr = AttemptTimeout(fnErr) /\ BoundSpent)
    BY <2>1 DEF JudgeInv
  <2>5. BoundSpent' = BoundSpent
    BY <2>1 DEF BoundSpent
  <2>6. retryAfterHintWait(oErr)' = w
    BY <2>1
  <2> HIDE DEF w
  <2> QED BY <1>1, <2>1, <2>2, <2>3, <2>4, <2>5, <2>6 DEF JudgeInv
<1>7. CASE Outer!Wait
  <2>1. /\ oPc \in {"pause", "sleep"} /\ oPc' \in {"sleep", "stopCtx"}
        /\ UNCHANGED <<oErr, attemptTimeout, attemptTimer, callerCtx, oBackoff, oWait>>
    BY <1>7 DEF Outer!Wait, Outer!StartSleep, Outer!CtxEndsSleep, Outer!doVars
  <2> QED BY <1>1, <2>1 DEF JudgeInv, BoundSpent
<1> QED BY <1>2, <1>3, <1>4, <1>5, <1>6, <1>7 DEF LoopJudges, Outer!Closure

\* Every step keeps it.
LEMMA JudgeInvStep == NestInv /\ JudgeInv /\ [NestNext]_nestVars => JudgeInv'
<1> SUFFICES ASSUME NestInv, JudgeInv, [NestNext]_nestVars  PROVE JudgeInv'
  OBVIOUS
<1>1. CASE GetSteps \/ GetRetries \/ AttemptExpires
  <2>1. pc \in Running
    BY <1>1 DEF GetSteps, GetRetries, AttemptExpires, EndCtx, ClientReturns, RequestInvalid,
                ClientFails, RetryableStatus, FinalStatus, SuccessStatus, BodyReturns, ReadEnds,
                ReadFails, Wait, Retry, StartSleep, CtxEndsSleep, SkipSleep, TimerFires,
                AttemptDone, AttemptFails, Running
  <2>2. InFn /\ UNCHANGED <<oPc, oStep>>
    BY <1>1, <2>1 DEF NestInv, CtxInv, GetSteps, GetRetries, AttemptExpires, loopVars
  <2> QED BY <2>2, InFnKeepsJudge DEF InFn
<1>2. CASE LoopRetries
  <2>1. InFn'
    BY <1>2 DEF LoopRetries, Outer!Retry, Outer!SkipSleep, Outer!TimerFires, Outer!NextAttempt, InFn
  <2> QED BY <2>1, InFnKeepsJudge
<1>3. CASE NestTick
  <2>1. /\ UNCHANGED <<oPc, oStep, oErr, oBackoff, oWait, callerCtx, attemptTimeout>>
        /\ attemptTimer' = IF oPc = "attempt" /\ attemptTimer > 0 THEN attemptTimer - 1 ELSE attemptTimer
    BY <1>3 DEF NestTick, Outer!DoTick, Outer!Tick
  <2>2. UNCHANGED <<pc, err, retryAfter, marks>>
    BY <1>3 DEF NestTick, GBTick, Tick, gbVars, vars, scheduleVars
  <2>3. fnErr' = fnErr
    BY <2>2 DEF fnErr, returnedErr
  <2>4. BoundSpent => BoundSpent'
    BY <2>1 DEF BoundSpent
  <2> QED BY <2>1, <2>3, <2>4 DEF JudgeInv
<1>4. CASE CallerEnds
  <2>1. /\ UNCHANGED <<oPc, oStep, oErr, oBackoff, oWait, attemptTimeout, attemptTimer>>
        /\ UNCHANGED <<pc, err, retryAfter, marks>> /\ callerCtx' = "ended"
        /\ oPc # "judged"
    BY <1>4 DEF CallerEnds, Outer!DoEndCtx, Outer!EndCtx, Outer!Running, gbVars, fnVars
  <2>2. fnErr' = fnErr /\ BoundSpent' = BoundSpent
    BY <2>1 DEF fnErr, returnedErr, BoundSpent
  <2> QED BY <2>1, <2>2 DEF JudgeInv
<1>5. CASE NestReturned \/ UNCHANGED nestVars
  <2>1. /\ UNCHANGED <<oPc, oStep, oErr, oBackoff, oWait, callerCtx, attemptTimeout, attemptTimer>>
        /\ UNCHANGED <<pc, err, retryAfter, marks>>
    BY <1>5 DEF NestReturned, nestVars, vars, scheduleVars, gbVars, loopVars, fnVars
  <2>2. fnErr' = fnErr /\ BoundSpent' = BoundSpent
    BY <2>1 DEF fnErr, returnedErr, BoundSpent
  <2> QED BY <2>1, <2>2 DEF JudgeInv
<1> QED BY <1>1, <1>2, <1>3, <1>4, <1>5, ReturnKeepsJudge, JudgeKeepsJudge DEF NestNext

\* It holds of every behaviour.
THEOREM NestJudges == NestSpec => [](NestInv /\ JudgeInv)
<1>1. NestInit => JudgeInv
  BY DEF NestInit, Outer!DoInit, Outer!ScheduleInit, JudgeInv
<1> QED BY <1>1, NestInvariant, JudgeInvStep, PTL DEF NestSpec

(***************************************************************************)
(* What the function hands back, when the client's and the bodies' own     *)
(* failures hold no *url.Error but the client's wrap and ask for no wait:  *)
(* the package puts both on above them, net/http puts neither below.       *)
(***************************************************************************)
PlainFailures == \A e \in ClientErrors \cup ReadErrors : ~Is(e, {"url", "hint"})

\* So each is an error without either layer, and the context's own is one too.
LEMMA PlainParts ==
  ASSUME PlainFailures
  PROVE  \A e \in ClientErrors \cup ReadErrors \cup {CtxErr, <<Layer("opaque")>>} :
           e \in Error \ {nil} /\ ~Is(e, {"url"}) /\ ~Is(e, {"hint"})
<1>1. \A e \in {CtxErr, <<Layer("opaque")>>} :
        e \in Error \ {nil} /\ ~Is(e, {"url"}) /\ ~Is(e, {"hint"})
  BY OwnLayers, OfOneLayer DEF CtxErr
<1>2. \A e \in ClientErrors \cup ReadErrors : ~Is(e, {"url"}) /\ ~Is(e, {"hint"})
  BY DEF PlainFailures, Is
<1> QED BY <1>1, <1>2, GetBytesAssumption

\* An error without a *url.Error goes out as it is.
LEMMA UntouchedWithoutURL ==
  ASSUME NEW e \in Error \ {nil}, ~Is(e, {"url"})  PROVE LogSafeError(e) = e
<1>1. Peeled(e) = e
  BY DEF Peeled
<1> QED BY <1>1, OnePeelingReduces DEF LogSafeError

\* The forms an attempt's failure goes out in.
LEMMA SafeForms ==
  ASSUME PlainFailures
  PROVE  /\ \A e \in ClientErrors \cup {CtxErr, <<Layer("opaque")>>} :
              LogSafeError(UrlError(e)) = IF e = <<Layer("eof")>> THEN errServerClosed ELSE e
         /\ \A e \in ReadErrors \cup {CtxErr} : LogSafeError(ReadErr(e)) = ReadErr(e)
         /\ \A e \in {StatusErr, TooLarge} : LogSafeError(e) = e
<1>1. ASSUME NEW e \in ClientErrors \cup {CtxErr, <<Layer("opaque")>>}
      PROVE  LogSafeError(UrlError(e)) = IF e = <<Layer("eof")>> THEN errServerClosed ELSE e
  <2>1. e \in Error \ {nil} /\ ~Is(e, {"url"})
    BY PlainParts
  <2>2. LogSafeError(UrlError(e)) = reduceURLErrors(UrlError(e))
    BY <2>1, OwnLayers, LayerOnTop DEF UrlError, LogSafeError
  <2>3. reduceURLErrors(UrlError(e)) = nameHangUp(e)
    BY <2>1, OwnLayers, ReducedOnce DEF UrlError
  <2> QED BY <2>2, <2>3 DEF nameHangUp
<1>2. ASSUME NEW e \in ReadErrors \cup {CtxErr}  PROVE LogSafeError(ReadErr(e)) = ReadErr(e)
  <2>1. e \in Error /\ ~Is(e, {"url"})
    BY PlainParts
  <2>2. ReadErr(e) \in Error \ {nil}
    BY <2>1, OwnLayers, LayerOnTop DEF ReadErr
  <2>3. ~Is(ReadErr(e), {"url"})
    BY <2>1, OwnLayers, IsOnTop DEF ReadErr
  <2> QED BY <2>2, <2>3, UntouchedWithoutURL
<1>3. \A e \in {StatusErr, TooLarge} : LogSafeError(e) = e
  <2>1. \A e \in {StatusErr, TooLarge} : e \in Error \ {nil} /\ ~Is(e, {"url"})
    BY OwnLayers, OfOneLayer DEF StatusErr, TooLarge
  <2> QED BY <2>1, UntouchedWithoutURL
<1> QED BY <1>1, <1>2, <1>3

\* What an attempt's failure is.
LEMMA AttemptCases ==
  ASSUME NEW e \in AttemptErrors
  PROVE  \/ \E t \in ClientErrors \cup {CtxErr, <<Layer("opaque")>>} : e = UrlError(t)
         \/ \E t \in ReadErrors \cup {CtxErr} : e = ReadErr(t)
         \/ e \in {StatusErr, TooLarge}
BY DEF AttemptErrors, InvalidErr

\* A layer that is no hint leaves the hint below it, and a hint on top is the hint.
LEMMA HintBelow ==
  ASSUME NEW x \in LayerSet, NEW e \in Error
  PROVE  /\ x.kind # "hint" => retryAfterHintWait(<<x>> \o e) = retryAfterHintWait(e)
         /\ x.kind = "hint" => retryAfterHintWait(<<x>> \o e) = x.dur
<1> DEFINE f == <<x>> \o e
<1>1. /\ f[1] = x /\ \A i \in DOMAIN e : f[i + 1] = e[i]
      /\ Is(f, {"hint"}) <=> x.kind = "hint" \/ Is(e, {"hint"})
  BY LayerOnTop, IsOnTop
<1>2. x.kind = "hint" => First(f, {"hint"}) = 1
  BY FirstOnTop
<1>3. ASSUME x.kind # "hint", Is(e, {"hint"})  PROVE f[First(f, {"hint"})] = e[First(e, {"hint"})]
  <2>1. First(f, {"hint"}) = First(e, {"hint"}) + 1
    BY <1>3, FirstBelow
  <2>2. First(e, {"hint"}) \in DOMAIN e
    BY <1>3, FirstExists
  <2> HIDE DEF f
  <2> QED BY <1>1, <2>1, <2>2
<1> HIDE DEF f
<1>4. /\ x.kind # "hint" => retryAfterHintWait(f) = retryAfterHintWait(e)
      /\ x.kind = "hint" => retryAfterHintWait(f) = x.dur
  BY <1>1, <1>2, <1>3 DEF retryAfterHintWait
<1> QED BY <1>4 DEF f

\* The marks are layers of their own.
LEMMA MarkLayers ==
  /\ \A k \in {"markTransient", "attemptTimeout"} : Layer(k) \in LayerSet /\ Layer(k).kind = k
  /\ \A e \in Error \ {nil} : /\ MarkTransient(e) = <<Layer("markTransient")>> \o e
                              /\ AttemptTimeout(e) = <<Layer("attemptTimeout")>> \o e
BY DEF Layer, LayerSet, Kinds, OwnKinds, LibraryKinds, MarkTransient, AttemptTimeout

\* A marked error is seen to be.
LEMMA MarkedIsMarked == \A e \in Error \ {nil} : IsAttemptTimeout(AttemptTimeout(e))
<1> SUFFICES ASSUME NEW e \in Error \ {nil}  PROVE Is(AttemptTimeout(e), {"attemptTimeout"})
  BY DEF IsAttemptTimeout
<1> DEFINE x == Layer("attemptTimeout")
<1>1. x \in LayerSet /\ x.kind = "attemptTimeout" /\ AttemptTimeout(e) = <<x>> \o e
  BY MarkLayers
<1> HIDE DEF x
<1> QED BY <1>1, IsOnTop

\* The failure an attempt goes out with asks for no wait.
LEMMA SafeErrorsAskNothing ==
  ASSUME PlainFailures, NEW e \in AttemptErrors
  PROVE  /\ LogSafeError(e) \in Error \ {nil}
         /\ retryAfterHintWait(LogSafeError(e)) = 0
<1>1. \A f : ~Is(f, {"hint"}) => retryAfterHintWait(f) = 0
  BY DEF retryAfterHintWait
<1>2. ~Is(errServerClosed, {"hint"})
  BY DEF errServerClosed, Is, Layer
<1>3. CASE \E t \in ClientErrors \cup {CtxErr, <<Layer("opaque")>>} : e = UrlError(t)
  BY <1>1, <1>2, <1>3, SafeForms, PlainParts, CauseOfNothing
<1>4. CASE \E t \in ReadErrors \cup {CtxErr} : e = ReadErr(t)
  <2>1. PICK t \in ReadErrors \cup {CtxErr} : e = ReadErr(t)
    BY <1>4
  <2>2. t \in Error /\ ~Is(t, {"hint"}) /\ LogSafeError(e) = ReadErr(t)
    BY <2>1, SafeForms, PlainParts
  <2>3. ReadErr(t) \in Error \ {nil} /\ ~Is(ReadErr(t), {"hint"})
    <3> DEFINE x == Layer("wrap")
    <3>1. x \in LayerSet /\ x.kind = "wrap" /\ ReadErr(t) = <<x>> \o t
      BY OwnLayers DEF ReadErr
    <3> HIDE DEF x
    <3>2. <<x>> \o t \in Error /\ <<x>> \o t # nil
      BY <2>2, <3>1, LayerOnTop
    <3>3. ~Is(<<x>> \o t, {"hint"})
      BY <2>2, <3>1, IsOnTop
    <3> QED BY <3>1, <3>2, <3>3
  <2> QED BY <1>1, <2>2, <2>3
<1>5. CASE e \in {StatusErr, TooLarge}
  <2>1. e \in Error \ {nil} /\ ~Is(e, {"hint"}) /\ LogSafeError(e) = e
    BY <1>5, SafeForms, OwnLayers, OfOneLayer DEF StatusErr, TooLarge
  <2> QED BY <1>1, <2>1
<1> QED BY <1>3, <1>4, <1>5, AttemptCases

\* The function's error asks for what the last response asked for, marked or not.
LEMMA FnErrHint ==
  ASSUME PlainFailures, GBInv, pc \in Returns, fnErr # nil
  PROVE  LET asked == IF pc = "exhausted" /\ hint > 0 THEN hint ELSE 0
         IN  /\ retryAfterHintWait(fnErr) = asked
             /\ retryAfterHintWait(AttemptTimeout(fnErr)) = asked
<1> DEFINE asked == IF pc = "exhausted" /\ hint > 0 THEN hint ELSE 0
<1>1. fnErr \in Error
  BY FnErrType
<1>2. ASSUME pc = "judged"  PROVE retryAfterHintWait(fnErr) = asked
  <2>1. fnErr = LogSafeError(err) /\ err # nil
    BY <1>2 DEF fnErr, returnedErr, LogSafeError
  <2> QED BY <1>2, <2>1, SafeErrorsAskNothing DEF GBInv, GBTypeOK
<1>3. ASSUME pc = "stopCtx"  PROVE retryAfterHintWait(fnErr) = asked
  <2>1. fnErr = CtxErr
    BY <1>3 DEF fnErr, returnedErr
  <2> QED BY <1>3, <2>1, PlainParts DEF retryAfterHintWait
<1>4. ASSUME pc = "exhausted"  PROVE retryAfterHintWait(fnErr) = asked
  <2> DEFINE s == LogSafeError(err)
             w == <<Layer("wrap")>> \o s
             h == <<Timed("hint", retryAfter)>> \o w
  <2>1. /\ err \in AttemptErrors /\ retryAfter = hint /\ retryAfter \in Waits
        /\ fnErr = IF marks /\ Is(err, {"status"}) THEN MarkTransient(returnedErr) ELSE returnedErr
    BY <1>4 DEF GBInv, GBTypeOK, fnErr
  <2>2. s \in Error /\ retryAfterHintWait(s) = 0
    BY <2>1, SafeErrorsAskNothing
  <2> HIDE DEF s
  <2>3. w \in Error /\ w # nil /\ retryAfterHintWait(w) = 0
    <3> DEFINE x == Layer("wrap")
    <3>1. x \in LayerSet /\ x.kind = "wrap" /\ w = <<x>> \o s
      BY OwnLayers
    <3> HIDE DEF x, w
    <3> QED BY <2>2, <3>1, LayerOnTop, HintBelow
  <2> HIDE DEF w
  <2>4. h \in Error /\ h # nil /\ retryAfterHintWait(h) = hint
    <3>1. Timed("hint", retryAfter).dur = hint
      BY <2>1 DEF Timed
    <3> QED BY <2>1, <2>3, <3>1, HintIsLayer, LayerOnTop, HintBelow
  <2>5. returnedErr = IF retryAfter > 0 THEN h ELSE w
    BY <1>4 DEF returnedErr, Exhausted, h, w, s
  <2> HIDE DEF h
  <2>6. returnedErr \in Error \ {nil} /\ retryAfterHintWait(returnedErr) = asked
    BY <1>4, <2>1, <2>3, <2>4, <2>5
  <2> QED BY <2>1, <2>6, MarkLayers, HintBelow
<1>5. retryAfterHintWait(fnErr) = asked
  BY <1>2, <1>3, <1>4 DEF Returns, GBInv
<1>6. retryAfterHintWait(AttemptTimeout(fnErr)) = retryAfterHintWait(fnErr)
  BY <1>1, MarkLayers, HintBelow
<1> QED BY <1>5, <1>6

\* While the outer loop waits the inner one has returned.
LEMMA OuterPastFn ==
  ASSUME NestInv, ~InFn  PROVE pc \in Returns
BY DEF NestInv, CtxInv, ScheduleInv, ScheduleTypeOK

\* The outer loop waits what the last response asked for, and within its own backoff
\* when the last attempt had none, whatever earlier responses or calls asked.
THEOREM NestHintHonored ==
  ASSUME PlainFailures  PROVE NestSpec => []HintHonored
<1>1. NestInv /\ JudgeInv => HintHonored
  <2> SUFFICES ASSUME NestInv, JudgeInv, oPc \in {"pause", "sleep"}
               PROVE  IF pc = "exhausted" /\ hint > 0 THEN oWait = hint ELSE oWait <= oBackoff
    BY DEF HintHonored, Outer!Waiting
  <2>1. pc \in Returns /\ GBInv
    BY OuterPastFn DEF InFn, NestInv
  <2>2. /\ oErr = fnErr \/ oErr = AttemptTimeout(fnErr)
        /\ IF retryAfterHintWait(oErr) > 0 THEN oWait = retryAfterHintWait(oErr)
                                           ELSE oWait <= oBackoff
        /\ fnErr # nil
    BY DEF JudgeInv
  <2>3. retryAfterHintWait(oErr) = IF pc = "exhausted" /\ hint > 0 THEN hint ELSE 0
    BY <2>1, <2>2, FnErrHint
  <2> QED BY <2>2, <2>3
<1> QED BY <1>1, NestJudges, PTL

\* A mark on a retryable error, and one on the context's deadline, is retried.
LEMMA MarkedIsRetried ==
  /\ \A e \in Error \ {nil} : IsTransient(e) => IsTransient(MarkTransient(e)) /\ IsTransient(AttemptTimeout(e))
  /\ IsTransient(AttemptTimeout(CtxErr)) /\ IsTransient(AttemptTimeout(ReadErr(CtxErr)))
<1>1. ASSUME NEW x \in LayerSet, x.kind \in {"markTransient", "attemptTimeout"},
             NEW e \in Error, ~IsPermanent(e), ~Is(e, {"auth", "rateLimit"}),
             x.kind = "attemptTimeout" \/ IsTransient(e)
      PROVE  IsTransient(<<x>> \o e)
  <2> DEFINE f == <<x>> \o e
  <2>1. \A kinds : Is(f, kinds) <=> x.kind \in kinds \/ Is(e, kinds)
    BY IsOnTop
  <2>2. f[First(f, Transient)] = x /\ Is(f, Transient)
    <3>1. x.kind \in Transient
      BY <1>1 DEF Transient
    <3>2. First(f, Transient) = 1
      BY <3>1, FirstOnTop
    <3> QED BY <2>1, <3>1, <3>2, LayerOnTop
  <2> HIDE DEF f
  <2>3. ~IsPermanent(f) /\ ~Is(f, {"auth", "rateLimit"})
    BY <1>1, <2>1 DEF IsPermanent
  <2>4. CASE x.kind = "attemptTimeout"
    BY <2>1, <2>3, <2>4 DEF f, IsTransient, IsAttemptTimeout
  <2>5. CASE x.kind = "markTransient" /\ IsTransient(e)
    <3>1. /\ isCallerContextError(f) <=> isCallerContextError(e)
          /\ IsAttemptTimeout(f) <=> IsAttemptTimeout(e)
      BY <2>1, <2>5 DEF isCallerContextError, MatchesDeadline, IsAttemptTimeout
    <3>2. f[First(f, Transient)].kind \in SaysYes
      BY <2>2, <2>5 DEF SaysYes, Transient
    <3> QED BY <2>2, <2>3, <2>5, <3>1, <3>2 DEF f, IsTransient
  <2> QED BY <1>1, <2>4, <2>5
<1>2. \A e \in Error \ {nil} : IsTransient(e) => IsTransient(MarkTransient(e)) /\ IsTransient(AttemptTimeout(e))
  <2> SUFFICES ASSUME NEW e \in Error \ {nil}, IsTransient(e)
               PROVE  IsTransient(MarkTransient(e)) /\ IsTransient(AttemptTimeout(e))
    OBVIOUS
  <2>1. ~IsPermanent(e) /\ ~Is(e, {"auth", "rateLimit"})
    BY DEF IsTransient
  <2>2. /\ IsTransient(<<Layer("markTransient")>> \o e)
        /\ IsTransient(<<Layer("attemptTimeout")>> \o e)
    BY <1>1, <2>1, MarkLayers
  <2> QED BY <2>2, MarkLayers
<1>3. \A e \in {CtxErr, ReadErr(CtxErr)} : IsTransient(AttemptTimeout(e))
  <2>1. \A e \in {CtxErr, ReadErr(CtxErr)} :
          e \in Error \ {nil} /\ ~IsPermanent(e) /\ ~Is(e, {"auth", "rateLimit"})
    <3> DEFINE r == <<Layer("wrap")>> \o CtxErr
    <3>1. CtxErr \in Error \ {nil} /\ \A kinds : Is(CtxErr, kinds) <=> "deadline" \in kinds
      BY OwnLayers, OfOneLayer DEF CtxErr
    <3>2. \A kinds : Is(r, kinds) <=> "wrap" \in kinds \/ "deadline" \in kinds
      <4>1. \A kinds : Is(r, kinds) <=> "wrap" \in kinds \/ Is(CtxErr, kinds)
        BY <3>1, OwnLayers, IsOnTop
      <4> QED BY <3>1, <4>1
    <3>3. r \in Error /\ r # nil
      BY <3>1, OwnLayers, LayerOnTop
    <3>4. ReadErr(CtxErr) = r
      BY DEF ReadErr
    <3> HIDE DEF r
    <3>5. \A e \in {CtxErr, r} : ~IsPermanent(e) /\ ~Is(e, {"auth", "rateLimit"})
      BY <3>1, <3>2 DEF IsPermanent
    <3> QED BY <3>1, <3>3, <3>4, <3>5
  <2> QED BY <1>1, <2>1, MarkLayers
<1> QED BY <1>2, <1>3

\* What the inner loop took for transient, and did not lose to its own sleep, the
\* function hands back as transient.
LEMMA TransientHandedBack ==
  ASSUME PlainFailures, GBInv, pc \in {"judged", "exhausted"}, IsTransient(err)
  PROVE  fnErr \in Error \ {nil} /\ IsTransient(fnErr)
<1>1. err # nil /\ err \in AttemptErrors
  BY NothingIsFinal DEF GBInv, GBTypeOK
<1>2. ASSUME pc = "judged"  PROVE fnErr \in Error \ {nil} /\ IsTransient(fnErr)
  <2>1. PICK e \in ReadErrors \cup {CtxErr} : err = ReadErr(e)
    BY <1>2 DEF GBInv
  <2>2. fnErr = err
    BY <1>2, <2>1, SafeForms DEF fnErr, returnedErr
  <2> QED BY <1>1, <2>2, AttemptErrorType
<1>3. ASSUME pc = "exhausted"  PROVE fnErr \in Error \ {nil} /\ IsTransient(fnErr)
  <2>1. PICK e \in ClientErrors : err = UrlError(e)
    BY <1>3, FinalErrors DEF GBInv
  <2>2. e \in Error /\ ~Is(e, {"url"})
    BY PlainParts
  <2>3. /\ LogSafeError(err) \in Error /\ ~Is(LogSafeError(err), {"url"})
        /\ IsTransient(LogSafeError(err))
    BY <2>1, <2>2, ReducedFailureIsTransient
  <2>4. returnedErr = Exhausted(LogSafeError(err), retryAfter) /\ retryAfter \in Waits
    BY <1>3 DEF returnedErr, GBInv, GBTypeOK
  <2>5. IsTransient(returnedErr) /\ returnedErr \in Error \ {nil}
    BY <1>3, <2>3, <2>4, ExhaustedKeeps, ReturnedIsSafe DEF Returns
  <2>6. fnErr \in {returnedErr, MarkTransient(returnedErr)}
    BY DEF fnErr
  <2>7. fnErr \in Error \ {nil}
    BY <1>3, FnErrType DEF Returns
  <2> QED BY <2>5, <2>6, <2>7, MarkedIsRetried
<1> QED BY <1>2, <1>3

\* What the inner loop settled without a transient verdict comes back transient only
\* when the *url.Error hid a timeout.
LEMMA SettledComesBack ==
  ASSUME PlainFailures, GBInv, pc = "judged", IsTransient(LogSafeError(err))
  PROVE  \/ \E e \in ReadErrors \cup {CtxErr} : err = ReadErr(e)
         \/ err[1].kind = "url" /\ ~isTimeout(err) /\ isTimeout(LogSafeError(err))
<1>1. err \in AttemptErrors
  BY NothingIsFinal DEF GBInv, GBTypeOK, LogSafeError
<1>2. err \notin {StatusErr, TooLarge}
  BY SafeForms, FinalErrors
<1> SUFFICES ASSUME ~\E e \in ReadErrors \cup {CtxErr} : err = ReadErr(e)
             PROVE  err[1].kind = "url" /\ ~isTimeout(err) /\ isTimeout(LogSafeError(err))
  OBVIOUS
<1>3. PICK t \in ClientErrors \cup {CtxErr, <<Layer("opaque")>>} : err = UrlError(t)
  BY <1>1, <1>2, AttemptCases
<1>4. t \in Error /\ ~Is(t, {"url"})
  BY PlainParts
<1>5. ~IsTransient(err)
  BY DEF GBInv
<1>6. err[1].kind = "url" /\ err # nil
  <2>1. Layer("url") \in LayerSet /\ Layer("url").kind = "url"
    BY OwnLayers
  <2>2. /\ (<<Layer("url")>> \o t)[1] = Layer("url")
        /\ <<Layer("url")>> \o t # nil
    BY <1>4, <2>1, LayerOnTop
  <2>3. err = <<Layer("url")>> \o t
    BY <1>3 DEF UrlError
  <2> QED BY <2>1, <2>2, <2>3
<1>7. LogSafeError(err) = reduceURLErrors(err)
  BY <1>6 DEF LogSafeError
<1> QED BY <1>3, <1>4, <1>5, <1>6, <1>7, OwnLayers, ReductionShowsTimeouts DEF UrlError

\* The loops agree on what is worth another try: the outer one never gives up on what
\* the inner one retried, and retries what it settled in the three cases LoopsAgree
\* names alone.
THEOREM NestLoopsAgree ==
  ASSUME PlainFailures  PROVE NestSpec => []LoopsAgree
<1>1. NestInv /\ JudgeInv => LoopsAgree
  <2> SUFFICES ASSUME NestInv, JudgeInv  PROVE LoopsAgree
    OBVIOUS
  <2>i. GBInv /\ (oPc # "attempt" => pc \in Returns)
    BY OuterPastFn DEF NestInv, InFn
  <2>1. ASSUME oPc = "judged", oErr # nil, callerCtx = "live"
        PROVE  ~IsTransient(IF pc = "stopCtx" THEN CtxErr ELSE err)
    <3>1. CASE pc = "stopCtx"
      BY <3>1, FinalErrors
    <3>2. CASE pc # "stopCtx"
      <4> SUFFICES ASSUME IsTransient(err)  PROVE FALSE
        BY <3>2
      <4>1. pc \in {"judged", "exhausted"}
        BY <2>i, <2>1, <3>2 DEF Returns, GBInv
      <4>2. fnErr \in Error \ {nil} /\ IsTransient(fnErr)
        BY <2>i, <4>1, TransientHandedBack
      <4>3. oErr \in {fnErr, AttemptTimeout(fnErr)} /\ ~IsTransient(oErr)
        BY <2>1 DEF JudgeInv
      <4> QED BY <4>2, <4>3, MarkedIsRetried
    <3> QED BY <3>1, <3>2
  <2>2. ASSUME oPc \in {"pause", "sleep"}, pc = "judged"
        PROVE  \/ \E e \in ReadErrors \cup {CtxErr} : err = ReadErr(e)
               \/ err[1].kind = "url" /\ ~isTimeout(err) /\ isTimeout(LogSafeError(err))
               \/ attemptTimer = 0 /\ IsAttemptTimeout(oErr)
    <3>1. /\ IsTransient(oErr) /\ fnErr # nil
          /\ oErr = fnErr \/ (oErr = AttemptTimeout(fnErr) /\ BoundSpent)
      BY <2>2 DEF JudgeInv
    <3>2. CASE oErr = fnErr
      <4>1. IsTransient(LogSafeError(err))
        BY <2>2, <3>1, <3>2 DEF fnErr, returnedErr
      <4> QED BY <2>i, <2>2, <4>1, SettledComesBack
    <3>3. CASE oErr = AttemptTimeout(fnErr) /\ BoundSpent
      <4>1. fnErr \in Error \ {nil}
        BY <2>i, <2>2, <3>1, FnErrType
      <4>2. IsAttemptTimeout(AttemptTimeout(fnErr))
        BY <4>1, MarkedIsMarked
      <4> QED BY <3>3, <4>2 DEF BoundSpent
    <3> QED BY <3>1, <3>2, <3>3
  <2> QED BY <2>1, <2>2 DEF LoopsAgree, Outer!Waiting
<1> QED BY <1>1, NestJudges, PTL

(***************************************************************************)
(* Who is told of a deadline.                                              *)
(***************************************************************************)

\* No failure of the client or a body is itself read as the caller's context's, as a
\* resolver's own timeout would be.
OwnDeadlines == \A e \in ClientErrors \cup ReadErrors : ~isCallerContextError(e)

\* A prefix that is no net error neither makes nor hides the caller's context error.
LEMMA CallerErrBelow ==
  ASSUME NEW x \in LayerSet, x.kind \in {"wrap", "hint", "markTransient", "attemptTimeout"},
         NEW e \in Error
  PROVE  isCallerContextError(<<x>> \o e) <=> isCallerContextError(e)
BY IsOnTop DEF isCallerContextError, MatchesDeadline

\* Then the function hands back the context's error only as GetBytes found it, in the
\* client, a body or a sleep, and only once its context has ended.
LEMMA CtxFailure ==
  ASSUME PlainFailures, OwnDeadlines, GBInv, pc \in Returns, isCallerContextError(fnErr)
  PROVE  fnErr \in {CtxErr, ReadErr(CtxErr)} /\ ctx = "ended"
<1>1. /\ ~isCallerContextError(nil) /\ ~isCallerContextError(errServerClosed)
      /\ ~isCallerContextError(<<Layer("opaque")>>)
      /\ ~isCallerContextError(StatusErr) /\ ~isCallerContextError(TooLarge)
  <2>1. \A kinds : ~Is(nil, kinds)
    BY DEF Is, nil
  <2>2. \A kinds : Is(errServerClosed, kinds) <=> "serverClosed" \in kinds \/ "eof" \in kinds
    BY DEF errServerClosed, Is, Layer
  <2>3. /\ \A kinds : Is(<<Layer("opaque")>>, kinds) <=> "opaque" \in kinds
        /\ \A kinds : Is(StatusErr, kinds) <=> "status" \in kinds
        /\ \A kinds : Is(TooLarge, kinds) <=> "tooLarge" \in kinds
    BY OwnLayers, OfOneLayer DEF StatusErr, TooLarge
  <2> QED BY <2>1, <2>2, <2>3 DEF isCallerContextError, MatchesDeadline
<1>2. ASSUME NEW e \in AttemptErrors, isCallerContextError(LogSafeError(e))
      PROVE  \/ e = UrlError(CtxErr) /\ LogSafeError(e) = CtxErr
             \/ e = ReadErr(CtxErr) /\ LogSafeError(e) = ReadErr(CtxErr)
  <2>1. CASE \E t \in ClientErrors \cup {CtxErr, <<Layer("opaque")>>} : e = UrlError(t)
    <3>1. PICK t \in ClientErrors \cup {CtxErr, <<Layer("opaque")>>} : e = UrlError(t)
      BY <2>1
    <3>2. LogSafeError(e) = IF t = <<Layer("eof")>> THEN errServerClosed ELSE t
      BY <3>1, SafeForms
    <3>3. LogSafeError(e) = t /\ isCallerContextError(t)
      BY <1>1, <1>2, <3>2
    <3>4. t = CtxErr
      BY <1>1, <3>3 DEF OwnDeadlines
    <3> QED BY <3>1, <3>3, <3>4
  <2>2. CASE \E t \in ReadErrors \cup {CtxErr} : e = ReadErr(t)
    <3>1. PICK t \in ReadErrors \cup {CtxErr} : e = ReadErr(t)
      BY <2>2
    <3>2. LogSafeError(e) = ReadErr(t) /\ t \in Error
      BY <3>1, SafeForms, PlainParts
    <3>3. isCallerContextError(t)
      BY <1>2, <3>2, OwnLayers, CallerErrBelow DEF ReadErr
    <3>4. t = CtxErr
      BY <3>3 DEF OwnDeadlines
    <3> QED BY <3>1, <3>2, <3>4
  <2>3. CASE e \in {StatusErr, TooLarge}
    BY <1>1, <1>2, <2>3, SafeForms
  <2> QED BY <2>1, <2>2, <2>3, AttemptCases
<1>3. ASSUME pc = "judged"  PROVE fnErr \in {CtxErr, ReadErr(CtxErr)} /\ ctx = "ended"
  <2>1. fnErr = LogSafeError(err)
    BY <1>3 DEF fnErr, returnedErr
  <2>2. err \in AttemptErrors
    BY <1>1, <2>1 DEF GBInv, GBTypeOK, LogSafeError
  <2> QED BY <1>2, <2>1, <2>2 DEF GBInv
<1>4. ASSUME pc = "stopCtx"  PROVE fnErr \in {CtxErr, ReadErr(CtxErr)} /\ ctx = "ended"
  BY <1>4 DEF fnErr, returnedErr, GBInv
<1>5. ASSUME pc = "exhausted"  PROVE FALSE
  <2> DEFINE s == LogSafeError(err)
             w == <<Layer("wrap")>> \o s
             h == <<Timed("hint", retryAfter)>> \o w
  <2>1. /\ err \in AttemptErrors /\ retryAfter \in Waits
        /\ err = StatusErr \/ \E e \in ClientErrors : err = UrlError(e)
        /\ fnErr \in {returnedErr, MarkTransient(returnedErr)}
    BY <1>5 DEF GBInv, GBTypeOK, fnErr
  <2>2. s \in Error /\ ~isCallerContextError(s)
    <3>1. s \in Error
      BY <2>1, SafeErrorsAskNothing
    <3>2. CASE err = StatusErr
      BY <1>1, <3>1, <3>2, SafeForms
    <3>3. CASE \E e \in ClientErrors : err = UrlError(e)
      BY <1>1, <3>1, <3>3, SafeForms DEF OwnDeadlines
    <3> QED BY <2>1, <3>2, <3>3
  <2>3. returnedErr = IF retryAfter > 0 THEN h ELSE w
    BY <1>5 DEF returnedErr, Exhausted
  <2> HIDE DEF s
  <2>4. w \in Error /\ w # nil /\ ~isCallerContextError(w)
    <3>1. Layer("wrap") \in LayerSet /\ Layer("wrap").kind = "wrap"
      BY OwnLayers
    <3>2. w \in Error /\ w # nil
      BY <2>2, <3>1, LayerOnTop
    <3>3. isCallerContextError(w) <=> isCallerContextError(s)
      BY <2>2, <3>1, CallerErrBelow
    <3> QED BY <2>2, <3>2, <3>3
  <2> HIDE DEF w
  <2>5. h \in Error /\ h # nil /\ ~isCallerContextError(h)
    BY <2>1, <2>4, HintIsLayer, LayerOnTop, CallerErrBelow
  <2> HIDE DEF h
  <2>6. returnedErr \in Error \ {nil} /\ ~isCallerContextError(returnedErr)
    BY <2>3, <2>4, <2>5
  <2>7. ~isCallerContextError(MarkTransient(returnedErr))
    <3> DEFINE x == Layer("markTransient")
    <3>1. /\ x \in LayerSet /\ x.kind = "markTransient"
          /\ MarkTransient(returnedErr) = <<x>> \o returnedErr
      BY <2>6, MarkLayers
    <3> HIDE DEF x
    <3> QED BY <2>6, <3>1, CallerErrBelow
  <2> QED BY <2>1, <2>6, <2>7
<1> QED BY <1>3, <1>4, <1>5 DEF Returns, GBInv

\* A deadline that reaches a live caller's closure past its own bound is marked as
\* that bound's, from wherever GetBytes was when it expired.
MarkInv ==
  oPc # "attempt" \/ oStep = "judge" =>
    (callerCtx = "live" /\ attemptTimeout > 0 /\ isCallerContextError(fnErr)
       => oErr = AttemptTimeout(fnErr))

\* The closure marks it, for by then the caller is live and the bound has expired.
LEMMA BoundMarks ==
  ASSUME PlainFailures, OwnDeadlines, NestInv, JudgeInv, Outer!markAttemptTimeout,
         callerCtx = "live", isCallerContextError(fnErr)
  PROVE  oErr' = AttemptTimeout(fnErr)
<1>1. oPc = "attempt" /\ oStep = "bound" /\ oErr = fnErr /\ attemptTimeout > 0
  BY DEF JudgeInv, Outer!markAttemptTimeout
<1>2. GBInv /\ pc \in Returns
  BY <1>1, OuterPastFn DEF NestInv, InFn
<1>3. fnErr \in {CtxErr, ReadErr(CtxErr)} /\ ctx = "ended"
  BY <1>2, CtxFailure
<1>4. attemptTimer = 0
  BY <1>1, <1>3 DEF NestInv, CtxInv, LoopTyped, BoundSpent, ContextWithDefaultTimeout
<1>5. MatchesDeadline(fnErr)
  <2>1. \A e \in {CtxErr, ReadErr(CtxErr)} : ~Is(e, {"canceled"})
    <3>1. ~Is(CtxErr, {"canceled"}) /\ CtxErr \in Error
      BY OwnLayers, OfOneLayer DEF CtxErr
    <3>2. ~Is(<<Layer("wrap")>> \o CtxErr, {"canceled"})
      BY <3>1, OwnLayers, IsOnTop
    <3> QED BY <3>1, <3>2 DEF ReadErr
  <2> QED BY <1>3, <2>1 DEF isCallerContextError
<1> QED BY <1>1, <1>4, <1>5, SameReading DEF Outer!markAttemptTimeout, Outer!AttemptCtxEnded

\* What the function hands back does not change while the outer loop judges it.
LEMMA MarkInvStep ==
  ASSUME PlainFailures, OwnDeadlines, NestInv, JudgeInv, MarkInv, [NestNext]_nestVars
  PROVE  MarkInv'
<1>1. CASE InFn'
  BY <1>1 DEF InFn, MarkInv
<1>2. CASE FnReturns
  <2>1. fnErr' = fnErr
    BY <1>2 DEF FnReturns, vars, scheduleVars, gbVars, fnVars, fnErr, returnedErr
  <2>2. CASE fnErr = nil
    <3>1. ~isCallerContextError(nil)
      BY DEF isCallerContextError, MatchesDeadline, Is, nil
    <3>2. ~isCallerContextError(fnErr)'
      BY <2>1, <2>2, <3>1
    <3> QED BY <3>2 DEF MarkInv
  <2>3. CASE fnErr # nil
    <3>1. Outer!FnFails(fnErr)
      BY <1>2, <2>3 DEF FnReturns
    <3>2. /\ oPc' = "attempt" /\ attemptTimeout' = attemptTimeout
          /\ oStep' = IF attemptTimeout > 0 THEN "caller" ELSE "judge"
      BY <3>1 DEF Outer!FnFails, Outer!scheduleVars
    <3> QED BY <3>2 DEF MarkInv
  <2> QED BY <2>2, <2>3
<1>3. CASE LoopJudges
  <2>1. fnErr' = fnErr
    BY <1>3 DEF LoopJudges, vars, scheduleVars, gbVars, fnVars, fnErr, returnedErr
  <2>2. CASE Outer!ReadCallerCtx
    <3>1. callerCtx' = callerCtx /\ oPc' = "attempt" /\ (oStep' = "judge" => callerCtx = "ended")
      BY <2>2 DEF Outer!ReadCallerCtx, Outer!scheduleVars
    <3> QED BY <3>1 DEF MarkInv
  <2>3. CASE Outer!markAttemptTimeout
    <3>1. callerCtx' = callerCtx
      BY <2>3 DEF Outer!markAttemptTimeout, Outer!scheduleVars
    <3>2. isCallerContextError(fnErr)' <=> isCallerContextError(fnErr)
      BY <2>1
    <3>3. AttemptTimeout(fnErr)' = AttemptTimeout(fnErr)
      BY <2>1
    <3> QED BY <2>3, <3>1, <3>2, <3>3, BoundMarks DEF MarkInv
  <2>4. CASE Outer!JudgeCallerGone
    <3>1. callerCtx = "ended" /\ callerCtx' = callerCtx
      BY <2>4 DEF Outer!JudgeCallerGone, Outer!callerGone, Outer!AttemptDone
    <3> QED BY <3>1 DEF MarkInv
  <2>5. CASE Outer!JudgeFinal \/ Outer!JudgeRetryable
    <3>1. /\ oPc = "attempt" /\ oStep = "judge"
          /\ UNCHANGED <<oErr, attemptTimeout, callerCtx>>
      BY <2>5 DEF Outer!JudgeFinal, Outer!JudgeRetryable, Outer!AttemptDone,
                  Outer!AttemptFails, Outer!doVars
    <3> QED BY <2>1, <3>1 DEF MarkInv
  <2>6. CASE Outer!Wait
    <3>1. /\ oPc \in {"pause", "sleep"}
          /\ UNCHANGED <<oErr, attemptTimeout, callerCtx>>
      BY <2>6 DEF Outer!Wait, Outer!StartSleep, Outer!CtxEndsSleep, Outer!doVars
    <3> QED BY <2>1, <3>1 DEF MarkInv
  <2> QED BY <1>3, <2>2, <2>3, <2>4, <2>5, <2>6 DEF LoopJudges, Outer!Closure
<1>4. CASE CallerEnds
  <2>1. callerCtx' = "ended"
    BY <1>4 DEF CallerEnds, Outer!DoEndCtx, Outer!EndCtx
  <2> QED BY <2>1 DEF MarkInv
<1>5. CASE NestTick \/ NestReturned \/ UNCHANGED nestVars
  <2>1. /\ UNCHANGED <<oPc, oStep, oErr, callerCtx, attemptTimeout>>
        /\ UNCHANGED <<pc, err, retryAfter, marks>>
    BY <1>5 DEF NestTick, Outer!DoTick, Outer!Tick, GBTick, Tick, NestReturned, nestVars, vars,
                scheduleVars, gbVars, loopVars, fnVars
  <2>2. fnErr' = fnErr
    BY <2>1 DEF fnErr, returnedErr
  <2> QED BY <2>1, <2>2 DEF MarkInv
<1>6. CASE GetSteps \/ GetRetries \/ AttemptExpires
  <2>1. pc \in Running
    BY <1>6 DEF GetSteps, GetRetries, AttemptExpires, EndCtx, ClientReturns, RequestInvalid,
                ClientFails, RetryableStatus, FinalStatus, SuccessStatus, BodyReturns, ReadEnds,
                ReadFails, Wait, Retry, StartSleep, CtxEndsSleep, SkipSleep, TimerFires,
                AttemptDone, AttemptFails, Running
  <2>2. InFn /\ UNCHANGED <<oPc, oStep>>
    BY <1>6, <2>1 DEF NestInv, CtxInv, GetSteps, GetRetries, AttemptExpires, loopVars
  <2> QED BY <1>1, <2>2 DEF InFn
<1>7. CASE LoopRetries
  BY <1>1, <1>7 DEF LoopRetries, Outer!Retry, Outer!SkipSleep, Outer!TimerFires,
                    Outer!NextAttempt, InFn
<1> QED BY <1>2, <1>3, <1>4, <1>5, <1>6, <1>7 DEF NestNext

\* A caller whose context is live is told of a deadline only when no bound but the
\* function's own default applied: an attempt bound's expiry is marked and retried.
THEOREM NestLiveCallerNoDeadline ==
  ASSUME PlainFailures, OwnDeadlines  PROVE NestSpec => []LiveCallerNoDeadline
<1>1. NestInit => MarkInv
  BY DEF NestInit, Outer!DoInit, Outer!ScheduleInit, MarkInv
<1>2. NestInv /\ JudgeInv /\ MarkInv /\ [NestNext]_nestVars => MarkInv'
  BY MarkInvStep
<1>3. NestInv /\ JudgeInv /\ MarkInv => LiveCallerNoDeadline
  <2> SUFFICES ASSUME NestInv, JudgeInv, MarkInv,
                      oPc = "judged", callerCtx = "live", isCallerContextError(oErr)
               PROVE  ContextWithDefaultTimeout
    BY DEF LiveCallerNoDeadline, ContextWithDefaultTimeout
  <2>1. GBInv /\ pc \in Returns
    BY OuterPastFn DEF NestInv, InFn
  <2>2. ~isCallerContextError(nil)
    BY DEF isCallerContextError, MatchesDeadline, Is, nil
  <2>3. oErr \in {fnErr, AttemptTimeout(fnErr)} /\ fnErr # nil /\ ~IsTransient(oErr)
    BY <2>2 DEF JudgeInv
  <2>4. isCallerContextError(fnErr)
    <3>1. fnErr \in Error \ {nil}
      BY <2>1, <2>3, FnErrType
    <3>2. isCallerContextError(<<Layer("attemptTimeout")>> \o fnErr)
            <=> isCallerContextError(fnErr)
      BY <3>1, MarkLayers, CallerErrBelow
    <3>3. AttemptTimeout(fnErr) = <<Layer("attemptTimeout")>> \o fnErr
      BY <3>1, MarkLayers
    <3> QED BY <2>3, <3>2, <3>3
  <2>5. fnErr \in {CtxErr, ReadErr(CtxErr)} /\ ctx = "ended"
    BY <2>1, <2>4, CtxFailure
  <2>6. ASSUME BoundSpent  PROVE FALSE
    <3>1. oErr = AttemptTimeout(fnErr)
      BY <2>4, <2>6 DEF BoundSpent, MarkInv
    <3> QED BY <2>3, <2>5, <3>1, MarkedIsRetried
  <2> QED BY <2>5, <2>6 DEF NestInv, CtxInv
<1> QED BY <1>1, <1>2, <1>3, NestJudges, PTL DEF NestSpec

==============================================================================
