-------------------------------- MODULE Errors --------------------------------
(***************************************************************************)
(* How the package reads an error: httpx.go's IsTransient and reductions,  *)
(* cause.go's CauseOf, loop.go's classify.                                 *)
(*                                                                         *)
(* An error is its Unwrap tree in the order errors.Is and errors.As walk   *)
(* it, the outermost layer first; nil is empty.  A layer is a kind, with a *)
(* duration where the code reads one.  Every layer wraps what follows it,  *)
(* but a join wraps two errors, the first of so many layers as its dur     *)
(* says.  Messages are left out.                                           *)
(***************************************************************************)
EXTENDS Integers, Sequences

\* The layers of this package: its error types, and the errors the loop, its doors and
\* the reduction make: errElapsed, errRequestFailed, errServerClosed, the rewind,
\* prepare and check failures of RoundTrip, and GetBytes' retryAfterError, the "hint".
OwnKinds == {"permanent", "markTransient", "attemptTimeout", "auth", "rateLimit", "hint",
             "status", "statusRetryable", "statusFinal", "tooLarge", "serverClosed",
             "requestFailed", "elapsed", "rewind", "prepare", "check"}

\* The layers of the standard library and of the caller that the code tells apart.
LibraryKinds == {"url", "netOp", "dns", "deadline", "canceled", "netTimeout",
                 "clientTimeout", "kernelTimeout", "refused", "reset", "eof",
                 "unexpectedEOF", "tls", "wrap", "join", "opaque"}

Kinds == OwnKinds \cup LibraryKinds

Error == Seq([kind : Kinds, dur : Int])

Layer(kind)        == [kind |-> kind, dur |-> 0]
Timed(kind, d)     == [kind |-> kind, dur |-> d]
nil                == <<>>
Join(e, f)         == <<Timed("join", Len(e))>> \o e \o f

Is(e, kinds)     == \E i \in DOMAIN e : e[i].kind \in kinds
First(e, kinds)  == CHOOSE i \in DOMAIN e :
                        /\ e[i].kind \in kinds
                        /\ \A j \in 1 .. i - 1 : e[j].kind \notin kinds

\* Where the error that layer i is the outermost of ends: with the first branch of
\* the innermost join it is in, or with the whole.
EndOf(e, i) ==
  LET ends == {Len(e)} \cup
                {j + e[j].dur : j \in {k \in 1 .. i - 1 : e[k].kind = "join"
                                                     /\ i <= k + e[k].dur}}
  IN  CHOOSE last \in ends : \A other \in ends : last <= other

Below(e, i) == SubSeq(e, i + 1, EndOf(e, i))

Permanent(e)      == IF e = nil THEN nil ELSE <<Layer("permanent")>> \o e
MarkTransient(e)  == IF e = nil THEN nil ELSE <<Layer("markTransient")>> \o e
AttemptTimeout(e) == IF e = nil THEN nil ELSE <<Layer("attemptTimeout")>> \o e

IsPermanent(e)      == Is(e, {"permanent"})
IsAttemptTimeout(e) == Is(e, {"attemptTimeout"})

(***************************************************************************)
(* What the standard library's errors answer.                              *)
(*   deadline       context.DeadlineExceeded itself                        *)
(*   netTimeout     net's shared "i/o timeout", which only matches it      *)
(*   clientTimeout  net/http's timeout error, which only matches it        *)
(*   kernelTimeout  ETIMEDOUT, which does not                              *)
(***************************************************************************)
MatchesDeadline(e) == Is(e, {"deadline", "netTimeout", "clientTimeout"})

NetErrors == {"url", "netOp", "dns",
              "deadline", "netTimeout", "clientTimeout", "kernelTimeout"}

\* Timeout() of each layer: a *url.Error, *net.OpError or *net.DNSError asks
\* the error directly below it, which must have that method.
Timeout(e) ==
  LET t[i \in DOMAIN e] ==
        \/ e[i].kind \in {"deadline", "netTimeout", "clientTimeout", "kernelTimeout"}
        \/ e[i].kind \in {"url", "netOp", "dns"} /\ i < EndOf(e, i) /\ t[i + 1]
  IN  t

(***************************************************************************)
(* Causes.                                                                 *)
(***************************************************************************)
errServerClosed == <<Layer("serverClosed"), Layer("eof")>>

\* Mutant: the hang-up keeps its name, io.EOF.
nameHangUpNot(e) == e

\* Only the bare io.EOF is a round trip's hang-up.
nameHangUp(e) == IF e = <<Layer("eof")>> THEN errServerClosed ELSE e

isReset(e) ==
  \/ Is(e, {"url"}) /\ Below(e, First(e, {"url"})) = <<Layer("eof")>>
  \/ Is(e, {"serverClosed", "reset", "unexpectedEOF"})

\* Mutant: a type assertion, which sees the outermost layer alone.
isTimeoutOutermost(e) == e # nil /\ e[1].kind \in NetErrors /\ Timeout(e)[1]

isTimeout(e) == Is(e, NetErrors) /\ Timeout(e)[First(e, NetErrors)]

\* In the order they are tried.
Causes == <<"too_large", "tls", "dns", "refused", "reset", "timeout">>

HasCause(e) ==
  [too_large |-> Is(e, {"tooLarge"}),
   tls       |-> Is(e, {"tls"}),
   dns       |-> Is(e, {"dns"}),
   refused   |-> Is(e, {"refused"}),
   reset     |-> isReset(e),
   timeout   |-> isTimeout(e)]

CauseOf(e) ==
  LET found == {i \in DOMAIN Causes : HasCause(e)[Causes[i]]}
  IN  IF found = {} THEN "unknown"
      ELSE Causes[CHOOSE i \in found : \A j \in found : i <= j]

(***************************************************************************)
(* Transience.                                                             *)
(***************************************************************************)

\* Mutant: only a cancellation counts as the caller's.
isCallerContextErrorCanceled(e) == Is(e, {"canceled"})

\* The deadline counts as the caller's by identity, or when a net error that
\* cannot tell whose it was reports it.
isCallerContextError(e) ==
  \/ Is(e, {"canceled"})
  \/ MatchesDeadline(e) /\ Is(e, {"deadline", "netOp", "dns"})

\* Layers implementing Transient, and those of them that say yes.
Transient == {"markTransient", "attemptTimeout", "statusRetryable", "statusFinal"}
SaysYes   == Transient \ {"statusFinal"}

\* Mutant: the caller-context rejection comes before the attempt-timeout mark.
IsTransientCallerFirst(e) ==
  /\ ~IsPermanent(e)
  /\ ~Is(e, {"auth", "rateLimit"})
  /\ ~isCallerContextError(e)
  /\ IF Is(e, Transient)
       THEN e[First(e, Transient)].kind \in SaysYes
       ELSE CauseOf(e) \in {"dns", "refused", "reset", "timeout"}

IsTransient(e) ==
  /\ ~IsPermanent(e)
  /\ ~Is(e, {"auth", "rateLimit"})
  /\ \/ IsAttemptTimeout(e)
     \/ /\ ~isCallerContextError(e)
        /\ IF Is(e, Transient)
             THEN e[First(e, Transient)].kind \in SaysYes
             ELSE CauseOf(e) \in {"dns", "refused", "reset", "timeout"}

(***************************************************************************)
(* Do's verdict on a failed attempt.                                       *)
(***************************************************************************)

retryAfterHintWait(e) == IF Is(e, {"hint"}) THEN e[First(e, {"hint"})].dur ELSE 0

\* Mutant: the missing hint is not told from a short one.
rateLimitWaitNoFloor(e, maxWait) ==
  LET retryAfter == e[First(e, {"rateLimit"})].dur
  IN  IF retryAfter < maxWait THEN retryAfter ELSE maxWait

rateLimitWait(e, maxWait) ==
  LET retryAfter == e[First(e, {"rateLimit"})].dur
  IN  IF retryAfter > 0 /\ retryAfter < maxWait THEN retryAfter ELSE maxWait

\* Mutant: the rate-limit-only mode falls through to transience.
classifyOnlyFallsThrough(e, rlMode, rlMaxWait) ==
  IF rlMode # "rlNone" /\ Is(e, {"rateLimit"})
    THEN [retryable |-> TRUE, wait |-> rateLimitWait(e, rlMaxWait)]
  ELSE IF IsTransient(e)
    THEN [retryable |-> TRUE, wait |-> retryAfterHintWait(e)]
  ELSE [retryable |-> FALSE, wait |-> 0]

classify(e, rlMode, rlMaxWait) ==
  IF rlMode # "rlNone" /\ Is(e, {"rateLimit"})
    THEN [retryable |-> TRUE, wait |-> rateLimitWait(e, rlMaxWait)]
  ELSE IF rlMode # "rlOnly" /\ IsTransient(e)
    THEN [retryable |-> TRUE, wait |-> retryAfterHintWait(e)]
  ELSE [retryable |-> FALSE, wait |-> 0]

(***************************************************************************)
(* The reduction every logged or wrapped transport error goes through.     *)
(***************************************************************************)
maxURLErrorDepth == 8
errRequestFailed == <<Layer("requestFailed")>>

\* Mutant: the cause is unwrapped to its root, and the marks on it are lost.
urlErrorCauseRoot(e) ==
  LET first == First(e, {"url"})
      last  == EndOf(e, first)
  IN  IF last = first THEN errRequestFailed ELSE nameHangUp(<<e[last]>>)

\* What the first *url.Error reduces to: its cause, without what is around it.
urlErrorCause(e) ==
  LET cause == Below(e, First(e, {"url"}))
  IN  IF cause = nil THEN errRequestFailed ELSE nameHangUp(cause)

\* Mutant: only one url layer is peeled.
reduceURLErrorsOnce(e) == IF Is(e, {"url"}) THEN urlErrorCause(e) ELSE e

\* reduced[k] holds the one error left after k reductions.
reduceURLErrors(e) ==
  LET reduced[k \in 0 .. maxURLErrorDepth] ==
        IF k = 0 THEN {e}
        ELSE {IF Is(left, {"url"}) THEN urlErrorCause(left) ELSE left : left \in reduced[k - 1]}
      last == CHOOSE left \in reduced[maxURLErrorDepth] : TRUE
  IN  IF Is(last, {"url"}) THEN errRequestFailed ELSE last

\* Mutant: the error goes out as it came.
LogSafeErrorRaw(e) == e

LogSafeError(e) == IF e = nil THEN nil ELSE reduceURLErrors(e)

\* The same reduction, prefixed or not; a message that holds the secret leaves an
\* error of nothing but its redacted text.
RedactTransportError(e, prefixed, holdsSecret) ==
  LET reduced == reduceURLErrors(e)
      wrapped == IF prefixed THEN <<Layer("wrap")>> \o reduced ELSE reduced
  IN  IF e = nil THEN nil ELSE IF holdsSecret THEN <<Layer("opaque")>> ELSE wrapped

==============================================================================
