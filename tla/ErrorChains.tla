----------------------------- MODULE ErrorChains -----------------------------
(***************************************************************************)
(* The life of an error on its way up: it is made by the standard library, *)
(* the caller's function or this package, then wrapped by marks, by        *)
(* fmt.Errorf and by *url.Error, *net.OpError or *net.DNSError, or joined  *)
(* with another, up to MaxLayers layers.  Every error so built is judged.  *)
(***************************************************************************)
EXTENDS Errors, SequencesExt

CONSTANTS
  Roots,      \* kinds an error starts as
  Wrappers,   \* kinds that wrap another error
  MaxLayers   \* bound on an error's layers

ASSUME ErrorChainsAssumption ==
  /\ Roots \subseteq Kinds /\ Wrappers \subseteq Kinds
  /\ "eof" \notin Wrappers  \* io.EOF is a value and wraps nothing
  /\ MaxLayers \in Nat

VARIABLE err

ErrorInit == err = nil

Make(kind) == err = nil /\ err' = <<Layer(kind)>>

\* A mark of this package put on by the caller, the transport or the loop.
Mark == /\ err # nil
        /\ Len(err) < MaxLayers
        /\ err' \in {Permanent(err), MarkTransient(err), AttemptTimeout(err)}

Wrapped(kind) == /\ err # nil
              /\ Len(err) < MaxLayers
              /\ err' = <<Layer(kind)>> \o err

\* errors.Join, or two %w, with an error from elsewhere on either side.
Joined(kind) ==
  /\ err # nil
  /\ Len(err) + 1 < MaxLayers
  /\ err' \in {Join(err, <<Layer(kind)>>), Join(<<Layer(kind)>>, err)}

\* A base transport's bare hang-up is named on the way through RoundTrip.
Name == err # nil /\ err' = nameHangUp(err)

\* The reduction before an error is logged or wrapped by GetBytes.
Reduce == err # nil /\ err' = LogSafeError(err)

\* A caller's redaction, which reduces first.
Redact ==
  /\ err # nil
  /\ \E prefixed \in BOOLEAN, holdsSecret \in BOOLEAN :
       /\ prefixed => Len(err) < MaxLayers
       /\ err' = RedactTransportError(err, prefixed, holdsSecret)

OnItsWayUp == \/ Mark
              \/ \E kind \in Wrappers : Wrapped(kind)
              \/ \E kind \in Roots : Joined(kind)
              \/ Redact
              \/ Name
              \/ Reduce

(***************************************************************************)
(* Properties.                                                             *)
(***************************************************************************)

\* Neither reduction lets a *url.Error out, whose message holds the raw URL, however
\* joins nest it, and neither reduces a failure to nil, which would report it as a
\* success; where the secret was found, no cause is left to render it again.
ReducedIsSafe ==
  \A prefixed, holdsSecret \in BOOLEAN :
    \A safe \in {LogSafeError(err), RedactTransportError(err, prefixed, holdsSecret)} :
      ~Is(safe, {"url"}) /\ (safe = nil <=> err = nil)

\* Layers that make an error worth a retry wherever they stand.
Decisive == SaysYes \cup {"dns", "refused", "reset", "serverClosed", "unexpectedEOF",
                          "netTimeout", "clientTimeout", "kernelTimeout"}

\* The reduction drops what is around the first *url.Error and beside it.  A verdict is
\* lost only with a dropped layer that decided it: with no such layer around or beside
\* it, a marked, wrapped or joined *url.Error is worth a retry reduced, and redacted
\* with no secret found, whenever it was, so an outer loop judging the returned error
\* agrees with the inner one.
ReductionKeepsRetry ==
  LET first == First(err, {"url"})
      cause == urlErrorCause(err)
  IN  /\ Is(err, {"url"})
      /\ IsTransient(err)
      /\ \A i \in DOMAIN err : i \in first + 1 .. EndOf(err, first) \/ err[i].kind \notin Decisive
      => /\ IsTransient(cause)
         /\ ~Is(cause, {"url"}) =>
              /\ IsTransient(LogSafeError(err))
              /\ \A prefixed \in BOOLEAN : IsTransient(RedactTransportError(err, prefixed, FALSE))

\* The error with layer i taken off.
Without(e, i) ==
  RemoveAt([j \in DOMAIN e |->
              IF e[j].kind = "join" /\ j < i /\ i <= j + e[j].dur
                THEN [e[j] EXCEPT !.dur = @ - 1] ELSE e[j]], i)

\* CauseOf sees through the package's marks wherever they sit, but for one place: put
\* directly below a *url.Error or a net error, which look one layer down and no
\* further, a mark hides that the layer below it is a timeout or a bare hang-up.
MarksHideNoCause ==
  \A i \in DOMAIN err : err[i].kind \in {"permanent", "markTransient", "attemptTimeout"} =>
    \/ CauseOf(err) = CauseOf(Without(err, i))
    \/ /\ i > 1 /\ err[i - 1].kind \in {"url", "netOp"}
       /\ CauseOf(Without(err, i)) \in {"timeout", "reset"}

\* MarkTransient overrides any verdict already on the error, a final status's
\* included, and never a Permanent mark, an auth or rate-limit error or the
\* caller's own context error, wherever below it or beside it those sit.
MarkTransientOverrides ==
  [][err # nil /\ err' = MarkTransient(err) =>
       (IsTransient(err') <=>
          /\ ~Is(err, {"permanent", "auth", "rateLimit"})
          /\ isCallerContextError(err) => IsAttemptTimeout(err))]_err

==============================================================================
