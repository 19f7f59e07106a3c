------------------------------ MODULE Conditional ------------------------------
(***************************************************************************)
(* DoConditional of conditional.go between a server whose resource changes *)
(* and a caller that keeps a body with its validators and replays them.    *)
(* The caller reuses one request, whose headers keep what the last call    *)
(* put on them; it may lose its body and then sends no validators, as the  *)
(* door demands; and its stored validators may be damaged.                 *)
(*                                                                         *)
(* Server and caller are external.  A body or a validator is the version   *)
(* it was made for; a validator may be absent, and one that validValidator *)
(* refuses (past a KiB, or with control bytes) is not clean.  How much of  *)
(* the body came is the helpers' business, read for read.                  *)
(***************************************************************************)
EXTENDS Bodies

CONSTANTS
  MaxVersion,           \* bound on how often the resource changes
  DefaultMaxBodyBytes,  \* the cap of a call that sets none
  BodyCaps              \* the caps a call may set, zero or less for none

ASSUME ConditionalAssumption ==
  /\ MaxVersion \in Nat \ {0}
  /\ DefaultMaxBodyBytes \in 1 .. MaxInt64
  /\ \A cap \in BodyCaps : cap \in Int /\ cap <= MaxInt64

VARIABLES
  resource,      \* what the server would send now: [body, etag, lastModified]
  cache,         \* the caller's copy, of the same form
  whole,         \* history: whether the copy is all of its version
  headers,       \* the conditional headers on the caller's request
  maxBodyBytes,  \* the cap given to the calls
  response,      \* what the response being read stands for
  status,        \* and its status: 200, 304 or another
  call           \* where the call is, or how the last one ended

vars == <<bodyVars, resource, cache, whole, headers, maxBodyBytes, response, status, call>>

None           == [version |-> 0, clean |-> TRUE]
NoCopy         == [body |-> 0, etag |-> None, lastModified |-> None]
Validators(v)  == {None} \cup [version : {v}, clean : BOOLEAN]
Resources(v)   == [body : {v}, etag : Validators(v), lastModified : Validators(v)]
Ended          == {"idle", "notModified", "ok", "error"}

Init ==
  /\ BodyInit
  /\ resource \in Resources(1)
  /\ cache = NoCopy /\ whole = FALSE
  /\ headers = [ifNoneMatch |-> None, ifModifiedSince |-> None]
  /\ maxBodyBytes \in BodyCaps
  /\ response = NoCopy
  /\ status = "none"
  /\ call = "idle"

(***************************************************************************)
(* The call.                                                               *)
(***************************************************************************)

\* An absent or refused validator sets no header.
replayed(v) == IF v.clean THEN v ELSE None

\* Mutant: the headers of the last call are replaced, never removed.
requestHeadersKept ==
  [ifNoneMatch     |-> IF replayed(cache.etag) # None
                         THEN replayed(cache.etag) ELSE headers.ifNoneMatch,
   ifModifiedSince |-> IF replayed(cache.lastModified) # None
                         THEN replayed(cache.lastModified) ELSE headers.ifModifiedSince]

\* Both headers are removed, then set from the validators given.
requestHeaders ==
  [ifNoneMatch |-> replayed(cache.etag), ifModifiedSince |-> replayed(cache.lastModified)]

bodyCap == IF maxBodyBytes <= 0 THEN DefaultMaxBodyBytes ELSE maxBodyBytes

Send ==
  /\ call \in Ended
  /\ headers' = requestHeaders
  /\ call' = "sent"
  /\ NewRequest
  /\ UNCHANGED <<resource, cache, whole, maxBodyBytes, response, status>>

\* Outside the door: the caller reads another response through a LimitedBody.
OwnGet(s, lim) ==
  /\ call \in Ended
  /\ LimitedBody(s, lim)
  /\ reqCtx' = "live"
  /\ status' = "own"
  /\ call' = "reading"
  /\ UNCHANGED <<resource, cache, whole, headers, maxBodyBytes, response>>

OwnGetEnds ==
  /\ LimitedCloses
  /\ call' = "idle"
  /\ UNCHANGED <<resource, cache, whole, headers, maxBodyBytes, response, status>>

\* If-None-Match decides alone when it is there (RFC 9110, section 13.2.2).
Matches == IF headers.ifNoneMatch # None
             THEN headers.ifNoneMatch = resource.etag
             ELSE headers.ifModifiedSince # None
                    /\ headers.ifModifiedSince = resource.lastModified

Responds(s) ==
  /\ call = "sent"
  /\ call' = "reading"
  /\ status' = s
  /\ response' = resource
  /\ UNCHANGED <<reqCtx, resource, cache, whole, headers, maxBodyBytes>>

\* 304: drained, though it has no body.  The response field keeps what it
\* vouches for.
RespondsNotModified ==
  /\ Matches
  /\ Responds("notModified")
  /\ DrainClose(NoBody)

RespondsOK(s) ==
  /\ ~Matches
  /\ Responds("ok")
  /\ ReadLimitedBody(s, bodyCap)

\* Any other status: drained.
RespondsOther(s) ==
  /\ Responds("other")
  /\ DrainClose(s)

\* A transport error.
Fails ==
  /\ call = "sent"
  /\ call' = "error"
  /\ UNCHANGED <<bodyVars, resource, cache, whole, headers, maxBodyBytes, response, status>>

captureValidator(v) == IF v.clean THEN v ELSE None

\* The whole body came and is within the cap: the caller stores the result.
ReturnsBody ==
  /\ call = "reading" /\ status = "ok"
  /\ readOK
  /\ Closes
  /\ cache' = [body |-> response.body, etag |-> captureValidator(response.etag),
               lastModified |-> captureValidator(response.lastModified)]
  /\ whole' = (got = stream.size)
  /\ call' = "ok"
  /\ UNCHANGED <<resource, headers, maxBodyBytes, response, status>>

\* A 304's drain may fail without a consequence; a body cut or past the cap is
\* an error with nothing to store, as is any other status.
ReturnsNoBody ==
  /\ call = "reading"
  /\ ~(status = "ok" /\ readOK)
  /\ Closes
  /\ call' = IF status = "notModified" THEN "notModified" ELSE "error"
  /\ UNCHANGED <<resource, cache, whole, headers, maxBodyBytes, response, status>>

(***************************************************************************)
(* The server, the caller's store and the caller's context.                *)
(***************************************************************************)
Change ==
  /\ resource.body < MaxVersion
  /\ resource' \in Resources(resource.body + 1)
  /\ UNCHANGED <<bodyVars, cache, whole, headers, maxBodyBytes, response, status, call>>

LoseCopy ==
  /\ call \in Ended
  /\ cache' = NoCopy /\ whole' = FALSE
  /\ call' = "idle"
  /\ UNCHANGED <<bodyVars, resource, headers, maxBodyBytes, response, status>>

DamageValidators ==
  /\ call \in Ended
  /\ cache.etag # None
  /\ cache' = [cache EXCEPT !.etag.clean = FALSE]
  /\ call' = "idle"
  /\ UNCHANGED <<bodyVars, resource, whole, headers, maxBodyBytes, response, status>>

EndCtx ==
  /\ call \notin Ended
  /\ reqCtx' = "ended"
  /\ UNCHANGED <<stream, reader, limit, room, got, end, open>>
  /\ UNCHANGED <<resource, cache, whole, headers, maxBodyBytes, response, status, call>>

BodyStep(A) ==
  A /\ UNCHANGED <<resource, cache, whole, headers, maxBodyBytes, response, status, call>>

Next == \/ Send
        \/ RespondsNotModified
        \/ \E s \in Streams : RespondsOK(s) \/ RespondsOther(s)
        \/ Fails
        \/ BodyStep(BodyArrives) \/ BodyStep(ReadInterrupted)
        \/ ReturnsBody \/ ReturnsNoBody
        \/ (\E s \in Streams, lim \in BodyCaps : OwnGet(s, lim)) \/ OwnGetEnds
        \/ Change \/ LoseCopy \/ DamageValidators \/ EndCtx

(***************************************************************************)
(* What the server sends arrives, reads see an ended context, and the call *)
(* runs on.  Nobody owes a response, the end of a stall, or a cancellation.*)
(***************************************************************************)
Fairness ==
  /\ WF_vars(BodyStep(BodyArrives))
  /\ WF_vars(BodyStep(ReadInterrupted))
  /\ WF_vars(ReturnsBody \/ ReturnsNoBody)

Spec == Init /\ [][Next]_vars /\ Fairness

(***************************************************************************)
(* Properties.                                                             *)
(***************************************************************************)

\* A NotModified result vouches for a body the caller has, all of it: the copy it
\* holds is the version the server answered for, however the resource, the copy
\* and the reused request's headers changed between and during calls, and however
\* its bytes arrived.
NotModifiedIsFresh == call = "notModified" => cache.body = response.body /\ whole

==============================================================================
