--------------------------- MODULE ConditionalProofs ---------------------------
(***************************************************************************)
(* Proofs about Conditional and the body helpers under it: what a helper   *)
(* has read when it closes a body, and what a 304 vouches for.             *)
(***************************************************************************)
EXTENDS Conditional, TLAPS

(***************************************************************************)
(* The helpers' invariant: a drain or a read has its limit's bytes between *)
(* what it got and what it may still get, and closes only once its reads   *)
(* are over.                                                               *)
(***************************************************************************)
Lets == IF reader = "read" THEN probe(limit) ELSE limit

BodyInv ==
  /\ stream \in Streams \cup {NoBody}
  /\ got \in Nat /\ got <= stream.size
  /\ end \in {"no", "eof", "error"}
  /\ end = "eof" => got = stream.size
  /\ open \in BOOLEAN
  /\ reader \in {"drain", "read"} =>
       /\ limit \in 1 .. MaxInt64
       /\ room \in Nat /\ got + room = Lets
       /\ ~open => end # "no" \/ room = 0

(***************************************************************************)
(* The exchange's: the caller's copy is whole and its validators are its   *)
(* own version's, a request carries the copy's validators, and a 304 in    *)
(* hand answers for the copy.                                              *)
(***************************************************************************)
OwnValidators(r) ==
  r \in [body : Nat, etag : Validators(r.body), lastModified : Validators(r.body)]

CopyInv ==
  /\ OwnValidators(resource) /\ OwnValidators(response) /\ OwnValidators(cache)
  /\ maxBodyBytes \in BodyCaps
  /\ cache # NoCopy => whole
  /\ call = "sent" => headers = requestHeaders
  /\ call = "reading" /\ status = "ok" => reader = "read"
  /\ call = "notModified" \/ (call = "reading" /\ status = "notModified") =>
       cache.body = response.body /\ whole

ConditionalInv == BodyInv /\ CopyInv

\* A stream has a length that fits a limit.
LEMMA StreamTyped ==
  \A s \in Streams \cup {NoBody} : s.size \in 0 .. MaxInt64 /\ s.tail \in Tails
<1>1. NoBody.size = 0 /\ NoBody.tail = "eof" /\ 0 \in 0 .. MaxInt64
  BY BodiesAssumption DEF NoBody
<1>2. \A s \in Streams : s.size \in Sizes /\ s.tail \in Tails
  BY DEF Streams
<1> QED BY <1>1, <1>2, BodiesAssumption DEF Tails

\* A positive limit lets a helper read a positive number of bytes.
LEMMA ProbeTyped ==
  ASSUME NEW lim \in 1 .. MaxInt64
  PROVE  probe(lim) \in 1 .. MaxInt64 /\ probe(lim) = IF lim < MaxInt64 THEN lim + 1 ELSE lim
BY BodiesAssumption DEF probe

\* The cap a call reads under is positive.
LEMMA BodyCapTyped == maxBodyBytes \in BodyCaps => bodyCap \in 1 .. MaxInt64
BY ConditionalAssumption, BodiesAssumption DEF bodyCap

\* Opening a body keeps the helpers' invariant.
LEMMA OpensKeepsBody ==
  ASSUME NEW s \in Streams \cup {NoBody}, NEW helper \in {"drain", "read", "limited"},
         NEW lim, NEW lets, Opens(s, helper, lim, lets),
         helper \in {"drain", "read"} =>
           lim \in 1 .. MaxInt64 /\ lets = IF helper = "read" THEN probe(lim) ELSE lim
  PROVE  BodyInv'
<1>1. s.size \in Nat
  BY StreamTyped, BodiesAssumption
<1>2. /\ stream' = s /\ got' = 0 /\ end' = "no" /\ open' = TRUE
      /\ reader' = helper /\ limit' = lim /\ room' = lets
  BY DEF Opens
<1>3. helper \in {"drain", "read"} => lets \in Nat /\ lets = Lets' /\ 0 + lets = lets
  BY <1>2, ProbeTyped, BodiesAssumption DEF Lets, probe
<1> QED BY <1>1, <1>2, <1>3 DEF BodyInv

\* Reading and closing keep it.
LEMMA ReadingKeepsBody ==
  BodyInv /\ (BodyArrives \/ ReadInterrupted \/ Closes \/ LimitedCloses) => BodyInv'
<1> SUFFICES ASSUME BodyInv, BodyArrives \/ ReadInterrupted \/ Closes \/ LimitedCloses
             PROVE  BodyInv'
  OBVIOUS
<1>1. stream.size \in Nat
  BY StreamTyped, BodiesAssumption DEF BodyInv
<1>2. CASE ReadByte
  <2>1. /\ open /\ end = "no" /\ room > 0 /\ got < stream.size
        /\ got' = got + 1 /\ room' = room - 1
        /\ end' = IF got' = stream.size /\ stream.tail = "lastByteEOF" THEN "eof" ELSE "no"
        /\ UNCHANGED <<stream, reader, limit, open>>
    BY <1>2 DEF ReadByte, Reading
  <2>2. got' \in Nat /\ got' <= stream.size
    BY <1>1, <2>1 DEF BodyInv
  <2>3. reader \in {"drain", "read"} => room' \in Nat /\ got' + room' = got + room
    BY <2>1 DEF BodyInv
  <2>4. Lets' = Lets
    BY <2>1 DEF Lets, probe
  <2> QED BY <2>1, <2>2, <2>3, <2>4 DEF BodyInv
<1>3. CASE ReadEnd \/ ReadInterrupted
  <2>1. /\ end' \in {"eof", "error"} /\ (end' = "eof" => got = stream.size)
        /\ UNCHANGED <<stream, reader, limit, room, got, open>>
    BY <1>3 DEF ReadEnd, ReadInterrupted
  <2>2. Lets' = Lets
    BY <2>1 DEF Lets, probe
  <2> QED BY <2>1, <2>2 DEF BodyInv
<1>4. CASE Closes \/ LimitedCloses
  <2>1. /\ open' = FALSE /\ UNCHANGED <<stream, reader, limit, room, got, end>>
        /\ reader \in {"drain", "read"} => open /\ ~Reading
    BY <1>4 DEF Closes, LimitedCloses
  <2>2. reader \in {"drain", "read"} => end # "no" \/ room = 0
    BY <2>1 DEF Reading, BodyInv
  <2>3. Lets' = Lets
    BY <2>1 DEF Lets, probe
  <2> QED BY <2>1, <2>2, <2>3 DEF BodyInv
<1> QED BY <1>2, <1>3, <1>4 DEF BodyArrives

\* What one helper may have read of a body it closed.
LEMMA ClosedWithinBudget == BodyInv => ReusedWithinBudget
<1> SUFFICES ASSUME BodyInv, reader \in {"drain", "read"}
             PROVE  /\ got <= IF reader = "read" /\ limit < MaxInt64 THEN limit + 1 ELSE limit
                    /\ ~open /\ end # "error" /\ stream.tail \in {"eof", "lastByteEOF"} =>
                         (stream.size < limit
                            \/ (reader = "read" /\ stream.size = limit /\ limit < MaxInt64)
                            => end = "eof")
  BY DEF ReusedWithinBudget
<1>1. stream.size \in Nat /\ MaxInt64 \in Nat
  BY StreamTyped, BodiesAssumption DEF BodyInv
<1>2. /\ limit \in 1 .. MaxInt64 /\ got \in Nat /\ room \in Nat /\ got <= stream.size
      /\ got + room = IF reader = "read" /\ limit < MaxInt64 THEN limit + 1 ELSE limit
  BY ProbeTyped DEF BodyInv, Lets
<1>3. got <= IF reader = "read" /\ limit < MaxInt64 THEN limit + 1 ELSE limit
  BY <1>1, <1>2
<1>4. ASSUME ~open, end # "error",
             stream.size < limit
               \/ (reader = "read" /\ stream.size = limit /\ limit < MaxInt64)
      PROVE  end = "eof"
  <2>1. room # 0
    BY <1>1, <1>2, <1>4
  <2> QED BY <1>4, <2>1 DEF BodyInv
<1> QED BY <1>3, <1>4

\* What ReadLimitedBody returns without an error is all of the stream: it met the end,
\* or has more bytes than the limit, or as many as any stream has.
LEMMA ReadIsWhole ==
  ASSUME BodyInv, reader = "read", open, ~Reading, readOK
  PROVE  got = stream.size
<1>1. stream.size \in 0 .. MaxInt64 /\ MaxInt64 \in Nat
  BY StreamTyped, BodiesAssumption DEF BodyInv
<1>2. /\ limit \in 1 .. MaxInt64 /\ got \in Nat /\ room \in Nat /\ got <= stream.size
      /\ got + room = IF limit < MaxInt64 THEN limit + 1 ELSE limit
  BY ProbeTyped DEF BodyInv, Lets
<1>3. CASE end = "eof"
  BY <1>3 DEF BodyInv
<1>4. CASE end = "no"
  <2>1. room = 0
    BY <1>2, <1>4 DEF Reading
  <2>2. got <= limit
    BY <1>2 DEF readOK, tooLarge
  <2> QED BY <1>1, <1>2, <2>1, <2>2
<1> QED BY <1>3, <1>4 DEF readOK, BodyInv

(***************************************************************************)
(* The exchange.                                                           *)
(***************************************************************************)

\* A validator is absent or its version's, whether it is sent, stored or damaged.
LEMMA ValidatorsKept ==
  ASSUME NEW v, NEW x \in Validators(v)
  PROVE  /\ replayed(x) \in Validators(v)
         /\ captureValidator(x) \in Validators(v)
         /\ x # None => x.version = v /\ x \in [version : {v}, clean : BOOLEAN]
BY DEF Validators, replayed, captureValidator

\* Each resource the server may hold has its own validators.
LEMMA ResourceOwns == \A v \in Nat : \A r \in Resources(v) : OwnValidators(r) /\ r.body = v
BY DEF Resources, OwnValidators

\* The start.
LEMMA InitHolds == Init => ConditionalInv
<1> SUFFICES ASSUME Init  PROVE ConditionalInv
  OBVIOUS
<1>1. BodyInv
  <2>1. NoBody.size = 0
    BY DEF NoBody
  <2>2. /\ stream = NoBody /\ reader = "none" /\ got = 0 /\ end = "no" /\ open = FALSE
    BY DEF Init, BodyInit
  <2>3. stream \in Streams \cup {NoBody} /\ got \in Nat /\ got <= stream.size
    BY <2>1, <2>2
  <2> QED BY <2>2, <2>3 DEF BodyInv
<1>2. OwnValidators(NoCopy)
  BY DEF OwnValidators, NoCopy, Validators
<1>3. CopyInv
  BY <1>2, ResourceOwns DEF Init, CopyInv
<1> QED BY <1>1, <1>3 DEF ConditionalInv

\* Every step keeps the helpers' invariant: a call opens a body with its own positive
\* limit, and a caller's own read is no drain.
LEMMA BodyInvStep == ConditionalInv /\ [Next]_vars => BodyInv'
<1> SUFFICES ASSUME BodyInv, CopyInv, [Next]_vars  PROVE BodyInv'
  BY DEF ConditionalInv
<1>1. CASE UNCHANGED <<stream, reader, limit, room, got, end, open>>
  <2>1. Lets' = Lets
    BY <1>1 DEF Lets, probe
  <2> QED BY <1>1, <2>1 DEF BodyInv
<1>2. CASE Send
  <2>1. NewRequest
    BY <1>2 DEF Send
  <2>2. NoBody.size = 0
    BY DEF NoBody
  <2> QED BY <2>1, <2>2 DEF NewRequest, BodyInv
<1>3. CASE RespondsNotModified \/ \E s \in Streams : RespondsOther(s)
  <2>1. \E s \in Streams \cup {NoBody} : Opens(s, "drain", drainLimit, drainLimit)
    BY <1>3 DEF RespondsNotModified, RespondsOther, DrainClose
  <2> QED BY <2>1, OpensKeepsBody, BodiesAssumption
<1>4. CASE \E s \in Streams : RespondsOK(s)
  <2>1. PICK s \in Streams : Opens(s, "read", bodyCap, probe(bodyCap))
    BY <1>4 DEF RespondsOK, ReadLimitedBody
  <2>2. bodyCap \in 1 .. MaxInt64
    BY BodyCapTyped DEF CopyInv
  <2> HIDE DEF BodyInv
  <2> QED BY <2>1, <2>2, OpensKeepsBody
<1>5. CASE \E s \in Streams, lim \in BodyCaps : OwnGet(s, lim)
  <2>1. PICK s \in Streams, lim \in BodyCaps : Opens(s, "limited", lim, lim)
    BY <1>5 DEF OwnGet, LimitedBody
  <2> QED BY <2>1, OpensKeepsBody
<1>6. CASE BodyStep(BodyArrives) \/ BodyStep(ReadInterrupted) \/ ReturnsBody \/ ReturnsNoBody
             \/ OwnGetEnds
  BY <1>6, ReadingKeepsBody DEF BodyStep, ReturnsBody, ReturnsNoBody, OwnGetEnds
<1>7. CASE Fails \/ Change \/ LoseCopy \/ DamageValidators \/ EndCtx \/ UNCHANGED vars
  BY <1>1, <1>7 DEF Fails, Change, LoseCopy, DamageValidators, EndCtx, vars, bodyVars
<1> QED BY <1>2, <1>3, <1>4, <1>5, <1>6, <1>7 DEF Next

\* A server that matches what the caller's copy sent answers for that copy, for no two
\* versions share a validator.
LEMMA MatchIsCopy ==
  ASSUME CopyInv, call = "sent", Matches
  PROVE  cache.body = resource.body /\ whole
<1>1. /\ cache.etag \in Validators(cache.body) /\ cache.lastModified \in Validators(cache.body)
      /\ resource.etag \in Validators(resource.body)
      /\ resource.lastModified \in Validators(resource.body)
  BY DEF CopyInv, OwnValidators
<1>2. headers.ifNoneMatch = replayed(cache.etag)
      /\ headers.ifModifiedSince = replayed(cache.lastModified)
  BY DEF CopyInv, requestHeaders
<1>3. \E x \in {cache.etag, cache.lastModified}, y \in {resource.etag, resource.lastModified} :
        replayed(x) # None /\ replayed(x) = y
  BY <1>2 DEF Matches
<1>4. PICK x \in {cache.etag, cache.lastModified}, y \in {resource.etag, resource.lastModified} :
        replayed(x) # None /\ replayed(x) = y
  BY <1>3
<1>5. replayed(x) = x
  BY <1>4 DEF replayed
<1>6. x.version = cache.body /\ y.version = resource.body
  BY <1>1, <1>4, <1>5, ValidatorsKept
<1>7. cache # NoCopy
  <2>1. NoCopy.etag = None /\ NoCopy.lastModified = None
    BY DEF NoCopy
  <2> QED BY <1>4, <1>5, <2>1
<1> QED BY <1>4, <1>5, <1>6, <1>7 DEF CopyInv

\* Every step keeps the exchange's invariant.
LEMMA CopyInvStep == ConditionalInv /\ [Next]_vars => CopyInv'
<1> SUFFICES ASSUME BodyInv, CopyInv, [Next]_vars  PROVE CopyInv'
  BY DEF ConditionalInv
<1>1. CASE Send
  BY <1>1 DEF Send, NewRequest, CopyInv, Ended, requestHeaders, OwnValidators
<1>2. CASE RespondsNotModified
  <2>1. Matches /\ call = "sent"
    BY <1>2 DEF RespondsNotModified, Responds
  <2> QED BY <1>2, <2>1, MatchIsCopy DEF RespondsNotModified, Responds, CopyInv, OwnValidators
<1>3. CASE \E s \in Streams : RespondsOK(s)
  BY <1>3 DEF RespondsOK, ReadLimitedBody, Opens, Responds, CopyInv, OwnValidators
<1>4. CASE \E s \in Streams : RespondsOther(s)
  BY <1>4 DEF RespondsOther, Responds, CopyInv, OwnValidators
<1>5. CASE Fails \/ OwnGetEnds \/ (\E s \in Streams, lim \in BodyCaps : OwnGet(s, lim))
  BY <1>5 DEF Fails, OwnGetEnds, OwnGet, CopyInv, OwnValidators
<1>6. CASE BodyStep(BodyArrives) \/ BodyStep(ReadInterrupted) \/ EndCtx
  <2>1. /\ UNCHANGED <<resource, cache, whole, headers, maxBodyBytes, response, status, call>>
        /\ reader' = reader
    BY <1>6 DEF BodyStep, EndCtx, BodyArrives, ReadByte, ReadEnd, ReadInterrupted
  <2> QED BY <2>1 DEF CopyInv, OwnValidators, requestHeaders
<1>7. CASE ReturnsBody
  <2>1. /\ call = "reading" /\ status = "ok" /\ readOK /\ open /\ ~Reading
        /\ cache' = [body |-> response.body, etag |-> captureValidator(response.etag),
                     lastModified |-> captureValidator(response.lastModified)]
        /\ whole' = (got = stream.size)
        /\ call' = "ok"
        /\ UNCHANGED <<resource, headers, maxBodyBytes, response, status>>
    BY <1>7 DEF ReturnsBody, Closes
  <2>2. got = stream.size
    BY <2>1, ReadIsWhole DEF CopyInv
  <2>3. whole'
    BY <2>1, <2>2
  <2>4. /\ response.body \in Nat /\ response.etag \in Validators(response.body)
        /\ response.lastModified \in Validators(response.body)
    BY DEF CopyInv, OwnValidators
  <2>5. OwnValidators(cache')
    BY <2>1, <2>4, ValidatorsKept DEF OwnValidators
  <2> QED BY <2>1, <2>3, <2>5 DEF CopyInv, OwnValidators
<1>8. CASE ReturnsNoBody
  BY <1>8 DEF ReturnsNoBody, CopyInv, OwnValidators
<1>9. CASE Change
  <2>1. /\ resource' \in Resources(resource.body + 1) /\ resource.body + 1 \in Nat
        /\ UNCHANGED <<cache, whole, headers, maxBodyBytes, response, status, call, reader>>
    BY <1>9 DEF Change, bodyVars, CopyInv, OwnValidators
  <2>2. OwnValidators(resource')
    BY <2>1, ResourceOwns
  <2> QED BY <2>1, <2>2 DEF CopyInv, OwnValidators, requestHeaders
<1>10. CASE LoseCopy
  <2>1. OwnValidators(NoCopy)
    BY DEF OwnValidators, NoCopy, Validators
  <2> QED BY <1>10, <2>1 DEF LoseCopy, CopyInv, OwnValidators
<1>11. CASE DamageValidators
  <2>1. /\ cache' = [cache EXCEPT !.etag.clean = FALSE] /\ cache.etag # None /\ call' = "idle"
        /\ UNCHANGED <<resource, whole, maxBodyBytes, response, status>>
    BY <1>11 DEF DamageValidators
  <2>2. /\ cache.etag \in [version : {cache.body}, clean : BOOLEAN] /\ cache # NoCopy
    <3>1. NoCopy.etag = None
      BY DEF NoCopy
    <3> QED BY <2>1, <3>1, ValidatorsKept DEF CopyInv, OwnValidators
  <2>3. OwnValidators(cache')
    BY <2>1, <2>2 DEF CopyInv, OwnValidators, Validators
  <2> QED BY <2>1, <2>2, <2>3 DEF CopyInv, OwnValidators
<1>12. CASE UNCHANGED vars
  BY <1>12 DEF vars, bodyVars, CopyInv, OwnValidators, requestHeaders
<1> QED BY <1>1, <1>2, <1>3, <1>4, <1>5, <1>6, <1>7, <1>8, <1>9, <1>10, <1>11, <1>12 DEF Next

\* The helpers' and the exchange's invariant holds throughout.
THEOREM ConditionalInvariant == Spec => []ConditionalInv
<1>1. ConditionalInv /\ [Next]_vars => ConditionalInv'
  BY BodyInvStep, CopyInvStep DEF ConditionalInv
<1> QED BY <1>1, InitHolds, PTL DEF Spec

\* A drain or a limited read takes a bounded part of any stream, and reads to its end
\* one that ends cleanly within the bound, so that its connection can be used again.
THEOREM BodiesReusedWithinBudget == Spec => []ReusedWithinBudget
<1>1. ConditionalInv => ReusedWithinBudget
  BY ClosedWithinBudget DEF ConditionalInv
<1> QED BY <1>1, ConditionalInvariant, PTL

\* A NotModified result vouches for the very version the caller holds, all of it,
\* whatever changed between its requests and however its bytes arrived.
THEOREM NotModifiedVouches == Spec => []NotModifiedIsFresh
<1>1. ConditionalInv => NotModifiedIsFresh
  BY DEF ConditionalInv, CopyInv, NotModifiedIsFresh
<1> QED BY <1>1, ConditionalInvariant, PTL

==============================================================================
