--------------------------------- MODULE Bodies ---------------------------------
(***************************************************************************)
(* The body helpers of httpx.go: Drain and DrainClose, ReadLimitedBody and *)
(* LimitedBody.  One response body at a time: a stream of so many bytes    *)
(* with an end the reader may meet with the last byte or only on the next  *)
(* read, may never meet (a stall), or which is a broken connection.  All   *)
(* three helpers read through an io.LimitReader, which stops the reader at *)
(* its limit without looking for the end.                                  *)
(*                                                                         *)
(* A read yields one byte: any longer one is several of these.             *)
(***************************************************************************)
EXTENDS Integers

CONSTANTS
  drainLimit,   \* how much a drain discards
  MaxInt64,     \* the widest limit
  Sizes         \* the lengths of streams

ASSUME BodiesAssumption ==
  /\ MaxInt64 \in Nat \ {0}
  /\ drainLimit \in 1 .. MaxInt64
  /\ Sizes \subseteq 0 .. MaxInt64

VARIABLES
  stream,    \* what the far end sends: [size, tail]
  reader,    \* what reads it: none, drain, read or limited
  limit,     \* the limit it was given
  room,      \* bytes the LimitReader still lets through
  got,       \* bytes read
  end,       \* what the reads met: no end yet, eof or an error
  open,      \* whether the body is open
  reqCtx     \* the request's context

bodyVars == <<stream, reader, limit, room, got, end, open, reqCtx>>

Tails    == {"eof", "lastByteEOF", "cut", "stalled"}
Streams  == [size : Sizes, tail : Tails]
NoBody   == [size |-> 0, tail |-> "eof"]     \* http.NoBody

BodyInit ==
  /\ stream = NoBody
  /\ reader = "none"
  /\ limit = 0 /\ room = 0 /\ got = 0
  /\ end = "no"
  /\ open = FALSE
  /\ reqCtx = "live"

\* A request of its own, under a context of its own.
NewRequest ==
  /\ stream' = NoBody
  /\ reader' = "none"
  /\ limit' = 0 /\ room' = 0 /\ got' = 0
  /\ end' = "no"
  /\ reqCtx' = "live"
  /\ UNCHANGED open

Opens(s, helper, lim, lets) ==
  /\ stream' = s
  /\ reader' = helper
  /\ limit' = lim
  /\ room' = lets
  /\ got' = 0
  /\ end' = "no"
  /\ open' = TRUE

\* io.CopyN, whose budget is the package's.
DrainClose(s) == Opens(s, "drain", drainLimit, drainLimit)

\* Mutant: the read stops at the limit.
probeAtLimit(lim) == lim

\* One byte past the limit, except at the widest.
probe(lim) == IF lim < MaxInt64 THEN lim + 1 ELSE lim

ReadLimitedBody(s, lim) == Opens(s, "read", lim, probe(lim))

LimitedBody(s, lim) == Opens(s, "limited", lim, lim)

(***************************************************************************)
(* Reading.                                                                *)
(***************************************************************************)
Reading == open /\ end = "no" /\ room > 0

ReadByte ==
  /\ Reading
  /\ got < stream.size
  /\ got' = got + 1
  /\ room' = room - 1
  /\ end' = IF got' = stream.size /\ stream.tail = "lastByteEOF" THEN "eof" ELSE "no"
  /\ UNCHANGED <<stream, reader, limit, open, reqCtx>>

ReadEnd ==
  /\ Reading
  /\ got = stream.size /\ stream.tail # "stalled"
  /\ end' = IF stream.tail = "cut" THEN "error" ELSE "eof"
  /\ UNCHANGED <<stream, reader, limit, room, got, open, reqCtx>>

\* A body's reads fail once the request's context has ended.
ReadInterrupted ==
  /\ Reading
  /\ reqCtx = "ended"
  /\ end' = "error"
  /\ UNCHANGED <<stream, reader, limit, room, got, open, reqCtx>>

\* Mutant: a failed drain or read leaves the body open.
ClosesOnSuccess ==
  /\ reader \in {"drain", "read"}
  /\ open /\ ~Reading
  /\ open' = (end = "error")
  /\ UNCHANGED <<stream, reader, limit, room, got, end, reqCtx>>

\* DrainClose's close, and ReadLimitedBody's deferred one.
Closes ==
  /\ reader \in {"drain", "read"}
  /\ open /\ ~Reading
  /\ open' = FALSE
  /\ UNCHANGED <<stream, reader, limit, room, got, end, reqCtx>>

\* The caller closes through the LimitedBody when it pleases.
LimitedCloses ==
  /\ reader = "limited" /\ open
  /\ open' = FALSE
  /\ UNCHANGED <<stream, reader, limit, room, got, end, reqCtx>>

\* What ReadLimitedBody returns.
tooLarge == got > limit
readOK   == end # "error" /\ ~tooLarge

BodyArrives == ReadByte \/ ReadEnd

(***************************************************************************)
(* Properties.                                                             *)
(***************************************************************************)

\* The helpers take a bounded part of any stream, and a stream that ends cleanly
\* within that bound is read to its end before it is closed, which is what lets
\* its connection be reused.  A drain misses the end of a stream of exactly its
\* budget when no byte carries it.
ReusedWithinBudget ==
  reader \in {"drain", "read"} =>
    /\ got <= IF reader = "read" /\ limit < MaxInt64 THEN limit + 1 ELSE limit
    /\ ~open /\ end # "error" /\ stream.tail \in {"eof", "lastByteEOF"} =>
         (stream.size < limit \/ (reader = "read" /\ stream.size = limit /\ limit < MaxInt64)
            => end = "eof")

\* A helper holds a body no longer than its stream or the request's context
\* lasts: only a stall under a live context keeps it open.
BodyReleased ==
  (open /\ reader # "limited" /\ (reqCtx = "ended" \/ stream.tail # "stalled")) ~> ~open

==============================================================================
