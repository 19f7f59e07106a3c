------------------------------- MODULE Responses -------------------------------
(***************************************************************************)
(* What a response tells a retry loop: the status rule every door applies, *)
(* CheckHTTPStatus's typed errors, and the Retry-After header.             *)
(*                                                                         *)
(* A header is a date, as the time left until it, or delta-seconds, as its *)
(* sign and decimal digits, received one at a time.  MaxDur is the widest  *)
(* integer, Second the nanoseconds in a second.                            *)
(***************************************************************************)
EXTENDS Durations, Errors, SequencesExt

CONSTANTS
  Codes,          \* status codes a server may answer
  Digits,         \* the digits of a header
  MaxDigits,      \* bound on their number
  Dates,          \* how far ahead a date may lie, the past included
  Second,         \* time.Second
  RetryAfterCap,
  maxInt64Digits  \* how many decimal digits MaxDur has

\* Only for the assumption that maxInt64Digits is what its name says.
PowerOf10[k \in 0 .. maxInt64Digits] == IF k = 0 THEN 1 ELSE 10 * PowerOf10[k - 1]

ASSUME ResponsesAssumption ==
  /\ Codes \subseteq 100 .. 999
  /\ Digits \subseteq 0 .. 9
  /\ MaxDigits \in Nat
  /\ Dates \subseteq Duration
  /\ Second \in 1 .. MaxDur
  /\ RetryAfterCap \in 1 .. MaxDur
  /\ maxInt64Digits \in Nat \ {0}
  /\ PowerOf10[maxInt64Digits - 1] <= MaxDur /\ MaxDur < PowerOf10[maxInt64Digits]

VARIABLES
  code,    \* the status
  header   \* the Retry-After field: [form, sign, digits, date]

responseVars == <<code, header>>

Absent       == [form |-> "absent", sign |-> "", digits |-> <<>>, date |-> 0]
Seconds(s)   == [Absent EXCEPT !.form = "seconds", !.sign = s]
Date(ahead)  == [Absent EXCEPT !.form = "date", !.date = ahead]

ResponseInit ==
  /\ code \in Codes
  /\ header \in {Absent} \cup {Seconds(s) : s \in {"", "+", "-"}}
                \cup {Date(ahead) : ahead \in Dates}

\* One more digit of the header arrives.
Digit(d) ==
  /\ header.form = "seconds"
  /\ Len(header.digits) < MaxDigits
  /\ header' = [header EXCEPT !.digits = Append(@, d)]
  /\ UNCHANGED code

(***************************************************************************)
(* Retry-After.                                                            *)
(***************************************************************************)
Value(ds) ==
  LET v[i \in 0 .. Len(ds)] == IF i = 0 THEN 0 ELSE 10 * v[i - 1] + ds[i]
  IN  v[Len(ds)]

TrimZeros(ds) ==
  LET leading == {i \in 0 .. Len(ds) : \A j \in 1 .. i : ds[j] = 0}
  IN  SubSeq(ds, Max(leading) + 1, Len(ds))

\* strconv.ParseInt fails, and the code then answers zero, past the int64 range.
ParseInt(ds) == IF Value(ds) > MaxDur THEN 0 ELSE Value(ds)

maxSecs == MaxDur \div Second

\* Mutant: the digits are counted with their leading zeros.
deltaSecondsPadded(h) ==
  IF h.sign = "-" \/ Len(h.digits) > maxInt64Digits THEN 0
  ELSE Min({ParseInt(h.digits), maxSecs}) * Second

deltaSeconds(h) ==
  LET ds == TrimZeros(h.digits)
  IN  IF h.sign = "-" \/ ds = <<>> \/ Len(ds) > maxInt64Digits THEN 0
      ELSE Min({ParseInt(ds), maxSecs}) * Second

\* A sign alone is no delta-seconds, and no date either.
parseRetryAfterValue(h) ==
  CASE h.form = "seconds" /\ h.digits # <<>> -> deltaSeconds(h)
    [] h.form = "date" /\ h.date > 0         -> h.date
    [] OTHER                                 -> 0

ParseRetryAfter(h) == Min({parseRetryAfterValue(h), RetryAfterCap})

ParseRetryAfterResponse(h) == parseRetryAfterValue(h)

(***************************************************************************)
(* Status.                                                                 *)
(***************************************************************************)
Repeating == {501, 505, 506, 508, 510, 511}   \* 5xx whose answer repeats

IsRetryableStatus(c) == c \in {408, 429} \cup (500 .. 599 \ Repeating)

\* Mutant: a server error is transient whatever its code.
CheckHTTPStatusServerError(c, h) ==
  CASE c \in 200 .. 299 -> nil
    [] c \in {401, 403} -> <<Layer("auth")>>
    [] c = 429          -> <<Timed("rateLimit", ParseRetryAfterResponse(h))>>
    [] OTHER            -> <<Layer(IF c >= 500 THEN "statusRetryable" ELSE "statusFinal")>>

\* *HTTPStatusError is Transient by IsRetryableStatus.
CheckHTTPStatus(c, h) ==
  CASE c \in 200 .. 299 -> nil
    [] c \in {401, 403} -> <<Layer("auth")>>
    [] c = 429          -> <<Timed("rateLimit", ParseRetryAfterResponse(h))>>
    [] OTHER            -> <<Layer(IF IsRetryableStatus(c) THEN "statusRetryable"
                                                           ELSE "statusFinal")>>

(***************************************************************************)
(* Properties.                                                             *)
(***************************************************************************)

\* A delta-seconds header means its decimal value whatever its zero padding: a
\* negative value, and one past the integer's range, are no wait, and one past
\* what a duration holds is the widest whole second.  No product overflows.
DeltaSecondsByValue ==
  header.form = "seconds" =>
    LET v == Value(header.digits)
    IN  parseRetryAfterValue(header) =
          IF header.sign = "-" \/ v > MaxDur THEN 0
          ELSE IF v * Second > MaxDur THEN MaxDur - (MaxDur % Second)
          ELSE v * Second

\* docs/retries.md's table: Do over CheckHTTPStatus retries what GetBytes and the
\* transport retry on the same response, 429 only under a rate-limit option, and
\* then waits the same hint up to the same ceiling; nothing is retried after 2xx.
DoorsAgree ==
  LET err == CheckHTTPStatus(code, header)
      verdict(mode) == classify(err, mode, RetryAfterCap)
  IN  IF code = 429
        THEN /\ ~verdict("rlNone").retryable
             /\ \A mode \in {"rlRetry", "rlOnly"} :
                  /\ verdict(mode).retryable
                  /\ ParseRetryAfter(header) > 0 => verdict(mode).wait = ParseRetryAfter(header)
        ELSE /\ verdict("rlOnly").retryable = FALSE
             /\ \A mode \in {"rlNone", "rlRetry"} :
                  err # nil /\ verdict(mode).retryable <=> IsRetryableStatus(code)

==============================================================================
