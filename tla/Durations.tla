------------------------------ MODULE Durations ------------------------------
(***************************************************************************)
(* Arithmetic on time.Duration, a signed integer of fixed width: the       *)
(* backoff helpers of httpx.go and the wait rule of loop.go.  A jittered   *)
(* wait is random in the code, so it is the SET of values the draw can     *)
(* produce.                                                                *)
(***************************************************************************)
EXTENDS Integers

CONSTANT MaxDur   \* the largest representable duration (2^63 - 1 in the code)

ASSUME DurationsAssumption == MaxDur \in Nat \ {0}

Duration == -(MaxDur + 1) .. MaxDur

\* Two's complement wrap of a sum of two representable durations.
Wrap(x) == IF x > MaxDur THEN x - 2 * (MaxDur + 1)
           ELSE IF x < -(MaxDur + 1) THEN x + 2 * (MaxDur + 1)
           ELSE x

\* Mutant: doubling without the overflow guard.
SafeDoubleUnguarded(d) == Wrap(2 * d)

SafeDouble(d) ==
  LET doubled == Wrap(2 * d)
  IN  IF d <= 0 THEN d
      ELSE IF doubled < d THEN MaxDur ELSE doubled

\* Equal jitter: half the backoff plus a draw from 0 .. half.
JitteredBackoff(backoff) ==
  LET half == backoff \div 2
  IN  IF backoff <= 0 THEN {backoff} ELSE half .. 2 * half

\* A positive explicit wait takes precedence over the jittered backoff.
resolveWait(explicit, backoff) ==
  IF explicit > 0 THEN {explicit} ELSE JitteredBackoff(backoff)

==============================================================================
