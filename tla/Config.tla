-------------------------------- MODULE Config --------------------------------
(***************************************************************************)
(* How a door's budget is assembled: options applied in the caller's order *)
(* (newLoopConfig, newGetConfig) and then normalized, or the fields of a   *)
(* TransportConfig, read when a RoundTripper makes its schedule.  The      *)
(* other modules take the outcome as their constants: what they assume of  *)
(* those is checked here.                                                  *)
(***************************************************************************)
EXTENDS Durations

CONSTANTS
  Counts,               \* attempt counts and body caps a caller may pass
  Delays,               \* durations a caller may pass
  MaxOptions,           \* bound on the option list
  DefaultMaxAttempts, DefaultBaseDelay, DefaultMaxBodyBytes, RetryAfterCap

ASSUME ConfigAssumption ==
  /\ Counts \subseteq Int /\ Delays \subseteq Duration
  /\ MaxOptions \in Nat
  /\ DefaultMaxAttempts \in Nat \ {0}
  /\ DefaultMaxBodyBytes \in Nat \ {0}
  /\ DefaultBaseDelay \in 1 .. MaxDur
  /\ RetryAfterCap \in 1 .. MaxDur

VARIABLES
  door,     \* which entry point is being configured
  cfg,      \* the configuration built so far
  applied,  \* how many options have been applied
  modes     \* history: the rate-limit options among them

configVars == <<door, cfg, applied, modes>>

Doors == {"Do", "GetBytes", "RoundTrip"}

ConfigInit ==
  /\ door \in Doors
  /\ cfg = [maxAttempts |-> IF door = "RoundTrip" THEN 0 ELSE DefaultMaxAttempts,
            baseDelay |-> 0, maxBodyBytes |-> 0,
            rlMode |-> "rlNone", rlMaxWait |-> 0, rlConflict |-> FALSE]
  /\ applied = 0
  /\ modes = {}

Apply(c) ==
  /\ applied < MaxOptions
  /\ applied' = applied + 1
  /\ cfg' = c
  /\ UNCHANGED door

WithMaxAttempts(n) == Apply([cfg EXCEPT !.maxAttempts = n]) /\ UNCHANGED modes

WithBaseDelay(d) == Apply([cfg EXCEPT !.baseDelay = d]) /\ UNCHANGED modes

WithMaxBodyBytes(n) ==
  /\ door = "GetBytes"
  /\ Apply([cfg EXCEPT !.maxBodyBytes = n])
  /\ UNCHANGED modes

\* Mutant: the conflict is not latched.
ConflictUnlatched(mode) == cfg.rlMode # "rlNone" /\ cfg.rlMode # mode

\* WithRateLimitRetry and WithRateLimitOnly exclude each other, in any order.
Conflict(mode) == cfg.rlConflict \/ (cfg.rlMode # "rlNone" /\ cfg.rlMode # mode)

WithRateLimit(mode, d) ==
  /\ door = "Do"
  /\ Apply([cfg EXCEPT !.rlMode = mode, !.rlMaxWait = d, !.rlConflict = Conflict(mode)])
  /\ modes' = modes \cup {mode}

ConfigNext ==
  \/ \E n \in Counts : WithMaxAttempts(n) \/ WithMaxBodyBytes(n)
  \/ \E d \in Delays :
       \/ WithBaseDelay(d)
       \/ \E mode \in {"rlRetry", "rlOnly"} : WithRateLimit(mode, d)

ConfigSpec == ConfigInit /\ [][ConfigNext]_configVars

(***************************************************************************)
(* What the doors run on.                                                  *)
(***************************************************************************)
Positive(x, default) == IF x > 0 THEN x ELSE default

normalize(c) ==
  [c EXCEPT !.maxAttempts = IF @ < 1 THEN 1 ELSE @,
            !.baseDelay   = Positive(@, DefaultBaseDelay),
            !.rlMaxWait   = IF c.rlMode # "rlNone" THEN Positive(@, RetryAfterCap) ELSE @]

\* GetBytes's cap falls back the same way, after normalize.
bodyCap(c) == Positive(c.maxBodyBytes, DefaultMaxBodyBytes)

\* A TransportConfig's zero count is the default and a negative one means one.
transportSchedule(c) ==
  [attempts  |-> IF c.maxAttempts = 0 THEN DefaultMaxAttempts
                 ELSE IF c.maxAttempts < 0 THEN 1 ELSE c.maxAttempts,
   baseDelay |-> Positive(c.baseDelay, DefaultBaseDelay)]

loopSchedule(c) ==
  [attempts |-> normalize(c).maxAttempts, baseDelay |-> normalize(c).baseDelay]

schedule == IF door = "RoundTrip" THEN transportSchedule(cfg) ELSE loopSchedule(cfg)

(***************************************************************************)
(* Properties.                                                             *)
(***************************************************************************)

\* A configuration is refused or runs.  Do refuses it exactly when both rate-limit
\* modes were asked for, however many options came between and whichever came last.
\* Otherwise, whatever a caller passes and in whatever order, the loop has at least
\* one attempt (none would be a silent success without a call), never fewer than a
\* positive count asked for, a positive base, for GetBytes a positive body cap, and
\* in either rate-limit mode a positive ceiling (at zero every wait is zero, and the
\* loop spins without reading the caller's context).
RefusedOrRunnable ==
  /\ cfg.rlConflict <=> modes = {"rlRetry", "rlOnly"}
  /\ schedule.attempts >= 1
  /\ cfg.maxAttempts > 0 => schedule.attempts = cfg.maxAttempts
  /\ schedule.baseDelay \in 1 .. MaxDur
  /\ door = "GetBytes" => bodyCap(cfg) >= 1
  /\ cfg.rlMode # "rlNone" => normalize(cfg).rlMaxWait \in 1 .. MaxDur

==============================================================================
