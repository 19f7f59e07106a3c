------------------------------ MODULE OptionProofs ------------------------------
(***************************************************************************)
(* Proofs about what a caller's options come to: the hops a redirect       *)
(* policy follows (Redirects) and the budget a door runs on (Config).      *)
(***************************************************************************)
EXTENDS Redirects, Config, SequenceTheorems, TLAPS

(***************************************************************************)
(* Redirects.                                                              *)
(***************************************************************************)

\* The types of the chain.
ChainTyped ==
  /\ policy \in Policies
  /\ orig.url \in Origins /\ orig.method \in {"", "HEAD", "POST"}
  /\ last.url \in Origins \cup Targets
  /\ hops \in Nat

\* The chain's promises, each kept by every step without the others' help.
ChainInv ==
  /\ ChainTyped
  /\ FollowsUpToCap
  /\ StaysOnOrigin
  /\ NeverCleartext
  /\ MethodKeptExactly

\* A hop is followed only when every test passed, and refused by the test that failed.
LEMMA CheckVerdicts ==
  ASSUME NEW req
  PROVE  /\ check(req) = "follow" =>
              /\ policy.kind # "refuseAll" /\ ~FollowsNone /\ ~tooMany
              /\ targetAllowed(req.url)
              /\ policy.allowDowngrade \/ ~isSchemeDowngrade(req.url)
              /\ policy.preserveMethod => ~methodChanged(req)
         /\ check(req) = "tooMany" => tooMany
         /\ check(req) = "useLastResponse" /\ policy.kind = "func" =>
              policy.preserveMethod /\ methodChanged(req)
         /\ check(req) # "pending" /\ check(req) # "answered"
BY DEF check

\* A redirect is followed to the request the client built, or ends the chain.
LEMMA RedirectCases ==
  ASSUME NEW url, NEW status, Redirected(url, status)
  PROVE  \E req : /\ req = Request(url, RedirectMethod(status))
                  /\ UNCHANGED <<policy, orig>>
                  /\ \/ check(req) = "follow" /\ last' = req /\ hops' = hops + 1 /\ result' = result
                     \/ check(req) # "follow" /\ result' = check(req) /\ UNCHANGED <<last, hops>>
BY Zenon DEF Redirected

\* The start.
LEMMA ChainInvInit == RedirectInit => ChainInv
<1> SUFFICES ASSUME RedirectInit  PROVE ChainInv
  OBVIOUS
<1>1. ChainTyped /\ last = orig /\ hops = 0 /\ result = "pending"
  <2>1. PICK url \in Origins, method \in {"", "HEAD", "POST"} : orig = Request(url, method)
    BY DEF RedirectInit
  <2>2. orig.url = url /\ orig.method = method
    BY <2>1 DEF Request
  <2>3. policy \in Policies /\ last = orig /\ hops = 0 /\ result = "pending"
    BY DEF RedirectInit
  <2> QED BY <2>2, <2>3 DEF ChainTyped
<1>2. FollowsUpToCap
  <2>1. policy.maxHops \in Int
    BY <1>1, RedirectsAssumption DEF ChainTyped
  <2> QED BY <1>1, <2>1 DEF FollowsUpToCap
<1>3. StaysOnOrigin /\ NeverCleartext /\ MethodKeptExactly
  BY <1>1 DEF StaysOnOrigin, NeverCleartext, MethodKeptExactly
<1> QED BY <1>1, <1>2, <1>3 DEF ChainInv

\* A followed target under sameOrigin: its own origin, or another host the list allows.
LEMMA OriginDecides ==
  ASSUME NEW url, policy.sameOrigin, targetAllowed(url), HasOrigin(orig.url)
  PROVE  /\ hostKeyOf(url.host) = hostKeyOf(orig.url.host) => originKeyOf(url) = originKeyOf(orig.url)
         /\ policy.kind = "func" /\ policy.allowedHosts = {} /\ policy.allowedSuffixes = {} =>
              originKeyOf(url) = originKeyOf(orig.url)
<1>1. /\ originKeyOf(url).host = hostKeyOf(url.host)
      /\ originKeyOf(orig.url).host = hostKeyOf(orig.url.host)
  BY DEF originKeyOf
<1>2. IF originKeyOf(url).host = originKeyOf(orig.url).host
        THEN originKeyOf(url) = originKeyOf(orig.url)
        ELSE redirectAllowed(originKeyOf(url).host)
  BY Zenon DEF targetAllowed
<1>3. policy.kind = "func" /\ policy.allowedHosts = {} /\ policy.allowedSuffixes = {} =>
        \A key : ~redirectAllowed(key)
  BY DEF redirectAllowed, normalizeSuffixes
<1> QED BY <1>1, <1>2, <1>3

\* A step keeps every promise.
LEMMA ChainInvStep == ChainInv /\ [RedirectNext]_vars => ChainInv'
<1> SUFFICES ASSUME ChainInv, [RedirectNext]_vars
             PROVE  ChainInv'
  OBVIOUS
<1>1. CASE Answered \/ UNCHANGED vars
  <2>1. /\ UNCHANGED <<policy, orig, last, hops>>
        /\ result' = result \/ result' = "answered"
    BY <1>1 DEF Answered, vars
  <2>2. ChainTyped' /\ FollowsUpToCap'
    BY <2>1 DEF ChainInv, ChainTyped, FollowsUpToCap
  <2>3. StaysOnOrigin' /\ NeverCleartext' /\ MethodKeptExactly'
    BY <2>1 DEF ChainInv, StaysOnOrigin, NeverCleartext, MethodKeptExactly
  <2> QED BY <2>2, <2>3 DEF ChainInv
<1>2. ASSUME NEW url \in Targets, NEW status, Redirected(url, status)  PROVE ChainInv'
  <2>1. PICK req : /\ req = Request(url, RedirectMethod(status))
                   /\ UNCHANGED <<policy, orig>>
                   /\ \/ check(req) = "follow" /\ last' = req /\ hops' = hops + 1 /\ result' = result
                      \/ check(req) # "follow" /\ result' = check(req) /\ UNCHANGED <<last, hops>>
    BY <1>2, RedirectCases
  <2>2. /\ policy \in Policies /\ policy.maxHops \in Int
        /\ policy.kind # "func" => ~policy.sameOrigin
        /\ orig.url \in Origins /\ HasOrigin(orig.url)
    BY RedirectsAssumption DEF ChainInv, ChainTyped
  <2>3. req.url = url /\ req.method = RedirectMethod(status)
    BY <2>1 DEF Request
  <2>4. result = "pending"
    BY <1>2, Zenon DEF Redirected
  <2>5. ChainTyped'
    <3>1. last'.url \in Origins \cup Targets
      <4>1. last'.url \in {last.url, url}
        BY <2>1, <2>3
      <4> QED BY <4>1 DEF ChainInv, ChainTyped
    <3>2. hops' \in Nat
      <4>1. hops' \in {hops, hops + 1}
        BY <2>1
      <4>2. hops \in Nat
        BY DEF ChainInv, ChainTyped
      <4> QED BY <4>1, <4>2
    <3> QED BY <2>1, <3>1, <3>2 DEF ChainInv, ChainTyped
  <2>6. FollowsUpToCap'
    <3>1. tooMany <=> hops + 1 > (IF policy.maxHops > 0 THEN policy.maxHops ELSE 5)
      BY DEF tooMany, maxHops, redirectCap
    <3>2. hops \in Nat /\ hops <= IF policy.maxHops > 0 THEN policy.maxHops ELSE 5
      BY DEF ChainInv, ChainTyped, FollowsUpToCap
    <3>3. CASE check(req) = "follow"
      BY <2>1, <2>2, <2>4, <3>1, <3>2, <3>3, CheckVerdicts DEF FollowsUpToCap
    <3>4. CASE check(req) # "follow"
      BY <2>1, <2>2, <3>1, <3>2, <3>4, CheckVerdicts DEF FollowsUpToCap
    <3> QED BY <3>3, <3>4
  <2>7. StaysOnOrigin'
    <3>1. CASE check(req) = "follow"
      <4>1. targetAllowed(url)
        BY <2>3, <3>1, CheckVerdicts
      <4>2. last'.url = url /\ policy' = policy /\ orig' = orig
        BY <2>1, <2>3, <3>1
      <4>3. policy.sameOrigin =>
              /\ hostKeyOf(url.host) = hostKeyOf(orig.url.host) =>
                   originKeyOf(url) = originKeyOf(orig.url)
              /\ policy.allowedHosts = {} /\ policy.allowedSuffixes = {} =>
                   originKeyOf(url) = originKeyOf(orig.url)
        BY <2>2, <4>1, OriginDecides
      <4> QED BY <4>2, <4>3 DEF StaysOnOrigin
    <3>2. CASE check(req) # "follow"
      BY <2>1, <3>2 DEF ChainInv, StaysOnOrigin
    <3> QED BY <3>1, <3>2
  <2>8. NeverCleartext'
    <3>1. CASE check(req) = "follow"
      <4>1. policy.allowDowngrade \/ ~isSchemeDowngrade(url)
        BY <2>3, <3>1, CheckVerdicts
      <4>2. url.scheme \in {"http", "https"}
        BY RedirectsAssumption
      <4> QED BY <2>1, <2>3, <3>1, <4>1, <4>2 DEF NeverCleartext, isSchemeDowngrade
    <3>2. CASE check(req) # "follow"
      BY <2>1, <3>2 DEF ChainInv, NeverCleartext
    <3> QED BY <3>1, <3>2
  <2>9. MethodKeptExactly'
    <3>1. CASE check(req) = "follow"
      <4>1. policy.preserveMethod => effectiveMethod(req.method) = effectiveMethod(orig.method)
        BY <3>1, CheckVerdicts DEF methodChanged
      <4>2. last' = req /\ result' = "pending" /\ policy' = policy /\ orig' = orig
        BY <2>1, <2>4, <3>1
      <4> QED BY <4>1, <4>2 DEF MethodKeptExactly
    <3>2. CASE check(req) # "follow"
      <4>1. ASSUME policy.kind = "func", check(req) = "useLastResponse"
            PROVE  policy.preserveMethod /\ orig.method = "POST"
        <5>1. /\ policy.preserveMethod
              /\ effectiveMethod(RedirectMethod(status)) # effectiveMethod(orig.method)
          BY <2>3, <4>1, CheckVerdicts DEF methodChanged
        <5>2. effectiveMethod(last.method) = effectiveMethod(orig.method)
          BY <4>1, <5>1 DEF ChainInv, MethodKeptExactly
        <5>3. orig.method \in {"", "HEAD", "POST"}
          BY DEF ChainInv, ChainTyped
        <5> QED BY <5>1, <5>2, <5>3 DEF RedirectMethod, effectiveMethod
      <4>2. last' = last /\ result' = check(req) /\ policy' = policy /\ orig' = orig
        BY <2>1, <3>2
      <4> QED BY <4>1, <4>2 DEF ChainInv, MethodKeptExactly
    <3> QED BY <3>1, <3>2
  <2> QED BY <2>5, <2>6, <2>7, <2>8, <2>9 DEF ChainInv
<1> QED BY <1>1, <1>2 DEF RedirectNext

\* Every chain keeps them.
THEOREM ChainInvariant == RedirectSpec => []ChainInv
BY ChainInvInit, ChainInvStep, PTL DEF RedirectSpec

\* A policy follows as many redirects as its cap says and refuses only the next.
THEOREM RedirectsFollowUpToCap == RedirectSpec => []FollowsUpToCap
<1>1. ChainInv => FollowsUpToCap
  BY DEF ChainInv
<1> QED BY <1>1, ChainInvariant, PTL

\* Under WithSameOrigin a request to the original host is one to its own origin,
\* whatever hosts the chain went through and whatever the allowlist names.
THEOREM RedirectsStayOnOrigin == RedirectSpec => []StaysOnOrigin
<1>1. ChainInv => StaysOnOrigin
  BY DEF ChainInv
<1> QED BY <1>1, ChainInvariant, PTL

\* A chain that began on https is sent over nothing else, unless the policy allows it.
THEOREM RedirectsNeverCleartext == RedirectSpec => []NeverCleartext
<1>1. ChainInv => NeverCleartext
  BY DEF ChainInv
<1> QED BY <1>1, ChainInvariant, PTL

\* Under WithPreserveMethod the chain keeps the original's method, and only one that
\* net/http rewrites makes the policy hand the 3xx back.
THEOREM RedirectsKeepMethod == RedirectSpec => []MethodKeptExactly
<1>1. ChainInv => MethodKeptExactly
  BY DEF ChainInv
<1> QED BY <1>1, ChainInvariant, PTL

\* A suffix is one a domain name can end in: at most its last label, the root's, is
\* empty.  normalizeSuffixes drops those that have no other.
DomainSuffixes ==
  \A p \in Policies : \A s \in p.allowedSuffixes :
    s \in Seq(STRING) /\ \A i \in 1 .. Len(s) - 1 : s[i] # ""

\* A sequence of at most one element is empty or that element's.
LEMMA ShortSequences ==
  ASSUME NEW S, NEW s \in Seq(S), Len(s) < 2
  PROVE  s = <<>> \/ s = <<s[1]>>
<1>1. /\ Len(s) \in Nat /\ (s # <<>> => Len(s) \in Nat \ {0})
      /\ \A i \in 1 .. Len(s) : s[i] \in S
  BY EmptySeq, LenProperties, ElementOfSeq
<1>2. SUFFICES ASSUME s # <<>>  PROVE s = <<s[1]>>
  OBVIOUS
<1>3. Len(s) = 1 /\ s[1] \in S
  <2>1. Len(s) \in Nat \ {0}
    BY <1>1, <1>2
  <2>2. \A k \in Nat \ {0} : k < 2 => k = 1 /\ 1 \in 1 .. k
    OBVIOUS
  <2> QED BY <1>1, <2>1, <2>2
<1> DEFINE t == <<s[1]>>
<1>4. t \in Seq(S) /\ Len(t) = 1 /\ t[1] = s[1]
  BY <1>3
<1> HIDE DEF t
<1>5. s = t
  BY <1>3, <1>4, SeqEqual
<1> QED BY <1>5 DEF t

\* So one it keeps names a label.
LEMMA KeptSuffixNames ==
  ASSUME DomainSuffixes, NEW p \in Policies, NEW s \in normalizeSuffixes(p.allowedSuffixes)
  PROVE  s \in p.allowedSuffixes /\ \E i \in DOMAIN s : s[i] # ""
<1>1. /\ s \in p.allowedSuffixes /\ s # <<>> /\ s # <<"">>
      /\ s \in Seq(STRING) /\ \A i \in 1 .. Len(s) - 1 : s[i] # ""
  BY DEF normalizeSuffixes, DomainSuffixes
<1>2. Len(s) \in Nat /\ DOMAIN s = 1 .. Len(s)
  BY <1>1, LenProperties
<1>3. CASE Len(s) < 2
  <2>1. s = <<s[1]>>
    BY <1>1, <1>3, ShortSequences
  <2>2. s[1] # ""
    BY <1>1, <2>1
  <2>3. 1 \in DOMAIN s
    BY <2>1
  <2> QED BY <1>1, <2>2, <2>3
<1>4. CASE ~(Len(s) < 2)
  <2>1. 1 \in 1 .. Len(s) - 1 /\ 1 \in DOMAIN s
    BY <1>2, <1>4
  <2> QED BY <1>1, <2>1
<1> QED BY <1>3, <1>4

\* A policy of suffixes alone follows only into a domain one of them names.
THEOREM RedirectsIntoNamedDomains ==
  ASSUME DomainSuffixes  PROVE RedirectSpec => []SuffixNamesDomain
<1>1. RedirectInit => SuffixNamesDomain
  <2>1. RedirectInit => hops = 0
    BY DEF RedirectInit
  <2>2. hops = 0 => ~(hops > 0)
    OBVIOUS
  <2>3. ~(hops > 0) => SuffixNamesDomain
    BY Zenon DEF SuffixNamesDomain
  <2> QED BY <2>1, <2>2, <2>3
<1>2. ChainInv /\ SuffixNamesDomain /\ [RedirectNext]_vars => SuffixNamesDomain'
  <2> SUFFICES ASSUME ChainInv, SuffixNamesDomain, [RedirectNext]_vars
               PROVE  SuffixNamesDomain'
    OBVIOUS
  <2>1. CASE Answered \/ UNCHANGED vars
    BY <2>1 DEF Answered, vars, SuffixNamesDomain
  <2>2. ASSUME NEW url \in Targets, NEW status, Redirected(url, status)
        PROVE  SuffixNamesDomain'
    <3>1. PICK req : /\ req = Request(url, RedirectMethod(status))
                     /\ UNCHANGED <<policy, orig>>
                     /\ \/ check(req) = "follow" /\ last' = req /\ hops' = hops + 1 /\ result' = result
                        \/ check(req) # "follow" /\ result' = check(req) /\ UNCHANGED <<last, hops>>
      BY <2>2, RedirectCases
    <3>2. CASE check(req) = "follow"
      <4>1. last' = req /\ req.url = url /\ policy' = policy /\ policy \in Policies
        BY <3>1, <3>2 DEF Request, ChainInv, ChainTyped
      <4>2. targetAllowed(url)
        BY <3>2, <4>1, CheckVerdicts
      <4>3. ASSUME policy.kind = "func", policy.allowedHosts = {},
                   ~policy.sameHost, ~policy.sameOrigin
            PROVE  \E s \in normalizeSuffixes(policy.allowedSuffixes) : IsSuffix(s, url.host.labels)
        <5>1. redirectAllowed(originKeyOf(url).host)
          BY <4>2, <4>3, Zenon DEF targetAllowed
        <5>2. originKeyOf(url).host.labels = url.host.labels
          BY DEF originKeyOf, hostKeyOf
        <5>3. \E s \in normalizeSuffixes(policy.allowedSuffixes) : matchesSuffix(originKeyOf(url).host, s)
          BY <4>3, <5>1 DEF redirectAllowed
        <5> QED BY <5>2, <5>3 DEF matchesSuffix
      <4> QED BY <4>1, <4>3, KeptSuffixNames DEF SuffixNamesDomain
    <3>3. CASE check(req) # "follow"
      BY <3>1, <3>3 DEF SuffixNamesDomain
    <3> QED BY <3>2, <3>3
  <2> QED BY <2>1, <2>2 DEF RedirectNext
<1> QED BY <1>1, <1>2, ChainInvariant, PTL DEF RedirectSpec

(***************************************************************************)
(* A door's budget.                                                        *)
(***************************************************************************)

\* The configuration's types, and what it remembers of the rate-limit options: the
\* modes asked for are the one it holds, or both once they conflicted.
ConfigInv ==
  /\ door \in Doors
  /\ cfg \in [maxAttempts : Int, baseDelay : Duration, maxBodyBytes : Int,
              rlMode : {"rlNone", "rlRetry", "rlOnly"}, rlMaxWait : Duration,
              rlConflict : BOOLEAN]
  /\ modes = IF cfg.rlConflict THEN {"rlRetry", "rlOnly"} ELSE {cfg.rlMode} \ {"rlNone"}

\* The defaults hold it.
LEMMA ConfigInvInit == ConfigInit => ConfigInv
<1> SUFFICES ASSUME ConfigInit  PROVE ConfigInv
  OBVIOUS
<1>1. DefaultMaxAttempts \in Int /\ 0 \in Duration
  BY ConfigAssumption, DurationsAssumption DEF Duration
<1>2. cfg = [maxAttempts |-> IF door = "RoundTrip" THEN 0 ELSE DefaultMaxAttempts,
             baseDelay |-> 0, maxBodyBytes |-> 0,
             rlMode |-> "rlNone", rlMaxWait |-> 0, rlConflict |-> FALSE]
  BY DEF ConfigInit
<1>3. cfg.rlMode = "rlNone" /\ cfg.rlConflict = FALSE /\ modes = {}
  BY <1>2 DEF ConfigInit
<1>4. door \in Doors
  BY DEF ConfigInit
<1> QED BY <1>1, <1>2, <1>3, <1>4 DEF ConfigInv

\* Each option keeps it.
LEMMA ConfigInvStep == ConfigInv /\ [ConfigNext]_configVars => ConfigInv'
<1> SUFFICES ASSUME ConfigInv, [ConfigNext]_configVars  PROVE ConfigInv'
  OBVIOUS
<1>1. CASE UNCHANGED configVars
  BY <1>1 DEF configVars, ConfigInv
<1>2. ASSUME NEW n \in Counts, WithMaxAttempts(n) \/ WithMaxBodyBytes(n)  PROVE ConfigInv'
  <2>1. n \in Int
    BY ConfigAssumption
  <2> QED BY <1>2, <2>1 DEF WithMaxAttempts, WithMaxBodyBytes, Apply, ConfigInv
<1>3. ASSUME NEW d \in Delays, WithBaseDelay(d)  PROVE ConfigInv'
  <2>1. d \in Duration
    BY ConfigAssumption
  <2> QED BY <1>3, <2>1 DEF WithBaseDelay, Apply, ConfigInv
<1>4. ASSUME NEW d \in Delays, NEW mode \in {"rlRetry", "rlOnly"}, WithRateLimit(mode, d)
      PROVE  ConfigInv'
  <2>1. d \in Duration
    BY ConfigAssumption
  <2>2. /\ cfg' = [cfg EXCEPT !.rlMode = mode, !.rlMaxWait = d, !.rlConflict = Conflict(mode)]
        /\ modes' = modes \cup {mode} /\ door' = door
    BY <1>4 DEF WithRateLimit, Apply
  <2>3. Conflict(mode) \in BOOLEAN
    BY DEF Conflict, ConfigInv
  <2>4. cfg'.rlMode = mode /\ cfg'.rlConflict = Conflict(mode)
    BY <2>2 DEF ConfigInv
  <2>5. modes' = IF Conflict(mode) THEN {"rlRetry", "rlOnly"} ELSE {mode} \ {"rlNone"}
    BY <2>2 DEF Conflict, ConfigInv
  <2> HIDE DEF Conflict
  <2> QED BY <2>1, <2>2, <2>3, <2>4, <2>5 DEF ConfigInv
<1> QED BY <1>1, <1>2, <1>3, <1>4 DEF ConfigNext

\* Whatever options a caller gives, and in whatever order, the call is refused, for both
\* rate-limit modes alone, or the loop has a budget it can run on.
THEOREM ConfigRefusedOrRunnable == ConfigSpec => []RefusedOrRunnable
<1>1. ConfigInv => RefusedOrRunnable
  <2> SUFFICES ASSUME ConfigInv  PROVE RefusedOrRunnable
    OBVIOUS
  <2>1. /\ cfg.maxAttempts \in Int /\ cfg.baseDelay \in Duration /\ cfg.maxBodyBytes \in Int
        /\ cfg.rlMode \in {"rlNone", "rlRetry", "rlOnly"} /\ cfg.rlMaxWait \in Duration
        /\ cfg.rlConflict \in BOOLEAN
    BY DEF ConfigInv
  <2>2. cfg.rlConflict <=> modes = {"rlRetry", "rlOnly"}
    BY <2>1 DEF ConfigInv
  <2>3. \A d \in Duration, k \in 1 .. MaxDur : Positive(d, k) \in 1 .. MaxDur
    BY DurationsAssumption DEF Positive, Duration
  <2>4. /\ normalize(cfg).maxAttempts = IF cfg.maxAttempts < 1 THEN 1 ELSE cfg.maxAttempts
        /\ normalize(cfg).baseDelay = Positive(cfg.baseDelay, DefaultBaseDelay)
        /\ cfg.rlMode # "rlNone" => normalize(cfg).rlMaxWait = Positive(cfg.rlMaxWait, RetryAfterCap)
    BY DEF normalize, ConfigInv
  <2>5. /\ schedule.attempts = IF door = "RoundTrip"
                                 THEN IF cfg.maxAttempts = 0 THEN DefaultMaxAttempts
                                      ELSE IF cfg.maxAttempts < 0 THEN 1 ELSE cfg.maxAttempts
                                 ELSE IF cfg.maxAttempts < 1 THEN 1 ELSE cfg.maxAttempts
        /\ schedule.baseDelay = Positive(cfg.baseDelay, DefaultBaseDelay)
    BY <2>4 DEF schedule, transportSchedule, loopSchedule
  <2>6. DefaultMaxAttempts \in Nat \ {0} /\ DefaultMaxBodyBytes \in Nat \ {0}
    BY ConfigAssumption
  <2>7. /\ schedule.attempts >= 1
        /\ cfg.maxAttempts > 0 => schedule.attempts = cfg.maxAttempts
    BY <2>1, <2>5, <2>6
  <2>8. bodyCap(cfg) >= 1
    BY <2>1, <2>6 DEF bodyCap, Positive
  <2>9. /\ schedule.baseDelay \in 1 .. MaxDur
        /\ cfg.rlMode # "rlNone" => normalize(cfg).rlMaxWait \in 1 .. MaxDur
    BY <2>1, <2>3, <2>4, <2>5, ConfigAssumption
  <2> QED BY <2>2, <2>7, <2>8, <2>9 DEF RefusedOrRunnable
<1> QED BY <1>1, ConfigInvInit, ConfigInvStep, PTL DEF ConfigSpec

=============================================================================
