------------------------------- MODULE Redirects -------------------------------
(***************************************************************************)
(* A shipped redirect policy of httpx.go judging the hops of one request.  *)
(* net/http's client, which builds each hop's request and asks the policy  *)
(* before sending it, and the servers, which redirect anywhere, are        *)
(* external.                                                               *)
(*                                                                         *)
(* A URL is a scheme, a host and a port, -1 when absent.  A host name is   *)
(* its sequence of labels, an IP literal its address; either has a         *)
(* spelling (case, zeros) beside its identity.                             *)
(***************************************************************************)
EXTENDS Integers, SequencesExt

CONSTANTS
  Policies,   \* the policies to judge by
  Origins,    \* the URLs a caller may request
  Targets     \* the URLs a server may redirect to

VARIABLES
  policy,   \* the policy in use
  orig,     \* the caller's request, via[0]
  last,     \* the last request sent
  hops,     \* redirects followed: len(via) less one
  result    \* pending, answered, a RedirectReason, or the 3xx itself

vars == <<policy, orig, last, hops, result>>

Request(url, method) == [url |-> url, method |-> method]

RedirectInit ==
  /\ policy \in Policies
  /\ \E url \in Origins, method \in {"", "HEAD", "POST"} : orig = Request(url, method)
  /\ last = orig
  /\ hops = 0
  /\ result = "pending"

(***************************************************************************)
(* Hosts and origins.                                                      *)
(***************************************************************************)
NoHost == [labels |-> <<>>, addr |-> ""]

hostKeyOf(host) == [labels |-> host.labels, addr |-> host.addr]

defaultPort(scheme) == IF scheme = "https" THEN 443 ELSE 80

originKeyOf(url) ==
  [host   |-> hostKeyOf(url.host),
   scheme |-> url.scheme,
   port   |-> IF url.port = -1 THEN defaultPort(url.scheme) ELSE url.port]

\* A URL without a host, or with a port no dialer reaches, has no origin.
HasOrigin(url) == hostKeyOf(url.host) # NoHost /\ url.port <= 65535

\* Only RedirectPolicyFunc takes options, and only a URL net/http could dial was
\* answered with a redirect.
ASSUME RedirectsAssumption ==
  /\ \A p \in Policies :
       /\ p.kind \in {"func", "dockerGitHub", "refuseAll"}
       /\ p.maxHops \in Int
       /\ p.kind # "func" => ~p.sameOrigin
  /\ \A url \in Origins \cup Targets : url.scheme \in {"http", "https"} /\ url.port \in Int
  /\ \A url \in Origins : HasOrigin(url)

\* Whole labels, so only at a dot.  An address has none.
matchesSuffix(key, suffix) == key.labels # <<>> /\ IsSuffix(suffix, key.labels)

\* Mutant: a suffix without a label is kept.
normalizeSuffixesAll(suffixes) == suffixes

\* An empty one or a dot would match every name that ends in a dot.
normalizeSuffixes(suffixes) == suffixes \ {<<>>, <<"">>}

\* DockerGitHubRedirectPolicy takes no bare docker.com.
isDockerGitHubHost(key) ==
  \/ key.labels = <<"github", "com">>
  \/ \E suffix \in {<<"docker", "com">>, <<"github", "com">>, <<"githubusercontent", "com">>} :
       matchesSuffix(key, suffix) /\ key.labels # suffix

redirectAllowed(key) ==
  IF policy.kind = "dockerGitHub" THEN isDockerGitHubHost(key)
  ELSE \/ key \in {hostKeyOf(h) : h \in policy.allowedHosts} \ {NoHost}
       \/ \E suffix \in normalizeSuffixes(policy.allowedSuffixes) : matchesSuffix(key, suffix)

(***************************************************************************)
(* The policy.                                                             *)
(***************************************************************************)
FollowsNone ==
  /\ policy.kind = "func"
  /\ policy.allowedHosts = {} /\ policy.allowedSuffixes = {}
  /\ ~policy.sameHost /\ ~policy.sameOrigin

redirectCap == 5
maxHops == IF policy.maxHops > 0 THEN policy.maxHops ELSE redirectCap

\* Mutant: the allowlist is asked before the origin.
targetAllowedListFirst(url) ==
  LET to   == originKeyOf(url)
      from == originKeyOf(orig.url)
  IN  /\ HasOrigin(url)
      /\ \/ redirectAllowed(to.host)
         \/ to.host = from.host /\ (policy.sameHost \/ (policy.sameOrigin /\ to = from))

\* Under sameOrigin the origin alone decides a hop to the original host.
targetAllowed(url) ==
  LET to   == originKeyOf(url)
      from == originKeyOf(orig.url)
      onOrigHost == HasOrigin(orig.url) /\ to.host = from.host
  IN  /\ HasOrigin(url)
      /\ IF policy.sameOrigin /\ onOrigHost THEN to = from
         ELSE redirectAllowed(to.host) \/ (policy.sameHost /\ onOrigHost)

\* Mutant: an allowlisted target is not asked its scheme.
isSchemeDowngradeSameHost(url) ==
  /\ orig.url.scheme = "https" /\ url.scheme = "http"
  /\ hostKeyOf(url.host) = hostKeyOf(orig.url.host)

isSchemeDowngrade(url) == orig.url.scheme = "https" /\ url.scheme = "http"

effectiveMethod(method) == IF method = "" THEN "GET" ELSE method

\* Mutant: an empty method is not read as GET.
methodChangedRaw(req) == req.method # orig.method

methodChanged(req) == effectiveMethod(req.method) # effectiveMethod(orig.method)

\* Mutant: the hop being judged is not counted.
tooManyUncounted == hops > maxHops

\* len(via) counts the hop being judged.
tooMany == hops + 1 > maxHops

check(req) ==
  IF policy.kind = "refuseAll" THEN "useLastResponse"
  ELSE IF FollowsNone THEN "notAllowed"
  ELSE IF tooMany THEN "tooMany"
  ELSE IF ~targetAllowed(req.url) THEN "otherOrigin"
  ELSE IF ~policy.allowDowngrade /\ isSchemeDowngrade(req.url) THEN "downgrade"
  ELSE IF policy.preserveMethod /\ methodChanged(req) THEN "useLastResponse"
  ELSE "follow"

(***************************************************************************)
(* net/http's client: 301, 302 and 303 turn all but HEAD into GET, 307 and *)
(* 308 keep the method.                                                    *)
(***************************************************************************)
RedirectMethod(status) ==
  IF status \in {307, 308} \/ last.method = "HEAD" THEN last.method ELSE "GET"

Redirected(url, status) ==
  LET req     == Request(url, RedirectMethod(status))
      verdict == check(req)
  IN  /\ result = "pending"
      /\ IF verdict = "follow"
           THEN last' = req /\ hops' = hops + 1 /\ UNCHANGED result
           ELSE result' = verdict /\ UNCHANGED <<last, hops>>
      /\ UNCHANGED <<policy, orig>>

Answered ==
  /\ result = "pending"
  /\ result' = "answered"
  /\ UNCHANGED <<policy, orig, last, hops>>

RedirectNext == Answered \/ \E url \in Targets, status \in {302, 307} : Redirected(url, status)

RedirectSpec == RedirectInit /\ [][RedirectNext]_vars

(***************************************************************************)
(* Properties.                                                             *)
(***************************************************************************)

\* A policy follows as many redirects as its cap says, and refuses exactly the
\* next one for it.
FollowsUpToCap ==
  LET cap == IF policy.maxHops > 0 THEN policy.maxHops ELSE 5
  IN  hops <= cap /\ (result = "tooMany" => hops = cap)

\* Under WithSameOrigin a key sent to the original host reaches its own scheme
\* and port alone, also on the way back from an allowed host and when the
\* allowlist names the host; with no allowlist no other host sees it.
StaysOnOrigin ==
  policy.sameOrigin =>
    /\ hostKeyOf(last.url.host) = hostKeyOf(orig.url.host) =>
         originKeyOf(last.url) = originKeyOf(orig.url)
    /\ policy.allowedHosts = {} /\ policy.allowedSuffixes = {} =>
         originKeyOf(last.url) = originKeyOf(orig.url)

\* A request that began on https is never sent over http unless the policy says
\* so, whatever the hosts of the chain.
NeverCleartext ==
  orig.url.scheme = "https" /\ ~policy.allowDowngrade => last.url.scheme = "https"

\* Under WithPreserveMethod the whole chain has the original's method, and only
\* a method net/http rewrites makes it hand back a 3xx: a GET, spelled or not,
\* and a HEAD are followed.
MethodKeptExactly ==
  policy.kind = "func" =>
    /\ policy.preserveMethod => effectiveMethod(last.method) = effectiveMethod(orig.method)
    /\ result = "useLastResponse" => policy.preserveMethod /\ orig.method = "POST"

\* What a policy of suffixes alone follows lies in a domain it names: a suffix
\* with nothing in it grants nothing, and no suffix an address.
SuffixNamesDomain ==
  policy.kind = "func" /\ hops > 0 /\ policy.allowedHosts = {}
    /\ ~policy.sameHost /\ ~policy.sameOrigin =>
       \E suffix \in policy.allowedSuffixes :
         /\ \E i \in DOMAIN suffix : suffix[i] # ""
         /\ IsSuffix(suffix, last.url.host.labels)

==============================================================================
