----------------------------- MODULE MCRedirects -----------------------------
(* Policies and URLs for TLC: two spellings of one host, a subdomain, a name  *)
(* with a trailing dot, an address, no host, and a port out of range.         *)
EXTENDS Redirects

Name(labels)    == [labels |-> labels, addr |-> "", spelling |-> "lower"]
Spelled(labels) == [labels |-> labels, addr |-> "", spelling |-> "upper"]
Literal(addr)   == [labels |-> <<>>, addr |-> addr, spelling |-> "lower"]

Hosts == {Name(<<"a", "com">>), Spelled(<<"a", "com">>), Name(<<"api", "a", "com">>),
          Name(<<"b", "com">>), Name(<<"b", "com", "">>), Literal("::1"), Literal("")}

URL(scheme, host, port) == [scheme |-> scheme, host |-> host, port |-> port]

SomeOrigins == {URL(s, Name(<<"a", "com">>), p) : s \in {"http", "https"}, p \in {-1, 8080}}

SomeTargets == {URL(s, h, p) : s \in {"http", "https"}, h \in Hosts,
                               p \in {-1, 80, 443, 8080, 65536}}

Func == [kind |-> "func", allowedHosts |-> {}, allowedSuffixes |-> {}, maxHops |-> 0,
         sameHost |-> FALSE, sameOrigin |-> FALSE, allowDowngrade |-> FALSE,
         preserveMethod |-> FALSE]

AllowB == {Name(<<"b", "com">>)}

SomePolicies ==
  { Func,
    [Func EXCEPT !.sameHost = TRUE],                        \* DefaultRedirectPolicy
    [Func EXCEPT !.sameHost = TRUE, !.preserveMethod = TRUE, !.maxHops = 2],
    [Func EXCEPT !.sameOrigin = TRUE],
    [Func EXCEPT !.sameOrigin = TRUE, !.sameHost = TRUE, !.maxHops = 3,
                 !.allowedHosts = AllowB \cup {Name(<<"a", "com">>)}],
    [Func EXCEPT !.allowedSuffixes = {<<"">>}],
    [Func EXCEPT !.allowedSuffixes = {<<"a", "com">>, <<>>}, !.maxHops = 2],
    [Func EXCEPT !.allowedHosts = AllowB \cup {Literal("::1"), Literal("")},
                 !.allowDowngrade = TRUE, !.maxHops = 1],
    [Func EXCEPT !.allowedHosts = AllowB, !.preserveMethod = TRUE, !.maxHops = 3],
    [Func EXCEPT !.kind = "dockerGitHub"],
    [Func EXCEPT !.kind = "refuseAll"] }

DockerHosts == {Name(<<"docker", "com">>), Name(<<"hub", "docker", "com">>),
                Name(<<"github", "com">>), Name(<<"evilgithub", "com">>)}

AllTargets == SomeTargets \cup {URL(s, h, -1) : s \in {"http", "https"}, h \in DockerHosts}

==============================================================================
