---------------------------- MODULE MCRoundTripper ----------------------------
(* Requests and base transport errors for TLC. *)
EXTENDS RoundTripper

AllTransports == [checkRetry : BOOLEAN, retryNonIdempotent : BOOLEAN]
OneTransport  == [checkRetry : {FALSE}, retryNonIdempotent : {FALSE}]

AllRequests == [safe : BOOLEAN, body : {"none", "rewindable", "oneShot"}]
Rewindable  == [safe : {TRUE}, body : {"rewindable"}]

\* A hang-up is transient once named; a refused certificate and a context that
\* expired are not.
BaseErrors == {<<Layer("eof")>>, <<Layer("tls")>>, <<Layer("deadline")>>}

==============================================================================
