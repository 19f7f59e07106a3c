------------------------------ MODULE MCVerdicts ------------------------------
(* One code per band of the status rule and its exceptions; dates around the *)
(* present and the cap; every kind of error the library tells apart.         *)
EXTENDS Verdicts

SomeCodes == {100, 200, 204, 304, 401, 403, 404, 408, 429, 500, 501, 503, 511, 599, 600}
SomeDates == {-5, 0, 5, 60, 61, 127}

SomeRoots == {"deadline", "canceled", "netTimeout", "clientTimeout", "kernelTimeout",
              "refused", "reset", "eof", "unexpectedEOF", "tls", "tooLarge", "opaque"}

==============================================================================
