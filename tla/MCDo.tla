--------------------------------- MODULE MCDo ---------------------------------
(* Errors a caller's function returns, one for each way Do can judge it. *)
EXTENDS Do

FnFailures ==
  { <<Layer("opaque")>>,
    <<Timed("hint", 4), Layer("statusRetryable")>>,       \* with a hint
    <<Timed("hint", -1), Layer("clientTimeout")>>,        \* a hint to ignore
    <<Layer("wrap"), Layer("deadline")>>,                 \* a deadline, whoever's
    <<Layer("netOp"), Layer("netTimeout")>>,
    <<Layer("permanent"), Layer("deadline")>>,
    <<Layer("markTransient"), Layer("auth")>>,
    <<Layer("wrap"), Timed("rateLimit", 2)>>,
    <<Timed("rateLimit", 7)>>,                            \* past the ceiling
    <<Layer("rateLimit")>> }                              \* no hint

\* With a rate limit the caller's function has given up on.
WithPermanentRateLimit == FnFailures \cup {<<Layer("permanent"), Timed("rateLimit", 2)>>}

FnWaits == {0, 2, 3, 4, -1}

==============================================================================
