------------------------------- MODULE MCConfig -------------------------------
(* Arguments a caller may pass: below, at and above every threshold. *)
EXTENDS Config

SomeCounts == {-1, 0, 1, 4}
SomeDelays == {-1, 0, 1, 15}

==============================================================================
