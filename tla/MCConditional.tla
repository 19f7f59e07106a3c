---------------------------- MODULE MCConditional ----------------------------
(* A negative cap, which a cfg cannot hold. *)
EXTENDS Conditional

SomeCaps == {-1, 4}

==============================================================================
