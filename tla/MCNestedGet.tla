----------------------------- MODULE MCNestedGet -----------------------------
(* The failures of MCGetBytes, one loop further in. *)
EXTENDS NestedGet, MCGetBytes

==============================================================================
