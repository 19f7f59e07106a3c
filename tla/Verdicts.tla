------------------------------- MODULE Verdicts -------------------------------
(***************************************************************************)
(* From a round trip to a verdict.  An exchange ends in a transport error  *)
(* or in a response, whose Retry-After field arrives digit by digit and    *)
(* which CheckHTTPStatus turns into an error; the error then travels up    *)
(* through marks, wrappers and reductions, and a loop may judge it at any  *)
(* point of the way.                                                       *)
(***************************************************************************)
EXTENDS Responses, ErrorChains

vars == <<code, header, err>>

VerdictInit == ResponseInit /\ ErrorInit

\* The exchange failed in the transport or in the caller's own code.
Fails(kind) == Make(kind) /\ header.digits = <<>> /\ UNCHANGED responseVars

Receives(d) == err = nil /\ Digit(d) /\ UNCHANGED err

Checked ==
  /\ err = nil
  /\ err' = CheckHTTPStatus(code, header)
  /\ UNCHANGED responseVars

\* The response is done with once an error stands for it: it is forgotten here,
\* so that chains differ by their error alone.
Travels == OnItsWayUp /\ code' = 200 /\ header' = Absent

VerdictNext == \/ \E kind \in Roots : Fails(kind)
               \/ \E d \in Digits : Receives(d)
               \/ Checked
               \/ Travels

VerdictSpec == VerdictInit /\ [][VerdictNext]_vars

==============================================================================
