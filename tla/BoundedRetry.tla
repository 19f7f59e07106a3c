----------------------------- MODULE BoundedRetry -----------------------------
(***************************************************************************)
(* What every door of the package promises of one call, whatever it waits  *)
(* for and however it judges an attempt: attempts run one at a time, never *)
(* more than MaxAttempts of them; a call ends on an attempt's verdict, on  *)
(* the last attempt's failure, or between two attempts, and then for good. *)
(***************************************************************************)
EXTENDS Naturals

CONSTANT MaxAttempts   \* the total attempt budget, at least one

VARIABLES
  made,     \* attempts begun, the running one included
  phase     \* where the call is

vars == <<made, phase>>

Phases == {"attempt", "between", "judged", "exhausted", "gaveUp"}

Init == made = 1 /\ phase = "attempt"

\* The attempt succeeded, or failed in a way no retry can mend.
Conclude == phase = "attempt" /\ phase' = "judged" /\ UNCHANGED made

\* The attempt failed in a retryable way: pause while the budget lasts.
Fail == /\ phase = "attempt"
        /\ phase' = IF made < MaxAttempts THEN "between" ELSE "exhausted"
        /\ UNCHANGED made

Retry == phase = "between" /\ phase' = "attempt" /\ made' = made + 1

GiveUp == phase = "between" /\ phase' = "gaveUp" /\ UNCHANGED made

Next == Conclude \/ Fail \/ Retry \/ GiveUp

Spec == Init /\ [][Next]_vars /\ WF_vars(Next)

==============================================================================
