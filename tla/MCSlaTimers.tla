---------------------------- MODULE MCSlaTimers ----------------------------
(* Two policies, so that a ticket can go back to one it had.  They are      *)
(* interchangeable: a ticket made with a policy is made with First.         *)
EXTENDS SlaTimers

CONSTANT First

FirstInit == Init /\ sla \in {First, NoPolicy}

FirstSpec == FirstInit /\ [][Next]_vars /\ Fairness
=============================================================================
