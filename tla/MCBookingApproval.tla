------------------------- MODULE MCBookingApproval -------------------------
(* Instances of BookingApproval: rows p1, p2 of the plan, a1, a2 of the     *)
(* first create call and b1, b2 of its retry.                               *)
EXTENDS BookingApproval, TLC

CONSTANTS p1, p2, a1, a2, b1, b2, c1, c2, ann, bob, team

MCChainOf ==
  [r \in Rows |-> CASE r \in {p1, p2} -> Plan
                    [] r \in {a1, a2} -> c1
                    [] r \in {b1, b2} -> c2]

(* The service approvers are ann and bob, the room approvers ann and a team. *)
MCApproverOf ==
  [r \in Rows |-> CASE r \in {p1, a1, b1} -> ann
                    [] r = p2 -> bob
                    [] r \in {a2, b2} -> team]

(* The rule asks for a workflow, and is changed to a flat one before the    *)
(* retry; or it asks for a workflow all along.                              *)
ChangedRule == [c \in Calls |-> IF c = c1 THEN "workflow" ELSE "flat"]
WorkflowRule == [c \in Calls |-> "workflow"]

(* Of the retry's approvers one is enough. *)
RetryAnyOf == [c \in Chains |-> IF c = c2 THEN "any" ELSE "all"]
AnyOf == [c \in Chains |-> IF c = Plan THEN "all" ELSE "any"]

Symmetry == Permutations(Grants) \cup Permutations(Workers)
=============================================================================
