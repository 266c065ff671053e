--------------------------- MODULE VisitorStatus ---------------------------
(***************************************************************************)
(* The column visitors.status and VisitorService.transitionStatus, the     *)
(* only function that writes it after the insert (the trigger of 00270     *)
(* refuses every other writer).  Reception, kiosk, cancel link, approval,  *)
(* the end-of-day sweep and the booking cascade all go through it.         *)
(*                                                                         *)
(* transitionStatus is one transaction that locks the row before it reads  *)
(* the status, so it is one step.  What its callers read before the call   *)
(* may be stale when it runs.                                              *)
(***************************************************************************)
EXTENDS Naturals, FiniteSets

CONSTANT Visitors

VARIABLE status   \* visitors.status, "none" before the row exists

VisitorStatuses == {"pending_approval", "expected", "arrived", "in_meeting",
                    "checked_out", "no_show", "cancelled", "denied"}

(* ALLOWED_TRANSITIONS *)
AllowedTransitions ==
  [s \in VisitorStatuses \cup {"none"} |->
     CASE s = "pending_approval" -> {"expected", "denied", "cancelled"}
       [] s = "expected"         -> {"arrived", "no_show", "cancelled", "denied"}
       [] s = "arrived"          -> {"in_meeting", "checked_out"}
       [] s = "in_meeting"       -> {"checked_out"}
       [] OTHER                  -> {}]

Terminal == {s \in VisitorStatuses : AllowedTransitions[s] = {}}

(* The call neither changes anything nor throws. *)
SameStatus(v, to) == status[v] = to

(* The call writes the new status. *)
Moves(v, to) == to \in AllowedTransitions[status[v]]

(* The call returns normally; otherwise it throws and changes nothing. *)
Accepted(v, to) == SameStatus(v, to) \/ Moves(v, to)

SetStatus(v, to) == status' = [status EXCEPT ![v] = to]

(* visitors of a building, as the desk, the kiosk and the sweep see them *)
OnPremises == {"arrived", "in_meeting"}
Awaited    == {"pending_approval", "expected"}
=============================================================================
