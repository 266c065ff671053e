---------------------------- MODULE Escalations -----------------------------
(***************************************************************************)
(* What the thresholds of an SLA promise the people on a ticket.  An       *)
(* escalation takes the ticket for its target at most once; apart from     *)
(* that the ticket moves by hand only.  Each threshold goes on record      *)
(* once, an escalation not before its target has had the ticket, unless    *)
(* the target cannot have it.  The people are told once at most, and only  *)
(* of what is on record as done.                                           *)
(***************************************************************************)
EXTENDS Integers

CONSTANTS Thresholds, Escalates, TargetOf, Managed, NoUser, Holders

VARIABLES
  assignee,    \* who has the ticket
  given,       \* how often it was given by hand
  taken,       \* escalations that took it
  had,         \* thresholds whose target has had it
  crossings,   \* per threshold: what is on record
  told         \* per threshold: how often the people were told

vars == <<assignee, given, taken, had, crossings, told>>

TargetedAt(a) == {h \in Thresholds : TargetOf[h] = a}

Init ==
  /\ assignee \in Holders
  /\ given = 0
  /\ taken = {}
  /\ had = TargetedAt(assignee)
  /\ crossings = [h \in Thresholds |-> "none"]
  /\ told = [h \in Thresholds |-> 0]

Move(a) ==
  /\ assignee' = a
  /\ had' = had \cup TargetedAt(a)
  /\ UNCHANGED <<crossings, told>>

Give(a) ==
  /\ Move(a)
  /\ given' = given + 1
  /\ UNCHANGED taken

Take(h) ==
  /\ h \in Escalates \ (taken \cup NoUser)
  /\ Move(TargetOf[h])
  /\ taken' = taken \cup {h}
  /\ UNCHANGED given

(* What may go on record of a threshold. *)
May(h) ==
  {action \in {"notify", "escalate", "skipped_no_manager"} :
     /\ action = "notify" => h \notin Escalates
     /\ action = "escalate" => h \in Escalates \cap (had \cup NoUser)
     /\ action = "skipped_no_manager" => h \in Managed}

Record(h, action) ==
  /\ crossings[h] = "none"
  /\ crossings' = [crossings EXCEPT ![h] = action]
  /\ UNCHANGED <<assignee, given, taken, had, told>>

Tell(h) ==
  /\ crossings[h] \in {"notify", "escalate"}
  /\ told[h] = 0
  /\ told' = [told EXCEPT ![h] = 1]
  /\ UNCHANGED <<assignee, given, taken, had, crossings>>

Next ==
  \/ \E a \in Holders : Give(a)
  \/ \E h \in Thresholds : Take(h) \/ Tell(h) \/ \E action \in May(h) : Record(h, action)

Spec == Init /\ [][Next]_vars
=============================================================================
