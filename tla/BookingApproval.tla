--------------------------- MODULE BookingApproval ---------------------------
(***************************************************************************)
(* One booking from creation to decision: its approval rows and who gets   *)
(* one, the grant RPC, the room-rule workflow that waits for it, the       *)
(* service lines whose setup work waits for approval, and the cancels.     *)
(*                                                                         *)
(* createWithAttachPlan (booking-flow.service.ts) is one step per          *)
(* statement: the combined RPC (00431), then the fan-out of the room's     *)
(* approvals, flat or through the workflow engine, which inserts its rows  *)
(* one by one.  A client may send the request again with the same key, so  *)
(* several calls may be at it.  grant_booking_approval (00426) is two      *)
(* steps: the read without a lock, then all it does under the row lock of  *)
(* the booking.  The cancel RPCs (00408, 00414) take that lock first and   *)
(* are one step each.  The setup events reach their handler through the    *)
(* module Outbox: at least once, and by two workers at a time if a lease   *)
(* runs out.                                                               *)
(*                                                                         *)
(* Rows are the approvals rows that can come to exist: those of the plan   *)
(* and, per call, those its fan-out would insert.  Room rows carry an      *)
(* empty scope_breakdown; the scope of a service row always holds the      *)
(* booking, so cancelling lines never empties it.  Every line needs        *)
(* internal setup.  Slots follow the status of the booking (see Bookings). *)
(* The approval config of the room's rule is no part of what the           *)
(* idempotency key covers: each call finds the rule as it is by then.      *)
(***************************************************************************)
EXTENDS Naturals, FiniteSets

CONSTANTS Rows,
          Calls,           \* createWithAttachPlan calls, a first one and retries
          Plan,            \* the chain of the rows that are in the attach plan
          ChainOf,         \* approval_chain_id: Plan or the call that inserts it
          ApproverOf,
          Persons,         \* the approvers that are persons, not teams
          Threshold,       \* chain_threshold of a chain
          RoomRule,        \* per call: the room needs approval, flat or by a workflow
          ServiceApproval, \* a service rule asks for approval of the lines
          Lines,           \* order_line_items of the booking
          Grants,          \* ApprovalService.respond calls in flight
          Workers,         \* outbox workers
          CancelsLines,    \* whether cancelLine and cancelBundle are called
          MaxCrashes,      \* bound: create calls and resumes that die half way
          NoRow, NoLine

Chains == Calls \cup {Plan}

RowsOf(c) == {r \in Rows : ChainOf[r] = c}

(* The rows of room approvers: scope_breakdown null, or all its lists empty. *)
RoomRows == {r \in Rows : ChainOf[r] # Plan \/ ~ServiceApproval}

ASSUME PlanAssumption == Plan \notin Calls
ASSUME RowsAssumption ==
  ChainOf \in [Rows -> Chains] /\ Threshold \in [Chains -> {"all", "any"}]
ASSUME RuleAssumption ==
  /\ RoomRule \in [Calls -> {"none", "flat", "workflow"}]
  /\ \A b, c \in Calls : RoomRule[b] = "none" => RoomRule[c] = "none"
  /\ ServiceApproval \in BOOLEAN /\ CancelsLines \in BOOLEAN
ASSUME NoRowAssumption == NoRow \notin Rows /\ NoLine \notin Lines
ASSUME MaxCrashesAssumption == MaxCrashes \in Nat

VARIABLES
  status,         \* bookings.status, "none" before the row exists
  approval,       \* approvals.status, "none" before the row exists
  call, todo,     \* per call: next statement, rows left to insert
  instance,       \* workflow_instances.status of the instance a call started
  claimed,        \* calls whose instance a resume has claimed and not yet moved on
  on, verdict,    \* per grant: the row it has read, the decision
  granted, wake,  \* rows with an approval.granted event; those not yet handled
  cancelled,      \* a booking.cancelled event waits
  line,           \* order_line_items.fulfillment_status
  held,           \* lines with pending_setup_trigger_args
  event,          \* setup_work_order.create_required per line
  emission,       \* setup_work_order_emissions
  made,           \* setup work orders made for a line so far
  open,           \* lines with an open setup work order
  building,       \* per worker: the line whose work order it builds
  crashes

booking == <<status, approval, granted, wake, cancelled>>
create  == <<call, todo, instance, claimed, crashes>>
grants  == <<on, verdict>>
setup   == <<line, held, event, emission, made, open, building>>
vars    == <<booking, create, grants, setup>>

Init ==
  /\ status = "none"
  /\ approval = [r \in Rows |-> "none"]
  /\ call = [c \in Calls |-> "rpc"]
  /\ todo = [c \in Calls |-> {}]
  /\ instance = [c \in Calls |-> "none"]
  /\ claimed = {}
  /\ on = [g \in Grants |-> NoRow]
  /\ verdict = [g \in Grants |-> "approved"]
  /\ granted = {} /\ wake = {}
  /\ cancelled = FALSE
  /\ line = [l \in Lines |-> "none"]
  /\ held = {}
  /\ event = [l \in Lines |-> "none"]
  /\ emission = {}
  /\ made = [l \in Lines |-> 0]
  /\ open = {}
  /\ building = [w \in Workers |-> NoLine]
  /\ crashes = 0

Pending == {r \in Rows : approval[r] = "pending"}

SetApprovals(S, st) ==
  approval' = [r \in Rows |-> IF r \in S THEN st ELSE approval[r]]

(* uq_approvals_pending_dedup: one pending row per person. *)
Insertable(S) ==
  \A r \in S, q \in Pending : ApproverOf[r] \in Persons => ApproverOf[q] # ApproverOf[r]

-----------------------------------------------------------------------------
(* createWithAttachPlan *)

Call(c, next) == call' = [call EXCEPT ![c] = next]

(* create_booking_with_attach_plan; a retry gets the cached result. *)
CreateRpc(c) ==
  /\ call[c] = "rpc"
  /\ Call(c, IF RoomRule[c] = "none" THEN "returned" ELSE "check")
  /\ IF status = "none"
     THEN /\ status' = IF RoomRule[c] = "none" THEN "confirmed" ELSE "pending_approval"
          /\ SetApprovals(RowsOf(Plan), "pending")
          /\ line' = [l \in Lines |-> "ordered"]
          /\ held' = IF ServiceApproval THEN Lines ELSE {}
          /\ event' = [l \in Lines |-> IF ServiceApproval THEN "none" ELSE "queued"]
     ELSE UNCHANGED <<status, approval, line, held, event>>
  /\ UNCHANGED <<granted, wake, cancelled, todo, instance, claimed, crashes, grants,
                 emission, made, open, building>>

(* hasRoomApprovalRows: any row of the booking in a chain counts. *)
HasRoomApprovalRows == \E r \in Rows : approval[r] \in {"pending", "approved"}

HasActiveBookingWorkflow == \E c \in Calls : instance[c] \in {"active", "waiting"}

(* ensureRoomApprovalFanout *)
FanoutCheck(c) ==
  /\ call[c] = "check"
  /\ IF RoomRule[c] = "workflow"
     THEN Call(c, IF HasActiveBookingWorkflow THEN "returned" ELSE "start")
     ELSE Call(c, IF HasRoomApprovalRows THEN "returned" ELSE "insert")
  /\ UNCHANGED <<booking, todo, instance, claimed, crashes, grants, setup>>

(* createApprovalRows: one statement for all rows, or none. *)
CreateApprovalRows(c) ==
  /\ call[c] = "insert"
  /\ IF Insertable(RowsOf(c))
     THEN SetApprovals(RowsOf(c), "pending") /\ Call(c, "returned")
     ELSE UNCHANGED approval /\ Call(c, "failed")
  /\ UNCHANGED <<status, granted, wake, cancelled, todo, instance, claimed, crashes,
                 grants, setup>>

(* startForBooking; workflow_instances_active_booking_unique_idx lets only  *)
(* one instance be active.                                                  *)
StartForBooking(c) ==
  /\ call[c] = "start"
  /\ IF HasActiveBookingWorkflow
     THEN Call(c, "failed") /\ UNCHANGED <<todo, instance>>
     ELSE /\ Call(c, "rows")
          /\ instance' = [instance EXCEPT ![c] = "active"]
          /\ todo' = [todo EXCEPT ![c] = RowsOf(c)]
  /\ UNCHANGED <<booking, claimed, crashes, grants, setup>>

(* The approval node of the engine: a row per approver, then waiting. *)
InsertRow(c, r) ==
  /\ call[c] = "rows" /\ r \in todo[c]
  /\ IF Insertable({r})
     THEN /\ SetApprovals({r}, "pending")
          /\ todo' = [todo EXCEPT ![c] = @ \ {r}]
          /\ UNCHANGED call
     ELSE Call(c, "failed") /\ UNCHANGED <<approval, todo>>
  /\ UNCHANGED <<status, granted, wake, cancelled, instance, claimed, crashes, grants,
                 setup>>

(* By id alone, whatever became of the instance; that the same index makes   *)
(* the update fail goes unnoticed.                                          *)
WaitForApproval(c) ==
  /\ call[c] = "rows" /\ todo[c] = {}
  /\ instance' = IF \E b \in Calls \ {c} : instance[b] \in {"active", "waiting"}
                 THEN instance
                 ELSE [instance EXCEPT ![c] = "waiting"]
  /\ Call(c, "returned")
  /\ UNCHANGED <<booking, todo, claimed, crashes, grants, setup>>

CallDies(c) ==
  /\ call[c] \notin {"rpc", "returned", "failed"} /\ crashes < MaxCrashes
  /\ crashes' = crashes + 1
  /\ Call(c, "failed")
  /\ UNCHANGED <<booking, todo, instance, claimed, grants, setup>>

-----------------------------------------------------------------------------
(* grant_booking_approval *)

(* Step 0, without a lock: a row that was answered ends the call. *)
GrantRead(g, r, d) ==
  /\ on[g] = NoRow
  /\ approval[r] = "pending"
  /\ on' = [on EXCEPT ![g] = r]
  /\ verdict' = [verdict EXCEPT ![g] = d]
  /\ UNCHANGED <<booking, create, setup>>

GrantEnds(g) ==
  /\ on' = [on EXCEPT ![g] = NoRow]
  /\ verdict' = [verdict EXCEPT ![g] = "approved"]

(* Mutant: the status read in step 0 is good enough. *)
StillPendingTrusted(r) == approval[r] # "none"

(* Step 4: the status is read again, now under the lock. *)
StillPending(r) == approval[r] = "pending"

(* Mutant: the approvals of the siblings are not looked at. *)
SiblingApprovedUnseen(r) == FALSE

(* Steps 3 and 6: an any-of chain that another row has already resolved. *)
SiblingApproved(r) ==
  \E q \in RowsOf(ChainOf[r]) \ {r} : approval[q] = "approved"

(* Mutant: an open sibling does not count. *)
UnresolvedRejected(r) == \E q \in Rows \ {r} : approval[q] = "rejected"

(* Step 7: the other rows of the booking that are neither approved nor expired. *)
Unresolved(r) == \E q \in Rows \ {r} : approval[q] \in {"pending", "rejected"}

Outcome(r, d) ==
  CASE d = "rejected" -> "cancelled"
    [] d = "approved" /\ Threshold[ChainOf[r]] = "any" ->
         IF SiblingApproved(r) THEN "already_resolved" ELSE "confirmed"
    [] OTHER -> IF Unresolved(r) THEN "partial_approved" ELSE "confirmed"

(* The rows that the outcome expires. *)
Expires(r, d) ==
  CASE d = "rejected" -> Pending \ {r}
    [] Outcome(r, d) = "confirmed" /\ Threshold[ChainOf[r]] = "any" ->
         (Pending \cap RowsOf(ChainOf[r])) \ {r}
    [] OTHER -> {}

(* Mutant: a rejection leaves the booking as it is. *)
NextStatusApprovedOnly(st) ==
  IF status = "pending_approval" /\ st = "confirmed" THEN st ELSE status

(* Mutant: the update of the booking does not look at its status. *)
NextStatusUnguarded(st) == st

(* Step 8: only a booking that still waits moves. *)
NextStatus(st) == IF status = "pending_approval" THEN st ELSE status

(* approve_booking_setup_trigger: the events of the held lines. *)
EmitSetup ==
  LET L == {l \in held : line[l] # "cancelled"}
  IN /\ event' = [l \in Lines |-> IF l \in L THEN "queued" ELSE event[l]]
     /\ held' = held \ L

(* Step 11: approval.granted, if the row is a workflow's and resolved. *)
Wakes(r, out) ==
  /\ out \in {"confirmed", "cancelled"}
  /\ ChainOf[r] # Plan /\ RoomRule[ChainOf[r]] = "workflow"

(* Steps 1 to 11, under the row lock of the booking. *)
GrantLocked(g) ==
  LET r == on[g]
      d == verdict[g]
      out == Outcome(r, d)
      resolved == out \in {"confirmed", "cancelled"}
  IN /\ r # NoRow
     /\ IF StillPending(r)
        THEN /\ approval' = [q \in Rows |-> CASE q = r -> d
                                              [] q \in Expires(r, d) -> "expired"
                                              [] OTHER -> approval[q]]
             /\ status' = IF resolved THEN NextStatus(out) ELSE status
             /\ CASE out = "confirmed" -> EmitSetup
                  [] out = "cancelled" -> held' = {} /\ UNCHANGED event
                  [] OTHER -> UNCHANGED <<held, event>>
             /\ IF Wakes(r, out)
                THEN granted' = granted \cup {r} /\ wake' = wake \cup {r}
                ELSE UNCHANGED <<granted, wake>>
        ELSE UNCHANGED <<status, approval, granted, wake, held, event>>
     /\ GrantEnds(g)
     /\ UNCHANGED <<cancelled, create, line, emission, made, open, building>>

-----------------------------------------------------------------------------
(* The workflow: approval.granted resumes the instance, booking.cancelled   *)
(* cancels it.  An event may be delivered again.                            *)

(* resume, first write: the claim takes only a waiting instance.            *)
ResumeClaim(r) ==
  LET c == ChainOf[r]
  IN /\ r \in wake /\ instance[c] = "waiting"
     /\ instance' = [instance EXCEPT ![c] = "active"]
     /\ claimed' = claimed \cup {c}
     /\ UNCHANGED <<booking, call, todo, crashes, grants, setup>>

(* advance: both edges lead to an end node, whose update is by id alone,    *)
(* whatever became of the instance since the claim.                         *)
ResumeAdvance(c) ==
  /\ c \in claimed
  /\ instance' = [instance EXCEPT ![c] = "completed"]
  /\ claimed' = claimed \ {c}
  /\ UNCHANGED <<booking, call, todo, crashes, grants, setup>>

(* The worker dies in between: the instance stays active, claimed by nobody. *)
ResumeDies(c) ==
  /\ c \in claimed /\ crashes < MaxCrashes
  /\ crashes' = crashes + 1
  /\ claimed' = claimed \ {c}
  /\ UNCHANGED <<booking, call, todo, instance, grants, setup>>

(* A delivery that finds nothing to claim uses up the event, also one that   *)
(* comes before the instance waits.                                         *)
ResumeDone(r) ==
  /\ r \in wake /\ instance[ChainOf[r]] # "waiting"
  /\ wake' = wake \ {r}
  /\ UNCHANGED <<status, approval, granted, cancelled, create, grants, setup>>

(* cancelInstanceForBooking finds the instances through the approval rows;  *)
(* cancel_workflow_instance_with_approvals expires what is pending.         *)
CancelDriving(again) ==
  LET C == {c \in Calls : /\ instance[c] \in {"active", "waiting"}
                          /\ \E r \in RowsOf(c) : approval[r] # "none"}
  IN /\ cancelled
     /\ instance' = [c \in Calls |-> IF c \in C THEN "cancelled" ELSE instance[c]]
     /\ SetApprovals({r \in Pending : ChainOf[r] \in C}, "expired")
     /\ cancelled' = again
     /\ UNCHANGED <<status, granted, wake, call, todo, claimed, crashes, grants, setup>>

(* ApprovalCancelSweeperCron expires what a cancelled instance left open.   *)
SweepOrphanedApprovals ==
  LET S == {r \in Pending : /\ ChainOf[r] \in Calls
                            /\ instance[ChainOf[r]] = "cancelled"}
  IN /\ S # {}
     /\ SetApprovals(S, "expired")
     /\ UNCHANGED <<status, granted, wake, cancelled, create, grants, setup>>

-----------------------------------------------------------------------------
(* Cancels.  Lines that are being prepared are left alone.                  *)

Cancellable == {l \in Lines : line[l] \in {"ordered", "cancelled"}}

CancelOf(L) ==
  /\ line' = [l \in Lines |-> IF l \in L THEN "cancelled" ELSE line[l]]
  /\ held' = held \ L
  /\ open' = open \ L
  /\ UNCHANGED <<event, emission, made, building>>

(* cancel_booking_with_cascade *)
CancelBooking ==
  /\ status \in {"pending_approval", "confirmed"}
  /\ status' = "cancelled"
  /\ CancelOf(Cancellable)
  /\ SetApprovals(Pending, "expired")
  /\ cancelled' = TRUE
  /\ UNCHANGED <<granted, wake, create, grants>>

(* cancel_order_lines_with_cascade with p_line_ids: pending rows that cover *)
(* nothing any more expire.                                                 *)
CancelLine(l) ==
  /\ CancelsLines
  /\ l \in Cancellable
  /\ CancelOf({l})
  /\ SetApprovals(Pending \cap RoomRows, "expired")
  /\ UNCHANGED <<status, granted, wake, cancelled, create, grants>>

(* The same without p_line_ids: all lines but some to keep.  The booking is *)
(* cancelled only if nothing is kept and nothing is in preparation.         *)
CancelBundle(keep) ==
  /\ CancelsLines
  /\ status # "none"
  /\ CancelOf(Cancellable \ keep)
  /\ SetApprovals(Pending, "expired")
  /\ status' = IF keep = {} /\ Cancellable = Lines THEN "cancelled" ELSE status
  /\ UNCHANGED <<granted, wake, cancelled, create, grants>>

(* StatusInferenceService: an ordered line goes into preparation. *)
Prepare(l) ==
  /\ line[l] = "ordered"
  /\ line' = [line EXCEPT ![l] = "preparing"]
  /\ UNCHANGED <<booking, create, grants, held, event, emission, made, open, building>>

-----------------------------------------------------------------------------
(* SetupWorkOrderHandler and create_setup_work_order_from_event *)

(* The reads of handle: a line that has its work order is done. *)
SetupRead(w, l) ==
  /\ building[w] = NoLine
  /\ event[l] = "queued" /\ l \notin emission
  /\ building' = [building EXCEPT ![w] = l]
  /\ UNCHANGED <<booking, create, grants, line, held, event, emission, made, open>>

(* A delivery ends and the worker marks the event: the work order exists,   *)
(* buildFromEvent found nothing to do, or the event is a dead letter.       *)
SetupSettled(l) ==
  /\ event[l] = "queued"
  /\ event' = [event EXCEPT ![l] = "settled"]
  /\ UNCHANGED <<booking, create, grants, line, held, emission, made, open, building>>

(* Mutant: the read of the handler is good enough. *)
AlreadyCreatedUnchecked(l) == FALSE

(* Step 6 of the RPC, under the advisory lock of the line. *)
AlreadyCreated(l) == l \in emission

SetupWrite(w) ==
  LET l == building[w]
  IN /\ l # NoLine
     /\ IF AlreadyCreated(l)
        THEN UNCHANGED <<emission, made, open>>
        ELSE /\ emission' = emission \cup {l}
             /\ made' = [made EXCEPT ![l] = @ + 1]
             /\ open' = open \cup {l}
     /\ building' = [building EXCEPT ![w] = NoLine]
     /\ UNCHANGED <<booking, create, grants, line, held, event>>

(* buildFromEvent or the RPC fails, or the worker dies: the event stays.    *)
SetupGivesUp(w) ==
  /\ building[w] # NoLine
  /\ building' = [building EXCEPT ![w] = NoLine]
  /\ UNCHANGED <<booking, create, grants, line, held, event, emission, made, open>>

-----------------------------------------------------------------------------
CallStep(c) ==
  \/ CreateRpc(c)
  \/ FanoutCheck(c)
  \/ CreateApprovalRows(c)
  \/ StartForBooking(c)
  \/ \E r \in Rows : InsertRow(c, r)
  \/ WaitForApproval(c)
  \/ CallDies(c)

GrantStep(g) ==
  \/ \E r \in Rows, d \in {"approved", "rejected"} : GrantRead(g, r, d)
  \/ GrantLocked(g)

EventStep ==
  \/ \E r \in Rows : ResumeClaim(r) \/ ResumeDone(r)
  \/ \E c \in Calls : ResumeAdvance(c) \/ ResumeDies(c)
  \/ \E again \in BOOLEAN : CancelDriving(again)
  \/ SweepOrphanedApprovals

CancelStep ==
  \/ CancelBooking
  \/ \E l \in Lines : CancelLine(l)
  \/ \E keep \in SUBSET Lines : CancelBundle(keep)

LineStep(l) ==
  \/ Prepare(l)
  \/ \E w \in Workers : SetupRead(w, l)
  \/ SetupSettled(l)

WorkerStep(w) == SetupWrite(w) \/ SetupGivesUp(w)

Next ==
  \/ \E c \in Calls : CallStep(c)
  \/ \E g \in Grants : GrantStep(g)
  \/ EventStep
  \/ CancelStep
  \/ \E l \in Lines : LineStep(l)
  \/ \E w \in Workers : WorkerStep(w)

Spec == Init /\ [][Next]_vars

-----------------------------------------------------------------------------
(* Properties *)

(* Every variable has its type: the statuses keep to the CHECKs of the      *)
(* tables, a call inserts only rows of its own chain, and there is no setup *)
(* work order without its row in setup_work_order_emissions.                *)
TypeOK ==
  /\ status \in {"none", "pending_approval", "confirmed", "cancelled"}
  /\ approval \in [Rows -> {"none", "pending", "approved", "rejected", "expired"}]
  /\ call \in [Calls -> {"rpc", "check", "insert", "start", "rows", "returned",
                         "failed"}]
  /\ todo \in [Calls -> SUBSET Rows]
  /\ instance \in [Calls -> {"none", "active", "waiting", "completed", "cancelled"}]
  /\ claimed \in SUBSET Calls
  /\ on \in [Grants -> Rows \cup {NoRow}]
  /\ verdict \in [Grants -> {"approved", "rejected"}]
  /\ granted \in SUBSET Rows /\ wake \in SUBSET granted
  /\ cancelled \in BOOLEAN
  /\ line \in [Lines -> {"none", "ordered", "preparing", "cancelled"}]
  /\ held \in SUBSET Lines
  /\ event \in [Lines -> {"none", "queued", "settled"}]
  /\ emission \in SUBSET Lines /\ open \in SUBSET emission
  /\ made \in [Lines -> Nat]
  /\ building \in [Workers -> Lines \cup {NoLine}]
  /\ crashes \in 0..MaxCrashes
  /\ \A c \in Calls : todo[c] \subseteq RowsOf(c)

(* An approval is answered once: neither a second answer that was on its    *)
(* way, nor a retry of the create call, nor a cancel changes the record of  *)
(* what an approver decided.                                                *)
DecidedOnce ==
  [][\A r \in Rows : approval[r] \in {"approved", "rejected", "expired"}
                        => approval'[r] = approval[r]]_vars

(* A line gets at most one setup work order, although its event may be      *)
(* delivered twice and handled by two workers at a time.                    *)
AtMostOneWorkOrder == \A l \in Lines : made[l] <= 1

(* Facilities start no work on services that an approver may still reject:  *)
(* no setup event exists while a service approval is open or was rejected,  *)
(* although the room's approvers answer in any order, between and after the *)
(* service approvers.  The one exception: an any-of chain of room approvers *)
(* resolves the booking, setup included, over the heads of the service      *)
(* approvers.                                                               *)
SetupWaitsForService ==
  (\E l \in Lines : event[l] # "none") =>
    \/ \A r \in Rows \ RoomRows : approval[r] \in {"approved", "expired"}
    \/ \E q \in RoomRows : Threshold[ChainOf[q]] = "any" /\ approval[q] = "approved"

(* A rejection stands: whatever is answered, retried or cancelled later, no *)
(* booking is confirmed and no setup is emitted after it.                   *)
RejectionIsFinal ==
  [][(\E r \in Rows : approval[r] = "rejected") =>
       /\ status' \in {status, "cancelled"}
       /\ \A l \in Lines : event'[l] = "queued" => event[l] = "queued"]_vars

(* Of an any-of chain one approval resolves the booking and wakes its       *)
(* workflow; approvers that come at the same time do not do it again.       *)
AnyOfOneWinner ==
  \A r, q \in granted :
    /\ ChainOf[r] = ChainOf[q] /\ Threshold[ChainOf[r]] = "any"
    /\ approval[r] = "approved" /\ approval[q] = "approved"
    => r = q

(* The workflow follows the booking: an instance goes on past its approval  *)
(* node only when an answer of its own chain has decided the booking,       *)
(* although events are redelivered and create calls retried.                *)
WorkflowFollows ==
  \A c \in Calls : instance[c] = "completed" =>
    /\ status # "pending_approval"
    /\ \E r \in RowsOf(c) : approval[r] \in {"approved", "rejected"}
=============================================================================
