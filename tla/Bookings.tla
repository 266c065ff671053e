------------------------------ MODULE Bookings ------------------------------
(***************************************************************************)
(* The life of room bookings: the tables bookings and booking_slots        *)
(* (00277), the transactional RPCs that create, decide and cancel a        *)
(* booking or its services (00431, 00426, 00408, 00414), and the services  *)
(* that write the tables one statement at a time: the approval rows that   *)
(* follow a create (booking-flow.service.ts), check-in, auto-release       *)
(* (check-in.service.ts), restore and skip (reservation.service.ts).       *)
(*                                                                         *)
(* An RPC is one step: it holds the row lock of its booking from before    *)
(* its first read of the status, and reads the status of a slot only in    *)
(* the statement that writes it.  A service call is one step per           *)
(* statement, and may die between any two.                                 *)
(*                                                                         *)
(* Room and time are fixed per slot, so contention for a room is a         *)
(* relation between slots; the clock of a booking is reduced to what the   *)
(* code compares it with, for bookings shorter than a day.  The approval   *)
(* rows of a booking are reduced to one: what several rows and chains do   *)
(* is the module BookingApproval.                                          *)
(***************************************************************************)
EXTENDS Naturals, FiniteSets

CONSTANTS Bookings, Slots,
          Requests,        \* service calls in flight
          Scans,           \* instances that run autoReleaseScan
          BookingOf,       \* booking_slots.booking_id
          Primary,         \* the slot of a booking with the lowest display_order
          Contends,        \* pairs of slots: same space, overlapping time_range
          CheckInRequired, \* slots with check_in_required
          Series,          \* the bookings of the same recurrence series, {} if none
          Following,       \* those of them that do not start earlier
          ScanLimit,       \* rows that one autoReleaseScan selects at most
          OpensAt,         \* when check-in opens, 15 minutes before the start
          Horizon,         \* bound: how long the clock runs
          MaxFaults,       \* bound: calls and scans that die half way, creates sent again
          NoBooking, NoSlot

SlotsOf(b) == {s \in Slots : BookingOf[s] = b}

ASSUME BookingOfAssumption == BookingOf \in [Slots -> Bookings]
ASSUME PrimaryAssumption ==
  Primary \in [Bookings -> Slots] /\ \A b \in Bookings : BookingOf[Primary[b]] = b
ASSUME ContendsAssumption ==
  /\ Contends \subseteq Slots \X Slots
  /\ \A s, t \in Slots : <<s, t>> \in Contends => <<t, s>> \in Contends
ASSUME CheckInRequiredAssumption == CheckInRequired \subseteq Slots
ASSUME SeriesAssumption ==
  /\ Series \in [Bookings -> SUBSET Bookings]
  /\ Following \in [Bookings -> SUBSET Bookings]
ASSUME ScanLimitAssumption == ScanLimit \in Nat \ {0}
ASSUME OpensAtAssumption == OpensAt \in [Bookings -> Nat]
ASSUME HorizonAssumption == Horizon \in Nat
ASSUME MaxFaultsAssumption == MaxFaults \in Nat
ASSUME NoBookingAssumption == NoBooking \notin Bookings
ASSUME NoSlotAssumption == NoSlot \notin Slots

VARIABLES
  status,        \* bookings.status, "none" before the row exists
  slot,          \* booking_slots.status
  checked_in_at, \* the slots where it is set
  grace,         \* the slots where cancellation_grace_until is in the future
  approval,      \* status of the approval of a booking, "none" without one
  verdict,       \* what became of its waiting slots: "none" if they never waited,
                 \* "open" until a decision finds them waiting
  stranded,      \* bookings that were left waiting without an open approval
  now,           \* now(), against the times of the bookings
  cancelKey,     \* bookings whose booking.cancelled key is in the outbox
  pc, on, scope, \* per request: next statement, booking, RecurrenceScope
  due, mirror,   \* per scan: slots left to release, slot just released
  faults

verdicts == <<verdict, stranded>>
tables   == <<status, slot, checked_in_at, grace, approval, verdicts, cancelKey>>
requests == <<pc, on, scope>>
scans    == <<due, mirror>>
vars     == <<tables, now, requests, scans, faults>>

Statuses == {"none", "pending_approval", "confirmed", "checked_in", "released",
             "cancelled"}
Scopes   == {"this", "this_and_following", "series"}
PCs == {"idle", "fan_out", "check_in", "check_in_mirror", "restore_check", "restore_slots",
        "restore_mirror", "skip_slots", "cancel"}

(* Mutant: an approval that is still open does not hold the room. *)
ConflictStatusesLax == {"confirmed", "checked_in"}

(* The statuses that the constraint booking_slots_no_overlap covers. *)
ConflictStatuses == {"confirmed", "checked_in", "pending_approval"}

Conflicts(s) == {t \in Slots : <<s, t>> \in Contends /\ slot[t] \in ConflictStatuses}

(* booking_slots_no_overlap lets the slots in S take a covered status.     *)
Admits(S) ==
  \A s \in S : /\ Conflicts(s) = {}
               /\ \A t \in S : <<s, t>> \notin Contends

(* Check-in opens 15 minutes before the start; a slot is due when its       *)
(* check-in grace has passed, whether it has ended or not, and past when    *)
(* its start is more than a day ago.                                        *)
Phase(b) == CASE now < OpensAt[b]     -> "early"
              [] now = OpensAt[b]     -> "open"
              [] now = OpensAt[b] + 1 -> "due"
              [] OTHER                -> "past"

SetSlots(S, st) == slot' = [s \in Slots |-> IF s \in S THEN st ELSE slot[s]]

Init ==
  /\ status = [b \in Bookings |-> "none"]
  /\ slot = [s \in Slots |-> "none"]
  /\ checked_in_at = {}
  /\ grace = {}
  /\ approval = [b \in Bookings |-> "none"]
  /\ verdict = [b \in Bookings |-> "none"]
  /\ stranded = {}
  /\ now = 0
  /\ cancelKey = {}
  /\ pc = [r \in Requests |-> "idle"]
  /\ on = [r \in Requests |-> NoBooking]
  /\ scope = [r \in Requests |-> "this"]
  /\ due = [n \in Scans |-> {}]
  /\ mirror = [n \in Scans |-> NoSlot]
  /\ faults = 0

-----------------------------------------------------------------------------
(* Requests: begin on a booking, go on to the next statement, end. *)

Begin(r, b, sc, next) ==
  /\ pc[r] = "idle"
  /\ pc' = [pc EXCEPT ![r] = next]
  /\ on' = [on EXCEPT ![r] = b]
  /\ scope' = [scope EXCEPT ![r] = sc]

Goto(r, next) ==
  /\ pc' = [pc EXCEPT ![r] = next]
  /\ UNCHANGED <<on, scope>>

Finish(r) ==
  /\ pc' = [pc EXCEPT ![r] = "idle"]
  /\ on' = [on EXCEPT ![r] = NoBooking]
  /\ scope' = [scope EXCEPT ![r] = "this"]

-----------------------------------------------------------------------------
(* create_booking_with_attach_plan: slots and booking get one status, an    *)
(* overlap rolls all back.  The approval row comes in the same transaction  *)
(* only if the plan brings one: service rules, and the flat room rule of a  *)
(* single room without services.  Whoever created a booking that waits goes *)
(* on to the room approvals.                                                *)
Create(r, b, st, planned) ==
  /\ status[b] = "none"
  /\ Admits(SlotsOf(b))
  /\ status' = [status EXCEPT ![b] = st]
  /\ SetSlots(SlotsOf(b), st)
  /\ IF st = "pending_approval"
     THEN /\ approval' = [approval EXCEPT ![b] = IF planned THEN "pending" ELSE "none"]
          /\ verdict' = [verdict EXCEPT ![b] = "open"]
          /\ Begin(r, b, "this", "fan_out")
     ELSE pc[r] = "idle" /\ UNCHANGED <<approval, verdict, requests>>
  /\ UNCHANGED <<checked_in_at, grace, stranded, cancelKey, now, scans, faults>>

(* The same create again, under the same key: the RPC returns what it had   *)
(* cached, and the room approvals are gone through once more.               *)
Replay(r, b) ==
  /\ verdict[b] # "none" /\ faults < MaxFaults
  /\ faults' = faults + 1
  /\ Begin(r, b, "this", "fan_out")
  /\ UNCHANGED <<tables, now, scans>>

Waiting(b) == {s \in SlotsOf(b) : slot[s] = "pending_approval"}

(* Nobody is left to decide on b, if it still waits. *)
Strand(b) == stranded' = IF Waiting(b) # {} THEN stranded \cup {b} ELSE stranded

(* ensureRoomApprovalFanout: rows are inserted, or a workflow that inserts  *)
(* them started, whatever has become of the booking.  Nothing happens if    *)
(* rows are there, if the room has no rule, and if its rule names nobody.   *)
FanOut(r) ==
  /\ pc[r] = "fan_out"
  /\ \/ /\ approval' = [approval EXCEPT ![on[r]] = "pending"]
        /\ UNCHANGED stranded
     \/ /\ IF approval[on[r]] = "none" THEN Strand(on[r]) ELSE UNCHANGED stranded
        /\ UNCHANGED approval
  /\ Finish(r)
  /\ UNCHANGED <<status, slot, checked_in_at, grace, verdict, cancelKey, now,
                 scans, faults>>

(* Mutant: a rejected booking gets the grace window of a cancelled one. *)
RejectedGraceOpen(b) == grace' = grace \cup Waiting(b)

(* A rejection takes the grace window away. *)
RejectedGrace(b) == grace' = grace \ Waiting(b)

(* grant_booking_approval: only what is still pending_approval moves. *)
Decide(b, decision) ==
  LET st == IF decision = "approved" THEN "confirmed" ELSE "cancelled"
  IN /\ approval[b] = "pending"
     /\ approval' = [approval EXCEPT ![b] = decision]
     /\ SetSlots(Waiting(b), st)
     /\ IF decision = "rejected" THEN RejectedGrace(b) ELSE UNCHANGED grace
     /\ status' = [status EXCEPT ![b] = IF @ = "pending_approval" THEN st ELSE @]
     /\ verdict' = [verdict EXCEPT ![b] = IF Waiting(b) # {} THEN decision ELSE @]
     /\ UNCHANGED <<checked_in_at, stranded, cancelKey, now, requests, scans, faults>>

-----------------------------------------------------------------------------
(* checkIn *)

(* The primary slot must be confirmed and the time right. *)
CheckInRead(r, b) ==
  /\ slot[Primary[b]] = "confirmed"
  /\ Phase(b) \in {"open", "due"}
  /\ Begin(r, b, "this", "check_in")
  /\ UNCHANGED <<tables, now, scans, faults>>

(* The update selects by id alone; only the constraint can refuse it. *)
CheckInWrite(r) ==
  LET p == Primary[on[r]]
  IN /\ pc[r] = "check_in"
     /\ IF Admits({p})
        THEN /\ SetSlots({p}, "checked_in")
             /\ checked_in_at' = checked_in_at \cup {p}
             /\ Goto(r, "check_in_mirror")
        ELSE /\ Finish(r)
             /\ UNCHANGED <<slot, checked_in_at>>
     /\ UNCHANGED <<status, grace, approval, verdicts, cancelKey, now, scans, faults>>

CheckInMirror(r) ==
  /\ pc[r] = "check_in_mirror"
  /\ status' = [status EXCEPT ![on[r]] = "checked_in"]
  /\ Finish(r)
  /\ UNCHANGED <<slot, checked_in_at, grace, approval, verdicts, cancelKey, now, scans, faults>>

-----------------------------------------------------------------------------
(* restore *)

RestoreRead(r, b) ==
  /\ slot[Primary[b]] = "cancelled" /\ Primary[b] \in grace
  /\ Begin(r, b, "this", "restore_check")
  /\ UNCHANGED <<tables, now, scans, faults>>

(* preCheck, of the primary slot only; a failing query counts as no         *)
(* conflict.                                                                *)
RestoreCheck(r) ==
  /\ pc[r] = "restore_check"
  /\ \/ Goto(r, "restore_slots")
     \/ Conflicts(Primary[on[r]]) # {} /\ Finish(r)
  /\ UNCHANGED <<tables, now, scans, faults>>

(* Every slot of the booking is written, whatever its status. *)
RestoreSlots(r) ==
  LET S == SlotsOf(on[r])
  IN /\ pc[r] = "restore_slots"
     /\ IF Admits(S)
        THEN /\ SetSlots(S, "confirmed")
             /\ grace' = grace \ S
             /\ Goto(r, "restore_mirror")
        ELSE /\ Finish(r)
             /\ UNCHANGED <<slot, grace>>
     /\ UNCHANGED <<status, checked_in_at, approval, verdicts, cancelKey, now, scans, faults>>

RestoreMirror(r) ==
  /\ pc[r] = "restore_mirror"
  /\ status' = [status EXCEPT ![on[r]] = "confirmed"]
  /\ Finish(r)
  /\ UNCHANGED <<slot, checked_in_at, grace, approval, verdicts, cancelKey, now, scans, faults>>

-----------------------------------------------------------------------------
(* skipOccurrence: the booking first, then its slots; approvals stay.       *)
SkipBooking(r, b) ==
  /\ status[b] # "none" /\ Series[b] # {}
  /\ status' = [status EXCEPT ![b] = "cancelled"]
  /\ Begin(r, b, "this", "skip_slots")
  /\ UNCHANGED <<slot, checked_in_at, grace, approval, verdicts, cancelKey, now, scans, faults>>

SkipSlots(r) ==
  /\ pc[r] = "skip_slots"
  /\ SetSlots(SlotsOf(on[r]), "cancelled")
  /\ Finish(r)
  /\ UNCHANGED <<status, checked_in_at, grace, approval, verdicts, cancelKey, now, scans, faults>>

-----------------------------------------------------------------------------
(* cancelOne and cancel_booking_with_cascade *)

(* The status it tests is the one of the primary slot. *)
CancelRead(r, b, sc) ==
  /\ status[b] # "none"
  /\ slot[Primary[b]] = "cancelled" => sc # "this"
  /\ sc # "this" => Series[b] # {}
  /\ Begin(r, b, sc, "cancel")
  /\ UNCHANGED <<tables, now, scans, faults>>

(* The bookings of the scope that are not terminal, and the pivot. *)
CancelSet(b, sc) ==
  {b} \cup {c \in CASE sc = "this" -> {}
                    [] sc = "this_and_following" -> Following[b]
                    [] sc = "series" -> Series[b] :
              status[c] \notin {"none", "cancelled", "released"}}

(* Mutant: the slots of an undecided booking are passed over. *)
CancellableConfirmed == {"confirmed", "checked_in"}

(* Slot statuses that are not terminal: the predicate of step 7.e. *)
Cancellable == {"pending_approval", "confirmed", "checked_in"}

(* The booking row decides: already cancelled succeeds without effect.  An  *)
(* event key that is still in the outbox makes outbox.emit raise, because   *)
(* the payload carries a new timestamp, and rolls the whole cancel back.    *)
CancelRpc(r) ==
  LET B == CancelSet(on[r], scope[r])
      S == {s \in Slots : BookingOf[s] \in B /\ slot[s] \in Cancellable}
  IN /\ pc[r] = "cancel"
     /\ IF status[on[r]] = "cancelled" \/ B \cap cancelKey # {}
        THEN UNCHANGED tables
        ELSE /\ SetSlots(S, "cancelled")
             /\ grace' = grace \cup S
             /\ status' = [b \in Bookings |-> IF b \in B THEN "cancelled" ELSE status[b]]
             /\ approval' = [b \in Bookings |->
                               IF b \in B /\ approval[b] = "pending"
                               THEN "expired" ELSE approval[b]]
             /\ cancelKey' = cancelKey \cup B
             /\ UNCHANGED <<checked_in_at, verdicts>>
     /\ Finish(r)
     /\ UNCHANGED <<now, scans, faults>>

-----------------------------------------------------------------------------
(* cancel_order_lines_with_cascade: services of a booking are cancelled,    *)
(* and with them approvals that still wait, the room approval included.     *)

Expire(b) ==
  approval' = [approval EXCEPT ![b] = IF @ = "pending" THEN "expired" ELSE @]

(* cancelLine, when the scope of the approval has become empty, and         *)
(* cancelBundle with a line to keep or a fulfilled one: the room stays as   *)
(* it is, even if it waits.                                                 *)
CancelLine(b) ==
  /\ approval[b] = "pending"
  /\ Expire(b)
  /\ Strand(b)
  /\ UNCHANGED <<status, slot, checked_in_at, grace, verdict, cancelKey, now,
                 requests, scans, faults>>

(* cancelBundle of everything closes the booking too, whatever its status,  *)
(* and gives its slots no grace window.                                     *)
CancelBundle(b) ==
  /\ status[b] # "none"
  /\ Expire(b)
  /\ SetSlots({s \in SlotsOf(b) : slot[s] \in Cancellable}, "cancelled")
  /\ status' = [status EXCEPT ![b] = "cancelled"]
  /\ UNCHANGED <<checked_in_at, grace, verdicts, cancelKey, now, requests, scans,
                 faults>>

-----------------------------------------------------------------------------
(* autoReleaseScan *)

NoShow(s) == s \in CheckInRequired /\ slot[s] = "confirmed" /\ s \notin checked_in_at

(* The scan looks back one day: older no-shows are "past". *)
DueSlots == {s \in Slots : NoShow(s) /\ Phase(BookingOf[s]) = "due"}

(* Rows that the query may return though their grace has not passed. *)
StartedSlots == {s \in Slots : NoShow(s) /\ Phase(BookingOf[s]) = "open"}

(* One page, in no particular order; a scan that finds nothing due returns  *)
(* at once.                                                                 *)
ScanSelect(n) ==
  /\ due[n] = {} /\ mirror[n] = NoSlot
  /\ \E D \in SUBSET DueSlots :
       /\ D # {} /\ Cardinality(D) <= ScanLimit
       /\ D # DueSlots => Cardinality(D \cup StartedSlots) >= ScanLimit
       /\ due' = [due EXCEPT ![n] = D]
  /\ UNCHANGED <<tables, mirror, now, requests, faults>>

(* Mutant: the update selects by id alone. *)
ReleasableById(s) == slot[s] # "none"

(* Mutant: the booking must be confirmed as well. *)
ReleasableByBooking(s) ==
  slot[s] = "confirmed" /\ s \notin checked_in_at /\ status[BookingOf[s]] = "confirmed"

(* What the update tests again: .eq(status).is(checked_in_at, null). *)
Releasable(s) == slot[s] = "confirmed" /\ s \notin checked_in_at

ReleaseSlot(n, s) ==
  /\ mirror[n] = NoSlot /\ s \in due[n]
  /\ due' = [due EXCEPT ![n] = @ \ {s}]
  /\ IF Releasable(s)
     THEN SetSlots({s}, "released") /\ mirror' = [mirror EXCEPT ![n] = s]
     ELSE UNCHANGED <<slot, mirror>>
  /\ UNCHANGED <<status, checked_in_at, grace, approval, verdicts, cancelKey, now,
                 requests, faults>>

ReleaseMirror(n) ==
  /\ mirror[n] # NoSlot
  /\ status' = [status EXCEPT ![BookingOf[mirror[n]]] = "released"]
  /\ mirror' = [mirror EXCEPT ![n] = NoSlot]
  /\ UNCHANGED <<slot, checked_in_at, grace, approval, verdicts, cancelKey, due, now,
                 requests, faults>>

-----------------------------------------------------------------------------
(* A service call dies between two statements, or its mirror update fails,  *)
(* which nothing checks; a scan's instance dies.                            *)
RequestDies(r) ==
  /\ pc[r] # "idle" /\ faults < MaxFaults
  /\ faults' = faults + 1
  /\ IF pc[r] = "fan_out" THEN Strand(on[r]) ELSE UNCHANGED stranded
  /\ Finish(r)
  /\ UNCHANGED <<status, slot, checked_in_at, grace, approval, verdict, cancelKey, now,
                 scans>>

ScanDies(n) ==
  /\ due[n] # {} \/ mirror[n] # NoSlot
  /\ faults < MaxFaults
  /\ faults' = faults + 1
  /\ due' = [due EXCEPT ![n] = {}]
  /\ mirror' = [mirror EXCEPT ![n] = NoSlot]
  /\ UNCHANGED <<tables, now, requests>>

-----------------------------------------------------------------------------
Tick ==
  /\ now < Horizon
  /\ now' = now + 1
  /\ UNCHANGED <<tables, requests, scans, faults>>

(* Slots cancelled together share their window, and only the one of the     *)
(* primary slot is ever read.                                               *)
GraceExpires(b) ==
  /\ grace \cap SlotsOf(b) # {}
  /\ grace' = grace \ SlotsOf(b)
  /\ UNCHANGED <<status, slot, checked_in_at, approval, verdicts, cancelKey, now,
                 requests, scans, faults>>

(* purgeProcessed of the outbox forgets the event key. *)
KeyPurged(b) ==
  /\ b \in cancelKey
  /\ cancelKey' = cancelKey \ {b}
  /\ UNCHANGED <<status, slot, checked_in_at, grace, approval, verdicts, now, requests,
                 scans, faults>>

-----------------------------------------------------------------------------
BookingStep(b) ==
  \/ CancelLine(b)
  \/ CancelBundle(b)
  \/ \E decision \in {"approved", "rejected"} : Decide(b, decision)
  \/ GraceExpires(b)
  \/ KeyPurged(b)

RequestBegins(r, b) ==
  \/ \E st \in {"confirmed", "pending_approval"}, planned \in BOOLEAN : Create(r, b, st, planned)
  \/ Replay(r, b)
  \/ CheckInRead(r, b)
  \/ RestoreRead(r, b)
  \/ SkipBooking(r, b)
  \/ \E sc \in Scopes : CancelRead(r, b, sc)

RequestStep(r) ==
  \/ FanOut(r)
  \/ CheckInWrite(r) \/ CheckInMirror(r)
  \/ RestoreCheck(r) \/ RestoreSlots(r) \/ RestoreMirror(r)
  \/ SkipSlots(r)
  \/ CancelRpc(r)

ScanStep(n) ==
  \/ ScanSelect(n)
  \/ \E s \in Slots : ReleaseSlot(n, s)
  \/ ReleaseMirror(n)

Next ==
  \/ \E b \in Bookings : BookingStep(b)
  \/ \E r \in Requests, b \in Bookings : RequestBegins(r, b)
  \/ \E r \in Requests : RequestStep(r) \/ RequestDies(r)
  \/ \E n \in Scans : ScanStep(n) \/ ScanDies(n)
  \/ Tick

Spec == Init /\ [][Next]_vars

(* A live instance runs the scan every five minutes and works through it.   *)
Fairness == \A n \in Scans : WF_vars(ScanStep(n))

FairSpec == Spec /\ Fairness

-----------------------------------------------------------------------------
(* What a slot means to the users of its room, as RoomCalendar says it. *)
Promise(s) == CASE slot[s] = "pending_approval"          -> "asked"
                [] slot[s] \in {"confirmed", "checked_in"} -> "firm"
                [] OTHER                                 -> "free"

Calendar == INSTANCE RoomCalendar
              WITH promise <- [s \in Slots |-> Promise(s)], verdict <- verdict

-----------------------------------------------------------------------------
(* Properties *)

(* The bookings implement RoomCalendar: whatever services write statement   *)
(* by statement on reads that have grown stale, each write of a slot is one *)
(* of its moves, made by a booking that is entitled to it.                  *)
ImplementsCalendar == Calendar!Spec

(* Every variable has its type: the status columns keep to the enums of     *)
(* 00277 and the locals of the service calls to bookings and slots.         *)
TypeOK ==
  /\ status \in [Bookings -> Statuses]
  /\ slot \in [Slots -> Statuses]
  /\ checked_in_at \in SUBSET Slots
  /\ grace \in SUBSET Slots
  /\ approval \in [Bookings -> {"none", "pending", "approved", "rejected", "expired"}]
  /\ verdict \in [Bookings -> {"none", "open", "approved", "rejected"}]
  /\ stranded \in SUBSET Bookings
  /\ now \in Nat
  /\ cancelKey \in SUBSET Bookings
  /\ pc \in [Requests -> PCs]
  /\ on \in [Requests -> Bookings \cup {NoBooking}]
  /\ scope \in [Requests -> Scopes]
  /\ due \in [Scans -> SUBSET Slots]
  /\ mirror \in [Scans -> Slots \cup {NoSlot}]
  /\ faults \in 0..MaxFaults
  /\ \A r \in Requests : pc[r] # "idle" => on[r] \in Bookings

Holding(s) == slot[s] \in {"pending_approval", "confirmed", "checked_in"}

(* No room is promised twice: of two slots that contend for it at most one  *)
(* is pending, confirmed or checked in, although restore and check-in write *)
(* on reads that others have made stale.                                    *)
NoDoubleBooking == \A s, t \in Slots : <<s, t>> \in Contends => ~(Holding(s) /\ Holding(t))

(* A booking whose approver rejected it while it waited never holds a room  *)
(* again: no restore, check-in, late scan or replay of its creation brings  *)
(* it back, although approval rows may be inserted for it after the fact.   *)
RejectedStaysOut ==
  \A s \in Slots : verdict[BookingOf[s]] = "rejected" => ~Holding(s)

FanOutOpen(b) == \E r \in Requests : pc[r] = "fan_out" /\ on[r] = b

(* A slot in pending_approval holds its room only while somebody can still  *)
(* decide, or the call that created it has still to name who can: cancel,   *)
(* skip, replay and the decision itself leave none behind.  What does leave *)
(* one behind is recorded: a create that dies before its approvals, a rule  *)
(* that names nobody, and services cancelled on their own (00414).          *)
PendingIsDecidable ==
  \A s \in Slots : slot[s] = "pending_approval"
    => LET b == BookingOf[s]
       IN approval[b] = "pending" \/ FanOutOpen(b) \/ b \in stranded

(* A slot whose user has checked in is never released, even by a scan that  *)
(* selected it before the check-in.                                         *)
CheckedInIsKept ==
  [][\A s \in Slots : slot[s] = "checked_in" => slot'[s] # "released"]_vars

(* A no-show gives the room back: a slot that a scan could release is       *)
(* released, or given up, or its user checks in, unless a day goes by       *)
(* without that, after which no scan looks at it.                           *)
NoShowReleases ==
  \A s \in CheckInRequired : s \in DueSlots ~> s \notin DueSlots
=============================================================================
