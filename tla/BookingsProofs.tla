--------------------------- MODULE BookingsProofs ---------------------------
(***************************************************************************)
(* Safety of the booking tables for every set of bookings, slots, requests *)
(* and scans: no room is promised twice, a rejected booking stays out, and *)
(* what leaves a slot waiting for nobody is known.                         *)
(*                                                                         *)
(* NoDoubleBooking is inductive given the types: each statement that makes *)
(* a slot hold a room either passes the constraint or finds it holding.    *)
(* The others need to know what a request can have read.  The slots of a   *)
(* booking wait together or not at all (WaitingOK), and never again once   *)
(* they have stopped; so whoever has begun to check in or to restore a     *)
(* booking has seen it past its waiting, and not rejected (RequestsOK),    *)
(* because a rejected booking shows nothing confirmed and no grace window  *)
(* (RejectedOK).  Nobody answers before the fan-out has named somebody     *)
(* (DecidableOK).                                                          *)
(***************************************************************************)
EXTENDS Bookings, TLAPS

(* A booking without a row has left no trace elsewhere. *)
FreshOK ==
  /\ \A b \in Bookings : status[b] = "none" => approval[b] = "none" /\ verdict[b] = "none"
  /\ \A s \in Slots : status[BookingOf[s]] = "none" => slot[s] = "none" /\ s \notin grace

(* Slots of a booking wait for its approval together. *)
WaitingOK ==
  \A s \in Slots : slot[s] = "pending_approval"
    => /\ verdict[BookingOf[s]] = "open"
       /\ \A t \in Slots : BookingOf[t] = BookingOf[s] => slot[t] = "pending_approval"

(* The slots of a booking that was rejected while it waited. *)
RejectedOK ==
  \A s \in Slots : verdict[BookingOf[s]] = "rejected" => slot[s] = "cancelled" /\ s \notin grace

(* A booking that waits, and was not left behind, is still undecided. *)
DecidableOK ==
  \A s \in Slots : slot[s] = "pending_approval" /\ BookingOf[s] \notin stranded
    => \/ approval[BookingOf[s]] = "pending"
       \/ approval[BookingOf[s]] = "none" /\ FanOutOpen(BookingOf[s])

(* What a request has read of its booking is past every decision. *)
RequestsOK ==
  \A r \in Requests :
    /\ pc[r] # "idle" => status[on[r]] # "none"
    /\ pc[r] \in {"check_in", "restore_check", "restore_slots"}
         => /\ verdict[on[r]] # "rejected"
            /\ \A s \in Slots : BookingOf[s] = on[r] => slot[s] # "pending_approval"

IInv ==
  /\ TypeOK
  /\ NoDoubleBooking
  /\ FreshOK
  /\ WaitingOK
  /\ RejectedOK
  /\ DecidableOK
  /\ RequestsOK

USE BookingOfAssumption, PrimaryAssumption, ContendsAssumption, SeriesAssumption,
    CheckInRequiredAssumption, ScanLimitAssumption, OpensAtAssumption, HorizonAssumption,
    MaxFaultsAssumption, NoBookingAssumption, NoSlotAssumption

(* The initial tables are empty. *)
LEMMA InitInv == Init => IInv
  BY DEF Init, IInv, TypeOK, Statuses, Scopes, PCs, NoDoubleBooking, Holding, FreshOK,
         WaitingOK, RejectedOK, DecidableOK, RequestsOK

(* A step that leaves the status columns alone. *)
LEMMA TablesKept ==
  ASSUME IInv, UNCHANGED <<status, slot, grace, approval, verdict, stranded>>,
         TypeOK', DecidableOK', RequestsOK'
  PROVE  IInv'
  BY DEF IInv, NoDoubleBooking, Holding, FreshOK, WaitingOK, RejectedOK

(* A fan-out that is still to come keeps a waiting booking decidable. *)
LEMMA FanOutKept ==
  ASSUME DecidableOK, UNCHANGED <<slot, approval>>, stranded \subseteq stranded',
         \A q \in Requests : pc[q] = "fan_out"
           => (pc'[q] = "fan_out" /\ on'[q] = on[q]) \/ on[q] \in stranded'
                \/ \A s \in Slots : BookingOf[s] = on[q] => slot[s] # "pending_approval"
  PROVE  DecidableOK'
  BY DEF DecidableOK, FanOutOpen

(* Only the constraint lets the new slots hold their rooms. *)
LEMMA CreateInv ==
  ASSUME IInv, NEW r \in Requests, NEW b \in Bookings,
         NEW st \in {"confirmed", "pending_approval"}, NEW planned \in BOOLEAN,
         Create(r, b, st, planned)
  PROVE  IInv'
<1> USE DEF IInv, TypeOK
<1>0. /\ slot' = [s \in Slots |-> IF BookingOf[s] = b THEN st ELSE slot[s]]
      /\ status' = [status EXCEPT ![b] = st]
      /\ status[b] = "none" /\ approval[b] = "none" /\ verdict[b] = "none" /\ pc[r] = "idle"
      /\ UNCHANGED <<checked_in_at, grace, stranded, cancelKey, now, due, mirror, faults>>
  BY DEF Create, SetSlots, SlotsOf, Begin, FreshOK, scans
<1>1. NoDoubleBooking'
  <2>1. \A s, t \in Slots : BookingOf[s] = b /\ <<s, t>> \in Contends
                              => ~Holding(t) /\ BookingOf[t] # b
    BY DEF Create, Admits, Conflicts, ConflictStatuses, Holding, SlotsOf
  <2> QED
    BY <1>0, <2>1 DEF NoDoubleBooking, Holding
<1>2. CASE st = "confirmed"
  <2>0. UNCHANGED <<approval, verdict, pc, on, scope>>
    BY <1>2 DEF Create, requests
  <2>1. TypeOK'
    BY <1>0, <1>2, <2>0 DEF Statuses
  <2>2. FreshOK' /\ WaitingOK' /\ RejectedOK' /\ DecidableOK' /\ RequestsOK'
    BY <1>0, <1>2, <2>0 DEF FreshOK, WaitingOK, RejectedOK, DecidableOK, FanOutOpen, RequestsOK
  <2> QED
    BY <2>1, <2>2, <1>1
<1>3. CASE st = "pending_approval"
  <2>0. /\ approval' = [approval EXCEPT ![b] = IF planned THEN "pending" ELSE "none"]
        /\ verdict' = [verdict EXCEPT ![b] = "open"]
        /\ pc' = [pc EXCEPT ![r] = "fan_out"]
        /\ on' = [on EXCEPT ![r] = b]
        /\ scope' = [scope EXCEPT ![r] = "this"]
    BY <1>3 DEF Create, Begin
  <2>1. TypeOK'
    BY <1>0, <1>3, <2>0 DEF Statuses, PCs, Scopes
  <2>2. FreshOK' /\ WaitingOK' /\ RejectedOK'
    BY <1>0, <1>3, <2>0 DEF FreshOK, WaitingOK, RejectedOK
  <2>3. DecidableOK'
    BY <1>0, <1>3, <2>0 DEF DecidableOK, FanOutOpen, FreshOK
  <2>4. RequestsOK'
    BY <1>0, <1>3, <2>0 DEF RequestsOK
  <2> QED
    BY <2>1, <2>2, <2>3, <2>4, <1>1
<1>4. QED
  BY <1>2, <1>3

(* Only a booking that exists is created again. *)
LEMMA ReplayInv ==
  ASSUME IInv, NEW r \in Requests, NEW b \in Bookings, Replay(r, b)
  PROVE  IInv'
<1> USE DEF IInv, TypeOK, Replay, Begin, tables, verdicts, requests, scans
<1>1. TypeOK'
  BY DEF PCs, Scopes
<1>2. RequestsOK'
  BY DEF RequestsOK, FreshOK, WaitingOK, RejectedOK
<1>3. DecidableOK'
  BY FanOutKept
<1>4. QED
  BY <1>1, <1>2, <1>3, TablesKept

(* The fan-out names somebody, or says that it leaves a booking behind. *)
LEMMA FanOutInv ==
  ASSUME IInv, NEW r \in Requests, FanOut(r)
  PROVE  IInv'
<1> USE DEF IInv, TypeOK
<1>0. /\ on[r] \in Bookings /\ pc[r] = "fan_out" /\ status[on[r]] # "none"
      /\ UNCHANGED <<status, slot, checked_in_at, grace, verdict, cancelKey, now, due, mirror, faults>>
      /\ Finish(r)
  BY DEF FanOut, RequestsOK, scans
<1>1. approval' \in [Bookings -> {"none", "pending", "approved", "rejected", "expired"}]
      /\ stranded' \in SUBSET Bookings
      /\ \A b \in Bookings : b # on[r] => approval'[b] = approval[b]
  BY <1>0 DEF FanOut, Strand
<1>2. TypeOK'
  BY <1>0, <1>1 DEF Finish, PCs, Scopes
<1>3. NoDoubleBooking' /\ FreshOK' /\ WaitingOK' /\ RejectedOK'
  BY <1>0, <1>1 DEF NoDoubleBooking, Holding, FreshOK, WaitingOK, RejectedOK
<1>4. RequestsOK'
  BY <1>0 DEF RequestsOK, Finish
<1>5. DecidableOK'
  <2>1. CASE approval' = [approval EXCEPT ![on[r]] = "pending"] /\ UNCHANGED stranded
    BY <1>0, <2>1 DEF DecidableOK, FanOutOpen, Finish
  <2>2. CASE /\ IF approval[on[r]] = "none" THEN Strand(on[r]) ELSE UNCHANGED stranded
             /\ UNCHANGED approval
    <3>1. CASE approval[on[r]] = "none"
      <4>1. stranded \subseteq stranded'
        BY <2>2, <3>1 DEF Strand
      <4>2. on[r] \in stranded' \/ \A s \in Slots : BookingOf[s] = on[r] => slot[s] # "pending_approval"
        BY <2>2, <3>1 DEF Strand, Waiting, SlotsOf
      <4>3. \A q \in Requests : q # r => pc'[q] = pc[q] /\ on'[q] = on[q]
        BY <1>0 DEF Finish
      <4> QED
        BY <1>0, <2>2, <4>1, <4>2, <4>3, FanOutKept
    <3>2. CASE approval[on[r]] # "none"
      BY <1>0, <2>2, <3>2 DEF DecidableOK, FanOutOpen, Finish
    <3> QED
      BY <3>1, <3>2
  <2> QED
    BY <2>1, <2>2 DEF FanOut
<1>6. QED
  BY <1>2, <1>3, <1>4, <1>5

(* A decision confirms only slots that held their rooms already. *)
LEMMA DecideInv ==
  ASSUME IInv, NEW b \in Bookings, NEW decision \in {"approved", "rejected"}, Decide(b, decision)
  PROVE  IInv'
<1> USE DEF IInv, TypeOK, Decide, SetSlots, RejectedGrace, Waiting, SlotsOf,
            tables, verdicts, requests, scans
<1>1. TypeOK'
  BY DEF Statuses, Scopes, PCs
<1>2. NoDoubleBooking'
  BY DEF NoDoubleBooking, Holding, Cancellable
<1>3. FreshOK'
  BY DEF FreshOK
<1>4. WaitingOK'
  BY DEF WaitingOK, FreshOK, RequestsOK
<1>5. RejectedOK'
  BY DEF RejectedOK, FreshOK, RequestsOK, WaitingOK
<1>6. DecidableOK'
  BY DEF DecidableOK, FanOutOpen, FreshOK, Cancellable
<1>7. RequestsOK'
  BY DEF RequestsOK, FreshOK, WaitingOK, RejectedOK
<1>8. QED
  BY <1>1, <1>2, <1>3, <1>4, <1>5, <1>6, <1>7

(* A confirmed slot belongs to a decided booking. *)
LEMMA CheckInReadInv ==
  ASSUME IInv, NEW r \in Requests, NEW b \in Bookings, CheckInRead(r, b)
  PROVE  IInv'
<1> USE DEF IInv, TypeOK, CheckInRead, Begin, tables, verdicts, requests, scans
<1>1. TypeOK'
  BY DEF PCs, Scopes
<1>2. RequestsOK'
  BY DEF RequestsOK, FreshOK, WaitingOK, RejectedOK
<1>3. DecidableOK'
  BY FanOutKept
<1>4. QED
  BY <1>1, <1>2, <1>3, TablesKept

(* The check-in of a stale request passes the constraint or fails. *)
LEMMA CheckInWriteInv ==
  ASSUME IInv, NEW r \in Requests, CheckInWrite(r)
  PROVE  IInv'
<1> USE DEF IInv, TypeOK
<1> DEFINE p == Primary[on[r]]
<1>0. on[r] \in Bookings /\ p \in Slots /\ BookingOf[p] = on[r] /\ status[on[r]] # "none"
      /\ verdict[on[r]] # "rejected" /\ pc[r] = "check_in"
      /\ \A s \in Slots : BookingOf[s] = on[r] => slot[s] # "pending_approval"
  BY DEF RequestsOK, CheckInWrite
<1>1. UNCHANGED <<status, grace, approval, verdict, stranded, cancelKey, now, due, mirror, faults>>
  BY DEF CheckInWrite, scans, verdicts
<1>2. CASE ~Admits({p})
  <2>1. UNCHANGED <<slot, checked_in_at>> /\ Finish(r)
    BY <1>2 DEF CheckInWrite
  <2>2. TypeOK' /\ RequestsOK'
    BY <1>1, <2>1 DEF Finish, RequestsOK, PCs, Scopes
  <2>3. DecidableOK'
    BY <1>0, <1>1, <2>1, FanOutKept DEF Finish
  <2>4. QED
    BY <1>1, <2>1, <2>2, <2>3, TablesKept
<1>3. CASE Admits({p})
  <2>1. /\ slot' = [s \in Slots |-> IF s = p THEN "checked_in" ELSE slot[s]]
        /\ checked_in_at' = checked_in_at \cup {p}
        /\ Goto(r, "check_in_mirror")
    BY <1>3 DEF CheckInWrite, SetSlots
  <2>2. TypeOK' /\ RequestsOK'
    BY <1>0, <1>1, <2>1 DEF Goto, RequestsOK, PCs, Statuses
  <2>3. \A t \in Slots : <<p, t>> \in Contends => ~Holding(t) /\ t # p
    BY <1>3 DEF Admits, Conflicts, ConflictStatuses, Holding
  <2>4. NoDoubleBooking'
    BY <1>0, <2>1, <2>3 DEF NoDoubleBooking, Holding
  <2>5. FreshOK' /\ WaitingOK' /\ RejectedOK' /\ DecidableOK'
    BY <1>0, <1>1, <2>1 DEF FreshOK, WaitingOK, RejectedOK, DecidableOK, FanOutOpen, Goto
  <2>6. QED
    BY <2>2, <2>4, <2>5
<1>4. QED
  BY <1>2, <1>3

(* The mirror touches only the booking row. *)
LEMMA CheckInMirrorInv ==
  ASSUME IInv, NEW r \in Requests, CheckInMirror(r)
  PROVE  IInv'
<1> USE DEF IInv, TypeOK, CheckInMirror, Finish, tables, verdicts, requests, scans
<1>1. TypeOK'
  BY DEF Statuses, Scopes, PCs
<1>2. NoDoubleBooking'
  BY DEF NoDoubleBooking, Holding, Cancellable
<1>3. FreshOK'
  BY DEF FreshOK
<1>4. WaitingOK'
  BY DEF WaitingOK, FreshOK, RequestsOK
<1>5. RejectedOK'
  BY DEF RejectedOK, FreshOK, RequestsOK, WaitingOK
<1>6. DecidableOK'
  BY DEF DecidableOK, FanOutOpen, FreshOK, Cancellable
<1>7. RequestsOK'
  BY DEF RequestsOK, FreshOK, WaitingOK, RejectedOK
<1>8. QED
  BY <1>1, <1>2, <1>3, <1>4, <1>5, <1>6, <1>7

(* An open grace window belongs to a decided booking. *)
LEMMA RestoreReadInv ==
  ASSUME IInv, NEW r \in Requests, NEW b \in Bookings, RestoreRead(r, b)
  PROVE  IInv'
<1> USE DEF IInv, TypeOK, RestoreRead, Begin, tables, verdicts, requests, scans
<1>1. TypeOK'
  BY DEF PCs, Scopes
<1>2. RequestsOK'
  BY DEF RequestsOK, FreshOK, WaitingOK, RejectedOK
<1>3. DecidableOK'
  BY FanOutKept
<1>4. QED
  BY <1>1, <1>2, <1>3, TablesKept

(* The preCheck changes no row. *)
LEMMA RestoreCheckInv ==
  ASSUME IInv, NEW r \in Requests, RestoreCheck(r)
  PROVE  IInv'
<1> USE DEF IInv, TypeOK
<1>1. UNCHANGED <<tables, now, due, mirror, faults>> /\ pc[r] = "restore_check"
      /\ \A q \in Requests : q # r => pc'[q] = pc[q] /\ on'[q] = on[q]
  BY DEF RestoreCheck, Goto, Finish, scans
<1>2. TypeOK' /\ RequestsOK'
  <2>1. CASE Goto(r, "restore_slots")
    BY <1>1, <2>1 DEF Goto, RequestsOK, PCs, tables, verdicts
  <2>2. CASE Finish(r)
    BY <1>1, <2>2 DEF Finish, RequestsOK, PCs, Scopes, tables, verdicts
  <2>3. QED
    BY <2>1, <2>2 DEF RestoreCheck
<1>3. DecidableOK'
  BY <1>1, FanOutKept DEF tables, verdicts
<1>4. QED
  BY <1>1, <1>2, <1>3, TablesKept DEF tables, verdicts

(* The restored slots pass the constraint, all of them or none. *)
LEMMA RestoreSlotsInv ==
  ASSUME IInv, NEW r \in Requests, RestoreSlots(r)
  PROVE  IInv'
<1> USE DEF IInv, TypeOK
<1> DEFINE S == SlotsOf(on[r])
<1>0. on[r] \in Bookings /\ status[on[r]] # "none" /\ verdict[on[r]] # "rejected"
      /\ pc[r] = "restore_slots"
      /\ \A s \in Slots : BookingOf[s] = on[r] => slot[s] # "pending_approval"
  BY DEF RequestsOK, RestoreSlots
<1>1. UNCHANGED <<status, checked_in_at, approval, verdict, stranded, cancelKey, now, due, mirror,
                  faults>>
  BY DEF RestoreSlots, scans, verdicts
<1>2. CASE ~Admits(S)
  <2>1. UNCHANGED <<slot, grace>> /\ Finish(r)
    BY <1>2 DEF RestoreSlots
  <2>2. TypeOK' /\ RequestsOK'
    BY <1>1, <2>1 DEF Finish, RequestsOK, PCs, Scopes
  <2>3. DecidableOK'
    BY <1>0, <1>1, <2>1, FanOutKept DEF Finish
  <2>4. QED
    BY <1>1, <2>1, <2>2, <2>3, TablesKept
<1>3. CASE Admits(S)
  <2>1. /\ slot' = [s \in Slots |-> IF s \in S THEN "confirmed" ELSE slot[s]]
        /\ grace' = grace \ S
        /\ Goto(r, "restore_mirror")
    BY <1>3 DEF RestoreSlots, SetSlots
  <2>2. TypeOK' /\ RequestsOK'
    BY <1>0, <1>1, <2>1 DEF Goto, RequestsOK, PCs, Statuses
  <2>3. \A s \in S, t \in Slots : <<s, t>> \in Contends => ~Holding(t) /\ t \notin S
    BY <1>3 DEF Admits, Conflicts, ConflictStatuses, Holding
  <2>4. NoDoubleBooking'
    BY <2>1, <2>3 DEF NoDoubleBooking, Holding
  <2>5. FreshOK' /\ WaitingOK' /\ RejectedOK' /\ DecidableOK'
    BY <1>0, <1>1, <2>1 DEF FreshOK, WaitingOK, RejectedOK, DecidableOK, FanOutOpen, SlotsOf, Goto
  <2>6. QED
    BY <2>2, <2>4, <2>5
<1>4. QED
  BY <1>2, <1>3

(* The mirror touches only the booking row. *)
LEMMA RestoreMirrorInv ==
  ASSUME IInv, NEW r \in Requests, RestoreMirror(r)
  PROVE  IInv'
<1> USE DEF IInv, TypeOK, RestoreMirror, Finish, tables, verdicts, requests, scans
<1>1. TypeOK'
  BY DEF Statuses, Scopes, PCs
<1>2. NoDoubleBooking'
  BY DEF NoDoubleBooking, Holding, Cancellable
<1>3. FreshOK'
  BY DEF FreshOK
<1>4. WaitingOK'
  BY DEF WaitingOK, FreshOK, RequestsOK
<1>5. RejectedOK'
  BY DEF RejectedOK, FreshOK, RequestsOK, WaitingOK
<1>6. DecidableOK'
  BY DEF DecidableOK, FanOutOpen, FreshOK, Cancellable
<1>7. RequestsOK'
  BY DEF RequestsOK, FreshOK, WaitingOK, RejectedOK
<1>8. QED
  BY <1>1, <1>2, <1>3, <1>4, <1>5, <1>6, <1>7

(* Skipping starts with a booking that exists. *)
LEMMA SkipBookingInv ==
  ASSUME IInv, NEW r \in Requests, NEW b \in Bookings, SkipBooking(r, b)
  PROVE  IInv'
<1> USE DEF IInv, TypeOK, SkipBooking, Begin, tables, verdicts, requests, scans
<1>1. TypeOK'
  BY DEF Statuses, Scopes, PCs
<1>2. NoDoubleBooking'
  BY DEF NoDoubleBooking, Holding, Cancellable
<1>3. FreshOK'
  BY DEF FreshOK
<1>4. WaitingOK'
  BY DEF WaitingOK, FreshOK, RequestsOK
<1>5. RejectedOK'
  BY DEF RejectedOK, FreshOK, RequestsOK, WaitingOK
<1>6. DecidableOK'
  BY DEF DecidableOK, FanOutOpen, FreshOK, Cancellable
<1>7. RequestsOK'
  BY DEF RequestsOK, FreshOK, WaitingOK, RejectedOK
<1>8. QED
  BY <1>1, <1>2, <1>3, <1>4, <1>5, <1>6, <1>7

(* Skipped slots hold no room. *)
LEMMA SkipSlotsInv ==
  ASSUME IInv, NEW r \in Requests, SkipSlots(r)
  PROVE  IInv'
<1> USE DEF IInv, TypeOK, SkipSlots, SetSlots, Finish, SlotsOf, tables, verdicts, requests, scans
<1>1. TypeOK'
  BY DEF Statuses, Scopes, PCs
<1>2. NoDoubleBooking'
  BY DEF NoDoubleBooking, Holding, Cancellable
<1>3. FreshOK'
  BY DEF FreshOK, RequestsOK
<1>4. WaitingOK'
  BY DEF WaitingOK, FreshOK, RequestsOK
<1>5. RejectedOK'
  BY DEF RejectedOK, FreshOK, RequestsOK, WaitingOK
<1>6. DecidableOK'
  BY DEF DecidableOK, FanOutOpen, FreshOK, Cancellable
<1>7. RequestsOK'
  BY DEF RequestsOK, FreshOK, WaitingOK, RejectedOK
<1>8. QED
  BY <1>1, <1>2, <1>3, <1>4, <1>5, <1>6, <1>7

(* Cancelling starts with a booking that exists. *)
LEMMA CancelReadInv ==
  ASSUME IInv, NEW r \in Requests, NEW b \in Bookings, NEW sc \in Scopes, CancelRead(r, b, sc)
  PROVE  IInv'
<1> USE DEF IInv, TypeOK, CancelRead, Begin, tables, verdicts, requests, scans
<1>1. TypeOK'
  BY DEF PCs, Scopes
<1>2. RequestsOK'
  BY DEF RequestsOK, FreshOK, WaitingOK, RejectedOK
<1>3. DecidableOK'
  BY FanOutKept
<1>4. QED
  BY <1>1, <1>2, <1>3, TablesKept

(* A cancel frees rooms and closes the approvals it leaves behind. *)
LEMMA CancelRpcInv ==
  ASSUME IInv, NEW r \in Requests, CancelRpc(r)
  PROVE  IInv'
<1> USE DEF IInv, TypeOK
<1> DEFINE B == CancelSet(on[r], scope[r])
           S == {s \in Slots : BookingOf[s] \in B /\ slot[s] \in Cancellable}
<1>0. on[r] \in Bookings /\ pc[r] = "cancel"
  BY DEF CancelRpc
<1>1. UNCHANGED <<checked_in_at, now, due, mirror, faults>> /\ Finish(r)
  BY DEF CancelRpc, scans, tables
<1>2. CASE UNCHANGED tables
  <2>1. TypeOK' /\ RequestsOK'
    BY <1>1, <1>2 DEF Finish, RequestsOK, PCs, Scopes, tables, verdicts
  <2>2. DecidableOK'
    BY <1>0, <1>1, <1>2, FanOutKept DEF Finish, tables, verdicts
  <2>3. QED
    BY <1>2, <2>1, <2>2, TablesKept DEF tables, verdicts
<1>3. CASE ~UNCHANGED tables
  <2>1. /\ slot' = [s \in Slots |-> IF s \in S THEN "cancelled" ELSE slot[s]]
        /\ grace' = grace \cup S
        /\ status' = [b \in Bookings |-> IF b \in B THEN "cancelled" ELSE status[b]]
        /\ approval' = [b \in Bookings |-> IF b \in B /\ approval[b] = "pending"
                                           THEN "expired" ELSE approval[b]]
        /\ cancelKey' = cancelKey \cup B
        /\ UNCHANGED <<verdict, stranded>>
    BY <1>3 DEF CancelRpc, SetSlots, verdicts
  <2>2. B \subseteq Bookings /\ \A b \in B : b = on[r] \/ status[b] # "none"
    BY <1>0 DEF CancelSet, Scopes
  <2>3. TypeOK' /\ RequestsOK'
    <3>1. TypeOK'
      BY <1>1, <2>1, <2>2 DEF Finish, PCs, Scopes, Statuses
    <3>2. RequestsOK'
      BY <1>1, <2>1, <2>2 DEF Finish, RequestsOK
    <3>3. QED
      BY <3>1, <3>2
  <2>4. NoDoubleBooking'
    BY <2>1 DEF NoDoubleBooking, Holding
  <2>5. FreshOK'
    BY <2>1 DEF FreshOK
  <2>6. WaitingOK'
    BY <2>1 DEF WaitingOK, Cancellable
  <2>7. RejectedOK'
    BY <2>1 DEF RejectedOK, Cancellable
  <2>8. DecidableOK'
    BY <1>0, <1>1, <2>1 DEF DecidableOK, FanOutOpen, Cancellable, Finish
  <2>9. QED
    BY <2>3, <2>4, <2>5, <2>6, <2>7, <2>8
<1>4. QED
  BY <1>2, <1>3

(* Expired approvals leave a waiting booking behind, openly. *)
LEMMA CancelLineInv ==
  ASSUME IInv, NEW b \in Bookings, CancelLine(b)
  PROVE  IInv'
<1> USE DEF IInv, TypeOK, CancelLine, Expire, Strand, Waiting, SlotsOf, tables, verdicts, requests, scans
<1>1. TypeOK'
  BY DEF Statuses, Scopes, PCs
<1>2. NoDoubleBooking'
  BY DEF NoDoubleBooking, Holding, Cancellable
<1>3. FreshOK'
  BY DEF FreshOK
<1>4. WaitingOK'
  BY DEF WaitingOK, FreshOK, RequestsOK
<1>5. RejectedOK'
  BY DEF RejectedOK, FreshOK, RequestsOK, WaitingOK
<1>6. DecidableOK'
  BY DEF DecidableOK, FanOutOpen, FreshOK, Cancellable
<1>7. RequestsOK'
  BY DEF RequestsOK, FreshOK, WaitingOK, RejectedOK
<1>8. QED
  BY <1>1, <1>2, <1>3, <1>4, <1>5, <1>6, <1>7

(* A booking closed with its services waits no more. *)
LEMMA CancelBundleInv ==
  ASSUME IInv, NEW b \in Bookings, CancelBundle(b)
  PROVE  IInv'
<1> USE DEF IInv, TypeOK, CancelBundle, Expire, SetSlots, SlotsOf, tables, verdicts, requests, scans
<1>1. TypeOK'
  BY DEF Statuses, Scopes, PCs
<1>2. NoDoubleBooking'
  BY DEF NoDoubleBooking, Holding, Cancellable
<1>3. FreshOK'
  BY DEF FreshOK
<1>4. WaitingOK'
  BY DEF WaitingOK, Cancellable, FreshOK, RequestsOK
<1>5. RejectedOK'
  BY DEF RejectedOK, FreshOK, RequestsOK, WaitingOK
<1>6. DecidableOK'
  BY DEF DecidableOK, FanOutOpen, FreshOK, Cancellable
<1>7. RequestsOK'
  BY DEF RequestsOK, FreshOK, WaitingOK, RejectedOK
<1>8. QED
  BY <1>1, <1>2, <1>3, <1>4, <1>5, <1>6, <1>7

(* Selecting changes no row. *)
LEMMA ScanSelectInv ==
  ASSUME IInv, NEW n \in Scans, ScanSelect(n)
  PROVE  IInv'
<1> USE DEF IInv, TypeOK, ScanSelect, DueSlots, tables, verdicts, requests, scans
<1>1. TypeOK'
  BY DEF PCs, Scopes
<1>2. RequestsOK'
  BY DEF RequestsOK, FreshOK, WaitingOK, RejectedOK
<1>3. DecidableOK'
  BY FanOutKept
<1>4. QED
  BY <1>1, <1>2, <1>3, TablesKept

(* A released slot was confirmed, so its booking is decided. *)
LEMMA ReleaseSlotInv ==
  ASSUME IInv, NEW n \in Scans, NEW s \in Slots, ReleaseSlot(n, s)
  PROVE  IInv'
<1> USE DEF IInv, TypeOK, ReleaseSlot, SetSlots, Releasable, tables, verdicts, requests, scans
<1>1. TypeOK'
  BY DEF Statuses, Scopes, PCs
<1>2. NoDoubleBooking'
  BY DEF NoDoubleBooking, Holding, Cancellable
<1>3. FreshOK'
  BY DEF FreshOK
<1>4. WaitingOK'
  BY DEF WaitingOK, FreshOK, RequestsOK
<1>5. RejectedOK'
  BY DEF RejectedOK, FreshOK, RequestsOK, WaitingOK
<1>6. DecidableOK'
  BY DEF DecidableOK, FanOutOpen, FreshOK, Cancellable
<1>7. RequestsOK'
  BY DEF RequestsOK, FreshOK, WaitingOK, RejectedOK
<1>8. QED
  BY <1>1, <1>2, <1>3, <1>4, <1>5, <1>6, <1>7

(* The mirror touches only the booking row. *)
LEMMA ReleaseMirrorInv ==
  ASSUME IInv, NEW n \in Scans, ReleaseMirror(n)
  PROVE  IInv'
<1> USE DEF IInv, TypeOK, ReleaseMirror, tables, verdicts, requests, scans
<1>1. TypeOK'
  BY DEF Statuses, Scopes, PCs
<1>2. NoDoubleBooking'
  BY DEF NoDoubleBooking, Holding, Cancellable
<1>3. FreshOK'
  BY DEF FreshOK
<1>4. WaitingOK'
  BY DEF WaitingOK, FreshOK, RequestsOK
<1>5. RejectedOK'
  BY DEF RejectedOK, FreshOK, RequestsOK, WaitingOK
<1>6. DecidableOK'
  BY DEF DecidableOK, FanOutOpen, FreshOK, Cancellable
<1>7. RequestsOK'
  BY DEF RequestsOK, FreshOK, WaitingOK, RejectedOK
<1>8. QED
  BY <1>1, <1>2, <1>3, <1>4, <1>5, <1>6, <1>7

(* A dead request leaves the tables as they are; one that was to name the   *)
(* approvers leaves its booking behind.                                     *)
LEMMA RequestDiesInv ==
  ASSUME IInv, NEW r \in Requests, RequestDies(r)
  PROVE  IInv'
<1> USE DEF IInv, TypeOK
<1>0. /\ on[r] \in Bookings /\ pc[r] # "idle" /\ status[on[r]] # "none"
      /\ UNCHANGED <<status, slot, checked_in_at, grace, approval, verdict, cancelKey, now, due, mirror>>
      /\ faults' \in 0..MaxFaults /\ Finish(r)
  BY DEF RequestDies, RequestsOK, scans
<1>1. /\ stranded' \in SUBSET Bookings /\ stranded \subseteq stranded'
      /\ pc[r] = "fan_out"
           => on[r] \in stranded' \/ \A s \in Slots : BookingOf[s] = on[r] => slot[s] # "pending_approval"
  BY <1>0 DEF RequestDies, Strand, Waiting, SlotsOf
<1>2. TypeOK'
  BY <1>0, <1>1 DEF Finish, PCs, Scopes
<1>3. NoDoubleBooking' /\ FreshOK' /\ WaitingOK' /\ RejectedOK'
  BY <1>0 DEF NoDoubleBooking, Holding, FreshOK, WaitingOK, RejectedOK
<1>4. RequestsOK'
  BY <1>0 DEF RequestsOK, Finish
<1>5. \A q \in Requests : q # r => pc'[q] = pc[q] /\ on'[q] = on[q]
  BY <1>0 DEF Finish
<1>6. DecidableOK'
  BY <1>0, <1>1, <1>5, FanOutKept
<1>7. QED
  BY <1>2, <1>3, <1>4, <1>6

(* A dead scan leaves the tables as they are. *)
LEMMA ScanDiesInv ==
  ASSUME IInv, NEW n \in Scans, ScanDies(n)
  PROVE  IInv'
<1> USE DEF IInv, TypeOK, ScanDies, tables, verdicts, requests, scans
<1>1. TypeOK'
  BY DEF PCs, Scopes
<1>2. RequestsOK'
  BY DEF RequestsOK, FreshOK, WaitingOK, RejectedOK
<1>3. DecidableOK'
  BY FanOutKept
<1>4. QED
  BY <1>1, <1>2, <1>3, TablesKept

(* Time touches no table. *)
LEMMA TickInv ==
  ASSUME IInv, Tick
  PROVE  IInv'
<1> USE DEF IInv, TypeOK, Tick, tables, verdicts, requests, scans
<1>1. TypeOK'
  BY DEF PCs, Scopes
<1>2. RequestsOK'
  BY DEF RequestsOK, FreshOK, WaitingOK, RejectedOK
<1>3. DecidableOK'
  BY FanOutKept
<1>4. QED
  BY <1>1, <1>2, <1>3, TablesKept

(* An expired window was open. *)
LEMMA GraceExpiresInv ==
  ASSUME IInv, NEW b \in Bookings, GraceExpires(b)
  PROVE  IInv'
<1> USE DEF IInv, TypeOK, GraceExpires, SlotsOf, tables, verdicts, requests, scans
<1>1. TypeOK'
  BY DEF Statuses, Scopes, PCs
<1>2. NoDoubleBooking'
  BY DEF NoDoubleBooking, Holding, Cancellable
<1>3. FreshOK'
  BY DEF FreshOK
<1>4. WaitingOK'
  BY DEF WaitingOK, FreshOK, RequestsOK
<1>5. RejectedOK'
  BY DEF RejectedOK, FreshOK, RequestsOK, WaitingOK
<1>6. DecidableOK'
  BY DEF DecidableOK, FanOutOpen, FreshOK, Cancellable
<1>7. RequestsOK'
  BY DEF RequestsOK, FreshOK, WaitingOK, RejectedOK
<1>8. QED
  BY <1>1, <1>2, <1>3, <1>4, <1>5, <1>6, <1>7

(* The outbox is not one of the booking tables. *)
LEMMA KeyPurgedInv ==
  ASSUME IInv, NEW b \in Bookings, KeyPurged(b)
  PROVE  IInv'
<1> USE DEF IInv, TypeOK, KeyPurged, tables, verdicts, requests, scans
<1>1. TypeOK'
  BY DEF PCs, Scopes
<1>2. RequestsOK'
  BY DEF RequestsOK, FreshOK, WaitingOK, RejectedOK
<1>3. DecidableOK'
  BY FanOutKept
<1>4. QED
  BY <1>1, <1>2, <1>3, TablesKept

(* Doing nothing keeps the invariant. *)
LEMMA StutterInv ==
  ASSUME IInv, UNCHANGED vars
  PROVE  IInv'
<1>1. TypeOK' /\ RequestsOK' /\ DecidableOK'
  BY DEF IInv, TypeOK, RequestsOK, DecidableOK, FanOutOpen, vars, tables, verdicts, requests, scans
<1>2. QED
  BY <1>1, TablesKept DEF vars, tables, verdicts

(* Each action keeps the invariant. *)
LEMMA NextInv ==
  ASSUME IInv, Next
  PROVE  IInv'
<1>1. CASE \E b \in Bookings : BookingStep(b)
  BY <1>1, CancelLineInv, CancelBundleInv, DecideInv, GraceExpiresInv, KeyPurgedInv DEF BookingStep
<1>2. CASE \E r \in Requests, b \in Bookings : RequestBegins(r, b)
  BY <1>2, CreateInv, ReplayInv, CheckInReadInv, RestoreReadInv, SkipBookingInv, CancelReadInv DEF RequestBegins
<1>3. CASE \E r \in Requests : RequestStep(r) \/ RequestDies(r)
  BY <1>3, FanOutInv, CheckInWriteInv, CheckInMirrorInv, RestoreCheckInv, RestoreSlotsInv,
     RestoreMirrorInv, SkipSlotsInv, CancelRpcInv, RequestDiesInv DEF RequestStep
<1>4. CASE \E n \in Scans : ScanStep(n) \/ ScanDies(n)
  BY <1>4, ScanSelectInv, ReleaseSlotInv, ReleaseMirrorInv, ScanDiesInv DEF ScanStep
<1>5. CASE Tick
  BY <1>5, TickInv
<1>6. QED
  BY <1>1, <1>2, <1>3, <1>4, <1>5 DEF Next

(* The inductive invariant holds throughout. *)
LEMMA InductiveInvariant == Spec => []IInv
<1>1. IInv /\ [Next]_vars => IInv'
  BY NextInv, StutterInv
<1>2. QED
  BY InitInv, <1>1, PTL DEF Spec

(* The booking tables and the service calls keep their types. *)
THEOREM TypeCorrect == Spec => []TypeOK
  BY InductiveInvariant, PTL DEF IInv

(* No interleaving of creates, decisions, check-ins, restores, skips,       *)
(* cancels and scans, and no crash among them, promises a room twice.       *)
THEOREM RoomsNotShared == Spec => []NoDoubleBooking
  BY InductiveInvariant, PTL DEF IInv

(* Whatever a request has read before, and whatever approvals are inserted  *)
(* after the fact, nothing brings back a booking that was rejected while it *)
(* waited.                                                                  *)
THEOREM RejectionIsFinal == Spec => []RejectedStaysOut
<1>1. IInv => RejectedStaysOut
  BY DEF IInv, RejectedOK, RejectedStaysOut, Holding
<1>2. QED
  BY <1>1, InductiveInvariant, PTL

(* No cancel, skip, replay or decision leaves a slot waiting for nobody;    *)
(* only a create that dies half way, a rule that names nobody and services  *)
(* cancelled on their own do.                                               *)
THEOREM NobodyWaitsInVain == Spec => []PendingIsDecidable
<1>1. IInv => PendingIsDecidable
  BY DEF IInv, DecidableOK, PendingIsDecidable
<1>2. QED
  BY <1>1, InductiveInvariant, PTL

(* A scan releases only what is confirmed when it writes.                   *)
THEOREM CheckedInKept == Spec => CheckedInIsKept
<1>1. TypeOK /\ [Next]_vars =>
        \A s \in Slots : slot[s] = "checked_in" => slot'[s] # "released"
  <2> SUFFICES ASSUME TypeOK, [Next]_vars, NEW s \in Slots, slot[s] = "checked_in"
               PROVE  slot'[s] # "released"
    OBVIOUS
  <2> USE DEF TypeOK, Statuses
  <2>1. CASE UNCHANGED slot
    BY <2>1
  <2>2. CASE \E b \in Bookings : BookingStep(b)
    BY <2>1, <2>2 DEF BookingStep, CancelLine, CancelBundle, Decide, GraceExpires, KeyPurged, SetSlots, tables
  <2>3. CASE \E r \in Requests, b \in Bookings : RequestBegins(r, b)
    BY <2>1, <2>3 DEF RequestBegins, Create, Replay, CheckInRead, RestoreRead, SkipBooking, CancelRead,
                SetSlots, tables
  <2>4. CASE \E r \in Requests : RequestStep(r) \/ RequestDies(r)
    BY <2>1, <2>4 DEF RequestStep, RequestDies, FanOut, CheckInWrite, CheckInMirror, RestoreCheck,
                RestoreSlots, RestoreMirror, SkipSlots, CancelRpc, SetSlots, tables
  <2>5. CASE \E n \in Scans : ScanStep(n) \/ ScanDies(n)
    BY <2>1, <2>5 DEF ScanStep, ScanDies, ScanSelect, ReleaseSlot, ReleaseMirror, Releasable,
                SetSlots, tables
  <2>6. CASE Tick
    BY <2>1, <2>6 DEF Tick, tables
  <2>7. CASE UNCHANGED vars
    BY <2>7 DEF vars, tables
  <2>8. QED
    BY <2>2, <2>3, <2>4, <2>5, <2>6, <2>7 DEF Next
<1>2. QED
  BY <1>1, TypeCorrect, PTL DEF Spec, CheckedInIsKept

-----------------------------------------------------------------------------
(* Refinement of RoomCalendar *)

(* No slot and no verdict changes: nothing the calendar shows. *)
Silent == UNCHANGED <<slot, verdict>>

(* The slots in S become p, and no others change. *)
LEMMA SlotsBecome ==
  ASSUME NEW S \in SUBSET Slots, NEW p,
         \A s \in S : Promise(s)' = p,
         \A s \in Slots \ S : Promise(s)' = Promise(s)
  PROVE  Calendar!Become(S, p)
  BY DEF Calendar!Become

(* The exclusion constraint admits what fits the calendar. *)
LEMMA AdmittedFits ==
  ASSUME NEW S \in SUBSET Slots, Admits(S)
  PROVE  Calendar!Fit(S)
  BY DEF Admits, Conflicts, ConflictStatuses, Calendar!Fit, Calendar!Promised, Promise

(* A new booking asks, or gets its slots at once. *)
LEMMA CreateRefines ==
  ASSUME IInv, NEW r \in Requests, NEW b \in Bookings,
         NEW st \in {"confirmed", "pending_approval"}, NEW planned \in BOOLEAN,
         Create(r, b, st, planned)
  PROVE  Calendar!Next
<1> DEFINE S == SlotsOf(b)
<1>0. S \in SUBSET Slots /\ Calendar!SlotsOf(b) = S /\ Calendar!Fit(S) /\ verdict[b] = "none"
  BY AdmittedFits DEF Create, SlotsOf, Calendar!SlotsOf, IInv, FreshOK
<1>1. slot' = [s \in Slots |-> IF s \in S THEN st ELSE slot[s]]
  BY DEF Create, SetSlots
<1>2. CASE st = "pending_approval"
  <2>1. Calendar!Become(S, "asked")
    <3>1. \A s \in S : Promise(s)' = "asked"
      BY <1>0, <1>1, <1>2 DEF Promise
    <3>2. \A s \in Slots \ S : Promise(s)' = Promise(s)
      BY <1>1 DEF Promise
    <3> QED
      BY <1>0, <3>1, <3>2, SlotsBecome
  <2>2. verdict' = [verdict EXCEPT ![b] = "open"]
    BY <1>2 DEF Create
  <2> QED
    BY <1>0, <2>1, <2>2 DEF Calendar!Next, Calendar!Ask
<1>3. CASE st = "confirmed"
  <2>1. Calendar!Become(S, "firm")
    <3>1. \A s \in S : Promise(s)' = "firm"
      BY <1>0, <1>1, <1>3 DEF Promise
    <3>2. \A s \in Slots \ S : Promise(s)' = Promise(s)
      BY <1>1 DEF Promise
    <3> QED
      BY <1>0, <3>1, <3>2, SlotsBecome
  <2>2. verdict' = verdict
    BY <1>3 DEF Create
  <2>3. Calendar!Promise(b, S)
    BY <1>0, <2>1, <2>2 DEF Calendar!Promise
  <2> QED
    BY <1>0, <2>3 DEF Calendar!Next
<1> QED
  BY <1>2, <1>3

(* A decision concerns the slots that were asked for, and shows nothing if  *)
(* none is.                                                                 *)
LEMMA DecideRefines ==
  ASSUME IInv, NEW b \in Bookings, NEW decision \in {"approved", "rejected"}, Decide(b, decision)
  PROVE  Calendar!Next \/ Silent
<1> DEFINE S == Waiting(b)
<1>0. S \in SUBSET Slots /\ Calendar!Asked(b) = S
  BY DEF Waiting, SlotsOf, Calendar!Asked, Calendar!SlotsOf, Promise
<1>1. /\ slot' = [s \in Slots |-> IF s \in S
                                  THEN IF decision = "approved" THEN "confirmed" ELSE "cancelled"
                                  ELSE slot[s]]
      /\ verdict' = [verdict EXCEPT ![b] = IF S # {} THEN decision ELSE @]
  BY DEF Decide, SetSlots
<1>2. CASE S = {}
  BY <1>1, <1>2 DEF Silent, IInv, TypeOK
<1>3. CASE S # {}
  <2>0. verdict[b] = "open" /\ verdict' = [verdict EXCEPT ![b] = decision]
    BY <1>1, <1>3 DEF IInv, WaitingOK, Waiting, SlotsOf
  <2>1. \A s \in Slots \ S : Promise(s)' = Promise(s)
    BY <1>1 DEF Promise
  <2>2. CASE decision = "approved"
    <3>1. \A s \in S : Promise(s)' = "firm"
      BY <1>0, <1>1, <2>2 DEF Promise
    <3>2. Calendar!Become(S, "firm")
      BY <1>0, <2>1, <3>1, SlotsBecome
    <3> QED
      BY <1>0, <1>3, <2>0, <2>2, <3>2 DEF Calendar!Next, Calendar!Approve, Calendar!Decided
  <2>3. CASE decision = "rejected"
    <3>1. \A s \in S : Promise(s)' = "free"
      BY <1>0, <1>1, <2>3 DEF Promise
    <3>2. Calendar!Become(S, "free")
      BY <1>0, <2>1, <3>1, SlotsBecome
    <3> QED
      BY <1>0, <1>3, <2>0, <2>3, <3>2 DEF Calendar!Next, Calendar!Reject, Calendar!Decided
  <2> QED
    BY <2>2, <2>3
<1> QED
  BY <1>2, <1>3

(* A check-in or a restore that passes the constraint renews a promise, or  *)
(* revives a booking that stopped waiting undecided: nobody can have        *)
(* rejected it since the read.                                              *)
LEMMA RenewRefines ==
  ASSUME IInv, NEW r \in Requests, CheckInWrite(r) \/ RestoreSlots(r)
  PROVE  Calendar!Next \/ Silent
<1>0. /\ on[r] \in Bookings /\ verdict[on[r]] \in {"none", "approved", "open"}
      /\ \A s \in Slots : BookingOf[s] = on[r] => slot[s] # "pending_approval"
      /\ verdict' = verdict /\ Primary[on[r]] \in SlotsOf(on[r])
  BY DEF IInv, TypeOK, RequestsOK, CheckInWrite, RestoreSlots, SlotsOf, verdicts
<1>1. ASSUME NEW S \in SUBSET SlotsOf(on[r]), NEW st \in {"confirmed", "checked_in"},
             Admits(S), SetSlots(S, st)
      PROVE  Calendar!Next
  <2>0. S \in SUBSET Slots /\ S \subseteq Calendar!SlotsOf(on[r])
    BY DEF SlotsOf, Calendar!SlotsOf
  <2>1. \A s \in S : Promise(s)' = "firm"
    BY <1>1, <2>0 DEF SetSlots, Promise
  <2>2. \A s \in Slots \ S : Promise(s)' = Promise(s)
    BY <1>1 DEF SetSlots, Promise
  <2>3. Calendar!Become(S, "firm") /\ Calendar!Fit(S)
    BY <1>1, <2>0, <2>1, <2>2, SlotsBecome, AdmittedFits
  <2>4. Calendar!Asked(on[r]) = {}
    BY <1>0 DEF Calendar!Asked, Calendar!SlotsOf, Promise
  <2>5. Calendar!Promise(on[r], S) \/ Calendar!Revive(on[r], S)
    BY <1>0, <2>0, <2>3, <2>4 DEF Calendar!Promise, Calendar!Revive
  <2> QED
    BY <1>0, <2>0, <2>5 DEF Calendar!Next
<1>2. CASE CheckInWrite(r)
  <2>1. CASE Admits({Primary[on[r]]})
    BY <1>0, <1>1, <1>2, <2>1 DEF CheckInWrite
  <2>2. CASE ~Admits({Primary[on[r]]})
    BY <1>0, <1>2, <2>2 DEF CheckInWrite, Silent
  <2> QED
    BY <2>1, <2>2
<1>3. CASE RestoreSlots(r)
  <2>1. CASE Admits(SlotsOf(on[r]))
    BY <1>1, <1>3, <2>1 DEF RestoreSlots
  <2>2. CASE ~Admits(SlotsOf(on[r]))
    BY <1>0, <1>3, <2>2 DEF RestoreSlots, Silent
  <2> QED
    BY <2>1, <2>2
<1> QED
  BY <1>2, <1>3

(* Cancelled, skipped and released slots are given back. *)
LEMMA GiveBackRefines ==
  ASSUME NEW S \in SUBSET Slots, NEW st \in {"cancelled", "released"}, SetSlots(S, st),
         UNCHANGED verdict
  PROVE  Calendar!Next
<1>1. \A s \in S : Promise(s)' = "free"
  BY DEF SetSlots, Promise
<1>2. \A s \in Slots \ S : Promise(s)' = Promise(s)
  BY DEF SetSlots, Promise
<1>3. Calendar!Release(S)
  BY <1>1, <1>2, SlotsBecome DEF Calendar!Release
<1> QED
  BY <1>3 DEF Calendar!Next

(* A cancel gives slots back, or shows nothing. *)
LEMMA CancelRefines ==
  ASSUME NEW r \in Requests, CancelRpc(r)
  PROVE  Calendar!Next \/ Silent
<1> DEFINE B == CancelSet(on[r], scope[r])
           S == {s \in Slots : BookingOf[s] \in B /\ slot[s] \in Cancellable}
<1>1. CASE status[on[r]] = "cancelled" \/ B \cap cancelKey # {}
  BY <1>1 DEF CancelRpc, tables, verdicts, Silent
<1>2. CASE ~(status[on[r]] = "cancelled" \/ B \cap cancelKey # {})
  BY <1>2, GiveBackRefines DEF CancelRpc, verdicts
<1> QED
  BY <1>1, <1>2

(* Every step is one of the calendar or shows nothing. *)
LEMMA StepRefines ==
  ASSUME IInv, Next
  PROVE  Calendar!Next \/ Silent
<1>1. CASE Silent
  BY <1>1
<1>2. CASE \E b \in Bookings : BookingStep(b)
  <2>1. ASSUME NEW b \in Bookings, CancelBundle(b) PROVE Calendar!Next
    BY <2>1, GiveBackRefines DEF CancelBundle, SlotsOf, verdicts
  <2> QED
    BY <1>1, <1>2, <2>1, DecideRefines
       DEF BookingStep, CancelLine, GraceExpires, KeyPurged, verdicts, Silent
<1>3. CASE \E r \in Requests, b \in Bookings : RequestBegins(r, b)
  BY <1>1, <1>3, CreateRefines
     DEF RequestBegins, Replay, CheckInRead, RestoreRead, SkipBooking, CancelRead, tables,
         verdicts, Silent
<1>4. CASE \E r \in Requests : RequestStep(r) \/ RequestDies(r)
  <2>1. ASSUME NEW r \in Requests, SkipSlots(r) PROVE Calendar!Next
    BY <2>1, GiveBackRefines DEF SkipSlots, SlotsOf, verdicts
  <2> QED
    BY <1>1, <1>4, <2>1, RenewRefines, CancelRefines
       DEF RequestStep, RequestDies, FanOut, CheckInMirror, RestoreCheck, RestoreMirror, tables,
           verdicts, Silent
<1>5. CASE \E n \in Scans : ScanStep(n) \/ ScanDies(n)
  <2>1. ASSUME NEW n \in Scans, NEW s \in Slots, ReleaseSlot(n, s) PROVE Calendar!Next \/ Silent
    BY <2>1, GiveBackRefines DEF ReleaseSlot, verdicts, Silent
  <2> QED
    BY <1>1, <1>5, <2>1 DEF ScanStep, ScanDies, ScanSelect, ReleaseMirror, tables, verdicts, Silent
<1>6. CASE Tick
  BY <1>1, <1>6 DEF Tick, tables, verdicts, Silent
<1> QED
  BY <1>2, <1>3, <1>4, <1>5, <1>6 DEF Next

(* The bookings keep the promises of the calendar, for every number of      *)
(* rooms, bookings and concurrent calls: rooms are promised once, what is   *)
(* asked for becomes firm through an approval that finds it waiting, and a  *)
(* booking gets slots without one only if it needs none or stopped waiting  *)
(* undecided.                                                               *)
THEOREM CalendarImplemented == Spec => ImplementsCalendar
<1>1. Init => Calendar!Init
  BY DEF Init, Calendar!Init, Promise
<1>2. IInv /\ [Next]_vars => [Calendar!Next]_(Calendar!vars)
  <2> SUFFICES ASSUME IInv, [Next]_vars
               PROVE  [Calendar!Next]_(Calendar!vars)
    OBVIOUS
  <2>1. Silent => UNCHANGED Calendar!vars
    BY DEF Silent, Calendar!vars, Promise
  <2>2. CASE UNCHANGED vars
    BY <2>1, <2>2 DEF vars, tables, verdicts, Silent
  <2>3. CASE Next
    BY <2>1, <2>3, StepRefines
  <2> QED
    BY <2>2, <2>3
<1> QED
  BY <1>1, <1>2, InductiveInvariant, PTL DEF Spec, Calendar!Spec, ImplementsCalendar
=============================================================================
