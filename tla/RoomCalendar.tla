---------------------------- MODULE RoomCalendar ----------------------------
(***************************************************************************)
(* What the bookings promise the people who use rooms.  A slot of a room   *)
(* is free, asked for, or firm.  It becomes asked for or firm only if no   *)
(* slot that contends with it is promised to somebody.  Slots that are     *)
(* asked for become firm together, through an approval and in no other     *)
(* way, and a booking that was rejected never gets a slot again.           *)
(*                                                                         *)
(* One move gives a booking its slots although it asked and nobody         *)
(* approved it: Revive, for a booking that gave them up while it waited.   *)
(***************************************************************************)
CONSTANTS Bookings, Slots, BookingOf, Contends

VARIABLES promise,   \* per slot: "free", "asked", "firm"
          verdict    \* per booking: "none" if it never asked, "open" until it is decided

vars == <<promise, verdict>>

SlotsOf(b) == {s \in Slots : BookingOf[s] = b}

Promised(s) == promise[s] # "free"

(* The slots in S may be promised together. *)
Fit(S) == \A s \in S, t \in Slots : <<s, t>> \in Contends => ~Promised(t) /\ t \notin S

Become(S, p) == promise' = [s \in Slots |-> IF s \in S THEN p ELSE promise[s]]

Asked(b) == {s \in SlotsOf(b) : promise[s] = "asked"}

Init ==
  /\ promise = [s \in Slots |-> "free"]
  /\ verdict = [b \in Bookings |-> "none"]

(* A booking that needs an approval holds its slots while it waits. *)
Ask(b) ==
  /\ verdict[b] = "none"
  /\ Fit(SlotsOf(b))
  /\ Become(SlotsOf(b), "asked")
  /\ verdict' = [verdict EXCEPT ![b] = "open"]

(* Slots of a booking that needs no approval, or has it. *)
Promise(b, S) ==
  /\ S \subseteq SlotsOf(b)
  /\ verdict[b] \in {"none", "approved"}
  /\ Fit(S)
  /\ Become(S, "firm")
  /\ UNCHANGED verdict

(* Slots of a booking that gave them up before it was decided: no slot of   *)
(* it is asked for any more, and it gets them without an approval.          *)
Revive(b, S) ==
  /\ S \subseteq SlotsOf(b)
  /\ verdict[b] = "open" /\ Asked(b) = {}
  /\ Fit(S)
  /\ Become(S, "firm")
  /\ UNCHANGED verdict

Decided(b, p, v) ==
  /\ verdict[b] = "open" /\ Asked(b) # {}
  /\ Become(Asked(b), p)
  /\ verdict' = [verdict EXCEPT ![b] = v]

Approve(b) == Decided(b, "firm", "approved")

Reject(b) == Decided(b, "free", "rejected")

(* Slots are given back. *)
Release(S) ==
  /\ Become(S, "free")
  /\ UNCHANGED verdict

Next ==
  \/ \E b \in Bookings : Ask(b) \/ Approve(b) \/ Reject(b)
  \/ \E b \in Bookings, S \in SUBSET Slots : Promise(b, S) \/ Revive(b, S)
  \/ \E S \in SUBSET Slots : Release(S)

Spec == Init /\ [][Next]_vars
=============================================================================
