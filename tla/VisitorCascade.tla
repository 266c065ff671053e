--------------------------- MODULE VisitorCascade ---------------------------
(***************************************************************************)
(* What a change of a booking does to its visitors: the handler of         *)
(* booking.cancel_cascade_required and the adapter that it calls           *)
(* (bundle-cascade.adapter.ts), which also hears of moves on the bus.      *)
(*                                                                         *)
(* The cancel arrives through the outbox: at least once, also to two       *)
(* handlers at a time (module Outbox), and however long after the booking  *)
(* was restored.  The adapter reads a visitor, lets go of the row, and     *)
(* acts on what it read in transactions of their own.                      *)
(*                                                                         *)
(* domain_events is kept as the set of mails it orders.                    *)
(***************************************************************************)
EXTENDS VisitorStatus

CONSTANTS Handlers,    \* outbox workers that run the cascade handler
          MaxFaults,   \* bound: crashes and failed statements
          NoHandler, NoVisitor

ASSUME MaxFaultsAssumption == MaxFaults \in Nat
ASSUME NoHandlerAssumption == NoHandler \notin Handlers
ASSUME NoVisitorAssumption == NoVisitor \notin Visitors

VARIABLES
  booking,     \* bookings.status
  event,       \* booking.cancel_cascade_required: "none", "pending", "done"
  atStake,     \* history: visitors of the booking when it was cancelled
  handler,     \* per handler: next statement, visitors left, visitor, status read
  lock,        \* holder of the advisory lock of the booking
  notices,     \* reservation_cancelled notifications to the requester
  told,        \* the audit row of that notification exists
  unrecorded,  \* history: notifications that never got an audit row
  held,        \* visitors whose row a move cascade holds FOR SHARE
  owed,        \* visitors whose invitation event is about to be inserted
  events,      \* domain_events that order a mail: visitor and type
  missed,      \* history: visitors on whom a cascade statement failed
  unstored,    \* history: visitors with a transition that was rolled back unseen
  faults

requester == <<notices, told, unrecorded>>
cascade == <<booking, event, atStake, handler, lock, requester, missed>>
vars    == <<status, cascade, held, owed, events, unstored, faults>>

Types == {"invitation.expected", "cancelled", "cascade.cancelled"}
PCs   == {"idle", "loop", "act", "intent", "send", "record", "ack"}
Calm  == [pc |-> "idle", todo |-> {}, v |-> NoVisitor, seen |-> "none"]

Init ==
  /\ status = [v \in Visitors |-> "none"]
  /\ booking = "confirmed" /\ event = "none" /\ atStake = {}
  /\ handler = [h \in Handlers |-> Calm]
  /\ lock = NoHandler /\ notices = 0 /\ told = FALSE /\ unrecorded = 0
  /\ held = {} /\ owed = {} /\ events = {}
  /\ missed = {} /\ unstored = {} /\ faults = 0

Emit(v, type) == events' = events \cup {[v |-> v, type |-> type]}

Fault == faults < MaxFaults /\ faults' = faults + 1

-----------------------------------------------------------------------------
(* transitionStatus, which has to wait for a row that is held.  Its event   *)
(* is written in the same transaction.  A failing insert of the audit row   *)
(* or of the event is caught, but the transaction is aborted by then: its   *)
(* commit rolls everything back and reports no error.                       *)

Stored(v, to) ==
  /\ Moves(v, to)
  /\ SetStatus(v, to)
  /\ IF to = "cancelled" THEN Emit(v, "cancelled") ELSE UNCHANGED events
  /\ UNCHANGED <<unstored, faults>>

Unchanged(v, to) ==
  /\ SameStatus(v, to)
  /\ UNCHANGED <<status, events, unstored, faults>>

RolledBack(v, to) ==
  /\ Moves(v, to)
  /\ Fault
  /\ unstored' = unstored \cup {v}
  /\ UNCHANGED <<status, events>>

(* The caller sees a normal return. *)
TransitionReturns(v, to) ==
  /\ v \notin held
  /\ Stored(v, to) \/ Unchanged(v, to) \/ RolledBack(v, to)

-----------------------------------------------------------------------------
(* Visits.  The invitation event is an insert of its own, after the one of  *)
(* the visitor or the transition that admits him, and may fail unseen.      *)

(* Mutant: the invitation does not wait for the approval. *)
InviteEager(v, st) ==
  /\ status[v] = "none"
  /\ SetStatus(v, st)
  /\ owed' = owed \cup {v}
  /\ UNCHANGED <<cascade, held, events, unstored, faults>>

Invite(v, st) ==
  /\ status[v] = "none"
  /\ SetStatus(v, st)
  /\ owed' = IF st = "expected" THEN owed \cup {v} ELSE owed
  /\ UNCHANGED <<cascade, held, events, unstored, faults>>

OnApprovalDecided(v, outcome) ==
  /\ status[v] = "pending_approval"
  /\ TransitionReturns(v, outcome)
  /\ owed' = IF outcome = "expected" THEN owed \cup {v} ELSE owed
  /\ UNCHANGED <<cascade, held>>

EmitInvitation(v) ==
  /\ v \in owed
  /\ owed' = owed \ {v}
  /\ \/ Emit(v, "invitation.expected") /\ UNCHANGED faults
     \/ Fault /\ UNCHANGED events
  /\ UNCHANGED <<status, cascade, held, unstored>>

(* Arrival and cancel link; how a visit ends is the module VisitorPasses. *)
Visit(v, to) ==
  /\ Moves(v, to)
  /\ TransitionReturns(v, to)
  /\ UNCHANGED <<cascade, held, owed>>

-----------------------------------------------------------------------------
(* The booking.  While its first cancel event is in the outbox, a second    *)
(* cancel is refused: it would reuse the key of the first.                  *)

CancelBooking ==
  /\ booking = "confirmed"
  /\ event = "none"
  /\ booking' = "cancelled"
  /\ event' = "pending"
  /\ atStake' = {v \in Visitors : status[v] \in Awaited}
  /\ UNCHANGED <<status, handler, lock, requester, missed, held, owed,
                 events, unstored, faults>>

RestoreBooking ==
  /\ booking = "cancelled"
  /\ booking' = "confirmed"
  /\ UNCHANGED <<status, event, atStake, handler, lock, requester, missed,
                 held, owed, events, unstored, faults>>

-----------------------------------------------------------------------------
(* The adapter, for bundle.cancelled. *)

Goto(h, pc) == handler' = [handler EXCEPT ![h].pc = pc, ![h].seen = "none"]

NextVisitor(h) == handler' = [handler EXCEPT ![h] = [Calm EXCEPT !.pc = "loop", !.todo = handler[h].todo]]

(* Mutant: visitors who wait for approval are not part of the booking yet. *)
BeginCascadeExpected(h) ==
  /\ handler[h].pc = "idle"
  /\ event = "pending"
  /\ handler' = [handler EXCEPT ![h] = [Calm EXCEPT !.pc = "loop",
                   !.todo = {v \in Visitors : status[v] \notin {"none", "pending_approval"}}]]
  /\ UNCHANGED <<status, booking, event, atStake, lock, requester, missed,
                 held, owed, events, unstored, faults>>

BeginCascade(h) ==
  /\ handler[h].pc = "idle"
  /\ event = "pending"
  /\ handler' = [handler EXCEPT ![h] = [Calm EXCEPT !.pc = "loop",
                   !.todo = {v \in Visitors : status[v] # "none"}]]
  /\ UNCHANGED <<status, booking, event, atStake, lock, requester, missed,
                 held, owed, events, unstored, faults>>

(* FOR SHARE: it shares the row with a move. *)
ReadVisitor(h) ==
  /\ handler[h].pc = "loop"
  /\ \E v \in handler[h].todo :
       handler' = [handler EXCEPT ![h] = [pc |-> "act", todo |-> @.todo \ {v},
                                          v |-> v, seen |-> status[v]]]
  /\ UNCHANGED <<status, booking, event, atStake, lock, requester, missed,
                 held, owed, events, unstored, faults>>

(* Mutant: the mail is ordered before the transition is tried. *)
CancelVisitorLax(h) ==
  LET v == handler[h].v IN
  /\ handler[h].pc = "act"
  /\ handler[h].seen \in Awaited
  /\ v \notin held
  /\ IF Moves(v, "cancelled") THEN Stored(v, "cancelled")
     ELSE UNCHANGED <<status, events, unstored, faults>>
  /\ Goto(h, "intent")
  /\ UNCHANGED <<booking, event, atStake, lock, requester, missed, held, owed>>

CancelVisitor(h) ==
  LET v == handler[h].v IN
  /\ handler[h].pc = "act"
  /\ handler[h].seen \in Awaited
  /\ \/ TransitionReturns(v, "cancelled") /\ Goto(h, "intent") /\ UNCHANGED missed
     \/ /\ v \notin held   \* the visitor has changed: it throws, which is logged
        /\ ~Accepted(v, "cancelled")
        /\ NextVisitor(h)
        /\ UNCHANGED <<status, events, unstored, missed, faults>>
     \/ /\ Fault           \* so is every other failure
        /\ missed' = missed \cup {v}
        /\ NextVisitor(h)
        /\ UNCHANGED <<status, events, unstored>>
  /\ UNCHANGED <<booking, event, atStake, lock, requester, held, owed>>

EmitIntent(h) ==
  /\ handler[h].pc = "intent"
  /\ \/ Emit(handler[h].v, "cascade.cancelled") /\ UNCHANGED faults
     \/ Fault /\ UNCHANGED events
  /\ NextVisitor(h)
  /\ UNCHANGED <<status, booking, event, atStake, lock, requester, missed,
                 held, owed, unstored>>

(* Who is in the building stays: the host_alert goes to the host, not to   *)
(* the visitor.  Who is gone is left alone.                                *)
PassBy(h) ==
  /\ handler[h].pc = "act"
  /\ handler[h].seen \notin Awaited
  /\ NextVisitor(h)
  /\ UNCHANGED <<status, booking, event, atStake, lock, requester, missed, held, owed,
                 events, unstored, faults>>

-----------------------------------------------------------------------------
(* maybeNotifyRequester, under the advisory lock of the booking: if there   *)
(* is no audit row of it, onCancelled sends and then writes that row, both  *)
(* committed at once and every failure caught.  Then the outbox worker      *)
(* marks the event as processed.                                            *)

(* Mutant: the audit row is not looked for. *)
TakeLockLax(h) ==
  /\ handler[h].pc = "loop" /\ handler[h].todo = {}
  /\ lock = NoHandler
  /\ lock' = h
  /\ Goto(h, "send")
  /\ UNCHANGED <<status, booking, event, atStake, requester, missed, held, owed,
                 events, unstored, faults>>

TakeLock(h) ==
  /\ handler[h].pc = "loop" /\ handler[h].todo = {}
  /\ lock = NoHandler
  /\ lock' = IF told THEN NoHandler ELSE h
  /\ Goto(h, IF told THEN "ack" ELSE "send")
  /\ UNCHANGED <<status, booking, event, atStake, requester, missed, held, owed,
                 events, unstored, faults>>

(* send: the row in notifications. *)
Notify(h) ==
  /\ handler[h].pc = "send"
  /\ \/ notices' = notices + 1 /\ Goto(h, "record") /\ UNCHANGED <<lock, faults>>
     \/ Fault /\ Goto(h, "ack") /\ lock' = NoHandler /\ UNCHANGED notices
  /\ UNCHANGED <<status, booking, event, atStake, told, unrecorded, missed, held, owed,
                 events, unstored>>

(* audit: a statement of its own; then the transaction with the lock ends. *)
RecordNotice(h) ==
  /\ handler[h].pc = "record"
  /\ \/ told' = TRUE /\ UNCHANGED <<unrecorded, faults>>
     \/ Fault /\ unrecorded' = unrecorded + 1 /\ UNCHANGED told
  /\ Goto(h, "ack")
  /\ lock' = NoHandler
  /\ UNCHANGED <<status, booking, event, atStake, notices, missed, held, owed, events,
                 unstored>>

Acknowledge(h) ==
  /\ handler[h].pc = "ack"
  /\ handler' = [handler EXCEPT ![h] = Calm]
  /\ event' = "done"
  /\ UNCHANGED <<status, booking, atStake, lock, requester, missed, held, owed,
                 events, unstored, faults>>

(* The process dies; the lease of the event runs out and it is redelivered. *)
HandlerDies(h) ==
  /\ handler[h].pc # "idle"
  /\ Fault
  /\ handler' = [handler EXCEPT ![h] = Calm]
  /\ lock' = IF lock = h THEN NoHandler ELSE lock
  /\ unrecorded' = IF handler[h].pc = "record" THEN unrecorded + 1 ELSE unrecorded
  /\ UNCHANGED <<status, booking, event, atStake, notices, told, missed, held,
                 owed, events, unstored>>

-----------------------------------------------------------------------------
(* bundle.line.moved and room_changed of an awaited visitor: the callback   *)
(* of the transaction that holds his row FOR SHARE updates the row on       *)
(* another connection, which waits for the first.  Only the server or a     *)
(* crash ends it, and then the change is gone.                              *)

HandleLineMoved(v) ==
  /\ v \notin held
  /\ status[v] \in Awaited
  /\ held' = held \cup {v}
  /\ UNCHANGED <<status, cascade, owed, events, unstored, faults>>

MoveAborts(v) ==
  /\ v \in held
  /\ Fault
  /\ held' = held \ {v}
  /\ UNCHANGED <<status, cascade, owed, events, unstored>>

-----------------------------------------------------------------------------
Visits ==
  \E v \in Visitors :
    \/ \E st \in Awaited : Invite(v, st)
    \/ \E outcome \in {"expected", "denied"} : OnApprovalDecided(v, outcome)
    \/ EmitInvitation(v)
    \/ \E to \in {"arrived", "cancelled"} : Visit(v, to)
    \/ HandleLineMoved(v)
    \/ MoveAborts(v)

Cascade(h) ==
  \/ BeginCascade(h) \/ ReadVisitor(h) \/ CancelVisitor(h) \/ EmitIntent(h)
  \/ PassBy(h) \/ TakeLock(h) \/ Notify(h) \/ RecordNotice(h) \/ Acknowledge(h)

Next ==
  \/ Visits
  \/ CancelBooking
  \/ RestoreBooking
  \/ \E h \in Handlers : Cascade(h) \/ HandlerDies(h)

Spec == Init /\ [][Next]_vars

(* The outbox redelivers until the event is done (EventuallySettled of      *)
(* module Outbox), and a handler that runs goes on.                         *)
FairSpec == Spec /\ \A h \in Handlers : WF_vars(Cascade(h))

-----------------------------------------------------------------------------
TypeOK ==
  /\ status \in [Visitors -> VisitorStatuses \cup {"none"}]
  /\ booking \in {"confirmed", "cancelled"}
  /\ event \in {"none", "pending", "done"}
  /\ atStake \subseteq Visitors
  /\ handler \in [Handlers -> [pc : PCs, todo : SUBSET Visitors,
                               v : Visitors \cup {NoVisitor},
                               seen : VisitorStatuses \cup {"none"}]]
  /\ lock \in Handlers \cup {NoHandler}
  /\ notices \in Nat /\ unrecorded \in Nat
  /\ told \in BOOLEAN
  /\ events \subseteq [v : Visitors, type : Types]
  /\ held \cup owed \cup unstored \cup missed \subseteq Visitors
  /\ faults \in 0..MaxFaults

HasEvent(v, types) == \E e \in events : e.v = v /\ e.type \in types

(* Visitors are told of a cancelled visit exactly if it was cancelled: the  *)
(* cascade orders the mail on a status it read earlier, and every cancelled *)
(* visitor has his event.  A transition that was rolled back unseen is the  *)
(* one exception (handleLineCancelled, transitionStatus).                   *)
CancelMailIsTrue ==
  \A v \in Visitors :
    /\ status[v] = "cancelled" => HasEvent(v, {"cancelled"})
    /\ HasEvent(v, {"cancelled", "cascade.cancelled"})
         => status[v] = "cancelled" \/ v \in unstored

(* Nobody is sent an invitation before he was admitted or after he was      *)
(* denied, with the same exception (onApprovalDecided, create).             *)
InvitedWasAdmitted ==
  \A v \in Visitors : HasEvent(v, {"invitation.expected"})
    => status[v] \notin {"none", "pending_approval", "denied"} \/ v \in unstored

(* The requester gets one notification, however often the event is          *)
(* delivered and to how many handlers at a time; each further one needs a   *)
(* notification of its own whose audit row was never written, because the   *)
(* insert failed or the process died between the send and the insert        *)
(* (maybeNotifyRequester, onCancelled).                                     *)
RequesterToldOnce == notices <= 1 + unrecorded

(* The cascade has done with v: he is not awaited any more, or one of the   *)
(* failures that the code logs or cannot see has met him.                   *)
Reached(v) == status[v] \notin Awaited \/ v \in missed \cup unstored

(* The cancel event is acknowledged only when every visitor the booking had *)
(* when it was cancelled has been reached, however many handlers shared the *)
(* event, died or saw him change (handle, handleBundleCancelled).  No move  *)
(* or approval in between excuses one that is skipped.                      *)
DoneMeansReached == event = "done" => \A v \in atStake : Reached(v)

(* Once a booking is cancelled, none of its visitors stays awaited, whatever *)
(* approvals, arrivals and restores come in between; what keeps him is a     *)
(* statement that failed, or a move that holds the row of a visitor.         *)
CancelReachesVisitors ==
  \A v \in Visitors : v \in atStake ~> Reached(v) \/ held # {}
=============================================================================
