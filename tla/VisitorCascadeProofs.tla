------------------------ MODULE VisitorCascadeProofs ------------------------
(***************************************************************************)
(* Safety of the cancel cascade, for any number of visitors, handlers and  *)
(* faults.  To be inductive, what the mails say has to hold already while  *)
(* they are being ordered: of the visitor a handler is about to write an   *)
(* intent for, and of those whose invitation is owed.                      *)
(***************************************************************************)
EXTENDS VisitorCascade, TLAPS

Statuses == VisitorStatuses \cup {"none"}

Ended(v)    == status[v] = "cancelled" \/ v \in unstored
Admitted(v) == status[v] \notin {"none", "pending_approval", "denied"} \/ v \in unstored

(* Who is owed an invitation was admitted. *)
OwedOK == \A v \in owed : Admitted(v)

(* Whose cancellation a handler is about to announce is cancelled. *)
IntentOK ==
  \A h \in Handlers :
    /\ handler[h].pc \in {"act", "intent"} => handler[h].v \in Visitors
    /\ handler[h].pc = "intent" => Ended(handler[h].v)

(* Somebody has sent and not yet recorded it. *)
Recording == \E h \in Handlers : handler[h].pc = "record"

(* Who sends has the lock, and no send before is on record: each            *)
(* notification is recorded, about to be, or was never recorded.            *)
SendOK ==
  /\ \A h \in Handlers : handler[h].pc \in {"send", "record"} => lock = h /\ ~told
  /\ notices = unrecorded + (IF told \/ Recording THEN 1 ELSE 0)

IInv ==
  /\ TypeOK
  /\ CancelMailIsTrue
  /\ InvitedWasAdmitted
  /\ OwedOK
  /\ IntentOK
  /\ SendOK

(* What the visits share with the cascade, and what a step on a visitor     *)
(* gives to it: nobody is less cancelled or less admitted than before.      *)
VisitorsOK ==
  /\ status' \in [Visitors -> Statuses]
  /\ events' \subseteq [v : Visitors, type : Types]
  /\ unstored' \subseteq Visitors
  /\ faults' \in 0..MaxFaults
  /\ CancelMailIsTrue'
  /\ InvitedWasAdmitted'
  /\ \A u \in Visitors : Ended(u) => Ended(u)'
  /\ \A u \in Visitors : Admitted(u) => Admitted(u)'

-----------------------------------------------------------------------------
(* A cancelled visit stays cancelled, and a visitor who moves exists. *)
LEMMA MovesFrom ==
  ASSUME NEW v, NEW to, Moves(v, to), status[v] \in Statuses
  PROVE  status[v] \notin {"none", "cancelled", "denied"}
  BY DEF Moves, AllowedTransitions, VisitorStatuses, Statuses

(* A transition whose caller sees a normal return. *)
LEMMA TransitionKeeps ==
  ASSUME IInv, NEW v \in Visitors, NEW to \in {"expected", "denied", "arrived", "cancelled"},
         TransitionReturns(v, to), to = "denied" => status[v] = "pending_approval"
  PROVE  VisitorsOK /\ (status'[v] = to \/ v \in unstored')
<1>0. /\ status \in [Visitors -> Statuses] /\ events \subseteq [v : Visitors, type : Types]
      /\ unstored \subseteq Visitors /\ faults \in 0..MaxFaults
      /\ CancelMailIsTrue /\ InvitedWasAdmitted
  BY DEF IInv, TypeOK, Statuses
<1>1. CASE Stored(v, to)
  <2>0. /\ status' = [status EXCEPT ![v] = to] /\ UNCHANGED <<unstored, faults>>
        /\ events' = IF to = "cancelled" THEN events \cup {[v |-> v, type |-> "cancelled"]} ELSE events
    BY <1>1 DEF Stored, SetStatus, Emit
  <2>1. status[v] \notin {"none", "cancelled", "denied"}
    BY <1>0, <1>1, MovesFrom DEF Stored
  <2>2. /\ status' \in [Visitors -> Statuses]
        /\ status'[v] = to /\ \A u \in Visitors \ {v} : status'[u] = status[u]
    BY <1>0, <2>0 DEF Statuses, VisitorStatuses
  <2>3. events' \subseteq [v : Visitors, type : Types]
    BY <1>0, <2>0 DEF Types
  <2>4. CancelMailIsTrue'
    <3>1. ASSUME NEW u \in Visitors, status'[u] = "cancelled" PROVE HasEvent(u, {"cancelled"})'
      <4>1. CASE u = v
        <5> DEFINE e == [v |-> v, type |-> "cancelled"]
        <5>1. e \in events' /\ e.v = u /\ e.type \in {"cancelled"}
          BY <2>0, <2>2, <3>1, <4>1
        <5> HIDE DEF e
        <5> QED
          BY <5>1 DEF HasEvent
      <4>2. CASE u # v
        <5>1. HasEvent(u, {"cancelled"}) /\ events \subseteq events'
          BY <1>0, <2>0, <2>2, <3>1, <4>2 DEF CancelMailIsTrue
        <5> QED
          BY <5>1 DEF HasEvent
      <4> QED
        BY <4>1, <4>2
    <3>2. ASSUME NEW u \in Visitors, HasEvent(u, {"cancelled", "cascade.cancelled"})'
          PROVE  status'[u] = "cancelled" \/ u \in unstored'
      <4>1. CASE u = v /\ to = "cancelled"
        BY <2>2, <4>1
      <4>2. CASE ~(u = v /\ to = "cancelled")
        <5>1. HasEvent(u, {"cancelled", "cascade.cancelled"})
          BY <2>0, <3>2, <4>2 DEF HasEvent
        <5> QED
          BY <1>0, <2>0, <2>1, <2>2, <5>1 DEF CancelMailIsTrue
      <4> QED
        BY <4>1, <4>2
    <3> QED
      BY <3>1, <3>2 DEF CancelMailIsTrue
  <2>5. ASSUME NEW u \in Visitors PROVE (Ended(u) => Ended(u)') /\ (Admitted(u) => Admitted(u)')
    BY <2>0, <2>1, <2>2 DEF Ended, Admitted
  <2>6. InvitedWasAdmitted'
    <3>1. ASSUME NEW u \in Visitors, HasEvent(u, {"invitation.expected"})'
          PROVE  Admitted(u)'
      <4>1. HasEvent(u, {"invitation.expected"})
        BY <2>0, <3>1 DEF HasEvent
      <4> QED
        BY <1>0, <2>5, <4>1 DEF InvitedWasAdmitted, Admitted
    <3> QED
      BY <3>1 DEF InvitedWasAdmitted, Admitted
  <2> QED
    BY <1>0, <2>0, <2>2, <2>3, <2>4, <2>5, <2>6 DEF VisitorsOK
<1>2. CASE Unchanged(v, to)
  BY <1>0, <1>2 DEF Unchanged, SameStatus, VisitorsOK, Ended, Admitted, CancelMailIsTrue, InvitedWasAdmitted, HasEvent
<1>3. CASE RolledBack(v, to)
  <2>1. faults' \in 0..MaxFaults
    BY <1>0, <1>3, MaxFaultsAssumption DEF RolledBack, Fault
  <2> QED
    BY <1>0, <1>3, <2>1 DEF RolledBack, VisitorsOK, Ended, Admitted, CancelMailIsTrue, InvitedWasAdmitted, HasEvent
<1> QED
  BY <1>1, <1>2, <1>3 DEF TransitionReturns

(* A step on the visitors that leaves the cascade alone. *)
LEMMA VisitorsStep ==
  ASSUME IInv, VisitorsOK, UNCHANGED cascade, held' \subseteq Visitors,
         owed' \subseteq Visitors, OwedOK'
  PROVE  IInv'
<1>1. TypeOK'
  BY DEF IInv, TypeOK, VisitorsOK, Statuses, cascade, requester
<1>2. IntentOK'
  BY DEF IInv, IntentOK, VisitorsOK, cascade
<1>3. SendOK'
  BY DEF IInv, SendOK, Recording, cascade, requester
<1> QED
  BY <1>1, <1>2, <1>3 DEF IInv, VisitorsOK

(* Ordering a mail that says the truth. *)
LEMMA EmitKeeps ==
  ASSUME IInv, UNCHANGED <<status, unstored>>, faults' \in 0..MaxFaults,
         NEW v \in Visitors, NEW type \in Types,
         \/ UNCHANGED events
         \/ /\ Emit(v, type)
            /\ type = "invitation.expected" => Admitted(v)
            /\ type # "invitation.expected" => Ended(v)
  PROVE  VisitorsOK
<1>0. /\ status \in [Visitors -> Statuses] /\ events \subseteq [v : Visitors, type : Types]
      /\ unstored \subseteq Visitors
      /\ CancelMailIsTrue /\ InvitedWasAdmitted
  BY DEF IInv, TypeOK, Statuses
<1>1. /\ status' \in [Visitors -> Statuses] /\ unstored' \subseteq Visitors
      /\ events \subseteq events' /\ events' \subseteq events \cup {[v |-> v, type |-> type]}
      /\ events' \subseteq [v : Visitors, type : Types]
  BY <1>0 DEF Emit
<1>2. ASSUME NEW u \in Visitors PROVE (Ended(u) => Ended(u)') /\ (Admitted(u) => Admitted(u)')
  BY DEF Ended, Admitted
<1>3. CancelMailIsTrue'
  <2>1. ASSUME NEW u \in Visitors, status'[u] = "cancelled" PROVE HasEvent(u, {"cancelled"})'
    BY <1>0, <1>1, <2>1 DEF CancelMailIsTrue, HasEvent
  <2>2. ASSUME NEW u \in Visitors, HasEvent(u, {"cancelled", "cascade.cancelled"})' PROVE Ended(u)
    <3>1. CASE HasEvent(u, {"cancelled", "cascade.cancelled"})
      BY <1>0, <3>1 DEF CancelMailIsTrue, Ended
    <3>2. CASE ~HasEvent(u, {"cancelled", "cascade.cancelled"})
      <4>1. u = v /\ type \in {"cancelled", "cascade.cancelled"} /\ events' # events
        BY <1>1, <2>2, <3>2 DEF HasEvent
      <4> QED
        BY <4>1
    <3> QED
      BY <3>1, <3>2
  <2> QED
    BY <2>1, <2>2 DEF CancelMailIsTrue, Ended
<1>4. InvitedWasAdmitted'
  <2>1. ASSUME NEW u \in Visitors, HasEvent(u, {"invitation.expected"})' PROVE Admitted(u)
    <3>1. CASE HasEvent(u, {"invitation.expected"})
      BY <1>0, <3>1 DEF InvitedWasAdmitted, Admitted
    <3>2. CASE ~HasEvent(u, {"invitation.expected"})
      <4>1. u = v /\ type = "invitation.expected" /\ events' # events
        BY <1>1, <2>1, <3>2 DEF HasEvent
      <4> QED
        BY <4>1
    <3> QED
      BY <3>1, <3>2
  <2> QED
    BY <2>1 DEF InvitedWasAdmitted, Admitted
<1> QED
  BY <1>1, <1>2, <1>3, <1>4 DEF VisitorsOK

-----------------------------------------------------------------------------
(* Visits, and moves that hold their rows *)
LEMMA VisitsStep ==
  ASSUME IInv, Visits
  PROVE  IInv'
<1>0. /\ status \in [Visitors -> Statuses] /\ owed \subseteq Visitors /\ held \subseteq Visitors
      /\ TypeOK /\ OwedOK /\ CancelMailIsTrue /\ InvitedWasAdmitted
  BY DEF IInv, TypeOK, Statuses
<1>1. ASSUME NEW v \in Visitors, NEW st \in Awaited, Invite(v, st) PROVE IInv'
  <2>0. /\ status[v] = "none" /\ status' = [status EXCEPT ![v] = st]
        /\ owed' = IF st = "expected" THEN owed \cup {v} ELSE owed
        /\ UNCHANGED <<cascade, held, events, unstored, faults>>
    BY <1>1 DEF Invite, SetStatus
  <2>1. /\ status' \in [Visitors -> Statuses] /\ status'[v] = st /\ st \in {"pending_approval", "expected"}
        /\ \A u \in Visitors \ {v} : status'[u] = status[u]
    BY <1>0, <2>0 DEF Statuses, VisitorStatuses, Awaited
  <2>2. ASSUME NEW u \in Visitors PROVE (Ended(u) => Ended(u)') /\ (Admitted(u) => Admitted(u)')
    BY <2>0, <2>1 DEF Ended, Admitted
  <2>3. \A u \in Visitors, T \in SUBSET Types : HasEvent(u, T)' <=> HasEvent(u, T)
    BY <2>0 DEF HasEvent
  <2>4. CancelMailIsTrue' /\ InvitedWasAdmitted'
    <3>1. ASSUME NEW u \in Visitors, status'[u] = "cancelled" PROVE status[u] = "cancelled"
      BY <2>1, <3>1
    <3> QED
      BY <1>0, <2>0, <2>2, <2>3, <3>1 DEF CancelMailIsTrue, InvitedWasAdmitted, Ended, Admitted, Types
  <2>5. VisitorsOK
    BY <1>0, <2>0, <2>1, <2>2, <2>4 DEF VisitorsOK, TypeOK
  <2>6. OwedOK'
    BY <1>0, <2>0, <2>1, <2>2 DEF OwedOK, Admitted
  <2> QED
    BY <1>0, <2>0, <2>5, <2>6, VisitorsStep
<1>2. ASSUME NEW v \in Visitors, NEW o \in {"expected", "denied"}, OnApprovalDecided(v, o) PROVE IInv'
  <2>1. VisitorsOK /\ (status'[v] = o \/ v \in unstored')
    BY <1>2, TransitionKeeps DEF OnApprovalDecided
  <2>2. OwedOK'
    BY <1>0, <1>2, <2>1 DEF OnApprovalDecided, OwedOK, VisitorsOK, Admitted
  <2> QED
    BY <1>0, <1>2, <2>1, <2>2, VisitorsStep DEF OnApprovalDecided
<1>3. ASSUME NEW v \in Visitors, EmitInvitation(v) PROVE IInv'
  <2>1. faults' \in 0..MaxFaults
    BY <1>0, <1>3, MaxFaultsAssumption DEF EmitInvitation, Fault, TypeOK
  <2>2. VisitorsOK
    BY <1>0, <1>3, <2>1, EmitKeeps DEF EmitInvitation, OwedOK, Types
  <2>3. OwedOK'
    BY <1>0, <1>3, <2>2 DEF EmitInvitation, OwedOK, VisitorsOK
  <2> QED
    BY <1>0, <1>3, <2>2, <2>3, VisitorsStep DEF EmitInvitation
<1>4. ASSUME NEW v \in Visitors, NEW to \in {"arrived", "cancelled"}, Visit(v, to) PROVE IInv'
  <2>1. VisitorsOK
    BY <1>4, TransitionKeeps DEF Visit
  <2>2. OwedOK'
    BY <1>0, <1>4, <2>1 DEF Visit, OwedOK, VisitorsOK
  <2> QED
    BY <1>0, <1>4, <2>1, <2>2, VisitorsStep DEF Visit
<1>5. ASSUME NEW v \in Visitors, HandleLineMoved(v) \/ MoveAborts(v) PROVE IInv'
  <2>1. faults' \in 0..MaxFaults
    BY <1>0, <1>5, MaxFaultsAssumption DEF HandleLineMoved, MoveAborts, Fault, TypeOK
  <2>2. VisitorsOK
    BY <1>5, <2>1, EmitKeeps DEF HandleLineMoved, MoveAborts, Types
  <2>3. OwedOK'
    BY <1>0, <1>5, <2>2 DEF HandleLineMoved, MoveAborts, OwedOK, VisitorsOK
  <2> QED
    BY <1>0, <1>5, <2>2, <2>3, VisitorsStep DEF HandleLineMoved, MoveAborts
<1> QED
  BY <1>1, <1>2, <1>3, <1>4, <1>5 DEF Visits

-----------------------------------------------------------------------------
Records == [pc : PCs, todo : SUBSET Visitors, v : Visitors \cup {NoVisitor}, seen : Statuses]

(* A step of one handler. *)
LEMMA HandlerStep ==
  ASSUME IInv, VisitorsOK, SendOK', NEW h \in Handlers, NEW r \in Records,
         handler' = [handler EXCEPT ![h] = r],
         r.pc \in {"act", "intent"} => r.v \in Visitors,
         r.pc = "intent" => Ended(r.v)',
         UNCHANGED <<booking, atStake, held, owed>>,
         event' \in {"none", "pending", "done"}, lock' \in Handlers \cup {NoHandler},
         notices' \in Nat, told' \in BOOLEAN, unrecorded' \in Nat, missed' \subseteq Visitors
  PROVE  IInv'
<1>0. TypeOK /\ OwedOK /\ IntentOK /\ handler \in [Handlers -> Records]
  BY DEF IInv, TypeOK, Records, Statuses
<1>1. /\ handler' \in [Handlers -> Records]
      /\ handler'[h] = r /\ \A g \in Handlers \ {h} : handler'[g] = handler[g]
  BY <1>0
<1>2. TypeOK'
  BY <1>0, <1>1 DEF TypeOK, VisitorsOK, Records, Statuses
<1>3. OwedOK'
  BY <1>0 DEF OwedOK, VisitorsOK, TypeOK
<1>4. IntentOK'
  <2>1. ASSUME NEW g \in Handlers
        PROVE  /\ handler'[g].pc \in {"act", "intent"} => handler'[g].v \in Visitors
               /\ handler'[g].pc = "intent" =>
                    status'[handler'[g].v] = "cancelled" \/ handler'[g].v \in unstored'
    <3>1. CASE g = h
      BY <1>1, <3>1 DEF Ended
    <3>2. CASE g # h
      BY <1>0, <1>1, <3>2 DEF IntentOK, VisitorsOK, Ended
    <3> QED
      BY <3>1, <3>2
  <2> QED
    BY <2>1 DEF IntentOK, Ended
<1> QED
  BY <1>2, <1>3, <1>4 DEF IInv, VisitorsOK

(* Who neither begins nor ends a notification leaves it as it is. *)
LEMMA QuietSend ==
  ASSUME IInv, NEW h \in Handlers, NEW r \in Records, handler' = [handler EXCEPT ![h] = r],
         r.pc \notin {"send", "record"}, handler[h].pc # "record", UNCHANGED <<lock, requester>>
  PROVE  SendOK'
<1>1. /\ SendOK /\ handler'[h] = r
      /\ \A g \in Handlers \ {h} : handler'[g] = handler[g]
  BY DEF IInv, TypeOK
<1>2. Recording' <=> Recording
  BY <1>1 DEF Recording
<1> QED
  BY <1>1, <1>2 DEF SendOK, requester

(* The record a handler goes on with. *)
LEMMA NextRecord ==
  ASSUME IInv, NEW h \in Handlers
  PROVE  /\ handler[h] \in Records
         /\ Calm \in Records /\ Calm.pc = "idle"
         /\ \A T \in SUBSET Visitors :
              /\ [Calm EXCEPT !.pc = "loop", !.todo = T] \in Records
              /\ [Calm EXCEPT !.pc = "loop", !.todo = T].pc = "loop"
         /\ [Calm EXCEPT !.pc = "loop", !.todo = handler[h].todo] \in Records
         /\ [Calm EXCEPT !.pc = "loop", !.todo = handler[h].todo].pc = "loop"
         /\ \A pc \in PCs : Goto(h, pc) =>
              \E r \in Records : /\ handler' = [handler EXCEPT ![h] = r]
                                 /\ r.pc = pc /\ r.v = handler[h].v
<1>1. handler \in [Handlers -> Records] /\ handler[h] \in Records
  BY DEF IInv, TypeOK, Records, Statuses
<1>2. Calm \in Records /\ Calm.pc = "idle"
  BY DEF Calm, Records, PCs, Statuses
<1>3. ASSUME NEW T \in SUBSET Visitors
      PROVE  /\ [Calm EXCEPT !.pc = "loop", !.todo = T] \in Records
             /\ [Calm EXCEPT !.pc = "loop", !.todo = T].pc = "loop"
  BY DEF Calm, Records, PCs, Statuses
<1>4. handler[h].todo \in SUBSET Visitors
  BY <1>1 DEF Records
<1>5. ASSUME NEW pc \in PCs, Goto(h, pc)
      PROVE  \E r \in Records : /\ handler' = [handler EXCEPT ![h] = r]
                                /\ r.pc = pc /\ r.v = handler[h].v
  <2> DEFINE r == [handler[h] EXCEPT !.pc = pc, !.seen = "none"]
  <2>1. r \in Records /\ r.pc = pc /\ r.v = handler[h].v
    BY <1>1 DEF Records, Statuses
  <2>2. handler' = [handler EXCEPT ![h] = r]
    BY <1>1, <1>5 DEF Goto, Records
  <2> QED
    BY <2>1, <2>2
<1> QED
  BY <1>1, <1>2, <1>3, <1>4, <1>5

(* The adapter: a handler's walk over the visitors *)
LEMMA AdapterStep ==
  ASSUME IInv, NEW h \in Handlers,
         BeginCascade(h) \/ ReadVisitor(h) \/ CancelVisitor(h) \/ EmitIntent(h) \/ PassBy(h)
  PROVE  IInv'
<1>0. TypeOK /\ IntentOK /\ handler[h] \in Records
  BY NextRecord DEF IInv
<1>a. /\ event \in {"none", "pending", "done"} /\ lock \in Handlers \cup {NoHandler}
      /\ notices \in Nat /\ told \in BOOLEAN /\ unrecorded \in Nat /\ missed \subseteq Visitors
      /\ faults \in 0..MaxFaults
  BY <1>0 DEF TypeOK
<1>b. UNCHANGED <<status, events, unstored, faults>> => VisitorsOK
  BY <1>0 DEF IInv, TypeOK, Statuses, VisitorsOK, Ended, Admitted, CancelMailIsTrue, InvitedWasAdmitted, HasEvent
<1>c. ASSUME NEW r \in Records, handler' = [handler EXCEPT ![h] = r], VisitorsOK, r.pc = "loop",
             UNCHANGED <<booking, event, atStake, lock, requester, held, owed>>,
             handler[h].pc # "record", missed' \subseteq Visitors
      PROVE  IInv'
  <2>1. SendOK'
    BY <1>c, QuietSend
  <2> QED
    BY <1>a, <1>c, <2>1, HandlerStep DEF requester
<1>1. CASE BeginCascade(h)
  <2> DEFINE T == {v \in Visitors : status[v] # "none"}
  <2>1. T \in SUBSET Visitors
    OBVIOUS
  <2>2. handler' = [handler EXCEPT ![h] = [Calm EXCEPT !.pc = "loop", !.todo = T]]
    BY <1>1 DEF BeginCascade
  <2> HIDE DEF T
  <2> QED
    BY <1>1, <1>a, <1>b, <1>c, <2>1, <2>2, NextRecord DEF BeginCascade
<1>2. CASE ReadVisitor(h)
  <2>1. PICK v \in handler[h].todo :
          handler' = [handler EXCEPT ![h] = [pc |-> "act", todo |-> @.todo \ {v}, v |-> v, seen |-> status[v]]]
    BY <1>2 DEF ReadVisitor
  <2> DEFINE r == [pc |-> "act", todo |-> handler[h].todo \ {v}, v |-> v, seen |-> status[v]]
  <2>2. v \in Visitors /\ handler[h].todo \subseteq Visitors
    BY <1>0 DEF Records
  <2>3. r \in Records /\ r.pc = "act" /\ r.v \in Visitors
    BY <1>0, <2>2 DEF Records, PCs, TypeOK, Statuses
  <2>4. handler' = [handler EXCEPT ![h] = r]
    BY <2>1
  <2> HIDE DEF r
  <2>5. SendOK'
    BY <1>2, <2>3, <2>4, QuietSend DEF ReadVisitor
  <2> QED
    BY <1>2, <1>a, <1>b, <2>3, <2>4, <2>5, HandlerStep DEF ReadVisitor, requester
<1>3. CASE CancelVisitor(h)
  <2>0. handler[h].v \in Visitors
    BY <1>0, <1>3 DEF CancelVisitor, IntentOK
  <2>1. CASE TransitionReturns(handler[h].v, "cancelled") /\ Goto(h, "intent") /\ UNCHANGED missed
    <3>1. VisitorsOK /\ (status'[handler[h].v] = "cancelled" \/ handler[h].v \in unstored')
      BY <2>0, <2>1, TransitionKeeps
    <3>2. PICK r \in Records : handler' = [handler EXCEPT ![h] = r] /\ r.pc = "intent" /\ r.v = handler[h].v
      BY <2>1, NextRecord DEF PCs
    <3>3. SendOK'
      BY <1>3, <2>1, <3>2, QuietSend DEF CancelVisitor
    <3>4. Ended(r.v)'
      BY <3>1, <3>2 DEF Ended
    <3> QED
      BY <1>3, <1>a, <2>0, <2>1, <3>1, <3>2, <3>3, <3>4, HandlerStep DEF CancelVisitor, requester
  <2>2. CASE NextVisitor(h) /\ UNCHANGED <<status, events, unstored, missed, faults>>
    BY <1>3, <1>a, <1>b, <1>c, <2>2, NextRecord DEF CancelVisitor, NextVisitor
  <2>3. CASE /\ Fault /\ missed' = missed \cup {handler[h].v} /\ NextVisitor(h)
             /\ UNCHANGED <<status, events, unstored>>
    <3>1. VisitorsOK
      <4>1. faults' \in 0..MaxFaults
        BY <1>a, <2>3, MaxFaultsAssumption DEF Fault
      <4> QED
        BY <2>0, <2>3, <4>1, EmitKeeps DEF Types
    <3> QED
      BY <1>3, <1>a, <1>c, <2>0, <2>3, <3>1, NextRecord DEF CancelVisitor, NextVisitor
  <2> QED
    BY <1>3, <2>1, <2>2, <2>3 DEF CancelVisitor
<1>4. CASE EmitIntent(h)
  <2>1. handler[h].v \in Visitors /\ Ended(handler[h].v)
    BY <1>0, <1>4 DEF EmitIntent, IntentOK
  <2>2. faults' \in 0..MaxFaults
    BY <1>4, <1>a, MaxFaultsAssumption DEF EmitIntent, Fault
  <2>3. VisitorsOK
    BY <1>4, <2>1, <2>2, EmitKeeps DEF EmitIntent, Types
  <2> QED
    BY <1>4, <1>a, <1>c, <2>3, NextRecord DEF EmitIntent, NextVisitor
<1>5. CASE PassBy(h)
  BY <1>5, <1>a, <1>b, <1>c, NextRecord DEF PassBy, NextVisitor
<1> QED
  BY <1>1, <1>2, <1>3, <1>4, <1>5

(* The notification, the acknowledgement and the crash of a handler *)
LEMMA NotifyStep ==
  ASSUME IInv, NEW h \in Handlers,
         TakeLock(h) \/ Notify(h) \/ RecordNotice(h) \/ Acknowledge(h) \/ HandlerDies(h)
  PROVE  IInv'
<1>0. TypeOK /\ SendOK /\ handler \in [Handlers -> Records]
  BY DEF IInv, TypeOK, Records, Statuses
<1>a. /\ event \in {"none", "pending", "done"} /\ lock \in Handlers \cup {NoHandler}
      /\ notices \in Nat /\ told \in BOOLEAN /\ unrecorded \in Nat /\ missed \subseteq Visitors
      /\ faults \in 0..MaxFaults
  BY <1>0 DEF TypeOK
<1>b. UNCHANGED <<status, events, unstored>> /\ faults' \in 0..MaxFaults => VisitorsOK
  BY <1>0 DEF IInv, TypeOK, Statuses, VisitorsOK, Ended, Admitted, CancelMailIsTrue, InvitedWasAdmitted, HasEvent
<1>c. ASSUME NEW r \in Records, handler' = [handler EXCEPT ![h] = r]
      PROVE  handler'[h] = r /\ \A g \in Handlers \ {h} : handler'[g] = handler[g]
  BY <1>0, <1>c
<1>d. handler[h].pc \in {"send", "record"} \/ lock = NoHandler =>
        \A g \in Handlers \ {h} : handler[g].pc \notin {"send", "record"}
  BY <1>0, NoHandlerAssumption DEF SendOK
<1>1. CASE TakeLock(h)
  <2>1. PICK r \in Records : /\ handler' = [handler EXCEPT ![h] = r]
                             /\ r.pc = IF told THEN "ack" ELSE "send"
    BY <1>1, <1>a, NextRecord DEF TakeLock, PCs
  <2>2. ~Recording /\ ~Recording'
    BY <1>1, <1>c, <1>d, <2>1 DEF TakeLock, Recording
  <2>3. SendOK'
    BY <1>0, <1>1, <1>c, <1>d, <2>1, <2>2 DEF TakeLock, SendOK, requester
  <2>4. r.pc \notin {"act", "intent"}
    BY <2>1
  <2> QED
    BY <1>1, <1>a, <1>b, <2>1, <2>3, <2>4, HandlerStep DEF TakeLock, requester
<1>2. CASE Notify(h)
  <2>1. PICK r \in Records : handler' = [handler EXCEPT ![h] = r] /\ r.pc \in {"record", "ack"}
    BY <1>2, NextRecord DEF Notify, PCs
  <2>2. lock = h /\ ~told /\ ~Recording
    BY <1>0, <1>2, <1>d DEF Notify, SendOK, Recording
  <2>3. faults' \in 0..MaxFaults /\ notices' \in Nat
    BY <1>2, <1>a, MaxFaultsAssumption DEF Notify, Fault
  <2>4. SendOK'
    <3>1. CASE notices' = notices + 1 /\ Goto(h, "record") /\ lock' = lock
      <4>1. handler'[h].pc = "record"
        BY <1>0, <3>1 DEF Goto, Records
      <4>2. Recording'
        BY <4>1 DEF Recording
      <4> QED
        BY <1>0, <1>2, <1>a, <1>c, <1>d, <2>1, <2>2, <3>1, <4>1, <4>2 DEF Notify, SendOK
    <3>2. CASE Goto(h, "ack") /\ notices' = notices
      <4>1. handler'[h].pc = "ack"
        BY <1>0, <3>2 DEF Goto, Records
      <4>2. \A g \in Handlers : handler'[g].pc \notin {"send", "record"}
        BY <1>2, <1>c, <1>d, <2>1, <4>1 DEF Notify
      <4> QED
        BY <1>0, <1>2, <2>2, <3>2, <4>2 DEF Notify, SendOK, Recording
    <3> QED
      BY <1>2, <3>1, <3>2 DEF Notify
  <2>5. lock' \in Handlers \cup {NoHandler}
    BY <1>2, <1>a DEF Notify
  <2> QED
    BY <1>2, <1>a, <1>b, <2>1, <2>3, <2>4, <2>5, HandlerStep DEF Notify
<1>5. CASE RecordNotice(h)
  <2>1. PICK r \in Records : handler' = [handler EXCEPT ![h] = r] /\ r.pc = "ack"
    BY <1>5, NextRecord DEF RecordNotice, PCs
  <2>2. lock = h /\ ~told /\ Recording
    BY <1>0, <1>5 DEF RecordNotice, SendOK, Recording
  <2>3. faults' \in 0..MaxFaults /\ unrecorded' \in Nat /\ (told' = TRUE \/ told' = told)
    BY <1>5, <1>a, MaxFaultsAssumption DEF RecordNotice, Fault
  <2>4. \A g \in Handlers : handler'[g].pc \notin {"send", "record"}
    BY <1>5, <1>c, <1>d, <2>1 DEF RecordNotice
  <2>5. SendOK'
    BY <1>0, <1>5, <1>a, <2>2, <2>4 DEF RecordNotice, SendOK, Recording
  <2> QED
    BY <1>5, <1>a, <1>b, <2>1, <2>3, <2>5, HandlerStep DEF RecordNotice
<1>3. CASE Acknowledge(h)
  <2>1. SendOK'
    BY <1>3, NextRecord, QuietSend DEF Acknowledge
  <2> QED
    BY <1>3, <1>a, <1>b, <2>1, NextRecord, HandlerStep DEF Acknowledge, requester
<1>4. CASE HandlerDies(h)
  <2>1. faults' \in 0..MaxFaults
    BY <1>4, <1>a, MaxFaultsAssumption DEF HandlerDies, Fault
  <2>2. /\ handler'[h].pc = "idle" /\ \A g \in Handlers \ {h} : handler'[g] = handler[g]
    BY <1>4, <1>c, NextRecord DEF HandlerDies
  <2>3. SendOK'
    <3>1. \A g \in Handlers : handler'[g].pc \in {"send", "record"} => lock' = g /\ ~told'
      BY <1>0, <1>4, <2>2 DEF HandlerDies, SendOK
    <3>2. CASE handler[h].pc = "record"
      <4>1. ~told /\ Recording /\ ~Recording'
        BY <1>0, <1>d, <2>2, <3>2 DEF SendOK, Recording
      <4> QED
        BY <1>0, <1>4, <1>a, <3>1, <3>2, <4>1 DEF HandlerDies, SendOK
    <3>3. CASE handler[h].pc # "record"
      <4>1. Recording' <=> Recording
        BY <2>2, <3>3 DEF Recording
      <4> QED
        BY <1>0, <1>4, <3>1, <3>3, <4>1 DEF HandlerDies, SendOK
    <3> QED
      BY <3>2, <3>3
  <2>4. unrecorded' \in Nat
    BY <1>4, <1>a DEF HandlerDies
  <2> QED
    BY <1>4, <1>a, <1>b, <2>1, <2>3, <2>4, NextRecord, HandlerStep DEF HandlerDies
<1> QED
  BY <1>1, <1>2, <1>3, <1>4, <1>5

(* The booking *)
LEMMA BookingStep ==
  ASSUME IInv, CancelBooking \/ RestoreBooking
  PROVE  IInv'
<1>1. TypeOK'
  BY DEF IInv, TypeOK, CancelBooking, RestoreBooking, requester
<1>2. CancelMailIsTrue' /\ InvitedWasAdmitted'
  BY DEF IInv, CancelBooking, RestoreBooking, CancelMailIsTrue, InvitedWasAdmitted, HasEvent
<1>3. OwedOK' /\ IntentOK'
  BY DEF IInv, CancelBooking, RestoreBooking, OwedOK, IntentOK, Admitted, Ended
<1>4. SendOK'
  BY DEF IInv, CancelBooking, RestoreBooking, SendOK, Recording, requester
<1> QED
  BY <1>1, <1>2, <1>3, <1>4 DEF IInv

-----------------------------------------------------------------------------
LEMMA Inductive ==
  Spec => []IInv
<1>1. Init => IInv
  <2> SUFFICES ASSUME Init PROVE IInv
    OBVIOUS
  <2>1. TypeOK
    <3>1. handler \in [Handlers -> [pc : PCs, todo : SUBSET Visitors,
                        v : Visitors \cup {NoVisitor}, seen : VisitorStatuses \cup {"none"}]]
      BY DEF Init, Calm, PCs
    <3>2. faults \in 0..MaxFaults
      BY MaxFaultsAssumption DEF Init
    <3> QED
      BY <3>1, <3>2 DEF Init, TypeOK
  <2>2. \A h \in Handlers : handler[h].pc = "idle"
    BY DEF Init, Calm
  <2> QED
    BY <2>1, <2>2 DEF Init, IInv, CancelMailIsTrue, InvitedWasAdmitted, HasEvent, OwedOK, IntentOK, SendOK,
                      Recording
<1>2. IInv /\ [Next]_vars => IInv'
  <2> SUFFICES ASSUME IInv, [Next]_vars PROVE IInv'
    OBVIOUS
  <2>1. CASE Next
    BY <2>1, VisitsStep, BookingStep, AdapterStep, NotifyStep DEF Next, Cascade
  <2>2. CASE UNCHANGED vars
    <3>1. TypeOK'
      BY <2>2 DEF vars, cascade, requester, IInv, TypeOK
    <3> QED
      BY <2>2, <3>1 DEF vars, cascade, requester, IInv, CancelMailIsTrue, InvitedWasAdmitted,
                        HasEvent, OwedOK, IntentOK, SendOK, Recording, Admitted, Ended
  <2> QED
    BY <2>1, <2>2
<1> QED
  BY <1>1, <1>2, PTL DEF Spec

(* Visitors, booking, handlers and the orders for mail keep their types     *)
(* (bundle-cascade.adapter.ts and the handler of the cascade).              *)
THEOREM TypeCorrect ==
  Spec => []TypeOK
<1>1. IInv => TypeOK
  BY DEF IInv
<1> QED
  BY <1>1, Inductive, PTL

(* Mails of a cancelled visit are ordered exactly for cancelled visits      *)
(* (handleLineCancelled), but for transitions rolled back unseen.           *)
THEOREM CancelMailsAreTrue ==
  Spec => []CancelMailIsTrue
<1>1. IInv => CancelMailIsTrue
  BY DEF IInv
<1> QED
  BY <1>1, Inductive, PTL

(* An invitation is ordered only for an admitted visitor                    *)
(* (onApprovalDecided), with the same exception.                            *)
THEOREM InvitationsAreTrue ==
  Spec => []InvitedWasAdmitted
<1>1. IInv => InvitedWasAdmitted
  BY DEF IInv
<1> QED
  BY <1>1, Inductive, PTL

(* The lock and the audit row let the requester be notified once, and once  *)
(* more for each notification that never got its audit row, for any number  *)
(* of handlers, redeliveries and crashes (maybeNotifyRequester).            *)
THEOREM RequesterIsToldOnce ==
  Spec => []RequesterToldOnce
<1>1. IInv => RequesterToldOnce
  BY DEF IInv, TypeOK, SendOK, RequesterToldOnce
<1> QED
  BY <1>1, Inductive, PTL

-----------------------------------------------------------------------------
(* An acknowledged cancel has reached everyone *)

(* The visitor v is behind the handler h: reached, or he is the one it is   *)
(* about to cancel.                                                         *)
Behind(h, v) ==
  \/ v \in handler[h].todo
  \/ Reached(v)
  \/ handler[h].pc = "act" /\ handler[h].v = v /\ handler[h].seen \in Awaited

(* A handler runs for a cancelled booking only, and whoever was there when  *)
(* it was cancelled is ahead of it or behind it.                            *)
ReachInv ==
  /\ \A v \in atStake : status[v] # "none"
  /\ event = "none" => \A h \in Handlers : handler[h].pc = "idle"
  /\ \A h \in Handlers : handler[h].pc \in {"send", "record", "ack"} => handler[h].todo = {}
  /\ \A h \in Handlers : handler[h].pc # "idle" => \A v \in atStake : Behind(h, v)
  /\ DoneMeansReached

(* Nobody becomes awaited again, and no failure is forgotten. *)
Onward ==
  \A v \in Visitors : status[v] # "none" =>
    status'[v] # "none" /\ (Reached(v) => Reached(v)')

(* A transition leads away from the awaited statuses or within them, and    *)
(* not back.                                                                *)
LEMMA TransitionOnward ==
  ASSUME IInv, NEW v \in Visitors, NEW to \in {"expected", "denied", "arrived", "cancelled"},
         TransitionReturns(v, to), missed \subseteq missed'
  PROVE  Onward
<1>0. status \in [Visitors -> Statuses]
  BY DEF IInv, TypeOK, Statuses
<1>1. CASE Stored(v, to)
  <2>1. status' = [status EXCEPT ![v] = to] /\ unstored' = unstored /\ Moves(v, to)
    BY <1>1 DEF Stored, SetStatus
  <2>2. status[v] \notin Awaited => to \notin Awaited
    BY <1>0, <2>1 DEF Moves, AllowedTransitions, Awaited, Statuses, VisitorStatuses
  <2> QED
    BY <1>0, <2>1, <2>2 DEF Onward, Reached
<1>2. CASE Unchanged(v, to) \/ RolledBack(v, to)
  BY <1>2 DEF Unchanged, RolledBack, Onward, Reached
<1> QED
  BY <1>1, <1>2 DEF TransitionReturns

(* No step undoes what a cascade has reached. *)
LEMMA StepOnward ==
  ASSUME IInv, Next
  PROVE  Onward
<1>0. status \in [Visitors -> Statuses]
  BY DEF IInv, TypeOK, Statuses
<1>1. ASSUME NEW v \in Visitors, NEW st \in Awaited, Invite(v, st) PROVE Onward
  BY <1>0, <1>1 DEF Invite, SetStatus, Onward, Reached, cascade, Awaited
<1>2. ASSUME NEW v \in Visitors, NEW o \in {"expected", "denied"}, OnApprovalDecided(v, o) PROVE Onward
  BY <1>2, TransitionOnward DEF OnApprovalDecided, cascade
<1>3. ASSUME NEW v \in Visitors, NEW to \in {"arrived", "cancelled"}, Visit(v, to) PROVE Onward
  BY <1>3, TransitionOnward DEF Visit, cascade
<1>4. ASSUME NEW h \in Handlers, CancelVisitor(h) PROVE Onward
  <2>1. handler[h].v \in Visitors
    BY <1>4 DEF CancelVisitor, IInv, IntentOK
  <2>2. CASE TransitionReturns(handler[h].v, "cancelled") /\ UNCHANGED missed
    BY <2>1, <2>2, TransitionOnward
  <2>3. CASE UNCHANGED <<status, unstored>> /\ missed \subseteq missed'
    BY <2>3 DEF Onward, Reached
  <2> QED
    BY <1>4, <2>2, <2>3 DEF CancelVisitor
<1>5. CASE UNCHANGED <<status, unstored>> /\ missed \subseteq missed'
  BY <1>5 DEF Onward, Reached
<1> QED
  BY <1>1, <1>2, <1>3, <1>4, <1>5
     DEF Next, Visits, Cascade, EmitInvitation, HandleLineMoved, MoveAborts, CancelBooking,
         RestoreBooking, BeginCascade, ReadVisitor, EmitIntent, PassBy, TakeLock, Notify,
         RecordNotice, Acknowledge, HandlerDies, cascade

(* A step of the visitors or of the booking's status moves no handler. *)
LEMMA ReachFrame ==
  ASSUME ReachInv, Onward, atStake \subseteq Visitors, UNCHANGED <<event, atStake, handler>>
  PROVE  ReachInv'
<1>1. \A v \in atStake : status'[v] # "none" /\ (Reached(v) => Reached(v)')
  BY DEF ReachInv, Onward
<1>2. \A h \in Handlers, v \in atStake : Behind(h, v) => Behind(h, v)'
  BY <1>1 DEF Behind
<1> QED
  BY <1>1, <1>2 DEF ReachInv, DoneMeansReached

(* A step of the handler h, which leaves the event alone. *)
LEMMA ReachHandler ==
  ASSUME ReachInv, Onward, atStake \subseteq Visitors, UNCHANGED <<event, atStake>>,
         NEW h \in Handlers, \A g \in Handlers \ {h} : handler'[g] = handler[g],
         handler'[h].pc # "idle" => event # "none",
         handler'[h].pc \in {"send", "record", "ack"} => handler'[h].todo = {},
         handler'[h].pc # "idle" => \A v \in atStake : Behind(h, v)'
  PROVE  ReachInv'
<1>1. \A v \in atStake : status'[v] # "none" /\ (Reached(v) => Reached(v)')
  BY DEF ReachInv, Onward
<1>2. \A g \in Handlers \ {h}, v \in atStake : Behind(g, v) => Behind(g, v)'
  BY <1>1 DEF Behind
<1> QED
  BY <1>1, <1>2 DEF ReachInv, DoneMeansReached

(* The handlers of the cascade: a visitor is left behind reached. *)
LEMMA CascadeReach ==
  ASSUME IInv, ReachInv, Onward, NEW h \in Handlers, Cascade(h) \/ HandlerDies(h)
  PROVE  ReachInv'
<1>0. /\ atStake \subseteq Visitors
      /\ handler \in [Handlers -> [pc : PCs, todo : SUBSET Visitors,
                                   v : Visitors \cup {NoVisitor}, seen : Statuses]]
      /\ status \in [Visitors -> Statuses]
  BY DEF IInv, TypeOK, Statuses
<1>a. \A u \in atStake : u \in Visitors /\ (Reached(u) => Reached(u)')
  BY <1>0 DEF ReachInv, Onward
<1>1. CASE BeginCascade(h)
  <2>1. /\ handler'[h] = [Calm EXCEPT !.pc = "loop", !.todo = {u \in Visitors : status[u] # "none"}]
        /\ \A g \in Handlers \ {h} : handler'[g] = handler[g]
        /\ event # "none" /\ UNCHANGED <<event, atStake>>
    BY <1>0, <1>1 DEF BeginCascade
  <2>2. handler'[h].pc = "loop" /\ handler'[h].todo = {u \in Visitors : status[u] # "none"}
    BY <2>1 DEF Calm
  <2>3. \A u \in atStake : Behind(h, u)'
    BY <1>a, <2>2 DEF Behind, ReachInv
  <2> QED
    BY <1>0, <2>1, <2>2, <2>3, ReachHandler
<1>2. CASE ReadVisitor(h)
  <2>1. PICK u \in handler[h].todo :
          handler' = [handler EXCEPT ![h] = [pc |-> "act", todo |-> @.todo \ {u},
                                             v |-> u, seen |-> status[u]]]
    BY <1>2 DEF ReadVisitor
  <2>2. /\ handler'[h] = [pc |-> "act", todo |-> handler[h].todo \ {u}, v |-> u, seen |-> status[u]]
        /\ \A g \in Handlers \ {h} : handler'[g] = handler[g]
        /\ handler[h].pc = "loop" /\ UNCHANGED <<status, event, atStake>>
    BY <1>0, <1>2, <2>1 DEF ReadVisitor
  <2>3. ASSUME NEW x \in atStake PROVE Behind(h, x)'
    <3>1. Behind(h, x)
      BY <2>2 DEF ReachInv
    <3>2. CASE x = u /\ status[u] \in Awaited
      BY <2>2, <3>2 DEF Behind
    <3>3. CASE x = u /\ status[u] \notin Awaited
      BY <1>a, <2>2, <3>3 DEF Behind, Reached
    <3>4. CASE x # u
      BY <1>a, <2>2, <3>1, <3>4 DEF Behind
    <3> QED
      BY <3>2, <3>3, <3>4
  <2>4. event # "none"
    BY <2>2 DEF ReachInv
  <2> QED
    BY <1>0, <2>2, <2>3, <2>4, ReachHandler
<1>3. CASE CancelVisitor(h)
  <2>0. PICK v \in Visitors :
          /\ handler[h].pc = "act" /\ handler[h].seen \in Awaited /\ v = handler[h].v
          /\ UNCHANGED <<event, atStake>>
    BY <1>3 DEF CancelVisitor, IInv, IntentOK
  <2>1. /\ \A g \in Handlers \ {h} : handler'[g] = handler[g]
        /\ handler'[h].pc \in {"intent", "loop"} /\ handler'[h].todo = handler[h].todo
    BY <1>0, <1>3 DEF CancelVisitor, Goto, NextVisitor, Calm
  <2>2. Reached(v)'
    <3>1. CASE TransitionReturns(v, "cancelled")
      <4>1. status'[v] = "cancelled" \/ v \in unstored'
        BY <1>0, <2>0, <3>1 DEF TransitionReturns, Stored, Unchanged, RolledBack, SetStatus, SameStatus
      <4> QED
        BY <4>1 DEF Reached, Awaited
    <3>2. CASE ~Accepted(v, "cancelled") /\ UNCHANGED <<status, unstored, missed>>
      <4>1. status[v] \notin Awaited
        BY <3>2 DEF Accepted, Moves, AllowedTransitions, Awaited, VisitorStatuses
      <4> QED
        BY <3>2, <4>1 DEF Reached
    <3>3. CASE missed' = missed \cup {v}
      BY <3>3 DEF Reached
    <3> QED
      BY <1>3, <2>0, <3>1, <3>2, <3>3 DEF CancelVisitor
  <2>3. \A x \in atStake : Behind(h, x)'
    BY <1>a, <2>0, <2>1, <2>2 DEF ReachInv, Behind
  <2>4. event # "none"
    BY <2>0 DEF ReachInv
  <2> QED
    BY <1>0, <2>0, <2>1, <2>3, <2>4, ReachHandler
<1>4. CASE EmitIntent(h) \/ PassBy(h) \/ TakeLock(h) \/ Notify(h) \/ RecordNotice(h)
  <2>1. /\ \A g \in Handlers \ {h} : handler'[g] = handler[g]
        /\ handler[h].pc \in {"intent", "act", "loop", "send", "record"}
        /\ handler'[h].pc \in {"loop", "send", "record", "ack"} /\ handler'[h].todo = handler[h].todo
        /\ UNCHANGED <<event, atStake>>
    BY <1>0, <1>4 DEF EmitIntent, PassBy, TakeLock, Notify, RecordNotice, Goto, NextVisitor, Calm
  <2>2. handler'[h].pc \in {"send", "record", "ack"} => handler[h].todo = {}
    BY <1>0, <1>4 DEF EmitIntent, PassBy, TakeLock, Notify, RecordNotice, NextVisitor, Calm, ReachInv
  <2>3. handler[h].pc = "act" => handler[h].seen \notin Awaited
    BY <1>4 DEF EmitIntent, PassBy, TakeLock, Notify, RecordNotice
  <2>4. \A x \in atStake : Behind(h, x)'
    BY <1>a, <2>1, <2>3 DEF ReachInv, Behind
  <2>5. event # "none"
    BY <2>1 DEF ReachInv
  <2> QED
    BY <1>0, <2>1, <2>2, <2>4, <2>5, ReachHandler
<1>5. CASE Acknowledge(h)
  <2>1. handler[h].pc = "ack" /\ handler[h].todo = {} /\ UNCHANGED <<status, missed, unstored, atStake>>
        /\ event' = "done"
    BY <1>5 DEF Acknowledge, ReachInv
  <2>2. \A x \in atStake : Reached(x)'
    BY <2>1 DEF ReachInv, Behind, Reached
  <2>3. \A g \in Handlers : handler'[g] = handler[g] \/ handler'[g] = Calm
    BY <1>0, <1>5 DEF Acknowledge
  <2>4. Calm.pc = "idle"
    BY DEF Calm
  <2> QED
    BY <2>1, <2>2, <2>3, <2>4 DEF ReachInv, DoneMeansReached, Behind
<1>6. CASE HandlerDies(h)
  <2>1. /\ \A g \in Handlers \ {h} : handler'[g] = handler[g]
        /\ handler'[h] = Calm /\ UNCHANGED <<event, atStake>>
    BY <1>0, <1>6 DEF HandlerDies
  <2>2. handler'[h].pc = "idle"
    BY <2>1 DEF Calm
  <2> QED
    BY <1>0, <2>1, <2>2, ReachHandler
<1> QED
  BY <1>1, <1>2, <1>3, <1>4, <1>5, <1>6 DEF Cascade

(* When the booking is cancelled, no handler is at work. *)
LEMMA CancelReach ==
  ASSUME IInv, ReachInv, CancelBooking
  PROVE  ReachInv'
  BY DEF CancelBooking, ReachInv, DoneMeansReached, Awaited

(* However the deliveries of one cancel overlap, die and repeat, it is      *)
(* acknowledged only when nobody of the booking is left out: the safety     *)
(* half of CancelReachesVisitors (handleBundleCancelled).                   *)
THEOREM CancelIsComplete ==
  Spec => []DoneMeansReached
<1>1. Init => ReachInv
  BY DEF Init, ReachInv, DoneMeansReached, Calm
<1>2. IInv /\ ReachInv /\ [Next]_vars => ReachInv'
  <2> SUFFICES ASSUME IInv, ReachInv, [Next]_vars PROVE ReachInv'
    OBVIOUS
  <2>0. atStake \subseteq Visitors
    BY DEF IInv, TypeOK
  <2>1. CASE UNCHANGED vars
    <3>1. Onward /\ UNCHANGED <<event, atStake, handler>>
      BY <2>1 DEF vars, cascade, Onward, Reached
    <3> QED
      BY <2>0, <3>1, ReachFrame
  <2>2. CASE Visits \/ RestoreBooking
    <3>1. Onward
      BY <2>2, StepOnward DEF Next
    <3>2. UNCHANGED <<event, atStake, handler>>
      BY <2>2 DEF Visits, Invite, OnApprovalDecided, EmitInvitation, Visit, HandleLineMoved,
                  MoveAborts, RestoreBooking, cascade
    <3> QED
      BY <2>0, <3>1, <3>2, ReachFrame
  <2>3. CASE CancelBooking
    BY <2>3, CancelReach
  <2>4. CASE \E h \in Handlers : Cascade(h) \/ HandlerDies(h)
    BY <2>4, StepOnward, CascadeReach DEF Next
  <2> QED
    BY <2>1, <2>2, <2>3, <2>4 DEF Next
<1>3. ReachInv => DoneMeansReached
  BY DEF ReachInv
<1> QED
  BY <1>1, <1>2, <1>3, Inductive, PTL DEF Spec
=============================================================================
