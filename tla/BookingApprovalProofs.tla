------------------------ MODULE BookingApprovalProofs ------------------------
(***************************************************************************)
(* Safety of the approval of a booking, for every set of rows, create      *)
(* calls, approvers, lines and workers, and every chain threshold.         *)
(*                                                                         *)
(* A row is answered once because a create call inserts only rows that do  *)
(* not exist yet (FreshOK).  A rejection is final because it leaves the    *)
(* booking decided and nothing held (RejectedOK).  Setup waits for the     *)
(* service approvers because their rows exist as long as the booking does  *)
(* (PlanOK), so whoever resolves an all-of chain finds them answered.  A   *)
(* workflow goes on only if a resume has claimed it, and only an answer of *)
(* its own chain lets one (FollowsOK).                                     *)
(***************************************************************************)
EXTENDS BookingApproval, TLAPS

Answered == {"approved", "rejected", "expired"}

(* Before the booking exists nothing else does. *)
NewOK ==
  status = "none" =>
    /\ \A r \in Rows : approval[r] = "none"
    /\ \A l \in Lines : event[l] = "none"
    /\ \A c \in Calls : call[c] \in {"rpc"}
    /\ held = {}

(* The rows that a create call has yet to insert do not exist. *)
FreshOK ==
  \A c \in Calls, r \in Rows : ChainOf[r] = c =>
    /\ call[c] \in {"rpc", "check", "insert", "start"} => approval[r] = "none"
    /\ call[c] = "rows" /\ r \in todo[c] => approval[r] = "none"

(* A rejection decides the booking and drops what was held. *)
RejectedOK ==
  (\E r \in Rows : approval[r] = "rejected") =>
    status \in {"confirmed", "cancelled"} /\ held = {}

(* The work orders made are those recorded. *)
MadeOK == \A l \in Lines : made[l] = IF l \in emission THEN 1 ELSE 0

(* What woke the workflow was answered, and is of a call's chain. *)
GrantedOK ==
  \A r \in granted : approval[r] \in {"approved", "rejected"} /\ ChainOf[r] # Plan

(* It decided the booking. *)
WokenOK == granted # {} => status \in {"confirmed", "cancelled"}

(* An instance that is completed, or claimed to go on, was woken by an      *)
(* answer of its own chain.                                                 *)
FollowsOK ==
  \A c \in Calls :
    instance[c] = "completed" \/ c \in claimed => \E r \in granted : ChainOf[r] = c

(* The plan's rows exist from the start of the booking on. *)
PlanOK == status # "none" => \A r \in Rows : ChainOf[r] = Plan => approval[r] # "none"

IInv ==
  /\ TypeOK /\ NewOK /\ FreshOK /\ RejectedOK /\ MadeOK /\ AnyOfOneWinner
  /\ GrantedOK /\ WokenOK /\ FollowsOK /\ PlanOK /\ SetupWaitsForService

(* What a step may not do to answers, and after a rejection. *)
StepOK ==
  /\ \A r \in Rows : approval[r] \in Answered => approval'[r] = approval[r]
  /\ (\E r \in Rows : approval[r] = "rejected") =>
       /\ status' \in {status, "cancelled"}
       /\ \A l \in Lines : event'[l] = "queued" => event[l] = "queued"

USE PlanAssumption, RowsAssumption, RuleAssumption, NoRowAssumption, MaxCrashesAssumption

(* Nothing exists at first. *)
LEMMA InitInv == Init => IInv
<1> SUFFICES ASSUME Init PROVE IInv
  OBVIOUS
<1>1. TypeOK
  <2>1. cancelled \in BOOLEAN
    BY DEF Init
  <2>2. \A c \in Calls : todo[c] \subseteq RowsOf(c)
    BY DEF Init
  <2>3. granted \in SUBSET Rows /\ wake \in SUBSET granted /\ held \in SUBSET Lines
        /\ emission \in SUBSET Lines /\ open \in SUBSET emission
    BY DEF Init
  <2>4. todo \in [Calls -> SUBSET Rows]
    BY DEF Init
  <2>5. crashes \in 0..MaxCrashes /\ claimed \in SUBSET Calls
    BY DEF Init
  <2>6. QED
    BY <2>1, <2>2, <2>3, <2>4, <2>5 DEF Init, TypeOK
<1>2. NewOK /\ FreshOK /\ RejectedOK /\ MadeOK
  BY DEF Init, NewOK, FreshOK, RejectedOK, MadeOK
<1>3. AnyOfOneWinner /\ GrantedOK /\ WokenOK /\ FollowsOK
  BY DEF Init, AnyOfOneWinner, GrantedOK, WokenOK, FollowsOK
<1>4. PlanOK
  BY DEF Init, PlanOK
<1>5. SetupWaitsForService
  BY DEF Init, SetupWaitsForService
<1>6. QED
  BY <1>1, <1>2, <1>3, <1>4, <1>5 DEF IInv

(* A step that at most expires open rows, drops held lines and cancels. *)
LEMMA Frame ==
  ASSUME IInv, TypeOK', MadeOK',
         \A r \in Rows : \/ approval'[r] = approval[r]
                         \/ approval[r] = "pending" /\ approval'[r] = "expired",
         \A l \in Lines : event'[l] = event[l]
                          \/ (event[l] # "none" /\ event'[l] = "settled"),
         held' \subseteq held,
         status' = status \/ (status # "none" /\ status' = "cancelled"),
         \A c \in Calls : instance'[c] = "completed" \/ c \in claimed' =>
           \/ instance[c] = "completed" \/ c \in claimed
           \/ \E r \in granted : ChainOf[r] = c,
         UNCHANGED <<call, todo, granted>>
  PROVE  IInv' /\ StepOK
<1> USE DEF IInv, TypeOK
<1>1. NewOK'
  BY DEF NewOK
<1>2. FreshOK'
  BY DEF FreshOK
<1>3. RejectedOK'
  BY DEF RejectedOK
<1>4. AnyOfOneWinner' /\ GrantedOK' /\ WokenOK' /\ FollowsOK'
  BY DEF AnyOfOneWinner, GrantedOK, WokenOK, FollowsOK
<1>5. PlanOK'
  BY DEF PlanOK
<1>6. SetupWaitsForService'
  BY DEF SetupWaitsForService, RoomRows
<1>7. StepOK
  BY DEF StepOK, Answered
<1>8. QED
  BY <1>1, <1>2, <1>3, <1>4, <1>5, <1>6, <1>7

(* A grant that reads, a resume, a cancelled workflow and its sweeper. *)
LEMMA FlowSteps ==
  ASSUME IInv,
         \/ \E g \in Grants, r \in Rows, d \in {"approved", "rejected"} : GrantRead(g, r, d)
         \/ \E r \in Rows : ResumeClaim(r) \/ ResumeDone(r)
         \/ \E c \in Calls : ResumeAdvance(c) \/ ResumeDies(c)
         \/ \E again \in BOOLEAN : CancelDriving(again)
         \/ SweepOrphanedApprovals
  PROVE  IInv' /\ StepOK
<1> USE DEF IInv, booking, create, grants, setup
<1>1. ASSUME NEW g \in Grants, NEW r \in Rows, NEW d \in {"approved", "rejected"},
             GrantRead(g, r, d)
      PROVE  IInv' /\ StepOK
  <2>1. TypeOK'
    BY <1>1 DEF GrantRead, TypeOK
  <2>2. MadeOK'
    BY <1>1 DEF GrantRead, MadeOK
  <2>3. QED
    BY <1>1, <2>1, <2>2, Frame DEF GrantRead
<1>2. ASSUME NEW r \in Rows, ResumeClaim(r) \/ ResumeDone(r)
      PROVE  IInv' /\ StepOK
  <2>1. CASE ResumeClaim(r)
    <3>1. r \in granted /\ ChainOf[r] \in Calls
      BY <2>1 DEF ResumeClaim, TypeOK, GrantedOK, Chains
    <3>2. TypeOK'
      BY <2>1, <3>1 DEF ResumeClaim, TypeOK
    <3>3. MadeOK'
      BY <2>1 DEF ResumeClaim, MadeOK
    <3>4. QED
      BY <2>1, <3>1, <3>2, <3>3, Frame DEF ResumeClaim, TypeOK
  <2>2. CASE ResumeDone(r)
    <3>1. TypeOK'
      BY <2>2 DEF ResumeDone, TypeOK
    <3>2. MadeOK'
      BY <2>2 DEF ResumeDone, MadeOK
    <3>3. QED
      BY <2>2, <3>1, <3>2, Frame DEF ResumeDone
  <2>3. QED
    BY <1>2, <2>1, <2>2
<1>6. ASSUME NEW c \in Calls, ResumeAdvance(c) \/ ResumeDies(c)
      PROVE  IInv' /\ StepOK
  <2>1. TypeOK'
    BY <1>6 DEF ResumeAdvance, ResumeDies, TypeOK
  <2>2. MadeOK'
    BY <1>6 DEF ResumeAdvance, ResumeDies, MadeOK
  <2>3. QED
    BY <1>6, <2>1, <2>2, Frame DEF ResumeAdvance, ResumeDies, TypeOK
<1>3. ASSUME NEW again \in BOOLEAN, CancelDriving(again)
      PROVE  IInv' /\ StepOK
  <2>1. TypeOK'
    BY <1>3 DEF CancelDriving, SetApprovals, TypeOK
  <2>2. MadeOK'
    BY <1>3 DEF CancelDriving, MadeOK
  <2>3. QED
    BY <1>3, <2>1, <2>2, Frame DEF CancelDriving, SetApprovals, Pending, TypeOK
<1>4. ASSUME SweepOrphanedApprovals
      PROVE  IInv' /\ StepOK
  <2>1. TypeOK'
    BY <1>4 DEF SweepOrphanedApprovals, SetApprovals, TypeOK
  <2>2. MadeOK'
    BY <1>4 DEF SweepOrphanedApprovals, MadeOK
  <2>3. QED
    BY <1>4, <2>1, <2>2, Frame DEF SweepOrphanedApprovals, SetApprovals, Pending, TypeOK
<1>5. QED
  BY <1>1, <1>2, <1>3, <1>4, <1>6

(* The cancels. *)
LEMMA CancelSteps ==
  ASSUME IInv, CancelStep
  PROVE  IInv' /\ StepOK
<1> USE DEF IInv, create, grants, CancelOf, SetApprovals, Pending
<1>1. ASSUME CancelBooking PROVE IInv' /\ StepOK
  <2>1. TypeOK'
    BY <1>1 DEF CancelBooking, TypeOK
  <2>2. MadeOK'
    BY <1>1 DEF CancelBooking, MadeOK
  <2>3. QED
    BY <1>1, <2>1, <2>2, Frame DEF CancelBooking, TypeOK
<1>2. ASSUME NEW l \in Lines, CancelLine(l) PROVE IInv' /\ StepOK
  <2>1. TypeOK'
    BY <1>2 DEF CancelLine, TypeOK
  <2>2. MadeOK'
    BY <1>2 DEF CancelLine, MadeOK
  <2>3. QED
    BY <1>2, <2>1, <2>2, Frame DEF CancelLine, TypeOK
<1>3. ASSUME NEW keep \in SUBSET Lines, CancelBundle(keep) PROVE IInv' /\ StepOK
  <2>1. TypeOK'
    BY <1>3 DEF CancelBundle, TypeOK
  <2>2. MadeOK'
    BY <1>3 DEF CancelBundle, MadeOK
  <2>3. QED
    BY <1>3, <2>1, <2>2, Frame DEF CancelBundle, TypeOK
<1>4. QED
  BY <1>1, <1>2, <1>3 DEF CancelStep

(* The lines and the setup workers. *)
LEMMA SetupSteps ==
  ASSUME IInv,
         \/ \E l \in Lines : LineStep(l)
         \/ \E w \in Workers : WorkerStep(w)
  PROVE  IInv' /\ StepOK
<1> USE DEF IInv, booking, create, grants
<1>1. ASSUME NEW l \in Lines, Prepare(l) PROVE IInv' /\ StepOK
  <2>1. TypeOK'
    BY <1>1 DEF Prepare, TypeOK
  <2>2. MadeOK'
    BY <1>1 DEF Prepare, MadeOK
  <2>3. QED
    BY <1>1, <2>1, <2>2, Frame DEF Prepare
<1>2. ASSUME NEW l \in Lines, NEW w \in Workers, SetupRead(w, l) PROVE IInv' /\ StepOK
  <2>1. TypeOK'
    BY <1>2 DEF SetupRead, TypeOK
  <2>2. MadeOK'
    BY <1>2 DEF SetupRead, MadeOK
  <2>3. QED
    BY <1>2, <2>1, <2>2, Frame DEF SetupRead
<1>3. ASSUME NEW l \in Lines, SetupSettled(l) PROVE IInv' /\ StepOK
  <2>1. TypeOK'
    BY <1>3 DEF SetupSettled, TypeOK
  <2>2. MadeOK'
    BY <1>3 DEF SetupSettled, MadeOK
  <2>3. QED
    BY <1>3, <2>1, <2>2, Frame DEF SetupSettled, TypeOK
<1>4. ASSUME NEW w \in Workers, SetupWrite(w) PROVE IInv' /\ StepOK
  <2>1. TypeOK'
    <3>1. building[w] \in Lines
      BY <1>4 DEF SetupWrite, TypeOK
    <3>2. QED
      BY <1>4, <3>1 DEF SetupWrite, TypeOK
  <2>2. MadeOK'
    BY <1>4 DEF SetupWrite, AlreadyCreated, MadeOK, TypeOK
  <2>3. QED
    BY <1>4, <2>1, <2>2, Frame DEF SetupWrite
<1>5. ASSUME NEW w \in Workers, SetupGivesUp(w) PROVE IInv' /\ StepOK
  <2>1. TypeOK'
    BY <1>5 DEF SetupGivesUp, TypeOK
  <2>2. MadeOK'
    BY <1>5 DEF SetupGivesUp, MadeOK
  <2>3. QED
    BY <1>5, <2>1, <2>2, Frame DEF SetupGivesUp
<1>6. QED
  BY <1>1, <1>2, <1>3, <1>4, <1>5 DEF LineStep, WorkerStep

(* The combined RPC, first or again. *)
LEMMA CreateRpcStep ==
  ASSUME IInv, NEW c \in Calls, CreateRpc(c)
  PROVE  IInv' /\ StepOK
<1> USE DEF IInv, CreateRpc, Call, SetApprovals, grants
<1>1. TypeOK'
  BY DEF TypeOK
<1>2. NewOK'
  BY DEF NewOK, TypeOK
<1>3. FreshOK'
  BY DEF FreshOK, NewOK, RowsOf, TypeOK
<1>4. RejectedOK' /\ MadeOK' /\ AnyOfOneWinner' /\ GrantedOK'
  BY DEF RejectedOK, MadeOK, AnyOfOneWinner, GrantedOK, NewOK, TypeOK
<1>4a. WokenOK' /\ FollowsOK'
  BY DEF WokenOK, FollowsOK, GrantedOK, NewOK, TypeOK
<1>5. PlanOK'
  BY DEF PlanOK, RowsOf, TypeOK
<1>6. SetupWaitsForService'
  BY DEF SetupWaitsForService, RoomRows, TypeOK
<1>7. StepOK
  BY DEF StepOK, Answered, NewOK
<1>8. QED
  BY <1>1, <1>2, <1>3, <1>4, <1>4a, <1>5, <1>6, <1>7

(* The check before the fan-out. *)
LEMMA FanoutCheckStep ==
  ASSUME IInv, NEW c \in Calls, FanoutCheck(c)
  PROVE  IInv' /\ StepOK
<1> USE DEF IInv, FanoutCheck, Call, booking, grants, setup
<1>1. TypeOK'
  BY DEF TypeOK
<1>2. status # "none"
  BY DEF NewOK
<1>3. NewOK' /\ FreshOK'
  BY <1>2 DEF NewOK, FreshOK, TypeOK
<1>4. /\ RejectedOK' /\ MadeOK' /\ AnyOfOneWinner'
      /\ GrantedOK' /\ WokenOK' /\ FollowsOK'
  BY DEF RejectedOK, MadeOK, AnyOfOneWinner, GrantedOK, WokenOK, FollowsOK
<1>5. PlanOK' /\ SetupWaitsForService'
  BY DEF PlanOK, SetupWaitsForService
<1>6. StepOK
  BY DEF StepOK, Answered
<1>7. QED
  BY <1>1, <1>3, <1>4, <1>5, <1>6

(* The flat rows of a call. *)
LEMMA CreateApprovalRowsStep ==
  ASSUME IInv, NEW c \in Calls, CreateApprovalRows(c)
  PROVE  IInv' /\ StepOK
<1> USE DEF IInv, CreateApprovalRows, Call, SetApprovals, grants, setup
<1>1. TypeOK'
  BY DEF TypeOK
<1>2. status # "none"
  BY DEF NewOK
<1>3. \A r \in Rows : ChainOf[r] = c => approval[r] = "none"
  BY DEF FreshOK
<1>4. NewOK' /\ FreshOK'
  BY <1>2 DEF NewOK, FreshOK, RowsOf, TypeOK
<1>5. RejectedOK' /\ MadeOK' /\ GrantedOK' /\ WokenOK' /\ FollowsOK'
  BY <1>3 DEF RejectedOK, MadeOK, GrantedOK, WokenOK, FollowsOK, RowsOf, TypeOK
<1>6. AnyOfOneWinner'
  BY <1>3 DEF AnyOfOneWinner, RowsOf, TypeOK
<1>7. PlanOK'
  BY DEF PlanOK, TypeOK
<1>8. SetupWaitsForService'
  BY <1>3 DEF SetupWaitsForService, RoomRows, RowsOf, TypeOK
<1>9. StepOK
  BY <1>3 DEF StepOK, Answered, RowsOf, TypeOK
<1>10. QED
  BY <1>1, <1>4, <1>5, <1>6, <1>7, <1>8, <1>9

(* The workflow's start, its wait, and a call that dies. *)
LEMMA EngineSteps ==
  ASSUME IInv, NEW c \in Calls,
         StartForBooking(c) \/ WaitForApproval(c) \/ CallDies(c)
  PROVE  IInv' /\ StepOK
<1> USE DEF IInv, Call, booking, grants, setup
<1>1. TypeOK'
  <2>1. CASE StartForBooking(c)
    <3>1. RowsOf(c) \subseteq Rows
      BY DEF RowsOf
    <3>2. QED
      BY <2>1, <3>1 DEF TypeOK, StartForBooking
  <2>2. CASE WaitForApproval(c)
    BY <2>2 DEF TypeOK, WaitForApproval
  <2>3. CASE CallDies(c)
    BY <2>3 DEF TypeOK, CallDies
  <2>4. QED
    BY <2>1, <2>2, <2>3
<1>2. status # "none"
  BY DEF NewOK, StartForBooking, WaitForApproval, CallDies
<1>3. UNCHANGED <<status, approval, granted, held, event, emission, made>>
  BY DEF StartForBooking, WaitForApproval, CallDies
<1>4. NewOK' /\ FreshOK'
  BY <1>2 DEF NewOK, FreshOK, TypeOK, StartForBooking, WaitForApproval, CallDies
<1>5. /\ RejectedOK' /\ MadeOK' /\ AnyOfOneWinner'
      /\ GrantedOK' /\ WokenOK' /\ PlanOK'
  BY <1>3 DEF RejectedOK, MadeOK, AnyOfOneWinner, GrantedOK, WokenOK, PlanOK
<1>9. FollowsOK'
  BY DEF FollowsOK, TypeOK, StartForBooking, WaitForApproval, CallDies
<1>7. SetupWaitsForService' /\ StepOK
  BY <1>3 DEF SetupWaitsForService, StepOK, Answered
<1>10. QED
  BY <1>1, <1>4, <1>5, <1>7, <1>9

(* The workflow's rows. *)
LEMMA InsertRowStep ==
  ASSUME IInv, NEW c \in Calls, NEW r \in Rows, InsertRow(c, r)
  PROVE  IInv' /\ StepOK
<1> USE DEF IInv, InsertRow, Call, SetApprovals, grants, setup
<1>1. TypeOK'
  BY DEF TypeOK
<1>2. status # "none"
  BY DEF NewOK
<1>3. approval[r] = "none" /\ ChainOf[r] = c
  BY DEF FreshOK, TypeOK, RowsOf
<1>4. NewOK' /\ FreshOK'
  BY <1>2, <1>3 DEF NewOK, FreshOK, RowsOf, TypeOK
<1>5. /\ RejectedOK' /\ MadeOK' /\ AnyOfOneWinner'
      /\ GrantedOK' /\ WokenOK' /\ FollowsOK'
  BY <1>3 DEF RejectedOK, MadeOK, AnyOfOneWinner, GrantedOK, WokenOK, FollowsOK, TypeOK
<1>6. PlanOK'
  BY DEF PlanOK, TypeOK
<1>7. SetupWaitsForService'
  BY <1>3 DEF SetupWaitsForService, RoomRows, TypeOK
<1>8. StepOK
  BY <1>3 DEF StepOK, Answered, TypeOK
<1>9. QED
  BY <1>1, <1>4, <1>5, <1>6, <1>7, <1>8

(* What the grant RPC writes under the lock. *)
LEMMA GrantLockedStep ==
  ASSUME IInv, NEW g \in Grants, GrantLocked(g)
  PROVE  IInv' /\ StepOK
<1> DEFINE r == on[g]
           d == verdict[g]
           out == Outcome(r, d)
           resolved == out \in {"confirmed", "cancelled"}
<1> USE DEF IInv
<1>1. r \in Rows /\ d \in {"approved", "rejected"}
  BY DEF GrantLocked, TypeOK
<1>2. on' \in [Grants -> Rows \cup {NoRow}] /\ verdict' \in [Grants -> {"approved", "rejected"}]
  BY DEF GrantLocked, GrantEnds, TypeOK
<1>3. UNCHANGED <<cancelled, create, line, emission, made, open, building>>
  BY DEF GrantLocked
<1>4. MadeOK'
  BY <1>3 DEF MadeOK
<1>5. CASE ~StillPending(r)
  <2>1. UNCHANGED <<status, approval, granted, wake, held, event>>
    BY <1>5 DEF GrantLocked
  <2>2. TypeOK'
    BY <1>2, <1>3, <2>1 DEF TypeOK, create
  <2>3. QED
    BY <1>3, <1>4, <2>1, <2>2, Frame DEF create
<1>6. CASE StillPending(r)
  <2>1. approval[r] = "pending" /\ status # "none"
    BY <1>1, <1>6 DEF StillPending, NewOK
  <2>2. approval' = [q \in Rows |-> CASE q = r -> d
                                      [] q \in Expires(r, d) -> "expired"
                                      [] OTHER -> approval[q]]
    BY <1>6 DEF GrantLocked
  <2>3. Expires(r, d) \subseteq Pending \ {r}
    BY DEF Expires
  <2>4. \A q \in Rows : \/ approval'[q] = approval[q]
                        \/ q = r /\ approval'[q] = d
                        \/ q # r /\ approval[q] = "pending" /\ approval'[q] = "expired"
    BY <2>2, <2>3 DEF Pending
  <2>5. approval'[r] = d
    BY <1>1, <2>2, <2>3
  <2>6. out \in {"cancelled", "already_resolved", "confirmed", "partial_approved"}
    BY <1>1 DEF Outcome
  <2>7. status' = IF resolved THEN NextStatus(out) ELSE status
    BY <1>6 DEF GrantLocked
  <2>8. status' = status \/ (status = "pending_approval" /\ status' = out /\ resolved)
    BY <2>7 DEF NextStatus
  <2>9. granted' \subseteq granted \cup {r} /\ granted \subseteq granted'
        /\ wake' \subseteq wake \cup {r} /\ (r \in wake' => r \in wake \/ r \in granted')
        /\ (~resolved => granted' = granted) /\ (ChainOf[r] = Plan => granted' = granted)
    BY <1>6 DEF GrantLocked, Wakes
  <2>10. \/ out = "confirmed" /\ EmitSetup
         \/ out = "cancelled" /\ held' = {} /\ event' = event
         \/ ~resolved /\ held' = held /\ event' = event
    <3> HIDE DEF out
    <3>1. CASE out = "confirmed"
      BY <1>6, <3>1 DEF GrantLocked, out
    <3>2. CASE out = "cancelled"
      BY <1>6, <3>2 DEF GrantLocked, out
    <3>3. CASE out \notin {"confirmed", "cancelled"}
      BY <1>6, <3>3 DEF GrantLocked, out
    <3>4. QED
      BY <3>1, <3>2, <3>3
  <2>11. held' \subseteq held
    BY <2>10 DEF EmitSetup
  <2>12. event' \in [Lines -> {"none", "queued", "settled"}]
         /\ \A l \in Lines : event'[l] = event[l]
                             \/ (l \in held /\ event'[l] = "queued" /\ out = "confirmed")
    BY <2>10 DEF EmitSetup, TypeOK
  <2>13. d = "rejected" <=> out = "cancelled"
    BY <1>1 DEF Outcome
  <2>14. d = "rejected" => held' = {}
    BY <2>10, <2>13
  <2> HIDE DEF r, d, out
  <2>15. TypeOK'
    <3>1. approval' \in [Rows -> {"none", "pending", "approved", "rejected", "expired"}]
      BY <1>1, <2>2 DEF TypeOK
    <3>2. granted' \in SUBSET Rows /\ wake' \in SUBSET granted'
      BY <1>1, <2>9 DEF TypeOK
    <3>3. status' \in {"none", "pending_approval", "confirmed", "cancelled"}
      BY <2>8 DEF TypeOK
    <3>4. QED
      BY <1>2, <1>3, <2>11, <2>12, <3>1, <3>2, <3>3 DEF TypeOK, create
  <2>16. NewOK'
    BY <2>1, <2>8 DEF NewOK
  <2>17. FreshOK'
    BY <1>1, <1>3, <2>1, <2>4 DEF FreshOK, create
  <2>18. RejectedOK'
    BY <1>1, <2>1, <2>4, <2>6, <2>7, <2>8, <2>11, <2>13, <2>14 DEF RejectedOK, NextStatus, TypeOK
  <2>19. GrantedOK'
    BY <1>1, <2>4, <2>5, <2>9 DEF GrantedOK, TypeOK
  <2>26. WokenOK'
    BY <2>1, <2>7, <2>8, <2>9 DEF WokenOK, NextStatus, TypeOK
  <2>27. FollowsOK'
    BY <1>3, <2>9 DEF FollowsOK, create
  <2>20. AnyOfOneWinner'
    <3>1. \A q \in granted : q # r /\ approval'[q] = approval[q]
      BY <2>1, <2>4 DEF GrantedOK, TypeOK
    <3>2. ASSUME r \in granted', d = "approved", Threshold[ChainOf[r]] = "any",
                 NEW q \in granted, ChainOf[q] = ChainOf[r], approval[q] = "approved"
          PROVE  FALSE
      <4>1. SiblingApproved(r)
        BY <3>1, <3>2 DEF SiblingApproved, RowsOf, TypeOK
      <4>2. out = "already_resolved"
        BY <3>2, <4>1 DEF out, Outcome
      <4>3. QED
        BY <2>9, <3>1, <3>2, <4>2
    <3>3. QED
      BY <2>5, <2>9, <3>1, <3>2 DEF AnyOfOneWinner
  <2>22. PlanOK'
    BY <1>1, <2>1, <2>4, <2>8 DEF PlanOK
  <2>23. SetupWaitsForService'
    <3> SUFFICES ASSUME NEW l \in Lines, event'[l] # "none"
                 PROVE  \/ \A p \in Rows \ RoomRows : approval'[p] \in {"approved", "expired"}
                        \/ \E q \in RoomRows : /\ Threshold[ChainOf[q]] = "any"
                                               /\ approval'[q] = "approved"
      BY DEF SetupWaitsForService, RoomRows
    <3>1. \A q \in Rows : approval[q] \in {"approved", "expired"} => approval'[q] = approval[q]
      BY <2>1, <2>4
    <3>2. CASE event[l] # "none"
      BY <3>1, <3>2 DEF SetupWaitsForService, RoomRows
    <3>3. CASE event[l] = "none"
      <4>1. l \in held /\ out = "confirmed" /\ d = "approved"
        BY <1>1, <2>12, <2>13, <3>3
      <4>2. \A q \in Rows : approval[q] # "rejected"
        BY <4>1 DEF RejectedOK
      <4>3. \A p \in Rows \ RoomRows : ChainOf[p] = Plan /\ approval[p] # "none"
        BY <2>1 DEF RoomRows, PlanOK
      <4>4. CASE Threshold[ChainOf[r]] = "any" /\ ChainOf[r] # Plan
        BY <1>1, <2>5, <4>1, <4>4 DEF RoomRows
      <4>5. CASE Threshold[ChainOf[r]] = "any" /\ ChainOf[r] = Plan
        <5>1. Expires(r, d) = (Pending \cap RowsOf(Plan)) \ {r}
          BY <4>1, <4>5 DEF Expires, out
        <5>2. ASSUME NEW p \in Rows \ RoomRows PROVE approval'[p] \in {"approved", "expired"}
          BY <2>2, <2>5, <4>1, <4>2, <4>3, <5>1 DEF Pending, RowsOf, TypeOK
        <5>3. QED
          BY <5>2
      <4>6. CASE Threshold[ChainOf[r]] # "any"
        <5>1. ~Unresolved(r)
          BY <4>1, <4>6 DEF out, Outcome
        <5>2. ASSUME NEW p \in Rows \ RoomRows PROVE approval'[p] \in {"approved", "expired"}
          BY <2>4, <2>5, <4>1, <4>3, <5>1 DEF Unresolved, TypeOK
        <5>3. QED
          BY <5>2
      <4>7. QED
        BY <4>4, <4>5, <4>6
    <3>4. QED
      BY <3>2, <3>3
  <2>24. StepOK
    <3>1. \A q \in Rows : approval[q] \in Answered => approval'[q] = approval[q]
      BY <2>1, <2>4 DEF Answered
    <3>2. ASSUME \E q \in Rows : approval[q] = "rejected"
          PROVE  status' = status /\ \A l \in Lines : event'[l] = event[l]
      BY <2>8, <2>12, <3>2 DEF RejectedOK
    <3>3. QED
      BY <3>1, <3>2 DEF StepOK
  <2>25. QED
    BY <1>4, <2>15, <2>16, <2>17, <2>18, <2>19, <2>20, <2>22, <2>23, <2>24, <2>26,
       <2>27
<1>7. QED
  BY <1>5, <1>6

(* Every step keeps the invariant. *)
LEMMA NextInv == IInv /\ [Next]_vars => IInv' /\ (StepOK \/ UNCHANGED vars)
<1> SUFFICES ASSUME IInv, [Next]_vars PROVE IInv' /\ (StepOK \/ UNCHANGED vars)
  OBVIOUS
<1>1. ASSUME NEW c \in Calls, CallStep(c) PROVE IInv' /\ StepOK
  BY <1>1, CreateRpcStep, FanoutCheckStep, CreateApprovalRowsStep, EngineSteps,
     InsertRowStep DEF CallStep
<1>2. ASSUME NEW g \in Grants, GrantStep(g) PROVE IInv' /\ StepOK
  BY <1>2, FlowSteps, GrantLockedStep DEF GrantStep
<1>3. ASSUME EventStep PROVE IInv' /\ StepOK
  BY <1>3, FlowSteps DEF EventStep
<1>4. ASSUME CancelStep PROVE IInv' /\ StepOK
  BY <1>4, CancelSteps
<1>5. ASSUME \/ \E l \in Lines : LineStep(l)
             \/ \E w \in Workers : WorkerStep(w)
      PROVE  IInv' /\ StepOK
  BY <1>5, SetupSteps
<1>6. ASSUME UNCHANGED vars PROVE IInv'
  <2>1. TypeOK'
    BY <1>6 DEF vars, booking, create, grants, setup, IInv, TypeOK
  <2>2. MadeOK'
    BY <1>6 DEF vars, booking, create, grants, setup, IInv, MadeOK
  <2>3. QED
    BY <1>6, <2>1, <2>2, Frame DEF vars, booking, create, grants, setup
<1>7. QED
  BY <1>1, <1>2, <1>3, <1>4, <1>5, <1>6 DEF Next

(* The invariant holds in every behaviour. *)
LEMMA Invariant == Spec => []IInv
  BY InitInv, NextInv, PTL DEF Spec

-----------------------------------------------------------------------------
(* Types: the grant RPC, the fan-outs and the cancels write only statuses   *)
(* that the tables allow, and a setup work order always has its emission.   *)
THEOREM TypeCorrect == Spec => []TypeOK
<1>1. IInv => TypeOK
  BY DEF IInv
<1>2. QED
  BY <1>1, Invariant, PTL

(* A line gets at most one setup work order, however often and by however   *)
(* many workers its event is handled.                                       *)
THEOREM OneWorkOrder == Spec => []AtMostOneWorkOrder
<1>1. IInv => AtMostOneWorkOrder
  BY DEF IInv, MadeOK, AtMostOneWorkOrder
<1>2. QED
  BY <1>1, Invariant, PTL

(* Of the rows of an any-of chain one approval resolves the booking, for    *)
(* any number of approvers that answer at the same time.                    *)
THEOREM OneWinner == Spec => []AnyOfOneWinner
<1>1. IInv => AnyOfOneWinner
  BY DEF IInv
<1>2. QED
  BY <1>1, Invariant, PTL

(* A workflow goes on only when an answer of its own chain has decided the  *)
(* booking, for any number of retried create calls and redelivered events.  *)
THEOREM WorkflowInStep == Spec => []WorkflowFollows
<1>1. IInv => WorkflowFollows
  BY DEF IInv, GrantedOK, WokenOK, FollowsOK, WorkflowFollows, RowsOf, TypeOK
<1>2. QED
  BY <1>1, Invariant, PTL

(* No setup event exists before the service approvers agreed, unless an     *)
(* any-of chain of room approvers resolved the booking: for every rule,     *)
(* flat or workflow, every threshold and every order of the answers.        *)
THEOREM SetupAfterService == Spec => []SetupWaitsForService
<1>1. IInv => SetupWaitsForService
  BY DEF IInv
<1>2. QED
  BY <1>1, Invariant, PTL

(* No answer of an approver is ever overwritten. *)
THEOREM AnswersAreFinal == Spec => DecidedOnce
<1>1. IInv /\ [Next]_vars =>
        [\A r \in Rows : approval[r] \in {"approved", "rejected", "expired"}
                            => approval'[r] = approval[r]]_vars
  BY NextInv DEF StepOK, Answered
<1>2. QED
  BY <1>1, Invariant, PTL DEF Spec, DecidedOnce

(* After a rejection no booking is confirmed and no setup emitted. *)
THEOREM RejectionStands == Spec => RejectionIsFinal
<1>1. IInv /\ [Next]_vars =>
        [(\E r \in Rows : approval[r] = "rejected") =>
           /\ status' \in {status, "cancelled"}
           /\ \A l \in Lines : event'[l] = "queued" => event[l] = "queued"]_vars
  BY NextInv DEF StepOK
<1>2. QED
  BY <1>1, Invariant, PTL DEF Spec, RejectionIsFinal
=============================================================================
