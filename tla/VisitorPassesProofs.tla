------------------------ MODULE VisitorPassesProofs ------------------------
(***************************************************************************)
(* Safety of the visitors' desk, for every set of visitors, passes and     *)
(* concurrent check-outs.  The invariant is inductive together with the    *)
(* types: a call that takes a pass from whoever has it finds its holder in *)
(* the row of the pass, because nobody else points at that pass.           *)
(***************************************************************************)
EXTENDS VisitorPasses, TLAPS

(* What a step may not do to a visit that has ended. *)
EndKept ==
  \A v \in Visitors : status[v] \in Terminal =>
    status'[v] = status[v] /\ checkout_source'[v] = checkout_source[v]

IInv == TypeOK /\ PointerIsTrue

Statuses == VisitorStatuses \cup {"none"}

-----------------------------------------------------------------------------
(* A visit that has ended does not move. *)
LEMMA TerminalStays ==
  ASSUME NEW v \in Visitors, status[v] \in Terminal, NEW to
  PROVE  ~Moves(v, to) /\ status[v] # "none"
  BY DEF Terminal, Moves, VisitorStatuses

(* Setting the status of a visitor who may move ends no visit twice. *)
LEMMA SetStatusKeeps ==
  ASSUME status \in [Visitors -> Statuses], NEW v \in Visitors,
         NEW to \in VisitorStatuses, SetStatus(v, to),
         status[v] \notin Terminal \/ status[v] = to
  PROVE  /\ status' \in [Visitors -> Statuses]
         /\ \A u \in Visitors : status[u] \in Terminal => status'[u] = status[u]
  BY DEF SetStatus, Statuses

LEMMA AcceptedKeeps ==
  ASSUME NEW v \in Visitors, NEW to, Accepted(v, to)
  PROVE  status[v] \notin Terminal \/ status[v] = to
  BY TerminalStays DEF Accepted, SameStatus

(* A check-out changes how no visit ended. *)
LEMMA CheckOutReturnsKeeps ==
  ASSUME TypeOK, NEW v \in Visitors, NEW source \in Sources, CheckOutReturns(v, source)
  PROVE  /\ status' \in [Visitors -> Statuses]
         /\ checkout_source' \in [Visitors -> Sources]
         /\ faults' \in 0..MaxFaults
         /\ EndKept
<1>0. status \in [Visitors -> Statuses] /\ "checked_out" \in VisitorStatuses
  BY DEF TypeOK, Statuses, VisitorStatuses
<1>1. CASE CheckOutRow(v, source) /\ UNCHANGED faults
  <2>1. status[v] \notin Terminal \/ status[v] = "checked_out"
    BY <1>1, AcceptedKeeps DEF CheckOutRow
  <2>2. status' \in [Visitors -> Statuses] /\ \A u \in Visitors : status[u] \in Terminal => status'[u] = status[u]
    BY <1>0, <1>1, <2>1, SetStatusKeeps DEF CheckOutRow
  <2>3. checkout_source' \in [Visitors -> Sources]
        /\ \A u \in Visitors : status[u] \in Terminal => checkout_source'[u] = checkout_source[u]
    BY <1>1, <2>1 DEF CheckOutRow, SameStatus, TypeOK
  <2> QED
    BY <1>1, <2>2, <2>3 DEF EndKept, TypeOK
<1>2. CASE Fault /\ UNCHANGED <<status, checkout_source>>
  BY <1>0, <1>2, MaxFaultsAssumption DEF Fault, TypeOK, EndKept
<1> QED
  BY <1>1, <1>2 DEF CheckOutReturns

(* Writing the row of a pass keeps the types of the pool. *)
LEMMA SetRowTyped ==
  ASSUME TypeOK, NEW p \in Passes, NEW st \in PassStatuses,
         NEW cur \in Visitors \cup {NoVisitor}, NEW res \in Visitors \cup {NoVisitor},
         SetRow(p, st, cur, res)
  PROVE  /\ pool' \in [Passes -> Rows]
         /\ pool'[p].status = st /\ pool'[p].current = cur
         /\ \A q \in Passes \ {p} : pool'[q] = pool[q]
  BY DEF SetRow, TypeOK, Rows

(* Taking a pass from its holder leaves nobody with a pointer to it. *)
LEMMA TakenPass ==
  ASSUME IInv, NEW p \in Passes, NEW st \in PassStatuses,
         SetRow(p, st, NoVisitor, NoVisitor), ClearPointer(p)
  PROVE  /\ pool' \in [Passes -> Rows]
         /\ visitor_pass_id' \in [Visitors -> Passes \cup {NoPass}]
         /\ PointerIsTrue'
<1>1. /\ pool' \in [Passes -> Rows]
      /\ \A q \in Passes \ {p} : pool'[q] = pool[q]
  BY SetRowTyped DEF IInv
<1>2. visitor_pass_id' \in [Visitors -> Passes \cup {NoPass}]
  BY DEF ClearPointer, IInv, TypeOK
<1>3. ASSUME NEW v \in Visitors, visitor_pass_id'[v] # NoPass
      PROVE  visitor_pass_id'[v] = visitor_pass_id[v] /\ visitor_pass_id[v] \in Passes \ {p}
  <2>1. v # pool[p].current /\ visitor_pass_id'[v] = visitor_pass_id[v]
    BY <1>3 DEF ClearPointer
  <2>2. visitor_pass_id[v] # p
    BY <1>3, <2>1 DEF IInv, PointerIsTrue
  <2> QED
    BY <1>3, <2>1, <2>2 DEF IInv, TypeOK
<1> QED
  BY <1>1, <1>2, <1>3 DEF IInv, PointerIsTrue

(* Writing a row that is not pointed at, or keeps its holder. *)
LEMMA UnpointedRow ==
  ASSUME IInv, NEW p \in Passes, NEW st \in PassStatuses, NEW res \in Visitors \cup {NoVisitor},
         SetRow(p, st, pool[p].current, res), UNCHANGED visitor_pass_id,
         st = "retired" \/ pool[p].status \notin {"in_use", "retired"}
  PROVE  pool' \in [Passes -> Rows] /\ PointerIsTrue'
<1>0. pool[p].current \in Visitors \cup {NoVisitor}
  BY DEF IInv, TypeOK, Rows
<1>1. /\ pool' \in [Passes -> Rows]
      /\ pool'[p].status = st /\ pool'[p].current = pool[p].current
      /\ \A q \in Passes \ {p} : pool'[q] = pool[q]
  BY <1>0, SetRowTyped DEF IInv
<1>2. \A v \in Visitors : visitor_pass_id[v] # NoPass => visitor_pass_id[v] \in Passes
  BY DEF IInv, TypeOK
<1> QED
  BY <1>1, <1>2 DEF IInv, PointerIsTrue

-----------------------------------------------------------------------------
(* The visit *)
LEMMA VisitStep ==
  ASSUME IInv, Visit
  PROVE  IInv' /\ EndKept
<1>0. TypeOK /\ PointerIsTrue /\ status \in [Visitors -> Statuses]
  BY DEF IInv, TypeOK, Statuses
<1>1. ASSUME NEW v \in Visitors, NEW to \in VisitorStatuses, SetStatus(v, to),
             status[v] \notin Terminal,
             UNCHANGED <<checkout_source, visitor_pass_id, pool, overdue, procs, faults>>
      PROVE  IInv' /\ EndKept
  <2>1. status' \in [Visitors -> Statuses]
        /\ \A u \in Visitors : status[u] \in Terminal => status'[u] = status[u]
    BY <1>0, <1>1, SetStatusKeeps
  <2>2. TypeOK'
    BY <1>0, <1>1, <2>1 DEF TypeOK, Statuses, procs
  <2> QED
    BY <1>0, <1>1, <2>1, <2>2 DEF IInv, PointerIsTrue, EndKept
<1>2. ASSUME NEW v \in Visitors, NEW to \in VisitorStatuses, Transition(v, to) PROVE IInv' /\ EndKept
  BY <1>1, <1>2, TerminalStays DEF Transition
<1>3. ASSUME NEW v \in Visitors, BecomeOverdue(v) PROVE IInv' /\ EndKept
  BY <1>0, <1>3 DEF BecomeOverdue, IInv, TypeOK, PointerIsTrue, EndKept, visitors, procs
<1>4. ASSUME NEW v \in Visitors, NEW st \in {"pending_approval", "expected"}, Invite(v, st)
      PROVE  IInv' /\ EndKept
  <2>1. st \in VisitorStatuses /\ status[v] \notin Terminal
    BY <1>4, TerminalStays DEF VisitorStatuses, Invite
  <2> QED
    BY <1>1, <1>4, <2>1 DEF Invite
<1>5. ASSUME NEW v \in Visitors PROVE
        /\ \A o \in {"expected", "denied"} : OnApprovalDecided(v, o) => IInv' /\ EndKept
        /\ MarkArrived(v) \/ MarkNoShow(v) \/ CancelByToken(v) => IInv' /\ EndKept
  BY <1>2 DEF OnApprovalDecided, MarkArrived, MarkNoShow, CancelByToken, VisitorStatuses
<1> QED
  BY <1>3, <1>4, <1>5 DEF Visit

(* The pool *)
LEMMA PoolStep ==
  ASSUME IInv, Pool
  PROVE  IInv' /\ EndKept
<1>0. TypeOK /\ PointerIsTrue
  BY DEF IInv
<1>a. PassStatuses = {"available", "reserved", "in_use", "lost", "retired"}
  BY DEF PassStatuses
<1>1. ASSUME pool' \in [Passes -> Rows], visitor_pass_id' \in [Visitors -> Passes \cup {NoPass}],
             PointerIsTrue', UNCHANGED <<status, checkout_source, overdue, procs, faults>>
      PROVE  IInv' /\ EndKept
  BY <1>0, <1>1 DEF IInv, TypeOK, EndKept, procs
<1>2. ASSUME NEW p \in Passes, NEW v \in Visitors, AssignPass(p, v) PROVE IInv' /\ EndKept
  <2>0. USE <1>2 DEF AssignPass
  <2>1. /\ pool' \in [Passes -> Rows]
        /\ pool'[p].status = "in_use" /\ pool'[p].current = v
        /\ \A q \in Passes \ {p} : pool'[q] = pool[q]
    BY <1>0, <1>a, SetRowTyped
  <2>2. visitor_pass_id' \in [Visitors -> Passes \cup {NoPass}]
    BY <1>0 DEF TypeOK
  <2>3. ASSUME NEW u \in Visitors \ {v}, visitor_pass_id[u] # NoPass
        PROVE  visitor_pass_id[u] \in Passes \ {p}
    BY <1>0, <2>3 DEF TypeOK, PointerIsTrue
  <2>4. visitor_pass_id'[v] = p /\ \A u \in Visitors \ {v} : visitor_pass_id'[u] = visitor_pass_id[u]
    BY <1>0 DEF TypeOK
  <2>5. PointerIsTrue'
    BY <1>0, <2>1, <2>3, <2>4 DEF PointerIsTrue
  <2> QED
    BY <1>1, <2>1, <2>2, <2>5
<1>3. ASSUME NEW p \in Passes, NEW v \in Visitors, ReservePass(p, v) PROVE IInv' /\ EndKept
  BY <1>0, <1>1, <1>3, <1>a, UnpointedRow DEF ReservePass, TypeOK, visitors
<1>4. ASSUME NEW p \in Passes, ReturnPass(p) PROVE IInv' /\ EndKept
  BY <1>1, <1>4, <1>a, TakenPass DEF ReturnPass, ReturnRow
<1>5. ASSUME NEW p \in Passes, MarkPassMissing(p) PROVE IInv' /\ EndKept
  BY <1>1, <1>5, <1>a, TakenPass DEF MarkPassMissing, MissingRow
<1>6. ASSUME NEW p \in Passes, MarkPassRecovered(p) \/ RetirePass(p) PROVE IInv' /\ EndKept
  <2>1. pool[p].reserved \in Visitors \cup {NoVisitor}
    BY <1>0 DEF TypeOK, Rows
  <2> QED
    BY <1>0, <1>1, <1>6, <1>a, <2>1, UnpointedRow DEF MarkPassRecovered, RetirePass, TypeOK, visitors
<1> QED
  BY <1>2, <1>3, <1>4, <1>5, <1>6 DEF Pool

-----------------------------------------------------------------------------
(* A process that lets go of a pass it read earlier, or leaves it alone. *)
LEMMA LetGo ==
  ASSUME IInv, NEW p \in Passes,
         ReturnRow(p) \/ MissingRow(p) \/ UNCHANGED <<pool, visitor_pass_id>>
  PROVE  /\ pool' \in [Passes -> Rows]
         /\ visitor_pass_id' \in [Visitors -> Passes \cup {NoPass}]
         /\ PointerIsTrue'
<1>1. CASE ReturnRow(p) \/ MissingRow(p)
  BY <1>1, TakenPass DEF ReturnRow, MissingRow, PassStatuses
<1>2. CASE UNCHANGED <<pool, visitor_pass_id>>
  BY <1>2 DEF IInv, TypeOK, PointerIsTrue
<1> QED
  BY <1>1, <1>2

(* A step of a process that leaves the pool alone. *)
LEMMA ProcStep ==
  ASSUME IInv, EndKept, UNCHANGED <<visitor_pass_id, pool, overdue>>,
         status' \in [Visitors -> Statuses], checkout_source' \in [Visitors -> Sources],
         faults' \in 0..MaxFaults, lease' \in BOOLEAN,
         desk' \in [Desks -> Calls \cup {Idle}], sweep' \in Sweeps
  PROVE  IInv' /\ EndKept
  BY DEF IInv, TypeOK, PointerIsTrue, Statuses

(* The check-out at the desk *)
LEMMA DeskStep ==
  ASSUME IInv, Desk
  PROVE  IInv' /\ EndKept
<1>0. TypeOK /\ PointerIsTrue /\ status \in [Visitors -> Statuses]
  BY DEF IInv, TypeOK, Statuses
<1>1. ASSUME NEW d \in Desks, NEW v \in Visitors, NEW answer \in Answers,
             BeginCheckOut(d, v, answer)
      PROVE  IInv' /\ EndKept
  <2>1. desk' \in [Desks -> Calls \cup {Idle}]
    <3>1. [pc |-> "check_out", v |-> v, pass |-> visitor_pass_id[v], answer |-> answer] \in Calls
      BY <1>0 DEF TypeOK, Calls
    <3> QED
      BY <1>0, <1>1, <3>1 DEF BeginCheckOut, TypeOK
  <2> QED
    BY <1>0, <1>1, <2>1, ProcStep DEF BeginCheckOut, TypeOK, EndKept, visitors
<1>2. ASSUME NEW d \in Desks, CheckOut(d) PROVE IInv' /\ EndKept
  <2>1. desk[d] \in Calls
    BY <1>0, <1>2 DEF CheckOut, TypeOK, Idle
  <2>2. /\ desk[d].v \in Visitors
        /\ desk[d].pass # NoPass => [desk[d] EXCEPT !.pc = "pass"] \in Calls
    BY <2>1 DEF Calls
  <2>3. desk' \in [Desks -> Calls \cup {Idle}]
    BY <1>0, <1>2, <2>2 DEF CheckOut, TypeOK
  <2>4. /\ status' \in [Visitors -> Statuses]
        /\ checkout_source' \in [Visitors -> Sources]
        /\ faults' \in 0..MaxFaults
        /\ EndKept
    BY <1>0, <1>2, <2>2, CheckOutReturnsKeeps DEF CheckOut, Sources
  <2> QED
    BY <1>0, <1>2, <2>3, <2>4, ProcStep DEF CheckOut, TypeOK
<1>3. ASSUME NEW d \in Desks, CheckOutThrows(d) \/ DeskDies(d) PROVE IInv' /\ EndKept
  <2>1. desk' \in [Desks -> Calls \cup {Idle}]
    BY <1>0, <1>3 DEF CheckOutThrows, DeskDies, TypeOK
  <2>2. faults' \in 0..MaxFaults
    BY <1>0, <1>3, MaxFaultsAssumption DEF CheckOutThrows, DeskDies, Fault, TypeOK
  <2> QED
    BY <1>0, <1>3, <2>1, <2>2, ProcStep DEF CheckOutThrows, DeskDies, TypeOK, EndKept, visitors
<1>4. ASSUME NEW d \in Desks, CheckOutPass(d) PROVE IInv' /\ EndKept
  <2>1. desk[d] \in Calls
    BY <1>0, <1>4 DEF CheckOutPass, TypeOK, Idle
  <2>2. desk[d].pass \in Passes
    BY <1>4, <2>1 DEF CheckOutPass, Calls
  <2>3. /\ pool' \in [Passes -> Rows]
        /\ visitor_pass_id' \in [Visitors -> Passes \cup {NoPass}]
        /\ PointerIsTrue'
    BY <1>4, <2>2, LetGo DEF CheckOutPass
  <2>4. desk' \in [Desks -> Calls \cup {Idle}]
    BY <1>0, <1>4 DEF CheckOutPass, TypeOK
  <2> QED
    BY <1>0, <1>4, <2>3, <2>4 DEF CheckOutPass, IInv, TypeOK, EndKept
<1> QED
  BY <1>1, <1>2, <1>3, <1>4 DEF Desk

(* The sweep *)
LEMMA SweepStep ==
  ASSUME IInv, Sweep \/ SweepVisitorFails \/ SweepDies \/ NextDay
  PROVE  IInv' /\ EndKept
<1>0. TypeOK /\ PointerIsTrue /\ status \in [Visitors -> Statuses]
  BY DEF IInv, TypeOK, Statuses
<1>1. CASE AcquireLease \/ SweepEnd \/ SweepDies \/ NextDay
  <2>1. sweep' \in Sweeps
    BY <1>0, <1>1 DEF AcquireLease, SweepEnd, SweepDies, NextDay, Sweeps, Idle, TypeOK
  <2>2. faults' \in 0..MaxFaults
    BY <1>0, <1>1, MaxFaultsAssumption DEF AcquireLease, SweepEnd, SweepDies, NextDay, Fault, TypeOK
  <2> QED
    BY <1>0, <1>1, <2>1, <2>2, ProcStep
    DEF AcquireLease, SweepEnd, SweepDies, NextDay, TypeOK, EndKept, visitors
<1>2. CASE SelectCandidates
  <2>1. \A v \in Visitors : Due(v) => [v |-> v, status |-> status[v], pass |-> visitor_pass_id[v]] \in Candidates
    BY <1>0 DEF Due, OnPremises, Candidates, TypeOK, VisitorStatuses
  <2>2. {[v |-> v, status |-> status[v], pass |-> visitor_pass_id[v]] : v \in {w \in Visitors : Due(w)}}
          \in SUBSET Candidates
    BY <2>1
  <2>3. sweep' \in Sweeps
    BY <1>2, <2>2 DEF SelectCandidates, Sweeps
  <2> QED
    BY <1>0, <1>2, <2>3, ProcStep DEF SelectCandidates, TypeOK, EndKept, visitors
<1>3. ASSUME sweep.pc = "visitors", NEW c \in sweep.todo
      PROVE  /\ c \in Candidates
             /\ sweep.todo \ {c} \in SUBSET Candidates
             /\ [sweep EXCEPT !.todo = @ \ {c}] \in Sweeps
  <2>1. sweep \in [pc : {"visitors"}, todo : SUBSET Candidates]
    BY <1>0, <1>3 DEF TypeOK, Sweeps
  <2> QED
    BY <2>1 DEF Sweeps
<1>4. CASE SweepVisitor
  <2>1. PICK c \in sweep.todo : SweepExpected(c) \/ SweepPresent(c)
    BY <1>4 DEF SweepVisitor
  <2>2. /\ c \in Candidates
        /\ sweep.todo \ {c} \in SUBSET Candidates
        /\ [sweep EXCEPT !.todo = @ \ {c}] \in Sweeps
    BY <1>3, <1>4 DEF SweepVisitor
  <2>3. c.v \in Visitors /\ c.pass \in Passes \cup {NoPass}
    BY <2>2 DEF Candidates
  <2>4. CASE SweepExpected(c)
    <3>1. status' \in [Visitors -> Statuses]
          /\ \A u \in Visitors : status[u] \in Terminal => status'[u] = status[u]
      <4>1. CASE Accepted(c.v, "no_show")
        <5>1. status[c.v] \notin Terminal \/ status[c.v] = "no_show"
          BY <2>3, <4>1, AcceptedKeeps
        <5>2. "no_show" \in VisitorStatuses
          BY DEF VisitorStatuses
        <5> QED
          BY <1>0, <2>3, <2>4, <4>1, <5>1, <5>2, SetStatusKeeps DEF SweepExpected
      <4>2. CASE ~Accepted(c.v, "no_show")
        BY <1>0, <2>4, <4>2 DEF SweepExpected
      <4> QED
        BY <4>1, <4>2
    <3> QED
      BY <1>0, <1>4, <2>2, <2>4, <3>1, ProcStep DEF SweepExpected, SweepVisitor, TypeOK, EndKept
  <2>5. CASE SweepPresent(c)
    <3>1. sweep' \in Sweeps
      <4>1. c.pass # NoPass => [pc |-> "pass", todo |-> sweep.todo \ {c}, pass |-> c.pass] \in Sweeps
        BY <2>2, <2>3 DEF Sweeps
      <4> QED
        BY <2>2, <2>5, <4>1 DEF SweepPresent
    <3>2. /\ status' \in [Visitors -> Statuses]
          /\ checkout_source' \in [Visitors -> Sources]
          /\ faults' \in 0..MaxFaults
          /\ EndKept
      <4>1. CASE CheckOutReturns(c.v, "eod_sweep")
        BY <1>0, <2>3, <4>1, CheckOutReturnsKeeps DEF Sources
      <4>2. CASE UNCHANGED <<status, checkout_source, faults>>
        BY <1>0, <4>2 DEF TypeOK, EndKept
      <4> QED
        BY <2>5, <4>1, <4>2 DEF SweepPresent
    <3> QED
      BY <1>0, <1>4, <3>1, <3>2, ProcStep DEF SweepVisitor, TypeOK
  <2> QED
    BY <2>1, <2>4, <2>5
<1>5. CASE SweepVisitorFails
  <2>1. sweep' \in Sweeps
    BY <1>3, <1>5 DEF SweepVisitorFails
  <2>2. faults' \in 0..MaxFaults
    BY <1>0, <1>5, MaxFaultsAssumption DEF SweepVisitorFails, Fault, TypeOK
  <2> QED
    BY <1>0, <1>5, <2>1, <2>2, ProcStep DEF SweepVisitorFails, TypeOK, EndKept, visitors
<1>6. CASE SweepPass
  <2>1. sweep.pass \in Passes /\ sweep.todo \in SUBSET Candidates
    BY <1>0, <1>6 DEF SweepPass, TypeOK, Sweeps
  <2>2. /\ pool' \in [Passes -> Rows]
        /\ visitor_pass_id' \in [Visitors -> Passes \cup {NoPass}]
        /\ PointerIsTrue'
    BY <1>6, <2>1, LetGo DEF SweepPass
  <2>3. sweep' \in Sweeps
    BY <1>6, <2>1 DEF SweepPass, Sweeps
  <2> QED
    BY <1>0, <1>6, <2>2, <2>3 DEF SweepPass, IInv, TypeOK, EndKept
<1> QED
  BY <1>1, <1>2, <1>4, <1>5, <1>6 DEF Sweep

-----------------------------------------------------------------------------
LEMMA InitInv ==
  Init => IInv
<1> SUFFICES ASSUME Init PROVE IInv
  OBVIOUS
<1>1. pool \in [Passes -> Rows]
  BY DEF Init, Free, Rows, PassStatuses
<1>2. faults \in 0..MaxFaults
  BY MaxFaultsAssumption DEF Init
<1> QED
  BY <1>1, <1>2 DEF Init, IInv, TypeOK, PointerIsTrue, Sources, Sweeps, Idle

LEMMA NextInv ==
  ASSUME IInv, [Next]_vars
  PROVE  IInv' /\ [\A v \in Visitors : status[v] \in Terminal =>
                     status'[v] = status[v] /\ checkout_source'[v] = checkout_source[v]]_vars
<1>1. CASE Next
  BY <1>1, VisitStep, PoolStep, DeskStep, SweepStep DEF Next, EndKept
<1>2. CASE UNCHANGED vars
  BY <1>2 DEF vars, visitors, procs, IInv, TypeOK, PointerIsTrue
<1> QED
  BY <1>1, <1>2

LEMMA Inductive ==
  Spec => []IInv
<1>1. IInv /\ [Next]_vars => IInv'
  BY NextInv
<1> QED
  BY <1>1, InitInv, PTL DEF Spec

(* Desk, kiosk, pool and sweep keep their rows and local state well typed,  *)
(* however many of them run.                                                *)
THEOREM TypeCorrect ==
  Spec => []TypeOK
<1>1. IInv => TypeOK
  BY DEF IInv
<1> QED
  BY <1>1, Inductive, PTL

(* The pass a visitor points at is in his hands, or was retired there       *)
(* (pass-pool.service.ts), for any number of passes and stale callers.      *)
THEOREM PointersAreTrue ==
  Spec => []PointerIsTrue
<1>1. IInv => PointerIsTrue
  BY DEF IInv
<1> QED
  BY <1>1, Inductive, PTL

(* How a visit ended never changes (transitionStatus), whoever decides late *)
(* on a status read earlier.                                                *)
THEOREM EndsAreFinal ==
  Spec => EndIsFinal
<1>1. IInv /\ [Next]_vars =>
        [\A v \in Visitors : status[v] \in Terminal =>
           status'[v] = status[v] /\ checkout_source'[v] = checkout_source[v]]_vars
  BY NextInv
<1> QED
  BY <1>1, Inductive, PTL DEF Spec, EndIsFinal
=============================================================================
