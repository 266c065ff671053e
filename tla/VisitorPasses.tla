--------------------------- MODULE VisitorPasses ---------------------------
(***************************************************************************)
(* Visitors at the desk: arrival, check-out, the pool of passes            *)
(* (pass-pool.service.ts), and the end-of-day sweep (eod-sweep.worker.ts)  *)
(* of one building.                                                        *)
(*                                                                         *)
(* Each operation on the pool is one transaction that locks the pass and   *)
(* then its visitor, so it is one step.  Check-out and sweep read the pass *)
(* of a visitor without a lock, check the visitor out in a transaction of  *)
(* its own and handle the pass they read in a third: two steps that others *)
(* come between, and between which the process can die.                    *)
(*                                                                         *)
(* Mail and the domain events that order it are the module VisitorCascade. *)
(***************************************************************************)
EXTENDS VisitorStatus

CONSTANTS Passes,
          Desks,       \* check-out requests in flight
          MaxFaults,   \* bound: crashes and failed statements
          NoPass, NoVisitor

ASSUME MaxFaultsAssumption == MaxFaults \in Nat
ASSUME NoPassAssumption == NoPass \notin Passes
ASSUME NoVisitorAssumption == NoVisitor \notin Visitors

VARIABLES
  checkout_source, \* visitors.checkout_source
  visitor_pass_id, \* visitors.visitor_pass_id
  pool,            \* visitor_pass_pool: status, current and reserving visitor
  overdue,         \* visitors whose expected_until has passed
  desk,            \* per request: next statement, visitor, pass read, answer
  lease,           \* the task_leases row of today's sweep exists
  sweep,           \* next statement, candidates left, candidate at hand
  faults

visitors == <<status, checkout_source, visitor_pass_id>>
procs    == <<desk, lease, sweep>>
vars     == <<visitors, pool, overdue, procs, faults>>

PassStatuses == {"available", "reserved", "in_use", "lost", "retired"}
Rows         == [status : PassStatuses, current : Visitors \cup {NoVisitor},
                 reserved : Visitors \cup {NoVisitor}]
Sources      == {"null", "reception", "eod_sweep"}
Answers      == {"returned", "kept", "unsaid"}   \* opts.pass_returned
Candidates   == [v : Visitors, status : VisitorStatuses, pass : Passes \cup {NoPass}]
Calls        == [pc : {"check_out"}, v : Visitors, pass : Passes \cup {NoPass},
                 answer : Answers]
                \cup [pc : {"pass"}, v : Visitors, pass : Passes, answer : Answers]
Idle         == [pc |-> "idle"]
Sweeps       == [pc : {"idle", "select"}]
                \cup [pc : {"visitors"}, todo : SUBSET Candidates]
                \cup [pc : {"pass"}, todo : SUBSET Candidates, pass : Passes]

Free == [status |-> "available", current |-> NoVisitor, reserved |-> NoVisitor]

Init ==
  /\ status = [v \in Visitors |-> "none"]
  /\ checkout_source = [v \in Visitors |-> "null"]
  /\ visitor_pass_id = [v \in Visitors |-> NoPass]
  /\ pool = [p \in Passes |-> Free]
  /\ overdue = {}
  /\ desk = [d \in Desks |-> Idle]
  /\ lease = FALSE
  /\ sweep = Idle
  /\ faults = 0

Fault == faults < MaxFaults /\ faults' = faults + 1

-----------------------------------------------------------------------------
(* The visit: invitation (a walk-up is one too), approval, arrival at the   *)
(* desk or the kiosk, cancel link, no-show.                                 *)

Invite(v, st) ==
  /\ status[v] = "none"
  /\ st \in {"pending_approval", "expected"}
  /\ SetStatus(v, st)
  /\ UNCHANGED <<checkout_source, visitor_pass_id, pool, overdue, procs, faults>>

(* transitionStatus to a status that has no columns of its own *)
Transition(v, to) ==
  /\ Moves(v, to)
  /\ SetStatus(v, to)
  /\ UNCHANGED <<checkout_source, visitor_pass_id, pool, overdue, procs, faults>>

OnApprovalDecided(v, outcome) ==
  /\ status[v] = "pending_approval"
  /\ outcome \in {"expected", "denied"}
  /\ Transition(v, outcome)

MarkArrived(v)   == Transition(v, "arrived")
MarkNoShow(v)    == Transition(v, "no_show")
CancelByToken(v) == Transition(v, "cancelled")

-----------------------------------------------------------------------------
(* The pool.  The row operators say what a call does to the pass and to the *)
(* back-reference of the visitor that had it.                               *)

SetRow(p, st, cur, res) ==
  pool' = [pool EXCEPT ![p] = [status |-> st, current |-> cur, reserved |-> res]]

ClearPointer(p) ==
  visitor_pass_id' = [v \in Visitors |-> IF v = pool[p].current THEN NoPass
                                         ELSE visitor_pass_id[v]]

Returnable(p) == pool[p].status = "in_use"

ReturnRow(p) ==
  /\ SetRow(p, "available", NoVisitor, NoVisitor)
  /\ ClearPointer(p)

(* Mutant: the visitor keeps pointing at the pass he lost. *)
MissingRowDangling(p) ==
  /\ SetRow(p, "lost", NoVisitor, NoVisitor)
  /\ UNCHANGED visitor_pass_id

MissingRow(p) ==
  /\ SetRow(p, "lost", NoVisitor, NoVisitor)
  /\ ClearPointer(p)

Losable(p) == pool[p].status # "retired"

(* assignPass looks at the pass alone: not at the status of the visitor,   *)
(* nor at a pass he already has.                                           *)
AssignPass(p, v) ==
  /\ status[v] # "none"
  /\ \/ pool[p].status = "available"
     \/ pool[p].status = "reserved" /\ pool[p].reserved = v
  /\ SetRow(p, "in_use", v, NoVisitor)
  /\ visitor_pass_id' = [visitor_pass_id EXCEPT ![v] = p]
  /\ UNCHANGED <<status, checkout_source, overdue, procs, faults>>

ReservePass(p, v) ==
  /\ status[v] # "none"
  /\ pool[p].status = "available"
  /\ SetRow(p, "reserved", pool[p].current, v)
  /\ UNCHANGED <<visitors, overdue, procs, faults>>

ReturnPass(p) ==
  /\ Returnable(p)
  /\ ReturnRow(p)
  /\ UNCHANGED <<status, checkout_source, overdue, procs, faults>>

MarkPassMissing(p) ==
  /\ Losable(p)
  /\ MissingRow(p)
  /\ UNCHANGED <<status, checkout_source, overdue, procs, faults>>

MarkPassRecovered(p) ==
  /\ pool[p].status = "lost"
  /\ SetRow(p, "available", pool[p].current, pool[p].reserved)
  /\ UNCHANGED <<visitors, overdue, procs, faults>>

(* updatePool, updatePass: the status alone, whatever it was. *)
RetirePass(p) ==
  /\ pool[p].status # "retired"
  /\ SetRow(p, "retired", pool[p].current, pool[p].reserved)
  /\ UNCHANGED <<visitors, overdue, procs, faults>>

-----------------------------------------------------------------------------
(* transitionStatus(checked_out): a second call on a visitor that is out    *)
(* changes nothing, its caller goes on.                                     *)

(* Mutant: the second call writes its source over the first. *)
CheckOutRowAgain(v, source) ==
  /\ Accepted(v, "checked_out")
  /\ SetStatus(v, "checked_out")
  /\ checkout_source' = [checkout_source EXCEPT ![v] = source]

CheckOutRow(v, source) ==
  /\ Accepted(v, "checked_out")
  /\ SetStatus(v, "checked_out")
  /\ checkout_source' = IF SameStatus(v, "checked_out") THEN checkout_source
                        ELSE [checkout_source EXCEPT ![v] = source]

(* The caller sees a normal return: also when the audit row could not be   *)
(* inserted, which is caught, but has aborted the transaction by then.     *)
CheckOutReturns(v, source) ==
  \/ CheckOutRow(v, source) /\ UNCHANGED faults
  \/ Moves(v, "checked_out") /\ Fault /\ UNCHANGED <<status, checkout_source>>

(* markCheckedOut reads the pass of the visitor, *)
BeginCheckOut(d, v, answer) ==
  /\ desk[d] = Idle
  /\ status[v] # "none"
  /\ desk' = [desk EXCEPT ![d] = [pc |-> "check_out", v |-> v,
                                  pass |-> visitor_pass_id[v], answer |-> answer]]
  /\ UNCHANGED <<visitors, pool, overdue, lease, sweep, faults>>

(* checks him out, *)
CheckOut(d) ==
  /\ desk[d].pc = "check_out"
  /\ CheckOutReturns(desk[d].v, "reception")
  /\ desk' = [desk EXCEPT ![d] = IF @.pass = NoPass \/ @.answer = "unsaid" THEN Idle
                                 ELSE [@ EXCEPT !.pc = "pass"]]
  /\ UNCHANGED <<visitor_pass_id, pool, overdue, lease, sweep>>

CheckOutThrows(d) ==
  /\ desk[d].pc = "check_out"
  /\ ~Accepted(desk[d].v, "checked_out")
  /\ desk' = [desk EXCEPT ![d] = Idle]
  /\ UNCHANGED <<visitors, pool, overdue, lease, sweep, faults>>

(* and then returns or writes off the pass it read, whoever has it by now. *)
CheckOutPass(d) ==
  /\ desk[d].pc = "pass"
  /\ LET p == desk[d].pass IN
     \/ desk[d].answer = "returned" /\ Returnable(p) /\ ReturnRow(p)
     \/ desk[d].answer = "kept" /\ Losable(p) /\ MissingRow(p)
     \/ /\ desk[d].answer = "returned" => ~Returnable(p)
        /\ desk[d].answer = "kept" => ~Losable(p)
        /\ UNCHANGED <<pool, visitor_pass_id>>
  /\ desk' = [desk EXCEPT ![d] = Idle]
  /\ UNCHANGED <<status, checkout_source, overdue, lease, sweep, faults>>

DeskDies(d) ==
  /\ desk[d] # Idle
  /\ Fault
  /\ desk' = [desk EXCEPT ![d] = Idle]
  /\ UNCHANGED <<visitors, pool, overdue, lease, sweep>>

-----------------------------------------------------------------------------
(* The end-of-day sweep: one per day, the lease key holds the date.  A day  *)
(* is longer than a sweep.                                                  *)

Due(v) == v \in overdue /\ status[v] \in OnPremises \cup {"expected"}

BecomeOverdue(v) ==
  /\ v \notin overdue
  /\ status[v] # "none"
  /\ overdue' = overdue \cup {v}
  /\ UNCHANGED <<visitors, pool, procs, faults>>

(* Mutant: the key of the lease lacks the date. *)
NextDayLeased ==
  /\ lease
  /\ sweep = Idle
  /\ UNCHANGED vars

NextDay ==
  /\ lease
  /\ sweep = Idle
  /\ lease' = FALSE
  /\ UNCHANGED <<visitors, pool, overdue, desk, sweep, faults>>

AcquireLease ==
  /\ sweep = Idle
  /\ ~lease
  /\ lease' = TRUE
  /\ sweep' = [pc |-> "select"]
  /\ UNCHANGED <<visitors, pool, overdue, desk, faults>>

SelectCandidates ==
  /\ sweep.pc = "select"
  /\ sweep' = [pc |-> "visitors",
               todo |-> {[v |-> v, status |-> status[v], pass |-> visitor_pass_id[v]] :
                           v \in {w \in Visitors : Due(w)}}]
  /\ UNCHANGED <<visitors, pool, overdue, desk, lease, faults>>

(* The candidate's status is that of the select; a refused transition is   *)
(* logged and the sweep goes on.                                           *)
SweepExpected(c) ==
  /\ c.status = "expected"
  /\ IF Accepted(c.v, "no_show") THEN SetStatus(c.v, "no_show") ELSE UNCHANGED status
  /\ sweep' = [sweep EXCEPT !.todo = @ \ {c}]
  /\ UNCHANGED <<checkout_source, faults>>

SweepPresent(c) ==
  /\ c.status \in OnPremises
  /\ \/ /\ CheckOutReturns(c.v, "eod_sweep")
        /\ sweep' = IF c.pass = NoPass
                    THEN [sweep EXCEPT !.todo = @ \ {c}]
                    ELSE [pc |-> "pass", todo |-> sweep.todo \ {c}, pass |-> c.pass]
     \/ /\ ~Accepted(c.v, "checked_out")
        /\ sweep' = [sweep EXCEPT !.todo = @ \ {c}]
        /\ UNCHANGED <<status, checkout_source, faults>>

SweepVisitor ==
  /\ sweep.pc = "visitors"
  /\ \E c \in sweep.todo : SweepExpected(c) \/ SweepPresent(c)
  /\ UNCHANGED <<visitor_pass_id, pool, overdue, desk, lease>>

SweepVisitorFails ==
  /\ sweep.pc = "visitors"
  /\ Fault
  /\ \E c \in sweep.todo : sweep' = [sweep EXCEPT !.todo = @ \ {c}]
  /\ UNCHANGED <<visitors, pool, overdue, desk, lease>>

SweepPass ==
  /\ sweep.pc = "pass"
  /\ \/ Losable(sweep.pass) /\ MissingRow(sweep.pass)
     \/ ~Losable(sweep.pass) /\ UNCHANGED <<pool, visitor_pass_id>>
  /\ sweep' = [pc |-> "visitors", todo |-> sweep.todo]
  /\ UNCHANGED <<status, checkout_source, overdue, desk, lease, faults>>

(* The lease is marked released, but its row stays. *)
SweepEnd ==
  /\ sweep.pc = "visitors"
  /\ sweep.todo = {}
  /\ sweep' = Idle
  /\ UNCHANGED <<visitors, pool, overdue, desk, lease, faults>>

SweepDies ==
  /\ sweep # Idle
  /\ Fault
  /\ sweep' = Idle
  /\ UNCHANGED <<visitors, pool, overdue, desk, lease>>

-----------------------------------------------------------------------------
Visit ==
  \E v \in Visitors :
    \/ \E st \in {"pending_approval", "expected"} : Invite(v, st)
    \/ \E outcome \in {"expected", "denied"} : OnApprovalDecided(v, outcome)
    \/ MarkArrived(v)
    \/ MarkNoShow(v)
    \/ CancelByToken(v)
    \/ BecomeOverdue(v)

Pool ==
  \E p \in Passes :
    \/ \E v \in Visitors : AssignPass(p, v) \/ ReservePass(p, v)
    \/ ReturnPass(p)
    \/ MarkPassMissing(p)
    \/ MarkPassRecovered(p)
    \/ RetirePass(p)

Desk ==
  \E d \in Desks :
    \/ \E v \in Visitors, answer \in Answers : BeginCheckOut(d, v, answer)
    \/ CheckOut(d)
    \/ CheckOutThrows(d)
    \/ CheckOutPass(d)
    \/ DeskDies(d)

Sweep == AcquireLease \/ SelectCandidates \/ SweepVisitor \/ SweepPass \/ SweepEnd

Next == Visit \/ Pool \/ Desk \/ Sweep \/ SweepVisitorFails \/ SweepDies \/ NextDay

Spec == Init /\ [][Next]_vars

(* The cron fires, a sweep that runs goes on, and days go by. *)
FairSpec == Spec /\ WF_vars(Sweep) /\ WF_vars(NextDay)

-----------------------------------------------------------------------------
TypeOK ==
  /\ status \in [Visitors -> VisitorStatuses \cup {"none"}]
  /\ checkout_source \in [Visitors -> Sources]
  /\ visitor_pass_id \in [Visitors -> Passes \cup {NoPass}]
  /\ pool \in [Passes -> Rows]
  /\ overdue \subseteq Visitors
  /\ desk \in [Desks -> Calls \cup {Idle}]
  /\ lease \in BOOLEAN
  /\ sweep \in Sweeps
  /\ faults \in 0..MaxFaults

(* A visitor's back-reference is never stale: the pass it names is out in   *)
(* his hands, or was retired there.  Check-outs and the sweep act on passes *)
(* they read earlier, so this rests on each pool call clearing the pointer  *)
(* of whoever has the pass now (pass-pool.service.ts).                      *)
PointerIsTrue ==
  \A v \in Visitors : visitor_pass_id[v] # NoPass =>
    /\ pool[visitor_pass_id[v]].current = v
    /\ pool[visitor_pass_id[v]].status \in {"in_use", "retired"}

(* How a visit ended never changes: neither its status nor who checked the  *)
(* visitor out, although sweep, desk and links decide on what they read     *)
(* before (transitionStatus).                                               *)
EndIsFinal ==
  [][\A v \in Visitors : status[v] \in Terminal =>
       status'[v] = status[v] /\ checkout_source'[v] = checkout_source[v]]_vars

(* A visitor who is overdue is swept in the end, also when a sweep dies     *)
(* after it took the lease of its day or fails on him: the next day's finds *)
(* him again (runSweepForBuilding).                                         *)
OverdueIsSwept ==
  \A v \in Visitors : Due(v) ~> status[v] \in Terminal
=============================================================================
