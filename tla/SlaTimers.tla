----------------------------- MODULE SlaTimers -----------------------------
(***************************************************************************)
(* Where the SLA timers of one ticket come from.  A case gets them from    *)
(* outbox events: start (create_ticket_with_automation,                    *)
(* grant_ticket_approval) and repoint (reclassify_ticket).  The handlers   *)
(* re-read tickets.sla_id, drop what is stale, and call an RPC that does   *)
(* not look at sla_id again: a read and a write in two transactions, and   *)
(* an acknowledgement in a third; an event they cannot use, or fail on too *)
(* often, becomes a dead letter.  A work order, or a case whose workflow   *)
(* says so, gets its timers in the transaction that sets its policy        *)
(* (update_entity_sla).  Status changes flag the timers and emit an event  *)
(* whose payload the handler rejects.                                      *)
(*                                                                         *)
(* The cron selects the timers that are due and marks them by id in        *)
(* another transaction.  A policy has one timer here (the code keeps one   *)
(* for response and one for resolution, side by side).  Delivery of the    *)
(* events is the module Outbox, what a timer triggers is SlaThresholds.    *)
(***************************************************************************)
EXTENDS Naturals, FiniteSets

CONSTANTS Policies,
          NoPolicy,    \* sla_id is null
          Workers,     \* outbox workers
          Crons,       \* instances that run the breach cron
          MaxEdits,    \* bound: changes of the policy
          MaxFaults    \* bound: crashes and failed statements

ASSUME NoPolicyAssumption == NoPolicy \notin Policies
ASSUME BoundsAssumption == MaxEdits \in Nat /\ MaxFaults \in Nat

VARIABLES
  kind,        \* case, work order, or setup work order of a booking
  category,    \* status_category
  approval,    \* of the case's creation
  sla,         \* sla_id
  breachedAt,  \* sla_resolution_breached_at is set
  timers,      \* sla_timers: the active one of each policy; gen tells it from those before
  queue,       \* outbox events that are not settled
  dead,        \* dead letters among the events that order timers
  worker,      \* per worker: next statement and event
  cron,        \* per instance: timers it selected
  edits,       \* changes of the policy so far
  late,        \* history: an RPC ran for an event older than the policy
  faults

ticket == <<kind, category, approval, sla, breachedAt>>
procs  == <<queue, dead, worker, cron>>
vars   == <<ticket, timers, procs, edits, late, faults>>

Slas       == Policies \cup {NoPolicy}
Categories == {"pending_approval", "open", "waiting", "resolved"}
Timers     == [active : BOOLEAN, breached : BOOLEAN, pending : BOOLEAN, gen : Nat]
Emitted    == [kind : {"start", "repoint"}, policy : Policies, n : Nat]
StatusEvent == [kind |-> "status"]
Events     == Emitted \cup {StatusEvent}
Idle       == [pc |-> "idle"]

NoTimer    == [active |-> FALSE, breached |-> FALSE, pending |-> FALSE, gen |-> 0]
Fresh(t)   == [active |-> TRUE, breached |-> FALSE, pending |-> FALSE, gen |-> t.gen + 1]
Stopped(t) == [NoTimer EXCEPT !.gen = t.gen]

StartEvent(p, n) == IF p = NoPolicy THEN {} ELSE {[kind |-> "start", policy |-> p, n |-> n]}

(* create_ticket_with_automation, with and without approval; a work order  *)
(* is dispatched with its timers.  create_setup_work_order_from_event      *)
(* writes the policy of the setup and nothing else: no timer and no event. *)
Init ==
  /\ sla \in Slas
  /\ breachedAt = FALSE
  /\ \/ /\ kind = "case" /\ category = "open" /\ approval = "none"
        /\ queue = StartEvent(sla, 0)
        /\ timers = [p \in Policies |-> NoTimer]
     \/ /\ kind = "case" /\ category = "pending_approval" /\ approval = "open"
        /\ queue = {}
        /\ timers = [p \in Policies |-> NoTimer]
     \/ /\ kind = "work_order" /\ category = "open" /\ approval = "none"
        /\ queue = {}
        /\ timers = [p \in Policies |-> IF p = sla THEN Fresh(NoTimer) ELSE NoTimer]
     \/ /\ kind = "setup" /\ category = "open" /\ approval = "none"
        /\ queue = {}
        /\ timers = [p \in Policies |-> NoTimer]
  /\ dead = {}
  /\ worker = [w \in Workers |-> Idle]
  /\ cron = [c \in Crons |-> {}]
  /\ edits = 0 /\ late = FALSE /\ faults = 0

Fault == faults < MaxFaults /\ faults' = faults + 1

StopAll == timers' = [p \in Policies |-> Stopped(timers[p])]

Flagged(ts) == [p \in Policies |-> [ts[p] EXCEPT !.pending = ts[p].active]]

-----------------------------------------------------------------------------
(* What users do to the ticket, one transaction each. *)

(* Mutant: nobody starts the clock of a ticket that waited for approval. *)
GrantTicketApprovalSilent(approved) ==
  /\ approval = "open"
  /\ approval' = IF approved THEN "approved" ELSE "rejected"
  /\ category' = IF approved THEN "open" ELSE "resolved"
  /\ UNCHANGED <<kind, sla, breachedAt, timers, procs, edits, late, faults>>

(* grant_ticket_approval: the last approval decides.  The category of the   *)
(* ticket is written over, whatever it is by now.                           *)
GrantTicketApproval(approved) ==
  /\ approval = "open"
  /\ approval' = IF approved THEN "approved" ELSE "rejected"
  /\ category' = IF approved THEN "open" ELSE "resolved"
  /\ queue' = IF approved THEN queue \cup StartEvent(sla, edits) ELSE queue
  /\ UNCHANGED <<kind, sla, breachedAt, timers, dead, worker, cron, edits, late, faults>>

(* transition_entity_status.  Whether waiting pauses is up to the policy's  *)
(* reasons; leaving waiting resumes, also when it resolves.                 *)
TransitionEntityStatus(to, pauses) ==
  /\ to # category
  /\ pauses => to = "waiting" /\ sla # NoPolicy
  /\ category' = to
  /\ IF pauses \/ category = "waiting" \/ to = "resolved"
     THEN timers' = Flagged(timers) /\ queue' = queue \cup {StatusEvent}
     ELSE UNCHANGED <<timers, queue>>
  /\ UNCHANGED <<kind, approval, sla, breachedAt, dead, worker, cron, edits, late, faults>>

(* reclassify_ticket, to a request type with another policy or none.  Only  *)
(* the latter clears the breach.                                            *)
Reclassify(p) ==
  /\ kind = "case" /\ category # "resolved" /\ approval # "open"
  /\ edits < MaxEdits
  /\ edits' = edits + 1
  /\ p # sla
  /\ sla' = p
  /\ \/ /\ p # NoPolicy
        /\ queue' = queue \cup {[kind |-> "repoint", policy |-> p, n |-> edits + 1]}
        /\ UNCHANGED <<breachedAt, timers>>
     \/ /\ p = NoPolicy
        /\ StopAll
        /\ breachedAt' = FALSE
        /\ UNCHANGED queue
  /\ UNCHANGED <<kind, category, approval, dead, worker, cron, late, faults>>

(* The timers after update_entity_sla: all stopped, one inserted.  Setting  *)
(* the policy it has starts its clock anew; clearing none is a no-op.       *)
Reinstalled(p) ==
  [q \in Policies |-> IF q = p THEN Fresh(timers[q]) ELSE Stopped(timers[q])]

(* update_entity_combined with an SLA branch: of a work order, or of a case *)
(* by the update_ticket node of a workflow, at any time.  A ticket that     *)
(* waits has its new timer flagged.  A policy without targets is refused.   *)
UpdateEntitySla(p) ==
  /\ ~(p = NoPolicy /\ sla = NoPolicy)
  /\ edits < MaxEdits
  /\ edits' = edits + 1
  /\ sla' = p
  /\ breachedAt' = FALSE
  /\ IF p # NoPolicy /\ category = "waiting"
     THEN timers' = Flagged(Reinstalled(p)) /\ queue' = queue \cup {StatusEvent}
     ELSE timers' = Reinstalled(p) /\ UNCHANGED queue
  /\ UNCHANGED <<kind, category, approval, dead, worker, cron, late, faults>>

-----------------------------------------------------------------------------
(* SlaTimerHandler and SlaTimerRepointHandler *)

Free(e) == \A w \in Workers : worker[w] # Idle => worker[w].event # e

(* A status event whose payload lacks the tenant, or an event of the        *)
(* ticket's policy when that is gone or has no targets by now: the policy   *)
(* is free to change, so either may be the case.                            *)
DeadLetter(e) ==
  /\ e # StatusEvent => e.policy = sla
  /\ queue' = queue \ {e}
  /\ dead' = dead \cup ({e} \cap Emitted)
  /\ UNCHANGED worker

Drop(e) ==
  /\ e # StatusEvent
  /\ e.policy # sla
  /\ queue' = queue \ {e}
  /\ UNCHANGED <<dead, worker>>

Accept(w, e) ==
  /\ e # StatusEvent
  /\ e.policy = sla
  /\ worker' = [worker EXCEPT ![w] = [pc |-> "rpc", event |-> e]]
  /\ UNCHANGED <<queue, dead>>

Handle(w, e) ==
  /\ worker[w] = Idle
  /\ e \in queue
  /\ Free(e)
  /\ DeadLetter(e) \/ Drop(e) \/ Accept(w, e)
  /\ UNCHANGED <<ticket, timers, cron, edits, late, faults>>

(* start_sla_timers inserts unless the policy has an active timer. *)
Start(p) ==
  timers' = IF timers[p].active THEN timers
            ELSE [timers EXCEPT ![p] = Fresh(@)]

(* Mutant: the timers of the old policy go on. *)
RepointKeeps(p) ==
  timers' = IF timers[p].active THEN timers
            ELSE [timers EXCEPT ![p] = Fresh(@)]

(* repoint_sla_timer stops the others, but not if the policy has a timer. *)
Repoint(p) ==
  timers' = IF timers[p].active THEN timers ELSE Reinstalled(p)

Rpc(w) ==
  /\ worker[w].pc = "rpc"
  /\ LET e == worker[w].event IN
       /\ IF e.kind = "start" THEN Start(e.policy) ELSE Repoint(e.policy)
       /\ late' = (late \/ e.n # edits)
  /\ worker' = [worker EXCEPT ![w].pc = "ack"]
  /\ UNCHANGED <<ticket, queue, dead, cron, edits, faults>>

Ack(w) ==
  /\ worker[w].pc = "ack"
  /\ queue' = queue \ {worker[w].event}
  /\ worker' = [worker EXCEPT ![w] = Idle]
  /\ UNCHANGED <<ticket, timers, dead, cron, edits, late, faults>>

(* A statement fails or the process dies: the event is delivered again. *)
WorkerDies(w) ==
  /\ worker[w] # Idle
  /\ Fault
  /\ worker' = [worker EXCEPT ![w] = Idle]
  /\ UNCHANGED <<ticket, timers, queue, dead, cron, edits, late>>

(* It has failed for the last time the outbox allows: a dead letter. *)
Exhausted(w) ==
  /\ worker[w] # Idle
  /\ Fault
  /\ queue' = queue \ {worker[w].event}
  /\ dead' = dead \cup {worker[w].event}
  /\ worker' = [worker EXCEPT ![w] = Idle]
  /\ UNCHANGED <<ticket, timers, cron, edits, late>>

-----------------------------------------------------------------------------
(* runBreachCheck *)

(* The timers a tick finds due: due_at is not modelled, any may be.  Neither *)
(* the status of the ticket nor recompute_pending is looked at.              *)
Running == {p \in Policies : timers[p].active /\ ~timers[p].breached}

SelectBreached(c) ==
  /\ cron[c] = {}
  /\ \E due \in SUBSET Running \ {{}} :
       cron' = [cron EXCEPT ![c] = {<<p, timers[p].gen>> : p \in due}]
  /\ UNCHANGED <<ticket, timers, queue, dead, worker, edits, late, faults>>

Hit(p, c) == timers[p].active /\ <<p, timers[p].gen>> \in cron[c]

(* Mutant: the ticket is stamped by a statement of its own, which may fail. *)
MarkSlaBreachedHalf(c) ==
  /\ cron[c] # {}
  /\ timers' = [p \in Policies |->
                  [timers[p] EXCEPT !.breached = @ \/ Hit(p, c)]]
  /\ \/ breachedAt' = TRUE /\ UNCHANGED faults
     \/ Fault /\ UNCHANGED breachedAt
  /\ cron' = [cron EXCEPT ![c] = {}]
  /\ UNCHANGED <<kind, category, approval, sla, queue, dead, worker, edits, late>>

(* mark_sla_breached_batch: by id, stopped or not; the ticket as well. *)
MarkSlaBreached(c) ==
  /\ cron[c] # {}
  /\ timers' = [p \in Policies |->
                  [timers[p] EXCEPT !.breached = @ \/ Hit(p, c)]]
  /\ breachedAt' = TRUE
  /\ cron' = [cron EXCEPT ![c] = {}]
  /\ UNCHANGED <<kind, category, approval, sla, queue, dead, worker, edits, late, faults>>

MarkFails(c) ==
  /\ cron[c] # {}
  /\ Fault
  /\ cron' = [cron EXCEPT ![c] = {}]
  /\ UNCHANGED <<ticket, timers, queue, dead, worker, edits, late>>

-----------------------------------------------------------------------------
Edit ==
  \/ \E approved \in BOOLEAN : GrantTicketApproval(approved)
  \/ \E to \in Categories \ {"pending_approval"}, pauses \in BOOLEAN :
       TransitionEntityStatus(to, pauses)
  \/ \E p \in Slas : Reclassify(p) \/ UpdateEntitySla(p)

Next ==
  \/ Edit
  \/ \E w \in Workers :
       \/ \E e \in queue : Handle(w, e)
       \/ Rpc(w)
       \/ Ack(w)
       \/ WorkerDies(w)
       \/ Exhausted(w)
  \/ \E c \in Crons : SelectBreached(c) \/ MarkSlaBreached(c) \/ MarkFails(c)

Spec == Init /\ [][Next]_vars

(* Workers claim in the order the events become available, so that no event *)
(* waits forever behind younger ones, and finish what they have accepted.   *)
Emissions ==
  {[kind |-> k, policy |-> p, n |-> n] : k \in {"start", "repoint"}, p \in Policies, n \in 0..MaxEdits}

Fairness ==
  /\ \A e \in Emissions : WF_vars(\E w \in Workers : Handle(w, e))
  /\ \A w \in Workers : WF_vars(Rpc(w) \/ Ack(w))

FairSpec == Spec /\ Fairness

-----------------------------------------------------------------------------
TypeOK ==
  /\ kind \in {"case", "work_order", "setup"} /\ category \in Categories
  /\ approval \in {"none", "open", "approved", "rejected"}
  /\ sla \in Slas /\ breachedAt \in BOOLEAN
  /\ timers \in [Policies -> Timers]
  /\ queue \subseteq Events /\ dead \subseteq Emitted
  /\ worker \in [Workers -> [pc : {"rpc", "ack"}, event : Emitted] \cup {Idle}]
  /\ cron \in [Crons -> SUBSET (Policies \X Nat)]
  /\ edits \in 0..MaxEdits /\ late \in BOOLEAN /\ faults \in 0..MaxFaults

(* A timer that runs and has breached is a breach the ticket shows, also    *)
(* when its policy is changed between the cron's select and its update      *)
(* (mark_sla_breached_batch, update_entity_sla, reclassify_ticket).         *)
BreachIsShown ==
  \A p \in Policies : timers[p].active /\ timers[p].breached => breachedAt

RepointComes == \E e \in queue : e # StatusEvent /\ e.kind = "repoint" /\ e.policy = sla

(* The event that orders the timer of the policy is a dead letter. *)
DeadOrder == \E e \in dead : e.policy = sla /\ e.n = edits

(* A timer runs for a policy the ticket does not have only while the event  *)
(* that repoints it is on its way or among the dead letters, or because an  *)
(* event older than the policy has been applied: the handlers read sla_id   *)
(* before the RPC, and cannot tell a policy from the same policy chosen     *)
(* again (repoint_sla_timer, reclassify_ticket).                            *)
TimersFollowPolicy ==
  \A p \in Policies : timers[p].active /\ p # sla => RepointComes \/ DeadOrder \/ late

(* A setup work order keeps the policy it was made with, whose clock nobody *)
(* starts.                                                                  *)
NeverOrdered == kind = "setup" /\ edits = 0

(* As long as no stale event was applied, a ticket whose clock should run   *)
(* has its timer, or the event that will start it is still in the outbox,   *)
(* or it is a dead letter somebody can see: no crash between the RPC and    *)
(* the acknowledgement, no dropped event and no change of the policy loses  *)
(* the last one without a trace.  Setup work orders apart, which have a     *)
(* policy without a clock (SlaTimerHandler.handle, grant_ticket_approval).  *)
StartIsOnItsWay ==
  sla \in Policies /\ approval \in {"none", "approved"} /\ ~late /\ ~NeverOrdered
    => \/ timers[sla].active
       \/ \E e \in queue : e # StatusEvent /\ e.policy = sla
       \/ DeadOrder

(* A ticket that keeps its policy gets the timer of that policy, whatever   *)
(* crashes on the way, unless its order ends as a dead letter (a policy     *)
(* without targets, attempts used up) or a stale event is applied; a setup  *)
(* work order never gets one (SlaTimerHandler, SlaTimerRepointHandler).     *)
TimerIsStarted ==
  \A p \in Policies :
    sla = p /\ approval \in {"none", "approved"} /\ ~NeverOrdered
      ~> timers[p].active \/ sla # p \/ DeadOrder \/ late
=============================================================================
