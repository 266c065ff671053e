--------------------------- MODULE SlaThresholds ---------------------------
(***************************************************************************)
(* The minute cron of the SLA engine (SlaService.checkBreaches) over one   *)
(* timer of one ticket: it marks the breach, then fires the thresholds of  *)
(* the policy that were passed, in ascending order.  Every instance of the *)
(* API runs it; the in-flight flag keeps one instance from overlapping     *)
(* with itself, not with another.                                          *)
(*                                                                         *)
(* A threshold notifies its target or escalates the ticket to it.  An      *)
(* escalation goes through the RPC set_entity_assignment under the key of  *)
(* timer and threshold, then inserts the crossing, then notifies: three    *)
(* transactions.  Where the timer comes from is the module SlaTimers.      *)
(***************************************************************************)
EXTENDS Integers, FiniteSets

CONSTANTS Instances,   \* API processes
          Thresholds,  \* at_percent of the thresholds, in units of time
          Due,         \* 100 percent, in the same unit
          Escalates,   \* thresholds whose action is escalate
          TargetOf,    \* the assignee an escalation is for
          Managed,     \* thresholds for the requester's manager, who may be missing
          NoUser,      \* thresholds for a person without a user account
          Assignees,
          Nobody,      \* the ticket is not assigned
          NoOp,        \* no command_operations row
          MaxPercent,  \* bound: how long the timer is watched
          MaxFaults,   \* bound: crashes and failed statements
          MaxEdits     \* bound: assignments by hand

ASSUME ThresholdsAssumption == Thresholds \subseteq Nat /\ IsFiniteSet(Thresholds)
ASSUME DueAssumption == Due \in Nat
ASSUME EscalatesAssumption == Escalates \subseteq Thresholds
ASSUME TargetAssumption == TargetOf \in [Thresholds -> Assignees]
ASSUME NobodyAssumption == Nobody \notin Assignees
ASSUME NoOpAssumption == NoOp \notin Assignees \cup {Nobody}
ASSUME BoundsAssumption ==
  MaxPercent \in Nat /\ MaxFaults \in Nat /\ MaxEdits \in Nat

VARIABLES
  percent,     \* time since the timer started
  breached,    \* sla_timers.breached
  active,      \* neither stopped nor completed
  assignee,    \* of the ticket
  dirty,       \* a watcher of the ticket has left the tenant
  ops,         \* command_operations: the assignee in the payload of each key
  crossings,   \* sla_threshold_crossings.action
  notified,    \* notifications sent per threshold
  tick,        \* per instance: next statement, its now, thresholds left, what it read
  held,        \* history: thresholds whose target has had the ticket
  edits, faults

ticket == <<assignee, dirty, ops>>
timer  == <<percent, breached, active>>
record == <<crossings, notified>>
vars   == <<timer, ticket, record, tick, held, edits, faults>>

Holders == Assignees \cup {Nobody}
PCs     == {"idle", "mark", "select", "load", "probe", "assign", "cross", "skip", "notify"}
Ticks   == [pc : PCs, now : Nat, todo : SUBSET Thresholds, seen : Holders]
Resting == [pc |-> "idle", now |-> 0, todo |-> {}, seen |-> Nobody]

Init ==
  /\ percent = 0 /\ breached = FALSE /\ active = TRUE
  /\ assignee \in Holders
  /\ dirty = FALSE
  /\ ops = [h \in Thresholds |-> NoOp]
  /\ crossings = [h \in Thresholds |-> "none"]
  /\ notified = [h \in Thresholds |-> 0]
  /\ tick = [i \in Instances |-> Resting]
  /\ held = {h \in Thresholds : TargetOf[h] = assignee}
  /\ edits = 0 /\ faults = 0

Fault == faults < MaxFaults /\ faults' = faults + 1

Assign(a) ==
  /\ assignee' = a
  /\ held' = held \cup {h \in Thresholds : TargetOf[h] = a}

-----------------------------------------------------------------------------
(* The world. *)

Pass ==
  /\ percent < MaxPercent
  /\ percent' = percent + 1
  /\ UNCHANGED <<breached, active, ticket, record, tick, held, edits, faults>>

AssignByHand(a) ==
  /\ edits < MaxEdits
  /\ edits' = edits + 1
  /\ a # assignee
  /\ Assign(a)
  /\ UNCHANGED <<timer, dirty, ops, record, tick, faults>>

WatcherLeaves ==
  /\ ~dirty
  /\ dirty' = TRUE
  /\ UNCHANGED <<timer, assignee, ops, record, tick, held, edits, faults>>

(* The policy changes: its timers are stopped. *)
StopTimer ==
  /\ active
  /\ active' = FALSE
  /\ UNCHANGED <<percent, breached, ticket, record, tick, held, edits, faults>>

-----------------------------------------------------------------------------
(* runBreachCheck: now is read once, at the start of the tick.              *)

Goto(i, pc) == tick' = [tick EXCEPT ![i].pc = pc]

(* The threshold at hand: the lowest of those left. *)
Current(i) == CHOOSE h \in tick[i].todo : \A g \in tick[i].todo : h <= g

Overdue(now) == active /\ ~breached /\ Due < now

CheckBreaches(i) ==
  /\ tick[i].pc = "idle"
  /\ tick' = [tick EXCEPT ![i] = [Resting EXCEPT !.now = percent,
                !.pc = IF Overdue(percent) THEN "mark" ELSE "select"]]
  /\ UNCHANGED <<timer, ticket, record, held, edits, faults>>

(* mark_sla_breached_batch looks at breached alone; a failure is logged. *)
MarkBreached(i) ==
  /\ tick[i].pc = "mark"
  /\ \/ breached' = TRUE /\ UNCHANGED faults
     \/ Fault /\ UNCHANGED breached
  /\ Goto(i, "select")
  /\ UNCHANGED <<percent, active, ticket, record, held, edits>>

(* processThresholds: the timers that run and have not breached, and the    *)
(* crossings they have.                                                     *)
Applicable(now) ==
  {h \in Thresholds : active /\ ~breached /\ h <= now /\ crossings[h] = "none"}

SelectThresholds(i) ==
  /\ tick[i].pc = "select"
  /\ tick' = [tick EXCEPT ![i] =
       IF Applicable(tick[i].now) = {} THEN Resting
       ELSE [@ EXCEPT !.pc = "load", !.todo = Applicable(tick[i].now)]]
  /\ UNCHANGED <<timer, ticket, record, held, edits, faults>>

-----------------------------------------------------------------------------
(* fireThreshold *)

(* Mutant: the crossing of an escalation is claimed before the assignment. *)
LoadTicketEager(i) ==
  /\ tick[i].pc = "load"
  /\ tick' = [tick EXCEPT ![i].seen = assignee, ![i].pc = "cross"]
  /\ UNCHANGED <<timer, ticket, record, held, edits, faults>>

LoadTicket(i) ==
  /\ tick[i].pc = "load"
  /\ \/ tick' = [tick EXCEPT ![i].seen = assignee,
                   ![i].pc = IF Current(i) \in Escalates THEN "probe" ELSE "cross"]
     \/ Current(i) \in Managed /\ Goto(i, "skip")
  /\ UNCHANGED <<timer, ticket, record, held, edits, faults>>

(* applyReassignment: nothing to do if the RPC has committed under this     *)
(* key, or if the target has the ticket or no account.                      *)
Done(i)     == ops[Current(i)] # NoOp
NoChange(i) == tick[i].seen = TargetOf[Current(i)] \/ Current(i) \in NoUser

(* Mutant: the key is not looked up. *)
ProbeNever(i) ==
  /\ tick[i].pc = "probe"
  /\ Goto(i, IF NoChange(i) THEN "cross" ELSE "assign")
  /\ UNCHANGED <<timer, ticket, record, held, edits, faults>>

Probe(i) ==
  /\ tick[i].pc = "probe"
  /\ Goto(i, IF Done(i) \/ NoChange(i) THEN "cross" ELSE "assign")
  /\ UNCHANGED <<timer, ticket, record, held, edits, faults>>

(* set_entity_assignment.  The payload holds the outgoing assignee among    *)
(* the watchers, as the tick read it; with one, all watchers are validated. *)
Rejected(i) == dirty /\ tick[i].seen # Nobody

Applies(i) ==
  /\ ~Done(i)
  /\ ~Rejected(i)
  /\ Assign(TargetOf[Current(i)])
  /\ ops' = [ops EXCEPT ![Current(i)] = tick[i].seen]
  /\ Goto(i, "cross")

Replays(i) ==
  /\ ops[Current(i)] = tick[i].seen
  /\ Goto(i, "cross")
  /\ UNCHANGED <<assignee, ops, held>>

(* payload_mismatch or invalid_watcher: the tick leaves the timer alone.   *)
(* With an outgoing assignee the payload holds all watchers, who may have  *)
(* changed since.                                                          *)
Throws(i) ==
  /\ \/ Done(i) /\ (ops[Current(i)] # tick[i].seen \/ tick[i].seen # Nobody)
     \/ ~Done(i) /\ Rejected(i)
  /\ tick' = [tick EXCEPT ![i] = Resting]
  /\ UNCHANGED <<assignee, ops, held>>

(* Mutant: the RPC has no key to recognise a replay by. *)
SetEntityAssignmentAgain(i) ==
  /\ tick[i].pc = "assign"
  /\ ~Rejected(i)
  /\ Assign(TargetOf[Current(i)])
  /\ ops' = [ops EXCEPT ![Current(i)] = tick[i].seen]
  /\ Goto(i, "cross")
  /\ UNCHANGED <<timer, dirty, record, edits, faults>>

SetEntityAssignment(i) ==
  /\ tick[i].pc = "assign"
  /\ Applies(i) \/ Replays(i) \/ Throws(i)
  /\ UNCHANGED <<timer, dirty, record, edits, faults>>

(* The next threshold of the tick, or its end. *)
Advance(i) ==
  tick' = [tick EXCEPT ![i] =
             IF tick[i].todo = {Current(i)} THEN Resting
             ELSE [tick[i] EXCEPT !.pc = "load", !.todo = @ \ {Current(i)}]]

(* writeCrossing: unique per timer and threshold; who loses is done. *)
WriteCrossing(i) ==
  /\ tick[i].pc = "cross"
  /\ \/ /\ crossings[Current(i)] = "none"
        /\ crossings' = [crossings EXCEPT ![Current(i)] =
                           IF Current(i) \in Escalates THEN "escalate" ELSE "notify"]
        /\ Goto(i, "notify")
     \/ /\ crossings[Current(i)] # "none"
        /\ Advance(i)
        /\ UNCHANGED crossings
  /\ UNCHANGED <<timer, ticket, notified, held, edits, faults>>

WriteSkip(i) ==
  /\ tick[i].pc = "skip"
  /\ crossings' = [crossings EXCEPT ![Current(i)] =
                     IF @ = "none" THEN "skipped_no_manager" ELSE @]
  /\ Advance(i)
  /\ UNCHANGED <<timer, ticket, notified, held, edits, faults>>

(* The side effects of the winner, of which none is retried. *)
Notify(i) ==
  /\ tick[i].pc = "notify"
  /\ \/ notified' = [notified EXCEPT ![Current(i)] = @ + 1] /\ UNCHANGED faults
     \/ Fault /\ UNCHANGED notified
  /\ Advance(i)
  /\ UNCHANGED <<timer, ticket, crossings, held, edits>>

(* A statement throws or the process dies: the tick ends where it is. *)
TickAborts(i) ==
  /\ tick[i].pc # "idle"
  /\ Fault
  /\ tick' = [tick EXCEPT ![i] = Resting]
  /\ UNCHANGED <<timer, ticket, record, held, edits>>

-----------------------------------------------------------------------------
Tick(i) ==
  \/ CheckBreaches(i) \/ MarkBreached(i) \/ SelectThresholds(i) \/ LoadTicket(i)
  \/ Probe(i) \/ SetEntityAssignment(i) \/ WriteCrossing(i) \/ WriteSkip(i) \/ Notify(i)

Next ==
  \/ Pass
  \/ \E a \in Holders : AssignByHand(a)
  \/ WatcherLeaves
  \/ StopTimer
  \/ \E i \in Instances : Tick(i) \/ TickAborts(i)

Spec == Init /\ [][Next]_vars

(* The cron comes round every minute and a tick that runs goes on. *)
FairSpec == Spec /\ \A i \in Instances : WF_vars(Tick(i))

-----------------------------------------------------------------------------
TypeOK ==
  /\ percent \in 0..MaxPercent
  /\ breached \in BOOLEAN /\ active \in BOOLEAN /\ dirty \in BOOLEAN
  /\ assignee \in Holders
  /\ ops \in [Thresholds -> Holders \cup {NoOp}]
  /\ crossings \in [Thresholds -> {"none", "notify", "escalate", "skipped_no_manager"}]
  /\ notified \in [Thresholds -> Nat]
  /\ tick \in [Instances -> Ticks]
  /\ held \subseteq Thresholds
  /\ edits \in 0..MaxEdits /\ faults \in 0..MaxFaults

(* However many instances tick at a time, crash and come back, nobody is    *)
(* notified twice of a threshold, and of a skipped one not at all           *)
(* (fireThreshold, writeCrossing).                                          *)
NotifiedOnce ==
  \A h \in Thresholds :
    /\ notified[h] <= 1
    /\ crossings[h] \in {"none", "skipped_no_manager"} => notified[h] = 0

(* An escalation is recorded only after its target has had the ticket; a    *)
(* target without an account is the exception (applyReassignment,           *)
(* writeCrossing: the crossing is never written before the assignment).     *)
EscalatedWasAssigned ==
  \A h \in Thresholds : crossings[h] = "escalate" => h \in held \cup NoUser

(* An escalation takes the ticket at most once: its retries and the ticks   *)
(* it overlaps with never take it again from whoever was given it by hand   *)
(* (set_entity_assignment under the stable key).                            *)
TakesOnce ==
  [][assignee' # assignee =>
       \/ edits' # edits
       \/ \E h \in Escalates : ops[h] = NoOp /\ ops'[h] # NoOp /\ assignee' = TargetOf[h]]_vars

(* All of this together is the promise of Escalations: overlapping ticks,  *)
(* crashes between the assignment, the crossing and the notification, and  *)
(* people who reassign the ticket meanwhile, make no escalation take the   *)
(* ticket twice, go on record before it was done, or be told twice.        *)
Taken == {h \in Thresholds : ops[h] # NoOp}

Promise == INSTANCE Escalations
             WITH given <- edits, taken <- Taken, had <- held, told <- notified

ImplementsEscalations == Promise!Spec

(* No permanent suppression: a threshold that has been passed is recorded   *)
(* in the end, whatever failed on the way and whoever reassigned the ticket *)
(* in between, unless the timer stops or breaches first, or a watcher has   *)
(* left (R-A02-2 in fireThreshold).                                         *)
ThresholdIsRecorded ==
  \A h \in Thresholds : h <= percent ~> crossings[h] # "none" \/ breached \/ ~active \/ dirty
=============================================================================
