-------------------------- MODULE SlaTimersProofs --------------------------
(***************************************************************************)
(* Safety of the SLA timers of a ticket, for every set of policies,        *)
(* workers and cron instances and every bound.                             *)
(*                                                                         *)
(* That the timers follow the policy is not inductive by itself.  What     *)
(* carries it is the version of the policy: an event of the current        *)
(* version names the current policy (EventOK); as long as no older event   *)
(* has been applied there is one active timer at most (OneActive), so that *)
(* the short cut of repoint_sla_timer leaves nothing behind (AckOK).  A    *)
(* start finds no timer of another policy, since a case gets timers before *)
(* it is approved from its workflow only (StartOK).                        *)
(***************************************************************************)
EXTENDS SlaTimers, TLAPS

Current == [kind |-> "repoint", policy |-> sla, n |-> edits]

Active(p) == timers[p].active

(* A worker's event is in the queue, and nobody else has it. *)
WorkerOK ==
  /\ \A w \in Workers : worker[w] # Idle => worker[w].event \in queue
  /\ \A w, x \in Workers :
       worker[w] # Idle /\ worker[x] # Idle /\ worker[w].event = worker[x].event => w = x

(* An event is of some version of the policy, and of the current one only   *)
(* with the current policy.                                                 *)
EventOK ==
  \A e \in queue \cap Emitted :
    /\ e.n <= edits
    /\ e.n = edits => e.policy = sla

StartQueued == \E e \in queue \cap Emitted : e.kind = "start" /\ e.n = edits

(* Unless an old event was applied, there is one timer, which is the        *)
(* policy's when a start is or will be ordered, and the current repoint is  *)
(* where it was when it is not.                                             *)
OneActive == ~late => \A p, q \in Policies : Active(p) /\ Active(q) => p = q
StartOK   == ~late /\ (approval = "open" \/ StartQueued) => \A p \in Policies : Active(p) => p = sla
FollowOK  == ~late => \A p \in Policies : Active(p) /\ p # sla => Current \in queue \cup dead

(* Once the current repoint has been applied, the timer is the policy's. *)
AckOK ==
  \A w \in Workers :
    /\ ~late
    /\ worker[w].pc = "ack" /\ worker[w].event = Current
    => \A p \in Policies : Active(p) => p = sla

IInv ==
  /\ TypeOK /\ BreachIsShown /\ WorkerOK /\ EventOK
  /\ OneActive /\ StartOK /\ FollowOK /\ AckOK

-----------------------------------------------------------------------------
(* A fresh timer is active and not breached. *)
LEMMA FreshTimer ==
  ASSUME NEW t \in Timers
  PROVE  Fresh(t) \in Timers /\ Fresh(t).active /\ ~Fresh(t).breached
<1>1. t.gen + 1 \in Nat
  BY DEF Timers
<1> QED
  BY <1>1 DEF Fresh, Timers

(* A stopped timer is not active. *)
LEMMA StoppedTimer ==
  ASSUME NEW t \in Timers
  PROVE  Stopped(t) \in Timers /\ ~Stopped(t).active
  BY DEF Stopped, NoTimer, Timers

(* Flagging a set of timers changes neither which run nor which breached. *)
LEMMA FlaggedTimers ==
  ASSUME NEW ts \in [Policies -> Timers]
  PROVE  /\ Flagged(ts) \in [Policies -> Timers]
         /\ \A p \in Policies : /\ Flagged(ts)[p].active = ts[p].active
                                /\ Flagged(ts)[p].breached = ts[p].breached
  BY DEF Flagged, Timers

(* Reinstalling a policy leaves its timer as the only one. *)
LEMMA ReinstalledTimers ==
  ASSUME timers \in [Policies -> Timers], NEW p \in Slas
  PROVE  /\ Reinstalled(p) \in [Policies -> Timers]
         /\ \A q \in Policies : /\ Reinstalled(p)[q].active <=> q = p
                                /\ ~(Reinstalled(p)[q].active /\ Reinstalled(p)[q].breached)
<1>1. \A q \in Policies : timers[q] \in Timers
  OBVIOUS
<1> QED
  BY <1>1, FreshTimer, StoppedTimer DEF Reinstalled

(* An emitted event is not a status event. *)
LEMMA EmittedIsNotStatus ==
  ASSUME NEW e \in Emitted
  PROVE  e # StatusEvent
  BY DEF Emitted, StatusEvent

(* A worker that is not idle has an emitted event. *)
LEMMA BusyWorker ==
  ASSUME TypeOK, NEW w \in Workers, worker[w] # Idle
  PROVE  worker[w] \in [pc : {"rpc", "ack"}, event : Emitted]
  BY DEF TypeOK

(* So is a worker at one of the two statements. *)
LEMMA IdleHasNoStatement ==
  ASSUME NEW w \in Workers, worker[w].pc \in {"rpc", "ack"}
  PROVE  worker[w] # Idle
  BY DEF Idle

-----------------------------------------------------------------------------
(* Nothing of the invariant but its types is about category, faults or cron. *)
LEMMA Frame ==
  ASSUME IInv, TypeOK', BreachIsShown',
         UNCHANGED <<sla, approval, queue, dead, worker, edits, late>>,
         \A p \in Policies : Active(p)' = Active(p)
  PROVE  IInv'
<1>1. WorkerOK' /\ EventOK'
  BY DEF IInv, WorkerOK, EventOK
<1>2. OneActive' /\ StartOK'
  BY DEF IInv, OneActive, StartOK, StartQueued
<1>3. FollowOK' /\ AckOK'
  BY DEF IInv, FollowOK, AckOK, Current
<1> QED
  BY <1>1, <1>2, <1>3 DEF IInv

(* The invariant holds at first. *)
LEMMA InitInv == Init => IInv
<1> SUFFICES ASSUME Init PROVE IInv
  OBVIOUS
<1>0. NoTimer \in Timers /\ ~NoTimer.active /\ Fresh(NoTimer) \in Timers /\ ~Fresh(NoTimer).breached
  BY FreshTimer DEF NoTimer, Timers
<1>1. StartEvent(sla, 0) \subseteq Emitted
  BY DEF Init, StartEvent, Emitted, Slas
<1>2. timers \in [Policies -> Timers]
  BY <1>0 DEF Init
<1>3. TypeOK
  <2>1. queue \subseteq Events
    BY <1>1 DEF Init, Events
  <2>2. cron \in [Crons -> SUBSET (Policies \X Nat)]
    BY DEF Init
  <2>3. worker \in [Workers -> [pc : {"rpc", "ack"}, event : Emitted] \cup {Idle}]
    BY DEF Init
  <2>4. edits \in 0..MaxEdits /\ faults \in 0..MaxFaults
    BY BoundsAssumption DEF Init
  <2> QED
    BY <1>2, <2>1, <2>2, <2>3, <2>4 DEF Init, TypeOK, Categories
<1>4. \A p \in Policies : ~timers[p].breached /\ (timers[p].active => p = sla)
  BY <1>0 DEF Init, NoTimer
<1>5. BreachIsShown /\ OneActive /\ StartOK /\ FollowOK
  BY <1>4 DEF BreachIsShown, OneActive, StartOK, FollowOK, Active
<1>6. WorkerOK
  BY DEF Init, WorkerOK
<1>7. EventOK
  <2>1. \A e \in queue : e = [kind |-> "start", policy |-> sla, n |-> 0]
    BY DEF Init, StartEvent
  <2> QED
    BY <2>1 DEF EventOK, Init
<1>8. AckOK
  BY IdleHasNoStatement DEF Init, AckOK
<1> QED
  BY <1>3, <1>5, <1>6, <1>7, <1>8 DEF IInv

-----------------------------------------------------------------------------
(* The changes of the ticket keep the invariant. *)
LEMMA EditInv ==
  ASSUME IInv, Edit
  PROVE  IInv'
<1> USE DEF IInv
<1>1. ASSUME NEW approved \in BOOLEAN, GrantTicketApproval(approved) PROVE IInv'
  <2>0. USE <1>1 DEF GrantTicketApproval
  <2>1. StartEvent(sla, edits) \subseteq Emitted /\ queue' \subseteq queue \cup StartEvent(sla, edits)
    BY DEF TypeOK, StartEvent, Emitted, Slas
  <2>2. TypeOK'
    BY <2>1 DEF TypeOK, Events, Categories
  <2>3. queue \subseteq queue'
    OBVIOUS
  <2>4. EventOK'
    <3>1. \A e \in StartEvent(sla, edits) : e.n = edits /\ e.policy = sla
      BY DEF StartEvent
    <3> QED
      BY <2>1, <3>1 DEF EventOK, TypeOK
  <2>5. WorkerOK' /\ BreachIsShown'
    BY <2>3 DEF WorkerOK, BreachIsShown
  <2>6. ~late => \A p \in Policies : Active(p) => p = sla
    BY DEF StartOK
  <2>7. OneActive' /\ StartOK' /\ FollowOK' /\ AckOK'
    BY <2>6 DEF OneActive, StartOK, FollowOK, AckOK, Active
  <2> QED
    BY <2>2, <2>4, <2>5, <2>7
<1>2. ASSUME NEW to \in Categories \ {"pending_approval"}, NEW pauses \in BOOLEAN,
             TransitionEntityStatus(to, pauses)
      PROVE  IInv'
  <2>0. USE <1>2 DEF TransitionEntityStatus
  <2>1. timers' \in [Policies -> Timers] /\ \A p \in Policies :
          timers'[p].active = timers[p].active /\ timers'[p].breached = timers[p].breached
    BY FlaggedTimers DEF TypeOK
  <2>2. queue \subseteq queue' /\ queue' \subseteq queue \cup {StatusEvent}
    OBVIOUS
  <2>3. TypeOK'
    BY <2>1, <2>2 DEF TypeOK, Events
  <2>4. EventOK'
    BY <2>2, EmittedIsNotStatus DEF EventOK
  <2>5. WorkerOK'
    BY <2>2 DEF WorkerOK
  <2>6. BreachIsShown'
    BY <2>1 DEF BreachIsShown
  <2>7. StartQueued' => StartQueued
    BY <2>2, EmittedIsNotStatus DEF StartQueued
  <2>8. OneActive' /\ StartOK' /\ FollowOK' /\ AckOK'
    BY <2>1, <2>2, <2>7 DEF OneActive, StartOK, FollowOK, AckOK, Active, Current
  <2> QED
    BY <2>3, <2>4, <2>5, <2>6, <2>8
<1>3. ASSUME NEW p \in Slas, Reclassify(p) PROVE IInv'
  <2>0. USE <1>3 DEF Reclassify
  <2>a. edits' \in 0..MaxEdits /\ edits' = edits + 1 /\ edits \in Nat
    BY BoundsAssumption DEF TypeOK
  <2>1. CASE p # NoPolicy
    <3>0. p \in Policies
      BY <2>1 DEF Slas
    <3>1. Current' \in queue' /\ Current' \in Emitted /\ queue' = queue \cup {Current'}
      BY <2>1, <2>a, <3>0 DEF Current, Emitted
    <3>2. TypeOK'
      BY <2>1, <2>a, <3>1 DEF TypeOK, Events
    <3>3. EventOK'
      <4>1. ASSUME NEW e \in queue \cap Emitted 
            PROVE  e.n <= edits' /\ e.n # edits'
        BY <2>a DEF EventOK, Emitted
      <4>2. Current'.n = edits' /\ Current'.policy = sla' /\ Current'.kind = "repoint"
        BY DEF Current
      <4> QED
        BY <3>1, <4>1, <4>2, <2>a DEF EventOK
    <3>b. ~StartQueued'
      <4>1. ASSUME NEW e \in queue \cap Emitted PROVE e.n # edits'
        BY <2>a DEF EventOK, Emitted
      <4> QED
        BY <3>1, <4>1 DEF StartQueued, Current
    <3>4. WorkerOK' /\ BreachIsShown'
      BY <2>1, <3>1 DEF WorkerOK, BreachIsShown
    <3>5. OneActive' /\ StartOK' /\ FollowOK'
      BY <2>1, <2>a, <3>1, <3>b DEF OneActive, StartOK, FollowOK, Active
    <3>6. AckOK'
      <4>1. ASSUME NEW w \in Workers, worker[w].pc = "ack", worker[w].event = Current' PROVE FALSE
        <5>1. worker[w] # Idle
          BY <4>1, IdleHasNoStatement
        <5>2. Current' \in queue \cap Emitted
          BY <4>1, <5>1, <3>1 DEF WorkerOK
        <5> QED
          BY <5>2, <2>a DEF EventOK, Current
      <4> QED
        BY <4>1 DEF AckOK
    <3> QED
      BY <3>2, <3>3, <3>4, <3>5, <3>6
  <2>2. CASE p = NoPolicy
    <3>1. timers' \in [Policies -> Timers] /\ \A q \in Policies : ~timers'[q].active
      BY <2>2, StoppedTimer DEF StopAll, TypeOK
    <3>2. TypeOK'
      BY <2>2, <2>a, <3>1 DEF TypeOK
    <3>3. EventOK'
      <4>1. ASSUME NEW e \in queue \cap Emitted 
            PROVE  e.n <= edits' /\ e.n # edits'
        BY <2>a DEF EventOK, Emitted
      <4> QED
        BY <2>2, <4>1, <2>a DEF EventOK
    <3>4. WorkerOK' /\ BreachIsShown'
      BY <2>2, <3>1 DEF WorkerOK, BreachIsShown
    <3>5. OneActive' /\ StartOK' /\ FollowOK' /\ AckOK'
      BY <3>1 DEF OneActive, StartOK, FollowOK, AckOK, Active
    <3> QED
      BY <3>2, <3>3, <3>4, <3>5
  <2> QED
    BY <2>1, <2>2
<1>4. ASSUME NEW p \in Slas, UpdateEntitySla(p) PROVE IInv'
  <2>0. USE <1>4 DEF UpdateEntitySla
  <2>a. edits' \in 0..MaxEdits /\ edits' = edits + 1 /\ edits \in Nat
    BY BoundsAssumption DEF TypeOK
  <2>1. Reinstalled(p) \in [Policies -> Timers]
    BY ReinstalledTimers DEF TypeOK
  <2>2. timers' \in [Policies -> Timers] /\ \A q \in Policies :
          (timers'[q].active <=> q = p) /\ ~(timers'[q].active /\ timers'[q].breached)
    BY <2>1, ReinstalledTimers, FlaggedTimers DEF TypeOK
  <2>3. queue \subseteq queue' /\ queue' \subseteq queue \cup {StatusEvent}
    OBVIOUS
  <2>4. TypeOK'
    BY <2>a, <2>2, <2>3 DEF TypeOK, Events
  <2>5. EventOK'
    <3>1. ASSUME NEW e \in queue \cap Emitted PROVE e.n <= edits' /\ e.n # edits'
      BY <2>a DEF EventOK, Emitted
    <3>2. queue' \cap Emitted \subseteq queue
      BY <2>3, EmittedIsNotStatus
    <3> QED
      BY <3>1, <3>2 DEF EventOK
  <2>6. WorkerOK' /\ BreachIsShown'
    BY <2>2, <2>3 DEF WorkerOK, BreachIsShown
  <2>7. OneActive' /\ StartOK' /\ FollowOK' /\ AckOK'
    BY <2>2 DEF OneActive, StartOK, FollowOK, AckOK, Active
  <2> QED
    BY <2>4, <2>5, <2>6, <2>7
<1> QED
  BY <1>1, <1>2, <1>3, <1>4 DEF Edit

-----------------------------------------------------------------------------
(* The handlers keep the invariant. *)
LEMMA HandleInv ==
  ASSUME IInv, NEW w \in Workers, NEW e \in queue, Handle(w, e)
  PROVE  IInv'
<1> USE DEF IInv
<1>0. USE DEF Handle, ticket
<1>1. e \in Events
  BY DEF TypeOK
<1>2. CASE DeadLetter(e) \/ Drop(e)
  <2>0. USE <1>2 DEF DeadLetter, Drop
  <2>1. queue' = queue \ {e} /\ worker' = worker
    OBVIOUS
  <2>2. TypeOK'
    BY <2>1 DEF TypeOK
  <2>3. EventOK' /\ BreachIsShown'
    BY <2>1 DEF EventOK, BreachIsShown
  <2>4. \A x \in Workers : worker[x] # Idle => worker[x].event # e
    BY DEF Free
  <2>5. WorkerOK'
    BY <2>1, <2>4 DEF WorkerOK
  <2>6. FollowOK'
    <3>1. Current \in queue \cap Emitted => Current \in queue' \cup dead'
      BY <2>1 DEF Current, StatusEvent
    <3>2. dead \subseteq dead'
      OBVIOUS
    <3>3. Current \in queue => Current \in Emitted
      BY DEF TypeOK, Events, Current, StatusEvent
    <3> QED
      BY <3>1, <3>2, <3>3 DEF FollowOK, Active, Current
  <2>7. OneActive' /\ StartOK' /\ AckOK'
    BY <2>1 DEF OneActive, StartOK, StartQueued, AckOK, Active, Current
  <2> QED
    BY <2>2, <2>3, <2>5, <2>6, <2>7
<1>3. CASE Accept(w, e)
  <2>0. USE <1>3 DEF Accept
  <2>1. e \in Emitted
    BY <1>1 DEF Events
  <2>2. worker'[w] = [pc |-> "rpc", event |-> e] /\ \A x \in Workers \ {w} : worker'[x] = worker[x]
    BY DEF TypeOK
  <2>3. TypeOK'
    BY <2>1 DEF TypeOK
  <2>4. EventOK' /\ BreachIsShown'
    BY DEF EventOK, BreachIsShown
  <2>5. WorkerOK'
    <3>1. worker'[w].event = e /\ worker'[w].pc = "rpc"
      BY <2>2
    <3>2. ASSUME NEW x \in Workers, worker'[x] # Idle PROVE worker'[x].event \in queue'
      BY <2>2, <3>1, <3>2 DEF WorkerOK
    <3>3. ASSUME NEW x \in Workers, NEW y \in Workers, worker'[x] # Idle, worker'[y] # Idle,
                 worker'[x].event = worker'[y].event
          PROVE  x = y
      BY <2>2, <3>1, <3>3 DEF WorkerOK, Free
    <3> QED
      BY <3>2, <3>3 DEF WorkerOK
  <2>6. OneActive' /\ StartOK' /\ FollowOK'
    BY DEF OneActive, StartOK, StartQueued, FollowOK, Active, Current
  <2>7. AckOK'
    BY <2>2 DEF AckOK, Active, Current
  <2> QED
    BY <2>3, <2>4, <2>5, <2>6, <2>7
<1> QED
  BY <1>2, <1>3

LEMMA RpcInv ==
  ASSUME IInv, NEW w \in Workers, Rpc(w)
  PROVE  IInv'
<1> USE DEF IInv
<1> DEFINE e == worker[w].event
<1>0. USE DEF Rpc, ticket
<1>1. worker[w] # Idle /\ worker[w] \in [pc : {"rpc", "ack"}, event : Emitted]
  BY BusyWorker, IdleHasNoStatement
<1>2. e \in Emitted /\ e \in queue /\ e.policy \in Policies /\ e.policy \in Slas
  BY <1>1 DEF WorkerOK, Emitted, Slas
<1>3. e.n <= edits /\ (e.n = edits => e.policy = sla)
  BY <1>2 DEF EventOK
<1>4. worker'[w] = [pc |-> "ack", event |-> e] /\ \A x \in Workers \ {w} : worker'[x] = worker[x]
  BY <1>1 DEF TypeOK
<1>5. worker' \in [Workers -> [pc : {"rpc", "ack"}, event : Emitted] \cup {Idle}]
  BY <1>1, <1>2, <1>4 DEF TypeOK
<1>6. late' \in BOOLEAN /\ (~late' => ~late /\ e.n = edits)
  BY DEF TypeOK
<1>7. /\ timers' \in [Policies -> Timers]
      /\ \A p \in Policies : timers'[p] = timers[p] \/ (timers'[p].active => ~timers'[p].breached)
      /\ \A p \in Policies : timers'[p].active => timers[p].active \/ p = e.policy
      /\ e.kind # "start" /\ ~timers[e.policy].active
           => \A p \in Policies : timers'[p].active => p = e.policy
      /\ timers[e.policy].active => timers' = timers
  <2>1. timers \in [Policies -> Timers] /\ \A p \in Policies : timers[p] \in Timers
    BY DEF TypeOK
  <2>2. CASE e.kind = "start"
    <3>1. timers' = IF timers[e.policy].active THEN timers
                    ELSE [timers EXCEPT ![e.policy] = Fresh(@)]
      BY <2>2 DEF Start
    <3>2. Fresh(timers[e.policy]) \in Timers /\ ~Fresh(timers[e.policy]).breached
      BY <1>2, <2>1, FreshTimer
    <3> QED
      BY <1>2, <2>1, <2>2, <3>1, <3>2
  <2>3. CASE e.kind # "start"
    <3>1. timers' = IF timers[e.policy].active THEN timers ELSE Reinstalled(e.policy)
      BY <2>3 DEF Repoint
    <3>2. /\ Reinstalled(e.policy) \in [Policies -> Timers]
          /\ \A q \in Policies :
               /\ Reinstalled(e.policy)[q].active <=> q = e.policy
               /\ ~(Reinstalled(e.policy)[q].active /\ Reinstalled(e.policy)[q].breached)
      BY <1>2, <2>1, ReinstalledTimers
    <3> QED
      BY <1>2, <2>1, <2>3, <3>1, <3>2
  <2> QED
    BY <2>2, <2>3
<1>8. TypeOK'
  BY <1>5, <1>6, <1>7 DEF TypeOK
<1>9. BreachIsShown'
  BY <1>7 DEF BreachIsShown
<1>10. EventOK'
  BY DEF EventOK
<1>11. WorkerOK'
  <2>1. \A x \in Workers : /\ worker'[x] # Idle <=> worker[x] # Idle
                           /\ worker'[x].event = worker[x].event
    BY <1>1, <1>4 DEF Idle
  <2> QED
    BY <2>1 DEF WorkerOK
<1>12. ~late' => \A p \in Policies : timers'[p].active => p = sla
  <2> SUFFICES ASSUME ~late', NEW p \in Policies, timers'[p].active PROVE p = sla
    OBVIOUS
  <2>1. e.policy = sla /\ ~late /\ e.n = edits
    BY <1>3, <1>6
  <2>2. CASE timers[e.policy].active
    BY <1>2, <1>7, <2>1, <2>2 DEF OneActive, Active
  <2>3. CASE ~timers[e.policy].active /\ e.kind = "start"
    BY <1>2, <1>7, <2>1, <2>3 DEF StartOK, StartQueued, Active
  <2>4. CASE ~timers[e.policy].active /\ e.kind # "start"
    BY <1>7, <2>1, <2>4
  <2> QED
    BY <2>2, <2>3, <2>4
<1>13. OneActive' /\ StartOK' /\ FollowOK' /\ AckOK'
  BY <1>12 DEF OneActive, StartOK, FollowOK, AckOK, Active
<1> QED
  BY <1>8, <1>9, <1>10, <1>11, <1>13

LEMMA AckInv ==
  ASSUME IInv, NEW w \in Workers, Ack(w)
  PROVE  IInv'
<1> USE DEF IInv
<1> DEFINE e == worker[w].event
<1>0. USE DEF Ack, ticket
<1>1. worker[w] # Idle
  BY IdleHasNoStatement
<1>2. queue' = queue \ {e} /\ worker'[w] = Idle /\ \A x \in Workers \ {w} : worker'[x] = worker[x]
  BY DEF TypeOK
<1>3. TypeOK'
  BY DEF TypeOK
<1>4. EventOK' /\ BreachIsShown'
  BY <1>2 DEF EventOK, BreachIsShown
<1>5. WorkerOK'
  BY <1>1, <1>2 DEF WorkerOK
<1>6. OneActive' /\ StartOK'
  BY DEF OneActive, StartOK, StartQueued, Active
<1>7. FollowOK'
  <2>1. CASE e = Current
    BY <2>1 DEF AckOK, FollowOK, Active
  <2>2. CASE e # Current
    BY <1>2, <2>2 DEF FollowOK, Active, Current
  <2> QED
    BY <2>1, <2>2
<1>8. AckOK'
  BY <1>2 DEF AckOK, Active, Current, Idle
<1> QED
  BY <1>3, <1>4, <1>5, <1>6, <1>7, <1>8

LEMMA WorkerDiesInv ==
  ASSUME IInv, NEW w \in Workers, WorkerDies(w)
  PROVE  IInv'
<1> USE DEF IInv
<1>0. USE DEF WorkerDies, ticket
<1>1. worker'[w] = Idle /\ \A x \in Workers \ {w} : worker'[x] = worker[x]
  BY DEF TypeOK
<1>2. TypeOK'
  BY BoundsAssumption DEF TypeOK, Fault
<1>3. EventOK' /\ BreachIsShown'
  BY DEF EventOK, BreachIsShown
<1>4. WorkerOK'
  BY <1>1 DEF WorkerOK
<1>5. OneActive' /\ StartOK' /\ FollowOK'
  BY DEF OneActive, StartOK, StartQueued, FollowOK, Active, Current
<1>6. AckOK'
  BY <1>1 DEF AckOK, Active, Current, Idle
<1> QED
  BY <1>2, <1>3, <1>4, <1>5, <1>6

(* What leaves the queue unapplied is a dead letter. *)
LEMMA ExhaustedInv ==
  ASSUME IInv, NEW w \in Workers, Exhausted(w)
  PROVE  IInv'
<1> USE DEF IInv
<1> DEFINE e == worker[w].event
<1>0. USE DEF Exhausted, ticket
<1>1. worker[w] # Idle /\ e \in Emitted
  BY BusyWorker
<1>2. queue' = queue \ {e} /\ worker'[w] = Idle /\ \A x \in Workers \ {w} : worker'[x] = worker[x]
  BY DEF TypeOK
<1>3. TypeOK'
  BY <1>1, BoundsAssumption DEF TypeOK, Fault
<1>4. EventOK' /\ BreachIsShown'
  BY <1>2 DEF EventOK, BreachIsShown
<1>5. WorkerOK'
  BY <1>1, <1>2 DEF WorkerOK
<1>6. OneActive' /\ StartOK' /\ FollowOK'
  BY DEF OneActive, StartOK, StartQueued, FollowOK, Active, Current
<1>7. AckOK'
  BY <1>2 DEF AckOK, Active, Current, Idle
<1> QED
  BY <1>3, <1>4, <1>5, <1>6, <1>7

(* The cron keeps it: it marks the ticket whenever it marks a timer. *)
LEMMA CronInv ==
  ASSUME IInv, NEW c \in Crons, SelectBreached(c) \/ MarkSlaBreached(c) \/ MarkFails(c)
  PROVE  IInv'
<1>0. TypeOK
  BY DEF IInv
<1>1. CASE SelectBreached(c)
  <2>0. USE <1>1 DEF SelectBreached
  <2>1. PICK due \in SUBSET Running : cron' = [cron EXCEPT ![c] = {<<p, timers[p].gen>> : p \in due}]
    OBVIOUS
  <2>2. \A p \in due : p \in Policies /\ timers[p].gen \in Nat
    BY <1>0 DEF Running, TypeOK, Timers
  <2>3. {<<p, timers[p].gen>> : p \in due} \in SUBSET (Policies \X Nat)
    BY <2>2
  <2>4. TypeOK'
    BY <1>0, <2>1, <2>3 DEF TypeOK, ticket
  <2>5. BreachIsShown'
    BY DEF IInv, BreachIsShown, ticket
  <2> QED
    BY <2>4, <2>5, Frame DEF Active, ticket
<1>2. CASE MarkSlaBreached(c)
  <2>0. USE <1>2 DEF MarkSlaBreached
  <2>1. \A p \in Policies : timers[p] \in Timers /\ Hit(p, c) \in BOOLEAN
    BY <1>0 DEF TypeOK, Hit, Timers
  <2>2. timers' \in [Policies -> Timers]
    BY <2>1 DEF Timers
  <2>3. \A p \in Policies : timers'[p].active = timers[p].active
    BY <2>1 DEF Timers
  <2>4. TypeOK'
    BY <1>0, <2>2 DEF TypeOK
  <2>5. BreachIsShown'
    BY DEF BreachIsShown
  <2> QED
    BY <2>3, <2>4, <2>5, Frame DEF Active
<1>3. CASE MarkFails(c)
  <2>0. USE <1>3 DEF MarkFails
  <2>1. TypeOK'
    BY <1>0, BoundsAssumption DEF TypeOK, Fault, ticket
  <2>2. BreachIsShown'
    BY DEF IInv, BreachIsShown, ticket
  <2> QED
    BY <2>1, <2>2, Frame DEF Active, ticket
<1> QED
  BY <1>1, <1>2, <1>3

(* The invariant is inductive. *)
LEMMA NextInv == IInv /\ [Next]_vars => IInv'
<1>1. ASSUME IInv, Next PROVE IInv'
  BY <1>1, EditInv, HandleInv, RpcInv, AckInv, WorkerDiesInv, ExhaustedInv, CronInv DEF Next
<1>2. ASSUME IInv, UNCHANGED vars PROVE IInv'
  <2>0. USE <1>2 DEF vars, ticket, procs, IInv
  <2>1. TypeOK' /\ BreachIsShown'
    BY DEF TypeOK, BreachIsShown
  <2> QED
    BY <2>1, Frame DEF Active
<1> QED
  BY <1>1, <1>2

LEMMA InductiveInvariant == Spec => []IInv
  BY InitInv, NextInv, PTL DEF Spec

-----------------------------------------------------------------------------
(* Every variable of the ticket, its timers, the outbox events and the      *)
(* handlers keeps its type.                                                 *)
THEOREM TypeCorrect == Spec => []TypeOK
<1>1. IInv => TypeOK
  BY DEF IInv
<1> QED
  BY <1>1, InductiveInvariant, PTL

(* Whatever the cron, the handlers and the users interleave, a breached     *)
(* timer that runs is shown on its ticket (mark_sla_breached_batch).        *)
THEOREM BreachShown == Spec => []BreachIsShown
<1>1. IInv => BreachIsShown
  BY DEF IInv
<1> QED
  BY <1>1, InductiveInvariant, PTL

(* Stale events apart, a timer runs for another policy than the ticket's    *)
(* only while its repoint is queued or a dead letter (repoint_sla_timer,    *)
(* reclassify_ticket).                                                      *)
THEOREM PolicyFollowed == Spec => []TimersFollowPolicy
<1>1. ASSUME IInv PROVE TimersFollowPolicy
  <2>1. Current # StatusEvent /\ Current.kind = "repoint" /\ Current.policy = sla /\ Current.n = edits
    BY DEF Current, StatusEvent
  <2> QED
    BY <1>1, <2>1 DEF IInv, FollowOK, Active, TimersFollowPolicy, RepointComes, DeadOrder
<1> QED
  BY <1>1, InductiveInvariant, PTL

-----------------------------------------------------------------------------
(* No ticket is left without its clock *)

(* What the ticket waits for is an event of the current version; once that  *)
(* was applied the timer runs, and an event leaves the queue only then, or  *)
(* for the dead letters.                                                    *)
ComesOK ==
  sla \in Policies /\ approval \in {"none", "approved"} /\ ~late /\ ~NeverOrdered
    => \/ Active(sla)
       \/ \E e \in queue \cap Emitted : e.n = edits
       \/ DeadOrder

AppliedOK ==
  sla \in Policies /\ ~late
    => \A w \in Workers : worker[w].pc = "ack" /\ worker[w].event.n = edits => Active(sla)

ClockOK == ComesOK /\ AppliedOK

(* A step that keeps the policy, its timer and the events keeps ClockOK. *)
LEMMA ClockFrame ==
  ASSUME ClockOK, queue \subseteq queue',
         UNCHANGED <<kind, sla, approval, dead, worker, edits, late>>,
         \A p \in Policies : Active(p)' = Active(p)
  PROVE  ClockOK'
<1>1. ComesOK'
  BY DEF ClockOK, ComesOK, NeverOrdered, DeadOrder
<1>2. AppliedOK'
  BY DEF ClockOK, AppliedOK
<1> QED
  BY <1>1, <1>2 DEF ClockOK

(* create_ticket_with_automation orders the timer or waits for an approval. *)
LEMMA InitClock == Init => ClockOK
<1> SUFFICES ASSUME Init PROVE ClockOK
  OBVIOUS
<1>1. ASSUME sla \in Policies, approval # "open", ~NeverOrdered PROVE Active(sla) \/ \E e \in queue \cap Emitted : e.n = edits
  <2>0. sla # NoPolicy
    BY <1>1, NoPolicyAssumption
  <2>1. CASE kind = "work_order"
    BY <1>1, <2>1 DEF Init, Active, Fresh
  <2>2. CASE kind = "case"
    <3> DEFINE e == [kind |-> "start", policy |-> sla, n |-> 0]
    <3>1. e \in queue
      BY <1>1, <2>0, <2>2 DEF Init, StartEvent
    <3>2. e \in Emitted /\ e.n = edits
      BY <1>1 DEF Init, Emitted
    <3> QED
      BY <3>1, <3>2
  <2> QED
    BY <1>1, <2>1, <2>2 DEF Init, NeverOrdered
<1>2. AppliedOK
  BY IdleHasNoStatement DEF Init, AppliedOK
<1> QED
  BY <1>1, <1>2 DEF ClockOK, ComesOK

(* An approval orders the timer, a new policy a repoint or the timer itself. *)
LEMMA EditClock ==
  ASSUME IInv, ClockOK, Edit
  PROVE  ClockOK'
<1>1. ASSUME NEW approved \in BOOLEAN, GrantTicketApproval(approved) PROVE ClockOK'
  <2>0. USE <1>1 DEF GrantTicketApproval
  <2>1. ComesOK'
    <3> SUFFICES ASSUME sla \in Policies, approved
                 PROVE  \E e \in queue' \cap Emitted : e.n = edits
      BY DEF ComesOK
    <3> DEFINE e == [kind |-> "start", policy |-> sla, n |-> edits]
    <3>1. e \in queue'
      BY NoPolicyAssumption DEF StartEvent
    <3>2. e \in Emitted /\ e.n = edits
      BY DEF Emitted, IInv, TypeOK
    <3> QED
      BY <3>1, <3>2
  <2>2. AppliedOK'
    BY DEF ClockOK, AppliedOK, Active
  <2> QED
    BY <2>1, <2>2 DEF ClockOK
<1>2. ASSUME NEW to \in Categories \ {"pending_approval"}, NEW pauses \in BOOLEAN,
             TransitionEntityStatus(to, pauses)
      PROVE  ClockOK'
  <2>0. USE <1>2 DEF TransitionEntityStatus
  <2>1. \A p \in Policies : timers'[p].active = timers[p].active
    BY FlaggedTimers DEF IInv, TypeOK
  <2>2. queue \subseteq queue'
    OBVIOUS
  <2> QED
    BY <2>1, <2>2, ClockFrame DEF Active
<1>3. ASSUME NEW p \in Slas, Reclassify(p) PROVE ClockOK'
  <2>0. USE <1>3 DEF Reclassify
  <2>a. edits' = edits + 1 /\ edits \in Nat
    BY BoundsAssumption DEF IInv, TypeOK
  <2>1. ComesOK'
    <3> SUFFICES ASSUME p \in Policies
                 PROVE  \E e \in queue' \cap Emitted : e.n = edits'
      BY DEF ComesOK
    <3> DEFINE e == [kind |-> "repoint", policy |-> p, n |-> edits + 1]
    <3>1. e \in queue'
      BY NoPolicyAssumption
    <3>2. e \in Emitted /\ e.n = edits'
      BY <2>a DEF Emitted
    <3> QED
      BY <3>1, <3>2
  <2>2. ASSUME NEW w \in Workers, worker[w].pc = "ack" PROVE worker[w].event.n # edits'
    <3>1. worker[w] # Idle
      BY <2>2, IdleHasNoStatement
    <3>2. worker[w].event \in queue \cap Emitted
      BY <3>1, BusyWorker DEF IInv, WorkerOK
    <3>3. worker[w].event.n <= edits /\ worker[w].event.n \in Nat
      BY <3>2 DEF IInv, EventOK, Emitted
    <3> QED
      BY <2>a, <3>3
  <2> QED
    BY <2>1, <2>2 DEF ClockOK, AppliedOK
<1>4. ASSUME NEW p \in Slas, UpdateEntitySla(p) PROVE ClockOK'
  <2>0. USE <1>4 DEF UpdateEntitySla
  <2>1. p \in Policies => timers'[p].active
    BY ReinstalledTimers, FlaggedTimers DEF IInv, TypeOK
  <2> QED
    BY <2>1 DEF ClockOK, ComesOK, AppliedOK, Active
<1> QED
  BY <1>1, <1>2, <1>3, <1>4 DEF Edit

(* The handlers let go of an event that is not the current one, or that the *)
(* RPC has applied, or that becomes a dead letter.                          *)
LEMMA HandlerClock ==
  ASSUME IInv, ClockOK, NEW w \in Workers,
         (\E e \in queue : Handle(w, e)) \/ Rpc(w) \/ Ack(w) \/ WorkerDies(w) \/ Exhausted(w)
  PROVE  ClockOK'
<1>1. ASSUME NEW e \in queue, Handle(w, e), DeadLetter(e) \/ Drop(e) PROVE ClockOK'
  <2>1. queue' = queue \ {e} /\ dead \subseteq dead'
        /\ UNCHANGED <<kind, sla, approval, worker, timers, edits, late>>
    BY <1>1 DEF Handle, DeadLetter, Drop, ticket
  <2>2. e \in Emitted /\ e.n = edits => DeadOrder'
    BY <1>1, EmittedIsNotStatus DEF Handle, DeadLetter, Drop, IInv, EventOK, DeadOrder, ticket
  <2>3. ComesOK'
    BY <2>1, <2>2 DEF ClockOK, ComesOK, Active, NeverOrdered, DeadOrder
  <2> QED
    BY <2>1, <2>3 DEF ClockOK, AppliedOK, Active
<1>2. ASSUME NEW e \in queue, Handle(w, e), Accept(w, e) PROVE ClockOK'
  <2>1. UNCHANGED <<kind, sla, approval, queue, dead, timers, edits, late>>
    BY <1>2 DEF Handle, Accept, ticket
  <2>2. \A x \in Workers : worker'[x] = worker[x] \/ worker'[x].pc = "rpc"
    BY <1>2 DEF Handle, Accept, IInv, TypeOK
  <2> QED
    BY <2>1, <2>2 DEF ClockOK, ComesOK, AppliedOK, Active, NeverOrdered, DeadOrder
<1>3. CASE Rpc(w)
  <2> DEFINE e == worker[w].event
  <2>0. worker[w] # Idle /\ e \in Emitted /\ e \in queue
    BY <1>3, BusyWorker, IdleHasNoStatement DEF Rpc, IInv, WorkerOK
  <2>1. e.policy \in Policies /\ e.policy \in Slas /\ (e.n = edits => e.policy = sla)
    BY <2>0 DEF Emitted, Slas, IInv, EventOK
  <2>2. timers'[e.policy].active
    <3>1. timers \in [Policies -> Timers] /\ timers[e.policy] \in Timers
      BY <2>1 DEF IInv, TypeOK
    <3>2. CASE e.kind = "start"
      BY <1>3, <2>1, <3>1, <3>2, FreshTimer DEF Rpc, Start
    <3>3. CASE e.kind # "start"
      BY <1>3, <2>1, <3>1, <3>3, ReinstalledTimers DEF Rpc, Repoint
    <3> QED
      BY <3>2, <3>3
  <2>3. ~late' => e.n = edits /\ UNCHANGED <<sla, edits>>
    BY <1>3 DEF Rpc, ticket
  <2>4. ~late' => Active(sla)'
    BY <2>1, <2>2, <2>3 DEF Active
  <2> QED
    BY <2>4 DEF ClockOK, ComesOK, AppliedOK
<1>4. CASE Ack(w)
  <2> DEFINE e == worker[w].event
  <2>1. queue' = queue \ {e} /\ UNCHANGED <<kind, sla, approval, dead, timers, edits, late>>
    BY <1>4 DEF Ack, ticket
  <2>2. \A x \in Workers : worker'[x] = worker[x] \/ worker'[x] = Idle
    BY <1>4 DEF Ack, IInv, TypeOK
  <2>3. sla \in Policies /\ ~late /\ e.n = edits => Active(sla)
    BY <1>4 DEF Ack, ClockOK, AppliedOK
  <2>4. ComesOK'
    BY <2>1, <2>3 DEF ClockOK, ComesOK, Active, NeverOrdered, DeadOrder
  <2> QED
    BY <2>1, <2>2, <2>4 DEF ClockOK, AppliedOK, Active, Idle
<1>5. CASE WorkerDies(w)
  <2>1. UNCHANGED <<kind, sla, approval, queue, dead, timers, edits, late>>
    BY <1>5 DEF WorkerDies, ticket
  <2>2. \A x \in Workers : worker'[x] = worker[x] \/ worker'[x] = Idle
    BY <1>5 DEF WorkerDies, IInv, TypeOK
  <2> QED
    BY <2>1, <2>2 DEF ClockOK, ComesOK, AppliedOK, Active, Idle, NeverOrdered, DeadOrder
<1>6. CASE Exhausted(w)
  <2> DEFINE e == worker[w].event
  <2>1. queue' = queue \ {e} /\ dead' = dead \cup {e}
        /\ UNCHANGED <<kind, sla, approval, timers, edits, late>>
    BY <1>6 DEF Exhausted, ticket
  <2>2. \A x \in Workers : worker'[x] = worker[x] \/ worker'[x] = Idle
    BY <1>6 DEF Exhausted, IInv, TypeOK
  <2>3. e \in queue \cap Emitted
    BY <1>6, BusyWorker DEF Exhausted, IInv, WorkerOK
  <2>4. e.n = edits => DeadOrder'
    BY <2>1, <2>3 DEF IInv, EventOK, DeadOrder
  <2>5. ComesOK'
    BY <2>1, <2>4 DEF ClockOK, ComesOK, Active, NeverOrdered, DeadOrder
  <2> QED
    BY <2>1, <2>2, <2>5 DEF ClockOK, AppliedOK, Active, Idle
<1> QED
  BY <1>1, <1>2, <1>3, <1>4, <1>5, <1>6 DEF Handle

(* The cron stops no timer. *)
LEMMA CronClock ==
  ASSUME IInv, ClockOK, NEW c \in Crons,
         SelectBreached(c) \/ MarkSlaBreached(c) \/ MarkFails(c)
  PROVE  ClockOK'
<1>1. UNCHANGED <<kind, sla, approval, queue, dead, worker, edits, late>>
  BY DEF SelectBreached, MarkSlaBreached, MarkFails, ticket
<1>2. \A p \in Policies : timers'[p].active = timers[p].active
  BY DEF SelectBreached, MarkSlaBreached, MarkFails, IInv, TypeOK, Timers
<1> QED
  BY <1>1, <1>2, ClockFrame DEF Active

(* Whatever is dropped, retried or lost with a worker, a ticket whose clock *)
(* should run has its timer, an event that brings it, or a dead letter to   *)
(* show for it; setup work orders and stale events apart.  The safety half  *)
(* of TimerIsStarted (SlaTimerHandler, grant_ticket_approval).              *)
THEOREM StartComes == Spec => []StartIsOnItsWay
<1>1. IInv /\ ClockOK /\ [Next]_vars => ClockOK'
  <2> SUFFICES ASSUME IInv, ClockOK, [Next]_vars PROVE ClockOK'
    OBVIOUS
  <2>1. CASE UNCHANGED vars
    BY <2>1, ClockFrame DEF vars, ticket, procs, Active
  <2>2. CASE Next
    BY <2>2, EditClock, HandlerClock, CronClock DEF Next
  <2> QED
    BY <2>1, <2>2
<1>2. IInv /\ ClockOK => StartIsOnItsWay
  BY EmittedIsNotStatus DEF IInv, EventOK, ClockOK, ComesOK, StartIsOnItsWay, Active
<1> QED
  BY <1>1, <1>2, InitClock, InductiveInvariant, PTL DEF Spec
=============================================================================
