------------------------ MODULE SlaThresholdsProofs ------------------------
(***************************************************************************)
(* Safety of the SLA thresholds, for every finite set of thresholds, every *)
(* number of instances, crashes and assignments by hand.                   *)
(*                                                                         *)
(* The invariant follows each tick through its transactions: whoever is    *)
(* about to notify has won the crossing, which nobody else did; whoever is *)
(* about to write the crossing of an escalation knows that the target has  *)
(* had the ticket, from the key of the RPC, from its own call, or because  *)
(* the assignee it read was the target.                                    *)
(***************************************************************************)
EXTENDS SlaThresholds, WellFoundedInduction, TLAPS

(* The threshold at hand, of a record. *)
Low(S) == CHOOSE h \in S : \A g \in S : h <= g

Won    == {"notify", "escalate"}
Firing == {"load", "probe", "assign", "cross", "skip", "notify"}

(* What a tick knows. *)
KnowsOK(t) ==
  /\ t.pc \in Firing => t.todo # {}
  /\ t.pc \in {"probe", "assign"} => Low(t.todo) \in Escalates
  /\ t.pc = "cross" /\ Low(t.todo) \in Escalates => Low(t.todo) \in held \cup NoUser
  /\ t.pc = "notify" => crossings[Low(t.todo)] \in Won /\ notified[Low(t.todo)] = 0
  /\ \A h \in Thresholds : TargetOf[h] = t.seen => h \in held

TicksOK == \A i \in Instances : KnowsOK(tick[i])

(* Each crossing has one winner. *)
OneWinner ==
  \A i, j \in Instances :
    i # j /\ tick[i].pc = "notify" /\ tick[j].pc = "notify" => Low(tick[i].todo) # Low(tick[j].todo)

(* Who has the ticket, or was given it by an escalation, has had it. *)
HeldOK ==
  \A h \in Thresholds : TargetOf[h] = assignee \/ ops[h] # NoOp => h \in held

IInv == TypeOK /\ NotifiedOnce /\ EscalatedWasAssigned /\ TicksOK /\ OneWinner /\ HeldOK

(* What a step may do to the assignee. *)
Takes ==
  assignee' # assignee =>
    \/ edits' # edits
    \/ \E h \in Escalates : ops[h] = NoOp /\ ops'[h] # NoOp /\ assignee' = TargetOf[h]

-----------------------------------------------------------------------------
(* There is a lowest threshold among those left. *)
LEMMA LowExists ==
  ASSUME NEW S \in SUBSET Thresholds, S # {}
  PROVE  Low(S) \in S /\ Low(S) \in Thresholds
<1>1. S \subseteq Nat
  BY ThresholdsAssumption
<1>2. PICK h \in S : \A g \in S : ~(<<g, h>> \in OpToRel(<, Nat))
  BY <1>1, WFMin, NatLessThanWellFounded
<1>3. \A g \in S : ~(g < h)
  BY <1>1, <1>2 DEF OpToRel
<1>4. \A g \in S : h <= g
  BY <1>1, <1>3
<1>5. Low(S) \in S
  BY <1>4 DEF Low
<1> QED
  BY <1>5

LEMMA CurrentIsLow ==
  ASSUME NEW i
  PROVE  Current(i) = Low(tick[i].todo)
  BY DEF Current, Low

(* The threshold at hand of a tick that fires. *)
LEMMA AtHand ==
  ASSUME IInv, NEW i \in Instances, tick[i].pc \in Firing
  PROVE  Current(i) \in Thresholds /\ Current(i) \in tick[i].todo
<1>1. tick[i].todo \in SUBSET Thresholds /\ tick[i].todo # {}
  BY DEF IInv, TypeOK, Ticks, TicksOK, KnowsOK
<1> QED
  BY <1>1, LowExists, CurrentIsLow

(* Records a tick goes on with. *)
LEMMA NextTick ==
  ASSUME IInv, NEW i \in Instances
  PROVE  /\ tick[i] \in Ticks /\ Resting \in Ticks
         /\ \A pc \in PCs : Goto(i, pc) =>
              \E r \in Ticks : /\ tick' = [tick EXCEPT ![i] = r] /\ r.pc = pc
                               /\ r.todo = tick[i].todo /\ r.seen = tick[i].seen
<1>1. tick \in [Instances -> Ticks] /\ tick[i] \in Ticks
  BY DEF IInv, TypeOK
<1>2. Resting \in Ticks
  BY DEF Resting, Ticks, PCs, Holders
<1>3. ASSUME NEW pc \in PCs, Goto(i, pc)
      PROVE  \E r \in Ticks : /\ tick' = [tick EXCEPT ![i] = r] /\ r.pc = pc
                              /\ r.todo = tick[i].todo /\ r.seen = tick[i].seen
  <2> DEFINE r == [tick[i] EXCEPT !.pc = pc]
  <2>1. r \in Ticks /\ r.pc = pc /\ r.todo = tick[i].todo /\ r.seen = tick[i].seen
    BY <1>1 DEF Ticks
  <2>2. tick' = [tick EXCEPT ![i] = r]
    BY <1>1, <1>3 DEF Goto, Ticks
  <2> QED
    BY <2>1, <2>2
<1> QED
  BY <1>1, <1>2, <1>3

(* Resting knows nothing. *)
LEMMA RestingKnows ==
  /\ Resting.pc = "idle" /\ Resting.todo = {} /\ Resting.seen = Nobody
  /\ \A h \in Thresholds : TargetOf[h] # Resting.seen
  BY TargetAssumption, NobodyAssumption DEF Resting

LEMMA AdvanceRecord ==
  ASSUME IInv, NEW i \in Instances, tick[i].pc \in Firing, Advance(i)
  PROVE  \E r \in Ticks :
           /\ tick' = [tick EXCEPT ![i] = r] /\ r.pc \in {"idle", "load"}
           /\ r.pc = "load" => r.todo # {}
           /\ r.seen = tick[i].seen \/ r.seen = Nobody
<1>0. tick[i] \in Ticks /\ Current(i) \in tick[i].todo
  BY NextTick, AtHand
<1>1. CASE tick[i].todo = {Current(i)}
  BY <1>1, NextTick, RestingKnows DEF Advance
<1>2. CASE tick[i].todo # {Current(i)}
  <2> DEFINE r == [tick[i] EXCEPT !.pc = "load", !.todo = @ \ {Current(i)}]
  <2>1. /\ r \in Ticks /\ r.pc = "load" /\ r.seen = tick[i].seen
        /\ r.todo = tick[i].todo \ {Current(i)}
    BY <1>0 DEF Ticks, PCs
  <2>2. r.todo # {}
    BY <1>0, <1>2, <2>1
  <2>3. tick' = [tick EXCEPT ![i] = r]
    BY <1>0, <1>2, SMT DEF Advance, Ticks, IInv, TypeOK
  <2> QED
    BY <2>1, <2>2, <2>3
<1> QED
  BY <1>1, <1>2

(* A step of one tick that keeps what the others know. *)
LEMMA TickStep ==
  ASSUME IInv, NEW i \in Instances, NEW r \in Ticks, tick' = [tick EXCEPT ![i] = r],
         KnowsOK(r)', r.pc # "notify", held \subseteq held', UNCHANGED notified,
         \A h \in Thresholds : crossings[h] \in Won => crossings'[h] = crossings[h]
  PROVE  TicksOK' /\ OneWinner' /\ tick' \in [Instances -> Ticks]
<1>1. /\ tick \in [Instances -> Ticks] /\ TicksOK /\ OneWinner
      /\ tick'[i] = r /\ \A j \in Instances \ {i} : tick'[j] = tick[j]
      /\ tick' \in [Instances -> Ticks]
  BY DEF IInv, TypeOK
<1>2. ASSUME NEW j \in Instances \ {i} PROVE KnowsOK(tick[j])'
  <2>1. KnowsOK(tick[j]) /\ tick'[j] = tick[j] /\ tick[j].todo \in SUBSET Thresholds
    BY <1>1 DEF TicksOK, Ticks
  <2>2. tick[j].pc = "notify" => Low(tick[j].todo) \in Thresholds
    BY <2>1, LowExists DEF KnowsOK, Firing
  <2> QED
    BY <2>1, <2>2 DEF KnowsOK
<1>3. KnowsOK(tick[i])'
  BY <1>1 DEF KnowsOK
<1>4. TicksOK'
  BY <1>2, <1>3 DEF TicksOK
<1>5. OneWinner'
  BY <1>1 DEF OneWinner
<1> QED
  BY <1>1, <1>4, <1>5

-----------------------------------------------------------------------------
(* The world *)
LEMMA WorldStep ==
  ASSUME IInv, Pass \/ (\E a \in Holders : AssignByHand(a)) \/ WatcherLeaves \/ StopTimer
  PROVE  IInv' /\ Takes
<1>0. /\ TypeOK /\ NotifiedOnce /\ EscalatedWasAssigned /\ TicksOK /\ OneWinner /\ HeldOK
  BY DEF IInv
<1>1. CASE Pass \/ WatcherLeaves \/ StopTimer
  <2>1. TypeOK'
    <3>1. percent' \in 0..MaxPercent
      BY <1>0, <1>1, BoundsAssumption DEF Pass, WatcherLeaves, StopTimer, TypeOK, timer
    <3>2. breached' \in BOOLEAN /\ active' \in BOOLEAN /\ dirty' \in BOOLEAN
      BY <1>0, <1>1 DEF Pass, WatcherLeaves, StopTimer, TypeOK, timer, ticket
    <3> QED
      BY <1>0, <1>1, <3>1, <3>2 DEF Pass, WatcherLeaves, StopTimer, TypeOK, timer, ticket, record
  <2>2. UNCHANGED <<assignee, ops, record, tick, held>>
    BY <1>1 DEF Pass, WatcherLeaves, StopTimer, ticket
  <2> QED
    BY <1>0, <2>1, <2>2 DEF IInv, NotifiedOnce, EscalatedWasAssigned, TicksOK, KnowsOK, OneWinner, HeldOK, Takes, record
<1>2. ASSUME NEW a \in Holders, AssignByHand(a) PROVE IInv' /\ Takes
  <2>0. /\ edits' = edits + 1 /\ edits < MaxEdits /\ assignee' = a
        /\ held' = held \cup {h \in Thresholds : TargetOf[h] = a}
        /\ UNCHANGED <<timer, dirty, ops, record, tick, faults>>
    BY <1>2 DEF AssignByHand, Assign
  <2>1. TypeOK'
    BY <1>0, <2>0, BoundsAssumption DEF TypeOK, timer, record
  <2>2. NotifiedOnce' /\ EscalatedWasAssigned' /\ OneWinner' /\ HeldOK'
    BY <1>0, <2>0 DEF NotifiedOnce, EscalatedWasAssigned, OneWinner, HeldOK, record
  <2>3. TicksOK'
    BY <1>0, <2>0 DEF TicksOK, KnowsOK, record
  <2>4. Takes
    BY <1>0, <2>0, BoundsAssumption DEF Takes, TypeOK
  <2> QED
    BY <2>1, <2>2, <2>3, <2>4 DEF IInv
<1> QED
  BY <1>1, <1>2

(* The steps of a tick that change neither ticket nor record *)
LEMMA QuietStep ==
  ASSUME IInv, NEW i \in Instances, NEW r \in Ticks, tick' = [tick EXCEPT ![i] = r],
         UNCHANGED <<percent, active, ticket, record, held, edits>>,
         breached' \in BOOLEAN, faults' \in 0..MaxFaults, KnowsOK(r)', r.pc # "notify"
  PROVE  IInv' /\ Takes
<1>1. TicksOK' /\ OneWinner' /\ tick' \in [Instances -> Ticks]
  BY TickStep DEF record
<1>2. TypeOK'
  BY <1>1 DEF IInv, TypeOK, ticket, record
<1> QED
  BY <1>1, <1>2 DEF IInv, NotifiedOnce, EscalatedWasAssigned, HeldOK, Takes, ticket, record

LEMMA ReadStep ==
  ASSUME IInv, NEW i \in Instances,
         \/ CheckBreaches(i) \/ MarkBreached(i) \/ SelectThresholds(i) \/ LoadTicket(i)
         \/ Probe(i) \/ TickAborts(i)
  PROVE  IInv' /\ Takes
<1>0. /\ TypeOK /\ HeldOK /\ KnowsOK(tick[i]) /\ tick \in [Instances -> Ticks]
      /\ tick[i] \in Ticks /\ breached \in BOOLEAN /\ faults \in 0..MaxFaults
  BY DEF IInv, TypeOK, TicksOK
<1>1. ASSUME NEW r \in Ticks, tick' = [tick EXCEPT ![i] = r], UNCHANGED held,
             r.pc \in {"idle", "mark", "select", "skip", "load"}, r.pc \in {"skip", "load"} => r.todo # {},
             r.seen = tick[i].seen \/ r.seen = Nobody
      PROVE  KnowsOK(r)'
  BY <1>0, <1>1, TargetAssumption, NobodyAssumption DEF KnowsOK, Firing
<1>2. CASE CheckBreaches(i)
  <2>1. PICK pc \in {"mark", "select"} :
          tick' = [tick EXCEPT ![i] = [Resting EXCEPT !.now = percent, !.pc = pc]]
    BY <1>2 DEF CheckBreaches
  <2>2. /\ [Resting EXCEPT !.now = percent, !.pc = pc] \in Ticks
        /\ [Resting EXCEPT !.now = percent, !.pc = pc].pc = pc
        /\ [Resting EXCEPT !.now = percent, !.pc = pc].seen = Nobody
    <3>1. percent \in Nat /\ pc \in PCs
      BY <1>0, <2>1, BoundsAssumption DEF TypeOK, PCs
    <3> QED
      BY <3>1 DEF Resting, Ticks, Holders
  <2>3. PICK r \in Ticks : tick' = [tick EXCEPT ![i] = r] /\ r.pc = pc /\ r.seen = Nobody
    BY <2>1, <2>2
  <2>4. KnowsOK(r)'
    BY <1>1, <1>2, <2>3 DEF CheckBreaches
  <2> QED
    BY <1>0, <1>2, <2>3, <2>4, QuietStep DEF CheckBreaches, timer
<1>3. CASE MarkBreached(i)
  <2>1. PICK r \in Ticks : /\ tick' = [tick EXCEPT ![i] = r] /\ r.pc = "select"
                           /\ r.todo = tick[i].todo /\ r.seen = tick[i].seen
    BY <1>3, NextTick DEF MarkBreached, PCs
  <2>2. breached' = TRUE \/ breached' = breached
    BY <1>3 DEF MarkBreached
  <2>3. faults' \in 0..MaxFaults
    BY <1>0, <1>3, BoundsAssumption DEF MarkBreached, Fault
  <2>4. KnowsOK(r)'
    BY <1>1, <1>3, <2>1 DEF MarkBreached
  <2>5. breached' \in BOOLEAN
    BY <1>0, <2>2
  <2> QED
    BY <1>3, <2>1, <2>3, <2>4, <2>5, QuietStep DEF MarkBreached
<1>4. CASE SelectThresholds(i)
  <2>1. Applicable(tick[i].now) \subseteq Thresholds
    BY DEF Applicable
  <2>2. CASE Applicable(tick[i].now) = {}
    <3>1. tick' = [tick EXCEPT ![i] = Resting]
      BY <1>4, <2>2 DEF SelectThresholds
    <3>2. KnowsOK(Resting)'
      BY RestingKnows DEF KnowsOK, Firing
    <3> QED
      BY <1>0, <1>4, <3>1, <3>2, QuietStep, NextTick, RestingKnows DEF SelectThresholds, timer
  <2>3. CASE Applicable(tick[i].now) # {}
    <3>1. PICK A \in SUBSET Thresholds :
            /\ A # {}
            /\ tick' = [tick EXCEPT ![i] = [tick[i] EXCEPT !.pc = "load", !.todo = A]]
      BY <1>4, <2>1, <2>3 DEF SelectThresholds
    <3>2. /\ [tick[i] EXCEPT !.pc = "load", !.todo = A] \in Ticks
          /\ [tick[i] EXCEPT !.pc = "load", !.todo = A].pc = "load"
          /\ [tick[i] EXCEPT !.pc = "load", !.todo = A].todo = A
          /\ [tick[i] EXCEPT !.pc = "load", !.todo = A].seen = tick[i].seen
      BY <1>0, <3>1 DEF Ticks, PCs
    <3>3. PICK r \in Ticks : /\ tick' = [tick EXCEPT ![i] = r] /\ r.pc = "load"
                             /\ r.todo # {} /\ r.seen = tick[i].seen
      BY <3>1, <3>2
    <3>4. KnowsOK(r)'
      BY <1>1, <1>4, <3>3 DEF SelectThresholds
    <3> QED
      BY <1>0, <1>4, <3>3, <3>4, QuietStep DEF SelectThresholds, timer
  <2> QED
    BY <2>2, <2>3
<1>5. CASE LoadTicket(i)
  <2>0. tick[i].todo # {} /\ Current(i) = Low(tick[i].todo) /\ tick[i].pc = "load"
    BY <1>0, <1>5, CurrentIsLow DEF LoadTicket, KnowsOK, Firing
  <2>1. CASE Goto(i, "skip")
    <3>1. PICK r \in Ticks : /\ tick' = [tick EXCEPT ![i] = r] /\ r.pc = "skip"
                             /\ r.todo = tick[i].todo /\ r.seen = tick[i].seen
      BY <2>1, NextTick DEF PCs
    <3>2. KnowsOK(r)'
      BY <1>1, <1>5, <2>0, <3>1 DEF LoadTicket
    <3> QED
      BY <1>0, <1>5, <3>1, <3>2, QuietStep DEF LoadTicket, timer
  <2>2. CASE tick' = [tick EXCEPT ![i].seen = assignee,
                        ![i].pc = IF Current(i) \in Escalates THEN "probe" ELSE "cross"]
    <3>1. PICK pc \in {"probe", "cross"} :
            /\ pc = (IF Current(i) \in Escalates THEN "probe" ELSE "cross")
            /\ tick' = [tick EXCEPT ![i].seen = assignee, ![i].pc = pc]
      BY <2>2
    <3>2. /\ [tick[i] EXCEPT !.seen = assignee, !.pc = pc] \in Ticks
          /\ [tick[i] EXCEPT !.seen = assignee, !.pc = pc].pc = pc
          /\ [tick[i] EXCEPT !.seen = assignee, !.pc = pc].todo = tick[i].todo
          /\ [tick[i] EXCEPT !.seen = assignee, !.pc = pc].seen = assignee
      BY <1>0 DEF Ticks, PCs, TypeOK
    <3>3. tick' = [tick EXCEPT ![i] = [tick[i] EXCEPT !.seen = assignee, !.pc = pc]]
      BY <1>0, <3>1 DEF Ticks
    <3>4. PICK r \in Ticks : /\ tick' = [tick EXCEPT ![i] = r] /\ r.pc = pc
                             /\ r.todo = tick[i].todo /\ r.seen = assignee
      BY <3>2, <3>3
    <3>5. KnowsOK(r)'
      BY <1>0, <1>5, <2>0, <3>1, <3>4 DEF LoadTicket, KnowsOK, HeldOK
    <3> QED
      BY <1>0, <1>5, <3>4, <3>5, QuietStep DEF LoadTicket, timer
  <2> QED
    BY <1>5, <2>1, <2>2 DEF LoadTicket
<1>6. CASE Probe(i)
  <2>0. /\ Current(i) = Low(tick[i].todo) /\ Current(i) \in Thresholds
        /\ tick[i].pc = "probe" /\ tick[i].todo # {} /\ Current(i) \in Escalates
    BY <1>0, <1>6, CurrentIsLow, AtHand DEF Probe, KnowsOK, Firing
  <2>1. PICK r \in Ticks : /\ tick' = [tick EXCEPT ![i] = r]
                           /\ r.pc = (IF Done(i) \/ NoChange(i) THEN "cross" ELSE "assign")
                           /\ r.todo = tick[i].todo /\ r.seen = tick[i].seen
    BY <1>6, NextTick DEF Probe, PCs
  <2>2. Done(i) \/ NoChange(i) => Current(i) \in held \cup NoUser
    BY <1>0, <2>0 DEF Done, NoChange, HeldOK, KnowsOK
  <2>3. KnowsOK(r)'
    BY <1>0, <1>6, <2>0, <2>1, <2>2 DEF Probe, KnowsOK
  <2> QED
    BY <1>0, <1>6, <2>1, <2>3, QuietStep DEF Probe, timer
<1>7. CASE TickAborts(i)
  <2>1. faults' \in 0..MaxFaults
    BY <1>0, <1>7, BoundsAssumption DEF TickAborts, Fault
  <2>2. KnowsOK(Resting)'
    BY RestingKnows DEF KnowsOK, Firing
  <2>3. breached' \in BOOLEAN
    BY <1>0, <1>7 DEF TickAborts, timer
  <2> QED
    BY <1>7, <2>1, <2>2, <2>3, QuietStep, NextTick, RestingKnows DEF TickAborts, timer
<1> QED
  BY <1>2, <1>3, <1>4, <1>5, <1>6, <1>7

(* set_entity_assignment *)
LEMMA AssignStep ==
  ASSUME IInv, NEW i \in Instances, SetEntityAssignment(i)
  PROVE  IInv' /\ Takes
<1>0. /\ TypeOK /\ NotifiedOnce /\ EscalatedWasAssigned /\ HeldOK /\ KnowsOK(tick[i])
      /\ tick[i] \in Ticks /\ tick[i].pc = "assign" /\ UNCHANGED <<timer, dirty, record, edits, faults>>
  BY DEF IInv, TypeOK, TicksOK, SetEntityAssignment
<1>1. /\ Current(i) = Low(tick[i].todo) /\ Current(i) \in Thresholds
      /\ tick[i].todo # {} /\ Current(i) \in Escalates
  BY <1>0, CurrentIsLow, AtHand DEF KnowsOK, Firing
<1>2. ASSUME held \subseteq held', TicksOK', OneWinner', tick' \in [Instances -> Ticks],
             assignee' \in Holders, ops' \in [Thresholds -> Holders \cup {NoOp}],
             held' \subseteq Thresholds, HeldOK'
      PROVE  IInv'
  <2>1. TypeOK'
    BY <1>0, <1>2 DEF TypeOK, timer, record
  <2>2. NotifiedOnce' /\ EscalatedWasAssigned'
    BY <1>0, <1>2 DEF NotifiedOnce, EscalatedWasAssigned, record
  <2> QED
    BY <1>2, <2>1, <2>2 DEF IInv
<1>3. CASE Applies(i)
  <2>1. PICK r \in Ticks : /\ tick' = [tick EXCEPT ![i] = r] /\ r.pc = "cross"
                           /\ r.todo = tick[i].todo /\ r.seen = tick[i].seen
    BY <1>3, NextTick DEF Applies, PCs
  <2>2. /\ assignee' = TargetOf[Current(i)]
        /\ held' = held \cup {h \in Thresholds : TargetOf[h] = assignee'}
        /\ ops' = [ops EXCEPT ![Current(i)] = tick[i].seen]
        /\ ops[Current(i)] = NoOp
    BY <1>3 DEF Applies, Assign, Done
  <2>3. tick[i].seen \in Holders /\ tick[i].seen # NoOp /\ assignee' \in Holders
    BY <1>0, <1>1, <2>2, NoOpAssumption, TargetAssumption DEF Ticks, Holders
  <2>4. ops' \in [Thresholds -> Holders \cup {NoOp}] /\ held' \subseteq Thresholds
    BY <1>0, <2>2, <2>3 DEF TypeOK
  <2>5. HeldOK'
    BY <1>0, <1>1, <2>2 DEF HeldOK, TypeOK
  <2>6. KnowsOK(r)'
    BY <1>0, <1>1, <2>1, <2>2 DEF KnowsOK
  <2>7. TicksOK' /\ OneWinner' /\ tick' \in [Instances -> Ticks]
    BY <1>0, <2>1, <2>2, <2>6, TickStep DEF record
  <2>8. Takes
    BY <1>0, <1>1, <2>2, <2>3 DEF Takes, TypeOK
  <2> QED
    BY <1>2, <2>2, <2>3, <2>4, <2>5, <2>7, <2>8
<1>4. CASE Replays(i)
  <2>1. PICK r \in Ticks : /\ tick' = [tick EXCEPT ![i] = r] /\ r.pc = "cross"
                           /\ r.todo = tick[i].todo /\ r.seen = tick[i].seen
    BY <1>4, NextTick DEF Replays, PCs
  <2>2. ops[Current(i)] # NoOp /\ UNCHANGED <<assignee, ops, held>>
    BY <1>0, <1>4, NoOpAssumption DEF Replays, Ticks, Holders
  <2>3. KnowsOK(r)'
    BY <1>0, <1>1, <2>1, <2>2 DEF KnowsOK, HeldOK
  <2>4. TicksOK' /\ OneWinner' /\ tick' \in [Instances -> Ticks]
    BY <1>0, <2>1, <2>2, <2>3, TickStep DEF record
  <2> QED
    BY <1>0, <1>2, <2>2, <2>4 DEF HeldOK, TypeOK, Takes
<1>5. CASE Throws(i)
  <2>1. tick' = [tick EXCEPT ![i] = Resting] /\ UNCHANGED <<assignee, ops, held>>
    BY <1>5 DEF Throws
  <2>2. KnowsOK(Resting)'
    BY RestingKnows DEF KnowsOK, Firing
  <2>3. TicksOK' /\ OneWinner' /\ tick' \in [Instances -> Ticks]
    BY <1>0, <2>1, <2>2, TickStep, NextTick, RestingKnows DEF record
  <2> QED
    BY <1>0, <1>2, <2>1, <2>3 DEF HeldOK, TypeOK, Takes
<1> QED
  BY <1>3, <1>4, <1>5 DEF SetEntityAssignment

(* The crossing, the skip and the notification *)
LEMMA RecordStep ==
  ASSUME IInv, NEW i \in Instances, WriteCrossing(i) \/ WriteSkip(i) \/ Notify(i)
  PROVE  IInv' /\ Takes
<1>0. /\ TypeOK /\ NotifiedOnce /\ EscalatedWasAssigned /\ HeldOK /\ KnowsOK(tick[i])
      /\ TicksOK /\ OneWinner
      /\ tick \in [Instances -> Ticks] /\ tick[i] \in Ticks
      /\ tick[i].pc \in {"cross", "skip", "notify"}
      /\ UNCHANGED <<timer, ticket, held, edits>>
  BY DEF IInv, TypeOK, TicksOK, WriteCrossing, WriteSkip, Notify
<1>1. /\ Current(i) = Low(tick[i].todo) /\ Current(i) \in Thresholds
      /\ tick[i].todo # {}
  BY <1>0, CurrentIsLow, AtHand DEF KnowsOK, Firing
<1>2. ASSUME crossings' \in [Thresholds -> {"none", "notify", "escalate", "skipped_no_manager"}],
             notified' \in [Thresholds -> Nat], faults' \in 0..MaxFaults,
             TicksOK', OneWinner', tick' \in [Instances -> Ticks], NotifiedOnce', EscalatedWasAssigned'
      PROVE  IInv' /\ Takes
  <2>1. TypeOK'
    BY <1>0, <1>2 DEF TypeOK, timer, ticket
  <2>2. HeldOK' /\ Takes
    BY <1>0 DEF HeldOK, Takes, ticket
  <2> QED
    BY <1>2, <2>1, <2>2 DEF IInv
<1>3. ASSUME Advance(i), UNCHANGED notified,
             \A h \in Thresholds : crossings[h] \in Won => crossings'[h] = crossings[h]
      PROVE  TicksOK' /\ OneWinner' /\ tick' \in [Instances -> Ticks]
  <2>1. PICK r \in Ticks :
           /\ tick' = [tick EXCEPT ![i] = r] /\ r.pc \in {"idle", "load"}
           /\ r.pc = "load" => r.todo # {}
           /\ r.seen = tick[i].seen \/ r.seen = Nobody
    BY <1>0, <1>3, AdvanceRecord DEF Firing
  <2>2. KnowsOK(r)'
    BY <1>0, <2>1, TargetAssumption, NobodyAssumption DEF KnowsOK, Firing
  <2> QED
    BY <1>0, <1>3, <2>1, <2>2, TickStep
<1>4. CASE WriteCrossing(i) /\ crossings[Current(i)] # "none" /\ Advance(i) /\ UNCHANGED crossings
  <2>1. UNCHANGED <<notified, faults>>
    BY <1>4 DEF WriteCrossing
  <2> QED
    BY <1>0, <1>2, <1>3, <1>4, <2>1 DEF TypeOK, NotifiedOnce, EscalatedWasAssigned
<1>5. CASE /\ WriteCrossing(i) /\ crossings[Current(i)] = "none" /\ Goto(i, "notify")
           /\ crossings' = [crossings EXCEPT ![Current(i)] =
                              IF Current(i) \in Escalates THEN "escalate" ELSE "notify"]
  <2>1. UNCHANGED <<notified, faults>> /\ tick[i].pc = "cross"
    BY <1>5 DEF WriteCrossing
  <2>2. PICK r \in Ticks : /\ tick' = [tick EXCEPT ![i] = r] /\ r.pc = "notify"
                           /\ r.todo = tick[i].todo /\ r.seen = tick[i].seen
    BY <1>5, NextTick DEF PCs
  <2>3. tick'[i] = r /\ (\A j \in Instances \ {i} : tick'[j] = tick[j]) /\ tick' \in [Instances -> Ticks]
    BY <1>0, <2>2
  <2>4. notified[Current(i)] = 0
    BY <1>0, <1>1, <1>5 DEF NotifiedOnce
  <2>5. /\ crossings' \in [Thresholds -> {"none", "notify", "escalate", "skipped_no_manager"}]
        /\ crossings'[Current(i)] \in Won
        /\ crossings'[Current(i)] = "escalate" => Current(i) \in Escalates
        /\ \A h \in Thresholds \ {Current(i)} : crossings'[h] = crossings[h]
    BY <1>0, <1>1, <1>5 DEF TypeOK, Won
  <2>6. ASSUME NEW j \in Instances \ {i}, tick[j].pc = "notify"
        PROVE  Low(tick[j].todo) \in Thresholds \ {Current(i)}
    <3>1. KnowsOK(tick[j]) /\ tick[j].todo \in SUBSET Thresholds
      BY <1>0 DEF TicksOK, Ticks
    <3> QED
      BY <1>5, <2>6, <3>1, LowExists DEF KnowsOK, Firing, Won
  <2>7. TicksOK'
    <3>1. KnowsOK(tick[i])'
      BY <1>0, <1>1, <2>1, <2>2, <2>3, <2>4, <2>5 DEF KnowsOK
    <3>2. ASSUME NEW j \in Instances \ {i} PROVE KnowsOK(tick[j])'
      BY <1>0, <2>1, <2>3, <2>5, <2>6 DEF TicksOK, KnowsOK
    <3> QED
      BY <3>1, <3>2 DEF TicksOK
  <2>8. OneWinner'
    BY <1>0, <1>1, <2>2, <2>3, <2>6 DEF OneWinner
  <2>9. NotifiedOnce' /\ EscalatedWasAssigned'
    <3>1. Current(i) \in Escalates => Current(i) \in held \cup NoUser
      BY <1>0, <1>1, <2>1 DEF KnowsOK
    <3>2. NotifiedOnce'
      BY <1>0, <1>1, <2>1, <2>4, <2>5 DEF NotifiedOnce, Won
    <3>3. EscalatedWasAssigned'
      BY <1>0, <2>5, <3>1 DEF EscalatedWasAssigned
    <3> QED
      BY <3>2, <3>3
  <2> QED
    BY <1>0, <1>2, <2>1, <2>3, <2>5, <2>7, <2>8, <2>9 DEF TypeOK
<1>6. CASE WriteSkip(i)
  <2>1. /\ UNCHANGED <<notified, faults>> /\ Advance(i)
        /\ crossings' = [crossings EXCEPT ![Current(i)] = IF @ = "none" THEN "skipped_no_manager" ELSE @]
    BY <1>6 DEF WriteSkip
  <2>2. /\ crossings' \in [Thresholds -> {"none", "notify", "escalate", "skipped_no_manager"}]
        /\ \A h \in Thresholds :
             \/ crossings'[h] = crossings[h]
             \/ crossings[h] = "none" /\ crossings'[h] = "skipped_no_manager"
    <3>1. CASE crossings[Current(i)] = "none"
      <4>1. crossings' = [crossings EXCEPT ![Current(i)] = "skipped_no_manager"]
        BY <2>1, <3>1
      <4> QED
        BY <1>0, <1>1, <3>1, <4>1 DEF TypeOK
    <3>2. CASE crossings[Current(i)] # "none"
      <4>1. crossings' = crossings
        BY <1>0, <1>1, <2>1, <3>2 DEF TypeOK
      <4> QED
        BY <1>0, <4>1 DEF TypeOK
    <3> QED
      BY <3>1, <3>2
  <2>3. TicksOK' /\ OneWinner' /\ tick' \in [Instances -> Ticks]
    BY <1>3, <2>1, <2>2 DEF Won
  <2>4. NotifiedOnce' /\ EscalatedWasAssigned'
    BY <1>0, <2>1, <2>2 DEF NotifiedOnce, EscalatedWasAssigned
  <2> QED
    BY <1>0, <1>2, <2>1, <2>2, <2>3, <2>4 DEF TypeOK
<1>7. CASE Notify(i)
  <2>1. /\ Advance(i) /\ UNCHANGED crossings /\ tick[i].pc = "notify"
        /\ notified' = [notified EXCEPT ![Current(i)] = @ + 1] \/ UNCHANGED notified
    BY <1>7 DEF Notify
  <2>2. faults' \in 0..MaxFaults
    BY <1>0, <1>7, BoundsAssumption DEF Notify, Fault, TypeOK
  <2>3. crossings[Current(i)] \in Won /\ notified[Current(i)] = 0
    BY <1>0, <1>1, <2>1 DEF KnowsOK
  <2>4. /\ notified' \in [Thresholds -> Nat] /\ notified'[Current(i)] <= 1
        /\ \A h \in Thresholds \ {Current(i)} : notified'[h] = notified[h]
    BY <1>0, <1>1, <2>1, <2>3 DEF TypeOK
  <2>5. PICK r \in Ticks :
           /\ tick' = [tick EXCEPT ![i] = r] /\ r.pc \in {"idle", "load"}
           /\ r.pc = "load" => r.todo # {}
           /\ r.seen = tick[i].seen \/ r.seen = Nobody
    BY <1>0, <2>1, AdvanceRecord DEF Firing
  <2>6. tick'[i] = r /\ (\A j \in Instances \ {i} : tick'[j] = tick[j]) /\ tick' \in [Instances -> Ticks]
    BY <1>0, <2>5
  <2>7. TicksOK'
    <3>1. KnowsOK(tick[i])'
      BY <1>0, <2>5, <2>6, TargetAssumption, NobodyAssumption DEF KnowsOK, Firing
    <3>2. ASSUME NEW j \in Instances \ {i} PROVE KnowsOK(tick[j])'
      <4>1. KnowsOK(tick[j]) /\ tick'[j] = tick[j] /\ tick[j].todo \in SUBSET Thresholds
        BY <1>0, <2>6 DEF TicksOK, Ticks
      <4>2. tick[j].pc = "notify" => Low(tick[j].todo) \in Thresholds \ {Current(i)}
        BY <1>0, <1>1, <2>1, <4>1, LowExists DEF KnowsOK, Firing, OneWinner
      <4> QED
        BY <1>0, <2>1, <2>4, <4>1, <4>2 DEF KnowsOK
    <3> QED
      BY <3>1, <3>2 DEF TicksOK
  <2>8. OneWinner'
    BY <1>0, <2>5, <2>6 DEF OneWinner
  <2>9. NotifiedOnce' /\ EscalatedWasAssigned'
    BY <1>0, <1>1, <2>1, <2>3, <2>4 DEF NotifiedOnce, EscalatedWasAssigned, Won
  <2> QED
    BY <1>0, <1>2, <2>1, <2>2, <2>4, <2>6, <2>7, <2>8, <2>9 DEF TypeOK
<1> QED
  BY <1>4, <1>5, <1>6, <1>7 DEF WriteCrossing

-----------------------------------------------------------------------------
LEMMA InitInv ==
  Init => IInv
<1> SUFFICES ASSUME Init PROVE IInv
  OBVIOUS
<1>1. \A i \in Instances : tick[i] = Resting
  BY DEF Init
<1>2. Resting \in Ticks
  BY DEF Resting, Ticks, PCs, Holders
<1>3. TypeOK
  <2>1. percent \in 0..MaxPercent /\ edits \in 0..MaxEdits /\ faults \in 0..MaxFaults
    BY BoundsAssumption DEF Init
  <2>2. tick \in [Instances -> Ticks]
    BY <1>2 DEF Init
  <2>3. /\ ops \in [Thresholds -> Holders \cup {NoOp}] /\ notified \in [Thresholds -> Nat]
        /\ crossings \in [Thresholds -> {"none", "notify", "escalate", "skipped_no_manager"}]
    BY DEF Init
  <2> QED
    BY <2>1, <2>2, <2>3 DEF Init, TypeOK
<1>4. TicksOK
  BY <1>1, RestingKnows DEF TicksOK, KnowsOK, Firing
<1>5. OneWinner
  BY <1>1, RestingKnows DEF OneWinner
<1> QED
  BY <1>3, <1>4, <1>5 DEF Init, IInv, NotifiedOnce, EscalatedWasAssigned, HeldOK

LEMMA NextInv ==
  ASSUME IInv, [Next]_vars
  PROVE  /\ IInv'
         /\ [assignee' # assignee =>
                \/ edits' # edits
                \/ \E h \in Escalates : ops[h] = NoOp /\ ops'[h] # NoOp /\ assignee' = TargetOf[h]]_vars
<1>1. CASE Next
  <2>1. IInv' /\ Takes
    BY <1>1, WorldStep, ReadStep, AssignStep, RecordStep DEF Next, Tick
  <2> QED
    BY <2>1 DEF Takes
<1>2. CASE UNCHANGED vars
  <2>1. TypeOK'
    BY <1>2 DEF vars, timer, ticket, record, IInv, TypeOK
  <2> QED
    BY <1>2, <2>1 DEF vars, ticket, record, IInv, NotifiedOnce, EscalatedWasAssigned, TicksOK, KnowsOK,
                      OneWinner, HeldOK
<1> QED
  BY <1>1, <1>2

LEMMA Inductive ==
  Spec => []IInv
<1>1. IInv /\ [Next]_vars => IInv'
  BY NextInv
<1> QED
  BY <1>1, InitInv, PTL DEF Spec

(* Timer, ticket, record and ticks keep their types (sla.service.ts). *)
THEOREM TypeCorrect ==
  Spec => []TypeOK
<1>1. IInv => TypeOK
  BY DEF IInv
<1> QED
  BY <1>1, Inductive, PTL

(* A threshold notifies once, for any number of overlapping instances       *)
(* (writeCrossing decides who does).                                        *)
THEOREM NotifiesOnce ==
  Spec => []NotifiedOnce
<1>1. IInv => NotifiedOnce
  BY DEF IInv
<1> QED
  BY <1>1, Inductive, PTL

(* No escalation is on record whose target never had the ticket             *)
(* (applyReassignment comes before writeCrossing).                          *)
THEOREM EscalationsAreReal ==
  Spec => []EscalatedWasAssigned
<1>1. IInv => EscalatedWasAssigned
  BY DEF IInv
<1> QED
  BY <1>1, Inductive, PTL

(* An escalation takes the ticket once (the key of set_entity_assignment),  *)
(* whatever is assigned by hand in between.                                 *)
THEOREM EscalationTakesOnce ==
  Spec => TakesOnce
<1>1. IInv /\ [Next]_vars =>
        [assignee' # assignee =>
           \/ edits' # edits
           \/ \E h \in Escalates : ops[h] = NoOp /\ ops'[h] # NoOp /\ assignee' = TargetOf[h]]_vars
  BY NextInv
<1> QED
  BY <1>1, Inductive, PTL DEF Spec, TakesOnce

-----------------------------------------------------------------------------
(* The thresholds implement Escalations *)

(* How a tick came where it is: a threshold is skipped for its manager, and *)
(* the RPC is called for a target with an account.                          *)
CameOK(t) ==
  /\ t.pc = "skip" => Low(t.todo) \in Managed
  /\ t.pc = "assign" => Low(t.todo) \notin NoUser

PathOK == \A i \in Instances : CameOK(tick[i])

LEMMA PathStep ==
  ASSUME IInv, PathOK, [Next]_vars
  PROVE  PathOK'
<1>0. tick \in [Instances -> Ticks]
  BY DEF IInv, TypeOK
<1>1. ASSUME NEW i \in Instances, NEW r \in Ticks, tick' = [tick EXCEPT ![i] = r], CameOK(r)
      PROVE  PathOK'
  BY <1>0, <1>1 DEF PathOK, CameOK
<1>2. ASSUME NEW i \in Instances, NEW pc \in PCs \ {"skip", "assign"}, Goto(i, pc)
      PROVE  PathOK'
  BY <1>1, <1>2, NextTick DEF CameOK
<1>3. ASSUME NEW i \in Instances, tick' = [tick EXCEPT ![i] = Resting]
      PROVE  PathOK'
  BY <1>1, <1>3, NextTick, RestingKnows DEF CameOK
<1>4. ASSUME NEW i \in Instances, tick[i].pc \in Firing, Advance(i)
      PROVE  PathOK'
  <2>1. PICK r \in Ticks : tick' = [tick EXCEPT ![i] = r] /\ r.pc \in {"idle", "load"}
    BY <1>4, AdvanceRecord
  <2> QED
    BY <1>1, <2>1 DEF CameOK
<1>5. ASSUME NEW i \in Instances, CheckBreaches(i) \/ MarkBreached(i) \/ SelectThresholds(i)
      PROVE  PathOK'
  <2>1. CASE CheckBreaches(i)
    <3>1. PICK pc \in {"mark", "select"} :
            tick' = [tick EXCEPT ![i] = [Resting EXCEPT !.now = percent, !.pc = pc]]
      BY <2>1 DEF CheckBreaches
    <3>2. percent \in Nat /\ pc \in PCs
      BY <3>1, BoundsAssumption DEF IInv, TypeOK, PCs
    <3>3. /\ [Resting EXCEPT !.now = percent, !.pc = pc] \in Ticks
          /\ [Resting EXCEPT !.now = percent, !.pc = pc].pc = pc
      BY <3>2 DEF Resting, Ticks, Holders
    <3> QED
      BY <1>1, <3>1, <3>3 DEF CameOK
  <2>2. CASE MarkBreached(i)
    BY <1>2, <2>2 DEF MarkBreached, PCs
  <2>3. CASE SelectThresholds(i)
    <3>1. CASE Applicable(tick[i].now) = {}
      BY <1>3, <2>3, <3>1 DEF SelectThresholds
    <3>2. CASE Applicable(tick[i].now) # {}
      <4>1. PICK A \in SUBSET Thresholds :
              tick' = [tick EXCEPT ![i] = [tick[i] EXCEPT !.pc = "load", !.todo = A]]
        BY <2>3, <3>2 DEF SelectThresholds, Applicable
      <4>2. /\ [tick[i] EXCEPT !.pc = "load", !.todo = A] \in Ticks
            /\ [tick[i] EXCEPT !.pc = "load", !.todo = A].pc = "load"
        BY <1>0, <4>1 DEF Ticks, PCs
      <4> QED
        BY <1>1, <4>1, <4>2 DEF CameOK
    <3> QED
      BY <3>1, <3>2
  <2> QED
    BY <1>5, <2>1, <2>2, <2>3
<1>6. ASSUME NEW i \in Instances, LoadTicket(i)
      PROVE  PathOK'
  <2>1. CASE Current(i) \in Managed /\ Goto(i, "skip")
    <3>1. PICK r \in Ticks : /\ tick' = [tick EXCEPT ![i] = r] /\ r.pc = "skip"
                             /\ r.todo = tick[i].todo
      BY <2>1, NextTick DEF PCs
    <3> QED
      BY <1>1, <2>1, <3>1, CurrentIsLow DEF CameOK
  <2>2. CASE tick' = [tick EXCEPT ![i].seen = assignee,
                        ![i].pc = IF Current(i) \in Escalates THEN "probe" ELSE "cross"]
    <3>1. PICK pc \in {"probe", "cross"} : tick' = [tick EXCEPT ![i].seen = assignee, ![i].pc = pc]
      BY <2>2
    <3>2. /\ [tick[i] EXCEPT !.seen = assignee, !.pc = pc] \in Ticks
          /\ [tick[i] EXCEPT !.seen = assignee, !.pc = pc].pc = pc
      BY <1>0 DEF Ticks, PCs, IInv, TypeOK
    <3>3. tick' = [tick EXCEPT ![i] = [tick[i] EXCEPT !.seen = assignee, !.pc = pc]]
      BY <1>0, <3>1 DEF Ticks
    <3> QED
      BY <1>1, <3>2, <3>3 DEF CameOK
  <2> QED
    BY <1>6, <2>1, <2>2 DEF LoadTicket
<1>7. ASSUME NEW i \in Instances, Probe(i)
      PROVE  PathOK'
  <2>1. PICK r \in Ticks : /\ tick' = [tick EXCEPT ![i] = r]
                           /\ r.pc = (IF Done(i) \/ NoChange(i) THEN "cross" ELSE "assign")
                           /\ r.todo = tick[i].todo
    BY <1>7, NextTick DEF Probe, PCs
  <2> QED
    BY <1>1, <2>1, CurrentIsLow DEF CameOK, NoChange
<1>8. ASSUME NEW i \in Instances, SetEntityAssignment(i) \/ TickAborts(i)
      PROVE  PathOK'
  BY <1>2, <1>3, <1>8 DEF SetEntityAssignment, Applies, Replays, Throws, TickAborts, PCs
<1>9. ASSUME NEW i \in Instances, WriteCrossing(i) \/ WriteSkip(i) \/ Notify(i)
      PROVE  PathOK'
  BY <1>2, <1>4, <1>9 DEF WriteCrossing, WriteSkip, Notify, PCs, Firing
<1>10. CASE UNCHANGED tick
  BY <1>10 DEF PathOK
<1> QED
  BY <1>5, <1>6, <1>7, <1>8, <1>9, <1>10
     DEF Next, Tick, Pass, AssignByHand, WatcherLeaves, StopTimer, vars

LEMMA InitEscalations ==
  Init => Promise!Init /\ PathOK
<1> SUFFICES ASSUME Init PROVE Promise!Init /\ PathOK
  OBVIOUS
<1>1. Taken = {}
  BY DEF Init, Taken
<1>2. Promise!Init
  BY <1>1 DEF Init, Promise!Init, Promise!TargetedAt
<1>3. PathOK
  BY RestingKnows DEF Init, PathOK, CameOK
<1> QED
  BY <1>2, <1>3

(* Every step gives or takes the ticket, records a threshold or tells of    *)
(* it, or leaves all of that alone.                                         *)
LEMMA StepEscalates ==
  ASSUME IInv, PathOK, [Next]_vars
  PROVE  [Promise!Next]_(Promise!vars)
<1>0. /\ ops \in [Thresholds -> Holders \cup {NoOp}] /\ notified \in [Thresholds -> Nat]
      /\ crossings \in [Thresholds -> {"none", "notify", "escalate", "skipped_no_manager"}]
  BY DEF IInv, TypeOK
<1>1. CASE UNCHANGED <<assignee, edits, ops, held, crossings, notified>>
  BY <1>1 DEF Promise!vars, Taken
<1>2. ASSUME NEW a \in Holders, AssignByHand(a) PROVE Promise!Next
  <2>1. Promise!Give(a)
    BY <1>2 DEF AssignByHand, Assign, Promise!Give, Promise!Move, Promise!TargetedAt, Taken, record
  <2> QED
    BY <2>1 DEF Promise!Next
<1>3. ASSUME NEW i \in Instances, SetEntityAssignment(i) PROVE [Promise!Next]_(Promise!vars)
  <2>1. CASE Replays(i) \/ Throws(i)
    BY <1>1, <1>3, <2>1 DEF SetEntityAssignment, Replays, Throws, record
  <2>2. CASE Applies(i)
    <3>1. PICK h \in Thresholds : h = Current(i) /\ h \in Escalates /\ h \notin NoUser
      BY <1>3, AtHand, CurrentIsLow DEF SetEntityAssignment, Firing, IInv, TicksOK, KnowsOK, PathOK, CameOK
    <3>2. tick[i].seen \in Holders /\ tick[i].seen # NoOp
      BY NoOpAssumption DEF IInv, TypeOK, Ticks, Holders
    <3>3. ops[h] = NoOp /\ ops' = [ops EXCEPT ![h] = tick[i].seen]
      BY <2>2, <3>1 DEF Applies, Done
    <3>4. h \notin Taken /\ Taken' = Taken \cup {h}
      BY <1>0, <3>2, <3>3 DEF Taken
    <3>5. Promise!Take(h)
      BY <1>3, <2>2, <3>1, <3>4
         DEF SetEntityAssignment, Applies, Assign, Promise!Take, Promise!Move, Promise!TargetedAt, record
    <3> QED
      BY <3>5 DEF Promise!Next
  <2> QED
    BY <1>3, <2>1, <2>2 DEF SetEntityAssignment
<1>4. ASSUME NEW i \in Instances, NEW action \in Promise!May(Current(i)), Current(i) \in Thresholds,
             crossings[Current(i)] = "none",
             crossings' = [crossings EXCEPT ![Current(i)] = action],
             UNCHANGED <<ticket, notified, held, edits>>
      PROVE  Promise!Next
  <2>1. Promise!Record(Current(i), action)
    BY <1>4 DEF Promise!Record, ticket, Taken
  <2> QED
    BY <1>4, <2>1 DEF Promise!Next
<1>5. ASSUME NEW i \in Instances, WriteCrossing(i) PROVE [Promise!Next]_(Promise!vars)
  <2>1. CASE UNCHANGED crossings
    BY <1>1, <1>5, <2>1 DEF WriteCrossing, ticket
  <2>2. CASE /\ crossings[Current(i)] = "none"
             /\ crossings' = [crossings EXCEPT ![Current(i)] =
                                IF Current(i) \in Escalates THEN "escalate" ELSE "notify"]
    <3>1. Current(i) \in Thresholds
      BY <1>5, AtHand DEF WriteCrossing, Firing
    <3>2. Current(i) \in Escalates => Current(i) \in held \cup NoUser
      BY <1>5, CurrentIsLow DEF WriteCrossing, IInv, TicksOK, KnowsOK
    <3>3. (IF Current(i) \in Escalates THEN "escalate" ELSE "notify") \in Promise!May(Current(i))
      BY <3>2 DEF Promise!May
    <3> QED
      BY <1>4, <1>5, <2>2, <3>1, <3>3 DEF WriteCrossing
  <2> QED
    BY <1>5, <2>1, <2>2 DEF WriteCrossing
<1>6. ASSUME NEW i \in Instances, WriteSkip(i) PROVE [Promise!Next]_(Promise!vars)
  <2>1. Current(i) \in Thresholds /\ Current(i) \in Managed
    BY <1>6, AtHand, CurrentIsLow DEF WriteSkip, Firing, PathOK, CameOK
  <2>2. CASE crossings[Current(i)] = "none"
    <3>1. crossings' = [crossings EXCEPT ![Current(i)] = "skipped_no_manager"]
      BY <1>6, <2>2 DEF WriteSkip
    <3>2. "skipped_no_manager" \in Promise!May(Current(i))
      BY <2>1 DEF Promise!May
    <3> QED
      BY <1>4, <1>6, <2>1, <2>2, <3>1, <3>2 DEF WriteSkip
  <2>3. CASE crossings[Current(i)] # "none"
    <3>1. crossings' = crossings
      BY <1>0, <1>6, <2>1, <2>3 DEF WriteSkip
    <3> QED
      BY <1>1, <1>6, <3>1 DEF WriteSkip, ticket
  <2> QED
    BY <2>2, <2>3
<1>7. ASSUME NEW i \in Instances, Notify(i) PROVE [Promise!Next]_(Promise!vars)
  <2>1. CASE UNCHANGED notified
    BY <1>1, <1>7, <2>1 DEF Notify, ticket
  <2>2. CASE notified' = [notified EXCEPT ![Current(i)] = @ + 1]
    <3>1. Current(i) \in Thresholds
      BY <1>7, AtHand DEF Notify, Firing
    <3>2. crossings[Current(i)] \in Won /\ notified[Current(i)] = 0
      BY <1>7, CurrentIsLow DEF Notify, IInv, TicksOK, KnowsOK
    <3>3. notified' = [notified EXCEPT ![Current(i)] = 1]
      BY <1>0, <2>2, <3>1, <3>2
    <3>4. Promise!Tell(Current(i))
      BY <1>7, <3>2, <3>3 DEF Notify, Promise!Tell, Won, ticket, Taken
    <3> QED
      BY <3>1, <3>4 DEF Promise!Next
  <2> QED
    BY <1>7, <2>1, <2>2 DEF Notify
<1>8. ASSUME NEW i \in Instances,
             \/ CheckBreaches(i) \/ MarkBreached(i) \/ SelectThresholds(i) \/ LoadTicket(i)
             \/ Probe(i) \/ TickAborts(i)
      PROVE  [Promise!Next]_(Promise!vars)
  BY <1>1, <1>8 DEF CheckBreaches, MarkBreached, SelectThresholds, LoadTicket, Probe, TickAborts,
                    ticket, record
<1>9. CASE Pass \/ WatcherLeaves \/ StopTimer \/ UNCHANGED vars
  BY <1>1, <1>9 DEF Pass, WatcherLeaves, StopTimer, vars, ticket, record
<1> QED
  BY <1>2, <1>3, <1>5, <1>6, <1>7, <1>8, <1>9 DEF Next, Tick

(* For every policy and any number of instances, crashes and people who     *)
(* reassign the ticket, the thresholds keep the promise of Escalations: one *)
(* take, one record, one message each, in that order (fireThreshold).       *)
THEOREM EscalationsKept == Spec => ImplementsEscalations
<1>1. IInv /\ PathOK /\ [Next]_vars => PathOK'
  BY PathStep
<1>2. IInv /\ PathOK /\ [Next]_vars => [Promise!Next]_(Promise!vars)
  BY StepEscalates
<1> QED
  BY <1>1, <1>2, InitEscalations, Inductive, PTL DEF Spec, Promise!Spec, ImplementsEscalations
=============================================================================
