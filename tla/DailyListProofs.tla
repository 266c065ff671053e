-------------------------- MODULE DailyListProofs --------------------------
(***************************************************************************)
(* Safety of the daily list of a bucket, for every set of instances,       *)
(* requests and lines and every bound.                                     *)
(*                                                                         *)
(* That a version is mailed once rests on what the compare-and-swap can    *)
(* see: a row in 'never_sent' has not been mailed and nobody is sending it *)
(* (FreshOK), a row in 'failed' is disturbed (FailedOK), so that of the    *)
(* unforced senders of any other row one at most is before its mail, and   *)
(* it is the first (SenderOK).  That locked lines were mailed rests on the *)
(* order of the steps of a sender (RowOK, SettleOK).                       *)
(***************************************************************************)
EXTENDS DailyList, TLAPS

Sending(w) == pc[w] \in InFlight
Chosen     == {"render", "cas"} \cup InFlight

(* A worker that is about to send a row, or sends it, has a minted row. *)
RowOK == \A w \in Workers : pc[w] \in Chosen => row[w] \in Minted

(* After the mail, the provider has it. *)
SettleOK == \A w \in Workers : pc[w] = "settle" => row[w] \in mailed

(* A row that was never sent has no mail, and nobody is sending it. *)
FreshOK ==
  \A v \in Versions : email_status[v] = "never_sent" =>
    /\ mails[v] = 0
    /\ \A w \in Workers : Sending(w) => row[w] # v

FailedOK == \A v \in Versions : email_status[v] = "failed" => v \in disturbed

(* An unforced sender before its mail is the only one, and the first. *)
Natural(w) == pc[w] = "mail" /\ ~force[w] /\ row[w] \notin disturbed

SenderOK ==
  \A w \in Workers : Natural(w) =>
    /\ mails[row[w]] = 0
    /\ \A x \in Workers : Natural(x) /\ row[x] = row[w] => x = w

IInv ==
  /\ TypeOK /\ RowOK /\ SettleOK /\ FreshOK /\ FailedOK /\ SenderOK
  /\ OneMailPerRow /\ LockedMeansMailed

-----------------------------------------------------------------------------
(* A bucket without rows satisfies the inductive invariant. *)
THEOREM InitInv == Init => IInv
<1> SUFFICES ASSUME Init PROVE IInv
  OBVIOUS
<1> USE BoundsAssumption, WorkersAssumption DEF Init, Versions, Workers
<1>1. TypeOK
  <2>1. version \in 0..MaxVersions /\ mishaps \in 0..MaxMishaps
    OBVIOUS
  <2>2. payload \in [Versions -> SUBSET Lines] /\ email_status \in [Versions -> Statuses]
    BY DEF Statuses
  <2>3. /\ sent_at \in SUBSET Minted /\ mailed \in SUBSET Minted /\ recipient_email \in SUBSET Minted
        /\ stale \in SUBSET Versions
    OBVIOUS
  <2>4. order \in [Lines -> {"none", "placed", "cancelled"}]
    OBVIOUS
  <2>5. daglijst_id \in [Lines -> 0..MaxVersions] /\ mails \in [Versions -> 0..2]
    OBVIOUS
  <2>6. pc \in [Workers -> Steps] /\ row \in [Workers -> 0..MaxVersions]
    BY DEF Steps
  <2> QED
    BY <2>1, <2>2, <2>3, <2>4, <2>5, <2>6 DEF TypeOK
<1>2. RowOK /\ SettleOK /\ FreshOK /\ FailedOK /\ SenderOK
  BY DEF RowOK, SettleOK, FreshOK, FailedOK, SenderOK, Natural, Sending, Chosen, InFlight
<1>3. OneMailPerRow /\ LockedMeansMailed
  BY DEF OneMailPerRow, LockedMeansMailed
<1> QED
  BY <1>1, <1>2, <1>3 DEF IInv

-----------------------------------------------------------------------------
(* What the steps leave in place *)

Rest == RowOK /\ SettleOK /\ FreshOK /\ FailedOK /\ SenderOK /\ OneMailPerRow /\ LockedMeansMailed

(* A step that touches neither rows nor locks nor mails, and after which    *)
(* its worker is not sending, keeps all but the types.                      *)
LEMMA Moves ==
  ASSUME IInv, NEW w \in Workers,
         UNCHANGED <<version, payload, email_status, sent_at, daglijst_id, mailed, mails>>,
         disturbed \subseteq disturbed',
         \A x \in Workers \ {w} :
           pc'[x] = pc[x] /\ row'[x] = row[x] /\ force'[x] = force[x],
         pc'[w] \notin InFlight,
         pc'[w] \in Chosen => row'[w] \in Minted
  PROVE  Rest'
<1>1. RowOK' /\ SettleOK'
  BY DEF IInv, RowOK, SettleOK, Chosen, InFlight, Minted
<1>2. FreshOK' /\ FailedOK'
  BY DEF IInv, FreshOK, FailedOK, Sending
<1>3. SenderOK'
  <2>1. \A x \in Workers : Natural(x)' => x # w /\ Natural(x) /\ row'[x] = row[x]
    BY DEF Natural, InFlight
  <2> QED
    BY <2>1 DEF IInv, SenderOK
<1>4. OneMailPerRow' /\ LockedMeansMailed'
  BY DEF IInv, OneMailPerRow, LockedMeansMailed
<1> QED
  BY <1>1, <1>2, <1>3, <1>4 DEF Rest

(* A step of no worker that touches none of these keeps it as well. *)
LEMMA Still ==
  ASSUME IInv,
         UNCHANGED <<version, payload, email_status, sent_at, daglijst_id, mailed, mails,
                     pc, row, force, disturbed>>
  PROVE  Rest'
BY DEF IInv, Rest, RowOK, SettleOK, FreshOK, FailedOK, SenderOK, OneMailPerRow,
       LockedMeansMailed, Natural, Sending, Minted

-----------------------------------------------------------------------------
(* Steps of no worker, and steps of a worker outside its send *)

LEMMA TimeStep ==
  ASSUME IInv,
         \/ \E l \in Lines : PlaceOrder(l) \/ CancelOrder(l)
         \/ CutoffPasses \/ DateLeavesWindow
         \/ EditEmail
         \/ \E v \in Versions : LeaseAges(v)
  PROVE  IInv'
<1>1. TypeOK'
  <2> USE DEF IInv, TypeOK, Minted, lists, world, locals, history, orders, bucket
  <2>1. ASSUME NEW l \in Lines, PlaceOrder(l) PROVE TypeOK'
    BY <2>1 DEF PlaceOrder
  <2>2. ASSUME NEW l \in Lines, CancelOrder(l) PROVE TypeOK'
    BY <2>2 DEF CancelOrder
  <2>3. ASSUME CutoffPasses \/ DateLeavesWindow PROVE TypeOK'
    BY <2>3 DEF CutoffPasses, DateLeavesWindow
  <2>4. ASSUME NEW v \in Versions, LeaseAges(v) PROVE TypeOK'
    <3>1. mishaps' \in 0..MaxMishaps
      BY <2>4, BoundsAssumption DEF LeaseAges
    <3>2. stale' \in SUBSET Versions
      BY <2>4 DEF LeaseAges
    <3> QED
      BY <2>4, <3>1, <3>2 DEF LeaseAges
  <2>5. ASSUME EditEmail PROVE TypeOK'
    BY <2>5, BoundsAssumption DEF EditEmail
  <2> QED
    BY <2>1, <2>2, <2>3, <2>4, <2>5
<1>2. Rest'
  BY Still DEF PlaceOrder, CancelOrder, CutoffPasses, DateLeavesWindow, EditEmail, LeaseAges,
               lists, world, locals, history, orders
<1> QED
  BY <1>1, <1>2 DEF IInv, Rest

LEMMA ScanStep ==
  ASSUME IInv, NEW i \in Instances, FindDueBuckets(i) \/ ProcessBucket(i)
  PROVE  IInv'
<1> USE DEF FindDueBuckets, ProcessBucket, Go, lists, orders, world, locals, history, IInv
<1>1. TypeOK'
  BY DEF TypeOK, Minted, Steps, Workers
<1>2. Rest'
  BY Moves DEF TypeOK, Workers, Chosen, InFlight
<1> QED
  BY <1>1, <1>2 DEF Rest

LEMMA EnterStep ==
  ASSUME IInv, NEW w \in Workers, NEW v \in 0..MaxVersions, NEW f \in BOOLEAN, Enter(w, v, f)
  PROVE  /\ pc' \in [Workers -> Steps] /\ row' \in [Workers -> 0..MaxVersions]
         /\ force' \in [Workers -> BOOLEAN] /\ exact' \in [Workers -> BOOLEAN]
         /\ pc'[w] = "render" /\ row'[w] = v
         /\ \A x \in Workers \ {w} :
              pc'[x] = pc[x] /\ row'[x] = row[x] /\ force'[x] = force[x]
BY DEF IInv, TypeOK, Enter, Go, Steps

LEMMA FindStep ==
  ASSUME IInv, NEW i \in Instances, FindUnsentRow(i)
  PROVE  IInv'
<1> i \in Workers
  BY DEF Workers
<1>1. CASE Unsent = {} /\ Go(i, "assemble") /\ UNCHANGED <<locals, holder>>
  <2>1. TypeOK'
    BY <1>1 DEF FindUnsentRow, Go, IInv, TypeOK, Minted, Steps, lists, orders, locals, history
  <2>2. Rest'
    BY <1>1, Moves DEF FindUnsentRow, Go, IInv, TypeOK, Chosen, InFlight, lists, orders,
                       locals, history
  <2> QED
    BY <2>1, <2>2 DEF IInv, Rest
<1>2. ASSUME NEW v \in Unsent, Unlock(i), Enter(i, v, FALSE), UNCHANGED lines
      PROVE  IInv'
  <2>1. v \in Minted /\ v \in 0..MaxVersions
    BY <1>2, BoundsAssumption DEF Unsent, Minted, IInv, TypeOK
  <2>2. TypeOK'
    BY <1>2, <2>1, EnterStep DEF FindUnsentRow, Unlock, IInv, TypeOK, Minted, lists, orders,
                                 history
  <2>3. Rest'
    BY <1>2, <2>1, EnterStep, Moves DEF FindUnsentRow, InFlight, lists, orders, history
  <2> QED
    BY <2>2, <2>3 DEF IInv, Rest
<1> QED
  BY <1>1, <1>2 DEF FindUnsentRow

LEMMA RequestStep ==
  ASSUME IInv, NEW a \in Admins, Request(a)
  PROVE  IInv'
<1> a \in Workers
  BY DEF Workers
<1>1. CASE Regenerate(a)
  <2>1. TypeOK'
    BY <1>1 DEF Regenerate, Go, IInv, TypeOK, Minted, Steps, lists, orders, world, locals, history
  <2>2. Rest'
    BY <1>1, Moves DEF Regenerate, Go, IInv, TypeOK, Chosen, InFlight, lists, orders, world,
                       locals, history
  <2> QED
    BY <2>1, <2>2 DEF IInv, Rest
<1>2. CASE Resend(a)
  <2>1. PICK v \in Minted, f \in BOOLEAN : Enter(a, v, f)
    BY <1>2 DEF Resend
  <2>2. v \in 0..MaxVersions
    BY BoundsAssumption DEF Minted, IInv, TypeOK
  <2>3. TypeOK'
    BY <1>2, <2>1, <2>2, EnterStep DEF Resend, IInv, TypeOK, Minted, lists, orders, world, history
  <2>4. Rest'
    BY <1>2, <2>1, <2>2, EnterStep, Moves DEF Resend, InFlight, lists, orders, world, history
  <2> QED
    BY <2>3, <2>4 DEF IInv, Rest
<1> QED
  BY <1>1, <1>2 DEF Request

LEMMA LeaveStep ==
  ASSUME IInv, NEW w \in Workers, Leave(w)
  PROVE  /\ pc' \in [Workers -> Steps] /\ row' \in [Workers -> 0..MaxVersions]
         /\ lines' \in [Workers -> SUBSET Lines]
         /\ force' \in [Workers -> BOOLEAN] /\ exact' \in [Workers -> BOOLEAN]
         /\ pc'[w] \notin Chosen /\ pc'[w] \notin InFlight
         /\ \A x \in Workers \ {w} :
              pc'[x] = pc[x] /\ row'[x] = row[x] /\ force'[x] = force[x]
BY BoundsAssumption DEF IInv, TypeOK, Leave, Go, Steps, Chosen, InFlight

LEMMA AssembleStep ==
  ASSUME IInv, NEW w \in Workers, Assemble(w)
  PROVE  IInv'
<1>1. CASE {l \in Lines : order[l] = "placed"} = {}
  <2>1. Unlock(w) /\ Leave(w)
    BY <1>1 DEF Assemble
  <2>2. TypeOK'
    BY <2>1, LeaveStep DEF Assemble, Unlock, IInv, TypeOK, Minted, lists, orders, history
  <2>3. Rest'
    BY <2>1, LeaveStep, Moves DEF Assemble, lists, orders, history
  <2> QED
    BY <2>2, <2>3 DEF IInv, Rest
<1>2. CASE {l \in Lines : order[l] = "placed"} # {}
  <2>1. TypeOK'
    BY <1>2 DEF Assemble, Go, IInv, TypeOK, Minted, Steps, lists, orders, history
  <2>2. Rest'
    BY <1>2, Moves DEF Assemble, Go, IInv, TypeOK, Chosen, InFlight, lists, orders, history
  <2> QED
    BY <2>1, <2>2 DEF IInv, Rest
<1> QED
  BY <1>1, <1>2

(* A worker that ends without touching its row. *)
LEMMA EndStep ==
  ASSUME IInv, NEW w \in Workers, RecordFails(w) \/ Die(w)
  PROVE  IInv'
<1>1. TypeOK'
  <2>1. mishaps' \in 0..MaxMishaps
    BY BoundsAssumption DEF RecordFails, Die, IInv, TypeOK, history
  <2>2. holder' \in Instances \cup {NoOne}
    BY DEF RecordFails, Die, Unlock, IInv, TypeOK
  <2> QED
    BY <2>1, <2>2, LeaveStep DEF RecordFails, Die, IInv, TypeOK, Minted, lists, orders, history
<1>2. Rest'
  BY LeaveStep, Moves DEF RecordFails, Die, lists, orders, history
<1> QED
  BY <1>1, <1>2 DEF IInv, Rest

LEMMA RenderStep ==
  ASSUME IInv, NEW w \in Workers, Render(w)
  PROVE  IInv'
<1>1. CASE Leave(w)
  <2>1. TypeOK'
    BY <1>1, LeaveStep DEF Render, IInv, TypeOK, Minted, lists, orders, world, history
  <2>2. Rest'
    BY <1>1, LeaveStep, Moves DEF Render, lists, orders, world, history
  <2> QED
    BY <2>1, <2>2 DEF IInv, Rest
<1>2. CASE Go(w, "cas") /\ UNCHANGED locals
  <2>1. TypeOK'
    BY <1>2 DEF Render, Go, IInv, TypeOK, Minted, Steps, lists, orders, world, history, locals
  <2>2. Rest'
    BY <1>2, Moves DEF Render, Go, IInv, TypeOK, RowOK, Chosen, InFlight, lists, orders, world,
                       history, locals
  <2> QED
    BY <2>1, <2>2 DEF IInv, Rest
<1> QED
  BY <1>1, <1>2 DEF Render

-----------------------------------------------------------------------------
(* Steps on rows *)

(* Reclaim, a failed send and a callback: a row changes to 'failed' only as *)
(* it is disturbed, and to 'never_sent' not at all.                         *)
LEMMA StatusStep ==
  ASSUME IInv, NEW w,
         UNCHANGED <<version, payload, sent_at, daglijst_id, mailed, mails>>,
         disturbed \subseteq disturbed',
         \A v \in Versions :
           /\ email_status'[v] = "never_sent" => email_status[v] = "never_sent"
           /\ email_status'[v] = "failed" => v \in disturbed' \/ email_status[v] = "failed",
         \A x \in Workers \ {w} :
           pc'[x] = pc[x] /\ row'[x] = row[x] /\ force'[x] = force[x],
         w \in Workers => pc'[w] \notin Chosen
  PROVE  Rest'
<1>1. RowOK' /\ SettleOK'
  BY DEF IInv, RowOK, SettleOK, Chosen, InFlight, Minted
<1>2. FreshOK' /\ FailedOK'
  BY DEF IInv, FreshOK, FailedOK, Sending, Chosen
<1>3. SenderOK'
  <2>1. \A x \in Workers : Natural(x)' => x # w /\ Natural(x) /\ row'[x] = row[x]
    BY DEF Natural, InFlight, Chosen
  <2> QED
    BY <2>1 DEF IInv, SenderOK
<1>4. OneMailPerRow' /\ LockedMeansMailed'
  BY DEF IInv, OneMailPerRow, LockedMeansMailed
<1> QED
  BY <1>1, <1>2, <1>3, <1>4 DEF Rest

LEMMA ReclaimStep ==
  ASSUME IInv, NEW i \in Instances, ReclaimStuckSendingRows(i)
  PROVE  IInv'
<1> i \in Workers
  BY DEF Workers
<1>1. TypeOK'
  <2>1. email_status' \in [Versions -> Statuses]
    BY DEF ReclaimStuckSendingRows, IInv, TypeOK, Statuses
  <2>2. sending_acquired_at' \in [Versions -> Workers \cup {NoOne}]
    BY DEF ReclaimStuckSendingRows, IInv, TypeOK
  <2>3. stale' \in SUBSET Versions /\ disturbed' \in SUBSET Versions
    BY DEF ReclaimStuckSendingRows, IInv, TypeOK, Stuck
  <2>4. pc' \in [Workers -> Steps]
    BY DEF ReclaimStuckSendingRows, Go, IInv, TypeOK, Steps
  <2> QED
    BY <2>1, <2>2, <2>3, <2>4 DEF ReclaimStuckSendingRows, IInv, TypeOK, Minted, orders, world,
                                  locals
<1>2. Rest'
  BY StatusStep DEF ReclaimStuckSendingRows, Go, IInv, TypeOK, Chosen, InFlight, orders, world,
                    locals
<1> QED
  BY <1>1, <1>2 DEF IInv, Rest

LEMMA UndoStep ==
  ASSUME IInv, NEW w \in Workers, Undo(w)
  PROVE  IInv'
<1>1. row[w] \in Versions
  BY BoundsAssumption DEF Undo, IInv, RowOK, TypeOK, Chosen, InFlight, Minted, Versions
<1>2. TypeOK'
  <2>1. email_status' \in [Versions -> Statuses]
    BY DEF Undo, IInv, TypeOK, Statuses
  <2>2. sending_acquired_at' \in [Versions -> Workers \cup {NoOne}]
    BY DEF Undo, IInv, TypeOK
  <2>3. stale' \in SUBSET Versions /\ disturbed' \in SUBSET Versions
    BY <1>1 DEF Undo, IInv, TypeOK
  <2> QED
    BY <2>1, <2>2, <2>3, LeaveStep DEF Undo, IInv, TypeOK, Minted, orders, world
<1>3. /\ disturbed \subseteq disturbed'
      /\ \A v \in Versions :
           /\ email_status'[v] = "never_sent" => email_status[v] = "never_sent"
           /\ email_status'[v] = "failed" => v \in disturbed' \/ email_status[v] = "failed"
  BY DEF Undo, IInv, TypeOK
<1>4. Rest'
  BY <1>3, LeaveStep, StatusStep DEF Undo, orders, world
<1> QED
  BY <1>2, <1>4 DEF IInv, Rest

LEMMA CallbackStep ==
  ASSUME IInv, NEW v \in Versions, NEW event \in Events, Callback(v, event)
  PROVE  IInv'
<1>1. TypeOK'
  <2>1. email_status' \in [Versions -> Statuses]
    BY DEF Callback, IInv, TypeOK, Statuses, Events
  <2>2. mishaps' \in 0..MaxMishaps
    BY BoundsAssumption DEF Callback, IInv, TypeOK
  <2>3. disturbed' \in SUBSET Versions
    BY DEF Callback, IInv, TypeOK
  <2> QED
    BY <2>1, <2>2, <2>3 DEF Callback, IInv, TypeOK, Minted, orders, world, locals
<1>2. PICK w : w \notin Workers
  BY WorkersAssumption DEF Workers
<1>3. /\ disturbed \subseteq disturbed'
      /\ \A u \in Versions :
           /\ email_status'[u] = "never_sent" => email_status[u] = "never_sent"
           /\ email_status'[u] = "failed" => u \in disturbed' \/ email_status[u] = "failed"
  BY DEF Callback, IInv, TypeOK, Events
<1>4. Rest'
  BY <1>2, <1>3, StatusStep DEF Callback, orders, world, locals
<1> QED
  BY <1>1, <1>4 DEF IInv, Rest

LEMMA RecordStep ==
  ASSUME IInv, NEW w \in Workers, Record(w)
  PROVE  IInv'
<1> DEFINE n == version + 1
<1>1. version \in 0..MaxVersions /\ version < MaxVersions /\ version' = n
  BY DEF Record, IInv, TypeOK
<1>2. n \in Versions /\ n \in 0..MaxVersions /\ n \in Minted' /\ n \notin Minted
      /\ Minted \subseteq Minted'
  BY <1>1, BoundsAssumption DEF Versions, Minted
<1>3. Enter(w, n, FALSE) /\ UNCHANGED <<email_status, sent_at, sending_acquired_at, stale,
                                         orders, mailed, mails, history>>
  BY <1>1 DEF Record
<1>4. payload' = [payload EXCEPT ![n] = lines[w]]
  BY <1>1 DEF Record
<1>5. TypeOK'
  <2>1. payload' \in [Versions -> SUBSET Lines]
    BY <1>4 DEF IInv, TypeOK
  <2>2. holder' \in Instances \cup {NoOne}
    BY DEF Record, Unlock, IInv, TypeOK
  <2>3. lines' \in [Workers -> SUBSET Lines]
    BY DEF Record, IInv, TypeOK
  <2>4. sent_at' \in SUBSET Minted' /\ mailed' \in SUBSET Minted'
        /\ recipient_email' \in SUBSET Minted'
    BY <1>1, <1>2, <1>3 DEF Record, IInv, TypeOK
  <2>5. version' \in 0..MaxVersions
    BY <1>1, <1>2
  <2>6. /\ pc' \in [Workers -> Steps] /\ row' \in [Workers -> 0..MaxVersions]
        /\ force' \in [Workers -> BOOLEAN] /\ exact' \in [Workers -> BOOLEAN]
    BY <1>2, <1>3, EnterStep
  <2> QED
    BY <1>3, <2>1, <2>2, <2>3, <2>4, <2>5, <2>6 DEF IInv, TypeOK, orders, history
<1>6. /\ pc'[w] = "render" /\ row'[w] = n
      /\ \A x \in Workers \ {w} :
           pc'[x] = pc[x] /\ row'[x] = row[x] /\ force'[x] = force[x]
  BY <1>2, <1>3, EnterStep
<1>7. RowOK' /\ SettleOK'
  BY <1>2, <1>3, <1>6 DEF IInv, RowOK, SettleOK, Chosen, InFlight
<1>8. FreshOK' /\ FailedOK'
  BY <1>3, <1>6 DEF IInv, FreshOK, FailedOK, Sending, InFlight, history
<1>9. SenderOK'
  <2>1. \A x \in Workers : Natural(x)' => x # w /\ Natural(x) /\ row'[x] = row[x]
    BY <1>3, <1>6 DEF Natural, history
  <2> QED
    BY <1>3, <2>1 DEF IInv, SenderOK
<1>10. OneMailPerRow'
  BY <1>3 DEF IInv, OneMailPerRow, history
<1>11. LockedMeansMailed'
  <2>1. \A v \in sent_at : v \in Versions /\ payload'[v] = payload[v]
    BY <1>1, <1>2, <1>4, BoundsAssumption DEF IInv, TypeOK, Versions, Minted
  <2> QED
    BY <1>3, <2>1 DEF IInv, LockedMeansMailed, orders
<1> QED
  BY <1>5, <1>7, <1>8, <1>9, <1>10, <1>11 DEF IInv

(* The compare-and-swap finds an undisturbed row only fresh: nobody else is *)
(* sending it.                                                              *)
LEMMA CasStep ==
  ASSUME IInv, NEW w \in Workers, Cas(w)
  PROVE  IInv'
<1> DEFINE v == row[w]
<1>1. v \in Minted /\ v \in Versions /\ pc[w] = "cas"
  BY BoundsAssumption DEF Cas, IInv, RowOK, TypeOK, Chosen, Minted, Versions
<1>2. CASE email_status[v] \notin CasFrom(w)
  <2>1. Leave(w) /\ UNCHANGED <<lists, orders, world, history>>
    BY <1>2 DEF Cas, lists
  <2>2. TypeOK'
    BY <2>1, LeaveStep DEF IInv, TypeOK, Minted, lists, orders, world, history
  <2>3. Rest'
    BY <2>1, LeaveStep, Moves DEF lists, orders, world, history
  <2> QED
    BY <2>2, <2>3 DEF IInv, Rest
<1>3. CASE email_status[v] \in CasFrom(w)
  <2>1. /\ email_status' = [email_status EXCEPT ![v] = "sending"]
        /\ sending_acquired_at' = [sending_acquired_at EXCEPT ![v] = w]
        /\ stale' = stale \ {v}
        /\ \E whole \in BOOLEAN : exact' = [exact EXCEPT ![w] = whole]
        /\ pc' = [pc EXCEPT ![w] = "mail"]
        /\ UNCHANGED <<version, payload, recipient_email, sent_at, orders, world, history, row, lines, force>>
    BY <1>3 DEF Cas, Go
  <2>2. TypeOK'
    <3>1. email_status' \in [Versions -> Statuses]
      BY <2>1 DEF IInv, TypeOK, Statuses
    <3>2. sending_acquired_at' \in [Versions -> Workers \cup {NoOne}]
      BY <2>1 DEF IInv, TypeOK
    <3>3. exact' \in [Workers -> BOOLEAN]
      BY <2>1 DEF IInv, TypeOK
    <3>4. pc' \in [Workers -> Steps]
      BY <2>1 DEF IInv, TypeOK, Steps
    <3> QED
      BY <2>1, <3>1, <3>2, <3>3, <3>4 DEF IInv, TypeOK, Minted, orders, world, history
  <2>3. pc'[w] = "mail" /\ \A x \in Workers \ {w} : pc'[x] = pc[x]
    BY <2>1 DEF IInv, TypeOK
  <2>4. email_status'[v] = "sending" /\ \A u \in Versions \ {v} : email_status'[u] = email_status[u]
    BY <1>1, <2>1 DEF IInv, TypeOK
  <2>5. RowOK' /\ SettleOK'
    BY <1>1, <2>1, <2>3 DEF IInv, RowOK, SettleOK, Chosen, InFlight, Minted, world
  <2>6. FreshOK' /\ FailedOK'
    BY <2>1, <2>3, <2>4 DEF IInv, FreshOK, FailedOK, Sending, InFlight, world, history
  <2>7. SenderOK'
    <3>1. Natural(w)' => email_status[v] = "never_sent"
      BY <1>1, <1>3, <2>1 DEF Natural, CasFrom, Retriable, IInv, FailedOK, history
    <3>2. Natural(w)' => mails[v] = 0 /\ \A x \in Workers : pc[x] = "mail" => row[x] # v
      BY <1>1, <3>1 DEF IInv, FreshOK, Sending, InFlight
    <3>3. \A x \in Workers \ {w} : Natural(x)' => Natural(x) /\ row'[x] = row[x]
      BY <2>1, <2>3 DEF Natural, history
    <3>4. mails' = mails /\ row' = row
      BY <2>1 DEF world
    <3>5. \A x \in Workers \ {w} : Natural(x)' => pc[x] = "mail"
      BY <3>3 DEF Natural
    <3>6. \A x \in Workers \ {w} : Natural(x)' /\ Natural(w)' => row[x] # v
      BY <3>2, <3>5
    <3> QED
      BY <3>2, <3>3, <3>4, <3>6 DEF IInv, SenderOK
  <2>8. OneMailPerRow' /\ LockedMeansMailed'
    BY <2>1 DEF IInv, OneMailPerRow, LockedMeansMailed, orders, world, history
  <2> QED
    BY <2>2, <2>5, <2>6, <2>7, <2>8 DEF IInv
<1> QED
  BY <1>2, <1>3

(* A mail goes out, whether or not the sender hears of it: an unforced one  *)
(* of an undisturbed row is the first, and no second one is under way.      *)
LEMMA MailStep ==
  ASSUME IInv, NEW w \in Workers, Dispatch(w) \/ DispatchFails(w)
  PROVE  IInv'
<1> DEFINE v == row[w]
<1>1. v \in Minted /\ v \in Versions /\ pc[w] = "mail"
  BY BoundsAssumption DEF Dispatch, DispatchFails, IInv, RowOK, TypeOK, Chosen, InFlight, Minted,
                          Versions
<1>2. UNCHANGED <<lists, orders, holder, locals, disturbed>>
  BY DEF Dispatch, DispatchFails, history
<1>3. /\ pc' \in [Workers -> Steps] /\ pc'[w] \in {"settle", "undo"}
      /\ \A x \in Workers \ {w} : pc'[x] = pc[x]
  BY DEF Dispatch, DispatchFails, Go, IInv, TypeOK, Steps
<1>4. /\ mailed' \in SUBSET Minted /\ mailed \subseteq mailed'
      /\ pc'[w] = "settle" => v \in mailed'
  BY <1>1 DEF Dispatch, DispatchFails, Go, Accept, IInv, TypeOK
<1>5. /\ mails' \in [Versions -> 0..2]
      /\ \A u \in Versions : mails'[u] # mails[u] =>
           u = v /\ ~force[w] /\ mails'[u] =< mails[u] + 1
  <2>1. CASE UNCHANGED mails
    BY <2>1 DEF IInv, TypeOK
  <2>2. CASE ~force[w] /\ \E n \in {mails[v], mails[v] + 1} \cap 1..2 :
               mails' = [mails EXCEPT ![v] = n]
    <3>1. PICK n \in {mails[v], mails[v] + 1} \cap 1..2 : mails' = [mails EXCEPT ![v] = n]
      BY <2>2
    <3>2. n \in 0..2 /\ n =< mails[v] + 1 /\ mails[v] \in 0..2
      BY <1>1, <3>1 DEF IInv, TypeOK
    <3>3. mails \in [Versions -> 0..2]
      BY DEF IInv, TypeOK
    <3> QED
      BY <1>1, <2>2, <3>1, <3>2, <3>3
  <2> QED
    BY <2>1, <2>2 DEF Dispatch, DispatchFails, Accept
<1>6. mishaps' \in 0..MaxMishaps
  BY BoundsAssumption DEF Dispatch, DispatchFails, IInv, TypeOK, history
<1>7. TypeOK'
  BY <1>2, <1>3, <1>4, <1>5, <1>6 DEF IInv, TypeOK, Minted, lists, orders, locals
<1>8. RowOK' /\ SettleOK'
  BY <1>1, <1>2, <1>3, <1>4 DEF IInv, RowOK, SettleOK, Chosen, InFlight, Minted, lists, locals
<1>9. FreshOK' /\ FailedOK'
  <2>1. email_status[v] # "never_sent"
    BY <1>1 DEF IInv, FreshOK, Sending, InFlight
  <2>2. \A u \in Versions \ {v} : mails'[u] = mails[u]
    BY <1>5
  <2>3. \A x \in Workers : Sending(x)' => Sending(x)
    BY <1>1, <1>3 DEF Sending, InFlight
  <2> QED
    BY <1>2, <2>1, <2>2, <2>3 DEF IInv, FreshOK, FailedOK, lists, locals
<1>10. SenderOK'
  <2>1. \A x \in Workers : Natural(x)' => x # w /\ Natural(x) /\ row'[x] = row[x]
    BY <1>2, <1>3 DEF Natural, locals
  <2>2. ASSUME NEW x \in Workers, Natural(x)' PROVE mails'[row[x]] = 0
    <3>1. Natural(x) /\ x # w /\ mails[row[x]] = 0 /\ row[x] \notin disturbed
      BY <2>1, <2>2 DEF IInv, SenderOK, Natural
    <3>2. row[x] \in Versions
      BY <3>1, BoundsAssumption DEF Natural, IInv, RowOK, TypeOK, Chosen, InFlight, Minted, Versions
    <3>3. row[x] = v /\ ~force[w] => FALSE
      BY <1>1, <3>1 DEF IInv, SenderOK, Natural
    <3> QED
      BY <1>5, <3>1, <3>2, <3>3
  <2> QED
    BY <1>2, <2>1, <2>2 DEF IInv, SenderOK, locals
<1>11. OneMailPerRow'
  <2>1. SUFFICES ASSUME NEW u \in Versions, u \notin disturbed', mails'[u] # mails[u]
                 PROVE  mails'[u] =< 1
    BY <1>2 DEF IInv, OneMailPerRow
  <2>2. u = v /\ ~force[w] /\ mails'[u] =< mails[u] + 1
    BY <1>5, <2>1
  <2>3. Natural(w)
    BY <1>1, <1>2, <2>1, <2>2 DEF Natural
  <2>4. mails[u] = 0
    BY <2>2, <2>3 DEF IInv, SenderOK
  <2> QED
    BY <2>2, <2>4
<1>12. LockedMeansMailed'
  BY <1>2, <1>4 DEF IInv, LockedMeansMailed, lists, orders
<1> QED
  BY <1>7, <1>8, <1>9, <1>10, <1>11, <1>12 DEF IInv

(* Only a row whose mail is out is recorded as sent, with all its lines. *)
LEMMA SettleStep ==
  ASSUME IInv, NEW w \in Workers, Settle(w)
  PROVE  IInv'
<1> DEFINE v == row[w]
<1>1. v \in Minted /\ v \in Versions /\ pc[w] = "settle" /\ v \in mailed
  BY BoundsAssumption DEF Settle, IInv, RowOK, SettleOK, TypeOK, Chosen, InFlight, Minted, Versions
<1>2. CASE ~Holds(w)
  <2>1. Leave(w) /\ UNCHANGED <<lists, orders, world, history>>
    BY <1>2 DEF Settle, lists, orders, bucket
  <2>2. TypeOK'
    BY <2>1, LeaveStep DEF IInv, TypeOK, Minted, lists, orders, world, history
  <2>3. Rest'
    BY <2>1, LeaveStep, Moves DEF lists, orders, world, history
  <2> QED
    BY <2>2, <2>3 DEF IInv, Rest
<1>3. CASE Holds(w)
  <2>1. /\ sent_at' = sent_at \cup {v}
        /\ email_status' = [email_status EXCEPT ![v] = "sent"]
        /\ sending_acquired_at' = [sending_acquired_at EXCEPT ![v] = NoOne]
        /\ stale' = stale \ {v}
        /\ LockLines(v)
        /\ Leave(w)
        /\ UNCHANGED <<version, payload, recipient_email, order, bucket, world, history>>
    BY <1>3 DEF Settle
  <2>2. daglijst_id' \in [Lines -> 0..MaxVersions]
    BY <1>1, <2>1, BoundsAssumption DEF LockLines, IInv, TypeOK, Versions
  <2>3. TypeOK'
    <3>1. email_status' \in [Versions -> Statuses]
      BY <2>1 DEF IInv, TypeOK, Statuses
    <3>2. sending_acquired_at' \in [Versions -> Workers \cup {NoOne}]
      BY <2>1 DEF IInv, TypeOK
    <3>3. sent_at' \in SUBSET Minted
      BY <1>1, <2>1 DEF IInv, TypeOK
    <3> QED
      BY <2>1, <2>2, <3>1, <3>2, <3>3, LeaveStep DEF IInv, TypeOK, Minted, bucket, world, history
  <2>4. email_status'[v] = "sent" /\ \A u \in Versions \ {v} : email_status'[u] = email_status[u]
    BY <1>1, <2>1 DEF IInv, TypeOK
  <2>5. /\ pc'[w] \notin Chosen /\ pc'[w] \notin InFlight
        /\ \A x \in Workers \ {w} :
             pc'[x] = pc[x] /\ row'[x] = row[x] /\ force'[x] = force[x]
    BY <2>1, LeaveStep
  <2>6. RowOK' /\ SettleOK'
    BY <2>1, <2>5 DEF IInv, RowOK, SettleOK, Chosen, InFlight, Minted, world
  <2>7. FreshOK' /\ FailedOK'
    BY <2>1, <2>4, <2>5 DEF IInv, FreshOK, FailedOK, Sending, world, history
  <2>8. SenderOK'
    <3>1. \A x \in Workers : Natural(x)' => x # w /\ Natural(x) /\ row'[x] = row[x]
      BY <2>1, <2>5 DEF Natural, InFlight, history
    <3> QED
      BY <2>1, <3>1 DEF IInv, SenderOK, world
  <2>9. OneMailPerRow'
    BY <2>1 DEF IInv, OneMailPerRow, world, history
  <2>10. LockedMeansMailed'
    <3>1. \A l \in Lines :
            daglijst_id'[l] = IF l \in payload[v] /\ daglijst_id[l] = 0 THEN v ELSE daglijst_id[l]
      BY <2>1 DEF LockLines
    <3>2. v # 0
      BY <1>1, BoundsAssumption DEF Versions
    <3>3. payload[v] \subseteq Lines /\ \A u \in sent_at : payload[u] \subseteq Lines
      BY <1>1, BoundsAssumption DEF IInv, TypeOK, Minted, Versions
    <3> QED
      BY <1>1, <2>1, <3>1, <3>2, <3>3 DEF IInv, LockedMeansMailed, world
  <2> QED
    BY <2>3, <2>6, <2>7, <2>8, <2>9, <2>10 DEF IInv
<1> QED
  BY <1>2, <1>3

-----------------------------------------------------------------------------
(* Every tick, request, send, mishap and callback preserves it. *)
THEOREM NextInv == IInv /\ [Next]_vars => IInv'
<1> SUFFICES ASSUME IInv, [Next]_vars PROVE IInv'
  OBVIOUS
<1>1. CASE UNCHANGED vars
  <2>1. TypeOK'
    BY <1>1 DEF IInv, TypeOK, Minted, vars, lists, orders, world, locals, history
  <2>2. Rest'
    BY <1>1, Still DEF vars, lists, orders, world, locals, history
  <2> QED
    BY <2>1, <2>2 DEF IInv, Rest
<1>2. CASE Next
  <2>1. ASSUME NEW i \in Instances, Tick(i) PROVE IInv'
    BY <2>1, ReclaimStep, ScanStep, FindStep DEF Tick
  <2>2. ASSUME NEW w \in Workers, Work(w) \/ DispatchFails(w) \/ Die(w) PROVE IInv'
    BY <2>2, AssembleStep, RecordStep, EndStep, RenderStep, CasStep, MailStep, UndoStep, SettleStep
       DEF Work
  <2> QED
    BY <1>2, <2>1, <2>2, TimeStep, RequestStep, CallbackStep DEF Next
<1> QED
  BY <1>1, <1>2

(* The inductive invariant holds in every reachable state. *)
THEOREM Invariance == Spec => []IInv
BY InitInv, NextInv, PTL DEF Spec

(* Rows, lines and the locals of every worker keep their types. *)
THEOREM TypeCorrect == Spec => []TypeOK
<1>1. IInv => TypeOK
  BY DEF IInv
<1> QED
  BY <1>1, Invariance, PTL

(* No version of a list is mailed twice under its key while no send of it   *)
(* was reclaimed or reported as failed, for any number of instances and     *)
(* requests: the compare-and-swap of send lets one sender through.          *)
THEOREM MailedOnce == Spec => []OneMailPerRow
<1>1. IInv => OneMailPerRow
  BY DEF IInv
<1> QED
  BY <1>1, Invariance, PTL

(* Lines are locked exactly into lists that were mailed and recorded as     *)
(* sent with them, whatever was reclaimed, lost or retried.                 *)
THEOREM LockOnSend == Spec => []LockedMeansMailed
<1>1. IInv => LockedMeansMailed
  BY DEF IInv
<1> QED
  BY <1>1, Invariance, PTL

-----------------------------------------------------------------------------
(* The daily list implements ListDelivery *)

(* A worker records no empty list: it leaves when it finds no line. *)
ListedOK == \A w \in Workers : pc[w] = "record" => lines[w] # {}

LEMMA ListedStep ==
  ASSUME IInv, ListedOK, [Next]_vars
  PROVE  ListedOK'
<1>0. pc \in [Workers -> Steps] /\ lines \in [Workers -> SUBSET Lines]
  BY DEF IInv, TypeOK
<1>1. ASSUME NEW w \in Workers, pc'[w] # "record",
             \A x \in Workers \ {w} : pc'[x] = pc[x] /\ lines'[x] = lines[x]
      PROVE  ListedOK'
  BY <1>1 DEF ListedOK
<1>2. CASE UNCHANGED <<pc, lines>>
  BY <1>2 DEF ListedOK
<1>3. ASSUME NEW w \in Workers, Leave(w) PROVE ListedOK'
  BY <1>0, <1>1, <1>3 DEF Leave, Go
<1>4. ASSUME NEW w \in Workers, NEW step, step # "record", Go(w, step), UNCHANGED lines
      PROVE  ListedOK'
  BY <1>0, <1>1, <1>4 DEF Go
<1>5. ASSUME NEW i \in Instances, Tick(i) PROVE ListedOK'
  <2> i \in Workers
    BY DEF Workers
  <2> QED
    BY <1>4, <1>5 DEF Tick, ReclaimStuckSendingRows, FindDueBuckets, ProcessBucket,
                      FindUnsentRow, Enter, locals
<1>6. ASSUME NEW a \in Admins, Request(a) PROVE ListedOK'
  <2> a \in Workers
    BY DEF Workers
  <2> QED
    BY <1>4, <1>6 DEF Request, Regenerate, Resend, Enter, locals
<1>7. ASSUME NEW w \in Workers, Work(w) \/ DispatchFails(w) \/ Die(w) PROVE ListedOK'
  <2>1. CASE Assemble(w)
    <3>1. CASE {l \in Lines : order[l] = "placed"} = {}
      BY <1>3, <2>1, <3>1 DEF Assemble
    <3>2. CASE {l \in Lines : order[l] = "placed"} # {}
      BY <1>0, <2>1, <3>2 DEF Assemble, Go, ListedOK
    <3> QED
      BY <3>1, <3>2
  <2>2. CASE Record(w)
    BY <1>0, <1>1, <2>2 DEF Record, Enter, Go
  <2>3. CASE RecordFails(w) \/ Die(w) \/ Undo(w) \/ Settle(w)
    BY <1>3, <2>3 DEF RecordFails, Die, Undo, Settle
  <2>4. CASE Render(w) \/ Cas(w)
    BY <1>3, <1>4, <2>4 DEF Render, Cas, locals
  <2>5. CASE Dispatch(w) \/ DispatchFails(w)
    BY <1>4, <2>5 DEF Dispatch, DispatchFails, locals
  <2> QED
    BY <1>7, <2>1, <2>2, <2>3, <2>4, <2>5 DEF Work
<1> QED
  BY <1>2, <1>5, <1>6, <1>7
     DEF Next, PlaceOrder, CancelOrder, CutoffPasses, DateLeavesWindow, EditEmail, LeaseAges,
         Callback, vars, locals

LEMMA InitList ==
  Init => List!Init /\ ListedOK
BY DEF Init, List!Init, ListedOK, Versions

(* Every step makes a list, mails it, puts it on record, or is none of the  *)
(* vendor's business.                                                       *)
LEMMA StepDelivers ==
  ASSUME IInv, ListedOK, [Next]_vars
  PROVE  [List!Next]_(List!vars)
<1>0. version \in 0..MaxVersions /\ MaxVersions \in Nat /\ Versions = 1..MaxVersions /\ Minted = 1..version
  BY BoundsAssumption DEF IInv, TypeOK, Versions, Minted
<1>1. CASE UNCHANGED <<version, payload, mailed, sent_at, daglijst_id>>
  BY <1>1 DEF List!vars
<1>2. ASSUME NEW w \in Workers, Record(w) PROVE List!Next
  <2>1. lines[w] \in SUBSET Lines /\ lines[w] # {}
    BY <1>2 DEF Record, IInv, TypeOK, ListedOK
  <2>2. List!Make(lines[w])
    BY <1>0, <1>2, <2>1 DEF Record, List!Make, orders
  <2> QED
    BY <2>1, <2>2 DEF List!Next
<1>3. ASSUME NEW w \in Workers, Dispatch(w) \/ DispatchFails(w) PROVE [List!Next]_(List!vars)
  <2>1. row[w] \in 1..version
    BY <1>0, <1>3 DEF Dispatch, DispatchFails, IInv, RowOK, Chosen, InFlight
  <2>2. UNCHANGED <<version, payload, sent_at, daglijst_id>>
    BY <1>3 DEF Dispatch, DispatchFails, lists, orders
  <2>3. mailed' = mailed \/ mailed' = mailed \cup {row[w]}
    BY <1>3 DEF Dispatch, DispatchFails, Accept
  <2> QED
    BY <1>1, <2>1, <2>2, <2>3 DEF List!Next, List!Mail
<1>4. ASSUME NEW w \in Workers, Settle(w) PROVE [List!Next]_(List!vars)
  <2>1. CASE ~Holds(w)
    BY <1>1, <1>4, <2>1 DEF Settle, world
  <2>2. CASE Holds(w)
    <3>1. row[w] \in 1..version /\ row[w] \in mailed
      BY <1>0, <1>4 DEF Settle, IInv, RowOK, SettleOK, Chosen, InFlight
    <3>2. List!GoOnRecord(row[w])
      BY <1>4, <2>2, <3>1 DEF Settle, LockLines, List!GoOnRecord, world
    <3> QED
      BY <3>1, <3>2 DEF List!Next
  <2> QED
    BY <2>1, <2>2
<1>5. ASSUME NEW i \in Instances, Tick(i) PROVE [List!Next]_(List!vars)
  BY <1>1, <1>5 DEF Tick, ReclaimStuckSendingRows, FindDueBuckets, ProcessBucket, FindUnsentRow,
                    lists, orders, world
<1>6. ASSUME NEW a \in Admins, Request(a) PROVE [List!Next]_(List!vars)
  BY <1>1, <1>6 DEF Request, Regenerate, Resend, lists, orders, world
<1>7. ASSUME NEW w \in Workers,
             Assemble(w) \/ RecordFails(w) \/ Render(w) \/ Cas(w) \/ Undo(w) \/ Die(w)
      PROVE  [List!Next]_(List!vars)
  BY <1>1, <1>7 DEF Assemble, RecordFails, Render, Cas, Undo, Die, lists, orders, world
<1>8. CASE \/ \E l \in Lines : PlaceOrder(l) \/ CancelOrder(l)
           \/ CutoffPasses \/ DateLeavesWindow
           \/ EditEmail
           \/ \E v \in Versions : LeaseAges(v)
           \/ \E v \in Versions, event \in Events : Callback(v, event)
           \/ UNCHANGED vars
  BY <1>1, <1>8 DEF PlaceOrder, CancelOrder, CutoffPasses, DateLeavesWindow, EditEmail, LeaseAges,
                    Callback, vars, lists, orders, world
<1> QED
  BY <1>2, <1>3, <1>4, <1>5, <1>6, <1>7, <1>8 DEF Next, Work

(* For any number of instances, requests and mishaps the daily list keeps   *)
(* its promise to the vendor: lists are not empty and not rewritten, only a *)
(* mailed one goes on record, and each line stays with the first that has   *)
(* it (record, send).                                                       *)
THEOREM ListDelivered == Spec => ImplementsListDelivery
<1>1. IInv /\ ListedOK /\ [Next]_vars => ListedOK'
  BY ListedStep
<1>2. IInv /\ ListedOK /\ [Next]_vars => [List!Next]_(List!vars)
  BY StepDelivers
<1> QED
  BY <1>1, <1>2, InitList, Invariance, PTL DEF Spec, List!Spec, ImplementsListDelivery
=============================================================================
