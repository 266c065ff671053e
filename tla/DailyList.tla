----------------------------- MODULE DailyList ------------------------------
(***************************************************************************)
(* The daily list (daglijst) of one bucket: vendor, building, service and  *)
(* date.  Every instance of the API runs the scheduler: it takes back      *)
(* rows whose sender died, looks whether the bucket is due, decides under  *)
(* an advisory lock which row to send, and sends it outside the lock.      *)
(* Admins mint and send versions of their own.  A send is a compare-and-   *)
(* swap on email_status that yields a lease, a mail, and an update fenced  *)
(* by the lease.  The mail provider calls back at any time after it took   *)
(* a mail.                                                                 *)
(*                                                                         *)
(* Every SQL statement is a step; transactions that read what they locked  *)
(* are one.  Rows of vendor_daily_lists are their version numbers.  The    *)
(* lease is a time stamp that is only compared for equality, so the column *)
(* is modelled by the worker whose compare-and-swap wrote it.              *)
(***************************************************************************)
EXTENDS Integers, FiniteSets

CONSTANTS
  Instances,      \* processes that run the scheduler, one tick at a time
  Admins,         \* requests of admins: one regenerate or one send each
  Lines,          \* orders of the bucket, of one line each
  MaxVersions,    \* bound: rows that can be minted
  MaxMishaps,     \* bound: failing statements, crashes, slow mails, callbacks
                  \* and edits of the vendor's address
  NoOne           \* null in sending_acquired_at; nobody holds the lock

ASSUME BoundsAssumption ==
  MaxVersions \in Nat /\ MaxMishaps \in Nat
ASSUME WorkersAssumption ==
  Instances \cap Admins = {} /\ NoOne \notin Instances \cup Admins

Workers  == Instances \cup Admins
Versions == 1..MaxVersions

(* email_status; "queued" is written by nobody. *)
Statuses  == {"never_sent", "sending", "sent", "failed", "delivered", "bounced"}
Retriable == {"never_sent", "failed"}

(* The steps of a worker, in the order of the code.  An admin's request    *)
(* enters at "assemble" or "render" and ends in "done".                    *)
Steps == {"idle", "scan", "lock", "find", "assemble", "record", "render",
          "cas", "mail", "settle", "undo", "done"}
InFlight == {"mail", "settle", "undo"}

VARIABLES
  (* vendor_daily_lists *)
  version,              \* rows minted so far; 0 in the columns is null
  payload,              \* lines of each row, as assembled
  recipient_email,      \* rows that were minted with an address
  email_status,
  sent_at,              \* rows with a sent_at
  sending_acquired_at,  \* the lease: who acquired the row
  stale,                \* rows whose lease is older than the threshold
  (* orders, order_line_items *)
  order,                \* none, placed or cancelled
  daglijst_id,          \* the row into which a line is locked
  window,               \* of the bucket's date: ahead of the cutoff, open, over
  daglijst_email,       \* the vendor has an address
  (* the rest of the world *)
  holder,               \* the instance that holds the advisory lock
  mailed,               \* rows of which the provider took a mail
  mails,                \* how many under the key of the row: none, one, more
  (* locals of each worker *)
  pc, row, lines, force,
  exact,                \* the lease survived the driver
  (* history and bounds *)
  disturbed,            \* rows of which a send was reclaimed or reported failed
  mishaps

lists   == <<version, payload, recipient_email, email_status, sent_at,
             sending_acquired_at, stale>>
bucket  == <<window, daglijst_email>>
orders  == <<order, daglijst_id, window, daglijst_email>>
world   == <<holder, mailed, mails>>
locals  == <<row, lines, force, exact>>
history == <<disturbed, mishaps>>
vars    == <<lists, orders, world, pc, locals, history>>

Init ==
  /\ version = 0
  /\ payload = [v \in Versions |-> {}]
  /\ recipient_email = {}
  /\ email_status = [v \in Versions |-> "never_sent"]
  /\ sent_at = {}
  /\ sending_acquired_at = [v \in Versions |-> NoOne]
  /\ stale = {}
  /\ order \in [Lines -> {"none", "placed"}]
  /\ daglijst_id = [l \in Lines |-> 0]
  /\ window = "ahead"
  /\ daglijst_email \in BOOLEAN
  /\ holder = NoOne
  /\ mailed = {}
  /\ mails = [v \in Versions |-> 0]
  /\ pc = [w \in Workers |-> "idle"]
  /\ row = [w \in Workers |-> 0]
  /\ lines = [w \in Workers |-> {}]
  /\ force = [w \in Workers |-> FALSE]
  /\ exact = [w \in Workers |-> FALSE]
  /\ disturbed = {}
  /\ mishaps = 0

-----------------------------------------------------------------------------
(* Helpers *)

Minted == 1..version
Go(w, step) == pc' = [pc EXCEPT ![w] = step]

(* An instance waits for its next tick, a request is answered. *)
Leave(w) ==
  /\ Go(w, IF w \in Instances THEN "idle" ELSE "done")
  /\ row' = [row EXCEPT ![w] = 0]
  /\ lines' = [lines EXCEPT ![w] = {}]
  /\ force' = [force EXCEPT ![w] = FALSE]
  /\ exact' = [exact EXCEPT ![w] = FALSE]

Enter(w, v, f) ==
  /\ Go(w, "render")
  /\ row' = [row EXCEPT ![w] = v]
  /\ force' = [force EXCEPT ![w] = f]
  /\ UNCHANGED exact

Unlock(w) == holder' = IF holder = w THEN NoOne ELSE holder

(* Nobody has taken the row from this worker since its compare-and-swap. *)
Owns(w) ==
  /\ email_status[row[w]] = "sending"
  /\ sending_acquired_at[row[w]] = w

(* The fence of the updates after the mail: the column equals the lease    *)
(* that the compare-and-swap returned.  The driver turned that into a      *)
(* Date, which has milliseconds where the column has microseconds, so it   *)
(* equals the column only if those happened to be zero.                    *)
Holds(w) == Owns(w) /\ exact[w]

(* The sender of a row in 'sending' is still at work. *)
Attended(v) ==
  \E w \in Workers : pc[w] \in InFlight /\ row[w] = v /\ sending_acquired_at[v] = w

-----------------------------------------------------------------------------
(* Orders and time *)

PlaceOrder(l) ==
  /\ order[l] = "none"
  /\ order' = [order EXCEPT ![l] = "placed"]
  /\ UNCHANGED <<lists, daglijst_id, bucket, world, pc, locals, history>>

CancelOrder(l) ==
  /\ order[l] = "placed"
  /\ order' = [order EXCEPT ![l] = "cancelled"]
  /\ UNCHANGED <<lists, daglijst_id, bucket, world, pc, locals, history>>

(* The scheduler looks at the dates of today and tomorrow only. *)
CutoffPasses ==
  /\ window = "ahead"
  /\ window' = "open"
  /\ UNCHANGED <<lists, order, daglijst_id, daglijst_email, world, pc, locals, history>>

DateLeavesWindow ==
  /\ window = "open"
  /\ window' = "over"
  /\ UNCHANGED <<lists, order, daglijst_id, daglijst_email, world, pc, locals, history>>

(* The vendor's address is entered or removed at any time. *)
EditEmail ==
  /\ mishaps < MaxMishaps
  /\ daglijst_email' = ~daglijst_email
  /\ mishaps' = mishaps + 1
  /\ UNCHANGED <<lists, order, daglijst_id, window, world, pc, locals, disturbed>>

(* Five minutes after the compare-and-swap.  That a sender still at work   *)
(* is that slow counts as a mishap.                                         *)
LeaseAges(v) ==
  /\ email_status[v] = "sending" /\ v \notin stale
  /\ stale' = stale \cup {v}
  /\ \/ ~Attended(v) /\ UNCHANGED mishaps
     \/ Attended(v) /\ mishaps < MaxMishaps /\ mishaps' = mishaps + 1
  /\ UNCHANGED <<version, payload, recipient_email, email_status, sent_at,
                 sending_acquired_at, orders, world, pc, locals, disturbed>>

-----------------------------------------------------------------------------
(* The scheduler *)

(* Mutant: the sweep passes over rows that were sent before. *)
StuckUnsent == {v \in Versions \ sent_at : email_status[v] = "sending" /\ v \in stale}

(* tick, first statement: reclaimStuckSendingRows. *)
Stuck == {v \in Versions : email_status[v] = "sending" /\ v \in stale}

ReclaimStuckSendingRows(i) ==
  /\ pc[i] = "idle"
  /\ email_status' = [v \in Versions |-> IF v \in Stuck THEN "failed" ELSE email_status[v]]
  /\ sending_acquired_at' = [v \in Versions |-> IF v \in Stuck THEN NoOne ELSE sending_acquired_at[v]]
  /\ stale' = stale \ Stuck
  /\ disturbed' = disturbed \cup Stuck
  /\ Go(i, "scan")
  /\ UNCHANGED <<version, payload, recipient_email, sent_at, orders, world,
                 locals, mishaps>>

(* Mutant: a bucket is due until its first row is minted. *)
DueOnce == /\ window = "open" /\ daglijst_email
           /\ \E l \in Lines : order[l] = "placed" /\ daglijst_id[l] = 0
           /\ version = 0

(* findDueBuckets: past the cutoff and not out of date, the vendor has an  *)
(* address, there is a line that is not locked, and no row that was sent.  *)
Due == /\ window = "open" /\ daglijst_email
       /\ \E l \in Lines : order[l] = "placed" /\ daglijst_id[l] = 0
       /\ sent_at = {}

FindDueBuckets(i) ==
  /\ pc[i] = "scan"
  /\ Go(i, IF Due THEN "lock" ELSE "idle")
  /\ UNCHANGED <<lists, orders, world, locals, history>>

(* processBucket, first phase: the lock is tried, not awaited, and the     *)
(* sent rows are looked up again.                                          *)
ProcessBucket(i) ==
  /\ pc[i] = "lock"
  /\ IF holder = NoOne /\ sent_at = {}
     THEN holder' = i /\ Go(i, "find")
     ELSE UNCHANGED holder /\ Go(i, "idle")
  /\ UNCHANGED <<lists, orders, mailed, mails, locals, history>>

(* The newest row that may be tried again; a row in 'sending' is not.      *)
Unsent == {v \in Minted : v \notin sent_at /\ email_status[v] \in Retriable}

FindUnsentRow(i) ==
  /\ pc[i] = "find"
  /\ \/ /\ Unsent = {}
        /\ Go(i, "assemble")
        /\ UNCHANGED <<locals, holder>>
     \/ \E v \in Unsent :
          /\ \A u \in Unsent : u =< v
          /\ Unlock(i)
          /\ Enter(i, v, FALSE)
          /\ UNCHANGED lines
  /\ UNCHANGED <<lists, orders, mailed, mails, history>>

-----------------------------------------------------------------------------
(* generate, by the scheduler or by an admin *)

Regenerate(a) ==
  /\ pc[a] = "idle"
  /\ Go(a, "assemble")
  /\ UNCHANGED <<lists, orders, world, locals, history>>

(* An empty list is not recorded (ListCancelledError). *)
Assemble(w) ==
  /\ pc[w] = "assemble"
  /\ LET found == {l \in Lines : order[l] = "placed"}
     IN  IF found = {}
         THEN Unlock(w) /\ Leave(w)
         ELSE /\ lines' = [lines EXCEPT ![w] = found]
              /\ Go(w, "record")
              /\ UNCHANGED <<holder, row, force, exact>>
  /\ UNCHANGED <<lists, orders, mailed, mails, history>>

(* record locks no line: lines are locked when the list is sent.  It       *)
(* freezes the address of the vendor on the row, also when there is none.  *)
Record(w) ==
  /\ pc[w] = "record" /\ version < MaxVersions
  /\ version' = version + 1
  /\ payload' = [payload EXCEPT ![version'] = lines[w]]
  /\ recipient_email' = IF daglijst_email THEN recipient_email \cup {version'} ELSE recipient_email
  /\ Unlock(w)
  /\ Enter(w, version', FALSE)
  /\ lines' = [lines EXCEPT ![w] = {}]
  /\ UNCHANGED <<email_status, sent_at, sending_acquired_at, stale, orders,
                 mailed, mails, history>>

(* At the bound of the model the insert fails, as any statement may. *)
RecordFails(w) ==
  /\ pc[w] = "record" /\ version = MaxVersions
  /\ Unlock(w)
  /\ Leave(w)
  /\ UNCHANGED <<lists, orders, mailed, mails, history>>

-----------------------------------------------------------------------------
(* send *)

(* An admin sends a row once more, with or without force. *)
Resend(a) ==
  /\ pc[a] = "idle"
  /\ \E v \in Minted, f \in BOOLEAN : Enter(a, v, f)
  /\ UNCHANGED <<lists, orders, world, lines, history>>

(* renderAndUpload reads the row.  A row that was sent needs force, and a  *)
(* row without an address makes send throw: its status stays as it is, so  *)
(* that every tick chooses it again.                                       *)
Render(w) ==
  /\ pc[w] = "render"
  /\ IF (row[w] \in sent_at /\ ~force[w]) \/ row[w] \notin recipient_email
     THEN Leave(w)
     ELSE Go(w, "cas") /\ UNCHANGED locals
  /\ UNCHANGED <<lists, orders, world, history>>

(* Mutant: the update does not look at the status. *)
CasFromAny(w) == Statuses

CasFrom(w) == IF force[w] THEN Retriable \cup {"sent"} ELSE Retriable

(* The compare-and-swap: one worker takes the row, with a new lease. *)
Cas(w) ==
  /\ pc[w] = "cas"
  /\ IF email_status[row[w]] \in CasFrom(w)
     THEN /\ email_status' = [email_status EXCEPT ![row[w]] = "sending"]
          /\ sending_acquired_at' = [sending_acquired_at EXCEPT ![row[w]] = w]
          /\ stale' = stale \ {row[w]}
          /\ \E whole \in BOOLEAN : exact' = [exact EXCEPT ![w] = whole]
          /\ Go(w, "mail")
          /\ UNCHANGED <<row, lines, force>>
     ELSE /\ Leave(w)
          /\ UNCHANGED <<email_status, sending_acquired_at, stale>>
  /\ UNCHANGED <<version, payload, recipient_email, sent_at, orders, world, history>>

(* The provider takes a mail.  All unforced attempts have the key of the   *)
(* row, but not the same content, which holds a link signed for the        *)
(* attempt: only if no link could be signed may a second one be known.     *)
Accept(w) ==
  LET v == row[w]
  IN  /\ mailed' = mailed \cup {v}
      /\ IF force[w]
         THEN UNCHANGED mails
         ELSE \E n \in {mails[v], mails[v] + 1} \cap 1..2 :
                mails' = [mails EXCEPT ![v] = n]

Dispatch(w) ==
  /\ pc[w] = "mail"
  /\ Accept(w)
  /\ Go(w, "settle")
  /\ UNCHANGED <<lists, orders, holder, locals, history>>

(* The mailer throws: the provider refused the mail or took it and its     *)
(* answer was lost.                                                        *)
DispatchFails(w) ==
  /\ pc[w] = "mail" /\ mishaps < MaxMishaps
  /\ \/ UNCHANGED <<mailed, mails>>
     \/ Accept(w)
  /\ mishaps' = mishaps + 1
  /\ Go(w, "undo")
  /\ UNCHANGED <<lists, orders, holder, locals, disturbed>>

(* The row goes back to 'failed', unless the lease is gone. *)
Undo(w) ==
  /\ pc[w] = "undo"
  /\ IF Holds(w)
     THEN /\ email_status' = [email_status EXCEPT ![row[w]] = "failed"]
          /\ sending_acquired_at' = [sending_acquired_at EXCEPT ![row[w]] = NoOne]
          /\ stale' = stale \ {row[w]}
          /\ disturbed' = disturbed \cup {row[w]}
     ELSE UNCHANGED <<email_status, sending_acquired_at, stale, disturbed>>
  /\ Leave(w)
  /\ UNCHANGED <<version, payload, recipient_email, sent_at, orders, world,
                 mishaps>>

(* Mutant: the lines are locked into the newest row, not into the one sent. *)
LockLinesNewest(v) ==
  daglijst_id' = [l \in Lines |->
    IF l \in payload[v] /\ daglijst_id[l] = 0 THEN version ELSE daglijst_id[l]]

(* The lines a send locks: those of the list that no earlier send locked.  *)
LockLines(v) ==
  daglijst_id' = [l \in Lines |->
    IF l \in payload[v] /\ daglijst_id[l] = 0 THEN v ELSE daglijst_id[l]]

(* One transaction: the row is sent and its lines are locked into it. *)
Settle(w) ==
  /\ pc[w] = "settle"
  /\ IF Holds(w)
     THEN /\ sent_at' = sent_at \cup {row[w]}
          /\ email_status' = [email_status EXCEPT ![row[w]] = "sent"]
          /\ sending_acquired_at' = [sending_acquired_at EXCEPT ![row[w]] = NoOne]
          /\ stale' = stale \ {row[w]}
          /\ LockLines(row[w])
     ELSE UNCHANGED <<sent_at, email_status, sending_acquired_at, stale, daglijst_id>>
  /\ Leave(w)
  /\ UNCHANGED <<version, payload, recipient_email, order, bucket, world, history>>

-----------------------------------------------------------------------------
(* Mishaps and the provider *)

(* A statement fails or the process dies: the transaction at hand is       *)
(* rolled back, the advisory lock is released, the row stays as it is.     *)
Die(w) ==
  /\ pc[w] \notin {"idle", "done"} /\ mishaps < MaxMishaps
  /\ mishaps' = mishaps + 1
  /\ Unlock(w)
  /\ Leave(w)
  /\ UNCHANGED <<lists, orders, mailed, mails, disturbed>>

(* updateDailyListStatus: a callback for a mail the provider took, in any  *)
(* order and more than once.  delivered and bounced are kept.              *)
Callback(v, event) ==
  /\ mishaps < MaxMishaps
  /\ v \in mailed
  /\ mishaps' = mishaps + 1
  /\ email_status' = [email_status EXCEPT ![v] =
                        IF @ \in {"delivered", "bounced"} THEN @ ELSE event]
  /\ disturbed' = IF event = "failed" THEN disturbed \cup {v} ELSE disturbed
  /\ UNCHANGED <<version, payload, recipient_email, sent_at, sending_acquired_at,
                 stale, orders, world, pc, locals>>

Events == {"delivered", "bounced", "failed"}

-----------------------------------------------------------------------------
Tick(i) ==
  \/ ReclaimStuckSendingRows(i)
  \/ FindDueBuckets(i)
  \/ ProcessBucket(i)
  \/ FindUnsentRow(i)

Request(a) == Regenerate(a) \/ Resend(a)

Work(w) ==
  \/ Assemble(w)
  \/ Record(w)
  \/ RecordFails(w)
  \/ Render(w)
  \/ Cas(w)
  \/ Dispatch(w)
  \/ Undo(w)
  \/ Settle(w)

Next ==
  \/ \E l \in Lines : PlaceOrder(l) \/ CancelOrder(l)
  \/ CutoffPasses \/ DateLeavesWindow
  \/ EditEmail
  \/ \E v \in Versions : LeaseAges(v)
  \/ \E i \in Instances : Tick(i)
  \/ \E a \in Admins : Request(a)
  \/ \E w \in Workers : Work(w) \/ DispatchFails(w) \/ Die(w)
  \/ \E v \in Versions, event \in Events : Callback(v, event)

(* The cron of every instance keeps ticking; a tick and a request run on   *)
(* to their end; time goes on, though the date of the bucket need not      *)
(* pass.  Nothing is assumed of the arrival of orders and requests, of     *)
(* edits of the address, and of the provider's callbacks.                  *)
Fairness ==
  /\ \A i \in Instances : WF_vars(Tick(i))
  /\ \A w \in Workers : WF_vars(Work(w))
  /\ \A v \in Versions : WF_vars(LeaseAges(v))

Spec     == Init /\ [][Next]_vars
FairSpec == Spec /\ Fairness

-----------------------------------------------------------------------------
(* Properties *)

TypeOK ==
  /\ version \in 0..MaxVersions
  /\ payload \in [Versions -> SUBSET Lines]
  /\ recipient_email \in SUBSET Minted
  /\ email_status \in [Versions -> Statuses]
  /\ sent_at \in SUBSET Minted
  /\ sending_acquired_at \in [Versions -> Workers \cup {NoOne}]
  /\ stale \in SUBSET Versions
  /\ order \in [Lines -> {"none", "placed", "cancelled"}]
  /\ daglijst_id \in [Lines -> 0..MaxVersions]
  /\ window \in {"ahead", "open", "over"} /\ daglijst_email \in BOOLEAN
  /\ holder \in Instances \cup {NoOne}
  /\ mailed \in SUBSET Minted
  /\ mails \in [Versions -> 0..2]
  /\ pc \in [Workers -> Steps]
  /\ row \in [Workers -> 0..MaxVersions]
  /\ lines \in [Workers -> SUBSET Lines]
  /\ force \in [Workers -> BOOLEAN]
  /\ exact \in [Workers -> BOOLEAN]
  /\ disturbed \in SUBSET Versions
  /\ mishaps \in 0..MaxMishaps

(* Two ticks, a tick and an admin, or a tick that read the row before      *)
(* somebody sent it, never mail the same version twice, as long as no send *)
(* of it was reclaimed or reported as failed: the compare-and-swap in send *)
(* lets one of them through.  A forced resend has a key of its own.        *)
OneMailPerRow == \A v \in Versions : v \notin disturbed => mails[v] =< 1

(* Lock on send: a line is locked into a list only if that list was mailed *)
(* and recorded as sent with the line on it, and every line of a sent list *)
(* is locked, whoever lost his lease, failed or retried in between.        *)
LockedMeansMailed ==
  /\ \A l \in Lines : daglijst_id[l] # 0 =>
       /\ daglijst_id[l] \in sent_at
       /\ l \in payload[daglijst_id[l]]
  /\ \A v \in sent_at :
       /\ v \in mailed
       /\ \A l \in payload[v] : daglijst_id[l] # 0

(* All of this together is the promise of ListDelivery: whatever           *)
(* instances and admins do at the same time, whoever dies or loses his     *)
(* lease, no list is empty or rewritten, none is on record without having  *)
(* been mailed, and a line belongs for good to the first list on record    *)
(* that has it.                                                            *)
List == INSTANCE ListDelivery WITH sent <- sent_at, takenBy <- daglijst_id

ImplementsListDelivery == List!Spec

(* The newest row has no address: it is chosen and refused by every tick,  *)
(* until an admin mints another.                                           *)
Addressless == version # 0 /\ version \notin recipient_email

(* A bucket past its cutoff with a line to deliver is mailed in the end,   *)
(* although senders die, mails fail and leases are lost: or else its date  *)
(* passes first, after which nothing retries, the vendor loses its         *)
(* address, or the newest row was minted while it had none                 *)
(* (findDueBuckets, findUnsentRowForBucket, send).                         *)
DueIsMailed ==
  Due ~> \/ mailed # {}
         \/ \A l \in Lines : order[l] # "placed"
         \/ window = "over" \/ ~daglijst_email \/ Addressless

(* No row stays in 'sending' for good: its sender settles it, or the first *)
(* tick after the threshold takes it back.                                 *)
StuckIsFreed ==
  \A v \in Versions : email_status[v] = "sending" ~> email_status[v] # "sending"

(* The update after the mail matches no row only if "sweeper or another    *)
(* worker has moved on" (00177): a sender that still owns its row records  *)
(* that it was sent.  The token is "just sending_acquired_at itself - set  *)
(* on every CAS, returned, and used as the fence" (00177).                 *)
FenceIsLease ==
  [][\A w \in Workers :
       pc[w] = "settle" /\ pc'[w] # "settle" /\ Owns(w) /\ mishaps' = mishaps
         => row[w] \in sent_at']_vars
=============================================================================
