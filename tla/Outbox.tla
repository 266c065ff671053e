------------------------------- MODULE Outbox -------------------------------
(***************************************************************************)
(* The transactional outbox: the table outbox.events, its producer entry   *)
(* outbox.emit (00299), and OutboxWorker (outbox.worker.ts), whose         *)
(* instances claim batches of rows, run one handler per row and settle     *)
(* each row under the claim token of the pass that claimed it.             *)
(*                                                                         *)
(* A key stands for a (tenant_id, idempotency_key) pair, which the table   *)
(* keeps unique, so rows are indexed by it.  Timestamps are reduced to     *)
(* what the SQL compares them with: claimed_at against the lease           *)
(* (staleClaimMs), available_at against now(), processed_at against the    *)
(* retention (purgeAfterDays).                                             *)
(***************************************************************************)
EXTENDS Naturals, FiniteSets

CONSTANTS Keys,        \* (tenant_id, idempotency_key) pairs
          Workers,     \* running instances of OutboxWorker
          Tokens,      \* claim tokens
          BatchSize,   \* OUTBOX_BATCH_SIZE
          MaxAttempts, \* OUTBOX_MAX_ATTEMPTS
          MaxMishaps,  \* bound: crashes, overrun leases and failed writes
          NoToken, NoKey

ASSUME MaxAttemptsAssumption == MaxAttempts \in Nat \ {0}
ASSUME MaxMishapsAssumption  == MaxMishaps \in Nat
ASSUME NoTokenAssumption     == NoToken \notin Tokens
ASSUME NoKeyAssumption       == NoKey \notin Keys

VARIABLES
  events,   \* keys that have a row in outbox.events; its columns:
  claim_token, claimed_at, available_at, processed_at, dead_lettered_at, attempts,
  dlq,      \* outbox.events_dead_letter, by key
  pc,       \* where each worker's drain() is
  token,    \* claimToken of its current pass
  batch,    \* claimed rows of the pass not dispatched yet
  cur,      \* the row being dispatched
  snap,     \* event.attempts as the claim returned it
  reason,   \* DeadLetterReason of the deadLetter() call under way
  copied,   \* attempts that its open transaction copied, 0 if no row matched
  mishaps,  \* infrastructure failures so far
  handled,  \* history: rows whose handler returned to the claim's holder
  overran   \* history: rows whose lease ended while a worker had them

columns    == <<claim_token, claimed_at, available_at, processed_at,
                dead_lettered_at, attempts>>
rowVars    == <<events, columns, dlq>>
workerVars == <<pc, token, batch, cur, snap, reason, copied>>
history    == <<mishaps, handled, overran>>
vars       == <<rowVars, workerVars, history>>

Reasons == {"max_attempts", "dead_letter_error", "no_handler_registered",
            "tenant_not_found"}

Letter   == [attempts : 0..MaxAttempts, reason : Reasons]
NoLetter == [attempts |-> 0, reason |-> "none"]

NoSnap == [k \in Keys |-> 0]

PCs == {"idle", "dispatch", "handle", "success", "retry", "copy", "flag"}

Processed(k) == processed_at[k] # "null"
Dead(k)      == dead_lettered_at[k] # "null"
Settled(k)   == Processed(k) \/ Dead(k)

(* Mutant: settling statements select by id alone. *)
HoldsById(w, k) == token[w] # NoToken /\ k \in events

(* The row of k still carries the token of w's pass: the WHERE clause      *)
(* "id = $1 and claim_token = $2" of every settling statement.             *)
Holds(w, k) == token[w] # NoToken /\ claim_token[k] = token[w]

(* Mutant: claimed rows are not excluded. *)
ClaimableTwice == {k \in events : /\ ~Settled(k)
                                  /\ available_at[k] = "past"
                                  /\ attempts[k] < MaxAttempts}

(* The rows that the claim's inner SELECT admits. *)
Claimable == {k \in events : /\ ~Settled(k)
                             /\ claim_token[k] = NoToken
                             /\ available_at[k] = "past"
                             /\ attempts[k] < MaxAttempts}

(* randomUUID(): a token that nobody has.  A token found nowhere any more  *)
(* cannot be told from a new one, so the pool may be finite.               *)
UnusedTokens == Tokens \ ({token[w] : w \in Workers}
                            \cup {claim_token[k] : k \in Keys})

(* The live worker that will still dispatch or settle k under its claim. *)
InCare(k) == \E w \in Workers : Holds(w, k) /\ (k \in batch[w] \/ k = cur[w])

Init ==
  /\ events = {}
  /\ claim_token = [k \in Keys |-> NoToken]
  /\ claimed_at = [k \in Keys |-> "null"]
  /\ available_at = [k \in Keys |-> "past"]
  /\ processed_at = [k \in Keys |-> "null"]
  /\ dead_lettered_at = [k \in Keys |-> "null"]
  /\ attempts = [k \in Keys |-> 0]
  /\ dlq = [k \in Keys |-> NoLetter]
  /\ pc = [w \in Workers |-> "idle"]
  /\ token = [w \in Workers |-> NoToken]
  /\ batch = [w \in Workers |-> {}]
  /\ cur = [w \in Workers |-> NoKey]
  /\ snap = [w \in Workers |-> NoSnap]
  /\ reason = [w \in Workers |-> "none"]
  /\ copied = [w \in Workers |-> 0]
  /\ mishaps = 0
  /\ handled = {}
  /\ overran = {}

-----------------------------------------------------------------------------
(* Producers *)

(* outbox.emit inside a business transaction: ON CONFLICT keeps an existing *)
(* row, and a differing payload raises, so only a new key changes state.    *)
(* The columns of a key without a row have the defaults of the table.       *)
Emit(k) ==
  /\ k \notin events
  /\ events' = events \cup {k}
  /\ UNCHANGED <<columns, dlq, workerVars, history>>

-----------------------------------------------------------------------------
(* One drain pass of a worker *)

(* The claim of the rows b under the token t, atomic in one statement. *)
ClaimWith(w, t, b) ==
  /\ claim_token' = [k \in Keys |-> IF k \in b THEN t ELSE claim_token[k]]
  /\ claimed_at' = [k \in Keys |-> IF k \in b THEN "fresh" ELSE claimed_at[k]]
  /\ token' = [token EXCEPT ![w] = t]
  /\ batch' = [batch EXCEPT ![w] = b]
  /\ snap' = [snap EXCEPT ![w] = [k \in Keys |-> IF k \in b THEN attempts[k]
                                                  ELSE 0]]

(* drainOnce: SKIP LOCKED may leave out rows that other statements have     *)
(* locked, so any non-empty part of the claimable rows may be claimed.      *)
Claim(w) ==
  /\ pc[w] = "idle"
  /\ \E t \in UnusedTokens, b \in SUBSET Claimable :
       b # {} /\ Cardinality(b) <= BatchSize /\ ClaimWith(w, t, b)
  /\ pc' = [pc EXCEPT ![w] = "dispatch"]
  /\ UNCHANGED <<events, available_at, processed_at, dead_lettered_at, attempts,
                 dlq, cur, reason, copied, history>>

(* The loop of drainOnce goes on with the rows in rest, or ends the pass. *)
Advance(w, rest) ==
  /\ batch' = [batch EXCEPT ![w] = rest]
  /\ pc' = [pc EXCEPT ![w] = IF rest = {} THEN "idle" ELSE "dispatch"]
  /\ token' = [token EXCEPT ![w] = IF rest = {} THEN NoToken ELSE @]
  /\ snap' = [snap EXCEPT ![w] = IF rest = {} THEN NoSnap ELSE @]
  /\ cur' = [cur EXCEPT ![w] = NoKey]
  /\ reason' = [reason EXCEPT ![w] = "none"]
  /\ copied' = [copied EXCEPT ![w] = 0]

(* deadLetter is called; its two statements are the steps below. *)
GoDeadLetter(w, why) ==
  /\ pc' = [pc EXCEPT ![w] = "copy"]
  /\ reason' = [reason EXCEPT ![w] = why]

(* Mutant: an event without a handler is skipped as if handled. *)
NoHandlerSkips(w) == /\ pc' = [pc EXCEPT ![w] = "success"]
                     /\ UNCHANGED reason

(* dispatchOne: registry.get() finds no handler. *)
NoHandler(w) == GoDeadLetter(w, "no_handler_registered")

(* dispatchOne up to the handler call, for the next row of the batch. *)
Dispatch(w, k) ==
  /\ pc[w] = "dispatch" /\ k \in batch[w]
  /\ cur' = [cur EXCEPT ![w] = k]
  /\ batch' = [batch EXCEPT ![w] = @ \ {k}]
  /\ \/ /\ pc' = [pc EXCEPT ![w] = "handle"]
        /\ UNCHANGED reason
     \/ NoHandler(w)
     \/ GoDeadLetter(w, "tenant_not_found")
  /\ UNCHANGED <<rowVars, token, snap, copied, history>>

(* handler.handle(event) returns. *)
HandlerReturns(w) ==
  /\ pc[w] = "handle"
  /\ pc' = [pc EXCEPT ![w] = "success"]
  /\ handled' = IF Holds(w, cur[w]) THEN handled \cup {cur[w]} ELSE handled
  /\ UNCHANGED <<rowVars, token, batch, cur, snap, reason, copied,
                 mishaps, overran>>

(* Mutants: the limit is compared one too late, or one too early. *)
CaughtLate(w) ==
  IF snap[w][cur[w]] >= MaxAttempts
  THEN GoDeadLetter(w, "max_attempts")
  ELSE /\ pc' = [pc EXCEPT ![w] = "retry"]
       /\ UNCHANGED reason
CaughtEarly(w) ==
  IF snap[w][cur[w]] + 2 >= MaxAttempts
  THEN GoDeadLetter(w, "max_attempts")
  ELSE /\ pc' = [pc EXCEPT ![w] = "retry"]
       /\ UNCHANGED reason

(* The catch branch for an error that is not a DeadLetterError. *)
Caught(w) ==
  IF snap[w][cur[w]] + 1 >= MaxAttempts
  THEN GoDeadLetter(w, "max_attempts")
  ELSE /\ pc' = [pc EXCEPT ![w] = "retry"]
       /\ UNCHANGED reason

(* handler.handle(event) throws. *)
HandlerThrows(w) ==
  /\ pc[w] = "handle"
  /\ \/ Caught(w)
     \/ GoDeadLetter(w, "dead_letter_error")
  /\ UNCHANGED <<rowVars, token, batch, cur, snap, copied, history>>

(* markSuccess: claimed_at keeps its value. *)
MarkSuccess(w) ==
  /\ pc[w] = "success"
  /\ IF Holds(w, cur[w])
     THEN /\ processed_at' = [processed_at EXCEPT ![cur[w]] = "recent"]
          /\ claim_token' = [claim_token EXCEPT ![cur[w]] = NoToken]
          /\ attempts' = [attempts EXCEPT ![cur[w]] = @ + 1]
          /\ UNCHANGED <<claimed_at, available_at, dead_lettered_at>>
     ELSE UNCHANGED columns
  /\ Advance(w, batch[w])
  /\ UNCHANGED <<events, dlq, history>>

(* markRetry: attempts is overwritten with the claimed value plus one. *)
MarkRetry(w) ==
  /\ pc[w] = "retry"
  /\ IF Holds(w, cur[w])
     THEN /\ claim_token' = [claim_token EXCEPT ![cur[w]] = NoToken]
          /\ attempts' = [attempts EXCEPT ![cur[w]] = snap[w][cur[w]] + 1]
          /\ available_at' = [available_at EXCEPT ![cur[w]] = "future"]
          /\ UNCHANGED <<claimed_at, processed_at, dead_lettered_at>>
     ELSE UNCHANGED columns
  /\ Advance(w, batch[w])
  /\ UNCHANGED <<events, dlq, history>>

(* Mutant: only exhausted events are archived. *)
CopiesExhaustedOnly(w) == IF Holds(w, cur[w]) /\ reason[w] = "max_attempts"
                          THEN attempts[cur[w]] + 1 ELSE 0

(* The attempts column of the row that INSERT ... SELECT copies, if any. *)
CopiedAttempts(w) == IF Holds(w, cur[w]) THEN attempts[cur[w]] + 1 ELSE 0

(* deadLetter, first statement: INSERT ... SELECT of the row, if the token  *)
(* still matches.  It takes no lock on the source row, and its own row is   *)
(* visible to others only at commit.                                        *)
DeadLetterCopy(w) ==
  /\ pc[w] = "copy"
  /\ copied' = [copied EXCEPT ![w] = CopiedAttempts(w)]
  /\ pc' = [pc EXCEPT ![w] = "flag"]
  /\ UNCHANGED <<rowVars, token, batch, cur, snap, reason, history>>

(* ON CONFLICT DO NOTHING: an archive row that is there already stays. *)
Archived(w, k) == IF dlq[k] = NoLetter
                  THEN [attempts |-> copied[w], reason |-> reason[w]]
                  ELSE dlq[k]

(* deadLetter, second statement and commit: flag the row if the token still *)
(* matches (READ COMMITTED sees what others committed since the copy); the  *)
(* copied row appears.                                                      *)
DeadLetterFlag(w) ==
  /\ pc[w] = "flag"
  /\ IF Holds(w, cur[w])
     THEN /\ claim_token' = [claim_token EXCEPT ![cur[w]] = NoToken]
          /\ attempts' = [attempts EXCEPT ![cur[w]] = @ + 1]
          /\ dead_lettered_at' = [dead_lettered_at EXCEPT ![cur[w]] = "set"]
          /\ UNCHANGED <<claimed_at, available_at, processed_at>>
     ELSE UNCHANGED columns
  /\ dlq' = IF copied[w] > 0
            THEN [dlq EXCEPT ![cur[w]] = Archived(w, cur[w])]
            ELSE dlq
  /\ Advance(w, batch[w])
  /\ UNCHANGED <<events, history>>

-----------------------------------------------------------------------------
(* Failures.  Each one counts as a mishap. *)

Mishap == mishaps < MaxMishaps /\ mishaps' = mishaps + 1

(* markSuccess throws inside the try block: the catch branch treats the     *)
(* handler as failed.                                                       *)
MarkSuccessThrows(w) ==
  /\ pc[w] = "success"
  /\ Mishap
  /\ Caught(w)
  /\ UNCHANGED <<rowVars, token, batch, cur, snap, copied, handled, overran>>

(* loadTenant throws: dispatchOne propagates and the row stays claimed. *)
LoadTenantThrows(w, k) ==
  /\ pc[w] = "dispatch" /\ k \in batch[w]
  /\ Mishap
  /\ Advance(w, batch[w] \ {k})
  /\ UNCHANGED <<rowVars, handled, overran>>

(* markRetry or deadLetter throws (its transaction rolls back): the row     *)
(* stays claimed.                                                           *)
SettleThrows(w) ==
  /\ pc[w] \in {"retry", "copy", "flag"}
  /\ Mishap
  /\ Advance(w, batch[w])
  /\ UNCHANGED <<rowVars, handled, overran>>

(* The process dies and restarts; its claims stay on their rows. *)
Crash(w) ==
  /\ pc[w] # "idle"
  /\ Mishap
  /\ Advance(w, {})
  /\ UNCHANGED <<rowVars, handled, overran>>

-----------------------------------------------------------------------------
(* Time and the other crons *)

(* staleClaimMs passes since the claim.  While a live worker has the row    *)
(* this is an overrun; it is not reported to that worker.                   *)
LeaseExpires(k) ==
  /\ k \in events /\ ~Settled(k) /\ claimed_at[k] = "fresh"
  /\ IF InCare(k) THEN Mishap /\ overran' = overran \cup {k}
                  ELSE UNCHANGED <<mishaps, overran>>
  /\ claimed_at' = [claimed_at EXCEPT ![k] = "stale"]
  /\ UNCHANGED <<events, claim_token, available_at, processed_at,
                 dead_lettered_at, attempts, dlq, workerVars, handled>>

(* The delay of backoffForAttempt passes. *)
BackoffElapses(k) ==
  /\ k \in events /\ ~Settled(k) /\ available_at[k] = "future"
  /\ available_at' = [available_at EXCEPT ![k] = "past"]
  /\ UNCHANGED <<events, claim_token, claimed_at, processed_at,
                 dead_lettered_at, attempts, dlq, workerVars, history>>

(* purgeAfterDays pass since the row was processed. *)
RetentionElapses(k) ==
  /\ k \in events /\ processed_at[k] = "recent"
  /\ processed_at' = [processed_at EXCEPT ![k] = "old"]
  /\ UNCHANGED <<events, claim_token, claimed_at, available_at,
                 dead_lettered_at, attempts, dlq, workerVars, history>>

(* Mutant: the sweep does not look at the age of a claim. *)
AnyClaims == {k \in events : ~Settled(k) /\ claimed_at[k] # "null"}

StaleClaims == {k \in events : ~Settled(k) /\ claimed_at[k] = "stale"}

(* sweepStaleClaims: attempts is not incremented. *)
SweepStaleClaims ==
  /\ StaleClaims # {}
  /\ claim_token' = [k \in Keys |-> IF k \in StaleClaims
                                    THEN NoToken ELSE claim_token[k]]
  /\ claimed_at' = [k \in Keys |-> IF k \in StaleClaims
                                   THEN "null" ELSE claimed_at[k]]
  /\ UNCHANGED <<events, available_at, processed_at, dead_lettered_at,
                 attempts, dlq, workerVars, history>>

(* purgeProcessed: the key is forgotten and may be emitted anew. *)
Purgeable == {k \in events : processed_at[k] = "old"}

PurgeProcessed ==
  /\ Purgeable # {}
  /\ events' = events \ Purgeable
  /\ processed_at' = [k \in Keys |-> IF k \in Purgeable
                                     THEN "null" ELSE processed_at[k]]
  /\ claimed_at' = [k \in Keys |-> IF k \in Purgeable
                                   THEN "null" ELSE claimed_at[k]]
  /\ attempts' = [k \in Keys |-> IF k \in Purgeable THEN 0 ELSE attempts[k]]
  /\ handled' = handled \ Purgeable
  /\ UNCHANGED <<claim_token, available_at, dead_lettered_at, dlq, workerVars,
                 mishaps, overran>>

-----------------------------------------------------------------------------
WorkerStep(w) ==
  \/ \E k \in Keys : Dispatch(w, k)
  \/ HandlerReturns(w)
  \/ HandlerThrows(w)
  \/ MarkSuccess(w)
  \/ MarkRetry(w)
  \/ DeadLetterCopy(w)
  \/ DeadLetterFlag(w)

WorkerFailure(w) ==
  \/ MarkSuccessThrows(w)
  \/ \E k \in Keys : LoadTenantThrows(w, k)
  \/ SettleThrows(w)
  \/ Crash(w)

Next ==
  \/ \E k \in Keys : \/ Emit(k)
                     \/ LeaseExpires(k)
                     \/ BackoffElapses(k)
                     \/ RetentionElapses(k)
  \/ \E w \in Workers : Claim(w) \/ WorkerStep(w) \/ WorkerFailure(w)
  \/ SweepStaleClaims
  \/ PurgeProcessed

Spec == Init /\ [][Next]_vars

(* A claim that takes the row of k.  Strong fairness: the claim orders by   *)
(* available_at, so a row that keeps waiting becomes the oldest, and the    *)
(* drain cron of every live instance fires every 30 seconds.                *)
ClaimsRow(k) == \E w \in Workers : Claim(w) /\ k \in batch'[w]

Fairness ==
  /\ \A w \in Workers : WF_vars(WorkerStep(w))
  /\ \A k \in Keys : /\ SF_vars(ClaimsRow(k))
                     /\ WF_vars(LeaseExpires(k) /\ ~InCare(k))
                     /\ WF_vars(BackoffElapses(k))
  /\ WF_vars(SweepStaleClaims)

FairSpec == Spec /\ Fairness

-----------------------------------------------------------------------------
(* What the outbox promises its producers, as the module EventDelivery says *)
(* it: the columns of a row reduced to its status.                          *)
Status(k) == IF k \notin events THEN "none"
             ELSE IF Dead(k)      THEN "dead"
             ELSE IF Processed(k) THEN "processed"
             ELSE "pending"

Delivery == INSTANCE EventDelivery
              WITH status <- [k \in Keys |-> Status(k)], delivered <- handled

-----------------------------------------------------------------------------
(* Properties *)

(* The outbox implements EventDelivery: a row is accepted once, handled,    *)
(* acknowledged or buried for good, and forgotten only after it was         *)
(* processed, although claims, leases, sweeps and two-statement settlements *)
(* interleave.                                                              *)
ImplementsDelivery == Delivery!Spec

(* Every variable has its type: the columns of the two tables (00299) and   *)
(* the locals of drainOnce and dispatchOne.                                 *)
TypeOK ==
  /\ events \in SUBSET Keys
  /\ claim_token \in [Keys -> Tokens \cup {NoToken}]
  /\ claimed_at \in [Keys -> {"null", "fresh", "stale"}]
  /\ available_at \in [Keys -> {"past", "future"}]
  /\ processed_at \in [Keys -> {"null", "recent", "old"}]
  /\ dead_lettered_at \in [Keys -> {"null", "set"}]
  /\ attempts \in [Keys -> 0..MaxAttempts]
  /\ dlq \in [Keys -> Letter \cup {NoLetter}]
  /\ pc \in [Workers -> PCs]
  /\ token \in [Workers -> Tokens \cup {NoToken}]
  /\ batch \in [Workers -> SUBSET Keys]
  /\ cur \in [Workers -> Keys \cup {NoKey}]
  /\ snap \in [Workers -> [Keys -> 0..MaxAttempts]]
  /\ reason \in [Workers -> Reasons \cup {"none"}]
  /\ copied \in [Workers -> 0..MaxAttempts]
  /\ mishaps \in 0..MaxMishaps
  /\ handled \in SUBSET Keys
  /\ overran \in SUBSET Keys

(* A row never ends both processed and dead-lettered, although a second     *)
(* worker may run the same event after a sweep: markSuccess and deadLetter  *)
(* of the two passes race, and only the token's holder settles.             *)
SettledOneWay == \A k \in Keys : ~(Processed(k) /\ Dead(k))

(* At-least-once: a row is marked processed only after a handler run for    *)
(* this very row has returned, whoever ran it and whoever marked it.        *)
ProcessedWasHandled == \A k \in Keys : Processed(k) => k \in handled

(* A dead-lettered row is in the archive: deadLetter never flags a row that *)
(* it did not copy, so no event disappears from both drain and archive.     *)
BuriedIsArchived == \A k \in Keys : Dead(k) => dlq[k] # NoLetter

(* An archive row with reason max_attempts records MaxAttempts attempts:    *)
(* the decision uses the attempts of the claim, the copy reads the row, and *)
(* the two agree because nobody else can have moved the counter.            *)
ExhaustedMeansTried ==
  \A k \in Keys : dlq[k].reason = "max_attempts" => dlq[k].attempts = MaxAttempts

(* An archived event is over, unless its lease has run out under a worker:  *)
(* only then can the copy of deadLetter commit although its flag finds      *)
(* another token, so that the event stays live beside its archive row.      *)
ArchivedIsOver ==
  \A k \in Keys : dlq[k] # NoLetter => Dead(k) \/ k \in overran

(* No row is stranded: while it is unsettled it has attempts left, and a    *)
(* claim on it carries the claimed_at by which sweepStaleClaims finds it,   *)
(* so either a claim or the sweep can take it further.                      *)
NeverStranded ==
  \A k \in events : ~Settled(k) =>
    /\ attempts[k] < MaxAttempts
    /\ claim_token[k] = NoToken \/ claimed_at[k] # "null"

(* Two workers run the handler of one event at the same time only if the    *)
(* lease of that event has run out under one of them.                       *)
NoOverlapWithinLease ==
  \A v, w \in Workers :
    (v # w /\ pc[v] = "handle" /\ pc[w] = "handle" /\ cur[v] = cur[w])
      => cur[v] \in overran

(* markRetry overwrites attempts with a value read at the claim; yet no     *)
(* step of any worker lowers the counter of a row that stays in the table,  *)
(* so a failing event cannot be retried for ever.                           *)
AttemptsNeverDrop ==
  [][\A k \in events \cap events' : attempts'[k] >= attempts[k]]_vars

(* Once settled, a row is final: no late worker, sweep or backoff makes it  *)
(* claimable again or counts another attempt; it can only age and be purged.*)
SettledIsFinal ==
  [][\A k \in events \cap events' :
       Settled(k) =>
         /\ claim_token'[k] = NoToken
         /\ attempts'[k] = attempts[k]
         /\ dead_lettered_at'[k] = dead_lettered_at[k]
         /\ processed_at'[k] # processed_at[k]
              => processed_at[k] = "recent" /\ processed_at'[k] = "old"]_vars

(* The archive is write-once: ON CONFLICT DO NOTHING keeps the first copy,  *)
(* even when a swept row is dead-lettered a second time.                    *)
ArchiveIsWriteOnce ==
  [][\A k \in Keys : dlq[k] # NoLetter => dlq'[k] = dlq[k]]_vars

(* Every emitted event is eventually processed or dead-lettered, whatever   *)
(* handlers do, once infrastructure failures cease.                         *)
EventuallySettled == \A k \in Keys : (k \in events) ~> Settled(k)
=============================================================================
