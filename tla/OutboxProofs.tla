---------------------------- MODULE OutboxProofs ----------------------------
(***************************************************************************)
(* Safety of the outbox for every number of keys, workers, tokens and      *)
(* attempts: the type invariant, the settlement invariants, the action     *)
(* properties and the refinement of EventDelivery.                         *)
(*                                                                         *)
(* None of the invariants is inductive alone.  What carries them is that a *)
(* row's token is on at most one live pass (TokensDiffer), and that while  *)
(* it is, the attempts that pass remembers are the row's (ClaimOK).        *)
(***************************************************************************)
EXTENDS Outbox, TLAPS

Busy == {"handle", "success", "retry", "copy", "flag"}

(* What holds of every row, whoever works on it. *)
RowOK(k) ==
  /\ k \notin events => (claim_token[k] = NoToken /\ ~Settled(k))
  /\ claim_token[k] # NoToken => ~Settled(k)
  /\ ~Settled(k) => attempts[k] < MaxAttempts
  /\ ~(Processed(k) /\ Dead(k))
  /\ Processed(k) => k \in handled
  /\ Dead(k) => dlq[k] # NoLetter
  /\ dlq[k].reason = "max_attempts" => dlq[k].attempts = MaxAttempts
  /\ dlq[k] # NoLetter => (Dead(k) \/ k \in overran)
  /\ claim_token[k] # NoToken => claimed_at[k] # "null"

(* What holds of the local state of every worker. *)
WorkerOK(w) ==
  /\ pc[w] = "idle" <=> token[w] = NoToken
  /\ pc[w] \in Busy <=> cur[w] \in Keys
  /\ cur[w] \notin batch[w]
  /\ pc[w] = "retry" => snap[w][cur[w]] + 1 < MaxAttempts
  /\ pc[w] \in {"copy", "flag"} => reason[w] \in Reasons
  /\ (pc[w] \in {"copy", "flag"} /\ reason[w] = "max_attempts")
       => snap[w][cur[w]] + 1 >= MaxAttempts
  /\ (pc[w] = "flag" /\ reason[w] = "max_attempts" /\ copied[w] > 0)
       => copied[w] = MaxAttempts

(* The worker w has k in its pass. *)
Has(w, k) == pc[w] # "idle" /\ (k \in batch[w] \/ k = cur[w])

(* What a worker knows of a row that still carries its token. *)
ClaimOK(w, k) ==
  (Holds(w, k) /\ Has(w, k)) =>
     /\ snap[w][k] = attempts[k]
     /\ (pc[w] = "success" /\ k = cur[w]) => k \in handled
     /\ (pc[w] = "flag" /\ k = cur[w]) => copied[w] = attempts[k] + 1
     /\ claimed_at[k] = "stale" => k \in overran

(* A worker loses a claim only through an overrun lease. *)
LeaseOK(w, k) == Has(w, k) => (Holds(w, k) \/ k \in overran)

TokensDiffer == \A v, w \in Workers :
                  (v # w /\ token[v] = token[w]) => token[v] = NoToken

IInv ==
  /\ TypeOK
  /\ \A k \in Keys : RowOK(k)
  /\ \A w \in Workers : WorkerOK(w)
  /\ \A w \in Workers, k \in Keys : ClaimOK(w, k) /\ LeaseOK(w, k)
  /\ TokensDiffer

USE MaxAttemptsAssumption, MaxMishapsAssumption, NoTokenAssumption, NoKeyAssumption

(* A new row is unclaimed and unsettled. *)
LEMMA EmitInv ==
  ASSUME IInv, NEW k \in Keys, Emit(k)
  PROVE  IInv'
<1> USE DEF IInv, Emit, rowVars, columns, workerVars, history
<1>1. TypeOK'
  BY DEF TypeOK
<1>2. ASSUME NEW l \in Keys PROVE RowOK(l)'
  BY DEF RowOK, Settled, Processed, Dead
<1>3. ASSUME NEW v \in Workers PROVE WorkerOK(v)'
  BY DEF WorkerOK
<1>4. ASSUME NEW v \in Workers, NEW l \in Keys PROVE ClaimOK(v, l)' /\ LeaseOK(v, l)'
  BY DEF ClaimOK, LeaseOK, Has, Holds
<1>5. TokensDiffer'
  BY DEF TokensDiffer, TypeOK
<1>6. QED
  BY <1>1, <1>2, <1>3, <1>4, <1>5

(* A fresh token is on no other pass, and the pass remembers the attempts. *)
LEMMA ClaimInv ==
  ASSUME IInv, NEW w \in Workers, Claim(w)
  PROVE  IInv'
<1> USE DEF IInv, Claim, ClaimWith, Claimable, UnusedTokens, rowVars, columns,
        workerVars, history
<1>1. TypeOK'
  BY DEF TypeOK, PCs
<1>2. ASSUME NEW l \in Keys PROVE RowOK(l)'
  BY DEF RowOK, Settled, Processed, Dead
<1>3. ASSUME NEW v \in Workers PROVE WorkerOK(v)'
  BY DEF TypeOK, WorkerOK, Busy
<1>4. ASSUME NEW v \in Workers, NEW l \in Keys PROVE ClaimOK(v, l)' /\ LeaseOK(v, l)'
  <2>0. cur[w] \notin Keys
    BY DEF WorkerOK, Busy
  <2>1. PICK t \in UnusedTokens, b \in SUBSET Claimable : ClaimWith(w, t, b)
    BY DEF ClaimWith
  <2>2. CASE v = w
    BY <2>0, <2>1, <2>2 DEF TypeOK, ClaimOK, LeaseOK, Has, Holds
  <2>3. CASE v # w
    BY <2>3 DEF ClaimOK, LeaseOK, Has, Holds
  <2>4. QED
    BY <2>2, <2>3
<1>5. TokensDiffer'
  BY DEF TokensDiffer, TypeOK
<1>6. QED
  BY <1>1, <1>2, <1>3, <1>4, <1>5

(* The dispatched row moves from the batch to cur. *)
LEMMA DispatchInv ==
  ASSUME IInv, NEW w \in Workers, NEW k \in Keys, Dispatch(w, k)
  PROVE  IInv'
<1> USE DEF IInv, Dispatch, GoDeadLetter, NoHandler, rowVars, columns, workerVars,
        history
<1>1. TypeOK'
  <2>1. pc' \in [Workers -> PCs] /\ reason' \in [Workers -> Reasons \cup {"none"}]
    BY DEF TypeOK, PCs, Reasons
  <2>2. QED
    BY <2>1 DEF TypeOK
<1>2. ASSUME NEW l \in Keys PROVE RowOK(l)'
  BY DEF RowOK, Settled, Processed, Dead
<1>3. ASSUME NEW v \in Workers PROVE WorkerOK(v)'
  BY DEF TypeOK, Reasons, WorkerOK, Busy
<1>4. ASSUME NEW v \in Workers, NEW l \in Keys PROVE ClaimOK(v, l)' /\ LeaseOK(v, l)'
  BY DEF TypeOK, ClaimOK, LeaseOK, Has, Holds
<1>5. TokensDiffer'
  BY DEF TokensDiffer, TypeOK
<1>6. QED
  BY <1>1, <1>2, <1>3, <1>4, <1>5

(* A handler that returns to the claim's holder makes its row handled. *)
LEMMA HandlerReturnsInv ==
  ASSUME IInv, NEW w \in Workers, HandlerReturns(w)
  PROVE  IInv'
<1> USE DEF IInv, HandlerReturns, rowVars, columns, workerVars, history
<1>1. TypeOK'
  BY DEF TypeOK, PCs, WorkerOK, Busy
<1>2. ASSUME NEW l \in Keys PROVE RowOK(l)'
  BY DEF RowOK, Settled, Processed, Dead
<1>3. ASSUME NEW v \in Workers PROVE WorkerOK(v)'
  BY DEF WorkerOK, Busy
<1>4. ASSUME NEW v \in Workers, NEW l \in Keys PROVE ClaimOK(v, l)' /\ LeaseOK(v, l)'
  BY DEF ClaimOK, LeaseOK, Has, Holds
<1>5. TokensDiffer'
  BY DEF TokensDiffer, TypeOK
<1>6. QED
  BY <1>1, <1>2, <1>3, <1>4, <1>5

(* Retry or dead letter, by the attempts that the pass remembers. *)
LEMMA HandlerThrowsInv ==
  ASSUME IInv, NEW w \in Workers, HandlerThrows(w)
  PROVE  IInv'
<1> USE DEF IInv, HandlerThrows, Caught, GoDeadLetter, rowVars, columns, workerVars,
        history
<1>1. TypeOK'
  <2>1. pc' \in [Workers -> PCs] /\ reason' \in [Workers -> Reasons \cup {"none"}]
    BY DEF TypeOK, PCs, Reasons
  <2>2. QED
    BY <2>1 DEF TypeOK
<1>2. ASSUME NEW l \in Keys PROVE RowOK(l)'
  BY DEF RowOK, Settled, Processed, Dead
<1>3. ASSUME NEW v \in Workers PROVE WorkerOK(v)'
  BY DEF TypeOK, Reasons, WorkerOK, Busy
<1>4. ASSUME NEW v \in Workers, NEW l \in Keys PROVE ClaimOK(v, l)' /\ LeaseOK(v, l)'
  BY DEF TypeOK, ClaimOK, LeaseOK, Has, Holds
<1>5. TokensDiffer'
  BY DEF TokensDiffer, TypeOK
<1>6. QED
  BY <1>1, <1>2, <1>3, <1>4, <1>5

(* markSuccess settles a row only under its token. *)
LEMMA MarkSuccessInv ==
  ASSUME IInv, NEW w \in Workers, MarkSuccess(w)
  PROVE  IInv'
<1> USE DEF IInv, MarkSuccess, Advance, rowVars, columns, workerVars, history
<1>1. TypeOK'
  <2>1. CASE Holds(w, cur[w])
    <3>1. cur[w] \in Keys /\ attempts[cur[w]] < MaxAttempts /\ snap[w][cur[w]] = attempts[cur[w]]
      BY <2>1 DEF RowOK, WorkerOK, ClaimOK, Has, Holds, Busy
    <3>2. /\ attempts[cur[w]] + 1 \in 0..MaxAttempts
          /\ UNCHANGED <<events, mishaps, handled, overran>>
      BY <3>1 DEF TypeOK
    <3>3. /\ claim_token' \in [Keys -> Tokens \cup {NoToken}]
          /\ claimed_at' \in [Keys -> {"null", "fresh", "stale"}]
          /\ available_at' \in [Keys -> {"past", "future"}]
          /\ processed_at' \in [Keys -> {"null", "recent", "old"}]
          /\ dead_lettered_at' \in [Keys -> {"null", "set"}]
      BY <2>1, <3>1 DEF TypeOK, Holds
    <3>a. attempts' = [attempts EXCEPT ![cur[w]] = attempts[cur[w]] + 1]
      BY <2>1, <3>1 DEF TypeOK, Holds
    <3>b. attempts' \in [Keys -> 0..MaxAttempts]
      BY ONLY <3>1, <3>2, <3>a, TypeOK DEF TypeOK
    <3>4. dlq' \in [Keys -> Letter \cup {NoLetter}]
      BY <3>1 DEF TypeOK, WorkerOK, Letter, NoLetter
    <3>5. QED
      BY <3>2, <3>3, <3>b, <3>4 DEF TypeOK, PCs, NoSnap
  <2>2. CASE ~Holds(w, cur[w])
    BY <2>2 DEF TypeOK, PCs, NoSnap
  <2>3. QED
    BY <2>1, <2>2
<1>2. ASSUME NEW l \in Keys PROVE RowOK(l)'
  BY DEF TypeOK, RowOK, Settled, Processed, Dead, WorkerOK, ClaimOK, Has, Holds, Busy
<1>3. ASSUME NEW v \in Workers PROVE WorkerOK(v)'
  BY DEF TypeOK, Reasons, WorkerOK, Busy
<1>4. ASSUME NEW v \in Workers, NEW l \in Keys PROVE ClaimOK(v, l)' /\ LeaseOK(v, l)'
  <2>1. CASE v = w
    <3>1. /\ cur'[w] = NoKey
          /\ batch'[w] = batch[w]
          /\ pc'[w] # "idle" => token'[w] = token[w]
          /\ pc'[w] = "idle" => token'[w] = NoToken
          /\ pc[w] # "idle"
          /\ l # cur[w] => claim_token'[l] = claim_token[l]
      BY DEF TypeOK, Holds
    <3>a. Has(w, l)' => (Has(w, l) /\ l # cur[w] /\ pc'[w] # "idle")
      <4>1. cur[w] \notin batch[w]
        BY DEF WorkerOK
      <4>2. QED
        BY <3>1, <4>1 DEF Has
    <3>b. (Has(w, l)' /\ Holds(w, l)) <=> (Has(w, l)' /\ Holds(w, l)')
      BY <3>1, <3>a DEF Holds
    <3>2. /\ (pc'[w] # "idle" => snap'[w] = snap[w])
          /\ pc'[w] \in {"idle", "dispatch"}
          /\ l # cur[w] => attempts'[l] = attempts[l]
          /\ claimed_at' = claimed_at /\ overran' = overran
      BY DEF TypeOK
    <3>3. QED
      BY <2>1, <3>a, <3>b, <3>2 DEF ClaimOK, LeaseOK
  <2>2. CASE v # w
    BY <2>2 DEF TypeOK, WorkerOK, Busy, ClaimOK, LeaseOK, TokensDiffer, Has, Holds
  <2>3. QED
    BY <2>1, <2>2
<1>5. TokensDiffer'
  BY DEF TokensDiffer, TypeOK
<1>6. QED
  BY <1>1, <1>2, <1>3, <1>4, <1>5

(* The attempts that markRetry writes are those of the row plus one. *)
LEMMA MarkRetryInv ==
  ASSUME IInv, NEW w \in Workers, MarkRetry(w)
  PROVE  IInv'
<1> USE DEF IInv, MarkRetry, Advance, rowVars, columns, workerVars, history
<1>1. TypeOK'
  <2>1. CASE Holds(w, cur[w])
    <3>1. cur[w] \in Keys /\ attempts[cur[w]] < MaxAttempts /\ snap[w][cur[w]] = attempts[cur[w]]
      BY <2>1 DEF TypeOK, WorkerOK, Busy, ClaimOK, LeaseOK, TokensDiffer, Has, Holds
    <3>2. /\ attempts[cur[w]] + 1 \in 0..MaxAttempts
          /\ UNCHANGED <<events, mishaps, handled, overran>>
      BY <3>1 DEF TypeOK
    <3>3. /\ claim_token' \in [Keys -> Tokens \cup {NoToken}]
          /\ claimed_at' \in [Keys -> {"null", "fresh", "stale"}]
          /\ available_at' \in [Keys -> {"past", "future"}]
          /\ processed_at' \in [Keys -> {"null", "recent", "old"}]
          /\ dead_lettered_at' \in [Keys -> {"null", "set"}]
      BY <2>1, <3>1 DEF TypeOK, Holds
    <3>a. attempts' = [attempts EXCEPT ![cur[w]] = attempts[cur[w]] + 1]
      BY <2>1, <3>1 DEF TypeOK, Holds
    <3>b. attempts' \in [Keys -> 0..MaxAttempts]
      BY ONLY <3>1, <3>2, <3>a, TypeOK DEF TypeOK
    <3>4. dlq' \in [Keys -> Letter \cup {NoLetter}]
      BY <3>1 DEF TypeOK, WorkerOK, Letter, NoLetter
    <3>5. QED
      BY <3>2, <3>3, <3>b, <3>4 DEF TypeOK, PCs, NoSnap
  <2>2. CASE ~Holds(w, cur[w])
    BY <2>2 DEF TypeOK, Letter, NoLetter, PCs, Reasons, NoSnap, WorkerOK, Busy
  <2>3. QED
    BY <2>1, <2>2
<1>2. ASSUME NEW l \in Keys PROVE RowOK(l)'
  BY DEF TypeOK, RowOK, Settled, Processed, Dead, WorkerOK, ClaimOK, Has, Holds, Busy
<1>3. ASSUME NEW v \in Workers PROVE WorkerOK(v)'
  BY DEF TypeOK, Reasons, WorkerOK, Busy
<1>4. ASSUME NEW v \in Workers, NEW l \in Keys PROVE ClaimOK(v, l)' /\ LeaseOK(v, l)'
  <2>1. CASE v = w
    <3>1. /\ cur'[w] = NoKey
          /\ batch'[w] = batch[w]
          /\ pc'[w] # "idle" => token'[w] = token[w]
          /\ pc'[w] = "idle" => token'[w] = NoToken
          /\ pc[w] # "idle"
          /\ l # cur[w] => claim_token'[l] = claim_token[l]
      BY DEF TypeOK, Holds
    <3>a. Has(w, l)' => (Has(w, l) /\ l # cur[w] /\ pc'[w] # "idle")
      <4>1. cur[w] \notin batch[w]
        BY DEF WorkerOK
      <4>2. QED
        BY <3>1, <4>1 DEF Has
    <3>b. (Has(w, l)' /\ Holds(w, l)) <=> (Has(w, l)' /\ Holds(w, l)')
      BY <3>1, <3>a DEF Holds
    <3>2. /\ (pc'[w] # "idle" => snap'[w] = snap[w])
          /\ pc'[w] \in {"idle", "dispatch"}
          /\ l # cur[w] => attempts'[l] = attempts[l]
          /\ claimed_at' = claimed_at /\ overran' = overran
      BY DEF TypeOK
    <3>3. QED
      BY <2>1, <3>a, <3>b, <3>2 DEF ClaimOK, LeaseOK
  <2>2. CASE v # w
    BY <2>2 DEF TypeOK, WorkerOK, Busy, ClaimOK, LeaseOK, TokensDiffer, Has, Holds
  <2>3. QED
    BY <2>1, <2>2
<1>5. TokensDiffer'
  BY DEF TokensDiffer, TypeOK
<1>6. QED
  BY <1>1, <1>2, <1>3, <1>4, <1>5

(* The copy reads the row's attempts while the token matches. *)
LEMMA DeadLetterCopyInv ==
  ASSUME IInv, NEW w \in Workers, DeadLetterCopy(w)
  PROVE  IInv'
<1> USE DEF IInv, DeadLetterCopy, CopiedAttempts, rowVars, columns, workerVars, history
<1>1. TypeOK'
  BY DEF TypeOK, Letter, NoLetter, PCs, Reasons, NoSnap, RowOK, WorkerOK, ClaimOK, Has,
       Holds, Settled, Processed, Dead, Busy
<1>2. ASSUME NEW l \in Keys PROVE RowOK(l)'
  BY DEF RowOK, Settled, Processed, Dead
<1>3. ASSUME NEW v \in Workers PROVE WorkerOK(v)'
  BY DEF TypeOK, Letter, NoLetter, PCs, Reasons, NoSnap, RowOK, WorkerOK, ClaimOK, Has,
       Holds, Settled, Processed, Dead, Busy
<1>4. ASSUME NEW v \in Workers, NEW l \in Keys PROVE ClaimOK(v, l)' /\ LeaseOK(v, l)'
  BY DEF TypeOK, ClaimOK, LeaseOK, Has, Holds
<1>5. TokensDiffer'
  BY DEF TokensDiffer, TypeOK
<1>6. QED
  BY <1>1, <1>2, <1>3, <1>4, <1>5

(* What deadLetter flags it has copied: the token matched both times. *)
LEMMA DeadLetterFlagInv ==
  ASSUME IInv, NEW w \in Workers, DeadLetterFlag(w)
  PROVE  IInv'
<1> USE DEF IInv, DeadLetterFlag, Advance, Archived, rowVars, columns, workerVars,
        history
<1>1. TypeOK'
  <2>1. CASE Holds(w, cur[w])
    <3>1. cur[w] \in Keys /\ attempts[cur[w]] < MaxAttempts /\ snap[w][cur[w]] = attempts[cur[w]]
      BY <2>1 DEF TypeOK, WorkerOK, Busy, ClaimOK, LeaseOK, TokensDiffer, Has, Holds
    <3>2. /\ attempts[cur[w]] + 1 \in 0..MaxAttempts
          /\ UNCHANGED <<events, mishaps, handled, overran>>
      BY <3>1 DEF TypeOK
    <3>3. /\ claim_token' \in [Keys -> Tokens \cup {NoToken}]
          /\ claimed_at' \in [Keys -> {"null", "fresh", "stale"}]
          /\ available_at' \in [Keys -> {"past", "future"}]
          /\ processed_at' \in [Keys -> {"null", "recent", "old"}]
          /\ dead_lettered_at' \in [Keys -> {"null", "set"}]
      BY <2>1, <3>1 DEF TypeOK, Holds
    <3>a. attempts' = [attempts EXCEPT ![cur[w]] = attempts[cur[w]] + 1]
      BY <2>1, <3>1 DEF TypeOK, Holds
    <3>b. attempts' \in [Keys -> 0..MaxAttempts]
      BY ONLY <3>1, <3>2, <3>a, TypeOK DEF TypeOK
    <3>4. dlq' \in [Keys -> Letter \cup {NoLetter}]
      BY <3>1 DEF TypeOK, WorkerOK, Letter, NoLetter
    <3>5. QED
      BY <3>2, <3>3, <3>b, <3>4 DEF TypeOK, PCs, NoSnap
  <2>2. CASE ~Holds(w, cur[w])
    BY <2>2 DEF TypeOK, Letter, NoLetter, PCs, Reasons, NoSnap, WorkerOK, Busy
  <2>3. QED
    BY <2>1, <2>2
<1>2. ASSUME NEW l \in Keys PROVE RowOK(l)'
  <2>0. cur[w] \in Keys /\ Has(w, cur[w])
    BY DEF WorkerOK, Busy, Has
  <2>1. CASE l # cur[w]
    <3>1. UNCHANGED <<claim_token[l], claimed_at[l], processed_at[l], dead_lettered_at[l],
                      attempts[l], dlq[l], events, handled, overran>>
      BY <2>0, <2>1 DEF TypeOK
    <3>2. QED
      BY <3>1 DEF RowOK, Settled, Processed, Dead
  <2>2. CASE l = cur[w] /\ Holds(w, l)
    <3>1. copied[w] = attempts[l] + 1 /\ reason[w] \in Reasons /\ ~Settled(l)
      BY <2>0, <2>2 DEF ClaimOK, WorkerOK, RowOK, Holds
    <3>2. copied[w] > 0
      BY <3>1, <2>2 DEF TypeOK
    <3>3. dlq'[l].reason = "max_attempts" => dlq'[l].attempts = MaxAttempts
      BY <2>2, <3>1, <3>2 DEF TypeOK, WorkerOK, RowOK, NoLetter, Reasons
    <3>a. dlq'[l] # NoLetter
      BY <2>2, <3>1, <3>2 DEF TypeOK, NoLetter, Reasons
    <3>4. /\ claim_token'[l] = NoToken /\ dead_lettered_at'[l] = "set"
          /\ UNCHANGED <<events, processed_at, handled, overran>>
      BY <2>2 DEF TypeOK
    <3>5. QED
      BY <2>2, <3>1, <3>3, <3>a, <3>4 DEF RowOK, Settled, Processed, Dead, Holds
  <2>3. CASE l = cur[w] /\ ~Holds(w, l)
    <3>1. l \in overran
      BY <2>0, <2>3 DEF LeaseOK
    <3>2. UNCHANGED <<claim_token, claimed_at, processed_at, dead_lettered_at, attempts,
                      events, handled, overran>>
      BY <2>3
    <3>3. dlq'[l].reason = "max_attempts" => dlq'[l].attempts = MaxAttempts
      BY <2>3 DEF TypeOK, WorkerOK, RowOK
    <3>4. dlq[l] # NoLetter => dlq'[l] # NoLetter
      BY <2>3 DEF TypeOK
    <3>5. QED
      BY <3>1, <3>2, <3>3, <3>4 DEF RowOK, Settled, Processed, Dead
  <2>4. QED
    BY <2>1, <2>2, <2>3
<1>3. ASSUME NEW v \in Workers PROVE WorkerOK(v)'
  BY DEF TypeOK, Reasons, WorkerOK, Busy
<1>4. ASSUME NEW v \in Workers, NEW l \in Keys PROVE ClaimOK(v, l)' /\ LeaseOK(v, l)'
  <2>1. CASE v = w
    <3>1. /\ cur'[w] = NoKey
          /\ batch'[w] = batch[w]
          /\ pc'[w] # "idle" => token'[w] = token[w]
          /\ pc'[w] = "idle" => token'[w] = NoToken
          /\ pc[w] # "idle"
          /\ l # cur[w] => claim_token'[l] = claim_token[l]
      BY DEF TypeOK, Holds
    <3>a. Has(w, l)' => (Has(w, l) /\ l # cur[w] /\ pc'[w] # "idle")
      <4>1. cur[w] \notin batch[w]
        BY DEF WorkerOK
      <4>2. QED
        BY <3>1, <4>1 DEF Has
    <3>b. (Has(w, l)' /\ Holds(w, l)) <=> (Has(w, l)' /\ Holds(w, l)')
      BY <3>1, <3>a DEF Holds
    <3>2. /\ (pc'[w] # "idle" => snap'[w] = snap[w])
          /\ pc'[w] \in {"idle", "dispatch"}
          /\ l # cur[w] => attempts'[l] = attempts[l]
          /\ claimed_at' = claimed_at /\ overran' = overran
      BY DEF TypeOK
    <3>3. QED
      BY <2>1, <3>a, <3>b, <3>2 DEF ClaimOK, LeaseOK
  <2>2. CASE v # w
    BY <2>2 DEF TypeOK, WorkerOK, Busy, ClaimOK, LeaseOK, TokensDiffer, Has, Holds
  <2>3. QED
    BY <2>1, <2>2
<1>5. TokensDiffer'
  BY DEF TokensDiffer, TypeOK
<1>6. QED
  BY <1>1, <1>2, <1>3, <1>4, <1>5

(* A markSuccess that throws changes no row. *)
LEMMA MarkSuccessThrowsInv ==
  ASSUME IInv, NEW w \in Workers, MarkSuccessThrows(w)
  PROVE  IInv'
<1> USE DEF IInv, MarkSuccessThrows, Mishap, Caught, GoDeadLetter, rowVars, columns,
        workerVars, history
<1>1. TypeOK'
  <2>1. pc' \in [Workers -> PCs] /\ reason' \in [Workers -> Reasons \cup {"none"}]
    BY DEF TypeOK, PCs, Reasons
  <2>2. QED
    BY <2>1 DEF TypeOK
<1>2. ASSUME NEW l \in Keys PROVE RowOK(l)'
  BY DEF RowOK, Settled, Processed, Dead
<1>3. ASSUME NEW v \in Workers PROVE WorkerOK(v)'
  BY DEF TypeOK, Reasons, WorkerOK, Busy
<1>4. ASSUME NEW v \in Workers, NEW l \in Keys PROVE ClaimOK(v, l)' /\ LeaseOK(v, l)'
  BY DEF TypeOK, ClaimOK, LeaseOK, Has, Holds
<1>5. TokensDiffer'
  BY DEF TokensDiffer, TypeOK
<1>6. QED
  BY <1>1, <1>2, <1>3, <1>4, <1>5

(* A failing loadTenant leaves its row claimed. *)
LEMMA LoadTenantThrowsInv ==
  ASSUME IInv, NEW w \in Workers, NEW k \in Keys, LoadTenantThrows(w, k)
  PROVE  IInv'
<1> USE DEF IInv, LoadTenantThrows, Mishap, Advance, rowVars, columns, workerVars,
        history
<1>1. TypeOK'
  BY DEF TypeOK, PCs, NoSnap
<1>2. ASSUME NEW l \in Keys PROVE RowOK(l)'
  BY DEF RowOK, Settled, Processed, Dead
<1>3. ASSUME NEW v \in Workers PROVE WorkerOK(v)'
  BY DEF TypeOK, Reasons, WorkerOK, Busy
<1>4. ASSUME NEW v \in Workers, NEW l \in Keys PROVE ClaimOK(v, l)' /\ LeaseOK(v, l)'
  BY DEF TypeOK, ClaimOK, LeaseOK, Has, Holds
<1>5. TokensDiffer'
  BY DEF TokensDiffer, TypeOK
<1>6. QED
  BY <1>1, <1>2, <1>3, <1>4, <1>5

(* A settlement that throws leaves its row claimed. *)
LEMMA SettleThrowsInv ==
  ASSUME IInv, NEW w \in Workers, SettleThrows(w)
  PROVE  IInv'
<1> USE DEF IInv, SettleThrows, Mishap, Advance, rowVars, columns, workerVars, history
<1>1. TypeOK'
  BY DEF TypeOK, PCs, NoSnap
<1>2. ASSUME NEW l \in Keys PROVE RowOK(l)'
  BY DEF RowOK, Settled, Processed, Dead
<1>3. ASSUME NEW v \in Workers PROVE WorkerOK(v)'
  BY DEF TypeOK, Reasons, WorkerOK, Busy
<1>4. ASSUME NEW v \in Workers, NEW l \in Keys PROVE ClaimOK(v, l)' /\ LeaseOK(v, l)'
  BY DEF TypeOK, ClaimOK, LeaseOK, Has, Holds
<1>5. TokensDiffer'
  BY DEF TokensDiffer, TypeOK
<1>6. QED
  BY <1>1, <1>2, <1>3, <1>4, <1>5

(* A crash drops the pass; its token stays on the rows. *)
LEMMA CrashInv ==
  ASSUME IInv, NEW w \in Workers, Crash(w)
  PROVE  IInv'
<1> USE DEF IInv, Crash, Mishap, Advance, rowVars, columns, workerVars, history
<1>1. TypeOK'
  BY DEF TypeOK, PCs, NoSnap
<1>2. ASSUME NEW l \in Keys PROVE RowOK(l)'
  BY DEF RowOK, Settled, Processed, Dead
<1>3. ASSUME NEW v \in Workers PROVE WorkerOK(v)'
  BY DEF TypeOK, Reasons, WorkerOK, Busy
<1>4. ASSUME NEW v \in Workers, NEW l \in Keys PROVE ClaimOK(v, l)' /\ LeaseOK(v, l)'
  BY DEF TypeOK, ClaimOK, LeaseOK, Has, Holds
<1>5. TokensDiffer'
  BY DEF TokensDiffer, TypeOK
<1>6. QED
  BY <1>1, <1>2, <1>3, <1>4, <1>5

(* A lease that ends under a live pass is an overrun. *)
LEMMA LeaseExpiresInv ==
  ASSUME IInv, NEW k \in Keys, LeaseExpires(k)
  PROVE  IInv'
<1> USE DEF IInv, LeaseExpires, Mishap, InCare, rowVars, columns, workerVars, history
<1>1. TypeOK'
  BY DEF TypeOK, PCs
<1>2. ASSUME NEW l \in Keys PROVE RowOK(l)'
  BY DEF RowOK, Settled, Processed, Dead
<1>3. ASSUME NEW v \in Workers PROVE WorkerOK(v)'
  BY DEF WorkerOK, Busy
<1>4. ASSUME NEW v \in Workers, NEW l \in Keys PROVE ClaimOK(v, l)' /\ LeaseOK(v, l)'
  BY DEF ClaimOK, LeaseOK, Has, Holds
<1>5. TokensDiffer'
  BY DEF TokensDiffer, TypeOK
<1>6. QED
  BY <1>1, <1>2, <1>3, <1>4, <1>5

(* A retry delay touches no claim. *)
LEMMA BackoffElapsesInv ==
  ASSUME IInv, NEW k \in Keys, BackoffElapses(k)
  PROVE  IInv'
<1> USE DEF IInv, BackoffElapses, rowVars, columns, workerVars, history
<1>1. TypeOK'
  BY DEF TypeOK, PCs
<1>2. ASSUME NEW l \in Keys PROVE RowOK(l)'
  BY DEF RowOK, Settled, Processed, Dead
<1>3. ASSUME NEW v \in Workers PROVE WorkerOK(v)'
  BY DEF WorkerOK, Busy
<1>4. ASSUME NEW v \in Workers, NEW l \in Keys PROVE ClaimOK(v, l)' /\ LeaseOK(v, l)'
  BY DEF ClaimOK, LeaseOK, Has, Holds
<1>5. TokensDiffer'
  BY DEF TokensDiffer, TypeOK
<1>6. QED
  BY <1>1, <1>2, <1>3, <1>4, <1>5

(* A processed row grows old. *)
LEMMA RetentionElapsesInv ==
  ASSUME IInv, NEW k \in Keys, RetentionElapses(k)
  PROVE  IInv'
<1> USE DEF IInv, RetentionElapses, rowVars, columns, workerVars, history
<1>1. TypeOK'
  BY DEF TypeOK, PCs
<1>2. ASSUME NEW l \in Keys PROVE RowOK(l)'
  BY DEF RowOK, Settled, Processed, Dead
<1>3. ASSUME NEW v \in Workers PROVE WorkerOK(v)'
  BY DEF WorkerOK, Busy
<1>4. ASSUME NEW v \in Workers, NEW l \in Keys PROVE ClaimOK(v, l)' /\ LeaseOK(v, l)'
  BY DEF ClaimOK, LeaseOK, Has, Holds
<1>5. TokensDiffer'
  BY DEF TokensDiffer, TypeOK
<1>6. QED
  BY <1>1, <1>2, <1>3, <1>4, <1>5

(* The sweep takes the token away: the old pass holds nothing any more. *)
LEMMA SweepInv ==
  ASSUME IInv, SweepStaleClaims
  PROVE  IInv'
<1> USE DEF IInv, SweepStaleClaims, StaleClaims, rowVars, columns, workerVars, history
<1>1. TypeOK'
  BY DEF TypeOK, PCs
<1>2. ASSUME NEW l \in Keys PROVE RowOK(l)'
  BY DEF RowOK, Settled, Processed, Dead
<1>3. ASSUME NEW v \in Workers PROVE WorkerOK(v)'
  BY DEF WorkerOK, Busy
<1>4. ASSUME NEW v \in Workers, NEW l \in Keys PROVE ClaimOK(v, l)' /\ LeaseOK(v, l)'
  BY DEF ClaimOK, LeaseOK, Has, Holds
<1>5. TokensDiffer'
  BY DEF TokensDiffer, TypeOK
<1>6. QED
  BY <1>1, <1>2, <1>3, <1>4, <1>5

(* A purged row carried no token. *)
LEMMA PurgeInv ==
  ASSUME IInv, PurgeProcessed
  PROVE  IInv'
<1> USE DEF IInv, PurgeProcessed, Purgeable, rowVars, columns, workerVars, history
<1>1. TypeOK'
  BY DEF TypeOK, PCs
<1>2. ASSUME NEW l \in Keys PROVE RowOK(l)'
  BY DEF RowOK, Settled, Processed, Dead
<1>3. ASSUME NEW v \in Workers PROVE WorkerOK(v)'
  BY DEF WorkerOK, Busy
<1>4. ASSUME NEW v \in Workers, NEW l \in Keys PROVE ClaimOK(v, l)' /\ LeaseOK(v, l)'
  BY DEF TypeOK, RowOK, Settled, Processed, Dead, WorkerOK, Busy, ClaimOK, LeaseOK,
       TokensDiffer, Has, Holds
<1>5. TokensDiffer'
  BY DEF TokensDiffer, TypeOK
<1>6. QED
  BY <1>1, <1>2, <1>3, <1>4, <1>5

(* No rows, no passes. *)
LEMMA InitInv == Init => IInv
  BY MaxAttemptsAssumption, MaxMishapsAssumption, NoTokenAssumption, NoKeyAssumption
     DEF Init, IInv, TypeOK, Letter, NoLetter, NoSnap, PCs, Reasons, RowOK, WorkerOK,
         ClaimOK, LeaseOK, TokensDiffer, Has, Holds, Settled, Processed, Dead, Busy

(* Doing nothing keeps the invariant. *)
LEMMA StutterInv == ASSUME IInv, UNCHANGED vars PROVE IInv'
  BY DEF IInv, vars, rowVars, columns, workerVars, history, TypeOK, RowOK, WorkerOK,
         ClaimOK, LeaseOK, TokensDiffer, Has, Holds, Settled, Processed, Dead

(* Each action keeps the invariant. *)
LEMMA NextInv == IInv /\ [Next]_vars => IInv'
<1> SUFFICES ASSUME IInv, [Next]_vars PROVE IInv'
  OBVIOUS
<1>1. CASE \E k \in Keys : Emit(k) \/ LeaseExpires(k) \/ BackoffElapses(k) \/ RetentionElapses(k)
  BY <1>1, EmitInv, LeaseExpiresInv, BackoffElapsesInv, RetentionElapsesInv
<1>2. CASE \E w \in Workers : Claim(w) \/ WorkerStep(w)
  BY <1>2, ClaimInv, DispatchInv, HandlerReturnsInv, HandlerThrowsInv, MarkSuccessInv,
     MarkRetryInv, DeadLetterCopyInv, DeadLetterFlagInv DEF WorkerStep
<1>3. CASE \E w \in Workers : WorkerFailure(w)
  BY <1>3, MarkSuccessThrowsInv, LoadTenantThrowsInv, SettleThrowsInv, CrashInv DEF
       WorkerFailure
<1>4. CASE SweepStaleClaims
  BY <1>4, SweepInv
<1>5. CASE PurgeProcessed
  BY <1>5, PurgeInv
<1>6. CASE UNCHANGED vars
  BY <1>6, StutterInv
<1>7. QED
  BY <1>1, <1>2, <1>3, <1>4, <1>5, <1>6 DEF Next

(* The inductive invariant holds throughout. *)
LEMMA InductiveInvariant == Spec => []IInv
  BY InitInv, NextInv, PTL DEF Spec

(* Every column and every local of the workers keeps its type: in           *)
(* particular attempts never passes MaxAttempts, for any interleaving of    *)
(* claims, sweeps and late settlements.                                     *)
THEOREM TypeCorrect == Spec => []TypeOK
<1>1. IInv => TypeOK
  BY DEF IInv
<1>2. QED
  BY <1>1, InductiveInvariant, PTL

(* markSuccess and deadLetter of two passes never both settle one row. *)
THEOREM OneOutcome == Spec => []SettledOneWay
<1>1. IInv => SettledOneWay
  BY DEF IInv, RowOK, SettledOneWay
<1>2. QED
  BY <1>1, InductiveInvariant, PTL

(* No row is marked processed before its handler returned (at-least-once). *)
THEOREM AtLeastOnce == Spec => []ProcessedWasHandled
<1>1. IInv => ProcessedWasHandled
  BY DEF IInv, RowOK, ProcessedWasHandled
<1>2. QED
  BY <1>1, InductiveInvariant, PTL

(* A row that deadLetter flags is in events_dead_letter. *)
THEOREM NoSilentBurial == Spec => []BuriedIsArchived
<1>1. IInv => BuriedIsArchived
  BY DEF IInv, RowOK, BuriedIsArchived
<1>2. QED
  BY <1>1, InductiveInvariant, PTL

(* An event archived as max_attempts was tried MaxAttempts times. *)
THEOREM ExhaustionIsHonest == Spec => []ExhaustedMeansTried
<1>1. IInv => ExhaustedMeansTried
  BY DEF IInv, RowOK, ExhaustedMeansTried
<1>2. QED
  BY <1>1, InductiveInvariant, PTL

(* An archive row whose event still lives is the trace of an overrun lease. *)
THEOREM ArchiveMeansOver == Spec => []ArchivedIsOver
<1>1. IInv => ArchivedIsOver
  BY DEF IInv, RowOK, ArchivedIsOver
<1>2. QED
  BY <1>1, InductiveInvariant, PTL

(* Whatever fails, an unsettled row stays within reach of a claim or of the *)
(* sweep: the safety half of EventuallySettled.                             *)
THEOREM NothingStranded == Spec => []NeverStranded
<1>1. IInv => NeverStranded
  BY DEF IInv, RowOK, NeverStranded, TypeOK
<1>2. QED
  BY <1>1, InductiveInvariant, PTL

(* Two workers run one event's handler together only after its lease ended. *)
THEOREM OverlapNeedsOverrun == Spec => []NoOverlapWithinLease
<1>1. IInv => NoOverlapWithinLease
  <2> SUFFICES ASSUME IInv, NEW v \in Workers, NEW w \in Workers, v # w,
                      pc[v] = "handle", pc[w] = "handle", cur[v] = cur[w],
                      cur[v] \notin overran
               PROVE  FALSE
    BY DEF NoOverlapWithinLease
  <2>1. cur[v] \in Keys /\ Has(v, cur[v]) /\ Has(w, cur[v])
    BY DEF IInv, WorkerOK, Busy, Has
  <2>2. Holds(v, cur[v]) /\ Holds(w, cur[v])
    BY <2>1 DEF IInv, LeaseOK
  <2>3. QED
    BY <2>2 DEF Holds, IInv, TokensDiffer
<1>2. QED
  BY <1>1, InductiveInvariant, PTL

-----------------------------------------------------------------------------
(* Action properties *)

(* A step raises the attempts of a row, or leaves them. *)
LEMMA StepRaisesAttempts ==
  ASSUME IInv, Next, NEW k \in events \cap events'
  PROVE  attempts'[k] >= attempts[k]
<1> USE MaxAttemptsAssumption
<1>0. k \in Keys /\ attempts[k] \in 0..MaxAttempts /\ attempts \in [Keys -> 0..MaxAttempts]
  BY DEF IInv, TypeOK
<1>1. ASSUME NEW w \in Workers, MarkSuccess(w) \/ DeadLetterFlag(w)
      PROVE  attempts'[k] >= attempts[k]
  BY <1>0, <1>1 DEF MarkSuccess, DeadLetterFlag, columns
<1>2. ASSUME NEW w \in Workers, MarkRetry(w)
      PROVE  attempts'[k] >= attempts[k]
  <2>1. CASE Holds(w, cur[w]) /\ cur[w] = k
    <3>1. snap[w][k] = attempts[k]
      BY <1>0, <1>2, <2>1 DEF IInv, ClaimOK, Has, MarkRetry
    <3>2. QED
      BY <1>0, <1>2, <2>1, <3>1 DEF MarkRetry, columns
  <2>2. CASE ~(Holds(w, cur[w]) /\ cur[w] = k)
    BY <1>0, <1>2, <2>2 DEF MarkRetry, columns
  <2>3. QED
    BY <2>1, <2>2
<1>3. CASE PurgeProcessed
  BY <1>0, <1>3 DEF PurgeProcessed, Purgeable
<1>4. CASE UNCHANGED attempts
  BY <1>0, <1>4
<1>5. QED
  BY <1>1, <1>2, <1>3, <1>4
     DEF Next, WorkerStep, WorkerFailure, Emit, LeaseExpires, BackoffElapses,
         RetentionElapses, Claim, Dispatch, HandlerReturns, HandlerThrows,
         DeadLetterCopy, MarkSuccessThrows, LoadTenantThrows, SettleThrows, Crash,
         SweepStaleClaims, rowVars, columns

(* No step lowers the attempts of a row that stays: a late markRetry cannot *)
(* write back an older count.                                               *)
THEOREM AttemptsMonotone == Spec => AttemptsNeverDrop
<1>1. IInv /\ [Next]_vars =>
        [\A k \in events \cap events' : attempts'[k] >= attempts[k]]_vars
  BY StepRaisesAttempts
<1>2. QED
  BY <1>1, InductiveInvariant, PTL DEF Spec, AttemptsNeverDrop

(* The columns of k that settlement fixes. *)
Outcome(k) == <<claim_token[k], attempts[k], dead_lettered_at[k], processed_at[k]>>

(* A step keeps what a settled row is. *)
LEMMA StepKeepsOutcome ==
  ASSUME IInv, Next, NEW k \in events \cap events', Settled(k)
  PROVE  \/ UNCHANGED Outcome(k)
         \/ /\ UNCHANGED <<claim_token[k], attempts[k], dead_lettered_at[k]>>
            /\ processed_at[k] = "recent" /\ processed_at'[k] = "old"
<1> USE DEF Outcome
<1>0. k \in Keys /\ claim_token[k] = NoToken /\ k \notin Claimable /\ k \notin StaleClaims
  BY DEF IInv, RowOK, TypeOK, Claimable, StaleClaims
<1>1. ASSUME NEW w \in Workers, MarkSuccess(w) \/ MarkRetry(w) \/ DeadLetterFlag(w)
      PROVE  UNCHANGED Outcome(k)
  <2>1. ~Holds(w, k)
    BY <1>0 DEF Holds
  <2>2. k # cur[w] \/ ~Holds(w, cur[w])
    BY <2>1
  <2>3. QED
    BY <1>0, <1>1, <2>2 DEF MarkSuccess, MarkRetry, DeadLetterFlag, columns, IInv,
         TypeOK
<1>2. ASSUME NEW w \in Workers, Claim(w)
      PROVE  UNCHANGED Outcome(k)
  BY <1>0, <1>2 DEF Claim, ClaimWith
<1>3. ASSUME NEW l \in Keys, RetentionElapses(l)
      PROVE  \/ UNCHANGED Outcome(k)
             \/ /\ UNCHANGED <<claim_token[k], attempts[k], dead_lettered_at[k]>>
                /\ processed_at[k] = "recent" /\ processed_at'[k] = "old"
  BY <1>0, <1>3 DEF RetentionElapses, IInv, TypeOK
<1>4. CASE SweepStaleClaims
  BY <1>0, <1>4 DEF SweepStaleClaims
<1>5. CASE PurgeProcessed
  BY <1>0, <1>5 DEF PurgeProcessed, Purgeable
<1>6. CASE UNCHANGED <<claim_token, attempts, dead_lettered_at, processed_at>>
  BY <1>6
<1>7. QED
  BY <1>1, <1>2, <1>3, <1>4, <1>5, <1>6
     DEF Next, WorkerStep, WorkerFailure, Emit, LeaseExpires, BackoffElapses,
         Dispatch, HandlerReturns, HandlerThrows, DeadLetterCopy, MarkSuccessThrows,
         LoadTenantThrows, SettleThrows, Crash, rowVars, columns

(* A settled row is never claimed, retried or settled again: it only ages. *)
THEOREM SettlementIsFinal == Spec => SettledIsFinal
<1>1. IInv => \A k \in events : Settled(k) => claim_token[k] = NoToken
  BY DEF IInv, RowOK, TypeOK
<1>2. ASSUME IInv, [Next]_vars
      PROVE  [\A k \in events \cap events' :
               Settled(k) =>
                 /\ claim_token'[k] = NoToken
                 /\ attempts'[k] = attempts[k]
                 /\ dead_lettered_at'[k] = dead_lettered_at[k]
                 /\ processed_at'[k] # processed_at[k]
                      => processed_at[k] = "recent" /\ processed_at'[k] = "old"]_vars
  <2>1. CASE UNCHANGED vars
    BY <2>1
  <2>2. CASE Next
    BY <1>1, <1>2, <2>2, StepKeepsOutcome DEF Outcome
  <2>3. QED
    BY <1>2, <2>1, <2>2
<1>3. QED
  BY <1>2, InductiveInvariant, PTL DEF Spec, SettledIsFinal

(* events_dead_letter is write-once. *)
THEOREM ArchiveWriteOnce == Spec => ArchiveIsWriteOnce
<1>1. ASSUME IInv, Next, NEW k \in Keys, dlq[k] # NoLetter
      PROVE  dlq'[k] = dlq[k]
  <2>1. CASE UNCHANGED dlq
    BY <2>1
  <2>2. ASSUME NEW w \in Workers, DeadLetterFlag(w)
        PROVE  dlq'[k] = dlq[k]
    BY <1>1, <2>2 DEF DeadLetterFlag, Archived, IInv, TypeOK
  <2>3. QED
    BY <1>1, <2>1, <2>2
       DEF Next, WorkerStep, WorkerFailure, Emit, LeaseExpires, BackoffElapses,
           RetentionElapses, Claim, Dispatch, HandlerReturns, HandlerThrows, MarkSuccess,
           MarkRetry, DeadLetterCopy, MarkSuccessThrows, LoadTenantThrows, SettleThrows,
           Crash, SweepStaleClaims, PurgeProcessed, rowVars
<1>2. IInv /\ [Next]_vars => [\A k \in Keys : dlq[k] # NoLetter => dlq'[k] = dlq[k]]_vars
  BY <1>1
<1>3. QED
  BY <1>2, InductiveInvariant, PTL DEF Spec, ArchiveIsWriteOnce

-----------------------------------------------------------------------------
(* Refinement of EventDelivery *)

(* A step that leaves the status of every row and handled alone stutters.  *)
Silent == UNCHANGED <<[k \in Keys |-> Status(k)], handled>>

(* A step that changes neither rows, outcomes nor handled is a stutter. *)
LEMMA SilentColumns ==
  ASSUME UNCHANGED <<events, processed_at, dead_lettered_at, handled>>
  PROVE  Silent
  BY DEF Silent, Status, Dead, Processed

(* A row that carries the token of a pass is pending. *)
LEMMA HeldIsPending ==
  ASSUME IInv, NEW w \in Workers, NEW k \in Keys, Holds(w, k)
  PROVE  Status(k) = "pending"
  BY DEF IInv, RowOK, Holds, Status, Settled

(* Settling the current row k of w changes the status of k alone, from      *)
(* pending, and only if w still holds it.                                   *)
LEMMA SettleRefines ==
  ASSUME IInv, NEW w \in Workers, MarkSuccess(w) \/ DeadLetterFlag(w)
  PROVE  Delivery!Next \/ Silent
<1>0. PICK k \in Keys : k = cur[w]
  BY DEF IInv, WorkerOK, Busy, MarkSuccess, DeadLetterFlag
<1>1. CASE ~Holds(w, k)
  BY <1>0, <1>1, SilentColumns DEF MarkSuccess, DeadLetterFlag, columns, history
<1>2. CASE Holds(w, k) /\ MarkSuccess(w)
  <2>1. Status(k) = "pending" /\ k \in handled
    BY <1>0, <1>2, HeldIsPending DEF IInv, ClaimOK, Has, MarkSuccess
  <2>2. /\ processed_at' = [processed_at EXCEPT ![k] = "recent"]
        /\ UNCHANGED <<events, dead_lettered_at, handled>>
    BY <1>0, <1>2 DEF MarkSuccess, columns, history
  <2>3. Status(k)' = "processed"
    BY <1>0, <2>1, <2>2 DEF Status, Dead, Processed, IInv, TypeOK
  <2>4. \A l \in Keys \ {k} : Status(l)' = Status(l)
    BY <2>2 DEF Status, Dead, Processed, IInv, TypeOK
  <2>5. Delivery!Acknowledge(k)
    BY <1>0, <2>1, <2>2, <2>3, <2>4 DEF Delivery!Acknowledge
  <2>6. QED
    BY <1>0, <2>5 DEF Delivery!Next
<1>3. CASE Holds(w, k) /\ DeadLetterFlag(w)
  <2>1. Status(k) = "pending"
    BY <1>0, <1>3, HeldIsPending
  <2>2. /\ dead_lettered_at' = [dead_lettered_at EXCEPT ![k] = "set"]
        /\ UNCHANGED <<events, processed_at, handled>>
    BY <1>0, <1>3 DEF DeadLetterFlag, columns, history
  <2>3. Status(k)' = "dead"
    BY <1>0, <2>1, <2>2 DEF Status, Dead, Processed, IInv, TypeOK
  <2>4. \A l \in Keys \ {k} : Status(l)' = Status(l)
    BY <2>2 DEF Status, Dead, Processed, IInv, TypeOK
  <2>5. Delivery!Bury(k)
    BY <1>0, <2>1, <2>2, <2>3, <2>4 DEF Delivery!Bury
  <2>6. QED
    BY <1>0, <2>5 DEF Delivery!Next
<1>4. QED
  BY <1>1, <1>2, <1>3

(* A returning handler delivers or stutters. *)
LEMMA HandlerReturnsRefines ==
  ASSUME IInv, NEW w \in Workers, HandlerReturns(w)
  PROVE  Delivery!Next \/ Silent
<1>0. cur[w] \in Keys
  BY DEF IInv, WorkerOK, Busy, HandlerReturns
<1>1. UNCHANGED <<events, processed_at, dead_lettered_at>>
  BY DEF HandlerReturns, rowVars, columns
<1>2. CASE Holds(w, cur[w])
  <2>1. Delivery!Deliver(cur[w])
    BY <1>0, <1>1, <1>2, HeldIsPending
       DEF Delivery!Deliver, HandlerReturns, Status, Dead, Processed
  <2>2. QED
    BY <1>0, <2>1 DEF Delivery!Next
<1>3. CASE ~Holds(w, cur[w])
  BY <1>1, <1>3, SilentColumns DEF HandlerReturns
<1>4. QED
  BY <1>2, <1>3

(* A new row is accepted. *)
LEMMA EmitRefines ==
  ASSUME IInv, NEW k \in Keys, Emit(k)
  PROVE  Delivery!Next
<1>1. Status(k) = "none" /\ Status(k)' = "pending"
  BY DEF Emit, Status, IInv, RowOK, Settled, Dead, Processed, columns
<1>2. \A l \in Keys \ {k} : Status(l)' = Status(l)
  BY DEF Emit, Status, Dead, Processed, columns
<1>3. Delivery!Accept(k)
  BY <1>1, <1>2 DEF Delivery!Accept, Emit, history
<1>4. QED
  BY <1>3 DEF Delivery!Next

(* A purge forgets processed rows. *)
LEMMA PurgeRefines ==
  ASSUME IInv, PurgeProcessed
  PROVE  Delivery!Next
<1>1. \A k \in Purgeable : k \in Keys /\ Status(k) = "processed" /\ Status(k)' = "none"
  BY DEF PurgeProcessed, Purgeable, Status, Dead, Processed, IInv, TypeOK, RowOK
<1>2. \A k \in Keys \ Purgeable : Status(k)' = Status(k)
  BY DEF PurgeProcessed, Status, Dead, Processed
<1>3. Delivery!Forget(Purgeable)
  BY <1>1, <1>2 DEF Delivery!Forget, PurgeProcessed
<1>4. QED
  BY <1>1, <1>3 DEF Delivery!Next

(* Growing old is a stutter. *)
LEMMA AgingRefines ==
  ASSUME IInv, NEW k \in Keys, RetentionElapses(k)
  PROVE  Silent
  BY DEF RetentionElapses, Silent, Status, Dead, Processed, history, IInv, TypeOK

(* Every step is one of EventDelivery or a stutter. *)
LEMMA StepRefines ==
  ASSUME IInv, Next
  PROVE  Delivery!Next \/ Silent
<1>1. CASE UNCHANGED <<events, processed_at, dead_lettered_at, handled>>
  BY <1>1, SilentColumns
<1>2. QED
  BY <1>1, EmitRefines, AgingRefines, PurgeRefines, HandlerReturnsRefines, SettleRefines
     DEF Next, WorkerStep, WorkerFailure, LeaseExpires, BackoffElapses, Claim, Dispatch,
         HandlerThrows, MarkRetry, DeadLetterCopy, MarkSuccessThrows, LoadTenantThrows,
         SettleThrows, Crash, SweepStaleClaims, rowVars, columns, history

(* The outbox implements its contract: each row goes through accept, at     *)
(* least one delivery or a burial, and is forgotten only once acknowledged. *)
THEOREM DeliveryImplemented == Spec => ImplementsDelivery
<1>1. Init => Delivery!Init
  BY DEF Init, Delivery!Init, Status
<1>2. IInv /\ [Next]_vars => [Delivery!Next]_(Delivery!vars)
  <2> SUFFICES ASSUME IInv, [Next]_vars
               PROVE  [Delivery!Next]_(Delivery!vars)
    OBVIOUS
  <2>1. CASE UNCHANGED vars
    BY <2>1, SilentColumns DEF vars, rowVars, columns, history, Silent, Delivery!vars
  <2>2. CASE Next
    BY <2>2, StepRefines DEF Silent, Delivery!vars
  <2>3. QED
    BY <2>1, <2>2
<1>3. QED
  BY <1>1, <1>2, InductiveInvariant, PTL DEF Spec, Delivery!Spec, ImplementsDelivery

=============================================================================
