---------------------------- MODULE ListDelivery ----------------------------
(***************************************************************************)
(* What the daily list of a bucket promises its vendor.  Lists are         *)
(* numbered versions of what is to be delivered, never empty and never     *)
(* changed once they exist.  A list is on record as sent only after the    *)
(* vendor was mailed it.  Going on record, it takes the lines that no list *)
(* has taken before, and a line stays with the list that took it.          *)
(***************************************************************************)
EXTENDS Integers

CONSTANTS Lines, MaxVersions

VARIABLES
  version,   \* lists made so far
  payload,   \* per version: the lines on it
  mailed,    \* versions the vendor was mailed, once or more
  sent,      \* versions on record as sent
  takenBy    \* per line: the version that took it, or 0

vars == <<version, payload, mailed, sent, takenBy>>

Init ==
  /\ version = 0
  /\ payload = [v \in 1..MaxVersions |-> {}]
  /\ mailed = {}
  /\ sent = {}
  /\ takenBy = [l \in Lines |-> 0]

Make(content) ==
  /\ content # {} /\ version < MaxVersions
  /\ version' = version + 1
  /\ payload' = [payload EXCEPT ![version + 1] = content]
  /\ UNCHANGED <<mailed, sent, takenBy>>

Mail(v) ==
  /\ mailed' = mailed \cup {v}
  /\ UNCHANGED <<version, payload, sent, takenBy>>

GoOnRecord(v) ==
  /\ v \in mailed
  /\ sent' = sent \cup {v}
  /\ takenBy' = [l \in Lines |-> IF l \in payload[v] /\ takenBy[l] = 0 THEN v ELSE takenBy[l]]
  /\ UNCHANGED <<version, payload, mailed>>

Next ==
  \/ \E content \in SUBSET Lines : Make(content)
  \/ \E v \in 1..version : Mail(v) \/ GoOnRecord(v)

Spec == Init /\ [][Next]_vars
=============================================================================
