--------------------------- MODULE EventDelivery ----------------------------
(***************************************************************************)
(* What producers may rely on: an emitted event is delivered to its        *)
(* handler at least once before it is acknowledged, or it is buried in the *)
(* dead-letter archive; either outcome is final.  An acknowledged event is *)
(* forgotten some time later and its key may then be used again.  A buried *)
(* event is never forgotten.                                               *)
(***************************************************************************)
CONSTANT Keys

VARIABLES status,     \* what became of the event of each key
          delivered   \* events whose handler has returned

vars == <<status, delivered>>

Init ==
  /\ status = [k \in Keys |-> "none"]
  /\ delivered = {}

Accept(k) ==
  /\ status[k] = "none"
  /\ status' = [status EXCEPT ![k] = "pending"]
  /\ UNCHANGED delivered

Deliver(k) ==
  /\ status[k] = "pending"
  /\ delivered' = delivered \cup {k}
  /\ UNCHANGED status

Acknowledge(k) ==
  /\ status[k] = "pending" /\ k \in delivered
  /\ status' = [status EXCEPT ![k] = "processed"]
  /\ UNCHANGED delivered

Bury(k) ==
  /\ status[k] = "pending"
  /\ status' = [status EXCEPT ![k] = "dead"]
  /\ UNCHANGED delivered

Forget(K) ==
  /\ \A k \in K : status[k] = "processed"
  /\ status' = [k \in Keys |-> IF k \in K THEN "none" ELSE status[k]]
  /\ delivered' = delivered \ K

Next ==
  \/ \E k \in Keys : Accept(k) \/ Deliver(k) \/ Acknowledge(k) \/ Bury(k)
  \/ \E K \in SUBSET Keys : Forget(K)

Spec == Init /\ [][Next]_vars
=============================================================================
