------------------------------ MODULE MCOutbox ------------------------------
(* The outbox with a small set of keys, workers and tokens. *)
EXTENDS Outbox, TLC

Symmetry == Permutations(Keys) \cup Permutations(Workers) \cup Permutations(Tokens)
=============================================================================
