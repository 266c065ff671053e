-------------------------- MODULE MCVisitorPasses --------------------------
(* Small instances of VisitorPasses. *)
EXTENDS VisitorPasses, TLC
=============================================================================
