-------------------------- MODULE MCVisitorCascade --------------------------
(* Small instances of VisitorCascade. *)
EXTENDS VisitorCascade, TLC
=============================================================================
