---------------------------- MODULE MCDailyList -----------------------------
(* The daily list of one bucket with few instances, requests and lines. *)
EXTENDS DailyList, TLC
=============================================================================
