------------------------------ MODULE MCDpsCert ------------------------------
(* Values of DpsCert's constants for TLC.                                  *)
EXTENDS DpsCert, TLC

AllFaults == {"cat", "sync", "orphan", "power"}
=============================================================================
