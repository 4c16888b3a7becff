--------------------------- MODULE MCTaskManager ---------------------------
(***************************************************************************)
(* The instance of TaskManager for TLC: two callers compete for two slots   *)
(* with a third task waiting.  Tasks and callers are interchangeable, but   *)
(* the run checks liveness, so they are not declared symmetric.             *)
(***************************************************************************)
EXTENDS TaskManager
=============================================================================
