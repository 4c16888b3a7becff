--------------------------- MODULE MCRequestRaces ---------------------------
(***************************************************************************)
(* The instance of RequestRaces for TLC, with the configurations, agents    *)
(* and routes of MCRequestHandling.                                         *)
(***************************************************************************)
EXTENDS RequestRaces, MCRequestHandling

\* Tasks are interchangeable, and the run that uses this checks no liveness.
MCSymmetry == Permutations(Tasks)
=============================================================================
