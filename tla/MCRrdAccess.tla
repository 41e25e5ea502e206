---------------------------- MODULE MCRrdAccess -----------------------------
(* RrdAccess for TLC.  The processes that update are interchangeable.      *)
EXTENDS RrdAccess, TLC

Updaters == Permutations(Procs)
=============================================================================
