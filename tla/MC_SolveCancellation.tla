------------------------ MODULE MC_SolveCancellation ------------------------
(* The cluster of MC_Scheduler with a cancellable context.                 *)
EXTENDS MC_Scheduler, SolveCancellation
=============================================================================
