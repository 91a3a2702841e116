------------------------ MODULE MC_SolveRefinement ------------------------
EXTENDS MC_Scheduler, SolveRefinement
=============================================================================
