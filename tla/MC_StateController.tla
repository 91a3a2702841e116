------------------------ MODULE MC_StateController ------------------------
EXTENDS StateController, TLC

MCSymmetry == Permutations(Keys)
=============================================================================
