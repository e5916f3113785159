---------------------------- MODULE MCContentStore ----------------------------
EXTENDS ContentStore, TLC

\* The keys are alike.
Symmetry == Permutations(Keys)
===============================================================================
