------------------------------- MODULE MCCustody -------------------------------
EXTENDS Custody, TLC

\* Keys that no operator holds, and processes that record nothing, are alike.
Symmetry == Permutations(Keys \ OperatorKeys)
================================================================================
