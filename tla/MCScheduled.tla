---------------------------- MODULE MCScheduled -----------------------------
EXTENDS Scheduled, TLC

\* The callers run the same code.
Symmetry == Permutations(Callers)
=============================================================================
