---------------------------- MODULE MCScheduler -----------------------------
EXTENDS Scheduler, TLC

\* The subscribers are alike.
Symmetry == Permutations(Subs)
=============================================================================
