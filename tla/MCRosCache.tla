----------------------------- MODULE MCRosCache -----------------------------
EXTENDS RosCache, TLC

CONSTANTS g1, g2, m1, f1, f2

\* Two consumers of one menu whose fields and tolerances differ: a narrow fast
\* one, and a slow one that wants every field.
MCAsks == g1 :> [menu |-> m1, want |-> {f1}, ttl |-> 1]
       @@ g2 :> [menu |-> m1, want |-> {}, ttl |-> 2]
=============================================================================
