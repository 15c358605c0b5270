--------------------------- MODULE MCSessionPool ----------------------------
EXTENDS SessionPool, TLC

\* Websockets run the same code, and so do the fleet's calls; sessions are told
\* apart by identity alone.
Symmetry == Permutations(Viewers) \cup Permutations(Fleet) \cup Permutations(Sessions)

\* Of a session that nothing points at any more nothing can be told.
Reachable == <<rec, live, [i \in Sessions |-> IF Pointed(i) THEN sess[i] ELSE Gone],
               pc, view, on, why, todo, want, syncs, writes>>
=============================================================================
