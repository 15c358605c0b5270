---------------------------- MODULE MCRosStream -----------------------------
EXTENDS RosStream, TLC

CONSTANTS h1, h2, i1, i2, i3

\* Two collectors that share one interface and each have one of their own.
MCWant == h1 :> {i1, i2} @@ h2 :> {i2, i3}
=============================================================================
