---------------------------- MODULE MCConnState -----------------------------
(* ConnState with model values for the sessions of one router.             *)
EXTENDS ConnState

CONSTANTS s1, s2

=============================================================================
