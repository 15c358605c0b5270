------------------------------ MODULE MCCredProf -----------------------------
(* One router, which has an account under the profile's second name that      *)
(* MikroDash did not make.                                                    *)
EXTENDS CredProf
CONSTANTS r1, a, b, w1
MCTheirs == {<<r1, b>>}
=============================================================================
