------------------------------- MODULE Rollout -------------------------------
(***************************************************************************)
(* What a deploy to several routers promises, whatever goes wrong: the      *)
(* routers are changed one at a time and in order; the second is begun only *)
(* after the first is known to have worked and a person has said so, and    *)
(* each later one only after the one before it worked; once a router is     *)
(* passed over none is begun any more.                                      *)
(***************************************************************************)
EXTENDS Naturals, Sequences

CONSTANTS Routers, Orders \* Orders: the sequences of routers a run may be given

VARIABLES order, verdict, go

vars == <<order, verdict, go>>

Outcomes == {"applied", "preflight-failed", "failed", "failed-partial", "unknown"}

Init == order = <<>> /\ verdict = [r \in Routers |-> "none"] /\ go = FALSE

Open(s) ==
    /\ order = <<>> /\ order' = s /\ s # <<>>
    /\ verdict' = [r \in Routers |-> IF \E i \in DOMAIN s : s[i] = r THEN "pending" ELSE "none"]
    /\ UNCHANGED go

Begin(i) ==
    /\ verdict[order[i]] = "pending"
    /\ \A j \in 1 .. i - 1 : verdict[order[j]] = "applied"
    /\ i > 1 => go
    /\ verdict' = [verdict EXCEPT ![order[i]] = "applying"]
    /\ UNCHANGED <<order, go>>

Continue ==
    /\ order # <<>> /\ verdict[order[1]] = "applied"
    /\ go' = TRUE
    /\ UNCHANGED <<order, verdict>>

\* What is not begun is passed over.
Passed(v) == IF v = "pending" THEN "not-attempted" ELSE v

\* The router is finished with, and unless it worked so is the run.
Finish(i, o) ==
    /\ verdict[order[i]] = "applying"
    /\ LET v == [verdict EXCEPT ![order[i]] = o] IN
            verdict' = IF o = "applied" THEN v ELSE [r \in Routers |-> Passed(v[r])]
    /\ UNCHANGED <<order, go>>

\* The run is stopped between routers.
Stop ==
    /\ \A r \in Routers : verdict[r] # "applying"
    /\ verdict' = [r \in Routers |-> Passed(verdict[r])]
    /\ UNCHANGED <<order, go>>

\* MikroDash is restarted: what it was doing to a router, nobody can say.
Interrupt ==
    /\ verdict' = [r \in Routers |->
                    IF verdict[r] = "applying" THEN "unknown" ELSE Passed(verdict[r])]
    /\ UNCHANGED <<order, go>>

Next ==
    \/ \E s \in Orders : Open(s)
    \/ \E i \in DOMAIN order : Begin(i) \/ \E o \in Outcomes : Finish(i, o)
    \/ Continue \/ Stop \/ Interrupt

Spec == Init /\ [][Next]_vars
=============================================================================
