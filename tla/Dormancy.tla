------------------------------- MODULE Dormancy ------------------------------
(***************************************************************************)
(* internal/dormancy/dormancy.go: when a collector that reports nothing is  *)
(* put to sleep, and when it is looked at again.                            *)
(*                                                                         *)
(* A dormancy.State is a record, and its methods are operators on it.  An   *)
(* observation is a payload: its timestamp and what it holds.  Instants     *)
(* start at 1, for 0 is the code's "never".                                 *)
(***************************************************************************)
EXTENDS Naturals

CONSTANTS EmptyThreshold, Backoff, MaxBackoff, ProbeTimeout, Restamp

ASSUME OptionsAssumption ==
    /\ EmptyThreshold \in Nat \ {0} /\ Backoff \in Nat \ {0}
    /\ MaxBackoff \in Nat /\ Backoff <= MaxBackoff
    /\ ProbeTimeout \in Nat \ {0} /\ Restamp \in Nat

Awake ==
    [streak |-> 0, dormant |-> FALSE, probing |-> FALSE, lastTS |-> 0, wakeAt |-> 0,
     probeDeadline |-> 0, lastCountedAt |-> 0, delay |-> Backoff]

Bad(obs) == obs.holds # "rows"

SleepFor(st, delay, now) ==
    [st EXCEPT !.dormant = TRUE, !.streak = 0, !.delay = delay, !.wakeAt = now + delay]

BackOff(st, now) ==
    LET delay == IF 2 * st.delay < MaxBackoff THEN 2 * st.delay ELSE MaxBackoff
    IN  [st EXCEPT !.probing = FALSE, !.delay = delay, !.wakeAt = now + delay]

\* Faulty form: a payload that stands still is counted on every look.
CountsEveryLook(st, obs, now) == obs.ts # st.lastTS \/ (Bad(obs) /\ ~st.dormant)

\* Whether an observation is evidence: a new payload, or a bad one that has
\* stood for Restamp since it was last counted.
Counts(st, obs, now) ==
    \/ obs.ts # st.lastTS
    \/ /\ Bad(obs) /\ ~st.dormant
       /\ st.lastCountedAt # 0 /\ now >= st.lastCountedAt + Restamp

Observe(st, obs, now) ==
    LET seen == [st EXCEPT !.lastTS = obs.ts, !.lastCountedAt = now]
        more == [seen EXCEPT !.streak = @ + 1]
    IN  CASE obs.ts = 0 \/ ~Counts(st, obs, now) -> st
          [] obs.ts # 0 /\ Counts(st, obs, now) /\ ~Bad(obs) ->
                [seen EXCEPT !.streak = 0, !.delay = Backoff, !.probing = FALSE,
                             !.dormant = FALSE, !.wakeAt = IF st.dormant THEN 0 ELSE @]
          [] obs.ts # 0 /\ Counts(st, obs, now) /\ Bad(obs) ->
                CASE st.dormant -> BackOff(seen, now)
                  [] ~st.dormant /\ obs.holds = "nothing supported" ->
                        SleepFor(seen, MaxBackoff, now)
                  [] ~st.dormant /\ obs.holds = "nothing" ->
                        IF more.streak < EmptyThreshold THEN more
                        ELSE SleepFor(more, Backoff, now)

\* DueForProbe answers, and settles a probe that never reported back.
DueForProbe(st, now) == st.dormant /\ ~st.probing /\ now >= st.wakeAt

\* Faulty form: a pure predicate, which leaves a lost probe outstanding.
SettledNever(st, now) == st

Settled(st, now) ==
    IF st.dormant /\ st.probing /\ now >= st.probeDeadline THEN BackOff(st, now) ELSE st

MarkProbed(st, now) == [st EXCEPT !.probing = TRUE, !.probeDeadline = now + ProbeTimeout]

Reset(st) == Awake
=============================================================================
