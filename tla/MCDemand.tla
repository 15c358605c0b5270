------------------------------- MODULE MCDemand ------------------------------
(* Two states that differ only by the names of the timestamps, by a shift of  *)
(* the clock, or by how long ago something is once nothing asks, are one.     *)
EXTENDS Demand

Least(S) == CHOOSE x \in S : \A y \in S : x <= y
Cap(n, k) == Least({n, k})
Ago(t, k) == Cap(now - t, k)        \* t is in the past
Until(t) == IF t > now THEN t - now ELSE 0

Longest == MaxBackoff + ProbeTimeout + 2

Same(a, b) == a # 0 /\ a = b
Sleep ==
    <<st.streak, st.dormant, st.probing, st.delay,
      IF st.dormant THEN Until(st.wakeAt) ELSE 0,
      IF st.probing THEN Until(st.probeDeadline) ELSE 0,
      IF st.dormant \/ st.lastCountedAt = 0 THEN 0 ELSE 1 + Ago(st.lastCountedAt, Restamp)>>
History ==
    <<IF connected /\ menu = "rows" /\ st.dormant THEN Ago(asked, Longest) ELSE 0,
      IF spell.from = 0 THEN 0 ELSE 1 + Ago(spell.from, EmptyThreshold * Restamp),
      Cap(spell.readings, EmptyThreshold), spell.slept>>
View ==
    <<menu, room, connected, first, pending, running, armed, leaving, where,
      payload.ts = 0, payload.holds, obs.ts = 0, obs.holds, st.lastTS = 0,
      Same(payload.ts, obs.ts), Same(payload.ts, st.lastTS), Same(obs.ts, st.lastTS),
      Sleep, History, JudgeDue, judgedAt = 0, bounds>>
=============================================================================
