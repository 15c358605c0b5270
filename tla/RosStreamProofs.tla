--------------------------- MODULE RosStreamProofs ---------------------------
(***************************************************************************)
(* For any number of collectors, fills and columns: however joins, releases *)
(* and the watchdog interleave, whichever Stream call fails and whenever    *)
(* the connection drops, a fill has one channel at most, the one its stop   *)
(* function stops, and the map holds the fill exactly while it is held.     *)
(* Then the rows of one fill (StreamRounds), for any table, any windows and *)
(* any number of reopens, failing ones among them, and deaths of the channel.*)
(***************************************************************************)
EXTENDS RosStream, StreamRounds, WellFoundedInduction, TLAPS

\* What a collector's place in the code says about its fill: outside it has
\* none, and a fill it is at was made; it is a holder while it joins and holds.
AtFits ==
    \A h \in Holders :
        /\ pc[h] = "out" <=> at[h] = None
        /\ at[h] # None => at[h] <= made
        /\ pc[h] \in {"join", "in", "failed"} => h \in holders[at[h]]
        /\ \A f \in Fills : h \in holders[f] =>
              at[h] = f /\ pc[h] \in {"join", "stopping", "opening", "opened", "failed", "in"}

\* A fill that is closed, or is about to be, has no holders; what was not made
\* yet is neither closed nor watched.
ClosedFits ==
    /\ \A h \in Holders : pc[h] \in {"closing", "closed"} => holders[at[h]] = {}
    /\ \A f \in Fills : closed[f] \/ watch[f] # "none" \/ current = f => f <= made

\* Who owns f.openMu is inside a change of that fill's channel, and the reverse.
LockFits ==
    /\ \A h \in Holders : pc[h] \in {"stopping", "opening", "opened", "closed"} => openMu[at[h]] = h
    /\ \A f \in Fills :
        /\ openMu[f] \in Holders =>
              at[openMu[f]] = f /\ pc[openMu[f]] \in {"stopping", "opening", "opened", "closed"}
        /\ openMu[f] = Watchdog <=> watch[f] \in {"stopping", "opening", "opened"}

\* A channel is the one that the fill's stop function stops, or that the owner of
\* openMu has taken over from it or has just opened.
ChansFit ==
    \A c \in chans :
        /\ openMu[c.fill] = None => c = stop[c.fill]
        /\ openMu[c.fill] = Watchdog =>
              \/ watch[c.fill] = "stopping" /\ c = stop[c.fill]
              \/ watch[c.fill] = "opened" /\ c = Opening(c.fill, Watchdog)
        /\ \A h \in Holders : openMu[c.fill] = h =>
              \/ pc[h] \in {"stopping", "closed"} /\ c = old[h]
              \/ pc[h] = "opened" /\ c = Opening(c.fill, h)

\* The inductive invariant.  OneChannel follows from ChansFit alone, which needs
\* LockFits to know that nobody but openMu's owner changes the channel.
Inv == TypeOK /\ HeldFillIsCurrent /\ AtFits /\ ClosedFits /\ LockFits /\ ChansFit
\* The command merged for some holders is one of the commands.
LEMMA MergeType == ASSUME NEW hs \in SUBSET Holders PROVE Merge(hs) \in SUBSET Items
BY WantAssumption DEF Merge

\* The channel that an actor opens for a fill is one of the channels.
LEMMA OpeningType ==
    ASSUME TypeOK, NEW f \in Fills, NEW a \in Actors PROVE Opening(f, a) \in Channel
BY DEF TypeOK, Opening, Channel

\* A cache that streams nothing.
LEMMA InitInv == Init => Inv
BY FillsAssumption, NoneAssumption, WatchdogAssumption
   DEF Init, Inv, TypeOK, HeldFillIsCurrent, AtFits, ClosedFits, LockFits, ChansFit, Fills, Actors, PC, WatchPC

\* Every step keeps the invariant.
LEMMA NextInv == Inv /\ [Next]_vars => Inv'
<1> SUFFICES ASSUME Inv, [Next]_vars PROVE Inv'
  OBVIOUS
<1> USE NoneAssumption, WatchdogAssumption DEF Actors
<1>1. CASE UNCHANGED vars
  BY <1>1 DEF vars, fillVars, Inv, TypeOK, HeldFillIsCurrent, AtFits, ClosedFits, LockFits, ChansFit, Opening
<1>2. ASSUME NEW h \in Holders, Join(h) PROVE Inv'
  <2>1. TypeOK'
    <3>1. CASE current = None
      <4>1. made + 1 \in Fills /\ made + 1 \in 0..MaxFills
        BY <1>2, <3>1, FillsAssumption DEF Join, Inv, TypeOK, Fills
      <4>2. holders' \in [Fills -> SUBSET Holders] /\ cmd' \in [Fills -> SUBSET Items]
        BY <1>2, <3>1, <4>1, WantAssumption DEF Join, Inv, TypeOK
      <4>3. want' \in [Holders -> SUBSET Items]
        BY <1>2, <3>1, <4>1, MergeType DEF Join, Inv, TypeOK
      <4>4. at' \in [Holders -> Fills \cup {None}] /\ first' \in [Holders -> BOOLEAN] /\ pc' \in [Holders -> PC]
        BY <1>2, <3>1, <4>1 DEF Join, Inv, TypeOK, PC
      <4> QED
        BY <1>2, <3>1, <4>1, <4>2, <4>3, <4>4 DEF Join, Inv, TypeOK
    <3>2. CASE current # None
      BY <1>2, <3>2, MergeType DEF Join, Inv, TypeOK, PC
    <3> QED
      BY <3>1, <3>2
  <2>2. HeldFillIsCurrent'
    BY <1>2 DEF Join, Inv, TypeOK, HeldFillIsCurrent, AtFits, ClosedFits
  <2>3. AtFits'
    <3>1. CASE current = None
      <4>1. made + 1 \in Fills /\ made \in Int /\ \A f \in Fills : f \in Int
        BY <1>2, <3>1, FillsAssumption DEF Join, Inv, TypeOK, Fills
      <4> QED
        BY <1>2, <3>1, <4>1 DEF Join, Inv, TypeOK, HeldFillIsCurrent, AtFits
    <3>2. CASE current # None
      BY <1>2, <3>2 DEF Join, Inv, TypeOK, HeldFillIsCurrent, AtFits, ClosedFits
    <3> QED
      BY <3>1, <3>2
  <2>4. ClosedFits'
    <3>1. CASE current = None
      <4>1. made + 1 \in Fills /\ made \in Int /\ \A f \in Fills : f \in Int
        BY <1>2, <3>1, FillsAssumption DEF Join, Inv, TypeOK, Fills
      <4> QED
        BY <1>2, <3>1, <4>1 DEF Join, Inv, TypeOK, HeldFillIsCurrent, AtFits, ClosedFits
    <3>2. CASE current # None
      BY <1>2, <3>2 DEF Join, Inv, TypeOK, HeldFillIsCurrent, AtFits, ClosedFits
    <3> QED
      BY <3>1, <3>2
  <2>5. LockFits'
    BY <1>2 DEF Join, Inv, TypeOK, AtFits, LockFits
  <2>6. ChansFit'
    BY <1>2 DEF Join, Inv, TypeOK, AtFits, ClosedFits, LockFits, ChansFit, Opening, Channel
  <2> QED
    BY <2>1, <2>2, <2>3, <2>4, <2>5, <2>6 DEF Inv
<1>3. ASSUME NEW h \in Holders, Release(h) PROVE Inv'
  <2>1. at[h] \in Fills
    BY <1>3 DEF Release, Inv, TypeOK, AtFits
  <2>2. TypeOK'
    <3>1. Merge(holders[at[h]] \ {h}) \in SUBSET Items
      BY <2>1, MergeType DEF Inv, TypeOK
    <3>2. pc' \in [Holders -> PC]
      BY <1>3 DEF Release, Inv, TypeOK, PC
    <3>3. want' \in [Holders -> SUBSET Items]
      BY <1>3, <3>1, Zenon DEF Release, Inv, TypeOK
    <3>4. done' \in [Fills -> BOOLEAN]
      BY <1>3 DEF Release, Inv, TypeOK
    <3>5. holders' \in [Fills -> SUBSET Holders] /\ current' \in Fills \cup {None}
      BY <1>3 DEF Release, Leave, Inv, TypeOK
    <3> QED
      BY <1>3, <3>2, <3>3, <3>4, <3>5 DEF Release, Inv, TypeOK
  <2>3. HeldFillIsCurrent'
    BY <1>3, <2>1 DEF Release, Leave, Inv, TypeOK, HeldFillIsCurrent, AtFits, ClosedFits
  <2>4. AtFits'
    BY <1>3, <2>1 DEF Release, Leave, Inv, TypeOK, HeldFillIsCurrent, AtFits, ClosedFits
  <2>5. ClosedFits'
    BY <1>3, <2>1 DEF Release, Leave, Inv, TypeOK, HeldFillIsCurrent, AtFits, ClosedFits
  <2>6. LockFits'
    BY <1>3, <2>1 DEF Release, Leave, Inv, TypeOK, AtFits, LockFits
  <2>7. ChansFit'
    BY <1>3, <2>1 DEF Release, Leave, Inv, TypeOK, AtFits, ClosedFits, LockFits, ChansFit, Opening, Channel
  <2> QED
    BY <2>2, <2>3, <2>4, <2>5, <2>6, <2>7 DEF Inv
<1>4. ASSUME NEW h \in Holders, Reopen(h) PROVE Inv'
  <2>1. at[h] \in Fills
    BY <1>4 DEF Reopen, Inv, TypeOK, AtFits
  <2>2. TypeOK'
    <3>1. CASE stop[at[h]] # None /\ cmd[at[h]] = want[h]
      <4>1. pc' \in [Holders -> PC] /\ at' \in [Holders -> Fills \cup {None}]
        BY <1>4, <2>1, <3>1 DEF Reopen, Settled, Inv, TypeOK, PC
      <4>2. watch' \in [Fills -> WatchPC]
        BY <1>4, <2>1, <3>1 DEF Reopen, Settled, Inv, TypeOK, WatchPC
      <4> QED
        BY <1>4, <3>1, <4>1, <4>2 DEF Reopen, Settled, Inv, TypeOK
    <3>2. CASE ~(stop[at[h]] # None /\ cmd[at[h]] = want[h])
      BY <1>4, <2>1, <3>2, SMTT(30) DEF Reopen, Inv, TypeOK, PC
    <3> QED
      BY <3>1, <3>2
  <2>3. HeldFillIsCurrent'
    BY <1>4, <2>1 DEF Reopen, Settled, Inv, TypeOK, HeldFillIsCurrent, AtFits, ClosedFits
  <2>4. AtFits'
    BY <1>4, <2>1 DEF Reopen, Settled, Inv, TypeOK, HeldFillIsCurrent, AtFits, ClosedFits
  <2>5. ClosedFits'
    BY <1>4, <2>1 DEF Reopen, Settled, Inv, TypeOK, HeldFillIsCurrent, AtFits, ClosedFits
  <2>6. LockFits'
    <3>1. CASE stop[at[h]] # None /\ cmd[at[h]] = want[h]
      BY <1>4, <2>1, <3>1 DEF Reopen, Settled, Inv, TypeOK, AtFits, LockFits
    <3>2. CASE ~(stop[at[h]] # None /\ cmd[at[h]] = want[h])
      BY <1>4, <2>1, <3>2, SMTT(30) DEF Reopen, Settled, Inv, TypeOK, AtFits, LockFits
    <3> QED
      BY <3>1, <3>2
  <2>7. ChansFit'
    BY <1>4, <2>1, SMTT(30) DEF Reopen, Settled, Inv, TypeOK, AtFits, ClosedFits, LockFits, ChansFit, Opening, Channel
  <2> QED
    BY <2>2, <2>3, <2>4, <2>5, <2>6, <2>7 DEF Inv
<1>5. ASSUME NEW h \in Holders, StopOld(h) PROVE Inv'
  <2>1. at[h] \in Fills
    BY <1>5 DEF StopOld, Inv, TypeOK, AtFits
  <2>2. TypeOK'
    BY <1>5, <2>1 DEF StopOld, fillVars, Inv, TypeOK, PC, WatchPC
  <2>3. HeldFillIsCurrent'
    BY <1>5, <2>1 DEF StopOld, fillVars, Inv, TypeOK, HeldFillIsCurrent, AtFits, ClosedFits
  <2>4. AtFits'
    BY <1>5, <2>1 DEF StopOld, fillVars, Inv, TypeOK, HeldFillIsCurrent, AtFits, ClosedFits
  <2>5. ClosedFits'
    BY <1>5, <2>1 DEF StopOld, fillVars, Inv, TypeOK, HeldFillIsCurrent, AtFits, ClosedFits
  <2>6. LockFits'
    BY <1>5, <2>1 DEF StopOld, fillVars, Inv, TypeOK, AtFits, LockFits
  <2>7. ChansFit'
    BY <1>5, <2>1 DEF StopOld, fillVars, Inv, TypeOK, AtFits, ClosedFits, LockFits, ChansFit, Opening, Channel
  <2> QED
    BY <2>2, <2>3, <2>4, <2>5, <2>6, <2>7 DEF Inv
<1>6. ASSUME NEW h \in Holders, StreamOk(h) PROVE Inv'
  <2>1. at[h] \in Fills
    BY <1>6 DEF StreamOk, Inv, TypeOK, AtFits
  <2>2. TypeOK'
    BY <1>6, <2>1, OpeningType DEF StreamOk, fillVars, Inv, TypeOK, PC, WatchPC
  <2>3. HeldFillIsCurrent'
    BY <1>6, <2>1 DEF StreamOk, fillVars, Inv, TypeOK, HeldFillIsCurrent, AtFits, ClosedFits
  <2>4. AtFits'
    BY <1>6, <2>1 DEF StreamOk, fillVars, Inv, TypeOK, HeldFillIsCurrent, AtFits, ClosedFits
  <2>5. ClosedFits'
    BY <1>6, <2>1 DEF StreamOk, fillVars, Inv, TypeOK, HeldFillIsCurrent, AtFits, ClosedFits
  <2>6. LockFits'
    BY <1>6, <2>1 DEF StreamOk, fillVars, Inv, TypeOK, AtFits, LockFits
  <2>7. ChansFit'
    BY <1>6, <2>1 DEF StreamOk, fillVars, Inv, TypeOK, AtFits, ClosedFits, LockFits, ChansFit, Opening, Channel
  <2> QED
    BY <2>2, <2>3, <2>4, <2>5, <2>6, <2>7 DEF Inv
<1>7. ASSUME NEW h \in Holders, StreamFails(h) PROVE Inv'
  <2>1. at[h] \in Fills
    BY <1>7 DEF StreamFails, Inv, TypeOK, AtFits
  <2>2. TypeOK'
    BY <1>7, <2>1 DEF StreamFails, Inv, TypeOK, PC, WatchPC
  <2>3. HeldFillIsCurrent'
    BY <1>7, <2>1 DEF StreamFails, Inv, TypeOK, HeldFillIsCurrent, AtFits, ClosedFits
  <2>4. AtFits'
    BY <1>7, <2>1 DEF StreamFails, Inv, TypeOK, HeldFillIsCurrent, AtFits, ClosedFits
  <2>5. ClosedFits'
    BY <1>7, <2>1 DEF StreamFails, Inv, TypeOK, HeldFillIsCurrent, AtFits, ClosedFits
  <2>6. LockFits'
    <3>1. CASE h \in holders[at[h]]
      BY <1>7, <2>1, <3>1 DEF StreamFails, Inv, TypeOK, AtFits, LockFits
    <3>2. CASE h \notin holders[at[h]]
      BY <1>7, <2>1, <3>2 DEF StreamFails, Inv, TypeOK, AtFits, LockFits
    <3> QED
      BY <3>1, <3>2
  <2>7. ChansFit'
    BY <1>7, <2>1 DEF StreamFails, Inv, TypeOK, AtFits, ClosedFits, LockFits, ChansFit, Opening, Channel
  <2> QED
    BY <2>2, <2>3, <2>4, <2>5, <2>6, <2>7 DEF Inv
<1>8. ASSUME NEW h \in Holders, Opened(h) PROVE Inv'
  <2>1. at[h] \in Fills
    BY <1>8 DEF Opened, Inv, TypeOK, AtFits
  <2>2. TypeOK'
    <3>1. Opening(at[h], h) \in Channel
      BY <2>1, OpeningType DEF Inv
    <3>2. stop' \in [Fills -> Channel \cup {None}]
      BY <1>8, <3>1 DEF Opened, Install, Inv, TypeOK
    <3>3. moved' \in [Fills -> BOOLEAN]
      BY <1>8 DEF Opened, Install, Inv, TypeOK
    <3>4. chans' \in SUBSET Channel
      BY <1>8 DEF Opened, Install, Inv, TypeOK
    <3>5. pc' \in [Holders -> PC] /\ at' \in [Holders -> Fills \cup {None}]
      BY <1>8, <2>1 DEF Opened, Settled, Inv, TypeOK, PC
    <3>6. watch' \in [Fills -> WatchPC]
      BY <1>8, <2>1 DEF Opened, Settled, Inv, TypeOK, WatchPC
    <3> QED
      BY <1>8, <3>2, <3>3, <3>4, <3>5, <3>6 DEF Opened, Settled, Inv, TypeOK
  <2>3. HeldFillIsCurrent'
    BY <1>8, <2>1 DEF Opened, Settled, Install, Inv, TypeOK, HeldFillIsCurrent, AtFits, ClosedFits
  <2>4. AtFits'
    BY <1>8, <2>1 DEF Opened, Settled, Install, Inv, TypeOK, HeldFillIsCurrent, AtFits, ClosedFits
  <2>5. ClosedFits'
    BY <1>8, <2>1 DEF Opened, Settled, Install, Inv, TypeOK, HeldFillIsCurrent, AtFits, ClosedFits
  <2>6. LockFits'
    BY <1>8, <2>1 DEF Opened, Settled, Install, Inv, TypeOK, AtFits, LockFits
  <2>7. ChansFit'
    <3>1. openMu[at[h]] = h /\ openMu' = [openMu EXCEPT ![at[h]] = None]
      BY <1>8 DEF Opened, Inv, LockFits
    <3>2. CASE closed[at[h]]
      <4>1. \A c \in chans' : c \in chans /\ c.fill # at[h]
        BY <1>8, <3>1, <3>2 DEF Opened, Install, Inv, ChansFit
      <4> QED
        BY <1>8, <2>1, <3>1, <3>2, <4>1 DEF Opened, Install, Settled, Inv, TypeOK, ChansFit, LockFits, Opening, Channel
    <3>3. CASE ~closed[at[h]]
      BY <1>8, <2>1, <3>3 DEF Opened, Install, Settled, Inv, TypeOK, AtFits, LockFits, ChansFit, Opening, Channel
    <3> QED
      BY <3>2, <3>3
  <2> QED
    BY <2>2, <2>3, <2>4, <2>5, <2>6, <2>7 DEF Inv
<1>9. ASSUME NEW h \in Holders, Failed(h) PROVE Inv'
  <2>1. at[h] \in Fills
    BY <1>9 DEF Failed, Inv, TypeOK, AtFits
  <2>2. TypeOK'
    BY <1>9, <2>1 DEF Failed, Leave, Inv, TypeOK, PC, WatchPC
  <2>3. HeldFillIsCurrent'
    BY <1>9, <2>1 DEF Failed, Leave, Inv, TypeOK, HeldFillIsCurrent, AtFits, ClosedFits
  <2>4. AtFits'
    BY <1>9, <2>1 DEF Failed, Leave, Inv, TypeOK, HeldFillIsCurrent, AtFits, ClosedFits
  <2>5. ClosedFits'
    BY <1>9, <2>1 DEF Failed, Leave, Inv, TypeOK, HeldFillIsCurrent, AtFits, ClosedFits
  <2>6. LockFits'
    BY <1>9, <2>1, SMTT(30) DEF Failed, Leave, Inv, TypeOK, AtFits, LockFits
  <2>7. ChansFit'
    BY <1>9, <2>1 DEF Failed, Leave, Inv, TypeOK, AtFits, ClosedFits, LockFits, ChansFit, Opening, Channel
  <2> QED
    BY <2>2, <2>3, <2>4, <2>5, <2>6, <2>7 DEF Inv
<1>10. ASSUME NEW h \in Holders, CloseFill(h) PROVE Inv'
  <2>1. at[h] \in Fills
    BY <1>10 DEF CloseFill, Inv, TypeOK, AtFits
  <2>2. TypeOK'
    BY <1>10, <2>1 DEF CloseFill, Inv, TypeOK, PC, WatchPC
  <2>3. HeldFillIsCurrent'
    BY <1>10, <2>1 DEF CloseFill, Inv, TypeOK, HeldFillIsCurrent, AtFits, ClosedFits
  <2>4. AtFits'
    BY <1>10, <2>1 DEF CloseFill, Inv, TypeOK, HeldFillIsCurrent, AtFits, ClosedFits
  <2>5. ClosedFits'
    BY <1>10, <2>1 DEF CloseFill, Inv, TypeOK, HeldFillIsCurrent, AtFits, ClosedFits
  <2>6. LockFits'
    BY <1>10, <2>1 DEF CloseFill, Inv, TypeOK, AtFits, LockFits
  <2>7. ChansFit'
    BY <1>10, <2>1 DEF CloseFill, Inv, TypeOK, AtFits, ClosedFits, LockFits, ChansFit, Opening, Channel
  <2> QED
    BY <2>2, <2>3, <2>4, <2>5, <2>6, <2>7 DEF Inv
<1>11. ASSUME NEW h \in Holders, StopLast(h) PROVE Inv'
  <2>1. at[h] \in Fills
    BY <1>11 DEF StopLast, Inv, TypeOK, AtFits
  <2>2. TypeOK'
    BY <1>11, <2>1 DEF StopLast, Inv, TypeOK, PC, WatchPC
  <2>3. HeldFillIsCurrent'
    BY <1>11, <2>1 DEF StopLast, Inv, TypeOK, HeldFillIsCurrent, AtFits, ClosedFits
  <2>4. AtFits'
    BY <1>11, <2>1 DEF StopLast, Inv, TypeOK, HeldFillIsCurrent, AtFits, ClosedFits
  <2>5. ClosedFits'
    BY <1>11, <2>1 DEF StopLast, Inv, TypeOK, HeldFillIsCurrent, AtFits, ClosedFits
  <2>6. LockFits'
    BY <1>11, <2>1 DEF StopLast, Inv, TypeOK, AtFits, LockFits
  <2>7. ChansFit'
    BY <1>11, <2>1 DEF StopLast, Inv, TypeOK, AtFits, ClosedFits, LockFits, ChansFit, Opening, Channel
  <2> QED
    BY <2>2, <2>3, <2>4, <2>5, <2>6, <2>7 DEF Inv
<1>12. ASSUME NEW f \in Fills, Judge(f) PROVE Inv'
  <2>1. TypeOK'
    BY <1>12 DEF Judge, Others, Inv, TypeOK, PC, WatchPC
  <2>2. HeldFillIsCurrent'
    BY <1>12 DEF Judge, Others, Inv, TypeOK, HeldFillIsCurrent, AtFits, ClosedFits
  <2>3. AtFits'
    BY <1>12 DEF Judge, Others, Inv, TypeOK, HeldFillIsCurrent, AtFits, ClosedFits
  <2>4. ClosedFits'
    BY <1>12 DEF Judge, Others, Inv, TypeOK, HeldFillIsCurrent, AtFits, ClosedFits
  <2>5. LockFits'
    BY <1>12 DEF Judge, Others, Inv, TypeOK, AtFits, LockFits
  <2>6. ChansFit'
    BY <1>12 DEF Judge, Others, Inv, TypeOK, AtFits, ClosedFits, LockFits, ChansFit, Opening, Channel
  <2> QED
    BY <2>1, <2>2, <2>3, <2>4, <2>5, <2>6 DEF Inv
<1>13. ASSUME NEW f \in Fills, Restart(f) PROVE Inv'
  <2>1. TypeOK'
    BY <1>13 DEF Restart, Others, Inv, TypeOK, PC, WatchPC
  <2>2. HeldFillIsCurrent'
    BY <1>13 DEF Restart, Others, Inv, TypeOK, HeldFillIsCurrent, AtFits, ClosedFits
  <2>3. AtFits'
    BY <1>13 DEF Restart, Others, Inv, TypeOK, HeldFillIsCurrent, AtFits, ClosedFits
  <2>4. ClosedFits'
    BY <1>13 DEF Restart, Others, Inv, TypeOK, HeldFillIsCurrent, AtFits, ClosedFits
  <2>5. LockFits'
    BY <1>13 DEF Restart, Others, Inv, TypeOK, AtFits, LockFits
  <2>6. ChansFit'
    BY <1>13 DEF Restart, Others, Inv, TypeOK, AtFits, ClosedFits, LockFits, ChansFit, Opening, Channel
  <2> QED
    BY <2>1, <2>2, <2>3, <2>4, <2>5, <2>6 DEF Inv
<1>14. ASSUME NEW f \in Fills, StopSilent(f) PROVE Inv'
  <2>1. TypeOK'
    BY <1>14 DEF StopSilent, Others, Inv, TypeOK, PC, WatchPC
  <2>2. HeldFillIsCurrent'
    BY <1>14 DEF StopSilent, Others, Inv, TypeOK, HeldFillIsCurrent, AtFits, ClosedFits
  <2>3. AtFits'
    BY <1>14 DEF StopSilent, Others, Inv, TypeOK, HeldFillIsCurrent, AtFits, ClosedFits
  <2>4. ClosedFits'
    BY <1>14 DEF StopSilent, Others, Inv, TypeOK, HeldFillIsCurrent, AtFits, ClosedFits
  <2>5. LockFits'
    BY <1>14 DEF StopSilent, Others, Inv, TypeOK, AtFits, LockFits
  <2>6. ChansFit'
    BY <1>14 DEF StopSilent, Others, Inv, TypeOK, AtFits, ClosedFits, LockFits, ChansFit, Opening, Channel
  <2> QED
    BY <2>1, <2>2, <2>3, <2>4, <2>5, <2>6 DEF Inv
<1>15. ASSUME NEW f \in Fills, Restream(f) PROVE Inv'
  <2>1. TypeOK'
    <3>1. Opening(f, Watchdog) \in Channel
      BY OpeningType DEF Inv
    <3>2. chans' \in SUBSET Channel
      BY <1>15, <3>1 DEF Restream, Inv, TypeOK
    <3>3. watch' \in [Fills -> WatchPC]
      BY <1>15 DEF Restream, Inv, TypeOK, WatchPC
    <3>4. openMu' \in [Fills -> Actors \cup {None}]
      BY <1>15 DEF Restream, Inv, TypeOK
    <3> QED
      BY <1>15, <3>2, <3>3, <3>4 DEF Restream, Others, Inv, TypeOK
  <2>2. HeldFillIsCurrent'
    BY <1>15 DEF Restream, Others, Inv, TypeOK, HeldFillIsCurrent, AtFits, ClosedFits
  <2>3. AtFits'
    BY <1>15 DEF Restream, Others, Inv, TypeOK, HeldFillIsCurrent, AtFits, ClosedFits
  <2>4. ClosedFits'
    BY <1>15 DEF Restream, Others, Inv, TypeOK, HeldFillIsCurrent, AtFits, ClosedFits
  <2>5. LockFits'
    BY <1>15 DEF Restream, Others, Inv, TypeOK, AtFits, LockFits
  <2>6. ChansFit'
    BY <1>15 DEF Restream, Others, Inv, TypeOK, AtFits, ClosedFits, LockFits, ChansFit, Opening, Channel
  <2> QED
    BY <2>1, <2>2, <2>3, <2>4, <2>5, <2>6 DEF Inv
<1>16. ASSUME NEW f \in Fills, Restarted(f) PROVE Inv'
  <2>1. TypeOK'
    <3>1. Opening(f, Watchdog) \in Channel
      BY OpeningType DEF Inv
    <3>2. stop' \in [Fills -> Channel \cup {None}]
      BY <1>16, <3>1 DEF Restarted, Install, Inv, TypeOK
    <3>3. moved' \in [Fills -> BOOLEAN]
      BY <1>16 DEF Restarted, Install, Inv, TypeOK
    <3>4. chans' \in SUBSET Channel
      BY <1>16 DEF Restarted, Install, Inv, TypeOK
    <3> QED
      BY <1>16, <3>2, <3>3, <3>4 DEF Restarted, Others, Inv, TypeOK, WatchPC
  <2>2. HeldFillIsCurrent'
    BY <1>16 DEF Restarted, Install, Others, Inv, TypeOK, HeldFillIsCurrent, AtFits, ClosedFits
  <2>3. AtFits'
    BY <1>16 DEF Restarted, Install, Others, Inv, TypeOK, HeldFillIsCurrent, AtFits, ClosedFits
  <2>4. ClosedFits'
    BY <1>16 DEF Restarted, Install, Others, Inv, TypeOK, HeldFillIsCurrent, AtFits, ClosedFits
  <2>5. LockFits'
    BY <1>16 DEF Restarted, Install, Others, Inv, TypeOK, AtFits, LockFits
  <2>6. ChansFit'
    <3> SUFFICES ASSUME NEW c \in chans'
                 PROVE  /\ openMu'[c.fill] = None => c = stop'[c.fill]
                        /\ openMu'[c.fill] = Watchdog =>
                              \/ watch'[c.fill] = "stopping" /\ c = stop'[c.fill]
                              \/ watch'[c.fill] = "opened" /\ c = Opening(c.fill, Watchdog)'
                        /\ \A h \in Holders : openMu'[c.fill] = h =>
                              \/ pc'[h] \in {"stopping", "closed"} /\ c = old'[h]
                              \/ pc'[h] = "opened" /\ c = Opening(c.fill, h)'
      BY DEF ChansFit
    <3>1. /\ c \in chans /\ c.fill \in Fills
          /\ UNCHANGED <<pc, old, cmd>>
          /\ openMu' = [openMu EXCEPT ![f] = None] /\ watch' = [watch EXCEPT ![f] = "idle"]
      BY <1>16 DEF Restarted, Install, Others, Inv, TypeOK, Channel
    <3>2. CASE c.fill = f
      <4>1. openMu'[f] = None /\ openMu[f] = Watchdog /\ watch[f] = "opened"
        BY <1>16, <3>1 DEF Restarted, Inv, TypeOK, LockFits
      <4>2. c = Opening(f, Watchdog)
        BY <3>1, <3>2, <4>1 DEF Inv, ChansFit
      <4>3. stop' = [stop EXCEPT ![f] = Opening(f, Watchdog)]
        BY <1>16, <4>2 DEF Restarted, Install
      <4>4. stop'[f] = c
        BY <4>2, <4>3 DEF Inv, TypeOK
      <4> QED
        BY <3>2, <4>1, <4>4
    <3>3. CASE c.fill # f
      <4>1. openMu'[c.fill] = openMu[c.fill] /\ watch'[c.fill] = watch[c.fill]
        BY <3>1, <3>3 DEF Inv, TypeOK
      <4>2. stop'[c.fill] = stop[c.fill]
        BY <1>16, <3>1, <3>3 DEF Restarted, Install, Inv, TypeOK
      <4>3. \A a \in Actors : Opening(c.fill, a)' = Opening(c.fill, a)
        BY <3>1 DEF Opening
      <4> QED
        BY <3>1, <4>1, <4>2, <4>3 DEF Inv, ChansFit
    <3> QED
      BY <3>2, <3>3
  <2> QED
    BY <2>1, <2>2, <2>3, <2>4, <2>5, <2>6 DEF Inv
<1>17. ASSUME NEW f \in Fills, WatchExits(f) PROVE Inv'
  <2>1. TypeOK'
    BY <1>17 DEF WatchExits, Others, Inv, TypeOK, PC, WatchPC
  <2>2. HeldFillIsCurrent'
    BY <1>17 DEF WatchExits, Others, Inv, TypeOK, HeldFillIsCurrent, AtFits, ClosedFits
  <2>3. AtFits'
    BY <1>17 DEF WatchExits, Others, Inv, TypeOK, HeldFillIsCurrent, AtFits, ClosedFits
  <2>4. ClosedFits'
    BY <1>17 DEF WatchExits, Others, Inv, TypeOK, HeldFillIsCurrent, AtFits, ClosedFits
  <2>5. LockFits'
    BY <1>17 DEF WatchExits, Others, Inv, TypeOK, AtFits, LockFits
  <2>6. ChansFit'
    BY <1>17 DEF WatchExits, Others, Inv, TypeOK, AtFits, ClosedFits, LockFits, ChansFit, Opening, Channel
  <2> QED
    BY <2>1, <2>2, <2>3, <2>4, <2>5, <2>6 DEF Inv
<1>18. ASSUME ConnectionLost PROVE Inv'
  BY <1>18 DEF ConnectionLost, Inv, TypeOK, HeldFillIsCurrent, AtFits, ClosedFits, LockFits, ChansFit, fillVars
<1> QED
  BY <1>1, <1>2, <1>3, <1>4, <1>5, <1>6, <1>7, <1>8, <1>9, <1>10, <1>11, <1>12, <1>13, <1>14, <1>15, <1>16, <1>17, <1>18 DEF Next, Change, Watch

\* The invariant holds throughout.
LEMMA InvHolds == Spec => []Inv
BY InitInv, NextInv, PTL DEF Spec

\* Fills, holders, channels and everybody's place in the code keep their types, for
\* any number of fills and holders.
THEOREM TypeCorrect == Spec => []TypeOK
BY InvHolds, PTL DEF Inv

\* openMu does its work: a join, a release and the watchdog together never have
\* two channels of one fill open, nor one that no stop function refers to.
THEOREM OneChannelHolds == Spec => []OneChannel
<1>1. Inv => OneChannel
  <2> SUFFICES ASSUME Inv PROVE OneChannel
    OBVIOUS
  <2>1. ASSUME NEW c \in chans, NEW d \in chans, c.fill = d.fill PROVE c = d
    <3>1. openMu[c.fill] \in Actors \cup {None}
      BY DEF Inv, TypeOK, Channel
    <3> QED
      BY <2>1, <3>1, WatchdogAssumption DEF Inv, ChansFit, Actors
  <2> QED
    BY <2>1 DEF OneChannel, Inv, ChansFit
<1> QED
  BY <1>1, InvHolds, PTL

\* The map holds the fill exactly while it has holders, and nobody is left
\* holding a closed one.
THEOREM HeldFillIsCurrentHolds == Spec => []HeldFillIsCurrent
BY InvHolds, PTL DEF Inv

-----------------------------------------------------------------------------
(* The rows of one fill: Min, Max and the counts of prints *)

\* A set of natural numbers has a least one.
LEMMA LeastNat ==
    ASSUME NEW T \in SUBSET Nat, T # {}
    PROVE  \E x \in T : \A y \in T : x <= y
<1> DEFINE R == OpToRel(<, Nat)
<1>1. IsWellFoundedOn(R, Nat)
  BY NatLessThanWellFounded
<1>2. R = {ss \in Nat \X Nat : ss[1] < ss[2]}
  BY Zenon DEF OpToRel
<1> HIDE DEF R
<1>3. PICK x \in T : \A y \in T : ~ (<<y, x>> \in R)
  BY <1>1, WFMin
<1>4. ASSUME NEW y \in T PROVE x <= y
  <2>1. x \in Nat /\ y \in Nat /\ <<y, x>> \notin R
    BY <1>3
  <2>2. y < x => <<y, x>> \in R
    BY <2>1, <1>2
  <2> QED
    BY <2>1, <2>2
<1> QED
  BY <1>4

\* Min of a set of natural numbers is in it.
LEMMA MinIn ==
    ASSUME NEW T \in SUBSET Nat, T # {}
    PROVE  Min(T) \in T
BY LeastNat DEF Min

\* Min of two integers.
LEMMA MinOfTwo ==
    ASSUME NEW a \in Int, NEW b \in Int PROVE Min({a, b}) = IF a <= b THEN a ELSE b
BY DEF Min

\* Max of two integers.
LEMMA MaxOfTwo ==
    ASSUME NEW a \in Int, NEW b \in Int PROVE Max({a, b}) = IF a >= b THEN a ELSE b
BY DEF Max

\* What one more print makes of a row's count.
LEMMA CountedValue ==
    ASSUME RoundsTypeOK, NEW k \in Named
    PROVE  /\ Counted(k) \in -3..3
           /\ k \in table => Counted(k) = IF seen[k] <= 0 THEN 1 ELSE IF seen[k] >= 2 THEN 3 ELSE seen[k] + 1
           /\ k \notin table => Counted(k) = IF seen[k] >= 0 THEN -1 ELSE IF seen[k] <= -2 THEN -3 ELSE seen[k] - 1
<1>1. seen[k] \in -3..3 /\ seen[k] \in Int /\ 0 \in Int /\ 3 \in Int /\ -3 \in Int
  BY DEF RoundsTypeOK
<1>2. CASE k \in table
  <2>1. Max({0, seen[k]}) = IF seen[k] <= 0 THEN 0 ELSE seen[k]
    BY <1>1, MaxOfTwo
  <2>2. Min({3, 1 + Max({0, seen[k]})}) = IF seen[k] <= 0 THEN 1 ELSE IF seen[k] >= 2 THEN 3 ELSE seen[k] + 1
    BY <1>1, <2>1, MinOfTwo
  <2> QED
    BY <1>1, <1>2, <2>2 DEF Counted
<1>3. CASE k \notin table
  <2>1. Min({0, seen[k]}) = IF seen[k] >= 0 THEN 0 ELSE seen[k]
    BY <1>1, MinOfTwo
  <2>2. Max({-3, Min({0, seen[k]}) - 1}) = IF seen[k] >= 0 THEN -1 ELSE IF seen[k] <= -2 THEN -3 ELSE seen[k] - 1
    BY <1>1, <2>1, MaxOfTwo
  <2> QED
    BY <1>1, <1>3, <2>2 DEF Counted
<1> QED
  BY <1>2, <1>3

\* What one more print makes of the count of prints apart.
LEMMA ApartValue ==
    ASSUME RoundsTypeOK, NEW over \in BOOLEAN
    PROVE  /\ Apart(over) \in 0..3
           /\ Apart(over) >= 1 => over
           /\ Apart(over) >= 2 => apart >= 1
           /\ Apart(over) >= 3 => apart >= 2
<1>1. apart \in 0..3 /\ apart + 1 \in Int
  BY DEF RoundsTypeOK
<1>2. Min({3, apart + 1}) = IF 3 <= apart + 1 THEN 3 ELSE apart + 1
  BY <1>1, MinOfTwo
<1> QED
  BY <1>1, <1>2 DEF Apart

-----------------------------------------------------------------------------
(* The types *)

\* The least time that the clocks of the fill can show.
LEMMA TimeFacts ==
    /\ MaxTime \in Nat /\ Stale \in Nat /\ Boundary \in Nat /\ Interval \in Nat
    /\ Boundary < Stale /\ Stale < MaxTime /\ Stale > 0
BY TimeAssumption DEF MaxTime

\* A clock that has moved still shows a time, or Never.
LEMMA LaterType ==
    ASSUME NEW n \in (0..MaxTime) \cup {Never}
    PROVE  /\ Later(n) \in (0..MaxTime) \cup {Never}
           /\ Later(n) = Never <=> n = Never
BY TimeFacts, NeverAssumption DEF Later

\* What the counts are after a print.
LEMMA SeenType ==
    ASSUME RoundsTypeOK
    PROVE  [k \in Named |-> Counted(k)] \in [Named -> -3..3]
BY CountedValue

\* The row that arrives is one of those still to come.
LEMMA NextRow ==
    ASSUME RoundsTypeOK, pend # {}
    PROVE  Min(pend) \in pend /\ Min(pend) \in Keys
BY MinIn, KeysAssumption DEF RoundsTypeOK

\* What one tick of the watchdog does to the rounds, and to the channel.
LEMMA WatchEffect ==
    ASSUME RoundsTypeOK, WatchTick
    PROVE  /\ pend = {} /\ UNCHANGED <<table, reopens>>
           /\ \/ ~GapEnds /\ UNCHANGED <<rows, round, published>>
              \/ GapEnds /\ rows' = round /\ round' = {} /\ published'
              \/ /\ restarted /\ quiet # Never /\ quiet > 2 * Stale
                 /\ rows' = {} /\ round' = {} /\ published'
           /\ published' \in BOOLEAN
           /\ \/ /\ lastRow < Stale
                 /\ quiet' = quiet \/ (quiet' = 0 /\ quiet # Never /\ quiet > 2 * Stale)
                 /\ UNCHANGED <<alive, pend, sincePrint, restarted, lastRow, seen, apart>>
              \/ /\ lastRow >= Stale /\ (Reprint(TRUE) \/ Unheard)
                 /\ restarted' /\ restarted' \in BOOLEAN /\ lastRow' = 0
                 /\ quiet' = 0 \/ (quiet' = quiet /\ quiet # Never)
<1> DEFINE rs1 == IF GapEnds THEN round ELSE rows
           r1 == IF GapEnds THEN {} ELSE round
           pub1 == published \/ GapEnds
           emptied == SilentTable(rs1, r1, pub1)
<1>1. /\ pend = {} /\ UNCHANGED <<table, reopens>>
      /\ rows' = IF emptied THEN {} ELSE rs1
      /\ round' = IF emptied THEN {} ELSE r1
      /\ published' = (pub1 \/ emptied)
      /\ \/ /\ lastRow < Stale
            /\ quiet' = IF emptied THEN 0 ELSE quiet
            /\ UNCHANGED <<alive, pend, sincePrint, restarted, lastRow, seen, apart>>
         \/ /\ lastRow >= Stale
            /\ Reprint(TRUE) \/ Unheard
            /\ restarted' = TRUE
            /\ quiet' = IF emptied THEN 0 ELSE QuietFrom
            /\ lastRow' = 0
  BY Zenon DEF WatchTick
<1>2. emptied => restarted /\ quiet # Never /\ quiet > 2 * Stale
  BY Zenon DEF SilentTable
<1>3. published \in BOOLEAN
  BY DEF RoundsTypeOK
<1>4. /\ rs1 = IF GapEnds THEN round ELSE rows
      /\ r1 = IF GapEnds THEN {} ELSE round
      /\ pub1 = (published \/ GapEnds)
      /\ emptied \in BOOLEAN
  BY Zenon DEF SilentTable
<1> HIDE DEF rs1, r1, pub1, emptied
<1>5. CASE emptied
  BY <1>1, <1>2, <1>3, <1>5, Zenon DEF QuietFrom
<1>6. CASE ~emptied
  <2>1. QuietFrom = 0 \/ (QuietFrom = quiet /\ quiet # Never)
    BY Zenon DEF QuietFrom
  <2>2. \/ ~GapEnds /\ UNCHANGED <<rows, round, published>>
        \/ GapEnds /\ rows' = round /\ round' = {} /\ published'
    BY <1>1, <1>3, <1>4, <1>6, Zenon
  <2> QED
    BY <1>1, <1>3, <1>4, <1>6, <2>1, <2>2, Zenon
<1> QED
  BY <1>5, <1>6

\* A print that begins, and a channel that is opened or not, keep the types.
LEMMA PrintingType ==
    ASSUME RoundsTypeOK, NEW over \in BOOLEAN
    PROVE  /\ Printing(over) => /\ pend' = table /\ sincePrint' \in 0..Interval
                                /\ seen' \in [Named -> -3..3] /\ apart' \in 0..3
           /\ Reprint(over) \/ Unheard =>
                 /\ alive' \in BOOLEAN /\ pend' \subseteq table /\ sincePrint' \in 0..Interval
                 /\ seen' \in [Named -> -3..3] /\ apart' \in 0..3
<1>1. Printing(over) => /\ pend' = table /\ sincePrint' \in 0..Interval
                        /\ seen' \in [Named -> -3..3] /\ apart' \in 0..3
  BY SeenType, ApartValue, TimeFacts DEF Printing, RoundsTypeOK
<1>2. Reprint(over) => alive' \in BOOLEAN /\ Printing(over)
  BY Zenon DEF Reprint
<1>3. Unheard => /\ alive' \in BOOLEAN /\ pend' = {} /\ sincePrint' \in 0..Interval
                 /\ seen' \in [Named -> -3..3] /\ apart' \in 0..3
  <2> SUFFICES ASSUME Unheard
               PROVE  /\ alive' \in BOOLEAN /\ pend' = {} /\ sincePrint' \in 0..Interval
                      /\ seen' \in [Named -> -3..3] /\ apart' \in 0..3
    OBVIOUS
  <2>1. alive' \in BOOLEAN
    BY Zenon DEF Unheard
  <2> QED
    BY <2>1 DEF Unheard, RoundsTypeOK
<1> QED
  BY <1>1, <1>2, <1>3

\* The types hold initially.
LEMMA RoundsTypeInit == RoundsInit => RoundsTypeOK
<1> SUFFICES ASSUME RoundsInit PROVE RoundsTypeOK
  OBVIOUS
<1>1. alive \in BOOLEAN /\ published \in BOOLEAN /\ restarted \in BOOLEAN
  BY Zenon DEF RoundsInit
<1> QED
  BY <1>1, TimeFacts, BoundsAssumption, KeysAssumption DEF RoundsInit, RoundsTypeOK, Named

\* Every step keeps the types.
LEMMA RoundsTypeNext == RoundsTypeOK /\ [RoundsNext]_roundsVars => RoundsTypeOK'
<1> SUFFICES ASSUME RoundsTypeOK, [RoundsNext]_roundsVars PROVE RoundsTypeOK'
  OBVIOUS
<1>1. CASE UNCHANGED roundsVars
  BY <1>1 DEF roundsVars, RoundsTypeOK
<1>2. CASE PrintTable
  <2>1. Printing(round = {} \/ lastRow > Boundary) /\ (round = {} \/ lastRow > Boundary) \in BOOLEAN
    BY <1>2, Zenon DEF PrintTable
  <2> QED
    BY <1>2, <2>1, PrintingType DEF PrintTable, RoundsTypeOK
<1>3. CASE ChannelDies
  <2>1. alive' \in BOOLEAN
    BY <1>3, Zenon DEF ChannelDies
  <2> QED
    BY <1>3, <2>1 DEF ChannelDies, RoundsTypeOK
<1>4. CASE Absorb
  <2>1. pend' \in SUBSET Keys /\ round' \in SUBSET Named /\ rows' \in SUBSET Named
    BY <1>4 DEF Absorb, RoundWith, RoundsTypeOK
  <2>2. seen' \in [Named -> -3..3]
    BY <1>4, SeenType DEF Absorb, RoundsTypeOK
  <2>3. published' \in BOOLEAN
    BY <1>4 DEF Absorb, GapEnds, RoundsTypeOK
  <2> QED
    BY <1>4, <2>1, <2>2, <2>3, TimeFacts DEF Absorb, QuietAfterRow, RoundsTypeOK
<1>5. CASE WatchTick
  <2>1. rows' \in SUBSET Named /\ round' \in SUBSET Named
    BY <1>5, WatchEffect DEF RoundsTypeOK
  <2>2. quiet' \in (0..MaxTime) \cup {Never}
    <3>1. quiet' = quiet \/ quiet' = 0
      BY <1>5, WatchEffect, Zenon
    <3> QED
      BY <3>1, TimeFacts DEF RoundsTypeOK
  <2>3. published' \in BOOLEAN /\ UNCHANGED <<table, reopens>>
    BY <1>5, WatchEffect, Zenon
  <2>4. CASE UNCHANGED <<alive, pend, sincePrint, restarted, lastRow, seen, apart>>
    BY <2>1, <2>2, <2>3, <2>4 DEF RoundsTypeOK
  <2>5. CASE /\ Reprint(TRUE) \/ Unheard
             /\ restarted' \in BOOLEAN /\ lastRow' = 0
    <3>1. lastRow' \in 0..MaxTime
      BY <2>5, TimeFacts
    <3> QED
      BY <2>1, <2>2, <2>3, <2>5, <3>1, PrintingType DEF RoundsTypeOK
  <2> QED
    BY <1>5, WatchEffect, <2>4, <2>5, Zenon
<1>6. CASE ReopenFor
  <2>1. /\ Reprint(pend = {} /\ round = {}) \/ Unheard
        /\ (pend = {} /\ round = {}) \in BOOLEAN
    BY <1>6, Zenon DEF ReopenFor
  <2>2. lastRow' \in 0..MaxTime
    BY <1>6, TimeFacts DEF ReopenFor, RoundsTypeOK
  <2>3. reopens' \in 0..MaxReopens
    BY <1>6, BoundsAssumption DEF ReopenFor, RoundsTypeOK
  <2>4. UNCHANGED <<table, rows, round, published, restarted, quiet>>
    BY <1>6, Zenon DEF ReopenFor
  <2> QED
    BY <2>1, <2>2, <2>3, <2>4, PrintingType DEF RoundsTypeOK
<1>7. CASE Tick
  <2>1. lastRow' \in 0..MaxTime
    BY <1>7, LaterType, NeverAssumption DEF Tick, RoundsTypeOK
  <2>2. quiet' \in (0..MaxTime) \cup {Never}
    BY <1>7, LaterType DEF Tick, RoundsTypeOK
  <2> QED
    BY <1>7, <2>1, <2>2, TimeFacts DEF Tick, RoundsTypeOK
<1>8. ASSUME NEW t \in SUBSET Keys, TableChange(t) PROVE RoundsTypeOK'
  <2>1. seen' \in [Named -> -3..3]
    BY <1>8 DEF TableChange, RoundsTypeOK
  <2> QED
    BY <1>8, <2>1 DEF TableChange, RoundsTypeOK
<1> QED
  BY <1>1, <1>2, <1>3, <1>4, <1>5, <1>6, <1>7, <1>8 DEF RoundsNext

-----------------------------------------------------------------------------
(* The invariant *)

\* A row counted present is in the table, a row counted missing is not.
SeenFits == \A k \in Named : (seen[k] > 0 => k \in table) /\ (seen[k] < 0 => k \notin table)

\* The round of a print that the fill could tell from the one before holds what
\* has come of that print and nothing else.
RoundFits ==
    /\ pend # {} /\ pend = table /\ apart >= 1 => round = {} \/ lastRow > Boundary
    /\ pend # {} /\ pend # table /\ apart >= 1 => round = Named \cap (table \ pend) /\ lastRow = 0

\* Where a row that was in the last print is: in the round until that is closed,
\* then in what is served, unless a silence has emptied it.
Shown(k) == published /\ (k \in rows \/ rows = {})
ServedFits ==
    \A k \in Named :
        /\ pend = {} /\ apart >= 1 /\ seen[k] >= 1 =>
              k \in round \/ (round = {} /\ Shown(k))
        /\ pend = {} /\ apart >= 2 /\ seen[k] >= 2 => Shown(k)
        /\ pend # {} /\ pend = table /\ apart >= 2 /\ seen[k] >= 1 =>
              (k \in round /\ lastRow > Boundary) \/ (round = {} /\ Shown(k))
        /\ pend # {} /\ pend = table /\ apart >= 3 /\ seen[k] >= 2 => Shown(k)
        /\ pend # {} /\ pend # table /\ apart >= 2 /\ seen[k] >= 1 => Shown(k)

\* Row j has come, and row k has not, in n prints running, the one that is
\* running among them once j has come in it.
Prints(j, k, n) == j \in table /\ k \notin table /\ seen[j] >= n /\ seen[k] <= -n
Been(j, k, n) == Prints(j, k, n) \/ (pend # {} /\ j \notin pend /\ Prints(j, k, n - 1))

\* The first time j comes it may find k in the round; the second closes that
\* round, and the third replaces what was served of it.
GhostFits ==
    \A j, k \in Named :
        /\ Been(j, k, 1) => (j \notin round => k \notin round)
        /\ Been(j, k, 2) => k \notin round /\ (j \notin round => k \notin rows)
        /\ Been(j, k, 3) => k \notin rows

RoundsInv == RoundsTypeOK /\ pend \subseteq table /\ SeenFits /\ RoundFits /\ ServedFits /\ GhostFits

\* What the arrival of a row does.
LEMMA AbsorbEffect ==
    ASSUME RoundsTypeOK, Absorb
    PROVE  \E x \in pend : \E ends \in BOOLEAN :
              /\ ends <=> (round # {} /\ lastRow > Boundary) \/ x \in round
              /\ pend' = pend \ {x}
              /\ rows' = IF ends THEN round ELSE rows
              /\ published' <=> published \/ ends
              /\ round' = (IF ends THEN {} ELSE round) \cup ({x} \cap Named)
              /\ seen' = IF pend = {x} THEN [j \in Named |-> Counted(j)] ELSE seen
              /\ lastRow' = 0 /\ quiet' = Never /\ UNCHANGED <<table, apart>>
<1> DEFINE x == Min(pend)
           ends == GapEnds \/ (x \in Named /\ Repeats(x))
<1>1. x \in pend
  BY NextRow DEF Absorb
<1>2. ends \in BOOLEAN
  OBVIOUS
<1>3. ends <=> (round # {} /\ lastRow > Boundary) \/ x \in round
  BY DEF GapEnds, Repeats, RoundsTypeOK
<1>4. /\ pend' = pend \ {x}
      /\ rows' = IF ends THEN round ELSE rows
      /\ published' = (published \/ ends)
      /\ round' = RoundWith(x, ends)
      /\ seen' = IF pend = {x} THEN [j \in Named |-> Counted(j)] ELSE seen
      /\ lastRow' = 0 /\ quiet' = Never /\ UNCHANGED <<table, apart>>
  BY Zenon DEF Absorb, QuietAfterRow
<1>5. round' = (IF ends THEN {} ELSE round) \cup ({x} \cap Named)
  BY <1>4, Zenon DEF RoundWith
<1>6. published' <=> published \/ ends
  BY <1>4, Zenon
<1> HIDE DEF x, ends
<1> QED
  BY <1>1, <1>2, <1>3, <1>4, <1>5, <1>6, Zenon

\* The fill starts with nothing.
LEMMA RoundsInvInit == RoundsInit => RoundsInv
<1> SUFFICES ASSUME RoundsInit PROVE RoundsInv
  OBVIOUS
<1>1. RoundsTypeOK /\ pend \subseteq table
  BY RoundsTypeInit DEF RoundsInit
<1>2. SeenFits /\ RoundFits
  BY DEF RoundsInit, SeenFits, RoundFits
<1>3. ServedFits
  BY DEF RoundsInit, ServedFits
<1>4. GhostFits
  BY DEF RoundsInit, GhostFits, Been, Prints
<1> QED
  BY <1>1, <1>2, <1>3, <1>4 DEF RoundsInv

\* A row arrives.
LEMMA AbsorbInv == RoundsInv /\ Absorb => RoundsInv'
<1> SUFFICES ASSUME RoundsInv, Absorb PROVE RoundsInv'
  OBVIOUS
<1>0. RoundsTypeOK /\ RoundsTypeOK'
  BY RoundsTypeNext DEF RoundsInv, RoundsNext
<1>1. PICK x \in pend : \E ends \in BOOLEAN :
              /\ ends <=> (round # {} /\ lastRow > Boundary) \/ x \in round
              /\ pend' = pend \ {x}
              /\ rows' = IF ends THEN round ELSE rows
              /\ published' <=> published \/ ends
              /\ round' = (IF ends THEN {} ELSE round) \cup ({x} \cap Named)
              /\ seen' = IF pend = {x} THEN [j \in Named |-> Counted(j)] ELSE seen
              /\ lastRow' = 0 /\ quiet' = Never /\ UNCHANGED <<table, apart>>
  BY <1>0, AbsorbEffect
<1>2. PICK ends \in BOOLEAN :
              /\ ends <=> (round # {} /\ lastRow > Boundary) \/ x \in round
              /\ pend' = pend \ {x}
              /\ rows' = IF ends THEN round ELSE rows
              /\ published' <=> published \/ ends
              /\ round' = (IF ends THEN {} ELSE round) \cup ({x} \cap Named)
              /\ seen' = IF pend = {x} THEN [j \in Named |-> Counted(j)] ELSE seen
              /\ lastRow' = 0 /\ quiet' = Never /\ UNCHANGED <<table, apart>>
  BY <1>1
<1>3. ASSUME NEW k \in Named
      PROVE  /\ seen'[k] \in -3..3 /\ seen[k] \in -3..3
             /\ pend = {x} /\ k \in table => seen'[k] = IF seen[k] <= 0 THEN 1 ELSE IF seen[k] >= 2 THEN 3 ELSE seen[k] + 1
             /\ pend = {x} /\ k \notin table => seen'[k] = IF seen[k] >= 0 THEN -1 ELSE IF seen[k] <= -2 THEN -3 ELSE seen[k] - 1
             /\ pend # {x} => seen'[k] = seen[k]
  <2>1. seen'[k] \in -3..3 /\ seen[k] \in -3..3
    BY <1>0 DEF RoundsTypeOK
  <2>2. pend = {x} => seen'[k] = Counted(k)
    BY <1>2
  <2> QED
    BY <1>0, <1>2, <2>1, <2>2, CountedValue
<1>4. pend' \subseteq table' /\ x \in table
  BY <1>2 DEF RoundsInv
<1>5. SeenFits'
  BY <1>2, <1>3 DEF RoundsInv, SeenFits
<1>7. RoundFits'
  <2>1. ASSUME pend' # {}, apart' >= 1 PROVE pend' # table' /\ round' = Named \cap (table' \ pend') /\ lastRow' = 0
    <3>1. apart >= 1 /\ pend # {} /\ pend \subseteq table
      BY <1>2, <2>1 DEF RoundsInv
    <3>2. CASE pend = table
      <4>1. round = {} \/ ends
        BY <1>2, <3>1, <3>2 DEF RoundsInv, RoundFits
      <4>2. round' = {x} \cap Named
        BY <1>2, <4>1
      <4> QED
        BY <1>2, <3>2, <4>2
    <3>3. CASE pend # table
      <4>1. round = Named \cap (table \ pend) /\ lastRow = 0
        BY <3>1, <3>3 DEF RoundsInv, RoundFits
      <4>2. ~ends
        BY <1>2, <4>1, TimeFacts
      <4>3. round' = round \cup ({x} \cap Named)
        BY <1>2, <4>2
      <4> QED
        BY <1>2, <3>1, <3>3, <4>1, <4>3
    <3> QED
      BY <3>2, <3>3
  <2> QED
    BY <2>1 DEF RoundFits
<1>8. ServedFits'
  <2>1. ASSUME NEW k \in Named, apart >= 2, seen[k] >= 1 PROVE Shown(k)'
    <3>1. CASE pend = table
      <4>1. (k \in round /\ lastRow > Boundary) \/ (round = {} /\ Shown(k))
        BY <1>1, <2>1, <3>1 DEF RoundsInv, ServedFits
      <4> QED
        BY <1>2, <4>1 DEF Shown
    <3>2. CASE pend # table
      <4>1. Shown(k)
        BY <1>1, <2>1, <3>2 DEF RoundsInv, ServedFits
      <4>2. round = Named \cap (table \ pend) /\ lastRow = 0
        BY <1>1, <2>1, <3>2, <1>0 DEF RoundsInv, RoundFits, RoundsTypeOK
      <4>3. ~ends
        BY <1>2, <4>2, TimeFacts
      <4> QED
        BY <1>2, <4>1, <4>3 DEF Shown
    <3> QED
      BY <3>1, <3>2
  <2>2. ASSUME NEW k \in Named, pend' = {}, apart >= 1, seen'[k] >= 1 PROVE k \in round'
    <3>1. pend = {x} /\ k \in table
      BY <1>2, <1>3, <1>5, <2>2 DEF SeenFits
    <3>2. CASE pend = table
      BY <1>2, <3>1, <3>2
    <3>3. CASE pend # table
      <4>1. round = Named \cap (table \ pend) /\ lastRow = 0
        BY <1>1, <2>2, <3>3 DEF RoundsInv, RoundFits
      <4>2. ~ends
        BY <1>2, <4>1, TimeFacts
      <4> QED
        BY <1>2, <3>1, <4>1, <4>2
    <3> QED
      BY <3>2, <3>3
  <2>3. ASSUME NEW k \in Named, pend' = {}, apart >= 2, seen'[k] >= 2 PROVE Shown(k)'
    <3>1. seen[k] >= 1
      BY <1>2, <1>3, <2>3
    <3> QED
      BY <2>1, <2>3, <3>1
  <2>4. pend' # table'
    BY <1>2, <1>4
  <2>5. ASSUME NEW k \in Named, pend' # {}, apart >= 2, seen'[k] >= 1 PROVE Shown(k)'
    <3>1. seen[k] >= 1
      BY <1>2, <1>3, <2>5
    <3> QED
      BY <2>1, <2>5, <3>1
  <2> QED
    BY <1>2, <2>2, <2>3, <2>4, <2>5 DEF ServedFits
<1>9. GhostFits'
  <2> SUFFICES ASSUME NEW j \in Named, NEW k \in Named
               PROVE  /\ Been(j, k, 1)' => (j \notin round' => k \notin round')
                      /\ Been(j, k, 2)' => k \notin round' /\ (j \notin round' => k \notin rows')
                      /\ Been(j, k, 3)' => k \notin rows'
    BY DEF GhostFits
  <2>1. /\ Been(j, k, 1) => (j \notin round => k \notin round)
        /\ Been(j, k, 2) => k \notin round /\ (j \notin round => k \notin rows)
        /\ Been(j, k, 3) => k \notin rows
    BY DEF RoundsInv, GhostFits
  <2>2. CASE ~(j \in table /\ k \notin table)
    BY <1>2, <2>2 DEF Been, Prints
  <2>3. CASE j \in table /\ k \notin table /\ x # j
    <3>1. ASSUME NEW n \in {1, 2, 3}, Been(j, k, n)' PROVE Been(j, k, n)
      <4>1. seen[j] >= 0 /\ seen[k] <= 0
        BY <1>3, <2>3 DEF RoundsInv, SeenFits
      <4>2. CASE pend = {x}
        <5>1. pend' = {} /\ seen'[j] >= n /\ seen'[k] <= -n
          BY <1>2, <3>1, <4>2 DEF Been, Prints
        <5>2. seen[j] >= n - 1 /\ seen[k] <= -(n - 1)
          BY <1>3, <2>3, <4>1, <4>2, <5>1
        <5> QED
          BY <2>3, <4>2, <5>2 DEF Been, Prints
      <4>3. CASE pend # {x}
        <5>1. seen'[j] = seen[j] /\ seen'[k] = seen[k] /\ pend # {} /\ (j \in pend' <=> j \in pend) /\ UNCHANGED table
          BY <1>2, <1>3, <2>3, <4>3
        <5> QED
          BY <3>1, <5>1 DEF Been, Prints
      <4> QED
        BY <4>2, <4>3
    <3>2. k # x
      BY <1>4, <2>3
    <3>3. Been(j, k, 3) => Been(j, k, 2)
      BY <1>3 DEF Been, Prints
    <3>4. /\ Been(j, k, 1)' => Been(j, k, 1)
          /\ Been(j, k, 2)' => Been(j, k, 2)
          /\ Been(j, k, 3)' => Been(j, k, 3)
      BY <3>1
    <3> HIDE DEF Been
    <3>5. CASE ends
      BY <1>2, <2>1, <3>2, <3>3, <3>4, <3>5
    <3>6. CASE ~ends
      BY <1>2, <2>1, <3>2, <3>4, <3>6
    <3> QED
      BY <3>5, <3>6
  <2>4. CASE j \in table /\ k \notin table /\ x = j
    <3>1. (Been(j, k, 2)' => Been(j, k, 1)) /\ (Been(j, k, 3)' => Been(j, k, 2))
      BY <1>2, <1>3, <1>4, <2>4 DEF Been, Prints
    <3>2. j \in round' /\ k # x
      BY <1>2, <1>4, <2>4
    <3> QED
      BY <1>2, <2>1, <2>4, <3>1, <3>2
  <2> QED
    BY <2>2, <2>3, <2>4
<1> QED
  BY <1>0, <1>4, <1>5, <1>7, <1>8, <1>9 DEF RoundsInv

\* What may become of the rounds in a step that is not an arrival: nothing, the
\* open round is closed, or the silence empties the table.
Closes ==
    \/ UNCHANGED <<rows, round, published>>
    \/ pend = {} /\ round # {} /\ rows' = round /\ round' = {} /\ published'
    \/ pend = {} /\ quiet # Never /\ rows' = {} /\ round' = {} /\ published'

\* The invariant of two rows, whatever becomes of the rounds.
LEMMA GhostKept ==
    ASSUME RoundsInv, Closes, NEW j \in Named, NEW k \in Named
    PROVE  /\ Been(j, k, 1) => (j \notin round' => k \notin round')
           /\ Been(j, k, 2) => k \notin round' /\ (j \notin round' => k \notin rows')
           /\ Been(j, k, 3) => k \notin rows'
<1>1. /\ Been(j, k, 1) => (j \notin round => k \notin round)
      /\ Been(j, k, 2) => k \notin round /\ (j \notin round => k \notin rows)
      /\ Been(j, k, 3) => k \notin rows
  BY DEF RoundsInv, GhostFits
<1>2. Been(j, k, 3) => Been(j, k, 2)
  <2>1. seen[j] \in -3..3 /\ seen[k] \in -3..3
    BY DEF RoundsInv, RoundsTypeOK
  <2> QED
    BY <2>1 DEF Been, Prints
<1> QED
  BY <1>1, <1>2 DEF Closes

\* A print begins: the router's own, or that of a channel opened again.
LEMMA PrintBegins ==
    ASSUME RoundsInv, RoundsTypeOK', NEW over \in BOOLEAN, Closes,
           pend' = table, UNCHANGED table, apart' = Apart(over),
           seen' = IF table = {} THEN [k \in Named |-> Counted(k)] ELSE seen,
           over => pend = {} /\ (round' = {} \/ lastRow' > Boundary)
    PROVE  RoundsInv'
<1>0. RoundsTypeOK
  BY DEF RoundsInv
<1>1. /\ apart' >= 1 => over
      /\ apart' >= 2 => apart >= 1
      /\ apart' >= 3 => apart >= 2
      /\ apart' \in 0..3
  BY <1>0, ApartValue
<1>2. ASSUME NEW k \in Named
      PROVE  /\ table # {} => seen'[k] = seen[k]
             /\ table = {} => seen'[k] < 0
             /\ seen'[k] \in -3..3 /\ seen[k] \in -3..3
  <2>1. seen'[k] \in -3..3 /\ seen[k] \in -3..3
    BY <1>0 DEF RoundsTypeOK
  <2>2. table = {} => seen'[k] = Counted(k)
    OBVIOUS
  <2> QED
    BY <1>0, <2>1, <2>2, CountedValue
<1>3. SeenFits' /\ pend' \subseteq table'
  BY <1>2 DEF RoundsInv, SeenFits
<1>5. RoundFits'
  BY <1>1 DEF RoundFits
<1>6. ServedFits'
  <2>1. ASSUME NEW k \in Named, table # {}, apart' >= 2, seen'[k] >= 1
        PROVE  (k \in round' /\ lastRow' > Boundary) \/ (round' = {} /\ Shown(k)')
    <3>1. pend = {} /\ seen[k] >= 1 /\ apart >= 1 /\ (round' = {} \/ lastRow' > Boundary)
      BY <1>1, <1>2, <2>1
    <3>2. k \in round \/ (round = {} /\ Shown(k))
      BY <3>1 DEF RoundsInv, ServedFits
    <3> QED
      BY <3>1, <3>2 DEF Closes, Shown
  <2>2. ASSUME NEW k \in Named, table # {}, apart' >= 3, seen'[k] >= 2 PROVE Shown(k)'
    <3>1. pend = {} /\ seen[k] >= 2 /\ seen[k] >= 1 /\ apart >= 2 /\ apart >= 1
      BY <1>0, <1>1, <1>2, <2>2 DEF RoundsTypeOK
    <3>2. Shown(k)
      BY <3>1 DEF RoundsInv, ServedFits
    <3>3. k \in round \/ round = {}
      BY <3>1 DEF RoundsInv, ServedFits
    <3> QED
      BY <3>2, <3>3 DEF Closes, Shown
  <2>3. CASE table = {}
    <3>1. \A k \in Named : ~(seen'[k] >= 1) /\ ~(seen'[k] >= 2)
      BY <1>2, <2>3
    <3> QED
      BY <3>1 DEF ServedFits
  <2>4. CASE table # {}
    BY <2>1, <2>2, <2>4 DEF ServedFits
  <2> QED
    BY <2>3, <2>4
<1>7. GhostFits'
  <2> SUFFICES ASSUME NEW j \in Named, NEW k \in Named
               PROVE  /\ Been(j, k, 1)' => (j \notin round' => k \notin round')
                      /\ Been(j, k, 2)' => k \notin round' /\ (j \notin round' => k \notin rows')
                      /\ Been(j, k, 3)' => k \notin rows'
    BY DEF GhostFits
  <2>1. ASSUME NEW n \in {1, 2, 3}, Been(j, k, n)' PROVE Been(j, k, n)
    <3>1. j \in table /\ table # {}
      BY <2>1 DEF Been, Prints
    <3> QED
      BY <1>2, <2>1, <3>1 DEF Been, Prints
  <2>2. /\ Been(j, k, 1)' => Been(j, k, 1)
        /\ Been(j, k, 2)' => Been(j, k, 2)
        /\ Been(j, k, 3)' => Been(j, k, 3)
    BY <2>1
  <2> QED
    BY <2>2, GhostKept
<1> QED
  BY <1>3, <1>5, <1>6, <1>7 DEF RoundsInv

\* No print begins or goes on: what is left is what becomes of the rounds, of the
\* clocks and of the table between two prints.
LEMMA BetweenPrints ==
    ASSUME RoundsInv, RoundsTypeOK', Closes, pend = {}, UNCHANGED <<pend, apart>>,
           \A k \in Named : \/ seen'[k] = seen[k] /\ (k \in table' <=> k \in table)
                            \/ seen'[k] = 0
    PROVE  RoundsInv'
<1>1. ASSUME NEW k \in Named PROVE seen'[k] \in -3..3 /\ seen[k] \in -3..3
  BY DEF RoundsInv, RoundsTypeOK
<1>2. SeenFits' /\ pend' \subseteq table'
  BY <1>1 DEF RoundsInv, SeenFits
<1>4. RoundFits'
  BY DEF RoundFits
<1>5. ServedFits'
  <2>1. ASSUME NEW k \in Named, apart >= 1, seen'[k] >= 1
        PROVE  /\ k \in round' \/ (round' = {} /\ Shown(k)')
               /\ apart >= 2 /\ seen'[k] >= 2 => Shown(k)'
    <3>1. seen'[k] = seen[k]
      BY <2>1
    <3>2. /\ k \in round \/ (round = {} /\ Shown(k))
          /\ apart >= 2 /\ seen[k] >= 2 => Shown(k)
      BY <2>1, <3>1 DEF RoundsInv, ServedFits
    <3> QED
      BY <3>1, <3>2 DEF Closes, Shown
  <2>2. apart \in 0..3
    BY DEF RoundsInv, RoundsTypeOK
  <2> QED
    BY <1>1, <2>1, <2>2 DEF ServedFits
<1>6. GhostFits'
  <2> SUFFICES ASSUME NEW j \in Named, NEW k \in Named
               PROVE  /\ Been(j, k, 1)' => (j \notin round' => k \notin round')
                      /\ Been(j, k, 2)' => k \notin round' /\ (j \notin round' => k \notin rows')
                      /\ Been(j, k, 3)' => k \notin rows'
    BY DEF GhostFits
  <2>1. ASSUME NEW n \in {1, 2, 3}, Been(j, k, n)' PROVE Been(j, k, n)
    BY <1>1, <2>1 DEF Been, Prints
  <2>2. /\ Been(j, k, 1)' => Been(j, k, 1)
        /\ Been(j, k, 2)' => Been(j, k, 2)
        /\ Been(j, k, 3)' => Been(j, k, 3)
    BY <2>1
  <2> QED
    BY <2>2, GhostKept
<1> QED
  BY <1>2, <1>4, <1>5, <1>6 DEF RoundsInv

\* No channel that delivers was opened: what is left is a print that breaks off.
LEMMA PrintBreaksOff ==
    ASSUME RoundsInv, RoundsTypeOK', Closes, Unheard, UNCHANGED table
    PROVE  RoundsInv'
<1>1. /\ pend' = {} /\ UNCHANGED <<table, seen>>
      /\ apart' = IF pend = {} THEN apart ELSE 0
  BY DEF Unheard
<1>2. CASE pend = {}
  BY <1>1, <1>2, BetweenPrints
<1>3. CASE pend # {}
  <2>1. apart' = 0
    BY <1>1, <1>3
  <2>2. SeenFits' /\ RoundFits' /\ pend' \subseteq table'
    BY <1>1 DEF RoundsInv, SeenFits, RoundFits
  <2>3. ServedFits'
    BY <1>1, <2>1 DEF ServedFits
  <2>4. GhostFits'
    <3> SUFFICES ASSUME NEW j \in Named, NEW k \in Named
                 PROVE  /\ Been(j, k, 1)' => (j \notin round' => k \notin round')
                        /\ Been(j, k, 2)' => k \notin round' /\ (j \notin round' => k \notin rows')
                        /\ Been(j, k, 3)' => k \notin rows'
      BY DEF GhostFits
    <3>1. /\ Been(j, k, 1)' => Been(j, k, 1)
          /\ Been(j, k, 2)' => Been(j, k, 2)
          /\ Been(j, k, 3)' => Been(j, k, 3)
      BY <1>1 DEF Been, Prints
    <3> QED
      BY <3>1, GhostKept
  <2> QED
    BY <2>2, <2>3, <2>4 DEF RoundsInv
<1> QED
  BY <1>2, <1>3

\* One tick of the watchdog keeps the invariant, with a restart or without.
LEMMA WatchInv == RoundsInv /\ WatchTick => RoundsInv'
<1> SUFFICES ASSUME RoundsInv, WatchTick PROVE RoundsInv'
  OBVIOUS
<1>0. RoundsTypeOK /\ RoundsTypeOK'
  BY RoundsTypeNext DEF RoundsInv, RoundsNext
<1>1. pend = {} /\ UNCHANGED table
  BY <1>0, WatchEffect, Zenon
<1>2. \/ ~GapEnds /\ UNCHANGED <<rows, round, published>>
      \/ GapEnds /\ rows' = round /\ round' = {} /\ published'
      \/ quiet # Never /\ rows' = {} /\ round' = {} /\ published'
  BY <1>0, WatchEffect, Zenon
<1>3. Closes
  BY <1>1, <1>2, Zenon DEF Closes, GapEnds
<1>4. CASE UNCHANGED <<pend, seen, apart>>
  <2>1. \A k \in Named : seen'[k] = seen[k] /\ (k \in table' <=> k \in table)
    BY <1>1, <1>4
  <2> QED
    BY <1>0, <1>1, <1>3, <1>4, <2>1, BetweenPrints
<1>5. CASE lastRow >= Stale /\ Reprint(TRUE)
  <2>1. round' = {}
    <3>1. round # {} => GapEnds
      BY <1>0, <1>5, TimeFacts DEF GapEnds, RoundsTypeOK
    <3> QED
      BY <1>2, <3>1, Zenon
  <2>2. /\ pend' = table /\ apart' = Apart(TRUE)
        /\ seen' = IF table = {} THEN [k \in Named |-> Counted(k)] ELSE seen
    BY <1>5, Zenon DEF Reprint, Printing
  <2> QED
    BY <1>0, <1>1, <1>3, <2>1, <2>2, PrintBegins
<1>6. CASE Unheard
  BY <1>0, <1>1, <1>3, <1>6, PrintBreaksOff
<1>7. \/ UNCHANGED <<pend, seen, apart>>
      \/ lastRow >= Stale /\ (Reprint(TRUE) \/ Unheard)
  BY <1>0, WatchEffect, Zenon
<1> QED
  BY <1>4, <1>5, <1>6, <1>7

\* Every step keeps the invariant.
LEMMA RoundsInvNext == RoundsInv /\ [RoundsNext]_roundsVars => RoundsInv'
<1> SUFFICES ASSUME RoundsInv, [RoundsNext]_roundsVars PROVE RoundsInv'
  OBVIOUS
<1>0. RoundsTypeOK /\ RoundsTypeOK'
  BY RoundsTypeNext DEF RoundsInv
<1>1. CASE UNCHANGED roundsVars
  <2>1. UNCHANGED <<SeenFits, RoundFits, ServedFits>>
    BY <1>1 DEF roundsVars, SeenFits, RoundFits, ServedFits, Shown
  <2>2. UNCHANGED GhostFits
    BY <1>1 DEF roundsVars, GhostFits, Been, Prints
  <2> QED
    BY <1>0, <1>1, <2>1, <2>2 DEF RoundsInv, roundsVars
<1>2. CASE PrintTable
  <2> DEFINE over == round = {} \/ lastRow > Boundary
  <2>1. over \in BOOLEAN
    OBVIOUS
  <2>2. /\ pend = {} /\ pend' = table /\ UNCHANGED <<table, rows, round, published, lastRow>>
        /\ apart' = Apart(over)
        /\ seen' = IF table = {} THEN [k \in Named |-> Counted(k)] ELSE seen
    BY <1>2, Zenon DEF PrintTable, Printing
  <2>3. over => pend = {} /\ (round' = {} \/ lastRow' > Boundary)
    BY <2>2
  <2>4. Closes
    BY <2>2 DEF Closes
  <2> HIDE DEF over
  <2> QED
    BY <1>0, <2>1, <2>2, <2>3, <2>4, PrintBegins
<1>3. CASE ChannelDies
  <2>1. /\ pend = {} /\ UNCHANGED <<pend, apart, seen, table, rows, round, published>>
    BY <1>3 DEF ChannelDies
  <2>2. Closes
    BY <2>1 DEF Closes
  <2> QED
    BY <1>0, <2>1, <2>2, BetweenPrints
<1>4. CASE Absorb
  BY <1>4, AbsorbInv
<1>5. CASE WatchTick
  BY <1>5, WatchInv
<1>6. CASE ReopenFor
  <2> DEFINE over == pend = {} /\ round = {}
  <2>1. over \in BOOLEAN
    OBVIOUS
  <2>2. UNCHANGED <<table, rows, round, published>> /\ (Reprint(over) \/ Unheard)
    BY <1>6, Zenon DEF ReopenFor
  <2>3. Closes
    BY <2>2 DEF Closes
  <2>4. over => pend = {} /\ (round' = {} \/ lastRow' > Boundary)
    BY <2>2
  <2> HIDE DEF over
  <2>5. CASE Reprint(over)
    <3>1. /\ pend' = table /\ apart' = Apart(over)
          /\ seen' = IF table = {} THEN [k \in Named |-> Counted(k)] ELSE seen
      BY <2>5, Zenon DEF Reprint, Printing
    <3> QED
      BY <1>0, <2>1, <2>2, <2>3, <2>4, <3>1, PrintBegins
  <2>6. CASE Unheard
    BY <1>0, <2>2, <2>3, <2>6, PrintBreaksOff
  <2> QED
    BY <2>2, <2>5, <2>6
<1>7. CASE Tick
  <2>1. pend = {} /\ UNCHANGED <<pend, apart, seen, table, rows, round, published>>
    BY <1>7 DEF Tick
  <2>2. Closes
    BY <2>1 DEF Closes
  <2> QED
    BY <1>0, <2>1, <2>2, BetweenPrints
<1>8. ASSUME NEW t \in SUBSET Keys, TableChange(t) PROVE RoundsInv'
  <2>1. /\ pend = {} /\ UNCHANGED <<pend, apart, rows, round, published>> /\ table' = t
        /\ seen' = [k \in Named |-> IF (k \in t) = (k \in table) THEN seen[k] ELSE 0]
    BY <1>8 DEF TableChange
  <2>2. \A k \in Named : \/ seen'[k] = seen[k] /\ (k \in table' <=> k \in table)
                         \/ seen'[k] = 0
    BY <2>1
  <2>3. Closes
    BY <2>1 DEF Closes
  <2> QED
    BY <1>0, <2>1, <2>2, <2>3, BetweenPrints
<1> QED
  BY <1>1, <1>2, <1>3, <1>4, <1>5, <1>6, <1>7, <1>8 DEF RoundsNext

-----------------------------------------------------------------------------
(* What silence shows *)

\* Where the channel delivers, a silence longer than since the last print began
\* means that the print had no row in it.
SilenceFits ==
    alive /\ pend = {} /\ quiet # Never /\ sincePrint <= quiet => \A k \in Named : seen[k] <= 0

\* A print of an empty table has no row in it.
LEMMA SilentPrint ==
    ASSUME RoundsTypeOK, NEW over \in BOOLEAN, Printing(over)
    PROVE  SilenceFits'
<1>1. CASE table = {}
  <2>1. \A k \in Named : seen'[k] = Counted(k)
    BY <1>1 DEF Printing
  <2>2. \A k \in Named : Counted(k) \in Int /\ Counted(k) <= 0
    BY <1>1, CountedValue DEF RoundsTypeOK
  <2> QED
    BY <2>1, <2>2 DEF SilenceFits
<1>2. CASE table # {}
  BY <1>2 DEF Printing, SilenceFits
<1> QED
  BY <1>1, <1>2

\* Every step keeps it: only a restart begins a silence anew, and it makes the
\* router print at once or leaves the channel dead; emptying the page counts the
\* silence from there, after one that was longer than any interval.
LEMMA SilenceNext == RoundsTypeOK /\ SilenceFits /\ [RoundsNext]_roundsVars => SilenceFits'
<1> SUFFICES ASSUME RoundsTypeOK, SilenceFits, [RoundsNext]_roundsVars PROVE SilenceFits'
  OBVIOUS
<1>1. CASE UNCHANGED roundsVars
  BY <1>1 DEF roundsVars, SilenceFits
<1>2. CASE PrintTable
  BY <1>2, SilentPrint, Zenon DEF PrintTable
<1>3. CASE ChannelDies
  BY <1>3 DEF ChannelDies, SilenceFits
<1>4. CASE Absorb
  BY <1>4 DEF Absorb, QuietAfterRow, SilenceFits
<1>5. CASE WatchTick
  <2>1. CASE Reprint(TRUE)
    BY <2>1, SilentPrint, Zenon DEF Reprint
  <2>2. CASE Unheard
    BY <2>2 DEF Unheard, SilenceFits
  <2>3. CASE /\ UNCHANGED <<alive, pend, sincePrint, seen>>
             /\ quiet' = quiet \/ (quiet' = 0 /\ quiet # Never /\ quiet > 2 * Stale)
    <3>1. CASE quiet' = quiet
      BY <2>3, <3>1 DEF SilenceFits
    <3>2. CASE quiet # Never /\ quiet > 2 * Stale
      <4>1. sincePrint <= quiet
        BY <3>2, TimeAssumption DEF RoundsTypeOK, MaxTime
      <4> QED
        BY <2>3, <3>2, <4>1 DEF SilenceFits
    <3> QED
      BY <2>3, <3>1, <3>2
  <2> QED
    BY <1>5, <2>1, <2>2, <2>3, WatchEffect, Zenon
<1>6. CASE ReopenFor
  <2>1. CASE Reprint(pend = {} /\ round = {})
    <3>1. (pend = {} /\ round = {}) \in BOOLEAN
      OBVIOUS
    <3> QED
      BY <2>1, <3>1, SilentPrint, Zenon DEF Reprint
  <2>2. CASE Unheard
    BY <2>2 DEF Unheard, SilenceFits
  <2> QED
    BY <1>6, <2>1, <2>2 DEF ReopenFor
<1>7. CASE Tick
  <2>1. UNCHANGED <<alive, pend, seen>> /\ quiet' = Later(quiet) /\ (alive => sincePrint < Interval)
        /\ sincePrint' = IF sincePrint = Interval THEN sincePrint ELSE sincePrint + 1
    BY <1>7 DEF Tick
  <2>2. CASE alive /\ quiet # Never /\ quiet # MaxTime
    <3>1. quiet' = quiet + 1 /\ sincePrint' = sincePrint + 1
      BY <2>1, <2>2, TimeFacts DEF Later, RoundsTypeOK
    <3> QED
      BY <2>1, <2>2, <3>1, NeverAssumption, TimeFacts DEF SilenceFits, RoundsTypeOK
  <2>3. CASE alive /\ quiet = MaxTime
    <3>1. quiet # Never /\ sincePrint <= quiet
      BY <2>3, NeverAssumption, TimeAssumption, TimeFacts DEF RoundsTypeOK, MaxTime
    <3> QED
      BY <2>1, <2>3, <3>1 DEF SilenceFits
  <2>4. CASE ~alive \/ quiet = Never
    BY <2>1, <2>4 DEF SilenceFits, Later
  <2> QED
    BY <2>2, <2>3, <2>4
<1>8. ASSUME NEW t \in SUBSET Keys, TableChange(t) PROVE SilenceFits'
  <2>1. \A k \in Named : seen'[k] = seen[k] \/ seen'[k] = 0
    BY <1>8 DEF TableChange
  <2> QED
    BY <1>8, <2>1 DEF TableChange, SilenceFits
<1> QED
  BY <1>1, <1>2, <1>3, <1>4, <1>5, <1>6, <1>7, <1>8 DEF RoundsNext

-----------------------------------------------------------------------------
(* The theorems *)

\* The fill's state has its types in every behaviour: absorb, watch and
\* reopenFor write nothing else.
THEOREM RoundsTypes == RoundsSpec => []RoundsTypeOK
<1>1. RoundsInit => RoundsTypeOK
  BY RoundsTypeInit
<1>2. RoundsTypeOK /\ [RoundsNext]_roundsVars => RoundsTypeOK'
  BY RoundsTypeNext
<1> QED
  BY <1>1, <1>2, PTL DEF RoundsSpec

\* The invariant holds in every behaviour.
THEOREM RoundsInvariance == RoundsSpec => []RoundsInv
<1>1. RoundsInit => RoundsInv
  BY RoundsInvInit
<1>2. RoundsInv /\ [RoundsNext]_roundsVars => RoundsInv'
  BY RoundsInvNext
<1> QED
  BY <1>1, <1>2, PTL DEF RoundsSpec

\* A row of the last three prints is in what Get serves, where the fill could
\* tell the prints apart, unless a silence has emptied the page and no round has
\* ended since: for every table, boundary, stale window and number of reopens,
\* the failing ones among them.
THEOREM RoundsAreComplete == RoundsSpec => []RowsIsACompleteRound
<1>1. RoundsInv => RowsIsACompleteRound
  <2> SUFFICES ASSUME RoundsInv, NEW k \in Named, apart = 3, seen[k] = 3
               PROVE  k \in Snapshot \/ (published /\ rows = {})
    BY DEF RowsIsACompleteRound
  <2>1. Shown(k)
    BY DEF RoundsInv, ServedFits
  <2> QED
    BY <2>1 DEF Shown, Snapshot
<1> QED
  BY <1>1, RoundsInvariance, PTL

\* A row that has left the table leaves what Get serves, once another row has
\* come in three prints without it.
THEOREM NoRowIsAGhost == RoundsSpec => []NoGhostRow
<1>1. RoundsInv => NoGhostRow
  <2> SUFFICES ASSUME RoundsInv, NEW j \in Named, NEW k \in Named, seen[j] = 3, seen[k] = -3
               PROVE  k \notin Snapshot
    BY DEF NoGhostRow
  <2>1. j \in table /\ k \notin table
    BY DEF RoundsInv, SeenFits
  <2>2. Been(j, k, 2) /\ Been(j, k, 3)
    BY <2>1 DEF Been, Prints
  <2>3. k \notin round /\ k \notin rows
    BY <2>2 DEF RoundsInv, GhostFits
  <2> QED
    BY <2>3 DEF Snapshot
<1> QED
  BY <1>1, RoundsInvariance, PTL

\* Where the channel delivers, only a table whose last print had no nameable row
\* is shown empty: two stale windows of silence are longer than any interval, and
\* any row would have ended the silence.
THEOREM LivingChannelIsNotEmptiedHolds == RoundsSpec => LivingChannelIsNotEmptied
<1>1. RoundsInit => RoundsTypeOK /\ SilenceFits
  BY RoundsTypeInit DEF RoundsInit, SilenceFits
<1>2. RoundsTypeOK /\ SilenceFits /\ [RoundsNext]_roundsVars => (RoundsTypeOK /\ SilenceFits)'
  BY RoundsTypeNext, SilenceNext
<1>3. RoundsTypeOK /\ SilenceFits /\ [RoundsNext]_roundsVars
        => [rows # {} /\ rows' = {} /\ alive => \A k \in Named : seen[k] <= 0]_roundsVars
  <2> SUFFICES ASSUME RoundsTypeOK, SilenceFits, RoundsNext, rows # {}, rows' = {}, alive
               PROVE  \A k \in Named : seen[k] <= 0
    OBVIOUS
  <2>1. CASE Absorb
    <3>1. rows' = rows \/ (rows' = round /\ round # {})
      BY <2>1, AbsorbEffect
    <3> QED
      BY <3>1
  <2>2. CASE WatchTick
    <3>1. \/ rows' = rows
          \/ GapEnds /\ rows' = round
          \/ restarted /\ quiet # Never /\ quiet > 2 * Stale
      BY <2>2, WatchEffect, Zenon
    <3>2. quiet # Never /\ quiet > 2 * Stale
      BY <3>1, Zenon DEF GapEnds
    <3>3. sincePrint <= quiet
      BY <3>2, TimeAssumption DEF RoundsTypeOK, MaxTime
    <3>4. pend = {}
      BY <2>2, WatchEffect, Zenon
    <3> QED
      BY <3>2, <3>3, <3>4 DEF SilenceFits
  <2>3. CASE PrintTable \/ ChannelDies \/ ReopenFor \/ Tick \/ \E t \in SUBSET Keys : TableChange(t)
    BY <2>3 DEF PrintTable, ChannelDies, ReopenFor, Tick, TableChange
  <2> QED
    BY <2>1, <2>2, <2>3 DEF RoundsNext
<1> QED
  BY <1>1, <1>2, <1>3, PTL DEF RoundsSpec, LivingChannelIsNotEmptied

=============================================================================
