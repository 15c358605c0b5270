--------------------------- MODULE RosCacheProofs ---------------------------
(***************************************************************************)
(* What holds of the coalescing cache for any number of consumers, menus,   *)
(* columns, tolerances and reconnects, and of the scheduler that reads it   *)
(* for any number of subscribers, any cadences and any lag.                 *)
(***************************************************************************)
EXTENDS RosCache, Scheduler, FiniteSetTheorems, WellFoundedInduction, TLAPS

-----------------------------------------------------------------------------
(* The operators claim is built from *)

(***************************************************************************)
(* Tighten and Widen (claim's ttl rule and entry.widen) keep an entry an    *)
(* entry and never touch its in-flight channel.                             *)
(***************************************************************************)
LEMMA PrepareType ==
    ASSUME NEW x \in Entry, NEW t \in Ttls, NEW w \in SUBSET Fields
    PROVE  /\ Widen(Tighten(x, t), w) \in Entry
           /\ Widen(Tighten(x, t), w).inflight = x.inflight
<1>1. Tighten(x, t) \in Entry /\ Tighten(x, t).inflight = x.inflight
  BY DEF Tighten, Entry
<1>2. ASSUME NEW y \in Entry
      PROVE  Widen(y, w) \in Entry /\ Widen(y, w).inflight = y.inflight
  BY DEF Widen, Grows, Entry
<1>3. QED  BY <1>1, <1>2

(***************************************************************************)
(* They keep the value or drop it.                                          *)
(***************************************************************************)
LEMMA PrepareValue ==
    ASSUME NEW x \in Entry, NEW t \in Ttls, NEW w \in SUBSET Fields
    PROVE  Widen(Tighten(x, t), w).val \in {x.val, NoVal}
<1>1. Tighten(x, t) \in Entry /\ Tighten(x, t).val = x.val
  BY DEF Tighten, Entry
<1>2. ASSUME NEW y \in Entry
      PROVE  Widen(y, w).val \in {y.val, NoVal}
  BY DEF Widen, Grows, Entry
<1>3. QED  BY <1>1, <1>2

(***************************************************************************)
(* The tolerance an entry is left with by claim is no longer than the       *)
(* caller's own, unless the caller has none.                                *)
(***************************************************************************)
LEMMA TightenBounds ==
    ASSUME NEW x \in Entry, NEW t \in Ttls, NEW w \in SUBSET Fields, t > 0
    PROVE  Widen(Tighten(x, t), w).ttl <= t
<1>1. Tighten(x, t) \in Entry /\ Tighten(x, t).ttl <= t
  BY TtlAssumption DEF Tighten, Entry
<1>2. ASSUME NEW y \in Entry
      PROVE  Widen(y, w).ttl = y.ttl
  BY DEF Widen, Grows, Entry
<1>3. QED  BY <1>1, <1>2

(***************************************************************************)
(* A value claim serves is younger than the entry's tolerance, and than     *)
(* errTTL when it is a failure.                                             *)
(***************************************************************************)
LEMMA FreshIsYoung ==
    ASSUME NEW x \in Entry, Fresh(x)
    PROVE  /\ x.val \in Result
           /\ x.val.age < x.ttl
           /\ x.val.err => x.val.age < ErrTTL
<1>1. x.val \in Result /\ x.val.age < Life(x)
  BY DEF Fresh, Entry
<1>2. x.val.age \in Nat /\ x.ttl \in Nat /\ ErrTTL \in Nat
  <2>1. x.val.age \in 0..MaxAge  BY <1>1 DEF Result
  <2>2. x.ttl \in Ttls           BY DEF Entry
  <2>3. Ttls \subseteq Nat /\ ErrTTL \in Nat /\ MaxAge \in Nat
    BY TtlAssumption
  <2>4. x.val.age \in Nat  BY <2>1, <2>3
  <2>5. x.ttl \in Nat      BY <2>2, <2>3
  <2>6. QED  BY <2>3, <2>4, <2>5
<1>3. Life(x) <= x.ttl
  BY <1>2 DEF Life
<1>4. x.val.err => Life(x) <= ErrTTL
  BY <1>2 DEF Life
<1>5. Life(x) \in Nat
  BY <1>2 DEF Life
<1>6. QED  BY <1>1, <1>2, <1>3, <1>4, <1>5

LEMMA NewEntryType ==
    ASSUME NEW t \in Ttls
    PROVE  NewEntry(t) \in Entry /\ NewEntry(t).inflight = None
BY DEF NewEntry, Entry

LEMMA OlderType ==
    ASSUME NEW v \in Result \cup {NoVal}
    PROVE  /\ Older(v) \in Result \cup {NoVal}
           /\ v # NoVal => Older(v) # NoVal /\ Older(v).era = v.era
           /\ v = NoVal => Older(v) = NoVal
BY TtlAssumption, NoValAssumption DEF Older, Result

-----------------------------------------------------------------------------
(* Types *)

\* The entry claim works on: the live one, or a new one.
Found(g) == LET e == Live(Asks[g].menu)
            IN  IF heap[e] = None THEN NewEntry(Asks[g].ttl) ELSE heap[e]

Prepared(g) == Widen(Tighten(Found(g), Asks[g].ttl), Asks[g].want)

LEMMA ClaimUses ==
    ASSUME TypeOK, NEW g \in Callers
    PROVE  /\ Live(Asks[g].menu) \in EntryIds
           /\ Found(g) \in Entry
           /\ Prepared(g) \in Entry
           /\ Prepared(g).inflight = Found(g).inflight
           /\ Claim(g) => pc[g] = "claim" /\ Decide(g, Live(Asks[g].menu), Prepared(g))
<1>1. Asks[g].menu \in Menus /\ Asks[g].ttl \in Ttls /\ Asks[g].want \in SUBSET Fields
  BY AsksAssumption
<1>2. Live(Asks[g].menu) \in EntryIds
  BY <1>1 DEF Live, EntryIds, TypeOK
<1>3. Found(g) \in Entry
  BY <1>1, <1>2, NewEntryType DEF Found, TypeOK
<1>4. Prepared(g) \in Entry /\ Prepared(g).inflight = Found(g).inflight
  BY <1>1, <1>3, PrepareType DEF Prepared
<1>5. Claim(g) => pc[g] = "claim" /\ Decide(g, Live(Asks[g].menu), Prepared(g))
  BY DEF Claim, Prepared, Found
<1>6. QED  BY <1>2, <1>3, <1>4, <1>5

(***************************************************************************)
(* The inductive invariant behind SingleFlight and NoStrandedWaiter: a      *)
(* caller between claim and close is the one its entry's channel belongs    *)
(* to, the owner of a channel is such a caller, and whoever waits does so   *)
(* on an entry whose channel is open.                                       *)
(***************************************************************************)
HoldsEntry(g) == ent[g] \in EntryIds /\ heap[ent[g]] \in Entry

FlightInv ==
    /\ \A g \in Callers : Fetching(g) => HoldsEntry(g) /\ heap[ent[g]].inflight = g
    /\ \A e \in EntryIds : heap[e] \in Entry /\ heap[e].inflight # None =>
          Fetching(heap[e].inflight) /\ ent[heap[e].inflight] = e
    /\ \A g \in Callers : pc[g] = "wait" => HoldsEntry(g) /\ heap[ent[g]].inflight # None
    /\ \A g \in Callers : pc[g] = "store" => ans[g] \in Result

LEMMA TypeInit == Init => TypeOK
BY EraAssumption DEF Init, TypeOK, PC

LEMMA TypeNext ==
    ASSUME TypeOK, FlightInv, [Next]_vars
    PROVE  TypeOK'
<1>1. ASSUME NEW g \in Callers, Begin(g) PROVE TypeOK'
  BY <1>1, AsksAssumption DEF Begin, TypeOK, PC
<1>2. ASSUME NEW g \in Callers, Claim(g) PROVE TypeOK'
  <2> DEFINE e == Live(Asks[g].menu)
             x == Prepared(g)
  <2>1. e \in EntryIds /\ x \in Entry /\ Decide(g, e, x)
    BY <1>2, ClaimUses
  <2>2. ASSUME Fresh(x) PROVE x.val \in Result
    BY <2>1, <2>2, FreshIsYoung
  <2>3. [x EXCEPT !.inflight = g] \in Entry
    BY <2>1 DEF Entry
  <2> HIDE DEF e, x
  <2>4. QED  BY <2>1, <2>2, <2>3 DEF Decide, TypeOK, PC
<1>3. ASSUME NEW g \in Callers, ReadProplist(g) PROVE TypeOK'
  <2>1. heap[ent[g]] \in Entry
    BY <1>3 DEF ReadProplist, FlightInv, Fetching, HoldsEntry
  <2>2. Proplist(heap[ent[g]]) \in SUBSET Fields
    BY <2>1 DEF Proplist, Entry
  <2>3. QED  BY <1>3, <2>2 DEF ReadProplist, TypeOK, PC
<1>4. ASSUME NEW g \in Callers, NEW f \in BOOLEAN, Answer(g, f) PROVE TypeOK'
  <2>1. [cols |-> cols[g], age |-> 0, err |-> f, era |-> era] \in Result
    BY TtlAssumption DEF TypeOK, Result
  <2>2. QED  BY <1>4, <2>1 DEF Answer, TypeOK, PC
<1>5. ASSUME NEW g \in Callers, Store(g) PROVE TypeOK'
  <2>1. ent[g] \in EntryIds /\ heap[ent[g]] \in Entry /\ ans[g] \in Result
    BY <1>5 DEF Store, FlightInv, Fetching, HoldsEntry
  <2>2. [heap[ent[g]] EXCEPT !.val = ans[g], !.inflight = None] \in Entry
    BY <2>1 DEF Entry
  <2>3. heap' \in [EntryIds -> Entry \cup {None}]
    BY <1>5, <2>1, <2>2 DEF Store, TypeOK
  <2>4. pc' \in [Callers -> PC]
    BY <1>5 DEF Store, TypeOK, PC
  <2>5. QED  BY <1>5, <2>3, <2>4 DEF Store, TypeOK
<1>6. ASSUME NEW g \in Callers, Return(g) PROVE TypeOK'
  BY <1>6, EraAssumption DEF Return, TypeOK, PC
<1>7. ASSUME NEW m \in Menus, Invalidate(m) PROVE TypeOK'
  <2>1. Live(m) \in EntryIds
    BY DEF Live, EntryIds, TypeOK
  <2>2. era + 1 \in 0..MaxEra
    BY <1>7, EraAssumption DEF Invalidate, TypeOK
  <2>3. ASSUME heap[Live(m)] # None
        PROVE  [heap[Live(m)] EXCEPT !.val = NoVal] \in Entry
    <3>1. heap[Live(m)] \in Entry  BY <2>1, <2>3 DEF TypeOK
    <3>2. QED  BY <3>1 DEF Entry
  <2>4. QED  BY <1>7, <2>1, <2>2, <2>3 DEF Invalidate, TypeOK
<1>8. ASSUME Reset PROVE TypeOK'
  BY <1>8, EraAssumption DEF Reset, TypeOK
<1>9. ASSUME Tick PROVE TypeOK'
  <2>1. ASSUME NEW e \in EntryIds, heap[e] # None
        PROVE  [heap[e] EXCEPT !.val = Older(@)] \in Entry
    <3>1. heap[e] \in Entry                        BY <2>1 DEF TypeOK
    <3>2. Older(heap[e].val) \in Result \cup {NoVal} BY <3>1, OlderType DEF Entry
    <3>3. QED  BY <3>1, <3>2 DEF Entry
  <2>2. heap' \in [EntryIds -> Entry \cup {None}]
    BY <1>9, <2>1 DEF Tick
  <2>3. ans' \in [Callers -> Result \cup {NoVal}]
    BY <1>9, OlderType DEF Tick, TypeOK
  <2>4. QED  BY <1>9, <2>2, <2>3 DEF Tick, TypeOK
<1>10. ASSUME UNCHANGED vars PROVE TypeOK'
  BY <1>10 DEF vars, TypeOK
<1>11. QED
  BY <1>1, <1>2, <1>3, <1>4, <1>5, <1>6, <1>7, <1>8, <1>9, <1>10 DEF Next, Step

-----------------------------------------------------------------------------
(* One fetch per entry *)

LEMMA FlightInit == Init => FlightInv
BY NoneAssumption, NoEntryAssumption DEF Init, FlightInv, Fetching

LEMMA FlightNext ==
    ASSUME TypeOK, FlightInv, [Next]_vars
    PROVE  FlightInv'
<1> USE DEF Fetching, HoldsEntry
<1>1. ASSUME NEW g \in Callers, Begin(g) PROVE FlightInv'
  BY <1>1 DEF Begin, FlightInv, TypeOK
<1>2. ASSUME NEW g \in Callers, Claim(g) PROVE FlightInv'
  <2> DEFINE e == Live(Asks[g].menu)
             x == Prepared(g)
  <2>1. /\ e \in EntryIds /\ x \in Entry /\ pc[g] = "claim" /\ Decide(g, e, x)
        /\ heap[e] \in Entry => x.inflight = heap[e].inflight
        /\ heap[e] \notin Entry => x.inflight = None
    <3>1. heap[e] \in Entry \cup {None}  BY ClaimUses DEF TypeOK
    <3>2. Found(g).inflight = IF heap[e] = None THEN None ELSE heap[e].inflight
      BY AsksAssumption, NewEntryType DEF Found
    <3>3. QED  BY <1>2, <3>1, <3>2, ClaimUses, NoEntryAssumption
  <2>2. [x EXCEPT !.inflight = g] \in Entry /\ [x EXCEPT !.inflight = g].inflight = g
    BY <2>1 DEF Entry
  <2> HIDE DEF e, x
  <2>3. /\ ~Fetching(g)
        /\ \A h \in Callers \ {g} : pc'[h] = pc[h] /\ ent'[h] = ent[h] /\ ans'[h] = ans[h]
        /\ \A d \in EntryIds \ {e} : heap'[d] = heap[d]
        /\ ent'[g] = e
    BY <2>1 DEF Decide, TypeOK
  <2>4. CASE ~(~Fresh(x) /\ x.inflight = None)
    <3>1. heap'[e] = x /\ pc'[g] \in {"hit", "wait"} /\ (pc'[g] = "wait" => x.inflight # None)
      BY <2>1, <2>4 DEF Decide, TypeOK
    <3>2. \A h \in Callers : Fetching(h)' => h # g /\ Fetching(h)
      BY <2>3, <3>1
    <3>3. \A h \in Callers : Fetching(h) => Fetching(h)' /\ h # g
      BY <2>3
    <3>4. \A h \in Callers : Fetching(h)' => HoldsEntry(h)' /\ heap'[ent'[h]].inflight = h
      BY <2>1, <2>3, <3>1, <3>2 DEF FlightInv
    <3>5. ASSUME NEW d \in EntryIds, heap'[d] \in Entry, heap'[d].inflight # None
          PROVE  pc'[heap'[d].inflight] \in {"cmd", "do", "store"} /\ ent'[heap'[d].inflight] = d
      <4>1. heap[d] \in Entry /\ heap[d].inflight = heap'[d].inflight
        BY <2>1, <2>3, <3>1, <3>5
      <4>2. heap[d].inflight \in Callers
        BY <3>5, <4>1 DEF Entry
      <4>3. Fetching(heap[d].inflight) /\ ent[heap[d].inflight] = d
        BY <3>5, <4>1 DEF FlightInv
      <4>4. QED  BY <2>3, <3>3, <4>1, <4>2, <4>3
    <3>6. \A h \in Callers : pc'[h] = "wait" => HoldsEntry(h)' /\ heap'[ent'[h]].inflight # None
      BY <2>1, <2>3, <3>1 DEF FlightInv
    <3>7. \A h \in Callers : pc'[h] = "store" => ans'[h] \in Result
      BY <2>3, <3>1 DEF FlightInv
    <3>8. QED  BY <3>4, <3>5, <3>6, <3>7 DEF FlightInv
  <2>5. CASE ~Fresh(x) /\ x.inflight = None
    <3>1. heap'[e] = [x EXCEPT !.inflight = g] /\ pc'[g] = "cmd"
      BY <2>1, <2>5 DEF Decide, TypeOK
    <3>2. \A h \in Callers \ {g} : Fetching(h) \/ pc[h] = "wait" => ent[h] \in EntryIds \ {e}
      BY <2>1, <2>5, NoneAssumption DEF FlightInv
    <3>3. \A h \in Callers : Fetching(h)' => HoldsEntry(h)' /\ heap'[ent'[h]].inflight = h
      <4>1. HoldsEntry(g)' /\ heap'[ent'[g]].inflight = g
        BY <2>1, <2>2, <2>3, <3>1
      <4>2. ASSUME NEW h \in Callers \ {g}, Fetching(h)'
            PROVE  HoldsEntry(h)' /\ heap'[ent'[h]].inflight = h
        <5>1. Fetching(h) /\ ent[h] \in EntryIds \ {e} /\ ent'[h] = ent[h]
          BY <2>3, <3>2, <4>2
        <5>2. heap[ent[h]] \in Entry /\ heap[ent[h]].inflight = h
          BY <5>1 DEF FlightInv
        <5>3. QED  BY <2>3, <5>1, <5>2
      <4>3. QED  BY <4>1, <4>2
    <3>4. ASSUME NEW d \in EntryIds, heap'[d] \in Entry, heap'[d].inflight # None
          PROVE  pc'[heap'[d].inflight] \in {"cmd", "do", "store"} /\ ent'[heap'[d].inflight] = d
      <4>1. CASE d = e
        BY <2>2, <2>3, <3>1, <4>1
      <4>2. CASE d # e
        <5>1. heap[d] = heap'[d] /\ heap[d].inflight \in Callers
          BY <2>3, <3>4, <4>2 DEF Entry
        <5>2. Fetching(heap[d].inflight) /\ ent[heap[d].inflight] = d
          BY <3>4, <5>1 DEF FlightInv
        <5>3. QED  BY <2>3, <5>1, <5>2
      <4>3. QED  BY <4>1, <4>2
    <3>5. \A h \in Callers : pc'[h] = "wait" => HoldsEntry(h)' /\ heap'[ent'[h]].inflight # None
      BY <2>3, <3>1, <3>2 DEF FlightInv
    <3>6. \A h \in Callers : pc'[h] = "store" => ans'[h] \in Result
      BY <2>3, <3>1 DEF FlightInv
    <3>7. QED  BY <3>3, <3>4, <3>5, <3>6 DEF FlightInv
  <2>6. QED  BY <2>4, <2>5
<1>3. ASSUME NEW g \in Callers, ReadProplist(g) PROVE FlightInv'
  BY <1>3 DEF ReadProplist, FlightInv, TypeOK
<1>4. ASSUME NEW g \in Callers, NEW f \in BOOLEAN, Answer(g, f) PROVE FlightInv'
  <2>1. [cols |-> cols[g], age |-> 0, err |-> f, era |-> era] \in Result
    BY TtlAssumption DEF TypeOK, Result
  <2>2. QED  BY <1>4, <2>1 DEF Answer, FlightInv, TypeOK
<1>5. ASSUME NEW g \in Callers, Store(g) PROVE FlightInv'
  <2> DEFINE y == [heap[ent[g]] EXCEPT !.val = ans[g], !.inflight = None]
  <2>1. /\ ent[g] \in EntryIds /\ heap[ent[g]] \in Entry
        /\ heap[ent[g]].inflight = g /\ ans[g] \in Result
    BY <1>5 DEF Store, FlightInv
  <2>2. y \in Entry /\ y.inflight = None
    BY <2>1 DEF Entry
  <2>3. heap' = [heap EXCEPT ![ent[g]] = y]
    BY <1>5, <2>1 DEF Store, TypeOK
  <2> HIDE DEF y
  <2>4. \A h \in Callers : Fetching(h)' => h # g /\ Fetching(h)
    BY <1>5 DEF Store, TypeOK
  <2>5. \A h \in Callers : h # g /\ Fetching(h) => Fetching(h)' /\ ent[h] # ent[g]
    BY <1>5, <2>1 DEF Store, FlightInv, TypeOK
  <2>6. \A h \in Callers : pc'[h] = "wait" => pc[h] = "wait" /\ ent[h] # ent[g]
    BY <1>5 DEF Store, TypeOK
  <2>7. ent' = ent /\ ans' = ans /\ \A h \in Callers : pc'[h] = "store" => pc[h] = "store"
    BY <1>5 DEF Store, TypeOK
  <2>8. \A e \in EntryIds : heap'[e] \in Entry /\ heap'[e].inflight # None =>
             e # ent[g] /\ heap'[e] = heap[e] /\ heap[e].inflight \in Callers
    BY <2>1, <2>2, <2>3 DEF TypeOK, Entry
  <2>9. QED
    BY <2>1, <2>2, <2>3, <2>4, <2>5, <2>6, <2>7, <2>8 DEF FlightInv, TypeOK
<1>6. ASSUME NEW g \in Callers, Return(g) PROVE FlightInv'
  BY <1>6, NoEntryAssumption DEF Return, Answered, FlightInv, TypeOK
<1>7. ASSUME NEW m \in Menus, Invalidate(m) PROVE FlightInv'
  <2>1. Live(m) \in EntryIds
    BY DEF Live, EntryIds, TypeOK
  <2>2. ASSUME heap[Live(m)] # None
        PROVE  /\ heap[Live(m)] \in Entry
               /\ [heap[Live(m)] EXCEPT !.val = NoVal] \in Entry
               /\ [heap[Live(m)] EXCEPT !.val = NoVal].inflight = heap[Live(m)].inflight
    <3>1. heap[Live(m)] \in Entry  BY <2>1, <2>2 DEF TypeOK
    <3>2. QED  BY <3>1 DEF Entry
  <2>3. QED  BY <1>7, <2>1, <2>2 DEF Invalidate, FlightInv, TypeOK
<1>8. ASSUME Reset PROVE FlightInv'
  BY <1>8 DEF Reset, FlightInv, TypeOK
<1>9. ASSUME Tick PROVE FlightInv'
  <2>1. ASSUME NEW e \in EntryIds
        PROVE  /\ heap[e] \in Entry => heap'[e] \in Entry /\ heap'[e].inflight = heap[e].inflight
               /\ heap[e] \notin Entry => heap'[e] \notin Entry
    <3>1. CASE heap[e] = None
      BY <1>9, <3>1, NoEntryAssumption DEF Tick
    <3>2. CASE heap[e] # None
      <4>1. heap[e] \in Entry                           BY <3>2 DEF TypeOK
      <4>2. Older(heap[e].val) \in Result \cup {NoVal} BY <4>1, OlderType DEF Entry
      <4>3. heap'[e] = [heap[e] EXCEPT !.val = Older(heap[e].val)]
        BY <1>9, <3>2 DEF Tick
      <4>4. QED  BY <4>1, <4>2, <4>3 DEF Entry
    <3>3. QED  BY <3>1, <3>2
  <2>2. ASSUME NEW g \in Callers, pc[g] = "store" PROVE ans'[g] \in Result
    <3>1. ans[g] \in Result             BY <2>2 DEF FlightInv
    <3>2. Older(ans[g]) \in Result      BY <3>1, OlderType, NoValAssumption
    <3>3. QED  BY <1>9, <2>2, <3>2 DEF Tick
  <2>3. pc' = pc /\ ent' = ent
    BY <1>9 DEF Tick
  <2>4. QED  BY <2>1, <2>2, <2>3 DEF FlightInv
<1>10. ASSUME UNCHANGED vars PROVE FlightInv'
  BY <1>10 DEF vars, FlightInv
<1>11. QED
  BY <1>1, <1>2, <1>3, <1>4, <1>5, <1>6, <1>7, <1>8, <1>9, <1>10 DEF Next, Step

(***************************************************************************)
(* Every reachable state is well typed, and every fetch owns the channel of *)
(* its entry.                                                               *)
(***************************************************************************)
THEOREM TypeCorrect == Spec => [](TypeOK /\ FlightInv)
<1>1. Init => TypeOK /\ FlightInv
  BY TypeInit, FlightInit
<1>2. TypeOK /\ FlightInv /\ [Next]_vars => (TypeOK /\ FlightInv)'
  BY TypeNext, FlightNext
<1>3. QED  BY <1>1, <1>2, PTL DEF Spec

(***************************************************************************)
(* Get never runs two reads of one entry at once, and the channel it closes *)
(* is always the one it made.                                               *)
(***************************************************************************)
THEOREM SingleFlightHolds == Spec => []SingleFlight
<1>1. TypeOK /\ FlightInv => SingleFlight
  <2> SUFFICES ASSUME TypeOK, FlightInv, NEW e \in EntryIds
               PROVE  {g \in Callers : Fetching(g) /\ ent[g] = e} =
                        IF heap[e] = None \/ heap[e].inflight = None THEN {}
                        ELSE {heap[e].inflight}
    BY DEF SingleFlight
  <2>1. CASE heap[e] = None \/ heap[e].inflight = None
    BY <2>1, NoneAssumption, NoEntryAssumption DEF FlightInv, HoldsEntry
  <2>2. CASE heap[e] # None /\ heap[e].inflight # None
    <3>1. heap[e] \in Entry  BY <2>2 DEF TypeOK
    <3>2. heap[e].inflight \in Callers  BY <2>2, <3>1 DEF Entry
    <3>3. QED  BY <2>2, <3>1, <3>2 DEF FlightInv
  <2>3. QED  BY <2>1, <2>2
<1>2. QED  BY <1>1, TypeCorrect, PTL

(***************************************************************************)
(* A Get blocked on another caller's fetch always has that fetch running.   *)
(***************************************************************************)
THEOREM NoStrandedWaiterHolds == Spec => []NoStrandedWaiter
<1>1. TypeOK /\ FlightInv => NoStrandedWaiter
  <2> SUFFICES ASSUME TypeOK, FlightInv, NEW g \in Callers, pc[g] = "wait"
               PROVE  \E h \in Callers : Fetching(h) /\ ent[h] = ent[g]
    BY DEF NoStrandedWaiter
  <2>1. ent[g] \in EntryIds /\ heap[ent[g]] \in Entry /\ heap[ent[g]].inflight # None
    BY DEF FlightInv, HoldsEntry
  <2>2. heap[ent[g]].inflight \in Callers
    BY <2>1 DEF Entry
  <2>3. QED  BY <2>1, <2>2 DEF FlightInv
<1>2. QED  BY <1>1, TypeCorrect, PTL

-----------------------------------------------------------------------------
(* Tolerances *)

LEMMA TtlNext ==
    ASSUME TypeOK, FlightInv, AnswerWithinTtl, [Next]_vars
    PROVE  AnswerWithinTtl'
<1>1. ASSUME NEW g \in Callers, Claim(g) PROVE AnswerWithinTtl'
  <2> DEFINE e == Live(Asks[g].menu)
             x == Prepared(g)
  <2>1. x \in Entry /\ Decide(g, e, x)
    BY <1>1, ClaimUses
  <2>2. ASSUME Fresh(x), Asks[g].ttl > 0 PROVE x.val.age < Asks[g].ttl
    <3>1. x.val \in Result /\ x.val.age < x.ttl
      BY <2>1, <2>2, FreshIsYoung
    <3>2. x.ttl <= Asks[g].ttl
      BY <2>2, ClaimUses, AsksAssumption, TightenBounds DEF Prepared
    <3>3. x.val.age \in 0..MaxAge /\ x.ttl \in Ttls /\ Asks[g].ttl \in Ttls
      BY <2>1, <3>1, AsksAssumption DEF Result, Entry
    <3>4. Ttls \subseteq Nat /\ MaxAge \in Nat
      BY TtlAssumption
    <3>5. x.val.age \in Nat  BY <3>3, <3>4
    <3>6. x.ttl \in Nat /\ Asks[g].ttl \in Nat  BY <3>3, <3>4
    <3>7. QED  BY <3>1, <3>2, <3>5, <3>6
  <2>3. ASSUME Fresh(x), x.val.err PROVE x.val.age < ErrTTL
    BY <2>1, <2>3, FreshIsYoung
  <2> HIDE DEF e, x
  <2>4. \A h \in Callers \ {g} : pc'[h] = pc[h] /\ ans'[h] = ans[h]
    BY <2>1 DEF Decide, TypeOK
  <2>5. pc'[g] = "hit" => Fresh(x) /\ ans'[g] = x.val
    BY <2>1 DEF Decide, TypeOK
  <2>6. QED  BY <2>2, <2>3, <2>4, <2>5 DEF AnswerWithinTtl
<1>2. ASSUME ~(\E g \in Callers : Claim(g))
      PROVE  \A h \in Callers : pc'[h] = "hit" => pc[h] = "hit" /\ ans'[h] = ans[h]
  <2>1. ASSUME NEW g \in Callers, Begin(g) \/ ReadProplist(g) \/ Store(g) \/ Return(g)
               \/ \E f \in BOOLEAN : Answer(g, f)
        PROVE  \A h \in Callers : pc'[h] = "hit" => pc[h] = "hit" /\ ans'[h] = ans[h]
    BY <2>1 DEF Begin, ReadProplist, Store, Return, Answered, Answer, TypeOK
  <2>2. ASSUME (\E m \in Menus : Invalidate(m)) \/ Reset \/ Tick \/ UNCHANGED vars
        PROVE  \A h \in Callers : pc'[h] = "hit" => pc[h] = "hit" /\ ans'[h] = ans[h]
    BY <2>2 DEF Invalidate, Reset, Tick, vars, TypeOK
  <2>3. QED  BY <1>2, <2>1, <2>2 DEF Next, Step
<1>3. ASSUME ~(\E g \in Callers : Claim(g)) PROVE AnswerWithinTtl'
  BY <1>2, <1>3 DEF AnswerWithinTtl
<1>4. QED  BY <1>1, <1>3

(***************************************************************************)
(* No consumer is answered from the cache with rows older than it asked     *)
(* for, whatever the others asked for and in whatever order they came, and  *)
(* no failure is served past errTTL.                                        *)
(***************************************************************************)
THEOREM AnswerWithinTtlHolds == Spec => []AnswerWithinTtl
<1>1. Init => AnswerWithinTtl
  BY DEF Init, AnswerWithinTtl
<1>2. TypeOK /\ FlightInv /\ AnswerWithinTtl /\ [Next]_vars => AnswerWithinTtl'
  BY TtlNext
<1>3. QED  BY <1>1, <1>2, TypeCorrect, PTL DEF Spec

-----------------------------------------------------------------------------
(* Reconnects *)

(***************************************************************************)
(* Why an old connection's fetch cannot reach a Get begun after the Reset:  *)
(* that Get works on an entry made since, and everything in an entry was    *)
(* answered after the Reset that made room for it.                          *)
(***************************************************************************)
Claimed(g) == pc[g] \in {"wait", "cmd", "do", "store", "hit", "fetched"}

ResetInv ==
    /\ resetAt <= era
    /\ \A e \in EntryIds : heap[e] \in Entry /\ heap[e].val # NoVal => e[2] <= heap[e].val.era
    /\ \A g \in Callers :
          /\ since[g].reset <= resetAt
          /\ Claimed(g) => ent[g] \in EntryIds /\ since[g].reset <= ent[g][2] /\ ent[g][2] <= resetAt
          /\ pc[g] = "store" \/ Answered(g) => ans[g] \in Result /\ ent[g][2] <= ans[g].era

LEMMA ResetNumbers ==
    ASSUME TypeOK
    PROVE  /\ era \in Nat /\ resetAt \in Nat /\ MaxEra \in Nat
           /\ \A e \in EntryIds : e[2] \in Nat
           /\ \A r \in Result : r.era \in Nat
           /\ \A g \in Callers : since[g].reset \in Nat
           /\ \A m \in Menus : Live(m) \in EntryIds /\ Live(m)[2] = resetAt
<1>1. MaxEra \in Nat  BY EraAssumption
<1>2. \A n \in 0..MaxEra : n \in Nat  BY <1>1
<1>3. era \in 0..MaxEra /\ resetAt \in 0..MaxEra  BY DEF TypeOK
<1>4. \A e \in EntryIds : e[2] \in 0..MaxEra  BY DEF EntryIds
<1>5. \A r \in Result : r.era \in 0..MaxEra  BY DEF Result
<1>6. \A g \in Callers : since[g].reset \in 0..MaxEra  BY DEF TypeOK
<1>7. \A m \in Menus : Live(m) \in EntryIds /\ Live(m)[2] = resetAt
  BY <1>3 DEF Live, EntryIds
<1>8. QED  BY <1>1, <1>2, <1>3, <1>4, <1>5, <1>6, <1>7

LEMMA ResetNext ==
    ASSUME TypeOK, FlightInv, ResetInv, [Next]_vars
    PROVE  ResetInv'
<1> USE DEF Claimed, Answered
<1>1. ASSUME NEW g \in Callers, Begin(g) PROVE ResetInv'
  <2>1. since'[g].reset = resetAt /\ \A h \in Callers \ {g} : since'[h] = since[h]
    BY <1>1 DEF Begin, TypeOK
  <2>2. UNCHANGED <<heap, ent, ans, era, resetAt>>
    BY <1>1 DEF Begin
  <2>3. \A h \in Callers \ {g} : pc'[h] = pc[h]
    BY <1>1 DEF Begin, TypeOK
  <2>4. pc'[g] = "claim"
    BY <1>1 DEF Begin, TypeOK
  <2>5. QED  BY <2>1, <2>2, <2>3, <2>4, ResetNumbers DEF ResetInv
<1>2. ASSUME NEW g \in Callers, Claim(g) PROVE ResetInv'
  <2> DEFINE e == Live(Asks[g].menu)
             x == Prepared(g)
  <2>1. /\ e \in EntryIds /\ e[2] = resetAt /\ x \in Entry
        /\ pc[g] = "claim" /\ Decide(g, e, x)
    BY <1>2, ClaimUses, ResetNumbers, AsksAssumption
  <2>2. x.val # NoVal => x.val \in Result /\ e[2] <= x.val.era
    <3> SUFFICES ASSUME x.val # NoVal PROVE x.val \in Result /\ e[2] <= x.val.era
      OBVIOUS
    <3>1. x.val \in Result  BY <2>1 DEF Entry
    <3>2. x.val \in {Found(g).val, NoVal}
      BY ClaimUses, AsksAssumption, PrepareValue DEF Prepared
    <3>3. x.val = Found(g).val  BY <3>2
    <3>4. Found(g) = heap[e] /\ heap[e] \in Entry
      BY <2>1, <3>3, ClaimUses DEF Found, NewEntry
    <3>5. heap[e].val = x.val  BY <3>3, <3>4
    <3>6. QED  BY <2>1, <3>1, <3>4, <3>5 DEF ResetInv
  <2>3. [x EXCEPT !.inflight = g].val = x.val
    BY <2>1 DEF Entry
  <2>4. Fresh(x) => x.val # NoVal
    BY DEF Fresh
  <2> HIDE DEF e, x
  <2>5. heap'[e].val = x.val /\ \A d \in EntryIds \ {e} : heap'[d] = heap[d]
    BY <2>1, <2>3 DEF Decide, TypeOK
  <2>6. /\ \A h \in Callers \ {g} : pc'[h] = pc[h] /\ ent'[h] = ent[h] /\ ans'[h] = ans[h]
        /\ ent'[g] = e /\ pc'[g] \in {"hit", "wait", "cmd"}
        /\ pc'[g] = "hit" => Fresh(x) /\ ans'[g] = x.val
        /\ UNCHANGED <<since, era, resetAt>>
    BY <2>1 DEF Decide, TypeOK
  <2>7. \A d \in EntryIds : heap'[d] \in Entry /\ heap'[d].val # NoVal => d[2] <= heap'[d].val.era
    BY <2>2, <2>5 DEF ResetInv
  <2>8. QED  BY <2>1, <2>2, <2>4, <2>6, <2>7, ResetNumbers DEF ResetInv
<1>3. ASSUME NEW g \in Callers, ReadProplist(g) PROVE ResetInv'
  BY <1>3 DEF ReadProplist, ResetInv, TypeOK
<1>4. ASSUME NEW g \in Callers, NEW f \in BOOLEAN, Answer(g, f) PROVE ResetInv'
  <2> DEFINE r == [cols |-> cols[g], age |-> 0, err |-> f, era |-> era]
  <2>1. r \in Result /\ r.era = era
    BY TtlAssumption DEF TypeOK, Result
  <2> HIDE DEF r
  <2>2. /\ pc[g] = "do" /\ pc'[g] = "store" /\ ans'[g] = r
        /\ \A h \in Callers \ {g} : pc'[h] = pc[h] /\ ans'[h] = ans[h]
        /\ UNCHANGED <<heap, since, ent, era, resetAt>>
    BY <1>4 DEF Answer, TypeOK, r
  <2>3. ent[g] \in EntryIds /\ ent[g][2] <= resetAt /\ resetAt <= era
    BY <2>2 DEF ResetInv
  <2>4. ent[g][2] <= r.era
    BY <2>1, <2>3, ResetNumbers
  <2>5. QED  BY <2>1, <2>2, <2>4 DEF ResetInv
<1>5. ASSUME NEW g \in Callers, Store(g) PROVE ResetInv'
  <2>1. /\ ent[g] \in EntryIds /\ heap[ent[g]] \in Entry
        /\ ans[g] \in Result /\ ent[g][2] <= ans[g].era
    BY <1>5 DEF Store, FlightInv, Fetching, HoldsEntry, ResetInv
  <2>2. heap'[ent[g]].val = ans[g]
    BY <1>5, <2>1 DEF Store, TypeOK, Entry
  <2>3. \A d \in EntryIds \ {ent[g]} : heap'[d] = heap[d]
    BY <1>5 DEF Store, TypeOK
  <2>4. \A d \in EntryIds : heap'[d] \in Entry /\ heap'[d].val # NoVal => d[2] <= heap'[d].val.era
    BY <2>1, <2>2, <2>3 DEF ResetInv
  <2>5. /\ UNCHANGED <<since, ent, ans, era, resetAt>>
        /\ \A h \in Callers : pc'[h] = "claim" \/ pc'[h] = pc[h] \/ (h = g /\ pc'[h] = "fetched" /\ pc[h] = "store")
    BY <1>5 DEF Store, TypeOK
  <2>6. QED  BY <2>4, <2>5 DEF ResetInv
<1>6. ASSUME NEW g \in Callers, Return(g) PROVE ResetInv'
  <2>1. /\ pc'[g] = "idle" /\ since'[g].reset = 0
        /\ \A h \in Callers \ {g} : /\ pc'[h] = pc[h] /\ since'[h] = since[h]
                                    /\ ent'[h] = ent[h] /\ ans'[h] = ans[h]
        /\ UNCHANGED <<heap, era, resetAt>>
    BY <1>6 DEF Return, TypeOK
  <2>2. QED  BY <2>1, ResetNumbers DEF ResetInv
<1>7. ASSUME NEW m \in Menus, Invalidate(m) PROVE ResetInv'
  <2>1. era' = era + 1 /\ UNCHANGED <<pc, since, ent, ans, resetAt>>
    BY <1>7 DEF Invalidate
  <2>2. \A d \in EntryIds : heap'[d] = heap[d] \/ heap'[d] \notin Entry \/ heap'[d].val = NoVal
    <3>1. CASE heap[Live(m)] = None
      BY <1>7, <3>1 DEF Invalidate
    <3>2. CASE heap[Live(m)] # None
      <4>1. heap[Live(m)] \in Entry /\ Live(m) \in EntryIds
        BY <3>2, ResetNumbers DEF TypeOK
      <4>2. heap'[Live(m)].val = NoVal
        BY <1>7, <3>2, <4>1 DEF Invalidate, TypeOK, Entry
      <4>3. \A d \in EntryIds \ {Live(m)} : heap'[d] = heap[d]
        BY <1>7, <3>2, <4>1 DEF Invalidate, TypeOK
      <4>4. QED  BY <4>2, <4>3
    <3>3. QED  BY <3>1, <3>2
  <2>3. resetAt' <= era'
    BY <2>1, ResetNumbers DEF ResetInv
  <2>4. QED  BY <2>1, <2>2, <2>3 DEF ResetInv
<1>8. ASSUME Reset PROVE ResetInv'
  <2>1. era' = era + 1 /\ resetAt' = era + 1 /\ UNCHANGED <<heap, pc, since, ent, ans>>
    BY <1>8 DEF Reset
  <2>2. \A n \in Nat : n <= resetAt => n <= resetAt'
    BY <2>1, ResetNumbers DEF ResetInv
  <2>3. resetAt' <= era'
    BY <2>1, ResetNumbers
  <2>4. QED  BY <2>1, <2>2, <2>3, ResetNumbers DEF ResetInv
<1>9. ASSUME Tick PROVE ResetInv'
  <2>1. ASSUME NEW d \in EntryIds, heap'[d] \in Entry, heap'[d].val # NoVal
        PROVE  d[2] <= heap'[d].val.era
    <3>1. heap[d] \in Entry
      BY <1>9, <2>1, NoEntryAssumption DEF Tick, TypeOK
    <3>2. heap'[d] = [heap[d] EXCEPT !.val = Older(heap[d].val)]
      BY <1>9, <3>1, NoEntryAssumption DEF Tick
    <3>3. heap'[d].val = Older(heap[d].val)
      BY <3>1, <3>2 DEF Entry
    <3>4. heap[d].val \in Result \cup {NoVal}
      BY <3>1 DEF Entry
    <3>5. heap[d].val # NoVal /\ heap'[d].val.era = heap[d].val.era
      BY <2>1, <3>3, <3>4, OlderType
    <3>6. QED  BY <3>1, <3>5 DEF ResetInv
  <2>2. ASSUME NEW g \in Callers, pc[g] = "store" \/ Answered(g)
        PROVE  ans'[g] \in Result /\ ans'[g].era = ans[g].era
    <3>1. ans[g] \in Result  BY <2>2 DEF ResetInv
    <3>2. ans'[g] = IF pc[g] = "store" THEN Older(ans[g]) ELSE ans[g]  BY <1>9 DEF Tick
    <3>3. Older(ans[g]) \in Result /\ Older(ans[g]).era = ans[g].era
      BY <3>1, OlderType, NoValAssumption
    <3>4. QED  BY <3>1, <3>2, <3>3
  <2>3. UNCHANGED <<pc, since, ent, era, resetAt>>
    BY <1>9 DEF Tick
  <2>4. QED  BY <2>1, <2>2, <2>3 DEF ResetInv
<1>10. ASSUME UNCHANGED vars PROVE ResetInv'
  BY <1>10 DEF vars, ResetInv
<1>11. QED
  BY <1>1, <1>2, <1>3, <1>4, <1>5, <1>6, <1>7, <1>8, <1>9, <1>10 DEF Next, Step

(***************************************************************************)
(* A Get begun after a reconnect's Reset is never answered with rows the    *)
(* router gave before it, although fetches from the old connection may      *)
(* still be in flight and still store their results.                        *)
(***************************************************************************)
THEOREM ResetForgetsHolds == Spec => []ResetForgets
<1>1. Init => ResetInv
  BY NoEntryAssumption DEF Init, ResetInv, Claimed, Answered
<1>2. TypeOK /\ FlightInv /\ ResetInv /\ [Next]_vars => ResetInv'
  BY ResetNext
<1>3. TypeOK /\ ResetInv => ResetForgets
  <2> SUFFICES ASSUME TypeOK, ResetInv, NEW g \in Callers, Answered(g)
               PROVE  ans[g].era >= since[g].reset
    BY DEF ResetForgets
  <2>1. /\ ans[g] \in Result /\ ent[g][2] <= ans[g].era
        /\ ent[g] \in EntryIds /\ since[g].reset <= ent[g][2]
    BY DEF ResetInv, Claimed, Answered
  <2>2. QED  BY <2>1, ResetNumbers
<1>4. QED  BY <1>1, <1>2, <1>3, TypeCorrect, PTL DEF Spec

-----------------------------------------------------------------------------
(* The scheduler: least and greatest numbers, and ages *)

\* A set of natural numbers has a least one.
LEMMA LeastNat ==
    ASSUME NEW T \in SUBSET Nat, T # {}
    PROVE  \E x \in T : \A y \in T : x <= y
<1> DEFINE R == OpToRel(<, Nat)
<1>1. IsWellFoundedOn(R, Nat)
  BY NatLessThanWellFounded
<1>2. R = {ss \in Nat \X Nat : ss[1] < ss[2]}
  BY Zenon DEF OpToRel
<1> HIDE DEF R
<1>3. PICK x \in T : \A y \in T : ~ (<<y, x>> \in R)
  BY <1>1, WFMin
<1>4. ASSUME NEW y \in T PROVE x <= y
  <2>1. x \in Nat /\ y \in Nat /\ <<y, x>> \notin R
    BY <1>3
  <2>2. y < x => <<y, x>> \in R
    BY <2>1, <1>2
  <2> QED
    BY <2>1, <2>2
<1> QED
  BY <1>4

\* Min of a set of natural numbers is in it.
LEMMA MinIn ==
    ASSUME NEW T \in SUBSET Nat, T # {}
    PROVE  Min(T) \in T
BY LeastNat DEF Min

\* Min of two integers.
LEMMA MinOfTwo ==
    ASSUME NEW a \in Int, NEW b \in Int PROVE Min({a, b}) = IF a <= b THEN a ELSE b
BY DEF Min


\* A finite set of natural numbers, if not empty, has a greatest one.
LEMMA GreatestNat ==
    ASSUME NEW S \in SUBSET Nat, IsFiniteSet(S), S # {}
    PROVE  \E x \in S : \A y \in S : x >= y
<1> DEFINE Bad(U) == U # {} /\ ~ \E x \in U : \A y \in U : x >= y
           Sizes == {Cardinality(U) : U \in {V \in SUBSET S : Bad(V)}}
<1> SUFFICES ASSUME Bad(S) PROVE FALSE
  OBVIOUS
<1>1. Sizes \subseteq Nat
  BY FS_Subset, FS_CardinalityType
<1>2. Cardinality(S) \in Sizes
  OBVIOUS
<1>3. PICK n \in Sizes : \A m \in Sizes : n <= m
  BY <1>1, <1>2, LeastNat
<1>4. PICK U \in SUBSET S : Bad(U) /\ n = Cardinality(U)
  BY <1>3
<1>5. PICK x \in U : TRUE
  BY <1>4
<1>6. IsFiniteSet(U) /\ n \in Nat
  BY <1>1, FS_Subset
<1>7. Cardinality(U \ {x}) = n - 1
  BY <1>4, <1>6, FS_RemoveElement
<1>8. ~Bad(U \ {x})
  <2>1. Bad(U \ {x}) => n - 1 \in Sizes
    BY <1>7
  <2> QED
    BY <2>1, <1>3, <1>6
<1>9. CASE U \ {x} = {}
  <2>1. U = {x} /\ x \in Nat
    BY <1>9
  <2> QED
    BY <1>4, <2>1
<1>10. CASE \E z \in U \ {x} : \A y \in U \ {x} : z >= y
  <2>1. PICK z \in U \ {x} : \A y \in U \ {x} : z >= y
    BY <1>10
  <2>2. z \in Nat /\ x \in Nat /\ \A y \in U : y \in Nat
    OBVIOUS
  <2>3. CASE z >= x
    <3>1. \A y \in U : z >= y
      BY <2>1, <2>3
    <3> QED
      BY <1>4, <3>1
  <2>4. CASE x >= z
    <3>1. \A y \in U : x >= y
      BY <2>1, <2>2, <2>4
    <3> QED
      BY <1>4, <3>1
  <2> QED
    BY <2>2, <2>3, <2>4
<1> QED
  BY <1>8, <1>9, <1>10

\* Slowest bounds what a cadence function can answer.
LEMMA SlowestFits ==
    /\ Slowest \in Nat /\ \A c \in Cadences : c \in Nat /\ c <= Slowest
    /\ MaxLag \in Nat /\ OldRun \in Nat /\ OldRound \in Nat /\ OldCall \in Nat
<1> DEFINE T == Cadences \cup {0}
<1>1. T \in SUBSET Nat /\ T # {} /\ IsFiniteSet(T)
  BY CadencesAssumption, FS_AddElement
<1>2. \E x \in T : \A y \in T : x >= y
  BY <1>1, GreatestNat
<1>3. Max(T) \in T /\ \A y \in T : Max(T) >= y
  BY <1>2 DEF Max
<1> HIDE DEF T
<1>4. Slowest \in Nat /\ \A y \in T : y \in Nat /\ Slowest >= y
  BY <1>1, <1>3 DEF Slowest, T
<1> QED
  BY <1>4, BoundsAssumption DEF T, OldRun, OldRound, OldCall

\* The cadence the loop works to is that of a subscriber, and no slower than any.
LEMMA DemandFits ==
    ASSUME SchedulerTypeOK
    PROVE  /\ DemandCadence \in Cadences \cup {0}
           /\ \A s \in subs : cadence[s] > 0 => DemandCadence > 0 /\ DemandCadence <= cadence[s]
<1> DEFINE own == {cadence[s] : s \in subs} \ {0}
<1>1. own \subseteq Cadences /\ own \in SUBSET Nat /\ 0 \notin own
  BY CadencesAssumption DEF SchedulerTypeOK
<1>2. ASSUME own # {} PROVE Min(own) \in own /\ \A y \in own : Min(own) <= y
  <2>1. \E x \in own : \A y \in own : x <= y
    BY <1>1, <1>2, LeastNat
  <2> QED
    BY <2>1 DEF Min
<1>3. DemandCadence = IF own = {} THEN 0 ELSE Min(own)
  BY DEF DemandCadence
<1>4. \A s \in subs : cadence[s] > 0 => cadence[s] \in own
  OBVIOUS
<1> HIDE DEF own
<1>5. DemandCadence \in Cadences \cup {0}
  BY <1>1, <1>2, <1>3
<1>6. ASSUME NEW s \in subs, cadence[s] > 0 PROVE DemandCadence > 0 /\ DemandCadence <= cadence[s]
  <2>1. cadence[s] \in own /\ own # {}
    BY <1>4, <1>6
  <2>2. DemandCadence \in own /\ DemandCadence <= cadence[s]
    BY <1>2, <1>3, <2>1
  <2>3. DemandCadence \in Nat /\ DemandCadence # 0
    BY <1>1, <2>2
  <2> QED
    BY <2>2, <2>3
<1> QED
  BY <1>5, <1>6

\* An age grows by one until it is not told apart from older ones.
LEMMA AgedValue ==
    ASSUME NEW cap \in Nat, NEW n \in 0..cap
    PROVE  /\ Aged(n, cap) \in 0..cap /\ Aged(n, cap) # Never
           /\ n < cap => Aged(n, cap) = n + 1
           /\ n = cap => Aged(n, cap) = n
<1>1. n # Never /\ n \in Int /\ cap \in Int
  BY NeverAssumption
<1>2. Min({cap, n + 1}) = IF cap <= n + 1 THEN cap ELSE n + 1
  BY <1>1, MinOfTwo
<1>3. Aged(n, cap) = Min({cap, n + 1})
  BY <1>1 DEF Aged
<1> QED
  BY <1>1, <1>2, <1>3, NeverAssumption

\* A time that never was does not age.
LEMMA AgedNever == ASSUME NEW cap PROVE Aged(Never, cap) = Never
BY DEF Aged

\* The actor at rest is one.
LEMMA IdleType == Idle \in Actor
BY BoundsAssumption DEF Idle, Actor, Rounds

\* What the clock does to the ages and to the two goroutines.
LEMMA TickEffect ==
    ASSUME SchedulerTypeOK, ClockTick
    PROVE  /\ lastRun' \in 0..OldRun \cup {Never} /\ roundAt' \in 0..OldRound \cup {Never}
           /\ loop' \in Actor /\ push' \in Actor /\ ran' = FALSE
           /\ loop'.cad = loop.cad /\ push'.cad = push.cad
           /\ loop'.at = loop.at /\ push'.at = push.at
           /\ loop'.fns = loop.fns /\ push'.fns = push.fns
           /\ loop.at # "idle" => loop'.lag = loop.lag + 1 /\ loop.lag < MaxLag
           /\ push.at # "idle" => push'.lag = push.lag + 1
           /\ lastRun' = Never <=> lastRun = Never
           /\ lastRun # Never => lastRun' = IF lastRun < OldRun THEN lastRun + 1 ELSE lastRun
           /\ roundAt' = Never <=> roundAt = Never
           /\ roundAt # Never => roundAt' = IF roundAt < OldRound THEN roundAt + 1 ELSE roundAt
           /\ heard' \in [Subs -> 0..OldCall]
           /\ \A s \in Subs : heard'[s] <= heard[s] + 1
<1>1. loop \in Actor /\ push \in Actor
  BY DEF SchedulerTypeOK
<1>2. /\ loop.at # "idle" => loop.lag < MaxLag
      /\ push.at # "idle" => push.lag < MaxLag
  BY DEF ClockTick
<1>3. /\ loop' = IF loop.at = "idle" THEN loop ELSE [loop EXCEPT !.lag = @ + 1]
      /\ push' = IF push.at = "idle" THEN push ELSE [push EXCEPT !.lag = @ + 1]
  BY DEF ClockTick, Lagged
<1>4. /\ loop' \in Actor /\ loop'.cad = loop.cad /\ loop'.at = loop.at /\ loop'.fns = loop.fns
      /\ loop.at # "idle" => loop'.lag = loop.lag + 1
  BY <1>1, <1>2, <1>3, BoundsAssumption DEF Actor
<1>5. /\ push' \in Actor /\ push'.cad = push.cad /\ push'.at = push.at /\ push'.fns = push.fns
      /\ push.at # "idle" => push'.lag = push.lag + 1
  BY <1>1, <1>2, <1>3, BoundsAssumption DEF Actor
<1>6. /\ lastRun' = Aged(lastRun, OldRun) /\ roundAt' = Aged(roundAt, OldRound)
      /\ heard' = [s \in Subs |-> IF s \in subs THEN Aged(heard[s], OldCall) ELSE 0]
      /\ ran' = FALSE
  BY DEF ClockTick
<1>7. /\ lastRun' \in 0..OldRun \cup {Never}
      /\ lastRun' = Never <=> lastRun = Never
      /\ lastRun # Never => lastRun' = IF lastRun < OldRun THEN lastRun + 1 ELSE lastRun
  <2>1. CASE lastRun = Never
    BY <1>6, <2>1, AgedNever
  <2>2. CASE lastRun # Never
    <3>1. lastRun \in 0..OldRun
      BY <2>2 DEF SchedulerTypeOK
    <3> QED
      BY <1>6, <2>2, <3>1, AgedValue, SlowestFits
  <2> QED
    BY <2>1, <2>2
<1>8. /\ roundAt' \in 0..OldRound \cup {Never}
      /\ roundAt' = Never <=> roundAt = Never
      /\ roundAt # Never => roundAt' = IF roundAt < OldRound THEN roundAt + 1 ELSE roundAt
  <2>1. CASE roundAt = Never
    BY <1>6, <2>1, AgedNever
  <2>2. CASE roundAt # Never
    <3>1. roundAt \in 0..OldRound
      BY <2>2 DEF SchedulerTypeOK
    <3> QED
      BY <1>6, <2>2, <3>1, AgedValue, SlowestFits
  <2> QED
    BY <2>1, <2>2
<1>9. ASSUME NEW s \in Subs
      PROVE  heard'[s] \in 0..OldCall /\ heard'[s] <= heard[s] + 1
  <2>1. heard[s] \in 0..OldCall /\ OldCall \in Nat
    BY SlowestFits DEF SchedulerTypeOK
  <2>2. Aged(heard[s], OldCall) \in 0..OldCall /\ Aged(heard[s], OldCall) <= heard[s] + 1
    BY <2>1, AgedValue
  <2>3. heard'[s] = IF s \in subs THEN Aged(heard[s], OldCall) ELSE 0
    BY <1>6
  <2> QED
    BY <2>1, <2>2, <2>3
<1>10. heard' \in [Subs -> 0..OldCall]
  BY <1>6, <1>9
<1> QED
  BY <1>2, <1>4, <1>5, <1>6, <1>7, <1>8, <1>9, <1>10

\* The types hold initially.
LEMMA SchedulerTypeInit == SchedulerInit => SchedulerTypeOK
<1> SUFFICES ASSUME SchedulerInit PROVE SchedulerTypeOK
  OBVIOUS
<1>1. ran \in BOOLEAN
  BY Zenon DEF SchedulerInit
<1>2. round \in Rounds
  BY BoundsAssumption DEF SchedulerInit, Rounds
<1>3. loop \in Actor /\ push \in Actor /\ loop.cad = 0 /\ push.cad = 0
  BY IdleType DEF SchedulerInit, Idle
<1> QED
  BY <1>1, <1>2, <1>3, SlowestFits DEF SchedulerInit, SchedulerTypeOK

\* Every step keeps the types.
LEMMA SchedulerTypeNext == SchedulerTypeOK /\ [SchedulerNext]_schedulerVars => SchedulerTypeOK'
<1> SUFFICES ASSUME SchedulerTypeOK, [SchedulerNext]_schedulerVars PROVE SchedulerTypeOK'
  OBVIOUS
<1>0. /\ loop \in Actor /\ push \in Actor /\ round \in Rounds /\ OldCall \in Nat
      /\ loop.cad \in Cadences \cup {0} /\ push.cad \in Cadences \cup {0} /\ subs \subseteq Subs
  BY SlowestFits DEF SchedulerTypeOK
<1>1. CASE UNCHANGED schedulerVars
  BY <1>1 DEF schedulerVars, SchedulerTypeOK
<1>2. CASE Pass
  <2>1. lastRun' \in 0..OldRun \cup {Never}
    BY <1>2, SlowestFits DEF Pass, SchedulerTypeOK
  <2>2. loop' \in Actor /\ loop'.cad \in Cadences \cup {0}
    <3>0. DemandCadence \in Cadences \cup {0}
      BY DemandFits
    <3>1. DemandCadence \in Cadences \cup {0} /\ DemandCadence \in Nat
      BY <3>0, CadencesAssumption
    <3>2. loop' = [Idle EXCEPT !.at = "check", !.cad = DemandCadence] \/ loop' = [Idle EXCEPT !.at = "sweep"]
      BY <1>2 DEF Pass
    <3> QED
      BY <3>1, <3>2, IdleType DEF Actor, Idle
  <2>3. ran' \in BOOLEAN
    BY <1>2, Zenon DEF Pass
  <2> QED
    BY <1>2, <2>1, <2>2, <2>3 DEF Pass, SchedulerTypeOK
<1>3. CASE Check
  <2>1. loop' \in Actor /\ loop'.cad = loop.cad
    BY <1>0, <1>3 DEF Check, Actor
  <2> QED
    BY <1>3, <2>1 DEF Check, SchedulerTypeOK
<1>4. CASE Get
  <2>1. loop' \in Actor /\ loop'.cad = loop.cad
    BY <1>0, <1>4 DEF Get, Actor
  <2> QED
    BY <1>4, <2>1 DEF Get, SchedulerTypeOK
<1>5. CASE LoopCopy
  <2>1. loop' \in Actor /\ loop'.cad = loop.cad
    BY <1>0, <1>5 DEF LoopCopy, Actor
  <2> QED
    BY <1>5, <2>1 DEF LoopCopy, SchedulerTypeOK
<1>6. CASE LoopCall
  <2>1. loop' \in Actor /\ loop'.cad = loop.cad
    BY <1>0, <1>6 DEF LoopCall, Actor
  <2>2. heard' \in [Subs -> 0..OldCall]
    BY <1>0, <1>6 DEF LoopCall, Called, SchedulerTypeOK
  <2>3. last' \in [Subs -> Rounds \cup {Never}]
    BY <1>0, <1>6 DEF LoopCall, Called, SchedulerTypeOK, Actor
  <2> QED
    BY <1>6, <2>1, <2>2, <2>3 DEF LoopCall, SchedulerTypeOK
<1>7. CASE Sweep
  <2>1. loop' \in Actor /\ loop'.cad = 0
    BY <1>7, IdleType DEF Sweep, Idle
  <2> QED
    BY <1>7, <2>1 DEF Sweep, SchedulerTypeOK
<1>8. CASE Publish
  <2>1. round' \in Rounds
    BY <1>0, <1>8, BoundsAssumption DEF Publish, Rounds
  <2>2. push' \in Actor /\ push'.cad = 0
    BY <1>8, IdleType DEF Publish, Actor, Idle
  <2> QED
    BY <1>8, <2>1, <2>2 DEF Publish, SchedulerTypeOK
<1>9. CASE PushGet
  <2>1. push' \in Actor /\ push'.cad = push.cad
    BY <1>0, <1>9 DEF PushGet, Actor
  <2> QED
    BY <1>9, <2>1 DEF PushGet, SchedulerTypeOK
<1>10. CASE PushMark
  <2>1. push' \in Actor /\ push'.cad = push.cad
    BY <1>0, <1>10 DEF PushMark, Actor
  <2> QED
    BY <1>10, <2>1, SlowestFits DEF PushMark, SchedulerTypeOK
<1>11. CASE PushCopy
  <2>1. push' \in Actor /\ push'.cad = push.cad
    BY <1>0, <1>11 DEF PushCopy, Actor
  <2> QED
    BY <1>11, <2>1 DEF PushCopy, SchedulerTypeOK
<1>12. CASE PushCall
  <2>1. push' \in Actor /\ push'.cad \in Cadences \cup {0}
    BY <1>0, <1>12, IdleType DEF PushCall, Actor, Idle
  <2>2. heard' \in [Subs -> 0..OldCall]
    BY <1>0, <1>12 DEF PushCall, Called, SchedulerTypeOK
  <2>3. last' \in [Subs -> Rounds \cup {Never}]
    BY <1>0, <1>12 DEF PushCall, Called, SchedulerTypeOK, Actor
  <2> QED
    BY <1>12, <2>1, <2>2, <2>3 DEF PushCall, SchedulerTypeOK
<1>13. CASE ClockTick
  <2>1. ran' \in BOOLEAN
    BY <1>13, Zenon DEF ClockTick
  <2>2. /\ lastRun' \in 0..OldRun \cup {Never} /\ roundAt' \in 0..OldRound \cup {Never}
        /\ loop' \in Actor /\ push' \in Actor
        /\ loop'.cad = loop.cad /\ push'.cad = push.cad
        /\ heard' \in [Subs -> 0..OldCall]
    BY <1>13, TickEffect
  <2> QED
    BY <1>13, <2>1, <2>2 DEF ClockTick, SchedulerTypeOK
<1>14. ASSUME NEW s \in Subs, Release(s) PROVE SchedulerTypeOK'
  BY <1>14 DEF Release, SchedulerTypeOK
<1>15. ASSUME NEW s \in Subs, NEW c \in Cadences, Subscribe(s, c) PROVE SchedulerTypeOK'
  BY <1>0, <1>15 DEF Subscribe, SchedulerTypeOK
<1>16. ASSUME NEW s \in Subs, NEW c \in Cadences, SetCadence(s, c) PROVE SchedulerTypeOK'
  BY <1>0, <1>16 DEF SetCadence, SchedulerTypeOK
<1> QED
  BY <1>1, <1>2, <1>3, <1>4, <1>5, <1>6, <1>7, <1>8, <1>9, <1>10, <1>11, <1>12, <1>13, <1>14, <1>15, <1>16 DEF SchedulerNext

-----------------------------------------------------------------------------
(* The invariant of the heartbeat *)

\* The subscriber is to be called by a delivery of the stream that has marked
\* the round delivered.
Awaits(s) == push.at = "copy" \/ (push.at = "call" /\ s \in push.fns)

\* The subscriber is to be called by the pass of the loop that is under way.
Reads(s) == loop.at \in {"get", "copy"} \/ (loop.at = "call" /\ s \in loop.fns)

\* A pass began when lastRun was stamped, and no tick ago in the tick it runs in.
LoopFits ==
    /\ loop.at # "mark"
    /\ ran /\ loop.at # "idle" => loop.lag = 0
    /\ loop.at \in {"check", "get", "copy", "call"} => lastRun = loop.lag

\* A subscriber nobody is about to call was called when the round was marked
\* delivered, or later.
RoundHeard(s) == roundAt # Never /\ roundAt < OldRound /\ ~Awaits(s) => heard[s] <= roundAt

\* How long ago the subscriber was called, by where the loop is.
HeardBy(s) ==
    LET c == cadence[s]
        h == heard[s]
        r == lastRun
        l == loop.lag
    IN  /\ Awaits(s) => 2 * h <= 5 * c + 4 * MaxLag + 2 * push.lag
        /\ ~Awaits(s) =>
             /\ loop.at = "check" \/ Reads(s) => 2 * h <= 5 * c + 2 * MaxLag + 2 * l
             /\ loop.at = "check" => loop.cad <= c \/ h <= l
             /\ loop.at = "call" /\ s \notin loop.fns => h <= l
             /\ loop.at = "sweep" /\ r = Never => h <= l
             /\ loop.at \in {"sweep", "idle"} /\ r # Never => 2 * h <= 3 * c + 2 * r
             /\ loop.at = "sweep" /\ r # Never => r < c + l \/ h <= l
             /\ loop.at = "idle" /\ ran => (r # Never /\ r < c) \/ h = 0
             /\ loop.at = "idle" /\ ~ran => (r # Never /\ r <= c + MaxLag) \/ h <= MaxLag + 1

HeartInv ==
    /\ SchedulerTypeOK /\ LoopFits
    /\ \A s \in subs : cadence[s] > 0 => RoundHeard(s) /\ HeardBy(s)

\* What the types say of one subscriber with a cadence.
LEMMA SubscriberNumbers ==
    ASSUME SchedulerTypeOK, NEW s \in subs
    PROVE  /\ cadence[s] \in Nat /\ cadence[s] <= Slowest /\ heard[s] \in Nat
           /\ loop.lag \in Nat /\ loop.lag <= MaxLag /\ push.lag \in Nat /\ push.lag <= MaxLag
           /\ MaxLag \in Nat /\ Slowest \in Nat /\ OldRun = Slowest + MaxLag /\ OldRound = 2 * Slowest
           /\ lastRun # Never => lastRun \in Nat
           /\ roundAt # Never => roundAt \in Nat
           /\ loop.cad \in Nat /\ loop.cad <= Slowest
<1>1. s \in Subs /\ cadence[s] \in Cadences /\ heard[s] \in 0..OldCall
  BY DEF SchedulerTypeOK
<1>2. loop.lag \in 0..MaxLag /\ push.lag \in 0..MaxLag
  BY DEF SchedulerTypeOK, Actor
<1>3. /\ lastRun # Never => lastRun \in 0..OldRun
      /\ roundAt # Never => roundAt \in 0..OldRound
      /\ loop.cad \in Cadences \cup {0}
  BY DEF SchedulerTypeOK
<1> QED
  BY <1>1, <1>2, <1>3, SlowestFits DEF OldRun, OldRound

\* A subscriber just called, or just come, is within every bound.
LEMMA JustCalled ==
    ASSUME SchedulerTypeOK', NEW s \in subs', heard'[s] = 0
    PROVE  RoundHeard(s)' /\ HeardBy(s)'
<1>1. /\ cadence'[s] \in Nat /\ loop'.lag \in Nat /\ push'.lag \in Nat
      /\ MaxLag \in Nat
      /\ lastRun' # Never => lastRun' \in Nat
      /\ roundAt' # Never => roundAt' \in Nat
  <2>1. s \in Subs /\ cadence'[s] \in Cadences
    BY DEF SchedulerTypeOK
  <2>2. loop'.lag \in 0..MaxLag /\ push'.lag \in 0..MaxLag
    BY DEF SchedulerTypeOK, Actor
  <2>3. /\ lastRun' # Never => lastRun' \in 0..OldRun
        /\ roundAt' # Never => roundAt' \in 0..OldRound
    BY DEF SchedulerTypeOK
  <2> QED
    BY <2>1, <2>2, <2>3, SlowestFits
<1> QED
  BY <1>1 DEF RoundHeard, HeardBy

\* A subscriber the stream is not about to call is well within the bound.
LEMMA NotAwaited ==
    ASSUME SchedulerTypeOK, LoopFits, NEW s \in subs, cadence[s] > 0, HeardBy(s), ~Awaits(s)
    PROVE  2 * heard[s] <= 5 * cadence[s] + 4 * MaxLag
<1>1. /\ cadence[s] \in Nat /\ heard[s] \in Nat /\ loop.lag \in Nat /\ loop.lag <= MaxLag
      /\ MaxLag \in Nat /\ (lastRun # Never => lastRun \in Nat)
  BY SubscriberNumbers
<1>2. loop.at \in {"idle", "check", "get", "copy", "call", "sweep"}
  BY DEF SchedulerTypeOK, Actor, LoopFits
<1>3. CASE loop.at \in {"check", "get", "copy"}
  BY <1>1, <1>3 DEF HeardBy, Reads
<1>4. CASE loop.at = "call"
  BY <1>1, <1>4 DEF HeardBy, Reads
<1>5. CASE loop.at = "sweep"
  BY <1>1, <1>5 DEF HeardBy
<1>6. CASE loop.at = "idle"
  BY <1>1, <1>6 DEF HeardBy, SchedulerTypeOK
<1> QED
  BY <1>2, <1>3, <1>4, <1>5, <1>6

\* A step that leaves the loop, the ages and the subscriber alone, and in which
\* the stream's call neither comes nor goes.
LEMMA NotConcerned ==
    ASSUME NEW s \in subs, RoundHeard(s), HeardBy(s),
           UNCHANGED <<lastRun, roundAt, ran, loop>>,
           heard'[s] = heard[s], cadence'[s] = cadence[s],
           Awaits(s)' <=> Awaits(s), Awaits(s) => push'.lag = push.lag
    PROVE  RoundHeard(s)' /\ HeardBy(s)'
<1>1. RoundHeard(s)'
  BY DEF RoundHeard
<1>2. HeardBy(s)'
  BY DEF HeardBy, Reads
<1> QED
  BY <1>1, <1>2

\* A step of the loop leaves the stream's goroutine and the subscriber alone.
LEMMA LoopKeeps ==
    ASSUME NEW s \in subs, RoundHeard(s), HeardBy(s), UNCHANGED <<roundAt, push>>,
           heard'[s] = heard[s], cadence'[s] = cadence[s]
    PROVE  /\ RoundHeard(s)' /\ (Awaits(s)' <=> Awaits(s))
           /\ Awaits(s) => HeardBy(s)'
<1>1. Awaits(s)' <=> Awaits(s)
  BY DEF Awaits
<1> QED
  BY <1>1 DEF RoundHeard, HeardBy

\* The loop's place and the age of its pass.
LEMMA LoopFitsNext == SchedulerTypeOK /\ LoopFits /\ [SchedulerNext]_schedulerVars => LoopFits'
<1> SUFFICES ASSUME SchedulerTypeOK, LoopFits, [SchedulerNext]_schedulerVars PROVE LoopFits'
  OBVIOUS
<1>0. loop \in Actor /\ Idle.at = "idle" /\ Idle.lag = 0 /\ Idle \in Actor
  BY IdleType DEF SchedulerTypeOK, Idle
<1>1. CASE UNCHANGED <<loop, ran, lastRun>>
  BY <1>1 DEF LoopFits
<1>2. CASE Pass
  <2>1. \/ lastRun' = 0 /\ loop'.at = "check" /\ loop'.lag = 0
        \/ loop'.at = "sweep" /\ loop'.lag = 0
    BY <1>0, <1>2 DEF Pass, Actor
  <2> QED
    BY <2>1 DEF LoopFits
<1>3. CASE Check
  <2>1. loop'.lag = loop.lag /\ loop'.at \in {"sweep", "get"}
    BY <1>0, <1>3 DEF Check, Actor
  <2> QED
    BY <1>3, <2>1 DEF Check, LoopFits
<1>4. CASE Get
  <2>1. loop'.lag = loop.lag /\ loop'.at = "copy"
    BY <1>0, <1>4 DEF Get, Actor
  <2> QED
    BY <1>4, <2>1 DEF Get, LoopFits
<1>5. CASE LoopCopy
  <2>1. loop'.lag = loop.lag /\ loop'.at = "call"
    BY <1>0, <1>5 DEF LoopCopy, Actor
  <2> QED
    BY <1>5, <2>1 DEF LoopCopy, LoopFits
<1>6. CASE LoopCall
  <2>1. loop'.lag = loop.lag /\ loop'.at \in {"call", "sweep"}
    BY <1>0, <1>6 DEF LoopCall, Actor
  <2> QED
    BY <1>6, <2>1 DEF LoopCall, LoopFits
<1>7. CASE Sweep
  BY <1>0, <1>7 DEF Sweep, LoopFits
<1>8. CASE ClockTick
  <2>1. /\ ran' = FALSE /\ loop'.at = loop.at
        /\ loop.at # "idle" => loop'.lag = loop.lag + 1 /\ loop.lag < MaxLag
        /\ lastRun # Never => lastRun' = IF lastRun < OldRun THEN lastRun + 1 ELSE lastRun
    BY <1>8, TickEffect
  <2>2. loop.lag \in Nat /\ MaxLag \in Nat /\ Slowest \in Nat /\ OldRun = Slowest + MaxLag
    BY <1>0, SlowestFits DEF Actor, OldRun
  <2>3. ASSUME loop.at \in {"check", "get", "copy", "call"} PROVE lastRun' = loop'.lag
    <3>1. lastRun = loop.lag /\ lastRun # Never
      BY <2>2, <2>3, NeverAssumption DEF LoopFits
    <3> QED
      BY <2>1, <2>2, <2>3, <3>1
  <2> QED
    BY <2>1, <2>3 DEF LoopFits
<1> QED
  BY <1>1, <1>2, <1>3, <1>4, <1>5, <1>6, <1>7, <1>8
  DEF SchedulerNext, schedulerVars, Publish, PushGet, PushMark, PushCopy, PushCall, Release, Subscribe, SetCadence

\* The loop takes its tick: the menu is read when it is due.
LEMMA PassHeart ==
    ASSUME HeartInv, Pass, NEW s \in subs, cadence[s] > 0
    PROVE  RoundHeard(s)' /\ HeardBy(s)'
<1>0. SchedulerTypeOK /\ RoundHeard(s) /\ HeardBy(s)
  BY DEF HeartInv
<1>1. RoundHeard(s)' /\ (Awaits(s)' <=> Awaits(s)) /\ (Awaits(s) => HeardBy(s)')
  BY <1>0, LoopKeeps DEF Pass
<1> SUFFICES ASSUME ~Awaits(s) PROVE HeardBy(s)'
  BY <1>1
<1>2. /\ cadence[s] \in Nat /\ heard[s] \in Nat /\ MaxLag \in Nat
      /\ lastRun # Never => lastRun \in Nat
  BY <1>0, SubscriberNumbers
<1>3. DemandCadence \in Nat /\ DemandCadence > 0 /\ DemandCadence <= cadence[s]
  <2>1. DemandCadence \in Cadences \cup {0}
    BY <1>0, DemandFits
  <2>2. DemandCadence > 0 /\ DemandCadence <= cadence[s]
    BY <1>0, DemandFits
  <2> QED
    BY <2>1, <2>2, CadencesAssumption
<1>4. /\ lastRun # Never => 2 * heard[s] <= 3 * cadence[s] + 2 * lastRun
      /\ (lastRun # Never /\ lastRun <= cadence[s] + MaxLag) \/ heard[s] <= MaxLag + 1
  BY <1>0 DEF HeardBy, Pass
<1>5. heard'[s] = heard[s] /\ cadence'[s] = cadence[s] /\ Idle \in Actor /\ Idle.lag = 0
  BY IdleType DEF Pass, Idle
<1>6. CASE lastRun' = 0 /\ loop' = [Idle EXCEPT !.at = "check", !.cad = DemandCadence]
  <2>1. loop'.at = "check" /\ loop'.cad = DemandCadence /\ loop'.lag = 0
    BY <1>5, <1>6 DEF Actor
  <2>2. 2 * heard[s] <= 5 * cadence[s] + 2 * MaxLag
    BY <1>2, <1>4
  <2> QED
    BY <1>1, <1>2, <1>3, <1>5, <2>1, <2>2 DEF HeardBy
<1>7. CASE /\ ~(subs # {} /\ DemandCadence > 0 /\ Due(DemandCadence))
           /\ loop' = [Idle EXCEPT !.at = "sweep"]
           /\ UNCHANGED lastRun
  <2>1. lastRun # Never /\ lastRun < cadence[s]
    BY <1>2, <1>3, <1>7 DEF Due
  <2>2. loop'.at = "sweep" /\ loop'.lag = 0
    BY <1>5, <1>7 DEF Actor
  <2> QED
    BY <1>1, <1>2, <1>4, <1>5, <1>7, <2>1, <2>2 DEF HeardBy, Reads
<1> QED
  BY <1>6, <1>7 DEF Pass

\* A menu is skipped only when a round was delivered within its cadence and a half.
LEMMA CheckHeart ==
    ASSUME HeartInv, Check, NEW s \in subs, cadence[s] > 0
    PROVE  RoundHeard(s)' /\ HeardBy(s)'
<1>0. SchedulerTypeOK /\ LoopFits /\ RoundHeard(s) /\ HeardBy(s)
  BY DEF HeartInv
<1>1. RoundHeard(s)' /\ (Awaits(s)' <=> Awaits(s)) /\ (Awaits(s) => HeardBy(s)')
  BY <1>0, LoopKeeps DEF Check
<1> SUFFICES ASSUME ~Awaits(s) PROVE HeardBy(s)'
  BY <1>1
<1>2. /\ cadence[s] \in Nat /\ heard[s] \in Nat /\ MaxLag \in Nat /\ loop.lag \in Nat
      /\ cadence[s] <= Slowest /\ Slowest \in Nat /\ OldRound = 2 * Slowest
      /\ loop.cad \in Nat /\ loop.cad <= Slowest
      /\ roundAt # Never => roundAt \in Nat
  BY <1>0, SubscriberNumbers
<1>3. /\ lastRun = loop.lag /\ lastRun' = lastRun
      /\ loop.cad <= cadence[s] \/ heard[s] <= loop.lag
      /\ 2 * heard[s] <= 5 * cadence[s] + 2 * MaxLag + 2 * loop.lag
  BY <1>0 DEF HeardBy, Check, LoopFits
<1>4. heard'[s] = heard[s] /\ cadence'[s] = cadence[s] /\ loop'.lag = loop.lag
  BY <1>0 DEF Check, SchedulerTypeOK, Actor
<1>5. CASE DeliveredRound(loop.cad)
  <2>1. loop'.at = "sweep"
    BY <1>0, <1>5 DEF Check, SchedulerTypeOK, Actor
  <2>2. roundAt # Never /\ 2 * roundAt < 3 * loop.cad
    BY <1>5 DEF DeliveredRound
  <2>3. heard[s] <= roundAt
    <3>1. roundAt < OldRound
      BY <1>2, <2>2
    <3> QED
      BY <1>0, <2>2, <3>1 DEF RoundHeard
  <2>4. 2 * heard[s] <= 3 * cadence[s] + 2 * loop.lag
    BY <1>2, <1>3, <2>2, <2>3
  <2> QED
    BY <1>1, <1>2, <1>3, <1>4, <2>1, <2>4, NeverAssumption DEF HeardBy, Reads
<1>6. CASE ~DeliveredRound(loop.cad)
  <2>1. loop'.at = "get"
    BY <1>0, <1>6 DEF Check, SchedulerTypeOK, Actor
  <2> QED
    BY <1>1, <1>2, <1>3, <1>4, <2>1 DEF HeardBy, Reads
<1> QED
  BY <1>5, <1>6

\* The loop reads, copies the callbacks, and calls them.
LEMMA ReadHeart ==
    ASSUME HeartInv, SchedulerTypeOK', Get \/ LoopCopy \/ LoopCall, NEW s \in subs, cadence[s] > 0
    PROVE  RoundHeard(s)' /\ HeardBy(s)'
<1>0. SchedulerTypeOK /\ LoopFits /\ RoundHeard(s) /\ HeardBy(s) /\ loop \in Actor /\ s \in subs' /\ s \in Subs
  BY DEF HeartInv, SchedulerTypeOK, Get, LoopCopy, LoopCall
<1>2. /\ cadence[s] \in Nat /\ heard[s] \in Nat /\ MaxLag \in Nat /\ loop.lag \in Nat
  BY <1>0, SubscriberNumbers
<1>3. CASE Get
  <2>1. RoundHeard(s)' /\ (Awaits(s)' <=> Awaits(s)) /\ (Awaits(s) => HeardBy(s)')
    BY <1>0, <1>3, LoopKeeps DEF Get
  <2>2. loop'.at = "copy" /\ loop'.lag = loop.lag
    BY <1>0, <1>3 DEF Get, Actor
  <2> QED
    BY <1>0, <1>2, <1>3, <2>1, <2>2 DEF HeardBy, Get, Reads
<1>4. CASE LoopCopy
  <2>1. RoundHeard(s)' /\ (Awaits(s)' <=> Awaits(s)) /\ (Awaits(s) => HeardBy(s)')
    BY <1>0, <1>4, LoopKeeps DEF LoopCopy
  <2>2. loop'.at = "call" /\ loop'.lag = loop.lag /\ s \in loop'.fns
    BY <1>0, <1>4 DEF LoopCopy, Actor
  <2> QED
    BY <1>0, <1>2, <1>4, <2>1, <2>2 DEF HeardBy, LoopCopy, Reads
<1>5. ASSUME NEW t \in loop.fns, Called(t, loop.rows), loop.at = "call", loop' = [loop EXCEPT !.fns = @ \ {t}],
             UNCHANGED <<subs, cadence, lastRun, roundAt, push>>
      PROVE  RoundHeard(s)' /\ HeardBy(s)'
  <2>1. CASE t = s
    <3>1. heard'[s] = 0
      BY <1>0, <1>5, <2>1 DEF Called, SchedulerTypeOK
    <3> QED
      BY <1>0, <3>1, JustCalled
  <2>2. CASE t # s
    <3>1. heard'[s] = heard[s]
      BY <1>0, <1>5, <2>2 DEF Called, SchedulerTypeOK
    <3>2. RoundHeard(s)' /\ (Awaits(s)' <=> Awaits(s)) /\ (Awaits(s) => HeardBy(s)')
      BY <1>0, <1>5, <3>1, LoopKeeps
    <3>3. loop'.at = "call" /\ loop'.lag = loop.lag /\ (s \in loop'.fns <=> s \in loop.fns)
      BY <1>0, <1>5, <2>2 DEF Actor
    <3> QED
      BY <1>0, <1>2, <1>5, <3>1, <3>2, <3>3 DEF HeardBy, Reads
  <2> QED
    BY <2>1, <2>2
<1>6. ASSUME loop.fns = {}, loop.at = "call", loop' = [loop EXCEPT !.at = "sweep"],
             UNCHANGED <<subs, cadence, lastRun, roundAt, push, heard>>
      PROVE  RoundHeard(s)' /\ HeardBy(s)'
  <2>1. RoundHeard(s)' /\ (Awaits(s)' <=> Awaits(s)) /\ (Awaits(s) => HeardBy(s)')
    BY <1>0, <1>6, LoopKeeps
  <2>2. loop'.at = "sweep" /\ loop'.lag = loop.lag
    BY <1>0, <1>6 DEF Actor
  <2>3. lastRun = loop.lag /\ lastRun # Never
    BY <1>0, <1>2, <1>6, NeverAssumption DEF LoopFits
  <2> QED
    BY <1>0, <1>2, <1>6, <2>1, <2>2, <2>3 DEF HeardBy, Reads
<1> QED
  BY <1>3, <1>4, <1>5, <1>6 DEF LoopCall

\* The end of a pass.
LEMMA SweepHeart ==
    ASSUME HeartInv, Sweep, NEW s \in subs, cadence[s] > 0
    PROVE  RoundHeard(s)' /\ HeardBy(s)'
<1>0. SchedulerTypeOK /\ LoopFits /\ RoundHeard(s) /\ HeardBy(s)
  BY DEF HeartInv
<1>1. RoundHeard(s)' /\ (Awaits(s)' <=> Awaits(s)) /\ (Awaits(s) => HeardBy(s)')
  BY <1>0, LoopKeeps DEF Sweep
<1>2. /\ cadence[s] \in Nat /\ heard[s] \in Nat /\ MaxLag \in Nat /\ loop.lag \in Nat /\ loop.lag <= MaxLag
      /\ lastRun # Never => lastRun \in Nat
  BY <1>0, SubscriberNumbers
<1>3. loop'.at = "idle" /\ UNCHANGED <<lastRun, ran>> /\ heard'[s] = heard[s] /\ cadence'[s] = cadence[s]
  BY DEF Sweep, Idle
<1>4. ran => loop.lag = 0
  BY <1>0 DEF LoopFits, Sweep
<1> QED
  BY <1>0, <1>1, <1>2, <1>3, <1>4 DEF HeardBy, Sweep, Reads

\* The clock moves.
LEMMA TickHeart ==
    ASSUME HeartInv, ClockTick, NEW s \in subs, cadence[s] > 0
    PROVE  RoundHeard(s)' /\ HeardBy(s)'
<1>0. SchedulerTypeOK /\ LoopFits /\ RoundHeard(s) /\ HeardBy(s) /\ s \in Subs
  BY DEF HeartInv, SchedulerTypeOK
<1>1. /\ cadence[s] \in Nat /\ cadence[s] <= Slowest /\ heard[s] \in Nat
      /\ loop.lag \in Nat /\ push.lag \in Nat
      /\ MaxLag \in Nat /\ Slowest \in Nat /\ OldRun = Slowest + MaxLag
      /\ lastRun # Never => lastRun \in Nat
      /\ roundAt # Never => roundAt \in Nat
  BY <1>0, SubscriberNumbers
<1>2. /\ ran' = FALSE /\ loop'.cad = loop.cad
      /\ loop'.at = loop.at /\ push'.at = push.at
      /\ loop'.fns = loop.fns /\ push'.fns = push.fns
      /\ loop.at # "idle" => loop'.lag = loop.lag + 1 /\ loop.lag < MaxLag
      /\ push.at # "idle" => push'.lag = push.lag + 1
      /\ lastRun' = Never <=> lastRun = Never
      /\ lastRun # Never => lastRun' = IF lastRun < OldRun THEN lastRun + 1 ELSE lastRun
      /\ roundAt' = Never <=> roundAt = Never
      /\ roundAt # Never => roundAt' = IF roundAt < OldRound THEN roundAt + 1 ELSE roundAt
      /\ heard'[s] <= heard[s] + 1
  BY <1>0, TickEffect
<1>3. cadence'[s] = cadence[s] /\ heard'[s] \in Nat
  <2>1. cadence' = cadence
    BY DEF ClockTick
  <2>2. heard' \in [Subs -> 0..OldCall]
    BY <1>0, TickEffect
  <2> QED
    BY <1>0, <2>1, <2>2, SlowestFits
<1>4. Awaits(s)' <=> Awaits(s)
  BY <1>2 DEF Awaits
<1>5. RoundHeard(s)'
  BY <1>0, <1>1, <1>2, <1>3, <1>4, SlowestFits DEF RoundHeard
<1>6. CASE Awaits(s)
  <2>1. push.at # "idle"
    BY <1>6 DEF Awaits
  <2> QED
    BY <1>0, <1>1, <1>2, <1>3, <1>4, <1>5, <1>6, <2>1 DEF HeardBy
<1>7. CASE ~Awaits(s) /\ loop.at \in {"check", "get", "copy", "call"}
  BY <1>0, <1>1, <1>2, <1>3, <1>4, <1>5, <1>7 DEF HeardBy, Reads
<1>8. CASE ~Awaits(s) /\ loop.at = "sweep"
  <2>1. CASE lastRun = Never
    BY <1>0, <1>1, <1>2, <1>3, <1>4, <1>5, <1>8, <2>1 DEF HeardBy, Reads
  <2>2. CASE lastRun # Never /\ lastRun < OldRun
    BY <1>0, <1>1, <1>2, <1>3, <1>4, <1>5, <1>8, <2>2 DEF HeardBy, Reads
  <2>3. CASE lastRun # Never /\ ~(lastRun < OldRun)
    <3>1. heard[s] <= loop.lag
      BY <1>0, <1>1, <1>2, <1>8, <2>3 DEF HeardBy
    <3>2. /\ heard'[s] <= loop'.lag /\ loop'.lag \in Nat /\ loop'.lag <= MaxLag
          /\ lastRun' \in Nat /\ lastRun' >= MaxLag /\ lastRun' # Never
      BY <1>1, <1>2, <1>3, <1>8, <2>3, <3>1
    <3> QED
      BY <1>1, <1>2, <1>3, <1>4, <1>5, <1>8, <3>2 DEF HeardBy, Reads
  <2> QED
    BY <2>1, <2>2, <2>3
<1>9. CASE ~Awaits(s) /\ loop.at = "idle"
  <2>1. ran
    BY <1>9 DEF ClockTick
  <2>2. /\ (lastRun # Never /\ lastRun < cadence[s]) \/ heard[s] = 0
        /\ lastRun # Never => 2 * heard[s] <= 3 * cadence[s] + 2 * lastRun
    BY <1>0, <1>9, <2>1 DEF HeardBy
  <2>3. /\ (lastRun' # Never /\ lastRun' <= cadence[s] + MaxLag) \/ heard'[s] <= MaxLag + 1
        /\ lastRun' # Never => 2 * heard'[s] <= 3 * cadence[s] + 2 * lastRun'
    BY <1>1, <1>2, <1>3, <2>2
  <2> QED
    BY <1>2, <1>3, <1>4, <1>5, <1>9, <2>3 DEF HeardBy, Reads
<1>10. loop.at \in {"idle", "check", "get", "copy", "call", "sweep"}
  BY <1>0 DEF SchedulerTypeOK, Actor, LoopFits
<1> QED
  BY <1>6, <1>7, <1>8, <1>9, <1>10

\* The stream marks a round delivered, copies the callbacks, and calls them.
LEMMA PushHeart ==
    ASSUME HeartInv, SchedulerTypeOK', Publish \/ PushGet \/ PushMark \/ PushCopy \/ PushCall,
           NEW s \in subs, cadence[s] > 0
    PROVE  RoundHeard(s)' /\ HeardBy(s)'
<1>0. /\ SchedulerTypeOK /\ LoopFits /\ RoundHeard(s) /\ HeardBy(s) /\ push \in Actor /\ s \in Subs
      /\ s \in subs' /\ UNCHANGED <<lastRun, ran, loop>> /\ cadence'[s] = cadence[s]
  BY DEF HeartInv, SchedulerTypeOK, Publish, PushGet, PushMark, PushCopy, PushCall
<1>1. CASE Publish
  <2>1. push'.at \in {"idle", "get"}
    BY <1>1, IdleType DEF Publish, Idle, Actor
  <2> QED
    BY <1>0, <1>1, <2>1, NotConcerned DEF Publish, Awaits
<1>2. CASE PushGet
  <2>1. push'.at = "mark"
    BY <1>0, <1>2 DEF PushGet, Actor
  <2> QED
    BY <1>0, <1>2, <2>1, NotConcerned DEF PushGet, Awaits
<1>3. CASE PushMark
  <2>1. push'.at = "copy" /\ push'.lag = push.lag /\ ~Awaits(s) /\ heard'[s] = heard[s]
    BY <1>0, <1>3 DEF PushMark, Actor, Awaits
  <2>2. 2 * heard[s] <= 5 * cadence[s] + 4 * MaxLag
    BY <1>0, <2>1, NotAwaited
  <2>3. cadence[s] \in Nat /\ heard[s] \in Nat /\ MaxLag \in Nat /\ push.lag \in Nat
    BY <1>0, SubscriberNumbers
  <2>4. Awaits(s)'
    BY <2>1 DEF Awaits
  <2> QED
    BY <1>0, <2>1, <2>2, <2>3, <2>4 DEF RoundHeard, HeardBy
<1>4. CASE PushCopy
  <2>1. push'.at = "call" /\ push'.lag = push.lag /\ s \in push'.fns
    BY <1>0, <1>4 DEF PushCopy, Actor
  <2> QED
    BY <1>0, <1>4, <2>1, NotConcerned DEF PushCopy, Awaits
<1>5. ASSUME NEW t \in push.fns, Called(t, push.rows), push.at = "call", push' = [push EXCEPT !.fns = @ \ {t}],
             UNCHANGED roundAt
      PROVE  RoundHeard(s)' /\ HeardBy(s)'
  <2>1. CASE t = s
    <3>1. heard'[s] = 0
      BY <1>0, <1>5, <2>1 DEF Called, SchedulerTypeOK
    <3> QED
      BY <1>0, <3>1, JustCalled
  <2>2. CASE t # s
    <3>1. heard'[s] = heard[s]
      BY <1>0, <1>5, <2>2 DEF Called, SchedulerTypeOK
    <3>2. push'.at = "call" /\ push'.lag = push.lag /\ (s \in push'.fns <=> s \in push.fns)
      BY <1>0, <1>5, <2>2 DEF Actor
    <3> QED
      BY <1>0, <1>5, <3>1, <3>2, NotConcerned DEF Awaits
  <2> QED
    BY <2>1, <2>2
<1>6. ASSUME push.fns = {}, push.at = "call", push' = Idle, UNCHANGED <<roundAt, heard>>
      PROVE  RoundHeard(s)' /\ HeardBy(s)'
  BY <1>0, <1>6, NotConcerned DEF Awaits, Idle
<1> QED
  BY <1>1, <1>2, <1>3, <1>4, <1>5, <1>6 DEF PushCall

\* Every step keeps the invariant.
LEMMA HeartNext == HeartInv /\ [SchedulerNext]_schedulerVars => HeartInv'
<1> SUFFICES ASSUME HeartInv, [SchedulerNext]_schedulerVars PROVE HeartInv'
  OBVIOUS
<1>0. SchedulerTypeOK /\ SchedulerTypeOK' /\ LoopFits'
  BY SchedulerTypeNext, LoopFitsNext DEF HeartInv
<1> SUFFICES ASSUME NEW s \in subs', cadence'[s] > 0 PROVE RoundHeard(s)' /\ HeardBy(s)'
  BY <1>0 DEF HeartInv
<1>s. s \in Subs
  BY <1>0 DEF SchedulerTypeOK
<1>1. ASSUME s \in subs, UNCHANGED <<lastRun, roundAt, ran, loop, push>>,
             heard'[s] = heard[s], cadence'[s] = cadence[s]
      PROVE  RoundHeard(s)' /\ HeardBy(s)'
  <2>1. RoundHeard(s) /\ HeardBy(s)
    BY <1>1 DEF HeartInv
  <2>2. Awaits(s)' <=> Awaits(s)
    BY <1>1 DEF Awaits
  <2> QED
    BY <1>1, <2>1, <2>2, NotConcerned
<1>2. CASE UNCHANGED schedulerVars
  BY <1>1, <1>2 DEF schedulerVars
<1>3. CASE Pass
  BY <1>3, PassHeart DEF Pass
<1>4. CASE Check
  BY <1>4, CheckHeart DEF Check
<1>5. CASE Get \/ LoopCopy \/ LoopCall
  <2>1. s \in subs /\ cadence[s] > 0
    BY <1>5 DEF Get, LoopCopy, LoopCall
  <2> QED
    BY <1>0, <1>5, <2>1, ReadHeart
<1>6. CASE Sweep
  BY <1>6, SweepHeart DEF Sweep
<1>7. CASE Publish \/ PushGet \/ PushMark \/ PushCopy \/ PushCall
  <2>1. s \in subs /\ cadence[s] > 0
    BY <1>7 DEF Publish, PushGet, PushMark, PushCopy, PushCall
  <2> QED
    BY <1>0, <1>7, <2>1, PushHeart
<1>8. CASE ClockTick
  BY <1>8, TickHeart DEF ClockTick
<1>9. ASSUME NEW t \in Subs, Release(t) PROVE RoundHeard(s)' /\ HeardBy(s)'
  <2>1. s \in subs /\ s # t
    BY <1>9 DEF Release
  <2>2. cadence'[s] = cadence[s]
    BY <1>0, <1>9, <1>s, <2>1 DEF Release, SchedulerTypeOK
  <2> QED
    BY <1>1, <1>9, <2>1, <2>2 DEF Release
<1>10. ASSUME NEW t \in Subs, NEW c \in Cadences, Subscribe(t, c) \/ SetCadence(t, c)
       PROVE  RoundHeard(s)' /\ HeardBy(s)'
  <2>1. CASE s = t
    <3>1. heard'[s] = 0
      BY <1>0, <1>10, <2>1 DEF Subscribe, SetCadence, SchedulerTypeOK
    <3> QED
      BY <1>0, <3>1, JustCalled
  <2>2. CASE s # t
    <3>1. s \in subs /\ heard'[s] = heard[s] /\ cadence'[s] = cadence[s]
      BY <1>0, <1>10, <1>s, <2>2 DEF Subscribe, SetCadence, SchedulerTypeOK
    <3> QED
      BY <1>1, <1>10, <3>1 DEF Subscribe, SetCadence
  <2> QED
    BY <2>1, <2>2
<1> QED
  BY <1>2, <1>3, <1>4, <1>5, <1>6, <1>7, <1>8, <1>9, <1>10 DEF SchedulerNext

\* The demand set and the two goroutines keep their types, for any subscribers
\* and cadences.
THEOREM SchedulerTypes == SchedulerSpec => []SchedulerTypeOK
<1>1. SchedulerInit => SchedulerTypeOK
  BY SchedulerTypeInit
<1>2. SchedulerTypeOK /\ [SchedulerNext]_schedulerVars => SchedulerTypeOK'
  BY SchedulerTypeNext
<1> QED
  BY <1>1, <1>2, PTL DEF SchedulerSpec

\* A subscriber with a cadence is called every two and a half of them, and the
\* time two passes and a delivery take, for any number of subscribers, any
\* cadences and any lag.
THEOREM HeartbeatKeptHolds == SchedulerSpec => []HeartbeatKept
<1>1. SchedulerInit => HeartInv
  <2> SUFFICES ASSUME SchedulerInit PROVE HeartInv
    OBVIOUS
  <2>1. loop.at = "idle" /\ loop.lag = 0 /\ subs = {}
    BY DEF SchedulerInit, Idle
  <2> QED
    BY <2>1, SchedulerTypeInit DEF HeartInv, LoopFits
<1>2. HeartInv /\ [SchedulerNext]_schedulerVars => HeartInv'
  BY HeartNext
<1>3. HeartInv => HeartbeatKept
  <2> SUFFICES ASSUME HeartInv, NEW s \in subs, cadence[s] > 0
               PROVE  2 * heard[s] <= 5 * cadence[s] + 6 * MaxLag
    BY DEF HeartbeatKept
  <2>1. SchedulerTypeOK /\ LoopFits /\ HeardBy(s)
    BY DEF HeartInv
  <2>2. /\ cadence[s] \in Nat /\ heard[s] \in Nat /\ MaxLag \in Nat
        /\ push.lag \in Nat /\ push.lag <= MaxLag
    BY <2>1, SubscriberNumbers
  <2>3. CASE Awaits(s)
    <3>1. 2 * heard[s] <= 5 * cadence[s] + 4 * MaxLag + 2 * push.lag
      BY <2>1, <2>3 DEF HeardBy
    <3> QED
      BY <2>2, <3>1
  <2>4. CASE ~Awaits(s)
    <3>1. 2 * heard[s] <= 5 * cadence[s] + 4 * MaxLag
      BY <2>1, <2>4, NotAwaited
    <3> QED
      BY <2>2, <3>1
  <2> QED
    BY <2>3, <2>4
<1> QED
  BY <1>1, <1>2, <1>3, PTL DEF SchedulerSpec

=============================================================================
