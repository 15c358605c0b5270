-------------------------- MODULE SessionPoolProofs --------------------------
(***************************************************************************)
(* For any number of websockets, fleet calls, holds, sessions and timers:   *)
(* one session is open, the one the manager can reach; and, until an        *)
(* operator closes it, the session somebody uses stays the live one and its *)
(* refs count exactly those who use it.  And of what runs in a session, for *)
(* any number of viewers and any options of the dormancy supervisor: a      *)
(* focus is not lost, one reading does not condemn a collector, and rows    *)
(* wake one that is asleep.                                                 *)
(***************************************************************************)
EXTENDS SessionPool, Demand, FiniteSetTheorems, TLAPS

\* What a caller carries at each place in the code: a session only inside
\* Retain, Drop and CloseNow, reasons only inside holdOne's loop, and a re-sync
\* still to make exactly when it is on its way to one.  A caller that asks for a
\* session without a reason is a websocket that has none yet.
CallFits ==
    \A c \in Callers :
        /\ pc[c] \in {"out", "in", "sync", "loop", "miss", "found", "closeNow"} => on[c] = None
        /\ pc[c] \in {"out", "in", "sync", "closeNow", "idleOut", "shutdown"} => todo[c] = {}
        /\ pc[c] \in {"out", "in", "shutdown"} => syncs[c] = 0
        /\ pc[c] = "sync" => syncs[c] > 0
        /\ pc[c] = "loop" => todo[c] # {}
        /\ pc[c] \in {"closeNow", "idleOut", "shutdown"} => c = Admin
        /\ pc[c] \in {"closeNow", "idleOut"} => syncs[c] = 1
        /\ pc[c] \in {"hold", "give", "drop", "arm", "work", "idleOut", "shutdown"} => on[c] # None
        /\ pc[c] \in {"miss", "found"} /\ why[c] = None =>
              c \in Viewers /\ view[c] = None /\ todo[c] = {} /\ syncs[c] = 0
        /\ pc[c] \in {"hold", "give"} => why[c] # None
        /\ pc[c] = "out" => view[c] = None
        /\ pc[c] = "in" => view[c] # None

\* A reason is one of syncFleetHolds' or the fleet call's own; a fleet call
\* never syncs and works under its own reason from beginning to end.
WhyFits ==
    /\ \A c \in Callers :
        /\ why[c] \in SyncReasons \cup {None, c}
        /\ view[c] # None => c \in Viewers
        /\ pc[c] = "work" => c \in Fleet
    /\ \A f \in Fleet :
        /\ todo[f] = {} /\ syncs[f] = 0
        /\ pc[f] \in {"miss", "found", "hold", "give", "work", "drop"} => why[f] = f

\* The session Shutdown has taken out of the map is never put back.
TakenIsGone == pc[Admin] = "shutdown" => on[Admin] # live

PoolInv == TypeOK /\ CallFits /\ WhyFits /\ TakenIsGone /\ OneSession

\* Until an operator closes it, everybody who uses a session uses the live one.
\* This is what UsedSessionStays and RefsCountViewers need of each other: refs
\* can only count the users of the live session if there are no others, and a
\* timer only spares that session if its refs and holds count them.
UsersFit ==
    writes = 0 =>
        /\ pc[Admin] = "out"
        /\ \A c \in Callers : view[c] # None => view[c] = live
        /\ \A c \in Callers : pc[c] \in {"hold", "give"} => on[c] = live
        /\ \A f \in Fleet : pc[f] \in {"give", "work"} => on[f] = live /\ f \in sess[live].holds

\* The websockets that have a session, and the calls of Retain between their
\* Acquire and their Release.
Watching == {c \in Callers : view[c] # None}
Retaining == {c \in Callers : pc[c] \in {"hold", "give"}}

\* refs counts them all, whichever session each of them has.
RefsCountUsers ==
    writes = 0 /\ live # None => sess[live].refs = Cardinality(Watching) + Cardinality(Retaining)

UseInv == PoolInv /\ UsersFit /\ RefsCountUsers

\* The names the callers and the reasons are told apart by.
LEMMA Names ==
    /\ Admin \in Callers /\ Timer \in Callers /\ Viewers \subseteq Callers /\ Fleet \subseteq Callers
    /\ Admin \notin Viewers /\ Admin \notin Fleet /\ Timer \notin Viewers /\ Timer \notin Fleet
    /\ Admin # Timer /\ Viewers \cap Fleet = {}
    /\ Warm \in SyncReasons /\ SyncReasons \subseteq Reasons /\ Fleet \subseteq Reasons
    /\ SyncReasons \cap Fleet = {} /\ None \notin Reasons /\ None \notin Sessions
BY CallersAssumption, NamesAssumption DEF Callers, SyncReasons, Reasons

\* One field of a session is set.
LEMMA FieldTypes ==
    ASSUME NEW s \in Session
    PROVE  /\ \A n \in Int : [s EXCEPT !.refs = n] \in Session
           /\ \A h \in SUBSET Reasons : [s EXCEPT !.holds = h] \in Session
           /\ [s EXCEPT !.closed = TRUE] \in Session /\ [s EXCEPT !.closed = FALSE] \in Session
           /\ [s EXCEPT !.linger = TRUE] \in Session /\ [s EXCEPT !.linger = FALSE] \in Session
           /\ \A n \in Nat : [s EXCEPT !.loose = n] \in Session
<1>1. \A n \in Int : [s EXCEPT !.refs = n] \in Session
  BY DEF Session
<1>2. \A h \in SUBSET Reasons : [s EXCEPT !.holds = h] \in Session
  BY DEF Session
<1>3. [s EXCEPT !.closed = TRUE] \in Session
  BY DEF Session
<1>4. [s EXCEPT !.closed = FALSE] \in Session
  BY DEF Session
<1>5. [s EXCEPT !.linger = TRUE] \in Session
  BY DEF Session
<1>6. [s EXCEPT !.linger = FALSE] \in Session
  BY DEF Session
<1>7. \A n \in Nat : [s EXCEPT !.loose = n] \in Session
  BY DEF Session
<1> QED
  BY <1>1, <1>2, <1>3, <1>4, <1>5, <1>6, <1>7

\* What a session is that newSession has just made.
LEMMA NewType == [Gone EXCEPT !.refs = 1, !.closed = FALSE] \in Session
<1>1. Gone \in Session
  BY DEF Session, Gone
<1>2. [Gone EXCEPT !.refs = 1] \in Session
  BY <1>1, FieldTypes, 1 \in Int
<1> QED
  BY <1>2, FieldTypes

\* What CloseNow leaves of a session.
LEMMA ClearedType ==
    ASSUME NEW s \in Session
    PROVE  /\ [s EXCEPT !.refs = 0, !.holds = {}, !.linger = FALSE] \in Session
           /\ [s EXCEPT !.refs = 0, !.holds = {}, !.linger = FALSE].closed = s.closed
<1>1. [s EXCEPT !.refs = 0] \in Session
  BY FieldTypes, 0 \in Int
<1>2. [s EXCEPT !.refs = 0, !.holds = {}] \in Session
  BY <1>1, FieldTypes, {} \in SUBSET Reasons
<1>3. [s EXCEPT !.refs = 0, !.holds = {}, !.linger = FALSE] \in Session
  BY <1>2, FieldTypes
<1>4. [s EXCEPT !.refs = 0, !.holds = {}, !.linger = FALSE].closed = s.closed
  BY DEF Session
<1> QED
  BY <1>3, <1>4

\* What Acquire makes of a session.
LEMMA ReferencedType ==
    ASSUME NEW s \in Session
    PROVE  /\ Referenced(s) \in Session /\ Referenced(s).closed = s.closed
           /\ Referenced(s).refs = s.refs + 1 /\ Referenced(s).holds = s.holds
<1>1. s.refs + 1 \in Int
  BY DEF Session
<1>2. Referenced(s) \in Session
  BY <1>1, FieldTypes DEF Referenced
<1>3. Referenced(s).closed = s.closed
  BY DEF Session, Referenced
<1>4. Referenced(s).refs = s.refs + 1
  BY DEF Session, Referenced
<1>5. Referenced(s).holds = s.holds
  BY DEF Session, Referenced
<1> QED
  BY <1>2, <1>3, <1>4, <1>5

\* What idleOut makes of a session.
LEMMA IdleType ==
    ASSUME NEW s \in Session
    PROVE  /\ Idle(s) \in Session /\ Idle(s).refs = s.refs /\ Idle(s).holds = s.holds
           /\ SpokenFor(s) => Idle(s).closed = s.closed
           /\ ~SpokenFor(s) => Idle(s).closed = TRUE
<1>1. s.loose \in Nat /\ s.loose + 1 \in Nat
  BY DEF Session
<1>2. Idle(s) \in Session
  BY <1>1, FieldTypes DEF Idle
<1>3. SpokenFor(s) => Idle(s).closed = s.closed
  BY DEF Idle, Session
<1>4. ~SpokenFor(s) => Idle(s).closed = TRUE
  BY DEF Idle, Session
<1>5. Idle(s).refs = s.refs
  BY DEF Idle, Session
<1>6. Idle(s).holds = s.holds
  BY DEF Idle, Session
<1> QED
  BY <1>2, <1>3, <1>4, <1>5, <1>6

\* A timer's callback is on its way no more.
LEMMA LooseType ==
    ASSUME NEW s \in Session, s.loose > 0
    PROVE  /\ [s EXCEPT !.loose = @ - 1] \in Session /\ [s EXCEPT !.loose = @ - 1].closed = s.closed
           /\ [s EXCEPT !.loose = @ - 1].refs = s.refs /\ [s EXCEPT !.loose = @ - 1].holds = s.holds
<1>1. [s EXCEPT !.loose = @ - 1] \in Session
  BY DEF Session
<1>2. [s EXCEPT !.loose = @ - 1].closed = s.closed
  BY DEF Session
<1>3. [s EXCEPT !.loose = @ - 1].refs = s.refs
  BY DEF Session
<1>4. [s EXCEPT !.loose = @ - 1].holds = s.holds
  BY DEF Session
<1> QED
  BY <1>1, <1>2, <1>3, <1>4

\* What Release makes of a session.
LEMMA UnreferencedType ==
    ASSUME NEW s \in Session
    PROVE  /\ Unreferenced(s) \in Session /\ Unreferenced(s).closed = s.closed
           /\ Unreferenced(s).refs = s.refs - 1 /\ Unreferenced(s).holds = s.holds
<1>1. [s EXCEPT !.refs = s.refs - 1] \in Session
  BY DEF Session
<1>2. Unreferenced(s) \in Session
  <2>1. CASE s.linger \/ s.refs <= 1
    <3>1. Unreferenced(s) = [[s EXCEPT !.refs = s.refs - 1] EXCEPT !.linger = TRUE]
      BY <2>1 DEF Session, Unreferenced
    <3> QED
      BY <1>1, <3>1, FieldTypes
  <2>2. CASE ~(s.linger \/ s.refs <= 1)
    <3>1. Unreferenced(s) = [[s EXCEPT !.refs = s.refs - 1] EXCEPT !.linger = FALSE]
      BY <2>2 DEF Session, Unreferenced
    <3> QED
      BY <1>1, <3>1, FieldTypes
  <2> QED
    BY <2>1, <2>2
<1>3. Unreferenced(s).closed = s.closed
  BY DEF Session, Unreferenced
<1>4. Unreferenced(s).refs = s.refs - 1
  BY DEF Session, Unreferenced
<1>5. Unreferenced(s).holds = s.holds
  BY DEF Session, Unreferenced
<1> QED
  BY <1>2, <1>3, <1>4, <1>5

\* Release takes one reference from the live session and changes no other.
LEMMA ReleasedType ==
    ASSUME TypeOK
    PROVE  /\ Released \in [Sessions -> Session]
           /\ \A i \in Sessions : Released[i].closed = sess[i].closed /\ Released[i].holds = sess[i].holds
           /\ live # None => Released[live].refs = sess[live].refs - 1
<1>1. CASE live = None
  BY <1>1 DEF TypeOK, Released
<1>2. CASE live # None
  <2>1. live \in Sessions /\ sess[live] \in Session
    BY <1>2 DEF TypeOK
  <2>2. Released = [sess EXCEPT ![live] = Unreferenced(sess[live])]
    BY <1>2 DEF Released
  <2> QED
    BY <1>2, <2>1, <2>2, UnreferencedType DEF TypeOK
<1> QED
  BY <1>1, <1>2

\* A server that has just started.
LEMMA InitPool == Init => PoolInv
BY Names, BoundsAssumption
   DEF Init, PoolInv, TypeOK, CallFits, WhyFits, TakenIsGone, OneSession, PC, Session, Gone

\* Every step keeps it.
LEMMA NextPool == PoolInv /\ [Next]_vars => PoolInv'
<1> SUFFICES ASSUME PoolInv, [Next]_vars PROVE PoolInv'
  OBVIOUS
<1> USE Names
<1>1. CASE UNCHANGED vars
  BY <1>1 DEF vars, PoolInv, TypeOK, CallFits, WhyFits, TakenIsGone, OneSession
<1>2. ASSUME NEW c \in Callers, Select(c) PROVE PoolInv'
  <2>1. CallFits'
    BY <1>2 DEF Select, Look, Acquired, Referenced, Goto, Return, Onward, store, loop, PoolInv, TypeOK, CallFits, WhyFits
  <2>2. TypeOK'
    <3>1. sess' \in [Sessions -> Session]
      BY <1>2, ReferencedType DEF Select, Look, Acquired, Goto, Return, Onward, store, loop, PoolInv, TypeOK, CallFits
    <3>2. pc' \in [Callers -> PC]
      BY <1>2 DEF Select, Look, Acquired, Goto, Return, Onward, store, loop, PoolInv, TypeOK, PC
    <3>3. /\ view' \in [Callers -> Sessions \cup {None}]
          /\ on' \in [Callers -> Sessions \cup {None}]
      BY <1>2 DEF Select, Look, Acquired, Goto, Return, Onward, store, loop, PoolInv, TypeOK
    <3>4. /\ why' \in [Callers -> Reasons \cup {None}]
          /\ todo' \in [Callers -> SUBSET SyncReasons]
          /\ want' \in [Callers -> SUBSET SyncReasons]
      BY <1>2 DEF Select, Look, Acquired, Goto, Return, Onward, store, loop, PoolInv, TypeOK, CallFits
    <3>5. syncs' \in [Callers -> 0..2]
      BY <1>2 DEF Select, Look, Acquired, Goto, Return, Onward, store, loop, PoolInv, TypeOK, CallFits
    <3> QED
      BY <1>2, <2>1, <3>1, <3>2, <3>3, <3>4, <3>5, BoundsAssumption DEF Select, Look, Acquired, Goto, Return, Onward, store, loop, PoolInv, TypeOK, CallFits
  <2>3. WhyFits'
    BY <1>2 DEF Select, Look, Acquired, Referenced, Goto, Return, Onward, store, loop, PoolInv, TypeOK, CallFits, WhyFits
  <2>4. TakenIsGone'
    BY <1>2 DEF Select, Look, Acquired, Referenced, Goto, Return, Onward, store, loop, PoolInv, TypeOK, CallFits, TakenIsGone
  <2>5. OneSession'
    BY <1>2, <2>2, ReferencedType DEF Select, Look, Acquired, Goto, Return, Onward, store, loop, PoolInv, TypeOK, CallFits, TakenIsGone, OneSession
  <2> QED
    BY <2>1, <2>2, <2>3, <2>4, <2>5 DEF PoolInv
<1>3. ASSUME NEW c \in Callers, Leave(c) PROVE PoolInv'
  <2>1. CallFits'
    BY <1>3 DEF Leave, Released, Goto, Return, Onward, store, loop, PoolInv, TypeOK, CallFits, WhyFits
  <2>2. TypeOK'
    <3>1. sess' \in [Sessions -> Session]
      BY <1>3, ReleasedType DEF Leave, Goto, Return, Onward, store, loop, PoolInv, TypeOK, CallFits
    <3>2. pc' \in [Callers -> PC]
      BY <1>3 DEF Leave, Goto, Return, Onward, store, loop, PoolInv, TypeOK, PC
    <3>3. /\ view' \in [Callers -> Sessions \cup {None}]
          /\ on' \in [Callers -> Sessions \cup {None}]
      BY <1>3 DEF Leave, Goto, Return, Onward, store, loop, PoolInv, TypeOK
    <3>4. /\ why' \in [Callers -> Reasons \cup {None}]
          /\ todo' \in [Callers -> SUBSET SyncReasons]
          /\ want' \in [Callers -> SUBSET SyncReasons]
      BY <1>3 DEF Leave, Goto, Return, Onward, store, loop, PoolInv, TypeOK, CallFits
    <3>5. syncs' \in [Callers -> 0..2]
      BY <1>3 DEF Leave, Goto, Return, Onward, store, loop, PoolInv, TypeOK, CallFits
    <3> QED
      BY <1>3, <2>1, <3>1, <3>2, <3>3, <3>4, <3>5, BoundsAssumption DEF Leave, Goto, Return, Onward, store, loop, PoolInv, TypeOK, CallFits
  <2>3. WhyFits'
    BY <1>3 DEF Leave, Released, Goto, Return, Onward, store, loop, PoolInv, TypeOK, CallFits, WhyFits
  <2>4. TakenIsGone'
    BY <1>3 DEF Leave, Released, Goto, Return, Onward, store, loop, PoolInv, TypeOK, CallFits, TakenIsGone
  <2>5. OneSession'
    BY <1>3, ReleasedType DEF Leave, Goto, Return, store, loop, PoolInv, TypeOK, CallFits, OneSession
  <2> QED
    BY <2>1, <2>2, <2>3, <2>4, <2>5 DEF PoolInv
<1>4. ASSUME NEW c \in Callers, FleetRetain(c) PROVE PoolInv'
  <2>1. CallFits'
    BY <1>4 DEF FleetRetain, Look, Acquired, Referenced, Goto, Return, Onward, store, loop, PoolInv, TypeOK, CallFits, WhyFits
  <2>2. TypeOK'
    <3>1. sess' \in [Sessions -> Session]
      BY <1>4, ReferencedType DEF FleetRetain, Look, Acquired, Goto, Return, Onward, store, loop, PoolInv, TypeOK, CallFits
    <3>2. pc' \in [Callers -> PC]
      BY <1>4 DEF FleetRetain, Look, Acquired, Goto, Return, Onward, store, loop, PoolInv, TypeOK, PC
    <3>3. /\ view' \in [Callers -> Sessions \cup {None}]
          /\ on' \in [Callers -> Sessions \cup {None}]
      BY <1>4 DEF FleetRetain, Look, Acquired, Goto, Return, Onward, store, loop, PoolInv, TypeOK
    <3>4. /\ why' \in [Callers -> Reasons \cup {None}]
          /\ todo' \in [Callers -> SUBSET SyncReasons]
          /\ want' \in [Callers -> SUBSET SyncReasons]
      BY <1>4 DEF FleetRetain, Look, Acquired, Goto, Return, Onward, store, loop, PoolInv, TypeOK, CallFits
    <3>5. syncs' \in [Callers -> 0..2]
      BY <1>4 DEF FleetRetain, Look, Acquired, Goto, Return, Onward, store, loop, PoolInv, TypeOK, CallFits
    <3> QED
      BY <1>4, <2>1, <3>1, <3>2, <3>3, <3>4, <3>5, BoundsAssumption DEF FleetRetain, Look, Acquired, Goto, Return, Onward, store, loop, PoolInv, TypeOK, CallFits
  <2>3. WhyFits'
    BY <1>4 DEF FleetRetain, Look, Acquired, Referenced, Goto, Return, Onward, store, loop, PoolInv, TypeOK, CallFits, WhyFits
  <2>4. TakenIsGone'
    BY <1>4 DEF FleetRetain, Look, Acquired, Referenced, Goto, Return, Onward, store, loop, PoolInv, TypeOK, CallFits, TakenIsGone
  <2>5. OneSession'
    BY <1>4, <2>2, ReferencedType DEF FleetRetain, Look, Acquired, Goto, Return, Onward, store, loop, PoolInv, TypeOK, CallFits, TakenIsGone, OneSession
  <2> QED
    BY <2>1, <2>2, <2>3, <2>4, <2>5 DEF PoolInv
<1>5. ASSUME NEW c \in Callers, FleetDrop(c) PROVE PoolInv'
  <2>1. CallFits'
    BY <1>5 DEF FleetDrop, Goto, Return, Onward, store, loop, PoolInv, TypeOK, CallFits, WhyFits
  <2>2. TypeOK'
    <3>1. sess' \in [Sessions -> Session]
      BY <1>5, BoundsAssumption DEF FleetDrop, Goto, Return, Onward, store, loop, PoolInv, TypeOK, CallFits, Session
    <3>2. pc' \in [Callers -> PC]
      BY <1>5 DEF FleetDrop, Goto, Return, Onward, store, loop, PoolInv, TypeOK, PC
    <3>3. /\ view' \in [Callers -> Sessions \cup {None}]
          /\ on' \in [Callers -> Sessions \cup {None}]
      BY <1>5 DEF FleetDrop, Goto, Return, Onward, store, loop, PoolInv, TypeOK
    <3>4. /\ why' \in [Callers -> Reasons \cup {None}]
          /\ todo' \in [Callers -> SUBSET SyncReasons]
          /\ want' \in [Callers -> SUBSET SyncReasons]
      BY <1>5 DEF FleetDrop, Goto, Return, Onward, store, loop, PoolInv, TypeOK, CallFits
    <3>5. syncs' \in [Callers -> 0..2]
      BY <1>5 DEF FleetDrop, Goto, Return, Onward, store, loop, PoolInv, TypeOK, CallFits
    <3> QED
      BY <1>5, <2>1, <3>1, <3>2, <3>3, <3>4, <3>5, BoundsAssumption DEF FleetDrop, Goto, Return, Onward, store, loop, PoolInv, TypeOK, CallFits
  <2>3. WhyFits'
    BY <1>5 DEF FleetDrop, Goto, Return, Onward, store, loop, PoolInv, TypeOK, CallFits, WhyFits
  <2>4. TakenIsGone'
    BY <1>5 DEF FleetDrop, Goto, Return, Onward, store, loop, PoolInv, TypeOK, CallFits, TakenIsGone
  <2>5. OneSession'
    BY <1>5 DEF FleetDrop, Goto, Return, Onward, store, loop, PoolInv, TypeOK, CallFits, TakenIsGone, OneSession, Session
  <2> QED
    BY <2>1, <2>2, <2>3, <2>4, <2>5 DEF PoolInv
<1>6. ASSUME NEW c \in Callers, ReadRecord(c) PROVE PoolInv'
  <2>1. CallFits'
    BY <1>6 DEF ReadRecord, Goto, Return, Onward, store, loop, PoolInv, TypeOK, CallFits, WhyFits
  <2>2. TypeOK'
    <3>1. sess' \in [Sessions -> Session]
      BY <1>6, BoundsAssumption DEF ReadRecord, Goto, Return, Onward, store, loop, PoolInv, TypeOK, CallFits, Session
    <3>2. pc' \in [Callers -> PC]
      BY <1>6 DEF ReadRecord, Goto, Return, Onward, store, loop, PoolInv, TypeOK, PC
    <3>3. /\ view' \in [Callers -> Sessions \cup {None}]
          /\ on' \in [Callers -> Sessions \cup {None}]
      BY <1>6 DEF ReadRecord, Goto, Return, Onward, store, loop, PoolInv, TypeOK
    <3>4. /\ why' \in [Callers -> Reasons \cup {None}]
          /\ todo' \in [Callers -> SUBSET SyncReasons]
          /\ want' \in [Callers -> SUBSET SyncReasons]
      BY <1>6 DEF ReadRecord, Goto, Return, Onward, store, loop, PoolInv, TypeOK, CallFits
    <3>5. syncs' \in [Callers -> 0..2]
      BY <1>6 DEF ReadRecord, Goto, Return, Onward, store, loop, PoolInv, TypeOK, CallFits
    <3> QED
      BY <1>6, <2>1, <3>1, <3>2, <3>3, <3>4, <3>5, BoundsAssumption DEF ReadRecord, Goto, Return, Onward, store, loop, PoolInv, TypeOK, CallFits
  <2>3. WhyFits'
    BY <1>6 DEF ReadRecord, Goto, Return, Onward, store, loop, PoolInv, TypeOK, CallFits, WhyFits
  <2>4. TakenIsGone'
    BY <1>6 DEF ReadRecord, Goto, Return, Onward, store, loop, PoolInv, TypeOK, CallFits, TakenIsGone
  <2>5. OneSession'
    BY <1>6 DEF ReadRecord, Goto, Return, Onward, store, loop, PoolInv, TypeOK, CallFits, TakenIsGone, OneSession, Session
  <2> QED
    BY <2>1, <2>2, <2>3, <2>4, <2>5 DEF PoolInv
<1>7. ASSUME NEW c \in Callers, Build(c) PROVE PoolInv'
  <2>1. CallFits'
    BY <1>7 DEF Build, NewSession, Pointed, Gone, Acquired, Referenced, Goto, Return, Onward, store, loop, PoolInv, TypeOK, CallFits, WhyFits
  <2>2. TypeOK'
    <3>1. sess' \in [Sessions -> Session]
      <4>1. CASE live # None
        BY <1>7, <4>1, ReferencedType DEF Build, PoolInv, TypeOK
      <4>2. CASE live = None
        <5>1. PICK i \in Sessions : sess' = [sess EXCEPT ![i] = [Gone EXCEPT !.refs = 1, !.closed = FALSE]]
          BY <1>7, <4>2 DEF Build, NewSession
        <5> QED
          BY <5>1, NewType DEF PoolInv, TypeOK
      <4> QED
        BY <4>1, <4>2
    <3>2. pc' \in [Callers -> PC]
      BY <1>7 DEF Build, NewSession, Pointed, Gone, Acquired, Goto, Return, Onward, store, loop, PoolInv, TypeOK, PC
    <3>3. /\ view' \in [Callers -> Sessions \cup {None}]
          /\ on' \in [Callers -> Sessions \cup {None}]
      BY <1>7 DEF Build, NewSession, Pointed, Gone, Acquired, Goto, Return, Onward, store, loop, PoolInv, TypeOK
    <3>4. /\ why' \in [Callers -> Reasons \cup {None}]
          /\ todo' \in [Callers -> SUBSET SyncReasons]
          /\ want' \in [Callers -> SUBSET SyncReasons]
      BY <1>7 DEF Build, NewSession, Pointed, Gone, Acquired, Goto, Return, Onward, store, loop, PoolInv, TypeOK, CallFits
    <3>5. syncs' \in [Callers -> 0..2]
      BY <1>7 DEF Build, NewSession, Pointed, Gone, Acquired, Goto, Return, Onward, store, loop, PoolInv, TypeOK, CallFits
    <3> QED
      BY <1>7, <2>1, <3>1, <3>2, <3>3, <3>4, <3>5, BoundsAssumption DEF Build, NewSession, Pointed, Gone, Acquired, Goto, Return, Onward, store, loop, PoolInv, TypeOK, CallFits
  <2>3. WhyFits'
    BY <1>7 DEF Build, NewSession, Pointed, Gone, Acquired, Referenced, Goto, Return, Onward, store, loop, PoolInv, TypeOK, CallFits, WhyFits
  <2>4. TakenIsGone'
    BY <1>7 DEF Build, NewSession, Pointed, Gone, Acquired, Referenced, Goto, Return, Onward, store, loop, PoolInv, TypeOK, CallFits, TakenIsGone
  <2>5. OneSession'
    <3>1. CASE live # None
      BY <1>7, <3>1, ReferencedType DEF Build, Acquired, Goto, PoolInv, TypeOK, CallFits, OneSession
    <3>2. CASE live = None
      <4>1. PICK i \in Sessions : NewSession(c, i)
        BY <1>7, <3>2 DEF Build
      <4>2. sess'[i].closed = FALSE /\ live' = i /\ \A j \in Sessions \ {i} : sess'[j] = sess[j]
        BY <4>1 DEF NewSession, Gone, PoolInv, TypeOK
      <4>3. c # Admin \/ pc[Admin] = "found"
        BY <1>7 DEF Build
      <4>4. pc[Admin] = "shutdown" => pc'[Admin] = "shutdown" /\ on'[Admin] = on[Admin]
        BY <4>1, <4>3 DEF NewSession, Acquired, Goto, PoolInv, TypeOK
      <4> QED
        BY <3>2, <4>2, <4>4 DEF PoolInv, TypeOK, OneSession
    <3> QED
      BY <3>1, <3>2
  <2> QED
    BY <2>1, <2>2, <2>3, <2>4, <2>5 DEF PoolInv
<1>8. ASSUME NEW c \in Callers, SetHold(c) PROVE PoolInv'
  <2>1. CallFits'
    BY <1>8 DEF SetHold, Goto, Return, Onward, store, loop, PoolInv, TypeOK, CallFits, WhyFits
  <2>2. TypeOK'
    <3>1. sess' \in [Sessions -> Session]
      <4>1. on[c] \in Sessions /\ why[c] \in Reasons /\ sess[on[c]] \in Session
        BY <1>8 DEF SetHold, PoolInv, TypeOK, CallFits
      <4> QED
        BY <1>8, <4>1 DEF SetHold, PoolInv, TypeOK, Session
    <3>2. pc' \in [Callers -> PC]
      BY <1>8 DEF SetHold, Goto, Return, Onward, store, loop, PoolInv, TypeOK, PC
    <3>3. /\ view' \in [Callers -> Sessions \cup {None}]
          /\ on' \in [Callers -> Sessions \cup {None}]
      BY <1>8 DEF SetHold, Goto, Return, Onward, store, loop, PoolInv, TypeOK
    <3>4. /\ why' \in [Callers -> Reasons \cup {None}]
          /\ todo' \in [Callers -> SUBSET SyncReasons]
          /\ want' \in [Callers -> SUBSET SyncReasons]
      BY <1>8 DEF SetHold, Goto, Return, Onward, store, loop, PoolInv, TypeOK, CallFits
    <3>5. syncs' \in [Callers -> 0..2]
      BY <1>8 DEF SetHold, Goto, Return, Onward, store, loop, PoolInv, TypeOK, CallFits
    <3> QED
      BY <1>8, <2>1, <3>1, <3>2, <3>3, <3>4, <3>5, BoundsAssumption DEF SetHold, Goto, Return, Onward, store, loop, PoolInv, TypeOK, CallFits
  <2>3. WhyFits'
    BY <1>8 DEF SetHold, Goto, Return, Onward, store, loop, PoolInv, TypeOK, CallFits, WhyFits
  <2>4. TakenIsGone'
    BY <1>8 DEF SetHold, Goto, Return, Onward, store, loop, PoolInv, TypeOK, CallFits, TakenIsGone
  <2>5. OneSession'
    BY <1>8 DEF SetHold, Goto, Return, Onward, store, loop, PoolInv, TypeOK, CallFits, TakenIsGone, OneSession, Session
  <2> QED
    BY <2>1, <2>2, <2>3, <2>4, <2>5 DEF PoolInv
<1>9. ASSUME NEW c \in Callers, GiveBack(c) PROVE PoolInv'
  <2>1. CallFits'
    BY <1>9 DEF GiveBack, Released, Goto, Return, Onward, store, loop, PoolInv, TypeOK, CallFits, WhyFits
  <2>2. TypeOK'
    <3>1. sess' \in [Sessions -> Session]
      BY <1>9, ReleasedType DEF GiveBack, Goto, Return, Onward, store, loop, PoolInv, TypeOK, CallFits
    <3>2. pc' \in [Callers -> PC]
      BY <1>9 DEF GiveBack, Goto, Return, Onward, store, loop, PoolInv, TypeOK, PC
    <3>3. /\ view' \in [Callers -> Sessions \cup {None}]
          /\ on' \in [Callers -> Sessions \cup {None}]
      BY <1>9 DEF GiveBack, Goto, Return, Onward, store, loop, PoolInv, TypeOK
    <3>4. /\ why' \in [Callers -> Reasons \cup {None}]
          /\ todo' \in [Callers -> SUBSET SyncReasons]
          /\ want' \in [Callers -> SUBSET SyncReasons]
      BY <1>9 DEF GiveBack, Goto, Return, Onward, store, loop, PoolInv, TypeOK, CallFits
    <3>5. syncs' \in [Callers -> 0..2]
      BY <1>9 DEF GiveBack, Goto, Return, Onward, store, loop, PoolInv, TypeOK, CallFits
    <3> QED
      BY <1>9, <2>1, <3>1, <3>2, <3>3, <3>4, <3>5, BoundsAssumption DEF GiveBack, Goto, Return, Onward, store, loop, PoolInv, TypeOK, CallFits
  <2>3. WhyFits'
    BY <1>9 DEF GiveBack, Released, Goto, Return, Onward, store, loop, PoolInv, TypeOK, CallFits, WhyFits
  <2>4. TakenIsGone'
    BY <1>9 DEF GiveBack, Released, Goto, Return, Onward, store, loop, PoolInv, TypeOK, CallFits, TakenIsGone
  <2>5. OneSession'
    BY <1>9, ReleasedType DEF GiveBack, Goto, Return, store, loop, PoolInv, TypeOK, CallFits, OneSession
  <2> QED
    BY <2>1, <2>2, <2>3, <2>4, <2>5 DEF PoolInv
<1>10. ASSUME NEW c \in Callers, DropHold(c) PROVE PoolInv'
  <2>1. CallFits'
    BY <1>10 DEF DropHold, Goto, Return, Onward, store, loop, PoolInv, TypeOK, CallFits, WhyFits
  <2>2. TypeOK'
    <3>1. sess' \in [Sessions -> Session]
      BY <1>10, BoundsAssumption DEF DropHold, Goto, Return, Onward, store, loop, PoolInv, TypeOK, CallFits, Session
    <3>2. pc' \in [Callers -> PC]
      BY <1>10 DEF DropHold, Goto, Return, Onward, store, loop, PoolInv, TypeOK, PC
    <3>3. /\ view' \in [Callers -> Sessions \cup {None}]
          /\ on' \in [Callers -> Sessions \cup {None}]
      BY <1>10 DEF DropHold, Goto, Return, Onward, store, loop, PoolInv, TypeOK
    <3>4. /\ why' \in [Callers -> Reasons \cup {None}]
          /\ todo' \in [Callers -> SUBSET SyncReasons]
          /\ want' \in [Callers -> SUBSET SyncReasons]
      BY <1>10 DEF DropHold, Goto, Return, Onward, store, loop, PoolInv, TypeOK, CallFits
    <3>5. syncs' \in [Callers -> 0..2]
      BY <1>10 DEF DropHold, Goto, Return, Onward, store, loop, PoolInv, TypeOK, CallFits
    <3> QED
      BY <1>10, <2>1, <3>1, <3>2, <3>3, <3>4, <3>5, BoundsAssumption DEF DropHold, Goto, Return, Onward, store, loop, PoolInv, TypeOK, CallFits
  <2>3. WhyFits'
    BY <1>10 DEF DropHold, Goto, Return, Onward, store, loop, PoolInv, TypeOK, CallFits, WhyFits
  <2>4. TakenIsGone'
    BY <1>10 DEF DropHold, Goto, Return, Onward, store, loop, PoolInv, TypeOK, CallFits, TakenIsGone
  <2>5. OneSession'
    BY <1>10 DEF DropHold, Goto, Return, Onward, store, loop, PoolInv, TypeOK, CallFits, TakenIsGone, OneSession, Session
  <2> QED
    BY <2>1, <2>2, <2>3, <2>4, <2>5 DEF PoolInv
<1>11. ASSUME NEW c \in Callers, Arm(c) PROVE PoolInv'
  <2>1. CallFits'
    BY <1>11 DEF Arm, Goto, Return, Onward, store, loop, PoolInv, TypeOK, CallFits, WhyFits
  <2>2. TypeOK'
    <3>1. sess' \in [Sessions -> Session]
      <4>1. on[c] \in Sessions /\ sess[on[c]] \in Session
        BY <1>11 DEF Arm, PoolInv, TypeOK, CallFits
      <4>2. [sess[on[c]] EXCEPT !.linger = TRUE] \in Session
        BY <4>1 DEF Session
      <4> QED
        BY <1>11, <4>1, <4>2 DEF Arm, PoolInv, TypeOK
    <3>2. pc' \in [Callers -> PC]
      BY <1>11 DEF Arm, Goto, Return, Onward, store, loop, PoolInv, TypeOK, PC
    <3>3. /\ view' \in [Callers -> Sessions \cup {None}]
          /\ on' \in [Callers -> Sessions \cup {None}]
      BY <1>11 DEF Arm, Goto, Return, Onward, store, loop, PoolInv, TypeOK
    <3>4. /\ why' \in [Callers -> Reasons \cup {None}]
          /\ todo' \in [Callers -> SUBSET SyncReasons]
          /\ want' \in [Callers -> SUBSET SyncReasons]
      BY <1>11 DEF Arm, Goto, Return, Onward, store, loop, PoolInv, TypeOK, CallFits
    <3>5. syncs' \in [Callers -> 0..2]
      BY <1>11 DEF Arm, Goto, Return, Onward, store, loop, PoolInv, TypeOK, CallFits
    <3> QED
      BY <1>11, <2>1, <3>1, <3>2, <3>3, <3>4, <3>5, BoundsAssumption DEF Arm, Goto, Return, Onward, store, loop, PoolInv, TypeOK, CallFits
  <2>3. WhyFits'
    BY <1>11 DEF Arm, Goto, Return, Onward, store, loop, PoolInv, TypeOK, CallFits, WhyFits
  <2>4. TakenIsGone'
    BY <1>11 DEF Arm, Goto, Return, Onward, store, loop, PoolInv, TypeOK, CallFits, TakenIsGone
  <2>5. OneSession'
    BY <1>11 DEF Arm, Goto, Return, Onward, store, loop, PoolInv, TypeOK, CallFits, TakenIsGone, OneSession, Session
  <2> QED
    BY <2>1, <2>2, <2>3, <2>4, <2>5 DEF PoolInv
<1>12. ASSUME NEW c \in Callers, SyncStart(c) PROVE PoolInv'
  <2>1. CallFits'
    BY <1>12 DEF SyncStart, Goto, Return, Onward, store, loop, PoolInv, TypeOK, CallFits, WhyFits
  <2>2. TypeOK'
    <3>1. sess' \in [Sessions -> Session]
      BY <1>12, BoundsAssumption DEF SyncStart, Goto, Return, Onward, store, loop, PoolInv, TypeOK, CallFits, Session
    <3>2. pc' \in [Callers -> PC]
      BY <1>12 DEF SyncStart, Goto, Return, Onward, store, loop, PoolInv, TypeOK, PC
    <3>3. /\ view' \in [Callers -> Sessions \cup {None}]
          /\ on' \in [Callers -> Sessions \cup {None}]
      BY <1>12 DEF SyncStart, Goto, Return, Onward, store, loop, PoolInv, TypeOK
    <3>4. /\ why' \in [Callers -> Reasons \cup {None}]
          /\ todo' \in [Callers -> SUBSET SyncReasons]
          /\ want' \in [Callers -> SUBSET SyncReasons]
      <4>1. \A w \in SUBSET Sometimes : {Warm} \cup w \in SUBSET SyncReasons
        BY DEF SyncReasons
      <4> QED
        BY <1>12, <4>1 DEF SyncStart, PoolInv, TypeOK
    <3>5. syncs' \in [Callers -> 0..2]
      BY <1>12 DEF SyncStart, Goto, Return, Onward, store, loop, PoolInv, TypeOK, CallFits
    <3> QED
      BY <1>12, <2>1, <3>1, <3>2, <3>3, <3>4, <3>5, BoundsAssumption DEF SyncStart, Goto, Return, Onward, store, loop, PoolInv, TypeOK, CallFits
  <2>3. WhyFits'
    BY <1>12 DEF SyncStart, Goto, Return, Onward, store, loop, PoolInv, TypeOK, CallFits, WhyFits
  <2>4. TakenIsGone'
    BY <1>12 DEF SyncStart, Goto, Return, Onward, store, loop, PoolInv, TypeOK, CallFits, TakenIsGone
  <2>5. OneSession'
    BY <1>12 DEF SyncStart, Goto, Return, Onward, store, loop, PoolInv, TypeOK, CallFits, TakenIsGone, OneSession, Session
  <2> QED
    BY <2>1, <2>2, <2>3, <2>4, <2>5 DEF PoolInv
<1>13. ASSUME NEW c \in Callers, SyncRetain(c) PROVE PoolInv'
  <2>1. CallFits'
    BY <1>13 DEF SyncRetain, Reason, Look, Acquired, Referenced, Goto, Return, Onward, store, loop, PoolInv, TypeOK, CallFits, WhyFits
  <2>2. TypeOK'
    <3>1. sess' \in [Sessions -> Session]
      BY <1>13, ReferencedType DEF SyncRetain, Reason, Look, Acquired, Goto, Return, Onward, store, loop, PoolInv, TypeOK, CallFits
    <3>2. pc' \in [Callers -> PC]
      BY <1>13 DEF SyncRetain, Reason, Look, Acquired, Goto, Return, Onward, store, loop, PoolInv, TypeOK, PC
    <3>3. /\ view' \in [Callers -> Sessions \cup {None}]
          /\ on' \in [Callers -> Sessions \cup {None}]
      BY <1>13 DEF SyncRetain, Reason, Look, Acquired, Goto, Return, Onward, store, loop, PoolInv, TypeOK
    <3>4. /\ why' \in [Callers -> Reasons \cup {None}]
          /\ todo' \in [Callers -> SUBSET SyncReasons]
          /\ want' \in [Callers -> SUBSET SyncReasons]
      BY <1>13 DEF SyncRetain, Reason, Look, Acquired, Goto, Return, Onward, store, loop, PoolInv, TypeOK, CallFits
    <3>5. syncs' \in [Callers -> 0..2]
      BY <1>13 DEF SyncRetain, Reason, Look, Acquired, Goto, Return, Onward, store, loop, PoolInv, TypeOK, CallFits
    <3> QED
      BY <1>13, <2>1, <3>1, <3>2, <3>3, <3>4, <3>5, BoundsAssumption DEF SyncRetain, Reason, Look, Acquired, Goto, Return, Onward, store, loop, PoolInv, TypeOK, CallFits
  <2>3. WhyFits'
    BY <1>13 DEF SyncRetain, Reason, Look, Acquired, Referenced, Goto, Return, Onward, store, loop, PoolInv, TypeOK, CallFits, WhyFits
  <2>4. TakenIsGone'
    BY <1>13 DEF SyncRetain, Reason, Look, Acquired, Referenced, Goto, Return, Onward, store, loop, PoolInv, TypeOK, CallFits, TakenIsGone
  <2>5. OneSession'
    BY <1>13, <2>2, ReferencedType DEF SyncRetain, Reason, Look, Acquired, Goto, Return, Onward, store, loop, PoolInv, TypeOK, CallFits, TakenIsGone, OneSession
  <2> QED
    BY <2>1, <2>2, <2>3, <2>4, <2>5 DEF PoolInv
<1>14. ASSUME NEW c \in Callers, SyncDrop(c) PROVE PoolInv'
  <2>1. CallFits'
    BY <1>14 DEF SyncDrop, Reason, Goto, Return, Onward, store, loop, PoolInv, TypeOK, CallFits, WhyFits
  <2>2. TypeOK'
    <3>1. sess' \in [Sessions -> Session]
      BY <1>14, BoundsAssumption DEF SyncDrop, Reason, Goto, Return, Onward, store, loop, PoolInv, TypeOK, CallFits, Session
    <3>2. pc' \in [Callers -> PC]
      BY <1>14 DEF SyncDrop, Reason, Goto, Return, Onward, store, loop, PoolInv, TypeOK, PC
    <3>3. /\ view' \in [Callers -> Sessions \cup {None}]
          /\ on' \in [Callers -> Sessions \cup {None}]
      BY <1>14 DEF SyncDrop, Reason, Goto, Return, Onward, store, loop, PoolInv, TypeOK
    <3>4. /\ why' \in [Callers -> Reasons \cup {None}]
          /\ todo' \in [Callers -> SUBSET SyncReasons]
          /\ want' \in [Callers -> SUBSET SyncReasons]
      BY <1>14 DEF SyncDrop, Reason, Goto, Return, Onward, store, loop, PoolInv, TypeOK, CallFits
    <3>5. syncs' \in [Callers -> 0..2]
      BY <1>14 DEF SyncDrop, Reason, Goto, Return, Onward, store, loop, PoolInv, TypeOK, CallFits
    <3> QED
      BY <1>14, <2>1, <3>1, <3>2, <3>3, <3>4, <3>5, BoundsAssumption DEF SyncDrop, Reason, Goto, Return, Onward, store, loop, PoolInv, TypeOK, CallFits
  <2>3. WhyFits'
    BY <1>14 DEF SyncDrop, Reason, Goto, Return, Onward, store, loop, PoolInv, TypeOK, CallFits, WhyFits
  <2>4. TakenIsGone'
    BY <1>14 DEF SyncDrop, Reason, Goto, Return, Onward, store, loop, PoolInv, TypeOK, CallFits, TakenIsGone
  <2>5. OneSession'
    BY <1>14 DEF SyncDrop, Reason, Goto, Return, Onward, store, loop, PoolInv, TypeOK, CallFits, TakenIsGone, OneSession, Session
  <2> QED
    BY <2>1, <2>2, <2>3, <2>4, <2>5 DEF PoolInv
<1>15. ASSUME NEW i \in Sessions, Fire(i) PROVE PoolInv'
  <2>1. CallFits'
    BY <1>15 DEF Fire, Goto, Return, Onward, store, loop, PoolInv, TypeOK, CallFits, WhyFits
  <2>2. TypeOK'
    <3>1. sess' \in [Sessions -> Session]
      BY <1>15, BoundsAssumption DEF Fire, Goto, Return, Onward, store, loop, PoolInv, TypeOK, CallFits, Session
    <3>2. pc' \in [Callers -> PC]
      BY <1>15 DEF Fire, Goto, Return, Onward, store, loop, PoolInv, TypeOK, PC
    <3>3. /\ view' \in [Callers -> Sessions \cup {None}]
          /\ on' \in [Callers -> Sessions \cup {None}]
      BY <1>15 DEF Fire, Goto, Return, Onward, store, loop, PoolInv, TypeOK
    <3>4. /\ why' \in [Callers -> Reasons \cup {None}]
          /\ todo' \in [Callers -> SUBSET SyncReasons]
          /\ want' \in [Callers -> SUBSET SyncReasons]
      BY <1>15 DEF Fire, Goto, Return, Onward, store, loop, PoolInv, TypeOK, CallFits
    <3>5. syncs' \in [Callers -> 0..2]
      BY <1>15 DEF Fire, Goto, Return, Onward, store, loop, PoolInv, TypeOK, CallFits
    <3> QED
      BY <1>15, <2>1, <3>1, <3>2, <3>3, <3>4, <3>5, BoundsAssumption DEF Fire, Goto, Return, Onward, store, loop, PoolInv, TypeOK, CallFits
  <2>3. WhyFits'
    BY <1>15 DEF Fire, Goto, Return, Onward, store, loop, PoolInv, TypeOK, CallFits, WhyFits
  <2>4. TakenIsGone'
    BY <1>15 DEF Fire, Goto, Return, Onward, store, loop, PoolInv, TypeOK, CallFits, TakenIsGone
  <2>5. OneSession'
    BY <1>15 DEF Fire, Goto, Return, Onward, store, loop, PoolInv, TypeOK, CallFits, TakenIsGone, OneSession, Session
  <2> QED
    BY <2>1, <2>2, <2>3, <2>4, <2>5 DEF PoolInv
<1>16. ASSUME NEW i \in Sessions, TimerIdleOut(i) PROVE PoolInv'
  <2>1. CallFits'
    BY <1>16 DEF TimerIdleOut, IdleOut, Idle, SpokenFor, Goto, Return, Onward, store, loop, PoolInv, TypeOK, CallFits, WhyFits
  <2>2. TypeOK'
    <3>1. sess' \in [Sessions -> Session]
      <4>1. [sess[i] EXCEPT !.loose = @ - 1] \in Session
        BY <1>16, LooseType DEF TimerIdleOut, PoolInv, TypeOK
      <4>2. Idle([sess[i] EXCEPT !.loose = @ - 1]) \in Session
        BY <4>1, IdleType
      <4> QED
        BY <1>16, <4>2 DEF TimerIdleOut, IdleOut, PoolInv, TypeOK
    <3>2. pc' \in [Callers -> PC]
      BY <1>16 DEF TimerIdleOut, IdleOut, Goto, Return, Onward, store, loop, PoolInv, TypeOK, PC
    <3>3. /\ view' \in [Callers -> Sessions \cup {None}]
          /\ on' \in [Callers -> Sessions \cup {None}]
      BY <1>16 DEF TimerIdleOut, IdleOut, Goto, Return, Onward, store, loop, PoolInv, TypeOK
    <3>4. /\ why' \in [Callers -> Reasons \cup {None}]
          /\ todo' \in [Callers -> SUBSET SyncReasons]
          /\ want' \in [Callers -> SUBSET SyncReasons]
      BY <1>16 DEF TimerIdleOut, IdleOut, Goto, Return, Onward, store, loop, PoolInv, TypeOK, CallFits
    <3>5. syncs' \in [Callers -> 0..2]
      BY <1>16 DEF TimerIdleOut, IdleOut, Goto, Return, Onward, store, loop, PoolInv, TypeOK, CallFits
    <3> QED
      BY <1>16, <2>1, <3>1, <3>2, <3>3, <3>4, <3>5, BoundsAssumption DEF TimerIdleOut, IdleOut, Goto, Return, Onward, store, loop, PoolInv, TypeOK, CallFits
  <2>3. WhyFits'
    BY <1>16 DEF TimerIdleOut, IdleOut, Idle, SpokenFor, Goto, Return, Onward, store, loop, PoolInv, TypeOK, CallFits, WhyFits
  <2>4. TakenIsGone'
    BY <1>16 DEF TimerIdleOut, IdleOut, Idle, SpokenFor, Goto, Return, Onward, store, loop, PoolInv, TypeOK, CallFits, TakenIsGone
  <2>5. OneSession'
    <3> DEFINE s == [sess[i] EXCEPT !.loose = @ - 1]
    <3>1. /\ live = i /\ UNCHANGED on /\ pc'[Admin] = pc[Admin]
          /\ sess' = [sess EXCEPT ![i] = Idle(s)]
          /\ live' = IF SpokenFor(s) THEN live ELSE None
      BY <1>16 DEF TimerIdleOut, IdleOut, Goto, PoolInv, TypeOK
    <3>2. s \in Session /\ s.closed = sess[i].closed
      BY <1>16, LooseType DEF TimerIdleOut, PoolInv, TypeOK
    <3> HIDE DEF s
    <3>3. CASE SpokenFor(s)
      <4>1. live' = live /\ \A j \in Sessions : sess'[j].closed = sess[j].closed
        BY <3>1, <3>2, <3>3, IdleType DEF PoolInv, TypeOK
      <4> QED
        BY <3>1, <4>1 DEF PoolInv, TypeOK, OneSession
    <3>4. CASE ~SpokenFor(s)
      <4>1. live' = None /\ sess'[i] = Idle(s) /\ \A j \in Sessions \ {i} : sess'[j] = sess[j]
        BY <3>1, <3>4 DEF PoolInv, TypeOK
      <4>2. sess'[i].closed = TRUE
        BY <3>2, <3>4, <4>1, IdleType
      <4> QED
        BY <3>1, <4>1, <4>2 DEF PoolInv, TypeOK, OneSession
    <3> QED
      BY <3>3, <3>4
  <2> QED
    BY <2>1, <2>2, <2>3, <2>4, <2>5 DEF PoolInv
<1>17. ASSUME NEW i \in Sessions, TimerIsMoot(i) PROVE PoolInv'
  <2>1. CallFits'
    BY <1>17 DEF TimerIsMoot, Goto, Return, Onward, store, loop, PoolInv, TypeOK, CallFits, WhyFits
  <2>2. TypeOK'
    <3>1. sess' \in [Sessions -> Session]
      BY <1>17, BoundsAssumption DEF TimerIsMoot, Goto, Return, Onward, store, loop, PoolInv, TypeOK, CallFits, Session
    <3>2. pc' \in [Callers -> PC]
      BY <1>17 DEF TimerIsMoot, Goto, Return, Onward, store, loop, PoolInv, TypeOK, PC
    <3>3. /\ view' \in [Callers -> Sessions \cup {None}]
          /\ on' \in [Callers -> Sessions \cup {None}]
      BY <1>17 DEF TimerIsMoot, Goto, Return, Onward, store, loop, PoolInv, TypeOK
    <3>4. /\ why' \in [Callers -> Reasons \cup {None}]
          /\ todo' \in [Callers -> SUBSET SyncReasons]
          /\ want' \in [Callers -> SUBSET SyncReasons]
      BY <1>17 DEF TimerIsMoot, Goto, Return, Onward, store, loop, PoolInv, TypeOK, CallFits
    <3>5. syncs' \in [Callers -> 0..2]
      BY <1>17 DEF TimerIsMoot, Goto, Return, Onward, store, loop, PoolInv, TypeOK, CallFits
    <3> QED
      BY <1>17, <2>1, <3>1, <3>2, <3>3, <3>4, <3>5, BoundsAssumption DEF TimerIsMoot, Goto, Return, Onward, store, loop, PoolInv, TypeOK, CallFits
  <2>3. WhyFits'
    BY <1>17 DEF TimerIsMoot, Goto, Return, Onward, store, loop, PoolInv, TypeOK, CallFits, WhyFits
  <2>4. TakenIsGone'
    BY <1>17 DEF TimerIsMoot, Goto, Return, Onward, store, loop, PoolInv, TypeOK, CallFits, TakenIsGone
  <2>5. OneSession'
    BY <1>17 DEF TimerIsMoot, Goto, Return, Onward, store, loop, PoolInv, TypeOK, CallFits, TakenIsGone, OneSession, Session
  <2> QED
    BY <2>1, <2>2, <2>3, <2>4, <2>5 DEF PoolInv
<1>18. ASSUME Disable PROVE PoolInv'
  <2>1. CallFits'
    BY <1>18 DEF Disable, Write, Goto, Return, Onward, store, loop, PoolInv, TypeOK, CallFits, WhyFits
  <2>2. TypeOK'
    <3>1. sess' \in [Sessions -> Session]
      BY <1>18, BoundsAssumption DEF Disable, Write, Goto, Return, Onward, store, loop, PoolInv, TypeOK, CallFits, Session
    <3>2. pc' \in [Callers -> PC]
      BY <1>18 DEF Disable, Write, Goto, Return, Onward, store, loop, PoolInv, TypeOK, PC
    <3>3. /\ view' \in [Callers -> Sessions \cup {None}]
          /\ on' \in [Callers -> Sessions \cup {None}]
      BY <1>18 DEF Disable, Write, Goto, Return, Onward, store, loop, PoolInv, TypeOK
    <3>4. /\ why' \in [Callers -> Reasons \cup {None}]
          /\ todo' \in [Callers -> SUBSET SyncReasons]
          /\ want' \in [Callers -> SUBSET SyncReasons]
      BY <1>18 DEF Disable, Write, Goto, Return, Onward, store, loop, PoolInv, TypeOK, CallFits
    <3>5. syncs' \in [Callers -> 0..2]
      BY <1>18 DEF Disable, Write, Goto, Return, Onward, store, loop, PoolInv, TypeOK, CallFits
    <3> QED
      BY <1>18, <2>1, <3>1, <3>2, <3>3, <3>4, <3>5, BoundsAssumption DEF Disable, Write, Goto, Return, Onward, store, loop, PoolInv, TypeOK, CallFits
  <2>3. WhyFits'
    BY <1>18 DEF Disable, Write, Goto, Return, Onward, store, loop, PoolInv, TypeOK, CallFits, WhyFits
  <2>4. TakenIsGone'
    BY <1>18 DEF Disable, Write, Goto, Return, Onward, store, loop, PoolInv, TypeOK, CallFits, TakenIsGone
  <2>5. OneSession'
    BY <1>18 DEF Disable, Write, Goto, Return, Onward, store, loop, PoolInv, TypeOK, CallFits, TakenIsGone, OneSession, Session
  <2> QED
    BY <2>1, <2>2, <2>3, <2>4, <2>5 DEF PoolInv
<1>19. ASSUME Enable PROVE PoolInv'
  <2>1. CallFits'
    BY <1>19 DEF Enable, Write, Goto, Return, Onward, store, loop, PoolInv, TypeOK, CallFits, WhyFits
  <2>2. TypeOK'
    <3>1. sess' \in [Sessions -> Session]
      BY <1>19, BoundsAssumption DEF Enable, Write, Goto, Return, Onward, store, loop, PoolInv, TypeOK, CallFits, Session
    <3>2. pc' \in [Callers -> PC]
      BY <1>19 DEF Enable, Write, Goto, Return, Onward, store, loop, PoolInv, TypeOK, PC
    <3>3. /\ view' \in [Callers -> Sessions \cup {None}]
          /\ on' \in [Callers -> Sessions \cup {None}]
      BY <1>19 DEF Enable, Write, Goto, Return, Onward, store, loop, PoolInv, TypeOK
    <3>4. /\ why' \in [Callers -> Reasons \cup {None}]
          /\ todo' \in [Callers -> SUBSET SyncReasons]
          /\ want' \in [Callers -> SUBSET SyncReasons]
      BY <1>19 DEF Enable, Write, Goto, Return, Onward, store, loop, PoolInv, TypeOK, CallFits
    <3>5. syncs' \in [Callers -> 0..2]
      BY <1>19 DEF Enable, Write, Goto, Return, Onward, store, loop, PoolInv, TypeOK, CallFits
    <3> QED
      BY <1>19, <2>1, <3>1, <3>2, <3>3, <3>4, <3>5, BoundsAssumption DEF Enable, Write, Goto, Return, Onward, store, loop, PoolInv, TypeOK, CallFits
  <2>3. WhyFits'
    BY <1>19 DEF Enable, Write, Goto, Return, Onward, store, loop, PoolInv, TypeOK, CallFits, WhyFits
  <2>4. TakenIsGone'
    BY <1>19 DEF Enable, Write, Goto, Return, Onward, store, loop, PoolInv, TypeOK, CallFits, TakenIsGone
  <2>5. OneSession'
    BY <1>19 DEF Enable, Write, Goto, Return, Onward, store, loop, PoolInv, TypeOK, CallFits, TakenIsGone, OneSession, Session
  <2> QED
    BY <2>1, <2>2, <2>3, <2>4, <2>5 DEF PoolInv
<1>20. ASSUME Delete PROVE PoolInv'
  <2>1. CallFits'
    BY <1>20 DEF Delete, Write, Goto, Return, Onward, store, loop, PoolInv, TypeOK, CallFits, WhyFits
  <2>2. TypeOK'
    <3>1. sess' \in [Sessions -> Session]
      BY <1>20, BoundsAssumption DEF Delete, Write, Goto, Return, Onward, store, loop, PoolInv, TypeOK, CallFits, Session
    <3>2. pc' \in [Callers -> PC]
      BY <1>20 DEF Delete, Write, Goto, Return, Onward, store, loop, PoolInv, TypeOK, PC
    <3>3. /\ view' \in [Callers -> Sessions \cup {None}]
          /\ on' \in [Callers -> Sessions \cup {None}]
      BY <1>20 DEF Delete, Write, Goto, Return, Onward, store, loop, PoolInv, TypeOK
    <3>4. /\ why' \in [Callers -> Reasons \cup {None}]
          /\ todo' \in [Callers -> SUBSET SyncReasons]
          /\ want' \in [Callers -> SUBSET SyncReasons]
      BY <1>20 DEF Delete, Write, Goto, Return, Onward, store, loop, PoolInv, TypeOK, CallFits
    <3>5. syncs' \in [Callers -> 0..2]
      BY <1>20 DEF Delete, Write, Goto, Return, Onward, store, loop, PoolInv, TypeOK, CallFits
    <3> QED
      BY <1>20, <2>1, <3>1, <3>2, <3>3, <3>4, <3>5, BoundsAssumption DEF Delete, Write, Goto, Return, Onward, store, loop, PoolInv, TypeOK, CallFits
  <2>3. WhyFits'
    BY <1>20 DEF Delete, Write, Goto, Return, Onward, store, loop, PoolInv, TypeOK, CallFits, WhyFits
  <2>4. TakenIsGone'
    BY <1>20 DEF Delete, Write, Goto, Return, Onward, store, loop, PoolInv, TypeOK, CallFits, TakenIsGone
  <2>5. OneSession'
    BY <1>20 DEF Delete, Write, Goto, Return, Onward, store, loop, PoolInv, TypeOK, CallFits, TakenIsGone, OneSession, Session
  <2> QED
    BY <2>1, <2>2, <2>3, <2>4, <2>5 DEF PoolInv
<1>21. ASSUME CloseNow PROVE PoolInv'
  <2>1. /\ sess' \in [Sessions -> Session] /\ \A j \in Sessions : sess'[j].closed = sess[j].closed
    <3>1. CASE live = None
      BY <1>21, <3>1 DEF CloseNow, PoolInv, TypeOK
    <3>2. CASE live # None
      <4> DEFINE t == [sess[live] EXCEPT !.refs = 0, !.holds = {}, !.linger = FALSE]
      <4>1. live \in Sessions /\ sess[live] \in Session
        BY <3>2 DEF PoolInv, TypeOK
      <4>2. t \in Session /\ t.closed = sess[live].closed
        BY <4>1, ClearedType
      <4>3. sess' = [sess EXCEPT ![live] = t]
        BY <1>21, <3>2 DEF CloseNow
      <4> HIDE DEF t
      <4> QED
        BY <4>1, <4>2, <4>3 DEF PoolInv, TypeOK
    <3> QED
      BY <3>1, <3>2
  <2>2. CallFits'
    BY <1>21, <2>1 DEF CloseNow, Goto, Return, Onward, store, loop, PoolInv, TypeOK, CallFits, WhyFits
  <2>3. TypeOK'
    <3>1. sess' \in [Sessions -> Session]
      BY <2>1
    <3>2. pc' \in [Callers -> PC]
      BY <1>21 DEF CloseNow, Goto, Return, Onward, store, loop, PoolInv, TypeOK, PC
    <3>3. /\ view' \in [Callers -> Sessions \cup {None}]
          /\ on' \in [Callers -> Sessions \cup {None}]
      BY <1>21 DEF CloseNow, Goto, Return, Onward, store, loop, PoolInv, TypeOK
    <3>4. /\ why' \in [Callers -> Reasons \cup {None}]
          /\ todo' \in [Callers -> SUBSET SyncReasons]
          /\ want' \in [Callers -> SUBSET SyncReasons]
      BY <1>21 DEF CloseNow, Goto, Return, Onward, store, loop, PoolInv, TypeOK, CallFits
    <3>5. syncs' \in [Callers -> 0..2]
      BY <1>21 DEF CloseNow, Goto, Return, Onward, store, loop, PoolInv, TypeOK, CallFits
    <3> QED
      BY <1>21, <2>2, <3>1, <3>2, <3>3, <3>4, <3>5, BoundsAssumption DEF CloseNow, Goto, Return, Onward, store, loop, PoolInv, TypeOK, CallFits
  <2>4. WhyFits'
    BY <1>21, <2>1 DEF CloseNow, Goto, Return, Onward, store, loop, PoolInv, TypeOK, CallFits, WhyFits
  <2>5. TakenIsGone'
    BY <1>21, <2>1 DEF CloseNow, Goto, Return, Onward, store, loop, PoolInv, TypeOK, CallFits, TakenIsGone
  <2>6. OneSession'
    BY <1>21, <2>1 DEF CloseNow, Goto, store, loop, PoolInv, TypeOK, CallFits, OneSession
  <2> QED
    BY <2>2, <2>3, <2>4, <2>5, <2>6 DEF PoolInv
<1>22. ASSUME CloseNowIdleOut PROVE PoolInv'
  <2>1. CallFits'
    BY <1>22 DEF CloseNowIdleOut, IdleOut, Idle, SpokenFor, Goto, Return, Onward, store, loop, PoolInv, TypeOK, CallFits, WhyFits
  <2>2. TypeOK'
    <3>1. sess' \in [Sessions -> Session]
      <4>1. CASE live = on[Admin]
        <5>1. live \in Sessions /\ Idle(sess[live]) \in Session
          BY <1>22, <4>1, IdleType DEF CloseNowIdleOut, PoolInv, TypeOK, CallFits
        <5> QED
          BY <1>22, <4>1, <5>1 DEF CloseNowIdleOut, IdleOut, PoolInv, TypeOK
      <4>2. CASE live # on[Admin]
        BY <1>22, <4>2 DEF CloseNowIdleOut, PoolInv, TypeOK
      <4> QED
        BY <4>1, <4>2
    <3>2. pc' \in [Callers -> PC]
      BY <1>22 DEF CloseNowIdleOut, IdleOut, Goto, Return, Onward, store, loop, PoolInv, TypeOK, PC
    <3>3. /\ view' \in [Callers -> Sessions \cup {None}]
          /\ on' \in [Callers -> Sessions \cup {None}]
      BY <1>22 DEF CloseNowIdleOut, IdleOut, Goto, Return, Onward, store, loop, PoolInv, TypeOK
    <3>4. /\ why' \in [Callers -> Reasons \cup {None}]
          /\ todo' \in [Callers -> SUBSET SyncReasons]
          /\ want' \in [Callers -> SUBSET SyncReasons]
      BY <1>22 DEF CloseNowIdleOut, IdleOut, Goto, Return, Onward, store, loop, PoolInv, TypeOK, CallFits
    <3>5. syncs' \in [Callers -> 0..2]
      BY <1>22 DEF CloseNowIdleOut, IdleOut, Goto, Return, Onward, store, loop, PoolInv, TypeOK, CallFits
    <3> QED
      BY <1>22, <2>1, <3>1, <3>2, <3>3, <3>4, <3>5, BoundsAssumption DEF CloseNowIdleOut, IdleOut, Goto, Return, Onward, store, loop, PoolInv, TypeOK, CallFits
  <2>3. WhyFits'
    BY <1>22 DEF CloseNowIdleOut, IdleOut, Idle, SpokenFor, Goto, Return, Onward, store, loop, PoolInv, TypeOK, CallFits, WhyFits
  <2>4. TakenIsGone'
    BY <1>22 DEF CloseNowIdleOut, IdleOut, Idle, SpokenFor, Goto, Return, Onward, store, loop, PoolInv, TypeOK, CallFits, TakenIsGone
  <2>5. OneSession'
    <3>1. CASE live = on[Admin]
      <4> DEFINE s == sess[live]
      <4>1. live \in Sessions /\ s \in Session
        BY <1>22, <3>1 DEF CloseNowIdleOut, PoolInv, TypeOK, CallFits
      <4>2. /\ sess' = [sess EXCEPT ![live] = Idle(s)]
            /\ live' = IF SpokenFor(s) THEN live ELSE None
            /\ pc[Admin] = "idleOut"
        BY <1>22, <3>1 DEF CloseNowIdleOut, IdleOut
      <4>3. CASE SpokenFor(s)
        <5>1. live' = live /\ \A j \in Sessions : sess'[j].closed = sess[j].closed
          BY <4>1, <4>2, <4>3, IdleType DEF PoolInv, TypeOK
        <5> QED
          BY <4>2, <5>1 DEF PoolInv, TypeOK, OneSession
      <4>4. CASE ~SpokenFor(s)
        <5>1. live' = None /\ sess'[live] = Idle(s) /\ \A j \in Sessions \ {live} : sess'[j] = sess[j]
          BY <4>1, <4>2, <4>4 DEF PoolInv, TypeOK
        <5>2. sess'[live].closed = TRUE
          BY <4>1, <4>4, <5>1, IdleType, ZenonT(60)
        <5> QED
          BY <4>2, <5>1, <5>2 DEF PoolInv, TypeOK, OneSession
      <4> QED
        BY <4>3, <4>4
    <3>2. CASE live # on[Admin]
      BY <1>22, <3>2 DEF CloseNowIdleOut, Goto, PoolInv, TypeOK, OneSession
    <3> QED
      BY <3>1, <3>2
  <2> QED
    BY <2>1, <2>2, <2>3, <2>4, <2>5 DEF PoolInv
<1>23. ASSUME Shutdown PROVE PoolInv'
  <2>1. CallFits'
    BY <1>23 DEF Shutdown, Goto, Return, Onward, store, loop, PoolInv, TypeOK, CallFits, WhyFits
  <2>2. TypeOK'
    <3>1. sess' \in [Sessions -> Session]
      BY <1>23, BoundsAssumption DEF Shutdown, Goto, Return, Onward, store, loop, PoolInv, TypeOK, CallFits, Session
    <3>2. pc' \in [Callers -> PC]
      BY <1>23 DEF Shutdown, Goto, Return, Onward, store, loop, PoolInv, TypeOK, PC
    <3>3. /\ view' \in [Callers -> Sessions \cup {None}]
          /\ on' \in [Callers -> Sessions \cup {None}]
      BY <1>23 DEF Shutdown, Goto, Return, Onward, store, loop, PoolInv, TypeOK
    <3>4. /\ why' \in [Callers -> Reasons \cup {None}]
          /\ todo' \in [Callers -> SUBSET SyncReasons]
          /\ want' \in [Callers -> SUBSET SyncReasons]
      BY <1>23 DEF Shutdown, Goto, Return, Onward, store, loop, PoolInv, TypeOK, CallFits
    <3>5. syncs' \in [Callers -> 0..2]
      BY <1>23 DEF Shutdown, Goto, Return, Onward, store, loop, PoolInv, TypeOK, CallFits
    <3> QED
      BY <1>23, <2>1, <3>1, <3>2, <3>3, <3>4, <3>5, BoundsAssumption DEF Shutdown, Goto, Return, Onward, store, loop, PoolInv, TypeOK, CallFits
  <2>3. WhyFits'
    BY <1>23 DEF Shutdown, Goto, Return, Onward, store, loop, PoolInv, TypeOK, CallFits, WhyFits
  <2>4. TakenIsGone'
    BY <1>23 DEF Shutdown, Goto, Return, Onward, store, loop, PoolInv, TypeOK, CallFits, TakenIsGone
  <2>5. OneSession'
    BY <1>23 DEF Shutdown, Goto, Return, Onward, store, loop, PoolInv, TypeOK, CallFits, TakenIsGone, OneSession, Session
  <2> QED
    BY <2>1, <2>2, <2>3, <2>4, <2>5 DEF PoolInv
<1>24. ASSUME ShutdownClose PROVE PoolInv'
  <2>1. CallFits'
    BY <1>24 DEF ShutdownClose, Goto, Return, Onward, store, loop, PoolInv, TypeOK, CallFits, WhyFits
  <2>2. TypeOK'
    <3>1. sess' \in [Sessions -> Session]
      <4>1. on[Admin] \in Sessions /\ sess[on[Admin]] \in Session
        BY <1>24 DEF ShutdownClose, PoolInv, TypeOK, CallFits
      <4>2. [sess[on[Admin]] EXCEPT !.closed = TRUE, !.linger = FALSE] \in Session
        BY <4>1 DEF Session
      <4> QED
        BY <1>24, <4>1, <4>2 DEF ShutdownClose, PoolInv, TypeOK
    <3>2. pc' \in [Callers -> PC]
      BY <1>24 DEF ShutdownClose, Goto, Return, Onward, store, loop, PoolInv, TypeOK, PC
    <3>3. /\ view' \in [Callers -> Sessions \cup {None}]
          /\ on' \in [Callers -> Sessions \cup {None}]
      BY <1>24 DEF ShutdownClose, Goto, Return, Onward, store, loop, PoolInv, TypeOK
    <3>4. /\ why' \in [Callers -> Reasons \cup {None}]
          /\ todo' \in [Callers -> SUBSET SyncReasons]
          /\ want' \in [Callers -> SUBSET SyncReasons]
      BY <1>24 DEF ShutdownClose, Goto, Return, Onward, store, loop, PoolInv, TypeOK, CallFits
    <3>5. syncs' \in [Callers -> 0..2]
      BY <1>24 DEF ShutdownClose, Goto, Return, Onward, store, loop, PoolInv, TypeOK, CallFits
    <3> QED
      BY <1>24, <2>1, <3>1, <3>2, <3>3, <3>4, <3>5, BoundsAssumption DEF ShutdownClose, Goto, Return, Onward, store, loop, PoolInv, TypeOK, CallFits
  <2>3. WhyFits'
    BY <1>24 DEF ShutdownClose, Goto, Return, Onward, store, loop, PoolInv, TypeOK, CallFits, WhyFits
  <2>4. TakenIsGone'
    BY <1>24 DEF ShutdownClose, Goto, Return, Onward, store, loop, PoolInv, TypeOK, CallFits, TakenIsGone
  <2>5. OneSession'
    BY <1>24 DEF ShutdownClose, Goto, Return, Onward, store, loop, PoolInv, TypeOK, CallFits, TakenIsGone, OneSession, Session
  <2> QED
    BY <2>1, <2>2, <2>3, <2>4, <2>5 DEF PoolInv
<1> QED
  BY <1>1, <1>2, <1>3, <1>4, <1>5, <1>6, <1>7, <1>8, <1>9, <1>10, <1>11, <1>12, <1>13, <1>14, <1>15, <1>16, <1>17, <1>18, <1>19, <1>20, <1>21, <1>22, <1>23, <1>24 DEF Next, Call

\* Every reachable state satisfies it.
LEMMA PoolHolds == Spec => []PoolInv
<1>1. Init => PoolInv
  BY InitPool
<1>2. PoolInv /\ [Next]_vars => PoolInv'
  BY NextPool
<1> QED
  BY <1>1, <1>2, PTL DEF Spec

\* The manager's state always has its type, and a caller is home only with its
\* call finished.
THEOREM TypeCorrect == Spec => []TypeOK
<1>1. PoolInv => TypeOK
  BY DEF PoolInv
<1> QED
  BY <1>1, PoolHolds, PTL

\* However many callers race for the router, whatever timers of its earlier
\* sessions are still on their way, one session is open: the one in m.live, or
\* the one that Shutdown has just taken out of it.
THEOREM OneSessionHolds == Spec => []OneSession
<1>1. PoolInv => OneSession
  BY DEF PoolInv
<1> QED
  BY <1>1, PoolHolds, PTL

-----------------------------------------------------------------------------
\* There are finitely many callers.
LEMMA FewCallers ==
    /\ IsFiniteSet(Watching) /\ IsFiniteSet(Retaining)
    /\ Cardinality(Watching) \in Nat /\ Cardinality(Retaining) \in Nat
<1>1. IsFiniteSet(Callers)
  <2>1. IsFiniteSet({}) /\ IsFiniteSet({} \cup {Admin}) /\ IsFiniteSet({} \cup {Admin} \cup {Timer})
    BY FS_EmptySet, FS_AddElement
  <2>2. IsFiniteSet(Viewers \cup Fleet)
    BY CallersAssumption, FS_Union
  <2>3. IsFiniteSet((Viewers \cup Fleet) \cup ({} \cup {Admin} \cup {Timer}))
    BY <2>1, <2>2, FS_Union
  <2>4. Callers = (Viewers \cup Fleet) \cup ({} \cup {Admin} \cup {Timer})
    BY DEF Callers
  <2> QED
    BY <2>3, <2>4
<1>2. Watching \subseteq Callers /\ Retaining \subseteq Callers
  BY DEF Watching, Retaining
<1>3. IsFiniteSet(Watching) /\ IsFiniteSet(Retaining)
  BY <1>1, <1>2, FS_Subset
<1> QED
  BY <1>3, FS_CardinalityType

\* Somebody comes, and somebody leaves.
LEMMA OneMore ==
    ASSUME NEW S, IsFiniteSet(S), NEW c, c \notin S
    PROVE  Cardinality(S \cup {c}) = Cardinality(S) + 1
BY FS_AddElement
LEMMA OneLess ==
    ASSUME NEW S, IsFiniteSet(S), NEW c, c \in S
    PROVE  Cardinality(S \ {c}) = Cardinality(S) - 1
BY FS_RemoveElement

\* Nobody uses the session: no websocket has it and no Retain is under way.
LEMMA NobodyThere ==
    ASSUME PoolInv, UsersFit, writes = 0, live = None
    PROVE  Watching = {} /\ Retaining = {}
BY DEF PoolInv, TypeOK, CallFits, UsersFit, Watching, Retaining

\* A step that brings nobody and takes nobody away.
LEMMA NobodyMoves ==
    ASSUME RefsCountUsers, UNCHANGED <<writes, live, Watching, Retaining>>,
           live # None => sess'[live].refs = sess[live].refs
    PROVE  RefsCountUsers'
BY DEF RefsCountUsers

\* Acquire has returned: its caller is one more user.
LEMMA AcquiredCounts ==
    ASSUME PoolInv, NEW c \in Callers, NEW r, NEW j \in Sessions, Acquired(c, r, j),
           pc[c] \in {"out", "loop", "found"}, r = None => view[c] = None
    PROVE  Cardinality(Watching') + Cardinality(Retaining')
               = Cardinality(Watching) + Cardinality(Retaining) + 1
<1> USE Names
<1>1. CASE r = None
  <2>1. Retaining' = Retaining /\ c \notin Watching
    BY <1>1 DEF Acquired, Goto, PoolInv, TypeOK, Retaining, Watching
  <2>2. Watching' = Watching \cup {c}
    BY <1>1 DEF Acquired, PoolInv, TypeOK, Watching
  <2> QED
    BY <2>1, <2>2, FewCallers, OneMore
<1>2. CASE r # None
  <2>1. Watching' = Watching /\ c \notin Retaining
    BY <1>2 DEF Acquired, PoolInv, TypeOK, Retaining, Watching
  <2>2. Retaining' = Retaining \cup {c}
    BY <1>2 DEF Acquired, Goto, PoolInv, TypeOK, Retaining
  <2> QED
    BY <2>1, <2>2, FewCallers, OneMore
<1> QED
  BY <1>1, <1>2

\* Acquire's first look: it finds the session and counts the caller, or it finds
\* none and then nobody has one.
LEMMA LookCounts ==
    ASSUME PoolInv, UsersFit, RefsCountUsers, NEW c \in Callers, NEW r, Look(c, r),
           pc[c] \in {"out", "loop"}, pc[c] = "out" => c # Admin, r = None => view[c] = None
    PROVE  UsersFit' /\ RefsCountUsers'
<1> USE Names
<1>1. CASE live = None
  <2>1. UNCHANGED <<writes, live, sess, view, on>> /\ pc' = [pc EXCEPT ![c] = "miss"]
    BY <1>1 DEF Look, store, Goto
  <2>2. UNCHANGED <<Watching, Retaining>>
    BY <2>1 DEF PoolInv, TypeOK, Watching, Retaining
  <2>3. RefsCountUsers'
    BY <1>1, <2>1 DEF RefsCountUsers
  <2>4. Admin # c \/ writes # 0
    BY DEF UsersFit
  <2>5. UsersFit'
    BY <1>1, <2>1, <2>4 DEF PoolInv, TypeOK, UsersFit
  <2> QED
    BY <2>3, <2>5
<1>2. CASE live # None
  <2>1. /\ UNCHANGED <<writes, live>> /\ live \in Sessions
        /\ Acquired(c, r, live)
        /\ sess' = [sess EXCEPT ![live] = Referenced(sess[live])]
    BY <1>2 DEF Look, store, PoolInv, TypeOK
  <2>2. sess'[live].refs = sess[live].refs + 1 /\ sess'[live].holds = sess[live].holds
    BY <2>1, ReferencedType DEF PoolInv, TypeOK
  <2>3. RefsCountUsers'
    BY <1>2, <2>1, <2>2, AcquiredCounts, FewCallers DEF RefsCountUsers
  <2>4. UsersFit'
    BY <1>2, <2>1, <2>2, Admin # c \/ writes # 0 DEF Acquired, Goto, PoolInv, TypeOK, UsersFit
  <2> QED
    BY <2>3, <2>4
<1> QED
  BY <1>1, <1>2

\* The grace timer spares a session that somebody uses: refs and holds say so.
LEMMA TimerSpares ==
    ASSUME PoolInv, UsersFit, RefsCountUsers, NEW i \in Sessions, TimerIdleOut(i)
    PROVE  UsersFit' /\ RefsCountUsers'
<1> USE Names
<1> DEFINE s == [sess[i] EXCEPT !.loose = @ - 1]
<1>1. /\ live = i /\ live \in Sessions /\ live # None /\ UNCHANGED <<on, view, writes>>
      /\ sess' = [sess EXCEPT ![i] = Idle(s)]
      /\ live' = IF SpokenFor(s) THEN live ELSE None
  BY DEF TimerIdleOut, IdleOut, store
<1>2. /\ \A d \in Callers \ {Timer} : pc'[d] = pc[d]
      /\ pc[Timer] = "out" /\ pc'[Timer] \in {"sync", "in", "out"}
  BY DEF TimerIdleOut, IdleOut, Goto, Onward, PoolInv, TypeOK
<1>3. s \in Session /\ s.refs = sess[i].refs /\ s.holds = sess[i].holds
  BY LooseType DEF TimerIdleOut, PoolInv, TypeOK
<1> HIDE DEF s
<1>4. Idle(s).refs = sess[i].refs /\ Idle(s).holds = sess[i].holds
  BY <1>3, IdleType
<1>5. UNCHANGED <<Watching, Retaining>>
  BY <1>1, <1>2 DEF PoolInv, TypeOK, Watching, Retaining
<1>6. CASE SpokenFor(s)
  <2>1. live' = live /\ sess'[live].holds = sess[live].holds /\ sess'[live].refs = sess[live].refs
    BY <1>1, <1>4, <1>6 DEF PoolInv, TypeOK
  <2>2. UsersFit'
    BY <1>1, <1>2, <2>1 DEF UsersFit
  <2>3. RefsCountUsers'
    BY <1>1, <1>5, <2>1, NobodyMoves
  <2> QED
    BY <2>2, <2>3
<1>7. CASE ~SpokenFor(s)
  <2>1. RefsCountUsers'
    BY <1>1, <1>7 DEF RefsCountUsers
  <2> SUFFICES ASSUME writes = 0 PROVE UsersFit'
    BY <1>1, <2>1 DEF UsersFit
  <2>2. Cardinality(Watching) + Cardinality(Retaining) <= 0 /\ sess[live].holds = {}
    BY <1>1, <1>3, <1>7, FewCallers DEF SpokenFor, RefsCountUsers
  <2>3. Watching = {} /\ Retaining = {}
    BY <2>2, FewCallers, FS_EmptySet
  <2>4. \A d \in Callers : view[d] = None /\ pc[d] \notin {"hold", "give"}
    BY <2>3 DEF Watching, Retaining
  <2>5. \A f \in Fleet : pc[f] # "work"
    BY <2>2 DEF UsersFit
  <2> QED
    BY <1>1, <1>2, <2>4, <2>5 DEF UsersFit
<1> QED
  BY <1>6, <1>7

\* Every step keeps them.
LEMMA NextUse ==
    ASSUME PoolInv, UsersFit, RefsCountUsers, [Next]_vars
    PROVE  UsersFit' /\ RefsCountUsers'
<1> USE Names
<1>1. CASE UNCHANGED vars
  BY <1>1 DEF vars, UsersFit, RefsCountUsers, Watching, Retaining
<1>2. ASSUME NEW c \in Callers, Select(c) PROVE UsersFit' /\ RefsCountUsers'
  <2>1. UsersFit'
    BY <1>2, LookCounts DEF Select, PoolInv, CallFits
  <2>2. RefsCountUsers'
    BY <1>2, LookCounts DEF Select, PoolInv, CallFits
  <2> QED
    BY <2>1, <2>2
<1>3. ASSUME NEW c \in Callers, Leave(c) PROVE UsersFit' /\ RefsCountUsers'
  <2>1. UsersFit'
    BY <1>3, ReleasedType DEF Leave, Goto, store, PoolInv, TypeOK, CallFits, UsersFit
  <2>2. RefsCountUsers'
    <3> SUFFICES ASSUME writes = 0, live # None
                 PROVE  sess'[live].refs = Cardinality(Watching') + Cardinality(Retaining')
      BY <1>3 DEF Leave, store, RefsCountUsers
    <3>1. c \in Watching /\ Watching' = Watching \ {c}
      BY <1>3 DEF Leave, PoolInv, TypeOK, CallFits, Watching
    <3>2. Retaining' = Retaining
      BY <1>3 DEF Leave, Goto, PoolInv, TypeOK, Retaining
    <3>3. sess'[live].refs = sess[live].refs - 1
      BY <1>3, ReleasedType DEF Leave, PoolInv
    <3> QED
      BY <3>1, <3>2, <3>3, FewCallers, OneLess DEF RefsCountUsers
  <2> QED
    BY <2>1, <2>2
<1>4. ASSUME NEW c \in Callers, FleetRetain(c) PROVE UsersFit' /\ RefsCountUsers'
  <2>1. UsersFit'
    BY <1>4, LookCounts DEF FleetRetain, PoolInv
  <2>2. RefsCountUsers'
    BY <1>4, LookCounts DEF FleetRetain, PoolInv
  <2> QED
    BY <2>1, <2>2
<1>5. ASSUME NEW c \in Callers, FleetDrop(c) PROVE UsersFit' /\ RefsCountUsers'
  <2>1. UsersFit'
    BY <1>5 DEF FleetDrop, Goto, Return, Onward, store, loop, PoolInv, TypeOK, CallFits, WhyFits, UsersFit
  <2>2. RefsCountUsers'
    <3>1. UNCHANGED <<writes, live, Watching, Retaining>>
      BY <1>5 DEF FleetDrop, Goto, Return, Onward, store, loop, PoolInv, TypeOK, CallFits, WhyFits, Watching, Retaining
    <3>2. live # None => sess'[live].refs = sess[live].refs
      BY <1>5 DEF FleetDrop
    <3> QED
      BY <3>1, <3>2, NobodyMoves
  <2> QED
    BY <2>1, <2>2
<1>6. ASSUME NEW c \in Callers, ReadRecord(c) PROVE UsersFit' /\ RefsCountUsers'
  <2>1. UsersFit'
    BY <1>6 DEF ReadRecord, Goto, Return, Onward, store, loop, PoolInv, TypeOK, CallFits, WhyFits, UsersFit
  <2>2. RefsCountUsers'
    <3>1. UNCHANGED <<writes, live, Watching, Retaining>>
      BY <1>6 DEF ReadRecord, Goto, Return, Onward, store, loop, PoolInv, TypeOK, CallFits, WhyFits, Watching, Retaining
    <3>2. live # None => sess'[live].refs = sess[live].refs
      BY <1>6 DEF ReadRecord
    <3> QED
      BY <3>1, <3>2, NobodyMoves
  <2> QED
    BY <2>1, <2>2
<1>7. ASSUME NEW c \in Callers, Build(c) PROVE UsersFit' /\ RefsCountUsers'
  <2>1. UsersFit'
    <3>1. CASE live # None
      <4>1. live \in Sessions /\ Acquired(c, why[c], live) /\ UNCHANGED <<live, writes>>
            /\ sess' = [sess EXCEPT ![live] = Referenced(sess[live])]
        BY <1>7, <3>1 DEF Build, store, PoolInv, TypeOK
      <4>2. sess'[live].holds = sess[live].holds
        BY <4>1, ReferencedType DEF PoolInv, TypeOK
      <4> QED
        BY <1>7, <4>1, <4>2 DEF Build, Acquired, Goto, PoolInv, TypeOK, UsersFit
    <3>2. CASE live = None
      <4> SUFFICES ASSUME writes = 0 PROVE UsersFit'
        BY <1>7 DEF Build, store, UsersFit
      <4>1. PICK i \in Sessions : live' = i /\ Acquired(c, why[c], i) /\ writes' = 0
        BY <1>7, <3>2 DEF Build, NewSession, store
      <4>2. Watching = {} /\ Retaining = {}
        BY <3>2, NobodyThere
      <4>3. \A f \in Fleet : pc[f] # "work"
        BY <3>2, <4>2 DEF PoolInv, TypeOK, CallFits, UsersFit
      <4>4. \A d \in Callers : view[d] = None /\ pc[d] \notin {"hold", "give"}
        BY <4>2 DEF Watching, Retaining
      <4> QED
        BY <1>7, <4>1, <4>3, <4>4 DEF Build, Acquired, Goto, PoolInv, TypeOK, UsersFit
    <3> QED
      BY <3>1, <3>2
  <2>2. RefsCountUsers'
    <3>1. pc[c] \in {"out", "loop", "found"} /\ (why[c] = None => view[c] = None) /\ writes' = writes
      BY <1>7 DEF Build, store, PoolInv, CallFits
    <3>2. CASE live # None
      <4>1. live \in Sessions /\ Acquired(c, why[c], live) /\ UNCHANGED live
            /\ sess' = [sess EXCEPT ![live] = Referenced(sess[live])]
        BY <1>7, <3>2 DEF Build, PoolInv, TypeOK
      <4>2. sess'[live].refs = sess[live].refs + 1
        BY <4>1, ReferencedType DEF PoolInv, TypeOK
      <4> QED
        BY <3>1, <3>2, <4>1, <4>2, AcquiredCounts, FewCallers DEF RefsCountUsers
    <3>3. CASE live = None
      <4> SUFFICES ASSUME writes = 0 PROVE RefsCountUsers'
        BY <3>1 DEF RefsCountUsers
      <4>1. PICK i \in Sessions : NewSession(c, i)
        BY <1>7, <3>3 DEF Build
      <4>2. live' = i /\ Acquired(c, why[c], i) /\ sess'[i].refs = 1
        BY <4>1 DEF NewSession, Gone, PoolInv, TypeOK
      <4>3. Cardinality(Watching) = 0 /\ Cardinality(Retaining) = 0
        BY <3>3, NobodyThere, FS_EmptySet
      <4>4. Cardinality(Watching') + Cardinality(Retaining') = 1
        BY <3>1, <4>2, <4>3, AcquiredCounts
      <4> QED
        BY <4>2, <4>4 DEF RefsCountUsers
    <3> QED
      BY <3>2, <3>3
  <2> QED
    BY <2>1, <2>2
<1>8. ASSUME NEW c \in Callers, SetHold(c) PROVE UsersFit' /\ RefsCountUsers'
  <2>1. UsersFit'
    BY <1>8 DEF SetHold, Goto, Return, Onward, store, loop, PoolInv, TypeOK, CallFits, WhyFits, UsersFit
  <2>2. RefsCountUsers'
    <3>1. UNCHANGED <<writes, live, Watching, Retaining>>
      BY <1>8 DEF SetHold, Goto, Return, Onward, store, loop, PoolInv, TypeOK, CallFits, WhyFits, Watching, Retaining
    <3>2. live # None => sess'[live].refs = sess[live].refs
      BY <1>8 DEF SetHold, PoolInv, TypeOK, CallFits, Session
    <3> QED
      BY <3>1, <3>2, NobodyMoves
  <2> QED
    BY <2>1, <2>2
<1>9. ASSUME NEW c \in Callers, GiveBack(c) PROVE UsersFit' /\ RefsCountUsers'
  <2>1. UsersFit'
    BY <1>9, ReleasedType DEF GiveBack, Goto, Return, Onward, store, PoolInv, TypeOK, CallFits, UsersFit
  <2>2. RefsCountUsers'
    <3> SUFFICES ASSUME writes = 0, live # None
                 PROVE  sess'[live].refs = Cardinality(Watching') + Cardinality(Retaining')
      BY <1>9 DEF GiveBack, store, RefsCountUsers
    <3>1. c \in Retaining /\ Retaining' = Retaining \ {c}
      BY <1>9 DEF GiveBack, Goto, Return, Onward, PoolInv, TypeOK, Retaining
    <3>2. Watching' = Watching
      BY <1>9 DEF GiveBack, Watching
    <3>3. sess'[live].refs = sess[live].refs - 1
      BY <1>9, ReleasedType DEF GiveBack, PoolInv
    <3> QED
      BY <3>1, <3>2, <3>3, FewCallers, OneLess DEF RefsCountUsers
  <2> QED
    BY <2>1, <2>2
<1>10. ASSUME NEW c \in Callers, DropHold(c) PROVE UsersFit' /\ RefsCountUsers'
  <2>1. UsersFit'
    BY <1>10 DEF DropHold, Goto, Return, Onward, store, loop, PoolInv, TypeOK, CallFits, WhyFits, UsersFit
  <2>2. RefsCountUsers'
    <3>1. UNCHANGED <<writes, live, Watching, Retaining>>
      BY <1>10 DEF DropHold, Goto, Return, Onward, store, loop, PoolInv, TypeOK, CallFits, WhyFits, Watching, Retaining
    <3>2. live # None => sess'[live].refs = sess[live].refs
      BY <1>10 DEF DropHold, PoolInv, TypeOK, CallFits, Session
    <3> QED
      BY <3>1, <3>2, NobodyMoves
  <2> QED
    BY <2>1, <2>2
<1>11. ASSUME NEW c \in Callers, Arm(c) PROVE UsersFit' /\ RefsCountUsers'
  <2>1. UsersFit'
    BY <1>11 DEF Arm, Goto, Return, Onward, store, loop, PoolInv, TypeOK, CallFits, WhyFits, UsersFit
  <2>2. RefsCountUsers'
    <3>1. UNCHANGED <<writes, live, Watching, Retaining>>
      BY <1>11 DEF Arm, Goto, Return, Onward, store, loop, PoolInv, TypeOK, CallFits, WhyFits, Watching, Retaining
    <3>2. live # None => sess'[live].refs = sess[live].refs
      BY <1>11 DEF Arm, PoolInv, TypeOK, CallFits, Session
    <3> QED
      BY <3>1, <3>2, NobodyMoves
  <2> QED
    BY <2>1, <2>2
<1>12. ASSUME NEW c \in Callers, SyncStart(c) PROVE UsersFit' /\ RefsCountUsers'
  <2>1. UsersFit'
    BY <1>12 DEF SyncStart, Goto, Return, Onward, store, loop, PoolInv, TypeOK, CallFits, WhyFits, UsersFit
  <2>2. RefsCountUsers'
    <3>1. UNCHANGED <<writes, live, Watching, Retaining>>
      BY <1>12 DEF SyncStart, Goto, Return, Onward, store, loop, PoolInv, TypeOK, CallFits, WhyFits, Watching, Retaining
    <3>2. live # None => sess'[live].refs = sess[live].refs
      BY <1>12 DEF SyncStart
    <3> QED
      BY <3>1, <3>2, NobodyMoves
  <2> QED
    BY <2>1, <2>2
<1>13. ASSUME NEW c \in Callers, SyncRetain(c) PROVE UsersFit' /\ RefsCountUsers'
  <2>1. UsersFit'
    <3>1. Reason(c) # None /\ pc[c] = "loop" /\ Look(c, Reason(c))
      BY <1>13 DEF SyncRetain, PoolInv, TypeOK
    <3> QED
      BY <3>1, LookCounts
  <2>2. RefsCountUsers'
    <3>1. Reason(c) # None /\ pc[c] = "loop" /\ Look(c, Reason(c))
      BY <1>13 DEF SyncRetain, PoolInv, TypeOK
    <3> QED
      BY <3>1, LookCounts
  <2> QED
    BY <2>1, <2>2
<1>14. ASSUME NEW c \in Callers, SyncDrop(c) PROVE UsersFit' /\ RefsCountUsers'
  <2>1. UsersFit'
    BY <1>14 DEF SyncDrop, Reason, Goto, Return, Onward, store, loop, PoolInv, TypeOK, CallFits, WhyFits, UsersFit
  <2>2. RefsCountUsers'
    <3>1. UNCHANGED <<writes, live, Watching, Retaining>>
      BY <1>14 DEF SyncDrop, Reason, Goto, Return, Onward, store, loop, PoolInv, TypeOK, CallFits, WhyFits, Watching, Retaining
    <3>2. live # None => sess'[live].refs = sess[live].refs
      BY <1>14 DEF SyncDrop
    <3> QED
      BY <3>1, <3>2, NobodyMoves
  <2> QED
    BY <2>1, <2>2
<1>15. ASSUME NEW i \in Sessions, Fire(i) PROVE UsersFit' /\ RefsCountUsers'
  <2>1. UsersFit'
    BY <1>15 DEF Fire, Goto, Return, Onward, store, loop, PoolInv, TypeOK, CallFits, WhyFits, UsersFit
  <2>2. RefsCountUsers'
    <3>1. UNCHANGED <<writes, live, Watching, Retaining>>
      BY <1>15 DEF Fire, Goto, Return, Onward, store, loop, PoolInv, TypeOK, CallFits, WhyFits, Watching, Retaining
    <3>2. live # None => sess'[live].refs = sess[live].refs
      BY <1>15 DEF Fire, PoolInv, TypeOK, CallFits, Session
    <3> QED
      BY <3>1, <3>2, NobodyMoves
  <2> QED
    BY <2>1, <2>2
<1>16. ASSUME NEW i \in Sessions, TimerIdleOut(i) PROVE UsersFit' /\ RefsCountUsers'
  <2>1. UsersFit'
    BY <1>16, TimerSpares
  <2>2. RefsCountUsers'
    BY <1>16, TimerSpares
  <2> QED
    BY <2>1, <2>2
<1>17. ASSUME NEW i \in Sessions, TimerIsMoot(i) PROVE UsersFit' /\ RefsCountUsers'
  <2>1. UsersFit'
    BY <1>17 DEF TimerIsMoot, Goto, Return, Onward, store, loop, PoolInv, TypeOK, CallFits, WhyFits, UsersFit
  <2>2. RefsCountUsers'
    <3>1. UNCHANGED <<writes, live, Watching, Retaining>>
      BY <1>17 DEF TimerIsMoot, Goto, Return, Onward, store, loop, PoolInv, TypeOK, CallFits, WhyFits, Watching, Retaining
    <3>2. live # None => sess'[live].refs = sess[live].refs
      BY <1>17 DEF TimerIsMoot, PoolInv, TypeOK, CallFits, Session
    <3> QED
      BY <3>1, <3>2, NobodyMoves
  <2> QED
    BY <2>1, <2>2
<1>18. ASSUME Disable PROVE UsersFit' /\ RefsCountUsers'
  <2>1. UsersFit'
    BY <1>18 DEF Disable, Write, PoolInv, TypeOK, UsersFit
  <2>2. RefsCountUsers'
    BY <1>18 DEF Disable, Write, PoolInv, TypeOK, RefsCountUsers
  <2> QED
    BY <2>1, <2>2
<1>19. ASSUME Enable PROVE UsersFit' /\ RefsCountUsers'
  <2>1. UsersFit'
    BY <1>19 DEF Enable, Write, PoolInv, TypeOK, UsersFit
  <2>2. RefsCountUsers'
    BY <1>19 DEF Enable, Write, PoolInv, TypeOK, RefsCountUsers
  <2> QED
    BY <2>1, <2>2
<1>20. ASSUME Delete PROVE UsersFit' /\ RefsCountUsers'
  <2>1. UsersFit'
    BY <1>20 DEF Delete, Write, PoolInv, TypeOK, UsersFit
  <2>2. RefsCountUsers'
    BY <1>20 DEF Delete, Write, PoolInv, TypeOK, RefsCountUsers
  <2> QED
    BY <2>1, <2>2
<1>21. ASSUME CloseNow PROVE UsersFit' /\ RefsCountUsers'
  <2>1. UsersFit'
    BY <1>21 DEF CloseNow, store, UsersFit
  <2>2. RefsCountUsers'
    BY <1>21 DEF CloseNow, store, UsersFit, RefsCountUsers
  <2> QED
    BY <2>1, <2>2
<1>22. ASSUME CloseNowIdleOut PROVE UsersFit' /\ RefsCountUsers'
  <2>1. UsersFit'
    BY <1>22 DEF CloseNowIdleOut, store, UsersFit
  <2>2. RefsCountUsers'
    BY <1>22 DEF CloseNowIdleOut, store, UsersFit, RefsCountUsers
  <2> QED
    BY <2>1, <2>2
<1>23. ASSUME Shutdown PROVE UsersFit' /\ RefsCountUsers'
  <2>1. UsersFit'
    BY <1>23 DEF Shutdown, PoolInv, TypeOK, UsersFit
  <2>2. RefsCountUsers'
    BY <1>23 DEF Shutdown, PoolInv, TypeOK, RefsCountUsers
  <2> QED
    BY <2>1, <2>2
<1>24. ASSUME ShutdownClose PROVE UsersFit' /\ RefsCountUsers'
  <2>1. UsersFit'
    BY <1>24 DEF ShutdownClose, store, UsersFit
  <2>2. RefsCountUsers'
    BY <1>24 DEF ShutdownClose, store, UsersFit, RefsCountUsers
  <2> QED
    BY <2>1, <2>2
<1> QED
  BY <1>1, <1>2, <1>3, <1>4, <1>5, <1>6, <1>7, <1>8, <1>9, <1>10, <1>11, <1>12, <1>13, <1>14, <1>15, <1>16, <1>17, <1>18, <1>19, <1>20, <1>21, <1>22, <1>23, <1>24 DEF Next, Call

\* Every reachable state satisfies it.
LEMMA UseHolds == Spec => []UseInv
<1>1. Init => UseInv
  BY InitPool, Names DEF Init, UseInv, UsersFit, RefsCountUsers
<1>2. UseInv /\ [Next]_vars => UseInv'
  BY NextPool, NextUse DEF UseInv
<1> QED
  BY <1>1, <1>2, PTL DEF Spec

\* Until an operator disables, deletes or shuts down, no timer takes the session
\* from a websocket that has it or from a fleet call that works on it.
THEOREM UsedSessionStaysHolds == Spec => []UsedSessionStays
<1>1. UseInv => UsedSessionStays
  BY Names DEF UseInv, UsersFit, UsedSessionStays
<1> QED
  BY <1>1, UseHolds, PTL

\* Until then refs is the number of websockets with the session and of Retains
\* between their Acquire and their Release: no reference leaks, none is given
\* back twice.
THEOREM RefsCountViewersHolds == Spec => []RefsCountViewers
<1>1. UseInv => RefsCountViewers
  <2> SUFFICES ASSUME UseInv, writes = 0, live # None
               PROVE  sess[live].refs = Cardinality({c \in Callers : view[c] = live})
                        + Cardinality({c \in Callers : pc[c] \in {"hold", "give"} /\ on[c] = live})
    BY DEF RefsCountViewers
  <2>1. {c \in Callers : view[c] = live} = Watching
    BY DEF UseInv, UsersFit, Watching
  <2>2. {c \in Callers : pc[c] \in {"hold", "give"} /\ on[c] = live} = Retaining
    BY DEF UseInv, UsersFit, Retaining
  <2> QED
    BY <2>1, <2>2 DEF UseInv, RefsCountUsers
<1> QED
  BY <1>1, UseHolds, PTL

-----------------------------------------------------------------------------
(* dormancy.State: what its methods return *)

\* The options, and the bounds of the model, as numbers.
LEMMA DemandNumbers ==
    /\ EmptyThreshold \in Nat /\ EmptyThreshold > 0 /\ Backoff \in Nat /\ Backoff > 0
    /\ MaxBackoff \in Nat /\ Backoff <= MaxBackoff /\ ProbeTimeout \in Nat /\ ProbeTimeout > 0
    /\ Restamp \in Nat /\ MaxTime \in Nat /\ MaxTime > 0 /\ MaxTimers \in Nat /\ MaxBlurs \in Nat
BY OptionsAssumption, DemandBounds

\* What a state is made of.
LEMMA StateFields ==
    ASSUME NEW s \in States
    PROVE  /\ s.streak \in Nat /\ s.streak < EmptyThreshold
           /\ s.dormant \in BOOLEAN /\ s.probing \in BOOLEAN
           /\ s.lastTS \in Stamps \cup {0}
           /\ s.wakeAt \in Nat /\ s.wakeAt <= MaxTime + MaxBackoff
           /\ s.probeDeadline \in Nat /\ s.probeDeadline <= MaxTime + ProbeTimeout
           /\ s.lastCountedAt \in Nat /\ s.lastCountedAt <= MaxTime
           /\ s.delay \in Nat /\ Backoff <= s.delay /\ s.delay <= MaxBackoff
BY DemandNumbers DEF States

\* backOff: the delay grows and stays within the options.
LEMMA BackOffValue ==
    ASSUME NEW s \in States, NEW t \in 0 .. MaxTime
    PROVE  /\ BackOff(s, t) \in States
           /\ ~BackOff(s, t).probing /\ BackOff(s, t).dormant = s.dormant
           /\ BackOff(s, t).wakeAt = t + BackOff(s, t).delay
           /\ BackOff(s, t).streak = s.streak /\ BackOff(s, t).lastTS = s.lastTS
           /\ BackOff(s, t).lastCountedAt = s.lastCountedAt
           /\ BackOff(s, t).probeDeadline = s.probeDeadline
<1> DEFINE d == IF 2 * s.delay < MaxBackoff THEN 2 * s.delay ELSE MaxBackoff
<1>1. d \in Backoff .. MaxBackoff /\ t + d \in 0 .. MaxTime + MaxBackoff
  BY StateFields, DemandNumbers
<1>2. BackOff(s, t) = [s EXCEPT !.probing = FALSE, !.delay = d, !.wakeAt = t + d]
  BY DEF BackOff
<1> HIDE DEF d
<1> QED
  BY <1>1, <1>2 DEF States

\* sleepFor: asleep until the delay is over, whatever the streak was.
Counting ==
    [streak : Nat, dormant : BOOLEAN, probing : BOOLEAN,
     lastTS : Stamps \cup {0}, wakeAt : 0 .. MaxTime + MaxBackoff,
     probeDeadline : 0 .. MaxTime + ProbeTimeout,
     lastCountedAt : 0 .. MaxTime, delay : Backoff .. MaxBackoff]

LEMMA SleepForValue ==
    ASSUME NEW s \in Counting, NEW t \in 0 .. MaxTime, NEW d \in Backoff .. MaxBackoff
    PROVE  /\ SleepFor(s, d, t) \in States
           /\ SleepFor(s, d, t).dormant /\ SleepFor(s, d, t).probing = s.probing
           /\ SleepFor(s, d, t).wakeAt = t + d /\ SleepFor(s, d, t).delay = d
           /\ SleepFor(s, d, t).lastTS = s.lastTS
           /\ SleepFor(s, d, t).lastCountedAt = s.lastCountedAt
           /\ SleepFor(s, d, t).probeDeadline = s.probeDeadline
<1>1. t + d \in 0 .. MaxTime + MaxBackoff /\ d \in Nat /\ 0 \in 0 .. EmptyThreshold - 1
  BY DemandNumbers
<1> QED
  BY <1>1, DemandNumbers DEF States, Counting, SleepFor

\* An observation that is no evidence changes nothing.
LEMMA ObserveNothing ==
    ASSUME NEW s, NEW p, NEW t, p.ts = 0 \/ ~Counts(s, p, t)
    PROVE  Observe(s, p, t) = s
BY Zenon DEF Observe

\* Rows wake the collector and end its streak.
LEMMA ObserveRows ==
    ASSUME NEW s \in States, NEW p \in Payloads, NEW t \in 0 .. MaxTime,
           p.ts # 0, Counts(s, p, t), ~Bad(p)
    PROVE  /\ Observe(s, p, t) \in States
           /\ ~Observe(s, p, t).dormant /\ ~Observe(s, p, t).probing
           /\ Observe(s, p, t).streak = 0
           /\ Observe(s, p, t).lastTS = p.ts /\ Observe(s, p, t).lastCountedAt = t
<1> DEFINE seen == [s EXCEPT !.lastTS = p.ts, !.lastCountedAt = t]
<1>1. Observe(s, p, t) = [seen EXCEPT !.streak = 0, !.delay = Backoff, !.probing = FALSE,
                             !.dormant = FALSE, !.wakeAt = IF s.dormant THEN 0 ELSE @]
  BY Zenon DEF Observe
<1> DEFINE w == IF s.dormant THEN 0 ELSE s.wakeAt
<1>2. /\ p.ts \in Stamps \cup {0} /\ 0 \in 0 .. EmptyThreshold - 1
      /\ Backoff \in Backoff .. MaxBackoff /\ w \in 0 .. MaxTime + MaxBackoff
  BY DemandNumbers DEF Payloads, States
<1>3. Observe(s, p, t) =
        [s EXCEPT !.lastTS = p.ts, !.lastCountedAt = t, !.streak = 0, !.delay = Backoff,
                  !.probing = FALSE, !.dormant = FALSE, !.wakeAt = w]
  BY <1>1 DEF States
<1> HIDE DEF w
<1> QED
  BY <1>2, <1>3 DEF States

\* A probe that finds nothing puts the next one off.
LEMMA ObserveAsleep ==
    ASSUME NEW s \in States, NEW p \in Payloads, NEW t \in 0 .. MaxTime,
           p.ts # 0, Counts(s, p, t), Bad(p), s.dormant
    PROVE  /\ Observe(s, p, t) \in States
           /\ Observe(s, p, t).dormant /\ ~Observe(s, p, t).probing
           /\ Observe(s, p, t).wakeAt = t + Observe(s, p, t).delay
           /\ Observe(s, p, t).streak = s.streak
           /\ Observe(s, p, t).lastTS = p.ts /\ Observe(s, p, t).lastCountedAt = t
<1> DEFINE seen == [s EXCEPT !.lastTS = p.ts, !.lastCountedAt = t]
<1>1. Observe(s, p, t) = BackOff(seen, t)
  BY Zenon DEF Observe
<1>2. seen \in States /\ seen.dormant = s.dormant /\ seen.streak = s.streak
      /\ seen.lastTS = p.ts /\ seen.lastCountedAt = t
  BY DEF States, Payloads
<1> HIDE DEF seen
<1>3. /\ BackOff(seen, t) \in States
      /\ ~BackOff(seen, t).probing /\ BackOff(seen, t).dormant = seen.dormant
      /\ BackOff(seen, t).wakeAt = t + BackOff(seen, t).delay
      /\ BackOff(seen, t).streak = seen.streak /\ BackOff(seen, t).lastTS = seen.lastTS
      /\ BackOff(seen, t).lastCountedAt = seen.lastCountedAt
  BY <1>2, BackOffValue, Zenon
<1> QED
  BY <1>1, <1>2, <1>3, Zenon

\* A reading that found nothing is counted, and condemns at the threshold; one
\* of a menu that is not there condemns at once.
LEMMA ObserveBad ==
    ASSUME NEW s \in States, NEW p \in Payloads, NEW t \in 0 .. MaxTime,
           p.ts # 0, Counts(s, p, t), Bad(p), ~s.dormant
    PROVE  /\ Observe(s, p, t) \in States
           /\ Observe(s, p, t).probing = s.probing
           /\ Observe(s, p, t).probeDeadline = s.probeDeadline
           /\ Observe(s, p, t).lastTS = p.ts /\ Observe(s, p, t).lastCountedAt = t
           /\ \/ /\ Observe(s, p, t).dormant
                 /\ Observe(s, p, t).wakeAt = t + Observe(s, p, t).delay
                 /\ p.holds = "nothing supported" \/ s.streak + 1 = EmptyThreshold
              \/ /\ ~Observe(s, p, t).dormant /\ p.holds = "nothing"
                 /\ Observe(s, p, t).streak = s.streak + 1
<1> DEFINE seen == [s EXCEPT !.lastTS = p.ts, !.lastCountedAt = t]
           more == [seen EXCEPT !.streak = @ + 1]
<1>0. p.ts \in Stamps \cup {0} /\ p.holds \in {"nothing", "nothing supported"}
  BY DEF Payloads, Holds, Bad
<1>1. s.streak \in Nat /\ s.streak < EmptyThreshold /\ s.streak + 1 \in Nat /\ EmptyThreshold \in Nat
  BY StateFields, DemandNumbers
<1>2. /\ seen \in Counting /\ seen.probing = s.probing
      /\ seen.probeDeadline = s.probeDeadline
      /\ seen.lastTS = p.ts /\ seen.lastCountedAt = t
  BY <1>0, <1>1 DEF States, Counting
<1>3. CASE p.holds = "nothing supported"
  <2>1. Observe(s, p, t) = SleepFor(seen, MaxBackoff, t)
    BY <1>3, Zenon DEF Observe
  <2>2. MaxBackoff \in Backoff .. MaxBackoff
    BY DemandNumbers
  <2> HIDE DEF seen
  <2> DEFINE o == SleepFor(seen, MaxBackoff, t)
  <2>3. /\ o \in States /\ o.dormant /\ o.probing = seen.probing
        /\ o.wakeAt = t + MaxBackoff /\ o.delay = MaxBackoff
        /\ o.lastTS = seen.lastTS /\ o.lastCountedAt = seen.lastCountedAt
        /\ o.probeDeadline = seen.probeDeadline
    BY <1>2, <2>2, SleepForValue
  <2> HIDE DEF o
  <2> QED
    BY <1>2, <1>3, <2>1, <2>3, Zenon DEF o
<1>4. CASE p.holds = "nothing"
  <2>0. p.holds # "nothing supported"
    BY <1>4
  <2>1. Observe(s, p, t) = IF more.streak < EmptyThreshold THEN more ELSE SleepFor(more, Backoff, t)
    BY <1>4, <2>0, Zenon DEF Observe
  <2>2. /\ more = [s EXCEPT !.lastTS = p.ts, !.lastCountedAt = t, !.streak = s.streak + 1]
        /\ more.streak = s.streak + 1
    BY <1>0, <1>1 DEF States
  <2> HIDE DEF seen, more
  <2>3. /\ more \in Counting /\ more.probing = s.probing
        /\ more.probeDeadline = s.probeDeadline
        /\ more.lastTS = p.ts /\ more.lastCountedAt = t /\ ~more.dormant
    BY <1>0, <1>1, <2>2 DEF States, Counting
  <2>4. CASE s.streak + 1 < EmptyThreshold
    <3>1. Observe(s, p, t) = more
      BY <2>1, <2>2, <2>4
    <3>2. s.streak + 1 \in 0 .. EmptyThreshold - 1
      BY <1>1, <2>4
    <3>3. more \in States
      BY <1>0, <2>2, <3>2 DEF States
    <3> QED
      BY <1>4, <2>2, <2>3, <3>1, <3>3, Zenon
  <2>5. CASE ~(s.streak + 1 < EmptyThreshold)
    <3>1. Observe(s, p, t) = SleepFor(more, Backoff, t)
      BY <2>1, <2>2, <2>5
    <3>2. s.streak + 1 = EmptyThreshold
      BY <1>1, <2>5
    <3>3. Backoff \in Backoff .. MaxBackoff
      BY DemandNumbers
    <3> DEFINE o == SleepFor(more, Backoff, t)
    <3>4. /\ o \in States /\ o.dormant /\ o.probing = more.probing
          /\ o.wakeAt = t + Backoff /\ o.delay = Backoff
          /\ o.lastTS = more.lastTS /\ o.lastCountedAt = more.lastCountedAt
          /\ o.probeDeadline = more.probeDeadline
      BY <2>3, <3>3, SleepForValue
    <3> HIDE DEF o
    <3> QED
      BY <2>3, <3>1, <3>2, <3>4, Zenon DEF o
  <2> QED
    BY <2>4, <2>5
<1> QED
  BY <1>0, <1>3, <1>4

\* An observation keeps a state a state.
LEMMA ObserveType ==
    ASSUME NEW s \in States, NEW p \in Payloads, NEW t \in 0 .. MaxTime
    PROVE  Observe(s, p, t) \in States
<1>1. CASE p.ts = 0 \/ ~Counts(s, p, t)
  BY <1>1, ObserveNothing
<1>2. CASE p.ts # 0 /\ Counts(s, p, t) /\ ~Bad(p)
  BY <1>2, ObserveRows
<1>3. CASE p.ts # 0 /\ Counts(s, p, t) /\ Bad(p) /\ s.dormant
  BY <1>3, ObserveAsleep
<1>4. CASE p.ts # 0 /\ Counts(s, p, t) /\ Bad(p) /\ ~s.dormant
  BY <1>4, ObserveBad
<1> QED
  BY <1>1, <1>2, <1>3, <1>4

\* A probe marked, and one settled.
LEMMA MarkProbedValue ==
    ASSUME NEW s \in States, NEW t \in 0 .. MaxTime
    PROVE  /\ MarkProbed(s, t) \in States
           /\ MarkProbed(s, t).probing /\ MarkProbed(s, t).dormant = s.dormant
           /\ MarkProbed(s, t).probeDeadline = t + ProbeTimeout
           /\ MarkProbed(s, t).wakeAt = s.wakeAt /\ MarkProbed(s, t).streak = s.streak
           /\ MarkProbed(s, t).lastTS = s.lastTS /\ MarkProbed(s, t).lastCountedAt = s.lastCountedAt
<1>1. t + ProbeTimeout \in 0 .. MaxTime + ProbeTimeout
  BY DemandNumbers
<1> QED
  BY <1>1 DEF States, MarkProbed

\* The state of a collector that has just started is one.
LEMMA AwakeType ==
    /\ Awake \in States /\ ~Awake.dormant /\ ~Awake.probing
    /\ Awake.streak = 0 /\ Awake.lastTS = 0 /\ Awake.lastCountedAt = 0
BY DemandNumbers DEF Awake, States, Stamps

-----------------------------------------------------------------------------
(* The types *)

\* The goroutines are different, and each has its places.
LEMMA PlacesOf ==
    /\ Judge \in actors /\ Loop \in actors /\ Judge # Loop
    /\ Judge \notin Sockets /\ Loop \notin Sockets /\ Sockets \subseteq actors
    /\ Places(Judge) = InFunnel \cup {"tick", "suspend", "look"}
    /\ Places(Loop) = InFunnel \cup {"dialling", "replay", "reset", "reprobe", "restart", "stop"}
    /\ \A v \in Sockets : Places(v) = InFunnel \cup {"demand"}
    /\ \A x \in actors : x = Judge \/ x = Loop \/ x \in Sockets
<1>1. /\ Judge \in actors /\ Loop \in actors /\ Judge # Loop
      /\ Judge \notin Sockets /\ Loop \notin Sockets /\ Sockets \subseteq actors
      /\ \A x \in actors : x = Judge \/ x = Loop \/ x \in Sockets
  BY ActorsAssumption DEF actors
<1>2. Places(Judge) = InFunnel \cup {"tick", "suspend", "look"}
  BY <1>1 DEF Places
<1>3. Places(Loop) = InFunnel \cup {"dialling", "replay", "reset", "reprobe", "restart", "stop"}
  BY <1>1 DEF Places
<1>4. ASSUME NEW v \in Sockets PROVE Places(v) = InFunnel \cup {"demand"}
  BY <1>1 DEF Places
<1> QED
  BY <1>1, <1>2, <1>3, <1>4

\* The part of the types that is about places, and the rest of them.
PlacesOK ==
    /\ where \in [actors -> UNION {Places(x) : x \in actors}]
    /\ \A x \in actors : where[x] \in Places(x)

\* A goroutine that moves to one of its places leaves the others where they are.
LEMMA MovesEffect ==
    ASSUME PlacesOK, NEW x \in actors, NEW l, l \in Places(x), Moves(x, l)
    PROVE  /\ PlacesOK' /\ where'[x] = l
           /\ \A y \in actors : y # x => where'[y] = where[y]
<1>1. where' = [where EXCEPT ![x] = l]
  BY DEF Moves
<1>2. l \in UNION {Places(y) : y \in actors}
  OBVIOUS
<1>3. where' \in [actors -> UNION {Places(y) : y \in actors}]
  BY <1>1, <1>2 DEF PlacesOK
<1>4. \A y \in actors : where'[y] = IF y = x THEN l ELSE where[y]
  BY <1>1 DEF PlacesOK
<1> QED
  BY <1>3, <1>4 DEF PlacesOK

\* Where a goroutine goes after a reading.
LEMMA ProbeGoes ==
    ASSUME PlacesOK, NEW x \in actors, where[x] \in DOMAIN After
    PROVE  /\ After[where[x]] \in Places(x)
           /\ \/ where[x] = "probe" /\ After[where[x]] = "start"
              \/ where[x] = "look" /\ x = Judge /\ After[where[x]] = "idle"
              \/ where[x] = "reprobe" /\ x = Loop /\ After[where[x]] = "restart"
<1>1. DOMAIN After = {"probe", "look", "reprobe"}
  BY DEF After
<1>2. After["probe"] = "start" /\ After["look"] = "idle" /\ After["reprobe"] = "restart"
  BY DEF After
<1>3. where[x] \in Places(x)
  BY DEF PlacesOK
<1>4. \A v \in Sockets : "look" \notin Places(v) /\ "reprobe" \notin Places(v)
  BY PlacesOf DEF InFunnel
<1>5. "look" \notin Places(Loop) /\ "reprobe" \notin Places(Judge) /\ "restart" \in Places(Loop)
  BY PlacesOf DEF InFunnel
<1>6. "idle" \in Places(x) /\ "start" \in Places(x)
  BY PlacesOf DEF InFunnel
<1> QED
  BY <1>1, <1>2, <1>3, <1>4, <1>5, <1>6, PlacesOf

\* There is always a timestamp that was not seen.
LEMMA FreshStampIsNew ==
    FreshStamp \in Stamps /\ FreshStamp \notin {payload.ts, obs.ts, st.lastTS} /\ FreshStamp # 0
<1>1. \E ts \in 1 .. 4 : ts \notin {payload.ts, obs.ts, st.lastTS}
  OBVIOUS
<1>2. FreshStamp \in Stamps /\ FreshStamp \notin {payload.ts, obs.ts, st.lastTS}
  BY <1>1 DEF FreshStamp, Stamps
<1> QED
  BY <1>2 DEF Stamps

\* What a reading leaves.
LEMMA ReadEffect ==
    ASSUME DemandTypeOK, Read
    PROVE  /\ payload' \in Payloads /\ asked' \in 1 .. MaxTime
           /\ \/ /\ asked' = asked /\ payload'.ts \notin {0, payload.ts, obs.ts, st.lastTS}
                 /\ payload'.holds = menu
              \/ asked' = now /\ payload' = payload
<1>1. CASE payload' = Payload(FreshStamp, menu) /\ UNCHANGED asked
  <2>1. payload'.ts = FreshStamp /\ payload'.holds = menu
    BY <1>1 DEF Payload
  <2>2. payload' \in Payloads
    <3>1. menu \in Holds
      BY MenuAssumption DEF DemandTypeOK, Holds
    <3> QED
      BY <1>1, <3>1, FreshStampIsNew DEF Payload, Payloads
  <2> QED
    BY <1>1, <2>1, <2>2, FreshStampIsNew DEF DemandTypeOK
<1>2. CASE asked' = now /\ UNCHANGED payload
  BY <1>2 DEF DemandTypeOK
<1> QED
  BY <1>1, <1>2 DEF Read

\* The parts of a judgement, by name.
LEMMA JudgedType ==
    ASSUME DemandTypeOK
    PROVE  Judged \in States /\ judgedAt \in 0 .. MaxTime /\ judgedAt \in Nat
<1>1. st \in States /\ obs \in Payloads /\ judgedAt \in 0 .. MaxTime
  BY DEF DemandTypeOK
<1> QED
  BY <1>1, ObserveType DEF Judged

\* What the judge makes of the state, beyond what the observation does: a probe
\* is marked, or a lost one is settled, or neither.
LEMMA JudgedEffect ==
    ASSUME DemandTypeOK, Tick, connected
    PROVE  /\ st' \in States /\ st'.dormant = Judged.dormant /\ st'.streak = Judged.streak
           /\ st'.lastTS = Judged.lastTS /\ st'.lastCountedAt = Judged.lastCountedAt
           /\ \/ /\ Judged.dormant /\ ~Judged.probing /\ judgedAt >= Judged.wakeAt
                 /\ st'.probing /\ st'.probeDeadline = judgedAt + ProbeTimeout /\ st'.wakeAt = Judged.wakeAt
              \/ /\ Judged.dormant /\ Judged.probing /\ judgedAt >= Judged.probeDeadline
                 /\ ~st'.probing /\ st'.wakeAt = judgedAt + st'.delay
              \/ /\ st' = Judged
                 /\ Judged.dormant /\ ~Judged.probing => ~(judgedAt >= Judged.wakeAt)
                 /\ Judged.dormant /\ Judged.probing => ~(judgedAt >= Judged.probeDeadline)
<1>1. Judged \in States /\ judgedAt \in 0 .. MaxTime
  BY JudgedType
<1>2. st' = IF DueForProbe(Judged, judgedAt) THEN MarkProbed(Judged, judgedAt)
            ELSE Settled(Judged, judgedAt)
  BY DEF Tick
<1>3. CASE DueForProbe(Judged, judgedAt)
  <2>1. st' = MarkProbed(Judged, judgedAt)
    BY <1>2, <1>3, Zenon
  <2>2. Judged.dormant /\ ~Judged.probing /\ judgedAt >= Judged.wakeAt
    BY <1>3, Zenon DEF DueForProbe
  <2> QED
    BY <1>1, <2>1, <2>2, MarkProbedValue, Zenon
<1>4. CASE ~DueForProbe(Judged, judgedAt) /\ Judged.dormant /\ Judged.probing /\ judgedAt >= Judged.probeDeadline
  <2>1. st' = BackOff(Judged, judgedAt)
    BY <1>2, <1>4, Zenon DEF Settled
  <2> QED
    BY <1>1, <1>4, <2>1, BackOffValue, Zenon
<1>5. CASE ~DueForProbe(Judged, judgedAt) /\ ~(Judged.dormant /\ Judged.probing /\ judgedAt >= Judged.probeDeadline)
  <2>1. st' = Judged
    BY <1>2, <1>5, Zenon DEF Settled
  <2>2. Judged.dormant /\ ~Judged.probing => ~(judgedAt >= Judged.wakeAt)
    BY <1>5, Zenon DEF DueForProbe
  <2> QED
    BY <1>1, <1>5, <2>1, <2>2, Zenon
<1> QED
  BY <1>3, <1>4, <1>5

\* A spell keeps its type.
LEMMA SpellType ==
    ASSUME DemandTypeOK
    PROVE  /\ \A b \in BOOLEAN : NoSpell(b) \in [from : 0 .. MaxTime, readings : Nat, slept : BOOLEAN]
           /\ Spelled \in [from : 0 .. MaxTime, readings : Nat, slept : BOOLEAN]
           /\ Spelled.slept = spell.slept /\ spell.slept \in BOOLEAN
<1>0. spell \in [from : 0 .. MaxTime, readings : Nat, slept : BOOLEAN] /\ judgedAt \in 0 .. MaxTime
  BY DEF DemandTypeOK
<1>1. \A b \in BOOLEAN : NoSpell(b) \in [from : 0 .. MaxTime, readings : Nat, slept : BOOLEAN] /\ NoSpell(b).slept = b
  BY DemandNumbers DEF NoSpell
<1>2. spell.slept \in BOOLEAN
  BY <1>0
<1>3. CASE obs.ts = 0
  <2>1. Spelled = spell
    BY <1>3, Zenon DEF Spelled
  <2> QED
    BY <1>0, <1>1, <1>2, <2>1, Zenon
<1>4. CASE obs.ts # 0 /\ ~Bad(obs)
  <2>1. Spelled = NoSpell(spell.slept)
    BY <1>4, Zenon DEF Spelled
  <2> QED
    BY <1>1, <1>2, <2>1, Zenon
<1>5. CASE obs.ts # 0 /\ Bad(obs)
  <2>1. Spelled = [spell EXCEPT !.from = IF @ = 0 THEN judgedAt ELSE @,
                                !.readings = @ + IF obs.ts # st.lastTS THEN 1 ELSE 0]
    BY <1>5, Zenon DEF Spelled
  <2> DEFINE a == IF spell.from = 0 THEN judgedAt ELSE spell.from
             b == spell.readings + IF obs.ts # st.lastTS THEN 1 ELSE 0
  <2>a. Spelled = [spell EXCEPT !.from = a, !.readings = b]
    BY <1>0, <2>1
  <2>b. a \in 0 .. MaxTime /\ b \in Nat
    BY <1>0
  <2> HIDE DEF a, b
  <2>2. Spelled \in [from : 0 .. MaxTime, readings : Nat, slept : BOOLEAN] /\ Spelled.slept = spell.slept
    BY <1>0, <2>a, <2>b
  <2> QED
    BY <1>1, <1>2, <2>2, Zenon
<1> QED
  BY <1>3, <1>4, <1>5

\* The types hold initially.
LEMMA DemandTypeInit == DemandInit => DemandTypeOK
<1> SUFFICES ASSUME DemandInit PROVE DemandTypeOK
  OBVIOUS
<1>1. connected \in BOOLEAN /\ first \in BOOLEAN /\ pending \in BOOLEAN /\ running \in BOOLEAN
  BY Zenon DEF DemandInit
<1>2. payload \in Payloads /\ obs \in Payloads
  BY DEF DemandInit, NoPayload, Payload, Payloads, Stamps, Holds
<1>3. st \in States
  BY AwakeType DEF DemandInit
<1>4. PlacesOK
  <2>1. \A x \in actors : where[x] \in Places(x)
    BY PlacesOf DEF DemandInit, InFunnel
  <2>2. \A x \in actors : where[x] \in UNION {Places(y) : y \in actors}
    BY <2>1, Zenon
  <2> QED
    BY <2>1, <2>2 DEF DemandInit, PlacesOK
<1>5. spell \in [from : 0 .. MaxTime, readings : Nat, slept : BOOLEAN]
  BY DemandNumbers DEF DemandInit, NoSpell
<1>6. now \in 1 .. MaxTime /\ menu \in MenuStates /\ room \subseteq Sockets
  BY DemandNumbers DEF DemandInit
<1>7. armed \in 0 .. MaxTimers /\ leaving \in 0 .. armed /\ judgedAt \in 0 .. MaxTime /\ asked \in 1 .. MaxTime /\ blurs \in 0 .. MaxBlurs
  BY DemandNumbers DEF DemandInit
<1> QED
  BY <1>1, <1>2, <1>3, <1>4, <1>5, <1>6, <1>7 DEF DemandTypeOK, PlacesOK

\* The rest of the types.
RestOK ==
    /\ now \in 1 .. MaxTime /\ menu \in MenuStates /\ room \subseteq Sockets
    /\ connected \in BOOLEAN /\ first \in BOOLEAN /\ pending \in BOOLEAN /\ running \in BOOLEAN
    /\ payload \in Payloads /\ obs \in Payloads /\ st \in States
    /\ armed \in 0 .. MaxTimers /\ leaving \in 0 .. armed
    /\ judgedAt \in 0 .. MaxTime /\ asked \in 1 .. MaxTime
    /\ spell \in [from : 0 .. MaxTime, readings : Nat, slept : BOOLEAN]
    /\ blurs \in 0 .. MaxBlurs

LEMMA TypeParts == DemandTypeOK <=> PlacesOK /\ RestOK
BY DEF DemandTypeOK, PlacesOK, RestOK

\* Every step moves the goroutines from one of their places to another.
LEMMA PlacesNext == PlacesOK /\ [DemandNext]_demandVars => PlacesOK'
<1> SUFFICES ASSUME PlacesOK, [DemandNext]_demandVars PROVE PlacesOK'
  OBVIOUS
<1>0. /\ InFunnel = {"idle", "resume", "latch", "asleep?", "wake", "probe", "start"}
      /\ \A x \in actors : InFunnel \subseteq Places(x)
  BY PlacesOf DEF InFunnel
<1>1. CASE UNCHANGED where
  BY <1>1 DEF PlacesOK
<1>2. ASSUME NEW v \in Sockets, Focus(v) \/ Blur(v) \/ ApplyDemand(v) PROVE PlacesOK'
  <2>1. v \in actors /\ "demand" \in Places(v) /\ "resume" \in Places(v) /\ "idle" \in Places(v)
    BY <1>0, PlacesOf
  <2>2. Moves(v, "demand") \/ Moves(v, "resume") \/ Moves(v, "idle")
    BY <1>2 DEF Focus, Blur, ApplyDemand
  <2> QED
    BY <2>1, <2>2, MovesEffect
<1>3. ASSUME NEW x \in actors, Funnel(x) PROVE PlacesOK'
  <2>1. \/ \E l \in InFunnel : Moves(x, l)
        \/ where[x] \in DOMAIN After /\ Moves(x, After[where[x]])
    BY <1>0, <1>3 DEF Funnel, Resume, Latch, IsDormant, WakeForFocus, Probe, Start
  <2> QED
    BY <1>0, <2>1, MovesEffect, ProbeGoes
<1>4. CASE NoteDelivery \/ Tick \/ Suspend
  <2>1. /\ "tick" \in Places(Judge) /\ "suspend" \in Places(Judge) /\ "look" \in Places(Judge)
        /\ "idle" \in Places(Judge) /\ "resume" \in Places(Judge)
    BY <1>0, PlacesOf
  <2>2. Verdict \in Places(Judge)
    BY <2>1 DEF Verdict
  <2>3. \E l \in Places(Judge) : Moves(Judge, l)
    BY <1>4, <2>1, <2>2, Zenon DEF NoteDelivery, Tick, Suspend
  <2> QED
    BY <2>3, PlacesOf, MovesEffect
<1>5. CASE LinkUp \/ Replay \/ ResetAll \/ Reconnected \/ LinkDown \/ StopOnDrop
  <2>1. \E l \in {"replay", "reset", "resume", "idle", "reprobe", "restart", "stop", "dialling"} : Moves(Loop, l)
    BY <1>5 DEF LinkUp, Replay, ResetAll, Reconnected, LinkDown, StopOnDrop
  <2>2. {"replay", "reset", "resume", "idle", "reprobe", "restart", "stop", "dialling"} \subseteq Places(Loop)
    BY <1>0, PlacesOf
  <2> QED
    BY <2>1, <2>2, PlacesOf, MovesEffect
<1>6. CASE GraceEnds \/ SuspendCollector \/ Poll \/ MenuChanges \/ Advance
  BY <1>1, <1>6 DEF GraceEnds, SuspendCollector, Poll, MenuChanges, Advance
<1> QED
  BY <1>1, <1>2, <1>3, <1>4, <1>5, <1>6 DEF DemandNext, demandVars

\* Every step keeps the rest of the types.
LEMMA RestNext == DemandTypeOK /\ [DemandNext]_demandVars => RestOK'
<1> SUFFICES ASSUME DemandTypeOK, RestOK, [DemandNext]_demandVars PROVE RestOK'
  BY TypeParts
<1>b. /\ connected \in BOOLEAN /\ first \in BOOLEAN /\ pending \in BOOLEAN /\ running \in BOOLEAN
  BY DEF RestOK
<1>s. spell.slept \in BOOLEAN /\ \A b \in BOOLEAN : NoSpell(b) \in [from : 0 .. MaxTime, readings : Nat, slept : BOOLEAN]
  BY SpellType
<1>1. CASE UNCHANGED demandVars
  BY <1>1 DEF demandVars, RestOK
<1>2. ASSUME NEW v \in Sockets, Focus(v) PROVE RestOK'
  BY <1>2 DEF Focus, RestOK, world, bounds
<1>3. ASSUME NEW v \in Sockets, Blur(v) PROVE RestOK'
  BY <1>3, DemandNumbers DEF Blur, RestOK
<1>4. ASSUME NEW v \in Sockets, ApplyDemand(v) PROVE RestOK'
  BY <1>4, DemandNumbers DEF ApplyDemand, RestOK, world, bounds
<1>5. CASE GraceEnds
  <2>1. armed' \in 0 .. MaxTimers /\ leaving' \in 0 .. armed'
    BY <1>5, DemandNumbers DEF GraceEnds, RestOK
  <2> QED
    BY <1>5, <2>1 DEF GraceEnds, RestOK, world, bounds
<1>6. CASE SuspendCollector
  <2>1. armed' \in 0 .. MaxTimers /\ leaving' \in 0 .. armed'
    BY <1>6, DemandNumbers DEF SuspendCollector, RestOK
  <2>2. running' \in BOOLEAN
    BY <1>6, Zenon DEF SuspendCollector
  <2> QED
    BY <1>6, <2>1, <2>2 DEF SuspendCollector, RestOK, world, bounds
<1>7. ASSUME NEW x \in actors, Resume(x) \/ IsDormant(x) PROVE RestOK'
  BY <1>7 DEF Resume, IsDormant, RestOK, world, bounds
<1>8. ASSUME NEW x \in actors, Latch(x) PROVE RestOK'
  <2>1. pending' \in BOOLEAN
    BY <1>8, Zenon DEF Latch
  <2> QED
    BY <1>8, <2>1 DEF Latch, RestOK, world, bounds
<1>9. ASSUME NEW x \in actors, WakeForFocus(x) PROVE RestOK'
  <2>1. st' \in States
    BY <1>9, AwakeType DEF WakeForFocus, Reset, RestOK
  <2>2. spell' \in [from : 0 .. MaxTime, readings : Nat, slept : BOOLEAN]
    BY <1>9, <1>s DEF WakeForFocus, RestOK
  <2> QED
    BY <1>9, <2>1, <2>2 DEF WakeForFocus, RestOK, world, bounds
<1>10. ASSUME NEW x \in actors, Start(x) PROVE RestOK'
  <2>1. running' \in BOOLEAN
    BY <1>10, <1>b, Zenon DEF Start
  <2> QED
    BY <1>10, <2>1 DEF Start, RestOK, world, bounds
<1>11. ASSUME Read, UNCHANGED <<world, room, connected, first, pending, running, st, armed, leaving, judgedAt, obs, spell>>
       PROVE  RestOK'
  BY <1>11, ReadEffect DEF RestOK, world, bounds
<1>12. ASSUME NEW x \in actors, Probe(x) PROVE RestOK'
  <2>1. CASE connected
    BY <1>11, <1>12, <2>1 DEF Probe
  <2>2. CASE ~connected
    BY <1>12, <2>2 DEF Probe, RestOK, world, bounds
  <2> QED
    BY <2>1, <2>2
<1>13. CASE Poll
  BY <1>11, <1>13 DEF Poll
<1>14. CASE NoteDelivery
  BY <1>14 DEF NoteDelivery, RestOK, world, bounds
<1>15. CASE Tick
  <2>1. obs' \in Payloads
    BY <1>15 DEF Tick, NoPayload, Payload, Payloads, Stamps, Holds
  <2>2. st' \in States
    BY <1>15, JudgedEffect DEF Tick, RestOK
  <2>3. spell' \in [from : 0 .. MaxTime, readings : Nat, slept : BOOLEAN]
    <3>1. spell' = NoSpell(TRUE) \/ spell' = Spelled \/ spell' = spell
      BY <1>15, Zenon DEF Tick
    <3> QED
      BY <1>s, <3>1, SpellType, Zenon DEF RestOK
  <2>4. asked' \in 1 .. MaxTime
    <3>1. asked' = now \/ asked' = asked
      BY <1>15, Zenon DEF Tick
    <3> QED
      BY <3>1 DEF RestOK
  <2> QED
    BY <1>15, <2>1, <2>2, <2>3, <2>4 DEF Tick, RestOK, world, bounds
<1>16. CASE Suspend
  <2>1. running' \in BOOLEAN
    BY <1>16, Zenon DEF Suspend
  <2> QED
    BY <1>16, <2>1 DEF Suspend, RestOK, world, bounds
<1>17. CASE LinkUp
  <2>1. connected' \in BOOLEAN
    BY <1>17, Zenon DEF LinkUp
  <2> QED
    BY <1>17, <2>1 DEF LinkUp, RestOK, world, bounds
<1>18. CASE Replay
  <2>1. pending' \in BOOLEAN /\ first' \in BOOLEAN
    BY <1>18, Zenon DEF Replay
  <2> QED
    BY <1>18, <2>1 DEF Replay, RestOK, world, bounds
<1>19. CASE ResetAll
  <2>1. st' \in States
    BY <1>19, AwakeType DEF ResetAll, Reset
  <2>2. spell' \in [from : 0 .. MaxTime, readings : Nat, slept : BOOLEAN]
    BY <1>19, <1>s DEF ResetAll
  <2> QED
    BY <1>19, <2>1, <2>2 DEF ResetAll, RestOK, world, bounds
<1>20. CASE Reconnected
  <2>1. running' \in BOOLEAN
    BY <1>20, Zenon DEF Reconnected
  <2> QED
    BY <1>20, <2>1 DEF Reconnected, RestOK, world, bounds
<1>21. CASE LinkDown
  <2>1. connected' \in BOOLEAN
    BY <1>21, Zenon DEF LinkDown
  <2> QED
    BY <1>21, <2>1 DEF LinkDown, RestOK
<1>22. CASE StopOnDrop
  <2>1. running' \in BOOLEAN
    BY <1>22, Zenon DEF StopOnDrop
  <2> QED
    BY <1>22, <2>1 DEF StopOnDrop, RestOK, world, bounds
<1>23. CASE MenuChanges
  BY <1>23 DEF MenuChanges, RestOK
<1>24. CASE Advance
  <2>1. now' \in 1 .. MaxTime
    BY <1>24, DemandNumbers DEF Advance, RestOK
  <2> QED
    BY <1>24, <2>1 DEF Advance, RestOK, bounds
<1> QED
  BY <1>1, <1>2, <1>3, <1>4, <1>5, <1>6, <1>7, <1>8, <1>9, <1>10, <1>12, <1>13, <1>14, <1>15, <1>16,
     <1>17, <1>18, <1>19, <1>20, <1>21, <1>22, <1>23, <1>24 DEF DemandNext, Funnel

\* Every step keeps the types.
LEMMA DemandTypeNext == DemandTypeOK /\ [DemandNext]_demandVars => DemandTypeOK'
BY TypeParts, PlacesNext, RestNext DEF DemandTypeOK, PlacesOK, RestOK

-----------------------------------------------------------------------------
(* A focus is not lost *)

\* The link and the loop: what a goroutine that is past the latch can count on.
LateInFunnel == {"asleep?", "wake", "probe", "start"}
LinkFits ==
    /\ connected <=> where[Loop] \notin {"stop", "dialling"}
    /\ first => where[Loop] \in {"dialling", "replay"}
    /\ \A x \in actors : where[x] \in LateInFunnel => connected \/ ~first \/ pending

\* No page was left and the judge has put nothing to sleep.
Undisturbed == blurs = 0 /\ ~spell.slept

\* Then nothing is about to suspend the collector.
CalmFits ==
    Undisturbed =>
        /\ armed = 0 /\ leaving = 0 /\ ~st.dormant /\ where[Judge] \in {"idle", "tick"}
        /\ \A v \in Sockets : where[v] = "demand" => v \in room

\* A start is under way on some goroutine, or will be once the link is up.
StartComes ==
    \/ \E v \in Sockets : where[v] # "idle"
    \/ where[Loop] \in {"resume", "latch", "asleep?", "wake", "probe", "start", "reset", "reprobe", "restart"}
    \/ where[Loop] \in {"stop", "dialling"} /\ (~first \/ pending)
    \/ where[Loop] = "replay" /\ pending

FocusInv ==
    /\ DemandTypeOK /\ LinkFits /\ CalmFits
    /\ Undisturbed /\ room # {} => running \/ StartComes

\* What a step in the funnel of ResumeCollector does.
LEMMA FunnelEffect ==
    ASSUME DemandTypeOK, NEW x \in actors, Funnel(x)
    PROVE  /\ UNCHANGED <<now, menu, blurs, room, connected, first, armed, leaving, judgedAt, obs>>
           /\ spell'.slept = spell.slept /\ \A y \in actors : y # x => where'[y] = where[y]
           /\ \/ where[x] = "resume" /\ where'[x] = "asleep?" /\ connected /\ UNCHANGED <<pending, running, st>>
              \/ where[x] = "resume" /\ where'[x] = "latch" /\ UNCHANGED <<pending, running, st>>
              \/ where[x] = "latch" /\ where'[x] = "asleep?" /\ pending' /\ UNCHANGED <<running, st>>
              \/ /\ where[x] \in {"asleep?", "wake"} /\ where'[x] \in LateInFunnel /\ UNCHANGED <<pending, running>>
                 /\ UNCHANGED st \/ ~st'.dormant
              \/ where[x] = "probe" /\ where'[x] = "start" /\ UNCHANGED <<pending, running, st>>
              \/ where[x] = "look" /\ x = Judge /\ where'[x] = "idle" /\ UNCHANGED <<pending, running, st>>
              \/ where[x] = "reprobe" /\ x = Loop /\ where'[x] = "restart" /\ UNCHANGED <<pending, running, st>>
              \/ where[x] = "start" /\ where'[x] = "idle" /\ (running' <=> running \/ connected) /\ UNCHANGED <<pending, st>>
<1>0. PlacesOK /\ connected \in BOOLEAN /\ running \in BOOLEAN
  BY TypeParts DEF RestOK
<1>1. "asleep?" \in Places(x) /\ "latch" \in Places(x) /\ "wake" \in Places(x) /\ "start" \in Places(x) /\ "probe" \in Places(x) /\ "idle" \in Places(x)
  BY PlacesOf DEF InFunnel
<1>2. UNCHANGED <<now, menu, blurs, room, connected, first, armed, leaving, judgedAt, obs>>
  BY DEF Funnel, Resume, Latch, IsDormant, WakeForFocus, Probe, Start, world, bounds
<1>3. spell'.slept = spell.slept
  <2>1. spell' = spell \/ spell' = NoSpell(spell.slept)
    BY Zenon DEF Funnel, Resume, Latch, IsDormant, WakeForFocus, Probe, Start
  <2> QED
    BY <2>1 DEF NoSpell
<1>4. CASE Resume(x)
  <2>1. /\ where[x] = "resume" /\ UNCHANGED <<pending, running, st>>
        /\ (connected /\ Moves(x, "asleep?")) \/ Moves(x, "latch")
    BY <1>4, Zenon DEF Resume
  <2> QED
    BY <1>0, <1>1, <1>2, <1>3, <2>1, MovesEffect, Zenon
<1>5. CASE Latch(x)
  <2>1. where[x] = "latch" /\ pending' /\ UNCHANGED <<running, st>> /\ Moves(x, "asleep?")
    BY <1>5, Zenon DEF Latch
  <2> QED
    BY <1>0, <1>1, <1>2, <1>3, <2>1, MovesEffect, Zenon
<1>6. CASE IsDormant(x)
  <2>1. /\ where[x] = "asleep?" /\ UNCHANGED <<pending, running, st>>
        /\ Moves(x, "wake") \/ Moves(x, "start")
    BY <1>6, Zenon DEF IsDormant
  <2>2. where'[x] \in LateInFunnel /\ \A y \in actors : y # x => where'[y] = where[y]
    BY <1>0, <1>1, <2>1, MovesEffect DEF LateInFunnel
  <2> QED
    BY <1>2, <1>3, <2>1, <2>2
<1>7. CASE WakeForFocus(x)
  <2>1. /\ where[x] = "wake" /\ UNCHANGED <<pending, running>>
        /\ Moves(x, "probe") \/ Moves(x, "start")
        /\ st' = st \/ st' = Awake
    BY <1>7, Zenon DEF WakeForFocus, Reset
  <2>2. where'[x] \in LateInFunnel /\ \A y \in actors : y # x => where'[y] = where[y]
    BY <1>0, <1>1, <2>1, MovesEffect DEF LateInFunnel
  <2>3. UNCHANGED st \/ ~st'.dormant
    BY <2>1, AwakeType
  <2> QED
    BY <1>2, <1>3, <2>1, <2>2, <2>3
<1>8. CASE Probe(x)
  <2>1. where[x] \in DOMAIN After /\ Moves(x, After[where[x]]) /\ UNCHANGED <<pending, running, st>>
    BY <1>8, Zenon DEF Probe
  <2>2. PlacesOK' /\ where'[x] = After[where[x]] /\ \A y \in actors : y # x => where'[y] = where[y]
    BY <1>0, <2>1, MovesEffect, ProbeGoes, Zenon
  <2> QED
    BY <1>0, <1>2, <1>3, <2>1, <2>2, ProbeGoes, Zenon
<1>9. CASE Start(x)
  <2>1. where[x] = "start" /\ Moves(x, "idle") /\ UNCHANGED <<pending, st>> /\ (running' <=> running \/ connected)
    BY <1>9, Zenon DEF Start
  <2> QED
    BY <1>0, <1>1, <1>2, <1>3, <2>1, MovesEffect, Zenon
<1> QED
  BY <1>4, <1>5, <1>6, <1>7, <1>8, <1>9 DEF Funnel

\* What a step of the loop does.
LEMMA LoopEffect ==
    ASSUME DemandTypeOK, LinkUp \/ Replay \/ ResetAll \/ Reconnected \/ LinkDown \/ StopOnDrop
    PROVE  /\ UNCHANGED <<now, menu, blurs, room, payload, armed, leaving, judgedAt, obs>>
           /\ spell'.slept = spell.slept /\ \A y \in actors : y # Loop => where'[y] = where[y]
           /\ \/ /\ where[Loop] = "dialling" /\ connected' /\ asked' = now
                 /\ (first /\ where'[Loop] = "replay") \/ (~first /\ where'[Loop] = "reset")
                 /\ UNCHANGED <<first, pending, running, st, spell>>
              \/ /\ where[Loop] = "replay" /\ ~first'
                 /\ (pending /\ where'[Loop] = "resume") \/ (~pending /\ where'[Loop] = "idle")
                 /\ UNCHANGED <<connected, running, st, asked, spell>>
              \/ /\ where[Loop] = "reset" /\ st' = Awake /\ spell' = NoSpell(spell.slept)
                 /\ where'[Loop] \in {"reprobe", "restart"}
                 /\ UNCHANGED <<connected, first, pending, running, asked>>
              \/ /\ where[Loop] = "restart" /\ running' /\ where'[Loop] = "idle"
                 /\ UNCHANGED <<connected, first, pending, st, asked, spell>>
              \/ /\ where[Loop] = "idle" /\ ~connected' /\ where'[Loop] = "stop"
                 /\ UNCHANGED <<first, pending, running, st, asked, spell>>
              \/ /\ where[Loop] = "stop" /\ ~running' /\ where'[Loop] = "dialling"
                 /\ UNCHANGED <<connected, first, pending, st, asked, spell>>
<1>0. PlacesOK /\ first \in BOOLEAN /\ pending \in BOOLEAN
  BY TypeParts DEF RestOK
<1>1. /\ "replay" \in Places(Loop) /\ "reset" \in Places(Loop) /\ "resume" \in Places(Loop) /\ "idle" \in Places(Loop)
      /\ "reprobe" \in Places(Loop) /\ "restart" \in Places(Loop) /\ "stop" \in Places(Loop) /\ "dialling" \in Places(Loop)
      /\ Loop \in actors
  BY PlacesOf DEF InFunnel
<1>2. UNCHANGED <<now, menu, blurs, room, payload, armed, leaving, judgedAt, obs>>
  BY DEF LinkUp, Replay, ResetAll, Reconnected, LinkDown, StopOnDrop, world, bounds
<1>3. spell'.slept = spell.slept
  <2>1. spell' = spell \/ spell' = NoSpell(spell.slept)
    BY Zenon DEF LinkUp, Replay, ResetAll, Reconnected, LinkDown, StopOnDrop
  <2> QED
    BY <2>1 DEF NoSpell
<1>4. CASE LinkUp
  <2>1. /\ where[Loop] = "dialling" /\ connected' /\ asked' = now
        /\ (first /\ Moves(Loop, "replay")) \/ (~first /\ Moves(Loop, "reset"))
        /\ UNCHANGED <<first, pending, running, st, spell>>
    BY <1>4, <1>0, Zenon DEF LinkUp
  <2> QED
    BY <1>0, <1>1, <1>2, <1>3, <2>1, MovesEffect, Zenon
<1>5. CASE Replay
  <2>1. /\ where[Loop] = "replay" /\ ~first'
        /\ (pending /\ Moves(Loop, "resume")) \/ (~pending /\ Moves(Loop, "idle"))
        /\ UNCHANGED <<connected, running, st, asked, spell>>
    BY <1>5, <1>0, Zenon DEF Replay
  <2> QED
    BY <1>0, <1>1, <1>2, <1>3, <2>1, MovesEffect, Zenon
<1>6. CASE ResetAll
  <2>1. /\ where[Loop] = "reset" /\ st' = Awake /\ spell' = NoSpell(spell.slept)
        /\ Moves(Loop, "reprobe") \/ Moves(Loop, "restart")
        /\ UNCHANGED <<connected, first, pending, running, asked>>
    BY <1>6, Zenon DEF ResetAll, Reset
  <2>2. (where'[Loop] = "reprobe" \/ where'[Loop] = "restart") /\ \A y \in actors : y # Loop => where'[y] = where[y]
    BY <1>0, <1>1, <2>1, MovesEffect, Zenon
  <2>3. where'[Loop] \in {"reprobe", "restart"}
    BY <2>2
  <2> QED
    BY <1>2, <1>3, <2>1, <2>2, <2>3, Zenon
<1>7. CASE Reconnected
  <2>1. /\ where[Loop] = "restart" /\ running' /\ Moves(Loop, "idle")
        /\ UNCHANGED <<connected, first, pending, st, asked, spell>>
    BY <1>7, Zenon DEF Reconnected
  <2> QED
    BY <1>0, <1>1, <1>2, <1>3, <2>1, MovesEffect, Zenon
<1>8. CASE LinkDown
  <2>1. /\ where[Loop] = "idle" /\ ~connected' /\ Moves(Loop, "stop")
        /\ UNCHANGED <<first, pending, running, st, asked, spell>>
    BY <1>8, Zenon DEF LinkDown
  <2> QED
    BY <1>0, <1>1, <1>2, <1>3, <2>1, MovesEffect, Zenon
<1>9. CASE StopOnDrop
  <2>1. /\ where[Loop] = "stop" /\ ~running' /\ Moves(Loop, "dialling")
        /\ UNCHANGED <<connected, first, pending, st, asked, spell>>
    BY <1>9, Zenon DEF StopOnDrop
  <2> QED
    BY <1>0, <1>1, <1>2, <1>3, <2>1, MovesEffect, Zenon
<1> QED
  BY <1>4, <1>5, <1>6, <1>7, <1>8, <1>9

\* What a step of the judge does.
LEMMA JudgeEffect ==
    ASSUME DemandTypeOK, NoteDelivery \/ Tick \/ Suspend
    PROVE  /\ UNCHANGED <<now, menu, blurs, room, connected, first, pending, payload, armed, leaving>>
           /\ \A y \in actors : y # Judge => where'[y] = where[y]
           /\ \/ /\ where[Judge] = "idle" /\ JudgeDue /\ judgedAt' = now /\ obs' = payload /\ where'[Judge] = "tick"
                 /\ UNCHANGED <<running, st, asked, spell>>
              \/ /\ where[Judge] = "tick" /\ connected /\ where'[Judge] = Verdict
                 /\ spell' = IF Judged.dormant THEN NoSpell(TRUE) ELSE Spelled
                 /\ asked' = IF Judged.dormant # st.dormant THEN now ELSE asked
                 /\ obs' = NoPayload /\ UNCHANGED <<running, judgedAt>>
              \/ /\ where[Judge] = "tick" /\ ~connected /\ where'[Judge] = "idle"
                 /\ obs' = NoPayload /\ UNCHANGED <<running, judgedAt, st, asked, spell>>
              \/ /\ where[Judge] = "suspend" /\ ~running' /\ where'[Judge] = "idle"
                 /\ UNCHANGED <<st, asked, spell, judgedAt, obs>>
<1>0. PlacesOK
  BY TypeParts
<1>1. /\ "tick" \in Places(Judge) /\ "idle" \in Places(Judge) /\ Judge \in actors
      /\ "suspend" \in Places(Judge) /\ "look" \in Places(Judge) /\ "resume" \in Places(Judge)
  BY PlacesOf DEF InFunnel
<1>2. UNCHANGED <<now, menu, blurs, room, connected, first, pending, payload, armed, leaving>>
  BY DEF NoteDelivery, Tick, Suspend, world, bounds
<1>3. CASE NoteDelivery
  <2>1. /\ where[Judge] = "idle" /\ JudgeDue /\ judgedAt' = now /\ obs' = payload /\ Moves(Judge, "tick")
        /\ UNCHANGED <<running, st, asked, spell>>
    BY <1>3, Zenon DEF NoteDelivery
  <2> QED
    BY <1>0, <1>1, <1>2, <2>1, MovesEffect, Zenon
<1>4. CASE Tick /\ connected
  <2>1. /\ where[Judge] = "tick" /\ Moves(Judge, Verdict)
        /\ spell' = IF Judged.dormant THEN NoSpell(TRUE) ELSE Spelled
        /\ asked' = IF Judged.dormant # st.dormant THEN now ELSE asked
        /\ obs' = NoPayload /\ UNCHANGED <<running, judgedAt>>
    BY <1>4, Zenon DEF Tick
  <2>2. Verdict \in Places(Judge)
    BY <1>1 DEF Verdict
  <2>3. where'[Judge] = Verdict /\ \A y \in actors : y # Judge => where'[y] = where[y]
    BY <1>0, <1>1, <2>1, <2>2, MovesEffect, Zenon
  <2> QED
    BY <1>2, <1>4, <2>1, <2>3, Zenon
<1>5. CASE Tick /\ ~connected
  <2>1. /\ where[Judge] = "tick" /\ Moves(Judge, "idle")
        /\ obs' = NoPayload /\ UNCHANGED <<running, judgedAt, st, asked, spell>>
    BY <1>5, Zenon DEF Tick
  <2> QED
    BY <1>0, <1>1, <1>2, <1>5, <2>1, MovesEffect, Zenon
<1>6. CASE Suspend
  <2>1. /\ where[Judge] = "suspend" /\ ~running' /\ Moves(Judge, "idle")
        /\ UNCHANGED <<st, asked, spell, judgedAt, obs>>
    BY <1>6, Zenon DEF Suspend
  <2> QED
    BY <1>0, <1>1, <1>2, <2>1, MovesEffect, Zenon
<1> QED
  BY <1>3, <1>4, <1>5, <1>6

\* What a viewer's step does.
LEMMA ViewerEffect ==
    ASSUME DemandTypeOK, NEW v \in Sockets, Focus(v) \/ Blur(v) \/ ApplyDemand(v)
    PROVE  /\ UNCHANGED <<now, menu, connected, first, pending, running, payload, st, leaving, judgedAt, obs, asked, spell>>
           /\ \A y \in actors : y # v => where'[y] = where[y]
           /\ \/ /\ where[v] = "idle" /\ room' = room \cup {v} /\ where'[v] = "demand" /\ UNCHANGED <<armed, blurs>>
              \/ where[v] = "idle" /\ blurs' = blurs + 1 /\ where'[v] = "demand" /\ UNCHANGED armed
              \/ where[v] = "demand" /\ room # {} /\ where'[v] = "resume" /\ UNCHANGED <<armed, room, blurs>>
              \/ where[v] = "demand" /\ room = {} /\ where'[v] = "idle" /\ UNCHANGED <<room, blurs>>
<1>0. PlacesOK
  BY TypeParts
<1>1. "demand" \in Places(v) /\ "idle" \in Places(v) /\ "resume" \in Places(v) /\ v \in actors
  BY PlacesOf DEF InFunnel
<1>2. UNCHANGED <<now, menu, connected, first, pending, running, payload, st, leaving, judgedAt, obs, asked, spell>>
  BY DEF Focus, Blur, ApplyDemand, world, bounds
<1>3. CASE Focus(v)
  <2>1. where[v] = "idle" /\ room' = room \cup {v} /\ Moves(v, "demand") /\ UNCHANGED <<armed, blurs>>
    BY <1>3, Zenon DEF Focus, world, bounds
  <2> QED
    BY <1>0, <1>1, <1>2, <2>1, MovesEffect, Zenon
<1>4. CASE Blur(v)
  <2>1. where[v] = "idle" /\ blurs' = blurs + 1 /\ Moves(v, "demand") /\ UNCHANGED armed
    BY <1>4, Zenon DEF Blur
  <2> QED
    BY <1>0, <1>1, <1>2, <2>1, MovesEffect, Zenon
<1>5. CASE ApplyDemand(v)
  <2>1. /\ where[v] = "demand" /\ UNCHANGED <<room, blurs>>
        /\ (room # {} /\ Moves(v, "resume") /\ UNCHANGED armed) \/ (room = {} /\ Moves(v, "idle"))
    BY <1>5 DEF ApplyDemand, Wants, world, bounds
  <2> QED
    BY <1>0, <1>1, <1>2, <2>1, MovesEffect, Zenon
<1> QED
  BY <1>3, <1>4, <1>5

\* The link, the loop and the funnel stay in step.
LEMMA LinkFitsNext == DemandTypeOK /\ LinkFits /\ [DemandNext]_demandVars => LinkFits'
<1> SUFFICES ASSUME DemandTypeOK, LinkFits, [DemandNext]_demandVars PROVE LinkFits'
  OBVIOUS
<1>0. /\ Judge \in actors /\ Loop \in actors /\ Judge # Loop /\ Judge \notin Sockets
      /\ Loop \notin Sockets /\ Sockets \subseteq actors
  BY PlacesOf
<1>1. CASE UNCHANGED <<where, connected, first, pending>>
  BY <1>1 DEF LinkFits
<1>2. ASSUME NEW v \in Sockets, Focus(v) \/ Blur(v) \/ ApplyDemand(v) PROVE LinkFits'
  <2>1. /\ UNCHANGED <<connected, first, pending>> /\ \A y \in actors : y # v => where'[y] = where[y]
        /\ where'[v] \notin LateInFunnel
    BY <1>2, ViewerEffect DEF LateInFunnel
  <2> QED
    BY <1>0, <2>1 DEF LinkFits
<1>3. ASSUME NEW x \in actors, Funnel(x) PROVE LinkFits'
  <2>1. UNCHANGED <<connected, first>> /\ \A y \in actors : y # x => where'[y] = where[y]
    BY <1>3, FunnelEffect
  <2>2. \/ where[x] = "resume" /\ where'[x] = "asleep?" /\ connected /\ UNCHANGED pending
        \/ where[x] = "resume" /\ where'[x] = "latch" /\ UNCHANGED pending
        \/ where[x] = "latch" /\ where'[x] = "asleep?" /\ pending'
        \/ where[x] \in {"asleep?", "wake"} /\ where'[x] \in LateInFunnel /\ UNCHANGED pending
        \/ where[x] = "probe" /\ where'[x] = "start" /\ UNCHANGED pending
        \/ where[x] = "look" /\ where'[x] = "idle" /\ UNCHANGED pending
        \/ where[x] = "reprobe" /\ where'[x] = "restart" /\ UNCHANGED pending
        \/ where[x] = "start" /\ where'[x] = "idle" /\ UNCHANGED pending
    BY <1>3, FunnelEffect
  <2>3. connected' <=> where'[Loop] \notin {"stop", "dialling"}
    BY <1>0, <2>1, <2>2 DEF LinkFits, LateInFunnel
  <2>4. first' => where'[Loop] \in {"dialling", "replay"}
    BY <1>0, <2>1, <2>2 DEF LinkFits, LateInFunnel
  <2>5. ASSUME NEW y \in actors, where'[y] \in LateInFunnel PROVE connected' \/ ~first' \/ pending'
    <3>1. CASE y # x
      <4>1. connected \/ ~first \/ pending
        BY <2>1, <2>5, <3>1 DEF LinkFits
      <4>2. pending => pending'
        BY <2>2
      <4> QED
        BY <2>1, <4>1, <4>2
    <3>2. CASE y = x
      BY <2>1, <2>2, <2>5, <3>2 DEF LinkFits, LateInFunnel
    <3> QED
      BY <3>1, <3>2
  <2> QED
    BY <2>3, <2>4, <2>5 DEF LinkFits
<1>4. CASE NoteDelivery \/ Tick \/ Suspend
  <2>1. UNCHANGED <<connected, first, pending>> /\ \A y \in actors : y # Judge => where'[y] = where[y]
    BY <1>4, JudgeEffect
  <2>2. where'[Judge] \notin LateInFunnel
    <3>1. Verdict \notin LateInFunnel
      BY DEF Verdict, LateInFunnel
    <3>2. where'[Judge] = "tick" \/ where'[Judge] = "idle" \/ where'[Judge] = Verdict
      BY <1>4, JudgeEffect
    <3> QED
      BY <3>1, <3>2 DEF LateInFunnel
  <2> QED
    BY <1>0, <2>1, <2>2 DEF LinkFits
<1>5. CASE LinkUp \/ Replay \/ ResetAll \/ Reconnected \/ LinkDown \/ StopOnDrop
  <2>1. \A y \in actors : y # Loop => where'[y] = where[y]
    BY <1>5, LoopEffect
  <2>2. /\ where'[Loop] \notin LateInFunnel
        /\ connected' <=> where'[Loop] \notin {"stop", "dialling"}
        /\ first' => where'[Loop] \in {"dialling", "replay"}
        /\ (connected \/ ~first \/ pending) => (connected' \/ ~first' \/ pending')
    <3>1. \/ where[Loop] = "dialling" /\ connected' /\ UNCHANGED <<first, pending>> /\ ((first /\ where'[Loop] = "replay") \/ (~first /\ where'[Loop] = "reset"))
          \/ where[Loop] = "replay" /\ ~first' /\ UNCHANGED connected /\ (where'[Loop] = "resume" \/ where'[Loop] = "idle")
          \/ where[Loop] = "reset" /\ UNCHANGED <<connected, first, pending>> /\ where'[Loop] \in {"reprobe", "restart"}
          \/ where[Loop] = "restart" /\ UNCHANGED <<connected, first, pending>> /\ where'[Loop] = "idle"
          \/ where[Loop] = "idle" /\ ~connected' /\ UNCHANGED <<first, pending>> /\ where'[Loop] = "stop"
          \/ where[Loop] = "stop" /\ UNCHANGED <<connected, first, pending>> /\ where'[Loop] = "dialling"
      BY <1>5, LoopEffect
    <3> QED
      BY <3>1 DEF LinkFits, LateInFunnel
  <2> QED
    BY <2>1, <2>2 DEF LinkFits
<1>6. CASE GraceEnds \/ SuspendCollector \/ Poll \/ MenuChanges \/ Advance
  BY <1>1, <1>6 DEF GraceEnds, SuspendCollector, Poll, MenuChanges, Advance
<1> QED
  BY <1>1, <1>2, <1>3, <1>4, <1>5, <1>6 DEF DemandNext, demandVars

\* A judgement that leaves the collector awake asks for nothing.
LEMMA CalmVerdict ==
    ASSUME DemandTypeOK, ~st.dormant, ~Judged.dormant PROVE Verdict = "idle"
BY Zenon DEF Verdict, DueForProbe

\* As long as nothing has disturbed the collector nothing is about to.
LEMMA CalmFitsNext == DemandTypeOK /\ CalmFits /\ [DemandNext]_demandVars => CalmFits'
<1> SUFFICES ASSUME DemandTypeOK, CalmFits, [DemandNext]_demandVars, Undisturbed'
             PROVE  /\ armed' = 0 /\ leaving' = 0 /\ ~st'.dormant /\ where'[Judge] \in {"idle", "tick"}
                    /\ \A v \in Sockets : where'[v] = "demand" => v \in room'
  BY DEF CalmFits
<1>0. /\ Judge \in actors /\ Loop \in actors /\ Judge # Loop /\ Judge \notin Sockets
      /\ Loop \notin Sockets /\ Sockets \subseteq actors /\ blurs \in Nat /\ room \subseteq Sockets
  BY PlacesOf DEF DemandTypeOK
<1>a. Undisturbed =>
        /\ armed = 0 /\ leaving = 0 /\ ~st.dormant /\ where[Judge] \in {"idle", "tick"}
        /\ \A v \in Sockets : where[v] = "demand" => v \in room
  BY DEF CalmFits
<1>1. CASE UNCHANGED <<where, armed, leaving, st, room, blurs, spell>>
  BY <1>1, <1>a DEF Undisturbed
<1>2. ASSUME NEW v \in Sockets, Focus(v) \/ Blur(v) \/ ApplyDemand(v)
      PROVE  /\ armed' = 0 /\ leaving' = 0 /\ ~st'.dormant /\ where'[Judge] \in {"idle", "tick"}
             /\ \A w \in Sockets : where'[w] = "demand" => w \in room'
  <2>1. /\ UNCHANGED <<st, leaving, spell>> /\ \A y \in actors : y # v => where'[y] = where[y]
        /\ \/ where[v] = "idle" /\ room' = room \cup {v} /\ where'[v] = "demand" /\ UNCHANGED <<armed, blurs>>
           \/ where[v] = "idle" /\ blurs' = blurs + 1 /\ where'[v] = "demand" /\ UNCHANGED armed
           \/ where[v] = "demand" /\ room # {} /\ where'[v] = "resume" /\ UNCHANGED <<armed, room, blurs>>
           \/ where[v] = "demand" /\ room = {} /\ where'[v] = "idle" /\ UNCHANGED <<room, blurs>>
    BY <1>2, ViewerEffect
  <2>2. blurs' = blurs /\ Undisturbed
    BY <1>0, <2>1 DEF Undisturbed
  <2>3. \/ room' = room \cup {v} /\ where'[v] = "demand" /\ UNCHANGED armed
        \/ where'[v] = "resume" /\ UNCHANGED <<armed, room>>
    BY <1>0, <1>a, <2>1, <2>2
  <2> QED
    BY <1>0, <1>a, <2>1, <2>2, <2>3
<1>3. ASSUME NEW x \in actors, Funnel(x)
      PROVE  /\ armed' = 0 /\ leaving' = 0 /\ ~st'.dormant /\ where'[Judge] \in {"idle", "tick"}
             /\ \A v \in Sockets : where'[v] = "demand" => v \in room'
  <2>1. UNCHANGED <<armed, leaving, room, blurs>> /\ spell'.slept = spell.slept /\ \A y \in actors : y # x => where'[y] = where[y]
    BY <1>3, FunnelEffect
  <2>2. where[x] \notin {"idle", "tick"} /\ where'[x] # "demand" /\ (UNCHANGED st \/ ~st'.dormant)
    BY <1>3, FunnelEffect DEF LateInFunnel
  <2>3. Undisturbed
    BY <2>1 DEF Undisturbed
  <2> QED
    BY <1>0, <1>a, <2>1, <2>2, <2>3
<1>4. CASE NoteDelivery \/ Tick \/ Suspend
  <2>1. UNCHANGED <<armed, leaving, room, blurs>> /\ \A y \in actors : y # Judge => where'[y] = where[y]
    BY <1>4, JudgeEffect
  <2>2. \/ where'[Judge] = "tick" /\ UNCHANGED <<st, spell>>
        \/ where[Judge] = "tick" /\ connected /\ Tick /\ where'[Judge] = Verdict /\ spell' = IF Judged.dormant THEN NoSpell(TRUE) ELSE Spelled
        \/ where'[Judge] = "idle" /\ UNCHANGED <<st, spell>>
    <3>1. CASE NoteDelivery \/ Suspend
      BY <1>4, <3>1, JudgeEffect, Zenon DEF NoteDelivery, Suspend
    <3>2. CASE Tick
      BY <3>2, JudgeEffect, Zenon DEF Tick
    <3> QED
      BY <1>4, <3>1, <3>2
  <2>3. CASE where[Judge] = "tick" /\ connected /\ Tick /\ where'[Judge] = Verdict /\ spell' = IF Judged.dormant THEN NoSpell(TRUE) ELSE Spelled
    <3>1. ~Judged.dormant
      BY <2>3 DEF NoSpell, Undisturbed
    <3>2. spell'.slept = spell.slept
      BY <2>3, <3>1, SpellType
    <3>3. Undisturbed
      BY <2>1, <3>2 DEF Undisturbed
    <3>4. ~st.dormant
      BY <1>a, <3>3
    <3>5. where'[Judge] = "idle"
      BY <2>3, <3>1, <3>4, CalmVerdict
    <3>6. st'.dormant = Judged.dormant
      BY <2>3, JudgedEffect, Zenon
    <3>7. ~st'.dormant
      BY <3>1, <3>6
    <3> QED
      BY <1>0, <1>a, <2>1, <3>3, <3>5, <3>7
  <2>4. CASE (where'[Judge] = "tick" \/ where'[Judge] = "idle") /\ UNCHANGED <<st, spell>>
    BY <1>0, <1>a, <2>1, <2>4 DEF Undisturbed
  <2> QED
    BY <2>2, <2>3, <2>4
<1>5. CASE LinkUp \/ Replay \/ ResetAll \/ Reconnected \/ LinkDown \/ StopOnDrop
  <2>1. UNCHANGED <<armed, leaving, room, blurs>> /\ spell'.slept = spell.slept /\ \A y \in actors : y # Loop => where'[y] = where[y]
    BY <1>5, LoopEffect
  <2>2. UNCHANGED st \/ st' = Awake
    BY <1>5, LoopEffect
  <2>3. UNCHANGED st \/ ~st'.dormant
    BY <2>2, AwakeType
  <2> QED
    BY <1>0, <1>a, <2>1, <2>3 DEF Undisturbed
<1>6. CASE GraceEnds \/ SuspendCollector
  <2>1. Undisturbed /\ (armed > leaving \/ leaving > 0)
    BY <1>6 DEF GraceEnds, SuspendCollector, Undisturbed, world, bounds
  <2> QED
    BY <1>a, <2>1
<1>7. CASE Poll \/ MenuChanges \/ Advance
  BY <1>1, <1>7 DEF Poll, MenuChanges, Advance, world, bounds
<1> QED
  BY <1>1, <1>2, <1>3, <1>4, <1>5, <1>6, <1>7 DEF DemandNext, demandVars

\* Every step keeps the invariant.
LEMMA FocusNext == FocusInv /\ [DemandNext]_demandVars => FocusInv'
<1> SUFFICES ASSUME FocusInv, [DemandNext]_demandVars PROVE FocusInv'
  OBVIOUS
<1>0. DemandTypeOK /\ LinkFits /\ CalmFits /\ LinkFits' /\ CalmFits' /\ DemandTypeOK'
  BY DemandTypeNext, LinkFitsNext, CalmFitsNext DEF FocusInv
<1> SUFFICES ASSUME Undisturbed', room' # {}, ~running' PROVE StartComes'
  BY <1>0 DEF FocusInv
<1>p. /\ Judge \in actors /\ Loop \in actors /\ Judge # Loop /\ Judge \notin Sockets
      /\ Loop \notin Sockets /\ Sockets \subseteq actors
  BY PlacesOf
<1>a. Undisturbed /\ room # {} => running \/ StartComes
  BY DEF FocusInv
<1>1. ASSUME UNCHANGED <<where, first, pending, running, room, blurs>>, spell'.slept = spell.slept
      PROVE  StartComes'
  BY <1>1, <1>a DEF StartComes, Undisturbed
<1>2. ASSUME NEW v \in Sockets, Focus(v) \/ Blur(v) \/ ApplyDemand(v) PROVE StartComes'
  <2>1. where'[v] # "idle" \/ room' = {}
    BY <1>0, <1>2, ViewerEffect
  <2> QED
    BY <2>1 DEF StartComes
<1>3. ASSUME NEW x \in actors, Funnel(x) PROVE StartComes'
  <2>0. /\ UNCHANGED <<room, blurs, connected, first>> /\ spell'.slept = spell.slept
        /\ \A y \in actors : y # x => where'[y] = where[y]
    BY <1>0, <1>3, FunnelEffect
  <2>1. Undisturbed
    BY <2>0 DEF Undisturbed
  <2>2. \/ where'[x] \in {"latch", "asleep?", "wake", "probe", "start", "restart"}
        \/ where[x] = "look" /\ x = Judge
        \/ where[x] = "start" /\ (running' <=> running \/ connected) /\ UNCHANGED pending
    BY <1>0, <1>3, FunnelEffect DEF LateInFunnel
  <2>3. x # Judge
    <3>1. where[x] \notin {"idle", "tick"}
      BY <1>0, <1>3, FunnelEffect
    <3> QED
      BY <1>0, <2>1, <3>1 DEF CalmFits
  <2>4. CASE where'[x] \in {"latch", "asleep?", "wake", "probe", "start", "restart"}
    BY <1>p, <2>3, <2>4, PlacesOf DEF StartComes
  <2>5. CASE where[x] = "start" /\ (running' <=> running \/ connected) /\ UNCHANGED pending
    <3>1. ~connected
      BY <2>5
    <3>2. where[Loop] \in {"stop", "dialling"} /\ (~first \/ pending)
      BY <1>0, <2>5, <3>1 DEF LinkFits, LateInFunnel
    <3>3. x # Loop
      BY <2>5, <3>2
    <3> QED
      BY <1>p, <2>0, <2>5, <3>2, <3>3 DEF StartComes
  <2> QED
    BY <2>2, <2>3, <2>4, <2>5
<1>4. CASE NoteDelivery \/ Tick \/ Suspend
  <2>1. /\ UNCHANGED <<room, blurs, first, pending>>
        /\ \A y \in actors : y # Judge => where'[y] = where[y]
    BY <1>0, <1>4, JudgeEffect
  <2>2. UNCHANGED running \/ where[Judge] = "suspend"
    BY <1>0, <1>4, JudgeEffect
  <2>3. spell'.slept = spell.slept
    <3>1. spell' = spell \/ spell' = NoSpell(TRUE) \/ spell' = Spelled
      BY <1>0, <1>4, JudgeEffect, Zenon
    <3>2. spell' # NoSpell(TRUE)
      BY DEF NoSpell, Undisturbed
    <3> QED
      BY <1>0, <3>1, <3>2, SpellType
  <2>4. Undisturbed
    BY <2>1, <2>3 DEF Undisturbed
  <2>5. UNCHANGED running
    BY <1>0, <2>2, <2>4 DEF CalmFits
  <2>6. StartComes
    BY <1>a, <2>1, <2>4, <2>5
  <2> QED
    BY <1>p, <2>1, <2>6 DEF StartComes
<1>5. CASE LinkUp \/ Replay \/ ResetAll \/ Reconnected \/ LinkDown \/ StopOnDrop
  <2>0. /\ UNCHANGED <<room, blurs>> /\ spell'.slept = spell.slept
        /\ \A y \in actors : y # Loop => where'[y] = where[y]
    BY <1>0, <1>5, LoopEffect
  <2>1. \/ where[Loop] = "dialling" /\ UNCHANGED <<first, pending, running>> /\ ((first /\ where'[Loop] = "replay") \/ (~first /\ where'[Loop] = "reset"))
        \/ where[Loop] = "replay" /\ UNCHANGED running /\ ((pending /\ where'[Loop] = "resume") \/ (~pending /\ where'[Loop] = "idle"))
        \/ where[Loop] = "reset" /\ where'[Loop] \in {"reprobe", "restart"}
        \/ where[Loop] = "restart" /\ running'
        \/ where[Loop] = "idle" /\ UNCHANGED running /\ where'[Loop] = "stop" /\ UNCHANGED first
        \/ where[Loop] = "stop" /\ where'[Loop] = "dialling" /\ UNCHANGED first
    BY <1>0, <1>5, LoopEffect
  <2>2. ASSUME NEW v \in Sockets, where[v] # "idle" PROVE StartComes'
    BY <1>p, <2>0, <2>2 DEF StartComes
  <2>3. Undisturbed
    BY <2>0 DEF Undisturbed
  <2>4. (running \/ StartComes)
    BY <1>a, <2>0, <2>3
  <2>5. first => where[Loop] \in {"dialling", "replay"}
    BY <1>0 DEF LinkFits
  <2>6. CASE running
    BY <2>1, <2>5, <2>6 DEF StartComes
  <2>7. CASE StartComes
    BY <2>1, <2>2, <2>5, <2>7 DEF StartComes
  <2> QED
    BY <2>4, <2>6, <2>7
<1>6. CASE GraceEnds \/ SuspendCollector
  <2>1. Undisturbed /\ (armed > leaving \/ leaving > 0)
    BY <1>6 DEF GraceEnds, SuspendCollector, Undisturbed, world, bounds
  <2> QED
    BY <1>0, <2>1 DEF CalmFits
<1>7. CASE Poll \/ MenuChanges \/ Advance \/ UNCHANGED demandVars
  BY <1>1, <1>7 DEF Poll, MenuChanges, Advance, world, bounds, demandVars
<1> QED
  BY <1>2, <1>3, <1>4, <1>5, <1>6, <1>7 DEF DemandNext

\* The collector, the judge, the loop and the viewers keep their types, for any
\* number of viewers and any options of the dormancy supervisor.
THEOREM DemandTypes == DemandSpec => []DemandTypeOK
<1>1. DemandInit => DemandTypeOK
  BY DemandTypeInit
<1>2. DemandTypeOK /\ [DemandNext]_demandVars => DemandTypeOK'
  BY DemandTypeNext
<1> QED
  BY <1>1, <1>2, PTL DEF DemandSpec

\* A focus is not lost, whenever it comes in a connect, a drop or a reconnect,
\* for any number of viewers.
THEOREM FocusIsNotLostHolds == DemandSpec => []FocusIsNotLost
<1>1. DemandInit => FocusInv
  <2> SUFFICES ASSUME DemandInit PROVE FocusInv
    OBVIOUS
  <2>1. DemandTypeOK
    BY DemandTypeInit
  <2>2. /\ where[Loop] = "dialling" /\ where[Judge] = "idle" /\ room = {}
        /\ \A x \in actors : x # Loop => where[x] = "idle"
    BY PlacesOf DEF DemandInit
  <2>3. LinkFits
    BY <2>2 DEF DemandInit, LinkFits, LateInFunnel
  <2>4. CalmFits
    BY <2>2, AwakeType, PlacesOf DEF DemandInit, CalmFits
  <2> QED
    BY <2>1, <2>2, <2>3, <2>4 DEF FocusInv
<1>2. FocusInv /\ [DemandNext]_demandVars => FocusInv'
  BY FocusNext
<1>3. FocusInv => FocusIsNotLost
  <2> SUFFICES ASSUME FocusInv, AtRest, connected, Wants, blurs = 0, ~spell.slept PROVE running
    BY DEF FocusIsNotLost
  <2>1. running \/ StartComes
    BY DEF FocusInv, Wants, Undisturbed
  <2> QED
    BY <2>1, PlacesOf DEF StartComes, AtRest
<1> QED
  BY <1>1, <1>2, <1>3, PTL DEF DemandSpec

-----------------------------------------------------------------------------
(* What the judge sees *)

\* The judge moves on in the funnel or with its suspend, or not at all.
JudgeQuiet ==
    \/ where'[Judge] = where[Judge]
    \/ where[Judge] \notin {"idle", "tick", "look"} /\ where'[Judge] \notin {"tick", "look"}

\* The kinds of step there are, for what the judge looks at.
NothingSeen ==
    /\ UNCHANGED <<now, menu, payload, obs, st, spell, judgedAt, asked>>
    /\ connected' => connected
    /\ JudgeQuiet \/ (where[Judge] = "look" /\ where'[Judge] = "idle" /\ ~connected)

AskedAgain ==
    /\ asked' = now /\ UNCHANGED <<now, payload, obs, st, spell, judgedAt>>
    /\ where'[Judge] = where[Judge]

ReadingMade ==
    /\ Read /\ connected /\ UNCHANGED <<now, menu, connected, obs, st, spell, judgedAt>>
    /\ JudgeQuiet \/ (where[Judge] = "look" /\ where'[Judge] = "idle")

StartedOver ==
    /\ st' = Awake /\ spell' = NoSpell(spell.slept)
    /\ UNCHANGED <<now, menu, connected, payload, obs, judgedAt, asked>> /\ JudgeQuiet

LookTaken ==
    /\ where[Judge] = "idle" /\ where'[Judge] = "tick" /\ judgedAt' = now /\ obs' = payload
    /\ UNCHANGED <<now, menu, connected, payload, st, asked, spell>>

JudgementMade ==
    /\ Tick /\ connected /\ where[Judge] = "tick" /\ where'[Judge] = Verdict /\ obs' = NoPayload
    /\ spell' = IF Judged.dormant THEN NoSpell(TRUE) ELSE Spelled
    /\ asked' = IF Judged.dormant # st.dormant THEN now ELSE asked
    /\ UNCHANGED <<now, menu, connected, payload, judgedAt>>

JudgementDropped ==
    /\ ~connected /\ where[Judge] = "tick" /\ where'[Judge] = "idle" /\ obs' = NoPayload
    /\ UNCHANGED <<now, menu, connected, payload, st, spell, judgedAt, asked>>

TimePasses ==
    /\ where[Judge] = "idle" /\ where'[Judge] = "idle" /\ ~JudgeDue /\ now' = now + 1
    /\ UNCHANGED <<menu, connected, payload, obs, st, spell, judgedAt, asked>>

LEMMA WatchSteps ==
    ASSUME DemandTypeOK, [DemandNext]_demandVars
    PROVE  \/ NothingSeen \/ AskedAgain \/ ReadingMade \/ StartedOver
           \/ LookTaken \/ JudgementMade \/ JudgementDropped \/ TimePasses
<1>0. PlacesOK
  BY TypeParts
<1>p. /\ Judge \in actors /\ Loop \in actors /\ Judge # Loop /\ Judge \notin Sockets
      /\ Loop \notin Sockets /\ Sockets \subseteq actors
  BY PlacesOf
<1>1. CASE UNCHANGED demandVars
  BY <1>1 DEF demandVars, NothingSeen, JudgeQuiet
<1>2. ASSUME NEW v \in Sockets, Focus(v) \/ Blur(v) \/ ApplyDemand(v) PROVE NothingSeen
  <2>1. /\ UNCHANGED <<now, menu, connected, payload, st, judgedAt, obs, asked, spell>>
        /\ where'[Judge] = where[Judge]
    BY <1>2, <1>p, ViewerEffect
  <2> QED
    BY <2>1 DEF NothingSeen, JudgeQuiet
<1>3. ASSUME NEW x \in actors, Funnel(x)
      PROVE  NothingSeen \/ ReadingMade \/ StartedOver
  <2>1. UNCHANGED <<now, menu, connected, judgedAt, obs>>
    BY <1>3, FunnelEffect
  <2>2. \/ where'[Judge] = where[Judge]
        \/ /\ where[Judge] \in {"resume", "latch", "asleep?", "wake", "probe", "start"}
           /\ where'[Judge] \notin {"tick", "look"}
        \/ where[Judge] = "look" /\ where'[Judge] = "idle" /\ Probe(x)
    <3>1. \A y \in actors : y # x => where'[y] = where[y]
      BY <1>3, FunnelEffect
    <3>2. CASE x = Judge
      <4>1. \/ where[x] \in {"resume", "latch", "asleep?", "wake", "probe", "start"} /\ where'[x] \notin {"tick", "look"}
            \/ where[x] = "look" /\ where'[x] = "idle"
        BY <1>3, <1>p, <3>2, FunnelEffect DEF LateInFunnel
      <4>2. where[x] = "look" => Probe(x)
        BY <1>3 DEF Funnel, Resume, Latch, IsDormant, WakeForFocus, Start
      <4> QED
        BY <3>2, <4>1, <4>2
    <3>3. CASE x # Judge
      BY <1>p, <3>1, <3>3
    <3> QED
      BY <3>2, <3>3
  <2>3. CASE Probe(x) /\ connected
    <3>1. Read /\ UNCHANGED <<st, spell>>
      BY <2>3, Zenon DEF Probe
    <3> QED
      BY <2>1, <2>2, <2>3, <3>1 DEF ReadingMade, JudgeQuiet
  <2>4. CASE Probe(x) /\ ~connected
    <3>1. UNCHANGED <<payload, asked, st, spell>>
      BY <2>4, Zenon DEF Probe
    <3> QED
      BY <2>1, <2>2, <2>4, <3>1 DEF NothingSeen, JudgeQuiet
  <2>5. CASE ~Probe(x)
    <3>1. UNCHANGED <<payload, asked>>
      BY <1>3, <2>5, Zenon DEF Funnel, Resume, Latch, IsDormant, WakeForFocus, Start
    <3>2. UNCHANGED <<st, spell>> \/ (st' = Awake /\ spell' = NoSpell(spell.slept))
      BY <1>3, <2>5, Zenon DEF Funnel, Resume, Latch, IsDormant, WakeForFocus, Start, Reset
    <3>3. JudgeQuiet
      BY <2>2, <2>5 DEF JudgeQuiet
    <3> QED
      BY <2>1, <3>1, <3>2, <3>3 DEF NothingSeen, StartedOver
  <2> QED
    BY <2>3, <2>4, <2>5
<1>4. CASE NoteDelivery
  <2>1. /\ where[Judge] = "idle" /\ judgedAt' = now /\ obs' = payload /\ Moves(Judge, "tick")
        /\ UNCHANGED <<now, menu, connected, payload, st, asked, spell>>
    BY <1>4 DEF NoteDelivery, world
  <2>2. "tick" \in Places(Judge)
    BY PlacesOf
  <2>3. where'[Judge] = "tick"
    BY <1>0, <1>p, <2>1, <2>2, MovesEffect, Zenon
  <2> QED
    BY <2>1, <2>3 DEF LookTaken
<1>5. CASE Tick /\ connected
  <2>0. NoteDelivery \/ Tick \/ Suspend
    BY <1>5
  <2>1. where[Judge] = "tick"
    BY <1>5, Zenon DEF Tick
  <2>2. /\ where'[Judge] = Verdict /\ obs' = NoPayload
        /\ spell' = IF Judged.dormant THEN NoSpell(TRUE) ELSE Spelled
        /\ asked' = IF Judged.dormant # st.dormant THEN now ELSE asked
        /\ UNCHANGED <<now, menu, connected, payload, judgedAt>>
    <3>1. "tick" # "idle" /\ "tick" # "suspend"
      OBVIOUS
    <3> QED
      BY <1>5, <2>0, <2>1, <3>1, JudgeEffect, Zenon
  <2> QED
    BY <1>5, <2>1, <2>2, Zenon DEF JudgementMade
<1>6. CASE Tick /\ ~connected
  <2>1. /\ where[Judge] = "tick" /\ Moves(Judge, "idle") /\ obs' = NoPayload
        /\ UNCHANGED <<now, menu, connected, payload, st, spell, judgedAt, asked>>
    BY <1>6 DEF Tick, world
  <2>2. "idle" \in Places(Judge)
    BY PlacesOf DEF InFunnel
  <2>3. where'[Judge] = "idle"
    BY <1>0, <1>p, <2>1, <2>2, MovesEffect, Zenon
  <2> QED
    BY <1>6, <2>1, <2>3 DEF JudgementDropped
<1>7. CASE Suspend
  <2>1. /\ where[Judge] = "suspend" /\ Moves(Judge, "idle")
        /\ UNCHANGED <<now, menu, connected, payload, obs, st, spell, judgedAt, asked>>
    BY <1>7 DEF Suspend, world
  <2>2. "idle" \in Places(Judge)
    BY PlacesOf DEF InFunnel
  <2>3. where'[Judge] = "idle"
    BY <1>0, <1>p, <2>1, <2>2, MovesEffect, Zenon
  <2> QED
    BY <2>1, <2>3 DEF NothingSeen, JudgeQuiet
<1>8. CASE LinkUp \/ Replay \/ ResetAll \/ Reconnected \/ LinkDown \/ StopOnDrop
  <2>1. UNCHANGED <<now, menu, payload, judgedAt, obs>> /\ where'[Judge] = where[Judge]
    BY <1>8, <1>p, LoopEffect
  <2>2. CASE LinkUp
    BY <2>1, <2>2 DEF LinkUp, AskedAgain
  <2>3. CASE ResetAll
    BY <2>1, <2>3 DEF ResetAll, Reset, StartedOver, JudgeQuiet
  <2>4. CASE Replay \/ Reconnected \/ StopOnDrop
    BY <2>1, <2>4 DEF Replay, Reconnected, StopOnDrop, NothingSeen, JudgeQuiet
  <2>5. CASE LinkDown
    <3>1. ~connected' /\ UNCHANGED <<st, spell, asked>>
      BY <2>5, Zenon DEF LinkDown
    <3> QED
      BY <2>1, <3>1 DEF NothingSeen, JudgeQuiet
  <2> QED
    BY <1>8, <2>2, <2>3, <2>4, <2>5
<1>9. CASE GraceEnds \/ SuspendCollector
  BY <1>9 DEF GraceEnds, SuspendCollector, NothingSeen, JudgeQuiet, world
<1>10. CASE Poll
  BY <1>10 DEF Poll, ReadingMade, JudgeQuiet, world
<1>11. CASE MenuChanges
  BY <1>11 DEF MenuChanges, AskedAgain
<1>12. CASE Advance
  BY <1>12 DEF Advance, TimePasses
<1> QED
  BY <1>1, <1>2, <1>3, <1>4, <1>5, <1>6, <1>7, <1>8, <1>9, <1>10, <1>11, <1>12 DEF DemandNext

-----------------------------------------------------------------------------
(* One reading is not enough *)

\* A payload the judge has counted, and not slept on, is in the spell if it was
\* bad, and has ended the streak if it was not.
CountedFits(p, s, sp) ==
    p.ts # 0 /\ p.ts = s.lastTS /\ ~s.dormant =>
        (Bad(p) => sp.from # 0) /\ (~Bad(p) => s.streak = 0)

\* The streak is made of readings, and of Restamps that passed.
StreakFits(streak, readings, from, at) ==
    streak <= readings \/ at >= from + (streak - readings) * Restamp

SpellFits(s, sp, at) ==
    /\ s.lastCountedAt <= at /\ sp.from <= s.lastCountedAt
    /\ ~s.dormant => /\ sp.from = 0 => s.streak = 0
                     /\ StreakFits(s.streak, sp.readings, sp.from, s.lastCountedAt)

\* Payloads with one timestamp are one payload.
Stamped ==
    /\ payload.ts = obs.ts => payload = obs
    /\ payload.ts = 0 => payload = NoPayload

SpellInv ==
    /\ DemandTypeOK /\ Stamped
    /\ judgedAt <= now /\ (where[Judge] = "tick" => judgedAt # 0)
    /\ CountedFits(payload, st, spell) /\ CountedFits(obs, st, spell)
    /\ SpellFits(st, spell, judgedAt)

\* A payload keeps its timestamp to itself.
LEMMA StampedNext == DemandTypeOK /\ Stamped /\ [DemandNext]_demandVars => Stamped'
<1> SUFFICES ASSUME DemandTypeOK, Stamped, [DemandNext]_demandVars PROVE Stamped'
  OBVIOUS
<1>0. NoPayload.ts = 0
  BY DEF NoPayload, Payload
<1>1. CASE UNCHANGED <<payload, obs>>
  BY <1>1, Zenon DEF Stamped, NoPayload, Payload
<1>2. CASE Read /\ UNCHANGED obs
  <2>1. payload' = payload \/ payload'.ts \notin {0, obs.ts}
    BY <1>2, ReadEffect
  <2>2. CASE payload' = payload
    BY <1>1, <1>2, <2>2
  <2>3. CASE payload'.ts # 0 /\ payload'.ts # obs.ts
    BY <1>2, <2>3, Zenon DEF Stamped
  <2> QED
    BY <2>1, <2>2, <2>3
<1>3. CASE obs' = payload /\ UNCHANGED payload
  BY <1>3, Zenon DEF Stamped, NoPayload, Payload
<1>4. CASE obs' = NoPayload /\ UNCHANGED payload
  <2>1. payload'.ts = 0 => payload' = NoPayload
    BY <1>4, Zenon DEF Stamped
  <2>2. obs' = NoPayload /\ obs'.ts = 0
    BY <1>0, <1>4
  <2> QED
    BY <2>1, <2>2, Zenon DEF Stamped, NoPayload, Payload
<1>5. \/ NothingSeen \/ AskedAgain \/ ReadingMade \/ StartedOver
      \/ LookTaken \/ JudgementMade \/ JudgementDropped \/ TimePasses
  BY WatchSteps
<1> QED
  BY <1>1, <1>2, <1>3, <1>4, <1>5, Zenon
  DEF NothingSeen, AskedAgain, ReadingMade, StartedOver, LookTaken, JudgementMade, JudgementDropped, TimePasses

\* A bad observation that counts lengthens the streak by one, and the spell by a
\* reading or by a Restamp.
LEMMA SpelledFits ==
    ASSUME SpellInv, where[Judge] = "tick", obs.ts # 0, Bad(obs), Counts(st, obs, judgedAt), ~st.dormant
    PROVE  /\ Spelled.from # 0 /\ Spelled.from <= judgedAt
           /\ StreakFits(st.streak + 1, Spelled.readings, Spelled.from, judgedAt)
<1>0. /\ st \in States /\ judgedAt \in Nat /\ judgedAt # 0 /\ Restamp \in Nat
      /\ spell \in [from : 0 .. MaxTime, readings : Nat, slept : BOOLEAN]
  BY DemandNumbers DEF SpellInv, DemandTypeOK
<1>1. /\ st.streak \in Nat /\ st.lastCountedAt \in Nat /\ spell.from \in Nat /\ spell.readings \in Nat
  BY <1>0, StateFields
<1>2. Spelled = [spell EXCEPT !.from = IF @ = 0 THEN judgedAt ELSE @,
                              !.readings = @ + IF obs.ts # st.lastTS THEN 1 ELSE 0]
  BY Zenon DEF Spelled
<1>3. /\ Spelled.from = IF spell.from = 0 THEN judgedAt ELSE spell.from
      /\ Spelled.readings = spell.readings + IF obs.ts # st.lastTS THEN 1 ELSE 0
  BY <1>0, <1>2
<1>4. /\ st.lastCountedAt <= judgedAt /\ spell.from <= st.lastCountedAt
      /\ spell.from = 0 => st.streak = 0
      /\ StreakFits(st.streak, spell.readings, spell.from, st.lastCountedAt)
  BY DEF SpellInv, SpellFits
<1>5. Spelled.from # 0 /\ Spelled.from <= judgedAt
  BY <1>0, <1>1, <1>3, <1>4
<1>6. CASE obs.ts # st.lastTS
  <2>1. Spelled.readings = spell.readings + 1
    BY <1>1, <1>3, <1>6
  <2>2. CASE st.streak <= spell.readings
    BY <1>1, <2>1, <2>2, <1>5 DEF StreakFits
  <2>3. CASE ~(st.streak <= spell.readings)
    <3>1. Spelled.from = spell.from
      BY <1>1, <1>3, <1>4, <2>3
    <3>2. st.lastCountedAt >= spell.from + (st.streak - spell.readings) * Restamp
      BY <1>4, <2>3 DEF StreakFits
    <3>3. (st.streak + 1) - (spell.readings + 1) = st.streak - spell.readings
      BY <1>1
    <3> DEFINE m == (st.streak - spell.readings) * Restamp
    <3>4. m \in Nat
      BY <1>0, <1>1, <2>3
    <3> HIDE DEF m
    <3>5. judgedAt >= spell.from + m
      BY <1>0, <1>1, <1>4, <3>2, <3>4 DEF m
    <3>6. judgedAt >= Spelled.from + ((st.streak + 1) - Spelled.readings) * Restamp
      BY <2>1, <3>1, <3>3, <3>5 DEF m
    <3> QED
      BY <1>5, <3>6 DEF StreakFits
  <2> QED
    BY <2>2, <2>3
<1>7. CASE obs.ts = st.lastTS
  <2>1. Spelled.readings = spell.readings
    BY <1>1, <1>3, <1>7
  <2>2. spell.from # 0 /\ Spelled.from = spell.from
    BY <1>3, <1>7 DEF SpellInv, CountedFits
  <2>3. judgedAt >= st.lastCountedAt + Restamp
    BY <1>7 DEF Counts
  <2>4. CASE st.streak < spell.readings
    BY <1>1, <1>5, <2>1, <2>4 DEF StreakFits
  <2>5. CASE ~(st.streak < spell.readings)
    <3> DEFINE d == st.streak - spell.readings
               m == d * Restamp
    <3>1. d \in Nat
      BY <1>1, <2>5
    <3>2. (st.streak + 1) - Spelled.readings = d + 1
      BY <1>1, <2>1
    <3>3. d = 0 \/ st.lastCountedAt >= spell.from + m
      BY <1>1, <1>4, <2>5 DEF StreakFits
    <3> HIDE DEF d
    <3>4. m \in Nat /\ (d + 1) * Restamp = m + Restamp /\ (d = 0 => m = 0)
      BY <1>0, <3>1
    <3> HIDE DEF m
    <3>5. st.lastCountedAt >= spell.from + m
      BY <1>1, <1>4, <3>3, <3>4
    <3>6. judgedAt >= spell.from + (m + Restamp)
      BY <1>0, <1>1, <2>3, <3>4, <3>5
    <3> QED
      BY <1>5, <2>2, <3>2, <3>4, <3>6 DEF StreakFits
  <2> QED
    BY <1>1, <2>4, <2>5
<1> QED
  BY <1>6, <1>7

\* Where no spell has begun there is nothing to fit.
LEMMA NoSpellFits ==
    ASSUME NEW s, NEW sp, NEW at \in Nat, sp.from = 0, s.lastCountedAt \in Nat, s.lastCountedAt <= at,
           s.dormant \/ (s.streak = 0 /\ sp.readings \in Nat)
    PROVE  SpellFits(s, sp, at)
<1>1. s.lastCountedAt <= at /\ sp.from <= s.lastCountedAt
  OBVIOUS
<1>2. ~s.dormant => s.streak = 0 /\ s.streak <= sp.readings
  OBVIOUS
<1> QED
  BY <1>1, <1>2, Zenon DEF SpellFits, StreakFits

\* What a judgement that leaves the collector awake makes of the spell.
LEMMA SpellJudged ==
    ASSUME SpellInv, JudgementMade
    PROVE  CountedFits(payload, st', spell') /\ SpellFits(st', spell', judgedAt)
<1>0. /\ DemandTypeOK /\ Stamped /\ st \in States /\ obs \in Payloads /\ judgedAt \in 0 .. MaxTime
      /\ judgedAt \in Nat /\ judgedAt # 0 /\ where[Judge] = "tick" /\ Tick /\ connected
      /\ CountedFits(payload, st, spell) /\ CountedFits(obs, st, spell) /\ SpellFits(st, spell, judgedAt)
  BY DEF SpellInv, DemandTypeOK, JudgementMade
<1>1. /\ st' \in States /\ st'.dormant = Judged.dormant /\ st'.streak = Judged.streak
      /\ st'.lastTS = Judged.lastTS /\ st'.lastCountedAt = Judged.lastCountedAt
  BY <1>0, JudgedEffect, Zenon
<1>2. spell' = IF Judged.dormant THEN NoSpell(TRUE) ELSE Spelled
  BY DEF JudgementMade
<1>3. /\ st.streak \in Nat /\ st.lastCountedAt \in Nat /\ st.lastCountedAt <= judgedAt
  BY <1>0, StateFields DEF SpellFits
<1>4. CASE obs.ts = 0 \/ ~Counts(st, obs, judgedAt)
  <2>1. Judged = st
    BY <1>4, ObserveNothing DEF Judged
  <2>2. CASE st.dormant
    <3>1. spell' = NoSpell(TRUE) /\ spell'.from = 0 /\ st'.dormant
      BY <1>1, <1>2, <2>1, <2>2 DEF NoSpell
    <3>2. st'.lastCountedAt = st.lastCountedAt
      BY <1>1, <2>1
    <3>3. st'.lastCountedAt \in Nat /\ st'.lastCountedAt <= judgedAt
      BY <1>3, <3>2
    <3>4. SpellFits(st', spell', judgedAt)
      BY <1>0, <3>1, <3>3, NoSpellFits, Zenon
    <3> QED
      BY <3>1, <3>4, Zenon DEF CountedFits
  <2>3. CASE ~st.dormant /\ obs.ts = 0
    <3>1. spell' = spell
      BY <1>2, <2>1, <2>3, Zenon DEF Spelled
    <3> QED
      BY <1>0, <1>1, <2>1, <3>1 DEF CountedFits, SpellFits
  <2>4. CASE ~st.dormant /\ obs.ts # 0
    <3>0. obs.ts = st.lastTS
      BY <1>4, <2>4 DEF Counts
    <3>a. payload.ts = obs.ts => payload = obs
      BY <1>0 DEF Stamped
    <3>1. CASE ~Bad(obs)
      <4>1. spell' = NoSpell(spell.slept)
        BY <1>2, <2>1, <2>4, <3>1, Zenon DEF Spelled
      <4>2. st.streak = 0
        BY <1>0, <2>4, <3>0, <3>1 DEF CountedFits
      <4>3. spell'.from = 0 /\ spell'.readings = 0
        BY <4>1 DEF NoSpell
      <4>4. CountedFits(payload, st', spell')
        BY <1>1, <2>1, <3>0, <3>1, <3>a, <4>2 DEF CountedFits
      <4> QED
        BY <1>1, <1>3, <2>1, <4>2, <4>3, <4>4 DEF SpellFits, StreakFits
    <3>2. CASE Bad(obs)
      <4>1. spell.from # 0
        BY <1>0, <2>4, <3>0, <3>2 DEF CountedFits
      <4>2. spell' = [spell EXCEPT !.from = IF @ = 0 THEN judgedAt ELSE @,
                                   !.readings = @ + IF obs.ts # st.lastTS THEN 1 ELSE 0]
        BY <1>2, <2>1, <2>4, <3>2, Zenon DEF Spelled
      <4>3. spell \in [from : 0 .. MaxTime, readings : Nat, slept : BOOLEAN]
        BY <1>0 DEF DemandTypeOK
      <4>4. spell'.from = spell.from /\ spell'.readings = spell.readings
        BY <3>0, <4>1, <4>2, <4>3
      <4>5. CountedFits(payload, st', spell')
        BY <1>1, <2>1, <3>0, <3>2, <3>a, <4>1, <4>4 DEF CountedFits
      <4> QED
        BY <1>0, <1>1, <2>1, <4>4, <4>5 DEF SpellFits
    <3> QED
      BY <3>1, <3>2
  <2> QED
    BY <2>2, <2>3, <2>4
<1>5. CASE obs.ts # 0 /\ Counts(st, obs, judgedAt)
  <2>a. payload.ts = obs.ts => payload = obs
    BY <1>0 DEF Stamped
  <2>1. CASE ~Bad(obs)
    <3>1. ~Judged.dormant /\ Judged.streak = 0 /\ Judged.lastTS = obs.ts /\ Judged.lastCountedAt = judgedAt
      BY <1>0, <1>5, <2>1, ObserveRows, Zenon DEF Judged
    <3>2. spell' = NoSpell(spell.slept)
      BY <1>2, <1>5, <2>1, <3>1, Zenon DEF Spelled
    <3>3. spell'.from = 0 /\ spell'.readings = 0
      BY <3>2 DEF NoSpell
    <3>4. CountedFits(payload, st', spell')
      BY <1>1, <2>1, <2>a, <3>1 DEF CountedFits
    <3> QED
      BY <1>0, <1>1, <3>1, <3>3, <3>4 DEF SpellFits, StreakFits
  <2>2. CASE Bad(obs) /\ st.dormant
    <3>1. Judged.dormant /\ Judged.lastCountedAt = judgedAt
      BY <1>0, <1>5, <2>2, ObserveAsleep, Zenon DEF Judged
    <3>2. spell'.from = 0
      BY <1>2, <3>1 DEF NoSpell
    <3> QED
      BY <1>0, <1>1, <3>1, <3>2 DEF CountedFits, SpellFits
  <2>3. CASE Bad(obs) /\ ~st.dormant
    <3>1. /\ Judged.lastTS = obs.ts /\ Judged.lastCountedAt = judgedAt
          /\ Judged.dormant \/ (~Judged.dormant /\ Judged.streak = st.streak + 1)
      BY <1>0, <1>5, <2>3, ObserveBad, Zenon DEF Judged
    <3>2. CASE Judged.dormant
      <4>1. spell'.from = 0
        BY <1>2, <3>2 DEF NoSpell
      <4> QED
        BY <1>0, <1>1, <3>1, <3>2, <4>1 DEF CountedFits, SpellFits
    <3>3. CASE ~Judged.dormant
      <4>1. spell' = Spelled
        BY <1>2, <3>3
      <4>2. /\ Spelled.from # 0 /\ Spelled.from <= judgedAt
            /\ StreakFits(st.streak + 1, Spelled.readings, Spelled.from, judgedAt)
        BY <1>0, <1>5, <2>3, SpelledFits
      <4>3. CountedFits(payload, st', spell')
        BY <1>1, <2>3, <2>a, <3>1, <4>1, <4>2 DEF CountedFits
      <4>4. SpellFits(st', spell', judgedAt)
        BY <1>0, <1>1, <3>1, <3>3, <4>1, <4>2 DEF SpellFits
      <4> QED
        BY <4>3, <4>4
    <3> QED
      BY <3>2, <3>3
  <2> QED
    BY <2>1, <2>2, <2>3
<1> QED
  BY <1>4, <1>5

\* Every step keeps the invariant.
LEMMA SpellNext == SpellInv /\ [DemandNext]_demandVars => SpellInv'
<1> SUFFICES ASSUME SpellInv, [DemandNext]_demandVars PROVE SpellInv'
  OBVIOUS
<1>0. DemandTypeOK' /\ Stamped' /\ DemandTypeOK /\ Stamped
  BY DemandTypeNext, StampedNext DEF SpellInv
<1>n. /\ now \in Nat /\ now >= 1 /\ judgedAt \in Nat /\ st \in States /\ st.lastCountedAt \in Nat
      /\ judgedAt <= now
  BY <1>0, StateFields DEF DemandTypeOK, SpellInv
<1>f. CountedFits(payload, st, spell) /\ CountedFits(obs, st, spell) /\ SpellFits(st, spell, judgedAt)
  BY DEF SpellInv
<1>z. NoPayload.ts = 0
  BY DEF NoPayload, Payload
<1>1. ASSUME UNCHANGED <<now, payload, obs, st, spell, judgedAt>>, where'[Judge] = "tick" => where[Judge] = "tick"
      PROVE  SpellInv'
  BY <1>1, <1>0 DEF SpellInv
<1>q. JudgeQuiet \/ (where[Judge] = "look" /\ where'[Judge] = "idle") => (where'[Judge] = "tick" => where[Judge] = "tick")
  BY DEF JudgeQuiet
<1>2. CASE NothingSeen \/ AskedAgain
  BY <1>1, <1>2, <1>q DEF NothingSeen, AskedAgain
<1>3. CASE ReadingMade
  <2>1. UNCHANGED <<now, obs, st, spell, judgedAt>> /\ Read /\ (where'[Judge] = "tick" => where[Judge] = "tick")
    BY <1>3, <1>q DEF ReadingMade
  <2>2. payload' = payload \/ payload'.ts # st.lastTS
    BY <1>0, <2>1, ReadEffect
  <2>3. CASE payload' = payload
    BY <1>1, <2>1, <2>3
  <2>4. CASE payload'.ts # st.lastTS
    BY <1>0, <1>f, <2>1, <2>4 DEF SpellInv, CountedFits
  <2> QED
    BY <2>2, <2>3, <2>4
<1>4. CASE StartedOver
  <2>1. /\ st' = Awake /\ spell'.from = 0 /\ spell'.readings = 0
        /\ UNCHANGED <<now, payload, obs, judgedAt>> /\ (where'[Judge] = "tick" => where[Judge] = "tick")
    BY <1>4, <1>q DEF StartedOver, NoSpell
  <2>2. ~st'.dormant /\ st'.streak = 0 /\ st'.lastTS = 0 /\ st'.lastCountedAt = 0
    BY <2>1, AwakeType
  <2>3. CountedFits(payload', st', spell') /\ CountedFits(obs', st', spell')
    BY <2>2 DEF CountedFits
  <2>4. SpellFits(st', spell', judgedAt')
    BY <1>n, <2>1, <2>2 DEF SpellFits, StreakFits
  <2> QED
    BY <1>0, <2>1, <2>3, <2>4 DEF SpellInv
<1>5. CASE LookTaken
  <2>1. /\ judgedAt' = now /\ obs' = payload /\ UNCHANGED <<now, payload, st, spell>>
    BY <1>5 DEF LookTaken
  <2>2. SpellFits(st', spell', judgedAt')
    BY <1>n, <1>f, <2>1 DEF SpellFits
  <2> QED
    BY <1>0, <1>n, <1>f, <2>1, <2>2 DEF SpellInv
<1>6. CASE JudgementMade
  <2>1. /\ obs' = NoPayload /\ where'[Judge] # "tick" /\ UNCHANGED <<now, payload, judgedAt>>
    <3>1. Verdict # "tick"
      BY DEF Verdict
    <3> QED
      BY <1>6, <3>1, Zenon DEF JudgementMade
  <2>2. CountedFits(payload, st', spell') /\ SpellFits(st', spell', judgedAt)
    BY <1>6, SpellJudged
  <2>3. CountedFits(obs', st', spell')
    BY <1>z, <2>1 DEF CountedFits
  <2> QED
    BY <1>0, <1>n, <2>1, <2>2, <2>3 DEF SpellInv
<1>7. CASE JudgementDropped
  <2>1. /\ obs' = NoPayload /\ where'[Judge] # "tick" /\ UNCHANGED <<now, payload, judgedAt, st, spell>>
    BY <1>7 DEF JudgementDropped
  <2>2. CountedFits(obs', st', spell')
    BY <1>z, <2>1 DEF CountedFits
  <2> QED
    BY <1>0, <1>n, <1>f, <2>1, <2>2 DEF SpellInv
<1>8. CASE TimePasses
  BY <1>0, <1>n, <1>f, <1>8 DEF SpellInv, TimePasses
<1> QED
  BY <1>0, <1>2, <1>3, <1>4, <1>5, <1>6, <1>7, <1>8, WatchSteps

\* A reading that stands still is not condemned by the judge looking at it,
\* whatever the threshold and however long a Restamp is.
THEOREM OneReadingIsNotEnoughHolds == DemandSpec => OneReadingIsNotEnough
<1> DEFINE Enough == ~st.dormant /\ st'.dormant /\ obs.holds = "nothing"
        => \/ Spelled.readings >= EmptyThreshold
           \/ judgedAt >= Spelled.from + (EmptyThreshold - Spelled.readings) * Restamp
<1>1. DemandInit => SpellInv
  <2> SUFFICES ASSUME DemandInit PROVE SpellInv
    OBVIOUS
  <2>1. /\ DemandTypeOK /\ payload = NoPayload /\ obs = NoPayload /\ st = Awake /\ judgedAt = 0
        /\ now = 1 /\ spell = NoSpell(FALSE)
    BY DemandTypeInit DEF DemandInit
  <2>2. where[Judge] = "idle"
    BY PlacesOf DEF DemandInit
  <2>3. NoPayload.ts = 0 /\ spell.from = 0 /\ spell.readings = 0
    BY <2>1 DEF NoPayload, Payload, NoSpell
  <2>4. CountedFits(payload, st, spell) /\ CountedFits(obs, st, spell)
    BY <2>1, <2>3 DEF CountedFits
  <2>0. judgedAt = 0
    BY <2>1
  <2>a. st.streak = 0 /\ st.lastCountedAt = 0
    BY <2>1, AwakeType, Zenon
  <2>5. SpellFits(st, spell, judgedAt)
    <3>1. judgedAt \in Nat /\ st.lastCountedAt \in Nat /\ st.lastCountedAt <= judgedAt /\ spell.readings \in Nat
      BY <2>0, <2>3, <2>a
    <3> QED
      BY <2>3, <2>a, <3>1, NoSpellFits, Zenon
  <2>6. Stamped
    BY <2>1, Zenon DEF Stamped
  <2>7. judgedAt <= now /\ ~(where[Judge] = "tick")
    BY <2>1, <2>2
  <2> QED
    BY <2>1, <2>4, <2>5, <2>6, <2>7, Zenon DEF SpellInv
<1>2. SpellInv /\ [DemandNext]_demandVars => SpellInv'
  BY SpellNext
<1>3. SpellInv /\ [DemandNext]_demandVars => [Enough]_demandVars
  <2> SUFFICES ASSUME SpellInv, [DemandNext]_demandVars, ~st.dormant, st'.dormant, obs.holds = "nothing"
               PROVE  StreakFits(EmptyThreshold, Spelled.readings, Spelled.from, judgedAt)
    <3>1. SpellInv => Spelled.readings \in Nat
      BY SpellType DEF SpellInv
    <3> QED
      BY <3>1, DemandNumbers DEF StreakFits
  <2>0. DemandTypeOK
    BY DEF SpellInv
  <2>1. st' # st /\ st' # Awake
    BY AwakeType
  <2>2. JudgementMade
    BY <2>0, <2>1, WatchSteps
    DEF NothingSeen, AskedAgain, ReadingMade, StartedOver, LookTaken, JudgementDropped, TimePasses
  <2>3. /\ Tick /\ connected /\ where[Judge] = "tick"
    BY <2>2 DEF JudgementMade
  <2>4. st'.dormant = Judged.dormant
    BY <2>0, <2>3, JudgedEffect, Zenon
  <2>5. Judged.dormant
    BY <2>4
  <2>6. /\ st \in States /\ obs \in Payloads /\ judgedAt \in 0 .. MaxTime
    BY <2>0 DEF DemandTypeOK
  <2>7. obs.ts # 0 /\ Counts(st, obs, judgedAt)
    BY <2>5, ObserveNothing, Zenon DEF Judged
  <2>8. Bad(obs)
    BY DEF Bad
  <2>9. st.streak + 1 = EmptyThreshold
    <3>1. obs.holds # "nothing supported"
      OBVIOUS
    <3> QED
      BY <2>5, <2>6, <2>7, <2>8, <3>1, ObserveBad, Zenon DEF Judged
  <2>10. StreakFits(st.streak + 1, Spelled.readings, Spelled.from, judgedAt)
    BY <2>3, <2>7, <2>8, SpelledFits
  <2> QED
    BY <2>9, <2>10
<1> QED
  BY <1>1, <1>2, <1>3, PTL DEF DemandSpec, OneReadingIsNotEnough

-----------------------------------------------------------------------------
(* Rows wake the sleeper *)

\* A payload the judge has not counted yet.
Uncounted(p) == p.ts \notin {0, st.lastTS}

\* The judge holds rows, or finds them when it looks next.
Found == where[Judge] = "tick" /\ Uncounted(obs) /\ ~Bad(obs)
RowsRead == Uncounted(payload) /\ ~Bad(payload)

\* A look, or the judgement it leads to, that was not made after t or was not
\* made since the collector was asked for.
Before(place, look, since, t) ==
    IF place = "tick" THEN look <= t \/ look <= since + 1 ELSE look < t \/ look <= since

\* How long a collector has been asleep on rows: its judge holds them, or finds
\* them when it looks next, or waits for a probe, or will make one.
InTime ==
    /\ Found => judgedAt <= asked + MaxBackoff + ProbeTimeout + 1
    /\ ~Found /\ RowsRead => judgedAt <= asked + MaxBackoff + ProbeTimeout
    /\ ~Found /\ ~RowsRead /\ st.probing =>
          \/ where[Judge] = "look" /\ judgedAt <= asked + MaxBackoff + ProbeTimeout
          \/ st.probeDeadline <= asked + ProbeTimeout /\ Before(where[Judge], judgedAt, asked, st.probeDeadline)
    /\ ~Found /\ ~RowsRead /\ ~st.probing =>
          /\ st.wakeAt <= asked + MaxBackoff + ProbeTimeout
          /\ Before(where[Judge], judgedAt, asked, st.wakeAt)
    /\ Uncounted(payload) /\ Bad(payload) =>
          judgedAt <= asked \/ (where[Judge] = "tick" /\ obs = payload)
    /\ where[Judge] = "tick" /\ Uncounted(obs) /\ Bad(obs) => judgedAt <= asked + 1

\* The judge keeps up with the clock, and the deadlines are of its last look.
Punctual ==
    /\ judgedAt <= now /\ now <= judgedAt + 1 /\ asked <= now
    /\ where[Judge] # "idle" => now = judgedAt
    /\ st.dormant => st.wakeAt <= judgedAt + MaxBackoff
    /\ st.probing => st.probeDeadline <= judgedAt + ProbeTimeout

WakeInv ==
    /\ DemandTypeOK /\ Stamped /\ Punctual
    /\ where[Judge] = "tick" => payload = obs \/ Uncounted(payload)
    /\ connected /\ menu = "rows" /\ st.dormant => InTime

\* The instants, as numbers.
LEMMA Instants ==
    ASSUME DemandTypeOK
    PROVE  /\ now \in Nat /\ now >= 1 /\ judgedAt \in Nat /\ asked \in Nat
           /\ st \in States /\ obs \in Payloads /\ judgedAt \in 0 .. MaxTime
           /\ st.wakeAt \in Nat /\ st.probeDeadline \in Nat
           /\ st.delay \in Nat /\ st.delay > 0 /\ st.delay <= MaxBackoff
           /\ st.dormant \in BOOLEAN /\ st.probing \in BOOLEAN
<1>1. /\ now \in Nat /\ now >= 1 /\ judgedAt \in Nat /\ asked \in Nat
      /\ st \in States /\ obs \in Payloads /\ judgedAt \in 0 .. MaxTime
  BY DEF DemandTypeOK
<1>2. /\ st.wakeAt \in Nat /\ st.probeDeadline \in Nat /\ st.dormant \in BOOLEAN /\ st.probing \in BOOLEAN
      /\ st.delay \in Nat /\ Backoff <= st.delay /\ st.delay <= MaxBackoff
  BY <1>1, StateFields
<1> QED
  BY <1>1, <1>2, DemandNumbers

\* When the collector has been asked for since the last look, it is in time.
LEMMA JustAskedBounds ==
    ASSUME NEW look \in Nat, NEW since \in Nat, NEW wake \in Nat, NEW probe \in Nat, look <= since
    PROVE  /\ \A place, t : Before(place, look, since, t)
           /\ look <= since + MaxBackoff + ProbeTimeout
           /\ look <= since + MaxBackoff + ProbeTimeout + 1 /\ look <= since + 1
           /\ wake <= look + MaxBackoff => wake <= since + MaxBackoff + ProbeTimeout
           /\ probe <= look + ProbeTimeout => probe <= since + ProbeTimeout
<1>1. look <= since + 1
  OBVIOUS
<1>2. \A place, t : Before(place, look, since, t)
  BY <1>1, Zenon DEF Before
<1> QED
  BY <1>2, DemandNumbers

LEMMA JustAsked ==
    ASSUME judgedAt' \in Nat, asked' \in Nat, st'.wakeAt \in Nat, st'.probeDeadline \in Nat,
           judgedAt' <= asked', st'.dormant, Punctual'
    PROVE  InTime'
<1>1. /\ st'.wakeAt <= judgedAt' + MaxBackoff
      /\ st'.probing => st'.probeDeadline <= judgedAt' + ProbeTimeout
  BY Zenon DEF Punctual
<1>2. /\ Before(where'[Judge], judgedAt', asked', st'.wakeAt)
      /\ Before(where'[Judge], judgedAt', asked', st'.probeDeadline)
      /\ judgedAt' <= asked' + MaxBackoff + ProbeTimeout
      /\ judgedAt' <= asked' + MaxBackoff + ProbeTimeout + 1 /\ judgedAt' <= asked' + 1
      /\ st'.wakeAt <= judgedAt' + MaxBackoff => st'.wakeAt <= asked' + MaxBackoff + ProbeTimeout
      /\ st'.probeDeadline <= judgedAt' + ProbeTimeout => st'.probeDeadline <= asked' + ProbeTimeout
  BY JustAskedBounds, Zenon
<1> QED
  BY <1>1, <1>2, Zenon DEF InTime

\* In time, a sleeper on rows was judged no later than this.
LEMMA InTimeBounds ==
    ASSUME DemandTypeOK, Punctual, InTime
    PROVE  now <= asked + MaxBackoff + ProbeTimeout + 1
<1> QED
  BY Instants, DemandNumbers DEF InTime, Punctual, Before, Found

\* What has a bound on when it was looked for has one on the look.
LEMMA BeforeBounds ==
    ASSUME NEW look \in Nat, NEW since \in Nat, NEW t \in Nat, NEW place, Before(place, look, since, t)
    PROVE  /\ look <= t \/ look <= since + 1
           /\ t <= since + ProbeTimeout => look <= since + ProbeTimeout
           /\ t <= since + MaxBackoff + ProbeTimeout => look <= since + MaxBackoff + ProbeTimeout
           /\ look <= since + ProbeTimeout => look <= since + MaxBackoff + ProbeTimeout
           /\ place # "tick" => look < t \/ look <= since
<1>1. look <= t \/ look <= since + 1
  BY DEF Before
<1>2. place # "tick" => look < t \/ look <= since
  BY DEF Before
<1> QED
  BY <1>1, <1>2, DemandNumbers

\* A judge that has not found the rows has looked for them in time.
LEMMA NotFoundBounds ==
    ASSUME DemandTypeOK, InTime, ~Found
    PROVE  /\ judgedAt <= asked + MaxBackoff + ProbeTimeout
           /\ ~RowsRead /\ st.probing /\ where[Judge] # "look" => judgedAt <= asked + ProbeTimeout
<1>0. judgedAt \in Nat /\ asked \in Nat /\ st.wakeAt \in Nat /\ st.probeDeadline \in Nat
  BY Instants
<1>1. CASE RowsRead
  BY <1>1, Zenon DEF InTime
<1>2. CASE ~RowsRead /\ st.probing
  <2>1. \/ where[Judge] = "look" /\ judgedAt <= asked + MaxBackoff + ProbeTimeout
        \/ st.probeDeadline <= asked + ProbeTimeout /\ Before(where[Judge], judgedAt, asked, st.probeDeadline)
    BY <1>2, Zenon DEF InTime
  <2> QED
    BY <1>0, <1>2, <2>1, BeforeBounds, Zenon
<1>3. CASE ~RowsRead /\ ~st.probing
  <2>1. st.wakeAt <= asked + MaxBackoff + ProbeTimeout /\ Before(where[Judge], judgedAt, asked, st.wakeAt)
    BY <1>3, Zenon DEF InTime
  <2> QED
    BY <1>0, <1>3, <2>1, BeforeBounds, Zenon
<1> QED
  BY <1>1, <1>2, <1>3

\* The four things an observation can be.
LEMMA JudgedKinds ==
    ASSUME DemandTypeOK
    PROVE  \/ Judged = st /\ ~Uncounted(obs)
           \/ ~Judged.dormant /\ ~Judged.probing
           \/ /\ st.dormant /\ Uncounted(obs) /\ Bad(obs) /\ Judged.dormant /\ ~Judged.probing
              /\ Judged.wakeAt = judgedAt + Judged.delay /\ Judged.lastTS = obs.ts
           \/ /\ ~st.dormant /\ Judged.probing = st.probing /\ Judged.probeDeadline = st.probeDeadline
              /\ Judged.dormant => Judged.wakeAt = judgedAt + Judged.delay
<1>0. st \in States /\ obs \in Payloads /\ judgedAt \in 0 .. MaxTime
  BY Instants
<1>1. CASE obs.ts = 0 \/ ~Counts(st, obs, judgedAt)
  <2>1. Judged = st
    BY <1>1, ObserveNothing DEF Judged
  <2>2. ~Uncounted(obs)
    BY <1>1 DEF Uncounted, Counts
  <2> QED
    BY <2>1, <2>2
<1>2. CASE obs.ts # 0 /\ Counts(st, obs, judgedAt) /\ ~Bad(obs)
  BY <1>0, <1>2, ObserveRows, Zenon DEF Judged
<1>3. CASE obs.ts # 0 /\ Counts(st, obs, judgedAt) /\ Bad(obs) /\ st.dormant
  <2>1. /\ Judged.dormant /\ ~Judged.probing /\ Judged.wakeAt = judgedAt + Judged.delay
        /\ Judged.lastTS = obs.ts
    BY <1>0, <1>3, ObserveAsleep, Zenon DEF Judged
  <2>2. Uncounted(obs)
    BY <1>3 DEF Uncounted, Counts
  <2> QED
    BY <1>3, <2>1, <2>2
<1>4. CASE obs.ts # 0 /\ Counts(st, obs, judgedAt) /\ Bad(obs) /\ ~st.dormant
  <2>1. /\ Judged.probing = st.probing /\ Judged.probeDeadline = st.probeDeadline
        /\ Judged.dormant => Judged.wakeAt = judgedAt + Judged.delay
    BY <1>0, <1>4, ObserveBad, Zenon DEF Judged
  <2> QED
    BY <1>4, <2>1
<1> QED
  BY <1>1, <1>2, <1>3, <1>4

\* The judge sets its deadlines from the look it acts on.
LEMMA PunctualJudged ==
    ASSUME DemandTypeOK, Punctual, JudgementMade
    PROVE  /\ st'.dormant => st'.wakeAt <= judgedAt + MaxBackoff
           /\ st'.probing => st'.probeDeadline <= judgedAt + ProbeTimeout
<1>0. Tick /\ connected /\ Judged \in States /\ judgedAt \in Nat /\ st \in States
  BY JudgedType, Instants DEF JudgementMade
<1>1. /\ st' \in States /\ st'.dormant = Judged.dormant
      /\ \/ /\ Judged.dormant /\ ~Judged.probing /\ judgedAt >= Judged.wakeAt
            /\ st'.probing /\ st'.probeDeadline = judgedAt + ProbeTimeout /\ st'.wakeAt = Judged.wakeAt
         \/ /\ Judged.dormant /\ Judged.probing /\ judgedAt >= Judged.probeDeadline
            /\ ~st'.probing /\ st'.wakeAt = judgedAt + st'.delay
         \/ st' = Judged
  BY <1>0, JudgedEffect, Zenon
<1>2. Judged.dormant => Judged.wakeAt <= judgedAt + MaxBackoff
  <2>1. Judged.wakeAt = judgedAt + Judged.delay => Judged.wakeAt <= judgedAt + MaxBackoff
    <3>1. Judged.delay \in Nat /\ Judged.delay <= MaxBackoff
      BY <1>0, StateFields
    <3>2. MaxBackoff \in Nat
      BY DemandNumbers
    <3> QED
      BY <1>0, <3>1, <3>2
  <2>2. st.dormant => st.wakeAt <= judgedAt + MaxBackoff
    BY DEF Punctual
  <2> QED
    BY <2>1, <2>2, JudgedKinds, Zenon
<1>3. Judged.probing => Judged.probeDeadline <= judgedAt + ProbeTimeout
  <2>1. st.probing => st.probeDeadline <= judgedAt + ProbeTimeout
    BY DEF Punctual
  <2> QED
    BY <2>1, JudgedKinds, Zenon
<1>4. st'.wakeAt = judgedAt + st'.delay => st'.wakeAt <= judgedAt + MaxBackoff
  <2>1. st'.delay \in Nat /\ st'.delay <= MaxBackoff
    BY <1>1, StateFields
  <2>2. MaxBackoff \in Nat
    BY DemandNumbers
  <2> QED
    BY <1>0, <2>1, <2>2
<1>5. st'.probeDeadline = judgedAt + ProbeTimeout => st'.probeDeadline <= judgedAt + ProbeTimeout
  BY <1>0, DemandNumbers
<1> QED
  BY <1>1, <1>2, <1>3, <1>4, <1>5, Zenon

\* Every step leaves the judge punctual.
LEMMA PunctualNext == DemandTypeOK /\ Punctual /\ [DemandNext]_demandVars => Punctual'
<1> SUFFICES ASSUME DemandTypeOK, Punctual, [DemandNext]_demandVars PROVE Punctual'
  OBVIOUS
<1>0. now \in Nat /\ now >= 1 /\ judgedAt \in Nat /\ asked \in Nat
  BY Instants
<1>a. judgedAt <= now /\ now <= judgedAt + 1 /\ asked <= now /\ (where[Judge] # "idle" => now = judgedAt)
  BY DEF Punctual
<1>b. /\ st.dormant => st.wakeAt <= judgedAt + MaxBackoff
      /\ st.probing => st.probeDeadline <= judgedAt + ProbeTimeout
  BY DEF Punctual
<1>1. ASSUME UNCHANGED <<now, judgedAt>>, asked' = asked \/ asked' = now, where[Judge] = "idle" => where'[Judge] = "idle",
             st'.dormant => st'.wakeAt <= judgedAt + MaxBackoff,
             st'.probing => st'.probeDeadline <= judgedAt + ProbeTimeout
      PROVE  Punctual'
  <2>1. asked' <= now
    <3>1. now <= now
      BY <1>0
    <3> QED
      BY <1>1, <1>a, <3>1, Zenon
  <2> QED
    BY <1>1, <1>a, <2>1, Zenon DEF Punctual
<1>2. CASE NothingSeen \/ AskedAgain
  <2>1. where[Judge] = "idle" => where'[Judge] = "idle"
    BY <1>2 DEF NothingSeen, AskedAgain, JudgeQuiet
  <2>2. UNCHANGED <<now, judgedAt, st>> /\ (asked' = asked \/ asked' = now)
    BY <1>2, Zenon DEF NothingSeen, AskedAgain
  <2> QED
    BY <1>1, <1>b, <2>1, <2>2, Zenon
<1>3. CASE ReadingMade
  <2>1. where[Judge] = "idle" => where'[Judge] = "idle"
    BY <1>3 DEF ReadingMade, JudgeQuiet
  <2>2. UNCHANGED <<now, judgedAt, st>> /\ (asked' = asked \/ asked' = now)
    BY <1>3, Zenon DEF ReadingMade, Read
  <2> QED
    BY <1>1, <1>b, <2>1, <2>2, Zenon
<1>4. CASE StartedOver
  <2>1. where[Judge] = "idle" => where'[Judge] = "idle"
    BY <1>4 DEF StartedOver, JudgeQuiet
  <2>2. UNCHANGED <<now, judgedAt, asked>> /\ st' = Awake
    BY <1>4, Zenon DEF StartedOver
  <2>3. ~st'.dormant /\ ~st'.probing
    BY <2>2, AwakeType
  <2> QED
    BY <1>1, <2>1, <2>2, <2>3, Zenon
<1>5. CASE LookTaken
  <2>1. judgedAt' = now /\ UNCHANGED <<now, st, asked>>
    BY <1>5 DEF LookTaken
  <2>2. st.wakeAt \in Nat /\ st.probeDeadline \in Nat
    BY Instants
  <2>3. /\ st.wakeAt <= judgedAt + MaxBackoff => st.wakeAt <= now + MaxBackoff
        /\ st.probeDeadline <= judgedAt + ProbeTimeout => st.probeDeadline <= now + ProbeTimeout
        /\ now <= now /\ now <= now + 1
    BY <1>0, <1>a, <2>2, DemandNumbers
  <2> QED
    BY <1>a, <1>b, <2>1, <2>3, Zenon DEF Punctual
<1>6. CASE JudgementMade
  <2>1. UNCHANGED <<now, judgedAt>> /\ (asked' = asked \/ asked' = now) /\ where[Judge] # "idle"
    BY <1>6 DEF JudgementMade
  <2> QED
    BY <1>1, <1>6, <2>1, PunctualJudged, Zenon
<1>7. CASE JudgementDropped
  <2>1. UNCHANGED <<now, judgedAt, asked, st>> /\ where[Judge] # "idle"
    BY <1>7 DEF JudgementDropped
  <2> QED
    BY <1>1, <1>b, <2>1, Zenon
<1>8. CASE TimePasses
  <2>1. now' = now + 1 /\ UNCHANGED <<judgedAt, asked, st>> /\ where'[Judge] = "idle" /\ ~JudgeDue
    BY <1>8 DEF TimePasses
  <2>2. now = judgedAt
    BY <1>0, <1>a, <2>1 DEF JudgeDue
  <2>3. judgedAt' <= now' /\ now' <= judgedAt' + 1 /\ asked' <= now'
    BY <1>0, <1>a, <2>1, <2>2
  <2> QED
    BY <1>b, <2>1, <2>3, Zenon DEF Punctual
<1> QED
  BY <1>2, <1>3, <1>4, <1>5, <1>6, <1>7, <1>8, WatchSteps

\* A reading of rows leaves the judge in time, and one that fails sets the clock
\* back.
LEMMA WakeReading ==
    ASSUME DemandTypeOK, DemandTypeOK', Punctual', InTime, ReadingMade, menu = "rows", st.dormant
    PROVE  InTime'
<1>0. Read /\ UNCHANGED <<now, obs, st, judgedAt>> /\ (where'[Judge] = "tick" <=> where[Judge] = "tick")
  BY DEF ReadingMade, JudgeQuiet
<1>n. /\ judgedAt \in Nat /\ asked \in Nat /\ now \in Nat /\ st.wakeAt \in Nat /\ st.probeDeadline \in Nat
  BY Instants
<1>1. CASE asked' = now
  <2>1. judgedAt' <= asked'
    BY <1>0, <1>1, Zenon DEF Punctual
  <2>2. judgedAt' \in Nat /\ asked' \in Nat /\ st'.wakeAt \in Nat /\ st'.probeDeadline \in Nat /\ st'.dormant
    BY <1>0, <1>1, <1>n, Zenon
  <2> QED
    BY <2>1, <2>2, JustAsked, Zenon
<1>2. CASE asked' = asked /\ payload'.ts \notin {0, payload.ts, obs.ts, st.lastTS} /\ payload'.holds = menu
  <2>1. RowsRead' /\ ~(Bad(payload))'
    BY <1>0, <1>2 DEF RowsRead, Uncounted, Bad
  <2>2. Found' <=> Found
    BY <1>0 DEF Found, Uncounted
  <2>3. ~Found => judgedAt <= asked + MaxBackoff + ProbeTimeout
    BY NotFoundBounds, Zenon
  <2>4. Found => judgedAt <= asked + MaxBackoff + ProbeTimeout + 1
    BY Zenon DEF InTime
  <2>5. where'[Judge] = "tick" /\ Uncounted(obs)' /\ Bad(obs)' => judgedAt' <= asked' + 1
    BY <1>0, <1>2, Zenon DEF InTime, Uncounted
  <2> QED
    BY <1>0, <1>2, <2>1, <2>2, <2>3, <2>4, <2>5, Zenon DEF InTime
<1> QED
  BY <1>0, <1>1, <1>2, ReadEffect

\* The next look finds what was read since the last one.
LEMMA WakeLook ==
    ASSUME DemandTypeOK, Punctual, InTime, LookTaken
    PROVE  InTime'
<1>0. /\ where[Judge] = "idle" /\ where'[Judge] = "tick" /\ judgedAt' = now /\ obs' = payload
      /\ UNCHANGED <<now, menu, connected, payload, st, asked, spell>>
  BY DEF LookTaken
<1>n. /\ judgedAt \in Nat /\ asked \in Nat /\ now \in Nat /\ st.wakeAt \in Nat /\ st.probeDeadline \in Nat
      /\ now <= judgedAt + 1
  BY Instants DEF Punctual
<1>1. ~Found /\ (Found' <=> RowsRead) /\ (RowsRead' <=> RowsRead)
  BY <1>0 DEF Found, RowsRead, Uncounted
<1>2. judgedAt <= asked + MaxBackoff + ProbeTimeout => now <= asked + MaxBackoff + ProbeTimeout + 1
  BY <1>n, DemandNumbers
<1>3. Found' => judgedAt' <= asked' + MaxBackoff + ProbeTimeout + 1
  BY <1>0, <1>1, <1>2, NotFoundBounds, Zenon
<1>4. \A t \in Nat : Before(where[Judge], judgedAt, asked, t) => Before(where'[Judge], judgedAt', asked', t)
  BY <1>0, <1>n DEF Before
<1>5. ~Found' /\ ~RowsRead' /\ st'.probing =>
          st'.probeDeadline <= asked' + ProbeTimeout /\ Before(where'[Judge], judgedAt', asked', st'.probeDeadline)
  <2>1. "idle" # "look"
    OBVIOUS
  <2>2. ~RowsRead /\ st.probing => st.probeDeadline <= asked + ProbeTimeout /\ Before(where[Judge], judgedAt, asked, st.probeDeadline)
    BY <1>0, <1>1, <2>1, Zenon DEF InTime
  <2> QED
    BY <1>0, <1>1, <1>4, <1>n, <2>2, Zenon
<1>6. ~Found' /\ ~RowsRead' /\ ~st'.probing =>
          /\ st'.wakeAt <= asked' + MaxBackoff + ProbeTimeout
          /\ Before(where'[Judge], judgedAt', asked', st'.wakeAt)
  <2>1. ~RowsRead /\ ~st.probing => /\ st.wakeAt <= asked + MaxBackoff + ProbeTimeout
                                    /\ Before(where[Judge], judgedAt, asked, st.wakeAt)
    BY <1>1, Zenon DEF InTime
  <2> QED
    BY <1>0, <1>1, <1>4, <1>n, <2>1, Zenon
<1>7. ASSUME Uncounted(obs)', Bad(obs)' PROVE judgedAt' <= asked' + 1
  <2>1. Uncounted(payload) /\ Bad(payload)
    BY <1>0, <1>7, Zenon DEF Uncounted
  <2>2. judgedAt <= asked
    <3>1. "idle" # "tick"
      OBVIOUS
    <3> QED
      BY <1>0, <2>1, <3>1, Zenon DEF InTime
  <2> QED
    BY <1>0, <1>n, <2>2
<1> QED
  BY <1>0, <1>1, <1>3, <1>5, <1>6, <1>7, Zenon DEF InTime

\* A delay runs from the judgement that sets it, which leaves the judge in time.
LEMMA DelayRuns ==
    ASSUME NEW s \in States, NEW look \in Nat, NEW since \in Nat, NEW place, s.wakeAt = look + s.delay
    PROVE  /\ look < s.wakeAt /\ ~(look >= s.wakeAt) /\ Before(place, look, since, s.wakeAt)
           /\ look <= since + ProbeTimeout => s.wakeAt <= since + MaxBackoff + ProbeTimeout
<1>1. s.delay \in Nat /\ s.delay > 0 /\ s.delay <= MaxBackoff /\ MaxBackoff \in Nat /\ ProbeTimeout \in Nat
  BY StateFields, DemandNumbers
<1>2. look < s.wakeAt /\ ~(look >= s.wakeAt) /\ look <= s.wakeAt
  BY <1>1
<1>3. Before(place, look, since, s.wakeAt)
  BY <1>2, Zenon DEF Before
<1>4. look <= since + ProbeTimeout => s.wakeAt <= since + MaxBackoff + ProbeTimeout
  BY <1>1
<1> QED
  BY <1>2, <1>3, <1>4

\* A judgement leaves the judge in time: it wakes the collector on rows, puts the
\* next probe off when it found nothing, makes one that is due, and settles one
\* that never reported back.
LEMMA WakeJudged ==
    ASSUME DemandTypeOK, DemandTypeOK', Punctual, Punctual', JudgementMade, st'.dormant,
           st.dormant => InTime, payload = obs \/ Uncounted(payload)
    PROVE  InTime'
<1>0. /\ Tick /\ connected /\ where[Judge] = "tick" /\ where'[Judge] = Verdict /\ obs' = NoPayload
      /\ asked' = IF Judged.dormant # st.dormant THEN now ELSE asked
      /\ UNCHANGED <<now, menu, connected, payload, judgedAt>>
  BY DEF JudgementMade
<1>n. /\ judgedAt \in Nat /\ asked \in Nat /\ now \in Nat /\ st.wakeAt \in Nat /\ st.probeDeadline \in Nat
      /\ st'.wakeAt \in Nat /\ st'.probeDeadline \in Nat /\ st.dormant \in BOOLEAN
  <2>1. st' \in States
    BY DEF DemandTypeOK
  <2> QED
    BY <2>1, Instants, StateFields
<1>e. /\ st' \in States /\ st'.dormant = Judged.dormant /\ st'.lastTS = Judged.lastTS
      /\ \/ /\ Judged.dormant /\ ~Judged.probing /\ judgedAt >= Judged.wakeAt
            /\ st'.probing /\ st'.probeDeadline = judgedAt + ProbeTimeout /\ st'.wakeAt = Judged.wakeAt
         \/ /\ Judged.dormant /\ Judged.probing /\ judgedAt >= Judged.probeDeadline
            /\ ~st'.probing /\ st'.wakeAt = judgedAt + st'.delay
         \/ /\ st' = Judged
            /\ Judged.dormant /\ ~Judged.probing => ~(judgedAt >= Judged.wakeAt)
            /\ Judged.dormant /\ Judged.probing => ~(judgedAt >= Judged.probeDeadline)
  BY <1>0, JudgedEffect, Zenon
<1>d. Judged.dormant
  BY <1>e, Zenon
<1>1. CASE ~st.dormant
  <2>1. asked' = now
    <3>1. Judged.dormant # st.dormant
      BY <1>d, <1>1, Zenon
    <3> QED
      BY <1>0, <3>1, Zenon
  <2>2. judgedAt = now
    BY <1>0 DEF Punctual
  <2>3. judgedAt' <= asked' /\ judgedAt' \in Nat /\ asked' \in Nat
    BY <1>0, <1>n, <2>1, <2>2
  <2> QED
    BY <1>n, <2>3, JustAsked, Zenon
<1>2. CASE st.dormant
  <2>i. InTime
    BY <1>2
  <2>a. asked' = asked
    <3>1. Judged.dormant \in BOOLEAN
      BY JudgedType, StateFields
    <3>2. Judged.dormant = st.dormant
      BY <1>d, <1>n, <1>2, <3>1
    <3> QED
      BY <1>0, <3>2, Zenon
  <2>v. Verdict = IF DueForProbe(Judged, judgedAt) THEN "look" ELSE "idle"
    BY <1>d, <1>2, Zenon DEF Verdict
  <2>t. where'[Judge] # "tick" /\ ~Found'
    BY <1>0, <2>v DEF Found
  <2>1. CASE Judged = st /\ ~Uncounted(obs)
    <3>1. ~Found /\ (RowsRead' <=> RowsRead)
      <4>1. Uncounted(payload)' <=> Uncounted(payload)
        BY <1>0, <1>e, <2>1 DEF Uncounted
      <4> QED
        BY <1>0, <2>1, <4>1, Zenon DEF Found, RowsRead
    <3>2. judgedAt <= asked + MaxBackoff + ProbeTimeout
      BY <2>i, <3>1, NotFoundBounds, Zenon
    <3>3. ASSUME ~RowsRead, st'.probing
          PROVE  \/ where'[Judge] = "look"
                 \/ /\ st'.probeDeadline <= asked + ProbeTimeout
                    /\ Before(where'[Judge], judgedAt, asked, st'.probeDeadline)
      <4>1. CASE Judged.dormant /\ ~Judged.probing /\ judgedAt >= Judged.wakeAt
        BY <1>0, <2>v, <4>1, Zenon DEF DueForProbe
      <4>2. CASE st' = st /\ ~(judgedAt >= st.probeDeadline)
        <5>1. st.probing /\ "tick" # "look"
          BY <3>3, <4>2
        <5>2. st.probeDeadline <= asked + ProbeTimeout
          BY <1>0, <2>i, <3>1, <3>3, <5>1, Zenon DEF InTime
        <5>3. judgedAt < st.probeDeadline /\ judgedAt <= st.probeDeadline
          BY <1>n, <4>2
        <5> QED
          BY <4>2, <5>2, <5>3, Zenon DEF Before
      <4> QED
        BY <1>e, <2>1, <1>2, <3>3, <4>1, <4>2, Zenon
    <3>4. ASSUME ~RowsRead, ~st'.probing
          PROVE  /\ st'.wakeAt <= asked + MaxBackoff + ProbeTimeout
                 /\ Before(where'[Judge], judgedAt, asked, st'.wakeAt)
      <4>1. CASE st.probing /\ st'.wakeAt = judgedAt + st'.delay
        <5>1. judgedAt <= asked + ProbeTimeout
          <6>1. "tick" # "look"
            OBVIOUS
          <6> QED
            BY <1>0, <2>i, <3>1, <3>4, <4>1, <6>1, NotFoundBounds, Zenon
        <5> QED
          BY <1>e, <1>n, <4>1, <5>1, DelayRuns, Zenon
      <4>2. CASE st' = st /\ ~(judgedAt >= st.wakeAt)
        <5>1. st.wakeAt <= asked + MaxBackoff + ProbeTimeout
          BY <2>i, <3>1, <3>4, <4>2, Zenon DEF InTime
        <5>3. judgedAt < st.wakeAt /\ judgedAt <= st.wakeAt
          BY <1>n, <4>2
        <5> QED
          BY <4>2, <5>1, <5>3, Zenon DEF Before
      <4> QED
        BY <1>e, <1>2, <2>1, <3>4, <4>1, <4>2, Zenon
    <3>5. ASSUME Uncounted(payload)', Bad(payload)' PROVE judgedAt <= asked
      <4>1. Uncounted(payload) /\ Bad(payload)
        BY <1>0, <1>e, <2>1, <3>5, Zenon DEF Uncounted
      <4>2. obs # payload
        BY <2>1, <4>1, Zenon
      <4> QED
        BY <2>i, <4>1, <4>2, Zenon DEF InTime
    <3> QED
      BY <1>0, <2>a, <2>t, <3>1, <3>2, <3>3, <3>4, <3>5, Zenon DEF InTime
  <2>2. CASE /\ Uncounted(obs) /\ Bad(obs) /\ ~Judged.probing
             /\ Judged.wakeAt = judgedAt + Judged.delay /\ Judged.lastTS = obs.ts
    <3>0. Judged \in States
      BY JudgedType
    <3>1. /\ ~(judgedAt >= Judged.wakeAt) /\ Before(where'[Judge], judgedAt, asked, Judged.wakeAt)
          /\ judgedAt <= asked + ProbeTimeout => Judged.wakeAt <= asked + MaxBackoff + ProbeTimeout
      BY <1>n, <2>2, <3>0, DelayRuns, Zenon
    <3>2. st' = Judged
      BY <1>e, <2>2, <3>1, Zenon
    <3>3. judgedAt <= asked + 1
      BY <1>0, <2>i, <2>2, Zenon DEF InTime
    <3>4. judgedAt <= asked + ProbeTimeout /\ judgedAt <= asked + MaxBackoff + ProbeTimeout
      BY <1>n, <3>3, DemandNumbers
    <3>5. ASSUME Uncounted(payload)', Bad(payload)' PROVE judgedAt <= asked
      <4>1. payload.ts # obs.ts /\ payload # obs
        BY <1>0, <1>e, <2>2, <3>5 DEF Uncounted
      <4>2. Uncounted(payload) /\ Bad(payload)
        BY <1>0, <3>5, <4>1, Zenon
      <4> QED
        BY <2>i, <4>1, <4>2, Zenon DEF InTime
    <3> QED
      BY <1>0, <2>2, <2>a, <2>t, <3>1, <3>2, <3>4, <3>5, Zenon DEF InTime
  <2> QED
    BY <1>d, <1>2, <2>1, <2>2, JudgedKinds, Zenon
<1> QED
  BY <1>1, <1>2

\* Every step keeps the invariant.
LEMMA WakeNext == WakeInv /\ [DemandNext]_demandVars => WakeInv'
<1> SUFFICES ASSUME WakeInv, [DemandNext]_demandVars PROVE WakeInv'
  OBVIOUS
<1>0. /\ DemandTypeOK /\ DemandTypeOK' /\ Stamped /\ Stamped' /\ Punctual /\ Punctual'
  BY DemandTypeNext, StampedNext, PunctualNext DEF WakeInv
<1>a. /\ where[Judge] = "tick" => payload = obs \/ Uncounted(payload)
      /\ connected /\ menu = "rows" /\ st.dormant => InTime
  BY DEF WakeInv
<1>n. /\ judgedAt' \in Nat /\ asked' \in Nat /\ now \in Nat /\ st'.wakeAt \in Nat /\ st'.probeDeadline \in Nat
  <2>1. st' \in States /\ judgedAt' \in Nat /\ asked' \in Nat /\ now \in Nat
    BY <1>0 DEF DemandTypeOK
  <2> QED
    BY <2>1, StateFields
<1>s. SUFFICES /\ where'[Judge] = "tick" => payload' = obs' \/ Uncounted(payload)'
               /\ connected' /\ menu' = "rows" /\ st'.dormant => InTime'
  BY <1>0, Zenon DEF WakeInv
<1>1. CASE NothingSeen
  <2>1. UNCHANGED <<now, menu, payload, obs, st, spell, judgedAt, asked>> /\ (connected' => connected)
    BY <1>1 DEF NothingSeen
  <2>2. /\ where'[Judge] = "tick" <=> where[Judge] = "tick"
        /\ connected => (where'[Judge] = "look" <=> where[Judge] = "look")
    BY <1>1 DEF NothingSeen, JudgeQuiet
  <2>3. Uncounted(payload)' <=> Uncounted(payload)
    BY <2>1 DEF Uncounted
  <2>4. ASSUME connected', menu' = "rows", st'.dormant PROVE InTime'
    <3>1. InTime /\ connected
      BY <1>a, <2>1, <2>4, Zenon
    <3>2. where'[Judge] = "tick" <=> where[Judge] = "tick"
      BY <2>2
    <3>3. where'[Judge] = "look" <=> where[Judge] = "look"
      BY <2>2, <3>1
    <3> QED
      BY <2>1, <3>1, <3>2, <3>3 DEF InTime, Found, RowsRead, Uncounted, Before
  <2> QED
    BY <1>a, <2>1, <2>2, <2>3, <2>4, Zenon
<1>2. CASE AskedAgain
  <2>1. asked' = now /\ UNCHANGED <<now, payload, obs, st, judgedAt>> /\ where'[Judge] = where[Judge]
    BY <1>2 DEF AskedAgain
  <2>2. Uncounted(payload)' <=> Uncounted(payload)
    BY <2>1 DEF Uncounted
  <2>3. judgedAt' <= asked'
    BY <1>0, <2>1, Zenon DEF Punctual
  <2> QED
    BY <1>0, <1>a, <1>n, <2>1, <2>2, <2>3, JustAsked, Zenon
<1>3. CASE ReadingMade
  <2>1. /\ Read /\ UNCHANGED <<menu, connected, obs, st>> /\ (where'[Judge] = "tick" <=> where[Judge] = "tick")
    BY <1>3 DEF ReadingMade, JudgeQuiet
  <2>2. payload' = payload \/ payload'.ts \notin {0, st.lastTS}
    BY <1>0, <2>1, ReadEffect
  <2>3. where'[Judge] = "tick" => payload' = obs' \/ Uncounted(payload)'
    BY <1>a, <2>1, <2>2, Zenon DEF Uncounted
  <2> QED
    BY <1>0, <1>3, <1>a, <2>1, <2>3, WakeReading, Zenon
<1>4. CASE StartedOver
  <2>1. st' = Awake /\ UNCHANGED <<payload, obs>> /\ (where'[Judge] = "tick" <=> where[Judge] = "tick")
    BY <1>4 DEF StartedOver, JudgeQuiet
  <2>2. ~st'.dormant /\ st'.lastTS = 0
    BY <2>1, AwakeType
  <2>3. Uncounted(payload) => Uncounted(payload)'
    BY <2>1, <2>2 DEF Uncounted
  <2> QED
    BY <1>a, <2>1, <2>2, <2>3, Zenon
<1>5. CASE LookTaken
  <2>1. obs' = payload /\ UNCHANGED <<menu, connected, payload, st>>
    BY <1>5 DEF LookTaken
  <2> QED
    BY <1>0, <1>5, <1>a, <2>1, WakeLook, Zenon
<1>6. CASE JudgementMade
  <2>1. /\ where[Judge] = "tick" /\ where'[Judge] # "tick" /\ UNCHANGED <<menu, connected>>
    <3>1. Verdict # "tick"
      BY DEF Verdict
    <3> QED
      BY <1>6, <3>1, Zenon DEF JudgementMade
  <2>2. connected
    BY <1>6 DEF JudgementMade
  <2> QED
    BY <1>0, <1>6, <1>a, <2>1, <2>2, WakeJudged, Zenon
<1>7. CASE JudgementDropped
  BY <1>7 DEF JudgementDropped
<1>8. CASE TimePasses
  <2>1. /\ UNCHANGED <<menu, connected, payload, obs, st, judgedAt, asked>> /\ where'[Judge] = where[Judge]
    BY <1>8 DEF TimePasses
  <2>2. (InTime' <=> InTime) /\ (Uncounted(payload)' <=> Uncounted(payload))
    BY <2>1 DEF InTime, Found, RowsRead, Uncounted, Before
  <2> QED
    BY <1>a, <2>1, <2>2, Zenon
<1> QED
  BY <1>0, <1>1, <1>2, <1>3, <1>4, <1>5, <1>6, <1>7, <1>8, WatchSteps

\* Rows in the menu of a sleeping collector are noticed in time, whatever the
\* delays and the timeout of a probe are.
THEOREM RowsWakeTheSleeperHolds == DemandSpec => []RowsWakeTheSleeper
<1>1. DemandInit => WakeInv
  <2> SUFFICES ASSUME DemandInit PROVE WakeInv
    OBVIOUS
  <2>1. /\ DemandTypeOK /\ payload = NoPayload /\ obs = NoPayload /\ st = Awake /\ judgedAt = 0
        /\ now = 1 /\ asked = 1
    BY DemandTypeInit DEF DemandInit
  <2>2. where[Judge] = "idle"
    BY PlacesOf DEF DemandInit
  <2>3. ~st.dormant /\ ~st.probing
    BY <2>1, AwakeType, Zenon
  <2>4. judgedAt <= now /\ now <= judgedAt + 1 /\ asked <= now
    <3>1. judgedAt = 0 /\ now = 1 /\ asked = 1
      BY <2>1
    <3> QED
      BY <3>1
  <2>5. Punctual
    BY <2>2, <2>3, <2>4, Zenon DEF Punctual
  <2>6. Stamped
    BY <2>1, Zenon DEF Stamped
  <2> QED
    BY <2>1, <2>2, <2>3, <2>5, <2>6 DEF WakeInv
<1>2. WakeInv /\ [DemandNext]_demandVars => WakeInv'
  BY WakeNext
<1>3. WakeInv => RowsWakeTheSleeper
  BY InTimeBounds, Zenon DEF WakeInv, RowsWakeTheSleeper
<1> QED
  BY <1>1, <1>2, <1>3, PTL DEF DemandSpec
=============================================================================
