----------------------------- MODULE SessionPool ----------------------------
(***************************************************************************)
(* internal/session Manager: who keeps one router's session alive.          *)
(*                                                                         *)
(* A viewer holds a reference (Acquire, Release); a named hold (Retain,     *)
(* Drop) keeps the session with nobody watching; when neither is left a     *)
(* grace timer calls idleOut; CloseNow and Shutdown take the session from   *)
(* whoever has it.  The callers are the server's: a websocket selecting and *)
(* leaving the router, fleetSession, syncFleetHolds and the handlers that   *)
(* disable, enable and delete it.                                           *)
(*                                                                         *)
(* A step is one critical section of m.mu (with s.mu inside it) or of s.mu, *)
(* or one read or write of the router's record.  What a session does while  *)
(* it lives is SessionLink's.                                               *)
(***************************************************************************)
EXTENDS Integers, FiniteSets

CONSTANTS
    Viewers,    \* websockets
    Fleet,      \* calls of fleetSession, each one its own reason for a hold
    Admin,      \* the handler of a disable, an enable, a delete, or Shutdown
    AdminMay,   \* those of them it may do
    Timer,      \* the goroutine of the grace timer
    HoldFleet,  \* s.holdFleet: whether syncFleetHolds does anything
    Warm,       \* the reason syncFleetHolds has for every enabled router
    Sometimes,  \* its other reasons, some of them
    Sessions,   \* bound on the sessions anything still points at
    MaxWrites,  \* bound on what the admin does
    MaxLoose,   \* bound on the timers of a session that nothing can stop
    None        \* nil

Callers == Viewers \cup Fleet \cup {Admin, Timer}
SyncReasons == {Warm} \cup Sometimes
Reasons == SyncReasons \cup Fleet

ASSUME CallersAssumption ==
    /\ IsFiniteSet(Viewers) /\ IsFiniteSet(Fleet) /\ Admin # Timer
    /\ Viewers \cap Fleet = {} /\ {Admin, Timer} \cap (Viewers \cup Fleet) = {}
ASSUME NamesAssumption ==
    /\ Warm \notin Sometimes /\ SyncReasons \cap Fleet = {} /\ None \notin Sessions \cup Reasons
ASSUME BoundsAssumption == IsFiniteSet(Sessions) /\ MaxLoose \in Nat /\ MaxWrites \in Nat /\ HoldFleet \in BOOLEAN

VARIABLES
    rec,    \* the router's record in the store
    live,   \* m.live[routerID]
    sess,   \* every session: refs, holds, closed, linger (its timer is armed),
            \* loose (timers that fired or that s.linger no longer points at)
    pc,     \* where each caller is
    view,   \* the session a websocket holds a reference of (cn.rsession)
    on,     \* the session a caller is working on
    why,    \* the reason of the Retain or the Drop it is in
    todo, want, \* holdOne's loop: reasons left, and those of them it wants
    syncs,  \* calls of syncFleetHolds the caller still makes
    writes  \* how often the admin has acted

vars == <<rec, live, sess, pc, view, on, why, todo, want, syncs, writes>>

PC == {"out", "in", "work", "miss", "found", "hold", "give", "drop", "arm", "sync",
       "loop", "closeNow", "idleOut", "shutdown"}

Session == [refs : Int, holds : SUBSET Reasons, closed : BOOLEAN,
            linger : BOOLEAN, loose : Nat]

\* The type invariant.  Its last conjunct says that a caller is home only with
\* every reason walked and every re-sync of the fleet's holds made.
TypeOK ==
    /\ rec \in {"enabled", "disabled", "gone"}
    /\ live \in Sessions \cup {None} /\ sess \in [Sessions -> Session]
    /\ pc \in [Callers -> PC]
    /\ view \in [Callers -> Sessions \cup {None}] /\ on \in [Callers -> Sessions \cup {None}]
    /\ why \in [Callers -> Reasons \cup {None}]
    /\ todo \in [Callers -> SUBSET SyncReasons] /\ want \in [Callers -> SUBSET SyncReasons]
    /\ syncs \in [Callers -> 0..2] /\ writes \in 0..MaxWrites
    /\ \A c \in Callers : pc[c] \in {"out", "in"} =>
          on[c] = None /\ todo[c] = {} /\ syncs[c] = 0

Gone == [refs |-> 0, holds |-> {}, closed |-> TRUE, linger |-> FALSE, loose |-> 0]

\* The server starts with no session; the router in its store may be disabled.
Init ==
    /\ rec \in {"enabled", "disabled"} /\ live = None /\ sess = [i \in Sessions |-> Gone]
    /\ pc = [c \in Callers |-> "out"]
    /\ view = [c \in Callers |-> None] /\ on = [c \in Callers |-> None]
    /\ why = [c \in Callers |-> None]
    /\ todo = [c \in Callers |-> {}] /\ want = [c \in Callers |-> {}]
    /\ syncs = [c \in Callers |-> 0] /\ writes = 0

store == <<rec, writes>>
loop == <<todo, want, syncs>>

Goto(c, l) == pc' = [pc EXCEPT ![c] = l]

\* Where a caller goes when a call it made has returned: the next reason of
\* holdOne's loop, the next syncFleetHolds, or home.
Onward(c, left, again) ==
    CASE left # {} -> "loop"
      [] left = {} /\ again > 0 -> "sync"
      [] OTHER -> IF view[c] # None THEN "in" ELSE "out"

Return(c) ==
    /\ Goto(c, Onward(c, todo[c], syncs[c]))
    /\ on' = [on EXCEPT ![c] = None]
    /\ why' = [why EXCEPT ![c] = None]

-----------------------------------------------------------------------------
(* Acquire *)

\* Stopping the armed timer works; one that has fired calls idleOut anyway.
Referenced(s) == [s EXCEPT !.refs = @ + 1, !.linger = FALSE]

\* Acquire has returned session i: the websocket keeps it and re-syncs the
\* fleet's holds (selectRouter), Retain goes on to take its hold.
Acquired(c, r, i) ==
    IF r = None
    THEN /\ view' = [view EXCEPT ![c] = i]
         /\ syncs' = [syncs EXCEPT ![c] = 1]
         /\ Goto(c, "sync")
         /\ UNCHANGED on
    ELSE /\ on' = [on EXCEPT ![c] = i]
         /\ Goto(c, "hold")
         /\ UNCHANGED <<view, syncs>>

\* The first look under m.mu: for a viewer (r is None), or for Retain(r).
Look(c, r) ==
    /\ why' = [why EXCEPT ![c] = r]
    /\ \/ /\ live # None
          /\ sess' = [sess EXCEPT ![live] = Referenced(@)]
          /\ Acquired(c, r, live)
       \/ /\ live = None
          /\ Goto(c, "miss")
          /\ UNCHANGED <<sess, view, on, syncs>>
    /\ UNCHANGED <<store, live>>

\* The record is read outside the lock, and disabled routers are in it too.
ReadRecord(c) ==
    /\ pc[c] = "miss"
    /\ \/ /\ rec # "gone"
          /\ Goto(c, "found")
          /\ UNCHANGED <<on, why>>
       \/ /\ rec = "gone"
          /\ Return(c)
    /\ UNCHANGED <<store, live, sess, view, loop>>

\* What the garbage collector keeps.
Pointed(i) ==
    \/ i = live \/ sess[i].linger \/ sess[i].loose > 0 \/ ~sess[i].closed
    \/ \E c \in Callers : i \in {view[c], on[c]}

NewSession(c, i) ==
    /\ ~Pointed(i)
    /\ sess' = [sess EXCEPT ![i] = [Gone EXCEPT !.refs = 1, !.closed = FALSE]]
    /\ live' = i
    /\ Acquired(c, why[c], i)

\* Faulty form: the second look under m.mu is left out.
BuildBlind(c) ==
    /\ pc[c] = "found"
    /\ \E i \in Sessions : NewSession(c, i)
    /\ UNCHANGED <<store, why, todo, want>>

\* Another caller may have built it meanwhile.
Build(c) ==
    /\ pc[c] = "found"
    /\ \/ /\ live # None
          /\ sess' = [sess EXCEPT ![live] = Referenced(@)]
          /\ Acquired(c, why[c], live)
          /\ UNCHANGED live
       \/ /\ live = None
          /\ \E i \in Sessions : NewSession(c, i)
    /\ UNCHANGED <<store, why, todo, want>>

-----------------------------------------------------------------------------
(* Release, Retain, Drop *)

\* The last reference's Release arms the grace timer.
Unreferenced(s) == [s EXCEPT !.refs = s.refs - 1, !.linger = s.linger \/ s.refs <= 1]

\* Release is by router id: it finds whichever session is live now.
Released == IF live = None THEN sess ELSE [sess EXCEPT ![live] = Unreferenced(@)]

Select(c) == c \in Viewers /\ pc[c] = "out" /\ Look(c, None) /\ UNCHANGED <<todo, want>>

Leave(c) ==
    /\ pc[c] = "in"
    /\ sess' = Released
    /\ view' = [view EXCEPT ![c] = None]
    /\ syncs' = [syncs EXCEPT ![c] = 1]
    /\ Goto(c, "sync")
    /\ UNCHANGED <<store, live, on, why, todo, want>>

\* fleetSession: a hold for the length of a call.
FleetRetain(c) == c \in Fleet /\ pc[c] = "out" /\ Look(c, c) /\ UNCHANGED <<todo, want>>

FleetDrop(c) ==
    /\ pc[c] = "work"
    /\ IF live = None
       THEN Return(c)
       ELSE Goto(c, "drop") /\ on' = [on EXCEPT ![c] = live] /\ UNCHANGED why
    /\ UNCHANGED <<store, live, sess, view, loop>>

SetHold(c) ==
    /\ pc[c] = "hold"
    /\ sess' = [sess EXCEPT ![on[c]].holds = @ \cup {why[c]}]
    /\ Goto(c, "give")
    /\ UNCHANGED <<store, live, view, on, why, loop>>

\* Faulty form: Retain keeps the viewer's reference it took.
GiveBackNothing(c) ==
    /\ pc[c] = "give"
    /\ IF c \in Fleet THEN Goto(c, "work") /\ UNCHANGED <<on, why>> ELSE Return(c)
    /\ UNCHANGED <<store, live, sess, view, loop>>

GiveBack(c) ==
    /\ pc[c] = "give"
    /\ sess' = Released
    /\ IF c \in Fleet THEN Goto(c, "work") /\ UNCHANGED <<on, why>> ELSE Return(c)
    /\ UNCHANGED <<store, live, view, loop>>

DropHold(c) ==
    /\ pc[c] = "drop"
    /\ sess' = [sess EXCEPT ![on[c]].holds = @ \ {why[c]}]
    /\ IF sess'[on[c]].holds = {} /\ sess[on[c]].refs <= 0
       THEN Goto(c, "arm") /\ UNCHANGED <<on, why>>
       ELSE Return(c)
    /\ UNCHANGED <<store, live, view, loop>>

\* Faulty form: a dropped hold starts no countdown.
ArmNothing(c) ==
    /\ pc[c] = "arm"
    /\ Return(c)
    /\ UNCHANGED <<store, live, sess, view, loop>>

Arm(c) ==
    /\ pc[c] = "arm"
    /\ sess' = [sess EXCEPT ![on[c]].linger = TRUE]
    /\ Return(c)
    /\ UNCHANGED <<store, live, view, loop>>

-----------------------------------------------------------------------------
(* syncFleetHolds *)

\* The record is read once; what each reason wants is decided from that copy.
SyncStart(c) ==
    /\ pc[c] = "sync"
    /\ syncs' = [syncs EXCEPT ![c] = @ - 1]
    /\ \/ /\ HoldFleet /\ rec # "gone"
          /\ todo' = [todo EXCEPT ![c] = SyncReasons]
          /\ \E w \in SUBSET Sometimes :
                want' = [want EXCEPT ![c] = IF rec = "enabled" THEN {Warm} \cup w ELSE {}]
          /\ Goto(c, "loop")
       \/ /\ ~HoldFleet \/ rec = "gone"
          /\ Goto(c, Onward(c, {}, syncs[c] - 1))
          /\ UNCHANGED <<todo, want>>
    /\ UNCHANGED <<store, live, sess, view, on, why>>

\* holdOne walks its reasons in a fixed order.
Reason(c) == IF Warm \in todo[c] THEN Warm ELSE CHOOSE r \in todo[c] : TRUE

SyncRetain(c) ==
    /\ pc[c] = "loop" /\ Reason(c) \in want[c]
    /\ todo' = [todo EXCEPT ![c] = @ \ {Reason(c)}]
    /\ want' = [want EXCEPT ![c] = @ \ {Reason(c)}]
    /\ Look(c, Reason(c))

SyncDrop(c) ==
    /\ pc[c] = "loop" /\ Reason(c) \notin want[c]
    /\ todo' = [todo EXCEPT ![c] = @ \ {Reason(c)}]
    /\ IF live = None
       THEN /\ Goto(c, Onward(c, todo'[c], syncs[c]))
            /\ UNCHANGED <<on, why>>
       ELSE /\ Goto(c, "drop")
            /\ on' = [on EXCEPT ![c] = live]
            /\ why' = [why EXCEPT ![c] = Reason(c)]
    /\ UNCHANGED <<store, live, sess, view, want, syncs>>

-----------------------------------------------------------------------------
(* idleOut, CloseNow, Shutdown *)

\* The grace is over; the callback waits for m.mu.
Fire(i) ==
    /\ sess[i].linger /\ sess[i].loose < MaxLoose
    /\ sess' = [sess EXCEPT ![i].linger = FALSE, ![i].loose = @ + 1]
    /\ UNCHANGED <<store, live, pc, view, on, why, loop>>

\* Faulty form: the check from before there were holds.
SpokenForViewer(s) == s.refs > 0

SpokenFor(s) == s.refs > 0 \/ s.holds # {}

\* What the critical section of idleOut leaves of session s.  A session that is
\* spoken for forgets its timer without stopping it.
Idle(s) ==
    IF SpokenFor(s)
    THEN [s EXCEPT !.linger = FALSE, !.loose = IF s.linger THEN @ + 1 ELSE @]
    ELSE [s EXCEPT !.linger = FALSE, !.closed = TRUE]

\* idleOut of session i by caller c: onIdle, the server's syncFleetHolds, comes
\* after a teardown only.
IdleOut(c, i, s, more) ==
    /\ sess' = [sess EXCEPT ![i] = Idle(s)]
    /\ live' = IF SpokenFor(s) THEN live ELSE None
    /\ LET n == more + IF SpokenFor(s) THEN 0 ELSE 1
       IN  /\ syncs' = [syncs EXCEPT ![c] = n]
           /\ Goto(c, Onward(c, {}, n))

TimerIdleOut(i) ==
    /\ pc[Timer] = "out" /\ sess[i].loose > 0 /\ live = i
    /\ IdleOut(Timer, i, [sess[i] EXCEPT !.loose = @ - 1], 0)
    /\ UNCHANGED <<store, view, on, why, todo, want>>

\* The session has been closed, or replaced, since the timer was armed.
TimerIsMoot(i) ==
    /\ sess[i].loose > 0 /\ live # i
    /\ sess' = [sess EXCEPT ![i].loose = @ - 1]
    /\ UNCHANGED <<store, live, pc, view, on, why, loop>>

\* The handler writes the record, closes the session and re-syncs the holds.
Write(to, l) ==
    /\ pc[Admin] = "out" /\ writes < MaxWrites
    /\ rec' = to /\ writes' = writes + 1
    /\ syncs' = [syncs EXCEPT ![Admin] = 1]
    /\ Goto(Admin, l)
    /\ UNCHANGED <<live, sess, view, on, why, todo, want>>

Disable == "disable" \in AdminMay /\ rec = "enabled" /\ Write("disabled", "closeNow")
Enable == "enable" \in AdminMay /\ rec = "disabled" /\ Write("enabled", "sync")
Delete == "delete" \in AdminMay /\ rec # "gone" /\ Write("gone", "closeNow")

\* Refs and holds are cleared in one section and the session torn down in the
\* next.
CloseNow ==
    /\ pc[Admin] = "closeNow"
    /\ on' = [on EXCEPT ![Admin] = live]
    /\ IF live = None
       THEN Goto(Admin, "sync") /\ UNCHANGED sess
       ELSE /\ sess' = [sess EXCEPT ![live] =
                        [@ EXCEPT !.refs = 0, !.holds = {}, !.linger = FALSE]]
            /\ Goto(Admin, "idleOut")
    /\ UNCHANGED <<store, live, view, why, loop>>

CloseNowIdleOut ==
    /\ pc[Admin] = "idleOut"
    /\ \/ /\ live = on[Admin]
          /\ IdleOut(Admin, live, sess[live], 1)
       \/ /\ live # on[Admin]
          /\ Goto(Admin, "sync")
          /\ UNCHANGED <<live, sess, syncs>>
    /\ on' = [on EXCEPT ![Admin] = None]
    /\ UNCHANGED <<store, view, why, todo, want>>

\* SIGTERM: the map is emptied first, each session closed after.
Shutdown ==
    /\ "shutdown" \in AdminMay /\ pc[Admin] = "out" /\ live # None /\ writes < MaxWrites
    /\ writes' = writes + 1
    /\ live' = None
    /\ on' = [on EXCEPT ![Admin] = live]
    /\ Goto(Admin, "shutdown")
    /\ UNCHANGED <<rec, sess, view, why, loop>>

ShutdownClose ==
    /\ pc[Admin] = "shutdown"
    /\ sess' = [sess EXCEPT ![on[Admin]] = [@ EXCEPT !.closed = TRUE, !.linger = FALSE]]
    /\ on' = [on EXCEPT ![Admin] = None]
    /\ Goto(Admin, "out")
    /\ UNCHANGED <<store, live, view, why, loop>>

-----------------------------------------------------------------------------
\* The steps inside a call.
Call(c) ==
    \/ ReadRecord(c) \/ Build(c) \/ SetHold(c) \/ GiveBack(c) \/ DropHold(c) \/ Arm(c)
    \/ SyncStart(c) \/ SyncRetain(c) \/ SyncDrop(c)

Next ==
    \/ \E c \in Callers : Select(c) \/ Leave(c) \/ FleetRetain(c) \/ FleetDrop(c) \/ Call(c)
    \/ \E i \in Sessions : Fire(i) \/ TimerIdleOut(i) \/ TimerIsMoot(i)
    \/ Disable \/ Enable \/ Delete \/ CloseNow \/ CloseNowIdleOut
    \/ Shutdown \/ ShutdownClose

Spec == Init /\ [][Next]_vars

\* Calls return, timers that are not stopped fire, and callbacks get m.mu.
\* Nothing is assumed of websockets, fleet calls and the admin: they start when
\* they like.
FairSpec ==
    /\ Spec
    /\ \A c \in Callers : WF_vars(Call(c))
    /\ \A i \in Sessions : WF_vars(Fire(i)) /\ WF_vars(TimerIdleOut(i)) /\ WF_vars(TimerIsMoot(i))

-----------------------------------------------------------------------------
(* Properties *)

\* A session is open exactly while it is the one m.live names: two callers that
\* both missed never build two (Acquire's second look), a predecessor's timer
\* never closes its successor (idleOut compares identity), and nothing open is
\* out of the manager's reach, where no viewer, hold or timer would ever end it.
\* Between Shutdown's two halves the session it took is still open.
OneSession ==
    /\ live # None => ~sess[live].closed
    /\ \A i \in Sessions : ~sess[i].closed =>
          i = live \/ (pc[Admin] = "shutdown" /\ on[Admin] = i)

\* While nobody disables, deletes or shuts down: the session a websocket holds a
\* reference of stays the live one, whatever grace timers are still on their
\* way ("without it the teardown still fires and takes the collectors out from
\* under the viewer who just arrived"), and a fleetSession call works on the live
\* session, with its hold, until it drops that itself: the gap between Retain's
\* hold and Release's countdown never costs it the session.
UsedSessionStays ==
    writes = 0 =>
        /\ \A v \in Viewers : view[v] # None => view[v] = live
        /\ \A f \in Fleet : pc[f] = "work" => live = on[f] /\ f \in sess[live].holds

\* While nobody disables, deletes or shuts down: refs counts the viewers.  Each
\* websocket with the session and each Retain between its Acquire and its
\* Release is one reference and nothing else is.
RefsCountViewers ==
    writes = 0 /\ live # None =>
        sess[live].refs = Cardinality({c \in Callers : view[c] = live})
                        + Cardinality({c \in Callers : pc[c] \in {"hold", "give"} /\ on[c] = live})

\* Nothing speaks for the live session.
Unwanted == live # None /\ sess[live].refs <= 0 /\ sess[live].holds = {}

\* A session that nothing speaks for is closed, or somebody comes back for it;
\* without it the connection would stay up for ever.
IdleSessionCloses == Unwanted ~> ~Unwanted

\* CloseNow's comment says of a browser still in the room that "its own
\* releaseRouter later finds the session gone and returns harmlessly": a
\* websocket whose session was closed takes no reference from a later one.
LateReleaseIsHarmless ==
    [][\A v \in Viewers : Leave(v) /\ view[v] # live => sess' = sess]_vars

Quiet == \A c \in Callers : pc[c] \in {"out", "in"}

\* routerDelete's comment: "a deleted router must stop being polled now".  Once
\* every call has returned, a router that is gone is not held.
DeletedRouterIsLetGo ==
    Quiet /\ rec = "gone" => live = None \/ sess[live].holds = {}
=============================================================================
