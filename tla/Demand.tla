-------------------------------- MODULE Demand -------------------------------
(***************************************************************************)
(* Who may run a collector: internal/server/demand.go, the funnel of        *)
(* internal/session/dormancy_targets.go, the dormancy supervisor            *)
(* (internal/dormancy/supervisor.go, internal/session/dormancy_run.go) and  *)
(* the connect block of connectLoop.                                        *)
(*                                                                         *)
(* One collector that is page-gated, that drops a Resume while the link is  *)
(* down, and that no hold needs, such as bandwidth.  Viewers join and leave *)
(* its room; each change asks again whether it is wanted, and a collector   *)
(* that is not is suspended by a timer a grace period later.  A judge looks *)
(* at what it reports and puts it to sleep.  The link goes and comes back.  *)
(* Somebody views the router all the while and no operator switches the     *)
(* collector off, so mayRun holds.                                          *)
(*                                                                         *)
(* A step is a critical section of the session's mutex, of the hub's or of  *)
(* the supervisor's, or one call to the collector.                          *)
(***************************************************************************)
EXTENDS Dormancy, FiniteSets

CONSTANTS
    Sockets,    \* the websockets on this router
    Judge,      \* the goroutine of noteDelivery
    Loop,       \* connectLoop
    MenuStates, \* what the router's menu may hold
    MaxTimers,  \* bound on the grace timers that are armed
    MaxBlurs,   \* bound on how often a room is left
    MaxDrops,   \* bound on how often the link goes
    MaxChanges, \* bound on how often the menu changes
    MaxTime     \* bound on the clock, in units of dormancyTick

ASSUME ActorsAssumption == Judge # Loop /\ {Judge, Loop} \cap Sockets = {}
ASSUME MenuAssumption ==
    MenuStates \subseteq {"rows", "nothing", "nothing supported"} /\ MenuStates # {}
ASSUME DemandBounds ==
    {MaxTimers, MaxBlurs, MaxDrops, MaxChanges} \subseteq Nat /\ MaxTime \in Nat \ {0}

VARIABLES
    now, menu,          \* the clock, and what the router's menu holds
    room,               \* the viewers in the collector's room
    connected, first,   \* s.connected; the loop's first
    pending,            \* s.pendingResume names the collector
    running, payload,   \* whether the collector is started, and its Last()
    st,                 \* its dormancy.State
    armed, leaving,     \* grace timers, and those of them past their question
    where,              \* where each actor is
    judgedAt, obs,      \* dormancyAt, and the payload the judge gathered
    asked,              \* history: since when the menu, the link and the sleep are as
                        \* they are and no reading has failed
    spell,              \* history: when the judge first found nothing since it last
                        \* found rows or started over, in how many readings, and
                        \* whether it has ever put the collector to sleep
    blurs, drops, changes

actors == Sockets \cup {Judge, Loop}
bounds == <<blurs, drops, changes>>
world == <<now, menu, bounds>>
demandVars == <<now, menu, room, connected, first, pending, running, payload, st, armed,
          leaving, where, judgedAt, obs, asked, spell, blurs, drops, changes>>

NoSpell(slept) == [from |-> 0, readings |-> 0, slept |-> slept]
Payload(ts, holds) == [ts |-> ts, holds |-> holds]
NoPayload == Payload(0, "nothing")
Stamps == 1 .. 4 \* a timestamp is only ever compared with the last one seen
Moves(x, l) == where' = [where EXCEPT ![x] = l]

DemandInit ==
    /\ now = 1 /\ menu \in MenuStates
    /\ room = {} /\ connected = FALSE /\ first = TRUE /\ pending = FALSE
    /\ running = FALSE /\ payload = NoPayload /\ st = Awake
    /\ armed = 0 /\ leaving = 0
    /\ where = [x \in actors |-> IF x = Loop THEN "dialling" ELSE "idle"]
    /\ judgedAt = 0 /\ obs = NoPayload /\ asked = 1 /\ spell = NoSpell(FALSE)
    /\ blurs = 0 /\ drops = 0 /\ changes = 0

-----------------------------------------------------------------------------
(* A viewer: pageFocus and pageBlur, each ending in Server.applyDemand. *)

Focus(v) ==
    /\ where[v] = "idle" /\ v \notin room
    /\ room' = room \cup {v}
    /\ Moves(v, "demand")
    /\ UNCHANGED <<world, connected, first, pending, running, payload, st, armed,
                   leaving, judgedAt, obs, asked, spell>>

Blur(v) ==
    /\ where[v] = "idle" /\ v \in room /\ blurs < MaxBlurs
    /\ room' = room \ {v}
    /\ blurs' = blurs + 1
    /\ Moves(v, "demand")
    /\ UNCHANGED <<now, menu, drops, changes, connected, first, pending, running,
                   payload, st, armed, leaving, judgedAt, obs, asked, spell>>

Wants == room # {}

ApplyDemand(v) ==
    /\ where[v] = "demand"
    /\ \/ Wants /\ Moves(v, "resume") /\ UNCHANGED armed
       \/ /\ ~Wants /\ armed < MaxTimers
          /\ armed' = armed + 1
          /\ Moves(v, "idle")
    /\ UNCHANGED <<world, room, connected, first, pending, running, payload, st,
                   leaving, judgedAt, obs, asked, spell>>

\* suspendAfterGrace: the question is asked again, and then acted on.
GraceEnds ==
    /\ armed > leaving
    /\ IF Wants THEN armed' = armed - 1 /\ UNCHANGED leaving
       ELSE leaving' = leaving + 1 /\ UNCHANGED armed
    /\ UNCHANGED <<world, room, connected, first, pending, running, payload, st, where,
                   judgedAt, obs, asked, spell>>

SuspendCollector ==
    /\ leaving > 0
    /\ armed' = armed - 1 /\ leaving' = leaving - 1
    /\ running' = FALSE
    /\ UNCHANGED <<world, room, connected, first, pending, payload, st, where, judgedAt,
                   obs, asked, spell>>

-----------------------------------------------------------------------------
(* ResumeCollector, on whichever goroutine calls it. *)

\* Faulty form: a resume that comes before the link is not remembered.
ResumeForgotten(x) ==
    /\ where[x] = "resume"
    /\ Moves(x, "asleep?")
    /\ UNCHANGED <<world, room, connected, first, pending, running, payload, st, armed,
                   leaving, judgedAt, obs, asked, spell>>

Resume(x) ==
    /\ where[x] = "resume"
    /\ Moves(x, IF connected THEN "asleep?" ELSE "latch")
    /\ UNCHANGED <<world, room, connected, first, pending, running, payload, st, armed,
                   leaving, judgedAt, obs, asked, spell>>

Latch(x) ==
    /\ where[x] = "latch"
    /\ pending' = TRUE
    /\ Moves(x, "asleep?")
    /\ UNCHANGED <<world, room, connected, first, running, payload, st, armed, leaving,
                   judgedAt, obs, asked, spell>>

IsDormant(x) ==
    /\ where[x] = "asleep?"
    /\ Moves(x, IF st.dormant THEN "wake" ELSE "start")
    /\ UNCHANGED <<world, room, connected, first, pending, running, payload, st, armed,
                   leaving, judgedAt, obs, asked, spell>>

\* WakeForFocus does nothing for a collector that is no longer asleep.
WakeForFocus(x) ==
    /\ where[x] = "wake"
    /\ st' = IF st.dormant THEN Reset(st) ELSE st
    /\ Moves(x, IF st.dormant THEN "probe" ELSE "start")
    /\ spell' = IF st.dormant THEN NoSpell(spell.slept) ELSE spell
    /\ UNCHANGED <<world, room, connected, first, pending, running, payload, armed,
                   leaving, judgedAt, obs, asked>>

\* Bandwidth.Resume and its kind begin with `if ros.Connected()`.
Start(x) ==
    /\ where[x] = "start"
    /\ running' = (running \/ connected)
    /\ Moves(x, "idle")
    /\ UNCHANGED <<world, room, connected, first, pending, payload, st, armed, leaving,
                   judgedAt, obs, asked, spell>>

\* One reading.  One that fails leaves the payload, and its timestamp, as it was.
FreshStamp == CHOOSE ts \in Stamps : ts \notin {payload.ts, obs.ts, st.lastTS}
Read ==
    \/ payload' = Payload(FreshStamp, menu) /\ UNCHANGED asked
    \/ asked' = now /\ UNCHANGED payload

After == [probe |-> "start", look |-> "idle", reprobe |-> "restart"]

Probe(x) ==
    /\ where[x] \in DOMAIN After
    /\ IF connected THEN Read ELSE UNCHANGED <<payload, asked>>
    /\ Moves(x, After[where[x]])
    /\ UNCHANGED <<world, room, connected, first, pending, running, st, armed, leaving,
                   judgedAt, obs, spell>>

Poll ==
    /\ running /\ connected
    /\ Read
    /\ UNCHANGED <<world, room, connected, first, pending, running, st, armed, leaving,
                   where, judgedAt, obs, spell>>

-----------------------------------------------------------------------------
(* The judge: noteDelivery, dormancyOnce, Supervisor.Tick, applyDormancy. *)

JudgeDue == judgedAt = 0 \/ now > judgedAt

NoteDelivery ==
    /\ where[Judge] = "idle" /\ JudgeDue
    /\ judgedAt' = now
    /\ obs' = payload
    /\ Moves(Judge, "tick")
    /\ UNCHANGED <<world, room, connected, first, pending, running, payload, st, armed,
                   leaving, asked, spell>>

Judged == Observe(st, obs, judgedAt)
Verdict ==
    CASE Judged.dormant /\ ~st.dormant -> "suspend"
      [] st.dormant /\ ~Judged.dormant -> "resume"
      [] OTHER -> IF DueForProbe(Judged, judgedAt) THEN "look" ELSE "idle"

Spelled ==
    CASE obs.ts = 0 -> spell
      [] obs.ts # 0 /\ ~Bad(obs) -> NoSpell(spell.slept)
      [] obs.ts # 0 /\ Bad(obs) ->
            [spell EXCEPT !.from = IF @ = 0 THEN judgedAt ELSE @,
                          !.readings = @ + IF obs.ts # st.lastTS THEN 1 ELSE 0]

Tick ==
    /\ where[Judge] = "tick"
    /\ IF connected
       THEN /\ st' = IF DueForProbe(Judged, judgedAt) THEN MarkProbed(Judged, judgedAt)
                     ELSE Settled(Judged, judgedAt)
            /\ spell' = IF Judged.dormant THEN NoSpell(TRUE) ELSE Spelled
            /\ asked' = IF Judged.dormant # st.dormant THEN now ELSE asked
            /\ Moves(Judge, Verdict)
       ELSE Moves(Judge, "idle") /\ UNCHANGED <<st, spell, asked>>
    /\ obs' = NoPayload
    /\ UNCHANGED <<world, room, connected, first, pending, running, payload, armed,
                   leaving, judgedAt>>

Suspend ==
    /\ where[Judge] = "suspend"
    /\ running' = FALSE
    /\ Moves(Judge, "idle")
    /\ UNCHANGED <<world, room, connected, first, pending, payload, st, armed, leaving,
                   judgedAt, obs, asked, spell>>

-----------------------------------------------------------------------------
(* connectLoop. *)

LinkUp ==
    /\ where[Loop] = "dialling"
    /\ connected' = TRUE
    /\ asked' = now
    /\ Moves(Loop, IF first THEN "replay" ELSE "reset")
    /\ UNCHANGED <<world, room, first, pending, running, payload, st, armed, leaving,
                   judgedAt, obs, spell>>

\* The first connect: replayResumes.  applyDemand returns early for a viewer.
Replay ==
    /\ where[Loop] = "replay"
    /\ pending' = FALSE /\ first' = FALSE
    /\ Moves(Loop, IF pending THEN "resume" ELSE "idle")
    /\ UNCHANGED <<world, room, connected, running, payload, st, armed, leaving,
                   judgedAt, obs, asked, spell>>

\* A reconnect: Supervisor.Reset, which probes what was asleep, and Reconnected,
\* which starts the collector again whether or not it is wanted.
ResetAll ==
    /\ where[Loop] = "reset"
    /\ st' = Reset(st)
    /\ Moves(Loop, IF st.dormant THEN "reprobe" ELSE "restart")
    /\ spell' = NoSpell(spell.slept)
    /\ UNCHANGED <<world, room, connected, first, pending, running, payload, armed,
                   leaving, judgedAt, obs, asked>>

Reconnected ==
    /\ where[Loop] = "restart"
    /\ running' = TRUE
    /\ Moves(Loop, "idle")
    /\ UNCHANGED <<world, room, connected, first, pending, payload, st, armed, leaving,
                   judgedAt, obs, asked, spell>>

LinkDown ==
    /\ where[Loop] = "idle" /\ drops < MaxDrops
    /\ drops' = drops + 1
    /\ connected' = FALSE
    /\ Moves(Loop, "stop")
    /\ UNCHANGED <<now, menu, blurs, changes, room, first, pending, running, payload,
                   st, armed, leaving, judgedAt, obs, asked, spell>>

StopOnDrop ==
    /\ where[Loop] = "stop"
    /\ running' = FALSE
    /\ Moves(Loop, "dialling")
    /\ UNCHANGED <<world, room, connected, first, pending, payload, st, armed, leaving,
                   judgedAt, obs, asked, spell>>

-----------------------------------------------------------------------------
(* The router and the clock. *)

MenuChanges ==
    /\ changes < MaxChanges
    /\ menu' \in MenuStates \ {menu}
    /\ changes' = changes + 1
    /\ asked' = now
    /\ UNCHANGED <<now, blurs, drops, room, connected, first, pending, running, payload,
                   st, armed, leaving, where, judgedAt, obs, spell>>

\* Other collectors deliver all the while, so a judgement that is due is made,
\* and done with, before a dormancyTick is over.
Advance ==
    /\ now < MaxTime
    /\ where[Judge] = "idle" /\ ~JudgeDue
    /\ now' = now + 1
    /\ UNCHANGED <<menu, bounds, room, connected, first, pending, running, payload, st,
                   armed, leaving, where, judgedAt, obs, asked, spell>>

Funnel(x) == Resume(x) \/ Latch(x) \/ IsDormant(x) \/ WakeForFocus(x) \/ Probe(x) \/ Start(x)

DemandNext ==
    \/ \E v \in Sockets : Focus(v) \/ Blur(v) \/ ApplyDemand(v)
    \/ \E x \in actors : Funnel(x)
    \/ GraceEnds \/ SuspendCollector
    \/ Poll \/ NoteDelivery \/ Tick \/ Suspend
    \/ LinkUp \/ Replay \/ ResetAll \/ Reconnected \/ LinkDown \/ StopOnDrop
    \/ MenuChanges \/ Advance

DemandSpec == DemandInit /\ [][DemandNext]_demandVars

-----------------------------------------------------------------------------
(* Properties *)

Holds == {"rows", "nothing", "nothing supported"}
AtRest == \A x \in actors : where[x] = "idle"

\* Where each goroutine can be: in the funnel of ResumeCollector, or in its own code.
InFunnel == {"idle", "resume", "latch", "asleep?", "wake", "probe", "start"}
Places(x) ==
    InFunnel \cup CASE x = Judge -> {"tick", "suspend", "look"}
                    [] x = Loop -> {"dialling", "replay", "reset", "reprobe", "restart", "stop"}
                    [] OTHER -> {"demand"}

Payloads == [ts : Stamps \cup {0}, holds : Holds]
States ==
    [streak : 0 .. EmptyThreshold - 1, dormant : BOOLEAN, probing : BOOLEAN,
     lastTS : Stamps \cup {0}, wakeAt : 0 .. MaxTime + MaxBackoff,
     probeDeadline : 0 .. MaxTime + ProbeTimeout,
     lastCountedAt : 0 .. MaxTime, delay : Backoff .. MaxBackoff]

\* Every variable is in range, the collector sleeps for no longer than the
\* options allow, and its streak never reaches the threshold that ends it.
DemandTypeOK ==
    /\ now \in 1 .. MaxTime /\ menu \in MenuStates /\ room \subseteq Sockets
    /\ connected \in BOOLEAN /\ first \in BOOLEAN /\ pending \in BOOLEAN /\ running \in BOOLEAN
    /\ payload \in Payloads /\ obs \in Payloads /\ st \in States
    /\ armed \in 0 .. MaxTimers /\ leaving \in 0 .. armed
    /\ where \in [actors -> UNION {Places(x) : x \in actors}]
    /\ \A x \in actors : where[x] \in Places(x)
    /\ judgedAt \in 0 .. MaxTime /\ asked \in 1 .. MaxTime
    /\ spell \in [from : 0 .. MaxTime, readings : Nat, slept : BOOLEAN]
    /\ blurs \in 0 .. MaxBlurs

\* With the link up and everything done with, a collector whose page is open is
\* running, as long as no page was left and the judge never put it to sleep: a
\* focus that arrived before the link, or while it was down or coming up, is not
\* lost ("nothing ever asked again", internal/session/session.go).
FocusIsNotLost ==
    AtRest /\ connected /\ Wants /\ blurs = 0 /\ ~spell.slept => running

\* The same whatever came before.  The code does not keep it: the grace timer
\* and the judge each decide to suspend and do so later, and a focus in between
\* is undone.
WantedRuns == AtRest /\ connected /\ Wants /\ ~st.dormant => running

\* With everything done with and no grace running, a collector nobody is in a
\* room of is stopped ("a collector runs if anybody is in any room it declares",
\* internal/server/demand.go).
UnwantedStops == AtRest /\ connected /\ armed = 0 /\ ~Wants => ~running

\* A collector that is asleep is stopped ("a sleeping collector holds none",
\* internal/dormancy/dormancy.go).
DormantIsStopped == AtRest /\ st.dormant => ~running

\* Rows in the menu of a sleeping collector are noticed, while the link is up,
\* within the longest delay, a probe's timeout and one judgement of falling
\* asleep, of the rows' appearing or of the last failed reading, whichever comes
\* last.
RowsWakeTheSleeper ==
    connected /\ menu = "rows" /\ st.dormant
        => now <= asked + MaxBackoff + ProbeTimeout + 1

\* A reading that stands still is not condemned by the judge looking at it: a
\* collector falls asleep on EmptyThreshold readings that found nothing, or for
\* each that is missing after another Restamp ("a ten-minute collector must not
\* be condemned by a supervisor ticking every fifteen seconds",
\* internal/dormancy/dormancy.go).
OneReadingIsNotEnough ==
    [][~st.dormant /\ st'.dormant /\ obs.holds = "nothing"
        => \/ Spelled.readings >= EmptyThreshold
           \/ judgedAt >= Spelled.from + (EmptyThreshold - Spelled.readings) * Restamp]_demandVars
=============================================================================
