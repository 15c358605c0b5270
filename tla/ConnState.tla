------------------------------ MODULE ConnState ------------------------------
(***************************************************************************)
(* internal/connstate and internal/history/connectivity.go: whether a      *)
(* router is OFFLINE, as opposed to whether a socket is open just now.     *)
(*                                                                         *)
(* The connect loops of a router's sessions report their link to the       *)
(* tracker, a one-second ticker advances its debounce, and each of them    *)
(* hands on what the machine decided after it let go of the entry's mutex: *)
(* rows to the connectivity history, verdicts to the Router Offline alert. *)
(*                                                                         *)
(* A step is a critical section of the entry's mutex, of the session's, or *)
(* one of the calls made outside them.  One router; its sessions follow    *)
(* one another, and the loop of one that was closed may outlive it.        *)
(***************************************************************************)
EXTENDS Naturals, FiniteSets, Sequences

CONSTANTS
    Sessions,       \* the sessions built for this router, one after the other
    Thresholds,     \* connDownThresholdSec, as an operator may set it
    DefaultSec,     \* what it is until then
    MaxTime,        \* bound on the clock
    Ticker          \* the goroutine of startConnTicker

ASSUME ThresholdsAssumption == Thresholds \subseteq Nat /\ DefaultSec \in Nat
ASSUME MaxTimeAssumption == MaxTime \in Nat
ASSUME TickerAssumption == Ticker \notin Sessions

VARIABLES
    now,            \* time.Now()
    c,              \* the router's history.Connectivity
    pc,             \* where each session's connectLoop is
    closed,         \* its s.closed
    reportedDown,   \* the loop's reportedDown
    effect,         \* what each caller has yet to hand on
    newest,         \* the connectivity row with the latest ts that was written
    alert,          \* a Router Offline event is open
    quiet           \* when a link that was reported was last up, and the least
                    \* threshold since

vars == <<now, c, pc, closed, reportedDown, effect, newest, alert, quiet>>
Callers == Sessions \cup {Ticker}
Instants == 0 .. MaxTime

(***************************************************************************)
(* history.Connectivity.  Each method returns the machine it leaves and    *)
(* its ConnEffect.                                                         *)
(***************************************************************************)
Row(connected, ts) == [connected |-> connected, ts |-> ts]
NoEffect == [rows |-> <<>>, status |-> <<>>]
Verdict(rows, up) == [rows |-> rows, status |-> <<up>>]
Idle(m) == [m EXCEPT !.timerLive = FALSE, !.timerCold = FALSE]
Pending(m, cold) ==
    [m EXCEPT !.timerObs = now, !.timerAt = now + m.thresh,
              !.timerLive = TRUE, !.timerCold = cold]

\* Faulty form: a connect leaves the pending debounce alone.
ConnectedKeepsTimer ==
    [c EXCEPT !.prev = "up", !.timerCold = FALSE, !.declaredOffline = FALSE]

ConnectedMachine == [Idle(c) EXCEPT !.prev = "up", !.declaredOffline = FALSE]
ConnectedEffect ==
    Verdict(IF c.prev = "up" THEN <<>> ELSE <<Row(TRUE, now)>>, TRUE)

DisconnectedMachine ==
    CASE c.timerLive -> c
      [] ~c.timerLive /\ c.prev = "never" ->
            IF c.thresh = 0 THEN [c EXCEPT !.prev = "down"]
            ELSE Pending([c EXCEPT !.prev = "down"], TRUE)
      [] ~c.timerLive /\ c.prev # "never" /\ c.thresh = 0 ->
            [c EXCEPT !.prev = "down",
                      !.declaredOffline = @ \/ c.prev = "up"]
      [] OTHER -> Pending(c, c.timerCold)
DisconnectedEffect ==
    CASE c.timerLive -> NoEffect
      [] ~c.timerLive /\ c.thresh = 0 -> Verdict(<<Row(FALSE, now)>>, FALSE)
      [] ~c.timerLive /\ c.thresh # 0 /\ c.prev = "never" -> Verdict(<<>>, FALSE)
      [] OTHER -> NoEffect

\* Faulty form: the debounce is not waited for.
DueAtOnce == c.timerLive

Due == c.timerLive /\ now >= c.timerAt

TickMachine ==
    IF c.timerCold THEN Idle(c)
    ELSE [c EXCEPT !.timerLive = FALSE, !.declaredOffline = TRUE, !.prev = "down"]
\* Faulty form: the row carries the moment the debounce expired.
TickEffectLate ==
    IF c.timerCold THEN [rows |-> <<Row(FALSE, now)>>, status |-> <<>>]
    ELSE Verdict(<<Row(FALSE, now)>>, FALSE)

TickEffect ==
    IF c.timerCold THEN [rows |-> <<Row(FALSE, c.timerObs)>>, status |-> <<>>]
    ELSE Verdict(<<Row(FALSE, c.timerObs)>>, FALSE)

(***************************************************************************)
(* The sessions.                                                           *)
(***************************************************************************)
Live == {s \in Sessions : pc[s] # "none" /\ ~closed[s]}
Up == {s \in Sessions : pc[s] = "up"}
AtRest(x) == effect[x] = NoEffect

Init ==
    /\ now = 0
    /\ c = [prev |-> "never", thresh |-> DefaultSec, timerLive |-> FALSE,
            timerCold |-> FALSE, timerAt |-> 0, timerObs |-> 0,
            declaredOffline |-> FALSE]
    /\ pc = [s \in Sessions |-> "none"]
    /\ closed = [s \in Sessions |-> FALSE]
    /\ reportedDown = [s \in Sessions |-> FALSE]
    /\ effect = [x \in Callers |-> NoEffect]
    /\ newest = Row(FALSE, 0)
    /\ alert = FALSE
    /\ quiet = [since |-> 0, least |-> DefaultSec]

\* Manager.Acquire builds a session when the router has none.
Open(s) ==
    /\ pc[s] = "none" /\ Live = {}
    /\ pc' = [pc EXCEPT ![s] = "top"]
    /\ UNCHANGED <<now, c, closed, reportedDown, effect, newest, alert, quiet>>

\* idleOut.
Close(s) ==
    /\ s \in Live
    /\ closed' = [closed EXCEPT ![s] = TRUE]
    /\ UNCHANGED <<now, c, pc, reportedDown, effect, newest, alert, quiet>>

\* The head of connectLoop.
Turn(s) ==
    /\ pc[s] = "top" /\ AtRest(s)
    /\ pc' = [pc EXCEPT ![s] = IF closed[s] THEN "gone" ELSE "dial"]
    /\ UNCHANGED <<now, c, closed, reportedDown, effect, newest, alert, quiet>>

Disconnected(s) ==
    /\ c' = IF reportedDown[s] THEN c ELSE DisconnectedMachine
    /\ effect' = IF reportedDown[s] THEN effect
                 ELSE [effect EXCEPT ![s] = DisconnectedEffect]
    /\ reportedDown' = [reportedDown EXCEPT ![s] = TRUE]

\* A dial that failed; nothing on this path looks at s.closed.
DialFails(s) ==
    /\ pc[s] = "dial"
    /\ Disconnected(s)
    /\ pc' = [pc EXCEPT ![s] = "top"]
    /\ UNCHANGED <<now, closed, newest, alert, quiet>>

\* adoptConnection.
Adopt(s) ==
    /\ pc[s] = "dial"
    /\ pc' = [pc EXCEPT ![s] = IF closed[s] THEN "gone" ELSE "adopted"]
    /\ reportedDown' = [reportedDown EXCEPT ![s] = @ /\ closed[s]]
    /\ UNCHANGED <<now, c, closed, effect, newest, alert, quiet>>

Connected(s) ==
    /\ pc[s] = "adopted"
    /\ c' = ConnectedMachine
    /\ effect' = [effect EXCEPT ![s] = ConnectedEffect]
    /\ pc' = [pc EXCEPT ![s] = "up"]
    /\ UNCHANGED <<now, closed, reportedDown, newest, alert, quiet>>

\* waitUntilDown returned: `down := !s.closed`, read with the client cleared.
LinkDown(s) ==
    /\ pc[s] = "up" /\ AtRest(s)
    /\ pc' = [pc EXCEPT ![s] = IF closed[s] THEN "top" ELSE "dropped"]
    /\ quiet' = [since |-> now, least |-> c.thresh]
    /\ UNCHANGED <<now, c, closed, reportedDown, effect, newest, alert>>

DropReported(s) ==
    /\ pc[s] = "dropped"
    /\ Disconnected(s)
    /\ pc' = [pc EXCEPT ![s] = "top"]
    /\ UNCHANGED <<now, closed, newest, alert, quiet>>

(***************************************************************************)
(* The ticker, the operator, and what is handed on.                        *)
(***************************************************************************)
TickAll ==
    /\ AtRest(Ticker) /\ Due
    /\ c' = TickMachine
    /\ effect' = [effect EXCEPT ![Ticker] = TickEffect]
    /\ UNCHANGED <<now, pc, closed, reportedDown, newest, alert, quiet>>

SetThreshold(t) ==
    /\ t # c.thresh
    /\ c' = [c EXCEPT !.thresh = t]
    /\ quiet' = [quiet EXCEPT !.least = IF t < @ THEN t ELSE @]
    /\ UNCHANGED <<now, pc, closed, reportedDown, effect, newest, alert>>

\* apply emits and then announces, TickAll announces and then emits.
Emit(x) ==
    /\ effect[x].rows # <<>>
    /\ x = Ticker => effect[x].status = <<>>
    /\ newest' = IF effect[x].rows[1].ts >= newest.ts THEN effect[x].rows[1]
                 ELSE newest
    /\ effect' = [effect EXCEPT ![x].rows = <<>>]
    /\ UNCHANGED <<now, c, pc, closed, reportedDown, alert, quiet>>

\* connVerdict: AlertRouter answers only for a router with a session, and the
\* store keeps one open event and resolves none that is not there.
Announce(x) ==
    /\ effect[x].status # <<>>
    /\ x # Ticker => effect[x].rows = <<>>
    /\ alert' = IF Live = {} THEN alert ELSE ~effect[x].status[1]
    /\ effect' = [effect EXCEPT ![x].status = <<>>]
    /\ UNCHANGED <<now, c, pc, closed, reportedDown, newest, quiet>>

Advance ==
    /\ now < MaxTime
    /\ now' = now + 1
    /\ quiet' = IF Up = {} THEN quiet
                ELSE [since |-> now + 1, least |-> c.thresh]
    /\ UNCHANGED <<c, pc, closed, reportedDown, effect, newest, alert>>

Loop(s) ==
    Turn(s) \/ DialFails(s) \/ Adopt(s) \/ Connected(s) \/ LinkDown(s) \/ DropReported(s)

Next ==
    \/ \E s \in Sessions : Open(s) \/ Close(s) \/ Loop(s)
    \/ TickAll
    \/ \E t \in Thresholds : SetThreshold(t)
    \/ \E x \in Callers : Emit(x) \/ Announce(x)
    \/ Advance

Spec == Init /\ [][Next]_vars

(***************************************************************************)
(* Properties.                                                             *)
(***************************************************************************)
\* Every variable is in range, and a cold start's debounce only ever runs for
\* a router whose verdict is down (Connectivity.timerCold).
TypeOK ==
    /\ now \in Instants
    /\ c \in [prev : {"never", "up", "down"}, thresh : Thresholds \cup {DefaultSec},
              timerLive : BOOLEAN, timerCold : BOOLEAN, timerAt : Nat,
              timerObs : Instants, declaredOffline : BOOLEAN]
    /\ pc \in [Sessions -> {"none", "top", "dial", "adopted", "up", "dropped", "gone"}]
    /\ closed \in [Sessions -> BOOLEAN]
    /\ reportedDown \in [Sessions -> BOOLEAN]
    /\ \A x \in Callers :
        /\ effect[x].rows \in
            {<<>>} \cup {<<r>> : r \in [connected : BOOLEAN, ts : Instants]}
        /\ effect[x].status \in {<<>>, <<TRUE>>, <<FALSE>>}
    /\ newest \in [connected : BOOLEAN, ts : Instants]
    /\ alert \in BOOLEAN
    /\ quiet \in [since : Instants, least : Thresholds \cup {DefaultSec}]
    /\ c.timerCold => c.timerLive /\ c.prev = "down"

\* The verdict Offline is never held of a router that a session is connected
\* to and has said so: no debounce armed by an earlier loss survives the
\* connect, whatever the ticker and the threshold did meanwhile.
OfflineMeansDown ==
    \A s \in Sessions : pc[s] = "up" => c.prev = "up"

\* An outage is declared only when no reported link was up for as long as the least
\* threshold that applied since: a shorter drop says nothing to anybody.
ShortDropIsNotAnOutage ==
    [][c.prev = "up" /\ c'.prev = "down"
        => quiet.since + quiet.least <= now]_vars

\* Once everything was handed on, the newest connectivity row says what the
\* verdict is, although the ticker's rows are written after rows that are
\* younger; a cold start's row is still in its debounce.
NewestRowIsTheVerdict ==
    (\A x \in Callers : AtRest(x)) /\ c.prev # "never" /\ ~c.timerCold
        => newest.connected = (c.prev = "up")

\* Once everything was handed on, a Router Offline event is open exactly while
\* the verdict is down ("the tracker has already decided that a state changed,
\* and this evaluator is not the thing remembering it",
\* internal/alert/routerstatus.go).
AlertFollowsTheVerdict ==
    (\A x \in Callers : AtRest(x)) /\ Live # {}
        => alert = (c.prev = "down")
=============================================================================
