----------------------------- MODULE SessionLink ----------------------------
(***************************************************************************)
(* internal/session/session.go: the connection of one session.              *)
(*                                                                         *)
(* connectLoop dials, adopts the client, starts the collectors, waits for   *)
(* the link to go down, cleans up and dials again, for as long as the       *)
(* session is not closed.  Reconfigure swaps the endpoint under it and      *)
(* idleOut tears the session down, each on a goroutine of its own and each  *)
(* with one critical section of s.mu followed by calls made outside it.     *)
(*                                                                         *)
(* A step is a critical section of s.mu, or what a goroutine does between   *)
(* two of them.                                                             *)
(***************************************************************************)
CONSTANTS
    Cfgs,       \* endpoints and credentials an operator enters
    FirstCfg,   \* the one the session was built with
    Accepted,   \* those the router takes
    Clients,    \* bound on the connections anything still points at
    Collectors, \* what the connect block starts
    Suspended,  \* those of them the loop itself stops when the link goes
    None        \* nil

ASSUME CfgsAssumption == FirstCfg \in Cfgs /\ Accepted \subseteq Cfgs
ASSUME CollectorsAssumption == Suspended \subseteq Collectors
ASSUME NoneAssumption == None \notin Clients

VARIABLES
    cfg, client, connected, closed, \* s.cfg, s.client, s.connected, s.closed
    wake,       \* the token in s.wake
    at, open, up,   \* clients: the endpoint each was dialled at, those whose socket
                \* is open, and those of them that are Connected
    running,    \* the collectors that are started
    told,       \* what the connectivity tracker was last told
    pc, dialled, c, down, reportedDown, \* connectLoop: `cfg`, `c`, `down`
    starts,     \* the collectors its connect block has yet to start
    rpc, rc,    \* Reconfigure, and its `c`
    tpc, tc     \* idleOut, and its `c`

session == <<cfg, client, connected, closed>>
local == <<dialled, c, down, reportedDown, starts>>
conns == <<at, open, up>>
reconf == <<rpc, rc>>
teardown == <<tpc, tc>>
vars == <<session, wake, conns, running, told, pc, local, reconf, teardown>>

\* The type invariant.  Its last line: what s.client names is the loop's own client,
\* and a session that says it is connected has one.
TypeOK ==
    /\ cfg \in Cfgs /\ client \in Clients \cup {None} /\ connected \in BOOLEAN /\ closed \in BOOLEAN
    /\ wake \in BOOLEAN /\ running \subseteq Collectors /\ told \in {"nothing", "up", "down"}
    /\ at \in [Clients -> Cfgs] /\ open \subseteq Clients /\ up \subseteq open
    /\ pc \in {"top", "dial", "adopt", "failed", "backoff", "start", "watch", "drop", "pause", "gone"}
    /\ dialled \in Cfgs /\ c \in Clients \cup {None} /\ down \in BOOLEAN /\ reportedDown \in BOOLEAN
    /\ starts \subseteq Collectors
    /\ rpc \in {"idle", "close", "nudge"} /\ rc \in Clients \cup {None}
    /\ tpc \in {"idle", "nudge", "stop", "close", "done"} /\ tc \in Clients \cup {None}
    /\ client \in {c, None} /\ (connected => client # None)

Init ==
    /\ cfg = FirstCfg /\ client = None /\ connected = FALSE /\ closed = FALSE
    /\ wake = FALSE /\ running = {} /\ told = "nothing"
    /\ at = [i \in Clients |-> FirstCfg] /\ open = {} /\ up = {}
    /\ pc = "top" /\ dialled = FirstCfg /\ c = None /\ down = FALSE /\ reportedDown = FALSE
    /\ starts = {}
    /\ rpc = "idle" /\ rc = None /\ tpc = "idle" /\ tc = None

Close(i) == open' = open \ {i} /\ up' = up \ {i} /\ UNCHANGED at

-----------------------------------------------------------------------------
(* connectLoop *)

\* The top of a turn: leave, or copy the endpoint to dial.
Turn ==
    /\ pc = "top"
    /\ IF closed
       THEN pc' = "gone" /\ UNCHANGED dialled
       ELSE pc' = "dial" /\ dialled' = cfg
    /\ UNCHANGED <<session, wake, conns, running, told, c, down, reportedDown, starts, reconf, teardown>>

\* routeros.Dial, outside s.mu.  It answers, or it times out.
Dial ==
    /\ pc = "dial"
    /\ \/ /\ dialled \in Accepted
          /\ \E i \in Clients \ (open \cup {c, rc, tc}) :
                /\ at' = [at EXCEPT ![i] = dialled]
                /\ open' = open \cup {i} /\ up' = up \cup {i}
                /\ c' = i
          /\ pc' = "adopt"
       \/ /\ pc' = "failed"
          /\ UNCHANGED <<conns, c>>
    /\ UNCHANGED <<session, wake, running, told, dialled, down, reportedDown, starts, reconf, teardown>>

\* Faulty form: the dial is retried without another turn of the loop.
FailedRetries ==
    /\ pc = "failed"
    /\ connected' = FALSE
    /\ reportedDown' = TRUE
    /\ told' = IF reportedDown THEN told ELSE "down"
    /\ pc' = "dial"
    /\ UNCHANGED <<cfg, client, closed, wake, conns, running, dialled, c, down, starts, reconf, teardown>>

\* The failure is noted and, the first time of an outage, reported.
Failed ==
    /\ pc = "failed"
    /\ connected' = FALSE
    /\ reportedDown' = TRUE
    /\ told' = IF reportedDown THEN told ELSE "down"
    /\ pc' = "backoff"
    /\ UNCHANGED <<cfg, client, closed, wake, conns, running, dialled, c, down, starts, reconf, teardown>>

\* sleepOrWake: the interval ends or a nudge ends it, then closed is read.
Backoff ==
    /\ pc = "backoff"
    /\ wake' = FALSE \/ wake' = wake
    /\ pc' = IF closed THEN "gone" ELSE "top"
    /\ UNCHANGED <<session, conns, running, told, local, reconf, teardown>>

\* Faulty form: a loop that finds the session released leaves at once.
AdoptLeaving ==
    /\ pc = "adopt"
    /\ IF closed
       THEN pc' = "gone" /\ UNCHANGED <<session, told, reportedDown, starts>>
       ELSE /\ client' = c /\ connected' = TRUE
            /\ reportedDown' = FALSE /\ told' = "up"
            /\ starts' = Collectors
            /\ pc' = "start"
            /\ UNCHANGED <<cfg, closed>>
    /\ UNCHANGED <<wake, conns, running, dialled, c, down, reconf, teardown>>

\* Faulty form: a new connection does not end the outage for the reports.
AdoptStillDown ==
    /\ pc = "adopt"
    /\ IF closed
       THEN Close(c) /\ pc' = "gone" /\ UNCHANGED <<session, told, starts>>
       ELSE /\ client' = c /\ connected' = TRUE
            /\ told' = "up"
            /\ starts' = Collectors
            /\ pc' = "start"
            /\ UNCHANGED <<cfg, closed, conns>>
    /\ UNCHANGED <<wake, running, dialled, c, down, reportedDown, reconf, teardown>>

\* adoptConnection, unless the session was released while dialling.
Adopt ==
    /\ pc = "adopt"
    /\ IF closed
       THEN Close(c) /\ pc' = "gone" /\ UNCHANGED <<session, told, reportedDown, starts>>
       ELSE /\ client' = c /\ connected' = TRUE
            /\ reportedDown' = FALSE /\ told' = "up"
            /\ starts' = Collectors
            /\ pc' = "start"
            /\ UNCHANGED <<cfg, closed, conns>>
    /\ UNCHANGED <<wake, running, dialled, c, down, reconf, teardown>>

\* The connect block, or on a later connection the reconnect block: Start or
\* Reconnected of one collector after the other, with no look at s.closed.
Start ==
    /\ pc = "start"
    /\ \E k \in starts :
          /\ starts' = starts \ {k}
          /\ running' = running \cup {k}
    /\ pc' = IF starts' = {} THEN "watch" ELSE "start"
    /\ UNCHANGED <<session, wake, conns, told, dialled, c, down, reportedDown, reconf, teardown>>

\* waitUntilDown and the critical section after it.
WaitUntilDown ==
    /\ pc = "watch" /\ (c \in up => closed)
    /\ down' = ~closed
    /\ client' = None /\ connected' = FALSE
    /\ pc' = "drop"
    /\ UNCHANGED <<cfg, closed, wake, conns, running, told, dialled, c, reportedDown, starts, reconf, teardown>>

\* Faulty form: the socket of a link that failed is left to the router.
DropUnclosed ==
    /\ pc = "drop"
    /\ told' = IF down /\ ~reportedDown THEN "down" ELSE told
    /\ reportedDown' = (reportedDown \/ down)
    /\ running' = running \ Suspended
    /\ c' = None
    /\ pc' = IF down THEN "pause" ELSE "gone"
    /\ UNCHANGED <<session, wake, conns, dialled, down, starts, reconf, teardown>>

\* What follows it: report, close whatever the reason, suspend, and leave or go on.
Drop ==
    /\ pc = "drop"
    /\ told' = IF down /\ ~reportedDown THEN "down" ELSE told
    /\ reportedDown' = (reportedDown \/ down)
    /\ Close(c)
    /\ running' = running \ Suspended
    /\ c' = None
    /\ pc' = IF down THEN "pause" ELSE "gone"
    /\ UNCHANGED <<session, wake, dialled, down, starts, reconf, teardown>>

\* A plain time.Sleep, which no nudge ends.
Pause ==
    /\ pc = "pause"
    /\ pc' = "top"
    /\ UNCHANGED <<session, wake, conns, running, told, local, reconf, teardown>>

Loop == Turn \/ Dial \/ Failed \/ Backoff \/ Adopt \/ Start \/ WaitUntilDown \/ Drop \/ Pause

\* The link fails: Connected turns false and the socket stays open.
LinkFails(i) ==
    /\ i \in up
    /\ up' = up \ {i}
    /\ UNCHANGED <<session, wake, at, open, running, told, pc, local, reconf, teardown>>

-----------------------------------------------------------------------------
(* Reconfigure *)

Reconfigure(new) ==
    /\ rpc = "idle" /\ ~closed /\ new # cfg
    /\ cfg' = new /\ client' = None /\ connected' = FALSE
    /\ rc' = client
    /\ rpc' = "close"
    /\ UNCHANGED <<closed, wake, conns, running, told, pc, local, teardown>>

ReconfigureClose ==
    /\ rpc = "close"
    /\ Close(rc)
    /\ rc' = None /\ rpc' = "nudge"
    /\ UNCHANGED <<session, wake, running, told, pc, local, teardown>>

\* Faulty form: s.wake has no buffer, so only a loop already asleep hears it.
NudgeAsleep == wake' = (pc = "backoff")

\* The buffered channel keeps one token.
Nudge == wake' = TRUE

ReconfigureNudge ==
    /\ rpc = "nudge"
    /\ Nudge
    /\ rpc' = "idle"
    /\ UNCHANGED <<session, conns, running, told, pc, local, rc, teardown>>

-----------------------------------------------------------------------------
(* idleOut of a session that nothing speaks for *)

IdleOut ==
    /\ tpc = "idle"
    /\ closed' = TRUE
    /\ tc' = client
    /\ tpc' = "nudge"
    /\ UNCHANGED <<cfg, client, connected, wake, conns, running, told, pc, local, reconf>>

IdleOutNudge ==
    /\ tpc = "nudge"
    /\ Nudge
    /\ tpc' = "stop"
    /\ UNCHANGED <<session, conns, running, told, pc, local, reconf, tc>>

\* Every collector the connect block started, and the scheduler.
IdleOutStop ==
    /\ tpc = "stop"
    /\ running' = {}
    /\ tpc' = "close"
    /\ UNCHANGED <<session, wake, conns, told, pc, local, reconf, tc>>

IdleOutClose ==
    /\ tpc = "close"
    /\ Close(tc)
    /\ tc' = None /\ tpc' = "done"
    /\ UNCHANGED <<session, wake, running, told, pc, local, reconf>>

Others ==
    \/ ReconfigureClose \/ ReconfigureNudge
    \/ IdleOutNudge \/ IdleOutStop \/ IdleOutClose

\* The session is torn down and its goroutines are gone.
Ended == pc = "gone" /\ tpc = "done" /\ rpc = "idle"

Finished == Ended /\ UNCHANGED vars

Next ==
    \/ Loop \/ Others \/ IdleOut \/ Finished
    \/ \E i \in Clients : LinkFails(i)
    \/ \E new \in Cfgs : Reconfigure(new)

Spec == Init /\ [][Next]_vars

\* Dial and sleeps end, and goroutines run.  Nothing is assumed of the router,
\* of the operator or of the idle grace.
FairSpec == Spec /\ WF_vars(Loop) /\ WF_vars(Others)

-----------------------------------------------------------------------------
(* Properties *)

\* The router sees one API login of this session at a time: the loop dials again
\* only when the socket of the last connection is closed, whether the link
\* failed, the endpoint was swapped under it or the session is ending.
OneConnection == \A i, j \in open : i = j

\* A session that has ended leaves no socket behind, whichever of the loop, the
\* teardown and Reconfigure got to the client first.
NoOrphanConnection == Ended => open = {}

\* A loop parked in the auth backoff, which reaches five minutes, with an endpoint
\* that is not the session's any more, or with the session closed, has a nudge
\* waiting or on its way.
ParkedLoopIsWoken ==
    pc = "backoff" =>
        /\ dialled # cfg => wake \/ rpc # "idle"
        /\ closed => wake \/ tpc = "nudge"

\* The connectivity record is right whenever the loop rests: an outage has been
\* reported by the time it waits to dial again, a recovery by the time it starts
\* the collectors.
OutageIsReported ==
    /\ pc \in {"backoff", "pause"} => told = "down" /\ ~connected
    /\ pc \in {"start", "watch"} => told = "up"

\* A closed session ends: loop gone, teardown complete.
TeardownEnds == closed ~> Ended

\* Reconfigure's comment: "connectLoop re-reads cfg on every pass, so its next turn
\* dials the new endpoint".  A session is not left on a connection of an endpoint
\* that was replaced.
ClientIsOfThisEndpoint == client # None => at[client] = cfg

\* idleOut's comment on stopping the collectors: "s.closed is set and the session
\* is out of m.live.  Nothing can resume it".  Nothing runs in a session that has
\* ended.
EndedSessionRunsNothing == Ended => running = {}
=============================================================================
