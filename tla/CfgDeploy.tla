------------------------------ MODULE CfgDeploy ------------------------------
(***************************************************************************)
(* One router's part of a configuration deploy: internal/cfgdeploy's        *)
(* RunAdditions and RunReset, and what RouterOS does meanwhile.             *)
(*                                                                         *)
(* The router is changed by importing files over the session MikroDash      *)
(* already has; whether MikroDash can still get in is only shown by a new   *)
(* login.  A template that could cut MikroDash off (kind "lock") is run     *)
(* with a dead-man armed: a backup and a scheduler on the router that loads *)
(* it and reboots unless it is removed first.  Any command may fail, and    *)
(* one whose reply is lost may have run.                                    *)
(*                                                                         *)
(* A step is one command to the router or one wait for it.  Which run       *)
(* deploys to which router, and MikroDash's crash, are CfgJob's.            *)
(***************************************************************************)
EXTENDS Integers, FiniteSets

CONSTANTS
    Routers,
    Parts,      \* files the rendered template is split into
    MaxRuns     \* bound on the deploys that are started

ASSUME PartsAssumption == Parts \in Nat \ {0}
ASSUME RunsAssumption == MaxRuns \in Nat

Runs == 1 .. MaxRuns
Kinds == {"additions", "lock", "reset"}
NoRouter == "none"
ASSUME RoutersAssumption == IsFiniteSet(Routers) /\ NoRouter \notin Routers

VARIABLES
    holds,  \* per router: the run whose template it holds, and how much of it
    shut,   \* the run since which it takes no new login, 0 when it does
    power,  \* "up"; "loading" a backup, still answering; "reverting" or "wiping"
    from,   \* the run whose backup it is loading, or whose reset it is in
    sched,  \* the dead-man of each run: "none", "armed" or "ran"
    saved,  \* the backup of each run: what the router held, and shut
    booted, \* whether it has rebooted since the run began to wait for that
    linked, \* the routers MikroDash has a session with
    kind,   \* per run: its kind
    pc, at, run,    \* the deploy in progress: its step, its router, its run
    part, dm, out,  \* its next file, its deadMan, its Outcome
    touched,    \* history: per run, the routers it has changed or armed
    last,       \* history: the last run that deployed to a router
    excuse      \* history: what may falsify an outcome since that deploy began

router == <<holds, shut, power, from, sched, saved, booted>>
deploy == <<pc, at, run, part, dm, out>>
history == <<touched, last, excuse>>

Held(n, how) == [run |-> n, how |-> how]
Outcome(state, applied) == [state |-> state, applied |-> applied]
NoOutcome == Outcome("preflight-failed", "none")
NoBackup == [holds |-> Held(0, "all"), shut |-> 0]
NoSched == [n \in Runs |-> "none"]

DeployInit ==
    /\ holds = [r \in Routers |-> Held(0, "all")]
    /\ shut = [r \in Routers |-> 0]
    /\ power = [r \in Routers |-> "up"]
    /\ from = [r \in Routers |-> 0]
    /\ sched = [r \in Routers |-> NoSched]
    /\ saved = [r \in Routers |-> [n \in Runs |-> NoBackup]]
    /\ booted = [r \in Routers |-> FALSE]
    /\ linked = {}
    /\ kind = [n \in Runs |-> "additions"]
    /\ pc = "idle" /\ at = NoRouter /\ run = 0
    /\ part = 1 /\ dm = "none" /\ out = NoOutcome
    /\ touched = [n \in Runs |-> {}]
    /\ last = [r \in Routers |-> 0]
    /\ excuse = [r \in Routers |-> {}]

-----------------------------------------------------------------------------
(* RouterOS, and the session with it *)

\* A new login works.
Login(r) == power[r] \in {"up", "loading"} /\ shut[r] = 0

\* The dead-man's scheduler runs: the router begins to load the backup.  When
\* it does so between the two commands of disarm, or is one an earlier run left
\* behind, the deploy in progress cannot know.
Fires(r, m) ==
    /\ sched[r][m] = "armed" /\ power[r] = "up"
    /\ sched' = [sched EXCEPT ![r][m] = "ran"]
    /\ power' = [power EXCEPT ![r] = "loading"]
    /\ from' = [from EXCEPT ![r] = m]
    /\ excuse' = [excuse EXCEPT ![r] = @ \cup
            (IF m < last[r] THEN {"stale"} ELSE {}) \cup
            (IF at = r /\ run = m /\ pc = "remove" THEN {"raced"} ELSE {})]
    /\ UNCHANGED <<holds, shut, saved, booted, linked, kind, deploy, touched, last>>

GoesDown(r) ==
    /\ power[r] = "loading"
    /\ power' = [power EXCEPT ![r] = "reverting"]
    /\ linked' = linked \ {r}
    /\ UNCHANGED <<holds, shut, from, sched, saved, booted, kind, deploy, history>>

\* The router is back: holding exactly what was saved, without the schedulers
\* added since; or wiped, after a bootstrap that may stop early or leave no way
\* in, and without any scheduler.
Boots(r) ==
    /\ \/ /\ power[r] = "reverting"
          /\ LET s == saved[r][from[r]] IN
                holds' = [holds EXCEPT ![r] = s.holds] /\ shut' = [shut EXCEPT ![r] = s.shut]
          /\ sched' = [sched EXCEPT ![r] = [n \in Runs |-> IF n < from[r] THEN @[n] ELSE "none"]]
       \/ /\ power[r] = "wiping"
          /\ \E how \in {"booted", "wiped"} : holds' = [holds EXCEPT ![r] = Held(from[r], how)]
          /\ \E s \in {0, from[r]} : shut' = [shut EXCEPT ![r] = s]
          /\ sched' = [sched EXCEPT ![r] = NoSched]
    /\ power' = [power EXCEPT ![r] = "up"]
    /\ booted' = [booted EXCEPT ![r] = TRUE]
    /\ from' = [from EXCEPT ![r] = 0]
    /\ UNCHANGED <<saved, linked, kind, deploy, history>>

\* The session is lost at any time.  It comes back by a new login, which takes
\* longer than the run takes from one part's reply to the next part's command.
Unlink(r) ==
    /\ r \in linked
    /\ linked' = linked \ {r}
    /\ UNCHANGED <<router, kind, deploy, history>>
Link(r) ==
    /\ r \notin linked /\ Login(r)
    /\ ~ (at = r /\ pc = "import")
    /\ linked' = linked \cup {r}
    /\ UNCHANGED <<router, kind, deploy, history>>

-----------------------------------------------------------------------------
(* The deploy's steps *)

Goto(l) == pc' = l
Ends(state, applied) == Goto("end") /\ out' = Outcome(state, applied)

\* sweep removes what it can of our backups and schedulers, of whatever run.  A
\* dead-man that has lost either of the two does nothing any more.
SweepRows ==
    \E gone \in SUBSET {n \in Runs : sched[at][n] # "none"} :
        /\ gone # {} => at \in linked
        /\ sched' = [sched EXCEPT ![at] = [n \in Runs |-> IF n \in gone THEN "none" ELSE @[n]]]
        /\ saved' = [saved EXCEPT ![at] = [n \in Runs |-> IF n \in gone THEN NoBackup ELSE @[n]]]

Sweep ==
    /\ pc = "sweep" /\ Goto("preflight")
    /\ SweepRows
    /\ UNCHANGED <<holds, shut, power, from, booted, linked, kind, at, run, part, dm, out, history>>

\* Identity, prepare and judge, restore point, split, upload, dry-run, and (for
\* additions) prepare again: the first that fails ends the deploy, and none of
\* them changes the router's configuration.
AdditionsReady ==
    \/ kind[run] = "lock" /\ Goto("arm") /\ UNCHANGED out
    \/ kind[run] = "additions" /\ Goto("import") /\ out' = Outcome("applied", "all")
ResetReady == kind[run] = "reset" /\ Goto("reset") /\ UNCHANGED out
Preflight ==
    /\ pc = "preflight"
    /\ \/ Ends("preflight-failed", "none")
       \/ at \in linked /\ (AdditionsReady \/ ResetReady)
    /\ UNCHANGED <<router, linked, kind, at, run, part, dm, history>>

\* arm saves the backup and adds the scheduler.
Armed ==
    /\ sched' = [sched EXCEPT ![at][run] = "armed"]
    /\ saved' = [saved EXCEPT ![at][run] = [holds |-> holds[at], shut |-> shut[at]]]
    /\ touched' = [touched EXCEPT ![run] = @ \cup {at}]
    /\ UNCHANGED <<holds, shut, power, from>>
Arm ==
    /\ pc = "arm" /\ at \in linked
    /\ Armed /\ booted' = [booted EXCEPT ![at] = FALSE]
    /\ dm' = "armed" /\ Goto("import") /\ out' = Outcome("applied", "all")
    /\ UNCHANGED <<linked, kind, at, run, part, last, excuse>>

\* It fails, and its last command may have run all the same.
ArmFails ==
    /\ pc = "arm"
    /\ (at \in linked /\ Armed) \/ UNCHANGED <<holds, shut, power, from, sched, saved, touched>>
    /\ dm' = "none" /\ Ends("preflight-failed", "none")
    /\ UNCHANGED <<booted, linked, kind, at, run, part, last, excuse>>

\* What the router holds once part p is in, or some of it: a reset whose
\* bootstrap stopped early never holds all of its template.
Grown(h, p) ==
    IF h = Held(run, "wiped") \/ (h = Held(run, "booted") /\ p # Parts) THEN h
    ELSE Held(run, IF p = Parts THEN "all" ELSE "some")
Cut(h) == IF h \in {Held(run, "wiped"), Held(run, "booted")} THEN h ELSE Held(run, "some")

\* Whatever is imported may leave MikroDash without a way in.
Imports(h) ==
    /\ holds' = [holds EXCEPT ![at] = h]
    /\ \E s \in {shut[at], run} : shut' = [shut EXCEPT ![at] = s]
    /\ touched' = [touched EXCEPT ![run] = @ \cup {at}]

ImportPart ==
    /\ pc = "import" /\ at \in linked
    /\ Imports(Grown(holds[at], part))
    /\ IF part = Parts THEN Goto("reconnect") /\ UNCHANGED part
                       ELSE part' = part + 1 /\ UNCHANGED pc
    /\ UNCHANGED <<power, from, sched, saved, booted, linked, kind, at, run, dm, out, last, excuse>>

\* Faulty form: a later part that applied nothing of itself counts as nothing.
ImportStopsAsTold(applied) ==
    CASE applied = "unknown" -> Outcome("unknown", "unknown")
      [] applied = "none" -> Outcome("failed", "none")
      [] applied = "partial" -> Outcome("failed-partial", "partial")

\* RouterOS says where it stopped, or its reply is lost or not understood.  What
\* a reset has wiped is never nothing.
ResetStops(applied) ==
    IF applied = "unknown" THEN Outcome("unknown", "unknown") ELSE Outcome("failed-partial", "partial")
ImportStops(applied) ==
    CASE kind[run] = "reset" -> ResetStops(applied)
      [] kind[run] # "reset" /\ applied = "none" /\ part = 1 -> Outcome("failed", "none")
      [] kind[run] # "reset" /\ applied = "unknown" -> Outcome("unknown", "unknown")
      [] OTHER -> Outcome("failed-partial", "partial")
ImportFails ==
    /\ pc = "import" /\ Goto("reconnect")
    /\ \E applied \in {"none", "partial", "unknown"} :
        /\ out' = ImportStops(applied)
        /\ applied # "unknown" => at \in linked
        /\ \/ /\ applied # "partial" /\ UNCHANGED <<holds, shut, touched>>
           \/ /\ applied # "none" /\ at \in linked /\ Imports(Cut(holds[at]))
           \/ /\ applied = "unknown" /\ at \in linked /\ Imports(Grown(holds[at], part))
    /\ UNCHANGED <<power, from, sched, saved, booted, linked, kind, at, run, part, dm, last, excuse>>

\* No way in: with no dead-man that is the outcome, with one the revert is due.
ResetLockedOut == Ends("unknown", out.applied)
LockedOut ==
    \/ kind[run] = "reset" /\ ResetLockedOut
    \/ /\ kind[run] # "reset" /\ dm = "none"
       /\ Ends("unknown", IF out.applied = "all" THEN "unknown" ELSE out.applied)
    \/ kind[run] # "reset" /\ dm # "none" /\ Goto("revert") /\ UNCHANGED out

\* Faulty form: the session that is still open counts as a login.
ReconnectOldSession ==
    /\ pc = "reconnect"
    /\ \/ at \in linked /\ Goto(IF dm = "none" THEN "end" ELSE "print") /\ UNCHANGED out
       \/ LockedOut
    /\ UNCHANGED <<router, linked, kind, at, run, part, dm, history>>

\* freshLogin, for up to a minute.
Reconnect ==
    /\ pc = "reconnect"
    /\ \/ Login(at) /\ Goto(IF dm = "none" THEN "end" ELSE "print") /\ UNCHANGED out
       \/ LockedOut
    /\ UNCHANGED <<router, linked, kind, at, run, part, dm, history>>

\* disarm: its row is still there and has not run; then it is removed.
DisarmPrint ==
    /\ pc = "print"
    /\ \/ at \in linked /\ sched[at][run] = "armed" /\ Goto("remove") /\ UNCHANGED out
       \/ LockedOut
    /\ UNCHANGED <<router, linked, kind, at, run, part, dm, history>>
\* Faulty form: the error of the remove is not looked at.
DisarmRemoveUnread ==
    /\ pc = "remove" /\ dm' = "settled" /\ Goto("end")
    /\ \/ at \in linked /\ sched' = [sched EXCEPT ![at][run] = "none"]
       \/ UNCHANGED sched
    /\ UNCHANGED <<holds, shut, power, from, saved, booted, linked, kind, at, run, part, out, history>>
DisarmRemove ==
    /\ pc = "remove"
    /\ \/ /\ at \in linked /\ sched[at][run] # "none"
          /\ sched' = [sched EXCEPT ![at][run] = "none"]
          /\ \/ dm' = "settled" /\ Goto("end") /\ UNCHANGED out
             \/ LockedOut /\ UNCHANGED dm
       \/ LockedOut /\ UNCHANGED <<sched, dm>>
    /\ UNCHANGED <<holds, shut, power, from, saved, booted, linked, kind, at, run, part, history>>

\* lockedOut waits until six minutes past the dead-man's time: a router that
\* answers and has booted since is one that put itself back.
Reverted ==
    /\ pc = "revert" /\ Login(at) /\ booted[at]
    /\ dm' = "settled" /\ Ends("failed", "none")
    /\ UNCHANGED <<router, linked, kind, at, run, part, history>>
NotReverted ==
    /\ pc = "revert" /\ sched[at][run] # "armed" /\ power[at] # "loading"
    /\ Ends("unknown", "unknown")
    /\ UNCHANGED <<router, linked, kind, at, run, part, dm, history>>

\* A reset: the router wipes itself and reboots, or it refused.  Its answer is
\* not looked at.
Reset ==
    /\ pc = "reset" /\ Goto("reboot")
    /\ out' = Outcome("unknown", "unknown")
    /\ booted' = [booted EXCEPT ![at] = FALSE]
    /\ \/ /\ at \in linked /\ power[at] = "up"
          /\ power' = [power EXCEPT ![at] = "wiping"] /\ from' = [from EXCEPT ![at] = run]
          /\ linked' = linked \ {at} /\ touched' = [touched EXCEPT ![run] = @ \cup {at}]
       \/ UNCHANGED <<power, from, linked, touched>>
    /\ UNCHANGED <<holds, shut, sched, saved, kind, at, run, part, dm, last, excuse>>

CameBack ==
    /\ pc = "reboot"
    /\ \/ Login(at) /\ booted[at] /\ Goto("log")
       \/ Goto("end")
    /\ UNCHANGED <<router, linked, kind, at, run, part, dm, out, history>>

\* The bootstrap logs its end.  A log that cannot be read stops nothing.
BootstrapLog ==
    /\ pc = "log"
    /\ \/ at \in linked /\ holds[at].how = "booted" /\ Goto("import")
          /\ out' = Outcome("applied", "all") /\ UNCHANGED excuse
       \/ at \in linked /\ holds[at].how # "booted" /\ Goto("end") /\ UNCHANGED <<out, excuse>>
       \/ Goto("import") /\ out' = Outcome("applied", "all")
          /\ excuse' = [excuse EXCEPT ![at] = @ \cup {"unread"}]
    /\ UNCHANGED <<router, linked, kind, at, run, part, dm, touched, last>>

\* The deferred sweep, which never runs while the dead-man may be needed.
LastSweep ==
    /\ pc = "end" /\ Goto("over")
    /\ IF dm = "armed" THEN UNCHANGED <<sched, saved>> ELSE SweepRows
    /\ UNCHANGED <<holds, shut, power, from, booted, linked, kind, at, run, part, dm, out, history>>

\* Nothing is left of the deploy in memory.
NoDeploy ==
    pc' = "idle" /\ at' = NoRouter /\ run' = 0 /\ part' = 1 /\ dm' = "none" /\ out' = NoOutcome

DeployStep ==
    \/ Sweep \/ Preflight \/ Arm \/ ArmFails \/ ImportPart \/ ImportFails \/ Reconnect
    \/ DisarmPrint \/ DisarmRemove \/ Reverted \/ NotReverted
    \/ Reset \/ CameBack \/ BootstrapLog \/ LastSweep

RouterStep(r) == (\E m \in Runs : Fires(r, m)) \/ GoesDown(r) \/ Boots(r)

=============================================================================
