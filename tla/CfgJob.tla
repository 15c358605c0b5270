-------------------------------- MODULE CfgJob -------------------------------
(***************************************************************************)
(* internal/server/cfgjob.go: the one deploy there can be, its canary, the  *)
(* people who continue or cancel it, its record in the database, and        *)
(* MikroDash's restart (db.InterruptCfgRuns).                               *)
(*                                                                         *)
(* cfgExecute deploys to one router after another (CfgDeploy); a continue   *)
(* or a cancel looks at the run under s.cfg.mu and answers on its channel   *)
(* after letting go of it.                                                  *)
(***************************************************************************)
EXTENDS CfgDeploy, Sequences

CONSTANTS
    Plans,      \* per run: its kind, and its targets with the canary first
    Watched,    \* the run whose record is compared with Rollout
    MaxCrashes  \* bound on how often MikroDash is restarted

\* cfgPlan refuses a run without targets and takes every router once.
ASSUME PlansAssumption ==
    /\ DOMAIN Plans = Runs /\ Watched \in Runs
    /\ \A n \in Runs : \A p \in Plans[n] :
        /\ p.kind \in Kinds /\ p.order \in Seq(Routers) \ {<<>>}
        /\ \A j, k \in DOMAIN p.order : p.order[j] = p.order[k] => j = k
ASSUME CrashesAssumption == MaxCrashes \in Nat

VARIABLES
    slot,       \* s.cfg.run, as the number of the run; 0 is nil
    started,    \* runs there have been
    order,      \* the run's targets
    state,      \* its state in memory
    job,        \* where cfgExecute is: "none" when it is not running
    i,          \* its router
    decide,     \* the one answer in r.decide
    cancelled,  \* r.cancelled
    sending,    \* a person was let through to continue and has not sent the answer
    rec,        \* the database: per run its state, its order, its targets
    go,         \* history: the runs a person was let through to continue
    early,      \* history: the runs cancelled before the second router's turn
    crashes

jobvars == <<slot, started, order, state, job, i, decide, cancelled, sending>>
people == <<go, early>>
vars == <<router, linked, kind, deploy, history, jobvars, rec, people, crashes>>

Target(s, a) == [state |-> s, applied |-> a]
NoRecord == [state |-> "none", order |-> <<>>,
             target |-> [r \in Routers |-> Target("none", "none")]]

Init ==
    /\ DeployInit
    /\ slot = 0 /\ started = 0 /\ order = <<>> /\ state = "idle" /\ job = "none" /\ i = 1
    /\ decide = "empty" /\ cancelled = FALSE /\ sending = FALSE
    /\ rec = [n \in Runs |-> NoRecord]
    /\ go = {} /\ early = {} /\ crashes = 0

Finished == {"done", "halted", "cancelled", "interrupted"}

-----------------------------------------------------------------------------
(* The run *)

\* cfgStart: the slot is taken, and then the run is recorded.
Start(p) ==
    /\ started < MaxRuns /\ p \in Plans[started + 1]
    /\ slot = 0 \/ state \in Finished
    /\ started' = started + 1 /\ slot' = started + 1
    /\ kind' = [kind EXCEPT ![started + 1] = p.kind] /\ order' = p.order
    /\ state' = "canary" /\ decide' = "empty" /\ cancelled' = FALSE /\ sending' = FALSE
    /\ job' = "record" /\ i' = 1
    /\ UNCHANGED <<router, linked, deploy, history, rec, people, crashes>>

\* cfgRecordStart.  When it fails the slot is given back and nothing is sent.
Record ==
    /\ job = "record"
    /\ \/ /\ rec' = [rec EXCEPT ![slot] =
                [state |-> "canary", order |-> order,
                 target |-> [r \in Routers |->
                    Target(IF \E j \in DOMAIN order : order[j] = r THEN "pending" ELSE "none", "none")]]]
          /\ job' = "next" /\ UNCHANGED slot
       \/ slot' = 0 /\ job' = "none" /\ UNCHANGED rec
    /\ UNCHANGED <<router, linked, kind, deploy, history, started, order, state, i, decide, cancelled,
                   sending, people, crashes>>

\* cfgSet, in memory and in the database.
SetState(s, targets) ==
    /\ state' = s
    /\ rec' = [rec EXCEPT ![slot].state = s, ![slot].target = targets]

\* The run is over: nothing reads its position and its answers any more.
Over(s, targets) ==
    /\ SetState(s, targets) /\ job' = "none"
    /\ i' = 1 /\ decide' = "empty" /\ cancelled' = FALSE /\ sending' = FALSE
GoesOn(l) == job' = l /\ UNCHANGED <<i, cancelled, sending>>

\* cfgStopRest: every router from j on is not tried, and the run is over.
StopRest(targets, j, s) ==
    Over(s, [r \in Routers |->
        IF \E k \in j .. Len(order) : order[k] = r THEN Target("not-attempted", "none") ELSE targets[r]])

\* The head of cfgExecute's loop.
NextRouter ==
    /\ job = "next"
    /\ \/ i > Len(order) /\ Over("done", rec[slot].target)
       \/ /\ i = 2 /\ i <= Len(order) /\ SetState("awaiting-canary", rec[slot].target)
          /\ GoesOn("await") /\ UNCHANGED decide
       \/ /\ i # 2 /\ i <= Len(order)
          /\ GoesOn("check") /\ UNCHANGED <<decide, state, rec>>
    /\ UNCHANGED <<router, linked, kind, deploy, history, slot, started, order, people, crashes>>

Decided ==
    /\ job = "await" /\ decide # "empty"
    /\ \/ decide = "no" /\ StopRest(rec[slot].target, i, "cancelled")
       \/ /\ decide = "yes" /\ SetState("rolling", rec[slot].target)
          /\ GoesOn("check") /\ decide' = "empty"
    /\ UNCHANGED <<router, linked, kind, deploy, history, slot, started, order, people, crashes>>

\* Faulty form: the flag is left to the answer on the channel.
CheckAllowed ==
    /\ job = "check"
    /\ \/ StopRest(rec[slot].target, i, "halted")
       \/ GoesOn("begin") /\ UNCHANGED <<decide, state, rec>>
    /\ UNCHANGED <<router, linked, kind, deploy, history, slot, started, order, people, crashes>>

\* Cancelled, or no longer allowed (cfgStillAllowed: the person is no longer an
\* administrator, the router was disabled or removed): the rest is not tried.
Check ==
    /\ job = "check"
    /\ \/ cancelled /\ StopRest(rec[slot].target, i, "cancelled")
       \/ ~ cancelled /\ StopRest(rec[slot].target, i, "halted")
       \/ ~ cancelled /\ GoesOn("begin") /\ UNCHANGED <<decide, state, rec>>
    /\ UNCHANGED <<router, linked, kind, deploy, history, slot, started, order, people, crashes>>

\* cfgRunOne: the target is recorded as being applied before anything is sent.
\* Without a session, or with values that do not bind, the deploy never begins.
Begin ==
    /\ job = "begin" /\ job' = "deploy"
    /\ rec' = [rec EXCEPT ![slot].target[order[i]].state = "applying"]
    /\ at' = order[i] /\ run' = slot /\ part' = 1 /\ dm' = "none"
    /\ out' = NoOutcome
    /\ pc' \in {"over"} \cup (IF order[i] \in linked THEN {"sweep"} ELSE {})
    /\ last' = [last EXCEPT ![order[i]] = slot]
    /\ excuse' = [excuse EXCEPT ![order[i]] = IF power[order[i]] = "up" THEN {} ELSE {"stale"}]
    /\ UNCHANGED <<router, linked, kind, touched, slot, started, order, state, i, decide, cancelled,
                   sending, people, crashes>>

\* Faulty form: a canary that failed does not halt the run.
FinishRegardless ==
    /\ job = "deploy" /\ pc = "over"
    /\ rec' = [rec EXCEPT ![slot].target[at] = Target(out.state, out.applied)]
    /\ i' = i + 1 /\ job' = "next" /\ UNCHANGED <<state, decide, cancelled, sending>>
    /\ NoDeploy
    /\ UNCHANGED <<router, linked, kind, history, slot, started, order, people, crashes>>

\* Its outcome is recorded; the first that is not "applied" halts the run.
Finish ==
    /\ job = "deploy" /\ pc = "over"
    /\ LET targets == [rec[slot].target EXCEPT ![at] = Target(out.state, out.applied)] IN
        \/ out.state # "applied" /\ StopRest(targets, i + 1, "halted")
        \/ /\ out.state = "applied" /\ rec' = [rec EXCEPT ![slot].target = targets]
           /\ i' = i + 1 /\ job' = "next" /\ UNCHANGED <<state, decide, cancelled, sending>>
    /\ NoDeploy
    /\ UNCHANGED <<router, linked, kind, history, slot, started, order, people, crashes>>

-----------------------------------------------------------------------------
(* People, and the restart *)

\* cfgContinue is let through only while the run waits on its canary.
Continue ==
    /\ slot # 0 /\ state = "awaiting-canary"
    /\ sending' = TRUE /\ go' = go \cup {slot}
    /\ UNCHANGED <<router, linked, kind, deploy, history, slot, started, order, state, job, i, decide,
                   cancelled, rec, early, crashes>>

\* An answer is dropped when one is already waiting.
Answered(x) == decide' = IF decide = "empty" THEN x ELSE decide
SendYes ==
    /\ sending /\ sending' = FALSE
    /\ Answered("yes")
    /\ UNCHANGED <<router, linked, kind, deploy, history, slot, started, order, state, job, i,
                   cancelled, rec, people, crashes>>

\* cfgCancel.  Whether its answer is sent with the flag or later makes no
\* difference: every router's turn looks at the flag.
Cancel ==
    /\ slot # 0 /\ state \notin Finished
    /\ cancelled' = TRUE /\ Answered("no")
    /\ early' = IF state \in {"canary", "awaiting-canary"} THEN early \cup {slot} ELSE early
    /\ UNCHANGED <<router, linked, kind, deploy, history, slot, started, order, state, job, i,
                   sending, rec, go, crashes>>

\* MikroDash is restarted: every session and the run in memory are gone, and
\* InterruptCfgRuns closes the open runs.  What is on the routers stays.
Interrupted(t) ==
    CASE t.state = "applying" -> [t EXCEPT !.state = "unknown"]
      [] t.state = "pending" -> [t EXCEPT !.state = "not-attempted"]
      [] OTHER -> t
InterruptCfgRuns ==
    rec' = [n \in Runs |->
            IF rec[n].state \in Finished \cup {"none"} THEN rec[n]
            ELSE [rec[n] EXCEPT !.state = "interrupted",
                                !.target = [r \in Routers |-> Interrupted(@[r])]]]
Restart ==
    /\ crashes < MaxCrashes /\ crashes' = crashes + 1
    /\ linked' = {} /\ NoDeploy
    /\ slot' = 0 /\ order' = <<>> /\ state' = "idle" /\ job' = "none" /\ i' = 1
    /\ decide' = "empty" /\ cancelled' = FALSE /\ sending' = FALSE
    /\ InterruptCfgRuns
    /\ UNCHANGED <<router, kind, history, started, people>>

JobStep == Record \/ NextRouter \/ Decided \/ Check \/ Begin \/ Finish
Deploying == DeployStep /\ UNCHANGED <<jobvars, rec, people, crashes>>
External(r) ==
    (RouterStep(r) \/ Unlink(r) \/ Link(r)) /\ UNCHANGED <<jobvars, rec, people, crashes>>

Next ==
    \/ \E p \in UNION {Plans[n] : n \in Runs} : Start(p)
    \/ JobStep \/ Deploying
    \/ \E r \in Routers : External(r)
    \/ Continue \/ Cancel \/ SendYes \/ Restart

Spec == Init /\ [][Next]_vars

-----------------------------------------------------------------------------
(* Properties *)

RunOrNone == Runs \cup {0}
Holding == [run : RunOrNone, how : {"all", "some", "booted", "wiped"}]
Backup == [holds : Holding, shut : RunOrNone]
Ended == {"preflight-failed", "failed", "failed-partial", "unknown", "applied"}
Amount == {"none", "partial", "unknown", "all"}
TargetRow == [state : Ended \cup {"none", "pending", "applying", "not-attempted"}, applied : Amount]
RunState == {"none", "canary", "awaiting-canary", "rolling"} \cup Finished
RunRecord == [state : RunState, order : Seq(Routers), target : [Routers -> TargetRow]]

\* Every variable is in range: what is on the routers, and the deploy.
DeployTypeOK ==
    /\ holds \in [Routers -> Holding]
    /\ shut \in [Routers -> RunOrNone] /\ from \in [Routers -> RunOrNone]
    /\ power \in [Routers -> {"up", "loading", "reverting", "wiping"}]
    /\ sched \in [Routers -> [Runs -> {"none", "armed", "ran"}]]
    /\ saved \in [Routers -> [Runs -> Backup]] /\ booted \in [Routers -> BOOLEAN]
    /\ linked \subseteq Routers /\ kind \in [Runs -> Kinds]
    /\ pc \in {"idle", "sweep", "preflight", "arm", "import", "reconnect", "print", "remove", "revert",
               "reset", "reboot", "log", "end", "over"}
    /\ at \in Routers \cup {NoRouter} /\ run \in RunOrNone
    /\ part \in 1 .. Parts /\ dm \in {"none", "armed", "settled"}
    /\ out \in [state : Ended, applied : Amount]
    /\ touched \in [Runs -> SUBSET Routers] /\ last \in [Routers -> RunOrNone]
    /\ excuse \in [Routers -> SUBSET {"stale", "raced", "unread"}]

\* And the run, the people and the database.
TypeOK ==
    /\ DeployTypeOK
    /\ slot \in RunOrNone /\ started \in RunOrNone /\ order \in Seq(Routers) /\ i \in Nat \ {0}
    /\ state \in (RunState \ {"none"}) \cup {"idle"}
    /\ job \in {"none", "record", "next", "await", "check", "begin", "deploy"}
    /\ decide \in {"empty", "yes", "no"} /\ cancelled \in BOOLEAN /\ sending \in BOOLEAN
    /\ rec \in [Runs -> RunRecord] /\ go \subseteq Runs /\ early \subseteq Runs
    /\ crashes \in 0 .. MaxCrashes

\* The dead-man is never taken away from a router that needs it: while a deploy
\* that could cut MikroDash off has done so, its scheduler is armed or the
\* router is on its way back.  RunAdditions' deferred sweep, disarm and the
\* sweep of the next deploy all remove schedulers, over a session that may
\* outlive the lockout.
DeadManIsKept ==
    \A r \in Routers : \A n \in Runs :
        shut[r] = n /\ kind[n] = "lock" => sched[r][n] = "armed" \/ power[r] # "up"

\* A router recorded as applied holds all of the template.  The exceptions are
\* exactly these: the dead-man ran between disarm's two commands, one that an
\* earlier deploy left on the router ran, or the log of a reset's bootstrap
\* could not be read.
AppliedIsTrue ==
    \A r \in Routers : \A n \in Runs :
        last[r] = n /\ rec[n].target[r].state = "applied" /\ excuse[r] = {}
            => holds[r] = Held(n, "all")

\* A router of which it is recorded that nothing was applied (refused, failed at
\* its first line, put back by the dead-man, not tried) holds nothing of the
\* template, whichever part failed and whenever MikroDash was restarted.
NothingMeansNothing ==
    \A n \in Runs : \A r \in Routers :
        rec[n].target[r].state \in {"pending", "preflight-failed", "failed", "not-attempted"}
            => holds[r].run # n

\* A cancel that was accepted before the second router's turn wins over a
\* continue, in whatever order the two are answered.
CancelWins ==
    \A n \in early : \A j \in 2 .. Len(rec[n].order) : rec[n].order[j] \notin touched[n]

\* A run, as its record shows it, is a staged rollout.
Staged == INSTANCE Rollout WITH
    Orders <- {p.order : p \in Plans[Watched]},
    order <- rec[Watched].order,
    verdict <- [r \in Routers |-> rec[Watched].target[r].state],
    go <- Watched \in go
RunIsARollout == Staged!Spec
=============================================================================
