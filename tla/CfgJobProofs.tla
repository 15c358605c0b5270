---------------------------- MODULE CfgJobProofs -----------------------------
(***************************************************************************)
(* For any number of routers, runs, files and restarts: the dead-man is     *)
(* kept where it is needed, a record that says that nothing, or that all,   *)
(* was applied is true, an early cancel wins, and every run is a staged     *)
(* rollout.                                                                 *)
(***************************************************************************)
EXTENDS CfgJob, TLAPS

-----------------------------------------------------------------------------
(* The run *)

\* cfgExecute, its router and the run in memory belong together.
JobFits ==
    /\ slot # 0 => slot = started
    /\ job = "none" => slot = 0 \/ state \in Finished
    /\ job # "none" =>
        /\ slot # 0 /\ state \in {"canary", "awaiting-canary", "rolling"}
        /\ \E p \in Plans[slot] : order = p.order
        /\ i <= Len(order) + 1 /\ (job # "next" => i <= Len(order))
    /\ job = "record" => i = 1 /\ state = "canary"
    /\ job = "await" => i = 2
    /\ job # "none" /\ state = "canary" => i = 1 \/ (i = 2 /\ job = "next")
    /\ job # "none" => (state = "awaiting-canary" <=> job = "await")
    /\ job = "deploy" <=> pc # "idle"
    /\ pc # "idle" => at = order[i] /\ run = slot

\* A run that was never recorded has left nothing in the database.
Unrecorded ==
    /\ \A n \in Runs : n > started => rec[n] = NoRecord /\ touched[n] = {}
    /\ job = "record" => rec[slot] = NoRecord /\ touched[slot] = {}

\* The record of the run in progress: the routers before this one worked, the
\* ones after it are pending, and the others have no part in it.
InOrder ==
    job \notin {"none", "record"} =>
        /\ rec[slot].order = order /\ rec[slot].state \notin Finished \cup {"none"}
        /\ \A k \in DOMAIN order :
            /\ k < i => rec[slot].target[order[k]].state = "applied"
            /\ k = i => rec[slot].target[order[k]].state = IF job = "deploy" THEN "applying" ELSE "pending"
            /\ k > i => rec[slot].target[order[k]].state = "pending"
        /\ \A r \in Routers :
            (\A k \in DOMAIN order : order[k] # r) => rec[slot].target[r].state = "none"

\* Nobody goes past the canary who was not let through.
LetThrough ==
    /\ job # "none" /\ (sending \/ decide = "yes" \/ (i > 1 /\ job \in {"check", "begin", "deploy"})
                          \/ (i > 2 /\ job = "next"))
          => slot \in go
    /\ go \subseteq 1 .. started /\ early \subseteq 1 .. started

\* A router is not touched before its turn, and a run that was cancelled early
\* does not come to the second one's.
BeforeItsTurn ==
    /\ job # "none" => \A k \in DOMAIN order :
          k > i \/ (k = i /\ job # "deploy") => order[k] \notin touched[slot]
    /\ slot \in early /\ job # "none" =>
          cancelled /\ i <= 2 /\ (i = 2 => job \in {"next", "await", "check"})

JobInv == TypeOK /\ JobFits /\ Unrecorded /\ InOrder /\ LetThrough

-----------------------------------------------------------------------------
(* The routers *)

\* The router takes no login since a run that had a dead-man.
LockShut(r) == shut[r] # 0 /\ kind[shut[r]] = "lock"

\* Nothing points at a run that has not begun, and a router that is not up has
\* a run it is not up because of.
RunsAreKnown ==
    /\ run <= started
    /\ \A r \in Routers : shut[r] <= started /\ from[r] <= started
    /\ \A r \in Routers : \A n \in Runs :
          saved[r][n].shut <= started /\ (sched[r][n] # "none" => n <= started)
    /\ \A r \in Routers : power[r] # "up" => from[r] # 0
    /\ \A r \in Routers : power[r] = "wiping" => kind[from[r]] = "reset"

\* What the deploy in progress carries at each of its steps.
StepFits ==
    /\ dm # "none" => kind[run] = "lock" /\ pc # "idle"
    /\ pc \in {"sweep", "preflight", "arm", "reset"} => dm = "none"
    /\ pc \in {"import", "reconnect"} /\ kind[run] = "lock" => dm = "armed"
    /\ pc \in {"print", "remove", "revert"} => dm = "armed"
    /\ pc = "arm" => kind[run] = "lock"
    /\ pc \in {"reset", "reboot", "log"} => kind[run] = "reset"
    /\ pc = "import" => out.state = "applied"
    /\ pc \in {"reboot", "log"} => out.state = "unknown"

\* A session with a router that an armed deploy has shut is that deploy's own:
\* nobody else ever sees it, so nobody else's sweep goes over it.
SessionIsHonest ==
    /\ \A r \in linked : power[r] \in {"up", "loading"}
    /\ \A r \in linked : LockShut(r) =>
          at = r /\ run = shut[r] /\ pc \in {"import", "reconnect", "revert"}

\* No backup is of a router that is shut because of an armed deploy.
BackupIsOpen ==
    \A r \in Routers : \A n \in Runs :
        saved[r][n].shut # 0 => kind[saved[r][n].shut] # "lock"

\* While files are still being sent the dead-man is there.
ArmedWhileSending ==
    pc = "import" /\ dm = "armed" /\ at \in linked => sched[at][run] = "armed" \/ power[at] # "up"

RouterInv ==
    /\ RunsAreKnown /\ StepFits /\ SessionIsHonest /\ BackupIsOpen /\ ArmedWhileSending
    /\ DeadManIsKept

\* Something on the router is of run n, or will be once it has booted.
Trace(r, n) ==
    \/ holds[r].run = n
    \/ power[r] = "wiping" /\ from[r] = n
    \/ \E m \in Runs : saved[r][m].holds.run = n

Nothing == {"none", "pending", "preflight-failed", "failed", "not-attempted"}

\* Where nothing is said to have been applied there is no trace.
NoTrace ==
    \A n \in Runs : \A r \in Routers : rec[n].target[r].state \in Nothing => ~ Trace(r, n)

\* The same of the deploy in progress: no backup is of what it sends; there is
\* no trace before its first change, when its outcome says so, and once the
\* router has booted since it was armed.
NotBackedUp == pc # "idle" => \A m \in Runs : saved[at][m].holds.run # run
NotBegun ==
    pc \in {"sweep", "preflight", "arm", "reset"} \/ (pc # "idle" /\ out.state \in Nothing) => ~ Trace(at, run)
NotSent == pc = "import" /\ part = 1 /\ kind[run] # "reset" => holds[at].run # run
PutBack == dm # "none" /\ booted[at] => holds[at].run # run /\ (pc = "import" => at \notin linked)
NoTraceYet == NotBackedUp /\ NotBegun /\ NotSent /\ PutBack

CfgInv == JobInv /\ BeforeItsTurn /\ CancelWins /\ RouterInv /\ NoTrace /\ NoTraceYet

-----------------------------------------------------------------------------
(* Types *)

\* The numbers of the runs.
LEMMA RunNumbers ==
    /\ Runs \subseteq RunOrNone /\ 0 \in RunOrNone /\ 0 \notin Runs
    /\ \A n \in RunOrNone : n \in Int /\ 0 <= n /\ n <= MaxRuns /\ (n # 0 => n \in Runs)
    /\ \A n \in Runs : n \in Int /\ 0 < n
    /\ \A n \in RunOrNone : n < MaxRuns => n + 1 \in Runs
BY RunsAssumption DEF Runs, RunOrNone

\* The constants of the model have their types.
LEMMA ConstantTypes ==
    /\ NoBackup \in Backup /\ NoBackup.shut = 0 /\ NoBackup.holds.run = 0
    /\ NoSched \in [Runs -> {"none", "armed", "ran"}]
    /\ \A n \in RunOrNone : \A h \in {"all", "some", "booted", "wiped"} :
          Held(n, h) \in Holding /\ Held(n, h).run = n
    /\ \A s \in Ended : \A a \in Amount :
          Outcome(s, a) \in [state : Ended, applied : Amount] /\ Outcome(s, a).state = s /\ Outcome(s, a).applied = a
<1>1. \A n \in RunOrNone : \A h \in {"all", "some", "booted", "wiped"} :
          Held(n, h) \in Holding /\ Held(n, h).run = n
  BY DEF Held, Holding
<1>2. NoBackup = [holds |-> Held(0, "all"), shut |-> 0] /\ Held(0, "all") \in Holding /\ Held(0, "all").run = 0
  BY <1>1, RunNumbers DEF NoBackup
<1>3. NoBackup \in Backup /\ NoBackup.shut = 0 /\ NoBackup.holds.run = 0
  BY <1>2, RunNumbers DEF Backup
<1>4. NoSched \in [Runs -> {"none", "armed", "ran"}]
  BY DEF NoSched
<1>5. \A s \in Ended : \A a \in Amount :
          Outcome(s, a) \in [state : Ended, applied : Amount] /\ Outcome(s, a).state = s /\ Outcome(s, a).applied = a
  BY DEF Outcome
<1> QED
  BY <1>1, <1>3, <1>4, <1>5

\* What a sweep does: some of this router's dead-men are gone, and with each
\* its backup; without a session nothing happens.
LEMMA SweepEffect ==
    ASSUME DeployTypeOK, at \in Routers, SweepRows
    PROVE  /\ sched' \in [Routers -> [Runs -> {"none", "armed", "ran"}]]
           /\ saved' \in [Routers -> [Runs -> Backup]]
           /\ \A r \in Routers : \A n \in Runs :
                sched'[r][n] = sched[r][n] \/ (r = at /\ at \in linked /\ sched'[r][n] = "none")
           /\ \A r \in Routers : \A n \in Runs :
                saved'[r][n] = saved[r][n] \/ (saved'[r][n] = NoBackup /\ sched'[r][n] # "armed")
<1>1. PICK gone \in SUBSET {n \in Runs : sched[at][n] # "none"} :
        /\ gone # {} => at \in linked
        /\ sched' = [sched EXCEPT ![at] = [n \in Runs |-> IF n \in gone THEN "none" ELSE sched[at][n]]]
        /\ saved' = [saved EXCEPT ![at] = [n \in Runs |-> IF n \in gone THEN NoBackup ELSE saved[at][n]]]
  BY DEF SweepRows
<1>2. [n \in Runs |-> IF n \in gone THEN "none" ELSE sched[at][n]] \in [Runs -> {"none", "armed", "ran"}]
  BY DEF DeployTypeOK
<1>3. [n \in Runs |-> IF n \in gone THEN NoBackup ELSE saved[at][n]] \in [Runs -> Backup]
  BY ConstantTypes DEF DeployTypeOK
<1>4. sched' \in [Routers -> [Runs -> {"none", "armed", "ran"}]]
  BY <1>1, <1>2 DEF DeployTypeOK
<1>5. saved' \in [Routers -> [Runs -> Backup]]
  BY <1>1, <1>3 DEF DeployTypeOK
<1>6. \A r \in Routers : \A n \in Runs :
        sched'[r][n] = IF r = at /\ n \in gone THEN "none" ELSE sched[r][n]
  BY <1>1 DEF DeployTypeOK
<1>7. \A r \in Routers : \A n \in Runs :
        saved'[r][n] = IF r = at /\ n \in gone THEN NoBackup ELSE saved[r][n]
  BY <1>1 DEF DeployTypeOK
<1> QED
  BY <1>1, <1>4, <1>5, <1>6, <1>7

\* What arm does to the router.
LEMMA ArmedEffect ==
    ASSUME DeployTypeOK, at \in Routers, run \in Runs, Armed
    PROVE  /\ sched' \in [Routers -> [Runs -> {"none", "armed", "ran"}]]
           /\ saved' \in [Routers -> [Runs -> Backup]] /\ touched' \in [Runs -> SUBSET Routers]
           /\ \A r \in Routers : \A n \in Runs :
                sched'[r][n] = IF r = at /\ n = run THEN "armed" ELSE sched[r][n]
           /\ \A r \in Routers : \A n \in Runs :
                IF r = at /\ n = run THEN saved'[r][n].holds = holds[at] /\ saved'[r][n].shut = shut[at]
                                     ELSE saved'[r][n] = saved[r][n]
<1> DEFINE b == [holds |-> holds[at], shut |-> shut[at]]
<1>1. b \in Backup /\ b.holds = holds[at] /\ b.shut = shut[at]
  BY DEF DeployTypeOK, Backup
<1>2. sched' = [sched EXCEPT ![at][run] = "armed"] /\ saved' = [saved EXCEPT ![at][run] = b]
  BY DEF Armed
<1> HIDE DEF b
<1>3. sched' \in [Routers -> [Runs -> {"none", "armed", "ran"}]]
  BY <1>2 DEF DeployTypeOK
<1>4. saved' \in [Routers -> [Runs -> Backup]]
  BY <1>1, <1>2 DEF DeployTypeOK
<1>5. touched' \in [Runs -> SUBSET Routers]
  BY DEF Armed, DeployTypeOK
<1>6. \A r \in Routers : \A n \in Runs :
        sched'[r][n] = IF r = at /\ n = run THEN "armed" ELSE sched[r][n]
  BY <1>2 DEF DeployTypeOK
<1>7. \A r \in Routers : \A n \in Runs : saved'[r][n] = IF r = at /\ n = run THEN b ELSE saved[r][n]
  BY <1>2 DEF DeployTypeOK
<1> QED
  BY <1>1, <1>3, <1>4, <1>5, <1>6, <1>7

\* What an import does to the router.
LEMMA ImportsEffect ==
    ASSUME DeployTypeOK, at \in Routers, run \in Runs, NEW h \in Holding, Imports(h)
    PROVE  /\ holds' \in [Routers -> Holding] /\ shut' \in [Routers -> RunOrNone]
           /\ touched' \in [Runs -> SUBSET Routers]
           /\ \A r \in Routers : holds'[r] = IF r = at THEN h ELSE holds[r]
           /\ \A r \in Routers : shut'[r] = shut[r] \/ (r = at /\ shut'[r] = run)
BY RunNumbers DEF Imports, DeployTypeOK

\* What a router holds after one has its type.
LEMMA HoldsType ==
    ASSUME DeployTypeOK, at \in Routers, run \in Runs, NEW p
    PROVE  Grown(holds[at], p) \in Holding /\ Cut(holds[at]) \in Holding
<1>1. holds[at] \in Holding /\ \A a \in {"all", "some", "booted", "wiped"} : Held(run, a) \in Holding
  BY RunNumbers, ConstantTypes DEF DeployTypeOK
<1> QED
  BY <1>1 DEF Grown, Cut

\* What an import's failure is recorded as.
LEMMA StopsType ==
    ASSUME NEW a \in {"none", "partial", "unknown"}
    PROVE  /\ ImportStops(a) \in [state : Ended, applied : Amount]
           /\ ImportStops(a).state \in {"failed", "failed-partial", "unknown"}
           /\ ImportStops(a).state = "failed" => a = "none" /\ part = 1 /\ kind[run] # "reset"
<1>1. /\ Outcome("unknown", "unknown") \in [state : Ended, applied : Amount]
      /\ Outcome("failed", "none") \in [state : Ended, applied : Amount]
      /\ Outcome("failed-partial", "partial") \in [state : Ended, applied : Amount]
      /\ Outcome("unknown", "unknown").state = "unknown" /\ Outcome("failed", "none").state = "failed"
      /\ Outcome("failed-partial", "partial").state = "failed-partial"
  BY DEF Outcome, Ended, Amount
<1> QED
  BY <1>1 DEF ImportStops, ResetStops

\* What the dead-man's boot, or a reset's, does to the router.
LEMMA BootsEffect ==
    ASSUME DeployTypeOK, NEW r \in Routers, Boots(r), from[r] \in Runs
    PROVE  /\ holds' \in [Routers -> Holding] /\ shut' \in [Routers -> RunOrNone]
           /\ sched' \in [Routers -> [Runs -> {"none", "armed", "ran"}]]
           /\ power[r] \in {"reverting", "wiping"}
           /\ \A q \in Routers \ {r} : holds'[q] = holds[q] /\ shut'[q] = shut[q] /\ sched'[q] = sched[q]
           /\ power[r] = "reverting" => holds'[r] = saved[r][from[r]].holds /\ shut'[r] = saved[r][from[r]].shut
           /\ power[r] = "wiping" => holds'[r].run = from[r] /\ shut'[r] \in {0, from[r]}
           /\ \A n \in Runs : sched'[r][n] \in {"none", sched[r][n]}
<1>1. from[r] \in RunOrNone /\ saved[r][from[r]].holds \in Holding /\ saved[r][from[r]].shut \in RunOrNone
  BY RunNumbers DEF DeployTypeOK, Backup
<1>2. CASE power[r] = "reverting"
  <2> DEFINE f == [n \in Runs |-> IF n < from[r] THEN sched[r][n] ELSE "none"]
  <2>1. f \in [Runs -> {"none", "armed", "ran"}] /\ \A n \in Runs : f[n] \in {"none", sched[r][n]}
    BY DEF DeployTypeOK
  <2>2. /\ holds' = [holds EXCEPT ![r] = saved[r][from[r]].holds]
        /\ shut' = [shut EXCEPT ![r] = saved[r][from[r]].shut]
        /\ sched' = [sched EXCEPT ![r] = f]
    BY <1>2 DEF Boots
  <2> HIDE DEF f
  <2> QED
    BY <1>1, <1>2, <2>1, <2>2 DEF DeployTypeOK
<1>3. CASE power[r] = "wiping"
  <2>1. PICK how \in {"booted", "wiped"} : holds' = [holds EXCEPT ![r] = Held(from[r], how)]
    BY <1>3 DEF Boots
  <2>2. PICK s \in {0, from[r]} : shut' = [shut EXCEPT ![r] = s]
    BY <1>3 DEF Boots
  <2>3. sched' = [sched EXCEPT ![r] = NoSched]
    BY <1>3 DEF Boots
  <2>4. Held(from[r], how) \in Holding /\ Held(from[r], how).run = from[r] /\ s \in RunOrNone
    BY <1>1, RunNumbers, ConstantTypes
  <2>5. \A n \in Runs : NoSched[n] = "none"
    BY DEF NoSched
  <2> QED
    BY <1>3, <2>1, <2>2, <2>3, <2>4, <2>5, ConstantTypes DEF DeployTypeOK
<1> QED
  BY <1>2, <1>3 DEF Boots

\* A step of the deploy keeps the types.
LEMMA DeployType ==
    ASSUME DeployTypeOK, at \in Routers, run \in Runs, DeployStep
    PROVE  DeployTypeOK'
<1>1. ASSUME Sweep PROVE DeployTypeOK'
  <2>1. sched' \in [Routers -> [Runs -> {"none", "armed", "ran"}]]
    BY <1>1, SweepEffect DEF Sweep, DeployTypeOK
  <2>2. saved' \in [Routers -> [Runs -> Backup]]
    BY <1>1, SweepEffect DEF Sweep, DeployTypeOK
  <2> QED
    BY <1>1, <2>1, <2>2 DEF Sweep, Goto, router, history, DeployTypeOK
<1>2. ASSUME Preflight PROVE DeployTypeOK'
  <2>1. out' \in [state : Ended, applied : Amount]
    BY <1>2, ConstantTypes DEF Preflight, AdditionsReady, ResetReady, Ends, DeployTypeOK, Ended, Amount
  <2> QED
    BY <1>2, <2>1 DEF Preflight, Goto, router, history, AdditionsReady, ResetReady, Ends, DeployTypeOK
<1>3. ASSUME Arm PROVE DeployTypeOK'
  <2>1. sched' \in [Routers -> [Runs -> {"none", "armed", "ran"}]]
    BY <1>3, ArmedEffect DEF Arm, DeployTypeOK
  <2>2. saved' \in [Routers -> [Runs -> Backup]]
    BY <1>3, ArmedEffect DEF Arm, DeployTypeOK
  <2>3. touched' \in [Runs -> SUBSET Routers]
    BY <1>3, ArmedEffect DEF Arm, DeployTypeOK
  <2>4. booted' \in [Routers -> BOOLEAN]
    BY <1>3, RunNumbers DEF Arm, DeployTypeOK
  <2>5. out' \in [state : Ended, applied : Amount]
    BY <1>3, ConstantTypes DEF Arm, DeployTypeOK, Ended, Amount
  <2> QED
    BY <1>3, <2>1, <2>2, <2>3, <2>4, <2>5 DEF Arm, Goto, router, history, Armed, DeployTypeOK
<1>4. ASSUME ArmFails PROVE DeployTypeOK'
  <2>1. sched' \in [Routers -> [Runs -> {"none", "armed", "ran"}]]
    BY <1>4, ArmedEffect DEF ArmFails, DeployTypeOK
  <2>2. saved' \in [Routers -> [Runs -> Backup]]
    BY <1>4, ArmedEffect DEF ArmFails, DeployTypeOK
  <2>3. touched' \in [Runs -> SUBSET Routers]
    BY <1>4, ArmedEffect DEF ArmFails, DeployTypeOK
  <2>4. out' \in [state : Ended, applied : Amount]
    BY <1>4, ConstantTypes DEF ArmFails, Ends, DeployTypeOK, Ended, Amount
  <2> QED
    BY <1>4, <2>1, <2>2, <2>3, <2>4 DEF ArmFails, Goto, router, history, Ends, Armed, DeployTypeOK
<1>5. ASSUME ImportPart PROVE DeployTypeOK'
  <2>1. holds' \in [Routers -> Holding]
    BY <1>5, ImportsEffect, HoldsType DEF ImportPart, DeployTypeOK
  <2>2. shut' \in [Routers -> RunOrNone]
    BY <1>5, ImportsEffect, HoldsType DEF ImportPart, DeployTypeOK
  <2>3. touched' \in [Runs -> SUBSET Routers]
    BY <1>5, ImportsEffect, HoldsType DEF ImportPart, DeployTypeOK
  <2>4. part' \in 1 .. Parts
    BY <1>5, PartsAssumption DEF ImportPart, DeployTypeOK
  <2> QED
    BY <1>5, <2>1, <2>2, <2>3, <2>4 DEF ImportPart, Goto, router, history, DeployTypeOK
<1>6. ASSUME ImportFails PROVE DeployTypeOK'
  <2>1. holds' \in [Routers -> Holding]
    BY <1>6, ImportsEffect, HoldsType DEF ImportFails, DeployTypeOK
  <2>2. shut' \in [Routers -> RunOrNone]
    BY <1>6, ImportsEffect, HoldsType DEF ImportFails, DeployTypeOK
  <2>3. touched' \in [Runs -> SUBSET Routers]
    BY <1>6, ImportsEffect, HoldsType DEF ImportFails, DeployTypeOK
  <2>4. out' \in [state : Ended, applied : Amount]
    BY <1>6, StopsType DEF ImportFails
  <2> QED
    BY <1>6, <2>1, <2>2, <2>3, <2>4 DEF ImportFails, Goto, router, history, DeployTypeOK
<1>7. ASSUME Reconnect PROVE DeployTypeOK'
  <2>1. out' \in [state : Ended, applied : Amount]
    BY <1>7, ConstantTypes DEF Reconnect, Ends, LockedOut, ResetLockedOut, DeployTypeOK, Ended, Amount
  <2> QED
    BY <1>7, <2>1 DEF Reconnect, Goto, router, history, Ends, LockedOut, ResetLockedOut, DeployTypeOK
<1>8. ASSUME DisarmPrint PROVE DeployTypeOK'
  <2>1. out' \in [state : Ended, applied : Amount]
    BY <1>8, ConstantTypes DEF DisarmPrint, Ends, LockedOut, ResetLockedOut, DeployTypeOK, Ended, Amount
  <2> QED
    BY <1>8, <2>1 DEF DisarmPrint, Goto, router, history, Ends, LockedOut, ResetLockedOut, DeployTypeOK
<1>9. ASSUME DisarmRemove PROVE DeployTypeOK'
  <2>1. sched' \in [Routers -> [Runs -> {"none", "armed", "ran"}]]
    <3>1. UNCHANGED sched \/ sched' = [sched EXCEPT ![at][run] = "none"]
      BY <1>9 DEF DisarmRemove
    <3>2. CASE UNCHANGED sched
      BY <3>2 DEF DeployTypeOK
    <3>3. CASE sched' = [sched EXCEPT ![at][run] = "none"]
      BY <3>3 DEF DeployTypeOK
    <3> QED
      BY <3>1, <3>2, <3>3
  <2>2. out' \in [state : Ended, applied : Amount]
    BY <1>9, ConstantTypes DEF DisarmRemove, Ends, LockedOut, ResetLockedOut, DeployTypeOK, Ended, Amount
  <2> QED
    BY <1>9, <2>1, <2>2 DEF DisarmRemove, Goto, router, history, Ends, LockedOut, ResetLockedOut, DeployTypeOK
<1>10. ASSUME Reverted PROVE DeployTypeOK'
  <2>1. out' \in [state : Ended, applied : Amount]
    BY <1>10, ConstantTypes DEF Reverted, Ends, DeployTypeOK, Ended, Amount
  <2> QED
    BY <1>10, <2>1 DEF Reverted, Goto, router, history, Ends, DeployTypeOK
<1>11. ASSUME NotReverted PROVE DeployTypeOK'
  <2>1. out' \in [state : Ended, applied : Amount]
    BY <1>11, ConstantTypes DEF NotReverted, Ends, DeployTypeOK, Ended, Amount
  <2> QED
    BY <1>11, <2>1 DEF NotReverted, Goto, router, history, Ends, DeployTypeOK
<1>12. ASSUME Reset PROVE DeployTypeOK'
  <2>1. booted' \in [Routers -> BOOLEAN]
    BY <1>12, RunNumbers DEF Reset, DeployTypeOK
  <2>2. power' \in [Routers -> {"up", "loading", "reverting", "wiping"}]
    BY <1>12, RunNumbers, ZenonT(60) DEF Reset, DeployTypeOK
  <2>3. from' \in [Routers -> RunOrNone]
    BY <1>12, RunNumbers DEF Reset, DeployTypeOK
  <2>4. linked' \subseteq Routers
    BY <1>12, RunNumbers DEF Reset, DeployTypeOK
  <2>5. touched' \in [Runs -> SUBSET Routers]
    BY <1>12, RunNumbers DEF Reset, DeployTypeOK
  <2>6. out' \in [state : Ended, applied : Amount]
    BY <1>12, ConstantTypes DEF Reset, DeployTypeOK, Ended, Amount
  <2> QED
    BY <1>12, <2>1, <2>2, <2>3, <2>4, <2>5, <2>6 DEF Reset, Goto, router, history, DeployTypeOK
<1>13. ASSUME CameBack PROVE DeployTypeOK'
  <2> QED
    BY <1>13 DEF CameBack, Goto, router, history, DeployTypeOK
<1>14. ASSUME BootstrapLog PROVE DeployTypeOK'
  <2>1. out' \in [state : Ended, applied : Amount]
    BY <1>14, ConstantTypes DEF BootstrapLog, DeployTypeOK, Ended, Amount
  <2>2. excuse' \in [Routers -> SUBSET {"stale", "raced", "unread"}]
    BY <1>14, RunNumbers DEF BootstrapLog, DeployTypeOK
  <2> QED
    BY <1>14, <2>1, <2>2 DEF BootstrapLog, Goto, router, history, DeployTypeOK
<1>15. ASSUME LastSweep PROVE DeployTypeOK'
  <2>1. sched' \in [Routers -> [Runs -> {"none", "armed", "ran"}]]
    BY <1>15, SweepEffect DEF LastSweep, DeployTypeOK
  <2>2. saved' \in [Routers -> [Runs -> Backup]]
    BY <1>15, SweepEffect DEF LastSweep, DeployTypeOK
  <2> QED
    BY <1>15, <2>1, <2>2 DEF LastSweep, Goto, router, history, DeployTypeOK
<1> QED
  BY <1>1, <1>2, <1>3, <1>4, <1>5, <1>6, <1>7, <1>8, <1>9, <1>10, <1>11, <1>12, <1>13, <1>14, <1>15 DEF DeployStep

\* So does what happens to a router meanwhile.
LEMMA RouterType ==
    ASSUME DeployTypeOK, RunsAreKnown, NEW r \in Routers, RouterStep(r) \/ Unlink(r) \/ Link(r)
    PROVE  DeployTypeOK'
<1>1. ASSUME NEW m \in Runs, Fires(r, m) PROVE DeployTypeOK'
  <2>1. sched' \in [Routers -> [Runs -> {"none", "armed", "ran"}]]
    BY <1>1 DEF Fires, DeployTypeOK
  <2>2. /\ power' \in [Routers -> {"up", "loading", "reverting", "wiping"}]
        /\ from' \in [Routers -> RunOrNone]
    BY <1>1, RunNumbers DEF Fires, DeployTypeOK
  <2>3. excuse' \in [Routers -> SUBSET {"stale", "raced", "unread"}]
    BY <1>1 DEF Fires, DeployTypeOK
  <2> QED
    BY <1>1, <2>1, <2>2, <2>3 DEF Fires, deploy, DeployTypeOK
<1>2. ASSUME GoesDown(r) PROVE DeployTypeOK'
  BY <1>2 DEF GoesDown, deploy, history, DeployTypeOK
<1>3. ASSUME Boots(r) PROVE DeployTypeOK'
  <2>1. from[r] \in Runs
    BY <1>3, RunNumbers DEF Boots, RunsAreKnown, DeployTypeOK
  <2>2. /\ power' \in [Routers -> {"up", "loading", "reverting", "wiping"}]
        /\ from' \in [Routers -> RunOrNone] /\ booted' \in [Routers -> BOOLEAN]
    BY <1>3, RunNumbers DEF Boots, DeployTypeOK
  <2> QED
    BY <1>3, <2>1, <2>2, BootsEffect DEF Boots, deploy, history, DeployTypeOK
<1>4. ASSUME Unlink(r) \/ Link(r) PROVE DeployTypeOK'
  BY <1>4 DEF Unlink, Link, router, deploy, history, DeployTypeOK
<1> QED
  BY <1>1, <1>2, <1>3, <1>4 DEF RouterStep

-----------------------------------------------------------------------------
(* The run *)

\* A run's targets: at least one, and none of them twice.
LEMMA OrderFacts ==
    ASSUME TypeOK, JobFits
    PROVE  /\ Len(order) \in Nat /\ DOMAIN order = 1 .. Len(order)
           /\ \A k \in DOMAIN order : order[k] \in Routers
           /\ job # "none" => slot \in Runs /\ order # <<>> /\ Len(order) > 0
           /\ job # "none" => \A j, k \in DOMAIN order : order[j] = order[k] => j = k
           /\ job # "none" /\ i <= Len(order) => i \in DOMAIN order
           /\ pc # "idle" => at \in Routers /\ run \in Runs /\ at = order[i] /\ run = slot /\ i \in DOMAIN order
<1>1. /\ Len(order) \in Nat /\ DOMAIN order = 1 .. Len(order)
      /\ \A k \in DOMAIN order : order[k] \in Routers
  BY DEF TypeOK
<1>2. ASSUME job # "none" PROVE slot \in Runs /\ \E p \in Plans[slot] : order = p.order
  BY <1>2, RunNumbers DEF TypeOK, JobFits
<1>3. ASSUME job # "none"
      PROVE  /\ order # <<>> /\ Len(order) > 0
             /\ \A j, k \in DOMAIN order : order[j] = order[k] => j = k
  <2>1. order # <<>> /\ \A j, k \in DOMAIN order : order[j] = order[k] => j = k
    BY <1>2, <1>3, PlansAssumption
  <2> QED
    BY <1>1, <2>1 DEF TypeOK
<1>4. job # "none" /\ i <= Len(order) => i \in DOMAIN order
  BY <1>1 DEF TypeOK
<1>5. ASSUME pc # "idle"
      PROVE  at \in Routers /\ run \in Runs /\ at = order[i] /\ run = slot /\ i \in DOMAIN order
  BY <1>1, <1>2, <1>4, <1>5 DEF JobFits
<1> QED
  BY <1>1, <1>2, <1>3, <1>4, <1>5

\* cfgSet: nothing but this run's state and targets changes.
LEMMA SetStateEffect ==
    ASSUME TypeOK, slot \in Runs, NEW s \in RunState, NEW T \in [Routers -> TargetRow], SetState(s, T)
    PROVE  /\ state' = s /\ rec' \in [Runs -> RunRecord]
           /\ rec'[slot].state = s /\ rec'[slot].order = rec[slot].order /\ rec'[slot].target = T
           /\ \A n \in Runs \ {slot} : rec'[n] = rec[n]
<1> DEFINE x == [rec[slot] EXCEPT !.state = s]
           y == [x EXCEPT !.target = T]
<1>1. rec[slot] \in RunRecord
  BY DEF TypeOK
<1>2. x \in RunRecord /\ x.state = s /\ x.order = rec[slot].order
  BY <1>1 DEF RunRecord
<1>3. y \in RunRecord /\ y.state = x.state /\ y.order = x.order /\ y.target = T
  BY <1>2 DEF RunRecord
<1>4. rec' = [rec EXCEPT ![slot] = y]
  BY DEF SetState, TypeOK
<1> HIDE DEF x, y
<1> QED
  BY <1>2, <1>3, <1>4, ZenonT(60) DEF TypeOK, SetState

\* cfgStopRest.
LEMMA StopEffect ==
    ASSUME TypeOK, slot \in Runs, NEW s \in Finished, NEW T \in [Routers -> TargetRow], NEW j \in Nat,
           StopRest(T, j, s)
    PROVE  /\ state' = s /\ job' = "none" /\ i' = 1 /\ decide' = "empty" /\ cancelled' = FALSE /\ sending' = FALSE
           /\ rec' \in [Runs -> RunRecord] /\ rec'[slot].state = s /\ rec'[slot].order = rec[slot].order
           /\ \A r \in Routers : rec'[slot].target[r] =
                IF \E k \in j .. Len(order) : order[k] = r THEN Target("not-attempted", "none") ELSE T[r]
           /\ \A n \in Runs \ {slot} : rec'[n] = rec[n]
<1> DEFINE U == [r \in Routers |->
        IF \E k \in j .. Len(order) : order[k] = r THEN Target("not-attempted", "none") ELSE T[r]]
<1>1. Target("not-attempted", "none") \in TargetRow
  BY DEF Target, TargetRow, Amount
<1>2. U \in [Routers -> TargetRow]
  BY <1>1
<1>3. Over(s, U)
  BY DEF StopRest
<1>4. s \in RunState
  BY DEF RunState
<1>5. \A r \in Routers : U[r] =
        IF \E k \in j .. Len(order) : order[k] = r THEN Target("not-attempted", "none") ELSE T[r]
  OBVIOUS
<1> HIDE DEF U
<1>6. SetState(s, U)
  BY <1>3 DEF Over
<1> QED
  BY <1>2, <1>3, <1>4, <1>5, <1>6, SetStateEffect DEF Over

\* cfgRecordStart, when it works.
LEMMA RecordEffect ==
    ASSUME TypeOK, JobFits, Record, job' = "next"
    PROVE  /\ rec' \in [Runs -> RunRecord] /\ slot' = slot /\ slot \in Runs
           /\ rec'[slot].state = "canary" /\ rec'[slot].order = order
           /\ \A r \in Routers : rec'[slot].target[r].state =
                IF \E j \in DOMAIN order : order[j] = r THEN "pending" ELSE "none"
           /\ \A n \in Runs \ {slot} : rec'[n] = rec[n]
<1> DEFINE T == [r \in Routers |->
                    Target(IF \E j \in DOMAIN order : order[j] = r THEN "pending" ELSE "none", "none")]
           y == [state |-> "canary", order |-> order, target |-> T]
<1>1. Target("pending", "none") \in TargetRow /\ Target("none", "none") \in TargetRow
  BY DEF Target, TargetRow, Amount
<1>2. T \in [Routers -> TargetRow]
  BY <1>1
<1>3. \A r \in Routers : T[r].state = IF \E j \in DOMAIN order : order[j] = r THEN "pending" ELSE "none"
  BY DEF Target
<1>4. slot \in Runs
  BY OrderFacts DEF Record
<1>5. rec' = [rec EXCEPT ![slot] = y] /\ slot' = slot
  BY DEF Record
<1> HIDE DEF T
<1>6. y \in RunRecord /\ y.state = "canary" /\ y.order = order /\ y.target = T
  BY <1>2 DEF RunRecord, RunState, TypeOK
<1> HIDE DEF y
<1> QED
  BY <1>3, <1>4, <1>5, <1>6 DEF TypeOK

\* cfgRunOne records what it is about to do.
LEMMA BeginEffect ==
    ASSUME TypeOK, JobFits, Begin
    PROVE  /\ rec' \in [Runs -> RunRecord] /\ slot \in Runs /\ i \in DOMAIN order /\ order[i] \in Routers
           /\ rec'[slot].state = rec[slot].state /\ rec'[slot].order = rec[slot].order
           /\ \A r \in Routers : rec'[slot].target[r].state =
                IF r = order[i] THEN "applying" ELSE rec[slot].target[r].state
           /\ \A n \in Runs \ {slot} : rec'[n] = rec[n]
<1>1. slot \in Runs /\ i \in DOMAIN order /\ order[i] \in Routers
  BY OrderFacts DEF Begin, JobFits
<1> DEFINE q == order[i]
           t == [rec[slot].target[q] EXCEPT !.state = "applying"]
           T == [rec[slot].target EXCEPT ![q] = t]
           y == [rec[slot] EXCEPT !.target = T]
<1>2. rec[slot] \in RunRecord /\ rec[slot].target \in [Routers -> TargetRow]
  BY <1>1 DEF TypeOK, RunRecord
<1>3. rec[slot].target[q] \in TargetRow
  BY <1>1, <1>2
<1>4. t \in TargetRow /\ t.state = "applying"
  BY <1>3 DEF TargetRow
<1>5. rec' = [rec EXCEPT ![slot] = y]
  BY DEF Begin
<1> HIDE DEF t
<1>6. T \in [Routers -> TargetRow] /\ \A r \in Routers : T[r] = IF r = q THEN t ELSE rec[slot].target[r]
  BY <1>1, <1>2, <1>4
<1> HIDE DEF T
<1>7. y \in RunRecord /\ y.state = rec[slot].state /\ y.order = rec[slot].order /\ y.target = T
  BY <1>2, <1>6 DEF RunRecord
<1> HIDE DEF y
<1> QED
  BY <1>1, <1>4, <1>5, <1>6, <1>7 DEF TypeOK

\* The outcome of a router is recorded, and the run goes on or is halted.
LEMMA FinishEffect ==
    ASSUME TypeOK, JobFits, Finish
    PROVE  /\ rec' \in [Runs -> RunRecord] /\ slot \in Runs /\ i \in DOMAIN order /\ at = order[i]
           /\ rec'[slot].order = rec[slot].order /\ \A n \in Runs \ {slot} : rec'[n] = rec[n]
           /\ rec'[slot].target[at].state = out.state
           /\ \/ /\ out.state = "applied" /\ job' = "next" /\ i' = i + 1
                 /\ UNCHANGED <<state, decide, cancelled, sending>>
                 /\ rec'[slot].state = rec[slot].state
                 /\ \A r \in Routers \ {at} : rec'[slot].target[r] = rec[slot].target[r]
              \/ /\ out.state # "applied" /\ job' = "none" /\ state' = "halted" /\ i' = 1
                 /\ decide' = "empty" /\ cancelled' = FALSE /\ sending' = FALSE
                 /\ rec'[slot].state = "halted"
                 /\ \A r \in Routers \ {at} : rec'[slot].target[r] =
                      IF \E k \in i + 1 .. Len(order) : order[k] = r THEN Target("not-attempted", "none")
                                                                     ELSE rec[slot].target[r]
<1>1. slot \in Runs /\ i \in DOMAIN order /\ at = order[i] /\ at \in Routers
  BY OrderFacts DEF Finish
<1> DEFINE t == Target(out.state, out.applied)
           T == [rec[slot].target EXCEPT ![at] = t]
<1>2. rec[slot] \in RunRecord /\ rec[slot].target \in [Routers -> TargetRow]
  BY <1>1 DEF TypeOK, RunRecord
<1>3. t \in TargetRow /\ t.state = out.state
  BY DEF TypeOK, DeployTypeOK, Target, TargetRow
<1>4. \/ /\ out.state = "applied" /\ rec' = [rec EXCEPT ![slot].target = T]
         /\ i' = i + 1 /\ job' = "next" /\ UNCHANGED <<state, decide, cancelled, sending>>
      \/ out.state # "applied" /\ StopRest(T, i + 1, "halted")
  BY DEF Finish
<1> HIDE DEF t
<1>5. T \in [Routers -> TargetRow] /\ \A r \in Routers : T[r] = IF r = at THEN t ELSE rec[slot].target[r]
  BY <1>1, <1>2, <1>3
<1> HIDE DEF T
<1>6. CASE /\ out.state = "applied" /\ rec' = [rec EXCEPT ![slot].target = T]
           /\ i' = i + 1 /\ job' = "next" /\ UNCHANGED <<state, decide, cancelled, sending>>
  <2> DEFINE y == [rec[slot] EXCEPT !.target = T]
  <2>1. y \in RunRecord /\ y.state = rec[slot].state /\ y.order = rec[slot].order /\ y.target = T
    BY <1>2, <1>5 DEF RunRecord
  <2>2. rec' = [rec EXCEPT ![slot] = y]
    BY <1>6
  <2> HIDE DEF y
  <2> QED
    BY <1>1, <1>3, <1>5, <1>6, <2>1, <2>2, SMTT(30) DEF TypeOK
<1>7. CASE out.state # "applied" /\ StopRest(T, i + 1, "halted")
  <2>1. ~ \E k \in i + 1 .. Len(order) : order[k] = at
    <3>1. \A k \in i + 1 .. Len(order) : k \in DOMAIN order /\ k # i
      BY <1>1, OrderFacts DEF TypeOK
    <3>2. job # "none"
      BY DEF Finish
    <3> QED
      BY <1>1, <3>1, <3>2, OrderFacts
  <2>2. i + 1 \in Nat /\ "halted" \in Finished
    BY DEF TypeOK, Finished
  <2>3. /\ state' = "halted" /\ job' = "none" /\ i' = 1 /\ decide' = "empty" /\ cancelled' = FALSE /\ sending' = FALSE
        /\ rec' \in [Runs -> RunRecord] /\ rec'[slot].state = "halted" /\ rec'[slot].order = rec[slot].order
        /\ \A r \in Routers : rec'[slot].target[r] =
             IF \E k \in i + 1 .. Len(order) : order[k] = r THEN Target("not-attempted", "none") ELSE T[r]
        /\ \A n \in Runs \ {slot} : rec'[n] = rec[n]
    BY <1>1, <1>5, <1>7, <2>2, StopEffect
  <2>4. rec'[slot].target[at] = t
    BY <1>1, <1>5, <2>1, <2>3
  <2>5. \A r \in Routers \ {at} : rec'[slot].target[r] =
             IF \E k \in i + 1 .. Len(order) : order[k] = r THEN Target("not-attempted", "none")
                                                            ELSE rec[slot].target[r]
    BY <1>1, <1>5, <2>3
  <2> QED
    BY <1>1, <1>3, <1>7, <2>3, <2>4, <2>5
<1> QED
  BY <1>4, <1>6, <1>7

\* A deploy is at its router and its run from its first step to its last.
LEMMA DeployStays == DeployStep => UNCHANGED <<at, run, kind>> /\ pc # "idle" /\ pc' # "idle"
<1> SUFFICES ASSUME DeployStep PROVE UNCHANGED <<at, run, kind>> /\ pc # "idle" /\ pc' # "idle"
  OBVIOUS
<1>1. CASE Sweep \/ Preflight \/ Arm \/ ArmFails
  BY <1>1 DEF Sweep, Preflight, AdditionsReady, ResetReady, Arm, ArmFails, Goto, Ends
<1>2. CASE ImportPart \/ ImportFails
  BY <1>2 DEF ImportPart, ImportFails, Goto
<1>3. CASE Reconnect \/ DisarmPrint \/ DisarmRemove
  BY <1>3 DEF Reconnect, DisarmPrint, DisarmRemove, LockedOut, ResetLockedOut, Goto, Ends
<1>4. CASE Reverted \/ NotReverted \/ Reset \/ CameBack \/ BootstrapLog \/ LastSweep
  BY <1>4 DEF Reverted, NotReverted, Reset, CameBack, BootstrapLog, LastSweep, Goto, Ends
<1> QED
  BY <1>1, <1>2, <1>3, <1>4 DEF DeployStep

\* What it changes is its own router, in its own run's name.
LEMMA DeployTouches ==
    ASSUME DeployTypeOK, run \in Runs, DeployStep
    PROVE  \A n \in Runs : touched'[n] \subseteq IF n = run THEN touched[n] \cup {at} ELSE touched[n]
<1>1. CASE UNCHANGED touched
  BY <1>1
<1>2. CASE touched' = [touched EXCEPT ![run] = @ \cup {at}]
  BY <1>2 DEF DeployTypeOK
<1>3. UNCHANGED touched \/ touched' = [touched EXCEPT ![run] = @ \cup {at}]
  <2>1. CASE Sweep \/ Preflight \/ Arm \/ ArmFails
    BY <2>1 DEF Sweep, Preflight, Arm, ArmFails, Armed, history
  <2>2. CASE ImportPart \/ ImportFails
    BY <2>2 DEF ImportPart, ImportFails, Imports
  <2>3. CASE Reconnect \/ DisarmPrint \/ DisarmRemove
    BY <2>3 DEF Reconnect, DisarmPrint, DisarmRemove, history
  <2>4. CASE Reverted \/ NotReverted \/ Reset \/ CameBack \/ BootstrapLog \/ LastSweep
    BY <2>4 DEF Reverted, NotReverted, Reset, CameBack, BootstrapLog, LastSweep, history
  <2> QED
    BY <2>1, <2>2, <2>3, <2>4 DEF DeployStep
<1> QED
  BY <1>1, <1>2, <1>3

\* The restart closes the runs that were open.
LEMMA RestartEffect ==
    ASSUME TypeOK, Restart
    PROVE  /\ rec' \in [Runs -> RunRecord]
           /\ \A n \in Runs : rec[n].state \in Finished \cup {"none"} => rec'[n] = rec[n]
           /\ \A n \in Runs : rec[n].state \notin Finished \cup {"none"} =>
                /\ rec'[n].state = "interrupted" /\ rec'[n].order = rec[n].order
                /\ \A r \in Routers : rec'[n].target[r].state =
                     CASE rec[n].target[r].state = "applying" -> "unknown"
                       [] rec[n].target[r].state = "pending" -> "not-attempted"
                       [] OTHER -> rec[n].target[r].state
<1>1. ASSUME NEW n \in Runs, rec[n].state \notin Finished \cup {"none"}
      PROVE  /\ rec'[n] \in RunRecord /\ rec'[n].state = "interrupted" /\ rec'[n].order = rec[n].order
             /\ \A r \in Routers : rec'[n].target[r].state =
                     CASE rec[n].target[r].state = "applying" -> "unknown"
                       [] rec[n].target[r].state = "pending" -> "not-attempted"
                       [] OTHER -> rec[n].target[r].state
  <2> DEFINE T == [r \in Routers |-> Interrupted(rec[n].target[r])]
             x == [rec[n] EXCEPT !.state = "interrupted"]
             y == [x EXCEPT !.target = T]
  <2>1. rec[n] \in RunRecord /\ \A r \in Routers : rec[n].target[r] \in TargetRow
    BY DEF TypeOK, RunRecord
  <2>2. ASSUME NEW t \in TargetRow
        PROVE  /\ Interrupted(t) \in TargetRow
               /\ Interrupted(t).state = CASE t.state = "applying" -> "unknown"
                                           [] t.state = "pending" -> "not-attempted"
                                           [] OTHER -> t.state
    <3>1. CASE t.state = "applying"
      BY <3>1 DEF Interrupted, TargetRow, Ended
    <3>2. CASE t.state = "pending"
      BY <3>2 DEF Interrupted, TargetRow, Ended
    <3>3. CASE t.state \notin {"applying", "pending"}
      BY <3>3 DEF Interrupted
    <3> QED
      BY <3>1, <3>2, <3>3
  <2>3. T \in [Routers -> TargetRow] /\ \A r \in Routers : T[r] = Interrupted(rec[n].target[r])
    BY <2>1, <2>2
  <2>4. rec'[n] = y
    BY <1>1 DEF Restart, InterruptCfgRuns
  <2> HIDE DEF T
  <2>5. x \in RunRecord /\ x.state = "interrupted" /\ x.order = rec[n].order
    BY <2>1 DEF RunRecord, RunState, Finished
  <2>6. y \in RunRecord /\ y.state = x.state /\ y.order = x.order /\ y.target = T
    BY <2>3, <2>5 DEF RunRecord
  <2> HIDE DEF x, y
  <2> QED
    BY <2>1, <2>2, <2>3, <2>4, <2>5, <2>6
<1>2. \A n \in Runs : rec[n].state \in Finished \cup {"none"} => rec'[n] = rec[n]
  BY DEF Restart, InterruptCfgRuns
<1>3. \A n \in Runs : rec'[n] \in RunRecord
  BY <1>1, <1>2 DEF TypeOK
<1>4. rec' \in [Runs -> RunRecord]
  BY <1>3 DEF Restart, InterruptCfgRuns
<1> QED
  BY <1>1, <1>2, <1>4

\* A server that has just started.
LEMMA InitJob == Init => JobInv
<1> SUFFICES ASSUME Init PROVE JobInv
  OBVIOUS
<1> USE RunNumbers, ConstantTypes
<1>1. DeployTypeOK
  BY PartsAssumption, CrashesAssumption
     DEF Init, DeployInit, DeployTypeOK, NoOutcome, Ended, Amount, Kinds
<1>2. NoRecord \in RunRecord
  <2>1. Target("none", "none") \in TargetRow
    BY DEF Target, TargetRow, Amount
  <2> QED
    BY <2>1 DEF NoRecord, RunRecord, RunState
<1>3. TypeOK
  <2>1. rec \in [Runs -> RunRecord] /\ crashes \in 0 .. MaxCrashes
    BY <1>2, CrashesAssumption DEF Init
  <2>2. order \in Seq(Routers) /\ i \in Nat \ {0}
    BY DEF Init
  <2> QED
    BY <1>1, <2>1, <2>2 DEF Init, TypeOK
<1> QED
  BY <1>3 DEF Init, DeployInit, JobInv, JobFits, Unrecorded, InOrder, LetThrough, Finished

\* Every step keeps it.
LEMMA NextJob == JobInv /\ RunsAreKnown /\ [Next]_vars => JobInv'
<1> SUFFICES ASSUME JobInv, RunsAreKnown, [Next]_vars PROVE JobInv'
  OBVIOUS
<1> USE RunNumbers
<1>0. TypeOK /\ JobFits
  BY DEF JobInv
<1>1. CASE UNCHANGED vars
  <2>1. UNCHANGED <<router, linked, kind, deploy, history, jobvars, rec, people, crashes>>
    BY <1>1 DEF vars
  <2>2. TypeOK'
    BY <2>1 DEF router, deploy, history, jobvars, people, JobInv, TypeOK, DeployTypeOK
  <2>3. JobFits' /\ Unrecorded' /\ InOrder' /\ LetThrough'
    BY <2>1 DEF deploy, history, jobvars, people, JobInv, JobFits, Unrecorded, InOrder, LetThrough
  <2> QED
    BY <2>2, <2>3 DEF JobInv
<1>2. ASSUME NEW p \in UNION {Plans[n] : n \in Runs}, Start(p) PROVE JobInv'
  <2>1. TypeOK'
    <3>0. started + 1 \in Runs /\ p.kind \in Kinds /\ p.order \in Seq(Routers)
      BY <1>0, <1>2, PlansAssumption DEF Start, TypeOK
    <3>1. DeployTypeOK'
      BY <1>0, <1>2, <3>0 DEF Start, router, deploy, history, TypeOK, DeployTypeOK
    <3>2. state' \in (RunState \ {"none"}) \cup {"idle"}
      BY <1>0, <1>2, <3>0 DEF Start, TypeOK, RunState, Finished
    <3>3. i' \in Nat \ {0}
      BY <1>0, <1>2, <3>0 DEF Start, TypeOK
    <3>4. slot' \in RunOrNone /\ started' \in RunOrNone /\ order' \in Seq(Routers)
      BY <1>0, <1>2, <3>0 DEF Start, TypeOK
    <3>5. rec' \in [Runs -> RunRecord]
      BY <1>0, <1>2, <3>0 DEF Start, TypeOK
    <3>6. crashes' \in 0 .. MaxCrashes
      BY <1>0, <1>2, CrashesAssumption DEF Start, TypeOK
    <3> QED
      BY <1>0, <1>2, <3>0, <3>1, <3>2, <3>3, <3>4, <3>5, <3>6 DEF Start, people, TypeOK
  <2>2. JobFits'
    BY <1>0, <1>2, PlansAssumption, SMTT(30) DEF Start, deploy, TypeOK, JobFits, Finished
  <2>3. Unrecorded'
    BY <1>0, <1>2 DEF Start, history, JobInv, TypeOK, JobFits, Unrecorded
  <2>4. InOrder'
    BY <1>2 DEF Start, InOrder
  <2>5. LetThrough'
    BY <1>0, <1>2 DEF Start, people, JobInv, TypeOK, JobFits, LetThrough
  <2> QED
    BY <2>1, <2>2, <2>3, <2>4, <2>5 DEF JobInv
<1>3. ASSUME Record PROVE JobInv'
  <2>1. TypeOK'
    <3>1. DeployTypeOK'
      BY <1>0, <1>3 DEF Record, router, deploy, history, TypeOK, DeployTypeOK
    <3>2. rec' \in [Runs -> RunRecord]
      BY <1>0, <1>3, RecordEffect DEF Record, TypeOK
    <3> QED
      BY <1>0, <1>3, <3>1, <3>2 DEF Record, people, TypeOK
  <2>2. JobFits'
    BY <1>0, <1>3, OrderFacts DEF Record, deploy, TypeOK, JobFits
  <2>3. Unrecorded'
    <3>1. \A n \in Runs : n # slot => rec'[n] = rec[n]
      BY <1>0, <1>3, RecordEffect DEF Record
    <3> QED
      BY <1>0, <1>3, <3>1 DEF Record, history, JobInv, TypeOK, JobFits, Unrecorded
  <2>4. InOrder'
    <3> SUFFICES ASSUME job' = "next" PROVE InOrder'
      BY <1>3 DEF Record, InOrder
    <3>1. i = 1 /\ i' = i /\ order' = order
      BY <1>0, <1>3 DEF Record, JobFits
    <3>2. \A k \in DOMAIN order : order[k] \in Routers /\ k \in Int /\ k >= 1
      BY <1>0, OrderFacts
    <3> QED
      BY <1>0, <1>3, <3>1, <3>2, RecordEffect DEF InOrder, Finished
  <2>5. LetThrough'
    BY <1>0, <1>3 DEF Record, people, JobInv, TypeOK, JobFits, LetThrough
  <2> QED
    BY <2>1, <2>2, <2>3, <2>4, <2>5 DEF JobInv
<1>4. ASSUME NextRouter PROVE JobInv'
  <2>1. /\ rec' \in [Runs -> RunRecord] /\ slot \in Runs /\ rec'[slot].order = rec[slot].order
        /\ \A n \in Runs \ {slot} : rec'[n] = rec[n]
        /\ \A r \in Routers : rec'[slot].target[r] = rec[slot].target[r]
        /\ \/ /\ i > Len(order) /\ job' = "none" /\ state' = "done" /\ rec'[slot].state = "done"
              /\ i' = 1 /\ decide' = "empty" /\ cancelled' = FALSE /\ sending' = FALSE
           \/ /\ i = 2 /\ i <= Len(order) /\ job' = "await" /\ state' = "awaiting-canary"
              /\ rec'[slot].state = "awaiting-canary" /\ UNCHANGED <<i, cancelled, sending, decide>>
           \/ i # 2 /\ i <= Len(order) /\ job' = "check" /\ UNCHANGED <<i, cancelled, sending, decide, state, rec>>
    <3>1. slot \in Runs /\ rec[slot].target \in [Routers -> TargetRow]
      BY <1>0, <1>4, OrderFacts DEF NextRouter, TypeOK, RunRecord
    <3>2. "done" \in RunState /\ "awaiting-canary" \in RunState
      BY DEF RunState, Finished
    <3>3. CASE i > Len(order) /\ Over("done", rec[slot].target)
      BY <1>0, <3>1, <3>2, <3>3, SetStateEffect DEF Over
    <3>4. CASE /\ i = 2 /\ i <= Len(order) /\ SetState("awaiting-canary", rec[slot].target)
               /\ GoesOn("await") /\ UNCHANGED decide
      BY <1>0, <3>1, <3>2, <3>4, SetStateEffect DEF GoesOn
    <3>5. CASE i # 2 /\ i <= Len(order) /\ GoesOn("check") /\ UNCHANGED <<decide, state, rec>>
      BY <1>0, <3>1, <3>5 DEF GoesOn, TypeOK
    <3> QED
      BY <1>4, <3>3, <3>4, <3>5 DEF NextRouter
  <2>2. TypeOK'
    <3>1. DeployTypeOK'
      BY <1>0, <1>4 DEF NextRouter, router, deploy, history, TypeOK, DeployTypeOK
    <3>2. state' \in (RunState \ {"none"}) \cup {"idle"}
      BY <1>0, <1>4, <2>1 DEF NextRouter, TypeOK, RunState, Finished
    <3>3. i' \in Nat \ {0}
      BY <1>0, <1>4, <2>1 DEF NextRouter, TypeOK
    <3>4. slot' \in RunOrNone /\ started' \in RunOrNone /\ order' \in Seq(Routers)
      BY <1>0, <1>4, <2>1 DEF NextRouter, TypeOK
    <3>5. rec' \in [Runs -> RunRecord]
      BY <1>0, <1>4, <2>1 DEF NextRouter, TypeOK
    <3>6. crashes' \in 0 .. MaxCrashes
      BY <1>0, <1>4, CrashesAssumption DEF NextRouter, TypeOK
    <3> QED
      BY <1>0, <1>4, <2>1, <3>1, <3>2, <3>3, <3>4, <3>5, <3>6 DEF NextRouter, people, TypeOK
  <2>3. JobFits'
    BY <1>0, <1>4, <2>1, OrderFacts DEF NextRouter, deploy, TypeOK, JobFits, Finished
  <2>4. Unrecorded'
    BY <1>0, <1>4, <2>1 DEF NextRouter, history, JobInv, TypeOK, JobFits, Unrecorded
  <2>5. InOrder'
    BY <1>0, <1>4, <2>1 DEF NextRouter, JobInv, TypeOK, JobFits, InOrder, Finished
  <2>6. LetThrough'
    BY <1>0, <1>4, <2>1 DEF NextRouter, people, JobInv, TypeOK, JobFits, LetThrough
  <2> QED
    BY <2>2, <2>3, <2>4, <2>5, <2>6 DEF JobInv
<1>5. ASSUME Decided PROVE JobInv'
  <2>1. /\ rec' \in [Runs -> RunRecord] /\ slot \in Runs /\ rec'[slot].order = rec[slot].order
        /\ \A n \in Runs \ {slot} : rec'[n] = rec[n]
        /\ \/ /\ decide = "no" /\ job' = "none" /\ state' \in Finished /\ rec'[slot].state \in Finished
              /\ i' = 1 /\ decide' = "empty" /\ cancelled' = FALSE /\ sending' = FALSE
              /\ \A r \in Routers : rec'[slot].target[r] =
                   IF \E k \in i .. Len(order) : order[k] = r THEN Target("not-attempted", "none")
                                                              ELSE rec[slot].target[r]
           \/ /\ decide = "yes" /\ job' = "check" /\ state' = "rolling" /\ rec'[slot].state = "rolling"
              /\ decide' = "empty" /\ UNCHANGED <<i, cancelled, sending>>
              /\ \A r \in Routers : rec'[slot].target[r] = rec[slot].target[r]
    <3>1. slot \in Runs /\ rec[slot].target \in [Routers -> TargetRow] /\ i \in Nat
      BY <1>0, <1>5, OrderFacts DEF Decided, TypeOK, RunRecord
    <3>2. "rolling" \in RunState /\ "cancelled" \in Finished
      BY DEF RunState, Finished
    <3>3. CASE decide = "no" /\ StopRest(rec[slot].target, i, "cancelled")
      <4>1. /\ state' = "cancelled" /\ job' = "none" /\ i' = 1 /\ decide' = "empty" /\ cancelled' = FALSE /\ sending' = FALSE
            /\ rec' \in [Runs -> RunRecord] /\ rec'[slot].state = "cancelled" /\ rec'[slot].order = rec[slot].order
            /\ \A r \in Routers : rec'[slot].target[r] =
                 IF \E k \in i .. Len(order) : order[k] = r THEN Target("not-attempted", "none")
                                                            ELSE rec[slot].target[r]
            /\ \A n \in Runs \ {slot} : rec'[n] = rec[n]
        BY <1>0, <3>1, <3>2, <3>3, StopEffect
      <4> QED
        BY <3>1, <3>2, <3>3, <4>1
    <3>4. CASE /\ decide = "yes" /\ SetState("rolling", rec[slot].target)
               /\ GoesOn("check") /\ decide' = "empty"
      BY <1>0, <3>1, <3>2, <3>4, SetStateEffect DEF GoesOn
    <3> QED
      BY <1>5, <3>3, <3>4 DEF Decided
  <2>2. TypeOK'
    <3>1. DeployTypeOK'
      BY <1>0, <1>5 DEF Decided, router, deploy, history, TypeOK, DeployTypeOK
    <3>2. state' \in (RunState \ {"none"}) \cup {"idle"}
      BY <1>0, <1>5, <2>1 DEF Decided, TypeOK, RunState, Finished
    <3>3. i' \in Nat \ {0}
      BY <1>0, <1>5, <2>1 DEF Decided, TypeOK
    <3>4. slot' \in RunOrNone /\ started' \in RunOrNone /\ order' \in Seq(Routers)
      BY <1>0, <1>5, <2>1 DEF Decided, TypeOK
    <3>5. rec' \in [Runs -> RunRecord]
      BY <1>0, <1>5, <2>1 DEF Decided, TypeOK
    <3>6. crashes' \in 0 .. MaxCrashes
      BY <1>0, <1>5, CrashesAssumption DEF Decided, TypeOK
    <3> QED
      BY <1>0, <1>5, <2>1, <3>1, <3>2, <3>3, <3>4, <3>5, <3>6 DEF Decided, people, TypeOK
  <2>3. JobFits'
    BY <1>0, <1>5, <2>1, OrderFacts DEF Decided, deploy, TypeOK, JobFits, Finished
  <2>4. Unrecorded'
    BY <1>0, <1>5, <2>1 DEF Decided, history, JobInv, TypeOK, JobFits, Unrecorded
  <2>5. InOrder'
    BY <1>0, <1>5, <2>1, SMTT(30) DEF Decided, JobInv, TypeOK, JobFits, InOrder, Finished
  <2>6. LetThrough'
    BY <1>0, <1>5, <2>1 DEF Decided, people, JobInv, TypeOK, JobFits, LetThrough
  <2> QED
    BY <2>2, <2>3, <2>4, <2>5, <2>6 DEF JobInv
<1>6. ASSUME Check PROVE JobInv'
  <2>1. /\ rec' \in [Runs -> RunRecord] /\ slot \in Runs /\ rec'[slot].order = rec[slot].order
        /\ \A n \in Runs \ {slot} : rec'[n] = rec[n]
        /\ \/ /\ job' = "none" /\ state' \in Finished /\ rec'[slot].state \in Finished
              /\ i' = 1 /\ decide' = "empty" /\ cancelled' = FALSE /\ sending' = FALSE
              /\ \A r \in Routers : rec'[slot].target[r] =
                   IF \E k \in i .. Len(order) : order[k] = r THEN Target("not-attempted", "none")
                                                              ELSE rec[slot].target[r]
           \/ ~ cancelled /\ job' = "begin" /\ UNCHANGED <<i, cancelled, sending, decide, state, rec>>
    <3>1. slot \in Runs /\ rec[slot].target \in [Routers -> TargetRow] /\ i \in Nat
      BY <1>0, <1>6, OrderFacts DEF Check, TypeOK, RunRecord
    <3>2. "halted" \in Finished /\ "cancelled" \in Finished
      BY DEF Finished
    <3>3. CASE StopRest(rec[slot].target, i, "cancelled")
      <4>1. /\ state' = "cancelled" /\ job' = "none" /\ i' = 1 /\ decide' = "empty" /\ cancelled' = FALSE /\ sending' = FALSE
            /\ rec' \in [Runs -> RunRecord] /\ rec'[slot].state = "cancelled" /\ rec'[slot].order = rec[slot].order
            /\ \A r \in Routers : rec'[slot].target[r] =
                 IF \E k \in i .. Len(order) : order[k] = r THEN Target("not-attempted", "none")
                                                            ELSE rec[slot].target[r]
            /\ \A n \in Runs \ {slot} : rec'[n] = rec[n]
        BY <1>0, <3>1, <3>2, <3>3, StopEffect
      <4> QED
        BY <3>1, <3>2, <3>3, <4>1
    <3>4. CASE StopRest(rec[slot].target, i, "halted")
      <4>1. /\ state' = "halted" /\ job' = "none" /\ i' = 1 /\ decide' = "empty" /\ cancelled' = FALSE /\ sending' = FALSE
            /\ rec' \in [Runs -> RunRecord] /\ rec'[slot].state = "halted" /\ rec'[slot].order = rec[slot].order
            /\ \A r \in Routers : rec'[slot].target[r] =
                 IF \E k \in i .. Len(order) : order[k] = r THEN Target("not-attempted", "none")
                                                            ELSE rec[slot].target[r]
            /\ \A n \in Runs \ {slot} : rec'[n] = rec[n]
        BY <1>0, <3>1, <3>2, <3>4, StopEffect
      <4> QED
        BY <3>1, <3>2, <3>4, <4>1
    <3>5. CASE ~ cancelled /\ GoesOn("begin") /\ UNCHANGED <<decide, state, rec>>
      BY <1>0, <3>1, <3>5 DEF GoesOn, TypeOK
    <3> QED
      BY <1>6, <3>3, <3>4, <3>5 DEF Check
  <2>2. TypeOK'
    <3>1. DeployTypeOK'
      BY <1>0, <1>6 DEF Check, router, deploy, history, TypeOK, DeployTypeOK
    <3>2. state' \in (RunState \ {"none"}) \cup {"idle"}
      BY <1>0, <1>6, <2>1 DEF Check, TypeOK, RunState, Finished
    <3>3. i' \in Nat \ {0}
      BY <1>0, <1>6, <2>1 DEF Check, TypeOK
    <3>4. slot' \in RunOrNone /\ started' \in RunOrNone /\ order' \in Seq(Routers)
      BY <1>0, <1>6, <2>1 DEF Check, TypeOK
    <3>5. rec' \in [Runs -> RunRecord]
      BY <1>0, <1>6, <2>1 DEF Check, TypeOK
    <3>6. crashes' \in 0 .. MaxCrashes
      BY <1>0, <1>6, CrashesAssumption DEF Check, TypeOK
    <3> QED
      BY <1>0, <1>6, <2>1, <3>1, <3>2, <3>3, <3>4, <3>5, <3>6 DEF Check, people, TypeOK
  <2>3. JobFits'
    BY <1>0, <1>6, <2>1, OrderFacts DEF Check, deploy, TypeOK, JobFits, Finished
  <2>4. Unrecorded'
    BY <1>0, <1>6, <2>1 DEF Check, history, JobInv, TypeOK, JobFits, Unrecorded
  <2>5. InOrder'
    BY <1>0, <1>6, <2>1 DEF Check, JobInv, TypeOK, JobFits, InOrder, Finished
  <2>6. LetThrough'
    BY <1>0, <1>6, <2>1 DEF Check, people, JobInv, TypeOK, JobFits, LetThrough
  <2> QED
    BY <2>2, <2>3, <2>4, <2>5, <2>6 DEF JobInv
<1>7. ASSUME Begin PROVE JobInv'
  <2>1. TypeOK'
    <3>1. slot \in Runs /\ order[i] \in Routers
      BY <1>0, BeginEffect, <1>7
    <3>2. /\ last' \in [Routers -> RunOrNone] /\ out' \in [state : Ended, applied : Amount]
          /\ excuse' \in [Routers -> SUBSET {"stale", "raced", "unread"}]
      BY <1>0, <1>7, <3>1, ConstantTypes DEF Begin, TypeOK, DeployTypeOK, NoOutcome, Ended, Amount
    <3>3. DeployTypeOK'
      <4>1. pc' \in {"over", "sweep"} /\ 1 \in 1 .. Parts
        BY <1>7, PartsAssumption DEF Begin
      <4> QED
        BY <1>0, <1>7, <3>1, <3>2, <4>1 DEF Begin, router, TypeOK, DeployTypeOK
    <3> QED
      BY <1>0, <1>7, <3>3, BeginEffect DEF Begin, people, TypeOK
  <2>2. JobFits'
    BY <1>0, <1>7 DEF Begin, TypeOK, JobFits
  <2>3. Unrecorded'
    BY <1>0, <1>7, BeginEffect DEF Begin, JobInv, TypeOK, JobFits, Unrecorded
  <2>4. InOrder'
    BY <1>0, <1>7, BeginEffect, OrderFacts DEF Begin, JobInv, JobFits, InOrder
  <2>5. LetThrough'
    BY <1>0, <1>7 DEF Begin, people, JobInv, TypeOK, JobFits, LetThrough
  <2> QED
    BY <2>1, <2>2, <2>3, <2>4, <2>5 DEF JobInv
<1>8. ASSUME Finish PROVE JobInv'
  <2>1. TypeOK'
    <3>1. DeployTypeOK'
      BY <1>0, <1>8, ConstantTypes, PartsAssumption, SMTT(30)
         DEF Finish, NoDeploy, NoOutcome, Ended, Amount, router, history, TypeOK, DeployTypeOK
    <3>2. state' \in (RunState \ {"none"}) \cup {"idle"}
      BY <1>0, <1>8, FinishEffect DEF Finish, TypeOK, RunState, Finished
    <3>3. i' \in Nat \ {0}
      <4>1. i' = i + 1 \/ i' = 1
        BY <1>0, <1>8, FinishEffect
      <4> QED
        BY <1>0, <4>1 DEF TypeOK
    <3>4. slot' \in RunOrNone /\ started' \in RunOrNone /\ order' \in Seq(Routers)
      BY <1>0, <1>8, FinishEffect DEF Finish, TypeOK
    <3>5. rec' \in [Runs -> RunRecord]
      BY <1>0, <1>8, FinishEffect DEF Finish, TypeOK
    <3>6. crashes' \in 0 .. MaxCrashes
      BY <1>0, <1>8, CrashesAssumption DEF Finish, TypeOK
    <3> QED
      BY <1>0, <1>8, FinishEffect, <3>1, <3>2, <3>3, <3>4, <3>5, <3>6 DEF Finish, people, TypeOK
  <2>2. JobFits'
    <3>1. CASE job' = "next"
      BY <1>0, <1>8, <3>1, FinishEffect, OrderFacts DEF Finish, NoDeploy, TypeOK, JobFits, Finished
    <3>2. CASE job' = "none"
      <4>1. state' = "halted" /\ UNCHANGED <<slot, started>> /\ pc' = "idle"
        BY <1>0, <1>8, <3>2, FinishEffect DEF Finish, NoDeploy
      <4> QED
        BY <1>0, <3>2, <4>1 DEF JobFits, Finished
    <3> QED
      BY <1>0, <1>8, <3>1, <3>2, FinishEffect
  <2>3. Unrecorded'
    <3>1. /\ slot \in Runs /\ slot = started /\ UNCHANGED <<started, touched>> /\ job' # "record"
          /\ \A n \in Runs \ {slot} : rec'[n] = rec[n]
      BY <1>0, <1>8, FinishEffect DEF Finish, history, JobFits
    <3> QED
      BY <3>1 DEF JobInv, Unrecorded
  <2>4. InOrder'
    <3> SUFFICES ASSUME job' = "next" PROVE InOrder'
      BY <1>0, <1>8, FinishEffect DEF InOrder
    <3>1. /\ slot' = slot /\ order' = order /\ i' = i + 1 /\ job = "deploy" /\ rec'[slot].order = rec[slot].order
          /\ rec'[slot].state = rec[slot].state /\ rec'[slot].target[at].state = "applied"
          /\ at = order[i] /\ i \in DOMAIN order
          /\ \A r \in Routers \ {at} : rec'[slot].target[r] = rec[slot].target[r]
      BY <1>0, <1>8, FinishEffect DEF Finish
    <3>2. \A k \in DOMAIN order : order[k] \in Routers /\ k \in Int /\ (k # i => order[k] # at)
      BY <1>0, <3>1, OrderFacts
    <3>3. i \in Int
      BY <1>0 DEF TypeOK
    <3> QED
      BY <3>1, <3>2, <3>3 DEF JobInv, InOrder
  <2>5. LetThrough'
    <3>1. CASE job' = "next"
      BY <1>0, <1>8, <3>1, FinishEffect, OrderFacts DEF Finish, people, JobInv, TypeOK, JobFits, LetThrough
    <3>2. CASE job' = "none"
      BY <1>0, <1>8, <3>2, FinishEffect DEF Finish, people, JobInv, TypeOK, JobFits, LetThrough
    <3> QED
      BY <1>0, <1>8, <3>1, <3>2, FinishEffect
  <2> QED
    BY <2>1, <2>2, <2>3, <2>4, <2>5 DEF JobInv
<1>9. ASSUME Continue PROVE JobInv'
  <2>1. TypeOK'
    <3>1. DeployTypeOK'
      BY <1>0, <1>9 DEF Continue, router, deploy, history, TypeOK, DeployTypeOK
    <3> QED
      BY <1>0, <1>9, <3>1 DEF Continue, jobvars, people, TypeOK, RunState, Finished
  <2>2. JobFits'
    BY <1>0, <1>9 DEF Continue, deploy, JobFits
  <2>3. Unrecorded'
    BY <1>0, <1>9 DEF Continue, history, JobInv, Unrecorded
  <2>4. InOrder'
    BY <1>0, <1>9 DEF Continue, JobInv, InOrder
  <2>5. LetThrough'
    BY <1>0, <1>9 DEF Continue, people, JobInv, TypeOK, JobFits, LetThrough
  <2> QED
    BY <2>1, <2>2, <2>3, <2>4, <2>5 DEF JobInv
<1>10. ASSUME SendYes PROVE JobInv'
  <2>1. TypeOK'
    <3>1. DeployTypeOK'
      BY <1>0, <1>10 DEF SendYes, Answered, router, deploy, history, TypeOK, DeployTypeOK
    <3> QED
      BY <1>0, <1>10, <3>1 DEF SendYes, Answered, jobvars, people, TypeOK, RunState, Finished
  <2>2. JobFits'
    BY <1>0, <1>10 DEF SendYes, deploy, JobFits
  <2>3. Unrecorded'
    BY <1>0, <1>10 DEF SendYes, history, JobInv, Unrecorded
  <2>4. InOrder'
    BY <1>0, <1>10 DEF SendYes, JobInv, InOrder
  <2>5. LetThrough'
    BY <1>0, <1>10 DEF SendYes, Answered, people, JobInv, TypeOK, JobFits, LetThrough
  <2> QED
    BY <2>1, <2>2, <2>3, <2>4, <2>5 DEF JobInv
<1>11. ASSUME Cancel PROVE JobInv'
  <2>1. TypeOK'
    <3>1. DeployTypeOK'
      BY <1>0, <1>11 DEF Cancel, Answered, router, deploy, history, TypeOK, DeployTypeOK
    <3> QED
      BY <1>0, <1>11, <3>1 DEF Cancel, Answered, jobvars, people, TypeOK, RunState, Finished
  <2>2. JobFits'
    BY <1>0, <1>11 DEF Cancel, deploy, JobFits
  <2>3. Unrecorded'
    BY <1>0, <1>11 DEF Cancel, history, JobInv, Unrecorded
  <2>4. InOrder'
    BY <1>0, <1>11 DEF Cancel, JobInv, InOrder
  <2>5. LetThrough'
    BY <1>0, <1>11 DEF Cancel, Answered, people, JobInv, TypeOK, JobFits, LetThrough
  <2> QED
    BY <2>1, <2>2, <2>3, <2>4, <2>5 DEF JobInv
<1>12. ASSUME Restart PROVE JobInv'
  <2>1. TypeOK'
    <3>1. DeployTypeOK'
      <4>1. NoOutcome \in [state : Ended, applied : Amount] /\ 1 \in 1 .. Parts
        BY ConstantTypes, PartsAssumption DEF NoOutcome, Ended, Amount
      <4>2. linked' \subseteq Routers
        BY <1>12 DEF Restart
      <4> QED
        BY <1>0, <1>12, <4>1, <4>2 DEF Restart, NoDeploy, router, history, TypeOK, DeployTypeOK
    <3>2. state' \in (RunState \ {"none"}) \cup {"idle"}
      BY <1>0, <1>12, RestartEffect DEF Restart, TypeOK, RunState, Finished
    <3>3. /\ i' = 1 /\ slot' = 0 /\ order' = <<>> /\ started' = started
          /\ crashes < MaxCrashes /\ crashes' = crashes + 1
      BY <1>12 DEF Restart
    <3>4. i' \in Nat \ {0} /\ slot' \in RunOrNone /\ started' \in RunOrNone /\ order' \in Seq(Routers)
      BY <1>0, <3>3 DEF TypeOK
    <3>5. rec' \in [Runs -> RunRecord]
      BY <1>0, <1>12, RestartEffect
    <3>6. crashes' \in 0 .. MaxCrashes
      BY <1>0, <3>3, CrashesAssumption DEF TypeOK
    <3> QED
      BY <1>0, <1>12, <3>1, <3>2, <3>4, <3>5, <3>6 DEF Restart, people, TypeOK
  <2>2. JobFits'
    BY <1>0, <1>12 DEF Restart, NoDeploy, JobFits
  <2>3. Unrecorded'
    <3>1. \A n \in Runs : rec[n] = NoRecord => rec'[n] = rec[n]
      BY <1>0, <1>12, RestartEffect DEF NoRecord
    <3> QED
      BY <1>0, <1>12, <3>1 DEF Restart, history, JobInv, TypeOK, JobFits, Unrecorded
  <2>4. InOrder'
    BY <1>12 DEF Restart, InOrder
  <2>5. LetThrough'
    BY <1>0, <1>12 DEF Restart, people, JobInv, TypeOK, LetThrough
  <2> QED
    BY <2>1, <2>2, <2>3, <2>4, <2>5 DEF JobInv
<1>13. ASSUME Deploying PROVE JobInv'
  <2>1. TypeOK'
    BY <1>0, <1>13, OrderFacts, DeployStays, DeployType DEF Deploying, jobvars, people, TypeOK
  <2>2. JobFits'
    BY <1>0, <1>13, DeployStays DEF Deploying, jobvars, JobFits
  <2>3. Unrecorded'
    <3>1. \A n \in Runs : n # run => touched'[n] \subseteq touched[n]
      BY <1>0, <1>13, OrderFacts, DeployStays, DeployTouches DEF Deploying, TypeOK
    <3>2. run = slot /\ slot = started /\ job = "deploy"
      BY <1>0, <1>13, OrderFacts, DeployStays DEF Deploying, JobFits
    <3> QED
      BY <1>0, <1>13, <3>1, <3>2 DEF Deploying, jobvars, JobInv, TypeOK, Unrecorded
  <2>4. InOrder'
    BY <1>13 DEF Deploying, jobvars, JobInv, InOrder
  <2>5. LetThrough'
    BY <1>13 DEF Deploying, jobvars, people, JobInv, LetThrough
  <2> QED
    BY <2>1, <2>2, <2>3, <2>4, <2>5 DEF JobInv
<1>14. ASSUME NEW r \in Routers, External(r) PROVE JobInv'
  <2>1. UNCHANGED <<deploy, kind, touched, last>> /\ UNCHANGED <<jobvars, rec, people, crashes>>
    BY <1>14 DEF External, RouterStep, Fires, GoesDown, Boots, Unlink, Link, history
  <2>2. TypeOK'
    <3>1. DeployTypeOK'
      BY <1>0, <1>14, RouterType DEF External, TypeOK
    <3> QED
      BY <1>0, <1>14, <3>1 DEF External, jobvars, people, TypeOK
  <2>3. JobFits'
    BY <2>1 DEF deploy, jobvars, people, JobInv, JobFits
  <2>4. Unrecorded'
    BY <2>1 DEF deploy, jobvars, people, JobInv, Unrecorded
  <2>5. InOrder'
    BY <2>1 DEF deploy, jobvars, people, JobInv, InOrder
  <2>6. LetThrough'
    BY <2>1 DEF deploy, jobvars, people, JobInv, LetThrough
  <2> QED
    BY <2>2, <2>3, <2>4, <2>5, <2>6 DEF JobInv
<1> QED
  BY <1>1, <1>2, <1>3, <1>4, <1>5, <1>6, <1>7, <1>8, <1>9, <1>10, <1>11, <1>12, <1>13, <1>14 DEF Next, JobStep

-----------------------------------------------------------------------------
(* The routers *)

\* A step of the deploy keeps what the dead-man rests on.
LEMMA DeployKeeps ==
    ASSUME JobInv, RouterInv, DeployStep, started' = started
    PROVE  RouterInv'
<1>1. /\ DeployTypeOK /\ at \in Routers /\ run \in Runs /\ run \in RunOrNone /\ run # 0 /\ run = slot /\ slot = started
      /\ at' = at /\ run' = run /\ kind' = kind /\ started' = started /\ started \in Int /\ 0 <= started
  BY OrderFacts, DeployStays, RunNumbers DEF JobInv, TypeOK, JobFits
<1>2. RunsAreKnown /\ StepFits /\ SessionIsHonest /\ BackupIsOpen /\ ArmedWhileSending /\ DeadManIsKept
  BY DEF RouterInv
<1>3. ASSUME Sweep PROVE RouterInv'
  <2>1. /\ \A r \in Routers : \A n \in Runs :
             sched'[r][n] = sched[r][n] \/ (r = at /\ at \in linked /\ sched'[r][n] = "none")
        /\ \A r \in Routers : \A n \in Runs :
             saved'[r][n] = saved[r][n] \/ (saved'[r][n] = NoBackup /\ sched'[r][n] # "armed")
        /\ NoBackup.shut = 0
    BY <1>1, <1>3, SweepEffect, ConstantTypes DEF Sweep
  <2>2. RunsAreKnown'
    BY <1>1, <1>2, <1>3, <2>1 DEF Sweep, RunsAreKnown
  <2>3. StepFits'
    BY <1>3, <2>1, <1>1, <1>2 DEF Sweep, Goto, StepFits
  <2>4. SessionIsHonest'
    BY <1>3, <2>1, <1>1, <1>2 DEF Sweep, Goto, StepFits, SessionIsHonest, LockShut
  <2>5. BackupIsOpen'
    BY <1>3, <2>1, <1>1, <1>2 DEF Sweep, Goto, BackupIsOpen
  <2>6. ArmedWhileSending'
    BY <1>3, <2>1, <1>1, <1>2 DEF Sweep, Goto, StepFits, ArmedWhileSending
  <2>7. DeadManIsKept'
    <3> SUFFICES ASSUME NEW r \in Routers, NEW n \in Runs, shut[r] = n, kind[n] = "lock"
                 PROVE  sched'[r][n] = "armed" \/ power[r] # "up"
      BY <1>1, <1>3 DEF Sweep, DeadManIsKept
    <3>1. sched[r][n] = "armed" \/ power[r] # "up"
      BY <1>2 DEF DeadManIsKept
    <3>2. LockShut(r)
      BY RunNumbers DEF LockShut
    <3>3. ~ (r = at /\ at \in linked)
      BY <1>2, <1>3, <3>2 DEF Sweep, SessionIsHonest
    <3> QED
      BY <2>1, <3>1, <3>3
  <2> QED
    BY <2>2, <2>3, <2>4, <2>5, <2>6, <2>7 DEF RouterInv
<1>4. ASSUME Preflight PROVE RouterInv'
  <2>1. RunsAreKnown'
    BY <1>4, <1>1, <1>2 DEF Preflight, AdditionsReady, ResetReady, Goto, Ends, Outcome, router, RunsAreKnown
  <2>2. StepFits'
    BY <1>4, <1>1, <1>2 DEF Preflight, AdditionsReady, ResetReady, Goto, Ends, Outcome, router, StepFits
  <2>3. SessionIsHonest'
    BY <1>4, <1>1, <1>2 DEF Preflight, AdditionsReady, ResetReady, Goto, Ends, Outcome, router, StepFits, SessionIsHonest, LockShut
  <2>4. BackupIsOpen'
    BY <1>4, <1>1, <1>2 DEF Preflight, AdditionsReady, ResetReady, Goto, Ends, Outcome, router, BackupIsOpen
  <2>5. ArmedWhileSending'
    BY <1>4, <1>1, <1>2 DEF Preflight, AdditionsReady, ResetReady, Goto, Ends, Outcome, router, StepFits, ArmedWhileSending
  <2>6. DeadManIsKept'
    BY <1>4, <1>1, <1>2 DEF Preflight, AdditionsReady, ResetReady, Goto, Ends, Outcome, router, DeadManIsKept
  <2> QED
    BY <2>1, <2>2, <2>3, <2>4, <2>5, <2>6 DEF RouterInv
<1>5. ASSUME Arm PROVE RouterInv'
  <2>1. \/ UNCHANGED <<sched, saved>>
        \/ /\ at \in linked
           /\ \A r \in Routers : \A n \in Runs :
                sched'[r][n] = IF r = at /\ n = run THEN "armed" ELSE sched[r][n]
           /\ \A r \in Routers : \A n \in Runs :
                IF r = at /\ n = run THEN saved'[r][n].holds = holds[at] /\ saved'[r][n].shut = shut[at]
                                     ELSE saved'[r][n] = saved[r][n]
    BY <1>1, <1>5, ArmedEffect DEF Arm
  <2>2. RunsAreKnown'
    BY <1>5, <2>1, <1>1, <1>2 DEF Arm, Armed, Goto, Outcome, RunsAreKnown
  <2>3. StepFits'
    BY <1>5, <2>1, <1>1, <1>2 DEF Arm, Armed, Goto, Outcome, StepFits
  <2>4. SessionIsHonest'
    BY <1>5, <2>1, <1>1, <1>2 DEF Arm, Armed, Goto, Outcome, StepFits, SessionIsHonest, LockShut
  <2>5. BackupIsOpen'
    <3>1. at \in linked => ~ LockShut(at)
      BY <1>2, <1>5 DEF Arm, SessionIsHonest
    <3>2. \A r \in Routers : \A n \in Runs : saved'[r][n].shut = saved[r][n].shut \/ (at \in linked /\ saved'[r][n].shut = shut[at])
      BY <2>1
    <3> QED
      BY <1>1, <1>2, <3>1, <3>2 DEF BackupIsOpen, LockShut
  <2>6. ArmedWhileSending'
    <3>1. sched'[at][run] = "armed"
      BY <1>1, <1>5, ArmedEffect DEF Arm
    <3> QED
      BY <1>1, <3>1 DEF ArmedWhileSending
  <2>7. DeadManIsKept'
    BY <1>5, <2>1, <1>1, <1>2 DEF Arm, Armed, Goto, Outcome, DeadManIsKept
  <2> QED
    BY <2>2, <2>3, <2>4, <2>5, <2>6, <2>7 DEF RouterInv
<1>6. ASSUME ArmFails PROVE RouterInv'
  <2>1. \/ UNCHANGED <<sched, saved>>
        \/ /\ at \in linked
           /\ \A r \in Routers : \A n \in Runs :
                sched'[r][n] = IF r = at /\ n = run THEN "armed" ELSE sched[r][n]
           /\ \A r \in Routers : \A n \in Runs :
                IF r = at /\ n = run THEN saved'[r][n].holds = holds[at] /\ saved'[r][n].shut = shut[at]
                                     ELSE saved'[r][n] = saved[r][n]
    BY <1>1, <1>6, ArmedEffect DEF ArmFails
  <2>2. RunsAreKnown'
    BY <1>6, <2>1, <1>1, <1>2 DEF ArmFails, Armed, Goto, Ends, Outcome, RunsAreKnown
  <2>3. StepFits'
    BY <1>6, <2>1, <1>1, <1>2 DEF ArmFails, Armed, Goto, Ends, Outcome, StepFits
  <2>4. SessionIsHonest'
    BY <1>6, <2>1, <1>1, <1>2 DEF ArmFails, Armed, Goto, Ends, Outcome, StepFits, SessionIsHonest, LockShut
  <2>5. BackupIsOpen'
    <3>1. at \in linked => ~ LockShut(at)
      BY <1>2, <1>6 DEF ArmFails, SessionIsHonest
    <3>2. \A r \in Routers : \A n \in Runs : saved'[r][n].shut = saved[r][n].shut \/ (at \in linked /\ saved'[r][n].shut = shut[at])
      BY <2>1
    <3> QED
      BY <1>1, <1>2, <3>1, <3>2 DEF BackupIsOpen, LockShut
  <2>6. ArmedWhileSending'
    BY <1>6, <2>1, <1>1, <1>2 DEF ArmFails, Armed, Goto, Ends, Outcome, StepFits, ArmedWhileSending
  <2>7. DeadManIsKept'
    BY <1>6, <2>1, <1>1, <1>2 DEF ArmFails, Armed, Goto, Ends, Outcome, DeadManIsKept
  <2> QED
    BY <2>2, <2>3, <2>4, <2>5, <2>6, <2>7 DEF RouterInv
<1>7. ASSUME ImportPart PROVE RouterInv'
  <2>1. \A r \in Routers : shut'[r] = shut[r] \/ (r = at /\ at \in linked /\ shut'[r] = run)
    BY <1>1, <1>7, ImportsEffect, HoldsType DEF ImportPart
  <2>2. RunsAreKnown'
    BY <1>7, <2>1, <1>1, <1>2 DEF ImportPart, Goto, RunsAreKnown
  <2>3. StepFits'
    BY <1>7, <2>1, <1>1, <1>2 DEF ImportPart, Goto, StepFits
  <2>4. SessionIsHonest'
    <3>1. UNCHANGED <<linked, power>> /\ pc = "import" /\ pc' \in {"import", "reconnect"}
      BY <1>7 DEF ImportPart, Goto
    <3>2. ASSUME NEW r \in linked, LockShut(r)' PROVE at = r /\ run = shut'[r]
      <4>1. r \in Routers
        BY <1>1 DEF DeployTypeOK
      <4>2. CASE shut'[r] = shut[r]
        BY <1>1, <1>2, <3>2, <4>2 DEF SessionIsHonest, LockShut
      <4>3. CASE r = at /\ shut'[r] = run
        BY <4>3
      <4> QED
        BY <2>1, <4>1, <4>2, <4>3
    <3> QED
      BY <1>1, <1>2, <3>1, <3>2 DEF SessionIsHonest
  <2>5. BackupIsOpen'
    BY <1>7, <2>1, <1>1, <1>2 DEF ImportPart, Goto, BackupIsOpen
  <2>6. ArmedWhileSending'
    BY <1>7, <2>1, <1>1, <1>2 DEF ImportPart, Goto, StepFits, ArmedWhileSending
  <2>7. DeadManIsKept'
    <3> SUFFICES ASSUME NEW r \in Routers, NEW n \in Runs, shut'[r] = n, kind[n] = "lock"
                 PROVE  sched[r][n] = "armed" \/ power[r] # "up"
      BY <1>1, <1>7 DEF ImportPart, DeadManIsKept
    <3>1. CASE shut'[r] = shut[r]
      BY <1>2, <3>1 DEF DeadManIsKept
    <3>2. CASE r = at /\ at \in linked /\ shut'[r] = run
      BY <1>2, <1>7, <3>2 DEF ImportPart, StepFits, ArmedWhileSending
    <3> QED
      BY <2>1, <3>1, <3>2
  <2> QED
    BY <2>2, <2>3, <2>4, <2>5, <2>6, <2>7 DEF RouterInv
<1>8. ASSUME ImportFails PROVE RouterInv'
  <2>1. \A r \in Routers : shut'[r] = shut[r] \/ (r = at /\ at \in linked /\ shut'[r] = run)
    BY <1>1, <1>8, ImportsEffect, HoldsType DEF ImportFails
  <2>2. RunsAreKnown'
    BY <1>8, <2>1, <1>1, <1>2 DEF ImportFails, Goto, RunsAreKnown
  <2>3. StepFits'
    BY <1>8, <2>1, <1>1, <1>2 DEF ImportFails, Goto, StepFits
  <2>4. SessionIsHonest'
    <3>1. UNCHANGED <<linked, power>> /\ pc = "import" /\ pc' \in {"import", "reconnect"}
      BY <1>8 DEF ImportFails, Goto
    <3>2. ASSUME NEW r \in linked, LockShut(r)' PROVE at = r /\ run = shut'[r]
      <4>1. r \in Routers
        BY <1>1 DEF DeployTypeOK
      <4>2. CASE shut'[r] = shut[r]
        BY <1>1, <1>2, <3>2, <4>2 DEF SessionIsHonest, LockShut
      <4>3. CASE r = at /\ shut'[r] = run
        BY <4>3
      <4> QED
        BY <2>1, <4>1, <4>2, <4>3
    <3> QED
      BY <1>1, <1>2, <3>1, <3>2 DEF SessionIsHonest
  <2>5. BackupIsOpen'
    BY <1>8, <2>1, <1>1, <1>2 DEF ImportFails, Goto, BackupIsOpen
  <2>6. ArmedWhileSending'
    BY <1>8, <2>1, <1>1, <1>2 DEF ImportFails, Goto, StepFits, ArmedWhileSending
  <2>7. DeadManIsKept'
    <3> SUFFICES ASSUME NEW r \in Routers, NEW n \in Runs, shut'[r] = n, kind[n] = "lock"
                 PROVE  sched[r][n] = "armed" \/ power[r] # "up"
      BY <1>1, <1>8 DEF ImportFails, DeadManIsKept
    <3>1. CASE shut'[r] = shut[r]
      BY <1>2, <3>1 DEF DeadManIsKept
    <3>2. CASE r = at /\ at \in linked /\ shut'[r] = run
      BY <1>2, <1>8, <3>2 DEF ImportFails, StepFits, ArmedWhileSending
    <3> QED
      BY <2>1, <3>1, <3>2
  <2> QED
    BY <2>2, <2>3, <2>4, <2>5, <2>6, <2>7 DEF RouterInv
<1>9. ASSUME Reconnect PROVE RouterInv'
  <2>1. RunsAreKnown'
    BY <1>9, <1>1, <1>2 DEF Reconnect, Login, Goto, Ends, Outcome, LockedOut, ResetLockedOut, router, RunsAreKnown
  <2>2. StepFits'
    BY <1>9, <1>1, <1>2 DEF Reconnect, Login, Goto, Ends, Outcome, LockedOut, ResetLockedOut, router, StepFits
  <2>3. SessionIsHonest'
    BY <1>9, <1>1, <1>2 DEF Reconnect, Login, Goto, Ends, Outcome, LockedOut, ResetLockedOut, router, StepFits, SessionIsHonest, LockShut
  <2>4. BackupIsOpen'
    BY <1>9, <1>1, <1>2 DEF Reconnect, Login, Goto, Ends, Outcome, LockedOut, ResetLockedOut, router, BackupIsOpen
  <2>5. ArmedWhileSending'
    BY <1>9, <1>1, <1>2 DEF Reconnect, Login, Goto, Ends, Outcome, LockedOut, ResetLockedOut, router, StepFits, ArmedWhileSending
  <2>6. DeadManIsKept'
    BY <1>9, <1>1, <1>2 DEF Reconnect, Login, Goto, Ends, Outcome, LockedOut, ResetLockedOut, router, DeadManIsKept
  <2> QED
    BY <2>1, <2>2, <2>3, <2>4, <2>5, <2>6 DEF RouterInv
<1>10. ASSUME DisarmPrint PROVE RouterInv'
  <2>1. RunsAreKnown'
    BY <1>10, <1>1, <1>2 DEF DisarmPrint, Goto, Ends, Outcome, LockedOut, ResetLockedOut, router, RunsAreKnown
  <2>2. StepFits'
    BY <1>10, <1>1, <1>2 DEF DisarmPrint, Goto, Ends, Outcome, LockedOut, ResetLockedOut, router, StepFits
  <2>3. SessionIsHonest'
    BY <1>10, <1>1, <1>2 DEF DisarmPrint, Goto, Ends, Outcome, LockedOut, ResetLockedOut, router, StepFits, SessionIsHonest, LockShut
  <2>4. BackupIsOpen'
    BY <1>10, <1>1, <1>2 DEF DisarmPrint, Goto, Ends, Outcome, LockedOut, ResetLockedOut, router, BackupIsOpen
  <2>5. ArmedWhileSending'
    BY <1>10, <1>1, <1>2 DEF DisarmPrint, Goto, Ends, Outcome, LockedOut, ResetLockedOut, router, StepFits, ArmedWhileSending
  <2>6. DeadManIsKept'
    BY <1>10, <1>1, <1>2 DEF DisarmPrint, Goto, Ends, Outcome, LockedOut, ResetLockedOut, router, DeadManIsKept
  <2> QED
    BY <2>1, <2>2, <2>3, <2>4, <2>5, <2>6 DEF RouterInv
<1>11. ASSUME DisarmRemove PROVE RouterInv'
  <2>1. RunsAreKnown'
    <3>1. \A r \in Routers : \A n \in Runs : sched'[r][n] \in {sched[r][n], "none"}
      <4>1. UNCHANGED sched \/ sched' = [sched EXCEPT ![at][run] = "none"]
        BY <1>11 DEF DisarmRemove
      <4>2. CASE UNCHANGED sched
        BY <4>2
      <4>3. CASE sched' = [sched EXCEPT ![at][run] = "none"]
        <5> TAKE r \in Routers
        <5> TAKE n \in Runs
        <5>1. sched[r] \in [Runs -> {"none", "armed", "ran"}]
          BY <1>1 DEF DeployTypeOK
        <5>2. sched'[r] = IF r = at THEN [sched[r] EXCEPT ![run] = "none"] ELSE sched[r]
          BY <1>1, <4>3 DEF DeployTypeOK
        <5> QED
          BY <5>1, <5>2
      <4> QED
        BY <4>1, <4>2, <4>3
    <3> QED
      BY <1>1, <1>2, <1>11, <3>1 DEF DisarmRemove, RunsAreKnown
  <2>2. StepFits'
    BY <1>11, <1>1, <1>2 DEF DisarmRemove, Goto, Ends, Outcome, LockedOut, ResetLockedOut, StepFits
  <2>3. SessionIsHonest'
    BY <1>11, <1>1, <1>2 DEF DisarmRemove, Goto, Ends, Outcome, LockedOut, ResetLockedOut, StepFits, SessionIsHonest, LockShut
  <2>4. BackupIsOpen'
    BY <1>11, <1>1, <1>2 DEF DisarmRemove, Goto, Ends, Outcome, LockedOut, ResetLockedOut, BackupIsOpen
  <2>5. ArmedWhileSending'
    BY <1>11, <1>1, <1>2 DEF DisarmRemove, Goto, Ends, Outcome, LockedOut, ResetLockedOut, StepFits, ArmedWhileSending
  <2>6. DeadManIsKept'
    <3> SUFFICES ASSUME NEW r \in Routers, NEW n \in Runs, shut[r] = n, kind[n] = "lock"
                 PROVE  sched'[r][n] = "armed" \/ power[r] # "up"
      BY <1>1, <1>11 DEF DisarmRemove, DeadManIsKept
    <3>1. sched[r][n] = "armed" \/ power[r] # "up"
      BY <1>2 DEF DeadManIsKept
    <3>2. LockShut(r)
      BY RunNumbers DEF LockShut
    <3>3. ~ (r = at /\ at \in linked)
      BY <1>2, <1>11, <3>2 DEF DisarmRemove, SessionIsHonest
    <3>4. CASE UNCHANGED sched
      BY <3>1, <3>4
    <3>5. CASE at \in linked /\ sched' = [sched EXCEPT ![at][run] = "none"]
      <4>1. r # at
        BY <3>3, <3>5
      <4> QED
        BY <1>1, <3>1, <3>5, <4>1 DEF DeployTypeOK
    <3> QED
      BY <1>11, <3>4, <3>5 DEF DisarmRemove
  <2> QED
    BY <2>1, <2>2, <2>3, <2>4, <2>5, <2>6 DEF RouterInv
<1>12. ASSUME Reverted PROVE RouterInv'
  <2>1. RunsAreKnown'
    BY <1>12, <1>1, <1>2 DEF Reverted, Goto, Ends, Outcome, Login, router, RunsAreKnown
  <2>2. StepFits'
    BY <1>12, <1>1, <1>2 DEF Reverted, Goto, Ends, Outcome, Login, router, StepFits
  <2>3. SessionIsHonest'
    BY <1>12, <1>1, <1>2 DEF Reverted, Goto, Ends, Outcome, Login, router, StepFits, SessionIsHonest, LockShut
  <2>4. BackupIsOpen'
    BY <1>12, <1>1, <1>2 DEF Reverted, Goto, Ends, Outcome, Login, router, BackupIsOpen
  <2>5. ArmedWhileSending'
    BY <1>12, <1>1, <1>2 DEF Reverted, Goto, Ends, Outcome, Login, router, StepFits, ArmedWhileSending
  <2>6. DeadManIsKept'
    BY <1>12, <1>1, <1>2 DEF Reverted, Goto, Ends, Outcome, Login, router, DeadManIsKept
  <2> QED
    BY <2>1, <2>2, <2>3, <2>4, <2>5, <2>6 DEF RouterInv
<1>13. ASSUME NotReverted PROVE RouterInv'
  <2>1. RunsAreKnown'
    BY <1>13, <1>1, <1>2 DEF NotReverted, Goto, Ends, Outcome, router, RunsAreKnown
  <2>2. StepFits'
    BY <1>13, <1>1, <1>2 DEF NotReverted, Goto, Ends, Outcome, router, StepFits
  <2>3. SessionIsHonest'
    <3>1. UNCHANGED <<linked, power, shut, sched>> /\ pc = "revert" /\ sched[at][run] # "armed" /\ power[at] # "loading"
      BY <1>13 DEF NotReverted, router
    <3>2. ASSUME NEW r \in linked, LockShut(r) PROVE FALSE
      <4>1. at = r /\ run = shut[r] /\ power[at] \in {"up", "loading"}
        BY <1>2, <3>2 DEF SessionIsHonest
      <4>2. kind[run] = "lock"
        BY <3>2, <4>1 DEF LockShut
      <4> QED
        BY <1>1, <1>2, <3>1, <4>1, <4>2 DEF DeadManIsKept
    <3> QED
      BY <1>1, <1>2, <3>1, <3>2 DEF SessionIsHonest, LockShut
  <2>4. BackupIsOpen'
    BY <1>13, <1>1, <1>2 DEF NotReverted, Goto, Ends, Outcome, router, BackupIsOpen
  <2>5. ArmedWhileSending'
    BY <1>13, <1>1, <1>2 DEF NotReverted, Goto, Ends, Outcome, router, StepFits, ArmedWhileSending
  <2>6. DeadManIsKept'
    BY <1>13, <1>1, <1>2 DEF NotReverted, Goto, Ends, Outcome, router, DeadManIsKept
  <2> QED
    BY <2>1, <2>2, <2>3, <2>4, <2>5, <2>6 DEF RouterInv
<1>14. ASSUME Reset PROVE RouterInv'
  <2>1. /\ \/ UNCHANGED <<power, from, linked>>
           \/ power' = [power EXCEPT ![at] = "wiping"] /\ from' = [from EXCEPT ![at] = run] /\ linked' = linked \ {at}
        /\ UNCHANGED <<shut, sched, saved, dm>> /\ pc = "reset" /\ pc' = "reboot"
    BY <1>14 DEF Reset, Goto
  <2>2. /\ \A r \in Routers : \/ power'[r] = power[r] /\ from'[r] = from[r]
                              \/ r = at /\ power'[r] = "wiping" /\ from'[r] = run /\ r \notin linked'
        /\ linked' \subseteq linked
    BY <1>1, <2>1 DEF DeployTypeOK
  <2>3. RunsAreKnown'
    <3>1. kind[run] = "reset"
      BY <1>2, <2>1, <2>2 DEF StepFits
    <3> QED
      BY <1>1, <1>2, <2>1, <2>2, <3>1 DEF RunsAreKnown
  <2>4. StepFits'
    BY <1>14, <2>1, <2>2, <1>1, <1>2 DEF Reset, Goto, Outcome, StepFits
  <2>5. SessionIsHonest'
    <3>1. \A r \in linked : r \in Routers /\ ~ LockShut(r)
      BY <1>1, <1>2, <2>1, <2>2 DEF SessionIsHonest, DeployTypeOK
    <3> QED
      BY <1>1, <1>2, <2>1, <2>2, <3>1 DEF SessionIsHonest, LockShut
  <2>6. BackupIsOpen'
    BY <1>14, <2>1, <2>2, <1>1, <1>2 DEF Reset, Goto, Outcome, BackupIsOpen
  <2>7. ArmedWhileSending'
    BY <1>14, <2>1, <2>2, <1>1, <1>2 DEF Reset, Goto, Outcome, StepFits, ArmedWhileSending
  <2>8. DeadManIsKept'
    BY <1>1, <1>2, <2>1, <2>2 DEF DeadManIsKept
  <2> QED
    BY <2>3, <2>4, <2>5, <2>6, <2>7, <2>8 DEF RouterInv
<1>15. ASSUME CameBack PROVE RouterInv'
  <2>1. RunsAreKnown'
    BY <1>15, <1>1, <1>2 DEF CameBack, Goto, router, RunsAreKnown
  <2>2. StepFits'
    BY <1>15, <1>1, <1>2 DEF CameBack, Goto, router, StepFits
  <2>3. SessionIsHonest'
    BY <1>15, <1>1, <1>2 DEF CameBack, Goto, router, StepFits, SessionIsHonest, LockShut
  <2>4. BackupIsOpen'
    BY <1>15, <1>1, <1>2 DEF CameBack, Goto, router, BackupIsOpen
  <2>5. ArmedWhileSending'
    BY <1>15, <1>1, <1>2 DEF CameBack, Goto, router, StepFits, ArmedWhileSending
  <2>6. DeadManIsKept'
    BY <1>15, <1>1, <1>2 DEF CameBack, Goto, router, DeadManIsKept
  <2> QED
    BY <2>1, <2>2, <2>3, <2>4, <2>5, <2>6 DEF RouterInv
<1>16. ASSUME BootstrapLog PROVE RouterInv'
  <2>1. RunsAreKnown'
    BY <1>16, <1>1, <1>2 DEF BootstrapLog, Goto, Outcome, router, RunsAreKnown
  <2>2. StepFits'
    BY <1>16, <1>1, <1>2 DEF BootstrapLog, Goto, Outcome, router, StepFits
  <2>3. SessionIsHonest'
    BY <1>16, <1>1, <1>2 DEF BootstrapLog, Goto, Outcome, router, StepFits, SessionIsHonest, LockShut
  <2>4. BackupIsOpen'
    BY <1>16, <1>1, <1>2 DEF BootstrapLog, Goto, Outcome, router, BackupIsOpen
  <2>5. ArmedWhileSending'
    BY <1>16, <1>1, <1>2 DEF BootstrapLog, Goto, Outcome, router, StepFits, ArmedWhileSending
  <2>6. DeadManIsKept'
    BY <1>16, <1>1, <1>2 DEF BootstrapLog, Goto, Outcome, router, DeadManIsKept
  <2> QED
    BY <2>1, <2>2, <2>3, <2>4, <2>5, <2>6 DEF RouterInv
<1>17. ASSUME LastSweep PROVE RouterInv'
  <2>1. /\ \A r \in Routers : \A n \in Runs :
             sched'[r][n] = sched[r][n] \/ (r = at /\ at \in linked /\ dm # "armed" /\ sched'[r][n] = "none")
        /\ \A r \in Routers : \A n \in Runs :
             saved'[r][n] = saved[r][n] \/ (saved'[r][n] = NoBackup /\ sched'[r][n] # "armed")
        /\ NoBackup.shut = 0
    BY <1>1, <1>17, SweepEffect, ConstantTypes DEF LastSweep
  <2>2. RunsAreKnown'
    BY <1>1, <1>2, <1>17, <2>1 DEF LastSweep, RunsAreKnown
  <2>3. StepFits'
    BY <1>17, <2>1, <1>1, <1>2 DEF LastSweep, Goto, StepFits
  <2>4. SessionIsHonest'
    BY <1>17, <2>1, <1>1, <1>2 DEF LastSweep, Goto, StepFits, SessionIsHonest, LockShut
  <2>5. BackupIsOpen'
    BY <1>17, <2>1, <1>1, <1>2 DEF LastSweep, Goto, BackupIsOpen
  <2>6. ArmedWhileSending'
    BY <1>17, <2>1, <1>1, <1>2 DEF LastSweep, Goto, StepFits, ArmedWhileSending
  <2>7. DeadManIsKept'
    <3> SUFFICES ASSUME NEW r \in Routers, NEW n \in Runs, shut[r] = n, kind[n] = "lock"
                 PROVE  sched'[r][n] = "armed" \/ power[r] # "up"
      BY <1>1, <1>17 DEF LastSweep, DeadManIsKept
    <3>1. sched[r][n] = "armed" \/ power[r] # "up"
      BY <1>2 DEF DeadManIsKept
    <3>2. LockShut(r)
      BY RunNumbers DEF LockShut
    <3>3. ~ (r = at /\ at \in linked)
      BY <1>2, <1>17, <3>2 DEF LastSweep, SessionIsHonest
    <3> QED
      BY <2>1, <3>1, <3>3
  <2> QED
    BY <2>2, <2>3, <2>4, <2>5, <2>6, <2>7 DEF RouterInv
<1> QED
  BY <1>3, <1>4, <1>5, <1>6, <1>7, <1>8, <1>9, <1>10, <1>11, <1>12, <1>13, <1>14, <1>15, <1>16, <1>17 DEF DeployStep

\* So does what happens to a router meanwhile.
LEMMA OutsideKeeps ==
    ASSUME JobInv, RouterInv, NEW r \in Routers, RouterStep(r) \/ Unlink(r) \/ Link(r), started' = started
    PROVE  RouterInv'
<1>1. DeployTypeOK /\ started \in Int /\ 0 <= started /\ \A q \in linked : q \in Routers
  BY RunNumbers DEF JobInv, TypeOK, DeployTypeOK
<1>2. RunsAreKnown /\ StepFits /\ SessionIsHonest /\ BackupIsOpen /\ ArmedWhileSending /\ DeadManIsKept
  BY DEF RouterInv
<1>3. ASSUME NEW m \in Runs, Fires(r, m) PROVE RouterInv'
  <2>1. /\ UNCHANGED <<shut, saved, booted, linked, kind, deploy>>
        /\ sched[r][m] = "armed" /\ power[r] = "up"
        /\ \A q \in Routers : \A n \in Runs : sched'[q][n] = IF q = r /\ n = m THEN "ran" ELSE sched[q][n]
        /\ \A q \in Routers : power'[q] = IF q = r THEN "loading" ELSE power[q]
        /\ \A q \in Routers : from'[q] = IF q = r THEN m ELSE from[q]
    BY <1>1, <1>3 DEF Fires, DeployTypeOK
  <2>2. RunsAreKnown'
    <3>1. m # 0 /\ m <= started
      BY <1>2, <2>1, RunNumbers DEF RunsAreKnown
    <3> QED
      BY <1>2, <2>1, <3>1 DEF deploy, RunsAreKnown
  <2>3. StepFits'
    BY <1>2, <2>1 DEF deploy, StepFits
  <2>4. SessionIsHonest'
    BY <1>1, <1>2, <2>1 DEF deploy, SessionIsHonest, LockShut
  <2>5. BackupIsOpen'
    BY <1>2, <2>1 DEF BackupIsOpen
  <2>6. ArmedWhileSending'
    <3> SUFFICES ASSUME pc = "import", dm = "armed", at \in linked, ~ (sched'[at][run] = "armed" \/ power'[at] # "up")
                 PROVE  FALSE
      BY <2>1 DEF deploy, ArmedWhileSending
    <3>1. at \in Routers /\ run \in Runs
      BY OrderFacts DEF JobInv
    <3> QED
      BY <1>2, <2>1, <3>1 DEF ArmedWhileSending
  <2>7. DeadManIsKept'
    BY <1>2, <2>1 DEF DeadManIsKept
  <2> QED
    BY <2>2, <2>3, <2>4, <2>5, <2>6, <2>7 DEF RouterInv
<1>4. ASSUME GoesDown(r) PROVE RouterInv'
  <2>1. /\ UNCHANGED <<shut, from, sched, saved, kind, deploy>> /\ linked' = linked \ {r} /\ power[r] = "loading"
        /\ \A q \in Routers : power'[q] = IF q = r THEN "reverting" ELSE power[q]
    BY <1>1, <1>4 DEF GoesDown, DeployTypeOK
  <2>2. RunsAreKnown'
    BY <1>2, <2>1 DEF deploy, RunsAreKnown
  <2>3. StepFits'
    BY <1>2, <2>1 DEF deploy, StepFits
  <2>4. SessionIsHonest'
    BY <1>1, <1>2, <2>1 DEF deploy, SessionIsHonest, LockShut
  <2>5. BackupIsOpen'
    BY <1>2, <2>1 DEF BackupIsOpen
  <2>6. ArmedWhileSending'
    BY <1>1, <1>2, <2>1 DEF deploy, ArmedWhileSending
  <2>7. DeadManIsKept'
    BY <1>2, <2>1 DEF DeadManIsKept
  <2> QED
    BY <2>2, <2>3, <2>4, <2>5, <2>6, <2>7 DEF RouterInv
<1>5. ASSUME Boots(r) PROVE RouterInv'
  <2>1. /\ UNCHANGED <<saved, linked, kind, deploy>> /\ power[r] \in {"reverting", "wiping"}
        /\ \A q \in Routers : power'[q] = IF q = r THEN "up" ELSE power[q]
        /\ \A q \in Routers : from'[q] = IF q = r THEN 0 ELSE from[q]
    BY <1>1, <1>5 DEF Boots, DeployTypeOK
  <2>2. from[r] \in Runs /\ from[r] <= started
    BY <1>1, <1>2, <2>1, RunNumbers DEF RunsAreKnown, DeployTypeOK
  <2>3. /\ \A q \in Routers \ {r} : shut'[q] = shut[q] /\ sched'[q] = sched[q]
        /\ power[r] = "reverting" => shut'[r] = saved[r][from[r]].shut
        /\ power[r] = "wiping" => shut'[r] \in {0, from[r]}
        /\ \A n \in Runs : sched'[r][n] \in {"none", sched[r][n]}
    BY <1>1, <1>5, <2>2, BootsEffect
  <2>4. r \notin linked
    BY <1>2, <2>1 DEF SessionIsHonest
  <2>5. shut'[r] # 0 => kind[shut'[r]] # "lock"
    <3>1. CASE power[r] = "reverting"
      BY <1>2, <2>2, <2>3, <3>1 DEF BackupIsOpen
    <3>2. CASE power[r] = "wiping"
      BY <1>2, <2>2, <2>3, <3>2 DEF RunsAreKnown
    <3> QED
      BY <2>1, <3>1, <3>2
  <2>6. RunsAreKnown'
    <3>1. shut'[r] <= started
      <4>1. CASE power[r] = "reverting"
        BY <1>2, <2>2, <2>3, <4>1 DEF RunsAreKnown
      <4>2. CASE power[r] = "wiping"
        BY <1>1, <2>2, <2>3, <4>2
      <4> QED
        BY <2>1, <4>1, <4>2
    <3>2. \A q \in Routers : \A n \in Runs : sched'[q][n] \in {"none", sched[q][n]}
      BY <2>3
    <3> QED
      BY <1>1, <1>2, <2>1, <2>3, <3>1, <3>2 DEF deploy, RunsAreKnown
  <2>7. StepFits'
    BY <1>2, <2>1 DEF deploy, StepFits
  <2>8. SessionIsHonest'
    BY <1>1, <1>2, <2>1, <2>3, <2>4 DEF deploy, SessionIsHonest, LockShut
  <2>9. BackupIsOpen'
    BY <1>2, <2>1 DEF BackupIsOpen
  <2>10. ArmedWhileSending'
    BY <1>1, <1>2, <2>1, <2>3, <2>4 DEF deploy, ArmedWhileSending
  <2>11. DeadManIsKept'
    <3>1. \A n \in Runs : shut'[r] = n => kind[n] # "lock"
      BY <2>5, RunNumbers
    <3> QED
      BY <1>2, <2>1, <2>3, <3>1 DEF DeadManIsKept
  <2> QED
    BY <2>6, <2>7, <2>8, <2>9, <2>10, <2>11 DEF RouterInv
<1>6. ASSUME Unlink(r) \/ Link(r) PROVE RouterInv'
  <2>1. /\ UNCHANGED <<shut, power, from, sched, saved, kind, deploy>>
        /\ \A q \in linked' : q \in linked \/ (q = r /\ Login(r) /\ ~ (at = r /\ pc = "import"))
    BY <1>6 DEF Unlink, Link, router
  <2>2. RunsAreKnown'
    BY <1>2, <2>1 DEF deploy, RunsAreKnown
  <2>3. StepFits'
    BY <1>2, <2>1 DEF deploy, StepFits
  <2>4. SessionIsHonest'
    BY <1>2, <2>1 DEF deploy, SessionIsHonest, LockShut, Login
  <2>5. BackupIsOpen'
    BY <1>2, <2>1 DEF BackupIsOpen
  <2>6. ArmedWhileSending'
    BY <1>2, <2>1 DEF deploy, ArmedWhileSending
  <2>7. DeadManIsKept'
    BY <1>2, <2>1 DEF DeadManIsKept
  <2> QED
    BY <2>2, <2>3, <2>4, <2>5, <2>6, <2>7 DEF RouterInv
<1> QED
  BY <1>3, <1>4, <1>5, <1>6 DEF RouterStep

\* A new run says what it is before anything refers to it.
LEMMA StartKeeps ==
    ASSUME JobInv, RouterInv, NEW p, Start(p)
    PROVE  RouterInv'
<1>1. DeployTypeOK /\ started \in RunOrNone /\ started \in Int /\ started' = started + 1 /\ started + 1 \in Runs
  BY RunNumbers, RunsAssumption DEF Start, JobInv, TypeOK
<1>2. RunsAreKnown /\ StepFits /\ SessionIsHonest /\ BackupIsOpen /\ ArmedWhileSending /\ DeadManIsKept
  BY DEF RouterInv
<1>3. UNCHANGED <<router, linked, deploy>> /\ pc = "idle" /\ dm = "none"
  BY <1>2 DEF Start, JobInv, JobFits, StepFits, Finished
<1>4. \A n \in Runs : n <= started => kind'[n] = kind[n]
  BY <1>1 DEF Start, DeployTypeOK
<1>5. \A r \in Routers : /\ shut[r] \in RunOrNone /\ from[r] \in RunOrNone
                         /\ \A n \in Runs : saved[r][n].shut \in RunOrNone
  BY <1>1 DEF DeployTypeOK, Backup
<1>6. RunsAreKnown'
  <2>1. \A n \in RunOrNone \cup Runs : n <= started => n <= started + 1
    BY <1>1, RunNumbers
  <2>2. run \in RunOrNone
    BY <1>1 DEF DeployTypeOK
  <2>3. run <= started + 1 /\ \A r \in Routers : shut[r] <= started + 1 /\ from[r] <= started + 1
    BY <1>2, <1>5, <2>1, <2>2 DEF RunsAreKnown
  <2>4. \A r \in Routers : \A n \in Runs :
          saved[r][n].shut <= started + 1 /\ (sched[r][n] # "none" => n <= started + 1)
    BY <1>2, <1>5, <2>1 DEF RunsAreKnown
  <2>5. \A r \in Routers : power[r] = "wiping" => kind'[from[r]] = "reset"
    BY <1>2, <1>4, <1>5, RunNumbers DEF RunsAreKnown
  <2> QED
    BY <1>1, <1>2, <1>3, <2>3, <2>4, <2>5 DEF router, deploy, RunsAreKnown
<1>7. StepFits'
  BY <1>3 DEF deploy, StepFits
<1>8. SessionIsHonest'
  <2>1. \A r \in linked : r \in Routers /\ ~ LockShut(r)
    BY <1>1, <1>2, <1>3 DEF SessionIsHonest, DeployTypeOK
  <2>2. \A r \in linked : shut[r] # 0 => kind'[shut[r]] # "lock"
    BY <1>2, <1>4, <1>5, <2>1, RunNumbers DEF LockShut, RunsAreKnown
  <2> QED
    BY <1>2, <1>3, <2>2 DEF router, SessionIsHonest, LockShut
<1>9. BackupIsOpen'
  <2>1. \A r \in Routers : \A n \in Runs : saved[r][n].shut # 0 => kind'[saved[r][n].shut] # "lock"
    BY <1>2, <1>4, <1>5, RunNumbers DEF BackupIsOpen, RunsAreKnown
  <2> QED
    BY <1>3, <2>1 DEF router, BackupIsOpen
<1>10. ArmedWhileSending'
  BY <1>3 DEF deploy, ArmedWhileSending
<1>11. DeadManIsKept'
  BY <1>2, <1>3, <1>4 DEF router, DeadManIsKept, RunsAreKnown
<1> QED
  BY <1>6, <1>7, <1>8, <1>9, <1>10, <1>11 DEF RouterInv

\* A router's turn begins and ends with nobody on a router that is shut.
LEMMA TurnKeeps ==
    ASSUME JobInv, RouterInv
    PROVE  Begin \/ Finish \/ Restart => RouterInv'
<1>1. RunsAreKnown /\ StepFits /\ SessionIsHonest /\ BackupIsOpen /\ ArmedWhileSending /\ DeadManIsKept
  BY DEF RouterInv
<1> DEFINE Turn == /\ UNCHANGED <<router, kind, started>> /\ linked' \in {linked, {}} /\ dm' = "none"
                   /\ pc' \in {"idle", "sweep", "over"} /\ run' \in {0, slot}
                   /\ linked' = {} \/ pc \in {"idle", "over"}
<1>2. Begin => Turn
  BY DEF Begin, JobInv, JobFits
<1>3. Finish => Turn
  BY DEF Finish, NoDeploy
<1>4. Restart => Turn
  <2>1. Restart => UNCHANGED <<router, kind, started>> /\ linked' = {} /\ NoDeploy
    BY DEF Restart
  <2> QED
    BY <2>1 DEF NoDeploy
<1> SUFFICES ASSUME Turn PROVE RouterInv'
  BY <1>2, <1>3, <1>4
<1>5. RunsAreKnown'
  <2>1. 0 <= started /\ slot <= started
    BY RunNumbers DEF JobInv, TypeOK, JobFits
  <2> QED
    BY <1>1, <2>1 DEF router, RunsAreKnown
<1>6. StepFits'
  BY DEF StepFits
<1>7. SessionIsHonest'
  BY <1>1 DEF router, SessionIsHonest, LockShut
<1>8. BackupIsOpen'
  BY <1>1 DEF router, BackupIsOpen
<1>9. ArmedWhileSending'
  BY DEF ArmedWhileSending
<1>10. DeadManIsKept'
  BY <1>1 DEF router, DeadManIsKept
<1> QED
  BY <1>5, <1>6, <1>7, <1>8, <1>9, <1>10 DEF RouterInv

\* The rest of what a run and people do is nothing to the routers.
LEMMA ElseKeeps ==
    ASSUME Record \/ NextRouter \/ Decided \/ Check \/ Continue \/ Cancel \/ SendYes \/ UNCHANGED vars
    PROVE  UNCHANGED <<router, linked, kind, deploy, started, history>>
BY DEF Record, NextRouter, Decided, Check, Continue, Cancel, SendYes, vars, jobvars

\* Every step keeps what the dead-man rests on.
LEMMA NextRouterInv == JobInv /\ RouterInv /\ [Next]_vars => RouterInv'
<1> SUFFICES ASSUME JobInv, RouterInv, [Next]_vars PROVE RouterInv'
  OBVIOUS
<1>1. ASSUME NEW p, Start(p) PROVE RouterInv'
  BY <1>1, StartKeeps
<1>2. ASSUME Deploying PROVE RouterInv'
  BY <1>2, DeployKeeps DEF Deploying, jobvars
<1>3. ASSUME NEW r \in Routers, External(r) PROVE RouterInv'
  BY <1>3, OutsideKeeps DEF External, jobvars
<1>4. ASSUME Begin \/ Finish \/ Restart PROVE RouterInv'
  BY <1>4, TurnKeeps
<1>5. ASSUME Record \/ NextRouter \/ Decided \/ Check \/ Continue \/ Cancel \/ SendYes \/ UNCHANGED vars PROVE RouterInv'
  <2>1. UNCHANGED <<router, linked, kind, deploy, started>>
    BY <1>5, ElseKeeps
  <2>2. RunsAreKnown' /\ StepFits'
    BY <2>1 DEF router, deploy, RouterInv, RunsAreKnown, StepFits
  <2>3. SessionIsHonest' /\ BackupIsOpen'
    BY <2>1 DEF router, deploy, RouterInv, SessionIsHonest, LockShut, BackupIsOpen
  <2>4. ArmedWhileSending' /\ DeadManIsKept'
    BY <2>1 DEF router, deploy, RouterInv, ArmedWhileSending, DeadManIsKept
  <2> QED
    BY <2>2, <2>3, <2>4 DEF RouterInv
<1> QED
  BY <1>1, <1>2, <1>3, <1>4, <1>5 DEF Next, JobStep

-----------------------------------------------------------------------------
(* What is on the routers *)

\* A deploy leaves traces of its own run on its own router, and no other; and
\* what it says of them is true at each of its steps.
Spreads == \A r \in Routers : \A n \in Runs : Trace(r, n)' => Trace(r, n) \/ (r = at /\ n = run)

LEMMA DeployTraces ==
    ASSUME JobInv, RouterInv, NoTraceYet, DeployStep
    PROVE  Spreads /\ NoTraceYet'
<1>1. /\ DeployTypeOK /\ at \in Routers /\ run \in Runs /\ run # 0 /\ pc # "idle"
      /\ at' = at /\ run' = run /\ kind' = kind
  BY OrderFacts, DeployStays, RunNumbers DEF JobInv, TypeOK
<1>2. RunsAreKnown /\ StepFits /\ NotBackedUp /\ NotBegun /\ NotSent /\ PutBack
  BY DEF RouterInv, NoTraceYet
<1>3. /\ \A s \in Ended : \A a \in Amount : Outcome(s, a).state = s
      /\ out \in [state : Ended, applied : Amount] /\ NoBackup.holds.run = 0
  BY <1>1, ConstantTypes DEF DeployTypeOK
<1>4. ASSUME Sweep PROVE Spreads /\ NoTraceYet'
  <2>1. \A r \in Routers : \A n \in Runs : saved'[r][n] = saved[r][n] \/ saved'[r][n] = NoBackup
    BY <1>1, <1>4, SweepEffect DEF Sweep
  <2>2. Spreads
    <3>1. \A n \in Runs : n # 0
      BY RunNumbers
    <3> QED
      BY <1>1, <1>3, <1>4, <2>1, <3>1 DEF Sweep, Spreads, Trace
  <2>3. NotBackedUp'
    BY <1>1, <1>2, <1>3, <1>4, <2>1 DEF Sweep, Goto, NotBackedUp
  <2>4. NotBegun'
    BY <1>1, <1>2, <1>3, <1>4, <2>1 DEF Sweep, Goto, NotBegun, StepFits, Trace, Nothing, Ended, Amount
  <2>5. NotSent'
    BY <1>1, <1>2, <1>3, <1>4, <2>1 DEF Sweep, Goto, NotSent, NotBegun, StepFits, Trace
  <2>6. PutBack'
    BY <1>1, <1>2, <1>3, <1>4, <2>1 DEF Sweep, Goto, PutBack, StepFits
  <2> QED
    BY <2>2, <2>3, <2>4, <2>5, <2>6 DEF NoTraceYet
<1>5. ASSUME Preflight PROVE Spreads /\ NoTraceYet'
  <2>1. Spreads
    BY <1>1, <1>2, <1>3, <1>5 DEF Preflight, AdditionsReady, ResetReady, Goto, Ends, router, Spreads, Trace
  <2>2. NotBackedUp'
    BY <1>1, <1>2, <1>3, <1>5 DEF Preflight, AdditionsReady, ResetReady, Goto, Ends, router, NotBackedUp
  <2>3. NotBegun'
    BY <1>1, <1>2, <1>3, <1>5 DEF Preflight, AdditionsReady, ResetReady, Goto, Ends, router, NotBegun, StepFits, Trace, Nothing, Ended, Amount
  <2>4. NotSent'
    BY <1>1, <1>2, <1>3, <1>5 DEF Preflight, AdditionsReady, ResetReady, Goto, Ends, router, NotSent, NotBegun, StepFits, Trace
  <2>5. PutBack'
    BY <1>1, <1>2, <1>3, <1>5 DEF Preflight, AdditionsReady, ResetReady, Goto, Ends, router, PutBack, StepFits
  <2> QED
    BY <2>1, <2>2, <2>3, <2>4, <2>5 DEF NoTraceYet
<1>6. ASSUME Arm PROVE Spreads /\ NoTraceYet'
  <2>1. \A r \in Routers : \A n \in Runs :
          saved'[r][n] = saved[r][n] \/ (r = at /\ saved'[r][n].holds = holds[at])
    BY <1>1, <1>6, ArmedEffect DEF Arm
  <2>2. ~ booted'[at]
    BY <1>1, <1>6 DEF Arm, DeployTypeOK
  <2>3. Spreads
    BY <1>1, <1>2, <1>3, <1>6, <2>1, <2>2 DEF Arm, Armed, Goto, Spreads, Trace
  <2>4. NotBackedUp'
    BY <1>1, <1>2, <1>6, <2>1 DEF Arm, NotBackedUp, NotBegun, Trace
  <2>5. NotBegun'
    BY <1>1, <1>2, <1>3, <1>6, <2>1, <2>2 DEF Arm, Armed, Goto, NotBegun, StepFits, Trace, Nothing, Ended, Amount
  <2>6. NotSent'
    BY <1>1, <1>2, <1>3, <1>6, <2>1, <2>2 DEF Arm, Armed, Goto, NotSent, NotBegun, StepFits, Trace
  <2>7. PutBack'
    BY <1>1, <1>2, <1>3, <1>6, <2>1, <2>2 DEF Arm, Armed, Goto, PutBack, StepFits
  <2> QED
    BY <2>3, <2>4, <2>5, <2>6, <2>7 DEF NoTraceYet
<1>7. ASSUME ArmFails PROVE Spreads /\ NoTraceYet'
  <2>1. \A r \in Routers : \A n \in Runs :
          saved'[r][n] = saved[r][n] \/ (r = at /\ saved'[r][n].holds = holds[at])
    BY <1>1, <1>7, ArmedEffect DEF ArmFails
  <2>2. Spreads
    BY <1>1, <1>2, <1>3, <1>7, <2>1 DEF ArmFails, Armed, Goto, Ends, Spreads, Trace
  <2>3. NotBackedUp'
    BY <1>1, <1>2, <1>7, <2>1 DEF ArmFails, NotBackedUp, NotBegun, Trace
  <2>4. NotBegun'
    BY <1>1, <1>2, <1>3, <1>7, <2>1 DEF ArmFails, Armed, Goto, Ends, NotBegun, StepFits, Trace, Nothing, Ended, Amount
  <2>5. NotSent'
    BY <1>1, <1>2, <1>3, <1>7, <2>1 DEF ArmFails, Armed, Goto, Ends, NotSent, NotBegun, StepFits, Trace
  <2>6. PutBack'
    BY <1>1, <1>2, <1>3, <1>7, <2>1 DEF ArmFails, Armed, Goto, Ends, PutBack, StepFits
  <2> QED
    BY <2>2, <2>3, <2>4, <2>5, <2>6 DEF NoTraceYet
<1>8. ASSUME ImportPart PROVE Spreads /\ NoTraceYet'
  <2>1. Grown(holds[at], part) \in Holding /\ Grown(holds[at], part).run = run
        /\ Cut(holds[at]) \in Holding /\ Cut(holds[at]).run = run
    <3>1. \A w \in {"all", "some", "booted", "wiped"} : Held(run, w) \in Holding /\ Held(run, w).run = run
      BY <1>1, RunNumbers, ConstantTypes
    <3> QED
      BY <3>1 DEF Grown, Cut
  <2>2. /\ \A r \in Routers : holds'[r].run = holds[r].run \/ (r = at /\ holds'[r].run = run)
        /\ at \in linked
    BY <1>1, <1>8, <2>1, ImportsEffect DEF ImportPart
  <2>3. Spreads
    BY <1>1, <1>2, <1>3, <1>8, <2>1, <2>2 DEF ImportPart, Goto, Spreads, Trace
  <2>4. NotBackedUp'
    BY <1>1, <1>2, <1>3, <1>8, <2>1, <2>2 DEF ImportPart, Goto, NotBackedUp
  <2>5. NotBegun'
    BY <1>1, <1>2, <1>3, <1>8, <2>1, <2>2 DEF ImportPart, Goto, NotBegun, StepFits, Trace, Nothing, Ended, Amount
  <2>6. NotSent'
    <3>1. pc' = "import" => part' = part + 1 /\ part \in Nat \ {0}
      BY <1>1, <1>8 DEF ImportPart, Goto, DeployTypeOK
    <3> QED
      BY <3>1 DEF NotSent
  <2>7. PutBack'
    BY <1>1, <1>2, <1>3, <1>8, <2>1, <2>2 DEF ImportPart, Goto, PutBack, StepFits
  <2> QED
    BY <2>3, <2>4, <2>5, <2>6, <2>7 DEF NoTraceYet
<1>9. ASSUME ImportFails PROVE Spreads /\ NoTraceYet'
  <2>1. Grown(holds[at], part) \in Holding /\ Grown(holds[at], part).run = run
        /\ Cut(holds[at]) \in Holding /\ Cut(holds[at]).run = run
    <3>1. \A w \in {"all", "some", "booted", "wiped"} : Held(run, w) \in Holding /\ Held(run, w).run = run
      BY <1>1, RunNumbers, ConstantTypes
    <3> QED
      BY <3>1 DEF Grown, Cut
  <2>2. PICK a \in {"none", "partial", "unknown"} :
          /\ out' = ImportStops(a)
          /\ \/ UNCHANGED <<holds, shut, touched>>
             \/ a # "none" /\ at \in linked /\ (Imports(Cut(holds[at])) \/ Imports(Grown(holds[at], part)))
    BY <1>9 DEF ImportFails
  <2>3. \A r \in Routers : holds'[r] = holds[r] \/ (a # "none" /\ at \in linked /\ r = at /\ holds'[r].run = run)
    BY <1>1, <2>1, <2>2, ImportsEffect
  <2>4. /\ out'.state \in {"failed", "failed-partial", "unknown"}
        /\ out'.state = "failed" => a = "none" /\ part = 1 /\ kind[run] # "reset"
    BY <2>2, StopsType
  <2>5. Spreads
    BY <1>1, <1>2, <1>3, <1>9, <2>1, <2>2, <2>3, <2>4 DEF ImportFails, Goto, Spreads, Trace
  <2>6. NotBackedUp'
    BY <1>1, <1>2, <1>3, <1>9, <2>1, <2>2, <2>3, <2>4 DEF ImportFails, Goto, NotBackedUp
  <2>7. NotBegun'
    <3> SUFFICES ASSUME out'.state \in Nothing PROVE ~ Trace(at, run)'
      BY <1>1, <1>9 DEF ImportFails, Goto, NotBegun
    <3>1. a = "none" /\ part = 1 /\ kind[run] # "reset" /\ holds'[at] = holds[at]
      BY <1>1, <2>3, <2>4 DEF Nothing
    <3>2. holds[at].run # run /\ ~ (power[at] = "wiping" /\ from[at] = run) /\ UNCHANGED <<power, from, saved>>
      BY <1>1, <1>2, <1>9, <3>1 DEF ImportFails, NotSent, RunsAreKnown
    <3> QED
      BY <1>1, <1>2, <3>1, <3>2 DEF Trace, NotBackedUp
  <2>8. NotSent'
    BY <1>1, <1>2, <1>3, <1>9, <2>1, <2>2, <2>3, <2>4 DEF ImportFails, Goto, NotSent, NotBegun, StepFits, Trace
  <2>9. PutBack'
    BY <1>1, <1>2, <1>3, <1>9, <2>1, <2>2, <2>3, <2>4 DEF ImportFails, Goto, PutBack, StepFits
  <2> QED
    BY <2>5, <2>6, <2>7, <2>8, <2>9 DEF NoTraceYet
<1>10. ASSUME Reconnect PROVE Spreads /\ NoTraceYet'
  <2>1. Spreads
    BY <1>1, <1>2, <1>3, <1>10 DEF Reconnect, Login, Goto, Ends, LockedOut, ResetLockedOut, router, Spreads, Trace
  <2>2. NotBackedUp'
    BY <1>1, <1>2, <1>3, <1>10 DEF Reconnect, Login, Goto, Ends, LockedOut, ResetLockedOut, router, NotBackedUp
  <2>3. NotBegun'
    BY <1>1, <1>2, <1>3, <1>10 DEF Reconnect, Login, Goto, Ends, LockedOut, ResetLockedOut, router, NotBegun, StepFits, Trace, Nothing, Ended, Amount
  <2>4. NotSent'
    BY <1>1, <1>2, <1>3, <1>10 DEF Reconnect, Login, Goto, Ends, LockedOut, ResetLockedOut, router, NotSent, NotBegun, StepFits, Trace
  <2>5. PutBack'
    BY <1>1, <1>2, <1>3, <1>10 DEF Reconnect, Login, Goto, Ends, LockedOut, ResetLockedOut, router, PutBack, StepFits
  <2> QED
    BY <2>1, <2>2, <2>3, <2>4, <2>5 DEF NoTraceYet
<1>11. ASSUME DisarmPrint PROVE Spreads /\ NoTraceYet'
  <2>1. Spreads
    BY <1>1, <1>2, <1>3, <1>11 DEF DisarmPrint, Goto, Ends, LockedOut, ResetLockedOut, router, Spreads, Trace
  <2>2. NotBackedUp'
    BY <1>1, <1>2, <1>3, <1>11 DEF DisarmPrint, Goto, Ends, LockedOut, ResetLockedOut, router, NotBackedUp
  <2>3. NotBegun'
    BY <1>1, <1>2, <1>3, <1>11 DEF DisarmPrint, Goto, Ends, LockedOut, ResetLockedOut, router, NotBegun, StepFits, Trace, Nothing, Ended, Amount
  <2>4. NotSent'
    BY <1>1, <1>2, <1>3, <1>11 DEF DisarmPrint, Goto, Ends, LockedOut, ResetLockedOut, router, NotSent, NotBegun, StepFits, Trace
  <2>5. PutBack'
    BY <1>1, <1>2, <1>3, <1>11 DEF DisarmPrint, Goto, Ends, LockedOut, ResetLockedOut, router, PutBack, StepFits
  <2> QED
    BY <2>1, <2>2, <2>3, <2>4, <2>5 DEF NoTraceYet
<1>12. ASSUME DisarmRemove PROVE Spreads /\ NoTraceYet'
  <2>1. Spreads
    BY <1>1, <1>2, <1>3, <1>12 DEF DisarmRemove, Goto, Ends, LockedOut, ResetLockedOut, Spreads, Trace
  <2>2. NotBackedUp'
    BY <1>1, <1>2, <1>3, <1>12 DEF DisarmRemove, Goto, Ends, LockedOut, ResetLockedOut, NotBackedUp
  <2>3. NotBegun'
    BY <1>1, <1>2, <1>3, <1>12 DEF DisarmRemove, Goto, Ends, LockedOut, ResetLockedOut, NotBegun, StepFits, Trace, Nothing, Ended, Amount
  <2>4. NotSent'
    BY <1>1, <1>2, <1>3, <1>12 DEF DisarmRemove, Goto, Ends, LockedOut, ResetLockedOut, NotSent, NotBegun, StepFits, Trace
  <2>5. PutBack'
    BY <1>1, <1>2, <1>3, <1>12 DEF DisarmRemove, Goto, Ends, LockedOut, ResetLockedOut, PutBack, StepFits
  <2> QED
    BY <2>1, <2>2, <2>3, <2>4, <2>5 DEF NoTraceYet
<1>13. ASSUME Reverted PROVE Spreads /\ NoTraceYet'
  <2>1. Spreads
    BY <1>1, <1>2, <1>3, <1>13 DEF Reverted, Goto, Ends, Login, router, Spreads, Trace
  <2>2. NotBackedUp'
    BY <1>1, <1>2, <1>3, <1>13 DEF Reverted, Goto, Ends, Login, router, NotBackedUp
  <2>3. NotBegun'
    <3>1. holds[at].run # run /\ power[at] # "wiping" /\ \A m \in Runs : saved[at][m].holds.run # run
      BY <1>1, <1>2, <1>13 DEF Reverted, Login, StepFits, PutBack, NotBackedUp
    <3> QED
      BY <1>1, <1>13, <3>1 DEF Reverted, router, NotBegun, Trace
  <2>4. NotSent'
    BY <1>1, <1>2, <1>3, <1>13 DEF Reverted, Goto, Ends, Login, router, NotSent, NotBegun, StepFits, Trace
  <2>5. PutBack'
    BY <1>1, <1>2, <1>3, <1>13 DEF Reverted, Goto, Ends, Login, router, PutBack, StepFits
  <2> QED
    BY <2>1, <2>2, <2>3, <2>4, <2>5 DEF NoTraceYet
<1>14. ASSUME NotReverted PROVE Spreads /\ NoTraceYet'
  <2>1. Spreads
    BY <1>1, <1>2, <1>3, <1>14 DEF NotReverted, Goto, Ends, router, Spreads, Trace
  <2>2. NotBackedUp'
    BY <1>1, <1>2, <1>3, <1>14 DEF NotReverted, Goto, Ends, router, NotBackedUp
  <2>3. NotBegun'
    BY <1>1, <1>2, <1>3, <1>14 DEF NotReverted, Goto, Ends, router, NotBegun, StepFits, Trace, Nothing, Ended, Amount
  <2>4. NotSent'
    BY <1>1, <1>2, <1>3, <1>14 DEF NotReverted, Goto, Ends, router, NotSent, NotBegun, StepFits, Trace
  <2>5. PutBack'
    BY <1>1, <1>2, <1>3, <1>14 DEF NotReverted, Goto, Ends, router, PutBack, StepFits
  <2> QED
    BY <2>1, <2>2, <2>3, <2>4, <2>5 DEF NoTraceYet
<1>15. ASSUME Reset PROVE Spreads /\ NoTraceYet'
  <2>1. \/ UNCHANGED <<power, from>>
        \/ power' = [power EXCEPT ![at] = "wiping"] /\ from' = [from EXCEPT ![at] = run]
    BY <1>15 DEF Reset
  <2>2. \A r \in Routers : \/ power'[r] = power[r] /\ from'[r] = from[r]
                           \/ r = at /\ power'[r] = "wiping" /\ from'[r] = run
    BY <1>1, <2>1 DEF DeployTypeOK
  <2>3. ~ booted'[at]
    BY <1>1, <1>15 DEF Reset, DeployTypeOK
  <2>4. Spreads
    BY <1>1, <1>2, <1>3, <1>15, <2>1, <2>2, <2>3 DEF Reset, Goto, Spreads, Trace
  <2>5. NotBackedUp'
    BY <1>1, <1>2, <1>3, <1>15, <2>1, <2>2, <2>3 DEF Reset, Goto, NotBackedUp
  <2>6. NotBegun'
    BY <1>1, <1>2, <1>3, <1>15, <2>1, <2>2, <2>3 DEF Reset, Goto, NotBegun, StepFits, Trace, Nothing, Ended, Amount
  <2>7. NotSent'
    BY <1>1, <1>2, <1>3, <1>15, <2>1, <2>2, <2>3 DEF Reset, Goto, NotSent, NotBegun, StepFits, Trace
  <2>8. PutBack'
    BY <1>1, <1>2, <1>3, <1>15, <2>1, <2>2, <2>3 DEF Reset, Goto, PutBack, StepFits
  <2> QED
    BY <2>4, <2>5, <2>6, <2>7, <2>8 DEF NoTraceYet
<1>16. ASSUME CameBack PROVE Spreads /\ NoTraceYet'
  <2>1. Spreads
    BY <1>1, <1>2, <1>3, <1>16 DEF CameBack, Goto, router, Spreads, Trace
  <2>2. NotBackedUp'
    BY <1>1, <1>2, <1>3, <1>16 DEF CameBack, Goto, router, NotBackedUp
  <2>3. NotBegun'
    BY <1>1, <1>2, <1>3, <1>16 DEF CameBack, Goto, router, NotBegun, StepFits, Trace, Nothing, Ended, Amount
  <2>4. NotSent'
    BY <1>1, <1>2, <1>3, <1>16 DEF CameBack, Goto, router, NotSent, NotBegun, StepFits, Trace
  <2>5. PutBack'
    BY <1>1, <1>2, <1>3, <1>16 DEF CameBack, Goto, router, PutBack, StepFits
  <2> QED
    BY <2>1, <2>2, <2>3, <2>4, <2>5 DEF NoTraceYet
<1>17. ASSUME BootstrapLog PROVE Spreads /\ NoTraceYet'
  <2>1. Spreads
    BY <1>1, <1>2, <1>3, <1>17 DEF BootstrapLog, Goto, router, Spreads, Trace
  <2>2. NotBackedUp'
    BY <1>1, <1>2, <1>3, <1>17 DEF BootstrapLog, Goto, router, NotBackedUp
  <2>3. NotBegun'
    BY <1>1, <1>2, <1>3, <1>17 DEF BootstrapLog, Goto, router, NotBegun, StepFits, Trace, Nothing, Ended, Amount
  <2>4. NotSent'
    BY <1>1, <1>2, <1>3, <1>17 DEF BootstrapLog, Goto, router, NotSent, NotBegun, StepFits, Trace
  <2>5. PutBack'
    BY <1>1, <1>2, <1>3, <1>17 DEF BootstrapLog, Goto, router, PutBack, StepFits
  <2> QED
    BY <2>1, <2>2, <2>3, <2>4, <2>5 DEF NoTraceYet
<1>18. ASSUME LastSweep PROVE Spreads /\ NoTraceYet'
  <2>1. \A r \in Routers : \A n \in Runs : saved'[r][n] = saved[r][n] \/ saved'[r][n] = NoBackup
    BY <1>1, <1>18, SweepEffect DEF LastSweep
  <2>2. Spreads
    <3>1. \A n \in Runs : n # 0
      BY RunNumbers
    <3> QED
      BY <1>1, <1>3, <1>18, <2>1, <3>1 DEF LastSweep, Spreads, Trace
  <2>3. NotBackedUp'
    BY <1>1, <1>2, <1>3, <1>18, <2>1 DEF LastSweep, Goto, NotBackedUp
  <2>4. NotBegun'
    BY <1>1, <1>2, <1>3, <1>18, <2>1 DEF LastSweep, Goto, NotBegun, StepFits, Trace, Nothing, Ended, Amount
  <2>5. NotSent'
    BY <1>1, <1>2, <1>3, <1>18, <2>1 DEF LastSweep, Goto, NotSent, NotBegun, StepFits, Trace
  <2>6. PutBack'
    BY <1>1, <1>2, <1>3, <1>18, <2>1 DEF LastSweep, Goto, PutBack, StepFits
  <2> QED
    BY <2>2, <2>3, <2>4, <2>5, <2>6 DEF NoTraceYet
<1> QED
  BY <1>4, <1>5, <1>6, <1>7, <1>8, <1>9, <1>10, <1>11, <1>12, <1>13, <1>14, <1>15, <1>16, <1>17, <1>18 DEF DeployStep

\* What happens to a router meanwhile leaves no trace of any run, and after a
\* boot there is none of the deploy in progress.
LEMMA OutsideTraces ==
    ASSUME JobInv, RouterInv, NoTraceYet, NEW q \in Routers, RouterStep(q) \/ Unlink(q) \/ Link(q)
    PROVE  (\A r \in Routers : \A n \in Runs : Trace(r, n)' => Trace(r, n)) /\ NoTraceYet'
<1>1. DeployTypeOK /\ (pc # "idle" => at \in Routers /\ run \in Runs)
  BY OrderFacts DEF JobInv, TypeOK
<1>2. RunsAreKnown /\ StepFits /\ SessionIsHonest /\ NotBackedUp /\ NotBegun /\ NotSent /\ PutBack
  BY DEF RouterInv, NoTraceYet
<1>3. UNCHANGED <<saved, kind, deploy>>
  BY DEF RouterStep, Fires, GoesDown, Boots, Unlink, Link, router
<1>4. ASSUME ~ Boots(q)
      PROVE  /\ UNCHANGED <<holds, booted>>
             /\ \A r \in Routers : power'[r] = "wiping" => power[r] = "wiping" /\ from'[r] = from[r]
             /\ pc = "import" /\ at \in linked' => at \in linked
  <2>1. CASE \E m \in Runs : Fires(q, m)
    BY <1>1, <2>1 DEF Fires, DeployTypeOK
  <2>2. CASE GoesDown(q)
    BY <1>1, <2>2 DEF GoesDown, DeployTypeOK
  <2>3. CASE Unlink(q) \/ Link(q)
    BY <2>3 DEF Unlink, Link, router
  <2> QED
    BY <1>4, <2>1, <2>2, <2>3 DEF RouterStep
<1>5. ASSUME Boots(q)
      PROVE  /\ UNCHANGED linked /\ power[q] \in {"reverting", "wiping"} /\ power'[q] = "up" /\ from[q] \in Runs
             /\ \A r \in Routers \ {q} : /\ holds'[r] = holds[r] /\ booted'[r] = booted[r]
                                         /\ power'[r] = power[r] /\ from'[r] = from[r]
             /\ power[q] = "reverting" => holds'[q] = saved[q][from[q]].holds
             /\ power[q] = "wiping" => holds'[q].run = from[q] /\ kind[from[q]] = "reset"
  <2>1. from[q] \in Runs
    BY <1>1, <1>2, <1>5, RunNumbers DEF Boots, RunsAreKnown, DeployTypeOK
  <2>2. /\ UNCHANGED linked /\ power'[q] = "up"
        /\ \A r \in Routers \ {q} : booted'[r] = booted[r] /\ power'[r] = power[r] /\ from'[r] = from[r]
    BY <1>1, <1>5 DEF Boots, DeployTypeOK
  <2>3. /\ power[q] \in {"reverting", "wiping"} /\ \A r \in Routers \ {q} : holds'[r] = holds[r]
        /\ power[q] = "reverting" => holds'[q] = saved[q][from[q]].holds
        /\ power[q] = "wiping" => holds'[q].run = from[q]
    BY <1>1, <1>5, <2>1, BootsEffect
  <2> QED
    BY <1>2, <2>1, <2>2, <2>3 DEF RunsAreKnown
<1>6. \A r \in Routers : \A n \in Runs : Trace(r, n)' => Trace(r, n)
  <2>1. CASE ~ Boots(q)
    BY <1>3, <1>4, <2>1 DEF Trace
  <2>2. CASE Boots(q)
    <3>1. \A r \in Routers \ {q} : \A n \in Runs : Trace(r, n)' => Trace(r, n)
      BY <1>3, <1>5, <2>2 DEF Trace
    <3>2. \A n \in Runs : Trace(q, n)' => Trace(q, n)
      BY <1>3, <1>5, <2>2 DEF Trace
    <3> QED
      BY <3>1, <3>2
  <2> QED
    BY <2>1, <2>2
<1>7. NotBackedUp'
  BY <1>2, <1>3 DEF deploy, NotBackedUp
<1>8. NotBegun'
  <2>1. pc # "idle" => (Trace(at, run)' => Trace(at, run))
    <3>1. ASSUME NEW a \in Routers, NEW n \in Runs, at = a, run = n, Trace(at, run)' PROVE Trace(a, n)
      <4>1. at' = a /\ run' = n
        BY <1>3, <3>1 DEF deploy
      <4>2. Trace(a, n)'
        BY <3>1, <4>1 DEF Trace
      <4> QED
        BY <1>6, <4>2
    <3> QED
      BY <1>1, <3>1
  <2> QED
    BY <1>2, <1>3, <2>1 DEF deploy, NotBegun
<1>9. ASSUME pc # "idle", kind[run] # "reset", Boots(q), at = q PROVE holds'[q].run # run
  BY <1>1, <1>2, <1>5, <1>9 DEF NotBackedUp
<1>10. NotSent'
  <2>1. CASE ~ Boots(q)
    BY <1>2, <1>3, <1>4, <2>1 DEF deploy, NotSent
  <2>2. CASE Boots(q)
    BY <1>1, <1>2, <1>3, <1>5, <1>9, <2>2 DEF deploy, NotSent
  <2> QED
    BY <2>1, <2>2
<1>11. PutBack'
  <2>1. CASE ~ Boots(q)
    BY <1>2, <1>3, <1>4, <2>1 DEF deploy, PutBack
  <2>2. CASE Boots(q)
    <3>1. dm # "none" => pc # "idle" /\ kind[run] # "reset"
      BY <1>2 DEF StepFits
    <3>2. q \notin linked'
      BY <1>2, <1>5, <2>2 DEF SessionIsHonest
    <3>3. CASE at = q
      BY <1>3, <1>9, <2>2, <3>1, <3>2, <3>3 DEF deploy, PutBack
    <3>4. CASE at # q
      BY <1>1, <1>2, <1>3, <1>5, <2>2, <3>1, <3>4 DEF deploy, PutBack
    <3> QED
      BY <3>3, <3>4
  <2> QED
    BY <2>1, <2>2
<1> QED
  BY <1>6, <1>7, <1>8, <1>10, <1>11 DEF NoTraceYet

\* A record that says no more than before of routers nothing happens to.
LEMMA SameTraces ==
    ASSUME NoTrace, UNCHANGED router,
           \A n \in Runs : \A r \in Routers :
              rec'[n].target[r].state \in Nothing => rec[n].target[r].state \in Nothing \/ ~ Trace(r, n)
    PROVE  NoTrace'
<1>1. \A n \in Runs : \A r \in Routers : Trace(r, n)' => Trace(r, n)
  BY DEF router, Trace
<1> QED
  BY <1>1 DEF NoTrace

-----------------------------------------------------------------------------
(* The record *)

\* What is not begun is passed over.
Passed(v) == IF v = "pending" THEN "not-attempted" ELSE v

\* Between two routers nothing happens to any of them; the record keeps its
\* verdicts, or the run is stopped and what is not begun is passed over.
BetweenRouters ==
    /\ slot \in Runs /\ UNCHANGED <<router, linked, kind, deploy, history, slot, started, order, people>>
    /\ job \notin {"none", "record", "deploy"} /\ \A n \in Runs \ {slot} : rec'[n] = rec[n]
    /\ rec'[slot].order = rec[slot].order
    /\ \A r \in Routers : rec[slot].target[r].state # "applying"
    /\ \/ \A r \in Routers : rec'[slot].target[r].state = rec[slot].target[r].state
       \/ \A r \in Routers : rec'[slot].target[r].state = Passed(rec[slot].target[r].state)

\* The routers from here on are the pending ones, and none is being worked on.
LEMMA PendingRest ==
    ASSUME JobInv, job \notin {"none", "record", "deploy"}
    PROVE  /\ \A r \in Routers : (\E k \in i .. Len(order) : order[k] = r) <=> rec[slot].target[r].state = "pending"
           /\ \A r \in Routers : rec[slot].target[r].state # "applying"
<1>1. /\ Len(order) \in Nat /\ DOMAIN order = 1 .. Len(order) /\ i \in Nat \ {0}
      /\ \A k \in DOMAIN order : order[k] \in Routers
  BY OrderFacts DEF JobInv, TypeOK
<1>2. \A k \in DOMAIN order : rec[slot].target[order[k]].state = IF k < i THEN "applied" ELSE "pending"
  <2> SUFFICES ASSUME NEW k \in DOMAIN order
               PROVE  rec[slot].target[order[k]].state = IF k < i THEN "applied" ELSE "pending"
    OBVIOUS
  <2>1. k < i \/ k = i \/ k > i
    BY <1>1
  <2> QED
    BY <1>1, <2>1 DEF JobInv, InOrder
<1>3. \A r \in Routers : (\A k \in DOMAIN order : order[k] # r) => rec[slot].target[r].state = "none"
  BY DEF JobInv, InOrder
<1>4. \A k \in DOMAIN order : k >= i <=> k \in i .. Len(order)
  BY <1>1
<1>5. \A k \in i .. Len(order) : k \in DOMAIN order /\ ~ (k < i)
  BY <1>1
<1>6. ASSUME NEW r \in Routers
      PROVE  /\ (\E k \in i .. Len(order) : order[k] = r) <=> rec[slot].target[r].state = "pending"
             /\ rec[slot].target[r].state # "applying"
  <2>1. CASE \A k \in DOMAIN order : order[k] # r
    BY <1>3, <1>5, <2>1
  <2>2. CASE \E k \in DOMAIN order : order[k] = r
    <3>1. PICK k \in DOMAIN order : order[k] = r
      BY <2>2
    <3>2. CASE k < i
      <4>1. rec[slot].target[r].state = "applied"
        BY <1>2, <3>1, <3>2
      <4>2. \A j \in i .. Len(order) : rec[slot].target[order[j]].state = "pending"
        BY <1>2, <1>5
      <4> QED
        BY <4>1, <4>2
    <3>3. CASE ~ (k < i)
      <4>1. rec[slot].target[r].state = "pending"
        BY <1>2, <3>1, <3>3
      <4>2. k \in i .. Len(order)
        BY <1>1, <3>1, <3>3
      <4> QED
        BY <3>1, <4>1, <4>2
    <3> QED
      BY <3>2, <3>3
  <2> QED
    BY <2>1, <2>2
<1> QED
  BY <1>6

\* A stop passes over what is pending.
LEMMA StopPasses ==
    ASSUME JobInv, job \notin {"none", "record", "deploy"}, NEW s \in Finished,
           StopRest(rec[slot].target, i, s)
    PROVE  /\ \A n \in Runs \ {slot} : rec'[n] = rec[n]
           /\ rec'[slot].order = rec[slot].order
           /\ \A r \in Routers : rec'[slot].target[r].state = Passed(rec[slot].target[r].state)
           /\ job' = "none"
<1> DEFINE T == rec[slot].target
<1>1. TypeOK /\ slot \in Runs /\ T \in [Routers -> TargetRow] /\ i \in Nat /\ StopRest(T, i, s)
  BY OrderFacts DEF JobInv, TypeOK, RunRecord
<1> HIDE DEF T
<1>2. /\ state' = s /\ job' = "none" /\ i' = 1 /\ decide' = "empty" /\ cancelled' = FALSE /\ sending' = FALSE
      /\ rec' \in [Runs -> RunRecord] /\ rec'[slot].state = s /\ rec'[slot].order = rec[slot].order
      /\ \A r \in Routers : rec'[slot].target[r] =
           IF \E k \in i .. Len(order) : order[k] = r THEN Target("not-attempted", "none") ELSE T[r]
      /\ \A n \in Runs \ {slot} : rec'[n] = rec[n]
  BY <1>1, StopEffect
<1>3. \A r \in Routers : (\E k \in i .. Len(order) : order[k] = r) <=> rec[slot].target[r].state = "pending"
  BY PendingRest
<1>4. Target("not-attempted", "none").state = "not-attempted"
  BY DEF Target
<1> QED
  BY <1>2, <1>3, <1>4 DEF T, Passed

LEMMA Between == ASSUME JobInv PROVE NextRouter \/ Decided \/ Check => BetweenRouters
<1>1. ASSUME NextRouter \/ Decided \/ Check
      PROVE  /\ job \notin {"none", "record", "deploy"} /\ slot \in Runs
             /\ UNCHANGED <<router, linked, kind, deploy, history, slot, started, order, people>>
  <2>1. /\ job \notin {"none", "record", "deploy"}
        /\ UNCHANGED <<router, linked, kind, deploy, history, slot, started, order, people>>
    BY <1>1 DEF NextRouter, Decided, Check
  <2> QED
    BY <2>1, OrderFacts DEF JobInv
<1>2. TypeOK /\ (slot \in Runs => rec[slot].target \in [Routers -> TargetRow])
  BY DEF JobInv, TypeOK, RunRecord
<1>3. ASSUME NextRouter \/ Decided \/ Check,
             \/ UNCHANGED rec
             \/ \E s \in RunState : SetState(s, rec[slot].target)
             \/ \E s \in Finished : StopRest(rec[slot].target, i, s)
      PROVE  BetweenRouters
  <2>1. \A r \in Routers : rec[slot].target[r].state # "applying"
    BY <1>1, <1>3, PendingRest
  <2>2. CASE UNCHANGED rec
    BY <1>1, <1>3, <2>1, <2>2 DEF BetweenRouters
  <2>3. CASE \E s \in RunState : SetState(s, rec[slot].target)
    <3>1. PICK s \in RunState : SetState(s, rec[slot].target)
      BY <2>3
    <3>2. /\ rec'[slot].order = rec[slot].order /\ rec'[slot].target = rec[slot].target
          /\ \A n \in Runs \ {slot} : rec'[n] = rec[n]
      BY <1>1, <1>2, <1>3, <3>1, SetStateEffect
    <3> QED
      BY <1>1, <1>3, <2>1, <3>2 DEF BetweenRouters
  <2>4. CASE \E s \in Finished : StopRest(rec[slot].target, i, s)
    <3>1. PICK s \in Finished : StopRest(rec[slot].target, i, s)
      BY <2>4
    <3>2. /\ \A n \in Runs \ {slot} : rec'[n] = rec[n]
          /\ rec'[slot].order = rec[slot].order
          /\ \A r \in Routers : rec'[slot].target[r].state = Passed(rec[slot].target[r].state)
      BY <1>1, <1>3, <3>1, StopPasses
    <3> QED
      BY <1>1, <1>3, <2>1, <3>2 DEF BetweenRouters
  <2> QED
    BY <1>3, <2>2, <2>3, <2>4
<1>4. {"cancelled", "halted", "done"} \subseteq Finished /\ {"done", "awaiting-canary", "rolling"} \subseteq RunState
  BY DEF Finished, RunState
<1>5. NextRouter => BetweenRouters
  <2>1. NextRouter => \/ UNCHANGED rec
                      \/ SetState("done", rec[slot].target) \/ SetState("awaiting-canary", rec[slot].target)
    BY DEF NextRouter, Over
  <2> QED
    BY <1>3, <1>4, <2>1
<1>6. Decided => BetweenRouters
  <2>1. Decided => SetState("rolling", rec[slot].target) \/ StopRest(rec[slot].target, i, "cancelled")
    BY DEF Decided
  <2> QED
    BY <1>3, <1>4, <2>1
<1>7. Check => BetweenRouters
  <2>1. Check => \/ UNCHANGED rec
                 \/ StopRest(rec[slot].target, i, "cancelled") \/ StopRest(rec[slot].target, i, "halted")
    BY DEF Check
  <2> QED
    BY <1>3, <1>4, <2>1
<1> QED
  BY <1>5, <1>6, <1>7

\* When a router is finished with, the others keep their verdicts, or those
\* that are not begun are passed over.
LEMMA FinishVerdicts ==
    ASSUME JobInv, Finish
    PROVE  /\ slot \in Runs /\ at = order[i] /\ i \in DOMAIN order /\ \A n \in Runs \ {slot} : rec'[n] = rec[n]
           /\ rec'[slot].order = rec[slot].order /\ rec[slot].target[at].state = "applying"
           /\ \A r \in Routers : rec'[slot].target[r].state =
                IF r = at THEN out.state
                ELSE IF out.state = "applied" THEN rec[slot].target[r].state
                ELSE Passed(rec[slot].target[r].state)
<1>1. TypeOK /\ JobFits /\ InOrder
  BY DEF JobInv
<1>2. /\ slot \in Runs /\ i \in DOMAIN order /\ at = order[i]
      /\ rec'[slot].order = rec[slot].order /\ \A n \in Runs \ {slot} : rec'[n] = rec[n]
      /\ rec'[slot].target[at].state = out.state
      /\ \/ /\ out.state = "applied" /\ \A r \in Routers \ {at} : rec'[slot].target[r] = rec[slot].target[r]
         \/ /\ out.state # "applied"
            /\ \A r \in Routers \ {at} : rec'[slot].target[r] =
                 IF \E k \in i + 1 .. Len(order) : order[k] = r THEN Target("not-attempted", "none")
                                                                ELSE rec[slot].target[r]
  BY <1>1, FinishEffect
<1>3. job = "deploy" /\ Len(order) \in Nat /\ DOMAIN order = 1 .. Len(order) /\ i \in Nat \ {0}
  BY <1>1, OrderFacts DEF Finish, TypeOK
<1>4. /\ \A k \in DOMAIN order : rec[slot].target[order[k]].state =
            IF k < i THEN "applied" ELSE IF k = i THEN "applying" ELSE "pending"
      /\ \A r \in Routers : (\A k \in DOMAIN order : order[k] # r) => rec[slot].target[r].state = "none"
  <2>1. ASSUME NEW k \in DOMAIN order
        PROVE  rec[slot].target[order[k]].state =
            IF k < i THEN "applied" ELSE IF k = i THEN "applying" ELSE "pending"
    <3>1. k < i \/ k = i \/ k > i
      BY <1>3
    <3> QED
      BY <1>1, <1>3, <3>1 DEF InOrder
  <2> QED
    BY <1>1, <1>3, <2>1 DEF InOrder
<1>5. rec[slot].target[at].state = "applying"
  BY <1>2, <1>3, <1>4
<1>6. ASSUME NEW r \in Routers \ {at}
      PROVE  (\E k \in i + 1 .. Len(order) : order[k] = r) <=> rec[slot].target[r].state = "pending"
  <2>1. CASE \A k \in DOMAIN order : order[k] # r
    <3>1. \A k \in i + 1 .. Len(order) : k \in DOMAIN order
      BY <1>3
    <3> QED
      BY <1>4, <2>1, <3>1
  <2>2. CASE \E k \in DOMAIN order : order[k] = r
    <3>1. PICK k \in DOMAIN order : order[k] = r
      BY <2>2
    <3>2. k # i
      BY <1>2, <3>1
    <3>3. CASE k < i
      <4>1. rec[slot].target[r].state = "applied"
        BY <1>4, <3>1, <3>3
      <4>2. \A j \in i + 1 .. Len(order) : j \in DOMAIN order /\ ~ (j < i) /\ j # i
        BY <1>3
      <4>3. \A j \in i + 1 .. Len(order) : rec[slot].target[order[j]].state = "pending"
        BY <1>4, <4>2
      <4> QED
        BY <4>1, <4>3
    <3>4. CASE ~ (k < i)
      <4>1. rec[slot].target[r].state = "pending"
        BY <1>4, <3>1, <3>2, <3>4
      <4>2. k \in i + 1 .. Len(order)
        BY <1>3, <3>1, <3>2, <3>4
      <4> QED
        BY <3>1, <4>1, <4>2
    <3> QED
      BY <3>3, <3>4
  <2> QED
    BY <2>1, <2>2
<1>7. Target("not-attempted", "none").state = "not-attempted"
  BY DEF Target
<1>8. ASSUME NEW r \in Routers
      PROVE  rec'[slot].target[r].state =
                IF r = at THEN out.state
                ELSE IF out.state = "applied" THEN rec[slot].target[r].state
                ELSE Passed(rec[slot].target[r].state)
  <2>1. CASE r = at
    BY <1>2, <2>1
  <2>2. CASE r # at /\ out.state = "applied"
    BY <1>2, <2>2
  <2>3. CASE r # at /\ out.state # "applied"
    <3>1. rec'[slot].target[r] =
            IF \E k \in i + 1 .. Len(order) : order[k] = r THEN Target("not-attempted", "none")
                                                           ELSE rec[slot].target[r]
      BY <1>2, <2>3
    <3> QED
      BY <1>6, <1>7, <2>3, <3>1 DEF Passed
  <2> QED
    BY <2>1, <2>2, <2>3
<1> QED
  BY <1>2, <1>5, <1>8

\* Every step keeps the record true of what is on the routers.
LEMMA NextTraces ==
    ASSUME JobInv, RouterInv, NoTrace, NoTraceYet, [Next]_vars
    PROVE  NoTrace' /\ NoTraceYet'
<1>1. TypeOK /\ JobFits /\ Unrecorded /\ InOrder /\ StepFits
  BY DEF JobInv, RouterInv
<1>2. ASSUME pc' = "idle", dm' = "none" PROVE NoTraceYet'
  BY <1>2 DEF NoTraceYet, NotBackedUp, NotBegun, NotSent, PutBack
<1>3. ASSUME job # "deploy" PROVE pc = "idle" /\ dm = "none"
  BY <1>1, <1>3 DEF JobFits, StepFits
<1>4. ASSUME UNCHANGED <<router, rec>> PROVE NoTrace'
  BY <1>4, SameTraces
<1>5. ASSUME NEW p, Start(p) PROVE NoTrace' /\ NoTraceYet'
  <2>1. UNCHANGED <<router, rec, deploy>> /\ job = "none"
    BY <1>1, <1>5 DEF Start, JobFits, Finished
  <2> QED
    BY <1>2, <1>3, <1>4, <2>1 DEF deploy
<1>6. ASSUME Record PROVE NoTrace' /\ NoTraceYet'
  <2>1. UNCHANGED <<router, deploy>> /\ job = "record"
    BY <1>6 DEF Record
  <2>2. CASE UNCHANGED rec
    BY <1>2, <1>3, <1>4, <2>1, <2>2 DEF deploy
  <2>3. CASE job' = "next"
    <3>1. slot \in Runs /\ \A n \in Runs \ {slot} : rec'[n] = rec[n]
      BY <1>1, <1>6, <2>3, RecordEffect
    <3>2. \A r \in Routers : rec[slot].target[r].state = "none"
      BY <1>1, <2>1 DEF Unrecorded, NoRecord, Target
    <3>3. NoTrace'
      BY <2>1, <3>1, <3>2, SameTraces DEF Nothing
    <3> QED
      BY <1>2, <1>3, <2>1, <3>3 DEF deploy
  <2> QED
    BY <1>6, <2>2, <2>3 DEF Record
<1>7. ASSUME NextRouter \/ Decided \/ Check PROVE NoTrace' /\ NoTraceYet'
  <2>1. BetweenRouters
    BY <1>7, Between
  <2>2. ASSUME NEW r \in Routers, rec'[slot].target[r].state \in Nothing PROVE rec[slot].target[r].state \in Nothing
    BY <2>1, <2>2 DEF BetweenRouters, Passed, Nothing
  <2>3. NoTrace'
    BY <2>1, <2>2, SameTraces DEF BetweenRouters
  <2> QED
    BY <1>2, <1>3, <2>1, <2>3 DEF BetweenRouters, deploy
<1>8. ASSUME Begin PROVE NoTrace' /\ NoTraceYet'
  <2>1. /\ slot \in Runs /\ i \in DOMAIN order /\ order[i] \in Routers
        /\ \A r \in Routers : rec'[slot].target[r].state =
             IF r = order[i] THEN "applying" ELSE rec[slot].target[r].state
        /\ \A n \in Runs \ {slot} : rec'[n] = rec[n]
    BY <1>1, <1>8, BeginEffect
  <2>2. UNCHANGED router /\ at' = order[i] /\ run' = slot /\ dm' = "none" /\ pc' \in {"over", "sweep"} /\ job = "begin"
    BY <1>8 DEF Begin
  <2>3. NoTrace'
    BY <2>1, <2>2, SameTraces DEF Nothing
  <2>4. rec[slot].target[order[i]].state = "pending"
    BY <1>1, <2>1, <2>2 DEF InOrder
  <2>5. ~ Trace(order[i], slot)
    BY <2>1, <2>4 DEF NoTrace, Nothing
  <2>6. ~ Trace(at, run)'
    BY <2>2, <2>5 DEF router, Trace
  <2>7. NotBackedUp'
    BY <2>6 DEF Trace, NotBackedUp
  <2> QED
    BY <2>2, <2>3, <2>6, <2>7 DEF NoTraceYet, NotBegun, NotSent, PutBack
<1>9. ASSUME Finish PROVE NoTrace' /\ NoTraceYet'
  <2>1. UNCHANGED router /\ pc # "idle" /\ pc' = "idle" /\ dm' = "none"
    BY <1>9 DEF Finish, NoDeploy
  <2>2. /\ slot \in Runs /\ \A n \in Runs \ {slot} : rec'[n] = rec[n]
        /\ \A r \in Routers : rec'[slot].target[r].state =
             IF r = at THEN out.state
             ELSE IF out.state = "applied" THEN rec[slot].target[r].state
             ELSE Passed(rec[slot].target[r].state)
    BY <1>9, FinishVerdicts
  <2>3. run = slot
    BY <1>1, <2>1 DEF JobFits
  <2>4. ASSUME NEW r \in Routers, rec'[slot].target[r].state \in Nothing
        PROVE  rec[slot].target[r].state \in Nothing \/ ~ Trace(r, slot)
    <3>1. CASE r = at
      BY <2>1, <2>2, <2>3, <2>4, <3>1 DEF NoTraceYet, NotBegun
    <3>2. CASE r # at
      BY <2>2, <2>4, <3>2 DEF Passed, Nothing
    <3> QED
      BY <3>1, <3>2
  <2>5. NoTrace'
    BY <2>1, <2>2, <2>4, SameTraces
  <2> QED
    BY <1>2, <2>1, <2>5
<1>10. ASSUME Restart PROVE NoTrace' /\ NoTraceYet'
  <2>1. UNCHANGED router /\ pc' = "idle" /\ dm' = "none"
    BY <1>10 DEF Restart, NoDeploy
  <2>2. ASSUME NEW n \in Runs, NEW r \in Routers, rec'[n].target[r].state \in Nothing
        PROVE  rec[n].target[r].state \in Nothing
    <3>1. CASE rec[n].state \in Finished \cup {"none"}
      BY <1>1, <1>10, <2>2, <3>1, RestartEffect
    <3>2. CASE rec[n].state \notin Finished \cup {"none"}
      <4>1. rec'[n].target[r].state =
                     CASE rec[n].target[r].state = "applying" -> "unknown"
                       [] rec[n].target[r].state = "pending" -> "not-attempted"
                       [] OTHER -> rec[n].target[r].state
        BY <1>1, <1>10, <3>2, RestartEffect
      <4> QED
        BY <2>2, <4>1 DEF Nothing
    <3> QED
      BY <3>1, <3>2
  <2>3. NoTrace'
    BY <2>1, <2>2, SameTraces
  <2> QED
    BY <1>2, <2>1, <2>3
<1>11. ASSUME Deploying PROVE NoTrace' /\ NoTraceYet'
  <2>1. Spreads /\ NoTraceYet' /\ UNCHANGED rec
    BY <1>11, DeployTraces DEF Deploying
  <2>2. at = order[i] /\ run = slot /\ i \in DOMAIN order /\ job = "deploy"
    BY <1>1, <1>11, OrderFacts, DeployStays DEF Deploying, JobFits
  <2>3. rec[run].target[at].state = "applying"
    BY <1>1, <2>2 DEF InOrder
  <2>4. NoTrace'
    BY <2>1, <2>3 DEF Spreads, NoTrace, Nothing
  <2> QED
    BY <2>1, <2>4
<1>12. ASSUME NEW q \in Routers, External(q) PROVE NoTrace' /\ NoTraceYet'
  <2>1. (\A r \in Routers : \A n \in Runs : Trace(r, n)' => Trace(r, n)) /\ NoTraceYet' /\ UNCHANGED rec
    BY <1>12, OutsideTraces DEF External
  <2> QED
    BY <2>1 DEF NoTrace
<1>13. ASSUME Continue \/ Cancel \/ SendYes \/ UNCHANGED vars PROVE NoTrace' /\ NoTraceYet'
  <2>1. UNCHANGED <<router, linked, kind, deploy, rec>>
    BY <1>13 DEF Continue, Cancel, SendYes, vars
  <2>2. NotBackedUp' /\ NotSent' /\ PutBack'
    BY <2>1 DEF NoTraceYet, router, deploy, NotBackedUp, NotSent, PutBack
  <2>3. NotBegun'
    BY <2>1 DEF NoTraceYet, router, deploy, NotBegun, Trace
  <2> QED
    BY <1>4, <2>1, <2>2, <2>3 DEF NoTraceYet
<1> QED
  BY <1>5, <1>6, <1>7, <1>8, <1>9, <1>10, <1>11, <1>12, <1>13 DEF Next, JobStep

-----------------------------------------------------------------------------
(* Turns *)

\* The run in progress, where its turns are kept.
LEMMA SameTurns ==
    ASSUME JobInv, BeforeItsTurn, CancelWins, UNCHANGED <<touched, early>>,
           \A n \in Runs : rec'[n].order = rec[n].order
    PROVE  CancelWins'
<1>1. early \subseteq Runs
  BY DEF JobInv, TypeOK
<1> QED
  BY <1>1 DEF CancelWins

\* Every step keeps the turns, and an early cancel its effect.
LEMMA NextTurns ==
    ASSUME JobInv, BeforeItsTurn, CancelWins, [Next]_vars
    PROVE  BeforeItsTurn' /\ CancelWins'
<1>1. TypeOK /\ JobFits /\ Unrecorded /\ InOrder /\ LetThrough
  BY DEF JobInv
<1>2. /\ Len(order) \in Nat /\ DOMAIN order = 1 .. Len(order) /\ i \in Nat \ {0} /\ early \subseteq Runs
      /\ job # "none" => slot \in Runs /\ \A j, k \in DOMAIN order : order[j] = order[k] => j = k
  BY <1>1, OrderFacts DEF TypeOK
<1>3. ASSUME job' = "none" PROVE BeforeItsTurn'
  BY <1>3 DEF BeforeItsTurn
<1>4. ASSUME NEW p, Start(p) PROVE BeforeItsTurn' /\ CancelWins'
  <2>1. /\ UNCHANGED <<rec, touched, early>> /\ slot' = started + 1 /\ started < MaxRuns /\ started \in RunOrNone
    BY <1>1, <1>4 DEF Start, history, people, TypeOK
  <2>2. started + 1 \in Runs /\ started \in Int
    BY <2>1, RunNumbers
  <2>3. touched[slot'] = {} /\ slot' \notin early
    BY <1>1, <2>1, <2>2 DEF Unrecorded, LetThrough
  <2>4. BeforeItsTurn'
    BY <2>1, <2>3 DEF BeforeItsTurn
  <2> QED
    BY <2>1, <2>4, SameTurns
<1>5. ASSUME Record PROVE BeforeItsTurn' /\ CancelWins'
  <2>1. UNCHANGED <<touched, early, order, i, cancelled>> /\ job = "record" /\ i = 1
    BY <1>1, <1>5 DEF Record, history, people, JobFits
  <2>2. CASE job' = "next"
    <3>1. slot' = slot /\ rec'[slot].order = order /\ \A n \in Runs \ {slot} : rec'[n] = rec[n]
      BY <1>1, <1>5, <2>2, RecordEffect
    <3>2. touched[slot] = {}
      BY <1>1, <2>1 DEF Unrecorded
    <3>3. CancelWins'
      BY <1>2, <2>1, <3>1, <3>2 DEF CancelWins
    <3>4. BeforeItsTurn'
      BY <2>1, <2>2, <3>1, <3>2 DEF BeforeItsTurn
    <3> QED
      BY <3>3, <3>4
  <2>3. CASE job' = "none" /\ UNCHANGED rec
    BY <1>3, <2>1, <2>3, SameTurns
  <2> QED
    BY <1>5, <2>2, <2>3 DEF Record
<1>6. ASSUME NextRouter \/ Decided \/ Check PROVE BeforeItsTurn' /\ CancelWins'
  <2>1. BetweenRouters
    BY <1>6, Between
  <2>2. UNCHANGED <<touched, early, slot, order>> /\ \A n \in Runs : rec'[n].order = rec[n].order
    BY <2>1 DEF BetweenRouters, history, people
  <2>3. CancelWins'
    BY <2>2, SameTurns
  <2>4. \/ job' = "none"
        \/ /\ UNCHANGED <<i, cancelled>> /\ job \notin {"none", "deploy"}
           /\ \/ job = "next" /\ job' = "await" /\ i = 2
              \/ job = "next" /\ job' = "check" /\ i # 2
              \/ job = "await" /\ job' = "check"
              \/ job = "check" /\ job' = "begin" /\ ~ cancelled
    BY <1>6 DEF NextRouter, Decided, Check, StopRest, Over, GoesOn
  <2>5. CASE job' # "none"
    <3>1. \A k \in DOMAIN order : k > i \/ k = i => order[k] \notin touched[slot]
      BY <2>4, <2>5 DEF BeforeItsTurn
    <3>2. slot \in early =>
          cancelled /\ i <= 2 /\ (i = 2 => job \in {"next", "await", "check"})
      BY <2>4, <2>5 DEF BeforeItsTurn
    <3>3. slot \in early => cancelled' /\ i' <= 2 /\ (i' = 2 => job' \in {"next", "await", "check"})
      <4> SUFFICES ASSUME slot \in early PROVE cancelled' /\ i' <= 2 /\ (i' = 2 => job' \in {"next", "await", "check"})
        OBVIOUS
      <4>1. UNCHANGED i /\ UNCHANGED cancelled /\ cancelled /\ i <= 2 /\ (i = 2 => job \in {"next", "await", "check"})
        BY <2>4, <2>5, <3>2
      <4>2. i = 2 => job' \in {"next", "await", "check"}
        <5>1. job' = "begin" => ~ cancelled
          BY <2>4, <2>5
        <5>2. job' \in {"await", "check", "begin"}
          BY <2>4, <2>5
        <5> QED
          BY <4>1, <5>1, <5>2
      <4>3. cancelled'
        BY <4>1
      <4> QED
        BY <4>1, <4>2, <4>3
    <3> QED
      BY <2>2, <2>3, <2>4, <2>5, <3>1, <3>3 DEF BeforeItsTurn
  <2> QED
    BY <1>3, <2>3, <2>5
<1>7. ASSUME Begin PROVE BeforeItsTurn' /\ CancelWins'
  <2>1. UNCHANGED <<touched, early, slot, order, i, cancelled>> /\ job = "begin" /\ job' = "deploy"
    BY <1>7 DEF Begin, people
  <2>2. \A n \in Runs : rec'[n].order = rec[n].order
    BY <1>1, <1>7, BeginEffect
  <2>3. BeforeItsTurn'
    BY <2>1 DEF BeforeItsTurn
  <2> QED
    BY <2>1, <2>2, <2>3, SameTurns
<1>8. ASSUME Finish PROVE BeforeItsTurn' /\ CancelWins'
  <2>1. UNCHANGED <<touched, early, slot, order>> /\ job = "deploy"
    BY <1>8 DEF Finish, history, people
  <2>2. \A n \in Runs : rec'[n].order = rec[n].order
    BY <1>1, <1>8, FinishEffect
  <2>3. job' = "none" \/ (job' = "next" /\ i' = i + 1 /\ UNCHANGED cancelled)
    BY <1>1, <1>8, FinishEffect
  <2>4. CASE job' = "next" /\ i' = i + 1 /\ UNCHANGED cancelled
    <3>1. \A k \in DOMAIN order : k > i => order[k] \notin touched[slot]
      BY <2>1 DEF BeforeItsTurn
    <3>2. \A k \in DOMAIN order : k > i + 1 \/ k = i + 1 => k > i
      BY <1>2
    <3>3. slot \in early => cancelled /\ i = 1
      BY <1>2, <2>1 DEF BeforeItsTurn
    <3> QED
      BY <2>1, <2>2, <2>4, <3>1, <3>2, <3>3, SameTurns DEF BeforeItsTurn
  <2> QED
    BY <1>3, <2>1, <2>2, <2>3, <2>4, SameTurns
<1>9. ASSUME Restart PROVE BeforeItsTurn' /\ CancelWins'
  <2>1. UNCHANGED <<touched, early>> /\ job' = "none"
    BY <1>9 DEF Restart, history, people
  <2>2. \A n \in Runs : rec'[n].order = rec[n].order
    BY <1>1, <1>9, RestartEffect
  <2> QED
    BY <1>3, <2>1, <2>2, SameTurns
<1>10. ASSUME Deploying PROVE BeforeItsTurn' /\ CancelWins'
  <2>1. UNCHANGED <<rec, early, slot, order, i, job, cancelled>>
    BY <1>10 DEF Deploying, jobvars, people
  <2>2. at = order[i] /\ run = slot /\ i \in DOMAIN order /\ job = "deploy" /\ run \in Runs
    BY <1>1, <1>10, OrderFacts, DeployStays DEF Deploying, JobFits
  <2>3. \A n \in Runs : touched'[n] \subseteq IF n = run THEN touched[n] \cup {at} ELSE touched[n]
    BY <1>1, <1>10, <2>2, DeployTouches DEF Deploying, TypeOK
  <2>4. \A k \in DOMAIN order : k > i => order[k] # at /\ order[k] \notin touched[slot]
    BY <1>2, <2>2 DEF BeforeItsTurn
  <2>5. BeforeItsTurn'
    BY <2>1, <2>2, <2>3, <2>4 DEF BeforeItsTurn
  <2>6. ASSUME NEW n \in early, NEW j \in 2 .. Len(rec[n].order) PROVE rec[n].order[j] \notin touched'[n]
    <3>1. n \in Runs /\ rec[n].order[j] \notin touched[n]
      BY <1>2, <2>6 DEF CancelWins
    <3>2. CASE n # run
      BY <2>3, <3>1, <3>2
    <3>3. CASE n = run
      <4>1. i = 1 /\ rec[n].order = order
        BY <1>1, <1>2, <2>2, <3>3 DEF BeforeItsTurn, InOrder
      <4>2. j \in DOMAIN order /\ j > i
        BY <1>2, <4>1
      <4> QED
        BY <2>2, <2>3, <2>4, <3>1, <3>3, <4>1, <4>2
    <3> QED
      BY <3>2, <3>3
  <2> QED
    BY <2>1, <2>5, <2>6 DEF CancelWins
<1>11. ASSUME Cancel PROVE BeforeItsTurn' /\ CancelWins'
  <2>1. /\ UNCHANGED <<touched, slot, order, i, job, rec>> /\ cancelled' = TRUE /\ job # "none"
        /\ early' = IF state \in {"canary", "awaiting-canary"} THEN early \cup {slot} ELSE early
    BY <1>1, <1>11 DEF Cancel, history, JobFits
  <2>2. state \in {"canary", "awaiting-canary"} => i <= 2 /\ (i = 2 => job \in {"next", "await"})
    BY <1>1, <2>1 DEF JobFits
  <2>3. BeforeItsTurn'
    BY <2>1, <2>2 DEF BeforeItsTurn
  <2>4. CASE state \notin {"canary", "awaiting-canary"}
    BY <2>1, <2>3, <2>4, SameTurns
  <2>5. CASE state \in {"canary", "awaiting-canary"}
    <3>1. ASSUME NEW j \in 2 .. Len(rec[slot].order) PROVE rec[slot].order[j] \notin touched[slot]
      <4>1. CASE job = "record"
        BY <1>1, <4>1 DEF Unrecorded
      <4>2. CASE job # "record"
        <5>1. rec[slot].order = order
          BY <1>1, <2>1, <4>2 DEF InOrder
        <5>2. j \in DOMAIN order /\ (j > i \/ (j = i /\ job # "deploy"))
          BY <1>2, <2>2, <2>5, <5>1
        <5> QED
          BY <2>1, <5>1, <5>2 DEF BeforeItsTurn
      <4> QED
        BY <4>1, <4>2
    <3>2. \A n \in early : \A j \in 2 .. Len(rec[n].order) : rec[n].order[j] \notin touched[n]
      BY DEF CancelWins
    <3>3. CancelWins'
      BY <2>1, <2>5, <3>1, <3>2 DEF CancelWins
    <3> QED
      BY <2>3, <3>3
  <2> QED
    BY <2>4, <2>5
<1>12. ASSUME Continue \/ SendYes \/ UNCHANGED vars \/ (\E q \in Routers : External(q)) PROVE BeforeItsTurn' /\ CancelWins'
  <2>1. UNCHANGED <<touched, early, slot, order, i, job, cancelled, rec>>
    BY <1>12 DEF Continue, SendYes, vars, External, RouterStep, Fires, GoesDown, Boots, Unlink, Link, history, jobvars, people
  <2> QED
    BY <2>1, SameTurns DEF BeforeItsTurn
<1> QED
  BY <1>4, <1>5, <1>6, <1>7, <1>8, <1>9, <1>10, <1>11, <1>12 DEF Next, JobStep

-----------------------------------------------------------------------------
(* Theorems *)

\* A server that has just started, with routers nothing was ever sent to.
LEMMA InitCfg == Init => CfgInv
<1> SUFFICES ASSUME Init PROVE CfgInv
  OBVIOUS
<1>1. JobInv
  BY InitJob
<1>2. /\ pc = "idle" /\ dm = "none" /\ run = 0 /\ started = 0 /\ linked = {} /\ early = {} /\ job = "none"
      /\ \A r \in Routers : shut[r] = 0 /\ from[r] = 0 /\ power[r] = "up" /\ holds[r] = Held(0, "all")
      /\ \A r \in Routers : \A n \in Runs : sched[r][n] = "none" /\ saved[r][n] = NoBackup
  BY DEF Init, DeployInit, NoSched
<1>3. NoBackup.shut = 0 /\ NoBackup.holds.run = 0 /\ Held(0, "all").run = 0
  BY ConstantTypes, RunNumbers
<1>4. \A n \in Runs : n # 0
  BY RunNumbers
<1>5. BeforeItsTurn /\ CancelWins
  BY <1>2 DEF BeforeItsTurn, CancelWins
<1>6. RunsAreKnown /\ StepFits
  BY <1>2, <1>3 DEF RunsAreKnown, StepFits
<1>7. SessionIsHonest /\ BackupIsOpen /\ ArmedWhileSending /\ DeadManIsKept
  BY <1>2, <1>3, <1>4 DEF SessionIsHonest, BackupIsOpen, ArmedWhileSending, DeadManIsKept
<1>8. NoTrace
  BY <1>2, <1>3, <1>4 DEF NoTrace, Trace
<1>9. NoTraceYet
  BY <1>2 DEF NoTraceYet, NotBackedUp, NotBegun, NotSent, PutBack
<1> QED
  BY <1>1, <1>5, <1>6, <1>7, <1>8, <1>9 DEF CfgInv, RouterInv

\* The inductive invariant.
LEMMA CfgHolds == Spec => []CfgInv
<1>1. Init => CfgInv
  BY InitCfg
<1>2. CfgInv /\ [Next]_vars => CfgInv'
  <2> SUFFICES ASSUME CfgInv, [Next]_vars PROVE CfgInv'
    OBVIOUS
  <2>1. JobInv'
    BY NextJob DEF CfgInv, RouterInv
  <2>2. RouterInv'
    BY NextRouterInv DEF CfgInv
  <2>3. NoTrace' /\ NoTraceYet'
    BY NextTraces DEF CfgInv
  <2>4. BeforeItsTurn' /\ CancelWins'
    BY NextTurns DEF CfgInv
  <2> QED
    BY <2>1, <2>2, <2>3, <2>4 DEF CfgInv
<1> QED
  BY <1>1, <1>2, PTL DEF Spec

\* Every variable of the deploys stays in range: cfgExecute, the steps of
\* cfgdeploy on the router, and the record in the database.
THEOREM TypeCorrect == Spec => []TypeOK
<1>1. CfgInv => TypeOK
  BY DEF CfgInv, JobInv
<1> QED
  BY <1>1, CfgHolds, PTL

\* RunAdditions, disarm, the sweeps before and after a deploy: none of them takes
\* the dead-man from a router that an armed deploy has cut MikroDash off from,
\* whatever fails, whichever session outlives the lockout and whenever MikroDash
\* is restarted.
THEOREM DeadManIsKeptHolds == Spec => []DeadManIsKept
<1>1. CfgInv => DeadManIsKept
  BY DEF CfgInv, RouterInv
<1> QED
  BY <1>1, CfgHolds, PTL

\* cfgRunOne's record: a router of which it says that nothing was applied holds
\* nothing of the run's template.
THEOREM NothingMeansNothingHolds == Spec => []NothingMeansNothing
<1>1. CfgInv => NothingMeansNothing
  BY DEF CfgInv, NoTrace, NothingMeansNothing, Trace, Nothing
<1> QED
  BY <1>1, CfgHolds, PTL

\* cfgCancel against cfgContinue: a run cancelled before its second router's
\* turn never touches that router, nor a later one.
THEOREM CancelWinsHolds == Spec => []CancelWins
<1>1. CfgInv => CancelWins
  BY DEF CfgInv
<1> QED
  BY <1>1, CfgHolds, PTL

-----------------------------------------------------------------------------
(* The rollout *)

\* What Rollout does not see.
LEMMA StagedStutters ==
    ASSUME rec'[Watched].order = rec[Watched].order, (Watched \in go') = (Watched \in go),
           \A r \in Routers : rec'[Watched].target[r].state = rec[Watched].target[r].state
    PROVE  UNCHANGED Staged!vars
<1>1. [r \in Routers |-> rec'[Watched].target[r].state] = [r \in Routers |-> rec[Watched].target[r].state]
  OBVIOUS
<1> QED
  BY <1>1 DEF Staged!vars

\* A new record is the opening of the rollout.
LEMMA RecordOpens ==
    ASSUME JobInv, Record, job' = "next", slot = Watched
    PROVE  Staged!Next
<1>1. TypeOK /\ JobFits /\ Unrecorded /\ job = "record" /\ UNCHANGED go
  BY DEF JobInv, Record, people
<1>2. /\ rec'[slot].order = order
      /\ \A r \in Routers : rec'[slot].target[r].state =
                IF \E j \in DOMAIN order : order[j] = r THEN "pending" ELSE "none"
  BY <1>1, RecordEffect
<1>3. order # <<>> /\ \E p \in Plans[slot] : order = p.order
  BY <1>1, OrderFacts DEF JobFits
<1>4. rec[slot].order = <<>>
  BY <1>1 DEF Unrecorded, NoRecord
<1>5. [r \in Routers |-> rec'[Watched].target[r].state] =
      [r \in Routers |-> IF \E j \in DOMAIN order : order[j] = r THEN "pending" ELSE "none"]
  BY <1>2
<1>6. SUFFICES ASSUME NEW CONSTANT s, s = order PROVE Staged!Next
  OBVIOUS
<1>7. Staged!Open(s)
  BY <1>1, <1>2, <1>3, <1>4, <1>5, <1>6 DEF Staged!Open
<1>8. s \in {p.order : p \in Plans[Watched]}
  BY <1>3, <1>6
<1> QED
  BY <1>7, <1>8 DEF Staged!Next

\* A router's turn begins after the ones before it worked, and past the canary
\* only for somebody who was let through.
LEMMA BeginBegins ==
    ASSUME JobInv, Begin, slot = Watched
    PROVE  Staged!Next
<1>1. TypeOK /\ JobFits /\ InOrder /\ LetThrough /\ job = "begin" /\ UNCHANGED go
  BY DEF JobInv, Begin, people
<1>2. /\ i \in DOMAIN order /\ order[i] \in Routers /\ rec'[slot].order = rec[slot].order
      /\ \A r \in Routers : rec'[slot].target[r].state =
                IF r = order[i] THEN "applying" ELSE rec[slot].target[r].state
  BY <1>1, BeginEffect
<1>3. /\ rec[slot].order = order /\ DOMAIN order = 1 .. Len(order) /\ i \in Nat
      /\ \A k \in DOMAIN order : order[k] \in Routers
  BY <1>1, OrderFacts DEF InOrder, TypeOK
<1>4. /\ rec[slot].target[order[i]].state = "pending"
      /\ \A j \in 1 .. i - 1 : j \in DOMAIN order /\ rec[slot].target[order[j]].state = "applied"
  <2>1. \A j \in 1 .. i - 1 : j \in DOMAIN order /\ j < i
    BY <1>2, <1>3
  <2> QED
    BY <1>1, <1>2, <2>1 DEF InOrder
<1>5. i > 1 => Watched \in go
  BY <1>1 DEF LetThrough
<1>6. [r \in Routers |-> rec'[Watched].target[r].state] =
      [[r \in Routers |-> rec[Watched].target[r].state] EXCEPT ![order[i]] = "applying"]
  BY <1>2
<1>7. SUFFICES ASSUME NEW CONSTANT k, k = i PROVE Staged!Next
  OBVIOUS
<1>8. Staged!Begin(k)
  BY <1>1, <1>2, <1>3, <1>4, <1>5, <1>6, <1>7 DEF Staged!Begin
<1> QED
  BY <1>2, <1>3, <1>7, <1>8 DEF Staged!Next

\* It ends with an outcome, and unless it worked so does the run.
LEMMA FinishFinishes ==
    ASSUME JobInv, Finish, slot = Watched
    PROVE  Staged!Next
<1>1. TypeOK /\ JobFits /\ InOrder /\ job = "deploy" /\ UNCHANGED go
  BY DEF JobInv, Finish, people
<1>2. /\ at = order[i] /\ i \in DOMAIN order
      /\ rec'[slot].order = rec[slot].order /\ rec[slot].target[at].state = "applying"
      /\ \A r \in Routers : rec'[slot].target[r].state =
           IF r = at THEN out.state
           ELSE IF out.state = "applied" THEN rec[slot].target[r].state
           ELSE Passed(rec[slot].target[r].state)
  BY FinishVerdicts
<1>3. rec[slot].order = order /\ at \in Routers /\ out.state \in Ended
  BY <1>1, <1>2, OrderFacts DEF InOrder, TypeOK, DeployTypeOK
<1>4. Passed(out.state) = out.state
  BY <1>3 DEF Passed, Ended
<1> DEFINE v == [[r \in Routers |-> rec[Watched].target[r].state] EXCEPT ![at] = out.state]
<1>5. [r \in Routers |-> rec'[Watched].target[r].state] =
        IF out.state = "applied" THEN v ELSE [r \in Routers |-> Staged!Passed(v[r])]
  <2>1. \A r \in Routers : v[r] = IF r = at THEN out.state ELSE rec[Watched].target[r].state
    BY <1>3
  <2>2. CASE out.state = "applied"
    BY <1>2, <1>3, <2>2
  <2>3. CASE out.state # "applied"
    <3>1. \A r \in Routers : rec'[Watched].target[r].state = Staged!Passed(v[r])
      BY <1>2, <1>4, <2>1, <2>3 DEF Passed, Staged!Passed
    <3> HIDE DEF v
    <3> QED
      BY <2>3, <3>1
  <2> QED
    BY <2>2, <2>3
<1>6. SUFFICES ASSUME NEW CONSTANT k, NEW CONSTANT o, k = i, o = out.state PROVE Staged!Next
  OBVIOUS
<1>7. Staged!Finish(k, o)
  BY <1>1, <1>2, <1>3, <1>5, <1>6 DEF Staged!Finish
<1>8. o \in Staged!Outcomes
  BY <1>3, <1>6 DEF Ended, Staged!Outcomes
<1> QED
  BY <1>2, <1>3, <1>6, <1>7, <1>8 DEF Staged!Next

\* Between two routers the run may stop, and goes on otherwise.
LEMMA BetweenStops ==
    ASSUME JobInv, BetweenRouters
    PROVE  [Staged!Next]_Staged!vars
<1>1. UNCHANGED go
  BY DEF BetweenRouters, people
<1>2. CASE slot # Watched
  <2>1. rec'[Watched] = rec[Watched]
    BY <1>2, PlansAssumption DEF BetweenRouters
  <2> QED
    BY <1>1, <2>1, StagedStutters
<1>3. CASE slot = Watched /\ \A r \in Routers : rec'[slot].target[r].state = rec[slot].target[r].state
  BY <1>1, <1>3, StagedStutters DEF BetweenRouters
<1>4. CASE slot = Watched /\ \A r \in Routers : rec'[slot].target[r].state = Passed(rec[slot].target[r].state)
  <2>1. [r \in Routers |-> rec'[Watched].target[r].state] =
        [r \in Routers |-> Staged!Passed([q \in Routers |-> rec[Watched].target[q].state][r])]
    BY <1>4 DEF Passed, Staged!Passed
  <2>2. Staged!Stop
    BY <1>1, <1>4, <2>1 DEF Staged!Stop, BetweenRouters
  <2> QED
    BY <2>2 DEF Staged!Next
<1> QED
  BY <1>2, <1>3, <1>4 DEF BetweenRouters

\* A person is let through only when the canary has worked.
LEMMA ContinueContinues ==
    ASSUME JobInv, Continue, slot = Watched
    PROVE  Staged!Next
<1>1. /\ TypeOK /\ JobFits /\ InOrder /\ UNCHANGED rec /\ go' = go \cup {slot}
      /\ slot # 0 /\ state = "awaiting-canary"
  BY DEF JobInv, Continue
<1>2. job = "await" /\ i = 2
  BY <1>1 DEF JobFits, Finished
<1>3. /\ rec[slot].order = order /\ order # <<>> /\ 1 \in DOMAIN order /\ order[1] \in Routers
      /\ rec[slot].target[order[1]].state = "applied"
  BY <1>1, <1>2, OrderFacts DEF InOrder
<1>4. Watched \in go'
  BY <1>1
<1>5. Staged!Continue
  BY <1>1, <1>3, <1>4 DEF Staged!Continue
<1> QED
  BY <1>5 DEF Staged!Next

\* A restart interrupts an open run and leaves the others alone.
LEMMA RestartInterrupts ==
    ASSUME JobInv, Restart
    PROVE  [Staged!Next]_Staged!vars
<1>1. TypeOK /\ UNCHANGED go /\ Watched \in Runs
  BY PlansAssumption DEF JobInv, Restart, people
<1>2. CASE rec[Watched].state \in Finished \cup {"none"}
  <2>1. rec'[Watched] = rec[Watched]
    BY <1>1, <1>2, RestartEffect
  <2> QED
    BY <1>1, <2>1, StagedStutters
<1>3. CASE rec[Watched].state \notin Finished \cup {"none"}
  <2>1. /\ rec'[Watched].order = rec[Watched].order
        /\ \A r \in Routers : rec'[Watched].target[r].state =
             CASE rec[Watched].target[r].state = "applying" -> "unknown"
               [] rec[Watched].target[r].state = "pending" -> "not-attempted"
               [] OTHER -> rec[Watched].target[r].state
    BY <1>1, <1>3, RestartEffect
  <2>2. \A r \in Routers : rec'[Watched].target[r].state =
          IF rec[Watched].target[r].state = "applying" THEN "unknown"
          ELSE Staged!Passed(rec[Watched].target[r].state)
    BY <2>1 DEF Staged!Passed
  <2>3. [r \in Routers |-> rec'[Watched].target[r].state] =
        [r \in Routers |-> IF [q \in Routers |-> rec[Watched].target[q].state][r] = "applying" THEN "unknown"
                           ELSE Staged!Passed([q \in Routers |-> rec[Watched].target[q].state][r])]
    BY <2>2
  <2>4. Staged!Interrupt
    BY <1>1, <2>1, <2>3 DEF Staged!Interrupt
  <2> QED
    BY <2>4 DEF Staged!Next
<1> QED
  BY <1>2, <1>3

\* cfgExecute, cfgContinue, cfgCancel and InterruptCfgRuns implement the staged
\* rollout: whatever run is watched, every step of theirs is a step of it, as
\* the run's record shows it, or changes nothing of it.
THEOREM RunIsARolloutHolds == Spec => RunIsARollout
<1>1. Init => Staged!Init
  <2> SUFFICES ASSUME Init PROVE Staged!Init
    OBVIOUS
  <2>1. rec[Watched] = NoRecord /\ go = {}
    BY PlansAssumption DEF Init
  <2>2. rec[Watched].order = <<>> /\ \A r \in Routers : rec[Watched].target[r].state = "none"
    BY <2>1 DEF NoRecord, Target
  <2> QED
    BY <2>1, <2>2 DEF Staged!Init
<1>2. CfgInv /\ [Next]_vars => [Staged!Next]_Staged!vars
  <2> SUFFICES ASSUME CfgInv, [Next]_vars PROVE [Staged!Next]_Staged!vars
    OBVIOUS
  <2>1. JobInv /\ TypeOK /\ JobFits /\ Watched \in Runs
    BY PlansAssumption DEF CfgInv, JobInv
  <2>2. ASSUME UNCHANGED <<rec, go>> PROVE [Staged!Next]_Staged!vars
    BY <2>2, StagedStutters
  <2>3. ASSUME rec'[Watched] = rec[Watched], UNCHANGED go PROVE [Staged!Next]_Staged!vars
    BY <2>3, StagedStutters
  <2>4. ASSUME Record PROVE [Staged!Next]_Staged!vars
    <3>1. UNCHANGED go
      BY <2>4 DEF Record, people
    <3>2. CASE UNCHANGED rec
      BY <2>2, <3>1, <3>2
    <3>3. CASE job' = "next" /\ slot = Watched
      BY <2>1, <2>4, <3>3, RecordOpens
    <3>4. CASE job' = "next" /\ slot # Watched
      <4>1. rec'[Watched] = rec[Watched]
        BY <2>1, <2>4, <3>4, RecordEffect
      <4> QED
        BY <2>3, <3>1, <4>1
    <3> QED
      BY <2>4, <3>2, <3>3, <3>4 DEF Record
  <2>5. ASSUME NextRouter \/ Decided \/ Check PROVE [Staged!Next]_Staged!vars
    BY <2>1, <2>5, Between, BetweenStops
  <2>6. ASSUME Begin PROVE [Staged!Next]_Staged!vars
    <3>1. CASE slot = Watched
      BY <2>1, <2>6, <3>1, BeginBegins
    <3>2. CASE slot # Watched
      <4>1. rec'[Watched] = rec[Watched] /\ UNCHANGED go
        BY <2>1, <2>6, <3>2, BeginEffect DEF Begin, people
      <4> QED
        BY <2>3, <4>1
    <3> QED
      BY <3>1, <3>2
  <2>7. ASSUME Finish PROVE [Staged!Next]_Staged!vars
    <3>1. CASE slot = Watched
      BY <2>1, <2>7, <3>1, FinishFinishes
    <3>2. CASE slot # Watched
      <4>1. rec'[Watched] = rec[Watched] /\ UNCHANGED go
        BY <2>1, <2>7, <3>2, FinishEffect DEF Finish, people
      <4> QED
        BY <2>3, <4>1
    <3> QED
      BY <3>1, <3>2
  <2>8. ASSUME Continue PROVE [Staged!Next]_Staged!vars
    <3>1. CASE slot = Watched
      BY <2>1, <2>8, <3>1, ContinueContinues
    <3>2. CASE slot # Watched
      <4>1. rec'[Watched] = rec[Watched] /\ (Watched \in go') = (Watched \in go)
        BY <2>8, <3>2 DEF Continue
      <4> QED
        BY <4>1, StagedStutters
    <3> QED
      BY <3>1, <3>2
  <2>9. ASSUME Restart PROVE [Staged!Next]_Staged!vars
    BY <2>1, <2>9, RestartInterrupts
  <2>10. ASSUME \/ \E p : Start(p)
                \/ Deploying \/ Cancel \/ SendYes \/ UNCHANGED vars
                \/ \E r \in Routers : External(r)
         PROVE  [Staged!Next]_Staged!vars
    <3>1. UNCHANGED <<rec, go>>
      BY <2>10 DEF Start, Deploying, Cancel, SendYes, External, vars, people
    <3> QED
      BY <2>2, <3>1
  <2> QED
    BY <2>4, <2>5, <2>6, <2>7, <2>8, <2>9, <2>10 DEF Next, JobStep
<1>3. Staged!Init /\ [][Staged!Next]_Staged!vars => RunIsARollout
  BY DEF RunIsARollout, Staged!Spec
<1> QED
  BY <1>1, <1>2, <1>3, CfgHolds, PTL DEF Spec

-----------------------------------------------------------------------------
(* What is recorded as applied *)

\* Only a reset leaves a bootstrap on a router.
ByReset(h) == h.how \in {"booted", "wiped"} => h.run \in Runs /\ kind[h.run] = "reset"

\* What a router carries: its dead-men are of runs that began there, none of
\* them after the last one; it loads a backup because of one that has run; what
\* it holds, and would hold again, fits the kind of its run; and when nothing
\* excuses it, it is down because of the last deploy.
RouterFits(r) ==
    /\ \A n \in Runs : sched[r][n] # "none" => r \in touched[n] /\ n <= last[r] /\ kind[n] = "lock"
    /\ power[r] \in {"loading", "reverting"} =>
          r \in touched[from[r]] /\ kind[from[r]] = "lock" /\ sched[r][from[r]] # "armed"
    /\ ByReset(holds[r]) /\ \A m \in Runs : ByReset(saved[r][m].holds)
    /\ excuse[r] = {} /\ power[r] # "up" => from[r] = last[r]
    /\ last[r] <= started
RoutersFit == \A r \in Routers : RouterFits(r)

\* The deploy in progress is the last its router has seen, and has left nothing
\* there before it arms the dead-man.
LastFits ==
    /\ pc # "idle" => last[at] = run
    /\ pc \in {"sweep", "preflight", "arm"} => at \notin touched[run]

\* Nothing is left that could take the template of run n away again.
Sealed(r, n) == holds[r] = Held(n, "all") /\ power[r] = "up" /\ sched[r][n] # "armed"

\* What the deploy in progress knows of its router at each step, when nothing
\* excuses it: it is up until the first change, a reset's files go over a whole
\* bootstrap, and files that went in are there unless the dead-man has run.
WorkFits ==
    pc # "idle" /\ excuse[at] = {} =>
        /\ pc \in {"sweep", "preflight", "arm", "reset"} => power[at] = "up"
        /\ pc \in {"reboot", "log"} /\ booted[at] => holds[at].run = run
        /\ pc = "log" => booted[at]
        /\ pc \in {"log", "import", "reconnect"} /\ kind[run] # "lock" => power[at] = "up"
        /\ pc = "import" /\ kind[run] = "reset" => holds[at] = Held(run, "booted")
        /\ pc \in {"reconnect", "print"} /\ out.state = "applied" =>
              \/ holds[at] = Held(run, "all")
              \/ kind[run] = "lock" /\ (sched[at][run] # "armed" \/ power[at] # "up")
        /\ pc = "remove" => sched[at][run] = "armed" /\ power[at] = "up"
        /\ pc = "remove" /\ out.state = "applied" => holds[at] = Held(run, "all")
        /\ pc \in {"end", "over"} /\ out.state = "applied" => Sealed(at, run)

\* A router that is recorded as applied is so for good.
AppliedIsSealed ==
    \A r \in Routers : \A n \in Runs :
        last[r] = n /\ rec[n].target[r].state = "applied" /\ excuse[r] = {} => Sealed(r, n)

TrueInv == RoutersFit /\ LastFits /\ WorkFits /\ AppliedIsSealed

\* A step of the deploy leaves the other routers alone, and no router forgets
\* who has touched it.
LEMMA DeployIsLocal ==
    ASSUME DeployTypeOK, at \in Routers, run \in Runs, DeployStep
    PROVE  /\ \A r \in Routers \ {at} :
                /\ holds'[r] = holds[r] /\ power'[r] = power[r] /\ from'[r] = from[r]
                /\ sched'[r] = sched[r] /\ saved'[r] = saved[r] /\ excuse'[r] = excuse[r]
           /\ \A n \in Runs : touched[n] \subseteq touched'[n]
           /\ last' = last
<1>1. ASSUME SweepRows PROVE \A r \in Routers \ {at} : sched'[r] = sched[r] /\ saved'[r] = saved[r]
  BY <1>1 DEF SweepRows, DeployTypeOK
<1>2. ASSUME Armed
      PROVE  /\ \A r \in Routers \ {at} : sched'[r] = sched[r] /\ saved'[r] = saved[r]
             /\ \A n \in Runs : touched[n] \subseteq touched'[n]
  BY <1>2 DEF Armed, DeployTypeOK
<1>3. ASSUME NEW h, Imports(h)
      PROVE  /\ \A r \in Routers \ {at} : holds'[r] = holds[r]
             /\ \A n \in Runs : touched[n] \subseteq touched'[n]
  BY <1>3 DEF Imports, DeployTypeOK
<1>4. CASE Sweep
  BY <1>1, <1>4 DEF Sweep, history
<1>5. CASE Preflight \/ Reconnect \/ DisarmPrint \/ Reverted \/ NotReverted \/ CameBack
  BY <1>5 DEF Preflight, Reconnect, DisarmPrint, Reverted, NotReverted, CameBack, router, history
<1>6. CASE Arm
  BY <1>2, <1>6 DEF Arm, Armed
<1>7. CASE ArmFails
  BY <1>2, <1>7 DEF ArmFails, Armed
<1>8. CASE ImportPart
  BY <1>3, <1>8 DEF ImportPart
<1>9. CASE ImportFails
  <2>1. \/ UNCHANGED <<holds, touched>>
        \/ Imports(Cut(holds[at])) \/ Imports(Grown(holds[at], part))
    BY <1>9 DEF ImportFails
  <2>2. UNCHANGED <<power, from, sched, saved, last, excuse>>
    BY <1>9 DEF ImportFails
  <2>3. CASE UNCHANGED <<holds, touched>>
    BY <2>2, <2>3
  <2>4. CASE Imports(Cut(holds[at]))
    BY <1>3, <2>2, <2>4
  <2>5. CASE Imports(Grown(holds[at], part))
    BY <1>3, <2>2, <2>5
  <2> QED
    BY <2>1, <2>3, <2>4, <2>5
<1>10. CASE DisarmRemove
  BY <1>10 DEF DisarmRemove, DeployTypeOK, history
<1>11. CASE Reset
  <2>1. UNCHANGED <<holds, sched, saved, last, excuse>>
    BY <1>11 DEF Reset
  <2>2. \/ UNCHANGED <<power, from, touched>>
        \/ /\ power' = [power EXCEPT ![at] = "wiping"] /\ from' = [from EXCEPT ![at] = run]
           /\ touched' = [touched EXCEPT ![run] = @ \cup {at}]
    BY <1>11 DEF Reset
  <2>3. \A r \in Routers \ {at} : power'[r] = power[r] /\ from'[r] = from[r]
    BY <2>2 DEF DeployTypeOK
  <2>4. \A n \in Runs : touched'[n] = touched[n] \/ touched'[n] = touched[n] \cup {at}
    BY <2>2 DEF DeployTypeOK
  <2>5. \A n \in Runs : touched[n] \subseteq touched'[n]
    BY <2>4
  <2> QED
    BY <2>1, <2>3, <2>5
<1>12. CASE BootstrapLog
  BY <1>12 DEF BootstrapLog, DeployTypeOK, router
<1>13. CASE LastSweep
  BY <1>1, <1>13 DEF LastSweep, history
<1> QED
  BY <1>4, <1>5, <1>6, <1>7, <1>8, <1>9, <1>10, <1>11, <1>12, <1>13 DEF DeployStep

\* So only its own router can come to fit worse, and what is recorded as applied
\* of others stays sealed.  Of its own router nothing is recorded yet.
LEMMA DeployElsewhere ==
    ASSUME JobInv, RouterInv, TrueInv, DeployStep, UNCHANGED <<started, rec>>
    PROVE  /\ RouterFits(at)' => RoutersFit'
           /\ AppliedIsSealed'
<1>1. at \in Routers /\ run \in Runs /\ at' = at /\ run' = run /\ kind' = kind /\ DeployTypeOK
  BY OrderFacts, DeployStays, RunNumbers DEF JobInv, TypeOK, JobFits
<1>2. /\ \A r \in Routers \ {at} :
           /\ holds'[r] = holds[r] /\ power'[r] = power[r] /\ from'[r] = from[r]
           /\ sched'[r] = sched[r] /\ saved'[r] = saved[r] /\ excuse'[r] = excuse[r]
      /\ \A n \in Runs : touched[n] \subseteq touched'[n]
      /\ last' = last
  BY <1>1, DeployIsLocal
<1>3. \A r \in Routers : power[r] # "up" => from[r] \in Runs
  BY RunNumbers DEF RouterInv, RunsAreKnown, JobInv, TypeOK, DeployTypeOK
<1>4. ASSUME NEW r \in Routers \ {at} PROVE RouterFits(r)'
  <2>1. RouterFits(r)
    BY DEF TrueInv, RoutersFit
  <2> QED
    BY <1>1, <1>2, <1>3, <2>1 DEF RouterFits, ByReset
<1>5. RouterFits(at)' => RoutersFit'
  BY <1>1, <1>4 DEF RoutersFit
<1>6. last[at] = run /\ rec[run].target[at].state = "applying"
  <2>1. pc # "idle" /\ job = "deploy" /\ at = order[i] /\ run = slot /\ i \in DOMAIN order
    BY DeployStays, OrderFacts DEF JobInv, JobFits
  <2>2. rec[run].target[at].state = "applying"
    BY <2>1 DEF JobInv, InOrder
  <2> QED
    BY <2>1, <2>2 DEF TrueInv, LastFits
<1>7. AppliedIsSealed'
  <2> SUFFICES ASSUME NEW r \in Routers, NEW n \in Runs,
                      last'[r] = n, rec'[n].target[r].state = "applied", excuse'[r] = {}
               PROVE  Sealed(r, n)'
    BY DEF AppliedIsSealed
  <2>1. r # at
    BY <1>2, <1>6
  <2>2. Sealed(r, n)
    BY <1>2, <2>1 DEF TrueInv, AppliedIsSealed
  <2> QED
    BY <1>2, <2>1, <2>2 DEF Sealed
<1> QED
  BY <1>5, <1>7

\* What its kind says of a router's contents after an import.
LEMMA ImportedHow ==
    ASSUME ByReset(holds[at])
    PROVE  /\ ByReset(Held(run, "all")) /\ ByReset(Held(run, "some"))
           /\ ByReset(Cut(holds[at])) /\ \A p : ByReset(Grown(holds[at], p))
<1>1. ByReset(Held(run, "all")) /\ ByReset(Held(run, "some"))
  BY DEF ByReset, Held
<1> QED
  BY <1>1 DEF Cut, Grown

\* Every step of the deploy keeps the truth of the record.
LEMMA DeployTrue ==
    ASSUME JobInv, RouterInv, TrueInv, DeployStep, UNCHANGED <<started, rec>>
    PROVE  TrueInv'
<1>1. /\ at \in Routers /\ run \in Runs /\ at' = at /\ run' = run /\ kind' = kind /\ DeployTypeOK
      /\ pc # "idle" /\ pc' # "idle"
  BY OrderFacts, DeployStays, RunNumbers DEF JobInv, TypeOK, JobFits
<1>2. RouterFits(at) /\ LastFits /\ WorkFits /\ StepFits /\ RunsAreKnown /\ last[at] = run
  BY <1>1 DEF TrueInv, RoutersFit, RouterInv, LastFits
<1>3. power[at] # "up" => from[at] \in Runs
  BY <1>1, <1>2, RunNumbers DEF RunsAreKnown, DeployTypeOK
<1>4. SUFFICES RouterFits(at)' /\ LastFits' /\ WorkFits'
  BY DeployElsewhere DEF TrueInv
<1>5. /\ \A n \in Runs : touched[n] \subseteq touched'[n]
      /\ last' = last
  BY <1>1, DeployIsLocal
<1>6. ByReset(NoBackup.holds)
  BY DEF NoBackup, ByReset, Held
<1>7. ASSUME SweepRows, UNCHANGED <<holds, power, from, excuse>>
      PROVE  RouterFits(at)'
  <2>1. /\ \A n \in Runs : sched'[at][n] \in {"none", sched[at][n]}
        /\ \A n \in Runs : saved'[at][n] \in {NoBackup, saved[at][n]}
    BY <1>1, <1>7, SweepEffect
  <2> QED
    BY <1>1, <1>2, <1>3, <1>5, <1>6, <1>7, <2>1 DEF RouterFits, ByReset
<1>8. ASSUME UNCHANGED <<holds, power, from, sched, saved>>, excuse[at] \subseteq excuse'[at]
      PROVE  RouterFits(at)'
  BY <1>1, <1>2, <1>3, <1>5, <1>8 DEF RouterFits, ByReset
<1>9. ASSUME Armed, UNCHANGED excuse, pc = "arm"
      PROVE  RouterFits(at)'
  <2>1. /\ \A n \in Runs : sched'[at][n] = IF n = run THEN "armed" ELSE sched[at][n]
        /\ \A n \in Runs : saved'[at][n].holds = IF n = run THEN holds[at] ELSE saved[at][n].holds
        /\ UNCHANGED <<holds, power, from>>
    BY <1>1, <1>9, ArmedEffect DEF Armed
  <2>2. at \in touched'[run] /\ kind[run] = "lock"
    BY <1>1, <1>2, <1>9 DEF Armed, DeployTypeOK, StepFits
  <2>3. power[at] \in {"loading", "reverting"} => from[at] # run
    BY <1>2, <1>9 DEF RouterFits, LastFits
  <2>4. run <= last[at]
    BY <1>1, <1>2, RunNumbers
  <2> QED
    BY <1>1, <1>2, <1>3, <1>5, <1>9, <2>1, <2>2, <2>3, <2>4 DEF RouterFits, ByReset
<1>10. ASSUME NEW h \in Holding, ByReset(h), Imports(h), UNCHANGED <<power, from, sched, saved, excuse>>
       PROVE  RouterFits(at)' /\ holds'[at] = h
  <2>1. holds'[at] = h
    BY <1>1, <1>10, ImportsEffect
  <2> QED
    BY <1>1, <1>2, <1>3, <1>5, <1>10, <2>1 DEF RouterFits, ByReset
<1>11. CASE Sweep
  <2>1. RouterFits(at)'
    BY <1>7, <1>11 DEF Sweep, history
  <2>2. LastFits'
    BY <1>1, <1>2, <1>11 DEF LastFits, Sweep, Goto, history
  <2>3. WorkFits'
    BY <1>1, <1>2, <1>11 DEF WorkFits, Sweep, Goto, history
  <2> QED
    BY <2>1, <2>2, <2>3
<1>12. CASE Preflight
  <2>1. RouterFits(at)'
    BY <1>8, <1>12 DEF Preflight, router, history
  <2>2. LastFits'
    BY <1>1, <1>2, <1>12 DEF LastFits, Preflight, AdditionsReady, ResetReady, Ends, Goto, history
  <2>3. WorkFits'
    <3>1. UNCHANGED <<holds, power, excuse, booted, sched>>
      BY <1>12 DEF Preflight, router, history
    <3>2. \/ pc' = "end" /\ out'.state = "preflight-failed"
          \/ pc' \in {"arm", "reset"} /\ pc = "preflight"
          \/ pc' = "import" /\ kind[run] = "additions" /\ pc = "preflight"
      BY <1>12 DEF Preflight, AdditionsReady, ResetReady, Ends, Goto, Outcome
    <3> QED
      BY <1>1, <1>2, <3>1, <3>2 DEF WorkFits
  <2> QED
    BY <2>1, <2>2, <2>3
<1>13. CASE Arm
  <2>1. RouterFits(at)'
    BY <1>9, <1>13 DEF Arm
  <2>2. pc' = "import" /\ kind[run] = "lock"
    BY <1>2, <1>13 DEF Arm, Goto, StepFits
  <2>3. LastFits' /\ WorkFits'
    BY <1>1, <1>2, <1>5, <2>2 DEF LastFits, WorkFits
  <2> QED
    BY <2>1, <2>3
<1>14. CASE ArmFails
  <2>1. RouterFits(at)'
    BY <1>8, <1>9, <1>14 DEF ArmFails
  <2>2. pc' = "end" /\ out'.state = "preflight-failed"
    BY <1>14 DEF ArmFails, Ends, Goto, Outcome
  <2>3. LastFits' /\ WorkFits'
    BY <1>1, <1>2, <1>5, <2>2 DEF LastFits, WorkFits
  <2> QED
    BY <2>1, <2>3
<1>15. CASE ImportPart
  <2> DEFINE h == Grown(holds[at], part)
  <2>1. h \in Holding /\ ByReset(h) /\ ByReset(holds[at])
    BY <1>1, <1>2, HoldsType, ImportedHow DEF RouterFits
  <2>2. Imports(h) /\ UNCHANGED <<power, from, sched, saved, excuse, out, booted>> /\ pc = "import"
    BY <1>15 DEF ImportPart
  <2>3. RouterFits(at)' /\ holds'[at] = h
    <3> HIDE DEF h
    <3> QED
      BY <1>10, <2>1, <2>2
  <2>4. pc' = "import" \/ (pc' = "reconnect" /\ part = Parts)
    BY <1>15 DEF ImportPart, Goto
  <2>5. kind[run] # "reset" => holds[at] # Held(run, "wiped")
    BY <2>1 DEF ByReset, Held
  <2>6. Held(run, "booted") # Held(run, "wiped")
    BY DEF Held
  <2>7. CASE pc' = "import" /\ part # Parts
    <3>1. kind[run] = "reset" /\ excuse[at] = {} => h = Held(run, "booted")
      BY <1>1, <1>2, <2>2, <2>6, <2>7 DEF WorkFits, Grown
    <3> HIDE DEF h
    <3>2. WorkFits'
      BY <1>1, <1>2, <2>2, <2>3, <2>7, <3>1 DEF WorkFits
    <3> QED
      BY <1>1, <1>2, <1>5, <2>3, <2>7, <3>2 DEF LastFits
  <2>8. CASE pc' = "reconnect" /\ part = Parts
    <3>0. excuse[at] = {} => holds[at] # Held(run, "wiped")
      BY <1>1, <1>2, <2>2, <2>5, <2>6 DEF WorkFits
    <3>1. excuse[at] = {} => h = Held(run, "all")
      BY <2>8, <3>0 DEF Grown
    <3> HIDE DEF h
    <3>2. WorkFits'
      BY <1>1, <1>2, <2>2, <2>3, <2>8, <3>1 DEF WorkFits
    <3> QED
      BY <1>1, <1>2, <1>5, <2>3, <2>8, <3>2 DEF LastFits
  <2> QED
    BY <1>15, <2>4, <2>7, <2>8 DEF ImportPart, Goto
<1>16. CASE ImportFails
  <2>1. PICK applied \in {"none", "partial", "unknown"} : out' = ImportStops(applied)
    BY <1>16 DEF ImportFails
  <2>2. out'.state # "applied" /\ pc' = "reconnect" /\ pc = "import"
    BY <1>16, <2>1, StopsType DEF ImportFails, Goto
  <2>3. UNCHANGED <<power, from, sched, saved, excuse>>
    BY <1>16 DEF ImportFails
  <2>4. ByReset(holds[at]) /\ Cut(holds[at]) \in Holding /\ Grown(holds[at], part) \in Holding
    BY <1>1, <1>2, HoldsType DEF RouterFits
  <2>5. RouterFits(at)'
    <3>1. CASE UNCHANGED holds
      BY <1>8, <2>3, <3>1
    <3>2. CASE Imports(Cut(holds[at]))
      BY <1>10, <2>3, <2>4, <3>2, ImportedHow
    <3>3. CASE Imports(Grown(holds[at], part))
      BY <1>10, <2>3, <2>4, <3>3, ImportedHow
    <3> QED
      BY <1>16, <3>1, <3>2, <3>3 DEF ImportFails
  <2>6. LastFits' /\ WorkFits'
    BY <1>1, <1>2, <1>5, <2>2, <2>3 DEF LastFits, WorkFits
  <2> QED
    BY <2>5, <2>6
<1>17. ASSUME LockedOut
       PROVE  pc' = "revert" \/ (pc' = "end" /\ out'.state = "unknown")
  BY <1>17 DEF LockedOut, ResetLockedOut, Ends, Goto, Outcome
<1>18. ASSUME pc' = "revert" \/ (pc' = "end" /\ out'.state # "applied")
       PROVE  LastFits' /\ WorkFits'
  BY <1>1, <1>2, <1>5, <1>18 DEF LastFits, WorkFits
<1>19. sched[at][run] = "armed" /\ power[at] # "up" /\ kind[run] = "lock" => excuse[at] # {}
  <2>1. power[at] \in {"up", "loading", "reverting", "wiping"}
    BY <1>1 DEF DeployTypeOK
  <2> QED
    BY <1>1, <1>2, <2>1 DEF RouterFits, RunsAreKnown
<1>20. CASE Reconnect
  <2>1. RouterFits(at)' /\ UNCHANGED <<holds, power, sched, excuse>> /\ pc = "reconnect"
    BY <1>8, <1>20 DEF Reconnect, router, history
  <2>2. CASE LockedOut
    BY <1>17, <1>18, <2>1, <2>2
  <2>3. CASE pc' = (IF dm = "none" THEN "end" ELSE "print") /\ out' = out
    <3>1. CASE dm = "none"
      <4>1. kind[run] # "lock"
        BY <1>2, <2>1, <3>1 DEF StepFits
      <4>2. sched[at][run] # "armed"
        BY <1>1, <1>2, <4>1 DEF RouterFits
      <4>3. excuse[at] = {} /\ out.state = "applied" => Sealed(at, run)
        BY <1>1, <1>2, <2>1, <4>1, <4>2 DEF WorkFits, Sealed
      <4> QED
        BY <1>1, <1>2, <1>5, <2>1, <2>3, <3>1, <4>3 DEF LastFits, WorkFits, Sealed
    <3>2. CASE dm # "none"
      BY <1>1, <1>2, <1>5, <2>1, <2>3, <3>2 DEF LastFits, WorkFits
    <3> QED
      BY <3>1, <3>2
  <2> QED
    BY <1>20, <2>1, <2>2, <2>3 DEF Reconnect, Goto
<1>21. CASE DisarmPrint
  <2>1. RouterFits(at)' /\ UNCHANGED <<holds, power, sched, excuse>> /\ pc = "print"
    BY <1>8, <1>21 DEF DisarmPrint, router, history
  <2>2. CASE LockedOut
    BY <1>17, <1>18, <2>1, <2>2
  <2>3. CASE sched[at][run] = "armed" /\ pc' = "remove" /\ out' = out
    <3>1. kind[run] = "lock"
      BY <1>2, <2>1 DEF StepFits
    <3>2. excuse[at] = {} => power[at] = "up"
      BY <1>19, <2>3, <3>1
    <3> QED
      BY <1>1, <1>2, <1>5, <2>1, <2>3, <3>2 DEF LastFits, WorkFits
  <2> QED
    BY <1>21, <2>1, <2>2, <2>3 DEF DisarmPrint, Goto
<1>22. CASE DisarmRemove
  <2>1. UNCHANGED <<holds, power, from, saved, excuse>> /\ pc = "remove"
    BY <1>22 DEF DisarmRemove, history
  <2>2. \A n \in Runs : sched'[at][n] \in {"none", sched[at][n]}
    BY <1>1, <1>22 DEF DisarmRemove, DeployTypeOK
  <2>3. RouterFits(at)'
    BY <1>1, <1>2, <1>3, <1>5, <2>1, <2>2 DEF RouterFits, ByReset
  <2>4. CASE LockedOut
    BY <1>17, <1>18, <2>3, <2>4
  <2>5. CASE pc' = "end" /\ out' = out /\ sched' = [sched EXCEPT ![at][run] = "none"]
    <3>1. sched'[at][run] = "none"
      BY <1>1, <2>5 DEF DeployTypeOK
    <3>2. excuse[at] = {} /\ out.state = "applied" => Sealed(at, run)'
      BY <1>1, <1>2, <2>1, <3>1 DEF WorkFits, Sealed
    <3> QED
      BY <1>1, <1>2, <1>5, <2>1, <2>3, <2>5, <3>2 DEF LastFits, WorkFits
  <2> QED
    BY <1>22, <2>3, <2>4, <2>5 DEF DisarmRemove, Goto
<1>23. CASE Reverted \/ NotReverted
  <2>1. RouterFits(at)'
    BY <1>8, <1>23 DEF Reverted, NotReverted, router, history
  <2>2. pc' = "end" /\ out'.state # "applied"
    BY <1>23 DEF Reverted, NotReverted, Ends, Goto, Outcome
  <2> QED
    BY <1>18, <2>1, <2>2
<1>24. CASE Reset
  <2>1. UNCHANGED <<holds, sched, saved, excuse>> /\ pc' = "reboot"
    BY <1>24 DEF Reset, Goto
  <2>2. ~ booted'[at]
    BY <1>1, <1>24 DEF Reset, DeployTypeOK
  <2>3. \/ UNCHANGED <<power, from>>
        \/ power'[at] = "wiping" /\ from'[at] = run
    BY <1>1, <1>24 DEF Reset, DeployTypeOK
  <2>4. RouterFits(at)'
    BY <1>1, <1>2, <1>3, <1>5, <2>1, <2>3 DEF RouterFits, ByReset
  <2>5. LastFits' /\ WorkFits'
    BY <1>1, <1>2, <1>5, <2>1, <2>2 DEF LastFits, WorkFits
  <2> QED
    BY <2>4, <2>5
<1>25. CASE CameBack
  <2>1. RouterFits(at)' /\ UNCHANGED <<holds, power, excuse, booted, out>> /\ pc = "reboot"
    BY <1>8, <1>25 DEF CameBack, router, history
  <2>2. kind[run] = "reset" /\ out.state = "unknown"
    BY <1>2, <2>1 DEF StepFits
  <2>3. CASE pc' = "end"
    BY <1>18, <2>1, <2>2, <2>3
  <2>4. CASE pc' = "log" /\ Login(at) /\ booted[at]
    <3>1. excuse[at] = {} => power[at] = "up"
      BY <1>1, <1>2, <2>2, <2>4 DEF RouterFits, Login
    <3> QED
      BY <1>1, <1>2, <1>5, <2>1, <2>4, <3>1 DEF LastFits, WorkFits
  <2> QED
    BY <1>25, <2>1, <2>3, <2>4 DEF CameBack, Goto
<1>26. CASE BootstrapLog
  <2>1. UNCHANGED <<holds, power, from, sched, saved>> /\ pc = "log"
    BY <1>26 DEF BootstrapLog, router
  <2>2. excuse'[at] = excuse[at] \/ excuse'[at] = excuse[at] \cup {"unread"}
    BY <1>1, <1>26 DEF BootstrapLog, DeployTypeOK
  <2>3. RouterFits(at)'
    BY <1>8, <2>1, <2>2
  <2>4. kind[run] = "reset" /\ out.state = "unknown"
    BY <1>2, <2>1 DEF StepFits
  <2>5. CASE pc' = "end" /\ out' = out
    BY <1>18, <2>3, <2>4, <2>5
  <2>6. CASE pc' = "import" /\ holds[at].how = "booted" /\ excuse' = excuse
    <3>1. excuse[at] = {} => holds[at].run = run /\ power[at] = "up"
      BY <1>1, <1>2, <2>1, <2>4 DEF WorkFits
    <3>2. holds[at].run = run => holds[at] = Held(run, "booted")
      BY <1>1, <2>6 DEF DeployTypeOK, Holding, Held
    <3> QED
      BY <1>1, <1>2, <1>5, <2>1, <2>3, <2>6, <3>1, <3>2 DEF LastFits, WorkFits
  <2>7. CASE pc' = "import" /\ excuse' = [excuse EXCEPT ![at] = @ \cup {"unread"}]
    <3>1. excuse'[at] # {}
      BY <1>1, <2>7 DEF DeployTypeOK
    <3> QED
      BY <1>1, <1>2, <1>5, <2>3, <2>7, <3>1 DEF LastFits, WorkFits
  <2> QED
    BY <1>26, <2>5, <2>6, <2>7 DEF BootstrapLog, Goto
<1>27. CASE LastSweep
  <2>1. UNCHANGED <<holds, power, from, excuse, out>> /\ pc = "end" /\ pc' = "over"
    BY <1>27 DEF LastSweep, Goto, history
  <2>2. CASE UNCHANGED <<sched, saved>>
    BY <1>1, <1>2, <1>5, <1>8, <2>1, <2>2 DEF LastFits, WorkFits, Sealed
  <2>3. CASE SweepRows
    <3>1. sched'[at][run] \in {"none", sched[at][run]}
      BY <1>1, <2>3, SweepEffect
    <3>2. RouterFits(at)'
      BY <1>7, <2>1, <2>3
    <3> QED
      BY <1>1, <1>2, <1>5, <2>1, <3>1, <3>2 DEF LastFits, WorkFits, Sealed
  <2> QED
    BY <1>27, <2>2, <2>3 DEF LastSweep
<1> QED
  BY <1>11, <1>12, <1>13, <1>14, <1>15, <1>16, <1>20, <1>21, <1>22, <1>23, <1>24, <1>25, <1>26, <1>27 DEF DeployStep

\* What the router does of its own accord keeps it too: a dead-man that runs is
\* the deploy's own and was still to be removed, or the deploy is excused.
LEMMA OutsideTrue ==
    ASSUME JobInv, RouterInv, TrueInv, NEW r \in Routers, RouterStep(r) \/ Unlink(r) \/ Link(r),
           UNCHANGED <<started, rec>>
    PROVE  TrueInv'
<1>1. /\ DeployTypeOK /\ UNCHANGED <<kind, pc, at, run, out, touched, last, saved>>
      /\ pc # "idle" => at \in Routers /\ run \in Runs
  BY OrderFacts DEF JobInv, TypeOK, RouterStep, Fires, GoesDown, Boots, Unlink, Link, router, deploy, history
<1>2. RoutersFit /\ LastFits /\ WorkFits /\ AppliedIsSealed /\ StepFits /\ RunsAreKnown /\ RouterFits(r)
  BY DEF TrueInv, RoutersFit, RouterInv
<1>3. LastFits'
  BY <1>1, <1>2 DEF LastFits
<1>4. /\ power[r] \in {"up", "loading", "reverting", "wiping"} /\ last[r] \in Int
      /\ power[r] # "up" => from[r] \in Runs
      /\ \A n \in Runs : n \in Int
  BY <1>1, <1>2, RunNumbers DEF RunsAreKnown, DeployTypeOK
<1>5. ASSUME NEW m \in Runs, Fires(r, m) PROVE TrueInv'
  <2>1. /\ UNCHANGED <<holds, booted>> /\ sched[r][m] = "armed" /\ power[r] = "up"
        /\ \A q \in Routers : \A n \in Runs : sched'[q][n] = IF q = r /\ n = m THEN "ran" ELSE sched[q][n]
        /\ \A q \in Routers : power'[q] = IF q = r THEN "loading" ELSE power[q]
        /\ \A q \in Routers : from'[q] = IF q = r THEN m ELSE from[q]
        /\ \A q \in Routers \ {r} : excuse'[q] = excuse[q]
    BY <1>1, <1>5 DEF Fires, DeployTypeOK
  <2>2. excuse'[r] = {} => excuse[r] = {} /\ ~ (m < last[r]) /\ ~ (at = r /\ run = m /\ pc = "remove")
    <3>1. excuse'[r] = excuse[r] \cup (IF m < last[r] THEN {"stale"} ELSE {})
                                 \cup (IF at = r /\ run = m /\ pc = "remove" THEN {"raced"} ELSE {})
      BY <1>1, <1>5 DEF Fires, DeployTypeOK
    <3> QED
      BY <3>1
  <2>3. r \in touched[m] /\ m <= last[r] /\ kind[m] = "lock"
    BY <1>2, <2>1 DEF RouterFits
  <2>4. excuse'[r] = {} => m = last[r] /\ excuse[r] = {}
    BY <1>4, <2>2, <2>3
  <2>5. ASSUME NEW q \in Routers PROVE RouterFits(q)'
    <3>1. RouterFits(q)
      BY <1>2 DEF RoutersFit
    <3>2. power[q] # "up" => from[q] \in Runs
      BY <1>1, <1>2, RunNumbers DEF RunsAreKnown, DeployTypeOK
    <3> QED
      BY <1>1, <2>1, <2>3, <2>4, <3>1, <3>2 DEF RouterFits, ByReset
  <2>6. WorkFits'
    <3> SUFFICES ASSUME pc # "idle", excuse'[at] = {} PROVE WorkFits'
      BY <1>1 DEF WorkFits
    <3>1. CASE at # r
      BY <1>1, <1>2, <2>1, <3>1 DEF WorkFits, Sealed
    <3>2. CASE at = r
      <4>1. m = run /\ excuse[at] = {} /\ pc # "remove" /\ kind[run] = "lock"
        BY <1>2, <2>2, <2>3, <2>4, <3>2 DEF LastFits
      <4>2. pc \notin {"sweep", "preflight", "arm", "reset", "reboot", "log"}
        BY <1>2, <2>3, <3>2, <4>1 DEF LastFits, StepFits
      <4>3. power'[at] # "up"
        BY <2>1, <3>2
      <4>4. pc \in {"end", "over"} => out.state # "applied"
        BY <1>2, <2>1, <3>2, <4>1 DEF WorkFits, Sealed
      <4> QED
        BY <1>1, <4>1, <4>2, <4>3, <4>4 DEF WorkFits
    <3> QED
      BY <3>1, <3>2
  <2>7. AppliedIsSealed'
    <3> SUFFICES ASSUME NEW q \in Routers, NEW n \in Runs,
                        last'[q] = n, rec'[n].target[q].state = "applied", excuse'[q] = {}
                 PROVE  Sealed(q, n)'
      BY DEF AppliedIsSealed
    <3>1. excuse[q] = {} /\ (q = r => m = n)
      BY <1>1, <2>1, <2>4
    <3>2. Sealed(q, n)
      BY <1>1, <1>2, <3>1 DEF AppliedIsSealed
    <3> QED
      BY <2>1, <3>1, <3>2 DEF Sealed
  <2> QED
    BY <1>3, <2>5, <2>6, <2>7 DEF TrueInv, RoutersFit
<1>6. ASSUME GoesDown(r) PROVE TrueInv'
  <2>1. /\ UNCHANGED <<holds, booted, from, sched, excuse>> /\ power[r] = "loading"
        /\ \A q \in Routers : power'[q] = IF q = r THEN "reverting" ELSE power[q]
    BY <1>1, <1>6 DEF GoesDown, DeployTypeOK, history
  <2>2. ASSUME NEW q \in Routers PROVE RouterFits(q)'
    <3>1. RouterFits(q)
      BY <1>2 DEF RoutersFit
    <3> QED
      BY <1>1, <2>1, <3>1 DEF RouterFits, ByReset
  <2>3. WorkFits'
    <3>1. CASE at # r
      BY <1>1, <1>2, <2>1, <3>1 DEF WorkFits, Sealed
    <3>2. CASE at = r
      BY <1>1, <1>2, <2>1, <3>2 DEF WorkFits, Sealed
    <3> QED
      BY <3>1, <3>2
  <2>4. AppliedIsSealed'
    BY <1>1, <1>2, <2>1 DEF AppliedIsSealed, Sealed
  <2> QED
    BY <1>3, <2>2, <2>3, <2>4 DEF TrueInv, RoutersFit
<1>7. ASSUME Boots(r) PROVE TrueInv'
  <2>0. from[r] \in Runs
    BY <1>4, <1>7 DEF Boots
  <2>1. /\ power[r] \in {"reverting", "wiping"}
        /\ \A q \in Routers \ {r} : holds'[q] = holds[q] /\ sched'[q] = sched[q]
        /\ power[r] = "reverting" => holds'[r] = saved[r][from[r]].holds
        /\ power[r] = "wiping" => holds'[r].run = from[r]
        /\ \A n \in Runs : sched'[r][n] \in {"none", sched[r][n]}
    BY <1>1, <1>7, <2>0, BootsEffect
  <2>2. /\ UNCHANGED excuse
        /\ \A q \in Routers : power'[q] = IF q = r THEN "up" ELSE power[q]
        /\ \A q \in Routers \ {r} : from'[q] = from[q] /\ booted'[q] = booted[q]
        /\ booted'[r]
    BY <1>1, <1>7 DEF Boots, DeployTypeOK, history
  <2>3. power[r] = "wiping" => kind[from[r]] = "reset"
    BY <1>2 DEF RunsAreKnown
  <2>4. power[r] = "reverting" => kind[from[r]] = "lock" /\ sched'[r][from[r]] # "armed"
    BY <1>2, <2>0, <2>1 DEF RouterFits
  <2>5. ByReset(holds'[r])
    BY <1>2, <2>0, <2>1, <2>3 DEF RouterFits, ByReset
  <2>6. ASSUME NEW q \in Routers PROVE RouterFits(q)'
    <3>1. RouterFits(q)
      BY <1>2 DEF RoutersFit
    <3>2. CASE q = r
      BY <1>1, <2>1, <2>2, <2>5, <3>1, <3>2 DEF RouterFits, ByReset
    <3>3. CASE q # r
      BY <1>1, <2>1, <2>2, <3>1, <3>3 DEF RouterFits, ByReset
    <3> QED
      BY <3>2, <3>3
  <2>7. WorkFits'
    <3> SUFFICES ASSUME pc # "idle", excuse[at] = {} PROVE WorkFits'
      BY <1>1, <2>2 DEF WorkFits
    <3>1. CASE at # r
      BY <1>1, <1>2, <2>1, <2>2, <3>1 DEF WorkFits, Sealed
    <3>2. CASE at = r
      <4>1. from[r] = run
        BY <1>2, <2>1, <3>2 DEF RouterFits, LastFits
      <4>2. pc \notin {"sweep", "preflight", "arm", "reset", "remove"} /\ (pc \in {"end", "over"} => out.state # "applied")
        BY <1>2, <2>1, <3>2 DEF WorkFits, Sealed
      <4>3. pc \in {"log", "import", "reconnect"} => kind[run] = "lock"
        BY <1>2, <2>1, <3>2 DEF WorkFits
      <4>4. pc = "print" => kind[run] = "lock"
        BY <1>2 DEF StepFits
      <4>5. kind[run] = "lock" => sched'[at][run] # "armed"
        BY <2>1, <2>3, <2>4, <3>2, <4>1
      <4>6. pc \in {"reboot", "log"} => holds'[at].run = run
        BY <1>2, <2>1, <2>4, <3>2, <4>1 DEF StepFits
      <4> QED
        BY <1>1, <2>2, <3>2, <4>2, <4>3, <4>4, <4>5, <4>6 DEF WorkFits
    <3> QED
      BY <3>1, <3>2
  <2>8. AppliedIsSealed'
    <3> SUFFICES ASSUME NEW q \in Routers, NEW n \in Runs,
                        last'[q] = n, rec'[n].target[q].state = "applied", excuse'[q] = {}
                 PROVE  Sealed(q, n)'
      BY DEF AppliedIsSealed
    <3>1. Sealed(q, n)
      BY <1>1, <1>2, <2>2 DEF AppliedIsSealed
    <3>2. q # r
      BY <2>1, <3>1 DEF Sealed
    <3> QED
      BY <2>1, <2>2, <3>1, <3>2 DEF Sealed
  <2> QED
    BY <1>3, <2>6, <2>7, <2>8 DEF TrueInv, RoutersFit
<1>8. ASSUME Unlink(r) \/ Link(r) PROVE TrueInv'
  <2>1. UNCHANGED <<router, deploy, history, kind>>
    BY <1>8 DEF Unlink, Link
  <2> QED
    BY <1>2, <2>1 DEF TrueInv, RoutersFit, RouterFits, ByReset, LastFits, WorkFits, AppliedIsSealed, Sealed,
                      router, deploy, history
<1> QED
  BY <1>5, <1>6, <1>7, <1>8 DEF RouterStep

\* A step that changes nothing on the routers keeps it, when it records nothing
\* as applied that was not.
LEMMA RecordTrue ==
    ASSUME TrueInv, UNCHANGED <<router, kind, history>>,
           pc' = "idle" \/ UNCHANGED deploy, \A r \in Routers : last[r] <= started',
           \A r \in Routers : \A n \in Runs :
              rec'[n].target[r].state = "applied" =>
                 rec[n].target[r].state = "applied" \/ (excuse[r] = {} => Sealed(r, n))
    PROVE  TrueInv'
<1>1. RoutersFit /\ LastFits /\ WorkFits /\ AppliedIsSealed
  BY DEF TrueInv
<1>2. RoutersFit'
  BY <1>1 DEF RoutersFit, RouterFits, ByReset, router, history
<1>3. LastFits'
  BY <1>1 DEF LastFits, deploy, history
<1>4. WorkFits'
  BY <1>1 DEF WorkFits, Sealed, deploy, router, history
<1>5. AppliedIsSealed'
  BY <1>1 DEF AppliedIsSealed, Sealed, router, history
<1> QED
  BY <1>2, <1>3, <1>4, <1>5 DEF TrueInv

\* A run that starts changes the kind of one that nothing points at yet.
LEMMA StartTrue ==
    ASSUME CfgInv, TrueInv, NEW p, Start(p)
    PROVE  TrueInv'
<1>1. /\ DeployTypeOK /\ started \in RunOrNone /\ started \in Int /\ started' = started + 1 /\ started + 1 \in Runs
      /\ Unrecorded /\ NoTrace /\ RunsAreKnown
  BY RunNumbers, RunsAssumption DEF Start, CfgInv, JobInv, TypeOK, RouterInv
<1>2. UNCHANGED <<router, deploy, history, rec>> /\ pc = "idle"
  BY DEF Start, CfgInv, JobInv, JobFits, Finished
<1>3. \A n \in Runs : n # started + 1 => kind'[n] = kind[n]
  BY <1>1 DEF Start, DeployTypeOK
<1>4. \A r \in Routers : ~ Trace(r, started + 1)
  <2>1. rec[started + 1] = NoRecord
    BY <1>1 DEF Unrecorded
  <2>2. \A r \in Routers : rec[started + 1].target[r].state = "none"
    BY <2>1 DEF NoRecord, Target
  <2> QED
    BY <1>1, <2>2 DEF NoTrace, Nothing
<1>5. \A n \in RunOrNone : n <= started => n # started + 1 /\ n <= started'
  <2>1. started \in Int /\ started' = started + 1
    BY <1>1
  <2>2. \A n \in RunOrNone : n \in Int
    BY RunNumbers
  <2> QED
    BY <2>1, <2>2
<1>6. ASSUME NEW r \in Routers PROVE RouterFits(r)'
  <2>1. RouterFits(r)
    BY DEF TrueInv, RoutersFit
  <2>2. \A n \in Runs : sched[r][n] # "none" => n # started + 1
    BY <1>1 DEF RunsAreKnown
  <2>3. power[r] \in {"loading", "reverting"} => from[r] \in Runs /\ from[r] # started + 1
    <3>1. from[r] \in RunOrNone /\ from[r] <= started /\ (power[r] # "up" => from[r] # 0)
      BY <1>1 DEF RunsAreKnown, DeployTypeOK
    <3> QED
      BY <1>5, <3>1, RunNumbers
  <2>4. holds[r].run # started + 1 /\ \A m \in Runs : saved[r][m].holds.run # started + 1
    BY <1>4 DEF Trace
  <2>5. last[r] <= started'
    <3>1. last[r] \in RunOrNone /\ last[r] <= started
      BY <1>1, <2>1 DEF RouterFits, DeployTypeOK
    <3> QED
      BY <1>5, <3>1
  <2>6. ByReset(holds[r])' /\ \A m \in Runs : ByReset(saved[r][m].holds)'
    BY <1>2, <1>3, <2>1, <2>4 DEF RouterFits, ByReset, router
  <2> QED
    BY <1>2, <1>3, <2>1, <2>2, <2>3, <2>5, <2>6 DEF RouterFits, router, history
<1>7. LastFits' /\ WorkFits'
  BY <1>2 DEF LastFits, WorkFits, deploy
<1>8. AppliedIsSealed'
  BY <1>2 DEF TrueInv, AppliedIsSealed, Sealed, router, history
<1> QED
  BY <1>6, <1>7, <1>8 DEF TrueInv, RoutersFit

\* A deploy begins on a router its run has not touched, and is excused when
\* that router is on its way down already.
LEMMA BeginTrue ==
    ASSUME CfgInv, TrueInv, Begin
    PROVE  TrueInv'
<1> DEFINE q == order[i]
<1>1. JobInv /\ TypeOK /\ JobFits /\ DeployTypeOK /\ RunsAreKnown /\ BeforeItsTurn
  BY DEF CfgInv, JobInv, TypeOK, RouterInv
<1>2. /\ slot \in Runs /\ i \in DOMAIN order /\ q \in Routers
      /\ \A r \in Routers : rec'[slot].target[r].state = IF r = q THEN "applying" ELSE rec[slot].target[r].state
      /\ \A n \in Runs \ {slot} : rec'[n] = rec[n]
  BY <1>1, BeginEffect
<1>3. /\ UNCHANGED <<router, kind, touched, started>> /\ at' = q /\ run' = slot /\ job = "begin"
      /\ pc' \in {"over", "sweep"} /\ out'.state = "preflight-failed"
  BY DEF Begin, NoOutcome, Outcome
<1>4. /\ \A r \in Routers : last'[r] = IF r = q THEN slot ELSE last[r]
      /\ \A r \in Routers \ {q} : excuse'[r] = excuse[r]
      /\ excuse'[q] = {} => power[q] = "up"
  BY <1>1, <1>2 DEF Begin, DeployTypeOK
<1>5. slot = started /\ q \notin touched[slot] /\ slot # 0
  BY <1>1, <1>2, <1>3, RunNumbers, OrderFacts DEF JobFits, BeforeItsTurn
<1> HIDE DEF q
<1>6. ASSUME NEW r \in Routers PROVE RouterFits(r)'
  <2>1. RouterFits(r)
    BY DEF TrueInv, RoutersFit
  <2>2. \A n \in Runs : sched[r][n] # "none" => n <= slot
    BY <1>1, <1>5 DEF RunsAreKnown
  <2>3. CASE r = q
    <3>1. slot <= started
      BY <1>2, <1>5, RunNumbers
    <3> QED
      BY <1>3, <1>4, <2>1, <2>2, <2>3, <3>1 DEF RouterFits, ByReset, router
  <2>4. CASE r # q
    BY <1>3, <1>4, <2>1, <2>4 DEF RouterFits, ByReset, router
  <2> QED
    BY <2>3, <2>4
<1>7. LastFits'
  BY <1>2, <1>3, <1>4, <1>5 DEF LastFits
<1>8. WorkFits'
  BY <1>3, <1>4 DEF WorkFits, router
<1>9. AppliedIsSealed'
  <2> SUFFICES ASSUME NEW r \in Routers, NEW n \in Runs,
                      last'[r] = n, rec'[n].target[r].state = "applied", excuse'[r] = {}
               PROVE  Sealed(r, n)'
    BY DEF AppliedIsSealed
  <2>1. r # q
    BY <1>2, <1>4
  <2>2. rec[n].target[r].state = "applied"
    BY <1>2, <2>1
  <2>3. Sealed(r, n)
    BY <1>4, <2>1, <2>2 DEF TrueInv, AppliedIsSealed
  <2> QED
    BY <1>3, <2>3 DEF Sealed, router
<1> QED
  BY <1>6, <1>7, <1>8, <1>9 DEF TrueInv, RoutersFit

\* Every step keeps the truth of what is recorded as applied.
LEMMA NextTrue == ASSUME CfgInv, TrueInv, [Next]_vars PROVE TrueInv'
<1>1. JobInv /\ RouterInv /\ TypeOK /\ JobFits /\ DeployTypeOK
  BY DEF CfgInv, JobInv, TypeOK
<1>2. ASSUME started' = started PROVE \A r \in Routers : last[r] <= started'
  BY <1>2 DEF TrueInv, RoutersFit, RouterFits
<1>3. ASSUME NEW p, Start(p) PROVE TrueInv'
  BY <1>3, StartTrue
<1>4. ASSUME Record PROVE TrueInv'
  <2>1. UNCHANGED <<router, kind, history, deploy, started>>
    BY <1>4 DEF Record
  <2>2. CASE UNCHANGED rec
    BY <1>2, <2>1, <2>2, RecordTrue
  <2>3. CASE job' = "next"
    <3>1. /\ \A r \in Routers : rec'[slot].target[r].state # "applied"
          /\ \A n \in Runs \ {slot} : rec'[n] = rec[n]
      BY <1>1, <1>4, <2>3, RecordEffect
    <3> QED
      BY <1>2, <2>1, <3>1, RecordTrue
  <2> QED
    BY <1>4, <2>2, <2>3 DEF Record
<1>5. ASSUME NextRouter \/ Decided \/ Check PROVE TrueInv'
  <2>1. BetweenRouters
    BY <1>1, <1>5, Between
  <2>2. \A r \in Routers : \A n \in Runs :
          rec'[n].target[r].state = "applied" => rec[n].target[r].state = "applied"
    BY <2>1 DEF BetweenRouters, Passed
  <2>3. UNCHANGED <<router, kind, history, deploy, started>>
    BY <2>1 DEF BetweenRouters
  <2> QED
    BY <1>2, <2>2, <2>3, RecordTrue
<1>6. ASSUME Begin PROVE TrueInv'
  BY <1>6, BeginTrue
<1>7. ASSUME Finish PROVE TrueInv'
  <2>1. UNCHANGED <<router, kind, history, started>> /\ pc' = "idle" /\ pc = "over"
    BY <1>7 DEF Finish, NoDeploy
  <2>2. /\ slot \in Runs /\ \A n \in Runs \ {slot} : rec'[n] = rec[n]
        /\ \A r \in Routers : rec'[slot].target[r].state =
             IF r = at THEN out.state
             ELSE IF out.state = "applied" THEN rec[slot].target[r].state
             ELSE Passed(rec[slot].target[r].state)
    BY <1>1, <1>7, FinishVerdicts
  <2>3. run = slot
    BY <1>1, <2>1 DEF JobFits
  <2>4. out.state = "applied" /\ excuse[at] = {} => Sealed(at, slot)
    BY <2>1, <2>3 DEF TrueInv, WorkFits
  <2>5. \A r \in Routers : \A n \in Runs :
          rec'[n].target[r].state = "applied" =>
             rec[n].target[r].state = "applied" \/ (excuse[r] = {} => Sealed(r, n))
    BY <2>2, <2>4 DEF Passed
  <2> QED
    BY <1>2, <2>1, <2>5, RecordTrue
<1>8. ASSUME Deploying PROVE TrueInv'
  <2>1. DeployStep /\ UNCHANGED <<started, rec>>
    BY <1>8 DEF Deploying, jobvars
  <2> QED
    BY <1>1, <2>1, DeployTrue
<1>9. ASSUME NEW r \in Routers, External(r) PROVE TrueInv'
  <2>1. (RouterStep(r) \/ Unlink(r) \/ Link(r)) /\ UNCHANGED <<started, rec>>
    BY <1>9 DEF External, jobvars
  <2> QED
    BY <1>1, <2>1, OutsideTrue
<1>10. ASSUME Continue \/ Cancel \/ SendYes \/ UNCHANGED vars PROVE TrueInv'
  <2>1. UNCHANGED <<router, kind, history, deploy, started, rec>>
    BY <1>10 DEF Continue, Cancel, SendYes, vars, jobvars
  <2> QED
    BY <1>2, <2>1, RecordTrue
<1>11. ASSUME Restart PROVE TrueInv'
  <2>1. UNCHANGED <<router, kind, history, started>> /\ pc' = "idle"
    BY <1>11 DEF Restart, NoDeploy
  <2>2. ASSUME NEW r \in Routers, NEW n \in Runs, rec'[n].target[r].state = "applied"
        PROVE  rec[n].target[r].state = "applied"
    BY <1>1, <1>11, <2>2, RestartEffect
  <2> QED
    BY <1>2, <2>1, <2>2, RecordTrue
<1> QED
  BY <1>3, <1>4, <1>5, <1>6, <1>7, <1>8, <1>9, <1>10, <1>11 DEF Next, JobStep

\* cfgRunOne's record: a router it says was applied holds the whole template, and
\* nothing is left on it that could take it away; but for a dead-man that ran
\* between disarm's two commands, one an earlier deploy left behind, and a
\* bootstrap whose log could not be read.
THEOREM AppliedIsTrueHolds == Spec => []AppliedIsTrue
<1>1. Init => TrueInv
  <2> SUFFICES ASSUME Init PROVE TrueInv
    OBVIOUS
  <2>1. /\ pc = "idle" /\ started = 0
        /\ \A r \in Routers : power[r] = "up" /\ last[r] = 0 /\ holds[r] = Held(0, "all")
        /\ \A r \in Routers : \A n \in Runs : sched[r][n] = "none" /\ saved[r][n].holds = Held(0, "all")
    BY DEF Init, DeployInit, NoSched, NoBackup
  <2>2. ByReset(Held(0, "all"))
    BY DEF ByReset, Held
  <2>3. RoutersFit
    BY <2>1, <2>2 DEF RoutersFit, RouterFits
  <2>4. LastFits /\ WorkFits
    BY <2>1 DEF LastFits, WorkFits
  <2>5. AppliedIsSealed
    BY <2>1, RunNumbers DEF AppliedIsSealed
  <2> QED
    BY <2>3, <2>4, <2>5 DEF TrueInv
<1>2. CfgInv /\ TrueInv /\ [Next]_vars => TrueInv'
  BY NextTrue
<1>3. TrueInv => AppliedIsTrue
  BY DEF TrueInv, AppliedIsSealed, AppliedIsTrue, Sealed
<1> QED
  BY <1>1, <1>2, <1>3, CfgHolds, PTL DEF Spec
=============================================================================
