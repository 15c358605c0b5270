# MikroDash: TLA+ models

MikroDash is a Go web dashboard for MikroTik routers. The server keeps one API
connection to each router somebody watches, some thirty collectors read tables
over it, and what they read is pushed to browsers over websockets. The hard part
is what these share. Per router there is one connection, one read cache, one set
of streamed channels, one dormancy judge and one connectivity verdict, used by
collectors, websockets, timers, a scheduler and a reconnect loop at once. Each
object has its own mutex, and most operations decide under it, act outside it and
take it again. Ten modules are of that core.

The server also changes routers: it rolls configuration templates out over several of
them, with a way back when one cuts MikroDash off, and it keeps accounts on them that a
reconciler brings in line with what operators write. There the difficulty is failure:
a command that may or may not have run, a router that reboots, a restart of MikroDash in
the middle, and a record that has to be true of the router afterwards. Four modules are of
these two.

Contents: 1 inventory, 2 the modules and the code, 3 runs, 4 bounds, 5 fairness,
6 proofs, 7 where the code departs from what it says, 8 what is not modelled,
9 plan.

Run a model with `tlc -config X.cfg M` and check proofs with `tlapm MProofs.tla`.

## 1. Inventory

| Part | Code (`internal/`) | State | Operations | Used by, and how | What is hard | What makes it correct | Module |
|---|---|---|---|---|---|---|---|
| Coalescing read cache | `roscache/roscache.go` | per menu an `entry`: field union, ttl, value, in-flight channel | `Get` (`claim`, `widen`), `Invalidate`, `Reset` | collectors and the scheduler call `Get`; handlers call `Invalidate` after a write; the connect loop calls `Reset` | waiters on another caller's fetch; Reset and Invalidate while a fetch is out | one fetch per entry, nobody stranded, no answer too old or from before a reconnect | `RosCache` |
| Streamed menus: the channel | `roscache/stream.go` | `fill`: holders, command, `stop`, watchdog; the map of fills | `JoinStream`, `releaseHolder`, `reopenFor`, watchdog restart, close | `Scheduled` joins and releases | three locks (`c.mu`, `f.mu`, `openMu`), an open that fails, a restart against a release | one channel per menu, closed at the last release | `RosStream` |
| Streamed menus: rounds | `roscache/stream.go` | `rows`, `round`, `published`, `quietSince`, `restarts` | `absorb`, `finishRoundLocked`, `watch`, `snapshot`, `authoritative` | the router pushes rows; `Get` is served the round | the protocol marks no end of a table, and silence may be death or emptiness | complete rounds, no ghosts, an empty table shown empty in the end | `StreamRounds` |
| Collector subscriptions | `collect/scheduled.go` | `menu`, `release`, `unfill` | `begin`, `end`, `retune`, `resubscribe`, `fillIfStreaming` | Resume and Suspend from the connect loop, the judge, grace timers and websockets | calls into the cache outside `s.mu` | nothing leaks, what is held is for the current menu, the last word wins | `Scheduled` |
| Demand set and scheduler | `roscache/demand.go`, `scheduler.go` | subscriptions with cadences, `lastRun`, `lastDelivered` | `Subscribe`, release, `run`, `deliver`, `deliverStreamed` | collectors' callbacks run on the loop or on a stream's goroutine | two clocks; skipping what was just delivered | each subscriber is called often enough | `Scheduler` |
| Session manager | `session/session.go`, `server/fleet_holds.go`, `fleet.go`, `routers_api.go` | `live`; per session `refs`, `holds`, `closed`, `linger` | `Acquire`, `Release`, `Retain`, `Drop`, `idleOut`, `CloseNow`, `Shutdown` | websockets, `fleetSession`, `syncFleetHolds`, the router handlers, grace timers | timers that cannot be stopped any more, records read outside the lock | one session, not lost while used, ended when not | `SessionPool` |
| Session connection | `session/session.go` | `cfg`, `client`, `connected`, `closed`, `wake` | `connectLoop`, `adoptConnection`, `sleepOrWake`, `nudge`, `Reconfigure`, teardown | `SessionPool` ends it, an operator reconfigures it, `ConnState` is told | three goroutines take the client from one another | one socket, no orphan, prompt wake, outages reported | `SessionLink` |
| Connectivity verdict | `history/connectivity.go`, `connstate/tracker.go`, `server/conn_verdict.go`, `alert/routerstatus.go` | debounce, verdict, rows, alert | `Connected`, `Disconnected`, `SetThreshold`, `TickAll`, `emit`, `announce` | connect loops report, a one-second ticker decides, the alert follows | verdict and announcement are apart; debounce against reconnect | Offline means down, short drops are no outages, the newest row is the verdict | `ConnState` |
| Dormancy and page demand | `dormancy/*.go`, `session/dormancy_run.go`, `dormancy_targets.go`, `needs.go`, `server/demand.go` | `State` (streak, back-off, probe), `pendingResume`, rooms, grace timers | `Observe`, `Tick`, `WakeForFocus`, `ResumeCollector`, `applyDemand`, `suspendAfterGrace`, `replayResumes` | websockets focus and blur, the judge runs on deliveries, the connect block replays | decisions carried out after the lock, a focus before the link | a focus is not lost, evidence is not counted twice, rows wake a sleeper | `Dormancy`, `Demand` |
| Configuration deploys | `cfgdeploy/additions.go`, `deploy.go`, `reset.go`, `server/cfgjob.go`, `db/cfg.go` | the run in memory (one slot), its rows in the database, a backup and a scheduler on the router | `RunAdditions`, `RunReset`, `cfgStart`, `cfgExecute`, `cfgContinue`, `cfgCancel`, `InterruptCfgRuns` | handlers start, continue and cancel; the job's goroutine works router by router | each command may fail or run unanswered, a router may be cut off or reverting, a restart anywhere | the record is true of the router, the way back is there while it is needed, a rollout stops at the first failure | `CfgDeploy`, `CfgJob`, `Rollout` |
| Credential profiles | `credprof/credprof.go`, `server/credprof_job.go`, `credprof_api.go`, `db/credprof.go`, `credprof_sites.go` | profile, link and site rows; the accounts on the routers | `credSweep` (expand, due, apply or remove, record, finish), link, unlink, retry, save, delete, forget | handlers write rows and wake the reconciler, which works from copies of them | the row changes while its worker is at the router; a failed command that worked | no account without a row, no row that is wrong, what is owed is done in the end | `CredProf` |

The remaining parts (command gate, hub, alert evaluation, the server's other handlers, the database, the pure libraries and the front end) are listed with
their reasons in `PROJECT.json` and section 8.

How the parts meet: a websocket that selects a router acquires its session
(`SessionPool`), whose loop connects (`SessionLink`) and reports (`ConnState`). A
focused page resumes its collector (`Demand`), which subscribes and joins a
channel (`Scheduled`, `RosStream`); rounds (`StreamRounds`) or polls (`Scheduler`,
`RosCache`) deliver rows to it, and each delivery lets the judge look at it
(`Dormancy`). Each module models its neighbours by what they may do to it at any
moment, so it does not rely on another module's properties. Deploys and the credential
reconciler reach a router through its session and share no state with collection.

## 2. Modules and the code

In each model one step is one critical section of the mutex it is about, one call
made outside it, or one wait. Program counters (`pc`; in Demand, `where`) name the places
between. In StreamRounds, Scheduler and Demand the names that another module has too carry a
prefix or a word of their own (`RoundsInit`, `ClockTick`, `DemandSpec`), so that a proof module
can extend one of them beside its neighbour.
Definitions keep the Go names where they can; `PROJECT.json` maps each to its
lines. Definitions called *faulty form* are the code with one plausible mistake;
nothing uses them, and each property is tested by swapping one in.

**RosCache.** `heap` holds entry objects and `Live(m)` is the one the map has, so
that `Reset`, which replaces the map, orphans objects that fetches still hold.
`Begin`, `Claim`, `ReadProplist`, `Answer`, `Store`, `Return` are the parts of
`Get` between locks; closing the in-flight channel releases all waiters into
another claim. Rows are abstracted to the columns fetched, their age and the era
(count of writes and reconnects) they were read in.

**RosStream.** `Join`, `Reopen`, `StopOld`, `StreamOk`, `StreamFails`, `Opened` and `Failed` are
the pieces of `JoinStream` and `reopenFor`, `Release`, `CloseFill` and `StopLast` those of a
release, and `Judge`, `Restart`, `StopSilent`, `Restream`, `Restarted` those of the watchdog.
`chans` is what the router streams; `stop` is what the fill believes. A stream may fail to
open and the connection may drop.

**StreamRounds.** The router prints its table, fast or slow, and the table changes
between prints; the fill sees rows only. A reopen, by the watchdog, a join or a release, either
makes the router print at once (`Reprint`) or fails or stays silent (`Unheard`); the watchdog
ignores the error and tries again a window later. `seen` and `apart` are history: in how many
prints running a row was, and how many prints in a row began when the fill knew the one before
to be over, that is with its round closed or past the boundary.

**Scheduled.** Three callers run `begin`, `end`, `retune` and `resubscribe` step by
step. `subs` and `fills` are what the cache has given out, `rel` and `fill` the
callers' locals. `verdict` is history: the last word, and what it overlapped.

**Scheduler.** One menu, its subscribers, the loop's pass (due, check, read, call
one function after another) and rounds that a stream delivers on its own goroutine.
Time is a set of ages with a bounded lag for a pass.

**SessionPool.** `sess` keeps refs, holds, closed, whether the grace timer is armed
and how many timers are loose: fired, or no longer pointed at and thus impossible to
stop. Callers are websockets, fleet calls, the operator and the timer's goroutine;
`syncFleetHolds` is a loop over reasons that read the record before it started.

**SessionLink.** The loop, `Reconfigure` and `idleOut` as three goroutines with their
copies of the client. `wake` is the one-slot channel. `told` is what the tracker was
told.

**ConnState.** The debounce machine of `history.Connectivity` as a record, the tracker
and its ticker, the rows and the alert, and of the connect loop only what it reports.
The rows `TickAll` has decided and not yet written, and announcements not yet made,
are state.

**Dormancy** holds `dormancy.State` as operators on a record. **Demand** extends it
with one page-gated collector such as bandwidth, whose `Resume` does nothing while the
link is down: viewers and their grace timers, the funnel of `ResumeCollector`, the
judge and the connect loop. Timestamps are abstracted to `Stamps`, because they are
only compared for equality; a failed reading keeps the payload it had. `asked` and
`spell` are history. **MCDemand** gives TLC a view in which states that differ only by the
names of timestamps, by a shift of the clock, or by the age of something nothing asks about
any more are one. That loses nothing: actions and properties compare timestamps for equality
and times by differences, each only up to the cap the view keeps. With it time is in effect
unbounded.

**CfgDeploy** is one router's part of a deploy, one command or one wait at a time, and the
router itself. `holds` is how much of which run's template the router has, `shut` since which
run it takes no new login, `power` whether it is up, loading a backup, reverting or wiping,
`sched` and `saved` the dead-man's scheduler and backup of each run. The two kinds of
additions (with a dead-man or without) and a reset share `Preflight`, `ImportPart`,
`ImportFails` and `Reconnect`. A command that fails may have run, wherever its reply can be
lost. Assumed: a router reboots only because of a dead-man or a reset; a lost session does
not come back between the reply to one part and the command for the next; the wait for a
revert is longer than the dead-man's time, as its constants say (`NotReverted`); a dead-man
that has lost its backup or its scheduler does nothing. The checks before anything is sent
(identity, prepare, judge, restore point, upload, dry run) are one step.

**CfgJob** composes it with `cfgjob.go`: `slot` and `state` are the run in memory, `rec` the
database, `decide` the one-place channel on which continue and cancel answer, and `Restart` drops
everything but `rec` and the routers, then runs `InterruptCfgRuns`. A failing write of the
database is modelled where the code acts on it (`cfgRecordStart`). A router's outcome and, when
it halts the run, what becomes of the rest are recorded in one step.

**Rollout** is what a run promises, without any of this: routers in order, one at a time, the
second only after a person continued and the first worked, none after one that did not. `CfgJob`
instantiates it over the record of run `Watched` and checks `RunIsARollout`: every step of the
detailed model is a step of `Rollout` or leaves that record alone.

**CredProf** has one profile, its link rows, the site, and on each router which accounts exist
and whose they are. A sweep is `ExpandSites`, `ExpandOne`, `TakeDue`, the workers and
`FinishDeletes`; a worker is `Begin` (reads the profile), `Apply` or `Remove`, and `Record`, with
people free to act in between. Whether a backoff has run out is a choice; a save that changes
nothing the routers see is a stutter; the group's commands are part of `Apply`'s outcomes; the
reads of a delete are one step. A save is its first read, the read that decides the revision, the
write, and the queueing of the links. Of the database's own errors only the failing read of the
profile by a worker is modelled (`Begin`), because it drops a row; other failing statements leave
the row as it was, due at the next sweep. Only MikroDash changes accounts. `asked`, `forgotten`,
`misread`, `old` and `clash` are history.

## 3. Runs

| Run | Question | Distinct states |
|---|---|---|
| `roscache` | Two consumers, with Invalidate and Reset: one fetch at a time (`SingleFlight`), no answer too old (`AnswerWithinTtl`) or from before a reconnect (`ResetForgets`), no waiter without a fetch (`NoStrandedWaiter`) | 178,069 |
| `rosstream` | Two collectors, the watchdog, failures, two fills: one channel and none that nothing can stop (`OneChannel`), `HeldFillIsCurrent`, and `LastReleaseCloses` (liveness) | 293,973 |
| `stream_rounds` | Near and far prints, a channel that dies, reopens that fail or stay silent: `RowsIsACompleteRound`, `NoGhostRow`, `LivingChannelIsNotEmptied`, `EmptyTableIsShownEmpty` (liveness) | 1,220,204 |
| `scheduled` | Three callers over two menus: `NothingLeaks`, `HoldsFollowTheMenu`, `LastCallDecides` | 493,777 |
| `scheduler` | Two subscribers that change cadence on a streamed menu: `HeartbeatKept` | 5,669,640 |
| `session_pool` | A websocket, the timer and an operator who disables, enables, deletes, shuts down: `OneSession` | 1,655,431 |
| `session_pool_grace` | Two websockets and a fleet call against the timer: `UsedSessionStays`, `RefsCountViewers`, `IdleSessionCloses` (liveness) | 392,400 |
| `session_link` | The loop against failing links, refused credentials, Reconfigure and teardown: `OneConnection`, `NoOrphanConnection`, `ParkedLoopIsWoken`, `OutageIsReported`, `TeardownEnds` (liveness) | 68,819 |
| `conn_state` | One session, the ticker and changing thresholds, zero included: `OfflineMeansDown`, `NewestRowIsTheVerdict`, `ShortDropIsNotAnOutage` | 254,923 |
| `demand` | A viewer opens, leaves and reopens the page around a connect, a drop and a reconnect, over a menu that fills, empties and vanishes under the judge's eyes: `FocusIsNotLost`, `RowsWakeTheSleeper`, `OneReadingIsNotEnough` | 1,838,285 |
| `cfg_deploy` | A deploy with a dead-man, or a reset, and after it another one or a rollout over two routers, with failures everywhere, people and a restart: `DeadManIsKept`, `AppliedIsTrue`, `NothingMeansNothing`, `CancelWins`, and the refinement `RunIsARollout` | 1,063,652 |
| `cred_profiles` | The reconciler against operators, a router that fails at any command, a profile that cannot be read, and restarts: `AccountIsKnown`, `AppliedIsCurrent`, `RemovalIsKept`, `LinkIsServed` and `DeleteFinishes` (liveness) | 190,657 |

Type invariants are no questions of their own: each is proved for its module (section 6).

Two figures are exact rather than generous. `HeartbeatKept` allows two and a half
cadences, because a round delivered just after a tick makes the next two skip, and the time
of two passes and a delivery, because the pass after those may start late and read late; two
cadences are violated. `RowsWakeTheSleeper` allows the longest delay, a probe's timeout
and one judgement, and one tick less is violated. The properties of deploys and of credential
profiles name their exceptions in the same way: each exception is reachable, and without it
the property is violated (section 7).

## 4. Bounds, and why they are enough

Every bound is a CONSTANT named in its module, given in the cfg.

- Actors: two or three, since each race here is between two operations and what a third
  observes. `Callers`, `Holders`, `Subs`, `Viewers` stand for goroutines with the same
  code, permuted by symmetry where no liveness is checked.
- `MaxEra = 1` (RosCache): one write or one reconnect, at any moment of two reads. `MaxAge`
  caps ages at the largest tolerance, past which no comparison changes.
- `MaxFills = 2` (RosStream): a fill and its successor, so that late steps on a closed one
  meet the new one.
- `MaxReopens = 2` (StreamRounds), with `MinGap = 1 <= Boundary < Interval = 2`,
  so that prints come both nearer and farther apart than the boundary; two reopens, because the
  second can come while the round of the first is still open. Deaths and the watchdog's restarts, those
  that fail too, are not bounded. `Stale` is at least two intervals, as in the code. Three rows: two nameable and one not.
- `Handles` (Scheduled): one per caller and one for the collector, the most that can be held.
- `NRounds = 1`, `MaxLag = 2` (Scheduler): one fresh round identity and passes up to two
  ticks late, so that a pass that finds nothing due may itself outlast a shorter cadence; cadences 0 (demand without a tick), 2 and 3.
- `Sessions = 3`, `MaxLoose`, `MaxWrites = 2` (SessionPool): identifiers are reused once nothing
  points at a session, so three is the number alive at once, not a number of restarts; two
  operator actions allow disable followed by enable, or by delete. The router starts enabled
  or disabled. `VIEW Reachable` forgets sessions that nothing points at (safety run only).
- `Clients = 3` (SessionLink): the loop's, Reconfigure's and the teardown's. The clients are
  reused, so the number of reconnections is unbounded.
- `MaxTime` (ConnState 5): past both thresholds and a recovery. Demand's is never reached:
  its view makes states repeat (section 2). One viewer who leaves once and comes back, one
  drop, one loose timer, two changes of the menu: rows that go and come, or vanish.
- `Parts = 2` (CfgDeploy): a first file, where nothing applied means nothing, and a later one.
  `MaxRuns = 2`, so that the second run meets what the first left on its router; the first is
  of a kind that can cut MikroDash off, the second again that or a rollout over both routers.
  `MaxCrashes = 1`, anywhere.
- `MaxSaves = 2`, `MaxActs = 3` (CredProf): the creation and one save, and three more acts of
  people or restarts, which is link, unlink or delete, and one thing that comes between. Routers
  share nothing but the profile, so there is one; it has an account of somebody else's under the
  second name. The run passes with `MaxActs = 4` too, in four minutes. Two savers and three
  saves, safety only, were checked apart (10.1 million states).

`CHECK_DEADLOCK FALSE` stands where a bounded clock or supply ends the behaviours
(RosStream, ConnState, Demand, CfgJob). Elsewhere deadlock is checked.

## 5. Fairness

- `RosStream!FairSpec`: a holder inside a change goes on (WF), because opening a stream
  answers or times out; the closing release takes `openMu` in the end (SF), because a Go
  mutex hands itself over to a waiter that has starved for a millisecond; the watchdog's
  ticker fires (WF). Nobody is assumed to join or leave.
- `StreamRounds!RoundsFairSpec`: the clock, the print of a living channel, arrival of rows and the
  watchdog (WF). Table changes, deaths and reopens are not assumed, nor that a reopened channel
  delivers.
- `SessionPool!FairSpec`: calls return and timers that are not stopped fire (WF). Websockets,
  fleet calls and the operator act when they like.
- `SessionLink!FairSpec`: the loop and the other two goroutines go on (WF), because `Dial` has a
  timeout and every sleep ends. The link may live for ever.
- `CredProf!FairSpec`: the sweep and its workers go on (WF), because a ticker of a minute and a
  wake start it and every command has a timeout. A link that stays due gets a worker again and
  again (SF), because its backoff is bounded; its secret can be opened and its router answers at
  some of the attempts (SF), without which nothing could ever be applied. People need not act.

`CfgJob` states no liveness: a run that waits on its canary may wait for ever, by design.

## 6. Proofs

Proved with TLAPS for every value of the constants, under the named assumptions of each
module: names that are disjoint, bounds and thresholds that are naturals, `None` outside the
sets, and of a plan (`PlansAssumption`) that it has targets and names none twice, which
`cfgPlan` sees to. Each proof goes along an inductive invariant: the property, and what else
has to be true at each place in the code for a step to keep it. The invariants were
checked by TLC on the instance of the run before they were proved.

- **RosCacheProofs**: `TypeCorrect`, `SingleFlightHolds`, `NoStrandedWaiterHolds`,
  `AnswerWithinTtlHolds`, `ResetForgetsHolds`. `SingleFlight` says who the fetchers of an entry
  are and is not inductive: a waiter or a fetcher may hold an object that the map no longer
  has. `FlightInv` adds that the in-flight mark of each object, orphaned or not, names the one
  caller that is between claim and close on it, and that waiters wait only on a marked object.
  `ResetInv` adds that an object made after a reset holds values of that era at the earliest,
  and that the object a Get claimed is no older than its beginning. The module also holds the
  proofs of `Scheduler`: `SchedulerTypes` and `HeartbeatKeptHolds`, for any subscribers, cadences
  and lateness. `HeartInv` bounds the time since a subscriber was last called at each place of
  the loop, by the age of the last run and the lag of the pass (`HeardBy`), and says that
  whom a delivered round owes no call any more was called since it came (`RoundHeard`).
- **RosStreamProofs**: `TypeCorrect`, `OneChannelHolds`, `HeldFillIsCurrentHolds`. `ChansFit`
  says of every open channel which variable refers to it: `stop` while nobody has `openMu`, else the local of
  the owner, by the owner's place. It needs `LockFits` (who owns `openMu` is inside a change of
  that fill, and the reverse) and `AtFits` (who holds a fill is at it). The module also holds the
  proofs of `StreamRounds`: `RoundsTypes`, `RoundsAreComplete`, `NoRowIsAGhost` and
  `LivingChannelIsNotEmptiedHolds` (an action property), for any keys, boundary, interval, stale
  window and number of deaths and reopens, those that fail included. `RoundsInv` says what the open round and the served one hold at
  each row of a print: `ServedFits` follows a row that is in every print, `GhostFits` a row that
  has left while another keeps coming, which must close the round the first was in and then the
  next one. That a page is emptied only of rows no longer printed needs `SilenceFits`: a channel that
  delivers, and has been quiet since before its last print began, had no row in that print that
  it could name.
- **ScheduledProofs**: `TypeCorrect`, `NothingLeaksHolds`, `HoldsFollowTheMenuHolds`,
  `LastCallDecidesHolds`, for any number of callers, menus and handles. `NothingLeaks` needs
  `LocalsFit`: at each place in the code, which handles a caller carries and for which menu;
  without it a step could overwrite a local that still held something. The last word needs
  `LastWord`, what it means while calls are still under way: after an end nobody is on the
  way to a commit, and after a begin the collector is subscribed or somebody is on the way to a
  commit that will find the menu it read.
- **SessionPoolProofs**: `TypeCorrect`, `OneSessionHolds`, `UsedSessionStaysHolds`,
  `RefsCountViewersHolds`. `PoolInv` is what a caller carries at each place (`CallFits`, `WhyFits`)
  and that the session Shutdown took is never live again; with it the second look of `Acquire`
  and the identity check of `idleOut` give `OneSession`. The other two need one another
  (`UseInv`): refs count the users of the live session only if nobody uses another one, and a
  timer spares that session only if its refs and holds count them. Viewers and Retains are
  counted as two finite sets, so the proof rests on `FiniteSetTheorems`. The module also holds the
  proofs of `Demand`, for any sockets, menu, thresholds, back-offs, drops and changes, with three
  invariants. `FocusIsNotLostHolds` goes along `FocusInv`: while nothing has disturbed the focus,
  the collector runs or somebody is on the way to start it (`StartComes`), the link is up
  just where the connect loop's place says so (`LinkFits`), and no timer is armed and the judge puts
  nothing to sleep (`CalmFits`).
  `OneReadingIsNotEnoughHolds` (an action property) goes along `SpellInv`: the streak of empty
  readings is never more than the readings that were taken, and the times between them
  (`SpellFits`, `CountedFits`). `RowsWakeTheSleeperHolds` goes along `WakeInv`: the judge ticks in
  time, the next probe is never later than the back-off from the moment asked, and a probe that
  is out ends by its timeout (`Punctual`, `InTime`). Both use that two
  payloads of one stamp are one payload (`Stamped`). `ProbeTimeout` is assumed to be at least one tick, as it is in the code
  (30 s against a tick of 15).
- **SessionLinkProofs**: `TypeCorrect`, `OneConnectionHolds`, `NoOrphanConnectionHolds`,
  `ParkedLoopIsWokenHolds`, `OutageIsReportedHolds`. The invariant has one part per question:
  `HasClient` and `OnlyTheLoopsClient` (every open socket is the one the loop will still
  close), `NudgeIsKept` (from the copy of the endpoint on, a change leaves a token or a nudge
  on its way), `ReportsAgree` (the loop's flag and the tracker agree at each place).
- **ConnStateProofs**: `TypeCorrect` (for any number of sessions), `OfflineMeansDownHolds`,
  `ShortDropIsNotAnOutageHolds` (an action property)
  and `NewestRowIsTheVerdictHolds`, for any thresholds changed at any time, under the hypothesis
  `SoleSession` that one session reports. `NothingPendingWhileUp` is needed for the first: with
  a debounce pending under a connected loop, the ticker would declare an outage. `QuietFits`
  ties the debounce's deadline to the history of the drop; `RowsInv` says what the newest row
  will be once the rows decided and not yet written are. The hypothesis is needed too; section
  7 shows what a second loop does.
- **CfgJobProofs**: `TypeCorrect`, `DeadManIsKeptHolds`, `AppliedIsTrueHolds`,
  `NothingMeansNothingHolds`, `CancelWinsHolds` and the refinement `RunIsARolloutHolds`, for any
  number of routers, runs, files and restarts. `JobInv` relates the run in memory to its record
  (routers before this one worked, those after it are pending) and is all the refinement needs:
  each step of `CfgJob` is shown to be a step of `Rollout` or to leave the record alone.
  `RouterInv` carries the dead-man: its key part is `SessionIsHonest`, that a session
  with a router an armed deploy has shut is that deploy's own and before its fresh login, so
  that no sweep ever goes over it. `NoTrace` and `NoTraceYet` carry "nothing": neither the router
  nor any backup on it has anything of a run that is recorded so. `TrueInv` carries "applied":
  a router recorded as applied is sealed (all of the template, up, no dead-man of that run
  armed), which rests on what each place of the deploy knows when nothing excuses it, and on
  dead-men being of runs no later than the last. The proof uses the three exceptions of
  `AppliedIsTrue` and no other.
- **CredProfProofs**: `TypeCorrect`, `AccountIsKnownHolds`, `AppliedIsCurrentHolds`,
  `RemovalIsKeptHolds`, for any number of routers, names, savers and saves. The worker's copy of
  the row and of the profile is the strengthening: `NameIsKnown` (an account's name is the
  profile's, the worker's or a lost one), `RevisionIsOne` (who has the profile's revision has its
  name and secret), `WorkIsTrue` (what is about to be recorded is so on the router) and
  `NobodyApplies` (no worker applies what is asked to be removed).

Two properties turned out to be true only of the small bounds they had been checked with, and
the attempt to prove them is what showed it. `RowsIsACompleteRound` had excused prints closer than
the boundary; a channel reopened while the round of an earlier reopen is still open mixes
two prints as well, which takes two reopens. `HeartbeatKept` had allowed for one lag; a pass
that finds a menu not yet due and is slow about it delays the next one by another, which shows
only when a lag can be two ticks. Both are stated now with these delays, checked at the
larger bounds, and proved.

Only model-checked: liveness, which is outside this prover's reach (`LastReleaseCloses`,
`EmptyTableIsShownEmpty`, `IdleSessionCloses`, `TeardownEnds`, `LinkIsServed`, `DeleteFinishes`). Every
invariant and every safety property of a step that a run checks is a theorem.

## 7. Where the code departs from what it says

Each of the following is a property defined in its module that TLC refutes when it is
added to the cfg named (with the change in brackets, if any).

| Property | cfg | The code says | What it does |
|---|---|---|---|
| `AnswerCarriesWantedColumns` | `MCRosCache` | a waiter whose fields the fetch lacked refetches (`roscache.go:153`) | the waiter widened the union on its first claim, finds nothing new on the second and takes the narrow result |
| `NextGetRefetches` | `MCRosCache` | "Invalidate drops a menu's cached value, so the next Get refetches" (`roscache.go:259`) | a fetch that was out stores its older rows afterwards |
| `ChannelServesItsHolders` | `MCRosStream` | Merge is applied on every join and release (`stream.go:262`) | two joins merge in one order and reopen in the other, and the second holder's items are missing |
| `FailedJoinLeavesTheChannel` | `MCRosStream` | a failed join "leaves the channel as it was" (`stream.go:346`) | the old channel was stopped before the new one failed |
| `EveryHeldStreamIsWatched` | `MCRosStream` | the watchdog "covers every stream instead of one" (`stream.go:113`) | if the first join fails after a second holder came, nobody starts it |
| `FullTableIsNotEmptied` | `StreamRounds` | silence that survives a restart is "evidence of an empty table rather than of a broken one" (`stream.go:859`), though "IT CAN STILL BE WRONG" (`stream.go:865`) | the restart ignores that `open` failed (`stream.go:943`); after two windows without a channel, or with one that stays silent, the page of a full table is emptied |
| `FirstRowCorrects` | `StreamRounds` | the wrong emptiness "self-corrects on the first row that arrives" (`stream.go:870`) | the row goes into the open round, and the empty one is served until that round closes |
| `SuspendWinsOverResubscribe` | `MCScheduled` | Suspend means "stop wanting this menu" (`scheduled.go:484`) | resubscribe commits after an end that found nothing to release |
| `ResubscribeIsSafeInBegin` | `MCScheduled` | "`begin` picks it up" (`scheduled.go:434`) | begin sees the menu moved and gives up, and nobody is subscribed |
| `NoRoundTwice` | `MCScheduler` [NRounds = 2, MaxLag = 0] | a round just delivered "IS NOT DELIVERED AGAIN" (`scheduler.go:120`) | a round that completes between the check and the read is |
| `LateReleaseIsHarmless` | `MCSessionPool` | a release after CloseNow "returns harmlessly" (`session.go:1720`) | it is by router id, and takes a reference of the next session |
| `DeletedRouterIsLetGo` | `MCSessionPool` [AdminMay = {"delete"}, no SYMMETRY, no VIEW] | "a deleted router must stop being polled now" (`routers_api.go:534`) | `CloseNow` clears the holds in one critical section and tears down in the next; a `syncFleetHolds` that read the fleet before retains in between, and no later sync drops that hold |
| `ClientIsOfThisEndpoint` | `SessionLink` | "its next turn dials the new endpoint" (`session.go:1651`) | a Reconfigure during a dial closes nothing, and the old endpoint's client is adopted |
| `EndedSessionRunsNothing` | `SessionLink` | "Nothing can resume it" (`session.go:1857`) | the connect block starts collectors after the teardown's Stop |
| `OfflineMeansDown` | `MCConnState` [Sessions = {s1, s2}] | the verdict is about the router (`tracker.go:1`) | the loop of a closed session reports its late dial failure |
| `AlertFollowsTheVerdict` | `MCConnState` | the tracker "has already decided" (`routerstatus.go:21`) | announcements are made outside the mutex and may swap |
| `WantedRuns` | `MCDemand` | asking again "is what makes this safe" (`demand.go:109`) | the grace timer, or the judge, suspends after a focus has resumed |
| `DormantIsStopped` | `MCDemand` | "a sleeping collector holds none" (`dormancy.go:7`) | a resume that asked IsDormant earlier starts it |
| `UnwantedStops` | `MCDemand` | it runs "if anybody is in any room" (`demand.go:32`) | a resume remembered before the first connect is replayed unasked |
| `FailureKeepsTheRow` | `MCCredProf` | a confirmed removal "is the only path that deletes" a row; "every failure keeps it" (`credprof_job.go:318`) | a worker that cannot read the profile, for whatever reason, drops its row (`credprof_job.go:282`), and an account may stay that no row knows |

Passing properties beside these state the part of the promise the code does keep
(`LastCallDecides`, `FocusIsNotLost`, `RefsCountViewers`). `RowsIsACompleteRound` carries its
exceptions in itself: "rows is the last COMPLETE round" (`stream.go:151`) only where `apart = 3`,
since a new first row in a print closer than the boundary puts rounds out of phase, and a page that
a silence has emptied is empty until a round ends. `LivingChannelIsNotEmptied` is the part of the
empty-table rule that holds.

In deploys and credential profiles the same is written as an exception of the property, or
was met in reading.

| Where | The code says | What it does |
|---|---|---|
| `AppliedIsTrue`, "raced" (`cfgdeploy/additions.go:449`) | disarm "reports false when it has already fired" (`additions.go:446`) | a dead-man that fires between disarm's print and its remove is not seen: "applied" is recorded of a router that reverts |
| `AppliedIsTrue`, "stale" | the sweep at the head of a deploy takes away what earlier ones left | a sweep that fails stops nothing, and an old dead-man reverts a deploy that had been applied |
| `AppliedIsTrue`, "unread" (`reset.go:278`) | a bootstrap that "did not reach its end" ends the deploy (`reset.go:284`) | when the log cannot be read the import goes on, and "applied" may be recorded over half a bootstrap |
| `db/cfg.go:78` | an interrupted run names its restore point | the restore point is written to the row only with the outcome (`cfgjob.go:468`), so an interrupted target has none |
| `reset.go:272` | "It is wiped" | also said when the router refused the reset and merely cannot be reached |
| `AccountIsKnown`, `old` | unlinking takes the account away | after a change of username the account under the old one stays, and no row knows it |
| `AccountIsKnown`, `misread` (`server/credprof_job.go:280`) | "A link whose profile has gone is a row to drop" | any error of the read drops the row, of a profile that is there too |
| `RemovalIsKept`, `Applying` (`server/credprof_job.go`) | an unlink makes the row "removing" | an application under way records over it |
| `RemovalIsKept`, save (`db/credprof.go:322`) | a revision bump means "each device has to be told" | it puts links that are being removed back to pending, those of a profile to be deleted too |
| `AppliedIsCurrent`, `clash` (`db/credprof.go`) | a save that changes the account makes a new revision | two overlapping saves make one, and a router with the first's secret counts as up to date; a save that a Forget overtakes begins again at revision 1 (`db/credprof.go:135`), with the same effect on a worker that is still out |
| `DeleteFinishes`, Foreign (`db/credprof_sites.go:122`) | a conflicting link's "removal confirms on the first sweep" | `Remove` answers that the account is not ours, the row becomes orphaned, and the delete is held open |
| `credprof_schema.go:155` | "A router that is both stays 'direct'" | a router linked through its site first stays "site", because `LinkCredProfile` leaves a row alone |
| `credprof_schema.go:88` | the group is "NOT editable after creation" | a save writes it |
| `SaveWrite` | a forgotten profile is gone | a save that read it before writes it anew |
| `ExpandOne` | failed removals back off | the expansion marks the removals of site links again at every sweep, which resets the backoff |

## 8. Not modelled, and why

The repository has some 144,000 lines of Go, most of them sequential request handlers, payload
builders, validators, SQL and generated tables, where a state model adds nothing to a unit
test. The models cover about 5,300 lines: the concurrent core, the deploys and the credential
reconciler. Inside the modelled parts these
are left out: log lines, statistics, the rendering of commands and payloads, `AuthBackoff`'s
intervals, badge frames, priming, the operator's disabling of single collectors, and routers
other than one (they share `m.mu` and no state). Of deploys, `RunClone` (nothing calls it),
capture, preview, drift and the template language are left out; of credential profiles, a
second profile on the same router, the default profile, linking by provisioning and the purge of
a removed router. Vendored code (`third_party/go-routeros`) and
the router are external and appear only as what they may answer. `PROJECT.json` lists every
part with its reason.

## 9. Plan

The order is by how much of the system's behaviour rests on the part.

1. `RosLimit`: semaphore, open-stream level and `StreamsGone` against late releases
   (`roslimit.go:315`).
2. `AlertRun`: the sustained-level machine and its interruption by gaps; the evaluator against
   the clock tick, and announcements that swap (`tracker.go:191`).
3. `PollLoop` (`collect/collect.go`): start, stop, retime and tick. A callback that waits for `p.mu`
   while the loop is stopped and started may clear a timer that is not its own; the loop
   must never lose its last timer, and overlapping reads are possible when a read outlasts
   the interval.
4. `LoginProf` (a change of MikroDash's own account: put, fresh login, switch of the record, undo)
   and `Hub` (rooms, queues and removal).
5. Pure algorithms against a reference: the minute bucketer, coverage and spans.
6. Composition: `SessionPool` with `SessionLink` (a teardown and a redial of one router), and an
   abstract specification of a router's connection that `SessionLink` implements.
