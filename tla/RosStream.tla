------------------------------ MODULE RosStream -----------------------------
(***************************************************************************)
(* internal/roscache/stream.go: who opens and closes the channel of one     *)
(* stream-filled menu.                                                      *)
(*                                                                         *)
(* Collectors join and release a menu (JoinStream, releaseHolder).  Each    *)
(* decides under c.mu and f.mu what the channel should carry, and changes   *)
(* the channel afterwards under f.openMu alone, as does the watchdog of the *)
(* fill.  The connection may drop at any moment and Stream may fail.        *)
(*                                                                         *)
(* A step is one critical section of f.mu, one Stream call or one stop.     *)
(* What the rows do is in StreamRounds.                                     *)
(***************************************************************************)
EXTENDS Integers, FiniteSets

CONSTANTS
    Holders,    \* collectors that stream this menu, each at most one Join
    Items,      \* what a command can carry: interfaces, columns
    Want,       \* Want[h]: what h's own command asks for
    MaxFills,   \* bound on the streamFill objects made for the menu
    Watchdog,   \* the goroutine of f.watch, as an owner of f.openMu
    None        \* nil: no fill, no stop function, openMu free

ASSUME WantAssumption == Want \in [Holders -> SUBSET Items]
ASSUME FillsAssumption == MaxFills \in Nat \ {0}
ASSUME WatchdogAssumption == Watchdog \notin Holders /\ None \notin Holders \cup {Watchdog}

Fills == 1..MaxFills
Actors == Holders \cup {Watchdog}

\* An open channel on the router: the fill it feeds, the command it was opened
\* with and the goroutine that opened it.
Channel == [fill : Fills, cmd : SUBSET Items, by : Actors]

ASSUME NoneAssumption == None \notin Channel /\ None \notin Fills

VARIABLES
    current,    \* c.fills[menu]
    made,       \* how many fills have been made
    holders,    \* f.holders
    cmd,        \* f.cmd
    stop,       \* f.stop: the channel it would stop
    closed,     \* f.closed
    done,       \* f.done is closed
    openMu,     \* who holds f.openMu
    watch,      \* where f's watchdog stands
    moved,      \* f.gen has advanced since the watchdog last looked
    pc, at, want, old,  \* each collector's place, fill, merged command, `old`
    first,      \* its Join made the fill
    chans       \* channels open on the router

fillVars == <<current, made, holders, cmd, stop, closed, done, openMu, watch, moved>>
vars == <<fillVars, pc, at, want, old, first, chans>>

\* Outside; waiting for openMu to reopen after a join or a release; stopping the
\* old channel; in Stream; Stream has returned; a failed join; holding; waiting
\* for openMu to close; stopping the last channel.
PC == {"out", "join", "release", "stopping", "opening", "opened", "failed",
       "in", "closing", "closed"}
WatchPC == {"none", "idle", "judged", "stopping", "opening", "opened", "gone"}

TypeOK ==
    /\ current \in Fills \cup {None} /\ made \in 0..MaxFills
    /\ holders \in [Fills -> SUBSET Holders]
    /\ cmd \in [Fills -> SUBSET Items]
    /\ stop \in [Fills -> Channel \cup {None}]
    /\ closed \in [Fills -> BOOLEAN] /\ done \in [Fills -> BOOLEAN]
    /\ openMu \in [Fills -> Actors \cup {None}]
    /\ watch \in [Fills -> WatchPC] /\ moved \in [Fills -> BOOLEAN]
    /\ pc \in [Holders -> PC]
    /\ at \in [Holders -> Fills \cup {None}]
    /\ want \in [Holders -> SUBSET Items]
    /\ old \in [Holders -> Channel \cup {None}]
    /\ first \in [Holders -> BOOLEAN]
    /\ chans \in SUBSET Channel

Init ==
    /\ current = None /\ made = 0
    /\ holders = [f \in Fills |-> {}]
    /\ cmd = [f \in Fills |-> {}]
    /\ stop = [f \in Fills |-> None]
    /\ closed = [f \in Fills |-> FALSE] /\ done = [f \in Fills |-> FALSE]
    /\ openMu = [f \in Fills |-> None]
    /\ watch = [f \in Fills |-> "none"] /\ moved = [f \in Fills |-> FALSE]
    /\ pc = [h \in Holders |-> "out"]
    /\ at = [h \in Holders |-> None]
    /\ want = [h \in Holders |-> {}]
    /\ old = [h \in Holders |-> None]
    /\ first = [h \in Holders |-> FALSE]
    /\ chans = {}

\* mergeLocked: one command for a set of holders.
Merge(hs) == UNION {Want[h] : h \in hs}

-----------------------------------------------------------------------------
(* JoinStream and releaseHolder: the part under c.mu and f.mu *)

Join(h) ==
    /\ pc[h] = "out"
    /\ current # None \/ made < MaxFills
    /\ LET f == IF current = None THEN made + 1 ELSE current
       IN  /\ current' = f
           /\ made' = IF current = None THEN f ELSE made
           /\ holders' = [holders EXCEPT ![f] = @ \cup {h}]
           /\ cmd' = IF current = None THEN [cmd EXCEPT ![f] = Want[h]] ELSE cmd
           /\ at' = [at EXCEPT ![h] = f]
           /\ want' = [want EXCEPT ![h] = Merge(holders[f] \cup {h})]
    /\ first' = [first EXCEPT ![h] = (current = None)]
    /\ pc' = [pc EXCEPT ![h] = "join"]
    /\ UNCHANGED <<stop, closed, done, openMu, watch, moved, old, chans>>

\* Faulty form: a release takes the fill out of the map whoever is left.
LeaveDropsTheFill(h, f) ==
    /\ holders' = [holders EXCEPT ![f] = @ \ {h}]
    /\ current' = None

\* The holder leaves f; the last one takes the fill out of the map.
Leave(h, f) ==
    /\ holders' = [holders EXCEPT ![f] = @ \ {h}]
    /\ current' = IF holders[f] = {h} THEN None ELSE current

Release(h) ==
    /\ pc[h] = "in"
    /\ Leave(h, at[h])
    /\ \/ /\ holders[at[h]] = {h}
          /\ done' = [done EXCEPT ![at[h]] = TRUE]
          /\ pc' = [pc EXCEPT ![h] = "closing"]
          /\ UNCHANGED want
       \/ /\ holders[at[h]] # {h}
          /\ want' = [want EXCEPT ![h] = Merge(holders[at[h]] \ {h})]
          /\ pc' = [pc EXCEPT ![h] = "release"]
          /\ UNCHANGED done
    /\ first' = [first EXCEPT ![h] = FALSE]
    /\ UNCHANGED <<made, cmd, stop, closed, openMu, watch, moved, at, old, chans>>

\* JoinStream's error path: the holder is taken back out.
Failed(h) ==
    /\ pc[h] = "failed"
    /\ Leave(h, at[h])
    /\ \/ /\ holders[at[h]] = {h}
          /\ pc' = [pc EXCEPT ![h] = "closing"]
          /\ UNCHANGED at
       \/ /\ holders[at[h]] # {h}
          /\ pc' = [pc EXCEPT ![h] = "out"]
          /\ at' = [at EXCEPT ![h] = None]
    /\ first' = [first EXCEPT ![h] = FALSE]
    /\ old' = [old EXCEPT ![h] = None]
    /\ want' = [want EXCEPT ![h] = {}]
    /\ UNCHANGED <<made, cmd, stop, closed, done, openMu, watch, moved, chans>>

-----------------------------------------------------------------------------
(* reopenFor and open, under f.openMu *)

\* JoinStream and releaseHolder after reopenFor has succeeded.
Settled(h, f) ==
    /\ pc' = [pc EXCEPT ![h] = IF h \in holders[f] THEN "in" ELSE "out"]
    /\ at' = [at EXCEPT ![h] = IF h \in holders[f] THEN f ELSE None]
    /\ watch' = IF first[h] THEN [watch EXCEPT ![f] = "idle"] ELSE watch
    /\ first' = [first EXCEPT ![h] = FALSE]
    /\ want' = [want EXCEPT ![h] = {}]

\* Faulty form: reopenFor without f.openMu.
ReopenUnlocked(h) ==
    /\ pc[h] \in {"join", "release"}
    /\ LET f == at[h]
       IN  \/ /\ stop[f] # None /\ cmd[f] = want[h]
              /\ Settled(h, f)
              /\ UNCHANGED <<stop, cmd, old>>
           \/ /\ ~(stop[f] # None /\ cmd[f] = want[h])
              /\ old' = [old EXCEPT ![h] = stop[f]]
              /\ stop' = [stop EXCEPT ![f] = None]
              /\ cmd' = [cmd EXCEPT ![f] = want[h]]
              /\ pc' = [pc EXCEPT ![h] = "stopping"]
              /\ UNCHANGED <<at, watch, first, want>>
    /\ UNCHANGED <<current, made, holders, closed, done, openMu, moved, chans>>

\* A no-op when the channel already carries the command.
Reopen(h) ==
    /\ pc[h] \in {"join", "release"}
    /\ openMu[at[h]] = None
    /\ LET f == at[h]
       IN  \/ /\ stop[f] # None /\ cmd[f] = want[h]
              /\ Settled(h, f)
              /\ UNCHANGED <<openMu, stop, cmd, old>>
           \/ /\ ~(stop[f] # None /\ cmd[f] = want[h])
              /\ openMu' = [openMu EXCEPT ![f] = h]
              /\ old' = [old EXCEPT ![h] = stop[f]]
              /\ stop' = [stop EXCEPT ![f] = None]
              /\ cmd' = [cmd EXCEPT ![f] = want[h]]
              /\ pc' = [pc EXCEPT ![h] = "stopping"]
              /\ UNCHANGED <<at, watch, first, want>>
    /\ UNCHANGED <<current, made, holders, closed, done, moved, chans>>

StopOld(h) ==
    /\ pc[h] = "stopping"
    /\ chans' = chans \ {old[h]}
    /\ pc' = [pc EXCEPT ![h] = "opening"]
    /\ UNCHANGED <<fillVars, at, want, old, first>>

Opening(f, a) == [fill |-> f, cmd |-> cmd[f], by |-> a]

StreamOk(h) ==
    /\ pc[h] = "opening"
    /\ chans' = chans \cup {Opening(at[h], h)}
    /\ pc' = [pc EXCEPT ![h] = "opened"]
    /\ UNCHANGED <<fillVars, at, want, old, first>>

\* Stream fails; a release ignores it (the second disjunct).
StreamFails(h) ==
    /\ pc[h] = "opening"
    /\ openMu' = [openMu EXCEPT ![at[h]] = None]
    /\ \/ /\ h \in holders[at[h]]
          /\ pc' = [pc EXCEPT ![h] = "failed"]
          /\ UNCHANGED <<at, want, old>>
       \/ /\ h \notin holders[at[h]]
          /\ pc' = [pc EXCEPT ![h] = "out"]
          /\ at' = [at EXCEPT ![h] = None]
          /\ want' = [want EXCEPT ![h] = {}]
          /\ old' = [old EXCEPT ![h] = None]
    /\ UNCHANGED <<current, made, holders, cmd, stop, closed, done, watch, moved,
                   first, chans>>

\* Faulty form: open does not look whether the fill was closed meanwhile.
InstallUnchecked(f, ch) ==
    /\ stop' = [stop EXCEPT ![f] = ch]
    /\ moved' = [moved EXCEPT ![f] = TRUE]
    /\ UNCHANGED chans

\* The end of open: the channel becomes f.stop, or is stopped at once if the
\* fill was closed.
Install(f, ch) ==
    \/ /\ closed[f]
       /\ chans' = chans \ {ch}
       /\ UNCHANGED <<stop, moved>>
    \/ /\ ~closed[f]
       /\ stop' = [stop EXCEPT ![f] = ch]
       /\ moved' = [moved EXCEPT ![f] = TRUE]
       /\ UNCHANGED chans

Opened(h) ==
    /\ pc[h] = "opened"
    /\ LET f == at[h]
       IN  /\ Install(f, Opening(f, h))
           /\ Settled(h, f)
           /\ openMu' = [openMu EXCEPT ![f] = None]
    /\ old' = [old EXCEPT ![h] = None]
    /\ UNCHANGED <<current, made, holders, cmd, closed, done>>

-----------------------------------------------------------------------------
(* close *)

CloseFill(h) ==
    /\ pc[h] = "closing"
    /\ openMu[at[h]] = None
    /\ openMu' = [openMu EXCEPT ![at[h]] = h]
    /\ old' = [old EXCEPT ![h] = stop[at[h]]]
    /\ stop' = [stop EXCEPT ![at[h]] = None]
    /\ closed' = [closed EXCEPT ![at[h]] = TRUE]
    /\ pc' = [pc EXCEPT ![h] = "closed"]
    /\ UNCHANGED <<current, made, holders, cmd, done, watch, moved, at, want, first, chans>>

StopLast(h) ==
    /\ pc[h] = "closed"
    /\ chans' = chans \ {old[h]}
    /\ openMu' = [openMu EXCEPT ![at[h]] = None]
    /\ old' = [old EXCEPT ![h] = None]
    /\ at' = [at EXCEPT ![h] = None]
    /\ pc' = [pc EXCEPT ![h] = "out"]
    /\ UNCHANGED <<current, made, holders, cmd, stop, closed, done, watch, moved, want, first>>

-----------------------------------------------------------------------------
(* watch *)

\* What the watchdog never writes.
Others == UNCHANGED <<current, made, holders, cmd, closed, done, pc, at, want, old, first>>

\* A tick that finds the fill open and silent for f.stale.
Judge(f) ==
    /\ watch[f] = "idle" /\ ~closed[f]
    /\ watch' = [watch EXCEPT ![f] = "judged"]
    /\ moved' = [moved EXCEPT ![f] = FALSE]
    /\ Others /\ UNCHANGED <<stop, openMu, chans>>

Restart(f) ==
    /\ watch[f] = "judged" /\ openMu[f] = None
    /\ \/ /\ closed[f] \/ moved[f]
          /\ watch' = [watch EXCEPT ![f] = "idle"]
          /\ UNCHANGED openMu
       \/ /\ ~(closed[f] \/ moved[f])
          /\ watch' = [watch EXCEPT ![f] = "stopping"]
          /\ openMu' = [openMu EXCEPT ![f] = Watchdog]
    /\ Others /\ UNCHANGED <<stop, moved, chans>>

StopSilent(f) ==
    /\ watch[f] = "stopping"
    /\ watch' = [watch EXCEPT ![f] = "opening"]
    /\ chans' = chans \ {stop[f]}
    /\ stop' = [stop EXCEPT ![f] = None]
    /\ Others /\ UNCHANGED <<openMu, moved>>

\* `_ = f.open(s)`: a failure is left for the next silent window.
Restream(f) ==
    /\ watch[f] = "opening"
    /\ \/ /\ chans' = chans \cup {Opening(f, Watchdog)}
          /\ watch' = [watch EXCEPT ![f] = "opened"]
          /\ UNCHANGED openMu
       \/ /\ watch' = [watch EXCEPT ![f] = "idle"]
          /\ openMu' = [openMu EXCEPT ![f] = None]
          /\ UNCHANGED chans
    /\ Others /\ UNCHANGED <<stop, moved>>

Restarted(f) ==
    /\ watch[f] = "opened"
    /\ Install(f, Opening(f, Watchdog))
    /\ watch' = [watch EXCEPT ![f] = "idle"]
    /\ openMu' = [openMu EXCEPT ![f] = None]
    /\ Others

WatchExits(f) ==
    /\ watch[f] = "idle" /\ done[f]
    /\ watch' = [watch EXCEPT ![f] = "gone"]
    /\ Others /\ UNCHANGED <<stop, openMu, moved, chans>>

\* The API connection drops and every channel on it with it.
ConnectionLost ==
    /\ chans # {}
    /\ chans' = {}
    /\ UNCHANGED <<fillVars, pc, at, want, old, first>>

-----------------------------------------------------------------------------
Change(h) == \/ Reopen(h) \/ StopOld(h) \/ StreamOk(h) \/ StreamFails(h) \/ Opened(h)
             \/ Failed(h) \/ CloseFill(h) \/ StopLast(h)

Watch(f) == \/ Restart(f) \/ StopSilent(f) \/ Restream(f) \/ Restarted(f) \/ WatchExits(f)

Next == \/ \E h \in Holders : Join(h) \/ Release(h) \/ Change(h)
        \/ \E f \in Fills : Judge(f) \/ Watch(f)
        \/ ConnectionLost

Spec == Init /\ [][Next]_vars

\* A goroutine that has begun to change a channel carries on: stop returns, and
\* Stream returns one way or the other.  Strong for the wait on openMu in close:
\* a sync.Mutex is handed to a waiter it has starved for a millisecond.
FairSpec ==
    /\ Spec
    /\ \A h \in Holders : SF_vars(CloseFill(h)) /\ WF_vars(Change(h))
    /\ \A f \in Fills : WF_vars(Watch(f))

-----------------------------------------------------------------------------
(* Properties *)

(***************************************************************************)
(* openMu's reason for being: a join, a release and the watchdog together   *)
(* never have two channels of one fill open on the router, and a channel    *)
(* nobody is changing is the one f.stop would stop.  One that no stop       *)
(* function refers to would be streamed for the life of the connection.     *)
(***************************************************************************)
OneChannel ==
    /\ \A c, d \in chans : c.fill = d.fill => c = d
    /\ \A c \in chans : openMu[c.fill] = None => stop[c.fill] = c

(***************************************************************************)
(* The map holds the fill exactly while it has holders, so a second         *)
(* collector joins the channel that is open rather than opening its own,    *)
(* and nobody is left holding a closed fill.                                *)
(***************************************************************************)
HeldFillIsCurrent ==
    \A f \in Fills :
        /\ holders[f] # {} <=> current = f
        /\ holders[f] # {} => ~closed[f]

(***************************************************************************)
(* JoinStream: "The channel closes when the last holder releases".          *)
(***************************************************************************)
LastReleaseCloses ==
    \A f \in Fills :
        (made >= f /\ holders[f] = {}) ~> ~(\E c \in chans : c.fill = f)

\* No collector is between deciding and having changed the channel.
Quiescent == \A h \in Holders : pc[h] \in {"out", "in"}

(***************************************************************************)
(* Join.Merge: "Called on every join and every release, so a holder leaving *)
(* NARROWS the channel as well as a holder arriving widening it."  Once     *)
(* nobody is changing it, an open channel carries all its holders asked for.*)
(***************************************************************************)
ChannelServesItsHolders ==
    \A f \in Fills :
        Quiescent /\ holders[f] # {} /\ stop[f] # None => Merge(holders[f]) \subseteq cmd[f]

(***************************************************************************)
(* JoinStream on a failed join: "a later one failing leaves the channel as  *)
(* it was, which is right -- the holders already there are still being      *)
(* served".                                                                 *)
(***************************************************************************)
FailedJoinLeavesTheChannel ==
    \A h \in Holders : pc[h] = "failed" /\ old[h] # None => stop[at[h]] # None

(***************************************************************************)
(* streamStale: the watchdog "covers every stream instead of one".  Once    *)
(* nobody is changing it, a menu somebody holds has a watchdog.             *)
(***************************************************************************)
EveryHeldStreamIsWatched ==
    \A f \in Fills : Quiescent /\ holders[f] # {} => watch[f] \notin {"none", "gone"}

=============================================================================
