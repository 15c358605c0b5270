---------------------------- MODULE StreamRounds ----------------------------
(***************************************************************************)
(* internal/roscache/stream.go: how one fill turns the rows its channel     *)
(* pushes into a table (absorb, finishRoundLocked, authoritative, snapshot  *)
(* and the row half of watch).                                              *)
(*                                                                         *)
(* `/print =interval=N` re-prints the whole table every interval and marks  *)
(* no end, so the fill finds a round's end from a repeated key or a quiet   *)
(* gap, and an emptied table from silence that survives a restart.  The     *)
(* channel may be reopened at any moment by a join or a release, and may    *)
(* die silently; a reopen may fail, or give a channel that stays silent.    *)
(* How the channel is changed is in RosStream; here a reopen is one step.   *)
(***************************************************************************)
EXTENDS Integers, FiniteSetsExt

CONSTANTS
    Keys,       \* 1..n: the rows a table can hold, in the router's order
    Unkeyed,    \* those of them keyOf cannot name
    Boundary,   \* f.boundary, in ticks
    Stale,      \* f.stale, in ticks
    MinGap,     \* the shortest and the longest the router waits between
    Interval,   \* two prints, in ticks
    MaxReopens, \* bound on reopens by a join or a release
    Never       \* a zero time.Time

ASSUME KeysAssumption == Keys \subseteq Nat /\ Unkeyed \subseteq Keys
ASSUME TimeAssumption ==
    /\ Boundary \in Nat \ {0} /\ Interval \in Nat \ {0} /\ Stale \in Nat
    /\ Boundary < Stale /\ 2 * Interval <= Stale /\ MinGap \in 1..Interval
ASSUME BoundsAssumption == MaxReopens \in Nat
ASSUME NeverAssumption == Never \notin Nat

Named == Keys \ Unkeyed

VARIABLES
    table,      \* the rows the router's table holds
    alive,      \* the channel delivers what the router prints
    pend,       \* rows of the running print still to be sent
    sincePrint, \* ticks since the last print began
    rows, round, published, restarted,  \* f.rows, f.round, f.published, f.restarts > 0
    lastRow,    \* ticks since f.lastRow
    quiet,      \* ticks since f.quietSince, or Never
    reopens,
    seen,       \* history: the prints in a row, up to 3, each named row was in
                \* (> 0) or missing from (< 0)
    apart       \* history: the prints in a row, up to 3 and the running one among
                \* them, that began when the fill knew the one before to be over

roundsVars == <<table, alive, pend, sincePrint, rows, round, published, restarted,
               lastRow, quiet, reopens, seen, apart>>

MaxTime == 2 * Stale + 1

RoundsTypeOK ==
    /\ table \in SUBSET Keys /\ pend \in SUBSET Keys /\ alive \in BOOLEAN
    /\ sincePrint \in 0..Interval
    /\ rows \in SUBSET Named /\ round \in SUBSET Named
    /\ published \in BOOLEAN /\ restarted \in BOOLEAN
    /\ lastRow \in 0..MaxTime /\ quiet \in (0..MaxTime) \cup {Never}
    /\ reopens \in 0..MaxReopens
    /\ seen \in [Named -> -3..3] /\ apart \in 0..3

\* JoinStream has opened the channel and no row has come yet.
RoundsInit ==
    /\ table \in SUBSET Keys
    /\ alive = TRUE /\ pend = table /\ sincePrint = 0
    /\ rows = {} /\ round = {} /\ published = FALSE /\ restarted = FALSE
    /\ lastRow = 0 /\ quiet = Never
    /\ reopens = 0
    /\ seen = [k \in Named |-> 0] /\ apart = 1

-----------------------------------------------------------------------------
(* The router *)

\* The rows of a print go out in the table's order; once the last has gone every
\* row has been in, or missing from, one more print.
Counted(k) ==
    IF k \in table THEN Min({3, 1 + Max({0, seen[k]})})
                    ELSE Max({-3, Min({0, seen[k]}) - 1})

Apart(over) == IF over THEN Min({3, apart + 1}) ELSE 0

\* A print begins; over: the fill knows that the one before has ended.
Printing(over) ==
    /\ pend' = table /\ sincePrint' = 0
    /\ seen' = IF table = {} THEN [k \in Named |-> Counted(k)] ELSE seen
    /\ apart' = Apart(over)

PrintTable ==
    /\ alive /\ pend = {} /\ sincePrint >= MinGap
    /\ Printing(round = {} \/ lastRow > Boundary)
    /\ UNCHANGED <<table, alive, rows, round, published, restarted, lastRow, quiet, reopens>>

\* The table changes between two prints.
TableChange(t) ==
    /\ pend = {} /\ t # table
    /\ table' = t
    /\ seen' = [k \in Named |-> IF (k \in t) = (k \in table) THEN seen[k] ELSE 0]
    /\ UNCHANGED <<alive, pend, sincePrint, rows, round, published, restarted,
                   lastRow, quiet, reopens, apart>>

ChannelDies ==
    /\ alive /\ pend = {}
    /\ alive' = FALSE
    /\ UNCHANGED <<table, pend, sincePrint, rows, round, published, restarted,
                   lastRow, quiet, reopens, seen, apart>>

-----------------------------------------------------------------------------
(* The fill *)

\* Faulty form: only a gap ends a round.
RepeatUnseen(k) == FALSE

\* Signal one: the key is already in the round.
Repeats(k) == k \in round

\* Signal two, in absorb and in watch: nothing for longer than the boundary.
GapEnds == round # {} /\ lastRow > Boundary

\* Faulty form: the row that closes a round is lost.
RoundWithoutCloser(k, ends) == IF ends THEN {} ELSE round \cup ({k} \cap Named)

\* The round after row k: a fresh one when k ended the last, and k in it if
\* keyOf can name it.
RoundWith(k, ends) == (IF ends THEN {} ELSE round) \cup ({k} \cap Named)

\* Faulty form: a row does not end the run of silence.
QuietGoesOn == quiet

\* "Any row ends the run of silence"
QuietAfterRow == Never

\* absorb: the row goes into the round, closing the one before it when either
\* signal says it is over (finishRoundLocked).
Absorb ==
    /\ pend # {}
    /\ LET k == Min(pend)
           ends == GapEnds \/ (k \in Named /\ Repeats(k))
       IN  /\ pend' = pend \ {k}
           /\ rows' = IF ends THEN round ELSE rows
           /\ published' = (published \/ ends)
           /\ round' = RoundWith(k, ends)
           /\ seen' = IF pend = {k} THEN [j \in Named |-> Counted(j)] ELSE seen
    /\ lastRow' = 0 /\ quiet' = QuietAfterRow
    /\ UNCHANGED <<table, alive, sincePrint, restarted, reopens, apart>>

\* The empty-table rule of watch, after the gap has closed what was open.
SilentTable(rs, r, pub) ==
    /\ restarted /\ quiet # Never /\ quiet > 2 * Stale
    /\ (pub /\ rs # {}) \/ (~pub /\ r = {})

\* open gave a channel that delivers: the router prints at once.
Reprint(over) == alive' = TRUE /\ Printing(over)

\* open failed, or gave a channel that stays silent: nothing comes any more, and
\* a print that was running breaks off.
Unheard ==
    /\ alive' = FALSE /\ pend' = {}
    /\ apart' = IF pend = {} THEN apart ELSE 0
    /\ UNCHANGED <<sincePrint, seen>>

\* Faulty form: a restart begins the silence afresh every time.
QuietAgain == 0

\* "SET ONCE, NOT ON EVERY RESTART"
QuietFrom == IF quiet = Never THEN 0 ELSE quiet

\* One tick of the watchdog.  A restart that fails goes unnoticed (`_ = f.open(s)`).
WatchTick ==
    LET rs1 == IF GapEnds THEN round ELSE rows
        r1 == IF GapEnds THEN {} ELSE round
        pub1 == published \/ GapEnds
        emptied == SilentTable(rs1, r1, pub1)
    IN  /\ pend = {}
        /\ rows' = IF emptied THEN {} ELSE rs1
        /\ round' = IF emptied THEN {} ELSE r1
        /\ published' = (pub1 \/ emptied)
        /\ \/ /\ lastRow < Stale
              /\ quiet' = IF emptied THEN 0 ELSE quiet
              /\ UNCHANGED <<alive, pend, sincePrint, restarted, lastRow, seen, apart>>
           \/ /\ lastRow >= Stale
              /\ Reprint(TRUE) \/ Unheard
              /\ restarted' = TRUE
              /\ quiet' = IF emptied THEN 0 ELSE QuietFrom
              /\ lastRow' = 0
        /\ UNCHANGED <<table, reopens>>

\* reopenFor: a join or a release has changed the command.  The old channel is
\* stopped before the new one is opened, and rows of the print that was running
\* are not sent; when open fails the fill has no channel and lastRow stands.
ReopenFor ==
    /\ reopens < MaxReopens
    /\ reopens' = reopens + 1
    /\ \/ Reprint(pend = {} /\ round = {}) /\ lastRow' = 0
       \/ Unheard /\ lastRow' \in {0, lastRow}
    /\ UNCHANGED <<table, rows, round, published, restarted, quiet>>

Later(n) == IF n = Never THEN Never ELSE IF n = MaxTime THEN n ELSE n + 1

\* Time.  The rows of a print arrive in a burst ("354 to 486 rows in 53 to
\* 132ms"), a living channel prints every Interval, and the watchdog looks
\* before a silence has outlasted Stale by more than a tick.
Tick ==
    /\ pend = {} /\ (alive => sincePrint < Interval)
    /\ lastRow <= Stale
    /\ sincePrint' = IF sincePrint = Interval THEN sincePrint ELSE sincePrint + 1
    /\ lastRow' = Later(lastRow) /\ quiet' = Later(quiet)
    /\ UNCHANGED <<table, alive, pend, rows, round, published, restarted, reopens,
                   seen, apart>>

RoundsNext == \/ PrintTable \/ ChannelDies \/ Absorb \/ WatchTick \/ ReopenFor \/ Tick
        \/ \E t \in SUBSET Keys : TableChange(t)

RoundsSpec == RoundsInit /\ [][RoundsNext]_roundsVars

\* Time passes, the router prints, rows arrive and the watchdog's ticker fires.
RoundsFairSpec == RoundsSpec /\ WF_roundsVars(PrintTable) /\ WF_roundsVars(Absorb) /\ WF_roundsVars(WatchTick) /\ WF_roundsVars(Tick)

-----------------------------------------------------------------------------
(* Get's first branch *)

\* The fill answers for the menu; before that Get polls.
Authoritative == published \/ round # {}

Snapshot == IF published THEN rows ELSE round

-----------------------------------------------------------------------------
(* Properties *)

(***************************************************************************)
(* absorb's reason for finding rounds: "a row that LEAVES the table never   *)
(* leaves the map".  A row missing from three prints running is not in what *)
(* the page is served, as long as one nameable row stayed throughout ("a    *)
(* repeat is certain unless the entire membership turned over at once"),    *)
(* however close together the prints came, whatever channel died or was     *)
(* reopened, and also in the middle of a print.                             *)
(***************************************************************************)
NoGhostRow ==
    \A j, k \in Named : seen[j] = 3 /\ seen[k] = -3 => k \notin Snapshot

(***************************************************************************)
(* `rows` is "the last COMPLETE round: what `snapshot` serves".  A row that *)
(* was in the last three prints is in what Get serves, at every moment of   *)
(* the print that follows, as long as the fill could tell those prints      *)
(* apart.  It cannot where they follow closer than the boundary, as those   *)
(* of a one-second stream may, nor where the channel is reopened with a     *)
(* round open or a print running: then a row may be missing from what is    *)
(* served for an interval.  And the page is empty, never short of some      *)
(* rows, from the moment a silence empties it until a round has ended: the  *)
(* watchdog says of itself that it "CAN STILL BE WRONG" where reopening     *)
(* brings no rows back.                                                     *)
(***************************************************************************)
RowsIsACompleteRound ==
    \A k \in Named :
        apart = 3 /\ seen[k] = 3 => k \in Snapshot \/ (published /\ rows = {})

(***************************************************************************)
(* The empty-table rule: a table that stays empty is shown empty at last,   *)
(* and one that was empty from the start becomes authoritative, so Get      *)
(* stops polling it.                                                        *)
(***************************************************************************)
EmptyTableIsShownEmpty ==
    <>[](table = {}) => <>[](Authoritative /\ Snapshot = {})

(***************************************************************************)
(* "Silence that survives a deliberate restart is ... evidence of an empty  *)
(* table rather than of a broken one": where the channel does deliver, the  *)
(* watchdog empties the page only if no row of the page's was in the last   *)
(* print.  A channel that could not be reopened, or stays silent, proves    *)
(* nothing, and the page of a full table may then be emptied.               *)
(***************************************************************************)
LivingChannelIsNotEmptied ==
    [][rows # {} /\ rows' = {} /\ alive => \A k \in Named : seen[k] <= 0]_roundsVars

(***************************************************************************)
(* Not kept by the code.  "Silence that survives a deliberate restart is    *)
(* therefore evidence of an empty table rather than of a broken one": a     *)
(* page is not emptied while a row of the table keeps being printed.  Two   *)
(* windows after a reopen that failed or stayed silent it is.               *)
(***************************************************************************)
FullTableIsNotEmptied ==
    [][rows # {} /\ rows' = {} => \A k \in Named : seen[k] <= 0]_roundsVars

(***************************************************************************)
(* Not kept by the code.  The wrong emptiness "self-corrects on the first   *)
(* row that arrives": once a row is in the open round the page has some.    *)
(* The row goes into the round, and an empty one is served until it closes. *)
(***************************************************************************)
FirstRowCorrects == round # {} => Snapshot # {}
=============================================================================
