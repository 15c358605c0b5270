--------------------------- MODULE ConnStateProofs ---------------------------
(***************************************************************************)
(* ConnState: what holds for any thresholds and any clock.                 *)
(*                                                                         *)
(* OfflineMeansDown is not inductive: the ticker would declare an outage   *)
(* under a connected loop if a debounce were still pending.  Inv adds that *)
(* none is.  It needs the session to be the only one that reports: the     *)
(* loop of a closed session reports a dial that fails late, and arms the   *)
(* debounce under its connected successor.                                 *)
(***************************************************************************)
EXTENDS ConnState, TLAPS

Machines ==
    [prev : {"never", "up", "down"}, thresh : Thresholds \cup {DefaultSec},
     timerLive : BOOLEAN, timerCold : BOOLEAN, timerAt : Nat, timerObs : Nat,
     declaredOffline : BOOLEAN]

Machine ==
    /\ c \in Machines
    /\ now \in Nat
    /\ pc \in [Sessions -> {"none", "top", "dial", "adopted", "up", "dropped", "gone"}]

NothingPendingWhileUp == \A s \in Sessions : pc[s] = "up" => ~c.timerLive

Inv == Machine /\ OfflineMeansDown /\ NothingPendingWhileUp

\* A record of booleans, instants and words is what each method leaves.
LEMMA MachineKept ==
    ASSUME Machine
    PROVE  /\ ConnectedMachine \in {m \in Machines : m.prev = "up" /\ ~m.timerLive}
           /\ DisconnectedMachine \in Machines
           /\ TickMachine \in Machines
<1>. USE ThresholdsAssumption
<1>1. c.thresh \in Nat /\ now + c.thresh \in Nat
  <2>1. c.thresh \in Thresholds \cup {DefaultSec} /\ now \in Nat
    BY DEF Machine, Machines
  <2>2. \A t \in Thresholds \cup {DefaultSec}, n \in Nat : t \in Nat /\ n + t \in Nat
    OBVIOUS
  <2>. HIDE DEF Machine
  <2>. QED BY <2>1, <2>2, Zenon
<1>2. ConnectedMachine \in {m \in Machines : m.prev = "up" /\ ~m.timerLive}
    BY DEF Machine, Machines, ConnectedMachine, Idle
<1>3. \A b \in BOOLEAN : Pending(c, b) \in Machines
    BY <1>1 DEF Machine, Machines, Pending
<1>4. Pending([c EXCEPT !.prev = "down"], TRUE) \in Machines
    BY <1>1 DEF Machine, Machines, Pending
<1>5. DisconnectedMachine \in Machines
    BY <1>3, <1>4 DEF Machine, Machines, DisconnectedMachine
<1>6. TickMachine \in Machines
    BY DEF Machine, Machines, TickMachine, Idle
<1>. QED BY <1>2, <1>5, <1>6

\* The session of the router is the only one.
SoleSession == \A s, t \in Sessions : s = t

LEMMA InvInit == Init => Inv
BY ThresholdsAssumption DEF Init, Inv, Machine, Machines, OfflineMeansDown, NothingPendingWhileUp

LEMMA InvNext ==
    ASSUME SoleSession
    PROVE  Inv /\ [Next]_vars => Inv'
<1>. SUFFICES ASSUME Inv, [Next]_vars PROVE Inv'
  OBVIOUS
<1>. USE ThresholdsAssumption
<1>. USE DEF Inv, Machine, Machines, OfflineMeansDown, NothingPendingWhileUp
<1>1. ASSUME NEW s \in Sessions, Open(s) PROVE Inv'
  BY <1>1 DEF Open
<1>2. ASSUME NEW s \in Sessions, Close(s) PROVE Inv'
  BY <1>2 DEF Close
<1>3. ASSUME NEW s \in Sessions, Turn(s) PROVE Inv'
  BY <1>3 DEF Turn
<1>4. ASSUME NEW s \in Sessions, DialFails(s) PROVE Inv'
  BY <1>4, MachineKept DEF DialFails, Disconnected, SoleSession
<1>5. ASSUME NEW s \in Sessions, Adopt(s) PROVE Inv'
  BY <1>5 DEF Adopt
<1>6. ASSUME NEW s \in Sessions, Connected(s) PROVE Inv'
  BY <1>6, MachineKept DEF Connected
<1>7. ASSUME NEW s \in Sessions, LinkDown(s) PROVE Inv'
  BY <1>7 DEF LinkDown
<1>8. ASSUME NEW s \in Sessions, DropReported(s) PROVE Inv'
  BY <1>8, MachineKept DEF DropReported, Disconnected, SoleSession
<1>9. CASE TickAll
  BY <1>9, MachineKept DEF TickAll, Due
<1>10. ASSUME NEW t \in Thresholds, SetThreshold(t) PROVE Inv'
  BY <1>10 DEF SetThreshold
<1>11. ASSUME NEW x \in Callers, Emit(x) \/ Announce(x) PROVE Inv'
  BY <1>11 DEF Emit, Announce
<1>12. CASE Advance
  BY <1>12 DEF Advance
<1>13. CASE UNCHANGED vars
  BY <1>13 DEF vars
<1>. QED BY <1>1, <1>2, <1>3, <1>4, <1>5, <1>6, <1>7, <1>8, <1>9, <1>10,
            <1>11, <1>12, <1>13 DEF Next, Loop

\* A router that a session is connected to, and that said so to the tracker,
\* is not held Offline: for any thresholds, changed at any time, provided no
\* loop of an earlier session is left (connstate.Tracker, connectLoop).
THEOREM OfflineMeansDownHolds ==
    ASSUME SoleSession
    PROVE  Spec => []OfflineMeansDown
<1>1. Inv => OfflineMeansDown
    BY DEF Inv
<1>. QED BY <1>1, InvInit, InvNext, PTL DEF Spec
-----------------------------------------------------------------------------
(* What the methods of history.Connectivity leave and report *)

\* Disconnected: nothing while a debounce runs; else a row at once when there is
\* no threshold, and a debounce when there is one.
LEMMA DisconnectedLeaves ==
    ASSUME Machine
    PROVE  /\ c.timerLive => DisconnectedMachine = c /\ DisconnectedEffect = NoEffect
           /\ ~ c.timerLive /\ c.thresh = 0 =>
                /\ DisconnectedMachine.prev = "down" /\ ~ DisconnectedMachine.timerLive
                /\ DisconnectedEffect = Verdict(<<Row(FALSE, now)>>, FALSE)
           /\ ~ c.timerLive /\ c.thresh # 0 =>
                /\ DisconnectedMachine.prev = IF c.prev = "never" THEN "down" ELSE c.prev
                /\ DisconnectedMachine.timerLive /\ DisconnectedMachine.timerObs = now
                /\ DisconnectedMachine.timerAt = now + c.thresh
                /\ DisconnectedEffect.rows = <<>> /\ DisconnectedEffect.status \in {<<>>, <<FALSE>>}
           /\ DisconnectedMachine.thresh = c.thresh
BY DEF Machine, Machines, DisconnectedMachine, DisconnectedEffect, Pending, NoEffect, Verdict

\* The ticker: the debounce is over, and its row is of when it began.
LEMMA TickLeaves ==
    ASSUME Machine
    PROVE  /\ ~ TickMachine.timerLive /\ TickMachine.thresh = c.thresh
           /\ TickMachine.prev = IF c.timerCold THEN c.prev ELSE "down"
           /\ TickEffect.rows = <<Row(FALSE, c.timerObs)>> /\ TickEffect.status \in {<<>>, <<FALSE>>}
BY DEF Machine, Machines, TickMachine, TickEffect, Idle, Verdict

-----------------------------------------------------------------------------
(* Short drops *)

\* The least threshold is at most the one in force, and a debounce that runs
\* ends no sooner than it says after the last moment a link was up.
QuietFits ==
    /\ quiet \in [since : Nat, least : Nat]
    /\ quiet.since <= now /\ quiet.least <= c.thresh
    /\ c.timerLive => quiet.since + quiet.least <= c.timerAt

LEMMA QuietInit == Init => QuietFits
BY ThresholdsAssumption DEF Init, QuietFits

LEMMA QuietDisconnected ==
    ASSUME Inv, QuietFits, NEW s \in Sessions, Disconnected(s), UNCHANGED <<now, quiet>>
    PROVE  QuietFits' /\ (c.prev = "up" /\ c'.prev = "down" => quiet.since + quiet.least <= now)
<1>1. Machine /\ now \in Nat /\ c.thresh \in Nat /\ quiet.since \in Nat /\ quiet.least \in Nat
  BY ThresholdsAssumption DEF Inv, Machine, Machines, QuietFits
<1>2. c' = c \/ c' = DisconnectedMachine
  BY DEF Disconnected
<1>3. CASE c' = c
  BY <1>3 DEF QuietFits
<1>4. CASE c' = DisconnectedMachine
  <2>1. /\ c.timerLive => c' = c
        /\ ~ c.timerLive /\ c.thresh = 0 => ~ c'.timerLive
        /\ ~ c.timerLive /\ c.thresh # 0 => (c'.prev # c.prev => c.prev # "up") /\ c'.timerAt = now + c.thresh
        /\ c'.thresh = c.thresh
    BY <1>1, <1>4, DisconnectedLeaves
  <2> QED
    BY <1>1, <2>1 DEF QuietFits
<1> QED
  BY <1>2, <1>3, <1>4

LEMMA QuietNext ==
    ASSUME SoleSession
    PROVE  Inv /\ QuietFits /\ [Next]_vars =>
              QuietFits' /\ (c.prev = "up" /\ c'.prev = "down" => quiet.since + quiet.least <= now)
<1> SUFFICES ASSUME Inv, QuietFits, [Next]_vars
             PROVE  QuietFits' /\ (c.prev = "up" /\ c'.prev = "down" => quiet.since + quiet.least <= now)
  OBVIOUS
<1> DEFINE Kept == QuietFits' /\ (c.prev = "up" /\ c'.prev = "down" => quiet.since + quiet.least <= now)
<1>0. Machine /\ now \in Nat /\ c \in Machines /\ c.thresh \in Nat /\ Thresholds \subseteq Nat
  BY ThresholdsAssumption DEF Inv, Machine, Machines
<1>1. ASSUME UNCHANGED <<now, c, quiet>> PROVE Kept
  BY <1>1 DEF QuietFits
<1>2. ASSUME NEW s \in Sessions, Open(s) \/ Close(s) \/ Turn(s) \/ Adopt(s) PROVE Kept
  BY <1>1, <1>2 DEF Open, Close, Turn, Adopt
<1>3. ASSUME NEW s \in Sessions, DialFails(s) \/ DropReported(s) PROVE Kept
  BY <1>3, QuietDisconnected DEF DialFails, DropReported
<1>4. ASSUME NEW s \in Sessions, Connected(s) PROVE Kept
  <2>1. c' = ConnectedMachine /\ UNCHANGED <<now, quiet>>
    BY <1>4 DEF Connected
  <2>2. c'.prev = "up" /\ ~ c'.timerLive /\ c'.thresh = c.thresh
    BY <1>0, <2>1 DEF Machines, ConnectedMachine, Idle
  <2> QED
    BY <2>1, <2>2 DEF QuietFits
<1>5. ASSUME NEW s \in Sessions, LinkDown(s) PROVE Kept
  <2>1. UNCHANGED <<now, c>> /\ quiet' = [since |-> now, least |-> c.thresh] /\ ~ c.timerLive
    BY <1>5 DEF LinkDown, Inv, NothingPendingWhileUp
  <2> QED
    BY <1>0, <2>1 DEF QuietFits
<1>6. ASSUME TickAll PROVE Kept
  <2>1. UNCHANGED <<now, quiet>> /\ c' = TickMachine /\ c.timerLive /\ now >= c.timerAt
    BY <1>6 DEF TickAll, Due
  <2>2. ~ c'.timerLive /\ c'.thresh = c.thresh /\ c.timerAt \in Nat
    BY <1>0, <2>1, TickLeaves DEF Machines
  <2> QED
    BY <1>0, <2>1, <2>2 DEF QuietFits
<1>7. ASSUME NEW t \in Thresholds, SetThreshold(t) PROVE Kept
  <2>1. /\ UNCHANGED now /\ c' = [c EXCEPT !.thresh = t] /\ t \in Nat
        /\ quiet' = [quiet EXCEPT !.least = IF t < quiet.least THEN t ELSE quiet.least]
    BY <1>0, <1>7 DEF SetThreshold
  <2>2. c'.thresh = t /\ c'.prev = c.prev /\ c'.timerLive = c.timerLive /\ c'.timerAt = c.timerAt /\ c.timerAt \in Nat
    BY <1>0, <2>1 DEF Machines
  <2> QED
    BY <1>0, <2>1, <2>2 DEF QuietFits
<1>8. ASSUME NEW x \in Callers, Emit(x) \/ Announce(x) PROVE Kept
  BY <1>1, <1>8 DEF Emit, Announce
<1>9. ASSUME Advance PROVE Kept
  <2>1. /\ UNCHANGED c /\ now' = now + 1
        /\ quiet' = IF Up = {} THEN quiet ELSE [since |-> now + 1, least |-> c.thresh]
    BY <1>9 DEF Advance
  <2>2. Up # {} => ~ c.timerLive
    BY DEF Up, Inv, NothingPendingWhileUp
  <2> QED
    BY <1>0, <2>1, <2>2 DEF QuietFits
<1> QED
  BY <1>1, <1>2, <1>3, <1>4, <1>5, <1>6, <1>7, <1>8, <1>9 DEF Next, Loop, vars

\* The tracker declares an outage only when no reported link was up for as long
\* as the least threshold since: for any thresholds, changed at any time, with
\* the ticker at any moment (Connectivity.Disconnected, Connectivity.Tick).
THEOREM ShortDropIsNotAnOutageHolds ==
    ASSUME SoleSession
    PROVE  Spec => ShortDropIsNotAnOutage
<1>1. Inv /\ QuietFits /\ [Next]_vars => [c.prev = "up" /\ c'.prev = "down" => quiet.since + quiet.least <= now]_vars
  BY QuietNext
<1>2. Inv /\ QuietFits /\ [Next]_vars => QuietFits'
  BY QuietNext
<1> QED
  BY <1>1, <1>2, InvInit, InvNext, QuietInit, PTL DEF Spec, ShortDropIsNotAnOutage
-----------------------------------------------------------------------------
(* The newest row *)

Rows == {<<>>} \cup {<<w>> : w \in [connected : BOOLEAN, ts : Nat]}
Effects == [rows : Rows, status : {<<>>, <<TRUE>>, <<FALSE>>}]

\* A row that a caller has yet to hand on.
Has(x) == effect[x].rows # <<>>
At(x) == effect[x].rows[1].ts
Says(x) == effect[x].rows[1].connected

RowTypes ==
    /\ effect \in [Callers -> Effects]
    /\ newest \in [connected : BOOLEAN, ts : Nat] /\ newest.ts <= now
    /\ \A x \in Callers : Has(x) => At(x) <= now

\* A connect loop reports only when it has handed on what it reported before.
LoopIsAtRest == \A s \in Sessions : pc[s] \in {"dial", "adopted", "dropped"} => ~ Has(s)

\* A debounce begins before it ends, and with everything of the loop's handed on;
\* no row is younger than it.
DebounceFits ==
    /\ c.timerCold => c.timerLive /\ c.prev = "down"
    /\ c.timerLive => /\ c.timerObs < c.timerAt /\ c.timerObs <= now /\ newest.ts <= c.timerObs
                      /\ \A s \in Sessions : ~ Has(s)
                      /\ Has(Ticker) => At(Ticker) <= c.timerObs

\* The ticker's row is a loss, and older than the moment it was decided.
TickerFits == Has(Ticker) => ~ Says(Ticker) /\ At(Ticker) < now

\* The rows still to be handed on, the latest of them last, end at the verdict:
\* the loop's row if it has one, else the ticker's if it is not older than the
\* newest that was written, else that one.
RowsEndAtVerdict ==
    /\ \A s \in Sessions : Has(s) =>
          /\ (Says(s) <=> c.prev = "up") /\ newest.ts <= At(s)
          /\ Has(Ticker) => At(Ticker) <= At(s) /\ (c.prev = "up" => At(Ticker) < At(s))
    /\ (\A s \in Sessions : ~ Has(s)) =>
          /\ c.prev = "up" => newest.connected /\ (Has(Ticker) => At(Ticker) < newest.ts)
          /\ c.prev # "up" => ~ newest.connected \/ (Has(Ticker) /\ newest.ts <= At(Ticker))

RowsInv == RowTypes /\ LoopIsAtRest /\ DebounceFits /\ TickerFits /\ RowsEndAtVerdict

\* What a report is made of.
LEMMA ReportParts ==
    /\ NoEffect \in Effects /\ NoEffect.rows = <<>>
    /\ \A b, up \in BOOLEAN : \A t \in Nat :
          LET e == Verdict(<<Row(b, t)>>, up)
          IN  e \in Effects /\ e.rows = <<Row(b, t)>> /\ e.rows # <<>> /\ e.rows[1].ts = t /\ e.rows[1].connected = b
    /\ \A b \in BOOLEAN : Verdict(<<>>, b) \in Effects /\ Verdict(<<>>, b).rows = <<>>
    /\ \A b \in BOOLEAN : \A t \in Nat : /\ <<Row(b, t)>> \in Rows /\ <<Row(b, t)>> # <<>>
                                         /\ <<Row(b, t)>>[1].ts = t /\ <<Row(b, t)>>[1].connected = b
<1>1. \A b \in BOOLEAN : <<b>> \in {<<>>, <<TRUE>>, <<FALSE>>}
  OBVIOUS
<1>2. \A b \in BOOLEAN : \A t \in Nat :
        /\ Row(b, t) \in [connected : BOOLEAN, ts : Nat] /\ Row(b, t).ts = t /\ Row(b, t).connected = b
  BY DEF Row
<1>3. \A w \in [connected : BOOLEAN, ts : Nat] : <<w>> \in Rows /\ <<w>> # <<>> /\ <<w>>[1] = w
  BY DEF Rows
<1>4. <<>> \in Rows
  BY DEF Rows
<1>5. \A rs \in Rows : \A b \in BOOLEAN : Verdict(rs, b) \in Effects /\ Verdict(rs, b).rows = rs
  BY <1>1 DEF Verdict, Effects
<1>6. NoEffect \in Effects /\ NoEffect.rows = <<>>
  BY <1>4 DEF NoEffect, Effects
<1> QED
  BY <1>2, <1>3, <1>4, <1>5, <1>6
LEMMA RowsInit == Init => RowsInv
<1> SUFFICES ASSUME Init PROVE RowsInv
  OBVIOUS
<1>1. effect = [x \in Callers |-> NoEffect] /\ newest = Row(FALSE, 0) /\ now = 0
  BY DEF Init
<1>2. effect \in [Callers -> Effects] /\ \A x \in Callers : ~ Has(x)
  BY <1>1, ReportParts DEF Has
<1>3. newest \in [connected : BOOLEAN, ts : Nat] /\ newest.ts = 0 /\ ~ newest.connected
  BY <1>1 DEF Row
<1>4. ~ c.timerLive /\ ~ c.timerCold /\ c.prev = "never"
  BY DEF Init
<1>5. Ticker \in Callers /\ Sessions \subseteq Callers
  BY DEF Callers
<1>9. newest.ts <= now
  <2>1. now = 0 /\ newest.ts = 0
    BY <1>3 DEF Init
  <2> QED
    BY <2>1
<1>6. RowTypes
  BY <1>2, <1>3, <1>9 DEF RowTypes
<1>7. LoopIsAtRest /\ DebounceFits /\ TickerFits
  BY <1>2, <1>4, <1>5 DEF LoopIsAtRest, DebounceFits, TickerFits
<1>8. RowsEndAtVerdict
  BY <1>2, <1>3, <1>4, <1>5 DEF RowsEndAtVerdict
<1> QED
  BY <1>6, <1>7, <1>8 DEF RowsInv

\* A row has its type.
LEMMA RowType ==
    ASSUME RowTypes, NEW x \in Callers, Has(x)
    PROVE  /\ effect[x].rows[1] \in [connected : BOOLEAN, ts : Nat] /\ At(x) \in Nat /\ Says(x) \in BOOLEAN
           /\ effect[x].rows[1].ts = At(x) /\ effect[x].rows[1].connected = Says(x)
<1>1. PICK w \in [connected : BOOLEAN, ts : Nat] : effect[x].rows = <<w>>
  BY DEF RowTypes, Effects, Rows, Has
<1> QED
  BY <1>1 DEF At, Says

\* Steps of the connect loop that report nothing.
LEMMA RowsRest ==
    ASSUME RowsInv, UNCHANGED <<now, c, effect, newest>>, LoopIsAtRest'
    PROVE  RowsInv'
BY DEF RowsInv, RowTypes, DebounceFits, TickerFits, RowsEndAtVerdict, Has, At, Says

\* The tracker is told of a loss by a loop that is at rest.
LEMMA RowsDisconnected ==
    ASSUME SoleSession, Inv, RowsInv, NEW s \in Sessions, ~ Has(s), Disconnected(s), UNCHANGED <<now, newest>>,
           pc' = [pc EXCEPT ![s] = "top"]
    PROVE  RowsInv'
<1>1. /\ Machine /\ RowTypes /\ LoopIsAtRest /\ DebounceFits /\ TickerFits /\ RowsEndAtVerdict
      /\ now \in Nat /\ c.thresh \in Nat /\ s \in Callers /\ Ticker \in Callers /\ s # Ticker
      /\ newest \in [connected : BOOLEAN, ts : Nat] /\ newest.ts \in Nat /\ newest.ts <= now
      /\ effect \in [Callers -> Effects]
      /\ \A t \in Sessions : t = s
  BY ThresholdsAssumption, TickerAssumption
     DEF SoleSession, Inv, Machine, Machines, RowsInv, RowTypes, Callers
<1>2. LoopIsAtRest'
  BY <1>1 DEF LoopIsAtRest, Machine, Inv
<1>3. CASE reportedDown[s] \/ c.timerLive
  <2>1. c' = c /\ (effect' = effect \/ effect' = [effect EXCEPT ![s] = NoEffect])
    BY <1>1, <1>3, DisconnectedLeaves DEF Disconnected
  <2>2. effect' \in [Callers -> Effects] /\ ~ Has(s)' /\ effect'[Ticker] = effect[Ticker]
    BY <1>1, <2>1, ReportParts DEF Has
  <2>3. /\ \A t \in Sessions : ~ Has(t)' /\ ~ Has(t)
        /\ (Has(Ticker)' <=> Has(Ticker)) /\ At(Ticker)' = At(Ticker) /\ Says(Ticker)' = Says(Ticker)
    BY <1>1, <2>2 DEF Has, At, Says
  <2>4. \A x \in Callers : x \in Sessions \/ x = Ticker
    BY DEF Callers
  <2>5. RowTypes'
    BY <1>1, <2>2, <2>3, <2>4 DEF RowTypes
  <2>6. DebounceFits' /\ TickerFits' /\ RowsEndAtVerdict'
    BY <1>1, <2>1, <2>3 DEF DebounceFits, TickerFits, RowsEndAtVerdict
  <2> QED
    BY <1>2, <2>5, <2>6 DEF RowsInv
<1>4. CASE ~ reportedDown[s] /\ ~ c.timerLive /\ c.thresh = 0
  <2>1. /\ c' = DisconnectedMachine /\ c'.prev = "down" /\ ~ c'.timerLive
        /\ effect' = [effect EXCEPT ![s] = Verdict(<<Row(FALSE, now)>>, FALSE)]
    BY <1>1, <1>4, DisconnectedLeaves DEF Disconnected
  <2>2. LET e == Verdict(<<Row(FALSE, now)>>, FALSE)
        IN  e \in Effects /\ e.rows # <<>> /\ e.rows[1].ts = now /\ e.rows[1].connected = FALSE
    BY <1>1, ReportParts
  <2>3. /\ effect' \in [Callers -> Effects] /\ Has(s)' /\ At(s)' = now /\ ~ Says(s)'
        /\ effect'[Ticker] = effect[Ticker]
    BY <1>1, <2>1, <2>2 DEF Has, At, Says
  <2>4. (Has(Ticker)' <=> Has(Ticker)) /\ At(Ticker)' = At(Ticker) /\ Says(Ticker)' = Says(Ticker)
    BY <2>3 DEF Has, At, Says
  <2>5. \A x \in Callers : x = s \/ x = Ticker
    BY <1>1 DEF Callers
  <2>6. RowTypes'
    BY <1>1, <2>3, <2>4, <2>5 DEF RowTypes
  <2>7. ~ c'.timerCold
    BY <1>1, <1>4, <2>1 DEF DisconnectedMachine, Machine, Machines, DebounceFits
  <2>8. DebounceFits' /\ TickerFits'
    BY <1>1, <2>1, <2>4, <2>7 DEF DebounceFits, TickerFits
  <2>9. RowsEndAtVerdict'
    BY <1>1, <2>1, <2>3, <2>4 DEF RowsEndAtVerdict, TickerFits, RowTypes
  <2> QED
    BY <1>2, <2>6, <2>8, <2>9 DEF RowsInv
<1>5. CASE ~ reportedDown[s] /\ ~ c.timerLive /\ c.thresh # 0
  <2>1. /\ c' = DisconnectedMachine /\ c'.prev = (IF c.prev = "never" THEN "down" ELSE c.prev)
        /\ c'.timerLive /\ c'.timerObs = now /\ c'.timerAt = now + c.thresh
        /\ effect' = [effect EXCEPT ![s] = DisconnectedEffect]
    BY <1>1, <1>5, DisconnectedLeaves DEF Disconnected
  <2>2. DisconnectedEffect \in Effects /\ DisconnectedEffect.rows = <<>>
    BY <1>1, <1>5, ReportParts DEF DisconnectedEffect, Machine, Machines
  <2>3. effect' \in [Callers -> Effects] /\ ~ Has(s)' /\ effect'[Ticker] = effect[Ticker]
    BY <1>1, <2>1, <2>2 DEF Has
  <2>4. /\ \A t \in Sessions : ~ Has(t)' /\ ~ Has(t)
        /\ (Has(Ticker)' <=> Has(Ticker)) /\ At(Ticker)' = At(Ticker) /\ Says(Ticker)' = Says(Ticker)
    BY <1>1, <2>3 DEF Has, At, Says
  <2>5. \A x \in Callers : x = s \/ x = Ticker
    BY <1>1 DEF Callers
  <2>6. RowTypes'
    BY <1>1, <2>3, <2>4, <2>5 DEF RowTypes
  <2>7. c'.timerCold => c'.prev = "down"
    BY <1>1, <1>5, <2>1 DEF DisconnectedMachine, Pending, Machine, Machines, DebounceFits
  <2>8. DebounceFits' /\ TickerFits'
    BY <1>1, <1>5, <2>1, <2>4, <2>5, <2>7 DEF DebounceFits, TickerFits, RowTypes
  <2>9. RowsEndAtVerdict'
    BY <1>1, <2>1, <2>4 DEF RowsEndAtVerdict
  <2> QED
    BY <1>2, <2>6, <2>8, <2>9 DEF RowsInv
<1> QED
  BY <1>3, <1>4, <1>5
\* The tracker is told that a link is up by a loop that is at rest.
LEMMA RowsConnected ==
    ASSUME SoleSession, Inv, RowsInv, NEW s \in Sessions, Connected(s)
    PROVE  RowsInv'
<1>1. /\ Machine /\ RowTypes /\ LoopIsAtRest /\ DebounceFits /\ TickerFits /\ RowsEndAtVerdict
      /\ now \in Nat /\ s \in Callers /\ Ticker \in Callers /\ s # Ticker
      /\ newest \in [connected : BOOLEAN, ts : Nat] /\ newest.ts \in Nat /\ newest.ts <= now
      /\ effect \in [Callers -> Effects]
      /\ \A t \in Sessions : t = s
  BY TickerAssumption DEF SoleSession, Inv, Machine, RowsInv, RowTypes, Callers
<1>2. /\ pc[s] = "adopted" /\ c' = ConnectedMachine /\ effect' = [effect EXCEPT ![s] = ConnectedEffect]
      /\ pc' = [pc EXCEPT ![s] = "up"] /\ UNCHANGED <<now, newest>>
  BY DEF Connected
<1>3. ~ Has(s) /\ LoopIsAtRest'
  BY <1>1, <1>2 DEF LoopIsAtRest, Machine
<1>4. c'.prev = "up" /\ ~ c'.timerLive /\ ~ c'.timerCold
  BY <1>1, <1>2 DEF Machine, Machines, ConnectedMachine, Idle
<1>5. /\ ConnectedEffect \in Effects
      /\ c.prev = "up" => ConnectedEffect.rows = <<>>
      /\ c.prev # "up" => /\ ConnectedEffect.rows # <<>> /\ ConnectedEffect.rows[1].ts = now
                          /\ ConnectedEffect.rows[1].connected = TRUE
  BY <1>1, ReportParts DEF ConnectedEffect
<1>6. /\ effect' \in [Callers -> Effects] /\ effect'[Ticker] = effect[Ticker]
      /\ c.prev = "up" => ~ Has(s)'
      /\ c.prev # "up" => Has(s)' /\ At(s)' = now /\ Says(s)'
  BY <1>1, <1>2, <1>5 DEF Has, At, Says
<1>7. (Has(Ticker)' <=> Has(Ticker)) /\ At(Ticker)' = At(Ticker) /\ Says(Ticker)' = Says(Ticker)
  BY <1>6 DEF Has, At, Says
<1>8. \A x \in Callers : x = s \/ x = Ticker
  BY <1>1 DEF Callers
<1>9. RowTypes'
  BY <1>1, <1>2, <1>6, <1>7, <1>8 DEF RowTypes
<1>10. DebounceFits' /\ TickerFits'
  BY <1>1, <1>2, <1>4, <1>7 DEF DebounceFits, TickerFits
<1>11. RowsEndAtVerdict'
  <2>1. CASE c.prev = "up"
    BY <1>1, <1>2, <1>3, <1>4, <1>6, <1>7, <2>1 DEF RowsEndAtVerdict
  <2>2. CASE c.prev # "up"
    <3>1. Has(Ticker) => At(Ticker) \in Nat /\ At(Ticker) < now
      BY <1>1, RowType DEF TickerFits
    <3> QED
      BY <1>1, <1>2, <1>3, <1>4, <1>6, <1>7, <2>2, <3>1 DEF RowsEndAtVerdict
  <2> QED
    BY <2>1, <2>2
<1> QED
  BY <1>3, <1>9, <1>10, <1>11 DEF RowsInv

\* The ticker declares what a debounce has waited for.
LEMMA RowsTick ==
    ASSUME Inv, RowsInv, TickAll
    PROVE  RowsInv'
<1>1. /\ Machine /\ RowTypes /\ LoopIsAtRest /\ DebounceFits /\ TickerFits /\ RowsEndAtVerdict
      /\ now \in Nat /\ c.timerObs \in Nat /\ c.timerAt \in Nat /\ Ticker \in Callers /\ Sessions \subseteq Callers
      /\ newest \in [connected : BOOLEAN, ts : Nat] /\ newest.ts \in Nat
      /\ effect \in [Callers -> Effects]
  BY DEF Inv, Machine, Machines, RowsInv, RowTypes, Callers
<1>2. /\ effect[Ticker] = NoEffect /\ c.timerLive /\ now >= c.timerAt
      /\ c' = TickMachine /\ effect' = [effect EXCEPT ![Ticker] = TickEffect] /\ UNCHANGED <<now, pc, newest>>
  BY DEF TickAll, AtRest, Due
<1>3. ~ Has(Ticker) /\ \A s \in Sessions : ~ Has(s)
  BY <1>1, <1>2, ReportParts DEF Has, DebounceFits
<1>4. ~ c'.timerLive /\ c'.prev = "down" /\ ~ c'.timerCold
  BY <1>1, <1>2, TickLeaves DEF DebounceFits, TickMachine, Idle, Machine, Machines
<1>5. /\ TickEffect \in Effects /\ TickEffect.rows # <<>> /\ TickEffect.rows[1].ts = c.timerObs
      /\ TickEffect.rows[1].connected = FALSE
  <2>1. /\ <<Row(FALSE, c.timerObs)>> \in Rows /\ <<Row(FALSE, c.timerObs)>> # <<>>
        /\ <<Row(FALSE, c.timerObs)>>[1].ts = c.timerObs /\ <<Row(FALSE, c.timerObs)>>[1].connected = FALSE
    BY <1>1, ReportParts
  <2>2. TickEffect = [rows |-> <<Row(FALSE, c.timerObs)>>, status |-> IF c.timerCold THEN <<>> ELSE <<FALSE>>]
    BY DEF TickEffect, Verdict
  <2> QED
    BY <2>1, <2>2 DEF Effects
<1>6. /\ effect' \in [Callers -> Effects] /\ Has(Ticker)' /\ At(Ticker)' = c.timerObs /\ ~ Says(Ticker)'
      /\ \A s \in Sessions : effect'[s] = effect[s]
  BY <1>1, <1>2, <1>5, TickerAssumption DEF Has, At, Says
<1>7. \A s \in Sessions : ~ Has(s)'
  BY <1>3, <1>6 DEF Has
<1>8. \A x \in Callers : x \in Sessions \/ x = Ticker
  BY DEF Callers
<1>9. c.timerObs < now /\ newest.ts <= c.timerObs /\ newest.ts <= now
  BY <1>1, <1>2 DEF DebounceFits
<1>10. RowTypes'
  BY <1>1, <1>2, <1>6, <1>7, <1>8, <1>9 DEF RowTypes
<1>11. LoopIsAtRest'
  BY <1>7 DEF LoopIsAtRest
<1>12. DebounceFits' /\ TickerFits'
  BY <1>2, <1>4, <1>6, <1>9 DEF DebounceFits, TickerFits
<1>13. RowsEndAtVerdict'
  BY <1>2, <1>4, <1>6, <1>7, <1>9 DEF RowsEndAtVerdict
<1> QED
  BY <1>10, <1>11, <1>12, <1>13 DEF RowsInv
\* Rows are handed on, in whichever order.
LEMMA RowsEmit ==
    ASSUME SoleSession, Inv, RowsInv, NEW x \in Callers, Emit(x)
    PROVE  RowsInv'
<1>1. /\ RowTypes /\ LoopIsAtRest /\ DebounceFits /\ TickerFits /\ RowsEndAtVerdict
      /\ now \in Nat /\ c.timerObs \in Nat /\ Ticker \in Callers /\ Sessions \subseteq Callers
      /\ newest \in [connected : BOOLEAN, ts : Nat] /\ newest.ts \in Nat /\ newest.ts <= now
      /\ effect \in [Callers -> Effects]
  BY DEF Inv, Machine, Machines, RowsInv, RowTypes, Callers
<1>2. /\ Has(x) /\ effect' = [effect EXCEPT ![x].rows = <<>>] /\ UNCHANGED <<now, c, pc>>
      /\ newest' = IF At(x) >= newest.ts THEN effect[x].rows[1] ELSE newest
  BY DEF Emit, Has, At
<1>3. effect' \in [Callers -> Effects] /\ ~ Has(x)' /\ \A y \in Callers \ {x} : effect'[y] = effect[y]
  BY <1>1, <1>2 DEF Effects, Rows, Has
<1>4. \A y \in Callers \ {x} : (Has(y)' <=> Has(y)) /\ At(y)' = At(y) /\ Says(y)' = Says(y)
  BY <1>3 DEF Has, At, Says
<1>5. /\ effect[x].rows[1] \in [connected : BOOLEAN, ts : Nat] /\ At(x) \in Nat /\ At(x) <= now
      /\ effect[x].rows[1].ts = At(x) /\ effect[x].rows[1].connected = Says(x)
  BY <1>1, <1>2, RowType DEF RowTypes
<1>6. /\ newest' \in [connected : BOOLEAN, ts : Nat] /\ newest'.ts \in Nat /\ newest'.ts <= now
      /\ newest.ts <= At(x) => newest'.ts = At(x) /\ newest'.connected = Says(x)
      /\ ~ (newest.ts <= At(x)) => newest' = newest
  BY <1>1, <1>2, <1>5
<1>7. RowTypes'
  BY <1>1, <1>2, <1>3, <1>4, <1>6 DEF RowTypes
<1>8. LoopIsAtRest'
  BY <1>1, <1>2, <1>3, <1>4 DEF LoopIsAtRest
<1>9. CASE x = Ticker
  <2>1. /\ ~ Has(Ticker)' /\ ~ Says(x) /\ At(x) < now
        /\ \A s \in Sessions : (Has(s)' <=> Has(s)) /\ At(s)' = At(s) /\ Says(s)' = Says(s)
    BY <1>1, <1>2, <1>3, <1>4, <1>9, TickerAssumption DEF TickerFits
  <2>2. DebounceFits' /\ TickerFits'
    BY <1>1, <1>2, <1>6, <1>9, <2>1 DEF DebounceFits, TickerFits
  <2>3. ASSUME NEW s \in Sessions, Has(s)'
        PROVE  (Says(s)' <=> c'.prev = "up") /\ newest'.ts <= At(s)'
    BY <1>1, <1>2, <1>6, <1>9, <2>1, <2>3 DEF RowsEndAtVerdict
  <2>4. ASSUME \A s \in Sessions : ~ Has(s)'
        PROVE  newest'.connected <=> c'.prev = "up"
    <3>1. /\ c.prev = "up" => newest.connected /\ At(x) < newest.ts
          /\ c.prev # "up" => ~ newest.connected \/ newest.ts <= At(x)
      BY <1>1, <1>2, <1>9, <2>1, <2>4 DEF RowsEndAtVerdict
    <3>2. CASE c.prev = "up"
      BY <1>1, <1>2, <1>5, <1>6, <3>1, <3>2
    <3>3. CASE c.prev # "up"
      BY <1>2, <1>6, <2>1, <3>1, <3>3
    <3> QED
      BY <3>2, <3>3
  <2>5. RowsEndAtVerdict'
    BY <2>1, <2>3, <2>4 DEF RowsEndAtVerdict
  <2> QED
    BY <1>7, <1>8, <2>2, <2>5 DEF RowsInv
<1>10. CASE x \in Sessions
  <2>1. /\ x # Ticker /\ \A s \in Sessions : s = x
        /\ (Has(Ticker)' <=> Has(Ticker)) /\ At(Ticker)' = At(Ticker) /\ Says(Ticker)' = Says(Ticker)
    BY <1>1, <1>4, <1>10, TickerAssumption DEF SoleSession
  <2>2. ~ c.timerLive
    BY <1>1, <1>2, <1>10 DEF DebounceFits
  <2>3. DebounceFits' /\ TickerFits'
    BY <1>1, <1>2, <2>1, <2>2 DEF DebounceFits, TickerFits
  <2>4. /\ Says(x) <=> c.prev = "up"
        /\ newest.ts <= At(x)
        /\ Has(Ticker) => At(Ticker) <= At(x) /\ (c.prev = "up" => At(Ticker) < At(x))
    BY <1>1, <1>2, <1>10 DEF RowsEndAtVerdict
  <2>5. newest'.ts = At(x) /\ (newest'.connected <=> c.prev = "up")
    BY <1>6, <2>4
  <2>6. RowsEndAtVerdict'
    BY <1>2, <1>3, <2>1, <2>4, <2>5 DEF RowsEndAtVerdict
  <2> QED
    BY <1>7, <1>8, <2>3, <2>6 DEF RowsInv
<1> QED
  BY <1>9, <1>10 DEF Callers

LEMMA RowsNext ==
    ASSUME SoleSession
    PROVE  Inv /\ RowsInv /\ [Next]_vars => RowsInv'
<1> SUFFICES ASSUME Inv, RowsInv, [Next]_vars PROVE RowsInv'
  OBVIOUS
<1>0. /\ pc \in [Sessions -> {"none", "top", "dial", "adopted", "up", "dropped", "gone"}]
      /\ c \in Machines /\ now \in Nat /\ RowTypes /\ LoopIsAtRest /\ effect \in [Callers -> Effects]
      /\ Ticker \in Callers /\ Sessions \subseteq Callers
  BY DEF Inv, Machine, RowsInv, RowTypes, Callers
<1>1. ASSUME NEW s \in Sessions, Open(s) \/ Close(s) \/ Turn(s) \/ Adopt(s) \/ LinkDown(s) PROVE RowsInv'
  <2>1. UNCHANGED <<now, c, effect, newest>>
    BY <1>1 DEF Open, Close, Turn, Adopt, LinkDown
  <2>2. \/ UNCHANGED pc
        \/ pc' = [pc EXCEPT ![s] = "top"]
        \/ AtRest(s) /\ \E l \in {"gone", "dial", "top", "dropped"} : pc' = [pc EXCEPT ![s] = l]
        \/ pc[s] = "dial" /\ \E l \in {"gone", "adopted"} : pc' = [pc EXCEPT ![s] = l]
    BY <1>1 DEF Open, Close, Turn, Adopt, LinkDown
  <2>3. AtRest(s) => ~ Has(s)
    BY ReportParts DEF AtRest, Has
  <2>4. LoopIsAtRest'
    BY <1>0, <2>1, <2>2, <2>3 DEF LoopIsAtRest, Has
  <2> QED
    BY <2>1, <2>4, RowsRest
<1>2. ASSUME NEW s \in Sessions, DialFails(s) \/ DropReported(s) PROVE RowsInv'
  <2>1. /\ pc[s] \in {"dial", "dropped"} /\ Disconnected(s) /\ pc' = [pc EXCEPT ![s] = "top"]
        /\ UNCHANGED <<now, newest>>
    BY <1>2 DEF DialFails, DropReported
  <2>2. ~ Has(s)
    BY <1>0, <2>1 DEF LoopIsAtRest
  <2> QED
    BY <2>1, <2>2, RowsDisconnected
<1>3. ASSUME NEW t \in Thresholds, SetThreshold(t) PROVE RowsInv'
  <2>1. c' = [c EXCEPT !.thresh = t] /\ UNCHANGED <<now, pc, effect, newest>>
    BY <1>3 DEF SetThreshold
  <2>2. /\ c'.prev = c.prev /\ c'.timerLive = c.timerLive /\ c'.timerCold = c.timerCold
        /\ c'.timerObs = c.timerObs /\ c'.timerAt = c.timerAt
    BY <1>0, <2>1 DEF Machines
  <2> QED
    BY <2>1, <2>2 DEF RowsInv, RowTypes, LoopIsAtRest, DebounceFits, TickerFits, RowsEndAtVerdict, Has, At, Says
<1>4. ASSUME NEW x \in Callers, Announce(x) PROVE RowsInv'
  <2>1. effect' = [effect EXCEPT ![x].status = <<>>] /\ UNCHANGED <<now, c, pc, newest>>
    BY <1>4 DEF Announce
  <2>2. effect' \in [Callers -> Effects] /\ \A y \in Callers : effect'[y].rows = effect[y].rows
    BY <1>0, <2>1 DEF Effects
  <2>3. \A y \in Callers : (Has(y)' <=> Has(y)) /\ At(y)' = At(y) /\ Says(y)' = Says(y)
    BY <2>2 DEF Has, At, Says
  <2> QED
    BY <1>0, <2>1, <2>2, <2>3 DEF RowsInv, RowTypes, LoopIsAtRest, DebounceFits, TickerFits, RowsEndAtVerdict
<1>5. ASSUME Advance PROVE RowsInv'
  <2>1. now' = now + 1 /\ UNCHANGED <<c, pc, effect, newest>>
    BY <1>5 DEF Advance
  <2>2. \A y \in Callers : (Has(y)' <=> Has(y)) /\ At(y)' = At(y) /\ Says(y)' = Says(y)
    BY <2>1 DEF Has, At, Says
  <2>3. \A y \in Callers : Has(y) => At(y) \in Nat /\ At(y) < now + 1
    BY <1>0, RowType DEF RowTypes
  <2>4. newest.ts \in Nat /\ c.timerObs \in Nat
    BY <1>0 DEF RowTypes, Machines
  <2>5. RowTypes' /\ TickerFits'
    BY <1>0, <2>1, <2>2, <2>3, <2>4 DEF RowsInv, RowTypes, TickerFits
  <2>6. LoopIsAtRest' /\ DebounceFits' /\ RowsEndAtVerdict'
    BY <1>0, <2>1, <2>2, <2>4 DEF RowsInv, LoopIsAtRest, DebounceFits, RowsEndAtVerdict
  <2> QED
    BY <2>5, <2>6 DEF RowsInv
<1>6. CASE UNCHANGED vars
  <2>1. UNCHANGED <<now, c, effect, newest>> /\ LoopIsAtRest'
    BY <1>0, <1>6 DEF vars, LoopIsAtRest, Has
  <2> QED
    BY <2>1, RowsRest
<1> QED
  BY <1>1, <1>2, <1>3, <1>4, <1>5, <1>6, RowsConnected, RowsTick, RowsEmit DEF Next, Loop

\* When the loop's and the ticker's rows are all written, in whichever order the
\* two goroutines came to it, the newest of the connectivity history says what
\* the verdict is (Tracker.apply, Tracker.TickAll).
THEOREM NewestRowIsTheVerdictHolds ==
    ASSUME SoleSession
    PROVE  Spec => []NewestRowIsTheVerdict
<1>1. RowsInv => NewestRowIsTheVerdict
  <2> SUFFICES ASSUME RowsInv, \A x \in Callers : AtRest(x)
               PROVE  newest.connected = (c.prev = "up")
    BY DEF NewestRowIsTheVerdict
  <2>1. \A x \in Callers : ~ Has(x)
    BY ReportParts DEF AtRest, Has
  <2>2. newest.connected <=> c.prev = "up"
    BY <2>1 DEF RowsInv, RowsEndAtVerdict, Callers
  <2>3. newest.connected \in BOOLEAN
    BY DEF RowsInv, RowTypes
  <2> QED
    BY <2>2, <2>3
<1> QED
  BY <1>1, InvInit, InvNext, RowsInit, RowsNext, PTL DEF Spec
-----------------------------------------------------------------------------
(* Types *)

\* What a caller has yet to hand on: a row or none, and a verdict or none.
NoteRows == {<<>>} \cup {<<r>> : r \in [connected : BOOLEAN, ts : Instants]}
Notes == [rows : NoteRows, status : {<<>>, <<TRUE>>, <<FALSE>>}]
States ==
    {m \in [prev : {"never", "up", "down"}, thresh : Thresholds \cup {DefaultSec},
            timerLive : BOOLEAN, timerCold : BOOLEAN, timerAt : Nat,
            timerObs : Instants, declaredOffline : BOOLEAN] :
        m.timerCold => m.timerLive /\ m.prev = "down"}

TypeInv ==
    /\ now \in Instants /\ c \in States
    /\ pc \in [Sessions -> {"none", "top", "dial", "adopted", "up", "dropped", "gone"}]
    /\ closed \in [Sessions -> BOOLEAN] /\ reportedDown \in [Sessions -> BOOLEAN]
    /\ effect \in [Callers -> Notes] /\ newest \in [connected : BOOLEAN, ts : Instants]
    /\ alert \in BOOLEAN /\ quiet \in [since : Instants, least : Thresholds \cup {DefaultSec}]

\* What a note is made of.
LEMMA NoteParts ==
    /\ NoEffect \in Notes
    /\ \A e \in Notes : /\ [e EXCEPT !.rows = <<>>] \in Notes
                        /\ [e EXCEPT !.status = <<>>] \in Notes
                        /\ e.rows # <<>> => e.rows[1] \in [connected : BOOLEAN, ts : Instants]
                        /\ e.status # <<>> => e.status[1] \in BOOLEAN
    /\ \A r \in NoteRows, b \in BOOLEAN : Verdict(r, b) \in Notes /\ [rows |-> r, status |-> <<>>] \in Notes
    /\ <<>> \in NoteRows /\ \A b \in BOOLEAN, t \in Instants : <<Row(b, t)>> \in NoteRows
<1>1. <<>> \in NoteRows /\ \A b \in BOOLEAN, t \in Instants : <<Row(b, t)>> \in NoteRows
  BY DEF NoteRows, Row
<1>2. ASSUME NEW r \in NoteRows, r # <<>> PROVE r[1] \in [connected : BOOLEAN, ts : Instants]
  <2>1. PICK w \in [connected : BOOLEAN, ts : Instants] : r = <<w>>
    BY <1>2 DEF NoteRows
  <2> QED
    BY <2>1
<1> HIDE DEF NoteRows
<1>3. \A r \in NoteRows, b \in BOOLEAN : Verdict(r, b) \in Notes /\ [rows |-> r, status |-> <<>>] \in Notes
  BY DEF Verdict, Notes
<1>4. NoEffect \in Notes
  BY <1>1, <1>3 DEF NoEffect
<1>5. ASSUME NEW e \in Notes
      PROVE  /\ [e EXCEPT !.rows = <<>>] \in Notes
             /\ [e EXCEPT !.status = <<>>] \in Notes
             /\ e.status # <<>> => e.status[1] \in BOOLEAN
  <2>1. [e EXCEPT !.rows = <<>>] \in Notes /\ [e EXCEPT !.status = <<>>] \in Notes
    BY <1>1 DEF Notes
  <2>2. e.status = <<>> \/ e.status = <<TRUE>> \/ e.status = <<FALSE>>
    BY DEF Notes
  <2>3. CASE e.status = <<TRUE>>
    <3>1. e.status[1] = TRUE
      BY <2>3
    <3> QED
      BY <2>1, <3>1, Zenon
  <2>4. CASE e.status = <<FALSE>>
    <3>1. e.status[1] = FALSE
      BY <2>4
    <3> QED
      BY <2>1, <3>1, Zenon
  <2> QED
    BY <2>1, <2>2, <2>3, <2>4
<1>6. \A e \in Notes : e.rows # <<>> => e.rows[1] \in [connected : BOOLEAN, ts : Instants]
  BY <1>2 DEF Notes
<1> QED
  BY <1>1, <1>3, <1>4, <1>5, <1>6

\* The invariant is the types, and that there is a note of each caller.
LEMMA TypesFollow == TypeInv => TypeOK
<1> SUFFICES ASSUME TypeInv PROVE TypeOK
  OBVIOUS
<1>1. \A x \in Callers : effect[x].rows \in NoteRows /\ effect[x].status \in {<<>>, <<TRUE>>, <<FALSE>>}
  <2> HIDE DEF NoteRows
  <2> QED
    BY DEF TypeInv, Notes
<1>2. /\ c \in [prev : {"never", "up", "down"}, thresh : Thresholds \cup {DefaultSec},
                timerLive : BOOLEAN, timerCold : BOOLEAN, timerAt : Nat,
                timerObs : Instants, declaredOffline : BOOLEAN]
      /\ c.timerCold => c.timerLive /\ c.prev = "down"
  BY DEF TypeInv, States
<1> QED
  BY <1>1, <1>2, Zenon DEF TypeInv, TypeOK, NoteRows

\* Each method leaves a machine and a report of its type.
LEMMA MethodTypes ==
    ASSUME TypeInv
    PROVE  /\ ConnectedMachine \in States /\ ConnectedEffect \in Notes
           /\ DisconnectedMachine \in States /\ DisconnectedEffect \in Notes
           /\ TickMachine \in States /\ TickEffect \in Notes
<1> USE ThresholdsAssumption
<1>1. now \in Instants /\ now \in Nat /\ c \in States /\ c.thresh \in Nat /\ c.timerObs \in Instants
  <2>1. /\ now \in Instants /\ c \in States /\ c.timerObs \in Instants
        /\ c.thresh \in Thresholds \cup {DefaultSec}
    BY DEF TypeInv, States
  <2>2. \A t \in Thresholds \cup {DefaultSec} : t \in Nat
    OBVIOUS
  <2>3. \A n \in Instants : n \in Nat
    BY MaxTimeAssumption DEF Instants
  <2> QED
    BY <2>1, <2>2, <2>3, Zenon
<1>2. now + c.thresh \in Nat
  BY <1>1
<1>3. ConnectedMachine \in States
  BY <1>1 DEF States, ConnectedMachine, Idle
<1>4. \A b \in BOOLEAN : (b => c.prev = "down") => Pending(c, b) \in States
  BY <1>1, <1>2 DEF States, Pending
<1>5. Pending([c EXCEPT !.prev = "down"], TRUE) \in States
  BY <1>1, <1>2 DEF States, Pending
<1>6. DisconnectedMachine \in States
  BY <1>1, <1>4, <1>5 DEF States, DisconnectedMachine
<1>7. TickMachine \in States
  BY <1>1 DEF States, TickMachine, Idle
<1>8. /\ <<>> \in NoteRows /\ <<Row(TRUE, now)>> \in NoteRows /\ <<Row(FALSE, now)>> \in NoteRows
      /\ <<Row(FALSE, c.timerObs)>> \in NoteRows
  BY <1>1, NoteParts
<1>9. ConnectedEffect \in Notes /\ TickEffect \in Notes /\ DisconnectedEffect \in Notes
  BY <1>8, NoteParts DEF ConnectedEffect, TickEffect, DisconnectedEffect
<1> QED
  BY <1>3, <1>6, <1>7, <1>9

\* A report of a loss leaves everything in range.
LEMMA DisconnectedTypes ==
    ASSUME TypeInv, NEW s \in Sessions, Disconnected(s)
    PROVE  c' \in States /\ effect' \in [Callers -> Notes] /\ reportedDown' \in [Sessions -> BOOLEAN]
<1>1. c \in States /\ effect \in [Callers -> Notes] /\ reportedDown \in [Sessions -> BOOLEAN] /\ s \in Callers
  BY DEF TypeInv, Callers
<1> QED
  BY <1>1, MethodTypes DEF Disconnected

LEMMA TypeNext == TypeInv /\ [Next]_vars => TypeInv'
<1> SUFFICES ASSUME TypeInv, [Next]_vars PROVE TypeInv'
  OBVIOUS
<1>1. /\ now \in Instants /\ c \in States /\ c.thresh \in Thresholds \cup {DefaultSec}
      /\ pc \in [Sessions -> {"none", "top", "dial", "adopted", "up", "dropped", "gone"}]
      /\ closed \in [Sessions -> BOOLEAN] /\ reportedDown \in [Sessions -> BOOLEAN]
      /\ effect \in [Callers -> Notes] /\ newest \in [connected : BOOLEAN, ts : Instants]
      /\ alert \in BOOLEAN /\ quiet \in [since : Instants, least : Thresholds \cup {DefaultSec}]
      /\ Sessions \subseteq Callers /\ Ticker \in Callers
  BY DEF TypeInv, States, Callers
<1>2. ASSUME NEW s \in Sessions, Open(s) \/ Close(s) \/ Turn(s) PROVE TypeInv'
  BY <1>1, <1>2 DEF Open, Close, Turn, TypeInv
<1>3. ASSUME NEW s \in Sessions, DialFails(s) \/ DropReported(s) PROVE TypeInv'
  <2>1. c' \in States /\ effect' \in [Callers -> Notes] /\ reportedDown' \in [Sessions -> BOOLEAN]
    BY <1>3, DisconnectedTypes DEF DialFails, DropReported
  <2> QED
    BY <1>1, <1>3, <2>1 DEF DialFails, DropReported, TypeInv
<1>4. ASSUME NEW s \in Sessions, Adopt(s) PROVE TypeInv'
  BY <1>1, <1>4 DEF Adopt, TypeInv
<1>5. ASSUME NEW s \in Sessions, Connected(s) PROVE TypeInv'
  BY <1>1, <1>5, MethodTypes DEF Connected, TypeInv
<1>6. ASSUME NEW s \in Sessions, LinkDown(s) PROVE TypeInv'
  BY <1>1, <1>6 DEF LinkDown, TypeInv
<1>7. CASE TickAll
  <2>1. c' \in States /\ effect' \in [Callers -> Notes]
    BY <1>1, <1>7, MethodTypes DEF TickAll, TypeInv
  <2> QED
    BY <1>1, <1>7, <2>1 DEF TickAll, TypeInv
<1>8. ASSUME NEW t \in Thresholds, SetThreshold(t) PROVE TypeInv'
  <2>1. c' \in States
    BY <1>1, <1>8 DEF SetThreshold, States, TypeInv
  <2> QED
    BY <1>1, <1>8, <2>1 DEF SetThreshold, TypeInv
<1>9. ASSUME NEW x \in Callers, Emit(x) PROVE TypeInv'
  <2>1. effect[x] \in Notes /\ effect[x].rows # <<>>
    BY <1>1, <1>9 DEF Emit, TypeInv
  <2>2. effect[x].rows[1] \in [connected : BOOLEAN, ts : Instants] /\ [effect[x] EXCEPT !.rows = <<>>] \in Notes
    BY <2>1, NoteParts
  <2>3. effect' = [effect EXCEPT ![x] = [effect[x] EXCEPT !.rows = <<>>]]
    BY <1>1, <1>9, Zenon DEF Emit
  <2>4. effect' \in [Callers -> Notes]
    BY <1>1, <2>2, <2>3
  <2>5. newest' \in [connected : BOOLEAN, ts : Instants]
    BY <1>1, <1>9, <2>2 DEF Emit, TypeInv
  <2> QED
    BY <1>1, <1>9, <2>4, <2>5 DEF Emit, TypeInv
<1>10. ASSUME NEW x \in Callers, Announce(x) PROVE TypeInv'
  <2>1. effect[x] \in Notes /\ effect[x].status # <<>>
    BY <1>1, <1>10 DEF Announce, TypeInv
  <2>2. effect[x].status[1] \in BOOLEAN /\ [effect[x] EXCEPT !.status = <<>>] \in Notes
    BY <2>1, NoteParts
  <2>3. effect' = [effect EXCEPT ![x] = [effect[x] EXCEPT !.status = <<>>]]
    BY <1>1, <1>10, Zenon DEF Announce
  <2>4. effect' \in [Callers -> Notes]
    BY <1>1, <2>2, <2>3
  <2>5. alert' \in BOOLEAN
    BY <1>1, <1>10, <2>2 DEF Announce, TypeInv
  <2> QED
    BY <1>1, <1>10, <2>4, <2>5 DEF Announce, TypeInv
<1>11. CASE Advance
  <2>1. now' \in Instants /\ now + 1 \in Instants
    BY <1>1, <1>11, MaxTimeAssumption DEF Advance, Instants, TypeInv
  <2>2. quiet' \in [since : Instants, least : Thresholds \cup {DefaultSec}]
    BY <1>1, <1>11, <2>1 DEF Advance, TypeInv
  <2> QED
    BY <1>1, <1>11, <2>1, <2>2 DEF Advance, TypeInv
<1>12. CASE UNCHANGED vars
  BY <1>1, <1>12 DEF vars, TypeInv
<1> QED
  BY <1>2, <1>3, <1>4, <1>5, <1>6, <1>7, <1>8, <1>9, <1>10, <1>11, <1>12 DEF Next, Loop

\* The tracker, its loops and what they hand on keep their types, for any number of
\* sessions; and a cold start's debounce runs only for a router whose verdict is
\* down (Connectivity.timerCold).
THEOREM TypeCorrect == Spec => []TypeOK
<1>1. Init => TypeInv
  <2> SUFFICES ASSUME Init PROVE TypeInv
    OBVIOUS
  <2>1. effect \in [Callers -> Notes]
    BY NoteParts DEF Init
  <2>2. c \in States
    BY MaxTimeAssumption DEF Init, States, Instants
  <2>3. now \in Instants /\ newest \in [connected : BOOLEAN, ts : Instants]
        /\ quiet \in [since : Instants, least : Thresholds \cup {DefaultSec}]
    BY MaxTimeAssumption DEF Init, Instants, Row
  <2> QED
    BY <2>1, <2>2, <2>3 DEF Init, TypeInv
<1> QED
  BY <1>1, TypesFollow, TypeNext, PTL DEF Spec
=============================================================================
