------------------------------ MODULE Scheduler -----------------------------
(***************************************************************************)
(* internal/roscache/scheduler.go and demand.go: when the rows of one menu  *)
(* reach its subscribers.                                                   *)
(*                                                                         *)
(* Two clocks deliver.  The scheduler's loop asks the demand set on every   *)
(* tick and, when the menu is due, reads it and delivers.  A stream-filled  *)
(* menu also delivers each round as it completes (deliverStreamed), on the  *)
(* goroutine that received the row, and the loop skips a menu whose round   *)
(* was just delivered.  Subscribers come, change their cadence and go at    *)
(* any moment.                                                              *)
(*                                                                         *)
(* A step is one critical section of demandMu, one read, or one callback.   *)
(* Times are ages in ticks of the loop.                                     *)
(***************************************************************************)
EXTENDS Integers, FiniteSetsExt

CONSTANTS
    Subs,       \* subscribers of the menu
    Cadences,   \* what a cadence function can answer; 0 is "none of my own"
    Streamed,   \* the menu is stream-filled and authoritative
    NRounds,    \* how many rounds are told apart
    MaxLag,     \* ticks a pass or a delivery may take, the router's answer included
    Never       \* a zero time.Time, or no key in the map

ASSUME CadencesAssumption == Cadences \subseteq Nat /\ IsFiniteSet(Cadences) /\ Cadences # {}
ASSUME StreamedAssumption == Streamed \in BOOLEAN
ASSUME BoundsAssumption == MaxLag \in Nat /\ NRounds \in Nat \ {0}
ASSUME NeverAssumption == Never \notin Int

Slowest == Max(Cadences \cup {0})

\* Ages beyond these are not told apart, by the code or by the properties.
OldRun == Slowest + MaxLag
OldRound == 2 * Slowest
OldCall == 3 * (Slowest + MaxLag)

\* Rounds are compared only for being the same one.
Rounds == 0..(NRounds - 1)

VARIABLES
    subs,       \* c.subs[menu]: who subscribes
    cadence,    \* what each one's cadence function answers; Never outside subs
    lastRun,    \* age of s.lastRun[menu]
    roundAt,    \* age of c.roundAt[menu]
    round,      \* the round a Get would answer with, when streamed
    ran,        \* the loop has run since the clock last moved
    loop,       \* the loop: place, the cadence of its Demand, rows, callbacks left
    push,       \* the stream's goroutine, the same
    heard,      \* history: ticks since each subscriber was last called, or since
                \* it subscribed or changed its cadence
    last        \* history: the round each subscriber was last called with

schedulerVars == <<subs, cadence, lastRun, roundAt, round, ran, loop, push, heard, last>>

Actor == [at : {"idle", "check", "get", "mark", "copy", "call", "sweep"}, cad : Nat,
          rows : Rounds, fns : SUBSET Subs, lag : 0..MaxLag]

Idle == [at |-> "idle", cad |-> 0, rows |-> 0, fns |-> {}, lag |-> 0]

SchedulerTypeOK ==
    /\ subs \subseteq Subs /\ cadence \in [Subs -> Cadences \cup {Never}]
    /\ \A s \in subs : cadence[s] \in Cadences
    /\ lastRun \in 0..OldRun \cup {Never} /\ roundAt \in 0..OldRound \cup {Never}
    /\ round \in Rounds /\ ran \in BOOLEAN
    /\ loop \in Actor /\ push \in Actor
    /\ loop.cad \in Cadences \cup {0} /\ push.cad \in Cadences \cup {0}
    /\ heard \in [Subs -> 0..OldCall] /\ last \in [Subs -> Rounds \cup {Never}]

SchedulerInit ==
    /\ subs = {} /\ cadence = [s \in Subs |-> Never]
    /\ lastRun = Never /\ roundAt = Never
    /\ round = 0 /\ ran = FALSE
    /\ loop = Idle /\ push = Idle
    /\ heard = [s \in Subs |-> 0] /\ last = [s \in Subs |-> Never]

-----------------------------------------------------------------------------
(* Subscribe, the release it returns, and a re-tune *)

Subscribe(s, c) ==
    /\ s \notin subs
    /\ subs' = subs \cup {s}
    /\ cadence' = [cadence EXCEPT ![s] = c]
    /\ heard' = [heard EXCEPT ![s] = 0] /\ last' = [last EXCEPT ![s] = Never]
    /\ UNCHANGED <<lastRun, roundAt, round, ran, loop, push>>

Release(s) ==
    /\ s \in subs
    /\ subs' = subs \ {s}
    /\ cadence' = [cadence EXCEPT ![s] = Never]
    /\ UNCHANGED <<lastRun, roundAt, round, ran, loop, push, heard, last>>

\* SetPollMs: the cadence function answers something else from now on.
SetCadence(s, c) ==
    /\ s \in subs /\ cadence[s] # c
    /\ cadence' = [cadence EXCEPT ![s] = c]
    /\ heard' = [heard EXCEPT ![s] = 0]
    /\ UNCHANGED <<subs, lastRun, roundAt, round, ran, loop, push, last>>

\* Demand: the shortest cadence of those that have one, or 0.
DemandCadence ==
    LET own == {cadence[s] : s \in subs} \ {0}
    IN  IF own = {} THEN 0 ELSE Min(own)

-----------------------------------------------------------------------------
(* run, one pass of the loop over the menu *)

Due(c) == lastRun # Never => lastRun >= c

Pass ==
    /\ loop.at = "idle" /\ ~ran
    /\ ran' = TRUE
    /\ LET c == DemandCadence
       IN  \/ /\ subs # {} /\ c > 0 /\ Due(c)
              /\ lastRun' = 0
              /\ loop' = [Idle EXCEPT !.at = "check", !.cad = c]
           \/ /\ ~(subs # {} /\ c > 0 /\ Due(c))
              /\ loop' = [Idle EXCEPT !.at = "sweep"]
              /\ UNCHANGED lastRun
    /\ UNCHANGED <<subs, cadence, roundAt, round, push, heard, last>>

\* Faulty form: any round ever delivered will do.
DeliveredRoundEver(c) == roundAt # Never

\* deliveredRoundSince: within the last cadence and a half.
DeliveredRound(c) == roundAt # Never /\ 2 * roundAt < 3 * c

Check ==
    /\ loop.at = "check"
    /\ loop' = [loop EXCEPT !.at = IF DeliveredRound(loop.cad) THEN "sweep" ELSE "get"]
    /\ UNCHANGED <<subs, cadence, lastRun, roundAt, round, ran, push, heard, last>>

\* Invalidate and Get.  A read gives rows of its own; a streamed menu answers
\* with its last round, whoever has had it.
Get ==
    /\ loop.at = "get"
    /\ loop' = [loop EXCEPT !.at = "copy", !.rows = round]
    /\ UNCHANGED <<subs, cadence, lastRun, roundAt, round, ran, push, heard, last>>

\* The end of the pass: a menu nobody wants gives up its slot.
Sweep ==
    /\ loop.at = "sweep"
    /\ lastRun' = IF subs = {} THEN Never ELSE lastRun
    /\ loop' = Idle
    /\ UNCHANGED <<subs, cadence, roundAt, round, ran, push, heard, last>>

-----------------------------------------------------------------------------
(* deliver, on either goroutine: copy the callbacks, then call each *)

Called(s, rows) ==
    /\ heard' = [heard EXCEPT ![s] = 0]
    /\ last' = [last EXCEPT ![s] = rows]

LoopCopy ==
    /\ loop.at = "copy"
    /\ loop' = [loop EXCEPT !.at = "call", !.fns = subs]
    /\ UNCHANGED <<subs, cadence, lastRun, roundAt, round, ran, push, heard, last>>

LoopCall ==
    /\ loop.at = "call"
    /\ \/ \E s \in loop.fns :
            /\ Called(s, loop.rows)
            /\ loop' = [loop EXCEPT !.fns = @ \ {s}]
       \/ /\ loop.fns = {}
          /\ loop' = [loop EXCEPT !.at = "sweep"]
          /\ UNCHANGED <<heard, last>>
    /\ UNCHANGED <<subs, cadence, lastRun, roundAt, round, ran, push>>

-----------------------------------------------------------------------------
(* deliverStreamed, when a round completes *)

\* A menu nobody subscribes to is not delivered.
Publish ==
    /\ Streamed /\ push.at = "idle"
    /\ round' = (round + 1) % NRounds
    /\ push' = IF subs = {} THEN Idle ELSE [Idle EXCEPT !.at = "get"]
    /\ UNCHANGED <<subs, cadence, lastRun, roundAt, ran, loop, heard, last>>

PushGet ==
    /\ push.at = "get"
    /\ push' = [push EXCEPT !.at = "mark", !.rows = round]
    /\ UNCHANGED <<subs, cadence, lastRun, roundAt, round, ran, loop, heard, last>>

PushMark ==
    /\ push.at = "mark"
    /\ push' = [push EXCEPT !.at = "copy"]
    /\ roundAt' = 0
    /\ UNCHANGED <<subs, cadence, lastRun, round, ran, loop, heard, last>>

PushCopy ==
    /\ push.at = "copy"
    /\ push' = [push EXCEPT !.at = "call", !.fns = subs]
    /\ UNCHANGED <<subs, cadence, lastRun, roundAt, round, ran, loop, heard, last>>

PushCall ==
    /\ push.at = "call"
    /\ \/ \E s \in push.fns :
            /\ Called(s, push.rows)
            /\ push' = [push EXCEPT !.fns = @ \ {s}]
       \/ /\ push.fns = {}
          /\ push' = Idle
          /\ UNCHANGED <<heard, last>>
    /\ UNCHANGED <<subs, cadence, lastRun, roundAt, round, ran, loop>>

-----------------------------------------------------------------------------
Aged(n, cap) == IF n = Never THEN Never ELSE Min({cap, n + 1})

Lagged(a) == IF a.at = "idle" THEN a ELSE [a EXCEPT !.lag = @ + 1]

\* The clock moves once the loop has had its tick; a pass and a delivery take
\* at most MaxLag ticks.
ClockTick ==
    /\ ran \/ loop.at # "idle"
    /\ \A a \in {loop, push} : a.at # "idle" => a.lag < MaxLag
    /\ ran' = FALSE
    /\ loop' = Lagged(loop) /\ push' = Lagged(push)
    /\ lastRun' = Aged(lastRun, OldRun) /\ roundAt' = Aged(roundAt, OldRound)
    /\ heard' = [s \in Subs |-> IF s \in subs THEN Aged(heard[s], OldCall) ELSE 0]
    /\ UNCHANGED <<subs, cadence, round, last>>

SchedulerNext == \/ Pass \/ Check \/ Get \/ LoopCopy \/ LoopCall \/ Sweep
        \/ Publish \/ PushGet \/ PushMark \/ PushCopy \/ PushCall \/ ClockTick
        \/ \E s \in Subs : \/ Release(s)
                           \/ \E c \in Cadences : Subscribe(s, c) \/ SetCadence(s, c)

SchedulerSpec == SchedulerInit /\ [][SchedulerNext]_schedulerVars

-----------------------------------------------------------------------------
(* Properties *)

(***************************************************************************)
(* The tick is "the heartbeat dormancy and the collectors' re-emit rules    *)
(* ride": a subscriber with a cadence is called at least once every two and *)
(* a half of them, and the time that two passes and a delivery take.  Less  *)
(* will not do: a round delivered just after one tick makes the next two    *)
(* skip, and the pass after those may start late and read late.             *)
(***************************************************************************)
HeartbeatKept ==
    \A s \in subs : cadence[s] > 0 => 2 * heard[s] <= 5 * cadence[s] + 6 * MaxLag

(***************************************************************************)
(* "A ROUND THE STREAM HAS JUST DELIVERED IS NOT DELIVERED AGAIN": no       *)
(* subscriber is called with the round it was last called with while that   *)
(* round is younger than its cadence and a half.                            *)
(***************************************************************************)
NoRoundTwice ==
    [][\A s \in Subs :
          /\ loop.at = "call" /\ s \in loop.fns /\ s \notin loop'.fns
          /\ last[s] = loop.rows /\ Streamed
          => ~DeliveredRound(loop.cad)]_schedulerVars

=============================================================================
