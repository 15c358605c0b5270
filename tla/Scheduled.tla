------------------------------ MODULE Scheduled -----------------------------
(***************************************************************************)
(* internal/collect/scheduled.go: how a collector takes, moves and gives up *)
(* its subscription to a menu and the channel behind it.                    *)
(*                                                                         *)
(* begin (Resume), end (Suspend), retune (SetPollMs) and resubscribe (a     *)
(* table or a wireless stack chosen at run time) arrive on the goroutines   *)
(* of the connect loop, the dormancy supervisor and the websockets.  Each   *)
(* reads and writes the collector's fields under s.mu, and calls the cache  *)
(* outside it, so between any two of its critical sections the others run.  *)
(*                                                                         *)
(* A step is one critical section of s.mu or one call of the cache.         *)
(***************************************************************************)
CONSTANTS
    Callers,    \* goroutines that call the collector
    Menus,      \* menus it can be pointed at
    Streamed,   \* those of them StreamsMenu answers true for
    FirstMenu,  \* the menu it was made with
    Handles,    \* bound on what the cache gives out: a subscription or a stream
                \* hold.  The collector keeps one and each caller one more
    None        \* nil

ASSUME MenusAssumption == Streamed \subseteq Menus /\ FirstMenu \in Menus
ASSUME NoneAssumption == None \notin Menus \cup Handles

VARIABLES
    menu, release, unfill,  \* s.menu, s.release, s.unfill
    subs, fills,    \* what each handle holds in the cache: a menu, or None
    pc,         \* where each caller is
    onMenu,     \* its `menu`
    rel, fill,  \* its handles: `rel` or `old`, and `stop`, `fill` or `oldFill`
    then,       \* where it goes on when it has dropped what it took
    verdict     \* history: what the last begin or end asked for; "either" when
                \* the end fell inside a begin, "stopInMove" and "runInMove"
                \* when a resubscribe was under way or came in between

fields == <<menu, release, unfill>>
vars == <<menu, release, unfill, subs, fills, pc, onMenu, rel, fill, then, verdict>>

PC == {"idle", "subscribe", "commit", "giveUp", "look", "join", "keep", "stopFill",
       "dropSub", "dropFill"}

TypeOK ==
    /\ menu \in Menus /\ release \in Handles \cup {None} /\ unfill \in Handles \cup {None}
    /\ subs \in [Handles -> Menus \cup {None}] /\ fills \in [Handles -> Menus \cup {None}]
    /\ pc \in [Callers -> PC] /\ onMenu \in [Callers -> Menus \cup {None}]
    /\ rel \in [Callers -> Handles \cup {None}] /\ fill \in [Callers -> Handles \cup {None}]
    /\ then \in [Callers -> {"idle", "subscribe", "look"}]
    /\ verdict \in {"run", "stop", "either", "runInMove", "stopInMove"}

Init ==
    /\ menu = FirstMenu /\ release = None /\ unfill = None
    /\ subs = [i \in Handles |-> None] /\ fills = [i \in Handles |-> None]
    /\ pc = [c \in Callers |-> "idle"] /\ onMenu = [c \in Callers |-> None]
    /\ rel = [c \in Callers |-> None] /\ fill = [c \in Callers |-> None]
    /\ then = [c \in Callers |-> "idle"]
    /\ verdict = "stop"

\* Inside a begin, or a resubscribe, that has not committed.
Begins(b) == pc[b] \in {"subscribe", "commit"} /\ then[b] = "idle"
Moves(b) == then[b] = "subscribe" /\ pc[b] \in {"dropSub", "dropFill", "subscribe", "commit"}

Goto(c, l) == pc' = [pc EXCEPT ![c] = l]

\* Back from the call: the caller's locals go out of scope.
Return(c) ==
    /\ Goto(c, "idle")
    /\ onMenu' = [onMenu EXCEPT ![c] = None]
    /\ rel' = [rel EXCEPT ![c] = None] /\ fill' = [fill EXCEPT ![c] = None]
    /\ then' = [then EXCEPT ![c] = "idle"]

-----------------------------------------------------------------------------
(* begin *)

\* Idempotent: a collector that has its subscription keeps it.
Begin(c) ==
    /\ pc[c] = "idle"
    /\ verdict' = "run"
    /\ \/ /\ release # None
          /\ UNCHANGED <<pc, onMenu>>
       \/ /\ release = None
          /\ onMenu' = [onMenu EXCEPT ![c] = menu]
          /\ Goto(c, "subscribe")
    /\ UNCHANGED <<fields, subs, fills, rel, fill, then>>

Fresh(held) == CHOOSE i \in Handles : held[i] = None

\* The call of Subscribe that begin and resubscribe make outside s.mu.
Subscribe(c) ==
    /\ pc[c] = "subscribe"
    /\ \E i \in Handles : subs[i] = None
    /\ subs' = [subs EXCEPT ![Fresh(subs)] = onMenu[c]]
    /\ rel' = [rel EXCEPT ![c] = Fresh(subs)]
    /\ Goto(c, "commit")
    /\ UNCHANGED <<fields, fills, onMenu, fill, then, verdict>>

\* Two begins raced, or the menu moved: this subscription is given up.
Commit(c) ==
    /\ pc[c] = "commit"
    /\ \/ /\ release # None \/ menu # onMenu[c]
          /\ Goto(c, "giveUp")
          /\ UNCHANGED <<release, rel>>
       \/ /\ release = None /\ menu = onMenu[c]
          /\ release' = rel[c]
          /\ rel' = [rel EXCEPT ![c] = None]
          /\ Goto(c, "look")
    /\ UNCHANGED <<menu, unfill, subs, fills, onMenu, fill, then, verdict>>

\* Faulty forms: the loser's subscription is left in the demand set, or the
\* winner's is taken out with it.
GiveUpLeaking(c) ==
    /\ pc[c] = "giveUp"
    /\ Return(c)
    /\ UNCHANGED <<fields, subs, fills, verdict>>

GiveUpBoth(c) ==
    /\ pc[c] = "giveUp"
    /\ subs' = [i \in Handles |-> IF i \in {rel[c], release} THEN None ELSE subs[i]]
    /\ release' = None
    /\ Return(c)
    /\ UNCHANGED <<menu, unfill, fills, verdict>>

GiveUp(c) ==
    /\ pc[c] = "giveUp"
    /\ subs' = [subs EXCEPT ![rel[c]] = None]
    /\ Return(c)
    /\ UNCHANGED <<fields, fills, verdict>>

-----------------------------------------------------------------------------
(* fillIfStreaming *)

Look(c) ==
    /\ pc[c] = "look"
    /\ \/ /\ unfill # None \/ onMenu[c] \notin Streamed
          /\ Return(c)
       \/ /\ unfill = None /\ onMenu[c] \in Streamed
          /\ Goto(c, "join")
          /\ UNCHANGED <<onMenu, rel, fill, then>>
    /\ UNCHANGED <<fields, subs, fills, verdict>>

\* JoinStream; every refusal falls back to polling.
JoinStream(c) ==
    /\ pc[c] = "join"
    /\ \/ /\ Return(c)
          /\ UNCHANGED fills
       \/ /\ \E i \in Handles : fills[i] = None
          /\ fills' = [fills EXCEPT ![Fresh(fills)] = onMenu[c]]
          /\ fill' = [fill EXCEPT ![c] = Fresh(fills)]
          /\ Goto(c, "keep")
          /\ UNCHANGED <<onMenu, rel, then>>
    /\ UNCHANGED <<fields, subs, verdict>>

\* Faulty form: the channel is kept after the menu has moved.
RacedIgnoringMenu(c) == unfill # None \/ release = None

\* What happened while the channel opened: another begin, a move, or an end.
Raced(c) == unfill # None \/ menu # onMenu[c] \/ release = None

Keep(c) ==
    /\ pc[c] = "keep"
    /\ \/ /\ Raced(c)
          /\ Goto(c, "stopFill")
          /\ UNCHANGED <<unfill, onMenu, rel, fill, then>>
       \/ /\ ~Raced(c)
          /\ unfill' = fill[c]
          /\ Return(c)
    /\ UNCHANGED <<menu, release, subs, fills, verdict>>

StopFill(c) ==
    /\ pc[c] = "stopFill"
    /\ fills' = [fills EXCEPT ![fill[c]] = None]
    /\ Return(c)
    /\ UNCHANGED <<fields, subs, verdict>>

-----------------------------------------------------------------------------
(* retune, resubscribe and end take what the collector holds under s.mu and *)
(* drop it afterwards                                                       *)

\* Only a streamed menu carries the interval; the channel is closed and reopened.
Retune(c) ==
    /\ pc[c] = "idle" /\ unfill # None
    /\ fill' = [fill EXCEPT ![c] = unfill] /\ unfill' = None
    /\ onMenu' = [onMenu EXCEPT ![c] = menu]
    /\ then' = [then EXCEPT ![c] = "look"]
    /\ Goto(c, "dropFill")
    /\ UNCHANGED <<menu, release, subs, fills, rel, verdict>>

\* A no-op on the same menu; a suspended collector only records the choice.
Resubscribe(c, m) ==
    /\ pc[c] = "idle" /\ menu # m
    /\ menu' = m /\ release' = None /\ unfill' = None
    /\ onMenu' = [onMenu EXCEPT ![c] = m]
    /\ rel' = [rel EXCEPT ![c] = release] /\ fill' = [fill EXCEPT ![c] = unfill]
    /\ then' = [then EXCEPT ![c] = IF release = None THEN "idle" ELSE "subscribe"]
    /\ verdict' = IF verdict = "run" /\ \E b \in Callers : Begins(b) \/ Moves(b)
                  THEN "runInMove" ELSE verdict
    /\ Goto(c, "dropSub")
    /\ UNCHANGED <<subs, fills>>

\* "THE CHANNEL GOES WITH THE SUBSCRIPTION."
End(c) ==
    /\ pc[c] = "idle"
    /\ rel' = [rel EXCEPT ![c] = release] /\ release' = None
    /\ fill' = [fill EXCEPT ![c] = unfill] /\ unfill' = None
    /\ then' = [then EXCEPT ![c] = "idle"]
    /\ verdict' = CASE \E b \in Callers : Begins(b) -> "either"
                    [] ~(\E b \in Callers : Begins(b)) /\ (\E b \in Callers : Moves(b)) -> "stopInMove"
                    [] OTHER -> "stop"
    /\ Goto(c, "dropSub")
    /\ UNCHANGED <<menu, subs, fills, onMenu>>

DropSub(c) ==
    /\ pc[c] = "dropSub"
    /\ subs' = IF rel[c] = None THEN subs ELSE [subs EXCEPT ![rel[c]] = None]
    /\ rel' = [rel EXCEPT ![c] = None]
    /\ Goto(c, "dropFill")
    /\ UNCHANGED <<fields, fills, onMenu, fill, then, verdict>>

DropFill(c) ==
    /\ pc[c] = "dropFill"
    /\ fills' = IF fill[c] = None THEN fills ELSE [fills EXCEPT ![fill[c]] = None]
    /\ \/ /\ then[c] = "idle"
          /\ Return(c)
       \/ /\ then[c] # "idle"
          /\ fill' = [fill EXCEPT ![c] = None]
          /\ Goto(c, then[c])
          /\ UNCHANGED <<onMenu, rel, then>>
    /\ UNCHANGED <<fields, subs, verdict>>

-----------------------------------------------------------------------------
Next ==
    \E c \in Callers :
        \/ Begin(c) \/ Subscribe(c) \/ Commit(c) \/ GiveUp(c)
        \/ Look(c) \/ JoinStream(c) \/ Keep(c) \/ StopFill(c)
        \/ Retune(c) \/ End(c) \/ DropSub(c) \/ DropFill(c)
        \/ \E m \in Menus : Resubscribe(c, m)

Spec == Init /\ [][Next]_vars

-----------------------------------------------------------------------------
(* Properties *)

Quiescent == \A c \in Callers : pc[c] = "idle"

\* The handles something in the collector or in a caller can still release.
Reachable(kept, local) == ({kept} \cup {local[c] : c \in Callers}) \ {None}

(***************************************************************************)
(* begin: "give this one up rather than leaking it, so the count still      *)
(* reaches zero when the collector stops".  However the calls interleave,   *)
(* every subscription and every stream hold the cache has given out is held *)
(* by exactly one of the collector and its callers, so none outlives them.  *)
(***************************************************************************)
NothingLeaks ==
    /\ {i \in Handles : subs[i] # None} = Reachable(release, rel)
    /\ {i \in Handles : fills[i] # None} = Reachable(unfill, fill)
    /\ \A c, d \in Callers :
          /\ rel[c] # None => rel[c] # release /\ (c # d => rel[c] # rel[d])
          /\ fill[c] # None => fill[c] # unfill /\ (c # d => fill[c] # fill[d])

(***************************************************************************)
(* resubscribe moves the subscription and the channel together: what the    *)
(* collector holds is for the menu it is pointed at, so an old menu's rows  *)
(* are not read for it, and a channel never stays behind without the        *)
(* subscription it was opened for.                                          *)
(***************************************************************************)
HoldsFollowTheMenu ==
    /\ release # None => subs[release] = menu
    /\ unfill # None => fills[unfill] = menu /\ release # None

(***************************************************************************)
(* retune: "A Suspend that lands mid-way wins"; begin is idempotent and two *)
(* of them may race.  Once every call has returned the last word decides: a *)
(* collector that was ended, outside any begin and any resubscribe, holds   *)
(* neither a subscription nor a channel, and one that was begun is          *)
(* subscribed unless a resubscribe came while another call had the old menu *)
(* in hand.                                                                 *)
(***************************************************************************)
LastCallDecides ==
    /\ Quiescent /\ verdict = "stop" => release = None /\ unfill = None
    /\ Quiescent /\ verdict = "run" => release # None

(***************************************************************************)
(* The same for an end inside a resubscribe, and for a resubscribe inside a *)
(* begin ("Safe while suspended: it records the choice and `begin` picks it *)
(* up").  The code keeps neither: resubscribe commits after the end, and    *)
(* begin gives up the subscription it made.                                 *)
(***************************************************************************)
SuspendWinsOverResubscribe ==
    Quiescent /\ verdict = "stopInMove" => release = None /\ unfill = None
ResubscribeIsSafeInBegin ==
    Quiescent /\ verdict = "runInMove" => release # None

=============================================================================
