-------------------------- MODULE ScheduledProofs ---------------------------
(***************************************************************************)
(* For any number of callers, menus and handles: however begin, end, retune *)
(* and resubscribe interleave, no subscription and no stream hold is lost,  *)
(* what the collector holds is for the menu it is pointed at, and the last  *)
(* word decides once every call has returned.                               *)
(***************************************************************************)
EXTENDS Scheduled, TLAPS

\* What a caller's place in the code says about the handles it carries: it has
\* a subscription of its own exactly between Subscribe and the commit, and a
\* stream hold of its own exactly between JoinStream and the decision to keep
\* it, each for the menu it read; else only what it took under s.mu.
LocalsFit ==
    \A c \in Callers :
        /\ pc[c] \in {"commit", "giveUp"} =>
              rel[c] # None /\ subs[rel[c]] = onMenu[c] /\ fill[c] = None
        /\ pc[c] \in {"keep", "stopFill"} =>
              fill[c] # None /\ fills[fill[c]] = onMenu[c] /\ rel[c] = None
        /\ pc[c] \in {"idle", "subscribe", "look", "join"} => rel[c] = None /\ fill[c] = None
        /\ pc[c] = "dropFill" => rel[c] = None
        /\ pc[c] \in {"subscribe", "commit", "look", "join", "keep"} => onMenu[c] \in Menus
        /\ pc[c] \in {"dropSub", "dropFill"} /\ then[c] # "idle" => onMenu[c] \in Menus

\* The inductive invariant: NothingLeaks needs LocalsFit to know that a caller's
\* local is empty before it takes a handle, and HoldsFollowTheMenu to know which
\* menu a committed handle is for.
Inv == TypeOK /\ NothingLeaks /\ HoldsFollowTheMenu /\ LocalsFit

\* A handle the cache gives out is one nobody holds.
LEMMA FreshIsFree ==
    ASSUME NEW held \in [Handles -> Menus \cup {None}], \E i \in Handles : held[i] = None
    PROVE  Fresh(held) \in Handles /\ held[Fresh(held)] = None
BY DEF Fresh

\* A new collector holds nothing.
LEMMA InitInv == Init => Inv
BY MenusAssumption, NoneAssumption
   DEF Init, Inv, TypeOK, NothingLeaks, HoldsFollowTheMenu, LocalsFit, Reachable, PC

\* Every step of every caller keeps the invariant.
LEMMA NextInv == Inv /\ [Next]_vars => Inv'
<1> SUFFICES ASSUME Inv, [Next]_vars PROVE Inv'
  OBVIOUS
<1> USE NoneAssumption DEF fields, Goto, Return
<1>1. CASE UNCHANGED vars
  BY <1>1 DEF vars, Inv, TypeOK, NothingLeaks, HoldsFollowTheMenu, LocalsFit, Reachable
<1>2. ASSUME NEW c \in Callers, Begin(c) PROVE Inv'
  <2>1. TypeOK'
    BY <1>2 DEF Begin, Inv, TypeOK, PC, LocalsFit
  <2>2. NothingLeaks'
    BY <1>2 DEF Begin, Inv, TypeOK, NothingLeaks, LocalsFit, Reachable
  <2>3. HoldsFollowTheMenu'
    BY <1>2 DEF Begin, Inv, TypeOK, NothingLeaks, HoldsFollowTheMenu, LocalsFit, Reachable
  <2>4. LocalsFit'
    BY <1>2 DEF Begin, Inv, TypeOK, NothingLeaks, LocalsFit, Reachable, PC
  <2> QED
    BY <2>1, <2>2, <2>3, <2>4 DEF Inv
<1>3. ASSUME NEW c \in Callers, Subscribe(c) PROVE Inv'
  <2>1. TypeOK'
    BY <1>3, FreshIsFree DEF Subscribe, Inv, TypeOK, PC, LocalsFit
  <2>2. NothingLeaks'
    BY <1>3, FreshIsFree DEF Subscribe, Inv, TypeOK, NothingLeaks, LocalsFit, Reachable
  <2>3. HoldsFollowTheMenu'
    BY <1>3, FreshIsFree DEF Subscribe, Inv, TypeOK, NothingLeaks, HoldsFollowTheMenu, LocalsFit, Reachable
  <2>4. LocalsFit'
    BY <1>3, FreshIsFree DEF Subscribe, Inv, TypeOK, NothingLeaks, LocalsFit, Reachable, PC
  <2> QED
    BY <2>1, <2>2, <2>3, <2>4 DEF Inv
<1>4. ASSUME NEW c \in Callers, Commit(c) PROVE Inv'
  <2>1. TypeOK'
    BY <1>4 DEF Commit, Inv, TypeOK, PC, LocalsFit
  <2>2. NothingLeaks'
    BY <1>4 DEF Commit, Inv, TypeOK, NothingLeaks, LocalsFit, Reachable
  <2>3. HoldsFollowTheMenu'
    BY <1>4 DEF Commit, Inv, TypeOK, NothingLeaks, HoldsFollowTheMenu, LocalsFit, Reachable
  <2>4. LocalsFit'
    BY <1>4 DEF Commit, Inv, TypeOK, NothingLeaks, LocalsFit, Reachable, PC
  <2> QED
    BY <2>1, <2>2, <2>3, <2>4 DEF Inv
<1>5. ASSUME NEW c \in Callers, GiveUp(c) PROVE Inv'
  <2>1. TypeOK'
    BY <1>5 DEF GiveUp, Inv, TypeOK, PC, LocalsFit
  <2>2. NothingLeaks'
    BY <1>5 DEF GiveUp, Inv, TypeOK, NothingLeaks, LocalsFit, Reachable
  <2>3. HoldsFollowTheMenu'
    BY <1>5 DEF GiveUp, Inv, TypeOK, NothingLeaks, HoldsFollowTheMenu, LocalsFit, Reachable
  <2>4. LocalsFit'
    BY <1>5 DEF GiveUp, Inv, TypeOK, NothingLeaks, LocalsFit, Reachable, PC
  <2> QED
    BY <2>1, <2>2, <2>3, <2>4 DEF Inv
<1>6. ASSUME NEW c \in Callers, Look(c) PROVE Inv'
  <2>1. TypeOK'
    BY <1>6 DEF Look, Inv, TypeOK, PC, LocalsFit
  <2>2. NothingLeaks'
    BY <1>6 DEF Look, Inv, TypeOK, NothingLeaks, LocalsFit, Reachable
  <2>3. HoldsFollowTheMenu'
    BY <1>6 DEF Look, Inv, TypeOK, NothingLeaks, HoldsFollowTheMenu, LocalsFit, Reachable
  <2>4. LocalsFit'
    BY <1>6 DEF Look, Inv, TypeOK, NothingLeaks, LocalsFit, Reachable, PC
  <2> QED
    BY <2>1, <2>2, <2>3, <2>4 DEF Inv
<1>7. ASSUME NEW c \in Callers, JoinStream(c) PROVE Inv'
  <2>1. CASE Return(c) /\ UNCHANGED fills
    BY <1>7, <2>1 DEF JoinStream, Inv, TypeOK, NothingLeaks, HoldsFollowTheMenu, LocalsFit, Reachable, PC
  <2>2. ASSUME ~(Return(c) /\ UNCHANGED fills) PROVE Inv'
    <3> DEFINE i == Fresh(fills)
    <3>1. /\ pc[c] = "join" /\ fills' = [fills EXCEPT ![i] = onMenu[c]]
          /\ fill' = [fill EXCEPT ![c] = i] /\ pc' = [pc EXCEPT ![c] = "keep"]
          /\ UNCHANGED <<menu, release, unfill, subs, onMenu, rel, then, verdict>>
      BY <1>7, <2>2 DEF JoinStream
    <3>2. i \in Handles /\ fills[i] = None
      BY <1>7, <2>2, FreshIsFree DEF JoinStream, Inv, TypeOK
    <3> HIDE DEF i
    <3>3. TypeOK'
      BY <3>1, <3>2 DEF Inv, TypeOK, PC
    <3>4. NothingLeaks'
      BY <3>1, <3>2 DEF Inv, TypeOK, NothingLeaks, LocalsFit, Reachable
    <3>5. HoldsFollowTheMenu'
      BY <3>1, <3>2 DEF Inv, TypeOK, HoldsFollowTheMenu
    <3>6. LocalsFit'
      BY <3>1, <3>2 DEF Inv, TypeOK, LocalsFit, NothingLeaks, Reachable
    <3> QED
      BY <3>3, <3>4, <3>5, <3>6 DEF Inv
  <2> QED
    BY <2>1, <2>2
<1>8. ASSUME NEW c \in Callers, Keep(c) PROVE Inv'
  <2>1. TypeOK'
    BY <1>8 DEF Keep, Raced, Inv, TypeOK, PC, LocalsFit
  <2>2. NothingLeaks'
    BY <1>8 DEF Keep, Raced, Inv, TypeOK, NothingLeaks, LocalsFit, Reachable
  <2>3. HoldsFollowTheMenu'
    BY <1>8 DEF Keep, Raced, Inv, TypeOK, NothingLeaks, HoldsFollowTheMenu, LocalsFit, Reachable
  <2>4. LocalsFit'
    BY <1>8 DEF Keep, Raced, Inv, TypeOK, NothingLeaks, LocalsFit, Reachable, PC
  <2> QED
    BY <2>1, <2>2, <2>3, <2>4 DEF Inv
<1>9. ASSUME NEW c \in Callers, StopFill(c) PROVE Inv'
  <2>1. TypeOK'
    BY <1>9 DEF StopFill, Inv, TypeOK, PC, LocalsFit
  <2>2. NothingLeaks'
    BY <1>9 DEF StopFill, Inv, TypeOK, NothingLeaks, LocalsFit, Reachable
  <2>3. HoldsFollowTheMenu'
    BY <1>9 DEF StopFill, Inv, TypeOK, NothingLeaks, HoldsFollowTheMenu, LocalsFit, Reachable
  <2>4. LocalsFit'
    BY <1>9 DEF StopFill, Inv, TypeOK, NothingLeaks, LocalsFit, Reachable, PC
  <2> QED
    BY <2>1, <2>2, <2>3, <2>4 DEF Inv
<1>10. ASSUME NEW c \in Callers, Retune(c) PROVE Inv'
  <2>1. TypeOK'
    BY <1>10 DEF Retune, Inv, TypeOK, PC, LocalsFit
  <2>2. NothingLeaks'
    BY <1>10 DEF Retune, Inv, TypeOK, NothingLeaks, LocalsFit, Reachable
  <2>3. HoldsFollowTheMenu'
    BY <1>10 DEF Retune, Inv, TypeOK, NothingLeaks, HoldsFollowTheMenu, LocalsFit, Reachable
  <2>4. LocalsFit'
    BY <1>10 DEF Retune, Inv, TypeOK, NothingLeaks, LocalsFit, Reachable, PC
  <2> QED
    BY <2>1, <2>2, <2>3, <2>4 DEF Inv
<1>11. ASSUME NEW c \in Callers, End(c) PROVE Inv'
  <2>1. TypeOK'
    BY <1>11 DEF End, Inv, TypeOK, PC, LocalsFit
  <2>2. NothingLeaks'
    BY <1>11 DEF End, Inv, TypeOK, NothingLeaks, LocalsFit, Reachable
  <2>3. HoldsFollowTheMenu'
    BY <1>11 DEF End, Inv, TypeOK, NothingLeaks, HoldsFollowTheMenu, LocalsFit, Reachable
  <2>4. LocalsFit'
    BY <1>11 DEF End, Inv, TypeOK, NothingLeaks, LocalsFit, Reachable, PC
  <2> QED
    BY <2>1, <2>2, <2>3, <2>4 DEF Inv
<1>12. ASSUME NEW c \in Callers, DropSub(c) PROVE Inv'
  <2>1. TypeOK'
    BY <1>12 DEF DropSub, Inv, TypeOK, PC, LocalsFit
  <2>2. NothingLeaks'
    BY <1>12 DEF DropSub, Inv, TypeOK, NothingLeaks, LocalsFit, Reachable
  <2>3. HoldsFollowTheMenu'
    BY <1>12 DEF DropSub, Inv, TypeOK, NothingLeaks, HoldsFollowTheMenu, LocalsFit, Reachable
  <2>4. LocalsFit'
    BY <1>12 DEF DropSub, Inv, TypeOK, NothingLeaks, LocalsFit, Reachable, PC
  <2> QED
    BY <2>1, <2>2, <2>3, <2>4 DEF Inv
<1>13. ASSUME NEW c \in Callers, DropFill(c) PROVE Inv'
  <2>1. TypeOK'
    BY <1>13 DEF DropFill, Inv, TypeOK, PC, LocalsFit
  <2>2. NothingLeaks'
    BY <1>13 DEF DropFill, Inv, TypeOK, NothingLeaks, LocalsFit, Reachable
  <2>3. HoldsFollowTheMenu'
    BY <1>13 DEF DropFill, Inv, TypeOK, NothingLeaks, HoldsFollowTheMenu, LocalsFit, Reachable
  <2>4. LocalsFit'
    BY <1>13 DEF DropFill, Inv, TypeOK, NothingLeaks, LocalsFit, Reachable, PC
  <2> QED
    BY <2>1, <2>2, <2>3, <2>4 DEF Inv
<1>14. ASSUME NEW c \in Callers, NEW m \in Menus, Resubscribe(c, m) PROVE Inv'
  <2>1. TypeOK'
    BY <1>14 DEF Resubscribe, Inv, TypeOK, PC, LocalsFit
  <2>2. NothingLeaks'
    BY <1>14 DEF Resubscribe, Inv, TypeOK, NothingLeaks, LocalsFit, Reachable
  <2>3. HoldsFollowTheMenu'
    BY <1>14 DEF Resubscribe, Inv, TypeOK, NothingLeaks, HoldsFollowTheMenu, LocalsFit, Reachable
  <2>4. LocalsFit'
    BY <1>14 DEF Resubscribe, Inv, TypeOK, NothingLeaks, LocalsFit, Reachable, PC
  <2> QED
    BY <2>1, <2>2, <2>3, <2>4 DEF Inv
<1> QED
  BY <1>1, <1>2, <1>3, <1>4, <1>5, <1>6, <1>7, <1>8, <1>9,
     <1>10, <1>11, <1>12, <1>13, <1>14 DEF Next

-----------------------------------------------------------------------------
(***************************************************************************)
(* Type correctness, for every number of callers, menus and handles.        *)
(***************************************************************************)
THEOREM TypeCorrect == Spec => []TypeOK
<1>1. Inv => TypeOK
  BY DEF Inv
<1> QED
  BY InitInv, NextInv, <1>1, PTL DEF Spec

(***************************************************************************)
(* However begin, end, retune and resubscribe interleave, every             *)
(* subscription and every stream hold the cache gave out is held by exactly *)
(* one of the collector and its callers.                                    *)
(***************************************************************************)
THEOREM NothingLeaksHolds == Spec => []NothingLeaks
<1>1. Inv => NothingLeaks
  BY DEF Inv
<1> QED
  BY InitInv, NextInv, <1>1, PTL DEF Spec

(***************************************************************************)
(* The subscription and the channel the collector holds are for the menu it *)
(* is pointed at, and the channel is never without the subscription.        *)
(***************************************************************************)
THEOREM HoldsFollowTheMenuHolds == Spec => []HoldsFollowTheMenu
<1>1. Inv => HoldsFollowTheMenu
  BY DEF Inv
<1> QED
  BY InitInv, NextInv, <1>1, PTL DEF Spec
-----------------------------------------------------------------------------
(* The last word *)

\* Between its first and its last critical section a caller knows where it goes.
PlacesFit ==
    \A c \in Callers : /\ pc[c] = "idle" => then[c] = "idle"
                       /\ pc[c] \in {"subscribe", "commit"} => then[c] \in {"idle", "subscribe"}

\* Nobody is on the way to a commit that would take the collector up again.
StopDecides ==
    verdict = "stop" => release = None /\ \A b \in Callers : ~ Begins(b) /\ ~ Moves(b)

\* The collector is subscribed, or somebody is on the way to a commit that will
\* find the menu it read.
RunDecides ==
    verdict = "run" => \/ release # None
                       \/ \E b \in Callers : (Begins(b) \/ Moves(b)) /\ onMenu[b] = menu

LastWord == PlacesFit /\ StopDecides /\ RunDecides

LEMMA LastWordInit == Init => LastWord
BY DEF Init, LastWord, PlacesFit, StopDecides, RunDecides, Begins, Moves

\* A step that leaves the collector's fields and the verdict, and every other
\* caller, alone, and leaves its caller as far from a commit as it was.
LEMMA OthersWait ==
    ASSUME Inv, LastWord, NEW c \in Callers, UNCHANGED <<menu, release, verdict>>,
           pc' \in [Callers -> PC], then' \in [Callers -> {"idle", "subscribe", "look"}],
           \A b \in Callers \ {c} : pc'[b] = pc[b] /\ then'[b] = then[b] /\ onMenu'[b] = onMenu[b],
           pc'[c] = "idle" => then'[c] = "idle",
           pc'[c] \in {"subscribe", "commit"} => then'[c] \in {"idle", "subscribe"},
           (Begins(c) \/ Moves(c))' <=> (Begins(c) \/ Moves(c)),
           Begins(c) \/ Moves(c) => onMenu'[c] = onMenu[c]
    PROVE  LastWord'
<1>1. PlacesFit'
  BY DEF LastWord, PlacesFit
<1>2. \A b \in Callers : (Begins(b) \/ Moves(b))' <=> (Begins(b) \/ Moves(b))
  BY DEF Begins, Moves
<1>3. \A b \in Callers : Begins(b) \/ Moves(b) => onMenu'[b] = onMenu[b]
  OBVIOUS
<1>4. StopDecides'
  BY <1>2 DEF LastWord, StopDecides
<1>5. RunDecides'
  BY <1>2, <1>3 DEF LastWord, RunDecides
<1> QED
  BY <1>1, <1>4, <1>5 DEF LastWord

LEMMA LastWordNext == Inv /\ LastWord /\ [Next]_vars => LastWord'
<1> SUFFICES ASSUME Inv, LastWord, [Next]_vars PROVE LastWord'
  OBVIOUS
<1>0. TypeOK /\ PlacesFit /\ StopDecides /\ RunDecides /\ HoldsFollowTheMenu
  BY DEF Inv, LastWord
<1> USE <1>0, NoneAssumption DEF fields, Goto, Return
<1>1. CASE UNCHANGED vars
  BY <1>1 DEF vars, LastWord, PlacesFit, StopDecides, RunDecides, Begins, Moves
<1>2. ASSUME NEW c \in Callers, Begin(c) PROVE LastWord'
  <2>1. PlacesFit'
    BY <1>2 DEF Begin, TypeOK, PlacesFit
  <2>2. StopDecides'
    BY <1>2 DEF Begin, StopDecides
  <2>3. RunDecides'
    BY <1>2 DEF Begin, TypeOK, PlacesFit, RunDecides, Begins
  <2> QED
    BY <2>1, <2>2, <2>3 DEF LastWord
<1>3. ASSUME NEW c \in Callers, Subscribe(c) PROVE LastWord'
  BY <1>3, OthersWait DEF Subscribe, TypeOK, PlacesFit, Begins, Moves, PC
<1>4. ASSUME NEW c \in Callers, Commit(c) PROVE LastWord'
  <2>1. PlacesFit'
    BY <1>4 DEF Commit, TypeOK, PlacesFit
  <2>2. Begins(c) \/ Moves(c)
    BY <1>4 DEF Commit, PlacesFit, Begins, Moves
  <2>3. StopDecides'
    BY <1>4, <2>2 DEF Commit, StopDecides
  <2>4. RunDecides'
    <3>1. CASE release # None \/ menu # onMenu[c]
      <4>1. /\ pc' = [pc EXCEPT ![c] = "giveUp"] /\ UNCHANGED <<menu, release, onMenu, then, verdict>>
        BY <1>4, <3>1 DEF Commit
      <4>2. \A b \in Callers : b # c => (Begins(b) \/ Moves(b))' = (Begins(b) \/ Moves(b))
        BY <4>1 DEF TypeOK, Begins, Moves
      <4> QED
        BY <3>1, <4>1, <4>2 DEF RunDecides
    <3>2. CASE ~ (release # None \/ menu # onMenu[c])
      <4>1. release' = rel[c] /\ rel[c] # None
        BY <1>4, <3>2 DEF Commit, Inv, LocalsFit
      <4> QED
        BY <4>1 DEF RunDecides
    <3> QED
      BY <3>1, <3>2
  <2> QED
    BY <2>1, <2>3, <2>4 DEF LastWord
<1>5. ASSUME NEW c \in Callers, GiveUp(c) PROVE LastWord'
  BY <1>5, OthersWait DEF GiveUp, TypeOK, Begins, Moves, PC
<1>6. ASSUME NEW c \in Callers, Look(c) PROVE LastWord'
  BY <1>6, OthersWait DEF Look, TypeOK, Begins, Moves, PC
<1>7. ASSUME NEW c \in Callers, JoinStream(c) PROVE LastWord'
  BY <1>7, OthersWait DEF JoinStream, TypeOK, Begins, Moves, PC
<1>8. ASSUME NEW c \in Callers, Keep(c) PROVE LastWord'
  BY <1>8, OthersWait DEF Keep, TypeOK, Begins, Moves, PC
<1>9. ASSUME NEW c \in Callers, StopFill(c) PROVE LastWord'
  BY <1>9, OthersWait DEF StopFill, TypeOK, Begins, Moves, PC
<1>10. ASSUME NEW c \in Callers, Retune(c) PROVE LastWord'
  BY <1>10, OthersWait DEF Retune, TypeOK, PlacesFit, Begins, Moves, PC
<1>11. ASSUME NEW c \in Callers, End(c) PROVE LastWord'
  <2>1. /\ pc[c] = "idle" /\ pc' = [pc EXCEPT ![c] = "dropSub"] /\ then' = [then EXCEPT ![c] = "idle"]
        /\ release' = None /\ verdict' # "run"
        /\ verdict' = "stop" => \A b \in Callers : ~ Begins(b) /\ ~ Moves(b)
    BY <1>11 DEF End
  <2>2. PlacesFit'
    BY <2>1 DEF TypeOK, PlacesFit
  <2>3. StopDecides'
    BY <2>1 DEF TypeOK, StopDecides, Begins, Moves
  <2>4. RunDecides'
    BY <2>1 DEF RunDecides
  <2> QED
    BY <2>2, <2>3, <2>4 DEF LastWord
<1>12. ASSUME NEW c \in Callers, DropSub(c) PROVE LastWord'
  BY <1>12, OthersWait DEF DropSub, TypeOK, Begins, Moves, PC
<1>13. ASSUME NEW c \in Callers, DropFill(c) PROVE LastWord'
  <2>1. CASE then[c] = "idle"
    BY <1>13, <2>1, OthersWait DEF DropFill, TypeOK, Begins, Moves, PC
  <2>2. CASE then[c] # "idle"
    BY <1>13, <2>2, OthersWait DEF DropFill, TypeOK, Begins, Moves, PC
  <2> QED
    BY <2>1, <2>2
<1>14. ASSUME NEW c \in Callers, NEW m \in Menus, Resubscribe(c, m) PROVE LastWord'
  <2>1. /\ pc[c] = "idle" /\ pc' = [pc EXCEPT ![c] = "dropSub"] /\ menu' = m /\ release' = None
        /\ then' = [then EXCEPT ![c] = IF release = None THEN "idle" ELSE "subscribe"]
        /\ onMenu' = [onMenu EXCEPT ![c] = m]
        /\ verdict' \in {verdict, "runInMove"}
        /\ verdict' = "run" => \A b \in Callers : ~ Begins(b) /\ ~ Moves(b)
    BY <1>14 DEF Resubscribe
  <2>2. PlacesFit'
    BY <2>1 DEF TypeOK, PlacesFit
  <2>3. StopDecides'
    BY <2>1 DEF TypeOK, StopDecides, Begins, Moves
  <2>4. RunDecides'
    <3> SUFFICES ASSUME verdict' = "run" PROVE Moves(c)' /\ onMenu'[c] = menu'
      BY DEF RunDecides
    <3>1. release # None
      BY <2>1 DEF RunDecides
    <3> QED
      BY <2>1, <3>1 DEF TypeOK, Moves
  <2> QED
    BY <2>2, <2>3, <2>4 DEF LastWord
<1> QED
  BY <1>1, <1>2, <1>3, <1>4, <1>5, <1>6, <1>7, <1>8, <1>9,
     <1>10, <1>11, <1>12, <1>13, <1>14 DEF Next

(***************************************************************************)
(* Once every call has returned, an end that fell into no begin and no      *)
(* resubscribe has left neither a subscription nor a channel, and a begin   *)
(* that no resubscribe overtook has left a subscription: for any number of  *)
(* callers, and retunes and resubscribes at any moment.                     *)
(***************************************************************************)
THEOREM LastCallDecidesHolds == Spec => []LastCallDecides
<1>1. Inv /\ LastWord => LastCallDecides
  BY DEF Inv, LastWord, HoldsFollowTheMenu, StopDecides, RunDecides, LastCallDecides, Quiescent, Begins, Moves
<1> QED
  BY InitInv, NextInv, LastWordInit, LastWordNext, <1>1, PTL DEF Spec
=============================================================================
