------------------------------ MODULE RosCache ------------------------------
(***************************************************************************)
(* internal/roscache/roscache.go: one router's coalescing reader.          *)
(*                                                                         *)
(* Several goroutines call Get(menu, fields, ttl) at once.  `claim` decides *)
(* under c.mu whether the caller is answered from the entry, waits for the  *)
(* fetch somebody else is running, or runs the fetch itself; the fetch      *)
(* itself (reading the proplist, Do, storing the result) happens in steps   *)
(* between which every other goroutine may run.  Invalidate and Reset come  *)
(* in from the write path, the scheduler and the reconnect.                 *)
(*                                                                         *)
(* One step is one critical section of c.mu, or one wait on the router.     *)
(* Menus answered by an open channel (Get's first branch) are in RosStream. *)
(***************************************************************************)
EXTENDS Integers, FiniteSets

CONSTANTS
    Callers,    \* goroutines that call Get, one per consumer
    Menus,      \* RouterOS print paths
    Fields,     \* columns a menu has
    Ttls,       \* the tolerances callers pass, in ticks; 0 is "none of my own"
    Asks,       \* what each consumer passes to Get: its menu, fields and ttl
    ErrTTL,     \* errTTL, in ticks
    MaxAge,     \* ages are counted up to here
    MaxEra,     \* bound on the number of Invalidate and Reset calls
    None,       \* nil, of an *entry and of an inflight channel
    NoVal       \* a nil *result

ASSUME TtlAssumption ==
    /\ Ttls \subseteq Nat /\ ErrTTL \in Nat \ {0} /\ MaxAge \in Nat
    /\ \A t \in Ttls : t <= MaxAge
    /\ ErrTTL <= MaxAge
ASSUME AsksAssumption ==
    Asks \in [Callers -> [menu : Menus, want : SUBSET Fields, ttl : Ttls]]
ASSUME EraAssumption == MaxEra \in Nat
ASSUME NoneAssumption == None \notin Callers

(***************************************************************************)
(* A result: the columns its rows carry, its age since time.Now() was taken *)
(* and whether it is a failure.  `era` is history: the number of            *)
(* Invalidate and Reset calls made when the router answered.                *)
(***************************************************************************)
Result == [cols : SUBSET Fields, age : 0..MaxAge, err : BOOLEAN, era : 0..MaxEra]

ASSUME NoValAssumption == NoVal \notin Result

(***************************************************************************)
(* An *entry.  `every` is fields == nil, the proplist being "" with it;     *)
(* `inflight` is the caller that made the channel, None for nil.            *)
(***************************************************************************)
Entry == [fields : SUBSET Fields, every : BOOLEAN, ttl : Ttls,
          val : Result \cup {NoVal}, inflight : Callers \cup {None}]

\* Reset replaces the map, so a menu has at most one entry object per Reset and
\* the pair of them identifies it.
EntryIds == Menus \X (0..MaxEra)

ASSUME NoEntryAssumption == None \notin Entry /\ None \notin EntryIds

VARIABLES
    heap,       \* the entry objects, those Reset has orphaned included
    pc,         \* where each Get stands
    ent,        \* its `e`
    cols,       \* the columns its command asked for
    ans,        \* its `r`
    era,        \* history: Invalidate and Reset calls so far
    invalAt,    \* history: the era of each menu's last Invalidate
    since,      \* history: invalAt and resetAt when each Get began
    resetAt     \* the era of the last Reset, which identifies the live map

vars == <<heap, pc, since, ent, cols, ans, era, invalAt, resetAt>>

\* "hit" and "fetched" are a Get about to return, by where its answer is from.
PC == {"idle", "claim", "wait", "cmd", "do", "store", "hit", "fetched"}

TypeOK ==
    /\ heap \in [EntryIds -> Entry \cup {None}]
    /\ pc \in [Callers -> PC]
    /\ since \in [Callers -> [inval : 0..MaxEra, reset : 0..MaxEra]]
    /\ ent \in [Callers -> EntryIds \cup {None}]
    /\ cols \in [Callers -> SUBSET Fields]
    /\ ans \in [Callers -> Result \cup {NoVal}]
    /\ era \in 0..MaxEra
    /\ invalAt \in [Menus -> 0..MaxEra]
    /\ resetAt \in 0..MaxEra

\* What a caller's field list asks for: an empty one means every field.
Wanted(want) == IF want = {} THEN Fields ELSE want

\* The columns a fetch of entry `e` asks the router for: no proplist, all.
Proplist(e) == IF e.every THEN Fields ELSE e.fields

NewEntry(ttl) ==
    [fields |-> {}, every |-> FALSE, ttl |-> ttl, val |-> NoVal, inflight |-> None]

\* Faulty form: the first caller's tolerance stays.
TightenNever(e, ttl) == e

\* "the shortest tolerance wins"
Tighten(e, ttl) ==
    IF ttl > 0 /\ (e.ttl <= 0 \/ ttl < e.ttl) THEN [e EXCEPT !.ttl = ttl] ELSE e

\* entry.widen reports growth; claim then drops the value.
Grows(e, want) == ~e.every /\ (want = {} \/ ~(want \subseteq e.fields))

Widen(e, want) ==
    IF Grows(e, want)
    THEN [e EXCEPT !.every = (want = {}),
                   !.fields = IF want = {} THEN {} ELSE @ \cup want,
                   !.val = NoVal]
    ELSE e

\* How long claim lets a value live: a failure no longer than errTTL.
Life(e) == IF e.val.err /\ e.ttl > ErrTTL THEN ErrTTL ELSE e.ttl

Fresh(e) == e.val # NoVal /\ e.val.age < Life(e)

\* The object c.entries holds for a menu; None when the map has no such key.
Live(m) == <<m, resetAt>>

Answered(g) == pc[g] \in {"hit", "fetched"}

Init ==
    /\ heap = [e \in EntryIds |-> None]
    /\ pc = [g \in Callers |-> "idle"]
    /\ since = [g \in Callers |-> [inval |-> 0, reset |-> 0]]
    /\ ent = [g \in Callers |-> None]
    /\ cols = [g \in Callers |-> {}]
    /\ ans = [g \in Callers |-> NoVal]
    /\ era = 0
    /\ invalAt = [m \in Menus |-> 0]
    /\ resetAt = 0

-----------------------------------------------------------------------------
(* Get *)

\* A goroutine calls Get.
Begin(g) ==
    /\ pc[g] = "idle"
    /\ pc' = [pc EXCEPT ![g] = "claim"]
    /\ since' = [since EXCEPT ![g] = [inval |-> invalAt[Asks[g].menu], reset |-> resetAt]]
    /\ UNCHANGED <<heap, ent, cols, ans, era, invalAt, resetAt>>

\* Faulty form: claim does not look at e.inflight before it makes the channel.
DecideWithoutWaiting(g, e, x) ==
    /\ ent' = [ent EXCEPT ![g] = e]
    /\ heap' = [heap EXCEPT ![e] = [x EXCEPT !.inflight = g]]
    /\ pc' = [pc EXCEPT ![g] = "cmd"]
    /\ UNCHANGED <<since, cols, ans, era, invalAt, resetAt>>

\* The rest of claim, on the object `e` holding the value `x` once the ttl and
\* the field union have been brought up to date.
Decide(g, e, x) ==
    /\ ent' = [ent EXCEPT ![g] = e]
    /\ \/ /\ Fresh(x)
          /\ heap' = [heap EXCEPT ![e] = x]
          /\ ans' = [ans EXCEPT ![g] = x.val]
          /\ pc' = [pc EXCEPT ![g] = "hit"]
       \/ /\ ~Fresh(x) /\ x.inflight # None
          /\ heap' = [heap EXCEPT ![e] = x]
          /\ pc' = [pc EXCEPT ![g] = "wait"]
          /\ UNCHANGED ans
       \/ /\ ~Fresh(x) /\ x.inflight = None
          /\ heap' = [heap EXCEPT ![e] = [x EXCEPT !.inflight = g]]
          /\ pc' = [pc EXCEPT ![g] = "cmd"]
          /\ UNCHANGED ans
    /\ UNCHANGED <<since, cols, era, invalAt, resetAt>>

\* claim, under c.mu from its first line to its last.
Claim(g) ==
    /\ pc[g] = "claim"
    /\ LET e == Live(Asks[g].menu)
           found == IF heap[e] = None THEN NewEntry(Asks[g].ttl) ELSE heap[e]
       IN  Decide(g, e, Widen(Tighten(found, Asks[g].ttl), Asks[g].want))

\* The fetcher renders its command from the union as it now is.
ReadProplist(g) ==
    /\ pc[g] = "cmd"
    /\ cols' = [cols EXCEPT ![g] = Proplist(heap[ent[g]])]
    /\ pc' = [pc EXCEPT ![g] = "do"]
    /\ UNCHANGED <<heap, since, ent, ans, era, invalAt, resetAt>>

\* c.ros.Do returns, with rows or with an error, and the moment is noted.
Answer(g, failed) ==
    /\ pc[g] = "do"
    /\ ans' = [ans EXCEPT ![g] = [cols |-> cols[g], age |-> 0,
                                  err |-> failed, era |-> era]]
    /\ cols' = [cols EXCEPT ![g] = {}]
    /\ pc' = [pc EXCEPT ![g] = "store"]
    /\ UNCHANGED <<heap, since, ent, era, invalAt, resetAt>>

\* Faulty form: e.inflight is set to nil and never closed.
StoreWithoutClose(g) ==
    /\ pc[g] = "store"
    /\ heap' = [heap EXCEPT ![ent[g]] = [@ EXCEPT !.val = ans[g], !.inflight = None]]
    /\ pc' = [pc EXCEPT ![g] = "fetched"]
    /\ UNCHANGED <<since, ent, cols, ans, era, invalAt, resetAt>>

\* The result is stored and the channel closed, which releases every waiter
\* into another claim.
Store(g) ==
    /\ pc[g] = "store"
    /\ heap' = [heap EXCEPT ![ent[g]] = [@ EXCEPT !.val = ans[g], !.inflight = None]]
    /\ pc' = [h \in Callers |->
                IF h = g THEN "fetched"
                ELSE IF pc[h] = "wait" /\ ent[h] = ent[g] THEN "claim"
                ELSE pc[h]]
    /\ UNCHANGED <<since, ent, cols, ans, era, invalAt, resetAt>>

\* Get returns, and its frame with it.
Return(g) ==
    /\ Answered(g)
    /\ pc' = [pc EXCEPT ![g] = "idle"]
    /\ since' = [since EXCEPT ![g] = [inval |-> 0, reset |-> 0]]
    /\ ent' = [ent EXCEPT ![g] = None]
    /\ ans' = [ans EXCEPT ![g] = NoVal]
    /\ UNCHANGED <<heap, cols, era, invalAt, resetAt>>

-----------------------------------------------------------------------------
(* The write path, the reconnect, and time *)

Invalidate(m) ==
    /\ era < MaxEra
    /\ era' = era + 1
    /\ invalAt' = [invalAt EXCEPT ![m] = era + 1]
    /\ heap' = IF heap[Live(m)] = None THEN heap
               ELSE [heap EXCEPT ![Live(m)].val = NoVal]
    /\ UNCHANGED <<pc, since, ent, cols, ans, resetAt>>

\* Faulty form: Reset empties the entries it finds instead of the map, so a
\* fetch in flight still lands in an entry the next Get reads.
ResetInPlace ==
    /\ era < MaxEra
    /\ era' = era + 1
    /\ resetAt' = era + 1
    /\ heap' = [e \in EntryIds |->
                  IF e[2] # era + 1 \/ heap[Live(e[1])] = None THEN None
                  ELSE [heap[Live(e[1])] EXCEPT !.val = NoVal]]
    /\ ent' = [g \in Callers |->
                 IF ent[g] = None THEN None ELSE <<ent[g][1], era + 1>>]
    /\ UNCHANGED <<pc, since, cols, ans, invalAt>>

Reset ==
    /\ era < MaxEra
    /\ era' = era + 1
    /\ resetAt' = era + 1
    /\ UNCHANGED <<heap, pc, since, ent, cols, ans, invalAt>>

Older(v) == IF v = NoVal \/ v.age = MaxAge THEN v ELSE [v EXCEPT !.age = @ + 1]

\* Time passes for every value held, and for a result not yet stored.
Tick ==
    /\ heap' = [e \in EntryIds |-> IF heap[e] = None THEN None
                              ELSE [heap[e] EXCEPT !.val = Older(@)]]
    /\ ans' = [g \in Callers |-> IF pc[g] = "store" THEN Older(ans[g]) ELSE ans[g]]
    /\ UNCHANGED <<pc, since, ent, cols, era, invalAt, resetAt>>

Step(g) == \/ Claim(g)
           \/ ReadProplist(g)
           \/ \E failed \in BOOLEAN : Answer(g, failed)
           \/ Store(g)
           \/ Return(g)

Next ==
    \/ \E g \in Callers : Begin(g) \/ Step(g)
    \/ \E m \in Menus : Invalidate(m)
    \/ Reset
    \/ Tick

Spec == Init /\ [][Next]_vars

-----------------------------------------------------------------------------
(* Properties *)

Fetching(g) == pc[g] \in {"cmd", "do", "store"}

(***************************************************************************)
(* The in-flight channel of an entry belongs to exactly one fetch: whoever  *)
(* is between claim and close is the caller that made it, so there is never *)
(* a second read of one entry, and close(e.inflight) never meets a nil or   *)
(* an already closed channel (either is a panic).                           *)
(***************************************************************************)
SingleFlight ==
    \A e \in EntryIds :
        {g \in Callers : Fetching(g) /\ ent[g] = e} =
            IF heap[e] = None \/ heap[e].inflight = None THEN {}
            ELSE {heap[e].inflight}

(***************************************************************************)
(* A caller blocked on <-wait always has a fetch behind it that will close  *)
(* that channel, also after Reset has orphaned the entry.                   *)
(***************************************************************************)
NoStrandedWaiter ==
    \A g \in Callers : pc[g] = "wait" =>
        \E h \in Callers : Fetching(h) /\ ent[h] = ent[g]

(***************************************************************************)
(* Get's promise on `ttl`: a caller is never answered with rows older than  *)
(* it tolerates, whoever fetched them and whatever ttl the entry began      *)
(* with, and a failure is not remembered past errTTL.                       *)
(***************************************************************************)
AnswerWithinTtl ==
    \A g \in Callers : pc[g] = "hit" =>
        /\ Asks[g].ttl > 0 => ans[g].age < Asks[g].ttl
        /\ ans[g].err => ans[g].age < ErrTTL

(***************************************************************************)
(* Reset's promise: a Get begun after a reconnect is never answered with    *)
(* rows the router gave before it, even when a fetch from the old           *)
(* connection lands afterwards.                                             *)
(***************************************************************************)
ResetForgets ==
    \A g \in Callers : Answered(g) => ans[g].era >= since[g].reset

(***************************************************************************)
(* What Get's comment on `<-wait` says: a caller whose fields the running   *)
(* fetch did not ask for re-fetches.  So a successful answer always carries *)
(* the columns its caller asked for.                                        *)
(***************************************************************************)
AnswerCarriesWantedColumns ==
    \A g \in Callers : Answered(g) /\ ~ans[g].err =>
        Wanted(Asks[g].want) \subseteq ans[g].cols

(***************************************************************************)
(* What Invalidate's comment says: "drops a menu's cached value, so the     *)
(* next Get refetches".  A Get begun after an Invalidate is never answered  *)
(* with rows the router gave before it.                                     *)
(***************************************************************************)
NextGetRefetches ==
    \A g \in Callers : Answered(g) => ans[g].era >= since[g].inval

=============================================================================
