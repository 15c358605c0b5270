------------------------------- MODULE CredProf ------------------------------
(***************************************************************************)
(* Credential profiles: an account that MikroDash keeps on many routers.    *)
(* internal/server/credprof_job.go (the reconciler), credprof_api.go (what  *)
(* operators do), internal/credprof (one router's Apply and Remove) and the *)
(* tables of internal/db/credprof.go and credprof_sites.go.                 *)
(*                                                                         *)
(* One profile.  A link row per router says what the router owes; operators *)
(* write the rows while the reconciler works from copies of them.  A sweep  *)
(* turns site links into router links, reads what is due, and gives every   *)
(* router to a worker; it ends when they all have.  Only MikroDash changes  *)
(* the routers' accounts, any command to a router may fail, and one whose   *)
(* reply is lost may have run.  Whether a backoff has run out is a choice.  *)
(*                                                                         *)
(* A step is one statement on the database or one worker's session with its *)
(* router, whose write queue keeps everybody else out.                      *)
(***************************************************************************)
EXTENDS Integers, FiniteSets

CONSTANTS
    Routers,
    Names,      \* RouterOS usernames
    Name0,      \* the one the profile is created with
    Theirs,     \* <<router, name>>: accounts MikroDash did not make
    Savers,     \* people saving the profile
    MaxSaves,   \* bound on saves, the first included
    MaxActs     \* bound on everything else people do, and on restarts

ASSUME NamesAssumption == Name0 \in Names /\ Theirs \subseteq Routers \X Names
ASSUME BoundsAssumption == MaxSaves \in Nat \ {0} /\ MaxActs \in Nat

VARIABLES
    prof,       \* the profile's row; what it last was once it is gone
    rows,       \* per router its link row
    site,       \* whether the profile is linked to the site
    members,    \* the site's routers
    acct,       \* per router and name: the secret of an account of ours, 0, or Foreign
    sweep,      \* where the reconciler is
    plan,       \* what the expansion of the sites still has to write
    work,       \* per router its worker
    saving,     \* per saver: the step, and the revision it found
    saves, acts,
    asked,      \* history: removals that were accepted and that nothing has taken back
    forgotten,  \* history: routers whose row was dropped by Forget
    misread,    \* history: routers whose row was dropped since the profile could not be read
    old,        \* history: usernames the profile no longer has
    clash       \* history: whether a save made a revision the profile had had before

tables == <<prof, rows, site>>
people == <<saves, acts>>
history == <<asked, forgotten, misread, old, clash>>
vars == <<prof, rows, site, members, acct, sweep, plan, work, saving, saves, acts,
          asked, forgotten, misread, old, clash>>

Foreign == -1
Row(state, rev, via) == [state |-> state, rev |-> rev, via |-> via]
NoRow == Row("none", 0, "none")
Task(at, was, spec, out) == [at |-> at, was |-> was, spec |-> spec, out |-> out]
Idle == Task("none", "none", <<>>, "none")
NotSaving == [at |-> "none", rev |-> 0]

Linked(r) == rows[r].state # "none"
Removal(state) == state \in {"removing", "orphaned"}
Terminal(state) == state \in {"refused", "conflict"}

Init ==
    /\ prof = [exists |-> TRUE, user |-> Name0, secret |-> 1, rev |-> 1, dying |-> FALSE]
    /\ rows = [r \in Routers |-> NoRow]
    /\ site \in BOOLEAN /\ members \in SUBSET Routers
    /\ acct = [r \in Routers |-> [u \in Names |-> IF <<r, u>> \in Theirs THEN Foreign ELSE 0]]
    /\ sweep = "idle" /\ plan = [r \in Routers |-> "none"]
    /\ work = [r \in Routers |-> Idle]
    /\ saving = [w \in Savers |-> NotSaving]
    /\ saves = 1 /\ acts = 0
    /\ asked = {} /\ forgotten = {} /\ misread = {} /\ old = {} /\ clash = FALSE

-----------------------------------------------------------------------------
(* Statements on the link table *)

\* LinkCredProfile leaves a row that is there alone.
Insert(r, via) ==
    IF prof.exists /\ ~ Linked(r)
    THEN /\ rows' = [rows EXCEPT ![r] = Row("pending", 0, via)]
         /\ asked' = asked \ {r} /\ misread' = misread \ {r}
    ELSE UNCHANGED <<rows, asked, misread>>

\* MarkCredLink: a revision of 0 leaves the applied one, and a row that is not
\* there stays away.
Marked(r, state, rev) ==
    [rows EXCEPT ![r] = IF Linked(r) THEN Row(state, IF rev > 0 THEN rev ELSE @.rev, @.via) ELSE @]

-----------------------------------------------------------------------------
(* The reconciler *)

\* credExpandSites: what the site wants, against the links as they are read.
Planned(r) ==
    CASE prof.exists /\ site /\ r \in members /\ ~ Linked(r) -> "link"
      [] prof.exists /\ ~ (site /\ r \in members) /\ rows[r].via = "site" -> "take"
      [] OTHER -> "none"
ExpandSites ==
    /\ sweep = "idle" /\ sweep' = "expand"
    /\ plan' = [r \in Routers |-> Planned(r)]
    /\ UNCHANGED <<tables, members, acct, work, saving, people, history>>

ExpandOne(r) ==
    /\ sweep = "expand" /\ plan[r] # "none"
    /\ plan' = [plan EXCEPT ![r] = "none"]
    /\ \/ plan[r] = "link" /\ Insert(r, "site")
       \/ plan[r] = "take" /\ rows' = Marked(r, "removing", 0) /\ UNCHANGED <<asked, misread>>
    /\ UNCHANGED <<prof, site, members, acct, sweep, work, saving, people, forgotten,
                   old, clash>>

\* Faulty form: a router that did not answer is left to its revision.
DueUnlessOff(r) ==
    /\ Linked(r) /\ ~ Terminal(rows[r].state)
    /\ rows[r].rev < prof.rev \/ rows[r].state \notin {"applied", "unreachable"}

\* CredLinksDue.
Due(r) ==
    /\ Linked(r) /\ ~ Terminal(rows[r].state)
    /\ rows[r].rev < prof.rev \/ rows[r].state # "applied"

\* Faulty form: a sweep that finds nothing due is over.
TakeDueOrNothing ==
    /\ sweep = "expand" /\ \A r \in Routers : plan[r] = "none"
    /\ \E S \in SUBSET {r \in Routers : Due(r)} :
        /\ sweep' = IF S = {} THEN "idle" ELSE "work"
        /\ work' = [r \in Routers |->
            IF r \in S THEN Task("begin", rows[r].state, <<>>, "none") ELSE Idle]
    /\ UNCHANGED <<tables, members, acct, plan, saving, people, history>>

\* Every link that is due, and whose backoff has run out, gets a worker.
TakeDue ==
    /\ sweep = "expand" /\ \A r \in Routers : plan[r] = "none"
    /\ sweep' = "work"
    /\ \E S \in SUBSET {r \in Routers : Due(r)} :
        work' = [r \in Routers |->
            IF r \in S THEN Task("begin", rows[r].state, <<>>, "none") ELSE Idle]
    /\ UNCHANGED <<tables, members, acct, plan, saving, people, history>>

\* FinishPendingDeletes, once every worker is done.
FinishDeletes ==
    /\ sweep = "work" /\ \A r \in Routers : work[r] = Idle
    /\ sweep' = "idle"
    /\ IF prof.dying /\ \A r \in Routers : ~ Linked(r)
       THEN prof' = [prof EXCEPT !.exists = FALSE, !.dying = FALSE] /\ site' = FALSE
       ELSE UNCHANGED <<prof, site>>
    /\ UNCHANGED <<rows, members, acct, plan, work, saving, people, history>>

-----------------------------------------------------------------------------
(* A worker: credApplyOne *)

Outcome(r, state) ==
    work' = [work EXCEPT ![r] = Task("record", @.was,
                    IF state = "applied" /\ ~ Removal(@.was) THEN @.spec ELSE <<>>, state)]

\* The profile is read and its password opened.  A row whose profile is gone is
\* dropped, and so is one whose profile could not be read for another reason.
Begin(r) ==
    /\ work[r].at = "begin"
    /\ \/ /\ rows' = [rows EXCEPT ![r] = NoRow]
          /\ work' = [work EXCEPT ![r] = Idle]
          /\ misread' = IF prof.exists /\ Linked(r) THEN misread \cup {r} ELSE misread
       \/ /\ prof.exists /\ UNCHANGED <<rows, misread>>
          /\ \/ work' = [work EXCEPT ![r] = Task("act", @.was, <<prof.user, prof.secret, prof.rev>>, "none")]
             \/ Outcome(r, "refused")
    /\ UNCHANGED <<prof, site, members, acct, sweep, plan, saving, people, asked, forgotten,
                   old, clash>>

User(r) == work[r].spec[1]
OnRouter(r) == acct[r][User(r)]
Writes(r, x) == acct' = [acct EXCEPT ![r][User(r)] = x]

\* credprof.Apply.  Nothing is written before everything that can refuse has
\* answered, a stranger's account of that name among it.
Apply(r) ==
    /\ work[r].at = "act" /\ ~ Removal(work[r].was)
    /\ \/ /\ OnRouter(r) # Foreign /\ Writes(r, work[r].spec[2])
          /\ \E out \in {"applied", "unknown", "unreachable"} : Outcome(r, out)
       \/ /\ OnRouter(r) # Foreign /\ UNCHANGED acct
          /\ \E out \in {"unreachable", "refused", "conflict", "failed"} : Outcome(r, out)
       \/ /\ OnRouter(r) = Foreign /\ UNCHANGED acct
          /\ \E out \in {"unreachable", "refused", "conflict"} : Outcome(r, out)
    /\ UNCHANGED <<tables, members, sweep, plan, saving, people, history>>

\* credprof.Remove.  An account that is gone is as good as removed.
Remove(r) ==
    /\ work[r].at = "act" /\ Removal(work[r].was)
    /\ \/ OnRouter(r) = 0 /\ Outcome(r, "applied") /\ UNCHANGED acct
       \/ /\ OnRouter(r) > 0 /\ Writes(r, 0)
          /\ \E out \in {"applied", "unknown", "orphaned"} : Outcome(r, out)
       \/ (\E out \in {"unreachable", "orphaned"} : Outcome(r, out)) /\ UNCHANGED acct
    /\ UNCHANGED <<tables, members, sweep, plan, saving, people, history>>

\* Faulty form: a removal that failed becomes an application to be tried.
RecordedAsIs(was, out) == out

\* credRecord: a failed removal stays a removal.
Recorded(was, out) == IF Removal(was) /\ out # "applied" THEN "orphaned" ELSE out

\* Faulty form: the revision recorded is the one the profile has by now.
RevisionNow(r) == prof.rev
Revision(r) == work[r].spec[3]

\* The outcome is recorded, whatever the row has become meanwhile; only a
\* removal the router has confirmed drops it.
Record(r) ==
    /\ work[r].at = "record"
    /\ work' = [work EXCEPT ![r] = Idle]
    /\ LET was == work[r].was
           out == work[r].out
       IN  rows' = CASE out = "applied" /\ Removal(was) -> [rows EXCEPT ![r] = NoRow]
                     [] out = "applied" /\ ~ Removal(was) -> Marked(r, "applied", Revision(r))
                     [] OTHER -> Marked(r, Recorded(was, out), 0)
    /\ UNCHANGED <<prof, site, members, acct, sweep, plan, saving, people, history>>

-----------------------------------------------------------------------------
(* What people do *)

Acts == acts < MaxActs /\ acts' = acts + 1
OnlyActs == UNCHANGED <<acct, sweep, plan, work, saving, saves, old, clash>>

LinkAdd(r) ==
    /\ Acts /\ prof.exists /\ Insert(r, "direct")
    /\ UNCHANGED <<prof, site, members, forgotten>> /\ OnlyActs

\* An application of the link is under way, from a copy of the row.
Applying(r) == work[r].at # "none" /\ ~ Removal(work[r].was)

LinkRemove(r) ==
    /\ Acts /\ prof.exists /\ Linked(r)
    /\ rows' = Marked(r, "removing", 0)
    /\ asked' = IF Applying(r) THEN asked ELSE asked \cup {r}
    /\ UNCHANGED <<prof, site, members, forgotten, misread>> /\ OnlyActs

LinkRetry(r) ==
    /\ Acts /\ prof.exists /\ Linked(r)
    /\ rows' = Marked(r, "pending", 0)
    /\ asked' = asked \ {r}
    /\ UNCHANGED <<prof, site, members, forgotten, misread>> /\ OnlyActs

\* Faulty form: the profile goes at once, and its links with it.
DeleteAtOnce ==
    /\ Acts /\ prof.exists
    /\ prof' = [prof EXCEPT !.exists = FALSE] /\ site' = FALSE
    /\ rows' = [r \in Routers |-> NoRow]
    /\ UNCHANGED <<members, asked, forgotten, misread>> /\ OnlyActs

\* credProfileDelete: a profile with links is marked, and every link becomes a
\* removal, the terminal ones too.
Delete ==
    /\ Acts /\ prof.exists /\ site' = FALSE
    /\ LET on == {r \in Routers : Linked(r)} IN
        IF on = {}
        THEN prof' = [prof EXCEPT !.exists = FALSE, !.dying = FALSE] /\ UNCHANGED <<rows, asked>>
        ELSE /\ prof' = [prof EXCEPT !.dying = TRUE]
             /\ rows' = [r \in Routers |-> IF r \in on THEN [rows[r] EXCEPT !.state = "removing"] ELSE rows[r]]
             /\ asked' = asked \cup {r \in on : ~ Applying(r)}
    /\ UNCHANGED <<members, forgotten, misread>> /\ OnlyActs

Forget ==
    /\ Acts /\ prof.exists
    /\ prof' = [prof EXCEPT !.exists = FALSE, !.dying = FALSE] /\ site' = FALSE
    /\ rows' = [r \in Routers |-> NoRow]
    /\ forgotten' = forgotten \cup {r \in Routers : Linked(r)}
    /\ UNCHANGED <<members, asked, misread>> /\ OnlyActs

SiteLink ==
    /\ Acts /\ prof.exists /\ site' = ~ site
    /\ UNCHANGED <<prof, rows, members, asked, forgotten, misread>> /\ OnlyActs

SiteEdit(r) ==
    /\ Acts /\ members' = IF r \in members THEN members \ {r} ELSE members \cup {r}
    /\ UNCHANGED <<tables, asked, forgotten, misread>> /\ OnlyActs

\* credProfileSave reads the profile; UpsertCredProfile reads it again, decides
\* the revision by what is stored then, and writes; then the links are queued.
SaveRead(w) ==
    /\ saving[w] = NotSaving /\ prof.exists /\ saves < MaxSaves
    /\ saving' = [saving EXCEPT ![w] = [at |-> "decide", rev |-> 0]]
    /\ UNCHANGED <<tables, members, acct, sweep, plan, work, people, history>>

\* A profile that is gone by now is begun again at revision 1.
SaveDecide(w) ==
    /\ saving[w].at = "decide"
    /\ saving' = [saving EXCEPT ![w] = [at |-> "write", rev |-> IF prof.exists THEN prof.rev ELSE 0]]
    /\ UNCHANGED <<tables, members, acct, sweep, plan, work, people, history>>

SaveWrite(w, u) ==
    /\ saving[w].at = "write" /\ saves < MaxSaves /\ saves' = saves + 1
    /\ saving' = [saving EXCEPT ![w].at = "enqueue"]
    /\ prof' = [exists |-> TRUE, user |-> u, secret |-> saves + 1, rev |-> saving[w].rev + 1,
                dying |-> prof.dying]
    /\ old' = old \cup ({prof.user} \ {u})
    /\ clash' = (clash \/ saving[w].rev < prof.rev)
    /\ UNCHANGED <<rows, site, members, acct, sweep, plan, work, acts, asked,
                   forgotten, misread>>

\* EnqueueCredLinks leaves only the terminal links alone.
SaveEnqueue(w) ==
    /\ saving[w].at = "enqueue" /\ saving' = [saving EXCEPT ![w] = NotSaving]
    /\ rows' = [r \in Routers |->
            IF Linked(r) /\ ~ Terminal(rows[r].state) /\ prof.exists
            THEN [rows[r] EXCEPT !.state = "pending"] ELSE rows[r]]
    /\ asked' = {}
    /\ UNCHANGED <<prof, site, members, acct, sweep, plan, work, people,
                   forgotten, misread, old, clash>>

\* MikroDash is restarted, and only the tables are left of what it knew.
Restart ==
    /\ Acts
    /\ sweep' = "idle" /\ plan' = [r \in Routers |-> "none"]
    /\ work' = [r \in Routers |-> Idle] /\ saving' = [w \in Savers |-> NotSaving]
    /\ UNCHANGED <<tables, members, acct, saves, history>>

Worker(r) == Begin(r) \/ Apply(r) \/ Remove(r) \/ Record(r)
Sweep == ExpandSites \/ TakeDue \/ FinishDeletes \/ \E r \in Routers : ExpandOne(r)

Next ==
    \/ Sweep \/ \E r \in Routers : Worker(r)
    \/ \E r \in Routers : LinkAdd(r) \/ LinkRemove(r) \/ LinkRetry(r) \/ SiteEdit(r)
    \/ Delete \/ Forget \/ SiteLink
    \/ \E w \in Savers : SaveRead(w) \/ SaveDecide(w) \/ SaveEnqueue(w) \/ \E u \in Names : SaveWrite(w, u)
    \/ Restart

Spec == Init /\ [][Next]_vars

\* The reconciler sweeps and its workers run; every link that stays due gets a
\* worker in the end, and one that is tried often enough finds its router on.
GetsWorker(r) == TakeDue /\ work'[r].at = "begin"
Succeeds(r) == (Apply(r) \/ Remove(r)) /\ work'[r].out = "applied"
Opens(r) == Begin(r) /\ work'[r].at = "act"
FairSpec ==
    /\ Spec /\ WF_vars(Sweep)
    /\ \A r \in Routers :
        WF_vars(Worker(r)) /\ SF_vars(GetsWorker(r)) /\ SF_vars(Opens(r)) /\ SF_vars(Succeeds(r))

-----------------------------------------------------------------------------
(* Properties *)

\* No account is forgotten: "a row is MikroDash's record that an account is out
\* there".  MikroDash has a row for every router that has an account of its
\* making.  The exceptions are a row given up by Forget, an account under a
\* username the profile no longer has, and a row that a worker dropped because it
\* could not read the profile, until the router is linked again.
AccountIsKnown ==
    \A r \in Routers, u \in Names :
        acct[r][u] > 0 => Linked(r) \/ r \in forgotten \/ r \in misread \/ u \in old

\* A row that says the router is up to date is right about it, whatever was
\* saved while the worker was at it, unless a save has made a revision that the
\* profile had had before: two saves at once, or one that a Forget overtook.
AppliedIsCurrent ==
    \A r \in Routers :
        prof.exists /\ rows[r].state = "applied" /\ rows[r].rev = prof.rev /\ ~ clash
            => acct[r][prof.user] = prof.secret

\* A removal that was asked for is not given up before it has happened, however
\* often it fails, as long as the link has its row.  The exceptions are one that
\* was asked for while the account was being applied, and one the profile was
\* saved after.
RemovalIsKept == \A r \in asked : Linked(r) => Removal(rows[r].state)

\* A link that owes something is served: however often its router was off, it
\* comes to be up to date or loses its row, or needs a person.  It is not while
\* the router has an account of that name that MikroDash did not make.
Owes(r) ==
    /\ Linked(r) /\ ~ Terminal(rows[r].state)
    /\ rows[r].state # "applied" \/ rows[r].rev < prof.rev
LinkIsServed ==
    \A r \in Routers : Owes(r) ~> ~ Owes(r) \/ acct[r][prof.user] = Foreign

\* A profile that is to go does go, once every link of it has lost its row,
\* unless one was put back after that.  The other exception is a link that is in
\* conflict with an account MikroDash did not make.
DeleteFinishes ==
    prof.dying ~>
        ~ prof.dying \/ \E r \in Routers :
                            Linked(r) /\ (r \notin asked \/ acct[r][prof.user] = Foreign)

\* Not kept by the code.  A removal that was confirmed "is the only path that
\* deletes one; every failure keeps it": a worker drops its row only with the
\* router's confirmation.  One that cannot read the profile drops it too.
FailureKeepsTheRow ==
    [][\A r \in Routers :
        Linked(r) /\ ~ Linked(r)' /\ prof'.exists => work[r].out = "applied"]_vars
=============================================================================
