---------------------------- MODULE CredProfProofs ----------------------------
(***************************************************************************)
(* For any number of routers, usernames, savers, saves and restarts: no     *)
(* account of MikroDash's making is forgotten, a row that says its router   *)
(* is up to date is right, and a removal that was asked for is kept.        *)
(***************************************************************************)
EXTENDS CredProf, TLAPS

-----------------------------------------------------------------------------
(* The inductive invariant *)

Rev == Nat \ {0}
LinkState == {"none", "pending", "applied", "unknown", "unreachable", "refused", "conflict", "failed",
              "removing", "orphaned"}
LinkRow == [state : LinkState, rev : Nat, via : {"none", "direct", "site"}]
Profile == [exists : BOOLEAN, user : Names, secret : Rev, rev : Rev, dying : BOOLEAN]
Spec3 == Names \X Rev \X Rev
Tasks == [at : {"none", "begin", "act", "record"}, was : LinkState, spec : Spec3 \cup {<<>>}, out : LinkState]

\* Every variable is in range.
TypeOK ==
    /\ prof \in Profile /\ rows \in [Routers -> LinkRow] /\ site \in BOOLEAN /\ members \subseteq Routers
    /\ acct \in [Routers -> [Names -> Int]]
    /\ sweep \in {"idle", "expand", "work"} /\ plan \in [Routers -> {"none", "link", "take"}]
    /\ work \in [Routers -> Tasks] /\ saving \in [Savers -> [at : {"none", "decide", "write", "enqueue"}, rev : Nat]]
    /\ saves \in Rev /\ acts \in Nat
    /\ asked \subseteq Routers /\ forgotten \subseteq Routers /\ misread \subseteq Routers /\ old \subseteq Names /\ clash \in BOOLEAN

AtWork(r) == work[r].at # "none"
HasSpec(r) == work[r].spec # <<>>

\* What a worker carries: it has read the profile when it acts, and keeps that
\* only when there is a revision to record.
TaskFits ==
    \A r \in Routers :
        /\ work[r].at = "act" => HasSpec(r)
        /\ work[r].at \in {"none", "begin"} => ~ HasSpec(r)
        /\ work[r].at = "record" /\ work[r].out = "applied" /\ ~ Removal(work[r].was) => HasSpec(r)
        /\ work[r].at = "record" => work[r].out # "none"

\* A row that somebody works on is there, unless it was given up.
RowIsThere ==
    /\ ~ prof.exists => \A r \in Routers : ~ Linked(r)
    /\ \A r \in Routers : AtWork(r) => Linked(r) \/ r \in forgotten

\* An account goes by the name the profile has, or by one it has had; and by the
\* one the worker read, or by one the profile has lost.
NameIsKnown ==
    /\ \A r \in Routers : \A u \in Names : acct[r][u] > 0 => u = prof.user \/ u \in old
    /\ \A r \in Routers : HasSpec(r) => User(r) = prof.user \/ User(r) \in old
    /\ \A r \in Routers : \A u \in Names : HasSpec(r) /\ acct[r][u] > 0 => u = User(r) \/ u \in old

\* A removal the router has confirmed has left nothing.
RemovedIsGone ==
    \A r \in Routers : work[r].at = "record" /\ work[r].out = "applied" /\ Removal(work[r].was) =>
        \A u \in Names : acct[r][u] > 0 => u \in old

\* As long as every revision is one save's: nobody is ahead of the profile, and
\* who has its revision has its name and its secret.
RevisionIsOne ==
    ~ clash =>
        /\ \A r \in Routers : rows[r].rev <= prof.rev
        /\ \A r \in Routers : HasSpec(r) =>
              /\ rows[r].rev <= Revision(r) /\ Revision(r) <= prof.rev
              /\ Revision(r) = prof.rev => User(r) = prof.user /\ work[r].spec[2] = prof.secret

\* A row in removal does not become up to date under its worker's hands, and
\* one that has been applied has the worker's secret.
WorkIsTrue ==
    \A r \in Routers :
        /\ AtWork(r) /\ Removal(work[r].was) => rows[r].state # "applied"
        /\ work[r].at = "record" /\ work[r].out = "applied" /\ ~ Removal(work[r].was) =>
              acct[r][User(r)] = work[r].spec[2]

\* Nobody applies what is asked to be removed.
NobodyApplies == \A r \in asked : AtWork(r) => Removal(work[r].was)

CredInv ==
    /\ TypeOK /\ TaskFits /\ RowIsThere /\ NameIsKnown /\ RemovedIsGone /\ RevisionIsOne /\ WorkIsTrue
    /\ NobodyApplies /\ AccountIsKnown /\ AppliedIsCurrent /\ RemovalIsKept

-----------------------------------------------------------------------------
(* What the statements do *)

\* Rows and tasks are what they are put together from.
LEMMA Parts ==
    /\ \A s, v, x : Row(s, v, x).state = s /\ Row(s, v, x).rev = v /\ Row(s, v, x).via = x
    /\ \A s \in LinkState : \A v \in Nat : \A x \in {"none", "direct", "site"} : Row(s, v, x) \in LinkRow
    /\ \A a, w, s, o : /\ Task(a, w, s, o).at = a /\ Task(a, w, s, o).was = w
                       /\ Task(a, w, s, o).spec = s /\ Task(a, w, s, o).out = o
    /\ \A a \in {"none", "begin", "act", "record"} : \A w, o \in LinkState : \A s \in Spec3 \cup {<<>>} :
          Task(a, w, s, o) \in Tasks
    /\ NoRow \in LinkRow /\ NoRow.state = "none" /\ NoRow.rev = 0
    /\ Idle \in Tasks /\ Idle.at = "none" /\ Idle.spec = <<>>
<1>1. /\ \A s, v, x : Row(s, v, x).state = s /\ Row(s, v, x).rev = v /\ Row(s, v, x).via = x
      /\ \A s \in LinkState : \A v \in Nat : \A x \in {"none", "direct", "site"} : Row(s, v, x) \in LinkRow
  BY DEF Row, LinkRow
<1>2. /\ \A a, w, s, o : /\ Task(a, w, s, o).at = a /\ Task(a, w, s, o).was = w
                       /\ Task(a, w, s, o).spec = s /\ Task(a, w, s, o).out = o
      /\ \A a \in {"none", "begin", "act", "record"} : \A w, o \in LinkState : \A s \in Spec3 \cup {<<>>} :
            Task(a, w, s, o) \in Tasks
  BY DEF Task, Tasks
<1>3. "none" \in LinkState
  BY DEF LinkState
<1>4. NoRow = Row("none", 0, "none") /\ Idle = Task("none", "none", <<>>, "none")
  BY DEF NoRow, Idle
<1> QED
  BY <1>1, <1>2, <1>3, <1>4

\* MarkCredLink.
LEMMA MarkedEffect ==
    ASSUME TypeOK, NEW r \in Routers, NEW s \in LinkState, NEW v \in Nat, rows' = Marked(r, s, v)
    PROVE  /\ rows' \in [Routers -> LinkRow] /\ \A q \in Routers \ {r} : rows'[q] = rows[q]
           /\ ~ Linked(r) => rows'[r] = rows[r]
           /\ Linked(r) => rows'[r].state = s /\ rows'[r].rev = IF v > 0 THEN v ELSE rows[r].rev
<1> DEFINE x == IF v > 0 THEN v ELSE rows[r].rev
           y == IF Linked(r) THEN Row(s, x, rows[r].via) ELSE rows[r]
<1>1. rows[r] \in LinkRow /\ rows[r].rev \in Nat /\ rows[r].via \in {"none", "direct", "site"}
  BY DEF TypeOK, LinkRow
<1>2. x \in Nat
  BY <1>1
<1>3. y \in LinkRow /\ (~ Linked(r) => y = rows[r]) /\ (Linked(r) => y.state = s /\ y.rev = x)
  BY <1>1, <1>2, Parts
<1>4. rows' = [rows EXCEPT ![r] = y]
  BY DEF Marked
<1> HIDE DEF y
<1> QED
  BY <1>3, <1>4 DEF TypeOK

\* LinkCredProfile.
LEMMA InsertEffect ==
    ASSUME TypeOK, NEW r \in Routers, NEW x \in {"direct", "site"}, Insert(r, x)
    PROVE  /\ rows' \in [Routers -> LinkRow] /\ \A q \in Routers \ {r} : rows'[q] = rows[q]
           /\ \/ prof.exists /\ rows'[r].state = "pending" /\ rows'[r].rev = 0 /\ asked' = asked \ {r}
                 /\ misread' = misread \ {r}
              \/ rows'[r] = rows[r] /\ UNCHANGED <<asked, misread>>
<1>1. Row("pending", 0, x) \in LinkRow /\ Row("pending", 0, x).state = "pending" /\ Row("pending", 0, x).rev = 0
  BY Parts DEF LinkState
<1>2. CASE prof.exists /\ ~ Linked(r)
  <2>1. rows' = [rows EXCEPT ![r] = Row("pending", 0, x)] /\ asked' = asked \ {r} /\ misread' = misread \ {r}
    BY <1>2 DEF Insert
  <2> QED
    BY <1>1, <1>2, <2>1 DEF TypeOK
<1>3. CASE ~ (prof.exists /\ ~ Linked(r))
  <2>1. UNCHANGED <<rows, asked, misread>>
    BY <1>3 DEF Insert
  <2> QED
    BY <2>1 DEF TypeOK
<1> QED
  BY <1>2, <1>3

\* A worker has an outcome to record.
LEMMA OutcomeEffect ==
    ASSUME TypeOK, NEW r \in Routers, NEW o \in LinkState, Outcome(r, o)
    PROVE  /\ work' \in [Routers -> Tasks] /\ \A q \in Routers \ {r} : work'[q] = work[q]
           /\ work'[r].at = "record" /\ work'[r].was = work[r].was /\ work'[r].out = o
           /\ work'[r].spec = IF o = "applied" /\ ~ Removal(work[r].was) THEN work[r].spec ELSE <<>>
<1> DEFINE x == IF o = "applied" /\ ~ Removal(work[r].was) THEN work[r].spec ELSE <<>>
           y == Task("record", work[r].was, x, o)
<1>1. work[r].was \in LinkState /\ work[r].spec \in Spec3 \cup {<<>>}
  BY DEF TypeOK, Tasks
<1>2. x \in Spec3 \cup {<<>>}
  BY <1>1
<1>3. work' = [work EXCEPT ![r] = y]
  BY DEF Outcome
<1> HIDE DEF x
<1>4. y \in Tasks /\ y.at = "record" /\ y.was = work[r].was /\ y.out = o /\ y.spec = x
  BY <1>1, <1>2, Parts
<1> HIDE DEF y
<1> QED
  BY <1>3, <1>4 DEF TypeOK, x

\* The profile's row, where nothing is saved.
LEMMA ProfileEffect ==
    ASSUME TypeOK, \/ prof' = [prof EXCEPT !.exists = FALSE, !.dying = FALSE]
                   \/ prof' = [prof EXCEPT !.dying = TRUE]
                   \/ prof' = prof
    PROVE  /\ prof' \in Profile /\ prof'.user = prof.user /\ prof'.secret = prof.secret /\ prof'.rev = prof.rev
           /\ prof'.exists => prof.exists
<1>1. CASE prof' = [prof EXCEPT !.exists = FALSE, !.dying = FALSE]
  BY <1>1 DEF TypeOK, Profile
<1>2. CASE prof' = [prof EXCEPT !.dying = TRUE]
  BY <1>2 DEF TypeOK, Profile
<1>3. CASE prof' = prof
  BY <1>3 DEF TypeOK
<1> QED
  BY <1>1, <1>2, <1>3

-----------------------------------------------------------------------------
(* Steps that change the rows, and steps that change the workers *)

\* What a worker has read has its type.
LEMMA SpecType ==
    ASSUME TypeOK, NEW r \in Routers, HasSpec(r)
    PROVE  User(r) \in Names /\ work[r].spec[2] \in Rev /\ Revision(r) \in Rev
<1>1. work[r].spec \in Names \X Rev \X Rev
  BY DEF TypeOK, Tasks, Spec3, HasSpec
<1> QED
  BY <1>1 DEF User, Revision

\* People and the expansion of the sites write rows, and nothing that a worker
\* has read or written.
LEMMA RowsStep ==
    ASSUME CredInv, TypeOK', UNCHANGED <<work, acct, old, clash>>,
           prof'.user = prof.user, prof'.secret = prof.secret, prof'.rev = prof.rev, prof'.exists => prof.exists,
           forgotten \subseteq forgotten', ~ prof'.exists => \A r \in Routers : ~ Linked(r)',
           \A r \in Routers :
              /\ rows'[r].rev \in {0, rows[r].rev} /\ (rows'[r].state = "applied" => rows'[r] = rows[r])
              /\ Linked(r) => Linked(r)' \/ r \in forgotten'
              /\ r \in misread => Linked(r)' \/ r \in misread',
           \A r \in asked' : (Linked(r)' => Removal(rows'[r].state)) /\ (AtWork(r) => Removal(work[r].was))
    PROVE  CredInv'
<1>1. /\ TypeOK /\ TaskFits /\ RowIsThere /\ NameIsKnown /\ RemovedIsGone /\ RevisionIsOne /\ WorkIsTrue
      /\ NobodyApplies /\ AccountIsKnown /\ AppliedIsCurrent /\ RemovalIsKept
  BY DEF CredInv
<1>2. TaskFits'
  BY <1>1 DEF TaskFits, HasSpec
<1>3. RowIsThere'
  BY <1>1 DEF RowIsThere, AtWork
<1>4. NameIsKnown'
  BY <1>1 DEF NameIsKnown, HasSpec, User
<1>5. RemovedIsGone'
  BY <1>1 DEF RemovedIsGone
<1>6. RevisionIsOne'
  <2> SUFFICES ASSUME ~ clash
               PROVE  /\ \A r \in Routers : rows'[r].rev <= prof.rev
                      /\ \A r \in Routers : HasSpec(r) =>
                           /\ rows'[r].rev <= Revision(r) /\ Revision(r) <= prof.rev
                           /\ Revision(r) = prof.rev => User(r) = prof.user /\ work[r].spec[2] = prof.secret
    BY DEF RevisionIsOne, HasSpec, Revision, User
  <2>1. prof.rev \in Rev
    BY <1>1 DEF TypeOK, Profile
  <2>2. ASSUME NEW r \in Routers PROVE rows'[r].rev <= prof.rev
    BY <1>1, <2>1 DEF RevisionIsOne, Rev
  <2>3. ASSUME NEW r \in Routers, HasSpec(r)
        PROVE  /\ rows'[r].rev <= Revision(r) /\ Revision(r) <= prof.rev
               /\ Revision(r) = prof.rev => User(r) = prof.user /\ work[r].spec[2] = prof.secret
    <3>1. Revision(r) \in Rev
      BY <1>1, <2>3, SpecType
    <3> QED
      BY <1>1, <2>3, <3>1 DEF RevisionIsOne, Rev
  <2> QED
    BY <2>2, <2>3
<1>7. WorkIsTrue'
  BY <1>1 DEF WorkIsTrue, AtWork, User
<1>8. NobodyApplies'
  BY DEF NobodyApplies, AtWork
<1>9. AccountIsKnown'
  BY <1>1 DEF AccountIsKnown
<1>10. AppliedIsCurrent'
  BY <1>1 DEF AppliedIsCurrent
<1>11. RemovalIsKept'
  BY <1>1 DEF RemovalIsKept
<1> QED
  BY <1>2, <1>3, <1>4, <1>5, <1>6, <1>7, <1>8, <1>9, <1>10, <1>11 DEF CredInv

\* New workers have rows, and have read nothing yet.
LEMMA WorkersStep ==
    ASSUME CredInv, TypeOK', UNCHANGED <<prof, rows, acct, asked, forgotten, misread, old, clash>>,
           \A r \in Routers :
              /\ work'[r].spec = <<>>
              /\ \/ work'[r].at = "none"
                 \/ work'[r].at = "begin" /\ work'[r].was = rows[r].state /\ Linked(r)
                    /\ (Removal(rows[r].state) => rows[r].state # "applied")
    PROVE  CredInv'
<1>1. /\ TypeOK /\ RowIsThere /\ NameIsKnown /\ RevisionIsOne
      /\ AccountIsKnown /\ AppliedIsCurrent /\ RemovalIsKept /\ asked \subseteq Routers
  BY DEF CredInv, TypeOK
<1>2. \A r \in Routers : ~ HasSpec(r)' /\ work'[r].at \in {"none", "begin"}
  BY DEF HasSpec
<1>3. TaskFits'
  BY <1>2 DEF TaskFits
<1>4. RowIsThere'
  BY <1>1 DEF RowIsThere, AtWork, Linked
<1>5. NameIsKnown'
  BY <1>1, <1>2 DEF NameIsKnown
<1>6. RemovedIsGone'
  BY <1>2 DEF RemovedIsGone
<1>7. RevisionIsOne'
  BY <1>1, <1>2 DEF RevisionIsOne
<1>8. WorkIsTrue'
  BY <1>2 DEF WorkIsTrue, AtWork
<1>9. NobodyApplies'
  BY <1>1 DEF NobodyApplies, AtWork, RemovalIsKept
<1>10. AccountIsKnown' /\ AppliedIsCurrent'
  BY <1>1 DEF AccountIsKnown, AppliedIsCurrent, Linked
<1>11. RemovalIsKept'
  BY <1>1 DEF RemovalIsKept, Linked
<1> QED
  BY <1>3, <1>4, <1>5, <1>6, <1>7, <1>8, <1>9, <1>10, <1>11 DEF CredInv

\* The expansion of the sites, and what people do to links and to the profile.
LEMMA PeopleKeep ==
    ASSUME CredInv
    PROVE  /\ \A r \in Routers : ExpandOne(r) \/ LinkAdd(r) \/ LinkRemove(r) \/ LinkRetry(r) \/ SiteEdit(r) => CredInv'
           /\ Delete \/ Forget \/ SiteLink \/ ExpandSites \/ FinishDeletes => CredInv'
           /\ \A w \in Savers : SaveRead(w) \/ SaveDecide(w) \/ SaveEnqueue(w) => CredInv'
           /\ UNCHANGED vars => CredInv'
<1>1. /\ TypeOK /\ RowIsThere /\ NobodyApplies /\ RemovalIsKept /\ asked \subseteq Routers /\ acts \in Nat
      /\ prof \in Profile /\ rows \in [Routers -> LinkRow] /\ prof.exists \in BOOLEAN
  BY DEF CredInv, TypeOK, Profile
<1>2. {"pending", "removing"} \subseteq LinkState /\ Removal("removing") /\ 0 \in Nat /\ ~ (0 > 0)
  BY DEF LinkState, Removal
<1>3. ASSUME NEW r \in Routers, ExpandOne(r) PROVE CredInv'
  <2>1. /\ UNCHANGED <<prof, site, members, acct, sweep, work, saving, saves, acts, forgotten, old, clash>>
        /\ plan' = [plan EXCEPT ![r] = "none"]
        /\ Insert(r, "site") \/ (rows' = Marked(r, "removing", 0) /\ UNCHANGED <<asked, misread>>)
    BY <1>3 DEF ExpandOne, people
  <2>2. CASE Insert(r, "site")
    <3>1. /\ rows' \in [Routers -> LinkRow] /\ \A q \in Routers \ {r} : rows'[q] = rows[q]
          /\ \/ prof.exists /\ rows'[r].state = "pending" /\ rows'[r].rev = 0 /\ asked' = asked \ {r}
                /\ misread' = misread \ {r}
             \/ rows'[r] = rows[r] /\ UNCHANGED <<asked, misread>>
      BY <1>1, <2>2, InsertEffect
    <3>2. TypeOK'
      BY <1>1, <2>1, <3>1 DEF TypeOK
    <3> QED
      BY <1>1, <2>1, <3>1, <3>2, RowsStep DEF Linked, RowIsThere, NobodyApplies, RemovalIsKept
  <2>3. CASE rows' = Marked(r, "removing", 0) /\ UNCHANGED <<asked, misread>>
    <3>1. /\ rows' \in [Routers -> LinkRow] /\ \A q \in Routers \ {r} : rows'[q] = rows[q]
          /\ ~ Linked(r) => rows'[r] = rows[r]
          /\ Linked(r) => rows'[r].state = "removing" /\ rows'[r].rev = rows[r].rev
      BY <1>1, <1>2, <2>3, MarkedEffect
    <3>2. TypeOK'
      BY <1>1, <2>1, <2>3, <3>1 DEF TypeOK
    <3> QED
      BY <1>1, <1>2, <2>1, <2>3, <3>1, <3>2, RowsStep DEF Linked, RowIsThere, NobodyApplies, RemovalIsKept
  <2> QED
    BY <2>1, <2>2, <2>3
<1>4. ASSUME NEW r \in Routers, LinkAdd(r) PROVE CredInv'
  <2>1. /\ UNCHANGED <<prof, site, members, acct, sweep, plan, work, saving, saves, forgotten, old, clash>>
        /\ acts' = acts + 1 /\ Insert(r, "direct")
    BY <1>4 DEF LinkAdd, Acts, OnlyActs
  <2>2. /\ rows' \in [Routers -> LinkRow] /\ \A q \in Routers \ {r} : rows'[q] = rows[q]
        /\ \/ prof.exists /\ rows'[r].state = "pending" /\ rows'[r].rev = 0 /\ asked' = asked \ {r}
              /\ misread' = misread \ {r}
           \/ rows'[r] = rows[r] /\ UNCHANGED <<asked, misread>>
    BY <1>1, <2>1, InsertEffect
  <2>3. TypeOK'
    BY <1>1, <2>1, <2>2 DEF TypeOK
  <2> QED
    BY <1>1, <2>1, <2>2, <2>3, RowsStep DEF Linked, RowIsThere, NobodyApplies, RemovalIsKept
<1>5. ASSUME NEW r \in Routers, LinkRemove(r) PROVE CredInv'
  <2>1. /\ UNCHANGED <<prof, site, members, acct, sweep, plan, work, saving, saves, forgotten, misread, old, clash>>
        /\ acts' = acts + 1 /\ rows' = Marked(r, "removing", 0) /\ prof.exists /\ Linked(r)
        /\ asked' = IF Applying(r) THEN asked ELSE asked \cup {r}
    BY <1>5 DEF LinkRemove, Acts, OnlyActs
  <2>2. /\ rows' \in [Routers -> LinkRow] /\ \A q \in Routers \ {r} : rows'[q] = rows[q]
        /\ rows'[r].state = "removing" /\ rows'[r].rev = rows[r].rev
    BY <1>1, <1>2, <2>1, MarkedEffect
  <2>3. TypeOK'
    BY <1>1, <2>1, <2>2 DEF TypeOK
  <2>4. \A q \in asked' : (q = r /\ ~ Applying(r)) \/ q \in asked
    BY <2>1
  <2>5. \A q \in asked' : AtWork(q) => Removal(work[q].was)
    BY <1>1, <2>4 DEF NobodyApplies, Applying, AtWork
  <2>6. \A q \in asked' : Linked(q)' => Removal(rows'[q].state)
    BY <1>1, <1>2, <2>2, <2>4 DEF RemovalIsKept, Linked
  <2>7. \A q \in Routers : /\ rows'[q].rev \in {0, rows[q].rev} /\ (rows'[q].state = "applied" => rows'[q] = rows[q])
                           /\ Linked(q) => Linked(q)'
    BY <2>2 DEF Linked
  <2> QED
    BY <2>1, <2>3, <2>5, <2>6, <2>7, RowsStep
<1>6. ASSUME NEW r \in Routers, LinkRetry(r) PROVE CredInv'
  <2>1. /\ UNCHANGED <<prof, site, members, acct, sweep, plan, work, saving, saves, forgotten, misread, old, clash>>
        /\ acts' = acts + 1 /\ rows' = Marked(r, "pending", 0) /\ prof.exists /\ Linked(r) /\ asked' = asked \ {r}
    BY <1>6 DEF LinkRetry, Acts, OnlyActs
  <2>2. /\ rows' \in [Routers -> LinkRow] /\ \A q \in Routers \ {r} : rows'[q] = rows[q]
        /\ rows'[r].state = "pending" /\ rows'[r].rev = rows[r].rev
    BY <1>1, <1>2, <2>1, MarkedEffect
  <2>3. TypeOK'
    BY <1>1, <2>1, <2>2 DEF TypeOK
  <2>4. \A q \in asked' : q \in asked /\ q # r
    BY <2>1
  <2>5. \A q \in Routers : /\ rows'[q].rev \in {0, rows[q].rev} /\ (rows'[q].state = "applied" => rows'[q] = rows[q])
                           /\ Linked(q) => Linked(q)'
    BY <2>2 DEF Linked
  <2>6. \A q \in asked' : (Linked(q)' => Removal(rows'[q].state)) /\ (AtWork(q) => Removal(work[q].was))
    BY <1>1, <2>2, <2>4 DEF RemovalIsKept, NobodyApplies, Linked
  <2> QED
    BY <2>1, <2>3, <2>5, <2>6, RowsStep
<1>7. ASSUME UNCHANGED <<rows, acct, work, asked, forgotten, misread, old, clash>>, TypeOK',
             prof'.user = prof.user, prof'.secret = prof.secret, prof'.rev = prof.rev, prof'.exists => prof.exists,
             ~ prof'.exists => \A r \in Routers : ~ Linked(r)
      PROVE  CredInv'
  BY <1>1, <1>7, RowsStep DEF Linked, NobodyApplies, RemovalIsKept
<1>8. ASSUME NEW r \in Routers, SiteEdit(r) PROVE CredInv'
  <2>1. UNCHANGED <<prof, rows, site, acct, sweep, plan, work, saving, saves, asked, forgotten, misread, old, clash>>
    BY <1>8 DEF SiteEdit, OnlyActs, tables
  <2>2. acts' = acts + 1 /\ members' \subseteq Routers
    BY <1>1, <1>8 DEF SiteEdit, Acts, TypeOK
  <2>3. TypeOK'
    BY <1>1, <2>1, <2>2 DEF TypeOK
  <2> QED
    BY <1>1, <1>7, <2>1, <2>3 DEF RowIsThere
<1>9. ASSUME SiteLink PROVE CredInv'
  <2>1. /\ UNCHANGED <<prof, rows, members, acct, sweep, plan, work, saving, saves, asked, forgotten, misread, old, clash>>
        /\ acts' = acts + 1 /\ site' \in BOOLEAN
    BY <1>9 DEF SiteLink, OnlyActs, Acts
  <2>2. TypeOK'
    BY <1>1, <2>1 DEF TypeOK
  <2> QED
    BY <1>1, <1>7, <2>1, <2>2 DEF RowIsThere
<1>10. ASSUME ExpandSites PROVE CredInv'
  <2>1. /\ UNCHANGED <<prof, rows, site, members, acct, work, saving, saves, acts, asked, forgotten, misread, old, clash>>
        /\ sweep' = "expand" /\ plan' = [r \in Routers |-> Planned(r)]
    BY <1>10 DEF ExpandSites, tables, people, history
  <2>2. plan' \in [Routers -> {"none", "link", "take"}]
    BY <2>1 DEF Planned
  <2>3. TypeOK'
    BY <1>1, <2>1, <2>2 DEF TypeOK
  <2> QED
    BY <1>1, <1>7, <2>1, <2>3 DEF RowIsThere
<1>11. ASSUME FinishDeletes PROVE CredInv'
  <2>1. /\ UNCHANGED <<rows, members, acct, plan, work, saving, saves, acts, asked, forgotten, misread, old, clash>>
        /\ sweep' = "idle" /\ site' \in {site, FALSE}
        /\ \/ prof' = [prof EXCEPT !.exists = FALSE, !.dying = FALSE] /\ \A r \in Routers : ~ Linked(r)
           \/ prof' = prof
    BY <1>11 DEF FinishDeletes, people, history
  <2>2. /\ prof' \in Profile /\ prof'.user = prof.user /\ prof'.secret = prof.secret /\ prof'.rev = prof.rev
        /\ prof'.exists => prof.exists
    BY <1>1, <2>1, ProfileEffect
  <2>3. TypeOK'
    BY <1>1, <2>1, <2>2 DEF TypeOK
  <2>4. ~ prof'.exists => \A r \in Routers : ~ Linked(r)
    BY <1>1, <2>1 DEF RowIsThere
  <2> QED
    BY <1>7, <2>1, <2>2, <2>3, <2>4
<1>12. ASSUME NEW w \in Savers, SaveRead(w) \/ SaveDecide(w) PROVE CredInv'
  <2>1. UNCHANGED <<prof, rows, site, members, acct, sweep, plan, work, saves, acts, asked, forgotten, misread, old, clash>>
    BY <1>12 DEF SaveRead, SaveDecide, tables, people, history
  <2>2. prof.rev \in Nat
    BY <1>1 DEF Profile, Rev
  <2>3. PICK a \in {"decide", "write"} : \E v \in {0, prof.rev} : saving' = [saving EXCEPT ![w] = [at |-> a, rev |-> v]]
    BY <1>12 DEF SaveRead, SaveDecide
  <2>4. saving' \in [Savers -> [at : {"none", "decide", "write", "enqueue"}, rev : Nat]]
    BY <1>1, <2>2, <2>3 DEF TypeOK
  <2>5. TypeOK'
    BY <1>1, <2>1, <2>4 DEF TypeOK
  <2> QED
    BY <1>1, <1>7, <2>1, <2>5 DEF RowIsThere
<1>13. ASSUME NEW w \in Savers, SaveEnqueue(w) PROVE CredInv'
  <2>1. /\ UNCHANGED <<prof, site, members, acct, sweep, plan, work, saves, acts, forgotten, misread, old, clash>>
        /\ saving' = [saving EXCEPT ![w] = NotSaving] /\ asked' = {}
        /\ rows' = [r \in Routers |->
            IF Linked(r) /\ ~ Terminal(rows[r].state) /\ prof.exists
            THEN [rows[r] EXCEPT !.state = "pending"] ELSE rows[r]]
    BY <1>13 DEF SaveEnqueue, people
  <2>2. ASSUME NEW x \in LinkRow
        PROVE  /\ [x EXCEPT !.state = "pending"] \in LinkRow
               /\ [x EXCEPT !.state = "pending"].state = "pending" /\ [x EXCEPT !.state = "pending"].rev = x.rev
    BY <1>2 DEF LinkRow
  <2>3. \A r \in Routers : /\ rows'[r] \in LinkRow
                           /\ \/ rows'[r].state = "pending" /\ rows'[r].rev = rows[r].rev /\ Linked(r)
                              \/ rows'[r] = rows[r]
    BY <1>1, <2>1, <2>2
  <2>4. saving' \in [Savers -> [at : {"none", "decide", "write", "enqueue"}, rev : Nat]]
    BY <1>1, <2>1 DEF TypeOK, NotSaving
  <2>5. TypeOK'
    BY <1>1, <2>1, <2>3, <2>4 DEF TypeOK
  <2>6. \A q \in Routers : /\ rows'[q].rev \in {0, rows[q].rev} /\ (rows'[q].state = "applied" => rows'[q] = rows[q])
                           /\ Linked(q) <=> Linked(q)'
    BY <2>3 DEF Linked
  <2> QED
    BY <1>1, <2>1, <2>5, <2>6, RowsStep DEF RowIsThere
<1>14. ASSUME Forget PROVE CredInv'
  <2>1. /\ UNCHANGED <<members, acct, sweep, plan, work, saving, saves, asked, misread, old, clash>>
        /\ acts' = acts + 1 /\ site' = FALSE
        /\ prof' = [prof EXCEPT !.exists = FALSE, !.dying = FALSE] /\ rows' = [r \in Routers |-> NoRow]
        /\ forgotten' = forgotten \cup {r \in Routers : Linked(r)}
    BY <1>14 DEF Forget, OnlyActs, Acts
  <2>2. /\ prof' \in Profile /\ prof'.user = prof.user /\ prof'.secret = prof.secret /\ prof'.rev = prof.rev
        /\ prof'.exists => prof.exists
    BY <1>1, <2>1, ProfileEffect
  <2>3. \A r \in Routers : rows'[r] = NoRow /\ NoRow \in LinkRow /\ NoRow.state = "none" /\ NoRow.rev = 0
    BY <2>1, Parts
  <2>4. rows' \in [Routers -> LinkRow]
    BY <2>1, Parts
  <2>8. /\ UNCHANGED <<members, acct, sweep, plan, work, saving, saves, asked, misread, old, clash>>
        /\ acts' \in Nat
    BY <1>1, <2>1
  <2>9. site' \in BOOLEAN
    BY <2>1, Zenon
  <2>10. forgotten' \subseteq Routers
    BY <1>1, <2>1 DEF TypeOK
  <2>5. TypeOK'
    BY <1>1, <2>2, <2>4, <2>8, <2>9, <2>10 DEF TypeOK
  <2>6. \A r \in Routers : /\ rows'[r].rev \in {0, rows[r].rev} /\ rows'[r].state # "applied" /\ ~ Linked(r)'
                           /\ Linked(r) => r \in forgotten'
    BY <2>1, <2>3 DEF Linked
  <2>7. \A r \in asked' : ~ Linked(r)' /\ (AtWork(r) => Removal(work[r].was))
    BY <1>1, <2>1, <2>6 DEF NobodyApplies
  <2> QED
    BY <1>1, <2>1, <2>2, <2>5, <2>6, <2>7, RowsStep
<1>15. ASSUME Delete PROVE CredInv'
  <2>1. /\ UNCHANGED <<members, acct, sweep, plan, work, saving, saves, forgotten, misread, old, clash>>
        /\ acts' = acts + 1 /\ site' = FALSE /\ prof.exists
    BY <1>15 DEF Delete, OnlyActs, Acts
  <2>4. acts' \in Nat
    BY <1>1, <2>1
  <2>5. site' \in BOOLEAN
    BY <2>1, Zenon
  <2>2. CASE {r \in Routers : Linked(r)} = {}
    <3>1. prof' = [prof EXCEPT !.exists = FALSE, !.dying = FALSE] /\ UNCHANGED <<rows, asked>>
      BY <1>15, <2>2 DEF Delete
    <3>2. /\ prof' \in Profile /\ prof'.user = prof.user /\ prof'.secret = prof.secret /\ prof'.rev = prof.rev
          /\ prof'.exists => prof.exists
      BY <1>1, <3>1, ProfileEffect
    <3>3. TypeOK'
      BY <1>1, <2>1, <2>4, <2>5, <3>1, <3>2 DEF TypeOK
    <3> QED
      BY <1>7, <2>1, <2>2, <3>1, <3>2, <3>3
  <2>3. CASE {r \in Routers : Linked(r)} # {}
    <3>1. /\ prof' = [prof EXCEPT !.dying = TRUE]
          /\ rows' = [r \in Routers |-> IF r \in {q \in Routers : Linked(q)}
                                        THEN [rows[r] EXCEPT !.state = "removing"] ELSE rows[r]]
          /\ asked' = asked \cup {r \in {q \in Routers : Linked(q)} : ~ Applying(r)}
      BY <1>15, <2>3 DEF Delete
    <3>2. /\ prof' \in Profile /\ prof'.user = prof.user /\ prof'.secret = prof.secret /\ prof'.rev = prof.rev
          /\ prof'.exists
      BY <1>1, <2>1, <3>1 DEF Profile
    <3>3. ASSUME NEW x \in LinkRow
          PROVE  /\ [x EXCEPT !.state = "removing"] \in LinkRow
                 /\ [x EXCEPT !.state = "removing"].state = "removing" /\ [x EXCEPT !.state = "removing"].rev = x.rev
      BY <1>2 DEF LinkRow
    <3>4. \A r \in Routers : /\ rows'[r] \in LinkRow
                             /\ Linked(r) => rows'[r].state = "removing" /\ rows'[r].rev = rows[r].rev
                             /\ ~ Linked(r) => rows'[r] = rows[r]
      BY <1>1, <3>1, <3>3
    <3>9. rows' \in [Routers -> LinkRow]
      BY <3>1, <3>4
    <3>10. asked' \subseteq Routers
      BY <1>1, <3>1
    <3>5. TypeOK'
      BY <1>1, <2>1, <2>4, <2>5, <3>2, <3>9, <3>10 DEF TypeOK
    <3>6. \A q \in Routers : /\ rows'[q].rev \in {0, rows[q].rev} /\ (rows'[q].state = "applied" => rows'[q] = rows[q])
                             /\ Linked(q) => Linked(q)'
      BY <3>4 DEF Linked
    <3>7. \A q \in Routers : Linked(q)' => Removal(rows'[q].state)
      BY <1>2, <3>4 DEF Linked
    <3>8. \A q \in asked' : q \in Routers /\ (AtWork(q) => Removal(work[q].was))
      BY <1>1, <3>1 DEF NobodyApplies, Applying, AtWork
    <3> QED
      BY <2>1, <3>2, <3>5, <3>6, <3>7, <3>8, RowsStep
  <2> QED
    BY <2>2, <2>3
<1>16. ASSUME UNCHANGED vars PROVE CredInv'
  <2>1. TypeOK'
    BY <1>1, <1>16 DEF vars, TypeOK
  <2> QED
    BY <1>1, <1>7, <1>16, <2>1 DEF vars, RowIsThere
<1> QED
  BY <1>3, <1>4, <1>5, <1>6, <1>8, <1>9, <1>10, <1>11, <1>12, <1>13, <1>14, <1>15, <1>16

-----------------------------------------------------------------------------
(* The invariant, router by router *)

Confirmed(r) == work[r].at = "record" /\ work[r].out = "applied"

TaskHere(r) ==
    /\ work[r].at = "act" => HasSpec(r)
    /\ work[r].at \in {"none", "begin"} => ~ HasSpec(r)
    /\ Confirmed(r) /\ ~ Removal(work[r].was) => HasSpec(r) /\ acct[r][User(r)] = work[r].spec[2]
    /\ work[r].at = "record" => work[r].out # "none"
    /\ AtWork(r) => Linked(r) \/ r \in forgotten
    /\ AtWork(r) /\ Removal(work[r].was) => rows[r].state # "applied"

RowHere(r) ==
    /\ ~ prof.exists => ~ Linked(r)
    /\ r \in asked => (AtWork(r) => Removal(work[r].was)) /\ (Linked(r) => Removal(rows[r].state))

NameHere(r) ==
    /\ HasSpec(r) => User(r) = prof.user \/ User(r) \in old
    /\ \A u \in Names : acct[r][u] > 0 =>
          /\ u = prof.user \/ u \in old
          /\ HasSpec(r) => u = User(r) \/ u \in old
          /\ Confirmed(r) /\ Removal(work[r].was) => u \in old
          /\ Linked(r) \/ r \in forgotten \/ r \in misread \/ u \in old

RevisionHere(r) ==
    ~ clash =>
        /\ rows[r].rev <= prof.rev
        /\ HasSpec(r) => /\ rows[r].rev <= Revision(r) /\ Revision(r) <= prof.rev
                         /\ Revision(r) = prof.rev => User(r) = prof.user /\ work[r].spec[2] = prof.secret
        /\ prof.exists /\ rows[r].state = "applied" /\ rows[r].rev = prof.rev => acct[r][prof.user] = prof.secret

Here(r) == TaskHere(r) /\ RowHere(r) /\ NameHere(r) /\ RevisionHere(r)

LEMMA Everywhere ==
    ASSUME CredInv
    PROVE  \A r \in Routers : Here(r)
<1> SUFFICES ASSUME NEW r \in Routers PROVE Here(r)
  OBVIOUS
<1>1. TaskHere(r)
  BY DEF CredInv, TaskFits, RowIsThere, WorkIsTrue, TaskHere, Confirmed
<1>2. RowHere(r)
  BY DEF CredInv, RowIsThere, NobodyApplies, RemovalIsKept, RowHere
<1>3. NameHere(r)
  BY DEF CredInv, NameIsKnown, RemovedIsGone, AccountIsKnown, NameHere, Confirmed
<1>4. RevisionHere(r)
  BY DEF CredInv, RevisionIsOne, AppliedIsCurrent, RevisionHere
<1> QED
  BY <1>1, <1>2, <1>3, <1>4 DEF Here

LEMMA FromEverywhere ==
    ASSUME TypeOK', \A r \in Routers : Here(r)'
    PROVE  CredInv'
<1>1. asked' \subseteq Routers
  BY DEF TypeOK
<1>2. TaskFits' /\ WorkIsTrue'
  BY DEF Here, TaskHere, TaskFits, WorkIsTrue, Confirmed
<1>3. RowIsThere'
  BY DEF Here, TaskHere, RowHere, RowIsThere
<1>4. NobodyApplies' /\ RemovalIsKept'
  BY <1>1 DEF Here, RowHere, NobodyApplies, RemovalIsKept
<1>5. NameIsKnown' /\ RemovedIsGone' /\ AccountIsKnown'
  BY DEF Here, NameHere, NameIsKnown, RemovedIsGone, AccountIsKnown, Confirmed
<1>6. RevisionIsOne' /\ AppliedIsCurrent'
  BY DEF Here, RevisionHere, RevisionIsOne, AppliedIsCurrent
<1> QED
  BY <1>2, <1>3, <1>4, <1>5, <1>6 DEF CredInv

\* A worker's step is about its own router.
LEMMA OneRouter ==
    ASSUME CredInv, TypeOK', UNCHANGED <<prof, asked, forgotten, old, clash>>, NEW r \in Routers, Here(r)',
           misread \subseteq misread',
           \A q \in Routers \ {r} : work'[q] = work[q] /\ rows'[q] = rows[q] /\ acct'[q] = acct[q]
    PROVE  CredInv'
<1>1. ASSUME NEW q \in Routers, q # r PROVE Here(q)'
  <2>1. Here(q) /\ work'[q] = work[q] /\ rows'[q] = rows[q] /\ acct'[q] = acct[q]
    BY <1>1, Everywhere
  <2> QED
    BY <2>1 DEF Here, TaskHere, RowHere, NameHere, RevisionHere, Confirmed, HasSpec, User, Revision, AtWork, Linked
<1> QED
  BY <1>1, FromEverywhere

-----------------------------------------------------------------------------
(* The workers *)

\* What credprof.Apply and credprof.Remove write.
LEMMA WritesEffect ==
    ASSUME TypeOK, NEW r \in Routers, User(r) \in Names, NEW x \in Int, Writes(r, x)
    PROVE  /\ acct' \in [Routers -> [Names -> Int]] /\ \A q \in Routers \ {r} : acct'[q] = acct[q]
           /\ \A u \in Names : acct'[r][u] = IF u = User(r) THEN x ELSE acct[r][u]
BY DEF TypeOK, Writes

\* A worker reads the profile, or drops the row as it cannot.
LEMMA BeginKeeps ==
    ASSUME CredInv, NEW r \in Routers, Begin(r)
    PROVE  CredInv'
<1>1. TypeOK /\ Here(r) /\ work[r].at = "begin" /\ work[r] \in Tasks /\ work[r].was \in LinkState
  BY Everywhere DEF CredInv, Begin, TypeOK, Tasks
<1>2. UNCHANGED <<prof, site, members, acct, sweep, plan, saving, saves, acts, asked, forgotten, old, clash>>
  BY DEF Begin, people, history
<1>3. CASE /\ rows' = [rows EXCEPT ![r] = NoRow] /\ work' = [work EXCEPT ![r] = Idle]
           /\ misread' = IF prof.exists /\ Linked(r) THEN misread \cup {r} ELSE misread
  <2>2. /\ rows' \in [Routers -> LinkRow] /\ work' \in [Routers -> Tasks]
        /\ \A q \in Routers \ {r} : work'[q] = work[q] /\ rows'[q] = rows[q]
        /\ rows'[r].state = "none" /\ rows'[r].rev = 0 /\ work'[r].at = "none" /\ work'[r].spec = <<>>
    BY <1>1, <1>3, Parts DEF TypeOK
  <2>1. misread \subseteq misread' /\ misread' \subseteq Routers
    BY <1>1, <1>3 DEF TypeOK
  <2>3. TypeOK'
    BY <1>1, <1>2, <2>1, <2>2 DEF TypeOK
  <2>4. ~ Linked(r)' /\ ~ HasSpec(r)' /\ ~ AtWork(r)' /\ ~ Confirmed(r)'
    BY <2>2 DEF Linked, HasSpec, AtWork, Confirmed
  <2>9. Linked(r) => r \in misread'
    BY <1>1, <1>3 DEF Here, RowHere
  <2>5. prof.rev \in Rev
    BY <1>1 DEF TypeOK, Profile
  <2>6. TaskHere(r)' /\ RowHere(r)'
    BY <2>2, <2>4 DEF TaskHere, RowHere
  <2>7. NameHere(r)'
    BY <1>1, <1>2, <2>1, <2>4, <2>9 DEF Here, NameHere
  <2>8. RevisionHere(r)'
    BY <1>2, <2>2, <2>4, <2>5 DEF RevisionHere, Rev
  <2> QED
    BY <1>2, <2>1, <2>2, <2>3, <2>6, <2>7, <2>8, OneRouter DEF Here
<1>4. CASE prof.exists /\ Outcome(r, "refused") /\ UNCHANGED <<rows, misread>>
  <2>1. "refused" \in LinkState
    BY DEF LinkState
  <2>2. /\ work' \in [Routers -> Tasks] /\ \A q \in Routers \ {r} : work'[q] = work[q]
        /\ work'[r].at = "record" /\ work'[r].was = work[r].was /\ work'[r].out = "refused" /\ work'[r].spec = <<>>
    BY <1>1, <1>4, <2>1, OutcomeEffect
  <2>3. UNCHANGED <<rows, misread>>
    BY <1>4
  <2>4. TypeOK'
    BY <1>1, <1>2, <2>2, <2>3 DEF TypeOK
  <2>5. ~ HasSpec(r)' /\ ~ Confirmed(r)' /\ AtWork(r)' /\ AtWork(r) /\ (Linked(r)' <=> Linked(r))
    BY <1>1, <2>2, <2>3 DEF HasSpec, Confirmed, AtWork, Linked
  <2>6. TaskHere(r)' /\ RowHere(r)'
    BY <1>1, <1>2, <2>2, <2>3, <2>5 DEF Here, TaskHere, RowHere
  <2>7. NameHere(r)' /\ RevisionHere(r)'
    BY <1>1, <1>2, <2>3, <2>5 DEF Here, NameHere, RevisionHere
  <2> QED
    BY <1>2, <2>2, <2>3, <2>4, <2>6, <2>7, OneRouter DEF Here
<1>5. CASE prof.exists /\ work' = [work EXCEPT ![r] = Task("act", @.was, <<prof.user, prof.secret, prof.rev>>, "none")]
           /\ UNCHANGED <<rows, misread>>
  <2> DEFINE s == <<prof.user, prof.secret, prof.rev>>
  <2>1. /\ prof.user \in Names /\ prof.secret \in Rev /\ prof.rev \in Rev
        /\ s \in Spec3 /\ s # <<>> /\ s[1] = prof.user /\ s[2] = prof.secret /\ s[3] = prof.rev
    BY <1>1 DEF TypeOK, Profile, Spec3
  <2>2. work' = [work EXCEPT ![r] = Task("act", work[r].was, s, "none")]
    BY <1>5
  <2> HIDE DEF s
  <2>3. /\ Task("act", work[r].was, s, "none") \in Tasks /\ Task("act", work[r].was, s, "none").at = "act"
        /\ Task("act", work[r].was, s, "none").was = work[r].was /\ Task("act", work[r].was, s, "none").spec = s
    <3>1. "none" \in LinkState /\ "act" \in {"none", "begin", "act", "record"} /\ s \in Spec3 \cup {<<>>}
      BY <2>1 DEF LinkState
    <3> QED
      BY <1>1, <3>1, Parts
  <2>4. /\ work' \in [Routers -> Tasks] /\ \A q \in Routers \ {r} : work'[q] = work[q]
        /\ work'[r].at = "act" /\ work'[r].was = work[r].was /\ work'[r].spec = s
    BY <1>1, <2>2, <2>3 DEF TypeOK
  <2>5. UNCHANGED <<rows, misread>>
    BY <1>5
  <2>6. TypeOK'
    BY <1>1, <1>2, <2>4, <2>5 DEF TypeOK
  <2>7. /\ HasSpec(r)' /\ User(r)' = prof.user /\ Revision(r)' = prof.rev /\ work'[r].spec[2] = prof.secret
        /\ ~ Confirmed(r)' /\ AtWork(r)' /\ AtWork(r) /\ (Linked(r)' <=> Linked(r))
    BY <1>1, <2>1, <2>4, <2>5 DEF HasSpec, Confirmed, AtWork, Linked, User, Revision
  <2>8. TaskHere(r)' /\ RowHere(r)'
    BY <1>1, <1>2, <2>4, <2>5, <2>7 DEF Here, TaskHere, RowHere
  <2>9. NameHere(r)'
    BY <1>1, <1>2, <2>5, <2>7 DEF Here, NameHere
  <2>10. RevisionHere(r)'
    BY <1>1, <1>2, <2>1, <2>5, <2>7 DEF Here, RevisionHere, Rev
  <2> QED
    BY <1>2, <2>4, <2>5, <2>6, <2>8, <2>9, <2>10, OneRouter DEF Here
<1> QED
  BY <1>3, <1>4, <1>5 DEF Begin

\* An account that is written is the worker's, and the router has the worker's
\* secret when it says so.
LEMMA ApplyKeeps ==
    ASSUME CredInv, NEW r \in Routers, Apply(r)
    PROVE  CredInv'
<1>1. /\ TypeOK /\ Here(r) /\ work[r].at = "act" /\ ~ Removal(work[r].was) /\ AtWork(r)
      /\ UNCHANGED <<prof, rows, site, members, sweep, plan, saving, saves, acts, asked, forgotten, misread, old, clash>>
  BY Everywhere DEF CredInv, Apply, tables, people, history, AtWork
<1>2. HasSpec(r)
  BY <1>1 DEF Here, TaskHere
<1>3. User(r) \in Names /\ work[r].spec[2] \in Rev /\ Revision(r) \in Rev
  BY <1>1, <1>2, SpecType
<1>4. PICK o \in {"applied", "unknown", "unreachable", "refused", "conflict", "failed"} :
        /\ Outcome(r, o)
        /\ Writes(r, work[r].spec[2]) \/ (UNCHANGED acct /\ o # "applied")
  BY DEF Apply
<1>5. o \in LinkState /\ work[r].spec[2] \in Int
  BY <1>3 DEF LinkState, Rev
<1>6. /\ work' \in [Routers -> Tasks] /\ \A q \in Routers \ {r} : work'[q] = work[q]
      /\ work'[r].at = "record" /\ work'[r].was = work[r].was /\ work'[r].out = o
      /\ work'[r].spec = IF o = "applied" THEN work[r].spec ELSE <<>>
  BY <1>1, <1>4, <1>5, OutcomeEffect
<1>7. /\ acct' \in [Routers -> [Names -> Int]] /\ \A q \in Routers \ {r} : acct'[q] = acct[q]
      /\ \A u \in Names : acct'[r][u] = acct[r][u] \/ (u = User(r) /\ acct'[r][u] = work[r].spec[2])
      /\ o = "applied" => acct'[r][User(r)] = work[r].spec[2]
  <2>1. CASE Writes(r, work[r].spec[2])
    <3>1. /\ acct' \in [Routers -> [Names -> Int]] /\ \A q \in Routers \ {r} : acct'[q] = acct[q]
          /\ \A u \in Names : acct'[r][u] = IF u = User(r) THEN work[r].spec[2] ELSE acct[r][u]
      BY <1>1, <1>3, <1>5, <2>1, WritesEffect
    <3> QED
      BY <1>3, <3>1
  <2>2. CASE UNCHANGED acct /\ o # "applied"
    BY <1>1, <2>2 DEF TypeOK
  <2> QED
    BY <1>4, <2>1, <2>2
<1>8. TypeOK'
  BY <1>1, <1>6, <1>7 DEF TypeOK
<1>9. /\ HasSpec(r)' => o = "applied" /\ User(r)' = User(r) /\ Revision(r)' = Revision(r)
                        /\ work'[r].spec[2] = work[r].spec[2]
      /\ o = "applied" => HasSpec(r)' /\ User(r)' = User(r)
      /\ AtWork(r)' /\ (Confirmed(r)' <=> o = "applied") /\ (Linked(r)' <=> Linked(r))
  BY <1>1, <1>2, <1>6 DEF HasSpec, User, Revision, AtWork, Confirmed, Linked
<1>10. TaskHere(r)'
  BY <1>1, <1>4, <1>6, <1>7, <1>9 DEF Here, TaskHere
<1>11. RowHere(r)'
  BY <1>1, <1>6, <1>9 DEF Here, RowHere
<1>12. NameHere(r)'
  <2>1. HasSpec(r)' => User(r)' = prof'.user \/ User(r)' \in old'
    BY <1>1, <1>2, <1>9 DEF Here, NameHere
  <2>2. ASSUME NEW u \in Names, acct'[r][u] > 0
        PROVE  /\ u = prof.user \/ u \in old
               /\ u = User(r) \/ u \in old
               /\ Linked(r) \/ r \in forgotten \/ r \in misread \/ u \in old
    <3>1. CASE acct'[r][u] = acct[r][u]
      BY <1>1, <1>2, <2>2, <3>1 DEF Here, NameHere
    <3>2. CASE u = User(r)
      BY <1>1, <1>2, <3>2 DEF Here, NameHere, TaskHere
    <3> QED
      BY <1>7, <3>1, <3>2
  <2> QED
    BY <1>1, <1>6, <1>9, <2>1, <2>2 DEF NameHere
<1>13. RevisionHere(r)'
  <2> SUFFICES ASSUME ~ clash
               PROVE  /\ rows[r].rev <= prof.rev
                      /\ HasSpec(r)' => /\ rows[r].rev <= Revision(r) /\ Revision(r) <= prof.rev
                                        /\ Revision(r) = prof.rev => User(r) = prof.user /\ work[r].spec[2] = prof.secret
                      /\ prof.exists /\ rows[r].state = "applied" /\ rows[r].rev = prof.rev
                            => acct'[r][prof.user] = prof.secret
    BY <1>1, <1>9 DEF RevisionHere
  <2>1. /\ rows[r].rev <= prof.rev /\ rows[r].rev <= Revision(r) /\ Revision(r) <= prof.rev
        /\ Revision(r) = prof.rev => User(r) = prof.user /\ work[r].spec[2] = prof.secret
        /\ prof.exists /\ rows[r].state = "applied" /\ rows[r].rev = prof.rev => acct[r][prof.user] = prof.secret
    BY <1>1, <1>2 DEF Here, RevisionHere
  <2>2. prof.rev \in Nat /\ rows[r].rev \in Nat /\ prof.user \in Names
    BY <1>1 DEF TypeOK, Profile, LinkRow, Rev
  <2>3. rows[r].rev = prof.rev => Revision(r) = prof.rev
    BY <1>3, <2>1, <2>2 DEF Rev
  <2> QED
    BY <1>7, <2>1, <2>2, <2>3
<1> QED
  BY <1>1, <1>6, <1>7, <1>8, <1>10, <1>11, <1>12, <1>13, OneRouter DEF Here

\* What the router confirms to have removed was all there was under a name that
\* the profile still has.
LEMMA RemoveKeeps ==
    ASSUME CredInv, NEW r \in Routers, Remove(r)
    PROVE  CredInv'
<1>1. /\ TypeOK /\ Here(r) /\ work[r].at = "act" /\ Removal(work[r].was) /\ AtWork(r)
      /\ UNCHANGED <<prof, rows, site, members, sweep, plan, saving, saves, acts, asked, forgotten, misread, old, clash>>
  BY Everywhere DEF CredInv, Remove, tables, people, history, AtWork
<1>2. HasSpec(r)
  BY <1>1 DEF Here, TaskHere
<1>3. User(r) \in Names
  BY <1>1, <1>2, SpecType
<1>4. PICK o \in {"applied", "unknown", "orphaned", "unreachable"} :
        /\ Outcome(r, o)
        /\ Writes(r, 0) \/ (UNCHANGED acct /\ (o = "applied" => OnRouter(r) = 0))
  BY DEF Remove
<1>5. o \in LinkState
  BY DEF LinkState
<1>6. /\ work' \in [Routers -> Tasks] /\ \A q \in Routers \ {r} : work'[q] = work[q]
      /\ work'[r].at = "record" /\ work'[r].was = work[r].was /\ work'[r].out = o /\ work'[r].spec = <<>>
  BY <1>1, <1>4, <1>5, OutcomeEffect
<1>7. /\ acct' \in [Routers -> [Names -> Int]] /\ \A q \in Routers \ {r} : acct'[q] = acct[q]
      /\ \A u \in Names : acct'[r][u] > 0 => acct[r][u] > 0
      /\ o = "applied" => acct'[r][User(r)] = 0
  <2>1. CASE Writes(r, 0)
    <3>1. /\ acct' \in [Routers -> [Names -> Int]] /\ \A q \in Routers \ {r} : acct'[q] = acct[q]
          /\ \A u \in Names : acct'[r][u] = IF u = User(r) THEN 0 ELSE acct[r][u]
      BY <1>1, <1>3, <2>1, WritesEffect
    <3> QED
      BY <1>3, <3>1
  <2>2. CASE UNCHANGED acct /\ (o = "applied" => OnRouter(r) = 0)
    BY <1>1, <1>3, <2>2 DEF TypeOK, OnRouter
  <2> QED
    BY <1>4, <2>1, <2>2
<1>8. TypeOK'
  BY <1>1, <1>6, <1>7 DEF TypeOK
<1>9. ~ HasSpec(r)' /\ AtWork(r)' /\ (Confirmed(r)' <=> o = "applied") /\ (Linked(r)' <=> Linked(r))
  BY <1>1, <1>6 DEF HasSpec, AtWork, Confirmed, Linked
<1>10. TaskHere(r)' /\ RowHere(r)'
  BY <1>1, <1>4, <1>6, <1>9 DEF Here, TaskHere, RowHere
<1>11. NameHere(r)'
  <2>1. ASSUME NEW u \in Names, acct'[r][u] > 0
        PROVE  /\ u = prof.user \/ u \in old
               /\ o = "applied" => u \in old
               /\ Linked(r) \/ r \in forgotten \/ r \in misread \/ u \in old
    <3>1. acct[r][u] > 0 /\ (o = "applied" => u # User(r))
      BY <1>7, <2>1
    <3> QED
      BY <1>1, <1>2, <3>1 DEF Here, NameHere
  <2> QED
    BY <1>1, <1>9, <2>1 DEF NameHere
<1>12. RevisionHere(r)'
  <2>1. rows[r].state # "applied"
    BY <1>1 DEF Here, TaskHere
  <2> QED
    BY <1>1, <1>9, <2>1 DEF Here, RevisionHere
<1> QED
  BY <1>1, <1>6, <1>7, <1>8, <1>10, <1>11, <1>12, OneRouter DEF Here

\* The row gets what the worker found, whatever it has become meanwhile.
LEMMA RecordKeeps ==
    ASSUME CredInv, NEW r \in Routers, Record(r)
    PROVE  CredInv'
<1>1. /\ TypeOK /\ Here(r) /\ work[r].at = "record" /\ AtWork(r) /\ work' = [work EXCEPT ![r] = Idle]
      /\ UNCHANGED <<prof, site, members, acct, sweep, plan, saving, saves, acts, asked, forgotten, misread, old, clash>>
  BY Everywhere DEF CredInv, Record, people, history, AtWork
<1>2. /\ work' \in [Routers -> Tasks] /\ \A q \in Routers \ {r} : work'[q] = work[q]
      /\ work'[r].at = "none" /\ work'[r].spec = <<>>
  BY <1>1, Parts DEF TypeOK
<1>3. ~ HasSpec(r)' /\ ~ AtWork(r)' /\ ~ Confirmed(r)'
  BY <1>2 DEF HasSpec, AtWork, Confirmed
<1>4. /\ work[r].was \in LinkState /\ work[r].out \in LinkState \ {"none"}
      /\ rows[r].rev \in Nat /\ prof.rev \in Nat /\ rows \in [Routers -> LinkRow]
  BY <1>1 DEF TypeOK, Tasks, LinkRow, Profile, Rev, Here, TaskHere
<1>5. TaskHere(r)'
  BY <1>2, <1>3 DEF TaskHere
<1>6. ASSUME rows' \in [Routers -> LinkRow], \A q \in Routers \ {r} : rows'[q] = rows[q],
             RowHere(r)', NameHere(r)', RevisionHere(r)'
      PROVE  CredInv'
  <2>1. TypeOK'
    BY <1>1, <1>2, <1>6 DEF TypeOK
  <2> QED
    BY <1>1, <1>2, <1>5, <1>6, <2>1, OneRouter DEF Here
<1>7. CASE work[r].out = "applied" /\ Removal(work[r].was)
  <2>1. rows' = [rows EXCEPT ![r] = NoRow]
    BY <1>7 DEF Record
  <2>2. /\ rows' \in [Routers -> LinkRow] /\ \A q \in Routers \ {r} : rows'[q] = rows[q]
        /\ rows'[r].state = "none" /\ rows'[r].rev = 0
    BY <1>4, <2>1, Parts
  <2>3. ~ Linked(r)' /\ Confirmed(r)
    BY <1>1, <1>7, <2>2 DEF Linked, Confirmed
  <2>4. RowHere(r)'
    BY <1>3, <2>3 DEF RowHere
  <2>5. NameHere(r)'
    BY <1>1, <1>3, <1>7, <2>3 DEF Here, NameHere
  <2>6. RevisionHere(r)'
    BY <1>1, <1>3, <1>4, <2>2 DEF RevisionHere
  <2> QED
    BY <1>6, <2>2, <2>4, <2>5, <2>6
<1>8. CASE work[r].out = "applied" /\ ~ Removal(work[r].was)
  <2>1. HasSpec(r) /\ acct[r][User(r)] = work[r].spec[2] /\ r \notin asked
    BY <1>1, <1>8 DEF Here, TaskHere, RowHere, Confirmed
  <2>2. Revision(r) \in Nat /\ Revision(r) > 0 /\ "applied" \in LinkState
    BY <1>1, <2>1, SpecType DEF Rev, LinkState
  <2>3. rows' = Marked(r, "applied", Revision(r))
    BY <1>8 DEF Record
  <2>4. /\ rows' \in [Routers -> LinkRow] /\ \A q \in Routers \ {r} : rows'[q] = rows[q]
        /\ ~ Linked(r) => rows'[r] = rows[r]
        /\ Linked(r) => rows'[r].state = "applied" /\ rows'[r].rev = Revision(r)
    BY <1>1, <2>2, <2>3, MarkedEffect
  <2>5. Linked(r)' <=> Linked(r)
    BY <2>4 DEF Linked
  <2>6. RowHere(r)'
    BY <1>1, <1>3, <2>1, <2>5 DEF Here, RowHere
  <2>7. NameHere(r)'
    BY <1>1, <1>3, <2>5 DEF Here, NameHere
  <2>8. RevisionHere(r)'
    BY <1>1, <1>3, <2>1, <2>4 DEF Here, RevisionHere
  <2> QED
    BY <1>6, <2>4, <2>6, <2>7, <2>8
<1>9. CASE work[r].out # "applied"
  <2> DEFINE s == Recorded(work[r].was, work[r].out)
  <2>1. s \in LinkState \ {"none", "applied"} /\ (Removal(work[r].was) => s = "orphaned") /\ Removal("orphaned")
    BY <1>4, <1>9 DEF Recorded, LinkState, Removal
  <2>2. rows' = Marked(r, s, 0)
    BY <1>9 DEF Record
  <2> HIDE DEF s
  <2>3. /\ rows' \in [Routers -> LinkRow] /\ \A q \in Routers \ {r} : rows'[q] = rows[q]
        /\ ~ Linked(r) => rows'[r] = rows[r]
        /\ Linked(r) => rows'[r].state = s /\ rows'[r].rev = rows[r].rev
    <3>1. 0 \in Nat /\ ~ (0 > 0) /\ s \in LinkState
      BY <2>1
    <3> QED
      BY <1>1, <2>2, <3>1, MarkedEffect
  <2>4. (Linked(r)' <=> Linked(r)) /\ rows'[r].rev = rows[r].rev /\ rows'[r].state # "applied"
    BY <2>1, <2>3 DEF Linked
  <2>5. RowHere(r)'
    BY <1>1, <1>3, <2>1, <2>3, <2>4 DEF Here, RowHere
  <2>6. NameHere(r)'
    BY <1>1, <1>3, <2>4 DEF Here, NameHere
  <2>7. RevisionHere(r)'
    BY <1>1, <1>3, <2>4 DEF Here, RevisionHere
  <2> QED
    BY <1>6, <2>3, <2>5, <2>6, <2>7
<1> QED
  BY <1>7, <1>8, <1>9

-----------------------------------------------------------------------------
(* The other steps, and the theorems *)

\* A sweep hands out copies of the rows, and a restart forgets them.
LEMMA SweepKeeps ==
    ASSUME CredInv
    PROVE  (TakeDue => CredInv') /\ (Restart => CredInv')
<1>1. TypeOK /\ acts \in Nat /\ rows \in [Routers -> LinkRow]
  BY DEF CredInv, TypeOK
<1>2. ASSUME TakeDue PROVE CredInv'
  <2>1. /\ UNCHANGED <<prof, rows, site, members, acct, plan, saving, saves, acts, asked, forgotten, misread, old, clash>>
        /\ sweep' = "work"
    BY <1>2 DEF TakeDue, tables, people, history
  <2>2. PICK S \in SUBSET {r \in Routers : Due(r)} :
          work' = [r \in Routers |-> IF r \in S THEN Task("begin", rows[r].state, <<>>, "none") ELSE Idle]
    BY <1>2 DEF TakeDue
  <2>3. ASSUME NEW r \in Routers
        PROVE  LET t == Task("begin", rows[r].state, <<>>, "none")
               IN  t \in Tasks /\ t.at = "begin" /\ t.was = rows[r].state /\ t.spec = <<>>
    <3>1. /\ rows[r].state \in LinkState /\ "none" \in LinkState /\ "begin" \in {"none", "begin", "act", "record"}
          /\ <<>> \in Spec3 \cup {<<>>}
      BY <1>1 DEF LinkRow, LinkState
    <3> QED
      BY <3>1, Parts
  <2>4. \A r \in S : r \in Routers /\ Linked(r)
    BY DEF Due
  <2>5. \A r \in Routers :
          /\ work'[r] \in Tasks /\ work'[r].spec = <<>>
          /\ \/ work'[r].at = "none"
             \/ work'[r].at = "begin" /\ work'[r].was = rows[r].state /\ Linked(r)
    BY <2>2, <2>3, <2>4, Parts
  <2>6. work' \in [Routers -> Tasks]
    BY <2>2, <2>5
  <2>7. TypeOK'
    BY <1>1, <2>1, <2>6 DEF TypeOK
  <2>8. \A r \in Routers : Removal(rows[r].state) => rows[r].state # "applied"
    BY DEF Removal
  <2> QED
    BY <2>1, <2>5, <2>7, <2>8, WorkersStep
<1>3. ASSUME Restart PROVE CredInv'
  <2>1. /\ UNCHANGED <<prof, rows, site, members, acct, saves, asked, forgotten, misread, old, clash>>
        /\ acts' = acts + 1 /\ sweep' = "idle" /\ plan' = [r \in Routers |-> "none"]
        /\ work' = [r \in Routers |-> Idle] /\ saving' = [w \in Savers |-> NotSaving]
    BY <1>3 DEF Restart, Acts, tables, history
  <2>2. /\ acts' \in Nat /\ plan' \in [Routers -> {"none", "link", "take"}]
        /\ saving' \in [Savers -> [at : {"none", "decide", "write", "enqueue"}, rev : Nat]]
    BY <1>1, <2>1 DEF NotSaving
  <2>3. work' \in [Routers -> Tasks] /\ \A r \in Routers : work'[r].at = "none" /\ work'[r].spec = <<>>
    BY <2>1, Parts
  <2>4. TypeOK'
    BY <1>1, <2>1, <2>2, <2>3 DEF TypeOK
  <2> QED
    BY <2>1, <2>3, <2>4, WorkersStep
<1> QED
  BY <1>2, <1>3

\* A save makes a revision that nobody has seen, unless it read an older one.
LEMMA SaveKeeps ==
    ASSUME CredInv, NEW w \in Savers, NEW n \in Names, SaveWrite(w, n)
    PROVE  CredInv'
<1>1. /\ TypeOK /\ prof \in Profile /\ saving[w] \in [at : {"none", "decide", "write", "enqueue"}, rev : Nat]
      /\ saves \in Rev /\ prof.rev \in Nat /\ saving[w].rev \in Nat /\ prof.user \in Names /\ prof.dying \in BOOLEAN
  BY DEF CredInv, TypeOK, Profile, Rev
<1>2. /\ UNCHANGED <<rows, site, members, acct, sweep, plan, work, acts, asked, forgotten, misread>>
      /\ saves' = saves + 1 /\ saving' = [saving EXCEPT ![w].at = "enqueue"]
      /\ prof' = [exists |-> TRUE, user |-> n, secret |-> saves + 1, rev |-> saving[w].rev + 1, dying |-> prof.dying]
      /\ old' = old \cup ({prof.user} \ {n})
      /\ clash' = (clash \/ saving[w].rev < prof.rev)
  BY DEF SaveWrite
<1>3. /\ saves + 1 \in Rev /\ saving[w].rev + 1 \in Rev
  BY <1>1 DEF Rev
<1>4. prof' \in Profile /\ prof'.exists /\ prof'.user = n /\ prof'.rev = saving[w].rev + 1
  BY <1>1, <1>2, <1>3 DEF Profile
<1>5. saving' \in [Savers -> [at : {"none", "decide", "write", "enqueue"}, rev : Nat]]
  BY <1>1, <1>2 DEF TypeOK
<1>6. clash' \in BOOLEAN
  BY <1>2, Zenon
<1>7. old' \subseteq Names
  BY <1>1, <1>2 DEF TypeOK
<1>8. saves' \in Rev
  BY <1>2, <1>3
<1>9. TypeOK'
  BY <1>1, <1>2, <1>4, <1>5, <1>6, <1>7, <1>8 DEF TypeOK
<1>10. ~ clash' => ~ clash /\ ~ (saving[w].rev < prof.rev)
  BY <1>2
<1>11. ~ clash' => ~ clash /\ prof.rev < prof'.rev
  BY <1>1, <1>4, <1>10
<1>12. old \subseteq old' /\ (prof.user = prof'.user \/ prof.user \in old')
  BY <1>2, <1>4
<1>13. ASSUME NEW r \in Routers PROVE Here(r)'
  <2>1. /\ Here(r) /\ UNCHANGED <<rows, acct, work, asked, forgotten, misread>>
        /\ rows[r].rev \in Nat /\ prof'.rev \in Nat
    BY <1>1, <1>2, <1>4, Everywhere DEF TypeOK, LinkRow, Rev
  <2>2. TaskHere(r)' /\ RowHere(r)'
    BY <1>4, <2>1 DEF Here, TaskHere, RowHere, HasSpec, User, Confirmed, AtWork, Linked
  <2>3. NameHere(r)'
    BY <1>12, <2>1 DEF Here, NameHere, HasSpec, User, Confirmed, Linked
  <2>4. RevisionHere(r)'
    <3> SUFFICES ASSUME ~ clash'
                 PROVE  /\ rows[r].rev < prof'.rev
                        /\ HasSpec(r) => rows[r].rev <= Revision(r) /\ Revision(r) < prof'.rev /\ Revision(r) \in Nat
      BY <2>1 DEF RevisionHere, HasSpec, Revision
    <3>1. /\ rows[r].rev <= prof.rev /\ prof.rev < prof'.rev
          /\ HasSpec(r) => rows[r].rev <= Revision(r) /\ Revision(r) <= prof.rev
      BY <1>11, <2>1 DEF Here, RevisionHere
    <3>2. HasSpec(r) => Revision(r) \in Nat
      BY <1>1, SpecType DEF Rev
    <3> QED
      BY <1>1, <2>1, <3>1, <3>2
  <2> QED
    BY <2>2, <2>3, <2>4 DEF Here
<1> QED
  BY <1>9, <1>13, FromEverywhere

LEMMA CredInit == Init => CredInv
<1> SUFFICES ASSUME Init PROVE CredInv
  OBVIOUS
<1>1. /\ prof = [exists |-> TRUE, user |-> Name0, secret |-> 1, rev |-> 1, dying |-> FALSE]
      /\ rows = [r \in Routers |-> NoRow] /\ work = [r \in Routers |-> Idle]
      /\ site \in BOOLEAN /\ members \in SUBSET Routers /\ sweep = "idle" /\ plan = [r \in Routers |-> "none"]
      /\ acct = [r \in Routers |-> [u \in Names |-> IF <<r, u>> \in Theirs THEN Foreign ELSE 0]]
      /\ saving = [w \in Savers |-> NotSaving] /\ saves = 1 /\ acts = 0
      /\ asked = {} /\ forgotten = {} /\ misread = {} /\ old = {} /\ clash = FALSE
  BY DEF Init
<1>2. prof \in Profile /\ prof.rev = 1 /\ prof.exists
  BY <1>1, NamesAssumption DEF Profile, Rev
<1>3. \A r \in Routers : rows[r] \in LinkRow /\ rows[r].state = "none" /\ rows[r].rev = 0
  BY <1>1, Parts
<1>4. \A r \in Routers : work[r] \in Tasks /\ work[r].at = "none" /\ work[r].spec = <<>>
  BY <1>1, Parts
<1>5. acct \in [Routers -> [Names -> Int]] /\ \A r \in Routers, u \in Names : ~ (acct[r][u] > 0)
  BY <1>1 DEF Foreign
<1>6. saving \in [Savers -> [at : {"none", "decide", "write", "enqueue"}, rev : Nat]] /\ saves \in Rev /\ acts \in Nat
  BY <1>1 DEF NotSaving, Rev
<1>7. clash \in BOOLEAN
  BY <1>1, Zenon
<1>8. rows \in [Routers -> LinkRow] /\ work \in [Routers -> Tasks] /\ plan \in [Routers -> {"none", "link", "take"}]
  BY <1>1, <1>3, <1>4
<1>9. TypeOK
  BY <1>1, <1>2, <1>5, <1>6, <1>7, <1>8 DEF TypeOK
<1>10. \A r \in Routers : ~ HasSpec(r) /\ ~ AtWork(r) /\ ~ Linked(r) /\ ~ Confirmed(r)
  BY <1>3, <1>4 DEF HasSpec, AtWork, Linked, Confirmed
<1>11. TaskFits /\ RowIsThere /\ RemovedIsGone
  BY <1>4, <1>10 DEF TaskFits, RowIsThere, RemovedIsGone
<1>12. NameIsKnown /\ AccountIsKnown
  BY <1>5, <1>10 DEF NameIsKnown, AccountIsKnown
<1>13. RevisionIsOne /\ AppliedIsCurrent
  BY <1>2, <1>3, <1>10 DEF RevisionIsOne, AppliedIsCurrent
<1>14. WorkIsTrue
  BY <1>4, <1>10 DEF WorkIsTrue
<1>15. NobodyApplies /\ RemovalIsKept
  BY <1>1 DEF NobodyApplies, RemovalIsKept
<1> QED
  BY <1>9, <1>11, <1>12, <1>13, <1>14, <1>15 DEF CredInv

LEMMA CredHolds == Spec => []CredInv
<1>1. CredInv /\ [Next]_vars => CredInv'
  <2> SUFFICES ASSUME CredInv, [Next]_vars PROVE CredInv'
    OBVIOUS
  <2>1. ASSUME NEW r \in Routers, Worker(r) PROVE CredInv'
    BY <2>1, BeginKeeps, ApplyKeeps, RemoveKeeps, RecordKeeps DEF Worker
  <2>2. ASSUME Sweep PROVE CredInv'
    BY <2>2, PeopleKeep, SweepKeeps DEF Sweep
  <2>3. ASSUME NEW w \in Savers, SaveRead(w) \/ SaveDecide(w) \/ SaveEnqueue(w) \/ \E u \in Names : SaveWrite(w, u) PROVE CredInv'
    BY <2>3, PeopleKeep, SaveKeeps
  <2>4. ASSUME NEW r \in Routers, LinkAdd(r) \/ LinkRemove(r) \/ LinkRetry(r) \/ SiteEdit(r) PROVE CredInv'
    BY <2>4, PeopleKeep
  <2>5. ASSUME Delete \/ Forget \/ SiteLink \/ Restart \/ UNCHANGED vars PROVE CredInv'
    BY <2>5, PeopleKeep, SweepKeeps
  <2> QED
    BY <2>1, <2>2, <2>3, <2>4, <2>5 DEF Next
<1> QED
  BY <1>1, CredInit, PTL DEF Spec

\* Every variable of the profile, its links, its workers and its savers stays in
\* range, however the reconciler, the API's handlers and restarts interleave.
THEOREM TypeCorrect == Spec => []TypeOK
<1>1. CredInv => TypeOK
  BY DEF CredInv
<1> QED
  BY <1>1, CredHolds, PTL

\* No account that credprof.Apply made on a router is without its link row, for
\* any number of routers, people and restarts, unless the row was given up by
\* Forget or dropped by credApplyOne as it could not read the profile, or the
\* account has a username that the profile no longer has.
THEOREM AccountIsKnownHolds == Spec => []AccountIsKnown
<1>1. CredInv => AccountIsKnown
  BY DEF CredInv
<1> QED
  BY <1>1, CredHolds, PTL

\* A link that credRecord marked as applied, at the profile's revision, is right
\* about its router whatever was saved between credApplyOne's read and its
\* record, unless a save made a revision that the profile had had before.
THEOREM AppliedIsCurrentHolds == Spec => []AppliedIsCurrent
<1>1. CredInv => AppliedIsCurrent
  BY DEF CredInv
<1> QED
  BY <1>1, CredHolds, PTL

\* A removal that the API accepted stays one until the router has confirmed it,
\* however often credRecord has to record a failure, unless it was asked for
\* under an application's hands or the profile was saved after it.
THEOREM RemovalIsKeptHolds == Spec => []RemovalIsKept
<1>1. CredInv => RemovalIsKept
  BY DEF CredInv
<1> QED
  BY <1>1, CredHolds, PTL
=============================================================================
