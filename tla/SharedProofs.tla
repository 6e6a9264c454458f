------------------------------ MODULE SharedProofs ------------------------------
(***************************************************************************)
(* Theorems about what requests, instances and tabs share, and their       *)
(* proofs: the accounts of a browser, the counters of the rate limits and  *)
(* the theme; and all of them together with the processes of the manager.  *)
(*                                                                         *)
(* Saves that overlap keep the limit of an account, since the one that is  *)
(* committed has counted all there is.  A header is right since each answer*)
(* on its way to it is about the cookie, or will be asked for again.       *)
(* Requests that are counted late are counted in their own window, whose   *)
(* counter is there for as long as any may be.  And the last of the events *)
(* and of the fades on their way to a tab is the one that says what is so. *)
(***************************************************************************)
EXTENDS ManagerProcessProofs, Integers, FiniteSetTheorems, TLAPS

-----------------------------------------------------------------------------
(***************************************************************************)
(* Accounts: the inductive invariant                                       *)
(***************************************************************************)
Kept == [id : Nat, of : A!Account]

\* Where the request of an operation may be.
StepsOf(op) ==
    CASE op = "none"     -> {"off"}
      [] op = "register" -> {"guard", "register", "insert", "claim", "answer", "error"}
      [] op = "login"    -> {"guard", "login", "claim", "answer", "error"}
      [] op = "logout"   -> {"guard", "logout", "answer"}
      [] op = "me"       -> {"guard", "me", "answer"}
      [] op = "save"     -> {"guard", "save", "commit", "answer", "error"}
      [] op = "remove"   -> {"guard", "remove", "answer", "error"}

AskPc == {"off", "guard", "register", "insert", "claim", "login", "logout", "me", "save", "commit",
         "remove", "answer", "error"}

Asked ==
    [op : A!Op \cup {"none"}, pc : AskPc, tab : Tabs \cup {"none"}, as : A!Account,
     about : A!Account, id : Nat, seen : SUBSET Kept, tries : Nat]

Header ==
    [checked : BOOLEAN, account : A!Account, awaits : Requests \cup {"none"},
     pending : [of : Requests \cup {"none", "answered"}, gave : A!Account], pushed : BOOLEAN]

AccountKinds ==
    /\ users \subseteq Users /\ cookie \in {"nobody"} \cup users
    /\ projects \subseteq Kept /\ IsFiniteSet(projects)
    /\ request \in [Requests -> Asked] /\ tab \in [Tabs -> Header] /\ acts \in Nat

\* A request is where its operation goes, and whoever it signs in is a user.
RequestFits(q) ==
    LET r == request[q] IN
    /\ r.pc \in StepsOf(r.op)
    /\ r.op # "none" => r.tab \in Tabs
    /\ r.op \in {"register", "login"} => r.about \in Users
    /\ (r.pc = "claim" \/ (r.pc = "answer" /\ r.op \in {"register", "login"})) => r.about \in users

\* Who is about to insert has counted less than the limit.
CountFits(q) ==
    LET r == request[q] IN
    r.pc = "commit" =>
        /\ IsFiniteSet(r.seen)
        /\ Cardinality({p \in r.seen : p.of = r.as}) < MaxProjects

Mine(u) == {p \in projects : p.of = u}
ProjectsFit == \A u \in A!Account : Cardinality(Mine(u)) <= MaxProjects

\* The request asks, or has been told, whom the cookie says.
Asks(q, t) == request[q].op = "me" /\ request[q].tab = t
Tells(q) ==
    IF request[q].pc = "answer" THEN request[q].about = cookie ELSE request[q].as = cookie

\* What is shared is about the cookie; so is what the header awaits, unless it
\* is to be moved and will ask again; so is what it shows.
HeaderFits(t) ==
    LET h == tab[t] IN
    /\ h.pending.of \in Requests => Asks(h.pending.of, t) /\ Tells(h.pending.of)
    /\ h.pending.of = "answered" => h.pending.gave = cookie
    /\ h.awaits \in Requests => Asks(h.awaits, t) /\ (~h.pushed => Tells(h.awaits))
    /\ h.checked /\ h.awaits = "none" /\ ~h.pushed => h.account = cookie

AccountsInv ==
    /\ AccountKinds
    /\ \A q \in Requests : RequestFits(q) /\ CountFits(q)
    /\ ProjectsFit
    /\ \A t \in Tabs \ excused : HeaderFits(t)

\* The instance counts as this module does.
LEMMA AccountsCount == \A S : A!Cardinality(S) = Cardinality(S)
    BY DEF A!Cardinality, Cardinality

-----------------------------------------------------------------------------
(***************************************************************************)
(* Accounts: what the API does                                             *)
(***************************************************************************)
\* A request of the same tab goes on, and whoever was told right still is.
GoesOn(q) ==
    /\ request' \in [Requests -> Asked] /\ \A p \in Requests \ {q} : request'[p] = request[p]
    /\ request'[q].op = request[q].op /\ request'[q].tab = request[q].tab
    /\ tab' = tab /\ cookie' = cookie /\ acts' = acts
    /\ users \subseteq users' /\ users' \subseteq Users
    /\ excused \subseteq excused'
    /\ request[q].op = "me" /\ request[q].tab \notin excused' /\ Tells(q) => Tells(q)'

ProjectsStay ==
    /\ projects' \subseteq Kept /\ IsFiniteSet(projects')
    /\ ProjectsFit'

LEMMA GoesOnFits ==
    ASSUME AccountsInv, NEW q \in Requests, GoesOn(q), RequestFits(q)', CountFits(q)', ProjectsStay
    PROVE  AccountsInv'
<1>1. AccountKinds'
    BY DEF AccountsInv, AccountKinds, GoesOn, ProjectsStay
<1>2. ASSUME NEW p \in Requests PROVE RequestFits(p)' /\ CountFits(p)'
    BY DEF AccountsInv, GoesOn, RequestFits, CountFits
<1>3. ASSUME NEW t \in Tabs \ excused' PROVE HeaderFits(t)'
  <2>1. HeaderFits(t)
    BY <1>3 DEF AccountsInv, GoesOn
  <2>2. ASSUME NEW p \in Requests, Asks(p, t) PROVE Asks(p, t)' /\ (Tells(p) => Tells(p)')
    BY <1>3, <2>2 DEF GoesOn, Asks, Tells
  <2> QED BY <2>1, <2>2 DEF GoesOn, HeaderFits
<1> QED BY <1>1, <1>2, <1>3 DEF AccountsInv, ProjectsStay

\* What a request is made of, and what a step that sets its place leaves.
LEMMA AskedType ==
    ASSUME AccountsInv, NEW q \in Requests
    PROVE  /\ request[q] \in Asked /\ request \in [Requests -> Asked]
           /\ users \subseteq Users /\ RequestFits(q) /\ CountFits(q)
           /\ request[q].as \in A!Account /\ request[q].op \in A!Op \cup {"none"}
    BY DEF AccountsInv, AccountKinds, Asked

LEMMA PlaceFits ==
    ASSUME AccountsInv, NEW q \in Requests, NEW pc \in AskPc, A!Goes(q, pc)
    PROVE  /\ request' \in [Requests -> Asked]
           /\ \A p \in Requests \ {q} : request'[p] = request[p]
           /\ request'[q] = [request[q] EXCEPT !.pc = pc]
<1>1. request[q] \in Asked /\ request \in [Requests -> Asked]
    BY AskedType
<1>2. request' = [request EXCEPT ![q] = [request[q] EXCEPT !.pc = pc]]
    BY <1>1 DEF A!Goes
<1>3. [request[q] EXCEPT !.pc = pc] \in Asked
    BY <1>1 DEF Asked
<1> QED BY <1>1, <1>2, <1>3

LEMMA ReplyFits ==
    ASSUME AccountsInv, NEW q \in Requests, NEW u \in A!Account, A!Replies(q, u)
    PROVE  /\ request' \in [Requests -> Asked]
           /\ \A p \in Requests \ {q} : request'[p] = request[p]
           /\ request'[q] = [request[q] EXCEPT !.pc = "answer", !.about = u]
<1>1. request[q] \in Asked /\ request \in [Requests -> Asked]
    BY AskedType
<1>2. request' = [request EXCEPT ![q] = [request[q] EXCEPT !.pc = "answer", !.about = u]]
    BY <1>1 DEF A!Replies
<1>3. [request[q] EXCEPT !.pc = "answer", !.about = u] \in Asked
    BY <1>1 DEF Asked, AskPc
<1> QED BY <1>1, <1>2, <1>3

\* A request that goes to its next place, or is refused.
LEMMA MoveFits ==
    ASSUME AccountsInv, NEW q \in Requests, NEW pc \in AskPc \ {"answer", "commit"}, A!Goes(q, pc),
           request[q].pc # "answer", pc \in StepsOf(request[q].op),
           UNCHANGED <<tab, cookie, acts, projects, excused>>,
           users \subseteq users', users' \subseteq Users,
           pc = "claim" => request[q].about \in users'
    PROVE  AccountsInv'
<1>1. /\ request' \in [Requests -> Asked]
      /\ \A p \in Requests \ {q} : request'[p] = request[p]
      /\ request'[q] = [request[q] EXCEPT !.pc = pc]
    BY PlaceFits
<1>2. request[q] \in Asked
    BY AskedType
<1>3. /\ request'[q].pc = pc /\ request'[q].op = request[q].op /\ request'[q].tab = request[q].tab
      /\ request'[q].about = request[q].about /\ request'[q].as = request[q].as
    BY <1>1, <1>2 DEF Asked
<1>4. GoesOn(q)
    BY <1>1, <1>3 DEF GoesOn, Tells
<1>5. RequestFits(q)' /\ CountFits(q)'
    BY <1>3, AskedType DEF RequestFits, CountFits
<1>6. ProjectsStay
    BY DEF AccountsInv, AccountKinds, ProjectsStay, ProjectsFit, Mine
<1> QED BY <1>4, <1>5, <1>6, GoesOnFits

LEMMA GuardKeeps ==
    ASSUME AccountsInv, NEW q \in Requests, A!Guard(q)
    PROVE  AccountsInv'
<1>1. request[q].pc = "guard" /\ UNCHANGED <<tab, cookie, acts, projects, excused, users>>
    BY DEF A!Guard, A!service
<1>2. RequestFits(q) /\ request[q].op \in A!Op \cup {"none"} /\ users \subseteq Users
    BY AskedType
<1>3. request[q].op # "none"
    BY <1>1, <1>2 DEF RequestFits, StepsOf
<1>4. CASE A!Fails(q) /\ request[q].op \notin {"logout", "me"}
  <2>1. "error" \in AskPc \ {"answer", "commit"} /\ "error" \in StepsOf(request[q].op)
    BY <1>2, <1>3, <1>4 DEF AskPc, StepsOf, A!Op
  <2> QED BY <1>1, <1>2, <1>4, <2>1, MoveFits DEF A!Fails
<1>5. CASE A!Goes(q, request[q].op)
  <2>1. /\ request[q].op \in AskPc \ {"answer", "commit", "claim"}
        /\ request[q].op \in StepsOf(request[q].op)
    BY <1>2, <1>3 DEF AskPc, StepsOf, A!Op
  <2> QED BY <1>1, <1>2, <1>5, <2>1, MoveFits
<1> QED BY <1>4, <1>5 DEF A!Guard

LEMMA SignUpKeeps ==
    ASSUME AccountsInv, NEW q \in Requests, A!Look(q) \/ A!Insert(q)
    PROVE  AccountsInv'
<1>1. RequestFits(q) /\ request[q].op \in A!Op \cup {"none"} /\ users \subseteq Users
    BY AskedType
<1>2. request[q].pc \in {"register", "insert"} /\ UNCHANGED <<tab, cookie, acts, projects, excused>>
    BY DEF A!Look, A!Insert, A!service
<1>3. /\ request[q].op = "register"
      /\ {"insert", "error", "claim"} \subseteq AskPc \ {"answer", "commit"}
      /\ {"insert", "error", "claim"} \subseteq StepsOf(request[q].op)
    BY <1>1, <1>2 DEF RequestFits, StepsOf, A!Op, AskPc
<1>4. CASE A!Look(q)
    BY <1>1, <1>2, <1>3, <1>4, MoveFits DEF A!Look, A!Fails, A!service
<1>5. CASE A!Insert(q) /\ A!Fails(q) /\ users' = users
    BY <1>1, <1>2, <1>3, <1>5, MoveFits DEF A!Fails
<1>6. CASE A!Insert(q) /\ A!Goes(q, "claim") /\ users' = users \cup {request[q].about}
  <2>1. request[q].about \in Users
    BY <1>1, <1>3 DEF RequestFits
  <2> QED BY <1>1, <1>2, <1>3, <1>6, <2>1, MoveFits
<1> QED BY <1>4, <1>5, <1>6 DEF A!Insert

LEMMA VerifyKeeps ==
    ASSUME AccountsInv, NEW q \in Requests, A!Verify(q)
    PROVE  AccountsInv'
<1>1. RequestFits(q) /\ request[q].op \in A!Op \cup {"none"} /\ users \subseteq Users
    BY AskedType
<1>2. request[q].pc = "login" /\ UNCHANGED <<tab, cookie, acts, projects, excused, users>>
    BY DEF A!Verify, A!service
<1>3. /\ request[q].op = "login"
      /\ {"error", "claim"} \subseteq AskPc \ {"answer", "commit"}
      /\ {"error", "claim"} \subseteq StepsOf(request[q].op)
    BY <1>1, <1>2 DEF RequestFits, StepsOf, A!Op, AskPc
<1>4. CASE A!Fails(q)
    BY <1>1, <1>2, <1>3, <1>4, MoveFits DEF A!Fails
<1>5. CASE request[q].about \in users /\ A!Goes(q, "claim")
    BY <1>1, <1>2, <1>3, <1>5, MoveFits
<1> QED BY <1>4, <1>5 DEF A!Verify

\* A request that is answered.
LEMMA AnswerFits ==
    ASSUME AccountsInv, NEW q \in Requests, NEW u \in A!Account, A!Replies(q, u),
           request[q].pc # "answer", "answer" \in StepsOf(request[q].op),
           request[q].op \in {"register", "login"} => u = request[q].about /\ u \in users,
           request[q].op = "me" /\ request[q].tab \notin excused' /\ request[q].as = cookie => u = cookie,
           UNCHANGED <<tab, cookie, acts, users>>, excused \subseteq excused', ProjectsStay
    PROVE  AccountsInv'
<1>1. /\ request' \in [Requests -> Asked]
      /\ \A p \in Requests \ {q} : request'[p] = request[p]
      /\ request'[q] = [request[q] EXCEPT !.pc = "answer", !.about = u]
    BY ReplyFits
<1>2. request[q] \in Asked /\ users \subseteq Users /\ RequestFits(q)
    BY AskedType
<1>3. /\ request'[q].pc = "answer" /\ request'[q].op = request[q].op
      /\ request'[q].tab = request[q].tab /\ request'[q].about = u
    BY <1>1, <1>2 DEF Asked
<1>4. GoesOn(q)
    BY <1>1, <1>2, <1>3 DEF GoesOn, Tells
<1>5. RequestFits(q)' /\ CountFits(q)'
    BY <1>2, <1>3 DEF RequestFits, CountFits
<1> QED BY <1>4, <1>5, GoesOnFits

LEMMA AnswersKeep ==
    ASSUME AccountsInv, NEW q \in Requests,
           A!Claim(q) \/ A!ServeLogout(q) \/ A!ServeMe(q)
    PROVE  AccountsInv'
<1>1. /\ RequestFits(q) /\ request[q].op \in A!Op \cup {"none"} /\ users \subseteq Users
      /\ request[q] \in Asked
    BY AskedType
<1>2. /\ request[q].pc \in {"claim", "logout", "me"}
      /\ UNCHANGED <<tab, cookie, acts, projects, users>>
    BY DEF A!Claim, A!ServeLogout, A!ServeMe, A!service
<1>3. ProjectsStay
    BY <1>2 DEF AccountsInv, AccountKinds, ProjectsStay, ProjectsFit, Mine
<1>4. "nobody" \in A!Account /\ users \subseteq A!Account
    BY <1>1 DEF A!Account
<1>5. CASE A!Claim(q)
  <2>1. request[q].op \in {"register", "login"} /\ "answer" \in StepsOf(request[q].op)
    BY <1>1, <1>5 DEF A!Claim, RequestFits, StepsOf, A!Op
  <2>2. request[q].about \in users /\ request[q].about \in A!Account
    BY <1>1, <1>4, <1>5 DEF A!Claim, RequestFits
  <2> QED BY <1>2, <1>3, <1>5, <2>1, <2>2, AnswerFits DEF A!Claim
<1>6. CASE A!ServeLogout(q)
  <2>1. request[q].op = "logout" /\ "answer" \in StepsOf(request[q].op)
    BY <1>1, <1>6 DEF A!ServeLogout, RequestFits, StepsOf, A!Op
  <2> QED BY <1>2, <1>3, <1>4, <1>6, <2>1, AnswerFits DEF A!ServeLogout
<1>7. CASE A!ServeMe(q)
  <2>1. request[q].op = "me" /\ "answer" \in StepsOf(request[q].op)
    BY <1>1, <1>7 DEF A!ServeMe, RequestFits, StepsOf, A!Op
  <2>2. CASE A!Replies(q, IF request[q].as \in users THEN request[q].as ELSE "nobody") /\ excused' = excused
    <3> DEFINE u == IF request[q].as \in users THEN request[q].as ELSE "nobody"
    <3>1. u \in A!Account
      BY <1>4
    <3>2. request[q].as = cookie => u = cookie
      BY DEF AccountsInv, AccountKinds
    <3>3. A!Replies(q, u)
      BY <2>2
    <3> HIDE DEF u
    <3> QED BY <1>2, <1>3, <1>7, <2>1, <2>2, <3>1, <3>2, <3>3, AnswerFits DEF A!ServeMe
  <2>3. CASE A!Replies(q, "nobody") /\ excused' = excused \cup {request[q].tab}
    BY <1>2, <1>3, <1>4, <1>7, <2>1, <2>3, AnswerFits DEF A!ServeMe
  <2> QED BY <1>7, <2>2, <2>3 DEF A!ServeMe
<1> QED BY <1>5, <1>6, <1>7

\* The transaction of a save: what it counted is all there is, if nobody else
\* has saved since.
LEMMA CountKeeps ==
    ASSUME AccountsInv, A!AccountsAssumption, NEW q \in Requests, A!CountProjects(q)
    PROVE  AccountsInv'
<1>1. /\ RequestFits(q) /\ request[q].op \in A!Op \cup {"none"} /\ users \subseteq Users
      /\ request[q] \in Asked /\ request \in [Requests -> Asked]
    BY AskedType
<1>2. request[q].pc = "save" /\ UNCHANGED <<tab, cookie, acts, projects, users, excused>>
    BY DEF A!CountProjects, A!service
<1>3. request[q].op = "save" /\ {"commit", "error"} \subseteq StepsOf(request[q].op)
    BY <1>1, <1>2 DEF RequestFits, StepsOf, A!Op
<1>4. CASE Cardinality(Mine(request[q].as)) >= MaxProjects
  <2>1. A!Goes(q, "error") /\ "error" \in AskPc \ {"answer", "commit"}
    BY <1>4, AccountsCount DEF A!CountProjects, A!Fails, Mine, AskPc
  <2> QED BY <1>1, <1>2, <1>3, <2>1, MoveFits
<1>5. CASE ~(Cardinality(Mine(request[q].as)) >= MaxProjects)
  <2> DEFINE r == [request[q] EXCEPT !.pc = "commit", !.seen = projects]
  <2>1. request' = [request EXCEPT ![q] = r]
    BY <1>1, <1>5, AccountsCount DEF A!CountProjects, Mine
  <2>2. /\ r \in Asked /\ r.pc = "commit" /\ r.op = "save" /\ r.tab = request[q].tab
        /\ r.seen = projects /\ r.as = request[q].as /\ r.about = request[q].about
    BY <1>1, <1>3 DEF AccountsInv, AccountKinds, Asked, AskPc
  <2> HIDE DEF r
  <2>3. request'[q] = r /\ request' \in [Requests -> Asked]
        /\ \A p \in Requests \ {q} : request'[p] = request[p]
    BY <1>1, <2>1, <2>2
  <2>4. GoesOn(q)
    BY <1>1, <1>2, <1>3, <2>2, <2>3 DEF GoesOn, Tells
  <2>5. RequestFits(q)'
    BY <1>1, <1>2, <1>3, <2>2, <2>3 DEF RequestFits
  <2>6. CountFits(q)'
    <3>1. IsFiniteSet(projects) /\ IsFiniteSet(Mine(request[q].as))
      BY FS_Subset DEF AccountsInv, AccountKinds, Mine
    <3>2. Cardinality(Mine(request[q].as)) < MaxProjects
      BY <1>5, <3>1, FS_CardinalityType DEF A!AccountsAssumption
    <3> QED BY <2>2, <2>3, <3>1, <3>2 DEF CountFits, Mine
  <2>7. ProjectsStay
    BY <1>2 DEF AccountsInv, AccountKinds, ProjectsStay, ProjectsFit, Mine
  <2> QED BY <2>4, <2>5, <2>6, <2>7, GoesOnFits
<1> QED BY <1>4, <1>5

LEMMA CommitKeeps ==
    ASSUME AccountsInv, A!AccountsAssumption, NEW q \in Requests, A!CommitProject(q)
    PROVE  AccountsInv'
<1>1. /\ RequestFits(q) /\ CountFits(q) /\ users \subseteq Users
      /\ request[q] \in Asked /\ request \in [Requests -> Asked]
      /\ request[q].as \in A!Account /\ request[q].op \in A!Op \cup {"none"}
    BY AskedType
<1>2. request[q].pc = "commit" /\ UNCHANGED <<tab, cookie, acts, users, excused>>
    BY DEF A!CommitProject
<1>3. request[q].op = "save" /\ {"save", "answer", "error"} \subseteq StepsOf(request[q].op)
    BY <1>1, <1>2 DEF RequestFits, StepsOf, A!Op
<1>4. ASSUME projects' = projects PROVE ProjectsStay
    BY <1>4 DEF AccountsInv, AccountKinds, ProjectsStay, ProjectsFit, Mine
<1>5. CASE A!Fails(q) /\ projects' = projects
  <2>1. "error" \in AskPc \ {"answer", "commit"}
    BY DEF AskPc
  <2> QED BY <1>1, <1>2, <1>3, <1>5, <2>1, MoveFits DEF A!Fails
<1>6. CASE /\ request' = [request EXCEPT ![q].pc = "save", ![q].tries = 1, ![q].seen = {}]
           /\ projects' = projects
  <2> DEFINE r == [request[q] EXCEPT !.pc = "save", !.tries = 1, !.seen = {}]
  <2>1. request' = [request EXCEPT ![q] = r]
    BY <1>1, <1>6
  <2>2. /\ r \in Asked /\ r.pc = "save" /\ r.op = "save" /\ r.tab = request[q].tab
        /\ r.about = request[q].about
    BY <1>1, <1>3 DEF Asked, AskPc
  <2> HIDE DEF r
  <2>3. request'[q] = r /\ request' \in [Requests -> Asked]
        /\ \A p \in Requests \ {q} : request'[p] = request[p]
    BY <1>1, <2>1, <2>2
  <2>4. GoesOn(q)
    BY <1>1, <1>2, <1>3, <2>2, <2>3 DEF GoesOn, Tells
  <2>5. RequestFits(q)' /\ CountFits(q)'
    BY <1>1, <1>2, <1>3, <2>2, <2>3 DEF RequestFits, CountFits
  <2> QED BY <1>4, <1>6, <2>4, <2>5, GoesOnFits
<1>7. CASE /\ ~A!Conflicts(q) /\ A!Replies(q, request[q].as)
           /\ projects' = projects \cup {[id |-> request[q].id, of |-> request[q].as]}
  <2> DEFINE new == [id |-> request[q].id, of |-> request[q].as]
             counted == {p \in request[q].seen : p.of = request[q].as}
  <2>1. new \in Kept /\ new.of = request[q].as
    BY <1>1 DEF Asked, Kept
  <2>2. projects' = projects \cup {new} /\ projects' \subseteq Kept /\ IsFiniteSet(projects')
    BY <1>7, <2>1, FS_AddElement DEF AccountsInv, AccountKinds
  <2>3. Mine(request[q].as) \subseteq counted
    BY <1>7 DEF A!Conflicts, Mine
  <2>4. /\ IsFiniteSet(counted) /\ IsFiniteSet(Mine(request[q].as))
        /\ Cardinality(counted) < MaxProjects
        /\ Cardinality(Mine(request[q].as)) <= Cardinality(counted)
    BY <1>1, <1>2, <2>3, FS_Subset DEF CountFits
  <2> HIDE DEF new, counted
  <2>5. Cardinality(Mine(request[q].as)) + 1 <= MaxProjects
    BY <2>4, FS_CardinalityType DEF A!AccountsAssumption
  <2>6. ASSUME NEW u \in A!Account PROVE Cardinality(Mine(u)') <= MaxProjects
    <3>1. CASE u = request[q].as
      <4>1. Mine(u)' = Mine(u) \cup {new}
        BY <2>1, <2>2, <3>1 DEF Mine
      <4>2. IsFiniteSet(Mine(u)) /\ Cardinality(Mine(u)) \in Nat
        BY <2>4, <3>1, FS_CardinalityType
      <4>3. Cardinality(Mine(u) \cup {new}) \in {Cardinality(Mine(u)), Cardinality(Mine(u)) + 1}
        BY <4>2, FS_AddElement
      <4>4. Cardinality(Mine(u)) + 1 <= MaxProjects /\ MaxProjects \in Nat
        BY <2>5, <3>1 DEF A!AccountsAssumption
      <4> QED BY <4>1, <4>2, <4>3, <4>4
    <3>2. CASE u # request[q].as
      <4>1. Mine(u)' = Mine(u)
        BY <2>1, <2>2, <3>2 DEF Mine
      <4> QED BY <4>1 DEF AccountsInv, ProjectsFit
    <3> QED BY <3>1, <3>2
  <2>7. ProjectsStay
    BY <2>2, <2>6 DEF ProjectsStay, ProjectsFit
  <2> QED BY <1>1, <1>2, <1>3, <1>7, <2>7, AnswerFits
<1> QED BY <1>5, <1>6, <1>7 DEF A!CommitProject

LEMMA RemoveKeeps ==
    ASSUME AccountsInv, A!AccountsAssumption, NEW q \in Requests, A!ServeRemove(q)
    PROVE  AccountsInv'
<1>1. /\ RequestFits(q) /\ users \subseteq Users /\ request[q] \in Asked
      /\ request[q].as \in A!Account /\ request[q].op \in A!Op \cup {"none"}
    BY AskedType
<1>2. request[q].pc = "remove" /\ UNCHANGED <<tab, cookie, acts, users, excused>>
    BY DEF A!ServeRemove
<1>3. request[q].op = "remove" /\ {"answer", "error"} \subseteq StepsOf(request[q].op)
    BY <1>1, <1>2 DEF RequestFits, StepsOf, A!Op
<1>4. projects' \subseteq projects
    BY DEF A!ServeRemove
<1>5. ProjectsStay
  <2>1. projects' \subseteq Kept /\ IsFiniteSet(projects')
    BY <1>4, FS_Subset DEF AccountsInv, AccountKinds
  <2>2. ASSUME NEW u \in A!Account PROVE Cardinality(Mine(u)') <= MaxProjects
    <3>1. IsFiniteSet(Mine(u)) /\ Mine(u)' \subseteq Mine(u) /\ Cardinality(Mine(u)) <= MaxProjects
      BY <1>4, FS_Subset DEF AccountsInv, AccountKinds, Mine, ProjectsFit
    <3>2. IsFiniteSet(Mine(u)') /\ Cardinality(Mine(u)') <= Cardinality(Mine(u))
      BY <3>1, FS_Subset
    <3> QED BY <3>1, <3>2, FS_CardinalityType DEF A!AccountsAssumption
  <2> QED BY <2>1, <2>2 DEF ProjectsStay, ProjectsFit
<1>6. CASE A!Replies(q, request[q].as)
    BY <1>1, <1>2, <1>3, <1>5, <1>6, AnswerFits
<1>7. CASE A!Fails(q) /\ projects' = projects
  <2>1. "error" \in AskPc \ {"answer", "commit"}
    BY DEF AskPc
  <2> QED BY <1>1, <1>2, <1>3, <1>7, <2>1, MoveFits DEF A!Fails
<1> QED BY <1>6, <1>7 DEF A!ServeRemove

-----------------------------------------------------------------------------
(***************************************************************************)
(* Accounts: what the tabs do, and what comes back to them                 *)
(***************************************************************************)
\* A request is sent by a tab that has one free; nobody awaits one that is.
LEMMA SentFits ==
    ASSUME AccountsInv, NEW q \in Requests, NEW t \in Tabs, NEW op \in A!Op,
           NEW u \in A!Account, NEW id \in Nat, op \in {"register", "login"} => u \in Users,
           A!Free(q), A!Send(q, A!Sent(op, t, u, id))
    PROVE  /\ request' \in [Requests -> Asked]
           /\ \A p \in Requests \ {q} : request'[p] = request[p]
           /\ request'[q] = A!Sent(op, t, u, id)
           /\ \A p \in Requests :
                 users' = users /\ cookie' = cookie => RequestFits(p)' /\ CountFits(p)'
<1> DEFINE r == A!Sent(op, t, u, id)
<1>1. cookie \in A!Account
    BY DEF AccountsInv, AccountKinds, A!Account
<1>2. /\ r \in Asked /\ r.op = op /\ r.pc = "guard" /\ r.tab = t /\ r.about = u
    BY <1>1 DEF A!Sent, Asked, AskPc
<1>3. "guard" \in StepsOf(op)
    BY DEF StepsOf, A!Op
<1> HIDE DEF r
<1>4. request \in [Requests -> Asked] /\ request' = [request EXCEPT ![q] = r]
    BY DEF AccountsInv, AccountKinds, A!Send, r
<1>5. /\ request' \in [Requests -> Asked] /\ request'[q] = r
      /\ \A p \in Requests \ {q} : request'[p] = request[p]
    BY <1>2, <1>4
<1>6. ASSUME NEW p \in Requests, users' = users PROVE RequestFits(p)' /\ CountFits(p)'
  <2>1. CASE p = q
    BY <1>2, <1>3, <1>5, <2>1 DEF RequestFits, CountFits, A!Op
  <2>2. CASE p # q
    BY <1>5, <1>6, <2>2 DEF AccountsInv, RequestFits, CountFits
  <2> QED BY <2>1, <2>2
<1> QED BY <1>5, <1>6 DEF r

\* A request that is free is nobody's.
LEMMA FreeIsNobodys ==
    ASSUME AccountsInv, NEW q \in Requests, A!Free(q), NEW t \in Tabs \ excused
    PROVE  tab[t].pending.of # q /\ tab[t].awaits # q
    BY DEF AccountsInv, HeaderFits, Asks, A!Free, A!NoRequest

LEMMA ProjectsUnchanged ==
    ASSUME AccountsInv, UNCHANGED projects
    PROVE  ProjectsStay
    BY DEF AccountsInv, AccountKinds, ProjectsStay, ProjectsFit, Mine

LEMMA SendKeeps ==
    ASSUME AccountsInv, NEW q \in Requests, NEW t \in Tabs, NEW op \in A!Op,
           NEW u \in A!Account, NEW id \in Nat, op \in {"register", "login"} => u \in Users,
           A!Free(q), A!Send(q, A!Sent(op, t, u, id)), acts' \in Nat,
           UNCHANGED <<users, projects, cookie, tab, excused>>
    PROVE  AccountsInv'
<1>1. /\ request' \in [Requests -> Asked]
      /\ \A p \in Requests \ {q} : request'[p] = request[p]
      /\ \A p \in Requests : RequestFits(p)' /\ CountFits(p)'
    BY SentFits
<1>2. ProjectsStay
    BY ProjectsUnchanged
<1>3. AccountKinds'
    BY <1>1, <1>2 DEF AccountsInv, AccountKinds, ProjectsStay
<1>4. ASSUME NEW s \in Tabs \ excused PROVE HeaderFits(s)'
    BY <1>1, FreeIsNobodys DEF AccountsInv, HeaderFits, Asks, Tells
<1> QED BY <1>1, <1>2, <1>3, <1>4 DEF AccountsInv, ProjectsStay

LEMMA ActsCount ==
    ASSUME AccountsInv, A!Act
    PROVE  acts' = acts + 1 /\ acts \in Nat /\ acts' \in Nat
    BY DEF AccountsInv, AccountKinds, A!Act

LEMMA ClicksKeep ==
    ASSUME AccountsInv, NEW q \in Requests, NEW t \in Tabs,
           \/ A!Logout(q, t) \/ A!Save(q, t) \/ A!Remove(q, t)
           \/ \E u \in Users, op \in {"register", "login"} : A!Submit(q, t, op, u)
    PROVE  AccountsInv'
<1>1. /\ acts' = acts + 1 /\ acts \in Nat /\ acts' \in Nat /\ A!Free(q)
      /\ UNCHANGED <<users, projects, cookie, tab, excused>>
    BY ActsCount DEF A!Logout, A!Save, A!Remove, A!Submit, A!service
<1>2. "nobody" \in A!Account /\ Users \subseteq A!Account /\ 0 \in Nat /\ acts + 1 \in Nat
    BY <1>1 DEF A!Account
<1>3. {"logout", "save", "remove", "register", "login"} \subseteq A!Op
    BY DEF A!Op
<1>4. CASE A!Logout(q, t)
    BY <1>1, <1>2, <1>3, <1>4, SendKeeps DEF A!Logout
<1>5. CASE A!Save(q, t)
    BY <1>1, <1>2, <1>3, <1>5, SendKeeps DEF A!Save
<1>6. CASE A!Remove(q, t)
  <2>1. PICK p \in projects : A!Send(q, A!Sent("remove", t, "nobody", p.id))
    BY <1>6 DEF A!Remove
  <2>2. p.id \in Nat
    BY DEF AccountsInv, AccountKinds, Kept
  <2> QED BY <1>1, <1>2, <1>3, <2>1, <2>2, SendKeeps
<1>7. ASSUME NEW u \in Users, NEW op \in {"register", "login"}, A!Submit(q, t, op, u)
      PROVE  AccountsInv'
    BY <1>1, <1>2, <1>3, <1>7, SendKeeps DEF A!Submit
<1> QED BY <1>4, <1>5, <1>6, <1>7

\* A tab is given another header.
HeaderIs(t, h) == h \in Header /\ tab' = [tab EXCEPT ![t] = h]

LEMMA HeaderType ==
    ASSUME AccountsInv, NEW t \in Tabs
    PROVE  tab[t] \in Header /\ tab \in [Tabs -> Header] /\ cookie \in A!Account
    BY DEF AccountsInv, AccountKinds, A!Account

LEMMA NavigateKeeps ==
    ASSUME AccountsInv, A!AccountsAssumption, NEW q \in Requests, NEW t \in Tabs, A!Navigate(q, t)
    PROVE  AccountsInv'
<1> DEFINE asked == tab[t].pending.of
<1>1. /\ UNCHANGED <<users, projects, cookie, excused>> /\ acts' \in Nat
      /\ A!Checks(q, t)
    BY ActsCount DEF A!Navigate, A!service, AccountsInv, AccountKinds
<1>2. ProjectsStay
    BY <1>1, ProjectsUnchanged
<1>3. tab[t] \in Header /\ tab \in [Tabs -> Header] /\ asked \in Requests \cup {"none", "answered"}
    BY HeaderType DEF Header
<1>4. "none" \notin Requests /\ "answered" \notin Requests
    BY DEF A!AccountsAssumption
<1>5. CASE asked = "none"
  <2> DEFINE h == [tab[t] EXCEPT !.pending.of = q, !.awaits = q, !.pushed = FALSE]
  <2>1. /\ A!Free(q) /\ A!Send(q, A!Sent("me", t, "nobody", 0))
        /\ tab' = [tab EXCEPT ![t].pending.of = q, ![t].awaits = q, ![t].pushed = FALSE]
    BY <1>1, <1>5 DEF A!Checks
  <2>2. "me" \in A!Op /\ "nobody" \in A!Account /\ 0 \in Nat
    BY DEF A!Op, A!Account
  <2>3. /\ request' \in [Requests -> Asked]
        /\ \A p \in Requests \ {q} : request'[p] = request[p]
        /\ request'[q] = A!Sent("me", t, "nobody", 0)
        /\ \A p \in Requests : RequestFits(p)' /\ CountFits(p)'
    BY <1>1, <2>1, <2>2, SentFits
  <2>4. /\ tab' = [tab EXCEPT ![t] = h] /\ h \in Header
        /\ h.pending.of = q /\ h.awaits = q
    BY <1>3, <2>1 DEF Header
  <2> HIDE DEF h
  <2>5. AccountKinds'
    BY <1>1, <1>2, <1>3, <2>3, <2>4 DEF AccountsInv, AccountKinds, ProjectsStay
  <2>6. ASSUME NEW s \in Tabs \ excused PROVE HeaderFits(s)'
    <3>1. CASE s = t
      <4>1. Asks(q, t)' /\ Tells(q)'
        BY <1>1, <2>3 DEF Asks, Tells, A!Sent
      <4> QED BY <1>3, <1>4, <2>4, <3>1, <4>1 DEF HeaderFits
    <3>2. CASE s # t
      <4>1. tab'[s] = tab[s] /\ cookie' = cookie
        BY <1>1, <1>3, <2>4, <3>2
      <4>2. HeaderFits(s) /\ tab[s].pending.of # q /\ tab[s].awaits # q
        BY <2>1, FreeIsNobodys DEF AccountsInv
      <4>3. ASSUME NEW p \in Requests \ {q}
            PROVE  (Asks(p, s)' <=> Asks(p, s)) /\ (Tells(p)' <=> Tells(p))
        BY <2>3, <4>1 DEF Asks, Tells
      <4> QED BY <4>1, <4>2, <4>3 DEF HeaderFits
    <3> QED BY <3>1, <3>2
  <2> QED BY <1>1, <1>2, <2>3, <2>5, <2>6 DEF AccountsInv, ProjectsStay
<1>6. CASE asked = "answered"
  <2> DEFINE h == [tab[t] EXCEPT !.account = tab[t].pending.gave, !.checked = TRUE,
                                 !.awaits = "none", !.pushed = FALSE]
  <2>1. request' = request /\ tab' = [tab EXCEPT ![t] = h]
    BY <1>1, <1>3, <1>6 DEF A!Checks
  <2>2. /\ h \in Header /\ h.pending = tab[t].pending /\ h.awaits = "none"
        /\ h.account = tab[t].pending.gave
    BY <1>3 DEF Header
  <2> HIDE DEF h
  <2>3. AccountKinds'
    BY <1>1, <1>2, <1>3, <2>1, <2>2 DEF AccountsInv, AccountKinds, ProjectsStay
  <2>4. ASSUME NEW s \in Tabs \ excused PROVE HeaderFits(s)'
    <3>1. HeaderFits(s)
      BY DEF AccountsInv
    <3>2. CASE s = t
      BY <1>1, <1>3, <1>4, <1>6, <2>1, <2>2, <3>1, <3>2 DEF HeaderFits, Asks, Tells
    <3>3. CASE s # t
      BY <1>1, <1>3, <2>1, <3>1, <3>3 DEF HeaderFits, Asks, Tells
    <3> QED BY <3>2, <3>3
  <2> QED BY <1>1, <1>2, <2>1, <2>3, <2>4
       DEF AccountsInv, ProjectsStay, RequestFits, CountFits
<1>7. CASE asked \in Requests
  <2> DEFINE h == [tab[t] EXCEPT !.awaits = asked, !.pushed = FALSE]
  <2>1. request' = request /\ tab' = [tab EXCEPT ![t] = h]
    BY <1>1, <1>3, <1>4, <1>7 DEF A!Checks
  <2>2. /\ h \in Header /\ h.pending = tab[t].pending /\ h.awaits = asked
    BY <1>3, <1>7 DEF Header
  <2> HIDE DEF h
  <2>3. AccountKinds'
    BY <1>1, <1>2, <1>3, <2>1, <2>2 DEF AccountsInv, AccountKinds, ProjectsStay
  <2>4. ASSUME NEW s \in Tabs \ excused PROVE HeaderFits(s)'
    <3>1. HeaderFits(s)
      BY DEF AccountsInv
    <3>2. CASE s = t
      BY <1>1, <1>3, <1>4, <1>7, <2>1, <2>2, <3>1, <3>2 DEF HeaderFits, Asks, Tells
    <3>3. CASE s # t
      BY <1>1, <1>3, <2>1, <3>1, <3>3 DEF HeaderFits, Asks, Tells
    <3> QED BY <3>2, <3>3
  <2> QED BY <1>1, <1>2, <2>1, <2>3, <2>4
       DEF AccountsInv, ProjectsStay, RequestFits, CountFits
<1> QED BY <1>3, <1>5, <1>6, <1>7

\* A request that is over is free again.
LEMMA OverFits ==
    ASSUME AccountsInv, NEW q \in Requests, A!Send(q, A!NoRequest)
    PROVE  /\ request' \in [Requests -> Asked]
           /\ \A p \in Requests \ {q} : request'[p] = request[p]
           /\ \A p \in Requests : users' = users => RequestFits(p)' /\ CountFits(p)'
<1>1. /\ A!NoRequest \in Asked /\ A!NoRequest.op = "none" /\ A!NoRequest.pc = "off"
    BY DEF A!NoRequest, Asked, AskPc, A!Account
<1>2. request \in [Requests -> Asked] /\ request' = [request EXCEPT ![q] = A!NoRequest]
    BY DEF AccountsInv, AccountKinds, A!Send
<1>3. /\ request' \in [Requests -> Asked] /\ request'[q] = A!NoRequest
      /\ \A p \in Requests \ {q} : request'[p] = request[p]
    BY <1>1, <1>2
<1>4. ASSUME NEW p \in Requests, users' = users PROVE RequestFits(p)' /\ CountFits(p)'
  <2>1. CASE p = q
    BY <1>1, <1>3, <2>1 DEF RequestFits, CountFits, StepsOf
  <2>2. CASE p # q
    BY <1>3, <1>4, <2>2 DEF AccountsInv, RequestFits, CountFits
  <2> QED BY <2>1, <2>2
<1> QED BY <1>3, <1>4

\* Who signs in or out changes the cookie: the other tabs may be behind it,
\* and this one forgets what was shared.
LEMMA SignedKeeps ==
    ASSUME AccountsInv, A!AccountsAssumption, NEW q \in Requests, A!SignedIn(q) \/ A!SignedOut(q)
    PROVE  AccountsInv'
<1> DEFINE t == request[q].tab
<1>1. /\ request[q].pc = "answer" /\ A!Send(q, A!NoRequest)
      /\ UNCHANGED <<users, projects, acts>>
    BY DEF A!SignedIn, A!SignedOut, A!service
<1>2. RequestFits(q) /\ users \subseteq Users /\ request[q].op \in {"register", "login", "logout"}
    BY AskedType DEF A!SignedIn, A!SignedOut
<1>3. t \in Tabs
    BY <1>2 DEF RequestFits
<1>4. tab[t] \in Header /\ tab \in [Tabs -> Header]
    BY <1>3, HeaderType
<1>5. /\ request' \in [Requests -> Asked]
      /\ \A p \in Requests \ {q} : request'[p] = request[p]
      /\ \A p \in Requests : RequestFits(p)' /\ CountFits(p)'
    BY <1>1, OverFits
<1>6. ProjectsStay
    BY <1>1, ProjectsUnchanged
<1>7. "none" \notin Requests /\ "answered" \notin Requests /\ "nobody" \in A!Account
    BY DEF A!AccountsAssumption, A!Account
<1>8. CASE A!SignedIn(q)
  <2> DEFINE h == [tab[t] EXCEPT !.pending = [of |-> "none", gave |-> "nobody"], !.pushed = TRUE]
  <2>1. /\ cookie' = request[q].about /\ excused' = excused \cup (Tabs \ {t})
        /\ tab' = [tab EXCEPT ![t] = h]
    BY <1>3, <1>4, <1>8 DEF A!SignedIn, A!Forgotten
  <2>2. /\ h \in Header /\ h.pending.of = "none" /\ h.pushed = TRUE /\ h.awaits = tab[t].awaits
    BY <1>4, <1>7 DEF Header
  <2> HIDE DEF h
  <2>3. cookie' \in users
    BY <1>1, <1>2, <1>8, <2>1 DEF A!SignedIn, RequestFits
  <2>4. AccountKinds'
    BY <1>1, <1>4, <1>5, <1>6, <2>1, <2>2, <2>3 DEF AccountsInv, AccountKinds, ProjectsStay
  <2>5. ASSUME NEW s \in Tabs \ excused' PROVE HeaderFits(s)'
    <3>1. s = t /\ HeaderFits(t) /\ tab'[t] = h
      BY <1>3, <1>4, <2>1 DEF AccountsInv
    <3>2. h.awaits # q
      BY <1>2, <2>2, <3>1 DEF HeaderFits, Asks
    <3> QED BY <1>5, <1>7, <2>2, <3>1, <3>2 DEF HeaderFits, Asks
  <2> QED BY <1>5, <1>6, <2>4, <2>5 DEF AccountsInv, ProjectsStay
<1>9. CASE A!SignedOut(q)
  <2>1. PICK goes \in BOOLEAN :
           /\ tab' = [tab EXCEPT ![t].pending = A!Forgotten(@), ![t].account = "nobody", ![t].pushed = goes]
           /\ excused' = excused \cup (Tabs \ {t}) \cup (IF ~goes /\ tab[t].awaits # "none" THEN {t} ELSE {})
    BY <1>9 DEF A!SignedOut
  <2> DEFINE h == [tab[t] EXCEPT !.pending = [of |-> "none", gave |-> "nobody"],
                                 !.account = "nobody", !.pushed = goes]
  <2>2. cookie' = "nobody" /\ tab' = [tab EXCEPT ![t] = h]
    BY <1>3, <1>4, <1>9, <2>1 DEF A!SignedOut, A!Forgotten
  <2>3. /\ h \in Header /\ h.pending.of = "none" /\ h.pushed = goes /\ h.awaits = tab[t].awaits
        /\ h.account = "nobody"
    BY <1>4, <1>7 DEF Header
  <2> HIDE DEF h
  <2>4. AccountKinds'
    BY <1>1, <1>4, <1>5, <1>6, <2>2, <2>3 DEF AccountsInv, AccountKinds, ProjectsStay
  <2>5. ASSUME NEW s \in Tabs \ excused' PROVE HeaderFits(s)'
    <3>1. s = t /\ HeaderFits(t) /\ tab'[t] = h /\ (goes \/ h.awaits = "none")
      BY <1>3, <1>4, <2>1, <2>2, <2>3 DEF AccountsInv
    <3>2. h.awaits # q
      BY <1>2, <2>3, <3>1 DEF HeaderFits, Asks
    <3>3. h.pending.of \notin Requests /\ h.pending.of # "answered"
      BY <1>7, <2>3
    <3>4. PICK x : x = h
      OBVIOUS
    <3>5. x.awaits \in Requests => Asks(x.awaits, s)' /\ x.pushed
      <4> SUFFICES ASSUME x.awaits \in Requests PROVE Asks(x.awaits, s)' /\ x.pushed
        OBVIOUS
      <4>1. Asks(x.awaits, s)
        BY <2>3, <3>1, <3>4 DEF HeaderFits
      <4>2. request'[x.awaits] = request[x.awaits]
        BY <1>5, <3>2, <3>4
      <4>3. x.pushed
        BY <1>7, <2>3, <3>1, <3>4
      <4> QED BY <4>1, <4>2, <4>3 DEF Asks
    <3>6. /\ tab'[s] = x /\ x.account = cookie'
          /\ x.pending.of \notin Requests /\ x.pending.of # "answered"
      BY <2>2, <2>3, <3>1, <3>3, <3>4
    <3> QED BY <3>5, <3>6 DEF HeaderFits
  <2> QED BY <1>5, <1>6, <2>4, <2>5 DEF AccountsInv, ProjectsStay
<1> QED BY <1>8, <1>9

LEMMA ToldKeeps ==
    ASSUME AccountsInv, A!AccountsAssumption, NEW q \in Requests, A!Told(q)
    PROVE  AccountsInv'
<1> DEFINE t == request[q].tab
           u == request[q].about
           answered == tab[t].pending.of = q
           awaited == tab[t].awaits = q
           shared == IF answered THEN [of |-> "answered", gave |-> u] ELSE tab[t].pending
           h == [tab[t] EXCEPT !.pending = shared,
                               !.account = IF awaited THEN u ELSE tab[t].account,
                               !.checked = tab[t].checked \/ awaited,
                               !.awaits = IF awaited THEN "none" ELSE tab[t].awaits]
<1>1. /\ request[q].pc = "answer" /\ request[q].op = "me" /\ A!Send(q, A!NoRequest)
      /\ UNCHANGED <<users, projects, acts, cookie, excused>>
    BY DEF A!Told, A!service
<1>2. RequestFits(q) /\ users \subseteq Users /\ request[q] \in Asked
    BY AskedType
<1>3. t \in Tabs /\ u \in A!Account
    BY <1>1, <1>2 DEF RequestFits, Asked
<1>4. tab[t] \in Header /\ tab \in [Tabs -> Header]
    BY <1>3, HeaderType
<1>5. /\ request' \in [Requests -> Asked]
      /\ \A p \in Requests \ {q} : request'[p] = request[p]
      /\ \A p \in Requests : RequestFits(p)' /\ CountFits(p)'
    BY <1>1, OverFits
<1>6. ProjectsStay
    BY <1>1, ProjectsUnchanged
<1>7. "none" \notin Requests /\ "answered" \notin Requests
    BY DEF A!AccountsAssumption
<1>8. tab' = [tab EXCEPT ![t] = h]
    BY <1>3, <1>4 DEF A!Told
<1>9. /\ h \in Header /\ h.pending = shared /\ h.pushed = tab[t].pushed
      /\ h.account = (IF awaited THEN u ELSE tab[t].account)
      /\ h.awaits = (IF awaited THEN "none" ELSE tab[t].awaits)
      /\ h.checked = (tab[t].checked \/ awaited)
    BY <1>3, <1>4 DEF Header
<1> HIDE DEF h
<1>10. AccountKinds'
    BY <1>1, <1>4, <1>5, <1>6, <1>8, <1>9 DEF AccountsInv, AccountKinds, ProjectsStay
<1>11. ASSUME NEW s \in Tabs \ excused PROVE HeaderFits(s)'
  <2>1. HeaderFits(s)
    BY DEF AccountsInv
  <2>2. ASSUME NEW p \in Requests \ {q}
        PROVE  (Asks(p, s)' <=> Asks(p, s)) /\ (Tells(p)' <=> Tells(p))
    BY <1>1, <1>5 DEF Asks, Tells
  <2>3. CASE s # t
    <3>1. tab'[s] = tab[s]
      BY <1>4, <1>8, <2>3
    <3>2. tab[s].pending.of # q /\ tab[s].awaits # q
      BY <2>1, <2>3 DEF HeaderFits, Asks
    <3> QED BY <1>1, <2>1, <2>2, <3>1, <3>2 DEF HeaderFits
  <2>4. CASE s = t
    <3>1. tab'[s] = h
      BY <1>3, <1>4, <1>8, <2>4
    <3>2. answered => u = cookie
      BY <1>1, <2>1, <2>4 DEF HeaderFits, Tells
    <3>3. awaited /\ ~tab[t].pushed => u = cookie
      BY <1>1, <2>1, <2>4 DEF HeaderFits, Tells
    <3>4. /\ h.pending.of \in Requests => h.pending = tab[t].pending /\ h.pending.of # q
          /\ h.pending.of = "answered" => (answered /\ h.pending.gave = u) \/ h.pending = tab[t].pending
      BY <1>7, <1>9
    <3>5. /\ tab[s].pending.of \in Requests => Asks(tab[s].pending.of, s) /\ Tells(tab[s].pending.of)
          /\ tab[s].pending.of = "answered" => tab[s].pending.gave = cookie
          /\ tab[s].awaits \in Requests =>
                Asks(tab[s].awaits, s) /\ (~tab[s].pushed => Tells(tab[s].awaits))
      BY <2>1 DEF HeaderFits
    <3>6. h.awaits \in Requests => h.awaits = tab[s].awaits /\ h.awaits # q /\ h.pushed = tab[s].pushed
      BY <1>7, <1>9, <2>4
    <3>7. /\ \A p \in Requests : h.pending.of = p => Asks(p, s)' /\ Tells(p)'
          /\ h.pending.of = "answered" => h.pending.gave = cookie
      BY <2>2, <2>4, <3>2, <3>4, <3>5
    <3>8. \A p \in Requests : h.awaits = p => Asks(p, s)' /\ (~h.pushed => Tells(p)')
      BY <2>2, <3>5, <3>6
    <3>9. h.checked /\ h.awaits = "none" /\ ~h.pushed => h.account = cookie
      BY <1>9, <2>1, <2>4, <3>3 DEF HeaderFits
    <3> QED BY <1>1, <3>1, <3>7, <3>8, <3>9 DEF HeaderFits, Asks, Tells
  <2> QED BY <2>3, <2>4
<1> QED BY <1>1, <1>5, <1>6, <1>10, <1>11 DEF AccountsInv, ProjectsStay

LEMMA OverKeeps ==
    ASSUME AccountsInv, NEW q \in Requests, A!Over(q)
    PROVE  AccountsInv'
<1>1. A!Send(q, A!NoRequest) /\ UNCHANGED <<users, projects, acts, cookie, tab, excused>>
    BY DEF A!Over, A!service
<1>2. request[q].op # "me"
    BY AskedType DEF A!Over, RequestFits, StepsOf
<1>3. /\ request' \in [Requests -> Asked]
      /\ \A p \in Requests \ {q} : request'[p] = request[p]
      /\ \A p \in Requests : RequestFits(p)' /\ CountFits(p)'
    BY <1>1, OverFits
<1>4. ProjectsStay
    BY <1>1, ProjectsUnchanged
<1>5. AccountKinds'
    BY <1>1, <1>3, <1>4 DEF AccountsInv, AccountKinds, ProjectsStay
<1>6. ASSUME NEW s \in Tabs \ excused PROVE HeaderFits(s)'
  <2>1. HeaderFits(s) /\ tab[s].pending.of # q /\ tab[s].awaits # q
    BY <1>2 DEF AccountsInv, HeaderFits, Asks
  <2>2. ASSUME NEW p \in Requests \ {q}
        PROVE  (Asks(p, s)' <=> Asks(p, s)) /\ (Tells(p)' <=> Tells(p))
    BY <1>1, <1>3 DEF Asks, Tells
  <2> QED BY <1>1, <2>1, <2>2 DEF HeaderFits
<1> QED BY <1>1, <1>3, <1>4, <1>5, <1>6 DEF AccountsInv, ProjectsStay

LEMMA AccountsHold == A!AccountsAssumption => (A!Spec => []AccountsInv)
<1> SUFFICES ASSUME A!AccountsAssumption PROVE A!Spec => []AccountsInv
    OBVIOUS
<1>1. A!Init => AccountsInv
  <2> SUFFICES ASSUME A!Init PROVE AccountsInv
    OBVIOUS
  <2>1. /\ users \subseteq Users /\ cookie \in {"nobody"} \cup users /\ projects = {} /\ acts = 0
        /\ request = [q \in Requests |-> A!NoRequest] /\ tab = [t \in Tabs |-> A!FreshTab]
    BY DEF A!Init
  <2>2. A!NoRequest \in Asked /\ A!NoRequest.op = "none" /\ A!NoRequest.pc = "off"
    BY DEF A!NoRequest, Asked, AskPc, A!Account
  <2>3. A!FreshTab \in Header /\ A!FreshTab.pending.of = "none" /\ A!FreshTab.awaits = "none"
        /\ A!FreshTab.checked = FALSE
    BY DEF A!FreshTab, Header, A!Account
  <2>4. AccountKinds
    BY <2>1, <2>2, <2>3, FS_EmptySet DEF AccountKinds
  <2>5. ASSUME NEW q \in Requests PROVE RequestFits(q) /\ CountFits(q)
    BY <2>1, <2>2 DEF RequestFits, CountFits, StepsOf
  <2>6. ASSUME NEW t \in Tabs PROVE HeaderFits(t)
    BY <2>1, <2>3 DEF HeaderFits, A!AccountsAssumption
  <2>7. ASSUME NEW u \in A!Account PROVE Cardinality(Mine(u)) <= MaxProjects
    <3>1. Mine(u) = {}
      BY <2>1 DEF Mine
    <3> QED BY <3>1, FS_EmptySet DEF A!AccountsAssumption
  <2> QED BY <2>4, <2>5, <2>6, <2>7 DEF AccountsInv, ProjectsFit
<1>2. AccountsInv /\ [A!Next]_(A!vars) => AccountsInv'
  <2> SUFFICES ASSUME AccountsInv, [A!Next]_(A!vars) PROVE AccountsInv'
    OBVIOUS
  <2>1. CASE UNCHANGED A!vars
    <3>1. UNCHANGED <<users, owner, projects, cookie, request, tab, acts, excused>>
      BY <2>1 DEF A!vars, A!service
    <3>2. AccountKinds'
      BY <3>1 DEF AccountsInv, AccountKinds
    <3>3. ASSUME NEW q \in Requests PROVE RequestFits(q)' /\ CountFits(q)'
      <4>1. RequestFits(q) /\ CountFits(q)
        BY DEF AccountsInv
      <4>2. RequestFits(q)'
        BY <3>1, <4>1 DEF RequestFits
      <4>3. CountFits(q)'
        BY <3>1, <4>1 DEF CountFits
      <4> QED BY <4>2, <4>3
    <3>4. ProjectsFit'
      BY <3>1 DEF AccountsInv, ProjectsFit, Mine
    <3>5. ASSUME NEW t \in Tabs \ excused' PROVE HeaderFits(t)'
      <4>1. HeaderFits(t)
        BY <3>1 DEF AccountsInv
      <4> QED BY <3>1, <4>1 DEF HeaderFits, Asks, Tells
    <3> QED BY <3>2, <3>3, <3>4, <3>5 DEF AccountsInv
  <2>2. ASSUME NEW q \in Requests, A!Serve(q) PROVE AccountsInv'
    BY <2>2, GuardKeeps, SignUpKeeps, VerifyKeeps, AnswersKeep, CountKeeps, CommitKeeps, RemoveKeeps
       DEF A!Serve
  <2>3. ASSUME NEW q \in Requests, A!Deliver(q) PROVE AccountsInv'
    BY <2>3, SignedKeeps, ToldKeeps, OverKeeps DEF A!Deliver
  <2> QED BY <2>1, <2>2, <2>3, NavigateKeeps, ClicksKeep DEF A!Next
<1> QED BY <1>1, <1>2, PTL DEF A!Spec

\* No account has more projects than the limit, for any number of tabs that
\* save at the same moment (save() of projects.controller.ts): who is committed
\* has counted all there are, and found room.
THEOREM ProjectsAreLimited == A!AccountsAssumption => (A!Spec => []A!ProjectLimitHolds)
<1> SUFFICES ASSUME A!AccountsAssumption PROVE A!Spec => []A!ProjectLimitHolds
    OBVIOUS
<1>1. AccountsInv => A!ProjectLimitHolds
    BY AccountsCount DEF AccountsInv, ProjectsFit, Mine, A!ProjectLimitHolds, A!Account
<1> QED BY <1>1, AccountsHold, PTL

\* The header of a tab at rest shows whom the cookie says, for any number of
\* tabs and requests, except in a tab that another, an answer that failed or a
\* logout on the first page has left behind (currentAccount() of account.ts).
THEOREM HeadersFollow == A!AccountsAssumption => (A!Spec => []A!AccountIsShown)
<1> SUFFICES ASSUME A!AccountsAssumption PROVE A!Spec => []A!AccountIsShown
    OBVIOUS
<1>1. AccountsInv => A!AccountIsShown
    BY DEF AccountsInv, HeaderFits, A!AtRest, A!AccountIsShown
<1> QED BY <1>1, AccountsHold, PTL

-----------------------------------------------------------------------------
(***************************************************************************)
(* Rate limits: windows                                                    *)
(***************************************************************************)
LEMMA Division ==
    ASSUME NEW t \in Nat, NEW d \in Nat, d > 0
    PROVE  t \div d \in Nat /\ d * (t \div d) <= t /\ t < d * (t \div d) + d
    BY SMT

LEMMA Products ==
    ASSUME NEW d \in Nat, NEW v \in Nat, NEW w \in Nat, v > w
    PROVE  d * v >= d * w + d
    BY SMT

Width == 2 * WindowSeconds
Opens(w) == Width * w

LEMMA Constants ==
    ASSUME G!RateLimitsAssumption
    PROVE  /\ Width \in Nat /\ Width >= 2 /\ Width = 2 * WindowSeconds
           /\ MaxDelay \in Nat /\ MaxDelay <= Width
           /\ PerClient \in Nat /\ PerSession \in Nat /\ \A k : G!Limit(k) \in Nat
           /\ \A t : G!Window(t) = t \div Width
<1>1. WindowSeconds \in Nat /\ WindowSeconds > 0 /\ PerClient \in Nat /\ PerSession \in Nat
    BY DEF G!RateLimitsAssumption
<1>2. MaxDelay \in 0..(2 * WindowSeconds)
    BY DEF G!RateLimitsAssumption
<1> QED BY <1>1, <1>2 DEF Width, G!Limit, G!Window

\* A moment is in its window, and in no other.
LEMMA InItsWindow ==
    ASSUME G!RateLimitsAssumption, NEW t \in Nat
    PROVE  /\ G!Window(t) \in Nat /\ Opens(G!Window(t)) \in Nat
           /\ Opens(G!Window(t)) <= t /\ t < Opens(G!Window(t)) + Width
<1>1. t \div Width \in Nat /\ Width * (t \div Width) <= t /\ t < Width * (t \div Width) + Width
    BY Constants, Division
<1> QED BY <1>1, Constants DEF Opens

LEMMA InNoOther ==
    ASSUME G!RateLimitsAssumption, NEW t \in Nat, NEW w \in Nat,
           Opens(w) <= t, t < Opens(w) + Width
    PROVE  G!Window(t) = w
<1> DEFINE v == G!Window(t)
<1>1. v \in Nat /\ Opens(v) <= t /\ t < Opens(v) + Width
    BY InItsWindow
<1> HIDE DEF v
<1>2. Opens(v) \in Nat /\ Opens(w) \in Nat /\ Width \in Nat
    BY <1>1, Constants DEF Opens
<1>3. v > w => Opens(v) >= Opens(w) + Width
    BY <1>1, <1>2, Products DEF Opens
<1>4. w > v => Opens(w) >= Opens(v) + Width
    BY <1>1, <1>2, Products DEF Opens
<1>5. v = w
    BY <1>1, <1>2, <1>3, <1>4
<1> QED BY <1>5 DEF v

-----------------------------------------------------------------------------
(***************************************************************************)
(* Rate limits: the inductive invariant                                    *)
(***************************************************************************)
Arrival ==
    [session : Sessions, at : Nat, waits : SUBSET G!Keys, over : SUBSET G!Keys, failed : BOOLEAN]

\* A request waits for its own counters and is on its way for so long at most.
ArrivalFits(r) ==
    /\ r.waits \cup r.over \subseteq {"client", r.session}
    /\ r.at <= clock
    /\ r.waits # {} => clock - r.at <= MaxDelay

\* The requests of a key in a window: all, those counted, those let through.
Shares(k, w) ==
    {i \in DOMAIN arrivals :
        G!Window(arrivals[i].at) = w /\ k \in {"client", arrivals[i].session}}
Counted(k, w) == {i \in Shares(k, w) : k \notin arrivals[i].waits}
Passed(k, w) == {i \in Counted(k, w) : k \notin arrivals[i].over /\ ~arrivals[i].failed}

StillHeld(k, w) == IF <<k, w>> \in DOMAIN counters THEN counters[<<k, w>>].count ELSE 0

\* A counter has counted whoever was let through, and nobody who has not been
\* answered; and it is there as long as anybody may be.
CounterFits(k, w) ==
    /\ StillHeld(k, w) \in Nat
    /\ Cardinality(Passed(k, w)) <= StillHeld(k, w)
    /\ Cardinality(Passed(k, w)) <= G!Limit(k)
    /\ StillHeld(k, w) <= Cardinality(Counted(k, w))
    /\ <<k, w>> \in DOMAIN counters =>
          /\ counters[<<k, w>>].expires \in Nat
          /\ counters[<<k, w>>].expires >= Opens(w) + 2 * Width

\* Who is over a limit shares the window with more than that.
OverIsOver ==
    \A i \in DOMAIN arrivals : \A k \in arrivals[i].over :
        Cardinality(Shares(k, G!Window(arrivals[i].at))) > G!Limit(k)

LimitsInv ==
    /\ clock \in Nat /\ arrivals \in Seq(Arrival)
    /\ \A i \in DOMAIN arrivals : ArrivalFits(arrivals[i])
    /\ \A k \in G!Keys, w \in Nat : CounterFits(k, w)
    /\ OverIsOver

\* What is not touched fits as before.
LEMMA CountersStand ==
    ASSUME UNCHANGED <<counters, arrivals>>, NEW k, NEW w, CounterFits(k, w)
    PROVE  CounterFits(k, w)'
<1>1. StillHeld(k, w)' = StillHeld(k, w)
    BY DEF StillHeld
<1>2. Shares(k, w)' = Shares(k, w)
    BY DEF Shares, G!Window
<1>3. Counted(k, w)' = Counted(k, w)
    BY <1>2 DEF Counted
<1>4. Passed(k, w)' = Passed(k, w)
    BY <1>3 DEF Passed
<1>5. /\ (Cardinality(Passed(k, w)))' = Cardinality(Passed(k, w))
      /\ (Cardinality(Counted(k, w)))' = Cardinality(Counted(k, w))
    BY <1>3, <1>4
<1> QED BY <1>1, <1>5 DEF CounterFits, G!Limit

LEMMA LimitsCount == \A S : G!Cardinality(S) = Cardinality(S)
    BY DEF G!Cardinality, Cardinality

LEMMA SharesAreFinite ==
    ASSUME arrivals \in Seq(Arrival), NEW k, NEW w
    PROVE  /\ IsFiniteSet(Shares(k, w)) /\ IsFiniteSet(Counted(k, w)) /\ IsFiniteSet(Passed(k, w))
           /\ Cardinality(Shares(k, w)) \in Nat /\ Cardinality(Counted(k, w)) \in Nat
           /\ Cardinality(Passed(k, w)) \in Nat
           /\ Cardinality(Counted(k, w)) <= Cardinality(Shares(k, w))
           /\ Cardinality(Passed(k, w)) <= Cardinality(Counted(k, w))
<1>1. DOMAIN arrivals = 1..Len(arrivals) /\ Len(arrivals) \in Nat
    OBVIOUS
<1>2. IsFiniteSet(1..Len(arrivals))
    BY <1>1, FS_Interval
<1>3. /\ Shares(k, w) \subseteq 1..Len(arrivals) /\ Counted(k, w) \subseteq Shares(k, w)
      /\ Passed(k, w) \subseteq Counted(k, w)
    BY <1>1 DEF Shares, Counted, Passed
<1>4. IsFiniteSet(Shares(k, w))
    BY <1>2, <1>3, FS_Subset
<1>5. IsFiniteSet(Counted(k, w)) /\ Cardinality(Counted(k, w)) <= Cardinality(Shares(k, w))
    BY <1>3, <1>4, FS_Subset
<1>6. IsFiniteSet(Passed(k, w)) /\ Cardinality(Passed(k, w)) <= Cardinality(Counted(k, w))
    BY <1>3, <1>5, FS_Subset
<1> QED BY <1>4, <1>5, <1>6, FS_CardinalityType

\* A counter does not expire before the last request of its window.
LEMMA CounterIsThere ==
    ASSUME G!RateLimitsAssumption, LimitsInv, NEW i \in DOMAIN arrivals,
           NEW k \in arrivals[i].waits
    PROVE  LET w == G!Window(arrivals[i].at) IN
           /\ k \in G!Keys /\ w \in Nat /\ i \in Shares(k, w) /\ i \notin Counted(k, w)
           /\ G!Count(arrivals[i], k) = StillHeld(k, w)
           /\ clock \in Nat /\ clock + 2 * Width >= Opens(w) + 2 * Width
<1> DEFINE r == arrivals[i]
           w == G!Window(r.at)
<1>1. r \in Arrival /\ ArrivalFits(r) /\ clock \in Nat
    BY DEF LimitsInv
<1>2. r.at \in Nat /\ k \in G!Keys /\ k \in {"client", r.session}
    BY <1>1 DEF Arrival, ArrivalFits
<1>3. /\ w \in Nat /\ Opens(w) \in Nat /\ Opens(w) <= r.at /\ r.at < Opens(w) + Width
    BY <1>2, InItsWindow
<1>4. r.at <= clock /\ clock - r.at <= MaxDelay
    BY <1>1 DEF ArrivalFits
<1>5. clock < Opens(w) + 2 * Width /\ clock + 2 * Width >= Opens(w) + 2 * Width
    BY <1>1, <1>2, <1>3, <1>4, Constants
<1>6. i \in Shares(k, w) /\ i \notin Counted(k, w)
    BY <1>2 DEF Shares, Counted
<1>7. CounterFits(k, w)
    BY <1>2, <1>3 DEF LimitsInv
<1>8. <<k, w>> \in DOMAIN counters => clock < counters[<<k, w>>].expires
    BY <1>1, <1>3, <1>5, <1>7, Constants DEF CounterFits
<1>9. G!Count(r, k) = StillHeld(k, w)
    BY <1>8 DEF G!Count, G!Counter, StillHeld
<1> QED BY <1>1, <1>2, <1>3, <1>5, <1>6, <1>9

\* What a counter says after a request was counted, or not.
CountsOn(k, w) ==
    /\ StillHeld(k, w)' = StillHeld(k, w) + 1
    /\ <<k, w>> \in DOMAIN counters' /\ counters'[<<k, w>>].expires = clock + 2 * Width
StaysAsItIs(k, w) ==
    /\ StillHeld(k, w)' = StillHeld(k, w)
    /\ <<k, w>> \in DOMAIN counters' <=> <<k, w>> \in DOMAIN counters
    /\ <<k, w>> \in DOMAIN counters => counters'[<<k, w>>] = counters[<<k, w>>]
OthersStay(k, w) == \A j \in G!Keys, v \in Nat : <<j, v>> # <<k, w>> => StaysAsItIs(j, v)

LEMMA IncrementCounts ==
    ASSUME G!RateLimitsAssumption, LimitsInv, NEW i \in DOMAIN arrivals,
           NEW k \in arrivals[i].waits, NEW w \in Nat, w = G!Window(arrivals[i].at),
           G!Increment(arrivals[i], k)
    PROVE  CountsOn(k, w) /\ OthersStay(k, w)
<1> DEFINE n == [count |-> StillHeld(k, w) + 1, expires |-> clock + 2 * Width]
<1>1. G!Count(arrivals[i], k) = StillHeld(k, w) /\ clock \in Nat
    BY CounterIsThere
<1>2. clock + 4 * WindowSeconds = clock + 2 * Width
    BY <1>1, Constants DEF G!RateLimitsAssumption
<1>3. counters' = [j \in DOMAIN counters \cup {<<k, w>>} |-> IF j = <<k, w>> THEN n ELSE counters[j]]
    BY <1>1, <1>2 DEF G!Increment, G!Counter
<1>4. counters'[<<k, w>>] = n /\ <<k, w>> \in DOMAIN counters'
    BY <1>3
<1>5. CountsOn(k, w)
  <2>1. StillHeld(k, w)' = n.count /\ n.count = StillHeld(k, w) + 1 /\ n.expires = clock + 2 * Width
    BY <1>4 DEF StillHeld
  <2> QED BY <1>4, <2>1 DEF CountsOn
<1>6. ASSUME NEW j \in G!Keys, NEW v \in Nat, <<j, v>> # <<k, w>> PROVE StaysAsItIs(j, v)
    BY <1>3, <1>6 DEF StaysAsItIs, StillHeld
<1> QED BY <1>5, <1>6 DEF OthersStay

\* A request has the answer of one counter: it was counted or not, it is over
\* the limit, or Redis has failed.
LEMMA AnswerKeeps ==
    ASSUME G!RateLimitsAssumption, LimitsInv, NEW i \in DOMAIN arrivals,
           NEW k \in arrivals[i].waits, NEW w \in Nat, w = G!Window(arrivals[i].at),
           NEW over \in SUBSET G!Keys, NEW failed \in BOOLEAN,
           arrivals' = [arrivals EXCEPT ![i] =
               [arrivals[i] EXCEPT !.waits = @ \ {k}, !.over = over, !.failed = failed]],
           OthersStay(k, w), CountsOn(k, w) \/ StaysAsItIs(k, w),
           over = arrivals[i].over \/ (over = arrivals[i].over \cup {k} /\ StillHeld(k, w) + 1 > G!Limit(k)),
           arrivals[i].failed => failed,
           failed \/ k \in over \/ (CountsOn(k, w) /\ StillHeld(k, w) + 1 <= G!Limit(k)),
           clock' = clock
    PROVE  LimitsInv'
<1> DEFINE r == arrivals[i]
           r2 == [r EXCEPT !.waits = r.waits \ {k}, !.over = over, !.failed = failed]
<1>1. r \in Arrival /\ arrivals \in Seq(Arrival) /\ ArrivalFits(r) /\ clock \in Nat
    BY DEF LimitsInv
<1>2. /\ r2 \in Arrival /\ r2.session = r.session /\ r2.at = r.at /\ r2.waits = r.waits \ {k}
      /\ r2.over = over /\ r2.failed = failed
    BY <1>1 DEF Arrival
<1>3. arrivals' = [arrivals EXCEPT ![i] = r2]
    OBVIOUS
<1>4. /\ k \in G!Keys /\ i \in Shares(k, w) /\ i \notin Counted(k, w)
      /\ clock + 2 * Width >= Opens(w) + 2 * Width
    BY CounterIsThere
<1> HIDE DEF r2
<1>5. /\ arrivals' \in Seq(Arrival) /\ DOMAIN arrivals' = DOMAIN arrivals /\ arrivals'[i] = r2
      /\ \A j \in DOMAIN arrivals : j # i => arrivals'[j] = arrivals[j]
    BY <1>1, <1>2, <1>3
<1>6. \A j \in DOMAIN arrivals' : ArrivalFits(arrivals[j])'
  <2>1. k \in {"client", r.session}
    BY <1>1 DEF ArrivalFits
  <2>2. r2.waits \cup r2.over \subseteq {"client", r2.session}
    BY <1>1, <1>2, <2>1 DEF ArrivalFits
  <2> QED BY <1>1, <1>2, <1>5, <2>2 DEF LimitsInv, ArrivalFits
<1>7. ASSUME NEW j \in G!Keys, NEW v \in Nat PROVE Shares(j, v)' = Shares(j, v)
    BY <1>2, <1>5 DEF Shares, G!Window
<1>8. ASSUME NEW j \in G!Keys, NEW v \in Nat, <<j, v>> # <<k, w>> PROVE CounterFits(j, v)'
  <2>1. Counted(j, v)' = Counted(j, v)
    BY <1>2, <1>5, <1>7, <1>8 DEF Counted, Shares
  <2>2. Passed(j, v)' \subseteq Passed(j, v)
    BY <1>2, <1>5, <1>8, <2>1 DEF Passed
  <2>3. Cardinality(Passed(j, v)') <= Cardinality(Passed(j, v)) /\ Cardinality(Passed(j, v)') \in Nat
    BY <1>1, <2>2, SharesAreFinite, FS_Subset, FS_CardinalityType
  <2>4. CounterFits(j, v) /\ StaysAsItIs(j, v) /\ Cardinality(Passed(j, v)) \in Nat
    BY <1>1, <1>8, SharesAreFinite DEF LimitsInv, OthersStay
  <2>5. G!Limit(j) \in Nat /\ Opens(v) \in Nat
    BY Constants DEF Opens
  <2> QED BY <2>1, <2>3, <2>4, <2>5 DEF CounterFits, StaysAsItIs
<1>9. Counted(k, w)' = Counted(k, w) \cup {i}
    BY <1>2, <1>4, <1>5, <1>7 DEF Counted
<1>10. /\ Cardinality(Counted(k, w)') = Cardinality(Counted(k, w)) + 1
       /\ Cardinality(Counted(k, w)') <= Cardinality(Shares(k, w))
       /\ Cardinality(Counted(k, w)') \in Nat
  <2>1. Counted(k, w) \cup {i} \subseteq Shares(k, w)
    BY <1>4 DEF Counted
  <2>2. /\ IsFiniteSet(Counted(k, w)) /\ Cardinality(Counted(k, w)) \in Nat
        /\ IsFiniteSet(Shares(k, w))
    BY <1>1, SharesAreFinite
  <2>3. Cardinality(Counted(k, w) \cup {i}) = Cardinality(Counted(k, w)) + 1
    BY <1>4, <2>2, FS_AddElement
  <2>4. Cardinality(Counted(k, w) \cup {i}) <= Cardinality(Shares(k, w))
    BY <2>1, <2>2, FS_Subset
  <2> QED BY <1>9, <2>2, <2>3, <2>4
<1>11. CounterFits(k, w) /\ G!Limit(k) \in Nat
    BY <1>4, Constants DEF LimitsInv
<1>12. CounterFits(k, w)'
  <2>1. StillHeld(k, w) \in Nat /\ Cardinality(Counted(k, w)) \in Nat /\ Cardinality(Passed(k, w)) \in Nat
    BY <1>1, <1>11, SharesAreFinite DEF CounterFits
  <2>2. \/ /\ Cardinality(Passed(k, w)') <= Cardinality(Passed(k, w))
           /\ Cardinality(Passed(k, w)') \in Nat
        \/ /\ Cardinality(Passed(k, w)') = Cardinality(Passed(k, w)) + 1
           /\ CountsOn(k, w) /\ StillHeld(k, w) + 1 <= G!Limit(k)
    <3>1. CASE failed \/ k \in over
      <4>1. i \notin Passed(k, w)'
        BY <1>2, <1>5, <3>1 DEF Passed
      <4>2. ASSUME NEW j \in Passed(k, w)' PROVE j \in Passed(k, w)
        BY <1>5, <1>9, <4>1 DEF Passed, Counted, Shares
      <4>3. Passed(k, w)' \subseteq Passed(k, w)
        BY <4>2
      <4> QED BY <1>1, <4>3, SharesAreFinite, FS_Subset, FS_CardinalityType
    <3>2. CASE ~failed /\ k \notin over
      <4>1. Passed(k, w)' = Passed(k, w) \cup {i}
        BY <1>2, <1>4, <1>5, <1>7, <3>2 DEF Passed, Counted
      <4>2. i \notin Passed(k, w)
        BY <1>4 DEF Passed
      <4>3. IsFiniteSet(Passed(k, w))
        BY <1>1, SharesAreFinite
      <4>4. Cardinality(Passed(k, w) \cup {i}) = Cardinality(Passed(k, w)) + 1
        BY <4>2, <4>3, FS_AddElement
      <4> QED BY <3>2, <4>1, <4>4
    <3> QED BY <3>1, <3>2
  <2>3. Opens(w) \in Nat /\ Width \in Nat
    BY Constants DEF Opens
  <2>4. CASE CountsOn(k, w)
    <3>1. /\ StillHeld(k, w)' = StillHeld(k, w) + 1 /\ <<k, w>> \in DOMAIN counters'
          /\ counters'[<<k, w>>].expires = clock + 2 * Width
      BY <2>4 DEF CountsOn
    <3>2. /\ counters'[<<k, w>>].expires \in Nat
          /\ counters'[<<k, w>>].expires >= Opens(w) + 2 * Width
      BY <1>1, <1>4, <2>3, <3>1
    <3>3. /\ Cardinality(Passed(k, w)') <= StillHeld(k, w) + 1
          /\ Cardinality(Passed(k, w)') <= G!Limit(k)
          /\ StillHeld(k, w) + 1 <= Cardinality(Counted(k, w)')
      BY <1>10, <1>11, <2>1, <2>2 DEF CounterFits
    <3> QED BY <2>1, <3>1, <3>2, <3>3 DEF CounterFits, G!Limit
  <2>5. CASE StaysAsItIs(k, w) /\ ~CountsOn(k, w)
    <3>1. /\ Cardinality(Passed(k, w)') <= StillHeld(k, w)
          /\ Cardinality(Passed(k, w)') <= G!Limit(k)
          /\ StillHeld(k, w) <= Cardinality(Counted(k, w)')
      BY <1>10, <1>11, <2>1, <2>2, <2>5 DEF CounterFits
    <3> QED BY <1>11, <2>5, <3>1 DEF CounterFits, StaysAsItIs, G!Limit
  <2> QED BY <2>4, <2>5
<1>13. OverIsOver'
  <2> SUFFICES ASSUME NEW j \in DOMAIN arrivals, NEW l \in arrivals'[j].over
               PROVE  Cardinality(Shares(l, G!Window(arrivals[j].at)))' > G!Limit(l)
    BY <1>5 DEF OverIsOver, G!Limit
  <2>1. PICK v \in Nat : v = G!Window(arrivals[j].at) /\ v = G!Window(arrivals[j].at)'
    <3>1. arrivals[j] \in Arrival /\ arrivals'[j].at = arrivals[j].at
      BY <1>2, <1>5 DEF LimitsInv
    <3> QED BY <3>1, InItsWindow DEF Arrival, G!Window
  <2>2. l \in G!Keys
    <3>1. arrivals'[j] \in Arrival
      BY <1>5
    <3> QED BY <3>1 DEF Arrival
  <2>3. Shares(l, v)' = Shares(l, v)
    BY <1>7, <2>2
  <2>6. Shares(l, G!Window(arrivals[j].at))' = Shares(l, v)
    <3>1. Shares(l, G!Window(arrivals[j].at))' = Shares(l, v)'
      BY <2>1 DEF Shares
    <3> QED BY <2>3, <3>1
  <2>4. CASE l \in arrivals[j].over
    <3>1. Cardinality(Shares(l, v)) > G!Limit(l)
      BY <2>1, <2>4 DEF LimitsInv, OverIsOver
    <3> QED BY <2>6, <3>1
  <2>5. CASE l \notin arrivals[j].over
    <3>1. j = i /\ l = k /\ StillHeld(k, w) + 1 > G!Limit(k)
      BY <1>2, <1>5, <2>5
    <3>2. Cardinality(Shares(k, w)) > G!Limit(k)
      BY <1>1, <1>10, <1>11, <3>1, SharesAreFinite DEF CounterFits
    <3> QED BY <2>1, <2>3, <3>1, <3>2 DEF Shares
  <2> QED BY <2>4, <2>5
<1> QED BY <1>1, <1>5, <1>6, <1>8, <1>12, <1>13 DEF LimitsInv

LEMMA HitsKeep ==
    ASSUME G!RateLimitsAssumption, LimitsInv, NEW i \in DOMAIN arrivals, NEW k \in G!Keys,
           G!Hit(i, k) \/ G!Fail(i, k)
    PROVE  LimitsInv'
<1>1. k \in arrivals[i].waits /\ clock' = clock
    BY DEF G!Hit, G!Fail
<1>2. arrivals[i] \in Arrival /\ arrivals \in Seq(Arrival)
    BY DEF LimitsInv
<1>3. PICK w \in Nat : w = G!Window(arrivals[i].at)
    BY <1>2, InItsWindow DEF Arrival
<1>4. /\ arrivals[i].over \in SUBSET G!Keys /\ arrivals[i].over \cup {k} \in SUBSET G!Keys
      /\ arrivals[i].failed \in BOOLEAN
    BY <1>2 DEF Arrival
<1>5. G!Count(arrivals[i], k) = StillHeld(k, w) /\ StillHeld(k, w) \in Nat /\ G!Limit(k) \in Nat
    BY <1>1, <1>3, CounterIsThere, Constants DEF LimitsInv, CounterFits
<1>6. ASSUME G!Increment(arrivals[i], k)
      PROVE  CountsOn(k, w) /\ OthersStay(k, w)
    BY <1>1, <1>3, <1>6, IncrementCounts
<1>7. ASSUME UNCHANGED counters PROVE StaysAsItIs(k, w) /\ OthersStay(k, w)
    BY <1>7 DEF StaysAsItIs, OthersStay, StillHeld
<1>8. CASE G!Hit(i, k)
  <2> DEFINE over == IF StillHeld(k, w) + 1 <= G!Limit(k) THEN arrivals[i].over
                                                     ELSE arrivals[i].over \cup {k}
  <2>1. arrivals' = [arrivals EXCEPT ![i] =
           [arrivals[i] EXCEPT !.waits = @ \ {k}, !.over = over, !.failed = arrivals[i].failed]]
    BY <1>2, <1>5, <1>8 DEF G!Hit, Arrival
  <2>2. over \in SUBSET G!Keys /\ G!Increment(arrivals[i], k)
    BY <1>4, <1>8 DEF G!Hit
  <2>3. PICK o \in SUBSET G!Keys : o = over
    BY <2>2
  <2>4. PICK f \in BOOLEAN : f = arrivals[i].failed
    BY <1>4
  <2>5. arrivals' = [arrivals EXCEPT ![i] =
           [arrivals[i] EXCEPT !.waits = @ \ {k}, !.over = o, !.failed = f]]
    BY <2>1, <2>3, <2>4
  <2>6. /\ o = arrivals[i].over \/ (o = arrivals[i].over \cup {k} /\ StillHeld(k, w) + 1 > G!Limit(k))
        /\ k \in o \/ StillHeld(k, w) + 1 <= G!Limit(k)
    BY <1>5, <2>3
  <2>7. CountsOn(k, w) /\ OthersStay(k, w)
    BY <1>6, <2>2
  <2>8. /\ arrivals[i].failed => f
        /\ f \/ k \in o \/ (CountsOn(k, w) /\ StillHeld(k, w) + 1 <= G!Limit(k))
    BY <2>4, <2>6, <2>7
  <2> QED BY <1>1, <1>3, <2>5, <2>6, <2>7, <2>8, AnswerKeeps
<1>9. CASE G!Fail(i, k)
  <2>1. PICK o \in SUBSET G!Keys : o = arrivals[i].over
    BY <1>4
  <2>2. arrivals' = [arrivals EXCEPT ![i] =
           [arrivals[i] EXCEPT !.waits = @ \ {k}, !.over = o, !.failed = TRUE]]
    BY <1>2, <1>9, <2>1 DEF G!Fail, Arrival
  <2>3. OthersStay(k, w) /\ (CountsOn(k, w) \/ StaysAsItIs(k, w))
    BY <1>6, <1>7, <1>9 DEF G!Fail
  <2> QED BY <1>1, <1>3, <2>1, <2>2, <2>3, AnswerKeeps
<1> QED BY <1>8, <1>9

LEMMA ArriveKeeps ==
    ASSUME G!RateLimitsAssumption, LimitsInv, NEW s \in Sessions, G!Arrive(s)
    PROVE  LimitsInv'
<1> DEFINE r == [session |-> s, at |-> clock, waits |-> {"client", s}, over |-> {}, failed |-> FALSE]
           n == Len(arrivals) + 1
<1>1. /\ arrivals \in Seq(Arrival) /\ clock \in Nat /\ Len(arrivals) \in Nat
      /\ DOMAIN arrivals = 1..Len(arrivals)
    BY DEF LimitsInv
<1>2. r \in Arrival
    BY <1>1 DEF Arrival, G!Keys
<1>3. arrivals' = Append(arrivals, r) /\ clock' = clock /\ counters' = counters
    BY DEF G!Arrive
<1>4. r.waits = {"client", s} /\ r.over = {} /\ r.at = clock /\ r.session = s
    OBVIOUS
<1> HIDE DEF r
<1>5. /\ arrivals' \in Seq(Arrival) /\ DOMAIN arrivals' = 1..n
      /\ arrivals'[n] = r /\ \A i \in DOMAIN arrivals : arrivals'[i] = arrivals[i]
    BY <1>1, <1>2, <1>3
<1>6. ASSUME NEW i \in DOMAIN arrivals' PROVE ArrivalFits(arrivals[i])'
  <2>1. CASE i \in DOMAIN arrivals
    BY <1>3, <1>5, <2>1 DEF LimitsInv, ArrivalFits
  <2>2. CASE i \notin DOMAIN arrivals
    <3>1. arrivals'[i] = r
      BY <1>1, <1>5, <2>2
    <3> QED BY <1>1, <1>3, <1>4, <3>1, Constants DEF ArrivalFits
  <2> QED BY <2>1, <2>2
<1>7. ASSUME NEW k, NEW w
      PROVE  /\ Shares(k, w) \subseteq Shares(k, w)'
             /\ Counted(k, w)' = Counted(k, w) /\ Passed(k, w)' = Passed(k, w)
  <2>1. Shares(k, w) \subseteq Shares(k, w)'
    BY <1>1, <1>5 DEF Shares, G!Window
  <2>2. n \notin Counted(k, w)'
    BY <1>4, <1>5 DEF Counted, Shares
  <2>3. Counted(k, w)' = Counted(k, w)
    BY <1>1, <1>5, <2>2 DEF Counted, Shares, G!Window
  <2> QED BY <1>5, <2>1, <2>3 DEF Passed, Counted, Shares
<1>8. ASSUME NEW k \in G!Keys, NEW w \in Nat PROVE CounterFits(k, w)'
    BY <1>3, <1>7 DEF LimitsInv, CounterFits, StillHeld, G!Limit
<1>9. OverIsOver'
  <2> SUFFICES ASSUME NEW i \in DOMAIN arrivals', NEW k \in arrivals'[i].over
               PROVE  Cardinality(Shares(k, G!Window(arrivals[i].at)))' > G!Limit(k)
    BY DEF OverIsOver, G!Limit
  <2>1. i \in DOMAIN arrivals /\ arrivals'[i] = arrivals[i]
    BY <1>1, <1>4, <1>5
  <2>2. PICK v \in Nat : v = G!Window(arrivals[i].at) /\ v = G!Window(arrivals[i].at)'
    <3>1. arrivals[i] \in Arrival
      BY <1>1, <2>1
    <3> QED BY <2>1, <3>1, InItsWindow DEF Arrival, G!Window
  <2>3. Cardinality(Shares(k, v)) > G!Limit(k)
    BY <2>1, <2>2 DEF LimitsInv, OverIsOver
  <2>4. IsFiniteSet(Shares(k, v)')
    <3>1. Shares(k, v)' \subseteq 1..n
      BY <1>5 DEF Shares
    <3>2. IsFiniteSet(1..n)
      BY <1>1, FS_Interval
    <3> QED BY <3>1, <3>2, FS_Subset
  <2>5. Cardinality(Shares(k, v)) <= Cardinality(Shares(k, v)')
    BY <1>7, <2>4, FS_Subset
  <2>6. Cardinality(Shares(k, v)) \in Nat /\ Cardinality(Shares(k, v)') \in Nat /\ G!Limit(k) \in Nat
    BY <1>1, <2>4, SharesAreFinite, FS_CardinalityType, Constants
  <2>7. Cardinality(Shares(k, v)') > G!Limit(k)
    BY <2>3, <2>5, <2>6
  <2> QED BY <2>2, <2>7 DEF Shares
<1> QED BY <1>1, <1>3, <1>5, <1>6, <1>8, <1>9 DEF LimitsInv

LEMMA TickKeeps ==
    ASSUME G!RateLimitsAssumption, LimitsInv, G!Tick
    PROVE  LimitsInv'
<1>1. clock' = clock + 1 /\ clock \in Nat /\ UNCHANGED <<counters, arrivals>>
    BY DEF G!Tick, LimitsInv
<1>2. ASSUME NEW i \in DOMAIN arrivals PROVE ArrivalFits(arrivals[i])'
  <2>1. arrivals[i] \in Arrival /\ ArrivalFits(arrivals[i])
    BY DEF LimitsInv
  <2>2. arrivals[i].at \in Nat
    BY <2>1 DEF Arrival
  <2>3. arrivals[i].waits # {} => clock - arrivals[i].at < MaxDelay
    BY DEF G!Tick
  <2> QED BY <1>1, <2>1, <2>2, <2>3, Constants DEF ArrivalFits
<1>3. OverIsOver'
    BY <1>1 DEF LimitsInv, OverIsOver, Shares, G!Limit, G!Window
<1>4. ASSUME NEW k \in G!Keys, NEW w \in Nat PROVE CounterFits(k, w)'
    BY <1>1, CountersStand DEF LimitsInv
<1> QED BY <1>1, <1>2, <1>3, <1>4 DEF LimitsInv

LEMMA LimitsInvHolds == G!RateLimitsAssumption => (G!Spec => []LimitsInv)
<1> SUFFICES ASSUME G!RateLimitsAssumption PROVE G!Spec => []LimitsInv
    OBVIOUS
<1>1. G!Init => LimitsInv
  <2> SUFFICES ASSUME G!Init PROVE LimitsInv
    OBVIOUS
  <2>1. clock = 0 /\ counters = <<>> /\ arrivals = <<>> /\ DOMAIN arrivals = {} /\ DOMAIN counters = {}
    BY DEF G!Init
  <2>2. ASSUME NEW k \in G!Keys, NEW w \in Nat PROVE CounterFits(k, w)
    <3>1. Counted(k, w) = {} /\ Passed(k, w) = {} /\ StillHeld(k, w) = 0
      BY <2>1 DEF Passed, Counted, Shares, StillHeld
    <3>2. Cardinality(Counted(k, w)) = 0 /\ Cardinality(Passed(k, w)) = 0
      BY <3>1, FS_EmptySet
    <3> QED BY <2>1, <3>1, <3>2, Constants DEF CounterFits
  <2> QED BY <2>1, <2>2 DEF LimitsInv, OverIsOver
<1>2. LimitsInv /\ [G!Next]_(G!vars) => LimitsInv'
  <2> SUFFICES ASSUME LimitsInv, [G!Next]_(G!vars) PROVE LimitsInv'
    OBVIOUS
  <2>1. CASE UNCHANGED G!vars
    <3>1. UNCHANGED <<clock, counters, arrivals>>
      BY <2>1 DEF G!vars
    <3>2. ASSUME NEW k \in G!Keys, NEW w \in Nat PROVE CounterFits(k, w)'
      BY <3>1, CountersStand DEF LimitsInv
    <3>3. OverIsOver'
      BY <3>1 DEF LimitsInv, OverIsOver, Shares, G!Limit, G!Window
    <3> QED BY <3>1, <3>2, <3>3 DEF LimitsInv, ArrivalFits
  <2> QED BY <2>1, HitsKeep, ArriveKeeps, TickKeeps DEF G!Next
<1> QED BY <1>1, <1>2, PTL DEF G!Spec

\* No window lets more requests of a client or of a session through than its
\* limit, for any number of requests, instances and failures of Redis, however
\* late they are counted (hit() of rate-limiter.ts).
THEOREM WindowsAreLimited == G!RateLimitsAssumption => (G!Spec => []G!LimitsHold)
<1> SUFFICES ASSUME G!RateLimitsAssumption PROVE G!Spec => []G!LimitsHold
    OBVIOUS
<1>1. LimitsInv => G!LimitsHold
  <2> SUFFICES ASSUME LimitsInv, NEW i \in DOMAIN arrivals, NEW k \in {"client", arrivals[i].session}
               PROVE  Cardinality({j \in G!SameWindow(arrivals[i], k) :
                                      G!Outcome(arrivals[j]) = "allowed"}) <= G!Limit(k)
    BY LimitsCount DEF G!LimitsHold
  <2> DEFINE w == G!Window(arrivals[i].at)
             allowed == {j \in G!SameWindow(arrivals[i], k) : G!Outcome(arrivals[j]) = "allowed"}
  <2>1. arrivals \in Seq(Arrival) /\ arrivals[i] \in Arrival
    BY DEF LimitsInv
  <2>2. k \in G!Keys /\ w \in Nat
    BY <2>1, InItsWindow DEF Arrival, G!Keys
  <2>3. allowed \subseteq Passed(k, w)
    BY DEF G!SameWindow, G!Outcome, Passed, Counted, Shares
  <2>4. /\ IsFiniteSet(Passed(k, w)) /\ Cardinality(Passed(k, w)) \in Nat
        /\ Cardinality(Passed(k, w)) <= G!Limit(k) /\ G!Limit(k) \in Nat
    BY <2>1, <2>2, SharesAreFinite, Constants DEF LimitsInv, CounterFits
  <2>5. Cardinality(allowed) <= Cardinality(Passed(k, w)) /\ Cardinality(allowed) \in Nat
    BY <2>3, <2>4, FS_Subset, FS_CardinalityType
  <2> QED BY <2>4, <2>5
<1> QED BY <1>1, LimitsInvHolds, PTL

\* Who waits as long as the answer says is in the next window.
LEMMA NextWindow ==
    ASSUME G!RateLimitsAssumption, NEW t \in Nat
    PROVE  G!Window(t + 2 * G!RetryAfter(t)) = G!Window(t) + 1
<1> DEFINE w == G!Window(t)
           left == Opens(w) + Width - t
           half == (left + 1) \div 2
<1>1. /\ w \in Nat /\ Opens(w) \in Nat /\ Width \in Nat /\ Width >= 2
      /\ Opens(w) <= t /\ t < Opens(w) + Width
    BY InItsWindow, Constants
<1>2. left \in Nat /\ left >= 1 /\ (w + 1) * 2 * WindowSeconds - t = left
  <2>1. (w + 1) * 2 * WindowSeconds = Opens(w) + Width
    BY <1>1, Constants DEF Opens, G!RateLimitsAssumption
  <2> QED BY <1>1, <2>1
<1> HIDE DEF w
<1>3. half \in Nat /\ half >= 1 /\ 2 * half \in {left, left + 1}
    BY <1>2
<1>4. G!RetryAfter(t) = half
  <2>1. G!RetryAfter(t) = G!Max({1, half})
    BY <1>2 DEF G!RetryAfter, w
  <2>2. G!Max({1, half}) = half
    BY <1>3 DEF G!Max
  <2> QED BY <2>1, <2>2
<1>5. Opens(w + 1) = Opens(w) + Width
    BY <1>1 DEF Opens
<1>6. /\ t + 2 * half \in Nat /\ Opens(w + 1) <= t + 2 * half
      /\ t + 2 * half < Opens(w + 1) + Width
    BY <1>1, <1>2, <1>3, <1>5
<1>7. G!Window(t + 2 * half) = w + 1
    BY <1>1, <1>6, InNoOther
<1> QED BY <1>4, <1>7 DEF w

\* A request is refused for those of its own window, and who waits as long as
\* the answer says is in the next one (retryAfter of rate-limiter.ts).
THEOREM RefusalsAreShort == G!RateLimitsAssumption => (G!Spec => []G!RefusalsEnd)
<1> SUFFICES ASSUME G!RateLimitsAssumption PROVE G!Spec => []G!RefusalsEnd
    OBVIOUS
<1>1. LimitsInv => G!RefusalsEnd
  <2> SUFFICES ASSUME LimitsInv, NEW i \in DOMAIN arrivals, G!Outcome(arrivals[i]) = "denied"
               PROVE  /\ \E k \in {"client", arrivals[i].session} :
                            Cardinality(G!SameWindow(arrivals[i], k)) > G!Limit(k)
                      /\ G!Window(arrivals[i].at + 2 * G!RetryAfter(arrivals[i].at))
                            = G!Window(arrivals[i].at) + 1
    BY LimitsCount DEF G!RefusalsEnd
  <2>1. arrivals[i] \in Arrival /\ ArrivalFits(arrivals[i]) /\ arrivals[i].at \in Nat
    <3>1. arrivals[i] \in Arrival /\ ArrivalFits(arrivals[i])
      BY DEF LimitsInv
    <3> QED BY <3>1 DEF Arrival
  <2>2. PICK k \in arrivals[i].over : TRUE
    BY DEF G!Outcome
  <2>3. k \in {"client", arrivals[i].session}
    BY <2>1 DEF ArrivalFits
  <2>4. Cardinality(Shares(k, G!Window(arrivals[i].at))) > G!Limit(k)
    BY <2>2 DEF LimitsInv, OverIsOver
  <2>5. Shares(k, G!Window(arrivals[i].at)) = G!SameWindow(arrivals[i], k)
    BY DEF Shares, G!SameWindow
  <2> QED BY <2>1, <2>3, <2>4, <2>5, NextWindow
<1> QED BY <1>1, LimitsInvHolds, PTL

-----------------------------------------------------------------------------
(***************************************************************************)
(* Themes: the inductive invariant                                         *)
(***************************************************************************)
Theme == {"light", "dark"}
Tab ==
    [at : {"closed", "painted", "watching"}, preference : H!Preference \cup {"unread"},
     theme : Theme, dark : BOOLEAN, shown : (H!Preference \cup {"unread"}) \X Theme]

ThemeKinds ==
    /\ browser \in [blocked : BOOLEAN, still : BOOLEAN]
    /\ choice \in H!Preference /\ systemDark \in BOOLEAN
    /\ page \in [Pages -> Tab]
    /\ notices \in [Pages -> Seq(H!Preference)] /\ fades \in [Pages -> Seq(Theme)]

\* A tab fades when it watches, and then it has read a preference.
PageFits(p) ==
    /\ page[p].at = "closed" => notices[p] = <<>>
    /\ ~H!Watching(p) \/ browser.still => fades[p] = <<>>
    /\ H!Watching(p) => page[p].preference \in H!Preference
    /\ H!Watching(p) /\ fades[p] = <<>> => page[p].shown = H!Snapshot(page[p])

\* The theme of a document, when the fades on their way are over.
Coming(p) == IF fades[p] = <<>> THEN page[p].theme ELSE H!Last(fades[p])

\* It is that of the preference, or a notice is on its way that will see to it.
ThemeFits(p) ==
    p \notin late /\ notices[p] = <<>> =>
        /\ H!Watching(p) /\ p \notin turned =>
              Coming(p) = H!ResolveTheme(page[p].preference, page[p].dark)
        /\ page[p].at = "painted" =>
              page[p].theme = H!ResolveTheme(H!StoredPreference, page[p].dark)

\* The last notice on its way is of what is stored.
PreferenceFits(p) ==
    p \notin crossed /\ ~browser.blocked =>
        /\ notices[p] # <<>> => H!Last(notices[p]) = choice
        /\ H!Watching(p) /\ notices[p] = <<>> => page[p].preference = choice

ThemesInv ==
    /\ ThemeKinds
    /\ \A p \in Pages : PageFits(p) /\ ThemeFits(p) /\ PreferenceFits(p)

LEMMA LastOf ==
    ASSUME NEW S, NEW s \in Seq(S), s # <<>>
    PROVE  H!Last(s) = s[Len(s)] /\ H!Last(s) \in S
    BY DEF H!Last

LEMMA LastOfAppend ==
    ASSUME NEW S, NEW s \in Seq(S), NEW x \in S
    PROVE  Append(s, x) \in Seq(S) /\ Append(s, x) # <<>> /\ H!Last(Append(s, x)) = x
    BY DEF H!Last

LEMMA LastOfTail ==
    ASSUME NEW S, NEW s \in Seq(S), s # <<>>
    PROVE  /\ Tail(s) \in Seq(S) /\ Head(s) \in S
           /\ Tail(s) = <<>> => H!Last(s) = Head(s)
           /\ Tail(s) # <<>> => H!Last(Tail(s)) = H!Last(s)
<1>1. /\ Len(s) \in Nat /\ Len(s) > 0 /\ Tail(s) \in Seq(S) /\ Len(Tail(s)) = Len(s) - 1
      /\ Head(s) = s[1] /\ s[1] \in S
      /\ \A i \in 1..Len(Tail(s)) : Tail(s)[i] = s[i + 1]
    BY HeadTailProperties
<1>2. Tail(s) = <<>> => Len(s) = 1
  <2>1. Tail(s) = <<>> => Len(Tail(s)) = 0
    BY <1>1, EmptySeq
  <2> QED BY <1>1, <2>1
<1>3. Tail(s) # <<>> => Len(Tail(s)) \in 1..Len(Tail(s))
    BY <1>1
<1> QED BY <1>1, <1>2, <1>3 DEF H!Last

LEMMA ResolvedIsTheme ==
    ASSUME NEW preference, preference \in H!Preference, NEW dark
    PROVE  H!ResolveTheme(preference, dark) \in Theme
    BY DEF H!ResolveTheme, H!Preference, Theme

\* A tab that watches becomes q and has a theme applied to it: where its
\* document ends, and which notice of a bad moment goes.
LEMMA ApplyFits ==
    ASSUME ThemesInv, NEW p \in Pages, H!Watching(p), NEW q \in Tab, NEW theme \in Theme,
           q.at = "watching", q.preference \in H!Preference, q.theme = page[p].theme,
           H!Apply(p, q, theme), H!Marks(p, theme)
    PROVE  /\ page' \in [Pages -> Tab] /\ fades' \in [Pages -> Seq(Theme)]
           /\ \A t \in Pages \ {p} : page'[t] = page[t] /\ fades'[t] = fades[t]
           /\ page'[p].at = "watching" /\ page'[p].preference = q.preference
           /\ page'[p].dark = q.dark
           /\ browser.still => fades'[p] = <<>>
           /\ fades'[p] = <<>> => page'[p].shown = <<page'[p].preference, page'[p].theme>>
           /\ p \notin turned' => Coming(p)' = theme
           /\ p \notin late' /\ late' \cup {p} = late \cup {p} /\ turned' \cup {p} = turned \cup {p}
<1>1. /\ page \in [Pages -> Tab] /\ fades \in [Pages -> Seq(Theme)]
      /\ browser.still => fades[p] = <<>>
    BY DEF ThemesInv, ThemeKinds, PageFits
<1>2. /\ p \notin turned' => ~(page[p].theme = theme /\ fades[p] # <<>> /\ H!Last(fades[p]) # theme)
      /\ p \notin late' /\ late' \cup {p} = late \cup {p} /\ turned' \cup {p} = turned \cup {p}
    BY DEF H!Marks, H!Undone
<1> DEFINE told(r) == [r EXCEPT !.shown = <<r.preference, r.theme>>]
<1>3. \A r \in Tab : /\ H!Notified(r) = told(r) /\ told(r) \in Tab
                     /\ told(r).shown = <<r.preference, r.theme>> /\ told(r).theme = r.theme
                     /\ told(r).at = r.at /\ told(r).dark = r.dark
                     /\ told(r).preference = r.preference
    BY DEF H!Notified, H!Snapshot, Tab
<1> HIDE DEF told
<1>4. CASE q.theme = theme
  <2>1. page' = [page EXCEPT ![p] = told(q)] /\ fades' = fades
    BY <1>3, <1>4 DEF H!Apply
  <2>2. page'[p] = told(q)
    BY <1>1, <2>1
  <2>3. p \notin turned' => Coming(p)' = theme
    BY <1>2, <1>3, <1>4, <2>1, <2>2 DEF Coming
  <2> QED BY <1>1, <1>2, <1>3, <2>1, <2>2, <2>3
<1>5. CASE q.theme # theme /\ ~browser.still
  <2>1. page' = [page EXCEPT ![p] = q] /\ fades' = [fades EXCEPT ![p] = Append(@, theme)]
    BY <1>5 DEF H!Apply
  <2>2. /\ Append(fades[p], theme) \in Seq(Theme) /\ Append(fades[p], theme) # <<>>
        /\ H!Last(Append(fades[p], theme)) = theme
    BY <1>1, LastOfAppend
  <2>3. page'[p] = q /\ fades'[p] = Append(fades[p], theme)
    BY <1>1, <2>1
  <2>4. Coming(p)' = theme
    BY <2>2, <2>3 DEF Coming
  <2> QED BY <1>1, <1>2, <1>5, <2>1, <2>2, <2>3, <2>4
<1>6. CASE q.theme # theme /\ browser.still
  <2> DEFINE r == [q EXCEPT !.theme = theme]
  <2>1. page' = [page EXCEPT ![p] = H!Notified(r)] /\ fades' = fades
    BY <1>6 DEF H!Apply
  <2>2. /\ r \in Tab /\ r.theme = theme /\ r.at = q.at /\ r.dark = q.dark
        /\ r.preference = q.preference
    BY DEF Tab
  <2> HIDE DEF r
  <2>3. page'[p] = told(r) /\ page' \in [Pages -> Tab]
    BY <1>1, <1>3, <2>1, <2>2
  <2>4. Coming(p)' = theme
    BY <1>1, <1>3, <1>6, <2>1, <2>2, <2>3 DEF Coming
  <2> QED BY <1>1, <1>2, <1>3, <1>6, <2>1, <2>2, <2>3, <2>4
<1> QED BY <1>4, <1>5, <1>6

\* Nothing is known of the other tabs but that they stay as they are.
LEMMA OthersFit ==
    ASSUME ThemesInv, NEW t \in Pages, page'[t] = page[t], fades'[t] = fades[t],
           notices'[t] = notices[t], UNCHANGED <<browser, choice>>,
           t \in late => t \in late', t \in turned => t \in turned', t \in crossed => t \in crossed'
    PROVE  PageFits(t)' /\ ThemeFits(t)' /\ PreferenceFits(t)'
    BY DEF ThemesInv, PageFits, ThemeFits, PreferenceFits, Coming, H!Watching, H!Snapshot,
        H!StoredPreference

LEMMA PageTypes ==
    ASSUME ThemesInv, NEW p \in Pages
    PROVE  /\ page[p] \in Tab /\ page \in [Pages -> Tab] /\ systemDark \in BOOLEAN
           /\ page[p].dark \in BOOLEAN /\ page[p].theme \in Theme
           /\ page[p].preference \in H!Preference \cup {"unread"}
           /\ notices[p] \in Seq(H!Preference) /\ notices \in [Pages -> Seq(H!Preference)]
           /\ fades[p] \in Seq(Theme) /\ fades \in [Pages -> Seq(Theme)]
           /\ choice \in H!Preference /\ H!ParsePreference(choice) = choice
           /\ H!StoredPreference \in H!Preference
           /\ ~browser.blocked => H!StoredPreference = choice
           /\ browser.blocked \in BOOLEAN /\ browser.still \in BOOLEAN
<1>1. /\ page[p] \in Tab /\ choice \in H!Preference
      /\ browser \in [blocked : BOOLEAN, still : BOOLEAN]
    BY DEF ThemesInv, ThemeKinds
<1>2. H!ParsePreference(choice) = choice
    BY <1>1 DEF H!ParsePreference, H!Preference
<1>3. H!StoredPreference \in H!Preference /\ (~browser.blocked => H!StoredPreference = choice)
    BY <1>1, <1>2 DEF H!StoredPreference, H!Preference
<1>4. /\ page[p].dark \in BOOLEAN /\ page[p].theme \in Theme
      /\ page[p].preference \in H!Preference \cup {"unread"}
    BY <1>1 DEF Tab
<1> QED BY <1>1, <1>2, <1>3, <1>4 DEF ThemesInv, ThemeKinds

LEMMA OpenKeeps ==
    ASSUME ThemesInv, NEW p \in Pages, H!Open(p)
    PROVE  ThemesInv'
<1> DEFINE q == [page[p] EXCEPT !.at = "painted", !.dark = systemDark,
                                !.theme = H!ResolveTheme(H!StoredPreference, systemDark)]
<1>1. /\ page[p].at = "closed" /\ page' = [page EXCEPT ![p] = q]
      /\ UNCHANGED <<browser, choice, systemDark, notices, fades, late, crossed, turned>>
    BY DEF H!Open, H!history
<1>2. page[p] \in Tab /\ page \in [Pages -> Tab] /\ systemDark \in BOOLEAN
    BY PageTypes
<1>3. H!ResolveTheme(H!StoredPreference, systemDark) \in Theme
    BY PageTypes, ResolvedIsTheme
<1>4. /\ q \in Tab /\ q.at = "painted" /\ q.dark = systemDark
      /\ q.theme = H!ResolveTheme(H!StoredPreference, systemDark)
    BY <1>2, <1>3 DEF Tab
<1> HIDE DEF q
<1>5. ThemeKinds' /\ page'[p] = q
    BY <1>1, <1>2, <1>4 DEF ThemesInv, ThemeKinds
<1>6. ASSUME NEW t \in Pages PROVE PageFits(t)' /\ ThemeFits(t)' /\ PreferenceFits(t)'
  <2>1. CASE t = p
    <3>1. notices[p] = <<>> /\ fades[p] = <<>>
      BY <1>1 DEF ThemesInv, PageFits, H!Watching
    <3> QED BY <1>1, <1>4, <1>5, <2>1, <3>1
            DEF PageFits, ThemeFits, PreferenceFits, H!Watching, H!StoredPreference
  <2>2. CASE t # p
    BY <1>1, <1>2, <2>2, OthersFit
  <2> QED BY <2>1, <2>2
<1> QED BY <1>5, <1>6 DEF ThemesInv

LEMMA SubscribeKeeps ==
    ASSUME ThemesInv, NEW p \in Pages, H!Subscribe(p)
    PROVE  ThemesInv'
<1> DEFINE r == [page[p] EXCEPT !.at = "watching", !.preference = H!StoredPreference]
           q == [r EXCEPT !.shown = <<r.preference, r.theme>>]
<1>1. /\ page[p].at = "painted" /\ page' = [page EXCEPT ![p] = q]
      /\ UNCHANGED <<browser, choice, systemDark, notices, fades, late, crossed, turned>>
    BY DEF H!Subscribe, H!history, H!Notified, H!Snapshot
<1>2. page[p] \in Tab /\ page \in [Pages -> Tab] /\ H!StoredPreference \in H!Preference
    BY PageTypes
<1>3. /\ r \in Tab /\ r.at = "watching" /\ r.preference = H!StoredPreference
      /\ r.theme = page[p].theme /\ r.dark = page[p].dark
    BY <1>2 DEF Tab
<1> HIDE DEF r
<1>4. /\ q \in Tab /\ q.at = "watching" /\ q.preference = H!StoredPreference
      /\ q.theme = page[p].theme /\ q.dark = page[p].dark /\ q.shown = <<q.preference, q.theme>>
    BY <1>3 DEF Tab
<1> HIDE DEF q
<1>5. ThemeKinds' /\ page'[p] = q
    BY <1>1, <1>2, <1>4 DEF ThemesInv, ThemeKinds
<1>6. ASSUME NEW t \in Pages PROVE PageFits(t)' /\ ThemeFits(t)' /\ PreferenceFits(t)'
  <2>1. CASE t = p
    <3>1. PageFits(p) /\ ThemeFits(p) /\ PreferenceFits(p)
      BY DEF ThemesInv
    <3>2. fades[p] = <<>>
      BY <1>1, <3>1 DEF PageFits, H!Watching
    <3>3. PageFits(p)'
      BY <1>1, <1>2, <1>4, <1>5, <3>2 DEF PageFits, H!Watching, H!Snapshot
    <3>4. ThemeFits(p)'
      BY <1>1, <1>4, <1>5, <3>1, <3>2 DEF ThemeFits, Coming, H!Watching
    <3>5. PreferenceFits(p)'
      BY <1>1, <1>4, <1>5, <3>1, PageTypes DEF PreferenceFits, H!Watching
    <3> QED BY <2>1, <3>3, <3>4, <3>5
  <2>2. CASE t # p
    BY <1>1, <1>2, <2>2, OthersFit
  <2> QED BY <2>1, <2>2
<1> QED BY <1>5, <1>6 DEF ThemesInv

\* A tab that watches has heard of something: what the others share with it
\* is as it was.
LEMMA HeardFits ==
    ASSUME ThemesInv, NEW p \in Pages, H!Watching(p), NEW q \in Tab, NEW theme \in Theme,
           q.at = "watching", q.preference \in H!Preference, q.theme = page[p].theme,
           theme = H!ResolveTheme(q.preference, q.dark),
           H!Apply(p, q, theme), H!Marks(p, theme), browser' = browser
    PROVE  /\ page' \in [Pages -> Tab] /\ fades' \in [Pages -> Seq(Theme)]
           /\ \A t \in Pages \ {p} :
                 /\ page'[t] = page[t] /\ fades'[t] = fades[t]
                 /\ t \in late => t \in late'
                 /\ t \in turned => t \in turned'
           /\ PageFits(p)' /\ ThemeFits(p)'
           /\ page'[p].at = "watching" /\ page'[p].preference = q.preference
<1>1. /\ page' \in [Pages -> Tab] /\ fades' \in [Pages -> Seq(Theme)]
      /\ \A t \in Pages \ {p} : page'[t] = page[t] /\ fades'[t] = fades[t]
      /\ page'[p].at = "watching" /\ page'[p].preference = q.preference
      /\ page'[p].dark = q.dark
      /\ browser.still => fades'[p] = <<>>
      /\ fades'[p] = <<>> => page'[p].shown = <<page'[p].preference, page'[p].theme>>
      /\ p \notin turned' => Coming(p)' = theme
      /\ p \notin late' /\ late' \cup {p} = late \cup {p} /\ turned' \cup {p} = turned \cup {p}
    BY ApplyFits
<1>2. PageFits(p)'
    BY <1>1 DEF PageFits, H!Watching, H!Snapshot
<1>3. ThemeFits(p)'
    BY <1>1 DEF ThemeFits, H!Watching, H!ResolveTheme
<1> QED BY <1>1, <1>2, <1>3

LEMMA SetKeeps ==
    ASSUME ThemesInv, NEW p \in Pages, NEW next \in H!Preference, H!SetThemePreference(p, next)
    PROVE  ThemesInv'
<1> DEFINE changed == ~browser.blocked /\ next # choice
           q == [page[p] EXCEPT !.preference = next]
<1>1. /\ H!Watching(p) /\ UNCHANGED <<browser, systemDark>>
      /\ choice' = IF changed THEN next ELSE choice
      /\ notices' = [t \in Pages |->
            IF changed /\ t # p /\ page[t].at # "closed" THEN Append(notices[t], next) ELSE notices[t]]
      /\ H!Apply(p, q, H!ResolveTheme(next, page[p].dark))
      /\ H!Marks(p, H!ResolveTheme(next, page[p].dark))
      /\ crossed' = IF notices[p] # <<>> THEN crossed \cup {p}
                    ELSE IF changed THEN {} ELSE crossed \ {p}
    BY DEF H!SetThemePreference
<1>2. page[p] \in Tab /\ H!ResolveTheme(next, page[p].dark) \in Theme
    BY PageTypes, ResolvedIsTheme
<1>3. /\ q \in Tab /\ q.at = "watching" /\ q.preference = next /\ q.theme = page[p].theme
      /\ q.dark = page[p].dark
    BY <1>1, <1>2 DEF Tab, H!Watching
<1>4. PICK r \in Tab : r = q
    BY <1>3
<1>5. PICK theme \in Theme : theme = H!ResolveTheme(next, page[p].dark)
    BY <1>2
<1>6. /\ page' \in [Pages -> Tab] /\ fades' \in [Pages -> Seq(Theme)]
      /\ \A t \in Pages \ {p} :
            /\ page'[t] = page[t] /\ fades'[t] = fades[t]
            /\ t \in late => t \in late'
            /\ t \in turned => t \in turned'
      /\ PageFits(p)' /\ ThemeFits(p)'
      /\ page'[p].at = "watching" /\ page'[p].preference = next
  <2>1. /\ r.at = "watching" /\ r.preference = next /\ r.theme = page[p].theme
        /\ r.dark = page[p].dark /\ H!Apply(p, r, theme) /\ H!Marks(p, theme)
        /\ theme = H!ResolveTheme(r.preference, r.dark)
    BY <1>1, <1>3, <1>4, <1>5
  <2> HIDE DEF q, changed
  <2> QED BY <1>1, <2>1, HeardFits
<1>7. ASSUME NEW t \in Pages
      PROVE  /\ Append(notices[t], next) \in Seq(H!Preference) /\ Append(notices[t], next) # <<>>
             /\ H!Last(Append(notices[t], next)) = next
  <2>1. notices[t] \in Seq(H!Preference)
    BY PageTypes
  <2> QED BY <2>1, LastOfAppend
<1>8. choice' \in H!Preference
    BY <1>1, PageTypes
<1>9. notices' \in [Pages -> Seq(H!Preference)]
    BY <1>1, <1>7, PageTypes
<1>10. ThemeKinds'
    BY <1>1, <1>6, <1>8, <1>9 DEF ThemesInv, ThemeKinds
<1>11. PreferenceFits(p)'
  <2>1. notices'[p] = notices[p] /\ (~browser.blocked => choice' = next)
    BY <1>1
  <2>2. p \notin crossed' => notices[p] = <<>>
    BY <1>1
  <2> QED BY <1>1, <1>6, <2>1, <2>2 DEF PreferenceFits
<1>12. ASSUME NEW t \in Pages, t # p PROVE PageFits(t)' /\ ThemeFits(t)' /\ PreferenceFits(t)'
  <2>1. PageFits(t) /\ ThemeFits(t) /\ PreferenceFits(t)
    BY DEF ThemesInv
  <2>2. CASE changed /\ page[t].at # "closed"
    <3>1. /\ notices'[t] # <<>> /\ H!Last(notices'[t]) = next /\ choice' = next
          /\ page'[t] = page[t] /\ fades'[t] = fades[t]
      BY <1>1, <1>6, <1>7, <1>12, <2>2
    <3> QED BY <1>1, <2>1, <2>2, <3>1
            DEF PageFits, ThemeFits, PreferenceFits, H!Watching, H!Snapshot, H!Last
  <2>3. CASE ~(changed /\ page[t].at # "closed")
    <3>1. notices'[t] = notices[t] /\ page'[t] = page[t] /\ fades'[t] = fades[t]
      BY <1>1, <1>6, <1>12, <2>3
    <3>2. CASE ~changed
      <4>1. choice' = choice /\ (t \in crossed => t \in crossed')
        BY <1>1, <1>12, <3>2
      <4> QED BY <1>1, <1>6, <1>12, <3>1, <4>1, OthersFit
    <3>3. CASE page[t].at = "closed"
      BY <1>1, <2>1, <3>1, <3>3 DEF PageFits, ThemeFits, PreferenceFits, H!Watching
    <3> QED BY <2>3, <3>2, <3>3
  <2> QED BY <2>2, <2>3
<1> QED BY <1>6, <1>10, <1>11, <1>12 DEF ThemesInv

LEMMA StorageKeeps ==
    ASSUME ThemesInv, NEW p \in Pages, H!Storage(p)
    PROVE  ThemesInv'
<1>1. /\ notices[p] # <<>> /\ notices' = [notices EXCEPT ![p] = Tail(@)]
      /\ UNCHANGED <<browser, choice, systemDark, crossed>>
    BY DEF H!Storage
<1>2. /\ notices[p] \in Seq(H!Preference) /\ notices \in [Pages -> Seq(H!Preference)]
      /\ page[p] \in Tab
    BY PageTypes
<1>3. /\ Tail(notices[p]) \in Seq(H!Preference) /\ Head(notices[p]) \in H!Preference
      /\ Tail(notices[p]) = <<>> => H!Last(notices[p]) = Head(notices[p])
      /\ Tail(notices[p]) # <<>> => H!Last(Tail(notices[p])) = H!Last(notices[p])
    BY <1>1, <1>2, LastOfTail
<1>4. /\ notices' \in [Pages -> Seq(H!Preference)] /\ notices'[p] = Tail(notices[p])
      /\ \A t \in Pages \ {p} : notices'[t] = notices[t]
    BY <1>1, <1>2, <1>3
<1>5. PICK preference \in H!Preference : preference = Head(notices[p])
    BY <1>3
<1>6. H!ParsePreference(Head(notices[p])) = preference
    BY <1>5 DEF H!ParsePreference, H!Preference
<1>7. PageFits(p) /\ ThemeFits(p) /\ PreferenceFits(p)
    BY DEF ThemesInv
<1>8. CASE H!Watching(p)
  <2> DEFINE q == [page[p] EXCEPT !.preference = preference]
  <2>1. PICK theme \in Theme : theme = H!ResolveTheme(preference, page[p].dark)
    BY ResolvedIsTheme
  <2>2. H!Apply(p, q, theme) /\ H!Marks(p, theme)
    BY <1>6, <1>8, <2>1 DEF H!Storage
  <2>3. /\ q \in Tab /\ q.at = "watching" /\ q.preference = preference /\ q.theme = page[p].theme
        /\ q.dark = page[p].dark
    BY <1>2, <1>8 DEF Tab, H!Watching
  <2>4. PICK r \in Tab : r = q
    BY <2>3
  <2>5. /\ page' \in [Pages -> Tab] /\ fades' \in [Pages -> Seq(Theme)]
        /\ \A t \in Pages \ {p} :
              /\ page'[t] = page[t] /\ fades'[t] = fades[t]
              /\ t \in late => t \in late'
              /\ t \in turned => t \in turned'
        /\ PageFits(p)' /\ ThemeFits(p)'
        /\ page'[p].at = "watching" /\ page'[p].preference = preference
    <3>1. /\ r.at = "watching" /\ r.preference = preference /\ r.theme = page[p].theme
          /\ r.dark = page[p].dark /\ H!Apply(p, r, theme) /\ H!Marks(p, theme)
          /\ theme = H!ResolveTheme(r.preference, r.dark)
      BY <2>1, <2>2, <2>3, <2>4
    <3> HIDE DEF q
    <3> QED BY <1>1, <1>8, <3>1, HeardFits
  <2>6. ThemeKinds'
    BY <1>1, <1>4, <2>5 DEF ThemesInv, ThemeKinds
  <2>7. PreferenceFits(p)'
    BY <1>1, <1>3, <1>4, <1>5, <1>7, <2>5 DEF PreferenceFits, H!Last
  <2>8. ASSUME NEW t \in Pages, t # p PROVE PageFits(t)' /\ ThemeFits(t)' /\ PreferenceFits(t)'
    BY <1>1, <1>4, <2>5, <2>8, OthersFit
  <2> QED BY <2>5, <2>6, <2>7, <2>8 DEF ThemesInv
<1>9. CASE ~H!Watching(p)
  <2>1. late' = late \cup {p} /\ UNCHANGED <<page, fades, turned>>
    BY <1>9 DEF H!Storage
  <2>2. ThemeKinds'
    BY <1>1, <1>4, <2>1 DEF ThemesInv, ThemeKinds
  <2>3. page[p].at # "closed"
    BY <1>1, <1>7 DEF PageFits
  <2>4. PageFits(p)' /\ ThemeFits(p)'
    BY <1>1, <1>7, <1>9, <2>1, <2>3 DEF PageFits, ThemeFits, H!Watching
  <2>5. PreferenceFits(p)'
    BY <1>1, <1>3, <1>4, <1>7, <1>9, <2>1 DEF PreferenceFits, H!Watching, H!Last
  <2>6. ASSUME NEW t \in Pages, t # p PROVE PageFits(t)' /\ ThemeFits(t)' /\ PreferenceFits(t)'
    BY <1>1, <1>4, <2>1, <2>6, OthersFit
  <2> QED BY <2>2, <2>4, <2>5, <2>6 DEF ThemesInv
<1> QED BY <1>8, <1>9

LEMMA MediaKeeps ==
    ASSUME ThemesInv, NEW p \in Pages, H!Media(p)
    PROVE  ThemesInv'
<1> DEFINE q == [page[p] EXCEPT !.dark = systemDark]
<1>1. page[p].at # "closed" /\ UNCHANGED <<browser, choice, systemDark, notices, crossed>>
    BY DEF H!Media
<1>2. /\ page[p] \in Tab /\ page \in [Pages -> Tab] /\ systemDark \in BOOLEAN
    BY PageTypes
<1>3. /\ q \in Tab /\ q.at = page[p].at /\ q.preference = page[p].preference
      /\ q.theme = page[p].theme /\ q.dark = systemDark /\ q.shown = page[p].shown
    BY <1>2 DEF Tab
<1>4. PICK r \in Tab : r = q
    BY <1>3
<1>5. PageFits(p) /\ ThemeFits(p) /\ PreferenceFits(p)
    BY DEF ThemesInv
<1>6. CASE H!Watching(p) /\ H!Follows(p)
  <2>1. "system" \in H!Preference /\ page[p].preference = "system"
    BY <1>6 DEF H!Preference, H!Follows
  <2>2. PICK theme \in Theme : theme = H!ResolveTheme("system", systemDark)
    BY <2>1, ResolvedIsTheme
  <2>3. H!Apply(p, r, theme) /\ H!Marks(p, theme)
    BY <1>4, <1>6, <2>2 DEF H!Media
  <2>4. /\ page' \in [Pages -> Tab] /\ fades' \in [Pages -> Seq(Theme)]
        /\ \A t \in Pages \ {p} :
              /\ page'[t] = page[t] /\ fades'[t] = fades[t]
              /\ t \in late => t \in late'
              /\ t \in turned => t \in turned'
        /\ PageFits(p)' /\ ThemeFits(p)'
        /\ page'[p].at = "watching" /\ page'[p].preference = "system"
    <3>1. /\ r.at = "watching" /\ r.preference = "system" /\ r.theme = page[p].theme
          /\ r.dark = systemDark /\ theme = H!ResolveTheme(r.preference, r.dark)
      BY <1>3, <1>4, <1>6, <2>1, <2>2 DEF H!Watching
    <3> HIDE DEF q
    <3> QED BY <1>1, <1>6, <2>1, <2>3, <3>1, HeardFits
  <2>5. ThemeKinds'
    BY <1>1, <2>4 DEF ThemesInv, ThemeKinds
  <2>6. PreferenceFits(p)'
    BY <1>1, <1>5, <1>6, <2>1, <2>4 DEF PreferenceFits
  <2>7. ASSUME NEW t \in Pages, t # p PROVE PageFits(t)' /\ ThemeFits(t)' /\ PreferenceFits(t)'
    BY <1>1, <2>4, <2>7, OthersFit
  <2> QED BY <2>4, <2>5, <2>6, <2>7 DEF ThemesInv
<1>7. CASE ~H!Watching(p) \/ ~H!Follows(p)
  <2>1. /\ page' = [page EXCEPT ![p] = q] /\ UNCHANGED <<fades, turned>>
        /\ late' = IF H!Watching(p) THEN late ELSE late \cup {p}
    BY <1>7 DEF H!Media
  <2> HIDE DEF q
  <2>2. page'[p] = q /\ page' \in [Pages -> Tab] /\ \A t \in Pages \ {p} : page'[t] = page[t]
    BY <1>2, <1>3, <2>1
  <2>3. ThemeKinds'
    BY <1>1, <2>1, <2>2 DEF ThemesInv, ThemeKinds
  <2>4. PageFits(p)'
    BY <1>1, <1>3, <1>5, <2>1, <2>2 DEF PageFits, H!Watching, H!Snapshot
  <2>5. ThemeFits(p)'
    <3>1. CASE ~H!Watching(p)
      <4>1. p \in late'
        BY <2>1, <3>1
      <4> QED BY <4>1 DEF ThemeFits
    <3>2. CASE H!Watching(p)
      <4>1. page[p].preference # "system" /\ late' = late
        BY <1>7, <2>1, <3>2 DEF H!Follows
      <4>2. Coming(p)' = Coming(p)
        BY <1>3, <2>1, <2>2, <1>1 DEF Coming, H!Last
      <4>3. H!ResolveTheme(page'[p].preference, page'[p].dark)
              = H!ResolveTheme(page[p].preference, page[p].dark)
        BY <1>3, <2>2, <4>1 DEF H!ResolveTheme
      <4>4. page'[p].at = "watching"
        BY <1>3, <2>2, <3>2 DEF H!Watching
      <4> QED BY <1>1, <1>5, <2>1, <3>2, <4>1, <4>2, <4>3, <4>4 DEF ThemeFits, H!Watching, H!ResolveTheme
    <3> QED BY <3>1, <3>2
  <2>6. PreferenceFits(p)'
    BY <1>1, <1>3, <1>5, <2>2 DEF PreferenceFits, H!Watching
  <2>7. ASSUME NEW t \in Pages, t # p PROVE PageFits(t)' /\ ThemeFits(t)' /\ PreferenceFits(t)'
    BY <1>1, <2>1, <2>2, <2>7, OthersFit
  <2> QED BY <2>3, <2>4, <2>5, <2>6, <2>7 DEF ThemesInv
<1> QED BY <1>6, <1>7

LEMMA SwapKeeps ==
    ASSUME ThemesInv, NEW p \in Pages, H!Swap(p)
    PROVE  ThemesInv'
<1> DEFINE r == [page[p] EXCEPT !.theme = Head(fades[p])]
           q == [r EXCEPT !.shown = <<r.preference, r.theme>>]
<1>1. /\ fades[p] # <<>> /\ fades' = [fades EXCEPT ![p] = Tail(@)]
      /\ page' = [page EXCEPT ![p] = q]
      /\ UNCHANGED <<browser, choice, systemDark, notices, late, crossed, turned>>
    BY DEF H!Swap, H!history, H!Notified, H!Snapshot
<1>2. /\ page[p] \in Tab /\ page \in [Pages -> Tab] /\ fades[p] \in Seq(Theme)
      /\ fades \in [Pages -> Seq(Theme)]
    BY PageTypes
<1>3. /\ Tail(fades[p]) \in Seq(Theme) /\ Head(fades[p]) \in Theme
      /\ Tail(fades[p]) = <<>> => H!Last(fades[p]) = Head(fades[p])
      /\ Tail(fades[p]) # <<>> => H!Last(Tail(fades[p])) = H!Last(fades[p])
    BY <1>1, <1>2, LastOfTail
<1>4. /\ r \in Tab /\ r.at = page[p].at /\ r.preference = page[p].preference
      /\ r.dark = page[p].dark /\ r.theme = Head(fades[p])
    BY <1>2, <1>3 DEF Tab
<1> HIDE DEF r
<1>5. /\ q \in Tab /\ q.at = page[p].at /\ q.preference = page[p].preference
      /\ q.dark = page[p].dark /\ q.theme = Head(fades[p])
      /\ q.shown = <<q.preference, q.theme>>
    BY <1>4 DEF Tab
<1> HIDE DEF q
<1>6. /\ page'[p] = q /\ page' \in [Pages -> Tab] /\ fades'[p] = Tail(fades[p])
      /\ fades' \in [Pages -> Seq(Theme)]
      /\ \A t \in Pages \ {p} : page'[t] = page[t] /\ fades'[t] = fades[t]
    BY <1>1, <1>2, <1>3, <1>5
<1>7. ThemeKinds'
    BY <1>1, <1>6 DEF ThemesInv, ThemeKinds
<1>8. PageFits(p) /\ ThemeFits(p) /\ PreferenceFits(p)
    BY DEF ThemesInv
<1>9. H!Watching(p) /\ ~browser.still
    BY <1>1, <1>8 DEF PageFits
<1>10. PageFits(p)'
    BY <1>1, <1>5, <1>6, <1>8, <1>9 DEF PageFits, H!Watching, H!Snapshot
<1>11. Coming(p)' = Coming(p)
    BY <1>1, <1>3, <1>5, <1>6 DEF Coming, H!Last
<1>12. ThemeFits(p)' /\ PreferenceFits(p)'
    BY <1>1, <1>5, <1>6, <1>8, <1>9, <1>11 DEF ThemeFits, PreferenceFits, H!Watching
<1>13. ASSUME NEW t \in Pages, t # p PROVE PageFits(t)' /\ ThemeFits(t)' /\ PreferenceFits(t)'
    BY <1>1, <1>6, <1>13, OthersFit
<1> QED BY <1>7, <1>10, <1>12, <1>13 DEF ThemesInv

LEMMA ThemesHold == H!Spec => []ThemesInv
<1>1. H!Init => ThemesInv
  <2> SUFFICES ASSUME H!Init PROVE ThemesInv
    OBVIOUS
  <2>1. /\ browser \in [blocked : BOOLEAN, still : BOOLEAN] /\ choice = "system"
        /\ systemDark = FALSE /\ page = [p \in Pages |-> H!Closed]
        /\ notices = [p \in Pages |-> <<>>] /\ fades = [p \in Pages |-> <<>>]
    BY DEF H!Init
  <2>2. H!Closed \in Tab /\ H!Closed.at = "closed"
    BY DEF H!Closed, Tab, Theme, H!Preference
  <2>3. <<>> \in Seq(H!Preference) /\ <<>> \in Seq(Theme)
    BY EmptySeq
  <2>4. ThemeKinds
    BY <2>1, <2>2, <2>3 DEF ThemeKinds, H!Preference
  <2> QED BY <2>1, <2>2, <2>4 DEF ThemesInv, PageFits, ThemeFits, PreferenceFits, H!Watching
<1>2. ThemesInv /\ [H!Next]_(H!vars) => ThemesInv'
  <2> SUFFICES ASSUME ThemesInv, [H!Next]_(H!vars) PROVE ThemesInv'
    OBVIOUS
  <2>1. ASSUME /\ UNCHANGED <<browser, choice, page, notices, fades, late, crossed, turned>>
               /\ systemDark' \in BOOLEAN
        PROVE  ThemesInv'
    <3>1. ThemeKinds'
      BY <2>1 DEF ThemesInv, ThemeKinds
    <3>2. \A t \in Pages : PageFits(t)' /\ ThemeFits(t)' /\ PreferenceFits(t)'
      BY <2>1, OthersFit
    <3> QED BY <3>1, <3>2 DEF ThemesInv
  <2>2. CASE UNCHANGED H!vars
    BY <2>1, <2>2 DEF H!vars, H!history, ThemesInv, ThemeKinds
  <2>3. CASE H!SystemTurns
    BY <2>1, <2>3 DEF H!SystemTurns, H!history
  <2> QED BY <2>2, <2>3, OpenKeeps, SubscribeKeeps, SetKeeps, StorageKeeps, MediaKeeps, SwapKeeps
       DEF H!Next
<1> QED BY <1>1, <1>2, PTL DEF H!Spec

\* In a tab to which nothing is on its way the toggle says what is so, the
\* document has the theme of the preference and the preference is the one
\* stored, for any number of tabs, choices and changes of the system, but for
\* what came at a bad moment (theme-client.ts).
THEOREM ThemesAgree == H!Spec => []H!ThemesSettle
<1>1. ThemesInv => H!ThemesSettle
  <2> SUFFICES ASSUME ThemesInv, NEW p \in Pages, H!Quiet(p)
               PROVE  /\ page[p].shown = H!Snapshot(page[p])
                      /\ p \notin late \cup turned =>
                            page[p].theme = H!ResolveTheme(page[p].preference, systemDark)
                      /\ p \notin crossed /\ ~browser.blocked =>
                            page[p].preference = H!StoredPreference
    BY DEF H!ThemesSettle
  <2>1. PageFits(p) /\ ThemeFits(p) /\ PreferenceFits(p)
    BY DEF ThemesInv
  <2>2. H!Watching(p) /\ notices[p] = <<>> /\ fades[p] = <<>> /\ page[p].dark = systemDark
    BY DEF H!Quiet
  <2> QED BY <2>1, <2>2, PageTypes DEF PageFits, ThemeFits, PreferenceFits, Coming
<1> QED BY <1>1, ThemesHold, PTL


-----------------------------------------------------------------------------
(***************************************************************************)
(* The parts together                                                      *)
(***************************************************************************)
\* A behaviour stays one of the part it is of, and what it does to the state
\* of that part are steps of that part's specification.
sharedVars == <<part, vars, processVars, limitVars, accountVars, themeVars>>

LEMMA PartStays == [SharedNext]_sharedVars => UNCHANGED part
    BY DEF SharedNext, sharedVars

LEMMA ProcessesStep ==
    ASSUME part = "processes", [SharedNext]_sharedVars
    PROVE  [P!Next]_(P!vars)
    BY DEF SharedNext, sharedVars, processVars, P!vars, P!database

LEMMA LimitsStep ==
    ASSUME part = "limits", [SharedNext]_sharedVars
    PROVE  [G!Next]_(G!vars)
    BY DEF SharedNext, sharedVars, limitVars, G!vars

LEMMA AccountsStep ==
    ASSUME part = "accounts", [SharedNext]_sharedVars
    PROVE  [A!Next]_(A!vars)
    BY DEF SharedNext, sharedVars, accountVars, A!vars, A!service

LEMMA ThemesStep ==
    ASSUME part = "themes", [SharedNext]_sharedVars
    PROVE  [H!Next]_(H!vars)
    BY DEF SharedNext, sharedVars, themeVars, H!vars, H!history

\* What the processes of the manager and the instances of the API promise,
\* whichever of them a behaviour is of: migrations and shutdowns
\* (store/migrate.ts, main.ts), and limits (rate-limiter.ts).
THEOREM ProcessesAlwaysAgree == SharedSpec => []ProcessesAgree
<1> USE SharedAssumption DEF SharedAssumption
<1>1. SharedInit => P!Init /\ G!Init
    BY DEF SharedInit
<1>2. part = "processes" /\ [SharedNext]_sharedVars => [P!Next]_(P!vars)
    BY ProcessesStep
<1>3. part = "limits" /\ [SharedNext]_sharedVars => [G!Next]_(G!vars)
    BY LimitsStep
<1>4. [SharedNext]_sharedVars => (part = "processes" <=> (part = "processes")')
    BY PartStays
<1>5. [SharedNext]_sharedVars => (part = "limits" <=> (part = "limits")')
    BY PartStays
<1>6. P!Spec => []P!MigrationsHold /\ []P!StopsClean
    BY MigrationsAreApplied, ShutdownFinishes
<1>7. G!Spec => []G!LimitsHold /\ []G!RefusalsEnd
    BY WindowsAreLimited, RefusalsAreShort
<1>8. ProcessesAgree <=>
         /\ part = "processes" => P!MigrationsHold /\ P!StopsClean
         /\ part = "limits" => G!LimitsHold /\ G!RefusalsEnd
    BY DEF ProcessesAgree
<1> QED
    BY <1>1, <1>2, <1>3, <1>4, <1>5, <1>6, <1>7, <1>8, PTL
    DEF SharedSpec, sharedVars, P!Spec, G!Spec

\* What the tabs of a browser agree on, of its account as of its theme
\* (project.service.ts, AuthProvider.tsx, theme-client.ts).
THEOREM TabsAlwaysAgree == SharedSpec => []TabsAgree
<1> USE SharedAssumption DEF SharedAssumption
<1>1. SharedInit => A!Init /\ H!Init
    BY DEF SharedInit
<1>2. part = "accounts" /\ [SharedNext]_sharedVars => [A!Next]_(A!vars)
    BY AccountsStep
<1>3. part = "themes" /\ [SharedNext]_sharedVars => [H!Next]_(H!vars)
    BY ThemesStep
<1>4. [SharedNext]_sharedVars => (part = "accounts" <=> (part = "accounts")')
    BY PartStays
<1>5. [SharedNext]_sharedVars => (part = "themes" <=> (part = "themes")')
    BY PartStays
<1>6. A!Spec => []A!ProjectLimitHolds /\ []A!AccountIsShown
    BY ProjectsAreLimited, HeadersFollow
<1>7. H!Spec => []H!ThemesSettle
    BY ThemesAgree
<1>8. TabsAgree <=>
         /\ part = "accounts" => A!ProjectLimitHolds /\ A!AccountIsShown
         /\ part = "themes" => H!ThemesSettle
    BY DEF TabsAgree
<1> QED
    BY <1>1, <1>2, <1>3, <1>4, <1>5, <1>6, <1>7, <1>8, PTL
    DEF SharedSpec, sharedVars, A!Spec, H!Spec
=============================================================================
