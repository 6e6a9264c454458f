-------------------------------- MODULE Accounts --------------------------------
(***************************************************************************)
(* Accounts and saved projects of one browser: the requests of its tabs    *)
(* (apps/web, lib/account.ts, AuthForm, AccountNav, SaveProjectButton and  *)
(* ProjectList) and what the API does with them (apps/api/src/auth).  The  *)
(* tabs share the cookie and nothing else; a cookie changes when the       *)
(* answer that carries it arrives, and goes with the requests sent since.  *)
(***************************************************************************)
EXTENDS Naturals, FiniteSets

CONSTANTS
    Tabs, Users,
    Requests,       \* requests in progress at once
    MaxProjects,    \* MAX_PROJECTS
    MaxActs,        \* bound: clicks and submissions
    MaxRefusals     \* bound: rate limits, wrong passwords and errors

\* What the constants must be (assumed by the instance).
AccountsAssumption ==
    /\ "nobody" \notin Users /\ Requests \cap {"none", "answered"} = {}
    /\ {MaxProjects, MaxActs, MaxRefusals} \subseteq Nat

VARIABLES
    users,      \* accounts, by e-mail
    owner,      \* the userId of the session the browser has
    projects,   \* saved projects: [id, of]
    cookie,     \* sqlscope_user of the browser
    request,    \* the requests in progress
    tab,        \* each tab: its page, its header and `pending`
    acts, refusals,
    excused     \* tabs that may be behind the cookie, or wrong (history)

service == <<users, owner, projects>>
vars == <<service, cookie, request, tab, acts, refusals, excused>>

-----------------------------------------------------------------------------
Account == Users \cup {"nobody"}
Op == {"register", "login", "logout", "me", "save", "remove"}

\* A request: its step, the tab, the cookie it carries, the account it is
\* about or has found; a save also its attempts and the projects it saw.
NoRequest ==
    [op |-> "none", pc |-> "off", tab |-> "none", as |-> "nobody", about |-> "nobody", id |-> 0,
     seen |-> {}, tries |-> 0]
Sent(op, t, u, id) ==
    [op |-> op, pc |-> "guard", tab |-> t, as |-> cookie, about |-> u, id |-> id,
     seen |-> {}, tries |-> 0]

\* A tab: what its header shows, the promise its effect awaits, the promise
\* in `pending` (which is "none", a request, or the account it gave), and
\* whether the header is to be moved to another route.
FreshTab ==
    [checked |-> FALSE, account |-> "nobody", awaits |-> "none",
     pending |-> [of |-> "none", gave |-> "nobody"], pushed |-> FALSE]

Free(q) == request[q] = NoRequest
Send(q, r) == request' = [request EXCEPT ![q] = r]
Goes(q, pc) == request' = [request EXCEPT ![q].pc = pc]

Act == acts < MaxActs /\ acts' = acts + 1
Refusal == refusals < MaxRefusals /\ refusals' = refusals + 1

-----------------------------------------------------------------------------
(***************************************************************************)
(* A tab                                                                   *)
(***************************************************************************)

\* The effect of AccountNav, on a mount and on every change of the route:
\* currentAccount() asks once, and gives everybody that answer until it is
\* forgotten.
Checks(q, t) ==
    LET asked == tab[t].pending.of IN
    CASE asked = "none" ->
            /\ Free(q)
            /\ Send(q, Sent("me", t, "nobody", 0))
            /\ tab' = [tab EXCEPT ![t].pending.of = q, ![t].awaits = q, ![t].pushed = FALSE]
      [] asked = "answered" ->
            /\ tab' = [tab EXCEPT ![t].account = tab[t].pending.gave, ![t].checked = TRUE,
                                  ![t].awaits = "none", ![t].pushed = FALSE]
            /\ UNCHANGED request
      [] OTHER ->
            /\ tab' = [tab EXCEPT ![t].awaits = asked, ![t].pushed = FALSE]
            /\ UNCHANGED request

\* router.push() takes effect, or the learner follows a link.
Navigate(q, t) ==
    /\ \/ tab[t].pushed /\ UNCHANGED acts
       \/ ~tab[t].pushed /\ Act
    /\ Checks(q, t)
    /\ UNCHANGED <<service, cookie, refusals, excused>>

Busy(t) == \E q \in Requests : request[q].op \in {"register", "login", "logout"} /\ request[q].tab = t

\* The form, whoever is signed in; the button of the header, if it is there.
Submit(q, t, op, u) ==
    /\ Free(q) /\ ~Busy(t) /\ Act
    /\ Send(q, Sent(op, t, u, 0))
    /\ UNCHANGED <<service, cookie, tab, refusals, excused>>

Logout(q, t) ==
    /\ tab[t].checked /\ tab[t].account # "nobody"
    /\ Free(q) /\ ~Busy(t) /\ Act
    /\ Send(q, Sent("logout", t, "nobody", 0))
    /\ UNCHANGED <<service, cookie, tab, refusals, excused>>

\* SaveProjectButton and ProjectList.
Save(q, t) ==
    /\ Free(q) /\ Act
    /\ Send(q, Sent("save", t, "nobody", acts + 1))
    /\ UNCHANGED <<service, cookie, tab, refusals, excused>>

Remove(q, t) ==
    /\ Free(q) /\ Act
    /\ \E p \in projects : Send(q, Sent("remove", t, "nobody", p.id))
    /\ UNCHANGED <<service, cookie, tab, refusals, excused>>

-----------------------------------------------------------------------------
(***************************************************************************)
(* The API                                                                 *)
(***************************************************************************)
Replies(q, about) == request' = [request EXCEPT ![q].pc = "answer", ![q].about = about]
Fails(q) == Goes(q, "error")

\* UserGuard and RateLimitGuard, whichever the route has.
Guard(q) ==
    /\ request[q].pc = "guard"
    /\ \/ Refusal /\ request[q].op \notin {"logout", "me"} /\ Fails(q)
       \/ /\ UNCHANGED refusals
          /\ IF request[q].op \in {"save", "remove"} /\ request[q].as \notin users
             THEN Fails(q) ELSE Goes(q, request[q].op)
    /\ UNCHANGED <<service, cookie, tab, acts, excused>>

\* signUp() looks the e-mail up, hashes the password and inserts, which the
\* unique index refuses if another has come first.
Look(q) ==
    /\ request[q].pc = "register"
    /\ IF request[q].about \in users THEN Fails(q) ELSE Goes(q, "insert")
    /\ UNCHANGED <<service, cookie, tab, acts, refusals, excused>>

Insert(q) ==
    /\ request[q].pc = "insert"
    /\ IF request[q].about \in users
       THEN Fails(q) /\ UNCHANGED users
       ELSE Goes(q, "claim") /\ users' = users \cup {request[q].about}
    /\ UNCHANGED <<owner, projects, cookie, tab, acts, refusals, excused>>

\* signIn() of AuthService.
Verify(q) ==
    /\ request[q].pc = "login"
    /\ \/ request[q].about \in users /\ Goes(q, "claim") /\ UNCHANGED refusals
       \/ request[q].about \notin users /\ Fails(q) /\ UNCHANGED refusals
       \/ Refusal /\ Fails(q)
    /\ UNCHANGED <<service, cookie, tab, acts, excused>>

\* claimSession(): the session of the browser, unless it is somebody's.
Claim(q) ==
    /\ request[q].pc = "claim"
    /\ owner' = IF owner = "nobody" THEN request[q].about ELSE owner
    /\ Replies(q, request[q].about)
    /\ UNCHANGED <<users, projects, cookie, tab, acts, refusals, excused>>

ServeLogout(q) ==
    /\ request[q].pc = "logout"
    /\ Replies(q, "nobody")
    /\ UNCHANGED <<service, cookie, tab, acts, refusals, excused>>

\* An answer that is an error is "nobody" to the tab.
ServeMe(q) ==
    /\ request[q].pc = "me"
    /\ \/ /\ Replies(q, IF request[q].as \in users THEN request[q].as ELSE "nobody")
          /\ UNCHANGED <<refusals, excused>>
       \/ /\ Refusal
          /\ Replies(q, "nobody")
          /\ excused' = excused \cup {request[q].tab}
    /\ UNCHANGED <<service, cookie, tab, acts>>

\* The transaction of save(): it counts ...
CountProjects(q) ==
    LET mine == {p \in projects : p.of = request[q].as} IN
    /\ request[q].pc = "save"
    /\ IF Cardinality(mine) >= MaxProjects
       THEN Fails(q)
       ELSE request' = [request EXCEPT ![q].pc = "commit", ![q].seen = projects]
    /\ UNCHANGED <<service, cookie, tab, acts, refusals, excused>>

\* A mistake the runs must catch: the isolation that is the default.
ConflictsNever(q) == FALSE

\* Since it counted, another save of the account has been committed.
Conflicts(q) == \E p \in projects \ request[q].seen : p.of = request[q].as

\* Saves that overlap may be taken for a conflict.
MayConflict(q) == \E r \in Requests \ {q} : request[r].op = "save" /\ request[r].pc = "commit"

\* ... and inserts: it is committed or, being serialisable, rolled back for a
\* conflict and tried once more.
CommitProject(q) ==
    LET r == request[q] IN
    /\ r.pc = "commit"
    /\ \/ /\ ~Conflicts(q)
          /\ projects' = projects \cup {[id |-> r.id, of |-> r.as]}
          /\ Replies(q, r.as)
       \/ /\ Conflicts(q) \/ MayConflict(q)
          /\ IF r.tries = 0
             THEN request' = [request EXCEPT ![q].pc = "save", ![q].tries = 1, ![q].seen = {}]
             ELSE Fails(q)
          /\ UNCHANGED projects
    /\ UNCHANGED <<users, owner, cookie, tab, acts, refusals, excused>>

\* remove(): a project of this account, or none.
ServeRemove(q) ==
    LET found == {p \in projects : p.id = request[q].id /\ p.of = request[q].as} IN
    /\ request[q].pc = "remove"
    /\ projects' = projects \ found
    /\ IF found = {} THEN Fails(q) ELSE Replies(q, request[q].as)
    /\ UNCHANGED <<users, owner, cookie, tab, acts, refusals, excused>>

Serve(q) ==
    \/ Guard(q) \/ Look(q) \/ Insert(q) \/ Verify(q) \/ Claim(q) \/ ServeLogout(q) \/ ServeMe(q)
    \/ CountProjects(q) \/ CommitProject(q) \/ ServeRemove(q)

-----------------------------------------------------------------------------
(***************************************************************************)
(* What comes back                                                         *)
(***************************************************************************)
\* A mistake the runs must catch: the answer is shared for ever.
Unforgotten(shared) == shared

\* forget(): the next to ask asks the API.
Forgotten(shared) == [of |-> "none", gave |-> "nobody"]

\* login() and register(): forget() what was shared, and go to the projects.
\* The other tabs do not hear that the cookie changed.
SignedIn(q) ==
    LET t == request[q].tab IN
    /\ request[q].pc = "answer" /\ request[q].op \in {"register", "login"}
    /\ cookie' = request[q].about
    /\ excused' = excused \cup (Tabs \ {t})
    /\ tab' = [tab EXCEPT ![t].pending = Forgotten(@), ![t].pushed = TRUE]
    /\ Send(q, NoRequest)
    /\ UNCHANGED <<service, acts, refusals>>

\* logout(): the header shows nobody at once, and goes to "/", unless it is
\* there; an effect that still awaits its answer will show it all the same.
SignedOut(q) ==
    LET t == request[q].tab IN
    /\ request[q].pc = "answer" /\ request[q].op = "logout"
    /\ cookie' = "nobody"
    /\ \E goes \in BOOLEAN :
          /\ tab' = [tab EXCEPT ![t].pending = Forgotten(@), ![t].account = "nobody", ![t].pushed = goes]
          /\ excused' = excused \cup (Tabs \ {t})
                           \cup (IF ~goes /\ tab[t].awaits # "none" THEN {t} ELSE {})
    /\ Send(q, NoRequest)
    /\ UNCHANGED <<service, acts, refusals>>

\* The answer to currentAccount(): to the effect that still awaits it.
Told(q) ==
    LET t == request[q].tab IN
    /\ request[q].pc = "answer" /\ request[q].op = "me"
    /\ tab' = [tab EXCEPT
            ![t].pending = IF @.of = q THEN [of |-> "answered", gave |-> request[q].about] ELSE @,
            ![t].account = IF tab[t].awaits = q THEN request[q].about ELSE @,
            ![t].checked = @ \/ tab[t].awaits = q,
            ![t].awaits = IF @ = q THEN "none" ELSE @]
    /\ Send(q, NoRequest)
    /\ UNCHANGED <<service, cookie, acts, refusals, excused>>

\* A save or a removal is done, or something was refused: the page says so.
Over(q) ==
    /\ \/ request[q].op \in {"save", "remove"} /\ request[q].pc = "answer"
       \/ request[q].op # "none" /\ request[q].pc = "error"
    /\ Send(q, NoRequest)
    /\ UNCHANGED <<service, cookie, tab, acts, refusals, excused>>

Deliver(q) == SignedIn(q) \/ SignedOut(q) \/ Told(q) \/ Over(q)

-----------------------------------------------------------------------------
\* Nobody has an account, or one visitor has, and is signed in or not.
Init ==
    /\ \E u \in Users : users \in {{}, {u}}
    /\ cookie \in {"nobody"} \cup users
    /\ owner = cookie /\ projects = {}
    /\ request = [q \in Requests |-> NoRequest]
    /\ tab = [t \in Tabs |-> FreshTab]
    /\ acts = 0 /\ refusals = 0 /\ excused = {}

Next ==
    \E q \in Requests :
        \/ \E t \in Tabs :
              \/ Navigate(q, t) \/ Logout(q, t) \/ Save(q, t) \/ Remove(q, t)
              \/ \E u \in Users, op \in {"register", "login"} : Submit(q, t, op, u)
        \/ Serve(q) \/ Deliver(q)

Spec == Init /\ [][Next]_vars

-----------------------------------------------------------------------------
\* No account has more projects than the limit, whatever its tabs save at the
\* same moment (projects.controller.ts, the comment over `save`).
ProjectLimitHolds ==
    \A u \in Users : Cardinality({p \in projects : p.of = u}) <= MaxProjects

\* The header of a tab at rest shows whom the cookie says, although answers
\* are shared and come late: unless another tab has changed the cookie since,
\* an answer failed, or a logout on the first page crossed one.
AtRest(t) ==
    /\ tab[t].checked /\ tab[t].awaits = "none" /\ ~tab[t].pushed
    /\ \A q \in Requests : request[q].op # "none" => request[q].tab # t

AccountIsShown == \A t \in Tabs \ excused : AtRest(t) => tab[t].account = cookie

=============================================================================
