------------------------------ MODULE Challenges ------------------------------
(***************************************************************************)
(* The challenges of a scenario: checkAnswer (packages/scenarios,          *)
(* check.ts), which runs an answer and the reference solution on a fresh   *)
(* copy of every variant of the data, and the panel that asks for it       *)
(* (apps/web, ChallengePanel.tsx).  A panel is one visit of one tab: what  *)
(* it has begun goes on when it is left, and the browser's storage is      *)
(* common to all.  A query is what it returns, variant by variant; a row   *)
(* is its key.                                                             *)
(***************************************************************************)
EXTENDS Naturals, Sequences, FiniteSets

CONSTANTS
    Panels,
    Variants,   \* VARIANTS is 0..Variants - 1
    Questions,  \* the challenges of the scenario: [ordered, solution]
    Answers,    \* what a learner may ask to check: [kind, returns]
    MaxChecks   \* bound: checks asked for

Variant == 0..(Variants - 1)
Output == [ok : BOOLEAN, columns : Nat, rows : Seq(Nat)]
Query == [Variant -> Output]
Kind == {"read", "other", "script", "error"}

\* What the constants must be (assumed by the instance).
ChallengesAssumption ==
    /\ Variants \in Nat \ {0} /\ MaxChecks \in Nat
    /\ Questions \in Seq([ordered : BOOLEAN, solution : Query]) /\ Len(Questions) > 0
    /\ \A q \in DOMAIN Questions : \A v \in Variant : Questions[q].solution[v].ok
    /\ \A a \in Answers : a.kind \in Kind /\ a.returns \in Query

VARIABLES
    panel,      \* [shown, index, progress] of each panel
    verdict,    \* of each panel
    check,      \* the check in progress of each panel, if any
    template,   \* of each panel: the database its copies are made from
    stored,     \* progress in localStorage
    tried,      \* <<challenge, answer>> checked so far (history)
    checks,     \* checks so far
    moved       \* panels left for another challenge during a check (history)

vars == <<panel, verdict, check, template, stored, checks, tried, moved>>

-----------------------------------------------------------------------------
(***************************************************************************)
(* check.ts                                                                *)
(***************************************************************************)
Count(rows, r) == Cardinality({i \in DOMAIN rows : rows[i] = r})

\* sameMultiset(): as many rows, and none of b more often than in a.
SameMultiset(a, b) ==
    Len(a) = Len(b) /\ \A i \in DOMAIN b : Count(b, b[i]) <= Count(a, b[i])

\* compare(): the reason of a mismatch, or "none".
Compare(expected, actual, ordered) ==
    IF expected.columns # actual.columns THEN "columns"
    ELSE IF ~SameMultiset(expected.rows, actual.rows) THEN "rows"
    ELSE IF ordered /\ expected.rows # actual.rows THEN "order" ELSE "none"

NoVerdict == [status |-> "none", variant |-> 0, asked |-> 1, answer |-> 0]
Verdict(c, status) ==
    [status |-> status, variant |-> c.variant, asked |-> c.asked, answer |-> c.answer]

-----------------------------------------------------------------------------
(***************************************************************************)
(* ChallengePanel                                                          *)
(***************************************************************************)
NoCheck == [pc |-> "none", asked |-> 1, answer |-> 0, variant |-> 0, progress |-> {}]

Mount(p) ==
    /\ panel[p].shown = "no"
    /\ panel' = [panel EXCEPT ![p].shown = "yes", ![p].progress = stored]
    /\ UNCHANGED <<verdict, check, template, stored, checks, tried, moved>>

\* The panel goes, and closes the template it has; a check it has begun goes on.
Unmount(p) ==
    /\ panel[p].shown = "yes"
    /\ panel' = [panel EXCEPT ![p].shown = "left"]
    /\ template' = [template EXCEPT ![p] = IF @ = "open" THEN "closed" ELSE @]
    /\ UNCHANGED <<verdict, check, stored, checks, tried, moved>>

\* go(): nothing keeps it from being called during a check.
Go(p, q) ==
    /\ panel[p].shown = "yes" /\ q # panel[p].index
    /\ panel' = [panel EXCEPT ![p].index = q]
    /\ verdict' = [verdict EXCEPT ![p] = NoVerdict]
    /\ moved' = IF check[p].pc # "none" THEN moved \cup {p} ELSE moved
    /\ UNCHANGED <<check, template, stored, checks, tried>>

\* check(), with the challenge and the progress of that moment.
Click(p, a) ==
    /\ panel[p].shown = "yes" /\ check[p].pc = "none" /\ checks < MaxChecks
    /\ check' = [check EXCEPT
            ![p] = [pc |-> "parse", asked |-> panel[p].index, answer |-> a, variant |-> 0,
                    progress |-> panel[p].progress]]
    /\ checks' = checks + 1
    /\ verdict' = [verdict EXCEPT ![p] = NoVerdict]
    /\ tried' = tried \cup {<<panel[p].index, a>>}
    /\ UNCHANGED <<panel, template, stored, moved>>

\* A mistake the runs must catch: the challenge that is on the screen by now.
Shown(p) == panel[p].index

\* The challenge a check is of.
Asked(p) == check[p].asked

\* What follows checkAnswer(): the verdict, and the progress of the moment of
\* the click with one more challenge; of a panel that has gone only storage
\* keeps it.
Ends(p, status) ==
    LET done == check[p].progress \cup {Asked(p)} IN
    /\ check' = [check EXCEPT ![p] = NoCheck]
    /\ IF panel[p].shown = "yes"
       THEN /\ verdict' = [verdict EXCEPT ![p] = Verdict(check[p], status)]
            /\ panel' = IF status = "correct" THEN [panel EXCEPT ![p].progress = done] ELSE panel
       ELSE UNCHANGED <<verdict, panel>>
    /\ stored' \in IF status = "correct" THEN {done, stored} ELSE {stored}

\* One query that reads, or the answer is refused.
Parse(p) ==
    /\ check[p].pc = "parse"
    /\ IF check[p].answer.kind = "read"
       THEN check' = [check EXCEPT ![p].pc = "open"] /\ UNCHANGED <<panel, verdict, stored>>
       ELSE Ends(p, "invalid")
    /\ UNCHANGED <<template, checks, tried, moved>>

\* open(): the template is made once, and that it could not be made is
\* remembered; it is cloned and seeded, unless that fails.
OpenVariant(p) ==
    /\ check[p].pc = "open"
    /\ template' = [template EXCEPT ![p] = IF @ = "none" THEN "open" ELSE @]
    /\ check' = IF template'[p] = "open" THEN [check EXCEPT ![p].pc = "compare"]
                                         ELSE [check EXCEPT ![p] = NoCheck]
    /\ UNCHANGED <<panel, verdict, stored, checks, tried, moved>>

OpenFails(p) ==
    /\ check[p].pc = "open"
    /\ template' \in {template, [template EXCEPT ![p] = IF @ = "none" THEN "failed" ELSE @]}
    /\ check' = [check EXCEPT ![p] = NoCheck]
    /\ UNCHANGED <<panel, verdict, stored, checks, tried, moved>>

\* Both queries on the copy of a variant, then the next variant.
RunBoth(p) ==
    LET c == check[p]
        actual == c.answer.returns[c.variant]
        reason == Compare(Questions[c.asked].solution[c.variant], actual, Questions[c.asked].ordered)
    IN
    /\ c.pc = "compare"
    /\ IF ~actual.ok THEN Ends(p, "invalid")
       ELSE IF reason # "none" THEN Ends(p, reason)
       ELSE IF c.variant + 1 \notin Variant THEN Ends(p, "correct")
       ELSE /\ check' = [check EXCEPT ![p].pc = "open", ![p].variant = @ + 1]
            /\ UNCHANGED <<panel, verdict, stored>>
    /\ UNCHANGED <<template, checks, tried, moved>>

Init ==
    /\ panel = [p \in Panels |-> [shown |-> "no", index |-> 1, progress |-> {}]]
    /\ verdict = [p \in Panels |-> NoVerdict]
    /\ check = [p \in Panels |-> NoCheck]
    /\ template = [p \in Panels |-> "none"]
    /\ stored = {} /\ checks = 0 /\ tried = {} /\ moved = {}

Next ==
    \E p \in Panels :
        \/ Mount(p) \/ Unmount(p)
        \/ \E q \in DOMAIN Questions : Go(p, q)
        \/ \E a \in Answers : Click(p, a)
        \/ Parse(p) \/ OpenVariant(p) \/ OpenFails(p) \/ RunBoth(p)

Spec == Init /\ [][Next]_vars

-----------------------------------------------------------------------------
\* What a verdict should say: the rows of both queries can be paired, in
\* order if the order counts.
Agree(expected, actual, ordered) ==
    /\ actual.ok /\ expected.columns = actual.columns
    /\ Len(expected.rows) = Len(actual.rows)
    /\ \E pairing \in [DOMAIN expected.rows -> DOMAIN expected.rows] :
          /\ \A i, j \in DOMAIN pairing : pairing[i] = pairing[j] => i = j
          /\ \A i \in DOMAIN pairing : expected.rows[i] = actual.rows[pairing[i]]
          /\ ordered => \A i \in DOMAIN pairing : pairing[i] = i

Solves(q, a) ==
    /\ a.kind = "read"
    /\ \A v \in Variant : Agree(Questions[q].solution[v], a.returns[v], Questions[q].ordered)

\* A verdict is right: it says "correct" of what solves the challenge in every
\* variant, and otherwise names the first variant in which it does not.  It
\* stands under the challenge it is of, unless the learner went to another
\* while it was awaited.  And whatever panel was left, entered or moved
\* meanwhile, in one tab or two, only what was solved counts as solved.
JudgedRightly ==
    /\ \A p \in Panels :
          LET v == verdict[p]
              agrees(w) == Agree(Questions[v.asked].solution[w], v.answer.returns[w],
                                 Questions[v.asked].ordered)
          IN v.status # "none" =>
                /\ v.asked = panel[p].index \/ p \in moved
                /\ v.status = "correct" <=> Solves(v.asked, v.answer)
                /\ v.status # "correct" /\ v.answer.kind = "read" =>
                      ~agrees(v.variant) /\ \A w \in 0..(v.variant - 1) : agrees(w)
    /\ \A q \in stored \cup UNION {panel[p].progress : p \in Panels} :
          \E t \in tried : t[1] = q /\ Solves(q, t[2])

=============================================================================
