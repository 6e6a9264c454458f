--------------------------------- MODULE Plans ---------------------------------
(***************************************************************************)
(* What is read out of an analysed plan: packages/explain (parse.ts,       *)
(* plan.ts, insights.ts), and the bars of PlanPanel.                       *)
(*                                                                         *)
(* The server is external: it ran a plan, of which `plan` keeps, in the    *)
(* order of walk(), what every node did over all its loops.  What it       *)
(* reports of a node are averages per loop, rounded; the estimate of its   *)
(* rows is per loop too.  Time is in thousandths of a millisecond.         *)
(***************************************************************************)
EXTENDS Integers, Sequences, FiniteSets, SequencesExt

CONSTANTS
    RowCounts,      \* what a node may produce, or (but none) be expected to in a loop
    OwnTimes,       \* the time it may take for itself
    Discards,       \* the rows its filter may remove
    MaxNodes        \* the nodes of a plan

\* What the constants must be (assumed by the instance).
PlansAssumption ==
    RowCounts \cup OwnTimes \cup Discards \cup {MaxNodes} \subseteq Nat

VARIABLE plan

Kinds == {"Seq Scan", "Aggregate", "Nested Loop"}
Width(kind) == CASE kind = "Seq Scan" -> 0 [] kind = "Aggregate" -> 1 [] kind = "Nested Loop" -> 2

Nodes == DOMAIN plan
Children(i) == {j \in Nodes : plan[j].parent = i}

-----------------------------------------------------------------------------
(***************************************************************************)
(* The server                                                              *)
(***************************************************************************)

\* The node that still lacks a child, which comes next.
Lacking == {i \in Nodes : Cardinality(Children(i)) < Width(plan[i].kind)}
Complete == plan # <<>> /\ Lacking = {}

\* The inner side of a nested loop runs once for each row of the outer side,
\* every other node as often as its parent.
LoopsOf(parent) ==
    IF parent = 0 THEN 1
    ELSE IF plan[parent].kind = "Nested Loop" /\ Children(parent) # {}
         THEN plan[Max(Children(parent))].rows
         ELSE plan[parent].loops

Plan(kind) ==
    LET parent == IF plan = <<>> THEN 0 ELSE Max(Lacking)
        loops == LoopsOf(parent)
    IN
    /\ plan = <<>> \/ Lacking # {}
    /\ \E rows \in RowCounts, expected \in RowCounts \ {0}, work \in OwnTimes, removed \in Discards :
          /\ removed > 0 => kind = "Seq Scan"
          /\ loops = 0 => rows = 0 /\ work = 0 /\ removed = 0
          /\ plan' = Append(plan,
                [kind |-> kind, parent |-> parent, loops |-> loops, rows |-> rows,
                 expected |-> expected, work |-> work, removed |-> removed])
    /\ Len(plan') + Cardinality(Lacking') <= MaxNodes

\* The time of a node, with all below it.
Below(i) == {j \in Nodes : j >= i /\ \A k \in (i + 1)..j : plan[k].parent >= i}
Elapsed(i) == MapThenSumSet(LAMBDA j : plan[j].work, Below(i))

PerLoop(n, loops) == IF loops = 0 THEN 0 ELSE (2 * n + loops) \div (2 * loops)

Reported(i) ==
    [kind |-> plan[i].kind, loops |-> plan[i].loops, expected |-> plan[i].expected,
     rows |-> PerLoop(plan[i].rows, plan[i].loops),
     removed |-> PerLoop(plan[i].removed, plan[i].loops),
     time |-> PerLoop(Elapsed(i), plan[i].loops)]

-----------------------------------------------------------------------------
(***************************************************************************)
(* parsePlan                                                               *)
(***************************************************************************)

\* A mistake the runs must catch: the time of the children is kept in it.
SelfWithChildren(totalMs, childrenMs) == totalMs

SelfMs(totalMs, childrenMs) == IF totalMs > childrenMs THEN totalMs - childrenMs ELSE 0

\* A node, before those that come after it, its children among them.  What is
\* reported is turned into totals over all the loops; but not what was removed.
ParseNode(i, later) ==
    LET raw == Reported(i)
        totalMs == raw.time * raw.loops
        childrenMs == MapThenSumSet(LAMBDA j : later[j - i].totalMs, Children(i))
    IN  <<[kind |-> raw.kind, estimated |-> raw.expected, removed |-> raw.removed,
           loops |-> raw.loops, rows |-> raw.rows * raw.loops,
           totalMs |-> totalMs, selfMs |-> SelfMs(totalMs, childrenMs)]>> \o later

ParsePlan == FoldRight(ParseNode, [i \in Nodes |-> i], <<>>)

-----------------------------------------------------------------------------
(***************************************************************************)
(* planInsights                                                            *)
(***************************************************************************)
MinRows == 500
MisestimationFactor == 10
ManyLoops == 1000

Larger(a, b) == IF a > b THEN a ELSE b

\* Whether one is some times the other, where it matters.
FarApart(estimated, rows) ==
    /\ Larger(rows, estimated) >= MinRows
    /\ \/ Larger(rows, 1) >= MisestimationFactor * Larger(estimated, 1)
       \/ Larger(estimated, 1) >= MisestimationFactor * Larger(rows, 1)

Misestimation(node) == FarApart(node.estimated, node.rows)

\* Nine tenths of what was read were removed.
WastedScan(node) ==
    /\ node.kind = "Seq Scan"
    /\ node.removed + node.rows >= MinRows
    /\ 10 * node.removed >= 9 * (node.removed + node.rows)

RepeatedLoops(node) == node.loops >= ManyLoops

\* The first node, in the order of walk(), that took most for itself, when
\* that is half of the whole.
Dominant(nodes) ==
    {i \in DOMAIN nodes :
        /\ \A j \in DOMAIN nodes :
              nodes[j].selfMs < nodes[i].selfMs \/ (nodes[j].selfMs = nodes[i].selfMs /\ i <= j)
        /\ nodes[1].totalMs > 0 /\ 2 * nodes[i].selfMs >= nodes[1].totalMs}

\* What is said of a plan: of a node, or of where the time goes.
PlanInsights(nodes) ==
    {<<"misestimation", i>> : i \in {i \in DOMAIN nodes : Misestimation(nodes[i])}}
    \cup {<<"wasted-seq-scan", i>> : i \in {i \in DOMAIN nodes : WastedScan(nodes[i])}}
    \cup {<<"many-loops", i>> : i \in {i \in DOMAIN nodes : RepeatedLoops(nodes[i])}}
    \cup {<<"dominant-node", i>> : i \in Dominant(nodes)}

\* The bars of the tree, together: each node has the time it took for itself.
Bars(nodes) == MapThenSumSet(LAMBDA i : nodes[i].selfMs, DOMAIN nodes)

-----------------------------------------------------------------------------
Init == plan = <<>>

Next == \E kind \in Kinds : Plan(kind)

Spec == Init /\ [][Next]_plan

-----------------------------------------------------------------------------
\* What rounding may add up to: half a unit in every loop of a node, twice.
Rounding == MapThenSumSet(LAMBDA i : plan[i].loops, Nodes)

\* What the plan is said to show is what happened, however its loops nest: the
\* bars of the tree share out the time of the root, up to what rounding the
\* averages costs; the node where the time is said to go did take half of it;
\* a scan that is said to read in vain removed nine tenths of what it read;
\* and, for a node that ran once, the estimate was off exactly when it is said
\* to have been.
PlanIsReadRightly ==
    Complete =>
        LET nodes == ParsePlan
            said == PlanInsights(nodes)
        IN
        /\ Bars(nodes) - nodes[1].totalMs \in -Rounding..Rounding
        /\ \A i \in Nodes :
              /\ <<"dominant-node", i>> \in said => 2 * (plan[i].work + Rounding) >= Elapsed(1)
              /\ <<"wasted-seq-scan", i>> \in said =>
                    10 * (plan[i].removed + plan[i].loops) >= 9 * (plan[i].removed + plan[i].rows)
              /\ plan[i].loops = 1 =>
                    (<<"misestimation", i>> \in said <=> FarApart(plan[i].expected, plan[i].rows))

\* "The planner's estimate against what really came out": it expected so many
\* rows of each loop, and the loops together brought another number.
MisestimationIsReal ==
    Complete =>
        LET said == PlanInsights(ParsePlan) IN
        \A i \in Nodes :
            <<"misestimation", i>> \in said /\ plan[i].loops > 0 =>
                FarApart(plan[i].expected * plan[i].loops, plan[i].rows)

=============================================================================
