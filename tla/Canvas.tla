--------------------------------- MODULE Canvas ---------------------------------
(***************************************************************************)
(* Where the tables of the canvas are: components/canvas/layout.ts and     *)
(* SchemaCanvas.tsx in apps/web, over the store of the workspace.          *)
(*                                                                         *)
(* The positions are in the store.  An effect, which runs some time after  *)
(* the render whose snapshot and positions it has, places what has none:   *)
(* all the tables by a layout that takes its time, when none is placed,    *)
(* otherwise the new ones beside the others.  The user moves tables, asks  *)
(* for a layout, looks at the past and starts over.                        *)
(*                                                                         *)
(* Of a table, the number of its columns is kept, which gives its height,  *)
(* and what it refers to; ids grow with the catalog, and start over with   *)
(* it.  The layout library is external.                                    *)
(***************************************************************************)
EXTENDS Integers, Sequences, FiniteSets, FiniteSetsExt

CONSTANTS
    Tables,         \* ids, a set of numbers
    Relations,      \* pairs of a child and its parent
    ColumnCounts,   \* of each table, how many it may have
    Seeds,          \* what a new database may have, as snapshots
    Drops,          \* where the user drops a table
    MaxSteps        \* bound: what the user does

\* What the constants must be (assumed by the instance).
CanvasAssumption ==
    /\ Tables \subseteq Nat /\ Relations \subseteq Tables \X Tables
    /\ ColumnCounts \in [Tables -> SUBSET Nat] /\ MaxSteps \in Nat
    /\ \A seed \in Seeds :
          DOMAIN seed \subseteq Tables /\ \A t \in DOMAIN seed : seed[t] \in ColumnCounts[t]

VARIABLES
    snapshot,   \* the tables of the database: of each, how many columns
    past,       \* the snapshots of the runs
    viewing,    \* the snapshot of a moment, or Present
    positions,  \* of each table, or Nowhere
    rendered,   \* what the last render had: the tables shown and the positions
    renewed,    \* whether they are other objects by now, be they equal
    effect,     \* whether its effect has still to run
    generation, \* the number of the newest layout
    layouts,    \* the layouts in progress
    starting,   \* whether a new database is on its way
    room,       \* of two tables, the columns of the first when they were laid
                \* clear of each other, or NoRoom (history)
    failed,     \* whether a layout failed
    steps

store == <<snapshot, past, viewing, positions>>
view == <<rendered, renewed, effect>>
laying == <<generation, layouts>>
ghosts == <<room, failed>>
vars == <<store, view, laying, starting, ghosts, steps>>

Nowhere == [x |-> 0, y |-> -1000]
Present == [t \in Tables \cup {0} |-> 0]
Shown == IF viewing = Present THEN snapshot ELSE viewing

Snapshot ==
    UNION {{s \in [some -> UNION {ColumnCounts[t] : t \in Tables}] :
                \A t \in some : s[t] \in ColumnCounts[t]} : some \in SUBSET Tables}

-----------------------------------------------------------------------------
(***************************************************************************)
(* Geometry                                                                *)
(***************************************************************************)
NodeWidth == 260
NodeHeight(columns) == 38 + 26 * columns + 8
GapX == 90
GapY == 36

Overlap(shown, t, at, u, p) ==
    /\ at.x < p.x + NodeWidth + GapX \div 2 /\ p.x < at.x + NodeWidth + GapX \div 2
    /\ at.y < p.y + NodeHeight(shown[u]) + GapY /\ p.y < at.y + NodeHeight(shown[t]) + GapY

\* The layout library: parents to the left of their children, nothing overlaps.
Layered(target) ==
    [t \in DOMAIN target |->
        [x |-> (NodeWidth + GapX) *
                   Cardinality({u \in DOMAIN target : <<t, u>> \in Relations /\ u # t}),
         y |-> MapThenSumSet(LAMBDA u : NodeHeight(target[u]) + GapY,
                             {u \in DOMAIN target : u < t})]]

Placed(at, tables) == {t \in tables : at[t] # Nowhere}

\* To the right of a parent, else to the left of a child, else of everything.
Beside(t, shown, at) ==
    LET parents == {u \in Placed(at, DOMAIN shown) : <<t, u>> \in Relations /\ u # t}
        children == {u \in Placed(at, DOMAIN shown) : <<u, t>> \in Relations /\ u # t}
        all == {at[u] : u \in Placed(at, Tables)}
    IN  CASE parents # {} -> [at[Min(parents)] EXCEPT !.x = @ + NodeWidth + GapX]
          [] parents = {} /\ children # {} -> [at[Min(children)] EXCEPT !.x = @ - NodeWidth - GapX]
          [] parents \cup children = {} ->
                [x |-> Max({p.x : p \in all}) + NodeWidth + GapX, y |-> Min({p.y : p \in all})]

\* A mistake the runs must catch: a table lands on what is there.
FirstTry(t, shown, at) == Beside(t, shown, at)

\* Down from there, to where it overlaps no table that is shown.
FreePlace(t, shown, at) ==
    LET from == Beside(t, shown, at)
        Down(n) == [from EXCEPT !.y = @ + n * GapY]
        Free(n) == \A u \in Placed(at, DOMAIN shown) \ {t} : ~Overlap(shown, t, Down(n), u, at[u])
    IN  Down(CHOOSE n \in 0..100 : Free(n) /\ \A m \in 0..(n - 1) : ~Free(m))

\* One after the other: each sees where those before it went.
PlaceNewTables(shown, at) ==
    LET place[t \in 0..Max(Tables \cup {0})] ==
            IF t = 0 THEN at
            ELSE IF t \in DOMAIN shown /\ at[t] = Nowhere
                 THEN [place[t - 1] EXCEPT ![t] = FreePlace(t, shown, place[t - 1])]
                 ELSE place[t - 1]
    IN  place[Max(Tables \cup {0})]

-----------------------------------------------------------------------------
(***************************************************************************)
(* The canvas                                                              *)
(***************************************************************************)
Acts == steps < MaxSteps /\ steps' = steps + 1

\* React has run the effect of a render before it renders again.
Render ==
    /\ ~effect /\ (renewed \/ rendered.shown # Shown)
    /\ rendered' = [shown |-> Shown, at |-> positions]
    /\ renewed' = FALSE /\ effect' = TRUE
    /\ UNCHANGED <<store, laying, starting, ghosts, steps>>

LayoutFully(target) ==
    /\ generation' = generation + 1
    /\ layouts' = layouts \cup {[number |-> generation + 1, target |-> target]}

\* The pairs of which one is among some are laid anew, clear of each other
\* where both are among clear, as high as they are in shown.
NoRoom == -1
LayAnew(some, clear, shown) ==
    room' = [pair \in Tables \X Tables |->
                CASE ~(\E t \in some : t \in {pair[1], pair[2]}) -> room[pair]
                  [] {pair[1], pair[2]} \subseteq clear          -> shown[pair[1]]
                  [] OTHER                                       -> NoRoom]

\* Place what has no position yet.
Effect ==
    LET tables == DOMAIN rendered.shown
        unplaced == tables \ Placed(rendered.at, tables)
        found == PlaceNewTables(rendered.shown, rendered.at)
        still == {t \in tables : t \in unplaced \/ positions[t] = rendered.at[t]}
    IN
    /\ effect /\ effect' = FALSE
    /\ \/ /\ unplaced = {}
          /\ UNCHANGED <<positions, renewed, laying, room>>
       \/ /\ unplaced # {} /\ unplaced = tables
          /\ LayoutFully(rendered.shown)
          /\ UNCHANGED <<positions, renewed, room>>
       \/ /\ unplaced # {} /\ unplaced # tables
          /\ positions' = [t \in Tables |-> IF t \in unplaced THEN found[t] ELSE positions[t]]
          /\ renewed' = TRUE
          /\ LayAnew(unplaced, still, rendered.shown)
          /\ UNCHANGED laying
    /\ UNCHANGED <<snapshot, past, viewing, rendered, starting, failed, steps>>

\* Reorganizar; no click is as quick as an effect.
Relayout ==
    /\ ~effect /\ DOMAIN rendered.shown # {} /\ Acts
    /\ LayoutFully(rendered.shown)
    /\ UNCHANGED <<store, view, starting, ghosts>>

\* Only the newest layout is applied.
Land(l) ==
    IF l.number = generation
    THEN /\ positions' = [t \in Tables |-> IF t \in DOMAIN l.target THEN Layered(l.target)[t]
                                           ELSE positions[t]]
         /\ renewed' = TRUE
         /\ LayAnew(DOMAIN l.target, DOMAIN l.target, l.target)
    ELSE UNCHANGED <<positions, renewed, room>>

LayoutEnds(l) ==
    /\ l \in layouts /\ layouts' = layouts \ {l}
    /\ Land(l)
    /\ UNCHANGED <<snapshot, past, viewing, rendered, effect, generation, starting, failed, steps>>

LayoutFails(l) ==
    /\ l \in layouts /\ layouts' = layouts \ {l}
    /\ failed' = TRUE
    /\ UNCHANGED <<store, view, generation, starting, room, steps>>

\* A drag ends, of a table that is drawn.
Drag(t, p) ==
    /\ t \in Placed(rendered.at, DOMAIN rendered.shown) /\ Acts
    /\ positions' = [positions EXCEPT ![t] = p]
    /\ renewed' = TRUE
    /\ LayAnew({t}, {}, rendered.shown)
    /\ UNCHANGED <<snapshot, past, viewing, rendered, effect, laying, starting, failed>>

-----------------------------------------------------------------------------
(***************************************************************************)
(* The workspace                                                           *)
(***************************************************************************)

\* A script drops and creates tables and changes the columns of others; new
\* ones have new ids.
Script(new) ==
    LET used == DOMAIN snapshot \cup UNION {DOMAIN past[i] : i \in DOMAIN past} IN
    /\ ~starting /\ new # snapshot /\ Acts
    /\ \A t \in DOMAIN new \ DOMAIN snapshot : \A u \in used : t > u
    /\ snapshot' = new /\ past' = Append(past, new) /\ viewing' = Present
    /\ renewed' = TRUE
    /\ UNCHANGED <<positions, rendered, effect, laying, starting, ghosts>>

TimeTravel ==
    /\ Acts
    /\ viewing' \in {past[i] : i \in DOMAIN past} \cup {Present} /\ viewing' # viewing
    /\ UNCHANGED <<snapshot, past, positions, view, laying, starting, ghosts>>

Reset ==
    /\ ~starting /\ Acts
    /\ starting' = TRUE
    /\ past' = <<>> /\ viewing' = Present
    /\ UNCHANGED <<snapshot, positions, view, laying, ghosts>>

Unplaced == [t \in Tables |-> Nowhere]
NoTables == [t \in {} |-> 0]
Anywhere == [pair \in Tables \X Tables |-> NoRoom]

Open ==
    /\ starting /\ starting' = FALSE
    /\ snapshot' \in Seeds
    /\ positions' = Unplaced /\ renewed' = TRUE
    /\ room' = Anywhere /\ failed' = FALSE
    /\ UNCHANGED <<past, viewing, rendered, effect, laying, steps>>

Init ==
    /\ snapshot = NoTables /\ past = <<>> /\ viewing = Present
    /\ positions = Unplaced
    /\ rendered = [shown |-> NoTables, at |-> Unplaced]
    /\ renewed = FALSE /\ effect = FALSE
    /\ generation = 0 /\ layouts = {}
    /\ starting = TRUE
    /\ room = Anywhere /\ failed = FALSE
    /\ steps = 0

Next ==
    \/ Render \/ Effect \/ Relayout
    \/ \E l \in layouts : LayoutEnds(l) \/ LayoutFails(l)
    \/ \E t \in Tables, p \in Drops : Drag(t, p)
    \/ \E new \in Snapshot : Script(new)
    \/ TimeTravel \/ Reset \/ Open

Spec == Init /\ [][Next]_vars

-----------------------------------------------------------------------------
\* Once nothing is in progress, every table shown is placed, unless a layout
\* failed, and of two that were laid clear of each other none lies on the
\* other, unless one has more columns now than it had then: a table that grows
\* stays where it is.  (What the user drags is laid clear of nothing.  A layout
\* knows nothing of the tables that were placed while it was computed, nor of
\* those that are not shown.)
CanvasSettles ==
    ~effect /\ ~renewed /\ rendered.shown = Shown /\ layouts = {} /\ ~failed =>
        /\ Placed(positions, DOMAIN Shown) = DOMAIN Shown
        /\ \A t, u \in DOMAIN Shown :
              t # u /\ Shown[t] <= room[t, u] /\ Shown[u] <= room[u, t] =>
                  ~Overlap(Shown, t, positions[t], u, positions[u])

=============================================================================
