------------------------------ MODULE SchemaTools ------------------------------
(***************************************************************************)
(* What SQLScope computes from the schema of a database: its snapshot and  *)
(* the difference of two of them (packages/core), the SQL that rebuilds it *)
(* (export/ddl.ts), what the canvas highlights, joins and places           *)
(* (apps/web), and the findings of the report (packages/security-rules).   *)
(*                                                                         *)
(* The database is the catalog of PostgreSQL, which refers to everything   *)
(* by number; statements change it one by one, between one snapshot,       *)
(* `before`, and the next.  Collections of a snapshot are sets: the order  *)
(* they are shown in is left out.                                          *)
(***************************************************************************)
EXTENDS Naturals, Sequences, SequencesExt, FiniteSets, TLC

CONSTANTS
    TableNames,
    ColumnNames,
    TenantNames,   \* those that say whose a row is
    SecretNames,   \* those that hold a secret
    Catalogs,      \* the databases to start from
    MaxStatements  \* bound: statements between two snapshots

\* What the constants must be (assumed by the instance).
SchemaToolsAssumption ==
    /\ "id" \in ColumnNames /\ TenantNames \cup SecretNames \subseteq ColumnNames
    /\ MaxStatements \in Nat

VARIABLES
    catalog,
    before,   \* the catalog when the last snapshot was taken
    count     \* statements since

vars == <<catalog, before, count>>

-----------------------------------------------------------------------------
(***************************************************************************)
(* The catalog of PostgreSQL: columns have a position that is never given  *)
(* again, everything else an oid; names are text, or the oid they were     *)
(* made from.  The index of a key comes and goes with its constraint.      *)
(***************************************************************************)

Empty(id, name) ==
    [id |-> id, name |-> name, width |-> 1,
     columns |-> {[position |-> 1, name |-> "id", type |-> "int", nullable |-> FALSE]},
     constraints |-> {}, indexes |-> {}, rowSecurity |-> [enabled |-> FALSE, forced |-> FALSE],
     policies |-> {}, grants |-> {}]

Put(c, t, u) == [tables |-> (c.tables \ {t}) \cup {u}, next |-> c.next + 1]

\* A policy that names no role is for everyone.
Policy(c) == [id |-> c.next, name |-> ToString(c.next), roles |-> {}]

IsOn(x, position) == \E i \in DOMAIN x.columns : x.columns[i] = position

Keys(t) == {k \in t.constraints : k.kind \in {"primary key", "unique"}}
Foreign(t) == {k \in t.constraints : k.kind = "foreign key"}

\* A foreign key joins the column, from either end.
Joined(c, t, p) ==
    \/ \E k \in Foreign(t) : IsOn(k, p)
    \/ \E u \in c.tables : \E k \in Foreign(u) : k.table = t.id /\ k.target = p

\* Dropping what a foreign key refers to drops the foreign key (CASCADE).
Cascade(c, id, columns) ==
    [c EXCEPT !.tables = {[t EXCEPT !.constraints =
        {k \in @ : ~(k.kind = "foreign key" /\ k.table = id /\ k.target \in columns)}] : t \in @}]

WithoutColumn(t, p) ==
    [t EXCEPT !.columns = {x \in @ : x.position # p},
              !.constraints = {k \in @ : ~IsOn(k, p)},
              !.indexes = {i \in @ : ~IsOn(i, p)}]

\* A new type rebuilds the indexes and the constraints of the column.
Retyped(c, t, x) ==
    [t EXCEPT !.columns = (@ \ {x}) \cup
                  {[x EXCEPT !.type = IF @ = "int" THEN "text" ELSE "int"]},
              !.indexes = {IF IsOn(i, x.position) THEN [i EXCEPT !.id = 10 * c.next + @] ELSE i
                              : i \in @},
              !.constraints = {IF IsOn(k, x.position) THEN [k EXCEPT !.id = 10 * c.next + @]
                               ELSE k : k \in @}]

TableStatements(c) ==
    LET free == TableNames \ {t.name : t \in c.tables} IN
    {[tables |-> c.tables \cup {Empty(c.next, n)}, next |-> c.next + 1] : n \in free}
    \cup UNION {
        {Put(c, t, [t EXCEPT !.name = n]) : n \in free}
        \cup {Cascade([c EXCEPT !.tables = @ \ {t}], t.id, 1..t.width)}
        \cup {Put(c, t, [t EXCEPT !.rowSecurity.enabled = ~@]),
              Put(c, t, [t EXCEPT !.rowSecurity.forced = ~@]),
              Put(c, t, [t EXCEPT !.policies = @ \cup {Policy(c)}])}
        \cup {Put(c, t, [t EXCEPT !.policies = (@ \ {p}) \cup {[p EXCEPT !.roles = {"app"}]}])
                 : p \in t.policies}
        \cup {Put(c, t, [t EXCEPT !.policies = @ \ {p}]) : p \in t.policies}
        : t \in c.tables}

ColumnStatements(c, t) ==
    LET free == ColumnNames \ {x.name : x \in t.columns} IN
    {Put(c, t, [t EXCEPT !.width = @ + 1, !.columns = @ \cup
        {[position |-> t.width + 1, name |-> n, nullable |-> TRUE,
          type |-> IF n \in SecretNames THEN "text" ELSE "int"]}]) : n \in free}
    \cup UNION {
        {Put(c, t, [t EXCEPT !.columns = (@ \ {x}) \cup {[x EXCEPT !.name = n]}]) : n \in free}
        \cup (IF Cardinality(t.columns) = 1 THEN {}
              ELSE {Cascade(Put(c, t, WithoutColumn(t, x.position)), t.id, {x.position})})
        \cup (IF Joined(c, t, x.position) THEN {} ELSE {Put(c, t, Retyped(c, t, x))})
        : x \in t.columns}

\* What a foreign key may refer to: a key, or a unique index.
Referable(u) ==
    {k.columns[1] : k \in Keys(u)}
    \cup {i.columns[1] : i \in {j \in u.indexes : j.unique /\ Len(j.columns) = 1}}

Constraint(c, kind, x, u, p) ==
    [id |-> c.next, name |-> ToString(c.next), kind |-> kind, columns |-> <<x.position>>,
     table |-> u, target |-> p, deferrable |-> FALSE]

AddConstraint(t, k) == [t EXCEPT !.constraints = @ \cup {k}]

\* A primary key makes its column not null.
AddPrimaryKey(c, t, x) ==
    Put(c, t, [AddConstraint(t, Constraint(c, "primary key", x, 0, 0))
                 EXCEPT !.columns = (@ \ {x}) \cup {[x EXCEPT !.nullable = FALSE]}])

DropConstraint(c, t, k) ==
    LET d == Put(c, t, [t EXCEPT !.constraints = @ \ {k}])
    IN  IF k \in Keys(t) THEN Cascade(d, t.id, {k.columns[1]}) ELSE d

\* ADD, DROP, RENAME and ALTER CONSTRAINT: the last changes what the
\* constraint says and keeps its oid.
ConstraintStatements(c, t) ==
    (IF \E k \in t.constraints : k.kind = "primary key" THEN {}
     ELSE {AddPrimaryKey(c, t, x) : x \in t.columns})
    \cup {Put(c, t, AddConstraint(t, Constraint(c, "unique", x, 0, 0))) : x \in t.columns}
    \cup UNION {{Put(c, t, AddConstraint(t, Constraint(c, "foreign key", x, u.id, y.position)))
                    : y \in {y \in u.columns : y.position \in Referable(u) /\ x.type = y.type}}
                 : x \in t.columns, u \in c.tables}
    \cup {DropConstraint(c, t, k) : k \in t.constraints}
    \cup {Put(c, t, [t EXCEPT !.constraints = (@ \ {k}) \cup {[k EXCEPT !.name = ToString(c.next)]}])
             : k \in t.constraints}
    \cup {Put(c, t, [t EXCEPT !.constraints = (@ \ {k}) \cup {[k EXCEPT !.deferrable = ~@]}])
             : k \in Foreign(t)}

CreateIndex(c, t, columns, unique) ==
    Put(c, t, [t EXCEPT !.indexes = @ \cup
        {[id |-> c.next, name |-> ToString(c.next), columns |-> columns, unique |-> unique]}])

IndexStatements(c, t) ==
    {CreateIndex(c, t, s, unique)
        : s \in {<<x.position>> : x \in t.columns}
               \cup UNION {{<<x.position, y.position>>
                               : y \in {y \in t.columns : x.position < y.position}}
                            : x \in t.columns},
          unique \in BOOLEAN}
    \cup {Put(c, t, [t EXCEPT !.indexes = @ \ {i}]) : i \in {j \in t.indexes : ~j.unique}}
    \cup {Put(c, t, [t EXCEPT !.indexes = (@ \ {i}) \cup {[i EXCEPT !.name = ToString(c.next)]}])
             : i \in t.indexes}

\* GRANT to everyone; REVOKE from one grantee, on every table.
GrantStatements(c) ==
    UNION {{Put(c, t, [t EXCEPT !.grants = @ \cup {g}]) : g \in
              ({"PUBLIC", "app"} \X {"SELECT", "TRUNCATE"}) \ t.grants} : t \in c.tables}
    \cup {[c EXCEPT !.tables = {[t EXCEPT !.grants = {g \in @ : g[1] # who}] : t \in @}]
             : who \in {"PUBLIC", "app"}}

Statements(c) ==
    TableStatements(c) \cup GrantStatements(c)
    \cup UNION {ColumnStatements(c, t) \cup ConstraintStatements(c, t) \cup IndexStatements(c, t)
                   : t \in c.tables}

-----------------------------------------------------------------------------
(***************************************************************************)
(* The snapshot                                                            *)
(***************************************************************************)

NameOf(t, p) == (CHOOSE x \in t.columns : x.position = p).name

NamesOf(t, columns) == [i \in DOMAIN columns |-> NameOf(t, columns[i])]

Reference(c, k) ==
    IF k.kind # "foreign key" THEN [name |-> "", columns |-> <<>>]
    ELSE LET u == CHOOSE u \in c.tables : u.id = k.table
         IN  [name |-> u.name, columns |-> <<NameOf(u, k.target)>>]

\* toConstraint(); the definition is the text of all of it.
ConstraintSnapshot(c, t, k) ==
    [id |-> k.id, name |-> k.name, kind |-> k.kind, columns |-> NamesOf(t, k.columns),
     references |-> Reference(c, k), deferrable |-> k.deferrable]

\* The index of a key bears the name of its constraint.
KeyIndexes(constraints) ==
    {[id |-> k.id, name |-> k.name, columns |-> k.columns, unique |-> TRUE, constraint |-> TRUE]
        : k \in {k \in constraints : k.kind # "foreign key"}}

OwnIndex(t, i) ==
    [id |-> i.id, name |-> i.name, columns |-> NamesOf(t, i.columns), unique |-> i.unique,
     constraint |-> FALSE]

\* toPolicy().
ToPolicy(p) == [p EXCEPT !.roles = IF @ = {} THEN {"public"} ELSE @]

Constraints(c, t) == {ConstraintSnapshot(c, t, k) : k \in t.constraints}

Policies(t) == {ToPolicy(p) : p \in t.policies}

TableSnapshot(c, t) ==
    LET constraints == Constraints(c, t) IN
    [id |-> t.id, name |-> t.name, columns |-> t.columns, constraints |-> constraints,
     indexes |-> KeyIndexes(constraints) \cup {OwnIndex(t, i) : i \in t.indexes},
     rowSecurity |-> t.rowSecurity, policies |-> Policies(t)]

Snapshot(c) == {TableSnapshot(c, t) : t \in c.tables}

-----------------------------------------------------------------------------
(***************************************************************************)
(* The difference of two snapshots, as a set of changes.  A change of a    *)
(* table that stays calls it by its new name.                              *)
(***************************************************************************)

\* A mistake the runs must catch: a renamed object is another one.
MatchedByName(x, y) == x.name = y.name

\* By identity, so that a rename is a rename.
Matched(x, y) == x.id = y.id

Without(xs, ys) == {x \in xs : ~\E y \in ys : Matched(x, y)}

Kept(xs, ys) == {m \in xs \X ys : Matched(m[1], m[2])}

Standalone(indexes) == {i \in indexes : ~i.constraint}

Renames(type, table, kept) ==
    {[type |-> type, table |-> table, from |-> m[1].name, to |-> m[2].name]
        : m \in {m \in kept : m[1].name # m[2].name}}

IndexChanges(table, xs, ys) ==
    {[type |-> "index-dropped", table |-> table, index |-> x] : x \in Without(xs, ys)}
    \cup {[type |-> "index-created", table |-> table, index |-> y] : y \in Without(ys, xs)}
    \cup Renames("index-renamed", table, Kept(xs, ys))

ConstraintChanges(table, xs, ys) ==
    {[type |-> "constraint-dropped", table |-> table, constraint |-> x] : x \in Without(xs, ys)}
    \cup {[type |-> "constraint-added", table |-> table, constraint |-> y] : y \in Without(ys, xs)}
    \cup Renames("constraint-renamed", table, Kept(xs, ys))

\* alteredAttributes().
Altered(x, y) == {a \in {"type", "nullable"} : x[a] # y[a]}

\* Columns are matched by their position.
ColumnChanges(table, xs, ys) ==
    LET Lacking(these, those) == {x \in these : \A y \in those : x.position # y.position}
        kept == {m \in xs \X ys : m[1].position = m[2].position}
    IN  {[type |-> "column-dropped", table |-> table, column |-> x] : x \in Lacking(xs, ys)}
        \cup {[type |-> "column-added", table |-> table, column |-> y] : y \in Lacking(ys, xs)}
        \cup Renames("column-renamed", table, kept)
        \cup {[type |-> "column-altered", table |-> table, before |-> m[1], after |-> m[2],
               changed |-> Altered(m[1], m[2])]
                 : m \in {m \in kept : Altered(m[1], m[2]) # {}}}

PolicyChanges(table, xs, ys) ==
    {[type |-> "policy-dropped", table |-> table, policy |-> x] : x \in Without(xs, ys)}
    \cup {[type |-> "policy-created", table |-> table, policy |-> y] : y \in Without(ys, xs)}
    \cup {[type |-> "policy-changed", table |-> table, before |-> m[1], after |-> m[2]]
             : m \in {m \in Kept(xs, ys) : m[1] # m[2]}}

DiffTable(t, u) ==
    IndexChanges(u.name, Standalone(t.indexes), Standalone(u.indexes))
    \cup ConstraintChanges(u.name, t.constraints, u.constraints)
    \cup ColumnChanges(u.name, t.columns, u.columns)
    \cup PolicyChanges(u.name, t.policies, u.policies)
    \cup (IF t.rowSecurity = u.rowSecurity THEN {}
          ELSE {[type |-> "row-security-changed", table |-> u.name,
                 before |-> t.rowSecurity, after |-> u.rowSecurity]})

Diff(prev, next) ==
    {[type |-> "table-dropped", table |-> t] : t \in Without(prev, next)}
    \cup {[type |-> "table-created", table |-> t] : t \in Without(next, prev)}
    \cup {[type |-> "table-renamed", from |-> m[1].name, to |-> m[2].name]
             : m \in {m \in Kept(prev, next) : m[1].name # m[2].name}}
    \cup UNION {DiffTable(m[1], m[2]) : m \in Kept(prev, next)}

-----------------------------------------------------------------------------
(***************************************************************************)
(* What a difference says: the schema a reader of it has in the end.       *)
(***************************************************************************)

Of(changes, type) == {d \in changes : d.type = type}

Renamed(changes, type, name) ==
    LET mine == {d \in Of(changes, type) : d.from = name}
    IN  IF mine = {} THEN name ELSE (CHOOSE d \in mine : TRUE).to

Replayed(t, changes) ==
    LET ColumnOf(table, name) ==
            Renamed({d \in Of(changes, "column-renamed") : d.table = Renamed(changes, "table-renamed", table)},
                    "column-renamed", name)
        now == Renamed(changes, "table-renamed", t.name)
        mine == {d \in changes : d.type \notin {"table-dropped", "table-created", "table-renamed"}
                                   /\ d.table = now}
        Columns(columns) == [i \in DOMAIN columns |-> ColumnOf(t.name, columns[i])]
        After(x) ==
            LET altered == {d \in Of(mine, "column-altered") : d.before = x}
            IN  IF altered = {} THEN x
                ELSE LET d == CHOOSE d \in altered : TRUE
                     IN  [a \in DOMAIN x |-> IF a \in d.changed THEN d.after[a] ELSE x[a]]
        Follow(k) ==
            [k EXCEPT !.name = Renamed(mine, "constraint-renamed", @), !.columns = Columns(@),
                      !.references = IF k.kind # "foreign key" THEN @ ELSE
                         [name |-> Renamed(changes, "table-renamed", @.name),
                          columns |-> <<ColumnOf(@.name, @.columns[1])>>]]
        constraints ==
            {Follow(k) : k \in t.constraints \ {d.constraint : d \in Of(mine, "constraint-dropped")}}
            \cup {d.constraint : d \in Of(mine, "constraint-added")}
    IN  [t EXCEPT
            !.name = now,
            !.columns =
                {[After(x) EXCEPT !.name = Renamed(mine, "column-renamed", @)]
                    : x \in @ \ {d.column : d \in Of(mine, "column-dropped")}}
                \cup {d.column : d \in Of(mine, "column-added")},
            !.constraints = constraints,
            !.indexes =
                {[i EXCEPT !.name = Renamed(mine, "index-renamed", @), !.columns = Columns(@)]
                    : i \in Standalone(@) \ {d.index : d \in Of(mine, "index-dropped")}}
                \cup {d.index : d \in Of(mine, "index-created")}
                \cup KeyIndexes(constraints),
            !.policies =
                ((@ \ {d.policy : d \in Of(mine, "policy-dropped")})
                    \ {d.before : d \in Of(mine, "policy-changed")})
                \cup {d.policy : d \in Of(mine, "policy-created")}
                \cup {d.after : d \in Of(mine, "policy-changed")},
            !.rowSecurity =
                LET d == Of(mine, "row-security-changed")
                IN  IF d = {} THEN @ ELSE (CHOOSE e \in d : TRUE).after]

Replay(prev, changes) ==
    {Replayed(t, changes) : t \in prev \ {d.table : d \in Of(changes, "table-dropped")}}
    \cup {d.table : d \in Of(changes, "table-created")}
-----------------------------------------------------------------------------
(***************************************************************************)
(* The canvas: what a difference lights up, and the lines between tables   *)
(***************************************************************************)

\* The name a change knows its table by.
Subject(d) == IF d.type = "table-renamed" THEN d.to ELSE d.table

NewForeignKeys(constraints) == {k.id : k \in {k \in constraints : k.kind = "foreign key"}}

HighlightsFor(changes, snapshot) ==
    LET born == {d.table : d \in Of(changes, "table-created")}
        IdsOf(ds) == {t.id : t \in {t \in snapshot : \E d \in ds : Subject(d) = t.name}}
        rest == {d \in changes : d.type \notin {"table-created", "table-dropped"}}
        ColumnsOf(ds, Names(_)) ==
            UNION {IdsOf({d}) \X Names(d) : d \in ds}
        NewName(d) == {d.to}
        AddedName(d) == {d.column.name}
        AlteredName(d) == {d.after.name}
        KeyNames(d) == {d.constraint.columns[i] : i \in DOMAIN d.constraint.columns}
        added == Of(changes, "constraint-added")
    IN  [bornTables |-> {t.id : t \in born},
         changedTables |-> IdsOf(rest),
         bornColumns |-> ColumnsOf(Of(changes, "column-added"), AddedName),
         changedColumns |-> ColumnsOf(Of(changes, "column-renamed"), NewName)
                            \cup ColumnsOf(Of(changes, "column-altered"), AlteredName)
                            \cup ColumnsOf(added, KeyNames),
         bornEdges |-> NewForeignKeys(UNION {t.constraints : t \in born})
                       \cup NewForeignKeys({d.constraint : d \in added})]

\* toEdges(): a line from the column that is referred to, to the one that refers.
ToEdges(snapshot) ==
    UNION {{[id |-> k.id, source |-> <<u.id, k.references.columns[1]>>,
             target |-> <<t.id, k.columns[1]>>]
               : k \in {k \in t.constraints : k.kind = "foreign key" /\ k.references.name = u.name}}
           : t \in snapshot, u \in snapshot}

-----------------------------------------------------------------------------
(***************************************************************************)
(* The export, and the server that runs it                                 *)
(***************************************************************************)

AddConstraints(snapshot, foreignKeys) ==
    UNION {{[do |-> "add constraint", table |-> t.name, constraint |-> k]
               : k \in {k \in t.constraints : (k.kind = "foreign key") = foreignKeys}}
           : t \in snapshot}

CreateTables(snapshot) ==
    {[do |-> "create table", table |-> t.name, columns |-> t.columns] : t \in snapshot}

CreateIndexes(snapshot) ==
    UNION {{[do |-> "create index", table |-> t.name, index |-> i] : i \in Standalone(t.indexes)}
           : t \in snapshot}

\* Who it is for is said of a policy that is not for everyone.
CreatePolicy(p) == [p EXCEPT !.roles = IF @ = {"public"} THEN {} ELSE @]

RowSecurity(snapshot) ==
    {[do |-> "row security", table |-> t.name, rowSecurity |-> t.rowSecurity,
      policies |-> {CreatePolicy(p) : p \in t.policies}] : t \in snapshot}

\* A mistake the runs must catch: foreign keys before the keys they need.
ReferencesFirst(snapshot) ==
    <<CreateTables(snapshot), AddConstraints(snapshot, TRUE), AddConstraints(snapshot, FALSE),
      CreateIndexes(snapshot), RowSecurity(snapshot)>>

\* toDdl(): statements in groups; within one, the order does not matter.
ToDdl(snapshot) ==
    <<CreateTables(snapshot), AddConstraints(snapshot, FALSE), AddConstraints(snapshot, TRUE),
      CreateIndexes(snapshot), RowSecurity(snapshot)>>

Table(db, name) == CHOOSE t \in db : t.name = name

\* A foreign key needs a key or a unique index on what it refers to.
Supported(db, k) ==
    \/ k.kind # "foreign key"
    \/ LET u == Table(db, k.references.name) IN
       \/ \E q \in u.constraints : q.kind # "foreign key" /\ q.columns = k.references.columns
       \/ \E i \in u.indexes : i.unique /\ i.columns = k.references.columns

\* The server runs a group; a statement it refuses changes nothing.
Executed(db, group) ==
    LET Mine(t, do) == {s \in group : s.do = do /\ s.table = t.name}
        Secured(t) == UNION {s.policies : s \in Mine(t, "row security")}
        RowSecurityOf(t) == UNION {{s.rowSecurity} : s \in Mine(t, "row security")}
    IN  {[name |-> s.table, columns |-> s.columns, constraints |-> {}, indexes |-> {},
          rowSecurity |-> [enabled |-> FALSE, forced |-> FALSE], policies |-> {}]
            : s \in {s \in group : s.do = "create table"}}
        \cup {[t EXCEPT
                 !.constraints = @ \cup {k \in {s.constraint : s \in Mine(t, "add constraint")} :
                                            Supported(db, k)},
                 !.indexes = @ \cup {s.index : s \in Mine(t, "create index")},
                 !.policies = @ \cup {ToPolicy(p) : p \in Secured(t)},
                 !.rowSecurity = IF RowSecurityOf(t) = {} THEN @
                                 ELSE CHOOSE r \in RowSecurityOf(t) : TRUE] : t \in db}

Execution(script) == FoldLeft(Executed, {}, script)

\* The schema without the index of each key, which comes with it, and
\* without the identities, which another database has of its own.
Exported(snapshot) ==
    {[name |-> t.name, columns |-> t.columns, constraints |-> t.constraints,
      indexes |-> Standalone(t.indexes), rowSecurity |-> t.rowSecurity, policies |-> t.policies]
        : t \in snapshot}

-----------------------------------------------------------------------------
(***************************************************************************)
(* The rules of the report.  A finding is of a rule about a subject.       *)
(***************************************************************************)

Info == 1
Warning == 2
High == 3
Critical == 4

Finding(rule, severity, subject) == [rule |-> rule, severity |-> severity, subject |-> subject]

NoPrimaryKey(snapshot) ==
    {Finding("DB-SCHEMA-001", Warning, <<t.name>>)
        : t \in {t \in snapshot : ~\E k \in t.constraints : k.kind = "primary key"}}

\* A mistake the runs must catch: the index of a key is no index.
IndexBeside(t, columns) ==
    \E i \in Standalone(t.indexes) : \A n \in DOMAIN columns : n \in DOMAIN i.columns /\ i.columns[n] = columns[n]

\* Key columns must be the leading columns of the index.
HasIndexOn(t, columns) ==
    \E i \in t.indexes : \A n \in DOMAIN columns : n \in DOMAIN i.columns /\ i.columns[n] = columns[n]

UnindexedForeignKey(snapshot) ==
    UNION {{Finding("DB-PERF-001", Info, <<t.name, k.columns[1]>>)
               : k \in {k \in t.constraints : k.kind = "foreign key" /\ ~HasIndexOn(t, k.columns)}}
           : t \in snapshot}

DuplicateIndex(snapshot) ==
    UNION {{Finding("DB-PERF-002", Info, <<t.name>> \o i.columns)
               : i \in {i \in t.indexes : \E j \in t.indexes : i # j /\ i.columns = j.columns}}
           : t \in snapshot}

TenantWithoutRls(snapshot) ==
    {Finding("DB-SEC-001", High, <<t.name>>)
        : t \in {t \in snapshot : ~t.rowSecurity.enabled
                                    /\ \E x \in t.columns : x.name \in TenantNames}}

RlsWithoutPolicy(snapshot) ==
    {Finding("DB-SEC-002", Warning, <<t.name>>)
        : t \in {t \in snapshot : t.rowSecurity.enabled /\ t.policies = {}}}

RlsNotForced(snapshot) ==
    {Finding("DB-SEC-003", Info, <<t.name>>)
        : t \in {t \in snapshot : t.rowSecurity.enabled /\ ~t.rowSecurity.forced}}

PlainTextSecret(snapshot) ==
    UNION {{Finding("DB-SEC-004", High, <<t.name, x.name>>)
               : x \in {x \in t.columns : x.name \in SecretNames /\ x.type = "text"}}
           : t \in snapshot}

GrantedToPublic(c) ==
    {Finding("DB-SEC-005", Critical, <<t.name>>)
        : t \in {t \in c.tables : \E g \in t.grants : g[1] = "PUBLIC"}}

BroadWriteAccess(c) ==
    {Finding("DB-SEC-007", Warning, <<g[1]>>)
        : g \in {g \in UNION {t.grants : t \in c.tables} : g[2] = "TRUNCATE"}}

Report(c) ==
    LET s == Snapshot(c) IN
    NoPrimaryKey(s) \cup UnindexedForeignKey(s) \cup DuplicateIndex(s) \cup TenantWithoutRls(s)
    \cup RlsWithoutPolicy(s) \cup RlsNotForced(s) \cup PlainTextSecret(s)
    \cup GrantedToPublic(c) \cup BroadWriteAccess(c)

-----------------------------------------------------------------------------
(***************************************************************************)
(* What the recommendation of a finding asks for: databases it leads to.   *)
(***************************************************************************)

Revoked(c, who) ==
    [c EXCEPT !.tables = {[t EXCEPT !.grants = {g \in @ : g[1] # who}] : t \in @}]

\* One of several indexes on the same columns stays.
OnlyOneIndex(c, t, columns) ==
    LET Same(i) == NamesOf(t, i.columns) = columns
        plain == {i \in t.indexes : Same(i)}
        keys == {k \in Keys(t) : Same(k)}
        Left(i, k) == [t EXCEPT !.indexes = (@ \ plain) \cup i, !.constraints = (@ \ keys) \cup k]
    IN  {Put(c, t, Left({i}, {})) : i \in plain} \cup {Put(c, t, Left({}, {k})) : k \in keys}

Remedies(c, f) ==
    LET t == CHOOSE t \in c.tables : t.name = f.subject[1]
        x == CHOOSE x \in t.columns : x.name = f.subject[2]
    IN  CASE f.rule = "DB-SCHEMA-001" -> {AddPrimaryKey(c, t, y) : y \in t.columns}
          [] f.rule = "DB-PERF-001" -> {CreateIndex(c, t, <<x.position>>, FALSE)}
          [] f.rule = "DB-PERF-002" -> OnlyOneIndex(c, t, Tail(f.subject))
          [] f.rule = "DB-SEC-001" -> {Put(c, t, [t EXCEPT !.rowSecurity.enabled = TRUE])}
          [] f.rule = "DB-SEC-002" -> {Put(c, t, [t EXCEPT !.policies = @ \cup {Policy(c)}])}
          [] f.rule = "DB-SEC-003" -> {Put(c, t, [t EXCEPT !.rowSecurity.forced = TRUE])}
          [] f.rule \in {"DB-SEC-005", "DB-SEC-007"} ->
                {Revoked(c, IF f.rule = "DB-SEC-005" THEN "PUBLIC" ELSE f.subject[1])}

-----------------------------------------------------------------------------
Init == catalog \in Catalogs /\ before = catalog /\ count = 0

\* A statement of a script.
Execute ==
    /\ count < MaxStatements /\ count' = count + 1
    /\ catalog' \in Statements(catalog)
    /\ UNCHANGED before

Next == Execute

Spec == Init /\ [][Next]_vars

-----------------------------------------------------------------------------
\* A constraint that says something else under the same identity.
AlteredInPlace ==
    \E t \in before.tables, u \in catalog.tables :
        /\ t.id = u.id
        /\ \E k \in t.constraints, q \in u.constraints :
              k.id = q.id /\ k.deferrable # q.deferrable

\* The differences between two snapshots are all of them and none too many:
\* with them, and without any one of them not, the earlier schema becomes the
\* later, names that a rename changes elsewhere included (diff.ts,
\* diffSnapshots).  The exception is a constraint altered in place.
DiffReplays ==
    ~AlteredInPlace =>
        LET prev == Snapshot(before)
            next == Snapshot(catalog)
            changes == Diff(prev, next)
        IN  /\ Replay(prev, changes) = next
            /\ \A d \in changes : Replay(prev, changes \ {d}) # next

\* What lights up is there, every table a change is about lights up, and
\* every foreign key is a line between columns of tables on the canvas.
CanvasShowsChanges ==
    LET snapshot == Snapshot(catalog)
        changes == Diff(Snapshot(before), snapshot)
        lit == HighlightsFor(changes, snapshot)
        edges == ToEdges(snapshot)
        columns == UNION {{t.id} \X {x.name : x \in t.columns} : t \in snapshot}
    IN  /\ lit.bornColumns \cup lit.changedColumns \subseteq columns
        /\ lit.bornEdges \subseteq {e.id : e \in edges}
        /\ \A t \in snapshot :
              t.id \in lit.bornTables \cup lit.changedTables \/ AlteredInPlace
              \/ \E old \in Snapshot(before) : Diff({old}, {t}) = {} /\ old.id = t.id
        /\ \A e \in edges : e.source \in columns /\ e.target \in columns
        /\ {e.id : e \in edges} = NewForeignKeys(UNION {t.constraints : t \in snapshot})

\* What changed is told in full, to the panel and on the canvas.
ChangesAreTold == DiffReplays /\ CanvasShowsChanges

\* Foreign keys that rest on a unique index without a constraint.
Unkeyed(snapshot) ==
    \E t \in snapshot : \E k \in t.constraints :
        /\ k.kind = "foreign key"
        /\ ~\E q \in Table(snapshot, k.references.name).constraints :
              q.kind # "foreign key" /\ q.columns = k.references.columns

\* The exported script, run on an empty database, gives the schema again: no
\* statement comes before what it needs (ddl.ts, toDdl).  The exception is a
\* foreign key that rests on a unique index without a constraint.
ExportRecreates ==
    LET snapshot == Snapshot(catalog) IN
    Unkeyed(snapshot) \/ Execution(ToDdl(snapshot)) = Exported(snapshot)

\* Who follows the recommendation of a finding, in whichever way, is rid of it,
\* and the report answers with nothing as severe: its rules do not send a reader
\* in circles (rules.ts).  Of equivalent indexes, where the advice leaves it to
\* the reader which to keep, that is said of one choice at least, since a key
\* may be among them.  The rule about secrets asks the reader to make sure, and
\* so has no remedy in the schema.
AdviceDescends ==
    LET report == Report(catalog)
        Descends(f, c) == \A g \in Report(c) \ report : g.severity < f.severity
    IN
    \A f \in {f \in report : f.rule # "DB-SEC-004"} :
        LET remedies == Remedies(catalog, f) IN
        /\ \A c \in remedies : f \notin Report(c)
        /\ \E c \in remedies : Descends(f, c)
        /\ f.rule # "DB-PERF-002" => \A c \in remedies : Descends(f, c)
=============================================================================
