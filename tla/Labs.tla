---------------------------------- MODULE Labs ----------------------------------
(***************************************************************************)
(* The labs about roles and row security, walked step by step on the       *)
(* PostgreSQL of the tab: packages/labs, and in apps/web/components        *)
(* LabWorkspace, StepsPanel, PrivilegesPanel and the backend of the tab.   *)
(*                                                                         *)
(* A step loads a script that the learner runs, once or again.  Scripts    *)
(* build on what earlier ones left: roles, grants, policies, but also the  *)
(* role and the settings of the session.  Each promises what will be seen. *)
(* The server is external: what a statement does to its catalog, and when  *)
(* it is refused.  Of the data, a row keeps whose it is and whether it is  *)
(* confidential; of the privileges, those the matrix has a column for.     *)
(***************************************************************************)
EXTENDS Integers, Sequences, FiniteSets, SequencesExt

CONSTANTS
    Catalog,    \* the names of labs, among those of AllLabs
    MaxRows     \* a table with as many rows takes no more

VARIABLES
    lab,        \* the lab that is open
    db,         \* its database, and the session with it
    index,      \* the step that is told, 0 for the premise
    loaded,     \* the step whose script is in the editor, 0 for none
    walk,       \* how far its steps were run in order since the database is new
    shown       \* of the last run: its step, how it ended, and the rows

vars == <<lab, db, index, loaded, walk, shown>>

-----------------------------------------------------------------------------
(***************************************************************************)
(* The server                                                              *)
(***************************************************************************)
Super == "postgres"
Verbs == {"SELECT", "INSERT", "UPDATE", "DELETE"}
Row(id, of, secret) == [id |-> id, of |-> of, secret |-> secret]

\* Tables of the superuser.  `acl` has what an owner may do too; the catalog
\* has it (`stored`) once something was granted.
Database(rows) ==
    LET tables == DOMAIN rows IN
    [me |-> Super, roles |-> {}, members |-> {},
     owner |-> [t \in tables |-> Super], rows |-> rows,
     acl |-> [t \in tables |-> {Super} \X Verbs], stored |-> {},
     enabled |-> {}, forced |-> {}, policies |-> {}, setting |-> "none"]

\* The roles whose privileges the session has.
Mine(d) == {d.me} \cup {m[2] : m \in {m \in d.members : m[1] = d.me}}

Owns(d, t) == d.me = Super \/ d.owner[t] \in Mine(d)

May(d, verb, t) ==
    d.me = Super \/ \E r \in Mine(d) \cup {"PUBLIC"} : <<r, verb>> \in d.acl[t]

\* Row security does not hold for the owner, unless it is forced, and never
\* for a superuser.
Guarded(d, t) == t \in d.enabled /\ d.me # Super /\ (t \in d.forced \/ ~Owns(d, t))

Satisfies(d, p, row) == IF p.test = "is mine" THEN row.of = d.setting ELSE ~row.secret

\* Permissive policies add up; restrictive ones all hold.
Passes(d, t, command, row) ==
    LET mine == {p \in d.policies : p.for \in {"all", command} /\ p.to \in Mine(d)} IN
    /\ \E p \in mine : ~p.restrictive /\ Satisfies(d, p, row)
    /\ \A p \in mine : p.restrictive => Satisfies(d, p, row)

Visible(d, t) == {row \in d.rows[t] : Guarded(d, t) => Passes(d, t, "select", row)}

\* What keeps a role from being dropped.
Needed(d, r) ==
    \/ \E t \in DOMAIN d.owner :
          d.owner[t] = r \/ (t \in d.stored /\ \E v \in Verbs : <<r, v>> \in d.acl[t])
    \/ \E p \in d.policies : p.to = r

-----------------------------------------------------------------------------
(***************************************************************************)
(* Statements                                                              *)
(***************************************************************************)
SetRole(r) == [op |-> "set role", role |-> r]
ResetRole == [op |-> "reset role"]
CreateRole(r) == [op |-> "create role", role |-> r]
DropRoles(names) == [op |-> "drop roles", roles |-> names]
GrantRole(r, to) == [op |-> "grant role", role |-> r, to |-> to]
Grant(verbs, t, to) == [op |-> "grant", verbs |-> verbs, table |-> t, to |-> to]
Revoke(verbs, t, to) == [op |-> "revoke", verbs |-> verbs, table |-> t, to |-> to]
RevokeIfRole(verbs, t, to) == [op |-> "revoke if role", verbs |-> verbs, table |-> t, to |-> to]
On(op, t) == [op |-> op, table |-> t]
OwnerTo(t, r) == [op |-> "owner to", table |-> t, to |-> r]
DropPolicy(name, t) == [op |-> "drop policy", name |-> name, table |-> t]
Set(value) == [op |-> "set", value |-> value]
Insert(t, of) == [op |-> "insert", table |-> t, of |-> of]

CreatePolicy(name, t, restrictive, command, to, test) ==
    [op |-> "create policy", table |-> t,
     policy |-> [name |-> name, restrictive |-> restrictive, for |-> command,
                 to |-> to, test |-> test]]

Ended(d, code, rows) == [db |-> d, code |-> code, rows |-> rows]

\* A change that is refused, with an SQLSTATE, for the first reason there is.
Unless(reasons, d, new) ==
    IF \E i \in DOMAIN reasons : reasons[i][1]
    THEN Ended(d, reasons[CHOOSE i \in DOMAIN reasons :
                            /\ reasons[i][1]
                            /\ \A j \in DOMAIN reasons : reasons[j][1] => i <= j][2], -1)
    ELSE Ended(new, "ok", -1)

Denied(d) == <<d.me # Super, "42501">>
NotOwner(d, t) == <<~Owns(d, t), "42501">>
Unknown(d, r) == <<r \notin d.roles \cup {"PUBLIC"}, "42704">>

\* Who does not own a table gives and takes nothing, and is only warned if he
\* may do anything with it.
Changes(d, s, acl) ==
    Unless(<<Unknown(d, s.to),
             <<~Owns(d, s.table) /\ \A v \in Verbs : ~May(d, v, s.table), "42501">>>>,
           d,
           IF Owns(d, s.table) THEN [d EXCEPT !.acl[s.table] = acl, !.stored = @ \cup {s.table}]
                               ELSE d)

Reads(d, t, n) == IF May(d, "SELECT", t) THEN Ended(d, "ok", n) ELSE Ended(d, "42501", -1)

Inserts(d, t, row) ==
    Unless(<<<<~May(d, "INSERT", t), "42501">>,
             <<Guarded(d, t) /\ ~Passes(d, t, "insert", row), "42501">>>>,
           d, IF row.id <= MaxRows THEN [d EXCEPT !.rows[t] = @ \cup {row}] ELSE d)

\* A statement about a table that is there.
Execute(s, d) ==
    CASE s.op = "set role" -> Unless(<<<<s.role \notin d.roles, "22023">>>>, d, [d EXCEPT !.me = s.role])
      [] s.op = "reset role" -> Ended([d EXCEPT !.me = Super], "ok", -1)
      [] s.op = "create role" ->
            Unless(<<Denied(d), <<s.role \in d.roles, "42710">>>>, d, [d EXCEPT !.roles = @ \cup {s.role}])
      [] s.op = "drop roles" ->
            Unless(<<Denied(d), <<\E r \in s.roles \cap d.roles : Needed(d, r), "2BP01">>>>, d,
                   [d EXCEPT !.roles = @ \ s.roles,
                             !.members = {m \in @ : {m[1], m[2]} \cap s.roles = {}}])
      [] s.op = "grant role" ->
            Unless(<<Unknown(d, s.role), Unknown(d, s.to), Denied(d)>>, d,
                   [d EXCEPT !.members = @ \cup {<<s.to, s.role>>}])
      [] s.op = "grant" -> Changes(d, s, d.acl[s.table] \cup ({s.to} \X s.verbs))
      [] s.op = "revoke" -> Changes(d, s, d.acl[s.table] \ ({s.to} \X s.verbs))
      [] s.op = "revoke if role" ->
            IF s.to \in d.roles THEN Changes(d, s, d.acl[s.table] \ ({s.to} \X s.verbs))
                                ELSE Ended(d, "ok", -1)
      [] s.op = "select" -> Reads(d, s.table, Cardinality(Visible(d, s.table)))
      [] s.op = "count" -> Reads(d, s.table, 1)
      [] s.op = "update" ->
            Unless(<<<<~(May(d, "UPDATE", s.table) /\ May(d, "SELECT", s.table)), "42501">>>>, d, d)
      [] s.op = "insert" -> Inserts(d, s.table, Row(Cardinality(d.rows[s.table]) + 1, s.of, FALSE))
      [] s.op \in {"drop table", "rename"} ->
            Unless(<<NotOwner(d, s.table)>>, d,
                   [d EXCEPT !.owner = [t \in DOMAIN @ \ {s.table} |-> @[t]]])
      [] s.op = "add column" -> Unless(<<NotOwner(d, s.table)>>, d, d)
      [] s.op = "owner to" ->
            \* The new owner takes over what the old one could do.
            Unless(<<Unknown(d, s.to), Denied(d)>>, d,
                   [d EXCEPT !.owner[s.table] = s.to,
                             !.acl[s.table] = {<<IF g[1] = d.owner[s.table] THEN s.to ELSE g[1], g[2]>> : g \in @}])
      [] s.op = "enable" -> Unless(<<NotOwner(d, s.table)>>, d, [d EXCEPT !.enabled = @ \cup {s.table}])
      [] s.op = "force" -> Unless(<<NotOwner(d, s.table)>>, d, [d EXCEPT !.forced = @ \cup {s.table}])
      [] s.op = "drop policy" ->
            Unless(<<NotOwner(d, s.table)>>, d, [d EXCEPT !.policies = {p \in @ : p.name # s.name}])
      [] s.op = "create policy" ->
            Unless(<<NotOwner(d, s.table), <<\E p \in d.policies : p.name = s.policy.name, "42710">>>>, d,
                   [d EXCEPT !.policies = @ \cup {s.policy}])
      [] s.op = "set" -> Ended([d EXCEPT !.setting = s.value], "ok", -1)

\* One statement more, unless one before it failed; the rows are those of the
\* last that returned any.
Then(result, s) ==
    IF result.code # "ok" THEN result
    ELSE IF "table" \in DOMAIN s /\ s.table \notin DOMAIN result.db.owner
         THEN Ended(result.db, "42P01", -1)
         ELSE LET next == Execute(s, result.db) IN
              IF next.rows = -1 THEN [next EXCEPT !.rows = result.rows] ELSE next

\* A mistake the runs must catch: each script has a connection of its own.
RunScriptApart(d, script) ==
    FoldLeft(Then, Ended([d EXCEPT !.me = Super, !.setting = "none"], "ok", -1), script)

\* What the statements before one that fails did stays, as does what they set
\* in the session.
RunScript(d, script) == FoldLeft(Then, Ended(d, "ok", -1), script)

-----------------------------------------------------------------------------
(***************************************************************************)
(* The labs: what they start from, and each step with what it promises, of *)
(* the ending, the rows, and the rows of the matrix it names               *)
(***************************************************************************)
Step(script, code, rows, marks) == [script |-> script, code |-> code, rows |-> rows, marks |-> marks]
Works(script, marks) == Step(script, "ok", -1, marks)
Refused(script) == Step(script, "42501", -1, {})
Lists(script, n) == Step(script, "ok", n, {})
Marks(r, t, verbs) == <<r, t, verbs>>

Plain(n) == {Row(id, "all", FALSE) : id \in 1..n}

PrivilegiosBasicos ==
    [db |-> Database([produtos |-> Plain(3)]),
     steps |-> <<
        Works(<<DropRoles({"app"}), CreateRole("app")>>, {Marks("app", "produtos", {})}),
        Refused(<<SetRole("app"), On("select", "produtos")>>),
        Works(<<ResetRole, Grant({"SELECT"}, "produtos", "app")>>,
              {Marks("app", "produtos", {"SELECT"})}),
        Refused(<<SetRole("app"), On("count", "produtos"), On("update", "produtos")>>),
        Step(<<ResetRole, Revoke({"SELECT"}, "produtos", "app"), SetRole("app"),
               On("select", "produtos")>>,
             "42501", -1, {Marks("app", "produtos", {})})>>]

RolesAndPermissions ==
    [db |-> Database([clientes |-> Plain(2), faturas |-> Plain(3)]),
     steps |-> <<
        Works(<<ResetRole, DropRoles({"app_leitura", "app_escrita"}),
                CreateRole("app_leitura"), CreateRole("app_escrita")>>,
              {Marks(r, t, {}) : r \in {"app_leitura", "app_escrita"}, t \in {"clientes", "faturas"}}),
        Refused(<<SetRole("app_leitura"), On("select", "clientes")>>),
        Works(<<ResetRole, Grant({"SELECT"}, "clientes", "app_leitura"),
                Grant({"SELECT"}, "faturas", "app_leitura")>>,
              {Marks("app_leitura", t, {"SELECT"}) : t \in {"clientes", "faturas"}}),
        Refused(<<SetRole("app_leitura"), On("count", "faturas"), On("update", "faturas")>>),
        Works(<<ResetRole, GrantRole("app_leitura", "app_escrita"),
                Grant({"INSERT", "UPDATE"}, "faturas", "app_escrita")>>,
              {Marks("app_escrita", "faturas", {"INSERT", "UPDATE"})}),
        Lists(<<SetRole("app_escrita"), On("update", "faturas"), On("select", "faturas")>>, 3),
        Works(<<ResetRole, Grant({"SELECT"}, "clientes", "PUBLIC")>>,
              {Marks("PUBLIC", "clientes", {"SELECT"})}),
        Works(<<Revoke({"SELECT"}, "clientes", "PUBLIC"),
                Revoke({"INSERT", "UPDATE"}, "faturas", "app_escrita")>>,
              {Marks("PUBLIC", "clientes", {}), Marks("app_escrita", "faturas", {}),
               Marks("app_leitura", "clientes", {"SELECT"})})>>]

PropriedadeDeTabelas ==
    [db |-> Database([tarefas |-> Plain(3)]),
     steps |-> <<
        Works(<<RevokeIfRole(Verbs, "tarefas", "editor"), DropRoles({"editor"}),
                CreateRole("editor"), Grant(Verbs, "tarefas", "editor")>>,
              {Marks("editor", "tarefas", Verbs)}),
        Refused(<<SetRole("editor"), On("drop table", "tarefas")>>),
        Refused(<<SetRole("editor"), On("rename", "tarefas")>>),
        Works(<<ResetRole, OwnerTo("tarefas", "editor")>>, {Marks("editor", "tarefas", Verbs)}),
        Lists(<<SetRole("editor"), On("add column", "tarefas"), On("select", "tarefas")>>, 3)>>]

RowLevelSecurity ==
    LET read == On("select", "documentos") IN
    [db |-> RunScript(
        Database([documentos |-> {Row(1, "acme", FALSE), Row(2, "acme", FALSE),
                                  Row(3, "globex", FALSE), Row(4, "globex", FALSE)}]),
        <<CreateRole("app_tenant"), Grant(Verbs, "documentos", "app_tenant"),
          CreateRole("app_dono"), OwnerTo("documentos", "app_dono")>>).db,
     steps |-> <<
        Lists(<<SetRole("app_tenant"), read>>, 4),
        Lists(<<ResetRole, On("enable", "documentos"), SetRole("app_tenant"), read>>, 0),
        Lists(<<ResetRole, DropPolicy("documentos_do_tenant", "documentos"),
                CreatePolicy("documentos_do_tenant", "documentos", FALSE, "all", "app_tenant", "is mine"),
                SetRole("app_tenant"), Set("acme"), read>>, 2),
        Refused(<<Insert("documentos", "globex")>>),
        Lists(<<ResetRole, SetRole("app_dono"), read>>, 4),
        Lists(<<ResetRole, On("force", "documentos"), SetRole("app_dono"), read>>, 0)>>]

RlsRestritiva ==
    LET read == On("select", "relatorios")
        Second(restrictive) ==
            <<ResetRole, DropPolicy("nao_confidencial", "relatorios"),
              CreatePolicy("nao_confidencial", "relatorios", restrictive, "select",
                           "app_funcionario", "is open"),
              SetRole("app_funcionario"), read>>
    IN
    [db |-> RunScript(
        Database([relatorios |-> {Row(1, "vendas", FALSE), Row(2, "vendas", TRUE),
                                  Row(3, "rh", FALSE), Row(4, "rh", TRUE)}]),
        <<CreateRole("app_funcionario"), Grant({"SELECT"}, "relatorios", "app_funcionario")>>).db,
     steps |-> <<
        Lists(<<ResetRole, On("enable", "relatorios"), DropPolicy("por_departamento", "relatorios"),
                CreatePolicy("por_departamento", "relatorios", FALSE, "select", "app_funcionario",
                             "is mine"),
                SetRole("app_funcionario"), Set("vendas"), read>>, 2),
        Lists(Second(FALSE), 3),
        Lists(Second(TRUE), 1),
        Lists(<<Set("rh"), read>>, 1)>>]

AllLabs ==
    [basics |-> PrivilegiosBasicos, roles |-> RolesAndPermissions, owner |-> PropriedadeDeTabelas,
     tenants |-> RowLevelSecurity, restrictive |-> RlsRestritiva]

Steps == AllLabs[lab].steps

\* What the matrix ticks in a row, from the explicit privileges of a table.
Ticked(d, r, t) ==
    IF t \in d.stored /\ t \in DOMAIN d.owner THEN {v \in Verbs : <<r, v>> \in d.acl[t]} ELSE {}

\* What the constants must be (assumed by the instance).
LabsAssumption == Catalog \subseteq DOMAIN AllLabs /\ MaxRows \in Nat

-----------------------------------------------------------------------------
(***************************************************************************)
(* The page of a lab                                                       *)
(***************************************************************************)
Nothing == [step |-> 0, code |-> "ok", rows |-> -1]

\* Anterior and Proximo; the introduction leaves the editor as it is.
Go(next) ==
    /\ next \in {index - 1, index + 1} /\ next \in 0..Len(Steps)
    /\ index' = next
    /\ loaded' = IF next = 0 THEN loaded ELSE next
    /\ UNCHANGED <<lab, db, walk, shown>>

\* Run, on the one connection of the tab.
Run ==
    LET result == RunScript(db, Steps[loaded].script) IN
    /\ loaded # 0
    /\ db' = result.db
    /\ shown' = [step |-> loaded, code |-> result.code, rows |-> result.rows]
    /\ walk' = IF loaded \in {walk, walk + 1} THEN loaded ELSE -1
    /\ UNCHANGED <<lab, index, loaded>>

\* Recomecar o lab: a new database; the step stays where it was.
Reset ==
    /\ db' = AllLabs[lab].db
    /\ shown' = Nothing /\ walk' = 0
    /\ UNCHANGED <<lab, index, loaded>>

Init ==
    /\ lab \in Catalog
    /\ db = AllLabs[lab].db
    /\ index = 0 /\ loaded = 0 /\ walk = 0
    /\ shown = Nothing

Next == (\E next \in {index - 1, index + 1} : Go(next)) \/ Run \/ Reset

Spec == Init /\ [][Next]_vars

-----------------------------------------------------------------------------
\* As long as the steps were run in order since the database is new, each as
\* often as the learner likes, the last one showed what it promises: it was
\* refused or it listed as many rows as its text says, and the matrix ticks
\* what it says of the roles of the lab.  (A step that is run again after a
\* later one may promise in vain: the role it drops owns or may do something.)
PromisesKept ==
    walk > 0 =>
        LET step == Steps[walk] IN
        /\ shown.step = walk /\ shown.code = step.code
        /\ step.rows # -1 => shown.rows = step.rows
        /\ \A m \in step.marks : Ticked(db, m[1], m[2]) = m[3]

=============================================================================
