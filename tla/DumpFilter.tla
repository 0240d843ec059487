----------------------------- MODULE DumpFilter -----------------------------
(***************************************************************************)
(* The exclusion rules of a database migration                             *)
(* (src/data-mig/dbmsx/filter): what each rule takes, asked by the dump    *)
(* of an engine, by its inspection and by the validation.                  *)
(*                                                                         *)
(* A filter is a set of rules - no question asked of it depends on their   *)
(* order - and the nil filter is the empty set.  A rule spells names; a    *)
(* spelled name is a record, its text taken apart: the schema before a     *)
(* dot ("" when there is none), the name, and the argument list behind it  *)
(* when it carries one.                                                    *)
(***************************************************************************)
EXTENDS Integers, Sequences

Spelled(schema, name, signed, args) ==
    [schema |-> schema, name |-> name, signed |-> signed, args |-> args]

Bare(name)              == Spelled("", name, FALSE, <<>>)
Qualified(schema, name) == Spelled(schema, name, FALSE, <<>>)
NoName                  == Bare("")

(***************************************************************************)
(* The three types of rule.  A table_column rule without columns takes the *)
(* whole table.  match maps every row to what the predicate makes of it:   *)
(* "true", "false", or "null" when SQL cannot say; form is how it is       *)
(* written, "sql" or "doc".                                                *)
(***************************************************************************)
TableColumn(table, columns) ==
    [type |-> "table_column", table |-> table, columns |-> columns]
RowExclude(table, match, form) ==
    [type |-> "row_exclude", table |-> table, match |-> match, form |-> form]
ObjectExclude(kind, table, name) ==
    [type |-> "object_exclude", kind |-> kind, table |-> table, name |-> name]

OfType(F, type) == {r \in F : r.type = type}

(***************************************************************************)
(* Which engines know a kind of object, and what Validate refuses.         *)
(***************************************************************************)
objectKindEngines ==
    LET sql == {"mysql", "mariadb", "postgresql"} IN
    [ view              |-> sql \cup {"mongodb"},
      foreign_key       |-> sql,
      function          |-> sql,
      procedure         |-> sql,
      trigger           |-> sql,
      event             |-> {"mysql", "mariadb"},
      index             |-> sql \cup {"mongodb"},
      materialized_view |-> {"postgresql"},
      sequence          |-> {"postgresql"},
      type              |-> {"postgresql"},
      extension         |-> {"postgresql"},
      rule              |-> {"postgresql"},
      validator         |-> {"mongodb"} ]

\* A request with a table on any kind but an index does not parse.
newObjectExcludeMatcher(r) ==
    r.type = "object_exclude" => (r.table = NoName \/ r.kind = "index")

AppliesTo(r, engine) ==
    r.type = "object_exclude" => engine \in objectKindEngines[r.kind]

Valid(r, engine, direct) ==
    /\ AppliesTo(r, engine)
    /\ r.type # "object_exclude" => r.table # NoName
    /\ r.type = "table_column" => (r.columns = {} \/ direct)
    /\ r.type = "row_exclude" => /\ direct
                                 /\ (r.form = "doc") = (engine = "mongodb")
    /\ r.type = "object_exclude" => r.name # NoName /\ direct

Validate(F, engine, direct) == \A r \in F : Valid(r, engine, direct)

(***************************************************************************)
(* Tables, columns and rows.                                               *)
(***************************************************************************)
IsTableExcluded(F, table) ==
    \E r \in OfType(F, "table_column") : r.table = table /\ r.columns = {}

FilterTables(F, names) == {n \in names : ~IsTableExcluded(F, n)}

ExcludedColumns(F, table) ==
    UNION {r.columns : r \in {q \in OfType(F, "table_column") : q.table = table}}

KeepColumns(F, table, cols) == cols \ ExcludedColumns(F, table)

RowExcludeMatches(F, table) ==
    {r.match : r \in {q \in OfType(F, "row_exclude") : q.table = table}}

(***************************************************************************)
(* Objects.  A rule with a table speaks of the objects of that table, and  *)
(* is not asked about the objects of the schema.                           *)
(***************************************************************************)
ObjectExcludeNames(F, kind) ==
    {r.name : r \in {q \in OfType(F, "object_exclude") :
                        q.kind = kind /\ q.table = NoName}}

IsObjectExcluded(F, kind, name) == name \in ObjectExcludeNames(F, kind)

IsObjectExcludedInTable(F, kind, table, name) ==
    \E r \in OfType(F, "object_exclude") :
        /\ r.kind = kind
        /\ r.name = name
        /\ r.table \in {NoName, table}

FilterObjects(F, kind, names) == {n \in names : ~IsObjectExcluded(F, kind, n)}

(***************************************************************************)
(* PostgreSQL spells a routine with its identity arguments, and from       *)
(* version 14 writes the mode IN before an argument of the default mode.   *)
(***************************************************************************)
normalizePgArgs(args) ==
    [i \in 1..Len(args) |->
        IF args[i].mode = "IN" THEN [args[i] EXCEPT !.mode = ""] ELSE args[i]]

PgRoutineRuleMatches(rule, schema, name, args) ==
    /\ rule.name = name
    /\ rule.schema \in {"", schema}
    /\ rule.signed => normalizePgArgs(rule.args) = normalizePgArgs(args)
=============================================================================
