----------------------------- MODULE DumpScripts -----------------------------
(***************************************************************************)
(* What a direct dump of each engine writes (driver/mysql, driver/mariadb, *)
(* driver/postgresql, driver/mongodb): which objects of the source the     *)
(* rules leave, how each is narrowed, and in what order the statements     *)
(* stand in the file.                                                      *)
(*                                                                         *)
(* The source is a catalogue: the sequence of its objects in the order the *)
(* server lists them.  An object is a record                               *)
(*   kind, id    what it is and its spelled name                           *)
(*   on, cols    the table it hangs on and the columns of it it names; for *)
(*               a table, its own columns                                  *)
(*   ref, refCols  a foreign key's parent and the columns it points at     *)
(*   needs       what else its definition names: records [kind, id, cols]  *)
(*   rows        a table's rows; a foreign key's "points" says which row   *)
(*               of the parent each row of the child points at             *)
(*   collation   the collation it compares text by (see TextRules), and    *)
(*   text        for a table or view, of the columns that state their own, *)
(*               records [col, collation]; shown says whether SHOW CREATE  *)
(*               TABLE prints the table's                                  *)
(*   definer     the account it speaks for, "" when the restoring one may  *)
(* A statement is [op, obj, parts]: "create" makes obj, and with a table   *)
(* the keys its CREATE TABLE carries (parts); "rows" loads obj.rows;       *)
(* "schema" and "rename" speak of schemas; "refresh" fills a materialized  *)
(* view; "fkoff" is SET FOREIGN_KEY_CHECKS=0; "zero" and "nozero" switch   *)
(* NO_AUTO_VALUE_ON_ZERO on and off.                                       *)
(***************************************************************************)
EXTENDS DumpFilter, Integers, FiniteSets, SequencesExt

Statement(op, obj, parts) == [op |-> op, obj |-> obj, parts |-> parts]

Create(o) == Statement("create", o, {})
Rows(o)   == Statement("rows", o, {})

CreateEach(objs) == [i \in 1..Len(objs) |-> Create(objs[i])]
RowsOfEach(objs) == [i \in 1..Len(objs) |-> Rows(objs[i])]

NoText == [charset |-> "", name |-> ""]

TextOf(o, cols) == {x \in o.text : x.col \in cols}

OfKind(c, kind)   == SelectSeq(c.objs, LAMBDA o : o.kind = kind)
Hanging(c, kinds, t) == {o \in ToSet(c.objs) : o.kind \in kinds /\ o.on = t.id}

\* Mutant: WHERE NOT (predicate), which a NULL fails.
NotExcluded(o, matches) ==
    {row \in o.rows : \A m \in matches : m[row] = "false"}

KeptRows(o, matches) ==
    {row \in o.rows : \A m \in matches : m[row] # "true"}

(***************************************************************************)
(* MySQL.  Names carry no schema.  The keys of a table are lines of its    *)
(* CREATE TABLE; the foreign keys are taken out of it and follow all the   *)
(* tables.                                                                 *)
(***************************************************************************)
mysqlListTables(c) ==
    SelectSeq(OfKind(c, "table"), LAMBDA o : ~IsTableExcluded(c.rules, o.id))

mysqlListViews(c) ==
    SelectSeq(OfKind(c, "view"), LAMBDA o : /\ ~IsTableExcluded(c.rules, o.id)
                                            /\ ~IsObjectExcluded(c.rules, "view", o.id))

mysqlListTriggers(c) ==
    SelectSeq(OfKind(c, "trigger"), LAMBDA o : /\ ~IsTableExcluded(c.rules, o.on)
                                               /\ ~IsObjectExcluded(c.rules, "trigger", o.id))

mysqlListRoutines(c, kind) ==
    SelectSeq(OfKind(c, kind), LAMBDA o : ~IsObjectExcluded(c.rules, kind, o.id))

mysqlListEvents(c) ==
    SelectSeq(OfKind(c, "event"), LAMBDA o : ~IsObjectExcluded(c.rules, "event", o.id))

\* A line of a CREATE TABLE goes when a column it names goes: the first group
\* in parentheses, which for a foreign key is the child's columns.
mysqlParenIdents(line) == line.cols

mysqlLineRefsExcluded(line, excluded) == mysqlParenIdents(line) \cap excluded # {}

mysqlDropColumns(c, t) ==
    {o \in Hanging(c, {"primary", "unique", "index", "foreign_key"}, t) :
        ~mysqlLineRefsExcluded(o, ExcludedColumns(c.rules, t.id))}

\* Only a named key is an index to the rules: not PRIMARY KEY, not CONSTRAINT.
mysqlIndexName(line) == IF line.kind \in {"unique", "index"} THEN {line.id} ELSE {}

mysqlDropIndexes(c, t, lines) ==
    {o \in lines : \A name \in mysqlIndexName(o) :
                       ~IsObjectExcludedInTable(c.rules, "index", t.id, name)}

\* The parent's side of a foreign key, as its REFERENCES clause names it.
mysqlFKRef(fk) == [table |-> fk.ref, cols |-> fk.refCols]

mysqlFKRefDropped(c, fk) ==
    LET parent == mysqlFKRef(fk) IN
    \/ IsTableExcluded(c.rules, parent.table)
    \/ parent.cols \cap ExcludedColumns(c.rules, parent.table) # {}

\* The lines of a CREATE TABLE the filter leaves, and of those, its foreign keys.
mysqlTableLines(c, t) == mysqlDropIndexes(c, t, mysqlDropColumns(c, t))

mysqlExtractFKs(c, t) ==
    SelectSeq(OfKind(c, "foreign_key"),
              LAMBDA o : /\ o \in mysqlTableLines(c, t)
                         /\ ~IsObjectExcluded(c.rules, "foreign_key", o.id)
                         /\ ~mysqlFKRefDropped(c, o))

\* SHOW CREATE TABLE leaves a collation out when it is its character set's usual.
ShownTable(t) == IF t.shown THEN t ELSE [t EXCEPT !.collation.name = ""]

\* What the catalogue says instead, for every table at once.
tableCollations(c) ==
    LET Collation(id) == (CHOOSE t \in ToSet(OfKind(c, "table")) : t.id = id).collation IN
    [id \in {t.id : t \in ToSet(OfKind(c, "table"))} |-> Collation(id)]

mysqlEnsureTableCollation(t, collation) ==
    IF t.collation.name = "" THEN [t EXCEPT !.collation = collation] ELSE t

mysqlCreateTable(c, t) ==
    LET kept == KeepColumns(c.rules, t.id, t.cols) IN
    Statement("create",
              [mysqlEnsureTableCollation(ShownTable(t), tableCollations(c)[t.id])
                  EXCEPT !.cols = kept, !.text = TextOf(t, kept), !.rows = {}],
              {o \in mysqlTableLines(c, t) : o.kind # "foreign_key"})

\* Any other object is shown with its definer, and beside it the collation of
\* the session that made it.
StripDefiner(o) == [o EXCEPT !.definer = ""]

showCreateObjectWithCollation(o) ==
    [stmt |-> StripDefiner([o EXCEPT !.collation = NoText]), collation |-> o.collation]

mysqlWithCollation(shown) == [shown.stmt EXCEPT !.collation = shown.collation]

DefineEach(objs) ==
    [i \in 1..Len(objs) |-> Create(mysqlWithCollation(showCreateObjectWithCollation(objs[i])))]

\* SELECT of the kept columns of the rows no predicate is true of: a predicate
\* that is NULL for a row keeps it.
mysqlSelect(c, t) ==
    [t EXCEPT !.cols = KeepColumns(c.rules, t.id, t.cols),
              !.rows = KeptRows(t, RowExcludeMatches(c.rules, t.id))]

Session(op) == <<Statement(op, [kind |-> "session"], {})>>

mysqlDumpHeader   == Session("fkoff")
mysqlDataPrologue == Session("zero")
mysqlDataEpilogue == Session("nozero")

mysqlDumpCoreSchema(c) ==
    LET tables == mysqlListTables(c) IN
    [i \in 1..Len(tables) |-> mysqlCreateTable(c, tables[i])]
    \o CreateEach(FlattenSeq([i \in 1..Len(tables) |-> mysqlExtractFKs(c, tables[i])]))
    \o DefineEach(mysqlListViews(c))
    \o DefineEach(mysqlListRoutines(c, "function"))
    \o DefineEach(mysqlListRoutines(c, "procedure"))

mysqlDumpData(c) ==
    LET tables == mysqlListTables(c) IN
    mysqlDataPrologue \o [i \in 1..Len(tables) |-> Rows(mysqlSelect(c, tables[i]))]
        \o mysqlDataEpilogue

mysqlDumpTriggersAndEvents(c) ==
    DefineEach(mysqlListTriggers(c)) \o DefineEach(mysqlListEvents(c))

mysqlDumpScope(c) ==
    mysqlDumpCoreSchema(c) \o mysqlDumpData(c) \o mysqlDumpTriggersAndEvents(c)

mysqlDump(c) == mysqlDumpHeader \o mysqlDumpScope(c)

(***************************************************************************)
(* MariaDB.  The driver is a copy of MySQL's that has gone its own way     *)
(* elsewhere; its lists are the same, and its dump makes the same          *)
(* decisions in the same order with functions of its own.                  *)
(***************************************************************************)
mariadbListTables(c)      == mysqlListTables(c)
mariadbListViews(c)       == mysqlListViews(c)
mariadbListTriggers(c)    == mysqlListTriggers(c)
mariadbListEvents(c)      == mysqlListEvents(c)
mariadbListRoutines(c, kind) == mysqlListRoutines(c, kind)

mariadbParenIdents(line) == line.cols
mariadbIndexName(line)   == IF line.kind \in {"unique", "index"} THEN {line.id} ELSE {}
mariadbFKRef(fk)         == [table |-> fk.ref, cols |-> fk.refCols]

mariadbLineRefsExcluded(line, excluded) == mariadbParenIdents(line) \cap excluded # {}

mariadbDropColumns(c, t) ==
    {o \in Hanging(c, {"primary", "unique", "index", "foreign_key"}, t) :
        ~mariadbLineRefsExcluded(o, ExcludedColumns(c.rules, t.id))}

mariadbDropIndexes(c, t, lines) ==
    {o \in lines : \A name \in mariadbIndexName(o) :
                       ~IsObjectExcludedInTable(c.rules, "index", t.id, name)}

mariadbFKRefDropped(c, fk) ==
    LET parent == mariadbFKRef(fk) IN
    \/ IsTableExcluded(c.rules, parent.table)
    \/ parent.cols \cap ExcludedColumns(c.rules, parent.table) # {}

mariadbTableLines(c, t) == mariadbDropIndexes(c, t, mariadbDropColumns(c, t))

mariadbExtractFKs(c, t) ==
    SelectSeq(OfKind(c, "foreign_key"),
              LAMBDA o : /\ o \in mariadbTableLines(c, t)
                         /\ ~IsObjectExcluded(c.rules, "foreign_key", o.id)
                         /\ ~mariadbFKRefDropped(c, o))

mariadbTableCollations(c) == tableCollations(c)

mariadbEnsureTableCollation(t, collation) ==
    IF t.collation.name = "" THEN [t EXCEPT !.collation = collation] ELSE t

mariadbCreateTable(c, t) ==
    LET kept == KeepColumns(c.rules, t.id, t.cols) IN
    Statement("create",
              [mariadbEnsureTableCollation(ShownTable(t), mariadbTableCollations(c)[t.id])
                  EXCEPT !.cols = kept, !.text = TextOf(t, kept), !.rows = {}],
              {o \in mariadbTableLines(c, t) : o.kind # "foreign_key"})

mariadbShowCreateObjectWithCollation(o) ==
    [stmt |-> StripDefiner([o EXCEPT !.collation = NoText]), collation |-> o.collation]

mariadbWithCollation(shown) == [shown.stmt EXCEPT !.collation = shown.collation]

mariadbDefineEach(objs) ==
    [i \in 1..Len(objs) |->
        Create(mariadbWithCollation(mariadbShowCreateObjectWithCollation(objs[i])))]

mariadbRowExcludeClause(c, t) == KeptRows(t, RowExcludeMatches(c.rules, t.id))

mariadbSelect(c, t) ==
    [t EXCEPT !.cols = KeepColumns(c.rules, t.id, t.cols),
              !.rows = mariadbRowExcludeClause(c, t)]

mariadbDumpCoreSchema(c) ==
    LET tables == mariadbListTables(c) IN
    [i \in 1..Len(tables) |-> mariadbCreateTable(c, tables[i])]
    \o CreateEach(FlattenSeq([i \in 1..Len(tables) |-> mariadbExtractFKs(c, tables[i])]))
    \o mariadbDefineEach(mariadbListViews(c))
    \o mariadbDefineEach(mariadbListRoutines(c, "function"))
    \o mariadbDefineEach(mariadbListRoutines(c, "procedure"))

mariadbDumpData(c) ==
    LET tables == mariadbListTables(c) IN
    Session("zero") \o [i \in 1..Len(tables) |-> Rows(mariadbSelect(c, tables[i]))]
        \o Session("nozero")

mariadbDumpTriggersAndEvents(c) ==
    mariadbDefineEach(mariadbListTriggers(c)) \o mariadbDefineEach(mariadbListEvents(c))

mariadbDumpScope(c) ==
    mariadbDumpCoreSchema(c) \o mariadbDumpData(c) \o mariadbDumpTriggersAndEvents(c)

mariadbDump(c) == Session("fkoff") \o mariadbDumpScope(c)

(***************************************************************************)
(* PostgreSQL.  A rule may leave the schema out, and then speaks of every  *)
(* schema of the dump: each question is asked of both spellings.           *)
(***************************************************************************)
pgTableExcluded(F, t) ==
    \/ IsTableExcluded(F, Bare(t.name))
    \/ IsTableExcluded(F, Qualified(t.schema, t.name))

pgObjectExcluded(F, kind, schema, name) ==
    \/ IsObjectExcluded(F, kind, Bare(name))
    \/ IsObjectExcluded(F, kind, Qualified(schema, name))

pgRoutineExcluded(F, kind, id) ==
    \E rule \in ObjectExcludeNames(F, kind) :
        PgRoutineRuleMatches(rule, id.schema, id.name, id.args)

pgObjectExcludedInTable(F, kind, t, name) ==
    \/ IsObjectExcludedInTable(F, kind, Bare(t.name), Bare(name))
    \/ IsObjectExcludedInTable(F, kind, t, Bare(name))

pgExcludedColumns(F, t) ==
    ExcludedColumns(F, Bare(t.name)) \cup ExcludedColumns(F, t)

pgRowExcludeMatches(F, t) ==
    RowExcludeMatches(F, Bare(t.name)) \cup RowExcludeMatches(F, t)

pgAnyColExcluded(F, t, cols) == cols \cap pgExcludedColumns(F, t) # {}

(***************************************************************************)
(* The shape of the file: one schema is dumped to bare names, several to   *)
(* names qualified with the source schema, which the file creates first    *)
(* and renames last.  c.rename maps the schemas that change name.          *)
(***************************************************************************)
qualify(c) == Cardinality(c.schemas) > 1

out(c, schema) == IF schema \in DOMAIN c.rename THEN c.rename[schema] ELSE schema

covers(c, schema) == schema \in c.schemas

preamble(c) ==
    IF ~qualify(c) THEN <<>>
    ELSE LET order == SetToSeq(c.schemas) IN
         [i \in 1..Len(order) |->
             Statement("schema", [kind |-> "schema", name |-> order[i]], {})]

renameTail(c) ==
    IF ~qualify(c) THEN <<>>
    ELSE LET order == SetToSeq({s \in c.schemas : out(c, s) # s}) IN
         [i \in 1..Len(order) |->
             Statement("rename", [kind |-> "schema", name |-> order[i],
                                  to |-> out(c, order[i])], {})]

(***************************************************************************)
(* What each kind's list leaves.                                           *)
(***************************************************************************)
listExtensions(c) ==
    SelectSeq(OfKind(c, "extension"), LAMBDA o : ~IsObjectExcluded(c.rules, "extension", o.id))

\* Types, sequences: a rule removes them only by naming them.
dumpTypes(c) ==
    SelectSeq(OfKind(c, "type"),
              LAMBDA o : ~pgObjectExcluded(c.rules, "type", o.id.schema, o.id.name))

listSequences(c) ==
    SelectSeq(OfKind(c, "sequence"),
              LAMBDA o : ~pgObjectExcluded(c.rules, "sequence", o.id.schema, o.id.name))

pgListTables(c) ==
    SelectSeq(OfKind(c, "table"), LAMBDA o : ~pgTableExcluded(c.rules, o.id))

\* A column's own collation is not written.
buildCreateTable(c, t) ==
    LET dropped == pgExcludedColumns(c.rules, t.id) IN
    Statement("create", [t EXCEPT !.cols = @ \ dropped, !.text = {}, !.rows = {}],
              {o \in Hanging(c, {"primary", "unique"}, t) : o.cols \cap dropped = {}})

\* Views and materialized views are matched as tables, then as what they are.
listViews(c) ==
    SelectSeq(OfKind(c, "view"),
              LAMBDA o : /\ ~pgTableExcluded(c.rules, o.id)
                         /\ ~pgObjectExcluded(c.rules, "view", o.id.schema, o.id.name))

listMatViews(c) ==
    SelectSeq(OfKind(c, "materialized_view"),
              LAMBDA o : /\ ~pgTableExcluded(c.rules, o.id)
                         /\ ~pgObjectExcluded(c.rules, "materialized_view",
                                              o.id.schema, o.id.name))

listFunctions(c, kind) ==
    SelectSeq(OfKind(c, kind), LAMBDA o : ~pgRoutineExcluded(c.rules, kind, o.id))

listIndexDefs(c) ==
    SelectSeq(OfKind(c, "index"),
              LAMBDA o : /\ ~pgObjectExcludedInTable(c.rules, "index", o.on, o.id.name)
                         /\ ~pgTableExcluded(c.rules, o.on)
                         /\ ~pgAnyColExcluded(c.rules, o.on, o.cols))

listFKConstraints(c) ==
    SelectSeq(OfKind(c, "foreign_key"),
              LAMBDA o : /\ ~pgObjectExcluded(c.rules, "foreign_key", o.id.schema, o.id.name)
                         /\ ~pgTableExcluded(c.rules, o.on)
                         /\ ~pgAnyColExcluded(c.rules, o.on, o.cols)
                         /\ covers(c, o.ref.schema)
                         /\ ~pgTableExcluded(c.rules, o.ref)
                         /\ ~pgAnyColExcluded(c.rules, o.ref, o.refCols))

pgListTriggers(c) ==
    SelectSeq(OfKind(c, "trigger"),
              LAMBDA o : /\ ~pgTableExcluded(c.rules, o.on)
                         /\ ~pgObjectExcludedInTable(c.rules, "trigger", o.on, o.id.name)
                         /\ ~pgObjectExcluded(c.rules, "trigger", o.on.schema, o.id.name))

listRules(c) ==
    SelectSeq(OfKind(c, "rule"),
              LAMBDA o : /\ ~pgTableExcluded(c.rules, o.on)
                         /\ ~pgObjectExcluded(c.rules, "rule", o.id.schema, o.id.name))

\* A row survives unless some predicate IS TRUE of it.
buildCopyQuery(c, t) ==
    [t EXCEPT !.cols = @ \ pgExcludedColumns(c.rules, t.id),
              !.rows = KeptRows(t, pgRowExcludeMatches(c.rules, t.id))]

(***************************************************************************)
(* The file.                                                               *)
(***************************************************************************)
\* Mutant: sequences are written after the tables that draw on them.
SequencesLate(c) ==
    LET tables == pgListTables(c) IN
    CreateEach(listExtensions(c))
    \o CreateEach(dumpTypes(c))
    \o [i \in 1..Len(tables) |-> buildCreateTable(c, tables[i])]
    \o CreateEach(listSequences(c))

pgDumpSchema(c) ==
    LET tables == pgListTables(c) IN
    CreateEach(listExtensions(c))
    \o CreateEach(dumpTypes(c))
    \o CreateEach(listSequences(c))
    \o [i \in 1..Len(tables) |-> buildCreateTable(c, tables[i])]
    \o CreateEach(listViews(c))
    \o CreateEach(listMatViews(c))
    \o CreateEach(listFunctions(c, "function"))
    \o CreateEach(listFunctions(c, "procedure"))

pgDumpData(c) ==
    LET tables == pgListTables(c) IN
    [i \in 1..Len(tables) |-> Rows(buildCopyQuery(c, tables[i]))]

pgDumpPostData(c) ==
    LET matviews == listMatViews(c) IN
    CreateEach(listIndexDefs(c))
    \o CreateEach(listFKConstraints(c))
    \o CreateEach(pgListTriggers(c))
    \o CreateEach(listRules(c))
    \o [i \in 1..Len(matviews) |-> Statement("refresh", matviews[i], {})]

pgDump(c) ==
    preamble(c) \o pgDumpSchema(c) \o pgDumpData(c) \o pgDumpPostData(c) \o renameTail(c)

(***************************************************************************)
(* MongoDB.  One JSON object: the collections with their options, the      *)
(* validators and the views, then the documents; the indexes stand before  *)
(* the documents in the file and are created after them.                   *)
(***************************************************************************)
mongoIncludeCollection(F, o) == ~o.system /\ ~IsTableExcluded(F, o.id)

mongoCollections(c) ==
    SelectSeq(OfKind(c, "table"), LAMBDA o : mongoIncludeCollection(c.rules, o))

mongoViews(c) ==
    SelectSeq(OfKind(c, "view"), LAMBDA o : /\ mongoIncludeCollection(c.rules, o)
                                            /\ ~IsObjectExcluded(c.rules, "view", o.id))

\* A validator bears the name of its collection, and goes with it.
mongoValidators(c) ==
    SelectSeq(OfKind(c, "validator"), LAMBDA o : /\ mongoIncludeCollection(c.rules, o)
                                                 /\ ~IsObjectExcluded(c.rules, "validator", o.id))

mongoIndexes(c) ==
    SelectSeq(OfKind(c, "index"),
              LAMBDA o : /\ ~o.system /\ ~IsTableExcluded(c.rules, o.on)
                         /\ ~IsObjectExcludedInTable(c.rules, "index", o.on, o.id))

buildMongoProjection(c, t) == KeepColumns(c.rules, t.id, t.cols)

\* $nor of the predicates: a document without the field matches none of them.
buildMongoRowFilter(c, t) == KeptRows(t, RowExcludeMatches(c.rules, t.id))

mongoSelect(c, t) == [t EXCEPT !.cols = buildMongoProjection(c, t),
                               !.rows = buildMongoRowFilter(c, t)]

\* A collection without a document is left out of the data.
mongoDataWriter(read) == SelectSeq(read, LAMBDA t : t.rows # {})

mongoDumpData(c) ==
    LET collections == mongoCollections(c) IN
    mongoDataWriter([i \in 1..Len(collections) |-> mongoSelect(c, collections[i])])

mongoDump(c) ==
    [collections |-> mongoCollections(c), validators |-> mongoValidators(c),
     views |-> mongoViews(c), indexes |-> mongoIndexes(c), data |-> mongoDumpData(c)]

\* What the restore makes of each member of the file.
createCollection(o) == Create([o EXCEPT !.rows = {}])
createView(o)       == Create(o)
insertDocuments(t)  == Rows(t)
createIndexes(objs) == CreateEach(objs)

mongoRestoreSchema(dump) ==
    [i \in 1..Len(dump.collections) |-> createCollection(dump.collections[i])]
    \o CreateEach(dump.validators)
    \o [i \in 1..Len(dump.views) |-> createView(dump.views[i])]

eachMongoDump(dump) ==
    mongoRestoreSchema(dump) \o [i \in 1..Len(dump.data) |-> insertDocuments(dump.data[i])]

mongoRestore(dump) == eachMongoDump(dump) \o createIndexes(dump.indexes)

Script(c) ==
    CASE c.engine = "mysql"      -> mysqlDump(c)
      [] c.engine = "mariadb"    -> mariadbDump(c)
      [] c.engine = "postgresql" -> pgDump(c)
      [] c.engine = "mongodb"    -> mongoRestore(mongoDump(c))
=============================================================================
