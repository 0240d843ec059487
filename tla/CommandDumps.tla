---------------------------- MODULE CommandDumps ----------------------------
(***************************************************************************)
(* Dumps and restores of a database reached through an SSH host, which the *)
(* engine's own tools make there: what each is asked for, what it writes,  *)
(* and how planner.go chooses between a file and a pipe.                   *)
(*                                                                         *)
(* A tool is modelled by what it writes when asked this way: mysqldump a   *)
(* table at a time with its rows and triggers, the views last; pg_dump in  *)
(* the order of dependencies, keys and all else after the rows; mongodump  *)
(* and mongorestore collections, documents, indexes.                       *)
(***************************************************************************)
EXTENDS DumpScripts

ExcludedTableNames(F) == {r.table : r \in {q \in OfType(F, "table_column") : q.columns = {}}}

SchemaStatement(op, name, to) == Statement(op, [kind |-> "schema", name |-> name, to |-> to], {})

(***************************************************************************)
(* MySQL and MariaDB.  The foreign keys stay in their CREATE TABLE.        *)
(***************************************************************************)
mysqlSSHDumpArgs(c) ==
    [with |-> {"function", "procedure", "trigger", "event"}, ignore |-> ExcludedTableNames(c.rules)]

TriggersOf(c, args, t) ==
    SelectSeq(OfKind(c, "trigger"), LAMBDA o : "trigger" \in args.with /\ o.on = t.id)

mysqldump(c, args) ==
    LET Kept(kind) == SelectSeq(OfKind(c, kind), LAMBDA o : o.id \notin args.ignore)
        Whole(kind) == IF kind \in args.with THEN CreateEach(OfKind(c, kind)) ELSE <<>>
        tables == Kept("table")
        Table(t) == <<Statement("create", [ShownTable(t) EXCEPT !.rows = {}],
                                Hanging(c, {"primary", "unique", "index", "foreign_key"}, t)),
                      Rows(t)>> \o CreateEach(TriggersOf(c, args, t)) IN
    Session("fkoff") \o Session("zero")
    \o FlattenSeq([i \in 1..Len(tables) |-> Table(tables[i])])
    \o Whole("event") \o Whole("function") \o Whole("procedure")
    \o CreateEach(Kept("view"))

\* Row data is passed as it is, whatever it says.
DefinerFilterWriter(script) ==
    [i \in 1..Len(script) |->
        IF script[i].op # "create" THEN script[i]
        ELSE [script[i] EXCEPT !.obj = StripDefiner(@)]]

mysqlDumpViaSSH(c) == DefinerFilterWriter(mysqldump(c, mysqlSSHDumpArgs(c)))

mariadbSSHDumpArgs(c) == mysqlSSHDumpArgs(c)
mariadbDumpViaSSH(c)  == DefinerFilterWriter(mysqldump(c, mariadbSSHDumpArgs(c)))

(***************************************************************************)
(* PostgreSQL.                                                             *)
(***************************************************************************)
pgSSHDumpArgs(c) == [schemas |-> c.schemas, exclude |-> ExcludedTableNames(c.rules)]

\* A pattern with a schema is that table; one without is the visible table of
\* that name, and the visible ones are those of public.
pgDumpPattern(pattern, id) ==
    id.name = pattern.name /\ id.schema = IF pattern.schema = "" THEN "public" ELSE pattern.schema

pg_dump(c, args) ==
    LET order == SetToSeq(args.schemas)
        Out(id) == \E p \in args.exclude : pgDumpPattern(p, id)
        Each(kind) == CreateEach(SelectSeq(OfKind(c, kind),
                        LAMBDA o : o.id.schema \in args.schemas /\ ~Out(o.id) /\ ~Out(o.on)))
        tables == SelectSeq(OfKind(c, "table"),
                            LAMBDA o : o.id.schema \in args.schemas /\ ~Out(o.id))
        matviews == SelectSeq(OfKind(c, "materialized_view"),
                              LAMBDA o : o.id.schema \in args.schemas /\ ~Out(o.id)) IN
    [i \in 1..Len(order) |-> SchemaStatement("newschema", order[i], order[i])]
    \o Each("type") \o Each("function") \o Each("procedure") \o Each("sequence")
    \o [i \in 1..Len(tables) |-> Create([tables[i] EXCEPT !.rows = {}])]
    \o Each("view") \o Each("materialized_view")
    \o RowsOfEach(tables)
    \o Each("primary") \o Each("unique") \o Each("index")
    \o Each("foreign_key") \o Each("trigger") \o Each("rule")
    \o [i \in 1..Len(matviews) |-> Statement("refresh", matviews[i], {})]

pgRenameStatements(c) ==
    LET order == SetToSeq({s \in c.schemas : out(c, s) # s}) IN
    [i \in 1..Len(order) |-> SchemaStatement("rename", order[i], out(c, order[i]))]

pgDumpViaSSH(c) == pg_dump(c, pgSSHDumpArgs(c)) \o pgRenameStatements(c)

(***************************************************************************)
(* MongoDB.  An archive names its collections by the database they come    *)
(* from; of one of another name nothing is restored unless it is asked for *)
(* by that name and mapped.                                                *)
(***************************************************************************)
mongodumpArgs(c) == [exclude |-> ExcludedTableNames(c.rules)]

mongodump(c, args) ==
    LET Kept(kind) == SelectSeq(OfKind(c, kind), LAMBDA o : o.id \notin args.exclude /\ ~o.system)
        Tied(kind) == SelectSeq(OfKind(c, kind), LAMBDA o : o.on \notin args.exclude /\ ~o.system)
        tables == Kept("table") IN
    [i \in 1..Len(tables) |-> Create([tables[i] EXCEPT !.rows = {}])]
    \o CreateEach(Tied("validator")) \o CreateEach(Kept("view"))
    \o RowsOfEach(tables) \o CreateEach(Tied("index"))

mongorestoreCmd(c, source) ==
    [include |-> IF source = "" THEN c.dstName ELSE source, to |-> c.dstName]

mongorestore(c, cmd, archive) == IF cmd.include = c.srcName THEN archive ELSE <<>>

(***************************************************************************)
(* The plan.  Between two SSH hosts the one command's output is the        *)
(* other's input; any other pair goes through a file.                      *)
(***************************************************************************)
direct_pipe(c) == ~c.direct /\ ~c.dstDirect

planDirectPipe(c) ==
    CASE c.engine = "mysql"      -> mysqldump(c, mysqlSSHDumpArgs(c))
      [] c.engine = "mariadb"    -> mysqldump(c, mariadbSSHDumpArgs(c))
      [] c.engine = "postgresql" -> pg_dump(c, pgSSHDumpArgs(c))
      [] c.engine = "mongodb"    ->
            mongorestore(c, mongorestoreCmd(c, c.srcName), mongodump(c, mongodumpArgs(c)))

\* A MongoDB archive never goes to a file: the two ends have the same access.
DumpViaSSH(c) ==
    CASE c.engine = "mysql"      -> mysqlDumpViaSSH(c)
      [] c.engine = "mariadb"    -> mariadbDumpViaSSH(c)
      [] c.engine = "postgresql" -> pgDumpViaSSH(c)

planDBMSTransfer(c) == IF c.direct THEN Script(c) ELSE DumpViaSSH(c)

Plan(c) == IF direct_pipe(c) THEN planDirectPipe(c) ELSE planDBMSTransfer(c)

(***************************************************************************)
(* What a pair of locations is refused for.                                *)
(***************************************************************************)
validatePgSchemaMapping(c) == \A s \in c.schemas : out(c, s) = s \/ ~direct_pipe(c)

validateCrossLocation(c) ==
    /\ c.engine = "mongodb" => c.direct = c.dstDirect
    /\ validatePgSchemaMapping(c)
=============================================================================
