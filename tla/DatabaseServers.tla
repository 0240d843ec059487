-------------------------- MODULE DatabaseServers --------------------------
(***************************************************************************)
(* The server-level calls of the data-migration library                    *)
(* (src/data-mig/dbmsx/dbmsx.go) and what each driver does for them:       *)
(* CreateDatabase, DropDatabase, PrepareTarget, MigrateData, InspectAll,   *)
(* and the executor's EnsureTargetDatabase.  A call is a handful of        *)
(* statements sent one at a time, over SQL or as commands over SSH, with   *)
(* nothing held between them: other calls and other clients of the server  *)
(* come in between, and a connection may break before or after the server  *)
(* has done what it was asked.                                             *)
(***************************************************************************)
EXTENDS Naturals, FiniteSets, Sequences

CONSTANTS
    Calls,        \* the calls
    Requests,     \* what they may ask, see MCDatabaseServers
    Servers,      \* [engine, direct, holds]: the server and its databases
    Names,        \* every database name
    SystemNames,  \* those the engine or its host keeps for itself
    MaxFaults,    \* connections that break
    MaxWrites     \* what other clients do

Engines == {"mysql", "mariadb", "postgresql", "mongodb"}
Ops     == {"create", "drop", "ensure", "prepare", "migrate", "scan"}
Locales == {"", "known", "unknown"}  \* whether the target has it installed

VARIABLES
    server,   \* [engine, direct]
    dbs,      \* the databases that exist: name -> [schemas, objs]
    users,    \* the accounts: name -> databases and schemas it may write to
    asks,     \* what each call was asked
    todo,     \* the statements it still has to send
    answers,  \* its answer; "none" before
    known,    \* what it read and acts on later: [role, grants, objs, schemas]
    scan,     \* InspectAll: [left, inspected, skipped]
    before,   \* its database when it started, less what was rolled back since
    lasting,  \* the databases that have stood since
    faults, writes

vars == <<server, dbs, users, asks, todo, answers, known, scan, before, lasting,
          faults, writes>>

Engine == server.engine
SQL    == Engine # "mongodb"

(***************************************************************************)
(* Names.                                                                  *)
(***************************************************************************)
IsSystemDatabase(name) == name \in SystemNames
UserDatabases(names)   == {n \in names : ~IsSystemDatabase(n)}

IsSystemSchema(name) == name = "pg_catalog"
UserSchemas(names)   == {n \in names : ~IsSystemSchema(n)}

Asking ==
    [op : Ops, on : SUBSET Engines, database : Names, tolerant : BOOLEAN,
     requireEmpty : BOOLEAN, force : BOOLEAN, collection : BOOLEAN, locale : Locales,
     halves : BOOLEAN, user : STRING, schemas : SUBSET STRING, grant : BOOLEAN,
     rollback : BOOLEAN]

\* Nobody makes a table in PostgreSQL's own schemas.
ASSUME RequestAssumption ==
    \A q \in Requests : q \in Asking /\ \A s \in q.schemas : ~IsSystemSchema(s)

IsDatabase(db) == db = [schemas |-> db.schemas, objs |-> db.objs]

ASSUME ServerAssumption ==
    \A s \in Servers :
        /\ s.engine \in Engines /\ DOMAIN s.holds \subseteq Names
        /\ s.holds = [n \in DOMAIN s.holds |-> s.holds[n]]
        /\ \A n \in DOMAIN s.holds :
              /\ IsDatabase(s.holds[n])
              /\ \A o \in s.holds[n].objs : ~IsSystemSchema(o.schema)

\* A name or an option that would break out of its quoting is refused, and so
\* is an explicit locale with one of its halves.
ValidateDatabaseName(name) == name # "unquotable"
ValidateCreateOption(q)    == ~(q.locale # "" /\ q.halves)

(***************************************************************************)
(* What CheckTargetEmpty counts: tables or collections, no views and none  *)
(* of the server's own.  PostgreSQL looks only at the schemas it is given, *)
(* when it is given any.                                                   *)
(***************************************************************************)
mysqlCount(db)    == {o \in db.objs : o.kind = "table"}
mariadbCount(db)  == {o \in db.objs : o.kind = "table"}

pgTargetTableCountQuery(db, q) ==
    {o \in db.objs : /\ o.kind = "table"
                     /\ IF q.schemas = {} THEN ~IsSystemSchema(o.schema)
                                          ELSE o.schema \in q.schemas}

excludeMongoSystemCollections(objs) == {o \in objs : o.kind # "system"}
mongoCount(db) == excludeMongoSystemCollections(db.objs)

Counted(db, q) ==
    CASE Engine = "mysql"      -> mysqlCount(db)
      [] Engine = "mariadb"    -> mariadbCount(db)
      [] Engine = "postgresql" -> pgTargetTableCountQuery(db, q)
      [] Engine = "mongodb"    -> mongoCount(db)

(***************************************************************************)
(* The statements of each call, in order.                                  *)
(***************************************************************************)
If(condition, step) == IF condition THEN <<step>> ELSE <<>>

\* PostgreSQL asks whether the database is there before it connects to it.
mysqlCheckTargetEmpty   == <<"count">>
mariadbCheckTargetEmpty == <<"count">>
pgCheckTargetEmpty      == <<"connectable", "count">>
mongoCheckTargetEmpty   == <<"count">>

CheckTargetEmpty ==
    CASE Engine = "mysql"      -> mysqlCheckTargetEmpty
      [] Engine = "mariadb"    -> mariadbCheckTargetEmpty
      [] Engine = "postgresql" -> pgCheckTargetEmpty
      [] Engine = "mongodb"    -> mongoCheckTargetEmpty

mysqlCreateDatabase(q)   == <<"absent", "create">>
mariadbCreateDatabase(q) == <<"absent", "create">>
pgCreateDatabase(q)      == <<"absent", "create">>
\* Without a collection to make, MongoDB has nothing to create.
mongoCreateDatabase(q)   == <<"absent">> \o If(q.collection, "create")

CreateDatabase(q) ==
    CASE Engine = "mysql"      -> mysqlCreateDatabase(q)
      [] Engine = "mariadb"    -> mariadbCreateDatabase(q)
      [] Engine = "postgresql" -> pgCreateDatabase(q)
      [] Engine = "mongodb"    -> mongoCreateDatabase(q)

\* Mutant: the drop does not look first.
NotCounted(q) == <<>>

Guarded(q) == IF q.requireEmpty THEN CheckTargetEmpty ELSE <<>>

mysqlDropDatabase(q)   == <<"present">> \o Guarded(q) \o <<"drop">>
mariadbDropDatabase(q) == <<"present">> \o Guarded(q) \o <<"drop">>
\* The count is itself a session, so it comes before the others are ended.
pgDropDatabase(q)      == <<"present">> \o Guarded(q) \o If(q.force, "terminate") \o <<"drop">>
mongoDropDatabase(q)   == <<"present">> \o Guarded(q) \o <<"drop">>

DropDatabase(q) ==
    CASE Engine = "mysql"      -> mysqlDropDatabase(q)
      [] Engine = "mariadb"    -> mariadbDropDatabase(q)
      [] Engine = "postgresql" -> pgDropDatabase(q)
      [] Engine = "mongodb"    -> mongoDropDatabase(q)

mysqlPrepareTarget(q)   == <<"present">> \o CheckTargetEmpty \o <<"user", "grant">>
mariadbPrepareTarget(q) == <<"present">> \o CheckTargetEmpty \o <<"user", "grant">>
pgPrepareTarget(q) ==
    <<"present">> \o CheckTargetEmpty
    \o <<"role", "user", "grant", "schemas", "schemagrants">>
\* MongoDB cannot tell a missing database from an empty one.
mongoPrepareTarget(q)   == CheckTargetEmpty \o <<"user">>

PrepareTarget(q) ==
    CASE Engine = "mysql"      -> mysqlPrepareTarget(q)
      [] Engine = "mariadb"    -> mariadbPrepareTarget(q)
      [] Engine = "postgresql" -> pgPrepareTarget(q)
      [] Engine = "mongodb"    -> mongoPrepareTarget(q)

MigrateData(q) ==
    (IF q.grant THEN PrepareTarget(q) ELSE <<>>) \o CheckTargetEmpty \o <<"load">>

\* The executor asks ListDatabases itself, then creates.
EnsureTargetDatabase(q) == <<"ensure">> \o (IF SQL THEN CreateDatabase(q) ELSE <<>>)

Statements(q) ==
    CASE q.op = "create"  -> CreateDatabase(q)
      [] q.op = "drop"    -> DropDatabase(q)
      [] q.op = "prepare" -> PrepareTarget(q)
      [] q.op = "migrate" -> MigrateData(q)
      [] q.op = "ensure"  -> EnsureTargetDatabase(q)
      [] q.op = "scan"    -> <<"list">>

(***************************************************************************)
(* Calls.                                                                  *)
(***************************************************************************)
Asked(c) == asks[c].database
There(c) == Asked(c) \in DOMAIN dbs

Empty == [schemas |-> {"public"}, objs |-> {}]

Start(c) ==
    /\ answers[c] = "none" /\ todo[c] = <<"start">>
    /\ before' = [before EXCEPT ![c] = IF There(c) THEN dbs[Asked(c)] ELSE Empty]
    /\ lasting' = [lasting EXCEPT ![c] = DOMAIN dbs]
    /\ LET q == asks[c]
           ddl == q.op \in {"create", "drop", "ensure"}
           refused == /\ ddl
                      /\ \/ ~ValidateDatabaseName(q.database)
                         \/ IsSystemDatabase(q.database)
                         \/ q.op = "create" /\ ~ValidateCreateOption(q) IN
       IF refused
       THEN answers' = [answers EXCEPT ![c] = "refused"] /\ todo' = [todo EXCEPT ![c] = <<>>]
       ELSE todo' = [todo EXCEPT ![c] = Statements(q)] /\ UNCHANGED answers
    /\ UNCHANGED <<server, dbs, users, asks, known, scan, faults, writes>>

Due(c, step) == todo[c] # <<>> /\ Head(todo[c]) = step

\* A call goes on to its next statement, or ends.
GoOn(c) ==
    /\ todo' = [todo EXCEPT ![c] = Tail(@)]
    /\ answers' = [answers EXCEPT ![c] =
                     IF Len(todo[c]) > 1 THEN @
                     ELSE CASE asks[c].op \in {"create", "drop"} -> "ok"
                            [] asks[c].op = "ensure"             -> "made"
                            [] OTHER                             -> "done"]

End(c, says) ==
    /\ todo' = [todo EXCEPT ![c] = <<>>]
    /\ answers' = [answers EXCEPT ![c] = says]

\* A statement was sent that changes the server; its answer may be lost.
Replied(c) ==
    \/ GoOn(c) /\ UNCHANGED faults
    \/ faults < MaxFaults /\ faults' = faults + 1 /\ End(c, "error")

Reads  == UNCHANGED <<server, dbs, users, asks, scan, before, lasting, faults, writes>>
Writes == UNCHANGED <<server, asks, known, before, scan, writes>>

\* Mutant: what is there will always do.
AlwaysOk(c) == "ok"

CreateExistsResult(c) == IF asks[c].tolerant THEN "ok" ELSE "exists"
DropMissingResult(c)  == IF asks[c].tolerant THEN "ok" ELSE "missing"

\* databaseExists, asked by a call that is to create.
IfAbsent(c) ==
    /\ Due(c, "absent")
    /\ IF There(c) THEN End(c, IF asks[c].op = "ensure" THEN "error" ELSE CreateExistsResult(c))
                   ELSE GoOn(c)
    /\ UNCHANGED known /\ Reads

\* databaseExists, asked by one that needs it.
IfPresent(c) ==
    /\ Due(c, "present")
    /\ IF There(c) THEN GoOn(c)
       ELSE End(c, IF asks[c].op = "drop" THEN DropMissingResult(c) ELSE "missing")
    /\ UNCHANGED known /\ Reads

\* PostgreSQL: a target that is not there yet is empty.
Connectable(c) ==
    /\ Due(c, "connectable")
    /\ IF There(c) THEN GoOn(c)
       ELSE /\ todo' = [todo EXCEPT ![c] = Tail(Tail(@))]
            /\ UNCHANGED answers
    /\ UNCHANGED known /\ Reads

\* PostgreSQL and MySQL refuse a session on a database that is gone; over SSH
\* MySQL selects none, and MongoDB finds nothing there.
Count(c) ==
    /\ Due(c, "count")
    /\ CASE There(c) /\ Counted(dbs[Asked(c)], asks[c]) # {} -> End(c, "notempty")
         [] ~There(c) /\ SQL /\ (server.direct \/ Engine = "postgresql") -> End(c, "error")
         [] OTHER -> GoOn(c)
    /\ UNCHANGED known /\ Reads

Role(c) ==
    /\ Due(c, "role")
    /\ known' = [known EXCEPT ![c].role = IF asks[c].user \in DOMAIN users THEN "there" ELSE "fresh"]
    /\ GoOn(c)
    /\ Reads

\* ListDatabases.
Ensure(c) ==
    /\ Due(c, "ensure")
    /\ IF Asked(c) \in UserDatabases(DOMAIN dbs) THEN End(c, "there") ELSE GoOn(c)
    /\ UNCHANGED known /\ Reads

(***************************************************************************)
(* The statements that change the server.  Each either fails and leaves it *)
(* alone, or has its effect; a connection that breaks then hides which.    *)
(***************************************************************************)
Without(f, name)    == [n \in DOMAIN f \ {name} |-> f[n]]
With(f, name, what) == [n \in DOMAIN f \cup {name} |-> IF n = name THEN what ELSE f[n]]

Rights(u) == IF u \in DOMAIN users THEN users[u] ELSE {}

OnDatabase(c)  == [database |-> Asked(c)]
OnSchema(c, s) == [database |-> Asked(c), schema |-> s]

\* A new database: with its first collection, when MongoDB makes it.
Made(c) ==
    IF SQL THEN Empty
    ELSE [schemas |-> {}, objs |-> {[kind |-> "table", schema |-> "", by |-> c]}]

Collections(c) == IF There(c) THEN dbs[Asked(c)].objs ELSE {}

CreateDDL(c) ==
    /\ Due(c, "create")
    /\ asks[c].locale # "unknown"
    /\ Writes /\ UNCHANGED <<users, lasting>>
    /\ IF SQL /\ There(c)
       THEN End(c, "error") /\ UNCHANGED <<dbs, faults>>
       ELSE /\ dbs' = With(dbs, Asked(c),
                          [Made(c) EXCEPT !.objs = @ \cup Collections(c)])
            /\ Replied(c)

\* The source's locale is not installed on the target: the executor asks again
\* for the target's own.
NoSuchLocale(c) ==
    /\ Due(c, "create")
    /\ asks[c].locale = "unknown"
    /\ IF asks[c].op = "ensure" /\ Engine = "postgresql"
       THEN /\ asks' = [asks EXCEPT ![c].locale = ""]
            /\ todo' = [todo EXCEPT ![c] = CreateDatabase(asks[c])]
            /\ UNCHANGED answers
       ELSE End(c, "error") /\ UNCHANGED asks
    /\ UNCHANGED <<server, dbs, users, known, scan, before, lasting, faults, writes>>

\* PostgreSQL drops no database somebody has a session on; ending the sessions
\* first leaves room for another.
Terminate(c) ==
    /\ Due(c, "terminate")
    /\ GoOn(c)
    /\ UNCHANGED known /\ Reads

Busy(c) ==
    /\ Engine = "postgresql"
    /\ Due(c, "drop")
    /\ End(c, "error")
    /\ UNCHANGED known /\ Reads

\* A database goes, and with it the rights in it: MySQL keeps them for the
\* next of its name.
DropDDL(c) ==
    /\ Due(c, "drop")
    /\ Writes
    /\ IF There(c)
       THEN /\ dbs' = Without(dbs, Asked(c))
            /\ lasting' = [k \in Calls |-> lasting[k] \ {Asked(c)}]
            /\ users' = IF Engine # "postgresql" THEN users
                        ELSE [u \in DOMAIN users |->
                                {r \in users[u] : r.database # Asked(c)}]
            /\ Replied(c)
       ELSE /\ UNCHANGED <<dbs, lasting, users, faults>>
            /\ IF SQL THEN End(c, "error") ELSE GoOn(c)

\* MySQL leaves an account that is there alone; PostgreSQL goes by what it
\* read; MongoDB makes it with its role in one command, once.
CreateUser(c) ==
    /\ Due(c, "user")
    /\ Writes /\ UNCHANGED <<dbs, lasting>>
    /\ LET u == asks[c].user
           taken == u \in DOMAIN users IN
       IF taken /\ (Engine = "mongodb" \/ known[c].role = "fresh")
       THEN End(c, "error") /\ UNCHANGED <<users, faults>>
       ELSE /\ users' = With(users, u,
                    Rights(u) \cup IF SQL THEN {} ELSE {OnDatabase(c)})
            /\ Replied(c)

Grant(c) ==
    /\ Due(c, "grant")
    /\ Writes /\ UNCHANGED <<dbs, lasting>>
    /\ IF Engine = "postgresql" /\ ~There(c)
       THEN End(c, "error") /\ UNCHANGED <<users, faults>>
       ELSE /\ users' = With(users, asks[c].user, Rights(asks[c].user) \cup {OnDatabase(c)})
            /\ Replied(c)

\* Where a migration lands: "public", when its location names no schema.
Wanted(c) == IF asks[c].schemas = {} THEN {"public"} ELSE asks[c].schemas

\* Mutant: a location that names no schema gets no grant on one.
NamedOnly(c) == asks[c].schemas \cap UserSchemas(dbs[Asked(c)].schemas)

pgGrantSchemaTargets(c) == Wanted(c) \cap UserSchemas(dbs[Asked(c)].schemas)

\* PostgreSQL: the schemas to grant on are those one statement lists; each has
\* a statement of its own, in which it may be gone again.
ListSchemas(c) ==
    /\ Due(c, "schemas")
    /\ IF There(c)
       THEN known' = [known EXCEPT ![c].grants = pgGrantSchemaTargets(c)] /\ GoOn(c)
       ELSE End(c, "error") /\ UNCHANGED known
    /\ Reads

GrantSchema(c, s) ==
    /\ UNCHANGED <<server, dbs, asks, scan, before, lasting, writes>>
    /\ IF There(c) /\ s \in dbs[Asked(c)].schemas
       THEN /\ users' = With(users, asks[c].user, Rights(asks[c].user) \cup {OnSchema(c, s)})
            /\ known' = [known EXCEPT ![c].grants = @ \ {s}]
            /\ \/ UNCHANGED <<todo, answers, faults>>
               \/ faults < MaxFaults /\ faults' = faults + 1 /\ End(c, "error")
       ELSE End(c, "error") /\ UNCHANGED <<users, known, faults>>

GrantSchemas(c) ==
    /\ Due(c, "schemagrants")
    /\ \/ \E s \in known[c].grants : GrantSchema(c, s)
       \/ known[c].grants = {} /\ GoOn(c) /\ UNCHANGED known /\ Reads

(***************************************************************************)
(* The transfer.  PostgreSQL's restore creates the schemas it is to fill.  *)
(* One that fails is rolled back, when that was asked for: an inspection   *)
(* lists what the location holds, and a script made from it drops that and *)
(* every schema inspected but "public", with whatever is in it by then.    *)
(***************************************************************************)
Filled(c) ==
    [kind : {"table"}, schema : IF Engine = "postgresql" THEN Wanted(c) ELSE {""}, by : {c}]

Load(c) ==
    /\ Due(c, "load")
    /\ Writes /\ UNCHANGED <<users, lasting, faults>>
    /\ IF SQL /\ ~There(c) THEN End(c, "error") /\ UNCHANGED dbs
       ELSE /\ dbs' = With(dbs, Asked(c),
                   [schemas |-> (IF There(c) THEN dbs[Asked(c)].schemas ELSE {})
                                \cup asks[c].schemas,
                    objs    |-> Collections(c) \cup Filled(c)])
            /\ \/ GoOn(c)
               \/ ~asks[c].rollback /\ End(c, "error")
               \/ /\ asks[c].rollback
                  /\ todo' = [todo EXCEPT ![c] = <<"survey">>]
                  /\ UNCHANGED answers

RolledBack(c) ==
    {o \in dbs[Asked(c)].objs :
        IF asks[c].schemas = {} THEN o.kind # "system" ELSE o.schema \in asks[c].schemas}

Inspected(c) ==
    IF Engine # "postgresql" THEN {}
    ELSE IF asks[c].schemas = {} THEN UserSchemas(dbs[Asked(c)].schemas) ELSE asks[c].schemas

\* A schema that is named and not there is an error, and nothing is dropped.
Survey(c) ==
    /\ Due(c, "survey")
    /\ IF There(c) /\ Inspected(c) \subseteq dbs[Asked(c)].schemas
       THEN /\ known' = [known EXCEPT ![c].objs = RolledBack(c),
                                      ![c].schemas = Inspected(c) \ {"public"}]
            /\ todo' = [todo EXCEPT ![c] = <<"rollback">>]
            /\ UNCHANGED answers
       ELSE End(c, "error") /\ UNCHANGED known
    /\ Reads

\* A schema goes with all it holds, and with it the rights in it.
Dropped(db, objs, schemas) ==
    [schemas |-> db.schemas \ schemas,
     objs    |-> {o \in db.objs : o \notin objs /\ o.schema \notin schemas}]

Teardown(c, schemas) ==
    LET d == Asked(c)
        objs == known[c].objs IN
    IF ~There(c) THEN UNCHANGED <<dbs, users, before, lasting>>
    ELSE /\ dbs' = IF ~SQL /\ Dropped(dbs[d], objs, schemas).objs = {} THEN Without(dbs, d)
                  ELSE [dbs EXCEPT ![d] = Dropped(@, objs, schemas)]
         /\ users' = [u \in DOMAIN users |-> users[u] \ {OnSchema(c, s) : s \in schemas}]
         /\ before' = [k \in Calls |-> IF Asked(k) = d THEN Dropped(before[k], objs, schemas)
                                                      ELSE before[k]]
         /\ lasting' = [k \in Calls |-> lasting[k] \cap DOMAIN dbs']

\* The schemas come last in the script; what breaks it leaves them.
rollbackDrop(c) ==
    /\ Due(c, "rollback")
    /\ \/ Teardown(c, known[c].schemas) /\ UNCHANGED faults
       \/ faults < MaxFaults /\ faults' = faults + 1 /\ Teardown(c, {})
    /\ End(c, "error")
    /\ UNCHANGED <<server, asks, known, scan, writes>>

(***************************************************************************)
(* InspectAll: the names, then one database after the other, in whatever   *)
(* order they were listed; one that fails is put aside.                    *)
(***************************************************************************)
List(c) ==
    /\ Due(c, "list")
    /\ scan' = [scan EXCEPT ![c].left = UserDatabases(DOMAIN dbs)]
    /\ todo' = [todo EXCEPT ![c] = <<"inspect">>]
    /\ UNCHANGED <<server, dbs, users, asks, answers, known, before, lasting, faults, writes>>

\* A database that is gone is an error on a direct MySQL connection; anywhere
\* else Inspect returns what little it could read.
Readable(name) == name \in DOMAIN dbs \/ ~server.direct \/ Engine \in {"postgresql", "mongodb"}

Put(c, name, where) ==
    scan' = [scan EXCEPT ![c] = [[@ EXCEPT !.left = @ \ {name}]
                                 EXCEPT ![where] = @ \cup {name}]]

Inspect(c) ==
    /\ Due(c, "inspect")
    /\ \E name \in scan[c].left :
          \/ Readable(name) /\ Put(c, name, "inspected") /\ UNCHANGED faults
          \/ ~Readable(name) /\ Put(c, name, "skipped") /\ UNCHANGED faults
          \/ /\ Readable(name) /\ faults < MaxFaults
             /\ Put(c, name, "skipped") /\ faults' = faults + 1
    /\ UNCHANGED <<server, dbs, users, asks, todo, answers, known, before, lasting, writes>>

Finish(c) ==
    /\ Due(c, "inspect")
    /\ scan[c].left = {}
    /\ GoOn(c) /\ UNCHANGED known /\ Reads

(***************************************************************************)
(* A connection breaks before a statement of any other kind is answered,   *)
(* or before it reaches the server.                                        *)
(***************************************************************************)
Break(c) ==
    /\ faults < MaxFaults
    /\ todo[c] # <<>> /\ Head(todo[c]) \notin {"start", "inspect", "load"}
    /\ ~(Due(c, "schemagrants") /\ known[c].grants = {})
    /\ faults' = faults + 1
    /\ End(c, "error")
    /\ UNCHANGED <<server, dbs, users, asks, known, scan, before, lasting, writes>>

\* Another client writes to a database; on MongoDB that may bring it about.
Write(name, kind, schema) ==
    /\ writes < MaxWrites /\ writes' = writes + 1
    /\ name \notin SystemNames
    /\ IF SQL THEN name \in DOMAIN dbs /\ kind # "system" ELSE schema = ""
    /\ schema # "" <=> Engine = "postgresql"
    /\ LET db == IF name \in DOMAIN dbs THEN dbs[name] ELSE [schemas |-> {}, objs |-> {}] IN
       dbs' = With(dbs, name,
                   [schemas |-> db.schemas \cup ({schema} \ {""}),
                    objs |-> db.objs \cup {[kind |-> kind, schema |-> schema, by |-> "client"]}])
    /\ UNCHANGED <<server, users, asks, todo, answers, known, scan, before, lasting, faults>>

(***************************************************************************)
(* The specification.                                                      *)
(***************************************************************************)
Init ==
    /\ \E s \in Servers :
          /\ server = [engine |-> s.engine, direct |-> s.direct]
          /\ dbs = s.holds
          /\ asks \in [Calls -> {q \in Requests : s.engine \in q.on}]
    /\ users = <<>>
    /\ todo = [c \in Calls |-> <<"start">>]
    /\ answers = [c \in Calls |-> "none"]
    /\ known = [c \in Calls |-> [role |-> "", grants |-> {}, objs |-> {}, schemas |-> {}]]
    /\ scan = [c \in Calls |-> [left |-> {}, inspected |-> {}, skipped |-> {}]]
    /\ before = [c \in Calls |-> Empty]
    /\ lasting = [c \in Calls |-> {}]
    /\ faults = 0 /\ writes = 0

Statement(c) ==
    \/ IfAbsent(c) \/ IfPresent(c) \/ Connectable(c) \/ Count(c) \/ Role(c) \/ Ensure(c)
    \/ CreateDDL(c) \/ NoSuchLocale(c) \/ Terminate(c) \/ Busy(c) \/ DropDDL(c)
    \/ CreateUser(c) \/ Grant(c) \/ ListSchemas(c) \/ GrantSchemas(c)
    \/ Load(c) \/ Survey(c) \/ rollbackDrop(c)
    \/ List(c) \/ Inspect(c) \/ Finish(c)

Next ==
    \/ \E c \in Calls : Start(c) \/ Statement(c) \/ Break(c)
    \/ \E name \in Names, kind \in {"table", "view", "system"}, schema \in {"", "public", "s"} :
          Write(name, kind, schema)

Spec == Init /\ [][Next]_vars

(***************************************************************************)
(* Properties.                                                             *)
(***************************************************************************)
\* However the calls interleave, a database comes and goes at one moment of one
\* call, and every answer is true of a moment of its call: a create that says
\* ok made it, unless it was told an existing one will do; a drop that says so
\* ended it; an ensure that says it made the database did - the flag that
\* decides who may drop it after a failure (CreateDatabase, DropDatabase,
\* EnsureTargetDatabase).  MongoDB promises less, see AtomicDatabases.
Promise ==
    INSTANCE AtomicDatabases WITH
        asks <- [c \in Calls |-> [op |-> asks[c].op, database |-> Asked(c),
                                  tolerant |-> asks[c].tolerant]],
        lazy <- ~SQL, there <- DOMAIN dbs, Databases <- Names

TakesEffectOnce == Promise!Spec

\* The tables that have stood since the call began, where it looks for them.
OldTables(c) ==
    {t \in before[c].objs :
        /\ t.kind = "table"
        /\ Engine = "postgresql" /\ asks[c].schemas # {} => t.schema \in asks[c].schemas}

\* A drop that requires an empty database, and a migration that empties its
\* target after a failure, end no table that has stood there since before the
\* call: the count they rest on was taken by an earlier statement, over the
\* schemas the call is about, and holds for what the later one removes
\* (CheckTargetEmpty).
NoOldTableDies ==
    [][\A c \in Calls :
         /\ Due(c, "rollback") \/ (Due(c, "drop") /\ asks[c].requireEmpty)
         /\ todo'[c] # todo[c]
         /\ Asked(c) \in lasting[c]
         => \A t \in OldTables(c) : Asked(c) \in DOMAIN dbs' /\ t \in dbs'[Asked(c)].objs]_vars

\* The account PrepareTarget reports ready may write to the database, and on
\* PostgreSQL may create in every schema the migration will load into that has
\* stood there since the call began - unless the database was dropped under it.
\* The grants rest on a list read by an earlier statement, while rollbacks of
\* other calls drop schemas with the rights in them and loads make them again
\* (prepareTargetViaSQL, pgGrantSchemaTargets, buildTeardownScript).
Ready(c) ==
    /\ OnDatabase(c) \in Rights(asks[c].user)
    /\ Engine = "postgresql" =>
         \A s \in before[c].schemas \cap Wanted(c) : OnSchema(c, s) \in Rights(asks[c].user)

PreparedCanLoad ==
    [][\A c \in Calls :
         /\ asks[c].op = "prepare"
         /\ answers[c] = "none" /\ answers'[c] = "done"
         /\ Asked(c) \in lasting[c]
         => Ready(c)']_vars

=============================================================================
