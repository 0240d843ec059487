--------------------------- MODULE MCDatabaseLoads ---------------------------
(* Through the pipe, a dump of four chunks over channels that take two: the   *)
(* dump command can be done before anything is restored, or blocked half way. *)
(*                                                                            *)
(* For MySQL two dumps of a parent table p and its child c: one in the        *)
(* driver's order, the tables and then the rows, and one in mysqldump's,      *)
(* table by table, whose foreign key needs an index of p that may be held     *)
(* back by then.                                                              *)
(*                                                                            *)
(* For PostgreSQL one in the driver's order, one in pg_dump's with what it    *)
(* writes between and after the blocks, and one with everything ahead of the  *)
(* rows.                                                                      *)
EXTENDS DatabaseLoads

Stm(kind, table) ==
  [kind |-> kind, table |-> table, parent |-> "", needs |-> FALSE, sets |-> ""]
Create(t, p) == [Stm("create", t) EXCEPT !.parent = p, !.needs = p # ""]
Ins(t) == Stm("rows", t)
Set(v) == [Stm("session", "") EXCEPT !.sets = v]

MCMySQLDumps ==
  {<<Create("p", ""), Create("c", "p"), Set("zero"), Ins("p"), Ins("p"), Ins("p"),
     Ins("c"), Stm("ddl", "p")>>,
   <<Create("x", ""), Create("p", ""), Stm("lock", "p"), Ins("p"), Ins("p"),
     Create("c", "p"), Set("utc"), Ins("c"), Ins("x")>>}
MCTables == {"p", "c", "x"}
MCWord == [t \in MCTables |-> t]
MCIndexes ==
  [t \in MCTables |-> IF t = "p" THEN {"btree", "fulltext"} ELSE {"fulltext"}]
MCConflicts == {<<5, 6>>, <<6, 5>>}

PgStm(kind, needs) == [kind |-> kind, needs |-> needs, sets |-> "", schema |-> ""]
Setting(v) == [PgStm("set", {}) EXCEPT !.sets = v]

Driver == <<Setting("bodies"), PgStm("create", {}), PgStm("create", {}), PgStm("matview", {2}),
            PgStm("copy", {2}), PgStm("copy", {3}), PgStm("copy", {3}), PgStm("copy", {2}),
            PgStm("index", {3}), PgStm("fk", {5, 6, 9}), PgStm("trigger", {2}),
            PgStm("refresh", {4})>>
PgDump == <<PgStm("create", {}), PgStm("copy", {1}), PgStm("setval", {1}), PgStm("copy", {1}),
            Setting("latin1"), PgStm("copy", {1}), PgStm("index", {1}), PgStm("comment", {7}),
            PgStm("fk", {2, 7})>>
Early == <<PgStm("create", {}), PgStm("index", {1}), PgStm("trigger", {1}),
           PgStm("fk", {1, 2}), Setting("utf8"), PgStm("copy", {1}), PgStm("copy", {1}),
           PgStm("copy", {1})>>
MCPgDumps == {Driver, PgDump, Early}
MCBlocks == UNION {{i \in DOMAIN d : d[i].kind = "copy"} : d \in MCPgDumps}
=============================================================================
