------------------------- MODULE MCDatabaseServers -------------------------
(***************************************************************************)
(* Two calls on a server with a system database and, in one case, a user   *)
(* database that holds a table already; every pair of requests that makes  *)
(* sense on the engine.                                                    *)
(***************************************************************************)
EXTENDS DatabaseServers, TLC

SQLEngines == {"mysql", "mariadb", "postgresql"}
All        == SQLEngines \cup {"mongodb"}

Request(op, on) ==
    [op |-> op, on |-> on, database |-> "app", tolerant |-> FALSE, requireEmpty |-> FALSE,
     force |-> FALSE, collection |-> TRUE, locale |-> "", halves |-> FALSE, user |-> "u",
     schemas |-> {}, grant |-> FALSE, rollback |-> FALSE]

AllRequests ==
    { Request("create", All),
      [Request("create", All) EXCEPT !.tolerant = TRUE],
      [Request("create", {"mongodb"}) EXCEPT !.collection = FALSE],
      [Request("create", {"postgresql"}) EXCEPT !.locale = "known", !.halves = TRUE],
      [Request("create", {"mysql"}) EXCEPT !.database = "sys"],
      [Request("create", {"mysql"}) EXCEPT !.database = "unquotable"],
      Request("drop", All),
      [Request("drop", All) EXCEPT !.tolerant = TRUE],
      [Request("drop", All) EXCEPT !.requireEmpty = TRUE],
      [Request("drop", {"postgresql"}) EXCEPT !.requireEmpty = TRUE, !.force = TRUE],
      [Request("drop", {"postgresql"}) EXCEPT !.requireEmpty = TRUE, !.schemas = {"s"}],
      Request("prepare", All),
      [Request("prepare", {"postgresql"}) EXCEPT !.schemas = {"s"}],
      [Request("migrate", All) EXCEPT !.grant = TRUE, !.rollback = TRUE],
      [Request("migrate", {"postgresql"}) EXCEPT !.schemas = {"s"}, !.rollback = TRUE],
      Request("migrate", All),
      Request("ensure", All),
      [Request("ensure", SQLEngines) EXCEPT !.locale = "unknown"],
      Request("scan", All) }

Schemas(engine) == IF engine = "postgresql" THEN {"public", "s"} ELSE {}
Schema(engine)  == IF engine = "postgresql" THEN "s" ELSE ""

System(engine) == [schemas |-> {}, objs |-> {[kind |-> "table", schema |-> "", by |-> "server"]}]
User(engine) ==
    [schemas |-> Schemas(engine),
     objs |-> {[kind |-> "table", schema |-> Schema(engine), by |-> "user"]}]
Idle(engine) == [schemas |-> Schemas(engine), objs |-> {}]

\* An empty server, one with the database prepared, one with a table in it.
\* MongoDB has no empty databases.
Holding(engine) ==
    {[sys |-> System(engine)], [sys |-> System(engine), app |-> User(engine)]}
    \cup IF engine = "mongodb" THEN {} ELSE {[sys |-> System(engine), app |-> Idle(engine)]}

AllServers ==
    UNION {[engine : {e}, direct : BOOLEAN, holds : Holding(e)] : e \in All}

Interchangeable == Permutations(Calls)
=============================================================================
