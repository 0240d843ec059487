--------------------------- MODULE MCFilteredCopy ---------------------------
(***************************************************************************)
(* Small catalogues for FilteredCopy, one per engine, and every set of at  *)
(* most two rules out of a list that reaches each kind of object, each way *)
(* of spelling a name, and each reason to refuse.                          *)
(*                                                                         *)
(* The catalogues of the passing run leave out what the README's section   *)
(* on disagreements lists of the verdict: MySQL and MariaDB column rules   *)
(* on the child column of a foreign key, PostgreSQL foreign keys that      *)
(* leave the dumped schemas without any rule, and renamed schemas that     *)
(* hold more than tables.                                                  *)
(***************************************************************************)
EXTENDS FilteredCopy

Obj(kind, id) ==
    [kind |-> kind, id |-> id, on |-> NoName, cols |-> {}, ref |-> NoName,
     refCols |-> {}, needs |-> {}, rows |-> {}, points |-> <<>>,
     system |-> FALSE, unique |-> FALSE, collation |-> NoText, text |-> {},
     shown |-> TRUE, definer |-> ""]

Table(id, cols, rows)        == [Obj("table", id) EXCEPT !.cols = cols, !.rows = rows]
Key(kind, id, on, cols)      == [Obj(kind, id) EXCEPT !.on = on, !.cols = cols]
On(kind, id, on)             == [Obj(kind, id) EXCEPT !.on = on]
Using(kind, id, needs)       == [Obj(kind, id) EXCEPT !.needs = needs]
Routine(kind, id, args)      == Obj(kind, [id EXCEPT !.signed = TRUE, !.args = args])
Fk(id, on, cols, ref, refCols, points) ==
    [Obj("foreign_key", id) EXCEPT !.on = on, !.cols = cols, !.ref = ref,
                                   !.refCols = refCols, !.points = points]
Need(kind, id, cols) == [kind |-> kind, id |-> id, cols |-> cols]

Only(rows, row, rest) == [r \in rows |-> IF r = row THEN "true" ELSE rest]

\* What an SSH tunnel's native dump cannot do, and what it can.
NeedDirect(rules) == {r \in rules : r.type = "table_column" => r.columns # {}}
WholeTables(rules) == rules \ NeedDirect(rules)

AtMostTwo(rules) == {{}} \cup {{a, b} : a, b \in rules}

(***************************************************************************)
(* Two servers: one with the collations everybody has, and those a table   *)
(* may name that an older or smaller one lacks.                            *)
(***************************************************************************)
Mb4(name) == [charset |-> "utf8mb4", name |-> name]
Wide(name) == [charset |-> "", name |-> name]
Latin     == [charset |-> "latin1", name |-> "swedish_ci"]

Home ==
    [encoding |-> "UTF8", default |-> Mb4("general_ci"), usual |-> Mb4("general_ci"),
     charsets |-> {"utf8mb4", "latin1"},
     collations |-> {Mb4("general_ci"), Mb4("0900_ai_ci"), Wide("C"), Wide("de_DE"), Latin}]

Older  == [Home EXCEPT !.collations = {Mb4("general_ci"), Wide("C"), Latin},
                       !.usual = Mb4("unicode_ci"), !.collations = @ \cup {Mb4("unicode_ci")}]
Slim   == [Home EXCEPT !.charsets = {"utf8mb4"}, !.collations = {Mb4("general_ci"), Wide("C")}]
Newest == [Home EXCEPT !.collations = {Mb4("general_ci"), Wide("0900_ai_ci"), Wide("C")}]
Ascii  == [Home EXCEPT !.encoding = "LATIN1"]

Texts(objs) ==
    [i \in 1..Len(objs) |->
        IF objs[i].kind \in {"table", "view", "function", "procedure", "trigger", "event"}
        THEN [objs[i] EXCEPT !.collation = Mb4("general_ci")] ELSE objs[i]]

Migration(engine, direct, objs, schemas, rename, rules) ==
    [engine |-> engine, direct |-> direct, objs |-> objs, schemas |-> schemas,
     rename |-> rename, rules |-> rules, srcIN |-> FALSE, dstIN |-> FALSE,
     dstDirect |-> TRUE, src |-> Home, dst |-> Home, srcName |-> "shop", dstName |-> "shop"]

\* The same migration between other ends, and onto another server.
Over(c, direct, dstDirect) == [c EXCEPT !.direct = direct, !.dstDirect = dstDirect]
Onto(c, server)            == [c EXCEPT !.dst = server]

(***************************************************************************)
(* MySQL and MariaDB.                                                      *)
(***************************************************************************)
orders == Bare("orders")
customers == Bare("customers")
audit == Bare("audit")

MyObjs ==
    << Table(audit, {"id", "note"}, {"a1"}),
       Table(customers, {"id", "name"}, {"c1", "c2"}),
       Table(orders, {"id", "cust_id", "note"}, {"o1", "zero"}),
       Key("primary", Bare("PRIMARY"), customers, {"id"}),
       Key("unique", Bare("uq_name"), customers, {"name"}),
       Key("index", Bare("ix_note"), orders, {"note"}),
       Key("index", Bare("ix_note"), audit, {"note"}),
       Fk(Bare("fk_cust"), orders, {"cust_id"}, customers, {"id"},
          [o1 |-> "c1", zero |-> "c2"]),
       Using("view", Bare("v_orders"), {Need("table", orders, {"id", "note"})}),
       Using("view", Bare("v_recent"), {Need("view", Bare("v_orders"), {})}),
       Obj("function", Bare("f_total")),
       Obj("procedure", Bare("p_close")),
       On("trigger", Bare("trg_orders"), orders),
       Obj("event", Bare("ev_purge")) >>

MyRules ==
    { TableColumn(audit, {}),
      TableColumn(customers, {}),
      TableColumn(orders, {}),
      TableColumn(Bare("v_orders"), {}),
      TableColumn(orders, {"note"}),
      TableColumn(customers, {"id"}),
      RowExclude(orders, Only({"o1", "zero"}, "o1", "null"), "sql"),
      RowExclude(customers, Only({"c1", "c2"}, "c1", "false"), "sql"),
      RowExclude(audit, Only({"a1"}, "a1", "false"), "doc"),
      ObjectExclude("view", NoName, Bare("v_recent")),
      ObjectExclude("foreign_key", NoName, Bare("fk_cust")),
      ObjectExclude("index", orders, Bare("ix_note")),
      ObjectExclude("index", NoName, Bare("ix_note")),
      ObjectExclude("index", customers, Bare("uq_name")),
      ObjectExclude("trigger", NoName, Bare("trg_orders")),
      ObjectExclude("function", NoName, Bare("f_total")),
      ObjectExclude("event", NoName, Bare("ev_purge")),
      ObjectExclude("sequence", NoName, Bare("f_total")) }

\* Objects of an application's account, a collation not shown, names an older
\* server does not know.
MyTexts ==
    LET objs == Texts(MyObjs) IN
    [i \in 1..Len(objs) |->
        CASE objs[i].id = audit /\ objs[i].kind = "table" ->
                [objs[i] EXCEPT !.collation = Mb4("0900_ai_ci"),
                                !.text = {[col |-> "note", collation |-> Latin]}]
          [] objs[i].id = orders /\ objs[i].kind = "table" ->
                [objs[i] EXCEPT !.text = {[col |-> "note", collation |-> Mb4("0900_ai_ci")]}]
          [] objs[i].id = customers /\ objs[i].kind = "table" ->
                [objs[i] EXCEPT !.shown = FALSE]
          [] objs[i].kind \in {"view", "function", "trigger", "event"} ->
                [objs[i] EXCEPT !.definer = "app"]
          [] OTHER -> objs[i] ]

Plainly(objs) == [i \in 1..Len(objs) |-> [objs[i] EXCEPT !.definer = "", !.shown = TRUE]]

TextRuleSets == AtMostTwo({TableColumn(audit, {}), TableColumn(audit, {"note"}),
                           TableColumn(orders, {"note"}), TableColumn(orders, {})})

\* Over SSH: the tables a foreign key does not point at.
MySSHRules == WholeTables(MyRules) \ {TableColumn(customers, {})}

MyCopies ==
    {Migration(e, TRUE, Texts(MyObjs), {""}, <<>>, rules) :
        e \in {"mysql", "mariadb"}, rules \in AtMostTwo(MyRules)}
    \cup {Migration("mysql", FALSE, Texts(MyObjs), {""}, <<>>, {r}) : r \in NeedDirect(MyRules)}
    \cup {Onto(Migration(e, TRUE, MyTexts, {""}, <<>>, rules), server) :
            e \in {"mysql", "mariadb"}, server \in {Home, Older, Slim}, rules \in TextRuleSets}
    \cup {Onto(Migration("mariadb", TRUE, MyTexts, {""}, <<>>, rules), Newest) :
            rules \in TextRuleSets}

\* Views and tables that call what a direct dump writes after them.  The lists
\* are in the order of the names.
Calling(objs, callers) == callers \o objs

MyCallers ==
    << Using("view", Bare("a_sums"), {Need("function", Bare("f_total"), {})}),
       Using("view", Bare("a_today"), {Need("view", Bare("v_recent"), {})}) >>

MyCallRules ==
    {ObjectExclude("view", NoName, id) : id \in {Bare("a_sums"), Bare("a_today"), Bare("v_recent")}}
    \cup {ObjectExclude("function", NoName, Bare("f_total"))}

MyCallCopies ==
    {Migration(e, TRUE, Texts(Calling(MyObjs, MyCallers)), {""}, <<>>, rules) :
        e \in {"mysql", "mariadb"}, rules \in AtMostTwo(MyCallRules)}

MySSHCopies ==
    {Over(Migration(e, TRUE, Plainly(MyTexts), {""}, <<>>, rules), direct, dstDirect) :
        e \in {"mysql", "mariadb"}, rules \in AtMostTwo(MySSHRules),
        direct \in BOOLEAN, dstDirect \in {FALSE}}
    \cup {Over(Onto(Migration(e, TRUE, Plainly(MyTexts), {""}, <<>>, rules), Slim), FALSE, FALSE) :
            e \in {"mysql", "mariadb"}, rules \in AtMostTwo(MySSHRules)}
    \cup {Over(Migration(e, TRUE, MyTexts, {""}, <<>>, {r}), FALSE, TRUE) :
            e \in {"mysql", "mariadb"}, r \in MySSHRules}

(***************************************************************************)
(* PostgreSQL: two schemas, "s" and "t", dumped together or "s" alone.     *)
(***************************************************************************)
S(name) == Qualified("s", name)
T(name) == Qualified("t", name)
Default == <<[mode |-> "IN", typ |-> "int"]>>
Output  == <<[mode |-> "OUT", typ |-> "int"]>>

PgObjs ==
    << Obj("extension", Bare("citext")),
       Obj("type", S("mood")),
       Obj("sequence", S("seq")),
       [Table(S("orders"), {"id", "cust_id", "note"}, {"o1", "o2"})
            EXCEPT !.needs = {Need("sequence", S("seq"), {}), Need("type", S("mood"), {})}],
       [Table(T("customers"), {"id", "name"}, {"c1", "c2"})
            EXCEPT !.needs = {Need("extension", Bare("citext"), {})}],
       Key("primary", T("customers_pkey"), T("customers"), {"id"}),
       Key("unique", T("uq_name"), T("customers"), {"name"}),
       Key("index", S("ix_note"), S("orders"), {"note"}),
       Fk(S("fk_cust"), S("orders"), {"cust_id"}, T("customers"), {"id"},
          [o1 |-> "c1", o2 |-> "c2"]),
       Using("view", S("v_orders"), {Need("table", S("orders"), {"id", "note"})}),
       Using("materialized_view", T("m_names"), {Need("table", T("customers"), {"name"})}),
       Routine("function", S("f_total"), Default),
       Routine("function", S("f_total"), <<>>),
       Routine("procedure", T("p_close"), Output),
       [On("trigger", S("trg"), S("orders"))
            EXCEPT !.needs = {Need("function",
                                   [S("f_total") EXCEPT !.signed = TRUE], {})}],
       On("rule", S("r_view"), S("v_orders")) >>

Signed(id, args) == [id EXCEPT !.signed = TRUE, !.args = args]
Plain == <<[mode |-> "", typ |-> "int"]>>

PgRules ==
    { TableColumn(Bare("customers"), {}),
      TableColumn(S("orders"), {}),
      TableColumn(S("customers"), {}),
      TableColumn(Bare("v_orders"), {}),
      TableColumn(S("orders"), {"note"}),
      TableColumn(Bare("orders"), {"cust_id"}),
      TableColumn(T("customers"), {"id"}),
      RowExclude(Bare("orders"), Only({"o1", "o2"}, "o1", "null"), "sql"),
      RowExclude(T("customers"), Only({"c1", "c2"}, "c1", "false"), "sql"),
      ObjectExclude("view", NoName, S("v_orders")),
      ObjectExclude("materialized_view", NoName, Bare("m_names")),
      ObjectExclude("foreign_key", NoName, Bare("fk_cust")),
      ObjectExclude("index", S("orders"), Bare("ix_note")),
      ObjectExclude("trigger", NoName, S("trg")),
      ObjectExclude("rule", NoName, Bare("r_view")),
      ObjectExclude("function", NoName, Bare("f_total")),
      ObjectExclude("function", NoName, Signed(S("f_total"), Plain)),
      ObjectExclude("procedure", NoName, Signed(Bare("p_close"), Output)),
      ObjectExclude("sequence", NoName, S("seq")),
      ObjectExclude("type", NoName, Bare("mood")),
      ObjectExclude("extension", NoName, Bare("citext")) }

PgCallers ==
    << Using("view", S("a_names"), {Need("materialized_view", T("m_names"), {})}),
       Using("view", S("a_sums"), {Need("function", Signed(S("f_total"), <<>>), {})}),
       Using("view", S("a_today"), {Need("view", S("v_orders"), {})}),
       [Table(S("a_totals"), {"id", "sum"}, {"t1"})
            EXCEPT !.needs = {Need("function", Signed(S("f_total"), <<>>), {})}] >>

PgCallRules ==
    {TableColumn(o.id, {}) : o \in ToSet(PgCallers)}
    \cup {ObjectExclude("function", NoName, Bare("f_total")), TableColumn(S("v_orders"), {})}

PgCallCopies ==
    {Migration("postgresql", TRUE, Calling(PgObjs, PgCallers), {"s", "t"}, <<>>, rules) :
        rules \in {{a, b} \cup {c, d} : a, b, c, d \in PgCallRules}}

InSchema(objs, s) == SelectSeq(objs, LAMBDA o : o.id.schema \in {s, ""})

\* Two schemas of tables, their keys and their rows, for the renames.
PgTables ==
    << Table(S("orders"), {"id", "cust_id"}, {"o1", "o2"}),
       Table(T("customers"), {"id", "name"}, {"c1", "c2"}),
       Key("primary", T("customers_pkey"), T("customers"), {"id"}),
       Key("index", S("ix_cust"), S("orders"), {"cust_id"}) >>

\* A database whose one schema is public.
InPublic(objs) ==
    LET Move(id) == IF id.schema # "s" THEN id ELSE [id EXCEPT !.schema = "public"] IN
    [i \in 1..Len(objs) |->
        [objs[i] EXCEPT !.id = Move(@), !.on = Move(@), !.ref = Move(@),
                        !.needs = {[n EXCEPT !.id = Move(@)] : n \in @}]]

PublicRules ==
    LET Move(id) == IF id.schema # "s" THEN id ELSE [id EXCEPT !.schema = "public"] IN
    {IF r.type = "object_exclude" THEN [r EXCEPT !.table = Move(@), !.name = Move(@)]
     ELSE [r EXCEPT !.table = Move(@)] : r \in PgRules}

PgCopies ==
    {[Migration("postgresql", TRUE, PgObjs, {"s", "t"}, <<>>, rules) EXCEPT !.dstIN = dstIN] :
        rules \in AtMostTwo(PgRules), dstIN \in {TRUE, FALSE}}
    \cup {Migration("postgresql", TRUE, InPublic(InSchema(PgObjs, "s")), {"public"}, <<>>, {r}) :
            r \in PublicRules}
    \cup {Migration("postgresql", TRUE, PgTables, {"s", "t"}, rename, rules) :
            rename \in {[s |-> "u"], [s |-> "u", t |-> "v"]},
            rules \in {{}} \cup {{r} : r \in {q \in PgRules : q.type # "object_exclude"}}}
    \cup {Migration("postgresql", TRUE, InSchema(PgTables, "s"), {"s"}, [s |-> "u"], {})}

\* pg_dump writes a column's collation, leaves extensions out, and takes a bare
\* table rule to speak of public.
PgTexts ==
    LET objs == SelectSeq(PgObjs, LAMBDA o : o.kind # "extension") IN
    [i \in 1..Len(objs) |->
        CASE objs[i].id = T("customers") ->
                [objs[i] EXCEPT !.needs = {}, !.text = {[col |-> "name", collation |-> Wide("de_DE")]}]
          [] objs[i].id = S("orders") ->
                [objs[i] EXCEPT !.rows = {"o1", "wide"}]
          [] objs[i].kind = "foreign_key" ->
                [objs[i] EXCEPT !.points = [o1 |-> "c1", wide |-> "c2"]]
          [] OTHER -> objs[i] ]

PgSSHRules == {TableColumn(S("orders"), {}), TableColumn(S("v_orders"), {}),
               TableColumn(T("m_names"), {}), TableColumn(T("audit"), {})}

PgSSHCopies ==
    {Over(Onto(Migration("postgresql", TRUE, PgTexts, {"s", "t"}, <<>>, rules), server),
          FALSE, dstDirect) :
        rules \in AtMostTwo(PgSSHRules), server \in {Home, Slim, Ascii}, dstDirect \in BOOLEAN}
    \cup {Over(Migration("postgresql", TRUE, PgObjs, {"s", "t"}, <<>>, rules), TRUE, FALSE) :
            rules \in AtMostTwo(PgSSHRules)}
    \cup {Over(Migration("postgresql", TRUE, PgTables, {"s", "t"}, rename, {}), FALSE, dstDirect) :
            rename \in {[s |-> "u"], [s |-> "u", t |-> "v"]}, dstDirect \in BOOLEAN}
    \cup {Over(Migration("postgresql", TRUE, PgTables, {"s", "t"}, [s |-> "u"], {}), TRUE, FALSE)}

(***************************************************************************)
(* MongoDB.                                                                *)
(***************************************************************************)
MongoObjs ==
    << Table(orders, {"_id", "note", "sku"}, {"o1", "o2"}),
       Table(Bare("users"), {"_id", "note"}, {"u1"}),
       [Table(Bare("system.profile"), {"_id"}, {"p1"}) EXCEPT !.system = TRUE],
       Key("validator", orders, orders, {"note"}),
       Key("index", Bare("ix_note"), orders, {"note"}),
       Key("index", Bare("ix_note"), Bare("users"), {"note"}),
       [Key("index", Bare("ix_sku"), orders, {"sku"}) EXCEPT !.unique = TRUE],
       Obj("view", Bare("v_orders")) >>

MongoRules ==
    { TableColumn(orders, {}),
      TableColumn(Bare("v_orders"), {}),
      TableColumn(orders, {"note"}),
      TableColumn(orders, {"sku"}),
      TableColumn(Bare("users"), {"note"}),
      RowExclude(orders, Only({"o1", "o2"}, "o1", "null"), "doc"),
      RowExclude(Bare("users"), Only({"u1"}, "u1", "false"), "sql"),
      ObjectExclude("view", NoName, Bare("v_orders")),
      ObjectExclude("validator", NoName, orders),
      ObjectExclude("index", orders, Bare("ix_note")),
      ObjectExclude("index", NoName, Bare("ix_note")),
      ObjectExclude("index", orders, Bare("ix_sku")),
      ObjectExclude("function", NoName, orders) }

MongoCopies ==
    {Migration("mongodb", TRUE, MongoObjs, {""}, <<>>, rules) : rules \in AtMostTwo(MongoRules)}

MongoSSHCopies ==
    {[Over(Migration("mongodb", TRUE, MongoObjs, {""}, <<>>, rules), FALSE, dstDirect)
        EXCEPT !.dstName = name] :
        rules \in AtMostTwo(WholeTables(MongoRules)), dstDirect \in BOOLEAN,
        name \in {"shop", "store"}}

AllCopies ==
    MyCallCopies \cup PgCallCopies \cup
    MyCopies \cup MySSHCopies \cup PgCopies \cup PgSSHCopies \cup MongoCopies \cup MongoSSHCopies

\* One schema, not public, that keeps its name.
OneSchemaCopies == {Migration("postgresql", TRUE, InSchema(PgTables, "s"), {"s"}, <<>>, {})}
=============================================================================
