---------------------------- MODULE MCFileCopies ----------------------------
(***************************************************************************)
(* Sources, destinations and requests for FileCopies: one host of files,   *)
(* one bucket, two database servers, and requests for every route with     *)
(* every list of rules out of a small stock that reaches each kind of      *)
(* pattern, the folders a rule takes along, whitelists and size bounds at  *)
(* the size of a file.                                                     *)
(*                                                                         *)
(* Left out are two cases the README's section on disagreements lists: a   *)
(* source folder with a dot in its name, and a prefix that begins another  *)
(* name.  Two more of them are here, several size bounds of one direction  *)
(* and a marker of the copied folder itself: SentAsPlanned names them.     *)
(***************************************************************************)
EXTENDS FileCopies

MCWild == [x \in {"*.log", "*.go", "?"} |->
              CASE x = "*.log" -> {"x.log", "keep.log"}
                [] x = "*.go" -> {"main.go"}
                [] x = "?" -> {"a", "b", "c"}]
MCLonger == [x \in {<<"docs", "docsx">>} |-> "x"]
MCDotted == {"x.log", "keep.log", "main.go", "v1.0"}

F(size, sum) == [size |-> size, time |-> "then", sum |-> sum, parts |-> FALSE]

WebTree ==
    << "srv", "main.go" >> :> F(2, "m") @@
    << "srv", "logs", "x.log" >> :> F(3, "x") @@
    << "srv", "logs", "keep.log" >> :> F(2, "k") @@
    << "srv", "logs", "old", "a" >> :> F(1, "a")

\* docs//a and docs/a are one file; data and data/c cannot both be.
RawTree ==
    << "docs", "a" >> :> F(2, "a") @@ << "docs", "" >> :> F(0, "") @@
    << "docs", "sub", "" >> :> F(0, "") @@
    << "docs", "sub", "b" >> :> F(3, "b") @@
    << "docs", "sub", "x.log" >> :> F(1, "l") @@
    << "top" >> :> F(2, "t")
OddTree ==
    << "twice", "a" >> :> F(2, "a") @@ << "twice", "", "a" >> :> F(3, "b") @@
    << "file", "data" >> :> F(1, "d") @@ << "file", "data", "c" >> :> F(1, "c") @@
    << "out", "..", "..", "b" >> :> F(2, "b") @@ << "out", "a" >> :> F(2, "a")

Inv == [view |-> {Qualified("app", "v")}, index |-> {[table |-> Qualified("app", "t"), name |-> Bare("i")]},
        function |-> {Spelled("app", "f", TRUE, <<>>)}]

MCSource == [x \in {"web", "raw", "odd", "pg", "my57", "elsewhere"} |->
    CASE x = "web" -> [kind |-> "ssh", path |-> <<"", "srv">>,
                       folders |-> {<<"", "srv", "logs">>}, tree |-> WebTree]
      [] x = "raw" -> [kind |-> "objectStorage", path |-> <<"raw", "">>,
                       folders |-> {<<"raw", "docs", "">>}, tree |-> RawTree]
      [] x = "odd" -> [kind |-> "objectStorage", path |-> <<"odd", "">>,
                       folders |-> {<<"odd", n, "">> : n \in {"twice", "file", "out"}},
                       tree |-> OddTree]
      [] x = "pg" -> [kind |-> "dbms", engine |-> "postgresql", version |-> <<15, 4>>,
                      names |-> <<"sales", "stock">>, inv |-> Inv]
      [] x = "my57" -> [kind |-> "dbms", engine |-> "mysql", version |-> <<5, 7>>,
                        names |-> <<"sales", "stock">>, inv |-> [view |-> {}]]
      [] x = "elsewhere" -> [kind |-> "ssh", path |-> <<"", "data">>, folders |-> {},
                             tree |-> << "data", "a" >> :> F(2, "e")]]

Db(engine, version, names, provider) ==
    [engine |-> engine, version |-> version, names |-> names, provider |-> provider]

MCTarget == [x \in {"host", "store", "managed", "pg16", "pg14", "my", "rds"} |->
    CASE x = "host" -> [kind |-> "ssh"]
      [] x = "store" -> [bucket |-> "", buckets |-> {"new"}, limit |-> 2, multipart |-> TRUE]
      [] x = "managed" -> [bucket |-> "os-1", buckets |-> {}, limit |-> 2, multipart |-> FALSE]
      [] x = "pg16" -> Db("postgresql", <<16>>, {"sales"}, "aws")
      [] x = "pg14" -> Db("postgresql", <<14, 9>>, {}, "onprem")
      [] x = "my" -> Db("mysql", <<8, 0>>, {}, "onprem")
      [] x = "rds" -> Db("mysql", <<8, 0>>, {"sales"}, "aws")]

Ref(source, id) == [source |-> source, id |-> id, whole |-> TRUE]
From(id) == Ref("honeybee", id)

NoEntry == [src |-> From("web"), dst |-> Ref("ssh", "host"), filterOf |-> "none",
            strategyOf |-> "none", strategy |-> "", srcName |-> <<>>, dstName |-> <<>>,
            pgSchemas |-> <<>>, rules |-> <<>>, dbs |-> <<>>]

Entry(src, dst, srcName, dstName, rules, strategy) ==
    [NoEntry EXCEPT !.src = From(src), !.dst = dst,
        !.filterOf = MCSource[src].kind, !.srcName = srcName, !.dstName = dstName,
        !.rules = rules,
        !.strategyOf = IF strategy = "" THEN "none" ELSE MCSource[src].kind,
        !.strategy = strategy]

(***************************************************************************)
(* Rules.                                                                  *)
(***************************************************************************)
Ex(segs) == Glob("exclude", FALSE, segs, FALSE)
In(segs) == Glob("include", FALSE, segs, FALSE)

RuleLists ==
    { <<>>,
      <<Ex(<<"*.log">>)>>,
      <<In(<<"keep.log">>), Ex(<<"*.log">>)>>,
      <<In(<<"*.log">>), Ex(<<"*">>)>>,
      <<Glob("exclude", FALSE, <<"logs">>, TRUE)>>,
      <<Glob("exclude", TRUE, <<"logs", "**">>, FALSE)>>,
      <<In(<<"logs", "keep.log">>), Glob("exclude", FALSE, <<"logs">>, TRUE)>>,
      <<Glob("exclude", TRUE, <<"**", "?">>, FALSE), In(<<"main.go">>), Ex(<<"**">>)>>,
      <<Size("exclude", ">=", 3)>>,
      <<Size("exclude", ">", 2), Ex(<<"old">>)>>,
      <<Size("exclude", "<=", 1)>>,
      <<Size("exclude", ">", 1), Size("exclude", ">", 2)>>,
      <<Size("exclude", "<", 2), Size("exclude", ">=", 3), Size("exclude", "<", 3)>>,
      <<Size("exclude", "<", 2), In(<<"sub", "b">>), Ex(<<"sub", "**">>)>> }

\* Lists the plan refuses for a source of files.
RefusedLists ==
    { <<In(<<"keep.log">>), Size("exclude", ">=", 2)>>,
      <<Ex(<<"*">>), In(<<"*.go">>)>> }

Hosts == DOMAIN MCTarget \cup {"elsewhere"}
None == [h \in Hosts |-> Empty]
Old(root) == (root \o <<"main.go">>) :> F(2, "old") @@ (root \o <<"logs", "x.log">>) :> F(1, "old")

AllWell == [honeybee |-> TRUE, beetle |-> TRUE, bucket |-> TRUE, version |-> TRUE,
            listing |-> TRUE]
Quiet == {AllWell, [AllWell EXCEPT !.bucket = FALSE], [AllWell EXCEPT !.version = FALSE],
          [AllWell EXCEPT !.listing = FALSE], [AllWell EXCEPT !.honeybee = FALSE],
          [AllWell EXCEPT !.beetle = FALSE]}

Model == {[id |-> x, kind |-> MCSource[x].kind] : x \in DOMAIN MCSource}

Request(plans, leftovers, ans) ==
    [model |-> Model, plans |-> plans, leftovers |-> leftovers, answers |-> ans]

host == Ref("ssh", "host")
minio == Ref("minio", "store")
managed == Ref("beetleObjectStorage", "managed")

FileRequests ==
    {Request(<<Entry("web", host, src, <<"", "dst">>, rules, strategy)>>, left, {AllWell}) :
        src \in {<<"", "srv">>, <<"", "srv", "logs">>},
        rules \in RuleLists \cup RefusedLists,
        strategy \in {"direct", "relay"},
        left \in {None, [None EXCEPT !["host"] = Old(<<"dst">>)]}}

ToStore ==
    {Request(<<Entry("web", dst[1], <<"", "srv">>, dst[2], rules, "")>>, None, {AllWell}) :
        dst \in {<<minio, <<"new", "in", "">>>>, <<managed, <<"os-1", "in">>>>},
        rules \in RuleLists \cup RefusedLists}

Objects ==
    {Request(<<Entry("raw", dst[1], src, dst[2], rules, strategy)>>, None, {AllWell}) :
        src \in {<<"raw", "">>, <<"raw", "docs", "">>},
        dst \in {<<minio, <<"new", "in">>>>, <<managed, <<>>>>},
        rules \in RuleLists, strategy \in {"direct", "relay"}}

Downloads ==
    {Request(<<Entry("raw", host, <<"raw", "docs", "">>, <<"", "dst">>, rules, "")>>, None, {AllWell}) :
        rules \in RuleLists}
    \cup
    {Request(<<Entry("odd", host, <<"odd", n, "">>, <<"", "dst">>, <<>>, "")>>, None, {AllWell}) :
        n \in {"twice", "file", "out"}}

Plain(src, dst, srcName, dstName) == Entry(src, dst, srcName, dstName, <<>>, "")
DbsOf(src, dst, items) == [NoEntry EXCEPT !.src = From(src), !.dst = dst, !.dbs = items]
Dbs(dst, items) == DbsOf("pg", dst, items)
Rule(kind, name) == {ObjectExclude(kind, NoName, name)}

\* Entries that get in one another's way, and requests that name what is not.
Others ==
    {Request(<<Plain("web", host, <<"", "srv">>, a), Plain("elsewhere", host, <<"", "data">>, b)>>,
             None, {AllWell}) : a, b \in {<<"", "dst">>, <<"", "other">>}}
    \cup
    {Request(<<e>>, None, Quiet) : e \in
        {Plain("web", minio, <<"", "srv">>, <<"gone", "">>),
         Plain("web", host, <<"", "nowhere">>, <<"", "dst">>),
         Plain("web", minio, <<"", "srv">>, <<>>),
         Entry("web", host, <<"", "srv">>, <<"", "dst">>, <<Size("exclude", "==", 2)>>, "relay"),
         Plain("raw", host, <<"raw", "">>, <<"relative">>),
         Plain("web", From("elsewhere"), <<"", "srv">>, <<"", "dst">>),
         Plain("web", Ref("db", "pg16"), <<"", "srv">>, <<>>),
         [Plain("raw", host, <<"raw", "">>, <<"", "dst">>) EXCEPT !.strategyOf = "ssh", !.strategy = "relay"],
         Dbs(Ref("db", "pg16"), <<>>), Dbs(Ref("db", "pg14"), <<>>),
         Dbs(Ref("beetleDb", "pg16"), <<>>), Dbs(Ref("db", "my"), <<>>),
         DbsOf("my57", Ref("beetleDb", "rds"), <<>>)}}
    \cup
    {Request(<<Dbs(Ref("db", "pg16"), <<Item("sales", "", <<>>, rules)>>)>>, None, {AllWell}) :
        rules \in {{}, Rule("view", Bare("v")), Rule("view", Bare("w")),
                   Rule("function", Qualified("app", "f")), Rule("function", Qualified("b", "f")),
                   {ObjectExclude("index", Bare("t"), Bare("i"))},
                   {ObjectExclude("index", Bare("u"), Bare("i"))}}}
    \cup
    {Request(<<DbsOf("my57", Ref("beetleDb", "rds"), <<Item("sales", "one", <<>>, {})>>),
               DbsOf("my57", Ref("beetleDb", "rds"), <<Item("stock", n, <<>>, {})>>)>>,
             None, {AllWell}) : n \in {"one", "two"}}
    \cup
    {Request(<<Dbs(Ref("db", "pg16"), <<Item("sales", "", <<>>, {})>>),
               Plain("raw", host, <<"raw", "">>, <<"", "b">>),
               Plain("web", host, <<"", "srv">>, <<"", "dst">>)>>, None, {AllWell})}
    \cup
    {[Request(<<Plain("web", host, <<"", "srv">>, <<"", "dst">>)>>, None, {AllWell})
         EXCEPT !.model = @ \cup {[id |-> "web", kind |-> "dbms"]}],
     Request(<<>>, None, {AllWell}),
     Request(<<[NoEntry EXCEPT !.src = Ref("ssh", "web")]>>, None, {AllWell})}

MCRequests == FileRequests \cup ToStore \cup Objects \cup Downloads \cup Others
=============================================================================
