------------------------------ MODULE TextRules ------------------------------
(***************************************************************************)
(* The character sets and collations of a migration: what a dump will name *)
(* and the target must know, and the check made before anything is read    *)
(* (dbmsx/charset.go, driver/base/charset.go, each driver's                *)
(* CharsetProfile).                                                        *)
(*                                                                         *)
(* A collation is a record of its character set and the rest of its name:  *)
(* utf8mb4_uca1400_ai_ci is ["utf8mb4", "uca1400_ai_ci"].  PostgreSQL's    *)
(* have no character set, and neither have the collations MariaDB lists    *)
(* once for every Unicode character set.  A server is a record [encoding,  *)
(* default, usual, charsets, collations]: default is the database's own    *)
(* collation, usual the one a character set named alone means.             *)
(***************************************************************************)
EXTENDS DumpScripts

\* The tables' own collations and the columns', views' columns among them.
mysqlUsedRows(c) ==
    LET Tables == {o \in ToSet(c.objs) : o.kind = "table"}
        Related == {o \in ToSet(c.objs) : o.kind \in {"table", "view"}} IN
    {[table |-> o.id, column |-> "", collation |-> o.collation] : o \in Tables}
    \cup UNION {{[table |-> o.id, column |-> x.col, collation |-> x.collation] :
                    x \in o.text} : o \in Related}

mysqlCollectUsed(F, rows) ==
    {r.collation : r \in {q \in rows : /\ ~IsTableExcluded(F, q.table)
                                       /\ q.column \notin ExcludedColumns(F, q.table)}} \ {NoText}

Profile(server, used, available) ==
    [encoding |-> server.encoding, collation |-> server.default, used |-> used,
     charsets |-> server.charsets, available |-> available]

mysqlCharsetProfileViaSQL(c, F, server) ==
    Profile(server, mysqlCollectUsed(F, mysqlUsedRows(c)), server.collations)

mysqlCharsetProfileViaSSH(c, F, server) == mysqlCharsetProfileViaSQL(c, F, server)

(***************************************************************************)
(* MariaDB 11.4 lists a collation of its newest kind without a character   *)
(* set, and a dump names it with one.                                      *)
(***************************************************************************)
mariadbIsUnicodeCharset(charset) == charset \in {"utf8mb3", "utf8mb4", "utf16", "utf32", "ucs2"}

\* Mutant: the names as the catalogue has them.
AsListed(listed, charsets) == listed

mariadbExpandCollations(listed, charsets) ==
    listed \cup {[charset |-> cs, name |-> l.name] :
                    l \in {x \in listed : x.charset = ""},
                    cs \in {x \in charsets : mariadbIsUnicodeCharset(x)}}

mariadbCollectUsed(F, rows) == mysqlCollectUsed(F, rows)

mariadbCharsetProfileViaSQL(c, F, server) ==
    Profile(server, mariadbCollectUsed(F, mysqlUsedRows(c)),
            mariadbExpandCollations(server.collations, server.charsets))

mariadbCharsetProfileViaSSH(c, F, server) == mariadbCharsetProfileViaSQL(c, F, server)

(***************************************************************************)
(* PostgreSQL: only columns name a collation, and the rules are asked of   *)
(* the table's bare name.                                                  *)
(***************************************************************************)
pgUsedRows(c) ==
    UNION {{[table |-> Bare(o.id.name), column |-> x.col, collation |-> x.collation] :
               x \in o.text} :
           o \in {t \in ToSet(c.objs) : t.kind = "table" /\ t.id.schema \in c.schemas}}

pgCollectUsed(F, rows) ==
    {r.collation : r \in {q \in rows : /\ ~IsTableExcluded(F, q.table)
                                       /\ q.column \notin ExcludedColumns(F, q.table)}}

pgCharsetProfileViaSQL(c, F, server) ==
    Profile(server, pgCollectUsed(F, pgUsedRows(c)), server.collations)

pgCharsetProfileViaSSH(c, F, server) == pgCharsetProfileViaSQL(c, F, server)

CharsetProfile(c, direct, F, server) ==
    CASE c.engine = "mysql" /\ direct       -> mysqlCharsetProfileViaSQL(c, F, server)
      [] c.engine = "mysql" /\ ~direct      -> mysqlCharsetProfileViaSSH(c, F, server)
      [] c.engine = "mariadb" /\ direct     -> mariadbCharsetProfileViaSQL(c, F, server)
      [] c.engine = "mariadb" /\ ~direct    -> mariadbCharsetProfileViaSSH(c, F, server)
      [] c.engine = "postgresql" /\ direct  -> pgCharsetProfileViaSQL(c, F, server)
      [] c.engine = "postgresql" /\ ~direct -> pgCharsetProfileViaSSH(c, F, server)
      [] c.engine = "mongodb"               -> Profile(server, {}, {})

(***************************************************************************)
(* The difference of two profiles.  An empty list of what a server knows   *)
(* means the engine has no such list.                                      *)
(***************************************************************************)
missingFrom(used, available) == IF available = {} THEN {} ELSE used \ available

pgEncodingIssues(src, dst) ==
    IF src.encoding = dst.encoding THEN {}
    ELSE {[severity |-> IF dst.encoding = "UTF8" THEN "warning" ELSE "blocker",
           source |-> [charset |-> src.encoding, name |-> ""]]}

DiffCharset(engine, src, dst) ==
    LET charsets == {u.charset : u \in src.used} \ {""} IN
    IF engine = "mongodb" THEN {}
    ELSE {[severity |-> "blocker", source |-> u] : u \in missingFrom(src.used, dst.available)}
         \cup {[severity |-> "blocker", source |-> [charset |-> cs, name |-> ""]] :
                  cs \in missingFrom(charsets, dst.charsets)}
         \cup (IF engine = "postgresql" THEN pgEncodingIssues(src, dst) ELSE {})
         \cup {[severity |-> "warning", source |-> s] :
                  s \in {src.collation} \ {dst.collation}}

checkCharset(c) ==
    DiffCharset(c.engine, CharsetProfile(c, c.direct, c.rules, c.src),
                CharsetProfile(c, c.dstDirect, {}, c.dst))

Blockers(c) == {i \in checkCharset(c) : i.severity = "blocker"}
=============================================================================
