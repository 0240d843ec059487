---------------------------- MODULE FilteredCopy ----------------------------
(***************************************************************************)
(* One database copied with exclusion rules and validated afterwards: the  *)
(* rules are checked against the engine and the access, the text rules of  *)
(* the two servers compared, the dump is written and replayed on an empty  *)
(* target, something may then happen to the target, and the validation     *)
(* inspects both sides - the source through the very rules it was dumped   *)
(* with - and judges.                                                      *)
(*                                                                         *)
(* The statements run here one after the other.  MySQLRestore and          *)
(* PgRestore show that the restores, which load rows over several          *)
(* connections, end as if they had.                                        *)
(***************************************************************************)
EXTENDS CommandDumps, TextRules

CONSTANT Copies  \* the migrations: records [engine, direct, dstDirect, objs,
                 \* schemas, rename, rules, srcIN, dstIN, src, dst, srcName,
                 \* dstName], see MCFilteredCopy

VARIABLES
    copy,       \* the one under way
    phase,      \* "new" "refused" "blocked" "loading" "failed" "loaded" "judged"
    waived,     \* the text rules differ and could not be compared
    script,     \* the statements of the dump
    pc,         \* the next of them
    target,     \* [objs, schemas, session]: what the target holds
    disturbed,  \* what happened to the target after the load
    unread,     \* tables whose rows the validation could not count
    findings    \* what the validation reports as failed

vars == <<copy, phase, waived, script, pc, target, disturbed, unread, findings>>

Catalogue == ToSet(copy.objs)
Nothing == [what |-> "nothing"]

(***************************************************************************)
(* The target server.  An object of a file of bare names lands in the      *)
(* schema the restore's search_path points at, public unless the           *)
(* destination names one, which it does only to rename it; the text of a   *)
(* routine names its own schema whatever the path.                         *)
(***************************************************************************)
splitPgSchemas ==
    IF \E s \in copy.schemas : out(copy, s) # s
    THEN {out(copy, s) : s \in copy.schemas} ELSE {}

FinalId(id) == [id EXCEPT !.schema = out(copy, id.schema)]

PlacedId(id) ==
    IF id.schema = "" THEN id
    ELSE [id EXCEPT !.schema = IF splitPgSchemas = {} THEN "public" ELSE out(copy, @)]

PlacedNeeds(needs) == {[n EXCEPT !.id = PlacedId(n.id)] : n \in needs}

Placed(o) ==
    IF copy.engine # "postgresql" \/ ~copy.direct \/ qualify(copy) THEN o
    ELSE [o EXCEPT !.id = IF o.kind \in {"function", "procedure"} THEN @ ELSE PlacedId(@),
                   !.on = PlacedId(@), !.ref = PlacedId(@), !.needs = PlacedNeeds(@)]

Has(need) ==
    \E o \in target.objs : /\ o.kind = need.kind
                           /\ o.id = need.id
                           /\ need.cols \subseteq o.cols

OnTable(o) ==
    o.on # NoName => \E t \in target.objs : /\ t.kind \in {"table", "view"}
                                            /\ t.id = o.on
                                            /\ o.cols \subseteq t.cols

\* The row of the parent each row of the child points at is there.
RowsMeet(fk, child, parent) ==
    \A row \in child.rows : row \in DOMAIN fk.points => fk.points[row] \in parent.rows

\* PostgreSQL wants the parent's key and checks the rows.  MySQL does neither
\* while FOREIGN_KEY_CHECKS is off.
ForeignKeyTaken(fk) ==
    copy.engine = "postgresql" =>
        \E p, t \in target.objs :
            /\ p.kind = "table" /\ p.id = fk.ref
            /\ t.kind = "table" /\ t.id = fk.on
            /\ RowsMeet(fk, t, p)
            /\ \E k \in target.objs : /\ k.kind \in {"primary", "unique", "index"}
                                      /\ k.on = fk.ref
                                      /\ k.cols = fk.refCols

\* A MongoDB collection takes documents without a field its unique index
\* covers once only, and none without a field its validator requires.
DocumentsTaken(t) ==
    \A v \in target.objs : v.kind = "validator" /\ v.on = t.id => v.cols \subseteq t.cols

UniqueTaken(ix) ==
    ix.kind = "index" /\ ix.unique /\ copy.engine = "mongodb" =>
        \E t \in target.objs : /\ t.kind = "table" /\ t.id = ix.on
                               /\ \/ ix.cols \subseteq t.cols
                                  \/ Cardinality(t.rows) <= 1

\* The collation o compares text by, as the target has it.
HasText(o) ==
    /\ copy.engine \in {"mysql", "mariadb"}
    /\ o.kind \in {"table", "view", "function", "procedure", "trigger", "event"}

InText(o) ==
    IF HasText(o) /\ o.collation.name = "" THEN [o EXCEPT !.collation = copy.dst.usual] ELSE o

Recognises(collation) ==
    \/ collation \in {NoText} \cup copy.dst.collations
    \/ /\ [collation EXCEPT !.charset = ""] \in copy.dst.collations
       /\ collation.charset \in copy.dst.charsets \cap {"utf8mb4", "utf8mb3"}

TextTaken(o) == \A named \in {o.collation} \cup {x.collation : x \in o.text} : Recognises(named)

\* PostgreSQL stores no character its database's encoding does not have.
EncodingTaken(rows) ==
    copy.engine = "postgresql" /\ "wide" \in rows => copy.dst.encoding = "UTF8"

Taken(st) ==
    LET o == InText(Placed(st.obj)) IN
    CASE st.op = "create" ->
            /\ copy.engine = "postgresql" /\ o.kind # "extension" => o.id.schema \in target.schemas
            /\ TextTaken(o)
            /\ o.definer = ""
            /\ \A n \in o.needs : Has(n)
            /\ copy.engine # "mongodb" => OnTable(o)
            /\ o.kind = "foreign_key" => ForeignKeyTaken(o)
            /\ UniqueTaken(o)
      [] st.op = "rows"    -> Has([kind |-> "table", id |-> o.id,
                                   cols |-> IF copy.engine = "mongodb" THEN {} ELSE o.cols])
                              /\ DocumentsTaken(o)
                              /\ EncodingTaken(o.rows)
      [] st.op = "newschema" -> st.obj.name \notin target.schemas
      [] st.op = "refresh" -> Has([kind |-> o.kind, id |-> o.id, cols |-> {}])
      [] OTHER             -> TRUE

\* A 0 in an AUTO_INCREMENT column means the next number unless the session
\* says otherwise.
Stored(rows) ==
    IF copy.engine \in {"mysql", "mariadb"} /\ "zero" \notin target.session
    THEN {IF r = "zero" THEN "next" ELSE r : r \in rows}
    ELSE rows

Renamed(o, from, to) ==
    LET In(id) == IF id.schema = from THEN [id EXCEPT !.schema = to] ELSE id IN
    [o EXCEPT !.id = In(@), !.on = In(@), !.ref = In(@),
              !.needs = {[n EXCEPT !.id = In(@)] : n \in @}]

Effect(st) ==
    LET o == InText(Placed(st.obj)) IN
    CASE st.op = "create"  -> [target EXCEPT !.objs = @ \cup {o} \cup {Placed(p) : p \in st.parts}]
      [] st.op = "rows"    -> [target EXCEPT !.objs =
                                 {IF t.kind = "table" /\ t.id = o.id
                                  THEN [t EXCEPT !.rows = Stored(o.rows), !.cols = o.cols]
                                  ELSE t : t \in @}]
      [] st.op \in {"schema", "newschema"} ->
                              [target EXCEPT !.schemas = @ \cup {st.obj.name}]
      [] st.op = "rename"  -> [target EXCEPT
                                 !.schemas = (@ \ {st.obj.name}) \cup {st.obj.to},
                                 !.objs = {Renamed(t, st.obj.name, st.obj.to) : t \in @}]
      [] st.op = "nozero"  -> [target EXCEPT !.session = @ \ {"zero"}]
      [] st.op = "refresh" -> target
      [] OTHER             -> [target EXCEPT !.session = @ \cup {st.op}]

(***************************************************************************)
(* The order a restore runs the file in: the restore over a PostgreSQL     *)
(* connection puts foreign keys and triggers off until the rest has run;   *)
(* the clients on an SSH host, and MySQL's, run it as it stands.           *)
(***************************************************************************)
PutOff(st) == st.op = "create" /\ st.obj.kind \in {"foreign_key", "trigger"}

mysqlRestoreViaSSH(file)   == file
mariadbRestoreViaSSH(file) == file
pgRestoreViaSSH(file)      == file
pgRestoreViaSQL(file) ==
    SelectSeq(file, LAMBDA st : ~PutOff(st)) \o SelectSeq(file, PutOff)

Replayed(c) ==
    CASE c.engine = "mysql" /\ ~c.dstDirect      -> mysqlRestoreViaSSH(Plan(c))
      [] c.engine = "mariadb" /\ ~c.dstDirect    -> mariadbRestoreViaSSH(Plan(c))
      [] c.engine = "postgresql" /\ ~c.dstDirect -> pgRestoreViaSSH(Plan(c))
      [] c.engine = "postgresql" /\ c.dstDirect  -> pgRestoreViaSQL(Plan(c))
      [] OTHER                                   -> Plan(c)

(***************************************************************************)
(* Inspection.  With rules, each list is narrowed by predicates written to *)
(* mirror the dump's; without any the filter is nil and nothing narrows.   *)
(***************************************************************************)
validationMetric(engine) ==
    CASE engine \in {"mysql", "mariadb"} ->
            {"foreign_key", "view", "function", "procedure", "trigger", "event"}
      [] engine = "postgresql" ->
            {"foreign_key", "view", "materialized_view", "function", "procedure",
             "trigger", "sequence", "type", "extension", "rule"}
      [] engine = "mongodb" -> {"view", "validator"}

\* Mutant: the columns it points at are forgotten.
KeepByTable(F, o) ==
    /\ ~IsObjectExcluded(F, "foreign_key", o.id)
    /\ ~IsTableExcluded(F, o.on)
    /\ ~IsTableExcluded(F, o.ref)

mysqlKeepForeignKey(F, o) ==
    /\ ~IsObjectExcluded(F, "foreign_key", o.id)
    /\ ~IsTableExcluded(F, o.on)
    /\ ~IsTableExcluded(F, o.ref)
    /\ o.refCols \cap ExcludedColumns(F, o.ref) = {}

mysqlKeepTrigger(F, o) ==
    /\ ~IsTableExcluded(F, o.on)
    /\ ~IsObjectExcluded(F, "trigger", o.id)

mysqlKept(F, o) ==
    CASE o.kind = "foreign_key" -> mysqlKeepForeignKey(F, o)
      [] o.kind = "trigger"     -> mysqlKeepTrigger(F, o)
      [] o.kind = "view"        -> o.id \in FilterObjects(F, "view", FilterTables(F, {o.id}))
      [] OTHER                  -> o.id \in FilterObjects(F, o.kind, {o.id})

mariadbKeepForeignKey(F, o) == mysqlKeepForeignKey(F, o)
mariadbKeepTrigger(F, o)    == mysqlKeepTrigger(F, o)

mariadbKept(F, o) ==
    CASE o.kind = "foreign_key" -> mariadbKeepForeignKey(F, o)
      [] o.kind = "trigger"     -> mariadbKeepTrigger(F, o)
      [] OTHER                  -> mysqlKept(F, o)

pgKeepForeignKey(F, inScope, o) ==
    /\ ~pgObjectExcluded(F, "foreign_key", o.on.schema, o.id.name)
    /\ ~pgTableExcluded(F, o.on)
    /\ ~pgAnyColExcluded(F, o.on, o.cols)
    /\ o.ref.schema \in inScope
    /\ ~pgTableExcluded(F, o.ref)
    /\ ~pgAnyColExcluded(F, o.ref, o.refCols)

pgKeepTableObject(F, o) ==
    /\ ~pgTableExcluded(F, o.id)
    /\ ~pgObjectExcluded(F, o.kind, o.id.schema, o.id.name)

pgKeepTrigger(F, o) ==
    /\ ~pgTableExcluded(F, o.on)
    /\ ~pgObjectExcludedInTable(F, "trigger", o.on, o.id.name)
    /\ ~pgObjectExcluded(F, "trigger", o.on.schema, o.id.name)

pgKeepRule(F, o) ==
    /\ ~pgTableExcluded(F, o.on)
    /\ ~pgObjectExcluded(F, "rule", o.id.schema, o.id.name)

pgKeepRoutine(F, o)     == ~pgRoutineExcluded(F, o.kind, o.id)
pgKeepNamedObject(F, o) == ~pgObjectExcluded(F, o.kind, o.id.schema, o.id.name)

pgKept(F, inScope, o) ==
    CASE o.kind = "foreign_key" -> pgKeepForeignKey(F, inScope, o)
      [] o.kind \in {"view", "materialized_view"} -> pgKeepTableObject(F, o)
      [] o.kind \in {"function", "procedure"}     -> pgKeepRoutine(F, o)
      [] o.kind = "trigger"     -> pgKeepTrigger(F, o)
      [] o.kind = "rule"        -> pgKeepRule(F, o)
      [] o.kind = "extension"   -> ~IsObjectExcluded(F, "extension", o.id)
      [] OTHER                  -> pgKeepNamedObject(F, o)

mongoKeepNamed(F, o) ==
    /\ mongoIncludeCollection(F, o)
    /\ ~IsObjectExcluded(F, o.kind, o.id)

\* A routine is listed with its arguments, and from PostgreSQL 14 with "IN".
WithoutIN(args) ==
    [i \in 1..Len(args) |->
        [args[i] EXCEPT !.mode = IF @ = "IN" THEN "" ELSE @]]

Listed(o, printsIN) ==
    IF o.kind \in {"function", "procedure"} /\ ~printsIN
    THEN [o.id EXCEPT !.args = WithoutIN(@)] ELSE o.id

OfKinds(objs, engine) == {o \in objs : o.kind \in validationMetric(engine)}

mysqlInventory(objs, F) ==
    {o \in OfKinds(objs, "mysql") : F # {} => mysqlKept(F, o)}

mariadbInventory(objs, F) ==
    {o \in OfKinds(objs, "mariadb") : F # {} => mariadbKept(F, o)}

\* Extensions belong to the database; everything else is asked for by schema.
pgInventory(objs, F, schemas) ==
    {o \in OfKinds(objs, "postgresql") :
        /\ o.kind # "extension" => o.id.schema \in schemas
        /\ F # {} => pgKept(F, schemas, o)}

mongoInventory(objs, F) ==
    {o \in OfKinds(objs, "mongodb") : F # {} => mongoKeepNamed(F, o)}

(***************************************************************************)
(* Over SSH the engine's client answers, a list at a time: what has to be  *)
(* known of an object to narrow its list is asked for with its name, and   *)
(* the lists of names alone are narrowed together at the end.              *)
(***************************************************************************)
Names(objs, engine, kinds) == {o \in OfKinds(objs, engine) : o.kind \in kinds}

listForeignKeysFilteredViaSSH(objs, F) ==
    {o \in Names(objs, "mysql", {"foreign_key"}) : mysqlKeepForeignKey(F, o)}

listTriggersFilteredViaSSH(objs, F) ==
    {o \in Names(objs, "mysql", {"trigger"}) : mysqlKeepTrigger(F, o)}

mysqlInventoryViaSSH(objs, F) ==
    LET others == {"view", "function", "procedure", "event"} IN
    IF F = {} THEN OfKinds(objs, "mysql")
    ELSE listForeignKeysFilteredViaSSH(objs, F) \cup listTriggersFilteredViaSSH(objs, F)
         \cup {o \in Names(objs, "mysql", others) : mysqlKept(F, o)}

mariadbListForeignKeysFilteredViaSSH(objs, F) ==
    {o \in Names(objs, "mariadb", {"foreign_key"}) : mariadbKeepForeignKey(F, o)}

mariadbListTriggersFilteredViaSSH(objs, F) ==
    {o \in Names(objs, "mariadb", {"trigger"}) : mariadbKeepTrigger(F, o)}

mariadbInventoryViaSSH(objs, F) ==
    LET others == {"view", "function", "procedure", "event"} IN
    IF F = {} THEN OfKinds(objs, "mariadb")
    ELSE mariadbListForeignKeysFilteredViaSSH(objs, F)
         \cup mariadbListTriggersFilteredViaSSH(objs, F)
         \cup {o \in Names(objs, "mariadb", others) : mariadbKept(F, o)}

pgKeptNames(rows, F, schemas) == {o \in rows : F # {} => pgKept(F, schemas, o)}

pgInventoryViaSSH(objs, F, schemas) ==
    LET Rows_(kind) == {o \in Names(objs, "postgresql", {kind}) :
                           kind # "extension" => o.id.schema \in schemas} IN
    UNION {pgKeptNames(Rows_(kind), F, schemas) : kind \in validationMetric("postgresql")}

mongoInventoryViaSSH(objs, F) ==
    {o \in Names(objs, "mongodb", {"view"}) \cup Names(objs, "mongodb", {"validator"}) :
        F # {} => mongoKeepNamed(F, o)}

Inspect(objs, direct, F, schemas, printsIN) ==
    LET inventory ==
            CASE copy.engine = "mysql" /\ direct       -> mysqlInventory(objs, F)
              [] copy.engine = "mysql" /\ ~direct      -> mysqlInventoryViaSSH(objs, F)
              [] copy.engine = "mariadb" /\ direct     -> mariadbInventory(objs, F)
              [] copy.engine = "mariadb" /\ ~direct    -> mariadbInventoryViaSSH(objs, F)
              [] copy.engine = "postgresql" /\ direct  -> pgInventory(objs, F, schemas)
              [] copy.engine = "postgresql" /\ ~direct -> pgInventoryViaSSH(objs, F, schemas)
              [] copy.engine = "mongodb" /\ direct     -> mongoInventory(objs, F)
              [] copy.engine = "mongodb" /\ ~direct    -> mongoInventoryViaSSH(objs, F) IN
    [ tables |-> {o \in objs : o.kind = "table" /\ ~o.system /\ o.id.schema \in schemas},
      lists  |-> [kind \in validationMetric(copy.engine) |->
                    {Listed(o, printsIN) : o \in {p \in inventory : p.kind = kind}}] ]

(***************************************************************************)
(* Validation.                                                             *)
(***************************************************************************)
renamed == \E s \in copy.schemas : out(copy, s) # s

tableKey(t) == IF renamed \/ t.id.schema = "" THEN Bare(t.id.name) ELSE t.id

filteredTables ==
    [ dropped     |-> {r.table : r \in {q \in OfType(copy.rules, "table_column") : q.columns = {}}},
      rowFiltered |-> {r.table : r \in OfType(copy.rules, "row_exclude")} ]

namesTable(set, t) ==
    Bare(t.id.name) \in set \/ (t.id.schema # "" /\ t.id \in set)

Finding(kind, name, what) == [kind |-> kind, name |-> name, what |-> what]

\* The tables counted on both sides, by key.
Counted(src, dst) ==
    {tableKey(t) : t \in {s \in src.tables : ~namesTable(filteredTables.dropped, s)}}
        \cap {tableKey(t) : t \in dst.tables}

compareDBTables(src, dst, lost) ==
    LET Judged(info) == {t \in info.tables : tableKey(t) \notin lost}
        keys(info)   == {tableKey(t) : t \in Judged(info)}
        Count(t)     == Cardinality(t.rows)
        told         == {t \in Judged(src) : ~namesTable(filteredTables.dropped, t)} IN
    {Finding("table", tableKey(s), "missing") :
        s \in {t \in told : tableKey(t) \notin keys(dst)}}
    \cup {Finding("table", tableKey(s), "rows") :
        s \in {t \in told : \E d \in Judged(dst) :
                 /\ tableKey(d) = tableKey(t)
                 /\ Count(t) # Count(d)
                 /\ ~(namesTable(filteredTables.rowFiltered, t) /\ Count(d) < Count(t))}}
    \cup {Finding("table", tableKey(d), "extra") :
        d \in {t \in Judged(dst) : tableKey(t) \notin keys(src)}}

schemaObjectKey(kind, name) ==
    IF kind \in {"function", "procedure"}
    THEN [name EXCEPT !.args = WithoutIN(@)] ELSE name

compareSchemaObjects(src, dst) ==
    LET Keys(info, kind) == {schemaObjectKey(kind, n) : n \in info.lists[kind]} IN
    UNION {{Finding(kind, n, "missing") : n \in Keys(src, kind) \ Keys(dst, kind)}
           \cup {Finding(kind, n, "extra") : n \in Keys(dst, kind) \ Keys(src, kind)} :
              kind \in validationMetric(copy.engine)}

(***************************************************************************)
(* The steps.                                                              *)
(***************************************************************************)
Init ==
    /\ copy \in Copies
    /\ phase = "new"
    /\ script = <<>> /\ pc = 1
    /\ waived = FALSE
    /\ target = [objs |-> {}, session |-> {},
                 schemas |-> {IF copy.engine = "postgresql" THEN "public" ELSE ""}]
    /\ disturbed = Nothing /\ unread = {} /\ findings = {}

Accepted ==
    /\ \A r \in copy.rules : newObjectExcludeMatcher(r)
    /\ Validate(copy.rules, copy.engine, copy.direct)
    /\ validateCrossLocation(copy)

Refuse ==
    /\ phase = "new"
    /\ ~Accepted
    /\ phase' = "refused"
    /\ UNCHANGED <<copy, waived, script, pc, target, disturbed, unread, findings>>

\* The gate before anything is read.  A destination that names a schema it does
\* not have yet is one whose catalogue cannot be asked.
resolvePgSchemas == splitPgSchemas \subseteq target.schemas

enforceCharset ==
    /\ phase = "new"
    /\ Accepted
    /\ resolvePgSchemas
    /\ Blockers(copy) # {}
    /\ phase' = "blocked"
    /\ UNCHANGED <<copy, waived, script, pc, target, disturbed, unread, findings>>

\* The dump is written.  Past a difference it goes only when one of the two
\* catalogues could not be read.  A restore over a connection creates the one
\* schema the destination names.
Dump ==
    /\ phase = "new"
    /\ Accepted
    /\ phase' = "loading"
    /\ waived' = (Blockers(copy) # {})
    /\ script' = Replayed(copy)
    /\ target' = IF copy.dstDirect /\ Cardinality(splitPgSchemas) = 1
                 THEN [target EXCEPT !.schemas = @ \cup splitPgSchemas]
                 ELSE target
    /\ UNCHANGED <<copy, pc, disturbed, unread, findings>>

\* The next statement; the first that the server refuses ends the restore.
Load ==
    /\ phase = "loading" /\ pc <= Len(script)
    /\ IF Taken(script[pc])
       THEN /\ target' = Effect(script[pc])
            /\ pc' = pc + 1
            /\ UNCHANGED phase
       ELSE /\ phase' = "failed"
            /\ UNCHANGED <<target, pc>>
    /\ UNCHANGED <<copy, waived, script, disturbed, unread, findings>>

Loaded ==
    /\ phase = "loading" /\ pc > Len(script)
    /\ phase' = "loaded"
    /\ UNCHANGED <<copy, waived, script, pc, target, disturbed, unread, findings>>

\* Somebody changes the target after the migration: an object nothing depends
\* on goes, one comes that the migration did not bring, a row goes.
IsKey(o) == o.kind \in {"primary", "unique", "index"}

Depends(o, p) ==
    \/ p.kind \in {"table", "view"} /\ p.id \in {o.on, o.ref} /\ ~IsKey(o)
    \/ \E n \in o.needs : n.kind = p.kind /\ n.id = p.id

Stray == CHOOSE t \in {[o EXCEPT !.id = [@ EXCEPT !.name = "stray"], !.rows = {}] :
                          o \in {p \in target.objs : p.kind = "table"}} : TRUE

Lose ==
    \E o \in target.objs :
        /\ o.kind \in validationMetric(copy.engine) \cup {"table"}
        /\ \A p \in target.objs : ~Depends(p, o)
        /\ target' = [target EXCEPT !.objs = @ \ {p \in @ : p = o \/ (IsKey(p) /\ p.on = o.id)}]
        /\ disturbed' = [what |-> "missing", obj |-> o]

Gain ==
    \E o \in {Placed(p) : p \in Catalogue}
              \cup IF \E t \in target.objs : t.kind = "table" THEN {Stray} ELSE {} :
        /\ \/ o.kind \in validationMetric(copy.engine)
           \/ o.kind = "table" /\ o.id.name = "stray"
        /\ ~\E p \in target.objs : p.kind = o.kind /\ p.id = o.id
        /\ target' = [target EXCEPT !.objs = @ \cup {o}]
        /\ disturbed' = [what |-> "extra", obj |-> o]

LoseRow ==
    \E t \in {o \in target.objs : o.kind = "table"} : \E row \in t.rows :
        /\ target' = [target EXCEPT !.objs = (@ \ {t}) \cup {[t EXCEPT !.rows = @ \ {row}]}]
        /\ disturbed' = [what |-> "rows", obj |-> t]

Disturb ==
    /\ phase = "loaded" /\ disturbed = Nothing
    /\ Lose \/ Gain \/ LoseRow
    /\ UNCHANGED <<copy, phase, waived, script, pc, unread, findings>>

\* Both sides are inspected, the tables counted - one count may fail, and its
\* table is then reported and withdrawn from both sides - and compared.
Judge ==
    /\ phase = "loaded"
    /\ LET src == Inspect(Catalogue, copy.direct, copy.rules, copy.schemas, copy.srcIN)
           dst == Inspect(target.objs, copy.dstDirect, {},
                          {out(copy, s) : s \in copy.schemas}, copy.dstIN) IN
       \E lost \in {{}} \cup {{k} : k \in Counted(src, dst)} :
          /\ unread' = lost
          /\ findings' = {Finding("table", k, "uncounted") : k \in lost}
                         \cup compareDBTables(src, dst, lost)
                         \cup compareSchemaObjects(src, dst)
    /\ phase' = "judged"
    /\ UNCHANGED <<copy, waived, script, pc, target, disturbed>>

Next == Refuse \/ enforceCharset \/ Dump \/ Load \/ Loaded \/ Disturb \/ Judge

Spec == Init /\ [][Next]_vars

(***************************************************************************)
(* What a rule is understood to take, said once for every engine.          *)
(***************************************************************************)
Means(rule, id) ==
    /\ rule.name = id.name
    /\ rule.schema \in {"", id.schema}
    /\ rule.signed => WithoutIN(rule.args) = WithoutIN(id.args)

TakesTable(id) ==
    \E r \in copy.rules : r.type = "table_column" /\ r.columns = {} /\ Means(r.table, id)

TakenColumns(id) ==
    UNION {r.columns : r \in {q \in copy.rules : q.type = "table_column" /\ Means(q.table, id)}}

TakenRows(t) ==
    {row \in t.rows : \E r \in copy.rules : /\ r.type = "row_exclude"
                                            /\ Means(r.table, t.id)
                                            /\ r.match[row] = "true"}

\* To MySQL a unique key is an index; PostgreSQL has it as a constraint.
RuleKind(o) ==
    IF o.kind = "unique" /\ copy.engine # "postgresql" THEN "index" ELSE o.kind

Named(o) ==
    \E r \in copy.rules : /\ r.type = "object_exclude"
                          /\ r.kind = RuleKind(o)
                          /\ r.table # NoName => Means(r.table, o.on)
                          /\ Means(r.name, o.id)

IsColumnBound(o) ==
    o.kind \in {"primary", "unique", "index", "foreign_key"} /\ copy.engine # "mongodb"

Survives(o) ==
    /\ ~o.system
    /\ ~Named(o)
    /\ o.kind \in {"table", "view", "materialized_view"} => ~TakesTable(o.id)
    /\ o.on # NoName => ~TakesTable(o.on)
    /\ IsColumnBound(o) => o.cols \cap TakenColumns(o.on) = {}
    /\ o.kind = "foreign_key" => /\ ~TakesTable(o.ref)
                                 /\ o.refCols \cap TakenColumns(o.ref) = {}
                                 /\ o.ref.schema \in copy.schemas

Surviving(o) ==
    IF o.kind # "table" THEN o
    ELSE [o EXCEPT !.cols = @ \ TakenColumns(o.id), !.rows = @ \ TakenRows(o),
                   !.text = TextOf(o, o.cols \ TakenColumns(o.id))]

\* An object as it should stand on the target, under its schema's new name and
\* the account that restored it.
Final(o) ==
    [o EXCEPT !.id = FinalId(@), !.on = FinalId(@), !.ref = FinalId(@), !.definer = "",
              !.needs = {[n EXCEPT !.id = FinalId(@)] : n \in @}]

(***************************************************************************)
(* Properties.                                                             *)
(***************************************************************************)
\* A copy that loads holds exactly what the rules leave: every object, column
\* and row no rule takes, under the name it should have, and nothing a rule
\* takes or that hangs on what one takes - whichever engine's lists, line
\* surgery or projections decided it (dumpViaSQL, dumpViaDriver).
CopyIsExact ==
    phase = "loaded" /\ disturbed = Nothing =>
        target.objs = {Final(Surviving(o)) : o \in {p \in Catalogue : Survives(p)}}

\* What a statement relies on that a rule has taken away.
Broken(need) ==
    \E p \in Catalogue : /\ p.kind = need.kind /\ p.id = need.id
                         /\ ~Survives(p) \/ need.cols \cap TakenColumns(p.id) # {}

\* What o is written before: a direct dump writes views in the order of their
\* names, all of them ahead of the routines, and tables ahead of both.
ComesLater(o, need) ==
    /\ o.kind \in {"table", "view", "materialized_view"}
    /\ need.kind \in {"view", "materialized_view", "function", "procedure"}
    /\ \E i \in pc + 1 .. Len(script) : /\ script[i].op = "create"
                                        /\ script[i].obj.kind = need.kind
                                        /\ script[i].obj.id = need.id

Gap(st) ==
    LET o == st.obj IN
    \/ \E n \in o.needs : Broken(n)
    \/ copy.direct /\ \E n \in o.needs : ComesLater(o, n)
    \/ \E p \in Catalogue : p.id = o.on /\ (~Survives(p) \/ o.cols \cap TakenColumns(p.id) # {})
    \/ /\ o.kind = "foreign_key"
       /\ \/ \E k \in Catalogue : k.on = o.ref /\ k.cols = o.refCols /\ ~Survives(k)
          \/ \E p \in Catalogue : p.id = o.ref /\ TakenRows(p) # {}
    \/ o.kind = "table" /\ TakenColumns(o.id) # {}
    \/ waived /\ (~TextTaken(o) \/ ~EncodingTaken(o.rows))

\* A statement of the dump is refused by the target only for something a rule
\* took from under it, for a name the check of the text rules would have stopped
\* had it been made, or, in a direct dump, for a routine or a view that a table
\* or view calls and the file creates further down.  Everything else is there
\* when it is wanted: types, sequences and extensions before the tables, keys
\* before foreign keys, what triggers and rules hang on, and no object names an
\* account the target lacks (dumpSchemaViaSQL, dumpPostDataViaSQL,
\* dumpCoreSchemaViaSQL, DefinerFilterWriter, BuildRestoreCmd).
FailsOnlyAtAGap == phase = "failed" => Gap(script[pc])

\* The gate stops a copy only for a name that something the rules leave would
\* carry to a server that does not know it, or for an encoding that may not hold
\* what PostgreSQL stores (enforceCharset): a name only an excluded table or
\* column uses, and one the server lists in another form, stop nothing.
RefusedForCause ==
    phase = "blocked" =>
        \/ \E o \in Catalogue : Survives(o) /\ ~TextTaken(Surviving(o))
        \/ copy.engine = "postgresql" /\ copy.dst.encoding \notin {copy.src.encoding, "UTF8"}

\* What the validation should report: what happened to the target since, if
\* it is comparable, and what could not be counted.
Expected ==
    LET o == disturbed.obj
        key == IF o.kind = "table" THEN tableKey(o) ELSE schemaObjectKey(o.kind, Listed(o, copy.dstIN))
        told == \/ disturbed.what # "rows"
                \/ /\ key \notin unread
                   /\ ~\E r \in copy.rules, p \in Catalogue :
                             r.type = "row_exclude" /\ Means(r.table, p.id) /\ FinalId(p.id) = o.id
    IN {Finding("table", k, "uncounted") : k \in unread}
       \cup IF disturbed # Nothing /\ told
            THEN {Finding(IF disturbed.what = "rows" THEN "table" ELSE o.kind, key, disturbed.what)}
            ELSE {}

\* The validation of a migration that ran reports what is wrong with the
\* target and nothing else: an object a rule took, by name or along with its
\* table, is no miss, one that came or went since is found, and a lost row is
\* found unless a row rule makes the count incomparable (validateDatabase).
VerdictTrue == phase = "judged" => findings = Expected
=============================================================================
