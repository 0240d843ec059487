---------------------------- MODULE TransferPlan ----------------------------
(***************************************************************************)
(* The plan builder (src/pkg/core/plan, POST /plans/target): a request     *)
(* pairs entries of a source model with destinations, mappings and rules,  *)
(* and is answered with a plan, with 400 when it can be refused, or with   *)
(* 500 when a service it must ask does not answer.                         *)
(***************************************************************************)
EXTENDS PathRules, DumpFilter

CONSTANTS
    Source,   \* connection id -> what discovery listed on it
    Target    \* id of a destination -> the system it names

(***************************************************************************)
(* Connection references and the request's structure.                      *)
(***************************************************************************)
RefSources ==
    {"honeybee", "beetleSsh", "beetleObjectStorage", "beetleDb", "ssh", "minio", "db"}

validateConnectionRef(ref) == ref.source \in RefSources /\ ref.whole

validateSourceConnectionRef(ref) == ref.source = "honeybee" /\ ref.whole

WellFormed(req) ==
    /\ req.plans # <<>>
    /\ \A i \in 1..Len(req.plans) :
           /\ validateSourceConnectionRef(req.plans[i].src)
           /\ validateConnectionRef(req.plans[i].dst)

\* The model lists a connection once, in the domain that is its kind.
indexSource(req) == \A a, b \in req.model : a.id = b.id => a = b

KindOf(source) ==
    CASE source \in {"beetleSsh", "ssh"}               -> "ssh"
      [] source \in {"beetleObjectStorage", "minio"}   -> "objectStorage"
      [] source \in {"beetleDb", "db"}                 -> "dbms"

dstKind(ref) ==
    IF ref.source = "honeybee" THEN Source[ref.id].kind ELSE KindOf(ref.source)

validateEntryDomain(kind, e) ==
    /\ e.filterOf \in {"none", kind}
    /\ e.strategyOf \in {"none", kind} /\ e.strategyOf # "dbms"

(***************************************************************************)
(* Mappings and paths.                                                     *)
(***************************************************************************)
Mapped(e) == e.filterOf # "none"
Absolute(path) == path # <<>> /\ Head(path) = ""

validateStorageMapping(e) == Mapped(e) => e.srcName # <<>> /\ e.pgSchemas = <<>>

selectMigrationPath(info, e) ==
    [ ok  |-> Mapped(e) => e.srcName \in {info.path} \cup info.folders,
      src |-> IF Mapped(e) THEN e.srcName ELSE info.path,
      dst |-> IF ~Mapped(e) THEN info.path
              ELSE IF e.dstName # <<>> THEN e.dstName ELSE e.srcName ]

resolveObjectStorageDstPath(e, dst) ==
    IF e.dst.source = "beetleObjectStorage" /\ ~(Mapped(e) /\ e.dstName # <<>>)
    THEN <<Target[e.dst.id].bucket>> ELSE dst

validateCrossStorageDst(e, dstType) ==
    LET dst == IF Mapped(e) THEN e.dstName ELSE <<>>
    IN  dst # <<>> /\ (Absolute(dst) <=> dstType = "ssh")

\* path = bucket/key: the segments of each.
ParseBucketAndKey(path) ==
    LET p == IF Absolute(path) THEN Tail(path) ELSE path
    IN  [bucket |-> Head(p), key |-> IF Tail(p) = <<"">> THEN <<>> ELSE Tail(p)]

validateObjectStorageTargetReachable(e, dst, ans) ==
    \/ e.dst.source = "beetleObjectStorage"
    \/ ~ans.bucket
    \/ ParseBucketAndKey(dst).bucket \in Target[e.dst.id].buckets

validateSizeGateOrdering(rules) ==
    ~\E i, j \in 1..Len(rules) :
        i < j /\ rules[i].action = "include" /\ rules[j].type = "size"
              /\ rules[j].action # "include"

validateIncludeHasEffect(rules) ==
    \A i \in 1..Len(rules) :
        rules[i].action = "include" =>
            \E j \in (i + 1)..Len(rules) : rules[j].action = "exclude"

validateRsyncCompatibleRules(rules) ==
    \A i \in 1..Len(rules) :
        rules[i].type = "size" => /\ rules[i].action = "exclude"
                                  /\ rules[i].op \in {">", ">=", "<", "<="}

(***************************************************************************)
(* One entry of the plan: ok, and when it is, what is to be copied.        *)
(***************************************************************************)
Refused == [ok |-> FALSE, answer |-> "refused"]
Unanswered == [ok |-> FALSE, answer |-> "unanswered"]

Copy(e, path, dst, dbs) ==
    [ ok |-> TRUE, kind |-> Source[e.src.id].kind, src |-> e.src, dst |-> e.dst,
      dstType |-> dstKind(e.dst), rules |-> e.rules, srcPath |-> path,
      dstPath |-> dst, dbs |-> dbs,
      strategy |-> IF e.strategyOf = "none" THEN "direct" ELSE e.strategy ]

buildFileSystemEntry(e, info, ans) ==
    LET toStore == dstKind(e.dst) = "objectStorage"
        path    == selectMigrationPath(info, e)
        dst     == resolveObjectStorageDstPath(e, path.dst)
    IN  IF /\ validateStorageMapping(e)
           /\ validateSizeGateOrdering(e.rules)
           /\ validateIncludeHasEffect(e.rules)
           /\ dstKind(e.dst) # "dbms"
           /\ toStore => /\ validateRsyncCompatibleRules(e.rules)
                         /\ validateCrossStorageDst(e, "objectStorage")
           /\ path.ok
           /\ toStore => validateObjectStorageTargetReachable(e, dst, ans)
        THEN Copy(e, path.src, dst, <<>>) ELSE Refused

buildObjectStorageEntry(e, info, ans) ==
    LET path == selectMigrationPath(info, e)
        dst  == resolveObjectStorageDstPath(e, path.dst)
    IN  IF /\ validateStorageMapping(e)
           /\ validateIncludeHasEffect(e.rules)
           /\ dstKind(e.dst) # "dbms"
           /\ dstKind(e.dst) = "ssh" => validateCrossStorageDst(e, "ssh")
           /\ path.ok
           /\ dstKind(e.dst) = "objectStorage" =>
                  validateObjectStorageTargetReachable(e, dst, ans)
        THEN Copy(e, path.src, dst, <<>>) ELSE Refused

(***************************************************************************)
(* Databases.                                                              *)
(***************************************************************************)
validateDBMSEngines(e) == Source[e.src.id].engine = Target[e.dst.id].engine

NoDuplicates(seq) == Cardinality(Range(seq)) = Len(seq)
OrSame(dst, src) == IF dst = "" THEN src ELSE dst

validatePgSchemas(engine, pairs) ==
    pairs # <<>> =>
        /\ engine = "postgresql"
        /\ \A i \in 1..Len(pairs) : pairs[i].src # ""
        /\ NoDuplicates([i \in 1..Len(pairs) |-> pairs[i].src])
        /\ NoDuplicates([i \in 1..Len(pairs) |-> OrSame(pairs[i].dst, pairs[i].src)])

Item(src, dst, pgSchemas, rules) ==
    [src |-> src, dst |-> dst, pgSchemas |-> pgSchemas, rules |-> rules]

\* The filter's databases are a selection; without one all of them go.
buildDBMigrationInfos(e, info) ==
    IF e.dbs = <<>>
    THEN [i \in 1..Len(info.names) |-> Item(info.names[i], info.names[i], <<>>, {})]
    ELSE [i \in 1..Len(e.dbs) |-> [e.dbs[i] EXCEPT !.dst = OrSame(@, e.dbs[i].src)]]

SelectionHolds(e, info) ==
    /\ \A i \in 1..Len(e.dbs) :
           /\ e.dbs[i].src \in Range(info.names)
           /\ validatePgSchemas(info.engine, e.dbs[i].pgSchemas)
    /\ NoDuplicates([i \in 1..Len(e.dbs) |-> e.dbs[i].src])
    /\ NoDuplicates([i \in 1..Len(e.dbs) |-> OrSame(e.dbs[i].dst, e.dbs[i].src)])

\* name as the inventory spells it: PostgreSQL with its schema, and a routine
\* with its arguments.
ObjectNameMatches(engine, kind, rule, name) ==
    \/ rule = name
    \/ /\ engine = "postgresql"
       /\ IF kind \in {"function", "procedure"}
          THEN name.signed /\ PgRoutineRuleMatches(rule, name.schema, name.name, name.args)
          ELSE /\ ~name.signed /\ ~rule.signed
               /\ rule.name = name.name /\ rule.schema \in {"", name.schema}

sourceHasIndex(inv, r) ==
    \E x \in inv.index :
        /\ r.table.name \in {"", x.table.name}
        /\ r.table.schema \in {"", x.table.schema}
        /\ x.name = r.name

\* A kind the inventory does not carry is not asked about.
validateObjectRules(engine, inv, rules) ==
    \A r \in OfType(rules, "object_exclude") :
        r.kind \in DOMAIN inv =>
            IF r.kind = "index" THEN sourceHasIndex(inv, r)
            ELSE \E n \in inv[r.kind] : ObjectNameMatches(engine, r.kind, r.name, n)

\* PostgreSQL counts releases by their first number from version 10.
significantVersionDepth(engine, version) ==
    IF engine = "postgresql" /\ version # <<>> /\ version[1] >= 10 THEN 1 ELSE 2

\* A version is the numbers it begins with, <<>> when there are none.
CheckServerVersions(engine, src, dst) ==
    LET depth == Min({significantVersionDepth(engine, src),
                      significantVersionDepth(engine, dst), Len(src), Len(dst)})
        differ == {i \in 1..depth : src[i] # dst[i]}
    IN  [ comparable |-> src # <<>> /\ dst # <<>>,
          downgrade  |-> differ # {} /\ src[Min(differ)] > dst[Min(differ)] ]

validateDBMSVersion(e, ans) ==
    ans.version => ~CheckServerVersions(Source[e.src.id].engine,
                        Source[e.src.id].version, Target[e.dst.id].version).downgrade

\* centipede creates a database itself on an onprem server, cm-beetle inside a
\* managed one, and MongoDB needs none.
CanBeMade(ref) ==
    \/ Target[ref.id].engine = "mongodb"
    \/ ref.source = "beetleDb"
    \/ Target[ref.id].provider = "onprem"

validateDBMSTargetReachable(e, name, ans) ==
    /\ e.dst.source \in {"beetleDb", "db"}
    /\ \/ ~ans.listing
       \/ name \in Target[e.dst.id].names
       \/ CanBeMade(e.dst)

\* What a database connection is, honeybee or cm-beetle has to say...
dbmsIdentityOf(ref, ans) ==
    /\ ref.source = "honeybee" => ans.honeybee
    /\ ref.source = "beetleDb" => ans.beetle
\* ... and a managed server is one of two engines' or an error, not a refusal.
ResolveDBMSLocation(ref, ans) ==
    /\ dbmsIdentityOf(ref, ans)
    /\ ref.source = "beetleDb" => Target[ref.id].engine \in {"mysql", "mariadb"}

\* The servers are asked for after the rules of the first database were checked.
buildDBEntry(e, info, ans) ==
    LET items == buildDBMigrationInfos(e, info)
        rulesHold(i) == validateObjectRules(info.engine, info.inv, items[i].rules)
    IN  IF dstKind(e.dst) # "dbms" \/ e.dst.source = "honeybee" THEN Refused
        ELSE IF ~(dbmsIdentityOf(e.src, ans) /\ dbmsIdentityOf(e.dst, ans)) THEN Unanswered
        ELSE IF ~(/\ validateDBMSEngines(e)
                  /\ SelectionHolds(e, info)
                  /\ items # <<>> /\ rulesHold(1)) THEN Refused
        ELSE IF ~ResolveDBMSLocation(e.dst, ans) THEN Unanswered
        ELSE IF /\ validateDBMSVersion(e, ans)
                /\ \A i \in 1..Len(items) :
                       rulesHold(i) /\ validateDBMSTargetReachable(e, items[i].dst, ans)
             THEN Copy(e, <<>>, <<>>, items) ELSE Refused

(***************************************************************************)
(* The plan as a whole.                                                    *)
(***************************************************************************)
Build(e, ans) ==
    LET info == Source[e.src.id] IN
    CASE info.kind = "ssh"           -> buildFileSystemEntry(e, info, ans)
      [] info.kind = "objectStorage" -> buildObjectStorageEntry(e, info, ans)
      [] info.kind = "dbms"          -> buildDBEntry(e, info, ans)

\* dstKey names the system a reference spells, never its credentials.
dstKey(ref) == <<ref.source, ref.id>>

\* Every place an entry writes to.
Claims(p) ==
    IF p.kind = "dbms"
    THEN [i \in 1..Len(p.dbs) |-> <<dstKey(p.dst), p.dbs[i].dst>>]
    ELSE << <<dstKey(p.dst), p.dstPath>> >>

DuplicateDestination(plan) ==
    ~NoDuplicates(FlattenSeq([i \in 1..Len(plan) |-> Claims(plan[i])]))

RootToRoot(plan) ==
    \E i \in 1..Len(plan) :
        /\ plan[i].kind = "ssh" /\ plan[i].dstType = "ssh"
        /\ Trim(plan[i].srcPath) = <<>> /\ Trim(plan[i].dstPath) = <<>>

InModel(req, e) == \E m \in req.model : m.id = e.src.id

\* An entry of the request: known, of its domain, and its destination's kind, which
\* honeybee is asked for each time the destination is one of its own.
Entered(req, e, ans) ==
    IF ~(InModel(req, e) /\ validateEntryDomain(Source[e.src.id].kind, e)) THEN Refused
    ELSE IF e.dst.source = "honeybee" /\ ~ans.honeybee THEN Unanswered
    ELSE Build(e, ans)

\* The answer: that there is a plan, or what the first entry without one met.
BuildTargetDataMigrationModel(req, ans) ==
    LET built == [i \in 1..Len(req.plans) |-> Entered(req, req.plans[i], ans)]
        stops == {i \in 1..Len(req.plans) : ~built[i].ok}
    IN  IF ~(WellFormed(req) /\ indexSource(req)) THEN "refused"
        ELSE IF stops # {} THEN IF built[Min(stops)] = Unanswered THEN "unanswered" ELSE "refused"
        ELSE IF DuplicateDestination(built) \/ RootToRoot(built) THEN "refused"
        ELSE "planned"

\* The plan lists folders before buckets and both before databases, and entries of
\* one kind as they were asked for: entry i of it is entry order[i] of the request.
Rank(kind) == CASE kind = "ssh" -> 1 [] kind = "objectStorage" -> 2 [] kind = "dbms" -> 3
InPlanOrder(req, order) ==
    \A i, j \in DOMAIN order :
        LET a == Rank(Source[req.plans[order[i]].src.id].kind)
            b == Rank(Source[req.plans[order[j]].src.id].kind)
        IN  i < j => a < b \/ (a = b /\ order[i] < order[j])

PlanOf(req, order, ans) ==
    [i \in 1..Len(req.plans) |-> Entered(req, req.plans[order[i]], ans)]
=============================================================================
