----------------------------- MODULE FileCopies -----------------------------
(***************************************************************************)
(* A migration of files and objects from the request to the verdict: the   *)
(* plan (TransferPlan), the route each entry takes - rsync between hosts   *)
(* or through a staging directory, upload, download, object by object -    *)
(* with the filter handed to whoever reads it on that route, and the       *)
(* validation that lists both sides again.  A database entry is one step:  *)
(* what the server-side checks of a launch say of an accepted plan.        *)
(*                                                                         *)
(* A tree maps paths to files; a host of objects has its bucket as the     *)
(* first segment.  Requests, sources and destinations are values; bounds:  *)
(* MaxFaults breaks of a stage, one disturbance between copy and verdict,  *)
(* and MaxTries passes over the entries.                                   *)
(***************************************************************************)
EXTENDS TransferPlan, TLC

CONSTANTS
    Requests,   \* the requests, each with what its destinations hold and the
                \* answers the services may give
    Dotted,     \* names with a dot in them
    Sharded,    \* does a run ask for more than one rsync?
    MaxFaults,
    MaxTries

\* A model lists connections in three domains; a destination named holds something,
\* if only an empty tree.
ASSUME RequestAssumption ==
    \A q \in Requests :
        /\ Len(q.plans) \in Nat
        /\ \A i \in 1..Len(q.plans) :
               /\ Source[q.plans[i].src.id].kind \in {"ssh", "objectStorage", "dbms"}
               /\ q.plans[i].dst.id \in DOMAIN q.leftovers

VARIABLES
    request,    \* what is asked
    answers,    \* what the services say meanwhile
    plan,       \* the entries to run
    phase,      \* "asked" "refused" "unanswered" "running" "moved" "judged"
    at, stage,  \* the entry at work, and how many of its stages are behind it
    store,      \* host -> tree
    before,     \* entry -> its destination host when the entry was started
    staging,    \* the relay's directory
    why,        \* entry -> "" | "done" | why it failed
    faults, tries,
    disturbed,  \* something else wrote to a destination
    findings    \* entry -> what the validation reports

vars == <<request, answers, plan, phase, at, stage, store, before, staging,
          why, faults, tries, disturbed, findings>>

Empty == [p \in {} |-> p]
Paths(tree) == DOMAIN tree
Under(tree, root) ==
    LET inside == {p \in Paths(tree) : Len(p) > Len(root) /\ IsPrefix(root, p)}
    IN  [r \in {SubSeq(p, Len(root) + 1, Len(p)) : p \in inside} |-> tree[root \o r]]
At(root, tree) ==
    [p \in {root \o r : r \in Paths(tree)} |-> tree[SubSeq(p, Len(root) + 1, Len(p))]]
Only(tree, S) == [p \in S |-> tree[p]]

\* What is written lies on what was there.
Onto(tree, new) ==
    [p \in Paths(tree) \cup Paths(new) |-> IF p \in Paths(new) THEN new[p] ELSE tree[p]]

(***************************************************************************)
(* Where an entry reads and writes.                                        *)
(***************************************************************************)
P == plan[at]
Info(p) == Source[p.src.id]
Prefix(p) == ParseBucketAndKey(p.srcPath).key

BucketOf(p) == IF p.dst.source = "beetleObjectStorage" THEN Target[p.dst.id].bucket
               ELSE ParseBucketAndKey(p.dstPath).bucket
DstPrefix(p) == ParseBucketAndKey(p.dstPath).key

Root(p) == CASE p.dstType = "ssh" -> Trim(p.dstPath)
             [] p.dstType = "objectStorage" -> <<BucketOf(p)>> \o Trim(DstPrefix(p))
             [] p.dstType = "dbms" -> <<>>

(***************************************************************************)
(* Listings.  Objects are listed by string prefix.                         *)
(***************************************************************************)
After(a, b) == IF a = "" THEN b ELSE IF a = b THEN "" ELSE Longer[<<a, b>>]

ListedUnder(prefix, key) ==
    LET n == Len(prefix) IN
    n = 0 \/ /\ Len(key) >= n
             /\ SubSeq(key, 1, n - 1) = SubSeq(prefix, 1, n - 1)
             /\ prefix[n] \in {"", key[n]} \/ <<prefix[n], key[n]>> \in DOMAIN Longer

\* The key behind its prefix, and behind the slash between them.
TrimKey(prefix, key) ==
    LET n == Len(prefix) IN
    IF n = 0 THEN key
    ELSE LET name == After(prefix[n], key[n])
             rest == SubSeq(key, n + 1, Len(key))
         IN  IF name = "" THEN rest ELSE <<name>> \o rest

keyUnderPrefix(prefix, key) ==
    LET n == Len(prefix) IN
    \/ n = 0
    \/ prefix[n] = "" /\ Len(key) >= n /\ SubSeq(key, 1, n - 1) = SubSeq(prefix, 1, n - 1)
    \/ key = prefix
    \/ Len(key) > n /\ IsPrefix(prefix, key)

ListObjects(tree, prefix) == {k \in Paths(tree) : ListedUnder(prefix, k)}
ListFiles(tree, root) == Under(tree, root)

buildObjectMap(tree, prefix) ==
    LET keys == {k \in ListObjects(tree, prefix) : TrimKey(prefix, k) # <<>>}
    IN  [r \in {TrimKey(prefix, k) : k \in keys} |->
            tree[CHOOSE k \in keys : TrimKey(prefix, k) = r]]

IsMarker(key) == key # <<>> /\ Last(key) = ""
WithoutMarkers(tree) == Only(tree, {k \in Paths(tree) : ~IsMarker(k)})

(***************************************************************************)
(* The plan.                                                               *)
(***************************************************************************)
Init ==
    /\ request \in Requests
    /\ answers \in request.answers
    /\ plan = <<>> /\ phase = "asked" /\ at = 1 /\ stage = 0
    /\ store = request.leftovers
    /\ before = <<>> /\ why = <<>> /\ findings = <<>>
    /\ staging = Empty
    /\ faults = 0 /\ tries = 1 /\ disturbed = FALSE

running == phase = "running" /\ at <= Len(plan) /\ why[at] # "done"

GetTargetPlan ==
    /\ phase = "asked"
    /\ LET answer == BuildTargetDataMigrationModel(request, answers) IN
       IF answer = "planned"
       THEN /\ \E order \in [1..Len(request.plans) -> 1..Len(request.plans)] :
                  /\ InPlanOrder(request, order)
                  /\ plan' = PlanOf(request, order, answers)
            /\ phase' = "running"
            /\ why' = [i \in 1..Len(plan') |-> ""]
            /\ before' = [i \in 1..Len(plan') |-> store[plan'[i].dst.id]]
       ELSE /\ phase' = answer
            /\ UNCHANGED <<plan, why, before>>
    /\ UNCHANGED <<request, answers, at, stage, store, staging, faults, tries,
                   disturbed, findings>>

(***************************************************************************)
(* Routes.                                                                 *)
(***************************************************************************)
planFilesystemTransfer(p) ==
    IF p.strategy = "relay" THEN <<"pull", "push">> ELSE <<"rsync">>
planObjectStorageTransfer(p) ==
    IF p.strategy = "relay" THEN <<"preflight", "download", "upload">>
    ELSE <<"preflight", "stream">>
PreflightLast(p) == <<"pull", "upload", "preflight">>
planFilesystemToObjectStorage(p) == <<"preflight", "pull", "upload">>
planObjectStorageToFilesystem(p) == <<"download", "push">>

Transfer(p) ==
    IF p.kind = "dbms" THEN <<"database">>
    ELSE IF p.kind = "ssh"
    THEN IF p.dstType = "ssh" THEN planFilesystemTransfer(p)
         ELSE planFilesystemToObjectStorage(p)
    ELSE IF p.dstType = "ssh" THEN planObjectStorageToFilesystem(p)
    ELSE planObjectStorageTransfer(p)

Stage == IF stage < Len(Transfer(P)) THEN Transfer(P)[stage + 1] ELSE "end"
MoveOn == stage' = stage + 1
Keep == UNCHANGED <<request, answers, plan, phase, before, disturbed, findings>>

\* An entry ends; its staging directory goes with it.
End(reason) ==
    /\ why' = [why EXCEPT ![at] = reason]
    /\ at' = at + 1 /\ stage' = 0 /\ staging' = Empty

Fails(reason) == End(reason) /\ UNCHANGED <<store, faults, tries>> /\ Keep

(***************************************************************************)
(* rsync.  A source folder without a trailing slash is taken for a file    *)
(* when its name holds a dot, and lands as a folder of its own.            *)
(***************************************************************************)
isDirectoryPath(path) == path[Len(path)] \notin Dotted

Landing(path) == IF isDirectoryPath(path) THEN <<>> ELSE <<Last(path)>>

\* The quick check: a file of the same size and time is passed over.
Rsynced(tree, root, from, S) ==
    LET new == At(root, Only(from, S)) IN
    Onto(tree, [q \in Paths(new) |->
        IF q \in Paths(tree) /\ tree[q].size = new[q].size /\ tree[q].time = new[q].time
        THEN tree[q] ELSE new[q]])

SourceFiles == ListFiles(Info(P).tree, Trim(P.srcPath))
Args == rsyncFilterArgs(P.rules)
RsyncSet == {r \in Paths(SourceFiles) : RsyncSends(Args, r, SourceFiles[r].size)}
KeptFiles == {r \in Paths(SourceFiles) : MatchPath(P.rules, r, SourceFiles[r].size, FALSE)}

DstTree == store[P.dst.id]
Write(tree) == store' = [store EXCEPT ![P.dst.id] = tree]
DstRoot == Root(P) \o Landing(P.srcPath)

\* Parallel rsyncs copy a part of what this program lists; whatever they
\* leave undone is left to the one that follows.
runShards ==
    /\ running /\ Sharded /\ Stage \in {"rsync", "pull"} /\ Args.ok
    /\ \E S \in SUBSET KeptFiles :
          IF Stage = "rsync"
          THEN /\ Write(Rsynced(DstTree, DstRoot, SourceFiles, S))
               /\ store' # store
               /\ UNCHANGED staging
          ELSE /\ staging' = Rsynced(staging, Landing(P.srcPath), SourceFiles, S)
               /\ staging' # staging
               /\ UNCHANGED store
    /\ UNCHANGED <<at, stage, why, faults, tries>> /\ Keep

Rsync ==
    /\ running /\ Stage = "rsync" /\ Args.ok
    /\ Write(Rsynced(DstTree, DstRoot, SourceFiles, RsyncSet))
    /\ MoveOn
    /\ UNCHANGED <<at, staging, why, faults, tries>> /\ Keep

Pull ==
    /\ running /\ Stage = "pull" /\ Args.ok
    /\ staging' = Rsynced(staging, Landing(P.srcPath), SourceFiles, RsyncSet)
    /\ MoveOn
    /\ UNCHANGED <<at, store, why, faults, tries>> /\ Keep

\* The staging directory holds what was filtered on its way in.
Push ==
    /\ running /\ Stage = "push"
    /\ Write(Rsynced(DstTree, Root(P), staging, Paths(staging)))
    /\ MoveOn
    /\ UNCHANGED <<at, staging, why, faults, tries>> /\ Keep

rsyncFilterError ==
    /\ running /\ Stage \in {"rsync", "pull"} /\ ~Args.ok
    /\ Fails("filter")

RsyncBreaks ==
    /\ running /\ faults < MaxFaults /\ Stage \in {"rsync", "push"} /\ Args.ok
    /\ LET from == IF Stage = "rsync" THEN SourceFiles ELSE staging
           root == IF Stage = "rsync" THEN DstRoot ELSE Root(P)
           all  == IF Stage = "rsync" THEN RsyncSet ELSE Paths(staging)
       IN  \E S \in SUBSET all : Write(Rsynced(DstTree, root, from, S))
    /\ End("fault") /\ faults' = faults + 1
    /\ UNCHANGED tries /\ Keep

(***************************************************************************)
(* Objects.                                                                *)
(***************************************************************************)
SourceKeys == ListObjects(Info(P).tree, Prefix(P))
Object(k) == Info(P).tree[k]
Chosen(k) == MatchPath(P.rules, Rel(Prefix(P), k), Object(k).size, FALSE)

\* path.Clean on a relative path.
Clean(rel) ==
    FoldLeft(LAMBDA acc, s :
        IF s \in {"", "."} THEN acc
        ELSE IF s = ".." /\ acc # <<>> /\ Last(acc) # ".." THEN Front(acc)
        ELSE Append(acc, s), <<>>, rel)

\* Where the download puts a key.
objectLocalPath(prefix, key) ==
    LET rel == IF key = prefix /\ prefix # <<>> /\ Last(prefix) # "" THEN <<Last(key)>>
               ELSE TrimKey(prefix, key)
    IN  [local |-> Clean(rel), folder |-> rel = <<>> \/ IsMarker(rel)]

LeadsOut(p) == p.local # <<>> /\ Head(p.local) = ".."

\* Two keys of one file, or a file where a folder must be.
Clash(p, q) ==
    \/ p.local = q.local /\ ~p.folder /\ p.local # <<>>
    \/ ~p.folder /\ p.local # <<>> /\ IsPrefix(p.local, q.local) /\ p.local # q.local

objectLocalPaths(prefix, keys) ==
    LET places == [k \in {x \in keys : keyUnderPrefix(prefix, x)} |->
                      objectLocalPath(prefix, k)]
    IN  [ places |-> places,
          ok |-> ~\E k \in DOMAIN places :
                     \/ LeadsOut(places[k])
                     \/ \E l \in DOMAIN places \ {k} : Clash(places[k], places[l]) ]

Fetched(k) == [Object(k) EXCEPT !.time = "now", !.parts = FALSE]

Matched == {k \in SourceKeys : Chosen(k)}
Local == objectLocalPaths(Prefix(P), Matched)
FileKeys == {k \in DOMAIN Local.places : ~Local.places[k].folder}

\* The directory is cleared first, then filled.
Download ==
    /\ running /\ Stage = "download" /\ Local.ok
    /\ staging' = [l \in {Local.places[k].local : k \in FileKeys} |->
                      Fetched(CHOOSE k \in FileKeys : Local.places[k].local = l)]
    /\ MoveOn
    /\ UNCHANGED <<at, store, why, faults, tries>> /\ Keep

DownloadRefused ==
    /\ running /\ Stage = "download" /\ ~Local.ok
    /\ Fails("keys")

\* Nothing has reached the destination yet.
FetchBreaks ==
    /\ running /\ faults < MaxFaults /\ Stage \in {"pull", "download"}
    /\ Args.ok \/ Stage = "download"
    /\ End("fault") /\ faults' = faults + 1
    /\ UNCHANGED <<store, tries>> /\ Keep

HasBucket(p) == p.dst.source = "beetleObjectStorage"
                \/ BucketOf(p) \in Target[p.dst.id].buckets

\* Big objects go in parts, to a store that takes parts.
Stored(file, time) ==
    [file EXCEPT !.time = time,
                 !.parts = Target[P.dst.id].multipart /\ file.size > Target[P.dst.id].limit]

UploadKey(l) == Root(P) \o l
Uploaded(S) ==
    Onto(DstTree, [q \in {UploadKey(l) : l \in S} |->
        Stored(staging[CHOOSE l \in S : UploadKey(l) = q], "now")])

Upload ==
    /\ running /\ Stage = "upload" /\ HasBucket(P)
    /\ Write(Uploaded(Paths(staging)))
    /\ MoveOn
    /\ UNCHANGED <<at, staging, why, faults, tries>> /\ Keep

\* A key below the prefix, under the destination's; a marker keeps its slash.
streamDstKey(k) ==
    LET rel == TrimKey(Prefix(P), k)
        is  == IF rel = <<>> THEN Trim(<<Last(Trim(k))>>) ELSE rel
    IN  Root(P) \o Trim(is) \o (IF IsMarker(is) THEN <<"">> ELSE <<>>)

StreamSet == {k \in SourceKeys : keyUnderPrefix(Prefix(P), k) /\ Chosen(k)}
Streamed(S) ==
    Onto(DstTree, [q \in {streamDstKey(k) : k \in S} |->
        Stored(Object(CHOOSE k \in S : streamDstKey(k) = q), "now")])

Stream ==
    /\ running /\ Stage = "stream" /\ HasBucket(P)
    /\ Write(Streamed(StreamSet))
    /\ MoveOn
    /\ UNCHANGED <<at, staging, why, faults, tries>> /\ Keep

ObjectsBreak ==
    /\ running /\ faults < MaxFaults /\ Stage \in {"upload", "stream"} /\ HasBucket(P)
    /\ \E S \in SUBSET (IF Stage = "upload" THEN Paths(staging) ELSE StreamSet) :
          Write(IF Stage = "upload" THEN Uploaded(S) ELSE Streamed(S))
    /\ End("fault") /\ faults' = faults + 1
    /\ UNCHANGED tries /\ Keep

NoSuchBucket ==
    /\ running /\ Stage \in {"upload", "stream"} /\ ~HasBucket(P)
    /\ Fails("bucket")

(***************************************************************************)
(* A store without multipart upload takes an object in one PUT or not at   *)
(* all, and is asked before anything moves.                                *)
(***************************************************************************)
fsSizes == {SourceFiles[r].size : r \in KeptFiles}
objectSizes == {Object(k).size : k \in StreamSet}

checkSinglePutLimit(sizes, t) ==
    t.multipart \/ \A n \in sizes : n <= t.limit

Sizes == IF P.kind = "ssh" THEN fsSizes ELSE objectSizes

Preflight ==
    /\ running /\ Stage = "preflight"
    /\ IF checkSinglePutLimit(Sizes, Target[P.dst.id])
       THEN MoveOn /\ UNCHANGED <<at, store, staging, why, faults, tries>> /\ Keep
       ELSE Fails("limit")

(***************************************************************************)
(* A database entry: the checks of a launch, then the load.                *)
(***************************************************************************)
DatabaseTrouble(p, item) ==
    LET s == Info(p)  t == Target[p.dst.id] IN
    IF s.engine # t.engine THEN "engine"
    ELSE IF item.dst \notin t.names /\ ~CanBeMade(p.dst) THEN "absent"
    ELSE IF <<item.dst>> \in Paths(store[p.dst.id]) THEN "occupied"
    ELSE IF CheckServerVersions(s.engine, s.version, t.version).downgrade THEN "version"
    ELSE ""

RunDatabases ==
    /\ running /\ Stage = "database"
    /\ LET trouble == {DatabaseTrouble(P, P.dbs[i]) : i \in 1..Len(P.dbs)} \ {""} IN
       IF trouble # {} THEN Fails(CHOOSE t \in trouble : TRUE)
       ELSE /\ Write(Onto(DstTree, [q \in {<<P.dbs[i].dst>> : i \in 1..Len(P.dbs)} |-> P.src.id]))
            /\ MoveOn
            /\ UNCHANGED <<at, staging, why, faults, tries>> /\ Keep

(***************************************************************************)
(* The order of entries, a second pass over the failed, the world outside. *)
(***************************************************************************)
Done ==
    /\ running /\ stage = Len(Transfer(P))
    /\ End("done") /\ UNCHANGED <<store, faults, tries>> /\ Keep

Skip ==
    /\ phase = "running" /\ at <= Len(plan) /\ why[at] = "done"
    /\ at' = at + 1
    /\ UNCHANGED <<stage, store, staging, why, faults, tries>> /\ Keep

Finish ==
    /\ phase = "running" /\ at > Len(plan)
    /\ phase' = "moved"
    /\ UNCHANGED <<request, answers, plan, at, stage, store, before, staging,
                   why, faults, tries, disturbed, findings>>

Retry ==
    /\ phase = "moved" /\ tries < MaxTries /\ ~disturbed
    /\ \E i \in 1..Len(plan) : why[i] # "done"
    /\ phase' = "running" /\ at' = 1 /\ tries' = tries + 1
    /\ UNCHANGED <<request, answers, plan, stage, store, before, staging, why,
                   faults, disturbed, findings>>

\* A path something else writes below every destination.
Stray == "stray"

Disturb ==
    /\ phase = "moved" /\ ~disturbed
    /\ disturbed' = TRUE
    /\ \E i \in 1..Len(plan) :
          LET p == plan[i]  tree == store[p.dst.id] IN
          /\ p.kind # "dbms"
          /\ \/ \E q \in Paths(tree) :
                   \/ store' = [store EXCEPT ![p.dst.id] = Only(tree, Paths(tree) \ {q})]
                   \/ store' = [store EXCEPT ![p.dst.id][q].sum = "other"]
                   \/ store' = [store EXCEPT ![p.dst.id][q].size = @ + 1]
                   \/ store' = [store EXCEPT ![p.dst.id][q].time = "later"]
             \/ \E f \in {tree[q] : q \in Paths(tree)} :
                   store' = [store EXCEPT ![p.dst.id] =
                               (Append(Root(p), Stray) :> f) @@ tree]
    /\ UNCHANGED <<request, answers, plan, phase, at, stage, before, staging,
                   why, faults, tries, findings>>

(***************************************************************************)
(* The validation: both sides listed again, the rules asked of the source. *)
(***************************************************************************)
ExcludesNothing(p, rel, size) == FALSE
excludesFile(p, rel, size) == ~MatchPath(p.rules, rel, size, FALSE)

BucketTree(p) == Under(store[p.dst.id], <<BucketOf(p)>>)
folderSizes(p) == ListFiles(store[p.dst.id], Trim(p.dstPath))
bucketSizes(p) == WithoutMarkers(buildObjectMap(BucketTree(p), DstPrefix(p)))

Listing(p) ==
    CASE p.kind = "ssh" /\ p.dstType = "ssh" ->
           [src |-> ListFiles(Info(p).tree, Trim(p.srcPath)), dst |-> folderSizes(p)]
      [] p.kind = "ssh" ->
           [src |-> ListFiles(Info(p).tree, Trim(p.srcPath)), dst |-> bucketSizes(p)]
      [] p.dstType = "ssh" ->
           [src |-> WithoutMarkers(buildObjectMap(Info(p).tree, Prefix(p))),
            dst |-> folderSizes(p)]
      [] OTHER ->
           [src |-> buildObjectMap(Info(p).tree, Prefix(p)),
            dst |-> buildObjectMap(BucketTree(p), DstPrefix(p))]

\* A quick look at files compares times, a checksum their content; objects
\* compare the content where neither was stored in parts.
compareFiles(s, d, mode) ==
    /\ s.size = d.size
    /\ IF mode = "quick" THEN s.time = d.time ELSE s.sum = d.sum
comparableETag(file) == ~file.parts
compareObjects(s, d) ==
    /\ s.size = d.size
    /\ (comparableETag(s) /\ comparableETag(d)) => s.sum = d.sum
compareCross(s, d) == s.size = d.size

Alike(p, s, d, mode) ==
    CASE p.kind = "ssh" /\ p.dstType = "ssh" -> compareFiles(s, d, mode)
      [] p.kind = p.dstType -> compareObjects(s, d)
      [] OTHER -> compareCross(s, d)

Findings(p, mode) ==
    LET l == Listing(p)
        asked == {r \in Paths(l.src) : ~excludesFile(p, r, l.src[r].size)}
    IN  {[what |-> "missing", path |-> r] : r \in asked \ Paths(l.dst)}
        \cup {[what |-> "differs", path |-> r] :
                 r \in {x \in asked \cap Paths(l.dst) :
                           ~Alike(p, l.src[x], l.dst[x], mode)}}
        \cup {[what |-> "extra", path |-> r] : r \in Paths(l.dst) \ Paths(l.src)}

Judge ==
    /\ phase = "moved"
    /\ \E mode \in {"quick", "checksum"} :
          findings' = [i \in 1..Len(plan) |->
              [mode |-> mode,
               found |-> IF plan[i].kind = "dbms" THEN {} ELSE Findings(plan[i], mode)]]
    /\ phase' = "judged"
    /\ UNCHANGED <<request, answers, plan, at, stage, store, before, staging,
                   why, faults, tries, disturbed>>

Next ==
    \/ GetTargetPlan \/ Preflight \/ runShards \/ Rsync \/ Pull \/ Push
    \/ rsyncFilterError \/ RsyncBreaks \/ Download \/ DownloadRefused \/ FetchBreaks
    \/ Upload \/ Stream \/ ObjectsBreak \/ NoSuchBucket \/ RunDatabases
    \/ Done \/ Skip \/ Finish \/ Retry \/ Disturb \/ Judge

Spec == Init /\ [][Next]_vars

-----------------------------------------------------------------------------
(***************************************************************************)
(* What is promised.  A file keeps its path below the root, an object its  *)
(* key below the prefix; markers go only where keys do.                    *)
(***************************************************************************)
Planned(p) ==
    LET l == IF p.kind = "ssh" THEN ListFiles(Info(p).tree, Trim(p.srcPath))
             ELSE buildObjectMap(Info(p).tree, Prefix(p))
        straight == p.kind = p.dstType /\ p.strategy = "direct"
        goes == {r \in Paths(l) : /\ Kept(p.rules, Trim(r), l[r].size)
                                  /\ IsMarker(r) => straight}
    IN  Only(l, goes)

\* An upload and a download carry the content, not the time.
Carried(p, have, f) ==
    /\ have.size = f.size /\ have.sum = f.sum
    /\ (p.kind = "ssh" /\ p.dstType = "ssh") => have.time = f.time

\* rsync takes a file of the same size and time for the same file.
LooksLike(p, have, f) ==
    /\ p.kind = "ssh" /\ p.dstType = "ssh"
    /\ have.size = f.size /\ have.time = f.time

Settled(i) == why[i] = "done" /\ ~disturbed

\* Two cases in which more arrives than the rules let through.  Of the size bounds of
\* one direction rsync keeps the last: a file that only an earlier one excludes goes.
\* The marker of the copied folder itself lands as an object of the folder's name.
UpperBound(r) == r.op \in {">", ">="}
Surplus(p) ==
    LET l == Info(p).tree IN
    IF p.kind = "ssh"
    THEN LET files == ListFiles(l, Trim(p.srcPath)) IN
         {r \in Paths(files) : \E i, j \in 1..Len(p.rules) :
             /\ i < j /\ p.rules[i].type = "size" /\ p.rules[j].type = "size"
             /\ UpperBound(p.rules[i]) <=> UpperBound(p.rules[j])
             /\ sizeMatch(p.rules[i], files[r].size) /\ ~sizeMatch(p.rules[j], files[r].size)}
    ELSE IF p.dstType = "objectStorage" /\ p.strategy = "direct" /\ Prefix(p) \in Paths(l)
    THEN {<<Last(Trim(Prefix(p)))>>}
    ELSE {}

(***************************************************************************)
(* Every entry that ended well has put at its destination exactly the      *)
(* files its rules, read in order, let through, on top of what was there - *)
(* whichever of rsync and this program read them, however the work was     *)
(* split, broken off and tried again, and whatever the entries after it    *)
(* did.  What Surplus names may be there besides: of it nothing is said.   *)
(***************************************************************************)
SentAsPlanned ==
    \A i \in DOMAIN why :
        (Settled(i) /\ plan[i].kind # "dbms") =>
            LET p    == plan[i]
                have == Under(store[p.dst.id], Root(p))
                was  == Under(before[i], Root(p))
                must == Planned(p)
                more == Surplus(p) \ Paths(must)
            IN  /\ Paths(have) \ more = (Paths(was) \cup Paths(must)) \ more
                /\ \A r \in Paths(must) :
                       \/ Carried(p, have[r], must[r])
                       \/ r \in Paths(was) /\ have[r] = was[r] /\ LooksLike(p, was[r], must[r])
                /\ \A r \in Paths(was) \ (Paths(must) \cup more) : have[r] = was[r]

(***************************************************************************)
(* The validation reports nothing of an entry exactly when the destination *)
(* mirrors the source as far as the rules and the mode look: every file    *)
(* the rules let through is there and alike, and nothing is there that the *)
(* source has not.                                                         *)
(***************************************************************************)
Mirrors(p, mode) ==
    LET cross == p.kind # p.dstType
        all == IF p.kind = "ssh" THEN ListFiles(Info(p).tree, Trim(p.srcPath))
               ELSE buildObjectMap(Info(p).tree, Prefix(p))
        there == Under(store[p.dst.id], Root(p))
        src == IF cross THEN WithoutMarkers(all) ELSE all
        dst == IF cross THEN WithoutMarkers(there) ELSE there
    IN  /\ Paths(dst) \subseteq Paths(src)
        /\ \A r \in Paths(src) :
               Kept(p.rules, Trim(r), src[r].size) =>
                   r \in Paths(dst) /\ Alike(p, src[r], dst[r], mode)

VerdictTrue ==
    \A i \in DOMAIN findings :
        plan[i].kind # "dbms" =>
            (findings[i].found = {} <=> Mirrors(plan[i], findings[i].mode))

(***************************************************************************)
(* A request that is refused, an object too big for the store and keys     *)
(* that cannot be files are found before anything is written.              *)
(***************************************************************************)
RefusedTouchesNothing ==
    /\ phase \in {"refused", "unanswered"} => store = request.leftovers
    /\ \A i \in DOMAIN why :
           (why[i] \in {"keys", "limit", "bucket", "filter"} /\ ~disturbed
              /\ \A j \in DOMAIN why : j # i => plan[j].dst.id # plan[i].dst.id) =>
               store[plan[i].dst.id] = before[i]
=============================================================================
