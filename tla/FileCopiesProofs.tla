--------------------------- MODULE FileCopiesProofs ---------------------------
(***************************************************************************)
(* Proofs about FileCopies: what a request or an entry that is refused     *)
(* leaves behind, and where an entry writes at all.                        *)
(*                                                                         *)
(* Whether an entry passes the checks on its route depends on the entry    *)
(* alone (Fit).  Every stage behind the entry at work has passed its own   *)
(* (Passed), and the stage that writes is the last of its route            *)
(* (WritesAreLast), so that a destination is written to only for an entry  *)
(* that is Fit; and who was refused for a cause is not (Told).  A write    *)
(* lies on what was there and below the entry's root (OnlyIfFit), so that  *)
(* what a destination has not kept as it was is of an entry that was begun *)
(* and is Fit (Scoped).                                                    *)
(***************************************************************************)
EXTENDS FileCopies, TLAPS

-----------------------------------------------------------------------------
(* The checks of a route, as of the entry. *)

FilesOf(p) == ListFiles(Info(p).tree, Trim(p.srcPath))
SendsFile(p, r) == MatchPath(p.rules, r, FilesOf(p)[r].size, FALSE)
KeysOf(p) == ListObjects(Info(p).tree, Prefix(p))
SendsKey(p, k) == MatchPath(p.rules, Rel(Prefix(p), k), Info(p).tree[k].size, FALSE)

SizesOf(p) ==
    IF p.kind = "ssh" THEN {FilesOf(p)[r].size : r \in {x \in Paths(FilesOf(p)) : SendsFile(p, x)}}
    ELSE {Info(p).tree[k].size : k \in {x \in KeysOf(p) : keyUnderPrefix(Prefix(p), x) /\ SendsKey(p, x)}}

LocalOf(p) == objectLocalPaths(Prefix(p), {k \in KeysOf(p) : SendsKey(p, k)})

\* What a stage asks before it does its work.
Suits(step, p) ==
    /\ step \in {"rsync", "pull"} => rsyncFilterArgs(p.rules).ok
    /\ step = "download" => LocalOf(p).ok
    /\ step \in {"upload", "stream"} => HasBucket(p)
    /\ step = "preflight" => checkSinglePutLimit(SizesOf(p), Target[p.dst.id])

Fit(p) == \A k \in 1..Len(Transfer(p)) : Suits(Transfer(p)[k], p)

Writing == {"rsync", "push", "upload", "stream", "database"}

-----------------------------------------------------------------------------
(* The invariant. *)

Begun == {"running", "moved", "judged"}

\* Where the work stands.
Placed ==
    /\ request \in Requests
    /\ Len(plan) \in Nat /\ at \in Nat \ {0} /\ stage \in Nat
    /\ DOMAIN why = 1..Len(plan)
    /\ \A i \in 1..Len(plan) : plan[i].dst.id \in DOMAIN store
    /\ phase \in Begun \cup {"asked", "refused", "unanswered"}
    /\ stage # 0 => running
    /\ phase \notin Begun => store = request.leftovers /\ plan = <<>> /\ stage = 0

\* What is behind the entry at work.
Passed ==
    stage # 0 => /\ stage <= Len(Transfer(P))
                 /\ \A k \in 1..stage : Suits(Transfer(P)[k], P)

Causes == {"keys", "limit", "bucket", "filter"}
Told == \A i \in 1..Len(plan) : why[i] \in Causes => ~Fit(plan[i])

Alone(i) == \A j \in 1..Len(plan) : j # i => plan[j].dst.id # plan[i].dst.id

\* Nothing is written for an entry that does not pass.
Untouched ==
    \A i \in 1..Len(plan) :
        ~disturbed /\ Alone(i) /\ ~Fit(plan[i]) => store[plan[i].dst.id] = before[i]

\* Where an entry may write: databases by their names, a file or an object
\* below the entry's root.
Reaches(p, q) ==
    IF p.kind = "dbms" THEN \E k \in 1..Len(p.dbs) : q = <<p.dbs[k].dst>>
    ELSE \E root \in {Root(p), Root(p) \o Landing(p.srcPath)} :
             \E r : q = root \o r \/ \E mark : q = (root \o r) \o mark

Started(j) == why[j] # "" \/ (running /\ at = j)
WrittenFor(j, d, q) ==
    plan[j].dst.id = d /\ Started(j) /\ Fit(plan[j]) /\ Reaches(plan[j], q)

\* Nothing goes, and nothing else comes or changes.
Scoped ==
    ~disturbed =>
        \A i \in 1..Len(plan) :
            LET now == store[plan[i].dst.id]
            IN  /\ Paths(before[i]) \subseteq Paths(now)
                /\ \A q \in Paths(now) :
                       \/ q \in Paths(before[i]) /\ now[q] = before[i][q]
                       \/ \E j \in 1..Len(plan) : WrittenFor(j, plan[i].dst.id, q)

RefusalInv == Placed /\ Passed /\ Told /\ Untouched /\ Scoped

-----------------------------------------------------------------------------
(* Routes. *)

Routes == {<<"database">>, <<"pull", "push">>, <<"rsync">>, <<"preflight", "stream">>,
           <<"preflight", "download", "upload">>, <<"preflight", "pull", "upload">>,
           <<"download", "push">>}

\* Every entry takes one of seven routes.
LEMMA RouteOf == ASSUME NEW p PROVE Transfer(p) \in Routes
  BY DEF Transfer, Routes, planFilesystemTransfer, planFilesystemToObjectStorage,
         planObjectStorageToFilesystem, planObjectStorageTransfer

\* What reaches a destination goes there in the last stage of its route.
LEMMA WritesAreLast ==
    ASSUME NEW p, NEW s \in Nat, s < Len(Transfer(p)), Transfer(p)[s + 1] \in Writing
    PROVE  s + 1 = Len(Transfer(p))
<1>1. PICK t \in Routes : t = Transfer(p)
  BY RouteOf
<1>2. s < Len(t) /\ t[s + 1] \in Writing
  BY <1>1
<1>3. CASE Len(t) = 1
  BY <1>1, <1>2, <1>3
<1>4. CASE t \in {<<"pull", "push">>, <<"preflight", "stream">>, <<"download", "push">>}
  <2>1. Len(t) = 2 /\ t[1] \notin Writing
    BY <1>4 DEF Writing
  <2> QED BY <1>1, <1>2, <2>1
<1>5. CASE t \in {<<"preflight", "download", "upload">>, <<"preflight", "pull", "upload">>}
  <2>1. Len(t) = 3 /\ t[1] \notin Writing /\ t[2] \notin Writing
    BY <1>5 DEF Writing
  <2> QED BY <1>1, <1>2, <2>1
<1>6. CASE t \in {<<"database">>, <<"rsync">>}
  BY <1>3, <1>6
<1> QED BY <1>1, <1>4, <1>5, <1>6 DEF Routes

\* The checks the actions make of the entry at work are those of the entry.
LEMMA ChecksAreOfEntry ==
    /\ Args = rsyncFilterArgs(P.rules)
    /\ Local = LocalOf(P)
    /\ Sizes = SizesOf(P)
<1>1. Args = rsyncFilterArgs(P.rules)
  BY DEF Args
<1>2. Local = LocalOf(P)
  BY DEF Local, LocalOf, Matched, SourceKeys, KeysOf, Chosen, SendsKey, Object
<1>3. fsSizes = {FilesOf(P)[r].size : r \in {x \in Paths(FilesOf(P)) : SendsFile(P, x)}}
  BY DEF fsSizes, KeptFiles, SourceFiles, FilesOf, SendsFile
<1>4. objectSizes = {Info(P).tree[k].size :
                        k \in {x \in KeysOf(P) : keyUnderPrefix(Prefix(P), x) /\ SendsKey(P, x)}}
  BY DEF objectSizes, StreamSet, SourceKeys, KeysOf, Chosen, SendsKey, Object
<1>5. Sizes = SizesOf(P)
  BY <1>3, <1>4 DEF Sizes, SizesOf
<1> QED BY <1>1, <1>2, <1>5

\* The stage at work is one of the entry's route.
LEMMA StageOfRoute ==
    ASSUME stage \in Nat, Stage # "end"
    PROVE  stage < Len(Transfer(P)) /\ Stage = Transfer(P)[stage + 1]
<1>1. stage < Len(Transfer(P))
  BY DEF Stage
<1> QED BY <1>1 DEF Stage

\* An entry whose last stage passes its check has passed them all.
LEMMA LastPasses ==
    ASSUME Placed, Passed, running, Stage \in Writing, Suits(Stage, P)
    PROVE  Fit(P)
<1>1. stage \in Nat
  BY DEF Placed
<1>2. stage < Len(Transfer(P)) /\ Stage = Transfer(P)[stage + 1]
  BY <1>1, StageOfRoute DEF Writing
<1>3. stage + 1 = Len(Transfer(P))
  BY <1>1, <1>2, WritesAreLast
<1> SUFFICES ASSUME NEW k \in 1..Len(Transfer(P)) PROVE Suits(Transfer(P)[k], P)
  BY DEF Fit
<1>4. CASE k = stage + 1
  BY <1>2, <1>4
<1>5. CASE k # stage + 1
  BY <1>1, <1>3, <1>5 DEF Passed
<1> QED BY <1>4, <1>5

-----------------------------------------------------------------------------
(* The moves of an entry. *)

\* An entry that does not pass a check on its route is not fit.
LEMMA NotFit ==
    ASSUME Placed, Stage # "end", ~Suits(Stage, P)
    PROVE  ~Fit(P)
<1>1. stage < Len(Transfer(P)) /\ Stage = Transfer(P)[stage + 1] /\ stage \in Nat
  BY StageOfRoute DEF Placed
<1>2. Len(Transfer(P)) \in Nat
  BY RouteOf DEF Routes
<1>3. stage + 1 \in 1..Len(Transfer(P))
  BY <1>1, <1>2
<1> QED BY <1>1, <1>3 DEF Fit

\* A tree with something laid on it where the entry at work may write.
Laid(old, new) ==
    /\ Paths(old) \subseteq Paths(new)
    /\ \A q \in Paths(new) : Reaches(P, q) \/ (q \in Paths(old) /\ new[q] = old[q])

\* Nothing but the entry's own destination is written to, and that only when
\* the entry is fit.
OnlyIfFit ==
    /\ DOMAIN store' = DOMAIN store
    /\ \A h \in DOMAIN store : h # P.dst.id => store'[h] = store[h]
    /\ store' = store \/ (Fit(P) /\ Laid(DstTree, store'[P.dst.id]))

\* A step that writes as the model's actions do keeps to that.
LEMMA WriteIfFit ==
    ASSUME RefusalInv, running, Fit(P), NEW new, Write(Onto(DstTree, new)),
           \A q \in Paths(new) : Reaches(P, q)
    PROVE  OnlyIfFit
<1>1. P.dst.id \in DOMAIN store
  BY DEF RefusalInv, Placed, running, P
<1>2. store' = [store EXCEPT ![P.dst.id] = Onto(DstTree, new)]
  BY DEF Write
<1>3. store'[P.dst.id] = Onto(DstTree, new)
  BY <1>1, <1>2
<1>4. Laid(DstTree, Onto(DstTree, new))
  BY DEF Laid, Onto, Paths
<1> QED BY <1>2, <1>3, <1>4 DEF OnlyIfFit

LEMMA NoWrite == ASSUME store' = store PROVE OnlyIfFit
  BY DEF OnlyIfFit

\* A database entry has one stage, and no other entry has that one.
LEMMA StageOfKind ==
    ASSUME Placed, Stage # "end"
    PROVE  P.kind = "dbms" <=> Stage = "database"
<1>1. stage < Len(Transfer(P)) /\ Stage = Transfer(P)[stage + 1] /\ stage \in Nat
  BY StageOfRoute DEF Placed
<1>2. CASE P.kind = "dbms"
  <2>1. Transfer(P) = <<"database">>
    BY <1>2 DEF Transfer
  <2> QED BY <1>1, <1>2, <2>1
<1>3. CASE P.kind # "dbms"
  <2>1. Transfer(P) \in {planFilesystemTransfer(P), planFilesystemToObjectStorage(P),
                         planObjectStorageToFilesystem(P), planObjectStorageTransfer(P)}
    BY <1>3, Zenon DEF Transfer
  <2> DEFINE others == {<<"pull", "push">>, <<"rsync">>, <<"preflight", "stream">>,
                        <<"preflight", "download", "upload">>,
                        <<"preflight", "pull", "upload">>, <<"download", "push">>}
  <2>2. Transfer(P) \in others
    BY <2>1 DEF planFilesystemTransfer, planFilesystemToObjectStorage,
                planObjectStorageToFilesystem, planObjectStorageTransfer
  <2>3. ASSUME NEW t \in others, NEW k \in 1..Len(t) PROVE t[k] # "database"
    OBVIOUS
  <2> HIDE DEF others
  <2>4. stage + 1 \in 1..Len(Transfer(P))
    <3>1. Len(Transfer(P)) \in Nat
      BY RouteOf DEF Routes
    <3> QED BY <1>1, <3>1
  <2> QED BY <1>1, <1>3, <2>2, <2>3, <2>4
<1> QED BY <1>2, <1>3

LEMMA BelowRoot ==
    ASSUME NEW p, p.kind # "dbms", NEW r, NEW mark, NEW q, q = (Root(p) \o r) \o mark
    PROVE  Reaches(p, q)
<1>1. \E s, m : q = (Root(p) \o s) \o m
  BY Zenon
<1>2. \E root \in {Root(p), Root(p) \o Landing(p.srcPath)} :
         \E s : q = root \o s \/ \E m : q = (root \o s) \o m
  BY <1>1, Zenon
<1> QED BY <1>2 DEF Reaches

\* rsync writes below the root it is given.
LEMMA RsyncReaches ==
    ASSUME P.kind # "dbms", NEW tree, NEW from, NEW S,
           NEW root \in {Root(P), DstRoot}
    PROVE  \E new : /\ Rsynced(tree, root, from, S) = Onto(tree, new)
                    /\ \A q \in Paths(new) : Reaches(P, q)
<1> DEFINE sent == At(root, Only(from, S))
           new == [q \in Paths(sent) |->
                      IF q \in Paths(tree) /\ tree[q].size = sent[q].size
                                           /\ tree[q].time = sent[q].time
                      THEN tree[q] ELSE sent[q]]
<1>1. Rsynced(tree, root, from, S) = Onto(tree, new)
  BY DEF Rsynced
<1>2. ASSUME NEW q \in Paths(new) PROVE Reaches(P, q)
  <2>1. q \in {root \o r : r \in Paths(Only(from, S))}
    BY DEF Paths, At
  <2>2. PICK r : q = root \o r
    BY <2>1
  <2> QED BY <2>2 DEF Reaches, DstRoot
<1> QED BY <1>1, <1>2

\* An upload writes below the entry's root.
LEMMA UploadReaches ==
    ASSUME P.kind # "dbms", NEW S
    PROVE  \E new : /\ Uploaded(S) = Onto(DstTree, new)
                    /\ \A q \in Paths(new) : Reaches(P, q)
<1> DEFINE new == [q \in {UploadKey(l) : l \in S} |->
                      Stored(staging[CHOOSE l \in S : UploadKey(l) = q], "now")]
<1>1. Uploaded(S) = Onto(DstTree, new)
  BY DEF Uploaded
<1>2. \A q \in Paths(new) : Reaches(P, q)
  BY DEF Paths, UploadKey, Reaches
<1> QED BY <1>1, <1>2

\* So does the transfer of objects one by one.
LEMMA StreamReaches ==
    ASSUME P.kind # "dbms", NEW S
    PROVE  \E new : /\ Streamed(S) = Onto(DstTree, new)
                    /\ \A q \in Paths(new) : Reaches(P, q)
<1> DEFINE new == [q \in {streamDstKey(k) : k \in S} |->
                      Stored(Object(CHOOSE k \in S : streamDstKey(k) = q), "now")]
<1>1. Streamed(S) = Onto(DstTree, new)
  BY DEF Streamed
<1>2. ASSUME NEW k \in S PROVE Reaches(P, streamDstKey(k))
  <2> DEFINE rel == TrimKey(Prefix(P), k)
             is == IF rel = <<>> THEN Trim(<<Last(Trim(k))>>) ELSE rel
             mark == IF IsMarker(is) THEN <<"">> ELSE <<>>
  <2>1. streamDstKey(k) = (Root(P) \o Trim(is)) \o mark
    BY DEF streamDstKey
  <2> HIDE DEF is, mark
  <2> QED BY <2>1, BelowRoot
<1>3. \A q \in Paths(new) : Reaches(P, q)
  BY <1>2 DEF Paths
<1> HIDE DEF new
<1> QED BY <1>1, <1>3

\* Such a step leaves alone the destination of an entry that is not fit.
LEMMA WorkKeepsUntouched ==
    ASSUME RefusalInv, running, Keep, OnlyIfFit
    PROVE  Untouched'
<1> USE DEF RefusalInv
<1>1. plan' = plan /\ before' = before /\ disturbed' = disturbed
  BY DEF Keep
<1>2. at \in 1..Len(plan)
  BY DEF Placed, running
<1> SUFFICES ASSUME NEW i \in 1..Len(plan), ~disturbed, Alone(i), ~Fit(plan[i])
             PROVE  store'[plan[i].dst.id] = before[i]
  BY <1>1 DEF Untouched, Alone, Fit
<1>3. store[plan[i].dst.id] = before[i]
  BY DEF Untouched
<1>4. CASE i = at
  BY <1>3, <1>4 DEF OnlyIfFit, P
<1>5. CASE i # at
  <2>1. plan[i].dst.id # P.dst.id
    BY <1>2, <1>5 DEF Alone, P
  <2> QED BY <1>3, <2>1 DEF OnlyIfFit, Placed
<1> QED BY <1>4, <1>5

\* What it writes is of the entry.
LEMMA WorkKeepsScoped ==
    ASSUME RefusalInv, running, Keep, OnlyIfFit,
           \A j \in 1..Len(plan) : Started(j) => Started(j)'
    PROVE  Scoped'
<1> USE DEF RefusalInv
<1>1. plan' = plan /\ before' = before /\ disturbed' = disturbed
  BY DEF Keep
<1>2. at \in 1..Len(plan)
  BY DEF Placed, running
<1>3. ASSUME NEW j \in 1..Len(plan), NEW d, NEW q, WrittenFor(j, d, q)
      PROVE  WrittenFor(j, d, q)'
  BY <1>1, <1>3 DEF WrittenFor, Fit, Suits, Reaches
<1>4. ASSUME Fit(P), NEW q, Reaches(P, q), NEW d, d = P.dst.id
      PROVE  \E j \in 1..Len(plan) : WrittenFor(j, d, q)'
  <2>1. PICK j \in 1..Len(plan) : j = at
    BY <1>2
  <2>2. WrittenFor(j, d, q)
    BY <1>4, <2>1 DEF WrittenFor, Started, P
  <2> QED BY <1>3, <2>2
<1> SUFFICES ASSUME NEW i \in 1..Len(plan), ~disturbed, NEW h, h = plan[i].dst.id
             PROVE  /\ Paths(before[i]) \subseteq Paths(store'[h])
                    /\ \A q \in Paths(store'[h]) :
                          \/ q \in Paths(before[i]) /\ store'[h][q] = before[i][q]
                          \/ \E j \in 1..Len(plan) : WrittenFor(j, h, q)'
  BY <1>1 DEF Scoped, Paths
<1> DEFINE Written(q) == \E j \in 1..Len(plan) : WrittenFor(j, h, q)'
<1>5. h \in DOMAIN store /\ Paths(before[i]) \subseteq Paths(store[h])
  BY DEF Scoped, Placed
<1>6. ASSUME NEW q \in Paths(store[h])
      PROVE  (q \in Paths(before[i]) /\ store[h][q] = before[i][q]) \/ Written(q)
  <2>1. \/ q \in Paths(before[i]) /\ store[h][q] = before[i][q]
        \/ \E j \in 1..Len(plan) : WrittenFor(j, h, q)
    BY DEF Scoped
  <2> QED BY <1>3, <2>1
<1>7. ASSUME h = P.dst.id, Fit(P), NEW q, Reaches(P, q) PROVE Written(q)
  BY <1>4, <1>7
<1> HIDE DEF Written
<1>8. CASE store'[h] = store[h]
  BY <1>5, <1>6, <1>8 DEF Written
<1>9. CASE store'[h] # store[h]
  <2>1. h = P.dst.id /\ Fit(P) /\ Laid(store[h], store'[h])
    BY <1>5, <1>9 DEF OnlyIfFit, DstTree
  <2>2. ASSUME NEW q \in Paths(store'[h])
        PROVE  (q \in Paths(before[i]) /\ store'[h][q] = before[i][q]) \/ Written(q)
    BY <1>6, <1>7, <2>1 DEF Laid
  <2> QED BY <1>5, <2>1, <2>2 DEF Laid, Written
<1> QED BY <1>8, <1>9

\* One more stage is behind the entry.
LEMMA StagePassed ==
    ASSUME RefusalInv, running, Keep, OnlyIfFit, Stage # "end", Suits(Stage, P),
           MoveOn, at' = at, why' = why
    PROVE  RefusalInv'
<1> USE DEF RefusalInv
<1>1. /\ request' = request /\ plan' = plan /\ phase' = phase /\ P' = P
      /\ stage' = stage + 1 /\ stage \in Nat
  BY DEF Keep, MoveOn, P, Placed
<1>2. Placed'
  BY <1>1 DEF Placed, running, OnlyIfFit, Begun
<1>3. Passed'
  <2>1. stage < Len(Transfer(P)) /\ Stage = Transfer(P)[stage + 1]
    BY <1>1, StageOfRoute
  <2>2. Len(Transfer(P)) \in Nat
    BY RouteOf DEF Routes
  <2>3. \A k \in 1..stage : Suits(Transfer(P)[k], P)
    BY <1>1 DEF Passed
  <2>4. \A k \in 1..(stage + 1) : Suits(Transfer(P)[k], P)
    BY <1>1, <2>1, <2>3
  <2> QED BY <1>1, <2>1, <2>2, <2>4 DEF Passed, Suits
<1>4. Told'
  BY <1>1 DEF Told, Fit, Suits
<1>5. Untouched'
  BY WorkKeepsUntouched
<1>6. Scoped'
  BY <1>1, WorkKeepsScoped DEF Started, running
<1> QED BY <1>2, <1>3, <1>4, <1>5, <1>6

\* The entry ends, and says the truth of why.
Truthful(reason) == reason # "" /\ (reason \in Causes => ~Fit(P))

LEMMA EntryEnded ==
    ASSUME RefusalInv, running, Keep, OnlyIfFit, NEW reason, End(reason),
           Truthful(reason)
    PROVE  RefusalInv'
<1> USE DEF RefusalInv
<1>1. /\ request' = request /\ plan' = plan /\ phase' = phase
      /\ why' = [why EXCEPT ![at] = reason] /\ at' = at + 1 /\ stage' = 0
  BY DEF Keep, End
<1>2. Placed'
  <2>1. DOMAIN store' = DOMAIN store
    BY DEF OnlyIfFit
  <2> QED BY <1>1, <2>1 DEF Placed, running, Begun
<1>3. Passed'
  BY <1>1 DEF Passed
<1>4. Told'
  <2>1. reason \in Causes => ~Fit(P)
    BY DEF Truthful
  <2> QED BY <1>1, <2>1 DEF Told, Placed, P
<1>5. Untouched'
  BY WorkKeepsUntouched
<1>6. Scoped'
  <2>1. \A j \in 1..Len(plan) : Started(j) => Started(j)'
    BY <1>1 DEF Started, Placed, Truthful
  <2> QED BY <2>1, WorkKeepsScoped
<1> QED BY <1>2, <1>3, <1>4, <1>5, <1>6

\* Work goes on within a stage.
LEMMA WithinStage ==
    ASSUME RefusalInv, running, Keep, OnlyIfFit, UNCHANGED <<at, stage, why>>
    PROVE  RefusalInv'
<1> USE DEF RefusalInv
<1>1. request' = request /\ plan' = plan /\ phase' = phase /\ P' = P
  BY DEF Keep, P
<1>2. Placed'
  BY <1>1 DEF Placed, running, OnlyIfFit, Begun
<1>3. Passed' /\ Told'
  BY <1>1 DEF Passed, Told
<1>4. Untouched'
  BY WorkKeepsUntouched
<1>5. Scoped'
  BY <1>1, WorkKeepsScoped DEF Started, running
<1> QED BY <1>2, <1>3, <1>4, <1>5

\* An entry of a plan is a copy for the entry of the request, or none.
CopyFor(e, p) == p \in {Refused, Unanswered} \/ \E path, dst, dbs : p = Copy(e, path, dst, dbs)

LEMMA FileSystemEntryIsCopy ==
    ASSUME NEW e, NEW info, NEW ans PROVE CopyFor(e, buildFileSystemEntry(e, info, ans))
  BY DEF CopyFor, buildFileSystemEntry

LEMMA ObjectStorageEntryIsCopy ==
    ASSUME NEW e, NEW info, NEW ans PROVE CopyFor(e, buildObjectStorageEntry(e, info, ans))
  BY DEF CopyFor, buildObjectStorageEntry

LEMMA DBEntryIsCopy ==
    ASSUME NEW e, NEW info, NEW ans PROVE CopyFor(e, buildDBEntry(e, info, ans))
  BY DEF CopyFor, buildDBEntry

LEMMA EntryIsCopy ==
    ASSUME NEW e, NEW ans, Source[e.src.id].kind \in {"ssh", "objectStorage", "dbms"}
    PROVE  CopyFor(e, Build(e, ans))
<1>1. CASE Source[e.src.id].kind = "ssh"
  <2>1. Build(e, ans) = buildFileSystemEntry(e, Source[e.src.id], ans)
    BY <1>1, Zenon DEF Build
  <2> QED BY <2>1, FileSystemEntryIsCopy
<1>2. CASE Source[e.src.id].kind = "objectStorage"
  <2>1. Build(e, ans) = buildObjectStorageEntry(e, Source[e.src.id], ans)
    BY <1>2, Zenon DEF Build
  <2> QED BY <2>1, ObjectStorageEntryIsCopy
<1>3. CASE Source[e.src.id].kind = "dbms"
  <2>1. Build(e, ans) = buildDBEntry(e, Source[e.src.id], ans)
    BY <1>3, Zenon DEF Build
  <2> QED BY <2>1, DBEntryIsCopy
<1> QED BY <1>1, <1>2, <1>3

LEMMA EnteredIsCopy ==
    ASSUME NEW req, NEW e, NEW ans, Source[e.src.id].kind \in {"ssh", "objectStorage", "dbms"}
    PROVE  CopyFor(e, Entered(req, e, ans))
  BY EntryIsCopy DEF Entered, CopyFor

\* Of a planned request every entry keeps the destination it asked for, wherever in
\* the plan it comes.
LEMMA PlanKeepsDestinations ==
    ASSUME NEW req \in Requests, NEW ans,
           BuildTargetDataMigrationModel(req, ans) = "planned",
           NEW order \in [1..Len(req.plans) -> 1..Len(req.plans)],
           NEW i \in 1..Len(req.plans)
    PROVE  PlanOf(req, order, ans)[i].dst = req.plans[order[i]].dst
<1> DEFINE e == req.plans[order[i]]
           p == Entered(req, e, ans)
<1>1. PlanOf(req, order, ans)[i] = p
  BY DEF PlanOf
<1>2. p.ok
  BY DEF BuildTargetDataMigrationModel
<1>3. CopyFor(e, p)
  BY EnteredIsCopy, RequestAssumption
<1> HIDE DEF p
<1>4. p \notin {Refused, Unanswered}
  BY <1>2 DEF Refused, Unanswered
<1>5. PICK path, dst, dbs : p = Copy(e, path, dst, dbs)
  BY <1>3, <1>4 DEF CopyFor
<1>6. p.dst = e.dst
  BY <1>5 DEF Copy
<1> QED BY <1>1, <1>6

-----------------------------------------------------------------------------
(* The steps. *)

LEMMA GetTargetPlanKeeps == ASSUME RefusalInv, GetTargetPlan PROVE RefusalInv'
<1> USE DEF RefusalInv
<1> DEFINE answer == BuildTargetDataMigrationModel(request, answers)
<1>1. /\ request' = request /\ at' = at /\ stage' = stage /\ store' = store
      /\ stage = 0 /\ plan = <<>> /\ store = request.leftovers /\ request \in Requests
  BY DEF GetTargetPlan, Placed, Begun
<1>2. CASE answer = "planned"
  <2> PICK order \in [1..Len(request.plans) -> 1..Len(request.plans)] :
        plan' = PlanOf(request, order, answers)
    BY <1>2 DEF GetTargetPlan
  <2>1. /\ plan' = PlanOf(request, order, answers) /\ phase' = "running"
        /\ why' = [i \in 1..Len(plan') |-> ""]
        /\ before' = [i \in 1..Len(plan') |-> store[plan'[i].dst.id]]
    BY <1>2 DEF GetTargetPlan
  <2>2. Len(plan') = Len(request.plans) /\ Len(plan') \in Nat
    <3> DEFINE n == Len(request.plans)
    <3>1. n \in Nat
      BY <1>1, RequestAssumption
    <3>2. plan' = [i \in 1..n |-> Entered(request, request.plans[order[i]], answers)]
      BY <2>1 DEF PlanOf
    <3> HIDE DEF n
    <3>3. Len(plan') = n
      BY <3>1, <3>2
    <3> QED BY <3>1, <3>3 DEF n
  <2>3. ASSUME NEW i \in 1..Len(plan') PROVE plan'[i].dst.id \in DOMAIN store
    <3>1. i \in 1..Len(request.plans) /\ order[i] \in 1..Len(request.plans)
      BY <2>2
    <3>2. plan'[i].dst = request.plans[order[i]].dst
      <4>1. PlanOf(request, order, answers)[i].dst = request.plans[order[i]].dst
        BY <1>1, <1>2, <3>1, PlanKeepsDestinations, Zenon
      <4> QED BY <2>1, <4>1, Zenon
    <3> QED BY <1>1, <3>1, <3>2, RequestAssumption
  <2>4. Placed'
    BY <1>1, <2>1, <2>2, <2>3 DEF Placed, Begun
  <2>5. Passed' /\ Told'
    BY <1>1, <2>1 DEF Passed, Told, Causes
  <2>6. Untouched' /\ Scoped'
    BY <1>1, <2>1 DEF Untouched, Scoped
  <2> QED BY <2>4, <2>5, <2>6
<1>3. CASE answer # "planned"
  <2>1. phase' = answer /\ plan' = plan /\ why' = why /\ before' = before /\ Len(plan) = 0
    BY <1>1, <1>3 DEF GetTargetPlan
  <2>2. answer \in {"refused", "unanswered"}
    BY <1>3 DEF BuildTargetDataMigrationModel
  <2>3. Placed'
    BY <1>1, <2>1, <2>2 DEF Placed, Begun
  <2>4. Passed' /\ Told' /\ Untouched' /\ Scoped'
    BY <1>1, <2>1 DEF Passed, Told, Untouched, Scoped
  <2> QED BY <2>3, <2>4
<1> QED BY <1>2, <1>3

LEMMA PreflightKeeps == ASSUME RefusalInv, Preflight PROVE RefusalInv'
<1> USE DEF Preflight
<1>1. Sizes = SizesOf(P)
  BY ChecksAreOfEntry
<1>2. CASE checkSinglePutLimit(Sizes, Target[P.dst.id])
  BY <1>1, <1>2, NoWrite, StagePassed DEF Suits
<1>3. CASE ~checkSinglePutLimit(Sizes, Target[P.dst.id])
  BY <1>1, <1>3, NoWrite, NotFit, EntryEnded DEF RefusalInv, Suits, Fails, Truthful
<1> QED BY <1>2, <1>3

LEMMA runShardsKeeps == ASSUME RefusalInv, runShards PROVE RefusalInv'
<1>1. rsyncFilterArgs(P.rules).ok
  BY ChecksAreOfEntry DEF runShards
<1>2. CASE Stage = "rsync"
  <2>1. Fit(P)
    BY <1>1, <1>2, LastPasses DEF RefusalInv, runShards, Suits, Writing
  <2>2. PICK S : Write(Rsynced(DstTree, DstRoot, SourceFiles, S))
    BY <1>2 DEF runShards
  <2>3. P.kind # "dbms"
    BY <1>2, StageOfKind DEF RefusalInv
  <2>4. OnlyIfFit
    BY <2>1, <2>2, <2>3, RsyncReaches, WriteIfFit DEF runShards
  <2> QED BY <2>4, WithinStage DEF runShards
<1>3. CASE Stage # "rsync"
  BY <1>3, NoWrite, WithinStage DEF runShards
<1> QED BY <1>2, <1>3

LEMMA RsyncKeeps == ASSUME RefusalInv, Rsync PROVE RefusalInv'
<1>1. Suits(Stage, P) /\ Stage # "end"
  BY ChecksAreOfEntry DEF Rsync, Suits
<1>2. Fit(P)
  BY <1>1, LastPasses DEF RefusalInv, Rsync, Writing
<1>3. P.kind # "dbms"
  BY <1>1, StageOfKind DEF RefusalInv, Rsync
<1>4. OnlyIfFit
  BY <1>2, <1>3, RsyncReaches, WriteIfFit DEF Rsync
<1> QED BY <1>1, <1>4, StagePassed DEF Rsync

LEMMA PullKeeps == ASSUME RefusalInv, Pull PROVE RefusalInv'
<1>1. Suits(Stage, P) /\ Stage # "end"
  BY ChecksAreOfEntry DEF Pull, Suits
<1> QED BY <1>1, NoWrite, StagePassed DEF Pull

LEMMA PushKeeps == ASSUME RefusalInv, Push PROVE RefusalInv'
<1>1. Suits(Stage, P) /\ Stage # "end"
  BY DEF Push, Suits
<1>2. Fit(P)
  BY <1>1, LastPasses DEF RefusalInv, Push, Writing
<1>3. P.kind # "dbms"
  BY <1>1, StageOfKind DEF RefusalInv, Push
<1>4. OnlyIfFit
  BY <1>2, <1>3, RsyncReaches, WriteIfFit DEF Push
<1> QED BY <1>1, <1>4, StagePassed DEF Push

LEMMA rsyncFilterErrorKeeps == ASSUME RefusalInv, rsyncFilterError PROVE RefusalInv'
<1>1. ~Suits(Stage, P) /\ Stage # "end"
  BY ChecksAreOfEntry DEF rsyncFilterError, Suits
<1> QED BY <1>1, NotFit, NoWrite, EntryEnded DEF RefusalInv, rsyncFilterError, Fails, Truthful

LEMMA RsyncBreaksKeeps == ASSUME RefusalInv, RsyncBreaks PROVE RefusalInv'
<1>1. Suits(Stage, P) /\ Stage \in Writing
  BY ChecksAreOfEntry DEF RsyncBreaks, Suits, Writing
<1>2. Fit(P)
  BY <1>1, LastPasses DEF RefusalInv, RsyncBreaks
<1>3. PICK root, from, S :
         root \in {Root(P), DstRoot} /\ Write(Rsynced(DstTree, root, from, S))
  BY DEF RsyncBreaks
<1>4. P.kind # "dbms"
  BY <1>1, StageOfKind DEF RefusalInv, RsyncBreaks
<1>5. OnlyIfFit
  BY <1>2, <1>3, <1>4, RsyncReaches, WriteIfFit DEF RsyncBreaks
<1> QED BY <1>5, EntryEnded DEF RsyncBreaks, Causes, Truthful

LEMMA DownloadKeeps == ASSUME RefusalInv, Download PROVE RefusalInv'
<1>1. Suits(Stage, P) /\ Stage # "end"
  BY ChecksAreOfEntry DEF Download, Suits
<1> QED BY <1>1, NoWrite, StagePassed DEF Download

LEMMA DownloadRefusedKeeps == ASSUME RefusalInv, DownloadRefused PROVE RefusalInv'
<1>1. ~Suits(Stage, P) /\ Stage # "end"
  BY ChecksAreOfEntry DEF DownloadRefused, Suits
<1> QED BY <1>1, NotFit, NoWrite, EntryEnded DEF RefusalInv, DownloadRefused, Fails, Truthful

LEMMA FetchBreaksKeeps == ASSUME RefusalInv, FetchBreaks PROVE RefusalInv'
  BY NoWrite, EntryEnded DEF FetchBreaks, Causes, Truthful

LEMMA UploadKeeps == ASSUME RefusalInv, Upload PROVE RefusalInv'
<1>1. Suits(Stage, P) /\ Stage # "end"
  BY DEF Upload, Suits
<1>2. Fit(P)
  BY <1>1, LastPasses DEF RefusalInv, Upload, Writing
<1>3. P.kind # "dbms"
  BY <1>1, StageOfKind DEF RefusalInv, Upload
<1>4. OnlyIfFit
  BY <1>2, <1>3, UploadReaches, WriteIfFit DEF Upload
<1> QED BY <1>1, <1>4, StagePassed DEF Upload

LEMMA StreamKeeps == ASSUME RefusalInv, Stream PROVE RefusalInv'
<1>1. Suits(Stage, P) /\ Stage # "end"
  BY DEF Stream, Suits
<1>2. Fit(P)
  BY <1>1, LastPasses DEF RefusalInv, Stream, Writing
<1>3. P.kind # "dbms"
  BY <1>1, StageOfKind DEF RefusalInv, Stream
<1>4. OnlyIfFit
  BY <1>2, <1>3, StreamReaches, WriteIfFit DEF Stream
<1> QED BY <1>1, <1>4, StagePassed DEF Stream

LEMMA ObjectsBreakKeeps == ASSUME RefusalInv, ObjectsBreak PROVE RefusalInv'
<1>1. Suits(Stage, P) /\ Stage \in Writing
  BY DEF ObjectsBreak, Suits, Writing
<1>2. Fit(P)
  BY <1>1, LastPasses DEF RefusalInv, ObjectsBreak
<1>3. P.kind # "dbms"
  BY <1>1, StageOfKind DEF RefusalInv, ObjectsBreak
<1>4. PICK S : Write(Uploaded(S)) \/ Write(Streamed(S))
  BY DEF ObjectsBreak
<1>5. OnlyIfFit
  BY <1>2, <1>3, <1>4, UploadReaches, StreamReaches, WriteIfFit DEF ObjectsBreak
<1> QED BY <1>5, EntryEnded DEF ObjectsBreak, Causes, Truthful

LEMMA NoSuchBucketKeeps == ASSUME RefusalInv, NoSuchBucket PROVE RefusalInv'
<1>1. ~Suits(Stage, P) /\ Stage # "end"
  BY DEF NoSuchBucket, Suits
<1> QED BY <1>1, NotFit, NoWrite, EntryEnded DEF RefusalInv, NoSuchBucket, Fails, Truthful

LEMMA RunDatabasesKeeps == ASSUME RefusalInv, RunDatabases PROVE RefusalInv'
<1> DEFINE trouble == {DatabaseTrouble(P, P.dbs[i]) : i \in 1..Len(P.dbs)} \ {""}
<1>1. Suits(Stage, P) /\ Stage # "end"
  BY DEF RunDatabases, Suits
<1>2. CASE trouble # {}
  <2>1. PICK t \in trouble : Fails(t)
    BY <1>2 DEF RunDatabases
  <2>2. t \notin Causes /\ t # ""
    BY DEF DatabaseTrouble, Causes
  <2> QED BY <2>1, <2>2, NoWrite, EntryEnded DEF RunDatabases, Fails, Truthful
<1>3. CASE trouble = {}
  <2>1. Fit(P)
    BY <1>1, LastPasses DEF RefusalInv, RunDatabases, Writing
  <2>2. P.kind = "dbms"
    BY <1>1, StageOfKind DEF RefusalInv, RunDatabases
  <2> DEFINE new == [q \in {<<P.dbs[i].dst>> : i \in 1..Len(P.dbs)} |-> P.src.id]
  <2>3. Write(Onto(DstTree, new))
    BY <1>3 DEF RunDatabases
  <2>4. \A q \in Paths(new) : Reaches(P, q)
    BY <2>2 DEF Paths, Reaches
  <2>5. OnlyIfFit
    BY <2>1, <2>3, <2>4, WriteIfFit DEF RunDatabases
  <2> QED BY <1>1, <1>3, <2>5, StagePassed DEF RunDatabases
<1> QED BY <1>2, <1>3

LEMMA DoneKeeps == ASSUME RefusalInv, Done PROVE RefusalInv'
  BY NoWrite, EntryEnded DEF Done, Causes, Truthful

LEMMA OutsideKeeps ==
    ASSUME RefusalInv, Skip \/ Finish \/ Retry \/ Judge \/ UNCHANGED vars
    PROVE  RefusalInv'
<1> USE DEF RefusalInv
<1>1. /\ request' = request /\ plan' = plan /\ before' = before /\ store' = store
      /\ why' = why /\ stage' = stage /\ disturbed' = disturbed
  BY DEF Skip, Finish, Retry, Judge, vars, Keep
<1>2. Told' /\ Untouched' /\ Scoped'
  <2>1. Told' /\ Untouched'
    BY <1>1 DEF Told, Untouched, Alone
  <2>2. \A j \in 1..Len(plan) : Started(j) => Started(j)'
    <3>1. CASE UNCHANGED vars
      BY <1>1, <3>1 DEF Started, running, vars
    <3>2. CASE Skip \/ Finish \/ Retry \/ Judge
      <4>1. ~running
        BY <3>2 DEF running, Skip, Finish, Retry, Judge, Placed
      <4> QED BY <1>1, <4>1 DEF Started
    <3> QED BY <3>1, <3>2
  <2>3. ASSUME NEW j \in 1..Len(plan), NEW d, NEW q, WrittenFor(j, d, q)
        PROVE  WrittenFor(j, d, q)'
    BY <1>1, <2>2, <2>3 DEF WrittenFor, Fit, Suits, Reaches
  <2>4. Scoped'
    BY <1>1, <2>3 DEF Scoped
  <2> QED BY <2>1, <2>4
<1>3. CASE UNCHANGED vars
  BY <1>1, <1>2, <1>3 DEF Placed, Passed, running, Stage, P, vars
<1>4. CASE Skip \/ Finish \/ Retry \/ Judge
  <2>1. stage = 0
    BY <1>4 DEF Skip, Finish, Retry, Judge, Placed, running
  <2>2. Placed'
    BY <1>1, <1>4, <2>1 DEF Skip, Finish, Retry, Judge, Keep, Placed, Begun
  <2>3. Passed'
    BY <1>1, <2>1 DEF Passed
  <2> QED BY <1>2, <2>2, <2>3
<1> QED BY <1>3, <1>4

LEMMA DisturbKeeps == ASSUME RefusalInv, Disturb PROVE RefusalInv'
<1> USE DEF RefusalInv
<1>1. /\ request' = request /\ plan' = plan /\ why' = why /\ stage' = stage /\ at' = at
      /\ phase' = phase /\ phase = "moved" /\ disturbed'
  BY DEF Disturb
<1>2. DOMAIN store' = DOMAIN store
  BY DEF Disturb
<1>3. stage = 0
  BY <1>1 DEF Placed, running
<1>4. Placed'
  BY <1>1, <1>2, <1>3 DEF Placed, Begun
<1>5. Passed' /\ Told' /\ Untouched' /\ Scoped'
  BY <1>1, <1>3 DEF Passed, Told, Untouched, Scoped
<1> QED BY <1>4, <1>5

-----------------------------------------------------------------------------
(* The theorem. *)

LEMMA RefusalInvHolds == Spec => []RefusalInv
<1>1. Init => RefusalInv
  BY DEF Init, RefusalInv, Placed, Passed, Told, Untouched, Scoped, Begun, running
<1>2. RefusalInv /\ [Next]_vars => RefusalInv'
  BY GetTargetPlanKeeps, PreflightKeeps, runShardsKeeps, RsyncKeeps, PullKeeps, PushKeeps,
     rsyncFilterErrorKeeps, RsyncBreaksKeeps, DownloadKeeps, DownloadRefusedKeeps,
     FetchBreaksKeeps, UploadKeeps, StreamKeeps, ObjectsBreakKeeps, NoSuchBucketKeeps,
     RunDatabasesKeeps, DoneKeeps, OutsideKeeps, DisturbKeeps, Zenon DEF Next
<1> QED BY <1>1, <1>2, PTL DEF Spec

\* A request that is refused leaves every destination as it was, and so does an
\* entry that fails for keys that cannot be files, an object too big for the
\* store, a bucket that is not there or rules rsync cannot be told, whatever
\* breaks and is tried again (GetTargetPlan, S3Executor.download,
\* singlePutPreflight, buildLocalRsyncArgs).
THEOREM RefusalLeavesNoTrace == Spec => []RefusedTouchesNothing
<1>1. RefusalInv => RefusedTouchesNothing
  <2> SUFFICES ASSUME RefusalInv PROVE RefusedTouchesNothing
    OBVIOUS
  <2>1. phase \in {"refused", "unanswered"} => store = request.leftovers
    BY DEF RefusalInv, Placed, Begun
  <2>2. ASSUME NEW i \in DOMAIN why, why[i] \in Causes, ~disturbed,
               \A j \in DOMAIN why : j # i => plan[j].dst.id # plan[i].dst.id
        PROVE  store[plan[i].dst.id] = before[i]
    BY <2>2 DEF RefusalInv, Placed, Told, Untouched, Alone
  <2> QED BY <2>1, <2>2 DEF RefusedTouchesNothing, Causes
<1> QED BY <1>1, RefusalInvHolds, PTL

\* Whatever the rules say, however the work is split, broken off and tried
\* again, a migration removes nothing from a destination, and what has come or
\* changed there lies below the root - for a database, under the name - of an
\* entry that was begun and passes every check on its route: a file or object
\* elsewhere stays as it was (buildLocalRsyncArgs, which asks for no deletion,
\* S3Executor.upload, streamDstKey).
THEOREM WritesStayInScope == Spec => []Scoped
<1>1. RefusalInv => Scoped
  BY DEF RefusalInv
<1> QED BY <1>1, RefusalInvHolds, PTL
=============================================================================
