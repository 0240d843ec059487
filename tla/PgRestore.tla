------------------------------- MODULE PgRestore -------------------------------
(***************************************************************************)
(* The restore of a PostgreSQL dump over SQL (driver/postgresql             *)
(* restoreViaSQL).  The dump is read front to back on the restore's own     *)
(* connection; its COPY blocks are spooled to files and loaded over         *)
(* connections of their own (postgresql_parallel.go).  Foreign keys,        *)
(* triggers and early indexes are held back until the rows are in.          *)
(*                                                                          *)
(* A statement names others it cannot do without (needs): the table of an   *)
(* index, the rows of a foreign key, the index of a comment.  The server    *)
(* refuses it without them, and refuses one that names a schema that has    *)
(* been renamed.  Connection 0 is the restore's own, 1..n the copier's.     *)
(***************************************************************************)
EXTENDS Naturals, Sequences, FiniteSets

CONSTANTS
  Dumps,     \* the dumps restored: sequences of statements
  Conns      \* the connections a restore may load over (base.RestoreConnections)

VARIABLES
  dump, n,
  ctx, main, result,
  faulted,               \* something outside the restore went wrong
  copier,                \* "none" before the first COPY, then "open" or "refused"
  setup,                 \* the session statements run before the copier was there
  replica,               \* connections with session_replication_role = replica
  task, broken, free,    \* the loads of this group, whether one failed, idle connections
  copied, mem,           \* a COPY has been met; maintenance_work_mem has been raised
  postIndexes, postData, matViews,
  session, row, done     \* the server

copying == <<task, broken, free>>
deferred == <<copied, mem, postIndexes, postData, matViews>>
server == <<session, row, done>>
opened == <<copier, setup, replica>>
vars == <<dump, n, ctx, main, result, faulted, opened, copying, deferred, server>>

Stmt == dump[main.pos]
Is(i, kind) == dump[i].kind = kind
Copies == {i \in DOMAIN dump : Is(i, "copy")}
At(pc) == main.pc = pc
Goto(pc) == main' = [main EXCEPT !.pc = pc]
NextStmt == main' = [pc |-> "read", pos |-> main.pos + 1]
Active == {i \in Copies : task[i] \in {"started", "loading"}}

Init ==
  /\ dump \in Dumps /\ n \in Conns
  /\ ctx = FALSE /\ main = [pc |-> "read", pos |-> 1] /\ result = "none" /\ faulted = FALSE
  /\ copier = "none" /\ setup = <<>>
  /\ replica \in {{}, {0}}     \* attempted, not required
  /\ task = [i \in Copies |-> "none"] /\ broken = FALSE /\ free = 0
  /\ copied = FALSE /\ mem = "own"
  /\ postIndexes = <<>> /\ postData = <<>> /\ matViews = <<>>
  /\ session = [c \in 0 .. n |-> "default"]
  /\ row = [i \in Copies |-> [in |-> FALSE, under |-> "default"]] /\ done = {}

-----------------------------------------------------------------------------
(* The server *)

Renamed(i) == \E r \in done : Is(r, "rename") /\ dump[r].schema = dump[i].schema
Met(i) ==
  /\ ~Renamed(i)
  /\ \A j \in dump[i].needs : IF Is(j, "copy") THEN row[j].in ELSE j \in done
\* What a COPY runs into: its table is gone, or a trigger or a foreign key is there.
Enforced(c) == {i \in done : dump[i].kind \in {"fk", "trigger"} /\ c \notin replica}

-----------------------------------------------------------------------------
(* pgCopier *)

\* newPgCopier: every connection is set up as the restore's own.
SetUp == IF setup = <<>> THEN "default" ELSE setup[Len(setup)]
Open ==
  /\ At("copy") /\ n > 1 /\ copier = "none"
  /\ \/ /\ ~ctx /\ copier' = "open" /\ free' = n
        /\ session' = [c \in 0 .. n |-> IF c = 0 THEN session[0] ELSE SetUp]
        /\ replica' = (IF 0 \in replica THEN 0 .. n ELSE {})
     \/ copier' = "refused" /\ UNCHANGED <<free, session, replica>>   \* one connection
  /\ UNCHANGED <<dump, n, ctx, main, result, faulted, setup, task, broken, deferred, row, done>>

gctx == ctx \/ broken
\* copy: the block is spooled, unless a load has failed ...
Spool ==
  /\ At("copy") /\ copier = "open"
  /\ \/ ~gctx /\ task' = [task EXCEPT ![main.pos] = "spooled"] /\ Goto("go")
     \/ gctx /\ Goto("last wait") /\ task' = task
  /\ UNCHANGED <<dump, n, ctx, result, faulted, opened, broken, free, deferred, server>>
SpoolFails ==
  /\ At("copy") /\ copier = "open" /\ Goto("last wait") /\ faulted' = TRUE
  /\ UNCHANGED <<dump, n, ctx, result, opened, copying, deferred, server>>
\* ... and a load starts, once fewer than n are active.
Limit == n
Go ==
  /\ At("go") /\ Cardinality(Active) < Limit
  /\ task' = [task EXCEPT ![main.pos] = "started"] /\ NextStmt
  /\ UNCHANGED <<dump, n, ctx, result, faulted, opened, broken, free, deferred, server>>

\* Mutant: a connection a load is done with is not given back.
Kept == free
\* The connection is given back, and the spool removed.
GivenBack == free + 1
Ended(i) == task' = [task EXCEPT ![i] = "none"]
Start(i) ==
  /\ task[i] = "started"
  /\ \/ gctx /\ Ended(i) /\ broken' = TRUE /\ free' = free
     \/ ~gctx /\ free > 0 /\ task' = [task EXCEPT ![i] = "loading"] /\ free' = free - 1
        /\ broken' = broken
  /\ UNCHANGED <<dump, n, ctx, main, result, faulted, opened, deferred, server>>
\* COPY over one of the connections, which have all one session.
Loaded(i) ==
  /\ task[i] = "loading" /\ ~gctx /\ Met(i)
  /\ row' = [row EXCEPT ![i] = [in |-> TRUE, under |-> session[1]]]
  /\ Ended(i) /\ free' = GivenBack
  /\ UNCHANGED <<dump, n, ctx, main, result, faulted, opened, broken, deferred, session, done>>
LoadFails(i) ==
  /\ task[i] = "loading" /\ Ended(i) /\ free' = GivenBack /\ broken' = TRUE
  /\ UNCHANGED <<dump, n, ctx, main, result, opened, deferred, server>>
Task(i) ==
  \/ Start(i) \/ Loaded(i)
  \/ (gctx \/ ~Met(i)) /\ LoadFails(i) /\ faulted' = faulted

-----------------------------------------------------------------------------
(* What follows the rows *)

\* Mutant: only foreign keys are held back.
OnlyKeys(s) == s.kind = "fk"
pgIsPostDataStmt(s) == s.kind \in {"fk", "trigger"}
pgIsCreateIndexStmt(s) == s.kind = "index"
\* Mutant: an index met after the first COPY is held back as well.
EveryIndex(s) == pgIsCreateIndexStmt(s)
\* What follows an index that pg_dump wrote after the rows may name it.
HeldBack(s) == ~copied /\ pgIsCreateIndexStmt(s)
pgIsSessionSetting(s) == s.kind = "set"
pgIsSetval(s) == s.kind = "setval"

\* A statement the restore's own connection runs, at position i of the dump.
Runs(i) ==
  /\ ~ctx /\ Met(i) /\ done' = done \cup {i}
  /\ session' = IF Is(i, "set") THEN [session EXCEPT ![0] = dump[i].sets] ELSE session
Refused(i) == ctx \/ ~Met(i)

\* The next statement; the dump may also fail to be read.
Read ==
  /\ At("read")
  /\ IF main.pos > Len(dump)
     THEN Goto("last wait") /\ UNCHANGED deferred
     ELSE CASE Is(main.pos, "copy") ->
                 copied' = TRUE /\ Goto("copy") /\ UNCHANGED <<mem, postIndexes, postData, matViews>>
            [] pgIsPostDataStmt(Stmt) ->
                 postData' = Append(postData, main.pos) /\ NextStmt
                 /\ UNCHANGED <<copied, mem, postIndexes, matViews>>
            [] HeldBack(Stmt) ->
                 postIndexes' = Append(postIndexes, main.pos) /\ NextStmt
                 /\ UNCHANGED <<copied, mem, postData, matViews>>
            [] OTHER ->
                 /\ mem' \in IF copied /\ pgIsCreateIndexStmt(Stmt) /\ mem = "own"
                             THEN {"own", "raised"} ELSE {mem}
                 /\ Goto(IF copier = "open" /\ ~pgIsSetval(Stmt) THEN "wait" ELSE "exec")
                 /\ UNCHANGED <<copied, postIndexes, postData, matViews>>
  /\ UNCHANGED <<dump, n, ctx, result, faulted, opened, copying, server>>
ReadFails ==
  /\ At("read") /\ Goto("last wait") /\ faulted' = TRUE
  /\ UNCHANGED <<dump, n, ctx, result, opened, copying, deferred, server>>

\* Without a copier the block streams over the restore's own connection.
Stream ==
  /\ At("copy") /\ (n = 1 \/ copier = "refused")
  /\ \/ /\ ~ctx /\ Met(main.pos) /\ NextStmt
        /\ row' = [row EXCEPT ![main.pos] = [in |-> TRUE, under |-> session[0]]]
     \/ Refused(main.pos) /\ Goto("fail") /\ row' = row
  /\ UNCHANGED <<dump, n, ctx, result, faulted, opened, copying, deferred, session, done>>

\* Mutant: the restore forgets that a load failed.
Forgets == FALSE
\* wait: the loads in flight end, a failure among them is told, and a new group
\* begins.
Failed == broken
\* Mutant: statements between the blocks do not wait for them.
Unsettled == TRUE
Settled == Active = {}
Wait ==
  /\ At("wait") /\ Settled /\ broken' = FALSE
  /\ Goto(IF Failed THEN "last wait" ELSE IF pgIsSessionSetting(Stmt) THEN "exec all" ELSE "exec")
  /\ UNCHANGED <<dump, n, ctx, result, faulted, opened, task, free, deferred, server>>
\* The cause of a failure is kept in "fail"; both ends are errors.
LastWait(whole) ==
  /\ At("last wait") /\ Active = {} /\ broken' = FALSE
  /\ task' = [i \in Copies |-> "none"]
  /\ Goto(IF whole /\ ~Failed THEN "indexes" ELSE "fail")
  /\ UNCHANGED <<dump, n, ctx, result, faulted, opened, free, deferred, server>>

ExecAll ==
  /\ At("exec all")
  /\ \/ ~ctx /\ session' = [c \in 0 .. n |-> IF c = 0 THEN session[0] ELSE Stmt.sets]
        /\ Goto("exec")
     \/ ctx /\ Goto("last wait") /\ UNCHANGED session
  /\ UNCHANGED <<dump, n, ctx, result, faulted, opened, copying, deferred, row, done>>
Exec ==
  /\ At("exec")
  /\ \/ /\ Runs(main.pos) /\ NextStmt
        /\ setup' = IF copier # "open" /\ pgIsSessionSetting(Stmt)
                    THEN Append(setup, Stmt.sets) ELSE setup
        /\ matViews' = IF Stmt.kind = "matview" THEN Append(matViews, main.pos) ELSE matViews
     \/ Refused(main.pos) /\ Goto("last wait") /\ UNCHANGED <<setup, matViews, session, done>>
  /\ UNCHANGED <<dump, n, ctx, result, faulted, copier, replica, copying, copied, mem,
                 postIndexes, postData, row>>

\* What was held back, in the order it was met: the indexes, then the rest.
First(seq) == seq[1]
Build(pc, seq, next) ==
  /\ At(pc)
  /\ IF seq = <<>> THEN Goto(next) /\ UNCHANGED <<done, session>>
     ELSE Runs(First(seq)) /\ main' = main
  /\ UNCHANGED <<dump, n, ctx, result, faulted, opened, copying, copied, row>>
BuildFails(pc, seq) ==
  /\ At(pc) /\ seq # <<>> /\ Goto("fail")
  /\ UNCHANGED <<dump, n, ctx, result, opened, copying, deferred, server>>
Rest(seq) == IF seq = <<>> THEN seq ELSE Tail(seq)
PostIndexes ==
  /\ Build("indexes", postIndexes, "constraints") /\ postIndexes' = Rest(postIndexes)
  /\ UNCHANGED <<mem, postData, matViews>>
PostData ==
  /\ Build("constraints", postData, "resets") /\ postData' = Rest(postData)
  /\ UNCHANGED <<mem, postIndexes, matViews>>
Resets ==
  /\ At("resets")
  /\ \/ ~ctx /\ replica' = replica \ {0} /\ mem' = "own" /\ Goto("refresh")
     \/ ctx /\ (0 \in replica \/ mem = "raised") /\ Goto("fail") /\ UNCHANGED <<replica, mem>>
     \/ ctx /\ 0 \notin replica /\ mem = "own" /\ Goto("refresh") /\ UNCHANGED <<replica, mem>>
  /\ UNCHANGED <<dump, n, ctx, result, faulted, copier, setup, copying, copied, postIndexes,
                 postData, matViews, server>>
Refresh ==
  /\ At("refresh")
  /\ IF matViews = <<>> THEN Goto("returned") /\ result' = "nil"
     ELSE ~ctx /\ ~Renamed(First(matViews)) /\ UNCHANGED <<main, result>>
  /\ matViews' = Rest(matViews)
  /\ UNCHANGED <<dump, n, ctx, faulted, opened, copying, copied, mem, postIndexes, postData, server>>
Fail ==
  /\ At("fail") /\ Goto("returned") /\ result' = "error"
  /\ UNCHANGED <<dump, n, ctx, faulted, opened, copying, deferred, server>>

Cancel ==
  /\ ~ctx /\ result = "none" /\ ctx' = TRUE /\ faulted' = TRUE
  /\ UNCHANGED <<dump, n, main, result, opened, copying, deferred, server>>

-----------------------------------------------------------------------------
Whole == main.pos > Len(dump)
Reader ==
  \/ Read \/ Open \/ Spool \/ Go \/ Stream \/ Wait \/ LastWait(Whole) \/ ExecAll \/ Exec
  \/ PostIndexes \/ PostData \/ Resets \/ Refresh \/ Fail
Refusals ==
  /\ \/ postIndexes # <<>> /\ Refused(First(postIndexes)) /\ BuildFails("indexes", postIndexes)
     \/ postData # <<>> /\ Refused(First(postData)) /\ BuildFails("constraints", postData)
     \/ matViews # <<>> /\ (ctx \/ Renamed(First(matViews))) /\ BuildFails("refresh", matViews)
  /\ faulted' = faulted
Faults ==
  /\ \/ ReadFails \/ SpoolFails
     \/ BuildFails("indexes", postIndexes) \/ BuildFails("constraints", postData)
     \/ BuildFails("refresh", matViews) \/ \E i \in Copies : LoadFails(i)
  /\ faulted' = TRUE
Next == Reader \/ Refusals \/ Faults \/ Cancel \/ \E i \in Copies : Task(i)

-----------------------------------------------------------------------------
(* Properties *)

\* The session settings before statement i, in the dump's order.
SessionAt(i) ==
  LET S == {j \in 1 .. i - 1 : Is(j, "set")}
  IN  IF S = {} THEN "default" ELSE dump[CHOOSE j \in S : \A k \in S : k <= j].sets

\* Although blocks load side by side and beside the reader, a block is read under
\* the session settings above it, and a statement that may read rows comes after
\* every block above it (postgresql_parallel.go wait and execAll).
InOrder ==
  /\ \A i \in Copies : row'[i].in /\ ~row[i].in => row'[i].under = SessionAt(i)
  /\ \A i \in done' \ done : Is(i, "setval") \/ \A j \in Copies : j < i => row'[j].in

\* No trigger fires on a restored row and no foreign key judges one, wherever the
\* dump has them, although the role that silences them may be refused
\* (restoreViaSQL's postData).
Unwatched == \A i \in Copies : row'[i].in /\ ~row[i].in => Enforced(0) = {}

\* A restore that returns nil has every row in and every statement run.
SuccessIsWhole ==
  result = "nil" => (\A i \in Copies : row[i].in) /\ done = DOMAIN dump \ Copies /\ mem = "own"

\* A dump whose statements are in an order that works restores: what is held back
\* is not missed by what comes before it, nor spoiled by it.
OnlyFaultsFail == result = "error" => faulted
=============================================================================
