------------------------------ MODULE MySQLRestore ------------------------------
(***************************************************************************)
(* The restore of a MySQL or MariaDB dump over SQL (restoreViaSQL in either *)
(* driver).  The dump is read front to back on one connection, the          *)
(* restore's own; its INSERTs are handed to writers with a connection each  *)
(* (driver/base/rowwriters.go), and the indexes of a table that turns out   *)
(* to be large are dropped while it loads and put back at the end           *)
(* (driver/base/indexdefer.go).  The whole must come out as if the dump had *)
(* been run in order on one connection.                                     *)
(*                                                                          *)
(* Connection 0 is the restore's own, 1..n are the writers'.  What an       *)
(* INSERT weighs, in the thresholds, is one.                                *)
(***************************************************************************)
EXTENDS Naturals, Sequences, FiniteSets

CONSTANTS
  Dumps,                  \* the dumps restored: sequences of statements
  Tables,
  Word,                   \* table -> what the restore reads its name as
  Indexes,                \* table -> the kinds of secondary index it has
  Conflicts,              \* pairs of INSERTs that need the same lock
  Want, Free,             \* Concurrency asked for, connections the server has free
  MaxRestoreConnections,
  DeferAt,                \* INSERTs of a table before its plain indexes go
  CommitAt                \* INSERTs in a connection's transaction before it commits

VARIABLES
  dump, n, single,        \* the dump, the writers, and whether they could be opened
  ctx,                    \* the restore is cancelled
  main,                   \* the restore's own goroutine: where it is in the dump
  result,                 \* what restoreViaSQL returned
  jobs, shut, writer, err, seen,         \* RowWriters
  indexed, held, checked, drops,         \* IndexDeferrer
  groups, building, broken,              \* Rebuild
  progress, counting,     \* RestoreProgress
  session, row, done, killed             \* the server

restore == <<dump, n, single, ctx>>
writers == <<jobs, shut, writer, err, seen>>
deferrer == <<indexed, held, checked, drops>>
rebuild == <<groups, building, broken>>
shown == <<progress, counting>>
server == <<session, row, done, killed>>
vars == <<restore, main, result, writers, deferrer, rebuild, shown, server>>

Kinds == {"btree", "fulltext"}
Stmt == dump[main.pos]
IsRows(i) == dump[i].kind = "rows"
Rows == {i \in DOMAIN dump : IsRows(i)}
\* What defines something, run on the restore's own connection.
Own == {i \in DOMAIN dump : dump[i].kind \in {"create", "ddl"}}
Words == Tables \cup {Word[t] : t \in Tables}
RowTables == {Word[dump[i].table] : i \in Rows}
Writers == 1 .. n
At(pc) == main.pc = pc
Goto(pc) == main' = [main EXCEPT !.pc = pc]
NextStmt == main' = [pc |-> "read", pos |-> main.pos + 1]

\* Half of what the server has free, at least one, and never more than the cap.
RestoreConnections(want, free) ==
  LET half == IF free < 2 THEN 1 ELSE free \div 2
      cap == IF MaxRestoreConnections < half THEN MaxRestoreConnections ELSE half
  IN  IF want < cap THEN want ELSE cap

Init ==
  /\ dump \in Dumps /\ single \in BOOLEAN
  /\ \E want \in Want, free \in Free : n = RestoreConnections(want, free)
  /\ ctx = FALSE /\ main = [pc |-> "read", pos |-> 1] /\ result = "none"
  /\ jobs = <<>> /\ shut = single /\ err = FALSE /\ seen = {}
  /\ writer = [w \in Writers |->
                 [pc |-> IF single THEN "gone" ELSE "look", job |-> 0]]
  /\ indexed = [t \in Words |-> 0]
  /\ held = [t \in Tables |-> {}] /\ checked = [t \in Words |-> {}] /\ drops = {}
  /\ groups = {} /\ building = {} /\ broken = FALSE
  /\ progress = [done |-> 0, current |-> "", total |-> 0] /\ counting = TRUE
  /\ session = [c \in 0 .. n |-> "default"]
  /\ row = [i \in Rows |-> [at |-> "out", by |-> 0, under |-> "default"]]
  /\ done = {} /\ killed = FALSE

-----------------------------------------------------------------------------
(* The server *)

Open(c) == {i \in Rows : row[i].at = "open" /\ row[i].by = c}
Committed(r, S) == [i \in Rows |-> IF i \in S THEN [r[i] EXCEPT !.at = "in"] ELSE r[i]]
RolledBack(r, S) == [i \in Rows |-> IF i \in S THEN [r[i] EXCEPT !.at = "out"] ELSE r[i]]
Empty(t) == ~\E i \in Rows : dump[i].table = t /\ row[i].at = "in"

\* The foreign keys there are: <<child, parent>>.
ForeignKeys == {<<dump[i].table, dump[i].parent>> :
                  i \in {j \in done : dump[j].kind = "create" /\ dump[j].parent # ""}}
Joined(t, u) == <<t, u>> \in ForeignKeys \/ <<u, t>> \in ForeignKeys

\* An INSERT waits for a transaction that holds a lock it needs, at most until
\* the server's lock wait timeout.
Holds(c, w) == c # w /\ \E i \in Open(c) : <<i, writer[w].job>> \in Conflicts
Blocked(w) == \E c \in 0 .. n : Holds(c, w)

\* Two connections that start on the same empty table each wait for the other.
Starting(w) ==
  LET t == dump[writer[w].job].table
  IN  Empty(t) /\ \E v \in Writers \ {w} :
        \/ writer[v].pc = "runs" /\ dump[writer[v].job].table = t
        \/ \E i \in Open(v) : dump[i].table = t

-----------------------------------------------------------------------------
(* A writer *)

wctx == ctx \/ err
Pending == Len(jobs) + Cardinality({w \in Writers : writer[w].job # 0})

Take(w) ==
  /\ jobs # <<>> /\ jobs' = Tail(jobs)
  /\ writer' = [writer EXCEPT ![w] = [pc |-> "has", job |-> Head(jobs)]]
Only(w) == UNCHANGED <<restore, main, result, shut, seen, deferrer, rebuild, shown,
                       session, done>>

\* Mutant: a writer waits for work with its transaction open.
IdlesOpen(w) ==
  /\ err' = err /\ row' = row
  /\ writer' = [writer EXCEPT ![w].pc = "idle"]
\* commitIdle: nothing is committed once a writer has failed, and a COMMIT fails
\* under a cancelled context.
CommitIdle(w) ==
  /\ writer' = [writer EXCEPT ![w].pc = "idle"]
  /\ \/ err /\ UNCHANGED <<err, row>>
     \/ ~err /\ (Open(w) = {} \/ ~ctx) /\ row' = Committed(row, Open(w)) /\ err' = err
     \/ ~err /\ Open(w) # {} /\ row' = row /\ err' = TRUE

Look(w) ==
  /\ writer[w].pc = "look"
  /\ \/ Take(w) /\ UNCHANGED <<err, row>>
     \/ jobs = <<>> /\ ~shut /\ CommitIdle(w) /\ UNCHANGED jobs
     \/ jobs = <<>> /\ shut /\ writer' = [writer EXCEPT ![w].pc = "gone"]
        /\ UNCHANGED <<jobs, err, row>>
  /\ UNCHANGED killed /\ Only(w)
Wake(w) ==
  /\ writer[w].pc = "idle"
  /\ \/ Take(w)
     \/ jobs = <<>> /\ shut /\ writer' = [writer EXCEPT ![w].pc = "gone"] /\ UNCHANGED jobs
  /\ UNCHANGED <<err, row, killed>> /\ Only(w)

Released(w) == writer' = [writer EXCEPT ![w] = [pc |-> "look", job |-> 0]]
\* Mutant: a writer ends at a failure with its job in hand.
Quits(w) == writer' = [writer EXCEPT ![w].pc = "gone"]
Drains(w) == Released(w)
\* After a failure what is queued is only drained; under a cancelled context no
\* statement is sent.
Begin(w) ==
  /\ writer[w].pc = "has"
  /\ IF wctx
     THEN Drains(w) /\ killed' = killed
     ELSE writer' = [writer EXCEPT ![w].pc = "runs"] /\ killed' = (killed \/ Starting(w))
  /\ UNCHANGED <<jobs, err, row>> /\ Only(w)

\* write: an INSERT that fails because the restore was cancelled is no failure of
\* the writer's own, and says nothing.
Wrote(w) ==
  /\ writer[w].pc = "runs" /\ ~Blocked(w)
  /\ LET r == [row EXCEPT ![writer[w].job] =
                 [at |-> "open", by |-> w, under |-> session[w]]]
         full == Cardinality(Open(w)) + 1 >= CommitAt
     IN  \/ full /\ ~wctx /\ err' = err /\ row' = Committed(r, Open(w) \cup {writer[w].job})
         \/ full /\ err' = TRUE /\ row' = r
         \/ ~full /\ row' = r /\ err' = err
  /\ Released(w) /\ UNCHANGED <<jobs, killed>> /\ Only(w)
WriteFails(w) ==
  /\ writer[w].pc = "runs"
  /\ err' = (err \/ ~wctx)
  /\ Released(w) /\ UNCHANGED <<jobs, row, killed>> /\ Only(w)

Writer(w) == Look(w) \/ Wake(w) \/ Begin(w) \/ Wrote(w) \/ (writer[w].pc = "runs" /\ (wctx \/ Blocked(w)) /\ WriteFails(w))

-----------------------------------------------------------------------------
(* Barrier, Insert, Session and Close *)

Opened == UNION {Open(c) : c \in Writers}
\* Everything queued is written, and committed; then what follows may go on.
Barrier(next) ==
  /\ Pending = 0
  /\ \/ ~err /\ (Opened = {} \/ ~ctx) /\ row' = Committed(row, Opened)
        /\ err' = err /\ next
     \/ ~err /\ Opened # {} /\ \E S \in SUBSET Writers :
          row' = Committed(row, UNION {Open(c) : c \in S}) /\ err' = TRUE /\ Goto("fail")
     \/ err /\ Goto("fail") /\ UNCHANGED <<err, row>>

\* commits.Flush on the restore's own connection.
Flush(next) ==
  \/ (Open(0) = {} \/ ~ctx) /\ row' = Committed(row, Open(0)) /\ next
  \/ Goto("fail") /\ row' = row

barrier(next) == IF single THEN err' = err /\ Flush(next) ELSE Barrier(next)

\* Mutant: a table's first INSERT is queued like any other.
NoneAlone == FALSE
\* A table's first INSERT is written alone, between two barriers.
Alone == Word[Stmt.table] \notin seen

Queue ==
  /\ At("queue")
  /\ \/ ~err /\ Len(jobs) < 2 * n /\ jobs' = Append(jobs, main.pos)
        /\ IF Alone THEN Goto("alone") ELSE NextStmt
     \/ wctx /\ Goto("fail") /\ jobs' = jobs
  /\ UNCHANGED <<restore, result, shut, writer, err, seen, deferrer, rebuild, shown, server>>
First ==
  /\ At("first") /\ Barrier(Goto("queue"))
  /\ UNCHANGED <<restore, result, jobs, shut, writer, seen, deferrer, rebuild, shown,
                 session, done, killed>>
Written ==
  /\ At("alone") /\ Barrier(NextStmt)
  /\ seen' = seen \cup {Word[Stmt.table]}
  /\ UNCHANGED <<restore, result, jobs, shut, writer, deferrer, rebuild, shown,
                 session, done, killed>>

\* Mutant: the writers keep the session they were opened with.
OwnSession == session
\* The session statement, replayed on every writer.
Replayed == [c \in 0 .. n |-> Stmt.sets]
Session ==
  /\ At("session")
  /\ \/ ~ctx /\ session' = Replayed /\ NextStmt /\ err' = err
     \/ Goto("fail") /\ err' = TRUE /\ UNCHANGED session
  /\ UNCHANGED <<restore, result, jobs, shut, writer, seen, deferrer, rebuild, shown,
                 row, done, killed>>

CloseWriters ==
  /\ At("close") /\ Barrier(Goto("stop"))
  /\ shut' = TRUE
  /\ UNCHANGED <<restore, result, jobs, writer, seen, deferrer, rebuild, shown,
                 session, done, killed>>

-----------------------------------------------------------------------------
(* IndexDeferrer *)

Goes(pc) == Goto(IF pc = "row" THEN IF single THEN "exec" ELSE "flush" ELSE pc)

\* An index that a foreign key needs stays: a parent's plain index, and a child's.
Serves(t, k) == k = "btree" /\ \E f \in ForeignKeys : t \in {f[1], f[2]}
Wanted(t, count) ==
  ({"fulltext"} \cup (IF count >= DeferAt THEN {"btree"} ELSE {})) \ checked[t]

\* What the indexes are is read without a barrier; a table that cannot be read
\* keeps them.
Defer ==
  /\ At("defer")
  /\ LET t == Word[Stmt.table]
         want == Wanted(t, indexed[t] + 1)
         found == IF t \notin Tables THEN {}
                  ELSE {k \in (want \cap Indexes[t]) \ held[t] : ~Serves(t, k)}
     IN  /\ indexed' = [indexed EXCEPT ![t] = @ + 1]
         /\ checked' = [checked EXCEPT ![t] = @ \cup want]
         /\ \/ drops' = {} /\ Goes("row") /\ (want = {} \/ found = {} \/ ~ctx)
            \/ found # {} /\ drops' = found /\ Goto("clear")
  /\ UNCHANGED <<restore, result, writers, held, rebuild, shown, server>>
Clear ==
  /\ At("clear") /\ barrier(Goto("drop"))
  /\ UNCHANGED <<restore, result, jobs, shut, writer, seen, deferrer, rebuild, shown,
                 session, done, killed>>
Drop ==
  /\ At("drop") /\ Goes("row") /\ drops' = {}
  /\ \/ ~ctx /\ held' = [held EXCEPT ![Word[Stmt.table]] = @ \cup drops]
     \/ held' = held
  /\ UNCHANGED <<restore, result, writers, indexed, checked, rebuild, shown, server>>

Deferred == {t \in Tables : held[t] # {}}
Linked(T, t) ==
  {u \in T : \A S \in SUBSET T :
     t \in S /\ (\A a \in S, b \in T : Joined(a, b) => b \in S) => u \in S}
\* Mutant: every table is rebuilt on its own.
GroupsOfOne(T) == {{t} : t \in T}
\* relatedGroups: tables joined by foreign keys are rebuilt one after the other.
RelatedGroups(T) == {Linked(T, t) : t \in T}

\* Rebuild starts; if the foreign keys cannot be read all tables are one group.
Rebuild(pc) ==
  /\ At(pc) /\ Deferred # {}
  /\ checked' = [t \in Words |-> IF t \in Deferred THEN Kinds ELSE checked[t]]
  /\ groups' \in {RelatedGroups(Deferred), {Deferred}}
  /\ main' = [main EXCEPT !.pc = IF pc = "again" THEN "rebuild early" ELSE "rebuild"]
  /\ UNCHANGED <<restore, result, writers, indexed, held, drops, building, broken,
                 shown, server>>
\* A group takes a slot, and one of its tables is altered.
Alter(t) ==
  /\ main.pc \in {"rebuild", "rebuild early"}
  /\ t \notin building
  /\ \E g \in groups : t \in g /\ g \cap building = {}
  /\ Cardinality(building) < IF single THEN 1 ELSE n
  /\ building' = building \cup {t}
  /\ killed' = (killed \/ \E u \in building : Joined(t, u))
  /\ UNCHANGED <<restore, main, result, writers, deferrer, groups, broken, shown,
                 session, row, done>>
Altered(t) ==
  /\ t \in building /\ building' = building \ {t}
  /\ groups' = {g \ {t} : g \in groups} \ {{}}
  /\ \/ ~ctx /\ held' = [held EXCEPT ![t] = {}] /\ broken' = broken
     \/ held' = held /\ broken' = TRUE
  /\ UNCHANGED <<restore, main, result, writers, indexed, checked, drops, shown, server>>
\* An index that cannot be rebuilt fails the restore.
Outcome ==
  Goto(IF broken THEN "fail" ELSE IF At("rebuild") THEN "end" ELSE "exec")
Rebuilt ==
  /\ main.pc \in {"rebuild", "rebuild early"} /\ groups = {}
  /\ Outcome
  /\ UNCHANGED <<restore, result, writers, deferrer, rebuild, shown, server>>

-----------------------------------------------------------------------------
(* restoreViaSQL *)

\* The next statement; the dump may also fail to be read.
Read ==
  /\ At("read")
  /\ IF main.pos > Len(dump)
     THEN Goto(IF single THEN "finish" ELSE "close")
     ELSE \/ Goto("fail")
          \/ IsRows(main.pos) /\ Goto("defer")
          \/ Stmt.kind = "lock" /\ IF single THEN Goto("exec") ELSE NextStmt
          \/ Stmt.kind \notin {"rows", "lock"} /\ Goto(IF single THEN "exec" ELSE "alone wait")
  /\ UNCHANGED <<restore, result, writers, deferrer, rebuild, shown, server>>

\* A statement of the restore's own waits for every row before it.
Wait == Barrier(Goto("exec"))
WaitForRows ==
  /\ At("alone wait") /\ Wait
  /\ UNCHANGED <<restore, result, jobs, shut, writer, seen, deferrer, rebuild, shown,
                 session, done, killed>>

\* The table is named once, as its first rows are queued.
Named(p, t) ==
  IF t = p.current THEN p
  ELSE [p EXCEPT !.current = t, !.done = IF p.current = "" THEN @ ELSE @ + 1]
FlushOwn ==
  /\ At("flush") /\ Flush(Goto(IF Alone THEN "first" ELSE "queue"))
  /\ progress' = Named(progress, Word[Stmt.table])
  /\ UNCHANGED <<restore, result, writers, deferrer, rebuild, counting, session, done, killed>>

\* CREATE TABLE with a foreign key on columns whose index is held back.
MissingKey ==
  Stmt.kind = "create" /\ Stmt.needs /\ Stmt.parent # "" /\ "btree" \in held[Stmt.parent]
Exec ==
  /\ At("exec") /\ ~ctx /\ ~MissingKey
  /\ CASE IsRows(main.pos) ->
            /\ LET r == [row EXCEPT ![main.pos] =
                           [at |-> "open", by |-> 0, under |-> session[0]]]
               IN  row' = IF Cardinality(Open(0)) + 1 >= CommitAt
                          THEN Committed(r, Open(0) \cup {main.pos}) ELSE r
            /\ progress' = Named(progress, Word[Stmt.table])
            /\ NextStmt /\ UNCHANGED <<session, done>>
       [] Stmt.kind = "session" ->
            /\ session' = [session EXCEPT ![0] = Stmt.sets]
            /\ (IF single THEN NextStmt ELSE Goto("session"))
            /\ UNCHANGED <<row, done, progress>>
       [] OTHER ->   \* DDL commits implicitly
            /\ row' = Committed(row, Open(0)) /\ done' = done \cup ({main.pos} \cap Own)
            /\ NextStmt /\ UNCHANGED <<session, progress>>
  /\ UNCHANGED <<restore, result, writers, deferrer, rebuild, counting, killed>>
ExecFails ==
  /\ At("exec")
  /\ Goto(IF MissingKey /\ ~ctx THEN "again" ELSE "fail")
  /\ UNCHANGED <<restore, result, writers, deferrer, rebuild, shown, server>>

\* Writers that have ended leave nothing open.
Stopped ==
  /\ At("stop") /\ \A w \in Writers : writer[w].pc = "gone"
  /\ Goto("finish")
  /\ UNCHANGED <<restore, result, writers, deferrer, rebuild, shown, server>>
\* The last commit, and progress.Finish, which waits for the count.
Counted == ~counting
Finish ==
  /\ At("finish") /\ Counted
  /\ Flush(Goto(IF Deferred # {} THEN "last" ELSE "end"))
  /\ progress' = LET d == progress.done + IF progress.current = "" THEN 0 ELSE 1
                 IN  [done |-> d, current |-> "",
                      total |-> IF d > progress.total THEN d ELSE progress.total]
  /\ UNCHANGED <<restore, result, writers, deferrer, rebuild, counting, session, done, killed>>
\* Mutant: the checks are not switched on again.
LeftOff == TRUE
\* The checks go on again, under the restore's own context: a cancel that no
\* writer spoke of shows here.
SwitchedOn == ~ctx
End ==
  /\ At("end") /\ SwitchedOn
  /\ Goto("returned") /\ result' = "nil"
  /\ UNCHANGED <<restore, writers, deferrer, rebuild, shown, server>>
EndFails ==
  /\ At("end") /\ Goto("fail")
  /\ UNCHANGED <<restore, result, writers, deferrer, rebuild, shown, server>>

\* The deferred Close(false): the writers drain the queue, and what is open is
\* rolled back.
Failing ==
  /\ At("fail") /\ Goto("drain") /\ shut' = TRUE
  /\ UNCHANGED <<restore, result, jobs, writer, err, seen, deferrer, rebuild, shown, server>>
Drained ==
  /\ At("drain") /\ \A w \in Writers : writer[w].pc = "gone"
  /\ row' = RolledBack(row, UNION {Open(c) : c \in 0 .. n})
  /\ counting' = FALSE
  /\ Goto("returned") /\ result' = "error"
  /\ UNCHANGED <<restore, writers, deferrer, rebuild, progress, session, done, killed>>

\* CountTotal reads the dump beside the restore; a count that fails says nothing.
CountTotal ==
  /\ counting /\ counting' = FALSE
  /\ progress' \in {progress,
                    [progress EXCEPT !.total =
                       IF Cardinality(RowTables) > @ THEN Cardinality(RowTables) ELSE @]}
  /\ UNCHANGED <<restore, main, result, writers, deferrer, rebuild, server>>

Cancel ==
  /\ ~ctx /\ result = "none" /\ ctx' = TRUE
  /\ UNCHANGED <<dump, n, single, main, result, writers, deferrer, rebuild, shown, server>>

-----------------------------------------------------------------------------
Reader ==
  \/ Read \/ WaitForRows \/ Defer \/ Clear \/ Drop \/ FlushOwn \/ First \/ Queue
  \/ Written \/ Exec \/ (At("exec") /\ (ctx \/ MissingKey) /\ ExecFails) \/ Session \/ CloseWriters
  \/ Stopped \/ Finish \/ End \/ (ctx /\ EndFails) \/ Failing \/ Drained
  \/ Rebuild("again") \/ Rebuild("last") \/ Rebuilt
Altering == \E t \in Tables : Alter(t) \/ Altered(t)
Faults == ExecFails \/ EndFails \/ \E w \in Writers : WriteFails(w)
Next ==
  \/ Reader \/ Altering \/ CountTotal \/ Cancel \/ Faults
  \/ \E w \in Writers : Writer(w)

-----------------------------------------------------------------------------
(* Properties *)

\* The session statements before statement i, in the dump's order.
SessionAt(i) ==
  LET S == {j \in 1 .. i - 1 : dump[j].kind = "session"}
  IN  IF S = {} THEN "default" ELSE dump[CHOOSE j \in S : \A k \in S : k <= j].sets

\* The dump comes out as if it had been run in order on one connection: an INSERT
\* runs under the session statements above it and after the definitions above it,
\* and a definition after every row above it has been committed
\* (driver/base/rowwriters.go Barrier and Session).
InOrder ==
  /\ \A i \in Rows : row[i].at = "out" /\ row'[i].at # "out" =>
       row'[i].under = SessionAt(i) /\ \A j \in Own : j < i => j \in done
  /\ \A i \in Own : i \in done' \ done => \A j \in Rows : j < i => row'[j].at = "in"

\* A restore that returns nil has committed every row and put every index back,
\* and shows every table done: although a writer whose INSERT a cancel cut off
\* reports nothing (rowwriters.go write), and although the total is counted
\* beside the restore (driver/base/progress.go CountTotal).
SuccessIsWhole ==
  result = "nil" =>
    /\ done = Own /\ \A i \in Rows : row[i].at = "in"
    /\ Deferred = {}
    /\ ~counting /\ progress.done = Cardinality(RowTables) /\ progress.total = progress.done

\* No statement of the restore is killed by another as a deadlock: not two first
\* INSERTs into one table, and not the rebuilds of two tables that a foreign key
\* joins; and while the restore goes on none waits, into the server's lock wait
\* timeout, for a transaction that a writer with nothing to do keeps open
\* (rowwriters.go Insert and commitIdle, indexdefer.go relatedGroups).
NeverKilled ==
  /\ ~killed
  /\ ~wctx /\ main.pc \notin {"fail", "drain"} => \A w, c \in Writers :
       writer[w].pc = "runs" /\ Holds(c, w) => writer[c].pc \notin {"idle", "gone"}

=============================================================================
