----------------------------- MODULE DatabaseLoads -----------------------------
(***************************************************************************)
(* How a database gets to its target: through a pipe between two SSH hosts *)
(* (DumpPipe), or from a dump file that the target's driver restores over  *)
(* SQL connections, MySQL's and MariaDB's handing INSERTs to writers       *)
(* (MySQLRestore), PostgreSQL's spooling COPY blocks (PgRestore).          *)
(* dbmsx/planner.go chooses between the pipe and the file, and the         *)
(* location's engine the driver (executor/restore.go).                     *)
(*                                                                         *)
(* The two restores share the variables that mean the same in both.  Those *)
(* of the ways not taken stay as they are.                                 *)
(***************************************************************************)
EXTENDS Naturals, Sequences, FiniteSets

CONSTANTS
  Total, Window,                                              \* DumpPipe
  MySQLDumps, Tables, Word, Indexes, Conflicts, Want, Free,   \* MySQLRestore
  MaxRestoreConnections, DeferAt, CommitAt,
  PgDumps, Conns, Blocks                                      \* PgRestore

ASSUME SizesAssumption == Total \in Nat /\ Window \in Nat \ {0}
\* A statement of a PostgreSQL dump; a restore loads over one connection at least.
PgStatements == [kind : STRING, needs : SUBSET Nat, sets : STRING, schema : STRING]
ASSUME PgAssumption == PgDumps \subseteq Seq(PgStatements) /\ Conns \subseteq Nat \ {0}
\* A statement of a MySQL dump; its rows go into tables that have names.
MySQLStatements ==
  [kind : STRING, table : STRING, parent : STRING, needs : BOOLEAN, sets : STRING]
ASSUME MySQLAssumption ==
  /\ MySQLDumps \subseteq Seq(MySQLStatements)
  /\ \A d \in MySQLDumps : \A i \in DOMAIN d :
       /\ d[i].kind = "rows" => d[i].table \in Tables
       /\ d[i].parent # "" => d[i].parent \in Tables
  /\ Word \in [Tables -> STRING] /\ \A t \in Tables : Word[t] # ""
  /\ Want \subseteq Nat /\ Free \subseteq Nat /\ MaxRestoreConnections \in Nat
  /\ CommitAt \in Nat /\ DeferAt \in Nat

VARIABLES
  strategy,                                                   \* the way taken
  item, status, handleErr, closed, asked, rollback,           \* DumpPipe
  cmd, copy, chan, side, pipe, dumped, crossed, reported, loaded,
  dump, n, ctx, main, result, broken, session, row, done,     \* both restores
  single, jobs, shut, writer, err, seen,                      \* MySQLRestore
  indexed, held, checked, drops, groups, building, progress, counting, killed,
  faulted, copier, setup, replica, task, free,                \* PgRestore
  copied, mem, postIndexes, postData, matViews

Pipe  == INSTANCE DumpPipe WITH err <- handleErr
MySQL == INSTANCE MySQLRestore WITH Dumps <- MySQLDumps
Pg    == INSTANCE PgRestore WITH Dumps <- PgDumps

pipeVars   == <<item, status, handleErr, closed, asked, rollback, cmd, copy, chan, side, pipe,
                dumped, crossed, reported, loaded>>
restoreVars == <<dump, n, ctx, main, result, broken, session, row, done>>
mysqlVars  == <<single, jobs, shut, writer, err, seen, indexed, held, checked, drops, groups,
                building, progress, counting, killed>>
pgVars     == <<faulted, copier, setup, replica, task, free, copied, mem, postIndexes,
                postData, matViews>>
vars == <<strategy, pipeVars, restoreVars, mysqlVars, pgVars>>

Idle == "idle"
NoRestore ==
  /\ dump = Idle /\ n = Idle /\ ctx = Idle /\ main = Idle /\ result = Idle
  /\ broken = Idle /\ session = Idle /\ row = Idle /\ done = Idle
NoMySQL ==
  /\ single = Idle /\ jobs = Idle /\ shut = Idle /\ writer = Idle /\ err = Idle
  /\ seen = Idle /\ indexed = Idle /\ held = Idle /\ checked = Idle /\ drops = Idle
  /\ groups = Idle /\ building = Idle /\ progress = Idle /\ counting = Idle /\ killed = Idle
NoPg ==
  /\ faulted = Idle /\ copier = Idle /\ setup = Idle /\ replica = Idle /\ task = Idle
  /\ free = Idle /\ copied = Idle /\ mem = Idle /\ postIndexes = Idle /\ postData = Idle
  /\ matViews = Idle

Init ==
  /\ Pipe!Init
  /\ \/ strategy = "pipe" /\ NoRestore /\ NoMySQL /\ NoPg
     \/ strategy = "mysql" /\ ~rollback /\ MySQL!Init /\ NoPg
     \/ strategy = "postgresql" /\ ~rollback /\ Pg!Init /\ NoMySQL

ThroughPipe  == strategy = "pipe" /\ Pipe!Next /\ UNCHANGED <<strategy, restoreVars, mysqlVars, pgVars>>
MySQLRestores == strategy = "mysql" /\ MySQL!Next /\ UNCHANGED <<strategy, pipeVars, pgVars>>
PgRestores   == strategy = "postgresql" /\ Pg!Next /\ UNCHANGED <<strategy, pipeVars, mysqlVars>>

Next == ThroughPipe \/ MySQLRestores \/ PgRestores

Piping(A)      == strategy = "pipe" /\ A
MySQLDoes(A)   == strategy = "mysql" /\ A
PgDoes(A)      == strategy = "postgresql" /\ A
mysqlRestore   == <<restoreVars, mysqlVars>>
pgRestore      == <<restoreVars, pgVars>>

\* Goroutines are scheduled; the remote commands go on as long as their channels
\* let them, and a statement that waits for no lock ends.  Nothing promises that
\* anything fails.
Fairness ==
  /\ WF_pipeVars(Piping(Pipe!Handle)) /\ WF_pipeVars(Piping(Pipe!Executor))
  /\ WF_pipeVars(Piping(Pipe!DumpReads \/ Pipe!PipeRefuses)) /\ WF_pipeVars(Piping(Pipe!Cross))
  /\ WF_pipeVars(Piping(Pipe!RestoreReads \/ Pipe!RestoreWrites))
  /\ WF_pipeVars(Piping(Pipe!DumpWrites)) /\ WF_pipeVars(Piping(Pipe!RestoreLoads))
  /\ WF_pipeVars(Piping(Pipe!DumpEnds)) /\ WF_pipeVars(Piping(Pipe!RestoreEnds))
  /\ WF_mysqlRestore(MySQLDoes(MySQL!Reader)) /\ WF_mysqlRestore(MySQLDoes(MySQL!Altering))
  /\ WF_mysqlRestore(MySQLDoes(MySQL!CountTotal))
  /\ \A w \in 1 .. MaxRestoreConnections :
        WF_mysqlRestore(MySQLDoes(w \in MySQL!Writers /\ MySQL!Writer(w)))
  /\ WF_pgRestore(PgDoes(Pg!Reader \/ Pg!Refusals))
  /\ \A i \in Blocks : WF_pgRestore(PgDoes(i \in Pg!Copies /\ Pg!Task(i)))

Spec == Init /\ [][Next]_vars /\ Fairness

-----------------------------------------------------------------------------
(* Properties: those of the module the way taken is in. *)

\* What is reported as a success is whole.  Through the pipe nothing looks at what
\* the copiers return, and a stream that was cut short reaches the restore command
\* as an ordinary end of input (core/ssh.go pumpSession); the bytes shown never run
\* ahead of the pipe and end as all that crossed it (pipeCounter).  A restore that
\* returns nil has committed every row and put every index back, although a writer
\* whose INSERT a cancel cut off reports nothing (rowwriters.go write), and a COPY
\* block that failed is noticed only where the blocks are waited for
\* (postgresql_parallel.go wait).
SuccessIsWhole ==
  /\ strategy = "pipe" => Pipe!ItemWhole /\ Pipe!BytesTrue
  /\ strategy = "mysql" => MySQL!SuccessIsWhole
  /\ strategy = "postgresql" => Pg!SuccessIsWhole

\* No statement of the restore is killed by another as a deadlock: not two first
\* INSERTs into one table, and not the rebuilds of two tables that a foreign key
\* joins; and while the restore goes on none waits, into the server's lock wait
\* timeout, for a transaction that a writer with nothing to do keeps open
\* (rowwriters.go Insert and commitIdle, indexdefer.go relatedGroups).
NeverKilled == strategy = "mysql" => MySQL!NeverKilled

\* A PostgreSQL dump whose statements are in an order that works restores: what is
\* held back is not missed by what comes before it, nor spoiled by it.
OnlyFaultsFail == strategy = "postgresql" => Pg!OnlyFaultsFail

\* The dump comes out as if it had been run in order on one connection: rows go in
\* under the session statements above them, and what defines something comes after
\* the rows above it (rowwriters.go Barrier and Session, postgresql_parallel.go
\* wait and execAll).
AsIfInOrder ==
  [][/\ strategy = "mysql" => MySQL!InOrder
     /\ strategy = "postgresql" => Pg!InOrder]_vars

\* No trigger fires on a restored row and no foreign key judges one, wherever the
\* dump has them, although the role that silences them may be refused
\* (restoreViaSQL's postData).
NothingFires == [][strategy = "postgresql" => Pg!Unwatched]_vars

\* A load comes back, whatever fails and whenever it is cancelled: nobody waits for
\* good for a lock, for a queue that nobody empties, for a connection or for the
\* count - except for a dump command whose copier is gone while it has more to say
\* than its channel takes (rowwriters.go write and queue, progress.go Finish,
\* postgresql_parallel.go wait, executor/pipe.go wg.Wait).
Returned ==
  IF strategy = "pipe" THEN item \in {"success", "failed"} \/ Pipe!Abandoned
  ELSE result # "none"
Returns == <>Returned
=============================================================================
