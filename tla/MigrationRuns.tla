---------------------------- MODULE MigrationRuns ----------------------------
(***************************************************************************)
(* The life of migrations inside the server: the rows of the migrations    *)
(* and migration_logs tables, the registry of cancel functions, and, per   *)
(* migration, the goroutine that runs its plan (Executor.Execute, or       *)
(* Executor.retryRun for a retry) together with the Migrate* goroutine of  *)
(* the plan entry in progress and the channel that joins the two.          *)
(*                                                                         *)
(* HTTP handlers (create, cancel, delete, retry) run concurrently with all *)
(* of them.  Every database statement is one step; code that reads a row   *)
(* and acts on what it read is split where another goroutine can get in    *)
(* between.  What a transfer moves is abstracted to whether it moved       *)
(* anything; one folder's or bucket's transfer is StorageTransfer.         *)
(***************************************************************************)
EXTENDS Naturals, Sequences, FiniteSets

CONSTANTS
  Migrations,  \* the migration IDs the server can hand out
  Path,        \* item paths: a folder, a bucket, "<dbType>/<database>"
  Plan,        \* the plan every migration carries, entries in execution order
  MaxItems,    \* no entry of Plan has more items than this
  ChanCap,     \* how many events an entry's progress channel buffers
  Amounts,     \* what a transfer may have moved: something (TRUE), nothing (FALSE)
  DBFaults,    \* TRUE: a statement updating a migration row may fail
  MaxLost      \* how many statements inserting a log row may fail

Kinds == {"fs", "os", "db"}

ASSUME PlanAssumption ==
  /\ Plan \in Seq([kind : Kinds, items : Seq(Path)])
  /\ MaxItems \in Nat
  /\ \A e \in 1..Len(Plan) : Len(Plan[e].items) <= MaxItems
ASSUME ChanAssumption == ChanCap \in Nat \ {0}
ASSUME AmountAssumption == Amounts \subseteq BOOLEAN
ASSUME FaultAssumption == DBFaults \in BOOLEAN /\ MaxLost \in Nat

Entries == 1..Len(Plan)
Items(e) == 1..Len(Plan[e].items)          \* in ascending Order
PathOf(e, i) == Plan[e].items[i]
PlanItems == {x \in Entries \X (1..MaxItems) : x[2] \in Items(x[1])}

VARIABLES
  stored,    \* the IDs with a row in the migrations table
  row,       \* their status and progress columns
  logs,      \* what a migration logged of its finished items, in order; the
             \* rows of migration_logs are those whose insert went well
  cancels,   \* the IDs registered in Executor.cancels
  ctx,       \* whether a migration's context is cancelled
  run,       \* the goroutine executing a migration
  mem,       \* the model.Migration it works on
  job,       \* the Migrate* call for the entry in progress
  chan,      \* the progress channel of that entry
  deleting   \* DELETE requests that have passed their status check

database == <<stored, row, logs>>
vars == <<stored, row, logs, cancels, ctx, run, mem, job, chan, deleting>>

-----------------------------------------------------------------------------

Final == {"completed", "failed", "cancelled"}
Status == {"pending", "running"} \cup Final
Mode == {"execute", "partial", "full"}

\* The status and progress columns UpdateMigrationStatus writes.  moved is
\* TransferredBytes > 0; note is whether StatusMessage says that source and
\* destination were already identical.
Record == [status : Status, total : Nat, processed : Nat, failed : Nat,
           moved : BOOLEAN, note : BOOLEAN]

\* An EventDone, and the log row made from one; inserted is FALSE for a row the
\* database did not take, which is then in nobody's sight.
Event == [path : Path, status : {"success", "failed", "cancelled"},
          moved : BOOLEAN]
Log == [entry : Entries, path : Path,
        status : {"success", "failed", "cancelled"}, inserted : BOOLEAN]

Ev(p, s, b) == [path |-> p, status |-> s, moved |-> b]

NewRecord == [status |-> "pending", total |-> 0, processed |-> 0, failed |-> 0,
              moved |-> FALSE, note |-> FALSE]
NewRun == [pc |-> "none", mode |-> "execute", sel |-> {}, origin |-> {},
           entry |-> 1, left |-> {}, batch |-> {}, hasFailure |-> FALSE]
NewJob == [pc |-> "none", todo |-> {}, queued |-> {}, busy |-> {},
           results |-> <<>>]
NewChan == [q |-> <<>>, closed |-> FALSE]

Init ==
  /\ stored = {}
  /\ row = [m \in Migrations |-> NewRecord]
  /\ logs = [m \in Migrations |-> <<>>]
  /\ cancels = {}
  /\ ctx = [m \in Migrations |-> FALSE]
  /\ run = [m \in Migrations |-> NewRun]
  /\ mem = [m \in Migrations |-> NewRecord]
  /\ job = [m \in Migrations |-> NewJob]
  /\ chan = [m \in Migrations |-> NewChan]
  /\ deleting = {}

-----------------------------------------------------------------------------
(* Statements and small helpers.                                           *)

\* UPDATE ... WHERE id = ?: no row, no effect, no error.
Write(m, r) == row' = IF m \in stored THEN [row EXCEPT ![m] = r] ELSE row

\* progressTracker.done: the counters after one more finished item.
CountedSuccesses(r, ev) ==   \* mutant: a failed item is not a processed one
  [r EXCEPT !.processed = IF ev.status = "failed" THEN @ ELSE @ + 1,
            !.failed = IF ev.status = "failed" THEN @ + 1 ELSE @]
Counted(r, ev) ==
  [r EXCEPT !.processed = @ + 1,
            !.failed = IF ev.status = "failed" THEN @ + 1 ELSE @,
            !.moved = @ \/ ev.moved]

\* A write whose error the caller only logs.
Save(m, r) == Write(m, r) \/ (DBFaults /\ UNCHANGED row)

\* SELECT from migration_logs, and what the table lacks.
Rows(m) == {k \in DOMAIN logs[m] : logs[m][k].inserted}
Lost == UNION {{m} \X (DOMAIN logs[m] \ Rows(m)) : m \in Migrations}

\* CreateMigrationLog for an item of the entry in progress: a failing insert is
\* reported on the server's own log, and the run goes on.
LogItem(m, p, s) ==
  \E inserted \in BOOLEAN :
    /\ inserted \/ Cardinality(Lost) < MaxLost
    /\ logs' = [logs EXCEPT ![m] = Append(@,
         [entry |-> run[m].entry, path |-> p, status |-> s, inserted |-> inserted])]

FailedItems(m) ==
  {<<logs[m][k].entry, logs[m][k].path>> :
     k \in {j \in Rows(m) : logs[m][j].status = "failed"}}

\* failedSet.has for logs that all carry their plan entry.
SelectedByPath(m, e, i) ==   \* mutant: the path alone identifies an item
  \E x \in run[m].sel : x[2] = PathOf(e, i)
Selected(m, e, i) == <<e, PathOf(e, i)>> \in run[m].sel

Goto(m, label) == run' = [run EXCEPT ![m].pc = label]

\* Start the Migrate* goroutine of entry e over the items in batch.
Launch(m, e, batch) ==
  /\ job' = [job EXCEPT ![m] = [NewJob EXCEPT
       !.pc = CASE Plan[e].kind = "fs" -> "resolve"
                [] Plan[e].kind = "os" -> "launch"
                [] Plan[e].kind = "db" -> "loop",
       !.todo = batch]]
  /\ chan' = [chan EXCEPT ![m] = NewChan]

RoomForOneMore(m) == Len(chan[m].q) <= ChanCap   \* mutant: off by one
Room(m) == Len(chan[m].q) < ChanCap
Send(m, ev) == chan' = [chan EXCEPT ![m].q = Append(@, ev)]
Close(m) == chan' = [chan EXCEPT ![m].closed = TRUE]
SendClose(m, ev) ==
  chan' = [chan EXCEPT ![m] = [q |-> Append(@.q, ev), closed |-> TRUE]]

First(S, i) == i \in S /\ \A j \in S : i <= j

-----------------------------------------------------------------------------
(* The HTTP handlers.                                                      *)

\* POST /migration: insert the row, then `go Execute`.
CreateMigration(m) ==
  /\ run[m].pc = "none"
  /\ stored' = stored \cup {m}
  /\ row' = [row EXCEPT ![m] = NewRecord]
  /\ Goto(m, "launched")
  /\ UNCHANGED <<logs, cancels, ctx, mem, job, chan, deleting>>

\* POST /migration/{o}/retry: only a failed or cancelled original, whose failed
\* logs choose the items of a partial retry; a new row, then `go retryRun`.
Retry(o, m, mode) ==
  /\ o \in stored
  /\ row[o].status \in {"failed", "cancelled"}
  /\ run[m].pc = "none"
  /\ stored' = stored \cup {m}
  /\ row' = [row EXCEPT ![m] = NewRecord]
  /\ run' = [run EXCEPT ![m] = [NewRun EXCEPT
       !.pc = "launched", !.mode = mode, !.origin = {o},
       !.sel = IF mode = "partial" THEN FailedItems(o) ELSE {}]]
  /\ UNCHANGED <<logs, cancels, ctx, mem, job, chan, deleting>>

\* POST /migration/{m}/cancel: 404 unless registered.
Cancel(m) ==
  /\ m \in cancels
  /\ ~ctx[m]
  /\ ctx' = [ctx EXCEPT ![m] = TRUE]
  /\ UNCHANGED <<stored, row, logs, cancels, run, mem, job, chan, deleting>>

\* DELETE /migration/{m}, first statement: 409 for a running migration.
DeleteCheck(m) ==
  /\ m \in stored \ deleting
  /\ row[m].status # "running"
  /\ deleting' = deleting \cup {m}
  /\ UNCHANGED <<stored, row, logs, cancels, ctx, run, mem, job, chan>>

\* DELETE /migration/{m}, second statement.  The log rows stay.
DeleteRow(m) ==
  /\ m \in deleting
  /\ stored' = stored \ {m}
  /\ deleting' = deleting \ {m}
  /\ UNCHANGED <<row, logs, cancels, ctx, run, mem, job, chan>>

-----------------------------------------------------------------------------
(* The run goroutine: Execute and retryRun.                                *)

RegisterExecuteOnly(m) ==   \* mutant: retryRun does not register
  /\ run[m].pc = "launched"
  /\ cancels' = IF run[m].mode = "execute" THEN cancels \cup {m} ELSE cancels
  /\ Goto(m, "registered")
  /\ UNCHANGED <<stored, row, logs, ctx, mem, job, chan, deleting>>
Register(m) ==
  /\ run[m].pc = "launched"
  /\ cancels' = cancels \cup {m}
  /\ Goto(m, "registered")
  /\ UNCHANGED <<stored, row, logs, ctx, mem, job, chan, deleting>>

\* GetMigration; a row already deleted ends the run.
Load(m) ==
  /\ run[m].pc = "registered"
  /\ IF m \in stored
     THEN mem' = [mem EXCEPT ![m] = row[m]] /\ Goto(m, "loaded")
     ELSE Goto(m, "deregister") /\ UNCHANGED mem
  /\ UNCHANGED <<stored, row, logs, cancels, ctx, job, chan, deleting>>

\* status = running.  A partial retry counts its items entry by entry instead.
Begin(m) ==
  LET total == IF run[m].mode = "partial" THEN mem[m].total
               ELSE Cardinality(PlanItems)
      r == [mem[m] EXCEPT !.status = "running", !.total = total]
  IN /\ run[m].pc = "loaded"
     /\ mem' = [mem EXCEPT ![m] = r]
     /\ \/ Write(m, r) /\ Goto(m, "entry")
        \/ DBFaults /\ UNCHANGED row /\ Goto(m, "deregister")
     /\ UNCHANGED <<stored, logs, cancels, ctx, job, chan, deleting>>

NextEntry(m) == run' = [run EXCEPT ![m].pc = "entry", ![m].entry = @ + 1]

\* A database entry of a retry has its targets emptied, item by item, before
\* MigrateDBMS is started over those that could be.
NeedsCleanup(m) == run[m].mode # "execute" /\ Plan[run[m].entry].kind = "db"

\* The head of the three entry loops.
EnterEntry(m) ==
  LET e == run[m].entry
      batch == IF run[m].mode = "partial"
               THEN {i \in Items(e) : Selected(m, e, i)} ELSE Items(e)
  IN /\ run[m].pc = "entry"
     /\ e \in Entries
     /\ ~ctx[m]
     /\ \/ /\ NeedsCleanup(m)
           /\ run' = [run EXCEPT ![m].pc = "cleanup", ![m].left = Items(e),
                                 ![m].batch = {}]
           /\ UNCHANGED <<mem, job, chan>>
        \/ /\ ~NeedsCleanup(m)
           /\ run[m].mode = "partial" /\ batch = {}
           /\ NextEntry(m)
           /\ UNCHANGED <<mem, job, chan>>
        \/ /\ ~NeedsCleanup(m)
           /\ ~(run[m].mode = "partial" /\ batch = {})
           /\ mem' = IF run[m].mode = "partial"
                     THEN [mem EXCEPT ![m].total = @ + Cardinality(batch)]
                     ELSE mem
           /\ Launch(m, e, batch)
           /\ Goto(m, "drain")
     /\ UNCHANGED <<stored, row, logs, cancels, ctx, deleting>>

LeaveLoops(m) ==
  /\ run[m].pc = "entry"
  /\ ctx[m] \/ run[m].entry \notin Entries
  /\ Goto(m, "finish")
  /\ UNCHANGED <<stored, row, logs, cancels, ctx, mem, job, chan, deleting>>

\* One database of a retried entry: skipped when a partial retry does not want
\* it; otherwise resolved and emptied, or failed without being run (failItem).
CleanupItem(m) ==
  LET e == run[m].entry
      partial == run[m].mode = "partial"
      counted == [mem[m] EXCEPT !.total = IF partial THEN @ + 1 ELSE @]
  IN /\ run[m].pc = "cleanup"
     /\ \E i \in run[m].left :
          /\ First(run[m].left, i)
          /\ \/ /\ partial /\ ~Selected(m, e, i)
                /\ run' = [run EXCEPT ![m].left = @ \ {i}]
                /\ UNCHANGED <<mem, logs>>
             \/ /\ partial => Selected(m, e, i)
                /\ mem' = [mem EXCEPT ![m] = counted]
                /\ run' = [run EXCEPT ![m].left = @ \ {i},
                                      ![m].batch = @ \cup {i}]
                /\ UNCHANGED logs
             \/ /\ partial => Selected(m, e, i)
                /\ mem' = [mem EXCEPT ![m] =
                     Counted(counted, Ev(PathOf(e, i), "failed", FALSE))]
                /\ LogItem(m, PathOf(e, i), "failed")
                /\ run' = [run EXCEPT ![m].pc = "cleanupSave",
                     ![m].left = @ \ {i}, ![m].hasFailure = TRUE]
     /\ UNCHANGED <<stored, row, cancels, ctx, job, chan, deleting>>

CleanupSave(m) ==
  /\ run[m].pc = "cleanupSave"
  /\ Save(m, mem[m])
  /\ Goto(m, "cleanup")
  /\ UNCHANGED <<stored, logs, cancels, ctx, mem, job, chan, deleting>>

CleanupEnd(m) ==
  /\ run[m].pc = "cleanup"
  /\ run[m].left = {}
  /\ IF run[m].batch = {}
     THEN NextEntry(m) /\ UNCHANGED <<job, chan>>
     ELSE Launch(m, run[m].entry, run[m].batch) /\ Goto(m, "drain")
  /\ UNCHANGED <<stored, row, logs, cancels, ctx, mem, deleting>>

LastFailure(m, ev) == ev.status = "failed"   \* mutant: assigned, not or-ed
FailureSeen(m, ev) == run[m].hasFailure \/ ev.status = "failed"

\* One EventDone taken off the channel: counters in memory, then the log row.
DrainEvent(m) ==
  LET ev == Head(chan[m].q)
  IN /\ run[m].pc = "drain"
     /\ chan[m].q # <<>>
     /\ chan' = [chan EXCEPT ![m].q = Tail(@)]
     /\ mem' = [mem EXCEPT ![m] = Counted(@, ev)]
     /\ LogItem(m, ev.path, ev.status)
     /\ run' = [run EXCEPT ![m].pc = "drainSave",
                           ![m].hasFailure = FailureSeen(m, ev)]
     /\ UNCHANGED <<stored, row, cancels, ctx, job, deleting>>

\* ... then the row.
DrainSave(m) ==
  /\ run[m].pc = "drainSave"
  /\ Save(m, mem[m])
  /\ Goto(m, "drain")
  /\ UNCHANGED <<stored, logs, cancels, ctx, mem, job, chan, deleting>>

\* The channel is closed and empty: the entry is over.
DrainEnd(m) ==
  /\ run[m].pc = "drain"
  /\ chan[m].q = <<>> /\ chan[m].closed
  /\ NextEntry(m)
  /\ UNCHANGED <<stored, row, logs, cancels, ctx, mem, job, chan, deleting>>

\* Execute's remark about a file-system-only run that moved nothing.
SaysIdentical(m) ==
  /\ run[m].mode = "execute"
  /\ Plan # <<>>
  /\ \A e \in Entries : Plan[e].kind = "fs"
  /\ ~mem[m].moved

Verdict(m) ==
  IF ctx[m] THEN "cancelled"
  ELSE IF run[m].hasFailure THEN "failed" ELSE "completed"

Finish(m) ==
  LET r == [mem[m] EXCEPT !.status = Verdict(m),
              !.note = Verdict(m) = "completed" /\ SaysIdentical(m)]
  IN /\ run[m].pc = "finish"
     /\ mem' = [mem EXCEPT ![m] = r]
     /\ Save(m, r)
     /\ Goto(m, "deregister")
     /\ UNCHANGED <<stored, logs, cancels, ctx, job, chan, deleting>>

\* The deferred cancel() and the removal from the registry.
Deregister(m) ==
  /\ run[m].pc = "deregister"
  /\ ctx' = [ctx EXCEPT ![m] = TRUE]
  /\ cancels' = cancels \ {m}
  /\ Goto(m, "ended")
  /\ UNCHANGED <<stored, row, logs, mem, job, chan, deleting>>

-----------------------------------------------------------------------------
(* MigrateFileSystem and MigrateDBMS: one item after the other.            *)

JobUnchanged == UNCHANGED <<stored, row, logs, cancels, ctx, run, mem, deleting>>

Kind(m) == Plan[run[m].entry].kind
ItemPath(m, i) == PathOf(run[m].entry, i)
CancelledEvent(m, i) == Ev(ItemPath(m, i), "cancelled", FALSE)

\* MigrateFileSystem resolves its source once; failing, it returns before any
\* item, and Execute drops the error it returns.
ResolveWithoutClose(m) ==   \* mutant: the early return leaves the channel open
  /\ job[m].pc = "resolve"
  /\ \/ job' = [job EXCEPT ![m].pc = "loop"]
     \/ job' = [job EXCEPT ![m].pc = "closed"]
  /\ UNCHANGED chan
  /\ JobUnchanged
ResolveSource(m) ==
  /\ job[m].pc = "resolve"
  /\ \/ job' = [job EXCEPT ![m].pc = "loop"] /\ UNCHANGED chan
     \/ job' = [job EXCEPT ![m].pc = "closed"] /\ Close(m)
  /\ JobUnchanged

\* The context check at the head of the item loop.
NextItem(m) ==
  /\ job[m].pc = "loop"
  /\ \E i \in job[m].todo :
       /\ First(job[m].todo, i)
       /\ \/ /\ ctx[m] /\ Room(m)
             /\ job' = [job EXCEPT ![m].pc = "closed"]
             /\ SendClose(m, CancelledEvent(m, i))
          \/ /\ ~ctx[m]
             /\ job' = [job EXCEPT ![m].pc = "item"]
             /\ UNCHANGED chan
  /\ JobUnchanged

\* The item in progress ends: it never started (filter, connection, target
\* database), its transfer ended by itself, or the context ended it.
ItemEnds(m) ==
  /\ job[m].pc = "item"
  /\ Room(m)
  /\ \E i \in job[m].todo, ok \in BOOLEAN, moved \in Amounts :
       /\ First(job[m].todo, i)
       /\ Send(m, Ev(ItemPath(m, i), IF ok THEN "success" ELSE "failed", moved))
       /\ job' = [job EXCEPT ![m].todo = @ \ {i},
                    ![m].pc = IF Kind(m) = "db" /\ ~ok THEN "check" ELSE "loop"]
  /\ JobUnchanged

\* MigrateDBMS returns after a failed item when its context is cancelled.
CheckWithoutClose(m) ==   \* mutant: the early return leaves the channel open
  /\ job[m].pc = "check"
  /\ job' = [job EXCEPT ![m].pc = IF ctx[m] THEN "closed" ELSE "loop"]
  /\ UNCHANGED chan
  /\ JobUnchanged
CheckAfterFailure(m) ==
  /\ job[m].pc = "check"
  /\ IF ctx[m] THEN job' = [job EXCEPT ![m].pc = "closed"] /\ Close(m)
     ELSE job' = [job EXCEPT ![m].pc = "loop"] /\ UNCHANGED chan
  /\ JobUnchanged

ItemsDone(m) ==
  /\ job[m].pc = "loop" /\ job[m].todo = {}
  /\ job' = [job EXCEPT ![m].pc = "closed"]
  /\ Close(m)
  /\ JobUnchanged

-----------------------------------------------------------------------------
(* MigrateObjectStorage: a goroutine per bucket, ObjectConcurrency at a    *)
(* time; their results are reported once every bucket has been launched.   *)

ObjectConcurrency == 1

LaunchBucket(m) ==
  /\ job[m].pc = "launch"
  /\ \E i \in job[m].todo :
       /\ First(job[m].todo, i)
       /\ IF ctx[m]
          THEN job' = [job EXCEPT ![m].pc = "abandon"]
          ELSE job' = [job EXCEPT ![m].todo = @ \ {i}, ![m].queued = @ \cup {i}]
  /\ UNCHANGED chan
  /\ JobUnchanged

AllLaunched(m) ==
  /\ job[m].pc = "launch" /\ job[m].todo = {}
  /\ job' = [job EXCEPT ![m].pc = "gather"]
  /\ UNCHANGED chan
  /\ JobUnchanged

BucketStarts(m, b) ==
  /\ b \in job[m].queued
  /\ Cardinality(job[m].busy) < ObjectConcurrency
  /\ job' = [job EXCEPT ![m].queued = @ \ {b}, ![m].busy = @ \cup {b}]
  /\ UNCHANGED chan
  /\ JobUnchanged

BucketEnds(m, b) ==
  /\ b \in job[m].busy
  /\ \E ok \in BOOLEAN, moved \in Amounts :
       job' = [job EXCEPT ![m].busy = @ \ {b}, ![m].results = Append(@,
                 Ev(ItemPath(m, b), IF ok THEN "success" ELSE "failed", moved))]
  /\ UNCHANGED chan
  /\ JobUnchanged

Idle(m) == job[m].queued = {} /\ job[m].busy = {}

\* Cancelled while launching: wait for the buckets under way, then return.
\* What they put in resultCh is not read.
AbandonAtOnce(m) ==   \* mutant: no wg.Wait before returning
  /\ job[m].pc = "abandon"
  /\ Room(m)
  /\ \E i \in job[m].todo :
       First(job[m].todo, i) /\ SendClose(m, CancelledEvent(m, i))
  /\ job' = [job EXCEPT ![m].pc = "closed"]
  /\ JobUnchanged
Abandon(m) ==
  /\ job[m].pc = "abandon"
  /\ Idle(m) /\ Room(m)
  /\ \E i \in job[m].todo :
       First(job[m].todo, i) /\ SendClose(m, CancelledEvent(m, i))
  /\ job' = [job EXCEPT ![m].pc = "closed"]
  /\ JobUnchanged

ReportBucket(m) ==
  /\ job[m].pc = "gather"
  /\ job[m].results # <<>> /\ Room(m)
  /\ Send(m, Head(job[m].results))
  /\ job' = [job EXCEPT ![m].results = Tail(@)]
  /\ JobUnchanged

BucketsDoneEarly(m) ==   \* mutant: resultCh is not read to its end
  /\ job[m].pc = "gather"
  /\ Idle(m)
  /\ job' = [job EXCEPT ![m].pc = "closed"]
  /\ Close(m)
  /\ JobUnchanged
BucketsDone(m) ==
  /\ job[m].pc = "gather"
  /\ Idle(m) /\ job[m].results = <<>>
  /\ job' = [job EXCEPT ![m].pc = "closed"]
  /\ Close(m)
  /\ JobUnchanged

-----------------------------------------------------------------------------

RunStep(m) ==
  \/ Register(m) \/ Load(m) \/ Begin(m)
  \/ EnterEntry(m) \/ LeaveLoops(m)
  \/ CleanupItem(m) \/ CleanupSave(m) \/ CleanupEnd(m)
  \/ DrainEvent(m) \/ DrainSave(m) \/ DrainEnd(m)
  \/ Finish(m) \/ Deregister(m)

\* The end of a transfer, which may be a long time coming.
TransferEnds(m) == ItemEnds(m) \/ \E b \in job[m].busy : BucketEnds(m, b)

\* Everything else the Migrate* goroutines do.
JobStep(m) ==
  \/ ResolveSource(m) \/ NextItem(m) \/ CheckAfterFailure(m) \/ ItemsDone(m)
  \/ LaunchBucket(m) \/ AllLaunched(m)
  \/ \E b \in job[m].queued : BucketStarts(m, b)
  \/ Abandon(m) \/ ReportBucket(m) \/ BucketsDone(m)

Request(m) ==
  \/ CreateMigration(m) \/ Cancel(m) \/ DeleteCheck(m) \/ DeleteRow(m)
  \/ \E o \in Migrations, mode \in {"partial", "full"} : Retry(o, m, mode)

Next == \E m \in Migrations :
          RunStep(m) \/ JobStep(m) \/ TransferEnds(m) \/ Request(m)

\* The process dies and starts again: the database is what is left.  Start-up
\* repairs interrupted validations (ValidationRuns) and nothing here.
Restart ==
  /\ run' = [m \in Migrations |->
       IF run[m].pc = "none" THEN NewRun ELSE [run[m] EXCEPT !.pc = "ended"]]
  /\ cancels' = {}
  /\ ctx' = [m \in Migrations |-> FALSE]
  /\ mem' = [m \in Migrations |-> NewRecord]
  /\ job' = [m \in Migrations |-> NewJob]
  /\ chan' = [m \in Migrations |-> NewChan]
  /\ deleting' = {}
  /\ UNCHANGED database

Spec == Init /\ [][Next]_vars

CrashSpec == Init /\ [][Next \/ Restart]_vars

\* Goroutines are scheduled, and that is all: nothing makes a transfer end, not
\* even a cancelled one, which may stand in an rsync, a listing or an SSH command
\* without a context.  A property that needs transfers to end says so.
Fairness ==
  \A m \in Migrations : WF_vars(RunStep(m)) /\ WF_vars(JobStep(m))
FairSpec == CrashSpec /\ Fairness

-----------------------------------------------------------------------------
(* Properties.                                                             *)

RunPc == {"none", "launched", "registered", "loaded", "entry", "cleanup",
          "cleanupSave", "drain", "drainSave", "finish", "deregister", "ended"}
JobPc == {"none", "resolve", "loop", "item", "check", "launch", "abandon",
          "gather", "closed"}
Index == 1..MaxItems
RunState == [pc : RunPc, mode : Mode, sel : SUBSET (Entries \X Path),
             origin : SUBSET Migrations, entry : Nat \ {0},
             left : SUBSET Index, batch : SUBSET Index, hasFailure : BOOLEAN]
JobState == [pc : JobPc, todo : SUBSET Index, queued : SUBSET Index,
             busy : SUBSET Index, results : Seq(Event)]
Channel == [q : Seq(Event), closed : BOOLEAN]

\* The shape of the state: rows and records, goroutine positions, channels
\* that never hold more than they buffer.
TypeOK ==
  /\ stored \subseteq Migrations
  /\ row \in [Migrations -> Record]
  /\ logs \in [Migrations -> Seq(Log)]
  /\ cancels \subseteq Migrations
  /\ ctx \in [Migrations -> BOOLEAN]
  /\ run \in [Migrations -> RunState]
  /\ mem \in [Migrations -> Record]
  /\ job \in [Migrations -> JobState]
  /\ chan \in [Migrations -> Channel]
  /\ \A m \in Migrations : Len(chan[m].q) <= ChanCap
  /\ deleting \subseteq Migrations

\* A migration whose row says "running" is registered, so that Cancel reaches
\* it: Execute registers before it writes "running" and its deferred removal
\* comes after the final write.  Delete refuses such a row with "cancel it
\* first", which would otherwise be advice nobody can follow.
RunningIsCancellable ==
  \A m \in stored : row[m].status = "running" => m \in cancels

\* Once a row shows a final status nothing of that migration moves data any
\* more: drainProgress returns only when the Migrate* goroutine has closed the
\* channel, and MigrateObjectStorage waits for its buckets before it returns.
FinalIsQuiet ==
  \A m \in stored : row[m].status \in Final =>
    /\ job[m].pc \in {"none", "closed"}
    /\ Idle(m)
    /\ chan[m].q = <<>>

Count(m, S) == Cardinality({k \in DOMAIN logs[m] : logs[m][k].status \in S})

\* The counters of a row and its log tell one story: an item is logged just
\* before the row counts it, whether the item was run or failed in a retry's
\* cleanup, and a final row counts every item logged.  An item whose log row
\* the database refused is counted like the others.
CountersMatchLogs ==
  \A m \in stored :
    LET n == Len(logs[m])
        f == Count(m, {"failed"})
    IN /\ ~DBFaults => /\ n \in {row[m].processed, row[m].processed + 1}
                       /\ f \in {row[m].failed, row[m].failed + 1}
       /\ row[m].status \in Final => n = row[m].processed /\ f = row[m].failed

\* The final status agrees with what was logged and with the failures the row
\* counts: "completed" has nothing but successes, "failed" has a failure, and a
\* cancelled item makes the run "cancelled".  The verdict does not come from the
\* log rows: a failure whose row the database refused still fails the run.
VerdictMatchesLogs ==
  \A m \in stored :
    /\ row[m].status = "completed" =>
         /\ \A k \in DOMAIN logs[m] : logs[m][k].status = "success"
         /\ row[m].failed = 0
    /\ row[m].status = "failed" =>
         /\ \E k \in DOMAIN logs[m] : logs[m][k].status = "failed"
         /\ row[m].failed > 0

LogsOf(m, e) == {k \in DOMAIN logs[m] : logs[m][k].entry = e}
WholeOrUnresolved(e, n) == n = Len(Plan[e].items) \/ (n = 0 /\ Plan[e].kind = "fs")

\* A completed run has finished each entry whole: all of its items, or, for a
\* file system entry whose source connection could not be resolved, none at
\* all.  A failing CreateMigrationLog is only reported, so that a completed run
\* can lack log rows; its row counts the items all the same, and a log with as
\* many rows as the row counts shows every entry whole.
CompletedEntriesWhole ==
  \A m \in stored :
    row[m].status = "completed" /\ run[m].mode # "partial" =>
      /\ \A e \in Entries : WholeOrUnresolved(e, Cardinality(LogsOf(m, e)))
      /\ Cardinality(Rows(m)) <= row[m].processed
      /\ Cardinality(Rows(m)) = row[m].processed =>
           \A e \in Entries : WholeOrUnresolved(e, Cardinality(LogsOf(m, e) \cap Rows(m)))

Succeeded(o) == {<<logs[o][k].entry, logs[o][k].path>> :
                   k \in {j \in DOMAIN logs[o] : logs[o][j].status = "success"}}

\* A partial retry never runs again an item its original migrated: failedSet
\* keys an item by plan entry and path, so that a path two entries share does
\* not drag the successful one along.
RetrySparesSuccess ==
  \A m \in Migrations : run[m].mode = "partial" /\ job[m].pc \notin {"none", "closed"} =>
    \A i \in job[m].todo \cup job[m].queued \cup job[m].busy, o \in run[m].origin :
      <<run[m].entry, ItemPath(m, i)>> \notin Succeeded(o)

\* A cancelled run gives up its registration, whatever it was doing, when the
\* transfers of cancelled runs end; those nobody cancels may go on for ever.  It
\* is the transfers under way it waits for and nothing else: no early return of
\* the run goroutine or of a Migrate* goroutine leaves it at a channel.
CancelTakesEffect ==
  (\A m \in Migrations : WF_vars(ctx[m] /\ TransferEnds(m))) =>
    \A m \in Migrations : (ctx[m] /\ m \in cancels) ~> (m \notin cancels)

\* When every transfer ends, every run that is launched ends: no early return
\* and no failing item leaves the drain loop waiting for a channel nobody closes.
RunsEnd ==
  (\A m \in Migrations : WF_vars(TransferEnds(m))) =>
    \A m \in Migrations : (run[m].pc = "launched") ~> (run[m].pc = "ended")

-----------------------------------------------------------------------------
(* The inductive invariant behind FinalIsQuiet and VerdictMatchesLogs,     *)
(* with or without process restarts.                                       *)

Starting == {"none", "launched", "registered", "loaded"}
Cleaning == {"cleanup", "cleanupSave"}
Draining == {"drain", "drainSave"}
Active == {"entry", "finish"} \cup Cleaning \cup Draining
Over == {"deregister", "ended"}
JobOver == {"none", "closed"}
Fanning == {"launch", "abandon", "gather"}   \* buckets may be under way

\* The Migrate* goroutine lives only while its entry is being drained, over
\* items of that entry; whoever leaves the drain leaves nothing behind.
JobCoherent(m) ==
  LET e == run[m].entry IN
  /\ run[m].pc \in Cleaning \cup Draining => e \in Entries
  /\ run[m].pc \in Cleaning =>
       run[m].left \subseteq Items(e) /\ run[m].batch \subseteq Items(e)
  /\ job[m].pc \notin Fanning => Idle(m)
  /\ job[m].pc = "abandon" => ctx[m]
  /\ job[m].pc \notin JobOver =>
       /\ run[m].pc \in Draining
       /\ ~chan[m].closed
       /\ job[m].todo \subseteq Items(e)
       /\ job[m].queued \subseteq Items(e)
       /\ job[m].busy \subseteq Items(e)
  /\ run[m].pc \notin Draining => chan[m].q = <<>>

\* Where the run goroutine stands decides what the row can say.
RowCoherent(m) ==
  /\ run[m].pc \in Starting => row[m].status = "pending"
  /\ run[m].pc = "loaded" => mem[m].status = "pending"
  /\ run[m].pc \in Active =>
       mem[m].status = "running" /\ row[m].status \notin Final
  /\ run[m].pc \notin {"none", "launched", "ended"} => m \in cancels
  /\ run[m].pc = "none" => m \notin stored

\* What the verdict is computed from mirrors the log.
VerdictCoherent(m) ==
  /\ run[m].pc \in Starting => logs[m] = <<>> /\ ~run[m].hasFailure
  /\ run[m].hasFailure <=>
       \E k \in DOMAIN logs[m] : logs[m][k].status = "failed"
  /\ ~ctx[m] /\ run[m].pc # "ended" =>
       /\ \A k \in DOMAIN logs[m] : logs[m][k].status # "cancelled"
       /\ \A k \in DOMAIN chan[m].q : chan[m].q[k].status # "cancelled"
  /\ \A k \in DOMAIN job[m].results : job[m].results[k].status # "cancelled"
  /\ row[m].status = "completed" =>
       \A k \in DOMAIN logs[m] : logs[m][k].status = "success"
  /\ row[m].status = "failed" => run[m].hasFailure

Coherent ==
  \A m \in Migrations : JobCoherent(m) /\ RowCoherent(m) /\ VerdictCoherent(m)

\* What RunningIsCancellable needs besides: a run that is over has written its
\* final status, or nothing, provided that no update fails and nothing crashes.
VerdictSaved(m) ==
  ~DBFaults /\ m \in stored /\ run[m].pc \in Over => row[m].status # "running"

-----------------------------------------------------------------------------
(* The inductive invariants behind CountersMatchLogs, RetrySparesSuccess   *)
(* and CompletedEntriesWhole, on top of Coherent.                          *)

Live(m) == job[m].pc \notin JobOver
Working(m) == job[m].todo \cup job[m].queued \cup job[m].busy

\* The counters in memory mirror the log from the first item on, and a final row
\* has them as they were at the end.  As long as updates do not fail, those of
\* the row lag behind by one item at most: the one whose save is due.
CountersCoherent(m) ==
  LET n == Len(logs[m])
      f == Count(m, {"failed"})
  IN /\ run[m].pc \in Starting => row[m].processed = 0 /\ row[m].failed = 0
     /\ run[m].pc = "loaded" => mem[m].processed = 0 /\ mem[m].failed = 0
     /\ run[m].pc \in Active => mem[m].processed = n /\ mem[m].failed = f
     /\ row[m].status \in Final => n = row[m].processed /\ f = row[m].failed
     /\ ~DBFaults /\ m \in stored =>
          /\ run[m].pc \in {"entry", "cleanup", "drain", "finish", "deregister"} =>
               row[m].processed = n /\ row[m].failed = f
          /\ n \in {row[m].processed, row[m].processed + 1}
          /\ f \in {row[m].failed, row[m].failed + 1}

\* Entries are logged in the order of the plan, from the first one on.
LogsInOrder(m) ==
  /\ run[m].pc \in Starting => run[m].entry = 1
  /\ run[m].pc \in Active =>
       \A k \in DOMAIN logs[m] : logs[m][k].entry <= run[m].entry
  /\ run[m].pc = "entry" => \A k \in DOMAIN logs[m] : logs[m][k].entry # run[m].entry

\* An index is in one hand at a time.
Apart(m) ==
  /\ run[m].pc \in Cleaning => run[m].left \cap run[m].batch = {}
  /\ Live(m) => /\ job[m].todo \cap (job[m].queued \cup job[m].busy) = {}
               /\ job[m].queued \cap job[m].busy = {}

\* An item of the entry in progress is in one place: still to do, under way, in
\* a bucket's result, in the channel, or in the log.
InOnePlace(m) ==
  LET e == run[m].entry
      Logged(p) == \E k \in DOMAIN logs[m] : logs[m][k].entry = e /\ logs[m][k].path = p
      Told(q, p) == \E k \in DOMAIN q : q[k].path = p
      Distinct(q) == \A j, k \in DOMAIN q : q[j].path = q[k].path => j = k
      q == chan[m].q
      results == job[m].results
  IN /\ \A j, k \in DOMAIN logs[m] :
          logs[m][j].entry = logs[m][k].entry /\ logs[m][j].path = logs[m][k].path => j = k
     /\ run[m].pc \in Cleaning =>
          \A i \in run[m].left \cup run[m].batch : ~Logged(PathOf(e, i))
     /\ Distinct(q) /\ \A k \in DOMAIN q : ~Logged(q[k].path)
     /\ Live(m) =>
          /\ Distinct(results)
          /\ \A k \in DOMAIN results : ~Logged(results[k].path) /\ ~Told(q, results[k].path)
          /\ \A i \in Working(m) :
               ~Logged(PathOf(e, i)) /\ ~Told(q, PathOf(e, i)) /\ ~Told(results, PathOf(e, i))

\* A partial retry works on items that its original has a failed log row of.
OnlyFailures(m) ==
  run[m].mode = "partial" =>
    /\ \A o \in run[m].origin : run[m].sel \subseteq FailedItems(o)
    /\ run[m].pc \in Cleaning => \A i \in run[m].batch : Selected(m, run[m].entry, i)
    /\ Live(m) => \A i \in Working(m) : Selected(m, run[m].entry, i)

\* The stages of a Migrate* goroutine: results are collected while buckets are
\* under way, and a source is resolved before anything is reported.
InStages(m) ==
  /\ run[m].pc \in Cleaning => Plan[run[m].entry].kind = "db"
  /\ job[m].pc \notin JobOver \cup Fanning => job[m].results = <<>>
  /\ job[m].pc = "gather" => job[m].todo = {}
  /\ job[m].pc = "resolve" => Kind(m) = "fs" /\ LogsOf(m, run[m].entry) = {} /\ chan[m].q = <<>>

\* What is left of an entry while its items are under way.
Outstanding(m) ==
  Len(chan[m].q) + Len(job[m].results) + Cardinality(job[m].todo)
    + Cardinality(job[m].queued) + Cardinality(job[m].busy)

\* As long as nobody cancels, the items of the entry in progress are all
\* somewhere, and those of the entries before it are all in the log.
NothingLost(m) ==
  LET e == run[m].entry
      n == Cardinality(LogsOf(m, e))
      all == Len(Plan[e].items)
  IN run[m].mode # "partial" =>
       /\ run[m].pc \in Active /\ ~ctx[m] =>
            \A d \in Entries : d < e => WholeOrUnresolved(d, Cardinality(LogsOf(m, d)))
       /\ run[m].pc \in Cleaning =>
            n + Cardinality(run[m].left) + Cardinality(run[m].batch) = all
       /\ run[m].pc \in Draining /\ ~ctx[m] =>
            IF Live(m) THEN n + Outstanding(m) = all
            ELSE WholeOrUnresolved(e, n + Len(chan[m].q))
       /\ run[m].pc = "finish" /\ ~ctx[m] => e \notin Entries
       /\ row[m].status = "completed" =>
            \A d \in Entries : WholeOrUnresolved(d, Cardinality(LogsOf(m, d)))

-----------------------------------------------------------------------------
(* A statement of the documentation that the code does not keep.           *)

\* "Returns 409 if the migration is currently running": the row of a running
\* migration is never deleted.
DeleteSparesRunning ==
  [][\A m \in stored : row[m].status = "running" => m \in stored']_vars

=============================================================================
