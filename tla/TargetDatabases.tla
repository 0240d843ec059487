---------------------------- MODULE TargetDatabases ----------------------------
(***************************************************************************)
(* What happens to one target database while a migration item and the      *)
(* retries of it work on it: migrateOneDatabase and the cleanup before a   *)
(* retry in pkg/core/migration, and the asynchronous load they start       *)
(* (MigrationHandle.run of dbmsx), which runs in a goroutine of its own.   *)
(*                                                                         *)
(* Who created the database decides how a failure is undone: one that      *)
(* centipede created is dropped whole by migrateOneDatabase, one that was  *)
(* there before is emptied by the load itself.  dbmsOnFailure = "keep"     *)
(* turns both off.                                                         *)
(***************************************************************************)
CONSTANTS
  Attempts,     \* the runs of the item
  First,        \* the one Execute makes; the others are retries of it
  Overlapping   \* TRUE: retries may run at the same time

ASSUME AttemptsAssumption ==
  First \in Attempts /\ Attempts \cap {"old tables", "old routines"} = {}
ASSUME OverlappingAssumption == Overlapping \in BOOLEAN

VARIABLES
  engine,   \* "sql", or "mongo", where a database is there when it holds something
  keep,     \* dbmsOnFailure = "keep"
  target,   \* the database: is it there, and whose objects does it hold
  item,     \* the goroutine running MigrateDBMS for an attempt, whether it created
            \* the database, and whether it logged that dropping it failed
  load,     \* the goroutine of the asynchronous handle
  ctx,      \* attempts whose migration is cancelled
  hctx      \* attempts whose handle is cancelled

vars == <<engine, keep, target, item, load, ctx, hctx>>

\* Objects that were there before: tables, or something other than a table.
OldTables == "old tables"
OldRoutines == "old routines"

Over == {"success", "failed", "cancelled"}

Target(exists, holds) ==
  [exists |-> IF engine = "mongo" THEN holds # {} ELSE exists, holds |-> holds]

Init ==
  /\ engine \in {"sql", "mongo"}
  /\ keep \in BOOLEAN
  /\ target \in {Target(e, h) : e \in BOOLEAN, h \in SUBSET {OldTables, OldRoutines}}
  /\ target.holds # {} => target.exists
  /\ item = [a \in Attempts |-> [pc |-> "idle", created |-> FALSE, warned |-> FALSE]]
  /\ load = [a \in Attempts |-> [pc |-> "none", ok |-> FALSE]]
  /\ ctx = {}
  /\ hctx = {}

Exists == target.exists
Running(a) == item[a].pc \notin {"idle"} \cup Over
Quiet == \A a \in Attempts : ~Running(a)

At(a, label) == item[a].pc = label
Goto(a, label) == item' = [item EXCEPT ![a].pc = label]

\* Execute runs the first attempt, retryRun the others.
Retried(a) == a # First

-----------------------------------------------------------------------------
(* Requests.                                                               *)

\* POST /migration for the first attempt; POST .../retry, in either mode, for others.
Start(a) ==
  /\ At(a, "idle")
  /\ IF Retried(a)
     THEN /\ item[First].pc \in Over
          /\ Overlapping \/ Quiet
          /\ Goto(a, "look")
     ELSE Goto(a, "turn")
  /\ UNCHANGED <<engine, keep, target, load, ctx, hctx>>

Cancel(a) ==
  /\ Running(a) /\ a \notin ctx
  /\ ctx' = ctx \cup {a}
  /\ UNCHANGED <<engine, keep, target, item, load, hctx>>

\* Between attempts, whoever owns the server may remove or prepare the target.
Operator ==
  /\ Quiet
  /\ target' \in {Target(FALSE, {}), Target(TRUE, {})}
  /\ UNCHANGED <<engine, keep, item, load, ctx, hctx>>

-----------------------------------------------------------------------------
(* The cleanup before a retry.                                             *)

\* TargetDatabaseExists: nothing to do, something to empty, or no answer.
CleanupLook(a) ==
  /\ At(a, "look")
  /\ \/ Goto(a, IF Exists THEN "empty" ELSE "turn")
     \/ Goto(a, "failed")
  /\ UNCHANGED <<engine, keep, target, load, ctx, hctx>>

\* RollbackDropDBMS: every object goes, or some do and the item fails.
CleanupGoingOn(a) ==   \* mutant: a failed cleanup does not stop the item
  /\ At(a, "empty")
  /\ \E left \in SUBSET target.holds :
       /\ target' = Target(Exists, left)
       /\ Goto(a, "turn")
  /\ UNCHANGED <<engine, keep, load, ctx, hctx>>
CleanupEmpty(a) ==
  /\ At(a, "empty")
  /\ \/ target' = Target(Exists, {}) /\ Goto(a, "turn")
     \/ \E left \in SUBSET target.holds :
          /\ target' = Target(Exists, left)
          /\ Goto(a, "failed")
  /\ UNCHANGED <<engine, keep, load, ctx, hctx>>

-----------------------------------------------------------------------------
(* migrateOneDatabase.                                                     *)

\* The loop's check of the context, then the two connections and the source.
TakeTurn(a) ==
  /\ At(a, "turn")
  /\ IF a \in ctx THEN Goto(a, "cancelled")
     ELSE \/ Goto(a, "failed")
          \/ Goto(a, "ensure")
  /\ UNCHANGED <<engine, keep, target, load, ctx, hctx>>

\* EnsureTargetDatabase, the question.  An absent MongoDB database counts as
\* created although nothing is.
EnsureLook(a) ==
  /\ At(a, "ensure")
  /\ \/ Goto(a, "failed")
     \/ /\ Exists
        /\ Goto(a, "filter")
     \/ /\ ~Exists
        /\ item' = [item EXCEPT ![a].pc = IF engine = "mongo" THEN "filter" ELSE "create",
                                ![a].created = engine = "mongo"]
  /\ UNCHANGED <<engine, keep, target, load, ctx, hctx>>

\* CREATE DATABASE, which fails when somebody else was faster.  When only its
\* answer is lost, the database is there and counts as nobody's.
EnsureCreate(a) ==
  /\ At(a, "create")
  /\ \/ Goto(a, "failed") /\ UNCHANGED target
     \/ /\ ~Exists
        /\ target' = Target(TRUE, {})
        /\ \/ item' = [item EXCEPT ![a].pc = "filter", ![a].created = TRUE]
           \/ Goto(a, "failed")
  /\ UNCHANGED <<engine, keep, load, ctx, hctx>>

\* toDBMSFilter: rules the registry does not know fail the item as it stands.
BuildFilter(a) ==
  /\ At(a, "filter")
  /\ \/ Goto(a, "failed")
     \/ Goto(a, "validate")
  /\ UNCHANGED <<engine, keep, target, load, ctx, hctx>>

Undoing(a) == item[a].created

\* ValidateDBMS, then the asynchronous load.
Launch(a) ==
  /\ At(a, "validate")
  /\ \/ /\ Goto(a, IF Undoing(a) /\ ~keep THEN "undo" ELSE "failed")
        /\ UNCHANGED load
     \/ /\ load' = [load EXCEPT ![a].pc = "check"]
        /\ Goto(a, "wait")
  /\ UNCHANGED <<engine, keep, target, ctx, hctx>>

\* The select: ctx.Done() is ready...
StopWithoutCancel(a) ==   \* mutant: the handle is waited for, not cancelled
  /\ At(a, "wait") /\ a \in ctx
  /\ Goto(a, "stopping")
  /\ UNCHANGED <<engine, keep, target, load, ctx, hctx>>
Stop(a) ==
  /\ At(a, "wait") /\ a \in ctx
  /\ hctx' = hctx \cup {a}
  /\ Goto(a, "stopping")
  /\ UNCHANGED <<engine, keep, target, load, ctx>>

\* ... and whatever the handle ends with after that, the item failed.
Stopped(a) ==
  /\ At(a, "stopping") /\ load[a].pc = "done"
  /\ Goto(a, IF Undoing(a) THEN "undo" ELSE "failed")
  /\ UNCHANGED <<engine, keep, target, load, ctx, hctx>>

\* ... or the handle is done.
FinishedKeepingAll(a) ==   \* mutant: a failed load's database is never dropped
  /\ At(a, "wait") /\ load[a].pc = "done"
  /\ Goto(a, IF load[a].ok THEN "success" ELSE "failed")
  /\ UNCHANGED <<engine, keep, target, load, ctx, hctx>>
Finished(a) ==
  /\ At(a, "wait") /\ load[a].pc = "done"
  /\ Goto(a, IF load[a].ok THEN "success"
             ELSE IF Undoing(a) /\ ~keep THEN "undo" ELSE "failed")
  /\ UNCHANGED <<engine, keep, target, load, ctx, hctx>>

\* dropIfOwned: DROP DATABASE IF EXISTS, whose failure is only logged.
Undo(a) ==
  /\ At(a, "undo")
  /\ \/ target' = Target(FALSE, {}) /\ Goto(a, "failed")
     \/ /\ item' = [item EXCEPT ![a].pc = "failed", ![a].warned = TRUE]
        /\ UNCHANGED target
  /\ UNCHANGED <<engine, keep, load, ctx, hctx>>

ItemStep(a) ==
  \/ CleanupLook(a) \/ CleanupEmpty(a)
  \/ TakeTurn(a) \/ EnsureLook(a) \/ EnsureCreate(a) \/ BuildFilter(a) \/ Launch(a)
  \/ Stop(a) \/ Stopped(a) \/ Finished(a) \/ Undo(a)

-----------------------------------------------------------------------------
(* The asynchronous load.                                                  *)

LoadAt(a, label) == load[a].pc = label
LoadGoto(a, label) == load' = [load EXCEPT ![a].pc = label]
LoadOnly == UNCHANGED <<engine, keep, item, ctx, hctx>>

\* What CheckTargetEmpty counts: tables, and tables only.
Counted == target.holds \ {OldRoutines}

\* Empty target, version, character set: any of them may fail, and leaves the
\* target as it is.
LoadUnchecked(a) ==   \* mutant: no check that the target is empty
  /\ LoadAt(a, "check")
  /\ LoadGoto(a, "dump") \/ LoadGoto(a, "done")
  /\ UNCHANGED target
  /\ LoadOnly
LoadCheckUndone(a) ==   \* mutant: a check that fails is undone like a load
  /\ LoadAt(a, "check")
  /\ \/ Counted = {} /\ LoadGoto(a, "dump")
     \/ LoadGoto(a, "failing")
  /\ UNCHANGED target
  /\ LoadOnly
LoadCheck(a) ==
  /\ LoadAt(a, "check")
  /\ \/ Counted = {} /\ LoadGoto(a, "dump")
     \/ LoadGoto(a, "done")
  /\ UNCHANGED target
  /\ LoadOnly

LoadDump(a) ==
  /\ LoadAt(a, "dump")
  /\ LoadGoto(a, "restore") \/ LoadGoto(a, "failing")
  /\ UNCHANGED target
  /\ LoadOnly

\* The first objects arrive.
LoadWrites(a) ==
  /\ LoadAt(a, "restore")
  /\ \/ /\ Exists \/ engine = "mongo"
        /\ target' = Target(Exists, target.holds \cup {a})
        /\ LoadGoto(a, "filling")
     \/ LoadGoto(a, "failing") /\ UNCHANGED target
  /\ LoadOnly

LoadEnds(a) ==
  /\ LoadAt(a, "filling")
  /\ \/ load' = [load EXCEPT ![a] = [pc |-> "done", ok |-> TRUE]]
     \/ LoadGoto(a, "failing")
  /\ UNCHANGED target
  /\ LoadOnly

\* RollbackOnFailure: empty what was there before the item.  rollbackDrop works
\* under the handle's own context, and its error is ignored.
RollbackOnFailure(a) == ~item[a].created /\ ~keep

LoadFails(a) ==
  /\ LoadAt(a, "failing")
  /\ IF RollbackOnFailure(a)
     THEN \E left \in SUBSET target.holds : target' = Target(Exists, left)
     ELSE UNCHANGED target
  /\ LoadGoto(a, "done")
  /\ LoadOnly

LoadStep(a) ==
  LoadCheck(a) \/ LoadDump(a) \/ LoadWrites(a) \/ LoadEnds(a) \/ LoadFails(a)

-----------------------------------------------------------------------------

Next ==
  \/ \E a \in Attempts : Start(a) \/ Cancel(a) \/ ItemStep(a) \/ LoadStep(a)
  \/ Operator

Spec == Init /\ [][Next]_vars

\* The item's goroutine is scheduled.  Nothing is assumed of a load, cancelled or
\* not: some of what it waits for knows no context (pipe.go:117, handle.go:282).
FairSpec == Spec /\ \A a \in Attempts : WF_vars(ItemStep(a))

-----------------------------------------------------------------------------
(* Properties.                                                             *)

\* An item that ends in success leaves its own tables in the target and nobody
\* else's: CheckTargetEmpty refuses a target with tables, and no cleanup comes
\* after a load that succeeded.
EndsWhole ==
  \A a \in Attempts :
    item[a].pc # "success" /\ item'[a].pc = "success" =>
      target'.exists /\ target'.holds \ {OldRoutines} = {a}
SuccessIsWhole == [][EndsWhole]_vars

\* A step of a retry's cleanup.
CleaningUp(a) == At(a, "empty") /\ item'[a].pc # "empty"

\* A step of the load's own undoing, of the item's, and of anybody else but the
\* attempts.
Emptying(a) == LoadAt(a, "failing") /\ load'[a] # load[a]
Dropping(a) == At(a, "undo") /\ item'[a] # item[a]
Outside == item' = item /\ load' = load

\* What is there is lost only where it may be.  Tables from before the first attempt
\* go with the cleanup a retry announces or by somebody else's hand: no failing load
\* empties them, which only its own look at the target keeps it from, and no item
\* drops them.  Under keep nothing at all goes, but to that cleanup or to a cancel.
\* And one failure is undone in one way: what the item created it drops, and its load
\* leaves it alone; what was there before it is never dropped.
LosesOnlyWhatItMay ==
  LET lost == target.holds \ target'.holds IN
  /\ OldTables \in lost => Outside \/ \E a \in Attempts : CleaningUp(a)
  /\ keep /\ lost # {} =>
       \/ Outside
       \/ \E a \in Attempts : CleaningUp(a) \/ (Dropping(a) /\ a \in ctx)
  /\ \A a \in Attempts :
       /\ Emptying(a) /\ lost # {} => ~item[a].created
       /\ Dropping(a) /\ target' # target => item[a].created
OldTablesSafe == [][LosesOnlyWhatItMay]_vars

\* When an attempt that knows it created the database ends without success, the
\* database is gone or the log warns of it, unless keep was asked for and the item was
\* not cancelled, or the exclusion rules could not be built (toDBMSFilter's failure is
\* the one path after the creation that does not undo it).
UndoesWhatItCreated ==
  \A a \in Attempts :
    /\ item[a].created /\ ~At(a, "filter")
    /\ item[a].pc \notin Over /\ item'[a].pc \in {"failed", "cancelled"}
    /\ ~keep \/ At(a, "stopping") \/ At(a, "undo")
    => ~target'.exists \/ item'[a].warned
CreatedIsUndone == [][UndoesWhatItCreated]_vars

\* A retry never fails because of what an earlier attempt left: when its load
\* looks, the target has no tables.
RetryFindsEmpty ==
  \A a \in Attempts : Retried(a) /\ LoadAt(a, "check") => Counted = {}

\* A cancelled item ends wherever the cancel reaches it, provided that a load whose
\* handle is cancelled ends: dbms.go's <-done waits for it, whatever it waits for.
CancelEnds ==
  (\A a \in Attempts : WF_vars(a \in hctx /\ LoadStep(a)))
    => \A a \in Attempts : (a \in ctx /\ Running(a)) ~> ~Running(a)

=============================================================================
