# A verification project for cm-centipede

cm-centipede migrates data between clouds: it builds a *plan* of folders, buckets
and databases to copy, holds and runs *migrations* of such plans in the
background, reports their progress, lets a user cancel, delete and retry them,
and validates what arrived.  This directory holds TLA+ modules of the server and
of its data-migration library, the TLC configurations that check them on small
instances, and proofs that TLAPS checks for every value of the constants.

## 1. Inventory

### Server (`cmd/`, `pkg/`)

| part | state it keeps | operations | hard behaviour |
|---|---|---|---|
| REST handlers (`pkg/api/rest/controller`) | none of their own | create, cancel, delete, retry, validate, read | each is a goroutine; reads a row, then acts on what it read |
| executor (`pkg/core/migration/executor.go`) | `cancels`, a locked map from migration ID to cancel function; per run a `model.Migration` in memory | `Execute`, `Retry`/`retryRun`, `Cancel` | one goroutine per run, joined to one goroutine per plan entry by a channel; cancel at any moment; rows written between events |
| `Migrate*` functions (`filesystem.go`, `objectstorage.go`, `dbms.go`) | loop position; for object storage a semaphore, a result channel and a wait group | copy the items of one entry, send one event per item, close the channel | early returns; cancel while fanning out; a target database that must be dropped, or must not be |
| data access (`pkg/dao/migration.go`) | tables `migrations`, `migration_logs` (SQLite) | create, update status, delete, log, validation columns, repair at start-up | check-then-act, updates that fail, restarts |
| validation runs (`controller/validation.go`) | validation columns of the row; a throttled progress line | start, run, finish, repair at start-up | double start; late progress against the result; a restart in between |
| validation comparison (`pkg/core/validation`) | none | inventories of both sides to a list of findings | must read every rule as the transfer did |
| plan builder (`pkg/core/plan`) | none | a request and inventories to plan entries, or a refusal | rules that only some routes can follow; destinations claimed twice |
| clients, configuration, logging, key handling | configuration read at start-up | HTTP, files, RSA/AES | pure I/O |

### Data-migration library (`data-mig/`)

| part | state it keeps | operations | hard behaviour |
|---|---|---|---|
| `core`: handle, pipeline | status, error, progress report behind a mutex, `done` channel | run steps in order, clean up, cancel | cancellation between and inside steps; cleanup must always run |
| `core`: SSH sessions, tunnels | a shared client connection; two copiers per session | run a command with its input and output, connect, reconnect | dropped errors; a command blocked on a channel nobody reads |
| `storagex`: planner, rsync executor, shards | a plan of steps; a shard queue | direct or relayed copies, sharded copies with a last full pass | a shard fails, a cancel between shards |
| `storagex`: object-store executor | two lanes, retries, multipart uploads, totals under a lock | list, copy, write in parts, abort | an error in one lane, a reply lost after the server acted |
| `storagex/filter` | none | one list of rules, read by this program and by rsync | two readers with different conventions |
| `dbmsx`: handle, planner, server-level calls | step statuses | validate, pre-checks, create, drop, ensure, roll back, scan | look, then act; rollback under a cancelled context |
| `dbmsx/executor`: dump pipe | two remote commands, their copiers, an `io.Pipe` | dump into restore | which side's error is reported, and that both end |
| drivers: dumps | none | the statements of a dump, in an order a target takes; `mysqldump`, `pg_dump`, `mongodump` asked for the same | rules that take objects others need |
| drivers: restores (`rowwriters.go`, `indexdefer.go`, `postgresql_parallel.go`) | queue of INSERTs, writers' transactions, indexes held back; spooled COPY blocks, statements held back | rows over several connections, the rest in order | deadlocks between writers; a failure noticed late; cancellation that reports nothing |
| `dbmsx/filter`, inspection | none | what a rule takes; the inventory without it | dump and inventory must agree |

### What makes each part correct

* A row's counters and its log rows agree; its verdict is what the log rows say.
  Nothing moves data for a migration that shows a final status. One that shows
  `running` can be cancelled, and a cancel ends it as soon as the transfer it may
  be waiting for has ended. A partial retry runs what failed and nothing else.
* A target database that centipede created does not survive an item that did
  not succeed, or the log warns of it; what was there before is lost only where a
  retry, or a cancel, announces it; a failure is undone in one way only.
* A validation that shows `running` has a goroutine that will end it, across
  restarts; the verdict is the one the details beside it give.
* A transfer that returns without an error moved everything, nothing of it moves
  after it returned, its figures count a byte once, and no upload is left open.
* A restore over many connections ends as if the dump had been run in order on
  one; nothing it does deadlocks with itself; it comes back.
* A copy under exclusion rules holds exactly what the rules leave, and the
  validation of it reports what is wrong and nothing else.
* The rules of a storage migration mean the same to rsync, to this program's own
  copies and to the validation; what is refused is refused before anything is
  written.
* A server-level call takes effect at one moment and answers truly of it.

## 2. Modules

| module | models | composed with |
|---|---|---|
| `MigrationRuns` | rows, logs, registry, run goroutine, `Migrate*` goroutines, channel, HTTP handlers, restart | takes a transfer as one step (`ItemEnds`, `BucketEnds`) |
| `StorageTransfer` | one such step for folders and buckets: `runStorageTransfer`, handle, pipeline, rsync shards | implements `AsyncJob` |
| `AsyncJob` | what a `core.Handle` promises its holder | abstract specification |
| `ObjectCopies` | one step of object storage: lanes, retries, parts, aborts, totals | the "s3" step of `StorageTransfer` in detail |
| `TargetDatabases` | one step of `MigrationRuns` for databases: `migrateOneDatabase`, retry cleanup, asynchronous load, rollback | takes a load as a few steps |
| `DatabaseLoads` | such a load in detail, whichever way it goes | INSTANCEs `DumpPipe`, `MySQLRestore`, `PgRestore` |
| `DumpPipe` | handle, two commands over SSH, their copiers, the pipe | |
| `MySQLRestore` | reader, row writers, indexes held back and rebuilt, progress count, the server's locks | |
| `PgRestore` | reader, spooled COPY blocks, what is held back until the rows are in, roles | |
| `DatabaseServers` | create, drop, ensure, prepare, roll back and scan on one server, statement by statement | implements `AtomicDatabases` |
| `AtomicDatabases` | a server on which such calls take effect at one moment | abstract specification |
| `DumpFilter` | exclusion rules of a database: what each takes | used by the next four and by `TransferPlan` |
| `DumpScripts`, `CommandDumps` | what a dump writes, directly and by an engine's own tool; what goes over a pipe | used by `FilteredCopy` |
| `TextRules` | character sets and collations: what a dump will name, what the target knows, the gate | used by `FilteredCopy` |
| `FilteredCopy` | gate, dump, load, inspection and validation of one database under rules | EXTENDS the four above |
| `PathRules` | path and size rules, as `MatchPath` and as rsync read them | used by the next two |
| `TransferPlan` | the plan builder | used by `FileCopies` |
| `FileCopies` | plan, route, transfer and validation of folders and buckets | EXTENDS `TransferPlan` |
| `ValidationRuns` | the validation of a migration, its goroutine, start-up repair | shares only columns of its own with `MigrationRuns` |
| `MC...` | constants for TLC | one for each of the nine with runs |
| `...Proofs` | theorems and proofs | `MigrationRuns`, `TargetDatabases`, `ValidationRuns`, `StorageTransfer`, `ObjectCopies`, `DatabaseLoads`, `DatabaseServers`, `FileCopies` |

`MigrationRuns` splits the server where its goroutines meet: an item is in
progress from `NextItem` to `ItemEnds`, and nothing of it moves afterwards. That
is what `StorageTransfer` shows of one transfer (`QuietOnReturn`), as well as
that the error it answers with can be trusted (`SuccessIsWhole`), so that the
items of `MigrationRuns` succeed when the data is there. `TargetDatabases` says
the same of a database item, taking for granted that a load which returns nil is
whole and that it returns, which is what `DatabaseLoads` shows; and `FilteredCopy`
runs a dump's statements one after the other, which `DatabaseLoads` justifies
(`AsIfInOrder`).

### MigrationRuns

`stored` and `row` are the migrations table, with the columns
`UpdateMigrationStatus` writes; `logs` is migration_logs; `cancels` is
`Executor.cancels`; `ctx` is a run's context; `mem` is the `model.Migration` the
run goroutine updates between two writes; `run[m].pc` is where `Execute` or
`retryRun` stands; `job[m]` is the `Migrate*` goroutine of the entry in progress,
with its buckets; `chan[m]` is the channel between them; `deleting` are the DELETE
requests past their check.

Every database statement is a step, and each handler is split where it reads and
later writes. The drain takes an event, counts it and inserts the log row
(`DrainEvent`), and then writes the row (`DrainSave`). Either may fail, which
the code reports on its own log only: a row update under `DBFaults`, a log row
up to `MaxLost` times (`LogItem`). `logs` has the refused rows too, marked as
such; what the table holds of it is `Rows`, and a partial retry sees no more
than that. Progress ticks, sizes, messages and timings are left out; "did this
transfer move a byte" is kept, because the final message depends on it.

### TargetDatabases

`target` is the database on the destination server: whether it is there, and
whose objects it holds (`old tables`, `old routines`, or an attempt's own).
`item` is the goroutine in `migrateOneDatabase`, `load` the one behind the
handle, `hctx` the handle's context, cancelled by the item. `engine` separates
MongoDB, where a database exists when it holds something; `keep` is
`dbmsOnFailure`. `Operator` lets somebody else change the target between two
attempts. A CREATE whose reply is lost leaves a database nobody knows to have
made (`EnsureCreate`).

### ValidationRuns

`row` holds the validation columns; `job[r]` is a POST and then its goroutine
with the row as it read it (`m`), because `UpdateMigrationValidation` writes all
columns of that copy. Details are reduced to their statuses. "lost" marks a
goroutine that ended because a database call failed, or a repair at start-up
that failed: both are logged and change nothing else.

### StorageTransfer and AsyncJob

`item` is `runStorageTransfer`, `h` the handle with its goroutine's position and
pipeline step, `at[k]` the files at the destination of step `k`, `shard` the
rsync processes of a sharded step, `sent` what `shardSum` and the final run
report, `prog` what a poller sees. Every file counts one byte. rsync never looks
at its context once started; an S3 step ends with the context's error. centipede
itself sets no commands, but they are part of the handle's code and of the model.

### ObjectCopies

`mode` is the executor (upload, download, stream) with what the destination is;
`lane` the two lanes of `forEachInLanes` with their errgroups' first errors;
`obj` each object's position, try, how far this try read and how far any try did
(`credited`); `part`, `upload` and `stray` a multipart upload here and on the
server; `total` is `s3Progress`. Each request may fail before or after the
server acted. A try reads an object in steps, so that a retry starts behind what
was credited.

### DatabaseLoads, DumpPipe, MySQLRestore, PgRestore

`strategy` is the way `dbmsx/planner.go` and the engine of the target choose. The
variables of the ways not taken stay put; the restores share those that mean the
same in both.

`DumpPipe` has the dump in chunks: an SSH channel takes `Window` of them that
nobody has read, the `io.Pipe` none. `copy` are the copiers of `pumpSession`,
whose errors the code drops. `MySQLRestore` has connections 0 (the reader's) to
`n`: the queue and the writers' positions are RowWriters, `held`, `checked`,
`drops` and `groups` the IndexDeferrer, `row` where each INSERT is (`under` which
session statements), and lock rules of InnoDB decide what waits and what is
killed. `single` is the restore without writers, for a server with no connection
to spare. `PgRestore` has the groups of COPY blocks between two statements that
must see them, `postIndexes`, `postData` and `matViews` held back, and the role
that silences triggers, which a server may refuse.

### DatabaseServers and AtomicDatabases

`asks` are the calls, `todo` the statements each still has to send, `known` what
it read and acts on later: whether PostgreSQL has the role, the schemas still to
be granted on, and what a rollback's inspection found. `dbs` and `users` are the
server. A connection breaks before or after the server acted; other clients
write in between. The rollback of a failed load inspects, then drops what it saw
and every PostgreSQL schema it saw but `public`, with all that is in them by
then (`Survey`, `rollbackDrop`). PrepareTarget lists the schemas, then grants on
them one at a time (`ListSchemas`, `GrantSchema`). `scan` is InspectAll's list
and what became of each name on it. `before` and `lasting` record what stood
when a call began and what has stood since, for the properties.

### DumpFilter, DumpScripts, CommandDumps, TextRules, FilteredCopy

A catalogue is the sequence of a database's objects as the server lists them,
each with what it hangs on, names and points at; a dump is a sequence of
statements with the object each makes. `DumpScripts` has the order and the
narrowing by rules of each engine's direct dump, `CommandDumps` those of the
tools run over SSH. `FilteredCopy` takes a copy from the check of its rules over
the gate, the script and the load to the inspection and verdict; `target` runs
each statement with the server's checks, `disturbed` is what happens between load
and validation, `unread` the tables whose count fails.

### PathRules, TransferPlan, FileCopies

A path is a sequence of segments and so is a pattern; rsync's arguments are
modelled by what rsync does with them. `TransferPlan` is made of operators, one for
each check and step of the plan builder; an entry is answered with what is to be
copied, with a refusal, or with the failure of a service it asks, and the plan lists
folders, then buckets, then databases. In `FileCopies` a request becomes a plan,
a plan's entries take their routes (rsync between hosts, a relay through a staging
directory, upload, download, bucket to bucket), `store` has the trees, `why` how
each entry ended, and the validation lists both sides again.

## 3. Runs

| run | asks | instance |
|---|---|---|
| `runs` | does a final status mean that all is quiet, does a completed run report its entries whole, does a cancel end a run, do runs end? | one migration; a plan with a folder entry and a bucket entry of two items each and a database entry; restarts, failing updates and two log rows lost |
| `runs_retry` | registry, counters, verdict and the choice of a partial retry's items | two migrations, each may retry the other; two entries sharing a path; one log row lost |
| `target_sequence` | is success whole, is what was there safe, is what was created undone and that once, does a cancelled item end? | a run and a retry, both engines, with and without `keep`, over every initial target |
| `validation` | does the verdict match the details, is `running` ever orphaned? | two requests, two entries, restarts, failing database calls |
| `transfer` | whole on success, quiet on return, cancellation, refinement of `AsyncJob` | three files, two shards, all six pipelines |
| `objects` | true results, every byte counted once, no upload left open, return | an object below what a PUT carries, two above it (one part and two), one foreign; two tries of each request; upload, download and stream to five kinds of destination |
| `loads` | is a load whole and in order, do its statements leave each other alone, does it return? | a dump of four chunks over channels of two; two MySQL dumps, with one or two writers asked for and few or enough connections free; three PostgreSQL dumps over one to three connections |
| `copies` | is a copy under rules exact, is what is refused refused for a cause, is the validation's verdict true? | a catalogue for each engine, direct and over SSH, every set of at most two rules, pairs of servers that know different collations |
| `servers` | do server-level calls take effect once, spare what was there, leave a target that can be loaded? | two calls of any kind, one fault, one write by another client |
| `files` | is what the rules let through what arrives, is the verdict true, does a refusal touch nothing? | a host, a bucket and two database servers; every route with every list of rules out of a small stock; one fault, two tries |

Two more runs each show one statement of a comment or of the library's
documentation that the code does not keep (section 6).

Why the bounds are enough. The channel buffers one event, so a full and an empty
channel both occur with two items. One entry of each kind visits every `Migrate*`
function, two items an entry that is cut short in its middle, and a database
entry after the others a cancel before an entry begins. One bucket at a time
with two buckets leaves one waiting and one in progress. Two migrations are all a
retry relates (IDs are not reused), and the shared path separates "same path"
from "same item". Two attempts make a first run and a retry. Two
validations are what it takes to race, and two entries let a failure be followed
by a success. Three files in two shards give a shard of two files, which can die
after one of them; both halves of every two-step pipeline are rsync and S3.

Two lanes need an object each, and the second of the large ones has two parts so
that one can fail while the other is being sent; the listing is not by size, since
`forEachInLanes` picks by size out of it. Two tries are the least that make a
retry. Two writers are what a deadlock needs, and three connections let two COPY
blocks load beside the reader. A window of two chunks and a dump of four let the
dump command be done before anything is restored, or be blocked half way. Rules of
a copy interact in pairs: one takes what the other's object needs. The catalogues
have one object of each kind and one more where two are compared. Two calls
are what it takes to race on a server. The bounds of a model are the constants of
its MC module and cfg, and the following: `MaxItems` (items of an entry), `MaxLost`
(log rows the database refuses), `Amounts` (what a transfer may have moved; that it
may be nothing matters for the final message only), `MaxFaults` and `MaxWrites` (failures, and writes of another client, in a behaviour),
`MaxTries`, `Attempts` (tries of a request).

CHECK_DEADLOCK is off: a server with nothing asked of it, and a transfer that has
returned, stop.

### Fairness

* Goroutines are scheduled: weak fairness of `RunStep` and `JobStep`
  (`MigrationRuns`), `ItemStep` (`TargetDatabases`, `StorageTransfer`), `RunStep`
  (`ValidationRuns`), `HandleStep` (`StorageTransfer`), `Internal` (`ObjectCopies`)
  and of each goroutine in `DatabaseLoads`.
* Nothing is assumed of what a transfer or a load waits for, cancelled or not. rsync
  and the user's commands run without a context, and so do listings, presigned
  URLs, the local directory of a download, the abort of an upload and the commands of a
  piped load; not all of them have a timeout either. Where a property needs it the
  assumption is stated in the property itself: `CancelTakesEffect`, `CancelReturns`,
  `CancelEnds`, `RunsEnd` and `TransferReturns` have the form "if they end, then".
  What they show is that the program waits for these and for nothing else.
* In `ObjectCopies` the requests of whole objects and those of parts have contexts of
  their own, cancelled by the first error of a lane or of the other parts, so that its
  assumption is about requests under a cancelled context and those that have none.
* In `DatabaseLoads` a remote command goes on as long as its channels let it, and
  a statement ends that waits for no lock: that a load returns is a property of
  this program only when the servers do their part.
* A comparison of the validators ends: they have no context either; the same
  reservation applies to `ValidationEnds`.
* `servers`, `copies` and `files` check safety only.

## 4. Proofs

TLAPS proves the following for every value of the constants. Each module says in
its heading how its invariant is made. The shape is the same throughout: an
invariant that says, for each position of each actor, what the shared state can
be; one lemma for each action (or for each action and part of the invariant);
and the property from the invariant. TLC checked each invariant before it was
proved.

**`MigrationRunsProofs`**, from `PlanAssumption`, `ChanAssumption` and
`FaultAssumption`. The invariant is `TypeOK /\ Coherent`. The safety properties are
not inductive: that a final row is quiet depends on what the drain loop waits
for, so that `Coherent` relates, for each migration, the position of the run
goroutine to the `Migrate*` goroutine and the channel (`JobCoherent`), to the row
and the registry (`RowCoherent`), and the failure flag to the log rows and the
events still under way (`VerdictCoherent`: without a cancel no event, result or
log row says "cancelled"). From it follow `FinalIsQuiet` and `VerdictMatchesLogs`.
The theorems are about `CrashSpec`, which has the crashes and restarts of the
server next to the steps of `Spec`, so that they hold with and without them. A log
row the database refuses is in `logs` all the same, marked, so that each property says
of which rows it speaks: the verdict and the counters of a row do not depend on what
the table took (`CountersMatchLogs`, `VerdictMatchesLogs`), and of the table
`CompletedEntriesWhole` says that it has at most as many rows as the run counted
items, and with as many shows every entry whole.

The second half of the module goes on from there with what a run has counted.
`CountersCoherent` says that the counters in memory are those of the log rows,
but for the one event between its log row and its save; `LogsInOrder` and `Apart`
that the items of an entry are logged one after the other, each once; `InStages`
that what is logged lies behind the entry in progress; `NothingLost` that what a
finished entry's items ended as is in the log, in the channel or in hand;
`VerdictSaved` that a final row shows the counters of the whole log. From these
follow `CountersMatchLogs` (its first half says nothing of failing updates, whose
row lags behind) and `CompletedEntriesWhole`, with failing updates, log rows that
are refused and crashes; `RunningIsCancellable`, when row updates do not fail (the
write that fails may be the last one, and the row then says `running` for good); and
`RetrySparesSuccess`, for plans in which no entry lists a path twice
(`DistinctPaths`; section 6 says why it takes that).

**`TargetDatabasesProofs`**. The invariant (`OwnersInv`) says at each position
of an item and its load whose objects the target may hold, and what the item
remembers of how it found the target: a target with old tables has no load in
it, a target a load may empty is not its item's own, and one its item may drop
is. `OldTablesSafe` and `CreatedIsUndone` hold for any number of attempts,
overlapping or not. `RetryFindsEmpty` and `SuccessIsWhole` take attempts that
take turns (`Overlapping = FALSE`, the invariant's part `TurnsInv`), which the
code leaves to its users.

**`ValidationRunsProofs`** strengthens the two invariants with `CopiesExplained` (the
columns a goroutine will write back agree, too) and `NobodyAfterInterruption`
(nobody works on a row that start-up closed out). Restarts and failing database
calls are included.

**`StorageTransferProofs`** ties the handle's position to its status and error
(`PositionTold`), to the destinations behind it (`BehindIsWhole`) and to the
answer (`ReturnedTold`). `WholeOnSuccess` and `QuietAfterReturn` follow, and
`HandleImplements`: every step of `StorageTransfer` is a step of `AsyncJob` or
leaves its variables unchanged, under the mapping of `Promise`.

**`ObjectCopiesProofs`**. For each object the position in its try decides what has
been read, credited, uploaded and asked to be aborted (`NothingYet`, `Copied`),
the lanes what the total may be (`Counted`), and what was returned what all that
adds up to (`Returned`). A byte counts once because what was credited of an
object is an initial piece of it, and the total the sum of such pieces; the sum
is proved as the cardinality of a set of bytes, since a recursive sum is beyond
the prover. `NothingStaysOpen` and `ResultHolds` follow.

**`DatabaseLoadsProofs`** begins with the PostgreSQL restore, from `PgAssumption`. `Loading` says of each COPY block above the
reader that it is in, being loaded, or that a load has failed and will be told
of; `Sorted` of every other statement above the reader that it has been run or is
held back, and that no trigger or foreign key has been run while rows may still
come; `InSession` that each connection stands where the dump's settings have it,
which makes the settings sent to all connections at once (`execAll`) and those
given to a copier opened late (`setup`) the same. `NothingFires` follows.
`OnlyFaultsFail` takes `Blameless` besides (what is held back is in the dump's
order, a load has seen nothing run that is below its block but a setval, nothing
failed by itself) and the premise that each dump is `InWorkingOrder`: a statement
needs only what is above it, nothing that is run at once needs what is held back,
and a rename comes below all that names its schema. The dumps of the `loads` run
satisfy it. The halves of `SuccessIsWhole` and of `AsIfInOrder` that are about
PostgreSQL are the lemmas `PgSuccessIsWhole` and `PgInOrder`.

It goes on with the other two ways of loading, from `MySQLAssumption`. Of the pipe `Conserved` says that, as long as nothing has failed
and nobody has asked for a stop, the chunks written are those in the two channels,
in the copiers' hands and loaded, and that the pipe is closed behind the last of
them; `HandleStands` ties the handle to the two sides. A MySQL restore is proved
about in four layers, each on top of the one before:

* `MyInv`. What each place of the reader says of the writers. `RowsKept`: every row
  above the reader is in, in an open transaction or in the hands of a writer, or the
  restore is going to fail. `Calm`: behind a barrier nothing is under way and no
  transaction is open. `UnderWay`: the session statements and definitions run are
  those above each row in hand. `AsIfInOrder` follows for every MySQL dump; with
  `PgInOrder` it is the theorem `EveryDumpInOrder`.
* `Indexed`. The groups in which the indexes held back are put back are closed under
  foreign keys (`Apart`), and behind the last of them none is held back (`PutBack`).
* `ShownSoFar`. The tables counted as done are those named so far. The counting
  takes the tables of a dump to come one after the other, so that
  `EverySuccessIsWhole` has the premise that the rows of a table stand together
  (`RowsTogether`), as mysqldump writes them. That premise is needed only for the
  numbers shown.
* `Unkilled`. A table whose first row is being written has no other row under way
  (`FirstAlone`), one that counts as written to is not empty (`WrittenTo`), and a
  writer that has nothing to do keeps no transaction open (`NothingKept`). As the
  code knows a table by the name it reads out of a statement, `NoStatementIsKilled`
  has the premise that no two tables are read as the same one (`TablesApart`).

The dumps of the `loads` run satisfy both premises.

**`DatabaseServersProofs`**, from `RequestAssumption` and `ServerAssumption`.
First, as facts about the constants alone, that every call's statements are a
plan (`StatementsPlanned`): a drop, a load or a rollback comes last, a count
before it when the call promises one, PostgreSQL's grant before the schemas.
`Placed` keeps each call in its plan; every step of any call then is one of six
moves in each plan (`CallMoves`), so that `Emptied` and `Granted` are proved
once for each move and not for each statement. `Standing` says that what stood
when a call began is there as long as its database was not dropped since; with
it the count, taken by an earlier statement, still tells of the old tables when
the drop comes. `SchemasGranted` is the same for the schemas: one that stood
when the call began, and stands, is on the list of those still to be granted on
or has been granted on, since a rollback that drops it takes it out of what has
stood as well (`Dropped`). `OldTablesSurvive`, `PreparedAccountsLoad` and
`CallsTakeEffectOnce` follow, the last one step by step: each statement is a
step of `AtomicDatabases` or leaves its variables unchanged, under the mapping
of `Promise`. Any number of calls, broken connections and other clients' writes
is included.

**`FileCopiesProofs`**, from `RequestAssumption`. The checks on an entry's route are
asked at different stages, some of them after a fault and on a second pass. The
invariant takes them together: `Fit` says of an entry, without its state, that it
passes all of them; `Passed` that every stage behind the entry at work has passed its
own; `WritesAreLast` that the stage that writes is the last on each of the seven
routes. A destination is therefore written to only for an entry that is `Fit`
(`OnlyIfFit`), and an entry refused for a cause is not (`Told`).
`RefusalLeavesNoTrace` follows. Entries that share a destination are left out of the
property, since the other one may write there.

`WritesStayInScope` has them in. Each write, a whole one or what a fault or a shard left
of it, lies on the old tree (`Onto`) and at paths below the entry's root, for a database
under its name (`Reaches`); so, as long as nothing else has written to a destination
(`Scoped`), nothing that stood there when an entry was started is gone, and what is new
or different lies where an entry that was begun and is `Fit` may write. Rules do not
enter, so it holds for every list of them. TLC has checked `Scoped` on the instance of
the `files` run.

Only model-checked: everything of `FilteredCopy`, and `SentAsPlanned` and
`VerdictTrue` of `FileCopies`. The latter two compare how `MatchPath` and rsync read a
list of rules with what the list promises (`Kept`). The code inserts a rule into the
list (`withDirPass`) and picks others out of it, by operators that are defined by
recursion over sequences, so that the comparison needs an induction over the list,
which the backends cannot do; what `SentAsPlanned` says without the rules is in
`WritesStayInScope`. `CopyIsExact`, `FailsOnlyAtAGap` and `VerdictTrue` of `FilteredCopy`
are about scripts put together in the same way. `RefusedForCause` is not true of
every migration: PostgreSQL's check does not see a rule that names a schema
(section 6), so that the gate may stop a copy for a table such a rule excludes; the run
has no migration where that matters, and a theorem would have to assume as much.
Liveness under fairness is beyond the prover, and so is ENABLED, which fairness
contains.

## 5. Not modelled

* Field encryption, the clients of other services, managed TLS, configuration and
  logging, the data-model package: I/O, cryptography or declarations, with no
  control that a state machine would show.
* The generated API documentation, the web console, deployments, examples and the
  generators of test data: not the program.
* Shared SSH connections, their keep-alive and the tunnel that reconnects
  (`core/ssh.go`, `core/tunnel.go`). What a load runs over a connection is in
  `DumpPipe`, with connections that can fail to be made or break.
* Within modelled parts: the text of statements, types of columns and versions of
  servers; patterns by character; the names of staging files and their removal; folders that
  hold no file, since trees have files only;
  that a dump taken while others write is no snapshot; listings of folders, buckets
  and databases for display, which only read; the checksums of a validation's
  stricter modes.

## 6. Where the code and its documentation disagree

Shown by a run:

* `delete_race`: the row of a running migration can be deleted; the check and
  the delete are two statements (`pkg/dao/migration.go:168`).
* `copies_one_schema`: the one schema of a PostgreSQL database, when it is not
  `public` and keeps its name, is restored into `public`
  (`driver/postgresql/postgresql.go:889`, `dbmsx/model.go:481`).

Noticed while modelling, and not given a run. The runs leave out the cases that
would only show these again, and the comments of the MC modules say where; where a
case is in a run, the property names it.

Migrations:

* A process that dies while a migration runs leaves its row `running`; it is
  then neither cancellable (not registered) nor deletable (refused while
  running). Start-up repairs validations only. A failing write of the final status
  leaves the same row.
* A log row that cannot be written is only reported (`executor.go:183`, `:555`,
  `:754`). A completed run may then show fewer log rows than items, and a partial
  retry, which goes by the log rows, leaves a failed item out whose row was lost. The
  counters and the verdict of the row are right all the same.
* A log row may say "cancelled" (`filesystem.go:162`), which
  `model/migration.go:109` does not list. That of a retried item infers from the
  item's failure that its rollback succeeded (`executor.go:680`); that of a first run
  does not say who created the database (`executor.go:108`).
* Cancelled while buckets are being launched, an object-storage entry does not
  report the buckets that finished (`objectstorage.go:439`).
* A folder entry whose SSH configuration cannot be resolved reports nothing, and
  the run completes with the message that source and destination are identical
  (`filesystem.go:136`).
* A plan that names a source path twice in one entry, to two destinations, is
  accepted (`plan/entry.go:183` compares destinations only); a partial retry, which
  finds an item by its path, then runs again one that succeeded.
* Nothing keeps two retries of one original from running at once
  (`executor.go:600`, `controller/migration.go:342`), nor two validations
  (`controller/validation.go:72`); with two validations of different modes a row can
  show the mode of one and the result of the other.

Target databases and loads:

* A cancelled load may keep what it loaded, because its rollback uses the
  cancelled context (`dbms.go:598`, `dbmsx/handle.go:180`), although
  `model/migration.go:205` says otherwise. The rollback removes objects that no
  attempt wrote, since the check for an empty target counts tables
  (`handle.go:443`). When the reply to CREATE DATABASE is lost, the database is there and
  counts as nobody's (`dbms.go:399`): nothing drops it, and a retry takes it for one
  that was there. A database created by `EnsureTargetDatabase` is not dropped when
  the exclusion rules cannot be built afterwards (`dbms.go:581`).
* `pumpSession` drops what its copiers return (`core/ssh.go:289`). Once the pipe is
  torn down nobody reads the dump's channel, and a dump that has more to say than
  its window takes blocks, and with it Execute, the handle and the item
  (`Abandoned`; `executor/pipe.go:118` says that both sides unwind). With the rest
  inside the window a cancelled handle says "done"; the item says failed.
* The pattern by which the MySQL and MariaDB restores read a table's name stops at
  a hyphen (`mysqlInsertRe`): `order-items` and `order-lines` share a queue, against
  `rowwriters.go:203`. The runs' names are whole words (`Word`); with two tables that
  share one, the second's first INSERT is not written alone, which is why
  `NoStatementIsKilled` has its premise.
* A PostgreSQL dump of several schemas, restored with one renamed, renames it while
  statements that are held back still name the source's (`postgresql.go:721`).
* A writer's failure after the reader's own may leave its transaction open until
  the connection closes: `NeverKilled` is about a restore that goes on.

Storage:

* rsync does not honour the context (`executor-rsync.go:341`, against
  `core/pipeline.go:19`); a cancel that arrives during the destination's command ends
  as "done".
* `runStorageTransfer` says that bytes are -1 when they could not be counted;
  the handle's figure starts at 0 and only grows, so it never is.
* Rules with `size ==`, or an include by size, pass the plan between hosts and are
  refused by `rsyncFilterArgs` later; so does an exclude of `size >= 0`.
* Of several `size` rules of one direction rsync keeps the last `--max-size` or
  `--min-size` (`filter/size.go:64`, `executor-rsync.go:701`), while every other reader
  takes all of them, and the plan accepts such a list (`target.go:376`, `:427`): a file
  that only an earlier rule excludes is sent. The files run has such lists, and
  `SentAsPlanned` says nothing of these files (`Surplus`).
* Between buckets the marker of the copied folder itself lands as an object with the
  folder's name (`executor-s3.go:519`): `Surplus`, too. The validation of such a copy
  reports it.
* rsync's target folder is made before its rules are refused (`executor-rsync.go:222`,
  `:305`): an entry that fails for them leaves an empty folder behind.
* `docs/a` and `docs//a` end as one object in a copy between buckets; one between
  buckets through a host drops the markers of empty folders, and the validation
  reports them missing. A copied folder with a dot in its name ends a level deeper.
  A prefix that begins another name takes that one along.

Servers:

* A drop that requires an empty database counts tables only, and with schemas named
  only those of these (`postgresql.go:1004`), against `dbmsx/dbmsx.go:225`, by which it
  refuses a database that still holds objects: views and the tables of other schemas
  go with it, and `NoOldTableDies` is about the tables where the call looks. A rollback takes views that were there.
* Two creators that tolerate an existing database can both see it absent, and one
  fails; a user that exists keeps its old password; MySQL keeps the rights granted
  on a dropped database. `CheckTargetEmpty` of MongoDB over SSH ignores what it
  could not read as a number.

Copies of databases:

* PostgreSQL: a direct dump writes no COLLATE of a column, for which the gate
  refuses; a rule without a schema becomes `-T "name"` over SSH, which matches in
  the search path only; `pg_dump -n` leaves extensions out; routines name the
  source's schema after a rename; a rule with a schema
  does not reach `pgCollectUsed`; a direct dump does not set sequences to where
  they were; a foreign key that leaves the dumped schemas is not dumped, rule or no
  rule, but is in the unfiltered inventory, so that it is reported missing.
* A direct dump writes tables, then views by name, then routines
  (`postgresql.go:344`, `mysql.go:210`, MariaDB likewise). A view that calls a routine
  or uses a view of a later name, and a column whose default calls a function, are
  refused by the target without any rule: `ComesLater`, which `FailsOnlyAtAGap` names.
* MySQL and MariaDB: a direct pipe has no filter of definers, against
  `mysql.go:478`; `mysqldump` keeps the foreign key of an excluded parent; a column
  rule on the child of a foreign key drops it in the dump and keeps it in the
  inventory, so that it is reported missing.
* MongoDB: the documents of a time series are not dumped; how strictly a collection
  validates is lost.
* Validation: an excluded table that is there on the target, and rows that row rules
  orphan, are not reported; tables of one name in two renamed schemas are compared
  as one, and every other object of a renamed schema is reported missing under its
  old name and as an extra under its new one (`validator.go:989`).
