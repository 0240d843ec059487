---------------------------- MODULE ValidationRuns -----------------------------
(***************************************************************************)
(* The validation of one migration: the POST that starts it, the goroutine *)
(* that compares every plan entry (runValidation), the progress it writes  *)
(* while it does, and what a restart does about one it interrupted         *)
(* (FailInterruptedValidations).  Requests may come at any time, the row   *)
(* may be deleted under them, and any database call may fail.              *)
(***************************************************************************)
EXTENDS Naturals

CONSTANTS
  Requests,   \* POST .../validation requests
  Entries     \* how many entries the migration's plan has

ASSUME EntriesAssumption == Entries \in Nat

VARIABLES
  row,   \* the migration's row: is it there, the migration's status, the validation columns
  job    \* each request: its handler, then the goroutine it starts

vars == <<row, job>>

\* "quick" or "checksum".
Mode == {"quick", "checksum"}

\* What the details of a comparison can hold; an entry may add nothing.
Detail == {"failed", "warning"}

\* The columns UpdateMigrationValidation writes, all of them every time.
Columns ==
  [status : {"", "running", "passed", "failed"},
   message : {"", "progress", "result", "interrupted"},
   details : SUBSET Detail,
   mode : Mode]

NotRun == [status |-> "", message |-> "", details |-> {}, mode |-> "quick"]

Init ==
  /\ row \in [stored : {TRUE}, migration : {"running", "completed", "failed"}, v : {NotRun}]
  /\ job \in {[r \in Requests |->
                 [pc |-> "idle", mode |-> mode[r], m |-> NotRun, entry |-> 0, details |-> {}]] :
              mode \in [Requests -> Mode]}

At(r, label) == job[r].pc = label
Goto(r, label) == job' = [job EXCEPT ![r].pc = label]

WriteNonZero(v) ==   \* mutant: no Select, so an empty column keeps what it had
  row' = IF row.stored
         THEN [row EXCEPT !.v = [v EXCEPT !.details = IF @ = {} THEN row.v.details ELSE @]]
         ELSE row
\* UpdateMigrationValidation: writes to a row that is gone are lost silently.
Write(v) == row' = IF row.stored THEN [row EXCEPT !.v = v] ELSE row

-----------------------------------------------------------------------------
(* StartValidation.                                                        *)

\* GetMigration and the two checks.
StartCheck(r) ==
  /\ At(r, "idle")
  /\ \/ /\ row.stored /\ row.migration = "completed" /\ row.v.status # "running"
        /\ Goto(r, "checked")
     \/ Goto(r, "refused")
  /\ UNCHANGED row

\* The write of "running", and the goroutine.
StartWrite(r) ==
  /\ At(r, "checked")
  /\ \/ /\ Write([status |-> "running", message |-> "", details |-> {}, mode |-> job[r].mode])
        /\ Goto(r, "load")
     \/ /\ Goto(r, "refused")
        /\ UNCHANGED row

-----------------------------------------------------------------------------
(* runValidation.                                                          *)

\* GetMigration once more: the goroutine works on a row of its own.
Load(r) ==
  /\ At(r, "load")
  /\ \/ /\ row.stored
        /\ job' = [job EXCEPT ![r].pc = "compare", ![r].m = row.v]
     \/ Goto(r, "lost")
  /\ UNCHANGED row

\* validationProgress.report, from any of the validators' goroutines: throttled,
\* and its failure is only logged.
ReportProgress(r) ==
  /\ At(r, "compare")
  /\ job[r].entry < Entries
  /\ job' = [job EXCEPT ![r].m.message = "progress"]
  /\ \/ Write([job[r].m EXCEPT !.message = "progress"])
     \/ UNCHANGED row

\* One entry: an error is a failed detail, and the others go on.
CompareStoppingAtError(r) ==   \* mutant: an entry that cannot be compared ends it
  /\ At(r, "compare")
  /\ job[r].entry < Entries
  /\ \/ \E details \in SUBSET Detail :
          job' = [job EXCEPT ![r].entry = @ + 1, ![r].details = @ \cup details]
     \/ Goto(r, "done")
  /\ UNCHANGED row
CompareEntry(r) ==
  /\ At(r, "compare")
  /\ job[r].entry < Entries
  /\ \E details \in SUBSET Detail :
       job' = [job EXCEPT ![r].entry = @ + 1, ![r].details = @ \cup details]
  /\ UNCHANGED row

\* A warning does not fail the validation.
OverallStatus(details) == IF "failed" \in details THEN "failed" ELSE "passed"

\* progress.stop, and the result.
Conclude(r) ==
  /\ At(r, "compare")
  /\ job[r].entry = Entries
  /\ \/ /\ Write([job[r].m EXCEPT !.status = OverallStatus(job[r].details),
                                  !.message = "result",
                                  !.details = job[r].details])
        /\ Goto(r, "done")
     \/ /\ Goto(r, "lost")
        /\ UNCHANGED row

RunStep(r) == Load(r) \/ CompareEntry(r) \/ Conclude(r)

-----------------------------------------------------------------------------
(* Around it.                                                              *)

\* DeleteMigration asks about the migration only.
Delete ==
  /\ row.migration # "running" /\ row.stored
  /\ row' = [row EXCEPT !.stored = FALSE]
  /\ UNCHANGED job

\* The process dies, taking every handler and goroutine along; start-up closes
\* out the rows that say "running", and only logs when it cannot.
InFlight(r) == job[r].pc \in {"checked", "load", "compare"}
ForgetOnRestart ==   \* mutant: nothing is closed out at start-up
  /\ job' = [r \in Requests |->
               IF InFlight(r) \/ At(r, "lost") THEN [job[r] EXCEPT !.pc = "dead"] ELSE job[r]]
  /\ UNCHANGED row
Restart ==
  \/ /\ job' = [r \in Requests |->
                  IF InFlight(r) \/ At(r, "lost") THEN [job[r] EXCEPT !.pc = "dead"] ELSE job[r]]
     /\ IF row.v.status = "running"
        THEN Write([row.v EXCEPT !.status = "failed", !.message = "interrupted"])
        ELSE UNCHANGED row
  \/ /\ job' = [r \in Requests |->
                  IF InFlight(r) THEN [job[r] EXCEPT !.pc = "lost"] ELSE job[r]]
     /\ UNCHANGED row

-----------------------------------------------------------------------------

Next ==
  \/ \E r \in Requests :
       StartCheck(r) \/ StartWrite(r) \/ RunStep(r) \/ ReportProgress(r)
  \/ Delete \/ Restart

Spec == Init /\ [][Next]_vars

\* Goroutines are scheduled and a comparison ends.
FairSpec == Spec /\ \A r \in Requests : WF_vars(RunStep(r))

-----------------------------------------------------------------------------
(* Properties.                                                             *)

\* The shape of the state.
TypeOK ==
  /\ row \in [stored : BOOLEAN, migration : {"running", "completed", "failed"}, v : Columns]
  /\ job \in [Requests -> [pc : {"idle", "checked", "refused", "load", "compare", "done",
                                 "lost", "dead"},
                           mode : Mode, m : Columns, entry : 0..Entries,
                           details : SUBSET Detail]]

\* Whatever runs at the same time, a verdict the row shows is one the details it
\* shows give: no partial write, no progress line and no restart mixes two runs.
VerdictMatchesDetails ==
  /\ row.v.status = "passed" => "failed" \notin row.v.details
  /\ row.v.status = "failed" => "failed" \in row.v.details \/ row.v.message = "interrupted"

\* A row that says "running" is one a goroutine will write a result to, unless a
\* database call failed since the process started: the endpoint refuses a new
\* validation as long as the row says so.
Alive(r) == job[r].pc \in {"load", "compare"}
RunningIsAlive ==
  row.stored /\ row.v.status = "running" => \E r \in Requests : Alive(r) \/ At(r, "lost")

\* A validation ends, or the log says why its row does not.
ValidationEnds ==
  row.v.status = "running" ~>
    row.v.status # "running" \/ ~row.stored \/ \E r \in Requests : At(r, "lost")

=============================================================================
