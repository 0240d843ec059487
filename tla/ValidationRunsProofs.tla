-------------------------- MODULE ValidationRunsProofs --------------------------
(***************************************************************************)
(* For every set of requests and every number of plan entries, and with    *)
(* database calls that fail: a validation's verdict agrees with the        *)
(* details stored beside it, and a row that says "running" has a           *)
(* goroutine behind it, or one that logged why it stopped.                 *)
(*                                                                         *)
(* The verdict is not inductive by itself: a goroutine writes back the     *)
(* columns it once read, so what it read has to agree too, and a row that  *)
(* a restart closed out, whose "failed" no detail explains, must not be    *)
(* read by a goroutine: it would put its progress over the explanation.    *)
(***************************************************************************)
EXTENDS ValidationRuns, TLAPS

\* Columns a goroutine may hold and write back.
Explained(v) ==
  /\ v.status = "passed" => "failed" \notin v.details
  /\ v.status = "failed" => "failed" \in v.details

CopiesExplained == \A r \in Requests : At(r, "compare") => Explained(job[r].m)

\* Until a new validation is started, nobody works on a row a restart closed out.
NobodyAfterInterruption ==
  row.stored /\ row.v.message = "interrupted" =>
    \A r \in Requests : job[r].pc \notin {"load", "compare"}

IInv ==
  /\ TypeOK
  /\ VerdictMatchesDetails
  /\ RunningIsAlive
  /\ CopiesExplained
  /\ NobodyAfterInterruption

\* What UpdateMigrationValidation leaves in the row, for any columns.
LEMMA WriteType ==
  ASSUME TypeOK, NEW v \in Columns, Write(v)
  PROVE  /\ row' \in [stored : BOOLEAN, migration : {"running", "completed", "failed"},
                      v : Columns]
         /\ row'.stored = row.stored
         /\ row'.migration = row.migration
         /\ row.stored => row'.v = v
         /\ ~row.stored => row' = row
  BY DEF TypeOK, Write

\* Only the goroutine of one request moves.
LEMMA GotoType ==
  ASSUME TypeOK, NEW r \in Requests,
         NEW label \in {"idle", "checked", "refused", "load", "compare", "done", "lost", "dead"},
         Goto(r, label)
  PROVE  /\ job' \in [Requests -> [pc : {"idle", "checked", "refused", "load", "compare",
                                        "done", "lost", "dead"},
                                   mode : Mode, m : Columns, entry : 0..Entries,
                                   details : SUBSET Detail]]
         /\ job'[r].pc = label /\ job'[r].m = job[r].m
         /\ \A s \in Requests \ {r} : job'[s] = job[s]
  BY DEF TypeOK, Goto

\* The initial states: nothing has been validated.
THEOREM InitHolds == Init => IInv
<1> SUFFICES ASSUME Init PROVE IInv
  OBVIOUS
<1>1. NotRun \in Columns /\ NotRun.status = ""
      /\ NotRun.message = "" /\ NotRun.details = {}
  BY DEF NotRun, Columns, Mode
<1>2. PICK mode \in [Requests -> Mode] :
        job = [r \in Requests |->
                 [pc |-> "idle", mode |-> mode[r], m |-> NotRun, entry |-> 0, details |-> {}]]
  BY DEF Init
<1>3. row \in [stored : {TRUE}, migration : {"running", "completed", "failed"}, v : {NotRun}]
  BY DEF Init
<1>4. row.v = NotRun /\ \A r \in Requests : job[r].pc = "idle"
  BY <1>2, <1>3
<1>5. 0 \in 0..Entries
  BY EntriesAssumption
<1>6. TypeOK
  BY <1>1, <1>2, <1>3, <1>5 DEF TypeOK
<1>. QED
  BY <1>1, <1>4, <1>6 DEF IInv, VerdictMatchesDetails, RunningIsAlive, CopiesExplained,
     NobodyAfterInterruption, At

\* StartValidation's check changes no row and starts nothing.
LEMMA StartCheckKeeps ==
  ASSUME IInv, NEW r \in Requests, StartCheck(r) PROVE IInv'
<1>. USE DEF IInv
<1>1. PICK label \in {"checked", "refused"} : Goto(r, label) /\ At(r, "idle") /\ row' = row
  BY DEF StartCheck
<1>2. /\ TypeOK' /\ job'[r].pc = label /\ job'[r].m = job[r].m
      /\ \A s \in Requests \ {r} : job'[s] = job[s]
  BY <1>1, GotoType DEF TypeOK
<1>. QED
  BY <1>1, <1>2 DEF VerdictMatchesDetails, RunningIsAlive, CopiesExplained,
     NobodyAfterInterruption, At, Alive

\* The write of "running" and the goroutine it stands for come together.
LEMMA StartWriteKeeps ==
  ASSUME IInv, NEW r \in Requests, StartWrite(r) PROVE IInv'
<1>. USE DEF IInv
<1>1. CASE Goto(r, "refused") /\ UNCHANGED row
  <2>1. /\ TypeOK' /\ job'[r].pc = "refused"
        /\ \A s \in Requests \ {r} : job'[s] = job[s]
    BY <1>1, GotoType DEF TypeOK
  <2>2. At(r, "checked")
    BY DEF StartWrite
  <2>. QED
    BY <1>1, <2>1, <2>2 DEF VerdictMatchesDetails, RunningIsAlive, CopiesExplained,
       NobodyAfterInterruption, At, Alive
<1>2. CASE Goto(r, "load") /\
           Write([status |-> "running", message |-> "", details |-> {}, mode |-> job[r].mode])
  <2> DEFINE v == [status |-> "running", message |-> "", details |-> {}, mode |-> job[r].mode]
  <2>1. v \in Columns
    BY DEF TypeOK, Columns, Mode, Detail
  <2>2. v.status = "running" /\ v.message = ""
    OBVIOUS
  <2>3. Write(v)
    BY <1>2
  <2>. HIDE DEF v
  <2>4. /\ TypeOK' /\ job'[r].pc = "load"
        /\ \A s \in Requests \ {r} : job'[s] = job[s]
    BY <1>2, <2>1, <2>3, GotoType, WriteType DEF TypeOK
  <2>5. /\ row'.stored = row.stored
        /\ row.stored => row'.v = v
        /\ ~row.stored => row' = row
    BY <2>1, <2>3, WriteType
  <2>. QED
    BY <2>2, <2>4, <2>5 DEF VerdictMatchesDetails, RunningIsAlive, CopiesExplained,
       NobodyAfterInterruption, At, Alive
<1>. QED
  BY <1>1, <1>2 DEF StartWrite

\* The row a goroutine reads is one it may write back.
LEMMA LoadKeeps ==
  ASSUME IInv, NEW r \in Requests, Load(r) PROVE IInv'
<1>. USE DEF IInv
<1>1. CASE Goto(r, "lost")
  <2>1. /\ TypeOK' /\ job'[r].pc = "lost" /\ row' = row
        /\ \A s \in Requests \ {r} : job'[s] = job[s]
    BY <1>1, GotoType DEF TypeOK, Load
  <2>. QED
    BY <2>1 DEF VerdictMatchesDetails, RunningIsAlive, CopiesExplained,
       NobodyAfterInterruption, At, Alive
<1>2. CASE row.stored /\ job' = [job EXCEPT ![r].pc = "compare", ![r].m = row.v]
  <2>1. /\ TypeOK' /\ job'[r].pc = "compare" /\ job'[r].m = row.v /\ row' = row
        /\ \A s \in Requests \ {r} : job'[s] = job[s]
    BY <1>2 DEF TypeOK, Load
  <2>2. At(r, "load")
    BY DEF Load
  <2>3. Explained(row.v)
    BY <1>2, <2>2 DEF Explained, VerdictMatchesDetails, NobodyAfterInterruption, At
  <2>. QED
    BY <1>2, <2>1, <2>2, <2>3, ZenonT(60) DEF VerdictMatchesDetails, RunningIsAlive, CopiesExplained,
       NobodyAfterInterruption, At, Alive
<1>. QED
  BY <1>1, <1>2 DEF Load

\* A progress line goes over the row together with the columns it was read with.
LEMMA ReportProgressKeeps ==
  ASSUME IInv, NEW r \in Requests, ReportProgress(r) PROVE IInv'
<1>. USE DEF IInv
<1> DEFINE v == [job[r].m EXCEPT !.message = "progress"]
<1> job[r].m \in Columns
  BY DEF TypeOK
<1>1. v \in Columns /\ v.message = "progress" /\ v.status = job[r].m.status
      /\ v.details = job[r].m.details
  BY DEF Columns
<1>2. At(r, "compare") /\ (Write(v) \/ row' = row)
  BY DEF ReportProgress
<1>3. job' = [job EXCEPT ![r].m.message = "progress"]
  BY DEF ReportProgress
<1>step. job' = [job EXCEPT ![r] = [job[r] EXCEPT !.m = v]]
  BY <1>3
<1>4. /\ job'[r].pc = "compare" /\ job'[r].m = v
      /\ \A s \in Requests \ {r} : job'[s] = job[s]
  <2>. HIDE DEF v
  <2>. QED
    BY <1>2, <1>step DEF TypeOK, At
<1>. HIDE DEF v
<1>5. job' \in [Requests -> [pc : {"idle", "checked", "refused", "load", "compare", "done",
                                   "lost", "dead"},
                             mode : Mode, m : Columns, entry : 0..Entries,
                             details : SUBSET Detail]]
  BY <1>step, <1>1 DEF TypeOK
<1>6. /\ row' \in [stored : BOOLEAN, migration : {"running", "completed", "failed"},
                   v : Columns]
      /\ row'.stored = row.stored
      /\ row' = row \/ row'.v = v
  BY <1>1, <1>2, WriteType DEF TypeOK
<1>7. Explained(v)
  BY <1>1, <1>2 DEF CopiesExplained, Explained
<1>8. TypeOK'
  BY <1>5, <1>6 DEF TypeOK
<1>. QED
  BY <1>1, <1>2, <1>4, <1>6, <1>7, <1>8 DEF VerdictMatchesDetails, RunningIsAlive,
     CopiesExplained, NobodyAfterInterruption, At, Alive, Explained

\* Comparing an entry adds to what the goroutine knows, not to the row.
LEMMA CompareEntryKeeps ==
  ASSUME IInv, NEW r \in Requests, CompareEntry(r) PROVE IInv'
<1>. USE DEF IInv
<1>1. PICK details \in SUBSET Detail :
        job' = [job EXCEPT ![r].entry = @ + 1, ![r].details = @ \cup details]
  BY DEF CompareEntry
<1>2. At(r, "compare") /\ job[r].entry < Entries /\ row' = row
  BY DEF CompareEntry
<1>3. job[r].entry + 1 \in 0..Entries
  BY <1>2, EntriesAssumption DEF TypeOK
<1>4. job' \in [Requests -> [pc : {"idle", "checked", "refused", "load", "compare", "done",
                                   "lost", "dead"},
                             mode : Mode, m : Columns, entry : 0..Entries,
                             details : SUBSET Detail]]
  BY <1>1, <1>3, ZenonT(60) DEF TypeOK
<1>5. \A s \in Requests : job'[s].pc = job[s].pc /\ job'[s].m = job[s].m
  BY <1>1 DEF TypeOK
<1>6. TypeOK'
  BY <1>2, <1>4 DEF TypeOK
<1>. QED
  BY <1>2, <1>5, <1>6 DEF VerdictMatchesDetails, RunningIsAlive, CopiesExplained,
     NobodyAfterInterruption, At, Alive

\* The result's status is the one its details give.
LEMMA ConcludeKeeps ==
  ASSUME IInv, NEW r \in Requests, Conclude(r) PROVE IInv'
<1>. USE DEF IInv
<1>1. CASE Goto(r, "lost") /\ UNCHANGED row
  <2>1. /\ TypeOK' /\ job'[r].pc = "lost"
        /\ \A s \in Requests \ {r} : job'[s] = job[s]
    BY <1>1, GotoType DEF TypeOK
  <2>. QED
    BY <1>1, <2>1 DEF VerdictMatchesDetails, RunningIsAlive, CopiesExplained,
       NobodyAfterInterruption, At, Alive
<1>2. CASE Goto(r, "done") /\
           Write([job[r].m EXCEPT !.status = OverallStatus(job[r].details),
                                  !.message = "result", !.details = job[r].details])
  <2> DEFINE v == [job[r].m EXCEPT !.status = OverallStatus(job[r].details),
                                   !.message = "result", !.details = job[r].details]
  <2>1. /\ v \in Columns /\ v.status \in {"passed", "failed"} /\ v.message = "result"
        /\ v.status = "failed" <=> "failed" \in v.details
    BY DEF TypeOK, Columns, OverallStatus
  <2>2. Write(v)
    BY <1>2
  <2>. HIDE DEF v
  <2>3. /\ TypeOK' /\ job'[r].pc = "done"
        /\ \A s \in Requests \ {r} : job'[s] = job[s]
    BY <1>2, <2>1, <2>2, GotoType, WriteType DEF TypeOK
  <2>4. /\ row'.stored = row.stored
        /\ row.stored => row'.v = v
        /\ ~row.stored => row' = row
    BY <2>1, <2>2, WriteType
  <2>. QED
    BY <2>1, <2>3, <2>4 DEF VerdictMatchesDetails, RunningIsAlive, CopiesExplained,
       NobodyAfterInterruption, At, Alive
<1>. QED
  BY <1>1, <1>2 DEF Conclude

\* A row that goes keeps its columns out of reach.
LEMMA DeleteKeeps ==
  ASSUME IInv, Delete PROVE IInv'
<1>. USE DEF IInv
<1>1. /\ TypeOK' /\ row'.v = row.v /\ row'.stored = FALSE /\ job' = job
  BY DEF Delete, TypeOK
<1>. QED
  BY <1>1 DEF VerdictMatchesDetails, RunningIsAlive, CopiesExplained,
     NobodyAfterInterruption, At, Alive

\* A restart leaves no goroutine, and no "running" row unless it logs why.
LEMMA RestartKeeps ==
  ASSUME IInv, Restart PROVE IInv'
<1>. USE DEF IInv
<1>1. CASE /\ job' = [r \in Requests |->
                        IF InFlight(r) THEN [job[r] EXCEPT !.pc = "lost"] ELSE job[r]]
           /\ UNCHANGED row
  <2>1. TypeOK'
    BY <1>1 DEF TypeOK
  <2>2. \A r \in Requests : /\ job'[r].pc \notin {"load", "compare"}
                            /\ Alive(r) \/ At(r, "lost") => job'[r].pc = "lost"
    BY <1>1 DEF InFlight, TypeOK, Alive, At
  <2>. QED
    BY <1>1, <2>1, <2>2 DEF VerdictMatchesDetails, RunningIsAlive, CopiesExplained,
       NobodyAfterInterruption, At, Alive
<1>2. CASE /\ job' = [r \in Requests |->
                        IF InFlight(r) \/ At(r, "lost") THEN [job[r] EXCEPT !.pc = "dead"]
                        ELSE job[r]]
           /\ IF row.v.status = "running"
              THEN Write([row.v EXCEPT !.status = "failed", !.message = "interrupted"])
              ELSE UNCHANGED row
  <2>1. /\ job' \in [Requests -> [pc : {"idle", "checked", "refused", "load", "compare",
                                       "done", "lost", "dead"},
                                  mode : Mode, m : Columns, entry : 0..Entries,
                                  details : SUBSET Detail]]
    BY <1>2 DEF TypeOK
  <2>2. \A r \in Requests : job'[r].pc \notin {"load", "compare"}
    BY <1>2 DEF InFlight, TypeOK, At
  <2>3. CASE row.v.status = "running"
    <3> DEFINE v == [row.v EXCEPT !.status = "failed", !.message = "interrupted"]
    <3>1. v \in Columns /\ v.status = "failed" /\ v.message = "interrupted"
      BY DEF TypeOK, Columns
    <3>2. Write(v)
      BY <1>2, <2>3
    <3>. HIDE DEF v
    <3>3. /\ row' \in [stored : BOOLEAN, migration : {"running", "completed", "failed"},
                       v : Columns]
          /\ row'.stored = row.stored
          /\ row.stored => row'.v = v
          /\ ~row.stored => row' = row
      BY <3>1, <3>2, WriteType
    <3>4. TypeOK'
      BY <2>1, <3>3 DEF TypeOK
    <3>. QED
      BY <2>2, <3>1, <3>3, <3>4 DEF VerdictMatchesDetails, RunningIsAlive, CopiesExplained,
         NobodyAfterInterruption, At, Alive
  <2>4. CASE row.v.status # "running"
    <3>1. row' = row /\ TypeOK'
      BY <1>2, <2>1, <2>4 DEF TypeOK
    <3>. QED
      BY <2>2, <2>4, <3>1 DEF VerdictMatchesDetails, RunningIsAlive, CopiesExplained,
         NobodyAfterInterruption, At, Alive
  <2>. QED
    BY <2>3, <2>4
<1>. QED
  BY <1>1, <1>2 DEF Restart

\* Every step keeps the invariant.
THEOREM NextKeeps == IInv /\ [Next]_vars => IInv'
<1> SUFFICES ASSUME IInv, [Next]_vars PROVE IInv'
  OBVIOUS
<1>1. CASE UNCHANGED vars
  BY <1>1 DEF vars, IInv, TypeOK, VerdictMatchesDetails, RunningIsAlive, CopiesExplained,
     NobodyAfterInterruption, At, Alive
<1>2. ASSUME NEW r \in Requests,
             StartCheck(r) \/ StartWrite(r) \/ RunStep(r) \/ ReportProgress(r)
      PROVE  IInv'
  BY <1>2, StartCheckKeeps, StartWriteKeeps, LoadKeeps, CompareEntryKeeps, ConcludeKeeps,
     ReportProgressKeeps DEF RunStep
<1>3. CASE Delete
  BY <1>3, DeleteKeeps
<1>4. CASE Restart
  BY <1>4, RestartKeeps
<1>. QED
  BY <1>1, <1>2, <1>3, <1>4 DEF Next

\* The invariant holds of every behaviour.
THEOREM AlwaysIInv == Spec => []IInv
<1>. QED
  BY InitHolds, NextKeeps, PTL DEF Spec

\* A verdict always agrees with the details beside it, however many validations
\* write the row at the same time and whenever the process restarts.
THEOREM VerdictIsExplained == Spec => []VerdictMatchesDetails
<1>1. IInv => VerdictMatchesDetails
  BY DEF IInv
<1>. QED
  BY <1>1, AlwaysIInv, PTL

\* A row that says "running" is never one nobody will ever touch again, unless a
\* database call failed.
THEOREM NoValidationForgotten == Spec => []RunningIsAlive
<1>1. IInv => RunningIsAlive
  BY DEF IInv
<1>. QED
  BY <1>1, AlwaysIInv, PTL

\* Every reachable state is well typed.
THEOREM TypeCorrect == Spec => []TypeOK
<1>1. IInv => TypeOK
  BY DEF IInv
<1>. QED
  BY <1>1, AlwaysIInv, PTL

=============================================================================
