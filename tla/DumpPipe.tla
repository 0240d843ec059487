-------------------------------- MODULE DumpPipe --------------------------------
(***************************************************************************)
(* A database moved between two hosts that are reached over SSH only: the  *)
(* dump command's output crosses an in-process io.Pipe into the restore    *)
(* command's input (dbmsx/executor/pipe.go), each command in a session of  *)
(* its own (core/ssh.go), under the handle of the migration                *)
(* (dbmsx/handle.go) and the item that waits for it (migration/dbms.go).   *)
(*                                                                         *)
(* The dump is Total chunks long. An SSH channel takes Window chunks that  *)
(* nobody has read yet, after which the command that writes them blocks;   *)
(* the pipe takes none: a write returns when the other side has read it.   *)
(***************************************************************************)
EXTENDS Naturals

CONSTANTS
  Total,     \* chunks the dump command writes
  Window     \* chunks a channel holds unread

VARIABLES
  item,      \* migrateOneDatabase: "waits", "stops", then "success", "failed"
  status,    \* MigrationHandle.Status()
  err,       \* MigrationHandle.Err(): "" for nil
  closed,    \* the handle is finished
  asked,     \* Cancel was called on the handle
  rollback,  \* RollbackOnFailure
  cmd,       \* the two remote commands
  copy,      \* pumpSession's copiers: the dump's output, the restore's input
  chan,      \* what the two channels hold unread
  side,      \* what ExecuteViaSSH returned: "none" yet, "nil", "error"
  pipe,      \* "open", or closed at either end
  dumped,    \* chunks the dump command wrote
  crossed,   \* pipeCounter.total
  reported,  \* pipeCounter.reported, the handle's BytesTransferred
  loaded     \* chunks the restore command has executed

handle == <<item, status, err, closed, asked, rollback>>
stream == <<cmd, copy, chan, side, pipe, dumped, crossed, reported, loaded>>
vars == <<handle, stream>>

Sides == {"dump", "restore"}
Exited(s) == cmd[s] \in {"ok", "failed"}

Init ==
  /\ item = "waits" /\ status = "pending" /\ err = "" /\ closed = FALSE
  /\ asked = FALSE /\ rollback \in BOOLEAN
  /\ cmd = [s \in Sides |-> "none"] /\ copy = [s \in Sides |-> "none"]
  /\ chan = [s \in Sides |-> 0] /\ side = [s \in Sides |-> "none"]
  /\ pipe = "open"
  /\ dumped = 0 /\ crossed = 0 /\ reported = 0 /\ loaded = 0

-----------------------------------------------------------------------------
(* The handle *)

\* run: the model and the target are looked at; nothing has been touched yet,
\* and a refusal is not followed by a rollback.
Check ==
  /\ status = "pending" /\ status' = "checking"
  /\ UNCHANGED <<item, err, closed, asked, rollback, stream>>
Refuse ==
  /\ status = "checking"
  /\ status' = "failed" /\ err' = "error"
  /\ UNCHANGED <<item, closed, asked, rollback, stream>>

\* migrate returned an error.
Failed ==
  /\ status' = IF rollback THEN "rolling-back" ELSE "failed"
  /\ err' = IF rollback THEN err ELSE "error"

\* requireTargetDatabase did not find the target.
NoTarget ==
  /\ status = "checking"
  /\ Failed
  /\ UNCHANGED <<item, closed, asked, rollback, stream>>

\* planDirectPipe's one step; Pipeline.Execute looks at the context before it.
Plan ==
  /\ status = "checking"
  /\ IF asked THEN Failed ELSE status' = "dumping" /\ err' = err
  /\ UNCHANGED <<item, closed, asked, rollback, stream>>

\* rollbackDrop is best effort and its result ignored; the status is set before
\* the error is.
RollBack ==
  /\ status = "rolling-back" /\ status' = "rolled-back"
  /\ loaded' \in {0, loaded}
  /\ UNCHANGED <<item, err, closed, asked, rollback,
                 cmd, copy, chan, side, pipe, dumped, crossed, reported>>
Explain ==
  /\ status = "rolled-back" /\ err = ""
  /\ err' = "error"
  /\ UNCHANGED <<item, status, closed, asked, rollback, stream>>

Finish ==
  /\ \/ status \in {"done", "failed"}
     \/ status = "rolled-back" /\ err # ""
  /\ ~closed /\ closed' = TRUE
  /\ UNCHANGED <<item, status, err, asked, rollback, stream>>

\* The item: a run that is cancelled cancels the handle and waits for it, and is
\* a failure whatever the handle says.
Stop ==
  /\ item = "waits" /\ ~closed
  /\ item' = "stops" /\ asked' = TRUE
  /\ UNCHANGED <<status, err, closed, rollback, stream>>
ItemResult == IF item = "waits" /\ err = "" THEN "success" ELSE "failed"
ItemEnds ==
  /\ item \in {"waits", "stops"} /\ closed
  /\ item' = ItemResult
  /\ UNCHANGED <<status, err, closed, asked, rollback, stream>>

-----------------------------------------------------------------------------
(* PipeExecutor.Execute *)

Piping == status = "dumping"

\* The watcher: a cancel is delivered by closing both ends of the pipe.
TearDown ==
  /\ Piping /\ asked /\ pipe = "open"
  /\ pipe' = "closed"
  /\ UNCHANGED <<handle, cmd, copy, chan, side, dumped, crossed, reported, loaded>>

\* ExecuteViaSSH opens a connection of its own for either command.
Dial(s) ==
  /\ Piping /\ cmd[s] = "none" /\ side[s] = "none"
  /\ cmd' = [cmd EXCEPT ![s] = "runs"]
  /\ copy' = [copy EXCEPT ![s] = "idle"]
  /\ UNCHANGED <<handle, chan, side, pipe, dumped, crossed, reported, loaded>>
DialFails(s) ==
  /\ Piping /\ cmd[s] = "none" /\ side[s] = "none"
  /\ side' = [side EXCEPT ![s] = "error"] /\ pipe' = "closed"
  /\ UNCHANGED <<handle, cmd, copy, chan, dumped, crossed, reported, loaded>>

\* The remote commands. Either may fail, or lose its connection, at any chunk.
DumpWrites ==
  /\ Piping /\ cmd["dump"] = "runs"
  /\ dumped < Total /\ chan["dump"] < Window
  /\ dumped' = dumped + 1 /\ chan' = [chan EXCEPT !["dump"] = @ + 1]
  /\ UNCHANGED <<handle, cmd, copy, side, pipe, crossed, reported, loaded>>
RestoreLoads ==
  /\ Piping /\ cmd["restore"] = "runs" /\ chan["restore"] > 0
  /\ loaded' = loaded + 1 /\ chan' = [chan EXCEPT !["restore"] = @ - 1]
  /\ UNCHANGED <<handle, cmd, copy, side, pipe, dumped, crossed, reported>>
CommandEnds(s, how) ==
  /\ Piping /\ cmd[s] = "runs"
  /\ cmd' = [cmd EXCEPT ![s] = how]
  /\ UNCHANGED <<handle, copy, chan, side, pipe, dumped, crossed, reported, loaded>>
DumpEnds == dumped = Total /\ CommandEnds("dump", "ok")
\* The restore sees the end of its input when its copier has ended, however much
\* of the dump that input was.
RestoreEnds ==
  /\ copy["restore"] = "ended" /\ chan["restore"] = 0
  /\ CommandEnds("restore", "ok")
CommandFails(s) == CommandEnds(s, "failed")

\* The dump's copier reads its channel and writes the pipe; what io.Copy
\* returned is not looked at.
DumpReads ==
  /\ Piping /\ copy["dump"] = "idle"
  /\ \/ /\ chan["dump"] > 0
        /\ chan' = [chan EXCEPT !["dump"] = @ - 1]
        /\ copy' = [copy EXCEPT !["dump"] = "holds"]
     \/ /\ chan["dump"] = 0 /\ Exited("dump")
        /\ copy' = [copy EXCEPT !["dump"] = "ended"]
        /\ UNCHANGED chan
  /\ UNCHANGED <<handle, cmd, side, pipe, dumped, crossed, reported, loaded>>
PipeRefuses ==
  /\ Piping /\ copy["dump"] = "holds" /\ pipe = "closed"
  /\ copy' = [copy EXCEPT !["dump"] = "ended"]
  /\ UNCHANGED <<handle, cmd, chan, side, pipe, dumped, crossed, reported, loaded>>

\* A write meets a read. pipeCounter reports when enough has crossed, or enough
\* time has passed.
Cross ==
  /\ Piping /\ pipe = "open" /\ copy["dump"] = "holds" /\ copy["restore"] = "idle"
  /\ copy' = [copy EXCEPT !["dump"] = "idle", !["restore"] = "holds"]
  /\ crossed' = crossed + 1
  /\ reported' \in {reported, crossed + 1}
  /\ UNCHANGED <<handle, cmd, chan, side, pipe, dumped, loaded>>

\* The restore's copier reads the pipe and writes its channel.
RestoreReads ==
  /\ Piping /\ copy["restore"] = "idle" /\ pipe = "closed"
  /\ copy' = [copy EXCEPT !["restore"] = "ended"]
  /\ UNCHANGED <<handle, cmd, chan, side, pipe, dumped, crossed, reported, loaded>>
RestoreWrites ==
  /\ Piping /\ copy["restore"] = "holds"
  /\ \/ /\ ~Exited("restore") /\ chan["restore"] < Window
        /\ chan' = [chan EXCEPT !["restore"] = @ + 1]
        /\ copy' = [copy EXCEPT !["restore"] = "idle"]
     \/ /\ Exited("restore")
        /\ copy' = [copy EXCEPT !["restore"] = "ended"]
        /\ UNCHANGED chan
  /\ UNCHANGED <<handle, cmd, side, pipe, dumped, crossed, reported, loaded>>

\* pumpSession returns when the command has exited and its copier has ended, and
\* Execute closes that side's end of the pipe.
\* (Mutants: only the dump's exit status counts; the reader is left open.)
OutcomeOfTheDump(s) == IF s = "dump" /\ cmd[s] = "failed" THEN "error" ELSE "nil"
ClosesWriterOnly(s) == IF s = "dump" THEN "closed" ELSE pipe
Outcome(s) == IF cmd[s] = "ok" THEN "nil" ELSE "error"
Closes(s) == "closed"
SideEnds(s) ==
  /\ Piping /\ side[s] = "none" /\ Exited(s) /\ copy[s] = "ended"
  /\ side' = [side EXCEPT ![s] = Outcome(s)]
  /\ pipe' = Closes(s)
  /\ UNCHANGED <<handle, cmd, copy, chan, dumped, crossed, reported, loaded>>

\* Mutant: what the thresholds held back stays back.
FlushedNot == reported
\* Both are over: the counter is flushed and the error, if any, returned.
Flushed == crossed
Return ==
  /\ Piping /\ \A s \in Sides : side[s] # "none"
  /\ reported' = Flushed
  /\ IF \E s \in Sides : side[s] = "error"
     THEN Failed
     ELSE status' = "done" /\ err' = err
  /\ UNCHANGED <<item, closed, asked, rollback,
                 cmd, copy, chan, side, pipe, dumped, crossed, loaded>>

-----------------------------------------------------------------------------
Handle == Check \/ Plan \/ RollBack \/ Explain \/ Finish \/ ItemEnds
Copiers == DumpReads \/ PipeRefuses \/ Cross \/ RestoreReads \/ RestoreWrites
Commands == DumpWrites \/ RestoreLoads \/ DumpEnds \/ RestoreEnds
Executor == TearDown \/ (\E s \in Sides : Dial(s) \/ SideEnds(s)) \/ Return
Mishaps ==
  Refuse \/ NoTarget \/ Stop \/ \E s \in Sides : DialFails(s) \/ CommandFails(s)

Next == Handle \/ Copiers \/ Commands \/ Executor \/ Mishaps

-----------------------------------------------------------------------------
\* A database reported as a success holds the whole dump, although nothing looks
\* at what the copiers return: a stream that was cut short reaches the restore
\* command as an ordinary end of input, which it may well accept
\* (core/ssh.go pumpSession, executor/pipe.go Execute, dbms.go ctx.Done()).
ItemWhole == item = "success" => loaded = Total /\ ~asked

\* The bytes shown never run ahead of the pipe, and once Execute is back they are
\* all that crossed it, what the thresholds held back included (pipeCounter).
BytesTrue ==
  /\ reported <= crossed
  /\ status \in {"done", "rolling-back", "rolled-back"} /\ closed => reported = crossed

\* The dump's copier is gone while the command still has more to say than its
\* channel takes: nobody reads that channel any more, the command blocks, and so
\* do Execute, the handle and the item that wait for it (executor/pipe.go wg.Wait).
Abandoned ==
  Piping /\ copy["dump"] = "ended" /\ cmd["dump"] = "runs"
         /\ dumped < Total /\ chan["dump"] = Window

=============================================================================
