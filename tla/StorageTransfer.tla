---------------------------- MODULE StorageTransfer ----------------------------
(***************************************************************************)
(* One folder's or bucket's transfer, from runStorageTransfer down to the  *)
(* files: the goroutine that waits for it, ticks and cancels; the handle's *)
(* goroutine (MigrationHandle.run of storagex); the pipeline it plans and  *)
(* executes; and the executors, of which rsync may copy shares of the      *)
(* files in several processes before the run that settles everything.      *)
(*                                                                         *)
(* Every file counts one byte.                                             *)
(***************************************************************************)
EXTENDS Naturals, Sequences, FiniteSets

CONSTANTS
  Files,     \* what the source holds, as far as the filter keeps it
  Shards     \* the rsync processes of a sharded transfer

VARIABLES
  model,     \* what was asked for: the pipeline, sharding, the commands
  h,         \* the handle: its goroutine's position and step, status, error, closed
  hctx,      \* the handle's context is cancelled
  at,        \* the files at each step's destination
  shard,     \* each shard: its position, files left, files it reported
  sent,      \* files the shards reported, and the run after them
  prog,      \* the handle's progress: a step and its bytes
  item,      \* runStorageTransfer: waiting, stopping or returned, with which error
  ctx        \* the migration's context is cancelled

vars == <<model, h, hctx, at, shard, sent, prog, item, ctx>>

\* The pipelines the planner builds: one step, or two with staging between them.
Pipelines == {<<"rsync">>, <<"s3">>} \cup ({"rsync", "s3"} \X {"rsync", "s3"})

Steps == Len(model.plan)
Relay == Steps = 2
Executor == model.plan[h.step]

\* What the current step reads.
Source == IF h.step = 1 THEN Files ELSE at[h.step - 1]

Nobody == [i \in Shards |-> [pc |-> "idle", left |-> {}, bytes |-> 0]]

Init ==
  /\ model \in [plan : Pipelines, sharded : BOOLEAN, pre : BOOLEAN, post : BOOLEAN]
  /\ h = [pc |-> "begin", step |-> 1, status |-> "pending", err |-> "", closed |-> FALSE]
  /\ hctx = FALSE
  /\ at = [k \in 1..2 |-> {}]
  /\ shard = Nobody
  /\ sent = [shards |-> 0, run |-> 0]
  /\ prog = [step |-> 0, bytes |-> 0]
  /\ item = [pc |-> "wait", err |-> ""]
  /\ ctx = FALSE

-----------------------------------------------------------------------------
(* runStorageTransfer.  Its ticks read prog and change nothing.            *)

\* Somebody cancels the migration.
Cancel ==
  /\ ~ctx
  /\ ctx' = TRUE
  /\ UNCHANGED <<model, h, hctx, at, shard, sent, prog, item>>

\* case <-ctx.Done(): cancel the handle, and wait for it all the same.
Stop ==
  /\ item.pc = "wait" /\ ctx
  /\ hctx' = TRUE
  /\ item' = [item EXCEPT !.pc = "stopping"]
  /\ UNCHANGED <<model, h, at, shard, sent, prog, ctx>>

StoppedAtOnce ==   \* mutant: the handle is not waited for
  /\ item.pc = "stopping"
  /\ item' = [pc |-> "returned", err |-> "cancelled"]
  /\ UNCHANGED <<model, h, hctx, at, shard, sent, prog, ctx>>
Stopped ==
  /\ item.pc = "stopping" /\ h.closed
  /\ item' = [pc |-> "returned", err |-> "cancelled"]
  /\ UNCHANGED <<model, h, hctx, at, shard, sent, prog, ctx>>

\* case err := <-done.
Done ==
  /\ item.pc = "wait" /\ h.closed
  /\ item' = [pc |-> "returned", err |-> h.err]
  /\ UNCHANGED <<model, h, hctx, at, shard, sent, prog, ctx>>

-----------------------------------------------------------------------------
(* MigrationHandle.run.                                                    *)

HandleAt(label) == h.pc = label
HandleGoto(label) == h' = [h EXCEPT !.pc = label]
HandleOnly == UNCHANGED <<model, hctx, at, shard, sent, prog, item, ctx>>

\* Fail records the error and the status together...
Fail == h' = [h EXCEPT !.pc = "finish", !.status = "failed", !.err = "error"]
\* ... the two halves of a cancellation come one after the other.
Cancelled == h' = [h EXCEPT !.pc = "cancelled", !.status = "cancelled"]

\* Status running, the model's validation, and the source's command if any.
Begin ==
  /\ HandleAt("begin") /\ h.status = "pending"
  /\ h' = [h EXCEPT !.status = "running"]
  /\ HandleOnly
Validated ==
  /\ HandleAt("begin") /\ h.status = "running"
  /\ HandleGoto(IF model.pre THEN "pre" ELSE "plan") \/ Fail
  /\ HandleOnly
PreCommand ==
  /\ HandleAt("pre")
  /\ HandleGoto("plan") \/ Fail
  /\ HandleOnly

\* The check, then Plan and the preflight, which fails like a step.
PlanPipeline ==
  /\ HandleAt("plan")
  /\ IF hctx THEN Cancelled ELSE HandleGoto("next") \/ HandleGoto("broken") \/ Fail
  /\ HandleOnly

SetNoErr ==   \* mutant: the cancelled status alone
  /\ HandleAt("cancelled")
  /\ HandleGoto("finish")
  /\ HandleOnly
SetErr ==
  /\ HandleAt("cancelled")
  /\ h' = [h EXCEPT !.pc = "finish", !.err = "cancelled"]
  /\ HandleOnly

\* The pipeline's Cleanup runs however Execute ends: the staging directory goes.
Cleanup == IF Relay THEN at' = [at EXCEPT ![1] = {}] ELSE UNCHANGED at

PipelineFails ==
  /\ HandleAt("broken")
  /\ Cleanup
  /\ IF hctx THEN Cancelled ELSE Fail
  /\ UNCHANGED <<model, hctx, shard, sent, prog, item, ctx>>
PipelineEnds ==
  /\ HandleAt("next") /\ h.step > Steps
  /\ Cleanup
  /\ IF hctx THEN Cancelled
     ELSE IF model.post THEN HandleGoto("post")
     ELSE h' = [h EXCEPT !.pc = "finish", !.status = "done"]
  /\ UNCHANGED <<model, hctx, shard, sent, prog, item, ctx>>

\* The destination's command; nothing is checked after it.
PostCommand ==
  /\ HandleAt("post")
  /\ h' = [h EXCEPT !.pc = "finish", !.status = "done"] \/ Fail
  /\ HandleOnly

FinishUnlessCancelled ==   \* mutant: a cancelled handle is not closed
  /\ HandleAt("finish") /\ h.status # "cancelled"
  /\ h' = [h EXCEPT !.pc = "ended", !.closed = TRUE]
  /\ HandleOnly
Finish ==
  /\ HandleAt("finish")
  /\ h' = [h EXCEPT !.pc = "ended", !.closed = TRUE]
  /\ HandleOnly

-----------------------------------------------------------------------------
(* Pipeline.Execute.                                                       *)

\* The next step, unless the context is cancelled; rsync may start with shards,
\* each with a share of the files, none empty.
StepBegins(label) ==
  /\ HandleGoto(label)
  /\ sent' = [shards |-> 0, run |-> 0]
  /\ UNCHANGED <<model, hctx, at, prog, item, ctx>>
NextStep ==
  /\ HandleAt("next") /\ h.step <= Steps
  /\ IF hctx THEN HandleGoto("broken") /\ UNCHANGED <<model, hctx, at, shard, sent, prog, item, ctx>>
     ELSE \/ /\ StepBegins("run")
             /\ UNCHANGED shard
          \/ /\ Executor = "rsync" /\ model.sharded
             /\ StepBegins("shards")
             /\ \E share \in [Source -> Shards] :
                  /\ \A i \in Shards : \E f \in Source : share[f] = i
                  /\ shard' = [i \in Shards |->
                        [pc |-> "start", left |-> {f \in Source : share[f] = i}, bytes |-> 0]]

\* MigrationHandle.observe: a new step starts from zero, a step's figure grows.
Observe(b) ==
  prog' = [step |-> h.step,
           bytes |-> IF prog.step = h.step /\ prog.bytes > b THEN prog.bytes ELSE b]

Arrives(f) == at' = [at EXCEPT ![h.step] = @ \cup {f}]

-----------------------------------------------------------------------------
(* RsyncExecutor.runShards: the shards share a context that the first      *)
(* failure cancels, which an rsync that has started does not notice.       *)

ShardFailed == \E i \in Shards : shard[i].pc = "failed"
ShardGoto(i, label) == shard' = [shard EXCEPT ![i].pc = label]
ShardUnchanged == UNCHANGED <<model, h, hctx, item, ctx>>

ShardStarts(i) ==
  /\ HandleAt("shards") /\ shard[i].pc = "start"
  /\ IF hctx \/ ShardFailed THEN ShardGoto(i, "failed")
     ELSE ShardGoto(i, "running") \/ ShardGoto(i, "failed")
  /\ UNCHANGED <<at, sent, prog>> /\ ShardUnchanged

\* shardSum: each shard's own total replaces its last, and all of them add up.
ShardMoves(i) ==
  /\ HandleAt("shards") /\ shard[i].pc = "running"
  /\ \E f \in shard[i].left :
       /\ Arrives(f)
       /\ shard' = [shard EXCEPT ![i].left = @ \ {f}, ![i].bytes = @ + 1]
  /\ sent' = [sent EXCEPT !.shards = @ + 1]
  /\ Observe(sent.shards + 1)
  /\ ShardUnchanged
ShardEnds(i) ==
  /\ HandleAt("shards") /\ shard[i].pc = "running" /\ shard[i].left = {}
  /\ ShardGoto(i, "ended")
  /\ UNCHANGED <<at, sent, prog>> /\ ShardUnchanged
\* A shard that dies may leave a file it had not reported yet.
ShardFails(i) ==
  /\ HandleAt("shards") /\ shard[i].pc = "running"
  /\ ShardGoto(i, "failed")
  /\ UNCHANGED at \/ \E f \in shard[i].left : Arrives(f)
  /\ UNCHANGED <<sent, prog>> /\ ShardUnchanged

\* The full run follows, whatever became of the shards, if nobody cancelled.
ShardsSettled == \A i \in Shards : shard[i].pc \in {"ended", "failed"}
GatherIsEnough ==   \* mutant: the shards are taken for the whole transfer
  /\ HandleAt("shards") /\ ShardsSettled
  /\ h' = [h EXCEPT !.pc = "next", !.step = @ + 1]
  /\ shard' = Nobody
  /\ UNCHANGED <<model, hctx, at, sent, prog, item, ctx>>
Gather ==
  /\ HandleAt("shards") /\ ShardsSettled
  /\ HandleGoto(IF hctx THEN "broken" ELSE "run")
  /\ shard' = Nobody
  /\ UNCHANGED <<model, hctx, at, sent, prog, item, ctx>>

-----------------------------------------------------------------------------
(* The run of an executor over what is not there yet.                      *)

RunMoves ==
  /\ HandleAt("run")
  /\ \E f \in Source \ at[h.step] : Arrives(f)
  /\ sent' = [sent EXCEPT !.run = @ + 1]
  /\ Observe(sent.shards + sent.run + 1)
  /\ UNCHANGED <<model, h, hctx, shard, item, ctx>>

\* reportFinal counts what the run itself sent, after what the shards did.
FinalFigure == sent.shards + sent.run

\* An S3 executor returns the context's error once that is cancelled; rsync never
\* asks.
RunEnds ==
  /\ HandleAt("run")
  /\ Source \subseteq at[h.step]
  /\ Executor = "s3" => ~hctx
  /\ h' = [h EXCEPT !.pc = "next", !.step = @ + 1]
  /\ Observe(FinalFigure)
  /\ UNCHANGED <<model, hctx, at, shard, sent, item, ctx>>
RunFails ==
  /\ HandleAt("run")
  /\ HandleGoto("broken")
  /\ HandleOnly

-----------------------------------------------------------------------------

ItemStep == Stop \/ Stopped \/ Done

\* What no user command and no transfer is part of.
HandleStep ==
  \/ Begin \/ Validated \/ PlanPipeline \/ SetErr \/ PipelineFails \/ PipelineEnds
  \/ Finish \/ NextStep \/ Gather
CommandStep == PreCommand \/ PostCommand
ShardStep == \E i \in Shards : ShardStarts(i) \/ ShardMoves(i) \/ ShardEnds(i) \/ ShardFails(i)
RunStep == RunMoves \/ RunEnds \/ RunFails

Next == Cancel \/ ItemStep \/ HandleStep \/ CommandStep \/ ShardStep \/ RunStep

Spec == Init /\ [][Next]_vars

\* Goroutines are scheduled.
FairSpec == Spec /\ WF_vars(ItemStep) /\ WF_vars(HandleStep)

\* What nothing in the code sees to: under a cancelled handle the commands, the rsync
\* processes and the S3 requests come to an end.  The processes run without the
\* context, and so do S3's listings, the signing of a URL and the abort of an upload
\* (executor-s3.go:140, 234, s3-multipart.go:77).
WaitsEnd ==
  /\ WF_vars(hctx /\ CommandStep) /\ WF_vars(hctx /\ ShardStep)
  /\ WF_vars(hctx /\ HandleAt("run") /\ RunStep)

-----------------------------------------------------------------------------
(* Properties.                                                             *)

HandlePc == {"begin", "pre", "plan", "next", "shards", "run", "broken", "cancelled",
             "post", "finish", "ended"}

\* The shape of the state.
TypeOK ==
  /\ model \in [plan : Pipelines, sharded : BOOLEAN, pre : BOOLEAN, post : BOOLEAN]
  /\ h \in [pc : HandlePc, step : 1..3,
            status : {"pending", "running", "done", "failed", "cancelled"},
            err : {"", "error", "cancelled"}, closed : BOOLEAN]
  /\ h.step <= Steps + 1
  /\ hctx \in BOOLEAN
  /\ at \in [1..2 -> SUBSET Files]
  /\ shard \in [Shards -> [pc : {"idle", "start", "running", "ended", "failed"},
                           left : SUBSET Files, bytes : Nat]]
  /\ sent \in [shards : Nat, run : Nat]
  /\ prog \in [step : 0..2, bytes : Nat]
  /\ item \in [pc : {"wait", "stopping", "returned"}, err : {"", "error", "cancelled"}]
  /\ ctx \in BOOLEAN

\* The handle keeps what an asynchronous handle promises: the error that Wait
\* returns, which decides whether the item succeeded, is nil only for "done".
Promise == INSTANCE AsyncJob WITH
  status <- h.status, err <- h.err, closed <- h.closed, cancelled <- hctx
KeepsPromise == Promise!Spec

\* A transfer that returns without an error moved every file, whatever became of
\* the shards, and of the staging in between.
SuccessIsWhole == item.pc = "returned" /\ item.err = "" => at[Steps] = Files

\* Once runStorageTransfer has returned, nothing of the transfer moves: what the
\* run does next, up to the final status, comes after it.
QuietOnReturn == [][item.pc = "returned" => UNCHANGED <<h, at, shard, prog>>]_vars

\* A cancelled transfer returns, wherever the cancel finds it, provided that what it
\* waits for without a context ends: whatever it was at, shards included, is gathered
\* and cleaned up, and the handle is closed however the pipeline was left.
CancelReturns == WaitsEnd => (ctx ~> item.pc = "returned")

=============================================================================
