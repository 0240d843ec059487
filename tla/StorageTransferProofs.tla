------------------------- MODULE StorageTransferProofs -------------------------
(***************************************************************************)
(* For every set of files and of shards: the handle of a storage transfer  *)
(* implements AsyncJob, a transfer that returns without an error moved     *)
(* every file, and nothing moves once it has returned.                     *)
(*                                                                         *)
(* The invariant ties the position of the handle's goroutine to the status *)
(* and the error anybody may read (PositionTold), to what has arrived at   *)
(* the destinations of the steps behind it (BehindIsWhole), and to what    *)
(* runStorageTransfer returned (ReturnedTold).                             *)
(***************************************************************************)
EXTENDS StorageTransfer, TLAPS

Working == {"pre", "plan", "next", "shards", "run", "broken", "post"}
Ending == {"finish", "ended"}

\* The status and the error of each position.
PositionTold ==
  /\ h.pc = "begin" => h.status \in {"pending", "running"} /\ h.err = ""
  /\ h.pc \in Working => h.status = "running" /\ h.err = ""
  /\ h.pc = "cancelled" => h.status = "cancelled" /\ h.err = ""
  /\ h.pc \in Ending => \/ h.status = "done" /\ h.err = ""
                        \/ h.status = "failed" /\ h.err = "error"
                        \/ h.status = "cancelled" /\ h.err = "cancelled"
  /\ h.closed => h.pc = "ended"

\* Steps that are behind moved everything.
BehindIsWhole ==
  /\ h.pc \in {"begin", "pre", "plan"} => h.step = 1
  /\ h.pc \in {"shards", "run"} => h.step <= Steps
  /\ h.pc \in {"next", "shards", "run"} => \A k \in 1..2 : k < h.step => at[k] = Files
  /\ h.pc = "post" \/ h.status = "done" => at[Steps] = Files

\* What runStorageTransfer returned.
ReturnedTold ==
  item.pc = "returned" => h.closed /\ (item.err = "" => h.err = "")

IInv == TypeOK /\ PositionTold /\ BehindIsWhole /\ ReturnedTold

Statuses == {"pending", "running", "done", "failed", "cancelled"}
Errors == {"", "error", "cancelled"}
HandleType == [pc : HandlePc, step : 1..3, status : Statuses, err : Errors, closed : BOOLEAN]
ShardType == [pc : {"idle", "start", "running", "ended", "failed"},
              left : SUBSET Files, bytes : Nat]

\* TypeOK, one variable at a time.
LEMMA Typed ==
  TypeOK <=>
    /\ model \in [plan : Pipelines, sharded : BOOLEAN, pre : BOOLEAN, post : BOOLEAN]
    /\ h \in HandleType
    /\ h.step <= Steps + 1
    /\ hctx \in BOOLEAN
    /\ at \in [1..2 -> SUBSET Files]
    /\ shard \in [Shards -> ShardType]
    /\ sent \in [shards : Nat, run : Nat]
    /\ prog \in [step : 0..2, bytes : Nat]
    /\ item \in [pc : {"wait", "stopping", "returned"}, err : Errors]
    /\ ctx \in BOOLEAN
  BY Zenon DEF TypeOK, HandleType, ShardType, Statuses, Errors

\* The same of the next state.
LEMMA TypedNext ==
  TypeOK' <=>
    /\ model' \in [plan : Pipelines, sharded : BOOLEAN, pre : BOOLEAN, post : BOOLEAN]
    /\ h' \in HandleType
    /\ h'.step <= Steps' + 1
    /\ hctx' \in BOOLEAN
    /\ at' \in [1..2 -> SUBSET Files]
    /\ shard' \in [Shards -> ShardType]
    /\ sent' \in [shards : Nat, run : Nat]
    /\ prog' \in [step : 0..2, bytes : Nat]
    /\ item' \in [pc : {"wait", "stopping", "returned"}, err : Errors]
    /\ ctx' \in BOOLEAN
  BY Zenon DEF TypeOK, HandleType, ShardType, Statuses, Errors

\* A pipeline has one step or two.
LEMMA StepsRange == ASSUME TypeOK PROVE Steps \in 1..2 /\ (Relay <=> Steps = 2)
<1>1. model.plan \in Pipelines
  BY Typed
<1>2. CASE model.plan \in {<<"rsync">>, <<"s3">>}
  BY <1>2 DEF Steps, Relay
<1>3. CASE model.plan \in {"rsync", "s3"} \X {"rsync", "s3"}
  BY <1>3 DEF Steps, Relay
<1>. QED
  BY <1>1, <1>2, <1>3 DEF Pipelines

\* The fields of the handle.
LEMMA HandleFields ==
  ASSUME NEW r \in HandleType
  PROVE  r.pc \in HandlePc /\ r.step \in 1..3 /\ r.status \in Statuses /\ r.err \in Errors
         /\ r.closed \in BOOLEAN
  BY DEF HandleType

\* What each assignment to the handle leaves and changes.
LEMMA Goes ==
  ASSUME h \in HandleType, NEW label \in HandlePc, HandleGoto(label)
  PROVE  /\ h' \in HandleType /\ h'.pc = label /\ h'.step = h.step
         /\ h'.status = h.status /\ h'.err = h.err /\ h'.closed = h.closed
  BY DEF HandleType, HandleGoto

LEMMA Fails ==
  ASSUME h \in HandleType, Fail
  PROVE  /\ h' \in HandleType /\ h'.pc = "finish" /\ h'.step = h.step
         /\ h'.status = "failed" /\ h'.err = "error" /\ h'.closed = h.closed
  BY DEF HandleType, Fail, HandlePc, Statuses, Errors

LEMMA Cancels ==
  ASSUME h \in HandleType, Cancelled
  PROVE  /\ h' \in HandleType /\ h'.pc = "cancelled" /\ h'.step = h.step
         /\ h'.status = "cancelled" /\ h'.err = h.err /\ h'.closed = h.closed
  BY DEF HandleType, Cancelled, HandlePc, Statuses

LEMMA Succeeds ==
  ASSUME h \in HandleType, h' = [h EXCEPT !.pc = "finish", !.status = "done"]
  PROVE  /\ h' \in HandleType /\ h'.pc = "finish" /\ h'.step = h.step
         /\ h'.status = "done" /\ h'.err = h.err /\ h'.closed = h.closed
  BY DEF HandleType, HandlePc, Statuses

LEMMA Begins ==
  ASSUME h \in HandleType, Begin
  PROVE  /\ h' \in HandleType /\ h.pc = "begin" /\ h'.pc = "begin" /\ h'.step = h.step
         /\ h.status = "pending" /\ h'.status = "running" /\ h'.err = h.err
         /\ h'.closed = h.closed
  BY DEF HandleType, Begin, HandleAt, Statuses

LEMMA SetsErr ==
  ASSUME h \in HandleType, SetErr
  PROVE  /\ h' \in HandleType /\ h.pc = "cancelled" /\ h'.pc = "finish" /\ h'.step = h.step
         /\ h'.status = h.status /\ h'.err = "cancelled" /\ h'.closed = h.closed
  BY DEF HandleType, SetErr, HandleAt, HandlePc, Errors

LEMMA Finishes ==
  ASSUME h \in HandleType, Finish
  PROVE  /\ h' \in HandleType /\ h.pc = "finish" /\ h'.pc = "ended" /\ h'.step = h.step
         /\ h'.status = h.status /\ h'.err = h.err /\ h'.closed = TRUE
  BY DEF HandleType, Finish, HandleAt, HandlePc

LEMMA NextStepNumber ==
  ASSUME h \in HandleType, h.step \in 1..2, h' = [h EXCEPT !.pc = "next", !.step = @ + 1]
  PROVE  /\ h' \in HandleType /\ h'.pc = "next" /\ h'.step = h.step + 1
         /\ h'.status = h.status /\ h'.err = h.err /\ h'.closed = h.closed
<1> DEFINE s == h.step + 1
<1>1. s \in 1..3
  OBVIOUS
<1>2. h' = [h EXCEPT !.pc = "next", !.step = s]
  OBVIOUS
<1>3. "next" \in HandlePc
  BY DEF HandlePc
<1> HIDE DEF s
<1>4. /\ h' \in HandleType /\ h'.pc = "next" /\ h'.step = s
      /\ h'.status = h.status /\ h'.err = h.err /\ h'.closed = h.closed
  BY <1>1, <1>2, <1>3 DEF HandleType
<1>. QED
  BY <1>4 DEF s

\* The initial states.
THEOREM InitHolds == Init => IInv
<1> SUFFICES ASSUME Init PROVE IInv
  OBVIOUS
<1>1. /\ model \in [plan : Pipelines, sharded : BOOLEAN, pre : BOOLEAN, post : BOOLEAN]
      /\ h = [pc |-> "begin", step |-> 1, status |-> "pending", err |-> "", closed |-> FALSE]
      /\ item = [pc |-> "wait", err |-> ""]
  BY DEF Init
<1>2. Steps \in 1..2
  <2>1. model.plan \in Pipelines
    BY <1>1
  <2>2. CASE model.plan \in {<<"rsync">>, <<"s3">>}
    BY <2>2 DEF Steps
  <2>3. CASE model.plan \in {"rsync", "s3"} \X {"rsync", "s3"}
    BY <2>3 DEF Steps
  <2>. QED
    BY <2>1, <2>2, <2>3 DEF Pipelines
<1>3. /\ h \in HandleType /\ h.pc = "begin" /\ h.step = 1 /\ h.status = "pending"
      /\ h.err = "" /\ h.closed = FALSE
  <2>1. h = [pc |-> "begin", step |-> 1, status |-> "pending", err |-> "", closed |-> FALSE]
    BY <1>1
  <2>2. "begin" \in HandlePc /\ "pending" \in Statuses /\ "" \in Errors
    BY DEF HandlePc, Statuses, Errors
  <2>3. h \in HandleType
    <3> DEFINE open == FALSE
               one == 1
    <3>1. open \in BOOLEAN /\ one \in 1..3
      OBVIOUS
    <3>2. h = [pc |-> "begin", step |-> one, status |-> "pending", err |-> "", closed |-> open]
      BY <2>1
    <3> HIDE DEF open, one
    <3>. QED
      BY <2>2, <3>1, <3>2 DEF HandleType
  <2>. QED
    BY <2>1, <2>3
<1>4. h.step <= Steps + 1
  <2>1. h.step = 1
    BY <1>3
  <2>. QED
    BY <1>2, <2>1
<1>5. at \in [1..2 -> SUBSET Files] /\ hctx \in BOOLEAN /\ ctx \in BOOLEAN
  <2>1. at = [k \in 1..2 |-> {}] /\ hctx = FALSE /\ ctx = FALSE
    BY DEF Init
  <2>. QED
    BY <2>1
<1>6. shard \in [Shards -> ShardType]
  <2>1. shard = [i \in Shards |-> [pc |-> "idle", left |-> {}, bytes |-> 0]]
    BY DEF Init, Nobody
  <2>. QED
    BY <2>1 DEF ShardType
<1>7. sent \in [shards : Nat, run : Nat] /\ prog \in [step : 0..2, bytes : Nat]
  <2>1. sent = [shards |-> 0, run |-> 0] /\ prog = [step |-> 0, bytes |-> 0]
    BY DEF Init
  <2>. QED
    BY <2>1
<1>8. item \in [pc : {"wait", "stopping", "returned"}, err : Errors] /\ item.pc = "wait"
  BY <1>1 DEF Errors
<1>9. TypeOK
  BY <1>1, <1>3, <1>4, <1>5, <1>6, <1>7, <1>8, Typed
<1>10. PositionTold
  BY <1>3 DEF PositionTold, Working, Ending
<1>11. BehindIsWhole
  BY <1>3 DEF BehindIsWhole
<1>12. ReturnedTold
  BY <1>8 DEF ReturnedTold
<1>. QED
  BY <1>9, <1>10, <1>11, <1>12 DEF IInv

\* A step that touches neither the handle nor the files.
LEMMA ItemKeeps ==
  ASSUME IInv, Cancel \/ ItemStep PROVE IInv'
<1>1. UNCHANGED <<model, h, at, shard, sent, prog>>
  BY DEF Cancel, ItemStep, Stop, Stopped, Done
<1>2. Steps' = Steps
  BY <1>1 DEF Steps
<1>3. ctx' \in BOOLEAN /\ hctx' \in BOOLEAN
  BY Typed DEF IInv, Cancel, ItemStep, Stop, Stopped, Done
<1>4. /\ item' \in [pc : {"wait", "stopping", "returned"}, err : Errors]
      /\ item'.pc = "returned" => item' = item \/ (h.closed /\ (item'.err = "" => h.err = ""))
  <2>1. h.err \in Errors
    BY Typed, HandleFields DEF IInv
  <2>2. item \in [pc : {"wait", "stopping", "returned"}, err : Errors]
    BY Typed DEF IInv
  <2>3. CASE item' = item
    BY <2>2, <2>3
  <2>4. CASE item' = [item EXCEPT !.pc = "stopping"]
    BY <2>2, <2>4
  <2>5. CASE Stopped
    BY <2>5 DEF Stopped, Errors
  <2>6. CASE Done
    BY <2>1, <2>6 DEF Done
  <2>. QED
    BY <2>3, <2>4, <2>5, <2>6 DEF Cancel, ItemStep, Stop
<1>5. TypeOK'
  BY <1>1, <1>2, <1>3, <1>4, Typed, TypedNext DEF IInv
<1>6. ReturnedTold'
  BY <1>1, <1>4 DEF IInv, ReturnedTold
<1>7. PositionTold' /\ BehindIsWhole'
  BY <1>1, <1>2 DEF IInv, PositionTold, BehindIsWhole
<1>. QED
  BY <1>5, <1>6, <1>7 DEF IInv

\* The status of the position a goroutine is at when it takes a step.
LEMMA AtWork ==
  ASSUME IInv
  PROVE  /\ h \in HandleType /\ h.step \in 1..3
         /\ h.pc \in Working => h.status = "running" /\ h.err = "" /\ ~h.closed
         /\ h.pc = "cancelled" => h.status = "cancelled" /\ h.err = "" /\ ~h.closed
         /\ h.pc \in {"begin", "finish"} => ~h.closed
         /\ h.pc # "ended" => item.pc # "returned"
<1>1. h \in HandleType /\ h.step \in 1..3
  BY Typed, HandleFields DEF IInv
<1>. QED
  BY <1>1 DEF IInv, PositionTold, ReturnedTold, Working

\* Steps of the handle's goroutine that leave the files where they are.
LEMMA HandleTalks ==
  ASSUME IInv,
         \/ Begin \/ Validated \/ PreCommand \/ PlanPipeline \/ SetErr
         \/ PostCommand \/ Finish \/ RunFails
  PROVE  IInv'
<1>1. UNCHANGED <<model, hctx, at, shard, sent, prog, item, ctx>>
  BY DEF Begin, Validated, PreCommand, PlanPipeline, SetErr, PostCommand, Finish, RunFails,
     HandleOnly
<1>2. Steps' = Steps
  BY <1>1 DEF Steps
<1>3. h \in HandleType
  BY AtWork
<1>4. \/ Begin \/ SetErr \/ Finish
      \/ /\ h.pc \in {"begin", "plan", "pre", "post", "run"} /\ h.status = "running"
         /\ Fail
      \/ h.pc = "plan" /\ Cancelled
      \/ h.pc = "post" /\ h' = [h EXCEPT !.pc = "finish", !.status = "done"]
      \/ h.pc = "begin" /\ h.status = "running" /\ (HandleGoto("pre") \/ HandleGoto("plan"))
      \/ h.pc = "pre" /\ HandleGoto("plan")
      \/ h.pc = "plan" /\ (HandleGoto("next") \/ HandleGoto("broken"))
      \/ h.pc = "run" /\ HandleGoto("broken")
  BY AtWork DEF Validated, PreCommand, PlanPipeline, PostCommand, RunFails, HandleAt, Working
<1>5. {"pre", "plan", "next", "broken"} \subseteq HandlePc
  BY DEF HandlePc
<1>6. /\ h' \in HandleType /\ h'.step = h.step /\ PositionTold'
      /\ h.pc # "ended"
      /\ h'.pc \in {"begin", "pre", "plan"} => h.pc \in {"begin", "pre", "plan"}
      /\ h'.pc \notin {"shards", "run"}
      /\ h'.pc = "next" => h.pc = "plan"
      /\ h'.pc = "post" \/ h'.status = "done" => h.pc = "post" \/ h.status = "done"
  <2>. USE DEF PositionTold, Working, Ending
  <2>1. PositionTold
    BY DEF IInv
  <2>2. CASE Begin
    BY <1>3, <2>1, <2>2, Begins
  <2>3. CASE SetErr
    BY <1>3, <2>1, <2>3, SetsErr
  <2>4. CASE Finish
    BY <1>3, <2>1, <2>4, Finishes
  <2>5. CASE h.pc \in {"begin", "plan", "pre", "post", "run"} /\ h.status = "running" /\ Fail
    BY <1>3, <2>1, <2>5, Fails
  <2>6. CASE h.pc = "plan" /\ Cancelled
    BY <1>3, <2>1, <2>6, Cancels
  <2>7. CASE h.pc = "post" /\ h' = [h EXCEPT !.pc = "finish", !.status = "done"]
    BY <1>3, <2>1, <2>7, Succeeds
  <2>8. ASSUME NEW p \in {"pre", "plan", "next", "broken"}, HandleGoto(p),
               \/ h.pc = "begin" /\ h.status = "running" /\ p \in {"pre", "plan"}
               \/ h.pc = "pre" /\ p = "plan"
               \/ h.pc = "plan" /\ p \in {"next", "broken"}
               \/ h.pc = "run" /\ p = "broken"
        PROVE  <1>6!:
    <3>1. /\ h' \in HandleType /\ h'.pc = p /\ h'.step = h.step
          /\ h'.status = h.status /\ h'.err = h.err /\ h'.closed = h.closed
      BY <1>3, <1>5, <2>8, Goes
    <3>. QED
      BY <2>1, <2>8, <3>1
  <2>. QED
    BY <1>4, <2>2, <2>3, <2>4, <2>5, <2>6, <2>7, <2>8
<1>7. TypeOK'
  <2>1. h'.step <= Steps' + 1
    BY <1>2, <1>6, Typed DEF IInv
  <2>. QED
    BY <1>1, <1>6, <2>1, Typed, TypedNext DEF IInv
<1>8. BehindIsWhole'
  <2>1. h'.pc = "next" => \A k \in 1..2 : ~(k < h'.step)
    BY <1>6 DEF IInv, BehindIsWhole
  <2>. QED
    BY <1>1, <1>2, <1>6, <2>1 DEF IInv, BehindIsWhole
<1>9. ReturnedTold'
  BY <1>1, <1>6, AtWork DEF ReturnedTold
<1>. QED
  BY <1>6, <1>7, <1>8, <1>9 DEF IInv

\* The end of the pipeline, where the staging goes and the destination stays.
LEMMA PipelineOver ==
  ASSUME IInv, PipelineFails \/ PipelineEnds PROVE IInv'
<1>1. UNCHANGED <<model, hctx, shard, sent, prog, item, ctx>>
  BY DEF PipelineFails, PipelineEnds
<1>2. Steps' = Steps
  BY <1>1 DEF Steps
<1>3. at' \in [1..2 -> SUBSET Files] /\ at'[Steps] = at[Steps]
  <2>1. at' = at \/ (Relay /\ at' = [at EXCEPT ![1] = {}])
    BY DEF PipelineFails, PipelineEnds, Cleanup
  <2>2. at \in [1..2 -> SUBSET Files]
    BY Typed DEF IInv
  <2>3. Relay => Steps = 2
    BY DEF Relay
  <2>. QED
    BY <2>1, <2>2, <2>3
<1>4. h \in HandleType /\ h.status = "running" /\ h.err = "" /\ ~h.closed /\ item.pc # "returned"
  BY AtWork DEF PipelineFails, PipelineEnds, HandleAt, Working
<1>5. \/ Cancelled \/ Fail
      \/ /\ h.pc = "next" /\ h.step > Steps
         /\ \/ HandleGoto("post")
            \/ h' = [h EXCEPT !.pc = "finish", !.status = "done"]
  BY DEF PipelineFails, PipelineEnds, HandleAt
<1>6. /\ h' \in HandleType /\ h'.step = h.step
      /\ PositionTold'
      /\ h'.pc \in {"cancelled", "finish", "post"}
      /\ h'.pc = "post" \/ h'.status = "done" => h.pc = "next" /\ h.step > Steps
  <2>. USE DEF PositionTold, Working, Ending
  <2>1. CASE Cancelled
    BY <1>4, <2>1, Cancels
  <2>2. CASE Fail
    BY <1>4, <2>2, Fails
  <2>3. CASE h.pc = "next" /\ h.step > Steps /\ HandleGoto("post")
    <3>1. "post" \in HandlePc
      BY DEF HandlePc
    <3>. QED
      BY <1>4, <2>3, <3>1, Goes
  <2>4. CASE h.pc = "next" /\ h.step > Steps /\ h' = [h EXCEPT !.pc = "finish", !.status = "done"]
    BY <1>4, <2>4, Succeeds
  <2>. QED
    BY <1>5, <2>1, <2>2, <2>3, <2>4
<1>7. TypeOK'
  <2>1. h'.step <= Steps' + 1
    BY <1>2, <1>6, Typed DEF IInv
  <2>. QED
    BY <1>1, <1>3, <1>6, <2>1, Typed, TypedNext DEF IInv
<1>8. h.pc = "next" /\ h.step > Steps => at[Steps] = Files
  <2>1. Steps \in 1..2 /\ h.step \in 1..3
    BY AtWork, StepsRange DEF IInv
  <2>. QED
    BY <2>1 DEF IInv, BehindIsWhole
<1>9. BehindIsWhole'
  BY <1>2, <1>3, <1>6, <1>8 DEF BehindIsWhole
<1>10. ReturnedTold'
  BY <1>1, <1>4 DEF ReturnedTold
<1>. QED
  BY <1>6, <1>7, <1>9, <1>10 DEF IInv

\* Where the current step reads is part of what there was.
LEMMA SourceType ==
  ASSUME IInv, h.pc \in {"next", "shards", "run"}, h.step <= Steps
  PROVE  /\ h.step \in 1..2
         /\ Source = Files
<1>1. Steps \in 1..2 /\ h.step \in 1..3
  BY AtWork, StepsRange DEF IInv
<1>2. h.step \in 1..2
  BY <1>1
<1>3. CASE h.step = 1
  BY <1>3 DEF Source
<1>4. CASE h.step = 2
  <2>1. at[1] = Files
    BY <1>4 DEF IInv, BehindIsWhole
  <2>. QED
    BY <1>4, <2>1 DEF Source
<1>. QED
  BY <1>2, <1>3, <1>4

\* The goroutine moves on between steps; the files and the answer stay.
LEMMA MovesOn ==
  ASSUME IInv, h.pc \in {"next", "shards"}, h.step <= Steps,
         NEW p \in {"broken", "run", "shards"}, HandleGoto(p),
         UNCHANGED <<model, hctx, at, prog, item, ctx>>,
         shard' \in [Shards -> ShardType],
         sent' \in [shards : Nat, run : Nat]
  PROVE  IInv'
<1>1. Steps' = Steps
  BY DEF Steps
<1>2. h \in HandleType /\ h.status = "running" /\ h.err = "" /\ ~h.closed /\ item.pc # "returned"
  BY AtWork DEF Working
<1>3. p \in HandlePc
  BY DEF HandlePc
<1>4. /\ h' \in HandleType /\ h'.pc = p /\ h'.step = h.step
      /\ h'.status = h.status /\ h'.err = h.err /\ h'.closed = h.closed
  BY <1>2, <1>3, Goes
<1>5. TypeOK'
  <2>1. h'.step <= Steps' + 1
    BY <1>1, <1>4, Typed DEF IInv
  <2>. QED
    BY <1>4, <2>1, Typed, TypedNext DEF IInv
<1>6. PositionTold'
  BY <1>2, <1>4 DEF PositionTold, Working, Ending
<1>7. BehindIsWhole'
  BY <1>1, <1>2, <1>4 DEF IInv, BehindIsWhole
<1>8. ReturnedTold'
  BY <1>2 DEF ReturnedTold
<1>. QED
  BY <1>5, <1>6, <1>7, <1>8 DEF IInv

\* A step begins: rsync's shards, or the run itself.
LEMMA NextStepKeeps ==
  ASSUME IInv, NextStep PROVE IInv'
<1>1. h.pc = "next" /\ h.step <= Steps /\ UNCHANGED <<model, hctx, at, prog, item, ctx>>
  BY DEF NextStep, StepBegins, HandleAt
<1>2. PICK p \in {"broken", "run", "shards"} : HandleGoto(p)
  BY DEF NextStep, StepBegins
<1>3. sent' \in [shards : Nat, run : Nat]
  <2>1. sent' = sent \/ sent' = [shards |-> 0, run |-> 0]
    BY DEF NextStep, StepBegins
  <2>. QED
    BY <2>1, Typed DEF IInv
<1>4. shard' \in [Shards -> ShardType]
  <2>1. Source = Files
    BY <1>1, SourceType
  <2>2. ASSUME NEW share \in [Source -> Shards],
               shard' = [i \in Shards |->
                  [pc |-> "start", left |-> {f \in Source : share[f] = i}, bytes |-> 0]]
        PROVE  shard' \in [Shards -> ShardType]
    <3>1. \A i \in Shards : {f \in Source : share[f] = i} \in SUBSET Files
      BY <2>1
    <3>2. \A s \in SUBSET Files : [pc |-> "start", left |-> s, bytes |-> 0] \in ShardType
      BY DEF ShardType
    <3>. QED
      BY <2>2, <3>1, <3>2
  <2>3. CASE shard' = shard
    BY <2>3, Typed DEF IInv
  <2>. QED
    BY <2>2, <2>3 DEF NextStep
<1>. QED
  BY <1>1, <1>2, <1>3, <1>4, MovesOn

\* The full run after the shards.
LEMMA GatherKeeps ==
  ASSUME IInv, Gather PROVE IInv'
<1>1. h.pc = "shards" /\ h.step <= Steps
  BY DEF Gather, HandleAt, IInv, BehindIsWhole
<1>2. UNCHANGED <<model, hctx, at, sent, prog, item, ctx>>
  BY DEF Gather
<1>3. PICK p \in {"broken", "run", "shards"} : HandleGoto(p)
  BY DEF Gather
<1>4. shard' \in [Shards -> ShardType]
  <2>1. shard' = [i \in Shards |-> [pc |-> "idle", left |-> {}, bytes |-> 0]]
    BY DEF Gather, Nobody
  <2>. QED
    BY <2>1 DEF ShardType
<1>5. sent' \in [shards : Nat, run : Nat]
  BY <1>2, Typed DEF IInv
<1>. QED
  BY <1>1, <1>2, <1>3, <1>4, <1>5, MovesOn

\* A poller's figure is a number.
LEMMA ObserveType ==
  ASSUME prog \in [step : 0..2, bytes : Nat], NEW b \in Nat, Observe(b), h.step \in 1..2
  PROVE  prog' \in [step : 0..2, bytes : Nat]
<1> DEFINE figure == IF prog.step = h.step /\ prog.bytes > b THEN prog.bytes ELSE b
<1>1. figure \in Nat
  OBVIOUS
<1>2. prog' = [step |-> h.step, bytes |-> figure]
  BY DEF Observe
<1> HIDE DEF figure
<1>. QED
  BY <1>1, <1>2

\* A file of the current step's source arrives at its destination.
LEMMA ArrivesType ==
  ASSUME at \in [1..2 -> SUBSET Files], NEW f \in Files, Arrives(f), h.step \in 1..2
  PROVE  /\ at' \in [1..2 -> SUBSET Files]
         /\ \A k \in 1..2 : k # h.step => at'[k] = at[k]
  BY DEF Arrives

\* While a step runs, only its own destination changes.
LEMMA FilesMove ==
  ASSUME IInv,
         UNCHANGED <<model, h, hctx, item, ctx>>,
         h.pc \in {"shards", "run"},
         at' \in [1..2 -> SUBSET Files],
         \A k \in 1..2 : k # h.step => at'[k] = at[k],
         shard' \in [Shards -> ShardType],
         sent' \in [shards : Nat, run : Nat],
         prog' \in [step : 0..2, bytes : Nat]
  PROVE  IInv'
<1>1. Steps' = Steps
  BY DEF Steps
<1>2. TypeOK'
  BY <1>1, Typed, TypedNext DEF IInv
<1>3. h.status = "running" /\ h.step \in 1..3
  BY AtWork DEF Working
<1>4. BehindIsWhole'
  BY <1>1, <1>3 DEF IInv, BehindIsWhole
<1>5. PositionTold' /\ ReturnedTold'
  BY DEF IInv, PositionTold, ReturnedTold
<1>. QED
  BY <1>2, <1>4, <1>5 DEF IInv

\* The shards.
LEMMA ShardKeeps ==
  ASSUME IInv, ShardStep PROVE IInv'
<1>1. PICK i \in Shards : ShardStarts(i) \/ ShardMoves(i) \/ ShardEnds(i) \/ ShardFails(i)
  BY DEF ShardStep
<1>2. h.pc = "shards" /\ UNCHANGED <<model, h, hctx, item, ctx>>
  BY <1>1 DEF ShardStarts, ShardMoves, ShardEnds, ShardFails, HandleAt, ShardUnchanged
<1>3. h.step \in 1..2
  BY <1>2, SourceType DEF IInv, BehindIsWhole
<1>4. /\ at \in [1..2 -> SUBSET Files] /\ shard \in [Shards -> ShardType]
      /\ sent \in [shards : Nat, run : Nat] /\ prog \in [step : 0..2, bytes : Nat]
  BY Typed DEF IInv
<1>5. /\ shard[i].left \in SUBSET Files /\ shard[i].bytes \in Nat
      /\ sent.shards \in Nat /\ sent.run \in Nat
  BY <1>4 DEF ShardType
<1>6. /\ at' \in [1..2 -> SUBSET Files]
      /\ \A k \in 1..2 : k # h.step => at'[k] = at[k]
  <2>1. at' = at \/ \E f \in shard[i].left : Arrives(f)
    BY <1>1 DEF ShardStarts, ShardMoves, ShardEnds, ShardFails
  <2>. QED
    BY <1>3, <1>4, <1>5, <2>1, ArrivesType
<1>7. shard' \in [Shards -> ShardType]
  <2>1. ASSUME NEW label \in {"running", "ended", "failed"}, ShardGoto(i, label)
        PROVE  shard' \in [Shards -> ShardType]
    BY <1>4, <2>1 DEF ShardGoto, ShardType
  <2>2. ASSUME NEW f \in shard[i].left,
               shard' = [shard EXCEPT ![i].left = @ \ {f}, ![i].bytes = @ + 1]
        PROVE  shard' \in [Shards -> ShardType]
    <3> DEFINE rest == shard[i].left \ {f}
               more == shard[i].bytes + 1
    <3>1. rest \in SUBSET Files /\ more \in Nat
      BY <1>5
    <3>2. shard' = [shard EXCEPT ![i] = [shard[i] EXCEPT !.left = rest, !.bytes = more]]
      BY <1>4, <2>2 DEF ShardType
    <3> HIDE DEF rest, more
    <3>. QED
      BY <1>4, <3>1, <3>2 DEF ShardType
  <2>. QED
    BY <1>1, <2>1, <2>2 DEF ShardStarts, ShardMoves, ShardEnds, ShardFails
<1>8. /\ sent' \in [shards : Nat, run : Nat]
      /\ prog' \in [step : 0..2, bytes : Nat]
  <2>1. CASE UNCHANGED <<sent, prog>>
    BY <1>4, <2>1
  <2>2. CASE sent' = [sent EXCEPT !.shards = @ + 1] /\ Observe(sent.shards + 1)
    <3>1. sent.shards + 1 \in Nat
      BY <1>5
    <3>2. prog' \in [step : 0..2, bytes : Nat]
      BY <1>3, <1>4, <2>2, <3>1, ObserveType
    <3>. QED
      BY <1>4, <1>5, <2>2, <3>2
  <2>. QED
    BY <1>1, <2>1, <2>2 DEF ShardStarts, ShardMoves, ShardEnds, ShardFails
<1>. QED
  BY <1>2, <1>6, <1>7, <1>8, FilesMove

\* A file of the run.
LEMMA RunMovesKeeps ==
  ASSUME IInv, RunMoves PROVE IInv'
<1>1. h.pc = "run" /\ UNCHANGED <<model, h, hctx, shard, item, ctx>>
  BY DEF RunMoves, HandleAt
<1>2. h.step \in 1..2 /\ Source = Files
  BY <1>1, SourceType DEF IInv, BehindIsWhole
<1>3. PICK f \in Source \ at[h.step] : Arrives(f)
  BY DEF RunMoves
<1>4. /\ at \in [1..2 -> SUBSET Files] /\ shard' \in [Shards -> ShardType]
      /\ sent \in [shards : Nat, run : Nat] /\ prog \in [step : 0..2, bytes : Nat]
  BY <1>1, Typed DEF IInv
<1>5. /\ at' \in [1..2 -> SUBSET Files]
      /\ \A k \in 1..2 : k # h.step => at'[k] = at[k]
  BY <1>2, <1>3, <1>4, ArrivesType
<1>6. sent.shards + sent.run + 1 \in Nat /\ sent.run + 1 \in Nat /\ sent.shards \in Nat
  BY <1>4
<1>7. sent' \in [shards : Nat, run : Nat]
  BY <1>4, <1>6 DEF RunMoves
<1>8. prog' \in [step : 0..2, bytes : Nat]
  BY <1>2, <1>4, <1>6, ObserveType DEF RunMoves
<1>. QED
  BY <1>1, <1>4, <1>5, <1>7, <1>8, FilesMove

\* A step that ends has moved everything its source had, which is everything.
LEMMA RunEndsKeeps ==
  ASSUME IInv, RunEnds PROVE IInv'
<1>1. /\ h.pc = "run" /\ UNCHANGED <<model, hctx, at, shard, sent, item, ctx>>
      /\ Source \subseteq at[h.step]
      /\ h' = [h EXCEPT !.pc = "next", !.step = @ + 1]
  BY DEF RunEnds, HandleAt
<1>2. Steps' = Steps
  BY <1>1 DEF Steps
<1>3. h.step <= Steps
  BY <1>1 DEF IInv, BehindIsWhole
<1>4. h.step \in 1..2 /\ Source = Files
  BY <1>1, <1>3, SourceType
<1>5. h \in HandleType /\ h.status = "running" /\ h.err = "" /\ ~h.closed /\ item.pc # "returned"
  BY <1>1, AtWork DEF Working
<1>6. /\ h' \in HandleType /\ h'.pc = "next" /\ h'.step = h.step + 1
      /\ h'.status = h.status /\ h'.err = h.err /\ h'.closed = h.closed
  BY <1>1, <1>4, <1>5, NextStepNumber
<1>7. prog' \in [step : 0..2, bytes : Nat]
  <2>1. FinalFigure \in Nat
    <3>1. sent \in [shards : Nat, run : Nat]
      BY Typed DEF IInv
    <3>. QED
      BY <3>1 DEF FinalFigure
  <2>. QED
    BY <1>4, <2>1, ObserveType, Typed DEF IInv, RunEnds
<1>8. TypeOK'
  <2>1. h'.step <= Steps' + 1
    <3>1. Steps \in 1..2
      BY StepsRange DEF IInv
    <3>. QED
      BY <1>2, <1>3, <1>4, <1>6, <3>1
  <2>. QED
    BY <1>1, <1>6, <1>7, <2>1, Typed, TypedNext DEF IInv
<1>9. PositionTold'
  BY <1>5, <1>6 DEF PositionTold, Working, Ending
<1>10. at[h.step] = Files
  <2>1. at \in [1..2 -> SUBSET Files]
    BY Typed DEF IInv
  <2>. QED
    BY <1>1, <1>4, <2>1
<1>11. \A k \in 1..2 : k < h.step + 1 => at[k] = Files
  <2>1. \A k \in 1..2 : k < h.step => at[k] = Files
    BY <1>1 DEF IInv, BehindIsWhole
  <2>. QED
    BY <1>4, <1>10, <2>1
<1>12. BehindIsWhole'
  BY <1>1, <1>5, <1>6, <1>11 DEF BehindIsWhole
<1>13. ReturnedTold'
  BY <1>1, <1>5 DEF ReturnedTold
<1>. QED
  BY <1>8, <1>9, <1>12, <1>13 DEF IInv

\* Every step keeps the invariant.
THEOREM NextKeeps == IInv /\ [Next]_vars => IInv'
<1> SUFFICES ASSUME IInv, [Next]_vars PROVE IInv'
  OBVIOUS
<1>1. CASE UNCHANGED vars
  <2>1. Steps' = Steps
    BY <1>1 DEF vars, Steps
  <2>2. TypeOK'
    BY <1>1, <2>1, Typed, TypedNext DEF vars, IInv
  <2>3. PositionTold' /\ BehindIsWhole' /\ ReturnedTold'
    BY <1>1, <2>1 DEF vars, IInv, PositionTold, BehindIsWhole, ReturnedTold
  <2>. QED
    BY <2>2, <2>3 DEF IInv
<1>2. CASE Cancel \/ ItemStep
  BY <1>2, ItemKeeps
<1>3. CASE HandleStep
  BY <1>3, HandleTalks, PipelineOver, NextStepKeeps, GatherKeeps DEF HandleStep
<1>4. CASE CommandStep
  BY <1>4, HandleTalks DEF CommandStep
<1>5. CASE ShardStep
  BY <1>5, ShardKeeps
<1>6. CASE RunStep
  BY <1>6, HandleTalks, RunMovesKeeps, RunEndsKeeps DEF RunStep
<1>. QED
  BY <1>1, <1>2, <1>3, <1>4, <1>5, <1>6 DEF Next

\* The invariant holds of every behaviour.
THEOREM AlwaysIInv == Spec => []IInv
<1>. QED
  BY InitHolds, NextKeeps, PTL DEF Spec

\* A transfer that returns without an error is whole.
THEOREM WholeOnSuccess == Spec => []SuccessIsWhole
<1>1. IInv => SuccessIsWhole
  BY DEF IInv, SuccessIsWhole, ReturnedTold, PositionTold, BehindIsWhole, Ending
<1>. QED
  BY <1>1, AlwaysIInv, PTL

\* Nothing moves after the return: every step that moves something needs the
\* handle's goroutine, whose end was waited for.
THEOREM QuietAfterReturn == Spec => QuietOnReturn
<1>1. IInv /\ [Next]_vars => [item.pc = "returned" => UNCHANGED <<h, at, shard, prog>>]_vars
  <2> SUFFICES ASSUME IInv, Next, item.pc = "returned"
               PROVE  UNCHANGED <<h, at, shard, prog>>
    OBVIOUS
  <2>1. h.pc = "ended"
    BY DEF IInv, ReturnedTold, PositionTold
  <2>2. ~HandleStep
    BY <2>1 DEF HandleStep, Begin, Validated, PlanPipeline, SetErr, PipelineFails,
       PipelineEnds, Finish, NextStep, Gather, HandleAt
  <2>3. ~CommandStep /\ ~ShardStep /\ ~RunStep
    BY <2>1 DEF CommandStep, PreCommand, PostCommand, ShardStep, ShardStarts, ShardMoves,
       ShardEnds, ShardFails, RunStep, RunMoves, RunEnds, RunFails, HandleAt
  <2>4. Cancel \/ ItemStep
    BY <2>2, <2>3 DEF Next
  <2>. QED
    BY <2>4 DEF Cancel, ItemStep, Stop, Stopped, Done
<1>. QED
  BY <1>1, AlwaysIInv, PTL DEF Spec, QuietOnReturn

\* The handle implements AsyncJob.
THEOREM HandleImplements == Spec => KeepsPromise
<1>1. Init => Promise!Init
  <2> SUFFICES ASSUME Init PROVE Promise!Init
    OBVIOUS
  <2>1. /\ h = [pc |-> "begin", step |-> 1, status |-> "pending", err |-> "", closed |-> FALSE]
        /\ hctx = FALSE
    BY DEF Init
  <2>. QED
    BY <2>1 DEF Promise!Init
<1>2. IInv /\ [Next]_vars => [Promise!Next]_(Promise!job)
  <2> SUFFICES ASSUME IInv, [Next]_vars PROVE Promise!Next \/ UNCHANGED Promise!job
    OBVIOUS
  <2> DEFINE Same == UNCHANGED <<h.status, h.err, h.closed, hctx>>
  <2>1. h \in HandleType
    BY AtWork
  <2>2. CASE Same
    BY <2>2 DEF Promise!job
  <2>3. CASE UNCHANGED vars \/ Cancel \/ ItemStep
    <3>1. h' = h /\ (hctx' = hctx \/ hctx' = TRUE)
      BY <2>3 DEF vars, Cancel, ItemStep, Stop, Stopped, Done
    <3>. QED
      BY <3>1 DEF Promise!job, Promise!Next, Promise!Cancel
  <2>4. CASE Begin
    BY <2>1, <2>4, Begins DEF Begin, HandleOnly, Promise!Next, Promise!Start
  <2>5. ASSUME Fail, hctx' = hctx, h.status = "running" PROVE Promise!Next
    BY <2>1, <2>5, Fails DEF Promise!Next, Promise!End
  <2>6. ASSUME Cancelled, hctx' = hctx, h.status = "running", hctx PROVE Promise!Next
    BY <2>1, <2>6, Cancels DEF Promise!Next, Promise!EndCancelled
  <2>7. ASSUME h' = [h EXCEPT !.pc = "finish", !.status = "done"], hctx' = hctx,
               h.status = "running"
        PROVE  Promise!Next
    BY <2>1, <2>7, Succeeds DEF Promise!Next, Promise!End
  <2>8. CASE SetErr
    <3>1. h.status = "cancelled" /\ ~h.closed /\ hctx' = hctx
      BY <2>8, AtWork DEF SetErr, HandleAt, HandleOnly
    <3>. QED
      BY <2>1, <2>8, <3>1, SetsErr DEF Promise!Next, Promise!Explain
  <2>9. CASE Finish
    <3>1. hctx' = hctx
      BY <2>9 DEF Finish, HandleOnly
    <3>2. h.pc = "finish"
      BY <2>9 DEF Finish, HandleAt
    <3>3. \/ h.status = "done" /\ h.err = ""
          \/ h.status = "failed" /\ h.err = "error"
          \/ h.status = "cancelled" /\ h.err = "cancelled"
      BY <3>2 DEF IInv, PositionTold, Ending
    <3>. QED
      BY <2>1, <2>9, <3>1, <3>3, Finishes DEF Promise!Next, Promise!Finish
  <2>10. ASSUME NEW p \in HandlePc, HandleGoto(p), hctx' = hctx PROVE Same
    BY <2>1, <2>10, Goes
  <2>11. {"pre", "plan", "next", "broken", "post", "run", "shards"} \subseteq HandlePc
    BY DEF HandlePc
  <2>12. CASE Validated \/ PreCommand \/ PlanPipeline \/ PostCommand \/ RunFails
    <3>1. h.status = "running" /\ hctx' = hctx
      BY <2>12, AtWork DEF Validated, PreCommand, PlanPipeline, PostCommand, RunFails, HandleAt,
         HandleOnly, Working
    <3>2. \/ Fail \/ (Cancelled /\ hctx)
          \/ h' = [h EXCEPT !.pc = "finish", !.status = "done"]
          \/ \E p \in {"pre", "plan", "next", "broken"} : HandleGoto(p)
      BY <2>12 DEF Validated, PreCommand, PlanPipeline, PostCommand, RunFails
    <3>3. CASE h' = [h EXCEPT !.pc = "finish", !.status = "done"]
      BY <2>7, <3>1, <3>3
    <3>4. CASE \E p \in {"pre", "plan", "next", "broken"} : HandleGoto(p)
      BY <2>2, <2>10, <2>11, <3>1, <3>4
    <3>. QED
      BY <2>5, <2>6, <3>1, <3>2, <3>3, <3>4
  <2>13. CASE PipelineFails \/ PipelineEnds
    <3>1. h.status = "running" /\ hctx' = hctx
      BY <2>13, AtWork DEF PipelineFails, PipelineEnds, HandleAt, Working
    <3>2. \/ Fail \/ (Cancelled /\ hctx)
          \/ h' = [h EXCEPT !.pc = "finish", !.status = "done"]
          \/ HandleGoto("post")
      BY <2>13 DEF PipelineFails, PipelineEnds
    <3>3. CASE h' = [h EXCEPT !.pc = "finish", !.status = "done"]
      BY <2>7, <3>1, <3>3
    <3>4. CASE HandleGoto("post")
      BY <2>2, <2>10, <2>11, <3>1, <3>4
    <3>. QED
      BY <2>5, <2>6, <3>1, <3>2, <3>3, <3>4
  <2>14. CASE NextStep \/ Gather
    <3>1. hctx' = hctx /\ \E p \in {"broken", "run", "shards"} : HandleGoto(p)
      BY <2>14 DEF NextStep, StepBegins, Gather
    <3>. QED
      BY <2>2, <2>10, <2>11, <3>1
  <2>15. CASE ShardStep \/ RunMoves
    <3>1. h' = h /\ hctx' = hctx
      BY <2>15 DEF ShardStep, ShardStarts, ShardMoves, ShardEnds, ShardFails, ShardUnchanged,
         RunMoves
    <3>. QED
      BY <2>2, <3>1
  <2>16. CASE RunEnds
    <3>1. h.step \in 1..2
      BY <2>16, SourceType DEF RunEnds, HandleAt, IInv, BehindIsWhole
    <3>2. h' = [h EXCEPT !.pc = "next", !.step = @ + 1] /\ hctx' = hctx
      BY <2>16 DEF RunEnds
    <3>. QED
      BY <2>1, <2>2, <3>1, <3>2, NextStepNumber
  <2>. QED
    BY <2>3, <2>4, <2>8, <2>9, <2>12, <2>13, <2>14, <2>15, <2>16
       DEF Next, HandleStep, CommandStep, RunStep
<1>. QED
  BY <1>1, <1>2, AlwaysIInv, PTL DEF Spec, KeepsPromise, Promise!Spec

\* Every reachable state is well typed.
THEOREM TypeCorrect == Spec => []TypeOK
<1>1. IInv => TypeOK
  BY DEF IInv
<1>. QED
  BY <1>1, AlwaysIInv, PTL

=============================================================================
