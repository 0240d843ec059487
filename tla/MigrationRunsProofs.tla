------------------------ MODULE MigrationRunsProofs ------------------------
(***************************************************************************)
(* Proofs about MigrationRuns, for every plan, set of migration IDs and    *)
(* channel capacity: where the goroutines of a run stand, what a row may   *)
(* say, and, in the second half, that the counters and the log rows tell   *)
(* one story, that a partial retry leaves alone what succeeded, and that a *)
(* completed run reports its entries whole.                                *)
(***************************************************************************)
EXTENDS MigrationRuns, FiniteSetTheorems, SequenceTheorems, TLAPS

\* The number of items of a plan is a natural number.
LEMMA PlanItemsCount == Cardinality(PlanItems) \in Nat
<1>1. Len(Plan) \in Nat /\ MaxItems \in Nat
  BY PlanAssumption
<1>2. IsFiniteSet(Entries) /\ IsFiniteSet(1..MaxItems)
  BY <1>1, FS_Interval DEF Entries
<1>3. IsFiniteSet(Entries \X (1..MaxItems))
  BY <1>2, FS_Product
<1>4. PlanItems \in SUBSET (Entries \X (1..MaxItems))
  BY DEF PlanItems
<1>5. IsFiniteSet(PlanItems)
  BY <1>3, <1>4, FS_Subset
<1> QED
  BY <1>5, FS_CardinalityType

\* An entry's items are indices, and a selection of them can be counted.
LEMMA ItemsAreIndices ==
  ASSUME NEW e \in Entries
  PROVE  /\ Items(e) \subseteq Index
         /\ \A i \in Items(e) : PathOf(e, i) \in Path
         /\ \A S \in SUBSET Items(e) : Cardinality(S) \in Nat
<1>0. e \in 1..Len(Plan)
  BY DEF Entries
<1>a. Plan[e] \in [kind : Kinds, items : Seq(Path)]
  BY <1>0, PlanAssumption, ElementOfSeq
<1>b. Len(Plan[e].items) <= MaxItems
  BY <1>0, PlanAssumption
<1>1. Plan[e].items \in Seq(Path) /\ Len(Plan[e].items) <= MaxItems
  BY <1>a, <1>b
<1>2. Len(Plan[e].items) \in Nat /\ MaxItems \in Nat
  BY <1>1, PlanAssumption
<1>3. IsFiniteSet(Items(e))
  BY <1>2, FS_Interval DEF Items
<1>4. \A S \in SUBSET Items(e) : Cardinality(S) \in Nat
  BY <1>3, FS_Subset, FS_CardinalityType
<1> QED
  BY <1>1, <1>2, <1>4 DEF Items, Index, PathOf

\* What Append and Tail do to an element-wise property.
LEMMA AppendFacts ==
  ASSUME NEW S, NEW s \in Seq(S), NEW x \in S
  PROVE  /\ Append(s, x) \in Seq(S)
         /\ Len(Append(s, x)) = Len(s) + 1
         /\ \A k \in DOMAIN Append(s, x) :
              (k \in DOMAIN s /\ Append(s, x)[k] = s[k]) \/ Append(s, x)[k] = x
         /\ \A k \in DOMAIN s : k \in DOMAIN Append(s, x) /\ Append(s, x)[k] = s[k]
         /\ \E k \in DOMAIN Append(s, x) : Append(s, x)[k] = x
<1>1. Len(s) \in Nat /\ DOMAIN s = 1..Len(s)
  BY LenProperties
<1>2. /\ Append(s, x) \in Seq(S) /\ Len(Append(s, x)) = Len(s) + 1
      /\ \A k \in 1..Len(s) : Append(s, x)[k] = s[k]
      /\ Append(s, x)[Len(s) + 1] = x
  BY AppendProperties
<1>3. DOMAIN Append(s, x) = 1..(Len(s) + 1)
  BY <1>2, LenProperties
<1> QED
  BY <1>1, <1>2, <1>3

\* What Tail leaves of a sequence: the receive end of a progress channel.
LEMMA TailFacts ==
  ASSUME NEW S, NEW s \in Seq(S), s # <<>>
  PROVE  /\ Head(s) \in S /\ Tail(s) \in Seq(S)
         /\ Len(Tail(s)) = Len(s) - 1 /\ Len(s) \in Nat
         /\ \E k \in DOMAIN s : s[k] = Head(s)
         /\ \A k \in DOMAIN Tail(s) : k + 1 \in DOMAIN s /\ Tail(s)[k] = s[k + 1]
<1>1. Len(s) \in Nat \ {0} /\ DOMAIN s = 1..Len(s)
  BY LenProperties, EmptySeq
<1>2. /\ Head(s) \in S /\ Tail(s) \in Seq(S) /\ Len(Tail(s)) = Len(s) - 1
      /\ Head(s) = s[1] /\ \A k \in 1..Len(Tail(s)) : Tail(s)[k] = s[k + 1]
  BY <1>1, HeadTailProperties, ElementOfSeq
<1>3. DOMAIN Tail(s) = 1..(Len(s) - 1)
  BY <1>2, LenProperties
<1> QED
  BY <1>1, <1>2, <1>3

-----------------------------------------------------------------------------
(* Type correctness.                                                       *)

\* Replacing one value of a function keeps its range and its other values.
LEMMA Replace ==
  ASSUME NEW S, NEW f \in [Migrations -> S], NEW m \in Migrations, NEW v \in S
  PROVE  /\ [f EXCEPT ![m] = v] \in [Migrations -> S]
         /\ \A n \in Migrations :
              [f EXCEPT ![m] = v][n] = IF n = m THEN v ELSE f[n]
  OBVIOUS

\* progressTracker.done keeps a record a record.
LEMMA CountedType ==
  ASSUME NEW r \in Record, NEW ev \in Event
  PROVE  /\ Counted(r, ev) \in Record
         /\ Counted(r, ev).status = r.status
<1> DEFINE f == IF ev.status = "failed" THEN r.failed + 1 ELSE r.failed
           b == r.moved \/ ev.moved
<1>1. f \in Nat /\ r.processed + 1 \in Nat
  BY DEF Record
<1>2. b \in BOOLEAN
  OBVIOUS
<1>3. Counted(r, ev) = [r EXCEPT !.processed = r.processed + 1, !.failed = f, !.moved = b]
  BY DEF Counted
<1> HIDE DEF f, b
<1> QED
  BY <1>1, <1>2, <1>3 DEF Record

\* The next entry's run state.
LEMMA NextEntryType ==
  ASSUME NEW r \in RunState
  PROVE  [r EXCEPT !.pc = "entry", !.entry = @ + 1] \in RunState
<1> DEFINE n == r.entry + 1
<1>1. n \in Nat \ {0}
  BY DEF RunState
<1> HIDE DEF n
<1>2. [r EXCEPT !.pc = "entry", !.entry = n] \in RunState
  BY <1>1 DEF RunState, RunPc
<1> QED
  BY <1>2 DEF n

\* What Launch puts in job and chan.
FirstPc(e) == CASE Plan[e].kind = "fs" -> "resolve"
                [] Plan[e].kind = "os" -> "launch"
                [] Plan[e].kind = "db" -> "loop"
Launched(e, batch) == [NewJob EXCEPT !.pc = FirstPc(e), !.todo = batch]

\* Starting a Migrate* goroutine yields a well-typed job and a fresh channel.
LEMMA LaunchType ==
  ASSUME NEW e \in Entries, NEW batch \in SUBSET Index
  PROVE  /\ FirstPc(e) \in {"resolve", "launch", "loop"}
         /\ Launched(e, batch) \in JobState
         /\ Launched(e, batch).todo = batch /\ Launched(e, batch).pc = FirstPc(e)
         /\ Launched(e, batch).queued = {} /\ Launched(e, batch).busy = {}
         /\ Launched(e, batch).results = <<>>
         /\ NewChan \in Channel /\ NewChan.q = <<>> /\ ~NewChan.closed
         /\ Len(NewChan.q) <= ChanCap
<1>1. Plan[e] \in [kind : Kinds, items : Seq(Path)]
  BY PlanAssumption, ElementOfSeq DEF Entries
<1>2. FirstPc(e) \in {"resolve", "launch", "loop"}
  BY <1>1 DEF FirstPc, Kinds
<1>3. <<>> \in Seq(Event) /\ Len(NewChan.q) <= ChanCap
  BY ChanAssumption, EmptySeq DEF NewChan
<1> QED
  BY <1>2, <1>3 DEF Launched, JobState, JobPc, NewJob, NewChan, Channel

\* One more row of the log, whether or not the database takes it.
LogRow(m, p, s, w) ==
  [entry |-> run[m].entry, path |-> p, status |-> s, inserted |-> w]
LEMMA LogItemAppends ==
  ASSUME NEW m \in Migrations, NEW p, NEW s, LogItem(m, p, s)
  PROVE  \E w \in BOOLEAN : logs' = [logs EXCEPT ![m] = Append(@, LogRow(m, p, s, w))]
  BY DEF LogItem, LogRow

\* Every step of the run goroutine (Execute, retryRun and their drain loops)
\* keeps the state well typed.
LEMMA RunStepTypes ==
  ASSUME TypeOK, Coherent, NEW m \in Migrations, RunStep(m)
  PROVE  TypeOK'
<1>1. /\ run[m] \in RunState /\ run \in [Migrations -> RunState]
      /\ mem[m] \in Record /\ row[m] \in Record
  BY DEF TypeOK
<1>2. ASSUME Register(m) PROVE TypeOK'
  <2>1. [run[m] EXCEPT !.pc = "registered"] \in RunState
    BY <1>1 DEF RunState, RunPc
  <2> QED
    BY <1>2, <2>1 DEF TypeOK, Register, Goto
<1>3. ASSUME Load(m) PROVE TypeOK'
  <2>1. /\ [run[m] EXCEPT !.pc = "loaded"] \in RunState
        /\ [run[m] EXCEPT !.pc = "deregister"] \in RunState
    BY <1>1 DEF RunState, RunPc
  <2> QED
    BY <1>1, <1>3, <2>1 DEF TypeOK, Load, Goto
<1>4. ASSUME Begin(m) PROVE TypeOK'
  <2> DEFINE total == IF run[m].mode = "partial" THEN mem[m].total
                      ELSE Cardinality(PlanItems)
             r == [mem[m] EXCEPT !.status = "running", !.total = total]
  <2>1. total \in Nat
    BY <1>1, PlanItemsCount DEF Record
  <2>2. r \in Record
    BY <1>1, <2>1 DEF Record, Status
  <2>3. /\ [run[m] EXCEPT !.pc = "entry"] \in RunState
        /\ [run[m] EXCEPT !.pc = "deregister"] \in RunState
    BY <1>1 DEF RunState, RunPc
  <2> HIDE DEF r
  <2>4. /\ mem' = [mem EXCEPT ![m] = r]
        /\ row' = [row EXCEPT ![m] = r] \/ row' = row
        /\ \/ run' = [run EXCEPT ![m].pc = "entry"]
           \/ run' = [run EXCEPT ![m].pc = "deregister"]
        /\ UNCHANGED <<stored, logs, cancels, ctx, job, chan, deleting>>
    BY <1>4 DEF Begin, Write, Goto, r
  <2> QED
    BY <1>1, <2>2, <2>3, <2>4 DEF TypeOK
<1>5. ASSUME EnterEntry(m) PROVE TypeOK'
  <2> DEFINE e == run[m].entry
             batch == IF run[m].mode = "partial"
                      THEN {i \in Items(e) : Selected(m, e, i)} ELSE Items(e)
  <2>1. e \in Entries
    BY <1>5 DEF EnterEntry
  <2>2. /\ Items(e) \subseteq Index /\ batch \in SUBSET Items(e)
        /\ Cardinality(batch) \in Nat
    <3>1. batch \in SUBSET Items(e)
      OBVIOUS
    <3> QED
      BY <2>1, <3>1, ItemsAreIndices
  <2> HIDE DEF batch
  <2>3. Launched(e, batch) \in JobState /\ NewChan \in Channel /\ Len(NewChan.q) <= ChanCap
    BY <2>1, <2>2, LaunchType
  <2>4. /\ [run[m] EXCEPT !.pc = "drain"] \in RunState
        /\ [run[m] EXCEPT !.pc = "cleanup", !.left = Items(e), !.batch = {}]
             \in RunState
    BY <1>1, <2>2 DEF RunState, RunPc
  <2>5. [mem[m] EXCEPT !.total = @ + Cardinality(batch)] \in Record
    BY <1>1, <2>2 DEF Record
  <2>6. [run[m] EXCEPT !.pc = "entry", !.entry = @ + 1] \in RunState
    BY <1>1, NextEntryType
  <2>7. mem' \in [Migrations -> Record]
    <3>1. \/ mem' = mem
          \/ mem' = [mem EXCEPT ![m] = [mem[m] EXCEPT !.total = @ + Cardinality(batch)]]
      BY <1>5 DEF EnterEntry, batch
    <3> QED
      BY <2>5, <3>1 DEF TypeOK
  <2>8. run' \in [Migrations -> RunState]
    <3>1. \/ run' = [run EXCEPT ![m] = [run[m] EXCEPT !.pc = "drain"]]
          \/ run' = [run EXCEPT ![m] = [run[m] EXCEPT !.pc = "entry", !.entry = @ + 1]]
          \/ run' = [run EXCEPT ![m] = [run[m] EXCEPT !.pc = "cleanup",
                                          !.left = Items(e), !.batch = {}]]
      BY <1>1, <1>5 DEF EnterEntry, NextEntry, Goto
    <3> QED
      BY <1>1, <2>4, <2>6, <3>1
  <2>9. /\ job' \in [Migrations -> JobState] /\ chan' \in [Migrations -> Channel]
        /\ \A n \in Migrations : Len(chan'[n].q) <= ChanCap
    <3>1. \/ job' = job /\ chan' = chan
          \/ /\ job' = [job EXCEPT ![m] = Launched(e, batch)]
             /\ chan' = [chan EXCEPT ![m] = NewChan]
      BY <1>5 DEF EnterEntry, Launch, Launched, FirstPc, batch
    <3> HIDE DEF e
    <3> QED
      BY <2>3, <3>1 DEF TypeOK
  <2>10. UNCHANGED <<stored, row, logs, cancels, ctx, deleting>>
    BY <1>5 DEF EnterEntry
  <2> QED
    BY <2>7, <2>8, <2>9, <2>10 DEF TypeOK
<1>6. ASSUME LeaveLoops(m) PROVE TypeOK'
  <2>1. [run[m] EXCEPT !.pc = "finish"] \in RunState
    BY <1>1 DEF RunState, RunPc
  <2> QED
    BY <1>6, <2>1 DEF TypeOK, LeaveLoops, Goto
<1>7. ASSUME CleanupItem(m) PROVE TypeOK'
  <2> DEFINE e == run[m].entry
             counted == [mem[m] EXCEPT !.total =
                           IF run[m].mode = "partial" THEN @ + 1 ELSE @]
  <2>1. PICK i \in run[m].left :
          \/ /\ run' = [run EXCEPT ![m].left = @ \ {i}]
             /\ UNCHANGED <<mem, logs>>
          \/ /\ mem' = [mem EXCEPT ![m] = counted]
             /\ run' = [run EXCEPT ![m].left = @ \ {i}, ![m].batch = @ \cup {i}]
             /\ UNCHANGED logs
          \/ /\ mem' = [mem EXCEPT ![m] =
                  Counted(counted, Ev(PathOf(e, i), "failed", FALSE))]
             /\ LogItem(m, PathOf(e, i), "failed")
             /\ run' = [run EXCEPT ![m].pc = "cleanupSave",
                  ![m].left = @ \ {i}, ![m].hasFailure = TRUE]
    BY <1>7 DEF CleanupItem
  <2>2. e \in Entries /\ i \in Items(e)
    BY <1>7, <2>1 DEF CleanupItem, Coherent, JobCoherent, Cleaning
  <2>3. i \in Index /\ PathOf(e, i) \in Path
    BY <2>2, ItemsAreIndices
  <2>4. counted \in Record
    BY <1>1 DEF Record
  <2>5. Ev(PathOf(e, i), "failed", FALSE) \in Event
    BY <2>3 DEF Ev, Event
  <2>6. Counted(counted, Ev(PathOf(e, i), "failed", FALSE)) \in Record
    BY <2>4, <2>5, CountedType
  <2> HIDE DEF counted
  <2>7. mem' \in [Migrations -> Record]
    BY <2>1, <2>4, <2>6, ZenonT(60) DEF TypeOK
  <2>8. logs' \in [Migrations -> Seq(Log)]
    <3>1. CASE logs' = logs
      BY <3>1 DEF TypeOK
    <3>2. CASE LogItem(m, PathOf(e, i), "failed")
      <4>1. PICK w \in BOOLEAN :
              logs' = [logs EXCEPT ![m] = Append(@, LogRow(m, PathOf(e, i), "failed", w))]
        BY <3>2, LogItemAppends
      <4>2. LogRow(m, PathOf(e, i), "failed", w) \in Log
        BY <2>2, <2>3 DEF Log, LogRow
      <4>3. Append(logs[m], LogRow(m, PathOf(e, i), "failed", w)) \in Seq(Log)
        BY <4>2, AppendFacts DEF TypeOK
      <4> QED
        BY <4>1, <4>3, ZenonT(60) DEF TypeOK
    <3> QED
      BY <2>1, <3>1, <3>2
  <2>9. run' \in [Migrations -> RunState]
    <3>1. /\ [run[m] EXCEPT !.left = @ \ {i}] \in RunState
          /\ [run[m] EXCEPT !.left = @ \ {i}, !.batch = @ \cup {i}] \in RunState
          /\ [run[m] EXCEPT !.pc = "cleanupSave", !.left = @ \ {i},
                            !.hasFailure = TRUE] \in RunState
      BY <1>1, <2>3 DEF RunState, RunPc
    <3> QED
      BY <1>1, <2>1, <3>1
  <2> QED
    BY <1>7, <2>7, <2>8, <2>9 DEF TypeOK, CleanupItem
<1>8. ASSUME CleanupSave(m) \/ DrainSave(m) PROVE TypeOK'
  <2>1. /\ [run[m] EXCEPT !.pc = "cleanup"] \in RunState
        /\ [run[m] EXCEPT !.pc = "drain"] \in RunState
    BY <1>1 DEF RunState, RunPc
  <2>2. row' \in [Migrations -> Record]
    BY <1>1, <1>8 DEF CleanupSave, DrainSave, Save, Write, TypeOK
  <2> QED
    BY <1>8, <2>1, <2>2 DEF TypeOK, CleanupSave, DrainSave, Goto
<1>9. ASSUME CleanupEnd(m) PROVE TypeOK'
  <2> DEFINE e == run[m].entry
             batch == run[m].batch
  <2>1. e \in Entries /\ batch \in SUBSET Index
    BY <1>1, <1>9 DEF CleanupEnd, Coherent, JobCoherent, Cleaning, RunState
  <2>2. Launched(e, batch) \in JobState /\ NewChan \in Channel /\ Len(NewChan.q) <= ChanCap
    BY <2>1, LaunchType
  <2>3. /\ [run[m] EXCEPT !.pc = "drain"] \in RunState
        /\ [run[m] EXCEPT !.pc = "entry", !.entry = @ + 1] \in RunState
    BY <1>1, NextEntryType DEF RunState, RunPc
  <2>4. /\ \/ job' = job /\ chan' = chan
           \/ /\ job' = [job EXCEPT ![m] = Launched(e, batch)]
              /\ chan' = [chan EXCEPT ![m] = NewChan]
        /\ \/ run' = [run EXCEPT ![m].pc = "drain"]
           \/ run' = [run EXCEPT ![m].pc = "entry", ![m].entry = @ + 1]
        /\ UNCHANGED <<stored, row, logs, cancels, ctx, mem, deleting>>
    BY <1>9 DEF CleanupEnd, NextEntry, Launch, Launched, FirstPc, Goto
  <2>5. run' \in [Migrations -> RunState]
    BY <1>1, <2>3, <2>4
  <2>6. /\ job' \in [Migrations -> JobState] /\ chan' \in [Migrations -> Channel]
        /\ \A n \in Migrations : Len(chan'[n].q) <= ChanCap
    BY <2>2, <2>4, ZenonT(60) DEF TypeOK
  <2> QED
    BY <2>4, <2>5, <2>6 DEF TypeOK
<1>10. ASSUME DrainEvent(m) PROVE TypeOK'
  <2> DEFINE ev == Head(chan[m].q)
             failure == FailureSeen(m, ev)
  <2>1. run[m].entry \in Entries
    BY <1>10 DEF DrainEvent, Coherent, JobCoherent, Draining
  <2>2. /\ chan[m].q \in Seq(Event) /\ chan[m].q # <<>>
        /\ Len(chan[m].q) <= ChanCap /\ chan[m] \in Channel
    BY <1>10 DEF DrainEvent, Channel, TypeOK
  <2>3. /\ ev \in Event /\ Tail(chan[m].q) \in Seq(Event)
        /\ Len(Tail(chan[m].q)) <= ChanCap
    BY <2>2, TailFacts, ChanAssumption
  <2>4. logs' \in [Migrations -> Seq(Log)]
    <3>1. PICK w \in BOOLEAN :
            logs' = [logs EXCEPT ![m] = Append(@, LogRow(m, ev.path, ev.status, w))]
      BY <1>10, LogItemAppends DEF DrainEvent
    <3>2. LogRow(m, ev.path, ev.status, w) \in Log
      BY <2>1, <2>3 DEF Event, Log, LogRow
    <3>3. Append(logs[m], LogRow(m, ev.path, ev.status, w)) \in Seq(Log)
      BY <3>2, AppendFacts DEF TypeOK
    <3> QED
      BY <3>1, <3>3 DEF TypeOK
  <2>5. mem' \in [Migrations -> Record]
    <3>1. Counted(mem[m], ev) \in Record
      BY <1>1, <2>3, CountedType
    <3> QED
      BY <1>10, <3>1 DEF TypeOK, DrainEvent
  <2>6. /\ chan' \in [Migrations -> Channel]
        /\ \A n \in Migrations : Len(chan'[n].q) <= ChanCap
    <3>1. [chan[m] EXCEPT !.q = Tail(@)] \in Channel
      BY <2>2, <2>3 DEF Channel
    <3> QED
      BY <1>10, <2>2, <2>3, <3>1 DEF TypeOK, DrainEvent, Channel
  <2>7. run' \in [Migrations -> RunState]
    <3>1. failure \in BOOLEAN
      BY DEF FailureSeen
    <3> HIDE DEF failure
    <3>2. [run[m] EXCEPT !.pc = "drainSave", !.hasFailure = failure] \in RunState
      BY <1>1, <3>1 DEF RunState, RunPc
    <3>3. run' = [run EXCEPT ![m] =
                    [run[m] EXCEPT !.pc = "drainSave", !.hasFailure = failure]]
      BY <1>1, <1>10 DEF DrainEvent, failure
    <3> QED
      BY <1>1, <3>2, <3>3, Replace
  <2> QED
    BY <1>10, <2>4, <2>5, <2>6, <2>7 DEF TypeOK, DrainEvent
<1>11. ASSUME DrainEnd(m) PROVE TypeOK'
  <2>1. [run[m] EXCEPT !.pc = "entry", !.entry = @ + 1] \in RunState
    BY <1>1, NextEntryType
  <2> QED
    BY <1>1, <1>11, <2>1 DEF TypeOK, DrainEnd, NextEntry
<1>12. ASSUME Finish(m) PROVE TypeOK'
  <2> DEFINE b == Verdict(m) = "completed" /\ SaysIdentical(m)
             r == [mem[m] EXCEPT !.status = Verdict(m), !.note = b]
  <2>1. Verdict(m) \in Status /\ b \in BOOLEAN
    BY DEF Verdict, Status, Final
  <2> HIDE DEF b
  <2>2. r \in Record
    BY <1>1, <2>1 DEF Record
  <2>3. /\ mem' = [mem EXCEPT ![m] = r]
        /\ row' = [row EXCEPT ![m] = r] \/ row' = row
        /\ run' = [run EXCEPT ![m].pc = "deregister"]
        /\ UNCHANGED <<stored, logs, cancels, ctx, job, chan, deleting>>
    BY <1>12 DEF Finish, Save, Write, Goto, b
  <2>4. [run[m] EXCEPT !.pc = "deregister"] \in RunState
    BY <1>1 DEF RunState, RunPc
  <2> HIDE DEF r
  <2> QED
    BY <1>1, <2>2, <2>3, <2>4 DEF TypeOK
<1>13. ASSUME Deregister(m) PROVE TypeOK'
  <2>1. [run[m] EXCEPT !.pc = "ended"] \in RunState
    BY <1>1 DEF RunState, RunPc
  <2> QED
    BY <1>1, <1>13, <2>1 DEF TypeOK, Deregister, Goto
<1> QED
  BY <1>2, <1>3, <1>4, <1>5, <1>6, <1>7, <1>8, <1>9, <1>10, <1>11, <1>12, <1>13
  DEF RunStep

\* A step of a Migrate* goroutine replaces its job and its channel.
LEMMA JobMove ==
  ASSUME TypeOK, NEW m \in Migrations, JobUnchanged,
         NEW j \in JobState, job' = [job EXCEPT ![m] = j],
         NEW c \in Channel, Len(c.q) <= ChanCap, chan' = [chan EXCEPT ![m] = c]
  PROVE  TypeOK'
<1>1. /\ job' \in [Migrations -> JobState] /\ chan' \in [Migrations -> Channel]
      /\ \A n \in Migrations : Len(chan'[n].q) <= ChanCap
  BY DEF TypeOK
<1> QED
  BY <1>1 DEF TypeOK, JobUnchanged

\* What sending and closing leave in the channel.
LEMMA ChannelTypes ==
  ASSUME TypeOK, NEW m \in Migrations, NEW ev \in Event
  PROVE  /\ chan[m] \in Channel /\ Len(chan[m].q) <= ChanCap
         /\ chan = [chan EXCEPT ![m] = chan[m]]
         /\ [chan[m] EXCEPT !.closed = TRUE] \in Channel
         /\ Room(m) =>
              /\ [chan[m] EXCEPT !.q = Append(@, ev)] \in Channel
              /\ [q |-> Append(chan[m].q, ev), closed |-> TRUE] \in Channel
              /\ Len(Append(chan[m].q, ev)) <= ChanCap
<1>1. chan[m] \in Channel /\ chan[m].q \in Seq(Event) /\ Len(chan[m].q) <= ChanCap
  BY DEF TypeOK, Channel
<1>2. Append(chan[m].q, ev) \in Seq(Event) /\ Len(Append(chan[m].q, ev)) = Len(chan[m].q) + 1
  BY <1>1, AppendFacts
<1>3. Len(chan[m].q) \in Nat
  BY <1>1, LenProperties
<1>4. /\ [chan[m] EXCEPT !.closed = TRUE] \in Channel
      /\ [chan[m] EXCEPT !.q = Append(@, ev)] \in Channel
      /\ [q |-> Append(chan[m].q, ev), closed |-> TRUE] \in Channel
  BY <1>1, <1>2 DEF Channel
<1>5. chan = [chan EXCEPT ![m] = chan[m]]
  BY DEF TypeOK
<1>6. Room(m) => Len(Append(chan[m].q, ev)) <= ChanCap
  BY <1>2, <1>3, ChanAssumption DEF Room
<1> QED
  BY <1>1, <1>4, <1>5, <1>6

\* Where a live Migrate* goroutine is, its items have paths.
LEMMA LivePaths ==
  ASSUME TypeOK, Coherent, NEW m \in Migrations, job[m].pc \notin JobOver,
         NEW i \in job[m].todo \cup job[m].queued \cup job[m].busy
  PROVE  /\ i \in Index
         /\ ItemPath(m, i) \in Path
         /\ \A s \in {"success", "failed", "cancelled"}, b \in BOOLEAN :
              Ev(ItemPath(m, i), s, b) \in Event
<1>1. run[m].entry \in Entries /\ i \in Items(run[m].entry)
  BY DEF Coherent, JobCoherent, Draining, Cleaning
<1>2. i \in Index /\ ItemPath(m, i) \in Path
  BY <1>1, ItemsAreIndices DEF ItemPath
<1>3. \A s \in {"success", "failed", "cancelled"}, b \in BOOLEAN :
        Ev(ItemPath(m, i), s, b) \in Event
  BY <1>2 DEF Ev, Event
<1> QED
  BY <1>2, <1>3

\* Every step of a Migrate* goroutine keeps the state well typed; a send waits
\* for room in the channel.
LEMMA JobStepTypes ==
  ASSUME TypeOK, Coherent, NEW m \in Migrations, JobStep(m) \/ TransferEnds(m)
  PROVE  TypeOK'
<1>1. job[m] \in JobState /\ job \in [Migrations -> JobState]
  BY DEF TypeOK
<1>2. /\ chan[m] \in Channel /\ Len(chan[m].q) <= ChanCap
      /\ chan = [chan EXCEPT ![m] = chan[m]]
      /\ [chan[m] EXCEPT !.closed = TRUE] \in Channel
      /\ [chan[m] EXCEPT !.closed = TRUE].q = chan[m].q
  BY DEF TypeOK, Channel
<1>3. \A l \in JobPc : [job[m] EXCEPT !.pc = l] \in JobState
  BY <1>1 DEF JobState
<1>4. ASSUME NEW l \in JobPc, job' = [job EXCEPT ![m].pc = l], JobUnchanged,
             chan' = chan \/ Close(m)
      PROVE  TypeOK'
  <2>1. job' = [job EXCEPT ![m] = [job[m] EXCEPT !.pc = l]]
    BY <1>4
  <2>2. \/ chan' = [chan EXCEPT ![m] = chan[m]]
        \/ chan' = [chan EXCEPT ![m] = [chan[m] EXCEPT !.closed = TRUE]]
    BY <1>2, <1>4 DEF Close
  <2> QED
    BY <1>2, <1>3, <1>4, <2>1, <2>2, JobMove
<1>5. ASSUME ResolveSource(m) \/ CheckAfterFailure(m) \/ ItemsDone(m)
             \/ AllLaunched(m) \/ BucketsDone(m)
      PROVE  TypeOK'
  <2>1. \E l \in JobPc : job' = [job EXCEPT ![m].pc = l]
    BY <1>5 DEF ResolveSource, CheckAfterFailure, ItemsDone, AllLaunched, BucketsDone, JobPc
  <2>2. JobUnchanged /\ (chan' = chan \/ Close(m))
    BY <1>5 DEF ResolveSource, CheckAfterFailure, ItemsDone, AllLaunched, BucketsDone
  <2> QED
    BY <1>4, <2>1, <2>2
<1>6. ASSUME NextItem(m) \/ Abandon(m) PROVE TypeOK'
  <2>1. CASE chan' = chan
    <3>1. /\ JobUnchanged
          /\ \E l \in JobPc : job' = [job EXCEPT ![m].pc = l]
      BY <1>6 DEF NextItem, Abandon, JobPc
    <3> QED
      BY <1>4, <2>1, <3>1
  <2>2. CASE chan' # chan
    <3>1. /\ job[m].pc \notin JobOver /\ Room(m) /\ JobUnchanged
          /\ job' = [job EXCEPT ![m].pc = "closed"]
          /\ \E i \in job[m].todo : SendClose(m, CancelledEvent(m, i))
      BY <1>6, <2>2 DEF NextItem, Abandon, JobOver
    <3>2. PICK ev \in Event : SendClose(m, ev)
      BY <3>1, LivePaths DEF CancelledEvent
    <3> DEFINE c == [q |-> Append(chan[m].q, ev), closed |-> TRUE]
    <3>3. c \in Channel /\ Len(c.q) <= ChanCap
      BY <3>1, ChannelTypes
    <3>4. chan' = [chan EXCEPT ![m] = c]
      BY <1>2, <3>2 DEF SendClose
    <3>5. [job[m] EXCEPT !.pc = "closed"] \in JobState
      BY <1>3 DEF JobPc
    <3> HIDE DEF c
    <3> QED
      BY <1>1, <3>1, <3>3, <3>4, <3>5, JobMove
  <2> QED
    BY <2>1, <2>2
<1>7. ASSUME ItemEnds(m) PROVE TypeOK'
  <2>1. PICK i \in job[m].todo, ok \in BOOLEAN, moved \in BOOLEAN :
          /\ Send(m, Ev(ItemPath(m, i), IF ok THEN "success" ELSE "failed", moved))
          /\ job' = [job EXCEPT ![m].todo = @ \ {i},
                ![m].pc = IF Kind(m) = "db" /\ ~ok THEN "check" ELSE "loop"]
    BY <1>7, AmountAssumption DEF ItemEnds
  <2>2. job[m].pc \notin JobOver /\ Room(m) /\ JobUnchanged
    BY <1>7 DEF ItemEnds, JobOver
  <2> DEFINE ev == Ev(ItemPath(m, i), IF ok THEN "success" ELSE "failed", moved)
             c == [chan[m] EXCEPT !.q = Append(@, ev)]
             j == [job[m] EXCEPT !.todo = @ \ {i},
                     !.pc = IF Kind(m) = "db" /\ ~ok THEN "check" ELSE "loop"]
  <2>3. ev \in Event
    BY <2>2, LivePaths
  <2> HIDE DEF ev
  <2>4. c \in Channel /\ Len(c.q) <= ChanCap
    BY <1>2, <2>2, <2>3, ChannelTypes DEF Channel
  <2>5. j \in JobState
    BY <1>1 DEF JobState, JobPc
  <2>6. job' = [job EXCEPT ![m] = j] /\ chan' = [chan EXCEPT ![m] = c]
    BY <2>1 DEF Send, ev
  <2> HIDE DEF c, j
  <2> QED
    BY <2>2, <2>4, <2>5, <2>6, JobMove
<1>8. ASSUME LaunchBucket(m) PROVE TypeOK'
  <2>1. PICK i \in job[m].todo :
          \/ job' = [job EXCEPT ![m].pc = "abandon"]
          \/ job' = [job EXCEPT ![m] = [job[m] EXCEPT !.todo = @ \ {i},
                                                      !.queued = @ \cup {i}]]
    BY <1>1, <1>8 DEF LaunchBucket
  <2>2. JobUnchanged /\ chan' = chan
    BY <1>8 DEF LaunchBucket
  <2>3. [job[m] EXCEPT !.todo = @ \ {i}, !.queued = @ \cup {i}] \in JobState
    BY <1>1 DEF JobState
  <2>4. CASE job' = [job EXCEPT ![m].pc = "abandon"]
    BY <1>4, <2>2, <2>4 DEF JobPc
  <2> QED
    BY <1>2, <2>1, <2>2, <2>3, <2>4, JobMove
<1>9. ASSUME NEW b \in job[m].queued, BucketStarts(m, b) PROVE TypeOK'
  <2>1. [job[m] EXCEPT !.queued = @ \ {b}, !.busy = @ \cup {b}] \in JobState
    BY <1>1 DEF JobState
  <2> QED
    BY <1>1, <1>2, <1>9, <2>1, JobMove DEF BucketStarts
<1>10. ASSUME NEW b \in job[m].busy, BucketEnds(m, b) PROVE TypeOK'
  <2>1. PICK ok \in BOOLEAN, moved \in BOOLEAN :
          job' = [job EXCEPT ![m].busy = @ \ {b}, ![m].results = Append(@,
                    Ev(ItemPath(m, b), IF ok THEN "success" ELSE "failed", moved))]
    BY <1>10, AmountAssumption DEF BucketEnds
  <2> DEFINE ev == Ev(ItemPath(m, b), IF ok THEN "success" ELSE "failed", moved)
             j == [job[m] EXCEPT !.busy = @ \ {b}, !.results = Append(@, ev)]
  <2>2. job[m].pc \notin JobOver
    BY <1>10 DEF Coherent, JobCoherent, Idle, Fanning, JobOver
  <2>3. ev \in Event
    BY <2>2, LivePaths
  <2> HIDE DEF ev
  <2>4. j \in JobState
    <3>1. Append(job[m].results, ev) \in Seq(Event)
      BY <1>1, <2>3, AppendFacts DEF JobState
    <3> QED
      BY <1>1, <3>1 DEF JobState
  <2>5. job' = [job EXCEPT ![m] = j] /\ chan' = chan /\ JobUnchanged
    BY <1>1, <1>10, <2>1 DEF BucketEnds, ev
  <2> HIDE DEF j
  <2> QED
    BY <1>2, <2>4, <2>5, JobMove
<1>11. ASSUME ReportBucket(m) PROVE TypeOK'
  <2>1. job[m].results \in Seq(Event) /\ job[m].results # <<>> /\ Room(m) /\ JobUnchanged
    BY <1>1, <1>11 DEF ReportBucket, JobState
  <2>2. Head(job[m].results) \in Event /\ Tail(job[m].results) \in Seq(Event)
    BY <2>1, TailFacts
  <2> DEFINE c == [chan[m] EXCEPT !.q = Append(@, Head(job[m].results))]
             j == [job[m] EXCEPT !.results = Tail(@)]
  <2>3. c \in Channel /\ Len(c.q) <= ChanCap
    BY <1>2, <2>1, <2>2, ChannelTypes DEF Channel
  <2>4. j \in JobState
    BY <1>1, <2>2 DEF JobState
  <2>5. job' = [job EXCEPT ![m] = j] /\ chan' = [chan EXCEPT ![m] = c]
    BY <1>11 DEF ReportBucket, Send
  <2> HIDE DEF c, j
  <2> QED
    BY <2>1, <2>3, <2>4, <2>5, JobMove
<1> QED
  BY <1>5, <1>6, <1>7, <1>8, <1>9, <1>10, <1>11 DEF JobStep, TransferEnds

\* Every HTTP handler's step keeps the state well typed.
LEMMA RequestTypes ==
  ASSUME TypeOK, NEW m \in Migrations, Request(m)
  PROVE  TypeOK'
<1>1. run[m] \in RunState /\ run \in [Migrations -> RunState]
  BY DEF TypeOK
<1>2. NewRecord \in Record
  BY DEF NewRecord, Record, Status
<1>3. ASSUME CreateMigration(m) PROVE TypeOK'
  <2>1. [run[m] EXCEPT !.pc = "launched"] \in RunState
    BY <1>1 DEF RunState, RunPc
  <2> QED
    BY <1>1, <1>2, <1>3, <2>1 DEF TypeOK, CreateMigration, Goto
<1>4. ASSUME NEW o \in Migrations, NEW mode \in {"partial", "full"}, Retry(o, m, mode)
      PROVE  TypeOK'
  <2> DEFINE sel == IF mode = "partial" THEN FailedItems(o) ELSE {}
             r == [NewRun EXCEPT !.pc = "launched", !.mode = mode,
                                 !.origin = {o}, !.sel = sel]
  <2>1. sel \in SUBSET (Entries \X Path)
    <3>1. logs[o] \in Seq(Log)
      BY DEF TypeOK
    <3>2. \A k \in DOMAIN logs[o] : logs[o][k] \in Log
      BY <3>1, LenProperties, ElementOfSeq
    <3> QED
      BY <3>2 DEF FailedItems, Rows, Log
  <2>2. r \in RunState
    <3> HIDE DEF sel
    <3>1. NewRun \in RunState
      BY DEF NewRun, RunState, RunPc, Mode
    <3>2. "launched" \in RunPc /\ mode \in Mode
      BY DEF RunPc, Mode
    <3> QED
      BY <2>1, <3>1, <3>2 DEF RunState
  <2>3. run' = [run EXCEPT ![m] = r]
    BY <1>4 DEF Retry
  <2> HIDE DEF r
  <2> QED
    BY <1>1, <1>2, <1>4, <2>2, <2>3 DEF TypeOK, Retry
<1>5. ASSUME Cancel(m) \/ DeleteCheck(m) \/ DeleteRow(m) PROVE TypeOK'
  BY <1>5 DEF TypeOK, Cancel, DeleteCheck, DeleteRow
<1> QED
  BY <1>3, <1>4, <1>5 DEF Request

-----------------------------------------------------------------------------
(* Coherence.                                                              *)

CoherentAt(m) == JobCoherent(m) /\ RowCoherent(m) /\ VerdictCoherent(m)

\* What coherence at n speaks about is left alone.
Same(n) ==
  /\ row'[n] = row[n] /\ logs'[n] = logs[n] /\ ctx'[n] = ctx[n]
  /\ run'[n] = run[n] /\ mem'[n] = mem[n]
  /\ job'[n] = job[n] /\ chan'[n] = chan[n]
  /\ n \in stored' <=> n \in stored
  /\ n \in cancels' <=> n \in cancels

\* A step of one migration leaves every other migration alone.
LEMMA OnlyItsOwn ==
  ASSUME TypeOK, NEW m \in Migrations, NEW n \in Migrations, n # m,
         RunStep(m) \/ JobStep(m) \/ TransferEnds(m) \/ Request(m)
  PROVE  Same(n)
<1>1. ASSUME RunStep(m) PROVE Same(n)
  BY <1>1, ZenonT(60) DEF RunStep, TypeOK, Same, LogItem, Register, Load, Begin, EnterEntry, LeaveLoops,
    CleanupItem, CleanupSave, CleanupEnd, DrainEvent, DrainSave, DrainEnd, Finish,
    Deregister, Goto, NextEntry, Save, Write, Launch
<1>2. ASSUME JobStep(m) PROVE Same(n)
  BY <1>2 DEF JobStep, TypeOK, Same, ResolveSource, NextItem, CheckAfterFailure,
    ItemsDone, LaunchBucket, AllLaunched, BucketStarts, Abandon, ReportBucket,
    BucketsDone, JobUnchanged, Send, Close, SendClose
<1>3. ASSUME TransferEnds(m) PROVE Same(n)
  BY <1>3 DEF TransferEnds, TypeOK, Same, ItemEnds, BucketEnds, JobUnchanged, Send
<1>4. ASSUME Request(m) PROVE Same(n)
  BY <1>4 DEF Request, TypeOK, Same, CreateMigration, Cancel, DeleteCheck, DeleteRow,
    Retry, Goto
<1> QED
  BY <1>1, <1>2, <1>3, <1>4

\* A migration whose state a step leaves alone stays coherent.
LEMMA SameStaysCoherent ==
  ASSUME NEW n \in Migrations, Same(n), CoherentAt(n)
  PROVE  CoherentAt(n)'
  BY DEF Same, CoherentAt, JobCoherent, RowCoherent, VerdictCoherent, Idle

\* The HTTP handlers preserve the coherence of the migration they are about: in
\* particular Cancel only ever sets the context of a registered run.
LEMMA RequestCoherent ==
  ASSUME TypeOK, NEW m \in Migrations, CoherentAt(m), Request(m)
  PROVE  CoherentAt(m)'
<1> USE DEF CoherentAt
<1>1. ASSUME CreateMigration(m) PROVE CoherentAt(m)'
  <2>1. /\ run[m].pc = "none" /\ run'[m] = [run[m] EXCEPT !.pc = "launched"]
        /\ run'[m].pc = "launched" /\ run'[m].hasFailure = run[m].hasFailure
        /\ row'[m].status = "pending" /\ m \in stored'
        /\ UNCHANGED <<logs, cancels, ctx, mem, job, chan, deleting>>
    BY <1>1 DEF CreateMigration, TypeOK, RunState, Goto, NewRecord
  <2> QED
    BY <2>1 DEF JobCoherent, RowCoherent, VerdictCoherent, Idle, Starting, Cleaning,
      Draining, Active, Over, Final
<1>2. ASSUME NEW o \in Migrations, NEW mode \in {"partial", "full"}, Retry(o, m, mode)
      PROVE  CoherentAt(m)'
  <2>1. /\ run[m].pc = "none"
        /\ run'[m].pc = "launched" /\ run'[m].hasFailure = FALSE
        /\ row'[m].status = "pending" /\ m \in stored'
        /\ UNCHANGED <<logs, cancels, ctx, mem, job, chan, deleting>>
    BY <1>2 DEF Retry, TypeOK, NewRecord, NewRun
  <2> QED
    BY <2>1 DEF JobCoherent, RowCoherent, VerdictCoherent, Idle, Starting, Cleaning,
      Draining, Active, Over, Final
<1>3. ASSUME Cancel(m) PROVE CoherentAt(m)'
  BY <1>3 DEF Cancel, TypeOK, JobCoherent, RowCoherent, VerdictCoherent, Idle
<1>4. ASSUME DeleteCheck(m) \/ DeleteRow(m) PROVE CoherentAt(m)'
  BY <1>4 DEF DeleteCheck, DeleteRow, TypeOK, JobCoherent, RowCoherent, VerdictCoherent, Idle
<1> QED
  BY <1>1, <1>2, <1>3, <1>4 DEF Request

NoneCancelled(q) == \A k \in DOMAIN q : q[k].status # "cancelled"

\* What coherence at m asks of a job and a channel, the rest being as it is.
Fits(m, j, c) ==
  /\ ~ctx[m] /\ run[m].pc # "ended" => NoneCancelled(c.q)
  /\ NoneCancelled(j.results)
  /\ j.pc \notin Fanning => j.queued = {} /\ j.busy = {}
  /\ j.pc = "abandon" => ctx[m]
  /\ j.pc \notin JobOver =>
       /\ run[m].pc \in Draining
       /\ ~c.closed
       /\ j.todo \subseteq Items(run[m].entry)
       /\ j.queued \subseteq Items(run[m].entry)
       /\ j.busy \subseteq Items(run[m].entry)
  /\ run[m].pc \notin Draining => c.q = <<>>

\* A coherent migration's job and channel fit the position of its run goroutine.
LEMMA CoherentMeansFits ==
  ASSUME NEW m \in Migrations, CoherentAt(m)
  PROVE  /\ Fits(m, job[m], chan[m])
         /\ JobUnchanged /\ Fits(m, job'[m], chan'[m]) => CoherentAt(m)'
<1>1. Fits(m, job[m], chan[m])
  BY DEF CoherentAt, JobCoherent, VerdictCoherent, Fits, NoneCancelled, Idle
<1>2. ASSUME JobUnchanged, Fits(m, job'[m], chan'[m])
      PROVE  CoherentAt(m)'
  <2>1. RowCoherent(m)'
    BY <1>2 DEF CoherentAt, JobUnchanged, RowCoherent
  <2>2. VerdictCoherent(m)'
    BY <1>2 DEF CoherentAt, JobUnchanged, VerdictCoherent, Fits, NoneCancelled
  <2>3. JobCoherent(m)'
    BY <1>2 DEF CoherentAt, JobUnchanged, JobCoherent, Fits, Idle
  <2> QED
    BY <2>1, <2>2, <2>3 DEF CoherentAt
<1> QED
  BY <1>1, <1>2

\* The Migrate* goroutines preserve coherence: they close the channel as their
\* last act, and MigrateObjectStorage waits for its buckets before it returns.
LEMMA JobStepCoherent ==
  ASSUME TypeOK, NEW m \in Migrations, CoherentAt(m), JobStep(m) \/ TransferEnds(m)
  PROVE  CoherentAt(m)'
<1>1. job[m] \in JobState /\ job \in [Migrations -> JobState]
  BY DEF TypeOK
<1>2. /\ chan[m] \in Channel /\ chan \in [Migrations -> Channel]
      /\ chan[m].q \in Seq(Event) /\ job[m].results \in Seq(Event)
  BY DEF TypeOK, Channel, JobState
<1>3. JobUnchanged
  BY DEF JobStep, TransferEnds, ResolveSource, NextItem, CheckAfterFailure, ItemsDone,
    LaunchBucket, AllLaunched, BucketStarts, Abandon, ReportBucket, BucketsDone,
    ItemEnds, BucketEnds
<1>4. /\ Fits(m, job[m], chan[m])
      /\ Fits(m, job'[m], chan'[m]) => CoherentAt(m)'
  BY <1>3, CoherentMeansFits
<1>5. ASSUME NEW ev \in Event, ev.status # "cancelled" \/ ctx[m]
      PROVE  ~ctx[m] /\ run[m].pc # "ended" => NoneCancelled(Append(chan[m].q, ev))
  BY <1>2, <1>4, <1>5, AppendFacts DEF Fits, NoneCancelled
<1> USE DEF Fanning, JobOver, Fits
<1>6. ASSUME ResolveSource(m) \/ CheckAfterFailure(m) \/ ItemsDone(m)
             \/ AllLaunched(m) \/ BucketsDone(m)
      PROVE  CoherentAt(m)'
  <2>1. \E l \in {"loop", "closed", "gather"} :
          /\ job' = [job EXCEPT ![m].pc = l]
          /\ l # "closed" => chan' = chan
          /\ l = "gather" => job[m].pc = "launch"
          /\ l = "loop" => job[m].pc \in {"resolve", "check"}
          /\ l = "closed" => job[m].queued = {} /\ job[m].busy = {}
    BY <1>4, <1>6 DEF ResolveSource, CheckAfterFailure, ItemsDone, AllLaunched,
      BucketsDone, Idle
  <2>2. chan' = chan \/ chan' = [chan EXCEPT ![m].closed = TRUE]
    BY <1>6 DEF ResolveSource, CheckAfterFailure, ItemsDone, AllLaunched, BucketsDone, Close
  <2>3. /\ job'[m].results = job[m].results /\ job'[m].todo = job[m].todo
        /\ job'[m].queued = job[m].queued /\ job'[m].busy = job[m].busy
        /\ chan'[m].q = chan[m].q
    BY <1>1, <1>2, <2>1, <2>2 DEF JobState, Channel
  <2>4. /\ job'[m].pc \in {"loop", "closed", "gather"}
        /\ job'[m].pc # "closed" => chan' = chan
        /\ job'[m].pc = "gather" => job[m].pc = "launch"
        /\ job'[m].pc = "loop" => job[m].pc \in {"resolve", "check"}
        /\ job'[m].pc = "closed" => job[m].queued = {} /\ job[m].busy = {}
    BY <1>1, <2>1 DEF JobState
  <2> QED
    BY <1>4, <2>3, <2>4
<1>7. ASSUME LaunchBucket(m) PROVE CoherentAt(m)'
  <2>1. PICK i \in job[m].todo :
          IF ctx[m] THEN job' = [job EXCEPT ![m].pc = "abandon"]
          ELSE job' = [job EXCEPT ![m].todo = @ \ {i}, ![m].queued = @ \cup {i}]
    BY <1>7 DEF LaunchBucket
  <2>2. job[m].pc = "launch" /\ chan' = chan
    BY <1>7 DEF LaunchBucket
  <2>3. /\ job'[m].results = job[m].results /\ job'[m].busy = job[m].busy
        /\ job'[m].pc = "launch" \/ (job'[m].pc = "abandon" /\ ctx[m])
        /\ job'[m].todo \subseteq job[m].todo
        /\ job'[m].queued \subseteq job[m].queued \cup job[m].todo
    BY <1>1, <2>1, <2>2 DEF JobState
  <2> QED
    BY <1>4, <2>2, <2>3
<1>8. ASSUME NextItem(m) \/ Abandon(m) PROVE CoherentAt(m)'
  <2>1. CASE NextItem(m) /\ ~ctx[m]
    <3>1. job[m].pc = "loop" /\ job' = [job EXCEPT ![m].pc = "item"] /\ chan' = chan
      BY <2>1 DEF NextItem
    <3>2. /\ job'[m].pc = "item" /\ job'[m].results = job[m].results
          /\ job'[m].todo = job[m].todo
          /\ job'[m].queued = job[m].queued /\ job'[m].busy = job[m].busy
      BY <1>1, <3>1 DEF JobState
    <3> QED
      BY <1>4, <3>1, <3>2
  <2>2. CASE Abandon(m) \/ ctx[m]
    <3>1. /\ ctx[m] /\ job[m].pc \in {"loop", "abandon"}
          /\ job' = [job EXCEPT ![m].pc = "closed"] /\ Idle(m)
      BY <1>4, <1>8, <2>2 DEF NextItem, Abandon, Idle
    <3>2. /\ job'[m].pc = "closed" /\ job'[m].results = job[m].results
          /\ job'[m].queued = {} /\ job'[m].busy = {}
      BY <1>1, <3>1 DEF JobState, Idle
    <3> QED
      BY <1>4, <3>1, <3>2
  <2> QED
    BY <1>8, <2>1, <2>2
<1>9. ASSUME ItemEnds(m) PROVE CoherentAt(m)'
  <2>1. PICK i \in job[m].todo, ok \in BOOLEAN, moved \in BOOLEAN :
          /\ Send(m, Ev(ItemPath(m, i), IF ok THEN "success" ELSE "failed", moved))
          /\ job' = [job EXCEPT ![m].todo = @ \ {i},
                ![m].pc = IF Kind(m) = "db" /\ ~ok THEN "check" ELSE "loop"]
    BY <1>9, AmountAssumption DEF ItemEnds
  <2>2. job[m].pc = "item"
    BY <1>9 DEF ItemEnds
  <2> DEFINE ev == Ev(ItemPath(m, i), IF ok THEN "success" ELSE "failed", moved)
  <2>3. ev \in Event /\ ev.status # "cancelled"
    <3>1. run[m].entry \in Entries /\ i \in Items(run[m].entry)
      BY <2>2, <1>4 DEF CoherentAt, JobCoherent
    <3> QED
      BY <3>1, ItemsAreIndices DEF ItemPath, Ev, Event
  <2>4. /\ chan'[m].q = Append(chan[m].q, ev) /\ chan'[m].closed = chan[m].closed
        /\ job'[m].pc \in {"check", "loop"} /\ job'[m].todo \subseteq job[m].todo
        /\ job'[m].queued = job[m].queued /\ job'[m].busy = job[m].busy
        /\ job'[m].results = job[m].results
    BY <1>1, <1>2, <2>1 DEF Send, Channel, JobState
  <2> HIDE DEF ev
  <2>5. ~ctx[m] /\ run[m].pc # "ended" => NoneCancelled(chan'[m].q)
    BY <1>5, <2>3, <2>4
  <2> QED
    BY <1>4, <2>2, <2>4, <2>5
<1>10. ASSUME NEW b \in job[m].queued, BucketStarts(m, b) PROVE CoherentAt(m)'
  BY <1>1, <1>4, <1>10 DEF BucketStarts, JobState
<1>11. ASSUME NEW b \in job[m].busy, BucketEnds(m, b) PROVE CoherentAt(m)'
  <2>1. PICK ok \in BOOLEAN, moved \in BOOLEAN :
          job' = [job EXCEPT ![m].busy = @ \ {b}, ![m].results = Append(@,
                    Ev(ItemPath(m, b), IF ok THEN "success" ELSE "failed", moved))]
    BY <1>11, AmountAssumption DEF BucketEnds
  <2> DEFINE ev == Ev(ItemPath(m, b), IF ok THEN "success" ELSE "failed", moved)
  <2>2. job[m].pc \in Fanning
    BY <1>4, <1>11
  <2>3. ev \in Event /\ ev.status # "cancelled"
    <3>1. run[m].entry \in Entries /\ b \in Items(run[m].entry)
      BY <2>2, <1>4 DEF CoherentAt, JobCoherent
    <3> QED
      BY <3>1, ItemsAreIndices DEF ItemPath, Ev, Event
  <2>4. /\ job'[m].pc = job[m].pc /\ job'[m].todo = job[m].todo
        /\ job'[m].queued = job[m].queued /\ job'[m].busy = job[m].busy \ {b}
        /\ job'[m].results = Append(job[m].results, ev) /\ chan' = chan
    BY <1>1, <1>11, <2>1 DEF BucketEnds, JobState
  <2> HIDE DEF ev
  <2>5. NoneCancelled(job'[m].results)
    <3>1. NoneCancelled(job[m].results)
      BY <1>4
    <3>2. \A k \in DOMAIN Append(job[m].results, ev) :
            \/ k \in DOMAIN job[m].results /\ Append(job[m].results, ev)[k] = job[m].results[k]
            \/ Append(job[m].results, ev)[k] = ev
      BY <1>2, <2>3, AppendFacts, SMTT(60)
    <3> QED
      BY <2>3, <2>4, <3>1, <3>2 DEF NoneCancelled
  <2> QED
    BY <1>4, <2>2, <2>4, <2>5
<1>12. ASSUME ReportBucket(m) PROVE CoherentAt(m)'
  <2>1. /\ job[m].pc = "gather" /\ job[m].results # <<>>
        /\ chan' = [chan EXCEPT ![m].q = Append(@, Head(job[m].results))]
        /\ job' = [job EXCEPT ![m].results = Tail(@)]
    BY <1>12 DEF ReportBucket, Send
  <2>2. /\ Head(job[m].results) \in Event /\ Head(job[m].results).status # "cancelled"
        /\ NoneCancelled(Tail(job[m].results))
    BY <1>2, <1>4, <2>1, TailFacts DEF NoneCancelled
  <2>3. /\ chan'[m].q = Append(chan[m].q, Head(job[m].results))
        /\ chan'[m].closed = chan[m].closed
        /\ job'[m].results = Tail(job[m].results) /\ job'[m].pc = job[m].pc
        /\ job'[m].todo = job[m].todo
        /\ job'[m].queued = job[m].queued /\ job'[m].busy = job[m].busy
    BY <1>1, <1>2, <2>1 DEF Channel, JobState
  <2>4. ~ctx[m] /\ run[m].pc # "ended" => NoneCancelled(chan'[m].q)
    BY <1>5, <2>2, <2>3
  <2> QED
    BY <1>4, <2>1, <2>2, <2>3, <2>4
<1> QED
  BY <1>6, <1>7, <1>8, <1>9, <1>10, <1>11, <1>12 DEF JobStep, TransferEnds

\* Where Goto and NextEntry leave the run goroutine, and what they leave alone.
LEMMA GotoMoves ==
  ASSUME run \in [Migrations -> RunState], NEW m \in Migrations
  PROVE  /\ \A l : Goto(m, l) =>
              /\ run'[m].pc = l /\ run'[m].entry = run[m].entry
              /\ run'[m].hasFailure = run[m].hasFailure
         /\ NextEntry(m) =>
              run'[m].pc = "entry" /\ run'[m].hasFailure = run[m].hasFailure
  BY DEF Goto, NextEntry, RunState

\* What Launch leaves in job and chan.
LEMMA LaunchMoves ==
  ASSUME TypeOK, NEW m \in Migrations, NEW e, NEW batch, Launch(m, e, batch)
  PROVE  job'[m] = Launched(e, batch) /\ chan'[m] = NewChan
  BY DEF Launch, Launched, FirstPc, TypeOK

\* A step of the run goroutine outside the drain loop leaves job and chan.
LEMMA RunUnchangedCoherent ==
  ASSUME NEW m \in Migrations, CoherentAt(m), job' = job, chan' = chan, ctx' = ctx,
         run[m].pc \notin Draining, run'[m].pc \notin Cleaning \cup Draining
  PROVE  JobCoherent(m)'
  BY DEF CoherentAt, JobCoherent, Idle, Cleaning, Draining

\* The run goroutine preserves coherence, action by action.
LEMMA RunStepCoherent ==
  ASSUME TypeOK, NEW m \in Migrations, CoherentAt(m), RunStep(m)
  PROVE  CoherentAt(m)'
<1>1. /\ run[m] \in RunState /\ run \in [Migrations -> RunState]
      /\ mem[m] \in Record /\ row[m] \in Record
      /\ mem \in [Migrations -> Record] /\ row \in [Migrations -> Record]
      /\ logs \in [Migrations -> Seq(Log)] /\ logs[m] \in Seq(Log)
      /\ chan \in [Migrations -> Channel] /\ chan[m] \in Channel
  BY DEF TypeOK
<1>2. JobCoherent(m) /\ RowCoherent(m) /\ VerdictCoherent(m)
  BY DEF CoherentAt
<1> USE DEF Starting, Cleaning, Draining, Active, Over
<1>3. ASSUME Register(m) PROVE CoherentAt(m)'
  <2>1. /\ run[m].pc = "launched" /\ run'[m].pc = "registered"
        /\ run'[m].hasFailure = run[m].hasFailure /\ cancels' = cancels \cup {m}
        /\ UNCHANGED <<stored, row, logs, ctx, mem, job, chan>>
    BY <1>1, <1>3 DEF Register, Goto, RunState
  <2>2. JobCoherent(m)'
    BY <2>1, RunUnchangedCoherent
  <2> QED
    BY <1>2, <2>1, <2>2 DEF CoherentAt, RowCoherent, VerdictCoherent
<1>4. ASSUME Load(m) PROVE CoherentAt(m)'
  <2>1. /\ run[m].pc = "registered" /\ run'[m].hasFailure = run[m].hasFailure
        /\ \/ m \in stored /\ mem'[m] = row[m] /\ run'[m].pc = "loaded"
           \/ m \notin stored /\ run'[m].pc = "deregister"
        /\ UNCHANGED <<stored, row, logs, cancels, ctx, job, chan>>
    BY <1>1, <1>4 DEF Load, Goto, RunState
  <2>2. JobCoherent(m)'
    BY <2>1, RunUnchangedCoherent
  <2> QED
    BY <1>2, <2>1, <2>2 DEF CoherentAt, RowCoherent, VerdictCoherent
<1>5. ASSUME Begin(m) PROVE CoherentAt(m)'
  <2>1. /\ run[m].pc = "loaded" /\ run'[m].hasFailure = run[m].hasFailure
        /\ mem'[m].status = "running"
        /\ \/ /\ row'[m] = row[m] \/ row'[m].status = "running"
              /\ run'[m].pc = "entry"
           \/ DBFaults /\ row'[m] = row[m] /\ run'[m].pc = "deregister"
        /\ UNCHANGED <<stored, logs, cancels, ctx, job, chan>>
    <3> DEFINE total == IF run[m].mode = "partial" THEN mem[m].total
                        ELSE Cardinality(PlanItems)
               r == [mem[m] EXCEPT !.status = "running", !.total = total]
    <3>1. r.status = "running"
      BY <1>1 DEF Record
    <3>2. /\ run[m].pc = "loaded" /\ mem' = [mem EXCEPT ![m] = r]
          /\ \/ /\ row' = row \/ row' = [row EXCEPT ![m] = r]
                /\ Goto(m, "entry")
             \/ DBFaults /\ row' = row /\ Goto(m, "deregister")
          /\ UNCHANGED <<stored, logs, cancels, ctx, job, chan>>
      BY <1>5 DEF Begin, Write
    <3> HIDE DEF r
    <3> QED
      BY <1>1, <3>1, <3>2, GotoMoves
  <2>2. JobCoherent(m)'
    BY <2>1, RunUnchangedCoherent
  <2>3. RowCoherent(m)'
    BY <1>2, <2>1 DEF RowCoherent, Final
  <2>4. VerdictCoherent(m)'
    BY <1>2, <2>1 DEF RowCoherent, VerdictCoherent
  <2> QED
    BY <2>2, <2>3, <2>4 DEF CoherentAt
<1>6. ASSUME EnterEntry(m) PROVE CoherentAt(m)'
  <2> DEFINE e == run[m].entry
             batch == IF run[m].mode = "partial"
                      THEN {i \in Items(e) : Selected(m, e, i)} ELSE Items(e)
  <2>1. e \in Entries /\ batch \in SUBSET Items(e) /\ run[m].pc = "entry"
    BY <1>6 DEF EnterEntry
  <2> HIDE DEF batch
  <2>2. /\ run'[m].hasFailure = run[m].hasFailure /\ mem'[m].status = mem[m].status
        /\ \/ /\ run'[m].pc = "cleanup" /\ run'[m].left = Items(e)
              /\ run'[m].batch = {} /\ run'[m].entry = e
              /\ UNCHANGED <<job, chan>>
           \/ run'[m].pc = "entry" /\ UNCHANGED <<job, chan>>
           \/ /\ run'[m].pc = "drain" /\ run'[m].entry = e
              /\ job'[m] = Launched(e, batch) /\ chan'[m] = NewChan
        /\ UNCHANGED <<stored, row, logs, cancels, ctx>>
    <3>1. run'[m].hasFailure = run[m].hasFailure
      BY <1>1, <1>6 DEF EnterEntry, NextEntry, Goto, RunState
    <3>2. mem'[m].status = mem[m].status
      BY <1>1, <1>6 DEF EnterEntry, Record
    <3>3. \/ /\ run'[m].pc = "cleanup" /\ run'[m].left = Items(e)
             /\ run'[m].batch = {} /\ run'[m].entry = e
             /\ UNCHANGED <<job, chan>>
          \/ run'[m].pc = "entry" /\ UNCHANGED <<job, chan>>
          \/ /\ run'[m].pc = "drain" /\ run'[m].entry = e
             /\ job'[m] = Launched(e, batch) /\ chan'[m] = NewChan
      <4>1. CASE NeedsCleanup(m)
        <5>1. run' = [run EXCEPT ![m] = [run[m] EXCEPT !.pc = "cleanup",
                                           !.left = Items(e), !.batch = {}]]
          BY <1>1, <1>6, <4>1 DEF EnterEntry
        <5>2. UNCHANGED <<job, chan>>
          BY <1>6, <4>1 DEF EnterEntry
        <5> QED
          BY <1>1, <5>1, <5>2 DEF RunState
      <4>2. CASE NextEntry(m) /\ UNCHANGED <<job, chan>>
        BY <1>1, <4>2, GotoMoves
      <4>3. CASE Launch(m, e, batch) /\ Goto(m, "drain")
        BY <1>1, <4>3, GotoMoves, LaunchMoves
      <4> QED
        BY <1>6, <4>1, <4>2, <4>3 DEF EnterEntry, batch
    <3> QED
      BY <1>6, <3>1, <3>2, <3>3 DEF EnterEntry
  <2>3. batch \in SUBSET Index
    BY <2>1, ItemsAreIndices
  <2>4. JobCoherent(m)'
    <3>1. CASE run'[m].pc = "drain"
      BY <2>1, <2>2, <2>3, <3>1, LaunchType DEF JobCoherent, Idle, Fanning, JobOver
    <3>2. CASE run'[m].pc # "drain"
      BY <1>2, <2>1, <2>2, <3>2 DEF JobCoherent, Idle
    <3> QED
      BY <3>1, <3>2
  <2>5. RowCoherent(m)'
    BY <1>2, <2>1, <2>2 DEF RowCoherent
  <2>6. VerdictCoherent(m)'
    <3>1. CASE job' = job /\ chan' = chan
      BY <1>2, <2>1, <2>2, <3>1 DEF VerdictCoherent
    <3>2. CASE job'[m] = Launched(e, batch) /\ chan'[m] = NewChan /\ run'[m].pc = "drain"
      <4>1. job'[m].results = <<>> /\ chan'[m].q = <<>>
        BY <2>1, <2>3, <3>2, LaunchType
      <4> QED
        BY <1>2, <2>1, <2>2, <3>2, <4>1 DEF VerdictCoherent
    <3> QED
      BY <2>2, <3>1, <3>2
  <2> QED
    BY <2>4, <2>5, <2>6 DEF CoherentAt
<1>7. ASSUME LeaveLoops(m) PROVE CoherentAt(m)'
  <2>1. /\ run[m].pc = "entry" /\ run'[m].pc = "finish"
        /\ run'[m].hasFailure = run[m].hasFailure
        /\ UNCHANGED <<stored, row, logs, cancels, ctx, mem, job, chan>>
    BY <1>1, <1>7 DEF LeaveLoops, Goto, RunState
  <2>2. JobCoherent(m)'
    BY <2>1, RunUnchangedCoherent
  <2> QED
    BY <1>2, <2>1, <2>2 DEF CoherentAt, RowCoherent, VerdictCoherent
<1>8. ASSUME CleanupItem(m) PROVE CoherentAt(m)'
  <2> DEFINE e == run[m].entry
             failedLog(i, w) == LogRow(m, PathOf(e, i), "failed", w)
  <2>1. PICK i \in run[m].left :
          /\ run'[m].left = run[m].left \ {i} /\ run'[m].entry = e
          /\ mem'[m].status = mem[m].status
          /\ \/ /\ run'[m].pc = "cleanup" /\ logs' = logs
                /\ run'[m].hasFailure = run[m].hasFailure
                /\ run'[m].batch \subseteq run[m].batch \cup {i}
             \/ /\ run'[m].pc = "cleanupSave" /\ run'[m].hasFailure
                /\ run'[m].batch = run[m].batch
                /\ \E w \in BOOLEAN : logs'[m] = Append(logs[m], failedLog(i, w))
    <3> DEFINE total == IF run[m].mode = "partial" THEN mem[m].total + 1
                        ELSE mem[m].total
               counted == [mem[m] EXCEPT !.total = total]
               ev(i) == Ev(PathOf(e, i), "failed", FALSE)
    <3>1. counted \in Record /\ counted.status = mem[m].status
      <4>1. total \in Nat
        BY <1>1 DEF Record
      <4> HIDE DEF total
      <4> QED
        BY <1>1, <4>1 DEF Record
    <3>2. run[m].pc = "cleanup"
      BY <1>8 DEF CleanupItem
    <3>3. \A i \in run[m].left : Counted(counted, ev(i)).status = mem[m].status
      BY <3>1 DEF Counted, Record
    <3>4. PICK i \in run[m].left :
            \/ /\ run' = [run EXCEPT ![m].left = @ \ {i}]
               /\ UNCHANGED <<mem, logs>>
            \/ /\ mem' = [mem EXCEPT ![m] = counted]
               /\ run' = [run EXCEPT ![m].left = @ \ {i}, ![m].batch = @ \cup {i}]
               /\ UNCHANGED logs
            \/ /\ mem' = [mem EXCEPT ![m] = Counted(counted, ev(i))]
               /\ \E w \in BOOLEAN : logs' = [logs EXCEPT ![m] = Append(@, failedLog(i, w))]
               /\ run' = [run EXCEPT ![m].pc = "cleanupSave",
                    ![m].left = @ \ {i}, ![m].hasFailure = TRUE]
      BY <1>8, LogItemAppends DEF CleanupItem
    <3> HIDE DEF counted, ev, failedLog
    <3>5. mem'[m].status = mem[m].status
      BY <1>1, <3>1, <3>3, <3>4
    <3>6. /\ run'[m].left = run[m].left \ {i} /\ run'[m].entry = e
          /\ \/ /\ run'[m].pc = "cleanup" /\ logs' = logs
                /\ run'[m].hasFailure = run[m].hasFailure
                /\ run'[m].batch \subseteq run[m].batch \cup {i}
             \/ /\ run'[m].pc = "cleanupSave" /\ run'[m].hasFailure
                /\ run'[m].batch = run[m].batch
                /\ \E w \in BOOLEAN : logs'[m] = Append(logs[m], failedLog(i, w))
      <4>1. CASE /\ run' = [run EXCEPT ![m].pc = "cleanupSave",
                       ![m].left = @ \ {i}, ![m].hasFailure = TRUE]
                 /\ \E w \in BOOLEAN : logs' = [logs EXCEPT ![m] = Append(@, failedLog(i, w))]
        <5>1. run' = [run EXCEPT ![m] = [run[m] EXCEPT !.pc = "cleanupSave",
                         !.left = @ \ {i}, !.hasFailure = TRUE]]
          BY <1>1, <4>1
        <5> QED
          BY <1>1, <4>1, <5>1 DEF RunState
      <4>2. CASE run' = [run EXCEPT ![m].left = @ \ {i}] /\ logs' = logs
        BY <1>1, <3>2, <4>2 DEF RunState
      <4>3. CASE /\ run' = [run EXCEPT ![m].left = @ \ {i}, ![m].batch = @ \cup {i}]
                 /\ logs' = logs
        BY <1>1, <3>2, <4>3 DEF RunState
      <4> QED
        BY <3>4, <4>1, <4>2, <4>3
    <3> QED
      BY <3>5, <3>6
  <2>2. run[m].pc = "cleanup" /\ UNCHANGED <<stored, row, cancels, ctx, job, chan>>
    BY <1>8 DEF CleanupItem
  <2>3. JobCoherent(m)'
    BY <1>2, <2>1, <2>2 DEF JobCoherent, Idle
  <2>4. RowCoherent(m)'
    BY <1>2, <2>1, <2>2 DEF RowCoherent
  <2>5. VerdictCoherent(m)'
    <3>1. CASE logs' = logs /\ run'[m].hasFailure = run[m].hasFailure
      BY <1>2, <2>1, <2>2, <3>1 DEF VerdictCoherent
    <3>2. CASE /\ run'[m].hasFailure
               /\ \E w \in BOOLEAN : logs'[m] = Append(logs[m], failedLog(i, w))
      <4>0. PICK w \in BOOLEAN : logs'[m] = Append(logs[m], failedLog(i, w))
        BY <3>2
      <4>1. i \in Items(e) /\ e \in Entries
        BY <1>2, <2>1, <2>2 DEF JobCoherent
      <4>2. failedLog(i, w) \in Log /\ failedLog(i, w).status = "failed"
        BY <4>1, ItemsAreIndices DEF Log, LogRow
      <4> HIDE DEF failedLog
      <4>3. /\ \E k \in DOMAIN logs'[m] : logs'[m][k].status = "failed"
            /\ \A k \in DOMAIN logs'[m] :
                 (k \in DOMAIN logs[m] /\ logs'[m][k] = logs[m][k])
                   \/ logs'[m][k].status = "failed"
        <5> DEFINE x == failedLog(i, w)
        <5> HIDE DEF x
        <5>1. /\ \E k \in DOMAIN Append(logs[m], x) : Append(logs[m], x)[k] = x
              /\ \A k \in DOMAIN Append(logs[m], x) :
                   (k \in DOMAIN logs[m] /\ Append(logs[m], x)[k] = logs[m][k])
                     \/ Append(logs[m], x)[k] = x
          BY <1>1, <4>2, AppendFacts DEF x
        <5>2. logs'[m] = Append(logs[m], x) /\ x.status = "failed"
          BY <4>0, <4>2 DEF x
        <5> QED
          BY <5>1, <5>2
      <4>4. row[m].status \notin Final
        BY <1>2, <2>2 DEF RowCoherent
      <4> QED
        BY <1>2, <2>1, <2>2, <3>2, <4>3, <4>4 DEF VerdictCoherent, Final
    <3> QED
      BY <2>1, <3>1, <3>2
  <2> QED
    BY <2>3, <2>4, <2>5 DEF CoherentAt
<1>9. ASSUME CleanupSave(m) \/ DrainSave(m) PROVE CoherentAt(m)'
  <2>1. /\ \/ run[m].pc = "cleanupSave" /\ run'[m].pc = "cleanup"
           \/ run[m].pc = "drainSave" /\ run'[m].pc = "drain"
        /\ run'[m].hasFailure = run[m].hasFailure /\ run'[m].entry = run[m].entry
        /\ run'[m].left = run[m].left /\ run'[m].batch = run[m].batch
        /\ row'[m] = row[m] \/ row'[m] = mem[m]
        /\ UNCHANGED <<stored, logs, cancels, ctx, mem, job, chan>>
    BY <1>1, <1>9 DEF CleanupSave, DrainSave, Save, Write, Goto, RunState
  <2>2. JobCoherent(m)'
    BY <1>2, <2>1 DEF JobCoherent, Idle
  <2>3. RowCoherent(m)'
    BY <1>2, <2>1 DEF RowCoherent, Final
  <2>4. VerdictCoherent(m)'
    BY <1>2, <2>1 DEF RowCoherent, VerdictCoherent
  <2> QED
    BY <2>2, <2>3, <2>4 DEF CoherentAt
<1>10. ASSUME CleanupEnd(m) PROVE CoherentAt(m)'
  <2> DEFINE e == run[m].entry
             batch == run[m].batch
  <2>1. run[m].pc = "cleanup" /\ e \in Entries /\ batch \in SUBSET Items(e)
    BY <1>2, <1>10 DEF CleanupEnd, JobCoherent
  <2>2. /\ run'[m].hasFailure = run[m].hasFailure
        /\ \/ run'[m].pc = "entry" /\ UNCHANGED <<job, chan>>
           \/ /\ run'[m].pc = "drain" /\ run'[m].entry = e
              /\ job'[m] = Launched(e, batch) /\ chan'[m] = NewChan
        /\ UNCHANGED <<stored, row, logs, cancels, ctx, mem>>
    <3>1. CASE NextEntry(m) /\ UNCHANGED <<job, chan>>
      BY <1>1, <1>10, <3>1, GotoMoves DEF CleanupEnd
    <3>2. CASE Launch(m, e, batch) /\ Goto(m, "drain")
      BY <1>1, <1>10, <3>2, GotoMoves, LaunchMoves DEF CleanupEnd
    <3> QED
      BY <1>10, <3>1, <3>2 DEF CleanupEnd
  <2>3. batch \in SUBSET Index
    BY <2>1, ItemsAreIndices
  <2>4. JobCoherent(m)'
    <3>1. CASE run'[m].pc = "drain"
      BY <2>1, <2>2, <2>3, <3>1, LaunchType DEF JobCoherent, Idle, Fanning, JobOver
    <3>2. CASE run'[m].pc # "drain"
      BY <1>2, <2>1, <2>2, <3>2 DEF JobCoherent, Idle
    <3> QED
      BY <3>1, <3>2
  <2>5. RowCoherent(m)'
    BY <1>2, <2>1, <2>2 DEF RowCoherent
  <2>6. VerdictCoherent(m)'
    <3>1. CASE job' = job /\ chan' = chan
      BY <1>2, <2>1, <2>2, <3>1 DEF VerdictCoherent
    <3>2. CASE job'[m] = Launched(e, batch) /\ chan'[m] = NewChan /\ run'[m].pc = "drain"
      <4>1. job'[m].results = <<>> /\ chan'[m].q = <<>>
        BY <2>1, <2>3, <3>2, LaunchType
      <4> QED
        BY <1>2, <2>1, <2>2, <3>2, <4>1 DEF VerdictCoherent
    <3> QED
      BY <2>2, <3>1, <3>2
  <2> QED
    BY <2>4, <2>5, <2>6 DEF CoherentAt
<1>11. ASSUME DrainEvent(m) PROVE CoherentAt(m)'
  <2> DEFINE ev == Head(chan[m].q)
  <2>1. chan[m].q \in Seq(Event) /\ chan[m].q # <<>> /\ run[m].pc = "drain"
    BY <1>1, <1>11 DEF DrainEvent, Channel
  <2>2. /\ ev \in Event
        /\ \E k \in DOMAIN chan[m].q : chan[m].q[k] = ev
        /\ \A k \in DOMAIN Tail(chan[m].q) :
             \E l \in DOMAIN chan[m].q : Tail(chan[m].q)[k] = chan[m].q[l]
    <3>1. \A k \in DOMAIN Tail(chan[m].q) :
            k + 1 \in DOMAIN chan[m].q /\ Tail(chan[m].q)[k] = chan[m].q[k + 1]
      BY <2>1, TailFacts
    <3> QED
      BY <2>1, <3>1, TailFacts
  <2>3. /\ run'[m].pc = "drainSave" /\ run'[m].entry = run[m].entry
        /\ run'[m].hasFailure = FailureSeen(m, ev)
        /\ run'[m].left = run[m].left /\ run'[m].batch = run[m].batch
    BY <1>1, <1>11 DEF DrainEvent, RunState
  <2>4. mem'[m].status = mem[m].status
    BY <1>1, <1>11, <2>2, CountedType DEF DrainEvent
  <2>5. chan'[m].q = Tail(chan[m].q) /\ chan'[m].closed = chan[m].closed
    BY <1>1, <1>11 DEF DrainEvent, Channel
  <2>a. LogItem(m, ev.path, ev.status)
    BY <1>11 DEF DrainEvent
  <2>b. PICK w \in BOOLEAN :
          logs' = [logs EXCEPT ![m] = Append(@, LogRow(m, ev.path, ev.status, w))]
    BY <2>a, LogItemAppends
  <2>6. logs'[m] = Append(logs[m], LogRow(m, ev.path, ev.status, w))
    BY <1>1, <2>b
  <2> DEFINE entry == LogRow(m, ev.path, ev.status, w)
  <2>7. UNCHANGED <<stored, row, cancels, ctx, job>>
    BY <1>11 DEF DrainEvent
  <2>8. entry \in Log /\ entry.status = ev.status
    BY <1>2, <2>1, <2>2 DEF JobCoherent, Event, Log, LogRow
  <2> HIDE DEF ev, entry
  <2>9. JobCoherent(m)'
    BY <1>2, <2>1, <2>3, <2>5, <2>7 DEF JobCoherent, Idle
  <2>10. RowCoherent(m)'
    BY <1>2, <2>1, <2>3, <2>4, <2>7 DEF RowCoherent
  <2>11. VerdictCoherent(m)'
    <3>1. /\ \E k \in DOMAIN logs'[m] : logs'[m][k] = entry
          /\ \A k \in DOMAIN logs[m] : k \in DOMAIN logs'[m] /\ logs'[m][k] = logs[m][k]
          /\ \A k \in DOMAIN logs'[m] :
               (k \in DOMAIN logs[m] /\ logs'[m][k] = logs[m][k]) \/ logs'[m][k] = entry
      BY <1>1, <2>6, <2>8, AppendFacts DEF entry
    <3>2. run'[m].hasFailure <=> \E k \in DOMAIN logs'[m] : logs'[m][k].status = "failed"
      BY <1>2, <2>3, <2>8, <3>1 DEF VerdictCoherent, FailureSeen
    <3>3. row[m].status \notin Final
      BY <1>2, <2>1 DEF RowCoherent
    <3>4. ~ctx[m] => ev.status # "cancelled"
      BY <1>2, <2>1, <2>2 DEF VerdictCoherent
    <3>5. ~ctx'[m] => /\ \A k \in DOMAIN logs'[m] : logs'[m][k].status # "cancelled"
                      /\ \A k \in DOMAIN chan'[m].q : chan'[m].q[k].status # "cancelled"
      BY <1>2, <2>1, <2>2, <2>5, <2>7, <2>8, <3>1, <3>4 DEF VerdictCoherent
    <3> QED
      BY <1>2, <2>3, <2>7, <3>2, <3>3, <3>5 DEF VerdictCoherent, Final
  <2> QED
    BY <2>9, <2>10, <2>11 DEF CoherentAt
<1>12. ASSUME DrainEnd(m) PROVE CoherentAt(m)'
  <2>1. /\ run[m].pc = "drain" /\ run'[m].pc = "entry"
        /\ run'[m].hasFailure = run[m].hasFailure
        /\ chan[m].q = <<>> /\ chan[m].closed
        /\ UNCHANGED <<stored, row, logs, cancels, ctx, mem, job, chan>>
    BY <1>1, <1>12 DEF DrainEnd, NextEntry, RunState
  <2>2. JobCoherent(m)'
    BY <1>2, <2>1 DEF JobCoherent, Idle
  <2> QED
    BY <1>2, <2>1, <2>2 DEF CoherentAt, RowCoherent, VerdictCoherent
<1>13. ASSUME Finish(m) PROVE CoherentAt(m)'
  <2>1. /\ run[m].pc = "finish" /\ run'[m].pc = "deregister"
        /\ run'[m].hasFailure = run[m].hasFailure
        /\ mem'[m].status = Verdict(m)
        /\ \/ row'[m].status = Verdict(m)
           \/ row'[m] = row[m] /\ (DBFaults \/ m \notin stored)
        /\ UNCHANGED <<stored, logs, cancels, ctx, job, chan>>
    <3> DEFINE note == Verdict(m) = "completed" /\ SaysIdentical(m)
               r == [mem[m] EXCEPT !.status = Verdict(m), !.note = note]
    <3>1. /\ run[m].pc = "finish" /\ mem' = [mem EXCEPT ![m] = r]
          /\ \/ row' = [row EXCEPT ![m] = r]
             \/ row' = row /\ (DBFaults \/ m \notin stored)
          /\ Goto(m, "deregister")
          /\ UNCHANGED <<stored, logs, cancels, ctx, job, chan>>
      BY <1>13 DEF Finish, Save, Write
    <3> HIDE DEF note
    <3>2. r.status = Verdict(m)
      BY <1>1 DEF Record
    <3> HIDE DEF r
    <3> QED
      BY <1>1, <3>1, <3>2, GotoMoves
  <2>2. JobCoherent(m)'
    BY <2>1, RunUnchangedCoherent
  <2>3. RowCoherent(m)'
    BY <1>2, <2>1 DEF RowCoherent, Verdict
  <2>4. VerdictCoherent(m)'
    <3>1. row[m].status \notin Final
      BY <1>2, <2>1 DEF RowCoherent
    <3>2. \A k \in DOMAIN logs[m] :
            logs[m][k].status \in {"success", "failed", "cancelled"}
      <4>1. \A k \in DOMAIN logs[m] : logs[m][k] \in Log
        BY <1>1, LenProperties, ElementOfSeq
      <4> QED
        BY <4>1 DEF Log
    <3> QED
      BY <1>2, <2>1, <3>1, <3>2 DEF VerdictCoherent, Verdict, Final
  <2> QED
    BY <2>2, <2>3, <2>4 DEF CoherentAt
<1>14. ASSUME Deregister(m) PROVE CoherentAt(m)'
  <2>1. /\ run[m].pc = "deregister" /\ run'[m].pc = "ended" /\ ctx'[m]
        /\ run'[m].hasFailure = run[m].hasFailure
        /\ UNCHANGED <<stored, row, logs, mem, job, chan>>
    BY <1>1, <1>14 DEF Deregister, Goto, RunState, TypeOK
  <2>2. JobCoherent(m)'
    BY <1>2, <2>1 DEF JobCoherent, Idle
  <2> QED
    BY <1>2, <2>1, <2>2 DEF CoherentAt, RowCoherent, VerdictCoherent
<1> QED
  BY <1>3, <1>4, <1>5, <1>6, <1>7, <1>8, <1>9, <1>10, <1>11, <1>12, <1>13, <1>14
  DEF RunStep

-----------------------------------------------------------------------------
(* The theorems.                                                           *)

IInv == TypeOK /\ Coherent

\* The empty database and an idle executor satisfy the inductive invariant.
LEMMA InitIInv == Init => IInv
<1> SUFFICES ASSUME Init PROVE IInv
  OBVIOUS
<1>1. TypeOK
  <2>1. NewRecord \in Record
    BY DEF NewRecord, Record, Status
  <2>2. NewRun \in RunState
    BY DEF NewRun, RunState, RunPc, Mode
  <2>3. NewJob \in JobState /\ NewChan \in Channel /\ Len(NewChan.q) <= ChanCap
    BY EmptySeq, ChanAssumption DEF NewJob, JobState, JobPc, NewChan, Channel
  <2>4. <<>> \in Seq(Log)
    BY EmptySeq
  <2> QED
    BY <2>1, <2>2, <2>3, <2>4 DEF Init, TypeOK
<1>2. ASSUME NEW m \in Migrations PROVE CoherentAt(m)
  <2>1. /\ run[m].pc = "none" /\ ~run[m].hasFailure /\ row[m].status = "pending"
        /\ logs[m] = <<>> /\ chan[m].q = <<>> /\ job[m].pc = "none"
        /\ job[m].results = <<>> /\ job[m].queued = {} /\ job[m].busy = {}
        /\ m \notin stored
    BY DEF Init, NewRecord, NewRun, NewJob, NewChan
  <2>2. /\ DOMAIN logs[m] = {} /\ DOMAIN chan[m].q = {} /\ DOMAIN job[m].results = {}
    BY <2>1
  <2>3. JobCoherent(m)
    BY <2>1 DEF JobCoherent, Idle, JobOver, Fanning, Cleaning, Draining
  <2>4. RowCoherent(m)
    BY <2>1 DEF RowCoherent, Starting, Active, Cleaning, Draining, Over
  <2>5. VerdictCoherent(m)
    BY <2>1, <2>2 DEF VerdictCoherent
  <2> QED
    BY <2>3, <2>4, <2>5 DEF CoherentAt
<1> QED
  BY <1>1, <1>2 DEF IInv, Coherent, CoherentAt

\* The inductive step: a step belongs to one migration, which it keeps coherent,
\* and leaves the others alone.
LEMMA NextIInv == IInv /\ [Next]_vars => IInv'
<1> SUFFICES ASSUME IInv, [Next]_vars PROVE IInv'
  OBVIOUS
<1>1. TypeOK /\ Coherent /\ \A n \in Migrations : CoherentAt(n)
  BY DEF IInv, Coherent, CoherentAt
<1>2. CASE Next
  <2>1. PICK m \in Migrations : RunStep(m) \/ JobStep(m) \/ TransferEnds(m) \/ Request(m)
    BY <1>2 DEF Next
  <2>2. TypeOK'
    BY <1>1, <2>1, RunStepTypes, JobStepTypes, RequestTypes
  <2>3. CoherentAt(m)'
    BY <1>1, <2>1, RunStepCoherent, JobStepCoherent, RequestCoherent
  <2>4. ASSUME NEW n \in Migrations, n # m PROVE CoherentAt(n)'
    BY <1>1, <2>1, <2>4, OnlyItsOwn, SameStaysCoherent
  <2> QED
    BY <2>2, <2>3, <2>4 DEF IInv, Coherent, CoherentAt
<1>3. CASE UNCHANGED vars
  BY <1>1, <1>3 DEF vars, IInv, TypeOK, Coherent, JobCoherent, RowCoherent,
    VerdictCoherent, Idle
<1> QED
  BY <1>2, <1>3

\* A restart leaves no goroutine behind: what is coherent about the rows and the
\* log rows of an ended run stays so.
LEMMA RestartIInv == IInv /\ Restart => IInv'
<1> SUFFICES ASSUME IInv, Restart PROVE IInv'
  OBVIOUS
<1>1. /\ NewRun \in RunState /\ NewJob \in JobState /\ NewRecord \in Record
      /\ NewChan \in Channel /\ Len(NewChan.q) <= ChanCap
  BY EmptySeq, ChanAssumption DEF NewRun, RunState, RunPc, Mode, NewJob, JobState, JobPc,
    NewRecord, Record, Status, NewChan, Channel
<1>2. TypeOK'
  <2>1. ASSUME NEW m \in Migrations PROVE [run[m] EXCEPT !.pc = "ended"] \in RunState
    <3>1. run[m] \in RunState
      BY DEF IInv, TypeOK
    <3> QED
      BY <3>1 DEF RunState, RunPc
  <2>2. run' \in [Migrations -> RunState]
    BY <1>1, <2>1 DEF Restart
  <2>3. /\ mem' \in [Migrations -> Record] /\ job' \in [Migrations -> JobState]
        /\ chan' \in [Migrations -> Channel] /\ ctx' \in [Migrations -> BOOLEAN]
        /\ \A m \in Migrations : Len(chan'[m].q) <= ChanCap
    BY <1>1 DEF Restart
  <2> QED
    BY <2>2, <2>3 DEF IInv, TypeOK, Restart, database
<1>3. ASSUME NEW m \in Migrations PROVE CoherentAt(m)'
  <2>1. /\ job'[m].pc = "none" /\ job'[m].queued = {} /\ job'[m].busy = {}
        /\ job'[m].results = <<>> /\ chan'[m].q = <<>>
        /\ UNCHANGED <<stored, row, logs>>
    BY DEF Restart, NewJob, NewChan, database
  <2>2. CASE run[m].pc = "none"
    <3>1. run'[m].pc = "none" /\ ~run'[m].hasFailure
      BY <2>2 DEF Restart, NewRun
    <3>2. CoherentAt(m) /\ ~run[m].hasFailure
      BY <2>2 DEF IInv, Coherent, CoherentAt, VerdictCoherent, Starting
    <3> QED
      BY <2>1, <2>2, <3>1, <3>2 DEF CoherentAt, JobCoherent, RowCoherent, VerdictCoherent, Idle,
        Starting, Cleaning, Draining, Active, Over, JobOver, Fanning
  <2>3. CASE run[m].pc # "none"
    <3>1. run'[m].pc = "ended" /\ run'[m].hasFailure = run[m].hasFailure
      BY <2>3 DEF Restart, IInv, TypeOK, RunState
    <3>2. CoherentAt(m)
      BY DEF IInv, Coherent, CoherentAt
    <3>3. JobCoherent(m)' /\ RowCoherent(m)'
      BY <2>1, <3>1 DEF JobCoherent, RowCoherent, Idle, Starting, Cleaning, Draining, Active,
        JobOver, Fanning
    <3>4. VerdictCoherent(m)'
      <4>1. DOMAIN job'[m].results = {}
        BY <2>1
      <4> QED
        BY <2>1, <3>1, <3>2, <4>1 DEF CoherentAt, VerdictCoherent, Starting
    <3> QED
      BY <3>3, <3>4 DEF CoherentAt
  <2> QED
    BY <2>2, <2>3
<1> QED
  BY <1>2, <1>3 DEF IInv, Coherent, CoherentAt

\* In every reachable state, restarts included, the run goroutine, the Migrate*
\* goroutine, the channel between them, the row and the log rows of a migration
\* fit together.
THEOREM Invariance == CrashSpec => []IInv
<1>1. IInv /\ [Next \/ Restart]_vars => IInv'
  BY NextIInv, RestartIInv
<1> QED
  BY <1>1, InitIInv, PTL DEF CrashSpec

\* Every state is well typed; in particular no progress channel ever holds more
\* events than it buffers, however the sender and the drain loop interleave.
THEOREM TypeCorrect == CrashSpec => []TypeOK
<1>1. IInv => TypeOK
  BY DEF IInv
<1> QED
  BY <1>1, Invariance, PTL

\* The strengthening itself.
THEOREM AlwaysCoherent == CrashSpec => []Coherent
<1>1. IInv => Coherent
  BY DEF IInv
<1> QED
  BY <1>1, Invariance, PTL

\* Whatever the plan, once a row shows a final status the Migrate* goroutine is
\* gone, no bucket is under way and no event waits: Executor.Execute and
\* retryRun write the verdict only after draining every entry they started.
THEOREM QuietWhenFinal == CrashSpec => []FinalIsQuiet
<1>1. IInv => FinalIsQuiet
  <2> SUFFICES ASSUME IInv, NEW m \in stored, row[m].status \in Final
               PROVE  job[m].pc \in {"none", "closed"} /\ Idle(m) /\ chan[m].q = <<>>
    BY DEF FinalIsQuiet
  <2>1. m \in Migrations /\ JobCoherent(m) /\ RowCoherent(m)
    BY DEF IInv, TypeOK, Coherent
  <2>2. run[m].pc \notin Draining
    BY <2>1 DEF RowCoherent, Active
  <2> QED
    BY <2>1, <2>2 DEF JobCoherent, JobOver, Fanning
<1> QED
  BY <1>1, Invariance, PTL

-----------------------------------------------------------------------------
(* What a step of the run goroutine does to its own migration.             *)

\* The position moves, the entry and its items stay.
Moves(m, to) ==
  /\ run'[m].pc = to /\ run'[m].entry = run[m].entry
  /\ run'[m].left = run[m].left /\ run'[m].batch = run[m].batch
Ahead(m) == run'[m].pc = "entry" /\ run'[m].entry = run[m].entry + 1

SameJob(m)  == job'[m] = job[m] /\ chan'[m] = chan[m]
SameLogs(m) == logs'[m] = logs[m]
SameCounts(m) ==
  mem'[m].processed = mem[m].processed /\ mem'[m].failed = mem[m].failed
LogsOne(m, ev) ==
  /\ \E w \in BOOLEAN : logs'[m] = Append(logs[m], LogRow(m, ev.path, ev.status, w))
  /\ mem'[m].processed = mem[m].processed + 1
  /\ mem'[m].failed = IF ev.status = "failed" THEN mem[m].failed + 1 ELSE mem[m].failed
SavesRow(m) ==
  /\ row'[m] = row[m] \/ row'[m] = mem'[m]
  /\ m \in stored /\ ~DBFaults => row'[m] = mem'[m]
SameRow(m) == row'[m] = row[m]
Starts(m, batch) ==
  /\ run'[m].pc = "drain" /\ run'[m].entry = run[m].entry
  /\ job'[m] = Launched(run[m].entry, batch) /\ chan'[m] = NewChan

\* The items EnterEntry takes up.
Taken(m) ==
  IF run[m].mode = "partial"
  THEN {i \in Items(run[m].entry) : Selected(m, run[m].entry, i)} ELSE Items(run[m].entry)

BeforeEntries(m) ==
  /\ SameJob(m) /\ SameLogs(m)
  /\ \/ /\ run[m].pc = "launched" /\ Moves(m, "registered") /\ SameRow(m)
     \/ /\ run[m].pc = "registered" /\ SameRow(m)
        /\ \/ Moves(m, "loaded") /\ mem'[m] = row[m]
           \/ Moves(m, "deregister") /\ m \notin stored
     \/ /\ run[m].pc = "loaded" /\ SameCounts(m) /\ mem'[m].status = "running"
        /\ \/ Moves(m, "entry") /\ SavesRow(m)
           \/ Moves(m, "deregister") /\ SameRow(m) /\ DBFaults

AtEntry(m) ==
  LET e == run[m].entry IN
  /\ run[m].pc = "entry" /\ SameRow(m) /\ SameLogs(m) /\ SameCounts(m)
  /\ \/ /\ e \in Entries /\ ~ctx[m] /\ SameJob(m) /\ Plan[e].kind = "db"
        /\ run'[m].pc = "cleanup" /\ run'[m].entry = e
        /\ run'[m].left = Items(e) /\ run'[m].batch = {}
     \/ e \in Entries /\ ~ctx[m] /\ SameJob(m) /\ run[m].mode = "partial" /\ Ahead(m)
     \/ e \in Entries /\ ~ctx[m] /\ Starts(m, Taken(m))
     \/ (ctx[m] \/ e \notin Entries) /\ SameJob(m) /\ Moves(m, "finish")

AtCleanup(m) ==
  LET e == run[m].entry
      partial == run[m].mode = "partial"
  IN
  \/ /\ run[m].pc = "cleanup" /\ SameRow(m) /\ SameJob(m)
     /\ \E i \in run[m].left :
          /\ run'[m].left = run[m].left \ {i} /\ run'[m].entry = e
          /\ \/ /\ partial /\ SameLogs(m) /\ SameCounts(m)
                /\ run'[m].pc = "cleanup" /\ run'[m].batch = run[m].batch
             \/ /\ partial => Selected(m, e, i)
                /\ SameLogs(m) /\ SameCounts(m)
                /\ run'[m].pc = "cleanup" /\ run'[m].batch = run[m].batch \cup {i}
             \/ /\ LogsOne(m, Ev(PathOf(e, i), "failed", FALSE))
                /\ run'[m].pc = "cleanupSave" /\ run'[m].batch = run[m].batch
  \/ /\ run[m].pc = "cleanupSave" /\ SavesRow(m) /\ SameJob(m) /\ SameLogs(m)
     /\ mem'[m] = mem[m] /\ Moves(m, "cleanup")
  \/ /\ run[m].pc = "cleanup" /\ run[m].left = {} /\ SameRow(m) /\ SameLogs(m)
     /\ SameCounts(m)
     /\ \/ run[m].batch = {} /\ SameJob(m) /\ Ahead(m)
        \/ Starts(m, run[m].batch)

AtDrain(m) ==
  \/ /\ run[m].pc = "drain" /\ SameRow(m) /\ job'[m] = job[m] /\ Moves(m, "drainSave")
     /\ chan[m].q # <<>> /\ chan'[m] = [chan[m] EXCEPT !.q = Tail(chan[m].q)]
     /\ LogsOne(m, Head(chan[m].q))
  \/ /\ run[m].pc = "drainSave" /\ SavesRow(m) /\ SameJob(m) /\ SameLogs(m)
     /\ mem'[m] = mem[m] /\ Moves(m, "drain")
  \/ /\ run[m].pc = "drain" /\ SameRow(m) /\ SameJob(m) /\ SameLogs(m) /\ SameCounts(m)
     /\ chan[m].q = <<>> /\ chan[m].closed /\ Ahead(m)

AfterEntries(m) ==
  /\ SameJob(m) /\ SameLogs(m) /\ SameCounts(m)
  /\ \/ /\ run[m].pc = "finish" /\ SavesRow(m) /\ mem'[m].status = Verdict(m)
        /\ Moves(m, "deregister")
     \/ /\ run[m].pc = "deregister" /\ SameRow(m) /\ Moves(m, "ended")

RunEffect(m) ==
  /\ run'[m].mode = run[m].mode /\ run'[m].sel = run[m].sel
  /\ run'[m].origin = run[m].origin /\ stored' = stored
  /\ ctx[m] => ctx'[m]
  /\ \/ BeforeEntries(m) \/ AtEntry(m) \/ AtCleanup(m) \/ AtDrain(m) \/ AfterEntries(m)

\* progressTracker.done counts one more item, and one more failure for a failed one.
LEMMA CountsOne ==
  ASSUME NEW r \in Record, NEW ev
  PROVE  /\ Counted(r, ev).processed = r.processed + 1
         /\ Counted(r, ev).failed = IF ev.status = "failed" THEN r.failed + 1 ELSE r.failed
<1> DEFINE b == r.moved \/ ev.moved
<1>1. Counted(r, ev) = [r EXCEPT !.processed = r.processed + 1,
          !.failed = IF ev.status = "failed" THEN r.failed + 1 ELSE r.failed, !.moved = b]
  BY DEF Counted
<1> HIDE DEF b
<1> QED
  BY <1>1 DEF Record

\* A run goroutine never changes what it was asked for, nor whether its row is
\* there; every step of it is one of the steps above.
LEMMA RunEffects ==
  ASSUME TypeOK, NEW m \in Migrations, RunStep(m)
  PROVE  RunEffect(m)
<1>1. /\ run[m] \in RunState /\ run \in [Migrations -> RunState]
      /\ mem[m] \in Record /\ row[m] \in Record
      /\ mem \in [Migrations -> Record] /\ row \in [Migrations -> Record]
      /\ logs \in [Migrations -> Seq(Log)] /\ logs[m] \in Seq(Log)
      /\ chan \in [Migrations -> Channel] /\ chan[m] \in Channel
      /\ ctx \in [Migrations -> BOOLEAN] /\ run[m].entry \in Nat \ {0}
  BY DEF TypeOK, RunState
<1>a. ASSUME NEW r \in Record, mem' = [mem EXCEPT ![m] = r], Save(m, r)
      PROVE  SavesRow(m)
  BY <1>1, <1>a DEF Save, Write, SavesRow
<1>b. ASSUME NEW l, Goto(m, l)
      PROVE  /\ Moves(m, l) /\ run'[m].mode = run[m].mode
             /\ run'[m].sel = run[m].sel /\ run'[m].origin = run[m].origin
  BY <1>1, <1>b DEF Goto, Moves, RunState
<1>c. ASSUME NextEntry(m)
      PROVE  /\ Ahead(m) /\ run'[m].mode = run[m].mode
             /\ run'[m].sel = run[m].sel /\ run'[m].origin = run[m].origin
  BY <1>1, <1>c DEF NextEntry, Ahead, RunState
<1>d. ASSUME NEW batch, Launch(m, run[m].entry, batch), Goto(m, "drain")
      PROVE  Starts(m, batch)
  BY <1>1, <1>b, <1>d, LaunchMoves DEF Starts, Moves
<1>3. ASSUME Register(m) PROVE RunEffect(m)
  BY <1>1, <1>3, <1>b DEF Register, RunEffect, BeforeEntries, SameJob, SameLogs, SameRow
<1>4. ASSUME Load(m) PROVE RunEffect(m)
  BY <1>1, <1>4, <1>b DEF Load, RunEffect, BeforeEntries, SameJob, SameLogs, SameRow
<1>5. ASSUME Begin(m) PROVE RunEffect(m)
  <2> DEFINE total == IF run[m].mode = "partial" THEN mem[m].total
                      ELSE Cardinality(PlanItems)
             r == [mem[m] EXCEPT !.status = "running", !.total = total]
  <2>1. r.status = "running" /\ r.processed = mem[m].processed /\ r.failed = mem[m].failed
    BY <1>1 DEF Record
  <2>2. /\ run[m].pc = "loaded" /\ mem' = [mem EXCEPT ![m] = r]
        /\ \/ Write(m, r) /\ Goto(m, "entry")
           \/ DBFaults /\ row' = row /\ Goto(m, "deregister")
        /\ UNCHANGED <<stored, logs, cancels, ctx, job, chan>>
    BY <1>5 DEF Begin
  <2> HIDE DEF r
  <2>3. mem'[m] = r
    BY <1>1, <2>2
  <2>4. Write(m, r) => SavesRow(m)
    BY <1>1, <2>3 DEF Write, SavesRow
  <2>5. /\ SameJob(m) /\ SameLogs(m) /\ run[m].pc = "loaded" /\ SameCounts(m)
        /\ mem'[m].status = "running"
    BY <2>1, <2>2, <2>3 DEF SameJob, SameLogs, SameCounts
  <2> QED
    BY <1>b, <2>2, <2>4, <2>5 DEF RunEffect, BeforeEntries, SameRow
<1>6. ASSUME EnterEntry(m) PROVE RunEffect(m)
  <2> DEFINE e == run[m].entry
             batch == IF run[m].mode = "partial"
                      THEN {i \in Items(e) : Selected(m, e, i)} ELSE Items(e)
  <2>1. batch = Taken(m)
    BY DEF Taken
  <2>2. /\ run[m].pc = "entry" /\ e \in Entries /\ ~ctx[m]
        /\ UNCHANGED <<stored, row, logs, cancels, ctx>>
        /\ \/ /\ run' = [run EXCEPT ![m].pc = "cleanup", ![m].left = Items(e),
                                    ![m].batch = {}]
              /\ Plan[e].kind = "db"
              /\ UNCHANGED <<mem, job, chan>>
           \/ run[m].mode = "partial" /\ NextEntry(m) /\ UNCHANGED <<mem, job, chan>>
           \/ Launch(m, e, batch) /\ Goto(m, "drain")
    BY <1>6 DEF EnterEntry, NeedsCleanup
  <2>3. SameCounts(m)
    BY <1>1, <1>6 DEF EnterEntry, SameCounts, Record
  <2> HIDE DEF batch
  <2>4. CASE /\ run' = [run EXCEPT ![m].pc = "cleanup", ![m].left = Items(e),
                                   ![m].batch = {}]
             /\ Plan[e].kind = "db"
             /\ UNCHANGED <<mem, job, chan>>
    <3>1. /\ run'[m].pc = "cleanup" /\ run'[m].entry = e
          /\ run'[m].left = Items(e) /\ run'[m].batch = {}
          /\ run'[m].mode = run[m].mode /\ run'[m].sel = run[m].sel
          /\ run'[m].origin = run[m].origin
      BY <1>1, <2>4 DEF RunState
    <3> QED
      BY <2>2, <2>3, <2>4, <3>1 DEF RunEffect, AtEntry, SameRow, SameLogs, SameJob
  <2>5. CASE run[m].mode = "partial" /\ NextEntry(m) /\ UNCHANGED <<mem, job, chan>>
    BY <1>c, <2>2, <2>3, <2>5 DEF RunEffect, AtEntry, SameRow, SameLogs, SameJob
  <2>6. CASE Launch(m, e, batch) /\ Goto(m, "drain")
    BY <1>b, <1>d, <2>1, <2>2, <2>3, <2>6 DEF RunEffect, AtEntry, SameRow, SameLogs
  <2> QED
    BY <2>2, <2>4, <2>5, <2>6
<1>7. ASSUME LeaveLoops(m) PROVE RunEffect(m)
  BY <1>1, <1>7, <1>b DEF LeaveLoops, RunEffect, AtEntry, SameJob, SameLogs, SameRow, SameCounts
<1>8. ASSUME CleanupItem(m) PROVE RunEffect(m)
  <2> DEFINE e == run[m].entry
             partial == run[m].mode = "partial"
             counted == [mem[m] EXCEPT !.total = IF partial THEN @ + 1 ELSE @]
             Failed(i) == Ev(PathOf(e, i), "failed", FALSE)
  <2>1. counted \in Record /\ counted.processed = mem[m].processed
        /\ counted.failed = mem[m].failed
    <3> DEFINE n == IF partial THEN mem[m].total + 1 ELSE mem[m].total
    <3>1. n \in Nat /\ counted = [mem[m] EXCEPT !.total = n]
      BY <1>1 DEF Record
    <3> HIDE DEF n, counted
    <3> QED
      BY <1>1, <3>1 DEF Record
  <2>2. PICK i \in run[m].left :
          \/ /\ partial /\ run' = [run EXCEPT ![m].left = @ \ {i}]
             /\ UNCHANGED <<mem, logs>>
          \/ /\ partial => Selected(m, e, i)
             /\ mem' = [mem EXCEPT ![m] = counted]
             /\ run' = [run EXCEPT ![m].left = @ \ {i}, ![m].batch = @ \cup {i}]
             /\ UNCHANGED logs
          \/ /\ mem' = [mem EXCEPT ![m] = Counted(counted, Failed(i))]
             /\ LogItem(m, PathOf(e, i), "failed")
             /\ run' = [run EXCEPT ![m].pc = "cleanupSave",
                  ![m].left = @ \ {i}, ![m].hasFailure = TRUE]
    BY <1>8 DEF CleanupItem
  <2>3. /\ run[m].pc = "cleanup" /\ UNCHANGED <<stored, row, cancels, ctx, job, chan>>
    BY <1>8 DEF CleanupItem
  <2>4. SameRow(m) /\ SameJob(m)
    BY <2>3 DEF SameRow, SameJob
  <2> HIDE DEF counted
  <2>5. CASE /\ partial /\ run' = [run EXCEPT ![m].left = @ \ {i}]
             /\ UNCHANGED <<mem, logs>>
    <3>1. /\ run'[m].left = run[m].left \ {i} /\ run'[m].entry = e
          /\ run'[m].pc = "cleanup" /\ run'[m].batch = run[m].batch
          /\ run'[m].mode = run[m].mode /\ run'[m].sel = run[m].sel
          /\ run'[m].origin = run[m].origin
      BY <1>1, <2>3, <2>5 DEF RunState
    <3> QED
      BY <2>3, <2>4, <2>5, <3>1 DEF RunEffect, AtCleanup, SameLogs, SameCounts
  <2>6. CASE /\ partial => Selected(m, e, i)
             /\ mem' = [mem EXCEPT ![m] = counted]
             /\ run' = [run EXCEPT ![m].left = @ \ {i}, ![m].batch = @ \cup {i}]
             /\ UNCHANGED logs
    <3>1. /\ run'[m].left = run[m].left \ {i} /\ run'[m].entry = e
          /\ run'[m].pc = "cleanup" /\ run'[m].batch = run[m].batch \cup {i}
          /\ run'[m].mode = run[m].mode /\ run'[m].sel = run[m].sel
          /\ run'[m].origin = run[m].origin
      BY <1>1, <2>3, <2>6 DEF RunState
    <3>2. SameCounts(m)
      BY <1>1, <2>1, <2>6 DEF SameCounts
    <3> QED
      BY <2>3, <2>4, <2>6, <3>1, <3>2 DEF RunEffect, AtCleanup, SameLogs
  <2>7. CASE /\ mem' = [mem EXCEPT ![m] = Counted(counted, Failed(i))]
             /\ LogItem(m, PathOf(e, i), "failed")
             /\ run' = [run EXCEPT ![m].pc = "cleanupSave",
                  ![m].left = @ \ {i}, ![m].hasFailure = TRUE]
    <3>1. /\ run'[m].left = run[m].left \ {i} /\ run'[m].entry = e
          /\ run'[m].pc = "cleanupSave" /\ run'[m].batch = run[m].batch
          /\ run'[m].mode = run[m].mode /\ run'[m].sel = run[m].sel
          /\ run'[m].origin = run[m].origin
      BY <1>1, <2>7 DEF RunState
    <3>2. Failed(i).status = "failed" /\ Failed(i).path = PathOf(e, i)
      BY DEF Ev
    <3> DEFINE failed == Failed(i)
    <3> HIDE DEF Failed, failed
    <3>4. mem'[m] = Counted(counted, failed)
      BY <1>1, <2>7 DEF failed
    <3>5. LogItem(m, failed.path, failed.status)
      BY <2>7, <3>2 DEF failed
    <3>6. PICK w \in BOOLEAN :
            logs' = [logs EXCEPT ![m] = Append(@, LogRow(m, failed.path, failed.status, w))]
      BY <3>5, LogItemAppends
    <3>7. logs'[m] = Append(logs[m], LogRow(m, failed.path, failed.status, w))
      BY <1>1, <3>6
    <3>8. /\ mem'[m].processed = mem[m].processed + 1
          /\ mem'[m].failed = IF failed.status = "failed" THEN mem[m].failed + 1
                              ELSE mem[m].failed
      BY <2>1, <3>4, CountsOne
    <3>3. LogsOne(m, failed)
      BY <3>7, <3>8 DEF LogsOne
    <3> QED
      BY <2>3, <2>4, <3>1, <3>3 DEF RunEffect, AtCleanup, Failed, failed
  <2> QED
    BY <2>2, <2>5, <2>6, <2>7
<1>9. ASSUME CleanupSave(m) PROVE RunEffect(m)
  <2>1. SavesRow(m)
    BY <1>1, <1>9 DEF CleanupSave, Save, Write, SavesRow
  <2> QED
    BY <1>9, <1>b, <2>1 DEF CleanupSave, RunEffect, AtCleanup, SameJob, SameLogs
<1>10. ASSUME CleanupEnd(m) PROVE RunEffect(m)
  BY <1>10, <1>b, <1>c, <1>d DEF CleanupEnd, RunEffect, AtCleanup, SameRow, SameJob,
    SameLogs, SameCounts
<1>11. ASSUME DrainEvent(m) PROVE RunEffect(m)
  <2> DEFINE ev == Head(chan[m].q)
  <2>1. /\ run[m].pc = "drain" /\ chan[m].q # <<>>
        /\ chan' = [chan EXCEPT ![m].q = Tail(@)]
        /\ mem' = [mem EXCEPT ![m] = Counted(@, ev)]
        /\ \E w \in BOOLEAN :
             logs' = [logs EXCEPT ![m] = Append(@, LogRow(m, ev.path, ev.status, w))]
        /\ run' = [run EXCEPT ![m].pc = "drainSave", ![m].hasFailure = FailureSeen(m, ev)]
        /\ UNCHANGED <<stored, row, cancels, ctx, job>>
    BY <1>11, LogItemAppends DEF DrainEvent
  <2>2. LogsOne(m, ev)
    BY <1>1, <2>1, CountsOne DEF LogsOne
  <2>3. chan'[m] = [chan[m] EXCEPT !.q = Tail(chan[m].q)]
    BY <1>1, <2>1
  <2>4. /\ Moves(m, "drainSave") /\ run'[m].mode = run[m].mode
        /\ run'[m].sel = run[m].sel /\ run'[m].origin = run[m].origin
    BY <1>1, <2>1 DEF Moves, RunState
  <2> QED
    BY <2>1, <2>2, <2>3, <2>4 DEF RunEffect, AtDrain, SameRow
<1>12. ASSUME DrainSave(m) PROVE RunEffect(m)
  <2>1. SavesRow(m)
    BY <1>1, <1>12 DEF DrainSave, Save, Write, SavesRow
  <2> QED
    BY <1>12, <1>b, <2>1 DEF DrainSave, RunEffect, AtDrain, SameJob, SameLogs
<1>13. ASSUME DrainEnd(m) PROVE RunEffect(m)
  BY <1>13, <1>c DEF DrainEnd, RunEffect, AtDrain, SameRow, SameJob, SameLogs, SameCounts
<1>14. ASSUME Finish(m) PROVE RunEffect(m)
  <2> DEFINE r == [mem[m] EXCEPT !.status = Verdict(m),
                     !.note = Verdict(m) = "completed" /\ SaysIdentical(m)]
  <2>1. Verdict(m) \in Status
    BY DEF Verdict, Status, Final
  <2>2. SaysIdentical(m) \in BOOLEAN
    BY DEF SaysIdentical
  <2>3. /\ r \in Record /\ r.status = Verdict(m)
        /\ r.processed = mem[m].processed /\ r.failed = mem[m].failed
    BY <1>1, <2>1, <2>2 DEF Record
  <2>4. /\ run[m].pc = "finish" /\ mem' = [mem EXCEPT ![m] = r] /\ Save(m, r)
        /\ Goto(m, "deregister") /\ UNCHANGED <<stored, logs, cancels, ctx, job, chan>>
    BY <1>14 DEF Finish
  <2> HIDE DEF r
  <2>5. mem'[m] = r
    BY <1>1, <2>4
  <2>6. SavesRow(m)
    BY <1>a, <2>3, <2>4
  <2> QED
    BY <1>b, <2>3, <2>4, <2>5, <2>6 DEF RunEffect, AfterEntries, SameJob, SameLogs, SameCounts
<1>15. ASSUME Deregister(m) PROVE RunEffect(m)
  BY <1>1, <1>15, <1>b DEF Deregister, RunEffect, AfterEntries, SameJob, SameLogs, SameRow,
    SameCounts
<1> QED
  BY <1>3, <1>4, <1>5, <1>6, <1>7, <1>8, <1>9, <1>10, <1>11, <1>12, <1>13, <1>14, <1>15
  DEF RunStep

-----------------------------------------------------------------------------
(* What a step of the Migrate* goroutines does to the job and the channel. *)

SameItems(m) ==
  /\ job'[m].todo = job[m].todo /\ job'[m].queued = job[m].queued
  /\ job'[m].busy = job[m].busy
SameResults(m) == job'[m].results = job[m].results
SameQueue(m) == chan'[m].q = chan[m].q
Sends(m, ev) == chan'[m].q = Append(chan[m].q, ev)

\* The goroutine goes on, or ends, without touching an item.
OnlyMoves(m) ==
  LET from == job[m].pc
      to == job'[m].pc
  IN /\ SameItems(m) /\ SameResults(m) /\ SameQueue(m)
     /\ \/ from \in {"resolve", "check"} /\ to = "loop"
        \/ from = "resolve" /\ to = "closed"
        \/ from = "check" /\ to = "closed" /\ ctx[m]
        \/ from = "loop" /\ to = "closed" /\ job[m].todo = {}
        \/ from = "loop" /\ to = "item"
        \/ from = "launch" /\ to = "abandon" /\ ctx[m]
        \/ from = "launch" /\ to = "gather" /\ job[m].todo = {}
        \/ from = "gather" /\ to = "closed" /\ Idle(m) /\ job[m].results = <<>>

\* It ends, reporting the first item left as cancelled.
GivesUp(m) ==
  /\ SameItems(m) /\ SameResults(m)
  /\ Live(m) /\ ctx[m] /\ job'[m].pc = "closed"
  /\ \E i \in job[m].todo : Sends(m, CancelledEvent(m, i))

\* An item ends and is reported.
EndsItem(m) ==
  /\ job[m].pc = "item" /\ job'[m].pc \in {"loop", "check"}
  /\ SameResults(m)
  /\ job'[m].queued = job[m].queued /\ job'[m].busy = job[m].busy
  /\ \E i \in job[m].todo, s \in {"success", "failed"}, b \in BOOLEAN :
       job'[m].todo = job[m].todo \ {i} /\ Sends(m, Ev(ItemPath(m, i), s, b))

\* A bucket goes from hand to hand; its result goes into the channel.
MovesBucket(m) ==
  /\ job'[m].pc = job[m].pc
  /\ \/ /\ SameQueue(m) /\ SameResults(m) /\ job[m].pc = "launch"
        /\ \E i \in job[m].todo : /\ job'[m].todo = job[m].todo \ {i}
                                  /\ job'[m].queued = job[m].queued \cup {i}
                                  /\ job'[m].busy = job[m].busy
     \/ /\ SameQueue(m) /\ SameResults(m) /\ job'[m].todo = job[m].todo
        /\ \E i \in job[m].queued : /\ job'[m].queued = job[m].queued \ {i}
                                    /\ job'[m].busy = job[m].busy \cup {i}
     \/ /\ SameQueue(m) /\ job'[m].todo = job[m].todo /\ job'[m].queued = job[m].queued
        /\ \E i \in job[m].busy, s \in {"success", "failed"}, b \in BOOLEAN :
             /\ job'[m].busy = job[m].busy \ {i}
             /\ job'[m].results = Append(job[m].results, Ev(ItemPath(m, i), s, b))
     \/ /\ SameItems(m) /\ job[m].pc = "gather" /\ job[m].results # <<>>
        /\ Sends(m, Head(job[m].results)) /\ job'[m].results = Tail(job[m].results)

JobEffect(m) ==
  JobUnchanged /\ (OnlyMoves(m) \/ GivesUp(m) \/ EndsItem(m) \/ MovesBucket(m))

\* Every step of a Migrate* goroutine, the end of a transfer included, is one of
\* these, and touches nothing but its job and its channel.
LEMMA JobEffects ==
  ASSUME TypeOK, NEW m \in Migrations, JobCoherent(m), JobStep(m) \/ TransferEnds(m)
  PROVE  JobEffect(m)
<1>1. /\ job[m] \in JobState /\ job \in [Migrations -> JobState]
      /\ chan[m] \in Channel /\ chan \in [Migrations -> Channel]
  BY DEF TypeOK
<1>2. ASSUME NEW l, job' = [job EXCEPT ![m].pc = l]
      PROVE  job'[m].pc = l /\ SameItems(m) /\ SameResults(m)
  BY <1>1, <1>2 DEF JobState, SameItems, SameResults
<1>3. /\ chan' = chan \/ Close(m) => SameQueue(m)
      /\ \A ev : Send(m, ev) \/ SendClose(m, ev) => Sends(m, ev)
  BY <1>1 DEF Close, Send, SendClose, SameQueue, Sends, Channel
<1>4. ASSUME ResolveSource(m) \/ CheckAfterFailure(m) \/ ItemsDone(m)
             \/ AllLaunched(m) \/ BucketsDone(m)
      PROVE  JobEffect(m)
  <2>1. JobUnchanged /\ SameQueue(m)
    BY <1>3, <1>4 DEF ResolveSource, CheckAfterFailure, ItemsDone, AllLaunched, BucketsDone
  <2>2. CASE ResolveSource(m)
    BY <1>2, <2>1, <2>2 DEF ResolveSource, JobEffect, OnlyMoves
  <2>3. CASE CheckAfterFailure(m)
    BY <1>2, <2>1, <2>3 DEF CheckAfterFailure, JobEffect, OnlyMoves
  <2>4. CASE ItemsDone(m) \/ AllLaunched(m) \/ BucketsDone(m)
    BY <1>2, <2>1, <2>4 DEF ItemsDone, AllLaunched, BucketsDone, JobEffect, OnlyMoves
  <2> QED
    BY <1>4, <2>2, <2>3, <2>4
<1>5. ASSUME NextItem(m) PROVE JobEffect(m)
  BY <1>2, <1>3, <1>5 DEF NextItem, JobEffect, OnlyMoves, GivesUp, Live, JobOver
<1>6. ASSUME Abandon(m) PROVE JobEffect(m)
  BY <1>2, <1>3, <1>6 DEF Abandon, JobCoherent, JobEffect, GivesUp, Live, JobOver
<1>7. ASSUME ItemEnds(m) PROVE JobEffect(m)
  <2>1. PICK i \in job[m].todo, ok \in BOOLEAN, moved \in BOOLEAN :
          /\ Send(m, Ev(ItemPath(m, i), IF ok THEN "success" ELSE "failed", moved))
          /\ job' = [job EXCEPT ![m].todo = @ \ {i},
                ![m].pc = IF Kind(m) = "db" /\ ~ok THEN "check" ELSE "loop"]
    BY <1>7, AmountAssumption DEF ItemEnds
  <2> DEFINE l == IF Kind(m) = "db" /\ ~ok THEN "check" ELSE "loop"
             s == IF ok THEN "success" ELSE "failed"
  <2>2. l \in {"loop", "check"} /\ s \in {"success", "failed"}
    OBVIOUS
  <2>3. Sends(m, Ev(ItemPath(m, i), s, moved)) /\ job[m].pc = "item" /\ JobUnchanged
    BY <1>3, <1>7, <2>1 DEF ItemEnds
  <2>4. job' = [job EXCEPT ![m] = [job[m] EXCEPT !.todo = @ \ {i}, !.pc = l]]
    BY <1>1, <2>1
  <2> HIDE DEF l, s
  <2>5. /\ job'[m].pc = l /\ job'[m].todo = job[m].todo \ {i} /\ SameResults(m)
        /\ job'[m].queued = job[m].queued /\ job'[m].busy = job[m].busy
    BY <1>1, <2>4 DEF JobState, SameResults
  <2> QED
    BY <2>2, <2>3, <2>5 DEF JobEffect, EndsItem
<1>8. ASSUME LaunchBucket(m) PROVE JobEffect(m)
  <2>1. PICK i \in job[m].todo :
          \/ ctx[m] /\ job' = [job EXCEPT ![m].pc = "abandon"]
          \/ job' = [job EXCEPT ![m] = [job[m] EXCEPT !.todo = @ \ {i},
                                                      !.queued = @ \cup {i}]]
    BY <1>1, <1>8 DEF LaunchBucket
  <2>2. JobUnchanged /\ SameQueue(m) /\ job[m].pc = "launch"
    BY <1>3, <1>8 DEF LaunchBucket
  <2>3. CASE ctx[m] /\ job' = [job EXCEPT ![m].pc = "abandon"]
    BY <1>2, <2>2, <2>3 DEF JobEffect, OnlyMoves
  <2>4. CASE job' = [job EXCEPT ![m] = [job[m] EXCEPT !.todo = @ \ {i}, !.queued = @ \cup {i}]]
    BY <1>1, <2>2, <2>4 DEF JobState, JobEffect, MovesBucket, SameResults
  <2> QED
    BY <2>1, <2>3, <2>4
<1>9. ASSUME NEW b \in job[m].queued, BucketStarts(m, b) PROVE JobEffect(m)
  <2>1. job' = [job EXCEPT ![m] = [job[m] EXCEPT !.queued = @ \ {b}, !.busy = @ \cup {b}]]
    BY <1>1, <1>9 DEF BucketStarts
  <2> QED
    BY <1>1, <1>3, <1>9, <2>1 DEF BucketStarts, JobState, JobEffect, MovesBucket, SameResults
<1>10. ASSUME NEW b \in job[m].busy, BucketEnds(m, b) PROVE JobEffect(m)
  <2>1. PICK ok \in BOOLEAN, moved \in BOOLEAN :
          job' = [job EXCEPT ![m].busy = @ \ {b}, ![m].results = Append(@,
                    Ev(ItemPath(m, b), IF ok THEN "success" ELSE "failed", moved))]
    BY <1>10, AmountAssumption DEF BucketEnds
  <2> DEFINE s == IF ok THEN "success" ELSE "failed"
  <2>2. s \in {"success", "failed"}
    OBVIOUS
  <2>3. job' = [job EXCEPT ![m] = [job[m] EXCEPT !.busy = @ \ {b},
                   !.results = Append(@, Ev(ItemPath(m, b), s, moved))]]
    BY <1>1, <2>1
  <2> HIDE DEF s
  <2>4. /\ job'[m].pc = job[m].pc /\ job'[m].todo = job[m].todo
        /\ job'[m].queued = job[m].queued /\ job'[m].busy = job[m].busy \ {b}
        /\ job'[m].results = Append(job[m].results, Ev(ItemPath(m, b), s, moved))
    BY <1>1, <2>3 DEF JobState
  <2>5. JobUnchanged /\ SameQueue(m)
    BY <1>3, <1>10 DEF BucketEnds
  <2> QED
    BY <2>2, <2>4, <2>5 DEF JobEffect, MovesBucket
<1>11. ASSUME ReportBucket(m) PROVE JobEffect(m)
  <2>1. job' = [job EXCEPT ![m] = [job[m] EXCEPT !.results = Tail(@)]]
    BY <1>1, <1>11 DEF ReportBucket
  <2>2. job'[m].pc = job[m].pc /\ SameItems(m) /\ job'[m].results = Tail(job[m].results)
    BY <1>1, <2>1 DEF JobState, SameItems
  <2> QED
    BY <1>3, <1>11, <2>2 DEF ReportBucket, JobEffect, MovesBucket
<1> QED
  BY <1>4, <1>5, <1>6, <1>7, <1>8, <1>9, <1>10, <1>11 DEF JobStep, TransferEnds

-----------------------------------------------------------------------------
(* What the HTTP handlers and a restart do, and every step at once.        *)

AskedAgain(m) ==
  \/ /\ run'[m].mode = run[m].mode /\ run'[m].sel = run[m].sel
     /\ run'[m].origin = run[m].origin /\ run'[m].entry = run[m].entry
  \/ /\ run'[m].entry = 1
     /\ run'[m].mode = "partial" =>
          \E o \in Migrations : run'[m].origin = {o} /\ run'[m].sel = FailedItems(o)

RequestEffect(m) ==
  /\ SameJob(m) /\ SameLogs(m) /\ mem'[m] = mem[m]
  /\ ctx[m] => ctx'[m]
  /\ \/ run'[m] = run[m] /\ SameRow(m) /\ (m \in stored' => m \in stored)
     \/ /\ run[m].pc = "none" /\ run'[m].pc = "launched"
        /\ row'[m] = NewRecord /\ AskedAgain(m)

\* Each handler either starts a migration, on a new row, or leaves its run alone.
LEMMA RequestEffects ==
  ASSUME TypeOK, NEW m \in Migrations, Request(m)
  PROVE  RequestEffect(m)
<1>1. /\ run[m] \in RunState /\ run \in [Migrations -> RunState]
      /\ row \in [Migrations -> Record] /\ ctx \in [Migrations -> BOOLEAN]
  BY DEF TypeOK
<1>2. ASSUME CreateMigration(m) PROVE RequestEffect(m)
  <2>1. /\ run'[m].pc = "launched" /\ run'[m].entry = run[m].entry
        /\ run'[m].mode = run[m].mode /\ run'[m].sel = run[m].sel
        /\ run'[m].origin = run[m].origin
    BY <1>1, <1>2 DEF CreateMigration, Goto, RunState
  <2> QED
    BY <1>1, <1>2, <2>1 DEF CreateMigration, RequestEffect, AskedAgain, SameJob, SameLogs
<1>3. ASSUME NEW o \in Migrations, NEW mode \in {"partial", "full"}, Retry(o, m, mode)
      PROVE  RequestEffect(m)
  <2> DEFINE sel == IF mode = "partial" THEN FailedItems(o) ELSE {}
  <2>1. run'[m] = [NewRun EXCEPT !.pc = "launched", !.mode = mode, !.origin = {o},
                                 !.sel = sel]
    BY <1>1, <1>3 DEF Retry
  <2> HIDE DEF sel
  <2>2. /\ run'[m].pc = "launched" /\ run'[m].mode = mode /\ run'[m].origin = {o}
        /\ run'[m].sel = sel /\ run'[m].entry = 1
    BY <2>1 DEF NewRun
  <2>3. mode = "partial" => sel = FailedItems(o)
    BY DEF sel
  <2> QED
    BY <1>1, <1>3, <2>2, <2>3 DEF Retry, RequestEffect, AskedAgain, SameJob, SameLogs
<1>4. ASSUME Cancel(m) \/ DeleteCheck(m) \/ DeleteRow(m) PROVE RequestEffect(m)
  BY <1>1, <1>4 DEF Cancel, DeleteCheck, DeleteRow, RequestEffect, SameJob, SameLogs, SameRow
<1> QED
  BY <1>2, <1>3, <1>4 DEF Request

CrashEffect(m) ==
  /\ job'[m].pc = "none" /\ job'[m].results = <<>> /\ chan'[m].q = <<>>
  /\ SameLogs(m) /\ SameRow(m) /\ (m \in stored' <=> m \in stored)
  /\ \/ run[m].pc = "none" /\ run'[m].pc = "none" /\ run'[m].entry = 1 /\ run'[m].mode # "partial"
     \/ /\ run'[m].pc = "ended" /\ run'[m].mode = run[m].mode
        /\ run'[m].sel = run[m].sel /\ run'[m].origin = run[m].origin
        /\ run'[m].entry = run[m].entry

NextEffect(m) == Same(m) \/ RunEffect(m) \/ JobEffect(m) \/ RequestEffect(m)
StepEffect(m) == NextEffect(m) \/ CrashEffect(m)

\* To every migration a step does one of these things.
LEMMA StepEffects ==
  ASSUME IInv, [Next \/ Restart]_vars, NEW n \in Migrations
  PROVE  StepEffect(n) /\ ([Next]_vars => NextEffect(n))
<1> USE DEF StepEffect, NextEffect
<1>1. TypeOK /\ JobCoherent(n)
  BY DEF IInv, Coherent
<1>2. ASSUME Next PROVE NextEffect(n)
  <2>1. PICK m \in Migrations : RunStep(m) \/ JobStep(m) \/ TransferEnds(m) \/ Request(m)
    BY <1>2 DEF Next
  <2>2. CASE n = m
    BY <1>1, <2>1, <2>2, RunEffects, JobEffects, RequestEffects
  <2>3. CASE n # m
    BY <1>1, <2>1, <2>3, OnlyItsOwn
  <2> QED
    BY <2>2, <2>3
<1>3. ASSUME Restart PROVE CrashEffect(n)
  <2>1. run[n] \in RunState
    BY <1>1 DEF TypeOK
  <2>2. CASE run[n].pc = "none"
    <3>1. run'[n].pc = "none" /\ run'[n].entry = 1 /\ run'[n].mode # "partial"
      BY <1>3, <2>2 DEF Restart, NewRun
    <3> QED
      BY <1>3, <2>2, <3>1 DEF Restart, database, CrashEffect, SameLogs, SameRow, NewJob,
        NewChan
  <2>3. CASE run[n].pc # "none"
    <3>1. /\ run'[n].pc = "ended" /\ run'[n].mode = run[n].mode
          /\ run'[n].sel = run[n].sel /\ run'[n].origin = run[n].origin
          /\ run'[n].entry = run[n].entry
      BY <1>3, <2>1, <2>3 DEF Restart, RunState
    <3> QED
      BY <1>3, <3>1 DEF Restart, database, CrashEffect, SameLogs, SameRow, NewJob,
        NewChan
  <2> QED
    BY <2>2, <2>3
<1>4. ASSUME UNCHANGED vars PROVE NextEffect(n)
  BY <1>4 DEF vars, Same
<1> QED
  BY <1>2, <1>3, <1>4

-----------------------------------------------------------------------------
(* Counting.                                                               *)

\* How many elements of a sequence are in T.
Tally(s, T) == Cardinality({k \in DOMAIN s : s[k] \in T})

\* Appending counts one more when the new element is in T.
LEMMA TallyAppend ==
  ASSUME NEW S, NEW s \in Seq(S), NEW x \in S, NEW T
  PROVE  /\ Tally(s, T) \in Nat /\ Tally(s, T) <= Len(s)
         /\ Tally(Append(s, x), T) = IF x \in T THEN Tally(s, T) + 1 ELSE Tally(s, T)
<1> DEFINE n == Len(s)
           old == {k \in DOMAIN s : s[k] \in T}
           new == {k \in DOMAIN Append(s, x) : Append(s, x)[k] \in T}
<1>1. n \in Nat /\ DOMAIN s = 1..n
  BY LenProperties
<1>2. /\ DOMAIN Append(s, x) = 1..(n + 1) /\ Append(s, x)[n + 1] = x
      /\ \A k \in 1..n : Append(s, x)[k] = s[k]
  <2>1. /\ Append(s, x) \in Seq(S) /\ Len(Append(s, x)) = n + 1
        /\ Append(s, x)[n + 1] = x /\ \A k \in 1..n : Append(s, x)[k] = s[k]
    BY AppendProperties
  <2> QED
    BY <2>1, LenProperties
<1>3. IsFiniteSet(1..n) /\ Cardinality(1..n) = n
  BY <1>1, FS_Interval
<1>4. old \in SUBSET (1..n)
  BY <1>1
<1>5. IsFiniteSet(old) /\ Cardinality(old) \in Nat /\ Cardinality(old) <= n
  BY <1>3, <1>4, FS_Subset, FS_CardinalityType
<1>6. new = IF x \in T THEN old \cup {n + 1} ELSE old
  BY <1>1, <1>2
<1> HIDE DEF n, old
<1>7. Cardinality(old \cup {n + 1}) = Cardinality(old) + 1
  <2>1. n + 1 \notin old
    BY <1>1, <1>4
  <2> QED
    BY <1>5, <2>1, FS_AddElement
<1> USE DEF n, old
<1> QED
  BY <1>5, <1>6, <1>7 DEF Tally

Failures == {x \in Log : x.status = "failed"}

\* The failed log rows of a migration are counted one by one.
LEMMA CountFacts ==
  ASSUME TypeOK, NEW m \in Migrations
  PROVE  /\ Len(logs[m]) \in Nat /\ Count(m, {"failed"}) \in Nat
         /\ logs[m] = <<>> => Len(logs[m]) = 0 /\ Count(m, {"failed"}) = 0
         /\ SameLogs(m) => Count(m, {"failed"})' = Count(m, {"failed"})
         /\ \A x \in Log : logs'[m] = Append(logs[m], x) =>
              /\ Len(logs'[m]) = Len(logs[m]) + 1
              /\ Count(m, {"failed"})' =
                   IF x.status = "failed" THEN Count(m, {"failed"}) + 1
                   ELSE Count(m, {"failed"})
<1>1. logs[m] \in Seq(Log) /\ Len(logs[m]) \in Nat
  BY LenProperties DEF TypeOK
<1>2. \A s \in Seq(Log) : {k \in DOMAIN s : s[k].status \in {"failed"}}
                            = {k \in DOMAIN s : s[k] \in Failures}
  BY LenProperties, ElementOfSeq DEF Failures
<1>3. Count(m, {"failed"}) = Tally(logs[m], Failures)
  BY <1>1, <1>2 DEF Count, Tally
<1>4. Tally(logs[m], Failures) \in Nat /\ Tally(logs[m], Failures) <= Len(logs[m])
  <2>1. CASE logs[m] = <<>>
    BY <2>1, FS_EmptySet, EmptySeq DEF Tally
  <2>2. CASE logs[m] # <<>>
    BY <1>1, <2>2, TailFacts, TallyAppend
  <2> QED
    BY <2>1, <2>2
<1>5. logs[m] = <<>> => Len(logs[m]) = 0 /\ Count(m, {"failed"}) = 0
  BY <1>1, <1>3, <1>4, EmptySeq
<1>6. SameLogs(m) => Count(m, {"failed"})' = Count(m, {"failed"})
  BY DEF SameLogs, Count
<1>7. ASSUME NEW x \in Log, logs'[m] = Append(logs[m], x)
      PROVE  /\ Len(logs'[m]) = Len(logs[m]) + 1
             /\ Count(m, {"failed"})' = IF x.status = "failed" THEN Count(m, {"failed"}) + 1
                                        ELSE Count(m, {"failed"})
  <2>1. Append(logs[m], x) \in Seq(Log) /\ Len(Append(logs[m], x)) = Len(logs[m]) + 1
    BY <1>1, AppendFacts
  <2>2. Count(m, {"failed"})' = Tally(Append(logs[m], x), Failures)
    BY <1>2, <1>7, <2>1 DEF Count, Tally
  <2>3. x \in Failures <=> x.status = "failed"
    BY DEF Failures
  <2> QED
    BY <1>1, <1>3, <1>7, <2>1, <2>2, <2>3, TallyAppend
<1> QED
  BY <1>1, <1>3, <1>4, <1>5, <1>6, <1>7

\* A row appended to the log is a log row.
LEMMA LoggedIsLog ==
  ASSUME TypeOK, TypeOK', NEW m \in Migrations, NEW x, logs'[m] = Append(logs[m], x)
  PROVE  x \in Log
<1>1. logs[m] \in Seq(Log) /\ Append(logs[m], x) \in Seq(Log)
  BY DEF TypeOK
<1>2. Len(logs[m]) \in Nat /\ \A k \in 1..Len(logs[m]) : logs[m][k] \in Log \cup {x}
  BY <1>1, LenProperties, ElementOfSeq
<1>3. logs[m] \in Seq(Log \cup {x})
  BY <1>1, <1>2, LenProperties
<1>4. /\ Append(logs[m], x)[Len(logs[m]) + 1] = x
      /\ Len(Append(logs[m], x)) = Len(logs[m]) + 1
  BY <1>3, AppendProperties
<1> QED
  BY <1>1, <1>2, <1>4, LenProperties, ElementOfSeq

-----------------------------------------------------------------------------
(* The counters.                                                           *)

\* Every step keeps a migration's counters in step with its log.
LEMMA CountersStay ==
  ASSUME IInv, IInv', NEW m \in Migrations, StepEffect(m),
         CountersCoherent(m)
  PROVE  CountersCoherent(m)'
<1> DEFINE n == Len(logs[m])
           f == Count(m, {"failed"})
<1>1. /\ TypeOK /\ TypeOK' /\ RowCoherent(m)
      /\ run[m].pc \in Starting => logs[m] = <<>>
  BY DEF IInv, Coherent, VerdictCoherent
<1>2. n \in Nat /\ f \in Nat /\ (logs[m] = <<>> => n = 0 /\ f = 0)
  BY <1>1, CountFacts
<1>3. SameLogs(m) => Len(logs'[m]) = n /\ f' = f
  BY <1>1, CountFacts DEF SameLogs
<1>4. \A ev : LogsOne(m, ev) =>
        /\ Len(logs'[m]) = n + 1
        /\ f' = IF ev.status = "failed" THEN f + 1 ELSE f
  <2> SUFFICES ASSUME NEW ev, LogsOne(m, ev)
               PROVE  /\ Len(logs'[m]) = n + 1
                      /\ f' = IF ev.status = "failed" THEN f + 1 ELSE f
    OBVIOUS
  <2>0. PICK w \in BOOLEAN : logs'[m] = Append(logs[m], LogRow(m, ev.path, ev.status, w))
    BY DEF LogsOne
  <2> DEFINE x == LogRow(m, ev.path, ev.status, w)
  <2>1. logs'[m] = Append(logs[m], x) /\ x.status = ev.status
    BY <2>0 DEF LogRow
  <2> HIDE DEF x
  <2>2. x \in Log
    BY <1>1, <2>1, LoggedIsLog
  <2> QED
    BY <1>1, <2>1, <2>2, CountFacts
<1>5. /\ row[m].processed \in Nat /\ row[m].failed \in Nat
      /\ mem[m].processed \in Nat /\ mem[m].failed \in Nat
  BY <1>1 DEF TypeOK, Record
<1> HIDE DEF n, f
<1>6. /\ run[m].pc \in Starting => row[m].processed = 0 /\ row[m].failed = 0
      /\ run[m].pc = "loaded" => mem[m].processed = 0 /\ mem[m].failed = 0
      /\ run[m].pc \in Active => mem[m].processed = n /\ mem[m].failed = f
      /\ row[m].status \in Final => n = row[m].processed /\ f = row[m].failed
      /\ ~DBFaults /\ m \in stored =>
           /\ run[m].pc \in {"entry", "cleanup", "drain", "finish", "deregister"} =>
                row[m].processed = n /\ row[m].failed = f
           /\ n \in {row[m].processed, row[m].processed + 1}
           /\ f \in {row[m].failed, row[m].failed + 1}
  BY DEF CountersCoherent, n, f
<1>7. SUFFICES
        /\ run'[m].pc \in Starting => row'[m].processed = 0 /\ row'[m].failed = 0
        /\ run'[m].pc = "loaded" => mem'[m].processed = 0 /\ mem'[m].failed = 0
        /\ run'[m].pc \in Active => mem'[m].processed = Len(logs'[m]) /\ mem'[m].failed = f'
        /\ row'[m].status \in Final => Len(logs'[m]) = row'[m].processed /\ f' = row'[m].failed
        /\ ~DBFaults /\ m \in stored' =>
             /\ run'[m].pc \in {"entry", "cleanup", "drain", "finish", "deregister"} =>
                  row'[m].processed = Len(logs'[m]) /\ row'[m].failed = f'
             /\ Len(logs'[m]) \in {row'[m].processed, row'[m].processed + 1}
             /\ f' \in {row'[m].failed, row'[m].failed + 1}
  BY DEF CountersCoherent, f
<1> USE DEF Starting, Active, Cleaning, Draining, Over, Moves, Ahead, Starts, SameCounts,
      SavesRow, SameRow
<1>8. CASE Same(m)
  BY <1>3, <1>6, <1>8 DEF Same, SameLogs
<1>9. CASE RunEffect(m)
  <2>1. stored' = stored
    BY <1>9 DEF RunEffect
  <2>2. CASE BeforeEntries(m)
    BY <1>1, <1>2, <1>3, <1>6, <2>1, <2>2 DEF BeforeEntries, RowCoherent
  <2>3. CASE AtEntry(m)
    BY <1>3, <1>6, <2>1, <2>3 DEF AtEntry
  <2>4. CASE AtCleanup(m)
    BY <1>1, <1>3, <1>4, <1>5, <1>6, <2>1, <2>4, ZenonT(60) DEF AtCleanup, RowCoherent, LogsOne, Ev
  <2>5. CASE AtDrain(m)
    BY <1>1, <1>3, <1>4, <1>5, <1>6, <2>1, <2>5, ZenonT(60) DEF AtDrain, RowCoherent, LogsOne
  <2>6. CASE AfterEntries(m)
    BY <1>3, <1>6, <2>1, <2>6 DEF AfterEntries
  <2> QED
    BY <1>9, <2>2, <2>3, <2>4, <2>5, <2>6 DEF RunEffect
<1>10. CASE JobEffect(m)
  BY <1>3, <1>6, <1>10 DEF JobEffect, JobUnchanged, SameLogs
<1>11. CASE RequestEffect(m)
  BY <1>1, <1>2, <1>3, <1>6, <1>11 DEF RequestEffect, NewRecord, RowCoherent, Final
<1>12. CASE CrashEffect(m)
  BY <1>3, <1>6, <1>12 DEF CrashEffect
<1> QED
  BY <1>8, <1>9, <1>10, <1>11, <1>12 DEF StepEffect, NextEffect

\* The counters and the log keep in step in every reachable state.
LEMMA AlwaysCounted == CrashSpec => [](\A m \in Migrations : CountersCoherent(m))
<1> DEFINE Inv == \A m \in Migrations : CountersCoherent(m)
<1>1. Init => Inv
  <2> SUFFICES ASSUME Init, NEW m \in Migrations PROVE CountersCoherent(m)
    OBVIOUS
  <2>1. /\ run[m].pc = "none" /\ row[m].processed = 0 /\ row[m].failed = 0 /\ m \notin stored
        /\ row[m].status = "pending"
    BY DEF Init, NewRun, NewRecord
  <2> QED
    BY <2>1 DEF CountersCoherent, Active, Cleaning, Draining, Final
<1>2. IInv /\ IInv' /\ Inv /\ [Next \/ Restart]_vars => Inv'
  BY StepEffects, CountersStay
<1> QED
  BY <1>1, <1>2, Invariance, PTL DEF CrashSpec

\* Whatever the plan, across crashes and whatever rows the database refuses: a
\* final row counts every item logged, and as long as updates do not fail an
\* item is logged just before the row counts it.
THEOREM CountersTellTheLogs == CrashSpec => []CountersMatchLogs
<1>1. IInv /\ (\A m \in Migrations : CountersCoherent(m)) => CountersMatchLogs
  BY DEF IInv, TypeOK, CountersCoherent, CountersMatchLogs
<1> QED
  BY <1>1, Invariance, AlwaysCounted, PTL

\* The final status of a run, its counters and its log never disagree, though
\* log rows may be refused.
THEOREM VerdictIsTrue == CrashSpec => []VerdictMatchesLogs
<1>1. IInv /\ (\A m \in Migrations : CountersCoherent(m)) => VerdictMatchesLogs
  <2> SUFFICES ASSUME IInv, \A n \in Migrations : CountersCoherent(n), NEW m \in stored
               PROVE  /\ row[m].status = "completed" =>
                           /\ \A k \in DOMAIN logs[m] : logs[m][k].status = "success"
                           /\ row[m].failed = 0
                      /\ row[m].status = "failed" =>
                           /\ \E k \in DOMAIN logs[m] : logs[m][k].status = "failed"
                           /\ row[m].failed > 0
    BY DEF VerdictMatchesLogs
  <2>1. m \in Migrations /\ TypeOK /\ VerdictCoherent(m) /\ CountersCoherent(m)
    BY DEF IInv, TypeOK, Coherent
  <2> DEFINE failures == {k \in DOMAIN logs[m] : logs[m][k].status \in {"failed"}}
  <2>2. IsFiniteSet(failures)
    <3>1. Len(logs[m]) \in Nat /\ DOMAIN logs[m] = 1..Len(logs[m])
      BY <2>1, LenProperties DEF TypeOK
    <3>2. IsFiniteSet(DOMAIN logs[m])
      BY <3>1, FS_Interval
    <3> QED
      BY <3>2, FS_Subset
  <2>3. Cardinality(failures) \in Nat /\ (Cardinality(failures) = 0 <=> failures = {})
    BY <2>2, FS_CardinalityType, FS_EmptySet
  <2>4. row[m].status \in Final => row[m].failed = Cardinality(failures)
    BY <2>1 DEF CountersCoherent, Count
  <2>5. row[m].status = "completed" => \A k \in DOMAIN logs[m] : logs[m][k].status = "success"
    BY <2>1 DEF VerdictCoherent
  <2>6. row[m].status = "failed" => \E k \in DOMAIN logs[m] : logs[m][k].status = "failed"
    BY <2>1 DEF VerdictCoherent
  <2>7. row[m].status = "completed" => failures = {}
    BY <2>5
  <2>8. row[m].status = "failed" => failures # {}
    BY <2>6
  <2> HIDE DEF failures
  <2> QED
    BY <2>3, <2>4, <2>5, <2>6, <2>7, <2>8 DEF Final
<1> QED
  BY <1>1, Invariance, AlwaysCounted, PTL

\* As long as row updates do not fail and the process lives, a migration shown as
\* running can be cancelled: its goroutine is registered in Executor.cancels.
THEOREM RunningReachable ==
  ASSUME DBFaults = FALSE
  PROVE  Spec => []RunningIsCancellable
<1> DEFINE Inv == \A m \in Migrations : VerdictSaved(m)
<1>1. Init => Inv
  BY DEF Init, NewRun, VerdictSaved, Over
<1>2. IInv /\ IInv' /\ Inv /\ [Next]_vars => Inv'
  <2> SUFFICES ASSUME IInv, IInv', Inv, [Next]_vars, NEW m \in Migrations
               PROVE  VerdictSaved(m)'
    OBVIOUS
  <2>1. VerdictSaved(m) /\ RowCoherent(m) /\ TypeOK
    BY DEF IInv, Coherent
  <2>2. CASE Same(m)
    BY <2>1, <2>2 DEF Same, VerdictSaved
  <2>3. CASE RunEffect(m)
    <3>1. stored' = stored
      BY <2>3 DEF RunEffect
    <3>2. Verdict(m) # "running"
      BY DEF Verdict
    <3>3. CASE BeforeEntries(m)
      BY <2>1, <3>1, <3>3 DEF BeforeEntries, VerdictSaved, Over, Moves
    <3>4. CASE AtEntry(m)
      BY <3>4 DEF AtEntry, VerdictSaved, Over, Moves, Ahead, Starts
    <3>5. CASE AtCleanup(m)
      BY <3>5 DEF AtCleanup, VerdictSaved, Over, Moves, Ahead, Starts
    <3>6. CASE AtDrain(m)
      BY <3>6 DEF AtDrain, VerdictSaved, Over, Moves, Ahead
    <3>7. CASE AfterEntries(m)
      BY <2>1, <3>1, <3>2, <3>7 DEF AfterEntries, VerdictSaved, Over, Moves, SavesRow, SameRow
    <3> QED
      BY <2>3, <3>3, <3>4, <3>5, <3>6, <3>7 DEF RunEffect
  <2>4. CASE JobEffect(m)
    BY <2>1, <2>4 DEF JobEffect, JobUnchanged, VerdictSaved
  <2>5. CASE RequestEffect(m)
    BY <2>1, <2>5 DEF RequestEffect, SameRow, VerdictSaved, Over
  <2> QED
    BY <2>2, <2>3, <2>4, <2>5, StepEffects DEF NextEffect
<1>3. IInv /\ Inv => RunningIsCancellable
  <2> SUFFICES ASSUME IInv, Inv, NEW m \in stored, row[m].status = "running"
               PROVE  m \in cancels
    BY DEF RunningIsCancellable
  <2>1. m \in Migrations /\ RowCoherent(m) /\ VerdictSaved(m) /\ run[m].pc \in RunPc
    BY DEF IInv, TypeOK, Coherent, RunState
  <2> QED
    BY <2>1 DEF RowCoherent, VerdictSaved, Starting, Over, RunPc
<1>4. [Next]_vars => [Next \/ Restart]_vars
  OBVIOUS
<1> QED
  BY <1>1, <1>2, <1>3, <1>4, Invariance, PTL DEF Spec, CrashSpec

-----------------------------------------------------------------------------
(* The order of the log, and the items of the entry in progress.           *)

\* What one more log row changes.
LEMMA LoggedOne ==
  ASSUME TypeOK, TypeOK', NEW m \in Migrations, NEW ev, LogsOne(m, ev)
  PROVE  /\ DOMAIN logs[m] \subseteq DOMAIN logs'[m]
         /\ \A k \in DOMAIN logs[m] : logs'[m][k] = logs[m][k]
         /\ \E n : /\ DOMAIN logs'[m] = DOMAIN logs[m] \cup {n} /\ n \notin DOMAIN logs[m]
                   /\ logs'[m][n].entry = run[m].entry /\ logs'[m][n].path = ev.path
                   /\ logs'[m][n].status = ev.status
<1>0. PICK w \in BOOLEAN : logs'[m] = Append(logs[m], LogRow(m, ev.path, ev.status, w))
  BY DEF LogsOne
<1> DEFINE x == LogRow(m, ev.path, ev.status, w)
           n == Len(logs[m]) + 1
<1>1. logs[m] \in Seq(Log) /\ logs'[m] = Append(logs[m], x)
  BY <1>0 DEF TypeOK
<1>2. x.entry = run[m].entry /\ x.path = ev.path /\ x.status = ev.status
  BY DEF LogRow
<1> HIDE DEF x
<1>3. x \in Log
  BY <1>1, LoggedIsLog
<1>4. Len(logs[m]) \in Nat /\ DOMAIN logs[m] = 1..Len(logs[m])
  BY <1>1, LenProperties
<1>5. /\ logs'[m] \in Seq(Log) /\ Len(logs'[m]) = n
      /\ logs'[m][n] = x /\ \A k \in 1..Len(logs[m]) : logs'[m][k] = logs[m][k]
  BY <1>1, <1>3, AppendProperties
<1>6. DOMAIN logs'[m] = 1..n
  BY <1>5, LenProperties
<1>7. DOMAIN logs'[m] = DOMAIN logs[m] \cup {n} /\ n \notin DOMAIN logs[m]
  BY <1>4, <1>6
<1> QED
  BY <1>4, <1>5, <1>7, <1>2

\* A log row belongs to an entry of the plan.
LEMMA LogsAreLogs ==
  ASSUME TypeOK, NEW m \in Migrations
  PROVE  /\ logs[m] \in Seq(Log) /\ run[m].entry \in Nat \ {0}
         /\ \A k \in DOMAIN logs[m] : logs[m][k] \in Log /\ logs[m][k].entry \in Entries
         /\ \A e \in Entries : e \in Nat \ {0}
<1>1. logs[m] \in Seq(Log) /\ run[m] \in RunState
  BY DEF TypeOK
<1>2. \A k \in DOMAIN logs[m] : logs[m][k] \in Log
  BY <1>1, LenProperties, ElementOfSeq
<1>3. Len(Plan) \in Nat
  BY PlanAssumption
<1> QED
  BY <1>1, <1>2, <1>3 DEF Log, RunState, Entries

\* Entries are taken up in ascending order, and logged while they are at hand.
LEMMA LogsStayInOrder ==
  ASSUME IInv, IInv', NEW m \in Migrations, StepEffect(m), LogsInOrder(m)
  PROVE  LogsInOrder(m)'
<1>1. /\ TypeOK /\ TypeOK'
      /\ run[m].pc \in Starting => logs[m] = <<>>
  BY DEF IInv, Coherent, VerdictCoherent
<1>2. /\ run[m].entry \in Nat \ {0}
      /\ \A k \in DOMAIN logs[m] : logs[m][k].entry \in Nat
  BY <1>1, LogsAreLogs
<1> USE DEF Starting, Active, Cleaning, Draining, Moves, Ahead, Starts, SameLogs
<1>3. CASE Same(m)
  BY <1>3 DEF Same, LogsInOrder
<1>4. CASE RunEffect(m)
  <2>1. CASE BeforeEntries(m)
    BY <1>1, <2>1, EmptySeq DEF BeforeEntries, LogsInOrder
  <2>2. CASE AtEntry(m)
    BY <1>2, <2>2 DEF AtEntry, LogsInOrder
  <2>3. ASSUME NEW ev, LogsOne(m, ev), run'[m].entry = run[m].entry,
               run[m].pc \in Active, run'[m].pc \in {"cleanupSave", "drainSave"}
        PROVE  LogsInOrder(m)'
    <3>1. PICK n : /\ DOMAIN logs'[m] = DOMAIN logs[m] \cup {n}
                   /\ logs'[m][n].entry = run[m].entry
                   /\ \A k \in DOMAIN logs[m] : logs'[m][k] = logs[m][k]
      BY <1>1, <2>3, LoggedOne
    <3> QED
      BY <1>2, <2>3, <3>1 DEF LogsInOrder
  <2>4. CASE AtCleanup(m)
    <3>1. CASE /\ run[m].pc = "cleanup" /\ run'[m].pc = "cleanupSave"
               /\ run'[m].entry = run[m].entry
               /\ \E i \in run[m].left : LogsOne(m, Ev(PathOf(run[m].entry, i), "failed", FALSE))
      BY <2>3, <3>1
    <3>2. CASE SameLogs(m)
      <4>1. \/ run[m].pc \in Cleaning /\ run'[m].entry = run[m].entry /\ run'[m].pc \notin Starting
               /\ run'[m].pc # "entry"
            \/ run[m].pc \in Cleaning /\ Ahead(m)
        BY <2>4 DEF AtCleanup
      <4> QED
        BY <1>2, <3>2, <4>1 DEF LogsInOrder
    <3> QED
      BY <2>4, <3>1, <3>2 DEF AtCleanup
  <2>5. CASE AtDrain(m)
    <3>1. CASE SameLogs(m)
      BY <1>2, <2>5, <3>1 DEF AtDrain, LogsInOrder
    <3> QED
      BY <2>3, <2>5, <3>1 DEF AtDrain
  <2>6. CASE AfterEntries(m)
    BY <2>6 DEF AfterEntries, LogsInOrder
  <2> QED
    BY <1>4, <2>1, <2>2, <2>4, <2>5, <2>6 DEF RunEffect
<1>5. CASE JobEffect(m)
  BY <1>5 DEF JobEffect, JobUnchanged, LogsInOrder
<1>6. CASE RequestEffect(m)
  BY <1>6 DEF RequestEffect, AskedAgain, LogsInOrder
<1>7. CASE CrashEffect(m)
  BY <1>7 DEF CrashEffect, LogsInOrder
<1> QED
  BY <1>3, <1>4, <1>5, <1>6, <1>7 DEF StepEffect, NextEffect

\* An index is given from hand to hand: what is launched is neither queued nor
\* busy, what a bucket leaves it leaves for good.
LEMMA ApartStay ==
  ASSUME IInv, IInv', NEW m \in Migrations, StepEffect(m), Apart(m)
  PROVE  Apart(m)'
<1>1. TypeOK /\ JobCoherent(m)
  BY DEF IInv, Coherent
<1> USE DEF Cleaning, Draining, Moves, Ahead, Live, JobOver
<1>2. CASE Same(m)
  BY <1>2 DEF Same, Apart
<1>3. CASE RunEffect(m)
  <2>1. ASSUME NEW batch \in SUBSET Items(run[m].entry), Starts(m, batch), run[m].entry \in Entries
        PROVE  Apart(m)'
    <3>1. batch \in SUBSET Index
      BY <2>1, ItemsAreIndices
    <3>2. job'[m].queued = {} /\ job'[m].busy = {}
      BY <2>1, <3>1, LaunchType DEF Starts
    <3> QED
      BY <2>1, <3>2 DEF Apart, Starts
  <2>2. CASE BeforeEntries(m)
    BY <2>2 DEF BeforeEntries, Apart, SameJob
  <2>3. CASE AtEntry(m)
    <3>1. Taken(m) \in SUBSET Items(run[m].entry)
      BY DEF Taken
    <3> QED
      BY <2>1, <2>3, <3>1 DEF AtEntry, Apart, SameJob
  <2>4. CASE AtCleanup(m)
    BY <1>1, <2>1, <2>4 DEF AtCleanup, Apart, SameJob, JobCoherent
  <2>5. CASE AtDrain(m)
    BY <2>5 DEF AtDrain, Apart, SameJob
  <2>6. CASE AfterEntries(m)
    BY <2>6 DEF AfterEntries, Apart, SameJob
  <2> QED
    BY <1>3, <2>2, <2>3, <2>4, <2>5, <2>6 DEF RunEffect
<1>4. CASE JobEffect(m)
  <2>1. run' = run
    BY <1>4 DEF JobEffect, JobUnchanged
  <2>2. CASE OnlyMoves(m) \/ GivesUp(m)
    BY <2>1, <2>2 DEF OnlyMoves, GivesUp, SameItems, Apart
  <2>3. CASE EndsItem(m)
    BY <2>1, <2>3 DEF EndsItem, Apart
  <2>4. CASE MovesBucket(m)
    BY <2>1, <2>4 DEF MovesBucket, SameItems, Apart
  <2> QED
    BY <1>4, <2>2, <2>3, <2>4 DEF JobEffect
<1>5. CASE RequestEffect(m)
  BY <1>5 DEF RequestEffect, SameJob, Apart
<1>6. CASE CrashEffect(m)
  BY <1>6 DEF CrashEffect, Apart
<1> QED
  BY <1>2, <1>3, <1>4, <1>5, <1>6 DEF StepEffect, NextEffect

-----------------------------------------------------------------------------
(* Nothing is lost.                                                        *)

\* The kind of an entry decides how its Migrate* goroutine starts.
LEMMA FirstPcOfKind ==
  ASSUME NEW e \in Entries
  PROVE  /\ FirstPc(e) = "resolve" => Plan[e].kind = "fs"
         /\ Plan[e].kind = "db" => FirstPc(e) = "loop"
<1>1. Plan[e] \in [kind : Kinds, items : Seq(Path)]
  BY PlanAssumption, ElementOfSeq DEF Entries
<1>2. Plan[e].kind \in {"fs", "os", "db"}
  BY <1>1 DEF Kinds
<1>3. CASE Plan[e].kind = "fs"
  BY <1>3 DEF FirstPc
<1>4. CASE Plan[e].kind = "os"
  BY <1>4 DEF FirstPc
<1>5. CASE Plan[e].kind = "db"
  BY <1>5 DEF FirstPc
<1> QED
  BY <1>2, <1>3, <1>4, <1>5

\* Starting an entry, fresh or after the cleanup of its targets.
LEMMA StartFacts ==
  ASSUME IInv, NEW m \in Migrations, NEW batch \in SUBSET Items(run[m].entry),
         run[m].entry \in Entries, Starts(m, batch)
  PROVE  /\ job'[m].pc = FirstPc(run[m].entry) /\ job'[m].pc \in {"resolve", "launch", "loop"}
         /\ job'[m].todo = batch /\ job'[m].queued = {} /\ job'[m].busy = {}
         /\ job'[m].results = <<>> /\ chan'[m].q = <<>>
<1>1. batch \in SUBSET Index
  BY ItemsAreIndices
<1> QED
  BY <1>1, LaunchType DEF Starts

\* A Migrate* goroutine passes its stages in order.
LEMMA StagesStay ==
  ASSUME IInv, IInv', NEW m \in Migrations, StepEffect(m), LogsInOrder(m), InStages(m)
  PROVE  InStages(m)'
<1>1. TypeOK /\ JobCoherent(m)
  BY DEF IInv, Coherent
<1>2. /\ run[m].pc \notin Draining => job[m].pc \in JobOver
      /\ run[m].pc \in Cleaning => run[m].entry \in Entries
      /\ job[m].pc \notin Fanning => job[m].queued = {} /\ job[m].busy = {}
  BY <1>1 DEF JobCoherent, Idle
<1> USE DEF Cleaning, Draining, Moves, Ahead, JobOver, Fanning, SameJob, SameLogs, LogsOf, Kind
<1>3. CASE Same(m)
  BY <1>3 DEF Same, InStages
<1>4. CASE RunEffect(m)
  <2>1. CASE BeforeEntries(m)
    BY <1>2, <2>1 DEF BeforeEntries, InStages
  <2>2. CASE AtEntry(m)
    <3>1. CASE Starts(m, Taken(m)) /\ run[m].entry \in Entries
      <4>1. Taken(m) \in SUBSET Items(run[m].entry)
        BY DEF Taken
      <4>2. LogsOf(m, run[m].entry) = {}
        BY <2>2 DEF AtEntry, LogsInOrder
      <4>3. LogsOf(m, run[m].entry)' = {} /\ run'[m].entry = run[m].entry /\ run'[m].pc = "drain"
        BY <2>2, <3>1, <4>2 DEF AtEntry, Starts
      <4> QED
        BY <3>1, <4>1, <4>3, StartFacts, FirstPcOfKind DEF InStages
    <3>2. CASE SameJob(m)
      BY <1>2, <2>2, <3>2 DEF AtEntry, InStages, Starts
    <3> QED
      BY <2>2, <3>1, <3>2 DEF AtEntry
  <2>3. CASE AtCleanup(m)
    <3>1. CASE Starts(m, run[m].batch) /\ run[m].pc = "cleanup"
      <4>1. run[m].batch \in SUBSET Items(run[m].entry) /\ run[m].entry \in Entries
        BY <1>1, <3>1 DEF JobCoherent
      <4>2. Plan[run[m].entry].kind = "db"
        BY <3>1 DEF InStages
      <4>3. job'[m].pc = "loop" /\ job'[m].results = <<>> /\ run'[m].pc = "drain"
        BY <3>1, <4>1, <4>2, StartFacts, FirstPcOfKind DEF Starts
      <4> QED
        BY <4>3 DEF InStages
    <3>2. CASE SameJob(m)
      <4>1. run'[m].pc \in Cleaning => run[m].pc \in Cleaning /\ run'[m].entry = run[m].entry
        BY <2>3 DEF AtCleanup, Starts
      <4>2. run[m].pc \in Cleaning
        BY <2>3 DEF AtCleanup
      <4> QED
        BY <1>2, <3>2, <4>1, <4>2 DEF InStages
    <3> QED
      BY <2>3, <3>1, <3>2 DEF AtCleanup
  <2>4. CASE AtDrain(m)
    <3>1. run[m].pc \in Draining /\ run'[m].pc \notin Cleaning /\ job'[m] = job[m]
      BY <2>4 DEF AtDrain
    <3>2. CASE Ahead(m) /\ chan[m].closed
      BY <1>1, <3>1, <3>2 DEF InStages, JobCoherent
    <3>3. CASE run'[m].entry = run[m].entry /\ SameJob(m) /\ SameLogs(m)
      BY <3>1, <3>3 DEF InStages
    <3>4. CASE chan[m].q # <<>>
      BY <3>1, <3>4 DEF InStages
    <3> QED
      BY <2>4, <3>2, <3>3, <3>4 DEF AtDrain
  <2>5. CASE AfterEntries(m)
    BY <1>2, <2>5 DEF AfterEntries, InStages
  <2> QED
    BY <1>4, <2>1, <2>2, <2>3, <2>4, <2>5 DEF RunEffect
<1>5. CASE JobEffect(m)
  <2>1. UNCHANGED <<run, logs>>
    BY <1>5 DEF JobEffect, JobUnchanged
  <2>2. CASE OnlyMoves(m) \/ GivesUp(m)
    BY <2>1, <2>2 DEF OnlyMoves, GivesUp, SameItems, SameResults, SameQueue, InStages
  <2>3. CASE EndsItem(m)
    BY <2>1, <2>3 DEF EndsItem, SameResults, InStages
  <2>4. CASE MovesBucket(m)
    BY <1>2, <2>1, <2>4 DEF MovesBucket, SameItems, SameResults, SameQueue, InStages
  <2> QED
    BY <1>5, <2>2, <2>3, <2>4 DEF JobEffect
<1>6. CASE RequestEffect(m)
  BY <1>2, <1>6 DEF RequestEffect, InStages
<1>7. CASE CrashEffect(m)
  BY <1>7 DEF CrashEffect, InStages
<1> QED
  BY <1>3, <1>4, <1>5, <1>6, <1>7 DEF StepEffect, NextEffect

\* The items of an entry, counted.
LEMMA ItemCounts ==
  ASSUME NEW e \in Entries
  PROVE  /\ Len(Plan[e].items) \in Nat /\ Cardinality(Items(e)) = Len(Plan[e].items)
         /\ Cardinality({}) = 0
         /\ \A S \in SUBSET Items(e) :
              /\ Cardinality(S) \in Nat
              /\ Cardinality(S) = 0 => S = {}
              /\ \A i \in S : Cardinality(S \ {i}) = Cardinality(S) - 1
              /\ \A i \in Items(e) \ S : Cardinality(S \cup {i}) = Cardinality(S) + 1
<1>1. Plan[e].items \in Seq(Path)
  <2>1. Plan[e] \in [kind : Kinds, items : Seq(Path)]
    BY PlanAssumption, ElementOfSeq DEF Entries
  <2> QED
    BY <2>1
<1>2. Len(Plan[e].items) \in Nat
  BY <1>1, LenProperties
<1>3. IsFiniteSet(Items(e)) /\ Cardinality(Items(e)) = Len(Plan[e].items)
  BY <1>2, FS_Interval, SMTT(60) DEF Items
<1>4. ASSUME NEW S \in SUBSET Items(e)
      PROVE  /\ IsFiniteSet(S) /\ Cardinality(S) \in Nat
             /\ Cardinality(S) = 0 => S = {}
             /\ \A i \in S : Cardinality(S \ {i}) = Cardinality(S) - 1
             /\ \A i \in Items(e) \ S : Cardinality(S \cup {i}) = Cardinality(S) + 1
  <2>1. IsFiniteSet(S) /\ Cardinality(S) \in Nat
    BY <1>3, FS_Subset, FS_CardinalityType
  <2> QED
    BY <2>1, FS_EmptySet, FS_RemoveElement, FS_AddElement
<1> QED
  BY <1>2, <1>3, <1>4, FS_EmptySet

\* The log rows of an entry are counted one by one.
LEMMA LogsOfFacts ==
  ASSUME TypeOK, TypeOK', NEW m \in Migrations
  PROVE  \A d \in Entries :
           /\ Cardinality(LogsOf(m, d)) \in Nat
           /\ LogsOf(m, d) = {} => Cardinality(LogsOf(m, d)) = 0
           /\ SameLogs(m) => LogsOf(m, d)' = LogsOf(m, d)
           /\ \A ev : LogsOne(m, ev) =>
                Cardinality(LogsOf(m, d)') =
                  IF d = run[m].entry THEN Cardinality(LogsOf(m, d)) + 1
                  ELSE Cardinality(LogsOf(m, d))
<1> SUFFICES ASSUME NEW d \in Entries
             PROVE  /\ Cardinality(LogsOf(m, d)) \in Nat
                    /\ LogsOf(m, d) = {} => Cardinality(LogsOf(m, d)) = 0
                    /\ SameLogs(m) => LogsOf(m, d)' = LogsOf(m, d)
                    /\ \A ev : LogsOne(m, ev) =>
                         Cardinality(LogsOf(m, d)') =
                           IF d = run[m].entry THEN Cardinality(LogsOf(m, d)) + 1
                           ELSE Cardinality(LogsOf(m, d))
  OBVIOUS
<1>1. logs[m] \in Seq(Log) /\ Len(logs[m]) \in Nat /\ DOMAIN logs[m] = 1..Len(logs[m])
  BY LenProperties DEF TypeOK
<1>2. IsFiniteSet(1..Len(logs[m])) /\ LogsOf(m, d) \in SUBSET (1..Len(logs[m]))
  BY <1>1, FS_Interval DEF LogsOf
<1>3. IsFiniteSet(LogsOf(m, d)) /\ Cardinality(LogsOf(m, d)) \in Nat
  BY <1>2, FS_Subset, FS_CardinalityType
<1>4. ASSUME NEW ev, LogsOne(m, ev)
      PROVE  Cardinality(LogsOf(m, d)') = IF d = run[m].entry THEN Cardinality(LogsOf(m, d)) + 1
                                         ELSE Cardinality(LogsOf(m, d))
  <2>1. PICK n : /\ DOMAIN logs'[m] = DOMAIN logs[m] \cup {n} /\ n \notin DOMAIN logs[m]
                 /\ logs'[m][n].entry = run[m].entry
                 /\ \A k \in DOMAIN logs[m] : logs'[m][k] = logs[m][k]
    BY <1>4, LoggedOne
  <2>2. LogsOf(m, d)' = IF d = run[m].entry THEN LogsOf(m, d) \cup {n} ELSE LogsOf(m, d)
    BY <2>1 DEF LogsOf
  <2>3. n \notin LogsOf(m, d)
    BY <2>1 DEF LogsOf
  <2> QED
    BY <1>3, <2>2, <2>3, FS_AddElement
<1>5. SameLogs(m) => LogsOf(m, d)' = LogsOf(m, d)
  BY DEF SameLogs, LogsOf
<1> QED
  BY <1>3, <1>4, <1>5, FS_EmptySet

\* Sending and receiving move an event by one.
LEMMA EventCounts ==
  ASSUME NEW s \in Seq(Event)
  PROVE  /\ Len(s) \in Nat /\ (s = <<>> <=> Len(s) = 0)
         /\ \A x \in Event : Len(Append(s, x)) = Len(s) + 1
         /\ s # <<>> => Len(Tail(s)) = Len(s) - 1 /\ Head(s) \in Event
<1>1. Len(s) \in Nat /\ (s = <<>> <=> Len(s) = 0)
  BY LenProperties, EmptySeq
<1>2. \A x \in Event : Len(Append(s, x)) = Len(s) + 1
  BY AppendFacts
<1>3. s # <<>> => Len(Tail(s)) = Len(s) - 1 /\ Head(s) \in Event
  BY TailFacts
<1> QED
  BY <1>1, <1>2, <1>3

\* A Migrate* goroutine that goes on neither drops an item nor reports one twice.
LEMMA OutstandingKept ==
  ASSUME IInv, NEW m \in Migrations, Apart(m), JobEffect(m), Live(m), Live(m)'
  PROVE  Outstanding(m)' = Outstanding(m)
<1> DEFINE e == run[m].entry
           q == Len(chan[m].q)
           r == Len(job[m].results)
           t == Cardinality(job[m].todo)
           u == Cardinality(job[m].queued)
           b == Cardinality(job[m].busy)
           q2 == Len(chan'[m].q)
           r2 == Len(job'[m].results)
           t2 == Cardinality(job'[m].todo)
           u2 == Cardinality(job'[m].queued)
           b2 == Cardinality(job'[m].busy)
<1>1. TypeOK /\ Coherent /\ JobCoherent(m)
  BY DEF IInv, Coherent
<1>2. /\ e \in Entries /\ job[m].todo \in SUBSET Items(e)
      /\ job[m].queued \in SUBSET Items(e) /\ job[m].busy \in SUBSET Items(e)
  BY <1>1 DEF JobCoherent, Live, Cleaning, Draining
<1>3. chan[m].q \in Seq(Event) /\ job[m].results \in Seq(Event)
  BY <1>1 DEF TypeOK, Channel, JobState
<1>4. \A i \in Working(m), s \in {"success", "failed"}, x \in BOOLEAN :
        Ev(ItemPath(m, i), s, x) \in Event
  BY <1>1, LivePaths DEF Live, Working
<1>5. q \in Nat /\ r \in Nat /\ t \in Nat /\ u \in Nat /\ b \in Nat
  BY <1>2, <1>3, ItemCounts, EventCounts
<1>6. /\ Outstanding(m) = q + r + t + u + b
      /\ Outstanding(m)' = q2 + r2 + t2 + u2 + b2
  BY DEF Outstanding
<1>7. /\ SameQueue(m) => q2 = q
      /\ SameResults(m) => r2 = r
      /\ SameItems(m) => t2 = t /\ u2 = u /\ b2 = b
      /\ job'[m].todo = job[m].todo => t2 = t
      /\ job'[m].queued = job[m].queued => u2 = u
      /\ job'[m].busy = job[m].busy => b2 = b
  BY DEF SameQueue, SameResults, SameItems
<1>8. \A i \in Items(e) :
        /\ i \in job[m].todo /\ job'[m].todo = job[m].todo \ {i} => t2 = t - 1
        /\ i \in job[m].queued /\ job'[m].queued = job[m].queued \ {i} => u2 = u - 1
        /\ i \in job[m].busy /\ job'[m].busy = job[m].busy \ {i} => b2 = b - 1
        /\ i \notin job[m].queued /\ job'[m].queued = job[m].queued \cup {i} => u2 = u + 1
        /\ i \notin job[m].busy /\ job'[m].busy = job[m].busy \cup {i} => b2 = b + 1
  <2>1. ASSUME NEW S \in SUBSET Items(e), NEW i \in Items(e)
        PROVE  /\ i \in S => Cardinality(S \ {i}) = Cardinality(S) - 1
               /\ i \notin S => Cardinality(S \cup {i}) = Cardinality(S) + 1
    BY <1>2, <2>1, ItemCounts
  <2> HIDE DEF e
  <2> QED
    BY <1>2, <2>1
<1>9. \A x \in Event : /\ Sends(m, x) => q2 = q + 1
                       /\ job'[m].results = Append(job[m].results, x) => r2 = r + 1
  BY <1>3, EventCounts DEF Sends
<1>10. /\ job[m].results # <<>> => Head(job[m].results) \in Event
       /\ job[m].results # <<>> /\ job'[m].results = Tail(job[m].results) => r2 = r - 1
  BY <1>3, EventCounts
<1> HIDE DEF q, r, t, u, b, q2, r2, t2, u2, b2
<1>11. CASE OnlyMoves(m)
  BY <1>6, <1>7, <1>11 DEF OnlyMoves
<1>12. CASE GivesUp(m)
  BY <1>12 DEF GivesUp, Live, JobOver
<1>13. CASE EndsItem(m)
  <2>1. q2 = q + 1 /\ t2 = t - 1
    BY <1>2, <1>4, <1>8, <1>9, <1>13 DEF EndsItem, Working
  <2>2. r2 = r /\ u2 = u /\ b2 = b
    BY <1>7, <1>13 DEF EndsItem
  <2> QED
    BY <1>5, <1>6, <2>1, <2>2
<1>14. CASE MovesBucket(m)
  <2>1. CASE /\ SameQueue(m) /\ SameResults(m)
             /\ \E i \in job[m].todo : /\ job'[m].todo = job[m].todo \ {i}
                                       /\ job'[m].queued = job[m].queued \cup {i}
                                       /\ job'[m].busy = job[m].busy
    <3>1. t2 = t - 1 /\ u2 = u + 1
      BY <1>2, <1>8, <2>1 DEF Apart
    <3> QED
      BY <1>5, <1>6, <1>7, <2>1, <3>1
  <2>2. CASE /\ SameQueue(m) /\ SameResults(m) /\ job'[m].todo = job[m].todo
             /\ \E i \in job[m].queued : /\ job'[m].queued = job[m].queued \ {i}
                                         /\ job'[m].busy = job[m].busy \cup {i}
    <3>1. u2 = u - 1 /\ b2 = b + 1
      BY <1>2, <1>8, <2>2 DEF Apart
    <3> QED
      BY <1>5, <1>6, <1>7, <2>2, <3>1
  <2>3. CASE /\ SameQueue(m) /\ job'[m].todo = job[m].todo /\ job'[m].queued = job[m].queued
             /\ \E i \in job[m].busy, s \in {"success", "failed"}, x \in BOOLEAN :
                  /\ job'[m].busy = job[m].busy \ {i}
                  /\ job'[m].results = Append(job[m].results, Ev(ItemPath(m, i), s, x))
    <3>1. r2 = r + 1 /\ b2 = b - 1
      BY <1>2, <1>4, <1>8, <1>9, <2>3 DEF Working
    <3> QED
      BY <1>5, <1>6, <1>7, <2>3, <3>1
  <2>4. CASE /\ SameItems(m) /\ job[m].results # <<>>
             /\ Sends(m, Head(job[m].results)) /\ job'[m].results = Tail(job[m].results)
    <3>1. q2 = q + 1 /\ r2 = r - 1
      BY <1>9, <1>10, <2>4
    <3> QED
      BY <1>5, <1>6, <1>7, <2>4, <3>1
  <2> QED
    BY <1>14, <2>1, <2>2, <2>3, <2>4 DEF MovesBucket
<1> QED
  BY <1>11, <1>12, <1>13, <1>14 DEF JobEffect

\* An uncancelled Migrate* goroutine that ends has reported all of its items, but
\* for one that could not resolve its source.
LEMMA EndsWithNothingLeft ==
  ASSUME IInv, NEW m \in Migrations, InStages(m), JobEffect(m), Live(m), ~Live(m)', ~ctx[m]
  PROVE  /\ chan'[m].q = chan[m].q
         /\ \/ Outstanding(m) = Len(chan[m].q)
            \/ /\ Kind(m) = "fs" /\ LogsOf(m, run[m].entry) = {} /\ chan[m].q = <<>>
<1>1. JobCoherent(m) /\ chan[m].q \in Seq(Event) /\ run[m].entry \in Entries
  BY DEF IInv, TypeOK, Channel, Coherent, JobCoherent, Live, Cleaning, Draining
<1>2. Cardinality({}) = 0 /\ Len(<<>>) = 0 /\ Len(chan[m].q) \in Nat
  BY <1>1, ItemCounts, EventCounts
<1>3. OnlyMoves(m)
  BY DEF JobEffect, GivesUp, EndsItem, MovesBucket, Live, JobOver
<1>4. CASE job[m].pc = "resolve"
  BY <1>3, <1>4 DEF OnlyMoves, SameQueue, InStages
<1>5. CASE job[m].pc # "resolve"
  <2>1. /\ job[m].todo = {} /\ job[m].queued = {} /\ job[m].busy = {}
        /\ job[m].results = <<>>
    BY <1>1, <1>3, <1>5 DEF OnlyMoves, InStages, JobCoherent, Idle, Live, JobOver, Fanning
  <2> QED
    BY <1>2, <1>3, <2>1 DEF OnlyMoves, SameQueue, Outstanding
<1> QED
  BY <1>4, <1>5

\* The parts of NothingLost.
EarlierWhole(m) ==
  run[m].pc \in Active /\ ~ctx[m] =>
    \A d \in Entries : d < run[m].entry => WholeOrUnresolved(d, Cardinality(LogsOf(m, d)))
CleanupWhole(m) ==
  run[m].pc \in Cleaning =>
    Cardinality(LogsOf(m, run[m].entry)) + Cardinality(run[m].left) + Cardinality(run[m].batch)
      = Len(Plan[run[m].entry].items)
DrainWhole(m) ==
  run[m].pc \in Draining /\ ~ctx[m] =>
    IF Live(m)
    THEN Cardinality(LogsOf(m, run[m].entry)) + Outstanding(m) = Len(Plan[run[m].entry].items)
    ELSE WholeOrUnresolved(run[m].entry,
           Cardinality(LogsOf(m, run[m].entry)) + Len(chan[m].q))
FinishesLast(m) == run[m].pc = "finish" /\ ~ctx[m] => run[m].entry \notin Entries
CompletedWhole(m) ==
  row[m].status = "completed" =>
    \A d \in Entries : WholeOrUnresolved(d, Cardinality(LogsOf(m, d)))

LEMMA NothingLostParts ==
  ASSUME NEW m \in Migrations
  PROVE  NothingLost(m) <=>
           (run[m].mode # "partial" =>
              /\ EarlierWhole(m) /\ CleanupWhole(m) /\ DrainWhole(m)
              /\ FinishesLast(m) /\ CompletedWhole(m))
  BY DEF NothingLost, EarlierWhole, CleanupWhole, DrainWhole, FinishesLast, CompletedWhole

\* The run goroutine takes up an entry with all of its items, and leaves it when
\* they are all in the log.
LEMMA RunLosesNothing ==
  ASSUME IInv, IInv', NEW m \in Migrations, RunEffect(m), LogsInOrder(m), Apart(m), InStages(m),
         NothingLost(m), run[m].mode # "partial"
  PROVE  EarlierWhole(m)' /\ CleanupWhole(m)' /\ DrainWhole(m)' /\ FinishesLast(m)'
           /\ CompletedWhole(m)'
<1> DEFINE e == run[m].entry
           n(d) == Cardinality(LogsOf(m, d))
<1>1. /\ TypeOK /\ TypeOK' /\ JobCoherent(m) /\ RowCoherent(m)
      /\ EarlierWhole(m) /\ CleanupWhole(m) /\ DrainWhole(m) /\ FinishesLast(m) /\ CompletedWhole(m)
      /\ ctx[m] => ctx'[m]
  BY NothingLostParts DEF IInv, Coherent, RunEffect
<1>2. e \in Nat \ {0} /\ \A d \in Entries : d \in Nat \ {0}
  BY <1>1, LogsAreLogs
<1>3. \A d \in Entries :
        /\ n(d) \in Nat /\ (LogsOf(m, d) = {} => n(d) = 0)
        /\ SameLogs(m) => n(d)' = n(d)
        /\ \A ev : LogsOne(m, ev) => n(d)' = IF d = e THEN n(d) + 1 ELSE n(d)
  BY <1>1, LogsOfFacts
<1>4. chan[m].q \in Seq(Event)
  BY <1>1 DEF TypeOK, Channel
<1> USE DEF Active, Cleaning, Draining, Over, Moves, Ahead, SameRow, SameJob
<1>5. run[m].pc \in Active => row[m].status # "completed"
  BY <1>1 DEF RowCoherent, Final
<1>6. e \in Entries /\ run'[m].entry = e /\ run[m].pc \in Active /\ ~ctx[m] =>
        ((SameLogs(m) \/ \E ev : LogsOne(m, ev)) => EarlierWhole(m)')
  BY <1>1, <1>2, <1>3 DEF EarlierWhole
<1>7. CASE BeforeEntries(m)
  <2>1. row'[m].status # "completed"
    BY <1>1, <1>7 DEF BeforeEntries, RowCoherent, Starting, SavesRow
  <2>2. run'[m].pc = "entry" => run'[m].entry = 1
    BY <1>7 DEF BeforeEntries, LogsInOrder, Starting
  <2> QED
    BY <1>2, <1>7, <2>1, <2>2 DEF BeforeEntries, EarlierWhole, CleanupWhole, DrainWhole,
      FinishesLast, CompletedWhole
<1>8. CASE AtEntry(m)
  <2>1. /\ SameLogs(m) /\ run[m].pc = "entry" /\ CompletedWhole(m)'
    BY <1>5, <1>8 DEF AtEntry, CompletedWhole
  <2>2. e \in Entries => n(e) = 0 /\ (run'[m].entry = e => n(e)' = 0)
    <3>1. LogsOf(m, e) = {}
      BY <2>1 DEF LogsInOrder, LogsOf
    <3>2. e \in Entries => n(e) = 0
      BY <1>3, <3>1, ItemCounts
    <3> QED
      BY <1>3, <2>1, <3>2
  <2>3. CASE e \in Entries /\ ~ctx[m] /\ run'[m].pc = "cleanup" /\ run'[m].entry = e
                 /\ run'[m].left = Items(e) /\ run'[m].batch = {}
    <3>1. CleanupWhole(m)'
      BY <2>2, <2>3, ItemCounts DEF CleanupWhole
    <3>2. EarlierWhole(m)'
      BY <1>6, <2>1, <2>3
    <3>3. DrainWhole(m)' /\ FinishesLast(m)'
      BY <2>3 DEF DrainWhole, FinishesLast
    <3> QED
      BY <2>1, <3>1, <3>2, <3>3
  <2>4. CASE e \in Entries /\ ~ctx[m] /\ Starts(m, Taken(m))
    <3>1. Taken(m) = Items(e)
      BY DEF Taken
    <3>2. /\ job'[m].pc \in {"resolve", "launch", "loop"} /\ job'[m].todo = Items(e)
          /\ job'[m].queued = {} /\ job'[m].busy = {} /\ job'[m].results = <<>>
          /\ chan'[m].q = <<>> /\ run'[m].pc = "drain" /\ run'[m].entry = e
      BY <2>4, <3>1, StartFacts DEF Starts
    <3>3. Live(m)'
      BY <3>2 DEF Live, JobOver
    <3>4. Outstanding(m)' = Len(Plan[e].items) /\ Len(Plan[e].items) \in Nat
      <4>1. /\ Len(chan'[m].q) = 0 /\ Len(job'[m].results) = 0
            /\ Cardinality(job'[m].todo) = Len(Plan[e].items) /\ Len(Plan[e].items) \in Nat
            /\ Cardinality(job'[m].queued) = 0 /\ Cardinality(job'[m].busy) = 0
        BY <2>4, <3>2, ItemCounts
      <4> QED
        BY <4>1 DEF Outstanding
    <3>5. DrainWhole(m)'
      BY <2>2, <2>4, <3>2, <3>3, <3>4 DEF DrainWhole
    <3> QED
      BY <1>6, <2>1, <2>4, <3>2, <3>5 DEF CleanupWhole, FinishesLast
  <2>5. CASE (ctx[m] \/ e \notin Entries) /\ run'[m].pc = "finish" /\ run'[m].entry = e
    <3>1. EarlierWhole(m)'
      BY <1>1, <1>3, <2>1, <2>5 DEF EarlierWhole
    <3> QED
      BY <1>1, <2>1, <2>5, <3>1 DEF CleanupWhole, DrainWhole, FinishesLast
  <2> QED
    BY <1>8, <2>3, <2>4, <2>5 DEF AtEntry
<1>9. CASE AfterEntries(m)
  <2>1. SameLogs(m) /\ run'[m].pc \in Over
    BY <1>9 DEF AfterEntries
  <2>2. CASE row'[m].status = "completed" /\ run[m].pc = "finish"
    <3>1. mem'[m].status = Verdict(m) /\ (row'[m] = row[m] \/ row'[m] = mem'[m])
      BY <1>9, <2>2 DEF AfterEntries, SavesRow
    <3>2. ~ctx[m]
      BY <1>5, <2>2, <3>1 DEF Verdict
    <3>3. e \notin Entries
      BY <1>1, <2>2, <3>2 DEF FinishesLast
    <3>4. \A d \in Entries : d < e
      <4>1. Len(Plan) \in Nat
        BY PlanAssumption
      <4> QED
        BY <1>2, <3>3, <4>1 DEF Entries
    <3>5. \A d \in Entries : WholeOrUnresolved(d, n(d))
      BY <1>1, <2>2, <3>2, <3>4 DEF EarlierWhole
    <3>6. CompletedWhole(m)'
      BY <1>3, <2>1, <3>5 DEF CompletedWhole
    <3> QED
      BY <2>1, <3>6 DEF EarlierWhole, CleanupWhole, DrainWhole, FinishesLast
  <2>3. CASE ~(row'[m].status = "completed" /\ run[m].pc = "finish")
    <3>1. CompletedWhole(m)'
      BY <1>1, <1>3, <1>9, <2>1, <2>3 DEF AfterEntries, CompletedWhole
    <3> QED
      BY <2>1, <3>1 DEF EarlierWhole, CleanupWhole, DrainWhole, FinishesLast
  <2> QED
    BY <2>2, <2>3
<1>10. CASE AtCleanup(m) \/ AtDrain(m)
  <2>1. /\ e \in Entries /\ run[m].pc \in Cleaning \cup Draining
        /\ Len(Plan[e].items) \in Nat
    BY <1>1, <1>10, ItemCounts DEF AtCleanup, AtDrain, JobCoherent
  <2>2. CompletedWhole(m)'
    <3>1. mem[m].status = "running" /\ row[m].status \notin Final
      BY <1>1, <2>1 DEF RowCoherent
    <3>2. row'[m].status # "completed"
      BY <1>10, <3>1 DEF AtCleanup, AtDrain, SavesRow, Final
    <3> QED
      BY <3>2 DEF CompletedWhole
  <2>3. run'[m].pc # "finish"
    BY <1>10 DEF AtCleanup, AtDrain, Starts
  <2>4. ASSUME Ahead(m), SameLogs(m), ~ctx[m] => WholeOrUnresolved(e, n(e)) PROVE EarlierWhole(m)'
    <3>1. \A d \in Entries : d < e + 1 => d < e \/ d = e
      BY <1>2
    <3> QED
      BY <1>1, <1>3, <2>1, <2>4, <3>1 DEF EarlierWhole
  <2> USE DEF FinishesLast
  <2>5. CASE AtCleanup(m)
    <3>1. /\ run[m].left \in SUBSET Items(e) /\ run[m].batch \in SUBSET Items(e)
          /\ run[m].pc \in Cleaning /\ run[m].left \cap run[m].batch = {}
      BY <1>1, <2>5 DEF AtCleanup, JobCoherent, Apart
    <3>2. /\ Cardinality(run[m].left) \in Nat /\ Cardinality(run[m].batch) \in Nat
          /\ n(e) \in Nat /\ n(e) + Cardinality(run[m].left) + Cardinality(run[m].batch)
                               = Len(Plan[e].items)
      BY <1>1, <1>3, <2>1, <3>1, ItemCounts DEF CleanupWhole
    <3>3. ASSUME NEW i \in run[m].left, run'[m].left = run[m].left \ {i},
                 run'[m].entry = e, run'[m].pc = "cleanup", SameLogs(m),
                 run'[m].batch = run[m].batch \cup {i}
          PROVE  EarlierWhole(m)' /\ CleanupWhole(m)' /\ DrainWhole(m)'
      <4>1. /\ Cardinality(run'[m].left) = Cardinality(run[m].left) - 1
            /\ Cardinality(run'[m].batch) = Cardinality(run[m].batch) + 1
            /\ n(e)' = n(e)
        BY <1>3, <2>1, <3>1, <3>3, ItemCounts
      <4>2. CleanupWhole(m)'
        BY <3>2, <3>3, <4>1 DEF CleanupWhole
      <4> QED
        BY <1>1, <1>6, <2>1, <3>3, <4>2 DEF DrainWhole, EarlierWhole
    <3>4. ASSUME NEW i \in run[m].left, run'[m].left = run[m].left \ {i},
                 run'[m].entry = e, run'[m].pc = "cleanupSave", NEW ev, LogsOne(m, ev),
                 run'[m].batch = run[m].batch
          PROVE  EarlierWhole(m)' /\ CleanupWhole(m)' /\ DrainWhole(m)'
      <4>1. /\ Cardinality(run'[m].left) = Cardinality(run[m].left) - 1
            /\ n(e)' = n(e) + 1
        BY <1>3, <2>1, <3>1, <3>4, ItemCounts, SMTT(60)
      <4>2. CleanupWhole(m)'
        BY <3>2, <3>4, <4>1 DEF CleanupWhole
      <4> QED
        BY <1>1, <1>6, <2>1, <3>4, <4>2 DEF DrainWhole, EarlierWhole
    <3>5. ASSUME run[m].pc = "cleanupSave", SameLogs(m), Moves(m, "cleanup")
          PROVE  EarlierWhole(m)' /\ CleanupWhole(m)' /\ DrainWhole(m)'
      <4>1. n(e)' = n(e)
        BY <1>3, <2>1, <3>5
      <4>2. CleanupWhole(m)'
        BY <3>2, <3>5, <4>1 DEF CleanupWhole
      <4> QED
        BY <1>1, <1>6, <2>1, <3>5, <4>2 DEF DrainWhole, EarlierWhole
    <3>6. ASSUME run[m].left = {}, SameLogs(m), run[m].batch = {}, Ahead(m)
          PROVE  EarlierWhole(m)' /\ CleanupWhole(m)' /\ DrainWhole(m)'
      <4>1. n(e) = Len(Plan[e].items)
        BY <2>1, <3>2, <3>6, ItemCounts
      <4>2. EarlierWhole(m)'
        BY <2>4, <3>6, <4>1 DEF WholeOrUnresolved
      <4> QED
        BY <3>6, <4>2 DEF CleanupWhole, DrainWhole
    <3>7. ASSUME run[m].left = {}, SameLogs(m), Starts(m, run[m].batch)
          PROVE  EarlierWhole(m)' /\ CleanupWhole(m)' /\ DrainWhole(m)'
      <4>1. /\ job'[m].pc \in {"resolve", "launch", "loop"} /\ job'[m].todo = run[m].batch
            /\ job'[m].queued = {} /\ job'[m].busy = {} /\ job'[m].results = <<>>
            /\ chan'[m].q = <<>> /\ run'[m].pc = "drain" /\ run'[m].entry = e
        BY <2>1, <3>1, <3>7, StartFacts DEF Starts
      <4>2. Live(m)' /\ n(e)' = n(e)
        BY <1>3, <2>1, <3>7, <4>1 DEF Live, JobOver
      <4>3. Outstanding(m)' = Cardinality(run[m].batch)
        <5>1. /\ Len(chan'[m].q) = 0 /\ Len(job'[m].results) = 0
              /\ Cardinality(job'[m].todo) = Cardinality(run[m].batch)
              /\ Cardinality(job'[m].queued) = 0 /\ Cardinality(job'[m].busy) = 0
          BY <2>1, <4>1, ItemCounts
        <5> QED
          BY <3>2, <5>1 DEF Outstanding
      <4>4. n(e) + Cardinality(run[m].batch) = Len(Plan[e].items)
        BY <2>1, <3>2, <3>7, ItemCounts
      <4>5. DrainWhole(m)'
        BY <4>1, <4>2, <4>3, <4>4 DEF DrainWhole
      <4> QED
        BY <1>1, <1>6, <2>1, <3>7, <4>1, <4>5 DEF CleanupWhole, EarlierWhole
    <3> QED
      BY <2>2, <2>3, <2>5, <3>3, <3>4, <3>5, <3>6, <3>7 DEF AtCleanup
  <2>6. CASE AtDrain(m)
    <3>1. ~ctx'[m] => ~ctx[m]
      BY <1>1
    <3>2. run[m].pc \in Draining /\ n(e) \in Nat /\ Len(chan[m].q) \in Nat
      BY <1>3, <1>4, <2>1, <2>6, EventCounts DEF AtDrain
    <3>3. ASSUME job'[m] = job[m], Moves(m, "drainSave"), chan[m].q # <<>>,
                 chan'[m] = [chan[m] EXCEPT !.q = Tail(chan[m].q)], NEW ev, LogsOne(m, ev)
          PROVE  EarlierWhole(m)' /\ CleanupWhole(m)' /\ DrainWhole(m)'
      <4>1. chan'[m].q = Tail(chan[m].q)
        BY <1>1, <3>3 DEF TypeOK, Channel
      <4>2. /\ Len(chan'[m].q) = Len(chan[m].q) - 1
            /\ n(e)' = n(e) + 1
        BY <1>3, <1>4, <2>1, <3>3, <4>1, EventCounts
      <4>3. Live(m)' <=> Live(m)
        BY <3>3 DEF Live
      <4>4. Live(m) => n(e)' + Outstanding(m)' = n(e) + Outstanding(m)
        <5> SUFFICES ASSUME Live(m) PROVE n(e)' + Outstanding(m)' = n(e) + Outstanding(m)
          OBVIOUS
        <5> DEFINE r == Len(job[m].results)
                   t == Cardinality(job[m].todo)
                   u == Cardinality(job[m].queued)
                   b == Cardinality(job[m].busy)
        <5>1. r \in Nat /\ t \in Nat /\ u \in Nat /\ b \in Nat
          BY <1>1, <2>1, ItemCounts, EventCounts DEF TypeOK, JobState, JobCoherent, Live
        <5>2. /\ Outstanding(m) = Len(chan[m].q) + r + t + u + b
              /\ Outstanding(m)' = Len(chan'[m].q) + r + t + u + b
          BY <3>3 DEF Outstanding
        <5> DEFINE k == n(e)
                   k1 == n(e)'
                   q == Len(chan[m].q)
                   q1 == Len(chan'[m].q)
        <5>3. k \in Nat /\ q \in Nat /\ k1 = k + 1 /\ q1 = q - 1
          BY <3>2, <4>2
        <5> HIDE DEF r, t, u, b, k, k1, q, q1
        <5>4. k1 + (q1 + r + t + u + b) = k + (q + r + t + u + b)
          BY <5>1, <5>3
        <5> QED
          BY <5>2, <5>4 DEF k, k1, q, q1
      <4>5. n(e)' + Len(chan'[m].q) = n(e) + Len(chan[m].q)
        BY <3>2, <4>2, SMTT(60)
      <4>6. DrainWhole(m)'
        BY <1>1, <3>1, <3>2, <3>3, <4>3, <4>4, <4>5 DEF DrainWhole
      <4> QED
        BY <1>1, <1>6, <2>1, <3>3, <4>6 DEF CleanupWhole, EarlierWhole
    <3>4. ASSUME run[m].pc = "drainSave", SameJob(m), SameLogs(m), Moves(m, "drain")
          PROVE  EarlierWhole(m)' /\ CleanupWhole(m)' /\ DrainWhole(m)'
      <4>1. /\ n(e)' = n(e) /\ (Live(m)' <=> Live(m)) /\ Outstanding(m)' = Outstanding(m)
            /\ chan'[m].q = chan[m].q
        BY <1>3, <2>1, <3>4 DEF Live, Outstanding
      <4>2. DrainWhole(m)'
        BY <1>1, <3>1, <3>4, <4>1 DEF DrainWhole
      <4> QED
        BY <1>1, <1>6, <2>1, <3>4, <4>2 DEF CleanupWhole, EarlierWhole
    <3>5. ASSUME run[m].pc = "drain", SameLogs(m), chan[m].q = <<>>, chan[m].closed, Ahead(m)
          PROVE  EarlierWhole(m)' /\ CleanupWhole(m)' /\ DrainWhole(m)'
      <4>1. ~Live(m) /\ Len(chan[m].q) = 0
        BY <1>1, <1>4, <3>5, EventCounts DEF JobCoherent, Live
      <4>2. ~ctx[m] => WholeOrUnresolved(e, n(e))
        BY <1>1, <3>2, <3>5, <4>1 DEF DrainWhole
      <4> QED
        BY <2>4, <3>5, <4>2 DEF CleanupWhole, DrainWhole
    <3> QED
      BY <2>2, <2>3, <2>6, <3>3, <3>4, <3>5 DEF AtDrain
  <2> QED
    BY <1>10, <2>5, <2>6
<1> QED
  BY <1>7, <1>8, <1>9, <1>10 DEF RunEffect

\* No step of anybody loses an item of an execution or a full retry.
LEMMA NothingLostStay ==
  ASSUME IInv, IInv', NEW m \in Migrations, StepEffect(m), LogsInOrder(m), Apart(m),
         InStages(m), NothingLost(m)
  PROVE  NothingLost(m)'
<1>1. /\ RowCoherent(m) /\ JobCoherent(m) /\ TypeOK
      /\ run[m].mode # "partial" =>
           /\ EarlierWhole(m) /\ CleanupWhole(m) /\ DrainWhole(m)
           /\ FinishesLast(m) /\ CompletedWhole(m)
  BY NothingLostParts DEF IInv, Coherent
<1>2. ASSUME run'[m].mode # "partial" =>
               /\ EarlierWhole(m)' /\ CleanupWhole(m)' /\ DrainWhole(m)'
               /\ FinishesLast(m)' /\ CompletedWhole(m)'
      PROVE  NothingLost(m)'
  BY <1>2 DEF NothingLost, EarlierWhole, CleanupWhole, DrainWhole, FinishesLast, CompletedWhole
<1>3. ASSUME UNCHANGED <<run[m], row[m], logs[m], job[m], chan[m]>>, ctx[m] => ctx'[m]
      PROVE  NothingLost(m)'
  <2>1. \A d : LogsOf(m, d)' = LogsOf(m, d)
    BY <1>3 DEF LogsOf
  <2>2. (Live(m)' <=> Live(m)) /\ Outstanding(m)' = Outstanding(m)
    BY <1>3 DEF Live, Outstanding
  <2>3. run[m].mode # "partial" => EarlierWhole(m)' /\ CleanupWhole(m)' /\ FinishesLast(m)'
                                     /\ CompletedWhole(m)'
    BY <1>1, <1>3, <2>1 DEF EarlierWhole, CleanupWhole, FinishesLast, CompletedWhole
  <2>4. run[m].mode # "partial" => DrainWhole(m)'
    BY <1>1, <1>3, <2>1, <2>2 DEF DrainWhole
  <2> QED
    BY <1>2, <1>3, <2>3, <2>4
<1> USE DEF Starting, Active, Cleaning, Draining, Final
<1>4. ASSUME run'[m].pc \notin Active, row'[m].status # "completed"
      PROVE  NothingLost(m)'
  BY <1>2, <1>4 DEF EarlierWhole, CleanupWhole, DrainWhole, FinishesLast, CompletedWhole
<1>5. CASE Same(m)
  BY <1>3, <1>5 DEF Same
<1>6. CASE RunEffect(m)
  <2>1. run'[m].mode = run[m].mode
    BY <1>6 DEF RunEffect
  <2> QED
    BY <1>2, <1>6, <2>1, RunLosesNothing
<1>7. CASE JobEffect(m)
  <2>1. UNCHANGED <<run, row, logs, ctx>>
    BY <1>7 DEF JobEffect, JobUnchanged
  <2>2. \A d : LogsOf(m, d)' = LogsOf(m, d)
    BY <2>1 DEF LogsOf
  <2>3. run[m].mode # "partial" => EarlierWhole(m)' /\ CleanupWhole(m)' /\ FinishesLast(m)'
                                     /\ CompletedWhole(m)'
    BY <1>1, <2>1, <2>2 DEF EarlierWhole, CleanupWhole, FinishesLast, CompletedWhole
  <2>4. Live(m)
    <3>1. job[m].pc \notin Fanning => job[m].queued = {} /\ job[m].busy = {}
      BY <1>1 DEF JobCoherent, Idle
    <3> QED
      BY <1>7, <3>1 DEF JobEffect, OnlyMoves, GivesUp, EndsItem, MovesBucket, Live, JobOver,
        Fanning
  <2>5. run[m].pc \in Draining /\ run[m].entry \in Entries
    BY <1>1, <2>4 DEF Live, JobCoherent
  <2>6. ASSUME run[m].mode # "partial", ~ctx[m] PROVE DrainWhole(m)'
    <3>1. Cardinality(LogsOf(m, run[m].entry)) + Outstanding(m) = Len(Plan[run[m].entry].items)
      BY <1>1, <2>4, <2>5, <2>6 DEF DrainWhole
    <3>2. CASE Live(m)'
      <4>1. Outstanding(m)' = Outstanding(m)
        BY <1>7, <2>4, <3>2, OutstandingKept
      <4> QED
        BY <2>1, <2>2, <3>1, <3>2, <4>1 DEF DrainWhole
    <3>3. CASE ~Live(m)'
      <4>1. /\ chan'[m].q = chan[m].q
            /\ \/ Outstanding(m) = Len(chan[m].q)
               \/ /\ Kind(m) = "fs" /\ LogsOf(m, run[m].entry) = {} /\ chan[m].q = <<>>
        BY <1>7, <2>4, <2>6, <3>3, EndsWithNothingLeft
      <4>2. WholeOrUnresolved(run[m].entry,
              Cardinality(LogsOf(m, run[m].entry)) + Len(chan[m].q))
        <5>1. chan[m].q = <<>> => Len(chan[m].q) = 0
          BY EmptySeq
        <5>2. LogsOf(m, run[m].entry) = {} => Cardinality(LogsOf(m, run[m].entry)) = 0
          BY FS_EmptySet
        <5> QED
          BY <3>1, <4>1, <5>1, <5>2 DEF WholeOrUnresolved, Kind
      <4> QED
        BY <2>1, <2>2, <3>3, <4>1, <4>2 DEF DrainWhole
    <3> QED
      BY <3>2, <3>3
  <2>7. run[m].mode # "partial" => DrainWhole(m)'
    BY <2>1, <2>6 DEF DrainWhole
  <2> QED
    BY <1>2, <2>1, <2>3, <2>7
<1>8. CASE RequestEffect(m)
  BY <1>3, <1>4, <1>8 DEF RequestEffect, SameRow, SameJob, SameLogs, NewRecord
<1>9. CASE CrashEffect(m)
  <2>1. \A d : LogsOf(m, d)' = LogsOf(m, d)
    BY <1>9 DEF CrashEffect, SameLogs, LogsOf
  <2>2. CASE run'[m].pc = "ended" /\ run'[m].mode = run[m].mode
    <3>1. run'[m].mode # "partial" => CompletedWhole(m)'
      BY <1>1, <1>9, <2>1, <2>2 DEF CrashEffect, SameRow, CompletedWhole
    <3> QED
      BY <1>2, <2>2, <3>1 DEF EarlierWhole, CleanupWhole, DrainWhole, FinishesLast
  <2>3. CASE run[m].pc = "none" /\ run'[m].pc = "none"
    BY <1>1, <1>4, <1>9, <2>3 DEF CrashEffect, SameRow, RowCoherent
  <2> QED
    BY <1>9, <2>2, <2>3 DEF CrashEffect
<1> QED
  BY <1>5, <1>6, <1>7, <1>8, <1>9 DEF StepEffect, NextEffect

\* An execution, or a full retry, that ends completed has finished each entry
\* whole, crashes or not, or not at all where a source could not be resolved;
\* its log rows are as many as its row counts, and then show each entry whole,
\* or fewer, because the database refused some.
THEOREM CompletedIsWhole == CrashSpec => []CompletedEntriesWhole
<1> DEFINE Kept(m) == LogsInOrder(m) /\ Apart(m) /\ InStages(m) /\ NothingLost(m)
           Inv == \A m \in Migrations : Kept(m)
<1>1. Init => Inv
  <2> SUFFICES ASSUME Init, NEW m \in Migrations PROVE Kept(m)
    OBVIOUS
  <2>1. /\ run[m].pc = "none" /\ run[m].entry = 1 /\ job[m].pc = "none"
        /\ job[m].results = <<>> /\ row[m].status = "pending"
    BY DEF Init, NewRun, NewJob, NewRecord
  <2>2. LogsInOrder(m) /\ Apart(m) /\ InStages(m)
    BY <2>1 DEF LogsInOrder, Apart, InStages, Live, JobOver, Cleaning, Active, Draining
  <2>3. NothingLost(m)
    BY <2>1 DEF NothingLost, Active, Cleaning, Draining
  <2> QED
    BY <2>2, <2>3
<1>2. IInv /\ IInv' /\ Inv /\ [Next \/ Restart]_vars => Inv'
  <2> SUFFICES ASSUME IInv, IInv', Inv, [Next \/ Restart]_vars, NEW m \in Migrations
               PROVE  Kept(m)'
    OBVIOUS
  <2>1. StepEffect(m) /\ LogsInOrder(m) /\ Apart(m) /\ InStages(m) /\ NothingLost(m)
    BY StepEffects
  <2> QED
    BY <2>1, LogsStayInOrder, ApartStay, StagesStay, NothingLostStay
<1>3. IInv /\ (\A m \in Migrations : CountersCoherent(m)) /\ Inv => CompletedEntriesWhole
  <2> SUFFICES ASSUME IInv, \A n \in Migrations : CountersCoherent(n), Inv,
                      NEW m \in stored, row[m].status = "completed", run[m].mode # "partial"
               PROVE  /\ \A e \in Entries : WholeOrUnresolved(e, Cardinality(LogsOf(m, e)))
                      /\ Cardinality(Rows(m)) <= row[m].processed
                      /\ Cardinality(Rows(m)) = row[m].processed =>
                           \A e \in Entries :
                             WholeOrUnresolved(e, Cardinality(LogsOf(m, e) \cap Rows(m)))
    BY DEF CompletedEntriesWhole
  <2>1. m \in Migrations /\ TypeOK /\ CountersCoherent(m) /\ NothingLost(m)
    BY DEF IInv, TypeOK
  <2>2. \A e \in Entries : WholeOrUnresolved(e, Cardinality(LogsOf(m, e)))
    BY <2>1 DEF NothingLost
  <2>3. row[m].processed = Len(logs[m])
    BY <2>1 DEF CountersCoherent, Final
  <2>4. Len(logs[m]) \in Nat /\ DOMAIN logs[m] = 1..Len(logs[m])
    BY <2>1, LenProperties DEF TypeOK
  <2>5. IsFiniteSet(DOMAIN logs[m]) /\ Cardinality(DOMAIN logs[m]) = row[m].processed
    BY <2>3, <2>4, FS_Interval
  <2>6. Rows(m) \in SUBSET DOMAIN logs[m]
    BY DEF Rows
  <2>7. /\ Cardinality(Rows(m)) <= Cardinality(DOMAIN logs[m])
        /\ Cardinality(Rows(m)) = Cardinality(DOMAIN logs[m]) => Rows(m) = DOMAIN logs[m]
    BY <2>5, <2>6, FS_Subset
  <2>8. Cardinality(Rows(m)) = row[m].processed =>
          \A e \in Entries : LogsOf(m, e) \cap Rows(m) = LogsOf(m, e)
    BY <2>5, <2>7 DEF LogsOf
  <2> QED
    BY <2>2, <2>5, <2>7, <2>8
<1> QED
  BY <1>1, <1>2, <1>3, Invariance, AlwaysCounted, PTL DEF CrashSpec

-----------------------------------------------------------------------------
(* A retry spares what succeeded.                                          *)

\* The plan builder lists a source once per entry; failedSet, which keys an item
\* by entry and path, relies on it.
DistinctPaths ==
  \A e \in Entries : \A i, j \in Items(e) : PathOf(e, i) = PathOf(e, j) => i = j

\* The parts of InOnePlace.
PathLogged(m, e, p) == \E k \in DOMAIN logs[m] : logs[m][k].entry = e /\ logs[m][k].path = p
Told(q, p) == \E k \in DOMAIN q : q[k].path = p
TellsOnce(q) == \A j, k \in DOMAIN q : q[j].path = q[k].path => j = k
LoggedOnce(m) ==
  \A j, k \in DOMAIN logs[m] :
    logs[m][j].entry = logs[m][k].entry /\ logs[m][j].path = logs[m][k].path => j = k
CleanupApart(m) ==
  run[m].pc \in Cleaning =>
    \A i \in run[m].left \cup run[m].batch :
      ~PathLogged(m, run[m].entry, PathOf(run[m].entry, i))
QueueApart(m) ==
  /\ TellsOnce(chan[m].q)
  /\ \A k \in DOMAIN chan[m].q : ~PathLogged(m, run[m].entry, chan[m].q[k].path)
ResultsApart(m) ==
  /\ TellsOnce(job[m].results)
  /\ \A k \in DOMAIN job[m].results :
       /\ ~PathLogged(m, run[m].entry, job[m].results[k].path)
       /\ ~Told(chan[m].q, job[m].results[k].path)
ItemsApart(m) ==
  \A i \in Working(m) :
    /\ ~PathLogged(m, run[m].entry, PathOf(run[m].entry, i))
    /\ ~Told(chan[m].q, PathOf(run[m].entry, i))
    /\ ~Told(job[m].results, PathOf(run[m].entry, i))

LEMMA InOnePlaceParts ==
  ASSUME NEW m \in Migrations
  PROVE  InOnePlace(m) <=>
           /\ LoggedOnce(m) /\ CleanupApart(m) /\ QueueApart(m)
           /\ Live(m) => ResultsApart(m) /\ ItemsApart(m)
  BY DEF InOnePlace, LoggedOnce, CleanupApart, QueueApart, ResultsApart, ItemsApart,
    PathLogged, Told, TellsOnce

\* What sending and receiving change of what a channel or a list of results tells.
LEMMA ToldFacts ==
  ASSUME NEW q \in Seq(Event), TellsOnce(q)
  PROVE  /\ TellsOnce(<<>>) /\ \A p : ~Told(<<>>, p)
         /\ \A x \in Event : ~Told(q, x.path) =>
              /\ TellsOnce(Append(q, x))
              /\ \A p : Told(Append(q, x), p) <=> Told(q, p) \/ p = x.path
         /\ q # <<>> =>
              /\ Told(q, Head(q).path) /\ TellsOnce(Tail(q))
              /\ \A p : Told(Tail(q), p) <=> Told(q, p) /\ p # Head(q).path
<1>1. Len(q) \in Nat /\ DOMAIN q = 1..Len(q)
  BY LenProperties
<1>2. TellsOnce(<<>>) /\ \A p : ~Told(<<>>, p)
  BY DEF TellsOnce, Told
<1>3. ASSUME NEW x \in Event, ~Told(q, x.path)
      PROVE  /\ TellsOnce(Append(q, x))
             /\ \A p : Told(Append(q, x), p) <=> Told(q, p) \/ p = x.path
  <2> DEFINE n == Len(q) + 1
             s == Append(q, x)
  <2>1. s \in Seq(Event) /\ Len(s) = n /\ s[n] = x /\ \A k \in 1..Len(q) : s[k] = q[k]
    BY AppendProperties
  <2>2. DOMAIN s = 1..n
    BY <2>1, LenProperties
  <2>3. DOMAIN s = DOMAIN q \cup {n} /\ n \notin DOMAIN q
    BY <1>1, <2>2
  <2>4. \A k \in DOMAIN q : s[k] = q[k] /\ q[k].path # x.path
    BY <1>1, <1>3, <2>1 DEF Told
  <2> HIDE DEF s, n
  <2> QED
    BY <2>1, <2>3, <2>4 DEF TellsOnce, Told, s
<1>4. ASSUME q # <<>>
      PROVE  /\ Told(q, Head(q).path) /\ TellsOnce(Tail(q))
             /\ \A p : Told(Tail(q), p) <=> Told(q, p) /\ p # Head(q).path
  <2> DEFINE t == Tail(q)
  <2>1. /\ t \in Seq(Event) /\ Len(t) = Len(q) - 1 /\ Len(q) \in Nat \ {0}
        /\ Head(q) = q[1] /\ \A k \in 1..Len(t) : t[k] = q[k + 1]
    BY <1>1, <1>4, EmptySeq, HeadTailProperties
  <2>2. DOMAIN t = 1..(Len(q) - 1)
    BY <2>1, LenProperties
  <2>3. 1 \in DOMAIN q /\ \A k \in DOMAIN t : k + 1 \in DOMAIN q /\ k + 1 # 1 /\ t[k] = q[k + 1]
    BY <1>1, <2>1, <2>2
  <2>4. \A k \in DOMAIN q : k = 1 \/ (k - 1 \in DOMAIN t /\ q[k] = t[k - 1])
    BY <1>1, <2>1, <2>2
  <2>5. \A j, k \in DOMAIN t : j \in Nat /\ k \in Nat /\ (j + 1 = k + 1 => j = k)
    BY <2>1, <2>2
  <2> HIDE DEF t
  <2>6. TellsOnce(t)
    BY <2>3, <2>5 DEF TellsOnce
  <2>7. Told(q, Head(q).path)
    BY <2>1, <2>3 DEF Told
  <2>8. ASSUME NEW p PROVE Told(t, p) => Told(q, p) /\ p # Head(q).path
    BY <2>1, <2>3 DEF Told, TellsOnce
  <2>9. ASSUME NEW p PROVE Told(q, p) /\ p # Head(q).path => Told(t, p)
    BY <2>1, <2>4 DEF Told
  <2> QED
    BY <2>6, <2>7, <2>8, <2>9 DEF t
<1> QED
  BY <1>2, <1>3, <1>4

\* What one more log row adds to what is logged.
LEMMA PathLoggedOne ==
  ASSUME TypeOK, TypeOK', NEW m \in Migrations, NEW ev, LogsOne(m, ev)
  PROVE  /\ \A e, p : PathLogged(m, e, p)' <=>
                        PathLogged(m, e, p) \/ (e = run[m].entry /\ p = ev.path)
         /\ LoggedOnce(m) /\ ~PathLogged(m, run[m].entry, ev.path) => LoggedOnce(m)'
<1>1. PICK n : /\ DOMAIN logs'[m] = DOMAIN logs[m] \cup {n} /\ n \notin DOMAIN logs[m]
               /\ logs'[m][n].entry = run[m].entry /\ logs'[m][n].path = ev.path
               /\ \A k \in DOMAIN logs[m] : logs'[m][k] = logs[m][k]
  BY LoggedOne
<1>2. \A e, p : PathLogged(m, e, p)' <=>
                  PathLogged(m, e, p) \/ (e = run[m].entry /\ p = ev.path)
  BY <1>1 DEF PathLogged
<1>3. LoggedOnce(m) /\ ~PathLogged(m, run[m].entry, ev.path) => LoggedOnce(m)'
  BY <1>1 DEF LoggedOnce, PathLogged
<1> QED
  BY <1>2, <1>3

\* No step reports an item twice, nor takes one up again: the run goroutine.
LEMMA RunReportsOnce ==
  ASSUME DistinctPaths, IInv, IInv', NEW m \in Migrations, RunEffect(m), LogsInOrder(m),
         Apart(m), InOnePlace(m)
  PROVE  InOnePlace(m)'
<1> DEFINE e == run[m].entry
<1>1. /\ TypeOK /\ TypeOK' /\ JobCoherent(m)
      /\ LoggedOnce(m) /\ CleanupApart(m) /\ QueueApart(m)
      /\ Live(m) => ResultsApart(m) /\ ItemsApart(m)
  BY InOnePlaceParts DEF IInv, Coherent
<1>2. ASSUME LoggedOnce(m)', CleanupApart(m)', QueueApart(m)',
             Live(m)' => ResultsApart(m)' /\ ItemsApart(m)'
      PROVE  InOnePlace(m)'
  BY <1>2 DEF InOnePlace, LoggedOnce, CleanupApart, QueueApart, ResultsApart, ItemsApart,
    PathLogged, Told, TellsOnce
<1>3. /\ chan[m].q \in Seq(Event)
      /\ run[m].pc \notin Draining => ~Live(m) /\ chan[m].q = <<>>
      /\ chan[m].closed => ~Live(m)
  BY <1>1 DEF TypeOK, Channel, JobCoherent, Live
<1>4. SameLogs(m) => LoggedOnce(m)' /\ \A d, p : PathLogged(m, d, p)' <=> PathLogged(m, d, p)
  BY <1>1 DEF SameLogs, LoggedOnce, PathLogged
<1> USE DEF Cleaning, Draining, Moves, Ahead, SameJob
\* The position changes, and nothing new is at hand.
<1>5. ASSUME SameJob(m), SameLogs(m), run'[m].entry = e,
             run'[m].pc \in Cleaning =>
               /\ run[m].pc \in Cleaning
               /\ run'[m].left \cup run'[m].batch \subseteq run[m].left \cup run[m].batch
      PROVE  InOnePlace(m)'
  <2>1. CleanupApart(m)' /\ QueueApart(m)'
    BY <1>1, <1>4, <1>5 DEF CleanupApart, QueueApart
  <2>2. Live(m)' => Live(m)
    BY <1>5 DEF Live
  <2>3. Working(m)' = Working(m)
    BY <1>5 DEF Working
  <2>4. Live(m) => ResultsApart(m)' /\ ItemsApart(m)'
    BY <1>1, <1>4, <1>5, <2>3 DEF ResultsApart, ItemsApart
  <2> QED
    BY <1>2, <1>4, <1>5, <2>1, <2>2, <2>4
\* The entry is left, or its cleanup begins.
<1>6. ASSUME SameLogs(m), chan'[m].q = <<>>, ~Live(m)', CleanupApart(m)'
      PROVE  InOnePlace(m)'
  BY <1>2, <1>4, <1>6, EmptySeq DEF QueueApart, TellsOnce
<1>7. ASSUME SameLogs(m), e \in Entries, NEW batch \in SUBSET Items(e), Starts(m, batch),
             \A i \in batch : ~PathLogged(m, e, PathOf(e, i))
      PROVE  InOnePlace(m)'
  <2>1. /\ job'[m].todo = batch /\ job'[m].queued = {} /\ job'[m].busy = {}
        /\ job'[m].results = <<>> /\ chan'[m].q = <<>>
        /\ run'[m].pc = "drain" /\ run'[m].entry = e
    BY <1>7, StartFacts DEF Starts
  <2>2. Working(m)' = batch
    BY <2>1 DEF Working
  <2>3. CleanupApart(m)' /\ QueueApart(m)' /\ ResultsApart(m)'
    BY <2>1, EmptySeq DEF CleanupApart, QueueApart, ResultsApart, TellsOnce
  <2>4. ItemsApart(m)'
    BY <1>4, <1>7, <2>1, <2>2, EmptySeq DEF ItemsApart, Told
  <2> QED
    BY <1>2, <1>4, <1>7, <2>3, <2>4
<1>8. CASE BeforeEntries(m)
  BY <1>5, <1>8 DEF BeforeEntries
<1>9. CASE AtEntry(m)
  <2>1. SameLogs(m) /\ \A p : ~PathLogged(m, e, p)
    BY <1>9 DEF AtEntry, LogsInOrder, PathLogged
  <2>2. ~Live(m) /\ chan[m].q = <<>>
    BY <1>3, <1>9 DEF AtEntry
  <2>3. CASE e \in Entries /\ Starts(m, Taken(m))
    <3>1. Taken(m) \in SUBSET Items(e)
      BY DEF Taken
    <3> QED
      BY <1>7, <2>1, <2>3, <3>1
  <2>4. CASE SameJob(m) /\ run'[m].entry = e /\ run'[m].pc \in {"cleanup", "finish"}
    <3>1. CleanupApart(m)'
      BY <1>4, <2>1, <2>4 DEF CleanupApart
    <3> QED
      BY <1>6, <2>1, <2>2, <2>4, <3>1 DEF Live
  <2>5. CASE SameJob(m) /\ Ahead(m)
    BY <1>6, <2>1, <2>2, <2>5 DEF CleanupApart, Live
  <2> QED
    BY <1>9, <2>3, <2>4, <2>5 DEF AtEntry
<1>10. CASE AtCleanup(m)
  <2>1. run[m].pc \in Cleaning /\ ~Live(m) /\ chan[m].q = <<>>
    BY <1>3, <1>10 DEF AtCleanup
  <2>2. e \in Entries /\ run[m].left \subseteq Items(e) /\ run[m].batch \subseteq Items(e)
        /\ run[m].left \cap run[m].batch = {}
    BY <1>1, <2>1 DEF JobCoherent, Apart
  <2>3. ASSUME NEW i \in run[m].left, run'[m].left = run[m].left \ {i}, run'[m].entry = e,
               run'[m].batch = run[m].batch, SameJob(m),
               LogsOne(m, Ev(PathOf(e, i), "failed", FALSE))
        PROVE  InOnePlace(m)'
    <3>1. ~PathLogged(m, e, PathOf(e, i))
      BY <1>1, <2>1 DEF CleanupApart
    <3>2. /\ LoggedOnce(m)'
          /\ \A p : PathLogged(m, e, p)' <=> PathLogged(m, e, p) \/ p = PathOf(e, i)
      BY <1>1, <2>3, <3>1, PathLoggedOne DEF Ev
    <3>3. \A j \in run'[m].left \cup run'[m].batch : PathOf(e, j) # PathOf(e, i)
      BY <2>2, <2>3 DEF DistinctPaths
    <3>4. CleanupApart(m)'
      BY <1>1, <2>1, <2>3, <3>2, <3>3 DEF CleanupApart
    <3>5. QueueApart(m)' /\ ~Live(m)'
      BY <2>1, <2>3, EmptySeq DEF QueueApart, TellsOnce, Live
    <3> QED
      BY <1>2, <3>2, <3>4, <3>5
  <2>4. CASE SameLogs(m) /\ Starts(m, run[m].batch)
    BY <1>1, <1>7, <2>1, <2>2, <2>4 DEF CleanupApart
  <2>5. CASE SameJob(m) /\ SameLogs(m) /\ Ahead(m)
    BY <1>6, <2>1, <2>5 DEF CleanupApart, Live
  <2> QED
    BY <1>5, <1>10, <2>1, <2>3, <2>4, <2>5 DEF AtCleanup
<1>11. CASE AtDrain(m)
  <2>1. ASSUME job'[m] = job[m], Moves(m, "drainSave"), chan[m].q # <<>>,
               chan'[m] = [chan[m] EXCEPT !.q = Tail(chan[m].q)], LogsOne(m, Head(chan[m].q))
        PROVE  InOnePlace(m)'
    <3> DEFINE p0 == Head(chan[m].q).path
    <3>1. chan'[m].q = Tail(chan[m].q)
      BY <1>1, <2>1 DEF TypeOK, Channel
    <3>2. TellsOnce(chan[m].q) /\ \A p : Told(chan[m].q, p) => ~PathLogged(m, e, p)
      BY <1>1 DEF QueueApart, Told
    <3>3. /\ Told(chan[m].q, p0) /\ TellsOnce(Tail(chan[m].q))
          /\ \A p : Told(Tail(chan[m].q), p) <=> Told(chan[m].q, p) /\ p # p0
      BY <1>3, <2>1, <3>2, ToldFacts
    <3>4. LoggedOnce(m)' /\ \A p : PathLogged(m, e, p)' <=> PathLogged(m, e, p) \/ p = p0
      BY <1>1, <2>1, <3>2, <3>3, PathLoggedOne
    <3>5. \A p : Told(Tail(chan[m].q), p) => ~PathLogged(m, e, p)'
      BY <3>2, <3>3, <3>4
    <3>6. QueueApart(m)' /\ CleanupApart(m)'
      BY <2>1, <3>1, <3>3, <3>5 DEF QueueApart, CleanupApart, Told
    <3>7. ResultsApart(m) => ResultsApart(m)'
      BY <2>1, <3>1, <3>3, <3>4 DEF ResultsApart
    <3>8. ItemsApart(m) => ItemsApart(m)'
      BY <2>1, <3>1, <3>3, <3>4 DEF ItemsApart, Working
    <3>9. Live(m)' => Live(m)
      BY <2>1 DEF Live
    <3> QED
      BY <1>1, <1>2, <3>4, <3>6, <3>7, <3>8, <3>9
  <2>2. CASE SameLogs(m) /\ SameJob(m) /\ chan[m].q = <<>> /\ chan[m].closed /\ Ahead(m)
    BY <1>3, <1>6, <2>2 DEF CleanupApart, Live
  <2> QED
    BY <1>5, <1>11, <2>1, <2>2 DEF AtDrain
<1>12. CASE AfterEntries(m)
  BY <1>5, <1>12 DEF AfterEntries
<1> QED
  BY <1>8, <1>9, <1>10, <1>11, <1>12 DEF RunEffect

\* ... and its Migrate* goroutine.
LEMMA JobReportsOnce ==
  ASSUME DistinctPaths, IInv, NEW m \in Migrations, JobEffect(m), Apart(m), InOnePlace(m)
  PROVE  InOnePlace(m)'
<1> DEFINE e == run[m].entry
           q == chan[m].q
           r == job[m].results
<1>1. /\ TypeOK /\ Coherent /\ JobCoherent(m) /\ UNCHANGED <<run, logs>>
      /\ LoggedOnce(m) /\ CleanupApart(m) /\ QueueApart(m)
      /\ Live(m) => ResultsApart(m) /\ ItemsApart(m)
  BY InOnePlaceParts DEF IInv, Coherent, JobEffect, JobUnchanged
<1>2. ASSUME QueueApart(m)', Live(m)' => ResultsApart(m)' /\ ItemsApart(m)'
      PROVE  InOnePlace(m)'
  <2>1. LoggedOnce(m)' /\ CleanupApart(m)'
    BY <1>1 DEF LoggedOnce, CleanupApart, PathLogged
  <2> QED
    BY <1>2, <2>1 DEF InOnePlace, LoggedOnce, CleanupApart, QueueApart, ResultsApart,
      ItemsApart, PathLogged, Told, TellsOnce
<1>3. run' = run /\ \A d, p : PathLogged(m, d, p)' <=> PathLogged(m, d, p)
  BY <1>1 DEF PathLogged
<1>4. Live(m)
  <2>1. job[m].pc \notin Fanning => job[m].queued = {} /\ job[m].busy = {}
    BY <1>1 DEF JobCoherent, Idle
  <2> QED
    BY <2>1 DEF JobEffect, OnlyMoves, GivesUp, EndsItem, MovesBucket, Live, JobOver, Fanning
<1>5. /\ q \in Seq(Event) /\ r \in Seq(Event) /\ TellsOnce(q) /\ TellsOnce(r)
      /\ \A p : Told(q, p) => ~PathLogged(m, e, p)
      /\ \A p : Told(r, p) => ~PathLogged(m, e, p) /\ ~Told(q, p)
      /\ ItemsApart(m) /\ e \in Entries
      /\ job[m].todo \cup job[m].queued \cup job[m].busy \subseteq Items(e)
      /\ job[m].todo \cap (job[m].queued \cup job[m].busy) = {}
      /\ job[m].queued \cap job[m].busy = {}
  BY <1>1, <1>4 DEF TypeOK, Channel, JobState, QueueApart, ResultsApart, Told, JobCoherent,
    Apart, Live, Draining, Cleaning
<1>6. \A i \in Working(m), s \in {"success", "failed", "cancelled"}, x \in BOOLEAN :
        /\ Ev(ItemPath(m, i), s, x) \in Event
        /\ Ev(ItemPath(m, i), s, x).path = PathOf(e, i)
  BY <1>1, <1>4, LivePaths DEF Live, Working, Ev, ItemPath
<1>7. \A i \in Working(m) :
        /\ ~PathLogged(m, e, PathOf(e, i)) /\ ~Told(q, PathOf(e, i)) /\ ~Told(r, PathOf(e, i))
        /\ \A j \in Working(m) : PathOf(e, i) = PathOf(e, j) => i = j
  BY <1>5 DEF ItemsApart, DistinctPaths, Working
\* What an item or a bucket does to the three places, in general.
<1>8. ASSUME NEW q2, NEW r2, chan'[m].q = q2, job'[m].results = r2, TellsOnce(q2), TellsOnce(r2),
             \A p : Told(q2, p) => ~PathLogged(m, e, p),
             Live(m)' => \A p : Told(r2, p) => ~PathLogged(m, e, p) /\ ~Told(q2, p),
             Live(m)' => \A i \in Working(m)' : /\ i \in Working(m)
                                                /\ ~Told(q2, PathOf(e, i))
                                                /\ ~Told(r2, PathOf(e, i))
      PROVE  InOnePlace(m)'
  <2>1. QueueApart(m)'
    BY <1>3, <1>8 DEF QueueApart, Told
  <2>2. Live(m)' => ResultsApart(m)'
    BY <1>3, <1>8 DEF ResultsApart, Told
  <2>3. Live(m)' => ItemsApart(m)'
    BY <1>3, <1>7, <1>8 DEF ItemsApart
  <2> QED
    BY <1>2, <2>1, <2>2, <2>3
<1>9. ASSUME NEW i \in Working(m), NEW s \in {"success", "failed", "cancelled"}, NEW x \in BOOLEAN
      PROVE  LET ev == Ev(ItemPath(m, i), s, x) IN
             /\ TellsOnce(Append(q, ev)) /\ TellsOnce(Append(r, ev))
             /\ \A p : Told(Append(q, ev), p) <=> Told(q, p) \/ p = PathOf(e, i)
             /\ \A p : Told(Append(r, ev), p) <=> Told(r, p) \/ p = PathOf(e, i)
  <2> DEFINE ev == Ev(ItemPath(m, i), s, x)
  <2>1. ev \in Event /\ ev.path = PathOf(e, i) /\ ~Told(q, ev.path) /\ ~Told(r, ev.path)
    BY <1>6, <1>7
  <2> HIDE DEF ev
  <2>2. /\ TellsOnce(Append(q, ev)) /\ TellsOnce(Append(r, ev))
        /\ \A p : Told(Append(q, ev), p) <=> Told(q, p) \/ p = PathOf(e, i)
        /\ \A p : Told(Append(r, ev), p) <=> Told(r, p) \/ p = PathOf(e, i)
    BY <1>5, <2>1, ToldFacts
  <2> QED
    BY <2>2 DEF ev
<1>10. CASE OnlyMoves(m)
  <2>1. chan'[m].q = q /\ job'[m].results = r /\ Working(m)' = Working(m)
    BY <1>10 DEF OnlyMoves, SameItems, SameResults, SameQueue, Working
  <2> QED
    BY <1>5, <1>7, <1>8, <2>1
<1>11. CASE GivesUp(m)
  <2>1. PICK i \in job[m].todo : Sends(m, CancelledEvent(m, i))
    BY <1>11 DEF GivesUp
  <2>2. i \in Working(m)
    BY DEF Working
  <2>3. /\ chan'[m].q = Append(q, Ev(ItemPath(m, i), "cancelled", FALSE))
        /\ job'[m].results = r /\ ~Live(m)'
    BY <1>11, <2>1 DEF GivesUp, Sends, CancelledEvent, SameResults, Live, JobOver
  <2>4. /\ TellsOnce(chan'[m].q)
        /\ \A p : Told(chan'[m].q, p) <=> Told(q, p) \/ p = PathOf(e, i)
    BY <1>9, <2>2, <2>3
  <2>5. \A p : Told(chan'[m].q, p) => ~PathLogged(m, e, p)
    BY <1>5, <1>7, <2>2, <2>4
  <2> QED
    BY <1>5, <1>8, <2>3, <2>4, <2>5
<1>12. CASE EndsItem(m)
  <2>1. PICK i \in job[m].todo, s \in {"success", "failed"}, b \in BOOLEAN :
          job'[m].todo = job[m].todo \ {i} /\ Sends(m, Ev(ItemPath(m, i), s, b))
    BY <1>12 DEF EndsItem
  <2>2. i \in Working(m) /\ Working(m)' \subseteq Working(m) \ {i}
    BY <1>5, <1>12, <2>1 DEF EndsItem, Working
  <2>3. chan'[m].q = Append(q, Ev(ItemPath(m, i), s, b)) /\ job'[m].results = r
    BY <1>12, <2>1 DEF EndsItem, Sends, SameResults
  <2>4. /\ TellsOnce(chan'[m].q)
        /\ \A p : Told(chan'[m].q, p) <=> Told(q, p) \/ p = PathOf(e, i)
    BY <1>9, <2>1, <2>2, <2>3
  <2>5. /\ \A p : Told(chan'[m].q, p) => ~PathLogged(m, e, p)
        /\ \A p : Told(r, p) => ~PathLogged(m, e, p) /\ ~Told(chan'[m].q, p)
    BY <1>5, <1>7, <2>2, <2>4
  <2>6. \A j \in Working(m)' : /\ j \in Working(m) /\ ~Told(chan'[m].q, PathOf(e, j))
                               /\ ~Told(r, PathOf(e, j))
    BY <1>7, <2>2, <2>4
  <2> QED
    BY <1>5, <1>8, <2>3, <2>4, <2>5, <2>6
<1>13. CASE MovesBucket(m)
  <2>1. CASE SameQueue(m) /\ SameResults(m) /\ Working(m)' = Working(m)
    <3>1. chan'[m].q = q /\ job'[m].results = r
      BY <2>1 DEF SameQueue, SameResults
    <3> QED
      BY <1>5, <1>7, <1>8, <2>1, <3>1
  <2>2. ASSUME SameQueue(m), job'[m].todo = job[m].todo, job'[m].queued = job[m].queued,
               NEW i \in job[m].busy, NEW s \in {"success", "failed"}, NEW b \in BOOLEAN,
               job'[m].busy = job[m].busy \ {i},
               job'[m].results = Append(job[m].results, Ev(ItemPath(m, i), s, b))
        PROVE  InOnePlace(m)'
    <3>1. i \in Working(m) /\ Working(m)' \subseteq Working(m) \ {i}
      BY <1>5, <2>2 DEF Working
    <3>2. /\ TellsOnce(job'[m].results) /\ chan'[m].q = q
          /\ \A p : Told(job'[m].results, p) <=> Told(r, p) \/ p = PathOf(e, i)
      BY <1>9, <2>2, <3>1 DEF SameQueue
    <3>3. \A p : Told(job'[m].results, p) => ~PathLogged(m, e, p) /\ ~Told(q, p)
      BY <1>5, <1>7, <3>1, <3>2
    <3>4. \A j \in Working(m)' : /\ j \in Working(m) /\ ~Told(q, PathOf(e, j))
                                 /\ ~Told(job'[m].results, PathOf(e, j))
      BY <1>7, <3>1, <3>2
    <3> QED
      BY <1>5, <1>8, <3>2, <3>3, <3>4
  <2>3. ASSUME SameItems(m), r # <<>>, Sends(m, Head(r)), job'[m].results = Tail(r)
        PROVE  InOnePlace(m)'
    <3> DEFINE p0 == Head(r).path
    <3>1. /\ Head(r) \in Event /\ Told(r, p0) /\ TellsOnce(Tail(r))
          /\ \A p : Told(Tail(r), p) <=> Told(r, p) /\ p # p0
      BY <1>5, <2>3, ToldFacts, TailFacts
    <3>2. ~PathLogged(m, e, p0) /\ ~Told(q, p0)
      BY <1>5, <3>1
    <3>3. /\ chan'[m].q = Append(q, Head(r)) /\ TellsOnce(Append(q, Head(r)))
          /\ \A p : Told(Append(q, Head(r)), p) <=> Told(q, p) \/ p = p0
      BY <1>5, <2>3, <3>1, <3>2, ToldFacts DEF Sends
    <3>4. Working(m)' = Working(m)
      BY <2>3 DEF SameItems, Working
    <3>5. /\ \A p : Told(Append(q, Head(r)), p) => ~PathLogged(m, e, p)
          /\ \A p : Told(Tail(r), p) => ~PathLogged(m, e, p) /\ ~Told(Append(q, Head(r)), p)
      BY <1>5, <3>1, <3>2, <3>3
    <3>6. \A i \in Working(m) : /\ ~Told(Append(q, Head(r)), PathOf(e, i))
                                /\ ~Told(Tail(r), PathOf(e, i))
      BY <1>7, <3>1, <3>3
    <3> HIDE DEF q, r
    <3> QED
      BY <1>8, <2>3, <3>1, <3>3, <3>4, <3>5, <3>6
  <2>4. ASSUME job'[m].todo = job[m].todo,
               \E i \in job[m].queued : /\ job'[m].queued = job[m].queued \ {i}
                                        /\ job'[m].busy = job[m].busy \cup {i}
        PROVE  Working(m)' = Working(m)
    BY <2>4 DEF Working
  <2>5. ASSUME job'[m].busy = job[m].busy,
               \E i \in job[m].todo : /\ job'[m].todo = job[m].todo \ {i}
                                      /\ job'[m].queued = job[m].queued \cup {i}
        PROVE  Working(m)' = Working(m)
    BY <2>5 DEF Working
  <2> QED
    BY <1>13, <2>1, <2>2, <2>3, <2>4, <2>5 DEF MovesBucket
<1> QED
  BY <1>10, <1>11, <1>12, <1>13 DEF JobEffect

LEMMA OnePlaceStays ==
  ASSUME DistinctPaths, IInv, IInv', NEW m \in Migrations, StepEffect(m), LogsInOrder(m),
         Apart(m), InOnePlace(m)
  PROVE  InOnePlace(m)'
<1>1. /\ JobCoherent(m) /\ LoggedOnce(m) /\ CleanupApart(m) /\ QueueApart(m)
      /\ Live(m) => ResultsApart(m) /\ ItemsApart(m)
  BY InOnePlaceParts DEF IInv, Coherent
<1>2. ASSUME SameLogs(m), chan'[m].q = <<>>, ~Live(m)', run'[m].pc \notin Cleaning
      PROVE  InOnePlace(m)'
  <2>1. LoggedOnce(m)'
    BY <1>1, <1>2 DEF SameLogs, LoggedOnce
  <2> QED
    BY <1>2, <2>1, EmptySeq DEF InOnePlace, LoggedOnce
<1>3. ASSUME UNCHANGED <<run[m], logs[m], job[m], chan[m]>>
      PROVE  InOnePlace(m)'
  BY <1>3 DEF InOnePlace, Live, Working
<1>4. CASE Same(m)
  BY <1>3, <1>4 DEF Same
<1>5. CASE RequestEffect(m)
  <2>1. CASE run'[m] = run[m]
    BY <1>3, <1>5, <2>1 DEF RequestEffect, SameJob, SameLogs
  <2>2. CASE run[m].pc = "none" /\ run'[m].pc = "launched"
    <3>1. chan[m].q = <<>> /\ ~Live(m)
      BY <1>1, <2>2 DEF JobCoherent, Live, Draining
    <3> QED
      BY <1>2, <1>5, <2>2, <3>1 DEF RequestEffect, SameJob, Live, Cleaning
  <2> QED
    BY <1>5, <2>1, <2>2 DEF RequestEffect
<1>6. CASE CrashEffect(m)
  BY <1>2, <1>6 DEF CrashEffect, Live, JobOver, Cleaning
<1> QED
  BY <1>4, <1>5, <1>6, RunReportsOnce, JobReportsOnce DEF StepEffect, NextEffect

\* Log rows are only ever added: what has failed once has failed for good.
LEMMA FailuresStay ==
  ASSUME IInv, IInv', NEW m \in Migrations, StepEffect(m)
  PROVE  FailedItems(m) \subseteq FailedItems(m)'
<1>1. TypeOK /\ TypeOK'
  BY DEF IInv
<1>2. SameLogs(m) => FailedItems(m)' = FailedItems(m)
  BY DEF SameLogs, FailedItems, Rows
<1>3. ASSUME NEW ev, LogsOne(m, ev) PROVE FailedItems(m) \subseteq FailedItems(m)'
  <2>1. /\ DOMAIN logs[m] \subseteq DOMAIN logs'[m]
        /\ \A k \in DOMAIN logs[m] : logs'[m][k] = logs[m][k]
    BY <1>1, <1>3, LoggedOne
  <2> QED
    BY <2>1 DEF FailedItems, Rows
<1>4. \/ SameLogs(m)
      \/ \E ev : LogsOne(m, ev)
  BY DEF StepEffect, NextEffect, Same, RunEffect, BeforeEntries, AtEntry, AtCleanup, AtDrain,
    AfterEntries, JobEffect, JobUnchanged, RequestEffect, CrashEffect, SameLogs
<1> QED
  BY <1>2, <1>3, <1>4

\* A partial retry picks up what has failed, and nothing else on its way.
LEMMA OnlyFailuresStay ==
  ASSUME IInv, IInv', NEW m \in Migrations, StepEffect(m), OnlyFailures(m),
         \A o \in Migrations : FailedItems(o) \subseteq FailedItems(o)'
  PROVE  OnlyFailures(m)'
<1> DEFINE e == run[m].entry
           partial == run[m].mode = "partial"
<1>1. /\ TypeOK /\ JobCoherent(m) /\ run[m].origin \subseteq Migrations
      /\ Live(m) => run[m].pc \in Draining
      /\ run[m].pc \in Cleaning => e \in Entries /\ run[m].batch \subseteq Items(e)
  BY DEF IInv, Coherent, TypeOK, RunState, JobCoherent, Live
<1>2. /\ partial => \A o \in run[m].origin : run[m].sel \subseteq FailedItems(o)'
      /\ partial /\ run[m].pc \in Cleaning => \A i \in run[m].batch : Selected(m, e, i)
      /\ partial /\ Live(m) => \A i \in Working(m) : Selected(m, e, i)
  BY <1>1 DEF OnlyFailures
<1> USE DEF Cleaning, Draining, Moves, Ahead
<1>3. ASSUME run'[m].mode = run[m].mode, run'[m].sel = run[m].sel, run'[m].origin = run[m].origin,
             partial /\ run'[m].pc \in Cleaning =>
               run'[m].entry = e /\ \A i \in run'[m].batch : Selected(m, e, i),
             partial /\ Live(m)' =>
               run'[m].entry = e /\ \A i \in Working(m)' : Selected(m, e, i)
      PROVE  OnlyFailures(m)'
  BY <1>2, <1>3 DEF OnlyFailures, Selected
<1>4. job'[m] = job[m] => (Live(m)' <=> Live(m)) /\ Working(m)' = Working(m)
  BY DEF Live, Working
<1>5. CASE Same(m)
  BY <1>2, <1>3, <1>4, <1>5 DEF Same
<1>6. CASE RunEffect(m)
  <2>1. /\ run'[m].mode = run[m].mode /\ run'[m].sel = run[m].sel
        /\ run'[m].origin = run[m].origin
    BY <1>6 DEF RunEffect
  <2>2. ASSUME NEW batch \in SUBSET Items(e), e \in Entries, Starts(m, batch),
               partial => \A i \in batch : Selected(m, e, i)
        PROVE  OnlyFailures(m)'
    <3>1. Working(m)' = batch
      BY <2>2, StartFacts DEF Working
    <3> QED
      BY <1>3, <2>1, <2>2, <3>1 DEF Starts
  <2>3. CASE BeforeEntries(m)
    BY <1>1, <1>2, <1>3, <1>4, <2>1, <2>3 DEF BeforeEntries, SameJob
  <2>4. CASE AtEntry(m)
    <3>1. Taken(m) \in SUBSET Items(e) /\ (partial => \A i \in Taken(m) : Selected(m, e, i))
      BY DEF Taken
    <3>2. CASE SameJob(m)
      BY <1>1, <1>3, <1>4, <2>1, <2>4, <3>2 DEF AtEntry, SameJob, Starts
    <3> QED
      BY <2>2, <2>4, <3>1, <3>2 DEF AtEntry
  <2>5. CASE AtCleanup(m)
    <3>1. CASE SameJob(m)
      BY <1>1, <1>2, <1>3, <1>4, <2>1, <2>5, <3>1 DEF AtCleanup, SameJob, Starts
    <3>2. CASE Starts(m, run[m].batch)
      BY <1>1, <1>2, <2>2, <2>5, <3>2 DEF AtCleanup
    <3> QED
      BY <2>5, <3>1, <3>2 DEF AtCleanup
  <2>6. CASE AtDrain(m)
    <3>1. job'[m] = job[m] /\ run'[m].pc \notin Cleaning
      BY <2>6 DEF AtDrain, SameJob
    <3>2. Live(m) => run'[m].entry = e
      BY <1>1, <2>6 DEF AtDrain, JobCoherent, Live
    <3> QED
      BY <1>2, <1>3, <1>4, <2>1, <3>1, <3>2
  <2>7. CASE AfterEntries(m)
    BY <1>1, <1>3, <1>4, <2>1, <2>7 DEF AfterEntries, SameJob
  <2> QED
    BY <1>6, <2>3, <2>4, <2>5, <2>6, <2>7 DEF RunEffect
<1>7. CASE JobEffect(m)
  <2>1. run' = run
    BY <1>7 DEF JobEffect, JobUnchanged
  <2>2. Working(m)' \subseteq Working(m)
    BY <1>7 DEF JobEffect, OnlyMoves, GivesUp, EndsItem, MovesBucket, SameItems, Working
  <2>3. Live(m)
    <3>1. job[m].pc \notin Fanning => job[m].queued = {} /\ job[m].busy = {}
      BY <1>1 DEF JobCoherent, Idle
    <3> QED
      BY <1>7, <3>1 DEF JobEffect, OnlyMoves, GivesUp, EndsItem, MovesBucket, Live, JobOver,
        Fanning
  <2> QED
    BY <1>2, <1>3, <2>1, <2>2, <2>3
<1>8. CASE RequestEffect(m)
  <2>1. CASE run'[m] = run[m]
    BY <1>2, <1>3, <1>4, <1>8, <2>1 DEF RequestEffect, SameJob
  <2>2. CASE run[m].pc = "none" /\ run'[m].pc = "launched" /\ AskedAgain(m)
    <3>1. ~Live(m)'
      BY <1>1, <1>4, <1>8, <2>2 DEF RequestEffect, SameJob
    <3>2. CASE /\ run'[m].mode = run[m].mode /\ run'[m].sel = run[m].sel
               /\ run'[m].origin = run[m].origin
      BY <1>3, <2>2, <3>1, <3>2
    <3>3. CASE run'[m].mode = "partial" =>
                 \E o \in Migrations : run'[m].origin = {o} /\ run'[m].sel = FailedItems(o)
      BY <2>2, <3>1, <3>3 DEF OnlyFailures
    <3> QED
      BY <2>2, <3>2, <3>3 DEF AskedAgain
  <2> QED
    BY <1>8, <2>1, <2>2 DEF RequestEffect
<1>9. CASE CrashEffect(m)
  <2>1. ~Live(m)' /\ run'[m].pc \notin Cleaning
    BY <1>9 DEF CrashEffect, Live, JobOver
  <2>2. CASE run'[m].mode # "partial"
    BY <2>2 DEF OnlyFailures
  <2> QED
    BY <1>3, <1>9, <2>1, <2>2 DEF CrashEffect
<1> QED
  BY <1>5, <1>6, <1>7, <1>8, <1>9 DEF StepEffect, NextEffect

\* A partial retry, of whatever migration in whatever plan, never runs again an
\* item its original migrated, provided that an entry lists no path twice.
THEOREM RetriesSpareSuccess ==
  ASSUME DistinctPaths
  PROVE  CrashSpec => []RetrySparesSuccess
<1> DEFINE Kept(m) == LogsInOrder(m) /\ Apart(m) /\ InOnePlace(m) /\ OnlyFailures(m)
           Inv == \A m \in Migrations : Kept(m)
<1>1. Init => Inv
  <2> SUFFICES ASSUME Init, NEW m \in Migrations PROVE Kept(m)
    OBVIOUS
  <2>1. /\ run[m].pc = "none" /\ run[m].entry = 1 /\ run[m].mode = "execute"
        /\ job[m].pc = "none" /\ chan[m].q = <<>> /\ logs[m] = <<>>
    BY DEF Init, NewRun, NewJob, NewChan
  <2>2. LogsInOrder(m) /\ Apart(m) /\ OnlyFailures(m)
    BY <2>1 DEF LogsInOrder, Apart, OnlyFailures, Live, JobOver, Cleaning, Active, Draining
  <2>3. InOnePlace(m)
    BY <2>1, EmptySeq DEF InOnePlace, Live, JobOver, Cleaning
  <2> QED
    BY <2>2, <2>3
<1>2. IInv /\ IInv' /\ Inv /\ [Next \/ Restart]_vars => Inv'
  <2> SUFFICES ASSUME IInv, IInv', Inv, [Next \/ Restart]_vars, NEW m \in Migrations
               PROVE  Kept(m)'
    OBVIOUS
  <2>1. /\ StepEffect(m) /\ LogsInOrder(m) /\ Apart(m) /\ InOnePlace(m) /\ OnlyFailures(m)
        /\ \A o \in Migrations : FailedItems(o) \subseteq FailedItems(o)'
    BY StepEffects, FailuresStay
  <2> QED
    BY <2>1, LogsStayInOrder, ApartStay, OnePlaceStays, OnlyFailuresStay
<1>3. IInv /\ Inv => RetrySparesSuccess
  <2> SUFFICES ASSUME IInv, Inv, NEW m \in Migrations, run[m].mode = "partial", Live(m),
                      NEW i \in Working(m), NEW o \in run[m].origin,
                      <<run[m].entry, ItemPath(m, i)>> \in Succeeded(o)
               PROVE  FALSE
    BY DEF RetrySparesSuccess, Live, JobOver, Working
  <2>1. o \in Migrations /\ OnlyFailures(m) /\ LoggedOnce(o)
    BY InOnePlaceParts DEF IInv, TypeOK, RunState
  <2>2. <<run[m].entry, ItemPath(m, i)>> \in FailedItems(o)
    BY <2>1 DEF OnlyFailures, Selected, ItemPath
  <2> QED
    BY <2>1, <2>2 DEF FailedItems, Rows, Succeeded, LoggedOnce
<1> QED
  BY <1>1, <1>2, <1>3, Invariance, PTL DEF CrashSpec

=============================================================================
