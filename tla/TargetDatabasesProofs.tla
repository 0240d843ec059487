------------------------- MODULE TargetDatabasesProofs -------------------------
(***************************************************************************)
(* What is proved about one target database and the attempts that work on  *)
(* it, for any number of attempts.                                         *)
(*                                                                         *)
(* What a failure may undo follows from who created the database, and      *)
(* holds even when retries overlap (OldTablesSpared, CreationUndone).      *)
(* What a load finds and leaves needs the attempts to take turns           *)
(* (RetriesStartEmpty, SuccessLeavesOwnTables): the premise is Overlapping *)
(* = FALSE, which no lock of the code enforces.                            *)
(***************************************************************************)
EXTENDS TargetDatabases, TLAPS

-----------------------------------------------------------------------------
(* The inductive invariant.                                                *)

BeforeEnsured == {"idle", "look", "empty", "turn", "ensure", "create"}
BeforeLoad    == BeforeEnsured \cup {"filter", "validate"}
Waiting       == {"wait", "stopping"}
ItemPlaces    == BeforeLoad \cup Waiting \cup {"undo"} \cup Over
Loading       == {"check", "dump", "restore", "filling", "failing"}

Holdable == Attempts \cup {OldTables, OldRoutines}
ItemType == [Attempts -> [pc : ItemPlaces, created : BOOLEAN, warned : BOOLEAN]]
LoadType == [Attempts -> [pc : {"none", "done"} \cup Loading, ok : BOOLEAN]]

TypeOK ==
  /\ engine \in {"sql", "mongo"}
  /\ keep \in BOOLEAN
  /\ target \in [exists : BOOLEAN, holds : SUBSET Holdable]
  /\ item \in ItemType
  /\ load \in LoadType
  /\ ctx \in SUBSET Attempts
  /\ hctx \in SUBSET Attempts

\* Only a database that is there holds something.
HoldsExists == target.holds # {} => target.exists

\* A load runs while its item waits for it, starts once, and is a success only
\* when it is done.
LoadFollowsItem(a) ==
  /\ load[a].pc \in Loading => item[a].pc \in Waiting
  /\ item[a].pc \in BeforeLoad => load[a].pc = "none"
  /\ load[a].ok => load[a].pc = "done"

\* A database that was created held no old tables, nor did one that a load has looked
\* at and gone on, and none can come back; only what was created is dropped, and under
\* keep only for a cancel.
Ownership(a) ==
  /\ item[a].created => item[a].pc \notin BeforeEnsured /\ OldTables \notin target.holds
  /\ load[a].pc \in {"dump", "restore", "filling", "failing"} => OldTables \notin target.holds
  /\ item[a].pc = "undo" => item[a].created
  /\ item[a].pc = "stopping" => a \in ctx
  /\ item[a].pc = "undo" /\ keep => a \in ctx

OwnersInv ==
  /\ TypeOK
  /\ HoldsExists
  /\ \A a \in Attempts : LoadFollowsItem(a)
  /\ \A a \in Attempts : Ownership(a)

\* One attempt at a time, the first one first.
InTurn ==
  /\ item[First].pc \notin Over => \A a \in Attempts : Retried(a) => item[a].pc = "idle"
  /\ \A a, b \in Attempts : Running(a) /\ Running(b) => a = b

\* From the cleanup of a retry to its load nothing is there, and from a load's
\* look at the target to its end nothing is there but what it brings.
Undisturbed(a) ==
  /\ Retried(a) /\ item[a].pc \in BeforeLoad \ {"idle", "look", "empty"} => target.holds = {}
  /\ Retried(a) /\ load[a].pc = "check" => Counted = {}
  /\ load[a].pc \in {"dump", "restore"} => Counted = {}
  /\ load[a].pc = "filling" \/ (load[a].ok /\ item[a].pc \in Waiting)
       => Counted = {a} /\ target.exists

TurnsInv ==
  /\ OwnersInv
  /\ InTurn
  /\ \A a \in Attempts : Undisturbed(a)

-----------------------------------------------------------------------------
(* What the model's operators change.                                      *)

LEMMA TargetFields ==
  ASSUME NEW e \in BOOLEAN, NEW h \in SUBSET Holdable
  PROVE  /\ Target(e, h) \in [exists : BOOLEAN, holds : SUBSET Holdable]
         /\ Target(e, h).holds = h
         /\ Target(e, h).exists = IF engine = "mongo" THEN h # {} ELSE e
<1>1. (IF engine = "mongo" THEN h # {} ELSE e) \in BOOLEAN
  OBVIOUS
<1> QED BY <1>1 DEF Target

\* Only one item moves...
LEMMA ItemMoves ==
  ASSUME item \in ItemType, NEW a \in Attempts,
         NEW pc \in ItemPlaces, NEW created \in BOOLEAN, NEW warned \in BOOLEAN,
         item' = [item EXCEPT ![a] = [pc |-> pc, created |-> created, warned |-> warned]]
  PROVE  /\ item' \in ItemType
         /\ item'[a].pc = pc /\ item'[a].created = created /\ item'[a].warned = warned
         /\ \A b \in Attempts \ {a} : item'[b] = item[b]
  BY DEF ItemType

LEMMA GotoMoves ==
  ASSUME item \in ItemType, NEW a \in Attempts, NEW label \in ItemPlaces, Goto(a, label)
  PROVE  /\ item' \in ItemType
         /\ item'[a].pc = label
         /\ item'[a].created = item[a].created /\ item'[a].warned = item[a].warned
         /\ \A b \in Attempts \ {a} : item'[b] = item[b]
  BY DEF Goto, ItemType

\* ... or only one load.
LEMMA LoadGotoMoves ==
  ASSUME load \in LoadType, NEW a \in Attempts,
         NEW label \in {"none", "done"} \cup Loading, LoadGoto(a, label)
  PROVE  /\ load' \in LoadType
         /\ load'[a].pc = label /\ load'[a].ok = load[a].ok
         /\ \A b \in Attempts \ {a} : load'[b] = load[b]
  BY DEF LoadGoto, LoadType

\* Every item step's effect on the record, where it is more than the place.
LEMMA CreatedMoves ==
  ASSUME item \in ItemType, NEW a \in Attempts, NEW label \in ItemPlaces,
         NEW created \in BOOLEAN,
         item' = [item EXCEPT ![a].pc = label, ![a].created = created]
  PROVE  /\ item' \in ItemType
         /\ item'[a].pc = label
         /\ item'[a].created = created /\ item'[a].warned = item[a].warned
         /\ \A b \in Attempts \ {a} : item'[b] = item[b]
  BY DEF ItemType

LEMMA LoadSucceedsMoves ==
  ASSUME load \in LoadType, NEW a \in Attempts,
         load' = [load EXCEPT ![a] = [pc |-> "done", ok |-> TRUE]]
  PROVE  /\ load' \in LoadType
         /\ load'[a].pc = "done" /\ load'[a].ok
         /\ \A b \in Attempts \ {a} : load'[b] = load[b]
  BY DEF LoadType

\* What dropping, creating and emptying the target leave.
LEMMA TargetMoves ==
  ASSUME NEW e \in BOOLEAN, NEW h \in SUBSET Holdable, target' = Target(e, h),
         engine \in {"sql", "mongo"}, engine' = engine, h # {} /\ engine = "sql" => e
  PROVE  /\ target' \in [exists : BOOLEAN, holds : SUBSET Holdable]
         /\ target'.holds = h
         /\ HoldsExists'
  BY TargetFields DEF HoldsExists

LEMMA WarnedMoves ==
  ASSUME item \in ItemType, NEW a \in Attempts, NEW label \in ItemPlaces,
         item' = [item EXCEPT ![a].pc = label, ![a].warned = TRUE]
  PROVE  /\ item' \in ItemType
         /\ item'[a].pc = label
         /\ item'[a].created = item[a].created /\ item'[a].warned
         /\ \A b \in Attempts \ {a} : item'[b] = item[b]
  BY DEF ItemType

\* ... an empty database in particular.
LEMMA EmptyMoves ==
  ASSUME engine \in {"sql", "mongo"},
         target' \in {Target(FALSE, {}), Target(TRUE, {})}
  PROVE  /\ target' \in [exists : BOOLEAN, holds : SUBSET Holdable]
         /\ target'.holds = {}
         /\ target' = Target(FALSE, {}) => ~target'.exists
         /\ HoldsExists'
<1>1. {} \in SUBSET Holdable
  OBVIOUS
<1>2. /\ Target(FALSE, {}) \in [exists : BOOLEAN, holds : SUBSET Holdable]
      /\ Target(FALSE, {}).holds = {} /\ ~Target(FALSE, {}).exists
  BY <1>1 DEF Target
<1>3. /\ Target(TRUE, {}) \in [exists : BOOLEAN, holds : SUBSET Holdable]
      /\ Target(TRUE, {}).holds = {}
  BY <1>1, TargetFields
<1> QED BY <1>2, <1>3 DEF HoldsExists

\* A load that finds nothing to count finds no old tables.
LEMMA NothingCounted ==
  ASSUME Counted = {}
  PROVE  OldTables \notin target.holds
<1>1. OldTables # OldRoutines
  BY DEF OldTables, OldRoutines
<1> QED BY <1>1 DEF Counted

LEMMA OwnersInit == Init => OwnersInv
<1> SUFFICES ASSUME Init PROVE OwnersInv
  OBVIOUS
<1>1. item \in ItemType /\ load \in LoadType
  BY DEF Init, ItemType, LoadType, ItemPlaces, BeforeLoad, BeforeEnsured
<1>2. target \in [exists : BOOLEAN, holds : SUBSET Holdable]
  BY TargetFields DEF Init, Holdable
<1> QED
  BY <1>1, <1>2 DEF Init, OwnersInv, TypeOK, HoldsExists, LoadFollowsItem, Ownership,
     BeforeLoad,
     BeforeEnsured, Waiting, Loading, Over

LEMMA OwnersStep ==
  ASSUME OwnersInv, [Next]_vars
  PROVE  OwnersInv'
<1> USE DEF OwnersInv, TypeOK, HoldsExists, LoadFollowsItem, Ownership, ItemPlaces, BeforeLoad,
       BeforeEnsured, Waiting, Loading, Over
<1>1. ASSUME NEW a \in Attempts, Start(a) \/ Cancel(a) \/ ItemStep(a) \/ LoadStep(a)
      PROVE  OwnersInv'
  <2>1. CASE Start(a)
    BY <2>1, GotoMoves DEF Start, At
  <2>2. CASE Cancel(a)
    BY <2>2, GotoMoves DEF Cancel, At
  <2>3. CASE CleanupLook(a)
    BY <2>3, GotoMoves DEF CleanupLook, At, Exists
  <2>4. CASE CleanupEmpty(a)
    BY <2>4, GotoMoves, TargetFields DEF CleanupEmpty, At, Exists
  <2>5. CASE TakeTurn(a)
    BY <2>5, GotoMoves DEF TakeTurn, At
  <2>6. CASE EnsureLook(a)
    <3>1. CASE Exists \/ Goto(a, "failed")
      BY <2>6, <3>1, GotoMoves DEF EnsureLook, At, Exists
    <3>2. CASE /\ ~Exists
               /\ item' = [item EXCEPT ![a].pc = IF engine = "mongo" THEN "filter" ELSE "create",
                                   ![a].created = engine = "mongo"]
      <4>1. (engine = "mongo") \in BOOLEAN
        OBVIOUS
      <4>2. CASE engine = "mongo"
        <5>1. item' = [item EXCEPT ![a].pc = "filter", ![a].created = TRUE]
          BY <3>2, <4>2
        <5>2. /\ item' \in ItemType
              /\ item'[a].pc = "filter" /\ item'[a].created = TRUE
              /\ \A b \in Attempts \ {a} : item'[b] = item[b]
          BY <5>1, CreatedMoves
        <5> QED BY <2>6, <3>2, <5>2, ZenonT(60) DEF EnsureLook, At, Exists
      <4>3. CASE engine # "mongo"
        <5>1. item' = [item EXCEPT ![a].pc = "create", ![a].created = FALSE]
          BY <3>2, <4>3
        <5>2. /\ item' \in ItemType
              /\ item'[a].pc = "create" /\ item'[a].created = FALSE
              /\ \A b \in Attempts \ {a} : item'[b] = item[b]
          BY <5>1, CreatedMoves
        <5> QED BY <2>6, <3>2, <5>2, ZenonT(60) DEF EnsureLook, At, Exists
      <4> QED BY <4>2, <4>3
    <3> QED BY <2>6, <3>1, <3>2 DEF EnsureLook
  <2>7. CASE EnsureCreate(a)
    <3>1. CASE Goto(a, "failed") /\ UNCHANGED target
      BY <2>7, <3>1, GotoMoves DEF EnsureCreate, At
    <3>2. CASE /\ ~Exists
               /\ target' = Target(TRUE, {})
               /\ item' = [item EXCEPT ![a].pc = "filter", ![a].created = TRUE]
      <4>1. /\ item' \in ItemType
            /\ item'[a].pc = "filter" /\ item'[a].created = TRUE
            /\ \A b \in Attempts \ {a} : item'[b] = item[b]
        BY <3>2, CreatedMoves
      <4>2. /\ target' \in [exists : BOOLEAN, holds : SUBSET Holdable]
            /\ target'.holds = {} /\ HoldsExists'
        BY <3>2, EmptyMoves
      <4> QED BY <2>7, <4>1, <4>2 DEF EnsureCreate, At, Exists
    <3>3. CASE target' = Target(TRUE, {}) /\ Goto(a, "failed")
      <4>1. /\ target' \in [exists : BOOLEAN, holds : SUBSET Holdable]
            /\ target'.holds = {} /\ HoldsExists'
        BY <3>3, EmptyMoves
      <4>2. /\ item' \in ItemType
            /\ item'[a].pc = "failed" /\ item'[a].created = item[a].created
            /\ \A b \in Attempts \ {a} : item'[b] = item[b]
        BY <3>3, GotoMoves
      <4> QED BY <2>7, <4>1, <4>2, SMTT(60) DEF EnsureCreate, At
    <3> QED BY <2>7, <3>1, <3>2, <3>3 DEF EnsureCreate
  <2>8. CASE BuildFilter(a)
    BY <2>8, GotoMoves DEF BuildFilter, At
  <2>9. CASE Launch(a)
    <3>1. CASE Goto(a, IF Undoing(a) /\ ~keep THEN "undo" ELSE "failed") /\ UNCHANGED load
      BY <2>9, <3>1, GotoMoves DEF Launch, At, Undoing
    <3>2. CASE LoadGoto(a, "check") /\ Goto(a, "wait")
      BY <2>9, <3>2, GotoMoves, LoadGotoMoves DEF Launch, At
    <3> QED BY <2>9, <3>1, <3>2 DEF Launch, LoadGoto
  <2>10. CASE Stop(a)
    BY <2>10, GotoMoves DEF Stop, At
  <2>11. CASE Stopped(a)
    BY <2>11, GotoMoves DEF Stopped, At, Undoing
  <2>12. CASE Finished(a)
    BY <2>12, GotoMoves DEF Finished, At, Undoing
  <2>13. CASE Undo(a)
    <3>1. CASE target' = Target(FALSE, {}) /\ Goto(a, "failed")
      <4>1. /\ target' \in [exists : BOOLEAN, holds : SUBSET Holdable]
            /\ target'.holds = {} /\ HoldsExists'
        BY <3>1, EmptyMoves
      <4>2. /\ item' \in ItemType
            /\ item'[a].pc = "failed" /\ item'[a].created = item[a].created
            /\ \A b \in Attempts \ {a} : item'[b] = item[b]
        BY <3>1, GotoMoves
      <4> QED BY <2>13, <4>1, <4>2 DEF Undo, At
    <3>2. CASE UNCHANGED target /\ item' = [item EXCEPT ![a].pc = "failed", ![a].warned = TRUE]
      <4>1. /\ item' \in ItemType
            /\ item'[a].pc = "failed" /\ item'[a].created = item[a].created
            /\ \A b \in Attempts \ {a} : item'[b] = item[b]
        BY <3>2, WarnedMoves
      <4> QED BY <2>13, <3>2, <4>1, ZenonT(60) DEF Undo, At
    <3> QED BY <2>13, <3>1, <3>2 DEF Undo
  <2>14. CASE LoadCheck(a)
    <3>1. CASE Counted = {} /\ LoadGoto(a, "dump")
      <4>1. OldTables \notin target.holds
        BY <3>1, NothingCounted
      <4> QED BY <2>14, <3>1, <4>1, LoadGotoMoves DEF LoadCheck, LoadAt, LoadOnly
    <3>2. CASE LoadGoto(a, "done")
      BY <2>14, <3>2, LoadGotoMoves DEF LoadCheck, LoadAt, LoadOnly
    <3> QED BY <2>14, <3>1, <3>2 DEF LoadCheck
  <2>15. CASE LoadDump(a)
    BY <2>15, LoadGotoMoves DEF LoadDump, LoadAt, LoadOnly
  <2>16. CASE LoadWrites(a)
    <3>1. CASE LoadGoto(a, "failing") /\ UNCHANGED target
      BY <2>16, <3>1, LoadGotoMoves DEF LoadWrites, LoadAt, LoadOnly
    <3>2. CASE /\ Exists \/ engine = "mongo"
               /\ target' = Target(Exists, target.holds \cup {a})
               /\ LoadGoto(a, "filling")
      <4>1. target.holds \cup {a} \in SUBSET Holdable /\ a # OldTables
        BY <1>1, AttemptsAssumption DEF Holdable, OldTables
      <4>2. /\ target' \in [exists : BOOLEAN, holds : SUBSET Holdable]
            /\ target'.holds = target.holds \cup {a} /\ HoldsExists'
        BY <2>16, <3>2, <4>1, TargetMoves DEF LoadWrites, LoadOnly, Exists
      <4>3. /\ load' \in LoadType
            /\ load'[a].pc = "filling" /\ load'[a].ok = load[a].ok
            /\ \A b \in Attempts \ {a} : load'[b] = load[b]
        BY <3>2, LoadGotoMoves
      <4>4. OldTables \in target'.holds <=> OldTables \in target.holds
        BY <4>1, <4>2
      <4> QED BY <2>16, <4>2, <4>3, <4>4, SMTT(60) DEF LoadWrites, LoadAt, LoadOnly
    <3> QED BY <2>16, <3>1, <3>2 DEF LoadWrites
  <2>17. CASE LoadEnds(a)
    <3>1. CASE LoadGoto(a, "failing")
      BY <2>17, <3>1, LoadGotoMoves DEF LoadEnds, LoadAt, LoadOnly
    <3>2. CASE load' = [load EXCEPT ![a] = [pc |-> "done", ok |-> TRUE]]
      BY <2>17, <3>2, LoadSucceedsMoves, ZenonT(60) DEF LoadEnds, LoadAt, LoadOnly
    <3> QED BY <2>17, <3>1, <3>2 DEF LoadEnds
  <2>18. CASE LoadFails(a)
    <3>1. CASE UNCHANGED target
      BY <2>18, <3>1, LoadGotoMoves DEF LoadFails, LoadAt, LoadOnly
    <3>2. ASSUME NEW left \in SUBSET target.holds, target' = Target(Exists, left) PROVE OwnersInv'
      BY <2>18, <3>2, LoadGotoMoves, TargetMoves DEF LoadFails, LoadAt, LoadOnly, Exists
    <3> QED BY <2>18, <3>1, <3>2 DEF LoadFails
  <2> QED
    BY <1>1, <2>1, <2>2, <2>3, <2>4, <2>5, <2>6, <2>7, <2>8, <2>9, <2>10, <2>11, <2>12, <2>13,
       <2>14, <2>15, <2>16, <2>17, <2>18 DEF ItemStep, LoadStep
<1>2. CASE Operator
  BY <1>2, EmptyMoves DEF Operator
<1>3. CASE UNCHANGED vars
  BY <1>3 DEF vars
<1> QED BY <1>1, <1>2, <1>3 DEF Next

-----------------------------------------------------------------------------
(* What may be undone.                                                     *)

LEMMA KeepsTarget ==
  ASSUME target' = target
  PROVE  LosesOnlyWhatItMay
  BY DEF LosesOnlyWhatItMay

LEMMA UndoEnds ==
  ASSUME OwnersInv, NEW a \in Attempts, Undo(a)
  PROVE  item'[a].pc = "failed"
  BY DEF Undo, Goto, OwnersInv, TypeOK, ItemType

LEMMA LosesOnlyWhatItMayStep ==
  ASSUME OwnersInv, [Next]_vars
  PROVE  LosesOnlyWhatItMay
<1>1. ASSUME NEW a \in Attempts, Start(a) \/ Cancel(a) \/ ItemStep(a) \/ LoadStep(a)
      PROVE  LosesOnlyWhatItMay
  <2>1. CASE CleanupEmpty(a)
    <3>1. item'[a].pc # "empty" /\ \A b \in Attempts \ {a} : item'[b] = item[b]
      BY <2>1, GotoMoves DEF CleanupEmpty, OwnersInv, TypeOK, ItemPlaces, BeforeLoad,
         BeforeEnsured, Over
    <3>2. CleaningUp(a)
      BY <2>1, <3>1 DEF CleanupEmpty, CleaningUp
    <3>3. \A b \in Attempts : ~Dropping(b) /\ ~Emptying(b)
      BY <2>1, <3>1 DEF CleanupEmpty, At, Dropping, Emptying
    <3> QED BY <3>2, <3>3 DEF LosesOnlyWhatItMay
  <2>2. CASE EnsureCreate(a)
    <3>1. target.holds \ target'.holds = {}
      BY <2>2 DEF EnsureCreate, Exists, OwnersInv, HoldsExists
    <3>2. \A b \in Attempts \ {a} : item'[b] = item[b]
      BY <2>2 DEF EnsureCreate, Goto, OwnersInv, TypeOK, ItemType
    <3>3. \A b \in Attempts : ~Dropping(b)
      BY <2>2, <3>2 DEF EnsureCreate, At, Dropping
    <3> QED BY <3>1, <3>3 DEF LosesOnlyWhatItMay
  <2>3. CASE Undo(a)
    <3>1. /\ item[a].created /\ OldTables \notin target.holds
          /\ keep => a \in ctx
      BY <2>3 DEF Undo, At, OwnersInv, Ownership
    <3>2. Dropping(a)
      BY <2>3, UndoEnds DEF Undo, At, Dropping
    <3>3. \A b \in Attempts \ {a} : item'[b] = item[b]
      BY <2>3 DEF Undo, Goto, OwnersInv, TypeOK, ItemType
    <3>4. \A b \in Attempts : ~Emptying(b) /\ (Dropping(b) => b = a)
      BY <2>3, <3>3 DEF Undo, Emptying, Dropping
    <3> QED BY <3>1, <3>2, <3>4 DEF LosesOnlyWhatItMay
  <2>4. CASE LoadWrites(a)
    <3>1. target.holds \ target'.holds = {}
      <4>1. CASE target' = Target(Exists, target.holds \cup {a})
        BY <4>1 DEF Target
      <4> QED BY <2>4, <4>1 DEF LoadWrites
    <3>2. \A b \in Attempts : ~Dropping(b)
      BY <2>4 DEF LoadWrites, LoadOnly, Dropping
    <3> QED BY <3>1, <3>2 DEF LosesOnlyWhatItMay
  <2>5. CASE LoadFails(a)
    <3>1. CASE RollbackOnFailure(a)
      <4>1. OldTables \notin target.holds
        BY <2>5 DEF LoadFails, LoadAt, OwnersInv, Ownership
      <4>2. ~item[a].created /\ ~keep
        BY <3>1 DEF RollbackOnFailure
      <4>3. \A b \in Attempts \ {a} : load'[b] = load[b]
        BY <2>5 DEF LoadFails, LoadGoto, OwnersInv, TypeOK, LoadType
      <4>4. \A b \in Attempts : ~Dropping(b) /\ (Emptying(b) => b = a)
        BY <2>5, <4>3 DEF LoadFails, LoadOnly, Dropping, Emptying
      <4> QED BY <4>1, <4>2, <4>4 DEF LosesOnlyWhatItMay
    <3> QED BY <2>5, <3>1, KeepsTarget DEF LoadFails
  <2>6. CASE target' = target
    BY <2>6, KeepsTarget
  <2> QED
    BY <1>1, <2>1, <2>2, <2>3, <2>4, <2>5, <2>6 DEF ItemStep, LoadStep, Start, Cancel,
       CleanupLook, TakeTurn, EnsureLook, BuildFilter, Launch, Stop, Stopped, Finished,
       LoadCheck, LoadDump, LoadEnds
<1>2. CASE Operator
  BY <1>2 DEF Operator, Outside, Dropping, Emptying, LosesOnlyWhatItMay
<1>3. CASE UNCHANGED vars
  BY <1>3, KeepsTarget DEF vars
<1> QED BY <1>1, <1>2, <1>3 DEF Next

LEMMA UndoesWhatItCreatedStep ==
  ASSUME OwnersInv, [Next]_vars
  PROVE  UndoesWhatItCreated
<1>1. ASSUME NEW a \in Attempts, Start(a) \/ ItemStep(a), ~Undo(a)
      PROVE  UndoesWhatItCreated
  <2> SUFFICES ASSUME NEW b \in Attempts,
                      item[b].created /\ ~At(b, "filter"), item[b].pc \notin Over,
                      item'[b].pc \in {"failed", "cancelled"},
                      ~keep \/ At(b, "stopping") \/ At(b, "undo")
               PROVE  FALSE
    BY DEF UndoesWhatItCreated
  <2>1. /\ item \in ItemType
        /\ item[b].pc \in ItemPlaces
        /\ item[b].pc \notin BeforeEnsured
        /\ item[b].pc \in {"validate", "wait", "stopping", "undo"}
    BY DEF OwnersInv, TypeOK, ItemType, Ownership, At, ItemPlaces, BeforeLoad, Waiting
  <2>2. a = b
    <3> SUFFICES ASSUME a # b PROVE item'[b] = item[b]
      BY <2>1 DEF Over, ItemPlaces
    <3> QED BY <1>1, <2>1 DEF ItemStep, Start, Goto, CleanupLook, CleanupEmpty, TakeTurn,
         EnsureLook, EnsureCreate, BuildFilter, Launch, Stop, Stopped, Finished, Undo, ItemType
  <2>3. CASE Launch(a)
    BY <2>1, <2>2, <2>3, GotoMoves DEF Launch, At, Undoing, ItemPlaces, BeforeLoad,
       BeforeEnsured,
       Waiting, Over
  <2>4. CASE Stop(a)
    BY <2>1, <2>2, <2>4, GotoMoves DEF Stop, ItemPlaces, BeforeLoad, Waiting, Over
  <2>5. CASE Stopped(a)
    BY <2>1, <2>2, <2>5, GotoMoves DEF Stopped, Undoing, ItemPlaces, BeforeLoad, Waiting, Over
  <2>6. CASE Finished(a)
    BY <2>1, <2>2, <2>6, GotoMoves DEF Finished, At, Undoing, ItemPlaces, BeforeLoad, Waiting,
       Over
  <2> QED
    BY <1>1, <2>1, <2>2, <2>3, <2>4, <2>5, <2>6 DEF ItemStep, Start, CleanupLook, CleanupEmpty,
       TakeTurn, EnsureLook, EnsureCreate, BuildFilter, Undo, At
<1>2. ASSUME NEW a \in Attempts, Undo(a)
      PROVE  UndoesWhatItCreated
  <2>1. ~target'.exists \/ item'[a].warned
    <3>1. CASE target' = Target(FALSE, {})
      BY <3>1, EmptyMoves, <1>2 DEF Undo, OwnersInv, TypeOK
    <3>2. CASE item' = [item EXCEPT ![a].pc = "failed", ![a].warned = TRUE]
      BY <3>2, WarnedMoves DEF OwnersInv, TypeOK, ItemPlaces, Over
    <3> QED BY <1>2, <3>1, <3>2 DEF Undo
  <2>2. \A b \in Attempts \ {a} : item'[b] = item[b]
    BY <1>2 DEF Undo, Goto, OwnersInv, TypeOK, ItemType
  <2> QED BY <2>1, <2>2 DEF UndoesWhatItCreated, Over
<1>3. CASE item' = item
  BY <1>3 DEF UndoesWhatItCreated, Over
<1> QED
  BY <1>1, <1>2, <1>3 DEF Next, Cancel, ItemStep, LoadStep, LoadCheck, LoadDump, LoadWrites,
     LoadEnds, LoadFails, LoadOnly, Operator, vars

\* Who created the database, and what may therefore be undone, is known at every
\* step, however the attempts overlap.
THEOREM OwnersHold == Spec => []OwnersInv
  BY OwnersInit, OwnersStep, PTL DEF Spec

\* Whoever is undoing a failed or cancelled item, and however the retries overlap:
\* tables from before the first attempt go only with a retry's announced cleanup or by
\* somebody else's hand, never with the rollback of a load nor with a drop; under keep
\* nothing goes but with that or with a cancel; and a load empties only what its item
\* did not create, which is all an item drops (dropIfOwned, RollbackOnFailure).
THEOREM OldTablesSpared == Spec => OldTablesSafe
  BY OwnersHold, LosesOnlyWhatItMayStep, PTL DEF Spec, OldTablesSafe

\* A database created for an item that then fails is gone or warned of in the log
\* (migrateOneDatabase's dropIfOwned).
THEOREM CreationUndone == Spec => CreatedIsUndone
  BY OwnersHold, UndoesWhatItCreatedStep, PTL DEF Spec, CreatedIsUndone

-----------------------------------------------------------------------------
(* Attempts that take turns.                                               *)

LEMMA ItemStepFacts ==
  ASSUME OwnersInv, NEW a \in Attempts, ItemStep(a)
  PROVE  /\ Running(a)
         /\ \A b \in Attempts \ {a} : item'[b] = item[b] /\ load'[b] = load[b]
<1>1. Running(a)
  BY DEF ItemStep, CleanupLook, CleanupEmpty, TakeTurn, EnsureLook, EnsureCreate, BuildFilter,
     Launch, Stop, Stopped, Finished, Undo, At, Running, Over
<1>2. \A b \in Attempts \ {a} : item'[b] = item[b]
  BY DEF ItemStep, Goto, CleanupLook, CleanupEmpty, TakeTurn, EnsureLook, EnsureCreate,
     BuildFilter, Launch, Stop, Stopped, Finished, Undo, OwnersInv, TypeOK, ItemType
<1>3. \A b \in Attempts \ {a} : load'[b] = load[b]
  BY DEF ItemStep, CleanupLook, CleanupEmpty, TakeTurn, EnsureLook, EnsureCreate,
     BuildFilter, Launch, Stop, Stopped, Finished, Undo, OwnersInv, TypeOK, LoadType
<1> QED BY <1>1, <1>2, <1>3

LEMMA LoadStepFacts ==
  ASSUME OwnersInv, NEW a \in Attempts, LoadStep(a)
  PROVE  /\ Running(a) /\ item' = item
         /\ \A b \in Attempts \ {a} : load'[b] = load[b]
<1>1. load[a].pc \in Loading /\ item' = item
  BY DEF LoadStep, LoadCheck, LoadDump, LoadWrites, LoadEnds, LoadFails, LoadAt, LoadOnly,
     Loading
<1>2. Running(a)
  BY <1>1 DEF OwnersInv, LoadFollowsItem, Waiting, Running, Over
<1>3. \A b \in Attempts \ {a} : load'[b] = load[b]
  BY DEF LoadStep, LoadCheck, LoadDump, LoadWrites, LoadEnds, LoadFails, LoadGoto, OwnersInv,
     TypeOK, LoadType
<1> QED BY <1>1, <1>2, <1>3

LEMMA StartFacts ==
  ASSUME OwnersInv, NEW a \in Attempts, Start(a)
  PROVE  /\ item[a].pc = "idle" /\ load' = load /\ target' = target
         /\ item'[a].pc = IF Retried(a) THEN "look" ELSE "turn"
         /\ Retried(a) => item[First].pc \in Over /\ (Overlapping \/ Quiet)
         /\ \A b \in Attempts \ {a} : item'[b] = item[b]
  BY GotoMoves DEF Start, At, OwnersInv, TypeOK, ItemPlaces, BeforeLoad, BeforeEnsured

LEMMA InTurnStep ==
  ASSUME OwnersInv, InTurn, ~Overlapping, [Next]_vars
  PROVE  InTurn'
<1>1. CASE \E a \in Attempts : Start(a)
  <2> PICK a \in Attempts : Start(a)
    BY <1>1
  <2>1. \A b \in Attempts \ {a} : ~Running(b)
    BY StartFacts, AttemptsAssumption DEF InTurn, Retried, Quiet, Running, Over
  <2>2. \A b, c \in Attempts : Running(b)' /\ Running(c)' => b = c
    BY <2>1, StartFacts DEF Running
  <2>3. CASE a = First
    BY <2>2, <2>3, StartFacts DEF InTurn, Retried, Over
  <2>4. CASE a # First
    BY <2>2, <2>4, StartFacts, AttemptsAssumption DEF InTurn, Retried, Over
  <2> QED
    BY <2>3, <2>4
<1>2. CASE \E a \in Attempts : ItemStep(a)
  BY <1>2, ItemStepFacts, AttemptsAssumption DEF InTurn, Retried, Running
<1>3. CASE item' = item
  BY <1>3 DEF InTurn, Running
<1> QED
  BY <1>1, <1>2, <1>3, LoadStepFacts DEF Next, Cancel, Operator, vars

\* An attempt that is not running cannot be disturbed.
LEMMA QuietUndisturbed ==
  ASSUME OwnersInv', NEW a \in Attempts, ~Running(a)'
  PROVE  Undisturbed(a)'
<1>1. item'[a].pc \in {"idle"} \cup Over
  BY DEF Running
<1>2. load'[a].pc \notin Loading
  BY <1>1 DEF OwnersInv, LoadFollowsItem, Waiting, Over
<1> QED
  BY <1>1, <1>2 DEF Undisturbed, BeforeLoad, BeforeEnsured, Waiting, Loading, Over

LEMMA StaysUndisturbed ==
  ASSUME TurnsInv, NEW a \in Attempts,
         item'[a] = item[a], load'[a] = load[a], target' = target
  PROVE  Undisturbed(a)'
  BY DEF TurnsInv, Undisturbed, Counted, Retried

LEMMA MovesUndisturbed ==
  ASSUME TurnsInv, NEW a \in Attempts, Start(a) \/ ItemStep(a) \/ LoadStep(a)
  PROVE  Undisturbed(a)'
<1> USE DEF TurnsInv, Undisturbed, Counted, OwnersInv, TypeOK, HoldsExists, LoadFollowsItem,
       ItemPlaces, BeforeLoad, BeforeEnsured, Waiting, Loading, Over
<1>1. CASE Start(a) \/ ItemStep(a) \/ LoadStep(a)
  <2>1. CASE Start(a)
    BY <2>1, StartFacts DEF Retried
  <2>2. CASE CleanupLook(a)
    BY <2>2, GotoMoves DEF CleanupLook, At, Retried, Exists
  <2>3. CASE CleanupEmpty(a)
    <3>1. item'[a].pc \in {"turn", "failed"} /\ (item'[a].pc = "turn" => target'.holds = {})
      BY <2>3, GotoMoves DEF CleanupEmpty, Target
    <3> QED BY <2>3, <3>1 DEF CleanupEmpty, At, Retried
  <2>4. CASE TakeTurn(a)
    BY <2>4, GotoMoves DEF TakeTurn, At, Retried
  <2>5. CASE EnsureLook(a)
    <3>1. item'[a].pc \in {"filter", "create", "failed"}
      BY <2>5, GotoMoves DEF EnsureLook, ItemType
    <3> QED BY <2>5, <3>1 DEF EnsureLook, At, Retried
  <2>6. CASE EnsureCreate(a)
    <3>1. item'[a].pc \in {"filter", "failed"} /\ (item'[a].pc = "filter" => target'.holds = {})
      <4>1. CASE Goto(a, "failed")
        BY <4>1 DEF Goto, ItemType
      <4>2. CASE /\ target' = Target(TRUE, {})
                 /\ item' = [item EXCEPT ![a].pc = "filter", ![a].created = TRUE]
        <5>1. item'[a].pc = "filter"
          BY <4>2 DEF ItemType
        <5> QED BY <4>2, <5>1, EmptyMoves
      <4> QED BY <2>6, <4>1, <4>2 DEF EnsureCreate, Goto
    <3> QED BY <2>6, <3>1 DEF EnsureCreate, At, Retried
  <2>7. CASE BuildFilter(a)
    BY <2>7, GotoMoves DEF BuildFilter, At, Retried
  <2>8. CASE Launch(a)
    <3>1. CASE Goto(a, IF Undoing(a) /\ ~keep THEN "undo" ELSE "failed") /\ UNCHANGED load
      BY <2>8, <3>1, GotoMoves DEF Launch, At, Undoing, Retried
    <3>2. CASE LoadGoto(a, "check") /\ Goto(a, "wait")
      BY <2>8, <3>2, GotoMoves, LoadGotoMoves DEF Launch, At, Retried
    <3> QED BY <2>8, <3>1, <3>2 DEF Launch, LoadGoto
  <2>9. CASE Stop(a)
    BY <2>9, GotoMoves DEF Stop, At, Retried
  <2>10. CASE Stopped(a)
    BY <2>10, GotoMoves DEF Stopped, At, Retried, Undoing
  <2>11. CASE Finished(a)
    BY <2>11, GotoMoves DEF Finished, At, Retried, Undoing
  <2>12. CASE Undo(a)
    <3>1. OwnersInv
      OBVIOUS
    <3>2. item'[a].pc = "failed"
      BY <2>12, <3>1, UndoEnds
    <3> QED BY <2>12, <3>2 DEF Undo, At
  <2>13. CASE LoadCheck(a)
    BY <2>13, LoadGotoMoves DEF LoadCheck, LoadAt, LoadOnly
  <2>14. CASE LoadDump(a)
    BY <2>14, LoadGotoMoves DEF LoadDump, LoadAt, LoadOnly
  <2>15. CASE LoadWrites(a)
    <3>1. CASE LoadGoto(a, "failing") /\ UNCHANGED target
      BY <2>15, <3>1, LoadGotoMoves DEF LoadWrites, LoadAt, LoadOnly
    <3>2. CASE /\ Exists \/ engine = "mongo"
               /\ target' = Target(Exists, target.holds \cup {a})
               /\ LoadGoto(a, "filling")
      <4>1. target'.holds = target.holds \cup {a} /\ a # OldRoutines
        BY <3>2, AttemptsAssumption DEF Target, OldRoutines
      <4>2. target'.exists
        BY <3>2 DEF Target, Exists
      <4> QED BY <2>15, <3>2, <4>1, <4>2, LoadGotoMoves DEF LoadWrites, LoadAt, LoadOnly
    <3> QED BY <2>15, <3>1, <3>2 DEF LoadWrites
  <2>16. CASE LoadEnds(a)
    <3>1. CASE LoadGoto(a, "failing")
      BY <2>16, <3>1, LoadGotoMoves DEF LoadEnds, LoadAt, LoadOnly
    <3>2. CASE load' = [load EXCEPT ![a] = [pc |-> "done", ok |-> TRUE]]
      BY <2>16, <3>2, LoadSucceedsMoves DEF LoadEnds, LoadAt, LoadOnly
    <3> QED BY <2>16, <3>1, <3>2 DEF LoadEnds
  <2>17. CASE LoadFails(a)
    <3>1. load'[a].pc = "done" /\ load'[a].ok = load[a].ok
      BY <2>17, LoadGotoMoves DEF LoadFails
    <3> QED BY <2>17, <3>1 DEF LoadFails, LoadAt, LoadOnly
  <2> QED
    BY <2>1, <2>2, <2>3, <2>4, <2>5, <2>6, <2>7, <2>8, <2>9, <2>10, <2>11, <2>12, <2>13, <2>14,
       <2>15, <2>16, <2>17, <1>1 DEF ItemStep, LoadStep
<1> QED BY <1>1

LEMMA TurnsStep ==
  ASSUME TurnsInv, ~Overlapping, [Next]_vars
  PROVE  TurnsInv'
<1>1. OwnersInv' /\ InTurn'
  BY OwnersStep, InTurnStep DEF TurnsInv
<1>2. ASSUME NEW a \in Attempts, Start(a) \/ ItemStep(a) \/ LoadStep(a), NEW b \in Attempts
      PROVE  Undisturbed(b)'
  <2>1. CASE b = a
    BY <1>2, <2>1, MovesUndisturbed
  <2>2. CASE b # a /\ Start(a)
    BY <2>2, StartFacts, StaysUndisturbed DEF TurnsInv
  <2>3. CASE b # a /\ (ItemStep(a) \/ LoadStep(a))
    <3>1. ~Running(b) /\ item'[b] = item[b]
      BY <2>3, ItemStepFacts, LoadStepFacts DEF TurnsInv, InTurn
    <3> QED BY <1>1, <3>1, QuietUndisturbed DEF Running
  <2> QED BY <1>2, <2>1, <2>2, <2>3
<1>3. ASSUME Operator, NEW b \in Attempts
      PROVE  Undisturbed(b)'
  BY <1>1, <1>3, QuietUndisturbed DEF Operator, Quiet, Running
<1>4. ASSUME UNCHANGED <<target, item, load>>, NEW b \in Attempts
      PROVE  Undisturbed(b)'
  BY <1>4, StaysUndisturbed
<1> QED
  BY <1>1, <1>2, <1>3, <1>4 DEF Next, Cancel, vars, TurnsInv

LEMMA TurnsInit == Init => TurnsInv
<1> SUFFICES ASSUME Init PROVE TurnsInv
  OBVIOUS
<1>1. \A a \in Attempts : item[a].pc = "idle" /\ load[a].pc = "none" /\ ~load[a].ok
  BY DEF Init
<1>2. InTurn
  BY <1>1 DEF InTurn, Running
<1>3. \A a \in Attempts : Undisturbed(a)
  BY <1>1 DEF Undisturbed, Waiting
<1> QED
  BY <1>2, <1>3, OwnersInit DEF TurnsInv

\* Attempts that take turns leave each other's loads alone.
THEOREM TurnsHold ==
  ASSUME Overlapping = FALSE
  PROVE  Spec => []TurnsInv
<1>1. TurnsInv /\ [Next]_vars => TurnsInv'
  BY TurnsStep
<1> QED BY <1>1, TurnsInit, PTL DEF Spec

\* A retry's load finds no tables, whatever the attempts before it left (the
\* cleanup of retryRun before migrateOneDatabase).
THEOREM RetriesStartEmpty ==
  ASSUME Overlapping = FALSE
  PROVE  Spec => []RetryFindsEmpty
<1>1. TurnsInv => RetryFindsEmpty
  BY DEF TurnsInv, Undisturbed, RetryFindsEmpty, LoadAt
<1> QED BY <1>1, TurnsHold, PTL

LEMMA EndsWholeStep ==
  ASSUME TurnsInv, [Next]_vars
  PROVE  EndsWhole
<1> SUFFICES ASSUME NEW a \in Attempts, item[a].pc # "success", item'[a].pc = "success"
             PROVE  target'.exists /\ target'.holds \ {OldRoutines} = {a}
  BY DEF EndsWhole
<1>1. OwnersInv
  BY DEF TurnsInv
<1>2. Finished(a)
  <2>1. PICK b \in Attempts : Start(b) \/ ItemStep(b)
    BY <1>1, LoadStepFacts DEF Next, Cancel, Operator, vars
  <2>2. b = a
    BY <1>1, <2>1, StartFacts, ItemStepFacts
  <2>3. ~Undo(a)
    BY <1>1, UndoEnds
  <2>4. ~EnsureLook(a) /\ ~EnsureCreate(a)
    <3>1. ~EnsureCreate(a)
      BY <1>1, ZenonT(60) DEF EnsureCreate, Goto, OwnersInv, TypeOK, ItemType
    <3>2. ASSUME EnsureLook(a) PROVE FALSE
      <4>1. item'[a].pc \in {"failed", "filter", "create"}
        BY <1>1, <3>2 DEF EnsureLook, Goto, OwnersInv, TypeOK, ItemType
      <4> QED BY <4>1
    <3> QED BY <3>1, <3>2
  <2> QED
    BY <1>1, <2>1, <2>2, <2>3, <2>4, StartFacts, GotoMoves DEF ItemStep, CleanupLook,
       CleanupEmpty,
       TakeTurn, BuildFilter, Launch, Stop, Stopped, Undoing, OwnersInv, TypeOK, ItemPlaces,
       BeforeLoad, BeforeEnsured, Waiting, Over
<1>3. load[a].ok
  BY <1>1, <1>2, GotoMoves DEF Finished, OwnersInv, TypeOK, ItemPlaces, Over
<1> QED
  BY <1>2, <1>3 DEF Finished, At, TurnsInv, Undisturbed, Counted, Waiting

\* An item that ends in success leaves its own tables and nobody else's.
THEOREM SuccessLeavesOwnTables ==
  ASSUME Overlapping = FALSE
  PROVE  Spec => SuccessIsWhole
  BY TurnsHold, EndsWholeStep, PTL DEF Spec, SuccessIsWhole

=============================================================================
