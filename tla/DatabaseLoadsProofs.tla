-------------------------- MODULE DatabaseLoadsProofs --------------------------
(***************************************************************************)
(* Proofs about the loads of DatabaseLoads: by a PostgreSQL restore,       *)
(* through the pipe and by a MySQL restore, and about what all three ways  *)
(* of loading promise together.                                            *)
(*                                                                         *)
(* In a PostgreSQL restore what holds at each step is kept by where the    *)
(* reader is.  While it is reading, each block above it is in, or being    *)
(* loaded, or one has failed and will be told of (Loading); each other     *)
(* statement above it has been run, or is held back (Sorted); and every    *)
(* connection stands where the dump's settings have it (InSession).        *)
(* Nothing goes wrong by itself in a dump whose statements are in an order *)
(* that works (Blameless).                                                 *)
(*                                                                         *)
(* Through the pipe: as long as nothing has failed, the chunks written are *)
(* those in the two channels, in the copiers' hands and loaded, and the    *)
(* pipe closes behind the last of them (Conserved).                        *)
(*                                                                         *)
(* In a MySQL restore the place of the reader decides what the writers can *)
(* be at: a row above it is in, in an open transaction or in a writer's    *)
(* hands, or the restore is going to fail (RowsKept); behind a barrier     *)
(* nothing is under way (Calm); and sessions and definitions are those     *)
(* above each row in hand (UnderWay).  On top of that, the indexes held    *)
(* back are put back by groups that no foreign key joins (Indexed), the    *)
(* tables shown are those named so far (ShownSoFar), and a table counts as *)
(* written to only when it is not empty (Unkilled).                        *)
(***************************************************************************)
EXTENDS DatabaseLoads, TLAPS, FiniteSetTheorems

-----------------------------------------------------------------------------
(* A PostgreSQL restore *)

Reading == {"read", "copy", "go", "wait", "exec all", "exec"}
Closing == {"indexes", "constraints", "resets", "refresh"}
Places == Reading \cup Closing \cup {"last wait", "fail", "returned"}
L == Len(dump)

Settings == STRING \cup {"default"}
Elements(s) == {s[k] : k \in DOMAIN s}
PostKinds == {"fk", "trigger"}
\* An index the dump has above the first block is held back.
EarlyIndex(d, i) ==
  d[i].kind = "index" /\ \A k \in DOMAIN d : d[k].kind = "copy" => i < k
Held(d, i) == d[i].kind \in PostKinds \/ EarlyIndex(d, i)
IndexStmts == {i \in DOMAIN dump : dump[i].kind = "index"}
PostStmts == {i \in DOMAIN dump : dump[i].kind \in PostKinds}
MatViewStmts == {i \in DOMAIN dump : dump[i].kind = "matview"}

PgTypeOK ==
  /\ dump \in PgDumps /\ n \in Conns
  /\ ctx \in BOOLEAN /\ faulted \in BOOLEAN /\ broken \in BOOLEAN /\ copied \in BOOLEAN
  /\ main \in [pc : Places, pos : 1 .. L + 1] /\ result \in {"none", "nil", "error"}
  /\ copier \in {"none", "open", "refused"} /\ setup \in Seq(STRING)
  /\ task \in [Pg!Copies -> {"none", "spooled", "started", "loading"}]
  /\ mem \in {"own", "raised"}
  /\ postIndexes \in Seq(IndexStmts) /\ postData \in Seq(PostStmts)
  /\ matViews \in Seq(MatViewStmts)
  /\ session \in [0 .. n -> Settings]
  /\ row \in [Pg!Copies -> [in : BOOLEAN, under : Settings]]
  /\ done \subseteq DOMAIN dump \ Pg!Copies

\* Where the reader is, and what it has in hand there.
Placed ==
  /\ main.pc \in Reading \ {"read"} => main.pos \in DOMAIN dump
  /\ main.pc \in {"copy", "go"} => Pg!Is(main.pos, "copy") /\ copied
  /\ main.pc \in {"wait", "exec all", "exec"} =>
       ~Pg!Is(main.pos, "copy") /\ ~Held(dump, main.pos)
  /\ main.pc = "exec all" => Pg!Is(main.pos, "set")
  /\ main.pc \in {"go", "wait", "exec all"} => copier = "open"
  /\ copier = "open" => n > 1
  /\ main.pc \in Closing => main.pos = L + 1
  /\ result = "none" <=> main.pc # "returned"
  /\ result = "nil" => main.pos = L + 1
  /\ ~copied /\ main.pc \in Reading => \A k \in Pg!Copies : main.pos <= k
  /\ copied => \E k \in Pg!Copies : k <= main.pos

\* Loads go on only while there are connections for them, and before the last wait.
Loading ==
  /\ copier # "open" \/ main.pc \notin Reading \cup {"last wait"} =>
       Pg!Active = {} /\ ~broken
  /\ main.pc \in Reading \/ (main.pc = "last wait" /\ main.pos = L + 1) =>
       \A i \in Pg!Copies : i < main.pos => row[i].in \/ i \in Pg!Active \/ broken
  /\ main.pc = "exec all" \/ (main.pc = "exec" /\ ~Pg!Is(main.pos, "setval")) =>
       Pg!Active = {} /\ \A i \in Pg!Copies : i < main.pos => row[i].in
  /\ main.pc \in Closing \/ result = "nil" => \A i \in Pg!Copies : row[i].in

\* Every statement above the reader has been run or is held back, and what is held
\* back is run in its order once the rows are in.
Sorted ==
  /\ main.pc \in Reading \cup {"last wait"} \cup Closing \/ result = "nil" =>
       \A j \in DOMAIN dump \ Pg!Copies :
         j < main.pos => j \in done \cup Elements(postIndexes) \cup Elements(postData)
  /\ main.pc \in {"constraints", "resets", "refresh"} \/ result = "nil" => postIndexes = <<>>
  /\ main.pc \in {"resets", "refresh"} \/ result = "nil" => postData = <<>>
  /\ main.pc = "refresh" \/ result = "nil" => mem = "own"
  /\ main.pc \in Reading \cup {"last wait", "indexes"} => done \cap PostStmts = {}

\* Each connection has the session settings above what it does.
InSession ==
  /\ main.pc \in Reading => session[0] = Pg!SessionAt(main.pos)
  /\ main.pc \in Reading /\ copier = "open" =>
       \A c \in 1 .. n : session[c] = IF main.pc = "exec" THEN Pg!SessionAt(main.pos + 1)
                                      ELSE Pg!SessionAt(main.pos)
  /\ main.pc \in Reading /\ copier # "open" => Pg!SetUp = session[0]
  /\ \A i \in Pg!Active, c \in 1 .. n : session[c] = Pg!SessionAt(i)

PgInv == PgTypeOK /\ Placed /\ Loading /\ Sorted /\ InSession

\* A dump in which a statement needs only what comes before it, what is held back is
\* needed by nothing that is not, and a schema is renamed below all that names it.
InWorkingOrder(d) ==
  \A i \in DOMAIN d :
    /\ \A j \in d[i].needs :
         /\ j \in 1 .. i - 1
         /\ d[j].kind = "copy" => d[i].kind \notin {"copy", "setval"}
         /\ d[j].kind \in PostKinds => d[i].kind \in PostKinds
         /\ EarlyIndex(d, j) => Held(d, i)
    /\ \A r \in DOMAIN d :
         d[r].kind = "rename" /\ d[r].schema = d[i].schema =>
           i <= r /\ ~Held(d, i) /\ d[i].kind # "matview"

\* What is held back is in the order it was met ...
Ascending(s) == \A j, k \in DOMAIN s : j < k => s[j] < s[k]
Queued ==
  /\ Ascending(postIndexes) /\ Ascending(postData)
  /\ \A i \in Elements(postIndexes) : EarlyIndex(dump, i) /\ i < main.pos
  /\ \A i \in Elements(postData) : i < main.pos
\* ... a load has seen nothing run that is below its block, but for a setval ...
Followed ==
  /\ \A i \in done : i < main.pos
  /\ \A i \in Pg!Active, j \in done : j < i \/ Pg!Is(j, "setval")
  /\ \A i \in Pg!Active : i <= main.pos
\* ... and nothing has failed by itself.
Faultless ==
  /\ ctx \/ broken => faulted
  /\ main.pc = "fail" \/ (main.pc = "last wait" /\ main.pos # L + 1) \/ result = "error"
       => faulted
Blameless == Queued /\ Followed /\ Faultless

-----------------------------------------------------------------------------
(* What the steps leave alone, and facts about sequences and settings.     *)

LEMMA DumpsAreSequences ==
  ASSUME PgTypeOK
  PROVE  /\ dump \in Seq(PgStatements) /\ L \in Nat /\ DOMAIN dump = 1 .. L
         /\ n \in Nat \ {0} /\ main.pos \in Nat
         /\ \A i \in DOMAIN dump : dump[i] \in PgStatements
         /\ Pg!Copies \subseteq DOMAIN dump
BY PgAssumption DEF PgTypeOK, L, Pg!Copies

\* The dump and what is said of it alone.
LEMMA TheDumpStays ==
  ASSUME dump' = dump
  PROVE  /\ Pg!Copies' = Pg!Copies /\ L' = L
         /\ IndexStmts' = IndexStmts /\ PostStmts' = PostStmts /\ MatViewStmts' = MatViewStmts
         /\ \A i : Pg!SessionAt(i)' = Pg!SessionAt(i)
         /\ \A i, kind : Pg!Is(i, kind)' = Pg!Is(i, kind)
BY DEF Pg!Copies, L, IndexStmts, PostStmts, MatViewStmts, Pg!SessionAt, Pg!Is

LEMMA SessionFirst == Pg!SessionAt(1) = "default"
BY DEF Pg!SessionAt

\* A setting lasts until the next.
LEMMA SessionNext ==
  ASSUME PgTypeOK, NEW i \in DOMAIN dump
  PROVE  Pg!SessionAt(i + 1) = IF Pg!Is(i, "set") THEN dump[i].sets ELSE Pg!SessionAt(i)
<1> DEFINE S(k) == {j \in 1 .. k - 1 : Pg!Is(j, "set")}
           latest(T) == CHOOSE j \in T : \A k \in T : k <= j
<1>1. i \in Nat /\ i >= 1 BY DumpsAreSequences
<1>2. ASSUME NEW k \in {i, i + 1}
      PROVE  Pg!SessionAt(k) = IF S(k) = {} THEN "default" ELSE dump[latest(S(k))].sets
  BY DEF Pg!SessionAt
<1>3. CASE Pg!Is(i, "set")
  <2>1. i \in S(i + 1) /\ \A j \in S(i + 1) : j <= i /\ j \in Nat BY <1>1, <1>3
  <2>2. latest(S(i + 1)) = i
    <3>1. \E j \in S(i + 1) : \A k \in S(i + 1) : k <= j BY <2>1
    <3>2. latest(S(i + 1)) \in S(i + 1) /\ \A k \in S(i + 1) : k <= latest(S(i + 1)) BY <3>1
    <3> QED BY <2>1, <3>2, <1>1
  <2> QED BY <1>2, <1>3, <2>1, <2>2
<1>4. CASE ~Pg!Is(i, "set")
  <2>1. S(i + 1) = S(i) BY <1>1, <1>4
  <2> QED BY <1>2, <1>4, <2>1
<1> QED BY <1>3, <1>4

LEMMA ElementsOfAppend ==
  ASSUME NEW S, NEW s \in Seq(S), NEW x \in S
  PROVE  Elements(Append(s, x)) = Elements(s) \cup {x}
<1>1. /\ Len(s) \in Nat /\ DOMAIN s = 1 .. Len(s)
      /\ DOMAIN Append(s, x) = 1 .. Len(s) + 1
      /\ \A k \in 1 .. Len(s) : Append(s, x)[k] = s[k]
      /\ Append(s, x)[Len(s) + 1] = x
  OBVIOUS
<1>2. \A k \in 1 .. Len(s) + 1 : k \in 1 .. Len(s) \/ k = Len(s) + 1 BY <1>1
<1>3. \A k \in 1 .. Len(s) : k \in 1 .. Len(s) + 1 BY <1>1
<1>4. Len(s) + 1 \in 1 .. Len(s) + 1 BY <1>1
<1> QED BY <1>1, <1>2, <1>3, <1>4, Zenon DEF Elements

LEMMA ElementsOfTail ==
  ASSUME NEW S, NEW s \in Seq(S), s # <<>>
  PROVE  /\ Elements(s) = {s[1]} \cup Elements(Tail(s))
         /\ s[1] \in S /\ Tail(s) \in Seq(S)
<1>1. /\ Len(s) \in Nat /\ DOMAIN s = 1 .. Len(s) /\ 1 \in 1 .. Len(s)
      /\ Tail(s) \in Seq(S) /\ DOMAIN Tail(s) = 1 .. Len(s) - 1
      /\ \A k \in 1 .. Len(s) - 1 : Tail(s)[k] = s[k + 1]
  OBVIOUS
<1>2. \A k \in 1 .. Len(s) - 1 : k + 1 \in 1 .. Len(s) BY <1>1
<1>3. \A k \in 1 .. Len(s) : k = 1 \/ \E m \in 1 .. Len(s) - 1 : k = m + 1
  <2> SUFFICES ASSUME NEW k \in 1 .. Len(s), k # 1 PROVE \E m \in 1 .. Len(s) - 1 : k = m + 1
    OBVIOUS
  <2> WITNESS k - 1 \in 1 .. Len(s) - 1
  <2> QED BY <1>1
<1>4. Elements(s) = {s[k] : k \in 1 .. Len(s)} BY <1>1 DEF Elements
<1>5. Elements(Tail(s)) = {s[k + 1] : k \in 1 .. Len(s) - 1} BY <1>1 DEF Elements
<1>6. Elements(s) \subseteq {s[1]} \cup Elements(Tail(s)) BY <1>3, <1>4, <1>5
<1>7. {s[1]} \cup Elements(Tail(s)) \subseteq Elements(s) BY <1>1, <1>2, <1>4, <1>5
<1> QED BY <1>1, <1>6, <1>7

LEMMA ElementsOfEmpty == Elements(<<>>) = {}
BY DEF Elements

LEMMA ElementsIn ==
  ASSUME NEW S, NEW s \in Seq(S)
  PROVE  Elements(s) \subseteq S
BY DEF Elements

\* What every step may use.
LEMMA Basics ==
  ASSUME PgInv, dump' = dump
  PROVE  /\ PgTypeOK /\ Placed /\ Loading /\ Sorted /\ InSession
         /\ L \in Nat /\ DOMAIN dump = 1 .. L /\ Pg!Copies \subseteq 1 .. L
         /\ n \in Nat \ {0} /\ main.pos \in 1 .. L + 1 /\ main.pos \in Nat
         /\ Pg!Copies' = Pg!Copies /\ L' = L
         /\ IndexStmts' = IndexStmts /\ PostStmts' = PostStmts /\ MatViewStmts' = MatViewStmts
         /\ \A i : Pg!SessionAt(i)' = Pg!SessionAt(i)
         /\ \A i, kind : Pg!Is(i, kind)' = Pg!Is(i, kind)
         /\ \A i : Held(dump, i)' = Held(dump, i)
<1>1. PgTypeOK /\ Placed /\ Loading /\ Sorted /\ InSession BY DEF PgInv
<1>2. main.pos \in 1 .. L + 1 BY <1>1 DEF PgTypeOK
<1> QED BY <1>1, <1>2, TheDumpStays, DumpsAreSequences DEF Held, EarlyIndex

LEMMA LastOfSettings == PgTypeOK => Pg!SetUp \in Settings
<1> SUFFICES ASSUME PgTypeOK PROVE Pg!SetUp \in Settings OBVIOUS
<1>1. setup \in Seq(STRING) BY DEF PgTypeOK
<1>2. setup # <<>> => setup[Len(setup)] \in STRING BY <1>1
<1> QED BY <1>2 DEF Pg!SetUp, Settings

\* The restore's own connection and the copier's.
LEMMA Connections ==
  ASSUME PgInv
  PROVE  0 \in 0 .. n /\ \A c \in 1 .. n : c \in 0 .. n /\ c # 0
<1>1. n \in Nat BY DumpsAreSequences DEF PgInv
<1> QED BY <1>1

LEMMA OpenKeeps == PgInv /\ Pg!Open => PgInv'
<1> SUFFICES ASSUME PgInv, Pg!Open PROVE PgInv' OBVIOUS
<1>1. /\ main.pc = "copy" /\ copier = "none" /\ n > 1
      /\ \/ /\ copier' = "open"
            /\ session' = [c \in 0 .. n |-> IF c = 0 THEN session[0] ELSE Pg!SetUp]
         \/ copier' = "refused" /\ session' = session
      /\ UNCHANGED <<dump, n, ctx, main, result, faulted, setup, task, broken, copied, mem,
                     postIndexes, postData, matViews, row, done>>
  BY DEF Pg!Open, Pg!At, Pg!deferred
<1> HIDE DEF Pg!Open
<1>2. PgTypeOK'
  <2>1. session' \in [0 .. n -> Settings]
    BY <1>1, Basics, LastOfSettings DEF PgTypeOK
  <2>2. copier' \in {"none", "open", "refused"} BY <1>1
  <2> QED BY <1>1, Basics, <2>1, <2>2 DEF PgTypeOK
<1>3. Placed' BY <1>1, Basics DEF Placed
<1>4. Loading' BY <1>1, Basics DEF Loading, Pg!Active
<1>5. Sorted' BY <1>1, Basics DEF Sorted
<1>6. InSession'
  <2>1. session[0] = Pg!SessionAt(main.pos) /\ Pg!SetUp = session[0]
    BY <1>1, Basics DEF InSession, Reading
  <2>2. Pg!Active = {} /\ Pg!Active' = {} BY <1>1, Basics DEF Loading, Pg!Active
  <2>3. /\ session'[0] = session[0]
        /\ copier' = "open" => \A c \in 1 .. n : session'[c] = Pg!SetUp
    BY <1>1, Basics DEF PgTypeOK
  <2>4. Pg!SetUp' = Pg!SetUp BY <1>1 DEF Pg!SetUp
  <2> QED BY <1>1, Basics, <2>1, <2>2, <2>3, <2>4 DEF InSession
<1> QED BY <1>2, <1>3, <1>4, <1>5, <1>6 DEF PgInv

LEMMA SpoolKeeps == PgInv /\ (Pg!Spool \/ Pg!SpoolFails) => PgInv'
<1> SUFFICES ASSUME PgInv, Pg!Spool \/ Pg!SpoolFails PROVE PgInv' OBVIOUS
<1>1. /\ main.pc = "copy" /\ copier = "open"
      /\ \/ main' = [main EXCEPT !.pc = "go"] /\ task' = [task EXCEPT ![main.pos] = "spooled"]
         \/ main' = [main EXCEPT !.pc = "last wait"] /\ task' = task
      /\ faulted' \in {faulted, TRUE}
      /\ UNCHANGED <<dump, n, ctx, result, copier, setup, broken, copied, mem, postIndexes,
                     postData, matViews, session, row, done>>
  BY DEF Pg!Spool, Pg!SpoolFails, Pg!At, Pg!Goto, Pg!deferred, Pg!opened, Pg!copying,
         Pg!server
<1> HIDE DEF Pg!Spool, Pg!SpoolFails
<1>2. /\ main.pos \in DOMAIN dump /\ main' \in [pc : Places, pos : 1 .. L + 1]
      /\ main'.pos = main.pos /\ main'.pc \in {"go", "last wait"}
  BY <1>1, Basics DEF PgTypeOK, Placed, Places, Reading
<1>3. task' \in [Pg!Copies -> {"none", "spooled", "started", "loading"}]
  BY <1>1, Basics DEF PgTypeOK
<1>4. \A i \in Pg!Copies : i # main.pos => task'[i] = task[i]
  BY <1>1, Basics DEF PgTypeOK
<1>5. Pg!Active' \subseteq Pg!Active /\ \A i \in Pg!Active : i < main.pos => i \in Pg!Active'
  <2>1. CASE task' = task BY <1>1, <2>1, Basics DEF Pg!Active
  <2>2. CASE task' = [task EXCEPT ![main.pos] = "spooled"]
    <3>1. main.pos \in Pg!Copies => task'[main.pos] = "spooled" BY <1>1, <2>2, Basics DEF PgTypeOK
    <3>2. Pg!Copies' = Pg!Copies /\ main.pos \in Nat BY <1>1, Basics
    <3>3. \A i \in Pg!Copies : i # main.pos => (i \in Pg!Active' <=> i \in Pg!Active)
      BY <1>4, <3>2 DEF Pg!Active
    <3>4. main.pos \notin Pg!Active' BY <3>1, <3>2 DEF Pg!Active
    <3>5. Pg!Active' \subseteq Pg!Copies /\ Pg!Active \subseteq Pg!Copies
      BY <3>2 DEF Pg!Active
    <3>6. \A i \in Pg!Copies : i < main.pos => i # main.pos BY <3>2
    <3> QED BY <3>3, <3>4, <3>5, <3>6
  <2> QED BY <1>1, <2>1, <2>2
<1>6. PgTypeOK' BY <1>1, <1>2, <1>3, Basics DEF PgTypeOK
<1>7. Placed'
  BY <1>1, <1>2, Basics, ZenonT(60) DEF Placed, Reading, Closing
<1>8. Loading' BY <1>1, <1>2, <1>5, Basics DEF Loading, Reading, Closing
<1>9. Sorted' BY <1>1, <1>2, Basics DEF Sorted, Reading, Closing
<1>10. InSession'
  <2>1. /\ session[0] = Pg!SessionAt(main.pos)
        /\ \A c \in 1 .. n : session[c] = Pg!SessionAt(main.pos)
    BY <1>1, Basics DEF InSession, Reading
  <2>2. \A i \in Pg!Active', c \in 1 .. n : session[c] = Pg!SessionAt(i)
    BY <1>1, <1>5, Basics DEF InSession
  <2>3. /\ session' = session /\ copier' = "open" /\ n' = n
        /\ main'.pos = main.pos /\ main'.pc # "exec"
        /\ \A k : Pg!SessionAt(k)' = Pg!SessionAt(k)
    BY <1>1, <1>2, Basics
  <2>4. (main.pc \in Reading => session[0] = Pg!SessionAt(main.pos))'
    BY <2>1, <2>3
  <2>5. (main.pc \in Reading /\ copier = "open" =>
           \A c \in 1 .. n : session[c] = IF main.pc = "exec" THEN Pg!SessionAt(main.pos + 1)
                                          ELSE Pg!SessionAt(main.pos))'
    BY <2>1, <2>3
  <2>6. (\A i \in Pg!Active, c \in 1 .. n : session[c] = Pg!SessionAt(i))'
    BY <2>2, <2>3
  <2> QED BY <2>3, <2>4, <2>5, <2>6 DEF InSession
<1> QED BY <1>6, <1>7, <1>8, <1>9, <1>10 DEF PgInv

LEMMA GoKeeps == PgInv /\ Pg!Go => PgInv'
<1> SUFFICES ASSUME PgInv, Pg!Go PROVE PgInv' OBVIOUS
<1>1. /\ main.pc = "go" /\ task' = [task EXCEPT ![main.pos] = "started"]
      /\ main' = [pc |-> "read", pos |-> main.pos + 1]
      /\ UNCHANGED <<dump, n, ctx, result, faulted, copier, setup, broken, copied, mem,
                     postIndexes, postData, matViews, session, row, done>>
  BY DEF Pg!Go, Pg!At, Pg!NextStmt, Pg!opened, Pg!deferred, Pg!server
<1> HIDE DEF Pg!Go
<1>2. /\ main.pos \in Pg!Copies /\ main.pos \in DOMAIN dump /\ main.pos \in 1 .. L
      /\ copier = "open" /\ copied /\ ~Pg!Is(main.pos, "set")
  BY <1>1, Basics DEF Placed, Reading, Pg!Copies, Pg!Is
<1>3. PgTypeOK'
  <2>1. main' \in [pc : Places, pos : 1 .. L + 1] BY <1>1, <1>2, Basics DEF Places, Reading
  <2>2. task' \in [Pg!Copies -> {"none", "spooled", "started", "loading"}]
    BY <1>1, Basics DEF PgTypeOK
  <2> QED BY <1>1, Basics, <2>1, <2>2 DEF PgTypeOK
<1>4. Placed' BY <1>1, <1>2, Basics DEF Placed, Reading, Closing
<1>5. Pg!Active' = Pg!Active \cup {main.pos}
  BY <1>1, <1>2, Basics DEF Pg!Active, PgTypeOK
<1>6. Loading' BY <1>1, <1>2, <1>5, Basics DEF Loading, Reading, Closing
<1>7. Sorted' BY <1>1, <1>2, Basics DEF Sorted, Reading, Closing
<1>8. InSession'
  <2>1. Pg!SessionAt(main.pos + 1) = Pg!SessionAt(main.pos)
    BY <1>1, <1>2, Basics, SessionNext
  <2>2. /\ session[0] = Pg!SessionAt(main.pos)
        /\ \A c \in 1 .. n : session[c] = Pg!SessionAt(main.pos)
    BY <1>1, <1>2, Basics DEF InSession, Reading
  <2> QED BY <1>1, <1>2, <1>5, <2>1, <2>2, Basics DEF InSession, Reading
<1> QED BY <1>3, <1>4, <1>6, <1>7, <1>8 DEF PgInv

\* A load: it gets a connection or gives up, and its block comes in or it fails.
LEMMA TaskKeeps ==
  ASSUME PgInv, NEW i \in Pg!Copies, Pg!Task(i) \/ Pg!LoadFails(i), faulted' \in BOOLEAN
  PROVE  PgInv'
<1>1. /\ i \in Pg!Active
      /\ \/ task' = [task EXCEPT ![i] = "loading"] /\ UNCHANGED <<broken, row>>
         \/ task' = [task EXCEPT ![i] = "none"] /\ broken' = TRUE /\ row' = row
         \/ /\ task' = [task EXCEPT ![i] = "none"] /\ broken' = broken
            /\ row' = [row EXCEPT ![i] = [in |-> TRUE, under |-> session[1]]]
      /\ UNCHANGED <<dump, n, ctx, main, result, copier, setup, copied, mem, postIndexes,
                     postData, matViews, session, done>>
  BY DEF Pg!Task, Pg!Start, Pg!Loaded, Pg!LoadFails, Pg!Ended, Pg!opened, Pg!deferred,
         Pg!server, Pg!Active
<1> HIDE DEF Pg!Task, Pg!LoadFails
<1>2. /\ task \in [Pg!Copies -> {"none", "spooled", "started", "loading"}]
      /\ row \in [Pg!Copies -> [in : BOOLEAN, under : Settings]]
      /\ session[1] \in Settings /\ broken \in BOOLEAN
  <2>1. session \in [0 .. n -> Settings] /\ 1 \in 0 .. n BY <1>1, Basics DEF PgTypeOK
  <2>2. session[1] \in Settings BY <2>1
  <2> QED BY <1>1, <2>2, Basics DEF PgTypeOK
<1>3. /\ task' \in [Pg!Copies -> {"none", "spooled", "started", "loading"}]
      /\ row' \in [Pg!Copies -> [in : BOOLEAN, under : Settings]]
      /\ broken' \in BOOLEAN
  <2>1. [in |-> TRUE, under |-> session[1]] \in [in : BOOLEAN, under : Settings] BY <1>2
  <2> QED BY <1>1, <1>2, <2>1, ZenonT(60)
<1>4. /\ Pg!Active' \subseteq Pg!Active
      /\ \A j \in Pg!Copies : j # i /\ j \in Pg!Active => j \in Pg!Active'
  BY <1>1, <1>2, Basics DEF Pg!Active
<1>5. /\ i \in Pg!Active' \/ broken' \/ row'[i].in
      /\ \A j \in Pg!Copies : row[j].in => row'[j].in
      /\ broken => broken'
  <2>1. CASE task' = [task EXCEPT ![i] = "loading"] /\ UNCHANGED <<broken, row>>
    <3>1. task'[i] = "loading" BY <1>2, <2>1
    <3> QED BY <1>1, <2>1, <3>1, Basics DEF Pg!Active
  <2>2. CASE broken' = TRUE /\ row' = row BY <2>2
  <2>3. CASE /\ broken' = broken
             /\ row' = [row EXCEPT ![i] = [in |-> TRUE, under |-> session[1]]]
    <3>1. row'[i].in /\ \A j \in Pg!Copies : j # i => row'[j] = row[j] BY <1>2, <2>3
    <3> QED BY <2>3, <3>1
  <2> QED BY <1>1, <2>1, <2>2, <2>3
<1>6. PgTypeOK' BY <1>1, <1>3, Basics DEF PgTypeOK
<1>7. Placed' BY <1>1, Basics DEF Placed
<1>8. Loading'
  <2>1. copier = "open" /\ main.pc \in Reading \cup {"last wait"} BY <1>1, Basics DEF Loading
  <2>2. ~(main.pc = "exec all" \/ (main.pc = "exec" /\ ~Pg!Is(main.pos, "setval")))
    BY <1>1, Basics DEF Loading
  <2>3. main.pc \notin Closing /\ result # "nil"
    BY <1>1, <2>1, Basics DEF Placed, Reading, Closing
  <2> QED BY <1>1, <1>4, <1>5, <2>1, <2>2, <2>3, Basics DEF Loading
<1>9. Sorted' BY <1>1, Basics DEF Sorted
<1>10. InSession'
  <2>1. Pg!SetUp' = Pg!SetUp BY <1>1 DEF Pg!SetUp
  <2> QED BY <1>1, <1>4, <2>1, Basics DEF InSession
<1> QED BY <1>6, <1>7, <1>8, <1>9, <1>10 DEF PgInv

\* Whatever stops the reading ends in the last wait.
LEMMA GivingUpKeeps ==
  ASSUME PgInv, main.pc \in Reading, main' = [main EXCEPT !.pc = "last wait"],
         faulted' \in BOOLEAN,
         UNCHANGED <<dump, n, ctx, result, copier, setup, task, broken, copied, mem,
                     postIndexes, postData, matViews, session, row, done>>
  PROVE  PgInv'
<1>1. /\ main'.pos = main.pos /\ main'.pc = "last wait"
      /\ main' \in [pc : Places, pos : 1 .. L + 1]
  BY Basics DEF PgTypeOK, Places
<1>2. PgTypeOK' BY <1>1, Basics DEF PgTypeOK
<1>3. Placed' BY <1>1, Basics DEF Placed, Reading, Closing
<1>4. Pg!Active' = Pg!Active BY Basics DEF Pg!Active
<1>5. Loading' BY <1>1, <1>4, Basics DEF Loading, Placed, Reading, Closing
<1>6. Sorted' BY <1>1, Basics DEF Sorted, Reading, Closing
<1>7. InSession'
  <2>1. \A i \in Pg!Active', c \in 1 .. n : session'[c] = Pg!SessionAt(i)'
    BY <1>4, Basics DEF InSession
  <2> QED BY <1>1, <2>1 DEF InSession, Reading
<1> QED BY <1>2, <1>3, <1>5, <1>6, <1>7 DEF PgInv

\* A restore that fails has no load under way.
LEMMA FailingKeeps ==
  ASSUME PgInv, main.pc \in Closing \/ (main.pc \in Reading /\ copier # "open"),
         main' = [main EXCEPT !.pc = "fail"], faulted' \in BOOLEAN,
         UNCHANGED <<dump, n, ctx, result, copier, setup, task, broken, copied, mem,
                     postIndexes, postData, matViews, session, row, done>>
  PROVE  PgInv'
<1>1. /\ main'.pos = main.pos /\ main'.pc = "fail"
      /\ main' \in [pc : Places, pos : 1 .. L + 1]
  BY Basics DEF PgTypeOK, Places
<1>2. PgTypeOK' BY <1>1, Basics DEF PgTypeOK
<1>3. Placed' BY <1>1, Basics DEF Placed, Reading, Closing
<1>4. Pg!Active' = {} /\ ~broken' BY Basics DEF Pg!Active, Loading, Reading, Closing
<1>5. Loading' BY <1>1, <1>4, Basics DEF Loading, Placed, Reading, Closing
<1>6. Sorted' BY <1>1, Basics DEF Sorted, Placed, Reading, Closing
<1>7. InSession' BY <1>1, <1>4 DEF InSession, Reading
<1> QED BY <1>2, <1>3, <1>5, <1>6, <1>7 DEF PgInv

LEMMA ReadFailsKeeps == PgInv /\ Pg!ReadFails => PgInv'
BY GivingUpKeeps
   DEF Pg!ReadFails, Pg!At, Pg!Goto, Pg!opened, Pg!copying, Pg!deferred, Pg!server, Reading

\* The reader goes past a statement it holds back.
LEMMA HoldingBackKeeps ==
  ASSUME PgInv, main.pc = "read", main.pos \in DOMAIN dump, Held(dump, main.pos),
         main' = [pc |-> "read", pos |-> main.pos + 1],
         \/ /\ dump[main.pos].kind = "index" /\ postIndexes' = Append(postIndexes, main.pos)
            /\ postData' = postData
         \/ /\ dump[main.pos].kind \in PostKinds /\ postData' = Append(postData, main.pos)
            /\ postIndexes' = postIndexes,
         UNCHANGED <<dump, n, ctx, result, faulted, copier, setup, task, broken, copied, mem,
                     matViews, session, row, done>>
  PROVE  PgInv'
<1>1. /\ main.pos \in 1 .. L /\ main' \in [pc : Places, pos : 1 .. L + 1]
      /\ main'.pos = main.pos + 1 /\ main'.pc = "read"
  BY Basics DEF Places, Reading
<1>2. main.pos \notin Pg!Copies /\ ~Pg!Is(main.pos, "set")
  BY DEF Pg!Copies, Pg!Is, Held, EarlyIndex, PostKinds
<1>3. /\ postIndexes \in Seq(IndexStmts) /\ postData \in Seq(PostStmts)
      /\ dump[main.pos].kind = "index" => main.pos \in IndexStmts
      /\ dump[main.pos].kind \in PostKinds => main.pos \in PostStmts
  BY Basics DEF PgTypeOK, IndexStmts, PostStmts
<1>4. /\ postIndexes' \in Seq(IndexStmts) /\ postData' \in Seq(PostStmts)
      /\ Elements(postIndexes') \cup Elements(postData')
           = Elements(postIndexes) \cup Elements(postData) \cup {main.pos}
  <2>1. CASE dump[main.pos].kind = "index" /\ postIndexes' = Append(postIndexes, main.pos)
             /\ postData' = postData
    <3>1. main.pos \in IndexStmts BY <1>3, <2>1
    <3>2. Append(postIndexes, main.pos) \in Seq(IndexStmts) BY <1>3, <3>1
    <3>3. Elements(Append(postIndexes, main.pos)) = Elements(postIndexes) \cup {main.pos}
      BY <1>3, <3>1, ElementsOfAppend
    <3> QED BY <1>3, <2>1, <3>2, <3>3
  <2>2. CASE dump[main.pos].kind \in PostKinds /\ postData' = Append(postData, main.pos)
             /\ postIndexes' = postIndexes
    <3>1. main.pos \in PostStmts BY <1>3, <2>2
    <3>2. Append(postData, main.pos) \in Seq(PostStmts) BY <1>3, <3>1
    <3>3. Elements(Append(postData, main.pos)) = Elements(postData) \cup {main.pos}
      BY <1>3, <3>1, ElementsOfAppend
    <3> QED BY <1>3, <2>2, <3>2, <3>3
  <2> QED BY <2>1, <2>2
<1>5. Elements(postIndexes)' = Elements(postIndexes') /\ Elements(postData)' = Elements(postData')
  BY DEF Elements
<1>6. PgTypeOK' BY <1>1, <1>4, Basics DEF PgTypeOK
<1>7. Placed' BY <1>1, <1>2, Basics DEF Placed, Reading, Closing
<1>8. Pg!Active' = Pg!Active BY Basics DEF Pg!Active
<1>9. Loading' BY <1>1, <1>2, <1>8, Basics DEF Loading, Placed, Reading, Closing
<1>10. Sorted' BY <1>1, <1>4, <1>5, Basics DEF Sorted, Placed, Reading, Closing
<1>11. InSession'
  <2>1. Pg!SessionAt(main.pos + 1) = Pg!SessionAt(main.pos) BY <1>2, Basics, SessionNext
  <2>2. Pg!SetUp' = Pg!SetUp BY DEF Pg!SetUp
  <2> QED BY <1>1, <1>8, <2>1, <2>2, Basics DEF InSession, Reading
<1> QED BY <1>6, <1>7, <1>9, <1>10, <1>11 DEF PgInv

\* A statement is about to be run: at once, or after the blocks before it.
LEMMA TakingUpKeeps ==
  ASSUME PgInv, main.pc = "read", main.pos \in DOMAIN dump,
         ~Pg!Is(main.pos, "copy"), ~Held(dump, main.pos),
         main' = [main EXCEPT !.pc = IF copier = "open" /\ ~Pg!Is(main.pos, "setval")
                                     THEN "wait" ELSE "exec"],
         mem' \in {mem, "raised"},
         UNCHANGED <<dump, n, ctx, result, faulted, copier, setup, task, broken, copied,
                     postIndexes, postData, matViews, session, row, done>>
  PROVE  PgInv'
<1>1. /\ main.pos \in 1 .. L /\ main' \in [pc : Places, pos : 1 .. L + 1]
      /\ main'.pos = main.pos /\ main'.pc \in {"wait", "exec"}
      /\ main'.pc = "exec" => copier # "open" \/ Pg!Is(main.pos, "setval")
      /\ main'.pc = "wait" => copier = "open"
  BY Basics DEF PgTypeOK, Places, Reading
<1>2. PgTypeOK' BY <1>1, Basics DEF PgTypeOK
<1>3. Placed' BY <1>1, Basics DEF Placed, Reading, Closing
<1>4. Pg!Active' = Pg!Active BY Basics DEF Pg!Active
<1>5. Loading'
  <2>1. /\ \A i \in Pg!Copies : i < main.pos => row[i].in \/ i \in Pg!Active \/ broken
        /\ copier # "open" => Pg!Active = {} /\ ~broken
    BY Basics DEF Loading, Reading
  <2> QED BY <1>1, <1>4, <2>1, Basics DEF Loading, Placed, Reading, Closing
<1>6. Sorted' BY <1>1, Basics DEF Sorted, Placed, Reading, Closing
<1>7. InSession'
  <2>1. Pg!SetUp' = Pg!SetUp BY DEF Pg!SetUp
  <2>2. Pg!Is(main.pos, "setval") => Pg!SessionAt(main.pos + 1) = Pg!SessionAt(main.pos)
    BY Basics, SessionNext DEF Pg!Is
  <2> QED BY <1>1, <1>4, <2>1, <2>2, Basics DEF InSession, Reading
<1> QED BY <1>2, <1>3, <1>5, <1>6, <1>7 DEF PgInv

LEMMA ReadKeeps == PgInv /\ Pg!Read => PgInv'
<1> SUFFICES ASSUME PgInv, Pg!Read PROVE PgInv' OBVIOUS
<1>1. /\ main.pc = "read"
      /\ UNCHANGED <<dump, n, ctx, result, faulted, copier, setup, task, broken, session, row,
                     done>>
  BY DEF Pg!Read, Pg!At, Pg!opened, Pg!copying, Pg!server
<1>2. CASE main.pos > L
  BY <1>1, <1>2, Basics, GivingUpKeeps DEF Pg!Read, Pg!Goto, Pg!deferred, L, Reading, PgTypeOK
<1>3. CASE main.pos <= L
  <2>1. main.pos \in DOMAIN dump /\ ~(main.pos > Len(dump)) BY <1>1, <1>3, Basics DEF L
  <2>2. CASE Pg!Is(main.pos, "copy")
    <3>1. /\ copied' = TRUE /\ main' = [main EXCEPT !.pc = "copy"]
          /\ UNCHANGED <<mem, postIndexes, postData, matViews>>
      BY <2>1, <2>2 DEF Pg!Read, Pg!Goto, Pg!pgIsPostDataStmt, Pg!Is, Pg!Stmt, Pg!HeldBack,
                        Pg!pgIsCreateIndexStmt
    <3> HIDE DEF Pg!Read
    <3>2. /\ main' \in [pc : Places, pos : 1 .. L + 1]
          /\ main'.pos = main.pos /\ main'.pc = "copy" /\ main.pos \in Pg!Copies
      BY <1>1, <2>1, <2>2, <3>1, Basics DEF PgTypeOK, Places, Reading, Pg!Copies
    <3>3. PgTypeOK' BY <1>1, <3>1, <3>2, Basics DEF PgTypeOK
    <3>4. Placed' BY <1>1, <2>1, <2>2, <3>1, <3>2, Basics DEF Placed, Reading, Closing
    <3>5. Pg!Active' = Pg!Active BY <1>1, Basics DEF Pg!Active
    <3>6. Loading' BY <1>1, <3>2, <3>5, Basics DEF Loading, Placed, Reading, Closing
    <3>7. Sorted' BY <1>1, <3>1, <3>2, Basics DEF Sorted, Placed, Reading, Closing
    <3>8. InSession'
      <4>1. Pg!SetUp' = Pg!SetUp BY <1>1 DEF Pg!SetUp
      <4> QED BY <1>1, <3>2, <3>5, <4>1, Basics DEF InSession, Reading
    <3> QED BY <3>3, <3>4, <3>6, <3>7, <3>8 DEF PgInv
  <2>3. CASE ~Pg!Is(main.pos, "copy") /\ Held(dump, main.pos)
    <3>1. dump[main.pos].kind = "index" => ~copied
      BY <1>1, <2>1, <2>3, Basics DEF Held, EarlyIndex, PostKinds, Placed, Pg!Copies, Pg!Is
    <3>2. /\ main' = [pc |-> "read", pos |-> main.pos + 1]
          /\ \/ /\ dump[main.pos].kind = "index" /\ postIndexes' = Append(postIndexes, main.pos)
                /\ postData' = postData
             \/ /\ dump[main.pos].kind \in PostKinds /\ postData' = Append(postData, main.pos)
                /\ postIndexes' = postIndexes
          /\ UNCHANGED <<copied, mem, matViews>>
      BY <2>1, <2>3, <3>1 DEF Held, EarlyIndex, PostKinds, Pg!Read, Pg!NextStmt, Pg!Is, Pg!Stmt,
         Pg!pgIsPostDataStmt, Pg!HeldBack, Pg!pgIsCreateIndexStmt
    <3> HIDE DEF Pg!Read
    <3> QED BY <1>1, <2>1, <2>3, <3>2, HoldingBackKeeps
  <2>4. CASE ~Pg!Is(main.pos, "copy") /\ ~Held(dump, main.pos)
    <3>1. dump[main.pos].kind = "index" => copied
      BY <1>1, <2>1, <2>4, Basics DEF Held, EarlyIndex, Placed, Pg!Copies, Pg!Is, Reading
    <3>2. /\ main' = [main EXCEPT !.pc = IF copier = "open" /\ ~Pg!Is(main.pos, "setval")
                                         THEN "wait" ELSE "exec"]
          /\ mem' \in {mem, "raised"}
          /\ UNCHANGED <<copied, postIndexes, postData, matViews>>
      BY <2>1, <2>4, <3>1 DEF Held, PostKinds, Pg!Read, Pg!Goto, Pg!Is, Pg!Stmt,
         Pg!pgIsPostDataStmt, Pg!HeldBack, Pg!pgIsCreateIndexStmt, Pg!pgIsSetval
    <3> HIDE DEF Pg!Read
    <3> QED BY <1>1, <2>1, <2>4, <3>2, TakingUpKeeps
  <2> QED BY <2>2, <2>3, <2>4
<1> QED BY <1>1, <1>2, <1>3, Basics

LEMMA StreamKeeps == PgInv /\ Pg!Stream => PgInv'
<1> SUFFICES ASSUME PgInv, Pg!Stream PROVE PgInv' OBVIOUS
<1>1. /\ main.pc = "copy" /\ (n = 1 \/ copier = "refused")
      /\ \/ /\ main' = [pc |-> "read", pos |-> main.pos + 1]
            /\ row' = [row EXCEPT ![main.pos] = [in |-> TRUE, under |-> session[0]]]
         \/ main' = [main EXCEPT !.pc = "fail"] /\ row' = row
      /\ UNCHANGED <<dump, n, ctx, result, faulted, copier, setup, task, broken, copied, mem,
                     postIndexes, postData, matViews, session, done>>
  BY DEF Pg!Stream, Pg!At, Pg!NextStmt, Pg!Goto, Pg!opened, Pg!deferred, Pg!copying
<1> HIDE DEF Pg!Stream
<1>2. /\ main.pos \in Pg!Copies /\ main.pos \in DOMAIN dump /\ main.pos \in 1 .. L
      /\ copier # "open" /\ copied /\ ~Pg!Is(main.pos, "set")
  BY <1>1, Basics DEF Placed, Reading, Pg!Copies, Pg!Is
<1>3. CASE main' = [main EXCEPT !.pc = "fail"] /\ row' = row
  BY <1>1, <1>2, <1>3, FailingKeeps, Basics DEF Reading, PgTypeOK
<1>4. CASE /\ main' = [pc |-> "read", pos |-> main.pos + 1]
           /\ row' = [row EXCEPT ![main.pos] = [in |-> TRUE, under |-> session[0]]]
  <2>1. main' \in [pc : Places, pos : 1 .. L + 1] /\ main'.pc = "read" /\ main'.pos = main.pos + 1
    BY <1>1, <1>2, <1>4, Basics DEF Places, Reading
  <2>2. /\ row \in [Pg!Copies -> [in : BOOLEAN, under : Settings]] /\ session[0] \in Settings
    <3>1. session \in [0 .. n -> Settings] /\ 0 \in 0 .. n BY <1>1, Basics DEF PgTypeOK
    <3>2. session[0] \in Settings BY <3>1
    <3> QED BY <1>1, <3>2, Basics DEF PgTypeOK
  <2>3. row' \in [Pg!Copies -> [in : BOOLEAN, under : Settings]]
    <3>1. [in |-> TRUE, under |-> session[0]] \in [in : BOOLEAN, under : Settings] BY <2>2
    <3> QED BY <1>4, <2>2, <3>1
  <2>4. row'[main.pos].in /\ \A i \in Pg!Copies : row[i].in => row'[i].in
    BY <1>2, <1>4, <2>2
  <2>5. PgTypeOK' BY <1>1, <2>1, <2>3, Basics DEF PgTypeOK
  <2>6. Placed' BY <1>1, <1>2, <2>1, Basics DEF Placed, Reading, Closing
  <2>7. Pg!Active' = Pg!Active /\ Pg!Active = {} /\ ~broken
    BY <1>1, <1>2, Basics DEF Pg!Active, Loading
  <2>8. Loading'
    <3>1. \A i \in Pg!Copies : i < main.pos + 1 => row'[i].in
      BY <1>1, <2>4, <2>7, Basics DEF Loading, Reading
    <3> QED BY <1>1, <2>1, <2>7, <3>1, Basics DEF Loading, Placed, Reading, Closing
  <2>9. Sorted' BY <1>1, <1>2, <2>1, Basics DEF Sorted, Placed, Reading, Closing
  <2>10. InSession'
    <3>1. Pg!SessionAt(main.pos + 1) = Pg!SessionAt(main.pos) BY <1>1, <1>2, Basics, SessionNext
    <3>2. Pg!SetUp' = Pg!SetUp BY <1>1 DEF Pg!SetUp
    <3> QED BY <1>1, <1>2, <2>1, <2>7, <3>1, <3>2, Basics DEF InSession, Reading
  <2> QED BY <2>5, <2>6, <2>8, <2>9, <2>10 DEF PgInv
<1> QED BY <1>1, <1>3, <1>4

\* wait: what is in flight ends, and a failure among it is told.
LEMMA WaitKeeps == PgInv /\ Pg!Wait => PgInv'
<1> SUFFICES ASSUME PgInv, Pg!Wait PROVE PgInv' OBVIOUS
<1>1. /\ main.pc = "wait" /\ Pg!Active = {} /\ broken' = FALSE
      /\ main' = [main EXCEPT !.pc = IF broken THEN "last wait"
                                     ELSE IF Pg!Is(main.pos, "set") THEN "exec all" ELSE "exec"]
      /\ UNCHANGED <<dump, n, ctx, result, faulted, copier, setup, task, copied, mem,
                     postIndexes, postData, matViews, session, row, done>>
  BY DEF Pg!Wait, Pg!At, Pg!Goto, Pg!opened, Pg!deferred, Pg!server, Pg!Settled, Pg!Failed,
         Pg!pgIsSessionSetting, Pg!Is, Pg!Stmt
<1> HIDE DEF Pg!Wait
<1>2. /\ main.pos \in DOMAIN dump /\ main.pos \in 1 .. L
      /\ main'.pos = main.pos /\ main'.pc \in {"last wait", "exec all", "exec"}
      /\ main'.pc = "last wait" <=> broken
      /\ main'.pc = "exec all" => Pg!Is(main.pos, "set")
      /\ main'.pc = "exec" => ~Pg!Is(main.pos, "set")
      /\ main' \in [pc : Places, pos : 1 .. L + 1]
  BY <1>1, Basics DEF PgTypeOK, Placed, Places, Reading
<1>3. PgTypeOK' BY <1>1, <1>2, Basics DEF PgTypeOK
<1>4. Placed' BY <1>1, <1>2, Basics DEF Placed, Reading, Closing
<1>5. Pg!Active' = {} BY <1>1, Basics DEF Pg!Active
<1>6. Loading'
  <2>1. ~broken => \A i \in Pg!Copies : i < main.pos => row[i].in
    BY <1>1, Basics DEF Loading, Reading
  <2>2. main'.pc \notin Closing /\ result' # "nil" /\ main.pos # L + 1
    <3>1. main.pos \in 1 .. L /\ L \in Nat BY <1>1, <1>2, Basics
    <3>2. main.pos # L + 1 BY <3>1
    <3>3. result = "none" BY <1>1, Basics DEF Placed
    <3> QED BY <1>1, <1>2, <3>2, <3>3 DEF Closing
  <2>3. ~broken' /\ (main'.pc \in Reading => ~broken) BY <1>1, <1>2 DEF Reading
  <2> QED BY <1>1, <1>2, <1>5, <2>1, <2>2, <2>3, Basics DEF Loading
<1>7. Sorted' BY <1>1, <1>2, Basics DEF Sorted, Placed, Reading, Closing
<1>8. InSession'
  <2>1. ~Pg!Is(main.pos, "set") => Pg!SessionAt(main.pos + 1) = Pg!SessionAt(main.pos)
    BY <1>1, <1>2, Basics, SessionNext
  <2>2. Pg!SetUp' = Pg!SetUp BY <1>1 DEF Pg!SetUp
  <2>3. copier = "open" BY <1>1, Basics DEF Placed
  <2> QED BY <1>1, <1>2, <1>5, <2>1, <2>2, <2>3, Basics DEF InSession, Reading
<1> QED BY <1>3, <1>4, <1>6, <1>7, <1>8 DEF PgInv

LEMMA LastWaitKeeps == PgInv /\ Pg!LastWait(Pg!Whole) => PgInv'
<1> SUFFICES ASSUME PgInv, Pg!LastWait(Pg!Whole) PROVE PgInv' OBVIOUS
<1>1. /\ main.pc = "last wait" /\ Pg!Active = {} /\ broken' = FALSE
      /\ task' = [i \in Pg!Copies |-> "none"]
      /\ main' = [main EXCEPT !.pc = IF main.pos > L /\ ~broken THEN "indexes" ELSE "fail"]
      /\ UNCHANGED <<dump, n, ctx, result, faulted, copier, setup, copied, mem,
                     postIndexes, postData, matViews, session, row, done>>
  BY DEF Pg!LastWait, Pg!Whole, Pg!At, Pg!Goto, Pg!opened, Pg!deferred, Pg!server, Pg!Failed, L
<1> HIDE DEF Pg!LastWait, Pg!Whole
<1>2. /\ main'.pos = main.pos /\ main'.pc \in {"indexes", "fail"}
      /\ main'.pc = "indexes" => main.pos = L + 1 /\ ~broken
      /\ main' \in [pc : Places, pos : 1 .. L + 1]
  <2>1. /\ main \in [pc : Places, pos : 1 .. L + 1]
        /\ main.pos > L => main.pos = L + 1
    <3>1. main.pos \in 1 .. L + 1 /\ L \in Nat BY <1>1, Basics
    <3>2. main \in [pc : Places, pos : 1 .. L + 1] BY <1>1, Basics DEF PgTypeOK
    <3> QED BY <3>1, <3>2
  <2> QED BY <1>1, <2>1 DEF Places, Closing
<1>3. PgTypeOK' BY <1>1, <1>2, Basics DEF PgTypeOK
<1>4. Placed' BY <1>1, <1>2, Basics DEF Placed, Reading, Closing
<1>5. Pg!Active' = {} BY <1>1, Basics DEF Pg!Active
<1>6. Loading'
  <2>1. main'.pc = "indexes" => \A i \in Pg!Copies : row[i].in
    <3> SUFFICES ASSUME main'.pc = "indexes", NEW i \in Pg!Copies PROVE row[i].in OBVIOUS
    <3>1. main.pos = L + 1 /\ ~broken /\ i \notin Pg!Active BY <1>1, <1>2
    <3>2. i \in 1 .. L /\ L \in Nat BY <1>1, Basics
    <3>3. i < main.pos BY <3>1, <3>2
    <3> QED BY <1>1, <3>1, <3>3, Basics DEF Loading
  <2> QED BY <1>1, <1>2, <1>5, <2>1, Basics DEF Loading, Placed, Reading, Closing
<1>7. Sorted' BY <1>1, <1>2, Basics DEF Sorted, Placed, Reading, Closing
<1>8. InSession' BY <1>1, <1>2, <1>5 DEF InSession, Reading
<1> QED BY <1>3, <1>4, <1>6, <1>7, <1>8 DEF PgInv

LEMMA ExecAllKeeps == PgInv /\ Pg!ExecAll => PgInv'
<1> SUFFICES ASSUME PgInv, Pg!ExecAll PROVE PgInv' OBVIOUS
<1>1. /\ main.pc = "exec all"
      /\ \/ /\ session' = [c \in 0 .. n |-> IF c = 0 THEN session[0] ELSE dump[main.pos].sets]
            /\ main' = [main EXCEPT !.pc = "exec"]
         \/ session' = session /\ main' = [main EXCEPT !.pc = "last wait"]
      /\ UNCHANGED <<dump, n, ctx, result, faulted, copier, setup, task, broken, copied, mem,
                     postIndexes, postData, matViews, row, done>>
  BY DEF Pg!ExecAll, Pg!At, Pg!Goto, Pg!opened, Pg!deferred, Pg!copying, Pg!Stmt
<1> HIDE DEF Pg!ExecAll
<1>2. CASE session' = session /\ main' = [main EXCEPT !.pc = "last wait"]
  BY <1>1, <1>2, Basics, GivingUpKeeps DEF Reading, PgTypeOK
<1>3. CASE /\ session' = [c \in 0 .. n |-> IF c = 0 THEN session[0] ELSE dump[main.pos].sets]
           /\ main' = [main EXCEPT !.pc = "exec"]
  <2>1. /\ main.pos \in DOMAIN dump /\ main.pos \in 1 .. L /\ Pg!Is(main.pos, "set")
        /\ copier = "open"
    BY <1>1, Basics DEF Placed, Reading
  <2>2. /\ main'.pos = main.pos /\ main'.pc = "exec" /\ main' \in [pc : Places, pos : 1 .. L + 1]
    BY <1>1, <1>3, Basics DEF PgTypeOK, Places, Reading
  <2>3. dump[main.pos].sets \in STRING BY <1>1, <2>1, Basics, DumpsAreSequences DEF PgStatements
  <2>4. session' \in [0 .. n -> Settings]
    <3>1. session \in [0 .. n -> Settings] /\ 0 \in 0 .. n
      BY <1>1, Basics, Connections DEF PgTypeOK
    <3>2. session[0] \in Settings BY <3>1
    <3> QED BY <1>3, <2>3, <3>2 DEF Settings
  <2>5. /\ session'[0] = session[0]
        /\ \A c \in 1 .. n : session'[c] = dump[main.pos].sets
    <3>1. 0 \in 0 .. n /\ \A c \in 1 .. n : c \in 0 .. n /\ c # 0 BY Connections
    <3> QED BY <1>3, <3>1
  <2>6. PgTypeOK' BY <1>1, <2>2, <2>4, Basics DEF PgTypeOK
  <2>7. Placed' BY <1>1, <2>1, <2>2, Basics, ZenonT(60) DEF Placed, Reading, Closing
  <2>8. Pg!Active' = Pg!Active /\ Pg!Active = {} BY <1>1, Basics DEF Pg!Active, Loading
  <2>9. Loading' BY <1>1, <2>2, <2>8, Basics DEF Loading, Placed, Reading, Closing
  <2>10. Sorted' BY <1>1, <2>2, Basics DEF Sorted, Placed, Reading, Closing
  <2>11. InSession'
    <3>1. Pg!SessionAt(main.pos + 1) = dump[main.pos].sets BY <1>1, <2>1, Basics, SessionNext
    <3>2. Pg!SessionAt(main.pos) = session[0] BY <1>1, Basics DEF InSession, Reading
    <3>3. /\ main'.pc = "exec" /\ main'.pos = main.pos /\ copier' = "open" /\ n' = n
          /\ Pg!SessionAt(main.pos)' = Pg!SessionAt(main.pos)
          /\ Pg!SessionAt(main.pos + 1)' = Pg!SessionAt(main.pos + 1)
      BY <1>1, <2>1, <2>2, Basics
    <3> QED BY <2>2, <2>5, <2>8, <3>1, <3>2, <3>3 DEF InSession
  <2> QED BY <2>6, <2>7, <2>9, <2>10, <2>11 DEF PgInv
<1> QED BY <1>1, <1>2, <1>3

LEMMA ExecKeeps == PgInv /\ Pg!Exec => PgInv'
<1> SUFFICES ASSUME PgInv, Pg!Exec PROVE PgInv' OBVIOUS
<1>1. /\ main.pc = "exec"
      /\ \/ /\ main' = [pc |-> "read", pos |-> main.pos + 1]
            /\ done' = done \cup {main.pos}
            /\ session' = IF Pg!Is(main.pos, "set")
                          THEN [session EXCEPT ![0] = dump[main.pos].sets] ELSE session
            /\ setup' = IF copier # "open" /\ Pg!Is(main.pos, "set")
                        THEN Append(setup, dump[main.pos].sets) ELSE setup
            /\ matViews' = IF dump[main.pos].kind = "matview" THEN Append(matViews, main.pos)
                           ELSE matViews
         \/ /\ main' = [main EXCEPT !.pc = "last wait"]
            /\ UNCHANGED <<setup, matViews, session, done>>
      /\ UNCHANGED <<dump, n, ctx, result, faulted, copier, task, broken, copied, mem,
                     postIndexes, postData, row>>
  BY DEF Pg!Exec, Pg!At, Pg!Goto, Pg!NextStmt, Pg!copying, Pg!Stmt, Pg!Runs, Pg!Is,
         Pg!pgIsSessionSetting
<1> HIDE DEF Pg!Exec
<1>2. CASE /\ main' = [main EXCEPT !.pc = "last wait"]
           /\ UNCHANGED <<setup, matViews, session, done>>
  BY <1>1, <1>2, Basics, GivingUpKeeps DEF Reading, PgTypeOK
<1>3. CASE /\ main' = [pc |-> "read", pos |-> main.pos + 1]
           /\ done' = done \cup {main.pos}
           /\ session' = IF Pg!Is(main.pos, "set")
                         THEN [session EXCEPT ![0] = dump[main.pos].sets] ELSE session
           /\ setup' = IF copier # "open" /\ Pg!Is(main.pos, "set")
                       THEN Append(setup, dump[main.pos].sets) ELSE setup
           /\ matViews' = IF dump[main.pos].kind = "matview" THEN Append(matViews, main.pos)
                          ELSE matViews
  <2>1. /\ main.pos \in DOMAIN dump /\ main.pos \in 1 .. L
        /\ main.pos \notin Pg!Copies /\ ~Held(dump, main.pos)
    BY <1>1, Basics DEF Placed, Reading, Pg!Copies, Pg!Is
  <2>2. /\ main'.pos = main.pos + 1 /\ main'.pc = "read"
        /\ main' \in [pc : Places, pos : 1 .. L + 1]
    <3>1. main.pos \in 1 .. L /\ L \in Nat BY <1>1, <2>1, Basics
    <3>2. main.pos + 1 \in 1 .. L + 1 BY <3>1
    <3> QED BY <1>3, <3>2 DEF Places, Reading
  <2>3. dump[main.pos].sets \in STRING BY <1>1, <2>1, Basics, DumpsAreSequences DEF PgStatements
  <2>4. session \in [0 .. n -> Settings] /\ setup \in Seq(STRING) BY <1>1, Basics DEF PgTypeOK
  <2>5. session' \in [0 .. n -> Settings]
    BY <1>3, <2>3, <2>4 DEF Settings
  <2>6. setup' \in Seq(STRING)
    <3>1. Append(setup, dump[main.pos].sets) \in Seq(STRING) BY <2>3, <2>4
    <3> QED BY <1>3, <2>4, <3>1
  <2>7. matViews' \in Seq(MatViewStmts)
    <3>1. matViews \in Seq(MatViewStmts) BY <1>1, Basics DEF PgTypeOK
    <3>2. dump[main.pos].kind = "matview" => main.pos \in MatViewStmts
      BY <2>1 DEF MatViewStmts
    <3> QED BY <1>3, <3>1, <3>2
  <2>8. PgTypeOK'
    <3>1. done' \subseteq DOMAIN dump \ Pg!Copies BY <1>1, <1>3, <2>1, Basics DEF PgTypeOK
    <3> QED BY <1>1, <2>2, <2>5, <2>6, <2>7, <3>1, Basics DEF PgTypeOK
  <2>9. Placed'
    <3>1. /\ \A k \in Pg!Copies : main.pos <= k => main.pos + 1 <= k
          /\ \A k \in Pg!Copies : k <= main.pos => k <= main.pos + 1
      <4>1. /\ Pg!Copies \subseteq 1 .. L /\ L \in Nat /\ main.pos \in 1 .. L
            /\ main.pos \notin Pg!Copies
        BY <1>1, <2>1, Basics
      <4> QED BY <4>1
    <3> QED BY <1>1, <2>2, <3>1, Basics DEF Placed, Reading, Closing
  <2>10. Pg!Active' = Pg!Active BY <1>1, Basics DEF Pg!Active
  <2>11. Loading'
    <3>1. \A i \in Pg!Copies : i < main.pos => row[i].in \/ i \in Pg!Active \/ broken
      BY <1>1, Basics DEF Loading, Reading
    <3>2. \A i \in Pg!Copies : i < main.pos + 1 => i < main.pos
      <4>1. /\ Pg!Copies \subseteq 1 .. L /\ L \in Nat /\ main.pos \in 1 .. L
            /\ main.pos \notin Pg!Copies
        BY <1>1, <2>1, Basics
      <4> QED BY <4>1
    <3>3. copier # "open" => Pg!Active = {} /\ ~broken BY <1>1, Basics DEF Loading
    <3>4. result' # "nil" BY <1>1, Basics DEF Placed
    <3> QED BY <1>1, <2>2, <2>10, <3>1, <3>2, <3>3, <3>4, Basics DEF Loading, Reading, Closing
  <2>12. Sorted'
    <3>1. \A j \in DOMAIN dump \ Pg!Copies :
            j < main.pos => j \in done \cup Elements(postIndexes) \cup Elements(postData)
      BY <1>1, Basics DEF Sorted, Reading
    <3>2. \A j \in DOMAIN dump : j < main.pos + 1 => j < main.pos \/ j = main.pos
      <4>1. DOMAIN dump = 1 .. L /\ L \in Nat /\ main.pos \in 1 .. L BY <1>1, <2>1, Basics
      <4> QED BY <4>1
    <3>3. done' \cap PostStmts = {}
      BY <1>1, <1>3, <2>1, Basics DEF Sorted, Reading, PostStmts, Held
    <3>4. Elements(postIndexes)' = Elements(postIndexes) /\ Elements(postData)' = Elements(postData)
      BY <1>1
    <3>5. result' # "nil" BY <1>1, Basics DEF Placed
    <3>6. \A j \in DOMAIN dump \ Pg!Copies :
            j < main.pos + 1 => j \in done' \cup Elements(postIndexes) \cup Elements(postData)
      BY <1>3, <3>1, <3>2
    <3> QED BY <1>1, <2>2, <3>3, <3>4, <3>5, <3>6, Basics DEF Sorted
  <2>13. InSession'
    <3>1. /\ session[0] = Pg!SessionAt(main.pos)
          /\ copier = "open" => \A c \in 1 .. n : session[c] = Pg!SessionAt(main.pos + 1)
          /\ copier # "open" => Pg!SetUp = session[0]
          /\ \A i \in Pg!Active, c \in 1 .. n : session[c] = Pg!SessionAt(i)
      BY <1>1, Basics DEF InSession, Reading
    <3>2. Pg!SessionAt(main.pos + 1) = IF Pg!Is(main.pos, "set") THEN dump[main.pos].sets
                                       ELSE Pg!SessionAt(main.pos)
      BY <1>1, <2>1, Basics, SessionNext
    <3>3. /\ session'[0] = IF Pg!Is(main.pos, "set") THEN dump[main.pos].sets ELSE session[0]
          /\ \A c \in 1 .. n : session'[c] = session[c]
      <4>1. 0 \in 0 .. n /\ \A c \in 1 .. n : c \in 0 .. n /\ c # 0 BY Connections
      <4> QED BY <1>3, <2>4, <4>1
    <3>4. copier # "open" => Pg!SetUp' = session'[0]
      <4>1. ~Pg!Is(main.pos, "set") /\ copier # "open" => Pg!SetUp' = Pg!SetUp
        BY <1>3 DEF Pg!SetUp
      <4>2. Pg!Is(main.pos, "set") /\ copier # "open" => Pg!SetUp' = dump[main.pos].sets
        <5>1. /\ Append(setup, dump[main.pos].sets) # <<>>
              /\ Append(setup, dump[main.pos].sets)[Len(Append(setup, dump[main.pos].sets))]
                   = dump[main.pos].sets
          BY <2>3, <2>4
        <5> QED BY <1>3, <5>1 DEF Pg!SetUp
      <4> QED BY <3>1, <3>3, <4>1, <4>2
    <3>5. session'[0] = Pg!SessionAt(main.pos + 1)
      BY <3>1, <3>2, <3>3
    <3>6. /\ main'.pc = "read" /\ Pg!SessionAt(main'.pos) = Pg!SessionAt(main.pos + 1)
          /\ copier' = copier /\ n' = n /\ \A k : Pg!SessionAt(k)' = Pg!SessionAt(k)
      BY <1>1, <2>2, Basics
    <3>7. (main.pc \in Reading => session[0] = Pg!SessionAt(main.pos))'
      BY <2>2, <3>5, <3>6
    <3>8. (main.pc \in Reading /\ copier = "open" =>
             \A c \in 1 .. n : session[c] = IF main.pc = "exec" THEN Pg!SessionAt(main.pos + 1)
                                            ELSE Pg!SessionAt(main.pos))'
      BY <2>2, <3>1, <3>3, <3>6
    <3>9. (\A i \in Pg!Active, c \in 1 .. n : session[c] = Pg!SessionAt(i))'
      BY <2>10, <3>1, <3>3, <3>6
    <3> QED BY <3>4, <3>6, <3>7, <3>8, <3>9 DEF InSession
  <2> QED BY <2>8, <2>9, <2>11, <2>12, <2>13 DEF PgInv
<1> QED BY <1>1, <1>2, <1>3

\* What was held back is run from the front.
LEMMA BuildKeeps ==
  ASSUME PgInv,
         \/ main.pc = "indexes" /\ postData' = postData
            /\ \/ /\ postIndexes = <<>> /\ postIndexes' = postIndexes
                  /\ main' = [main EXCEPT !.pc = "constraints"] /\ done' = done
               \/ /\ postIndexes # <<>> /\ postIndexes' = Tail(postIndexes)
                  /\ main' = main /\ done' = done \cup {postIndexes[1]}
         \/ main.pc = "constraints" /\ postIndexes' = postIndexes
            /\ \/ /\ postData = <<>> /\ postData' = postData
                  /\ main' = [main EXCEPT !.pc = "resets"] /\ done' = done
               \/ /\ postData # <<>> /\ postData' = Tail(postData)
                  /\ main' = main /\ done' = done \cup {postData[1]},
         UNCHANGED <<dump, n, ctx, result, faulted, copier, setup, task, broken, copied, mem,
                     matViews, session, row>>
  PROVE  PgInv'
<1>1. /\ main'.pos = main.pos /\ main'.pc \in {"indexes", "constraints", "resets"}
      /\ main' \in [pc : Places, pos : 1 .. L + 1]
      /\ main.pc \in {"indexes", "constraints"} /\ main.pc \in Closing
  BY Basics DEF PgTypeOK, Places, Closing
<1>2. /\ postIndexes \in Seq(IndexStmts) /\ postData \in Seq(PostStmts)
      /\ main.pc = "constraints" => postIndexes = <<>>
  BY Basics DEF PgTypeOK, Sorted
<1>3. /\ postIndexes # <<>> =>
           /\ Elements(postIndexes) = {postIndexes[1]} \cup Elements(Tail(postIndexes))
           /\ postIndexes[1] \in IndexStmts /\ Tail(postIndexes) \in Seq(IndexStmts)
      /\ postData # <<>> =>
           /\ Elements(postData) = {postData[1]} \cup Elements(Tail(postData))
           /\ postData[1] \in PostStmts /\ Tail(postData) \in Seq(PostStmts)
  BY <1>2, ElementsOfTail
<1>4. /\ IndexStmts \subseteq DOMAIN dump \ Pg!Copies /\ PostStmts \subseteq DOMAIN dump \ Pg!Copies
      /\ IndexStmts \cap PostStmts = {}
  BY DEF IndexStmts, PostStmts, Pg!Copies, Pg!Is, PostKinds
<1>5. /\ postIndexes' \in Seq(IndexStmts) /\ postData' \in Seq(PostStmts)
      /\ done' \subseteq DOMAIN dump \ Pg!Copies
  BY <1>2, <1>3, <1>4, Basics DEF PgTypeOK
<1>6. PgTypeOK' BY <1>1, <1>5, Basics DEF PgTypeOK
<1>7. Placed' BY <1>1, Basics DEF Placed, Reading, Closing
<1>8. Pg!Active' = {} /\ ~broken'
  BY <1>1, Basics DEF Pg!Active, Loading, Reading, Closing
<1>9. result = "none" BY <1>1, Basics DEF Placed
<1>10. Loading' BY <1>1, <1>8, <1>9, Basics DEF Loading, Reading, Closing
<1>11. Sorted'
  <2>1. done' \cup Elements(postIndexes') \cup Elements(postData')
          = done \cup Elements(postIndexes) \cup Elements(postData)
    BY <1>1, <1>3
  <2>2. Elements(postIndexes)' = Elements(postIndexes') /\ Elements(postData)' = Elements(postData')
    BY DEF Elements
  <2>3. \A j \in DOMAIN dump \ Pg!Copies :
          j < main.pos => j \in done \cup Elements(postIndexes) \cup Elements(postData)
    BY <1>1, Basics DEF Sorted
  <2>4. main'.pc = "indexes" => done' \cap PostStmts = {}
    BY <1>1, <1>3, <1>4, Basics DEF Sorted
  <2>5. /\ main'.pc \in {"constraints", "resets"} => postIndexes' = <<>>
        /\ main'.pc = "resets" => postData' = <<>>
    BY <1>1, <1>2
  <2> QED BY <1>1, <1>9, <2>1, <2>2, <2>3, <2>4, <2>5, Basics DEF Sorted, Reading
<1>12. InSession' BY <1>1, <1>8 DEF InSession, Reading
<1> QED BY <1>6, <1>7, <1>10, <1>11, <1>12 DEF PgInv

LEMMA PostIndexesKeeps == PgInv /\ Pg!PostIndexes => PgInv'
<1> SUFFICES ASSUME PgInv, Pg!PostIndexes PROVE PgInv' OBVIOUS
<1>1. /\ main.pc = "indexes"
      /\ \/ /\ postIndexes = <<>> /\ postIndexes' = postIndexes
            /\ main' = [main EXCEPT !.pc = "constraints"] /\ UNCHANGED <<done, session>>
         \/ /\ postIndexes # <<>> /\ postIndexes' = Tail(postIndexes)
            /\ main' = main /\ done' = done \cup {postIndexes[1]}
            /\ session' = IF Pg!Is(postIndexes[1], "set")
                          THEN [session EXCEPT ![0] = dump[postIndexes[1]].sets] ELSE session
      /\ UNCHANGED <<dump, n, ctx, result, faulted, copier, setup, task, broken, copied, mem,
                     postData, matViews, row>>
  BY DEF Pg!PostIndexes, Pg!Build, Pg!At, Pg!Goto, Pg!Rest, Pg!First, Pg!Runs, Pg!opened,
         Pg!copying
<1> HIDE DEF Pg!PostIndexes
<1>2. postIndexes # <<>> => ~Pg!Is(postIndexes[1], "set")
  BY <1>1, Basics, ElementsOfTail DEF PgTypeOK, IndexStmts, Pg!Is
<1> QED BY <1>1, <1>2, BuildKeeps

LEMMA PostDataKeeps == PgInv /\ Pg!PostData => PgInv'
<1> SUFFICES ASSUME PgInv, Pg!PostData PROVE PgInv' OBVIOUS
<1>1. /\ main.pc = "constraints"
      /\ \/ /\ postData = <<>> /\ postData' = postData
            /\ main' = [main EXCEPT !.pc = "resets"] /\ UNCHANGED <<done, session>>
         \/ /\ postData # <<>> /\ postData' = Tail(postData)
            /\ main' = main /\ done' = done \cup {postData[1]}
            /\ session' = IF Pg!Is(postData[1], "set")
                          THEN [session EXCEPT ![0] = dump[postData[1]].sets] ELSE session
      /\ UNCHANGED <<dump, n, ctx, result, faulted, copier, setup, task, broken, copied, mem,
                     postIndexes, matViews, row>>
  BY DEF Pg!PostData, Pg!Build, Pg!At, Pg!Goto, Pg!Rest, Pg!First, Pg!Runs, Pg!opened,
         Pg!copying
<1> HIDE DEF Pg!PostData
<1>2. postData # <<>> => ~Pg!Is(postData[1], "set")
  BY <1>1, Basics, ElementsOfTail DEF PgTypeOK, PostStmts, PostKinds, Pg!Is
<1> QED BY <1>1, <1>2, BuildKeeps

LEMMA BuildFailsKeeps ==
  ASSUME PgInv, faulted' \in BOOLEAN,
         \/ Pg!BuildFails("indexes", postIndexes) \/ Pg!BuildFails("constraints", postData)
         \/ Pg!BuildFails("refresh", matViews)
  PROVE  PgInv'
BY FailingKeeps
   DEF Pg!BuildFails, Pg!At, Pg!Goto, Pg!opened, Pg!copying, Pg!deferred, Pg!server, Closing

LEMMA ResetsKeeps == PgInv /\ Pg!Resets => PgInv'
<1> SUFFICES ASSUME PgInv, Pg!Resets PROVE PgInv' OBVIOUS
<1>1. /\ main.pc = "resets"
      /\ \/ main' = [main EXCEPT !.pc = "refresh"] /\ mem' = "own"
         \/ main' = [main EXCEPT !.pc = "fail"] /\ mem' = mem
      /\ UNCHANGED <<dump, n, ctx, result, faulted, copier, setup, task, broken, copied,
                     postIndexes, postData, matViews, session, row, done>>
  BY DEF Pg!Resets, Pg!At, Pg!Goto, Pg!copying, Pg!server
<1> HIDE DEF Pg!Resets
<1>2. CASE main' = [main EXCEPT !.pc = "fail"] /\ mem' = mem
  BY <1>1, <1>2, Basics, FailingKeeps DEF PgTypeOK, Closing
<1>3. CASE main' = [main EXCEPT !.pc = "refresh"] /\ mem' = "own"
  <2>1. /\ main'.pos = main.pos /\ main'.pc = "refresh"
        /\ main' \in [pc : Places, pos : 1 .. L + 1]
    BY <1>1, <1>3, Basics DEF PgTypeOK, Places, Closing
  <2>2. PgTypeOK' BY <1>1, <1>3, <2>1, Basics DEF PgTypeOK
  <2>3. Placed' BY <1>1, <2>1, Basics DEF Placed, Reading, Closing
  <2>4. Pg!Active' = {} /\ ~broken'
    BY <1>1, Basics DEF Pg!Active, Loading, Reading, Closing
  <2>5. Loading' BY <1>1, <2>1, <2>4, Basics DEF Loading, Reading, Closing
  <2>6. Sorted' BY <1>1, <1>3, <2>1, Basics DEF Sorted, Reading, Closing
  <2>7. InSession' BY <2>1, <2>4 DEF InSession, Reading
  <2> QED BY <2>2, <2>3, <2>5, <2>6, <2>7 DEF PgInv
<1> QED BY <1>1, <1>2, <1>3

LEMMA RefreshKeeps == PgInv /\ Pg!Refresh => PgInv'
<1> SUFFICES ASSUME PgInv, Pg!Refresh PROVE PgInv' OBVIOUS
<1>1. /\ main.pc = "refresh"
      /\ \/ /\ main' = [main EXCEPT !.pc = "returned"] /\ result' = "nil"
            /\ matViews = <<>> /\ matViews' = matViews
         \/ /\ main' = main /\ result' = result
            /\ matViews # <<>> /\ matViews' = Tail(matViews)
      /\ UNCHANGED <<dump, n, ctx, faulted, copier, setup, task, broken, copied, mem,
                     postIndexes, postData, session, row, done>>
  BY DEF Pg!Refresh, Pg!At, Pg!Goto, Pg!Rest, Pg!First, Pg!opened, Pg!copying, Pg!server
<1> HIDE DEF Pg!Refresh
<1>2. /\ main'.pos = main.pos /\ main'.pc \in {"refresh", "returned"}
      /\ main' \in [pc : Places, pos : 1 .. L + 1] /\ main.pos = L + 1
      /\ result = "none" /\ result' \in {"none", "nil"}
      /\ result' = "nil" <=> main'.pc = "returned"
  <2>1. main \in [pc : Places, pos : 1 .. L + 1] /\ main.pos = L + 1 /\ result = "none"
    BY <1>1, Basics DEF PgTypeOK, Placed, Closing
  <2> QED BY <1>1, <2>1 DEF Places, Closing
<1>3. matViews' \in Seq(MatViewStmts)
  <2>1. matViews \in Seq(MatViewStmts) BY <1>1, Basics DEF PgTypeOK
  <2> QED BY <1>1, <2>1, ElementsOfTail
<1>4. PgTypeOK' BY <1>1, <1>2, <1>3, Basics DEF PgTypeOK
<1>5. Placed' BY <1>1, <1>2, Basics DEF Placed, Reading, Closing
<1>6. Pg!Active' = {} /\ ~broken'
  BY <1>1, Basics DEF Pg!Active, Loading, Reading, Closing
<1>7. Loading' BY <1>1, <1>2, <1>6, Basics DEF Loading, Reading, Closing
<1>8. Sorted' BY <1>1, <1>2, Basics DEF Sorted, Reading, Closing
<1>9. InSession' BY <1>2, <1>6 DEF InSession, Reading
<1> QED BY <1>4, <1>5, <1>7, <1>8, <1>9 DEF PgInv

LEMMA FailKeeps == PgInv /\ Pg!Fail => PgInv'
<1> SUFFICES ASSUME PgInv, Pg!Fail PROVE PgInv' OBVIOUS
<1>1. /\ main.pc = "fail" /\ main' = [main EXCEPT !.pc = "returned"] /\ result' = "error"
      /\ UNCHANGED <<dump, n, ctx, faulted, copier, setup, task, broken, copied, mem,
                     postIndexes, postData, matViews, session, row, done>>
  BY DEF Pg!Fail, Pg!At, Pg!Goto, Pg!opened, Pg!copying, Pg!server, Pg!deferred
<1> HIDE DEF Pg!Fail
<1>2. /\ main'.pos = main.pos /\ main'.pc = "returned"
      /\ main' \in [pc : Places, pos : 1 .. L + 1]
  BY <1>1, Basics DEF PgTypeOK, Places
<1>3. PgTypeOK' BY <1>1, <1>2, Basics DEF PgTypeOK
<1>4. Placed' BY <1>1, <1>2, Basics DEF Placed, Reading, Closing
<1>5. Pg!Active' = {} /\ ~broken'
  BY <1>1, Basics DEF Pg!Active, Loading, Reading, Closing
<1>6. Loading' BY <1>1, <1>2, <1>5, Basics DEF Loading, Reading, Closing
<1>7. Sorted' BY <1>1, <1>2, Basics DEF Sorted, Reading, Closing
<1>8. InSession' BY <1>2, <1>5 DEF InSession, Reading
<1> QED BY <1>3, <1>4, <1>6, <1>7, <1>8 DEF PgInv

LEMMA CancelKeeps == PgInv /\ Pg!Cancel => PgInv'
<1> SUFFICES ASSUME PgInv, Pg!Cancel PROVE PgInv' OBVIOUS
<1>1. /\ ctx' \in BOOLEAN /\ faulted' \in BOOLEAN
      /\ UNCHANGED <<dump, n, main, result, copier, setup, task, broken, copied, mem,
                     postIndexes, postData, matViews, session, row, done>>
  BY DEF Pg!Cancel, Pg!opened, Pg!copying, Pg!server, Pg!deferred
<1> HIDE DEF Pg!Cancel
<1>2. PgTypeOK' BY <1>1, Basics DEF PgTypeOK
<1>3. Placed' BY <1>1, Basics DEF Placed
<1>4. Pg!Active' = Pg!Active BY <1>1, Basics DEF Pg!Active
<1>5. Loading' BY <1>1, <1>4, Basics DEF Loading
<1>6. Sorted' BY <1>1, Basics DEF Sorted
<1>7. InSession'
  <2>1. Pg!SetUp' = Pg!SetUp BY <1>1 DEF Pg!SetUp
  <2> QED BY <1>1, <1>4, <2>1, Basics DEF InSession
<1> QED BY <1>2, <1>3, <1>5, <1>6, <1>7 DEF PgInv

LEMMA PgNext == PgInv /\ Pg!Next => PgInv'
<1> SUFFICES ASSUME PgInv, Pg!Next PROVE PgInv' OBVIOUS
<1>1. faulted \in BOOLEAN BY DEF PgInv, PgTypeOK
<1>2. CASE Pg!Reader
  BY <1>2, ReadKeeps, OpenKeeps, SpoolKeeps, GoKeeps, StreamKeeps, WaitKeeps, LastWaitKeeps,
     ExecAllKeeps, ExecKeeps, PostIndexesKeeps, PostDataKeeps, ResetsKeeps, RefreshKeeps,
     FailKeeps
     DEF Pg!Reader
<1>3. CASE Pg!Refusals BY <1>1, <1>3, BuildFailsKeeps DEF Pg!Refusals
<1>4. CASE Pg!Faults
  BY <1>4, BuildFailsKeeps, ReadFailsKeeps, SpoolKeeps, TaskKeeps DEF Pg!Faults
<1>5. CASE Pg!Cancel BY <1>5, CancelKeeps
<1>6. CASE \E i \in Pg!Copies : Pg!Task(i)
  <2>1. PICK i \in Pg!Copies : Pg!Task(i) BY <1>6
  <2>2. faulted' = faulted BY <2>1 DEF Pg!Task, Pg!Start, Pg!Loaded
  <2> QED BY <1>1, <2>1, <2>2, TaskKeeps
<1> QED BY <1>2, <1>3, <1>4, <1>5, <1>6 DEF Pg!Next

LEMMA PgStarts == Pg!Init => PgInv
<1> SUFFICES ASSUME Pg!Init PROVE PgInv OBVIOUS
<1>1. /\ dump \in PgDumps /\ n \in Conns
      /\ ctx = FALSE /\ main = [pc |-> "read", pos |-> 1] /\ result = "none"
      /\ faulted = FALSE /\ copier = "none" /\ setup = <<>>
      /\ task = [i \in Pg!Copies |-> "none"] /\ broken = FALSE /\ copied = FALSE /\ mem = "own"
      /\ postIndexes = <<>> /\ postData = <<>> /\ matViews = <<>>
      /\ session = [c \in 0 .. n |-> "default"]
      /\ row = [i \in Pg!Copies |-> [in |-> FALSE, under |-> "default"]] /\ done = {}
  BY DEF Pg!Init
<1> HIDE DEF Pg!Init
<1>2. /\ L \in Nat /\ DOMAIN dump = 1 .. L /\ Pg!Copies \subseteq 1 .. L /\ n \in Nat \ {0}
  BY <1>1, PgAssumption DEF L, Pg!Copies
<1>3. PgTypeOK
  <2>1. 1 \in 1 .. L + 1 BY <1>2
  <2>2. main \in [pc : Places, pos : 1 .. L + 1] BY <1>1, <2>1 DEF Places, Reading
  <2>3. [in |-> FALSE, under |-> "default"] \in [in : BOOLEAN, under : Settings] BY DEF Settings
  <2>4. /\ session \in [0 .. n -> Settings]
        /\ row \in [Pg!Copies -> [in : BOOLEAN, under : Settings]]
        /\ task \in [Pg!Copies -> {"none", "spooled", "started", "loading"}]
    BY <1>1, <2>3 DEF Settings
  <2>5. /\ setup \in Seq(STRING) /\ postIndexes \in Seq(IndexStmts)
        /\ postData \in Seq(PostStmts) /\ matViews \in Seq(MatViewStmts)
    BY <1>1
  <2> QED BY <1>1, <2>2, <2>4, <2>5 DEF PgTypeOK
<1>4. main.pc = "read" /\ main.pos = 1 /\ \A i \in 1 .. L : i >= 1 /\ ~(i < 1)
  BY <1>1, <1>2
<1>5. Placed BY <1>1, <1>2, <1>4 DEF Placed, Reading, Closing
<1>6. Pg!Active = {} BY <1>1 DEF Pg!Active
<1>7. Loading BY <1>1, <1>2, <1>4, <1>6 DEF Loading, Reading, Closing
<1>8. Sorted BY <1>1, <1>2, <1>4 DEF Sorted, Reading, Closing
<1>9. InSession
  <2>1. session[0] = "default" BY <1>1, <1>2
  <2> QED BY <1>1, <1>4, <1>6, <2>1, SessionFirst DEF InSession, Reading, Pg!SetUp
<1> QED BY <1>3, <1>5, <1>7, <1>8, <1>9 DEF PgInv

-----------------------------------------------------------------------------
(* What a restore promises                                                 *)

\* A block comes in where the reader is, or by a load that has a connection.
LEMMA RowsCome ==
  ASSUME PgInv, Pg!Next, NEW i \in Pg!Copies, row'[i].in, ~row[i].in
  PROVE  \/ main.pc = "copy" /\ main.pos = i /\ row'[i].under = session[0]
         \/ i \in Pg!Active /\ row'[i].under = session[1]
<1>1. row \in [Pg!Copies -> [in : BOOLEAN, under : Settings]] BY DEF PgInv, PgTypeOK
<1>2. row' # row BY <1>1
<1>3. \/ Pg!Stream /\ row' = [row EXCEPT ![main.pos] = [in |-> TRUE, under |-> session[0]]]
      \/ \E k \in Pg!Copies :
           Pg!Loaded(k) /\ row' = [row EXCEPT ![k] = [in |-> TRUE, under |-> session[1]]]
  <2>1. ASSUME Pg!Reader PROVE Pg!Stream
    BY <1>2, <2>1 DEF Pg!Reader, Pg!Read, Pg!Open, Pg!Spool, Pg!Go, Pg!Wait, Pg!LastWait,
       Pg!ExecAll, Pg!Exec, Pg!PostIndexes, Pg!PostData, Pg!Build, Pg!Resets, Pg!Refresh,
       Pg!Fail, Pg!server
  <2>2. ~Pg!Refusals /\ ~Pg!Cancel BY <1>2 DEF Pg!Refusals, Pg!BuildFails, Pg!Cancel, Pg!server
  <2>3. ~Pg!Faults
    BY <1>2 DEF Pg!Faults, Pg!ReadFails, Pg!SpoolFails, Pg!BuildFails, Pg!LoadFails, Pg!server
  <2>4. Pg!Stream \/ \E k \in Pg!Copies : Pg!Task(k) BY <2>1, <2>2, <2>3 DEF Pg!Next
  <2>5. ASSUME NEW k \in Pg!Copies, Pg!Task(k) PROVE Pg!Loaded(k)
    BY <1>2, <2>5 DEF Pg!Task, Pg!Start, Pg!LoadFails, Pg!server
  <2>6. Pg!Stream => row' = [row EXCEPT ![main.pos] = [in |-> TRUE, under |-> session[0]]]
    BY <1>2 DEF Pg!Stream
  <2>7. \A k \in Pg!Copies :
          Pg!Loaded(k) => row' = [row EXCEPT ![k] = [in |-> TRUE, under |-> session[1]]]
    BY DEF Pg!Loaded
  <2> QED BY <2>4, <2>5, <2>6, <2>7
<1>4. CASE Pg!Stream /\ row' = [row EXCEPT ![main.pos] = [in |-> TRUE, under |-> session[0]]]
  <2>1. main.pc = "copy" BY <1>4 DEF Pg!Stream, Pg!At
  <2>2. main.pos = i BY <1>1, <1>4
  <2> QED BY <1>1, <1>4, <2>1, <2>2
<1>5. ASSUME NEW k \in Pg!Copies, Pg!Loaded(k),
             row' = [row EXCEPT ![k] = [in |-> TRUE, under |-> session[1]]]
      PROVE  i \in Pg!Active /\ row'[i].under = session[1]
  <2>1. k = i BY <1>1, <1>5
  <2>2. task[k] = "loading" BY <1>5 DEF Pg!Loaded
  <2> QED BY <1>1, <1>5, <2>1, <2>2 DEF Pg!Active
<1> QED BY <1>3, <1>4, <1>5

\* A statement is run where the reader is, or when all rows are in.
LEMMA StatementsRun ==
  ASSUME PgInv, Pg!Next
  PROVE  \/ done' = done
         \/ /\ main.pc = "exec" /\ done' = done \cup {main.pos}
            /\ main' = [pc |-> "read", pos |-> main.pos + 1]
         \/ /\ main.pc \in Closing /\ main' = main
            /\ \E i \in Elements(postIndexes) \cup Elements(postData) : done' = done \cup {i}
<1>1. ASSUME Pg!Reader, done' # done
      PROVE  Pg!Exec \/ Pg!PostIndexes \/ Pg!PostData
  BY <1>1 DEF Pg!Reader, Pg!Read, Pg!Open, Pg!Spool, Pg!Go, Pg!Stream, Pg!Wait, Pg!LastWait,
     Pg!ExecAll, Pg!Resets, Pg!Refresh, Pg!Fail, Pg!server
<1>2. ASSUME Pg!Refusals \/ Pg!Cancel \/ Pg!Faults \/ \E k \in Pg!Copies : Pg!Task(k)
      PROVE  done' = done
  BY <1>2 DEF Pg!Refusals, Pg!BuildFails, Pg!Cancel, Pg!Faults, Pg!ReadFails, Pg!SpoolFails,
     Pg!LoadFails, Pg!Task, Pg!Start, Pg!Loaded, Pg!server
<1>3. Pg!Exec => \/ done' = done
                 \/ /\ main.pc = "exec" /\ done' = done \cup {main.pos}
                    /\ main' = [pc |-> "read", pos |-> main.pos + 1]
  BY DEF Pg!Exec, Pg!At, Pg!Runs, Pg!NextStmt
<1>4. /\ postIndexes # <<>> => postIndexes[1] \in Elements(postIndexes)
      /\ postData # <<>> => postData[1] \in Elements(postData)
  BY ElementsOfTail DEF PgInv, PgTypeOK
<1>5. ASSUME Pg!PostIndexes, done' # done
      PROVE  /\ main.pc \in Closing /\ main' = main
             /\ postIndexes # <<>> /\ done' = done \cup {postIndexes[1]}
  BY <1>5 DEF Pg!PostIndexes, Pg!Build, Pg!At, Pg!Runs, Pg!First, Closing
<1>6. ASSUME Pg!PostData, done' # done
      PROVE  /\ main.pc \in Closing /\ main' = main
             /\ postData # <<>> /\ done' = done \cup {postData[1]}
  BY <1>6 DEF Pg!PostData, Pg!Build, Pg!At, Pg!Runs, Pg!First, Closing
<1> QED BY <1>1, <1>2, <1>3, <1>4, <1>5, <1>6 DEF Pg!Next

LEMMA PgUnwatched == PgInv /\ Pg!Next => Pg!Unwatched
<1> SUFFICES ASSUME PgInv, Pg!Next, NEW i \in Pg!Copies, row'[i].in, ~row[i].in
             PROVE  Pg!Enforced(0) = {}
  BY DEF Pg!Unwatched
<1>1. main.pc \in Reading \cup {"last wait"}
  <2>1. CASE main.pc = "copy" BY <2>1 DEF Reading
  <2>2. CASE i \in Pg!Active BY <2>2 DEF PgInv, Loading
  <2> QED BY <2>1, <2>2, RowsCome
<1>2. done \cap PostStmts = {} /\ done \subseteq DOMAIN dump
  BY <1>1 DEF PgInv, PgTypeOK, Sorted
<1> QED BY <1>2 DEF Pg!Enforced, PostStmts, PostKinds

LEMMA PgInOrder == PgInv /\ Pg!Next => Pg!InOrder
<1> SUFFICES ASSUME PgInv, Pg!Next PROVE Pg!InOrder OBVIOUS
<1>1. ASSUME NEW i \in Pg!Copies, row'[i].in, ~row[i].in
      PROVE  row'[i].under = Pg!SessionAt(i)
  <2>1. CASE main.pc = "copy" /\ main.pos = i /\ row'[i].under = session[0]
    BY <2>1 DEF PgInv, InSession, Reading
  <2>2. CASE i \in Pg!Active /\ row'[i].under = session[1]
    <3>1. 1 \in 1 .. n
      <4>1. n \in Nat \ {0} BY DumpsAreSequences DEF PgInv
      <4> QED BY <4>1
    <3> QED BY <2>2, <3>1 DEF PgInv, InSession
  <2> QED BY <1>1, <2>1, <2>2, RowsCome
<1>2. ASSUME NEW i \in done' \ done, ~Pg!Is(i, "setval"), NEW j \in Pg!Copies, j < i
      PROVE  row'[j].in
  <2>1. row[j].in
    <3>1. CASE main.pc = "exec" /\ done' = done \cup {main.pos}
      <4>1. i = main.pos BY <1>2, <3>1
      <4> QED BY <1>2, <3>1, <4>1 DEF PgInv, Loading
    <3>2. CASE main.pc \in Closing BY <3>2 DEF PgInv, Loading
    <3> QED BY <1>2, <3>1, <3>2, StatementsRun
  <2>2. row' = row
    <3>1. done' # done BY <1>2
    <3>2. Pg!Exec \/ Pg!PostIndexes \/ Pg!PostData
      BY <3>1 DEF Pg!Next, Pg!Reader, Pg!Read, Pg!Open, Pg!Spool, Pg!Go, Pg!Stream, Pg!Wait,
         Pg!LastWait, Pg!ExecAll, Pg!Resets, Pg!Refresh, Pg!Fail, Pg!server, Pg!Refusals,
         Pg!BuildFails, Pg!Cancel, Pg!Faults, Pg!ReadFails, Pg!SpoolFails, Pg!LoadFails,
         Pg!Task, Pg!Start, Pg!Loaded
    <3> QED BY <3>2 DEF Pg!Exec, Pg!PostIndexes, Pg!PostData, Pg!Build
  <2> QED BY <2>1, <2>2
<1> QED BY <1>1, <1>2 DEF Pg!InOrder

LEMMA PgSuccessIsWhole == PgInv => Pg!SuccessIsWhole
<1> SUFFICES ASSUME PgInv, result = "nil"
             PROVE  (\A i \in Pg!Copies : row[i].in) /\ done = DOMAIN dump \ Pg!Copies /\ mem = "own"
  BY DEF Pg!SuccessIsWhole
<1>1. /\ main.pos = L + 1 /\ L \in Nat /\ DOMAIN dump = 1 .. L
      /\ done \subseteq DOMAIN dump \ Pg!Copies
  BY DumpsAreSequences DEF PgInv, Placed, PgTypeOK
<1>2. \A j \in DOMAIN dump : j < main.pos BY <1>1
<1>3. /\ postIndexes = <<>> /\ postData = <<>> /\ mem = "own"
      /\ \A j \in DOMAIN dump \ Pg!Copies :
           j < main.pos => j \in done \cup Elements(postIndexes) \cup Elements(postData)
  BY DEF PgInv, Sorted
<1>4. \A i \in Pg!Copies : row[i].in BY DEF PgInv, Loading
<1> QED BY <1>1, <1>2, <1>3, <1>4, ElementsOfEmpty

-----------------------------------------------------------------------------
(* Nothing fails by itself                                                 *)

\* The reader goes ahead a statement at a time; the dump stays.
LEMMA ReaderMoves ==
  ASSUME PgInv, Pg!Next
  PROVE  /\ dump' = dump /\ main'.pos \in {main.pos, main.pos + 1}
         /\ main'.pos = main.pos + 1 => main.pos \in DOMAIN dump /\ main'.pc = "read"
<1>1. dump' = dump
  BY DEF Pg!Next, Pg!Reader, Pg!Read, Pg!Open, Pg!Spool, Pg!Go, Pg!Stream, Pg!Wait,
     Pg!LastWait, Pg!ExecAll, Pg!Exec, Pg!PostIndexes, Pg!PostData, Pg!Build, Pg!Resets,
     Pg!Refresh, Pg!Fail, Pg!Refusals, Pg!BuildFails, Pg!Cancel, Pg!Faults, Pg!ReadFails,
     Pg!SpoolFails, Pg!LoadFails, Pg!Task, Pg!Start, Pg!Loaded
<1>2. \/ main' = main \/ \E p \in Places : main' = [main EXCEPT !.pc = p]
      \/ main' = [pc |-> "read", pos |-> main.pos + 1]
  <2>1. ASSUME Pg!Read \/ Pg!Open \/ Pg!Spool \/ Pg!Go \/ Pg!Stream PROVE <1>2!:
    BY <2>1 DEF Pg!Read, Pg!Open, Pg!Spool, Pg!Go, Pg!Stream, Pg!Goto, Pg!NextStmt,
       Places, Reading
  <2>2. ASSUME Pg!Wait \/ Pg!LastWait(Pg!Whole) \/ Pg!ExecAll \/ Pg!Exec PROVE <1>2!:
    BY <2>2 DEF Pg!Wait, Pg!LastWait, Pg!ExecAll, Pg!Exec, Pg!Goto, Pg!NextStmt,
       Places, Reading, Closing
  <2>3. ASSUME Pg!PostIndexes \/ Pg!PostData \/ Pg!Resets \/ Pg!Refresh \/ Pg!Fail PROVE <1>2!:
    BY <2>3 DEF Pg!PostIndexes, Pg!PostData, Pg!Build, Pg!Resets, Pg!Refresh, Pg!Fail, Pg!Goto,
       Places, Closing
  <2>4. ASSUME Pg!Refusals \/ Pg!Faults \/ Pg!Cancel PROVE <1>2!:
    BY <2>4 DEF Pg!Refusals, Pg!BuildFails, Pg!Cancel, Pg!Faults, Pg!ReadFails, Pg!SpoolFails,
       Pg!LoadFails, Pg!Goto, Places
  <2>5. ASSUME NEW k \in Pg!Copies, Pg!Task(k) PROVE main' = main
    BY <2>5 DEF Pg!Task, Pg!Start, Pg!Loaded, Pg!LoadFails
  <2> QED BY <2>1, <2>2, <2>3, <2>4, <2>5 DEF Pg!Next, Pg!Reader
<1>3. /\ main \in [pc : Places, pos : 1 .. L + 1] /\ main.pos \in Nat
      /\ L \in Nat /\ DOMAIN dump = 1 .. L
  BY <1>1, Basics DEF PgTypeOK
<1>4. main'.pos \in {main.pos, main.pos + 1} BY <1>2, <1>3
<1>5. ASSUME main'.pos = main.pos + 1 PROVE main.pos # L + 1 /\ main'.pc = "read"
  <2>1. main' = [pc |-> "read", pos |-> main.pos + 1] BY <1>2, <1>3, <1>5
  <2>2. PgInv' BY PgNext
  <2>3. main'.pos \in 1 .. L + 1 BY <1>1, <2>2 DEF PgInv, PgTypeOK, L
  <2> QED BY <1>3, <1>5, <2>1, <2>3
<1> QED BY <1>1, <1>3, <1>4, <1>5

\* What is held back waits in the dump's order.
LEMMA QueuesMove ==
  ASSUME PgInv, Pg!Next
  PROVE  \/ postIndexes' = postIndexes /\ postData' = postData
         \/ /\ main'.pos = main.pos + 1 /\ EarlyIndex(dump, main.pos)
            /\ main.pos \in IndexStmts
            /\ postIndexes' = Append(postIndexes, main.pos) /\ postData' = postData
         \/ /\ main'.pos = main.pos + 1 /\ main.pos \in PostStmts
            /\ postIndexes' = postIndexes /\ postData' = Append(postData, main.pos)
         \/ /\ main' = main /\ postIndexes # <<>>
            /\ postIndexes' = Tail(postIndexes) /\ postData' = postData
         \/ /\ main' = main /\ postData # <<>>
            /\ postIndexes' = postIndexes /\ postData' = Tail(postData)
<1>1. ASSUME ~(postIndexes' = postIndexes /\ postData' = postData)
      PROVE  Pg!Read \/ Pg!PostIndexes \/ Pg!PostData
  BY <1>1 DEF Pg!Next, Pg!Reader, Pg!Open, Pg!Spool, Pg!Go, Pg!Stream, Pg!Wait,
     Pg!LastWait, Pg!ExecAll, Pg!Exec, Pg!Resets, Pg!Refresh, Pg!Fail, Pg!Refusals,
     Pg!BuildFails, Pg!Cancel, Pg!Faults, Pg!ReadFails, Pg!SpoolFails, Pg!LoadFails, Pg!Task,
     Pg!Start, Pg!Loaded, Pg!deferred
<1>2. CASE Pg!PostIndexes
  BY <1>2 DEF Pg!PostIndexes, Pg!Build, Pg!Rest
<1>3. CASE Pg!PostData
  BY <1>3 DEF Pg!PostData, Pg!Build, Pg!Rest
<1>4. ASSUME Pg!Read, ~(postIndexes' = postIndexes /\ postData' = postData)
      PROVE  \/ /\ main'.pos = main.pos + 1 /\ EarlyIndex(dump, main.pos)
                /\ main.pos \in IndexStmts
                /\ postIndexes' = Append(postIndexes, main.pos) /\ postData' = postData
             \/ /\ main'.pos = main.pos + 1 /\ main.pos \in PostStmts
                /\ postIndexes' = postIndexes /\ postData' = Append(postData, main.pos)
  <2>1. dump' = dump /\ main.pc = "read" BY <1>4 DEF Pg!Read, Pg!At
  <2>2. main.pos \in DOMAIN dump
    <3>1. ~(main.pos > Len(dump)) BY <1>4 DEF Pg!Read, Pg!deferred
    <3>2. main.pos \in 1 .. L + 1 /\ L \in Nat /\ DOMAIN dump = 1 .. L BY <2>1, Basics
    <3> QED BY <3>1, <3>2 DEF L
  <2>3. \/ /\ dump[main.pos].kind \in PostKinds /\ postData' = Append(postData, main.pos)
           /\ postIndexes' = postIndexes /\ main' = [pc |-> "read", pos |-> main.pos + 1]
        \/ /\ dump[main.pos].kind = "index" /\ ~copied /\ postData' = postData
           /\ postIndexes' = Append(postIndexes, main.pos)
           /\ main' = [pc |-> "read", pos |-> main.pos + 1]
    BY <1>4 DEF Pg!Read, Pg!pgIsPostDataStmt, Pg!HeldBack, Pg!pgIsCreateIndexStmt, Pg!Stmt,
       Pg!NextStmt, Pg!deferred, PostKinds
  <2>4. ASSUME dump[main.pos].kind = "index", ~copied PROVE EarlyIndex(dump, main.pos)
    <3>1. \A k \in Pg!Copies : main.pos <= k /\ k # main.pos
      BY <2>1, <2>4, Basics DEF Placed, Reading, Pg!Copies, Pg!Is
    <3>2. /\ Pg!Copies \subseteq 1 .. L /\ L \in Nat /\ main.pos \in Nat BY <2>1, Basics
    <3>3. \A k \in Pg!Copies : main.pos < k BY <3>1, <3>2
    <3> QED BY <2>4, <3>3 DEF EarlyIndex, Pg!Copies, Pg!Is
  <2> QED BY <2>2, <2>3, <2>4 DEF IndexStmts, PostStmts
<1> QED BY <1>1, <1>2, <1>3, <1>4

LEMMA AscendingAppend ==
  ASSUME NEW S \in SUBSET Nat, NEW s \in Seq(S), Ascending(s), NEW x \in Nat,
         \A y \in Elements(s) : y < x
  PROVE  Ascending(Append(s, x))
<1>1. /\ Len(s) \in Nat /\ DOMAIN s = 1 .. Len(s)
      /\ DOMAIN Append(s, x) = 1 .. Len(s) + 1
      /\ \A k \in 1 .. Len(s) : Append(s, x)[k] = s[k]
      /\ Append(s, x)[Len(s) + 1] = x
  OBVIOUS
<1>2. \A k \in 1 .. Len(s) : s[k] < x BY <1>1 DEF Elements
<1>3. ASSUME NEW j \in 1 .. Len(s) + 1, NEW k \in 1 .. Len(s) + 1, j < k
      PROVE  Append(s, x)[j] < Append(s, x)[k]
  <2>1. j \in 1 .. Len(s) /\ (k \in 1 .. Len(s) \/ k = Len(s) + 1) BY <1>1, <1>3
  <2>2. k \in 1 .. Len(s) => s[j] < s[k] BY <1>1, <1>3, <2>1 DEF Ascending
  <2> QED BY <1>1, <1>2, <2>1, <2>2
<1> QED BY <1>1, <1>3 DEF Ascending

LEMMA AscendingTail ==
  ASSUME NEW S \in SUBSET Nat, NEW s \in Seq(S), Ascending(s), s # <<>>
  PROVE  Ascending(Tail(s)) /\ \A y \in Elements(s) : s[1] <= y
<1>1. /\ Len(s) \in Nat /\ DOMAIN s = 1 .. Len(s) /\ 1 \in 1 .. Len(s)
      /\ DOMAIN Tail(s) = 1 .. Len(s) - 1
      /\ \A k \in 1 .. Len(s) - 1 : Tail(s)[k] = s[k + 1]
      /\ \A k \in 1 .. Len(s) : s[k] \in Nat
  <2>1. Len(s) \in Nat /\ Len(s) # 0 /\ DOMAIN s = 1 .. Len(s) OBVIOUS
  <2>2. \A k \in 1 .. Len(s) : s[k] \in S BY <2>1
  <2>3. Len(Tail(s)) = Len(s) - 1 /\ DOMAIN Tail(s) = 1 .. Len(s) - 1 BY <2>1
  <2>4. \A k \in 1 .. Len(s) - 1 : Tail(s)[k] = s[k + 1] BY <2>1, <2>3
  <2>5. \A k \in 1 .. Len(s) : s[k] \in Nat BY <2>2
  <2>6. 1 \in 1 .. Len(s) BY <2>1
  <2> QED BY <2>1, <2>3, <2>4, <2>5, <2>6
<1>2. \A k \in 1 .. Len(s) : s[1] <= s[k]
  <2> SUFFICES ASSUME NEW k \in 1 .. Len(s) PROVE s[1] <= s[k] OBVIOUS
  <2>1. k = 1 \/ 1 < k BY <1>1
  <2>2. 1 < k => s[1] < s[k] BY <1>1 DEF Ascending
  <2> QED BY <1>1, <2>1, <2>2
<1>3. ASSUME NEW j \in 1 .. Len(s) - 1, NEW k \in 1 .. Len(s) - 1, j < k
      PROVE  Tail(s)[j] < Tail(s)[k]
  <2>1. j + 1 \in 1 .. Len(s) /\ k + 1 \in 1 .. Len(s) /\ j + 1 < k + 1 BY <1>1, <1>3
  <2>2. s[j + 1] < s[k + 1] BY <1>1, <2>1 DEF Ascending
  <2> QED BY <1>1, <2>2
<1> QED BY <1>1, <1>2, <1>3 DEF Ascending, Elements

LEMMA QueuedKept == PgInv /\ Queued /\ Pg!Next => Queued'
<1> SUFFICES ASSUME PgInv, Queued, Pg!Next PROVE Queued' OBVIOUS
<1> HIDE DEF Pg!Next
<1>1. dump' = dump /\ main'.pos \in {main.pos, main.pos + 1} BY ReaderMoves
<1>2. /\ postIndexes \in Seq(IndexStmts) /\ postData \in Seq(PostStmts)
      /\ main.pos \in Nat /\ L \in Nat
      /\ IndexStmts \in SUBSET Nat /\ PostStmts \in SUBSET Nat
  <2>1. DOMAIN dump = 1 .. L /\ L \in Nat /\ main.pos \in Nat BY <1>1, Basics
  <2>2. DOMAIN dump \subseteq Nat BY <2>1
  <2> QED BY <1>1, <2>1, <2>2, Basics DEF PgTypeOK, IndexStmts, PostStmts
<1>3. /\ Elements(postIndexes) \subseteq Nat /\ Elements(postData) \subseteq Nat
  BY <1>2, ElementsIn
<1>4. /\ \A i \in Elements(postIndexes) : EarlyIndex(dump, i) /\ i < main'.pos
      /\ \A i \in Elements(postData) : i < main'.pos
      /\ \A i \in Elements(postIndexes) : i < main.pos
      /\ \A i \in Elements(postData) : i < main.pos
      /\ Ascending(postIndexes) /\ Ascending(postData)
  BY <1>1, <1>2, <1>3 DEF Queued
<1>5. \/ postIndexes' = postIndexes
      \/ EarlyIndex(dump, main.pos) /\ main'.pos = main.pos + 1 /\ main.pos \in IndexStmts
         /\ postIndexes' = Append(postIndexes, main.pos)
      \/ postIndexes # <<>> /\ postIndexes' = Tail(postIndexes)
  BY QueuesMove
<1>8. \/ postData' = postData
      \/ main'.pos = main.pos + 1 /\ main.pos \in PostStmts
         /\ postData' = Append(postData, main.pos)
      \/ postData # <<>> /\ postData' = Tail(postData)
  BY QueuesMove
<1>6. /\ Ascending(postIndexes')
      /\ \A i \in Elements(postIndexes') : EarlyIndex(dump, i) /\ i < main'.pos
  <2>1. CASE postIndexes' = postIndexes BY <1>4, <2>1
  <2>2. CASE EarlyIndex(dump, main.pos) /\ main'.pos = main.pos + 1 /\ main.pos \in IndexStmts
             /\ postIndexes' = Append(postIndexes, main.pos)
    <3>1. Elements(postIndexes') = Elements(postIndexes) \cup {main.pos}
      BY <1>2, <2>2, ElementsOfAppend
    <3>2. Ascending(postIndexes') BY <1>2, <1>4, <2>2, AscendingAppend
    <3>3. main.pos < main'.pos BY <1>2, <2>2
    <3> QED BY <1>4, <2>2, <3>1, <3>2, <3>3
  <2>3. CASE postIndexes # <<>> /\ postIndexes' = Tail(postIndexes)
    <3>1. Elements(postIndexes') \subseteq Elements(postIndexes)
      BY <1>2, <2>3, ElementsOfTail
    <3>2. Ascending(postIndexes') BY <1>2, <1>4, <2>3, AscendingTail
    <3> QED BY <1>4, <3>1, <3>2
  <2> QED BY <1>5, <2>1, <2>2, <2>3
<1>7. Ascending(postData') /\ \A i \in Elements(postData') : i < main'.pos
  <2>1. CASE postData' = postData BY <1>4, <2>1
  <2>2. CASE main'.pos = main.pos + 1 /\ main.pos \in PostStmts
             /\ postData' = Append(postData, main.pos)
    <3>1. Elements(postData') = Elements(postData) \cup {main.pos}
      BY <1>2, <2>2, ElementsOfAppend
    <3>2. Ascending(postData') BY <1>2, <1>4, <2>2, AscendingAppend
    <3>3. main.pos < main'.pos BY <1>2, <2>2
    <3> QED BY <1>4, <2>2, <3>1, <3>2, <3>3
  <2>3. CASE postData # <<>> /\ postData' = Tail(postData)
    <3>1. Elements(postData') \subseteq Elements(postData)
      BY <1>2, <2>3, ElementsOfTail
    <3>2. Ascending(postData') BY <1>2, <1>4, <2>3, AscendingTail
    <3> QED BY <1>4, <3>1, <3>2
  <2> QED BY <1>8, <2>1, <2>2, <2>3
<1> QED BY <1>1, <1>6, <1>7 DEF Queued, Ascending, Elements, EarlyIndex

\* A load begins only where its block has been spooled.
LEMMA LoadsBegin ==
  ASSUME PgInv, Pg!Next
  PROVE  Pg!Active' \subseteq Pg!Active \/ (main.pc = "go" /\ Pg!Active' \subseteq Pg!Active \cup {main.pos}
                                           /\ done' = done /\ main'.pos = main.pos + 1)
<1> DEFINE Kinds == {"none", "spooled", "started", "loading"}
<1>1. Pg!Copies' = Pg!Copies /\ task \in [Pg!Copies -> Kinds]
  BY ReaderMoves, Basics DEF PgTypeOK
<1>2. \/ task' = task
      \/ main.pc = "copy" /\ task' = [task EXCEPT ![main.pos] = "spooled"]
      \/ /\ main.pc = "go" /\ task' = [task EXCEPT ![main.pos] = "started"] /\ done' = done
         /\ main'.pos = main.pos + 1
      \/ task' = [i \in Pg!Copies |-> "none"]
      \/ \E i \in Pg!Copies : i \in Pg!Active /\ task' = [task EXCEPT ![i] = "none"]
      \/ \E i \in Pg!Copies : i \in Pg!Active /\ task' = [task EXCEPT ![i] = "loading"]
  <2>1. ASSUME Pg!Reader, ~Pg!Spool, ~Pg!Go, ~Pg!LastWait(Pg!Whole) PROVE task' = task
    BY <2>1 DEF Pg!Reader, Pg!Read, Pg!Open, Pg!Stream, Pg!Wait, Pg!ExecAll, Pg!Exec,
       Pg!PostIndexes, Pg!PostData, Pg!Build, Pg!Resets, Pg!Refresh, Pg!Fail, Pg!copying
  <2>4. Pg!Spool => task' = task \/ (main.pc = "copy" /\ task' = [task EXCEPT ![main.pos] = "spooled"])
    BY DEF Pg!Spool, Pg!At
  <2>5. Pg!Go => /\ main.pc = "go" /\ task' = [task EXCEPT ![main.pos] = "started"]
                 /\ done' = done /\ main'.pos = main.pos + 1
    BY DEF Pg!Go, Pg!At, Pg!NextStmt, Pg!server
  <2>6. Pg!LastWait(Pg!Whole) => task' = [i \in Pg!Copies |-> "none"]
    BY DEF Pg!LastWait
  <2>2. ASSUME Pg!Refusals \/ Pg!Cancel \/ Pg!ReadFails \/ Pg!SpoolFails
               \/ Pg!BuildFails("indexes", postIndexes) \/ Pg!BuildFails("constraints", postData)
               \/ Pg!BuildFails("refresh", matViews)
        PROVE  task' = task
    BY <2>2 DEF Pg!Refusals, Pg!BuildFails, Pg!Cancel, Pg!ReadFails, Pg!SpoolFails, Pg!copying
  <2>3. ASSUME NEW i \in Pg!Copies, Pg!Task(i) \/ Pg!LoadFails(i)
        PROVE  \/ i \in Pg!Active /\ task' = [task EXCEPT ![i] = "none"]
               \/ i \in Pg!Active /\ task' = [task EXCEPT ![i] = "loading"]
    BY <2>3 DEF Pg!Task, Pg!Start, Pg!Loaded, Pg!LoadFails, Pg!Ended, Pg!Active
  <2> QED BY <2>1, <2>2, <2>3, <2>4, <2>5, <2>6 DEF Pg!Next, Pg!Faults
<1>3. \A i \in Pg!Copies : i \in Pg!Active' <=> task'[i] \in {"started", "loading"}
  BY <1>1 DEF Pg!Active
<1>4. Pg!Active' \subseteq Pg!Copies BY <1>1 DEF Pg!Active
<1>5. ASSUME NEW k \in Pg!Copies, k \notin Pg!Active, task'[k] \in {"started", "loading"}
      PROVE  main.pc = "go" /\ k = main.pos /\ done' = done /\ main'.pos = main.pos + 1
  <2>1. task[k] \notin {"started", "loading"} BY <1>5 DEF Pg!Active
  <2> QED BY <1>1, <1>2, <1>5, <2>1
<1> QED BY <1>3, <1>4, <1>5

LEMMA FollowedKept == PgInv /\ Queued /\ Followed /\ Pg!Next => Followed'
<1> SUFFICES ASSUME PgInv, Queued, Followed, Pg!Next PROVE Followed' OBVIOUS
<1> HIDE DEF Pg!Next
<1>1. dump' = dump /\ main'.pos \in {main.pos, main.pos + 1} BY ReaderMoves
<1>2. /\ Pg!Copies \subseteq Nat /\ done \subseteq Nat /\ main.pos \in Nat
      /\ Pg!Active \subseteq Nat /\ DOMAIN dump \subseteq Nat
  <2>1. DOMAIN dump = 1 .. L /\ L \in Nat /\ main.pos \in Nat BY <1>1, Basics
  <2>2. DOMAIN dump \subseteq Nat BY <2>1
  <2> QED BY <1>1, <2>1, <2>2, Basics DEF PgTypeOK, Pg!Copies, Pg!Active
<1>3. /\ \A i \in done : i < main.pos
      /\ \A i \in Pg!Active, j \in done : j < i \/ Pg!Is(j, "setval")
      /\ \A i \in Pg!Active : i <= main.pos
      /\ \A i \in Elements(postIndexes) \cup Elements(postData) : i < main.pos
  BY DEF Followed, Queued
<1>4. \A j, kind : Pg!Is(j, kind)' = Pg!Is(j, kind) BY <1>1, TheDumpStays
<1>5. /\ main.pc \in Closing => Pg!Active = {}
      /\ main.pc = "exec" /\ ~Pg!Is(main.pos, "setval") => Pg!Active = {}
  BY DEF PgInv, Loading, Reading, Closing
<1>6. ASSUME NEW i \in done' PROVE i < main'.pos /\ i \in Nat
  <2>1. CASE i \in done BY <1>1, <1>2, <1>3, <2>1
  <2>2. CASE main'.pos = main.pos + 1 /\ i = main.pos BY <1>2, <2>2
  <2>3. CASE i \in Elements(postIndexes) \cup Elements(postData)
    <3>1. i \in Nat
      <4>1. /\ Elements(postIndexes) \subseteq IndexStmts /\ Elements(postData) \subseteq PostStmts
        BY ElementsIn DEF PgInv, PgTypeOK
      <4> QED BY <1>2, <2>3, <4>1 DEF IndexStmts, PostStmts
    <3> QED BY <1>1, <1>2, <1>3, <2>3, <3>1
  <2> QED BY <1>6, <2>1, <2>2, <2>3, StatementsRun
<1>7. \A i \in Pg!Active' : i <= main'.pos
  <2> SUFFICES ASSUME NEW i \in Pg!Active' PROVE i <= main'.pos OBVIOUS
  <2>1. i \in Pg!Active \/ (i = main.pos /\ main'.pos = main.pos + 1) BY LoadsBegin
  <2>2. i \in Nat BY <1>2, <2>1
  <2> QED BY <1>1, <1>2, <1>3, <2>1, <2>2
<1>8. ASSUME NEW i \in Pg!Active', NEW j \in done' PROVE j < i \/ Pg!Is(j, "setval")
  <2>1. CASE i \notin Pg!Active
    <3>1. i = main.pos /\ done' = done BY <2>1, <1>8, LoadsBegin
    <3> QED BY <1>3, <3>1
  <2>2. CASE i \in Pg!Active /\ j \in done BY <1>3, <2>2
  <2>3. CASE i \in Pg!Active /\ j \notin done
    <3>1. main.pc \notin Closing BY <1>5, <2>3
    <3>2. main.pc = "exec" /\ j = main.pos BY <2>3, <3>1, StatementsRun
    <3> QED BY <1>5, <2>3, <3>2
  <2> QED BY <2>1, <2>2, <2>3
<1> QED BY <1>4, <1>6, <1>7, <1>8 DEF Followed

LEMMA Below ==
  ASSUME NEW l \in Nat, NEW p \in Nat, NEW i \in 1 .. l, i <= p, NEW j \in 1 .. i - 1
  PROVE  j \in 1 .. l /\ j < p
OBVIOUS

\* A dump in working order has what a statement needs above it.
LEMMA NeedsAbove ==
  ASSUME PgInv, Blameless, InWorkingOrder(dump), NEW i \in DOMAIN dump, i <= main.pos,
         main.pc \in Reading \cup {"last wait"} \cup Closing,
         ~Pg!Renamed(i),
         \A j \in Pg!Copies \cap dump[i].needs : row[j].in,
         \A j \in dump[i].needs : j \notin Elements(postIndexes) \cup Elements(postData)
  PROVE  Pg!Met(i)
<1>1. DOMAIN dump = 1 .. L /\ L \in Nat /\ main.pos \in Nat BY DumpsAreSequences DEF PgInv
<1>2. ASSUME NEW j \in dump[i].needs, ~Pg!Is(j, "copy") PROVE j \in done
  <2>1. j \in 1 .. i - 1 BY DEF InWorkingOrder
  <2>2. j \in DOMAIN dump /\ j < main.pos
    <3>1. i \in 1 .. L BY <1>1
    <3>2. j \in 1 .. L /\ j < main.pos BY <1>1, <2>1, <3>1, Below
    <3> QED BY <1>1, <3>2
  <2>3. j \in DOMAIN dump \ Pg!Copies BY <1>2, <2>2 DEF Pg!Copies
  <2>4. j \in done \cup Elements(postIndexes) \cup Elements(postData)
    BY <2>2, <2>3 DEF PgInv, Sorted
  <2> QED BY <2>4
<1>3. ASSUME NEW j \in dump[i].needs, Pg!Is(j, "copy") PROVE row[j].in
  <2>1. j \in 1 .. i - 1 BY DEF InWorkingOrder
  <2>2. j \in DOMAIN dump
    <3>1. i \in 1 .. L BY <1>1
    <3>2. j \in 1 .. L BY <1>1, <2>1, <3>1, Below
    <3> QED BY <1>1, <3>2
  <2> QED BY <1>3, <2>2 DEF Pg!Copies
<1> QED BY <1>2, <1>3 DEF Pg!Met

\* Nothing of what is not held back needs what is.
LEMMA HeldBackUnmissed ==
  ASSUME PgInv, Blameless, InWorkingOrder(dump), NEW i \in DOMAIN dump, ~Held(dump, i)
  PROVE  \A j \in dump[i].needs : j \notin Elements(postIndexes) \cup Elements(postData)
<1> SUFFICES ASSUME NEW j \in dump[i].needs, j \in Elements(postIndexes) \cup Elements(postData)
             PROVE  FALSE
  OBVIOUS
<1>1. j \in Elements(postData) => dump[j].kind \in PostKinds
  BY ElementsIn DEF PgInv, PgTypeOK, PostStmts
<1>2. j \in Elements(postIndexes) => EarlyIndex(dump, j) BY DEF Blameless, Queued
<1> QED BY <1>1, <1>2 DEF InWorkingOrder, Held

LEMMA ReaderMet ==
  ASSUME PgInv, Blameless, InWorkingOrder(dump), main.pc \in {"copy", "exec"},
         main.pc = "copy" => copier # "open"
  PROVE  Pg!Met(main.pos)
<1>1. /\ main.pos \in DOMAIN dump /\ main.pc \in Reading
      /\ main.pc = "copy" => Pg!Is(main.pos, "copy")
      /\ main.pc = "exec" => ~Held(dump, main.pos)
  BY DEF PgInv, Placed, Reading
<1>2. DOMAIN dump = 1 .. L /\ L \in Nat /\ main.pos \in Nat BY DumpsAreSequences DEF PgInv
<1>3. ~Held(dump, main.pos) BY <1>1 DEF Held, EarlyIndex, PostKinds, Pg!Is
<1>4. ~Pg!Renamed(main.pos)
  <2> SUFFICES ASSUME NEW r \in done, Pg!Is(r, "rename"), dump[r].schema = dump[main.pos].schema
               PROVE  FALSE
    BY DEF Pg!Renamed
  <2>1. r \in DOMAIN dump /\ r < main.pos BY DEF PgInv, PgTypeOK, Blameless, Followed
  <2>2. main.pos <= r BY <1>1, <2>1 DEF InWorkingOrder, Pg!Is
  <2> QED BY <1>2, <2>1, <2>2
<1>5. ASSUME NEW j \in Pg!Copies \cap dump[main.pos].needs PROVE row[j].in
  <2>1. /\ j \in 1 .. main.pos - 1 /\ dump[main.pos].kind \notin {"copy", "setval"}
    BY <1>1 DEF InWorkingOrder, Pg!Copies, Pg!Is
  <2>2. j < main.pos BY <1>2, <2>1
  <2>3. main.pc = "exec" /\ ~Pg!Is(main.pos, "setval") BY <1>1, <2>1 DEF Pg!Is
  <2> QED BY <2>2, <2>3 DEF PgInv, Loading
<1>6. main.pos <= main.pos BY <1>2
<1> QED BY <1>1, <1>3, <1>4, <1>5, <1>6, HeldBackUnmissed, NeedsAbove

LEMMA LoadMet ==
  ASSUME PgInv, Blameless, InWorkingOrder(dump), NEW i \in Pg!Active
  PROVE  Pg!Met(i)
<1>1. i \in DOMAIN dump /\ Pg!Is(i, "copy") BY DEF Pg!Active, Pg!Copies
<1>2. DOMAIN dump = 1 .. L /\ L \in Nat /\ main.pos \in Nat BY DumpsAreSequences DEF PgInv
<1>3. ~Held(dump, i) BY <1>1 DEF Held, EarlyIndex, PostKinds, Pg!Is
<1>4. main.pc \in Reading \cup {"last wait"} BY DEF PgInv, Loading
<1>5. ~Pg!Renamed(i)
  <2> SUFFICES ASSUME NEW r \in done, Pg!Is(r, "rename"), dump[r].schema = dump[i].schema
               PROVE  FALSE
    BY DEF Pg!Renamed
  <2>1. r \in DOMAIN dump /\ r < i BY DEF PgInv, PgTypeOK, Blameless, Followed, Pg!Is
  <2>2. i <= r BY <1>1, <2>1 DEF InWorkingOrder, Pg!Is
  <2> QED BY <1>1, <1>2, <2>1, <2>2
<1>6. Pg!Copies \cap dump[i].needs = {} BY <1>1 DEF InWorkingOrder, Pg!Copies, Pg!Is
<1>7. i <= main.pos BY DEF Blameless, Followed
<1> QED BY <1>1, <1>3, <1>4, <1>5, <1>6, <1>7, HeldBackUnmissed, NeedsAbove

\* What was held back finds what it needs when its turn comes.
LEMMA TurnMet ==
  ASSUME PgInv, Blameless, InWorkingOrder(dump),
         NEW i \in DOMAIN dump,
         \/ main.pc = "indexes" /\ postIndexes # <<>> /\ i = postIndexes[1]
         \/ main.pc = "constraints" /\ postData # <<>> /\ i = postData[1]
  PROVE  Pg!Met(i)
<1>1. /\ DOMAIN dump = 1 .. L /\ L \in Nat /\ main.pos \in Nat
      /\ postIndexes \in Seq(IndexStmts) /\ postData \in Seq(PostStmts)
  BY DumpsAreSequences DEF PgInv, PgTypeOK
<1>2. IndexStmts \in SUBSET Nat /\ PostStmts \in SUBSET Nat
  <2>1. DOMAIN dump \subseteq Nat BY <1>1
  <2> QED BY <2>1 DEF IndexStmts, PostStmts
<1>3. /\ main.pc = "indexes" => i \in Elements(postIndexes) /\ \A y \in Elements(postIndexes) : i <= y
      /\ main.pc = "constraints" => i \in Elements(postData) /\ \A y \in Elements(postData) : i <= y
  BY <1>1, <1>2, ElementsOfTail, AscendingTail DEF Blameless, Queued
<1>4. main.pc = "indexes" => EarlyIndex(dump, i) /\ dump[i].kind \notin PostKinds
  BY <1>3 DEF Blameless, Queued, EarlyIndex, PostKinds
<1>5. main.pc = "constraints" => dump[i].kind \in PostKinds
  BY <1>1, <1>3, ElementsIn DEF PostStmts
<1>6. Held(dump, i) /\ i <= main.pos
  <2>1. i < main.pos BY <1>3 DEF Blameless, Queued
  <2> QED BY <1>1, <1>4, <1>5, <2>1 DEF Held
<1>7. ~Pg!Renamed(i)
  BY <1>6 DEF Pg!Renamed, InWorkingOrder, Pg!Is, PgInv, PgTypeOK
<1>8. \A j \in Pg!Copies : row[j].in BY DEF PgInv, Loading, Closing
<1>9. ASSUME NEW j \in dump[i].needs, j \in Elements(postIndexes) \cup Elements(postData)
      PROVE  FALSE
  <2>1. j \in 1 .. i - 1 /\ (dump[j].kind \in PostKinds => dump[i].kind \in PostKinds)
    BY DEF InWorkingOrder
  <2>2. ~(i <= j) BY <1>1, <2>1
  <2>3. CASE main.pc = "indexes"
    <3>1. j \in Elements(postData) BY <1>3, <1>9, <2>2, <2>3
    <3>2. dump[j].kind \in PostKinds BY <1>1, <3>1, ElementsIn DEF PostStmts
    <3> QED BY <1>4, <2>1, <2>3, <3>2
  <2>4. CASE main.pc = "constraints"
    <3>1. postIndexes = <<>> BY <2>4 DEF PgInv, Sorted
    <3> QED BY <1>3, <1>9, <2>2, <2>4, <3>1, ElementsOfEmpty
  <2> QED BY <2>3, <2>4
<1>10. main.pc \in Closing BY DEF Closing
<1> QED BY <1>6, <1>7, <1>8, <1>9, <1>10, NeedsAbove

LEMMA FaultlessKept ==
  ASSUME PgInv, Blameless, InWorkingOrder(dump), Pg!Next
  PROVE  Faultless'
<1>1. dump' = dump /\ main'.pos \in {main.pos, main.pos + 1} BY ReaderMoves
<1>2. /\ main \in [pc : Places, pos : 1 .. L + 1] /\ L \in Nat /\ main.pos \in 1 .. L + 1 /\ L' = L
  BY <1>1, Basics DEF PgTypeOK
<1>3. faulted \in BOOLEAN BY DEF PgInv, PgTypeOK
<1>4. /\ ctx \/ broken => faulted
      /\ main.pc = "fail" \/ (main.pc = "last wait" /\ main.pos # L + 1) \/ result = "error"
           => faulted
  BY DEF Blameless, Faultless
<1>5. CASE faulted' = TRUE BY <1>5 DEF Faultless
<1>6. ASSUME ~faulted' PROVE /\ ~ctx' /\ ~broken' /\ main'.pc # "fail" /\ result' # "error"
                             /\ main'.pc = "last wait" => main'.pos = L + 1
  <2>1. ~faulted
    BY <1>6 DEF Pg!Next, Pg!Reader, Pg!Read, Pg!Open, Pg!Spool, Pg!Go, Pg!Stream, Pg!Wait,
     Pg!LastWait, Pg!ExecAll, Pg!Exec, Pg!PostIndexes, Pg!PostData, Pg!Build, Pg!Resets,
     Pg!Refresh, Pg!Fail, Pg!Refusals, Pg!Cancel, Pg!Faults, Pg!Task, Pg!Start, Pg!Loaded
  <2>2. ~ctx /\ ~broken /\ main.pc # "fail" /\ result # "error"
        /\ (main.pc = "last wait" => main.pos = L + 1)
    BY <1>4, <2>1
  <2>3. ~Pg!gctx BY <2>2 DEF Pg!gctx
  <2> DEFINE Fine == /\ ~ctx' /\ ~broken' /\ main'.pc # "fail" /\ result' # "error"
                     /\ main'.pc = "last wait" => main'.pos = L + 1
  <2>4. ASSUME Pg!Read PROVE Fine
    <3>1. main.pos > L => main.pos = L + 1 BY <1>2
    <3>2. main.pc = "read" /\ ctx' = ctx /\ broken' = broken /\ result' = result
      BY <2>4 DEF Pg!Read, Pg!At, Pg!copying
    <3>3. main.pos > L => main'.pc = "last wait" /\ main'.pos = main.pos
      BY <1>2, <2>4 DEF Pg!Read, Pg!Goto, L
    <3>4. ~(main.pos > L) => main'.pc \in {"copy", "read", "wait", "exec"}
      BY <1>2, <2>4 DEF Pg!Read, Pg!Goto, Pg!NextStmt, L
    <3> QED BY <2>2, <3>1, <3>2, <3>3, <3>4
  <2>5. ASSUME Pg!Open \/ Pg!Spool \/ Pg!Go PROVE Fine
    <3>1. ctx' = ctx /\ broken' = broken /\ result' = result
      BY <2>5 DEF Pg!Open, Pg!Spool, Pg!Go, Pg!copying
    <3>2. main'.pc \in {"copy", "go", "read"}
      <4>1. Pg!Open => main'.pc = "copy" BY DEF Pg!Open, Pg!At
      <4>2. Pg!Spool => main'.pc = "go" BY <1>2, <2>3 DEF Pg!Spool, Pg!Goto
      <4>3. Pg!Go => main'.pc = "read" BY DEF Pg!Go, Pg!NextStmt
      <4> QED BY <2>5, <4>1, <4>2, <4>3
    <3> QED BY <2>2, <3>1, <3>2
  <2>6. ASSUME Pg!Stream PROVE Fine
    <3>1. main.pc = "copy" /\ copier # "open"
      BY <2>6 DEF Pg!Stream, Pg!At, PgInv, Placed
    <3>2. ~Pg!Refused(main.pos) BY <2>2, <3>1, ReaderMet DEF Pg!Refused
    <3>3. ctx' = ctx /\ broken' = broken /\ result' = result
      BY <2>6 DEF Pg!Stream, Pg!copying
    <3>4. main'.pc = "read" BY <2>6, <3>2 DEF Pg!Stream, Pg!NextStmt
    <3> QED BY <2>2, <3>3, <3>4
  <2>7. ASSUME Pg!Wait \/ Pg!LastWait(Pg!Whole) \/ Pg!ExecAll PROVE Fine
    <3>1. ctx' = ctx /\ ~broken' /\ result' = result
      <4>1. broken' = FALSE \/ broken' = broken
        BY <2>7 DEF Pg!Wait, Pg!LastWait, Pg!ExecAll, Pg!copying
      <4>2. ctx' = ctx /\ result' = result
        BY <2>7 DEF Pg!Wait, Pg!LastWait, Pg!ExecAll
      <4>3. broken = FALSE BY <2>2 DEF PgInv, PgTypeOK
      <4>4. broken' = FALSE BY <4>1, <4>3
      <4> QED BY <4>2, <4>4
    <3>2. ASSUME Pg!LastWait(Pg!Whole) PROVE main'.pc = "indexes"
      <4>1. main.pos = L + 1 BY <2>2, <3>2 DEF Pg!LastWait, Pg!At
      <4>2. Pg!Whole BY <1>2, <4>1 DEF Pg!Whole, L
      <4> QED BY <1>2, <2>2, <3>2, <4>2 DEF Pg!LastWait, Pg!Goto, Pg!Failed
    <3>3. ASSUME Pg!Wait \/ Pg!ExecAll PROVE main'.pc \in {"exec all", "exec"}
      BY <1>2, <2>2, <3>3 DEF Pg!Wait, Pg!ExecAll, Pg!Goto, Pg!Failed
    <3> QED BY <2>2, <2>7, <3>1, <3>2, <3>3
  <2>8. ASSUME Pg!Exec PROVE Fine
    <3>1. main.pc = "exec" BY <2>8 DEF Pg!Exec, Pg!At
    <3>2. ~Pg!Refused(main.pos) BY <2>2, <3>1, ReaderMet DEF Pg!Refused
    <3>3. ctx' = ctx /\ broken' = broken /\ result' = result
      BY <2>8 DEF Pg!Exec, Pg!copying
    <3>4. Pg!NextStmt \/ Pg!Refused(main.pos) BY <2>8 DEF Pg!Exec
    <3>5. main'.pc = "read" BY <3>2, <3>4 DEF Pg!NextStmt
    <3> QED BY <2>2, <3>3, <3>5
  <2>9. ASSUME Pg!PostIndexes \/ Pg!PostData \/ Pg!Resets \/ Pg!Refresh \/ Pg!Fail PROVE Fine
    <3>1. ~Pg!Fail BY <2>2 DEF Pg!Fail, Pg!At
    <3>2. main.pc \in Closing
      BY <2>9, <3>1 DEF Pg!PostIndexes, Pg!PostData, Pg!Build, Pg!Resets, Pg!Refresh, Pg!At, Closing
    <3>3. ctx' = ctx /\ broken' = broken /\ (result' = result \/ result' = "nil")
      BY <2>9, <3>1 DEF Pg!PostIndexes, Pg!PostData, Pg!Build, Pg!Resets, Pg!Refresh, Pg!copying
    <3>4. main'.pc \in Closing \cup {"returned"}
      BY <1>2, <2>2, <2>9, <3>1, <3>2
         DEF Pg!PostIndexes, Pg!PostData, Pg!Build, Pg!Resets, Pg!Refresh, Pg!Goto, Closing
    <3> QED BY <2>2, <3>3, <3>4 DEF Closing
  <2>10. ~Pg!Refusals
    <3>1. ASSUME postIndexes # <<>>, main.pc = "indexes" PROVE Pg!Met(postIndexes[1])
      <4>1. postIndexes[1] \in DOMAIN dump
        BY <3>1, ElementsOfTail DEF PgInv, PgTypeOK, IndexStmts
      <4> QED BY <3>1, <4>1, TurnMet
    <3>2. ASSUME postData # <<>>, main.pc = "constraints" PROVE Pg!Met(postData[1])
      <4>1. postData[1] \in DOMAIN dump
        BY <3>2, ElementsOfTail DEF PgInv, PgTypeOK, PostStmts
      <4> QED BY <3>2, <4>1, TurnMet
    <3>3. ASSUME matViews # <<>> PROVE ~Pg!Renamed(matViews[1])
      <4>1. matViews[1] \in DOMAIN dump /\ dump[matViews[1]].kind = "matview"
        BY <3>3, ElementsOfTail DEF PgInv, PgTypeOK, MatViewStmts
      <4> QED BY <4>1 DEF Pg!Renamed, InWorkingOrder, Pg!Is, PgInv, PgTypeOK
    <3> QED BY <2>2, <3>1, <3>2, <3>3 DEF Pg!Refusals, Pg!BuildFails, Pg!Refused, Pg!First, Pg!At
  <2>11. ~Pg!Faults /\ ~Pg!Cancel BY <1>6 DEF Pg!Faults, Pg!Cancel
  <2>12. ASSUME NEW i \in Pg!Copies, Pg!Task(i) PROVE Fine
    <3>1. task[i] = "loading" => Pg!Met(i)
      <4>1. task[i] = "loading" => i \in Pg!Active BY DEF Pg!Active
      <4> QED BY <4>1, LoadMet
    <3>2. Pg!Start(i) \/ Pg!Loaded(i) BY <2>3, <2>12, <3>1 DEF Pg!Task, Pg!LoadFails
    <3>3. ctx' = ctx /\ broken' = broken /\ result' = result /\ main' = main
      BY <2>3, <3>2 DEF Pg!Start, Pg!Loaded
    <3> QED BY <2>2, <3>3
  <2> QED BY <2>4, <2>5, <2>6, <2>7, <2>8, <2>9, <2>10, <2>11, <2>12 DEF Pg!Next, Pg!Reader
<1>7. faulted' \in BOOLEAN BY PgNext DEF PgInv, PgTypeOK
<1> QED BY <1>2, <1>5, <1>6, <1>7 DEF Faultless

LEMMA BlamelessStarts == Pg!Init => Blameless
<1> SUFFICES ASSUME Pg!Init PROVE Blameless OBVIOUS
<1>1. /\ ctx = FALSE /\ main.pc = "read" /\ result = "none" /\ broken = FALSE
      /\ postIndexes = <<>> /\ postData = <<>> /\ done = {}
      /\ task = [i \in Pg!Copies |-> "none"]
  BY DEF Pg!Init
<1>2. Pg!Active = {} BY <1>1 DEF Pg!Active
<1>3. Queued BY <1>1, ElementsOfEmpty DEF Queued, Ascending
<1>4. Followed BY <1>1, <1>2 DEF Followed
<1>5. Faultless BY <1>1 DEF Faultless
<1> QED BY <1>3, <1>4, <1>5 DEF Blameless

-----------------------------------------------------------------------------
(* The theorems                                                            *)

PgLoads == strategy = "postgresql" => PgInv

\* Where a PostgreSQL restore's reader, loads, queues and sessions stand, in every
\* state of a load.
THEOREM PgLoadsStand == Spec => []PgLoads
<1>1. Init => PgLoads BY PgStarts DEF Init, PgLoads
<1>2. PgLoads /\ [Next]_vars => PgLoads'
  <2> SUFFICES ASSUME PgLoads, [Next]_vars, strategy' = "postgresql" PROVE PgInv'
    BY DEF PgLoads
  <2>1. CASE Next
    <3>1. PgRestores BY <2>1 DEF Next, ThroughPipe, MySQLRestores
    <3> QED BY <3>1, PgNext DEF PgRestores, PgLoads
  <2>2. CASE UNCHANGED vars
    <3>1. UNCHANGED <<strategy, dump, n, ctx, main, result, broken, session, row, done, faulted,
                      copier, setup, task, copied, mem, postIndexes, postData, matViews>>
      BY <2>2 DEF vars, restoreVars, pgVars
    <3>2. PgInv BY <3>1 DEF PgLoads
    <3>3. PgInv' = PgInv
      BY <3>1 DEF PgInv, PgTypeOK, Placed, Loading, Sorted, InSession, L, IndexStmts, PostStmts,
         MatViewStmts, Elements, Held, EarlyIndex, Pg!Copies, Pg!Active, Pg!Is, Pg!SessionAt,
         Pg!SetUp
    <3> QED BY <3>2, <3>3
  <2> QED BY <2>1, <2>2
<1> QED BY <1>1, <1>2, PTL DEF Spec

\* No trigger fires on a restored row and no foreign key judges one, wherever the dump
\* has them and although the role that silences them may be refused: what defines them
\* is run when no load is left (restoreViaSQL's postData).
THEOREM NothingFiresInAnyLoad == Spec => NothingFires
<1>1. PgLoads /\ [Next]_vars => [strategy = "postgresql" => Pg!Unwatched]_vars
  BY PgUnwatched DEF PgLoads, Next, ThroughPipe, MySQLRestores, PgRestores
<1> QED BY <1>1, PgLoadsStand, PTL DEF Spec, NothingFires

\* A restore of a dump whose statements are in an order that works fails only by a
\* fault from outside or a cancel: what is held back is missed by nothing, what is
\* loaded aside finds its table and its schema, and the failures of others come from
\* one of those (postgresql_parallel.go copy and wait, restoreViaSQL).
PgBlameless == strategy = "postgresql" => PgInv /\ Blameless
THEOREM OnlyFaultsFailDumpsInOrder ==
  ASSUME \A d \in PgDumps : InWorkingOrder(d)
  PROVE  Spec => []OnlyFaultsFail
<1>1. Init => PgBlameless BY PgStarts, BlamelessStarts DEF Init, PgBlameless
<1>2. PgBlameless /\ [Next]_vars => PgBlameless'
  <2> SUFFICES ASSUME PgBlameless, [Next]_vars, strategy' = "postgresql"
               PROVE PgInv' /\ Blameless'
    BY DEF PgBlameless
  <2>1. CASE Next
    <3>1. PgRestores BY <2>1 DEF Next, ThroughPipe, MySQLRestores
    <3>2. Pg!Next /\ PgInv /\ Blameless BY <3>1 DEF PgRestores, PgBlameless
    <3>3. InWorkingOrder(dump) BY <3>2 DEF PgInv, PgTypeOK
    <3>4. Queued' /\ Followed' BY <3>2, QueuedKept, FollowedKept DEF Blameless
    <3>5. Faultless' BY <3>2, <3>3, FaultlessKept
    <3> QED BY <3>2, <3>4, <3>5, PgNext DEF Blameless
  <2>2. CASE UNCHANGED vars
    <3>1. UNCHANGED <<strategy, dump, n, ctx, main, result, broken, session, row, done, faulted,
                      copier, setup, task, copied, mem, postIndexes, postData, matViews>>
      BY <2>2 DEF vars, restoreVars, pgVars
    <3>2. PgInv /\ Blameless BY <3>1 DEF PgBlameless
    <3>3. PgInv' = PgInv
      BY <3>1 DEF PgInv, PgTypeOK, Placed, Loading, Sorted, InSession, L, IndexStmts, PostStmts,
         MatViewStmts, Elements, Held, EarlyIndex, Pg!Copies, Pg!Active, Pg!Is, Pg!SessionAt,
         Pg!SetUp
    <3>4. Blameless' = Blameless
      BY <3>1 DEF Blameless, Queued, Followed, Faultless, Ascending, Elements, EarlyIndex, L,
         Pg!Active, Pg!Copies, Pg!Is
    <3> QED BY <3>2, <3>3, <3>4
  <2> QED BY <2>1, <2>2
<1>3. PgBlameless => OnlyFaultsFail
  BY DEF PgBlameless, Blameless, Faultless, OnlyFaultsFail, Pg!OnlyFaultsFail
<1> QED BY <1>1, <1>2, <1>3, PTL DEF Spec

-----------------------------------------------------------------------------
(* Through the pipe *)

HandleTypeOK ==
  /\ item \in {"waits", "stops", "success", "failed"}
  /\ status \in {"pending", "checking", "dumping", "done", "failed",
                 "rolling-back", "rolled-back"}
  /\ handleErr \in {"", "error"} /\ closed \in BOOLEAN /\ asked \in BOOLEAN
  /\ rollback \in BOOLEAN
StreamTypeOK ==
  /\ cmd \in [Pipe!Sides -> {"none", "runs", "ok", "failed"}]
  /\ copy \in [Pipe!Sides -> {"none", "idle", "holds", "ended"}]
  /\ side \in [Pipe!Sides -> {"none", "nil", "error"}]
  /\ chan \in [Pipe!Sides -> Nat] /\ pipe \in {"open", "closed"}
  /\ dumped \in Nat /\ crossed \in Nat /\ reported \in Nat /\ loaded \in Nat

\* What the handle says, and what the item makes of it.
HandleStands ==
  /\ status = "failed" => handleErr = "error"
  /\ closed => status \in {"done", "failed", "rolled-back"}
  /\ closed /\ status # "done" => handleErr = "error"
  /\ status = "done" => \A s \in Pipe!Sides : side[s] = "nil"
  /\ asked => item \in {"stops", "failed"}
  /\ item = "success" => closed /\ handleErr = ""

\* The thresholds hold chunks back only while the commands run.
Shown == reported <= crossed /\ (status # "dumping" => reported = crossed)

\* Nothing has failed, and nobody has asked for a stop or a rollback.
Sound ==
  /\ ~asked /\ status \notin {"rolling-back", "rolled-back"}
  /\ \A s \in Pipe!Sides : cmd[s] # "failed" /\ side[s] # "error"
InHand(s) == IF copy[s] = "holds" THEN 1 ELSE 0

\* No chunk is lost on the way, and the pipe closes behind the last one.
Conserved ==
  /\ \A s \in Pipe!Sides :
       (cmd[s] = "none" => copy[s] = "none") /\ (side[s] = "nil" => cmd[s] = "ok")
  /\ Sound =>
       /\ dumped = chan["dump"] + InHand("dump") + crossed
       /\ crossed = InHand("restore") + chan["restore"] + loaded
       /\ cmd["dump"] = "ok" => dumped = Total
       /\ copy["dump"] = "ended" => cmd["dump"] = "ok" /\ chan["dump"] = 0
       /\ pipe = "closed" => copy["dump"] = "ended"
       /\ copy["restore"] = "ended" => pipe = "closed"
       /\ cmd["restore"] = "ok" => copy["restore"] = "ended" /\ chan["restore"] = 0

PipeInv == HandleTypeOK /\ StreamTypeOK /\ HandleStands /\ Shown /\ Conserved

LEMMA PipeStarts == Pipe!Init => PipeInv
<1> SUFFICES ASSUME Pipe!Init PROVE PipeInv OBVIOUS
<1>1. HandleTypeOK /\ HandleStands BY DEF Pipe!Init, HandleTypeOK, HandleStands
<1>2. StreamTypeOK BY DEF Pipe!Init, StreamTypeOK
<1>3. Shown
  <2>1. reported = 0 /\ crossed = 0 BY DEF Pipe!Init
  <2> QED BY <2>1 DEF Shown
<1>4. Conserved
  <2>1. /\ \A s \in Pipe!Sides : side[s] # "nil" /\ copy[s] = "none"
        /\ cmd["dump"] = "none" /\ cmd["restore"] = "none"
        /\ copy["dump"] = "none" /\ copy["restore"] = "none"
        /\ chan["dump"] = 0 /\ chan["restore"] = 0 /\ pipe = "open"
        /\ dumped = 0 /\ crossed = 0 /\ loaded = 0
    BY DEF Pipe!Init, Pipe!Sides
  <2> QED BY <2>1 DEF Conserved, InHand
<1> QED BY <1>1, <1>2, <1>3, <1>4 DEF PipeInv

LEMMA PipeHandleKeeps ==
  ASSUME PipeInv, Pipe!Handle \/ Pipe!Refuse \/ Pipe!NoTarget \/ Pipe!Stop
  PROVE  PipeInv'
<1>1. HandleTypeOK /\ StreamTypeOK /\ HandleStands /\ Shown /\ Conserved BY DEF PipeInv
<1>2. /\ UNCHANGED <<cmd, copy, chan, side, pipe, dumped, crossed, reported>>
      /\ loaded' = loaded \/ (status = "rolling-back" /\ status' = "rolled-back" /\ loaded' = 0)
  BY DEF Pipe!Handle, Pipe!Check, Pipe!Plan, Pipe!RollBack,
         Pipe!Explain, Pipe!Finish, Pipe!ItemEnds, Pipe!Refuse, Pipe!NoTarget, Pipe!Stop,
             Pipe!Failed, Pipe!stream
<1>3. /\ rollback' = rollback /\ (asked' = asked \/ asked' = TRUE)
      /\ status' # "dumping" => status # "dumping"
      /\ status \in {"rolling-back", "rolled-back"} => status' = status \/ status' = "rolled-back"
      /\ status' = "done" => status = "done"
  BY <1>1 DEF Pipe!Handle, Pipe!Check, Pipe!Plan, Pipe!RollBack,
         Pipe!Explain, Pipe!Finish, Pipe!ItemEnds, Pipe!Refuse, Pipe!NoTarget, Pipe!Stop,
             Pipe!Failed, HandleTypeOK
<1>4. HandleTypeOK' BY <1>1 DEF HandleTypeOK, Pipe!Handle, Pipe!Check, Pipe!Plan, Pipe!RollBack,
         Pipe!Explain, Pipe!Finish, Pipe!ItemEnds, Pipe!Refuse, Pipe!NoTarget, Pipe!Stop,
             Pipe!Failed, Pipe!ItemResult
<1>5. HandleStands'
  <2>1. CASE Pipe!Check BY <1>1, <1>2, <2>1 DEF Pipe!Check, HandleTypeOK, HandleStands
  <2>2. CASE Pipe!Plan BY <1>1, <1>2, <2>2 DEF Pipe!Plan, Pipe!Failed, HandleTypeOK, HandleStands
  <2>3. CASE Pipe!RollBack BY <1>1, <1>2, <2>3 DEF Pipe!RollBack, HandleTypeOK, HandleStands
  <2>4. CASE Pipe!Explain BY <1>1, <1>2, <2>4 DEF Pipe!Explain, HandleTypeOK, HandleStands
  <2>5. CASE Pipe!Finish BY <1>1, <1>2, <2>5 DEF Pipe!Finish, HandleTypeOK, HandleStands
  <2>6. CASE Pipe!ItemEnds
    BY <1>1, <1>2, <2>6 DEF Pipe!ItemEnds, Pipe!ItemResult, HandleTypeOK, HandleStands
  <2>7. CASE Pipe!Refuse BY <1>1, <1>2, <2>7 DEF Pipe!Refuse, HandleTypeOK, HandleStands
  <2>8. CASE Pipe!NoTarget
    BY <1>1, <1>2, <2>8 DEF Pipe!NoTarget, Pipe!Failed, HandleTypeOK, HandleStands
  <2>9. CASE Pipe!Stop BY <1>1, <1>2, <2>9 DEF Pipe!Stop, HandleTypeOK, HandleStands
  <2> QED BY <2>1, <2>2, <2>3, <2>4, <2>5, <2>6, <2>7, <2>8, <2>9 DEF Pipe!Handle
<1>6. StreamTypeOK'
  <2>1. loaded' \in Nat BY <1>1, <1>2 DEF StreamTypeOK
  <2> QED BY <1>1, <1>2, <2>1 DEF StreamTypeOK
<1>7. Shown' BY <1>1, <1>2, <1>3 DEF Shown
<1>8. Conserved'
  <2>1. ASSUME Sound' PROVE Sound /\ loaded' = loaded
    <3>1. asked \in BOOLEAN /\ ~asked' BY <1>1, <2>1 DEF Sound, HandleTypeOK
    <3>2. ~asked BY <1>3, <3>1
    <3> QED BY <1>2, <1>3, <2>1, <3>2 DEF Sound
  <2> QED BY <1>1, <1>2, <2>1 DEF Conserved, InHand
<1> QED BY <1>4, <1>5, <1>6, <1>7, <1>8 DEF PipeInv

LEMMA PipeStreamKeeps ==
  ASSUME PipeInv, Pipe!Piping, UNCHANGED Pipe!handle,
         \/ Pipe!Copiers \/ Pipe!Commands \/ Pipe!TearDown
         \/ \E s \in Pipe!Sides : \/ Pipe!Dial(s) \/ Pipe!SideEnds(s) \/ Pipe!DialFails(s)
                                  \/ Pipe!CommandFails(s)
  PROVE  PipeInv'
<1>1. status = "dumping" /\ UNCHANGED <<item, status, handleErr, closed, asked, rollback>>
  BY DEF Pipe!Piping, Pipe!handle
<1>2. HandleTypeOK /\ StreamTypeOK /\ HandleStands /\ Shown /\ Conserved BY DEF PipeInv
<1>n. /\ dumped \in Nat /\ crossed \in Nat /\ reported \in Nat /\ loaded \in Nat
      /\ chan["dump"] \in Nat /\ chan["restore"] \in Nat
  BY <1>2 DEF StreamTypeOK, Pipe!Sides
<1>t. /\ cmd \in [Pipe!Sides -> {"none", "runs", "ok", "failed"}]
      /\ copy \in [Pipe!Sides -> {"none", "idle", "holds", "ended"}]
      /\ side \in [Pipe!Sides -> {"none", "nil", "error"}]
      /\ chan \in [Pipe!Sides -> Nat] /\ pipe \in {"open", "closed"}
  BY <1>2 DEF StreamTypeOK
<1> DEFINE Good == StreamTypeOK' /\ Shown' /\ Conserved'
<1>3. ASSUME Pipe!DumpReads PROVE Good
  <2>1. StreamTypeOK' BY <1>n, <1>t, <1>3 DEF Pipe!DumpReads, Pipe!Exited, StreamTypeOK, Pipe!Sides
  <2>2. Shown' BY <1>1, <1>2, <1>n, <1>3 DEF Pipe!DumpReads, Pipe!Exited, Shown
  <2>3. Conserved'
    BY <1>1, <1>2, <1>n, <1>t, <1>3 DEF Pipe!DumpReads, Pipe!Exited, Conserved, Sound, InHand,
       Pipe!Sides
  <2> QED BY <2>1, <2>2, <2>3
<1>4. ASSUME Pipe!PipeRefuses PROVE Good
  <2>1. StreamTypeOK' BY <1>n, <1>t, <1>4 DEF Pipe!PipeRefuses, StreamTypeOK, Pipe!Sides
  <2>2. Shown' BY <1>1, <1>2, <1>n, <1>4 DEF Pipe!PipeRefuses, Shown
  <2>3. Conserved'
    BY <1>1, <1>2, <1>n, <1>t, <1>4 DEF Pipe!PipeRefuses, Conserved, Sound, InHand, Pipe!Sides
  <2> QED BY <2>1, <2>2, <2>3
<1>5. ASSUME Pipe!Cross PROVE Good
  <2>1. StreamTypeOK' BY <1>n, <1>t, <1>5 DEF Pipe!Cross, StreamTypeOK, Pipe!Sides
  <2>2. Shown' BY <1>1, <1>2, <1>n, <1>5 DEF Pipe!Cross, Shown
  <2>3. Conserved'
    BY <1>1, <1>2, <1>n, <1>t, <1>5 DEF Pipe!Cross, Conserved, Sound, InHand, Pipe!Sides
  <2> QED BY <2>1, <2>2, <2>3
<1>6. ASSUME Pipe!RestoreReads PROVE Good
  <2>1. StreamTypeOK' BY <1>n, <1>t, <1>6 DEF Pipe!RestoreReads, StreamTypeOK, Pipe!Sides
  <2>2. Shown' BY <1>1, <1>2, <1>n, <1>6 DEF Pipe!RestoreReads, Shown
  <2>3. Conserved'
    BY <1>1, <1>2, <1>n, <1>t, <1>6 DEF Pipe!RestoreReads, Conserved, Sound, InHand, Pipe!Sides
  <2> QED BY <2>1, <2>2, <2>3
<1>7. ASSUME Pipe!RestoreWrites PROVE Good
  <2>1. StreamTypeOK'
    BY <1>n, <1>t, <1>7 DEF Pipe!RestoreWrites, Pipe!Exited, StreamTypeOK, Pipe!Sides
  <2>2. Shown' BY <1>1, <1>2, <1>n, <1>7 DEF Pipe!RestoreWrites, Pipe!Exited, Shown
  <2>3. Conserved'
    BY <1>1, <1>2, <1>n, <1>t, <1>7 DEF Pipe!RestoreWrites, Pipe!Exited, Conserved, Sound,
       InHand, Pipe!Sides
  <2> QED BY <2>1, <2>2, <2>3
<1>8. ASSUME Pipe!DumpWrites PROVE Good
  <2>1. StreamTypeOK' BY <1>n, <1>t, <1>8 DEF Pipe!DumpWrites, StreamTypeOK, Pipe!Sides
  <2>2. Shown' BY <1>1, <1>2, <1>n, <1>8 DEF Pipe!DumpWrites, Shown
  <2>3. Conserved'
    BY <1>1, <1>2, <1>n, <1>t, <1>8 DEF Pipe!DumpWrites, Conserved, Sound, InHand, Pipe!Sides
  <2> QED BY <2>1, <2>2, <2>3
<1>9. ASSUME Pipe!RestoreLoads PROVE Good
  <2>1. StreamTypeOK' BY <1>n, <1>t, <1>9 DEF Pipe!RestoreLoads, StreamTypeOK, Pipe!Sides
  <2>2. Shown' BY <1>1, <1>2, <1>n, <1>9 DEF Pipe!RestoreLoads, Shown
  <2>3. Conserved'
    BY <1>1, <1>2, <1>n, <1>t, <1>9 DEF Pipe!RestoreLoads, Conserved, Sound, InHand, Pipe!Sides
  <2> QED BY <2>1, <2>2, <2>3
<1>10. ASSUME Pipe!DumpEnds PROVE Good
  <2>1. StreamTypeOK'
    BY <1>n, <1>t, <1>10 DEF Pipe!DumpEnds, Pipe!CommandEnds, StreamTypeOK, Pipe!Sides
  <2>2. Shown' BY <1>1, <1>2, <1>n, <1>10 DEF Pipe!DumpEnds, Pipe!CommandEnds, Shown
  <2>3. Conserved'
    BY <1>1, <1>2, <1>n, <1>t, <1>10 DEF Pipe!DumpEnds, Pipe!CommandEnds, Conserved, Sound,
       InHand, Pipe!Sides
  <2> QED BY <2>1, <2>2, <2>3
<1>11. ASSUME Pipe!RestoreEnds PROVE Good
  <2>1. StreamTypeOK'
    BY <1>n, <1>t, <1>11 DEF Pipe!RestoreEnds, Pipe!CommandEnds, StreamTypeOK, Pipe!Sides
  <2>2. Shown' BY <1>1, <1>2, <1>n, <1>11 DEF Pipe!RestoreEnds, Pipe!CommandEnds, Shown
  <2>3. Conserved'
    BY <1>1, <1>2, <1>n, <1>t, <1>11 DEF Pipe!RestoreEnds, Pipe!CommandEnds, Conserved, Sound,
       InHand, Pipe!Sides
  <2> QED BY <2>1, <2>2, <2>3
<1>12. ASSUME Pipe!TearDown PROVE Good
  <2>1. StreamTypeOK' BY <1>n, <1>t, <1>12 DEF Pipe!TearDown, StreamTypeOK, Pipe!Sides
  <2>2. Shown' BY <1>1, <1>2, <1>n, <1>12 DEF Pipe!TearDown, Shown
  <2>3. Conserved'
    BY <1>1, <1>2, <1>n, <1>t, <1>12 DEF Pipe!TearDown, Conserved, Sound, InHand, Pipe!Sides
  <2> QED BY <2>1, <2>2, <2>3
<1>13. ASSUME NEW s \in Pipe!Sides, Pipe!Dial(s) PROVE Good
  <2>1. StreamTypeOK' BY <1>n, <1>t, <1>13 DEF Pipe!Dial, StreamTypeOK, Pipe!Sides
  <2>2. Shown' BY <1>1, <1>2, <1>n, <1>13 DEF Pipe!Dial, Shown
  <2>3. /\ cmd[s] = "none" /\ cmd'[s] = "runs" /\ copy'[s] = "idle" /\ side[s] = "none"
        /\ \A r \in Pipe!Sides \ {s} : cmd'[r] = cmd[r] /\ copy'[r] = copy[r]
        /\ UNCHANGED <<chan, side, pipe, dumped, crossed, reported, loaded>>
    BY <1>t, <1>13 DEF Pipe!Dial
  <2>4. Conserved' BY <1>1, <1>2, <1>n, <2>3 DEF Conserved, Sound, InHand, Pipe!Sides
  <2> QED BY <2>1, <2>2, <2>4
<1>14. ASSUME NEW s \in Pipe!Sides, Pipe!SideEnds(s) PROVE Good
  <2>1. StreamTypeOK'
    BY <1>n, <1>t, <1>14 DEF Pipe!SideEnds, Pipe!Outcome, Pipe!Closes, Pipe!Exited,
       StreamTypeOK, Pipe!Sides
  <2>2. Shown'
    BY <1>1, <1>2, <1>n, <1>14 DEF Pipe!SideEnds, Pipe!Outcome, Pipe!Closes, Pipe!Exited, Shown
  <2>3. Conserved'
    BY <1>1, <1>2, <1>n, <1>t, <1>14 DEF Pipe!SideEnds, Pipe!Outcome, Pipe!Closes, Pipe!Exited,
       Conserved, Sound, InHand, Pipe!Sides
  <2> QED BY <2>1, <2>2, <2>3
<1>15. ASSUME NEW s \in Pipe!Sides, Pipe!DialFails(s) PROVE Good
  <2>1. StreamTypeOK' BY <1>n, <1>t, <1>15 DEF Pipe!DialFails, StreamTypeOK, Pipe!Sides
  <2>2. Shown' BY <1>1, <1>2, <1>n, <1>15 DEF Pipe!DialFails, Shown
  <2>3. Conserved'
    BY <1>1, <1>2, <1>n, <1>t, <1>15 DEF Pipe!DialFails, Conserved, Sound, InHand, Pipe!Sides
  <2> QED BY <2>1, <2>2, <2>3
<1>16. ASSUME NEW s \in Pipe!Sides, Pipe!CommandFails(s) PROVE Good
  <2>1. StreamTypeOK'
    BY <1>n, <1>t, <1>16 DEF Pipe!CommandFails, Pipe!CommandEnds, StreamTypeOK, Pipe!Sides
  <2>2. Shown' BY <1>1, <1>2, <1>n, <1>16 DEF Pipe!CommandFails, Pipe!CommandEnds, Shown
  <2>3. Conserved'
    BY <1>1, <1>2, <1>n, <1>t, <1>16 DEF Pipe!CommandFails, Pipe!CommandEnds, Conserved, Sound,
       InHand, Pipe!Sides
  <2> QED BY <2>1, <2>2, <2>3
<1>17. Good
  BY <1>3, <1>4, <1>5, <1>6, <1>7, <1>8, <1>9, <1>10, <1>11, <1>12, <1>13, <1>14, <1>15, <1>16
     DEF Pipe!Copiers, Pipe!Commands
<1>18. HandleStands' /\ HandleTypeOK' BY <1>1, <1>2 DEF HandleStands, HandleTypeOK
<1> QED BY <1>17, <1>18 DEF PipeInv

LEMMA PipeReturnKeeps == PipeInv /\ Pipe!Return => PipeInv'
<1> SUFFICES ASSUME PipeInv, Pipe!Return PROVE PipeInv' OBVIOUS
<1>1. HandleTypeOK /\ StreamTypeOK /\ HandleStands /\ Shown /\ Conserved BY DEF PipeInv
<1>2. /\ status = "dumping" /\ \A s \in Pipe!Sides : side[s] # "none"
      /\ reported' = crossed
      /\ UNCHANGED <<item, closed, asked, rollback, cmd, copy, chan, side, pipe, dumped,
          crossed, loaded>>
      /\ \/ /\ \E s \in Pipe!Sides : side[s] = "error"
            /\ \/ status' = "rolling-back" /\ handleErr' = handleErr
               \/ status' = "failed" /\ handleErr' = "error"
         \/ ~(\E s \in Pipe!Sides : side[s] = "error") /\ status' = "done" /\ handleErr' = handleErr
  BY DEF Pipe!Return, Pipe!Piping, Pipe!Flushed, Pipe!Failed
<1>3. HandleTypeOK' /\ StreamTypeOK' BY <1>1, <1>2 DEF HandleTypeOK, StreamTypeOK
<1>4. HandleStands' BY <1>1, <1>2 DEF StreamTypeOK, HandleStands
<1>5. Shown'
  <2>1. crossed \in Nat /\ reported' = crossed' BY <1>1, <1>2 DEF StreamTypeOK
  <2> QED BY <1>2, <2>1 DEF Shown
<1>6. Conserved' BY <1>1, <1>2 DEF Conserved, Sound, InHand
<1> QED BY <1>3, <1>4, <1>5, <1>6 DEF PipeInv

LEMMA PipeNext == PipeInv /\ Pipe!Next => PipeInv'
<1> SUFFICES ASSUME PipeInv, Pipe!Next PROVE PipeInv' OBVIOUS
<1>1. CASE Pipe!Handle \/ Pipe!Refuse \/ Pipe!NoTarget \/ Pipe!Stop BY <1>1, PipeHandleKeeps
<1>2. CASE Pipe!Return BY <1>2, PipeReturnKeeps
<1>3. CASE Pipe!Copiers \/ Pipe!Commands \/ Pipe!TearDown
  <2>1. Pipe!Piping /\ UNCHANGED Pipe!handle
    BY <1>3 DEF Pipe!Copiers, Pipe!Commands, Pipe!TearDown, Pipe!DumpReads, Pipe!PipeRefuses,
       Pipe!Cross,
      Pipe!RestoreReads, Pipe!RestoreWrites, Pipe!DumpWrites, Pipe!RestoreLoads, Pipe!DumpEnds,
      Pipe!RestoreEnds, Pipe!CommandEnds
  <2> QED BY <1>3, <2>1, PipeStreamKeeps
<1>4. ASSUME NEW s \in Pipe!Sides,
             Pipe!Dial(s) \/ Pipe!SideEnds(s) \/ Pipe!DialFails(s) \/ Pipe!CommandFails(s)
      PROVE  PipeInv'
  <2>1. Pipe!Piping /\ UNCHANGED Pipe!handle
    BY <1>4 DEF Pipe!Dial, Pipe!SideEnds, Pipe!DialFails, Pipe!CommandFails, Pipe!CommandEnds
  <2> QED BY <1>4, <2>1, PipeStreamKeeps
<1> QED BY <1>1, <1>2, <1>3, <1>4 DEF Pipe!Next, Pipe!Executor, Pipe!Mishaps

LEMMA PipeWhole == PipeInv => Pipe!ItemWhole /\ Pipe!BytesTrue
<1> SUFFICES ASSUME PipeInv PROVE Pipe!ItemWhole /\ Pipe!BytesTrue OBVIOUS
<1>1. HandleTypeOK /\ StreamTypeOK /\ HandleStands /\ Shown /\ Conserved BY DEF PipeInv
<1>2. ASSUME item = "success" PROVE loaded = Total /\ ~asked
  <2>1. ~asked /\ status = "done" BY <1>1, <1>2 DEF HandleStands
  <2>2. \A s \in Pipe!Sides : side[s] = "nil" /\ cmd[s] = "ok"
    BY <1>1, <2>1 DEF HandleStands, Conserved
  <2>3. Sound /\ cmd["restore"] = "ok" BY <2>1, <2>2 DEF Sound, Pipe!Sides
  <2>4. InHand("restore") = 0 /\ InHand("dump") = 0 BY <1>1, <2>3 DEF Conserved, InHand
  <2>5. dumped = Total /\ chan["dump"] = 0 /\ chan["restore"] = 0
    BY <1>1, <2>2, <2>3 DEF Conserved
  <2>6. dumped = chan["dump"] + 0 + crossed /\ crossed = 0 + chan["restore"] + loaded
    BY <1>1, <2>3, <2>4 DEF Conserved
  <2>7. dumped \in Nat /\ crossed \in Nat /\ loaded \in Nat BY <1>1 DEF StreamTypeOK
  <2> QED BY <2>1, <2>5, <2>6, <2>7
<1>3. Pipe!BytesTrue BY <1>1 DEF Shown, Pipe!BytesTrue
<1> QED BY <1>2, <1>3 DEF Pipe!ItemWhole

-----------------------------------------------------------------------------
(* In a MySQL restore *)

\* Where the reader has a row in hand, a statement of its own, or the dump's end.
RowPlaces == {"defer", "clear", "drop", "flush", "first", "queue", "alone"}
StmtPlaces == {"alone wait", "exec", "session", "again", "rebuild early"}
EndPlaces == {"close", "stop", "finish", "last", "rebuild", "end"}
GoingOn == {"read"} \cup RowPlaces \cup StmtPlaces \cup EndPlaces
MyPlaces == GoingOn \cup {"fail", "drain", "returned"}
\* Where nothing is under way: behind a barrier.
CalmPlaces == {"exec", "session", "again", "rebuild early", "stop", "finish", "last",
               "rebuild", "end"}

RowRecords == [at : {"out", "open", "in"}, by : 0 .. n, under : Settings]
Jobs == {i \in MySQL!Rows : i \in Elements(jobs) \/ \E w \in MySQL!Writers : writer[w].job = i}
OpenRows == {i \in MySQL!Rows : row[i].at = "open"}
\* The rows the reader has passed on.
Past == {i \in MySQL!Rows : i < main.pos \/ (i = main.pos /\ main.pc = "alone")}

MyTypeOK ==
  /\ dump \in MySQLDumps /\ n \in Nat /\ single \in BOOLEAN /\ ctx \in BOOLEAN
  /\ main \in [pc : MyPlaces, pos : 1 .. L + 1] /\ result \in {"none", "nil", "error"}
  /\ jobs \in Seq(MySQL!Rows) /\ err \in BOOLEAN
  /\ writer \in [MySQL!Writers -> [pc : {"look", "has", "runs", "idle", "gone"},
                                   job : MySQL!Rows \cup {0}]]
  /\ session \in [0 .. n -> Settings] /\ row \in [MySQL!Rows -> RowRecords]
  /\ done \subseteq MySQL!Own

\* Where the reader is, and what is off without writers.
MyPlaced ==
  /\ main.pc \in RowPlaces \cup StmtPlaces => main.pos \in DOMAIN dump
  /\ main.pc \in RowPlaces => MySQL!IsRows(main.pos)
  /\ main.pc \in {"flush", "first", "queue", "alone", "alone wait", "session", "close", "stop"}
       => ~single
  /\ main.pc \in StmtPlaces /\ ~single => ~MySQL!IsRows(main.pos)
  /\ main.pc = "session" => dump[main.pos].kind = "session"
  /\ main.pc \in {"again", "rebuild early"} => dump[main.pos].kind = "create"
  /\ main.pc \in EndPlaces \/ result = "nil" => main.pos = L + 1
  /\ result = "none" <=> main.pc # "returned"
  /\ \A w \in MySQL!Writers : writer[w].job # 0 <=> writer[w].pc \in {"has", "runs"}
  /\ single => jobs = <<>> /\ ~err /\ \A w \in MySQL!Writers : writer[w].pc = "gone"

\* A row the reader has passed is in, or open, or in hand, or lost with a failure.
RowsKept ==
  /\ \A i \in OpenRows : row[i].by = 0 <=> single
  /\ main.pc \in GoingOn =>
       \A i \in Past : row[i].at # "out" \/ i \in Jobs \/ ctx \/ err
  /\ main.pc \in {"last", "rebuild", "end"} => \A i \in MySQL!Rows : row[i].at = "in" \/ ctx
  /\ result = "nil" => \A i \in MySQL!Rows : row[i].at = "in"
Calm ==
  /\ main.pc \in CalmPlaces =>
       /\ Jobs = {} /\ (~single => OpenRows = {})
       /\ \A i \in Past : row[i].at # "out" \/ ctx
  /\ result = "nil" => Jobs = {}

\* What is in hand comes under the settings and after the definitions above it.
UnderWay ==
  /\ main.pc \in GoingOn \ {"session"} => session[0] = MySQL!SessionAt(main.pos)
  /\ main.pc = "session" => session[0] = MySQL!SessionAt(main.pos + 1)
  /\ main.pc \in GoingOn /\ ~single =>
       \A w \in MySQL!Writers : session[w] = MySQL!SessionAt(main.pos)
  /\ \A i \in Jobs, w \in MySQL!Writers : session[w] = MySQL!SessionAt(i)
  /\ \A i \in Jobs, j \in MySQL!Own : j < i => j \in done
  /\ main.pc \in GoingOn \/ result = "nil" => \A j \in MySQL!Own : j < main.pos => j \in done

MyInv == MyTypeOK /\ MyPlaced /\ RowsKept /\ Calm /\ UnderWay

\* A step in which rows at most go from open to in.
Settles ==
  /\ row' \in [MySQL!Rows -> RowRecords]
  /\ \A i \in MySQL!Rows : row'[i].by = row[i].by
       /\ (row'[i].at = row[i].at \/ (row[i].at = "open" /\ row'[i].at = "in"))

-----------------------------------------------------------------------------
LEMMA MyDumps ==
  ASSUME MyTypeOK
  PROVE  /\ dump \in Seq(MySQLStatements) /\ L \in Nat /\ DOMAIN dump = 1 .. L
         /\ main.pos \in Nat /\ main.pos \in 1 .. L + 1 /\ n \in Nat
         /\ MySQL!Rows \subseteq 1 .. L /\ MySQL!Own \subseteq 1 .. L /\ 0 \notin MySQL!Rows
         /\ \A i \in MySQL!Rows : i \in Nat /\ i \in DOMAIN dump /\ dump[i].table \in Tables
         /\ \A i \in MySQL!Own : i \in Nat
<1>1. dump \in Seq(MySQLStatements) BY MySQLAssumption DEF MyTypeOK
<1>2. L \in Nat /\ DOMAIN dump = 1 .. L BY <1>1 DEF L
<1>3. main.pos \in 1 .. L + 1 BY DEF MyTypeOK
<1>4. \A i \in MySQL!Rows : i \in 1 .. L BY <1>2 DEF MySQL!Rows
<1>5. \A i \in MySQL!Own : i \in 1 .. L BY <1>2 DEF MySQL!Own
<1>6. \A i \in MySQL!Rows : dump[i].table \in Tables
  BY MySQLAssumption DEF MyTypeOK, MySQL!Rows, MySQL!IsRows
<1>7. n \in Nat BY DEF MyTypeOK
<1>8. \A i \in 1 .. L : i \in Nat /\ i # 0 BY <1>2
<1>9. main.pos \in Nat BY <1>2, <1>3
<1> QED BY <1>1, <1>2, <1>3, <1>4, <1>5, <1>6, <1>7, <1>8, <1>9

\* What is said of the dump and the writers alone.
LEMMA MyStays ==
  ASSUME dump' = dump, n' = n
  PROVE  /\ MySQL!Rows' = MySQL!Rows /\ MySQL!Own' = MySQL!Own /\ L' = L
         /\ MySQL!Writers' = MySQL!Writers /\ RowRecords' = RowRecords
         /\ \A i : MySQL!SessionAt(i)' = MySQL!SessionAt(i)
         /\ \A i : MySQL!IsRows(i)' = MySQL!IsRows(i)
BY DEF MySQL!Rows, MySQL!Own, L, MySQL!Writers, RowRecords, MySQL!SessionAt, MySQL!IsRows

LEMMA MySessionFirst == MySQL!SessionAt(1) = "default"
BY DEF MySQL!SessionAt

LEMMA MySessionNext ==
  ASSUME MyTypeOK, NEW i \in DOMAIN dump
  PROVE  MySQL!SessionAt(i + 1) =
           IF dump[i].kind = "session" THEN dump[i].sets ELSE MySQL!SessionAt(i)
<1> DEFINE S(k) == {j \in 1 .. k - 1 : dump[j].kind = "session"}
           latest(T) == CHOOSE j \in T : \A k \in T : k <= j
<1>1. i \in Nat /\ i >= 1 BY MyDumps
<1>2. ASSUME NEW k \in {i, i + 1}
      PROVE  MySQL!SessionAt(k) = IF S(k) = {} THEN "default" ELSE dump[latest(S(k))].sets
  BY DEF MySQL!SessionAt
<1>3. CASE dump[i].kind = "session"
  <2>1. i \in S(i + 1) /\ \A j \in S(i + 1) : j <= i /\ j \in Nat BY <1>1, <1>3
  <2>2. latest(S(i + 1)) = i
    <3>1. \E j \in S(i + 1) : \A k \in S(i + 1) : k <= j BY <2>1
    <3>2. latest(S(i + 1)) \in S(i + 1) /\ \A k \in S(i + 1) : k <= latest(S(i + 1)) BY <3>1
    <3> QED BY <2>1, <3>2, <1>1
  <2> QED BY <1>2, <1>3, <2>1, <2>2
<1>4. CASE ~(dump[i].kind = "session")
  <2>1. S(i + 1) = S(i) BY <1>1, <1>4
  <2> QED BY <1>2, <1>4, <2>1
<1> QED BY <1>3, <1>4

\* What every step may use.
LEMMA MyBasics ==
  ASSUME MyInv, dump' = dump, n' = n
  PROVE  /\ MyTypeOK /\ MyPlaced /\ RowsKept /\ Calm /\ UnderWay
         /\ L \in Nat /\ DOMAIN dump = 1 .. L /\ n \in Nat
         /\ MySQL!Rows \subseteq 1 .. L /\ MySQL!Own \subseteq 1 .. L /\ 0 \notin MySQL!Rows
         /\ \A i \in MySQL!Rows : i \in Nat
         /\ \A i \in MySQL!Own : i \in Nat
         /\ main.pos \in 1 .. L + 1 /\ main.pos \in Nat
         /\ MySQL!Rows' = MySQL!Rows /\ MySQL!Own' = MySQL!Own /\ L' = L
         /\ MySQL!Writers' = MySQL!Writers /\ RowRecords' = RowRecords
         /\ \A i : MySQL!SessionAt(i)' = MySQL!SessionAt(i)
         /\ \A i : MySQL!IsRows(i)' = MySQL!IsRows(i)
<1>1. MyTypeOK /\ MyPlaced /\ RowsKept /\ Calm /\ UnderWay BY DEF MyInv
<1> QED BY <1>1, MyDumps, MyStays

LEMMA Committing ==
  ASSUME NEW r \in [MySQL!Rows -> RowRecords], NEW S
  PROVE  /\ MySQL!Committed(r, S) \in [MySQL!Rows -> RowRecords]
         /\ \A i \in MySQL!Rows :
              /\ MySQL!Committed(r, S)[i].by = r[i].by
              /\ MySQL!Committed(r, S)[i].under = r[i].under
              /\ MySQL!Committed(r, S)[i].at = IF i \in S THEN "in" ELSE r[i].at
<1>1. ASSUME NEW i \in MySQL!Rows
      PROVE  /\ MySQL!Committed(r, S)[i] \in RowRecords
             /\ MySQL!Committed(r, S)[i].by = r[i].by
             /\ MySQL!Committed(r, S)[i].under = r[i].under
             /\ MySQL!Committed(r, S)[i].at = IF i \in S THEN "in" ELSE r[i].at
  <2>1. MySQL!Committed(r, S)[i] = IF i \in S THEN [r[i] EXCEPT !.at = "in"] ELSE r[i]
    BY DEF MySQL!Committed
  <2>2. r[i] \in RowRecords OBVIOUS
  <2> QED BY <2>1, <2>2 DEF RowRecords
<1>2. MySQL!Committed(r, S) = [i \in MySQL!Rows |-> MySQL!Committed(r, S)[i]]
  BY DEF MySQL!Committed
<1>3. MySQL!Committed(r, S) \in [MySQL!Rows -> RowRecords] BY <1>1, <1>2
<1> QED BY <1>1, <1>3

\* A commit, of some rows that are open.
LEMMA CommitSettles ==
  ASSUME MyInv, NEW S, S \subseteq OpenRows, row' = MySQL!Committed(row, S)
  PROVE  /\ Settles
         /\ \A i \in MySQL!Rows : row'[i].at = IF i \in S THEN "in" ELSE row[i].at
<1>1. row \in [MySQL!Rows -> RowRecords] BY DEF MyInv, MyTypeOK
<1>2. /\ row' \in [MySQL!Rows -> RowRecords]
      /\ \A i \in MySQL!Rows : /\ row'[i].by = row[i].by
                               /\ row'[i].at = IF i \in S THEN "in" ELSE row[i].at
  BY <1>1, Committing
<1>3. \A i \in S : row[i].at = "open" BY DEF OpenRows
<1> QED BY <1>2, <1>3 DEF Settles

LEMMA NoCommitSettles == ASSUME MyInv, row' = row PROVE Settles
BY DEF MyInv, MyTypeOK, Settles

\* What is open on a connection, and on all of the writers'.
LEMMA OpenOn ==
  ASSUME MyInv
  PROVE  /\ \A c : MySQL!Open(c) \subseteq OpenRows
         /\ MySQL!Opened \subseteq OpenRows
         /\ \A S \in SUBSET MySQL!Writers : UNION {MySQL!Open(c) : c \in S} \subseteq OpenRows
         /\ single => MySQL!Open(0) = OpenRows
         /\ ~single => MySQL!Open(0) = {} /\ MySQL!Opened = OpenRows
<1>1. \A c : MySQL!Open(c) \subseteq OpenRows BY DEF MySQL!Open, OpenRows
<1>2. MySQL!Opened \subseteq OpenRows BY <1>1 DEF MySQL!Opened
<1>3. \A S \in SUBSET MySQL!Writers : UNION {MySQL!Open(c) : c \in S} \subseteq OpenRows
  BY <1>1
<1>4. \A i \in OpenRows : row[i].by = 0 <=> single BY DEF MyInv, RowsKept
<1>5. single => MySQL!Open(0) = OpenRows BY <1>4 DEF MySQL!Open, OpenRows
<1>6. ASSUME ~single PROVE MySQL!Open(0) = {} /\ OpenRows \subseteq MySQL!Opened
  <2>1. MySQL!Open(0) = {} BY <1>4, <1>6 DEF MySQL!Open, OpenRows
  <2>2. ASSUME NEW i \in OpenRows PROVE i \in MySQL!Opened
    <3>1. row[i].by # 0 BY <1>4, <1>6, <2>2
    <3>2. row[i] \in RowRecords /\ i \in MySQL!Rows BY <2>2 DEF MyInv, MyTypeOK, OpenRows
    <3>3. row[i].by \in 0 .. n /\ n \in Nat BY <3>2, MyDumps DEF RowRecords, MyInv
    <3>4. row[i].by \in MySQL!Writers BY <3>1, <3>3 DEF MySQL!Writers
    <3>5. i \in MySQL!Open(row[i].by) BY <2>2 DEF MySQL!Open, OpenRows
    <3> QED BY <3>4, <3>5 DEF MySQL!Opened
  <2> QED BY <2>1, <2>2
<1> QED BY <1>1, <1>2, <1>3, <1>5, <1>6

LEMMA SameCardinality == \A S : MySQL!Cardinality(S) = Cardinality(S)
BY DEF MySQL!Cardinality, Cardinality

\* Behind a barrier nothing is in hand.
LEMMA NothingPending ==
  ASSUME MyInv, MySQL!Pending = 0
  PROVE  jobs = <<>> /\ (\A w \in MySQL!Writers : writer[w].job = 0) /\ Jobs = {}
<1> DEFINE Busy == {w \in MySQL!Writers : writer[w].job # 0}
<1>1. n \in Nat /\ jobs \in Seq(MySQL!Rows) /\ 0 \notin MySQL!Rows
  BY MyDumps DEF MyInv, MyTypeOK
<1>2. IsFiniteSet(Busy)
  <2>1. IsFiniteSet(MySQL!Writers) BY <1>1, FS_Interval DEF MySQL!Writers
  <2> QED BY <2>1, FS_Subset
<1>3. Cardinality(Busy) \in Nat BY <1>2, FS_CardinalityType
<1>4. Len(jobs) \in Nat BY <1>1
<1>5. Len(jobs) + Cardinality(Busy) = 0 BY SameCardinality DEF MySQL!Pending
<1>6. Len(jobs) = 0 /\ Cardinality(Busy) = 0 BY <1>3, <1>4, <1>5
<1>7. Busy = {} BY <1>2, <1>6, FS_EmptySet
<1>8. jobs = <<>> BY <1>1, <1>6
<1>9. Elements(jobs) = {} BY <1>8, ElementsOfEmpty
<1> QED BY <1>1, <1>7, <1>8, <1>9 DEF Jobs

\* A step of the reader that leaves it at the same statement and in a row's way
\* nowhere: what it is behind at its new place must hold.
LEMMA MovesKeep ==
  ASSUME MyInv, Settles,
         UNCHANGED <<dump, n, single, ctx, result, jobs, writer, session, done>>,
         err' = err \/ (~single /\ err' = TRUE),
         NEW pc \in MyPlaces, main' = [main EXCEPT !.pc = pc], MyPlaced',
         main.pc \notin {"fail", "drain", "returned"}, pc \notin {"alone", "session"},
         pc \in GoingOn => main.pc \notin {"alone", "session"},
         pc \in CalmPlaces =>
           \/ main.pc \in CalmPlaces
           \/ Jobs = {} /\ ~err /\ (~single => OpenRows' = {}),
         pc \in {"last", "rebuild", "end"} =>
           \/ main.pc \in {"last", "rebuild", "end"}
           \/ \A i \in MySQL!Rows : row'[i].at = "in" \/ ctx
  PROVE  MyInv'
<1>1. /\ main'.pos = main.pos /\ main'.pc = pc
      /\ main' \in [pc : MyPlaces, pos : 1 .. L + 1]
  BY DEF MyInv, MyTypeOK
<1>2. err' \in BOOLEAN /\ (err => err') BY DEF MyInv, MyTypeOK
<1>3. MyTypeOK' BY <1>1, <1>2, MyBasics DEF MyTypeOK, Settles
<1>4. Jobs' = Jobs BY MyBasics DEF Jobs
<1>5. /\ \A i \in OpenRows' : i \in OpenRows /\ row'[i].by = row[i].by
      /\ \A i \in MySQL!Rows : row[i].at # "out" => row'[i].at # "out"
      /\ \A i \in MySQL!Rows : row[i].at = "in" => row'[i].at = "in"
  BY MyBasics DEF Settles, OpenRows
<1>6. pc \in GoingOn => Past' = Past /\ main.pc \in GoingOn
  BY <1>1, MyBasics DEF Past, GoingOn, MyTypeOK, MyPlaces
<1>7. RowsKept'
  <2>1. \A i \in OpenRows' : row'[i].by = 0 <=> single' BY <1>5, MyBasics DEF RowsKept
  <2>2. main'.pc \in GoingOn => \A i \in Past' : row'[i].at # "out" \/ i \in Jobs' \/ ctx' \/ err'
    <3> SUFFICES ASSUME pc \in GoingOn, NEW i \in Past
                 PROVE  row'[i].at # "out" \/ i \in Jobs \/ ctx \/ err'
      BY <1>1, <1>4, <1>6
    <3>1. row[i].at # "out" \/ i \in Jobs \/ ctx \/ err BY <1>6, MyBasics DEF RowsKept
    <3>2. i \in MySQL!Rows BY DEF Past
    <3> QED BY <1>2, <1>5, <3>1, <3>2
  <2>3. main'.pc \in {"last", "rebuild", "end"}
          => \A i \in MySQL!Rows' : row'[i].at = "in" \/ ctx'
    <3> SUFFICES ASSUME pc \in {"last", "rebuild", "end"}, NEW i \in MySQL!Rows
                 PROVE  row'[i].at = "in" \/ ctx
      BY <1>1, MyBasics
    <3>1. CASE main.pc \in {"last", "rebuild", "end"}
      <4>1. row[i].at = "in" \/ ctx BY <3>1, MyBasics DEF RowsKept
      <4> QED BY <1>5, <4>1
    <3> QED BY <3>1
  <2>4. result' # "nil" BY MyBasics DEF MyPlaced
  <2> QED BY <2>1, <2>2, <2>3, <2>4 DEF RowsKept
<1>8. Calm'
  <2> SUFFICES ASSUME pc \in CalmPlaces
               PROVE  /\ Jobs = {} /\ (~single => OpenRows' = {})
                      /\ \A i \in Past : row'[i].at # "out" \/ ctx
    <3>1. result' # "nil" BY MyBasics DEF MyPlaced
    <3> QED BY <1>1, <1>4, <1>6, <3>1 DEF Calm, CalmPlaces, GoingOn, StmtPlaces, EndPlaces
  <2>1. Past \subseteq MySQL!Rows BY DEF Past
  <2>2. CASE main.pc \in CalmPlaces
    <3>1. /\ Jobs = {} /\ (~single => OpenRows = {})
          /\ \A i \in Past : row[i].at # "out" \/ ctx
      BY <2>2, MyBasics DEF Calm
    <3>2. OpenRows' \subseteq OpenRows BY <1>5
    <3> QED BY <1>5, <2>1, <3>1, <3>2
  <2>3. CASE Jobs = {} /\ ~err /\ (~single => OpenRows' = {})
    <3>1. pc \in GoingOn BY DEF CalmPlaces, GoingOn, StmtPlaces, EndPlaces
    <3>2. \A i \in Past : row[i].at # "out" \/ ctx BY <1>6, <2>3, <3>1, MyBasics DEF RowsKept
    <3> QED BY <1>5, <2>1, <2>3, <3>2
  <2> QED BY <2>2, <2>3
<1>9. UnderWay'
  <2>1. pc \in GoingOn => main.pc \in GoingOn \ {"session"} BY <1>6
  <2>2. pc \in GoingOn =>
          /\ session[0] = MySQL!SessionAt(main.pos)
          /\ ~single => \A w \in MySQL!Writers : session[w] = MySQL!SessionAt(main.pos)
    BY <2>1, MyBasics DEF UnderWay
  <2>3. /\ \A i \in Jobs, w \in MySQL!Writers : session[w] = MySQL!SessionAt(i)
        /\ \A i \in Jobs, j \in MySQL!Own : j < i => j \in done
    BY MyBasics DEF UnderWay
  <2>4. main'.pc \in GoingOn \/ result' = "nil" =>
          \A j \in MySQL!Own' : j < main'.pos => j \in done'
    <3>1. result' # "nil" BY MyBasics DEF MyPlaced
    <3> QED BY <1>1, <2>1, <3>1, MyBasics DEF UnderWay
  <2> QED BY <1>1, <1>4, <2>2, <2>3, <2>4, MyBasics DEF UnderWay
<1> QED BY <1>3, <1>7, <1>8, <1>9 DEF MyInv

LEMMA AtTheEnd ==
  ASSUME NEW last \in Nat, NEW p \in 1 .. last + 1
  PROVE  (p <= last => p \in 1 .. last) /\ (p > last => p = last + 1)
OBVIOUS

\* The steps with no barrier that leave the reader at its statement.
LEMMA GotoKeeps ==
  ASSUME MyInv, dump' = dump, row' = row, err' = err,
         UNCHANGED <<dump, n, single, ctx, result, jobs, writer, session, done>>,
         NEW pc \in MyPlaces, main' = [main EXCEPT !.pc = pc],
         \/ main.pc = "read" /\ pc = "fail"
         \/ main.pc = "read" /\ pc = "defer" /\ main.pos <= L /\ MySQL!IsRows(main.pos)
         \/ main.pc = "read" /\ pc = "exec" /\ main.pos <= L /\ single
         \/ main.pc = "read" /\ pc = "alone wait" /\ main.pos <= L /\ ~single
            /\ ~MySQL!IsRows(main.pos)
         \/ main.pc = "read" /\ pc = "close" /\ main.pos > L /\ ~single
         \/ main.pc = "read" /\ pc = "finish" /\ main.pos > L /\ single
         \/ main.pc \in {"defer", "drop"} /\ pc = "exec" /\ single
         \/ main.pc \in {"defer", "drop"} /\ pc = "flush" /\ ~single
         \/ main.pc = "defer" /\ pc = "clear"
         \/ main.pc = "exec" /\ pc \in {"again", "fail"}
            /\ (pc = "again" => dump[main.pos].kind = "create")
         \/ main.pc = "again" /\ pc = "rebuild early"
         \/ main.pc = "rebuild early" /\ pc \in {"exec", "fail"}
         \/ main.pc = "stop" /\ pc = "finish"
         \/ main.pc = "last" /\ pc = "rebuild"
         \/ main.pc = "rebuild" /\ pc \in {"end", "fail"}
         \/ main.pc = "end" /\ pc = "fail"
  PROVE  MyInv'
<1>1. /\ main'.pos = main.pos /\ main'.pc = pc /\ main.pc \in MyPlaces
      /\ main.pos \in 1 .. L + 1 /\ L \in Nat /\ DOMAIN dump = 1 .. L
  BY MyBasics DEF MyTypeOK
<1>2. main.pos <= L => main.pos \in DOMAIN dump BY <1>1, AtTheEnd
<1>3. main.pos > L => main.pos = L + 1 BY <1>1, AtTheEnd
<1>4. result = "none" BY MyBasics DEF MyPlaced
<1>5. MyPlaced'
  BY <1>1, <1>2, <1>3, <1>4, MyBasics DEF MyPlaced, RowPlaces, StmtPlaces, EndPlaces
<1>6. pc \in CalmPlaces =>
        main.pc \in CalmPlaces \/ (Jobs = {} /\ ~err /\ (~single => OpenRows' = {}))
  <2>1. single => Jobs = {} /\ ~err
    <3>1. single => jobs = <<>> /\ ~err /\ \A w \in MySQL!Writers : writer[w].job = 0
      BY MyBasics DEF MyPlaced
    <3> QED BY <3>1, ElementsOfEmpty, MyBasics DEF Jobs
  <2> QED BY <2>1 DEF CalmPlaces
<1>7. pc \in {"last", "rebuild", "end"} => main.pc \in {"last", "rebuild", "end"} OBVIOUS
<1>8. Settles BY NoCommitSettles
<1> QED BY <1>1, <1>5, <1>6, <1>7, <1>8, MovesKeep DEF GoingOn, RowPlaces, CalmPlaces

LEMMA GotoActionsKeep ==
  ASSUME MyInv,
         \/ MySQL!Read /\ main'.pos = main.pos
         \/ MySQL!Defer \/ MySQL!Drop \/ MySQL!ExecFails
         \/ MySQL!Rebuild("again") \/ MySQL!Rebuild("last") \/ MySQL!Rebuilt
         \/ MySQL!Stopped \/ MySQL!EndFails
  PROVE  MyInv'
<1>1. /\ main.pc \in MyPlaces /\ main.pos \in 1 .. L + 1 /\ L \in Nat /\ DOMAIN dump = 1 .. L
      /\ main = [pc |-> main.pc, pos |-> main.pos]
  BY MyDumps DEF MyInv, MyTypeOK
<1> DEFINE Same == UNCHANGED <<dump, n, single, ctx, result, jobs, writer, err, session, done,
    row>>
           Goes(pc) == pc \in MyPlaces /\ main' = [main EXCEPT !.pc = pc]
<1>2. ASSUME MySQL!Read, main'.pos = main.pos PROVE MyInv'
  <2>1. main.pc = "read" /\ Same
    BY <1>2 DEF MySQL!Read, MySQL!At, MySQL!restore, MySQL!writers, MySQL!server
  <2>2. main.pos + 1 # main.pos BY <1>1
  <2>3. main' # [pc |-> "read", pos |-> main.pos + 1] BY <1>2, <2>2
  <2>4. \/ main.pos > L /\ main' = [main EXCEPT !.pc = IF single THEN "finish" ELSE "close"]
        \/ /\ main.pos <= L
           /\ \/ main' = [main EXCEPT !.pc = "fail"]
              \/ MySQL!IsRows(main.pos) /\ main' = [main EXCEPT !.pc = "defer"]
              \/ single /\ main' = [main EXCEPT !.pc = "exec"]
              \/ /\ ~single /\ ~MySQL!IsRows(main.pos)
                 /\ main' = [main EXCEPT !.pc = "alone wait"]
    <3>1. L = Len(dump) BY DEF L
    <3>2. main.pos > L \/ main.pos <= L BY <1>1
    <3> QED
      BY <1>2, <2>3, <3>1, <3>2 DEF MySQL!Read, MySQL!Goto, MySQL!NextStmt, MySQL!Stmt,
         MySQL!IsRows
  <2> QED
    BY <2>1, <2>4, GotoKeeps DEF MyPlaces, GoingOn, RowPlaces, StmtPlaces, EndPlaces
<1>3. ASSUME MySQL!Defer \/ MySQL!Drop PROVE MyInv'
  <2>1. main.pc \in {"defer", "drop"} /\ Same
    BY <1>3 DEF MySQL!Defer, MySQL!Drop, MySQL!At, MySQL!restore, MySQL!writers, MySQL!server
  <2>2. \/ main' = [main EXCEPT !.pc = IF single THEN "exec" ELSE "flush"]
        \/ main.pc = "defer" /\ main' = [main EXCEPT !.pc = "clear"]
    BY <1>3 DEF MySQL!Defer, MySQL!Drop, MySQL!At, MySQL!Goes, MySQL!Goto
  <2> QED
    BY <2>1, <2>2, GotoKeeps DEF MyPlaces, GoingOn, RowPlaces, StmtPlaces, EndPlaces
<1>4. ASSUME MySQL!ExecFails PROVE MyInv'
  <2>1. main.pc = "exec" /\ Same
    BY <1>4 DEF MySQL!ExecFails, MySQL!At, MySQL!restore, MySQL!writers, MySQL!server
  <2>2. \/ main' = [main EXCEPT !.pc = "fail"]
        \/ dump[main.pos].kind = "create" /\ main' = [main EXCEPT !.pc = "again"]
    BY <1>4 DEF MySQL!ExecFails, MySQL!MissingKey, MySQL!Stmt, MySQL!Goto
  <2> QED
    BY <2>1, <2>2, GotoKeeps DEF MyPlaces, GoingOn, RowPlaces, StmtPlaces, EndPlaces
<1>5. ASSUME MySQL!Rebuild("again") \/ MySQL!Rebuild("last") PROVE MyInv'
  <2>1. Same BY <1>5 DEF MySQL!Rebuild, MySQL!restore, MySQL!writers, MySQL!server
  <2>2. \/ main.pc = "again" /\ main' = [main EXCEPT !.pc = "rebuild early"]
        \/ main.pc = "last" /\ main' = [main EXCEPT !.pc = "rebuild"]
    BY <1>5 DEF MySQL!Rebuild, MySQL!At
  <2> QED
    BY <2>1, <2>2, GotoKeeps DEF MyPlaces, GoingOn, RowPlaces, StmtPlaces, EndPlaces
<1>6. ASSUME MySQL!Rebuilt PROVE MyInv'
  <2>1. Same BY <1>6 DEF MySQL!Rebuilt, MySQL!restore, MySQL!writers, MySQL!server
  <2>2. /\ main.pc \in {"rebuild", "rebuild early"}
        /\ \/ main' = [main EXCEPT !.pc = "fail"]
           \/ main.pc = "rebuild" /\ main' = [main EXCEPT !.pc = "end"]
           \/ main.pc = "rebuild early" /\ main' = [main EXCEPT !.pc = "exec"]
    BY <1>6 DEF MySQL!Rebuilt, MySQL!Outcome, MySQL!Goto, MySQL!At
  <2> QED
    BY <2>1, <2>2, GotoKeeps DEF MyPlaces, GoingOn, RowPlaces, StmtPlaces, EndPlaces
<1>7. ASSUME MySQL!Stopped \/ MySQL!EndFails PROVE MyInv'
  <2>1. Same
    BY <1>7 DEF MySQL!Stopped, MySQL!EndFails, MySQL!restore, MySQL!writers, MySQL!server
  <2>2. \/ main.pc = "stop" /\ main' = [main EXCEPT !.pc = "finish"]
        \/ main.pc = "end" /\ main' = [main EXCEPT !.pc = "fail"]
    BY <1>7 DEF MySQL!Stopped, MySQL!EndFails, MySQL!Goto, MySQL!At
  <2> QED
    BY <2>1, <2>2, GotoKeeps DEF MyPlaces, GoingOn, RowPlaces, StmtPlaces, EndPlaces
<1> QED BY <1>2, <1>3, <1>4, <1>5, <1>6, <1>7

\* Rows that a commit on the way may have settled.
LEMMA SomeCommitSettles ==
  ASSUME MyInv, row' = row \/ \E S \in SUBSET OpenRows : row' = MySQL!Committed(row, S)
  PROVE  Settles
BY CommitSettles, NoCommitSettles

LEMMA BarrierKeeps ==
  ASSUME MyInv, ~single, UNCHANGED <<dump, n, single, ctx, result, jobs, writer, session, done>>,
         MySQL!Pending = 0, NEW pc,
         \/ main.pc = "alone wait" /\ pc = "exec"
         \/ main.pc = "clear" /\ pc = "drop"
         \/ main.pc = "first" /\ pc = "queue"
         \/ main.pc = "close" /\ pc = "stop"
         \/ main.pc = "alone" /\ pc = "fail",
         \/ /\ ~err /\ err' = err /\ row' = MySQL!Committed(row, MySQL!Opened)
            /\ main' = [main EXCEPT !.pc = pc]
         \/ /\ err' = TRUE /\ main' = [main EXCEPT !.pc = "fail"]
            /\ row' = row \/ \E S \in SUBSET OpenRows : row' = MySQL!Committed(row, S)
  PROVE  MyInv'
<1>1. Jobs = {} BY NothingPending
<1>2. /\ main.pc \in MyPlaces /\ main.pos \in 1 .. L + 1 /\ L \in Nat
      /\ main = [pc |-> main.pc, pos |-> main.pos]
  BY MyBasics DEF MyTypeOK
<1>3. result = "none" BY MyBasics DEF MyPlaced
<1>4. CASE ~err /\ err' = err /\ row' = MySQL!Committed(row, MySQL!Opened)
           /\ main' = [main EXCEPT !.pc = pc]
  <2>1. MySQL!Opened = OpenRows BY OpenOn
  <2>2. Settles /\ \A i \in MySQL!Rows : row'[i].at = IF i \in OpenRows THEN "in" ELSE row[i].at
    BY <1>4, <2>1, CommitSettles
  <2>3. OpenRows' = {} BY <2>2, MyBasics DEF OpenRows
  <2>4. pc \in MyPlaces /\ main'.pc = pc /\ main'.pos = main.pos
    BY <1>2, <1>4 DEF MyPlaces, GoingOn, RowPlaces, StmtPlaces, EndPlaces
  <2>5. MyPlaced'
    BY <1>3, <1>4, <2>4, MyBasics DEF MyPlaced, RowPlaces, StmtPlaces, EndPlaces
  <2> QED BY <1>1, <1>4, <2>2, <2>3, <2>4, <2>5, MovesKeep DEF GoingOn, RowPlaces, StmtPlaces,
      EndPlaces
<1>5. CASE /\ err' = TRUE /\ main' = [main EXCEPT !.pc = "fail"]
           /\ row' = row \/ \E S \in SUBSET OpenRows : row' = MySQL!Committed(row, S)
  <2>1. Settles BY <1>5, SomeCommitSettles
  <2>2. main'.pc = "fail" /\ main'.pos = main.pos BY <1>2, <1>5
  <2>3. MyPlaced'
    BY <1>3, <1>5, <2>2, MyBasics DEF MyPlaced, RowPlaces, StmtPlaces, EndPlaces
  <2> QED BY <1>5, <2>1, <2>3, MovesKeep
     DEF MyPlaces, GoingOn, RowPlaces, StmtPlaces, EndPlaces, CalmPlaces
<1> QED BY <1>4, <1>5

LEMMA FlushKeeps ==
  ASSUME MyInv, UNCHANGED <<dump, n, single, ctx, result, jobs, writer, err, session, done>>,
         NEW pc,
         \/ main.pc = "clear" /\ pc = "drop"
         \/ main.pc = "flush" /\ pc \in {"first", "queue"}
         \/ main.pc = "finish" /\ pc \in {"last", "end"},
         \/ row' = MySQL!Committed(row, MySQL!Open(0)) /\ main' = [main EXCEPT !.pc = pc]
         \/ row' = row /\ main' = [main EXCEPT !.pc = "fail"]
  PROVE  MyInv'
<1>1. /\ main.pc \in MyPlaces /\ main.pos \in 1 .. L + 1 /\ L \in Nat
      /\ main = [pc |-> main.pc, pos |-> main.pos]
  BY MyBasics DEF MyTypeOK
<1>2. result = "none" BY MyBasics DEF MyPlaced
<1>3. CASE row' = MySQL!Committed(row, MySQL!Open(0)) /\ main' = [main EXCEPT !.pc = pc]
  <2>1. /\ Settles
        /\ \A i \in MySQL!Rows : row'[i].at = IF i \in MySQL!Open(0) THEN "in" ELSE row[i].at
    BY <1>3, OpenOn, CommitSettles
  <2>2. pc \in MyPlaces /\ main'.pc = pc /\ main'.pos = main.pos
    BY <1>1, <1>3 DEF MyPlaces, GoingOn, RowPlaces, StmtPlaces, EndPlaces
  <2>3. MyPlaced'
    BY <1>2, <1>3, <2>2, MyBasics DEF MyPlaced, RowPlaces, StmtPlaces, EndPlaces
  <2>4. pc \in {"last", "rebuild", "end"} => \A i \in MySQL!Rows : row'[i].at = "in" \/ ctx
    <3> SUFFICES ASSUME main.pc = "finish", NEW i \in MySQL!Rows PROVE row'[i].at = "in" \/ ctx
      OBVIOUS
    <3>1. main.pos = L + 1 BY MyBasics DEF MyPlaced, EndPlaces
    <3>2. i \in 1 .. L BY MyBasics
    <3>3. i \in Past BY <1>1, <3>1, <3>2 DEF Past
    <3>4. (row[i].at # "out" \/ ctx) /\ (~single => i \notin OpenRows)
      BY <3>3, MyBasics DEF Calm, CalmPlaces
    <3>5. single => MySQL!Open(0) = OpenRows BY OpenOn
    <3>6. row[i].at \in {"out", "open", "in"} BY MyBasics DEF MyTypeOK, RowRecords
    <3> QED BY <2>1, <3>4, <3>5, <3>6 DEF OpenRows
  <2> QED BY <1>3, <2>1, <2>2, <2>3, <2>4, MovesKeep
     DEF GoingOn, RowPlaces, StmtPlaces, EndPlaces, CalmPlaces
<1>4. CASE row' = row /\ main' = [main EXCEPT !.pc = "fail"]
  <2>1. main'.pc = "fail" /\ main'.pos = main.pos BY <1>1, <1>4
  <2>2. MyPlaced'
    BY <1>2, <1>4, <2>1, MyBasics DEF MyPlaced, RowPlaces, StmtPlaces, EndPlaces
  <2>3. Settles BY <1>4, NoCommitSettles
  <2>4. "fail" \in MyPlaces /\ "fail" \notin GoingOn /\ "fail" \notin CalmPlaces
    BY DEF MyPlaces, GoingOn, RowPlaces, StmtPlaces, EndPlaces, CalmPlaces
  <2> QED BY <1>4, <2>2, <2>3, <2>4, MovesKeep
<1> QED BY <1>3, <1>4

LEMMA BarrierActionsKeep ==
  ASSUME MyInv,
         \/ MySQL!WaitForRows \/ MySQL!Clear \/ MySQL!First \/ MySQL!CloseWriters
         \/ MySQL!FlushOwn \/ MySQL!Finish
         \/ MySQL!Written /\ main'.pc = "fail"
  PROVE  MyInv'
<1> DEFINE Same == UNCHANGED <<dump, n, single, ctx, result, jobs, writer, session, done>>
           Through(pc) ==
             /\ MySQL!Pending = 0
             /\ \/ /\ ~err /\ err' = err /\ row' = MySQL!Committed(row, MySQL!Opened)
                   /\ main' = [main EXCEPT !.pc = pc]
                \/ /\ err' = TRUE /\ main' = [main EXCEPT !.pc = "fail"]
                   /\ row' = row \/ \E S \in SUBSET OpenRows : row' = MySQL!Committed(row, S)
           Flushed(pc) ==
             /\ err' = err
             /\ \/ row' = MySQL!Committed(row, MySQL!Open(0)) /\ main' = [main EXCEPT !.pc = pc]
                \/ row' = row /\ main' = [main EXCEPT !.pc = "fail"]
<1>1. main = [pc |-> main.pc, pos |-> main.pos] BY DEF MyInv, MyTypeOK
<1>2. \A S \in SUBSET MySQL!Writers : UNION {MySQL!Open(c) : c \in S} \in SUBSET OpenRows
  BY OpenOn
<1>3. err \in BOOLEAN /\ MyPlaced BY DEF MyInv, MyTypeOK
<1>4. ASSUME MySQL!WaitForRows PROVE MyInv'
  <2>1. Same /\ main.pc = "alone wait" /\ ~single
    BY <1>3, <1>4 DEF MySQL!WaitForRows, MySQL!At, MySQL!restore, MyPlaced
  <2>2. Through("exec")
    BY <1>2, <1>3, <1>4 DEF MySQL!WaitForRows, MySQL!Wait, MySQL!Barrier, MySQL!Goto
  <2> QED BY <2>1, <2>2, BarrierKeeps
<1>5. ASSUME MySQL!First PROVE MyInv'
  <2>1. Same /\ main.pc = "first" /\ ~single
    BY <1>3, <1>5 DEF MySQL!First, MySQL!At, MySQL!restore, MyPlaced
  <2>2. Through("queue") BY <1>2, <1>3, <1>5 DEF MySQL!First, MySQL!Barrier, MySQL!Goto
  <2> QED BY <2>1, <2>2, BarrierKeeps
<1>6. ASSUME MySQL!CloseWriters PROVE MyInv'
  <2>1. Same /\ main.pc = "close" /\ ~single
    BY <1>3, <1>6 DEF MySQL!CloseWriters, MySQL!At, MySQL!restore, MyPlaced
  <2>2. Through("stop") BY <1>2, <1>3, <1>6 DEF MySQL!CloseWriters, MySQL!Barrier, MySQL!Goto
  <2> QED BY <2>1, <2>2, BarrierKeeps
<1>7. ASSUME MySQL!Clear PROVE MyInv'
  <2>1. Same /\ main.pc = "clear" BY <1>7 DEF MySQL!Clear, MySQL!At, MySQL!restore
  <2>2. CASE single
    <3>1. Flushed("drop")
      BY <1>7, <2>2 DEF MySQL!Clear, MySQL!barrier, MySQL!Flush, MySQL!Goto
    <3> QED BY <2>1, <3>1, FlushKeeps
  <2>3. CASE ~single
    <3>1. Through("drop")
      BY <1>2, <1>3, <1>7, <2>3 DEF MySQL!Clear, MySQL!barrier, MySQL!Barrier, MySQL!Goto
    <3> QED BY <2>1, <2>3, <3>1, BarrierKeeps
  <2> QED BY <2>2, <2>3
<1>8. ASSUME MySQL!FlushOwn PROVE MyInv'
  <2>1. Same /\ main.pc = "flush"
    BY <1>8 DEF MySQL!FlushOwn, MySQL!At, MySQL!restore, MySQL!writers
  <2>2. Flushed("first") \/ Flushed("queue")
    BY <1>8 DEF MySQL!FlushOwn, MySQL!Flush, MySQL!Goto, MySQL!writers
  <2> QED BY <2>1, <2>2, FlushKeeps
<1>9. ASSUME MySQL!Finish PROVE MyInv'
  <2>1. Same /\ main.pc = "finish"
    BY <1>9 DEF MySQL!Finish, MySQL!At, MySQL!restore, MySQL!writers
  <2>2. Flushed("last") \/ Flushed("end")
    BY <1>9 DEF MySQL!Finish, MySQL!Flush, MySQL!Goto, MySQL!writers
  <2> QED BY <2>1, <2>2, FlushKeeps
<1>10. ASSUME MySQL!Written, main'.pc = "fail" PROVE MyInv'
  <2>1. Same /\ main.pc = "alone" /\ ~single
    BY <1>3, <1>10 DEF MySQL!Written, MySQL!At, MySQL!restore, MyPlaced
  <2>2. main' # [pc |-> "read", pos |-> main.pos + 1] BY <1>10
  <2>3. Through("fail")
    BY <1>2, <1>3, <1>10, <2>2 DEF MySQL!Written, MySQL!Barrier, MySQL!Goto, MySQL!NextStmt
  <2> QED BY <2>1, <2>3, BarrierKeeps
<1> QED BY <1>4, <1>5, <1>6, <1>7, <1>8, <1>9, <1>10

-----------------------------------------------------------------------------
(* What a writer does *)

WriterTakes(w) ==
  /\ jobs # <<>> /\ jobs' = Tail(jobs) /\ writer[w].job = 0
  /\ writer' = [writer EXCEPT ![w] = [pc |-> "has", job |-> Head(jobs)]]
  /\ row' = row /\ err' = err
\* It commits what it has open, or fails to, and rests; or it goes.
WriterRests(w) ==
  /\ writer[w].job = 0 /\ jobs' = jobs
  /\ \E pc \in {"idle", "gone"} : writer' = [writer EXCEPT ![w].pc = pc]
  /\ row' = row \/ (~err /\ row' = MySQL!Committed(row, MySQL!Open(w)))
  /\ err' = err \/ err' = TRUE
WriterBegins(w) ==
  /\ writer[w].pc = "has" /\ ~ctx /\ ~err
  /\ writer' = [writer EXCEPT ![w].pc = "runs"]
  /\ jobs' = jobs /\ row' = row /\ err' = err
WriterLoses(w) ==
  /\ writer[w].job # 0 /\ jobs' = jobs
  /\ writer' = [writer EXCEPT ![w] = [pc |-> "look", job |-> 0]]
  /\ row' = row /\ err' \in BOOLEAN /\ (err => err') /\ (ctx \/ err')
WriterWrites(w) ==
  /\ writer[w].job # 0 /\ jobs' = jobs
  /\ writer' = [writer EXCEPT ![w] = [pc |-> "look", job |-> 0]]
  /\ err' = err \/ err' = TRUE
  /\ LET r == [row EXCEPT ![writer[w].job] =
                 [at |-> "open", by |-> w, under |-> session[w]]]
     IN  row' = r \/ row' = MySQL!Committed(r, MySQL!Open(w) \cup {writer[w].job})

LEMMA WriterSteps ==
  ASSUME MyInv, NEW w \in MySQL!Writers, MySQL!Writer(w) \/ MySQL!WriteFails(w)
  PROVE  /\ ~single /\ UNCHANGED <<dump, n, single, ctx, main, result, session, done>>
         /\ \/ WriterTakes(w) \/ WriterRests(w) \/ WriterBegins(w)
            \/ WriterLoses(w) \/ WriterWrites(w)
<1>1. UNCHANGED <<dump, n, single, ctx, main, result, session, done>>
  BY DEF MySQL!Writer, MySQL!WriteFails, MySQL!Look, MySQL!Wake, MySQL!Begin, MySQL!Wrote,
         MySQL!Only, MySQL!restore
<1>2. /\ writer[w].pc \in {"look", "idle", "has", "runs"}
  BY DEF MySQL!Writer, MySQL!WriteFails, MySQL!Look, MySQL!Wake, MySQL!Begin, MySQL!Wrote
<1>3. ~single BY <1>2 DEF MyInv, MyPlaced
<1>4. writer[w].job # 0 <=> writer[w].pc \in {"has", "runs"} BY DEF MyInv, MyPlaced
<1>5. err \in BOOLEAN /\ ctx \in BOOLEAN BY DEF MyInv, MyTypeOK
<1>6. CASE MySQL!Look(w)
  <2>1. writer[w].job = 0 BY <1>4, <1>6 DEF MySQL!Look
  <2>2. CASE MySQL!Take(w) /\ UNCHANGED <<err, row>>
    BY <1>1, <1>3, <2>1, <2>2 DEF MySQL!Take, WriterTakes
  <2>3. CASE MySQL!CommitIdle(w) /\ jobs' = jobs
    BY <1>1, <1>3, <2>1, <2>3 DEF MySQL!CommitIdle, WriterRests
  <2>4. CASE writer' = [writer EXCEPT ![w].pc = "gone"] /\ UNCHANGED <<jobs, err, row>>
    BY <1>1, <1>3, <2>1, <2>4 DEF WriterRests
  <2> QED BY <1>1, <1>3, <1>6, <2>2, <2>3, <2>4 DEF MySQL!Look
<1>7. CASE MySQL!Wake(w)
  <2>1. writer[w].job = 0 BY <1>4, <1>7 DEF MySQL!Wake
  <2> QED BY <1>1, <1>3, <1>7, <2>1 DEF MySQL!Wake, MySQL!Take, WriterTakes, WriterRests
<1>8. CASE MySQL!Begin(w)
  <2>1. writer[w].pc = "has" /\ writer[w].job # 0 BY <1>4, <1>8 DEF MySQL!Begin
  <2>2. CASE ctx \/ err
    BY <1>1, <1>3, <1>5, <1>8, <2>1, <2>2
       DEF MySQL!Begin, MySQL!wctx, MySQL!Drains, MySQL!Released, WriterLoses
  <2>3. CASE ~ctx /\ ~err
    BY <1>1, <1>3, <1>8, <2>1, <2>3 DEF MySQL!Begin, MySQL!wctx, WriterBegins
  <2> QED BY <2>2, <2>3
<1>9. CASE MySQL!Wrote(w)
  <2>1. writer[w].job # 0 BY <1>4, <1>9 DEF MySQL!Wrote
  <2> QED BY <1>1, <1>3, <1>9, <2>1 DEF MySQL!Wrote, MySQL!Released, WriterWrites
<1>10. CASE MySQL!WriteFails(w)
  <2>1. writer[w].job # 0 BY <1>4, <1>10 DEF MySQL!WriteFails
  <2>2. err' = (err \/ ~(ctx \/ err)) BY <1>10 DEF MySQL!WriteFails, MySQL!wctx
  <2>3. err' \in BOOLEAN /\ (err => err') /\ (ctx \/ err') BY <1>5, <2>2
  <2> QED BY <1>1, <1>3, <1>10, <2>1, <2>3 DEF MySQL!WriteFails, MySQL!Released, WriterLoses
<1> QED BY <1>6, <1>7, <1>8, <1>9, <1>10 DEF MySQL!Writer

\* The row a writer has just written, and the others.
LEMMA WriterRow ==
  ASSUME MyInv, NEW w \in MySQL!Writers, WriterWrites(w), n' = n, dump' = dump
  PROVE  /\ row' \in [MySQL!Rows -> RowRecords]
         /\ writer[w].job \in MySQL!Rows
         /\ row'[writer[w].job].at \in {"open", "in"} /\ row'[writer[w].job].by = w
         /\ row'[writer[w].job].under = session[w]
         /\ \A i \in MySQL!Rows : i # writer[w].job =>
              row'[i].by = row[i].by /\ row'[i].under = row[i].under
              /\ (row'[i].at = row[i].at \/ (row[i].at = "open" /\ row'[i].at = "in"))
<1> DEFINE job == writer[w].job
           new == [at |-> "open", by |-> w, under |-> session[w]]
           r == [row EXCEPT ![job] = new]
<1>1. /\ row \in [MySQL!Rows -> RowRecords] /\ session \in [0 .. n -> Settings]
      /\ writer \in [MySQL!Writers -> [pc : {"look", "has", "runs", "idle", "gone"},
                                       job : MySQL!Rows \cup {0}]]
  BY MyBasics DEF MyTypeOK
<1>2. job \in MySQL!Rows BY <1>1 DEF WriterWrites
<1>3. w \in 0 .. n /\ w # 0
  <2>1. n \in Nat /\ w \in 1 .. n BY MyBasics DEF MySQL!Writers
  <2> QED BY <2>1
<1>4. session[w] \in Settings BY <1>1, <1>3
<1>5. new \in RowRecords BY <1>3, <1>4 DEF RowRecords
<1>6. /\ r \in [MySQL!Rows -> RowRecords] /\ r[job] = new
      /\ \A i \in MySQL!Rows : i # job => r[i] = row[i]
  BY <1>1, <1>2, <1>5
<1>7. CASE row' = r BY <1>2, <1>6, <1>7
<1>8. CASE row' = MySQL!Committed(r, MySQL!Open(w) \cup {job})
  <2> HIDE DEF r
  <2>1. /\ row' \in [MySQL!Rows -> RowRecords]
        /\ \A i \in MySQL!Rows : /\ row'[i].by = r[i].by /\ row'[i].under = r[i].under
             /\ row'[i].at = IF i \in MySQL!Open(w) \cup {job} THEN "in" ELSE r[i].at
    BY <1>6, <1>8, Committing
  <2>2. \A i \in MySQL!Open(w) : row[i].at = "open" BY DEF MySQL!Open
  <2> QED BY <1>2, <1>6, <2>1, <2>2
<1> QED BY <1>7, <1>8 DEF WriterWrites

LEMMA WriterJobs ==
  ASSUME MyInv, NEW w \in MySQL!Writers, n' = n, dump' = dump,
         WriterTakes(w) \/ WriterRests(w) \/ WriterBegins(w) \/ WriterLoses(w)
           \/ WriterWrites(w)
  PROVE  /\ jobs' \in Seq(MySQL!Rows)
         /\ writer' \in [MySQL!Writers -> [pc : {"look", "has", "runs", "idle", "gone"},
                                           job : MySQL!Rows \cup {0}]]
         /\ \A v \in MySQL!Writers : writer'[v].job # 0 <=> writer'[v].pc \in {"has", "runs"}
         /\ Jobs' \subseteq Jobs
         /\ \A i \in Jobs : i \in Jobs' \/ (i = writer[w].job /\ (WriterLoses(w) \/ WriterWrites(w)))
<1> DEFINE Rec == [pc : {"look", "has", "runs", "idle", "gone"}, job : MySQL!Rows \cup {0}]
<1>1. /\ jobs \in Seq(MySQL!Rows) /\ writer \in [MySQL!Writers -> Rec]
      /\ 0 \notin MySQL!Rows /\ MySQL!Rows' = MySQL!Rows /\ MySQL!Writers' = MySQL!Writers
      /\ \A v \in MySQL!Writers : writer[v].job # 0 <=> writer[v].pc \in {"has", "runs"}
  BY MyBasics DEF MyTypeOK, MyPlaced
<1>2. \A i : i \in Jobs <=> i \in MySQL!Rows /\ (i \in Elements(jobs)
                                 \/ \E v \in MySQL!Writers : writer[v].job = i)
  BY DEF Jobs
<1>3. \A i : i \in Jobs' <=> i \in MySQL!Rows /\ (i \in Elements(jobs)'
                                 \/ \E v \in MySQL!Writers : writer'[v].job = i)
  BY <1>1 DEF Jobs
<1>4. CASE WriterTakes(w)
  <2>1. /\ Elements(jobs) = {jobs[1]} \cup Elements(Tail(jobs)) /\ jobs[1] \in MySQL!Rows
        /\ Tail(jobs) \in Seq(MySQL!Rows) /\ Head(jobs) = jobs[1]
    BY <1>1, <1>4, ElementsOfTail DEF WriterTakes
  <2>2. Elements(jobs)' = Elements(Tail(jobs)) BY <1>4 DEF WriterTakes, Elements
  <2>3. [pc |-> "has", job |-> Head(jobs)] \in Rec BY <2>1
  <2>4. /\ writer' \in [MySQL!Writers -> Rec]
        /\ writer'[w].pc = "has" /\ writer'[w].job = jobs[1] /\ writer[w].job = 0
        /\ \A v \in MySQL!Writers : v # w => writer'[v] = writer[v]
    BY <1>1, <1>4, <2>1, <2>3 DEF WriterTakes
  <2>5. \A v \in MySQL!Writers : writer'[v].job # 0 <=> writer'[v].pc \in {"has", "runs"}
    BY <1>1, <2>1, <2>4
  <2>6. \A i \in MySQL!Rows : (\E v \in MySQL!Writers : writer'[v].job = i)
                               <=> i = jobs[1] \/ \E v \in MySQL!Writers : writer[v].job = i
    BY <1>1, <2>4
  <2>7. Jobs' = Jobs BY <1>2, <1>3, <2>1, <2>2, <2>6
  <2> QED BY <1>4, <2>1, <2>4, <2>5, <2>7 DEF WriterTakes
<1>5. CASE WriterRests(w) \/ WriterBegins(w)
  <2>1. PICK pc \in {"idle", "gone", "runs"} :
          /\ writer' = [writer EXCEPT ![w].pc = pc]
          /\ IF pc = "runs" THEN writer[w].pc = "has" ELSE writer[w].job = 0
    BY <1>5 DEF WriterRests, WriterBegins
  <2>2. jobs' = jobs BY <1>5 DEF WriterRests, WriterBegins
  <2>3. writer[w] \in Rec BY <1>1
  <2>4. [writer[w] EXCEPT !.pc = pc] \in Rec BY <2>3
  <2>5. /\ writer' \in [MySQL!Writers -> Rec]
        /\ writer'[w].pc = pc /\ writer'[w].job = writer[w].job
        /\ \A v \in MySQL!Writers : v # w => writer'[v] = writer[v]
    BY <1>1, <2>1, <2>3, <2>4
  <2>6. \A v \in MySQL!Writers : writer'[v].job # 0 <=> writer'[v].pc \in {"has", "runs"}
    BY <1>1, <2>1, <2>5
  <2>7. Jobs' = Jobs
    <3>1. \A v \in MySQL!Writers : writer'[v].job = writer[v].job BY <2>5
    <3>2. Elements(jobs)' = Elements(jobs) BY <2>2 DEF Elements
    <3> QED BY <1>2, <1>3, <3>1, <3>2
  <2> QED BY <1>1, <2>2, <2>5, <2>6, <2>7
<1>6. CASE WriterLoses(w) \/ WriterWrites(w)
  <2>1. /\ writer' = [writer EXCEPT ![w] = [pc |-> "look", job |-> 0]] /\ jobs' = jobs
    BY <1>6 DEF WriterLoses, WriterWrites
  <2>2. [pc |-> "look", job |-> 0] \in Rec OBVIOUS
  <2>3. /\ writer' \in [MySQL!Writers -> Rec]
        /\ writer'[w].pc = "look" /\ writer'[w].job = 0
        /\ \A v \in MySQL!Writers : v # w => writer'[v] = writer[v]
    BY <1>1, <2>1, <2>2
  <2>4. \A v \in MySQL!Writers : writer'[v].job # 0 <=> writer'[v].pc \in {"has", "runs"}
    BY <1>1, <2>3
  <2>5. Elements(jobs)' = Elements(jobs) BY <2>1 DEF Elements
  <2>6. Jobs' \subseteq Jobs
    <3>1. \A i \in MySQL!Rows : (\E v \in MySQL!Writers : writer'[v].job = i)
                                 => \E v \in MySQL!Writers : writer[v].job = i
      BY <1>1, <2>3
    <3> QED BY <1>2, <1>3, <2>5, <3>1
  <2>7. \A i \in Jobs : i \in Jobs' \/ i = writer[w].job BY <1>2, <1>3, <2>3, <2>5
  <2> QED BY <1>1, <1>6, <2>1, <2>3, <2>4, <2>6, <2>7
<1> QED BY <1>4, <1>5, <1>6

LEMMA WriterKeeps ==
  ASSUME MyInv, NEW w \in MySQL!Writers, MySQL!Writer(w) \/ MySQL!WriteFails(w)
  PROVE  MyInv'
<1>1. /\ ~single /\ UNCHANGED <<dump, n, single, ctx, main, result, session, done>>
      /\ \/ WriterTakes(w) \/ WriterRests(w) \/ WriterBegins(w)
         \/ WriterLoses(w) \/ WriterWrites(w)
  BY WriterSteps
<1>2. /\ jobs' \in Seq(MySQL!Rows)
      /\ writer' \in [MySQL!Writers -> [pc : {"look", "has", "runs", "idle", "gone"},
                                        job : MySQL!Rows \cup {0}]]
      /\ \A v \in MySQL!Writers : writer'[v].job # 0 <=> writer'[v].pc \in {"has", "runs"}
      /\ Jobs' \subseteq Jobs
      /\ \A i \in Jobs : i \in Jobs' \/ (i = writer[w].job /\ (WriterLoses(w) \/ WriterWrites(w)))
  BY <1>1, WriterJobs
<1>3. err' \in BOOLEAN /\ (err => err')
  <2>1. err \in BOOLEAN BY DEF MyInv, MyTypeOK
  <2>2. err' = err \/ err' = TRUE \/ (err' \in BOOLEAN /\ (err => err'))
    BY <1>1 DEF WriterTakes, WriterRests, WriterBegins, WriterLoses, WriterWrites
  <2> QED BY <2>1, <2>2
<1>4. w \in 0 .. n /\ w # 0
  <2>1. n \in Nat /\ w \in 1 .. n BY <1>1, MyBasics DEF MySQL!Writers
  <2> QED BY <2>1
<1>5. /\ row' \in [MySQL!Rows -> RowRecords]
      /\ \A i \in MySQL!Rows : row[i].at # "out" => row'[i].at # "out"
      /\ \A i \in MySQL!Rows : row[i].at = "in" => row'[i].at = "in" \/ WriterWrites(w)
      /\ \A i \in OpenRows' : row'[i].by # 0
  <2>1. \A i \in OpenRows : row[i].by # 0 BY <1>1, MyBasics DEF RowsKept
  <2>2. CASE WriterWrites(w)
    <3>1. /\ row' \in [MySQL!Rows -> RowRecords] /\ writer[w].job \in MySQL!Rows
          /\ row'[writer[w].job].at \in {"open", "in"} /\ row'[writer[w].job].by = w
          /\ \A i \in MySQL!Rows : i # writer[w].job =>
               row'[i].by = row[i].by
               /\ (row'[i].at = row[i].at \/ (row[i].at = "open" /\ row'[i].at = "in"))
      BY <1>1, <2>2, WriterRow
    <3> QED BY <1>1, <1>4, <2>1, <2>2, <3>1, MyBasics DEF OpenRows
  <2>3. CASE row' = row \/ row' = MySQL!Committed(row, MySQL!Open(w))
    <3>1. Settles BY <2>3, OpenOn, CommitSettles, NoCommitSettles
    <3> QED BY <1>1, <2>1, <3>1, MyBasics DEF Settles, OpenRows
  <2> QED BY <1>1, <2>2, <2>3 DEF WriterTakes, WriterRests, WriterBegins, WriterLoses
<1>6. MyTypeOK' BY <1>1, <1>2, <1>3, <1>5, MyBasics DEF MyTypeOK
<1>7. MyPlaced' BY <1>1, <1>2, MyBasics DEF MyPlaced
<1>8. Past' = Past BY <1>1, MyBasics DEF Past
<1>9. WriterLoses(w) \/ WriterWrites(w) => writer[w].job \in Jobs
  <2>1. WriterLoses(w) \/ WriterWrites(w) => writer[w].job \in MySQL!Rows
    BY <1>1, MyBasics DEF MyTypeOK, WriterLoses, WriterWrites
  <2> QED BY <2>1 DEF Jobs
<1>10. RowsKept'
  <2>1. \A i \in Past : row[i].at # "out" \/ i \in Jobs \/ ctx \/ err
          => row'[i].at # "out" \/ i \in Jobs' \/ ctx \/ err'
    <3> SUFFICES ASSUME NEW i \in Past, i \in Jobs, i \notin Jobs'
                 PROVE  row'[i].at # "out" \/ ctx \/ err'
      BY <1>3, <1>5 DEF Past
    <3>1. i = writer[w].job /\ (WriterLoses(w) \/ WriterWrites(w)) BY <1>2
    <3>2. CASE WriterLoses(w) BY <3>2 DEF WriterLoses
    <3>3. CASE WriterWrites(w)
      <4>1. row'[i].at \in {"open", "in"} BY <1>1, <3>1, <3>3, WriterRow
      <4> QED BY <4>1
    <3> QED BY <3>1, <3>2, <3>3
  <2>2. ASSUME main.pc \in {"last", "rebuild", "end"} \/ result = "nil",
               NEW i \in MySQL!Rows, row[i].at = "in"
        PROVE  row'[i].at = "in"
    <3>1. CASE WriterWrites(w) /\ i = writer[w].job
      <4>1. i \in Jobs BY <1>9, <3>1
      <4> QED BY <1>1, <2>2, <4>1, MyBasics DEF Calm, CalmPlaces
    <3> QED BY <1>1, <1>5, <2>2, <3>1, WriterRow
  <2> QED BY <1>1, <1>5, <1>8, <2>1, <2>2, MyBasics DEF RowsKept
<1>11. Calm'
  <2>1. ASSUME main.pc \in CalmPlaces
        PROVE  ~WriterWrites(w) /\ (\A i \in OpenRows' : i \in OpenRows)
    <3>1. Jobs = {} BY <1>1, <2>1, MyBasics DEF Calm
    <3>2. ~WriterWrites(w) /\ ~WriterLoses(w) BY <1>9, <3>1
    <3>3. row' = row \/ row' = MySQL!Committed(row, MySQL!Open(w))
      BY <1>1, <3>2 DEF WriterTakes, WriterRests, WriterBegins
    <3>4. Settles BY <3>3, OpenOn, CommitSettles, NoCommitSettles
    <3> QED BY <1>1, <3>2, <3>4, MyBasics DEF Settles, OpenRows
  <2>2. main.pc \in CalmPlaces => \A i \in Past : row'[i].at # "out" \/ ctx
    BY <1>1, <1>5, MyBasics DEF Calm, Past
  <2> QED BY <1>1, <1>2, <1>8, <2>1, <2>2, MyBasics DEF Calm
<1>12. UnderWay' BY <1>1, <1>2, MyBasics DEF UnderWay
<1> QED BY <1>6, <1>7, <1>10, <1>11, <1>12 DEF MyInv

-----------------------------------------------------------------------------
(* The reader goes on to the next statement *)

LEMMA AdvanceKeeps ==
  ASSUME MyInv, UNCHANGED <<dump, n, single, ctx, result, writer, err>>,
         main.pc \in GoingOn, main.pos \in DOMAIN dump,
         main' = [pc |-> "read", pos |-> main.pos + 1],
         jobs' \in Seq(MySQL!Rows), single => jobs' = <<>>,
         row' \in [MySQL!Rows -> RowRecords], session' \in [0 .. n -> Settings],
         done' \subseteq MySQL!Own,
         \A i \in MySQL!Rows : row'[i].at = "open" => (row'[i].by = 0 <=> single),
         \A i \in MySQL!Rows : i <= main.pos => row'[i].at # "out" \/ i \in Jobs' \/ ctx \/ err,
         session'[0] = MySQL!SessionAt(main.pos + 1),
         ~single => \A w \in MySQL!Writers : session'[w] = MySQL!SessionAt(main.pos + 1),
         \A i \in Jobs', w \in MySQL!Writers : session'[w] = MySQL!SessionAt(i),
         \A i \in Jobs', j \in MySQL!Own : j < i => j \in done',
         \A j \in MySQL!Own : j <= main.pos => j \in done'
  PROVE  MyInv'
<1>1. main.pos \in 1 .. L /\ main.pos \in Nat /\ L \in Nat BY MyBasics
<1>2. main.pos + 1 \in 1 .. L + 1 BY <1>1
<1>3. main' \in [pc : MyPlaces, pos : 1 .. L + 1] /\ main'.pc = "read" /\ main'.pos = main.pos + 1
  BY <1>2 DEF MyPlaces, GoingOn
<1>4. main.pc # "returned" BY DEF GoingOn, RowPlaces, StmtPlaces, EndPlaces
<1>5. result = "none" /\ result' = "none" BY <1>4, MyBasics DEF MyPlaced
<1>6. MyTypeOK' BY <1>3, MyBasics DEF MyTypeOK
<1>7. MyPlaced' BY <1>3, <1>5, MyBasics DEF MyPlaced, RowPlaces, StmtPlaces, EndPlaces
<1>8. \A i \in Past' : i \in MySQL!Rows /\ i <= main.pos
  <2>1. \A i \in MySQL!Rows : i < main.pos + 1 => i <= main.pos BY <1>1, MyBasics
  <2> QED BY <1>3, <2>1, MyBasics DEF Past
<1>9. RowsKept' BY <1>3, <1>5, <1>8, MyBasics DEF RowsKept, OpenRows
<1>10. Calm' BY <1>3, <1>5 DEF Calm, CalmPlaces
<1>11. UnderWay'
  <2>1. \A j \in MySQL!Own : j < main.pos + 1 => j <= main.pos BY <1>1, MyBasics
  <2> QED BY <1>3, <1>5, <2>1, MyBasics DEF UnderWay
<1> QED BY <1>6, <1>7, <1>9, <1>10, <1>11 DEF MyInv

\* Where the reader stands when it is about to go on.
LEMMA BeforeAdvance ==
  ASSUME MyInv, dump' = dump, n' = n, main.pc \in GoingOn, main.pos \in DOMAIN dump
  PROVE  /\ main.pos \in Nat /\ \A i \in MySQL!Rows \cup MySQL!Own : i \in Nat
         /\ \A i \in MySQL!Rows \cup MySQL!Own : i <= main.pos => i < main.pos \/ i = main.pos
         /\ \A i \in MySQL!Rows : i < main.pos => row[i].at # "out" \/ i \in Jobs \/ ctx \/ err
         /\ \A i \in MySQL!Rows : row[i].at = "open" => (row[i].by = 0 <=> single)
         /\ \A j \in MySQL!Own : j < main.pos => j \in done
         /\ \A i \in Jobs, w \in MySQL!Writers : session[w] = MySQL!SessionAt(i)
         /\ \A i \in Jobs, j \in MySQL!Own : j < i => j \in done
         /\ MySQL!SessionAt(main.pos + 1) = IF dump[main.pos].kind = "session"
              THEN dump[main.pos].sets ELSE MySQL!SessionAt(main.pos)
         /\ ~single => \A w \in MySQL!Writers : session[w] = MySQL!SessionAt(main.pos)
         /\ main.pc # "session" => session[0] = MySQL!SessionAt(main.pos)
<1>1. /\ main.pos \in Nat /\ \A i \in MySQL!Rows \cup MySQL!Own : i \in Nat BY MyBasics
<1>2. \A i \in MySQL!Rows \cup MySQL!Own : i <= main.pos => i < main.pos \/ i = main.pos
  BY <1>1
<1>3. \A i \in MySQL!Rows : i < main.pos => i \in Past BY DEF Past
<1>4. \A i \in MySQL!Rows : i < main.pos => row[i].at # "out" \/ i \in Jobs \/ ctx \/ err
  BY <1>3, MyBasics DEF RowsKept
<1>5. \A i \in MySQL!Rows : row[i].at = "open" => (row[i].by = 0 <=> single)
  BY MyBasics DEF RowsKept, OpenRows
<1>6. MySQL!SessionAt(main.pos + 1) = IF dump[main.pos].kind = "session"
              THEN dump[main.pos].sets ELSE MySQL!SessionAt(main.pos)
  BY MySessionNext, MyBasics
<1> QED BY <1>1, <1>2, <1>4, <1>5, <1>6, MyBasics DEF UnderWay

\* Another statement but INSERTs and session settings is passed by.
LEMMA PassKeeps ==
  ASSUME MyInv, UNCHANGED <<dump, n, single, ctx, result, writer, err, session>>,
         main.pc \in GoingOn \ {"session"}, main.pos \in DOMAIN dump,
         main' = [pc |-> "read", pos |-> main.pos + 1],
         dump[main.pos].kind # "session", jobs' \in Seq(MySQL!Rows), single => jobs' = <<>>,
         row' \in [MySQL!Rows -> RowRecords], done \subseteq done', done' \subseteq MySQL!Own,
         \A i \in MySQL!Rows : row'[i].at = "open" => (row'[i].by = 0 <=> single),
         \A i \in MySQL!Rows : i # main.pos /\ row[i].at # "out" => row'[i].at # "out",
         \A i \in Jobs : i \in Jobs', \A i \in Jobs' : i \in Jobs \/ i = main.pos,
         main.pos \in MySQL!Rows => row'[main.pos].at # "out" \/ main.pos \in Jobs' \/ ctx \/ err,
         main.pos \in Jobs' => ~single,
         main.pos \in MySQL!Own => main.pos \in done'
  PROVE  MyInv'
<1>1. /\ session'[0] = MySQL!SessionAt(main.pos + 1)
      /\ ~single => \A w \in MySQL!Writers : session'[w] = MySQL!SessionAt(main.pos + 1)
  BY BeforeAdvance
<1>2. \A i \in MySQL!Rows : i <= main.pos => row'[i].at # "out" \/ i \in Jobs' \/ ctx \/ err
  BY BeforeAdvance
<1>3. \A i \in Jobs', w \in MySQL!Writers : session'[w] = MySQL!SessionAt(i)
  BY BeforeAdvance
<1>4. /\ \A i \in Jobs', j \in MySQL!Own : j < i => j \in done'
      /\ \A j \in MySQL!Own : j <= main.pos => j \in done'
  BY BeforeAdvance
<1>5. session' \in [0 .. n -> Settings] BY MyBasics DEF MyTypeOK
<1> QED BY <1>1, <1>2, <1>3, <1>4, <1>5, AdvanceKeeps

LEMMA ReadPassKeeps == ASSUME MyInv, MySQL!Read, main'.pos # main.pos PROVE MyInv'
<1>1. /\ main.pc = "read"
      /\ UNCHANGED <<dump, n, single, ctx, result, jobs, writer, err, session, done, row>>
  BY DEF MySQL!Read, MySQL!At, MySQL!restore, MySQL!writers, MySQL!server
<1>2. main \in [pc : MyPlaces, pos : 1 .. L + 1] BY <1>1, MyBasics DEF MyTypeOK
<1>3. ASSUME NEW pc PROVE main' # [main EXCEPT !.pc = pc] BY <1>2
<1>4. /\ ~(main.pos > Len(dump)) /\ dump[main.pos].kind = "lock" /\ ~single
      /\ main' = [pc |-> "read", pos |-> main.pos + 1]
  BY <1>3 DEF MySQL!Read, MySQL!Goto, MySQL!NextStmt, MySQL!Stmt
<1>5. main.pos \in DOMAIN dump
  <2>1. L \in Nat /\ main.pos \in 1 .. L + 1 /\ DOMAIN dump = 1 .. L BY <1>1, MyBasics
  <2>2. ~(main.pos > L) BY <1>4 DEF L
  <2> QED BY <2>1, <2>2
<1>6. main.pos \notin MySQL!Rows /\ main.pos \notin MySQL!Own
  BY <1>4 DEF MySQL!Rows, MySQL!Own, MySQL!IsRows
<1>7. Jobs' = Jobs BY <1>1, MyBasics DEF Jobs
<1>8. \A i \in MySQL!Rows : row[i].at = "open" => (row[i].by = 0 <=> single)
  BY <1>1, MyBasics DEF RowsKept, OpenRows
<1>9. /\ jobs' \in Seq(MySQL!Rows) /\ row' \in [MySQL!Rows -> RowRecords]
      /\ done' \subseteq MySQL!Own
  BY <1>1, MyBasics DEF MyTypeOK
<1>10. main.pos \notin Jobs' BY <1>6, <1>7 DEF Jobs
<1> QED BY <1>1, <1>4, <1>5, <1>6, <1>7, <1>8, <1>9, <1>10, PassKeeps DEF GoingOn

LEMMA QueueKeeps == ASSUME MyInv, MySQL!Queue PROVE MyInv'
<1>1. /\ main.pc = "queue"
      /\ UNCHANGED <<dump, n, single, ctx, result, writer, err, session, done, row>>
      /\ \/ /\ ~err /\ jobs' = Append(jobs, main.pos)
            /\ \/ main' = [main EXCEPT !.pc = "alone"]
               \/ main' = [pc |-> "read", pos |-> main.pos + 1]
         \/ main' = [main EXCEPT !.pc = "fail"] /\ jobs' = jobs
  BY DEF MySQL!Queue, MySQL!At, MySQL!restore, MySQL!server, MySQL!Goto, MySQL!NextStmt
<1> HIDE DEF MySQL!Queue
<1>2. /\ main.pos \in DOMAIN dump /\ main.pos \in MySQL!Rows /\ ~single
      /\ main.pc \in GoingOn \ {"session"} /\ main.pos \in MySQL!Rows
  BY <1>1, MyBasics DEF MyPlaced, RowPlaces, GoingOn, MySQL!Rows
<1>3. jobs \in Seq(MySQL!Rows) BY <1>1, MyBasics DEF MyTypeOK
<1>4. dump[main.pos].kind = "rows" /\ main.pos \notin MySQL!Own
  BY <1>2 DEF MySQL!Rows, MySQL!IsRows, MySQL!Own
<1>5. ASSUME jobs' = Append(jobs, main.pos)
      PROVE  jobs' \in Seq(MySQL!Rows) /\ Jobs' = Jobs \cup {main.pos}
  <2>1. jobs' \in Seq(MySQL!Rows) BY <1>2, <1>3, <1>5
  <2>2. Elements(jobs') = Elements(jobs) \cup {main.pos}
    BY <1>2, <1>3, <1>5, ElementsOfAppend
  <2>3. Elements(jobs)' = Elements(jobs') BY DEF Elements
  <2> QED BY <1>1, <1>2, <2>1, <2>2, <2>3, MyBasics DEF Jobs
<1>6. \A i \in MySQL!Rows : row[i].at = "open" => (row[i].by = 0 <=> single)
  BY <1>1, MyBasics DEF RowsKept, OpenRows
<1>7. CASE jobs' = Append(jobs, main.pos) /\ main' = [pc |-> "read", pos |-> main.pos + 1]
  <2>1. row' \in [MySQL!Rows -> RowRecords] /\ done' \subseteq MySQL!Own
    BY <1>1, MyBasics DEF MyTypeOK
  <2> QED BY <1>1, <1>2, <1>4, <1>5, <1>6, <1>7, <2>1, PassKeeps
<1>8. CASE jobs' = Append(jobs, main.pos) /\ main' = [main EXCEPT !.pc = "alone"]
  <2>1. /\ main'.pc = "alone" /\ main'.pos = main.pos
        /\ main' \in [pc : MyPlaces, pos : 1 .. L + 1]
    BY <1>1, <1>8, MyBasics DEF MyTypeOK, MyPlaces, GoingOn, RowPlaces
  <2>2. MyTypeOK' BY <1>1, <1>5, <1>8, <2>1, MyBasics DEF MyTypeOK
  <2>3. MyPlaced'
    BY <1>1, <1>2, <2>1, MyBasics DEF MyPlaced, RowPlaces, StmtPlaces, EndPlaces
  <2>4. result' # "nil" BY <1>1, MyBasics DEF MyPlaced
  <2>5. Past' = Past \cup {main.pos} BY <1>1, <1>2, <2>1, MyBasics DEF Past
  <2>6. RowsKept'
    <3>1. \A i \in Past : row[i].at # "out" \/ i \in Jobs \/ ctx \/ err
      BY <1>1, <1>2, MyBasics DEF RowsKept
    <3> QED BY <1>1, <1>5, <1>6, <1>8, <2>1, <2>4, <2>5, <3>1, MyBasics DEF RowsKept, OpenRows
  <2>7. Calm' BY <2>1, <2>4 DEF Calm, CalmPlaces
  <2>8. UnderWay'
    <3>1. /\ session[0] = MySQL!SessionAt(main.pos)
          /\ \A w \in MySQL!Writers : session[w] = MySQL!SessionAt(main.pos)
          /\ \A j \in MySQL!Own : j < main.pos => j \in done
      BY <1>1, <1>2, MyBasics DEF UnderWay
    <3>2. /\ \A i \in Jobs, w \in MySQL!Writers : session[w] = MySQL!SessionAt(i)
          /\ \A i \in Jobs, j \in MySQL!Own : j < i => j \in done
      BY <1>1, MyBasics DEF UnderWay
    <3> QED BY <1>1, <1>5, <1>8, <2>1, <3>1, <3>2, MyBasics DEF UnderWay
  <2> QED BY <2>2, <2>3, <2>6, <2>7, <2>8 DEF MyInv
<1>9. CASE main' = [main EXCEPT !.pc = "fail"] /\ jobs' = jobs
  <2>1. main'.pc = "fail" /\ main'.pos = main.pos BY <1>1, <1>9, MyBasics DEF MyTypeOK
  <2>2. MyPlaced'
    BY <1>1, <1>9, <2>1, MyBasics DEF MyPlaced, RowPlaces, StmtPlaces, EndPlaces
  <2>3. Settles BY <1>1, NoCommitSettles
  <2>4. "fail" \in MyPlaces /\ "fail" \notin GoingOn /\ "fail" \notin CalmPlaces
    BY DEF MyPlaces, GoingOn, RowPlaces, StmtPlaces, EndPlaces, CalmPlaces
  <2> QED BY <1>1, <1>9, <2>2, <2>3, <2>4, MovesKeep
<1> QED BY <1>1, <1>7, <1>8, <1>9

LEMMA WrittenKeeps == ASSUME MyInv, MySQL!Written, main'.pc # "fail" PROVE MyInv'
<1>1. /\ main.pc = "alone"
      /\ UNCHANGED <<dump, n, single, ctx, result, jobs, writer, session, done>>
  BY DEF MySQL!Written, MySQL!At, MySQL!restore
<1>2. main \in [pc : MyPlaces, pos : 1 .. L + 1] BY <1>1, MyBasics DEF MyTypeOK
<1>3. main' # [main EXCEPT !.pc = "fail"] BY <1>2
<1>4. /\ MySQL!Pending = 0 /\ ~err /\ row' = MySQL!Committed(row, MySQL!Opened) /\ err' = err
      /\ main' = [pc |-> "read", pos |-> main.pos + 1]
  BY <1>3 DEF MySQL!Written, MySQL!Barrier, MySQL!Goto, MySQL!NextStmt
<1>5. Jobs = {} BY <1>4, NothingPending
<1>6. Settles BY <1>4, OpenOn, CommitSettles
<1>7. Jobs' = Jobs BY <1>1, MyBasics DEF Jobs
<1>8. /\ main.pos \in DOMAIN dump /\ main.pos \in MySQL!Rows /\ ~single
      /\ main.pc \in GoingOn \ {"session"} /\ main.pos \in Past
  BY <1>1, MyBasics DEF MyPlaced, RowPlaces, GoingOn, MySQL!Rows, Past
<1>9. row[main.pos].at # "out" \/ ctx BY <1>1, <1>4, <1>5, <1>8, MyBasics DEF RowsKept
<1>10. \A i \in MySQL!Rows : /\ row[i].at # "out" => row'[i].at # "out"
                             /\ row'[i].at = "open" => (row'[i].by = 0 <=> single)
  BY <1>1, <1>6, MyBasics DEF Settles, RowsKept, OpenRows
<1>11. dump[main.pos].kind = "rows" /\ main.pos \notin MySQL!Own
  BY <1>8 DEF MySQL!Rows, MySQL!IsRows, MySQL!Own
<1>12. jobs' \in Seq(MySQL!Rows) /\ done' \subseteq MySQL!Own /\ row' \in [MySQL!Rows -> RowRecords]
  BY <1>1, <1>6, MyBasics DEF MyTypeOK, Settles
<1> QED
  BY <1>1, <1>4, <1>5, <1>7, <1>8, <1>9, <1>10, <1>11, <1>12, PassKeeps

LEMMA MyExecKeeps == ASSUME MyInv, MySQL!Exec PROVE MyInv'
<1>1. /\ main.pc = "exec" /\ ~ctx
      /\ UNCHANGED <<dump, n, single, ctx, result, jobs, writer, err>>
  BY DEF MySQL!Exec, MySQL!At, MySQL!restore, MySQL!writers
<1>2. /\ main.pos \in DOMAIN dump /\ main.pc \in GoingOn \ {"session"}
      /\ (~single => ~MySQL!IsRows(main.pos))
  BY <1>1, MyBasics DEF MyPlaced, StmtPlaces, GoingOn
<1>3. Jobs = {} /\ Jobs' = {} /\ (single => jobs = <<>>) /\ jobs \in Seq(MySQL!Rows)
  <2>1. Jobs = {} BY <1>1, MyBasics DEF Calm, CalmPlaces
  <2>2. Jobs' = Jobs BY <1>1, MyBasics DEF Jobs
  <2> QED BY <1>1, <2>1, <2>2, MyBasics DEF MyTypeOK, MyPlaced
<1>4. /\ row \in [MySQL!Rows -> RowRecords] /\ session \in [0 .. n -> Settings]
      /\ done \subseteq MySQL!Own /\ session[0] \in Settings /\ 0 \in 0 .. n
  <2>1. 0 \in 0 .. n BY <1>1, MyBasics
  <2> QED BY <1>1, <2>1, MyBasics DEF MyTypeOK
<1>5. \A i \in MySQL!Rows : row[i].at = "open" => (row[i].by = 0 <=> single)
  BY <1>1, MyBasics DEF RowsKept, OpenRows
<1>6. ASSUME MySQL!IsRows(main.pos) PROVE MyInv'
  <2> DEFINE new == [at |-> "open", by |-> 0, under |-> session[0]]
             r == [row EXCEPT ![main.pos] = new]
  <2>1. /\ main' = [pc |-> "read", pos |-> main.pos + 1] /\ UNCHANGED <<session, done>>
        /\ row' = r \/ row' = MySQL!Committed(r, MySQL!Open(0) \cup {main.pos})
    <3> HIDE DEF r
    <3>1. MySQL!Stmt.kind # "session" BY <1>6 DEF MySQL!Stmt, MySQL!IsRows
    <3>2. /\ row' = (IF MySQL!Cardinality(MySQL!Open(0)) + 1 >= CommitAt
                     THEN MySQL!Committed(r, MySQL!Open(0) \cup {main.pos}) ELSE r)
          /\ main' = [pc |-> "read", pos |-> main.pos + 1] /\ UNCHANGED <<session, done>>
      BY <1>6, <3>1 DEF MySQL!Exec, MySQL!NextStmt, r
    <3> QED BY <3>2
  <2>2. /\ single /\ main.pos \in MySQL!Rows /\ main.pos \notin MySQL!Own
        /\ dump[main.pos].kind # "session"
    BY <1>2, <1>6 DEF MySQL!Rows, MySQL!Own, MySQL!IsRows
  <2>3. new \in RowRecords BY <1>4 DEF RowRecords
  <2>4. /\ r \in [MySQL!Rows -> RowRecords] /\ r[main.pos] = new
        /\ \A i \in MySQL!Rows : i # main.pos => r[i] = row[i]
    BY <1>4, <2>2, <2>3
  <2> HIDE DEF r
  <2>5. /\ row' \in [MySQL!Rows -> RowRecords]
        /\ \A i \in MySQL!Rows : /\ row'[i].by = r[i].by
                                 /\ row'[i].at = r[i].at \/ row'[i].at = "in"
    BY <2>1, <2>4, Committing
  <2>6. /\ \A i \in MySQL!Rows : row'[i].at = "open" => (row'[i].by = 0 <=> single)
        /\ \A i \in MySQL!Rows : i # main.pos /\ row[i].at # "out" => row'[i].at # "out"
        /\ row'[main.pos].at # "out"
    BY <1>5, <2>2, <2>4, <2>5
  <2> QED BY <1>1, <1>2, <1>3, <1>4, <2>1, <2>2, <2>5, <2>6, PassKeeps
<1>7. ASSUME ~MySQL!IsRows(main.pos), dump[main.pos].kind = "session", single PROVE MyInv'
  <2>1. /\ main' = [pc |-> "read", pos |-> main.pos + 1] /\ UNCHANGED <<row, done>>
        /\ session' = [session EXCEPT ![0] = dump[main.pos].sets]
    BY <1>7 DEF MySQL!Exec, MySQL!NextStmt, MySQL!Stmt
  <2>2. dump[main.pos].sets \in Settings
    <3>1. dump \in Seq(MySQLStatements) BY <1>1, MyDumps, MyBasics
    <3>2. dump[main.pos] \in MySQLStatements BY <1>2, <3>1
    <3> QED BY <3>2 DEF MySQLStatements, Settings
  <2>3. session' \in [0 .. n -> Settings] /\ session'[0] = dump[main.pos].sets
    BY <1>4, <2>1, <2>2
  <2>4. session'[0] = MySQL!SessionAt(main.pos + 1) BY <1>1, <1>2, <1>7, <2>3, BeforeAdvance
  <2>5. main.pos \notin MySQL!Rows /\ main.pos \notin MySQL!Own
    BY <1>7 DEF MySQL!Rows, MySQL!IsRows, MySQL!Own
  <2>6. \A i \in MySQL!Rows : i <= main.pos => row'[i].at # "out" \/ i \in Jobs' \/ ctx \/ err
    BY <1>1, <1>2, <1>3, <2>1, <2>5, BeforeAdvance
  <2>7. \A j \in MySQL!Own : j <= main.pos => j \in done'
    BY <1>1, <1>2, <2>1, <2>5, BeforeAdvance
  <2> QED BY <1>1, <1>2, <1>3, <1>4, <1>5, <1>7, <2>1, <2>3, <2>4, <2>6, <2>7, AdvanceKeeps
<1>8. ASSUME ~MySQL!IsRows(main.pos), dump[main.pos].kind = "session", ~single PROVE MyInv'
  <2>1. /\ main' = [main EXCEPT !.pc = "session"] /\ UNCHANGED <<row, done>>
        /\ session' = [session EXCEPT ![0] = dump[main.pos].sets]
    BY <1>8 DEF MySQL!Exec, MySQL!Goto, MySQL!Stmt
  <2>2. dump[main.pos].sets \in Settings
    <3>1. dump \in Seq(MySQLStatements) BY <1>1, MyDumps, MyBasics
    <3>2. dump[main.pos] \in MySQLStatements BY <1>2, <3>1
    <3> QED BY <3>2 DEF MySQLStatements, Settings
  <2>3. /\ session' \in [0 .. n -> Settings] /\ session'[0] = dump[main.pos].sets
        /\ \A w \in MySQL!Writers : session'[w] = session[w]
    <3>1. \A w \in MySQL!Writers : w # 0 /\ w \in 0 .. n
      BY <1>1, MyBasics DEF MySQL!Writers
    <3> QED BY <1>4, <2>1, <2>2, <3>1
  <2>4. session'[0] = MySQL!SessionAt(main.pos + 1) BY <1>1, <1>2, <1>8, <2>3, BeforeAdvance
  <2>5. /\ main' \in [pc : MyPlaces, pos : 1 .. L + 1] /\ main'.pc = "session"
        /\ main'.pos = main.pos
    BY <1>1, <2>1, MyBasics DEF MyTypeOK, MyPlaces, GoingOn, StmtPlaces
  <2>6. MyTypeOK' BY <1>1, <2>1, <2>3, <2>5, MyBasics DEF MyTypeOK
  <2>7. MyPlaced'
    BY <1>1, <1>2, <1>8, <2>5, MyBasics DEF MyPlaced, RowPlaces, StmtPlaces, EndPlaces
  <2>8. Past' = Past BY <1>1, <2>5, MyBasics DEF Past
  <2>9. result' # "nil" BY <1>1, MyBasics DEF MyPlaced
  <2>10. RowsKept'
    BY <1>1, <1>2, <1>3, <2>1, <2>5, <2>8, <2>9, MyBasics DEF RowsKept, OpenRows
  <2>11. Calm'
    BY <1>1, <1>3, <2>1, <2>5, <2>8, <2>9, MyBasics DEF Calm, CalmPlaces, OpenRows
  <2>12. UnderWay'
    <3>1. /\ \A w \in MySQL!Writers : session'[w] = MySQL!SessionAt(main.pos)
          /\ \A j \in MySQL!Own : j < main.pos => j \in done
      BY <1>1, <1>2, <1>8, <2>3, MyBasics DEF UnderWay
    <3> QED BY <1>1, <1>3, <2>1, <2>4, <2>5, <3>1, MyBasics DEF UnderWay
  <2> QED BY <2>6, <2>7, <2>10, <2>11, <2>12 DEF MyInv
<1>9. ASSUME ~MySQL!IsRows(main.pos), dump[main.pos].kind # "session" PROVE MyInv'
  <2>1. /\ main' = [pc |-> "read", pos |-> main.pos + 1] /\ session' = session
        /\ row' = MySQL!Committed(row, MySQL!Open(0))
        /\ done' = done \cup ({main.pos} \cap MySQL!Own)
    BY <1>9 DEF MySQL!Exec, MySQL!NextStmt, MySQL!Stmt
  <2>2. Settles BY <2>1, OpenOn, CommitSettles
  <2>3. main.pos \notin MySQL!Rows BY <1>9 DEF MySQL!Rows
  <2>4. \A i \in MySQL!Rows : /\ row[i].at # "out" => row'[i].at # "out"
                              /\ row'[i].at = "open" => (row'[i].by = 0 <=> single)
    BY <1>5, <2>2 DEF Settles
  <2>5. /\ done \subseteq done' /\ done' \subseteq MySQL!Own
        /\ main.pos \in MySQL!Own => main.pos \in done'
    BY <1>4, <2>1
  <2> QED
    BY <1>1, <1>2, <1>3, <1>9, <2>1, <2>2, <2>3, <2>4, <2>5, PassKeeps DEF Settles
<1>10. CASE MySQL!IsRows(main.pos) BY <1>6, <1>10
<1>11. CASE ~MySQL!IsRows(main.pos)
  <2>1. CASE dump[main.pos].kind = "session" BY <1>7, <1>8, <1>11, <2>1
  <2>2. CASE dump[main.pos].kind # "session" BY <1>9, <1>11, <2>2
  <2> QED BY <2>1, <2>2
<1>12. MyInv' BY <1>10, <1>11
<1> QED BY <1>12

LEMMA SessionKeeps == ASSUME MyInv, MySQL!Session PROVE MyInv'
<1>1. /\ main.pc = "session"
      /\ UNCHANGED <<dump, n, single, ctx, result, jobs, writer, row, done>>
      /\ \/ /\ session' = [c \in 0 .. n |-> dump[main.pos].sets] /\ err' = err
            /\ main' = [pc |-> "read", pos |-> main.pos + 1]
         \/ main' = [main EXCEPT !.pc = "fail"] /\ err' = TRUE /\ session' = session
  BY DEF MySQL!Session, MySQL!At, MySQL!restore, MySQL!Replayed, MySQL!Stmt, MySQL!Goto,
         MySQL!NextStmt
<1>2. /\ main.pos \in DOMAIN dump /\ main.pc \in GoingOn /\ ~single
      /\ dump[main.pos].kind = "session"
  BY <1>1, MyBasics DEF MyPlaced, StmtPlaces, GoingOn
<1>3. CASE /\ session' = [c \in 0 .. n |-> dump[main.pos].sets] /\ err' = err
           /\ main' = [pc |-> "read", pos |-> main.pos + 1]
  <2>1. dump[main.pos].sets \in Settings
    <3>1. dump \in Seq(MySQLStatements) BY <1>1, MyDumps, MyBasics
    <3>2. dump[main.pos] \in MySQLStatements BY <1>2, <3>1
    <3> QED BY <3>2 DEF MySQLStatements, Settings
  <2>2. /\ session' \in [0 .. n -> Settings] /\ session'[0] = dump[main.pos].sets
        /\ \A w \in MySQL!Writers : session'[w] = dump[main.pos].sets
    <3>1. 0 \in 0 .. n /\ \A w \in MySQL!Writers : w \in 0 .. n
      BY <1>1, MyBasics DEF MySQL!Writers
    <3> QED BY <1>3, <2>1, <3>1
  <2>3. dump[main.pos].sets = MySQL!SessionAt(main.pos + 1) BY <1>1, <1>2, BeforeAdvance
  <2>4. Jobs = {} /\ Jobs' = {}
    <3>1. Jobs = {} BY <1>1, MyBasics DEF Calm, CalmPlaces
    <3>2. Jobs' = Jobs BY <1>1, MyBasics DEF Jobs
    <3> QED BY <3>1, <3>2
  <2>5. main.pos \notin MySQL!Rows /\ main.pos \notin MySQL!Own
    BY <1>2 DEF MySQL!Rows, MySQL!IsRows, MySQL!Own
  <2>6. \A i \in MySQL!Rows : i <= main.pos => row'[i].at # "out" \/ i \in Jobs' \/ ctx \/ err
    BY <1>1, <1>2, <2>4, <2>5, BeforeAdvance
  <2>7. \A j \in MySQL!Own : j <= main.pos => j \in done'
    BY <1>1, <1>2, <2>5, BeforeAdvance
  <2>8. \A i \in MySQL!Rows : row'[i].at = "open" => (row'[i].by = 0 <=> single)
    BY <1>1, <1>2, BeforeAdvance
  <2>9. /\ jobs' \in Seq(MySQL!Rows) /\ row' \in [MySQL!Rows -> RowRecords]
        /\ done' \subseteq MySQL!Own
    BY <1>1, MyBasics DEF MyTypeOK
  <2> QED BY <1>1, <1>2, <1>3, <2>2, <2>3, <2>4, <2>6, <2>7, <2>8, <2>9, AdvanceKeeps
<1>4. CASE main' = [main EXCEPT !.pc = "fail"] /\ err' = TRUE /\ session' = session
  <2>1. main'.pc = "fail" /\ main'.pos = main.pos BY <1>1, <1>4, MyBasics DEF MyTypeOK
  <2>2. MyPlaced'
    BY <1>1, <1>2, <1>4, <2>1, MyBasics DEF MyPlaced, RowPlaces, StmtPlaces, EndPlaces
  <2>3. Settles BY <1>1, NoCommitSettles
  <2>4. "fail" \in MyPlaces /\ "fail" \notin GoingOn /\ "fail" \notin CalmPlaces
    BY DEF MyPlaces, GoingOn, RowPlaces, StmtPlaces, EndPlaces, CalmPlaces
  <2> QED BY <1>1, <1>2, <1>4, <2>2, <2>3, <2>4, MovesKeep
<1> QED BY <1>1, <1>3, <1>4

\* A restore ends: all is in, or the rows that are open are rolled back.
LEMMA EndKeeps == ASSUME MyInv, MySQL!End PROVE MyInv'
<1>1. /\ main.pc = "end" /\ ~ctx /\ main' = [main EXCEPT !.pc = "returned"] /\ result' = "nil"
      /\ UNCHANGED <<dump, n, single, ctx, jobs, writer, err, session, row, done>>
  BY DEF MySQL!End, MySQL!At, MySQL!SwitchedOn, MySQL!Goto, MySQL!restore, MySQL!writers,
         MySQL!server
<1>2. /\ main'.pc = "returned" /\ main'.pos = main.pos /\ main.pos = L + 1
      /\ main' \in [pc : MyPlaces, pos : 1 .. L + 1]
  BY <1>1, MyBasics DEF MyTypeOK, MyPlaced, MyPlaces, EndPlaces
<1>3. "returned" \notin GoingOn \cup CalmPlaces
  BY DEF GoingOn, RowPlaces, StmtPlaces, EndPlaces, CalmPlaces
<1>4. MyTypeOK' BY <1>1, <1>2, MyBasics DEF MyTypeOK
<1>5. MyPlaced' BY <1>1, <1>2, MyBasics DEF MyPlaced, RowPlaces, StmtPlaces, EndPlaces
<1>6. Jobs' = {}
  <2>1. Jobs = {} BY <1>1, MyBasics DEF Calm, CalmPlaces
  <2>2. Jobs' = Jobs BY <1>1, MyBasics DEF Jobs
  <2> QED BY <2>1, <2>2
<1>7. RowsKept' BY <1>1, <1>2, <1>3, MyBasics DEF RowsKept, OpenRows
<1>8. Calm' BY <1>2, <1>3, <1>6 DEF Calm
<1>9. UnderWay'
  <2>1. \A j \in MySQL!Own : j < main.pos => j \in done
    BY <1>1, MyBasics DEF UnderWay, GoingOn, EndPlaces
  <2> QED BY <1>1, <1>2, <1>3, <1>6, <2>1, MyBasics DEF UnderWay
<1> QED BY <1>4, <1>5, <1>7, <1>8, <1>9 DEF MyInv

LEMMA DrainedKeeps == ASSUME MyInv, MySQL!Failing \/ MySQL!Drained PROVE MyInv'
<1>1. /\ main.pc \in {"fail", "drain"}
      /\ \/ main' = [main EXCEPT !.pc = "drain"] /\ result' = result /\ row' = row
         \/ /\ main' = [main EXCEPT !.pc = "returned"] /\ result' = "error"
            /\ \E S : row' = MySQL!RolledBack(row, S)
      /\ UNCHANGED <<dump, n, single, ctx, jobs, writer, err, session, done>>
  BY DEF MySQL!Failing, MySQL!Drained, MySQL!At, MySQL!Goto, MySQL!restore, MySQL!writers,
         MySQL!server
<1>2. /\ main' \in [pc : MyPlaces, pos : 1 .. L + 1] /\ main'.pos = main.pos
      /\ \/ main'.pc = "drain" /\ result' = "none"
         \/ main'.pc = "returned" /\ result' = "error"
  BY <1>1, MyBasics DEF MyTypeOK, MyPlaces, MyPlaced
<1>3. /\ main'.pc \notin GoingOn \cup CalmPlaces
  BY <1>2 DEF GoingOn, RowPlaces, StmtPlaces, EndPlaces, CalmPlaces
<1>4. /\ row' \in [MySQL!Rows -> RowRecords]
      /\ \A i \in MySQL!Rows : row'[i].at = "open" => row'[i].by = row[i].by /\ row[i].at = "open"
  <2>1. row \in [MySQL!Rows -> RowRecords] BY <1>1, MyBasics DEF MyTypeOK
  <2>2. ASSUME NEW S, row' = MySQL!RolledBack(row, S)
        PROVE  <1>4!:
    <3>1. ASSUME NEW i \in MySQL!Rows
          PROVE  row'[i] \in RowRecords /\ (row'[i].at = "open" => row'[i] = row[i])
      <4>1. row'[i] = IF i \in S THEN [row[i] EXCEPT !.at = "out"] ELSE row[i]
        BY <2>2 DEF MySQL!RolledBack
      <4>2. row[i] \in RowRecords BY <2>1
      <4> QED BY <4>1, <4>2 DEF RowRecords
    <3>2. row' = [i \in MySQL!Rows |-> row'[i]] BY <2>2 DEF MySQL!RolledBack
    <3>3. row' \in [MySQL!Rows -> RowRecords] BY <3>1, <3>2
    <3> QED BY <3>1, <3>3
  <2> QED BY <1>1, <2>1, <2>2
<1>5. MyTypeOK' BY <1>1, <1>2, <1>4, MyBasics DEF MyTypeOK
<1>6. MyPlaced' BY <1>1, <1>2, MyBasics DEF MyPlaced, RowPlaces, StmtPlaces, EndPlaces
<1>7. Jobs' = Jobs BY <1>1, MyBasics DEF Jobs
<1>8. RowsKept'
  <2>1. main'.pc \notin {"last", "rebuild", "end"} /\ result' # "nil" BY <1>2
  <2>2. \A i \in OpenRows' : row'[i].by = 0 <=> single
    BY <1>1, <1>4, MyBasics DEF RowsKept, OpenRows
  <2> QED BY <1>1, <1>3, <2>1, <2>2, MyBasics DEF RowsKept
<1>9. Calm' BY <1>2, <1>3 DEF Calm
<1>10. UnderWay'
  <2>1. main'.pc # "session" /\ result' # "nil" BY <1>2
  <2> QED BY <1>1, <1>3, <1>7, <2>1, MyBasics DEF UnderWay
<1> QED BY <1>5, <1>6, <1>8, <1>9, <1>10 DEF MyInv

\* Beside the reader and the writers: a cancel, the count, the rebuilds.
LEMMA BesideKeeps ==
  ASSUME MyInv, ctx' \in {ctx, TRUE},
         UNCHANGED <<dump, n, single, main, result, jobs, writer, err, session, row, done>>
  PROVE  MyInv'
<1>1. ctx' \in BOOLEAN /\ (ctx => ctx')
  <2>1. ctx \in BOOLEAN BY MyBasics DEF MyTypeOK
  <2>2. ctx' = ctx \/ ctx' = TRUE OBVIOUS
  <2>3. CASE ctx' = ctx BY <2>1, <2>3
  <2>4. CASE ctx' = TRUE BY <2>4
  <2> QED BY <2>2, <2>3, <2>4
<1>2. Jobs' = Jobs /\ Past' = Past /\ OpenRows' = OpenRows
  BY MyBasics DEF Jobs, Past, OpenRows
<1>3. MyTypeOK' BY <1>1, MyBasics DEF MyTypeOK
<1>4. MyPlaced' BY MyBasics DEF MyPlaced
<1>5. RowsKept' BY <1>1, <1>2, MyBasics DEF RowsKept
<1>6. Calm' BY <1>1, <1>2, MyBasics DEF Calm
<1>7. UnderWay' BY <1>2, MyBasics DEF UnderWay
<1> QED BY <1>3, <1>4, <1>5, <1>6, <1>7 DEF MyInv

LEMMA MyNext == ASSUME MyInv, MySQL!Next PROVE MyInv'
<1>1. CASE MySQL!Reader
  <2>1. CASE MySQL!Read BY <2>1, ReadPassKeeps, GotoActionsKeep
  <2>2. CASE MySQL!Written BY <2>2, WrittenKeeps, BarrierActionsKeep
  <2>3. CASE \/ MySQL!Defer \/ MySQL!Drop \/ MySQL!ExecFails
             \/ MySQL!Rebuild("again") \/ MySQL!Rebuild("last") \/ MySQL!Rebuilt
             \/ MySQL!Stopped \/ MySQL!EndFails
    BY <2>3, GotoActionsKeep
  <2>4. CASE \/ MySQL!WaitForRows \/ MySQL!Clear \/ MySQL!First \/ MySQL!CloseWriters
             \/ MySQL!FlushOwn \/ MySQL!Finish
    BY <2>4, BarrierActionsKeep
  <2>5. CASE MySQL!Queue \/ MySQL!Exec \/ MySQL!Session
    <3>1. CASE MySQL!Queue BY <3>1, QueueKeeps
    <3>2. CASE MySQL!Exec BY <3>2, MyExecKeeps
    <3>3. CASE MySQL!Session BY <3>3, SessionKeeps
    <3> QED BY <2>5, <3>1, <3>2, <3>3
  <2>6. CASE MySQL!End \/ MySQL!Failing \/ MySQL!Drained
    BY <2>6, EndKeeps, DrainedKeeps
  <2> QED BY <1>1, <2>1, <2>2, <2>3, <2>4, <2>5, <2>6 DEF MySQL!Reader
<1>2. CASE MySQL!Altering \/ MySQL!CountTotal \/ MySQL!Cancel
  <2>1. /\ ctx' \in {ctx, TRUE}
        /\ UNCHANGED <<dump, n, single, main, result, jobs, writer, err, session, row, done>>
    BY <1>2 DEF MySQL!Altering, MySQL!Alter, MySQL!Altered, MySQL!CountTotal, MySQL!Cancel,
       MySQL!restore, MySQL!writers, MySQL!server
  <2> QED BY <2>1, BesideKeeps
<1>3. CASE MySQL!Faults BY <1>3, GotoActionsKeep, WriterKeeps DEF MySQL!Faults
<1>4. CASE \E w \in MySQL!Writers : MySQL!Writer(w) BY <1>4, WriterKeeps
<1> QED BY <1>1, <1>2, <1>3, <1>4 DEF MySQL!Next

-----------------------------------------------------------------------------
(* What the restore promises of its order *)

LEMMA MyStarts == MySQL!Init => MyInv
<1> SUFFICES ASSUME MySQL!Init PROVE MyInv OBVIOUS
<1>1. /\ dump \in MySQLDumps /\ single \in BOOLEAN /\ ctx = FALSE
      /\ main = [pc |-> "read", pos |-> 1] /\ result = "none" /\ jobs = <<>> /\ err = FALSE
      /\ writer = [w \in MySQL!Writers |->
                     [pc |-> IF single THEN "gone" ELSE "look", job |-> 0]]
      /\ session = [c \in 0 .. n |-> "default"]
      /\ row = [i \in MySQL!Rows |-> [at |-> "out", by |-> 0, under |-> "default"]]
      /\ done = {}
  BY Zenon DEF MySQL!Init
<1>2. n \in Nat
  <2>2. PICK want \in Want, available \in Free :
           n = MySQL!RestoreConnections(want, available)
    BY Zenon DEF MySQL!Init
  <2>3. want \in Nat /\ available \in Nat /\ MaxRestoreConnections \in Nat
    BY MySQLAssumption
  <2>4. available \div 2 \in Nat BY <2>3
  <2> QED BY <2>2, <2>3, <2>4 DEF MySQL!RestoreConnections
<1>3. L \in Nat /\ DOMAIN dump = 1 .. L
  <2>1. dump \in Seq(MySQLStatements) BY <1>1, MySQLAssumption
  <2> QED BY <2>1 DEF L
<1>4. main.pc = "read" /\ main.pos = 1 /\ main \in [pc : MyPlaces, pos : 1 .. L + 1]
  BY <1>1, <1>3 DEF MyPlaces, GoingOn
<1>5. 0 \in 0 .. n /\ \A w \in MySQL!Writers : w \in 0 .. n BY <1>2 DEF MySQL!Writers
<1>6. /\ row \in [MySQL!Rows -> RowRecords]
      /\ writer \in [MySQL!Writers -> [pc : {"look", "has", "runs", "idle", "gone"},
                                       job : MySQL!Rows \cup {0}]]
      /\ session \in [0 .. n -> Settings] /\ jobs \in Seq(MySQL!Rows)
  BY <1>1, <1>5 DEF RowRecords, Settings
<1>7. MyTypeOK BY <1>1, <1>2, <1>4, <1>6 DEF MyTypeOK
<1>8. \A w \in MySQL!Writers : /\ writer[w].job = 0 /\ (single => writer[w].pc = "gone")
                               /\ writer[w].pc \in {"gone", "look"}
  BY <1>1
<1>9. MyPlaced BY <1>1, <1>4, <1>8 DEF MyPlaced, RowPlaces, StmtPlaces, EndPlaces
<1>10. \A i \in MySQL!Rows \cup MySQL!Own : i \in Nat /\ ~(i < 1)
  BY <1>3 DEF MySQL!Rows, MySQL!Own
<1>11. Past = {} /\ OpenRows = {} BY <1>1, <1>4, <1>10 DEF Past, OpenRows
<1>12. Jobs = {} BY <1>1, <1>8, <1>10, ElementsOfEmpty, MyDumps, <1>7 DEF Jobs
<1>13. RowsKept /\ Calm BY <1>1, <1>4, <1>11 DEF RowsKept, Calm, CalmPlaces
<1>14. UnderWay BY <1>1, <1>4, <1>5, <1>10, <1>12, MySessionFirst DEF UnderWay
<1> QED BY <1>7, <1>9, <1>13, <1>14 DEF MyInv

\* Only an INSERT brings a row in, and only the restore's own statements define
\* anything.
LEMMA NothingElseComesIn ==
  ASSUME MyInv, MySQL!Next, ~MySQL!Exec,
         \A w \in MySQL!Writers :
           ~((MySQL!Writer(w) \/ MySQL!WriteFails(w)) /\ WriterWrites(w))
  PROVE  /\ done' = done
         /\ \A i \in MySQL!Rows : row[i].at = "out" => row'[i].at = "out"
<1> DEFINE Kept == \A i \in MySQL!Rows : row[i].at = "out" => row'[i].at = "out"
<1>1. ASSUME NEW S, row' = MySQL!Committed(row, S), S \subseteq OpenRows PROVE Kept
  <2>1. \A i \in MySQL!Rows : row'[i].at = IF i \in S THEN "in" ELSE row[i].at
    BY <1>1, CommitSettles
  <2> QED BY <1>1, <2>1 DEF OpenRows
<1>2. ASSUME NEW S, row' = MySQL!RolledBack(row, S) PROVE Kept
  <2>1. row \in [MySQL!Rows -> RowRecords] BY DEF MyInv, MyTypeOK
  <2>2. ASSUME NEW i \in MySQL!Rows, row[i].at = "out" PROVE row'[i].at = "out"
    <3>1. row'[i] = IF i \in S THEN [row[i] EXCEPT !.at = "out"] ELSE row[i]
      BY <1>2 DEF MySQL!RolledBack
    <3>2. row[i] \in RowRecords BY <2>1
    <3> QED BY <2>2, <3>1, <3>2 DEF RowRecords
  <2> QED BY <2>2
<1>3. CASE \/ MySQL!Read \/ MySQL!Defer \/ MySQL!Drop \/ MySQL!Queue \/ MySQL!ExecFails
           \/ MySQL!Session \/ MySQL!Stopped \/ MySQL!End \/ MySQL!EndFails \/ MySQL!Failing
           \/ MySQL!Rebuild("again") \/ MySQL!Rebuild("last") \/ MySQL!Rebuilt
           \/ MySQL!Altering \/ MySQL!CountTotal \/ MySQL!Cancel
  BY <1>3 DEF MySQL!Read, MySQL!Defer, MySQL!Drop, MySQL!Queue, MySQL!ExecFails,
     MySQL!Session, MySQL!Stopped, MySQL!End, MySQL!EndFails, MySQL!Failing,
     MySQL!Rebuild, MySQL!Rebuilt, MySQL!Altering, MySQL!Alter, MySQL!Altered,
     MySQL!CountTotal, MySQL!Cancel, MySQL!server
<1>4. CASE \/ MySQL!WaitForRows \/ MySQL!Clear \/ MySQL!First \/ MySQL!CloseWriters
           \/ MySQL!FlushOwn \/ MySQL!Finish \/ MySQL!Written
  <2>1. done' = done
    BY <1>4 DEF MySQL!WaitForRows, MySQL!Clear, MySQL!First, MySQL!CloseWriters,
       MySQL!FlushOwn, MySQL!Finish, MySQL!Written
  <2>2. \/ row' = row \/ row' = MySQL!Committed(row, MySQL!Opened)
        \/ row' = MySQL!Committed(row, MySQL!Open(0))
        \/ \E S \in SUBSET MySQL!Writers :
             row' = MySQL!Committed(row, UNION {MySQL!Open(c) : c \in S})
    BY <1>4 DEF MySQL!WaitForRows, MySQL!Clear, MySQL!First, MySQL!CloseWriters,
       MySQL!FlushOwn, MySQL!Finish, MySQL!Written, MySQL!Wait, MySQL!barrier, MySQL!Barrier,
       MySQL!Flush
  <2> QED BY <1>1, <2>1, <2>2, OpenOn
<1>5. CASE MySQL!Drained BY <1>2, <1>5 DEF MySQL!Drained
<1>6. ASSUME NEW w \in MySQL!Writers, MySQL!Writer(w) \/ MySQL!WriteFails(w)
      PROVE  done' = done /\ Kept
  <2>1. done' = done /\ (row' = row \/ row' = MySQL!Committed(row, MySQL!Open(w)))
    BY <1>6, WriterSteps DEF WriterTakes, WriterRests, WriterBegins, WriterLoses
  <2> QED BY <1>1, <2>1, OpenOn
<1> QED BY <1>3, <1>4, <1>5, <1>6 DEF MySQL!Next, MySQL!Reader, MySQL!Faults

LEMMA MyInOrder == ASSUME MyInv, MySQL!Next PROVE MySQL!InOrder
<1>1. CASE MySQL!Exec
  <2>1. /\ main.pc = "exec" /\ ~ctx
        /\ UNCHANGED <<dump, n, single, ctx, result, jobs, writer, err>>
    BY <1>1 DEF MySQL!Exec, MySQL!At, MySQL!restore, MySQL!writers
  <2>2. /\ session[0] = MySQL!SessionAt(main.pos) /\ \A j \in MySQL!Own : j < main.pos => j \in done
    BY <2>1, MyBasics DEF UnderWay, GoingOn, StmtPlaces
  <2>3. row \in [MySQL!Rows -> RowRecords] BY <2>1, MyBasics DEF MyTypeOK
  <2>4. CASE MySQL!IsRows(main.pos)
    <3> DEFINE new == [at |-> "open", by |-> 0, under |-> session[0]]
               r == [row EXCEPT ![main.pos] = new]
    <3>1. MySQL!Stmt.kind # "session" BY <2>4 DEF MySQL!Stmt, MySQL!IsRows
    <3> HIDE DEF r
    <3>2. /\ row' = (IF MySQL!Cardinality(MySQL!Open(0)) + 1 >= CommitAt
                     THEN MySQL!Committed(r, MySQL!Open(0) \cup {main.pos}) ELSE r)
          /\ done' = done
      BY <1>1, <2>4, <3>1 DEF MySQL!Exec, r
    <3>3. row' = r \/ row' = MySQL!Committed(r, MySQL!Open(0) \cup {main.pos}) BY <3>2
    <3>4. main.pos \in MySQL!Rows
      BY <2>1, <2>4, MyBasics DEF MySQL!Rows, MyPlaced, StmtPlaces
    <3>5. new \in RowRecords
      <4>1. 0 \in 0 .. n BY <2>1, MyBasics
      <4>2. session[0] \in Settings BY <2>1, <4>1, MyBasics DEF MyTypeOK
      <4> QED BY <4>1, <4>2 DEF RowRecords
    <3>6. /\ r \in [MySQL!Rows -> RowRecords] /\ r[main.pos] = new
          /\ \A i \in MySQL!Rows : i # main.pos => r[i] = row[i]
      BY <2>3, <3>4, <3>5 DEF r
    <3>7. /\ row'[main.pos].under = session[0]
          /\ \A i \in MySQL!Rows : i # main.pos /\ row[i].at = "out" => row'[i].at = "out"
      <4>1. CASE row' = r BY <3>6, <4>1
      <4>2. CASE row' = MySQL!Committed(r, MySQL!Open(0) \cup {main.pos})
        <5>1. \A i \in MySQL!Rows :
                /\ row'[i].under = r[i].under
                /\ row'[i].at = IF i \in MySQL!Open(0) \cup {main.pos} THEN "in" ELSE r[i].at
          BY <3>6, <4>2, Committing
        <5>2. \A i \in MySQL!Open(0) : row[i].at = "open" BY DEF MySQL!Open
        <5> QED BY <3>4, <3>6, <5>1, <5>2
      <4> QED BY <3>3, <4>1, <4>2
    <3>8. /\ \A i \in MySQL!Rows : row[i].at = "out" /\ row'[i].at # "out" =>
               row'[i].under = MySQL!SessionAt(i) /\ \A j \in MySQL!Own : j < i => j \in done
      BY <2>2, <3>7
    <3> QED BY <3>2, <3>8 DEF MySQL!InOrder
  <2>5. CASE ~MySQL!IsRows(main.pos) /\ MySQL!Stmt.kind = "session"
    <3>1. row' = row /\ done' = done BY <1>1, <2>5 DEF MySQL!Exec
    <3> QED BY <3>1 DEF MySQL!InOrder
  <2>6. CASE ~MySQL!IsRows(main.pos) /\ MySQL!Stmt.kind # "session"
    <3>1. /\ row' = MySQL!Committed(row, MySQL!Open(0))
          /\ done' = done \cup ({main.pos} \cap MySQL!Own)
      BY <1>1, <2>6 DEF MySQL!Exec
    <3>2. \A i \in MySQL!Rows : row'[i].at = IF i \in MySQL!Open(0) THEN "in" ELSE row[i].at
      BY <3>1, OpenOn, CommitSettles
    <3>3. \A i \in MySQL!Rows : row[i].at = "out" => row'[i].at = "out"
      BY <3>2 DEF MySQL!Open
    <3>4. ASSUME NEW j \in MySQL!Rows, j < main.pos PROVE row'[j].at = "in"
      <4>1. j \in Past BY <3>4 DEF Past
      <4>2. row[j].at # "out" /\ (~single => j \notin OpenRows)
        BY <2>1, <4>1, MyBasics DEF Calm, CalmPlaces
      <4>3. single => MySQL!Open(0) = OpenRows BY OpenOn
      <4>4. row[j].at \in {"out", "open", "in"} BY <2>3 DEF RowRecords
      <4> QED BY <3>2, <4>2, <4>3, <4>4 DEF OpenRows
    <3> QED BY <3>1, <3>3, <3>4 DEF MySQL!InOrder
  <2> QED BY <2>4, <2>5, <2>6
<1>2. ASSUME NEW w \in MySQL!Writers, MySQL!Writer(w) \/ MySQL!WriteFails(w), WriterWrites(w)
      PROVE  MySQL!InOrder
  <2>1. UNCHANGED <<dump, n, session, done>> BY <1>2, WriterSteps
  <2>2. /\ writer[w].job \in MySQL!Rows /\ row'[writer[w].job].under = session[w]
        /\ \A i \in MySQL!Rows : i # writer[w].job =>
             row'[i].at = row[i].at \/ (row[i].at = "open" /\ row'[i].at = "in")
    BY <1>2, <2>1, WriterRow
  <2>3. writer[w].job \in Jobs BY <2>2 DEF Jobs
  <2>4. /\ session[w] = MySQL!SessionAt(writer[w].job)
        /\ \A j \in MySQL!Own : j < writer[w].job => j \in done
    BY <2>1, <2>3, MyBasics DEF UnderWay
  <2>5. \A i \in MySQL!Rows : row[i].at = "out" /\ row'[i].at # "out" => i = writer[w].job
    BY <2>2
  <2> QED BY <2>1, <2>2, <2>4, <2>5 DEF MySQL!InOrder
<1>3. CASE /\ ~MySQL!Exec
           /\ \A w \in MySQL!Writers :
                ~((MySQL!Writer(w) \/ MySQL!WriteFails(w)) /\ WriterWrites(w))
  <2>1. /\ done' = done
        /\ \A i \in MySQL!Rows : row[i].at = "out" => row'[i].at = "out"
    BY <1>3, NothingElseComesIn
  <2> QED BY <2>1 DEF MySQL!InOrder
<1> QED BY <1>1, <1>2, <1>3

\* What a restore that returned nil has put in and defined.
LEMMA MyAllIn ==
  ASSUME MyInv, result = "nil"
  PROVE  done = MySQL!Own /\ \A i \in MySQL!Rows : row[i].at = "in"
<1>1. MyTypeOK /\ MyPlaced /\ RowsKept /\ UnderWay BY DEF MyInv
<1>2. main.pos = L + 1 BY <1>1 DEF MyPlaced
<1>3. \A j \in MySQL!Own : j < main.pos
  <2>1. L \in Nat /\ \A j \in MySQL!Own : j \in 1 .. L BY <1>1, MyDumps
  <2> QED BY <1>2, <2>1
<1>4. MySQL!Own \subseteq done BY <1>1, <1>3 DEF UnderWay
<1>5. done \subseteq MySQL!Own BY <1>1 DEF MyTypeOK
<1> QED BY <1>1, <1>4, <1>5 DEF RowsKept

-----------------------------------------------------------------------------
(* What is held back, and put back *)

Rebuilding == {"rebuild", "rebuild early"}

\* The indexes held back are put back by the group; no foreign key joins two groups.
IndexTypeOK ==
  /\ held \in [Tables -> SUBSET MySQL!Kinds] /\ drops \subseteq MySQL!Kinds
  /\ groups \subseteq SUBSET Tables /\ building \subseteq Tables /\ broken \in BOOLEAN
Apart == \A g, h \in groups : g # h => \A t \in g, u \in h : ~MySQL!Joined(t, u)
PutBack ==
  /\ main.pc \notin Rebuilding => groups = {} /\ building = {}
  /\ main.pc \in GoingOn \ Rebuilding => ~broken
  /\ main.pc \in Rebuilding => broken \/ MySQL!Deferred \subseteq UNION groups
  /\ {} \notin groups /\ building \subseteq UNION groups
  /\ main.pc = "end" \/ result = "nil" => MySQL!Deferred = {}
Indexed == IndexTypeOK /\ Apart /\ PutBack

\* A table is linked to those it is joined to, however long the way: tables that are
\* linked have the same links, and no table is joined to one it is not linked to.
LEMMA LinkedApart ==
  ASSUME NEW T, NEW t \in T, NEW u \in T, NEW a \in MySQL!Linked(T, t),
         NEW b \in MySQL!Linked(T, u), MySQL!Joined(a, b)
  PROVE  MySQL!Linked(T, t) = MySQL!Linked(T, u)
<1> DEFINE Closed(S) == \A x \in S, y \in T : MySQL!Joined(x, y) => y \in S
<1>1. \A x, y : MySQL!Joined(x, y) <=> MySQL!Joined(y, x) BY DEF MySQL!Joined
<1>2. \A v : MySQL!Linked(T, v) =
               {x \in T : \A S \in SUBSET T : v \in S /\ Closed(S) => x \in S}
  BY DEF MySQL!Linked
<1>3. ASSUME NEW v \in T PROVE v \in MySQL!Linked(T, v) /\ Closed(MySQL!Linked(T, v))
                              /\ MySQL!Linked(T, v) \in SUBSET T
  BY <1>2
<1>4. ASSUME NEW v \in T, NEW x \in MySQL!Linked(T, v)
      PROVE  MySQL!Linked(T, x) = MySQL!Linked(T, v)
  <2> DEFINE V == MySQL!Linked(T, v)
             X == MySQL!Linked(T, x)
  <2>1. x \in T BY <1>2
  <2>2. /\ v \in V /\ V \in SUBSET T /\ Closed(V)
        /\ x \in X /\ X \in SUBSET T /\ Closed(X)
    BY <1>3, <2>1
  <2>3. \A S \in SUBSET T : x \in S /\ Closed(S) => X \subseteq S BY <1>2
  <2>4. \A S \in SUBSET T : v \in S /\ Closed(S) => V \subseteq S BY <1>2
  <2> HIDE DEF V, X
  <2>5. x \in V BY <1>4 DEF V
  <2>6. X \subseteq V BY <2>2, <2>3, <2>5
  <2>7. v \in X
    <3> SUFFICES ASSUME v \notin X PROVE FALSE OBVIOUS
    <3>1. Closed(V \ X)
      <4> SUFFICES ASSUME NEW c \in V \ X, NEW d \in T, MySQL!Joined(c, d) PROVE d \in V \ X
        OBVIOUS
      <4>1. d \in V BY <2>2
      <4>2. c \in T /\ MySQL!Joined(d, c) BY <1>1, <2>2
      <4> QED BY <2>2, <4>1, <4>2
    <3>2. V \subseteq V \ X BY <2>2, <2>4, <3>1
    <3> QED BY <2>2, <2>5, <3>2
  <2>8. V \subseteq X BY <2>2, <2>4, <2>7
  <2> QED BY <2>6, <2>8 DEF V, X
<1>5. b \in MySQL!Linked(T, t) BY <1>2, <1>3
<1> QED BY <1>4, <1>5

\* Each way of grouping them takes in every table, and keeps apart what it parts.
LEMMA GroupsApart ==
  ASSUME MySQL!Deferred # {}, MySQL!Deferred \subseteq Tables,
         NEW G \in {MySQL!RelatedGroups(MySQL!Deferred), {MySQL!Deferred}}
  PROVE  /\ G \subseteq SUBSET Tables /\ {} \notin G /\ MySQL!Deferred \subseteq UNION G
         /\ \A g, h \in G : g # h => \A t \in g, u \in h : ~MySQL!Joined(t, u)
<1> DEFINE D == MySQL!Deferred
<1>1. CASE G = {D} BY <1>1
<1>2. CASE G = MySQL!RelatedGroups(D)
  <2>1. G = {MySQL!Linked(D, t) : t \in D} BY <1>2 DEF MySQL!RelatedGroups
  <2>2. \A t \in D : t \in MySQL!Linked(D, t) /\ MySQL!Linked(D, t) \subseteq D
    BY DEF MySQL!Linked
  <2> HIDE DEF D
  <2>3. \A g, h \in G : g # h => \A t \in g, u \in h : ~MySQL!Joined(t, u)
    BY <2>1, LinkedApart
  <2>4. D \subseteq Tables /\ D = MySQL!Deferred BY DEF D
  <2> QED BY <2>1, <2>2, <2>3, <2>4
<1> QED BY <1>1, <1>2

LEMMA DeferredAre ==
  ASSUME MyInv, Indexed
  PROVE  /\ MyTypeOK /\ MyPlaced /\ IndexTypeOK /\ Apart /\ PutBack
         /\ main = [pc |-> main.pc, pos |-> main.pos]
         /\ MySQL!Deferred \subseteq Tables
         /\ \A t \in Tables : t \in MySQL!Deferred <=> held[t] # {}
BY DEF MyInv, MyTypeOK, Indexed, MySQL!Deferred

\* A step that holds nothing back, puts nothing back and starts no rebuild.
LEMMA SparedKeeps ==
  ASSUME MyInv, Indexed, UNCHANGED <<held, groups, building, broken>>,
         drops' \subseteq MySQL!Kinds, main.pc \notin Rebuilding, main'.pc \notin Rebuilding,
         main'.pc \in GoingOn => main.pc \in GoingOn,
         main'.pc = "end" => MySQL!Deferred = {},
         result' = "nil" => result = "nil" \/ main.pc = "end"
  PROVE  Indexed'
<1>1. MySQL!Deferred' = MySQL!Deferred BY DEF MySQL!Deferred
<1>2. groups = {} /\ building = {} /\ (main'.pc \in GoingOn => ~broken)
      /\ (main.pc = "end" \/ result = "nil" => MySQL!Deferred = {})
  BY DeferredAre DEF PutBack
<1>3. IndexTypeOK' BY DeferredAre DEF IndexTypeOK
<1>4. Apart' BY <1>2 DEF Apart
<1>5. PutBack' BY <1>1, <1>2 DEF PutBack
<1> QED BY <1>3, <1>4, <1>5 DEF Indexed

LEMMA ReaderSparesIndexes ==
  ASSUME MyInv, Indexed,
         \/ MySQL!Read \/ MySQL!WaitForRows \/ MySQL!Defer \/ MySQL!Clear \/ MySQL!FlushOwn
         \/ MySQL!First \/ MySQL!Queue \/ MySQL!Written \/ MySQL!Exec \/ MySQL!ExecFails
         \/ MySQL!Session \/ MySQL!CloseWriters \/ MySQL!Stopped \/ MySQL!Finish
         \/ MySQL!End \/ MySQL!EndFails \/ MySQL!Failing \/ MySQL!Drained
  PROVE  Indexed'
<1> DEFINE Same == UNCHANGED <<held, groups, building, broken>>
<1>1. /\ main = [pc |-> main.pc, pos |-> main.pos] /\ drops \subseteq MySQL!Kinds
      /\ main.pc = "end" => MySQL!Deferred = {}
  BY DeferredAre DEF IndexTypeOK, PutBack
<1> USE DEF MySQL!At, MySQL!Goto, MySQL!NextStmt, MySQL!restore, MySQL!writers, MySQL!deferrer,
            MySQL!rebuild
<1>2. CASE MySQL!Read
  <2>1. main.pc = "read" /\ Same /\ drops' = drops /\ result' = result
    BY <1>2 DEF MySQL!Read
  <2>2. main'.pc \in {"finish", "close", "fail", "defer", "exec", "read", "alone wait"}
    <3>1. \/ main' = [pc |-> "read", pos |-> main.pos + 1]
          \/ \E pc \in {"finish", "close", "fail", "defer", "exec", "alone wait"} :
               main' = [main EXCEPT !.pc = pc]
      BY <1>2 DEF MySQL!Read
    <3>2. \A pc : [main EXCEPT !.pc = pc].pc = pc BY <1>1
    <3>3. [pc |-> "read", pos |-> main.pos + 1].pc = "read" OBVIOUS
    <3> QED BY <3>1, <3>2, <3>3
  <2> QED BY <1>1, <2>1, <2>2, SparedKeeps
     DEF Rebuilding, GoingOn, RowPlaces, StmtPlaces, EndPlaces
<1>3. CASE MySQL!WaitForRows
  <2>1. main.pc = "alone wait" /\ Same /\ drops' = drops /\ result' = result
    BY <1>3 DEF MySQL!WaitForRows
  <2>2. main'.pc \in {"exec", "fail"}
    BY <1>1, <1>3 DEF MySQL!WaitForRows, MySQL!Wait, MySQL!Barrier
  <2> QED BY <1>1, <2>1, <2>2, SparedKeeps
     DEF Rebuilding, GoingOn, RowPlaces, StmtPlaces, EndPlaces
<1>4. CASE MySQL!Clear
  <2>1. main.pc = "clear" /\ Same /\ drops' = drops /\ result' = result
    BY <1>4 DEF MySQL!Clear
  <2>2. main'.pc \in {"drop", "fail"}
    BY <1>1, <1>4 DEF MySQL!Clear, MySQL!barrier, MySQL!Barrier, MySQL!Flush
  <2> QED BY <1>1, <2>1, <2>2, SparedKeeps
     DEF Rebuilding, GoingOn, RowPlaces, StmtPlaces, EndPlaces
<1>5. CASE MySQL!FlushOwn
  <2>1. main.pc = "flush" /\ Same /\ drops' = drops /\ result' = result
    BY <1>5 DEF MySQL!FlushOwn
  <2>2. main'.pc \in {"first", "queue", "fail"}
    BY <1>1, <1>5 DEF MySQL!FlushOwn, MySQL!Flush
  <2> QED BY <1>1, <2>1, <2>2, SparedKeeps
     DEF Rebuilding, GoingOn, RowPlaces, StmtPlaces, EndPlaces
<1>6. CASE MySQL!First
  <2>1. main.pc = "first" /\ Same /\ drops' = drops /\ result' = result
    BY <1>6 DEF MySQL!First
  <2>2. main'.pc \in {"queue", "fail"}
    BY <1>1, <1>6 DEF MySQL!First, MySQL!Barrier
  <2> QED BY <1>1, <2>1, <2>2, SparedKeeps
     DEF Rebuilding, GoingOn, RowPlaces, StmtPlaces, EndPlaces
<1>7. CASE MySQL!Queue
  <2>1. main.pc = "queue" /\ Same /\ drops' = drops /\ result' = result
    BY <1>7 DEF MySQL!Queue
  <2>2. main'.pc \in {"alone", "read", "fail"}
    BY <1>1, <1>7 DEF MySQL!Queue
  <2> QED BY <1>1, <2>1, <2>2, SparedKeeps
     DEF Rebuilding, GoingOn, RowPlaces, StmtPlaces, EndPlaces
<1>8. CASE MySQL!Written
  <2>1. main.pc = "alone" /\ Same /\ drops' = drops /\ result' = result
    BY <1>8 DEF MySQL!Written
  <2>2. main'.pc \in {"read", "fail"}
    <3>1. \/ main' = [pc |-> "read", pos |-> main.pos + 1]
          \/ main' = [main EXCEPT !.pc = "fail"]
      BY <1>8 DEF MySQL!Written, MySQL!Barrier
    <3> QED BY <1>1, <3>1
  <2> QED BY <1>1, <2>1, <2>2, SparedKeeps
     DEF Rebuilding, GoingOn, RowPlaces, StmtPlaces, EndPlaces
<1>9. CASE MySQL!Exec
  <2>1. main.pc = "exec" /\ Same /\ drops' = drops /\ result' = result
    BY <1>9 DEF MySQL!Exec
  <2>2. main'.pc \in {"read", "session"}
    BY <1>1, <1>9 DEF MySQL!Exec
  <2> QED BY <1>1, <2>1, <2>2, SparedKeeps
     DEF Rebuilding, GoingOn, RowPlaces, StmtPlaces, EndPlaces
<1>10. CASE MySQL!ExecFails
  <2>1. main.pc = "exec" /\ Same /\ drops' = drops /\ result' = result
    BY <1>10 DEF MySQL!ExecFails
  <2>2. main'.pc \in {"again", "fail"}
    BY <1>1, <1>10 DEF MySQL!ExecFails
  <2> QED BY <1>1, <2>1, <2>2, SparedKeeps
     DEF Rebuilding, GoingOn, RowPlaces, StmtPlaces, EndPlaces
<1>11. CASE MySQL!Session
  <2>1. main.pc = "session" /\ Same /\ drops' = drops /\ result' = result
    BY <1>11 DEF MySQL!Session
  <2>2. main'.pc \in {"read", "fail"}
    BY <1>1, <1>11 DEF MySQL!Session
  <2> QED BY <1>1, <2>1, <2>2, SparedKeeps
     DEF Rebuilding, GoingOn, RowPlaces, StmtPlaces, EndPlaces
<1>12. CASE MySQL!CloseWriters
  <2>1. main.pc = "close" /\ Same /\ drops' = drops /\ result' = result
    BY <1>12 DEF MySQL!CloseWriters
  <2>2. main'.pc \in {"stop", "fail"}
    BY <1>1, <1>12 DEF MySQL!CloseWriters, MySQL!Barrier
  <2> QED BY <1>1, <2>1, <2>2, SparedKeeps
     DEF Rebuilding, GoingOn, RowPlaces, StmtPlaces, EndPlaces
<1>13. CASE MySQL!Stopped
  <2>1. main.pc = "stop" /\ Same /\ drops' = drops /\ result' = result
    BY <1>13 DEF MySQL!Stopped
  <2>2. main'.pc \in {"finish"}
    BY <1>1, <1>13 DEF MySQL!Stopped
  <2> QED BY <1>1, <2>1, <2>2, SparedKeeps
     DEF Rebuilding, GoingOn, RowPlaces, StmtPlaces, EndPlaces
<1>14. CASE MySQL!EndFails
  <2>1. main.pc = "end" /\ Same /\ drops' = drops /\ result' = result
    BY <1>14 DEF MySQL!EndFails
  <2>2. main'.pc \in {"fail"}
    BY <1>1, <1>14 DEF MySQL!EndFails
  <2> QED BY <1>1, <2>1, <2>2, SparedKeeps
     DEF Rebuilding, GoingOn, RowPlaces, StmtPlaces, EndPlaces
<1>15. CASE MySQL!Failing
  <2>1. main.pc = "fail" /\ Same /\ drops' = drops /\ result' = result
    BY <1>15 DEF MySQL!Failing
  <2>2. main'.pc \in {"drain"}
    BY <1>1, <1>15 DEF MySQL!Failing
  <2> QED BY <1>1, <2>1, <2>2, SparedKeeps
     DEF Rebuilding, GoingOn, RowPlaces, StmtPlaces, EndPlaces
<1>16. CASE MySQL!Defer
  <2>1. main.pc = "defer" /\ Same /\ result' = result BY <1>16 DEF MySQL!Defer
  <2>2. main'.pc \in {"exec", "flush", "clear"}
    BY <1>1, <1>16 DEF MySQL!Defer, MySQL!Goes
  <2>3. drops' \subseteq MySQL!Kinds
    <3>1. \A t, count : MySQL!Wanted(t, count) \subseteq MySQL!Kinds
      BY DEF MySQL!Wanted, MySQL!Kinds
    <3>2. drops' \subseteq MySQL!Wanted(Word[MySQL!Stmt.table],
        indexed[Word[MySQL!Stmt.table]] + 1)
      BY <1>16 DEF MySQL!Defer
    <3> QED BY <3>1, <3>2
  <2> QED BY <1>1, <2>1, <2>2, <2>3, SparedKeeps
     DEF Rebuilding, GoingOn, RowPlaces, StmtPlaces, EndPlaces
<1>17. CASE MySQL!Finish
  <2>1. main.pc = "finish" /\ Same /\ drops' = drops /\ result' = result
    BY <1>17 DEF MySQL!Finish
  <2>2. \/ main'.pc \in {"last", "fail"}
        \/ main'.pc = "end" /\ MySQL!Deferred = {}
    BY <1>1, <1>17 DEF MySQL!Finish, MySQL!Flush
  <2> QED BY <1>1, <2>1, <2>2, SparedKeeps
     DEF Rebuilding, GoingOn, RowPlaces, StmtPlaces, EndPlaces
<1>18. CASE MySQL!End
  <2>1. main.pc = "end" /\ Same /\ drops' = drops /\ main'.pc = "returned"
    BY <1>1, <1>18 DEF MySQL!End
  <2> QED BY <1>1, <2>1, SparedKeeps
     DEF Rebuilding, GoingOn, RowPlaces, StmtPlaces, EndPlaces
<1>19. CASE MySQL!Drained
  <2>1. /\ main.pc = "drain" /\ Same /\ drops' = drops /\ main'.pc = "returned"
        /\ result' = "error"
    BY <1>1, <1>19 DEF MySQL!Drained
  <2> QED BY <1>1, <2>1, SparedKeeps
     DEF Rebuilding, GoingOn, RowPlaces, StmtPlaces, EndPlaces
<1> QED BY <1>2, <1>3, <1>4, <1>5, <1>6, <1>7, <1>8, <1>9, <1>10, <1>11, <1>12, <1>13, <1>14,
           <1>15, <1>16, <1>17, <1>18, <1>19

\* A group that is done with a table, and the tables that are left.
LEMMA AlteringKeeps ==
  ASSUME MyInv, Indexed, NEW t \in Tables, MySQL!Alter(t) \/ MySQL!Altered(t)
  PROVE  Indexed'
<1>1. UNCHANGED <<dump, main, result, done, drops>>
  BY DEF MySQL!Alter, MySQL!Altered, MySQL!restore, MySQL!server, MySQL!deferrer
<1>2. \A u, v : MySQL!Joined(u, v)' = MySQL!Joined(u, v)
  BY <1>1 DEF MySQL!Joined, MySQL!ForeignKeys
<1>3. main.pc \notin Rebuilding => groups = {} /\ building = {} BY DeferredAre DEF PutBack
<1>4. CASE MySQL!Alter(t)
  <2>1. UNCHANGED <<held, groups, broken>> /\ building' = building \cup {t}
        /\ \E g \in groups : t \in g
    BY <1>4 DEF MySQL!Alter, MySQL!deferrer
  <2>2. MySQL!Deferred' = MySQL!Deferred BY <2>1 DEF MySQL!Deferred
  <2>3. IndexTypeOK' BY <1>1, <2>1, DeferredAre DEF IndexTypeOK
  <2>4. Apart' BY <1>2, <2>1, DeferredAre DEF Apart
  <2>5. PutBack' BY <1>1, <1>3, <2>1, <2>2, DeferredAre DEF PutBack
  <2> QED BY <2>3, <2>4, <2>5 DEF Indexed
<1>5. CASE MySQL!Altered(t)
  <2>1. /\ t \in building /\ building' = building \ {t}
        /\ groups' = {g \ {t} : g \in groups} \ {{}}
        /\ \/ held' = [held EXCEPT ![t] = {}] /\ broken' = broken
           \/ held' = held /\ broken' = TRUE
    BY <1>5 DEF MySQL!Altered
  <2>2. main.pc \in Rebuilding BY <1>3, <2>1
  <2>3. held \in [Tables -> SUBSET MySQL!Kinds] /\ broken \in BOOLEAN
        /\ groups \subseteq SUBSET Tables /\ building \subseteq Tables
    BY DeferredAre DEF IndexTypeOK
  <2>4. held' \in [Tables -> SUBSET MySQL!Kinds] /\ broken' \in BOOLEAN
    <3>1. CASE held' = [held EXCEPT ![t] = {}] /\ broken' = broken BY <2>3, <3>1
    <3>2. CASE held' = held /\ broken' = TRUE BY <2>3, <3>2
    <3> QED BY <2>1, <3>1, <3>2
  <2>5. /\ \A h \in groups' : \E g \in groups : h = g \ {t}
        /\ \A g \in groups : g \ {t} # {} => g \ {t} \in groups'
        /\ {} \notin groups'
    BY <2>1
  <2>6. IndexTypeOK' BY <1>1, <2>1, <2>3, <2>4, <2>5, DeferredAre DEF IndexTypeOK
  <2>7. Apart'
    <3> SUFFICES ASSUME NEW g \in groups', NEW h \in groups', g # h, NEW u \in g, NEW v \in h
                 PROVE  ~MySQL!Joined(u, v)
      BY <1>2 DEF Apart
    <3>1. PICK a \in groups, b \in groups : g = a \ {t} /\ h = b \ {t} BY <2>5
    <3> QED BY <3>1, DeferredAre DEF Apart
  <2>8. building' \subseteq UNION groups'
    <3> SUFFICES ASSUME NEW u \in building, u # t PROVE \E g \in groups' : u \in g BY <2>1
    <3>1. PICK g \in groups : u \in g BY DeferredAre DEF PutBack
    <3> QED BY <2>5, <3>1
  <2>9. broken' \/ MySQL!Deferred' \subseteq UNION groups'
    <3> SUFFICES ASSUME ~broken', NEW u \in MySQL!Deferred' PROVE \E g \in groups' : u \in g
      OBVIOUS
    <3>1. held' = [held EXCEPT ![t] = {}] /\ ~broken BY <2>1
    <3>2. u \in Tables /\ held'[u] # {} BY DEF MySQL!Deferred
    <3>3. u # t /\ held[u] # {} BY <2>3, <3>1, <3>2
    <3>4. PICK g \in groups : u \in g
      BY <2>2, <3>1, <3>2, <3>3, DeferredAre DEF PutBack
    <3> QED BY <2>5, <3>3, <3>4, ZenonT(60)
  <2>10. main'.pc # "end" /\ result' # "nil"
    BY <1>1, <2>2, DeferredAre DEF Rebuilding, MyPlaced
  <2>11. PutBack'
    BY <1>1, <2>2, <2>5, <2>8, <2>9, <2>10 DEF PutBack
  <2> QED BY <2>6, <2>7, <2>11 DEF Indexed
<1> QED BY <1>4, <1>5

LEMMA DropRebuildKeeps ==
  ASSUME MyInv, Indexed,
         MySQL!Drop \/ MySQL!Rebuild("again") \/ MySQL!Rebuild("last") \/ MySQL!Rebuilt
  PROVE  Indexed'
<1>1. main = [pc |-> main.pc, pos |-> main.pos] BY DeferredAre
<1>2. (groups = {} /\ building = {}) \/ main.pc \in Rebuilding BY DeferredAre DEF PutBack
<1>3. CASE MySQL!Drop
  <2>1. /\ main.pc = "drop" /\ UNCHANGED <<result, groups, building, broken>> /\ drops' = {}
        /\ \/ held' = [held EXCEPT ![Word[MySQL!Stmt.table]] = @ \cup drops]
           \/ held' = held
    BY <1>3 DEF MySQL!Drop, MySQL!At, MySQL!rebuild
  <2>2. main'.pc \in {"exec", "flush"} BY <1>1, <1>3 DEF MySQL!Drop, MySQL!Goes, MySQL!Goto
  <2>3. main.pc \in GoingOn \ Rebuilding /\ main'.pc \in GoingOn \ Rebuilding
    BY <2>1, <2>2 DEF GoingOn, RowPlaces, StmtPlaces, Rebuilding
  <2>4. held' \in [Tables -> SUBSET MySQL!Kinds]
    <3>1. held \in [Tables -> SUBSET MySQL!Kinds] /\ drops \subseteq MySQL!Kinds
      BY DeferredAre DEF IndexTypeOK
    <3> QED BY <2>1, <3>1
  <2>5. IndexTypeOK' BY <2>1, <2>4, DeferredAre DEF IndexTypeOK
  <2>6. result' # "nil" /\ ~broken /\ groups = {} /\ building = {}
    BY <1>2, <2>1, <2>3, DeferredAre DEF MyPlaced, PutBack
  <2>7. Apart' /\ PutBack' BY <2>1, <2>2, <2>3, <2>6 DEF Apart, PutBack
  <2> QED BY <2>5, <2>7 DEF Indexed
<1>4. CASE MySQL!Rebuild("again") \/ MySQL!Rebuild("last")
  <2>1. /\ main.pc \in {"again", "last"} /\ MySQL!Deferred # {}
        /\ UNCHANGED <<dump, done, result, held, drops, building, broken>>
        /\ groups' \in {MySQL!RelatedGroups(MySQL!Deferred), {MySQL!Deferred}}
    BY <1>4 DEF MySQL!Rebuild, MySQL!At, MySQL!restore, MySQL!server
  <2>2. main'.pc \in Rebuilding BY <1>1, <1>4 DEF MySQL!Rebuild, Rebuilding
  <2>3. /\ groups' \subseteq SUBSET Tables /\ {} \notin groups'
        /\ MySQL!Deferred \subseteq UNION groups'
        /\ \A g, h \in groups' : g # h => \A t \in g, u \in h : ~MySQL!Joined(t, u)
    BY <2>1, GroupsApart, DeferredAre
  <2>4. \A u, v : MySQL!Joined(u, v)' = MySQL!Joined(u, v)
    BY <2>1 DEF MySQL!Joined, MySQL!ForeignKeys
  <2>5. MySQL!Deferred' = MySQL!Deferred BY <2>1 DEF MySQL!Deferred
  <2>6. IndexTypeOK' BY <2>1, <2>3, DeferredAre DEF IndexTypeOK
  <2>7. Apart' BY <2>3, <2>4 DEF Apart
  <2>8. main.pc \notin Rebuilding /\ result' # "nil" /\ main'.pc # "end"
    BY <2>1, <2>2, DeferredAre DEF Rebuilding, MyPlaced
  <2>9. PutBack' BY <1>2, <2>1, <2>2, <2>3, <2>5, <2>8 DEF PutBack
  <2> QED BY <2>6, <2>7, <2>9 DEF Indexed
<1>5. CASE MySQL!Rebuilt
  <2>1. /\ main.pc \in Rebuilding /\ groups = {}
        /\ UNCHANGED <<result, held, drops, groups, building, broken>>
    BY <1>5 DEF MySQL!Rebuilt, MySQL!deferrer, MySQL!rebuild, Rebuilding
  <2>2. main'.pc \in (IF broken THEN {"fail"} ELSE {"end", "exec"})
    BY <1>1, <1>5 DEF MySQL!Rebuilt, MySQL!Outcome, MySQL!Goto
  <2>3. main'.pc \notin Rebuilding /\ (main'.pc \in GoingOn => ~broken)
    BY <2>2 DEF Rebuilding, GoingOn, RowPlaces, StmtPlaces, EndPlaces
  <2>4. building = {} /\ (~broken => MySQL!Deferred = {}) BY <2>1, DeferredAre DEF PutBack
  <2>5. MySQL!Deferred' = MySQL!Deferred /\ result' # "nil"
    BY <2>1, DeferredAre DEF MySQL!Deferred, MyPlaced, Rebuilding
  <2>6. IndexTypeOK' BY <2>1, DeferredAre DEF IndexTypeOK
  <2>7. Apart' BY <2>1 DEF Apart
  <2>8. PutBack' BY <2>1, <2>2, <2>3, <2>4, <2>5 DEF PutBack
  <2> QED BY <2>6, <2>7, <2>8 DEF Indexed
<1> QED BY <1>3, <1>4, <1>5

LEMMA IndexedKept == ASSUME MyInv, Indexed, MySQL!Next PROVE Indexed'
<1>1. ASSUME UNCHANGED <<dump, main, result, done, held, drops, groups, building, broken>>
      PROVE  Indexed'
  <2>1. \A u, v : MySQL!Joined(u, v)' = MySQL!Joined(u, v)
    BY <1>1 DEF MySQL!Joined, MySQL!ForeignKeys
  <2>2. MySQL!Deferred' = MySQL!Deferred BY <1>1 DEF MySQL!Deferred
  <2> QED BY <1>1, <2>1, <2>2 DEF Indexed, IndexTypeOK, Apart, PutBack
<1>2. CASE MySQL!CountTotal \/ MySQL!Cancel
  <2>1. UNCHANGED <<dump, main, result, done, held, drops, groups, building, broken>>
    BY <1>2 DEF MySQL!CountTotal, MySQL!Cancel, MySQL!restore, MySQL!server, MySQL!deferrer,
       MySQL!rebuild
  <2> QED BY <1>1, <2>1
<1>3. ASSUME NEW w \in MySQL!Writers, MySQL!Writer(w) \/ MySQL!WriteFails(w) PROVE Indexed'
  <2>1. UNCHANGED <<dump, main, result, done, held, drops, groups, building, broken>>
    BY <1>3 DEF MySQL!Writer, MySQL!WriteFails, MySQL!Look, MySQL!Wake, MySQL!Begin,
       MySQL!Wrote, MySQL!Only, MySQL!restore, MySQL!deferrer, MySQL!rebuild
  <2> QED BY <1>1, <2>1
<1>4. CASE MySQL!Altering BY <1>4, AlteringKeeps DEF MySQL!Altering
<1>5. CASE MySQL!Reader \/ MySQL!ExecFails \/ MySQL!EndFails
  BY <1>5, ReaderSparesIndexes, DropRebuildKeeps DEF MySQL!Reader
<1> QED BY <1>2, <1>3, <1>4, <1>5 DEF MySQL!Next, MySQL!Faults

LEMMA IndexedStarts == MySQL!Init => Indexed
<1> SUFFICES ASSUME MySQL!Init PROVE Indexed OBVIOUS
<1>1. /\ main = [pc |-> "read", pos |-> 1] /\ result = "none"
      /\ held = [t \in Tables |-> {}] /\ drops = {}
      /\ groups = {} /\ building = {} /\ broken = FALSE
  BY Zenon DEF MySQL!Init
<1>2. IndexTypeOK BY <1>1 DEF IndexTypeOK
<1>3. Apart /\ PutBack BY <1>1 DEF Apart, PutBack, Rebuilding
<1> QED BY <1>2, <1>3 DEF Indexed

-----------------------------------------------------------------------------
(* What is shown *)

\* The rows of a table stand together in a dump.
RowsTogether(d) ==
  \A i, j, k \in DOMAIN d :
    /\ d[i].kind = "rows" /\ d[j].kind = "rows" /\ d[k].kind = "rows"
    /\ i < j /\ j < k /\ Word[d[i].table] = Word[d[k].table]
    => Word[d[j].table] = Word[d[i].table]

WordAt(i) == Word[dump[i].table]
\* The rows whose table the progress has named.
Firsts == {"first", "queue", "alone"}
NamedRows == {i \in MySQL!Rows : i < main.pos \/ (i = main.pos /\ main.pc \in Firsts)}
NamedTables == {WordAt(i) : i \in NamedRows}
Concluding == {"last", "rebuild", "end"}

Blank == ""
Names == {Blank} \cup {Word[t] : t \in Tables}
ProgressRecords == [done : Nat, current : Names, total : Nat]
Unnamed == progress.current = ""
\* The tables counted are those named, the last of them only once it is finished.
Naming ==
  /\ progress.done + (IF Unnamed THEN 0 ELSE 1) = Cardinality(NamedTables)
  /\ ~Unnamed =>
       \E i \in NamedRows : WordAt(i) = progress.current /\ \A j \in NamedRows : j <= i
  /\ Unnamed => NamedRows = {}
  /\ progress.total \in {0, Cardinality(MySQL!RowTables)}
Finished ==
  /\ ~counting /\ progress.done = Cardinality(MySQL!RowTables)
  /\ progress.total = progress.done
ShownSoFar ==
  /\ progress \in ProgressRecords
  /\ main.pc \in GoingOn \ Concluding => Naming
  /\ main.pc \in Concluding \/ result = "nil" => Finished

LEMMA NamedAre ==
  ASSUME MyInv
  PROVE  /\ main = [pc |-> main.pc, pos |-> main.pos] /\ main.pos \in Nat
         /\ IsFiniteSet(MySQL!Rows) /\ \A i \in MySQL!Rows : i \in Nat
         /\ IsFiniteSet(NamedTables) /\ IsFiniteSet(MySQL!RowTables)
         /\ Cardinality(NamedTables) \in Nat /\ Cardinality(MySQL!RowTables) \in Nat
         /\ \A i \in MySQL!Rows : WordAt(i) \in Names
<1>1. /\ main = [pc |-> main.pc, pos |-> main.pos] /\ main.pos \in Nat /\ L \in Nat
      /\ MySQL!Rows \subseteq 1 .. L /\ \A i \in MySQL!Rows : i \in Nat /\ dump[i].table \in Tables
  BY MyDumps DEF MyInv, MyTypeOK
<1>2. IsFiniteSet(MySQL!Rows)
  <2>1. IsFiniteSet(1 .. L) BY <1>1, FS_Interval
  <2> QED BY <1>1, <2>1, FS_Subset
<1>3. NamedTables \subseteq MySQL!RowTables
  BY DEF NamedTables, NamedRows, WordAt, MySQL!RowTables
<1>4. IsFiniteSet(MySQL!RowTables)
  <2> DEFINE named == [i \in MySQL!Rows |-> WordAt(i)]
  <2>1. named \in Surjection(MySQL!Rows, MySQL!RowTables)
    BY DEF MySQL!RowTables, WordAt, Surjection
  <2> QED BY <1>2, <2>1, FS_Surjection
<1>5. IsFiniteSet(NamedTables) BY <1>3, <1>4, FS_Subset
<1>6. \A i \in MySQL!Rows : WordAt(i) \in Names BY <1>1 DEF WordAt, Names
<1> QED BY <1>1, <1>2, <1>4, <1>5, <1>6, FS_CardinalityType

LEMMA WordsAreNamed == ASSUME MyInv PROVE \A i \in MySQL!Rows : WordAt(i) # ""
<1>1. \A i \in MySQL!Rows : dump[i].table \in Tables BY MyDumps DEF MyInv
<1> QED BY Zenon, <1>1, MySQLAssumption DEF WordAt

LEMMA LastOfThem ==
  ASSUME NEW S, NEW p \in Nat, \A j \in S : j \in Nat /\ j < p
  PROVE  \A j \in S \cup {p} : j <= p
OBVIOUS

\* What a table's name makes of the progress.
LEMMA NamesAnotherTable ==
  ASSUME NEW r, NEW word,
         word # progress.current, r = MySQL!Named(progress, word)
  PROVE  r = [progress EXCEPT !.current = word, !.done = IF Unnamed THEN @ ELSE @ + 1]
  BY Zenon DEF MySQL!Named, Unnamed
LEMMA AnotherTable ==
  ASSUME progress \in ProgressRecords, NEW word \in Names, NEW r,
     r = [progress EXCEPT !.current = word, !.done = IF Unnamed THEN @ ELSE @ + 1]
  PROVE  /\ r \in ProgressRecords
         /\ r.current = word /\ r.total = progress.total
         /\ r.done = IF Unnamed THEN progress.done ELSE progress.done + 1
<1>1. CASE Unnamed BY <1>1 DEF ProgressRecords
<1>2. CASE ~Unnamed
  <2>1. progress.done \in Nat /\ progress.done + 1 \in Nat BY DEF ProgressRecords
  <2>2. r = [progress EXCEPT !.current = word, !.done = progress.done + 1] BY <1>2
  <2> DEFINE d == progress.done + 1
  <2> HIDE DEF d
  <2>3. r = [progress EXCEPT !.current = word, !.done = d] /\ d \in Nat BY <2>1, <2>2 DEF d
  <2>4. r \in ProgressRecords /\ r.current = word /\ r.total = progress.total /\ r.done = d
    BY <2>3 DEF ProgressRecords
  <2> QED BY <1>2, <2>4 DEF d
<1> QED BY <1>1, <1>2

\* The first row of another table, or another row of the table named last.
LEMMA NamesNext ==
  ASSUME MyInv, RowsTogether(dump), ShownSoFar, Naming, dump' = dump,
         main.pos \in MySQL!Rows, NamedRows = {i \in MySQL!Rows : i < main.pos},
         NamedRows' = NamedRows \cup {main.pos},
         progress' = MySQL!Named(progress, WordAt(main.pos))
  PROVE  progress' \in ProgressRecords /\ Naming'
<1> DEFINE p == main.pos
           word == WordAt(p)
<1>1. /\ p \in Nat /\ \A i \in MySQL!Rows : i \in Nat /\ WordAt(i) \in Names
      /\ IsFiniteSet(NamedTables) /\ Cardinality(NamedTables) \in Nat
  BY NamedAre
<1>2. \A i \in MySQL!Rows : WordAt(i) # progress.current \/ ~Unnamed
  BY Zenon, WordsAreNamed DEF Unnamed
<1>3. /\ progress \in ProgressRecords
      /\ progress.done + (IF Unnamed THEN 0 ELSE 1) = Cardinality(NamedTables)
      /\ ~Unnamed => \E i \in NamedRows :
           WordAt(i) = progress.current /\ \A j \in NamedRows : j <= i
      /\ Unnamed => NamedRows = {}
      /\ progress.total \in {0, Cardinality(MySQL!RowTables)}
  BY DEF ShownSoFar, Naming
<1>4. /\ \A i : WordAt(i)' = WordAt(i)
      /\ MySQL!RowTables' = MySQL!RowTables /\ NamedTables' = NamedTables \cup {word}
  BY DEF WordAt, MySQL!RowTables, MySQL!Rows, MySQL!IsRows, NamedTables
<1>5. p \in NamedRows' /\ \A j \in NamedRows' : j <= p
  <2>1. \A j \in NamedRows : j \in Nat /\ j < p BY <1>1
  <2> QED BY <1>1, <2>1, LastOfThem
<1>6. CASE word = progress.current
  <2>1. progress' = progress BY Zenon, <1>6 DEF MySQL!Named
  <2>2. ~Unnamed /\ ~Unnamed' BY <1>2, <1>6, <2>1 DEF Unnamed
  <2>3. word \in NamedTables BY <1>3, <1>6, <2>2 DEF NamedTables
  <2>4. NamedTables' = NamedTables BY <1>4, <2>3
  <2> QED BY <1>3, <1>4, <1>5, <1>6, <2>1, <2>2, <2>4 DEF Naming
<1>7. CASE word # progress.current
  <2>1. progress' = [progress EXCEPT !.current = word, !.done = IF Unnamed THEN @ ELSE @ + 1]
    BY <1>7, NamesAnotherTable
  <2>2. /\ progress' \in ProgressRecords
        /\ progress'.current = word /\ progress'.total = progress.total
        /\ progress'.done = IF Unnamed THEN progress.done ELSE progress.done + 1
    BY <1>1, <1>3, <2>1, AnotherTable
  <2>3. ~Unnamed'
    <3>1. word # "" BY Zenon, WordsAreNamed
    <3> QED BY Zenon, <2>2, <3>1 DEF Unnamed
  <2>4. word \notin NamedTables
    <3> SUFFICES ASSUME NEW j \in NamedRows, WordAt(j) = word PROVE FALSE BY DEF NamedTables
    <3>1. ~Unnamed BY <1>3
    <3>2. PICK i \in NamedRows : WordAt(i) = progress.current /\ \A k \in NamedRows : k <= i
      BY <1>3, <3>1
    <3>3. j <= i /\ i < p /\ j # i /\ i \in MySQL!Rows /\ j \in MySQL!Rows
      BY <1>7, <3>2
    <3>4. j < i
      <4>1. i \in Nat /\ j \in Nat BY <1>1, <3>3
      <4> QED BY <3>3, <4>1
    <3>5. /\ i \in DOMAIN dump /\ j \in DOMAIN dump /\ p \in DOMAIN dump
          /\ dump[i].kind = "rows" /\ dump[j].kind = "rows" /\ dump[p].kind = "rows"
      BY <3>3 DEF MySQL!Rows, MySQL!IsRows
    <3>6. WordAt(i) = WordAt(j) BY <3>3, <3>4, <3>5 DEF RowsTogether, WordAt
    <3> QED BY <1>7, <3>2, <3>6
  <2>5. Cardinality(NamedTables') = Cardinality(NamedTables) + 1
    BY <1>1, <1>4, <2>4, FS_AddElement
  <2>6. progress'.done + 1 = Cardinality(NamedTables')
    <3>1. progress.done \in Nat BY <1>3 DEF ProgressRecords
    <3>2. CASE Unnamed BY <1>1, <1>3, <2>2, <2>5, <3>1, <3>2
    <3>3. CASE ~Unnamed BY <1>1, <1>3, <2>2, <2>5, <3>1, <3>3
    <3> QED BY <3>2, <3>3
  <2>7. progress'.done + (IF Unnamed' THEN 0 ELSE 1) = Cardinality(NamedTables')
    BY <2>3, <2>6
  <2> QED BY <1>3, <1>4, <1>5, <2>2, <2>3, <2>7 DEF Naming
<1> QED BY <1>6, <1>7

\* A step on which no table is named.
LEMMA NamesNothing ==
  ASSUME MyInv, ShownSoFar, dump' = dump,
         progress' = progress, counting' = counting \/ counting' = FALSE,
         main'.pc \in GoingOn =>
           main.pc \in GoingOn /\ (main'.pc \in Concluding <=> main.pc \in Concluding),
         main'.pc \in GoingOn => NamedRows' = NamedRows,
         result' = "nil" => result = "nil" \/ main.pc = "end"
  PROVE  ShownSoFar'
<1>1. \A i : WordAt(i)' = WordAt(i) BY DEF WordAt
<1>2. MySQL!RowTables' = MySQL!RowTables
  BY DEF MySQL!RowTables, MySQL!Rows, MySQL!IsRows
<1>3. main'.pc \in GoingOn \ Concluding => Naming'
  <2> SUFFICES ASSUME main'.pc \in GoingOn \ Concluding PROVE Naming' OBVIOUS
  <2>1. NamedRows' = NamedRows OBVIOUS
  <2>2. NamedTables' = NamedTables BY <1>1, <2>1 DEF NamedTables
  <2>3. Naming BY DEF ShownSoFar
  <2>4. Unnamed' = Unnamed BY DEF Unnamed
  <2> QED BY <1>1, <1>2, <2>1, <2>2, <2>3, <2>4 DEF Naming
<1>4. Concluding \subseteq GoingOn /\ "end" \in Concluding BY DEF Concluding, GoingOn, EndPlaces
<1>5. main'.pc \in Concluding \/ result' = "nil" => Finished'
  BY <1>2, <1>4 DEF ShownSoFar, Finished
<1> QED BY <1>3, <1>5 DEF ShownSoFar

\* How the reader moves: at its statement, or past one that is not a row or whose
\* table is named.
Moves ==
  \/ main'.pos = main.pos /\ (main'.pc \in Firsts <=> main.pc \in Firsts)
  \/ main'.pos = main.pos + 1 /\ main'.pc = "read"
     /\ (main.pos \notin MySQL!Rows \/ main.pc \in Firsts)
LEMMA NamedStay ==
  ASSUME MyInv, dump' = dump, Moves PROVE NamedRows' = NamedRows
<1>1. MySQL!Rows' = MySQL!Rows BY DEF MySQL!Rows, MySQL!IsRows
<1>2. main.pos \in Nat /\ \A i \in MySQL!Rows : i \in Nat BY NamedAre
<1>3. CASE main'.pos = main.pos /\ (main'.pc \in Firsts <=> main.pc \in Firsts)
  BY <1>1, <1>3 DEF NamedRows
<1>4. CASE main'.pos = main.pos + 1 /\ main'.pc = "read"
           /\ (main.pos \notin MySQL!Rows \/ main.pc \in Firsts)
  <2>1. main'.pc \notin Firsts BY <1>4 DEF Firsts
  <2>2. \A i \in MySQL!Rows : i < main.pos + 1 <=> i < main.pos \/ i = main.pos BY <1>2
  <2> QED BY <1>1, <1>4, <2>1, <2>2 DEF NamedRows
<1> QED BY <1>3, <1>4 DEF Moves

\* The reader's steps that name no table.
LEMMA ReaderNamesNothing ==
  ASSUME MyInv, ShownSoFar,
         \/ MySQL!Read \/ MySQL!WaitForRows \/ MySQL!Defer \/ MySQL!Clear \/ MySQL!Drop
         \/ MySQL!First \/ MySQL!Queue \/ MySQL!Written \/ MySQL!ExecFails
         \/ MySQL!Session \/ MySQL!CloseWriters \/ MySQL!Stopped
         \/ MySQL!End \/ MySQL!EndFails \/ MySQL!Failing \/ MySQL!Drained
         \/ MySQL!Rebuild("again") \/ MySQL!Rebuild("last") \/ MySQL!Rebuilt
         \/ MySQL!Exec /\ ~MySQL!IsRows(main.pos)
  PROVE  ShownSoFar'
<1>1. main = [pc |-> main.pc, pos |-> main.pos] BY NamedAre
<1> USE DEF MySQL!At, MySQL!Goto, MySQL!restore, MySQL!shown
<1>2. CASE MySQL!Read
  <2>1. main.pc = "read" /\ UNCHANGED <<dump, result, counting, progress>>
    BY <1>2 DEF MySQL!Read
  <2>2. \/ main' = [pc |-> "read", pos |-> main.pos + 1]
        \/ \E pc \in {"finish", "close", "fail", "defer", "exec", "alone wait"} :
             main' = [main EXCEPT !.pc = pc]
    BY <1>2 DEF MySQL!Read, MySQL!NextStmt
  <2>3. CASE main' = [pc |-> "read", pos |-> main.pos + 1]
    <3>1. main'.pc = "read" /\ main'.pos = main.pos + 1 BY <2>3
    <3>2. main.pos \notin MySQL!Rows
      <4>1. \A pc : main' # [main EXCEPT !.pc = pc]
        <5>1. main.pos + 1 # main.pos BY NamedAre
        <5>2. \A pc : [main EXCEPT !.pc = pc].pos = main.pos BY <1>1
        <5> QED BY <3>1, <5>1, <5>2
      <4>2. MySQL!Stmt.kind = "lock" BY <1>2, <4>1 DEF MySQL!Read
      <4> QED BY <4>2 DEF MySQL!Stmt, MySQL!Rows, MySQL!IsRows
    <3> QED BY <2>1, <3>1, <3>2, NamesNothing, NamedStay
        DEF Moves, Firsts, Concluding, GoingOn, RowPlaces, StmtPlaces, EndPlaces
  <2>4. CASE \E pc \in {"finish", "close", "fail", "defer", "exec", "alone wait"} :
               main' = [main EXCEPT !.pc = pc]
    <3>1. /\ main'.pc \in {"finish", "close", "fail", "defer", "exec", "alone wait"}
          /\ main'.pos = main.pos
      BY <1>1, <2>4
    <3> QED BY <2>1, <3>1, NamesNothing, NamedStay
        DEF Moves, Firsts, Concluding, GoingOn, RowPlaces, StmtPlaces, EndPlaces
  <2> QED BY <2>2, <2>3, <2>4
<1>3. CASE MySQL!WaitForRows
  <2>1. main.pc = "alone wait" /\ UNCHANGED <<dump, result, counting, progress>>
    BY <1>3 DEF MySQL!WaitForRows
  <2>2. main'.pc \in {"exec", "fail"} /\ main'.pos = main.pos
    BY <1>1, <1>3 DEF MySQL!WaitForRows, MySQL!Wait, MySQL!Barrier
  <2> QED BY <2>1, <2>2, NamesNothing, NamedStay
      DEF Moves, Firsts, Concluding, GoingOn, RowPlaces, StmtPlaces, EndPlaces
<1>4. CASE MySQL!Defer
  <2>1. main.pc = "defer" /\ UNCHANGED <<dump, result, counting, progress>>
    BY <1>4 DEF MySQL!Defer
  <2>2. main'.pc \in {"exec", "flush", "clear"} /\ main'.pos = main.pos
    BY <1>1, <1>4 DEF MySQL!Defer, MySQL!Goes
  <2> QED BY <2>1, <2>2, NamesNothing, NamedStay
      DEF Moves, Firsts, Concluding, GoingOn, RowPlaces, StmtPlaces, EndPlaces
<1>5. CASE MySQL!Clear
  <2>1. main.pc = "clear" /\ UNCHANGED <<dump, result, counting, progress>>
    BY <1>5 DEF MySQL!Clear
  <2>2. main'.pc \in {"drop", "fail"} /\ main'.pos = main.pos
    BY <1>1, <1>5 DEF MySQL!Clear, MySQL!barrier, MySQL!Barrier, MySQL!Flush
  <2> QED BY <2>1, <2>2, NamesNothing, NamedStay
      DEF Moves, Firsts, Concluding, GoingOn, RowPlaces, StmtPlaces, EndPlaces
<1>6. CASE MySQL!Drop
  <2>1. main.pc = "drop" /\ UNCHANGED <<dump, result, counting, progress>>
    BY <1>6 DEF MySQL!Drop
  <2>2. main'.pc \in {"exec", "flush"} /\ main'.pos = main.pos
    BY <1>1, <1>6 DEF MySQL!Drop, MySQL!Goes
  <2> QED BY <2>1, <2>2, NamesNothing, NamedStay
      DEF Moves, Firsts, Concluding, GoingOn, RowPlaces, StmtPlaces, EndPlaces
<1>7. CASE MySQL!First
  <2>1. main.pc = "first" /\ UNCHANGED <<dump, result, counting, progress>>
    BY <1>7 DEF MySQL!First
  <2>2. main'.pc \in {"queue", "fail"} /\ main'.pos = main.pos
    BY <1>1, <1>7 DEF MySQL!First, MySQL!Barrier
  <2> QED BY <2>1, <2>2, NamesNothing, NamedStay
      DEF Moves, Firsts, Concluding, GoingOn, RowPlaces, StmtPlaces, EndPlaces
<1>8. CASE MySQL!Queue
  <2>1. main.pc = "queue" /\ UNCHANGED <<dump, result, counting, progress>>
    BY <1>8 DEF MySQL!Queue
  <2>2. \/ main' = [pc |-> "read", pos |-> main.pos + 1]
        \/ \E pc \in {"alone", "fail"} : main' = [main EXCEPT !.pc = pc]
    BY <1>8 DEF MySQL!Queue, MySQL!NextStmt
  <2>3. CASE main' = [pc |-> "read", pos |-> main.pos + 1]
    <3>1. main'.pc = "read" /\ main'.pos = main.pos + 1 BY <2>3
    <3> QED BY <2>1, <3>1, NamesNothing, NamedStay
        DEF Moves, Firsts, Concluding, GoingOn, RowPlaces, StmtPlaces, EndPlaces
  <2>4. CASE \E pc \in {"alone", "fail"} : main' = [main EXCEPT !.pc = pc]
    <3>1. main'.pc \in {"alone", "fail"} /\ main'.pos = main.pos BY <1>1, <2>4
    <3> QED BY <2>1, <3>1, NamesNothing, NamedStay
        DEF Moves, Firsts, Concluding, GoingOn, RowPlaces, StmtPlaces, EndPlaces
  <2> QED BY <2>2, <2>3, <2>4
<1>9. CASE MySQL!Written
  <2>1. main.pc = "alone" /\ UNCHANGED <<dump, result, counting, progress>>
    BY <1>9 DEF MySQL!Written
  <2>2. \/ main' = [pc |-> "read", pos |-> main.pos + 1]
        \/ \E pc \in {"fail"} : main' = [main EXCEPT !.pc = pc]
    BY <1>9 DEF MySQL!Written, MySQL!NextStmt, MySQL!Barrier
  <2>3. CASE main' = [pc |-> "read", pos |-> main.pos + 1]
    <3>1. main'.pc = "read" /\ main'.pos = main.pos + 1 BY <2>3
    <3> QED BY <2>1, <3>1, NamesNothing, NamedStay
        DEF Moves, Firsts, Concluding, GoingOn, RowPlaces, StmtPlaces, EndPlaces
  <2>4. CASE \E pc \in {"fail"} : main' = [main EXCEPT !.pc = pc]
    <3>1. main'.pc \in {"fail"} /\ main'.pos = main.pos BY <1>1, <2>4
    <3> QED BY <2>1, <3>1, NamesNothing, NamedStay
        DEF Moves, Firsts, Concluding, GoingOn, RowPlaces, StmtPlaces, EndPlaces
  <2> QED BY <2>2, <2>3, <2>4
<1>10. CASE MySQL!ExecFails
  <2>1. main.pc = "exec" /\ UNCHANGED <<dump, result, counting, progress>>
    BY <1>10 DEF MySQL!ExecFails
  <2>2. main'.pc \in {"again", "fail"} /\ main'.pos = main.pos
    BY <1>1, <1>10 DEF MySQL!ExecFails
  <2> QED BY <2>1, <2>2, NamesNothing, NamedStay
      DEF Moves, Firsts, Concluding, GoingOn, RowPlaces, StmtPlaces, EndPlaces
<1>11. CASE MySQL!Session
  <2>1. main.pc = "session" /\ UNCHANGED <<dump, result, counting, progress>>
    BY <1>11 DEF MySQL!Session
  <2>2. \/ main' = [pc |-> "read", pos |-> main.pos + 1]
        \/ \E pc \in {"fail"} : main' = [main EXCEPT !.pc = pc]
    BY <1>11 DEF MySQL!Session, MySQL!NextStmt
  <2>3. CASE main' = [pc |-> "read", pos |-> main.pos + 1]
    <3>1. main'.pc = "read" /\ main'.pos = main.pos + 1 BY <2>3
    <3>2. main.pos \notin MySQL!Rows
      <4>1. dump[main.pos].kind = "session" BY <2>1 DEF MyInv, MyPlaced
      <4> QED BY <4>1 DEF MySQL!Rows, MySQL!IsRows
    <3> QED BY <2>1, <3>1, <3>2, NamesNothing, NamedStay
        DEF Moves, Firsts, Concluding, GoingOn, RowPlaces, StmtPlaces, EndPlaces
  <2>4. CASE \E pc \in {"fail"} : main' = [main EXCEPT !.pc = pc]
    <3>1. main'.pc \in {"fail"} /\ main'.pos = main.pos BY <1>1, <2>4
    <3> QED BY <2>1, <3>1, NamesNothing, NamedStay
        DEF Moves, Firsts, Concluding, GoingOn, RowPlaces, StmtPlaces, EndPlaces
  <2> QED BY <2>2, <2>3, <2>4
<1>12. CASE MySQL!CloseWriters
  <2>1. main.pc = "close" /\ UNCHANGED <<dump, result, counting, progress>>
    BY <1>12 DEF MySQL!CloseWriters
  <2>2. main'.pc \in {"stop", "fail"} /\ main'.pos = main.pos
    BY <1>1, <1>12 DEF MySQL!CloseWriters, MySQL!Barrier
  <2> QED BY <2>1, <2>2, NamesNothing, NamedStay
      DEF Moves, Firsts, Concluding, GoingOn, RowPlaces, StmtPlaces, EndPlaces
<1>13. CASE MySQL!Stopped
  <2>1. main.pc = "stop" /\ UNCHANGED <<dump, result, counting, progress>>
    BY <1>13 DEF MySQL!Stopped
  <2>2. main'.pc \in {"finish"} /\ main'.pos = main.pos
    BY <1>1, <1>13 DEF MySQL!Stopped
  <2> QED BY <2>1, <2>2, NamesNothing, NamedStay
      DEF Moves, Firsts, Concluding, GoingOn, RowPlaces, StmtPlaces, EndPlaces
<1>14. CASE MySQL!EndFails
  <2>1. main.pc = "end" /\ UNCHANGED <<dump, result, counting, progress>>
    BY <1>14 DEF MySQL!EndFails
  <2>2. main'.pc \in {"fail"} /\ main'.pos = main.pos
    BY <1>1, <1>14 DEF MySQL!EndFails
  <2> QED BY <2>1, <2>2, NamesNothing, NamedStay
      DEF Moves, Firsts, Concluding, GoingOn, RowPlaces, StmtPlaces, EndPlaces
<1>15. CASE MySQL!Failing
  <2>1. main.pc = "fail" /\ UNCHANGED <<dump, result, counting, progress>>
    BY <1>15 DEF MySQL!Failing
  <2>2. main'.pc \in {"drain"} /\ main'.pos = main.pos
    BY <1>1, <1>15 DEF MySQL!Failing
  <2> QED BY <2>1, <2>2, NamesNothing, NamedStay
      DEF Moves, Firsts, Concluding, GoingOn, RowPlaces, StmtPlaces, EndPlaces
<1>16. CASE MySQL!End \/ MySQL!Drained
  <2>1. /\ main.pc \in {"end", "drain"} /\ UNCHANGED <<dump, progress>>
        /\ main'.pc = "returned" /\ main'.pos = main.pos
        /\ counting' = counting \/ counting' = FALSE
        /\ result' = "nil" => main.pc = "end" /\ counting' = counting
    BY <1>1, <1>16 DEF MySQL!End, MySQL!Drained
  <2> QED BY <2>1, NamesNothing, NamedStay
     DEF Moves, Firsts, Concluding, GoingOn, RowPlaces, StmtPlaces, EndPlaces
<1>17. CASE MySQL!Rebuild("again") \/ MySQL!Rebuild("last") \/ MySQL!Rebuilt
  <2>1. /\ UNCHANGED <<dump, result, counting, progress>> /\ main'.pos = main.pos
        /\ \/ main.pc = "again" /\ main'.pc = "rebuild early"
           \/ main.pc = "last" /\ main'.pc = "rebuild"
           \/ main.pc \in {"rebuild", "rebuild early"} /\ main'.pc = "fail"
           \/ main.pc = "rebuild" /\ main'.pc = "end"
           \/ main.pc = "rebuild early" /\ main'.pc = "exec"
    BY <1>1, <1>17 DEF MySQL!Rebuild, MySQL!Rebuilt, MySQL!Outcome
  <2> QED BY <2>1, NamesNothing, NamedStay
     DEF Moves, Firsts, Concluding, GoingOn, RowPlaces, StmtPlaces, EndPlaces
<1>18. CASE MySQL!Exec /\ ~MySQL!IsRows(main.pos)
  <2>1. /\ main.pc = "exec" /\ UNCHANGED <<dump, result, counting>>
        /\ progress' = progress
        /\ \/ main' = [pc |-> "read", pos |-> main.pos + 1]
           \/ main' = [main EXCEPT !.pc = "session"]
    BY <1>18 DEF MySQL!Exec, MySQL!NextStmt
  <2>2. main.pos \notin MySQL!Rows BY <1>18 DEF MySQL!Rows
  <2>3. CASE main' = [pc |-> "read", pos |-> main.pos + 1]
    <3>1. main'.pc = "read" /\ main'.pos = main.pos + 1 BY <2>3
    <3> QED BY <2>1, <2>2, <3>1, NamesNothing, NamedStay
         DEF Moves, Firsts, Concluding, GoingOn, RowPlaces, StmtPlaces, EndPlaces
  <2>4. CASE main' = [main EXCEPT !.pc = "session"]
    <3>1. main'.pc = "session" /\ main'.pos = main.pos BY <1>1, <2>4
    <3> QED BY <2>1, <3>1, NamesNothing, NamedStay
         DEF Moves, Firsts, Concluding, GoingOn, RowPlaces, StmtPlaces, EndPlaces
  <2> QED BY <2>1, <2>3, <2>4
<1> QED BY <1>2, <1>3, <1>4, <1>5, <1>6, <1>7, <1>8, <1>9, <1>10, <1>11, <1>12, <1>13, <1>14,
    <1>15, <1>16, <1>17, <1>18

LEMMA NamesSome ==
  ASSUME progress \in ProgressRecords, NEW word \in Names, progress' = MySQL!Named(progress, word)
  PROVE  progress' \in ProgressRecords
<1>1. CASE word = progress.current
  <2>1. progress' = progress BY Zenon, <1>1 DEF MySQL!Named
  <2> QED BY <2>1
<1>2. CASE word # progress.current
  <2>1. progress' = [progress EXCEPT !.current = word, !.done = IF Unnamed THEN @ ELSE @ + 1]
    BY <1>2, NamesAnotherTable
  <2> QED BY <2>1, AnotherTable
<1> QED BY <1>1, <1>2

\* A table is named where its rows are queued, or run on the restore's own connection.
LEMMA RowsAreNamed ==
  ASSUME MyInv, ShownSoFar, RowsTogether(dump),
         MySQL!FlushOwn \/ (MySQL!Exec /\ MySQL!IsRows(main.pos))
  PROVE  ShownSoFar'
<1> DEFINE word == WordAt(main.pos)
<1>1. main = [pc |-> main.pc, pos |-> main.pos] /\ main.pos \in Nat BY NamedAre
<1>2. /\ main.pc \in {"flush", "exec"} /\ UNCHANGED <<dump, result, counting>>
      /\ progress' = MySQL!Named(progress, word)
  <2>1. CASE MySQL!FlushOwn
    BY <2>1 DEF MySQL!FlushOwn, MySQL!At, MySQL!restore, MySQL!Stmt, WordAt
  <2>2. CASE MySQL!Exec /\ MySQL!IsRows(main.pos)
    <3>1. MySQL!Stmt.kind # "session" BY <2>2 DEF MySQL!IsRows, MySQL!Stmt
    <3>2. /\ main.pc = "exec" /\ UNCHANGED <<dump, result, counting>>
          /\ progress' = MySQL!Named(progress, Word[MySQL!Stmt.table])
      BY <2>2, <3>1 DEF MySQL!Exec, MySQL!At, MySQL!restore
    <3> QED BY <3>2 DEF MySQL!Stmt, WordAt
  <2> QED BY <2>1, <2>2
<1>3. \/ main' = [main EXCEPT !.pc = "fail"]
      \/ main.pc = "flush" /\ \E pc \in {"first", "queue"} : main' = [main EXCEPT !.pc = pc]
      \/ main' = [pc |-> "read", pos |-> main.pos + 1]
  <2>1. CASE MySQL!FlushOwn
    BY <2>1 DEF MySQL!FlushOwn, MySQL!At, MySQL!Flush, MySQL!Goto
  <2>2. CASE MySQL!Exec /\ MySQL!IsRows(main.pos)
    <3>1. MySQL!Stmt.kind # "session" BY <2>2 DEF MySQL!IsRows, MySQL!Stmt
    <3> QED BY <2>2, <3>1 DEF MySQL!Exec, MySQL!NextStmt
  <2> QED BY <2>1, <2>2
<1>4. main.pos \in MySQL!Rows
  <2>1. MySQL!IsRows(main.pos)
    <3>1. MySQL!FlushOwn => main.pc = "flush" BY DEF MySQL!FlushOwn, MySQL!At
    <3> QED BY <3>1 DEF MyInv, MyPlaced, RowPlaces
  <2> QED BY <1>2, <2>1 DEF MyInv, MyPlaced, MySQL!Rows, RowPlaces, StmtPlaces
<1>5. NamedRows = {i \in MySQL!Rows : i < main.pos} BY <1>2 DEF NamedRows, Firsts
<1>6. /\ main.pc \in GoingOn \ Concluding /\ result # "nil"
  BY <1>2 DEF GoingOn, RowPlaces, StmtPlaces, Concluding, MyInv, MyPlaced
<1>7. Naming /\ progress \in ProgressRecords BY <1>6 DEF ShownSoFar
<1>8. progress' \in ProgressRecords
  <2>1. word \in Names BY <1>4, NamedAre
  <2> QED BY <1>2, <1>7, <2>1, NamesSome
<1>9. MySQL!Rows' = MySQL!Rows BY <1>2 DEF MySQL!Rows, MySQL!IsRows
<1>10. CASE main' = [main EXCEPT !.pc = "fail"]
  <2>1. main'.pc = "fail" BY <1>1, <1>10
  <2>2. "fail" \notin GoingOn /\ "fail" \notin Concluding
    BY DEF GoingOn, RowPlaces, StmtPlaces, EndPlaces, Concluding
  <2> QED BY <1>2, <1>6, <1>8, <2>1, <2>2 DEF ShownSoFar
<1>11. ASSUME NamedRows' = NamedRows \cup {main.pos}, main'.pc \notin Concluding PROVE ShownSoFar'
  <2>1. Naming' BY <1>2, <1>4, <1>5, <1>7, <1>11, NamesNext
  <2> QED BY <1>2, <1>6, <1>8, <1>11, <2>1 DEF ShownSoFar
<1>12. CASE \E pc \in {"first", "queue"} : main' = [main EXCEPT !.pc = pc]
  <2>1. main'.pc \in {"first", "queue"} /\ main'.pos = main.pos BY <1>1, <1>12
  <2>2. NamedRows' = NamedRows \cup {main.pos}
    BY <1>4, <1>5, <1>9, <2>1 DEF NamedRows, Firsts
  <2> QED BY <1>11, <2>1, <2>2 DEF Concluding
<1>13. CASE main' = [pc |-> "read", pos |-> main.pos + 1]
  <2>1. main'.pc = "read" /\ main'.pos = main.pos + 1 BY <1>13
  <2>2. \A i \in MySQL!Rows : i < main.pos + 1 <=> i < main.pos \/ i = main.pos
    BY <1>1, NamedAre
  <2>3. NamedRows' = NamedRows \cup {main.pos}
    BY <1>4, <1>5, <1>9, <2>1, <2>2 DEF NamedRows, Firsts
  <2> QED BY <1>11, <2>1, <2>3 DEF Concluding
<1> QED BY <1>3, <1>10, <1>12, <1>13

\* The larger of what was shown and what was counted is what was counted.
LEMMA LargerTotal ==
  ASSUME NEW count \in Nat, NEW shown \in {0, count}
  PROVE  (IF count > shown THEN count ELSE shown) = count
OBVIOUS

\* Behind the last row every table has been named.
LEMMA FinishShows == ASSUME MyInv, ShownSoFar, MySQL!Finish PROVE ShownSoFar'
<1> DEFINE count == Cardinality(MySQL!RowTables)
           d == progress.done + IF progress.current = "" THEN 0 ELSE 1
<1>1. main = [pc |-> main.pc, pos |-> main.pos] /\ main.pos \in Nat /\ count \in Nat
  BY NamedAre
<1>2. /\ main.pc = "finish" /\ UNCHANGED <<dump, result, counting>> /\ ~counting
  BY DEF MySQL!Finish, MySQL!At, MySQL!restore, MySQL!Counted
<1>3. progress' = [done |-> d, current |-> "",
                   total |-> IF d > progress.total THEN d ELSE progress.total]
  BY DEF MySQL!Finish
<1>4. main'.pc \in {"last", "end", "fail"}
  BY <1>1 DEF MySQL!Finish, MySQL!Flush, MySQL!Goto
<1>5. Naming /\ progress \in ProgressRecords
  BY <1>2 DEF ShownSoFar, GoingOn, EndPlaces, Concluding
<1>6. NamedRows = MySQL!Rows
  <2>1. main.pos = L + 1 /\ L \in Nat /\ MySQL!Rows \subseteq 1 .. L
    BY <1>2, MyDumps DEF MyInv, MyPlaced, EndPlaces
  <2>2. \A i \in 1 .. L : i < L + 1 BY <2>1
  <2> QED BY <2>1, <2>2 DEF NamedRows
<1>7. NamedTables = MySQL!RowTables BY <1>6 DEF NamedTables, WordAt, MySQL!RowTables
<1>8. progress.done + (IF Unnamed THEN 0 ELSE 1) = count /\ progress.total \in {0, count}
  BY <1>5, <1>7 DEF Naming
<1>9. d = count
  <2>1. d = progress.done + (IF Unnamed THEN 0 ELSE 1) BY Zenon DEF Unnamed
  <2> QED BY <1>8, <2>1
<1>10. progress' = [done |-> count, current |-> "", total |-> count]
  <2>1. (IF count > progress.total THEN count ELSE progress.total) = count
    BY <1>1, <1>8, LargerTotal
  <2> HIDE DEF d, count
  <2> QED BY Zenon, <1>3, <1>9, <2>1
<1>11. progress'.done = count /\ progress'.total = count /\ progress' \in ProgressRecords
  <2>1. progress' = [done |-> count, current |-> Blank, total |-> count]
    BY Zenon, <1>10 DEF Blank
  <2> QED BY <1>1, <2>1 DEF ProgressRecords, Names
<1>12. Finished'
  <2>1. MySQL!RowTables' = MySQL!RowTables
    BY <1>2 DEF MySQL!RowTables, MySQL!Rows, MySQL!IsRows
  <2> QED BY <1>2, <1>11, <2>1 DEF Finished
<1>13. main'.pc \in Concluding \/ main'.pc \notin GoingOn
  BY <1>4 DEF Concluding, GoingOn, RowPlaces, StmtPlaces, EndPlaces
<1> QED BY <1>11, <1>12, <1>13 DEF ShownSoFar

LEMMA CountShows == ASSUME MyInv, ShownSoFar, MySQL!CountTotal PROVE ShownSoFar'
<1> DEFINE count == Cardinality(MySQL!RowTables)
<1>1. /\ counting /\ counting' = FALSE /\ UNCHANGED <<dump, main, result>>
      /\ \/ progress' = progress
         \/ progress' = [progress EXCEPT !.total = IF count > @ THEN count ELSE @]
  BY SameCardinality DEF MySQL!CountTotal, MySQL!restore
<1>2. main.pc \notin Concluding /\ result # "nil" BY <1>1 DEF ShownSoFar, Finished
<1>3. progress \in ProgressRecords /\ count \in Nat BY NamedAre DEF ShownSoFar
<1>4. NamedRows' = NamedRows /\ NamedTables' = NamedTables /\ MySQL!RowTables' = MySQL!RowTables
  BY <1>1 DEF NamedRows, NamedTables, WordAt, MySQL!RowTables, MySQL!Rows, MySQL!IsRows
<1>5. \A i : WordAt(i)' = WordAt(i) BY <1>1 DEF WordAt
<1>6. /\ progress' \in ProgressRecords
      /\ progress'.done = progress.done /\ progress'.current = progress.current
      /\ progress'.total \in {progress.total, count}
  <2>1. CASE progress' = progress BY <1>3, <2>1 DEF ProgressRecords
  <2>2. CASE progress' = [progress EXCEPT !.total = IF count > @ THEN count ELSE @]
    BY <1>3, <2>2 DEF ProgressRecords
  <2> QED BY <1>1, <2>1, <2>2
<1>7. Unnamed' = Unnamed BY <1>6 DEF Unnamed
<1>8. ASSUME main.pc \in GoingOn PROVE Naming'
  <2>1. Naming BY <1>2, <1>8 DEF ShownSoFar
  <2> QED BY <1>4, <1>5, <1>6, <1>7, <2>1 DEF Naming
<1> QED BY <1>1, <1>2, <1>6, <1>8 DEF ShownSoFar

LEMMA ShownKept == ASSUME MyInv, ShownSoFar, RowsTogether(dump), MySQL!Next PROVE ShownSoFar'
<1>1. ASSUME UNCHANGED <<dump, main, result, counting, progress>> PROVE ShownSoFar'
  <2>1. NamedRows' = NamedRows BY <1>1 DEF NamedRows, MySQL!Rows, MySQL!IsRows
  <2> QED BY <1>1, <2>1, NamesNothing
<1>2. CASE MySQL!Altering \/ MySQL!Cancel
  <2>1. UNCHANGED <<dump, main, result, counting, progress>>
    BY <1>2 DEF MySQL!Altering, MySQL!Alter, MySQL!Altered, MySQL!Cancel, MySQL!restore,
       MySQL!shown
  <2> QED BY <1>1, <2>1
<1>3. ASSUME NEW w \in MySQL!Writers, MySQL!Writer(w) \/ MySQL!WriteFails(w) PROVE ShownSoFar'
  <2>1. UNCHANGED <<dump, main, result, counting, progress>>
    BY <1>3 DEF MySQL!Writer, MySQL!WriteFails, MySQL!Look, MySQL!Wake, MySQL!Begin,
       MySQL!Wrote, MySQL!Only, MySQL!restore, MySQL!shown
  <2> QED BY <1>1, <2>1
<1>4. CASE MySQL!CountTotal BY <1>4, CountShows
<1>5. CASE MySQL!Finish BY <1>5, FinishShows
<1>6. CASE MySQL!FlushOwn \/ MySQL!Exec
  <2>1. CASE MySQL!FlushOwn
    <3> QED BY <2>1, RowsAreNamed
  <2>2. CASE MySQL!Exec
    <3>1. CASE MySQL!IsRows(main.pos) BY <2>2, <3>1, RowsAreNamed
    <3>2. CASE ~MySQL!IsRows(main.pos) BY <2>2, <3>2, ReaderNamesNothing
    <3> QED BY <3>1, <3>2
  <2> QED BY <1>6, <2>1, <2>2
<1>7. CASE (MySQL!Reader \/ MySQL!ExecFails \/ MySQL!EndFails)
           /\ ~(MySQL!Finish \/ MySQL!FlushOwn \/ MySQL!Exec)
  BY <1>7, ReaderNamesNothing DEF MySQL!Reader
<1> QED BY <1>2, <1>3, <1>4, <1>5, <1>6, <1>7 DEF MySQL!Next, MySQL!Faults

LEMMA ShownStarts == ASSUME MySQL!Init PROVE ShownSoFar
<1>1. MyInv BY MyStarts
<1>2. /\ main = [pc |-> "read", pos |-> 1] /\ result = "none" /\ counting = TRUE
      /\ progress = [done |-> 0, current |-> "", total |-> 0]
  BY Zenon DEF MySQL!Init
<1>3. progress \in ProgressRecords /\ progress.done = 0 /\ progress.total = 0
  <2>1. progress = [done |-> 0, current |-> Blank, total |-> 0] BY Zenon, <1>2 DEF Blank
  <2> QED BY <2>1 DEF ProgressRecords, Names
<1>4. Unnamed BY Zenon, <1>2 DEF Unnamed
<1>5. NamedRows = {} /\ main.pc = "read"
  <2>1. \A i \in MySQL!Rows : i \in Nat /\ i \in 1 .. L /\ L \in Nat
    BY <1>1, MyDumps DEF MyInv
  <2>2. \A i \in MySQL!Rows : ~(i < 1) BY <2>1
  <2>3. main.pc = "read" /\ main.pos = 1 BY <1>2
  <2> QED BY <2>2, <2>3 DEF NamedRows, Firsts
<1>6. NamedTables = {} BY <1>5 DEF NamedTables
<1>7. Naming BY <1>3, <1>4, <1>5, <1>6, FS_EmptySet DEF Naming
<1> QED BY <1>2, <1>3, <1>5, <1>7 DEF ShownSoFar, Concluding

-----------------------------------------------------------------------------
(* What no statement is killed by *)

\* No two tables are read as one.
TablesApart == \A t, u \in Tables : Word[t] = Word[u] => t = u

\* The writers have ended; or the dump is read and they end, or the restore fails.
Ending == {"finish", "last", "rebuild", "end", "returned"}
Over == Ending \cup {"stop", "fail", "drain"}

\* The INSERT that is written alone: still queued, or in one writer's hands.
Lone ==
  \/ jobs = <<main.pos>> /\ \A w \in MySQL!Writers : writer[w].job = 0
  \/ /\ jobs = <<>>
     /\ \A v, w \in MySQL!Writers : writer[v].job # 0 /\ writer[w].job # 0 => v = w
FirstAlone ==
  /\ \A i \in Jobs : WordAt(i) \in seen \/ (main.pc = "alone" /\ i = main.pos)
  /\ main.pc = "alone" => Lone /\ (Jobs # {} => OpenRows = {})
  /\ main.pc = "first" => WordAt(main.pos) \notin seen
  /\ main.pc = "queue" /\ WordAt(main.pos) \notin seen => Jobs = {} /\ OpenRows = {}
\* A table that has been written to is not empty.
WrittenTo ==
  \A t \in Tables : Word[t] \in seen =>
    ctx \/ err \/ \E i \in MySQL!Rows \ Jobs : i < main.pos /\ dump[i].table = t /\ row[i].at = "in"
\* A writer with nothing to do has nothing open.
NothingKept ==
  /\ single => seen = {}
  /\ shut => single \/ main.pc \in Over
  /\ main.pc \in Ending => \A w \in MySQL!Writers : writer[w].pc = "gone"
  /\ \A c \in MySQL!Writers, i \in OpenRows :
       row[i].by = c /\ writer[c].pc \in {"idle", "gone"} =>
         ctx \/ err \/ main.pc \in {"fail", "drain"}
Unkilled == ~killed /\ FirstAlone /\ WrittenTo /\ NothingKept

\* A step of the reader, or beside it, that hands out no INSERT and leaves what has
\* been written to.
LEMMA ReaderSpares ==
  ASSUME MyInv, Unkilled, ~single,
         UNCHANGED <<dump, n, single, jobs, writer, seen>>, killed' = killed \/ ~killed',
         Settles, ctx => ctx', err => err',
         main'.pos = main.pos \/ main'.pos = main.pos + 1,
         \/ main' = main
         \/ /\ main.pc # "alone" /\ main'.pc # "alone"
            /\ main'.pc = "first" => WordAt(main.pos) \notin seen /\ main'.pos = main.pos
            /\ main'.pc = "queue" => /\ main'.pos = main.pos
                                     /\ WordAt(main.pos) \in seen \/ (Jobs = {} /\ OpenRows' = {}),
         shut' => shut \/ main'.pc \in Over,
         main.pc \in Over => main'.pc \in Over,
         main.pc \in {"fail", "drain"} => main'.pc \in {"fail", "drain"},
         main'.pc \in Ending => main.pc \in Ending \/ \A w \in MySQL!Writers : writer[w].pc = "gone"
  PROVE  Unkilled'
<1>1. ~killed /\ FirstAlone /\ WrittenTo /\ NothingKept BY DEF Unkilled
<1>2. Jobs' = Jobs /\ MySQL!Rows' = MySQL!Rows /\ MySQL!Writers' = MySQL!Writers
  BY MyBasics DEF Jobs
<1>3. /\ OpenRows' \subseteq OpenRows
      /\ \A i \in OpenRows' : row'[i].by = row[i].by
      /\ \A i \in MySQL!Rows : row[i].at = "in" => row'[i].at = "in"
  BY <1>2 DEF Settles, OpenRows
<1>4. \A i : WordAt(i)' = WordAt(i) BY DEF WordAt
<1>5. FirstAlone'
  <2>1. CASE main' = main
    <3>1. main.pc = "alone" => Lone' BY <1>1, <1>2, <2>1 DEF FirstAlone, Lone
    <3> QED BY <1>1, <1>2, <1>3, <1>4, <2>1, <3>1 DEF FirstAlone
  <2>2. CASE main' # main
    <3>1. \A i \in Jobs : WordAt(i) \in seen BY <1>1, <2>2 DEF FirstAlone
    <3> QED BY <1>2, <1>3, <1>4, <2>2, <3>1 DEF FirstAlone
  <2> QED BY <2>1, <2>2
<1>6. WrittenTo'
  <2> SUFFICES ASSUME NEW t \in Tables, Word[t] \in seen, ~ctx', ~err'
               PROVE  \E i \in MySQL!Rows \ Jobs :
                        i < main'.pos /\ dump[i].table = t /\ row'[i].at = "in"
    BY <1>2 DEF WrittenTo
  <2>1. PICK i \in MySQL!Rows \ Jobs : i < main.pos /\ dump[i].table = t /\ row[i].at = "in"
    BY <1>1 DEF WrittenTo
  <2>2. i < main'.pos
    <3>1. i \in Nat /\ main.pos \in Nat BY NamedAre
    <3> QED BY <2>1, <3>1
  <2> QED BY <1>3, <2>1, <2>2
<1>7. NothingKept'
  <2>1. main'.pc \in Ending => \A w \in MySQL!Writers : writer[w].pc = "gone"
    BY <1>1 DEF NothingKept
  <2>2. \A c \in MySQL!Writers, i \in OpenRows' :
          row'[i].by = c /\ writer[c].pc \in {"idle", "gone"} =>
            ctx' \/ err' \/ main'.pc \in {"fail", "drain"}
    BY <1>1, <1>3 DEF NothingKept
  <2>3. shut' => main'.pc \in Over BY <1>1 DEF NothingKept
  <2> QED BY <1>2, <2>1, <2>2, <2>3 DEF NothingKept
<1> QED BY <1>1, <1>5, <1>6, <1>7 DEF Unkilled

\* Without writers nothing is written aside.
LEMMA AloneSpares ==
  ASSUME MyInv, MyInv', UNCHANGED <<dump, n>>, ~killed', single', seen' = {}
  PROVE  Unkilled'
<1>1. /\ main'.pc \notin {"alone", "first", "queue"} /\ jobs' = <<>>
      /\ \A w \in MySQL!Writers' : writer'[w].pc = "gone" /\ writer'[w].job = 0
      /\ \A i \in OpenRows' : row'[i].by = 0
  BY DEF MyInv, MyPlaced, RowsKept
<1>2. Jobs' = {}
  <2>1. 0 \notin MySQL!Rows' BY MyBasics
  <2> QED BY <1>1, <2>1, ElementsOfEmpty DEF Jobs
<1> QED BY <1>1, <1>2 DEF Unkilled, FirstAlone, WrittenTo, NothingKept, MySQL!Writers

\* A statement that a writer begins starts no deadlock: its table is not empty, or
\* nothing else is open or in hand.
LEMMA BeginsAlone ==
  ASSUME MyInv, Unkilled, NEW w \in MySQL!Writers, ~single, ~ctx, ~err,
         writer[w].pc = "has"
  PROVE  ~MySQL!Starting(w)
<1> DEFINE i == writer[w].job
           t == dump[i].table
<1>1. /\ i \in MySQL!Rows /\ t \in Tables /\ i \in Jobs /\ i # 0
  <2>1. MyTypeOK /\ MyPlaced BY DEF MyInv
  <2>2. i \in MySQL!Rows \cup {0} /\ i # 0 BY <2>1 DEF MyTypeOK, MyPlaced
  <2>3. dump[i].table \in Tables BY <2>1, <2>2, MyDumps
  <2> QED BY <2>2, <2>3 DEF Jobs
<1>2. FirstAlone /\ WrittenTo BY DEF Unkilled
<1>3. CASE Word[t] \in seen
  <2>1. ~MySQL!Empty(t) BY <1>1, <1>2, <1>3 DEF WrittenTo, MySQL!Empty
  <2> QED BY <2>1 DEF MySQL!Starting
<1>4. CASE Word[t] \notin seen
  <2>1. main.pc = "alone" /\ OpenRows = {} /\ Lone
    BY <1>1, <1>2, <1>4 DEF FirstAlone, WordAt
  <2>2. \A v \in MySQL!Writers \ {w} : writer[v].job = 0 BY <1>1, <2>1 DEF Lone
  <2>3. \A v \in MySQL!Writers \ {w} : writer[v].pc # "runs"
    BY <2>2 DEF MyInv, MyPlaced
  <2>4. \A v : MySQL!Open(v) = {} BY <2>1, OpenOn
  <2> QED BY <2>3, <2>4 DEF MySQL!Starting
<1> QED BY <1>3, <1>4

\* A writer that has nothing to do has nothing open, or the restore is at its end.
LEMMA RestsClean ==
  ASSUME MyInv, Unkilled, NEW w \in MySQL!Writers, ~single,
         MySQL!Writer(w) \/ MySQL!WriteFails(w), WriterRests(w), NEW i \in OpenRows',
         row'[i].by = w
  PROVE  ctx \/ err' \/ main.pc \in {"fail", "drain"}
<1>1. /\ UNCHANGED <<dump, n, main, shut>>
  BY DEF MySQL!Writer, MySQL!WriteFails, MySQL!Look, MySQL!Wake, MySQL!Begin, MySQL!Wrote,
         MySQL!Only, MySQL!restore
<1>2. NothingKept /\ Calm /\ MyPlaced /\ row \in [MySQL!Rows -> RowRecords]
  BY DEF Unkilled, MyInv, MyTypeOK
<1>3. writer[w].pc \in {"look", "idle"}
  <2>1. writer[w].pc \notin {"has", "runs"} BY <1>2 DEF WriterRests, MyPlaced
  <2> QED BY <2>1 DEF MySQL!Writer, MySQL!WriteFails, MySQL!Look, MySQL!Wake, MySQL!Begin,
      MySQL!Wrote
<1>4. i \in MySQL!Rows /\ row'[i].at = "open" BY <1>1, MyBasics DEF OpenRows
<1>5. i \in MySQL!Open(w)
  <2>1. CASE row' = row BY <1>4, <2>1 DEF MySQL!Open
  <2>2. CASE row' = MySQL!Committed(row, MySQL!Open(w))
    BY <1>2, <1>4, <2>2, Committing DEF MySQL!Open
  <2> QED BY <2>1, <2>2 DEF WriterRests
<1>6. row' # MySQL!Committed(row, MySQL!Open(w))
  BY <1>2, <1>4, <1>5, Committing
<1>7. row' = row BY <1>6 DEF WriterRests
<1>8. err => err' BY DEF WriterRests
<1>9. CASE writer[w].pc = "idle"
  <2>1. ctx \/ err \/ main.pc \in {"fail", "drain"}
    BY <1>2, <1>5, <1>9 DEF NothingKept, MySQL!Open, OpenRows
  <2> QED BY <1>8, <2>1
<1>10. CASE writer[w].pc = "look" /\ MySQL!CommitIdle(w)
  BY <1>6, <1>5, <1>8, <1>10 DEF MySQL!CommitIdle
<1>11. CASE writer[w].pc = "look" /\ shut
  <2>1. main.pc \in Over /\ main.pc \notin Ending BY <1>2, <1>11 DEF NothingKept
  <2>2. main.pc # "stop"
    <3>1. main.pc = "stop" => OpenRows = {} BY <1>2 DEF Calm, CalmPlaces
    <3> QED BY <1>5, <3>1 DEF MySQL!Open, OpenRows
  <2> QED BY <2>1, <2>2 DEF Over
<1>12. CASE writer[w].pc = "look" /\ MySQL!Take(w)
  <2>1. jobs' = Tail(jobs) /\ jobs # <<>> /\ jobs' = jobs /\ jobs \in Seq(MySQL!Rows)
    BY <1>12 DEF MySQL!Take, WriterRests, MyInv, MyTypeOK
  <2>2. Tail(jobs) # jobs BY <2>1
  <2> QED BY <2>1, <2>2
<1>13. writer[w].pc = "look" => MySQL!CommitIdle(w) \/ shut \/ MySQL!Take(w)
  BY DEF MySQL!Writer, MySQL!WriteFails, MySQL!Look, MySQL!Wake, MySQL!Begin, MySQL!Wrote
<1> QED BY <1>3, <1>9, <1>10, <1>11, <1>12, <1>13

\* Who has an INSERT in hand after a writer's step, and what is open.
LEMMA WriterHands ==
  ASSUME MyInv, NEW w \in MySQL!Writers, MySQL!Writer(w) \/ MySQL!WriteFails(w)
  PROVE  /\ \A v \in MySQL!Writers \ {w} : writer'[v] = writer[v]
         /\ \/ WriterTakes(w) /\ writer'[w].pc = "has" /\ writer'[w].job = Head(jobs)
            \/ WriterRests(w) /\ writer'[w].job = 0 /\ writer[w].job = 0
            \/ WriterBegins(w) /\ writer'[w].job = writer[w].job /\ writer'[w].pc = "runs"
            \/ (WriterLoses(w) \/ WriterWrites(w)) /\ writer'[w].job = 0 /\ writer'[w].pc = "look"
         /\ WriterWrites(w) \/ Settles
<1>1. /\ UNCHANGED <<dump, n>>
      /\ WriterTakes(w) \/ WriterRests(w) \/ WriterBegins(w) \/ WriterLoses(w) \/ WriterWrites(w)
  BY WriterSteps
<1>2. writer \in [MySQL!Writers -> [pc : {"look", "has", "runs", "idle", "gone"},
                                    job : MySQL!Rows \cup {0}]]
  BY DEF MyInv, MyTypeOK
<1>3. writer[w] = [pc |-> writer[w].pc, job |-> writer[w].job] BY <1>2
<1>4. CASE WriterTakes(w)
  BY <1>2, <1>4, NoCommitSettles DEF WriterTakes
<1>5. CASE WriterRests(w)
  <2>1. row' = row \/ row' = MySQL!Committed(row, MySQL!Open(w)) BY <1>5 DEF WriterRests
  <2>2. Settles BY <2>1, OpenOn, CommitSettles, NoCommitSettles
  <2>3. PICK pc : writer' = [writer EXCEPT ![w].pc = pc] BY <1>5 DEF WriterRests
  <2>4. writer'[w].job = writer[w].job /\ \A v \in MySQL!Writers \ {w} : writer'[v] = writer[v]
    BY <1>2, <1>3, <2>3
  <2>5. writer[w].job = 0 BY <1>5 DEF WriterRests
  <2> QED BY <1>5, <2>2, <2>4, <2>5
<1>6. CASE WriterBegins(w)
  <2>1. row' = row /\ writer' = [writer EXCEPT ![w].pc = "runs"] BY <1>6 DEF WriterBegins
  <2>2. /\ writer'[w].job = writer[w].job /\ writer'[w].pc = "runs"
        /\ \A v \in MySQL!Writers \ {w} : writer'[v] = writer[v]
    BY <1>2, <1>3, <2>1
  <2> QED BY <1>6, <2>1, <2>2, NoCommitSettles
<1>7. CASE WriterLoses(w) BY <1>2, <1>7, NoCommitSettles DEF WriterLoses
<1>8. CASE WriterWrites(w) BY <1>2, <1>8 DEF WriterWrites
<1> QED BY <1>1, <1>4, <1>5, <1>6, <1>7, <1>8

LEMMA WriterSpares ==
  ASSUME MyInv, Unkilled, NEW w \in MySQL!Writers, MySQL!Writer(w) \/ MySQL!WriteFails(w)
  PROVE  Unkilled'
<1>1. /\ ~single /\ UNCHANGED <<dump, n, single, ctx, main, result, session, done>>
      /\ \/ WriterTakes(w) \/ WriterRests(w) \/ WriterBegins(w)
         \/ WriterLoses(w) \/ WriterWrites(w)
  BY WriterSteps
<1>2. UNCHANGED <<seen, shut>>
  BY DEF MySQL!Writer, MySQL!WriteFails, MySQL!Look, MySQL!Wake, MySQL!Begin, MySQL!Wrote,
         MySQL!Only
<1>3. ~killed /\ FirstAlone /\ WrittenTo /\ NothingKept BY DEF Unkilled
<1>4. ~killed'
  <2>1. killed' = killed
        \/ (~ctx /\ ~err /\ writer[w].pc = "has" /\ killed' = (killed \/ MySQL!Starting(w)))
    BY DEF MySQL!Writer, MySQL!WriteFails, MySQL!Look, MySQL!Wake, MySQL!Begin, MySQL!Wrote,
         MySQL!wctx
  <2> QED BY <1>1, <1>3, <2>1, BeginsAlone
<1>5. /\ Jobs' \subseteq Jobs
      /\ \A i \in Jobs : i \in Jobs' \/ (i = writer[w].job /\ (WriterLoses(w) \/ WriterWrites(w)))
  BY <1>1, WriterJobs
<1>6. /\ \A v \in MySQL!Writers \ {w} : writer'[v] = writer[v]
      /\ \/ WriterTakes(w) /\ writer'[w].pc = "has" /\ writer'[w].job = Head(jobs)
         \/ WriterRests(w) /\ writer'[w].job = 0 /\ writer[w].job = 0
         \/ WriterBegins(w) /\ writer'[w].job = writer[w].job /\ writer'[w].pc = "runs"
         \/ (WriterLoses(w) \/ WriterWrites(w)) /\ writer'[w].job = 0 /\ writer'[w].pc = "look"
      /\ WriterWrites(w) \/ Settles
  BY WriterHands
<1>7. /\ MySQL!Rows' = MySQL!Rows /\ MySQL!Writers' = MySQL!Writers /\ \A i : WordAt(i)' = WordAt(i)
      /\ 0 \notin MySQL!Rows
  BY <1>1, MyBasics DEF WordAt
<1>8. err => err'
  <2>1. err \in BOOLEAN BY DEF MyInv, MyTypeOK
  <2> QED BY <1>1, <2>1 DEF WriterTakes, WriterRests, WriterBegins, WriterLoses, WriterWrites
<1>9. WriterWrites(w) =>
        /\ writer[w].job \in Jobs /\ row'[writer[w].job].by = w
        /\ \A i \in MySQL!Rows : i # writer[w].job =>
             row'[i].by = row[i].by
             /\ (row'[i].at = row[i].at \/ (row[i].at = "open" /\ row'[i].at = "in"))
  BY <1>1, WriterRow DEF Jobs
<1>10. /\ \A i \in OpenRows' : \/ i \in OpenRows /\ row'[i].by = row[i].by
                               \/ WriterWrites(w) /\ i = writer[w].job
       /\ \A i \in MySQL!Rows \ Jobs : row[i].at = "in" => row'[i].at = "in"
  BY <1>6, <1>7, <1>9 DEF OpenRows, Settles
<1>11. FirstAlone'
  <2>1. \A i \in Jobs' : WordAt(i) \in seen \/ (main.pc = "alone" /\ i = main.pos)
    BY <1>3, <1>5 DEF FirstAlone
  <2>2. ASSUME main.pc = "alone" PROVE Lone' /\ (Jobs' # {} => OpenRows' = {})
    <3>1. Lone /\ (Jobs # {} => OpenRows = {}) BY <1>3, <2>2 DEF FirstAlone
    <3>2. CASE WriterTakes(w)
      <4>1. jobs = <<main.pos>> /\ \A v \in MySQL!Writers : writer[v].job = 0
        BY <3>1, <3>2 DEF Lone, WriterTakes
      <4>2. jobs' = <<>> BY <3>2, <4>1 DEF WriterTakes
      <4>3. \A v \in MySQL!Writers : writer'[v].job # 0 => v = w BY <1>6, <4>1
      <4>4. OpenRows' = OpenRows BY <1>7, <3>2 DEF OpenRows, WriterTakes
      <4> QED BY <1>5, <1>7, <3>1, <4>2, <4>3, <4>4 DEF Lone
    <3>3. CASE \/ WriterRests(w) /\ writer'[w].job = 0 /\ writer[w].job = 0
               \/ WriterBegins(w) /\ writer'[w].job = writer[w].job
      <4>1. jobs' = jobs BY <3>3 DEF WriterRests, WriterBegins
      <4>2. \A v \in MySQL!Writers : writer'[v].job = writer[v].job BY <1>6, <3>3
      <4>3. Lone' BY <1>1, <1>7, <3>1, <4>1, <4>2 DEF Lone
      <4>4. OpenRows' \subseteq OpenRows
        <5>1. CASE WriterRests(w) /\ writer[w].job = 0
          <6>1. ~WriterWrites(w) BY <5>1 DEF WriterWrites
          <6> QED BY <1>10, <6>1
        <5>2. CASE WriterBegins(w) BY <1>7, <5>2 DEF WriterBegins, OpenRows
        <5> QED BY <3>3, <5>1, <5>2
      <4> QED BY <1>5, <3>1, <4>3, <4>4
    <3>4. CASE (WriterLoses(w) \/ WriterWrites(w)) /\ writer'[w].job = 0
      <4>1. jobs' = jobs /\ writer[w].job # 0 BY <3>4 DEF WriterLoses, WriterWrites
      <4>2. jobs = <<>> /\ \A v \in MySQL!Writers : writer[v].job # 0 => v = w
        BY <3>1, <4>1 DEF Lone
      <4>3. \A v \in MySQL!Writers : writer'[v].job = 0 BY <1>6, <3>4, <4>2
      <4>4. Elements(jobs)' = {}
        <5>1. Elements(jobs') = {} BY <4>1, <4>2, ElementsOfEmpty
        <5> QED BY <5>1 DEF Elements
      <4>5. Jobs' = {} BY <1>7, <4>3, <4>4 DEF Jobs
      <4> QED BY <1>7, <4>1, <4>2, <4>3, <4>5 DEF Lone
    <3> QED BY <1>6, <3>2, <3>3, <3>4
  <2>3. main.pc = "queue" /\ WordAt(main.pos) \notin seen => Jobs' = {} /\ OpenRows' = {}
    <3>1. main.pc = "queue" /\ WordAt(main.pos) \notin seen => Jobs = {} /\ OpenRows = {}
      BY <1>3 DEF FirstAlone
    <3> QED BY <1>5, <1>9, <1>10, <3>1
  <2> QED BY <1>1, <1>2, <1>3, <1>7, <2>1, <2>2, <2>3 DEF FirstAlone
<1>12. WrittenTo' BY <1>1, <1>2, <1>3, <1>5, <1>7, <1>8, <1>10 DEF WrittenTo
<1>13. NothingKept'
  <2>1. main.pc \notin Ending
    <3>1. writer[w].pc # "gone"
      BY DEF MySQL!Writer, MySQL!WriteFails, MySQL!Look, MySQL!Wake, MySQL!Begin, MySQL!Wrote
    <3> QED BY <1>3, <3>1 DEF NothingKept
  <2>2. ASSUME NEW c \in MySQL!Writers, NEW i \in OpenRows', row'[i].by = c,
               writer'[c].pc \in {"idle", "gone"}
        PROVE  ctx \/ err' \/ main.pc \in {"fail", "drain"}
    <3>1. CASE c = w
      <4>1. WriterRests(w) BY <1>6, <2>2, <3>1
      <4> QED BY <1>1, <2>2, <3>1, <4>1, RestsClean
    <3>2. CASE c # w
      <4>1. writer'[c] = writer[c] BY <1>6, <3>2
      <4>2. i \in OpenRows /\ row[i].by = c BY <1>9, <1>10, <2>2, <3>2
      <4> QED BY <1>3, <1>8, <2>2, <4>1, <4>2 DEF NothingKept
    <3> QED BY <3>1, <3>2
  <2> QED BY <1>1, <1>2, <1>3, <1>7, <2>1, <2>2 DEF NothingKept
<1> QED BY <1>4, <1>11, <1>12, <1>13 DEF Unkilled

\* The reader's steps that hand out no INSERT.
LEMMA ReaderStepsSpare ==
  ASSUME MyInv, Unkilled, ~single,
         \/ MySQL!Read \/ MySQL!WaitForRows \/ MySQL!Defer \/ MySQL!Clear \/ MySQL!Drop
         \/ MySQL!FlushOwn \/ MySQL!First \/ MySQL!ExecFails \/ MySQL!Session
         \/ MySQL!CloseWriters \/ MySQL!Stopped \/ MySQL!Finish \/ MySQL!End \/ MySQL!EndFails
         \/ MySQL!Failing \/ MySQL!Rebuild("again") \/ MySQL!Rebuild("last") \/ MySQL!Rebuilt
         \/ MySQL!Exec
         \/ MySQL!Queue /\ main'.pc = "fail"
  PROVE  Unkilled'
<1> DEFINE Same == UNCHANGED <<dump, n, single, jobs, writer, seen, killed>> /\ (ctx => ctx')
           Stays == row' = row \/ \E S \in SUBSET OpenRows : row' = MySQL!Committed(row, S)
<1>1. main = [pc |-> main.pc, pos |-> main.pos] /\ main.pos \in Nat BY NamedAre
<1>2. /\ err \in BOOLEAN /\ MyPlaced
      /\ \A S \in SUBSET MySQL!Writers : UNION {MySQL!Open(c) : c \in S} \in SUBSET OpenRows
      /\ MySQL!Opened \in SUBSET OpenRows /\ MySQL!Open(0) \in SUBSET OpenRows
  BY OpenOn DEF MyInv, MyTypeOK
<1>3. Stays => Settles BY SomeCommitSettles
<1>4. ASSUME Same, Stays, err => err', shut' = shut, main'.pos \in {main.pos, main.pos + 1},
             main.pc \notin Over /\ main.pc # "alone",
             main'.pc \in {"read", "defer", "clear", "drop", "flush", "close", "alone wait",
                 "exec",
                           "session", "again", "rebuild early", "fail"}
      PROVE  Unkilled'
  BY <1>3, <1>4, ReaderSpares DEF Over, Ending
<1> USE DEF MySQL!At, MySQL!Goto, MySQL!restore, MySQL!writers, MySQL!server
<1>5. CASE MySQL!Read
  <2>1. main.pc = "read" /\ Same /\ shut' = shut /\ row' = row /\ err' = err
    BY <1>5 DEF MySQL!Read
  <2>2. \/ main' = [pc |-> "read", pos |-> main.pos + 1]
        \/ \E pc \in {"close", "fail", "defer", "alone wait"} : main' = [main EXCEPT !.pc = pc]
    BY <1>5 DEF MySQL!Read, MySQL!NextStmt
  <2>3. main'.pc \in {"read", "close", "fail", "defer", "alone wait"}
        /\ main'.pos \in {main.pos, main.pos + 1}
    <3>1. CASE main' = [pc |-> "read", pos |-> main.pos + 1] BY <3>1
    <3>2. CASE \E pc \in {"close", "fail", "defer", "alone wait"} : main' = [main EXCEPT !.pc = pc]
      BY <1>1, <3>2
    <3> QED BY <2>2, <3>1, <3>2
  <2> QED BY <1>4, <2>1, <2>3 DEF Over, Ending
<1>6. CASE MySQL!WaitForRows
  <2>1. main.pc = "alone wait" /\ Same /\ shut' = shut
    BY <1>6, <1>2 DEF MySQL!WaitForRows
  <2>2. Stays /\ (err => err')
    BY <1>2, <1>6, <2>1 DEF MySQL!WaitForRows, MySQL!Wait, MySQL!Barrier
  <2>4. main'.pc \in {"exec", "fail"} /\ main'.pos = main.pos
    BY <1>1, <1>2, <1>6, <2>1 DEF MySQL!WaitForRows, MySQL!Wait, MySQL!Barrier
  <2> QED BY <1>4, <2>1, <2>2, <2>4 DEF Over, Ending
<1>7. CASE MySQL!Defer
  <2>1. main.pc = "defer" /\ Same /\ shut' = shut
    BY <1>7 DEF MySQL!Defer
  <2>2. Stays /\ (err => err')
    BY <1>2, <1>7 DEF MySQL!Defer, MySQL!Goes
  <2>4. main'.pc \in {"flush", "clear"} /\ main'.pos = main.pos
    BY <1>1, <1>2, <1>7 DEF MySQL!Defer, MySQL!Goes
  <2> QED BY <1>4, <2>1, <2>2, <2>4 DEF Over, Ending
<1>8. CASE MySQL!Clear
  <2>1. main.pc = "clear" /\ Same /\ shut' = shut
    BY <1>8, <1>2 DEF MySQL!Clear
  <2>2. Stays /\ (err => err')
    BY <1>2, <1>8, <2>1 DEF MySQL!Clear, MySQL!barrier, MySQL!Barrier
  <2>4. main'.pc \in {"drop", "fail"} /\ main'.pos = main.pos
    BY <1>1, <1>2, <1>8, <2>1 DEF MySQL!Clear, MySQL!barrier, MySQL!Barrier
  <2> QED BY <1>4, <2>1, <2>2, <2>4 DEF Over, Ending
<1>9. CASE MySQL!Drop
  <2>1. main.pc = "drop" /\ Same /\ shut' = shut
    BY <1>9 DEF MySQL!Drop
  <2>2. Stays /\ (err => err')
    BY <1>2, <1>9 DEF MySQL!Drop, MySQL!Goes
  <2>4. main'.pc \in {"flush"} /\ main'.pos = main.pos
    BY <1>1, <1>2, <1>9 DEF MySQL!Drop, MySQL!Goes
  <2> QED BY <1>4, <2>1, <2>2, <2>4 DEF Over, Ending
<1>10. CASE MySQL!ExecFails
  <2>1. main.pc = "exec" /\ Same /\ shut' = shut
    BY <1>10 DEF MySQL!ExecFails
  <2>2. Stays /\ (err => err')
    BY <1>2, <1>10 DEF MySQL!ExecFails
  <2>4. main'.pc \in {"again", "fail"} /\ main'.pos = main.pos
    BY <1>1, <1>2, <1>10 DEF MySQL!ExecFails
  <2> QED BY <1>4, <2>1, <2>2, <2>4 DEF Over, Ending
<1>11. CASE MySQL!Session
  <2>1. main.pc = "session" /\ Same /\ shut' = shut
    BY <1>11 DEF MySQL!Session
  <2>2. Stays /\ (err => err')
    BY <1>2, <1>11 DEF MySQL!Session
  <2>3. \/ main' = [pc |-> "read", pos |-> main.pos + 1]
        \/ \E pc \in {"fail"} : main' = [main EXCEPT !.pc = pc]
    BY <1>11 DEF MySQL!Session, MySQL!NextStmt
  <2>4. main'.pc \in {"read", "fail"} /\ main'.pos \in {main.pos, main.pos + 1}
    BY <1>1, <2>3
  <2> QED BY <1>4, <2>1, <2>2, <2>4 DEF Over, Ending
<1>12. CASE MySQL!Exec
  <2>1. main.pc = "exec" /\ Same /\ shut' = shut /\ err' = err
    BY <1>12 DEF MySQL!Exec
  <2>2. ~MySQL!IsRows(main.pos) BY <1>2, <2>1 DEF MyPlaced, StmtPlaces
  <2>3. row' = row \/ row' = MySQL!Committed(row, MySQL!Open(0))
    BY <1>12, <2>2 DEF MySQL!Exec
  <2>4. \/ main' = [pc |-> "read", pos |-> main.pos + 1]
        \/ main' = [main EXCEPT !.pc = "session"]
    BY <1>12, <2>2 DEF MySQL!Exec, MySQL!NextStmt
  <2>5. main'.pc \in {"read", "session"} /\ main'.pos \in {main.pos, main.pos + 1}
    BY <1>1, <2>4
  <2>6. Stays BY <1>2, <2>3
  <2> QED BY <1>4, <2>1, <2>5, <2>6 DEF Over, Ending
<1>13. CASE MySQL!Queue /\ main'.pc = "fail"
  <2>1. /\ main.pc = "queue"
        /\ UNCHANGED <<dump, n, single, writer, seen, killed, ctx, shut, row, err>>
    BY <1>13 DEF MySQL!Queue
  <2>2. main' # [main EXCEPT !.pc = "alone"] /\ main' # [pc |-> "read", pos |-> main.pos + 1]
    BY <1>1, <1>13
  <2>3. jobs' = jobs /\ main' = [main EXCEPT !.pc = "fail"]
    BY <1>13, <2>2 DEF MySQL!Queue, MySQL!NextStmt
  <2>4. main'.pos = main.pos BY <1>1, <2>3
  <2> QED BY <1>4, <1>13, <2>1, <2>3, <2>4 DEF Over, Ending
<1>14. CASE MySQL!FlushOwn
  <2>1. main.pc = "flush" /\ Same /\ shut' = shut /\ err' = err
    BY <1>14 DEF MySQL!FlushOwn
  <2>2. Stays BY <1>2, <1>14 DEF MySQL!FlushOwn, MySQL!Flush
  <2>3. /\ main'.pos = main.pos
        /\ \/ main'.pc = "fail"
           \/ main'.pc = "first" /\ WordAt(main.pos) \notin seen
           \/ main'.pc = "queue" /\ WordAt(main.pos) \in seen
    BY <1>1, <1>14 DEF MySQL!FlushOwn, MySQL!Flush, MySQL!Alone, MySQL!Stmt, WordAt
  <2> QED BY <1>3, <2>1, <2>2, <2>3, ReaderSpares DEF Over, Ending
<1>15. CASE MySQL!First
  <2>1. main.pc = "first" /\ Same /\ shut' = shut
    BY <1>15 DEF MySQL!First
  <2>2. Stays /\ (err => err') BY <1>2, <1>15 DEF MySQL!First, MySQL!Barrier
  <2>3. main'.pos = main.pos
        /\ \/ main'.pc = "fail"
           \/ main'.pc = "queue" /\ MySQL!Pending = 0 /\ row' = MySQL!Committed(row, MySQL!Opened)
    BY <1>1, <1>15 DEF MySQL!First, MySQL!Barrier
  <2>4. main'.pc = "queue" => Jobs = {} /\ OpenRows' = {}
    <3> SUFFICES ASSUME main'.pc = "queue" PROVE Jobs = {} /\ OpenRows' = {} OBVIOUS
    <3>1. MySQL!Opened = OpenRows BY OpenOn
    <3>2. \A i \in MySQL!Rows : row'[i].at = IF i \in OpenRows THEN "in" ELSE row[i].at
      BY <2>3, <3>1, CommitSettles
    <3>3. OpenRows' = {} BY <2>1, <3>2, MyBasics DEF OpenRows
    <3> QED BY <2>3, <3>3, NothingPending
  <2> QED BY <1>3, <2>1, <2>2, <2>3, <2>4, ReaderSpares DEF Over, Ending
<1>16. CASE MySQL!CloseWriters
  <2>1. main.pc = "close" /\ Same BY <1>16 DEF MySQL!CloseWriters
  <2>2. Stays /\ (err => err') BY <1>2, <1>16 DEF MySQL!CloseWriters, MySQL!Barrier
  <2>3. main'.pos = main.pos /\ main'.pc \in {"stop", "fail"}
    BY <1>1, <1>16 DEF MySQL!CloseWriters, MySQL!Barrier
  <2> QED BY <1>3, <2>1, <2>2, <2>3, ReaderSpares DEF Over, Ending
<1>17. CASE MySQL!Stopped
  <2>1. /\ main.pc = "stop" /\ Same /\ shut' = shut /\ row' = row /\ err' = err
        /\ \A w \in MySQL!Writers : writer[w].pc = "gone"
    BY <1>17 DEF MySQL!Stopped
  <2>2. main'.pos = main.pos /\ main'.pc = "finish" BY <1>1, <1>17 DEF MySQL!Stopped
  <2> QED BY <1>3, <2>1, <2>2, ReaderSpares DEF Over, Ending
<1>18. CASE MySQL!Finish
  <2>1. main.pc = "finish" /\ Same /\ shut' = shut /\ err' = err BY <1>18 DEF MySQL!Finish
  <2>2. Stays BY <1>2, <1>18 DEF MySQL!Finish, MySQL!Flush
  <2>3. main'.pos = main.pos /\ main'.pc \in {"last", "end", "fail"}
    BY <1>1, <1>18 DEF MySQL!Finish, MySQL!Flush
  <2> QED BY <1>3, <2>1, <2>2, <2>3, ReaderSpares DEF Over, Ending
<1>19. CASE MySQL!End \/ MySQL!EndFails \/ MySQL!Failing
  <2>1. /\ Same /\ row' = row /\ err' = err /\ main'.pos = main.pos
        /\ \/ main.pc = "end" /\ main'.pc \in {"returned", "fail"} /\ shut' = shut
           \/ main.pc = "fail" /\ main'.pc = "drain"
    BY <1>1, <1>19 DEF MySQL!End, MySQL!EndFails, MySQL!Failing
  <2> QED BY <1>3, <2>1, ReaderSpares DEF Over, Ending
<1>20. CASE MySQL!Rebuild("again") \/ MySQL!Rebuild("last") \/ MySQL!Rebuilt
  <2>1. Same /\ row' = row /\ err' = err /\ shut' = shut
    <3>1. CASE MySQL!Rebuild("again") \/ MySQL!Rebuild("last")
      <4>1. UNCHANGED <<dump, n, single, ctx, jobs, shut, writer, err, seen, row, killed>>
        BY <3>1 DEF MySQL!Rebuild
      <4> QED BY <4>1
    <3>2. CASE MySQL!Rebuilt BY <3>2 DEF MySQL!Rebuilt
    <3> QED BY <1>20, <3>1, <3>2
  <2>2. /\ main'.pos = main.pos
        /\ \/ main.pc = "again" /\ main'.pc = "rebuild early"
           \/ main.pc = "last" /\ main'.pc = "rebuild"
           \/ main.pc \in {"rebuild", "rebuild early"} /\ main'.pc = "fail"
           \/ main.pc = "rebuild" /\ main'.pc = "end"
           \/ main.pc = "rebuild early" /\ main'.pc = "exec"
    BY <1>1, <1>20 DEF MySQL!Rebuild, MySQL!Rebuilt, MySQL!Outcome
  <2> QED BY <1>3, <2>1, <2>2, ReaderSpares DEF Over, Ending
<1> QED
  BY <1>5, <1>6, <1>7, <1>8, <1>9, <1>10, <1>11, <1>12, <1>13, <1>14, <1>15, <1>16, <1>17,
     <1>18, <1>19, <1>20

\* A table's first INSERT is queued while nothing else is open or in hand; any other
\* goes into a table that has been written to.
LEMMA QueueSpares ==
  ASSUME MyInv, Unkilled, MySQL!Queue, main'.pc # "fail" PROVE Unkilled'
<1>1. /\ main.pc = "queue" /\ main = [pc |-> main.pc, pos |-> main.pos]
      /\ main.pos \in MySQL!Rows /\ main.pos \in Nat
      /\ jobs \in Seq(MySQL!Rows) /\ 0 \notin MySQL!Rows
      /\ writer \in [MySQL!Writers -> [pc : {"look", "has", "runs", "idle", "gone"},
                                       job : MySQL!Rows \cup {0}]]
      /\ ~single
  <2>1. main.pc = "queue" BY DEF MySQL!Queue, MySQL!At
  <2>2. MyTypeOK /\ MyPlaced BY DEF MyInv
  <2> QED BY <2>1, <2>2, MyDumps DEF MyTypeOK, MyPlaced, RowPlaces, MySQL!Rows
<1>2. /\ UNCHANGED <<dump, n, single, ctx, shut, writer, err, seen, row, killed>>
  BY DEF MySQL!Queue, MySQL!restore, MySQL!server
<1>3. /\ jobs' = Append(jobs, main.pos)
      /\ \/ WordAt(main.pos) \notin seen /\ main' = [main EXCEPT !.pc = "alone"]
         \/ WordAt(main.pos) \in seen /\ main' = [pc |-> "read", pos |-> main.pos + 1]
  <2>1. main' # [main EXCEPT !.pc = "fail"] BY <1>1
  <2> QED BY <2>1 DEF MySQL!Queue, MySQL!Goto, MySQL!NextStmt, MySQL!Alone, MySQL!Stmt, WordAt
<1>4. \/ WordAt(main.pos) \notin seen /\ main'.pc = "alone" /\ main'.pos = main.pos
      \/ WordAt(main.pos) \in seen /\ main'.pc = "read" /\ main'.pos = main.pos + 1
  BY <1>1, <1>3
<1>5. /\ MySQL!Rows' = MySQL!Rows /\ MySQL!Writers' = MySQL!Writers /\ \A i : WordAt(i)' = WordAt(i)
      /\ OpenRows' = OpenRows
  BY <1>2, MyBasics DEF WordAt, OpenRows
<1>6. Jobs' = Jobs \cup {main.pos}
  <2>1. Elements(jobs)' = Elements(jobs) \cup {main.pos}
    <3>1. Elements(jobs') = Elements(jobs) \cup {main.pos} BY <1>1, <1>3, ElementsOfAppend
    <3> QED BY <3>1 DEF Elements
  <2> QED BY <1>1, <1>2, <1>5, <2>1 DEF Jobs
<1>7. ~killed /\ FirstAlone /\ WrittenTo /\ NothingKept BY DEF Unkilled
<1>8. FirstAlone'
  <2>1. \A i \in Jobs : WordAt(i) \in seen BY <1>1, <1>7 DEF FirstAlone
  <2>2. CASE WordAt(main.pos) \in seen
    <3>1. main'.pc = "read" BY <1>4, <2>2
    <3> QED BY <1>2, <1>5, <1>6, <2>1, <2>2, <3>1 DEF FirstAlone
  <2>3. CASE WordAt(main.pos) \notin seen
    <3>1. main'.pc = "alone" /\ main'.pos = main.pos BY <1>4, <2>3
    <3>2. Jobs = {} /\ OpenRows = {} BY <1>1, <1>7, <2>3 DEF FirstAlone
    <3>3. \A w \in MySQL!Writers : writer[w].job = 0 BY <1>1, <3>2 DEF Jobs
    <3>4. jobs = <<>>
      <4>1. jobs # <<>> => jobs[1] \in Elements(jobs) /\ jobs[1] \in MySQL!Rows
        BY <1>1, ElementsOfTail
      <4> QED BY <3>2, <4>1 DEF Jobs
    <3>5. jobs' = <<main'.pos>> BY <1>1, <1>3, <3>1, <3>4
    <3>6. Lone' BY <1>2, <1>5, <3>3, <3>5 DEF Lone
    <3> QED BY <1>2, <1>5, <1>6, <3>1, <3>2, <3>6 DEF FirstAlone
  <2> QED BY <2>2, <2>3
<1>9. WrittenTo'
  <2> SUFFICES ASSUME NEW t \in Tables, Word[t] \in seen, ~ctx, ~err
               PROVE  \E i \in MySQL!Rows \ Jobs' :
                        i < main'.pos /\ dump[i].table = t /\ row[i].at = "in"
    BY <1>2, <1>5 DEF WrittenTo
  <2>1. PICK i \in MySQL!Rows \ Jobs : i < main.pos /\ dump[i].table = t /\ row[i].at = "in"
    BY <1>7 DEF WrittenTo
  <2>2. i < main'.pos /\ i # main.pos
    <3>1. i \in Nat BY NamedAre
    <3> QED BY <1>1, <1>4, <2>1, <3>1
  <2> QED BY <1>6, <2>1, <2>2
<1>10. NothingKept'
  <2>1. ~shut BY <1>1, <1>7 DEF NothingKept, Over, Ending
  <2>2. main'.pc \notin Ending BY <1>4 DEF Ending
  <2>3. \A c \in MySQL!Writers, i \in OpenRows :
          row[i].by = c /\ writer[c].pc \in {"idle", "gone"} => ctx \/ err
    BY <1>1, <1>7 DEF NothingKept
  <2> QED BY <1>1, <1>2, <1>5, <2>1, <2>2, <2>3 DEF NothingKept
<1> QED BY <1>2, <1>7, <1>8, <1>9, <1>10 DEF Unkilled

\* A table counts as written to once its first INSERT is committed.
LEMMA WrittenSpares ==
  ASSUME MyInv, Unkilled, TablesApart, MySQL!Written PROVE Unkilled'
<1>1. /\ main.pc = "alone" /\ main = [pc |-> main.pc, pos |-> main.pos]
      /\ main.pos \in MySQL!Rows /\ main.pos \in Nat /\ dump[main.pos].table \in Tables
      /\ ~single /\ main.pos \in Past /\ err \in BOOLEAN
  <2>1. main.pc = "alone" BY DEF MySQL!Written, MySQL!At
  <2>2. MyTypeOK /\ MyPlaced BY DEF MyInv
  <2>3. main.pos \in MySQL!Rows BY <2>1, <2>2 DEF MyPlaced, RowPlaces, MySQL!Rows
  <2> QED BY <2>1, <2>2, <2>3, MyDumps DEF MyTypeOK, MyPlaced, Past
<1>2. /\ UNCHANGED <<dump, n, single, ctx, jobs, shut, writer, killed>>
      /\ seen' = seen \cup {WordAt(main.pos)}
  BY DEF MySQL!Written, MySQL!restore, MySQL!Stmt, WordAt
<1>3. /\ MySQL!Pending = 0
      /\ \/ /\ ~err /\ err' = err /\ row' = MySQL!Committed(row, MySQL!Opened)
            /\ main' = [pc |-> "read", pos |-> main.pos + 1]
         \/ /\ err' = TRUE /\ main' = [main EXCEPT !.pc = "fail"]
            /\ row' = row \/ \E S \in SUBSET OpenRows : row' = MySQL!Committed(row, S)
  <2>1. \A S \in SUBSET MySQL!Writers : UNION {MySQL!Open(c) : c \in S} \in SUBSET OpenRows
    BY OpenOn
  <2> QED BY <1>1, <2>1 DEF MySQL!Written, MySQL!Barrier, MySQL!Goto, MySQL!NextStmt
<1>4. Jobs = {} BY <1>3, NothingPending
<1>5. /\ MySQL!Rows' = MySQL!Rows /\ MySQL!Writers' = MySQL!Writers /\ Jobs' = {}
  BY <1>2, <1>4, MyBasics DEF Jobs
<1>6. ~killed /\ WrittenTo /\ NothingKept BY DEF Unkilled
<1>7. main'.pc \in {"read", "fail"} BY <1>1, <1>3
<1>8. FirstAlone' BY <1>5, <1>7 DEF FirstAlone
<1>9. ~shut BY <1>1, <1>6 DEF NothingKept, Over, Ending
<1>10. CASE /\ ~err /\ err' = err /\ row' = MySQL!Committed(row, MySQL!Opened)
            /\ main' = [pc |-> "read", pos |-> main.pos + 1]
  <2>1. MySQL!Opened = OpenRows BY <1>1, OpenOn
  <2>2. \A i \in MySQL!Rows : row'[i].at = IF i \in OpenRows THEN "in" ELSE row[i].at
    BY <1>10, <2>1, CommitSettles
  <2>3. OpenRows' = {} BY <1>5, <2>2 DEF OpenRows
  <2>4. \A i \in MySQL!Rows : row[i].at = "in" => row'[i].at = "in" BY <2>2
  <2>5. row'[main.pos].at = "in" \/ ctx
    <3>1. row[main.pos].at # "out" \/ ctx
      BY <1>1, <1>4, <1>10 DEF MyInv, RowsKept, GoingOn, RowPlaces
    <3>2. row[main.pos].at \in {"out", "open", "in"}
      <4>1. row[main.pos] \in RowRecords BY <1>1 DEF MyInv, MyTypeOK
      <4> QED BY <4>1 DEF RowRecords
    <3> QED BY <1>1, <2>2, <3>1, <3>2 DEF OpenRows
  <2>6. main'.pos = main.pos + 1 BY <1>10
  <2>7. WrittenTo'
    <3> SUFFICES ASSUME NEW t \in Tables, Word[t] \in seen', ~ctx
                 PROVE  \E i \in MySQL!Rows :
                          i < main'.pos /\ dump[i].table = t /\ row'[i].at = "in"
      BY <1>2, <1>5 DEF WrittenTo
    <3>1. CASE Word[t] \in seen
      <4>1. PICK i \in MySQL!Rows \ Jobs : i < main.pos /\ dump[i].table = t /\ row[i].at = "in"
        BY <1>6, <1>10, <3>1 DEF WrittenTo
      <4>2. i < main'.pos
        <5>1. i \in Nat BY NamedAre
        <5> QED BY <1>1, <2>6, <4>1, <5>1
      <4> QED BY <2>4, <4>1, <4>2
    <3>2. CASE Word[t] = WordAt(main.pos)
      <4>1. t = dump[main.pos].table BY <1>1, <3>2 DEF TablesApart, WordAt
      <4>2. main.pos < main'.pos BY <1>1, <2>6
      <4> QED BY <1>1, <2>5, <4>1, <4>2
    <3> QED BY <1>2, <3>1, <3>2
  <2>8. NothingKept' BY <1>1, <1>2, <1>7, <1>9, <2>3 DEF NothingKept, Ending
  <2> QED BY <1>2, <1>6, <1>8, <2>7, <2>8 DEF Unkilled
<1>11. CASE err' = TRUE
  <2>1. WrittenTo' BY <1>11 DEF WrittenTo
  <2>2. NothingKept' BY <1>1, <1>2, <1>7, <1>9, <1>11 DEF NothingKept, Ending
  <2> QED BY <1>2, <1>6, <1>8, <2>1, <2>2 DEF Unkilled
<1> QED BY <1>3, <1>10, <1>11

\* What is rolled back in the end was open.
LEMMA DrainedSpares == ASSUME MyInv, Unkilled, ~single, MySQL!Drained PROVE Unkilled'
<1>1. /\ main.pc = "drain" /\ main'.pc = "returned" /\ main'.pos = main.pos
      /\ UNCHANGED <<dump, n, single, ctx, jobs, shut, writer, err, seen, killed>>
      /\ \A w \in MySQL!Writers : writer[w].pc = "gone"
  <2>1. main = [pc |-> main.pc, pos |-> main.pos] BY NamedAre
  <2> QED BY <2>1 DEF MySQL!Drained, MySQL!At, MySQL!Goto, MySQL!restore, MySQL!writers
<1>2. MySQL!Rows' = MySQL!Rows /\ MySQL!Writers' = MySQL!Writers /\ Jobs' = Jobs
  BY <1>1, MyBasics DEF Jobs
<1>3. ASSUME NEW i \in MySQL!Rows
      PROVE  row'[i].at # "open" /\ (row[i].at = "in" => row'[i].at = "in")
  <2> DEFINE S == UNION {MySQL!Open(c) : c \in 0 .. n}
  <2>1. row' = MySQL!RolledBack(row, S) BY DEF MySQL!Drained
  <2>2. row'[i] = IF i \in S THEN [row[i] EXCEPT !.at = "out"] ELSE row[i]
    BY <2>1 DEF MySQL!RolledBack
  <2>3. row[i] \in RowRecords BY DEF MyInv, MyTypeOK
  <2>4. row[i].by \in 0 .. n BY <2>3 DEF RowRecords
  <2>5. i \in S <=> row[i].at = "open" BY <2>4 DEF MySQL!Open
  <2> HIDE DEF S
  <2> QED BY <2>2, <2>3, <2>5 DEF RowRecords
<1>4. OpenRows' = {} BY <1>2, <1>3 DEF OpenRows
<1>5. ~killed /\ FirstAlone /\ WrittenTo /\ NothingKept BY DEF Unkilled
<1>6. FirstAlone' BY <1>1, <1>2, <1>5 DEF FirstAlone, WordAt
<1>7. WrittenTo' BY <1>1, <1>2, <1>3, <1>5 DEF WrittenTo
<1>8. NothingKept' BY <1>1, <1>2, <1>4, <1>5 DEF NothingKept, Over, Ending
<1> QED BY <1>1, <1>5, <1>6, <1>7, <1>8 DEF Unkilled

\* No group alters a table that is joined to one another group alters.
LEMMA NoneJoined ==
  ASSUME Indexed, ~killed, NEW t \in Tables, MySQL!Alter(t) PROVE ~killed'
<1>1. PICK g \in groups : t \in g /\ g \cap building = {} BY DEF MySQL!Alter
<1>2. ASSUME NEW u \in building PROVE ~MySQL!Joined(t, u)
  <2>1. PICK h \in groups : u \in h BY DEF Indexed, PutBack
  <2>2. g # h BY <1>1, <2>1
  <2> QED BY <1>1, <2>1, <2>2 DEF Indexed, Apart
<1>3. killed' = (killed \/ \E u \in building : MySQL!Joined(t, u)) BY DEF MySQL!Alter
<1> QED BY <1>2, <1>3

LEMMA AlteringSpares ==
  ASSUME MyInv, Indexed, Unkilled, ~single, NEW t \in Tables, MySQL!Alter(t) \/ MySQL!Altered(t)
  PROVE  Unkilled'
<1>1. /\ UNCHANGED <<dump, n, single, ctx, main, jobs, shut, writer, err, seen, row>>
  BY DEF MySQL!Alter, MySQL!Altered, MySQL!restore, MySQL!writers, MySQL!server
<1>2. killed' = killed \/ ~killed'
  BY NoneJoined DEF Unkilled, MySQL!Altered, MySQL!server
<1> QED BY <1>1, <1>2, NoCommitSettles, ReaderSpares

LEMMA UnkilledKept ==
  ASSUME MyInv, Indexed, Unkilled, TablesApart, MySQL!Next PROVE Unkilled'
<1>1. CASE single
  <2>1. MyInv' BY MyNext
  <2>2. ~killed /\ seen = {} BY <1>1 DEF Unkilled, NothingKept
  <2>3. main.pc \notin {"alone"} BY <1>1 DEF MyInv, MyPlaced
  <2>4. ASSUME UNCHANGED <<dump, n, single, killed, seen>> PROVE Unkilled'
    BY <1>1, <2>1, <2>2, <2>4, AloneSpares
  <2>5. CASE MySQL!Reader \/ MySQL!ExecFails \/ MySQL!EndFails
    <3>1. UNCHANGED <<dump, n, single, killed>>
      BY <2>5 DEF MySQL!Reader, MySQL!Read, MySQL!WaitForRows, MySQL!Defer, MySQL!Clear,
         MySQL!Drop, MySQL!FlushOwn, MySQL!First, MySQL!Queue, MySQL!Written, MySQL!Exec,
         MySQL!ExecFails, MySQL!Session, MySQL!CloseWriters, MySQL!Stopped, MySQL!Finish,
         MySQL!End, MySQL!EndFails, MySQL!Failing, MySQL!Drained, MySQL!Rebuild,
         MySQL!Rebuilt, MySQL!restore, MySQL!server
    <3>2. seen' = seen
      BY <2>3, <2>5 DEF MySQL!Reader, MySQL!Read, MySQL!WaitForRows, MySQL!Defer, MySQL!Clear,
         MySQL!Drop, MySQL!FlushOwn, MySQL!First, MySQL!Queue, MySQL!Written, MySQL!Exec,
         MySQL!ExecFails, MySQL!Session, MySQL!CloseWriters, MySQL!Stopped, MySQL!Finish,
         MySQL!End, MySQL!EndFails, MySQL!Failing, MySQL!Drained, MySQL!Rebuild,
         MySQL!Rebuilt, MySQL!writers, MySQL!At
    <3> QED BY <2>4, <3>1, <3>2
  <2>6. CASE MySQL!CountTotal \/ MySQL!Cancel
    BY <2>4, <2>6 DEF MySQL!CountTotal, MySQL!Cancel, MySQL!restore, MySQL!server, MySQL!writers
  <2>7. ASSUME NEW t \in Tables, MySQL!Alter(t) \/ MySQL!Altered(t) PROVE Unkilled'
    <3>1. UNCHANGED <<dump, n, single, seen>>
      BY <2>7 DEF MySQL!Alter, MySQL!Altered, MySQL!restore, MySQL!writers
    <3>2. ~killed' BY <2>2, <2>7, NoneJoined DEF MySQL!Altered, MySQL!server
    <3> QED BY <1>1, <2>1, <2>2, <3>1, <3>2, AloneSpares
  <2>8. ASSUME NEW w \in MySQL!Writers, MySQL!Writer(w) \/ MySQL!WriteFails(w) PROVE FALSE
    BY <1>1, <2>8, WriterSteps
  <2> QED BY <2>5, <2>6, <2>7, <2>8 DEF MySQL!Next, MySQL!Faults, MySQL!Altering
<1>2. CASE ~single
  <2>1. CASE MySQL!Reader \/ MySQL!ExecFails \/ MySQL!EndFails
    <3>1. CASE MySQL!Queue /\ main'.pc # "fail" BY <3>1, QueueSpares
    <3>2. CASE MySQL!Written BY <3>2, WrittenSpares
    <3>3. CASE MySQL!Drained BY <1>2, <3>3, DrainedSpares
    <3> QED BY <1>2, <2>1, <3>1, <3>2, <3>3, ReaderStepsSpare DEF MySQL!Reader
  <2>2. CASE MySQL!CountTotal \/ MySQL!Cancel
    <3>1. /\ UNCHANGED <<dump, n, single, main, jobs, shut, writer, err, seen, row, killed>>
          /\ ctx => ctx'
      BY <2>2 DEF MySQL!CountTotal, MySQL!Cancel, MySQL!restore, MySQL!writers, MySQL!server
    <3> QED BY <1>2, <3>1, NoCommitSettles, ReaderSpares
  <2>3. CASE MySQL!Altering BY <1>2, <2>3, AlteringSpares DEF MySQL!Altering
  <2>4. ASSUME NEW w \in MySQL!Writers, MySQL!Writer(w) \/ MySQL!WriteFails(w) PROVE Unkilled'
    BY <2>4, WriterSpares
  <2> QED BY <2>1, <2>2, <2>3, <2>4 DEF MySQL!Next, MySQL!Faults
<1> QED BY <1>1, <1>2

LEMMA UnkilledStarts == ASSUME MySQL!Init PROVE Unkilled
<1>1. MyInv BY MyStarts
<1>2. /\ main = [pc |-> "read", pos |-> 1] /\ single \in BOOLEAN /\ jobs = <<>> /\ shut = single
      /\ writer = [w \in MySQL!Writers |->
                     [pc |-> IF single THEN "gone" ELSE "look", job |-> 0]]
      /\ seen = {} /\ killed = FALSE
      /\ row = [i \in MySQL!Rows |-> [at |-> "out", by |-> 0, under |-> "default"]]
  BY Zenon DEF MySQL!Init
<1>3. 0 \notin MySQL!Rows BY <1>1, MyDumps DEF MyInv
<1>4. Jobs = {} BY <1>2, <1>3, ElementsOfEmpty DEF Jobs
<1>5. OpenRows = {} BY <1>2 DEF OpenRows
<1>6. main.pc = "read" BY <1>2
<1>7. FirstAlone BY <1>4, <1>6 DEF FirstAlone
<1>8. WrittenTo BY <1>2 DEF WrittenTo
<1>9. NothingKept BY <1>2, <1>5, <1>6 DEF NothingKept, Ending
<1> QED BY <1>2, <1>7, <1>8, <1>9 DEF Unkilled

LEMMA NothingIsKilled == ASSUME MyInv, Unkilled PROVE MySQL!NeverKilled
<1>1. ~killed /\ NothingKept BY DEF Unkilled
<1>2. ASSUME ~ctx, ~err, main.pc \notin {"fail", "drain"},
             NEW w \in MySQL!Writers, NEW c \in MySQL!Writers, MySQL!Holds(c, w)
      PROVE  writer[c].pc \notin {"idle", "gone"}
  <2>1. PICK i \in MySQL!Open(c) : TRUE BY <1>2 DEF MySQL!Holds
  <2>2. i \in OpenRows /\ row[i].by = c BY <2>1 DEF MySQL!Open, OpenRows
  <2> QED BY <1>1, <1>2, <2>2 DEF NothingKept
<1> QED BY <1>1, <1>2 DEF MySQL!NeverKilled, MySQL!wctx

-----------------------------------------------------------------------------
(* The loads *)

PipeLoads == strategy = "pipe" => PipeInv
MySQLLoads == strategy = "mysql" => MyInv /\ Indexed

\* How a step of a load moves the way it takes, and that a stutter moves neither.
LEMMA LoadSteps ==
  ASSUME [Next]_vars
  PROVE  /\ strategy' = strategy
         /\ strategy = "pipe" => Pipe!Next \/ UNCHANGED pipeVars
         /\ strategy = "mysql" => MySQL!Next \/ UNCHANGED <<restoreVars, mysqlVars>>
BY DEF Next, ThroughPipe, MySQLRestores, PgRestores, vars

LEMMA PipeStutters == ASSUME UNCHANGED pipeVars PROVE PipeInv' = PipeInv
BY DEF pipeVars, PipeInv, HandleTypeOK, StreamTypeOK, HandleStands, Shown, Sound, Conserved,
       InHand, Pipe!Sides

LEMMA MyStutters ==
  ASSUME UNCHANGED <<restoreVars, mysqlVars>>
  PROVE  /\ MyInv' = MyInv /\ Indexed' = Indexed /\ ShownSoFar' = ShownSoFar
         /\ Unkilled' = Unkilled
<1>1. UNCHANGED <<dump, n, ctx, main, result, broken, session, row, done, single, jobs, shut,
                  writer, err, seen, held, drops, groups, building, progress, counting, killed>>
  BY DEF restoreVars, mysqlVars
<1>2. /\ MySQL!Rows' = MySQL!Rows /\ MySQL!Own' = MySQL!Own /\ MySQL!Writers' = MySQL!Writers
      /\ L' = L /\ RowRecords' = RowRecords /\ Elements(jobs)' = Elements(jobs)
      /\ \A i : MySQL!SessionAt(i)' = MySQL!SessionAt(i)
      /\ \A i : MySQL!IsRows(i)' = MySQL!IsRows(i)
      /\ \A i : WordAt(i)' = WordAt(i)
      /\ \A t, u : MySQL!Joined(t, u)' = MySQL!Joined(t, u)
      /\ MySQL!Deferred' = MySQL!Deferred /\ MySQL!RowTables' = MySQL!RowTables
  BY <1>1, MyStays DEF Elements, WordAt, MySQL!Joined, MySQL!ForeignKeys, MySQL!Deferred,
     MySQL!RowTables, MySQL!Rows, MySQL!IsRows
<1>3. Jobs' = Jobs /\ OpenRows' = OpenRows /\ Past' = Past BY <1>1, <1>2 DEF Jobs, OpenRows, Past
<1>4. MyInv' = MyInv
  <2>1. MyTypeOK' = MyTypeOK BY <1>1, <1>2 DEF MyTypeOK
  <2>2. MyPlaced' = MyPlaced BY <1>1, <1>2 DEF MyPlaced
  <2>3. RowsKept' = RowsKept BY <1>1, <1>2, <1>3 DEF RowsKept
  <2>4. Calm' = Calm BY <1>1, <1>2, <1>3 DEF Calm
  <2>5. UnderWay' = UnderWay BY <1>1, <1>2, <1>3 DEF UnderWay
  <2> QED BY <2>1, <2>2, <2>3, <2>4, <2>5 DEF MyInv
<1>5. Indexed' = Indexed BY <1>1, <1>2 DEF Indexed, IndexTypeOK, Apart, PutBack
<1>6. ShownSoFar' = ShownSoFar
  <2>1. NamedRows' = NamedRows BY <1>1, <1>2 DEF NamedRows
  <2>2. NamedTables' = NamedTables /\ Unnamed' = Unnamed
    BY <1>1, <1>2, <2>1 DEF NamedTables, Unnamed
  <2>3. Naming' = Naming BY <1>1, <1>2, <2>1, <2>2 DEF Naming
  <2>4. Finished' = Finished BY <1>1, <1>2 DEF Finished
  <2> QED BY <1>1, <2>3, <2>4 DEF ShownSoFar
<1>7. Unkilled' = Unkilled
  <2>1. Lone' = Lone BY <1>1, <1>2 DEF Lone
  <2>2. FirstAlone' = FirstAlone BY <1>1, <1>2, <1>3, <2>1 DEF FirstAlone
  <2>3. WrittenTo' = WrittenTo BY <1>1, <1>2, <1>3 DEF WrittenTo
  <2>4. NothingKept' = NothingKept BY <1>1, <1>2, <1>3 DEF NothingKept
  <2> QED BY <1>1, <2>2, <2>3, <2>4 DEF Unkilled
<1> QED BY <1>4, <1>5, <1>6, <1>7

LEMMA PipeLoadsKept == ASSUME PipeLoads, [Next]_vars PROVE PipeLoads'
BY LoadSteps, PipeNext, PipeStutters DEF PipeLoads

LEMMA MySQLLoadsKept == ASSUME MySQLLoads, [Next]_vars PROVE MySQLLoads'
BY LoadSteps, MyNext, IndexedKept, MyStutters DEF MySQLLoads

LEMMA LoadsStart == ASSUME Init PROVE PipeLoads /\ MySQLLoads
BY PipeStarts, MyStarts, IndexedStarts DEF Init, PipeLoads, MySQLLoads

\* Where the pipe's two sides, a MySQL restore's reader and its writers stand, and what
\* is held back, in every state of a load.
THEOREM LoadsStand == Spec => [](PipeLoads /\ MySQLLoads)
<1>1. Init => PipeLoads /\ MySQLLoads BY LoadsStart
<1>2. PipeLoads /\ MySQLLoads /\ [Next]_vars => (PipeLoads /\ MySQLLoads)'
  BY PipeLoadsKept, MySQLLoadsKept
<1> QED BY <1>1, <1>2, PTL DEF Spec

\* A dump comes out as if it had been run in order on one connection: a MySQL dump's
\* INSERTs, handed to writers, run under the session statements above them and after the
\* definitions above them, and a definition after every row above it
\* (rowwriters.go Barrier and Session); a PostgreSQL dump's blocks and statements likewise
\* (postgresql_parallel.go wait and execAll).
THEOREM EveryDumpInOrder == Spec => AsIfInOrder
<1> DEFINE InTurn == /\ strategy = "mysql" => MySQL!InOrder
                     /\ strategy = "postgresql" => Pg!InOrder
<1>1. MySQLLoads /\ PgLoads /\ [Next]_vars => [InTurn]_vars
  <2> SUFFICES ASSUME MySQLLoads, PgLoads, Next PROVE InTurn OBVIOUS
  <2>1. strategy = "mysql" => MySQL!InOrder
    BY MyInOrder DEF MySQLLoads, Next, ThroughPipe, MySQLRestores, PgRestores
  <2>2. strategy = "postgresql" => Pg!InOrder
    BY PgInOrder DEF PgLoads, Next, ThroughPipe, MySQLRestores, PgRestores
  <2> QED BY <2>1, <2>2
<1>2. Spec => [](MySQLLoads /\ PgLoads) BY LoadsStand, PgLoadsStand, PTL
<1> QED BY <1>1, <1>2, PTL DEF Spec, AsIfInOrder

\* What is reported as a success is whole, whichever way it took: all the bytes through
\* the pipe (core/ssh.go pumpSession), every row, definition and index of a MySQL dump and
\* every table of it shown (rowwriters.go write, indexdefer.go, progress.go), every block
\* and statement of a PostgreSQL one (postgresql_parallel.go wait).  The tables are
\* counted right because the rows of a table stand together in a dump.
MySQLShown == strategy = "mysql" => MyInv /\ Indexed /\ ShownSoFar
THEOREM EverySuccessIsWhole ==
  ASSUME \A d \in MySQLDumps : RowsTogether(d)
  PROVE  Spec => []SuccessIsWhole
<1>1. Init => MySQLShown
  BY MyStarts, IndexedStarts, ShownStarts DEF Init, MySQLShown
<1>2. MySQLShown /\ [Next]_vars => MySQLShown'
  <2> SUFFICES ASSUME MySQLShown, [Next]_vars, strategy = "mysql" PROVE MySQLShown'
    BY LoadSteps DEF MySQLShown
  <2>1. MyInv /\ Indexed /\ ShownSoFar BY DEF MySQLShown
  <2>2. RowsTogether(dump) BY <2>1 DEF MyInv, MyTypeOK
  <2>3. CASE MySQL!Next
    BY <2>1, <2>2, <2>3, MyNext, IndexedKept, ShownKept DEF MySQLShown
  <2>4. CASE UNCHANGED <<restoreVars, mysqlVars>> BY <2>1, <2>4, MyStutters DEF MySQLShown
  <2> QED BY <2>3, <2>4, LoadSteps
<1>3. MySQLShown /\ strategy = "mysql" => MySQL!SuccessIsWhole
  <2> SUFFICES ASSUME MyInv, Indexed, ShownSoFar, result = "nil"
               PROVE  /\ done = MySQL!Own /\ \A i \in MySQL!Rows : row[i].at = "in"
                      /\ MySQL!Deferred = {} /\ ~counting
                      /\ progress.done = Cardinality(MySQL!RowTables)
                      /\ progress.total = progress.done
    BY SameCardinality DEF MySQLShown, MySQL!SuccessIsWhole
  <2>1. Finished BY DEF ShownSoFar
  <2>2. MySQL!Deferred = {} BY DEF Indexed, PutBack
  <2> QED BY <2>1, <2>2, MyAllIn DEF Finished
<1>4. PipeLoads /\ MySQLShown /\ PgLoads => SuccessIsWhole
  BY <1>3, PipeWhole, PgSuccessIsWhole DEF PipeLoads, PgLoads, SuccessIsWhole
<1>5. Spec => []PipeLoads /\ []PgLoads BY LoadsStand, PgLoadsStand, PTL
<1> QED BY <1>1, <1>2, <1>4, <1>5, PTL DEF Spec

\* No statement of a MySQL restore is killed by another as a deadlock, and while the
\* restore goes on none waits for a transaction that a writer with nothing to do keeps
\* open (rowwriters.go Insert and commitIdle, indexdefer.go relatedGroups).  Two tables
\* that the restore reads as one would be taken for one that has been written to.
MySQLUnkilled == strategy = "mysql" => MyInv /\ Indexed /\ Unkilled
THEOREM NoStatementIsKilled == ASSUME TablesApart PROVE Spec => []NeverKilled
<1>1. Init => MySQLUnkilled
  BY MyStarts, IndexedStarts, UnkilledStarts DEF Init, MySQLUnkilled
<1>2. MySQLUnkilled /\ [Next]_vars => MySQLUnkilled'
  <2> SUFFICES ASSUME MySQLUnkilled, [Next]_vars, strategy = "mysql" PROVE MySQLUnkilled'
    BY LoadSteps DEF MySQLUnkilled
  <2>1. MyInv /\ Indexed /\ Unkilled BY DEF MySQLUnkilled
  <2>2. CASE MySQL!Next
    BY <2>1, <2>2, MyNext, IndexedKept, UnkilledKept DEF MySQLUnkilled
  <2>3. CASE UNCHANGED <<restoreVars, mysqlVars>>
    BY <2>1, <2>3, MyStutters DEF MySQLUnkilled
  <2> QED BY <2>2, <2>3, LoadSteps
<1>3. MySQLUnkilled => NeverKilled
  BY NothingIsKilled DEF MySQLUnkilled, NeverKilled
<1> QED BY <1>1, <1>2, <1>3, PTL DEF Spec

================================================================================
