--------------------------- MODULE ObjectCopiesProofs ---------------------------
(***************************************************************************)
(* For every listing, every size and every number of parts: a transfer     *)
(* over object storage that returns nil left every selected object whole,  *)
(* what it returns otherwise has its cause, its totals count every byte    *)
(* once, and no multipart upload it opened is left open.                   *)
(*                                                                         *)
(* The invariant follows each lane (WholeLane, PartedLane) from the        *)
(* objects that are still to go to the error it ended with; the parts of   *)
(* the object that is being joined (PartsOfCurrent); whom an error may     *)
(* blame (ErrorsHaveCause); and what the totals stand for (Counted), bytes *)
(* as sets so that sums are cardinalities.                                 *)
(***************************************************************************)
EXTENDS ObjectCopies, FiniteSetTheorems, TLAPS

WholePCs == {"todo", "queued", "trying", "backoff", "done", "failed", "cancelled"}
Busy == {"starting", "parts", "joining", "aborting"}
PartedPCs == Busy \cup {"todo", "done", "failed", "cancelled"}
PartPCs == {"todo", "trying", "backoff", "landed", "failed"}
Errors == {"", "failed", "cancelled"}

LaneType ==
  [whole : {"check", "go", "wait", "ended"}, wholes : Seq(Objects), wholeErr : Errors,
   parted : {"next", "busy", "ended"}, parteds : Seq(Objects), err : Errors]
ObjType == [pc : WholePCs \cup PartedPCs, try : Nat, read : Nat, credited : Nat]
PartType ==
  [go : {"check", "go", "wait"}, next : Nat \ {0}, err : BOOLEAN, written : Nat,
   at : [PartNumbers -> [pc : PartPCs, try : Nat]]]

TypeOK ==
  /\ mode \in Modes
  /\ run \in [pc : {"list", "clear", "copy", "ended"}, result : {"ok"} \cup Errors]
  /\ ctx \in BOOLEAN /\ old \in BOOLEAN /\ stray \in BOOLEAN
  /\ lane \in LaneType
  /\ obj \in [Objects -> ObjType]
  /\ part \in PartType
  /\ dest \in [Objects -> {"absent", "partial", "whole"}]
  /\ upload \in [Objects -> {"none", "open", "joined", "discarded", "left"}]
  /\ total \in [bytes : Nat, files : Nat]

\* Until the lanes start, nothing has been sent or counted.
NothingYet ==
  /\ run.pc # "ended" => run.result = ""
  /\ run.pc \in {"list", "clear"} =>
       /\ lane = [whole |-> "check", wholes |-> <<>>, wholeErr |-> "",
                  parted |-> "next", parteds |-> <<>>, err |-> ""]
       /\ \A o \in Objects : obj[o].pc = "todo" /\ upload[o] = "none"

\* The objects written whole: which are still to go, and what it means that the
\* lane waits, or has ended.
WholeLane ==
  /\ lane.wholes \in Seq(Whole) /\ IsInjective(lane.wholes)
  /\ \A o \in Whole : obj[o].pc \in WholePCs
  /\ \A o \in Whole : obj[o].pc = "todo" <=> o \in ToSet(lane.wholes)
  /\ \A o \in Whole : obj[o].pc \in {"failed", "cancelled"} => lane.wholeErr # ""
  /\ lane.whole = "go" => lane.wholes # <<>>
  /\ lane.whole = "wait" => lane.wholes = <<>> \/ WholeCancelled
  /\ lane.whole = "ended" /\ lane.err = "" => \A o \in Whole : obj[o].pc = "done"

\* The objects written in parts, one at a time.
PartedLane ==
  /\ lane.parteds \in Seq(Parted) /\ IsInjective(lane.parteds)
  /\ \A o \in Parted : obj[o].pc \in PartedPCs
  /\ \A o \in Parted \ ToSet(lane.parteds) : obj[o].pc = "done"
  /\ lane.parted = "next" => \A o \in ToSet(lane.parteds) : obj[o].pc = "todo"
  /\ lane.parted = "busy" =>
       /\ lane.parteds # <<>> /\ obj[Current].pc \in Busy
       /\ \A o \in ToSet(Tail(lane.parteds)) : obj[o].pc = "todo"
  /\ lane.parted = "ended" => lane.parteds = <<>> \/ lane.err # ""

\* An error that is not a cancellation is an object's; a cancellation comes from
\* outside or, in the lane of whole objects, from the other lane.
ErrorsHaveCause ==
  /\ "failed" \in {lane.wholeErr, lane.err} => \E o \in Selected : obj[o].pc = "failed"
  /\ lane.wholeErr = "cancelled" => LanesCancelled
  /\ lane.err = "cancelled" => ctx

\* The bytes of part i, of those of its object.
BytesOf(o, i) == ((i - 1) * PartSize + 1)..((i - 1) * PartSize + PartLength(o, i))
LandedParts == {i \in PartNumbers : part.at[i].pc = "landed"}
LandedBytes(o) == UNION {BytesOf(o, i) : i \in LandedParts}

\* The parts of the object at hand: those behind part.next were started, none other;
\* the upload is joined when all of them landed.
PartsOf(o) ==
  /\ obj[o].pc = "starting" => part = NoParts
  /\ part.next <= Parts(o) + 1
  /\ part.go = "go" => part.next <= Parts(o)
  /\ part.go = "wait" => part.next = Parts(o) + 1 \/ PartsCancelled
  /\ \A i \in PartNumbers : part.at[i].pc = "todo" <=> i >= part.next
  /\ \A i \in PartNumbers : part.at[i].pc = "failed" => part.err
  /\ part.written = Cardinality(LandedBytes(o))
  /\ obj[o].pc = "joining" => \A i \in 1..Parts(o) : part.at[i].pc = "landed"
PartsOfCurrent ==
  lane.parted = "busy" => \A o \in Objects : o = Current => PartsOf(o)

\* An upload is open on the server only while its object is at hand.
OpenIsAtHand ==
  \A o \in Objects : upload[o] = "open" =>
    lane.parted = "busy" /\ o = Current /\ obj[o].pc \in {"parts", "joining", "aborting"}

Copied ==
  run.pc = "copy" => WholeLane /\ PartedLane /\ ErrorsHaveCause /\ PartsOfCurrent /\ OpenIsAtHand

\* What the totals stand for.
Bytes(S, count) == UNION {{o} \X (1..count[o]) : o \in S}
Credits == [o \in Objects |-> obj[o].credited]
DoneObjects == {o \in Selected : obj[o].pc = "done"}
Counted ==
  /\ \A o \in Objects : obj[o].credited <= Size[o]
  /\ \A o \in Selected : obj[o].pc = "done" => dest[o] = "whole" /\ obj[o].credited = Size[o]
  /\ total = [bytes |-> Cardinality(Bytes(Selected, Credits)), files |-> Cardinality(DoneObjects)]

\* What a transfer that has returned may have said and left.
Returned ==
  run.pc = "ended" =>
    /\ run.result = "ok" => \A o \in Selected : obj[o].pc = "done"
    /\ run.result = "cancelled" => ctx
    /\ run.result = "failed" /\ lane.err # "" => \E o \in Selected : obj[o].pc = "failed"
    /\ \A o \in Objects : upload[o] # "open"

IInv == TypeOK /\ NothingYet /\ Copied /\ Counted /\ Returned

-----------------------------------------------------------------------------
(* Sorting, the largest of a set, and the listing.                         *)

\* A finite set with a strict total order can be listed in that order.
LEMMA Sortable ==
  ASSUME NEW S, IsFiniteSet(S), NEW R,
         \A x \in S : <<x, x>> \notin R,
         \A x, y, z \in S : <<x, y>> \in R /\ <<y, z>> \in R => <<x, z>> \in R,
         \A x, y \in S : x # y => <<x, y>> \in R \/ <<y, x>> \in R
  PROVE  \E s \in [1..Cardinality(S) -> S] :
           \A i, j \in 1..Cardinality(S) : i < j => <<s[i], s[j]>> \in R
<1> DEFINE n == Cardinality(S)
           before(x) == {y \in S : <<y, x>> \in R}
           r == [x \in S |-> Cardinality(before(x)) + 1]
<1>1. n \in Nat /\ IsFiniteSet(1..n) /\ Cardinality(1..n) = n
  BY FS_CardinalityType, FS_Interval
<1>2. ASSUME NEW x \in S
      PROVE  r[x] \in 1..n /\ IsFiniteSet(before(x)) /\ Cardinality(before(x)) \in Nat
  <2>1. before(x) \in SUBSET (S \ {x}) OBVIOUS
  <2>2. IsFiniteSet(S \ {x}) /\ Cardinality(S \ {x}) = n - 1 BY FS_RemoveElement
  <2> HIDE DEF before, n
  <2>3. IsFiniteSet(before(x)) /\ Cardinality(before(x)) <= n - 1 BY <2>1, <2>2, FS_Subset
  <2>4. Cardinality(before(x)) \in Nat BY <2>3, FS_CardinalityType
  <2> QED BY <1>1, <2>3, <2>4
<1>3. ASSUME NEW x \in S, NEW y \in S, <<x, y>> \in R PROVE r[x] < r[y]
  <2>1. before(x) \in SUBSET before(y) /\ x \in before(y) /\ x \notin before(x) BY <1>3
  <2>2. Cardinality(before(x)) <= Cardinality(before(y)) BY <1>2, <2>1, FS_Subset
  <2>3. Cardinality(before(x)) # Cardinality(before(y)) BY <1>2, <2>1, FS_Subset
  <2> QED BY <1>2, <2>2, <2>3
<1>4. r \in Injection(S, 1..n)
  <2>1. r \in [S -> 1..n] BY <1>2
  <2>2. ASSUME NEW x \in S, NEW y \in S, x # y PROVE r[x] # r[y]
    <3> HIDE DEF r, before, n
    <3>1. CASE <<x, y>> \in R BY <1>3, <3>1, <2>1, <1>1
    <3>2. CASE <<y, x>> \in R BY <1>3, <3>2, <2>1, <1>1
    <3> QED BY <3>1, <3>2, <2>2
  <2> HIDE DEF r
  <2> QED BY <2>1, <2>2 DEF Injection, IsInjective
<1>5. r \in Surjection(S, 1..n) BY <1>1, <1>4, FS_Injection
<1> DEFINE s == [i \in 1..n |-> CHOOSE x \in S : r[x] = i]
<1>6. ASSUME NEW i \in 1..n PROVE s[i] \in S /\ r[s[i]] = i
  <2>1. \E x \in S : r[x] = i BY <1>5 DEF Surjection
  <2> QED BY <2>1
<1>7. ASSUME NEW i \in 1..n, NEW j \in 1..n, i < j PROVE <<s[i], s[j]>> \in R
  <2> HIDE DEF r, s
  <2>1. s[i] # s[j] /\ ~ (r[s[j]] < r[s[i]]) BY <1>1, <1>6, <1>7
  <2> QED BY <1>3, <1>6, <2>1
<1>8. s \in [1..n -> S] BY <1>6
<1> QED BY <1>7, <1>8

\* A finite set of numbers that has an element has a largest one.
LEMMA MaxOfFinite ==
  ASSUME NEW S \in SUBSET Nat, IsFiniteSet(S), S # {}
  PROVE  Max(S) \in S /\ \A x \in S : Max(S) >= x
<1> DEFINE R == {p \in S \X S : p[1] < p[2]}
<1>1. PICK s \in [1..Cardinality(S) -> S] :
        \A i, j \in 1..Cardinality(S) : i < j => <<s[i], s[j]>> \in R
  <2>1. \A x \in S : <<x, x>> \notin R OBVIOUS
  <2>2. \A x, y, z \in S : <<x, y>> \in R /\ <<y, z>> \in R => <<x, z>> \in R OBVIOUS
  <2>3. \A x, y \in S : x # y => <<x, y>> \in R \/ <<y, x>> \in R OBVIOUS
  <2> HIDE DEF R
  <2> QED BY <2>1, <2>2, <2>3, Sortable
<1>2. Cardinality(S) \in Nat \ {0} BY FS_CardinalityType, FS_EmptySet
<1>3. s \in Injection(1..Cardinality(S), S)
  <2>1. ASSUME NEW i \in 1..Cardinality(S), NEW j \in 1..Cardinality(S), i < j
        PROVE  s[i] < s[j]
    BY <1>1, <2>1
  <2>2. \A i \in 1..Cardinality(S) : s[i] \in Nat OBVIOUS
  <2>3. ASSUME NEW i \in 1..Cardinality(S), NEW j \in 1..Cardinality(S), s[i] = s[j]
        PROVE  i = j
    <3>1. ~(s[i] < s[j]) /\ ~(s[j] < s[i]) BY <2>2, <2>3
    <3> QED BY <1>2, <2>1, <3>1
  <2> QED BY <2>3 DEF Injection, IsInjective
<1>4. s \in Surjection(1..Cardinality(S), S)
  <2>1. IsFiniteSet(1..Cardinality(S)) /\ Cardinality(1..Cardinality(S)) = Cardinality(S)
    BY <1>2, FS_Interval
  <2> QED BY <1>3, <2>1, FS_Injection
<1>5. ASSUME NEW x \in S PROVE s[Cardinality(S)] >= x
  <2>1. PICK i \in 1..Cardinality(S) : s[i] = x BY <1>4 DEF Surjection
  <2>2. CASE i = Cardinality(S) BY <2>1, <2>2, <1>2
  <2>3. CASE i < Cardinality(S)
    <3>1. Cardinality(S) \in 1..Cardinality(S) BY <1>2
    <3>2. <<s[i], s[Cardinality(S)]>> \in R BY <1>1, <2>3, <3>1
    <3>3. s[i] < s[Cardinality(S)] /\ s[i] \in Nat /\ s[Cardinality(S)] \in Nat BY <3>1, <3>2
    <3> QED BY <2>1, <3>3
  <2> QED BY <2>2, <2>3, <1>2
<1>6. s[Cardinality(S)] \in S BY <1>2
<1> QED BY <1>5, <1>6 DEF Max

LEMMA EmptyHasNone == ToSet(<<>>) = {}
BY DEF ToSet

\* The smaller and the larger of two numbers.
LEMMA MinOfTwo ==
  ASSUME NEW a \in Int, NEW b \in Int
  PROVE  Min({a, b}) = IF a <= b THEN a ELSE b
BY DEF Min
LEMMA MaxOfTwo ==
  ASSUME NEW a \in Int, NEW b \in Int
  PROVE  Max({a, b}) = IF a >= b THEN a ELSE b
BY DEF Max

LEMMA ObjectsFinite == IsFiniteSet(Objects) /\ Size \in [Objects -> Nat]
<1>1. Listing \in Surjection(1..Len(Listing), Objects)
  BY ListingAssumption DEF Objects, ToSet, Surjection
<1>2. IsFiniteSet(1..Len(Listing)) BY FS_Interval, ListingAssumption
<1> QED BY <1>1, <1>2, FS_Surjection, SizesAssumption

\* largestFirst lists each of its objects once.
LEMMA LargestFirstLists ==
  ASSUME NEW S \in SUBSET Objects
  PROVE  /\ LargestFirst(S) \in Seq(S) /\ IsInjective(LargestFirst(S))
         /\ ToSet(LargestFirst(S)) = S
<1> DEFINE n == Cardinality(S)
           R == {p \in S \X S : Precedes(p[1], p[2])}
           sorts(s) == \A i, j \in DOMAIN s : i < j => Precedes(s[i], s[j])
<1>1. IsFiniteSet(S) /\ n \in Nat BY ObjectsFinite, FS_Subset, FS_CardinalityType
<1>2. ASSUME NEW o \in Objects PROVE Place(o) \in Nat /\ Listing[Place(o)] = o
  BY ListingAssumption DEF Objects, ToSet, Place
<1>3. \A o, p \in S : Precedes(o, p) <=> <<o, p>> \in R OBVIOUS
<1>4. \A o \in S : ~Precedes(o, o) BY <1>2, ObjectsFinite DEF Precedes
<1>5. \A o, p, q \in S : Precedes(o, p) /\ Precedes(p, q) => Precedes(o, q)
  BY <1>2, ObjectsFinite DEF Precedes
<1>6. \A o, p \in S : o # p => Precedes(o, p) \/ Precedes(p, o)
  <2>1. \A o, p \in S : o # p => Place(o) # Place(p) BY <1>2
  <2> QED BY <2>1, <1>2, ObjectsFinite DEF Precedes
<1>7. PICK t \in [1..n -> S] : sorts(t)
  <2> HIDE DEF R
  <2>1. \E s \in [1..n -> S] : \A i, j \in 1..n : i < j => <<s[i], s[j]>> \in R
    BY <1>1, <1>3, <1>4, <1>5, <1>6, Sortable
  <2> QED BY <2>1, <1>3
<1> DEFINE s == LargestFirst(S)
<1>8. s \in [1..n -> S] /\ sorts(s) BY <1>7 DEF LargestFirst
<1> HIDE DEF s, R
<1>9. s \in Seq(S) /\ DOMAIN s = 1..n BY <1>1, <1>8
<1>10. s \in Injection(1..n, S)
  <2>1. \A i, j \in 1..n : s[i] = s[j] => i = j BY <1>1, <1>4, <1>8
  <2> QED BY <2>1, <1>8 DEF Injection, IsInjective
<1>11. s \in Surjection(1..n, S)
  <2>1. IsFiniteSet(1..n) /\ Cardinality(1..n) = n BY <1>1, FS_Interval
  <2> QED BY <1>1, <1>10, <2>1, FS_Injection
<1>12. ToSet(s) = S BY <1>9, <1>11 DEF Surjection, ToSet
<1>13. IsInjective(s) BY <1>9, <1>10 DEF Injection, IsInjective
<1> QED BY <1>9, <1>12, <1>13 DEF s

\* What a lane has left after its first object.
LEMMA TailOfDistinct ==
  ASSUME NEW S, NEW s \in Seq(S), IsInjective(s), s # <<>>
  PROVE  /\ Tail(s) \in Seq(S) /\ IsInjective(Tail(s))
         /\ Head(s) \in S /\ Head(s) \in ToSet(s)
         /\ ToSet(Tail(s)) = ToSet(s) \ {Head(s)}
<1>1. /\ Len(s) \in Nat \ {0} /\ Tail(s) \in Seq(S) /\ Len(Tail(s)) = Len(s) - 1
      /\ Head(s) = s[1] /\ \A i \in 1..(Len(s) - 1) : Tail(s)[i] = s[i + 1]
      /\ DOMAIN s = 1..Len(s) /\ DOMAIN Tail(s) = 1..(Len(s) - 1)
  OBVIOUS
<1>2. \A i, j \in 1..Len(s) : s[i] = s[j] => i = j BY <1>1 DEF IsInjective
<1>3. IsInjective(Tail(s)) BY <1>1, <1>2 DEF IsInjective
<1>4. ASSUME NEW x \in ToSet(Tail(s)) PROVE x \in ToSet(s) \ {Head(s)}
  <2>1. PICK i \in 1..(Len(s) - 1) : x = s[i + 1] BY <1>1 DEF ToSet
  <2> QED BY <1>1, <1>2, <2>1 DEF ToSet
<1>5. ASSUME NEW x \in ToSet(s), x # Head(s) PROVE x \in ToSet(Tail(s))
  <2>1. PICK i \in 1..Len(s) : x = s[i] BY <1>1 DEF ToSet
  <2>2. i - 1 \in 1..(Len(s) - 1) /\ i = (i - 1) + 1 BY <1>1, <1>5, <2>1
  <2> QED BY <1>1, <2>1, <2>2 DEF ToSet
<1>6. Head(s) \in S /\ Head(s) \in ToSet(s) BY <1>1 DEF ToSet
<1> QED BY <1>1, <1>3, <1>4, <1>5, <1>6

-----------------------------------------------------------------------------
(* Parts and bytes.                                                        *)

LEMMA Limits == PartSize \in Nat \ {0} /\ PutLimit \in Nat \ {0} /\ Attempts \in Nat \ {0}
BY LimitsAssumption

LEMMA PartsNatural == ASSUME NEW o \in Objects PROVE Parts(o) \in Nat
<1>1. Size[o] \in Nat /\ Size[o] + PartSize - 1 \in Nat BY ObjectsFinite, Limits
<1> QED BY <1>1, Limits DEF Parts

LEMMA PartNumbersCover ==
  /\ PartNumbers \subseteq Nat \ {0} /\ IsFiniteSet(PartNumbers)
  /\ \A o \in Objects : 1..Parts(o) \subseteq PartNumbers
<1> DEFINE f == [o \in Objects |-> Parts(o)]
           P == {Parts(o) : o \in Objects}
<1>1. f \in Surjection(Objects, P) BY DEF Surjection
<1>2. IsFiniteSet(P) BY <1>1, ObjectsFinite, FS_Surjection
<1>3. IsFiniteSet({1} \cup P) BY <1>2, FS_Singleton, FS_Union
<1>4. ({1} \cup P) \in SUBSET Nat BY PartsNatural
<1>5. /\ Max({1} \cup P) \in {1} \cup P
      /\ \A x \in {1} \cup P : Max({1} \cup P) >= x
  <2> HIDE DEF P
  <2> QED BY <1>3, <1>4, MaxOfFinite
<1> DEFINE m == Max({1} \cup P)
<1>6. m \in Nat /\ \A o \in Objects : Parts(o) <= m BY <1>4, <1>5, PartsNatural
<1>7. PartNumbers = 1..m BY DEF PartNumbers
<1> HIDE DEF m, P
<1>8. IsFiniteSet(1..m) BY <1>6, FS_Interval
<1> QED BY <1>6, <1>7, <1>8, PartsNatural

\* Part i starts where the parts before it end, and ends within the object.
LEMMA PartWithin ==
  ASSUME NEW o \in Objects, NEW i \in 1..Parts(o)
  PROVE  /\ (i - 1) * PartSize \in Nat /\ PartLength(o, i) \in Nat
         /\ PartLength(o, i) <= PartSize
         /\ (i - 1) * PartSize + PartLength(o, i) <= Size[o]
<1> DEFINE n == Parts(o)
<1>1. Size[o] \in Nat /\ n \in Nat /\ i \in Nat /\ i - 1 \in Nat
  BY ObjectsFinite, PartsNatural
<1>2. (Size[o] + PartSize - 1) \in Int /\ n * PartSize <= Size[o] + PartSize - 1
  BY <1>1, Limits DEF Parts
<1>3. i * PartSize <= n * PartSize
  <2>1. \A a, b, c \in Nat : a <= b => a * c <= b * c OBVIOUS
  <2> QED BY <1>1, <2>1, Limits
<1>4. (i - 1) * PartSize = i * PartSize - PartSize BY <1>1, Limits
<1>5. (i - 1) * PartSize \in Nat /\ i * PartSize \in Nat /\ n * PartSize \in Nat BY <1>1, Limits
<1> HIDE DEF n
<1>6. PartLength(o, i) = IF PartSize <= Size[o] - (i - 1) * PartSize THEN PartSize
                         ELSE Size[o] - (i - 1) * PartSize
  BY <1>1, <1>5, Limits, MinOfTwo DEF PartLength
<1> DEFINE a == (i - 1) * PartSize
<1>7. a \in Nat /\ a < Size[o] BY <1>1, <1>2, <1>3, <1>4, <1>5, Limits
<1> HIDE DEF a
<1> QED BY <1>1, <1>5, <1>6, <1>7, Limits DEF a

\* No byte belongs to two parts.
LEMMA PartsApart ==
  ASSUME NEW o \in Objects, NEW i \in 1..Parts(o), NEW j \in 1..Parts(o), i < j
  PROVE  BytesOf(o, i) \cap BytesOf(o, j) = {}
<1>1. i * PartSize <= (j - 1) * PartSize
  <2>1. \A a, b, c \in Nat : a <= b => a * c <= b * c OBVIOUS
  <2>2. i \in Nat /\ j - 1 \in Nat /\ i <= j - 1 BY PartsNatural
  <2> QED BY <2>1, <2>2, Limits
<1>2. (i - 1) * PartSize = i * PartSize - PartSize BY PartsNatural, Limits
<1> DEFINE a == (i - 1) * PartSize
           b == (j - 1) * PartSize
<1>3. a + PartSize <= b /\ a \in Nat /\ b \in Nat BY <1>1, <1>2, PartWithin, PartsNatural, Limits
<1>4. PartLength(o, i) \in Nat /\ PartLength(o, i) <= PartSize /\ PartLength(o, j) \in Nat
  BY PartWithin
<1>5. /\ BytesOf(o, i) = (a + 1)..(a + PartLength(o, i))
      /\ BytesOf(o, j) = (b + 1)..(b + PartLength(o, j))
  BY DEF BytesOf
<1> HIDE DEF a, b
<1> QED BY <1>3, <1>4, <1>5, Limits

\* One more part lands: its bytes were not counted before, and none is beyond the end.
LEMMA PartLanding ==
  ASSUME NEW o \in Objects, NEW L \in SUBSET (1..Parts(o)), NEW i \in (1..Parts(o)) \ L
  PROVE  LET bytes(X) == UNION {BytesOf(o, j) : j \in X}
         IN /\ Cardinality(bytes(L)) \in Nat
            /\ Cardinality(bytes(L \cup {i})) = Cardinality(bytes(L)) + PartLength(o, i)
            /\ Cardinality(bytes(L \cup {i})) <= Size[o]
<1> DEFINE bytes(X) == UNION {BytesOf(o, j) : j \in X}
<1>1. Size[o] \in Nat /\ IsFiniteSet(1..Size[o]) /\ Cardinality(1..Size[o]) = Size[o]
  <2>1. Size[o] \in Nat BY ObjectsFinite
  <2>2. \A n \in Nat : IsFiniteSet(1..n) /\ Cardinality(1..n) = n BY FS_Interval
  <2> QED BY <2>1, <2>2
<1>2. ASSUME NEW j \in 1..Parts(o) PROVE BytesOf(o, j) \subseteq 1..Size[o]
  <2> DEFINE a == (j - 1) * PartSize
  <2>1. a \in Nat /\ PartLength(o, j) \in Nat /\ a + PartLength(o, j) <= Size[o] BY PartWithin
  <2>2. BytesOf(o, j) = (a + 1)..(a + PartLength(o, j)) BY DEF BytesOf
  <2> HIDE DEF a
  <2> QED BY <1>1, <2>1, <2>2
<1>3. bytes(L) \in SUBSET (1..Size[o]) /\ bytes(L \cup {i}) \in SUBSET (1..Size[o]) BY <1>2
<1>4. bytes(L \cup {i}) = bytes(L) \cup BytesOf(o, i) OBVIOUS
<1>5. bytes(L) \cap BytesOf(o, i) = {}
  <2>1. \A j \in L : BytesOf(o, j) \cap BytesOf(o, i) = {}
    <3> TAKE j \in L
    <3>1. j \in 1..Parts(o) /\ i \in 1..Parts(o) /\ (i < j \/ j < i) BY PartsNatural
    <3> QED BY <3>1, PartsApart
  <2> QED BY <2>1
<1>6. IsFiniteSet(BytesOf(o, i)) /\ Cardinality(BytesOf(o, i)) = PartLength(o, i)
  <2> DEFINE a == (i - 1) * PartSize
  <2>1. a \in Nat /\ PartLength(o, i) \in Nat BY PartWithin
  <2>2. BytesOf(o, i) = (a + 1)..(a + PartLength(o, i)) BY DEF BytesOf
  <2> HIDE DEF a
  <2>3. a + 1 \in Int /\ a + PartLength(o, i) \in Int BY <2>1
  <2> QED BY <2>1, <2>2, <2>3, FS_Interval, SMTT(60)
<1> HIDE DEF bytes
<1>7. /\ IsFiniteSet(bytes(L)) /\ Cardinality(bytes(L)) \in Nat
      /\ Cardinality(bytes(L \cup {i})) <= Size[o]
  BY <1>1, <1>3, FS_Subset, FS_CardinalityType
<1>8. Cardinality(bytes(L \cup {i})) = Cardinality(bytes(L)) + PartLength(o, i)
  <2>1. Cardinality(bytes(L) \cup BytesOf(o, i)) =
            Cardinality(bytes(L)) + Cardinality(BytesOf(o, i))
              - Cardinality(bytes(L) \cap BytesOf(o, i))
    BY <1>6, <1>7, FS_Union
  <2>2. PartLength(o, i) \in Nat BY PartWithin
  <2>3. Cardinality(bytes(L) \cap BytesOf(o, i)) = 0 BY <1>5, FS_EmptySet
  <2>4. Cardinality(bytes(L \cup {i})) = Cardinality(bytes(L) \cup BytesOf(o, i)) BY <1>4
  <2>5. Cardinality(bytes(L) \cup BytesOf(o, i)) =
          Cardinality(bytes(L)) + PartLength(o, i) - 0
    BY <1>6, <2>1, <2>3
  <2> QED BY <1>7, <2>2, <2>4, <2>5
<1> QED BY <1>7, <1>8 DEF bytes

\* Sums of bytes, as sets.
LEMMA BytesFinite ==
  ASSUME NEW S \in SUBSET Objects, NEW count \in [Objects -> Nat]
  PROVE  IsFiniteSet(Bytes(S, count)) /\ Cardinality(Bytes(S, count)) \in Nat
<1> DEFINE one(o) == {o} \X (1..count[o])
           all == {one(o) : o \in S}
           f == [o \in S |-> one(o)]
<1>1. IsFiniteSet(S) BY ObjectsFinite, FS_Subset
<1>2. ASSUME NEW o \in S PROVE IsFiniteSet(one(o))
  <2>1. IsFiniteSet({o}) BY FS_Singleton
  <2>2. count[o] \in Int BY ObjectsFinite
  <2>3. IsFiniteSet(1..count[o]) BY <2>2, FS_Interval
  <2> QED BY <2>1, <2>3, FS_Product
<1>3. IsFiniteSet(all)
  <2>1. f \in Surjection(S, all) BY DEF Surjection
  <2> QED BY <1>1, <2>1, FS_Surjection
<1>4. \A T \in all : IsFiniteSet(T) BY <1>2
<1> HIDE DEF one
<1>5. IsFiniteSet(UNION all)
  <2> HIDE DEF all
  <2> QED BY <1>3, <1>4, FS_UNION
<1>6. UNION all = Bytes(S, count) BY DEF one, Bytes
<1> HIDE DEF all
<1> QED BY <1>5, <1>6, FS_CardinalityType

LEMMA BytesMonotone ==
  ASSUME NEW S \in SUBSET Objects, NEW c \in [Objects -> Nat], NEW d \in [Objects -> Nat],
         \A o \in Objects : c[o] <= d[o]
  PROVE  Cardinality(Bytes(S, c)) <= Cardinality(Bytes(S, d))
<1>1. \A o \in S : 1..c[o] \subseteq 1..d[o] OBVIOUS
<1>2. Bytes(S, c) \in SUBSET Bytes(S, d) BY <1>1 DEF Bytes
<1> QED BY <1>2, BytesFinite, FS_Subset

LEMMA BytesGrow ==
  ASSUME NEW S \in SUBSET Objects, NEW c \in [Objects -> Nat], NEW o \in S, NEW k \in Nat, c[o] <= k
  PROVE  Cardinality(Bytes(S, [c EXCEPT ![o] = k])) = Cardinality(Bytes(S, c)) + k - c[o]
<1> DEFINE d == [c EXCEPT ![o] = k]
           new == {o} \X ((c[o] + 1)..k)
<1>1. d \in [Objects -> Nat] /\ d[o] = k /\ c[o] \in Nat /\ \A p \in S \ {o} : d[p] = c[p] OBVIOUS
<1>2. Bytes(S, d) = Bytes(S, c) \cup new
  <2>1. 1..k = (1..c[o]) \cup ((c[o] + 1)..k) BY <1>1
  <2>2. {o} \X (1..d[o]) = ({o} \X (1..c[o])) \cup new BY <1>1, <2>1
  <2>3. \A p \in S \ {o} : {p} \X (1..d[p]) = {p} \X (1..c[p]) BY <1>1
  <2> HIDE DEF new, d
  <2>4. Bytes(S, d) \subseteq Bytes(S, c) \cup new
    <3> SUFFICES ASSUME NEW b \in Bytes(S, d) PROVE b \in Bytes(S, c) \cup new OBVIOUS
    <3>1. PICK p \in S : b \in {p} \X (1..d[p]) BY DEF Bytes
    <3>2. CASE p = o BY <2>2, <3>1, <3>2 DEF Bytes
    <3>3. CASE p # o BY <2>3, <3>1, <3>3 DEF Bytes
    <3> QED BY <3>2, <3>3
  <2>5. Bytes(S, c) \subseteq Bytes(S, d)
    <3> SUFFICES ASSUME NEW b \in Bytes(S, c) PROVE b \in Bytes(S, d) OBVIOUS
    <3>1. PICK p \in S : b \in {p} \X (1..c[p]) BY DEF Bytes
    <3>2. CASE p = o BY <2>2, <3>1, <3>2 DEF Bytes
    <3>3. CASE p # o BY <2>3, <3>1, <3>3 DEF Bytes
    <3> QED BY <3>2, <3>3
  <2>6. new \subseteq Bytes(S, d) BY <2>2 DEF Bytes
  <2> QED BY <2>4, <2>5, <2>6
<1>3. Bytes(S, c) \cap new = {}
  <2> SUFFICES ASSUME NEW b \in Bytes(S, c), b \in new PROVE FALSE OBVIOUS
  <2>1. PICK p \in S : b \in {p} \X (1..c[p]) BY DEF Bytes
  <2>2. b[1] = o /\ b[2] > c[o] /\ b[1] = p /\ b[2] <= c[p] /\ b[2] \in Nat BY <1>1, <2>1
  <2> QED BY <1>1, <2>2
<1>4. IsFiniteSet(new) /\ Cardinality(new) = k - c[o]
  <2>1. IsFiniteSet((c[o] + 1)..k) /\ Cardinality((c[o] + 1)..k) = k - c[o]
    <3>1. c[o] + 1 \in Int /\ k \in Int BY <1>1
    <3>2. /\ IsFiniteSet((c[o] + 1)..k)
          /\ Cardinality((c[o] + 1)..k) = IF c[o] + 1 > k THEN 0 ELSE k - (c[o] + 1) + 1
      BY <3>1, FS_Interval
    <3> QED BY <1>1, <3>2
  <2>2. IsFiniteSet({o}) /\ Cardinality({o}) = 1 BY FS_Singleton
  <2>3. IsFiniteSet(new) /\ Cardinality(new) = 1 * (k - c[o]) BY <2>1, <2>2, FS_Product
  <2> QED BY <2>3, <1>1
<1> HIDE DEF new, d
<1>5. IsFiniteSet(Bytes(S, c)) /\ Cardinality(Bytes(S, c)) \in Nat BY BytesFinite
<1>6. Cardinality(Bytes(S, c) \cup new) =
        Cardinality(Bytes(S, c)) + Cardinality(new) - Cardinality(Bytes(S, c) \cap new)
  BY <1>4, <1>5, FS_Union
<1>7. Cardinality(Bytes(S, d)) = Cardinality(Bytes(S, c)) + k - c[o]
  BY <1>1, <1>2, <1>3, <1>4, <1>5, <1>6, FS_EmptySet
<1> QED BY <1>7 DEF d

-----------------------------------------------------------------------------
(* What a step leaves alone.                                               *)

LEMMA SetsOfObjects ==
  /\ Selected \subseteq Objects /\ Whole \subseteq Selected /\ Parted \subseteq Selected
  /\ Whole \cap Parted = {} /\ Selected = Whole \cup Parted
BY DEF Selected, Whole, Parted

LEMMA SetsFixed ==
  mode' = mode => Selected' = Selected /\ Whole' = Whole /\ Parted' = Parted
BY DEF Selected, Whole, Parted, InParts, CanMultipart

LEMMA AtHand ==
  ASSUME PartedLane, lane.parted = "busy"
  PROVE  Current \in Parted /\ Current \in ToSet(lane.parteds) /\ lane.parteds # <<>>
BY TailOfDistinct DEF PartedLane, Current

\* Neither cancellation nor a lane's error is taken back.
Onward ==
  /\ mode' = mode
  /\ ctx => ctx'
  /\ lane.err # "" => lane'.err # ""

LEMMA ElementsOf == ASSUME NEW S, NEW s \in Seq(S) PROVE ToSet(s) \subseteq S
<1>1. DOMAIN s = 1..Len(s) /\ \A i \in 1..Len(s) : s[i] \in S OBVIOUS
<1> QED BY <1>1 DEF ToSet

LEMMA WholeUntouched ==
  ASSUME WholeLane, Onward, lane'.whole = lane.whole, lane'.wholes = lane.wholes,
         lane'.wholeErr = lane.wholeErr, \A o \in Whole : obj'[o].pc = obj[o].pc
  PROVE  WholeLane'
BY SetsFixed DEF WholeLane, Onward, WholeCancelled, LanesCancelled

LEMMA PartedUntouched ==
  ASSUME PartedLane, Onward, lane'.parted = lane.parted, lane'.parteds = lane.parteds,
         \A o \in Parted : obj'[o].pc = obj[o].pc
  PROVE  PartedLane'
<1>1. lane.parteds # <<>> => ToSet(Tail(lane.parteds)) \subseteq ToSet(lane.parteds)
  BY TailOfDistinct DEF PartedLane
<1>2. ToSet(lane.parteds) \subseteq Parted BY ElementsOf DEF PartedLane
<1>3. lane.parted = "busy" => Current' = Current /\ Current \in Parted BY AtHand DEF Current
<1> QED BY <1>1, <1>2, <1>3, SetsFixed DEF PartedLane, Onward

LEMMA PartsUntouched ==
  ASSUME PartedLane, PartsOfCurrent, Onward, lane'.parted = lane.parted,
         lane'.parteds = lane.parteds, part' = part, \A o \in Parted : obj'[o].pc = obj[o].pc
  PROVE  PartsOfCurrent'
<1> SUFFICES ASSUME lane.parted = "busy", NEW o \in Objects, o = Current PROVE PartsOf(o)'
  BY DEF PartsOfCurrent, Current
<1>1. obj'[o].pc = obj[o].pc BY AtHand
<1>2. LandedBytes(o)' = LandedBytes(o) BY DEF LandedBytes, LandedParts
<1>3. PartsCancelled => PartsCancelled' BY DEF Onward, PartsCancelled, LanesCancelled
<1>4. PartsOf(o) BY DEF PartsOfCurrent
<1> QED BY <1>1, <1>2, <1>3, <1>4 DEF PartsOf

LEMMA OpenUntouched ==
  ASSUME PartedLane, OpenIsAtHand, lane'.parted = lane.parted, lane'.parteds = lane.parteds,
         upload' = upload, \A o \in Parted : obj'[o].pc = obj[o].pc
  PROVE  OpenIsAtHand'
<1>1. lane.parted = "busy" => Current' = Current /\ Current \in Parted BY AtHand DEF Current
<1> QED BY <1>1 DEF OpenIsAtHand

LEMMA CausesUntouched ==
  ASSUME ErrorsHaveCause, Onward, lane'.err = lane.err, lane'.wholeErr = lane.wholeErr,
         \A o \in Selected : obj[o].pc = "failed" => obj'[o].pc = "failed"
  PROVE  ErrorsHaveCause'
BY SetsFixed DEF ErrorsHaveCause, Onward, LanesCancelled

LEMMA CountUntouched ==
  ASSUME Counted, mode' = mode, total' = total,
         \A o \in Objects : obj'[o].credited = obj[o].credited,
         \A o \in Selected : obj'[o].pc = "done" <=> obj[o].pc = "done",
         \A o \in Selected : obj[o].pc = "done" => dest'[o] = dest[o]
  PROVE  Counted'
<1>1. Credits' = Credits BY DEF Credits
<1>2. DoneObjects' = DoneObjects BY SetsFixed DEF DoneObjects
<1>3. Bytes(Selected, Credits)' = Bytes(Selected, Credits) BY <1>1, SetsFixed DEF Bytes
<1> QED BY <1>1, <1>2, <1>3, SetsFixed, SetsOfObjects DEF Counted

-----------------------------------------------------------------------------
(* What is counted.                                                        *)

CountType ==
  /\ obj \in [Objects -> ObjType] /\ total \in [bytes : Nat, files : Nat]

LEMMA CreditCounts ==
  ASSUME CountType, Counted, mode' = mode, dest' = dest, NEW o \in Selected, NEW pos \in Nat,
         pos <= Size[o], obj[o].pc # "done", Credit(o, pos)
  PROVE  Counted' /\ obj' \in [Objects -> ObjType] /\ total' \in [bytes : Nat, files : Nat]
<1> DEFINE c == IF obj[o].credited >= pos THEN obj[o].credited ELSE pos
<1>1. o \in Objects /\ obj[o] \in ObjType /\ obj[o].credited \in Nat /\ obj[o].credited <= Size[o]
  BY SetsOfObjects DEF CountType, Counted, ObjType
<1>2. c \in Nat /\ c >= obj[o].credited /\ c <= Size[o] BY <1>1, ObjectsFinite
<1>3. c = Max({obj[o].credited, pos}) BY <1>1, MaxOfTwo
<1>4. /\ total' = [total EXCEPT !.bytes = @ + c - obj[o].credited]
      /\ obj' = [obj EXCEPT ![o].read = pos, ![o].credited = c]
  BY <1>3 DEF Credit
<1> HIDE DEF c
<1>5. /\ \A p \in Objects : obj'[p].pc = obj[p].pc
      /\ \A p \in Objects : obj'[p].credited = IF p = o THEN c ELSE obj[p].credited
  BY <1>1, <1>4 DEF CountType, ObjType
<1>6. Credits' = [Credits EXCEPT ![o] = c] BY <1>5 DEF Credits
<1>7. Credits \in [Objects -> Nat] /\ Credits[o] = obj[o].credited
  BY <1>1 DEF Credits, CountType, ObjType
<1>8. Cardinality(Bytes(Selected, [Credits EXCEPT ![o] = c])) =
        Cardinality(Bytes(Selected, Credits)) + c - Credits[o]
  <2>1. Selected \in SUBSET Objects BY SetsOfObjects
  <2> QED BY <1>2, <1>7, <2>1, BytesGrow
<1>9. Bytes(Selected, Credits)' = Bytes(Selected, [Credits EXCEPT ![o] = c])
  BY <1>6, SetsFixed DEF Bytes
<1>10. DoneObjects' = DoneObjects BY <1>5, SetsFixed, SetsOfObjects DEF DoneObjects
<1>11. total'.bytes = Cardinality(Bytes(Selected, Credits)) + c - obj[o].credited
       /\ total' = [bytes |-> total'.bytes, files |-> total.files]
  BY <1>4 DEF Counted, CountType
<1>12. total' = [bytes |-> Cardinality(Bytes(Selected, Credits)'),
                      files |-> Cardinality(DoneObjects')]
  BY <1>7, <1>8, <1>9, <1>10, <1>11 DEF Counted
<1>13. Counted'
  BY <1>2, <1>5, <1>12, SetsFixed, SetsOfObjects DEF Counted
<1>14. obj' \in [Objects -> ObjType] BY <1>1, <1>2, <1>4 DEF CountType, ObjType
<1>15. total' \in [bytes : Nat, files : Nat]
  <2>1. total.bytes \in Nat BY DEF CountType
  <2> QED BY <1>1, <1>2, <1>4, <2>1 DEF CountType
<1> QED BY <1>13, <1>14, <1>15

LEMMA DoneCounts ==
  ASSUME CountType, Counted, mode' = mode, NEW o \in Selected, obj[o].pc # "done",
         obj' = [obj EXCEPT ![o].pc = "done", ![o].credited = Size[o]],
         total' = Finished(o), dest'[o] = "whole", \A p \in Selected \ {o} : dest'[p] = dest[p]
  PROVE  Counted' /\ obj' \in [Objects -> ObjType] /\ total' \in [bytes : Nat, files : Nat]
<1>1. /\ o \in Objects /\ obj[o] \in ObjType /\ obj[o].credited \in Nat
      /\ obj[o].credited <= Size[o] /\ Size[o] \in Nat
  BY SetsOfObjects, ObjectsFinite DEF CountType, Counted, ObjType
<1>2. /\ \A p \in Objects : obj'[p].pc = IF p = o THEN "done" ELSE obj[p].pc
      /\ \A p \in Objects : obj'[p].credited = IF p = o THEN Size[o] ELSE obj[p].credited
  BY <1>1 DEF CountType, ObjType
<1>3. Credits' = [Credits EXCEPT ![o] = Size[o]] BY <1>2 DEF Credits
<1>4. Credits \in [Objects -> Nat] /\ Credits[o] = obj[o].credited
  BY <1>1 DEF Credits, CountType, ObjType
<1>5. Cardinality(Bytes(Selected, [Credits EXCEPT ![o] = Size[o]])) =
        Cardinality(Bytes(Selected, Credits)) + Size[o] - Credits[o]
  <2>1. Selected \in SUBSET Objects BY SetsOfObjects
  <2> QED BY <1>1, <1>4, <2>1, BytesGrow
<1>6. Bytes(Selected, Credits)' = Bytes(Selected, [Credits EXCEPT ![o] = Size[o]])
  BY <1>3, SetsFixed DEF Bytes
<1>7. DoneObjects' = DoneObjects \cup {o} /\ o \notin DoneObjects
  <2>1. \A p \in Selected : obj'[p].pc = IF p = o THEN "done" ELSE obj[p].pc
    BY <1>2, SetsOfObjects
  <2>2. DoneObjects' = {p \in Selected : obj'[p].pc = "done"} BY SetsFixed DEF DoneObjects
  <2>3. ASSUME NEW p PROVE p \in DoneObjects' <=> p \in DoneObjects \/ p = o
    <3>1. CASE p = o BY <2>1, <2>2, <3>1
    <3>2. CASE p # o BY <2>1, <2>2, <3>2 DEF DoneObjects
    <3> QED BY <3>1, <3>2
  <2>4. o \notin DoneObjects BY DEF DoneObjects
  <2> HIDE DEF DoneObjects
  <2> QED BY <2>3, <2>4
<1>8. IsFiniteSet(DoneObjects) /\ Cardinality(DoneObjects) \in Nat
  <2>1. DoneObjects \in SUBSET Objects BY SetsOfObjects DEF DoneObjects
  <2> QED BY <2>1, ObjectsFinite, FS_Subset, FS_CardinalityType
<1>9. Cardinality(DoneObjects') = Cardinality(DoneObjects) + 1 BY <1>7, <1>8, FS_AddElement
<1>10. total' = [bytes |-> Cardinality(Bytes(Selected, Credits)'),
                      files |-> Cardinality(DoneObjects')]
  <2>1. /\ total.bytes = Cardinality(Bytes(Selected, Credits))
        /\ total.files = Cardinality(DoneObjects)
    BY DEF Counted
  <2> QED BY <1>4, <1>5, <1>6, <1>9, <2>1 DEF Finished
<1>11. Counted'
  <2>1. ASSUME NEW p \in Objects PROVE obj'[p].credited <= Size[p]
    <3>1. obj[p].credited <= Size[p] BY DEF Counted
    <3>2. CASE p = o
      <4>1. obj'[p].credited = Size[o] BY <1>2, <3>2
      <4>2. Size[o] <= Size[o] BY <1>1
      <4> QED BY <3>2, <4>1, <4>2, Zenon
    <3>3. CASE p # o BY <1>2, <3>1, <3>3
    <3> QED BY <3>2, <3>3
  <2>2. ASSUME NEW p \in Selected, obj'[p].pc = "done"
        PROVE  dest'[p] = "whole" /\ obj'[p].credited = Size[p]
    <3>1. p \in Objects BY SetsOfObjects
    <3>2. CASE p = o BY <1>2, <3>1, <3>2
    <3>3. CASE p # o
      <4>1. obj[p].pc = "done" /\ obj'[p].credited = obj[p].credited BY <1>2, <2>2, <3>1, <3>3
      <4>2. dest[p] = "whole" /\ obj[p].credited = Size[p] BY <4>1 DEF Counted
      <4> QED BY <3>3, <4>1, <4>2
    <3> QED BY <3>2, <3>3
  <2> QED BY <1>10, <2>1, <2>2, SetsFixed DEF Counted
<1>12. obj' \in [Objects -> ObjType] BY <1>1 DEF CountType, ObjType, WholePCs
<1>13. total' \in [bytes : Nat, files : Nat]
  BY <1>1 DEF CountType, Finished
<1> QED BY <1>11, <1>12, <1>13

-----------------------------------------------------------------------------
(* The lane of objects written whole.                                      *)

InFlight == {"queued", "trying", "backoff"}

LEMMA CopyState ==
  IInv /\ Copying =>
    /\ TypeOK /\ WholeLane /\ PartedLane /\ ErrorsHaveCause /\ PartsOfCurrent /\ OpenIsAtHand
    /\ Counted /\ CountType /\ run.result = ""
BY DEF IInv, Copying, Copied, NothingYet, CountType, TypeOK

LEMMA StillCopying ==
  ASSUME IInv, Copying, run' = run, TypeOK', WholeLane', PartedLane', ErrorsHaveCause',
         PartsOfCurrent', OpenIsAtHand', Counted'
  PROVE  IInv'
BY CopyState DEF IInv, Copying, Copied, NothingYet, Returned

\* A step of this lane disturbs nothing of the other one.
LEMMA WholeStep ==
  ASSUME IInv, Copying, UNCHANGED <<mode, run, ctx, part, upload>>,
         lane'.parted = lane.parted, lane'.parteds = lane.parteds,
         lane.err # "" => lane'.err # "", \A o \in Parted : obj'[o].pc = obj[o].pc,
         TypeOK', WholeLane', ErrorsHaveCause', Counted'
  PROVE  IInv'
<1>1. Onward BY DEF Onward
<1>2. PartedLane' BY <1>1, CopyState, PartedUntouched
<1>3. PartsOfCurrent' BY <1>1, CopyState, PartsUntouched
<1>4. OpenIsAtHand' BY CopyState, OpenUntouched
<1> QED BY <1>2, <1>3, <1>4, StillCopying

LEMMA InFlightIsWhole ==
  ASSUME IInv, Copying, NEW o \in Selected, obj[o].pc \in InFlight
  PROVE  o \in Whole /\ o \in Objects
BY CopyState, SetsOfObjects DEF PartedLane, PartedPCs, Busy, InFlight

LEMMA WholeEndsMoves ==
  ASSUME TypeOK, NEW o \in Objects, NEW pc \in {"done", "failed", "cancelled"}, WholeEnds(o, pc)
  PROVE  /\ obj' \in [Objects -> ObjType] /\ lane' \in LaneType
         /\ obj'[o].pc = pc /\ \A p \in Objects \ {o} : obj'[p] = obj[p]
         /\ pc # "done" => \A p \in Objects : obj'[p].credited = obj[p].credited
         /\ lane'.wholes = lane.wholes /\ lane'.whole = lane.whole
         /\ lane'.parted = lane.parted /\ lane'.parteds = lane.parteds /\ lane'.err = lane.err
         /\ lane'.wholeErr = IF pc = "done" THEN lane.wholeErr ELSE First(lane.wholeErr, pc)
<1>1. /\ obj' = [obj EXCEPT ![o].pc = pc, ![o].credited = IF pc = "done" THEN Size[o] ELSE @]
      /\ lane' = [lane EXCEPT !.wholeErr = IF pc = "done" THEN @ ELSE First(@, pc)]
  BY DEF WholeEnds
<1>2. obj \in [Objects -> ObjType] /\ lane \in LaneType /\ Size[o] \in Nat
  BY ObjectsFinite DEF TypeOK
<1>3. obj' \in [Objects -> ObjType] BY <1>1, <1>2 DEF ObjType, WholePCs
<1>4. lane' \in LaneType BY <1>1, <1>2 DEF LaneType, Errors, First
<1>5. obj'[o].pc = pc /\ \A p \in Objects \ {o} : obj'[p] = obj[p] BY <1>1, <1>2 DEF ObjType
<1>6. pc # "done" => \A p \in Objects : obj'[p].credited = obj[p].credited
  BY <1>1, <1>2 DEF ObjType
<1> QED BY <1>1, <1>2, <1>3, <1>4, <1>5, <1>6 DEF LaneType

LEMMA WholeEndsKeeps ==
  ASSUME IInv, Copying, mode' = mode, ctx' = ctx, NEW o \in Selected, obj[o].pc \in InFlight,
         NEW pc \in {"done", "failed", "cancelled"}, WholeEnds(o, pc),
         pc = "cancelled" => WholeCancelled
  PROVE  WholeLane' /\ ErrorsHaveCause' /\ \A p \in Parted : obj'[p].pc = obj[p].pc
<1>1. o \in Whole /\ o \in Objects BY InFlightIsWhole
<1>2. TypeOK /\ WholeLane /\ ErrorsHaveCause BY CopyState
<1> DEFINE err == IF pc = "done" THEN lane.wholeErr ELSE First(lane.wholeErr, pc)
<1>3. /\ obj'[o].pc = pc /\ \A p \in Objects \ {o} : obj'[p] = obj[p]
      /\ lane'.wholes = lane.wholes /\ lane'.whole = lane.whole /\ lane'.err = lane.err
      /\ lane'.wholeErr = err
  BY <1>1, <1>2, WholeEndsMoves
<1>4. Selected' = Selected /\ Whole' = Whole BY SetsFixed
<1>5. WholeLane'
  <2>1. lane.whole = "ended" => lane.err # ""
    BY <1>1, <1>2 DEF WholeLane, InFlight
  <2>2. o \notin ToSet(lane.wholes) BY <1>1, <1>2 DEF WholeLane, InFlight
  <2>3. \A p \in Whole : obj'[p].pc = "todo" <=> p \in ToSet(lane.wholes)
    BY <1>1, <1>2, <1>3, <2>2, SetsOfObjects DEF WholeLane
  <2>4. \A p \in Whole : obj'[p].pc \in WholePCs
    BY <1>1, <1>2, <1>3, SetsOfObjects DEF WholeLane, WholePCs
  <2>5. \A p \in Whole : obj'[p].pc \in {"failed", "cancelled"} => lane'.wholeErr # ""
    BY <1>1, <1>2, <1>3, SetsOfObjects DEF WholeLane, First
  <2>6. WholeCancelled => WholeCancelled'
    BY <1>3 DEF WholeCancelled, LanesCancelled, First
  <2> QED BY <1>2, <1>3, <1>4, <2>1, <2>3, <2>4, <2>5, <2>6 DEF WholeLane
<1>6. ErrorsHaveCause'
  <2>1. "failed" \in {lane'.wholeErr, lane'.err} => \E p \in Selected : obj'[p].pc = "failed"
    <3>1. \A p \in Selected : obj[p].pc = "failed" => obj'[p].pc = "failed"
      BY <1>1, <1>3, SetsOfObjects DEF InFlight
    <3> QED BY <1>2, <1>3, <3>1 DEF ErrorsHaveCause, First
  <2>2. lane'.wholeErr = "cancelled" => LanesCancelled'
    BY <1>2, <1>3 DEF ErrorsHaveCause, First, LanesCancelled, WholeCancelled
  <2> QED BY <1>2, <1>3, <1>4, <2>1, <2>2 DEF ErrorsHaveCause
<1>7. \A p \in Parted : obj'[p].pc = obj[p].pc BY <1>1, <1>3, SetsOfObjects
<1> QED BY <1>5, <1>6, <1>7

\* An object in flight goes on being so.
LEMMA WholeMovesKeeps ==
  ASSUME IInv, Copying, mode' = mode, ctx' = ctx, lane' = lane, NEW o \in Selected,
         obj[o].pc \in InFlight, obj'[o].pc \in InFlight,
         \A p \in Objects \ {o} : obj'[p].pc = obj[p].pc
  PROVE  WholeLane' /\ ErrorsHaveCause' /\ \A p \in Parted : obj'[p].pc = obj[p].pc
<1>1. o \in Whole /\ o \in Objects BY InFlightIsWhole
<1>2. WholeLane /\ ErrorsHaveCause BY CopyState
<1>3. WholeLane'
  <2>1. Whole' = Whole BY SetsFixed
  <2>2. \A p \in Whole : obj'[p].pc \in WholePCs
    BY <1>1, <1>2, SetsOfObjects DEF WholeLane, WholePCs, InFlight
  <2>3. \A p \in Whole : obj'[p].pc = "todo" <=> p \in ToSet(lane.wholes)
    BY <1>1, <1>2, SetsOfObjects DEF WholeLane, InFlight
  <2>4. \A p \in Whole : obj'[p].pc \in {"failed", "cancelled"} => lane.wholeErr # ""
    BY <1>1, <1>2, SetsOfObjects DEF WholeLane, InFlight
  <2>5. lane.whole = "ended" => lane.err # "" BY <1>1, <1>2 DEF WholeLane, InFlight
  <2> QED BY <1>2, <2>1, <2>2, <2>3, <2>4, <2>5 DEF WholeLane, WholeCancelled, LanesCancelled
<1>4. ErrorsHaveCause'
  <2>1. Onward BY DEF Onward
  <2>2. \A p \in Selected : obj[p].pc = "failed" => obj'[p].pc = "failed"
    BY SetsOfObjects DEF InFlight
  <2> QED BY <1>2, <2>1, <2>2, CausesUntouched
<1>5. \A p \in Parted : obj'[p].pc = obj[p].pc BY <1>1, SetsOfObjects
<1> QED BY <1>3, <1>4, <1>5

LEMMA CheckWholeStep == IInv /\ CheckWhole => IInv'
<1> SUFFICES ASSUME IInv, CheckWhole PROVE IInv' OBVIOUS
<1> USE DEF CheckWhole, LaneOnly
<1> DEFINE to == IF lane.wholes = <<>> \/ WholeCancelled THEN "wait" ELSE "go"
<1>1. Copying /\ TypeOK /\ WholeLane /\ ErrorsHaveCause /\ Counted BY CopyState
<1>2. /\ lane' \in LaneType /\ lane'.whole = to
      /\ lane'.wholes = lane.wholes /\ lane'.wholeErr = lane.wholeErr
      /\ lane'.parted = lane.parted /\ lane'.parteds = lane.parteds /\ lane'.err = lane.err
  BY <1>1 DEF TypeOK, LaneType
<1>3. TypeOK' BY <1>1, <1>2 DEF TypeOK
<1>4. WholeLane'
  <2>1. Whole' = Whole BY SetsFixed
  <2>2. WholeCancelled' = WholeCancelled BY <1>2 DEF WholeCancelled, LanesCancelled
  <2>3. to \in {"wait", "go"} /\ (to = "wait" <=> lane.wholes = <<>> \/ WholeCancelled) OBVIOUS
  <2>4. obj' = obj OBVIOUS
  <2> HIDE DEF to, CheckWhole, LaneOnly
  <2> QED BY <1>1, <1>2, <2>1, <2>2, <2>3, <2>4 DEF WholeLane
<1>5. ErrorsHaveCause' BY <1>1, <1>2, CausesUntouched DEF Onward
<1>6. Counted' BY <1>1, CountUntouched
<1> QED BY <1>1, <1>2, <1>3, <1>4, <1>5, <1>6, WholeStep

LEMMA GoWholeStep == IInv /\ GoWhole => IInv'
<1> SUFFICES ASSUME IInv, GoWhole PROVE IInv' OBVIOUS
<1> USE DEF GoWhole, LaneOnly
<1> DEFINE o == Head(lane.wholes)
<1>1. Copying /\ TypeOK /\ WholeLane /\ ErrorsHaveCause /\ Counted BY CopyState
<1>2. /\ o \in Whole /\ o \in Objects /\ o \in ToSet(lane.wholes)
      /\ Tail(lane.wholes) \in Seq(Whole) /\ IsInjective(Tail(lane.wholes))
      /\ ToSet(Tail(lane.wholes)) = ToSet(lane.wholes) \ {o}
  BY <1>1, TailOfDistinct, SetsOfObjects DEF WholeLane
<1>3. /\ lane' \in LaneType /\ lane'.whole = "check"
      /\ lane'.wholes = Tail(lane.wholes) /\ lane'.wholeErr = lane.wholeErr
      /\ lane'.parted = lane.parted /\ lane'.parteds = lane.parteds /\ lane'.err = lane.err
  <2>1. Tail(lane.wholes) \in Seq(Objects)
    <3>1. lane.wholes # <<>> /\ lane.wholes \in Seq(Objects) BY <1>1 DEF TypeOK, LaneType, WholeLane
    <3>2. \A s \in Seq(Objects) : s # <<>> => Tail(s) \in Seq(Objects) OBVIOUS
    <3> QED BY <3>1, <3>2
  <2> QED BY <1>1, <2>1 DEF TypeOK, LaneType
<1> HIDE DEF o
<1>4. obj' = [obj EXCEPT ![o].pc = "queued"] /\ obj \in [Objects -> ObjType]
  BY <1>1 DEF o, TypeOK
<1>5. /\ obj' \in [Objects -> ObjType] /\ obj'[o].pc = "queued"
      /\ \A p \in Objects \ {o} : obj'[p] = obj[p]
      /\ \A p \in Objects : obj'[p].credited = obj[p].credited
  <2> HIDE DEF GoWhole, LaneOnly
  <2> QED BY <1>2, <1>4 DEF ObjType, WholePCs
<1>6. TypeOK' BY <1>1, <1>3, <1>5 DEF TypeOK
<1>7. WholeLane'
  <2>1. Whole' = Whole BY SetsFixed
  <2>2. \A p \in Whole : obj'[p].pc \in WholePCs
    BY <1>1, <1>2, <1>5, SetsOfObjects DEF WholeLane, WholePCs
  <2>3. \A p \in Whole : obj'[p].pc = "todo" <=> p \in ToSet(Tail(lane.wholes))
    BY <1>1, <1>2, <1>5, SetsOfObjects DEF WholeLane
  <2>4. \A p \in Whole : obj'[p].pc \in {"failed", "cancelled"} => lane'.wholeErr # ""
    BY <1>1, <1>2, <1>3, <1>5, SetsOfObjects DEF WholeLane
  <2> QED BY <1>2, <1>3, <2>1, <2>2, <2>3, <2>4 DEF WholeLane
<1>8. obj[o].pc = "todo" BY <1>1, <1>2 DEF WholeLane
<1>9. ErrorsHaveCause'
  <2>1. \A p \in Selected : obj[p].pc = "failed" => obj'[p].pc = "failed"
    BY <1>2, <1>5, <1>8, SetsOfObjects
  <2> QED BY <1>1, <1>3, <2>1, CausesUntouched DEF Onward
<1>10. Counted'
  <2>1. \A p \in Selected : obj'[p].pc = "done" <=> obj[p].pc = "done"
    BY <1>2, <1>5, <1>8, SetsOfObjects
  <2> QED BY <1>1, <1>5, <2>1, CountUntouched
<1>11. \A p \in Parted : obj'[p].pc = obj[p].pc BY <1>2, <1>5, SetsOfObjects
<1> QED BY <1>1, <1>3, <1>6, <1>7, <1>9, <1>10, <1>11, WholeStep

\* An object of this lane ends without having been sent.
LEMMA WholeGivesUp ==
  ASSUME IInv, Copying, UNCHANGED <<mode, run, ctx, old, part, upload, stray, total>>,
         dest' \in [Objects -> {"absent", "partial", "whole"}],
         NEW o \in Selected, obj[o].pc \in InFlight,
         \A p \in Selected \ {o} : dest'[p] = dest[p],
         NEW pc \in {"failed", "cancelled"}, WholeEnds(o, pc), pc = "cancelled" => WholeCancelled
  PROVE  IInv'
<1>1. TypeOK /\ Counted BY CopyState
<1>2. o \in Objects BY SetsOfObjects
<1>3. /\ obj' \in [Objects -> ObjType] /\ lane' \in LaneType
      /\ obj'[o].pc = pc /\ \A p \in Objects \ {o} : obj'[p] = obj[p]
      /\ \A p \in Objects : obj'[p].credited = obj[p].credited
      /\ lane'.parted = lane.parted /\ lane'.parteds = lane.parteds /\ lane'.err = lane.err
  BY <1>1, <1>2, WholeEndsMoves
<1>4. TypeOK' BY <1>1, <1>3 DEF TypeOK
<1>5. WholeLane' /\ ErrorsHaveCause' /\ \A p \in Parted : obj'[p].pc = obj[p].pc
  BY WholeEndsKeeps
<1>6. Counted'
  <2>1. \A p \in Selected : obj'[p].pc = "done" <=> obj[p].pc = "done"
    BY <1>2, <1>3, SetsOfObjects DEF InFlight
  <2>2. obj[o].pc # "done" BY DEF InFlight
  <2> QED BY <1>1, <1>3, <2>1, <2>2, CountUntouched
<1> QED BY <1>3, <1>4, <1>5, <1>6, WholeStep

\* An object of this lane goes on.
LEMMA WholeGoesOn ==
  ASSUME IInv, Copying, UNCHANGED <<mode, run, ctx, old, lane, part, upload, stray, total>>,
         dest' \in [Objects -> {"absent", "partial", "whole"}],
         NEW o \in Selected, obj[o].pc \in InFlight,
         \A p \in Selected \ {o} : dest'[p] = dest[p],
         obj' \in [Objects -> ObjType], obj'[o].pc \in InFlight,
         \A p \in Objects \ {o} : obj'[p] = obj[p], obj'[o].credited = obj[o].credited
  PROVE  IInv'
<1>1. TypeOK /\ Counted BY CopyState
<1>2. TypeOK' BY <1>1 DEF TypeOK
<1>3. WholeLane' /\ ErrorsHaveCause' /\ \A p \in Parted : obj'[p].pc = obj[p].pc
  BY WholeMovesKeeps
<1>4. Counted'
  <2>1. \A p \in Selected : obj'[p].pc = "done" <=> obj[p].pc = "done"
    BY SetsOfObjects DEF InFlight
  <2>2. obj[o].pc # "done" BY DEF InFlight
  <2>3. \A p \in Objects : obj'[p].credited = obj[p].credited OBVIOUS
  <2> QED BY <1>1, <2>1, <2>2, <2>3, CountUntouched
<1> QED BY <1>2, <1>3, <1>4, WholeStep

LEMMA BeginStep == ASSUME IInv, NEW o \in Selected, Begin(o) PROVE IInv'
<1> USE DEF Begin, LaneOnly
<1>1. Copying /\ TypeOK /\ o \in Objects /\ obj[o].pc \in InFlight
      /\ dest' \in [Objects -> {"absent", "partial", "whole"}]
  BY CopyState, SetsOfObjects DEF InFlight, TypeOK
<1>2. CASE WholeCancelled BY <1>1, <1>2, WholeGivesUp
<1>3. CASE ~WholeCancelled
  <2>1. obj' = [obj EXCEPT ![o].pc = "trying", ![o].try = 1] /\ lane' = lane BY <1>3
  <2>2. /\ obj' \in [Objects -> ObjType] /\ obj'[o].pc \in InFlight
        /\ \A p \in Objects \ {o} : obj'[p] = obj[p] /\ obj'[o].credited = obj[o].credited
        /\ obj'[o].credited = obj[o].credited
    BY <1>1, <2>1, ZenonT(60) DEF TypeOK, ObjType, WholePCs, InFlight
  <2> QED BY <1>1, <2>1, <2>2, WholeGoesOn
<1> QED BY <1>2, <1>3

LEMMA ReadsStep == ASSUME IInv, NEW o \in Selected, Reads(o) PROVE IInv'
<1> USE DEF Reads
<1>1. /\ Copying /\ TypeOK /\ CountType /\ Counted /\ o \in Objects /\ obj[o].pc \in InFlight
      /\ obj[o].pc # "done" /\ obj[o] \in ObjType
  BY CopyState, SetsOfObjects DEF InFlight, TypeOK
<1> DEFINE pos == obj[o].read + 1
<1>2. pos \in Nat /\ pos <= Size[o] BY <1>1, ObjectsFinite DEF ObjType
<1>3. Counted' /\ obj' \in [Objects -> ObjType] /\ total' \in [bytes : Nat, files : Nat]
  <2> HIDE DEF pos
  <2>1. Credit(o, pos) BY DEF pos
  <2> QED BY <1>1, <1>2, <2>1, CreditCounts
<1>4. \A p \in Objects : obj'[p].pc = obj[p].pc BY <1>1 DEF Credit, TypeOK, ObjType
<1>5. TypeOK' BY <1>1, <1>3 DEF TypeOK
<1>6. WholeLane' /\ ErrorsHaveCause' /\ \A p \in Parted : obj'[p].pc = obj[p].pc
  BY <1>1, <1>4, WholeMovesKeeps
<1> QED BY <1>1, <1>3, <1>5, <1>6, WholeStep

LEMMA SucceedsStep == ASSUME IInv, NEW o \in Selected, Succeeds(o) PROVE IInv'
<1> USE DEF Succeeds
<1>1. /\ Copying /\ TypeOK /\ CountType /\ Counted /\ o \in Objects /\ obj[o].pc \in InFlight
      /\ obj[o].pc # "done"
  BY CopyState, SetsOfObjects DEF InFlight
<1>2. /\ dest' \in [Objects -> {"absent", "partial", "whole"}]
      /\ dest'[o] = "whole" /\ \A p \in Selected \ {o} : dest'[p] = dest[p]
  BY <1>1, SetsOfObjects DEF TypeOK
<1>3. obj' = [obj EXCEPT ![o].pc = "done", ![o].credited = Size[o]] BY DEF WholeEnds
<1>4. Counted' /\ obj' \in [Objects -> ObjType] /\ total' \in [bytes : Nat, files : Nat]
  BY <1>1, <1>2, <1>3, DoneCounts
<1>5. WholeLane' /\ ErrorsHaveCause' /\ \A p \in Parted : obj'[p].pc = obj[p].pc
  BY <1>1, WholeEndsKeeps
<1>6. /\ lane' \in LaneType
      /\ lane'.parted = lane.parted /\ lane'.parteds = lane.parteds /\ lane'.err = lane.err
  BY <1>1, WholeEndsMoves
<1>7. TypeOK' BY <1>1, <1>2, <1>4, <1>6 DEF TypeOK
<1> QED BY <1>1, <1>4, <1>5, <1>6, <1>7, WholeStep

LEMMA TryFailsStep == ASSUME IInv, NEW o \in Selected, TryFails(o) PROVE IInv'
<1> USE DEF TryFails
<1>1. /\ Copying /\ TypeOK /\ o \in Objects /\ obj[o].pc \in InFlight
  BY CopyState, SetsOfObjects DEF InFlight
<1>2. /\ dest' \in [Objects -> {"absent", "partial", "whole"}]
      /\ \A p \in Selected \ {o} : dest'[p] = dest[p]
  <2>1. LeftByTry(o) \subseteq {"absent", "partial", "whole"}
    <3>1. dest[o] \in {"absent", "partial", "whole"} BY <1>1 DEF TypeOK
    <3>2. mode.way \in {"upload", "stream", "download"} BY <1>1, ModesAssumption DEF TypeOK
    <3> QED BY <3>1, <3>2 DEF LeftByTry, LeftByUpload, LeftByCopy, LeftByDownload
  <2>2. PICK left \in LeftByTry(o) : dest' = [dest EXCEPT ![o] = left] OBVIOUS
  <2> QED BY <1>1, <2>1, <2>2, SetsOfObjects DEF TypeOK
<1>3. CASE GivesUp(o)
  <2>1. PICK pc \in {"failed", "cancelled"} :
          WholeEnds(o, pc) /\ (pc = "cancelled" => WholeCancelled)
    BY <1>3 DEF GivesUp
  <2> QED BY <1>1, <1>2, <2>1, WholeGivesUp
<1>4. CASE obj' = [obj EXCEPT ![o].pc = "backoff"] /\ UNCHANGED lane
  <2>1. /\ obj' \in [Objects -> ObjType] /\ obj'[o].pc \in InFlight
        /\ \A p \in Objects \ {o} : obj'[p] = obj[p]
        /\ obj'[o].credited = obj[o].credited
    BY <1>1, <1>4 DEF TypeOK, ObjType, WholePCs, InFlight
  <2> QED BY <1>1, <1>2, <1>4, <2>1, WholeGoesOn
<1> QED BY <1>3, <1>4

LEMMA TriesAgainStep == ASSUME IInv, NEW o \in Selected, TriesAgain(o) PROVE IInv'
<1> USE DEF TriesAgain, LaneOnly
<1>1. Copying /\ TypeOK /\ o \in Objects /\ obj[o].pc \in InFlight
      /\ dest' \in [Objects -> {"absent", "partial", "whole"}]
  BY CopyState, SetsOfObjects DEF InFlight, TypeOK
<1>2. obj' = [obj EXCEPT ![o].pc = "trying", ![o].try = @ + 1, ![o].read = 0] OBVIOUS
<1>3. /\ obj' \in [Objects -> ObjType] /\ obj'[o].pc \in InFlight
      /\ \A p \in Objects \ {o} : obj'[p] = obj[p]
      /\ obj'[o].credited = obj[o].credited
  BY <1>1, <1>2 DEF TypeOK, ObjType, WholePCs, InFlight
<1> QED BY <1>1, <1>3, WholeGoesOn

LEMMA StopsWaitingStep == ASSUME IInv, NEW o \in Selected, StopsWaiting(o) PROVE IInv'
<1> USE DEF StopsWaiting, LaneOnly
<1>1. Copying /\ obj[o].pc \in InFlight /\ dest' \in [Objects -> {"absent", "partial", "whole"}]
  BY CopyState DEF InFlight, TypeOK
<1>2. WholeEnds(o, "cancelled") /\ WholeCancelled BY DEF GivesUp
<1> QED BY <1>1, <1>2, WholeGivesUp

LEMMA WholeLaneEndsStep == IInv /\ WholeLaneEnds => IInv'
<1> SUFFICES ASSUME IInv, WholeLaneEnds PROVE IInv' OBVIOUS
<1> USE DEF WholeLaneEnds, LaneOnly
<1> DEFINE err == First(lane.err, First(lane.wholeErr, IF LanesCancelled THEN "cancelled" ELSE ""))
<1>1. Copying /\ TypeOK /\ WholeLane /\ ErrorsHaveCause /\ Counted BY CopyState
<1>2. /\ lane' \in LaneType /\ lane'.whole = "ended" /\ lane'.err = err
      /\ lane'.wholes = lane.wholes /\ lane'.wholeErr = lane.wholeErr
      /\ lane'.parted = lane.parted /\ lane'.parteds = lane.parteds
  BY <1>1 DEF TypeOK, LaneType, First, Errors
<1>3. lane.err # "" => err # "" BY DEF First
<1>4. TypeOK' BY <1>1, <1>2 DEF TypeOK
<1>5. WholeLane'
  <2>1. Whole' = Whole BY SetsFixed
  <2>2. ASSUME err = "" PROVE \A o \in Whole : obj[o].pc = "done"
    <3>1. lane.wholeErr = "" /\ ~WholeCancelled BY <2>2 DEF First, WholeCancelled, LanesCancelled
    <3>2. lane.wholes = <<>> BY <1>1, <3>1 DEF WholeLane
    <3>3. ToSet(lane.wholes) = {} BY <3>2 DEF ToSet
    <3> QED BY <1>1, <3>1, <3>3 DEF WholeLane, WholePCs, ActiveWhole, Active
  <2> QED BY <1>1, <1>2, <2>1, <2>2 DEF WholeLane
<1>6. ErrorsHaveCause'
  <2>1. err = "failed" => \E o \in Selected : obj[o].pc = "failed"
    BY <1>1 DEF First, ErrorsHaveCause
  <2>2. err = "cancelled" => ctx BY <1>1 DEF First, ErrorsHaveCause, LanesCancelled
  <2>3. lane.wholeErr = "cancelled" => ctx' \/ lane'.err # ""
    BY <1>1, <1>2, <1>3 DEF ErrorsHaveCause, LanesCancelled
  <2> QED BY <1>1, <1>2, <2>1, <2>2, <2>3, SetsFixed DEF ErrorsHaveCause, LanesCancelled
<1>7. Counted' BY <1>1, CountUntouched
<1> QED BY <1>1, <1>2, <1>3, <1>4, <1>5, <1>6, <1>7, WholeStep

LEMMA CancelStep == IInv /\ Cancel => IInv'
<1> SUFFICES ASSUME IInv, Cancel PROVE IInv' OBVIOUS
<1> USE DEF Cancel
<1>1. Onward BY DEF Onward
<1>2. TypeOK' BY DEF IInv, TypeOK
<1>3. Counted' BY CountUntouched DEF IInv
<1>4. Copied'
  <2> SUFFICES ASSUME Copying
               PROVE  /\ WholeLane' /\ PartedLane' /\ ErrorsHaveCause'
                      /\ PartsOfCurrent' /\ OpenIsAtHand'
    BY DEF Copied, Copying
  <2> QED BY <1>1, CopyState, WholeUntouched, PartedUntouched, CausesUntouched, PartsUntouched,
             OpenUntouched
<1> QED BY <1>2, <1>3, <1>4 DEF IInv, NothingYet, Returned

-----------------------------------------------------------------------------
(* The lane of objects in parts.                                           *)

\* A step of this lane disturbs nothing of the other one.
LEMMA PartedStep ==
  ASSUME IInv, Copying, UNCHANGED <<mode, run, ctx>>,
         lane'.whole = lane.whole, lane'.wholes = lane.wholes, lane'.wholeErr = lane.wholeErr,
         lane.err # "" => lane'.err # "", \A o \in Whole : obj'[o].pc = obj[o].pc,
         TypeOK', PartedLane', ErrorsHaveCause', PartsOfCurrent', OpenIsAtHand', Counted'
  PROVE  IInv'
<1>1. Onward BY DEF Onward
<1>2. WholeLane' BY <1>1, CopyState, WholeUntouched
<1> QED BY <1>2, StillCopying

LEMMA HeadOfLane ==
  ASSUME IInv, Copying, lane.parted = "busy"
  PROVE  /\ Current \in Parted /\ Current \in Selected /\ Current \in Objects
         /\ Current \notin Whole /\ lane.parteds # <<>>
         /\ obj[Current].pc \in Busy /\ PartsOf(Current)
BY CopyState, AtHand, SetsOfObjects DEF PartedLane, PartsOfCurrent

\* The object at hand goes on, and its parts are as they were.
LEMMA CurrentMovesKeeps ==
  ASSUME IInv, Copying, lane.parted = "busy", UNCHANGED <<mode, ctx, lane>>,
         NEW o \in Objects, o = Current, obj'[o].pc \in Busy,
         \A p \in Objects \ {o} : obj'[p].pc = obj[p].pc
  PROVE  PartedLane' /\ ErrorsHaveCause' /\ \A p \in Whole : obj'[p].pc = obj[p].pc
<1>1. PartedLane /\ ErrorsHaveCause BY CopyState
<1>2. o \in Parted /\ o \notin Whole /\ lane.parteds # <<>> BY HeadOfLane
<1>3. \A p \in Whole : obj'[p].pc = obj[p].pc BY <1>2, SetsOfObjects
<1>4. ErrorsHaveCause'
  <2>1. \A p \in Selected : obj[p].pc = "failed" => obj'[p].pc = "failed"
    BY <1>1, <1>2, HeadOfLane, SetsOfObjects DEF Busy
  <2> QED BY <1>1, <2>1, CausesUntouched DEF Onward
<1>5. PartedLane'
  <2>1. Parted' = Parted /\ Current' = Current BY SetsFixed DEF Current
  <2>2. /\ ToSet(Tail(lane.parteds)) = ToSet(lane.parteds) \ {o} /\ o \in ToSet(lane.parteds)
        /\ ToSet(lane.parteds) \subseteq Parted
    BY <1>1, <1>2, TailOfDistinct, ElementsOf DEF PartedLane, Current
  <2>3. \A p \in Parted : obj'[p].pc \in PartedPCs
    BY <1>1, <1>2, SetsOfObjects DEF PartedLane, PartedPCs
  <2>4. \A p \in Parted \ ToSet(lane.parteds) : obj'[p].pc = "done"
    BY <1>1, <2>2, SetsOfObjects DEF PartedLane
  <2>5. \A p \in ToSet(Tail(lane.parteds)) : obj'[p].pc = "todo"
    BY <1>1, <2>2, SetsOfObjects DEF PartedLane
  <2> QED BY <1>1, <1>2, <2>1, <2>3, <2>4, <2>5 DEF PartedLane
<1> QED BY <1>3, <1>4, <1>5

LEMMA PartsStay ==
  ASSUME IInv, Copying, lane.parted = "busy", UNCHANGED <<ctx, lane, part>>,
         NEW o \in Objects, o = Current,
         obj'[o].pc = "starting" => obj[o].pc = "starting",
         obj'[o].pc = "joining" =>
           obj[o].pc = "joining" \/ \A i \in 1..Parts(o) : part.at[i].pc = "landed"
  PROVE  PartsOfCurrent'
<1>1. PartsOf(o) BY HeadOfLane
<1>2. LandedBytes(o)' = LandedBytes(o) BY DEF LandedBytes, LandedParts
<1>3. PartsCancelled' = PartsCancelled BY DEF PartsCancelled, LanesCancelled
<1>4. PartsOf(o)' BY <1>1, <1>2, <1>3 DEF PartsOf
<1> QED BY <1>4 DEF PartsOfCurrent, Current

LEMMA PartedEndsMoves ==
  ASSUME TypeOK, PartedLane, lane.parted = "busy", NEW o \in Objects, o = Current,
         NEW pc \in {"done", "failed", "cancelled"}, PartedEnds(pc)
  PROVE  /\ obj' \in [Objects -> ObjType] /\ lane' \in LaneType
         /\ obj' = [obj EXCEPT ![o].pc = pc, ![o].credited = IF pc = "done" THEN Size[o] ELSE @]
         /\ obj'[o].pc = pc /\ \A p \in Objects \ {o} : obj'[p] = obj[p]
         /\ pc # "done" => \A p \in Objects : obj'[p].credited = obj[p].credited
         /\ lane'.wholes = lane.wholes /\ lane'.whole = lane.whole
         /\ lane'.wholeErr = lane.wholeErr
         /\ pc = "done" => lane'.parted = "next" /\ lane'.parteds = Tail(lane.parteds)
                           /\ lane'.err = lane.err
         /\ pc # "done" => lane'.parted = "ended" /\ lane'.parteds = lane.parteds
                           /\ lane'.err = First(lane.err, pc)
<1>1. /\ obj' = [obj EXCEPT ![o].pc = pc, ![o].credited = IF pc = "done" THEN Size[o] ELSE @]
      /\ lane' = IF pc = "done" THEN [lane EXCEPT !.parted = "next", !.parteds = Tail(@)]
                 ELSE [lane EXCEPT !.parted = "ended", !.err = First(@, pc)]
  BY DEF PartedEnds
<1>2. obj \in [Objects -> ObjType] /\ lane \in LaneType /\ Size[o] \in Nat
  BY ObjectsFinite DEF TypeOK
<1>3. obj' \in [Objects -> ObjType] BY <1>1, <1>2, ZenonT(60) DEF ObjType, WholePCs
<1>4. lane' \in LaneType
  <2>1. lane.parteds # <<>> /\ lane.parteds \in Seq(Objects) BY <1>2 DEF PartedLane, LaneType
  <2>2. \A s \in Seq(Objects) : s # <<>> => Tail(s) \in Seq(Objects) OBVIOUS
  <2>3. Tail(lane.parteds) \in Seq(Objects) BY <2>1, <2>2
  <2> QED BY <1>1, <1>2, <2>3 DEF LaneType, Errors, First
<1>5. obj'[o].pc = pc /\ \A p \in Objects \ {o} : obj'[p] = obj[p] BY <1>1, <1>2 DEF ObjType
<1>6. pc # "done" => \A p \in Objects : obj'[p].credited = obj[p].credited
  BY <1>1, <1>2 DEF ObjType
<1>7. /\ lane'.wholes = lane.wholes /\ lane'.whole = lane.whole /\ lane'.wholeErr = lane.wholeErr
      /\ pc = "done" => lane'.parted = "next" /\ lane'.parteds = Tail(lane.parteds)
                        /\ lane'.err = lane.err
      /\ pc # "done" => lane'.parted = "ended" /\ lane'.parteds = lane.parteds
                        /\ lane'.err = First(lane.err, pc)
  BY <1>1, <1>2 DEF LaneType
<1> QED BY <1>1, <1>3, <1>4, <1>5, <1>6, <1>7

\* The object at hand ends, its upload not being open.
LEMMA PartedEndsKeeps ==
  ASSUME IInv, Copying, lane.parted = "busy", UNCHANGED <<mode, run, ctx, old>>,
         NEW o \in Objects, o = Current,
         NEW pc \in {"done", "failed", "cancelled"}, PartedEnds(pc),
         pc = "cancelled" => LanesCancelled,
         upload'[o] # "open", \A p \in Objects \ {o} : upload'[p] = upload[p],
         TypeOK', Counted'
  PROVE  IInv'
<1>1. TypeOK /\ PartedLane /\ ErrorsHaveCause /\ OpenIsAtHand BY CopyState
<1>2. o \in Parted /\ o \notin Whole /\ lane.parteds # <<>> /\ obj[o].pc \in Busy BY HeadOfLane
<1>3. /\ obj'[o].pc = pc /\ \A p \in Objects \ {o} : obj'[p] = obj[p]
      /\ lane'.wholes = lane.wholes /\ lane'.whole = lane.whole /\ lane'.wholeErr = lane.wholeErr
      /\ pc = "done" => lane'.parted = "next" /\ lane'.parteds = Tail(lane.parteds)
                        /\ lane'.err = lane.err
      /\ pc # "done" => lane'.parted = "ended" /\ lane'.parteds = lane.parteds
                        /\ lane'.err = First(lane.err, pc)
  BY <1>1, PartedEndsMoves
<1>4. \A p \in Whole : obj'[p].pc = obj[p].pc BY <1>2, <1>3, SetsOfObjects
<1>5. Selected' = Selected /\ Parted' = Parted BY SetsFixed
<1>6. /\ ToSet(Tail(lane.parteds)) = ToSet(lane.parteds) \ {o} /\ o \in ToSet(lane.parteds)
      /\ ToSet(lane.parteds) \subseteq Parted /\ Tail(lane.parteds) \in Seq(Parted)
      /\ IsInjective(Tail(lane.parteds))
  BY <1>1, <1>2, TailOfDistinct, ElementsOf DEF PartedLane, Current
<1>7. PartedLane'
  <2>1. \A p \in Parted : obj'[p].pc \in PartedPCs
    BY <1>1, <1>2, <1>3, SetsOfObjects DEF PartedLane, PartedPCs
  <2>2. CASE pc = "done"
    <3>1. \A p \in Parted \ ToSet(lane'.parteds) : obj'[p].pc = "done"
      BY <1>1, <1>3, <1>6, <2>2, SetsOfObjects DEF PartedLane
    <3>2. \A p \in ToSet(lane'.parteds) : obj'[p].pc = "todo"
      BY <1>1, <1>3, <1>6, <2>2, SetsOfObjects DEF PartedLane
    <3> QED BY <1>3, <1>5, <1>6, <2>1, <2>2, <3>1, <3>2 DEF PartedLane
  <2>3. CASE pc # "done"
    <3>1. \A p \in Parted \ ToSet(lane'.parteds) : obj'[p].pc = "done"
      BY <1>1, <1>3, <1>6, <2>3, SetsOfObjects DEF PartedLane
    <3>2. lane'.err # "" BY <1>3, <2>3 DEF First
    <3> QED BY <1>1, <1>3, <1>5, <2>1, <2>3, <3>1, <3>2 DEF PartedLane
  <2> QED BY <2>2, <2>3
<1>8. ErrorsHaveCause'
  <2>1. \A p \in Selected : obj[p].pc = "failed" => obj'[p].pc = "failed"
    BY <1>2, <1>3, SetsOfObjects DEF Busy
  <2>2. o \in Selected BY <1>2, SetsOfObjects
  <2>3. CASE pc = "done" BY <1>1, <1>3, <2>1, <2>3, CausesUntouched DEF Onward
  <2>4. CASE pc # "done"
    <3>1. "failed" \in {lane'.wholeErr, lane'.err} => \E p \in Selected : obj'[p].pc = "failed"
      BY <1>1, <1>3, <2>1, <2>2, <2>4 DEF ErrorsHaveCause, First
    <3>2. lane'.wholeErr = "cancelled" => LanesCancelled'
      BY <1>1, <1>3, <2>4 DEF ErrorsHaveCause, First, LanesCancelled
    <3>3. lane'.err = "cancelled" => ctx
      BY <1>1, <1>3, <2>4 DEF ErrorsHaveCause, First, LanesCancelled
    <3> QED BY <1>5, <3>1, <3>2, <3>3 DEF ErrorsHaveCause
  <2> QED BY <2>3, <2>4
<1>9. lane'.parted # "busy" BY <1>3
<1>10. PartsOfCurrent' BY <1>9 DEF PartsOfCurrent
<1>11. OpenIsAtHand' BY <1>1 DEF OpenIsAtHand
<1>12. lane.err # "" => lane'.err # "" BY <1>3 DEF First
<1> QED BY <1>3, <1>4, <1>7, <1>8, <1>10, <1>11, <1>12, PartedStep

\* It ends without having been sent.
LEMMA PartedGivesUp ==
  ASSUME IInv, Copying, lane.parted = "busy", UNCHANGED <<mode, run, ctx, old, part, total>>,
         NEW o \in Objects, o = Current, PartedEnds(PartedError),
         dest' \in [Objects -> {"absent", "partial", "whole"}],
         \A p \in Objects \ {o} : dest'[p] = dest[p],
         upload' \in [Objects -> {"none", "open", "joined", "discarded", "left"}],
         upload'[o] # "open", \A p \in Objects \ {o} : upload'[p] = upload[p],
         stray' \in BOOLEAN
  PROVE  IInv'
<1>1. TypeOK /\ PartedLane /\ Counted BY CopyState
<1>2. PICK pc \in {"failed", "cancelled"} : PartedEnds(pc) /\ (pc = "cancelled" => LanesCancelled)
  BY DEF PartedError
<1>3. /\ obj' \in [Objects -> ObjType] /\ lane' \in LaneType
      /\ obj'[o].pc = pc /\ \A p \in Objects \ {o} : obj'[p] = obj[p]
      /\ \A p \in Objects : obj'[p].credited = obj[p].credited
  BY <1>1, <1>2, PartedEndsMoves
<1>4. TypeOK' BY <1>1, <1>3 DEF TypeOK
<1>5. Counted'
  <2>1. obj[o].pc # "done" BY HeadOfLane DEF Busy
  <2>2. \A p \in Selected : obj'[p].pc = "done" <=> obj[p].pc = "done"
    BY <1>2, <1>3, <2>1, SetsOfObjects
  <2>3. \A p \in Selected : obj[p].pc = "done" => dest'[p] = dest[p] BY <2>1, SetsOfObjects
  <2> QED BY <1>1, <1>3, <2>2, <2>3, CountUntouched
<1> QED BY <1>2, <1>4, <1>5, PartedEndsKeeps

\* It goes on, and its upload is open only past its start.
LEMMA PartedGoesOn ==
  ASSUME IInv, Copying, lane.parted = "busy", UNCHANGED <<mode, run, ctx, old, lane, part, total>>,
         NEW o \in Objects, o = Current,
         obj' \in [Objects -> ObjType], obj'[o].pc \in Busy, obj'[o].credited = obj[o].credited,
         \A p \in Objects \ {o} : obj'[p] = obj[p],
         obj'[o].pc = "starting" => obj[o].pc = "starting",
         obj'[o].pc = "joining" =>
           obj[o].pc = "joining" \/ \A i \in 1..Parts(o) : part.at[i].pc = "landed",
         dest' \in [Objects -> {"absent", "partial", "whole"}],
         \A p \in Objects \ {o} : dest'[p] = dest[p],
         upload' \in [Objects -> {"none", "open", "joined", "discarded", "left"}],
         upload'[o] = "open" => obj'[o].pc # "starting",
         \A p \in Objects \ {o} : upload'[p] = upload[p], stray' \in BOOLEAN
  PROVE  IInv'
<1>1. TypeOK /\ Counted /\ OpenIsAtHand BY CopyState
<1>2. TypeOK' BY <1>1 DEF TypeOK
<1>3. PartedLane' /\ ErrorsHaveCause' /\ \A p \in Whole : obj'[p].pc = obj[p].pc
  BY CurrentMovesKeeps
<1>4. PartsOfCurrent' BY PartsStay
<1>5. Counted'
  <2>1. obj[o].pc # "done" /\ obj'[o].pc # "done" BY HeadOfLane DEF Busy
  <2>2. \A p \in Selected : obj'[p].pc = "done" <=> obj[p].pc = "done" BY <2>1, SetsOfObjects
  <2>3. \A p \in Selected : obj[p].pc = "done" => dest'[p] = dest[p] BY <2>1, SetsOfObjects
  <2>4. \A p \in Objects : obj'[p].credited = obj[p].credited OBVIOUS
  <2> QED BY <1>1, <2>2, <2>3, <2>4, CountUntouched
<1>6. OpenIsAtHand' BY <1>1 DEF OpenIsAtHand, Busy, Current
<1> QED BY <1>2, <1>3, <1>4, <1>5, <1>6, PartedStep

DestType == [Objects -> {"absent", "partial", "whole"}]
UploadType == [Objects -> {"none", "open", "joined", "discarded", "left"}]

\* What its position is set to, or its next try.
LEMMA GoesTo ==
  ASSUME TypeOK, NEW o \in Objects, NEW pc \in Busy,
         \/ obj' = [obj EXCEPT ![o].pc = pc, ![o].try = 1]
         \/ pc = obj[o].pc /\ obj' = [obj EXCEPT ![o].try = @ + 1]
  PROVE  /\ obj' \in [Objects -> ObjType] /\ obj'[o].pc = pc
         /\ obj'[o].credited = obj[o].credited /\ \A p \in Objects \ {o} : obj'[p] = obj[p]
<1>1. obj \in [Objects -> ObjType] BY DEF TypeOK
<1>2. CASE obj' = [obj EXCEPT ![o].pc = pc, ![o].try = 1]
  BY <1>1, <1>2 DEF ObjType, PartedPCs, Busy
<1>3. CASE pc = obj[o].pc /\ obj' = [obj EXCEPT ![o].try = @ + 1]
  BY <1>1, <1>3 DEF ObjType
<1> QED BY <1>2, <1>3

LEMMA StartStep == IInv /\ Start => IInv'
<1> SUFFICES ASSUME IInv, Start, NEW o, o = Current PROVE IInv' OBVIOUS
<1>1. /\ Copying /\ lane.parted = "busy" /\ obj[o].pc = "starting" /\ o \in Objects
      /\ UNCHANGED <<mode, run, ctx, old, part, dest, total>>
  BY HeadOfLane DEF Start, PartedIs
<1>2. TypeOK /\ OpenIsAtHand BY <1>1, CopyState
<1>3. upload[o] # "open" BY <1>1, <1>2 DEF OpenIsAtHand
<1>4. dest \in DestType /\ upload \in UploadType /\ stray \in BOOLEAN
  BY <1>2 DEF TypeOK, DestType, UploadType
<1>5. CASE /\ ObjGoto(Current, "parts") /\ UNCHANGED <<lane, stray>>
           /\ upload' = [upload EXCEPT ![Current] = "open"]
  <2>1. /\ obj' \in [Objects -> ObjType] /\ obj'[o].pc = "parts"
        /\ obj'[o].credited = obj[o].credited /\ \A p \in Objects \ {o} : obj'[p] = obj[p]
    BY <1>1, <1>2, <1>5, GoesTo DEF ObjGoto, Busy
  <2>2. upload' \in UploadType /\ \A p \in Objects \ {o} : upload'[p] = upload[p]
    BY <1>1, <1>4, <1>5 DEF UploadType
  <2> QED BY <1>1, <1>4, <1>5, <2>1, <2>2, PartedGoesOn DEF Busy, DestType, UploadType
<1>6. CASE /\ RetryOr(PartedEnds(PartedError)) /\ stray' \in StrayAfterFailedStart
           /\ UNCHANGED upload
  <2>1. stray' \in BOOLEAN BY <1>4, <1>6 DEF StrayAfterFailedStart
  <2>2. CASE PartedEnds(PartedError)
    BY <1>1, <1>3, <1>4, <1>6, <2>1, <2>2, PartedGivesUp DEF DestType, UploadType
  <2>3. CASE obj' = [obj EXCEPT ![Current].try = @ + 1] /\ UNCHANGED lane
    <3>1. /\ obj' \in [Objects -> ObjType] /\ obj'[o].pc = "starting"
          /\ obj'[o].credited = obj[o].credited /\ \A p \in Objects \ {o} : obj'[p] = obj[p]
      BY <1>1, <1>2, <2>3, GoesTo DEF Busy
    <3> QED
      BY <1>1, <1>3, <1>4, <1>6, <2>1, <2>3, <3>1, PartedGoesOn DEF Busy, DestType, UploadType
  <2> QED BY <1>6, <2>2, <2>3 DEF RetryOr
<1> QED BY <1>5, <1>6 DEF Start

LEMMA AbortStep == IInv /\ Abort => IInv'
<1> SUFFICES ASSUME IInv, Abort, NEW o, o = Current PROVE IInv' OBVIOUS
<1>1. /\ Copying /\ lane.parted = "busy" /\ o \in Objects
      /\ UNCHANGED <<mode, run, ctx, old, part, dest, stray, total>>
  BY HeadOfLane DEF Abort, PartedIs
<1>2. TypeOK BY <1>1, CopyState
<1>3. PICK left \in LeftByAbort :
        /\ upload' = [upload EXCEPT ![o] = IF @ = "joined" THEN @ ELSE left]
        /\ PartedEnds(PartedError)
  BY DEF Abort
<1>4. left \in {"discarded", "left"} BY DEF LeftByAbort
<1>5. /\ upload' \in UploadType /\ upload'[o] # "open"
      /\ \A p \in Objects \ {o} : upload'[p] = upload[p]
  BY <1>1, <1>2, <1>3, <1>4 DEF TypeOK, UploadType
<1> QED BY <1>1, <1>2, <1>3, <1>5, PartedGivesUp DEF UploadType, TypeOK

LEMMA JoinStep == IInv /\ Join => IInv'
<1> SUFFICES ASSUME IInv, Join, NEW o, o = Current PROVE IInv' OBVIOUS
<1>1. /\ Copying /\ lane.parted = "busy" /\ obj[o].pc = "joining" /\ o \in Objects
      /\ o \in Selected /\ UNCHANGED <<mode, run, ctx, old, part, stray>> /\ PartsOf(o)
  BY HeadOfLane DEF Join, PartedIs
<1>2. TypeOK /\ PartedLane /\ Counted /\ CountType BY <1>1, CopyState
<1>3. Joined => /\ upload' \in UploadType /\ upload'[o] = "joined" /\ dest' \in DestType
                /\ dest'[o] = "whole" /\ \A p \in Objects \ {o} : dest'[p] = dest[p]
                /\ \A p \in Objects \ {o} : upload'[p] = upload[p]
  <2>1. AllLanded BY <1>1 DEF AllLanded, PartsOf
  <2>2. dest \in DestType /\ upload \in UploadType BY <1>2 DEF TypeOK, DestType, UploadType
  <2> QED BY <1>1, <2>1, <2>2 DEF Joined, DestType, UploadType
<1>4. CASE Joined /\ PartedEnds("done") /\ total' = Finished(Current)
  <2>1. obj' = [obj EXCEPT ![o].pc = "done", ![o].credited = Size[o]]
    BY <1>4 DEF PartedEnds
  <2>2. Counted' /\ obj' \in [Objects -> ObjType] /\ total' \in [bytes : Nat, files : Nat]
    BY <1>1, <1>2, <1>3, <1>4, <2>1, SetsOfObjects, DoneCounts
  <2>3. lane' \in LaneType BY <1>1, <1>2, <1>4, PartedEndsMoves
  <2>4. TypeOK' BY <1>1, <1>2, <1>3, <1>4, <2>2, <2>3 DEF TypeOK, DestType, UploadType
  <2> QED BY <1>1, <1>3, <1>4, <2>2, <2>4, PartedEndsKeeps
<1>5. CASE /\ RetryOr(ObjGoto(Current, "aborting") /\ UNCHANGED lane)
           /\ Joined \/ UNCHANGED <<upload, dest>>
           /\ UNCHANGED total
  <2>1. /\ upload' \in UploadType /\ dest' \in DestType
        /\ \A p \in Objects \ {o} : upload'[p] = upload[p]
        /\ \A p \in Objects \ {o} : dest'[p] = dest[p]
    BY <1>2, <1>3, <1>5 DEF TypeOK, DestType, UploadType
  <2>2. PICK pc \in {"joining", "aborting"} :
          /\ lane' = lane
          /\ \/ obj' = [obj EXCEPT ![o].pc = pc, ![o].try = 1] /\ pc = "aborting"
             \/ pc = obj[o].pc /\ obj' = [obj EXCEPT ![o].try = @ + 1]
    BY <1>1, <1>5 DEF RetryOr, ObjGoto
  <2>3. /\ obj' \in [Objects -> ObjType] /\ obj'[o].pc = pc
        /\ obj'[o].credited = obj[o].credited /\ \A p \in Objects \ {o} : obj'[p] = obj[p]
    BY <1>1, <1>2, <2>2, GoesTo DEF Busy
  <2>4. stray' \in BOOLEAN BY <1>1, <1>2 DEF TypeOK
  <2> QED BY <1>1, <1>5, <2>1, <2>2, <2>3, <2>4, PartedGoesOn DEF Busy, DestType, UploadType
<1> QED BY <1>4, <1>5 DEF Join

LEMMA PartsEndStep == IInv /\ PartsEnd => IInv'
<1> SUFFICES ASSUME IInv, PartsEnd, NEW o, o = Current PROVE IInv' OBVIOUS
<1> USE DEF PartsEnd, PartOnly
<1>1. /\ Copying /\ lane.parted = "busy" /\ obj[o].pc = "parts" /\ o \in Objects
      /\ UNCHANGED <<mode, run, ctx, old, lane, part, total, dest, upload, stray>>
      /\ PartsOf(o)
  BY HeadOfLane DEF PartedIs
<1>2. TypeOK BY <1>1, CopyState
<1> DEFINE pc == IF part.err \/ LanesCancelled THEN "aborting" ELSE "joining"
<1>3. /\ obj' \in [Objects -> ObjType] /\ obj'[o].pc = pc
      /\ obj'[o].credited = obj[o].credited /\ \A p \in Objects \ {o} : obj'[p] = obj[p]
  <2>1. obj' = [obj EXCEPT ![o].pc = pc, ![o].try = 1] BY DEF ObjGoto
  <2>2. pc \in Busy BY DEF Busy
  <2> HIDE DEF pc, PartsEnd
  <2> QED BY <1>1, <1>2, <2>1, <2>2, GoesTo
<1>4. pc = "joining" => \A i \in 1..Parts(o) : part.at[i].pc = "landed"
  <2> SUFFICES ASSUME pc = "joining", NEW i \in 1..Parts(o) PROVE part.at[i].pc = "landed"
    OBVIOUS
  <2>1. ~part.err /\ ~PartsCancelled BY <1>2 DEF PartsCancelled, TypeOK, PartType
  <2>2. part.next = Parts(o) + 1 BY <1>1, <2>1 DEF PartsOf
  <2>3. i \in PartNumbers BY <1>1, PartNumbersCover
  <2>4. ~(i >= part.next) BY <1>1, <2>2, PartsNatural
  <2>5. part.at[i].pc \in PartPCs BY <1>2, <2>3 DEF TypeOK, PartType
  <2>6. part.at[i].pc \notin {"todo", "failed"} BY <1>1, <2>1, <2>3, <2>4 DEF PartsOf
  <2>7. part.at[i].pc \notin {"trying", "backoff"} BY <2>3 DEF PartsInFlight
  <2> QED BY <2>5, <2>6, <2>7 DEF PartPCs
<1>5. dest' \in DestType /\ upload' \in UploadType /\ stray' \in BOOLEAN
  BY <1>1, <1>2 DEF TypeOK, DestType, UploadType
<1>6. pc \in Busy /\ pc # "starting" BY DEF Busy
<1> HIDE DEF pc, PartsEnd
<1> QED BY <1>1, <1>3, <1>4, <1>5, <1>6, PartedGoesOn DEF DestType, UploadType

LEMMA PartedNextStep == IInv /\ PartedNext => IInv'
<1> SUFFICES ASSUME IInv, PartedNext PROVE IInv' OBVIOUS
<1>1. /\ Copying /\ lane.parted = "next"
      /\ UNCHANGED <<mode, run, ctx, old, dest, upload, stray, total>>
  BY DEF PartedNext
<1>2. TypeOK /\ PartedLane /\ ErrorsHaveCause /\ OpenIsAtHand /\ Counted
  BY <1>1, CopyState
<1>3. \A o \in Objects : upload[o] # "open" BY <1>1, <1>2 DEF OpenIsAtHand
<1>4. OpenIsAtHand' BY <1>1, <1>3 DEF OpenIsAtHand
<1>5. Parted' = Parted /\ Selected' = Selected BY <1>1, SetsFixed
<1>6. CASE /\ UNCHANGED <<obj, part>> /\ lane.parteds = <<>>
           /\ lane' = [lane EXCEPT !.parted = "ended"]
  <2>1. /\ lane' \in LaneType /\ lane'.parted = "ended" /\ lane'.parteds = lane.parteds
        /\ lane'.whole = lane.whole /\ lane'.wholes = lane.wholes
        /\ lane'.wholeErr = lane.wholeErr /\ lane'.err = lane.err
    BY <1>2, <1>6 DEF TypeOK, LaneType
  <2>2. TypeOK' BY <1>1, <1>2, <1>6, <2>1 DEF TypeOK
  <2>3. PartedLane' BY <1>2, <1>5, <1>6, <2>1 DEF PartedLane
  <2>4. ErrorsHaveCause' BY <1>1, <1>2, <1>6, <2>1, CausesUntouched DEF Onward
  <2>5. PartsOfCurrent' BY <2>1 DEF PartsOfCurrent
  <2>6. Counted' BY <1>1, <1>2, <1>6, CountUntouched
  <2> QED BY <1>1, <1>4, <1>6, <2>1, <2>2, <2>3, <2>4, <2>5, <2>6, PartedStep
<1>7. CASE /\ UNCHANGED <<obj, part>> /\ LanesCancelled
           /\ lane' = [lane EXCEPT !.parted = "ended", !.err = First(@, "cancelled")]
  <2>1. /\ lane' \in LaneType /\ lane'.parted = "ended" /\ lane'.parteds = lane.parteds
        /\ lane'.whole = lane.whole /\ lane'.wholes = lane.wholes
        /\ lane'.wholeErr = lane.wholeErr /\ lane'.err = First(lane.err, "cancelled")
    BY <1>2, <1>7 DEF TypeOK, LaneType, First, Errors
  <2>2. TypeOK' BY <1>1, <1>2, <1>7, <2>1 DEF TypeOK
  <2>3. lane'.err # "" BY <2>1 DEF First
  <2>4. PartedLane' BY <1>2, <1>5, <1>7, <2>1, <2>3 DEF PartedLane
  <2>5. ErrorsHaveCause'
    <3>1. "failed" \in {lane'.wholeErr, lane'.err} => "failed" \in {lane.wholeErr, lane.err}
      BY <2>1 DEF First
    <3>2. lane'.err = "cancelled" => ctx
      BY <1>2, <1>7, <2>1 DEF First, ErrorsHaveCause, LanesCancelled
    <3> QED BY <1>1, <1>2, <1>5, <1>7, <2>3, <3>1, <3>2 DEF ErrorsHaveCause, LanesCancelled
  <2>6. PartsOfCurrent' BY <2>1 DEF PartsOfCurrent
  <2>7. Counted' BY <1>1, <1>2, <1>7, CountUntouched
  <2> QED BY <1>1, <1>4, <1>7, <2>1, <2>2, <2>3, <2>4, <2>5, <2>6, <2>7, PartedStep
<1>8. CASE /\ lane.parteds # <<>> /\ lane' = [lane EXCEPT !.parted = "busy"]
           /\ ObjGoto(Current, "starting") /\ part' = NoParts
  <2>0. PICK o : o = Head(lane.parteds) OBVIOUS
  <2>1. /\ o \in ToSet(lane.parteds) /\ o \in Parted /\ o \in Objects /\ o \notin Whole
        /\ ToSet(lane.parteds) \subseteq Parted
        /\ ToSet(Tail(lane.parteds)) = ToSet(lane.parteds) \ {o}
    BY <1>2, <1>8, <2>0, TailOfDistinct, ElementsOf, SetsOfObjects DEF PartedLane
  <2>2. obj[o].pc = "todo" BY <1>1, <1>2, <2>1 DEF PartedLane
  <2>3. /\ lane' \in LaneType /\ lane'.parted = "busy" /\ lane'.parteds = lane.parteds
        /\ lane'.whole = lane.whole /\ lane'.wholes = lane.wholes
        /\ lane'.wholeErr = lane.wholeErr /\ lane'.err = lane.err
    BY <1>2, <1>8 DEF TypeOK, LaneType
  <2>4. Current' = o BY <2>0, <2>3 DEF Current
  <2>5. /\ obj' \in [Objects -> ObjType] /\ obj'[o].pc = "starting"
        /\ obj'[o].credited = obj[o].credited /\ \A p \in Objects \ {o} : obj'[p] = obj[p]
    BY <1>2, <1>8, <2>0, <2>1, GoesTo DEF ObjGoto, Busy, Current
  <2>6. part' \in PartType /\ part'.written = 0 /\ part'.next = 1 /\ part'.go = "check"
        /\ \A i \in PartNumbers : part'.at[i].pc = "todo"
    BY <1>8 DEF NoParts, PartType, PartPCs
  <2>7. TypeOK' BY <1>1, <1>2, <2>3, <2>5, <2>6 DEF TypeOK
  <2>8. PartedLane'
    <3>1. \A p \in Parted : obj'[p].pc \in PartedPCs
      BY <1>2, <2>1, <2>5, SetsOfObjects DEF PartedLane, PartedPCs, Busy
    <3>2. \A p \in Parted \ ToSet(lane.parteds) : obj'[p].pc = "done"
      BY <1>2, <2>1, <2>5, SetsOfObjects DEF PartedLane
    <3>3. \A p \in ToSet(Tail(lane.parteds)) : obj'[p].pc = "todo"
      BY <1>1, <1>2, <2>1, <2>5, SetsOfObjects DEF PartedLane
    <3> QED BY <1>2, <1>5, <1>8, <2>3, <2>4, <2>5, <3>1, <3>2, <3>3 DEF PartedLane, Busy
  <2>9. ErrorsHaveCause'
    <3>1. \A p \in Selected : obj[p].pc = "failed" => obj'[p].pc = "failed"
      BY <2>1, <2>2, <2>5, SetsOfObjects
    <3> QED BY <1>1, <1>2, <2>3, <3>1, CausesUntouched DEF Onward
  <2>10. PartsOfCurrent'
    <3>1. LandedParts' = {} BY <2>6 DEF LandedParts
    <3>2. LandedBytes(o)' = {} BY <3>1 DEF LandedBytes
    <3>3. Parts(o) \in Nat BY <2>1, PartsNatural
    <3>4. \A i \in PartNumbers : i >= 1 BY PartNumbersCover
    <3>5. part'.written = Cardinality(LandedBytes(o)') BY <2>6, <3>2, FS_EmptySet
    <3>6. part' = NoParts BY <1>8
    <3>7. PartsOf(o)' BY <2>5, <2>6, <3>3, <3>4, <3>5, <3>6 DEF PartsOf
    <3> QED BY <2>4, <3>7 DEF PartsOfCurrent
  <2>11. Counted'
    <3>1. \A p \in Selected : obj'[p].pc = "done" <=> obj[p].pc = "done"
      BY <2>1, <2>2, <2>5, SetsOfObjects
    <3>2. \A p \in Objects : obj'[p].credited = obj[p].credited BY <2>5
    <3> QED BY <1>1, <1>2, <3>1, <3>2, CountUntouched
  <2>12. \A p \in Whole : obj'[p].pc = obj[p].pc BY <2>1, <2>5, SetsOfObjects
  <2> QED BY <1>1, <1>4, <2>3, <2>7, <2>8, <2>9, <2>10, <2>11, <2>12, PartedStep
<1> QED BY <1>6, <1>7, <1>8 DEF PartedNext

-----------------------------------------------------------------------------
(* The parts of the object at hand.                                        *)

LEMMA PartStep ==
  ASSUME IInv, PartedIs("parts"), NEW o, o = Current, PartOnly,
         obj' \in [Objects -> ObjType], \A p \in Objects : obj'[p].pc = obj[p].pc,
         part' \in PartType, total' \in [bytes : Nat, files : Nat], Counted', PartsOf(o)'
  PROVE  IInv'
<1>1. /\ Copying /\ lane.parted = "busy" /\ obj[o].pc = "parts" /\ o \in Objects
      /\ UNCHANGED <<mode, run, ctx, old, lane, dest, upload, stray>>
  BY HeadOfLane DEF PartedIs, PartOnly
<1>2. TypeOK /\ OpenIsAtHand BY <1>1, CopyState
<1>3. TypeOK' BY <1>1, <1>2 DEF TypeOK
<1>4. PartedLane' /\ ErrorsHaveCause' /\ \A p \in Whole : obj'[p].pc = obj[p].pc
  BY <1>1, CurrentMovesKeeps DEF Busy
<1>5. Current' = Current BY <1>1 DEF Current
<1>6. PartsOfCurrent' BY <1>5 DEF PartsOfCurrent
<1>7. OpenIsAtHand' BY <1>1, <1>2, <1>5 DEF OpenIsAtHand
<1> QED BY <1>1, <1>3, <1>4, <1>6, <1>7, PartedStep

\* One part goes on, or fails; none lands.
LEMMA PartMoves ==
  ASSUME IInv, PartedIs("parts"), PartOnly, UNCHANGED <<obj, total>>, part' \in PartType,
         part'.next = part.next, part'.go = part.go, part'.written = part.written,
         part.err => part'.err,
         NEW i \in PartNumbers, part.at[i].pc \in {"trying", "backoff"},
         part'.at[i].pc \in {"trying", "backoff", "failed"},
         part'.at[i].pc = "failed" => part'.err,
         \A j \in PartNumbers \ {i} : part'.at[j] = part.at[j]
  PROVE  IInv'
<1>0. PICK o : o = Current OBVIOUS
<1>1. /\ Copying /\ lane.parted = "busy" /\ obj[o].pc = "parts" /\ o \in Objects
      /\ PartsOf(o) /\ UNCHANGED <<mode, run, ctx, old, lane, dest, upload, stray>>
  BY <1>0, HeadOfLane DEF PartedIs, PartOnly
<1>2. TypeOK /\ Counted BY <1>1, CopyState
<1>3. Counted' BY <1>1, <1>2, CountUntouched
<1>4. LandedParts' = LandedParts BY DEF LandedParts
<1>5. LandedBytes(o)' = LandedBytes(o) BY <1>4 DEF LandedBytes
<1>6. PartsOf(o)'
  <2>1. \A j \in PartNumbers : part'.at[j].pc = "todo" <=> j >= part'.next
    BY <1>1 DEF PartsOf
  <2>2. \A j \in PartNumbers : part'.at[j].pc = "failed" => part'.err BY <1>1 DEF PartsOf
  <2>3. PartsCancelled => PartsCancelled' BY <1>1 DEF PartsCancelled, LanesCancelled
  <2> QED BY <1>1, <1>5, <2>1, <2>2, <2>3 DEF PartsOf
<1> QED BY <1>0, <1>1, <1>2, <1>3, <1>6, PartStep DEF TypeOK

LEMMA CheckPartStep == IInv /\ CheckPart => IInv'
<1> SUFFICES ASSUME IInv, CheckPart, NEW o, o = Current PROVE IInv' OBVIOUS
<1>1. /\ Copying /\ PartedIs("parts") /\ PartOnly /\ UNCHANGED <<obj, total>>
      /\ obj[o].pc = "parts" /\ o \in Objects /\ PartsOf(o)
      /\ UNCHANGED <<mode, run, ctx, old, lane, dest, upload, stray>>
  BY HeadOfLane DEF CheckPart, PartedIs, PartOnly
<1>2. TypeOK /\ Counted BY <1>1, CopyState
<1>3. Counted' BY <1>1, <1>2, CountUntouched
<1> DEFINE to == IF part.next > Parts(o) \/ PartsCancelled THEN "wait" ELSE "go"
<1>4. /\ part' \in PartType /\ part'.go = to /\ part'.next = part.next /\ part'.at = part.at
      /\ part'.err = part.err /\ part'.written = part.written
  BY <1>2 DEF CheckPart, TypeOK, PartType
<1>5. LandedBytes(o)' = LandedBytes(o) BY <1>4 DEF LandedBytes, LandedParts
<1>6. PartsOf(o)'
  <2>1. PartsCancelled' = PartsCancelled BY <1>1, <1>4 DEF PartsCancelled, LanesCancelled
  <2>2. part.next \in Nat /\ Parts(o) \in Nat /\ part.next <= Parts(o) + 1
    BY <1>1, <1>2, PartsNatural DEF TypeOK, PartType, PartsOf
  <2>3. to = "wait" => part.next = Parts(o) + 1 \/ PartsCancelled BY <2>2
  <2>4. to = "go" => part.next <= Parts(o) BY <2>2
  <2> HIDE DEF to
  <2> QED BY <1>1, <1>4, <1>5, <2>1, <2>2, <2>3, <2>4 DEF PartsOf
<1> QED BY <1>1, <1>2, <1>3, <1>4, <1>6, PartStep DEF TypeOK

LEMMA GoPartStep == IInv /\ GoPart => IInv'
<1> SUFFICES ASSUME IInv, GoPart, NEW o, o = Current PROVE IInv' OBVIOUS
<1>1. /\ Copying /\ PartedIs("parts") /\ PartOnly /\ UNCHANGED <<obj, total>>
      /\ obj[o].pc = "parts" /\ o \in Objects /\ PartsOf(o) /\ part.go = "go"
      /\ UNCHANGED <<mode, run, ctx, old, lane, dest, upload, stray>>
  BY HeadOfLane DEF GoPart, PartedIs, PartOnly
<1>2. TypeOK /\ Counted BY <1>1, CopyState
<1>3. Counted' BY <1>1, <1>2, CountUntouched
<1>4. PICK n : n = part.next OBVIOUS
<1>5. n \in Nat \ {0} /\ Parts(o) \in Nat /\ n <= Parts(o)
  BY <1>1, <1>2, <1>4, PartsNatural DEF TypeOK, PartType, PartsOf
<1>6. n \in PartNumbers BY <1>1, <1>5, PartNumbersCover
<1>7. /\ part' \in PartType /\ part'.go = "check" /\ part'.next = n + 1
      /\ part'.err = part.err /\ part'.written = part.written
      /\ part'.at[n].pc = "trying" /\ \A j \in PartNumbers \ {n} : part'.at[j] = part.at[j]
  <2>1. part' = [part EXCEPT !.go = "check", !.next = @ + 1, !.at[n] = [pc |-> "trying", try |-> 1]]
    BY <1>4 DEF GoPart
  <2>2. part \in PartType BY <1>2 DEF TypeOK
  <2>3. part'.at = [part.at EXCEPT ![n] = [pc |-> "trying", try |-> 1]]
    BY <2>1, <2>2 DEF PartType
  <2>4. part'.at \in [PartNumbers -> [pc : PartPCs, try : Nat]]
    BY <1>6, <2>2, <2>3 DEF PartType, PartPCs
  <2>5. /\ part'.go = "check" /\ part'.next = n + 1
        /\ part'.err = part.err /\ part'.written = part.written
        /\ part' = [go |-> part'.go, next |-> part'.next, err |-> part'.err,
                    written |-> part'.written, at |-> part'.at]
    BY <1>4, <2>1, <2>2 DEF PartType
  <2>6. part' \in PartType BY <1>5, <2>2, <2>4, <2>5 DEF PartType
  <2>7. part'.at[n].pc = "trying" /\ \A j \in PartNumbers \ {n} : part'.at[j] = part.at[j]
    BY <1>6, <2>2, <2>3 DEF PartType
  <2> QED BY <2>5, <2>6, <2>7
<1>8. part.at[n].pc = "todo" BY <1>1, <1>4, <1>5, <1>6 DEF PartsOf
<1>9. LandedParts' = LandedParts BY <1>7, <1>8 DEF LandedParts
<1>10. LandedBytes(o)' = LandedBytes(o) BY <1>9 DEF LandedBytes
<1>11. PartsOf(o)'
  <2>1. \A j \in PartNumbers : part'.at[j].pc = "todo" <=> j >= n + 1
    <3> TAKE j \in PartNumbers
    <3>1. j \in Nat BY PartNumbersCover
    <3>2. part.at[j].pc = "todo" <=> j >= n BY <1>1, <1>4 DEF PartsOf
    <3> QED BY <1>5, <1>7, <3>1, <3>2
  <2>2. \A j \in PartNumbers : part'.at[j].pc = "failed" => part'.err BY <1>1, <1>7 DEF PartsOf
  <2> QED BY <1>1, <1>5, <1>7, <1>10, <2>1, <2>2 DEF PartsOf
<1> QED BY <1>1, <1>2, <1>3, <1>7, <1>11, PartStep DEF TypeOK

\* A part fails, waits to be tried again, or is.
LEMMA PartChangesStep ==
  ASSUME IInv, NEW i \in PartNumbers, PartFails(i) \/ PartTriesAgain(i) \/ PartStopsWaiting(i)
  PROVE  IInv'
<1>1. /\ PartedIs("parts") /\ PartOnly /\ UNCHANGED <<obj, total>>
      /\ part.at[i].pc \in {"trying", "backoff"}
  BY DEF PartFails, PartTriesAgain, PartStopsWaiting
<1>2. part \in PartType BY <1>1, CopyState DEF TypeOK, PartedIs
<1>3. PICK try : try = part.at[i].try + 1 OBVIOUS
<1>4. \/ part' = [part EXCEPT !.at[i].pc = "failed", !.err = TRUE]
      \/ part' = [part EXCEPT !.at[i].pc = "backoff"]
      \/ part' = [part EXCEPT !.at[i] = [pc |-> "trying", try |-> try]]
  BY <1>3 DEF PartFails, PartTriesAgain, PartStopsWaiting
<1>5. /\ part'.next = part.next /\ part'.go = part.go /\ part'.written = part.written
      /\ part'.err \in {part.err, TRUE}
      /\ part' = [go |-> part'.go, next |-> part'.next, err |-> part'.err,
                  written |-> part'.written, at |-> part'.at]
  BY <1>2, <1>4 DEF PartType
<1>6. \/ part'.at = [part.at EXCEPT ![i].pc = "failed"] /\ part'.err
      \/ part'.at = [part.at EXCEPT ![i].pc = "backoff"]
      \/ part'.at = [part.at EXCEPT ![i] = [pc |-> "trying", try |-> try]]
  <2>1. CASE part' = [part EXCEPT !.at[i].pc = "failed", !.err = TRUE] BY <1>2, <2>1 DEF PartType
  <2>2. CASE part' = [part EXCEPT !.at[i].pc = "backoff"] BY <1>2, <2>2 DEF PartType
  <2>3. CASE part' = [part EXCEPT !.at[i] = [pc |-> "trying", try |-> try]]
    BY <1>2, <2>3 DEF PartType
  <2> QED BY <1>4, <2>1, <2>2, <2>3
<1> DEFINE at == part'.at
           Set == /\ at \in [PartNumbers -> [pc : PartPCs, try : Nat]]
                  /\ at[i].pc \in {"trying", "backoff", "failed"}
                  /\ at[i].pc = "failed" => part'.err
                  /\ \A j \in PartNumbers \ {i} : at[j] = part.at[j]
<1>7. Set
  <2>1. part.at \in [PartNumbers -> [pc : PartPCs, try : Nat]] BY <1>2 DEF PartType
  <2>2. try \in Nat BY <1>3, <2>1
  <2>3. CASE at = [part.at EXCEPT ![i].pc = "failed"] /\ part'.err BY <2>1, <2>3 DEF PartPCs
  <2>4. CASE at = [part.at EXCEPT ![i].pc = "backoff"] BY <2>1, <2>4 DEF PartPCs
  <2>5. CASE at = [part.at EXCEPT ![i] = [pc |-> "trying", try |-> try]]
    BY <2>1, <2>2, <2>5 DEF PartPCs
  <2> QED BY <1>6, <2>3, <2>4, <2>5
<1>8. part' \in PartType BY <1>2, <1>5, <1>7 DEF PartType
<1> QED BY <1>1, <1>5, <1>7, <1>8, PartMoves

LEMMA PartLandsStep == ASSUME IInv, NEW i \in PartNumbers, PartLands(i) PROVE IInv'
<1>0. PICK o : o = Current OBVIOUS
<1>1. /\ Copying /\ PartedIs("parts") /\ PartOnly
      /\ obj[o].pc = "parts" /\ o \in Objects /\ o \in Selected /\ PartsOf(o)
      /\ UNCHANGED <<mode, run, ctx, old, lane, dest, upload, stray>>
      /\ part.at[i].pc = "trying"
  BY <1>0, HeadOfLane DEF PartLands, PartedIs, PartOnly
<1>2. TypeOK /\ Counted /\ CountType BY <1>1, CopyState
<1> DEFINE w == part.written + PartLength(o, i)
<1>3. part' = [part EXCEPT !.at[i].pc = "landed", !.written = part.written + PartLength(o, i)]
      /\ Credit(o, w)
  BY <1>0, <1>2 DEF PartLands, TypeOK, PartType
<1>4. ASSUME NEW j \in PartNumbers, part.at[j].pc # "todo" PROVE j \in 1..Parts(o)
  <2>1. j \in Nat \ {0} /\ Parts(o) \in Nat /\ part.next \in Nat /\ part.next <= Parts(o) + 1
    BY <1>1, <1>2, PartNumbersCover, PartsNatural DEF TypeOK, PartType, PartsOf
  <2>2. ~(j >= part.next) BY <1>1, <1>4 DEF PartsOf
  <2> QED BY <2>1, <2>2
<1>5. i \in (1..Parts(o)) \ LandedParts /\ LandedParts \in SUBSET (1..Parts(o))
  BY <1>1, <1>4 DEF LandedParts
<1>6. /\ Cardinality(LandedBytes(o)) \in Nat
      /\ Cardinality(UNION {BytesOf(o, j) : j \in LandedParts \cup {i}}) =
           Cardinality(LandedBytes(o)) + PartLength(o, i)
      /\ Cardinality(UNION {BytesOf(o, j) : j \in LandedParts \cup {i}}) <= Size[o]
  BY <1>1, <1>5, PartLanding DEF LandedBytes
<1>7. part.written = Cardinality(LandedBytes(o)) BY <1>1 DEF PartsOf
<1>8. PartLength(o, i) \in Nat BY <1>1, <1>5, PartWithin
<1>9. w \in Nat /\ w <= Size[o] BY <1>6, <1>7, <1>8
<1> HIDE DEF w
<1>10. Counted' /\ obj' \in [Objects -> ObjType] /\ total' \in [bytes : Nat, files : Nat]
  BY <1>1, <1>2, <1>3, <1>9, CreditCounts
<1>11. \A p \in Objects : obj'[p].pc = obj[p].pc BY <1>2, <1>3 DEF Credit, TypeOK, ObjType
<1>12. /\ part' \in PartType /\ part'.next = part.next /\ part'.go = part.go
       /\ part'.err = part.err /\ part'.written = w /\ part'.at[i].pc = "landed"
       /\ \A j \in PartNumbers \ {i} : part'.at[j] = part.at[j]
  <2>1. part \in PartType BY <1>2 DEF TypeOK
  <2>2. part' = [part EXCEPT !.at[i].pc = "landed", !.written = w] BY <1>3 DEF w
  <2>3. part'.at = [part.at EXCEPT ![i].pc = "landed"] BY <2>1, <2>2 DEF PartType
  <2>4. /\ part'.at \in [PartNumbers -> [pc : PartPCs, try : Nat]] /\ part'.at[i].pc = "landed"
        /\ \A j \in PartNumbers \ {i} : part'.at[j] = part.at[j]
    BY <2>1, <2>3 DEF PartType, PartPCs
  <2>5. /\ part'.next = part.next /\ part'.go = part.go /\ part'.err = part.err /\ part'.written = w
        /\ part' = [go |-> part'.go, next |-> part'.next, err |-> part'.err,
                    written |-> part'.written, at |-> part'.at]
    BY <2>1, <2>2 DEF PartType
  <2>6. part' \in PartType BY <1>9, <2>1, <2>4, <2>5 DEF PartType
  <2> QED BY <2>4, <2>5, <2>6
<1>13. LandedParts' = LandedParts \cup {i} BY <1>12 DEF LandedParts
<1>14. part'.written = Cardinality(LandedBytes(o)')
  BY <1>6, <1>7, <1>12, <1>13 DEF LandedBytes, w
<1>15. PartsOf(o)'
  <2>1. \A j \in PartNumbers : part'.at[j].pc = "todo" <=> j >= part'.next
    BY <1>1, <1>12 DEF PartsOf
  <2>2. \A j \in PartNumbers : part'.at[j].pc = "failed" => part'.err BY <1>1, <1>12 DEF PartsOf
  <2>3. PartsCancelled' = PartsCancelled BY <1>1, <1>12 DEF PartsCancelled, LanesCancelled
  <2> QED BY <1>1, <1>11, <1>12, <1>14, <2>1, <2>2, <2>3 DEF PartsOf
<1> QED BY <1>0, <1>1, <1>10, <1>11, <1>12, <1>15, PartStep

-----------------------------------------------------------------------------
(* The listing, and the end.                                               *)

LEMMA CopiesStep ==
  ASSUME IInv, run.pc \in {"list", "clear"}, Copies, old' \in BOOLEAN
  PROVE  IInv'
<1> USE DEF Copies
<1>1. /\ TypeOK /\ Counted /\ run.result = ""
      /\ lane = [whole |-> "check", wholes |-> <<>>, wholeErr |-> "",
                 parted |-> "next", parteds |-> <<>>, err |-> ""]
      /\ \A o \in Objects : obj[o].pc = "todo"
  BY DEF IInv, NothingYet
<1>2. /\ LargestFirst(Whole) \in Seq(Whole) /\ IsInjective(LargestFirst(Whole))
      /\ ToSet(LargestFirst(Whole)) = Whole
  <2>1. Whole \in SUBSET Objects BY SetsOfObjects
  <2> QED BY <2>1, LargestFirstLists
<1>3. /\ LargestFirst(Parted) \in Seq(Parted) /\ IsInjective(LargestFirst(Parted))
      /\ ToSet(LargestFirst(Parted)) = Parted
  <2>1. Parted \in SUBSET Objects BY SetsOfObjects
  <2> QED BY <2>1, LargestFirstLists
<1>4. lane' = [whole |-> "check", wholes |-> LargestFirst(Whole), wholeErr |-> "",
               parted |-> "next", parteds |-> LargestFirst(Parted), err |-> ""]
  BY <1>1
<1>5. lane' \in LaneType
  <2>1. \A S, T : S \subseteq T => Seq(S) \subseteq Seq(T) OBVIOUS
  <2>2. LargestFirst(Whole) \in Seq(Objects) /\ LargestFirst(Parted) \in Seq(Objects)
    BY <1>2, <1>3, <2>1, SetsOfObjects
  <2> HIDE DEF Copies
  <2> QED BY <1>4, <2>2 DEF LaneType, Errors
<1>6. run'.pc = "copy" /\ run'.result = "" /\ TypeOK' BY <1>1, <1>5 DEF TypeOK
<1>7. Selected' = Selected /\ Whole' = Whole /\ Parted' = Parted BY SetsFixed
<1>8. WholeLane'
  BY <1>1, <1>2, <1>4, <1>7, SetsOfObjects DEF WholeLane, WholePCs
<1>9. PartedLane'
  BY <1>1, <1>3, <1>4, <1>7, SetsOfObjects DEF PartedLane, PartedPCs
<1>10. ErrorsHaveCause'
  <2> HIDE DEF Copies
  <2>1. lane'.err = "" /\ lane'.wholeErr = "" BY <1>4
  <2> QED BY <2>1 DEF ErrorsHaveCause
<1>11. PartsOfCurrent'
  <2> HIDE DEF Copies
  <2>1. lane'.parted = "next" BY <1>4
  <2> QED BY <2>1 DEF PartsOfCurrent
<1>12. OpenIsAtHand' BY DEF IInv, NothingYet, OpenIsAtHand
<1>13. Counted' BY <1>1, CountUntouched
<1> QED BY <1>6, <1>8, <1>9, <1>10, <1>11, <1>12, <1>13 DEF IInv, NothingYet, Copied, Returned

LEMMA RefusedStep ==
  ASSUME IInv, run.pc \in {"list", "clear"}, Ends("failed"), RunOnly, old' \in BOOLEAN
  PROVE  IInv'
<1>1. /\ TypeOK /\ Counted /\ lane.err = "" /\ \A o \in Objects : upload[o] # "open"
  <2>1. TypeOK /\ Counted /\ NothingYet BY DEF IInv
  <2>2. \A o \in Objects : upload[o] = "none" BY <2>1 DEF NothingYet
  <2>3. lane = [whole |-> "check", wholes |-> <<>>, wholeErr |-> "",
                parted |-> "next", parteds |-> <<>>, err |-> ""]
    BY <2>1 DEF NothingYet
  <2>4. lane.err = "" BY <2>3
  <2> QED BY <2>1, <2>2, <2>4
<1> USE DEF Ends, RunOnly
<1>2. TypeOK' BY <1>1 DEF TypeOK, Errors
<1>3. Counted' BY <1>1, CountUntouched
<1>4. run'.pc = "ended" /\ run'.result = "failed" OBVIOUS
<1> QED BY <1>1, <1>2, <1>3, <1>4 DEF IInv, NothingYet, Copied, Returned

LEMMA ListsStep == IInv /\ (UploadLists \/ StreamLists \/ DownloadLists \/ Clear) => IInv'
<1> SUFFICES ASSUME IInv, UploadLists \/ StreamLists \/ DownloadLists \/ Clear PROVE IInv'
  OBVIOUS
<1>1. run.pc \in {"list", "clear"} /\ old' \in BOOLEAN
  BY DEF UploadLists, StreamLists, DownloadLists, Clear, IInv, TypeOK
<1>2. CASE Copies BY <1>1, <1>2, CopiesStep
<1>3. CASE Ends("failed") /\ RunOnly BY <1>1, <1>3, RefusedStep
<1>4. CASE run' = [run EXCEPT !.pc = "clear"] /\ RunOnly /\ run.pc = "list"
  <2> USE DEF RunOnly
  <2>1. TypeOK /\ Counted BY DEF IInv
  <2>2. TypeOK' BY <1>1, <1>4, <2>1 DEF TypeOK
  <2>3. Counted' BY <1>4, <2>1, CountUntouched
  <2>4. run'.pc = "clear" /\ run'.result = run.result BY <1>4, <2>1 DEF TypeOK
  <2> QED BY <1>4, <2>2, <2>3, <2>4 DEF IInv, NothingYet, Copied, Returned
<1> QED BY <1>2, <1>3, <1>4 DEF UploadLists, StreamLists, DownloadLists, Clear, Refused

LEMMA EndStep == IInv /\ End => IInv'
<1> SUFFICES ASSUME IInv, End PROVE IInv' OBVIOUS
<1> USE DEF End, RunOnly
<1>1. Copying /\ TypeOK /\ WholeLane /\ PartedLane /\ ErrorsHaveCause /\ OpenIsAtHand /\ Counted
  BY CopyState
<1> DEFINE result == IF lane.err # "" THEN lane.err ELSE IF ctx THEN "cancelled" ELSE "ok"
<1>2. run' = [pc |-> "ended", result |-> result] BY DEF Ends
<1>3. TypeOK' BY <1>1, <1>2 DEF TypeOK, LaneType, Errors
<1>4. Counted' BY <1>1, CountUntouched
<1>5. ASSUME result = "ok" PROVE \A o \in Selected : obj[o].pc = "done"
  <2>1. lane.err = "" BY <1>1, <1>5 DEF TypeOK, LaneType, Errors
  <2>2. \A o \in Whole : obj[o].pc = "done" BY <1>1, <2>1 DEF WholeLane
  <2>3. lane.parteds = <<>> BY <1>1, <2>1 DEF PartedLane
  <2>5. ToSet(lane.parteds) = {} BY <2>3, EmptyHasNone
  <2>4. \A o \in Parted : obj[o].pc = "done" BY <1>1, <2>5 DEF PartedLane
  <2> QED BY <2>2, <2>4, SetsOfObjects
<1>6. result = "cancelled" => ctx BY <1>1 DEF ErrorsHaveCause
<1>7. result = "failed" => \E o \in Selected : obj[o].pc = "failed"
  BY <1>1 DEF ErrorsHaveCause
<1>8. \A o \in Objects : upload[o] # "open" BY <1>1 DEF OpenIsAtHand
<1>9. Returned'
  <2>1. Selected' = Selected BY SetsFixed
  <2> HIDE DEF result, End
  <2> QED BY <1>2, <1>5, <1>6, <1>7, <1>8, <2>1 DEF Returned, End
<1> QED BY <1>2, <1>3, <1>4, <1>9 DEF IInv, NothingYet, Copied

LEMMA IInvInitial == Init => IInv
<1> SUFFICES ASSUME Init PROVE IInv OBVIOUS
<1>0. /\ part = NoParts
      /\ lane = [whole |-> "check", wholes |-> <<>>, wholeErr |-> "",
                 parted |-> "next", parteds |-> <<>>, err |-> ""]
  BY DEF Init
<1>1. TypeOK
  <2>1. obj \in [Objects -> ObjType] BY DEF Init, ObjType, WholePCs
  <2>2. part \in PartType
    <3> DEFINE at == [i \in PartNumbers |-> [pc |-> "todo", try |-> 0]]
    <3>1. at \in [PartNumbers -> [pc : PartPCs, try : Nat]] BY DEF PartPCs
    <3>2. part = [go |-> "check", next |-> 1, err |-> FALSE, written |-> 0, at |-> at]
      BY <1>0 DEF NoParts
    <3> HIDE DEF at
    <3> QED BY <3>1, <3>2 DEF PartType
  <2>3. lane \in LaneType
    <3>1. <<>> \in Seq(Objects) OBVIOUS
    <3> QED BY <1>0, <3>1 DEF LaneType, Errors
  <2>4. dest \in [Objects -> {"absent", "partial", "whole"}] /\ total \in [bytes : Nat, files : Nat]
    BY DEF Init
  <2>5. upload \in [Objects -> {"none", "open", "joined", "discarded", "left"}] BY DEF Init
  <2> QED BY <2>1, <2>2, <2>3, <2>4, <2>5 DEF Init, TypeOK, Errors
<1>2. Counted
  <2>1. \A o \in Selected : obj[o].pc = "todo" BY SetsOfObjects DEF Init
  <2>2. \A o \in Objects : obj[o].credited = 0 /\ Credits[o] = 0 BY DEF Init, Credits
  <2>3. Bytes(Selected, Credits) = {}
    <3>1. \A o \in Selected : {o} \X (1..Credits[o]) = {} BY <2>2, SetsOfObjects
    <3> QED BY <3>1 DEF Bytes
  <2>4. DoneObjects = {} BY <2>1 DEF DoneObjects
  <2>5. \A o \in Objects : obj[o].credited <= Size[o]
    <3>1. \A o \in Objects : Size[o] \in Nat BY ObjectsFinite
    <3> QED BY <2>2, <3>1
  <2>6. total = [bytes |-> 0, files |-> 0] /\ Cardinality({}) = 0 BY FS_EmptySet DEF Init
  <2> QED BY <2>1, <2>3, <2>4, <2>5, <2>6 DEF Counted
<1>3. NothingYet /\ Copied /\ Returned BY <1>0 DEF Init, NothingYet, Copied, Returned
<1> QED BY <1>1, <1>2, <1>3 DEF IInv

LEMMA IInvInductive == IInv /\ [Next]_vars => IInv'
<1> SUFFICES ASSUME IInv, [Next]_vars PROVE IInv' OBVIOUS
<1>1. CASE WholeRequest BY <1>1, ReadsStep, SucceedsStep, TryFailsStep DEF WholeRequest
<1>2. CASE PartedRequest
  BY <1>2, StartStep, JoinStep, PartLandsStep, PartChangesStep DEF PartedRequest
<1>3. CASE OwnRequest BY <1>3, ListsStep, AbortStep DEF OwnRequest
<1>4. CASE Internal
  BY <1>4, CheckWholeStep, GoWholeStep, WholeLaneEndsStep, PartedNextStep, CheckPartStep,
     GoPartStep, PartsEndStep, EndStep, BeginStep, TriesAgainStep, StopsWaitingStep,
     PartChangesStep DEF Internal
<1>5. CASE UNCHANGED vars
  <2> USE <1>5 DEF vars
  <2>1. TypeOK' BY DEF IInv, TypeOK
  <2>2. Counted' BY CountUntouched DEF IInv
  <2>3. Onward BY DEF Onward
  <2>4. Copied'
    <3> SUFFICES ASSUME Copying
                 PROVE  /\ WholeLane' /\ PartedLane' /\ ErrorsHaveCause'
                      /\ PartsOfCurrent' /\ OpenIsAtHand'
      BY DEF Copied, Copying
    <3> QED
      BY <2>3, CopyState, WholeUntouched, PartedUntouched, CausesUntouched, PartsUntouched,
               OpenUntouched
  <2>5. Selected' = Selected BY SetsFixed
  <2> QED BY <2>1, <2>2, <2>4, <2>5 DEF IInv, NothingYet, Returned
<1> QED BY <1>1, <1>2, <1>3, <1>4, <1>5, CancelStep DEF Next

\* The invariant holds of every listing, every size and every number of parts.
THEOREM Invariance == Spec => []IInv
BY IInvInitial, IInvInductive, PTL DEF Spec

\* Nothing is left open on the server by a transfer that has returned, except what it
\* asked the server to discard (runMultipart's deferred abort).
THEOREM NothingStaysOpen == Spec => []NothingLeftOpen
<1>1. IInv => NothingLeftOpen BY DEF IInv, Returned, NothingLeftOpen
<1> QED BY <1>1, Invariance, PTL

LEMMA ResultFollows == IInv => ResultIsTrue
<1> SUFFICES ASSUME IInv PROVE ResultIsTrue OBVIOUS
<1>1. TypeOK /\ Counted /\ Returned /\ NothingYet BY DEF IInv
<1>2. Credits \in [Objects -> Nat] /\ \A o \in Objects : Credits[o] = obj[o].credited
  BY <1>1 DEF Credits, TypeOK, ObjType
<1>3. Size \in [Objects -> Nat] /\ \A o \in Objects : Credits[o] <= Size[o]
  BY <1>1, <1>2, ObjectsFinite DEF Counted
<1>4. TotalSize = Cardinality(Bytes(Selected, Size)) BY DEF TotalSize, Bytes
<1>5. Selected \in SUBSET Objects BY SetsOfObjects
<1>6. total.bytes <= TotalSize
  BY <1>1, <1>2, <1>3, <1>4, <1>5, BytesMonotone DEF Counted
<1>7. total.files = Cardinality({o \in Selected : obj[o].pc = "done"})
  BY <1>1 DEF Counted, DoneObjects
<1>8. ASSUME run.result = "ok"
      PROVE  /\ \A o \in Selected : dest[o] = "whole"
             /\ total = [bytes |-> TotalSize, files |-> Cardinality(Selected)]
  <2>1. run.pc = "ended" BY <1>1, <1>8 DEF NothingYet
  <2>2. \A o \in Selected : obj[o].pc = "done" BY <1>1, <1>8, <2>1 DEF Returned
  <2>3. \A o \in Selected : dest[o] = "whole" /\ Credits[o] = Size[o]
    BY <1>1, <1>2, <1>5, <2>2 DEF Counted
  <2>4. DoneObjects = Selected BY <2>2 DEF DoneObjects
  <2>5. Bytes(Selected, Credits) = Bytes(Selected, Size) BY <2>3 DEF Bytes
  <2> QED BY <1>1, <1>4, <2>3, <2>4, <2>5 DEF Counted
<1>9. run.result \in {"ok", "cancelled", "failed"} => run.pc = "ended" BY <1>1 DEF NothingYet
<1>10. /\ run.result = "cancelled" => ctx
       /\ run.result = "failed" /\ lane.err # "" => \E o \in Selected : obj[o].pc = "failed"
  BY <1>1, <1>9 DEF Returned
<1>11. \A o \in Selected : obj[o].pc = "done" => dest[o] = "whole" BY <1>1 DEF Counted
<1> QED BY <1>6, <1>7, <1>8, <1>10, <1>11 DEF ResultIsTrue

\* A transfer that returns nil left every selected object whole, each written in parts
\* from all of them; one that returns a cancellation was cancelled from outside; an
\* error of the lanes is an object's; and no byte is counted twice, whatever is tried
\* again, and no object that is not whole (forEachInLanes, runMultipart, s3Progress).
THEOREM ResultHolds == Spec => []ResultIsTrue
BY ResultFollows, Invariance, PTL

=============================================================================
