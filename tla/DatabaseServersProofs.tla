------------------------- MODULE DatabaseServersProofs -------------------------
(***************************************************************************)
(* Proofs about DatabaseServers, for any number of calls and requests, any *)
(* servers, broken connections and other clients.                          *)
(*                                                                         *)
(* A call's statements follow a plan (Planned): what may come, what only   *)
(* comes last, what never does.  A step leaves a plan alone, goes on in    *)
(* it, turns to another or ends (Moves), and a database that has stood     *)
(* since a call began holds what it held (Standing).  So the last count    *)
(* still tells of the old tables when the drop comes (Emptied), and the    *)
(* grants are still there when the last statement of PrepareTarget has     *)
(* been answered (Granted, SchemasGranted).                                *)
(***************************************************************************)
EXTENDS DatabaseServers, SequenceTheorems, TLAPS

-----------------------------------------------------------------------------
(* The plans *)

StepsOf(op) ==
  CASE op = "create"  -> {"absent", "create"}
    [] op = "ensure"  -> {"ensure"} \cup (IF SQL THEN {"absent", "create"} ELSE {})
    [] op = "drop"    -> {"present", "connectable", "count", "terminate", "drop"}
    [] op = "prepare" -> {"present", "connectable", "count", "role", "user", "grant", "schemas",
                          "schemagrants"}
    [] op = "migrate" -> {"present", "connectable", "count", "role", "user", "grant", "schemas",
                          "schemagrants", "load", "survey", "rollback"}
    [] op = "scan"    -> {"list", "inspect"}

Words ==
  {"start", "ensure", "absent", "create", "present", "connectable", "count", "terminate",
   "drop", "role", "user", "grant", "schemas", "schemagrants", "load", "survey", "rollback",
   "list", "inspect"}

\* What comes last in a plan, and what never does.
Ending == {"create", "drop", "load", "survey", "rollback", "list", "inspect"}
Leading ==
  {"present", "connectable", "count", "role", "schemas", "terminate"}
  \cup (IF SQL THEN {"absent", "ensure"} ELSE {})
LastOfPrepare ==
  IF Engine = "mongodb" THEN "user" ELSE IF Engine = "postgresql" THEN "schemagrants" ELSE "grant"

Follows(s) == \A i \in 1 .. Len(s) : s[i] = "connectable" => i < Len(s) /\ s[i + 1] = "count"
Opening(op, s) ==
  /\ s \in Seq(Words) /\ Follows(s)
  /\ \A i \in 1 .. Len(s) : s[i] \in StepsOf(op) \ Ending
Planned(op, s) ==
  /\ s \in Seq(Words) /\ Follows(s) /\ Len(s) > 0
  /\ \A i \in 1 .. Len(s) :
       /\ s[i] \in StepsOf(op)
       /\ s[i] \in Ending => i = Len(s)
       /\ s[i] \in Leading => i < Len(s)
  /\ op = "prepare" => s[Len(s)] = LastOfPrepare
Has(s, w) == \E i \in 1 .. Len(s) : s[i] = w

LEMMA Joining ==
  ASSUME NEW s \in Seq(Words), NEW t \in Seq(Words)
  PROVE  /\ s \o t \in Seq(Words) /\ Len(s \o t) = Len(s) + Len(t)
         /\ Len(s) \in Nat /\ Len(t) \in Nat
         /\ \A i \in 1 .. Len(s \o t) : (s \o t)[i] = IF i <= Len(s) THEN s[i] ELSE t[i - Len(s)]
OBVIOUS

LEMMA JoinedHas ==
  ASSUME NEW s \in Seq(Words), NEW t \in Seq(Words), NEW w
  PROVE  (Has(s, w) \/ Has(t, w)) => Has(s \o t, w)
<1>1. ASSUME Has(s, w) PROVE Has(s \o t, w)
  <2>1. PICK i \in 1 .. Len(s) : s[i] = w BY <1>1 DEF Has
  <2>2. i \in 1 .. Len(s \o t) /\ (s \o t)[i] = w BY <2>1, Joining
  <2> QED BY <2>2 DEF Has
<1>2. ASSUME Has(t, w) PROVE Has(s \o t, w)
  <2>1. PICK i \in 1 .. Len(t) : t[i] = w BY <1>2 DEF Has
  <2>2. Len(s) + i \in 1 .. Len(s \o t) /\ (s \o t)[Len(s) + i] = w BY <2>1, Joining
  <2> QED BY <2>2 DEF Has
<1> QED BY <1>1, <1>2

LEMMA Opened ==
  ASSUME NEW op, NEW s, NEW t, Opening(op, s), Opening(op, t)
  PROVE  Opening(op, s \o t)
<1> USE DEF Opening
<1>1. ASSUME NEW i \in 1 .. Len(s \o t)
      PROVE  /\ (s \o t)[i] \in StepsOf(op) \ Ending
             /\ (s \o t)[i] = "connectable" => i < Len(s \o t) /\ (s \o t)[i + 1] = "count"
  <2>1. CASE i <= Len(s)
    <3>1. i \in 1 .. Len(s) /\ (s \o t)[i] = s[i] BY <2>1, Joining
    <3>2. s[i] = "connectable" => i < Len(s) /\ s[i + 1] = "count" BY <3>1 DEF Follows
    <3>3. i < Len(s) => i + 1 \in 1 .. Len(s \o t) /\ (s \o t)[i + 1] = s[i + 1]
      BY <3>1, Joining
    <3> QED BY <3>1, <3>2, <3>3, Joining
  <2>2. CASE i > Len(s)
    <3> DEFINE j == i - Len(s)
    <3>1. j \in 1 .. Len(t) /\ (s \o t)[i] = t[j] BY <2>2, Joining
    <3>2. t[j] = "connectable" => j < Len(t) /\ t[j + 1] = "count" BY <3>1 DEF Follows
    <3>3. j < Len(t) => i + 1 \in 1 .. Len(s \o t) /\ (s \o t)[i + 1] = t[j + 1]
      BY <2>2, <3>1, Joining
    <3> QED BY <3>1, <3>2, <3>3, Joining
  <2> QED BY <2>1, <2>2, Joining
<1> QED BY <1>1, Joining DEF Follows

LEMMA Completed ==
  ASSUME NEW op, NEW s, NEW t, Opening(op, s), Planned(op, t)
  PROVE  Planned(op, s \o t)
<1> USE DEF Opening, Planned
<1>1. ASSUME NEW i \in 1 .. Len(s \o t)
      PROVE  /\ (s \o t)[i] \in StepsOf(op)
             /\ (s \o t)[i] \in Ending => i = Len(s \o t)
             /\ (s \o t)[i] \in Leading => i < Len(s \o t)
             /\ (s \o t)[i] = "connectable" => i < Len(s \o t) /\ (s \o t)[i + 1] = "count"
  <2>1. CASE i <= Len(s)
    <3>1. i \in 1 .. Len(s) /\ (s \o t)[i] = s[i] BY <2>1, Joining
    <3>2. s[i] = "connectable" => i < Len(s) /\ s[i + 1] = "count" BY <3>1 DEF Follows
    <3>3. i < Len(s) => i + 1 \in 1 .. Len(s \o t) /\ (s \o t)[i + 1] = s[i + 1]
      BY <3>1, Joining
    <3> QED BY <3>1, <3>2, <3>3, Joining
  <2>2. CASE i > Len(s)
    <3> DEFINE j == i - Len(s)
    <3>1. j \in 1 .. Len(t) /\ (s \o t)[i] = t[j] BY <2>2, Joining
    <3>2. t[j] = "connectable" => j < Len(t) /\ t[j + 1] = "count" BY <3>1 DEF Follows
    <3>3. j < Len(t) => i + 1 \in 1 .. Len(s \o t) /\ (s \o t)[i + 1] = t[j + 1]
      BY <2>2, <3>1, Joining
    <3>4. t[j] \in Ending => j = Len(t) BY <3>1
    <3>5. t[j] \in Leading => j < Len(t) BY <3>1
    <3> QED BY <3>1, <3>2, <3>3, <3>4, <3>5, Joining
  <2> QED BY <2>1, <2>2, Joining
<1>2. (s \o t)[Len(s \o t)] = t[Len(t)]
  <2>1. Len(s \o t) \in 1 .. Len(s \o t) /\ ~(Len(s \o t) <= Len(s)) /\ Len(s \o t) - Len(s) = Len(t)
    BY Joining
  <2> QED BY <2>1, Joining
<1> QED BY <1>1, <1>2, Joining DEF Follows

LEMMA Rest ==
  ASSUME NEW s \in Seq(Words), Len(s) > 0
  PROVE  /\ Tail(s) \in Seq(Words) /\ Len(s) \in Nat /\ Len(Tail(s)) = Len(s) - 1
         /\ Head(s) = s[1] /\ s # <<>>
         /\ \A i \in 1 .. Len(Tail(s)) : Tail(s)[i] = s[i + 1]
OBVIOUS

LEMMA PlannedTail ==
  ASSUME NEW op, NEW s, Planned(op, s), Len(s) > 1
  PROVE  Planned(op, Tail(s))
<1> DEFINE t == Tail(s)  m == Len(s)
<1>1. /\ s \in Seq(Words) /\ t \in Seq(Words) /\ m \in Nat /\ m > 1 /\ Len(t) = m - 1
      /\ \A i \in 1 .. m - 1 : t[i] = s[i + 1]
  BY Rest DEF Planned
<1> HIDE DEF t
<1>2. ASSUME NEW i \in 1 .. m - 1
      PROVE  /\ t[i] = "connectable" => i < m - 1 /\ t[i + 1] = "count"
             /\ t[i] \in StepsOf(op)
             /\ t[i] \in Ending => i = m - 1
             /\ t[i] \in Leading => i < m - 1
  <2>1. t[i] = s[i + 1] /\ i + 1 \in 1 .. m BY <1>1
  <2>2. s[i + 1] = "connectable" => i + 1 < m /\ s[(i + 1) + 1] = "count"
    BY <2>1 DEF Follows, Planned
  <2>3. i + 1 < m => i + 1 \in 1 .. m - 1 BY <1>1
  <2>4. i + 1 < m => t[i + 1] = s[(i + 1) + 1] BY <1>1, <2>3
  <2>5. /\ s[i + 1] \in StepsOf(op)
        /\ s[i + 1] \in Ending => i + 1 = m
        /\ s[i + 1] \in Leading => i + 1 < m
    BY <2>1 DEF Planned
  <2> QED BY <1>1, <2>1, <2>2, <2>4, <2>5
<1>3. t[m - 1] = s[m]
  <2>1. m - 1 \in 1 .. m - 1 /\ (m - 1) + 1 = m BY <1>1
  <2> QED BY <1>1, <2>1
<1>4. op = "prepare" => t[m - 1] = LastOfPrepare BY <1>3 DEF Planned
<1>5. Follows(t) BY <1>1, <1>2 DEF Follows
<1>6. Planned(op, t) BY <1>1, <1>2, <1>4, <1>5 DEF Planned
<1> QED BY <1>6 DEF t

(* The plan of each call. *)
LEMMA OneOf ==
  ASSUME NEW S, NEW w \in S
  PROVE  <<w>> \in Seq(S) /\ Len(<<w>>) = 1 /\ <<w>>[1] = w /\ Has(<<w>>, w)
<1>1. <<w>> \in Seq(S) /\ Len(<<w>>) = 1 /\ <<w>>[1] = w /\ 1 \in 1 .. 1 OBVIOUS
<1> QED BY <1>1 DEF Has

LEMMA TwoOf ==
  ASSUME NEW S, NEW v \in S, NEW w \in S
  PROVE  /\ <<v, w>> \in Seq(S) /\ Len(<<v, w>>) = 2 /\ <<v, w>>[1] = v /\ <<v, w>>[2] = w
         /\ Has(<<v, w>>, v) /\ Has(<<v, w>>, w)
<1>1. /\ <<v, w>> \in Seq(S) /\ Len(<<v, w>>) = 2 /\ <<v, w>>[1] = v /\ <<v, w>>[2] = w
      /\ 1 \in 1 .. 2 /\ 2 \in 1 .. 2
  OBVIOUS
<1> QED BY <1>1 DEF Has

LEMMA FiveOf ==
  ASSUME NEW S, NEW v \in S, NEW w \in S, NEW x \in S, NEW y \in S, NEW z \in S
  PROVE  LET s == <<v, w, x, y, z>> IN
         /\ s \in Seq(S) /\ Len(s) = 5
         /\ s[1] = v /\ s[2] = w /\ s[3] = x /\ s[4] = y /\ s[5] = z
OBVIOUS

LEMMA OneStep ==
  ASSUME NEW w \in Words
  PROVE  <<w>> \in Seq(Words) /\ Len(<<w>>) = 1 /\ <<w>>[1] = w /\ Has(<<w>>, w)
BY OneOf

LEMMA TwoSteps ==
  ASSUME NEW v \in Words, NEW w \in Words
  PROVE  /\ <<v, w>> \in Seq(Words) /\ Len(<<v, w>>) = 2 /\ <<v, w>>[1] = v /\ <<v, w>>[2] = w
         /\ Has(<<v, w>>, v) /\ Has(<<v, w>>, w)
BY TwoOf

LEMMA NoSteps == ASSUME NEW op PROVE Opening(op, <<>>)
BY DEF Opening, Follows

LEMMA OpeningStep ==
  ASSUME NEW op, NEW w \in Words, w \in StepsOf(op), w \notin Ending, w # "connectable"
  PROVE  Opening(op, <<w>>)
BY OneStep DEF Opening, Follows

LEMMA LastStep ==
  ASSUME NEW op, NEW w \in Words, w \in StepsOf(op), w \notin Leading,
         op = "prepare" => w = LastOfPrepare
  PROVE  Planned(op, <<w>>)
<1>1. w # "connectable" BY DEF Leading
<1> QED BY <1>1, OneStep DEF Planned, Follows

LEMMA CheckOpens ==
  ASSUME NEW op \in {"drop", "prepare", "migrate"}, Engine \in Engines
  PROVE  Opening(op, CheckTargetEmpty) /\ Has(CheckTargetEmpty, "count")
<1>0. "count" \in Words /\ "connectable" \in Words BY DEF Words
<1>1. Opening(op, <<"count">>) /\ Has(<<"count">>, "count")
  <2>1. "count" \in StepsOf(op) \ Ending BY DEF StepsOf, Ending
  <2>2. Opening(op, <<"count">>) BY <1>0, <2>1, OpeningStep
  <2> QED BY <1>0, <2>2, OneStep
<1>2. Opening(op, <<"connectable", "count">>) /\ Has(<<"connectable", "count">>, "count")
  <2>1. {"connectable", "count"} \subseteq StepsOf(op) \ Ending BY DEF StepsOf, Ending
  <2>2. \A i \in 1 .. 2 : i = 1 \/ i = 2 OBVIOUS
  <2> DEFINE s == <<"connectable", "count">>
  <2>3. s \in Seq(Words) /\ Len(s) = 2 /\ s[1] = "connectable" /\ s[2] = "count" /\ Has(s, "count")
    BY <1>0, TwoSteps
  <2> HIDE DEF s
  <2>4. Opening(op, s) BY <2>1, <2>2, <2>3 DEF Opening, Follows
  <2> QED BY <2>3, <2>4 DEF s
<1> QED BY <1>1, <1>2 DEF CheckTargetEmpty, Engines, mysqlCheckTargetEmpty,
     mariadbCheckTargetEmpty, pgCheckTargetEmpty, mongoCheckTargetEmpty

LEMMA CreatePlanned ==
  ASSUME NEW op \in {"create", "ensure"}, NEW q \in Asking, Engine \in Engines,
         op = "ensure" => SQL
  PROVE  Planned(op, CreateDatabase(q))
<1>0. "absent" \in Words /\ "create" \in Words BY DEF Words
<1>1. Opening(op, <<"absent">>)
  <2>1. "absent" \in StepsOf(op) \ Ending BY DEF StepsOf, Ending
  <2> QED BY <1>0, <2>1, OpeningStep
<1>2. Planned(op, <<"create">>)
  <2>1. "create" \in StepsOf(op) /\ "create" \notin Leading BY DEF StepsOf, Leading
  <2> QED BY <1>0, <2>1, LastStep
<1>3. Planned(op, <<"absent", "create">>)
  <2> DEFINE s == <<"absent", "create">>
  <2>1. s \in Seq(Words) /\ Len(s) = 2 /\ s[1] = "absent" /\ s[2] = "create"
    BY <1>0, TwoSteps
  <2>2. \A i \in 1 .. 2 : i = 1 \/ i = 2 OBVIOUS
  <2>3. /\ "absent" \in StepsOf(op) /\ "create" \in StepsOf(op)
        /\ "absent" \notin Ending /\ "create" \notin Leading
    BY DEF StepsOf, Ending, Leading
  <2> HIDE DEF s
  <2>4. Planned(op, s) BY <2>1, <2>2, <2>3 DEF Planned, Follows
  <2> QED BY <2>4 DEF s
<1>4. CASE SQL
  BY <1>3, <1>4 DEF CreateDatabase, Engines, SQL, mysqlCreateDatabase, mariadbCreateDatabase,
     pgCreateDatabase
<1>5. CASE ~SQL
  <2>1. Planned(op, <<"absent">>)
    <3>1. "absent" \in StepsOf(op) /\ "absent" \notin Leading
      BY <1>5 DEF StepsOf, Leading
    <3> QED BY <1>0, <3>1, LastStep
  <2>2. Planned(op, <<"absent">> \o <<"create">>) BY <1>1, <1>2, Completed
  <2>3. <<"absent">> \o <<>> = <<"absent">> BY <1>0, OneStep, ConcatEmptySeq
  <2>4. CreateDatabase(q) = <<"absent">> \o (IF q.collection THEN <<"create">> ELSE <<>>)
    BY <1>5 DEF CreateDatabase, SQL, mongoCreateDatabase, If
  <2> QED BY <2>1, <2>2, <2>3, <2>4
<1> QED BY <1>4, <1>5

LEMMA DropPlanned ==
  ASSUME NEW q \in Asking, Engine \in Engines
  PROVE  /\ Planned("drop", DropDatabase(q))
         /\ q.requireEmpty => Has(DropDatabase(q), "count")
<1>0. "present" \in Words /\ "drop" \in Words /\ "terminate" \in Words BY DEF Words
<1>1. Opening("drop", <<"present">>) /\ Opening("drop", <<"terminate">>)
  <2>1. {"present", "terminate"} \subseteq StepsOf("drop") \ Ending BY DEF StepsOf, Ending
  <2> QED BY <1>0, <2>1, OpeningStep
<1>2. Planned("drop", <<"drop">>)
  <2>1. "drop" \in StepsOf("drop") /\ "drop" \notin Leading BY DEF StepsOf, Leading
  <2> QED BY <1>0, <2>1, LastStep
<1>3. Opening("drop", Guarded(q)) /\ (q.requireEmpty => Has(Guarded(q), "count"))
  BY CheckOpens, NoSteps DEF Guarded
<1> DEFINE s == <<"present">> \o Guarded(q)
<1>4. Opening("drop", s) /\ (q.requireEmpty => Has(s, "count"))
  BY <1>1, <1>3, Opened, JoinedHas DEF Opening
<1>5. Opening("drop", If(q.force, "terminate")) BY <1>1, NoSteps DEF If
<1> HIDE DEF s
<1>6. Planned("drop", s \o <<"drop">>) /\ (q.requireEmpty => Has(s \o <<"drop">>, "count"))
  BY <1>2, <1>4, Completed, JoinedHas DEF Opening, Planned
<1> DEFINE t == s \o If(q.force, "terminate")
<1>7. Opening("drop", t) /\ (q.requireEmpty => Has(t, "count"))
  BY <1>4, <1>5, Opened, JoinedHas DEF Opening
<1> HIDE DEF t
<1>8. Planned("drop", t \o <<"drop">>) /\ (q.requireEmpty => Has(t \o <<"drop">>, "count"))
  BY <1>2, <1>7, Completed, JoinedHas DEF Opening, Planned
<1> QED BY <1>6, <1>8 DEF DropDatabase, Engines, mysqlDropDatabase, mariadbDropDatabase,
     pgDropDatabase, mongoDropDatabase, s, t

LEMMA PreparePlanned ==
  ASSUME NEW q \in Asking, Engine \in Engines
  PROVE  /\ Planned("prepare", PrepareTarget(q)) /\ Opening("migrate", PrepareTarget(q))
         /\ Engine = "postgresql" => Has(PrepareTarget(q), "grant") /\ Has(PrepareTarget(q), "schemas")
<1>0. {"present", "role", "user", "grant", "schemas", "schemagrants"} \subseteq Words BY DEF Words
<1>1. ASSUME NEW op \in {"prepare", "migrate"},
             NEW w \in {"present", "role", "user", "grant", "schemas", "schemagrants"}
      PROVE  Opening(op, <<w>>)
  <2>1. w \in StepsOf(op) /\ w \notin Ending BY DEF StepsOf, Ending
  <2> QED BY <1>0, <2>1, OpeningStep
<1>2. Planned("prepare", <<LastOfPrepare>>)
  <2>1. LastOfPrepare \in StepsOf("prepare") /\ LastOfPrepare \notin Leading
        /\ LastOfPrepare \in {"user", "grant", "schemagrants"}
    BY DEF LastOfPrepare, StepsOf, Leading
  <2> QED BY <1>0, <2>1, LastStep
<1>3. ASSUME NEW op \in {"prepare", "migrate"}
      PROVE  Opening(op, CheckTargetEmpty) /\ Opening(op, <<"present">> \o CheckTargetEmpty)
  BY <1>1, CheckOpens, Opened
<1> DEFINE s == <<"present">> \o CheckTargetEmpty
<1>4. \A op \in {"prepare", "migrate"} : Opening(op, s) BY <1>3
<1> HIDE DEF s
<1>5. CASE Engine \in {"mysql", "mariadb"}
  <2> DEFINE t == <<"user", "grant">>
  <2>1. t \in Seq(Words) /\ Len(t) = 2 /\ t[1] = "user" /\ t[2] = "grant" BY <1>0, TwoSteps
  <2>2. \A i \in 1 .. 2 : i = 1 \/ i = 2 OBVIOUS
  <2>3. \A op \in {"prepare", "migrate"} : {"user", "grant"} \subseteq StepsOf(op) \ Ending
    BY DEF StepsOf, Ending
  <2>4. "user" \notin Leading /\ "grant" \notin Leading /\ LastOfPrepare = "grant"
    BY <1>5 DEF Leading, LastOfPrepare
  <2>5. PrepareTarget(q) = s \o t
    BY <1>5 DEF PrepareTarget, mysqlPrepareTarget, mariadbPrepareTarget, s
  <2> HIDE DEF t
  <2>6. Planned("prepare", t) BY <2>1, <2>2, <2>3, <2>4 DEF Planned, Follows
  <2>7. Opening("migrate", t) BY <2>1, <2>2, <2>3 DEF Opening, Follows
  <2>8. Engine # "postgresql" BY <1>5
  <2> QED BY <1>4, <2>5, <2>6, <2>7, <2>8, Completed, Opened
<1>6. CASE Engine = "postgresql"
  <2> DEFINE t == <<"role", "user", "grant", "schemas", "schemagrants">>
  <2>1. t \in Seq(Words) /\ Len(t) = 5 /\ t[1] = "role" /\ t[2] = "user" /\ t[3] = "grant"
        /\ t[4] = "schemas" /\ t[5] = "schemagrants"
    BY <1>0, FiveOf
  <2>2. \A i \in 1 .. 5 : i = 1 \/ i = 2 \/ i = 3 \/ i = 4 \/ i = 5 OBVIOUS
  <2>3. \A op \in {"prepare", "migrate"} :
           {"role", "user", "grant", "schemas", "schemagrants"} \subseteq StepsOf(op) \ Ending
    BY DEF StepsOf, Ending
  <2>4. /\ "user" \notin Leading /\ "grant" \notin Leading /\ "schemagrants" \notin Leading
        /\ LastOfPrepare = "schemagrants"
    BY <1>6 DEF Leading, LastOfPrepare
  <2>5. PrepareTarget(q) = s \o t BY <1>6 DEF PrepareTarget, pgPrepareTarget, s
  <2> HIDE DEF t
  <2>6. Planned("prepare", t) BY <2>1, <2>2, <2>3, <2>4 DEF Planned, Follows
  <2>7. Opening("migrate", t) BY <2>1, <2>2, <2>3 DEF Opening, Follows
  <2>8. Has(t, "grant") /\ Has(t, "schemas")
    <3>1. 3 \in 1 .. 5 /\ 4 \in 1 .. 5 OBVIOUS
    <3> QED BY <2>1, <3>1 DEF Has
  <2>9. Has(s \o t, "grant") /\ Has(s \o t, "schemas") BY <1>4, <2>1, <2>8, JoinedHas DEF Opening
  <2> QED BY <1>4, <2>5, <2>6, <2>7, <2>9, Completed, Opened
<1>7. CASE Engine = "mongodb"
  <2>1. LastOfPrepare = "user" BY <1>7 DEF LastOfPrepare
  <2>2. PrepareTarget(q) = CheckTargetEmpty \o <<"user">>
    BY <1>7 DEF PrepareTarget, mongoPrepareTarget
  <2>3. Planned("prepare", <<"user">>) /\ Opening("migrate", <<"user">>)
    BY <1>1, <1>2, <2>1
  <2>4. Engine # "postgresql" BY <1>7
  <2> QED BY <1>3, <2>2, <2>3, <2>4, Completed, Opened
<1> QED BY <1>5, <1>6, <1>7 DEF Engines

LEMMA StatementsPlanned ==
  ASSUME NEW q \in Asking, Engine \in Engines
  PROVE  /\ Planned(q.op, Statements(q))
         /\ q.op = "migrate" \/ (q.op = "drop" /\ q.requireEmpty) => Has(Statements(q), "count")
         /\ q.op = "prepare" /\ Engine = "postgresql" =>
              Has(Statements(q), "grant") /\ Has(Statements(q), "schemas")
<1>0. q.op \in Ops BY DEF Asking
<1>1. CASE q.op = "create"
  <2>1. Statements(q) = CreateDatabase(q) BY <1>1 DEF Statements
  <2> QED BY <1>1, <2>1, CreatePlanned
<1>2. CASE q.op = "drop"
  <2>1. Statements(q) = DropDatabase(q) BY <1>2 DEF Statements
  <2> QED BY <1>2, <2>1, DropPlanned
<1>3. CASE q.op = "prepare"
  <2>1. Statements(q) = PrepareTarget(q) BY <1>3 DEF Statements
  <2> QED BY <1>3, <2>1, PreparePlanned
<1>4. CASE q.op = "migrate"
  <2> DEFINE s == IF q.grant THEN PrepareTarget(q) ELSE <<>>
             t == s \o CheckTargetEmpty
  <2>1. Statements(q) = t \o <<"load">> BY <1>4 DEF Statements, MigrateData
  <2>2. Opening("migrate", s) BY PreparePlanned, NoSteps
  <2> HIDE DEF s
  <2>3. Opening("migrate", CheckTargetEmpty) /\ Has(CheckTargetEmpty, "count") BY CheckOpens
  <2>4. Opening("migrate", t) /\ Has(t, "count")
    BY <2>2, <2>3, Opened, JoinedHas DEF Opening
  <2> HIDE DEF t
  <2>5. Planned("migrate", <<"load">>)
    <3>1. "load" \in StepsOf("migrate") /\ "load" \notin Leading /\ "load" \in Words
      BY DEF StepsOf, Leading, Words
    <3> QED BY <3>1, LastStep
  <2>6. Planned("migrate", t \o <<"load">>) BY <2>4, <2>5, Completed
  <2>7. Has(t \o <<"load">>, "count") BY <2>4, <2>5, JoinedHas DEF Opening, Planned
  <2> QED BY <1>4, <2>1, <2>6, <2>7
<1>5. CASE q.op = "ensure"
  <2>1. Statements(q) = <<"ensure">> \o (IF SQL THEN CreateDatabase(q) ELSE <<>>)
    BY <1>5 DEF Statements, EnsureTargetDatabase
  <2>2. "ensure" \in Words BY DEF Words
  <2>3. CASE SQL
    <3>1. "ensure" \in StepsOf("ensure") /\ "ensure" \notin Ending BY DEF StepsOf, Ending
    <3>2. Opening("ensure", <<"ensure">>) BY <2>2, <3>1, OpeningStep
    <3> QED BY <1>5, <2>1, <2>3, <3>2, CreatePlanned, Completed
  <2>4. CASE ~SQL
    <3>1. "ensure" \in StepsOf("ensure") /\ "ensure" \notin Leading BY <2>4 DEF StepsOf, Leading
    <3>2. Planned("ensure", <<"ensure">>) BY <2>2, <3>1, LastStep
    <3>3. <<"ensure">> \o <<>> = <<"ensure">> BY <2>2, OneStep, ConcatEmptySeq
    <3> QED BY <1>5, <2>1, <2>4, <3>2, <3>3
  <2> QED BY <2>3, <2>4
<1>6. CASE q.op = "scan"
  <2>1. Statements(q) = <<"list">> BY <1>6 DEF Statements
  <2>2. "list" \in StepsOf("scan") /\ "list" \notin Leading /\ "list" \in Words
    BY DEF StepsOf, Leading, Words
  <2> QED BY <1>6, <2>1, <2>2, LastStep
<1> QED BY <1>0, <1>1, <1>2, <1>3, <1>4, <1>5, <1>6 DEF Ops

-----------------------------------------------------------------------------
(* Where the calls and the databases stand *)

DatabasesTyped ==
  /\ DOMAIN dbs \subseteq Names /\ dbs = [n \in DOMAIN dbs |-> dbs[n]]
  /\ \A n \in DOMAIN dbs :
       IsDatabase(dbs[n]) /\ \A o \in dbs[n].objs : ~IsSystemSchema(o.schema)
  /\ before = [c \in Calls |-> before[c]] /\ \A c \in Calls : IsDatabase(before[c])
  /\ lasting = [c \in Calls |-> lasting[c]]
Notes(k) == k = [role |-> k.role, grants |-> k.grants, objs |-> k.objs, schemas |-> k.schemas]
TypeInv ==
  /\ Engine \in Engines
  /\ known = [c \in Calls |-> known[c]] /\ \A c \in Calls : Notes(known[c])
  /\ asks \in [Calls -> Asking] /\ \A c \in Calls : \A s \in asks[c].schemas : ~IsSystemSchema(s)
  /\ todo = [c \in Calls |-> todo[c]] /\ answers = [c \in Calls |-> answers[c]]
  /\ DatabasesTyped

Waiting(c)  == todo[c] = <<"start">>
Underway(c) == Planned(asks[c].op, todo[c])
Placed(c) ==
  /\ Waiting(c) \/ Underway(c) \/ todo[c] = <<>>
  /\ todo[c] # <<>> => answers[c] = "none"
  /\ Underway(c) /\ asks[c].op = "ensure" => ~IsSystemDatabase(Asked(c))

\* A database that has stood since the call began holds what it held.
Standing(c) ==
  /\ lasting[c] \subseteq DOMAIN dbs
  /\ Asked(c) \in lasting[c] =>
       /\ Engine = "postgresql" => before[c].schemas \subseteq dbs[Asked(c)].schemas
       /\ before[c].objs \subseteq dbs[Asked(c)].objs

\* Behind the last count nothing that is counted has stood since the call began.
Careful(c) == asks[c].op = "migrate" \/ (asks[c].op = "drop" /\ asks[c].requireEmpty)
Emptied(c) ==
  Underway(c) /\ Careful(c) /\ Asked(c) \in lasting[c] /\ ~Has(todo[c], "count")
    => OldTables(c) = {}

\* Behind PostgreSQL's grant the account has the right to the database.
Granted(c) ==
  Underway(c) /\ Engine = "postgresql" /\ asks[c].op = "prepare" /\ Asked(c) \in lasting[c]
  /\ ~Has(todo[c], "grant")
    => OnDatabase(c) \in Rights(asks[c].user)

\* Behind the list of its schemas the account has the right to each that has
\* stood since the call began, or the call is still to grant it.
SchemasGranted(c) ==
  Underway(c) /\ Engine = "postgresql" /\ asks[c].op = "prepare" /\ Asked(c) \in lasting[c]
  /\ ~Has(todo[c], "schemas")
    => \A s \in before[c].schemas \cap Wanted(c) :
         s \in known[c].grants \/ OnSchema(c, s) \in Rights(asks[c].user)

ServersInv ==
  TypeInv /\ \A c \in Calls :
    Placed(c) /\ Standing(c) /\ Emptied(c) /\ Granted(c) /\ SchemasGranted(c)

LEMMA StartIsNoStep == ASSUME NEW op, NEW w, w \in StepsOf(op), op \in Ops PROVE w # "start"
BY DEF StepsOf, Ops

LEMMA PlannedIs ==
  ASSUME NEW op \in Ops, NEW s, Planned(op, s)
  PROVE  /\ s # <<>> /\ s # <<"start">> /\ Len(s) \in Nat /\ Len(s) > 0 /\ Head(s) = s[1]
         /\ s[1] \in StepsOf(op) /\ s \in Seq(Words)
         /\ s[1] \in Ending => Len(s) = 1
         /\ s[1] \in Leading => Len(s) > 1
         /\ s[1] = "connectable" => Len(s) > 2 /\ s[2] = "count"
         /\ op = "prepare" /\ Len(s) = 1 => s[1] = LastOfPrepare
<1>1. /\ s \in Seq(Words) /\ Len(s) > 0 /\ Len(s) \in Nat /\ s # <<>> /\ Head(s) = s[1]
      /\ 1 \in 1 .. Len(s)
  BY Rest DEF Planned
<1>2. /\ s[1] \in StepsOf(op)
      /\ s[1] \in Ending => 1 = Len(s)
      /\ s[1] \in Leading => 1 < Len(s)
  BY <1>1 DEF Planned
<1>3. s # <<"start">>
  <2>1. ASSUME s = <<"start">> PROVE FALSE
    <3>1. s[1] = "start" BY <2>1
    <3>2. s[1] # "start" BY <1>2, StartIsNoStep
    <3> QED BY <3>1, <3>2
  <2> QED BY <2>1
<1>4. s[1] = "connectable" => Len(s) > 2 /\ s[2] = "count"
  <2>1. s[1] = "connectable" => 1 < Len(s) /\ s[1 + 1] = "count" BY <1>1 DEF Planned, Follows
  <2>2. 1 < Len(s) => 2 \in 1 .. Len(s) BY <1>1
  <2>3. "count" \in Leading BY DEF Leading
  <2>4. s[1] = "connectable" => 2 \in 1 .. Len(s) /\ s[2] \in Leading BY <2>1, <2>2, <2>3
  <2>5. s[1] = "connectable" => 2 < Len(s) BY <2>4 DEF Planned
  <2> QED BY <1>1, <2>1, <2>5
<1>5. op = "prepare" /\ Len(s) = 1 => s[1] = LastOfPrepare BY DEF Planned
<1> QED BY <1>1, <1>2, <1>3, <1>4, <1>5

LEMMA HasLeft ==
  ASSUME NEW s \in Seq(Words), NEW w, Len(s) > 0, Has(s, w), s[1] # w
  PROVE  Has(Tail(s), w)
<1>1. PICK i \in 1 .. Len(s) : s[i] = w BY DEF Has
<1>2. i # 1 BY <1>1
<1>3. Len(s) \in Nat /\ Len(Tail(s)) = Len(s) - 1 /\ \A j \in 1 .. Len(Tail(s)) : Tail(s)[j] = s[j + 1]
  BY Rest
<1>4. i - 1 \in 1 .. Len(Tail(s)) /\ (i - 1) + 1 = i BY <1>1, <1>2, <1>3
<1>5. Tail(s)[i - 1] = w BY <1>1, <1>3, <1>4
<1> QED BY <1>4, <1>5 DEF Has

-----------------------------------------------------------------------------
(* How a plan gets on *)

Shaped ==
  /\ todo' = [c \in Calls |-> todo'[c]] /\ answers' = [c \in Calls |-> answers'[c]]
  /\ asks' = [c \in Calls |-> asks'[c]]
Only(k) ==
  /\ \A c \in Calls \ {k} : todo'[c] = todo[c] /\ answers'[c] = answers[c] /\ asks'[c] = asks[c]
  /\ Shaped
Same(c) ==
  /\ asks'[c] \in Asking /\ asks'[c].op = asks[c].op /\ asks'[c].database = asks[c].database
  /\ asks'[c].tolerant = asks[c].tolerant /\ asks'[c].requireEmpty = asks[c].requireEmpty
  /\ asks'[c].user = asks[c].user /\ asks'[c].schemas = asks[c].schemas

Stays(c) == todo'[c] = todo[c] /\ answers'[c] = answers[c]
Ends(c)  == todo'[c] = <<>>
Goes(c) ==
  /\ Underway(c) /\ Len(todo[c]) > 1 /\ todo'[c] = Tail(todo[c]) /\ answers'[c] = answers[c]
  /\ todo[c][1] = "count" => (There(c) => Counted(dbs[Asked(c)], asks[c]) = {})
  /\ todo[c][1] = "grant" => OnDatabase(c) \in Rights(asks[c].user)'
  /\ todo[c][1] = "schemas" => There(c) /\ known'[c].grants = pgGrantSchemaTargets(c)
Skips(c) ==
  /\ Underway(c) /\ todo[c][1] = "connectable" /\ ~There(c)
  /\ todo'[c] = Tail(Tail(todo[c])) /\ answers'[c] = answers[c]
Turns(c) ==
  /\ Underway(c) /\ answers'[c] = answers[c]
  /\ \/ todo[c][1] = "load" /\ todo'[c] = <<"survey">>
     \/ todo[c][1] = "survey" /\ todo'[c] = <<"rollback">>
     \/ todo[c][1] = "list" /\ todo'[c] = <<"inspect">>
     \/ /\ todo[c][1] = "create" /\ asks[c].op = "ensure" /\ Engine = "postgresql"
        /\ todo'[c] = CreateDatabase(asks[c])
Begins(c) ==
  /\ Start(c) /\ todo'[c] = Statements(asks[c]) /\ answers'[c] = answers[c]
  /\ asks[c].op = "ensure" => ~IsSystemDatabase(Asked(c))
Moves(c) ==
  Stays(c) \/ Ends(c) \/ Goes(c) \/ Skips(c) \/ Turns(c) \/ Begins(c)

LEMMA DueStep ==
  ASSUME ServersInv, NEW c \in Calls, NEW w, w # "start", Due(c, w)
  PROVE  /\ Underway(c) /\ todo[c][1] = w /\ w \in StepsOf(asks[c].op) /\ answers[c] = "none"
         /\ asks[c] \in Asking /\ asks[c].op \in Ops
         /\ w \in Ending => Len(todo[c]) = 1
         /\ w \in Leading => Len(todo[c]) > 1
         /\ asks[c].op = "prepare" /\ Len(todo[c]) = 1 => w = LastOfPrepare
<1>1. asks[c] \in Asking /\ asks[c].op \in Ops BY DEF ServersInv, TypeInv, Asking
<1>2. Underway(c) /\ answers[c] = "none"
  <2>1. ~Waiting(c)
    <3>1. Waiting(c) => todo[c][1] = "start" /\ Head(todo[c]) = "start" BY DEF Waiting
    <3> QED BY <3>1 DEF Due
  <2> QED BY <2>1 DEF ServersInv, Placed, Due
<1> QED BY <1>1, <1>2, PlannedIs DEF Underway, Due

LEMMA WentOn ==
  ASSUME TypeInv, NEW c \in Calls, Underway(c), GoOn(c)
  PROVE  /\ todo' = [todo EXCEPT ![c] = Tail(todo[c])]
         /\ \A k \in Calls \ {c} : todo'[k] = todo[k] /\ answers'[k] = answers[k]
         /\ Len(todo[c]) > 1 => todo'[c] = Tail(todo[c]) /\ answers' = answers
         /\ Len(todo[c]) = 1 => todo'[c] = <<>>
         /\ todo' = [k \in Calls |-> todo'[k]] /\ answers' = [k \in Calls |-> answers'[k]]
<1>1. todo' = [todo EXCEPT ![c] = Tail(todo[c])] BY DEF GoOn
<1>2. todo'[c] = Tail(todo[c]) BY <1>1 DEF TypeInv
<1>3. Len(todo[c]) > 1 => answers' = answers BY DEF GoOn, TypeInv
<1>4. Len(todo[c]) = 1 => todo'[c] = <<>>
  <2> DEFINE s == todo[c]  t == Tail(s)
  <2>1. s \in Seq(Words) /\ Len(s) > 0 BY DEF Underway, Planned
  <2>2. t \in Seq(Words) /\ Len(t) = Len(s) - 1 BY <2>1, Rest
  <2>3. todo'[c] = t BY <1>2
  <2> HIDE DEF s, t
  <2>4. ASSUME Len(s) = 1 PROVE t = <<>>
    <3>1. Len(t) = 0 BY <2>2, <2>4
    <3> QED BY <2>2, <3>1, EmptySeq
  <2> QED BY <2>3, <2>4 DEF s
<1>5. /\ \A k \in Calls \ {c} : todo'[k] = todo[k] /\ answers'[k] = answers[k]
      /\ todo' = [k \in Calls |-> todo'[k]] /\ answers' = [k \in Calls |-> answers'[k]]
  BY DEF GoOn, TypeInv
<1> QED BY <1>1, <1>2, <1>3, <1>4, <1>5

LEMMA Ended ==
  ASSUME TypeInv, NEW c \in Calls, NEW says, End(c, says)
  PROVE  /\ Ends(c) /\ \A k \in Calls \ {c} : todo'[k] = todo[k] /\ answers'[k] = answers[k]
         /\ answers'[c] = says
         /\ todo' = [k \in Calls |-> todo'[k]] /\ answers' = [k \in Calls |-> answers'[k]]
BY DEF End, Ends, TypeInv

LEMMA OneOn ==
  ASSUME ServersInv, NEW c \in Calls, NEW w, w # "start", Due(c, w), GoOn(c) \/ \E says : End(c, says),
         w = "count" /\ GoOn(c) => (There(c) => Counted(dbs[Asked(c)], asks[c]) = {}),
         w = "grant" => OnDatabase(c) \in Rights(asks[c].user)' \/ \E says : End(c, says),
         w = "schemas" /\ GoOn(c) => There(c) /\ known'[c].grants = pgGrantSchemaTargets(c),
         UNCHANGED <<asks, server>>
  PROVE  Only(c) /\ Moves(c) /\ Same(c) /\ server' = server
<1>1. TypeInv /\ Same(c) /\ Underway(c) /\ todo[c][1] = w BY DueStep DEF ServersInv, Same
<1>2. CASE \E says : End(c, says) BY <1>1, <1>2, Ended DEF Only, Shaped, TypeInv, Moves
<1>3. CASE GoOn(c) /\ ~\E says : End(c, says)
  <2>1. Len(todo[c]) = 1 \/ Len(todo[c]) > 1
    <3> DEFINE n == Len(todo[c])
    <3>1. asks[c].op \in Ops BY DueStep
    <3>2. n \in Nat /\ n > 0 BY <1>1, <3>1, PlannedIs DEF Underway
    <3> HIDE DEF n
    <3>3. n = 1 \/ n > 1 BY <3>2
    <3> QED BY <3>3 DEF n
  <2>2. Len(todo[c]) = 1 => Ends(c) BY <1>1, <1>3, WentOn DEF Ends
  <2>3. Len(todo[c]) > 1 => Goes(c) BY <1>1, <1>3, WentOn DEF Goes
  <2> QED BY <1>1, <1>3, <2>1, <2>2, <2>3, WentOn DEF Only, Shaped, TypeInv, Moves
<1> QED BY <1>2, <1>3

LEMMA Noted ==
  ASSUME TypeInv, NEW c \in Calls, NEW v, known' = [known EXCEPT ![c].grants = v]
  PROVE  /\ known'[c].grants = v /\ Notes(known'[c]) /\ known' = [k \in Calls |-> known'[k]]
         /\ \A k \in Calls \ {c} : known'[k] = known[k]
<1>1. Notes(known[c]) /\ known = [k \in Calls |-> known[k]] BY DEF TypeInv
<1>2. known'[c] = [known[c] EXCEPT !.grants = v] BY <1>1
<1>3. [known[c] EXCEPT !.grants = v]
        = [role |-> known[c].role, grants |-> v, objs |-> known[c].objs, schemas |-> known[c].schemas]
  BY <1>1 DEF Notes
<1>4. known'[c].grants = v /\ Notes(known'[c]) BY <1>2, <1>3 DEF Notes
<1> QED BY <1>1, <1>4

LEMMA StatementMoves ==
  ASSUME ServersInv, NEW c \in Calls, Statement(c)
  PROVE  Only(c) /\ Moves(c) /\ Same(c) /\ server' = server
<1> USE DEF Reads, Writes, Replied
<1>0. TypeInv BY DEF ServersInv
<1>1. CASE IfAbsent(c) BY <1>1, OneOn DEF IfAbsent
<1>2. CASE IfPresent(c) BY <1>2, OneOn DEF IfPresent
<1>3. CASE Connectable(c)
  <2>1. CASE There(c) BY <1>3, <2>1, OneOn DEF Connectable
  <2>2. CASE ~There(c)
    <3>1. Underway(c) /\ todo[c][1] = "connectable" BY <1>3, DueStep DEF Connectable
    <3>2. todo' = [todo EXCEPT ![c] = Tail(Tail(todo[c]))] /\ UNCHANGED <<answers, asks, server>>
      BY <1>3, <2>2 DEF Connectable
    <3>3. Skips(c) BY <1>0, <2>2, <3>1, <3>2 DEF Skips, TypeInv
    <3> QED BY <1>0, <3>2, <3>3 DEF Only, Shaped, TypeInv, Moves, Same
  <2> QED BY <2>1, <2>2
<1>4. CASE Count(c)
  <2>1. Due(c, "count") /\ UNCHANGED <<asks, server>> BY <1>4 DEF Count
  <2>2. \/ \E says : End(c, says)
        \/ GoOn(c) /\ ~(There(c) /\ Counted(dbs[Asked(c)], asks[c]) # {})
    BY <1>4 DEF Count
  <2>3. CASE \E says : End(c, says)
    <3>1. Same(c) BY <1>0, <2>1 DEF Same, TypeInv
    <3> QED BY <1>0, <2>1, <2>3, <3>1, Ended DEF Only, Shaped, TypeInv, Moves
  <2>4. CASE GoOn(c) /\ ~(There(c) /\ Counted(dbs[Asked(c)], asks[c]) # {})
    BY <2>1, <2>4, OneOn
  <2> QED BY <2>2, <2>3, <2>4
<1>5. CASE Role(c) BY <1>5, OneOn DEF Role
<1>6. CASE Ensure(c) BY <1>6, OneOn DEF Ensure
<1>7. CASE CreateDDL(c)
  <2>1. /\ Due(c, "create") /\ UNCHANGED <<asks, server>>
        /\ GoOn(c) \/ \E says : End(c, says)
    BY <1>7 DEF CreateDDL
  <2> QED BY <2>1, OneOn
<1>8. CASE NoSuchLocale(c)
  <2>1. Due(c, "create") /\ server' = server BY <1>8 DEF NoSuchLocale
  <2>2. CASE asks[c].op = "ensure" /\ Engine = "postgresql"
    <3>1. /\ asks' = [asks EXCEPT ![c].locale = ""] /\ answers' = answers
          /\ todo' = [todo EXCEPT ![c] = CreateDatabase(asks[c])]
      BY <1>8, <2>2 DEF NoSuchLocale
    <3>2. Underway(c) /\ todo[c][1] = "create" BY <2>1, DueStep
    <3>3. asks[c] \in Asking /\ asks'[c] = [asks[c] EXCEPT !.locale = ""]
      BY <1>0, <3>1 DEF TypeInv
    <3>4. Same(c)
      <4>1. "" \in Locales BY DEF Locales
      <4> QED BY <3>3, <4>1 DEF Same, Asking
    <3>5. Turns(c) BY <1>0, <2>2, <3>1, <3>2 DEF Turns, TypeInv
    <3> QED BY <1>0, <2>1, <3>1, <3>4, <3>5 DEF Only, Shaped, TypeInv, Moves
  <2>3. CASE ~(asks[c].op = "ensure" /\ Engine = "postgresql")
    <3>1. End(c, "error") /\ asks' = asks BY <1>8, <2>3 DEF NoSuchLocale
    <3> QED BY <2>1, <3>1, OneOn
  <2> QED BY <2>2, <2>3
<1>9. CASE Terminate(c) BY <1>9, OneOn DEF Terminate
<1>10. CASE Busy(c) BY <1>10, OneOn DEF Busy
<1>11. CASE DropDDL(c)
  <2>1. /\ Due(c, "drop") /\ UNCHANGED <<asks, server>>
        /\ GoOn(c) \/ \E says : End(c, says)
    BY <1>11 DEF DropDDL
  <2> QED BY <2>1, OneOn
<1>12. CASE CreateUser(c)
  <2>1. /\ Due(c, "user") /\ UNCHANGED <<asks, server>>
        /\ GoOn(c) \/ \E says : End(c, says)
    BY <1>12 DEF CreateUser
  <2> QED BY <2>1, OneOn
<1>13. CASE Grant(c)
  <2>1. /\ Due(c, "grant") /\ UNCHANGED <<asks, server>>
        /\ \/ End(c, "error")
           \/ /\ users' = With(users, asks[c].user, Rights(asks[c].user) \cup {OnDatabase(c)})
              /\ GoOn(c)
    BY <1>13 DEF Grant
  <2>2. users' = With(users, asks[c].user, Rights(asks[c].user) \cup {OnDatabase(c)})
          => OnDatabase(c) \in Rights(asks[c].user)'
    BY <2>1 DEF With, Rights
  <2> QED BY <2>1, <2>2, OneOn
<1>14. CASE GrantSchemas(c)
  <2>1. /\ Due(c, "schemagrants") /\ UNCHANGED <<asks, server>>
        /\ GoOn(c) \/ (\E says : End(c, says)) \/ UNCHANGED <<todo, answers>>
    BY <1>14 DEF GrantSchemas, GrantSchema
  <2>2. CASE UNCHANGED <<todo, answers>>
    BY <1>0, <2>1, <2>2 DEF Only, Shaped, TypeInv, Moves, Stays, Same
  <2> QED BY <2>1, <2>2, OneOn
<1>20. CASE ListSchemas(c)
  <2>1. Due(c, "schemas") /\ UNCHANGED <<asks, server>> BY <1>20 DEF ListSchemas
  <2>2. CASE There(c)
    <3>1. GoOn(c) /\ known' = [known EXCEPT ![c].grants = pgGrantSchemaTargets(c)]
      BY <1>20, <2>2 DEF ListSchemas
    <3>2. known'[c].grants = pgGrantSchemaTargets(c)
      BY <1>0, <3>1, Noted
    <3> QED BY <2>1, <2>2, <3>1, <3>2, OneOn
  <2>3. CASE ~There(c)
    <3>1. End(c, "error") BY <1>20, <2>3 DEF ListSchemas
    <3>2. Same(c) BY <1>0, <2>1 DEF Same, TypeInv
    <3> QED BY <1>0, <2>1, <3>1, <3>2, Ended DEF Only, Shaped, TypeInv, Moves
  <2> QED BY <2>2, <2>3
<1>21. CASE Survey(c)
  <2>1. Due(c, "survey") /\ UNCHANGED <<asks, server>> BY <1>21 DEF Survey
  <2>2. CASE End(c, "error") BY <2>1, <2>2, OneOn
  <2>3. CASE ~End(c, "error")
    <3>1. todo' = [todo EXCEPT ![c] = <<"rollback">>] /\ answers' = answers
      BY <1>21, <2>3 DEF Survey
    <3>2. Underway(c) /\ todo[c][1] = "survey" BY <2>1, DueStep
    <3>3. Turns(c) BY <1>0, <3>1, <3>2 DEF Turns, TypeInv
    <3> QED BY <1>0, <2>1, <3>1, <3>3 DEF Only, Shaped, TypeInv, Moves, Same
  <2> QED BY <2>2, <2>3
<1>15. CASE Load(c)
  <2>1. Due(c, "load") /\ UNCHANGED <<asks, server>> BY <1>15 DEF Load
  <2>2. \/ GoOn(c) \/ End(c, "error")
        \/ todo' = [todo EXCEPT ![c] = <<"survey">>] /\ answers' = answers
    BY <1>15 DEF Load
  <2>3. CASE GoOn(c) \/ End(c, "error") BY <2>1, <2>3, OneOn
  <2>4. CASE todo' = [todo EXCEPT ![c] = <<"survey">>] /\ answers' = answers
    <3>1. Underway(c) /\ todo[c][1] = "load" BY <2>1, DueStep
    <3>2. Turns(c) BY <1>0, <2>4, <3>1 DEF Turns, TypeInv
    <3> QED BY <1>0, <2>1, <2>4, <3>2 DEF Only, Shaped, TypeInv, Moves, Same
  <2> QED BY <2>2, <2>3, <2>4
<1>16. CASE rollbackDrop(c)
  <2>1. Due(c, "rollback") /\ UNCHANGED <<asks, server>> /\ End(c, "error")
    BY <1>16 DEF rollbackDrop
  <2> QED BY <2>1, OneOn
<1>17. CASE List(c)
  <2>1. /\ Due(c, "list") /\ UNCHANGED <<asks, answers, server>>
        /\ todo' = [todo EXCEPT ![c] = <<"inspect">>]
    BY <1>17 DEF List
  <2>2. Underway(c) /\ todo[c][1] = "list" BY <2>1, DueStep
  <2>3. Turns(c) BY <1>0, <2>1, <2>2 DEF Turns, TypeInv
  <2> QED BY <1>0, <2>1, <2>3 DEF Only, Shaped, TypeInv, Moves, Same
<1>18. CASE Inspect(c)
  <2>1. UNCHANGED <<asks, todo, answers, server>> BY <1>18 DEF Inspect
  <2> QED BY <1>0, <2>1 DEF Only, Shaped, TypeInv, Moves, Stays, Same
<1>19. CASE Finish(c) BY <1>19, OneOn DEF Finish
<1> QED BY <1>1, <1>2, <1>3, <1>4, <1>5, <1>6, <1>7, <1>8, <1>9, <1>10, <1>11, <1>12, <1>13,
     <1>14, <1>15, <1>16, <1>17, <1>18, <1>19, <1>20, <1>21 DEF Statement

LEMMA CallMoves ==
  ASSUME ServersInv, Next
  PROVE  /\ server' = server /\ Shaped
         /\ \A c \in Calls : Moves(c) /\ Same(c)
         /\ \A c \in Calls : Begins(c) \/ (Ends(c) /\ Start(c)) \/ ~Start(c)
<1>0. TypeInv /\ \A c \in Calls : asks'[c] = asks[c] => Same(c) BY DEF ServersInv, TypeInv, Same
<1>1. ASSUME NEW k \in Calls, Start(k) \/ Statement(k) \/ Break(k)
      PROVE  Only(k) /\ Moves(k) /\ Same(k) /\ server' = server
  <2>1. CASE Start(k)
    <3>1. /\ UNCHANGED <<asks, server>>
          /\ \/ /\ answers' = [answers EXCEPT ![k] = "refused"] /\ todo' = [todo EXCEPT ![k] = <<>>]
             \/ /\ asks[k].op = "ensure" => ~IsSystemDatabase(Asked(k))
                /\ todo' = [todo EXCEPT ![k] = Statements(asks[k])] /\ answers' = answers
      BY <2>1 DEF Start, Asked
    <3>2. Same(k) BY <1>0, <3>1
    <3>3. Only(k) BY <1>0, <3>1 DEF Only, Shaped, TypeInv
    <3>4. Ends(k) \/ Begins(k) BY <1>0, <2>1, <3>1 DEF Ends, Begins, TypeInv
    <3> QED BY <3>1, <3>2, <3>3, <3>4 DEF Moves
  <2>2. CASE Statement(k) BY <2>2, StatementMoves
  <2>3. CASE Break(k)
    <3>1. End(k, "error") /\ UNCHANGED <<asks, server>> BY <2>3 DEF Break
    <3>2. Ends(k) /\ Only(k) BY <1>0, <3>1, Ended DEF Only, Shaped, TypeInv
    <3> QED BY <1>0, <3>1, <3>2 DEF Moves
  <2> QED BY <1>1, <2>1, <2>2, <2>3
<1>2. ASSUME NEW k \in Calls, Start(k) \/ Statement(k) \/ Break(k)
      PROVE  Shaped /\ \A c \in Calls : Moves(c) /\ Same(c)
  BY <1>0, <1>1, <1>2 DEF Only, Moves, Stays
<1>3. ASSUME NEW name, NEW kind, NEW schema, Write(name, kind, schema)
      PROVE  server' = server /\ Shaped /\ \A c \in Calls : Moves(c) /\ Same(c)
  <2>1. UNCHANGED <<asks, todo, answers, server>> BY <1>3 DEF Write
  <2> QED BY <1>0, <2>1 DEF Moves, Stays, Shaped, TypeInv
<1>4. server' = server /\ Shaped /\ \A c \in Calls : Moves(c) /\ Same(c)
  BY <1>1, <1>2, <1>3 DEF Next
<1>5. ASSUME NEW c \in Calls, Start(c), ~Ends(c) PROVE Begins(c)
  <2>1. /\ asks[c].op = "ensure" => ~IsSystemDatabase(Asked(c))
        /\ todo' = [todo EXCEPT ![c] = Statements(asks[c])] /\ answers' = answers
    <3>1. \/ todo' = [todo EXCEPT ![c] = <<>>]
          \/ /\ asks[c].op = "ensure" => ~IsSystemDatabase(Asked(c))
             /\ todo' = [todo EXCEPT ![c] = Statements(asks[c])] /\ answers' = answers
      BY <1>5 DEF Start, Asked
    <3> QED BY <1>0, <1>5, <3>1 DEF Ends, TypeInv
  <2> QED BY <1>0, <1>5, <2>1 DEF Begins, TypeInv
<1> QED BY <1>4, <1>5

LEMMA PlacedKept ==
  ASSUME ServersInv, NEW c \in Calls, Moves(c), Same(c), server' = server
  PROVE  Placed(c)'
<1>0. /\ asks[c] \in Asking /\ asks'[c].op = asks[c].op /\ Engine \in Engines /\ Engine' = Engine
      /\ asks'[c] \in Asking /\ asks[c].op \in Ops /\ Placed(c)
      /\ Asked(c)' = Asked(c)
  BY DEF ServersInv, TypeInv, Asking, Same, Engine, Asked
<1>1. \A op, s : Planned(op, s)' <=> Planned(op, s)
  BY <1>0 DEF Planned, Follows, StepsOf, Ending, Leading, LastOfPrepare, SQL
<1>2. Underway(c)' <=> Planned(asks[c].op, todo'[c]) BY <1>0, <1>1 DEF Underway
<1>3. IsSystemDatabase(Asked(c))' = IsSystemDatabase(Asked(c)) BY <1>0 DEF IsSystemDatabase
<1>4. ASSUME Planned(asks[c].op, todo'[c]), answers'[c] = "none",
             asks[c].op = "ensure" => ~IsSystemDatabase(Asked(c))
      PROVE  Placed(c)'
  BY <1>0, <1>2, <1>3, <1>4 DEF Placed
<1>5. CASE Stays(c)
  <2>1. Underway(c)' <=> Underway(c) BY <1>2, <1>5 DEF Stays, Underway
  <2> QED BY <1>0, <1>3, <1>5, <2>1 DEF Placed, Stays, Waiting
<1>6. CASE Ends(c)
  <2>1. ~Underway(c)' BY <1>0, <1>2, <1>6, PlannedIs DEF Ends
  <2> QED BY <1>6, <2>1 DEF Placed, Ends
<1>7. ASSUME Underway(c)
      PROVE  answers[c] = "none" /\ (asks[c].op = "ensure" => ~IsSystemDatabase(Asked(c)))
  BY <1>0, <1>7, PlannedIs DEF Placed, Underway
<1>8. CASE Goes(c)
  <2>1. Planned(asks[c].op, todo'[c]) BY <1>8, PlannedTail DEF Goes, Underway
  <2> QED BY <1>4, <1>7, <1>8, <2>1 DEF Goes
<1>9. CASE Skips(c)
  <2> DEFINE s == todo[c]
  <2>1. Planned(asks[c].op, s) /\ s[1] = "connectable" BY <1>9 DEF Skips, Underway
  <2> HIDE DEF s
  <2>2. Len(s) > 2 /\ s \in Seq(Words) /\ Len(s) \in Nat BY <1>0, <2>1, PlannedIs
  <2>3. Len(s) > 1 /\ Len(s) > 0 BY <2>2
  <2>4. Planned(asks[c].op, Tail(s)) BY <2>1, <2>3, PlannedTail
  <2>5. Len(Tail(s)) > 1 BY <2>2, <2>3, Rest
  <2>6. Planned(asks[c].op, Tail(Tail(s))) BY <2>4, <2>5, PlannedTail
  <2> QED BY <1>4, <1>7, <1>9, <2>6 DEF Skips, s
<1>10. CASE Turns(c)
  <2>1. todo[c][1] \in StepsOf(asks[c].op) BY <1>0, <1>10, PlannedIs DEF Turns, Underway
  <2>2. Planned(asks[c].op, todo'[c])
    <3>1. CASE \/ todo[c][1] = "load" /\ todo'[c] = <<"survey">>
               \/ todo[c][1] = "survey" /\ todo'[c] = <<"rollback">>
      <4>1. asks[c].op = "migrate" BY <1>0, <2>1, <3>1 DEF StepsOf, Ops
      <4>2. {"survey", "rollback"} \subseteq (StepsOf("migrate") \ Leading) \cap Words
        BY DEF StepsOf, Leading, Words
      <4> QED BY <3>1, <4>1, <4>2, LastStep
    <3>2. CASE todo[c][1] = "list" /\ todo'[c] = <<"inspect">>
      <4>1. asks[c].op = "scan" BY <1>0, <2>1, <3>2 DEF StepsOf, Ops
      <4>2. "inspect" \in StepsOf("scan") /\ "inspect" \notin Leading /\ "inspect" \in Words
        BY DEF StepsOf, Leading, Words
      <4> QED BY <3>2, <4>1, <4>2, LastStep
    <3>3. CASE /\ todo[c][1] = "create" /\ asks[c].op = "ensure" /\ Engine = "postgresql"
               /\ todo'[c] = CreateDatabase(asks[c])
      <4>1. SQL BY <3>3 DEF SQL
      <4> QED BY <1>0, <3>3, <4>1, CreatePlanned
    <3> QED BY <1>10, <3>1, <3>2, <3>3 DEF Turns
  <2> QED BY <1>4, <1>7, <1>10, <2>2 DEF Turns
<1>11. CASE Begins(c)
  <2>1. answers[c] = "none" BY <1>11 DEF Begins, Start
  <2> QED BY <1>0, <1>4, <1>11, <2>1, StatementsPlanned DEF Begins
<1> QED BY <1>5, <1>6, <1>8, <1>9, <1>10, <1>11 DEF Moves

-----------------------------------------------------------------------------
(* What becomes of the databases and the rights in them *)

\* What a call may rely on only ever gets less.
Kept(c) ==
  /\ lasting'[c] \subseteq lasting[c] /\ before'[c].schemas \subseteq before[c].schemas
  /\ before'[c].objs \subseteq before[c].objs
RightsKept(c) ==
  Asked(c) \in lasting'[c] =>
    \A u : /\ OnDatabase(c) \in Rights(u) => OnDatabase(c) \in Rights(u)'
           /\ \A s \in before'[c].schemas : OnSchema(c, s) \in Rights(u) => OnSchema(c, s) \in Rights(u)'
DataKept ==
  DatabasesTyped' /\ \A c \in Calls : Standing(c)' /\ (Start(c) \/ Kept(c)) /\ RightsKept(c)

LEMMA Unmoved ==
  ASSUME ServersInv, server' = server, \A c \in Calls : Asked(c)' = Asked(c),
         UNCHANGED <<dbs, before, lasting>>, \A c \in Calls : RightsKept(c)
  PROVE  DataKept
<1>1. DatabasesTyped' BY DEF ServersInv, TypeInv, DatabasesTyped
<1>2. Engine' = Engine BY DEF Engine
<1>3. \A c \in Calls : Standing(c)' BY <1>2 DEF ServersInv, Standing
<1>4. \A c \in Calls : Kept(c) BY DEF Kept
<1> QED BY <1>1, <1>3, <1>4 DEF DataKept

LEMMA SameRights == ASSUME users' = users PROVE \A c \in Calls : RightsKept(c)
BY DEF RightsKept, Rights

LEMMA MoreRights ==
  ASSUME NEW u, NEW what, users' = With(users, u, Rights(u) \cup what)
  PROVE  \A c \in Calls : RightsKept(c)
BY DEF RightsKept, Rights, With

LEMMA Grown ==
  ASSUME ServersInv, server' = server, \A c \in Calls : Asked(c)' = Asked(c),
         UNCHANGED <<before, lasting, users>>,
         NEW name \in Names, NEW what, IsDatabase(what),
         \A o \in what.objs : ~IsSystemSchema(o.schema),
         dbs' = With(dbs, name, what),
         name \in DOMAIN dbs => dbs[name].objs \subseteq what.objs,
         name \in DOMAIN dbs /\ Engine = "postgresql" => dbs[name].schemas \subseteq what.schemas
  PROVE  DataKept
<1>0. DatabasesTyped BY DEF ServersInv, TypeInv
<1>1. /\ DOMAIN dbs' = DOMAIN dbs \cup {name} /\ dbs' = [n \in DOMAIN dbs' |-> dbs'[n]]
      /\ \A n \in DOMAIN dbs' : dbs'[n] = IF n = name THEN what ELSE dbs[n]
  BY DEF With
<1>2. DatabasesTyped'
  <2>1. \A n \in DOMAIN dbs' : IsDatabase(dbs'[n]) /\ \A o \in dbs'[n].objs : ~IsSystemSchema(o.schema)
    BY <1>0, <1>1 DEF DatabasesTyped
  <2>2. DOMAIN dbs' \subseteq Names BY <1>0, <1>1 DEF DatabasesTyped
  <2> QED BY <1>0, <1>1, <2>1, <2>2 DEF DatabasesTyped, IsDatabase
<1>3. Engine' = Engine BY DEF Engine
<1>4. ASSUME NEW c \in Calls PROVE Standing(c)'
  <2>1. Standing(c) BY DEF ServersInv
  <2>2. lasting[c] \subseteq DOMAIN dbs' BY <1>1, <2>1 DEF Standing
  <2>3. ASSUME Asked(c) \in lasting[c]
        PROVE  /\ Engine = "postgresql" => before[c].schemas \subseteq dbs'[Asked(c)].schemas
               /\ before[c].objs \subseteq dbs'[Asked(c)].objs
    <3>1. /\ Engine = "postgresql" => before[c].schemas \subseteq dbs[Asked(c)].schemas
          /\ before[c].objs \subseteq dbs[Asked(c)].objs /\ Asked(c) \in DOMAIN dbs
      BY <2>1, <2>3 DEF Standing
    <3> QED BY <1>1, <3>1
  <2> QED BY <1>3, <2>2, <2>3 DEF Standing
<1>5. \A c \in Calls : Kept(c) BY DEF Kept
<1> QED BY <1>2, <1>4, <1>5, SameRights DEF DataKept

LEMMA Shrunk ==
  ASSUME ServersInv, server' = server, \A c \in Calls : Asked(c)' = Asked(c),
         DatabasesTyped', \A c \in Calls : RightsKept(c), \A c \in Calls : Kept(c),
         \A c \in Calls : lasting'[c] \subseteq DOMAIN dbs',
         \A c \in Calls : Asked(c) \in lasting'[c] =>
            /\ \A s \in dbs[Asked(c)].schemas \ dbs'[Asked(c)].schemas : s \notin before'[c].schemas
            /\ \A o \in dbs[Asked(c)].objs \ dbs'[Asked(c)].objs : o \notin before'[c].objs
  PROVE  DataKept
<1>1. Engine' = Engine BY DEF Engine
<1>2. ASSUME NEW c \in Calls PROVE Standing(c)'
  <2>1. Standing(c) BY DEF ServersInv
  <2>2. ASSUME Asked(c) \in lasting'[c]
        PROVE  /\ Engine = "postgresql" => before'[c].schemas \subseteq dbs'[Asked(c)].schemas
               /\ before'[c].objs \subseteq dbs'[Asked(c)].objs
    <3>1. /\ Asked(c) \in lasting[c] /\ before'[c].schemas \subseteq before[c].schemas
          /\ before'[c].objs \subseteq before[c].objs
      BY <2>2 DEF Kept
    <3>2. /\ Engine = "postgresql" => before[c].schemas \subseteq dbs[Asked(c)].schemas
          /\ before[c].objs \subseteq dbs[Asked(c)].objs
      BY <2>1, <3>1 DEF Standing
    <3> QED BY <2>2, <3>1, <3>2
  <2> QED BY <1>1, <2>2 DEF Standing
<1> QED BY <1>2 DEF DataKept

LEMMA StartKeeps ==
  ASSUME ServersInv, NEW k \in Calls, Start(k) PROVE DataKept
<1>0. DatabasesTyped BY DEF ServersInv, TypeInv
<1>1. /\ UNCHANGED <<server, dbs, users, asks>>
      /\ before' = [before EXCEPT ![k] = IF There(k) THEN dbs[Asked(k)] ELSE Empty]
      /\ lasting' = [lasting EXCEPT ![k] = DOMAIN dbs]
  BY DEF Start
<1>2. IsDatabase(Empty) BY DEF IsDatabase, Empty
<1>3. DatabasesTyped' BY <1>0, <1>1, <1>2 DEF DatabasesTyped, There, IsDatabase
<1>4. Engine' = Engine /\ \A c : Asked(c)' = Asked(c) BY <1>1 DEF Engine, Asked
<1>5. ASSUME NEW c \in Calls PROVE Standing(c)' /\ (Start(c) \/ Kept(c))
  <2>1. CASE c = k
    <3>1. lasting'[c] = DOMAIN dbs /\ (There(c) => before'[c] = dbs[Asked(c)])
      BY <1>0, <1>1, <2>1 DEF DatabasesTyped
    <3> QED BY <1>1, <1>4, <2>1, <3>1 DEF Standing, There
  <2>2. CASE c # k
    <3>1. lasting'[c] = lasting[c] /\ before'[c] = before[c] BY <1>0, <1>1, <2>2 DEF DatabasesTyped
    <3> QED BY <1>1, <1>4, <3>1 DEF Standing, Kept, ServersInv
  <2> QED BY <2>1, <2>2
<1> QED BY <1>1, <1>3, <1>5, SameRights DEF DataKept

LEMMA CreateKeeps ==
  ASSUME ServersInv, NEW k \in Calls, CreateDDL(k) PROVE DataKept
<1>0. DatabasesTyped /\ Asked(k) \in Names BY DEF ServersInv, TypeInv, Asked, Asking
<1>1. UNCHANGED <<server, asks, users, before, lasting>> BY DEF CreateDDL, Writes
<1>2. \A c : Asked(c)' = Asked(c) BY <1>1 DEF Asked
<1>3. CASE dbs' = dbs BY <1>1, <1>2, <1>3, Unmoved, SameRights
<1>4. CASE dbs' # dbs
  <2> DEFINE what == [Made(k) EXCEPT !.objs = @ \cup Collections(k)]
  <2>1. ~(SQL /\ There(k)) /\ dbs' = With(dbs, Asked(k), what) BY <1>4 DEF CreateDDL
  <2>0. /\ Made(k) = [schemas |-> Made(k).schemas, objs |-> Made(k).objs]
        /\ \A o \in Made(k).objs : ~IsSystemSchema(o.schema)
    <3>1. CASE SQL
      <4>1. Made(k) = [schemas |-> {"public"}, objs |-> {}] BY <3>1 DEF Made, Empty
      <4> QED BY <4>1
    <3>2. CASE ~SQL
      <4> DEFINE o == [kind |-> "table", schema |-> "", by |-> k]
      <4>1. Made(k) = [schemas |-> {}, objs |-> {o}] BY <3>2 DEF Made
      <4>2. ~IsSystemSchema(o.schema) BY DEF IsSystemSchema
      <4> HIDE DEF o
      <4> QED BY <4>1, <4>2
    <3> QED BY <3>1, <3>2
  <2>2. what.objs = Made(k).objs \cup Collections(k) /\ IsDatabase(what)
    BY <2>0 DEF IsDatabase
  <2>3. \A o \in Collections(k) : ~IsSystemSchema(o.schema)
    BY <1>0 DEF Collections, There, DatabasesTyped
  <2>5. Asked(k) \in DOMAIN dbs => dbs[Asked(k)].objs = Collections(k) /\ Engine # "postgresql"
    BY <2>1 DEF Collections, There, SQL
  <2> HIDE DEF what
  <2> QED BY <1>0, <1>1, <1>2, <2>0, <2>1, <2>2, <2>3, <2>5, Grown
<1> QED BY <1>3, <1>4

LEMMA DropKeeps ==
  ASSUME ServersInv, NEW k \in Calls, DropDDL(k) PROVE DataKept
<1>0. DatabasesTyped BY DEF ServersInv, TypeInv
<1>1. UNCHANGED <<server, asks, before>> BY DEF DropDDL, Writes
<1>2. \A c : Asked(c)' = Asked(c) BY <1>1 DEF Asked
<1>3. CASE ~There(k)
  <2>1. UNCHANGED <<dbs, lasting, users>> BY <1>3 DEF DropDDL
  <2> QED BY <1>1, <1>2, <2>1, Unmoved, SameRights
<1>4. CASE There(k)
  <2>1. /\ dbs' = Without(dbs, Asked(k))
        /\ lasting' = [c \in Calls |-> lasting[c] \ {Asked(k)}]
        /\ users' = IF Engine # "postgresql" THEN users
                    ELSE [u \in DOMAIN users |-> {r \in users[u] : r.database # Asked(k)}]
    BY <1>4 DEF DropDDL
  <2>2. /\ DOMAIN dbs' = DOMAIN dbs \ {Asked(k)} /\ dbs' = [n \in DOMAIN dbs' |-> dbs'[n]]
        /\ \A n \in DOMAIN dbs' : dbs'[n] = dbs[n]
    BY <2>1 DEF Without
  <2>3. DatabasesTyped'
    <3>1. \A n \in DOMAIN dbs' :
            IsDatabase(dbs'[n]) /\ \A o \in dbs'[n].objs : ~IsSystemSchema(o.schema)
      BY <1>0, <2>2 DEF DatabasesTyped
    <3>2. DOMAIN dbs' \subseteq Names BY <1>0, <2>2 DEF DatabasesTyped
    <3>3. lasting' = [c \in Calls |-> lasting'[c]] BY <2>1
    <3> QED BY <1>0, <1>1, <2>2, <3>1, <3>2, <3>3 DEF DatabasesTyped, IsDatabase
  <2>4. ASSUME NEW c \in Calls PROVE Kept(c) /\ lasting'[c] \subseteq DOMAIN dbs'
    <3>1. lasting'[c] = lasting[c] \ {Asked(k)} BY <2>1
    <3>2. lasting[c] \subseteq DOMAIN dbs BY DEF ServersInv, Standing
    <3> QED BY <1>1, <2>2, <3>1, <3>2 DEF Kept
  <2>5. ASSUME NEW c \in Calls PROVE RightsKept(c)
    <3>1. ASSUME Asked(c) \in lasting'[c], NEW u, NEW r \in Rights(u), r.database = Asked(c)
          PROVE  r \in Rights(u)'
      <4>1. Asked(c) # Asked(k) BY <2>1, <3>1
      <4>2. u \in DOMAIN users /\ r \in users[u] BY <3>1 DEF Rights
      <4>3. u \in DOMAIN users' /\ r \in users'[u] BY <2>1, <3>1, <4>1, <4>2
      <4> QED BY <4>3 DEF Rights
    <3>2. OnDatabase(c).database = Asked(c) /\ \A s : OnSchema(c, s).database = Asked(c)
      BY DEF OnDatabase, OnSchema
    <3> QED BY <1>2, <3>1, <3>2 DEF RightsKept
  <2>6. ASSUME NEW c \in Calls, Asked(c) \in lasting'[c] PROVE dbs'[Asked(c)] = dbs[Asked(c)]
    BY <2>2, <2>4, <2>6
  <2> QED BY <1>1, <1>2, <2>3, <2>4, <2>5, <2>6, Shrunk
<1> QED BY <1>3, <1>4

LEMMA LoadKeeps ==
  ASSUME ServersInv, NEW k \in Calls, Load(k) PROVE DataKept
<1>0. /\ DatabasesTyped /\ Asked(k) \in Names
      /\ \A s \in asks[k].schemas : ~IsSystemSchema(s)
  BY DEF ServersInv, TypeInv, Asked, Asking
<1>1. UNCHANGED <<server, asks, users, before, lasting>> BY DEF Load, Writes
<1>2. \A c : Asked(c)' = Asked(c) BY <1>1 DEF Asked
<1>3. CASE dbs' = dbs BY <1>1, <1>2, <1>3, Unmoved, SameRights
<1>4. CASE dbs' # dbs
  <2> DEFINE what == [schemas |-> (IF There(k) THEN dbs[Asked(k)].schemas ELSE {})
                                   \cup asks[k].schemas,
                      objs    |-> Collections(k) \cup Filled(k)]
  <2>1. dbs' = With(dbs, Asked(k), what) BY <1>4 DEF Load
  <2>2. what.objs = Collections(k) \cup Filled(k) /\ IsDatabase(what) BY DEF IsDatabase
  <2>3. \A o \in Collections(k) : ~IsSystemSchema(o.schema)
    BY <1>0 DEF Collections, There, DatabasesTyped
  <2>4. \A o \in Filled(k) : ~IsSystemSchema(o.schema)
    <3> DEFINE into == IF Engine = "postgresql" THEN Wanted(k) ELSE {""}
    <3>1. \A x \in into : ~IsSystemSchema(x)
      <4>1. ~IsSystemSchema("") /\ ~IsSystemSchema("public") BY Zenon DEF IsSystemSchema
      <4> QED BY <1>0, <4>1, Zenon DEF Wanted
    <3>2. Filled(k) = [kind : {"table"}, schema : into, by : {k}] BY Zenon DEF Filled
    <3> HIDE DEF into
    <3>3. \A o \in Filled(k) : o.schema \in into BY <3>2
    <3> QED BY <3>1, <3>3
  <2>5. Asked(k) \in DOMAIN dbs =>
          dbs[Asked(k)].objs = Collections(k) /\ dbs[Asked(k)].schemas \subseteq what.schemas
    BY DEF Collections, There
  <2> HIDE DEF what
  <2> QED BY <1>0, <1>1, <1>2, <2>1, <2>2, <2>3, <2>4, <2>5, Grown
<1> QED BY <1>3, <1>4

LEMMA Apart == \A d, e, s : [database |-> d] # [database |-> e, schema |-> s]
<1> SUFFICES ASSUME NEW d, NEW e, NEW s PROVE [database |-> d] # [database |-> e, schema |-> s]
  OBVIOUS
<1>1. DOMAIN [database |-> d] = {"database"} OBVIOUS
<1>2. DOMAIN [database |-> e, schema |-> s] = {"database", "schema"} OBVIOUS
<1>3. "schema" # "database" OBVIOUS
<1> QED BY <1>1, <1>2, <1>3

LEMMA DroppedIs ==
  ASSUME NEW db, NEW objs, NEW schemas, IsDatabase(db)
  PROVE  LET left == Dropped(db, objs, schemas) IN
         /\ IsDatabase(left) /\ left.objs \subseteq db.objs
         /\ left.schemas = db.schemas \ schemas
         /\ left.objs = {o \in db.objs : o \notin objs /\ o.schema \notin schemas}
BY DEF Dropped, IsDatabase

LEMMA TeardownKeeps ==
  ASSUME ServersInv, NEW k \in Calls, NEW schemas, There(k), Teardown(k, schemas),
         UNCHANGED <<server, asks>>
  PROVE  DataKept
<1>0. DatabasesTyped BY DEF ServersInv, TypeInv
<1>2. /\ \A c : Asked(c)' = Asked(c)
      /\ \A c, s : OnDatabase(c)' = OnDatabase(c) /\ OnSchema(c, s)' = OnSchema(c, s)
  BY DEF Asked, OnDatabase, OnSchema
<1> DEFINE objs == known[k].objs
           left(db) == Dropped(db, objs, schemas)
           revoked == {OnSchema(k, s) : s \in schemas}
<1>3. /\ \/ dbs' = Without(dbs, Asked(k))
         \/ dbs' = [dbs EXCEPT ![Asked(k)] = left(dbs[Asked(k)])]
      /\ users' = [u \in DOMAIN users |-> users[u] \ revoked]
      /\ before' = [c \in Calls |-> IF Asked(c) = Asked(k) THEN left(before[c]) ELSE before[c]]
      /\ lasting' = [c \in Calls |-> lasting[c] \cap DOMAIN dbs']
  BY DEF Teardown
<1>4. ASSUME NEW c \in Calls
      PROVE  /\ Kept(c) /\ IsDatabase(before'[c]) /\ lasting'[c] \subseteq DOMAIN dbs'
             /\ Asked(c) = Asked(k) => before'[c] = left(before[c])
  <2>1. lasting'[c] = lasting[c] \cap DOMAIN dbs' BY <1>3
  <2>2. IsDatabase(before[c]) BY <1>0 DEF DatabasesTyped
  <2>3. CASE Asked(c) = Asked(k)
    <3>1. before'[c] = left(before[c]) BY <1>3, <2>3
    <3>2. /\ IsDatabase(left(before[c])) /\ left(before[c]).objs \subseteq before[c].objs
          /\ left(before[c]).schemas \subseteq before[c].schemas
      BY <2>2, DroppedIs
    <3> QED BY <2>1, <3>1, <3>2 DEF Kept
  <2>4. CASE Asked(c) # Asked(k)
    <3>1. before'[c] = before[c] BY <1>3, <2>4
    <3> QED BY <2>1, <2>2, <2>4, <3>1 DEF Kept
  <2> QED BY <2>3, <2>4
<1>5. /\ DOMAIN dbs' \subseteq DOMAIN dbs /\ dbs' = [n \in DOMAIN dbs' |-> dbs'[n]]
      /\ \A n \in DOMAIN dbs' : dbs'[n] = IF n = Asked(k) THEN left(dbs[n]) ELSE dbs[n]
  <2>1. CASE dbs' = Without(dbs, Asked(k)) BY <2>1 DEF Without
  <2>2. CASE dbs' = [dbs EXCEPT ![Asked(k)] = left(dbs[Asked(k)])] BY <2>2 DEF There
  <2> QED BY <1>3, <2>1, <2>2
<1>6. \A n \in DOMAIN dbs' : IsDatabase(dbs'[n]) /\ dbs'[n].objs \subseteq dbs[n].objs
  <2> SUFFICES ASSUME NEW n \in DOMAIN dbs'
               PROVE  IsDatabase(dbs'[n]) /\ dbs'[n].objs \subseteq dbs[n].objs
    OBVIOUS
  <2>1. IsDatabase(dbs[n]) BY <1>0, <1>5 DEF DatabasesTyped
  <2>2. IsDatabase(left(dbs[n])) /\ left(dbs[n]).objs \subseteq dbs[n].objs BY <2>1, DroppedIs
  <2> QED BY <1>5, <2>1, <2>2
<1>7. DatabasesTyped'
  <2>1. \A n \in DOMAIN dbs' : \A o \in dbs'[n].objs : ~IsSystemSchema(o.schema)
    BY <1>0, <1>5, <1>6 DEF DatabasesTyped
  <2>2. DOMAIN dbs' \subseteq Names BY <1>0, <1>5 DEF DatabasesTyped
  <2>3. lasting' = [c \in Calls |-> lasting'[c]] /\ before' = [c \in Calls |-> before'[c]]
    BY <1>3
  <2> QED BY <1>4, <1>5, <1>6, <2>1, <2>2, <2>3 DEF DatabasesTyped, IsDatabase
<1>8. ASSUME NEW c \in Calls, Asked(c) \in lasting'[c]
      PROVE  /\ \A s \in dbs[Asked(c)].schemas \ dbs'[Asked(c)].schemas : s \notin before'[c].schemas
             /\ \A o \in dbs[Asked(c)].objs \ dbs'[Asked(c)].objs : o \notin before'[c].objs
  <2>1. Asked(c) \in DOMAIN dbs' /\ IsDatabase(before[c]) /\ IsDatabase(dbs[Asked(c)])
    BY <1>0, <1>4, <1>5, <1>8 DEF DatabasesTyped
  <2>2. CASE Asked(c) # Asked(k) BY <1>5, <2>1, <2>2
  <2>3. CASE Asked(c) = Asked(k)
    <3>1. dbs'[Asked(c)] = left(dbs[Asked(c)]) /\ before'[c] = left(before[c])
      BY <1>4, <1>5, <2>1, <2>3
    <3>2. /\ left(dbs[Asked(c)]).schemas = dbs[Asked(c)].schemas \ schemas
          /\ left(before[c]).schemas = before[c].schemas \ schemas
      BY <2>1, DroppedIs
    <3>3. /\ left(dbs[Asked(c)]).objs
               = {o \in dbs[Asked(c)].objs : o \notin objs /\ o.schema \notin schemas}
          /\ left(before[c]).objs
               = {o \in before[c].objs : o \notin objs /\ o.schema \notin schemas}
      BY <2>1, DroppedIs
    <3> QED BY <3>1, <3>2, <3>3
  <2> QED BY <2>2, <2>3
<1>9. ASSUME NEW c \in Calls PROVE RightsKept(c)
  <2>1. ASSUME NEW u, NEW r \in Rights(u), r \notin revoked PROVE r \in Rights(u)'
    <3>1. u \in DOMAIN users /\ r \in users[u] BY <2>1 DEF Rights
    <3>2. u \in DOMAIN users' /\ r \in users'[u] BY <1>3, <2>1, <3>1
    <3> QED BY <3>2 DEF Rights
  <2>2. OnDatabase(c) \notin revoked BY Apart DEF OnDatabase, OnSchema
  <2>3. ASSUME NEW s \in before'[c].schemas PROVE OnSchema(c, s) \notin revoked
    <3>1. SUFFICES ASSUME NEW t \in schemas, OnSchema(c, s) = OnSchema(k, t) PROVE FALSE
      OBVIOUS
    <3>2. s = OnSchema(c, s).schema /\ Asked(c) = OnSchema(c, s).database
          /\ t = OnSchema(k, t).schema /\ Asked(k) = OnSchema(k, t).database
      BY DEF OnSchema
    <3>3. s = t /\ Asked(c) = Asked(k) BY <3>1, <3>2
    <3>4. before'[c] = left(before[c]) /\ IsDatabase(before[c])
      BY <1>0, <1>4, <3>3 DEF DatabasesTyped
    <3>5. left(before[c]).schemas = before[c].schemas \ schemas BY <3>4, DroppedIs
    <3> QED BY <2>3, <3>3, <3>4, <3>5
  <2> HIDE DEF revoked
  <2> QED BY <1>2, <2>1, <2>2, <2>3 DEF RightsKept
<1> QED BY <1>2, <1>4, <1>7, <1>8, <1>9, Shrunk

LEMMA RollbackKeeps ==
  ASSUME ServersInv, NEW k \in Calls, rollbackDrop(k) PROVE DataKept
<1>1. UNCHANGED <<server, asks>> /\ \E schemas : Teardown(k, schemas) BY DEF rollbackDrop
<1>2. CASE There(k) BY <1>1, <1>2, TeardownKeeps
<1>3. CASE ~There(k)
  <2>1. UNCHANGED <<dbs, users, before, lasting>> BY <1>1, <1>3 DEF Teardown
  <2>2. \A c \in Calls : Asked(c)' = Asked(c) BY <1>1 DEF Asked
  <2> QED BY <1>1, <2>1, <2>2, Unmoved, SameRights
<1> QED BY <1>2, <1>3

LEMMA WriteKeeps ==
  ASSUME ServersInv, NEW name \in Names, NEW kind, NEW schema \in {"", "public", "s"},
         Write(name, kind, schema)
  PROVE  DataKept
<1>0. DatabasesTyped BY DEF ServersInv, TypeInv
<1>1. UNCHANGED <<server, asks, users, before, lasting>> BY DEF Write
<1>2. \A c : Asked(c)' = Asked(c) BY <1>1 DEF Asked
<1> DEFINE db == IF name \in DOMAIN dbs THEN dbs[name] ELSE [schemas |-> {}, objs |-> {}]
           new == [kind |-> kind, schema |-> schema, by |-> "client"]
           what == [schemas |-> db.schemas \cup ({schema} \ {""}), objs |-> db.objs \cup {new}]
<1>3. dbs' = With(dbs, name, what) BY DEF Write
<1>4. IsDatabase(what) /\ what.objs = db.objs \cup {new} BY DEF IsDatabase
<1>5. \A o \in db.objs : ~IsSystemSchema(o.schema) BY <1>0 DEF DatabasesTyped
<1>6. ~IsSystemSchema(new.schema) BY DEF IsSystemSchema
<1>7. name \in DOMAIN dbs => dbs[name].schemas \subseteq what.schemas /\ dbs[name].objs = db.objs
  OBVIOUS
<1> HIDE DEF db, new, what
<1>8. \A o \in what.objs : ~IsSystemSchema(o.schema) BY <1>4, <1>5, <1>6
<1> QED BY <1>1, <1>2, <1>3, <1>4, <1>7, <1>8, Grown

LEMMA NextKeeps ==
  ASSUME ServersInv, Next PROVE DataKept
<1>1. server' = server /\ \A c \in Calls : Asked(c)' = Asked(c)
  BY CallMoves DEF Same, Asked
<1>2. ASSUME NEW k \in Calls, Statement(k) PROVE DataKept
  <2>1. CASE \/ IfAbsent(k) \/ IfPresent(k) \/ Connectable(k) \/ Count(k) \/ Role(k) \/ Ensure(k)
             \/ Terminate(k) \/ Busy(k) \/ Finish(k) \/ ListSchemas(k) \/ Survey(k)
    <3>1. UNCHANGED <<dbs, before, lasting, users>>
      BY <2>1 DEF IfAbsent, IfPresent, Connectable, Count, Role, Ensure, Terminate, Busy, Finish,
         ListSchemas, Survey, Reads
    <3> QED BY <1>1, <3>1, Unmoved, SameRights
  <2>2. CASE NoSuchLocale(k) \/ List(k) \/ Inspect(k)
    <3>1. UNCHANGED <<dbs, before, lasting, users>> BY <2>2 DEF NoSuchLocale, List, Inspect
    <3> QED BY <1>1, <3>1, Unmoved, SameRights
  <2>3. CASE CreateUser(k) \/ Grant(k) \/ GrantSchemas(k)
    <3>1. UNCHANGED <<dbs, before, lasting>>
      BY <2>3 DEF CreateUser, Grant, GrantSchemas, GrantSchema, Writes, Reads
    <3>2. users' = users \/ \E u, what : users' = With(users, u, Rights(u) \cup what)
      BY <2>3 DEF CreateUser, Grant, GrantSchemas, GrantSchema, Reads
    <3> QED BY <1>1, <3>1, <3>2, Unmoved, SameRights, MoreRights
  <2> QED BY <1>2, <2>1, <2>2, <2>3, CreateKeeps, DropKeeps, LoadKeeps, RollbackKeeps DEF Statement
<1>3. ASSUME NEW k \in Calls, Break(k) PROVE DataKept
  <2>1. UNCHANGED <<dbs, before, lasting, users>> BY <1>3 DEF Break
  <2> QED BY <1>1, <2>1, Unmoved, SameRights
<1> QED BY <1>2, <1>3, StartKeeps, WriteKeeps DEF Next

-----------------------------------------------------------------------------
(* Behind a count, behind a grant *)

LEMMA StillUnderway ==
  ASSUME NEW c \in Calls, Same(c), server' = server
  PROVE  Underway(c)' <=> Planned(asks[c].op, todo'[c])
<1>1. asks'[c].op = asks[c].op /\ Engine' = Engine BY DEF Same, Engine
<1>2. \A op, s : Planned(op, s)' <=> Planned(op, s)
  BY <1>1 DEF Planned, Follows, StepsOf, Ending, Leading, LastOfPrepare, SQL
<1> QED BY <1>1, <1>2 DEF Underway

LEMMA OldShrinks ==
  ASSUME NEW c \in Calls, Same(c), Kept(c), server' = server
  PROVE  OldTables(c)' \subseteq OldTables(c)
<1>1. Engine' = Engine BY DEF Engine
<1> QED BY <1>1 DEF OldTables, Same, Kept

LEMMA OldAreCounted ==
  ASSUME ServersInv, NEW c \in Calls, Asked(c) \in lasting[c],
         Counted(dbs[Asked(c)], asks[c]) = {}
  PROVE  OldTables(c) = {}
<1>1. /\ Asked(c) \in DOMAIN dbs /\ before[c].objs \subseteq dbs[Asked(c)].objs
      /\ \A o \in dbs[Asked(c)].objs : ~IsSystemSchema(o.schema)
  BY DEF ServersInv, Standing, TypeInv, DatabasesTyped
<1>2. Engine \in Engines BY DEF ServersInv, TypeInv
<1>3. SUFFICES ASSUME NEW t \in OldTables(c) PROVE t \in Counted(dbs[Asked(c)], asks[c])
  OBVIOUS
<1>4. /\ t \in dbs[Asked(c)].objs /\ t.kind = "table" /\ ~IsSystemSchema(t.schema)
      /\ Engine = "postgresql" /\ asks[c].schemas # {} => t.schema \in asks[c].schemas
  BY <1>1 DEF OldTables
<1>5. CASE Engine = "postgresql"
  BY <1>4, <1>5 DEF Counted, pgTargetTableCountQuery
<1>6. CASE Engine \in {"mysql", "mariadb"}
  BY <1>4, <1>6 DEF Counted, mysqlCount, mariadbCount
<1>7. CASE Engine = "mongodb"
  BY <1>4, <1>7 DEF Counted, mongoCount, excludeMongoSystemCollections
<1> QED BY <1>2, <1>5, <1>6, <1>7 DEF Engines

\* A mark still ahead of a call whose plan has moved on was ahead before,
\* unless it was just passed.
LEMMA Behind ==
  ASSUME ServersInv, NEW c \in Calls, NEW w \in {"count", "grant", "schemas"},
         Moves(c), Same(c), server' = server, ~Start(c), Underway(c)',
         Asked(c) \in lasting[c], asks[c].op \in {"drop", "migrate", "prepare"},
         ~Has(todo'[c], w)
  PROVE  /\ Underway(c)
         /\ ~Has(todo[c], w) \/ (Goes(c) /\ todo[c][1] = w)
<1>0. asks[c] \in Asking /\ asks[c].op \in Ops /\ Standing(c)
  BY DEF ServersInv, TypeInv, Asking
<1>1. Planned(asks[c].op, todo'[c]) BY StillUnderway
<1>2. CASE Stays(c)
  <2>1. todo'[c] = todo[c] BY <1>2 DEF Stays
  <2> QED BY <1>1, <2>1 DEF Underway
<1>3. CASE Ends(c) BY <1>0, <1>1, <1>3, PlannedIs DEF Ends
<1>4. CASE Goes(c)
  <2>1. Underway(c) /\ todo'[c] = Tail(todo[c]) BY <1>4 DEF Goes
  <2>2. todo[c] \in Seq(Words) /\ Len(todo[c]) > 0 BY <2>1 DEF Underway, Planned
  <2>3. Has(todo[c], w) /\ todo[c][1] # w => Has(todo'[c], w) BY <2>1, <2>2, HasLeft
  <2> QED BY <1>4, <2>1, <2>3
<1>5. CASE Skips(c) BY <1>0, <1>5 DEF Skips, Standing, There
<1>6. CASE Turns(c)
  <2>1. Underway(c) /\ todo[c][1] \in {"load", "survey", "list", "create"} BY <1>6 DEF Turns
  <2>2. /\ todo[c][1] \in StepsOf(asks[c].op) /\ Len(todo[c]) = 1 /\ todo[c] \in Seq(Words)
    BY <1>0, <2>1, PlannedIs DEF Underway, Ending
  <2>3. ~Has(todo[c], w)
    <3>1. \A i \in 1 .. Len(todo[c]) : i = 1 BY <2>2
    <3> QED BY <2>1, <3>1 DEF Has
  <2> QED BY <2>1, <2>3
<1>7. CASE Begins(c) BY <1>7 DEF Begins
<1> QED BY <1>2, <1>3, <1>4, <1>5, <1>6, <1>7 DEF Moves

LEMMA EmptiedKept ==
  ASSUME ServersInv, NEW c \in Calls, Moves(c), Same(c), server' = server,
         Start(c) \/ Kept(c), Begins(c) \/ (Ends(c) /\ Start(c)) \/ ~Start(c)
  PROVE  Emptied(c)'
<1>0. /\ asks[c] \in Asking /\ asks[c].op \in Ops /\ Engine \in Engines /\ Asked(c)' = Asked(c)
  BY DEF ServersInv, TypeInv, Asking, Same, Asked
<1>1. SUFFICES ASSUME Underway(c)', Careful(c), Asked(c) \in lasting'[c], ~Has(todo'[c], "count")
               PROVE  OldTables(c)' = {}
  <2>1. Careful(c)' = Careful(c) BY DEF Careful, Same
  <2> QED BY <1>0, <2>1 DEF Emptied, Has
<1>2. CASE Start(c)
  <2>1. CASE Ends(c)
    <3>1. Planned(asks[c].op, todo'[c]) BY <1>1, StillUnderway
    <3> QED BY <1>0, <2>1, <3>1, PlannedIs DEF Ends
  <2>2. CASE Begins(c)
    <3>1. Has(todo'[c], "count") BY <1>0, <1>1, <2>2, StatementsPlanned DEF Begins, Careful
    <3> QED BY <1>1, <3>1
  <2> QED BY <1>2, <2>1, <2>2
<1>3. CASE ~Start(c)
  <2>1. Kept(c) /\ Asked(c) \in lasting[c] BY <1>1, <1>3 DEF Kept
  <2>2. asks[c].op \in {"drop", "migrate", "prepare"} BY <1>1 DEF Careful
  <2>3. Underway(c) /\ (~Has(todo[c], "count") \/ (Goes(c) /\ todo[c][1] = "count"))
    BY <1>1, <1>3, <2>1, <2>2, Behind
  <2>4. OldTables(c) = {}
    <3>1. CASE ~Has(todo[c], "count") BY <1>1, <2>1, <2>3, <3>1 DEF ServersInv, Emptied
    <3>2. CASE Goes(c) /\ todo[c][1] = "count"
      <4>1. There(c) BY <2>1 DEF ServersInv, Standing, There
      <4> QED BY <2>1, <3>2, <4>1, OldAreCounted DEF Goes
    <3> QED BY <2>3, <3>1, <3>2
  <2> QED BY <2>1, <2>4, OldShrinks
<1> QED BY <1>2, <1>3

LEMMA GrantedKept ==
  ASSUME ServersInv, NEW c \in Calls, Moves(c), Same(c), server' = server, RightsKept(c),
         Start(c) \/ Kept(c), Begins(c) \/ (Ends(c) /\ Start(c)) \/ ~Start(c)
  PROVE  Granted(c)'
<1>0. /\ asks[c] \in Asking /\ asks[c].op \in Ops /\ Engine \in Engines /\ Asked(c)' = Asked(c)
      /\ Engine' = Engine /\ OnDatabase(c)' = OnDatabase(c)
      /\ asks'[c].user = asks[c].user /\ asks'[c].op = asks[c].op
  BY DEF ServersInv, TypeInv, Asking, Same, Asked, Engine, OnDatabase
<1>1. SUFFICES ASSUME Underway(c)', Engine = "postgresql", asks[c].op = "prepare",
                      Asked(c) \in lasting'[c], ~Has(todo'[c], "grant")
               PROVE  OnDatabase(c) \in Rights(asks[c].user)'
  <2> QED BY <1>0 DEF Granted, Has
<1>2. CASE Start(c)
  <2>1. CASE Ends(c)
    <3>1. Planned(asks[c].op, todo'[c]) BY <1>1, StillUnderway
    <3> QED BY <1>0, <2>1, <3>1, PlannedIs DEF Ends
  <2>2. CASE Begins(c)
    <3>1. Has(todo'[c], "grant") BY <1>0, <1>1, <2>2, StatementsPlanned DEF Begins
    <3> QED BY <1>1, <3>1
  <2> QED BY <1>2, <2>1, <2>2
<1>3. CASE ~Start(c)
  <2>1. Kept(c) /\ Asked(c) \in lasting[c] BY <1>1, <1>3 DEF Kept
  <2>3. Underway(c) /\ (~Has(todo[c], "grant") \/ (Goes(c) /\ todo[c][1] = "grant"))
    BY <1>1, <1>3, <2>1, Behind
  <2>4. CASE ~Has(todo[c], "grant")
    <3>1. OnDatabase(c) \in Rights(asks[c].user) BY <1>1, <2>1, <2>3, <2>4 DEF ServersInv, Granted
    <3>2. \A u : OnDatabase(c) \in Rights(u) => OnDatabase(c) \in Rights(u)'
      BY <1>1 DEF RightsKept
    <3> QED BY <1>0, <3>1, <3>2 DEF Rights
  <2>5. CASE Goes(c) /\ todo[c][1] = "grant" BY <2>5 DEF Goes
  <2> QED BY <2>3, <2>4, <2>5
<1> QED BY <1>2, <1>3

\* What a call is still to grant on, it grants on before it forgets it.
GrantsKept(c) ==
  \A s \in known[c].grants :
    s \in known'[c].grants \/ OnSchema(c, s) \in Rights(asks[c].user)'
NotesKept ==
  /\ known' = [c \in Calls |-> known'[c]] /\ \A c \in Calls : Notes(known'[c])
  /\ \A c \in Calls : Due(c, "schemas") \/ GrantsKept(c)

LEMMA NotedElse ==
  ASSUME TypeInv, NEW c \in Calls, NEW v, NEW w,
         \/ known' = [known EXCEPT ![c].role = v]
         \/ known' = [known EXCEPT ![c].objs = v, ![c].schemas = w]
  PROVE  NotesKept
<1>1. Notes(known[c]) /\ known = [k \in Calls |-> known[k]] BY DEF TypeInv
<1> DEFINE note == known[c]
<1>2. \/ known'[c] = [note EXCEPT !.role = v]
      \/ known'[c] = [[note EXCEPT !.objs = v] EXCEPT !.schemas = w]
  BY <1>1
<1>3. /\ [note EXCEPT !.role = v]
           = [role |-> v, grants |-> note.grants, objs |-> note.objs, schemas |-> note.schemas]
      /\ [[note EXCEPT !.objs = v] EXCEPT !.schemas = w]
           = [role |-> note.role, grants |-> note.grants, objs |-> v, schemas |-> w]
  <2>1. note = [role |-> note.role, grants |-> note.grants, objs |-> note.objs, schemas |-> note.schemas]
    BY <1>1 DEF Notes
  <2> HIDE DEF note
  <2>2. [note EXCEPT !.role = v]
          = [role |-> v, grants |-> note.grants, objs |-> note.objs, schemas |-> note.schemas]
    BY <2>1
  <2>3. [note EXCEPT !.objs = v]
          = [role |-> note.role, grants |-> note.grants, objs |-> v, schemas |-> note.schemas]
    BY <2>1
  <2>4. [[note EXCEPT !.objs = v] EXCEPT !.schemas = w]
          = [role |-> note.role, grants |-> note.grants, objs |-> v, schemas |-> w]
    <3> DEFINE mid == [role |-> note.role, grants |-> note.grants, objs |-> v, schemas |-> note.schemas]
    <3>1. [mid EXCEPT !.schemas = w] = [role |-> note.role, grants |-> note.grants, objs |-> v, schemas |-> w]
      OBVIOUS
    <3>2. [note EXCEPT !.objs = v] = mid BY <2>3
    <3> HIDE DEF mid
    <3> QED BY <3>1, <3>2
  <2> QED BY <2>2, <2>4
<1>4. known'[c].grants = known[c].grants /\ Notes(known'[c]) BY <1>2, <1>3 DEF Notes
<1>5. known' = [k \in Calls |-> known'[k]] /\ \A k \in Calls \ {c} : known'[k] = known[k]
  BY <1>1
<1> QED BY <1>4, <1>5 DEF NotesKept, GrantsKept, TypeInv

LEMMA NotedSame == ASSUME TypeInv, known' = known PROVE NotesKept
BY DEF NotesKept, GrantsKept, TypeInv

LEMMA NextNotes == ServersInv /\ Next => NotesKept
<1> SUFFICES ASSUME ServersInv, Next PROVE NotesKept OBVIOUS
<1>0. TypeInv BY DEF ServersInv
<1>1. ASSUME NEW k \in Calls, GrantSchemas(k) PROVE NotesKept
  <2>1. CASE \E s \in known[k].grants : GrantSchema(k, s)
    <3>1. PICK s \in known[k].grants : GrantSchema(k, s) BY <2>1
    <3>2. CASE There(k) /\ s \in dbs[Asked(k)].schemas
      <4>1. /\ known' = [known EXCEPT ![k].grants = known[k].grants \ {s}] /\ asks' = asks
            /\ users' = With(users, asks[k].user, Rights(asks[k].user) \cup {OnSchema(k, s)})
        BY <1>0, <3>1, <3>2 DEF GrantSchema, TypeInv
      <4>2. /\ known'[k].grants = known[k].grants \ {s} /\ Notes(known'[k])
            /\ known' = [c \in Calls |-> known'[c]]
            /\ \A c \in Calls \ {k} : known'[c] = known[c]
        BY <1>0, <4>1, Noted
      <4>3. OnSchema(k, s) \in Rights(asks[k].user)' BY <4>1 DEF Rights, With
      <4>4. GrantsKept(k) BY <4>2, <4>3 DEF GrantsKept
      <4> QED BY <1>0, <4>2, <4>4 DEF NotesKept, GrantsKept, TypeInv
    <3>3. CASE ~(There(k) /\ s \in dbs[Asked(k)].schemas)
      BY <1>0, <3>1, <3>3, NotedSame DEF GrantSchema
    <3> QED BY <3>2, <3>3
  <2>2. CASE ~\E s \in known[k].grants : GrantSchema(k, s)
    BY <1>0, <1>1, <2>2, NotedSame DEF GrantSchemas
  <2> QED BY <2>1, <2>2
<1>2. ASSUME NEW k \in Calls, ListSchemas(k) PROVE NotesKept
  <2>1. CASE known' = known BY <1>0, <2>1, NotedSame
  <2>2. CASE known' # known
    <3>1. known' = [known EXCEPT ![k].grants = pgGrantSchemaTargets(k)] /\ Due(k, "schemas")
      BY <1>2, <2>2 DEF ListSchemas
    <3>2. /\ Notes(known'[k]) /\ known' = [c \in Calls |-> known'[c]]
          /\ \A c \in Calls \ {k} : known'[c] = known[c]
      BY <1>0, <3>1, Noted
    <3> QED BY <1>0, <3>1, <3>2 DEF NotesKept, GrantsKept, TypeInv
  <2> QED BY <2>1, <2>2
<1>3. ASSUME NEW k \in Calls, Role(k) \/ Survey(k) PROVE NotesKept
  <2>1. \/ known' = known
        \/ \E v : known' = [known EXCEPT ![k].role = v]
        \/ \E v, w : known' = [known EXCEPT ![k].objs = v, ![k].schemas = w]
    BY <1>3 DEF Role, Survey
  <2> QED BY <1>0, <2>1, NotedSame, NotedElse
<1>4. ASSUME NEW k \in Calls, Statement(k), ~GrantSchemas(k), ~ListSchemas(k), ~Role(k), ~Survey(k)
      PROVE  known' = known
  BY <1>4 DEF Statement, IfAbsent, IfPresent, Connectable, Count, Ensure, CreateDDL, NoSuchLocale,
     Terminate, Busy, DropDDL, CreateUser, Grant, Load, rollbackDrop, List, Inspect, Finish, Writes
<1>5. ASSUME NEW k \in Calls, Statement(k) PROVE NotesKept
  BY <1>0, <1>1, <1>2, <1>3, <1>4, <1>5, NotedSame
<1>6. ASSUME NEW k \in Calls, Start(k) \/ Break(k) PROVE NotesKept
  BY <1>0, <1>6, NotedSame DEF Start, Break
<1>7. ASSUME NEW name, NEW kind, NEW schema, Write(name, kind, schema) PROVE NotesKept
  BY <1>0, <1>7, NotedSame DEF Write
<1> QED BY <1>5, <1>6, <1>7 DEF Next

LEMMA WantedIsUser ==
  ASSUME TypeInv, NEW c \in Calls, NEW s \in Wanted(c)
  PROVE  ~IsSystemSchema(s)
BY DEF TypeInv, Wanted, IsSystemSchema

LEMMA SchemasGrantedKept ==
  ASSUME ServersInv, NEW c \in Calls, Moves(c), Same(c), server' = server, RightsKept(c),
         Start(c) \/ Kept(c), Begins(c) \/ (Ends(c) /\ Start(c)) \/ ~Start(c),
         Due(c, "schemas") \/ GrantsKept(c)
  PROVE  SchemasGranted(c)'
<1>0. /\ asks[c] \in Asking /\ asks[c].op \in Ops /\ Engine \in Engines /\ Asked(c)' = Asked(c)
      /\ Engine' = Engine /\ Wanted(c)' = Wanted(c) /\ \A s : OnSchema(c, s)' = OnSchema(c, s)
      /\ asks'[c].user = asks[c].user /\ asks'[c].op = asks[c].op
  BY DEF ServersInv, TypeInv, Asking, Same, Asked, Engine, OnSchema, Wanted
<1>1. SUFFICES ASSUME Underway(c)', Engine = "postgresql", asks[c].op = "prepare",
                      Asked(c) \in lasting'[c], ~Has(todo'[c], "schemas"),
                      NEW s \in before'[c].schemas \cap Wanted(c)
               PROVE  s \in known'[c].grants \/ OnSchema(c, s) \in Rights(asks[c].user)'
  <2> QED BY <1>0 DEF SchemasGranted, Has
<1>2. CASE Start(c)
  <2>1. CASE Ends(c)
    <3>1. Planned(asks[c].op, todo'[c]) BY <1>1, StillUnderway
    <3> QED BY <1>0, <2>1, <3>1, PlannedIs DEF Ends
  <2>2. CASE Begins(c)
    <3>1. Has(todo'[c], "schemas") BY <1>0, <1>1, <2>2, StatementsPlanned DEF Begins
    <3> QED BY <1>1, <3>1
  <2> QED BY <1>2, <2>1, <2>2
<1>3. CASE ~Start(c)
  <2>1. Kept(c) /\ Asked(c) \in lasting[c] /\ s \in before[c].schemas BY <1>1, <1>3 DEF Kept
  <2>2. Underway(c) /\ (~Has(todo[c], "schemas") \/ (Goes(c) /\ todo[c][1] = "schemas"))
    BY <1>1, <1>3, <2>1, Behind
  <2>3. CASE ~Has(todo[c], "schemas")
    <3>1. ~Due(c, "schemas")
      <4>1. todo[c] # <<>> /\ Head(todo[c]) = todo[c][1] /\ 1 \in 1 .. Len(todo[c])
        BY <1>0, <2>2, PlannedIs DEF Underway
      <4> QED BY <2>3, <4>1 DEF Due, Has
    <3>2. s \in known[c].grants \/ OnSchema(c, s) \in Rights(asks[c].user)
      BY <1>1, <2>1, <2>2, <2>3 DEF ServersInv, SchemasGranted
    <3>3. OnSchema(c, s) \in Rights(asks[c].user) => OnSchema(c, s) \in Rights(asks[c].user)'
      <4>1. \A u : OnSchema(c, s) \in Rights(u) => OnSchema(c, s) \in Rights(u)'
        BY <1>1 DEF RightsKept
      <4> QED BY <1>0, <4>1 DEF Rights
    <3>4. s \in known[c].grants =>
            s \in known'[c].grants \/ OnSchema(c, s) \in Rights(asks[c].user)'
      BY <3>1 DEF GrantsKept
    <3> QED BY <3>2, <3>3, <3>4
  <2>4. CASE Goes(c) /\ todo[c][1] = "schemas"
    <3>1. known'[c].grants = Wanted(c) \cap UserSchemas(dbs[Asked(c)].schemas)
      BY <2>4 DEF Goes, pgGrantSchemaTargets
    <3>2. s \in dbs[Asked(c)].schemas BY <1>1, <2>1 DEF ServersInv, Standing
    <3>3. ~IsSystemSchema(s) BY <1>1, WantedIsUser DEF ServersInv
    <3> QED BY <1>1, <3>1, <3>2, <3>3 DEF UserSchemas
  <2> QED BY <2>2, <2>3, <2>4
<1> QED BY <1>2, <1>3

-----------------------------------------------------------------------------
(* The invariant *)

LEMMA InitTyped == Init => ServersInv
<1> SUFFICES ASSUME Init PROVE ServersInv OBVIOUS
<1>1. PICK s \in Servers :
        /\ server = [engine |-> s.engine, direct |-> s.direct]
        /\ dbs = s.holds
        /\ asks \in [Calls -> {q \in Requests : s.engine \in q.on}]
  BY DEF Init
<1>2. Engine \in Engines BY <1>1, ServerAssumption DEF Engine
<1>3. asks \in [Calls -> Asking] /\ \A c \in Calls : \A x \in asks[c].schemas : ~IsSystemSchema(x)
  BY <1>1, RequestAssumption
<1>4. IsDatabase(Empty) BY DEF IsDatabase, Empty
<1>5. /\ todo = [c \in Calls |-> <<"start">>] /\ answers = [c \in Calls |-> "none"]
      /\ before = [c \in Calls |-> Empty] /\ lasting = [c \in Calls |-> {}]
  BY DEF Init
<1>6. DatabasesTyped BY <1>1, <1>4, <1>5, ServerAssumption DEF DatabasesTyped
<1>8. known = [c \in Calls |-> known[c]] /\ \A c \in Calls : Notes(known[c])
  <2> DEFINE none == [role |-> "", grants |-> {}, objs |-> {}, schemas |-> {}]
  <2>1. known = [c \in Calls |-> none] BY Zenon DEF Init
  <2>2. Notes(none)
    <3> DEFINE k(r) == [role |-> r, grants |-> {}, objs |-> {}, schemas |-> {}]
    <3>1. \A r : Notes(k(r)) BY DEF Notes
    <3> QED BY <3>1, Zenon
  <2> HIDE DEF none
  <2> QED BY <2>1, <2>2
<1>7. ASSUME NEW c \in Calls
      PROVE  Placed(c) /\ Standing(c) /\ Emptied(c) /\ Granted(c) /\ SchemasGranted(c)
  <2>1. todo[c] = <<"start">> /\ answers[c] = "none" /\ lasting[c] = {} BY <1>5
  <2>2. asks[c].op \in Ops BY <1>3 DEF Asking
  <2>3. ~Underway(c) BY <2>1, <2>2, PlannedIs DEF Underway
  <2> QED BY <2>1, <2>3 DEF Placed, Waiting, Standing, Emptied, Granted, SchemasGranted
<1> QED BY <1>2, <1>3, <1>5, <1>6, <1>7, <1>8 DEF ServersInv, TypeInv

LEMMA StepTyped == ServersInv /\ [Next]_vars => ServersInv'
<1> SUFFICES ASSUME ServersInv, [Next]_vars PROVE ServersInv' OBVIOUS
<1>1. CASE Next
  <2>1. /\ server' = server /\ Shaped
        /\ \A c \in Calls : Moves(c) /\ Same(c)
        /\ \A c \in Calls : Begins(c) \/ (Ends(c) /\ Start(c)) \/ ~Start(c)
    BY <1>1, CallMoves
  <2>2. DataKept /\ NotesKept BY <1>1, NextKeeps, NextNotes
  <2>3. TypeInv'
    <3>1. Engine' \in Engines BY <2>1 DEF ServersInv, TypeInv, Engine
    <3>2. /\ asks' \in [Calls -> Asking]
          /\ \A c \in Calls : \A s \in asks'[c].schemas : ~IsSystemSchema(s)
      BY <2>1 DEF Shaped, Same, ServersInv, TypeInv
    <3>3. /\ todo' = [c \in Calls |-> todo'[c]] /\ answers' = [c \in Calls |-> answers'[c]]
      BY <2>1 DEF Shaped
    <3>4. known' = [c \in Calls |-> known'[c]] /\ \A c \in Calls : Notes(known[c])'
      BY <2>2 DEF NotesKept, Notes
    <3> QED BY <2>2, <3>1, <3>2, <3>3, <3>4 DEF TypeInv, DataKept
  <2>4. ASSUME NEW c \in Calls
        PROVE  (Placed(c) /\ Standing(c) /\ Emptied(c) /\ Granted(c) /\ SchemasGranted(c))'
    <3>1. Placed(c)' BY <2>1, PlacedKept
    <3>2. Emptied(c)' BY <2>1, <2>2, EmptiedKept DEF DataKept
    <3>3. Granted(c)' BY <2>1, <2>2, GrantedKept DEF DataKept
    <3>4. SchemasGranted(c)' BY <2>1, <2>2, SchemasGrantedKept DEF DataKept, NotesKept
    <3> QED BY <2>2, <3>1, <3>2, <3>3, <3>4 DEF DataKept
  <2> QED BY <2>3, <2>4 DEF ServersInv
<1>2. CASE UNCHANGED vars
  <2>1. UNCHANGED <<server, dbs, users, asks, todo, answers, known, before, lasting>>
    BY <1>2 DEF vars
  <2>2. TypeInv' BY <2>1 DEF ServersInv, TypeInv, DatabasesTyped, Engine
  <2>3. ASSUME NEW c \in Calls
        PROVE  (Placed(c) /\ Standing(c) /\ Emptied(c) /\ Granted(c) /\ SchemasGranted(c))'
    <3>1. /\ Placed(c) /\ Standing(c) /\ Emptied(c) /\ Granted(c) /\ SchemasGranted(c)
          /\ Same(c) /\ Engine' = Engine /\ Asked(c)' = Asked(c)
      BY <2>1 DEF ServersInv, TypeInv, Same, Engine, Asked
    <3>2. Underway(c)' <=> Underway(c) BY <2>1, <3>1, StillUnderway DEF Underway
    <3>3. Placed(c)' BY <2>1, <3>1, PlacedKept DEF Moves, Stays
    <3>4. Standing(c)' BY <2>1, <3>1 DEF Standing
    <3>5. Emptied(c)'
      <4>1. OldTables(c)' = OldTables(c) BY <2>1, <3>1 DEF OldTables
      <4> QED BY <2>1, <3>1, <3>2, <4>1 DEF Emptied, Careful, Has
    <3>6. Granted(c)'
      <4>1. OnDatabase(c)' = OnDatabase(c) /\ Rights(asks[c].user)' = Rights(asks[c].user)
        BY <2>1, <3>1 DEF OnDatabase, Rights
      <4> QED BY <2>1, <3>1, <3>2, <4>1 DEF Granted, Has
    <3>7. SchemasGranted(c)'
      <4>1. /\ Wanted(c)' = Wanted(c) /\ Rights(asks[c].user)' = Rights(asks[c].user)
            /\ \A s : OnSchema(c, s)' = OnSchema(c, s)
        BY <2>1, <3>1 DEF OnSchema, Rights, Wanted
      <4> QED BY <2>1, <3>1, <3>2, <4>1 DEF SchemasGranted, Has
    <3> QED BY <3>3, <3>4, <3>5, <3>6, <3>7
  <2> QED BY <2>2, <2>3 DEF ServersInv
<1> QED BY <1>1, <1>2

\* Every call sends the statements of its plan and no others; behind the last
\* count no table that is counted has stood since the call began, and behind
\* the grants the account has its rights (CheckTargetEmpty, prepareTargetViaSQL).
THEOREM ServersTyped == Spec => []ServersInv
BY InitTyped, StepTyped, PTL DEF Spec

-----------------------------------------------------------------------------
(* No table that has stood since before the call is lost *)

\* A drop that requires an empty database, and a migration that empties its
\* target after a failure, end no table that has stood there since before the
\* call, whatever happened between the count and the statement that removes
\* (DropDatabase, CheckTargetEmpty, rollbackDrop).
THEOREM OldTablesSurvive == Spec => NoOldTableDies
<1>1. ServersInv => [\A c \in Calls :
         /\ Due(c, "rollback") \/ (Due(c, "drop") /\ asks[c].requireEmpty)
         /\ todo'[c] # todo[c]
         /\ Asked(c) \in lasting[c]
         => \A t \in OldTables(c) : Asked(c) \in DOMAIN dbs' /\ t \in dbs'[Asked(c)].objs]_vars
  <2> SUFFICES ASSUME ServersInv, NEW c \in Calls, NEW w \in {"rollback", "drop"}, Due(c, w),
                      w = "drop" => asks[c].requireEmpty, Asked(c) \in lasting[c]
               PROVE  OldTables(c) = {}
    OBVIOUS
  <2>1. /\ Underway(c) /\ todo[c][1] = w /\ Len(todo[c]) = 1 /\ w \in StepsOf(asks[c].op)
        /\ asks[c].op \in Ops
    BY DueStep DEF Ending
  <2>2. Careful(c) BY <2>1 DEF Careful, StepsOf, Ops
  <2>3. ~Has(todo[c], "count")
    <3>1. \A i \in 1 .. Len(todo[c]) : i = 1 BY <2>1
    <3> QED BY <2>1, <3>1 DEF Has
  <2> QED BY <2>1, <2>2, <2>3 DEF ServersInv, Emptied
<1> QED BY <1>1, ServersTyped, PTL DEF NoOldTableDies

-----------------------------------------------------------------------------
(* A prepared account can load *)

LEMMA Finishing ==
  ASSUME ServersInv, NEW c \in Calls, Start(c) \/ Statement(c) \/ Break(c),
         asks[c].op = "prepare", answers[c] = "none", answers'[c] = "done"
  PROVE  /\ Due(c, LastOfPrepare) /\ GoOn(c)
         /\ Engine = "postgresql" => ~Has(todo[c], "grant") /\ ~Has(todo[c], "schemas")
         /\ \/ CreateUser(c) \/ Grant(c)
            \/ /\ Due(c, "schemagrants") /\ known[c].grants = {}
               /\ UNCHANGED <<server, users, asks, before>>
<1> USE DEF Reads, Writes, Replied
<1>0. TypeInv BY DEF ServersInv
<1>1. \A says : End(c, says) => says = "done" BY <1>0, Ended
<1>2. ASSUME NEW w, w # "start", Due(c, w)
      PROVE  /\ w \in StepsOf("prepare")
             /\ GoOn(c) => w \notin Leading /\ w = LastOfPrepare /\ Len(todo[c]) = 1
  <2>1. Underway(c) /\ w \in StepsOf("prepare") /\ asks[c].op \in Ops /\ todo[c][1] = w
    BY <1>2, DueStep
  <2>2. ASSUME GoOn(c) PROVE w \notin Leading /\ w = LastOfPrepare /\ Len(todo[c]) = 1
    <3>1. Len(todo[c]) \in Nat /\ Len(todo[c]) > 0 BY <2>1, PlannedIs DEF Underway
    <3>2. ~(Len(todo[c]) > 1) BY <1>0, <2>1, <2>2, WentOn
    <3> DEFINE n == Len(todo[c])
    <3>3. n = 1
      <4> HIDE DEF n
      <4>1. n \in Nat /\ n > 0 /\ ~(n > 1) BY <3>1, <3>2 DEF n
      <4> QED BY <4>1
    <3> QED BY <1>2, <3>2, <3>3, DueStep
  <2> QED BY <2>1, <2>2
<1>3. StepsOf("prepare") = {"present", "connectable", "count", "role", "user", "grant", "schemas",
                            "schemagrants"}
  BY DEF StepsOf
<1>4. {"present", "connectable", "count", "role", "schemas"} \subseteq Leading BY DEF Leading
<1>5. ~Start(c) BY <1>0 DEF Start, TypeInv
<1>6. ~Break(c) BY <1>1 DEF Break
<1>7. ~(IfAbsent(c) \/ Ensure(c) \/ CreateDDL(c) \/ NoSuchLocale(c) \/ Terminate(c) \/ Busy(c)
        \/ DropDDL(c) \/ Load(c) \/ Survey(c) \/ rollbackDrop(c) \/ List(c) \/ Inspect(c)
        \/ Finish(c))
  <2>1. ASSUME NEW w \in {"absent", "ensure", "create", "terminate", "drop", "load", "survey",
                          "rollback", "list", "inspect"}, Due(c, w)
        PROVE FALSE
    BY <1>2, <1>3, <2>1
  <2> QED BY <2>1 DEF IfAbsent, Ensure, CreateDDL, NoSuchLocale, Terminate, Busy, DropDDL, Load,
       Survey, rollbackDrop, List, Inspect, Finish
<1>8. ~IfPresent(c) BY <1>1, <1>2, <1>3, <1>4 DEF IfPresent
<1>9. ~Connectable(c) BY <1>1, <1>2, <1>3, <1>4 DEF Connectable
<1>10. ~Count(c) BY <1>1, <1>2, <1>3, <1>4 DEF Count
<1>11. ~Role(c) BY <1>2, <1>4 DEF Role
<1>12. ~ListSchemas(c) BY <1>1, <1>2, <1>3, <1>4 DEF ListSchemas
<1>13. CreateUser(c) \/ Grant(c) \/ GrantSchemas(c)
  BY <1>5, <1>6, <1>7, <1>8, <1>9, <1>10, <1>11, <1>12 DEF Statement
<1>16. ASSUME GrantSchemas(c)
       PROVE  /\ Due(c, "schemagrants") /\ known[c].grants = {} /\ GoOn(c)
              /\ UNCHANGED <<server, users, asks, before>>
  <2>1. ~\E s \in known[c].grants : GrantSchema(c, s) BY <1>1 DEF GrantSchema
  <2> QED BY <1>16, <2>1 DEF GrantSchemas
<1>17. \E w : w # "start" /\ Due(c, w) /\ GoOn(c)
  BY <1>1, <1>13, <1>16 DEF CreateUser, Grant
<1>14. Due(c, LastOfPrepare) /\ Len(todo[c]) = 1 /\ GoOn(c) BY <1>2, <1>17
<1>15. Engine = "postgresql" => ~Has(todo[c], "grant") /\ ~Has(todo[c], "schemas")
  <2> SUFFICES ASSUME Engine = "postgresql", NEW i \in 1 .. Len(todo[c])
               PROVE  todo[c][i] # "grant" /\ todo[c][i] # "schemas"
    BY DEF Has
  <2>1. i = 1 /\ LastOfPrepare = "schemagrants" BY <1>14 DEF LastOfPrepare
  <2>2. todo[c][1] = "schemagrants" BY <1>14, <2>1, DueStep
  <2> QED BY <2>1, <2>2
<1> QED BY <1>13, <1>14, <1>15, <1>16

\* The account PrepareTarget reports ready may write to the database, and on
\* PostgreSQL create in each schema the migration will load into that has stood
\* since the call began, however rollbacks of other calls drop schemas between
\* the list of them and the grants - unless the database was dropped under the
\* call (prepareTargetViaSQL, buildTeardownScript).
THEOREM PreparedAccountsLoad == Spec => PreparedCanLoad
<1>1. ASSUME ServersInv, Next, NEW c \in Calls, asks[c].op = "prepare",
             answers[c] = "none", answers'[c] = "done", Asked(c) \in lasting[c]
      PROVE  Ready(c)'
  <2>1. TypeInv /\ Engine \in Engines BY <1>1 DEF ServersInv, TypeInv
  <2>2. Start(c) \/ Statement(c) \/ Break(c)
    <3>1. ASSUME NEW k \in Calls, k # c, Start(k) \/ Statement(k) \/ Break(k) PROVE FALSE
      <4>1. CASE Start(k) BY <1>1, <2>1, <3>1, <4>1 DEF Start, TypeInv
      <4>2. CASE Statement(k) BY <1>1, <2>1, <3>1, <4>2, StatementMoves DEF Only
      <4>3. CASE Break(k) BY <1>1, <2>1, <3>1, <4>3, Ended DEF Break
      <4> QED BY <3>1, <4>1, <4>2, <4>3
    <3>2. ASSUME NEW name, NEW kind, NEW schema, Write(name, kind, schema) PROVE FALSE
      BY <1>1, <3>2 DEF Write
    <3> QED BY <1>1, <3>1, <3>2 DEF Next
  <2>3. /\ Due(c, LastOfPrepare) /\ GoOn(c)
        /\ Engine = "postgresql" => ~Has(todo[c], "grant") /\ ~Has(todo[c], "schemas")
        /\ \/ CreateUser(c) \/ Grant(c)
           \/ /\ Due(c, "schemagrants") /\ known[c].grants = {}
              /\ UNCHANGED <<server, users, asks, before>>
    BY <1>1, <2>2, Finishing
  <2>4. /\ Due(c, LastOfPrepare) /\ UNCHANGED <<server, asks, before>>
        /\ \A says : End(c, says) => says = "done"
    BY <1>1, <2>1, <2>3, Ended DEF CreateUser, Grant, Writes
  <2>5. /\ Engine' = Engine /\ Asked(c)' = Asked(c) /\ OnDatabase(c)' = OnDatabase(c)
    BY <2>4 DEF Engine, Asked, OnDatabase
  <2>6. Underway(c)
    <3>1. LastOfPrepare # "start" BY DEF LastOfPrepare
    <3> QED BY <1>1, <2>3, <3>1, DueStep
  <2>7. CASE Engine = "mongodb"
    <3>1. Due(c, "user") /\ CreateUser(c)
      BY <2>3, <2>7 DEF LastOfPrepare, Due, Grant
    <3>2. users' = With(users, asks[c].user, Rights(asks[c].user) \cup {OnDatabase(c)})
      BY <2>4, <2>7, <3>1 DEF CreateUser, SQL
    <3>3. OnDatabase(c) \in Rights(asks[c].user)' BY <2>4, <3>2 DEF Rights, With
    <3> QED BY <2>5, <2>7, <3>3 DEF Ready
  <2>8. CASE Engine \in {"mysql", "mariadb"}
    <3>1. Due(c, "grant") /\ Grant(c) /\ Engine # "postgresql"
      BY <2>3, <2>8 DEF LastOfPrepare, Due, CreateUser
    <3>2. users' = With(users, asks[c].user, Rights(asks[c].user) \cup {OnDatabase(c)})
      BY <3>1 DEF Grant
    <3>3. OnDatabase(c) \in Rights(asks[c].user)' BY <2>4, <3>2 DEF Rights, With
    <3> QED BY <2>5, <3>1, <3>3 DEF Ready
  <2>9. CASE Engine = "postgresql"
    <3>1. known[c].grants = {} /\ UNCHANGED <<users, asks, before>>
      BY <2>3, <2>4, <2>9 DEF LastOfPrepare, Due, CreateUser, Grant
    <3>2. OnDatabase(c) \in Rights(asks[c].user)
      BY <1>1, <2>3, <2>6, <2>9 DEF ServersInv, Granted
    <3>3. \A s \in before[c].schemas \cap Wanted(c) : OnSchema(c, s) \in Rights(asks[c].user)
      BY <1>1, <2>3, <2>6, <2>9, <3>1 DEF ServersInv, SchemasGranted
    <3>4. Ready(c) BY <3>2, <3>3 DEF Ready
    <3>5. /\ Rights(asks[c].user)' = Rights(asks[c].user) /\ Wanted(c)' = Wanted(c)
          /\ \A s : OnSchema(c, s)' = OnSchema(c, s)
      BY <3>1 DEF Rights, Wanted, OnSchema, Asked
    <3> QED BY <2>5, <3>1, <3>4, <3>5 DEF Ready
  <2> QED BY <2>1, <2>7, <2>8, <2>9 DEF Engines
<1>2. ServersInv /\ [Next]_vars => [\A c \in Calls :
         /\ asks[c].op = "prepare"
         /\ answers[c] = "none" /\ answers'[c] = "done"
         /\ Asked(c) \in lasting[c]
         => Ready(c)']_vars
  BY <1>1
<1> QED BY <1>2, ServersTyped, PTL DEF PreparedCanLoad, Spec

-----------------------------------------------------------------------------
(* A database comes and goes at one moment of one call *)

Told == [c \in Calls |-> [op |-> asks[c].op, database |-> Asked(c), tolerant |-> asks[c].tolerant]]

LEMMA SameTold ==
  ASSUME \A c \in Calls : Same(c)
  PROVE  Told' = Told
BY DEF Told, Same, Asked

Atomically == [Promise!Next]_<<Told, ~SQL, DOMAIN dbs, answers>>

LEMMA Stutters ==
  ASSUME Told' = Told, server' = server, DOMAIN dbs' = DOMAIN dbs, answers' = answers
  PROVE  Atomically
<1>1. (~SQL)' = ~SQL BY DEF SQL, Engine
<1> QED BY <1>1 DEF Atomically

LEMMA Tells ==
  ASSUME Told' = Told, server' = server, DOMAIN dbs' = DOMAIN dbs,
         NEW c \in Calls, answers[c] = "none",
         NEW says \in Promise!Honest(c, Asked(c)), answers' = [answers EXCEPT ![c] = says]
  PROVE  Atomically
<1>1. (~SQL)' = ~SQL BY DEF SQL, Engine
<1>2. Told[c].database = Asked(c) BY DEF Told
<1>3. Promise!Tell(c) BY <1>1, <1>2 DEF Promise!Tell, Promise!Answer, Told
<1> QED BY <1>3 DEF Atomically, Promise!Next

LEMMA Creates ==
  ASSUME Told' = Told, server' = server, NEW c \in Calls, answers[c] = "none",
         asks[c].op \in {"create", "ensure"}, ~There(c),
         DOMAIN dbs' = DOMAIN dbs \cup {Asked(c)},
         NEW says \in {IF asks[c].op = "ensure" THEN "made" ELSE "ok", "error"},
         answers' = [answers EXCEPT ![c] = says]
  PROVE  Atomically
<1>1. (~SQL)' = ~SQL BY DEF SQL, Engine
<1>2. Told[c].database = Asked(c) /\ Told[c].op = asks[c].op BY DEF Told
<1>3. Promise!Create(c)
  BY <1>1, <1>2 DEF Promise!Create, Promise!Creating, Promise!Answer, Told, There
<1> QED BY <1>3 DEF Atomically, Promise!Next

LEMMA Drops ==
  ASSUME Told' = Told, server' = server, NEW c \in Calls, answers[c] = "none",
         asks[c].op = "drop", There(c), DOMAIN dbs' = DOMAIN dbs \ {Asked(c)},
         NEW says \in {"ok", "error"}, answers' = [answers EXCEPT ![c] = says]
  PROVE  Atomically
<1>1. (~SQL)' = ~SQL BY DEF SQL, Engine
<1>2. Told[c].database = Asked(c) /\ Told[c].op = asks[c].op BY DEF Told
<1>3. Promise!Drop(c) BY <1>1, <1>2 DEF Promise!Drop, Promise!Answer, Told, There
<1> QED BY <1>3 DEF Atomically, Promise!Next

LEMMA Migrates ==
  ASSUME Told' = Told, server' = server, NEW c \in Calls, answers[c] = "none", ~SQL,
         asks[c].op = "migrate",
         \/ DOMAIN dbs' = DOMAIN dbs \cup {Asked(c)}
         \/ DOMAIN dbs' = DOMAIN dbs \ {Asked(c)},
         NEW says \in {"done", "error"}, answers' = [answers EXCEPT ![c] = says]
  PROVE  Atomically
<1>1. (~SQL)' = ~SQL BY DEF SQL, Engine
<1>2. Told[c].database = Asked(c) /\ Told[c].op = asks[c].op BY DEF Told
<1>3. Promise!Migrate(c) BY <1>1, <1>2 DEF Promise!Migrate, Promise!Answer, Told
<1> QED BY <1>3 DEF Atomically, Promise!Next

LEMMA Brings ==
  ASSUME Told' = Told, server' = server, answers' = answers, ~SQL,
         NEW d \in Names, DOMAIN dbs' = DOMAIN dbs \cup {d}
  PROVE  Atomically
<1>1. (~SQL)' = ~SQL BY DEF SQL, Engine
<1>2. Promise!Write(d) BY <1>1 DEF Promise!Write, Told
<1> QED BY <1>2 DEF Atomically, Promise!Next

\* What a call that changes nothing may say.
LEMMA MaySay ==
  ASSUME NEW c \in Calls
  PROVE  LET H == Promise!Honest(c, Asked(c)) IN
         /\ "error" \in H /\ "refused" \in H
         /\ ~SQL => "ok" \in H
         /\ asks[c].op = "create" /\ There(c) => CreateExistsResult(c) \in H
         /\ asks[c].op = "ensure" /\ There(c) => "there" \in H
         /\ asks[c].op = "ensure" /\ ~There(c) /\ ~SQL => "made" \in H
         /\ asks[c].op = "drop" /\ There(c) => "notempty" \in H
         /\ asks[c].op = "drop" /\ ~There(c) => DropMissingResult(c) \in H
         /\ asks[c].op \notin {"create", "ensure", "drop"} =>
              "done" \in H /\ "notempty" \in H /\ "missing" \in H
<1>1. Told[c].op = asks[c].op /\ Told[c].tolerant = asks[c].tolerant BY DEF Told
<1> QED BY <1>1 DEF Promise!Honest, Told, There, CreateExistsResult, DropMissingResult

Final(c) ==
  IF asks[c].op = "ensure" THEN "made"
  ELSE IF asks[c].op \in {"create", "drop"} THEN "ok" ELSE "done"

LEMMA WentOnSaying ==
  ASSUME ServersInv, NEW c \in Calls, NEW w, w # "start", Due(c, w), GoOn(c)
  PROVE  /\ w \in Leading => answers' = answers
         /\ answers' = answers \/ answers' = [answers EXCEPT ![c] = Final(c)]
         /\ w \in Ending => answers' = [answers EXCEPT ![c] = Final(c)]
<1> DEFINE n == Len(todo[c])
<1>1. /\ Underway(c) /\ TypeInv
      /\ w \in Ending => n = 1
      /\ w \in Leading => n > 1
  BY DueStep DEF ServersInv
<1>2. n > 1 => answers' = answers BY <1>1, WentOn
<1>3. asks[c].op \in Ops BY DueStep
<1>4. n \in Nat /\ n > 0 BY <1>1, <1>3, PlannedIs DEF Underway
<1>5. n = 1 => answers' = [answers EXCEPT ![c] = Final(c)]
  <2> SUFFICES ASSUME n = 1 PROVE answers' = [answers EXCEPT ![c] = Final(c)] OBVIOUS
  <2>1. ~(n > 1) OBVIOUS
  <2>2. answers' = [answers EXCEPT ![c] = CASE asks[c].op \in {"create", "drop"} -> "ok"
                            [] asks[c].op = "ensure"             -> "made"
                            [] OTHER                             -> "done"]
    BY <2>1 DEF GoOn
  <2> QED BY <2>2 DEF Final
<1> HIDE DEF n
<1>6. n = 1 \/ n > 1 BY <1>4
<1>7. ~(n = 1 /\ n > 1) BY <1>4
<1> QED BY <1>1, <1>2, <1>5, <1>6, <1>7

LEMMA EndTells ==
  ASSUME Told' = Told, server' = server, DOMAIN dbs' = DOMAIN dbs,
         NEW c \in Calls, answers[c] = "none",
         NEW says \in Promise!Honest(c, Asked(c)), End(c, says)
  PROVE  Atomically
BY Tells DEF End

LEMMA GoTells ==
  ASSUME ServersInv, Told' = Told, server' = server, DOMAIN dbs' = DOMAIN dbs,
         NEW c \in Calls, NEW w, w # "start", Due(c, w), GoOn(c),
         w \in Leading \/ Final(c) \in Promise!Honest(c, Asked(c))
  PROVE  Atomically
<1>1. answers[c] = "none" BY DueStep
<1>2. \/ answers' = answers
      \/ answers' = [answers EXCEPT ![c] = Final(c)] /\ Final(c) \in Promise!Honest(c, Asked(c))
  BY WentOnSaying
<1> QED BY <1>1, <1>2, Stutters, Tells

\* Which calls send a statement.
LEMMA SentBy ==
  ASSUME ServersInv, NEW c \in Calls, NEW w, w # "start", Due(c, w)
  PROVE  /\ w \in {"absent", "create"} =>
              asks[c].op = "create" \/ (asks[c].op = "ensure" /\ SQL)
         /\ w = "ensure" => asks[c].op = "ensure"
         /\ w \in {"present", "connectable", "count"} => asks[c].op \in {"drop", "prepare", "migrate"}
         /\ w = "drop" => asks[c].op = "drop"
         /\ w \in {"user", "grant", "schemas", "schemagrants"} => asks[c].op \in {"prepare", "migrate"}
         /\ w \in {"load", "survey", "rollback"} => asks[c].op = "migrate"
         /\ w \in {"list", "inspect"} => asks[c].op = "scan"
<1>1. w \in StepsOf(asks[c].op) /\ asks[c].op \in Ops BY DueStep
<1> QED BY <1>1 DEF StepsOf, Ops

LEMMA ReadsMap ==
  ASSUME ServersInv, NEW c \in Calls, Told' = Told, server' = server,
         \/ IfAbsent(c) \/ IfPresent(c) \/ Connectable(c) \/ Count(c) \/ Role(c) \/ Ensure(c)
         \/ Terminate(c) \/ Busy(c) \/ List(c) \/ Inspect(c) \/ Finish(c) \/ ListSchemas(c)
         \/ Survey(c)
  PROVE  Atomically
<1>0. DOMAIN dbs' = DOMAIN dbs
  BY DEF Reads, IfAbsent, IfPresent, Connectable, Count, Role, Ensure, Terminate, Busy, List,
     Inspect, Finish, ListSchemas, Survey
<1>1. CASE IfAbsent(c)
  <2>1. Due(c, "absent") /\ answers[c] = "none" BY <1>1, DueStep DEF IfAbsent
  <2>2. asks[c].op = "create" \/ (asks[c].op = "ensure" /\ SQL) BY <2>1, SentBy
  <2>3. CASE There(c)
    <3> DEFINE says == IF asks[c].op = "ensure" THEN "error" ELSE CreateExistsResult(c)
    <3>1. End(c, says) BY <1>1, <2>3 DEF IfAbsent
    <3>2. says \in Promise!Honest(c, Asked(c)) BY <2>2, <2>3, MaySay
    <3> HIDE DEF says
    <3> QED BY <1>0, <2>1, <3>1, <3>2, EndTells
  <2>4. CASE ~There(c)
    <3>1. GoOn(c) BY <1>1, <2>4 DEF IfAbsent
    <3>2. "absent" \in Leading \/ Final(c) \in Promise!Honest(c, Asked(c))
      BY <2>2, MaySay DEF Leading, Final
    <3> QED BY <1>0, <2>1, <3>1, <3>2, GoTells
  <2> QED BY <2>3, <2>4
<1>2. CASE IfPresent(c)
  <2>1. Due(c, "present") /\ answers[c] = "none" BY <1>2, DueStep DEF IfPresent
  <2>2. asks[c].op \in {"drop", "prepare", "migrate"} BY <2>1, SentBy
  <2>3. CASE ~There(c)
    <3> DEFINE says == IF asks[c].op = "drop" THEN DropMissingResult(c) ELSE "missing"
    <3>1. End(c, says) BY <1>2, <2>3 DEF IfPresent
    <3>2. says \in Promise!Honest(c, Asked(c)) BY <2>2, <2>3, MaySay
    <3> HIDE DEF says
    <3> QED BY <1>0, <2>1, <3>1, <3>2, EndTells
  <2>4. CASE There(c)
    <3>1. GoOn(c) BY <1>2, <2>4 DEF IfPresent
    <3> QED BY <1>0, <2>1, <3>1, GoTells DEF Leading
  <2> QED BY <2>3, <2>4
<1>3. CASE Connectable(c)
  <2>1. Due(c, "connectable") BY <1>3 DEF Connectable
  <2>2. CASE There(c)
    <3>1. GoOn(c) BY <1>3, <2>2 DEF Connectable
    <3> QED BY <1>0, <2>1, <3>1, GoTells DEF Leading
  <2>3. CASE ~There(c) BY <1>0, <1>3, <2>3, Stutters DEF Connectable
  <2> QED BY <2>2, <2>3
<1>4. CASE Count(c)
  <2>1. Due(c, "count") /\ answers[c] = "none" BY <1>4, DueStep DEF Count
  <2>2. asks[c].op \in {"drop", "prepare", "migrate"} BY <2>1, SentBy
  <2>3. (End(c, "notempty") /\ There(c)) \/ End(c, "error") \/ GoOn(c) BY <1>4 DEF Count
  <2>4. There(c) => "notempty" \in Promise!Honest(c, Asked(c)) BY <2>2, MaySay
  <2>5. CASE GoOn(c) BY <1>0, <2>1, <2>5, GoTells DEF Leading
  <2>6. CASE End(c, "notempty") /\ There(c) BY <1>0, <2>1, <2>4, <2>6, EndTells
  <2>7. CASE End(c, "error") BY <1>0, <2>1, <2>7, EndTells, MaySay
  <2> QED BY <2>3, <2>5, <2>6, <2>7
<1>5. CASE Role(c)
  <2>1. Due(c, "role") /\ GoOn(c) BY <1>5 DEF Role
  <2> QED BY <1>0, <2>1, GoTells DEF Leading
<1>6. CASE Ensure(c)
  <2>1. Due(c, "ensure") /\ answers[c] = "none" BY <1>6, DueStep DEF Ensure
  <2>2. asks[c].op = "ensure" BY <2>1, SentBy
  <2>3. CASE Asked(c) \in UserDatabases(DOMAIN dbs)
    <3>1. End(c, "there") /\ There(c) BY <1>6, <2>3 DEF Ensure, UserDatabases, There
    <3> QED BY <1>0, <2>1, <2>2, <3>1, EndTells, MaySay
  <2>4. CASE Asked(c) \notin UserDatabases(DOMAIN dbs)
    <3>1. GoOn(c) BY <1>6, <2>4 DEF Ensure
    <3>2. ~IsSystemDatabase(Asked(c))
      <4>1. Underway(c) BY <2>1, DueStep
      <4> QED BY <2>2, <4>1 DEF ServersInv, Placed
    <3>3. ~There(c) BY <2>4, <3>2 DEF UserDatabases, There
    <3>4. "ensure" \in Leading \/ Final(c) \in Promise!Honest(c, Asked(c))
      BY <2>2, <3>3, MaySay DEF Leading, Final
    <3> QED BY <1>0, <2>1, <3>1, <3>4, GoTells
  <2> QED BY <2>3, <2>4
<1>7. CASE Terminate(c)
  <2>1. Due(c, "terminate") /\ GoOn(c) BY <1>7 DEF Terminate
  <2> QED BY <1>0, <2>1, GoTells DEF Leading
<1>8. CASE Busy(c)
  <2>1. End(c, "error") /\ answers[c] = "none" BY <1>8, DueStep DEF Busy
  <2> QED BY <1>0, <2>1, EndTells, MaySay
<1>9. CASE List(c) \/ Inspect(c) BY <1>0, <1>9, Stutters DEF List, Inspect
<1>10. CASE Finish(c)
  <2>1. Due(c, "inspect") /\ GoOn(c) BY <1>10 DEF Finish
  <2>2. Final(c) \in Promise!Honest(c, Asked(c)) BY <2>1, SentBy, MaySay DEF Final
  <2> QED BY <1>0, <2>1, <2>2, GoTells
<1>11. CASE ListSchemas(c)
  <2>1. Due(c, "schemas") /\ answers[c] = "none" BY <1>11, DueStep DEF ListSchemas
  <2>2. GoOn(c) \/ End(c, "error") BY <1>11 DEF ListSchemas
  <2>3. CASE GoOn(c) BY <1>0, <2>1, <2>3, GoTells DEF Leading
  <2>4. CASE End(c, "error") BY <1>0, <2>1, <2>4, EndTells, MaySay
  <2> QED BY <2>2, <2>3, <2>4
<1>12. CASE Survey(c)
  <2>1. answers[c] = "none" BY <1>12, DueStep DEF Survey
  <2>2. End(c, "error") \/ answers' = answers BY <1>12 DEF Survey
  <2>3. CASE answers' = answers BY <1>0, <2>3, Stutters
  <2>4. CASE End(c, "error") BY <1>0, <2>1, <2>4, EndTells, MaySay
  <2> QED BY <2>2, <2>3, <2>4
<1> QED BY <1>1, <1>2, <1>3, <1>4, <1>5, <1>6, <1>7, <1>8, <1>9, <1>10, <1>11, <1>12

LEMMA CreateMaps ==
  ASSUME ServersInv, NEW c \in Calls, Told' = Told, server' = server,
         CreateDDL(c) \/ NoSuchLocale(c)
  PROVE  Atomically
<1>1. Due(c, "create") /\ answers[c] = "none" BY DueStep DEF CreateDDL, NoSuchLocale
<1>2. asks[c].op = "create" \/ (asks[c].op = "ensure" /\ SQL) BY <1>1, SentBy
<1>3. CASE NoSuchLocale(c)
  <2>1. dbs' = dbs /\ (answers' = answers \/ End(c, "error")) BY <1>3 DEF NoSuchLocale
  <2> QED BY <1>1, <2>1, Stutters, EndTells, MaySay
<1>4. CASE CreateDDL(c)
  <2>1. CASE SQL /\ There(c)
    <3>1. dbs' = dbs /\ End(c, "error") BY <1>4, <2>1 DEF CreateDDL
    <3> QED BY <1>1, <3>1, EndTells, MaySay
  <2>2. CASE ~(SQL /\ There(c))
    <3> DEFINE what == [Made(c) EXCEPT !.objs = @ \cup Collections(c)]
    <3>1. dbs' = With(dbs, Asked(c), what) /\ Replied(c) BY <1>4, <2>2 DEF CreateDDL
    <3>2. DOMAIN dbs' = DOMAIN dbs \cup {Asked(c)} BY <3>1 DEF With
    <3>3. \E says \in {Final(c), "error"} : answers' = [answers EXCEPT ![c] = says]
      BY <1>1, <3>1, WentOnSaying DEF Replied, End, Ending
    <3>4. Final(c) = IF asks[c].op = "ensure" THEN "made" ELSE "ok" BY <1>2 DEF Final
    <3>5. CASE ~There(c) BY <1>1, <1>2, <3>2, <3>3, <3>4, <3>5, Creates
    <3>6. CASE There(c)
      <4>1. DOMAIN dbs' = DOMAIN dbs BY <3>2, <3>6 DEF There
      <4>2. ~SQL /\ asks[c].op = "create" BY <1>2, <2>2, <3>6
      <4>3. \A says \in {Final(c), "error"} : says \in Promise!Honest(c, Asked(c))
        BY <3>4, <4>2, MaySay
      <4> QED BY <1>1, <3>3, <4>1, <4>3, Tells
    <3> QED BY <3>5, <3>6
  <2> QED BY <2>1, <2>2
<1> QED BY <1>3, <1>4

LEMMA DropMaps ==
  ASSUME ServersInv, NEW c \in Calls, Told' = Told, server' = server, DropDDL(c)
  PROVE  Atomically
<1>1. Due(c, "drop") /\ answers[c] = "none" BY DueStep DEF DropDDL
<1>2. asks[c].op = "drop" BY <1>1, SentBy
<1>3. Final(c) = "ok" BY <1>2 DEF Final
<1>4. CASE There(c)
  <2>1. dbs' = Without(dbs, Asked(c)) /\ Replied(c) BY <1>4 DEF DropDDL
  <2>2. DOMAIN dbs' = DOMAIN dbs \ {Asked(c)} BY <2>1 DEF Without
  <2>3. \E says \in {"ok", "error"} : answers' = [answers EXCEPT ![c] = says]
    BY <1>1, <1>3, <2>1, WentOnSaying DEF Replied, End, Ending
  <2> QED BY <1>1, <1>2, <1>4, <2>2, <2>3, Drops
<1>5. CASE ~There(c)
  <2>1. dbs' = dbs /\ (End(c, "error") \/ (~SQL /\ GoOn(c))) BY <1>5 DEF DropDDL
  <2>2. CASE End(c, "error") BY <1>1, <2>1, <2>2, EndTells, MaySay
  <2>3. CASE ~SQL /\ GoOn(c)
    <3>1. Final(c) \in Promise!Honest(c, Asked(c)) BY <1>3, <2>3, MaySay
    <3> QED BY <1>1, <2>1, <2>3, <3>1, GoTells
  <2> QED BY <2>1, <2>2, <2>3
<1> QED BY <1>4, <1>5

LEMMA RightsMap ==
  ASSUME ServersInv, NEW c \in Calls, Told' = Told, server' = server,
         CreateUser(c) \/ Grant(c) \/ GrantSchemas(c)
  PROVE  Atomically
<1>1. PICK w \in {"user", "grant", "schemagrants"} : Due(c, w)
  BY DEF CreateUser, Grant, GrantSchemas
<1>2. dbs' = dbs /\ (End(c, "error") \/ GoOn(c) \/ answers' = answers)
  BY DEF CreateUser, Grant, GrantSchemas, GrantSchema, Replied, Reads
<1>3. w # "start" OBVIOUS
<1>4. answers[c] = "none" /\ asks[c].op \in {"prepare", "migrate"} BY <1>1, <1>3, DueStep, SentBy
<1>5. Final(c) \in Promise!Honest(c, Asked(c)) BY <1>4, MaySay DEF Final
<1>6. "error" \in Promise!Honest(c, Asked(c)) BY MaySay
<1> QED BY <1>1, <1>2, <1>3, <1>4, <1>5, <1>6, EndTells, GoTells, Stutters

LEMMA LoadMaps ==
  ASSUME ServersInv, NEW c \in Calls, Told' = Told, server' = server, Load(c)
  PROVE  Atomically
<1>1. Due(c, "load") /\ answers[c] = "none" BY DueStep DEF Load
<1>2. asks[c].op = "migrate" /\ Asked(c) \in Names
  BY <1>1, SentBy DEF ServersInv, TypeInv, Asked, Asking
<1>3. Final(c) = "done" BY <1>2 DEF Final
<1>4. \/ End(c, "error")
      \/ GoOn(c)
      \/ answers' = answers
  BY DEF Load
<1>5. \/ answers' = answers
      \/ \E says \in {"done", "error"} : answers' = [answers EXCEPT ![c] = says]
  BY <1>1, <1>3, <1>4, WentOnSaying DEF End
<1>6. CASE DOMAIN dbs' = DOMAIN dbs
  <2>1. \A says \in {"done", "error"} : says \in Promise!Honest(c, Asked(c)) BY <1>2, MaySay
  <2> QED BY <1>1, <1>5, <1>6, <2>1, Stutters, Tells
<1>7. CASE DOMAIN dbs' # DOMAIN dbs
  <2>1. ~(SQL /\ ~There(c)) BY <1>7 DEF Load
  <2> DEFINE what == [schemas |-> (IF There(c) THEN dbs[Asked(c)].schemas ELSE {})
                                   \cup asks[c].schemas,
                      objs    |-> Collections(c) \cup Filled(c)]
  <2>2. dbs' = With(dbs, Asked(c), what) BY <2>1 DEF Load
  <2>3. DOMAIN dbs' = DOMAIN dbs \cup {Asked(c)} BY <2>2 DEF With
  <2>4. ~SQL BY <1>7, <2>1, <2>3 DEF There
  <2> QED BY <1>1, <1>2, <1>5, <2>3, <2>4, Brings, Migrates
<1> QED BY <1>6, <1>7

LEMMA RollbackMaps ==
  ASSUME ServersInv, NEW c \in Calls, Told' = Told, server' = server, rollbackDrop(c)
  PROVE  Atomically
<1>1. Due(c, "rollback") /\ answers[c] = "none" BY DueStep DEF rollbackDrop
<1>2. asks[c].op = "migrate" BY <1>1, SentBy
<1>3. End(c, "error") BY DEF rollbackDrop
<1>4. CASE DOMAIN dbs' = DOMAIN dbs BY <1>1, <1>3, <1>4, EndTells, MaySay
<1>5. CASE DOMAIN dbs' # DOMAIN dbs
  <2>1. PICK schemas : Teardown(c, schemas) BY DEF rollbackDrop
  <2> DEFINE left == Dropped(dbs[Asked(c)], known[c].objs, schemas)
  <2>4. \/ dbs' = dbs
        \/ ~SQL /\ dbs' = Without(dbs, Asked(c))
        \/ dbs' = [dbs EXCEPT ![Asked(c)] = left]
    BY <2>1 DEF Teardown
  <2>2. DOMAIN [dbs EXCEPT ![Asked(c)] = left] = DOMAIN dbs OBVIOUS
  <2> HIDE DEF left
  <2>3. ~SQL /\ DOMAIN dbs' = DOMAIN dbs \ {Asked(c)} BY <1>5, <2>2, <2>4 DEF Without
  <2> QED BY <1>1, <1>2, <1>3, <2>3, Migrates DEF End
<1> QED BY <1>4, <1>5

LEMMA NextMaps == ServersInv /\ Next => Atomically
<1> SUFFICES ASSUME ServersInv, Next PROVE Atomically OBVIOUS
<1>1. server' = server /\ Told' = Told BY CallMoves, SameTold
<1>2. ASSUME NEW c \in Calls, Start(c) PROVE Atomically
  <2>1. answers[c] = "none" /\ dbs' = dbs
        /\ (answers' = answers \/ answers' = [answers EXCEPT ![c] = "refused"])
    BY <1>2 DEF Start
  <2> QED BY <1>1, <2>1, Stutters, Tells, MaySay
<1>3. ASSUME NEW c \in Calls, Statement(c) PROVE Atomically
  BY <1>1, <1>3, ReadsMap, CreateMaps, DropMaps, RightsMap, LoadMaps, RollbackMaps DEF Statement
<1>4. ASSUME NEW c \in Calls, Break(c) PROVE Atomically
  <2>1. End(c, "error") /\ dbs' = dbs /\ todo[c] # <<>> BY <1>4 DEF Break
  <2>2. answers[c] = "none" BY <2>1 DEF ServersInv, Placed
  <2> QED BY <1>1, <2>1, <2>2, EndTells, MaySay
<1>5. ASSUME NEW name \in Names, NEW kind, NEW schema, Write(name, kind, schema) PROVE Atomically
  <2>1. answers' = answers /\ (SQL => name \in DOMAIN dbs) BY <1>5 DEF Write
  <2>2. DOMAIN dbs' = DOMAIN dbs \cup {name} BY <1>5 DEF Write, With
  <2>3. CASE SQL
    <3>1. DOMAIN dbs' = DOMAIN dbs BY <2>1, <2>2, <2>3
    <3> QED BY <1>1, <2>1, <3>1, Stutters
  <2>4. CASE ~SQL BY <1>1, <2>1, <2>2, <2>4, Brings
  <2> QED BY <2>3, <2>4
<1> QED BY <1>2, <1>3, <1>4, <1>5 DEF Next

\* Whatever the interleaving, a call makes or ends its database at one moment
\* or not at all, and its answer is true of a moment of the call
\* (CreateDatabase, DropDatabase, EnsureTargetDatabase).
THEOREM CallsTakeEffectOnce == Spec => TakesEffectOnce
<1>1. Init => Promise!Init
  <2> SUFFICES ASSUME Init PROVE Promise!Init OBVIOUS
  <2>1. DatabasesTyped BY InitTyped DEF ServersInv, TypeInv
  <2>2. answers = [c \in Calls |-> "none"] BY DEF Init
  <2> QED BY <2>1, <2>2 DEF Promise!Init, DatabasesTyped
<1>2. ServersInv /\ [Next]_vars => Atomically
  <2>1. CASE Next BY <2>1, NextMaps
  <2>2. CASE UNCHANGED vars
    <3>1. Told' = Told /\ server' = server /\ DOMAIN dbs' = DOMAIN dbs /\ answers' = answers
      BY <2>2 DEF vars, Told, Asked
    <3> QED BY <3>1, Stutters
  <2> QED BY <2>1, <2>2
<1>3. Promise!Spec <=> Promise!Init /\ [][Promise!Next]_<<Told, ~SQL, DOMAIN dbs, answers>>
  BY DEF Promise!Spec, Told
<1> QED BY <1>1, <1>2, <1>3, ServersTyped, PTL DEF Spec, TakesEffectOnce, Atomically

================================================================================
