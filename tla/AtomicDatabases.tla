-------------------------- MODULE AtomicDatabases --------------------------
(***************************************************************************)
(* What the server-level calls on a database promise, however many run at  *)
(* once: a call brings the database into being or ends it at one moment,   *)
(* or does neither, and what it answers is true of that moment.  A call    *)
(* that lost its connection answers "error", and then may or may not have  *)
(* had its effect.                                                         *)
(*                                                                         *)
(* MongoDB promises less.  A database there is the collections it holds:   *)
(* whoever writes one brings it into being, and a call that finds its work *)
(* done by another answers "ok" all the same.                              *)
(***************************************************************************)
CONSTANTS Calls, Databases

VARIABLES
    asks,    \* what each call was asked: [op, database, tolerant]
    lazy,    \* the server is MongoDB
    there,   \* the databases that exist
    answers  \* each call's answer, "none" before it

Creating == {"create", "ensure"}

\* What a call that changes nothing may say.
Honest(c, d) ==
    {"error", "refused"}
    \cup (IF lazy THEN {"ok"} ELSE {})
    \cup CASE asks[c].op = "create" ->
                 IF d \notin there THEN {} ELSE {IF asks[c].tolerant THEN "ok" ELSE "exists"}
           [] asks[c].op = "ensure" ->
                 IF d \in there THEN {"there"} ELSE IF lazy THEN {"made"} ELSE {}
           [] asks[c].op = "drop" ->
                 IF d \in there THEN {"notempty"} ELSE {IF asks[c].tolerant THEN "ok" ELSE "missing"}
           [] OTHER -> {"done", "notempty", "missing"}

Answer(c, says) == answers[c] = "none" /\ answers' = [answers EXCEPT ![c] = says]

Create(c) ==
    /\ asks[c].op \in Creating
    /\ asks[c].database \notin there
    /\ there' = there \cup {asks[c].database}
    /\ \E says \in {IF asks[c].op = "ensure" THEN "made" ELSE "ok", "error"} : Answer(c, says)
    /\ UNCHANGED <<asks, lazy>>

Drop(c) ==
    /\ asks[c].op = "drop"
    /\ asks[c].database \in there
    /\ there' = there \ {asks[c].database}
    /\ \E says \in {"ok", "error"} : Answer(c, says)
    /\ UNCHANGED <<asks, lazy>>

Tell(c) ==
    /\ \E says \in Honest(c, asks[c].database) : Answer(c, says)
    /\ UNCHANGED <<asks, lazy, there>>

\* A migration into a MongoDB server writes to its database, or empties it.
Migrate(c) ==
    /\ lazy /\ asks[c].op = "migrate"
    /\ \/ there' = there \cup {asks[c].database}
       \/ there' = there \ {asks[c].database}
    /\ \E says \in {"done", "error"} : Answer(c, says)
    /\ UNCHANGED <<asks, lazy>>

\* A client of a MongoDB server writes to a database.
Write(d) ==
    /\ lazy
    /\ there' = there \cup {d}
    /\ UNCHANGED <<asks, lazy, answers>>

Init ==
    /\ answers = [c \in Calls |-> "none"]
    /\ there \subseteq Databases

Next ==
    \/ \E c \in Calls : Create(c) \/ Drop(c) \/ Migrate(c) \/ Tell(c)
    \/ \E d \in Databases : Write(d)

Spec == Init /\ [][Next]_<<asks, lazy, there, answers>>
=============================================================================
