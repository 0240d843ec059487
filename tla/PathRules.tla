----------------------------- MODULE PathRules -----------------------------
(***************************************************************************)
(* The path rules of a storage migration (src/data-mig/storagex/filter)    *)
(* and their two readers: MatchPath, which this program asks about an      *)
(* object, a staged file or a file it validates, and the arguments rsync   *)
(* is started with, which rsync reads by rules of its own.                 *)
(*                                                                         *)
(* A path is the sequence of segments between its slashes, so "/data" is   *)
(* <<"", "data">>, "bucket/docs/" is <<"bucket", "docs", "">>, and the     *)
(* empty string <<>>.  A pattern is taken apart the same way.              *)
(***************************************************************************)
EXTENDS Integers, Sequences, SequencesExt, FiniteSets, FiniteSetsExt

CONSTANTS
    Wild,    \* wildcard segment -> the names it matches ("*" matches all)
    Longer   \* <<a, b>> -> what follows a in b, where the name b begins with a

\* strings.Trim(p, "/"): the sample paths hold no empty segment inside.
Trim(p) == SelectSeq(p, LAMBDA s : s # "")

Glob(action, anchored, segs, dirOnly) ==
    [action |-> action, type |-> "glob", segs |-> segs,
     anchored |-> anchored, dirOnly |-> dirOnly, op |-> "", value |-> 0]
Size(action, op, value) ==
    [action |-> action, type |-> "size", segs |-> <<>>,
     anchored |-> FALSE, dirOnly |-> FALSE, op |-> op, value |-> value]

SegmentMatches(pat, name) ==
    \/ pat \in {"*", name}
    \/ pat \in DOMAIN Wild /\ name \in Wild[pat]

\* A leading "**/" stands for no folder or any, one inside for at least one.
MatchesFrom(segs, path) ==
    LET F[i \in 1..(Len(segs) + 1), j \in 1..(Len(path) + 1)] ==
            IF i > Len(segs) THEN j > Len(path)
            ELSE IF segs[i] = "**"
            THEN IF i = Len(segs) THEN i = 1 \/ j <= Len(path)
                 ELSE \E k \in (IF i = 1 THEN j ELSE j + 1)..(Len(path) + 1) :
                          F[i + 1, k]
            ELSE /\ j <= Len(path)
                 /\ SegmentMatches(segs[i], path[j])
                 /\ F[i + 1, j + 1]
    IN  F[1, 1]

\* A pattern that does not begin with a slash matches at any depth.
globMatch(r, path, isDir) ==
    /\ r.dirOnly => isDir
    /\ IF r.anchored THEN MatchesFrom(r.segs, path)
       ELSE \E k \in 1..Len(path) :
                MatchesFrom(r.segs, SubSeq(path, k, Len(path)))

sizeMatch(r, size) ==
    CASE r.op = ">"  -> size > r.value
      [] r.op = ">=" -> size >= r.value
      [] r.op = "<"  -> size < r.value
      [] r.op = "<=" -> size <= r.value
      [] r.op = "==" -> size = r.value

Matches(r, path, size, isDir) ==
    IF r.type = "glob" THEN globMatch(r, path, isDir) ELSE sizeMatch(r, size)

\* Of rules at positions that apply, the first: 0 for none.
FirstOf(hits) == IF hits = {} THEN 0 ELSE Min(hits)

matchRules(rules, path, size, isDir) ==
    LET i == FirstOf({k \in 1..Len(rules) : Matches(rules[k], path, size, isDir)})
    IN  i = 0 \/ rules[i].action = "include"

isCatchAllExclude(r) ==
    /\ r.action = "exclude" /\ r.type = "glob"
    /\ ~r.anchored /\ ~r.dirOnly
    /\ r.segs \in {<<"*">>, <<"**">>}

\* Folders pass a whitelist's catch-all, or nothing below them could.
withDirPass(rules) ==
    LET i == FirstOf({k \in 1..Len(rules) : isCatchAllExclude(rules[k])})
    IN  IF i = 0 \/ \A k \in 1..Len(rules) : rules[k].action # "include"
        THEN rules
        ELSE InsertAt(rules, i, Glob("include", FALSE, <<"*">>, TRUE))

Below(path) == {SubSeq(path, 1, k) : k \in 1..(Len(path) - 1)}

MatchPath(rules, rel, size, isDir) ==
    LET path == Trim(rel)
        eff  == withDirPass(rules)
        dirRules == SelectSeq(eff, LAMBDA r : r.type = "glob")
    IN  \/ path = <<>>
        \/ /\ matchRules(eff, path, size, isDir)
           /\ \A dir \in Below(path) : matchRules(dirRules, dir, 0, TRUE)

\* A path outside root is judged on what it is.
Rel(root, path) ==
    IF IsPrefix(Trim(root), Trim(path))
    THEN SubSeq(Trim(path), Len(Trim(root)) + 1, Len(Trim(path)))
    ELSE Trim(path)

(***************************************************************************)
(* What rsync is told.                                                     *)
(***************************************************************************)
\* No bound on a file's size.
NoMax == 999
NoMin == -1

RsyncExpressible(r) ==
    r.type = "size" =>
        /\ r.action = "exclude"
        /\ r.op # "=="
        /\ ~(r.op = ">=" /\ r.value <= 0)

\* The unshifted translation a threshold is easily given.
RsyncMaxUnshifted(r) == CASE r.op \in {">", ">="} -> r.value [] OTHER -> NoMax

RsyncMax(r) == CASE r.op = ">" -> r.value [] r.op = ">=" -> r.value - 1
                 [] OTHER -> NoMax
RsyncMin(r) == CASE r.op = "<" -> r.value [] r.op = "<=" -> r.value + 1
                 [] OTHER -> NoMin

LastOf(seq, none) ==
    LET set == SelectSeq(seq, LAMBDA v : v # none)
    IN  IF set = <<>> THEN none ELSE Last(set)

\* The last --max-size and the last --min-size are the ones rsync keeps.
rsyncFilterArgs(rules) ==
    LET eff   == withDirPass(rules)
        sizes == SelectSeq(eff, LAMBDA r : r.type = "size")
    IN  [ ok   |-> \A i \in 1..Len(eff) : RsyncExpressible(eff[i]),
          list |-> SelectSeq(eff, LAMBDA r : r.type = "glob"),
          max  |-> LastOf([i \in 1..Len(sizes) |-> RsyncMax(sizes[i])], NoMax),
          min  |-> LastOf([i \in 1..Len(sizes) |-> RsyncMin(sizes[i])], NoMin) ]

\* rsync: a folder its list excludes is not entered, and the size bounds are
\* asked of every file whatever the list says.
RsyncSends(args, path, size) ==
    /\ \A dir \in Below(path) : matchRules(args.list, dir, 0, TRUE)
    /\ matchRules(args.list, path, size, FALSE)
    /\ size <= args.max
    /\ size >= args.min

(***************************************************************************)
(* What the rules promise, read in order: an item goes with the first rule *)
(* that speaks of it, a folder that is left out takes what it holds with   *)
(* it, and a catch-all behind an include leaves the folders in.  Sizes are *)
(* asked of files alone.                                                   *)
(***************************************************************************)
Whitelists(rules, r) ==
    isCatchAllExclude(r) /\ \E k \in 1..Len(rules) : rules[k].action = "include"

Kept(rules, path, size) ==
    \A n \in 1..Len(path) :
        LET isFile == n = Len(path)
            said   == {i \in 1..Len(rules) :
                          /\ Matches(rules[i], SubSeq(path, 1, n), size, ~isFile)
                          /\ isFile \/ rules[i].type = "glob"}
        IN  \/ said = {}
            \/ rules[Min(said)].action = "include"
            \/ ~isFile /\ Whitelists(rules, rules[Min(said)])
=============================================================================
