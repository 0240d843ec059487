------------------------------ MODULE ObjectCopies ------------------------------
(***************************************************************************)
(* One step of a storage transfer over object storage (storagex/           *)
(* executor-s3.go): objects are uploaded from files, downloaded to files   *)
(* or streamed from bucket to bucket, the large ones in parts.  Two lanes  *)
(* run side by side, each request is retried, the first failure cancels    *)
(* the rest, and a transfer that is cancelled cleans up after itself.      *)
(*                                                                         *)
(* A reply may be lost after the server did what it was asked.             *)
(***************************************************************************)
EXTENDS Naturals, Sequences, FiniteSets, FiniteSetsExt, SequencesExt

CONSTANTS
  Modes,           \* the executors, with what is at the destination
  Listing,         \* the objects as the source lists them, a sequence
  Size,            \* the size of each
  Foreign,         \* listed by string prefix, but not under the location
  PutLimit,        \* the largest object one PUT carries
  PartSize,        \* the length of every part but the last
  Attempts,        \* s3Attempts
  Concurrency,     \* the migration's concurrency
  MaxConnections   \* s3MaxConnections

Objects == ToSet(Listing)

ASSUME ModesAssumption ==
  Modes \subseteq [way : {"upload", "stream"}, dst : {"minio", "azure", "put"}, placed : {TRUE}]
                  \cup [way : {"download"}, dst : {"folder"}, placed : BOOLEAN]
ASSUME ListingAssumption == Listing \in Seq(Objects)
ASSUME SizesAssumption == Size \in [Objects -> Nat]
ASSUME LimitsAssumption ==
  {PutLimit, PartSize, Attempts, Concurrency, MaxConnections} \subseteq Nat \ {0}

VARIABLES
  mode,     \* the executor, what the destination is, whether keys can be placed
  run,      \* the position of the transfer and what it returned
  ctx,      \* its context is cancelled
  old,      \* what the destination held before is still there
  lane,     \* the two lanes: position, objects to go, and the errgroups' first errors
  obj,      \* each object: position, try, how far this try read, how far any did
  part,     \* the parts of the object that is written in parts
  dest,     \* each object at the destination
  upload,   \* each object's multipart upload on the server
  stray,    \* uploads the server opened and nobody here knows of
  total     \* s3Progress: bytes and files

vars == <<mode, run, ctx, old, lane, obj, part, dest, upload, stray, total>>

\* keyUnderPrefix keeps a bucket's listing by string prefix to the location.
Selected == IF mode.way = "upload" THEN Objects ELSE Objects \ Foreign

\* s3Objects and s3Parts.
ObjectsAtOnce == Concurrency
PartsAtOnce == Max({1, Min({Concurrency, MaxConnections - Concurrency})})

\* Only the SDK clients write in parts, above what one PUT carries.
CanMultipart == mode.way # "download" /\ mode.dst \in {"minio", "azure"}
InParts(o) == CanMultipart /\ Size[o] > PutLimit

Whole == {o \in Selected : ~InParts(o)}
Parted == {o \in Selected : InParts(o)}

\* largestFirst: by size, ties in listing order.
Place(o) == CHOOSE i \in DOMAIN Listing : Listing[i] = o
Precedes(o, p) == Size[o] > Size[p] \/ (Size[o] = Size[p] /\ Place(o) < Place(p))
LargestFirst(S) ==
  CHOOSE s \in [1..Cardinality(S) -> S] : \A i, j \in DOMAIN s : i < j => Precedes(s[i], s[j])

Parts(o) == (Size[o] + PartSize - 1) \div PartSize
PartLength(o, i) == Min({PartSize, Size[o] - (i - 1) * PartSize})
PartNumbers == 1..Max({1} \cup {Parts(o) : o \in Objects})

NoParts == [go |-> "check", next |-> 1, err |-> FALSE, written |-> 0,
            at |-> [i \in PartNumbers |-> [pc |-> "todo", try |-> 0]]]

Init ==
  /\ mode \in Modes
  /\ run = [pc |-> "list", result |-> ""]
  /\ ctx = FALSE
  /\ old = TRUE
  /\ lane = [whole |-> "check", wholes |-> <<>>, wholeErr |-> "",
             parted |-> "next", parteds |-> <<>>, err |-> ""]
  /\ obj = [o \in Objects |-> [pc |-> "todo", try |-> 0, read |-> 0, credited |-> 0]]
  /\ part = NoParts
  /\ dest = [o \in Objects |-> "absent"]
  /\ upload = [o \in Objects |-> "none"]
  /\ stray = FALSE
  /\ total = [bytes |-> 0, files |-> 0]

\* The contexts: an errgroup's is cancelled by its first error.
LanesCancelled == ctx \/ lane.err # ""
WholeCancelled == LanesCancelled \/ lane.wholeErr # ""
PartsCancelled == LanesCancelled \/ part.err

First(err, new) == IF err = "" THEN new ELSE err

-----------------------------------------------------------------------------
(* s3Progress.                                                             *)

CountTwice(o, pos) ==   \* mutant: what a try reads is added to what others read
  /\ total' = [total EXCEPT !.bytes = @ + pos - obj[o].read]
  /\ obj' = [obj EXCEPT ![o].read = pos, ![o].credited = Max({@, pos})]

\* credit: an object counts only what goes past its furthest try.
Credit(o, pos) ==
  LET credited == Max({obj[o].credited, pos})
  IN /\ total' = [total EXCEPT !.bytes = @ + credited - obj[o].credited]
     /\ obj' = [obj EXCEPT ![o].read = pos, ![o].credited = credited]

\* done, or finish: the rest of its size, and one more file.
Finished(o) == [bytes |-> total.bytes + Size[o] - obj[o].credited, files |-> total.files + 1]

-----------------------------------------------------------------------------
(* Listing, the checks before anything is sent, and the destination.       *)

Ends(result) == run' = [pc |-> "ended", result |-> result]
RunOnly == UNCHANGED <<mode, ctx, lane, obj, part, dest, upload, stray, total>>

\* forEachInLanes splits the order between its lanes.
Copies ==
  /\ run' = [run EXCEPT !.pc = "copy"]
  /\ lane' = [lane EXCEPT !.wholes = LargestFirst(Whole), !.parteds = LargestFirst(Parted)]
  /\ UNCHANGED <<mode, ctx, obj, part, dest, upload, stray, total>>

\* singlePutPreflight: a provider that only has PUT takes no larger object.
TooLarge == mode.dst = "put" /\ \E o \in Selected : Size[o] > PutLimit

\* The files, or the objects, are listed; the listing may fail.  Then the checks: a
\* download places every key at a local path, or refuses them all.
Refused == Ends("failed") /\ RunOnly
UploadLists ==
  /\ run.pc = "list" /\ mode.way = "upload"
  /\ Refused \/ (~TooLarge /\ Copies)
  /\ UNCHANGED old
StreamLists ==
  /\ run.pc = "list" /\ mode.way = "stream"
  /\ Refused \/ (~TooLarge /\ Copies)
  /\ UNCHANGED old
DownloadLists ==
  /\ run.pc = "list" /\ mode.way = "download"
  /\ Refused \/ (mode.placed /\ run' = [run EXCEPT !.pc = "clear"] /\ RunOnly)
  /\ UNCHANGED old

\* The download replaces what is at its destination.
Clear ==
  /\ run.pc = "clear"
  /\ old' = FALSE
  /\ Copies \/ (Ends("failed") /\ RunOnly)

Cancel ==
  /\ run.pc # "ended" /\ ~ctx
  /\ ctx' = TRUE
  /\ UNCHANGED <<mode, run, old, lane, obj, part, dest, upload, stray, total>>

-----------------------------------------------------------------------------
(* forEachConcurrently: the lane of objects written whole.                 *)

Copying == run.pc = "copy"
Active(o) == obj[o].pc \notin {"todo", "done", "failed", "cancelled"}
ActiveWhole == {o \in Whole : Active(o)}
LaneOnly == UNCHANGED <<mode, run, ctx, old, part, dest, upload, stray, total>>

\* The loop looks at the context, and only then waits for a free slot.
CheckWhole ==
  /\ Copying /\ lane.whole = "check"
  /\ lane' = [lane EXCEPT !.whole =
        IF lane.wholes = <<>> \/ WholeCancelled THEN "wait" ELSE "go"]
  /\ UNCHANGED obj /\ LaneOnly
GoWhole ==
  /\ Copying /\ lane.whole = "go"
  /\ Cardinality(ActiveWhole) < ObjectsAtOnce
  /\ obj' = [obj EXCEPT ![Head(lane.wholes)].pc = "queued"]
  /\ lane' = [lane EXCEPT !.whole = "check", !.wholes = Tail(@)]
  /\ LaneOnly

\* One goroutine ends; the first error of the group counts.
WholeEnds(o, pc) ==
  /\ obj' = [obj EXCEPT ![o].pc = pc, ![o].credited = IF pc = "done" THEN Size[o] ELSE @]
  /\ lane' = [lane EXCEPT !.wholeErr = IF pc = "done" THEN @ ELSE First(@, pc)]

\* A slot can free up after the cancellation that should stop it.
Begin(o) ==
  /\ Copying /\ obj[o].pc = "queued"
  /\ IF WholeCancelled THEN WholeEnds(o, "cancelled")
     ELSE /\ obj' = [obj EXCEPT ![o].pc = "trying", ![o].try = 1]
          /\ UNCHANGED lane
  /\ LaneOnly

\* countingReader, on a stream: the upload reads the body.
Reads(o) ==
  /\ Copying /\ mode.way = "stream"
  /\ obj[o].pc = "trying" /\ obj[o].read < Size[o]
  /\ Credit(o, obj[o].read + 1)
  /\ UNCHANGED <<mode, run, ctx, old, lane, part, dest, upload, stray>>

Succeeds(o) ==
  /\ Copying /\ obj[o].pc = "trying"
  /\ mode.way = "stream" => obj[o].read = Size[o]
  /\ dest' = [dest EXCEPT ![o] = "whole"]
  /\ total' = Finished(o)
  /\ WholeEnds(o, "done")
  /\ UNCHANGED <<mode, run, ctx, old, part, upload, stray>>

\* What a failed try leaves.  A PUT took effect or not, and a stream's only with its
\* whole body; a download leaves the file it created as far as it got.
LeftByUpload(o) == {dest[o], "whole"}
LeftByCopy(o) == IF obj[o].read < Size[o] THEN {dest[o]} ELSE {dest[o], "whole"}
LeftByDownload(o) == {dest[o], "partial"}
LeftByTry(o) ==
  CASE mode.way = "upload" -> LeftByUpload(o)
    [] mode.way = "stream" -> LeftByCopy(o)
    [] mode.way = "download" -> LeftByDownload(o)

GivesUpHiding(o) ==   \* mutant: an error is not told from the cancellation it caused
  WholeEnds(o, "cancelled")
\* withRetry gave up: the caller's context decides which error it is.
GivesUp(o) == WholeEnds(o, IF WholeCancelled THEN "cancelled" ELSE "failed")

\* withRetry: a permanent error, a cancelled context and the last try end it.
TryFails(o) ==
  /\ Copying /\ obj[o].pc = "trying"
  /\ \E left \in LeftByTry(o) : dest' = [dest EXCEPT ![o] = left]
  /\ \E permanent \in BOOLEAN :
       IF permanent \/ WholeCancelled \/ obj[o].try = Attempts THEN GivesUp(o)
       ELSE obj' = [obj EXCEPT ![o].pc = "backoff"] /\ UNCHANGED lane
  /\ UNCHANGED <<mode, run, ctx, old, part, upload, stray, total>>
TriesAgain(o) ==
  /\ Copying /\ obj[o].pc = "backoff"
  /\ obj' = [obj EXCEPT ![o].pc = "trying", ![o].try = @ + 1, ![o].read = 0]
  /\ UNCHANGED lane /\ LaneOnly
StopsWaiting(o) ==
  /\ Copying /\ obj[o].pc = "backoff" /\ WholeCancelled
  /\ GivesUp(o)
  /\ LaneOnly

WholeLaneEndsFull ==   \* mutant: it waits for every object, started or not
  /\ Copying /\ lane.whole = "wait" /\ \A o \in Whole : obj[o].pc # "todo" /\ ~Active(o)
  /\ LET err == First(lane.wholeErr, IF LanesCancelled THEN "cancelled" ELSE "")
     IN lane' = [lane EXCEPT !.whole = "ended", !.err = First(@, err)]
  /\ UNCHANGED obj /\ LaneOnly
\* g.Wait, and the context's error when nothing failed.
WholeLaneEnds ==
  /\ Copying /\ lane.whole = "wait" /\ ActiveWhole = {}
  /\ LET err == First(lane.wholeErr, IF LanesCancelled THEN "cancelled" ELSE "")
     IN lane' = [lane EXCEPT !.whole = "ended", !.err = First(@, err)]
  /\ UNCHANGED obj /\ LaneOnly

-----------------------------------------------------------------------------
(* forEachInLanes' other lane: objects in parts, one at a time, in order;  *)
(* and runMultipart.                                                       *)

Current == Head(lane.parteds)
PartedIs(pc) == Copying /\ lane.parted = "busy" /\ obj[Current].pc = pc
ObjGoto(o, pc) == obj' = [obj EXCEPT ![o].pc = pc, ![o].try = 1]

PartedNext ==
  /\ Copying /\ lane.parted = "next"
  /\ IF lane.parteds = <<>>
     THEN lane' = [lane EXCEPT !.parted = "ended"] /\ UNCHANGED <<obj, part>>
     ELSE IF LanesCancelled
     THEN /\ lane' = [lane EXCEPT !.parted = "ended", !.err = First(@, "cancelled")]
          /\ UNCHANGED <<obj, part>>
     ELSE /\ lane' = [lane EXCEPT !.parted = "busy"]
          /\ ObjGoto(Current, "starting")
          /\ part' = NoParts
  /\ UNCHANGED <<mode, run, ctx, old, dest, upload, stray, total>>

PartedEnds(pc) ==
  /\ obj' = [obj EXCEPT ![Current].pc = pc,
                        ![Current].credited = IF pc = "done" THEN Size[Current] ELSE @]
  /\ lane' = IF pc = "done" THEN [lane EXCEPT !.parted = "next", !.parteds = Tail(@)]
             ELSE [lane EXCEPT !.parted = "ended", !.err = First(@, pc)]
PartedError == IF LanesCancelled THEN "cancelled" ELSE "failed"

\* A request of the lane failed: try it again, or go on as withRetry's caller does.
RetryOr(GiveUp) ==
  \E permanent \in BOOLEAN :
    IF permanent \/ LanesCancelled \/ obj[Current].try = Attempts THEN GiveUp
    ELSE obj' = [obj EXCEPT ![Current].try = @ + 1] /\ UNCHANGED lane

\* startMultipart: a lost reply leaves an S3 upload whose id is not known here, while
\* Azure keeps nothing before the first block.
StrayAfterFailedStart == IF mode.dst = "minio" THEN {stray, TRUE} ELSE {stray}
Start ==
  /\ PartedIs("starting")
  /\ \/ /\ ObjGoto(Current, "parts") /\ UNCHANGED <<lane, stray>>
        /\ upload' = [upload EXCEPT ![Current] = "open"]
     \/ /\ RetryOr(PartedEnds(PartedError))
        /\ stray' \in StrayAfterFailedStart
        /\ UNCHANGED upload
  /\ UNCHANGED <<mode, run, ctx, old, part, dest, total>>

\* The loop over the parts: the context, then a free slot of the parts' group.
PartOnly == UNCHANGED <<mode, run, ctx, old, lane, dest, upload, stray>>
PartsInFlight == {i \in PartNumbers : part.at[i].pc \in {"trying", "backoff"}}
CheckPart ==
  /\ PartedIs("parts") /\ part.go = "check"
  /\ part' = [part EXCEPT
       !.go = IF part.next > Parts(Current) \/ PartsCancelled THEN "wait" ELSE "go"]
  /\ UNCHANGED <<obj, total>> /\ PartOnly
GoPart ==
  /\ PartedIs("parts") /\ part.go = "go"
  /\ Cardinality(PartsInFlight) < PartsAtOnce
  /\ part' = [part EXCEPT !.go = "check", !.next = @ + 1,
                          !.at[part.next] = [pc |-> "trying", try |-> 1]]
  /\ UNCHANGED <<obj, total>> /\ PartOnly

\* A part landed: what has been written so far is credited.
PartLands(i) ==
  /\ PartedIs("parts") /\ part.at[i].pc = "trying"
  /\ part' = [part EXCEPT !.at[i].pc = "landed", !.written = @ + PartLength(Current, i)]
  /\ Credit(Current, part.written + PartLength(Current, i))
  /\ PartOnly
PartFails(i) ==
  /\ PartedIs("parts") /\ part.at[i].pc = "trying"
  /\ \E permanent \in BOOLEAN :
       part' = IF permanent \/ PartsCancelled \/ part.at[i].try = Attempts
               THEN [part EXCEPT !.at[i].pc = "failed", !.err = TRUE]
               ELSE [part EXCEPT !.at[i].pc = "backoff"]
  /\ UNCHANGED <<obj, total>> /\ PartOnly
PartTriesAgain(i) ==
  /\ PartedIs("parts") /\ part.at[i].pc = "backoff"
  /\ part' = [part EXCEPT !.at[i] = [pc |-> "trying", try |-> @.try + 1]]
  /\ UNCHANGED <<obj, total>> /\ PartOnly
PartStopsWaiting(i) ==
  /\ PartedIs("parts") /\ part.at[i].pc = "backoff" /\ PartsCancelled
  /\ part' = [part EXCEPT !.at[i].pc = "failed", !.err = TRUE]
  /\ UNCHANGED <<obj, total>> /\ PartOnly

PartsEndUnasked ==   \* mutant: only a part's own failure keeps the rest from being joined
  /\ PartedIs("parts") /\ part.go = "wait" /\ PartsInFlight = {}
  /\ ObjGoto(Current, IF part.err THEN "aborting" ELSE "joining")
  /\ UNCHANGED part /\ UNCHANGED total /\ PartOnly
\* g.Wait, and then ctx.Err: the loop may have stopped before the last part.
PartsEnd ==
  /\ PartedIs("parts") /\ part.go = "wait" /\ PartsInFlight = {}
  /\ ObjGoto(Current, IF part.err \/ LanesCancelled THEN "aborting" ELSE "joining")
  /\ UNCHANGED part /\ UNCHANGED total /\ PartOnly

\* complete, whose reply may be lost.  A later try finds the S3 upload gone and
\* looks for the object instead; Azure commits the same blocks again.  An object is
\* whole when none of its parts is missing from the join.
AllLanded == \A i \in 1..Parts(Current) : part.at[i].pc = "landed"
Joined ==
  /\ upload' = [upload EXCEPT ![Current] = "joined"]
  /\ dest' = [dest EXCEPT ![Current] = IF AllLanded THEN "whole" ELSE "partial"]
Join ==
  /\ PartedIs("joining")
  /\ \/ Joined /\ PartedEnds("done") /\ total' = Finished(Current)
     \/ /\ RetryOr(ObjGoto(Current, "aborting") /\ UNCHANGED lane)
        /\ Joined \/ UNCHANGED <<upload, dest>>
        /\ UNCHANGED total
  /\ UNCHANGED <<mode, run, ctx, old, part, stray>>

\* abort's outcome is ignored, and Azure offers no such call.
LeftByAbort == IF mode.dst = "azure" THEN {"left"} ELSE {"discarded", "left"}
AbortUnderContext ==   \* mutant: the request ends with the context it is sent under
  /\ PartedIs("aborting")
  /\ upload' = [upload EXCEPT ![Current] =
        IF @ = "joined" THEN @ ELSE IF LanesCancelled THEN "open" ELSE "discarded"]
  /\ PartedEnds(PartedError)
  /\ UNCHANGED <<mode, run, ctx, old, part, dest, stray, total>>
\* It is sent under a context of its own; a joined upload has nothing to discard.
Abort ==
  /\ PartedIs("aborting")
  /\ \E left \in LeftByAbort :
       upload' = [upload EXCEPT ![Current] = IF @ = "joined" THEN @ ELSE left]
  /\ PartedEnds(PartedError)
  /\ UNCHANGED <<mode, run, ctx, old, part, dest, stray, total>>

-----------------------------------------------------------------------------

\* Both lanes ended: the first error of either, or the context's.
End ==
  /\ Copying /\ lane.whole = "ended" /\ lane.parted = "ended"
  /\ Ends(IF lane.err # "" THEN lane.err ELSE IF ctx THEN "cancelled" ELSE "ok")
  /\ UNCHANGED old /\ RunOnly

\* Requests, each of which may take for ever, and what goroutines do by themselves.
WholeRequest == \E o \in Selected : Reads(o) \/ Succeeds(o) \/ TryFails(o)
PartedRequest == Start \/ Join \/ \E i \in PartNumbers : PartLands(i) \/ PartFails(i)
OwnRequest == UploadLists \/ StreamLists \/ DownloadLists \/ Clear \/ Abort
Internal ==
  \/ CheckWhole \/ GoWhole \/ WholeLaneEnds \/ PartedNext \/ CheckPart \/ GoPart \/ PartsEnd \/ End
  \/ \E o \in Selected : Begin(o) \/ TriesAgain(o) \/ StopsWaiting(o)
  \/ \E i \in PartNumbers : PartTriesAgain(i) \/ PartStopsWaiting(i)

Next == Cancel \/ WholeRequest \/ PartedRequest \/ OwnRequest \/ Internal

Spec == Init /\ [][Next]_vars

\* Goroutines are scheduled and timers fire.  Nothing is assumed of requests: those
\* that carry a body have no timeout (presignedClient).
FairSpec == Spec /\ WF_vars(Internal)

\* What is sent under a context ends once that is cancelled, provided that the
\* presigned URL asked for first is answered: no context reaches GeneratePresignedURL.
CancelledRequestsEnd ==
  WF_vars(WholeCancelled /\ WholeRequest) /\ WF_vars(PartsCancelled /\ PartedRequest)

\* What runs under no cancellable context: the listing, the local directory, abort.
OwnRequestsEnd == WF_vars(OwnRequest)

-----------------------------------------------------------------------------
(* Properties.                                                             *)

\* The bytes of the selected objects.
TotalSize == Cardinality(UNION {{o} \X (1..Size[o]) : o \in Selected})

\* What Execute returns and shows is true: nil only with every selected object whole
\* at the destination, a cancellation only if somebody outside asked for it, not the
\* one a failure caused (forEachInLanes); the totals count a byte once, however
\* often its object is started over and its parts land (s3Progress.credit), and an
\* object only when the destination has all of it (the ctx.Err after g.Wait).
ResultIsTrue ==
  /\ total.bytes <= TotalSize
  /\ total.files = Cardinality({o \in Selected : obj[o].pc = "done"})
  /\ \A o \in Selected : obj[o].pc = "done" => dest[o] = "whole"
  /\ run.result = "ok" =>
       /\ \A o \in Selected : dest[o] = "whole"
       /\ total = [bytes |-> TotalSize, files |-> Cardinality(Selected)]
  /\ run.result = "cancelled" => ctx
  /\ run.result = "failed" /\ lane.err # "" => \E o \in Selected : obj[o].pc = "failed"

\* No upload is left half written on the server by a transfer that has returned,
\* except those it asked the server to discard in vain (runMultipart's defer).
NothingLeftOpen == run.pc = "ended" => \A o \in Objects : upload[o] # "open"

\* A cancelled transfer returns, and so does one in which an object failed, provided
\* that requests end which are cancelled or cannot be: nobody waits for a slot, for a
\* timer, or for a request of the other lane that goes on.
TransferReturns ==
  CancelledRequestsEnd /\ OwnRequestsEnd =>
    (ctx \/ \E o \in Objects : obj[o].pc = "failed") ~> run.pc = "ended"

=============================================================================
