-------------------------------- MODULE Clips --------------------------------
(***************************************************************************)
(* The clips of the drive browser: a page that is to show a segment asks   *)
(* /prepare until it hears that the video is ready, which it then gets, or *)
(* that it cannot be had, each request in a thread of the server's, and a  *)
(* segment without a clip is encoded in a thread of its own into a .part   *)
(* file, which takes the clip's name when it is whole.                     *)
(*                                                                         *)
(* Encodes of one segment share that file and that name, so what is told   *)
(* of an encoder is where the file it writes to is by now.                 *)
(***************************************************************************)
EXTENDS Naturals, Sequences, SequencesExt, FiniteSets

CONSTANTS
  Segments, Pages,
  Earlier,             \* a segment shown long ago
  CacheKeep,           \* CACHE_KEEP
  MaxAsks, MaxEncodes, \* bounds: what the viewers ask for, encodes at once
  MaxDeletedSegments   \* bound: segments the deleter takes

ASSUME ClipsAssumption ==
  /\ Earlier \notin Segments /\ CacheKeep \in Nat \ {0}
  /\ {MaxAsks, MaxEncodes, MaxDeletedSegments} \subseteq Nat

VARIABLES
  page,                \* page[p]: what it waits for or shows, and how far its request is
  clips,               \* the segments that have a clip, newest first
  part,                \* those that have a .part file
  working, failed,     \* the cache's sets
  encodes,             \* encodes[e]: the segment, how far, and where the file is that it writes to
  deleted,             \* the segments the deleter took
  twins,               \* history: the segments encoded twice at once,
  stolen,                \*   and those of which an encoder's file had gone when it was whole
  asks

clipVars == <<page, clips, part, working, failed, encodes, deleted, twins, stolen, asks>>

Threads == 1..MaxEncodes
NoPage == [at |-> "idle", name |-> CHOOSE n \in Segments : TRUE]
NoEncode == [name |-> NoPage.name, pc |-> "over", file |-> "none"]

ClipsInit ==
  /\ page = [p \in Pages |-> NoPage] /\ encodes = [e \in Threads |-> NoEncode]
  /\ part = {} /\ working = {} /\ failed = {} /\ deleted = {}
  /\ twins = {} /\ stolen = {} /\ asks = 0
  \* the cache outlives the process: it is empty or full, of segments shown long ago or of one
  \* that is shown again
  /\ \/ clips = <<>>
     \/ \E n \in Segments \cup {Earlier} : clips = [i \in 1..CacheKeep |-> IF i = CacheKeep THEN n ELSE Earlier]

Ready(n) == n \in ToSet(clips)
\* The encodes of it that are not over.
EncodesOf(n) == {e \in Threads : encodes[e].name = n /\ encodes[e].pc # "over"}
\* A clip that an encoder still writes to.
Torn(n) == \E e \in EncodesOf(n) : encodes[e].file = "clip"

-----------------------------------------------------------------------------
\* Pages

\* What a page may end at: a video, whole or not, or the word that there is none.
Ends == {"video", "torn", "error", "notFound"}

\* A viewer plays or downloads a segment, or the deleter takes one.
Ask(p, n) ==
  /\ asks < MaxAsks /\ page[p].at \in Ends \cup {"idle"} /\ n \notin deleted
  /\ page' = [page EXCEPT ![p] = [at |-> "path", name |-> n]] /\ asks' = asks + 1
  /\ UNCHANGED <<clips, part, working, failed, encodes, deleted, twins, stolen>>

SegmentDeleted(n) ==
  /\ Cardinality(deleted) < MaxDeletedSegments /\ deleted' = deleted \cup {n}
  /\ UNCHANGED <<page, clips, part, working, failed, encodes, twins, stolen, asks>>

Answer(p, at) == page' = [page EXCEPT ![p].at = at]

\* do_GET and the first look of status: a segment that is gone is not found, whatever the cache has.
LookAtPath(p) ==
  LET n == page[p].name IN
  /\ page[p].at = "path"
  /\ Answer(p, IF n \in deleted THEN "error" ELSE IF Ready(n) THEN "fetch" ELSE "sets")
  /\ UNCHANGED <<clips, part, working, failed, encodes, deleted, twins, stolen, asks>>

\* status under the lock.  A page that hears "working" asks again.
LookAtSets(p) ==
  LET n == page[p].name IN
  /\ page[p].at = "sets"
  /\ Answer(p, IF n \in working THEN "path" ELSE IF n \in failed THEN "error" ELSE "begin")
  /\ UNCHANGED <<clips, part, working, failed, encodes, deleted, twins, stolen, asks>>

\* A page that heard "ready" gets the video, if it is still there.
LookAtVideo(p) ==
  LET n == page[p].name IN
  /\ page[p].at = "fetch"
  /\ Answer(p, IF n \in deleted \/ ~Ready(n) THEN "notFound" ELSE IF Torn(n) THEN "torn" ELSE "video")
  /\ UNCHANGED <<clips, part, working, failed, encodes, deleted, twins, stolen, asks>>

\* The rest of prepare: without a source the segment is unsupported for good.
Started(n) == [name |-> n, pc |-> "open", file |-> "none"]
Prepare(p) ==
  LET n == page[p].name IN
  /\ page[p].at = "begin"
  /\ \/ /\ n \in deleted
        /\ failed' = failed \cup {n} /\ Answer(p, "error") /\ UNCHANGED <<working, encodes, twins>>
     \/ /\ n \notin deleted
        /\ working' = working \cup {n} /\ Answer(p, "path") /\ UNCHANGED failed
        /\ \E e \in Threads :
             /\ encodes[e].pc = "over" /\ \A f \in 1..(e - 1) : encodes[f].pc # "over"
             /\ encodes' = [encodes EXCEPT ![e] = Started(n)]
        /\ twins' = IF EncodesOf(n) = {} THEN twins ELSE twins \cup {n}
  /\ UNCHANGED <<clips, part, deleted, stolen, asks>>

-----------------------------------------------------------------------------
\* _encode

\* The encodes when the files of some segments are moved, which their encoders follow.
Moved(names, from, to) ==
  [e \in Threads |-> IF encodes[e].name \in names /\ encodes[e].file = from
                     THEN [encodes[e] EXCEPT !.file = to] ELSE encodes[e]]
\* One goes on, and writes no more.
GoesOn(e, pc) == encodes' = [encodes EXCEPT ![e].pc = pc, ![e].file = "none"]

\* The encoder opens the .part file, creating it if there is none.
EncoderOpens(e) ==
  /\ encodes[e].pc = "open" /\ part' = part \cup {encodes[e].name}
  /\ encodes' = [encodes EXCEPT ![e].pc = "run", ![e].file = "part"]
  /\ UNCHANGED <<page, clips, working, failed, deleted, twins, stolen, asks>>

\* The encoder is done: os.replace takes the place of the clip there was, and fails when the file
\* has gone.
Others(n) == SelectSeq(clips, LAMBDA m : m # n)
Replace(e) ==
  LET n == encodes[e].name IN
  /\ encodes[e].pc = "run"
  /\ \/ /\ n \in part /\ part' = part \ {n} /\ clips' = <<n>> \o Others(n)
        /\ encodes' = [f \in Threads |->
             IF f = e THEN [encodes[f] EXCEPT !.pc = "prune", !.file = "none"]
             ELSE IF encodes[f].name = n /\ encodes[f].file = "part" THEN [encodes[f] EXCEPT !.file = "clip"]
             ELSE IF encodes[f].name = n /\ encodes[f].file = "clip" THEN [encodes[f] EXCEPT !.file = "gone"]
             ELSE encodes[f]]
        /\ UNCHANGED <<failed, stolen>>
     \/ /\ n \notin part /\ GoesOn(e, "done") /\ failed' = failed \cup {n} /\ stolen' = stolen \cup {n}
        /\ UNCHANGED <<clips, part>>
  /\ UNCHANGED <<page, working, deleted, twins, asks>>

\* The oldest clips beyond the limit go.
Pruned(limit) == SubSeq(clips, 1, IF Len(clips) < limit THEN Len(clips) ELSE limit)
Prune(e) ==
  LET old == ToSet(clips) \ ToSet(Pruned(CacheKeep)) IN
  /\ encodes[e].pc = "prune"
  /\ clips' = Pruned(CacheKeep)
  /\ encodes' = [Moved(old, "clip", "gone") EXCEPT ![e].pc = "done"]
  /\ UNCHANGED <<page, part, working, failed, deleted, twins, stolen, asks>>

Fail(e) ==
  /\ encodes[e].pc = "run" /\ GoesOn(e, "done")
  /\ failed' = failed \cup {encodes[e].name}
  /\ UNCHANGED <<page, clips, part, working, deleted, twins, stolen, asks>>

\* finally: the segment is not worked on any more, and then the .part file goes, whoever's it is.
Discard(e) ==
  /\ encodes[e].pc = "done" /\ GoesOn(e, "unlink")
  /\ working' = working \ {encodes[e].name}
  /\ UNCHANGED <<page, clips, part, failed, deleted, twins, stolen, asks>>
Unlink(e) ==
  LET n == encodes[e].name IN
  /\ encodes[e].pc = "unlink" /\ part' = part \ {n}
  /\ encodes' = [Moved({n}, "part", "gone") EXCEPT ![e] = NoEncode]
  /\ UNCHANGED <<page, clips, working, failed, deleted, twins, stolen, asks>>

Request(p) == LookAtPath(p) \/ LookAtSets(p) \/ Prepare(p) \/ LookAtVideo(p)
Encode(e) == EncoderOpens(e) \/ Replace(e) \/ Prune(e) \/ Fail(e) \/ Discard(e) \/ Unlink(e)

ClipsNext ==
  \/ \E p \in Pages : Request(p) \/ \E n \in Segments : Ask(p, n)
  \/ \E n \in Segments : SegmentDeleted(n)
  \/ \E e \in Threads : Encode(e)

\* The browser alone, as in the runs of all daemons and in the proofs.
ClipsSpec == ClipsInit /\ [][ClipsNext]_clipVars

-----------------------------------------------------------------------------
\* Properties

\* No page gets a clip that is still written to, nor hears that there is none unless the segment
\* is gone or its encoder did fail, but for a segment that was encoded twice at once, the one into
\* the other's file.
PagesToldRight ==
  \A p \in Pages :
    /\ page[p].at = "torn" => page[p].name \in twins
    /\ page[p].at = "error" => page[p].name \in deleted \cup (failed \ stolen) \cup twins

=============================================================================
