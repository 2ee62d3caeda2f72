------------------------------ MODULE Footage ------------------------------
(***************************************************************************)
(* The dashcam's footage: who writes the segment directories, who marks    *)
(* them, and who deletes them.                                             *)
(*                                                                         *)
(*   loggerd   records one segment after another (a directory with a lock  *)
(*             file while it is written) and marks the current one         *)
(*             user.preserve when a userBookmark arrives, which incidentd  *)
(*             sends by itself;                                            *)
(*   the drive browser sets and removes user.keep on a range of segments;  *)
(*   deleter   when space is short, removes the oldest directory it can,   *)
(*             ordinary ones first, then preserved, then kept.  It reads   *)
(*             user.preserve through a cache that lives as long as its     *)
(*             process.                                                    *)
(*                                                                         *)
(* They share nothing but the directories.  A segment is <<route, n>>:     *)
(* routes are numbered by the RouteCount param, so the pairs are in        *)
(* creation order and the names sort in that order.                        *)
(***************************************************************************)
EXTENDS Integers, FiniteSets, Functions

CONSTANTS
  Routes, Parts,       \* bounds: routes recorded, segments of a route
  Size,                \* bytes of a segment, by segment
  MaxLogBytes,         \* the cap on the log root, 80 GB in the code
  KeepBudgetBytes,     \* kept footage protected up to this much, 20 GB
  KeepSpan,            \* segments kept on each side of the pressed one, 10
  PreserveCount,       \* marks that user.preserve protects, 5
  PreservePrior,       \* segments protected ahead of a marked one, 2
  MaxIncidents, MaxRequests,   \* bounds: bookmarks handled, Keep and Release presses
  MaxFaults            \* bound: power losses, reboots between drives, rmtrees that raise

Segments == (1..Routes) \X (0..(Parts - 1))

ASSUME FootageAssumption ==
  /\ Parts # 0
  /\ {Routes, Parts, MaxLogBytes, KeepBudgetBytes, KeepSpan, PreserveCount, PreservePrior,
      MaxIncidents, MaxRequests, MaxFaults} \subseteq Nat
  /\ Size \in [Segments -> Nat \ {0}]

VARIABLES
  \* the log root: directories, the locked ones, and those with each mark
  dirs, locked, preserveAttr, keepAttr,
  \* loggerd: next() makes the directory, then its lock; prevSegment is the static of
  \* handle_preserve_segment; bookmark is the segment during which the bookmark waiting in
  \* loggerd's socket was sent
  lpc, route, part, prevSegment, bookmark,
  \* deleter: what getxattr cached, and the step under way
  cache, dpc, plan,
  \* the drive browser: segments of the request under way that are still to be marked
  marking,
  \* the presses and the faults so far
  requests, faults,
  \* history: the segments whose bookmark was handled; what held when deleter last listed
  \* the root (the segment being recorded, whether it was locked, the marks)
  incidents, seen

rootVars == <<dirs, locked, preserveAttr, keepAttr>>
loggerdVars == <<lpc, route, part, prevSegment, bookmark, incidents>>
deleterVars == <<cache, dpc, plan, seen>>
browserVars == <<marking, requests>>
vars == <<rootVars, loggerdVars, deleterVars, browserVars, faults>>

None == <<0, 0>>
current == <<route, part>>
NoPlan == [listed |-> {}, preserved |-> {}, kept |-> {}, todo |-> {}, failed |-> {}]
NothingSeen == [recording |-> None, running |-> FALSE, marks |-> {}]
NoRequest == [todo |-> {}, wanted |-> FALSE]

Init ==
  /\ dirs = {} /\ locked = {} /\ preserveAttr = {} /\ keepAttr = {}
  /\ lpc = "down" /\ route = 0 /\ part = 0 /\ prevSegment = -1 /\ bookmark = None
  /\ cache = [s \in Segments |-> "unknown"] /\ dpc = "idle" /\ plan = NoPlan
  /\ marking = NoRequest /\ requests = 0 /\ faults = 0
  /\ incidents = {} /\ seen = NothingSeen

-----------------------------------------------------------------------------
\* Names, sizes and marks

\* listdir_by_creation's order.
Older(d, e) == d[1] < e[1] \/ (d[1] = e[1] /\ d[2] < e[2])

Bytes(S) == SumFunctionOnSet(Size, S)

\* A marked segment protects itself and the ones just before it in its route.
MutPreserveRange(d) == {<<d[1], n>> : n \in {d[2]}}
PreserveRange(d) ==
  {<<d[1], n>> : n \in {k \in 0..(Parts - 1) : d[2] - PreservePrior <= k /\ k <= d[2]}}

\* keep.keep_range and keep.route_segments.
KeepRange(d, span) ==
  {e \in dirs : e[1] = d[1] /\ e[2] - d[2] <= span /\ d[2] - e[2] <= span}
RouteSegments(d) == {e \in dirs : e[1] = d[1]}

\* Segments newer than d among S.
NewerThan(d, S) == {e \in S : Older(d, e)}

\* keep.protected_kept: from the newest kept segment on, each is protected that fits in the
\* budget beside the newer protected ones; one that does not fit is passed over.  Exactly one
\* set is made up in this way.
ProtectedKept(kept) ==
  UNION {P \in SUBSET kept :
           \A d \in kept : d \in P <=> Bytes(NewerThan(d, P)) + Size[d] <= KeepBudgetBytes}

-----------------------------------------------------------------------------
\* loggerd

\* LoggerState::next up to the new directory; the old segment's lock is removed first.
MakeDirectory(segment, old) ==
  /\ locked' = locked \ {old}
  /\ dirs' = dirs \cup {segment}
  /\ lpc' = "mkdir"
  /\ UNCHANGED <<preserveAttr, keepAttr, deleterVars, browserVars, incidents, faults>>

\* A drive begins: loggerd starts with the next route number.
StartRoute ==
  /\ lpc = "down" /\ route < Routes
  /\ route' = route + 1 /\ part' = 0 /\ prevSegment' = -1
  /\ MakeDirectory(<<route + 1, 0>>, None)
  /\ UNCHANGED bookmark

\* rotate_if_needed.  A bookmark waits less than a segment's length for loggerd, so at
\* most one rotation comes between its sending and its handling.
Rotate ==
  /\ lpc = "run" /\ part + 1 < Parts
  /\ bookmark # None => bookmark = current
  /\ part' = part + 1
  /\ MakeDirectory(<<route, part + 1>>, current)
  /\ UNCHANGED <<route, prevSegment, bookmark>>

\* The rest of next: the lock, then the log files.  Neither can be made in a directory
\* that is gone, and loggerd aborts; a bookmark it did not read is lost.
TakeLock ==
  /\ lpc = "mkdir"
  /\ IF current \in dirs
     THEN lpc' = "run" /\ locked' = locked \cup {current} /\ UNCHANGED bookmark
     ELSE lpc' = "down" /\ bookmark' = None /\ UNCHANGED locked
  /\ UNCHANGED <<dirs, preserveAttr, keepAttr, route, part, prevSegment, incidents,
                 deleterVars, browserVars, faults>>

\* incidentd, or the driver, sends a userBookmark.
Incident ==
  /\ lpc = "run" /\ bookmark = None /\ Cardinality(incidents) < MaxIncidents
  /\ bookmark' = current
  /\ UNCHANGED <<rootVars, lpc, route, part, prevSegment, incidents, deleterVars, browserVars,
                 faults>>

\* handle_preserve_segment.
HandlePreserve ==
  /\ lpc = "run" /\ bookmark # None
  /\ IF part = prevSegment
     THEN UNCHANGED <<preserveAttr, prevSegment>>
     ELSE preserveAttr' = preserveAttr \cup ({current} \cap dirs) /\ prevSegment' = part
  /\ incidents' = incidents \cup {bookmark}
  /\ bookmark' = None
  /\ UNCHANGED <<dirs, locked, keepAttr, lpc, route, part, deleterVars, browserVars,
                 faults>>

\* The drive ends: loggerd exits and removes its lock; a bookmark it did not read is lost.
StopRoute ==
  /\ lpc = "run"
  /\ lpc' = "down" /\ locked' = locked \ {current} /\ bookmark' = None
  /\ UNCHANGED <<dirs, preserveAttr, keepAttr, route, part, prevSegment, incidents,
                 deleterVars, browserVars, faults>>

-----------------------------------------------------------------------------
\* deleter

\* has_preserve_xattr, through the cache.
CachedMark(d) ==
  IF cache[d] = "unknown" THEN d \in preserveAttr ELSE cache[d] = "marked"

\* deleter_step, first part: the space check, the listing, and get_preserved_segments,
\* which looks from the newest directory on until it has found one mark too many.
DeleterList ==
  /\ dpc = "idle" /\ Bytes(dirs) > MaxLogBytes
  /\ LET marks == {d \in dirs : CachedMark(d)}
         newest == {d \in marks : Cardinality(NewerThan(d, marks)) < PreserveCount}
         visited == {d \in dirs : Cardinality(NewerThan(d, marks)) <= PreserveCount}
     IN /\ plan' = [NoPlan EXCEPT !.listed = dirs, !.todo = dirs,
                                  !.preserved = UNION {PreserveRange(d) : d \in newest}]
        /\ cache' = [s \in Segments |->
             IF s \notin visited THEN cache[s]
             ELSE IF CachedMark(s) THEN "marked" ELSE "unmarked"]
  /\ seen' = [recording |-> IF lpc = "down" THEN None ELSE current,
              running |-> lpc = "run", marks |-> preserveAttr]
  /\ dpc' = "kept"
  /\ UNCHANGED <<rootVars, loggerdVars, browserVars, faults>>

\* deleter_step, second part: the kept segments, read from the directories every time.
DeleterKept ==
  /\ dpc = "kept"
  /\ plan' = [plan EXCEPT !.kept = ProtectedKept(plan.listed \cap keepAttr)]
  /\ dpc' = "try"
  /\ UNCHANGED <<cache, seen, rootVars, loggerdVars, browserVars, faults>>

\* The key deleter sorts by: preserved, then kept, and by age among equals.
MutGoesBefore(d, e) ==
  LET kept(x) == x \in plan.kept
      preserved(x) == x \in plan.preserved
  IN \/ ~preserved(d) /\ preserved(e)
     \/ preserved(d) = preserved(e) /\ Older(d, e)
MutGoesBeforeNewest(d, e) ==
  LET kept(x) == x \in plan.kept
      preserved(x) == x \in plan.preserved
  IN \/ ~preserved(d) /\ preserved(e)
     \/ preserved(d) = preserved(e) /\ ~kept(d) /\ kept(e)
     \/ preserved(d) = preserved(e) /\ kept(d) = kept(e) /\ Older(e, d)
GoesBefore(d, e) ==
  LET kept(x) == x \in plan.kept
      preserved(x) == x \in plan.preserved
  IN \/ ~preserved(d) /\ preserved(e)
     \/ preserved(d) = preserved(e) /\ ~kept(d) /\ kept(e)
     \/ preserved(d) = preserved(e) /\ kept(d) = kept(e) /\ Older(d, e)

candidate == CHOOSE d \in plan.todo : \A e \in plan.todo : e = d \/ GoesBefore(d, e)

\* A locked directory is passed over; when none is left the step ends.
MutDeleterCheckEnds ==
  /\ dpc = "try"
  /\ IF plan.todo = {} \/ (plan.todo # {} /\ candidate \in locked)
     THEN dpc' = "idle" /\ plan' = NoPlan
     ELSE dpc' = "remove" /\ UNCHANGED plan
  /\ UNCHANGED <<cache, seen, rootVars, loggerdVars, browserVars, faults>>
DeleterCheck ==
  /\ dpc = "try"
  /\ IF plan.todo = {}
     THEN dpc' = "idle" /\ plan' = NoPlan
     ELSE IF candidate \in locked
     THEN plan' = [plan EXCEPT !.todo = @ \ {candidate}] /\ UNCHANGED dpc
     ELSE dpc' = "remove" /\ UNCHANGED plan
  /\ UNCHANGED <<cache, seen, rootVars, loggerdVars, browserVars, faults>>

\* rmtree: one directory per step, or the next candidate when it raises.
DeleterRemove ==
  /\ dpc = "remove"
  /\ \/ /\ dirs' = dirs \ {candidate} /\ locked' = locked \ {candidate}
        /\ preserveAttr' = preserveAttr \ {candidate} /\ keepAttr' = keepAttr \ {candidate}
        /\ dpc' = "idle" /\ plan' = NoPlan
        /\ UNCHANGED faults
     \/ /\ faults < MaxFaults /\ faults' = faults + 1
        /\ plan' = [plan EXCEPT !.todo = @ \ {candidate}, !.failed = @ \cup {candidate}]
        /\ dpc' = "try"
        /\ UNCHANGED rootVars
  /\ UNCHANGED <<cache, seen, loggerdVars, browserVars>>

-----------------------------------------------------------------------------
\* The drive browser

\* DriveBrowser.mark lists the root and computes the targets of a press on segment d, of
\* its neighbourhood or of its whole route.  The page offers Release on what is kept and
\* Keep on the rest; pressed on an old page, either changes nothing.
PressKeep ==
  /\ marking.todo = {} /\ requests < MaxRequests
  /\ \E d \in dirs :
       \/ marking' = [todo |-> KeepRange(d, KeepSpan), wanted |-> d \notin keepAttr]
       \/ marking' = [todo |-> RouteSegments(d),
                      wanted |-> ~(RouteSegments(d) \subseteq keepAttr)]
  /\ requests' = requests + 1
  /\ UNCHANGED <<rootVars, loggerdVars, deleterVars, faults>>

\* keep.set_kept on the next target; a directory that is gone is no error.
MarkNext ==
  /\ marking.todo # {}
  /\ LET d == CHOOSE x \in marking.todo : \A e \in marking.todo : e = x \/ Older(x, e)
     IN /\ keepAttr' = IF marking.wanted THEN keepAttr \cup ({d} \cap dirs)
                                         ELSE keepAttr \ {d}
        /\ marking' = [marking EXCEPT !.todo = @ \ {d}]
  /\ UNCHANGED <<dirs, locked, preserveAttr, loggerdVars, deleterVars, requests,
                 faults>>

-----------------------------------------------------------------------------
\* Power

\* Every process stops where it is; directories, marks and locks stay.
Down ==
  /\ faults < MaxFaults /\ faults' = faults + 1
  /\ lpc' = "down" /\ bookmark' = None
  /\ cache' = [s \in Segments |-> "unknown"] /\ dpc' = "idle" /\ plan' = NoPlan
  /\ seen' = NothingSeen /\ marking' = NoRequest
  /\ UNCHANGED <<rootVars, route, part, prevSegment, incidents, requests>>

PowerLoss == lpc # "down" /\ Down

\* The device is switched off and on between two drives.
Reboot == lpc = "down" /\ cache # [s \in Segments |-> "unknown"] /\ Down

-----------------------------------------------------------------------------

Loggerd == StartRoute \/ Rotate \/ TakeLock \/ Incident \/ HandlePreserve \/ StopRoute
Deleter == DeleterList \/ DeleterKept \/ DeleterCheck \/ DeleterRemove

Next ==
  \/ StartRoute \/ Rotate \/ TakeLock \/ Incident \/ HandlePreserve \/ StopRoute
  \/ DeleterList \/ DeleterKept \/ DeleterCheck \/ DeleterRemove
  \/ PressKeep \/ MarkNext
  \/ PowerLoss \/ Reboot

Spec == Init /\ [][Next]_vars

\* deleter loops for as long as the device is on, and loggerd completes what it began.
FairSpec == Spec /\ WF_vars(Deleter) /\ WF_vars(TakeLock) /\ WF_vars(HandlePreserve)

-----------------------------------------------------------------------------
\* Properties

\* The values each variable takes.
TypeOK ==
  /\ {dirs, locked, preserveAttr, keepAttr, incidents} \subseteq SUBSET Segments
  /\ locked \cup preserveAttr \cup keepAttr \subseteq dirs
  /\ lpc \in {"down", "mkdir", "run"}
  /\ route \in 0..Routes /\ part \in 0..(Parts - 1) /\ prevSegment \in -1..(Parts - 1)
  /\ bookmark \in Segments \cup {None}
  /\ cache \in [Segments -> {"unknown", "marked", "unmarked"}]
  /\ dpc \in {"idle", "kept", "try", "remove"}
  /\ plan \in [listed: SUBSET Segments, preserved: SUBSET Segments,
               kept: SUBSET Segments, todo: SUBSET Segments, failed: SUBSET Segments]
  /\ marking \in [todo: SUBSET Segments, wanted: BOOLEAN]
  /\ requests \in 0..MaxRequests /\ faults \in 0..MaxFaults

\* What a step removes, if anything, and what deleter ranks as ordinary.
Removed == dirs \ dirs'
Ordinary(d) == d \notin plan.preserved \cup plan.kept

\* A directory that was locked when deleter listed it, and still is, is never removed: the
\* one race left to loggerd is the moment between making a directory and locking it.
LockedStay ==
  [][seen.running /\ seen.recording \in locked => seen.recording \notin Removed]_vars

\* README: "The deleter removes the oldest footage."  When an ordinary segment goes, the
\* older ordinary ones that stay are locked, by a loggerd that lost its power, or were
\* tried in vain.
OldestFirst ==
  [][\A d \in Removed : Ordinary(d) =>
       \A e \in dirs \ (locked \cup plan.failed) : Ordinary(e) => ~Older(e, d)]_vars

\* A Keep press within the budget outlasts all ordinary footage: a segment that deleter
\* found kept goes only when no ordinary segment it had listed is left, but for the one
\* being recorded then, a locked one or one that cannot be removed.
KeptOutlast ==
  [][\A d \in Removed \cap plan.kept :
       \A e \in (plan.listed \cap dirs) \ ({seen.recording} \cup locked \cup plan.failed) :
         ~Ordinary(e)]_vars

\* A bookmark may reach loggerd after the rotation, in the segment that follows the
\* incident's; the segments protected ahead of a marked one are there for that.  Repeated
\* bookmarks of one segment must not lose the mark of another.  The segment that was marked
\* may itself be gone.
IncidentCovered ==
  \A i \in incidents \cap dirs :
    \E d \in Segments :
      i \in PreserveRange(d) /\ ~Older(current, d) /\ (d \in preserveAttr \/ d \notin dirs)

\* Space comes back: while nothing records, deleter brings the log root under the cap
\* again, however many locked directories it must pass over, or nothing but locked
\* directories is left.
SpaceRecovers ==
  Bytes(dirs) > MaxLogBytes
    ~> (Bytes(dirs) <= MaxLogBytes \/ lpc # "down" \/ dirs \subseteq locked)

\* incidentd.py:7-8: "deleter keeps preserved segments plus the two before them".  In the
\* range of one of the newest marks on the directories deleter listed, a segment goes only
\* when nothing listed is left outside the ranges of the marks and of what is kept.
MarksHonoured ==
  [][\A d \in Removed :
       (\E m \in seen.marks :
          d \in PreserveRange(m) /\ Cardinality(NewerThan(m, seen.marks)) < PreserveCount)
       => \A e \in plan.listed \ {seen.recording} :
            \/ e \in plan.kept
            \/ \E m \in seen.marks : e \in PreserveRange(m)]_vars
=============================================================================
