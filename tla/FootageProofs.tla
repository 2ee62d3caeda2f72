---------------------------- MODULE FootageProofs ----------------------------
(***************************************************************************)
(* Proofs about Footage, for any number of drives and segments, any sizes, *)
(* budgets and protected ranges: its types, that the segment being         *)
(* recorded stays, in which order footage goes, that the segments of an    *)
(* incident are protected, and that their marks are honoured as long as    *)
(* deleter's cache has missed none.                                        *)
(***************************************************************************)
EXTENDS Footage, WellFoundedInduction, TLAPS

-----------------------------------------------------------------------------
\* The order of the segments

LEMMA SegmentsArePairs ==
  /\ \A d \in Segments : d[1] \in 1..Routes /\ d[2] \in 0..(Parts - 1) /\ d = <<d[1], d[2]>>
  /\ \A r \in 1..Routes, n \in 0..(Parts - 1) : <<r, n>> \in Segments
  /\ None \notin Segments
  /\ Routes \in Nat /\ Parts \in Nat /\ Parts > 0
BY FootageAssumption DEF Segments, None

\* Older is a strict total order of pairs.
LEMMA OlderOrder ==
  ASSUME NEW d \in Segments, NEW e \in Segments
  PROVE  /\ ~Older(d, d)
         /\ d = e \/ Older(d, e) \/ Older(e, d)
         /\ Older(d, e) => ~Older(e, d)
<1>1. d[1] \in Int /\ d[2] \in Int /\ e[1] \in Int /\ e[2] \in Int
      /\ d = <<d[1], d[2]>> /\ e = <<e[1], e[2]>>
  BY SegmentsArePairs
<1>2. d = e \/ d[1] # e[1] \/ d[2] # e[2]
  BY <1>1
<1> QED BY <1>1, <1>2 DEF Older

LEMMA LeastNat ==
  ASSUME NEW S \in SUBSET Nat, S # {}
  PROVE  \E n \in S : \A m \in S : n <= m
<1>1. PICK n \in S : \A m \in S : ~(<<m, n>> \in OpToRel(<, Nat))
  BY NatLessThanWellFounded, WFMin
<1>2. \A m \in S : ~(m < n)
  BY <1>1 DEF OpToRel
<1> QED BY <1>2

\* Any set of segments has an oldest one.
LEMMA LeastSegment ==
  ASSUME NEW S \in SUBSET Segments, S # {}
  PROVE  \E d \in S : \A e \in S : e = d \/ Older(d, e)
<1> DEFINE routes == {d[1] : d \in S}
<1>1. routes \in SUBSET Nat /\ routes # {}
  BY SegmentsArePairs
<1>2. PICK r \in routes : \A q \in routes : r <= q
  BY <1>1, LeastNat
<1> DEFINE parts == {d[2] : d \in {e \in S : e[1] = r}}
<1>3. parts \in SUBSET Nat /\ parts # {}
  BY <1>2, SegmentsArePairs
<1> HIDE DEF parts
<1>4. PICK n \in parts : \A m \in parts : n <= m
  BY <1>3, LeastNat
<1>5. PICK d \in S : d[1] = r /\ d[2] = n
  BY <1>4 DEF parts
<1>6. ASSUME NEW e \in S PROVE e = d \/ Older(d, e)
  <2>1. /\ d[1] \in Int /\ d[2] \in Int /\ d = <<d[1], d[2]>>
        /\ e[1] \in Int /\ e[2] \in Int /\ e = <<e[1], e[2]>>
    BY SegmentsArePairs
  <2>2. r <= e[1]
    BY <1>2
  <2>3. e[1] = r => n <= e[2]
    BY <1>4 DEF parts
  <2> QED BY <1>5, <2>1, <2>2, <2>3 DEF Older
<1> QED BY <1>6

\* Among any candidates one goes first: ordinary before kept before preserved, then age.
LEMMA LeastCandidate ==
  ASSUME NEW S \in SUBSET Segments, S # {}
  PROVE  \E d \in S : \A e \in S : e = d \/ GoesBefore(d, e)
<1> DEFINE ordinary == {d \in S : d \notin plan.preserved /\ d \notin plan.kept}
           kept == {d \in S : d \notin plan.preserved}
           unkept == {d \in S : d \notin plan.kept}
<1>1. CASE ordinary # {}
  <2>1. PICK d \in ordinary : \A e \in ordinary : e = d \/ Older(d, e)
    BY <1>1, LeastSegment
  <2> QED BY <2>1 DEF GoesBefore
<1>2. CASE ordinary = {} /\ kept # {}
  <2>1. PICK d \in kept : \A e \in kept : e = d \/ Older(d, e)
    BY <1>2, LeastSegment
  <2> QED BY <1>2, <2>1 DEF GoesBefore
<1>3. CASE kept = {} /\ unkept # {}
  <2>1. PICK d \in unkept : \A e \in unkept : e = d \/ Older(d, e)
    BY <1>3, LeastSegment
  <2> QED BY <1>3, <2>1 DEF GoesBefore
<1>4. CASE kept = {} /\ unkept = {}
  <2>1. PICK d \in S : \A e \in S : e = d \/ Older(d, e)
    BY LeastSegment
  <2> QED BY <1>4, <2>1 DEF GoesBefore
<1> QED BY <1>1, <1>2, <1>3, <1>4

LEMMA CandidateFirst ==
  ASSUME plan.todo \in SUBSET Segments, plan.todo # {}
  PROVE  /\ candidate \in plan.todo
         /\ \A e \in plan.todo : e = candidate \/ GoesBefore(candidate, e)
BY LeastCandidate DEF candidate

-----------------------------------------------------------------------------
\* The root and its types

\* The segment being recorded is the newest of all, and a waiting bookmark is of it or of
\* the one before.
RootInv ==
  /\ TypeOK
  /\ lpc # "down" => route # 0
  /\ \A d \in dirs \cup incidents : ~Older(current, d)
  /\ bookmark # None =>
       /\ lpc # "down" /\ bookmark \in Segments
       /\ bookmark[1] = route /\ bookmark[2] \in {part - 1, part}
  /\ dpc = "remove" => plan.todo # {}

LEMMA InitRoot == Init => RootInv
<1> SUFFICES ASSUME Init PROVE RootInv
  OBVIOUS
<1>1. NoPlan \in [listed: SUBSET Segments, preserved: SUBSET Segments, kept: SUBSET Segments,
                  todo: SUBSET Segments, failed: SUBSET Segments]
  BY DEF NoPlan
<1>2. NoRequest \in [todo: SUBSET Segments, wanted: BOOLEAN]
  BY DEF NoRequest
<1> QED BY <1>1, <1>2, FootageAssumption DEF Init, RootInv, TypeOK

\* The segment being recorded is one of the segments.
LEMMA CurrentIsSegment ==
  ASSUME RootInv
  PROVE  /\ route \in Int /\ part \in Int
         /\ lpc # "down" => current \in Segments
         /\ ~Older(current, current)
BY SegmentsArePairs, FootageAssumption DEF RootInv, TypeOK, current, Older

\* A new directory is newer than everything there is.
LEMMA NewDirectory ==
  ASSUME RootInv, StartRoute \/ Rotate
  PROVE  /\ current' \in Segments
         /\ Older(current, current')
         /\ \A d \in Segments : ~Older(current, d) => Older(d, current')
         /\ dirs' = dirs \cup {current'}
<1>1. /\ route \in Int /\ part \in Int
      /\ route' \in 1..Routes /\ part' \in 0..(Parts - 1)
      /\ route' > route \/ (route' = route /\ part' > part)
  BY SegmentsArePairs, FootageAssumption DEF RootInv, TypeOK, StartRoute, Rotate
<1>2. current' \in Segments
  BY <1>1, SegmentsArePairs DEF current
<1>3. Older(current, current')
  BY <1>1 DEF Older, current
<1>4. ASSUME NEW d \in Segments, ~Older(current, d)
      PROVE  Older(d, current')
  <2>1. d[1] \in Int /\ d[2] \in Int
    BY SegmentsArePairs
  <2> QED BY <1>1, <1>4, <2>1 DEF Older, current
<1>5. dirs' = dirs \cup {current'}
  BY DEF StartRoute, Rotate, MakeDirectory, current
<1> QED BY <1>2, <1>3, <1>4, <1>5

\* The types and the order, when loggerd acts.
LEMMA LoggerdKeepsRoot ==
  ASSUME RootInv, Loggerd
  PROVE  RootInv'
<1> USE DEF rootVars, loggerdVars, deleterVars, browserVars
<1>1. ASSUME StartRoute \/ Rotate
      PROVE  RootInv'
  <2>1. /\ current' \in Segments /\ dirs' = dirs \cup {current'}
        /\ \A d \in Segments : ~Older(current, d) => Older(d, current')
    BY <1>1, NewDirectory
  <2>2. dirs \cup incidents \subseteq Segments
    BY DEF RootInv, TypeOK
  <2>3. \A d \in dirs' \cup incidents' : ~Older(current', d)
    <3>1. incidents' = incidents
      BY <1>1 DEF StartRoute, Rotate, MakeDirectory
    <3>2. \A d \in dirs \cup incidents : Older(d, current') /\ d \in Segments
      BY <2>1, <2>2 DEF RootInv
    <3> QED BY <2>1, <3>1, <3>2, OlderOrder
  <2>4. /\ route' \in 1..Routes /\ part' \in 0..(Parts - 1)
        /\ prevSegment' \in -1..(Parts - 1) /\ route' # 0
    BY <1>1, SegmentsArePairs, FootageAssumption DEF StartRoute, Rotate, RootInv, TypeOK
  <2>5. bookmark' # None => /\ bookmark' \in Segments
                            /\ bookmark'[1] = route' /\ bookmark'[2] \in {part' - 1, part'}
    <3>1. CASE StartRoute
      BY <3>1, SegmentsArePairs DEF StartRoute, RootInv
    <3>2. CASE Rotate
      <4>1. part \in Int /\ bookmark' = bookmark
        BY <3>2 DEF Rotate, RootInv, TypeOK
      <4> QED BY <3>2, <4>1, CurrentIsSegment DEF Rotate, current, RootInv
    <3> QED BY <1>1, <3>1, <3>2
  <2>6. TypeOK'
    BY <1>1, <2>1, <2>4, <2>5 DEF StartRoute, Rotate, MakeDirectory, RootInv, TypeOK
  <2>7. lpc' = "mkdir" /\ UNCHANGED <<dpc, plan>>
    BY <1>1 DEF StartRoute, Rotate, MakeDirectory
  <2> QED BY <2>3, <2>4, <2>5, <2>6, <2>7 DEF RootInv
<1>2. CASE TakeLock
  BY <1>2, CurrentIsSegment DEF TakeLock, RootInv, TypeOK, current
<1>3. CASE Incident
  <2>1. current \in Segments
    BY <1>3, CurrentIsSegment DEF Incident
  <2>2. TypeOK'
    BY <1>3, <2>1 DEF Incident, RootInv, TypeOK
  <2> QED BY <1>3, <2>1, <2>2, CurrentIsSegment DEF Incident, RootInv, current
<1>4. CASE HandlePreserve
  <2>1. bookmark \in Segments /\ ~Older(current, bookmark)
    BY <1>4, CurrentIsSegment DEF HandlePreserve, RootInv, current, Older
  <2>2. TypeOK'
    BY <1>4, <2>1, CurrentIsSegment DEF HandlePreserve, RootInv, TypeOK, current
  <2> QED BY <1>4, <2>1, <2>2 DEF HandlePreserve, RootInv, current
<1>5. CASE StopRoute
  <2>1. TypeOK'
    BY <1>5 DEF StopRoute, RootInv, TypeOK
  <2> QED BY <1>5, <2>1 DEF StopRoute, RootInv, current
<1> QED BY <1>1, <1>2, <1>3, <1>4, <1>5 DEF Loggerd

\* The sets a listing is made of are sets of segments.
LEMMA PlanTypes ==
  /\ \A d \in Segments : PreserveRange(d) \subseteq Segments
  /\ \A S \in SUBSET Segments : ProtectedKept(S) \subseteq S
<1>1. ASSUME NEW d \in Segments PROVE PreserveRange(d) \subseteq Segments
  BY SegmentsArePairs DEF PreserveRange
<1>2. ASSUME NEW S \in SUBSET Segments PROVE ProtectedKept(S) \subseteq S
  BY DEF ProtectedKept
<1> QED BY <1>1, <1>2

\* The types, when deleter acts.
LEMMA DeleterKeepsRoot ==
  ASSUME RootInv, Deleter
  PROVE  RootInv'
<1> USE DEF rootVars, loggerdVars, browserVars
<1>1. CASE DeleterList
  <2> DEFINE marks == {d \in dirs : CachedMark(d)}
             newest == {d \in marks : Cardinality(NewerThan(d, marks)) < PreserveCount}
             ranges == UNION {PreserveRange(d) : d \in newest}
  <2>1. dirs \in SUBSET Segments
    BY DEF RootInv, TypeOK
  <2>2. ranges \in SUBSET Segments
    <3>1. newest \subseteq Segments
      BY <2>1
    <3> HIDE DEF newest
    <3> QED BY <3>1, PlanTypes
  <2>3. plan' = [NoPlan EXCEPT !.listed = dirs, !.todo = dirs, !.preserved = ranges]
    BY <1>1 DEF DeleterList
  <2> HIDE DEF ranges
  <2>4. plan' \in [listed: SUBSET Segments, preserved: SUBSET Segments, kept: SUBSET Segments,
                   todo: SUBSET Segments, failed: SUBSET Segments]
    BY <2>1, <2>2, <2>3 DEF NoPlan
  <2>5. cache' \in [Segments -> {"unknown", "marked", "unmarked"}]
    BY <1>1 DEF DeleterList, RootInv, TypeOK
  <2>6. dpc' = "kept" /\ UNCHANGED <<rootVars, loggerdVars, browserVars, faults>>
    BY <1>1 DEF DeleterList
  <2> QED BY <2>4, <2>5, <2>6 DEF RootInv, TypeOK, current
<1>2. CASE DeleterKept
  <2>1. plan.listed \cap keepAttr \in SUBSET Segments
    BY DEF RootInv, TypeOK
  <2>2. ProtectedKept(plan.listed \cap keepAttr) \in SUBSET Segments
    BY <2>1, PlanTypes
  <2> QED BY <1>2, <2>2 DEF DeleterKept, RootInv, TypeOK, current
<1>3. CASE DeleterCheck
  <2>1. plan.todo \in SUBSET Segments
    BY DEF RootInv, TypeOK
  <2>2. plan' \in [listed: SUBSET Segments, preserved: SUBSET Segments, kept: SUBSET Segments,
                   todo: SUBSET Segments, failed: SUBSET Segments]
    BY <1>3, <2>1 DEF DeleterCheck, RootInv, TypeOK, NoPlan
  <2>3. dpc' = "remove" => plan'.todo # {}
    BY <1>3 DEF DeleterCheck, NoPlan
  <2> QED BY <1>3, <2>2, <2>3 DEF DeleterCheck, RootInv, TypeOK, current
<1>4. CASE DeleterRemove
  <2>1. candidate \in Segments
    BY <1>4, CandidateFirst DEF DeleterRemove, RootInv, TypeOK
  <2>2. CASE /\ dirs' = dirs \ {candidate} /\ locked' = locked \ {candidate}
             /\ preserveAttr' = preserveAttr \ {candidate}
             /\ keepAttr' = keepAttr \ {candidate}
             /\ dpc' = "idle" /\ plan' = NoPlan /\ faults' = faults
    <3>1. plan' \in [listed: SUBSET Segments, preserved: SUBSET Segments,
                     kept: SUBSET Segments, todo: SUBSET Segments, failed: SUBSET Segments]
      BY <2>2 DEF NoPlan
    <3> QED BY <1>4, <2>2, <3>1 DEF DeleterRemove, RootInv, TypeOK, current
  <2>3. CASE /\ faults < MaxFaults /\ faults' = faults + 1
             /\ plan' = [plan EXCEPT !.todo = @ \ {candidate}, !.failed = @ \cup {candidate}]
             /\ dpc' = "try" /\ UNCHANGED rootVars
    <3>1. faults' \in 0..MaxFaults
      BY <2>3, FootageAssumption DEF RootInv, TypeOK
    <3>2. plan' \in [listed: SUBSET Segments, preserved: SUBSET Segments,
                     kept: SUBSET Segments, todo: SUBSET Segments, failed: SUBSET Segments]
      BY <2>1, <2>3 DEF RootInv, TypeOK
    <3> QED BY <1>4, <2>3, <3>1, <3>2 DEF DeleterRemove, RootInv, TypeOK, current
  <2> QED BY <1>4, <2>2, <2>3 DEF DeleterRemove
<1> QED BY <1>1, <1>2, <1>3, <1>4 DEF Deleter

\* The types, when the drive browser acts or the power fails.
LEMMA OthersKeepRoot ==
  ASSUME RootInv, PressKeep \/ MarkNext \/ PowerLoss \/ Reboot \/ UNCHANGED vars
  PROVE  RootInv'
<1> USE DEF rootVars, loggerdVars, deleterVars, browserVars
<1>1. CASE PressKeep
  <2>1. requests' \in 0..MaxRequests
    BY <1>1, FootageAssumption DEF PressKeep, RootInv, TypeOK
  <2>2. marking' \in [todo: SUBSET Segments, wanted: BOOLEAN]
    <3>1. PICK d \in dirs :
            \/ marking' = [todo |-> KeepRange(d, KeepSpan), wanted |-> d \notin keepAttr]
            \/ marking' = [todo |-> RouteSegments(d),
                           wanted |-> ~(RouteSegments(d) \subseteq keepAttr)]
      BY <1>1 DEF PressKeep
    <3>2. dirs \subseteq Segments
      BY DEF RootInv, TypeOK
    <3>3. KeepRange(d, KeepSpan) \in SUBSET Segments /\ RouteSegments(d) \in SUBSET Segments
      BY <3>2 DEF KeepRange, RouteSegments
    <3>4. /\ (d \notin keepAttr) \in BOOLEAN
          /\ (~(RouteSegments(d) \subseteq keepAttr)) \in BOOLEAN
      OBVIOUS
    <3>5. \A T \in SUBSET Segments, w \in BOOLEAN :
            [todo |-> T, wanted |-> w] \in [todo: SUBSET Segments, wanted: BOOLEAN]
      OBVIOUS
    <3>6. /\ [todo |-> KeepRange(d, KeepSpan), wanted |-> d \notin keepAttr]
              \in [todo: SUBSET Segments, wanted: BOOLEAN]
          /\ [todo |-> RouteSegments(d), wanted |-> ~(RouteSegments(d) \subseteq keepAttr)]
              \in [todo: SUBSET Segments, wanted: BOOLEAN]
      BY <3>3, <3>4, <3>5, Zenon
    <3> QED BY <3>1, <3>6, Zenon
  <2> QED BY <1>1, <2>1, <2>2 DEF PressKeep, RootInv, TypeOK, current
<1>2. CASE MarkNext
  <2>1. keepAttr' \subseteq dirs /\ keepAttr' \subseteq Segments
    BY <1>2 DEF MarkNext, RootInv, TypeOK
  <2>2. marking' \in [todo: SUBSET Segments, wanted: BOOLEAN]
    <3>1. PICK d : marking' = [marking EXCEPT !.todo = @ \ {d}]
      BY <1>2 DEF MarkNext
    <3> QED BY <3>1 DEF RootInv, TypeOK
  <2> QED BY <1>2, <2>1, <2>2 DEF MarkNext, RootInv, TypeOK, current
<1>3. CASE Down
  <2>1. /\ NoPlan \in [listed: SUBSET Segments, preserved: SUBSET Segments,
                       kept: SUBSET Segments, todo: SUBSET Segments,
                       failed: SUBSET Segments]
        /\ NoRequest \in [todo: SUBSET Segments, wanted: BOOLEAN]
    BY DEF NoPlan, NoRequest
  <2>2. faults' \in 0..MaxFaults
    BY <1>3, FootageAssumption DEF Down, RootInv, TypeOK
  <2> QED BY <1>3, <2>1, <2>2 DEF Down, RootInv, TypeOK, current
<1>4. CASE UNCHANGED vars
  BY <1>4 DEF vars, RootInv, TypeOK, current
<1> QED BY <1>1, <1>2, <1>3, <1>4 DEF PowerLoss, Reboot

LEMMA RootInductive == RootInv /\ [Next]_vars => RootInv'
BY LoggerdKeepsRoot, DeleterKeepsRoot, OthersKeepRoot DEF Next, Loggerd, Deleter

\* The types, for any number of drives, and the place of loggerd and of deleter among the
\* directories.
THEOREM RootInvariant == Spec => []RootInv
BY InitRoot, RootInductive, PTL DEF Spec

\* Type correctness of the footage.
THEOREM TypeCorrect == Spec => []TypeOK
<1>1. RootInv => TypeOK
  BY DEF RootInv
<1> QED BY <1>1, RootInvariant, PTL

-----------------------------------------------------------------------------
\* Incidents

\* What covers an incident is a mark that was made: of a segment that is still there with
\* its mark, or that is gone.  The segment loggerd believes marked is one of these.
Covers(d) == ~Older(current, d) /\ (d \in preserveAttr \/ d \notin dirs)

IncidentInv ==
  /\ IncidentCovered
  /\ lpc # "down" => prevSegment <= part
  /\ lpc # "down" /\ prevSegment = part => Covers(current)

LEMMA InitIncident == Init => IncidentInv
BY DEF Init, IncidentInv, IncidentCovered

\* Covering lasts while the segment being recorded stays and directories only go, with
\* their marks.
LEMMA CoveringLasts ==
  ASSUME RootInv, IncidentInv, UNCHANGED <<route, part, incidents, prevSegment>>,
         lpc' # "down" => lpc # "down",
         dirs' \subseteq dirs, preserveAttr \cap dirs' \subseteq preserveAttr'
  PROVE  IncidentInv'
<1>1. \A d : Covers(d) => Covers(d)'
  BY DEF Covers, current
<1>2. IncidentCovered'
  <2>1. \A i \in incidents \cap dirs : \E d \in Segments : i \in PreserveRange(d) /\ Covers(d)
    BY DEF IncidentInv, IncidentCovered, Covers
  <2> QED BY <1>1, <2>1 DEF IncidentCovered, Covers
<1>3. lpc' # "down" => /\ prevSegment' <= part'
                       /\ prevSegment' = part' => Covers(current)'
  BY <1>1 DEF IncidentInv, current
<1> QED BY <1>2, <1>3 DEF IncidentInv

\* A new directory is no incident's, and no mark's.
LEMMA NewDirectoryCovers ==
  ASSUME RootInv, IncidentInv, StartRoute \/ Rotate
  PROVE  IncidentInv'
<1>1. /\ current' \in Segments /\ dirs' = dirs \cup {current'}
      /\ \A d \in Segments : ~Older(current, d) => Older(d, current')
  BY NewDirectory
<1>2. UNCHANGED <<incidents, preserveAttr>>
  BY DEF StartRoute, Rotate, MakeDirectory
<1>3. ASSUME NEW d \in Segments, Covers(d) PROVE Covers(d)'
  <2>1. Older(d, current')
    BY <1>1, <1>3 DEF Covers
  <2>2. ~Older(current', d) /\ d # current'
    BY <1>1, <2>1, OlderOrder
  <2> QED BY <1>1, <1>2, <1>3, <2>2 DEF Covers
<1>4. \A i \in incidents : i # current'
  <2>1. incidents \subseteq Segments
    BY DEF RootInv, TypeOK
  <2> QED BY <1>1, <2>1, OlderOrder DEF RootInv
<1>5. IncidentCovered'
  <2>1. \A i \in incidents \cap dirs : \E d \in Segments : i \in PreserveRange(d) /\ Covers(d)
    BY DEF IncidentInv, IncidentCovered, Covers
  <2>2. incidents' \cap dirs' = incidents \cap dirs
    BY <1>1, <1>2, <1>4
  <2> QED BY <1>3, <2>1, <2>2 DEF IncidentCovered, Covers
<1>6. prevSegment' < part'
  BY DEF StartRoute, Rotate, IncidentInv, RootInv, TypeOK
<1>7. prevSegment' \in Int /\ part' \in Int
  BY RootInductive DEF Next, RootInv, TypeOK
<1> QED BY <1>5, <1>6, <1>7 DEF IncidentInv

\* The mark covers the bookmark's segment, which is the current one or the one before.
LEMMA PreserveCovers ==
  ASSUME PreservePrior >= 1, RootInv, IncidentInv, HandlePreserve
  PROVE  IncidentInv'
<1>1. /\ current \in Segments /\ ~Older(current, current) /\ part \in Int
      /\ bookmark \in Segments /\ bookmark[1] = route /\ bookmark[2] \in {part - 1, part}
  BY CurrentIsSegment DEF HandlePreserve, RootInv
<1>2. /\ UNCHANGED <<route, part, dirs, lpc>> /\ incidents' = incidents \cup {bookmark}
      /\ preserveAttr \subseteq preserveAttr'
  BY DEF HandlePreserve
<1>3. \A d : Covers(d) => Covers(d)'
  BY <1>2 DEF Covers, current
<1>4. Covers(current)'
  <2>1. CASE part = prevSegment
    BY <1>2, <1>3, <2>1 DEF HandlePreserve, IncidentInv, current
  <2>2. CASE part # prevSegment
    BY <1>1, <1>2, <2>2 DEF HandlePreserve, Covers, current
  <2> QED BY <2>1, <2>2
<1>5. bookmark \in PreserveRange(current)
  <2>1. bookmark = <<route, bookmark[2]>> /\ bookmark[2] \in 0..(Parts - 1)
    BY <1>1, SegmentsArePairs
  <2>2. PreservePrior \in Nat
    BY FootageAssumption
  <2>3. part - PreservePrior <= bookmark[2] /\ bookmark[2] <= part
    BY <1>1, <2>1, <2>2
  <2> QED BY <2>1, <2>3 DEF PreserveRange, current
<1>6. IncidentCovered'
  <2>1. \A i \in incidents \cap dirs : \E d \in Segments : i \in PreserveRange(d) /\ Covers(d)
    BY DEF IncidentInv, IncidentCovered, Covers
  <2>2. current' = current
    BY <1>2 DEF current
  <2>3. \A i \in incidents' \cap dirs' :
          \E d \in Segments : i \in PreserveRange(d) /\ Covers(d)'
    BY <1>1, <1>2, <1>3, <1>4, <1>5, <2>1, <2>2 DEF Covers
  <2> QED BY <2>3 DEF IncidentCovered, Covers
<1>7. prevSegment' <= part'
  BY <1>1, <1>2 DEF HandlePreserve
<1> QED BY <1>2, <1>4, <1>6, <1>7 DEF IncidentInv

LEMMA IncidentInductive ==
  ASSUME PreservePrior >= 1
  PROVE  RootInv /\ IncidentInv /\ [Next]_vars => IncidentInv'
<1> SUFFICES ASSUME RootInv, IncidentInv, [Next]_vars PROVE IncidentInv'
  OBVIOUS
<1> USE DEF rootVars, loggerdVars, deleterVars, browserVars
<1>1. CASE StartRoute \/ Rotate
  BY <1>1, NewDirectoryCovers
<1>2. CASE HandlePreserve
  BY <1>2, PreserveCovers
<1>3. CASE TakeLock \/ Incident \/ StopRoute
  BY <1>3, CoveringLasts DEF TakeLock, Incident, StopRoute
<1>4. CASE DeleterList \/ DeleterKept \/ DeleterCheck \/ DeleterRemove
  BY <1>4, CoveringLasts DEF DeleterList, DeleterKept, DeleterCheck, DeleterRemove
<1>5. CASE PressKeep \/ MarkNext \/ PowerLoss \/ Reboot \/ UNCHANGED vars
  BY <1>5, CoveringLasts DEF PressKeep, MarkNext, PowerLoss, Reboot, Down, vars
<1> QED BY <1>1, <1>2, <1>3, <1>4, <1>5 DEF Next

\* With at least one segment protected ahead of a marked one, every incident whose bookmark
\* was handled is protected by a mark that was made, for any number of drives, segments and
\* bookmarks and whatever deleter and the power did.
THEOREM IncidentsAreCovered ==
  ASSUME PreservePrior >= 1
  PROVE  Spec => []IncidentCovered
<1>1. IncidentInv => IncidentCovered
  BY DEF IncidentInv
<1> QED BY <1>1, InitIncident, IncidentInductive, RootInvariant, PTL DEF Spec

-----------------------------------------------------------------------------
\* deleter's step

\* What a step of deleter rests on while loggerd goes on: what appeared since the listing is
\* newer than all that was listed; and what was passed over was locked and still is, but for
\* the segment being recorded when deleter listed the root.
ListingInv ==
  dpc # "idle" =>
    /\ plan.todo \cup plan.failed \subseteq plan.listed
    /\ \A d \in plan.listed :
         /\ ~Older(current, d)
         /\ \A e \in dirs \ plan.listed : Older(d, e)
         /\ seen.recording # None => ~Older(seen.recording, d)
    /\ lpc # "down" /\ current \in plan.listed => current = seen.recording
    /\ \A e \in plan.listed \ (plan.todo \cup plan.failed) :
         e \in locked \/ e = seen.recording

LEMMA InitListing == Init => ListingInv
BY DEF Init, ListingInv

\* A step that leaves deleter's plan alone and locks, creates and unlocks nothing but the
\* segment being recorded.
LEMMA ListingLasts ==
  ASSUME RootInv, ListingInv, UNCHANGED <<deleterVars, route, part>>,
         dirs' \subseteq dirs,
         lpc' # "down" => lpc # "down",
         locked \ {current} \subseteq locked',
         lpc = "down" => locked \subseteq locked'
  PROVE  ListingInv'
<1> SUFFICES ASSUME dpc # "idle" PROVE ListingInv'
  BY DEF ListingInv, deleterVars
<1>1. current' = current /\ UNCHANGED <<plan, seen, dpc>>
  BY DEF current, deleterVars
<1>2. \A e \in plan.listed \ (plan.todo \cup plan.failed) :
        e \in locked' \/ e = seen.recording
  BY DEF ListingInv
<1> QED BY <1>1, <1>2 DEF ListingInv

LEMMA NewDirectoryListing ==
  ASSUME RootInv, ListingInv, StartRoute \/ Rotate
  PROVE  ListingInv'
<1> SUFFICES ASSUME dpc # "idle" PROVE ListingInv'
  BY DEF ListingInv, StartRoute, Rotate, MakeDirectory, deleterVars
<1>1. /\ current' \in Segments /\ dirs' = dirs \cup {current'}
      /\ \A d \in Segments : ~Older(current, d) => Older(d, current')
  BY NewDirectory
<1>2. UNCHANGED <<plan, seen, dpc>>
  BY DEF StartRoute, Rotate, MakeDirectory, deleterVars
<1>3. \A d \in plan.listed : d \in Segments /\ Older(d, current')
  BY <1>1 DEF ListingInv, RootInv, TypeOK
<1>4. \A d \in plan.listed : ~Older(current', d) /\ d # current'
  BY <1>1, <1>3, OlderOrder
<1>5. \A e \in locked \ locked' : e = current /\ lpc # "down" /\ e \in Segments
  BY SegmentsArePairs DEF StartRoute, Rotate, MakeDirectory, RootInv, TypeOK
<1>6. \A e \in plan.listed \ (plan.todo \cup plan.failed) :
        e \in locked' \/ e = seen.recording
  BY <1>5 DEF ListingInv
<1> QED BY <1>1, <1>2, <1>3, <1>4, <1>6 DEF ListingInv

LEMMA DeleterListing ==
  ASSUME RootInv, ListingInv, Deleter
  PROVE  ListingInv'
<1>1. CASE DeleterList
  <2>1. /\ plan'.listed = dirs /\ plan'.todo = dirs /\ plan'.failed = {}
        /\ seen'.recording = IF lpc = "down" THEN None ELSE current
        /\ UNCHANGED <<dirs, lpc, route, part>>
    BY <1>1 DEF DeleterList, NoPlan, rootVars, loggerdVars
  <2>2. current' = current
    BY <2>1 DEF current
  <2> QED BY <2>1, <2>2 DEF ListingInv, RootInv
<1>2. CASE DeleterKept
  <2>1. /\ plan'.listed = plan.listed /\ plan'.todo = plan.todo
        /\ plan'.failed = plan.failed /\ dpc # "idle"
    BY <1>2 DEF DeleterKept, RootInv, TypeOK
  <2>2. current' = current /\ UNCHANGED <<dirs, locked, lpc, seen>>
    BY <1>2 DEF DeleterKept, rootVars, loggerdVars, current
  <2> QED BY <2>1, <2>2 DEF ListingInv
<1>3. CASE DeleterCheck
  <2>1. CASE dpc' = "idle"
    BY <2>1 DEF ListingInv
  <2>2. CASE dpc' # "idle"
    <3>1. current' = current /\ UNCHANGED <<dirs, locked, lpc, seen>> /\ dpc # "idle"
      BY <1>3 DEF DeleterCheck, rootVars, loggerdVars, current
    <3>2. /\ plan'.listed = plan.listed /\ plan'.failed = plan.failed
          /\ \/ plan'.todo = plan.todo
             \/ candidate \in locked /\ plan'.todo = plan.todo \ {candidate}
      BY <1>3, <2>2 DEF DeleterCheck, RootInv, TypeOK
    <3> QED BY <3>1, <3>2 DEF ListingInv
  <2> QED BY <2>1, <2>2
<1>4. CASE DeleterRemove
  <2>1. CASE dpc' = "idle"
    BY <2>1 DEF ListingInv
  <2>2. CASE dpc' # "idle"
    <3>1. /\ current' = current /\ UNCHANGED <<dirs, locked, lpc, seen>> /\ dpc # "idle"
          /\ plan' = [plan EXCEPT !.todo = @ \ {candidate}, !.failed = @ \cup {candidate}]
      BY <1>4, <2>2 DEF DeleterRemove, rootVars, loggerdVars, current
    <3>2. candidate \in plan.todo
      BY <1>4, CandidateFirst DEF DeleterRemove, RootInv, TypeOK
    <3>3. /\ plan'.listed = plan.listed /\ plan'.todo = plan.todo \ {candidate}
          /\ plan'.failed = plan.failed \cup {candidate}
      BY <3>1 DEF RootInv, TypeOK
    <3> QED BY <3>1, <3>2, <3>3 DEF ListingInv
  <2> QED BY <2>1, <2>2
<1> QED BY <1>1, <1>2, <1>3, <1>4 DEF Deleter

LEMMA ListingInductive == RootInv /\ ListingInv /\ [Next]_vars => ListingInv'
<1> SUFFICES ASSUME RootInv, ListingInv, [Next]_vars PROVE ListingInv'
  OBVIOUS
<1> USE DEF rootVars, loggerdVars, browserVars
<1>1. CASE StartRoute \/ Rotate
  BY <1>1, NewDirectoryListing
<1>2. CASE TakeLock \/ Incident \/ HandlePreserve \/ StopRoute
  BY <1>2, ListingLasts DEF TakeLock, Incident, HandlePreserve, StopRoute
<1>3. CASE Deleter
  BY <1>3, DeleterListing
<1>4. CASE PressKeep \/ MarkNext \/ UNCHANGED vars
  BY <1>4, ListingLasts DEF PressKeep, MarkNext, vars
<1>5. CASE PowerLoss \/ Reboot
  BY <1>5 DEF PowerLoss, Reboot, Down, ListingInv
<1> QED BY <1>1, <1>2, <1>3, <1>4, <1>5 DEF Next, Deleter

LEMMA ListingInvariant == Spec => [](RootInv /\ ListingInv)
BY RootInvariant, InitListing, ListingInductive, PTL DEF Spec

\* What a step removes is the candidate of deleter, which goes before every segment that is
\* still listed to be tried.
LEMMA RemovedIsFirst ==
  ASSUME RootInv, ListingInv, [Next]_vars, NEW d \in Removed
  PROVE  /\ d = candidate /\ DeleterRemove /\ dpc # "idle"
         /\ d \in plan.todo /\ plan.todo \subseteq Segments
         /\ \A e \in plan.todo : e = d \/ GoesBefore(d, e)
<1>1. DeleterRemove
  BY DEF Next, StartRoute, Rotate, MakeDirectory, TakeLock, Incident, HandlePreserve,
         StopRoute, DeleterList, DeleterKept, DeleterCheck, PressKeep, MarkNext, PowerLoss,
         Reboot, Down, vars, rootVars, Removed
<1>2. d = candidate
  BY <1>1 DEF DeleterRemove, rootVars, Removed
<1>3. plan.todo \subseteq Segments /\ plan.todo # {}
  BY <1>1 DEF DeleterRemove, RootInv, TypeOK
<1> QED BY <1>1, <1>2, <1>3, CandidateFirst DEF DeleterRemove

\* Footage goes oldest first: when an ordinary segment goes, every older ordinary one that
\* stays is locked or was tried in vain, whatever was recorded, marked or pressed while
\* deleter worked through its listing.
THEOREM OldestGoesFirst == Spec => OldestFirst
<1>1. RootInv /\ ListingInv /\ [Next]_vars
        => [\A d \in Removed : Ordinary(d) =>
              \A e \in dirs \ (locked \cup plan.failed) : Ordinary(e) => ~Older(e, d)]_vars
  <2> SUFFICES ASSUME RootInv, ListingInv, [Next]_vars,
                      NEW d \in Removed, Ordinary(d),
                      NEW e \in dirs \ (locked \cup plan.failed), Ordinary(e)
               PROVE  ~Older(e, d)
    OBVIOUS
  <2>1. /\ d \in plan.todo /\ dpc # "idle" /\ d \in Segments /\ e \in Segments
        /\ \A x \in plan.todo : x = d \/ GoesBefore(d, x)
    BY RemovedIsFirst DEF RootInv, TypeOK
  <2>2. CASE e \in plan.todo
    <3>1. e = d \/ Older(d, e)
      BY <2>1, <2>2 DEF GoesBefore, Ordinary
    <3> QED BY <2>1, <3>1, OlderOrder
  <2>3. CASE e \in plan.listed \ plan.todo
    <3>1. e = seen.recording /\ e # None
      BY <2>1, <2>3, SegmentsArePairs DEF ListingInv
    <3> QED BY <2>1, <3>1 DEF ListingInv
  <2>4. CASE e \notin plan.listed
    BY <2>1, <2>4, OlderOrder DEF ListingInv
  <2> QED BY <2>2, <2>3, <2>4
<1> QED BY <1>1, ListingInvariant, PTL DEF Spec, OldestFirst

\* Kept footage within the budget goes only when no ordinary segment of the listing is left
\* that could have gone instead.
THEOREM KeptGoesLate == Spec => KeptOutlast
<1>1. RootInv /\ ListingInv /\ [Next]_vars
        => [\A d \in Removed \cap plan.kept :
              \A e \in (plan.listed \cap dirs)
                         \ ({seen.recording} \cup locked \cup plan.failed) :
                ~Ordinary(e)]_vars
  <2> SUFFICES ASSUME RootInv, ListingInv, [Next]_vars,
                      NEW d \in Removed \cap plan.kept,
                      NEW e \in (plan.listed \cap dirs)
                                  \ ({seen.recording} \cup locked \cup plan.failed)
               PROVE  ~Ordinary(e)
    OBVIOUS
  <2>1. /\ d \in plan.todo /\ dpc # "idle"
        /\ \A x \in plan.todo : x = d \/ GoesBefore(d, x)
    BY RemovedIsFirst
  <2>2. e \in plan.todo
    BY <2>1 DEF ListingInv
  <2> QED BY <2>1, <2>2 DEF GoesBefore, Ordinary
<1> QED BY <1>1, ListingInvariant, PTL DEF Spec, KeptOutlast

-----------------------------------------------------------------------------
\* The segment being recorded

\* A segment that was locked when deleter listed the root is never locked again once it was
\* unlocked, so a lock that deleter saw missing stays missing.
RecordingInv ==
  /\ seen.running =>
       /\ seen.recording \in Segments
       /\ ~Older(current, seen.recording)
       /\ lpc = "mkdir" => current # seen.recording
  /\ seen.running /\ dpc = "remove" => seen.recording # candidate \/ candidate \notin locked

LEMMA InitRecording == Init => RecordingInv
BY DEF Init, RecordingInv, NothingSeen

\* A step of loggerd or of the browser, that locks at most the directory just made.
LEMMA RecordingLasts ==
  ASSUME RecordingInv, UNCHANGED <<dpc, plan, seen, route, part>>,
         lpc' = "mkdir" => lpc = "mkdir",
         locked' \subseteq locked \/ (lpc = "mkdir" /\ locked' = locked \cup {current})
  PROVE  RecordingInv'
<1>1. current' = current /\ candidate' = candidate
  BY DEF current, candidate, GoesBefore
<1> QED BY <1>1 DEF RecordingInv

LEMMA NewDirectoryRecording ==
  ASSUME RootInv, RecordingInv, StartRoute \/ Rotate
  PROVE  RecordingInv'
<1>1. /\ current' \in Segments
      /\ \A d \in Segments : ~Older(current, d) => Older(d, current')
  BY NewDirectory
<1>2. UNCHANGED <<plan, seen, dpc>> /\ locked' \subseteq locked
  BY DEF StartRoute, Rotate, MakeDirectory, deleterVars
<1>3. candidate' = candidate
  BY <1>2 DEF candidate, GoesBefore
<1>4. seen.running => ~Older(current', seen.recording) /\ current' # seen.recording
  BY <1>1, OlderOrder DEF RecordingInv
<1> QED BY <1>2, <1>3, <1>4 DEF RecordingInv

LEMMA DeleterRecording ==
  ASSUME RootInv, RecordingInv, Deleter
  PROVE  RecordingInv'
<1>1. CASE DeleterList
  <2>1. /\ seen' = [recording |-> IF lpc = "down" THEN None ELSE current,
                   running |-> lpc = "run", marks |-> preserveAttr]
        /\ dpc' = "kept" /\ current' = current /\ lpc' = lpc
    BY <1>1 DEF DeleterList, loggerdVars, current
  <2> QED BY <2>1, CurrentIsSegment DEF RecordingInv
<1>2. CASE DeleterKept
  BY <1>2 DEF DeleterKept, RecordingInv, loggerdVars, current
<1>3. CASE DeleterCheck
  <2>1. current' = current /\ UNCHANGED <<lpc, seen, locked>>
    BY <1>3 DEF DeleterCheck, loggerdVars, rootVars, current
  <2>2. dpc' = "remove" => candidate' = candidate /\ candidate \notin locked
    BY <1>3 DEF DeleterCheck, candidate, GoesBefore
  <2> QED BY <2>1, <2>2 DEF RecordingInv
<1>4. CASE DeleterRemove
  <2>1. current' = current /\ UNCHANGED <<lpc, seen>> /\ dpc' # "remove"
    BY <1>4 DEF DeleterRemove, loggerdVars, current
  <2> QED BY <2>1 DEF RecordingInv
<1> QED BY <1>1, <1>2, <1>3, <1>4 DEF Deleter

LEMMA RecordingInductive == RootInv /\ RecordingInv /\ [Next]_vars => RecordingInv'
<1> SUFFICES ASSUME RootInv, RecordingInv, [Next]_vars PROVE RecordingInv'
  OBVIOUS
<1> USE DEF rootVars, loggerdVars, deleterVars, browserVars
<1>1. CASE StartRoute \/ Rotate
  BY <1>1, NewDirectoryRecording
<1>2. CASE TakeLock \/ Incident \/ HandlePreserve \/ StopRoute
  BY <1>2, RecordingLasts DEF TakeLock, Incident, HandlePreserve, StopRoute
<1>3. CASE Deleter
  BY <1>3, DeleterRecording
<1>4. CASE PressKeep \/ MarkNext \/ UNCHANGED vars
  BY <1>4, RecordingLasts DEF PressKeep, MarkNext, vars
<1>5. CASE PowerLoss \/ Reboot
  BY <1>5 DEF PowerLoss, Reboot, Down, RecordingInv, NothingSeen
<1> QED BY <1>1, <1>2, <1>3, <1>4, <1>5 DEF Next, Deleter

\* What deleter found locked and being recorded is not removed while it is, however long the
\* step of deleter takes.
THEOREM RecordedStay == Spec => LockedStay
<1>1. RootInv /\ ListingInv /\ RecordingInv /\ [Next]_vars
        => [seen.running /\ seen.recording \in locked => seen.recording \notin Removed]_vars
  <2> SUFFICES ASSUME RootInv, ListingInv, RecordingInv, [Next]_vars,
                      seen.running, seen.recording \in locked, seen.recording \in Removed
               PROVE  FALSE
    OBVIOUS
  <2>1. seen.recording = candidate /\ DeleterRemove
    BY RemovedIsFirst
  <2> QED BY <2>1 DEF DeleterRemove, RecordingInv
<1> QED BY <1>1, ListingInvariant, InitRecording, RecordingInductive, PTL DEF Spec, LockedStay

-----------------------------------------------------------------------------
\* The marks of incidents

\* The segments that the newest of some marks protect.
Newest(marks) == {m \in marks : Cardinality(NewerThan(m, marks)) < PreserveCount}
ProtectedBy(marks) == UNION {PreserveRange(m) : m \in Newest(marks)}

\* No mark was set on a segment after deleter had found it without one: the timing that the
\* run of MarksHonoured takes away.
NoMarkMissed == \A d \in preserveAttr : cache[d] # "unmarked"

\* deleter has cached nothing of a segment that is still to come, nor a mark that is not
\* there.
CacheInv ==
  \A d \in Segments :
    /\ cache[d] # "unknown" => ~Older(current, d)
    /\ cache[d] = "marked" /\ d \in dirs => d \in preserveAttr

LEMMA InitCache == Init => CacheInv
BY DEF Init, CacheInv

LEMMA CacheInductive == RootInv /\ CacheInv /\ [Next]_vars => CacheInv'
<1> SUFFICES ASSUME RootInv, CacheInv, [Next]_vars PROVE CacheInv'
  OBVIOUS
<1> USE DEF rootVars, loggerdVars, deleterVars, browserVars
<1>1. CASE StartRoute \/ Rotate
  <2>1. /\ current' \in Segments /\ dirs' = dirs \cup {current'}
        /\ Older(current, current')
        /\ \A d \in Segments : ~Older(current, d) => Older(d, current')
    BY <1>1, NewDirectory
  <2>2. UNCHANGED <<cache, preserveAttr>>
    BY <1>1 DEF StartRoute, Rotate, MakeDirectory
  <2>3. \A d \in Segments : cache[d] # "unknown" => ~Older(current', d) /\ d # current'
    BY <2>1, OlderOrder DEF CacheInv
  <2> QED BY <2>1, <2>2, <2>3 DEF CacheInv
<1>2. CASE DeleterList
  <2>1. /\ \A d \in Segments :
              \/ cache'[d] = cache[d]
              \/ /\ d \in dirs
                 /\ cache'[d] = "marked" => CachedMark(d)
        /\ UNCHANGED <<dirs, preserveAttr>> /\ current' = current
    BY <1>2 DEF DeleterList, current
  <2>2. \A d \in dirs : ~Older(current, d)
    BY DEF RootInv
  <2> QED BY <2>1, <2>2 DEF CacheInv, CachedMark
<1>3. CASE DeleterRemove
  <2>1. /\ UNCHANGED cache /\ current' = current
        /\ dirs' \subseteq dirs /\ preserveAttr \cap dirs' \subseteq preserveAttr'
    BY <1>3 DEF DeleterRemove, current
  <2> QED BY <2>1 DEF CacheInv
<1>4. CASE HandlePreserve
  <2>1. /\ UNCHANGED <<cache, dirs>> /\ current' = current
        /\ preserveAttr \subseteq preserveAttr'
    BY <1>4 DEF HandlePreserve, current
  <2> QED BY <2>1 DEF CacheInv
<1>5. CASE \/ TakeLock \/ Incident \/ StopRoute \/ DeleterKept \/ DeleterCheck
           \/ PressKeep \/ MarkNext \/ UNCHANGED vars
  <2>1. UNCHANGED <<cache, dirs, preserveAttr, route, part>>
    BY <1>5 DEF TakeLock, Incident, StopRoute, DeleterKept, DeleterCheck, PressKeep, MarkNext, vars
  <2> QED BY <2>1 DEF CacheInv, current
<1>6. CASE PowerLoss \/ Reboot
  BY <1>6 DEF PowerLoss, Reboot, Down, CacheInv
<1> QED BY <1>1, <1>2, <1>3, <1>4, <1>5, <1>6 DEF Next

\* What deleter ranks as preserved is what the newest marks protect that were there when it
\* listed the root; and nothing that it listed has gone.
PlanInv ==
  dpc # "idle" =>
    /\ plan.preserved = ProtectedBy(seen.marks)
    /\ plan.listed \subseteq dirs

LEMMA InitPlan == Init => PlanInv
BY DEF Init, PlanInv

\* A listing takes the marks as they are: what deleter has cached of them is true.
LEMMA ListingSeesMarks ==
  ASSUME RootInv, CacheInv, NoMarkMissed, DeleterList
  PROVE  PlanInv'
<1> DEFINE marks == {d \in dirs : CachedMark(d)}
           newest == {d \in marks : Cardinality(NewerThan(d, marks)) < PreserveCount}
           ranges == UNION {PreserveRange(d) : d \in newest}
<1>1. marks = preserveAttr
  <2>1. preserveAttr \subseteq dirs /\ dirs \subseteq Segments
        /\ cache \in [Segments -> {"unknown", "marked", "unmarked"}]
    BY DEF RootInv, TypeOK
  <2>2. \A d \in dirs : CachedMark(d) <=> d \in preserveAttr
    BY <2>1 DEF CachedMark, CacheInv, NoMarkMissed
  <2> QED BY <2>1, <2>2
<1>2. newest = Newest(preserveAttr)
  BY <1>1 DEF Newest
<1>3. plan' = [NoPlan EXCEPT !.listed = dirs, !.todo = dirs, !.preserved = ranges]
  BY DEF DeleterList
<1>4. ranges = ProtectedBy(preserveAttr)
  <2> HIDE DEF newest
  <2> QED BY <1>2 DEF ProtectedBy
<1> HIDE DEF ranges
<1>5. plan'.preserved = ranges /\ plan'.listed = dirs
  BY <1>3 DEF NoPlan
<1>6. seen'.marks = preserveAttr /\ dirs' = dirs
  BY DEF DeleterList, rootVars
<1> QED BY <1>4, <1>5, <1>6 DEF PlanInv

LEMMA PlanInductive ==
  RootInv /\ CacheInv /\ PlanInv /\ NoMarkMissed /\ [Next]_vars => PlanInv'
<1> SUFFICES ASSUME RootInv, CacheInv, PlanInv, NoMarkMissed, [Next]_vars PROVE PlanInv'
  OBVIOUS
<1> USE DEF rootVars, loggerdVars, deleterVars, browserVars
<1>1. CASE DeleterList
  BY <1>1, ListingSeesMarks
<1>2. CASE DeleterKept \/ DeleterCheck \/ DeleterRemove
  <2>1. dpc # "idle" /\ UNCHANGED seen /\ plan.preserved = ProtectedBy(seen.marks)
    BY <1>2 DEF DeleterKept, DeleterCheck, DeleterRemove, PlanInv
  <2>2. dpc' # "idle" => /\ plan'.preserved = plan.preserved /\ plan'.listed = plan.listed
                         /\ dirs' = dirs
    BY <1>2 DEF DeleterKept, DeleterCheck, DeleterRemove, RootInv, TypeOK
  <2>3. seen.marks = seen'.marks /\ ProtectedBy(seen.marks) = ProtectedBy(seen.marks)'
    BY <2>1 DEF ProtectedBy, Newest
  <2> QED BY <2>1, <2>2, <2>3 DEF PlanInv
<1>3. CASE \/ StartRoute \/ Rotate \/ TakeLock \/ Incident \/ HandlePreserve \/ StopRoute
           \/ PressKeep \/ MarkNext \/ UNCHANGED vars
  <2>1. UNCHANGED <<dpc, plan, seen>> /\ dirs \subseteq dirs'
    BY <1>3 DEF StartRoute, Rotate, MakeDirectory, TakeLock, Incident, HandlePreserve, StopRoute,
                PressKeep, MarkNext, vars
  <2> QED BY <2>1 DEF PlanInv, ProtectedBy, Newest
<1>4. CASE PowerLoss \/ Reboot
  BY <1>4 DEF PowerLoss, Reboot, Down, PlanInv
<1> QED BY <1>1, <1>2, <1>3, <1>4 DEF Next

\* A segment in the range of one of the newest marks goes only when all that was listed, and
\* could have gone instead, is in the range of a mark too.
LEMMA RemovedMarkGoesLast ==
  ASSUME RootInv, ListingInv, PlanInv, [Next]_vars, NEW d \in Removed,
         NEW m \in Newest(seen.marks), d \in PreserveRange(m),
         NEW e \in plan.listed \ ({seen.recording} \cup locked \cup plan.failed)
  PROVE  \E n \in seen.marks : e \in PreserveRange(n)
<1>1. /\ dpc # "idle" /\ \A x \in plan.todo : x = d \/ GoesBefore(d, x)
  BY RemovedIsFirst
<1>2. d \in plan.preserved
  BY <1>1 DEF PlanInv, ProtectedBy
<1>3. e \in plan.todo
  BY <1>1 DEF ListingInv
<1>4. e \in plan.preserved
  BY <1>1, <1>2, <1>3 DEF GoesBefore
<1> QED BY <1>1, <1>4 DEF PlanInv, ProtectedBy, Newest

\* Without power losses and rmtrees that raise, nothing is locked but the segment being
\* recorded and nothing was tried in vain.
NoFaultInv ==
  /\ locked \subseteq IF lpc = "down" THEN {} ELSE {current}
  /\ dpc # "idle" => plan.failed = {}

LEMMA InitNoFault == Init => NoFaultInv
BY DEF Init, NoFaultInv

LEMMA NoFaultInductive ==
  ASSUME MaxFaults = 0
  PROVE  RootInv /\ NoFaultInv /\ [Next]_vars => NoFaultInv'
<1> SUFFICES ASSUME RootInv, NoFaultInv, [Next]_vars PROVE NoFaultInv'
  OBVIOUS
<1> USE DEF rootVars, loggerdVars, deleterVars, browserVars
<1>0. ~(faults < MaxFaults)
  BY DEF RootInv, TypeOK
<1>1. CASE StartRoute \/ Rotate
  <2>1. locked' = {} /\ UNCHANGED <<dpc, plan>>
    BY <1>1 DEF StartRoute, Rotate, MakeDirectory, NoFaultInv, current
  <2> QED BY <2>1 DEF NoFaultInv
<1>2. CASE TakeLock
  <2>1. locked \subseteq dirs
    BY DEF RootInv, TypeOK
  <2>2. current' = current /\ UNCHANGED <<dpc, plan>> /\ lpc # "down"
    BY <1>2 DEF TakeLock, current
  <2> QED BY <1>2, <2>1, <2>2 DEF TakeLock, NoFaultInv
<1>3. CASE StopRoute
  BY <1>3 DEF StopRoute, NoFaultInv
<1>4. CASE Incident \/ HandlePreserve \/ PressKeep \/ MarkNext \/ UNCHANGED vars
  <2>1. UNCHANGED <<locked, lpc, route, part, dpc, plan>>
    BY <1>4 DEF Incident, HandlePreserve, PressKeep, MarkNext, vars
  <2> QED BY <2>1 DEF NoFaultInv, current
<1>5. CASE Deleter
  <2>1. /\ locked' \subseteq locked /\ UNCHANGED lpc /\ current' = current
        /\ dpc' # "idle" => plan'.failed = {}
    BY <1>0, <1>5 DEF Deleter, DeleterList, DeleterKept, DeleterCheck, DeleterRemove, NoPlan,
                      NoFaultInv, RootInv, TypeOK, current
  <2> QED BY <2>1 DEF NoFaultInv
<1>6. CASE PowerLoss \/ Reboot
  BY <1>0, <1>6 DEF PowerLoss, Reboot, Down
<1> QED BY <1>1, <1>2, <1>3, <1>4, <1>5, <1>6 DEF Next, Deleter

\* The segments of an incident outlast what is unmarked, as incidentd.py:7-8 says, as long as
\* no mark comes after deleter cached its absence.  The run that refutes MarksHonoured sets
\* such a mark, with no fault either: the cache is all that stands in the way.
THEOREM MarksAreHonoured ==
  ASSUME MaxFaults = 0
  PROVE  Spec /\ []NoMarkMissed => MarksHonoured
<1>1. RootInv /\ ListingInv /\ PlanInv /\ NoFaultInv /\ [Next]_vars
        => [\A d \in Removed :
              (\E m \in seen.marks :
                 d \in PreserveRange(m) /\ Cardinality(NewerThan(m, seen.marks)) < PreserveCount)
              => \A e \in plan.listed \ {seen.recording} :
                   \/ e \in plan.kept
                   \/ \E m \in seen.marks : e \in PreserveRange(m)]_vars
  <2> SUFFICES ASSUME RootInv, ListingInv, PlanInv, NoFaultInv, [Next]_vars,
                      NEW d \in Removed, NEW m \in seen.marks, d \in PreserveRange(m),
                      Cardinality(NewerThan(m, seen.marks)) < PreserveCount,
                      NEW e \in plan.listed \ {seen.recording}
               PROVE  \E n \in seen.marks : e \in PreserveRange(n)
    OBVIOUS
  <2>1. m \in Newest(seen.marks)
    BY DEF Newest
  <2>2. dpc # "idle"
    BY RemovedIsFirst
  <2>3. e \notin locked /\ e \notin plan.failed
    BY <2>2 DEF NoFaultInv, ListingInv
  <2> QED BY <2>1, <2>3, RemovedMarkGoesLast
<1> QED
  BY <1>1, ListingInvariant, InitCache, CacheInductive, InitPlan, PlanInductive, InitNoFault,
     NoFaultInductive, PTL DEF Spec, MarksHonoured
=============================================================================
