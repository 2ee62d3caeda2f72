-------------------------- MODULE RecordingProofs --------------------------
(***************************************************************************)
(* Proofs about Recording, for any number of encoders and any lengths: the *)
(* frames are filed in the segment of their time, where segments are not   *)
(* ended by a stall and fewer frames are lost than a segment has.          *)
(***************************************************************************)
EXTENDS Recording, SequenceTheorems, FiniteSetTheorems, WellFoundedInduction, TLAPS

Frames == [n: Nat, key: BOOLEAN]

\* The rotations since the first frame, and the first frame after k of them.
Rotations == segment - idle
Start(k) == k * PerSegment

\* The segment a frame belongs into.
TimeOf(n) == idle + SegmentNum(n)

\* The encoders that are ready for the next rotation, and those loggerd has heard of.
Counted == {e \in Encoders : marked[e] /\ current[e] = segment}
Known == {e \in Encoders : seenFirst[e]}

\* A rotation waits for every known encoder.
CountInv ==
  /\ ready = Cardinality(Counted) /\ maxWaiting = Cardinality(Known)
  /\ ready < maxWaiting \/ maxWaiting = 0

\* How far apart the encoders are, and what was lost of them.
ClockInv ==
  /\ lost <= MaxLost /\ idle <= segment
  /\ \A e, o \in Encoders : next[e] <= next[o] + Skew

\* Nothing is known of an encoder before its first frame, and no segment ends before all
\* have sent one; then its segments are numbered from the time of silence on.
KnownInv(e) ==
  IF seenFirst[e]
  THEN offset[e] = -idle /\ next[e] > 0 /\ next[e] >= Start(Rotations)
  ELSE /\ next[e] <= lost /\ segment = idle
       /\ current[e] = -1 /\ ~marked[e] /\ queue[e] = <<>> /\ filed[e] = <<>>

\* Where an encoder is: short of the next segment, but for lost frames, until it is counted.
PlaceInv(e) ==
  /\ current[e] \in {-1} \cup (idle..segment)
  /\ current[e] # segment => next[e] <= Start(Rotations) + lost + Skew
  /\ e \notin Counted => next[e] <= Start(Rotations + 1) + lost
  /\ e \in Counted => next[e] > Start(Rotations + 1)

\* What waits in a queue is in order, already sent, and of the segment it waits for.
QueueInv(e) ==
  \A j \in 1..Len(queue[e]) :
    /\ queue[e][j].n < next[e]
    /\ \A i \in 1..(j - 1) : queue[e][i].n < queue[e][j].n
    /\ TimeOf(queue[e][j].n) <= (IF current[e] = segment THEN segment + 1 ELSE segment)
    /\ e \notin WithAudio =>
         TimeOf(queue[e][j].n) = (IF current[e] = segment THEN segment + 1 ELSE segment)

\* A frame in the segment of its time, or later with audio.
Right(e, entry) ==
  IF e \in WithAudio THEN entry[2] >= TimeOf(entry[1]) ELSE entry[2] = TimeOf(entry[1])

\* What is filed is in order, was sent before what still waits, and is where it belongs.
FiledInv(e) ==
  \A j \in 1..Len(filed[e]) :
    /\ filed[e][j][1] < next[e]
    /\ \A i \in 1..(j - 1) : filed[e][i][1] < filed[e][j][1]
    /\ \A i \in 1..Len(queue[e]) : filed[e][j][1] < queue[e][i].n
    /\ Right(e, filed[e][j])

EncoderInv(e) == KnownInv(e) /\ PlaceInv(e) /\ QueueInv(e) /\ FiledInv(e)

RecInv == RecTypeOK /\ CountInv /\ ClockInv /\ \A e \in Encoders : EncoderInv(e)

-----------------------------------------------------------------------------
\* Segments and frames

LEMMA Monotonic ==
  ASSUME NEW a \in Nat, NEW b \in Nat, a <= b
  PROVE  Start(a) <= Start(b)
<1>1. PerSegment \in Nat
  BY RecordingAssumption
<1>2. PICK d \in Nat : b = a + d
  <2>1. b - a \in Nat /\ b = a + (b - a)
    OBVIOUS
  <2> QED BY <2>1
<1>3. d * PerSegment \in Nat /\ b * PerSegment = a * PerSegment + d * PerSegment
  BY <1>1, <1>2
<1>4. a * PerSegment \in Nat
  BY <1>1
<1> QED BY <1>3, <1>4 DEF Start

LEMMA Starts ==
  ASSUME NEW k \in Nat
  PROVE  /\ Start(k) \in Nat /\ Start(0) = 0 /\ Start(1) = PerSegment
         /\ Start(k + 1) = Start(k) + PerSegment
BY RecordingAssumption DEF Start

LEMMA Numbers ==
  ASSUME NEW n \in Nat, NEW k \in Nat
  PROVE  /\ SegmentNum(n) \in Nat
         /\ n < Start(k) => SegmentNum(n) < k
         /\ n >= Start(k) => SegmentNum(n) >= k
<1> DEFINE q == n \div PerSegment
           r == n % PerSegment
<1>1. PerSegment \in Nat /\ PerSegment > 0
  BY RecordingAssumption
<1>2. q \in Nat /\ r \in 0..(PerSegment - 1) /\ n = PerSegment * q + r
  BY <1>1
<1>3. Start(q) <= n /\ n < Start(q + 1)
  BY <1>1, <1>2 DEF Start
<1> HIDE DEF q, r
<1>4. ASSUME n < Start(k) PROVE q < k
  <2>1. SUFFICES ASSUME q >= k PROVE FALSE
    BY <1>2
  <2>2. Start(k) <= Start(q)
    BY <1>2, <2>1, Monotonic
  <2> QED BY <1>2, <1>3, <1>4, <2>2, Starts
<1>5. ASSUME n >= Start(k) PROVE q >= k
  <2>1. SUFFICES ASSUME q + 1 <= k PROVE FALSE
    BY <1>2
  <2>2. Start(q + 1) <= Start(k)
    BY <1>2, <2>1, Monotonic
  <2>3. Start(q + 1) \in Nat /\ Start(k) \in Nat
    BY <1>2, Starts
  <2> QED BY <1>3, <1>5, <2>2, <2>3
<1> QED BY <1>2, <1>4, <1>5 DEF SegmentNum, q

-----------------------------------------------------------------------------
\* What is written and queued

LEMMA LeastNat ==
  ASSUME NEW S \in SUBSET Nat, S # {}
  PROVE  \E n \in S : \A m \in S : n <= m
<1>1. PICK n \in S : \A m \in S : ~(<<m, n>> \in OpToRel(<, Nat))
  BY NatLessThanWellFounded, WFMin
<1>2. ASSUME NEW m \in S PROVE n <= m
  <2>1. ~(m < n)
    BY <1>1 DEF OpToRel
  <2> QED BY <2>1
<1> QED BY <1>2

\* write_encode_data writes the frames from some point on, or none.
LEMMA WrittenSuffix ==
  ASSUME NEW frames \in Seq(Frames), NEW e, NEW fresh
  PROVE  /\ Written(e, frames, fresh) \in Seq(Frames)
         /\ \E k \in 1..(Len(frames) + 1) :
              /\ Len(Written(e, frames, fresh)) = Len(frames) - k + 1
              /\ \A j \in 1..(Len(frames) - k + 1) : Written(e, frames, fresh)[j] = frames[k + j - 1]
<1>1. Len(frames) \in Nat /\ DOMAIN frames = 1..Len(frames)
  BY LenProperties
<1>2. CASE recording[e] /\ ~fresh
  <2>1. Written(e, frames, fresh) = frames
    BY <1>2 DEF Written
  <2> QED BY <1>1, <2>1
<1>3. CASE ~(recording[e] /\ ~fresh) /\ ~(\E i \in DOMAIN frames : frames[i].key)
  <2>1. Written(e, frames, fresh) = <<>>
    BY <1>3 DEF Written
  <2>2. Len(frames) + 1 \in 1..(Len(frames) + 1)
    BY <1>1
  <2> QED BY <1>1, <2>1, <2>2
<1>4. CASE ~(recording[e] /\ ~fresh) /\ \E i \in DOMAIN frames : frames[i].key
  <2> DEFINE keys == {i \in DOMAIN frames : frames[i].key}
             k == CHOOSE i \in DOMAIN frames : frames[i].key /\ \A j \in 1..(i-1) : ~frames[j].key
  <2>1. keys \in SUBSET Nat /\ keys # {}
    BY <1>1, <1>4
  <2>2. PICK m \in keys : \A j \in keys : m <= j
    BY <2>1, LeastNat
  <2>3. m \in DOMAIN frames /\ frames[m].key /\ \A j \in 1..(m-1) : ~frames[j].key
    BY <1>1, <2>2
  <2>4. k \in DOMAIN frames
    BY <2>3
  <2> HIDE DEF k
  <2>5. Written(e, frames, fresh) = SubSeq(frames, k, Len(frames))
    BY <1>4 DEF Written, k
  <2>6. \A i \in k..Len(frames) : frames[i] \in Frames
    BY <1>1, <2>4, ElementOfSeq
  <2>7. k \in Int /\ Len(frames) \in Int /\ k <= Len(frames) /\ k >= 1
    BY <1>1, <2>4
  <2>8. /\ SubSeq(frames, k, Len(frames)) \in Seq(Frames)
        /\ Len(SubSeq(frames, k, Len(frames))) = Len(frames) - k + 1
        /\ \A j \in 1..(Len(frames) - k + 1) : SubSeq(frames, k, Len(frames))[j] = frames[k + j - 1]
    BY <2>6, <2>7, SubSeqProperties
  <2> QED BY <2>5, <2>7, <2>8
<1> QED BY <1>2, <1>3, <1>4

\* The entries of the file for frames that are written.
AreEntries(h, w, s) ==
  h \in Seq(Nat \X Nat) /\ Len(h) = Len(w) /\ \A i \in 1..Len(w) : h[i] = <<w[i].n, s>>

LEMMA Entries ==
  ASSUME NEW w \in Seq(Frames), NEW s \in Nat,
         NEW h, h = [i \in DOMAIN w |-> <<w[i].n, s>>]
  PROVE  AreEntries(h, w, s)
<1>1. Len(w) \in Nat /\ DOMAIN w = 1..Len(w)
  BY LenProperties
<1>2. \A i \in 1..Len(w) : w[i].n \in Nat
  <2>1. SUFFICES ASSUME NEW i \in 1..Len(w) PROVE w[i].n \in Nat
    OBVIOUS
  <2>2. w[i] \in Frames
    BY <2>1, ElementOfSeq
  <2> QED BY <2>2 DEF Frames
<1>3. h \in [1..Len(w) -> Nat \X Nat] /\ \A i \in 1..Len(w) : h[i] = <<w[i].n, s>>
  BY <1>1, <1>2
<1>0. h \in Seq(Nat \X Nat) /\ DOMAIN h = 1..Len(w)
  BY <1>1, <1>3
<1>4. Len(h) = Len(w)
  BY <1>0, <1>1, LenProperties
<1> QED BY <1>0, <1>3, <1>4 DEF AreEntries

\* A file and frames in order, the frames after the file, and the file with their entries.
FileOrder(f, bound) == \A j \in 1..Len(f) : f[j][1] < bound /\ \A i \in 1..(j - 1) : f[i][1] < f[j][1]
FrameOrder(w, bound) == \A j \in 1..Len(w) : w[j].n < bound /\ \A i \in 1..(j - 1) : w[i].n < w[j].n
Precedes(f, w) == \A j \in 1..Len(f) : \A i \in 1..Len(w) : f[j][1] < w[i].n
Extends(g, f, w, s) ==
  /\ Len(g) = Len(f) + Len(w)
  /\ \A j \in 1..Len(g) :
       /\ j <= Len(f) => g[j] = f[j]
       /\ j > Len(f) => g[j] = <<w[j - Len(f)].n, s>> /\ j - Len(f) \in 1..Len(w)

LEMMA Extended ==
  ASSUME NEW f \in Seq(Nat \X Nat), NEW w \in Seq(Frames), NEW s \in Nat, NEW bound,
         FileOrder(f, bound), FrameOrder(w, bound), Precedes(f, w),
         NEW h, AreEntries(h, w, s)
  PROVE  f \o h \in Seq(Nat \X Nat) /\ FileOrder(f \o h, bound) /\ Extends(f \o h, f, w, s)
<1> DEFINE g == f \o h
<1>0. h \in Seq(Nat \X Nat) /\ Len(h) = Len(w) /\ \A i \in 1..Len(w) : h[i] = <<w[i].n, s>>
  BY DEF AreEntries
<1>1. Len(f) \in Nat /\ Len(w) \in Nat /\ DOMAIN w = 1..Len(w)
  BY LenProperties
<1>2. /\ g \in Seq(Nat \X Nat) /\ Len(g) = Len(f) + Len(h)
      /\ \A i \in 1..(Len(f) + Len(h)) : g[i] = IF i <= Len(f) THEN f[i] ELSE h[i - Len(f)]
  BY <1>0, ConcatProperties, Zenon
<1>5. /\ g \in Seq(Nat \X Nat) /\ Len(g) = Len(f) + Len(w)
      /\ \A i \in 1..(Len(f) + Len(w)) : g[i] = IF i <= Len(f) THEN f[i] ELSE h[i - Len(f)]
  BY <1>0, <1>2
<1> HIDE DEF g
<1>6. \A j \in 1..Len(f) : f[j][1] \in Nat
  <2>1. SUFFICES ASSUME NEW j \in 1..Len(f) PROVE f[j][1] \in Nat
    OBVIOUS
  <2>2. f[j] \in Nat \X Nat
    BY <2>1, ElementOfSeq
  <2> QED BY <2>2
<1>7. \A j \in 1..(Len(f) + Len(w)) : j <= Len(f) => j \in 1..Len(f) /\ g[j] = f[j]
  <2>1. SUFFICES ASSUME NEW j \in 1..(Len(f) + Len(w)), j <= Len(f)
                 PROVE  j \in 1..Len(f) /\ g[j] = f[j]
    OBVIOUS
  <2>2. j \in 1..Len(f)
    BY <1>1, <2>1
  <2>3. g[j] = f[j]
    BY <1>5, <2>1
  <2> QED BY <2>2, <2>3
<1>8. \A j \in 1..(Len(f) + Len(w)) :
        j > Len(f) => j - Len(f) \in 1..Len(w) /\ g[j] = <<w[j - Len(f)].n, s>>
  <2>1. SUFFICES ASSUME NEW j \in 1..(Len(f) + Len(w)), j > Len(f)
                 PROVE  j - Len(f) \in 1..Len(w) /\ g[j] = <<w[j - Len(f)].n, s>>
    OBVIOUS
  <2>2. j - Len(f) \in 1..Len(w)
    BY <1>1, <2>1
  <2>3. g[j] = h[j - Len(f)]
    BY <1>1, <1>5, <2>1
  <2> QED BY <1>0, <2>2, <2>3
<1>9. \A j \in 1..(Len(f) + Len(w)) : j > Len(f) => g[j][1] = w[j - Len(f)].n
  <2>1. SUFFICES ASSUME NEW j \in 1..(Len(f) + Len(w)), j > Len(f) PROVE g[j][1] = w[j - Len(f)].n
    OBVIOUS
  <2>2. g[j] = <<w[j - Len(f)].n, s>>
    BY <1>8, <2>1
  <2> QED BY ONLY <2>2
<1>10. \A j \in 1..Len(g) : g[j][1] < bound
  <2>1. SUFFICES ASSUME NEW j \in 1..(Len(f) + Len(w)) PROVE g[j][1] < bound
    BY <1>5
  <2>2. CASE j <= Len(f)
    BY <1>7, <2>2 DEF FileOrder
  <2>3. CASE j > Len(f)
    BY <1>8, <1>9, <2>3 DEF FrameOrder
  <2> QED BY <1>1, <2>2, <2>3
<1>11. ASSUME NEW j \in 1..Len(g), NEW i \in 1..(j - 1)
       PROVE  g[i][1] < g[j][1]
  <2>1. i \in 1..(Len(f) + Len(w)) /\ j \in 1..(Len(f) + Len(w)) /\ i < j /\ j \in Nat /\ i \in Nat
    <3>1. j \in 1..(Len(f) + Len(w)) /\ i \in 1..(j - 1)
      BY <1>5, <1>11
    <3> QED BY <1>1, <3>1
  <2>2. CASE j <= Len(f)
    <3>1. g[i] = f[i] /\ g[j] = f[j] /\ j \in 1..Len(f)
      BY <1>1, <1>7, <2>1, <2>2
    <3>2. f[i][1] < f[j][1]
      BY <3>1 DEF FileOrder
    <3> QED BY <3>1, <3>2
  <2>3. CASE j > Len(f) /\ i <= Len(f)
    <3>1. g[i] = f[i] /\ i \in 1..Len(f)
      BY <1>7, <2>1, <2>3
    <3>2. g[j][1] = w[j - Len(f)].n /\ j - Len(f) \in 1..Len(w)
      BY <1>8, <1>9, <2>1, <2>3
    <3> QED BY <3>1, <3>2 DEF Precedes
  <2>4. CASE j > Len(f) /\ i > Len(f)
    <3>1. g[i][1] = w[i - Len(f)].n /\ g[j][1] = w[j - Len(f)].n
      BY <1>9, <2>1, <2>4
    <3>2. j - Len(f) \in 1..Len(w) /\ i - Len(f) \in 1..((j - Len(f)) - 1)
      BY <1>1, <1>8, <2>1, <2>4
    <3> QED BY <3>1, <3>2 DEF FrameOrder
  <2> QED BY <1>1, <2>1, <2>2, <2>3, <2>4
<1>12. \A j \in 1..Len(g) :
         /\ j <= Len(f) => g[j] = f[j]
         /\ j > Len(f) => g[j] = <<w[j - Len(f)].n, s>> /\ j - Len(f) \in 1..Len(w)
  BY <1>5, <1>7, <1>8
<1> QED BY <1>5, <1>10, <1>11, <1>12 DEF g, FileOrder, Extends

\* The numbers of what is queued and filed.
LEMMA QueuedFrames ==
  ASSUME RecTypeOK, NEW e \in Encoders
  PROVE  /\ queue[e] \in Seq(Frames) /\ filed[e] \in Seq(Nat \X Nat)
         /\ \A j \in 1..Len(queue[e]) : queue[e][j].n \in Nat
         /\ \A j \in 1..Len(filed[e]) : filed[e][j][1] \in Nat /\ filed[e][j][2] \in Nat
<1>1. queue[e] \in Seq(Frames) /\ filed[e] \in Seq(Nat \X Nat)
  BY DEF RecTypeOK, Frames
<1>2. ASSUME NEW j \in 1..Len(queue[e]) PROVE queue[e][j].n \in Nat
  <2>1. queue[e][j] \in Frames
    BY <1>1, ElementOfSeq
  <2> QED BY <2>1 DEF Frames
<1>3. ASSUME NEW j \in 1..Len(filed[e]) PROVE filed[e][j][1] \in Nat /\ filed[e][j][2] \in Nat
  <2>1. filed[e][j] \in Nat \X Nat
    BY <1>1, ElementOfSeq
  <2> QED BY <2>1
<1> QED BY <1>1, <1>2, <1>3

LEMMA Times ==
  ASSUME RecTypeOK, NEW n \in Nat
  PROVE  TimeOf(n) \in Nat
<1>1. idle \in Nat /\ SegmentNum(n) \in Nat
  BY Numbers, RecordingAssumption DEF RecTypeOK
<1> QED BY <1>1 DEF TimeOf

\* A later frame behind a queue that is in order leaves it in order.
LEMMA Queued ==
  ASSUME NEW q \in Seq(Frames), NEW x \in Frames,
         \A j \in 1..Len(q) : q[j].n < x.n /\ \A i \in 1..(j - 1) : q[i].n < q[j].n
  PROVE  /\ Append(q, x) \in Seq(Frames)
         /\ \A j \in 1..Len(Append(q, x)) :
              /\ Append(q, x)[j] = x \/ \E i \in 1..Len(q) : Append(q, x)[j] = q[i]
              /\ Append(q, x)[j].n <= x.n
              /\ \A i \in 1..(j - 1) : Append(q, x)[i].n < Append(q, x)[j].n
<1> DEFINE a == Append(q, x)
<1>1. Len(q) \in Nat /\ x.n \in Nat
  BY LenProperties DEF Frames
<1>2. /\ a \in Seq(Frames) /\ Len(a) = Len(q) + 1
      /\ a[Len(q) + 1] = x /\ \A j \in 1..Len(q) : a[j] = q[j]
  BY AppendProperties
<1>3. \A j \in 1..Len(q) : q[j].n \in Nat
  <2>1. SUFFICES ASSUME NEW j \in 1..Len(q) PROVE q[j].n \in Nat
    OBVIOUS
  <2>2. q[j] \in Frames
    BY <2>1, ElementOfSeq
  <2> QED BY <2>2 DEF Frames
<1> HIDE DEF a
<1>4. ASSUME NEW j \in 1..Len(a)
      PROVE  /\ a[j] = x \/ \E i \in 1..Len(q) : a[j] = q[i]
             /\ a[j].n <= x.n
             /\ \A i \in 1..(j - 1) : a[i].n < a[j].n
  <2>1. CASE j = Len(q) + 1
    <3>1. a[j] = x /\ \A i \in 1..(j - 1) : i \in 1..Len(q) /\ a[i] = q[i]
      BY <1>1, <1>2, <2>1
    <3> QED BY <1>1, <3>1
  <2>2. CASE j # Len(q) + 1
    <3>1. j \in 1..Len(q)
      BY <1>1, <1>2, <2>2
    <3>2. a[j] = q[j] /\ \A i \in 1..(j - 1) : a[i] = q[i]
      BY <1>1, <1>2, <3>1
    <3>3. q[j].n < x.n /\ \A i \in 1..(j - 1) : q[i].n < q[j].n
      BY <3>1
    <3>4. q[j].n <= x.n
      BY <1>1, <1>3, <3>1, <3>3
    <3> QED BY <3>1, <3>2, <3>3, <3>4
  <2> QED BY <2>1, <2>2
<1> QED BY <1>2, <1>4 DEF a

\* What is written of frames in order is in order.
LEMMA WrittenOrder ==
  ASSUME NEW frames \in Seq(Frames), NEW e, NEW fresh,
         \A j \in 1..Len(frames) : \A i \in 1..(j - 1) : frames[i].n < frames[j].n
  PROVE  LET w == Written(e, frames, fresh)
         IN /\ w \in Seq(Frames)
            /\ \A j \in 1..Len(w) : /\ \E i \in 1..Len(frames) : w[j] = frames[i]
                                    /\ \A i \in 1..(j - 1) : w[i].n < w[j].n
<1> DEFINE w == Written(e, frames, fresh)
<1>1. w \in Seq(Frames)
  BY WrittenSuffix
<1>2. PICK k \in 1..(Len(frames) + 1) :
        /\ Len(w) = Len(frames) - k + 1
        /\ \A j \in 1..(Len(frames) - k + 1) : w[j] = frames[k + j - 1]
  BY WrittenSuffix
<1> HIDE DEF w
<1>3. Len(frames) \in Nat
  BY LenProperties
<1>4. ASSUME NEW j \in 1..Len(w)
      PROVE  /\ \E i \in 1..Len(frames) : w[j] = frames[i]
             /\ \A i \in 1..(j - 1) : w[i].n < w[j].n
  <2>1. k + j - 1 \in 1..Len(frames) /\ w[j] = frames[k + j - 1]
    BY <1>2, <1>3
  <2>2. ASSUME NEW i \in 1..(j - 1) PROVE w[i].n < w[j].n
    <3>1. w[i] = frames[k + i - 1] /\ k + i - 1 \in 1..((k + j - 1) - 1)
      BY <1>2, <1>3
    <3> QED BY <2>1, <3>1
  <2> QED BY <2>1, <2>2
<1> QED BY <1>1, <1>4 DEF w

-----------------------------------------------------------------------------
\* The beginning, and encoders a step leaves alone

LEMMA RecInvInit == RecInit => RecInv
<1> SUFFICES ASSUME RecInit PROVE RecInv
  OBVIOUS
<1>1. RecTypeOK
  BY DEF RecInit, RecTypeOK
<1>2. Counted = {} /\ Known = {}
  BY DEF RecInit, Counted, Known
<1>3. CountInv
  BY <1>2, FS_EmptySet DEF RecInit, CountInv
<1>4. MaxLost \in Nat /\ Skew \in Nat /\ Start(0) = 0 /\ Start(0 + 1) \in Nat
  BY Starts, RecordingAssumption
<1>5. ClockInv
  BY <1>4 DEF RecInit, ClockInv
<1>6. ASSUME NEW e \in Encoders PROVE EncoderInv(e)
  <2>1. KnownInv(e)
    BY DEF RecInit, KnownInv
  <2>2. Rotations = 0 /\ Rotations + 1 = 0 + 1
    BY DEF RecInit, Rotations
  <2>3. PlaceInv(e)
    BY <1>2, <1>4, <2>2 DEF RecInit, PlaceInv
  <2>4. QueueInv(e) /\ FiledInv(e)
    BY EmptySeq DEF RecInit, QueueInv, FiledInv
  <2> QED BY <2>1, <2>3, <2>4 DEF EncoderInv
<1> QED BY <1>1, <1>3, <1>5, <1>6 DEF RecInv

\* The variables of an encoder.
Same(e) ==
  /\ next'[e] = next[e] /\ seenFirst'[e] = seenFirst[e] /\ offset'[e] = offset[e]
  /\ current'[e] = current[e] /\ queue'[e] = queue[e] /\ marked'[e] = marked[e]
  /\ filed'[e] = filed[e]

LEMMA OthersRest ==
  ASSUME RecTypeOK, NEW e \in Encoders, EncoderInv(e), Same(e),
         segment' = segment, idle' = idle, lost' = lost
  PROVE  EncoderInv(e)'
<1>1. KnownInv(e)'
  BY DEF EncoderInv, KnownInv, Same, Rotations, Start
<1>2. (e \in Counted)' <=> e \in Counted
  BY DEF Same, Counted
<1>3. PlaceInv(e)'
  BY <1>2 DEF EncoderInv, PlaceInv, Same, Rotations, Start
<1>4. QueueInv(e)' /\ FiledInv(e)'
  BY DEF EncoderInv, QueueInv, FiledInv, Right, Same, TimeOf
<1> QED BY <1>1, <1>3, <1>4 DEF EncoderInv

-----------------------------------------------------------------------------
\* A frame lost, silence, and the microphone

\* What sending the next frame does to the distances.
LEMMA Sent ==
  ASSUME RecTypeOK, ClockInv, NEW e \in Encoders, Sends(e)
  PROVE  /\ Skew \in Nat /\ Skew >= 1
         /\ next'[e] = next[e] + 1 /\ \A o \in Encoders \ {e} : next'[o] = next[o]
         /\ \A o \in Encoders : next[e] < next[o] + Skew
         /\ \A o, p \in Encoders : next'[o] <= next'[p] + Skew
<1>1. next \in [Encoders -> Nat] /\ Skew \in Nat
  BY RecordingAssumption DEF RecTypeOK
<1>2. next'[e] = next[e] + 1 /\ \A o \in Encoders \ {e} : next'[o] = next[o]
  BY <1>1 DEF Sends
<1>3. \A o \in Encoders : next[e] < next[o] + Skew
  BY <1>1 DEF Sends
<1>4. Skew >= 1
  BY <1>1, <1>3
<1>5. \A o, p \in Encoders : next'[o] <= next'[p] + Skew
  <2>1. SUFFICES ASSUME NEW o \in Encoders, NEW p \in Encoders
                 PROVE  next'[o] <= next'[p] + Skew
    OBVIOUS
  <2>2. next[o] <= next[p] + Skew /\ next[e] < next[p] + Skew /\ {next[o], next[p], next[e]} \subseteq Nat
    BY <1>1, <1>3 DEF ClockInv
  <2> QED BY <1>1, <1>2, <2>2
<1> QED BY <1>1, <1>2, <1>3, <1>4, <1>5

LEMMA LoseKeeps ==
  ASSUME RecInv, NEW e \in Encoders, Lose(e)
  PROVE  RecInv'
<1>1. RecTypeOK /\ CountInv /\ ClockInv /\ \A o \in Encoders : EncoderInv(o)
  BY DEF RecInv
<1>2. /\ next \in [Encoders -> Nat] /\ lost \in Nat /\ lost' = lost + 1 /\ lost' <= MaxLost
      /\ MaxLost \in Nat /\ segment \in Nat /\ idle \in Nat
  <2>1. MaxLost \in Nat /\ lost \in Nat /\ segment \in Nat /\ idle \in Nat
    BY <1>1, RecordingAssumption DEF RecTypeOK
  <2> QED BY <1>1, <2>1 DEF RecTypeOK, Lose
<1>3. /\ next'[e] = next[e] + 1 /\ \A o \in Encoders \ {e} : next'[o] = next[o]
      /\ \A o, p \in Encoders : next'[o] <= next'[p] + Skew /\ Skew \in Nat
  BY <1>1, Sent DEF Lose
<1>4. RecTypeOK'
  BY <1>1, <1>2 DEF RecTypeOK, Lose, Sends, remoteVars
<1>5. (Counted = Counted') /\ (Known = Known')
  BY DEF Lose, remoteVars, Counted, Known
<1>6. CountInv'
  BY <1>1, <1>5 DEF CountInv, Lose
<1>7. ClockInv'
  BY <1>1, <1>2, <1>3 DEF ClockInv, Lose
<1>8. ASSUME NEW o \in Encoders PROVE EncoderInv(o)'
  <2>1. EncoderInv(o) /\ next[o] \in Nat /\ next'[o] \in Nat /\ next'[o] >= next[o] /\ next'[o] <= next[o] + 1
    BY <1>1, <1>2, <1>3
  <2>2. /\ seenFirst' = seenFirst /\ offset' = offset /\ current' = current /\ queue' = queue
        /\ marked' = marked /\ filed' = filed /\ segment' = segment /\ idle' = idle
    BY DEF Lose, remoteVars
  <2>3. Rotations \in Nat /\ Rotations' = Rotations
    BY <1>1, <1>2, <2>2 DEF Rotations, ClockInv
  <2>4. {Start(Rotations), Start(Rotations + 1)} \subseteq Nat
    BY <2>3, Starts
  <2>5. KnownInv(o)'
    BY <1>2, <2>1, <2>2, <2>3, <2>4 DEF EncoderInv, KnownInv, Start
  <2>6. PlaceInv(o)'
    BY <1>2, <1>3, <1>5, <2>1, <2>2, <2>3, <2>4 DEF EncoderInv, PlaceInv, Start
  <2>7. QueueInv(o)'
    <3>1. \A j \in 1..Len(queue[o]) : queue[o][j].n \in Nat
      BY <1>1, QueuedFrames
    <3> QED BY <2>1, <2>2, <3>1 DEF EncoderInv, QueueInv, TimeOf
  <2>8. FiledInv(o)'
    <3>1. \A j \in 1..Len(filed[o]) : filed[o][j][1] \in Nat
      BY <1>1, QueuedFrames
    <3>2. \A j \in 1..Len(filed[o]) : filed[o][j][1] < next'[o]
      BY <2>1, <3>1 DEF EncoderInv, FiledInv
    <3> QED BY <2>1, <2>2, <3>2 DEF EncoderInv, FiledInv, Right, TimeOf
  <2> QED BY <2>5, <2>6, <2>7, <2>8 DEF EncoderInv
<1> QED BY <1>4, <1>6, <1>7, <1>8 DEF RecInv

LEMMA TimedOutKeeps ==
  ASSUME RecInv, TimedOut, ~Stalls
  PROVE  RecInv'
<1>1. RecTypeOK /\ CountInv /\ ClockInv /\ \A o \in Encoders : EncoderInv(o)
  BY DEF RecInv
<1>2. /\ idle' = idle + 1 /\ segment' = segment + 1 /\ ready' = 0 /\ lost' = lost
      /\ next' = next /\ maxWaiting' = maxWaiting /\ seenFirst' = seenFirst /\ offset' = offset
      /\ current' = current /\ queue' = queue /\ marked' = marked /\ filed' = filed
      /\ idle \in Nat /\ segment \in Nat /\ lost \in Nat /\ next \in [Encoders -> Nat] /\ idle <= segment
  BY <1>1 DEF TimedOut, Rotate, remoteVars, RecTypeOK, ClockInv
<1>3. \A o \in Encoders : next[o] = 0
  BY DEF TimedOut
<1>4. ASSUME NEW o \in Encoders
      PROVE  /\ ~seenFirst[o] /\ segment = idle /\ current[o] = -1 /\ ~marked[o]
             /\ queue[o] = <<>> /\ filed[o] = <<>>
  BY <1>1, <1>3 DEF EncoderInv, KnownInv
<1>5. RecTypeOK'
  BY <1>1 DEF RecTypeOK, TimedOut, Rotate, remoteVars
<1>6. Counted' = {} /\ Known' = {} /\ Known = {}
  BY <1>2, <1>4 DEF Counted, Known
<1>7. CountInv'
  BY <1>1, <1>2, <1>6, FS_EmptySet DEF CountInv
<1>8. ClockInv'
  BY <1>1, <1>2 DEF ClockInv
<1>9. Rotations' = 0
  BY <1>2, <1>4, RecordingAssumption DEF Rotations
<1>10. ASSUME NEW o \in Encoders PROVE EncoderInv(o)'
  <2>1. KnownInv(o)'
    BY <1>2, <1>3, <1>4 DEF KnownInv
  <2>2. PlaceInv(o)'
    <3>1. Start(0) \in Nat /\ Start(0 + 1) \in Nat /\ Skew \in Nat
      BY Starts, RecordingAssumption
    <3>2. Start(Rotations') = Start(0) /\ Start(Rotations' + 1) = Start(0 + 1)
      BY <1>9
    <3> QED BY <1>2, <1>3, <1>4, <1>6, <3>1, <3>2 DEF PlaceInv, Start
  <2>3. QueueInv(o)' /\ FiledInv(o)'
    BY <1>2, <1>4, EmptySeq DEF QueueInv, FiledInv
  <2> QED BY <2>1, <2>2, <2>3 DEF EncoderInv
<1> QED BY <1>5, <1>7, <1>8, <1>10 DEF RecInv

LEMMA AudioKeeps ==
  ASSUME RecInv, NEW e \in Encoders, Audio(e)
  PROVE  RecInv'
<1>1. RecTypeOK'
  BY DEF RecInv, RecTypeOK, Audio
<1>2. Counted' = Counted /\ Known' = Known
  BY DEF Audio, Counted, Known
<1>3. CountInv' /\ ClockInv'
  BY <1>2 DEF RecInv, CountInv, ClockInv, Audio
<1>4. ASSUME NEW o \in Encoders PROVE EncoderInv(o)'
  <2>1. Same(o) /\ segment' = segment /\ idle' = idle /\ lost' = lost
    BY DEF Audio, Same
  <2> QED BY <2>1, OthersRest DEF RecInv
<1> QED BY <1>1, <1>3, <1>4 DEF RecInv

-----------------------------------------------------------------------------
\* A frame comes

\* Fewer frames are lost, and encoders are less apart, than a segment is long.
Room == MaxLost + Skew < PerSegment

\* The segment an encoder's next frame claims to be of.
From(e) == IF seenFirst[e] THEN offset[e] ELSE SegmentNum(next[e])
Number(e) == SegmentNum(next[e]) - From(e)

\* The first frame claims segment 0, every other one its time; no frame is two segments ahead,
\* for one of the encoders that are not ready is close.
LEMMA FrameFacts ==
  ASSUME RecInv, Room, NEW e \in Encoders, Sends(e)
  PROVE  /\ Rotations \in Nat /\ SegmentNum(next[e]) \in Nat
         /\ {Start(Rotations), Start(Rotations + 1), Start(Rotations + 2)} \subseteq Nat
         /\ Start(Rotations + 1) = Start(Rotations) + PerSegment
         /\ Start(Rotations + 2) = Start(Rotations + 1) + PerSegment
         /\ ~seenFirst[e] => /\ Number(e) = 0 /\ From(e) = 0 /\ SegmentNum(next[e]) = 0
                             /\ segment = idle /\ next[e] < Start(Rotations + 1)
         /\ seenFirst[e] => /\ From(e) = -idle /\ Number(e) = TimeOf(next[e])
                            /\ Number(e) \in {segment, segment + 1}
                            /\ Number(e) = segment => next[e] < Start(Rotations + 1)
                            /\ Number(e) = segment + 1 =>
                                 current[e] = segment /\ next[e] >= Start(Rotations + 1)
<1>1. RecTypeOK /\ CountInv /\ ClockInv /\ \A o \in Encoders : EncoderInv(o)
  BY DEF RecInv
<1>2. next \in [Encoders -> Nat] /\ segment \in Nat /\ idle \in Nat /\ lost \in Nat /\ offset[e] \in Int
  BY <1>1 DEF RecTypeOK
<1>3. PerSegment \in Nat /\ MaxLost \in Nat /\ Skew \in Nat
  BY RecordingAssumption
<1>4. lost <= MaxLost /\ idle <= segment /\ next[e] \in Nat /\ lost + Skew < PerSegment
  BY <1>1, <1>2, <1>3 DEF ClockInv, Room
<1>5. Rotations \in Nat /\ segment = idle + Rotations
  BY <1>2, <1>4 DEF Rotations
<1>6. SegmentNum(next[e]) \in Nat
  BY <1>4, Numbers
<1>7. /\ {Start(Rotations), Start(Rotations + 1), Start(Rotations + 2)} \subseteq Nat
      /\ Start(Rotations + 1) = Start(Rotations) + PerSegment
      /\ Start(Rotations + 2) = Start(Rotations + 1) + PerSegment
  <2>1. Rotations + 1 \in Nat /\ Rotations + 2 \in Nat /\ (Rotations + 1) + 1 = Rotations + 2
    BY <1>5
  <2>2. Start(Rotations + 1) = Start(Rotations) + PerSegment
    BY <1>5, Starts
  <2>3. Start((Rotations + 1) + 1) = Start(Rotations + 1) + PerSegment
    BY <2>1, Starts
  <2>4. Start(Rotations) \in Nat /\ Start(Rotations + 1) \in Nat /\ Start(Rotations + 2) \in Nat
    BY <1>5, <2>1, Starts
  <2>5. Start(Rotations + 2) = Start(Rotations + 1) + PerSegment
    BY <2>1, <2>3
  <2> QED BY <2>2, <2>4, <2>5
<1>8. ASSUME ~seenFirst[e]
      PROVE  /\ Number(e) = 0 /\ From(e) = 0 /\ SegmentNum(next[e]) = 0
             /\ segment = idle /\ next[e] < Start(Rotations + 1)
  <2>1. next[e] <= lost /\ segment = idle
    BY <1>1, <1>8 DEF EncoderInv, KnownInv
  <2>2. Start(1) = PerSegment /\ Start(Rotations) \in Nat
    BY <1>5, Starts
  <2>3. next[e] < Start(1) /\ next[e] < Start(Rotations + 1)
    BY <1>2, <1>3, <1>4, <1>7, <2>1, <2>2
  <2>4. SegmentNum(next[e]) < 1
    BY <1>4, <2>3, Numbers
  <2>5. SegmentNum(next[e]) = 0
    BY <1>6, <2>4
  <2> QED BY <1>8, <2>1, <2>3, <2>5 DEF Number, From
<1>9. ASSUME seenFirst[e]
      PROVE  /\ From(e) = -idle /\ Number(e) = TimeOf(next[e])
             /\ Number(e) \in {segment, segment + 1}
             /\ Number(e) = segment => next[e] < Start(Rotations + 1)
             /\ Number(e) = segment + 1 => current[e] = segment /\ next[e] >= Start(Rotations + 1)
  <2>1. offset[e] = -idle /\ next[e] >= Start(Rotations)
    BY <1>1, <1>9 DEF EncoderInv, KnownInv
  <2>2. From(e) = -idle /\ Number(e) = idle + SegmentNum(next[e])
    BY <1>2, <1>6, <1>9, <2>1 DEF From, Number
  <2>3. SegmentNum(next[e]) >= Rotations
    BY <1>4, <1>5, <2>1, Numbers
  <2>4. next[e] < Start(Rotations + 2)
    <3>1. PICK r \in Encoders : seenFirst[r] /\ r \notin Counted
      <4>1. IsFiniteSet(Known) /\ e \in Known
        BY <1>9, FS_Subset, RecordingAssumption DEF Known
      <4>2. Cardinality(Known) # 0
        BY <4>1, FS_EmptySet
      <4>3. Counted # Known
        BY <1>1, <4>2, <4>1, FS_CardinalityType DEF CountInv
      <4>4. Counted \subseteq Known
        BY <1>1 DEF Counted, Known, EncoderInv, KnownInv
      <4> QED BY <4>3, <4>4 DEF Known
    <3>2. next[r] <= Start(Rotations + 1) + lost
      BY <1>1, <3>1 DEF EncoderInv, PlaceInv
    <3>3. next[e] < next[r] + Skew /\ next[r] \in Nat
      BY <1>1, <1>2, Sent
    <3> QED BY <1>2, <1>3, <1>4, <1>7, <3>2, <3>3
  <2>5. SegmentNum(next[e]) < Rotations + 2
    BY <1>4, <1>5, <2>4, Numbers
  <2>6. Number(e) \in {segment, segment + 1}
    BY <1>2, <1>5, <1>6, <2>2, <2>3, <2>5
  <2>7. ASSUME Number(e) = segment PROVE next[e] < Start(Rotations + 1)
    <3>1. ~(SegmentNum(next[e]) >= Rotations + 1) /\ Rotations + 1 \in Nat
      BY <1>2, <1>5, <1>6, <2>2, <2>7
    <3>2. ~(next[e] >= Start(Rotations + 1))
      BY <1>4, <3>1, Numbers
    <3> QED BY <1>4, <1>7, <3>2
  <2>8. ASSUME Number(e) = segment + 1
        PROVE  current[e] = segment /\ next[e] >= Start(Rotations + 1)
    <3>1. ~(SegmentNum(next[e]) < Rotations + 1) /\ Rotations + 1 \in Nat
      BY <1>2, <1>5, <1>6, <2>2, <2>8
    <3>2. ~(next[e] < Start(Rotations + 1))
      BY <1>4, <3>1, Numbers
    <3>3. next[e] >= Start(Rotations + 1)
      BY <1>4, <1>7, <3>2
    <3>4. current[e] # segment => next[e] <= Start(Rotations) + lost + Skew
      BY <1>1 DEF EncoderInv, PlaceInv
    <3>5. current[e] = segment
      BY <1>2, <1>3, <1>4, <1>7, <3>3, <3>4
    <3> QED BY <3>3, <3>5
  <2> QED BY <2>2, <2>6, <2>7, <2>8 DEF TimeOf
<1> QED BY <1>5, <1>6, <1>7, <1>8, <1>9

\* With its first frame an encoder is known; Counted is part of Known.
LEMMA Heard ==
  ASSUME RecInv, NEW e \in Encoders,
         seenFirst' = [seenFirst EXCEPT ![e] = TRUE],
         maxWaiting' = IF seenFirst[e] THEN maxWaiting ELSE maxWaiting + 1
  PROVE  /\ Known' = Known \cup {e} /\ maxWaiting' = Cardinality(Known') /\ maxWaiting' \in Nat \ {0}
         /\ IsFiniteSet(Known') /\ Known \subseteq Known' /\ Counted \subseteq Known
         /\ IsFiniteSet(Counted) /\ ready < maxWaiting'
         /\ seenFirst[e] => Known' = Known /\ maxWaiting' = maxWaiting
<1>1. RecTypeOK /\ CountInv /\ \A o \in Encoders : EncoderInv(o)
  BY DEF RecInv
<1>2. Known' = Known \cup {e}
  BY <1>1 DEF Known, RecTypeOK
<1>3. IsFiniteSet(Known) /\ IsFiniteSet(Known')
  BY FS_Subset, RecordingAssumption DEF Known
<1>4. maxWaiting' = Cardinality(Known')
  <2>1. e \in Known <=> seenFirst[e]
    BY DEF Known
  <2> QED BY <1>1, <1>2, <1>3, <2>1, FS_AddElement DEF CountInv
<1>5. Cardinality(Known') \in Nat /\ Cardinality(Known') # 0
  BY <1>2, <1>3, FS_EmptySet, FS_CardinalityType
<1>6. Counted \subseteq Known
  BY <1>1 DEF Counted, Known, EncoderInv, KnownInv
<1>7. IsFiniteSet(Counted) /\ ready <= maxWaiting
  BY <1>1, <1>3, <1>6, FS_Subset DEF CountInv
<1>8. ready < maxWaiting'
  <2>1. ready \in Nat /\ maxWaiting \in Nat
    BY <1>1 DEF RecTypeOK
  <2>2. CASE ~seenFirst[e]
    BY <1>7, <2>1, <2>2
  <2>3. CASE seenFirst[e]
    BY <1>1, <1>4, <1>5, <2>1, <2>3 DEF CountInv
  <2> QED BY <2>2, <2>3
<1>9. seenFirst[e] => Known' = Known
  BY <1>2 DEF Known
<1> QED BY <1>2, <1>3, <1>4, <1>5, <1>6, <1>7, <1>8, <1>9

\* What every frame that comes changes.
Heeds(e) ==
  /\ Sends(e)
  /\ seenFirst' = [seenFirst EXCEPT ![e] = TRUE]
  /\ maxWaiting' = (IF seenFirst[e] THEN maxWaiting ELSE maxWaiting + 1)
  /\ UNCHANGED <<lost, idle>>

LEMMA EnqueueFacts ==
  ASSUME RecInv, NEW e \in Encoders, NEW frame \in Frames, frame.n = next[e], Enqueue(e, frame)
  PROVE  /\ queue' \in [Encoders -> Seq(Frames)]
         /\ \A o \in Encoders \ {e} : queue'[o] = queue[o]
         /\ \A j \in 1..Len(queue'[e]) :
              /\ queue'[e][j].n <= next[e]
              /\ queue'[e][j] = frame \/ \E i \in 1..Len(queue[e]) : queue'[e][j] = queue[e][i]
              /\ \A i \in 1..(j - 1) : queue'[e][i].n < queue'[e][j].n
<1>1. /\ queue \in [Encoders -> Seq(Frames)] /\ queue[e] \in Seq(Frames) /\ QueueInv(e)
      /\ \A j \in 1..Len(queue[e]) : queue[e][j].n \in Nat
      /\ next[e] \in Nat
  BY QueuedFrames DEF RecInv, RecTypeOK, EncoderInv, Frames
<1>2. \A j \in 1..Len(queue[e]) :
        queue[e][j].n < frame.n /\ \A i \in 1..(j - 1) : queue[e][i].n < queue[e][j].n
  BY <1>1 DEF QueueInv
<1>3. \A o \in Encoders \ {e} : queue'[o] = queue[o]
  BY <1>1 DEF Enqueue
<1>4. CASE Len(queue[e]) > QueueLimit
  <2>1. queue'[e] = queue[e] /\ queue' = queue
    BY <1>1, <1>4 DEF Enqueue
  <2>2. \A j \in 1..Len(queue[e]) : queue[e][j].n <= next[e]
    BY <1>1, <1>2
  <2> QED BY <1>1, <1>2, <1>3, <2>1, <2>2
<1>5. CASE ~(Len(queue[e]) > QueueLimit)
  <2>1. queue'[e] = Append(queue[e], frame)
    BY <1>1, <1>5 DEF Enqueue
  <2>2. /\ Append(queue[e], frame) \in Seq(Frames)
        /\ \A j \in 1..Len(Append(queue[e], frame)) :
             /\ Append(queue[e], frame)[j] = frame
                \/ \E i \in 1..Len(queue[e]) : Append(queue[e], frame)[j] = queue[e][i]
             /\ Append(queue[e], frame)[j].n <= frame.n
             /\ \A i \in 1..(j - 1) : Append(queue[e], frame)[i].n < Append(queue[e], frame)[j].n
    BY <1>1, <1>2, Queued
  <2>3. queue' \in [Encoders -> Seq(Frames)]
    BY <1>1, <1>5, <2>2 DEF Enqueue
  <2> QED BY <1>3, <2>1, <2>2, <2>3
<1> QED BY <1>4, <1>5

\* The first frame after a time of silence: its encoder is known from now on.
LEMMA BehindKeeps ==
  ASSUME RecInv, Room, NEW e \in Encoders, Heeds(e), Number(e) < segment, Behind(e),
         offset' = [offset EXCEPT ![e] = -segment]
  PROVE  RecInv'
<1>1. RecTypeOK /\ CountInv /\ ClockInv /\ \A o \in Encoders : EncoderInv(o)
  BY DEF RecInv
<1>2. /\ next \in [Encoders -> Nat] /\ segment \in Nat /\ idle \in Nat /\ lost \in Nat
      /\ seenFirst \in [Encoders -> BOOLEAN] /\ offset \in [Encoders -> Int]
  BY <1>1 DEF RecTypeOK
<1>3. ~seenFirst[e] /\ segment = idle /\ next[e] < Start(Rotations + 1)
  BY <1>2, FrameFacts DEF Heeds
<1>4. next[e] <= lost /\ current[e] = -1 /\ ~marked[e] /\ queue[e] = <<>> /\ filed[e] = <<>>
  BY <1>1, <1>3 DEF EncoderInv, KnownInv
<1>5. /\ segment' = segment /\ idle' = idle /\ lost' = lost /\ ready' = ready
      /\ current' = current /\ marked' = marked /\ queue' = queue /\ filed' = filed
      /\ seenFirst'[e] /\ offset'[e] = -segment
      /\ \A o \in Encoders \ {e} : seenFirst'[o] = seenFirst[o] /\ offset'[o] = offset[o]
  BY <1>2 DEF Heeds, Behind
<1>6. /\ Skew \in Nat /\ Skew >= 1
      /\ next'[e] = next[e] + 1 /\ \A o \in Encoders \ {e} : next'[o] = next[o]
      /\ \A o, p \in Encoders : next'[o] <= next'[p] + Skew
  BY <1>1, Sent DEF Heeds
<1>7. Counted' = Counted
  BY <1>5 DEF Counted
<1>8. maxWaiting' = Cardinality(Known') /\ maxWaiting' \in Nat /\ ready < maxWaiting'
  BY Heard DEF Heeds
<1>9. RecTypeOK'
  BY <1>1, <1>2, <1>5, <1>8 DEF RecTypeOK, Heeds, Sends, Behind
<1>10. CountInv'
  BY <1>1, <1>5, <1>7, <1>8 DEF CountInv
<1>11. ClockInv'
  BY <1>1, <1>5, <1>6 DEF ClockInv
<1>12. EncoderInv(e)'
  <2>1. Rotations = 0 /\ Rotations' = 0
    BY <1>2, <1>3, <1>5 DEF Rotations
  <2>2. Start(0) = 0 /\ Start(0 + 1) \in Nat /\ Start(1) \in Nat
    BY Starts
  <2>3. KnownInv(e)'
    BY <1>2, <1>3, <1>5, <1>6, <2>1, <2>2 DEF KnownInv, Start
  <2>4. e \notin Counted /\ next'[e] <= Start(0 + 1) + lost
    <3>1. Start(Rotations + 1) = Start(0 + 1)
      BY <2>1
    <3> QED BY <1>2, <1>3, <1>4, <1>6, <2>2, <3>1 DEF Counted
  <2>5. PlaceInv(e)'
    BY <1>2, <1>4, <1>5, <1>6, <1>7, <2>1, <2>2, <2>4 DEF PlaceInv, Start
  <2>6. QueueInv(e)' /\ FiledInv(e)'
    BY <1>4, <1>5, EmptySeq DEF QueueInv, FiledInv
  <2> QED BY <2>3, <2>5, <2>6 DEF EncoderInv
<1>13. ASSUME NEW o \in Encoders \ {e} PROVE EncoderInv(o)'
  <2>1. Same(o)
    BY <1>5, <1>6 DEF Same
  <2> QED BY <1>1, <1>5, <2>1, OthersRest
<1> QED BY <1>9, <1>10, <1>11, <1>12, <1>13 DEF RecInv

\* A frame of the segment: it is filed, or waits for audio, and what waited is filed with it.
LEMMA InSegmentKeeps ==
  ASSUME RecInv, Room, NEW e \in Encoders, NEW frame \in Frames, frame.n = next[e],
         Heeds(e), Number(e) = segment, InSegment(e, frame),
         offset' = [offset EXCEPT ![e] = From(e)]
  PROVE  RecInv'
<1> DEFINE fresh == current[e] # segment
           writes == e \notin WithAudio \/ (audioInitialized[e] /\ ~fresh)
           a == Append(queue[e], frame)
           w == IF writes THEN Written(e, a, fresh) ELSE <<>>
<1>1. RecTypeOK /\ CountInv /\ ClockInv /\ (\A o \in Encoders : EncoderInv(o)) /\ EncoderInv(e)
  BY DEF RecInv
<1>2. /\ next \in [Encoders -> Nat] /\ segment \in Nat /\ idle \in Nat /\ lost \in Nat
      /\ seenFirst \in [Encoders -> BOOLEAN] /\ offset \in [Encoders -> Int]
      /\ current \in [Encoders -> Int] /\ marked \in [Encoders -> BOOLEAN]
      /\ filed \in [Encoders -> Seq(Nat \X Nat)] /\ queue \in [Encoders -> Seq(Frames)]
  BY <1>1 DEF RecTypeOK, Frames
<1>3. /\ Rotations \in Nat /\ Start(Rotations) \in Nat /\ Start(Rotations + 1) \in Nat
      /\ next[e] < Start(Rotations + 1) /\ TimeOf(next[e]) = segment /\ From(e) = -idle
      /\ idle <= segment /\ segment = idle + Rotations
  <2>1. idle <= segment /\ segment = idle + Rotations /\ Rotations \in Nat
    BY <1>1, <1>2 DEF ClockInv, Rotations
  <2>2. Start(Rotations) \in Nat /\ Start(Rotations + 1) \in Nat /\ next[e] < Start(Rotations + 1)
    BY <1>2, FrameFacts DEF Heeds
  <2>3. CASE seenFirst[e]
    BY <2>1, <2>2, <2>3, FrameFacts DEF Heeds
  <2>4. CASE ~seenFirst[e]
    BY <1>2, <2>1, <2>2, <2>4, FrameFacts DEF Heeds, TimeOf
  <2> QED BY <2>3, <2>4
<1>4. /\ Skew \in Nat /\ Skew >= 1
      /\ next'[e] = next[e] + 1 /\ \A o \in Encoders \ {e} : next'[o] = next[o]
      /\ \A o, p \in Encoders : next'[o] <= next'[p] + Skew
  BY <1>1, Sent DEF Heeds
<1>5. e \notin Counted
  <2>1. next[e] \in Nat /\ Start(Rotations + 1) \in Nat
    BY <1>2, <1>3
  <2> QED BY <1>1, <1>3, <2>1 DEF EncoderInv, PlaceInv
<1>6. /\ segment' = segment /\ idle' = idle /\ lost' = lost /\ ready' = ready
      /\ seenFirst'[e] /\ offset'[e] = -idle /\ current'[e] = segment
      /\ marked'[e] = (marked[e] /\ ~fresh)
  BY <1>2, <1>3 DEF Heeds, InSegment
<1>7. ASSUME NEW o \in Encoders \ {e}
      PROVE  /\ seenFirst'[o] = seenFirst[o] /\ offset'[o] = offset[o] /\ current'[o] = current[o]
             /\ marked'[o] = marked[o] /\ queue'[o] = queue[o] /\ filed'[o] = filed[o]
  BY <1>2, <1>7 DEF Heeds, InSegment, Enqueue
<1>8. filed'[e] = filed[e] \o [i \in DOMAIN w |-> <<w[i].n, segment>>]
  BY <1>2 DEF InSegment
<1>9. filed' = [filed EXCEPT ![e] = filed'[e]]
  BY <1>2, <1>8 DEF InSegment
<1>10. writes => queue' = [queue EXCEPT ![e] = <<>>]
  BY DEF InSegment
<1>11. ~writes => Enqueue(e, frame) /\ w = <<>> /\ e \in WithAudio
  BY DEF InSegment
<1>12. /\ current' = [current EXCEPT ![e] = segment]
       /\ marked' = [marked EXCEPT ![e] = @ /\ ~fresh]
       /\ \E b \in BOOLEAN : recording' = [recording EXCEPT ![e] = b]
       /\ audioInitialized' = [audioInitialized EXCEPT ![e] = @ /\ ~fresh]
  <2>1. \A b : recording' = [recording EXCEPT ![e] = b] /\ b \in BOOLEAN
          => \E c \in BOOLEAN : recording' = [recording EXCEPT ![e] = c]
    OBVIOUS
  <2>2. recording' = [recording EXCEPT ![e] = (recording[e] /\ ~fresh) \/ w # <<>>]
    BY DEF InSegment
  <2>3. ((recording[e] /\ ~fresh) \/ w # <<>>) \in BOOLEAN
    OBVIOUS
  <2>4. \E b \in BOOLEAN : recording' = [recording EXCEPT ![e] = b]
    BY <2>1, <2>2, <2>3
  <2> QED BY <2>4 DEF InSegment
<1>13. /\ queue[e] \in Seq(Frames) /\ QueueInv(e) /\ FiledInv(e) /\ filed[e] \in Seq(Nat \X Nat)
       /\ \A j \in 1..Len(queue[e]) : queue[e][j].n \in Nat
       /\ \A j \in 1..Len(filed[e]) : filed[e][j][1] \in Nat
       /\ next[e] \in Nat
  BY <1>1, <1>2, QueuedFrames DEF EncoderInv
\* what waits is of this segment
<1>14. ASSUME NEW i \in 1..Len(queue[e])
       PROVE  /\ TimeOf(queue[e][i].n) <= segment
              /\ e \notin WithAudio => TimeOf(queue[e][i].n) = segment
  <2> DEFINE n == queue[e][i].n
  <2>0. n \in Nat /\ n < next[e] /\ next[e] \in Nat /\ next[e] < Start(Rotations + 1)
        /\ Start(Rotations + 1) \in Nat /\ Rotations + 1 \in Nat
    BY <1>3, <1>13 DEF QueueInv
  <2>1. (e \notin WithAudio) =>
          n \in Nat /\ TimeOf(n) = IF current[e] = segment THEN segment + 1 ELSE segment
    BY <1>13, <2>0 DEF QueueInv
  <2> HIDE DEF n
  <2>2. SegmentNum(n) \in Nat /\ SegmentNum(n) < Rotations + 1
    <3>1. n < Start(Rotations + 1)
      BY <2>0
    <3> QED BY <2>0, <3>1, Numbers
  <2>3. TimeOf(n) <= segment /\ TimeOf(n) \in Nat
    BY <1>2, <1>3, <2>2 DEF TimeOf
  <2>4. ASSUME e \notin WithAudio PROVE TimeOf(n) = segment
    <3>1. TimeOf(n) = IF current[e] = segment THEN segment + 1 ELSE segment
      BY <2>1, <2>4
    <3> QED BY <1>2, <2>3, <3>1
  <2> QED BY <2>3, <2>4 DEF n
<1>15. /\ a \in Seq(Frames)
       /\ \A j \in 1..Len(a) :
            /\ a[j].n <= next[e] /\ TimeOf(a[j].n) <= segment
            /\ e \notin WithAudio => TimeOf(a[j].n) = segment
            /\ a[j] = frame \/ \E i \in 1..Len(queue[e]) : a[j] = queue[e][i]
            /\ \A i \in 1..(j - 1) : a[i].n < a[j].n
  <2>1. \A j \in 1..Len(queue[e]) :
          queue[e][j].n < frame.n /\ \A i \in 1..(j - 1) : queue[e][i].n < queue[e][j].n
    BY <1>13 DEF QueueInv
  <2>2. /\ a \in Seq(Frames)
        /\ \A j \in 1..Len(a) : /\ a[j] = frame \/ \E i \in 1..Len(queue[e]) : a[j] = queue[e][i]
                                /\ a[j].n <= frame.n
                                /\ \A i \in 1..(j - 1) : a[i].n < a[j].n
    BY <1>13, <2>1, Queued
  <2>3. TimeOf(frame.n) <= segment /\ TimeOf(frame.n) = segment
    BY <1>2, <1>3
  <2> HIDE DEF a
  <2> QED BY <1>14, <2>2, <2>3
<1> HIDE DEF a, fresh, writes
<1>16. /\ w \in Seq(Frames)
       /\ \A j \in 1..Len(w) : /\ \E i \in 1..Len(a) : w[j] = a[i]
                               /\ \A i \in 1..(j - 1) : w[i].n < w[j].n
  <2>1. CASE writes
    BY <1>15, <2>1, WrittenOrder
  <2>2. CASE ~writes
    BY <2>2, EmptySeq
  <2> QED BY <2>1, <2>2
<1> HIDE DEF w
<1>17. \A j \in 1..Len(w) : /\ w[j].n < next[e] + 1 /\ w[j].n \in Nat
                            /\ TimeOf(w[j].n) <= segment
                            /\ e \notin WithAudio => TimeOf(w[j].n) = segment
  <2>1. SUFFICES ASSUME NEW j \in 1..Len(w)
                 PROVE  /\ w[j].n < next[e] + 1 /\ w[j].n \in Nat
                        /\ TimeOf(w[j].n) <= segment
                        /\ e \notin WithAudio => TimeOf(w[j].n) = segment
    OBVIOUS
  <2>2. w[j].n \in Nat
    <3>1. w[j] \in Frames
      BY <1>16, <2>1, ElementOfSeq
    <3> QED BY <3>1 DEF Frames
  <2>3. PICK i \in 1..Len(a) : w[j] = a[i]
    BY <1>16, <2>1
  <2>4. w[j].n <= next[e]
    BY <1>15, <2>3
  <2> QED BY <1>13, <1>15, <2>2, <2>3, <2>4
<1>18. Precedes(filed[e], w)
  <2>1. SUFFICES ASSUME NEW j \in 1..Len(filed[e]), NEW i \in 1..Len(w)
                 PROVE  filed[e][j][1] < w[i].n
    BY DEF Precedes
  <2>2. PICK k \in 1..Len(a) : w[i] = a[k]
    BY <1>16, <2>1
  <2>3. a[k] = frame \/ \E m \in 1..Len(queue[e]) : a[k] = queue[e][m]
    BY <1>15
  <2> QED BY <1>13, <2>2, <2>3 DEF FiledInv
<1>19. filed'[e] \in Seq(Nat \X Nat) /\ FiledInv(e)'
  <2> DEFINE h == [i \in DOMAIN w |-> <<w[i].n, segment>>]
             g == filed[e] \o h
             b == next[e] + 1
  <2>1. FileOrder(filed[e], b)
    <3>1. \A j \in 1..Len(filed[e]) : filed[e][j][1] < next[e] + 1
      BY <1>13 DEF FiledInv
    <3> QED BY <1>13, <3>1 DEF FiledInv, FileOrder
  <2>2. FrameOrder(w, b)
    BY <1>16, <1>17 DEF FrameOrder
  <2>0. h = [i \in DOMAIN w |-> <<w[i].n, segment>>]
    OBVIOUS
  <2> HIDE DEF h
  <2>10. AreEntries(h, w, segment)
    BY <1>2, <1>16, <2>0, Entries
  <2>3. g \in Seq(Nat \X Nat) /\ FileOrder(g, b) /\ Extends(g, filed[e], w, segment)
    BY <1>2, <1>13, <1>16, <1>18, <2>1, <2>2, <2>10, Extended
  <2>4. filed'[e] = g
    BY <1>8, <2>0
  <2> HIDE DEF g
  <2>5. Len(filed[e]) \in Nat /\ Len(w) \in Nat
    BY <1>13, <1>16, LenProperties
  <2>6. ASSUME NEW j \in 1..Len(g)
        PROVE  /\ g[j][1] < next'[e] /\ Right(e, g[j])
               /\ \A i \in 1..Len(queue'[e]) : g[j][1] < queue'[e][i].n
    <3>1. g[j][1] < next'[e]
      BY <1>4, <2>3, <2>6 DEF FileOrder
    <3>2. CASE j <= Len(filed[e])
      <4>1. j \in 1..Len(filed[e])
        BY <2>5, <2>6, <3>2
      <4>0. g[j] = filed[e][j]
        BY <2>3, <3>2 DEF Extends
      <4>2. Right(e, g[j])
        BY <1>13, <4>0, <4>1 DEF FiledInv
      <4>3. CASE writes
        BY <1>2, <1>10, <3>1, <4>2, <4>3
      <4>4. CASE ~writes
        <5>1. ASSUME NEW i \in 1..Len(queue'[e]) PROVE filed[e][j][1] < queue'[e][i].n
          <6>1. queue'[e][i] = frame \/ \E m \in 1..Len(queue[e]) : queue'[e][i] = queue[e][m]
            BY <1>11, <4>4, EnqueueFacts
          <6> QED BY <1>13, <4>1, <6>1 DEF FiledInv
        <5> QED BY <3>1, <4>0, <4>2, <5>1
      <4> QED BY <4>3, <4>4
    <3>3. CASE j > Len(filed[e])
      <4>1. g[j] = <<w[j - Len(filed[e])].n, segment>> /\ j - Len(filed[e]) \in 1..Len(w)
        BY <2>3, <3>3 DEF Extends
      <4>2. TimeOf(w[j - Len(filed[e])].n) <= segment
            /\ (e \notin WithAudio => TimeOf(w[j - Len(filed[e])].n) = segment)
        BY <1>17, <4>1
      <4>3. w[j - Len(filed[e])].n \in Nat
        BY <1>17, <4>1
      <4>4. TimeOf(w[j - Len(filed[e])].n) \in Nat
        BY <1>1, <4>3, Times
      <4>5. Right(e, g[j])
        BY <1>2, <4>1, <4>2, <4>4 DEF Right
      <4>6. writes
        <5>1. ~writes => Len(w) = 0
          BY <1>11, EmptySeq
        <5> QED BY <4>1, <5>1
      <4> QED BY <1>2, <1>10, <3>1, <4>5, <4>6
    <3> QED BY <2>5, <2>6, <3>2, <3>3
  <2>7. \A x : Right(e, x)' <=> Right(e, x)
    BY <1>6 DEF Right, TimeOf
  <2> QED BY <2>3, <2>4, <2>6, <2>7 DEF FiledInv, FileOrder
<1>20. QueueInv(e)' /\ queue' \in [Encoders -> Seq(Frames)]
  <2>1. CASE writes
    <3>1. queue'[e] = <<>> /\ queue' \in [Encoders -> Seq(Frames)]
      BY <1>2, <1>10, <2>1, EmptySeq
    <3> QED BY <3>1, EmptySeq DEF QueueInv
  <2>2. CASE ~writes
    <3>1. /\ queue' \in [Encoders -> Seq(Frames)]
          /\ \A j \in 1..Len(queue'[e]) :
               /\ queue'[e][j].n <= next[e]
               /\ queue'[e][j] = frame \/ \E i \in 1..Len(queue[e]) : queue'[e][j] = queue[e][i]
               /\ \A i \in 1..(j - 1) : queue'[e][i].n < queue'[e][j].n
      BY <1>11, <2>2, EnqueueFacts
    <3>2. ASSUME NEW j \in 1..Len(queue'[e])
          PROVE  queue'[e][j].n < next'[e] /\ TimeOf(queue'[e][j].n) <= segment + 1
      <4>1. queue'[e][j] = frame \/ \E i \in 1..Len(queue[e]) : queue'[e][j] = queue[e][i]
        BY <3>1
      <4>2. queue'[e][j].n \in Nat /\ queue'[e][j].n <= next[e]
        BY <1>13, <3>1, <4>1
      <4>3. TimeOf(queue'[e][j].n) \in Nat
        BY <1>1, <4>2, Times
      <4>4. TimeOf(queue'[e][j].n) <= segment
        <5>1. CASE queue'[e][j] = frame
          BY <1>2, <1>3, <5>1
        <5>2. CASE queue'[e][j] # frame
          BY <1>14, <4>1, <5>2
        <5> QED BY <5>1, <5>2
      <4> QED BY <1>2, <1>4, <1>13, <4>2, <4>3, <4>4
    <3> QED BY <1>6, <1>11, <2>2, <3>1, <3>2 DEF QueueInv, TimeOf
  <2> QED BY <2>1, <2>2
<1>21. Counted' = Counted /\ e \notin Counted'
  <2>1. e \notin Counted'
    BY <1>2, <1>5, <1>6 DEF Counted, fresh
  <2>2. \A o \in Encoders \ {e} : o \in Counted' <=> o \in Counted
    BY <1>6, <1>7 DEF Counted
  <2> QED BY <1>5, <2>1, <2>2 DEF Counted
<1>22. KnownInv(e)'
  <2>1. Rotations' = Rotations
    BY <1>6 DEF Rotations
  <2>2. next[e] \in Nat /\ next'[e] > 0 /\ next'[e] >= next[e]
    BY <1>4, <1>13
  <2>3. next[e] >= Start(Rotations)
    <3>1. CASE seenFirst[e]
      BY <1>1, <3>1 DEF EncoderInv, KnownInv
    <3>2. CASE ~seenFirst[e]
      <4>1. segment = idle
        BY <1>1, <3>2 DEF EncoderInv, KnownInv
      <4>2. Rotations = 0
        BY <1>2, <4>1 DEF Rotations
      <4> QED BY <1>13, <4>2, Starts
    <3> QED BY <3>1, <3>2
  <2>4. next'[e] >= Start(Rotations) /\ Start(Rotations)' = Start(Rotations')
    <3>1. Start(Rotations) \in Nat
      BY <1>3
    <3> QED BY <1>4, <2>2, <2>3, <3>1 DEF Start
  <2> QED BY <1>6, <2>1, <2>2, <2>4 DEF KnownInv, Start
<1>23. PlaceInv(e)'
  <2>1. next'[e] <= Start(Rotations + 1) + lost /\ Rotations' = Rotations
    <3>1. Start(Rotations + 1) \in Nat /\ next[e] < Start(Rotations + 1) /\ lost \in Nat
      BY <1>2, <1>3
    <3> QED BY <1>4, <1>6, <1>13, <3>1 DEF Rotations
  <2> QED BY <1>2, <1>3, <1>6, <1>21, <2>1 DEF PlaceInv, Start
<1>24. ASSUME NEW o \in Encoders \ {e} PROVE EncoderInv(o)'
  <2>1. Same(o)
    BY <1>4, <1>7 DEF Same
  <2> QED BY <1>1, <1>6, <2>1, OthersRest
<1>25. maxWaiting' = Cardinality(Known') /\ maxWaiting' \in Nat /\ ready < maxWaiting'
  BY Heard DEF Heeds
<1>26. CountInv'
  BY <1>1, <1>6, <1>21, <1>25 DEF CountInv
<1>27. ClockInv'
  BY <1>1, <1>4, <1>6 DEF ClockInv
<1>28. RecTypeOK'
  <2>1. next' \in [Encoders -> Nat] /\ seenFirst' \in [Encoders -> BOOLEAN]
    BY <1>2 DEF Heeds, Sends
  <2>2. offset' \in [Encoders -> Int]
    BY <1>2, <1>3
  <2>3. current' \in [Encoders -> Int] /\ marked' \in [Encoders -> BOOLEAN]
        /\ recording' \in [Encoders -> BOOLEAN] /\ audioInitialized' \in [Encoders -> BOOLEAN]
    BY <1>1, <1>2, <1>12 DEF RecTypeOK, fresh
  <2>4. filed' \in [Encoders -> Seq(Nat \X Nat)]
    BY <1>2, <1>9, <1>19
  <2>5. {segment', ready', maxWaiting', lost', idle'} \subseteq Nat
    BY <1>1, <1>6, <1>25 DEF RecTypeOK
  <2> QED BY <1>20, <2>1, <2>2, <2>3, <2>4, <2>5 DEF RecTypeOK, Frames
<1> QED BY <1>19, <1>20, <1>22, <1>23, <1>24, <1>26, <1>27, <1>28 DEF RecInv, EncoderInv

\* What is known of an encoder whose frame is of the next segment, before a rotation.
LEMMA AheadFacts ==
  ASSUME RecInv, Room, NEW e \in Encoders, NEW frame \in Frames, frame.n = next[e],
         Heeds(e), Number(e) > segment, Ahead(e, frame),
         offset' = [offset EXCEPT ![e] = From(e)]
  PROVE  /\ seenFirst[e] /\ current[e] = segment /\ next[e] >= Start(Rotations + 1)
         /\ TimeOf(next[e]) = segment + 1
         /\ idle' = idle /\ lost' = lost /\ seenFirst' = seenFirst /\ offset' = offset
         /\ current' = current /\ filed' = filed /\ maxWaiting' = maxWaiting /\ Known' = Known
         /\ audioInitialized' = audioInitialized /\ recording' = recording
         /\ marked'[e] /\ \A o \in Encoders \ {e} : marked'[o] = marked[o] /\ queue'[o] = queue[o]
         /\ marked' \in [Encoders -> BOOLEAN] /\ queue' \in [Encoders -> Seq(Frames)]
         /\ next' \in [Encoders -> Nat]
<1>1. RecTypeOK /\ EncoderInv(e)
  BY DEF RecInv
<1>2. segment \in Nat /\ idle \in Nat
  BY <1>1 DEF RecTypeOK
<1>3. seenFirst[e]
  <2>1. ASSUME ~seenFirst[e] PROVE FALSE
    <3>1. Number(e) = 0
      BY <2>1, FrameFacts DEF Heeds
    <3> QED BY <1>2, <3>1
  <2> QED BY <2>1
<1>4. /\ Number(e) = TimeOf(next[e]) /\ From(e) = -idle /\ Number(e) \in {segment, segment + 1}
      /\ Number(e) = segment + 1 => current[e] = segment /\ next[e] >= Start(Rotations + 1)
  BY <1>3, FrameFacts DEF Heeds
<1>5. Number(e) = segment + 1
  BY <1>2, <1>4
<1>6. seenFirst' = seenFirst /\ maxWaiting' = maxWaiting
  BY <1>1, <1>3 DEF Heeds, RecTypeOK
<1>7. offset' = offset
  <2>1. offset[e] = From(e)
    BY <1>3 DEF From
  <2> QED BY <1>1, <2>1 DEF RecTypeOK
<1>8. Known' = Known
  BY <1>6 DEF Known
<1>9. marked'[e] /\ marked' \in [Encoders -> BOOLEAN] /\ \A o \in Encoders \ {e} : marked'[o] = marked[o]
  BY <1>1 DEF Ahead, RecTypeOK
<1>10. queue' \in [Encoders -> Seq(Frames)] /\ \A o \in Encoders \ {e} : queue'[o] = queue[o]
  BY EnqueueFacts DEF Ahead
<1>11. next' \in [Encoders -> Nat]
  BY <1>1 DEF Heeds, Sends, RecTypeOK
<1> QED BY <1>3, <1>4, <1>5, <1>6, <1>7, <1>8, <1>9, <1>10, <1>11 DEF Heeds, Ahead

\* What waits of that encoder then, whether or not the segment goes on.
LEMMA AheadQueue ==
  ASSUME RecInv, Room, NEW e \in Encoders, NEW frame \in Frames, frame.n = next[e],
         Heeds(e), Number(e) > segment, Ahead(e, frame),
         offset' = [offset EXCEPT ![e] = From(e)],
         segment' \in {segment, segment + 1}
  PROVE  QueueInv(e)' /\ FiledInv(e)'
<1>1. /\ current[e] = segment /\ TimeOf(next[e]) = segment + 1
      /\ idle' = idle /\ current' = current /\ filed' = filed
  BY AheadFacts
<1>2. /\ RecTypeOK /\ ClockInv /\ QueueInv(e) /\ FiledInv(e) /\ segment \in Nat
      /\ next[e] \in Nat /\ \A j \in 1..Len(queue[e]) : queue[e][j].n \in Nat
      /\ \A j \in 1..Len(filed[e]) : filed[e][j][1] \in Nat
  BY QueuedFrames DEF RecInv, RecTypeOK, EncoderInv
<1>3. next'[e] = next[e] + 1
  BY <1>2, Sent DEF Heeds
<1>4. \A j \in 1..Len(queue'[e]) :
        /\ queue'[e][j].n <= next[e]
        /\ queue'[e][j] = frame \/ \E i \in 1..Len(queue[e]) : queue'[e][j] = queue[e][i]
        /\ \A i \in 1..(j - 1) : queue'[e][i].n < queue'[e][j].n
  BY EnqueueFacts DEF Ahead
<1>5. ASSUME NEW j \in 1..Len(queue'[e])
      PROVE  /\ queue'[e][j].n < next'[e] /\ TimeOf(queue'[e][j].n) <= segment + 1
             /\ e \notin WithAudio => TimeOf(queue'[e][j].n) = segment + 1
  <2>1. queue'[e][j].n \in Nat /\ queue'[e][j].n < next'[e]
    BY <1>2, <1>3, <1>4
  <2>2. CASE queue'[e][j] = frame
    BY <1>1, <1>2, <2>1, <2>2
  <2>3. CASE \E i \in 1..Len(queue[e]) : queue'[e][j] = queue[e][i]
    BY <1>1, <1>2, <2>1, <2>3 DEF QueueInv
  <2> QED BY <1>4, <2>2, <2>3
<1>6. (IF current'[e] = segment' THEN segment' + 1 ELSE segment') = segment + 1
  BY <1>1, <1>2
<1>7. QueueInv(e)'
  BY <1>1, <1>4, <1>5, <1>6 DEF QueueInv, TimeOf
<1>8. ASSUME NEW j \in 1..Len(filed[e])
      PROVE  /\ filed[e][j][1] < next'[e]
             /\ \A i \in 1..Len(queue'[e]) : filed[e][j][1] < queue'[e][i].n
  <2>1. filed[e][j][1] < next'[e] /\ filed[e][j][1] < next[e]
    BY <1>2, <1>3 DEF FiledInv
  <2>2. ASSUME NEW i \in 1..Len(queue'[e]) PROVE filed[e][j][1] < queue'[e][i].n
    BY <1>2, <1>4, <2>1 DEF FiledInv
  <2> QED BY <2>1, <2>2
<1>9. \A x : Right(e, x)' <=> Right(e, x)
  BY <1>1 DEF Right, TimeOf
<1>10. FiledInv(e)'
  BY <1>1, <1>2, <1>8, <1>9 DEF FiledInv
<1> QED BY <1>7, <1>10

\* The encoder is ready, others are not.
LEMMA ReadyKeeps ==
  ASSUME RecInv, Room, NEW e \in Encoders, NEW frame \in Frames, frame.n = next[e],
         Heeds(e), Number(e) > segment, Ahead(e, frame),
         offset' = [offset EXCEPT ![e] = From(e)],
         ready' = ready + (IF marked[e] THEN 0 ELSE 1), ready' # maxWaiting', segment' = segment
  PROVE  RecInv'
<1>1. RecTypeOK /\ CountInv /\ ClockInv /\ \A o \in Encoders : EncoderInv(o)
  BY DEF RecInv
<1>2. /\ segment \in Nat /\ idle \in Nat /\ lost \in Nat /\ ready \in Nat /\ next \in [Encoders -> Nat]
      /\ idle <= segment /\ marked \in [Encoders -> BOOLEAN]
  BY <1>1 DEF RecTypeOK, ClockInv
<1>3. /\ seenFirst[e] /\ current[e] = segment /\ next[e] >= Start(Rotations + 1)
      /\ idle' = idle /\ lost' = lost /\ seenFirst' = seenFirst /\ offset' = offset
      /\ current' = current /\ filed' = filed /\ maxWaiting' = maxWaiting /\ Known' = Known
      /\ marked'[e] /\ \A o \in Encoders \ {e} : marked'[o] = marked[o] /\ queue'[o] = queue[o]
  BY AheadFacts
<1>4. /\ next'[e] = next[e] + 1 /\ \A o \in Encoders \ {e} : next'[o] = next[o]
      /\ \A o, p \in Encoders : next'[o] <= next'[p] + Skew
  BY <1>1, Sent DEF Heeds
<1>5. Counted' = Counted \cup {e} /\ (e \in Counted <=> marked[e])
  BY <1>2, <1>3 DEF Counted
<1>6. /\ Counted \subseteq Known /\ IsFiniteSet(Known) /\ IsFiniteSet(Counted)
      /\ e \in Known /\ maxWaiting = Cardinality(Known) /\ maxWaiting \in Nat
  BY <1>1, <1>3, Heard DEF Heeds, CountInv, RecTypeOK, Known
<1>7. ready' = Cardinality(Counted') /\ ready' \in Nat
  <2>1. Cardinality(Counted \cup {e}) = IF e \in Counted THEN Cardinality(Counted) ELSE Cardinality(Counted) + 1
    BY <1>6, FS_AddElement
  <2>2. ready = Cardinality(Counted)
    BY <1>1 DEF CountInv
  <2> QED BY <1>2, <1>5, <2>1, <2>2
<1>8. Counted' \in SUBSET Known
  BY <1>5, <1>6
<1>9. Cardinality(Counted') <= Cardinality(Known)
  BY <1>6, <1>8, FS_Subset
<1>10. CountInv'
  BY <1>3, <1>6, <1>7, <1>9 DEF CountInv
<1>11. ClockInv'
  BY <1>1, <1>3, <1>4 DEF ClockInv
<1>12. RecTypeOK'
  <2>1. marked' \in [Encoders -> BOOLEAN] /\ queue' \in [Encoders -> Seq(Frames)] /\ next' \in [Encoders -> Nat]
        /\ audioInitialized' = audioInitialized /\ recording' = recording
    BY AheadFacts
  <2> QED BY <1>1, <1>3, <1>7, <2>1 DEF RecTypeOK, Frames
<1>13. EncoderInv(e)'
  <2>1. Rotations' = Rotations /\ Rotations \in Nat /\ Start(Rotations) \in Nat /\ Start(Rotations + 1) \in Nat
    BY <1>2, <1>3, Starts DEF Rotations
  <2>2. KnownInv(e)'
    <3>1. next[e] \in Nat /\ next[e] >= Start(Rotations) /\ offset[e] = -idle
      BY <1>1, <1>2, <1>3 DEF EncoderInv, KnownInv
    <3> QED BY <1>3, <1>4, <2>1, <3>1 DEF KnownInv, Start
  <2>3. PlaceInv(e)'
    <3>1. next'[e] > Start(Rotations + 1) /\ e \in Counted'
      BY <1>2, <1>3, <1>4, <1>5, <2>1
    <3> QED BY <1>2, <1>3, <2>1, <3>1 DEF PlaceInv, Start
  <2>4. QueueInv(e)' /\ FiledInv(e)'
    BY AheadQueue
  <2> QED BY <2>2, <2>3, <2>4 DEF EncoderInv
<1>14. ASSUME NEW o \in Encoders \ {e} PROVE EncoderInv(o)'
  <2>1. Same(o)
    BY <1>3, <1>4 DEF Same
  <2> QED BY <1>1, <1>3, <2>1, OthersRest
<1> QED BY <1>10, <1>11, <1>12, <1>13, <1>14 DEF RecInv

\* The last encoder is ready: all others had been, and a new segment begins.
LEMMA RotateKeeps ==
  ASSUME RecInv, Room, NEW e \in Encoders, NEW frame \in Frames, frame.n = next[e],
         Heeds(e), Number(e) > segment, Ahead(e, frame),
         offset' = [offset EXCEPT ![e] = From(e)],
         ready + (IF marked[e] THEN 0 ELSE 1) = maxWaiting', Rotate
  PROVE  RecInv'
<1>1. RecTypeOK /\ CountInv /\ ClockInv /\ \A o \in Encoders : EncoderInv(o)
  BY DEF RecInv
<1>2. /\ segment \in Nat /\ idle \in Nat /\ lost \in Nat /\ ready \in Nat /\ next \in [Encoders -> Nat]
      /\ idle <= segment /\ marked \in [Encoders -> BOOLEAN] /\ current \in [Encoders -> Int]
      /\ lost <= MaxLost
  BY <1>1 DEF RecTypeOK, ClockInv
<1>3. /\ seenFirst[e] /\ current[e] = segment /\ next[e] >= Start(Rotations + 1)
      /\ idle' = idle /\ lost' = lost /\ seenFirst' = seenFirst /\ offset' = offset
      /\ current' = current /\ filed' = filed /\ maxWaiting' = maxWaiting /\ Known' = Known
      /\ marked'[e] /\ \A o \in Encoders \ {e} : marked'[o] = marked[o] /\ queue'[o] = queue[o]
  BY AheadFacts
<1>4. /\ next'[e] = next[e] + 1 /\ \A o \in Encoders \ {e} : next'[o] = next[o]
      /\ \A o, p \in Encoders : next'[o] <= next'[p] + Skew
      /\ \A o \in Encoders : next[e] < next[o] + Skew
      /\ Skew \in Nat /\ Skew >= 1
  BY <1>1, Sent DEF Heeds
<1>5. segment' = segment + 1 /\ ready' = 0
  BY DEF Rotate
<1>6. /\ Counted \subseteq Known /\ IsFiniteSet(Known) /\ IsFiniteSet(Counted)
      /\ e \in Known /\ maxWaiting = Cardinality(Known) /\ maxWaiting \in Nat /\ ready < maxWaiting
  BY <1>1, <1>3, Heard DEF Heeds, CountInv, RecTypeOK, Known
<1>7. ~marked[e] /\ e \notin Counted /\ ready + 1 = maxWaiting
  <2>1. ~marked[e]
    BY <1>2, <1>3, <1>6
  <2> QED BY <1>3, <2>1 DEF Counted
<1>8. Known = Counted \cup {e}
  <2>1. Cardinality(Counted \cup {e}) = Cardinality(Counted) + 1
    BY <1>6, <1>7, FS_AddElement
  <2>2. Cardinality(Counted \cup {e}) = Cardinality(Known)
    BY <1>1, <1>6, <1>7, <2>1 DEF CountInv
  <2>3. Counted \cup {e} \in SUBSET Known
    BY <1>6
  <2> QED BY <1>6, <2>2, <2>3, FS_Subset
<1>9. /\ Rotations \in Nat /\ Rotations' = Rotations + 1 /\ PerSegment \in Nat /\ MaxLost \in Nat
      /\ Start(Rotations + 1) \in Nat /\ Start(Rotations + 2) \in Nat
      /\ Start(Rotations + 2) = Start(Rotations + 1) + PerSegment
      /\ lost + Skew < PerSegment
  <2>1. Rotations \in Nat /\ Rotations' = Rotations + 1
    BY <1>2, <1>3, <1>5 DEF Rotations
  <2>2. PerSegment \in Nat /\ MaxLost \in Nat
    BY RecordingAssumption
  <2>3. lost + Skew < PerSegment
    BY <1>2, <1>4, <2>2 DEF Room
  <2>4. (Rotations + 1) + 1 = Rotations + 2 /\ Rotations + 1 \in Nat
    BY <2>1
  <2>5. /\ Start(Rotations + 1) \in Nat /\ Start((Rotations + 1) + 1) \in Nat
        /\ Start((Rotations + 1) + 1) = Start(Rotations + 1) + PerSegment
    BY <2>1, <2>2, <2>4, Starts
  <2> QED BY <2>1, <2>2, <2>3, <2>4, <2>5
\* no encoder is still unknown: it would have sent nothing, and be a segment behind
<1>10. ASSUME NEW o \in Encoders PROVE seenFirst[o]
  <2>1. SUFFICES ASSUME ~seenFirst[o] PROVE FALSE
    OBVIOUS
  <2>2. next[o] <= lost /\ segment = idle
    BY <1>1, <2>1 DEF EncoderInv, KnownInv
  <2>3. Rotations = 0
    BY <1>2, <2>2 DEF Rotations
  <2>4. Start(Rotations + 1) = PerSegment
    BY <2>3, Starts
  <2>5. next[e] \in Nat /\ next[o] \in Nat /\ next[e] < next[o] + Skew /\ next[e] >= PerSegment
    BY <1>2, <1>3, <1>4, <2>4
  <2> QED BY <1>2, <1>4, <1>9, <2>2, <2>5
<1>11. ASSUME NEW o \in Encoders \ {e}
       PROVE  o \in Counted /\ current[o] = segment /\ next[o] > Start(Rotations + 1)
  <2>1. o \in Known
    BY <1>10 DEF Known
  <2>2. o \in Counted
    BY <1>8, <1>11, <2>1
  <2> QED BY <1>1, <2>2 DEF Counted, EncoderInv, PlaceInv
<1>12. Counted' = {}
  <2>1. \A o \in Encoders : current'[o] # segment'
    BY <1>2, <1>3, <1>5, <1>11
  <2> QED BY <2>1 DEF Counted
<1>13. CountInv'
  BY <1>3, <1>5, <1>6, <1>7, <1>12, FS_EmptySet DEF CountInv
<1>14. ClockInv'
  BY <1>1, <1>2, <1>3, <1>4, <1>5 DEF ClockInv
<1>15. RecTypeOK'
  <2>1. marked' \in [Encoders -> BOOLEAN] /\ queue' \in [Encoders -> Seq(Frames)] /\ next' \in [Encoders -> Nat]
        /\ audioInitialized' = audioInitialized /\ recording' = recording
    BY AheadFacts
  <2>2. {segment', ready', maxWaiting', lost', idle'} \subseteq Nat
    BY <1>2, <1>3, <1>5, <1>6
  <2> QED BY <1>1, <1>3, <2>1, <2>2 DEF RecTypeOK, Frames
<1>16. next[e] <= Start(Rotations + 1) + lost
  BY <1>1, <1>7 DEF EncoderInv, PlaceInv
<1>17. ASSUME NEW o \in Encoders
       PROVE  /\ next'[o] \in Nat /\ next'[o] >= Start(Rotations + 1) /\ next'[o] > 0
              /\ next'[o] <= Start(Rotations + 1) + lost + Skew
  <2>1. CASE o = e
    BY <1>2, <1>3, <1>4, <1>9, <1>16, <2>1
  <2>2. CASE o # e
    <3>1. next'[o] = next[o] /\ next[o] > Start(Rotations + 1) /\ next[o] <= next[e] + Skew
      BY <1>1, <1>4, <1>11, <2>2 DEF ClockInv
    <3> QED BY <1>2, <1>4, <1>9, <1>16, <3>1
  <2> QED BY <2>1, <2>2
<1>18. ASSUME NEW o \in Encoders PROVE KnownInv(o)'
  <2>1. offset[o] = -idle
    BY <1>1, <1>10 DEF EncoderInv, KnownInv
  <2> QED BY <1>3, <1>9, <1>10, <1>17, <2>1 DEF KnownInv, Start
<1>19. ASSUME NEW o \in Encoders PROVE PlaceInv(o)'
  <2>1. current[o] = segment /\ current'[o] = segment
    BY <1>3, <1>11
  <2>2. next'[o] <= Start(Rotations + 2) + lost
    BY <1>2, <1>4, <1>9, <1>17
  <2>3. Rotations' + 1 = Rotations + 2
    BY <1>9
  <2> QED BY <1>2, <1>3, <1>5, <1>9, <1>12, <1>17, <2>1, <2>2, <2>3 DEF PlaceInv, Start
<1>20. QueueInv(e)' /\ FiledInv(e)'
  BY <1>5, AheadQueue
<1>21. ASSUME NEW o \in Encoders \ {e} PROVE QueueInv(o)' /\ FiledInv(o)'
  <2>1. /\ QueueInv(o) /\ FiledInv(o) /\ queue'[o] = queue[o] /\ filed'[o] = filed[o]
        /\ next'[o] = next[o] /\ current[o] = segment /\ current'[o] = segment
    BY <1>1, <1>3, <1>4, <1>11 DEF EncoderInv
  <2>2. current'[o] # segment' /\ segment' = segment + 1
    BY <1>2, <1>5, <2>1
  <2>3. QueueInv(o)'
    BY <1>3, <2>1, <2>2 DEF QueueInv, TimeOf
  <2>4. FiledInv(o)'
    BY <1>3, <2>1 DEF FiledInv, Right, TimeOf
  <2> QED BY <2>3, <2>4
<1> QED BY <1>13, <1>14, <1>15, <1>18, <1>19, <1>20, <1>21 DEF RecInv, EncoderInv

-----------------------------------------------------------------------------
\* Every frame

LEMMA HandleFrameKeeps ==
  ASSUME RecInv, Room, NEW e \in Encoders, HandleFrame(e)
  PROVE  RecInv'
<1>1. next[e] \in Nat /\ segment \in Nat /\ RecTypeOK
  BY DEF RecInv, RecTypeOK
<1>2. PICK key \in BOOLEAN :
        /\ seenFirst' = [seenFirst EXCEPT ![e] = TRUE]
        /\ maxWaiting' = (IF seenFirst[e] THEN maxWaiting ELSE maxWaiting + 1)
        /\ \/ Number(e) = segment /\ InSegment(e, [n |-> next[e], key |-> key])
           \/ Number(e) > segment /\ Ahead(e, [n |-> next[e], key |-> key])
           \/ Number(e) < segment /\ Behind(e)
        /\ offset' = [offset EXCEPT ![e] = IF Number(e) < segment THEN -segment ELSE From(e)]
  BY DEF HandleFrame, Number, From
<1> DEFINE frame == [n |-> next[e], key |-> key]
<1>3. frame \in Frames /\ frame.n = next[e]
  BY <1>1 DEF Frames
<1> HIDE DEF frame
<1>4. Heeds(e)
  BY <1>2 DEF HandleFrame, Heeds
<1>5. Number(e) \in Int
  <2>1. SegmentNum(next[e]) \in Nat /\ offset[e] \in Int
    BY <1>1, Numbers DEF RecTypeOK
  <2>2. From(e) \in Int
    BY <2>1 DEF From
  <2> QED BY <2>1, <2>2 DEF Number
<1>9. Number(e) >= segment => offset' = [offset EXCEPT ![e] = From(e)]
  <2>1. offset' = [offset EXCEPT ![e] = IF Number(e) < segment THEN -segment ELSE From(e)]
    BY <1>2
  <2>2. Number(e) >= segment => (IF Number(e) < segment THEN -segment ELSE From(e)) = From(e)
    BY <1>1, <1>5
  <2> QED BY <2>1, <2>2, Zenon
<1>6. CASE Number(e) = segment /\ InSegment(e, frame)
  <2>1. offset' = [offset EXCEPT ![e] = From(e)]
    BY <1>1, <1>6, <1>9
  <2> QED BY <1>3, <1>4, <1>6, <2>1, InSegmentKeeps
<1>7. CASE Number(e) > segment /\ Ahead(e, frame)
  <2>1. offset' = [offset EXCEPT ![e] = From(e)]
    BY <1>1, <1>5, <1>7, <1>9
  <2> DEFINE count == ready + (IF marked[e] THEN 0 ELSE 1)
  <2>2. CASE count = maxWaiting'
    <3>1. Rotate
      BY <1>7, <2>2 DEF Ahead, AllReady
    <3> QED BY <1>3, <1>4, <1>7, <2>1, <2>2, <3>1, RotateKeeps
  <2>3. CASE count # maxWaiting'
    <3>1. ready' = count /\ segment' = segment
      BY <1>7, <2>3 DEF Ahead, AllReady
    <3> QED BY <1>3, <1>4, <1>7, <2>1, <2>3, <3>1, ReadyKeeps
  <2> QED BY <2>2, <2>3
<1>8. CASE Number(e) < segment /\ Behind(e)
  <2>1. offset' = [offset EXCEPT ![e] = -segment]
    BY <1>2, <1>8
  <2> QED BY <1>4, <1>8, <2>1, BehindKeeps
<1> QED BY <1>2, <1>6, <1>7, <1>8 DEF frame

LEMMA RecStutter ==
  ASSUME RecInv, UNCHANGED recVars
  PROVE  RecInv'
<1>1. /\ RecTypeOK' /\ Counted' = Counted /\ Known' = Known
  BY DEF RecInv, RecTypeOK, recVars, remoteVars, Counted, Known
<1>2. CountInv' /\ ClockInv'
  BY <1>1 DEF RecInv, CountInv, ClockInv, recVars
<1>3. ASSUME NEW o \in Encoders PROVE EncoderInv(o)'
  <2>1. Same(o) /\ segment' = segment /\ idle' = idle /\ lost' = lost
    BY DEF recVars, remoteVars, Same
  <2> QED BY <2>1, OthersRest DEF RecInv
<1> QED BY <1>1, <1>2, <1>3 DEF RecInv

LEMMA RecInvInductive ==
  ASSUME RecInv, Room, ~Stalls, [RecNext]_recVars
  PROVE  RecInv'
<1>1. ASSUME NEW e \in Encoders, Lose(e) \/ HandleFrame(e) \/ Audio(e) PROVE RecInv'
  BY <1>1, LoseKeeps, HandleFrameKeeps, AudioKeeps
<1>2. CASE TimedOut
  BY <1>2, TimedOutKeeps
<1> QED BY <1>1, <1>2, RecStutter DEF RecNext

\* Where no segment is ended by a stall: every encoder is known and placed as RecInv says, and
\* the variables have their types.
THEOREM RecInvariant ==
  ASSUME Room, ~Stalls
  PROVE  RecSpec => []RecInv
<1>1. RecInv /\ [RecNext]_recVars => RecInv'
  BY RecInvInductive
<1> QED BY <1>1, RecInvInit, PTL DEF RecSpec

LEMMA RecInvFiles == RecInv => FramesFiled
<1> SUFFICES ASSUME RecInv, NEW e \in Encoders, NEW i \in DOMAIN filed[e]
             PROVE  /\ i > 1 => filed[e][i - 1][1] < filed[e][i][1]
                    /\ IF e \in WithAudio
                       THEN filed[e][i][2] >= idle + SegmentNum(filed[e][i][1])
                       ELSE filed[e][i][2] = idle + SegmentNum(filed[e][i][1])
  BY DEF FramesFiled
<1>1. RecTypeOK /\ FiledInv(e) /\ filed[e] \in Seq(Nat \X Nat)
  BY QueuedFrames DEF RecInv, EncoderInv
<1>2. DOMAIN filed[e] = 1..Len(filed[e]) /\ Len(filed[e]) \in Nat
  BY <1>1, LenProperties
<1>3. /\ \A k \in 1..(i - 1) : filed[e][k][1] < filed[e][i][1]
      /\ Right(e, filed[e][i])
  BY <1>1, <1>2 DEF FiledInv
<1>4. i > 1 => i - 1 \in 1..(i - 1)
  BY <1>2
<1> QED BY <1>3, <1>4 DEF Right, TimeOf

\* Every frame is filed at most once, in order, and in the segment of its time, the same for
\* all encoders; with audio it may be filed later.  It is what handle_encoder_msg is for.
THEOREM FramesAreFiled ==
  ASSUME Room, ~Stalls
  PROVE  RecSpec => []FramesFiled
BY RecInvariant, RecInvFiles, PTL
=============================================================================
