----------------------------- MODULE Recording -----------------------------
(***************************************************************************)
(* How loggerd files the frames of encoderd under the segments of a drive: *)
(* every encoder numbers its own segments, loggerd starts a new one when   *)
(* all have, and queues the frames of those that are ahead meanwhile       *)
(* (handle_encoder_msg and rotate_if_needed).  An encoder that records     *)
(* audio waits for the microphone at the start of each segment.            *)
(*                                                                         *)
(* encoderd starts its encoders with the same frame, and every PerSegment  *)
(* frames it begins a segment with a keyframe.  The messages of an encoder *)
(* arrive in order; some are lost.                                         *)
(***************************************************************************)
EXTENDS Integers, Sequences, FiniteSets

CONSTANTS
  Encoders, WithAudio,   \* the encoders, and those of them that record audio
  PerSegment,            \* frames of a segment
  QueueLimit,            \* frames that wait, MAIN_FPS*10
  Skew,                  \* frames that an encoder may be ahead of another
  Stalls,                \* a segment may also be ended by time while encoders are sending
  MaxSegments, MaxLost, MaxIdle  \* bounds: segments sent, frames lost, segments of silence

ASSUME RecordingAssumption ==
  /\ IsFiniteSet(Encoders) /\ Encoders # {} /\ WithAudio \subseteq Encoders /\ Stalls \in BOOLEAN
  /\ {PerSegment, MaxSegments} \subseteq Nat \ {0}
  /\ {QueueLimit, Skew, MaxLost, MaxIdle} \subseteq Nat

VARIABLES
  next,                  \* the frame an encoder sends next
  segment, ready, maxWaiting,              \* of LoggerdState
  seenFirst, offset, current, queue, recording, marked, audioInitialized,   \* of RemoteEncoder
  filed,                 \* history: the frames written, with their segment
  lost, idle             \* history: frames lost; segments before the first frame

remoteVars == <<seenFirst, offset, current, queue, recording, marked, audioInitialized>>
recVars == <<next, segment, ready, maxWaiting, remoteVars, filed, lost, idle>>

RecInit ==
  /\ next = [e \in Encoders |-> 0]
  /\ segment = 0 /\ ready = 0 /\ maxWaiting = 0
  /\ seenFirst = [e \in Encoders |-> FALSE] /\ offset = [e \in Encoders |-> 0]
  /\ current = [e \in Encoders |-> -1] /\ queue = [e \in Encoders |-> <<>>]
  /\ recording = [e \in Encoders |-> FALSE] /\ marked = [e \in Encoders |-> FALSE]
  /\ audioInitialized = [e \in Encoders |-> FALSE]
  /\ filed = [e \in Encoders |-> <<>>] /\ lost = 0 /\ idle = 0

SegmentNum(n) == n \div PerSegment

\* The next frame of e; those of a segment's beginning are keyframes, others may be.
Sends(e) ==
  /\ next[e] < MaxSegments * PerSegment
  /\ \A other \in Encoders : next[e] - next[other] < Skew
  /\ next' = [next EXCEPT ![e] = @ + 1]

Lose(e) ==
  /\ Sends(e) /\ lost < MaxLost /\ lost' = lost + 1
  /\ UNCHANGED <<segment, ready, maxWaiting, remoteVars, filed, idle>>

-----------------------------------------------------------------------------
\* loggerd

\* logger_rotate
Rotate == segment' = segment + 1 /\ ready' = 0

\* write_encode_data: a file begins with a keyframe, frames before it are dropped.
Written(e, frames, fresh) ==
  IF recording[e] /\ ~fresh THEN frames
  ELSE IF \E i \in DOMAIN frames : frames[i].key
  THEN SubSeq(frames, CHOOSE i \in DOMAIN frames : frames[i].key /\ \A j \in 1..(i-1) : ~frames[j].key,
              Len(frames))
  ELSE <<>>

Enqueue(e, frame) ==
  queue' = [queue EXCEPT ![e] = IF Len(@) > QueueLimit THEN @ ELSE Append(@, frame)]

\* A frame of the segment that loggerd is in, the first one opens the encoder's file; what
\* was queued goes before it, once audio has come.
InSegment(e, frame) ==
  LET fresh == current[e] # segment
      writes == e \notin WithAudio \/ (audioInitialized[e] /\ ~fresh)
      written == IF writes THEN Written(e, Append(queue[e], frame), fresh) ELSE <<>>
  IN /\ current' = [current EXCEPT ![e] = segment]
     /\ marked' = [marked EXCEPT ![e] = @ /\ ~fresh]
     /\ audioInitialized' = [audioInitialized EXCEPT ![e] = @ /\ ~fresh]
     /\ recording' = [recording EXCEPT ![e] = (@ /\ ~fresh) \/ written # <<>>]
     /\ filed' = [filed EXCEPT ![e] = @ \o [i \in DOMAIN written |-> <<written[i].n, segment>>]]
     /\ IF writes THEN queue' = [queue EXCEPT ![e] = <<>>] ELSE Enqueue(e, frame)
     /\ UNCHANGED <<segment, ready>>

MutAllReady(count) == count > 0
AllReady(count) == count = maxWaiting'

\* A frame of a later segment: its encoder is ready to rotate, and the last one to be so
\* rotates.
Ahead(e, frame) ==
  /\ marked' = [marked EXCEPT ![e] = TRUE]
  /\ LET readyNow == ready + (IF marked[e] THEN 0 ELSE 1)
     IN IF AllReady(readyNow) THEN Rotate ELSE ready' = readyNow /\ UNCHANGED segment
  /\ Enqueue(e, frame)
  /\ UNCHANGED <<current, audioInitialized, recording, filed>>

\* A frame of an earlier segment is dropped, and the offset taken for that of an encoderd that
\* has started again.
Behind(e) ==
  UNCHANGED <<current, audioInitialized, recording, filed, marked, segment, ready, queue>>

\* handle_encoder_msg, then rotate_if_needed
HandleFrame(e) ==
  /\ Sends(e)
  /\ \E key \in BOOLEAN :
       LET frame == [n |-> next[e], key |-> key]
           from == IF seenFirst[e] THEN offset[e] ELSE SegmentNum(next[e])
           number == SegmentNum(next[e]) - from
       IN /\ next[e] % PerSegment = 0 => key
          /\ seenFirst' = [seenFirst EXCEPT ![e] = TRUE]
          /\ maxWaiting' = IF seenFirst[e] THEN maxWaiting ELSE maxWaiting + 1
          /\ \/ number = segment /\ InSegment(e, frame)
             \/ number > segment /\ Ahead(e, frame)
             \/ number < segment /\ Behind(e)
          /\ offset' = [offset EXCEPT ![e] = IF number < segment THEN -segment ELSE from]
  /\ UNCHANGED <<lost, idle>>

\* A message of the microphone initializes the audio of the encoder's open file.
Audio(e) ==
  /\ e \in WithAudio /\ current[e] # -1 /\ ~audioInitialized[e]
  /\ audioInitialized' = [audioInitialized EXCEPT ![e] = TRUE]
  /\ UNCHANGED <<next, segment, ready, maxWaiting, seenFirst, offset, current, queue, recording,
                 marked, filed, lost, idle>>

\* rotate_if_needed by time: no camera is seen, or the segment is too long.
TimedOut ==
  /\ Stalls \/ \A e \in Encoders : next[e] = 0
  /\ idle < MaxIdle /\ idle' = idle + 1
  /\ Rotate
  /\ UNCHANGED <<next, maxWaiting, remoteVars, filed, lost>>

RecNext == TimedOut \/ \E e \in Encoders : Lose(e) \/ HandleFrame(e) \/ Audio(e)

RecSpec == RecInit /\ [][RecNext]_recVars

-----------------------------------------------------------------------------
\* Properties

\* The values each variable takes.
RecTypeOK ==
  /\ next \in [Encoders -> Nat] /\ {segment, ready, maxWaiting, lost, idle} \subseteq Nat
  /\ seenFirst \in [Encoders -> BOOLEAN] /\ offset \in [Encoders -> Int]
  /\ current \in [Encoders -> Int] /\ queue \in [Encoders -> Seq([n: Nat, key: BOOLEAN])]
  /\ recording \in [Encoders -> BOOLEAN] /\ marked \in [Encoders -> BOOLEAN]
  /\ audioInitialized \in [Encoders -> BOOLEAN] /\ filed \in [Encoders -> Seq(Nat \X Nat)]

\* Every frame is written at most once and in order, and into the segment of its time, the
\* same for all cameras, after a start without cameras too; with audio it may come later.
FramesFiled ==
  \A e \in Encoders : \A i \in DOMAIN filed[e] :
    /\ i > 1 => filed[e][i - 1][1] < filed[e][i][1]
    /\ IF e \in WithAudio THEN filed[e][i][2] >= idle + SegmentNum(filed[e][i][1])
       ELSE filed[e][i][2] = idle + SegmentNum(filed[e][i][1])
=============================================================================
