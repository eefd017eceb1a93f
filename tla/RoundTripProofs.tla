--------------------------- MODULE RoundTripProofs ---------------------------
(***************************************************************************)
(* Theorems about the seek of libFLAC, in any file whose frames follow one *)
(* another, for any sizes of its frames and any target: it is found, and   *)
(* each turn of the search comes closer to it. Then, that what libFLAC's   *)
(* encoder leaves in a file, whenever it ends, is a file that its seek     *)
(* works in: the two sides fit together, for all sizes, and what holds of  *)
(* each holds of both.                                                     *)
(***************************************************************************)
EXTENDS RoundTrip, LibFLACEncoderProofs

-----------------------------------------------------------------------------
(***************************************************************************)
(* The seek.                                                               *)
(***************************************************************************)

\* The file stays well formed, and no frame is landed in before one seeks.
StreamInv == stream \in Streams /\ (seek = "none" => landed = 0)

SeekInv == SeekTypeOK /\ StreamInv /\ BoundsHoldTarget /\ FindsTarget

-----------------------------------------------------------------------------
(***************************************************************************)
(* Frames.                                                                 *)
(***************************************************************************)

\* The numbers of a frame of a well-formed file.
LEMMA FrameNumbers ==
    ASSUME stream \in Streams, NEW i \in Indices
    PROVE  /\ stream.frames[i].sample \in Nat
           /\ stream.frames[i].length \in Nat
           /\ stream.frames[i].length > 0
           /\ stream.frames[i].first \in Nat
           /\ stream.frames[i].end \in Nat
  <1>1. stream.frames[i] \in FileFrame
    BY DEF Streams, Indices
  <1> QED BY <1>1 DEF FileFrame

\* Frames follow one another, in bytes and in samples.
LEMMA FramesOrdered ==
    ASSUME stream \in Streams, NEW i \in Indices, NEW k \in Indices
    PROVE  /\ first_frame_offset <= stream.frames[i].first
           /\ stream.frames[i].first < stream.frames[i].end
           /\ stream.frames[i].end <= FramesEnd(stream)
           /\ After(stream.frames[i])
                 = stream.frames[i].sample + stream.frames[i].length
           /\ i < k => /\ stream.frames[i].end <= stream.frames[k].first
                       /\ After(stream.frames[i]) <= stream.frames[k].sample
  BY DEF Streams, FramesFollow, Indices, After

\* The samples of a frame are before those of the frames after it.
LEMMA SamplesOrdered ==
    ASSUME stream \in Streams, target_sample \in Nat,
           NEW i \in Indices, NEW k \in Indices, i < k
    PROVE  /\ Holds(stream.frames[k], target_sample)
                 => After(stream.frames[i]) <= target_sample
           /\ Holds(stream.frames[i], target_sample)
                 => target_sample < stream.frames[k].sample
           /\ After(stream.frames[i]) \in Nat /\ After(stream.frames[k]) \in Nat
  <1> DEFINE f == stream.frames[i]
             g == stream.frames[k]
  <1>1. /\ f.sample \in Nat /\ f.length \in Nat
        /\ g.sample \in Nat /\ g.length \in Nat
    BY FrameNumbers
  <1>2. /\ After(f) = f.sample + f.length
        /\ After(g) = g.sample + g.length
        /\ After(f) <= g.sample
    BY FramesOrdered
  <1> QED BY <1>1, <1>2 DEF Holds

\* The numbers of the file.
LEMMA StreamNumbers ==
    ASSUME stream \in Streams
    PROVE  /\ Len(stream.frames) \in Nat
           /\ FramesEnd(stream) \in Nat /\ StreamLength(stream) \in Nat
           /\ FramesEnd(stream) <= StreamLength(stream)
           /\ ApproxBytes \in Nat
  <1>1. /\ stream.frames \in Seq(FileFrame)
        /\ stream.tail \in Nat /\ stream.min \in Nat /\ stream.max \in Nat
    BY DEF Streams
  <1>2. FramesEnd(stream) \in Nat
    <2>1. CASE stream.frames = <<>>
      BY <2>1, SeekAssumption DEF FramesEnd
    <2>2. CASE stream.frames # <<>>
      <3>1. stream.frames[Len(stream.frames)] \in FileFrame
        BY <1>1, <2>2
      <3> QED BY <2>2, <3>1 DEF FileFrame, FramesEnd
    <2> QED BY <2>1, <2>2
  <1>3. ApproxBytes \in Nat
    BY <1>1, SeekAssumption DEF ApproxBytes
  <1> QED BY <1>1, <1>2, <1>3 DEF StreamLength

\* A position that is clamped to the bounds.
LEMMA ClampedNat ==
    ASSUME NEW p \in Int, lower_bound \in Nat, upper_bound \in Nat
    PROVE  Clamped(p) \in Nat
  BY DEF Clamped

-----------------------------------------------------------------------------
(***************************************************************************)
(* The bounds.                                                             *)
(***************************************************************************)

\* A seek starts with bounds that hold any target it admits.
LEMMA StartHoldsTarget ==
    ASSUME stream \in Streams, NEW target \in Nat, SeekAbsolute(target)
    PROVE  BoundsHoldTarget'
  <1> USE SeekAssumption
  <1>1. /\ stream' = stream /\ target_sample' = target
        /\ lower_bound' = first_frame_offset /\ lower_bound_sample' = 0
        /\ upper_bound' = StreamLength(stream)
        /\ stream.total > 0 => target < upper_bound_sample'
    BY DEF SeekAbsolute, StartBounds
  <1>2. ASSUME NEW i \in Indices
        PROVE  /\ lower_bound' <= stream.frames[i].first
               /\ stream.frames[i].end <= upper_bound'
               /\ 0 <= stream.frames[i].sample
    BY <1>1, FrameNumbers, FramesOrdered, StreamNumbers
  <1> QED BY <1>1, <1>2 DEF BoundsHoldTarget, Indices

\* A frame beyond the target leaves the target below its end.
LEMMA AboveHoldsTarget ==
    ASSUME SeekTypeOK, stream \in Streams, BoundsHoldTarget,
           NEW i \in Indices, Above(i)
    PROVE  BoundsHoldTarget'
  <1> DEFINE f == stream.frames[i]
  <1>1. /\ stream' = stream /\ target_sample' = target_sample
        /\ lower_bound' = lower_bound
        /\ lower_bound_sample' = lower_bound_sample
        /\ upper_bound' = f.end /\ upper_bound_sample' = After(f)
        /\ target_sample < f.sample /\ Searching
    BY DEF Above, Searching
  <1>2. target_sample < After(f)
    BY <1>1, FrameNumbers, FramesOrdered DEF SeekTypeOK
  <1>3. ASSUME NEW k \in Indices, Holds(stream.frames[k], target_sample)
        PROVE  stream.frames[k].end <= f.end
    <2>1. k < i
      <3>1. i # k
        BY <1>1, <1>3, FrameNumbers DEF Holds, SeekTypeOK
      <3>2. ~(i < k)
        BY <1>1, <1>2, <1>3, FrameNumbers, SamplesOrdered DEF SeekTypeOK
      <3> QED BY <3>1, <3>2 DEF Indices
    <2> QED BY <2>1, FrameNumbers, FramesOrdered
  <1> QED BY <1>1, <1>2, <1>3 DEF BoundsHoldTarget, Indices

\* A frame before the target leaves the target above its end.
LEMMA BelowHoldsTarget ==
    ASSUME SeekTypeOK, stream \in Streams, BoundsHoldTarget,
           NEW i \in Indices, Below(i)
    PROVE  BoundsHoldTarget'
  <1> DEFINE f == stream.frames[i]
  <1>1. /\ stream' = stream /\ target_sample' = target_sample
        /\ upper_bound' = upper_bound
        /\ upper_bound_sample' = upper_bound_sample
        /\ lower_bound' = f.end /\ lower_bound_sample' = After(f)
        /\ f.sample <= target_sample /\ ~Holds(f, target_sample)
        /\ Searching
    BY DEF Below, Searching, HoldsTarget
  <1>2. After(f) <= target_sample
    BY <1>1, FrameNumbers, FramesOrdered DEF Holds, SeekTypeOK
  <1>3. ASSUME NEW k \in Indices, Holds(stream.frames[k], target_sample)
        PROVE  f.end <= stream.frames[k].first
    <2>1. i < k
      <3>1. i # k
        BY <1>1, <1>3
      <3>2. ~(k < i)
        BY <1>1, <1>3, FrameNumbers, SamplesOrdered DEF SeekTypeOK
      <3> QED BY <3>1, <3>2 DEF Indices
    <2> QED BY <2>1, FramesOrdered
  <1>4. ASSUME NEW k \in Indices, stream.frames[k].first >= f.end
        PROVE  stream.frames[k].sample >= After(f)
    <2>1. i < k
      <3>1. ~(k < i) /\ i # k
        BY <1>4, FrameNumbers, FramesOrdered
      <3> QED BY <3>1 DEF Indices
    <2> QED BY <2>1, FrameNumbers, FramesOrdered
  <1> QED BY <1>1, <1>2, <1>3, <1>4 DEF BoundsHoldTarget, Indices

\* No other step moves a bound while the search goes on.
LEMMA BoundsStay ==
    ASSUME BoundsHoldTarget,
           Searching' => Searching /\ UNCHANGED <<stream, target_sample, bounds>>
    PROVE  BoundsHoldTarget'
  BY DEF BoundsHoldTarget, bounds, Indices

-----------------------------------------------------------------------------
(***************************************************************************)
(* A seek that fails.                                                      *)
(***************************************************************************)

\* While the target's frame is there to be found, the bounds do not cross.
LEMMA BoundsDoNotCross ==
    ASSUME SeekTypeOK, stream \in Streams, BoundsHoldTarget, Searching,
           stream.total > 0,
           NEW i \in Indices, Holds(stream.frames[i], target_sample)
    PROVE  BoundsOK
  BY FrameNumbers, FramesOrdered DEF BoundsHoldTarget, BoundsOK, SeekTypeOK

\* A probe from the lower bound does not overshoot the target's frame.
LEMMA LowestProbeHits ==
    ASSUME SeekTypeOK, stream \in Streams, BoundsHoldTarget,
           stream.total > 0, NEW i \in Indices, Overshoot(i),
           NEW k \in Indices, Holds(stream.frames[k], target_sample)
    PROVE  pos # lower_bound
  <1> SUFFICES ASSUME pos = lower_bound PROVE FALSE
    OBVIOUS
  <1>1. /\ Searching /\ IsNext(i) /\ ~Holds(stream.frames[i], target_sample)
        /\ After(stream.frames[i]) >= upper_bound_sample
    BY DEF Overshoot, Searching, TooFar, HoldsTarget
  <1>2. /\ pos <= stream.frames[k].first
        /\ target_sample < upper_bound_sample
    BY <1>1, FrameNumbers DEF BoundsHoldTarget, SeekTypeOK
  <1>3. i <= k /\ i # k
    BY <1>1, <1>2, FrameNumbers DEF IsNext, SeekTypeOK
  <1>4. After(stream.frames[i]) <= target_sample
        /\ After(stream.frames[i]) \in Nat
    BY <1>3, SamplesOrdered DEF Indices, SeekTypeOK
  <1> QED BY <1>1, <1>2, <1>4 DEF SeekTypeOK

-----------------------------------------------------------------------------
(***************************************************************************)
(* The invariant.                                                          *)
(***************************************************************************)

LEMMA SeekInitInv == SeekInit => SeekInv
  <1> SUFFICES ASSUME SeekInit PROVE SeekInv
    OBVIOUS
  <1>1. stream \in Streams /\ stream.frames = <<>>
    BY DEF SeekInit, NoStream, Streams, FramesFollow, TotalCounts
  <1>2. /\ stream.frames \in Seq(FileFrame) /\ Len(stream.frames) = 0
        /\ stream.tail \in Nat /\ stream.total \in Nat
        /\ stream.min \in Nat /\ stream.max \in Nat
    BY <1>1 DEF Streams
  <1>3. SeekTypeOK
    <2>1. landed \in 0..Len(stream.frames)
      BY <1>2 DEF SeekInit
    <2>2. first_seek \in BOOLEAN /\ m_finished \in BOOLEAN
          /\ callbackFailed \in BOOLEAN
      BY DEF SeekInit
    <2> QED BY <1>2, <2>1, <2>2 DEF SeekInit, SeekTypeOK
  <1> QED BY <1>1, <1>3 DEF SeekInit, SeekInv, StreamInv, Searching,
                            BoundsHoldTarget, FindsTarget

\* Every step but opening a file leaves the file alone.
LEMMA StreamStays ==
    ASSUME StreamInv, UNCHANGED stream, seek # "none", seek' # "none"
    PROVE  StreamInv'
  BY DEF StreamInv

LEMMA OpenInv ==
    ASSUME SeekInv, NEW s \in Streams, Open(s)
    PROVE  SeekInv'
  <1>1. /\ s.frames \in Seq(FileFrame) /\ s.tail \in Nat /\ s.total \in Nat
        /\ s.min \in Nat /\ s.max \in Nat
    BY DEF Streams
  <1>2. m_finished' \in BOOLEAN /\ stream' = s /\ seek' = "idle"
        /\ UNCHANGED <<target_sample, bounds, approx_bytes_per_frame, pos,
                       first_seek, landed, callbackFailed>> /\ landed = 0
    BY DEF Open, SeekInv, StreamInv
  <1>3. SeekTypeOK'
    BY <1>1, <1>2 DEF SeekInv, SeekTypeOK, bounds
  <1> QED BY <1>2, <1>3 DEF SeekInv, StreamInv, BoundsHoldTarget, FindsTarget,
                            Searching

LEMMA SeekAbsoluteInv ==
    ASSUME SeekInv, NEW target \in Nat, SeekAbsolute(target)
    PROVE  SeekInv'
  <1>1. stream \in Streams /\ stream' = stream /\ seek' = "aim"
        /\ seek # "none"
    BY DEF SeekInv, StreamInv, SeekAbsolute
  <1>2. BoundsHoldTarget'
    BY <1>1, StartHoldsTarget
  <1>3. SeekTypeOK'
    BY <1>1, StreamNumbers, SeekAssumption
    DEF SeekInv, SeekTypeOK, SeekAbsolute, StartBounds
  <1> QED BY <1>1, <1>2, <1>3, StreamStays DEF SeekInv, FindsTarget

LEMMA AimInv ==
    ASSUME SeekInv, Aim
    PROVE  SeekInv'
  <1>1. /\ seek = "aim" /\ seek' = "probe"
        /\ UNCHANGED <<stream, target_sample, bounds, approx_bytes_per_frame,
                       first_seek, m_finished, landed, callbackFailed>>
    BY DEF Aim
  <1>2. pos' \in Nat
    <2>1. PICK p \in Interpolated :
             pos' = Clamped(lower_bound + p - approx_bytes_per_frame)
      BY DEF Aim
    <2>2. p \in Int
      BY DEF Interpolated, Aim, BoundsOK, SeekInv, SeekTypeOK
    <2> QED BY <2>1, <2>2, ClampedNat DEF SeekInv, SeekTypeOK
  <1>3. SeekTypeOK'
    BY <1>1, <1>2 DEF SeekInv, SeekTypeOK, bounds
  <1>4. BoundsHoldTarget'
    BY <1>1, BoundsStay DEF SeekInv, Searching
  <1> QED BY <1>1, <1>3, <1>4, StreamStays DEF SeekInv, FindsTarget

\* A search that is given up keeps the types.
LEMMA GiveUpInv ==
    ASSUME SeekInv, Searching, GiveUp, pos' = pos, m_finished' \in BOOLEAN,
           callbackFailed' \in BOOLEAN, FindsTarget'
    PROVE  SeekInv'
  <1>1. /\ seek' = "failed"
        /\ UNCHANGED <<stream, target_sample, bounds, approx_bytes_per_frame,
                       first_seek, landed>>
    BY DEF GiveUp
  <1>2. SeekTypeOK'
    BY <1>1 DEF SeekInv, SeekTypeOK, bounds
  <1>3. BoundsHoldTarget'
    BY <1>1 DEF BoundsHoldTarget, Searching
  <1> QED BY <1>1, <1>2, <1>3, StreamStays DEF SeekInv, Searching

LEMMA BoundsCrossInv ==
    ASSUME SeekInv, BoundsCross
    PROVE  SeekInv'
  <1>1. FindsTarget'
    BY BoundsDoNotCross
    DEF SeekInv, StreamInv, FindsTarget, BoundsCross, GiveUp, Searching, Indices
  <1>2. /\ m_finished' \in BOOLEAN /\ callbackFailed' \in BOOLEAN
        /\ pos' = pos /\ GiveUp /\ Searching
    BY DEF BoundsCross, SeekInv, SeekTypeOK, Searching
  <1> QED BY <1>1, <1>2, GiveUpInv

LEMMA CallbackFailsInv ==
    ASSUME SeekInv, CallbackFails
    PROVE  SeekInv'
  <1>1. FindsTarget'
    BY DEF FindsTarget, CallbackFails
  <1>2. /\ m_finished' \in BOOLEAN /\ callbackFailed' \in BOOLEAN
        /\ pos' = pos /\ GiveUp /\ Searching
    BY DEF CallbackFails, SeekInv, SeekTypeOK, Searching
  <1> QED BY <1>1, <1>2, GiveUpInv

LEMMA ProbeMeetsTailInv ==
    ASSUME SeekInv, ProbeMeetsTail
    PROVE  SeekInv'
  <1>1. FindsTarget'
    BY DEF FindsTarget, ProbeMeetsTail
  <1>2. /\ m_finished' \in BOOLEAN /\ callbackFailed' \in BOOLEAN
        /\ pos' = pos /\ GiveUp /\ Searching
    BY DEF ProbeMeetsTail, SeekInv, SeekTypeOK, Searching
  <1> QED BY <1>1, <1>2, GiveUpInv

\* A probe that goes back leaves the bounds as they are.
LEMMA GoBackInv ==
    ASSUME SeekInv, seek = "probe", GoBack, m_finished' \in BOOLEAN, FindsTarget'
    PROVE  SeekInv'
  <1>1. /\ seek' \in {"aim", "failed"}
        /\ UNCHANGED <<stream, target_sample, bounds, pos, first_seek, landed,
                       callbackFailed>>
    BY DEF GoBack
  <1>2. approx_bytes_per_frame' \in Nat
    BY DEF GoBack, Further, SeekInv, SeekTypeOK
  <1>3. SeekTypeOK'
    BY <1>1, <1>2 DEF SeekInv, SeekTypeOK, bounds
  <1>4. BoundsHoldTarget'
    BY <1>1, BoundsStay DEF SeekInv, Searching
  <1> QED BY <1>1, <1>3, <1>4, StreamStays DEF SeekInv

LEMMA ProbeMeetsEndInv ==
    ASSUME SeekInv, ProbeMeetsEnd
    PROVE  SeekInv'
  BY GoBackInv DEF ProbeMeetsEnd, FindsTarget

LEMMA OvershootInv ==
    ASSUME SeekInv, NEW i \in Indices, Overshoot(i)
    PROVE  SeekInv'
  <1>1. seek = "probe" /\ GoBack /\ m_finished' \in BOOLEAN
    BY DEF Overshoot, Fetches
  <1>2. FindsTarget'
    <2>1. /\ UNCHANGED <<stream, target_sample>>
          /\ seek' = "failed" => pos = lower_bound
      BY <1>1 DEF GoBack
    <2> QED BY <2>1, LowestProbeHits
            DEF SeekInv, StreamInv, FindsTarget, Indices
  <1> QED BY <1>1, <1>2, GoBackInv

LEMMA HitInv ==
    ASSUME SeekInv, NEW i \in Indices, Hit(i)
    PROVE  SeekInv'
  <1>1. /\ seek' = "found" /\ landed' = i /\ seek = "probe"
        /\ m_finished' \in BOOLEAN
        /\ UNCHANGED <<stream, target_sample, bounds, approx_bytes_per_frame,
                       pos, first_seek, callbackFailed>>
    BY DEF Hit, Fetches
  <1>2. SeekTypeOK'
    BY <1>1 DEF SeekInv, SeekTypeOK, bounds, Indices
  <1> QED BY <1>1, <1>2, StreamStays
          DEF SeekInv, BoundsHoldTarget, FindsTarget, Searching

LEMMA AboveInv ==
    ASSUME SeekInv, NEW i \in Indices, Above(i)
    PROVE  SeekInv'
  <1>1. /\ stream \in Streams /\ seek' = "aim" /\ seek = "probe"
        /\ m_finished' \in BOOLEAN /\ stream' = stream
        /\ stream.frames[i].first >= pos
        /\ UNCHANGED <<target_sample, lower_bound, lower_bound_sample, pos,
                       landed, callbackFailed>>
        /\ upper_bound' = stream.frames[i].end
        /\ upper_bound_sample' = After(stream.frames[i])
        /\ approx_bytes_per_frame'
              = (2 * (stream.frames[i].end - pos)) \div 3 + 16
        /\ first_seek' = FALSE
    BY DEF Above, Fetches, IsNext, SeekInv, StreamInv
  <1>2. After(stream.frames[i]) \in Nat /\ stream.frames[i].end \in Nat
        /\ stream.frames[i].end - pos \in Nat
    <2>1. /\ After(stream.frames[i])
                = stream.frames[i].sample + stream.frames[i].length
          /\ stream.frames[i].first < stream.frames[i].end
      BY <1>1, FramesOrdered
    <2>2. /\ stream.frames[i].sample \in Nat /\ stream.frames[i].length \in Nat
          /\ stream.frames[i].first \in Nat /\ stream.frames[i].end \in Nat
      BY <1>1, FrameNumbers
    <2>3. pos \in Nat /\ stream.frames[i].first >= pos
      BY <1>1 DEF SeekInv, SeekTypeOK
    <2> QED BY <2>1, <2>2, <2>3
  <1>3. (2 * (stream.frames[i].end - pos)) \div 3 + 16 \in Nat
    BY <1>2
  <1>4. SeekTypeOK'
    BY <1>1, <1>2, <1>3 DEF SeekInv, SeekTypeOK
  <1>5. BoundsHoldTarget'
    BY <1>1, AboveHoldsTarget DEF SeekInv
  <1> QED BY <1>1, <1>4, <1>5, StreamStays DEF SeekInv, FindsTarget

LEMMA BelowInv ==
    ASSUME SeekInv, NEW i \in Indices, Below(i)
    PROVE  SeekInv'
  <1>1. /\ stream \in Streams /\ seek' = "aim" /\ seek = "probe"
        /\ m_finished' \in BOOLEAN /\ stream' = stream
        /\ stream.frames[i].first >= pos
        /\ UNCHANGED <<target_sample, upper_bound, upper_bound_sample, pos,
                       landed, callbackFailed>>
        /\ lower_bound' = stream.frames[i].end
        /\ lower_bound_sample' = After(stream.frames[i])
        /\ approx_bytes_per_frame'
              = (2 * (stream.frames[i].end - pos)) \div 3 + 16
        /\ first_seek' = FALSE
    BY DEF Below, Fetches, IsNext, SeekInv, StreamInv
  <1>2. After(stream.frames[i]) \in Nat /\ stream.frames[i].end \in Nat
        /\ stream.frames[i].end - pos \in Nat
    <2>1. /\ After(stream.frames[i])
                = stream.frames[i].sample + stream.frames[i].length
          /\ stream.frames[i].first < stream.frames[i].end
      BY <1>1, FramesOrdered
    <2>2. /\ stream.frames[i].sample \in Nat /\ stream.frames[i].length \in Nat
          /\ stream.frames[i].first \in Nat /\ stream.frames[i].end \in Nat
      BY <1>1, FrameNumbers
    <2>3. pos \in Nat /\ stream.frames[i].first >= pos
      BY <1>1 DEF SeekInv, SeekTypeOK
    <2> QED BY <2>1, <2>2, <2>3
  <1>3. (2 * (stream.frames[i].end - pos)) \div 3 + 16 \in Nat
    BY <1>2
  <1>4. SeekTypeOK'
    BY <1>1, <1>2, <1>3 DEF SeekInv, SeekTypeOK
  <1>5. BoundsHoldTarget'
    BY <1>1, BelowHoldsTarget DEF SeekInv
  <1> QED BY <1>1, <1>4, <1>5, StreamStays DEF SeekInv, FindsTarget

LEMMA SeekNextInv == SeekInv /\ [SeekNext]_seekVars => SeekInv'
  <1> SUFFICES ASSUME SeekInv, [SeekNext]_seekVars PROVE SeekInv'
    OBVIOUS
  <1>1. CASE UNCHANGED seekVars
    BY <1>1 DEF SeekInv, SeekTypeOK, StreamInv, BoundsHoldTarget, FindsTarget,
                Searching, seekVars, bounds, Indices
  <1>2. ASSUME NEW s \in Streams, Open(s) PROVE SeekInv'
    BY <1>2, OpenInv
  <1>3. ASSUME NEW target \in Nat, SeekAbsolute(target) PROVE SeekInv'
    BY <1>3, SeekAbsoluteInv
  <1>4. CASE SeekStep
    BY <1>4, AimInv, BoundsCrossInv, CallbackFailsInv, ProbeMeetsEndInv,
       ProbeMeetsTailInv, HitInv, OvershootInv, AboveInv, BelowInv DEF SeekStep
  <1> QED BY <1>1, <1>2, <1>3, <1>4 DEF SeekNext

-----------------------------------------------------------------------------
(***************************************************************************)
(* Theorems.                                                               *)
(***************************************************************************)

\* The inductive invariant of the seek.
THEOREM SeekInvariance == SeekSpec => []SeekInv
  BY SeekInitInv, SeekNextInv, PTL DEF SeekSpec

\* The seek's variables keep their types; no probe is at a negative position
\* (stream_decoder.c:3099-3111).
THEOREM SeekTypeCorrectness == SeekSpec => []SeekTypeOK
  <1>1. SeekInv => SeekTypeOK
    BY DEF SeekInv
  <1> QED BY <1>1, SeekInvariance, PTL

\* Whatever the file and the target, the bounds stay around the target's frame
\* (stream_decoder.c:3154-3181).
THEOREM BoundsAroundTarget == SeekSpec => []BoundsHoldTarget
  <1>1. SeekInv => BoundsHoldTarget
    BY DEF SeekInv
  <1> QED BY <1>1, SeekInvariance, PTL

\* A seek that has found its target is in a frame that holds it.
LandsInFrame ==
    seek = "found" => /\ landed \in Indices
                      /\ Holds(stream.frames[landed], target_sample)

\* Only the probe that hits the target ends a seek in success.
LEMMA LandsInv ==
    ASSUME LandsInFrame, [SeekNext]_seekVars
    PROVE  LandsInFrame'
  <1>1. CASE UNCHANGED seekVars
    BY <1>1 DEF LandsInFrame, seekVars, Indices
  <1>2. ASSUME NEW t \in Streams, Open(t) PROVE LandsInFrame'
    BY <1>2 DEF Open, LandsInFrame
  <1>3. ASSUME NEW target \in Nat, SeekAbsolute(target) PROVE LandsInFrame'
    BY <1>3 DEF SeekAbsolute, LandsInFrame
  <1>4. ASSUME NEW i \in Indices, Hit(i) PROVE LandsInFrame'
    BY <1>4 DEF Hit, HoldsTarget, LandsInFrame, Indices
  <1>5. CASE Aim \/ BoundsCross \/ CallbackFails \/ ProbeMeetsEnd
             \/ ProbeMeetsTail
             \/ \E i \in Indices : Overshoot(i) \/ Above(i) \/ Below(i)
    BY <1>5 DEF Aim, BoundsCross, CallbackFails, ProbeMeetsEnd, ProbeMeetsTail,
                Overshoot, Above, Below, GiveUp, GoBack, LandsInFrame
  <1> QED BY <1>1, <1>2, <1>3, <1>4, <1>5 DEF SeekNext, SeekStep

\* A seek that succeeds is in the one frame of the file that holds the target.
LandsOnTarget ==
    seek = "found" =>
       /\ landed \in Indices
       /\ \A i \in Indices : Holds(stream.frames[i], target_sample) <=> i = landed

\* Whatever the file and the target, a seek that succeeds ends in the frame
\* that holds the target, and in no other; and in a finished file, one for a
\* sample that is there fails only if the end of the file was met or the file
\* could not be sought in (stream_decoder.c:2912-2943, 3082-3184;
\* FLACStreamDecoder.cpp:316).
THEOREM TargetIsFound == SeekSpec => [](LandsOnTarget /\ FindsTarget)
  <1>1. SeekInit => LandsInFrame
    BY DEF SeekInit, LandsInFrame
  <1>2. SeekInv => FindsTarget
    BY DEF SeekInv
  <1>3. ASSUME SeekInv, LandsInFrame PROVE LandsOnTarget
    <2> SUFFICES ASSUME seek = "found", NEW i \in Indices,
                        Holds(stream.frames[i], target_sample)
                 PROVE  i = landed
      BY <1>3 DEF LandsOnTarget, LandsInFrame
    <2>1. landed \in Indices /\ Holds(stream.frames[landed], target_sample)
      BY <1>3 DEF LandsInFrame
    <2>2. \A a, b \in Indices :
             a < b => After(stream.frames[a]) <= stream.frames[b].sample
      BY <1>3 DEF SeekInv, StreamInv, Streams, FramesFollow, Indices
    <2>3. \A a \in Indices : /\ stream.frames[a].sample \in Nat
                             /\ After(stream.frames[a]) \in Nat
      <3>1. \A a \in Indices : stream.frames[a] \in FileFrame
        BY <1>3 DEF SeekInv, SeekTypeOK, Indices
      <3> QED BY <3>1 DEF FileFrame, After
    <2>4. target_sample \in Nat /\ i \in Int /\ landed \in Int
      BY <1>3, <2>1 DEF SeekInv, SeekTypeOK, Indices
    <2> QED BY <2>1, <2>2, <2>3, <2>4 DEF Holds
  <1> QED BY <1>1, <1>2, <1>3, LandsInv, SeekInvariance, PTL DEF SeekSpec

-----------------------------------------------------------------------------
(***************************************************************************)
(* Why a seek ends: what each turn of its loop makes smaller.              *)
(***************************************************************************)

\* How many samples the search may still be narrowed by.
Span == upper_bound_sample + (target_sample - lower_bound_sample)

\* How much further back the next probe can still be told to go.
Room == IF approx_bytes_per_frame >= upper_bound - lower_bound THEN 0
        ELSE upper_bound - lower_bound - approx_bytes_per_frame

\* A step of the search gets it closer to its end: the one frame that may lie
\* beyond the bound has been met, or the bounds are closer, or there is less
\* room to go back, or the next probe is on its way.
Closer ==
    \/ first_seek /\ ~first_seek'
    \/ /\ first_seek' = first_seek
       /\ \/ Span' < Span
          \/ Span' = Span /\ Room' < Room
          \/ Span' = Span /\ Room' = Room /\ seek = "aim" /\ seek' = "probe"

\* The target is not beyond the bound.  A probe is not below the lower one,
\* and without room to go back it is there.
ProgressInv ==
    /\ Searching => target_sample <= upper_bound_sample
    /\ seek = "probe" => /\ lower_bound <= pos
                         /\ Room = 0 => pos = lower_bound

LEMMA Quotient ==
    ASSUME NEW n \in Nat, NEW d \in Nat \ {0}, NEW u \in Nat, n <= d * u
    PROVE  n \div d \in Nat /\ n \div d <= u
  OBVIOUS

\* Neither measure is negative.
LEMMA Measures ==
    ASSUME SeekInv, Searching
    PROVE  Span \in Nat /\ Room \in Nat
  BY DEF SeekInv, SeekTypeOK, BoundsHoldTarget, Span, Room

\* The estimate of a position stays within the bounds.
LEMMA InterpolatedWithin ==
    ASSUME SeekInv, ProgressInv, seek = "aim", BoundsOK, NEW p \in Interpolated
    PROVE  p \in Int /\ p <= upper_bound - lower_bound
  <1> DEFINE s == target_sample - lower_bound_sample
             u == upper_bound - lower_bound
             d == upper_bound_sample - lower_bound_sample
             n == s * u
  <1>1. s \in Nat /\ u \in Nat /\ d \in Nat \ {0} /\ s <= d
    BY DEF SeekInv, SeekTypeOK, BoundsHoldTarget, BoundsOK, ProgressInv, Searching
  <1>2. p \in {n \div d, n \div d - 1}
    BY DEF Interpolated
  <1> HIDE DEF s, u, d
  <1>3. n \in Nat /\ n <= d * u
    BY <1>1
  <1> HIDE DEF n
  <1>4. n \div d \in Nat /\ n \div d <= u
    BY <1>1, <1>3, Quotient
  <1> DEFINE q == n \div d
  <1> HIDE DEF q
  <1>5. q \in Nat /\ q <= u /\ p \in {q, q - 1}
    BY <1>2, <1>4 DEF q
  <1>6. p \in Int /\ p <= u
    BY <1>1, <1>5
  <1> QED BY <1>6 DEF u

LEMMA AimProgress ==
    ASSUME SeekInv, ProgressInv, Aim
    PROVE  ProgressInv' /\ Closer
  <1>1. /\ seek = "aim" /\ BoundsOK /\ seek' = "probe"
        /\ UNCHANGED <<target_sample, lower_bound, upper_bound,
                       lower_bound_sample, upper_bound_sample,
                       approx_bytes_per_frame, first_seek>>
    BY DEF Aim, bounds
  <1>2. PICK p \in Interpolated :
           pos' = Clamped(lower_bound + p - approx_bytes_per_frame)
    BY DEF Aim
  <1>3. p \in Int /\ p <= upper_bound - lower_bound
    BY <1>1, InterpolatedWithin
  <1>4. lower_bound <= pos' /\ (Room = 0 => pos' = lower_bound)
    <2>1. /\ lower_bound \in Nat /\ upper_bound \in Nat
          /\ approx_bytes_per_frame \in Nat /\ lower_bound <= upper_bound
      BY <1>1 DEF SeekInv, SeekTypeOK, BoundsOK
    <2>2. Room = 0 => approx_bytes_per_frame >= upper_bound - lower_bound
      BY <2>1 DEF Room
    <2> QED BY <1>2, <1>3, <2>1, <2>2 DEF Clamped
  <1>5. Span' = Span /\ Room' = Room
    BY <1>1 DEF Span, Room
  <1>6. ProgressInv'
    BY <1>1, <1>4, <1>5 DEF ProgressInv, Searching
  <1> QED BY <1>1, <1>5, <1>6 DEF Closer

\* Going back takes room, and there is some, or the search is given up.
LEMMA GoBackProgress ==
    ASSUME SeekInv, ProgressInv, seek = "probe", GoBack
    PROVE  ProgressInv' /\ (Searching' => Closer)
  <1>1. /\ seek' \in {"aim", "failed"}
        /\ UNCHANGED <<target_sample, lower_bound, upper_bound,
                       lower_bound_sample, upper_bound_sample, first_seek>>
    BY DEF GoBack, bounds
  <1>2. ProgressInv'
    BY <1>1 DEF ProgressInv, Searching
  <1>3. ASSUME Searching'
        PROVE  Closer
    <2>1. pos # lower_bound /\ approx_bytes_per_frame' = Further
      BY <1>3 DEF GoBack, Searching
    <2>2. /\ lower_bound \in Nat /\ upper_bound \in Nat
          /\ approx_bytes_per_frame \in Nat
      BY DEF SeekInv, SeekTypeOK
    <2>3. Further \in Nat /\ Further > approx_bytes_per_frame
      BY <2>2 DEF Further
    <2>4. Room # 0
      BY <2>1 DEF ProgressInv
    <2>5. Room' < Room
      BY <1>1, <2>1, <2>2, <2>3, <2>4 DEF Room
    <2>6. Span' = Span
      BY <1>1 DEF Span
    <2> QED BY <1>1, <2>5, <2>6 DEF Closer
  <1> QED BY <1>2, <1>3

LEMMA AboveProgress ==
    ASSUME SeekInv, ProgressInv, NEW i \in Indices, Above(i)
    PROVE  ProgressInv' /\ Closer
  <1> DEFINE f == stream.frames[i]
  <1>1. /\ f.sample \in Nat /\ f.length \in Nat /\ f.length > 0
    BY FrameNumbers DEF SeekInv, StreamInv
  <1>2. /\ target_sample \in Nat /\ lower_bound_sample \in Nat
        /\ upper_bound_sample \in Nat /\ first_seek \in BOOLEAN
    BY DEF SeekInv, SeekTypeOK
  <1>3. /\ upper_bound_sample' = After(f) /\ first_seek' = FALSE
        /\ target_sample < f.sample /\ ~TooFar(f) /\ seek' = "aim"
        /\ UNCHANGED <<target_sample, lower_bound_sample>>
    BY DEF Above
  <1>4. After(f) = f.sample + f.length
    BY DEF After
  <1> HIDE DEF f
  <1>5. ProgressInv'
    BY <1>1, <1>2, <1>3, <1>4 DEF ProgressInv, Searching
  <1>6. CASE first_seek
    BY <1>3, <1>5, <1>6 DEF Closer
  <1>7. CASE ~first_seek
    <2>1. After(f) < upper_bound_sample
      BY <1>1, <1>2, <1>3, <1>4, <1>7 DEF TooFar
    <2>2. Span' < Span
      BY <1>1, <1>2, <1>3, <1>4, <2>1 DEF Span
    <2> QED BY <1>2, <1>3, <1>5, <1>7, <2>2 DEF Closer
  <1> QED BY <1>2, <1>6, <1>7

\* A frame below the target lies above the lower bound, which it raises.
LEMMA BelowProgress ==
    ASSUME SeekInv, ProgressInv, NEW i \in Indices, Below(i)
    PROVE  ProgressInv' /\ Closer
  <1> DEFINE f == stream.frames[i]
  <1>1. /\ f.sample \in Nat /\ f.length \in Nat /\ f.length > 0
        /\ f.first \in Nat
    BY FrameNumbers DEF SeekInv, StreamInv
  <1>2. /\ target_sample \in Nat /\ lower_bound_sample \in Nat
        /\ upper_bound_sample \in Nat /\ first_seek \in BOOLEAN
        /\ lower_bound \in Nat /\ pos \in Nat
    BY DEF SeekInv, SeekTypeOK
  <1>3. /\ lower_bound_sample' = After(f) /\ first_seek' = FALSE
        /\ f.first >= pos /\ seek = "probe" /\ seek' = "aim"
        /\ UNCHANGED <<target_sample, upper_bound_sample>>
    BY DEF Below, IsNext
  <1>4. After(f) = f.sample + f.length
    BY DEF After
  <1>5. lower_bound_sample <= f.sample
    <2>1. lower_bound <= pos
      BY <1>3 DEF ProgressInv
    <2>2. f.first >= lower_bound
      BY <1>1, <1>2, <1>3, <2>1
    <2> QED BY <1>3, <2>2 DEF SeekInv, BoundsHoldTarget, Searching
  <1> HIDE DEF f
  <1>6. ProgressInv'
    BY <1>3 DEF ProgressInv, Searching
  <1>7. Span' < Span
    BY <1>1, <1>2, <1>3, <1>4, <1>5 DEF Span
  <1> QED BY <1>2, <1>3, <1>6, <1>7 DEF Closer

LEMMA StartProgress ==
    ASSUME SeekInv, NEW target \in Nat, SeekAbsolute(target)
    PROVE  ProgressInv'
  <1>1. /\ target_sample' = target /\ seek' = "aim"
        /\ stream.total = 0 \/ target < stream.total
        /\ upper_bound_sample' = IF stream.total > 0 THEN stream.total
                                 ELSE IF target = 0 THEN 1 ELSE target
    BY DEF SeekAbsolute, StartBounds
  <1>2. stream.total \in Nat
    BY DEF SeekInv, SeekTypeOK
  <1>3. target_sample' <= upper_bound_sample'
    BY <1>1, <1>2
  <1> QED BY <1>1, <1>3 DEF ProgressInv

LEMMA SeekStepProgress ==
    ASSUME SeekInv, ProgressInv, SeekStep
    PROVE  ProgressInv' /\ (Searching' => Closer)
  <1>1. CASE Aim
    BY <1>1, AimProgress
  <1>2. CASE BoundsCross \/ CallbackFails \/ ProbeMeetsTail
    <2>1. seek' = "failed"
      BY <1>2 DEF BoundsCross, CallbackFails, ProbeMeetsTail, GiveUp
    <2> QED BY <2>1 DEF ProgressInv, Searching
  <1>3. CASE ProbeMeetsEnd
    BY <1>3, GoBackProgress DEF ProbeMeetsEnd
  <1>4. ASSUME NEW i \in Indices, Hit(i)
        PROVE  ProgressInv' /\ (Searching' => Closer)
    BY <1>4 DEF Hit, ProgressInv, Searching
  <1>5. ASSUME NEW i \in Indices, Overshoot(i)
        PROVE  ProgressInv' /\ (Searching' => Closer)
    BY <1>5, GoBackProgress DEF Overshoot
  <1>6. ASSUME NEW i \in Indices, Above(i) \/ Below(i)
        PROVE  ProgressInv' /\ (Searching' => Closer)
    BY <1>6, AboveProgress, BelowProgress
  <1> QED BY <1>1, <1>2, <1>3, <1>4, <1>5, <1>6 DEF SeekStep

LEMMA ProgressNext ==
    SeekInv /\ ProgressInv /\ [SeekNext]_seekVars
        => /\ ProgressInv'
           /\ [Searching /\ Searching' => Closer]_seekVars
  <1> SUFFICES ASSUME SeekInv, ProgressInv, [SeekNext]_seekVars
               PROVE  /\ ProgressInv'
                      /\ [Searching /\ Searching' => Closer]_seekVars
    OBVIOUS
  <1>1. CASE UNCHANGED seekVars
    BY <1>1 DEF ProgressInv, Room, Searching, seekVars, bounds
  <1>2. ASSUME NEW s \in Streams, Open(s)
        PROVE  ProgressInv' /\ ~Searching'
    BY <1>2 DEF Open, ProgressInv, Searching
  <1>3. ASSUME NEW target \in Nat, SeekAbsolute(target)
        PROVE  ProgressInv' /\ ~Searching
    BY <1>3, StartProgress DEF SeekAbsolute, Searching
  <1> QED BY <1>1, <1>2, <1>3, SeekStepProgress DEF SeekNext

LEMMA ProgressInit == SeekInit => ProgressInv
  BY DEF SeekInit, ProgressInv, Searching

\* Whatever the file and the target, every turn of the search takes it closer
\* to its end, in an order in which numbers cannot get smaller forever: no
\* probe is repeated to no effect, which the doubling of the estimate and the
\* bounds that never move apart are there for (stream_decoder.c:3082-3184).
THEOREM SeekGetsCloser ==
    SeekSpec => /\ [](Searching => Span \in Nat /\ Room \in Nat)
                /\ [][Searching /\ Searching' => Closer]_seekVars
  <1>1. SeekInv => (Searching => Span \in Nat /\ Room \in Nat)
    BY Measures
  <1> QED BY <1>1, SeekInitInv, SeekNextInv, ProgressInit, ProgressNext, PTL
          DEF SeekSpec

-----------------------------------------------------------------------------
(***************************************************************************)
(* The round trip.                                                         *)
(***************************************************************************)

allVars == <<vars, seekVars>>

\* The bytes of the frames: one frame after another.
BytesInOrder ==
    /\ \A i \in 1..Len(frames) :
          /\ MetadataBytes <= frames[i].first
          /\ frames[i].first < frames[i].end
          /\ frames[i].end <= BytesWritten
    /\ \A i, k \in 1..Len(frames) : i < k => frames[i].end <= frames[k].first

\* The file that is played is what the encoder has left, ...
PlaysRecording ==
    seek # "none" => /\ pc \in {"closed", "died"}
                     /\ \E tail \in Nat : stream = Recording(tail)

RInv == IInv /\ BytesInOrder /\ SeekInv /\ PlaysRecording /\ LandsInFrame

-----------------------------------------------------------------------------
(***************************************************************************)
(* The encoder's side.                                                     *)
(***************************************************************************)

\* The places of a frame's bytes are numbers.
LEMMA FramePlaces ==
    ASSUME TypeOK, NEW i \in 1..Len(frames)
    PROVE  /\ frames[i] \in Frame
           /\ frames[i].first \in Nat /\ frames[i].end \in Nat
           /\ frames[i].number \in Nat
  <1>1. frames[i] \in Frame
    BY ElementOfSeq DEF TypeOK
  <1> QED BY <1>1 DEF Frame

LEMMA BytesStay ==
    ASSUME BytesInOrder, UNCHANGED frames
    PROVE  BytesInOrder'
  BY DEF BytesInOrder, BytesWritten

LEMMA WriteFrameBytes ==
    ASSUME IInv, BytesInOrder, NEW bytes \in FrameSizes, WriteFrame(bytes)
    PROVE  BytesInOrder'
  <1> DEFINE F == Len(frames)
             new == [number |-> current_frame_number, samples |-> TheBlock,
                     first |-> BytesWritten, end |-> BytesWritten + bytes]
  <1>1. /\ frames' = Append(frames, new) /\ TypeOK /\ InFrame /\ Collecting
        /\ bytes \in Nat /\ bytes > 0 /\ MetadataBytes \in Nat
    BY LibEncoderAssumption DEF WriteFrame, IInv, NextNumber
  <1>2. BytesWritten \in Nat /\ F \in Nat
    BY <1>1, BytesWrittenNat, LenProperties DEF TypeOK
  <1>3. new.first = BytesWritten /\ new.end = BytesWritten + bytes
    OBVIOUS
  <1>4. new \in Frame
    <2>1. TheBlock \in Seq(Sample) /\ current_frame_number \in Nat
      BY <1>1, TheBlockFacts DEF TypeOK
    <2> QED BY <1>1, <1>2, <2>1 DEF Frame
  <1> HIDE DEF new
  <1>5. /\ Len(frames') = F + 1 /\ frames' # <<>> /\ frames'[F + 1] = new
        /\ \A i \in 1..F : frames'[i] = frames[i]
    BY <1>1, <1>4, AppendProperties DEF TypeOK
  <1>6. BytesWritten' = BytesWritten + bytes
    BY <1>3, <1>5 DEF BytesWritten
  <1>7. MetadataBytes <= BytesWritten
    <2>1. CASE frames = <<>>
      BY <1>1, <2>1 DEF BytesWritten
    <2>2. CASE frames # <<>>
      <3>1. F \in 1..Len(frames)
        BY <1>1, <2>2, EmptySeq DEF TypeOK
      <3>2. /\ MetadataBytes <= frames[F].first
            /\ frames[F].first < frames[F].end
            /\ BytesWritten = frames[F].end
        BY <2>2, <3>1 DEF BytesInOrder, BytesWritten
      <3>3. frames[F].first \in Nat /\ frames[F].end \in Nat
        BY <1>1, <3>1, FramePlaces
      <3> QED BY <1>1, <3>2, <3>3
    <2> QED BY <2>1, <2>2
  <1>8. ASSUME NEW i \in 1..F
        PROVE  /\ MetadataBytes <= frames[i].first
               /\ frames[i].first < frames[i].end
               /\ frames[i].end <= BytesWritten
               /\ frames[i].end \in Nat /\ frames[i].first \in Nat
    BY <1>1, FramePlaces DEF BytesInOrder
  <1>9. ASSUME NEW i \in 1..F, NEW k \in 1..F, i < k
        PROVE  frames[i].end <= frames[k].first
    BY <1>9 DEF BytesInOrder
  <1> HIDE DEF F
  <1>10. ASSUME NEW i \in 1..(F + 1)
         PROVE  /\ MetadataBytes <= frames'[i].first
                /\ frames'[i].first < frames'[i].end
                /\ frames'[i].end <= BytesWritten'
    <2>1. CASE i \in 1..F
      <3>1. frames'[i] = frames[i]
        BY <1>5, <2>1
      <3>2. /\ MetadataBytes <= frames[i].first
            /\ frames[i].first < frames[i].end
            /\ frames[i].end <= BytesWritten
            /\ frames[i].end \in Nat
        BY <1>8, <2>1
      <3>3. frames[i].end <= BytesWritten + bytes
        BY <1>1, <1>2, <3>2
      <3> QED BY <1>6, <3>1, <3>2, <3>3
    <2>2. CASE i = F + 1
      <3>1. /\ frames'[i].first = BytesWritten
            /\ frames'[i].end = BytesWritten + bytes
        BY <1>3, <1>5, <2>2
      <3>2. BytesWritten < BytesWritten + bytes
        BY <1>1, <1>2
      <3>3. BytesWritten + bytes <= BytesWritten'
        BY <1>1, <1>2, <1>6
      <3> QED BY <1>7, <3>1, <3>2, <3>3
    <2>3. i \in 1..F \/ i = F + 1
      BY <1>2
    <2> QED BY <2>1, <2>2, <2>3
  <1>11. ASSUME NEW i \in 1..(F + 1), NEW k \in 1..(F + 1), i < k
         PROVE  frames'[i].end <= frames'[k].first
    <2>1. i \in 1..F
      BY <1>2, <1>11
    <2>2. frames'[i] = frames[i]
      BY <1>5, <2>1
    <2>3. CASE k \in 1..F
      BY <1>5, <1>9, <1>11, <2>1, <2>2, <2>3
    <2>4. CASE k = F + 1
      <3>1. frames'[k].first = BytesWritten
        BY <1>3, <1>5, <2>4
      <3> QED BY <1>8, <2>1, <2>2, <3>1
    <2>5. k \in 1..F \/ k = F + 1
      BY <1>2
    <2> QED BY <2>3, <2>4, <2>5
  <1>12. Len(frames') = F + 1
    BY <1>5
  <1> QED BY <1>10, <1>11, <1>12 DEF BytesInOrder

LEMMA DieBytes ==
    ASSUME IInv, BytesInOrder, NEW n \in 0..Len(frames),
           frames' = SubSeq(frames, 1, n)
    PROVE  BytesInOrder'
  <1>1. TypeOK /\ Len(frames) \in Nat /\ n \in Nat
    BY LenProperties DEF IInv, TypeOK
  <1>2. /\ Len(frames') = n
        /\ \A i \in 1..n : frames'[i] = frames[i]
        /\ frames' \in Seq(Frame)
    BY <1>1, PrefixFacts DEF TypeOK
  <1>3. \A i \in 1..n : i \in 1..Len(frames)
    BY <1>1
  <1>4. ASSUME NEW i \in 1..n PROVE frames'[i].end <= BytesWritten'
    <2>1. n \in 1..n /\ n \in 1..Len(frames) /\ i \in 1..Len(frames)
      BY <1>1
    <2>2. BytesWritten' = frames[n].end
      <3>1. frames' # <<>>
        BY <1>2, <2>1
      <3> QED BY <1>2, <2>1, <3>1 DEF BytesWritten
    <2>3. frames'[i] = frames[i]
      BY <1>2
    <2>4. /\ frames[i].end \in Nat /\ frames[n].end \in Nat
          /\ frames[n].first \in Nat
      BY <1>1, <2>1, FramePlaces
    <2>5. CASE i = n
      BY <2>2, <2>3, <2>4, <2>5
    <2>6. CASE i < n
      <3>1. /\ frames[i].end <= frames[n].first
            /\ frames[n].first < frames[n].end
        BY <2>1, <2>6 DEF BytesInOrder
      <3> QED BY <2>2, <2>3, <2>4, <3>1
    <2> QED BY <1>1, <2>5, <2>6
  <1>5. \A i \in 1..n : /\ MetadataBytes <= frames'[i].first
                        /\ frames'[i].first < frames'[i].end
    BY <1>2, <1>3 DEF BytesInOrder
  <1>6. \A i, k \in 1..n : i < k => frames'[i].end <= frames'[k].first
    BY <1>2, <1>3 DEF BytesInOrder
  <1> QED BY <1>2, <1>4, <1>5, <1>6 DEF BytesInOrder

LEMMA BytesInv ==
    ASSUME IInv, BytesInOrder, [Next]_vars
    PROVE  BytesInOrder'
  <1>1. CASE UNCHANGED frames
    BY <1>1, BytesStay
  <1>2. CASE \E bytes \in FrameSizes : WriteFrame(bytes)
    BY <1>2, WriteFrameBytes
  <1>3. CASE Die
    BY <1>1, <1>3, DieBytes DEF Die
  <1> QED BY <1>1, <1>2, <1>3
      DEF Next, vars, Call, Finish, LibStep, Fill, AllocationFails,
          VerifyFails, FifoUnderflows, WriteFails, UpdateMetadata,
          UpdateFails, Close, file

-----------------------------------------------------------------------------
(***************************************************************************)
(* From one side to the other: what is left is a file one can seek in.     *)
(***************************************************************************)

\* Frames of one length: those before another end where it starts at most.
LEMMA Multiples ==
    ASSUME NEW a \in Nat, NEW b \in Nat, NEW c \in Nat, a < b
    PROVE  a * c + c <= b * c
  <1>1. PICK d \in Nat : b = a + 1 + d
    <2>1. b - a - 1 \in Nat /\ b = a + 1 + (b - a - 1)
      OBVIOUS
    <2> QED BY <2>1
  <1>2. b * c = a * c + c + d * c
    BY <1>1
  <1>3. d * c \in Nat /\ a * c \in Nat
    BY <1>1
  <1> QED BY <1>2, <1>3

\* The frame the decoder finds, in numbers.
LEMMA FoundFacts ==
    ASSUME IInv, BytesInOrder, NEW i \in 1..Len(frames)
    PROVE  /\ Found(frames[i]) \in FileFrame
           /\ Found(frames[i]).sample = (i - 1) * Block
           /\ Found(frames[i]).length = Len(frames[i].samples)
           /\ Found(frames[i]).first = frames[i].first
           /\ Found(frames[i]).end = frames[i].end
           /\ After(Found(frames[i])) = (i - 1) * Block + Len(frames[i].samples)
           /\ (i - 1) * Block \in Nat
           /\ Len(frames[i].samples) \in 1..Block
           /\ i < Len(frames) => Len(frames[i].samples) = Block
           /\ frames[i].number = i - 1
  <1>1. /\ frames[i].number = i - 1
        /\ Len(frames[i].samples) \in 1..Block
        /\ i < Len(frames) => Len(frames[i].samples) = Block
    BY DEF IInv, FramesInv, NumbersGivePositions
  <1>2. frames[i].first \in Nat /\ frames[i].end \in Nat /\ Block \in Nat
    BY FramePlaces, LibEncoderAssumption DEF IInv
  <1>3. i - 1 \in Nat
    OBVIOUS
  <1>4. (i - 1) * Block \in Nat
    BY <1>2, <1>3
  <1>5. Found(frames[i]) = [sample |-> (i - 1) * Block,
                            length |-> Len(frames[i].samples),
                            first |-> frames[i].first, end |-> frames[i].end]
    BY <1>1 DEF Found
  <1>6. Len(frames[i].samples) \in Nat \ {0}
    BY <1>1, <1>2
  <1>7. Found(frames[i]) \in FileFrame
    BY <1>2, <1>4, <1>5, <1>6 DEF FileFrame
  <1> QED BY <1>1, <1>4, <1>5, <1>7 DEF After

\* Whatever the encoder leaves, in whatever way it ends, is a file whose
\* frames follow one another, and whose total counts its samples.
LEMMA RecordingIsStream ==
    ASSUME IInv, BytesInOrder, NEW tail \in Nat, ~torn => tail = 0
    PROVE  Recording(tail) \in Streams
  <1> DEFINE F == Len(frames)
             s == Recording(tail)
             found == [i \in DOMAIN frames |-> Found(frames[i])]
  <1>1. /\ F \in Nat /\ DOMAIN frames = 1..F /\ Block \in Nat
        /\ frames \in Seq(Frame)
        /\ MetadataBytes = first_frame_offset /\ MetadataBytes \in Nat
    BY LenProperties, LibEncoderAssumption, RoundTripAssumption
    DEF IInv, TypeOK
  <1>2. /\ found \in Seq(FileFrame) /\ Len(found) = F
        /\ \A i \in 1..F : found[i] = Found(frames[i])
    <2>1. \A i \in 1..F : Found(frames[i]) \in FileFrame
      BY FoundFacts
    <2>2. found \in [1..F -> FileFrame]
      BY <1>1, <2>1
    <2> QED BY <1>1, <2>2
  <1>3. /\ s.frames = found /\ s.tail = tail /\ s.total = header.total
        /\ s \in [frames : Seq(FileFrame), tail : Nat, total : Nat,
                  min : Nat, max : Nat]
    <2>1. /\ header.total \in Nat /\ header.sizes.min \in Nat
          /\ header.sizes.max \in Nat
      BY DEF IInv, TypeOK
    <2> HIDE DEF found
    <2> QED BY <1>2, <2>1 DEF Recording, found
  <1>4. FramesEnd(s) = BytesWritten
    <2>1. CASE frames = <<>>
      <3>1. F = 0
        BY <2>1
      <3>2. found = <<>>
        BY <1>2, <3>1, EmptySeq
      <3> QED BY <1>1, <1>3, <2>1, <3>2 DEF FramesEnd, BytesWritten
    <2>2. CASE frames # <<>>
      <3>1. F \in 1..F
        BY <1>1, <2>2, EmptySeq
      <3>2. found # <<>>
        BY <1>2, <3>1
      <3>3. found[F].end = frames[F].end
        BY <1>2, <3>1, FoundFacts
      <3> QED BY <1>2, <1>3, <2>2, <3>2, <3>3 DEF FramesEnd, BytesWritten
    <2> QED BY <2>1, <2>2
  <1> HIDE DEF s, found
  <1>5. FramesFollow(s)
    <2>1. ASSUME NEW i \in 1..F
          PROVE  /\ first_frame_offset <= s.frames[i].first
                 /\ s.frames[i].first < s.frames[i].end
                 /\ s.frames[i].end <= FramesEnd(s)
      <3>1. /\ s.frames[i].first = frames[i].first
            /\ s.frames[i].end = frames[i].end
        BY <1>2, <1>3, FoundFacts
      <3>2. /\ MetadataBytes <= frames[i].first
            /\ frames[i].first < frames[i].end
            /\ frames[i].end <= BytesWritten
        BY DEF BytesInOrder
      <3> QED BY <1>1, <1>4, <3>1, <3>2
    <2>2. ASSUME NEW i \in 1..F, NEW k \in 1..F, i < k
          PROVE  /\ s.frames[i].end <= s.frames[k].first
                 /\ After(s.frames[i]) <= s.frames[k].sample
      <3>1. /\ s.frames[i] = Found(frames[i]) /\ s.frames[k] = Found(frames[k])
        BY <1>2, <1>3
      <3>2. frames[i].end <= frames[k].first
        BY <2>2 DEF BytesInOrder
      <3>3. s.frames[i].end <= s.frames[k].first
        BY <3>1, <3>2, FoundFacts
      <3>4. After(s.frames[i]) = (i - 1) * Block + Block
        <4>1. i < F
          BY <1>1, <2>2
        <4> QED BY <3>1, <4>1, FoundFacts
      <3>5. s.frames[k].sample = (k - 1) * Block
        BY <3>1, FoundFacts
      <3>6. (i - 1) * Block + Block <= (k - 1) * Block
        <4>1. i - 1 \in Nat /\ k - 1 \in Nat /\ i - 1 < k - 1
          BY <1>1, <2>2
        <4> QED BY <1>1, <4>1, Multiples
      <3> QED BY <3>3, <3>4, <3>5, <3>6
    <2>3. Len(s.frames) = F
      BY <1>2, <1>3
    <2> HIDE DEF F
    <2> QED BY <2>1, <2>2, <2>3 DEF FramesFollow
  <1>6. TotalCounts(s)
    <2> SUFFICES ASSUME s.total > 0 PROVE TotalCounts(s)
      BY DEF TotalCounts
    <2>1. header.total # 0
      BY <1>3 DEF IInv, TypeOK
    <2>2. ~torn /\ header.total = given /\ SamplesInFile = given
      BY <2>1 DEF IInv, HeaderInv, TotalIsTrue
    <2>3. s.tail = 0
      BY <1>3, <2>2
    <2>4. ASSUME NEW i \in 1..F PROVE After(s.frames[i]) <= s.total
      <3>1. frames # <<>> /\ F \in 1..F
        BY <1>1, <2>4
      <3>2. s.total = (F - 1) * Block + Len(frames[F].samples)
        BY <1>3, <2>2, <3>1 DEF SamplesInFile
      <3>3. After(s.frames[i]) = (i - 1) * Block + Len(frames[i].samples)
        BY <1>2, <1>3, FoundFacts
      <3>4. /\ Len(frames[F].samples) \in Nat
            /\ (F - 1) * Block \in Nat /\ (i - 1) * Block \in Nat
        BY <1>1, <3>1, FoundFacts
      <3>5. CASE i = F
        BY <3>2, <3>3, <3>4, <3>5
      <3>6. CASE i < F
        <4>1. Len(frames[i].samples) = Block
          BY <3>6, FoundFacts
        <4>2. (i - 1) * Block + Block <= (F - 1) * Block
          <5>1. i - 1 \in Nat /\ F - 1 \in Nat /\ i - 1 < F - 1
            BY <1>1, <3>6
          <5> QED BY <1>1, <5>1, Multiples
        <4> DEFINE below == (i - 1) * Block
                   above == (F - 1) * Block
                   last == Len(frames[F].samples)
        <4>3. /\ below \in Nat /\ above \in Nat /\ last \in Nat
              /\ Block \in Nat /\ below + Block <= above
          BY <1>1, <3>4, <4>2
        <4>4. After(s.frames[i]) = below + Block /\ s.total = above + last
          BY <3>2, <3>3, <4>1
        <4> HIDE DEF below, above, last
        <4> QED BY <4>3, <4>4
      <3>7. i = F \/ i < F
        <4>1. F \in Nat
          BY <1>1
        <4> HIDE DEF F
        <4> QED BY <2>4, <4>1
      <3> QED BY <3>5, <3>6, <3>7
    <2>5. Len(s.frames) = F
      BY <1>2, <1>3
    <2> QED BY <2>3, <2>4, <2>5 DEF TotalCounts
  <1> QED BY <1>3, <1>5, <1>6 DEF Streams, s

-----------------------------------------------------------------------------
(***************************************************************************)
(* The seek's side, and both together.                                     *)
(***************************************************************************)

LEMMA RInit == RoundTripInit => RInv
  <1> SUFFICES ASSUME RoundTripInit PROVE RInv
    OBVIOUS
  <1>1. IInv /\ SeekInv
    BY InitInv, SeekInitInv DEF RoundTripInit
  <1>2. Len(frames) = 0 /\ seek = "none"
    BY DEF RoundTripInit, Init, SeekInit
  <1>3. BytesInOrder /\ PlaysRecording /\ LandsInFrame
    BY <1>2 DEF BytesInOrder, PlaysRecording, LandsInFrame
  <1> QED BY <1>1, <1>3 DEF RInv

\* A step of both is a step of each side or leaves it alone; the file does
\* not change once it is played.
LEMMA StepOfEach ==
    ASSUME RInv, [RoundTripNext]_allVars
    PROVE  [Next]_vars /\ [SeekNext]_seekVars
  <1>1. CASE UNCHANGED allVars
    BY <1>1 DEF allVars
  <1>2. CASE Next /\ UNCHANGED seekVars
    BY <1>2
  <1>3. CASE Play
    <2>1. PICK tail \in (IF torn THEN TailBytes ELSE {0}) :
             Open(Recording(tail))
      BY <1>3 DEF Play
    <2>2. tail \in Nat /\ (~torn => tail = 0)
      BY <2>1, RoundTripAssumption
    <2>3. Recording(tail) \in Streams
      BY <2>2, RecordingIsStream DEF RInv
    <2> QED BY <1>3, <2>1, <2>3 DEF Play, SeekNext
  <1>4. CASE (\E target \in 0..(MaxSamples - 1) : SeekAbsolute(target))
             /\ UNCHANGED vars
    BY <1>4 DEF SeekNext
  <1>5. CASE SeekStep /\ UNCHANGED vars
    BY <1>5 DEF SeekNext
  <1> QED BY <1>1, <1>2, <1>3, <1>4, <1>5 DEF RoundTripNext

LEMMA EncoderHasEnded ==
    ASSUME pc \in {"closed", "died"}, Next
    PROVE  FALSE
  BY DEF Next, Call, Finish, LibStep, Fill, AllocationFails, VerifyFails,
         FifoUnderflows, WriteFails, WriteFrame, InFrame, UpdateMetadata,
         UpdateFails, Close, Die

LEMMA PlaysInv ==
    ASSUME RInv, [RoundTripNext]_allVars
    PROVE  PlaysRecording'
  <1>1. ASSUME UNCHANGED <<frames, header>>
        PROVE  \A tail \in Nat : Recording(tail)' = Recording(tail)
    BY <1>1 DEF Recording
  <1>2. CASE UNCHANGED allVars
    <2>1. UNCHANGED <<pc, seek, stream, frames, header>>
      BY <1>2 DEF allVars, vars, seekVars, file
    <2> QED BY <1>1, <2>1 DEF RInv, PlaysRecording
  <1>3. CASE Next /\ UNCHANGED seekVars
    <2>1. UNCHANGED seek
      BY <1>3 DEF seekVars
    <2>2. seek = "none"
      BY <1>3, EncoderHasEnded DEF RInv, PlaysRecording
    <2> QED BY <2>1, <2>2 DEF PlaysRecording
  <1>4. CASE Play
    <2>1. PICK tail \in (IF torn THEN TailBytes ELSE {0}) :
             Open(Recording(tail))
      BY <1>4 DEF Play
    <2>2. tail \in Nat
      BY <2>1, RoundTripAssumption
    <2>3. /\ pc \in {"closed", "died"} /\ UNCHANGED <<pc, frames, header>>
          /\ stream' = Recording(tail)
      BY <1>4, <2>1 DEF Play, Open, vars, file
    <2> QED BY <1>1, <2>2, <2>3 DEF PlaysRecording
  <1>5. CASE (\E target \in 0..(MaxSamples - 1) : SeekAbsolute(target))
             /\ UNCHANGED vars
    <2>1. seek # "none" /\ UNCHANGED <<pc, stream, frames, header>>
      BY <1>5 DEF SeekAbsolute, vars, file
    <2> QED BY <1>1, <2>1 DEF RInv, PlaysRecording
  <1>6. CASE SeekStep /\ UNCHANGED vars
    <2>1. UNCHANGED <<pc, frames, header>>
      BY <1>6 DEF vars, file
    <2>2. seek # "none" /\ UNCHANGED stream
      BY <1>6 DEF SeekStep, Aim, BoundsCross, CallbackFails, ProbeMeetsEnd,
                  ProbeMeetsTail, Hit, Overshoot, Above, Below, GiveUp, GoBack
    <2> QED BY <1>1, <2>1, <2>2 DEF RInv, PlaysRecording
  <1> QED BY <1>2, <1>3, <1>4, <1>5, <1>6 DEF RoundTripNext

LEMMA RNext == RInv /\ [RoundTripNext]_allVars => RInv'
  <1> SUFFICES ASSUME RInv, [RoundTripNext]_allVars PROVE RInv'
    OBVIOUS
  <1>1. [Next]_vars /\ [SeekNext]_seekVars
    BY StepOfEach
  <1>2. IInv' /\ BytesInOrder'
    BY <1>1, NextInv, BytesInv DEF RInv
  <1>3. SeekInv' /\ LandsInFrame'
    BY <1>1, SeekNextInv, LandsInv DEF RInv
  <1> QED BY <1>2, <1>3, PlaysInv DEF RInv

\* What a seek has found is what was recorded at that position.
LEMMA FoundIsRecorded == RInv => HearsWhatWasRecorded
  <1> SUFFICES ASSUME RInv, seek = "found", ~starved
               PROVE  LET f == frames[landed]
                          k == target_sample - f.number * Block + 1
                      IN  k \in 1..Len(f.samples)
                          /\ f.samples[k] = target_sample + 1
    BY DEF HearsWhatWasRecorded
  <1>1. PICK tail \in Nat : stream = Recording(tail)
    BY DEF RInv, PlaysRecording
  <1>2. Len(frames) \in Nat /\ DOMAIN frames = 1..Len(frames)
    BY LenProperties DEF RInv, IInv, TypeOK
  <1>3. /\ stream.frames = [i \in 1..Len(frames) |-> Found(frames[i])]
        /\ Len(stream.frames) = Len(frames)
    BY <1>1, <1>2 DEF Recording
  <1>4. landed \in 1..Len(frames) /\ stream.frames[landed] = Found(frames[landed])
    BY <1>3 DEF RInv, LandsInFrame, Indices
  <1> DEFINE f == frames[landed]
             k == target_sample - f.number * Block + 1
  <1>5. /\ Found(f).sample = (landed - 1) * Block /\ f.number = landed - 1
        /\ After(Found(f)) = (landed - 1) * Block + Len(f.samples)
        /\ (landed - 1) * Block \in Nat /\ Len(f.samples) \in 1..Block
    BY <1>4, FoundFacts DEF RInv
  <1>6. /\ Found(f).sample <= target_sample
        /\ target_sample < After(Found(f)) /\ target_sample \in Nat
    BY <1>4 DEF RInv, LandsInFrame, Holds, SeekInv, SeekTypeOK
  <1>7. FramesInOrder
    BY DEF RInv, IInv, NothingLost
  <1>8. k = target_sample - (landed - 1) * Block + 1
    BY <1>5
  <1>9. \A m \in 1..Len(f.samples) : f.samples[m] = (landed - 1) * Block + m
    BY <1>4, <1>7 DEF FramesInOrder
  <1>10. Block \in Nat
    BY LibEncoderAssumption
  <1> HIDE DEF f, k
  <1>11. k \in 1..Len(f.samples)
    BY <1>5, <1>6, <1>8, <1>10
  <1>12. f.samples[k] = target_sample + 1
    BY <1>5, <1>6, <1>8, <1>9, <1>11
  <1> QED BY <1>11, <1>12 DEF f, k

-----------------------------------------------------------------------------
(***************************************************************************)
(* Theorems.                                                               *)
(***************************************************************************)

LEMMA RoundTripInvariance == RoundTripSpec => []RInv
  <1>1. RoundTripInit /\ [][RoundTripNext]_allVars => []RInv
    BY RInit, RNext, PTL
  <1> QED BY <1>1 DEF RoundTripSpec, allVars

\* The types of both sides.
THEOREM RoundTripTypes == RoundTripSpec => []RoundTripTypeOK
  <1>1. RInv => RoundTripTypeOK
    BY DEF RInv, IInv, SeekInv, RoundTripTypeOK
  <1> QED BY <1>1, RoundTripInvariance, PTL

\* Whatever libFLAC leaves when it ends or is cut off, for any sizes, is a
\* file the seek was made for: the composition implements the seek of
\* well-formed files (stream_encoder.c:2870-2927; stream_decoder.c:2972).
THEOREM RecordingsCanBeSought == RoundTripSpec => SeekSpec
  <1>1. RoundTripInit => SeekInit
    BY DEF RoundTripInit
  <1>2. RInv /\ [RoundTripNext]_allVars => [SeekNext]_seekVars
    BY StepOfEach
  <1>3. RoundTripInit /\ [][RoundTripNext]_allVars
           => SeekInit /\ [][SeekNext]_seekVars
    BY <1>1, <1>2, RInit, RNext, PTL
  <1> QED BY <1>3 DEF RoundTripSpec, SeekSpec, allVars

\* Being played and sought in does not disturb the encoder: the composition
\* implements it (stream_encoder.c:2031-2927).
THEOREM RecordingGoesOn == RoundTripSpec => Spec
  <1>1. RoundTripInit => Init
    BY DEF RoundTripInit
  <1>2. RInv /\ [RoundTripNext]_allVars => [Next]_vars
    BY StepOfEach
  <1>3. RoundTripInit /\ [][RoundTripNext]_allVars => Init /\ [][Next]_vars
    BY <1>1, <1>2, RInit, RNext, PTL
  <1> QED BY <1>3 DEF RoundTripSpec, Spec, allVars

\* So what holds of each side alone holds of both together: the invariants of
\* the encoder and of the seek, that a failed write is final, and that both
\* get nearer to their end (stream_encoder.c:2031-2927;
\* stream_decoder.c:3082-3184).
THEOREM BothSidesHold ==
    RoundTripSpec => /\ []( /\ NumbersGivePositions /\ FifoHoldsSignal
                            /\ NothingLost /\ TotalIsTrue
                            /\ BoundsHoldTarget /\ FindsTarget )
                     /\ WriteFailureIsFinal
                     /\ [][InCall /\ InCall' => Nearer]_vars
                     /\ [][Searching /\ Searching' => Closer]_seekVars
  <1>1. RInv => /\ NumbersGivePositions /\ FifoHoldsSignal /\ NothingLost
                /\ TotalIsTrue /\ BoundsHoldTarget /\ FindsTarget
    BY DEF RInv, IInv, FramesInv, HeaderInv, SeekInv
  <1> QED BY <1>1, RoundTripInvariance, RecordingGoesOn, RetriesAreFutile,
             CallsGetNearerTheirEnd, RecordingsCanBeSought, SeekGetsCloser, PTL

\* Unless an allocation failed, the first sample heard after a seek is the
\* one that was recorded at the target's position, for any sizes and however
\* the recording ended
\* (stream_encoder.c:2031-2110, 2927; stream_decoder.c:2420, 2912-2940).
THEOREM WhatWasRecordedIsHeard == RoundTripSpec => []HearsWhatWasRecorded
  BY FoundIsRecorded, RoundTripInvariance, PTL
=============================================================================
