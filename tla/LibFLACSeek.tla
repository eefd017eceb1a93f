----------------------------- MODULE LibFLACSeek -----------------------------
(***************************************************************************)
(* The seek of libFLAC's stream decoder                                    *)
(* (jni/flac/src/libFLAC/stream_decoder.c:1167, 2972) through the          *)
(* callbacks of FLACStreamDecoder.cpp: a search by interpolation for the   *)
(* frame that holds a sample.  Each probe goes to a byte position,         *)
(* synchronises on the next frame header and decodes that frame.           *)
(*                                                                         *)
(* A file is a sequence of frames.  A frame is kept with its first sample, *)
(* its length, its first byte and the byte after it.  The file has no seek *)
(* table, since the encoder is given none.  Bytes inside a frame are not   *)
(* mistaken for a header.                                                  *)
(***************************************************************************)
EXTENDS Integers, SequencesExt

CONSTANTS
    first_frame_offset,  \* bytes of metadata
    Chunk,               \* the capacity of libFLAC's bit reader, in bytes
    GuessBytes,          \* min_blocksize * channels * bps / 8 + 64
    SeekMayFail          \* whether the seek callback may report an error

ASSUME SeekAssumption ==
    /\ first_frame_offset \in Nat /\ Chunk \in Nat \ {0} /\ GuessBytes \in Nat
    /\ SeekMayFail \in BOOLEAN

VARIABLES
    stream,              \* the file
    seek,                \* where seek_absolute() is
    target_sample,
    lower_bound, upper_bound,
    lower_bound_sample, upper_bound_sample,
    approx_bytes_per_frame,
    pos,
    first_seek,
    m_finished,          \* FLACStreamDecoder's: the end was met
    landed,              \* the frame the seek ended in, or 0
    callbackFailed       \* history: the seek callback reported an error

bounds == <<lower_bound, upper_bound, lower_bound_sample, upper_bound_sample>>
seekVars == <<stream, seek, target_sample, bounds, approx_bytes_per_frame, pos,
              first_seek, m_finished, landed, callbackFailed>>

\* A frame as the decoder finds it: its first sample, its length, its first
\* byte and the byte after it.
FileFrame == [sample : Nat, length : Nat \ {0}, first : Nat, end : Nat]

\* Where the frames end, and where the file does: a part of another frame may
\* follow, and a seek synchronises on it.
FramesEnd(s) == IF s.frames = <<>> THEN first_frame_offset
                ELSE s.frames[Len(s.frames)].end
StreamLength(s) == FramesEnd(s) + s.tail

Indices == 1..Len(stream.frames)

\* Slip: one sample too many.
AfterOffByOne(f) == f.sample + f.length + 1

\* The sample after a frame.
After(f) == f.sample + f.length
Holds(f, sample) == f.sample <= sample /\ sample < After(f)

NoStream == [frames |-> <<>>, tail |-> 0, total |-> 0, min |-> 0, max |-> 0]

SeekTypeOK ==
    /\ stream.frames \in Seq(FileFrame)
    /\ stream.tail \in Nat /\ stream.total \in Nat
    /\ stream.min \in Nat /\ stream.max \in Nat
    /\ seek \in {"none", "idle", "aim", "probe", "found", "failed"}
    /\ target_sample \in Nat
    /\ lower_bound \in Nat /\ upper_bound \in Nat
    /\ lower_bound_sample \in Nat /\ upper_bound_sample \in Nat
    /\ approx_bytes_per_frame \in Nat
    /\ pos \in Nat
    /\ first_seek \in BOOLEAN
    /\ m_finished \in BOOLEAN
    /\ landed \in 0..Len(stream.frames)
    /\ callbackFailed \in BOOLEAN

\* No file is open.
SeekInit ==
    /\ stream = NoStream
    /\ seek = "none"
    /\ target_sample = 0
    /\ lower_bound = 0 /\ upper_bound = 0
    /\ lower_bound_sample = 0 /\ upper_bound_sample = 0
    /\ approx_bytes_per_frame = 0
    /\ pos = 0
    /\ first_seek = TRUE
    /\ m_finished = FALSE
    /\ landed = 0
    /\ callbackFailed = FALSE

\* FLACStreamDecoder.init() on a file; the metadata are fetched with what
\* follows them.
Open(s) ==
    /\ seek = "none"
    /\ stream' = s
    /\ seek' = "idle"
    /\ m_finished' = (Chunk > StreamLength(s))
    /\ UNCHANGED <<target_sample, bounds, approx_bytes_per_frame, pos,
                   first_seek, landed, callbackFailed>>

\* "We are just guessing here": the bytes of a frame.
ApproxBytes == IF stream.max > 0 THEN (stream.max + stream.min) \div 2 + 1
               ELSE GuessBytes

\* Where the search starts: the whole file.  Where the total is not known, the
\* target is taken for the estimate.
StartBounds(target) ==
    /\ lower_bound' = first_frame_offset
    /\ lower_bound_sample' = 0
    /\ upper_bound' = StreamLength(stream)
    /\ upper_bound_sample' = IF stream.total > 0 THEN stream.total
                             ELSE IF target = 0 THEN 1 ELSE target
    /\ approx_bytes_per_frame' = ApproxBytes

\* seek_absolute(), which refuses a target beyond a known total.
SeekAbsolute(target) ==
    /\ seek \in {"idle", "found"}
    /\ ~m_finished
    /\ stream.total = 0 \/ target < stream.total
    /\ seek' = "aim"
    /\ target_sample' = target
    /\ StartBounds(target)
    /\ pos' = 0
    /\ first_seek' = TRUE
    /\ landed' = 0
    /\ UNCHANGED <<stream, m_finished, callbackFailed>>

\* How far the target lies between the bounds, in bytes.  The quotient is
\* computed in floating point: a whole number may come out one too small.
Interpolated ==
    LET n == (target_sample - lower_bound_sample) * (upper_bound - lower_bound)
        d == upper_bound_sample - lower_bound_sample
    IN  {n \div d} \union
        IF n > 0 /\ n % d = 0 /\ target_sample < upper_bound_sample
        THEN {n \div d - 1} ELSE {}

\* Slip: the position is not kept above the lower bound.
ClampedBelow(p) == IF p >= upper_bound THEN upper_bound - 1 ELSE p

\* First below the upper bound, then above the lower one.
Clamped(p) ==
    LET q == IF p >= upper_bound THEN upper_bound - 1 ELSE p
    IN  IF q < lower_bound THEN lower_bound ELSE q

BoundsOK == lower_bound_sample < upper_bound_sample
            /\ lower_bound <= upper_bound

GiveUp ==
    /\ seek' = "failed"
    /\ UNCHANGED <<stream, target_sample, bounds, approx_bytes_per_frame,
                   first_seek, landed>>

\* The head of the loop: the position of the next probe.
Aim ==
    /\ seek = "aim"
    /\ BoundsOK
    /\ \E i \in Interpolated :
          pos' = Clamped(lower_bound + i - approx_bytes_per_frame)
    /\ seek' = "probe"
    /\ UNCHANGED <<stream, target_sample, bounds, approx_bytes_per_frame,
                   first_seek, m_finished, landed, callbackFailed>>

BoundsCross ==
    /\ seek = "aim"
    /\ ~BoundsOK
    /\ GiveUp
    /\ UNCHANGED <<pos, m_finished, callbackFailed>>

CallbackFails ==
    /\ seek = "probe"
    /\ SeekMayFail
    /\ GiveUp
    /\ callbackFailed' = TRUE
    /\ UNCHANGED <<pos, m_finished>>

\* The first frame whose header is at or after the position.
IsNext(i) ==
    /\ stream.frames[i].first >= pos
    /\ \A k \in Indices : stream.frames[k].first >= pos => i <= k

\* The data up to `end' are fetched, a chunk at first and never more than a
\* chunk ahead; a fetch that wants more than the file has meets the end.  A
\* fetch after that gets nothing, since m_finished is never reset.
Fetches(end) ==
    /\ ~m_finished
    /\ m_finished' \in BOOLEAN
    /\ pos + Chunk > StreamLength(stream) => m_finished'
    /\ m_finished' => end + Chunk > StreamLength(stream)

\* Slip: the first sample of a frame is not taken for one of its own.
HoldsTargetInside(f) == f.sample < target_sample /\ target_sample < After(f)

HoldsTarget(f) == Holds(f, target_sample)

\* The probe decodes the frame that holds the target, which is handed over
\* from the target on.
Hit(i) ==
    /\ seek = "probe"
    /\ IsNext(i)
    /\ Fetches(stream.frames[i].end)
    /\ HoldsTarget(stream.frames[i])
    /\ landed' = i
    /\ seek' = "found"
    /\ UNCHANGED <<stream, target_sample, bounds, approx_bytes_per_frame, pos,
                   first_seek, callbackFailed>>

\* The frame ends at the upper bound or beyond, which is allowed once, to get
\* a true upper bound where the total is not known.
TooFar(f) == After(f) >= upper_bound_sample /\ ~first_seek

\* Slip: the next probe goes to the same position.
FurtherNot == approx_bytes_per_frame

Further == IF approx_bytes_per_frame = 0 THEN 16
           ELSE 2 * approx_bytes_per_frame

\* There is no frame after the position, or one that does not narrow the
\* search: the next probe goes further back, unless none can.
GoBack ==
    /\ IF pos = lower_bound
       THEN seek' = "failed" /\ UNCHANGED approx_bytes_per_frame
       ELSE /\ seek' = "aim"
            /\ approx_bytes_per_frame' = Further
    /\ UNCHANGED <<stream, target_sample, bounds, pos, first_seek, landed,
                   callbackFailed>>

\* What is left of a frame at the end of the file, from its header on.
TailIsNext == stream.tail >= 2 /\ pos <= FramesEnd(stream)

\* The end of the stream instead of a frame.
ProbeMeetsEnd ==
    /\ seek = "probe"
    /\ \/ m_finished
       \/ ~TailIsNext /\ \A i \in Indices : ~IsNext(i)
    /\ m_finished' = TRUE
    /\ GoBack

\* The part of a frame at the end of the file has a header, and not the data.
ProbeMeetsTail ==
    /\ seek = "probe"
    /\ ~m_finished
    /\ TailIsNext /\ \A i \in Indices : ~IsNext(i)
    /\ m_finished' = TRUE
    /\ GiveUp
    /\ UNCHANGED <<pos, callbackFailed>>

Overshoot(i) ==
    /\ seek = "probe"
    /\ IsNext(i)
    /\ Fetches(stream.frames[i].end)
    /\ ~HoldsTarget(stream.frames[i])
    /\ TooFar(stream.frames[i])
    /\ GoBack

\* The frame is beyond the target: it becomes the upper bound.
Above(i) ==
    LET f == stream.frames[i] IN
    /\ seek = "probe"
    /\ IsNext(i)
    /\ Fetches(f.end)
    /\ ~TooFar(f)
    /\ target_sample < f.sample
    /\ upper_bound_sample' = After(f)
    /\ upper_bound' = f.end
    /\ approx_bytes_per_frame' = (2 * (f.end - pos)) \div 3 + 16
    /\ first_seek' = FALSE
    /\ seek' = "aim"
    /\ UNCHANGED <<stream, target_sample, lower_bound, lower_bound_sample, pos,
                   landed, callbackFailed>>

\* The frame is before the target: what follows it becomes the lower bound.
Below(i) ==
    LET f == stream.frames[i] IN
    /\ seek = "probe"
    /\ IsNext(i)
    /\ Fetches(f.end)
    /\ ~TooFar(f)
    /\ f.sample <= target_sample /\ ~HoldsTarget(f)
    /\ lower_bound_sample' = After(f)
    /\ lower_bound' = f.end
    /\ approx_bytes_per_frame' = (2 * (f.end - pos)) \div 3 + 16
    /\ first_seek' = FALSE
    /\ seek' = "aim"
    /\ UNCHANGED <<stream, target_sample, upper_bound, upper_bound_sample, pos,
                   landed, callbackFailed>>

SeekStep ==
    \/ Aim \/ BoundsCross \/ CallbackFails \/ ProbeMeetsEnd \/ ProbeMeetsTail
    \/ \E i \in Indices : Hit(i) \/ Overshoot(i) \/ Above(i) \/ Below(i)

-----------------------------------------------------------------------------
(***************************************************************************)
(* The seek in any file whose frames follow one another.                   *)
(***************************************************************************)

FramesFollow(s) ==
    /\ \A i \in 1..Len(s.frames) :
          /\ first_frame_offset <= s.frames[i].first
          /\ s.frames[i].first < s.frames[i].end
          /\ s.frames[i].end <= FramesEnd(s)
    /\ \A i, k \in 1..Len(s.frames) :
          i < k => /\ s.frames[i].end <= s.frames[k].first
                   /\ After(s.frames[i]) <= s.frames[k].sample

\* A total that is not 0 counts the samples of a file that has no tail.
TotalCounts(s) ==
    s.total > 0 => /\ s.tail = 0
                   /\ \A i \in 1..Len(s.frames) : After(s.frames[i]) <= s.total

Streams ==
    {s \in [frames : Seq(FileFrame), tail : Nat, total : Nat, min : Nat,
            max : Nat] : FramesFollow(s) /\ TotalCounts(s)}

SeekNext ==
    \/ \E s \in Streams : Open(s)
    \/ \E target \in Nat : SeekAbsolute(target)
    \/ SeekStep

SeekSpec == SeekInit /\ [][SeekNext]_seekVars

-----------------------------------------------------------------------------
(***************************************************************************)
(* Properties.                                                             *)
(***************************************************************************)

Searching == seek \in {"aim", "probe"}

\* The bounds stay around the target: its frame lies between the byte bounds,
\* and no probe finds a frame below the lower one, which the code would take
\* for a corrupted stream (stream_decoder.c:3154-3181).
BoundsHoldTarget ==
    Searching =>
       /\ \A i \in Indices : Holds(stream.frames[i], target_sample) =>
             /\ lower_bound <= stream.frames[i].first
             /\ stream.frames[i].end <= upper_bound
       /\ \A i \in Indices : stream.frames[i].first >= lower_bound =>
             stream.frames[i].sample >= lower_bound_sample
       /\ lower_bound_sample <= target_sample
       /\ stream.total > 0 => target_sample < upper_bound_sample

\* A sample that a finished file holds is found, unless the end of the file
\* was met on the way: m_finished then cuts off every further probe
\* (stream_decoder.c:3082-3184; FLACStreamDecoder.cpp:314-318, 371-379).
FindsTarget ==
    seek = "failed" /\ stream.total > 0 /\ ~callbackFailed
    /\ (\E i \in Indices : Holds(stream.frames[i], target_sample))
       => m_finished

\* A seek comes to an end (stream_decoder.c:3082-3184): the bounds get closer
\* or the probe goes further back.
SeekReturns == Searching ~> ~Searching
=============================================================================
