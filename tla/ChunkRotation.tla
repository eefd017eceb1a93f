---------------------------- MODULE ChunkRotation ----------------------------
(***************************************************************************)
(* How FLACRecorder.run() cuts a recording into chunks for transcription.  *)
(* mEncoder takes the whole recording; mEncoder2 and mEncoder3 take turns  *)
(* with the chunks.  The recording's clock mChunkTimer counts tenths of a  *)
(* second of audio.  At odd multiples of 141 mEncoder3 starts a chunk, and *)
(* at odd multiples of 151 mEncoder2's chunk is closed and announced; at   *)
(* multiples of 281 mEncoder2 starts one, and at multiples of 291          *)
(* mEncoder3's is closed and announced.                                    *)
(*                                                                         *)
(* What the announcement sets off is module Transcription; how the thread  *)
(* is started, stopped and fails before the first read is module Recorder. *)
(***************************************************************************)
EXTENDS Integers

CONSTANTS
    MaxTick,          \* bound: the recording's length, in tenths of a second
    Strides,          \* the ticks one read may advance the clock by
    EncoderMayThrow   \* whether creating an encoder may be refused

ASSUME RotationAssumption ==
    /\ MaxTick \in Nat
    /\ Strides \subseteq Nat
    /\ EncoderMayThrow \in BOOLEAN

None == -1
Ticks == 0..MaxTick

VARIABLES
    phase,          \* "recording", "released" at the end, or "failed"
    mChunkTimer,
    mEncHandler,    \* which of the two encoders takes the data: 2 is mEncoder3
    mEncoder2,      \* the chunk each encoder holds, or None
    mEncoder3,
    mChunk,         \* the latest chunk's number
    open,           \* chunks whose encoder has not been released
    announced,      \* chunks sent to the transcription handler
    from,           \* for each chunk, the first tick whose data it got
    to              \* ... and the last one

encoders == <<mEncHandler, mEncoder2, mEncoder3, mChunk>>
spans == <<from, to>>
vars == <<phase, mChunkTimer, encoders, open, announced, spans>>

Chunks == 0..mChunk

TypeOK ==
    /\ phase \in {"recording", "released", "failed"}
    /\ mChunkTimer \in Ticks
    /\ mEncHandler \in {1, 2}
    /\ mChunk \in Nat
    /\ mEncoder2 \in Chunks \union {None}
    /\ mEncoder3 \in Chunks \union {None}
    /\ open \subseteq Chunks
    /\ announced \subseteq Chunks \union {None}
    /\ DOMAIN from \subseteq Chunks /\ DOMAIN to = DOMAIN from
    /\ \A c \in DOMAIN from : from[c] \in Ticks /\ to[c] \in Ticks

\* The state in which the loop is entered: chunk 0 is mEncoder2's.
Init ==
    /\ phase = "recording"
    /\ mChunkTimer = 0
    /\ mEncHandler = 1
    /\ mEncoder2 = 0
    /\ mEncoder3 = None
    /\ mChunk = 0
    /\ open = {0}
    /\ announced = {}
    /\ from = [c \in {0} |-> 0]
    /\ to = [c \in {0} |-> 0]

-----------------------------------------------------------------------------

\* mSecond > 10 keeps tick 0, a multiple of everything, out of the schedule.
Late(t) == t \div 10 > 10

\* Slip: even multiples are not left out.
AnyMultiple(t, n) == t % n = 0

OddMultiple(t, n) == t % n = 0 /\ t % (2 * n) # 0

StartsThird(t) == Late(t) /\ OddMultiple(t, 141)
EndsSecond(t) == Late(t) /\ OddMultiple(t, 151) /\ ~StartsThird(t)
StartsSecond(t) ==
    Late(t) /\ t % 281 = 0 /\ ~StartsThird(t) /\ ~EndsSecond(t)
EndsThird(t) ==
    /\ Late(t) /\ t % 291 = 0
    /\ ~StartsThird(t) /\ ~EndsSecond(t) /\ ~StartsSecond(t)

\* The clock moves by the duration of the data just read.
Tick(d) ==
    /\ phase = "recording"
    /\ mChunkTimer' = mChunkTimer + d
    /\ mChunkTimer' <= MaxTick

\* The data goes to the chunk encoder whose turn it is, if there is one; a
\* new chunk's encoder is created right before its first data comes.
Taker(handler, second, third) == IF handler = 2 THEN third ELSE second

Put(f, c, t) == [d \in DOMAIN f \union {c} |-> IF d = c THEN t ELSE f[d]]

WriteTo(c) ==
    IF c = None THEN UNCHANGED spans
    ELSE /\ from' = IF c \in DOMAIN from THEN from
                    ELSE Put(from, c, mChunkTimer')
         /\ to' = Put(to, c, mChunkTimer')

\* A read that meets no switch.
ReadPlain(d) ==
    /\ Tick(d)
    /\ \/ ~StartsThird(mChunkTimer') /\ ~EndsSecond(mChunkTimer')
          /\ ~StartsSecond(mChunkTimer') /\ ~EndsThird(mChunkTimer')
       \/ StartsThird(mChunkTimer') /\ mEncHandler = 2
       \/ StartsSecond(mChunkTimer') /\ mEncHandler = 1
    /\ WriteTo(Taker(mEncHandler, mEncoder2, mEncoder3))
    /\ UNCHANGED <<phase, encoders, open, announced>>

\* Slip: the handler is numbered after the encoder.
StartThirdAsThree(d) ==
    /\ Tick(d)
    /\ StartsThird(mChunkTimer')
    /\ mEncHandler # 2
    /\ mEncHandler' = 3
    /\ mChunk' = mChunk + 1
    /\ mEncoder3' = mChunk + 1
    /\ open' = open \union {mChunk + 1}
    /\ WriteTo(mChunk + 1)
    /\ UNCHANGED <<phase, mEncoder2, announced>>

StartThird(d) ==
    /\ Tick(d)
    /\ StartsThird(mChunkTimer')
    /\ mEncHandler # 2
    /\ mEncHandler' = 2
    /\ mChunk' = mChunk + 1
    /\ mEncoder3' = mChunk + 1
    /\ open' = open \union {mChunk + 1}
    /\ WriteTo(mChunk + 1)
    /\ UNCHANGED <<phase, mEncoder2, announced>>

\* Slip: mEncoder2 gets a new chunk, and mEncoder3 goes on getting the data.
StartSecondUnswitched(d) ==
    /\ Tick(d)
    /\ StartsSecond(mChunkTimer')
    /\ mEncHandler # 1
    /\ mChunk' = mChunk + 1
    /\ mEncoder2' = mChunk + 1
    /\ open' = open \union {mChunk + 1}
    /\ WriteTo(mEncoder3)
    /\ UNCHANGED <<phase, mEncHandler, mEncoder3, announced>>

StartSecond(d) ==
    /\ Tick(d)
    /\ StartsSecond(mChunkTimer')
    /\ mEncHandler # 1
    /\ mEncHandler' = 1
    /\ mChunk' = mChunk + 1
    /\ mEncoder2' = mChunk + 1
    /\ open' = open \union {mChunk + 1}
    /\ WriteTo(mChunk + 1)
    /\ UNCHANGED <<phase, mEncoder3, announced>>

\* Slip: the chunk just started is announced instead of the one closed.
EndSecondAnnouncesNew(d) ==
    /\ Tick(d)
    /\ EndsSecond(mChunkTimer')
    /\ open' = open \ {mEncoder2}
    /\ mEncoder2' = None
    /\ announced' = announced \union {mChunk}
    /\ WriteTo(Taker(mEncHandler, None, mEncoder3))
    /\ UNCHANGED <<phase, mEncHandler, mEncoder3, mChunk>>

\* Every read within the tick sends the announcement anew; the set keeps one.
EndSecond(d) ==
    /\ Tick(d)
    /\ EndsSecond(mChunkTimer')
    /\ open' = open \ {mEncoder2}
    /\ mEncoder2' = None
    /\ announced' = announced \union {mChunk - 1}
    /\ WriteTo(Taker(mEncHandler, None, mEncoder3))
    /\ UNCHANGED <<phase, mEncHandler, mEncoder3, mChunk>>

EndThird(d) ==
    /\ Tick(d)
    /\ EndsThird(mChunkTimer')
    /\ open' = open \ {mEncoder3}
    /\ mEncoder3' = None
    /\ announced' = announced \union {mChunk - 1}
    /\ WriteTo(Taker(mEncHandler, mEncoder2, None))
    /\ UNCHANGED <<phase, mEncHandler, mEncoder2, mChunk>>

\* The encoder of a new chunk is refused: the handler is switched and the
\* number taken, and the exception ends the thread with nothing released.
Refuse(d) ==
    /\ EncoderMayThrow
    /\ Tick(d)
    /\ \/ StartsThird(mChunkTimer') /\ mEncHandler # 2 /\ mEncHandler' = 2
       \/ StartsSecond(mChunkTimer') /\ mEncHandler # 1 /\ mEncHandler' = 1
    /\ mChunk' = mChunk + 1
    /\ phase' = "failed"
    /\ UNCHANGED <<mEncoder2, mEncoder3, open, announced, spans>>

\* stop() ends the loop between two reads: the encoders still referred to are
\* flushed and released.
Stop ==
    /\ phase = "recording"
    /\ phase' = "released"
    /\ open' = open \ {mEncoder2, mEncoder3}
    /\ mEncoder2' = None
    /\ mEncoder3' = None
    /\ UNCHANGED <<mChunkTimer, mEncHandler, mChunk, announced, spans>>

Next == \/ \E d \in Strides :
              \/ ReadPlain(d) \/ StartThird(d) \/ EndSecond(d)
              \/ StartSecond(d) \/ EndThird(d) \/ Refuse(d)
        \/ Stop

Spec == Init /\ [][Next]_vars

-----------------------------------------------------------------------------
(***************************************************************************)
(* Properties.  A round of the schedule starts mEncoder2 at 281k and ends  *)
(* the chunk mEncoder2 held before at 151(2k - 1).  Since 2 * 151 exceeds  *)
(* 281, the end falls behind the start in the 8th round, after some 225    *)
(* seconds: mEncoder2 is overwritten while its chunk is open, and then the *)
(* new chunk is closed in its place.  The properties hold up to there.     *)
(***************************************************************************)

Crossing(k) == 281 * k < 151 * (2 * k - 1)
FirstCrossing == 281 * (CHOOSE k \in 1..100 :
                            Crossing(k) /\ \A j \in 1..(k - 1) : ~Crossing(j))
OnSchedule == mChunkTimer < FirstCrossing

\* An encoder variable is never overwritten while its chunk is open: every
\* open encoder can still be released (FLACRecorder.java:379, 417), and all
\* of them are when the recording ends (FLACRecorder.java:474-482).
NoEncoderLost ==
    OnSchedule /\ phase # "failed" => open \subseteq {mEncoder2, mEncoder3}

\* A chunk is announced only when its file is complete, and every chunk closed
\* while recording has been announced, so it is transcribed
\* (FLACRecorder.java:385-403, 423-436).
AnnouncedOnceClosed ==
    OnSchedule =>
        /\ announced \subseteq Chunks \ open
        /\ phase = "recording" => Chunks \ open \subseteq announced

\* Each chunk takes over where the one before it ends: no stretch of the
\* recording is missing from the chunks, none is in two
\* (FLACRecorder.java:453-456).
ChunksCoverRecording ==
    OnSchedule /\ phase = "recording" =>
        /\ DOMAIN from = Chunks
        /\ \A c \in Chunks \ {0} : from[c] = to[c - 1] + 1
        /\ to[mChunk] = mChunkTimer
=============================================================================
