------------------------------ MODULE RoundTrip ------------------------------
(***************************************************************************)
(* From the recorder to the player: libFLAC writes a recording, which      *)
(* finish() closes or the death of the process cuts off, and the player    *)
(* opens what is in the file and seeks in it.                              *)
(***************************************************************************)
EXTENDS LibFLACEncoder, LibFLACSeek

CONSTANT TailBytes  \* the bytes a part of a frame may leave

ASSUME RoundTripAssumption ==
    /\ MetadataBytes = first_frame_offset
    /\ TailBytes \subseteq Nat \ {0}

\* Slip: the decoder counts the samples of a frame by its own length.
FoundByOwnLength(f) ==
    [sample |-> f.number * Len(f.samples), length |-> Len(f.samples),
     first |-> f.first, end |-> f.end]

\* What read_frame_header_() makes of a frame: STREAMINFO has one block size,
\* which gives the frame's first sample.
Found(f) ==
    [sample |-> f.number * Block, length |-> Len(f.samples),
     first |-> f.first, end |-> f.end]

Recording(tail) ==
    [frames |-> [i \in DOMAIN frames |-> Found(frames[i])],
     tail |-> tail, total |-> header.total,
     min |-> header.sizes.min, max |-> header.sizes.max]

\* The player opens the file that is there.
Play ==
    /\ pc \in {"closed", "died"}
    /\ \E tail \in (IF torn THEN TailBytes ELSE {0}) : Open(Recording(tail))
    /\ UNCHANGED vars

RoundTripInit == Init /\ SeekInit

RoundTripNext ==
    \/ Next /\ UNCHANGED seekVars
    \/ Play
    \/ (\E target \in 0..(MaxSamples - 1) : SeekAbsolute(target))
       /\ UNCHANGED vars
    \/ SeekStep /\ UNCHANGED vars

RoundTripSpec == RoundTripInit /\ [][RoundTripNext]_<<vars, seekVars>>

\* The thread in libFLAC runs, on either side.
FairRoundTrip ==
    /\ RoundTripSpec
    /\ WF_<<vars, seekVars>>(LibStep /\ UNCHANGED seekVars)
    /\ WF_<<vars, seekVars>>(SeekStep /\ UNCHANGED vars)

\* The types of both sides; no probe is at a negative position.
RoundTripTypeOK == TypeOK /\ SeekTypeOK

\* What a seek ends in is what was recorded, however the recording ended:
\* unless an allocation failed, the first sample heard is the one that
\* was handed over at the target's position
\* (stream_encoder.c:2031-2110, 2927; stream_decoder.c:2420, 2912-2940).
HearsWhatWasRecorded ==
    seek = "found" /\ ~starved =>
       LET f == frames[landed]
           k == target_sample - f.number * Block + 1
       IN  k \in 1..Len(f.samples) /\ f.samples[k] = target_sample + 1
=============================================================================
