--------------------------- MODULE LibFLACEncoder ---------------------------
(***************************************************************************)
(* libFLAC's stream encoder as the writer thread drives it                 *)
(* (jni/flac/src/libFLAC/stream_encoder.c under FLACStreamEncoder.cpp:338  *)
(* -371): samples are collected in blocks of one size, each block becomes  *)
(* a frame that a decoder checks against a copy of the input before it is  *)
(* written, and finish() writes the last, shorter frame and then goes back *)
(* to complete the STREAMINFO block.  The process may die at any moment.   *)
(*                                                                         *)
(* Samples are numbered 1, 2, ... as the writer hands them over, so that   *)
(* no two compare equal.  A frame is kept with its first byte in the file   *)
(* and the byte after it.                                                  *)
(***************************************************************************)
EXTENDS Naturals, SequencesExt

CONSTANTS
    Block,       \* protected_->blocksize
    MaxSamples,  \* bound: samples handed over
    EntrySizes,  \* samples in an entry of the writer's FIFO
    RetryLimit,  \* failed calls the writer answers by a retry
    FrameSizes,  \* the bytes a frame may take
    MetadataBytes\* the bytes init_stream_() has written

\* libFLAC refuses blocks of less than FLAC__MIN_BLOCK_SIZE = 16 samples.
ASSUME LibEncoderAssumption ==
    /\ Block \in Nat /\ Block > 1
    /\ MaxSamples \in Nat /\ RetryLimit \in Nat
    /\ EntrySizes \subseteq Nat \ {0}
    /\ FrameSizes \subseteq Nat \ {0}
    /\ MetadataBytes \in Nat

VARIABLES
    pc,                    \* where the writer is in libFLAC
    state,                 \* protected_->state
    given,                 \* samples handed over so far
    buffer,                \* the entry process_interleaved() is called with
    j,                     \* how much of it this call has taken
    retry,                 \* failed calls with this entry
    signal,                \* integer_signal[0 .. current_sample_number - 1]
    input_fifo,            \* verify.input_fifo, up to its tail
    current_frame_number,
    md5,                   \* the samples accumulated in md5context
    total_samples,         \* the copy of STREAMINFO in memory:
    framesize,             \*   its total and [min, max] bytes of a frame
    frames,                \* the file: the frames in it,
    torn,                  \*   whether a part of another one follows,
    header,                \*   and its STREAMINFO block
    starved                \* history: an allocation has failed

call == <<given, buffer, j, retry>>
collected == <<signal, input_fifo, current_frame_number>>
info == <<md5, total_samples, framesize>>
file == <<frames, torn, header>>
vars == <<pc, state, call, collected, info, file, starved>>

Sample == 1..MaxSamples
Errors == {"memory_allocation_error", "client_error", "verify_mismatch"}

\* The values STREAMINFO is first written with, and "an absurdly-high" one.
NoStreaminfo == [md5 |-> <<>>, total |-> 0, sizes |-> [min |-> 0, max |-> 0]]
AbsurdlyHigh == 2^24 - 1

\* Slip: the total is written before the signature.
StagesTotalFirst == <<"total", "md5", "sizes", "close">>

\* finish() ends in these steps, in this order.
Stages == <<"md5", "total", "sizes", "close">>
StageAfter(s) == Stages[(CHOOSE i \in 1..3 : Stages[i] = s) + 1]

Frame == [number : Nat, samples : Seq(Sample), first : Nat, end : Nat]

TypeOK ==
    /\ pc \in {"idle", "fill", "frame", "last_frame", "closed", "died",
               "md5", "total", "sizes", "close"}
    /\ state \in {"ok"} \union Errors
    /\ given \in 0..MaxSamples
    /\ buffer \in Seq(Sample)
    /\ j \in 0..Len(buffer)
    /\ retry \in 0..RetryLimit
    /\ signal \in Seq(Sample) /\ Len(signal) <= Block + 1
    /\ input_fifo \in Seq(Sample)
    /\ current_frame_number \in Nat
    /\ md5 \in Seq(Sample)
    /\ total_samples \in Nat
    /\ framesize \in [min : Nat, max : Nat]
    /\ frames \in Seq(Frame)
    /\ torn \in BOOLEAN
    /\ header \in [md5 : Seq(Sample), total : Nat,
                   sizes : [min : Nat, max : Nat]]
    /\ starved \in BOOLEAN

\* After init_stream_() has written the metadata blocks.
Init ==
    /\ pc = "idle"
    /\ state = "ok"
    /\ given = 0 /\ buffer = <<>> /\ j = 0 /\ retry = 0
    /\ signal = <<>> /\ input_fifo = <<>> /\ current_frame_number = 0
    /\ md5 = <<>> /\ total_samples = 0
    /\ framesize = [min |-> AbsurdlyHigh, max |-> 0]
    /\ frames = <<>> /\ torn = FALSE /\ header = NoStreaminfo
    /\ starved = FALSE

-----------------------------------------------------------------------------
(***************************************************************************)
(* process_interleaved() and the writer's retries.                         *)
(***************************************************************************)

\* The writer takes the next entry of its FIFO to libFLAC.
Call(n) ==
    /\ pc = "idle"
    /\ given + n <= MaxSamples
    /\ given' = given + n
    /\ buffer' = [i \in 1..n |-> given + i]
    /\ j' = 0
    /\ retry' = 0
    /\ pc' = "fill"
    /\ UNCHANGED <<state, collected, info, file, starved>>

\* The samples one turn of the loop takes: up to a block and one more.
Taken == SubSeq(buffer, j + 1, j + Min({Block + 1 - Len(signal),
                                        Len(buffer) - j}))

\* Slip: the copy that is kept for the check misses the overread sample.
CopiedWithoutOverread ==
    SubSeq(Taken, 1, Min({Len(Taken), Block - Len(signal)}))

\* What append_to_verify_fifo_interleaved_() copies.
Copied == Taken

\* One turn of the loop up to process_frame_(); a turn that does not fill a
\* block has taken all of the entry, and the call returns.
Fill ==
    /\ pc = "fill"
    /\ signal' = signal \o Taken
    /\ input_fifo' = input_fifo \o Copied
    /\ j' = j + Len(Taken)
    /\ pc' = IF Len(signal') > Block THEN "frame" ELSE "idle"
    /\ UNCHANGED <<state, given, buffer, retry, current_frame_number, info,
                   file, starved>>

\* What process_frame_() encodes: a block, and what is left in finish().
TheBlock == SubSeq(signal, 1, IF pc = "frame" THEN Block ELSE Len(signal))
Drop(seq, n) == SubSeq(seq, n + 1, Len(seq))

\* Slip: the writer tries for ever.
RetriesForEver == TRUE

Retries == retry < RetryLimit

\* process_frame_() fails.  The writer calls again with the whole entry, or
\* gives up; finish() goes on to close the file.
Failed(error) ==
    /\ state' = error
    /\ \/ /\ pc = "frame" /\ Retries
          /\ retry' = Min({retry + 1, RetryLimit})
          /\ j' = 0
          /\ pc' = "fill"
       \/ /\ pc = "frame" /\ ~Retries
          /\ pc' = "idle"
          /\ UNCHANGED <<j, retry>>
       \/ /\ pc = "last_frame"
          /\ pc' = "close"
          /\ UNCHANGED <<j, retry>>

InFrame == pc \in {"frame", "last_frame"}

\* MD5Accumulate() cannot allocate its buffer, which it does once.
AllocationFails ==
    /\ InFrame
    /\ md5 = <<>>
    /\ Failed("memory_allocation_error")
    /\ starved' = TRUE
    /\ UNCHANGED <<given, buffer, collected, info, file>>

\* The fifo holds as many samples as the block, and they are the block's.
Verified == Len(input_fifo) >= Len(TheBlock)
            /\ SubSeq(input_fifo, 1, Len(TheBlock)) = TheBlock

\* The decoded frame differs from what is in the fifo's memory.
VerifyFails ==
    /\ InFrame
    /\ ~Verified
    /\ md5' = md5 \o TheBlock
    /\ Failed("verify_mismatch")
    /\ UNCHANGED <<given, buffer, collected, total_samples, framesize,
                   file, starved>>

\* The fifo is short of the block, but the memory beyond its tail happens to
\* hold the same values: the tail becomes negative as an unsigned number, and
\* so many elements are moved.
FifoUnderflows ==
    /\ InFrame
    /\ Len(input_fifo) < Len(TheBlock)
    /\ pc' = "died"
    /\ UNCHANGED <<state, call, collected, info, file, starved>>

\* Slip: the block stays in the fifo.
DequeuedNot == input_fifo

\* The fifo once the check has taken the block out.
Dequeued == Drop(input_fifo, Len(TheBlock))

\* The check dequeues the block from the fifo; then the file takes only a
\* part of the frame, or nothing.
WriteFails ==
    /\ InFrame
    /\ Verified
    /\ md5' = md5 \o TheBlock
    /\ input_fifo' = Dequeued
    /\ torn' \in BOOLEAN
    /\ Failed("client_error")
    /\ UNCHANGED <<given, buffer, signal, current_frame_number,
                   total_samples, framesize, frames, header, starved>>

\* Slip: the overread sample is dropped with the block.
UnprocessedNone == <<>>

\* What is left in the signal for the next block.
Unprocessed == Drop(signal, Len(TheBlock))

\* Slip: the frame number counts samples.
NextNumberOfSamples == current_frame_number + Len(TheBlock)

NextNumber == current_frame_number + 1

BytesWritten == IF frames = <<>> THEN MetadataBytes
                ELSE frames[Len(frames)].end

\* The frame is checked and written; the overread sample starts the next
\* block, and the loop goes on while the entry has samples left.
WriteFrame(bytes) ==
    /\ InFrame
    /\ Verified
    /\ md5' = md5 \o TheBlock
    /\ input_fifo' = Dequeued
    /\ frames' = Append(frames, [number |-> current_frame_number,
                                 samples |-> TheBlock,
                                 first |-> BytesWritten,
                                 end |-> BytesWritten + bytes])
    /\ framesize' = [min |-> Min({bytes, framesize.min}),
                     max |-> Max({bytes, framesize.max})]
    /\ signal' = Unprocessed
    /\ current_frame_number' = NextNumber
    /\ total_samples' = total_samples + Len(TheBlock)
    /\ pc' = IF pc = "last_frame" THEN Stages[1]
             ELSE IF j < Len(buffer) THEN "fill" ELSE "idle"
    /\ UNCHANGED <<state, call, torn, header, starved>>

-----------------------------------------------------------------------------
(***************************************************************************)
(* finish(), which the destructor calls when the writer has ended.         *)
(***************************************************************************)

Finish ==
    /\ pc = "idle"
    /\ pc' = IF state # "ok" THEN "close"
             ELSE IF signal # <<>> THEN "last_frame" ELSE Stages[1]
    /\ UNCHANGED <<state, call, collected, info, file, starved>>

Streaminfo == [md5 |-> md5, total |-> total_samples, sizes |-> framesize]

\* update_metadata_() seeks to a field of STREAMINFO and writes it.
UpdateMetadata ==
    /\ pc \in {"md5", "total", "sizes"}
    /\ header' = [header EXCEPT ![pc] = Streaminfo[pc]]
    /\ pc' = StageAfter(pc)
    /\ UNCHANGED <<state, call, collected, info, frames, torn, starved>>

\* The seek or the write fails: the fields that follow are left as they were.
UpdateFails ==
    /\ pc \in {"md5", "total", "sizes"}
    /\ state' = "client_error"
    /\ pc' = "close"
    /\ UNCHANGED <<call, collected, info, file, starved>>

Close ==
    /\ pc = "close"
    /\ pc' = "closed"
    /\ UNCHANGED <<state, call, collected, info, file, starved>>

\* The process is killed.  What stdio has not written yet is lost; the first
\* seek of update_metadata_() has written all frames.
Die ==
    /\ pc \notin {"closed", "died"}
    /\ pc' = "died"
    /\ \/ UNCHANGED <<frames, torn>>
       \/ /\ header = NoStreaminfo
          /\ \E k \in 0..Len(frames) : frames' = SubSeq(frames, 1, k)
          /\ torn' \in BOOLEAN
    /\ UNCHANGED <<state, call, collected, info, header, starved>>

LibStep ==
    \/ Fill \/ AllocationFails \/ VerifyFails \/ FifoUnderflows \/ WriteFails
    \/ \E bytes \in FrameSizes : WriteFrame(bytes)
    \/ UpdateMetadata \/ UpdateFails \/ Close

Next == (\E n \in EntrySizes : Call(n)) \/ Finish \/ LibStep \/ Die

Spec == Init /\ [][Next]_vars

\* The thread that has called libFLAC runs.
FairSpec == Spec /\ WF_vars(LibStep)

-----------------------------------------------------------------------------
(***************************************************************************)
(* Properties.                                                             *)
(***************************************************************************)

\* A frame's header carries only its number: as long as all frames but the
\* last are one block long, the number times the block size is the position
\* of its first sample, which is what a seek relies on
\* (stream_encoder.c:2927; stream_decoder.c:2420).
NumbersGivePositions ==
    \A i \in 1..Len(frames) :
       /\ frames[i].number = i - 1
       /\ Len(frames[i].samples) \in 1..Block
       /\ i < Len(frames) => Len(frames[i].samples) = Block

\* Until a write fails, the check compares each frame with the samples it
\* was made from, although the entries do not end where the blocks do
\* (stream_encoder.c:2088-2102, 4236): the fifo holds the signal.
FifoHoldsSignal ==
    state \in {"ok", "memory_allocation_error"} => input_fifo = signal

\* Sample k of frame i is the one handed over at that position.
FramesInOrder ==
    \A i \in 1..Len(frames) : \A k \in 1..Len(frames[i].samples) :
       frames[i].samples[k] = (i - 1) * Block + k

SamplesInFile ==
    IF frames = <<>> THEN 0
    ELSE (Len(frames) - 1) * Block + Len(frames[Len(frames)].samples)

\* The file holds the samples in order, unless a retry upset them; and while
\* nothing has failed, the file and the signal hold every sample taken so far
\* (stream_encoder.c:2031-2110).
NothingLost ==
    /\ ~starved => FramesInOrder
    /\ state = "ok" /\ pc # "died" =>
          /\ \A k \in 1..Len(signal) : signal[k] = SamplesInFile + k
          /\ SamplesInFile + Len(signal) = given - (Len(buffer) - j)

\* A STREAMINFO block that has a total is complete and true, whenever the
\* process dies: the total comes after the signature, and both only when
\* every frame is in the file (stream_encoder.c:1340, 2546-2611).
TotalIsTrue ==
    header.total # 0 =>
       /\ ~torn /\ FramesInOrder
       /\ header.total = given /\ SamplesInFile = given
       /\ header.md5 = [k \in 1..given |-> k]

\* After a failed write the retries are futile: the fifo has lost the block
\* that is still in the signal, and no frame is ever added to the file
\* (stream_encoder.c:2420-2425, 4236; FLACStreamEncoder.cpp:349-365).
WriteFailureIsFinal ==
    [][(state \in {"client_error", "verify_mismatch"})
          => Len(frames') <= Len(frames)]_vars

\* A call comes to an end, however often it fails
\* (FLACStreamEncoder.cpp:338-371; stream_encoder.c:1316-1382).
CallsReturn ==
    pc \notin {"idle", "closed", "died"} ~> pc \in {"idle", "closed", "died"}
=============================================================================
