-------------------------- MODULE FLACStreamDecoder --------------------------
(***************************************************************************)
(* The native decoder of jni/FLACStreamDecoder.cpp under FLACPlayer's      *)
(* loop: one thread seeks and reads until read() returns no data.  The     *)
(* file is made of blocks of one size, the last one possibly shorter; its  *)
(* values are numbered 0, 1, 2, ... with the channels interleaved.  One of *)
(* its blocks may be damaged.                                              *)
(*                                                                         *)
(* libFLAC appears by what it does to the callbacks.  It fetches the file  *)
(* ahead of what it decodes, asks the eof callback before each fetch, and  *)
(* hands over one block per call; when it seeks, it hands over the rest of *)
(* the target's block.  How it seeks is LibFLACSeek.                       *)
(***************************************************************************)
EXTENDS Integers, Sequences, SequencesExt, FiniteSetsExt

CONSTANTS
    Total,          \* samples in the file, per channel
    Block,          \* samples in a block
    Channels,
    BytesPerValue,  \* m_bits_per_sample / 8
    MaxSeeks,       \* bound: calls of seekTo()
    SeekMayFail,    \* whether libFLAC may report a seek error
    Damageable      \* the blocks, by their first samples, that may be damaged

ASSUME DecoderAssumption ==
    /\ Total \in Nat \ {0} /\ Block \in Nat \ {0}
    /\ Channels \in {1, 2} /\ BytesPerValue \in {1, 2}
    /\ MaxSeeks \in Nat /\ SeekMayFail \in BOOLEAN
    /\ Damageable \subseteq {s \in 0..(Total - 1) : s % Block = 0}

VARIABLES
    pc,           \* where read() is; "idle" between two calls
    ended,        \* read() has returned no data: the player stops
    m_finished,
    m_seek_pos,
    m_cur_pos,
    m_buf_used,
    offset,       \* how far m_buffer has been moved, in values
    buffer,       \* the memory m_buffer points into, one entry per value
    next,         \* libFLAC: the next sample to decode
    fetched,      \* libFLAC: the samples it has the data of
    bad,          \* the first sample of the damaged block, Total if all are intact
    damage,       \* what libFLAC makes of it
    heard,        \* the values read() has returned since the last seek
    target,       \* that seek's target, or -1
    seeks,        \* calls of seekTo()
    overflowed    \* a block has not fitted into the buffer

file == <<bad, damage>>
lib == <<next, fetched, file>>
caller == <<heard, target, seeks, ended>>
vars == <<pc, caller, m_finished, m_seek_pos, m_cur_pos, m_buf_used, offset,
          buffer, lib, overflowed>>

\* minBufferSize(), and the size read() makes of it.
BufSize == Block * BytesPerValue * Channels
Values == 0..(Total * Channels - 1)
Unwritten == -1
Silence == -2

\* A block whose checksum is wrong is handed over in silence, one that libFLAC
\* cannot make out is passed over, and one that does not come to an end, being
\* cut off, takes the rest of the file with it.
Damages == {"silent", "lost", "torn"}

TypeOK ==
    /\ pc \in {"idle", "seek", "process"}
    /\ ended \in BOOLEAN /\ m_finished \in BOOLEAN
    /\ m_seek_pos \in -1..Total
    /\ m_cur_pos \in -1..(Total * (Channels + 1))
    /\ m_buf_used \in 0..(Block * Channels)
    /\ offset \in Nat
    /\ buffer \in [1..BufSize -> Values \union {Unwritten, Silence}]
    /\ next \in 0..Total /\ fetched \in 0..Total
    /\ bad \in Damageable \union {Total} /\ damage \in Damages \union {"none"}
    /\ heard \in Seq(Values \union {Silence})
    /\ target \in -1..Total /\ seeks \in 0..MaxSeeks
    /\ overflowed \in BOOLEAN

\* After init(): the metadata, and with them some of the data, are fetched.
\* A fetch that takes the last of the data may or may not meet the end.
Init ==
    /\ pc = "idle"
    /\ ended = FALSE
    /\ fetched \in 0..Total
    /\ m_finished \in BOOLEAN /\ (m_finished => fetched = Total)
    /\ m_seek_pos = -1
    /\ m_cur_pos = -1
    /\ m_buf_used = 0
    /\ offset = 0
    /\ buffer = [i \in 1..BufSize |-> Unwritten]
    /\ next = 0
    /\ bad \in Damageable \union {Total}
    /\ damage \in (IF bad = Total THEN {"none"} ELSE Damages)
    /\ heard = <<>>
    /\ target = -1
    /\ seeks = 0
    /\ overflowed = FALSE

BlockEnd(s) == Min({Total, (s \div Block + 1) * Block})

\* A seek decodes the blocks it meets without reporting errors; a target whose
\* block has no end or no header it does not find.
CanBeFound(s) == s \div Block = bad \div Block => damage \notin {"lost", "torn"}

Span(from, to) == [i \in 1..((to - from) * Channels) |-> from * Channels + i - 1]
SilenceFor(from, to) == [i \in 1..((to - from) * Channels) |-> Silence]

-----------------------------------------------------------------------------

SeekTo(s) ==
    /\ pc = "idle" /\ ~ended
    /\ seeks < MaxSeeks
    /\ seeks' = seeks + 1
    /\ m_seek_pos' = s
    /\ UNCHANGED <<pc, ended, heard, target, m_finished, m_cur_pos,
                   m_buf_used, offset, buffer, lib, overflowed>>

ReadAtEnd ==
    /\ pc = "idle" /\ ~ended
    /\ m_finished
    /\ ended' = TRUE
    /\ UNCHANGED <<pc, heard, target, seeks, m_finished, m_seek_pos,
                   m_cur_pos, m_buf_used, offset, buffer, lib, overflowed>>

Read ==
    /\ pc = "idle" /\ ~ended
    /\ ~m_finished
    /\ pc' = IF m_seek_pos >= 0 THEN "seek" ELSE "process"
    /\ m_buf_used' = 0
    /\ offset' = 0
    /\ UNCHANGED <<caller, m_finished, m_seek_pos, m_cur_pos, buffer, lib,
                   overflowed>>

\* libFLAC delivers the target's block from the target on, into the buffer
\* that is then declared empty.
Seek ==
    /\ pc = "seek"
    /\ m_seek_pos < Total /\ CanBeFound(m_seek_pos)
    /\ \E f \in BlockEnd(m_seek_pos)..Total, eof \in BOOLEAN :
          /\ fetched' = f
          /\ eof => f = Total
          /\ m_finished' = eof
    /\ m_buf_used' = 0
    /\ next' = BlockEnd(m_seek_pos)
    /\ m_cur_pos' = m_seek_pos
    /\ m_seek_pos' = -1
    /\ target' = m_seek_pos
    /\ heard' = <<>>
    /\ pc' = "process"
    /\ UNCHANGED <<ended, seeks, offset, buffer, file, overflowed>>

\* libFLAC refuses a target beyond the end without changing its state, if the
\* file says how many samples it has.
SeekBeyondEnd ==
    /\ pc = "seek"
    /\ m_seek_pos >= Total
    /\ m_cur_pos' = m_seek_pos
    /\ m_seek_pos' = -1
    /\ m_buf_used' = 0
    /\ pc' = "process"
    /\ UNCHANGED <<caller, m_finished, offset, buffer, lib, overflowed>>

\* After a seek error the decoder is flushed, but `continue' evaluates the
\* loop's condition with the seek's result: read() returns 0.  In a file that
\* does not say how many samples it has, a target beyond the end is searched
\* for, and not found.
SeekFails ==
    /\ pc = "seek"
    /\ SeekMayFail \/ (m_seek_pos < Total /\ ~CanBeFound(m_seek_pos))
    /\ m_finished' \in BOOLEAN
    /\ m_cur_pos' = m_seek_pos
    /\ m_seek_pos' = -1
    /\ m_buf_used' = 0
    /\ ended' = TRUE
    /\ pc' = "idle"
    /\ UNCHANGED <<heard, target, seeks, offset, buffer, lib, overflowed>>

\* Slip: the size of the buffer is taken in bytes.
CapacityInBytes == BufSize

\* m_buf_size, in values.
Capacity == BufSize \div BytesPerValue

\* write_internal(), for the values of a block: they go to where m_buffer
\* points, which is then moved by the number of values that were there before,
\* as if they were bytes.
WriteInternal(block) ==
    LET n == Min({Len(block), Capacity - m_buf_used})
    IN  /\ buffer' = [i \in DOMAIN buffer |->
                         IF i \in (offset + 1)..(offset + n)
                         THEN block[i - offset] ELSE buffer[i]]
        /\ offset' = offset + m_buf_used \div BytesPerValue
        /\ m_buf_used' = m_buf_used + n
        /\ m_cur_pos' = m_cur_pos + n
        /\ overflowed' = (overflowed \/ n < Len(block))

\* read() goes on while nothing is amiss and the buffer is not full; else it
\* returns what is in the buffer, or an error if libFLAC failed.
Continue(result) ==
    IF ~m_finished' /\ result /\ m_buf_used' < Capacity
    THEN pc' = "process" /\ UNCHANGED <<heard, ended>>
    ELSE /\ pc' = "idle"
         /\ ended' = (~result \/ m_buf_used' = 0)
         /\ heard' = IF result THEN heard \o SubSeq(buffer', 1, m_buf_used')
                     ELSE heard

\* The data of the block up to `end' are there, or are fetched.  The fetch may
\* go to the end of the file, which sets m_finished.
Fetched(end) ==
    \/ fetched >= end /\ UNCHANGED <<fetched, m_finished>>
    \/ /\ fetched < end /\ ~m_finished
       /\ fetched' \in end..Total
       /\ m_finished' \in BOOLEAN
       /\ m_finished' => fetched' = Total

Processing == pc = "process" /\ UNCHANGED <<file, target, seeks, m_seek_pos>>

\* The next block is decoded, although m_finished may be set with it, and with
\* whatever else was fetched, still to be decoded.
ProcessBlock ==
    /\ Processing
    /\ next < Total /\ next # bad
    /\ Fetched(BlockEnd(next))
    /\ next' = BlockEnd(next)
    /\ WriteInternal(Span(next, BlockEnd(next)))
    /\ Continue(overflowed' = overflowed)

\* Slip: errors are not noticed.
CbErrorIgnored == UNCHANGED m_finished

\* cb_error(): any error is the end of the stream.
CbError == m_finished' = TRUE

\* The checksum is wrong: the error is reported, the block handed over.
ProcessSilent ==
    /\ Processing
    /\ next = bad /\ damage = "silent"
    /\ \/ fetched >= BlockEnd(next) /\ UNCHANGED fetched
       \/ fetched < BlockEnd(next) /\ fetched' \in BlockEnd(next)..Total
    /\ CbError
    /\ next' = BlockEnd(next)
    /\ WriteInternal(SilenceFor(next, BlockEnd(next)))
    /\ Continue(overflowed' = overflowed)

\* libFLAC reports the error as soon as it loses track, and looks for the next
\* block.  From then on the eof callback denies it data it has not fetched:
\* the next block is decoded if it is there already.
ProcessLost ==
    LET end == BlockEnd(next) IN
    /\ Processing
    /\ next = bad /\ damage = "lost"
    /\ \/ fetched > next /\ UNCHANGED fetched
       \/ fetched < end /\ fetched' \in (next + 1)..Total /\ fetched' >= fetched
    /\ CbError
    /\ IF end < Total /\ fetched' >= BlockEnd(end)
       THEN /\ next' = BlockEnd(end)
            /\ WriteInternal(Span(end, BlockEnd(end)))
            /\ Continue(overflowed' = overflowed)
       ELSE /\ next' = end
            /\ UNCHANGED <<m_buf_used, m_cur_pos, offset, buffer, overflowed>>
            /\ \E result \in BOOLEAN : Continue(result)

\* The end of the file is met within the block, and libFLAC fails.
ProcessTorn ==
    /\ Processing
    /\ next = bad /\ damage = "torn"
    /\ fetched' = Total
    /\ m_finished' = TRUE
    /\ UNCHANGED <<next, m_buf_used, m_cur_pos, offset, buffer, overflowed>>
    /\ Continue(FALSE)

\* No block is left: the fetch meets the end, and libFLAC returns in success.
ProcessEnd ==
    /\ pc = "process"
    /\ next = Total
    /\ m_finished' = TRUE
    /\ UNCHANGED m_buf_used
    /\ UNCHANGED <<target, seeks, m_seek_pos, m_cur_pos, offset, buffer, lib,
                   overflowed>>
    /\ Continue(TRUE)

LoopStep == \/ Seek \/ SeekBeyondEnd \/ SeekFails
            \/ ProcessBlock \/ ProcessSilent \/ ProcessLost \/ ProcessTorn
            \/ ProcessEnd

Next == Read \/ ReadAtEnd \/ LoopStep \/ \E s \in 0..Total : SeekTo(s)

Spec == Init /\ [][Next]_vars

\* The thread that is in read() runs.
FairSpec == Spec /\ WF_vars(LoopStep)

-----------------------------------------------------------------------------
(***************************************************************************)
(* Properties.                                                             *)
(***************************************************************************)

\* What there is to hear from sample `from' on: damage ends it, after silence
\* or the block that comes next.
Playable(from) ==
    IF from > bad THEN Span(from, Total)
    ELSE Span(from, bad)
         \o CASE damage = "silent" -> SilenceFor(bad, BlockEnd(bad))
              [] damage = "lost" -> Span(BlockEnd(bad), BlockEnd(BlockEnd(bad)))
              [] OTHER -> <<>>

\* From the start or where the last seek led to, the values were returned in
\* their order, none twice and none left out, up to the damaged block; behind
\* it at most one block comes, in its place or after it, and never data that
\* were not in the file.  That a block does not fit "should never happen, if
\* the buffer we've been handed via the read() function is large enough",
\* which one of minBufferSize() is (FLACStreamDecoder.cpp:213-241, 429-466).
HeardInOrder ==
    /\ ~overflowed
    /\ \E s \in (IF target = -1 THEN {0} ELSE 0..Total) : IsPrefix(heard, Playable(s))

\* FLACStreamDecoder.java:124: position() "Returns read position, in samples."
\* As long as nobody seeks, it is that of the last sample returned.
PositionInSamples ==
    seeks = 0 /\ pc = "idle" => (m_cur_pos + 1) * Channels = Len(heard)

\* FLACStreamDecoder.java:117: seekTo() "Seeks to a particular sample."  What
\* is returned after the seek begins with that sample.
SeeksToSample ==
    target # -1 /\ heard # <<>> => Head(heard) = target * Channels

\* FLACStreamDecoder.java:107: read() returns "the number of bytes actually
\* read, or -1 on fatal errors"; without an error, a stream read until no
\* data is returned has been read to its end.
PlaysToEnd == ended => Len(heard) = Total * Channels
=============================================================================
