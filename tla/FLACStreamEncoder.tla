-------------------------- MODULE FLACStreamEncoder --------------------------
(***************************************************************************)
(* The native FLAC encoder (jni/jni/FLACStreamEncoder.cpp): a JNI thread   *)
(* collects samples in a write buffer, full buffers go through a locked    *)
(* FIFO to a writer thread that hands them to libFLAC, and the destructor  *)
(* drains the FIFO, kills the writer and joins it.                         *)
(*                                                                         *)
(* Samples are numbered by the order in which write() copied them, so a    *)
(* buffer is an interval of numbers and `encoded' is the sequence of       *)
(* numbers libFLAC was made to read.  Sizes count 32-bit elements.         *)
(***************************************************************************)
EXTENDS Naturals, Sequences, FiniteSets

CONSTANTS
    WriteBufferSize,  \* m_write_buffer_size once init() has succeeded
    WriteSizes,       \* the bufsize32 values the caller may pass to write()
    MaxSamples,       \* bound: samples accepted over the stream's life
    Channels,         \* m_channels
    RetryLimit,       \* failed attempts the writer answers by a retry
    EncoderMayFail    \* whether libFLAC may fail to process a buffer

ASSUME EncoderAssumption ==
    /\ WriteBufferSize \in Nat \ {0}
    /\ WriteSizes \subseteq Nat
    /\ MaxSamples \in Nat
    /\ Channels \in Nat \ {0}
    /\ RetryLimit \in Nat
    /\ EncoderMayFail \in BOOLEAN

VARIABLES
    jni,                    \* where the JNI thread is
    after,                  \* where flush_to_fifo() returns to
    pending,                \* bufsize32 of the write() in progress
    next,                   \* the entry flush_to_fifo() is about to append
    m_write_buffer,
    m_write_buffer_offset,
    m_fifo,
    m_kill_writer,
    mutex,                  \* the holder of m_fifo_mutex
    writer,                 \* where the writer thread is
    current,                \* what is left of the list the writer grabbed
    retry,
    accepted,               \* history: samples copied by write()
    encoded,                \* history: values libFLAC read, in order
    dropped,                \* history: samples deleted without being encoded
    failed                  \* history: libFLAC has failed to process a buffer

callerVars == <<after, pending, next, m_write_buffer, m_write_buffer_offset,
                accepted>>
writerVars == <<current, retry, encoded, dropped, failed>>
vars == <<jni, callerVars, m_fifo, m_kill_writer, mutex, writer, writerVars>>

NoBuffer == [first |-> 0, cap |-> 0]
NoEntry == [first |-> 0, fill |-> 0, cap |-> 0]
NoSample == 0

\* A buffer of int32 elements, and a write_fifo_t that owns one.  `first' is
\* the number of the sample the buffer starts with, `cap' its allocated size.
Buffer == [first : Nat \ {0}, cap : Nat]
Entry == [first : Nat \ {0}, fill : Nat, cap : Nat]

Returns == {"over_alloc", "over_signal", "full_signal", "flush_signal",
            "kill_lock"}

JniPoints == Returns \union
             {"idle", "push_lock", "push_append", "over_push", "copy",
              "kill_set", "broadcast", "join", "destroyed"}

WriterPoints == {"start", "enter", "sleep", "waiting", "woken", "grab",
                 "encode", "free", "relock", "check", "dying", "terminated"}

TypeOK ==
    /\ jni \in JniPoints
    /\ after \in Returns
    /\ pending \in Nat
    /\ next \in Entry \union {NoEntry}
    /\ m_write_buffer \in Buffer \union {NoBuffer}
    /\ m_write_buffer_offset \in Nat
    /\ m_fifo \in Seq(Entry)
    /\ m_kill_writer \in BOOLEAN
    /\ mutex \in {"none", "jni", "writer"}
    /\ writer \in WriterPoints
    /\ current \in Seq(Entry)
    /\ retry \in 0..RetryLimit
    /\ accepted \in Nat
    /\ encoded \in Seq(Nat)
    /\ dropped \in SUBSET Nat
    /\ failed \in BOOLEAN

\* A constructed and successfully initialised encoder whose writer thread has
\* been created and has not run yet.
Init ==
    /\ jni = "idle"
    /\ after = "flush_signal"
    /\ pending = 0
    /\ next = NoEntry
    /\ m_write_buffer = NoBuffer
    /\ m_write_buffer_offset = 0
    /\ m_fifo = <<>>
    /\ m_kill_writer = FALSE
    /\ mutex = "none"
    /\ writer = "start"
    /\ current = <<>>
    /\ retry = 0
    /\ accepted = 0
    /\ encoded = <<>>
    /\ dropped = {}
    /\ failed = FALSE

-----------------------------------------------------------------------------
(***************************************************************************)
(* The JNI thread.                                                         *)
(***************************************************************************)

\* Entry of flush_to_fifo(): it returns at once when there is no buffer.
FlushToFifo(return) ==
    \/ /\ m_write_buffer = NoBuffer
       /\ jni' = return
       /\ UNCHANGED <<after, next, m_write_buffer>>
    \/ /\ m_write_buffer # NoBuffer
       /\ jni' = "push_lock"
       /\ after' = return
       /\ next' = [first |-> m_write_buffer.first,
                   fill |-> m_write_buffer_offset,
                   cap |-> m_write_buffer.cap]
       /\ m_write_buffer' = NoBuffer

PushLock ==
    /\ jni = "push_lock"
    /\ mutex = "none"
    /\ mutex' = "jni"
    /\ jni' = "push_append"
    /\ UNCHANGED <<callerVars, m_fifo, m_kill_writer, writer, writerVars>>

PushAppend ==
    /\ jni = "push_append"
    /\ m_fifo' = Append(m_fifo, next)
    /\ next' = NoEntry
    /\ mutex' = "none"
    /\ jni' = after
    /\ UNCHANGED <<after, pending, m_write_buffer, m_write_buffer_offset,
                   accepted, m_kill_writer, writer, writerVars>>

\* pthread_cond_signal and pthread_cond_broadcast: there is one waiter at
\* most, and nothing is remembered when there is none.
WakeWriter ==
    writer' = IF writer = "waiting" THEN "woken" ELSE writer

\* Slip: the test asks whether the buffer is full, not whether n more fit.
FitsIgnoringSize(n) == m_write_buffer_offset < WriteBufferSize

Fits(n) == m_write_buffer_offset + n <= WriteBufferSize

Write(n) ==
    /\ jni = "idle"
    /\ accepted + n <= MaxSamples
    /\ pending' = n
    /\ \/ /\ n > WriteBufferSize
          /\ FlushToFifo("over_alloc")
       \/ /\ n <= WriteBufferSize
          /\ m_write_buffer # NoBuffer /\ ~Fits(n)
          /\ FlushToFifo("full_signal")
       \/ /\ n <= WriteBufferSize
          /\ m_write_buffer = NoBuffer \/ Fits(n)
          /\ jni' = "copy"
          /\ UNCHANGED <<after, next, m_write_buffer>>
    /\ UNCHANGED <<m_write_buffer_offset, accepted, m_fifo, m_kill_writer,
                   mutex, writer, writerVars>>

\* The oversized path allocates a buffer of its own and pushes it at once.
OverAlloc ==
    /\ jni = "over_alloc"
    /\ m_write_buffer' = [first |-> accepted + 1, cap |-> pending]
    /\ m_write_buffer_offset' = pending
    /\ accepted' = accepted + pending
    /\ jni' = "over_push"
    /\ UNCHANGED <<after, pending, next, m_fifo, m_kill_writer, mutex, writer,
                   writerVars>>

OverPush ==
    /\ jni = "over_push"
    /\ FlushToFifo("over_signal")
    /\ UNCHANGED <<pending, m_write_buffer_offset, accepted, m_fifo,
                   m_kill_writer, mutex, writer, writerVars>>

Signal ==
    /\ \/ jni \in {"over_signal", "flush_signal"} /\ jni' = "idle"
       \/ jni = "full_signal" /\ jni' = "copy"
    /\ WakeWriter
    /\ UNCHANGED <<callerVars, m_fifo, m_kill_writer, mutex, writerVars>>

\* Allocate a buffer if there is none, then copyBuffer() at the offset.
Copy ==
    /\ jni = "copy"
    /\ \/ /\ m_write_buffer = NoBuffer
          /\ m_write_buffer' = [first |-> accepted + 1,
                                cap |-> WriteBufferSize]
          /\ m_write_buffer_offset' = pending
       \/ /\ m_write_buffer # NoBuffer
          /\ m_write_buffer_offset' = m_write_buffer_offset + pending
          /\ UNCHANGED m_write_buffer
    /\ accepted' = accepted + pending
    /\ jni' = "idle"
    /\ UNCHANGED <<after, pending, next, m_fifo, m_kill_writer, mutex, writer,
                   writerVars>>

Flush ==
    /\ jni = "idle"
    /\ FlushToFifo("flush_signal")
    /\ UNCHANGED <<pending, m_write_buffer_offset, accepted, m_fifo,
                   m_kill_writer, mutex, writer, writerVars>>

\* Slip: the destructor kills the writer without flushing first.
DestroyUnflushed ==
    /\ jni = "idle"
    /\ jni' = "kill_lock"
    /\ UNCHANGED <<callerVars, m_fifo, m_kill_writer, mutex, writer,
                   writerVars>>

Destroy ==
    /\ jni = "idle"
    /\ FlushToFifo("kill_lock")
    /\ UNCHANGED <<pending, m_write_buffer_offset, accepted, m_fifo,
                   m_kill_writer, mutex, writer, writerVars>>

KillLock ==
    /\ jni = "kill_lock"
    /\ mutex = "none"
    /\ mutex' = "jni"
    /\ jni' = "kill_set"
    /\ UNCHANGED <<callerVars, m_fifo, m_kill_writer, writer, writerVars>>

KillSet ==
    /\ jni = "kill_set"
    /\ m_kill_writer' = TRUE
    /\ mutex' = "none"
    /\ jni' = "broadcast"
    /\ UNCHANGED <<callerVars, m_fifo, writer, writerVars>>

\* Slip: the flag is set and nobody is told.
BroadcastMissing ==
    /\ jni = "broadcast"
    /\ jni' = "join"
    /\ UNCHANGED <<callerVars, m_fifo, m_kill_writer, mutex, writer,
                   writerVars>>

Broadcast ==
    /\ jni = "broadcast"
    /\ WakeWriter
    /\ jni' = "join"
    /\ UNCHANGED <<callerVars, m_fifo, m_kill_writer, mutex, writerVars>>

\* pthread_join, then FLAC__stream_encoder_finish and the deletions.
Join ==
    /\ jni = "join"
    /\ writer = "terminated"
    /\ jni' = "destroyed"
    /\ UNCHANGED <<callerVars, m_fifo, m_kill_writer, mutex, writer,
                   writerVars>>

-----------------------------------------------------------------------------
(***************************************************************************)
(* The writer thread.                                                      *)
(***************************************************************************)

shared == <<m_fifo, m_kill_writer>>

\* Taking m_fifo_mutex: on entry, on return from pthread_cond_wait, and
\* after a grabbed list has been dealt with.
WriterLock ==
    /\ mutex = "none"
    /\ \/ writer = "start" /\ writer' = "enter"
       \/ writer \in {"woken", "relock"} /\ writer' = "grab"
    /\ mutex' = "writer"
    /\ UNCHANGED <<jni, callerVars, shared, writerVars>>

CondWait ==
    /\ writer \in {"enter", "sleep"}
    /\ writer' = "waiting"
    /\ mutex' = "none"
    /\ UNCHANGED <<jni, callerVars, shared, writerVars>>

\* POSIX lets pthread_cond_wait return without a signal.
SpuriousWakeup ==
    /\ writer = "waiting"
    /\ writer' = "woken"
    /\ UNCHANGED <<jni, callerVars, shared, mutex, writerVars>>

\* Slip: the list is taken and left in the FIFO as well.
GrabShared ==
    /\ writer = "grab"
    /\ m_fifo # <<>>
    /\ current' = m_fifo
    /\ retry' = 0
    /\ mutex' = "none"
    /\ writer' = "encode"
    /\ UNCHANGED <<jni, callerVars, shared, encoded, dropped, failed>>

Grab ==
    /\ writer = "grab"
    /\ m_fifo # <<>>
    /\ current' = m_fifo
    /\ m_fifo' = <<>>
    /\ retry' = 0
    /\ mutex' = "none"
    /\ writer' = "encode"
    /\ UNCHANGED <<jni, callerVars, m_kill_writer, encoded, dropped, failed>>

NothingToGrab ==
    /\ writer = "grab"
    /\ m_fifo = <<>>
    /\ writer' = "check"
    /\ UNCHANGED <<jni, callerVars, shared, mutex, writerVars>>

\* What process_interleaved() reads when it is told that the buffer holds
\* `fill' samples per channel: fill * Channels values, of which only the
\* first `fill' were ever stored.
ValuesRead(entry) ==
    [i \in 1..(entry.fill * Channels) |->
        IF i <= entry.fill THEN entry.first + i - 1 ELSE NoSample]

EncodeOk ==
    /\ writer = "encode"
    /\ current # <<>>
    /\ encoded' = encoded \o ValuesRead(Head(current))
    /\ current' = Tail(current)
    /\ retry' = 0
    /\ UNCHANGED <<jni, callerVars, shared, mutex, writer, dropped, failed>>

\* Slip: the retry counter is not compared with its limit.
EncodeFailForever ==
    /\ EncoderMayFail
    /\ writer = "encode"
    /\ current # <<>>
    /\ \E k \in 0..(Head(current).fill * Channels) :
          encoded' = encoded \o SubSeq(ValuesRead(Head(current)), 1, k)
    /\ retry' = retry + 1
    /\ failed' = TRUE
    /\ UNCHANGED <<jni, callerVars, shared, mutex, writer, current, dropped>>

\* A failed call may have taken any part of the buffer.  The writer retries
\* the same entry, and gives the list up when the retries are used up.
EncodeFail ==
    /\ EncoderMayFail
    /\ writer = "encode"
    /\ current # <<>>
    /\ \E k \in 0..(Head(current).fill * Channels) :
          encoded' = encoded \o SubSeq(ValuesRead(Head(current)), 1, k)
    /\ \/ retry < RetryLimit /\ retry' = retry + 1 /\ UNCHANGED writer
       \/ retry = RetryLimit /\ writer' = "free" /\ UNCHANGED retry
    /\ failed' = TRUE
    /\ UNCHANGED <<jni, callerVars, shared, mutex, current, dropped>>

EncodeDone ==
    /\ writer = "encode"
    /\ current = <<>>
    /\ writer' = "free"
    /\ UNCHANGED <<jni, callerVars, shared, mutex, writerVars>>

SamplesOf(entry) == entry.first..(entry.first + entry.fill - 1)

\* `delete fifo' walks the chain.  Entries the encoder has been through are
\* freed with nothing to lose, the ones behind a give-up lose their samples.
FreeEntry ==
    /\ writer = "free"
    /\ current # <<>>
    /\ dropped' = dropped \union SamplesOf(Head(current))
    /\ current' = Tail(current)
    /\ UNCHANGED <<jni, callerVars, shared, mutex, writer, retry, encoded,
                   failed>>

\* Slip: the FIFO is not looked at again after a list has been written.
FreeDoneNoRecheck ==
    /\ writer = "free"
    /\ current = <<>>
    /\ writer' = "check"
    /\ UNCHANGED <<jni, callerVars, shared, mutex, writerVars>>

FreeDone ==
    /\ writer = "free"
    /\ current = <<>>
    /\ writer' = "relock"
    /\ UNCHANGED <<jni, callerVars, shared, mutex, writerVars>>

\* The loop condition, evaluated with the mutex held.
CheckKill ==
    /\ writer = "check"
    /\ \/ ~m_kill_writer /\ writer' = "sleep" /\ UNCHANGED mutex
       \/ m_kill_writer /\ writer' = "dying" /\ mutex' = "none"
    /\ UNCHANGED <<jni, callerVars, shared, writerVars>>

Die ==
    /\ writer = "dying"
    /\ writer' = "terminated"
    /\ UNCHANGED <<jni, callerVars, shared, mutex, writerVars>>

-----------------------------------------------------------------------------

\* What the JNI thread does once a call is under way.
CallerStep == \/ PushLock \/ PushAppend \/ OverAlloc \/ OverPush \/ Signal
              \/ Copy \/ KillLock \/ KillSet \/ Broadcast \/ Join

WriterStep == \/ WriterLock \/ CondWait \/ Grab \/ NothingToGrab
              \/ EncodeOk \/ EncodeFail \/ EncodeDone
              \/ FreeEntry \/ FreeDone \/ CheckKill \/ Die

Next == \/ \E n \in WriteSizes : Write(n)
        \/ Flush
        \/ Destroy
        \/ CallerStep
        \/ WriterStep
        \/ SpuriousWakeup

Spec == Init /\ [][Next]_vars

\* Both threads keep running, and a thread blocked on the mutex gets it in the
\* end even if the other takes it again and again.  Nothing obliges the user
\* of the encoder to make another call, nor pthread_cond_wait to return
\* without a signal.
Fairness ==
    /\ WF_vars(CallerStep)
    /\ WF_vars(WriterStep)
    /\ SF_vars(PushLock)
    /\ SF_vars(KillLock)
    /\ SF_vars(WriterLock)

FairSpec == Spec /\ Fairness

-----------------------------------------------------------------------------
(***************************************************************************)
(* Safety.                                                                 *)
(***************************************************************************)

\* Samples are only ever stored inside the buffer they were meant for: the
\* fill count of a buffer, or of an entry made from it, stays within what was
\* allocated for it, whichever path of write() filled it (lines 273-312).
NoBufferOverrun ==
    /\ m_write_buffer # NoBuffer => m_write_buffer_offset <= m_write_buffer.cap
    /\ \A i \in 1..Len(m_fifo) : m_fifo[i].fill <= m_fifo[i].cap

\* The writer never goes back to sleep on work or on a kill request: it read
\* both under the mutex that it holds until it waits (lines 371-376, 326).
SleepsOnlyWhenIdle ==
    writer = "sleep" => m_fifo = <<>> /\ ~m_kill_writer

\* When the writer leaves its loop nothing is left to encode: the destructor
\* pushes its last buffer before it sets m_kill_writer (lines 216-219), and
\* the writer empties the FIFO before it looks at the flag (lines 331-376).
DrainedOnExit ==
    writer \in {"dying", "terminated"} =>
        /\ m_fifo = <<>> /\ current = <<>>
        /\ next = NoEntry /\ m_write_buffer = NoBuffer

\* The first sample that is still on its way to the encoder: in the list the
\* writer grabbed, else in the FIFO, else in the entry being pushed, else in
\* the write buffer.
Start(list, end) == IF list # <<>> THEN list[1].first ELSE end
BufferStart ==
    IF m_write_buffer # NoBuffer THEN m_write_buffer.first ELSE accepted + 1
NextStart == IF next # NoEntry THEN next.first ELSE BufferStart
FifoStart == Start(m_fifo, NextStart)
Frontier == Start(current, FifoStart)

IsEncoded(s) == \E i \in 1..Len(encoded) : encoded[i] = s

\* No sample gets lost between the threads: whatever is not on its way any
\* more was read by libFLAC or belonged to a list the writer gave up.
NoSampleVanishes ==
    \A s \in 1..(Frontier - 1) : IsEncoded(s) \/ s \in dropped

\* The same at the end: once the destructor is through, every sample that
\* write() took was read by libFLAC or belonged to a list given up.
AccountedForAtClose ==
    jni = "destroyed" => \A s \in 1..accepted : IsEncoded(s) \/ s \in dropped

\* The stream as its user sees it.
Stream == INSTANCE SampleStream
    WITH persisted <- encoded, closed <- (jni = "destroyed")

\* As long as libFLAC does not fail, a mono stream reaches the file in order,
\* without a gap or a repetition, and is complete when it is closed (lines
\* 211-236, 326-376, 395-446).
StreamSpec == Stream!Spec

\* FLAC/stream_encoder.h:1748 takes the number of samples in one channel:
\* the encoder only reads values that write() stored.
EncodesStoredValues == \A i \in 1..Len(encoded) : encoded[i] # NoSample

-----------------------------------------------------------------------------
(***************************************************************************)
(* Liveness.                                                               *)
(***************************************************************************)

\* The destructor returns (line 211: it destroys the encoder instance).
DestroyReturns == jni = "kill_lock" ~> jni = "destroyed"

\* It does when the writer had reached its first pthread_cond_wait by the
\* time of the broadcast, even if the encoder fails all the time.
DestroyReturnsOnceWriterWaited ==
    (jni = "broadcast" /\ writer \notin {"start", "enter"})
        ~> jni = "destroyed"

\* What flush() or a full buffer has pushed reaches the encoder (line 246: it
\* flushes to disk), if the writer had reached its first wait when it was
\* signalled: the signal may be sent outside the mutex, since the writer
\* looks at the FIFO again before it waits.
SignalReachesEncoder ==
    (jni \in {"flush_signal", "full_signal", "over_signal"} /\ m_fifo # <<>>
        /\ writer \notin {"start", "enter"}) ~> m_fifo = <<>>
=============================================================================
