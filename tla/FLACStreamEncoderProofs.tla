----------------------- MODULE FLACStreamEncoderProofs -----------------------
(***************************************************************************)
(* Proofs about the native encoder for every buffer size, set of write     *)
(* sizes, number of channels and retry limit: no sample vanishes, an       *)
(* encoder that does not fail implements SampleStream, and when the        *)
(* destructor ends and when what was pushed is taken up.                   *)
(***************************************************************************)
EXTENDS FLACStreamEncoder, SequenceTheorems, TLAPS

-----------------------------------------------------------------------------
(***************************************************************************)
(* The inductive invariant.                                                *)
(***************************************************************************)

\* The program points that hold m_fifo_mutex.
MutexInv ==
    /\ mutex = "writer" <=> writer \in {"enter", "sleep", "grab", "check"}
    /\ mutex = "jni" <=> jni \in {"push_append", "kill_set"}

\* What the JNI thread's program point says about its buffers.
CallerInv ==
    /\ next # NoEntry <=> jni \in {"push_lock", "push_append"}
    /\ m_kill_writer <=> jni \in {"broadcast", "join", "destroyed"}
    /\ m_write_buffer # NoBuffer => jni \in {"idle", "copy", "over_push"}
    /\ next # NoEntry => next.fill <= next.cap
    /\ jni = "copy" \/ jni = "full_signal"
         \/ (next # NoEntry /\ after = "full_signal")
           => pending <= WriteBufferSize
    /\ m_write_buffer # NoBuffer => m_write_buffer_offset <= m_write_buffer.cap
    /\ m_write_buffer # NoBuffer /\ jni \in {"idle", "copy"} =>
           m_write_buffer.cap = WriteBufferSize
    /\ m_write_buffer # NoBuffer /\ jni = "copy" => Fits(pending)

\* What the writer's program point says about the list and the FIFO.
WriterInv ==
    /\ current # <<>> => writer \in {"encode", "free"}
    /\ writer \in {"sleep", "check", "dying", "terminated"} => m_fifo = <<>>
    /\ writer = "sleep" => ~m_kill_writer
    /\ writer \in {"dying", "terminated"} => m_kill_writer
    /\ jni = "destroyed" => writer = "terminated"

\* Consecutive entries of a list follow each other without a gap, and what
\* comes after the list starts with sample `end'.
Linked(list, end) ==
    \A i \in 1..Len(list) :
        list[i].first + list[i].fill =
            IF i < Len(list) THEN list[i + 1].first ELSE end

\* The samples on their way are one interval that ends with the last sample
\* accepted, cut at the boundaries of the places they are in.
Chain ==
    /\ m_write_buffer # NoBuffer =>
           m_write_buffer.first + m_write_buffer_offset = accepted + 1
    /\ next # NoEntry => next.first + next.fill = BufferStart
    /\ Linked(m_fifo, NextStart)
    /\ Linked(current, FifoStart)

FillsFit == \A i \in 1..Len(m_fifo) : m_fifo[i].fill <= m_fifo[i].cap

IInv == /\ TypeOK
        /\ MutexInv
        /\ CallerInv
        /\ WriterInv
        /\ Chain
        /\ FillsFit
        /\ NoSampleVanishes

\* With one channel, and as long as libFLAC has not failed, it has read exactly
\* the samples before the frontier.
Exact ==
    /\ writer = "free" => current = <<>>
    /\ Len(encoded) = Frontier - 1
    /\ \A i \in 1..Len(encoded) : encoded[i] = i

-----------------------------------------------------------------------------
(***************************************************************************)
(* Lists of entries.                                                       *)
(***************************************************************************)

\* A sequence is empty if and only if its length is zero.
LEMMA LenZero ==
    ASSUME NEW S, NEW seq \in Seq(S)
    PROVE  seq = <<>> <=> Len(seq) = 0
  BY EmptySeq

\* Taking the head off a linked list moves its start to where the head ended:
\* what the writer does with `current' after each entry (line 366).
LEMMA TailLinked ==
    ASSUME NEW list \in Seq(Entry), NEW end \in Nat, list # <<>>,
           Linked(list, end)
    PROVE  /\ Linked(Tail(list), end)
           /\ Start(Tail(list), end) = Head(list).first + Head(list).fill
<1>1. Len(list) \in Nat \ {0} /\ Head(list) = list[1]
  BY EmptySeq
<1>2. /\ Tail(list) \in Seq(Entry)
      /\ Len(Tail(list)) = Len(list) - 1
      /\ \A i \in 1..Len(Tail(list)) : Tail(list)[i] = list[i + 1]
  BY HeadTailProperties
<1>3. Linked(Tail(list), end)
  BY <1>1, <1>2 DEF Linked
<1>4. CASE Len(list) = 1
  <2>1. Tail(list) = <<>>
    <3>1. Len(Tail(list)) = 0
      BY <1>2, <1>4
    <3> QED
      BY <1>2, <3>1, LenZero, Zenon
  <2> QED
    BY <1>1, <1>3, <1>4, <2>1 DEF Linked, Start
<1>5. CASE Len(list) # 1
  <2>1. Len(list) > 1
    <3>1. Len(list) \in Nat \ {0}
      BY <1>1
    <3>2. \A n \in Nat \ {0} : n # 1 => n > 1
      OBVIOUS
    <3> QED
      BY <1>5, <3>1, <3>2, Zenon
  <2>2. Tail(list) # <<>>
    <3>1. Len(Tail(list)) # 0
      BY <1>1, <1>2, <2>1
    <3> QED
      BY <1>2, <3>1, LenZero, Zenon
  <2>3. Tail(list)[1] = list[2]
    BY <1>1, <1>2, <2>1
  <2>4. list[1].first + list[1].fill = list[2].first
    BY <1>1, <2>1 DEF Linked
  <2> QED
    BY <1>1, <1>3, <2>2, <2>3, <2>4 DEF Start
<1> QED
  BY <1>4, <1>5

\* Appending the entry a linked list leads to keeps it linked, and its start
\* where it was (flush_to_fifo(), lines 426-432).
LEMMA AppendLinked ==
    ASSUME NEW list \in Seq(Entry), NEW e \in Entry, Linked(list, e.first),
           NEW end \in Nat, e.first + e.fill = end
    PROVE  /\ Linked(Append(list, e), end)
           /\ Start(Append(list, e), end) = Start(list, e.first)
<1>1. /\ Append(list, e) \in Seq(Entry)
      /\ Len(Append(list, e)) = Len(list) + 1
      /\ \A i \in 1..Len(list) : Append(list, e)[i] = list[i]
      /\ Append(list, e)[Len(list) + 1] = e
      /\ Len(list) \in Nat
  BY AppendProperties, LenProperties
<1>2. Linked(Append(list, e), end)
  BY <1>1 DEF Linked
<1>3. Append(list, e) # <<>>
  BY <1>1, EmptySeq
<1>4. CASE list = <<>>
  <2>1. Len(list) = 0
    BY <1>4
  <2>2. Append(list, e)[1] = e
    BY <1>1, <2>1
  <2> QED
    BY <1>2, <1>3, <1>4, <2>2 DEF Start
<1>5. CASE list # <<>>
  <2>1. 1 \in 1..Len(list)
    BY <1>5, EmptySeq
  <2>2. Append(list, e)[1] = list[1]
    BY <1>1, <2>1
  <2> QED
    BY <1>2, <1>3, <1>5, <2>2 DEF Start
<1> QED
  BY <1>2, <1>4, <1>5

\* The values libFLAC reads from an entry begin with the entry's samples.
LEMMA ValuesReadProps ==
    ASSUME NEW e \in Entry
    PROVE  /\ ValuesRead(e) \in Seq(Nat)
           /\ Len(ValuesRead(e)) = e.fill * Channels
           /\ e.fill <= e.fill * Channels
           /\ \A i \in 1..e.fill : ValuesRead(e)[i] = e.first + i - 1
<1>1. e.fill \in Nat /\ e.first \in Nat \ {0} /\ Channels \in Nat \ {0}
  BY EncoderAssumption DEF Entry
<1>2. e.fill * Channels \in Nat /\ e.fill <= e.fill * Channels
  <2>1. PICK c \in Nat : Channels = c + 1
    BY <1>1
  <2>2. e.fill * Channels = e.fill * c + e.fill /\ e.fill * c \in Nat
    BY <1>1, <2>1
  <2> QED
    BY <1>1, <2>2
<1> DEFINE n == e.fill * Channels
           v(i) == IF i <= e.fill THEN e.first + i - 1 ELSE NoSample
<1>3. ValuesRead(e) = [i \in 1..n |-> v(i)]
  BY DEF ValuesRead
<1>4. \A i \in 1..n : v(i) \in Nat
  BY <1>1 DEF NoSample
<1> HIDE DEF n, v
<1>5. ValuesRead(e) \in Seq(Nat) /\ Len(ValuesRead(e)) = n
  BY <1>2, <1>3, <1>4 DEF n
<1>6. \A i \in 1..e.fill : ValuesRead(e)[i] = e.first + i - 1
  BY <1>1, <1>2, <1>3 DEF n, v
<1> QED
  BY <1>2, <1>5, <1>6 DEF n

-----------------------------------------------------------------------------
(***************************************************************************)
(* Type correctness.                                                       *)
(***************************************************************************)

\* The initial state is well typed.
LEMMA InitType == Init => TypeOK
<1>1. <<>> \in Seq(Entry) /\ <<>> \in Seq(Nat)
  BY EmptySeq
<1> SUFFICES ASSUME Init
             PROVE  TypeOK
  OBVIOUS
<1>2. m_fifo \in Seq(Entry) /\ current \in Seq(Entry) /\ encoded \in Seq(Nat)
  BY <1>1 DEF Init
<1>3. retry \in 0..RetryLimit
  BY EncoderAssumption DEF Init
<1> QED
  BY <1>2, <1>3 DEF Init, TypeOK, JniPoints, Returns, WriterPoints

\* Entering flush_to_fifo() leaves the JNI thread's buffers well typed.
LEMMA FlushToFifoType ==
    ASSUME TypeOK, NEW return \in Returns, FlushToFifo(return)
    PROVE  /\ jni' \in JniPoints
           /\ after' \in Returns
           /\ next' \in Entry \union {NoEntry}
           /\ m_write_buffer' \in Buffer \union {NoBuffer}
  BY DEF TypeOK, FlushToFifo, JniPoints, Entry, Buffer

\* Every action keeps the types; only PushAppend needs more than the types,
\* namely that there is an entry to push.
LEMMA TypeStep == TypeOK /\ CallerInv /\ [Next]_vars => TypeOK'
<1> SUFFICES ASSUME TypeOK, CallerInv, [Next]_vars
             PROVE  TypeOK'
  OBVIOUS
<1> USE EncoderAssumption
    DEF TypeOK, callerVars, writerVars, shared, JniPoints, WriterPoints
<1>1. ASSUME NEW n \in WriteSizes, Write(n)
      PROVE  TypeOK'
  <2>1. pending' \in Nat
    BY <1>1 DEF Write
  <2>2. /\ jni' \in JniPoints
        /\ after' \in Returns
        /\ next' \in Entry \union {NoEntry}
        /\ m_write_buffer' \in Buffer \union {NoBuffer}
    <3>1. CASE FlushToFifo("over_alloc") \/ FlushToFifo("full_signal")
      BY <3>1, FlushToFifoType DEF Returns
    <3>2. CASE jni' = "copy" /\ UNCHANGED <<after, next, m_write_buffer>>
      BY <3>2
    <3> QED
      BY <1>1, <3>1, <3>2 DEF Write
  <2> QED
    BY <1>1, <2>1, <2>2 DEF Write
<1>2. CASE Flush
  BY <1>2, FlushToFifoType DEF Flush, Returns
<1>3. CASE Destroy
  BY <1>3, FlushToFifoType DEF Destroy, Returns
<1>4. CASE OverPush
  BY <1>4, FlushToFifoType DEF OverPush, Returns
<1>5. CASE PushLock
  BY <1>5 DEF PushLock
<1>6. CASE PushAppend
  <2>1. next \in Entry
    BY <1>6 DEF PushAppend, CallerInv
  <2>2. m_fifo' \in Seq(Entry)
    BY <1>6, <2>1, AppendProperties DEF PushAppend
  <2> QED
    BY <1>6, <2>2 DEF PushAppend
<1>7. CASE OverAlloc
  BY <1>7 DEF OverAlloc, Buffer
<1>8. CASE Signal
  BY <1>8 DEF Signal, WakeWriter
<1>9. CASE Copy
  BY <1>9 DEF Copy, Buffer
<1>10. CASE KillLock
  BY <1>10 DEF KillLock
<1>11. CASE KillSet
  BY <1>11 DEF KillSet
<1>12. CASE Broadcast
  BY <1>12 DEF Broadcast, WakeWriter
<1>13. CASE Join
  BY <1>13 DEF Join
<1>14. CASE WriterLock
  BY <1>14 DEF WriterLock
<1>15. CASE CondWait
  BY <1>15 DEF CondWait
<1>16. CASE Grab
  BY <1>16 DEF Grab
<1>17. CASE NothingToGrab
  BY <1>17 DEF NothingToGrab
<1>18. CASE EncodeOk
  <2>1. Head(current) \in Entry /\ Tail(current) \in Seq(Entry)
    BY <1>18 DEF EncodeOk
  <2>2. encoded' \in Seq(Nat)
    BY <1>18, <2>1, ValuesReadProps DEF EncodeOk
  <2> QED
    BY <1>18, <2>1, <2>2 DEF EncodeOk
<1>19. CASE EncodeFail
  <2>1. Head(current) \in Entry /\ Tail(current) \in Seq(Entry)
    BY <1>19 DEF EncodeFail
  <2>2. encoded' \in Seq(Nat)
    BY <1>19, <2>1, ValuesReadProps DEF EncodeFail
  <2> QED
    BY <1>19, <2>1, <2>2 DEF EncodeFail
<1>20. CASE EncodeDone
  BY <1>20 DEF EncodeDone
<1>21. CASE FreeEntry
  <2>1. Head(current) \in Entry /\ Tail(current) \in Seq(Entry)
    BY <1>21 DEF FreeEntry
  <2>2. SamplesOf(Head(current)) \subseteq Nat
    BY <2>1 DEF SamplesOf, Entry
  <2> QED
    BY <1>21, <2>1, <2>2 DEF FreeEntry
<1>22. CASE FreeDone
  BY <1>22 DEF FreeDone
<1>23. CASE CheckKill
  BY <1>23 DEF CheckKill
<1>24. CASE Die
  BY <1>24 DEF Die
<1>25. CASE SpuriousWakeup
  BY <1>25 DEF SpuriousWakeup
<1>26. CASE UNCHANGED vars
  BY <1>26 DEF vars
<1> QED
  BY <1>1, <1>2, <1>3, <1>4, <1>5, <1>6, <1>7, <1>8, <1>9, <1>10, <1>11,
     <1>12, <1>13, <1>14, <1>15, <1>16, <1>17, <1>18, <1>19, <1>20, <1>21,
     <1>22, <1>23, <1>24, <1>25, <1>26
     DEF Next, CallerStep, WriterStep

-----------------------------------------------------------------------------
(***************************************************************************)
(* Program points, the mutex and the buffers.                              *)
(***************************************************************************)

Control == MutexInv /\ CallerInv /\ WriterInv

\* Both threads start outside every critical section, with nothing buffered.
LEMMA InitControl == Init => Control
  BY DEF Init, Control, MutexInv, CallerInv, WriterInv, NoEntry, NoBuffer

\* The two threads keep out of each other's way: each action preserves what
\* the program points say about the mutex, the buffers, the list and the FIFO.
LEMMA ControlStep == TypeOK /\ Control /\ [Next]_vars => Control'
<1> SUFFICES ASSUME TypeOK, Control, [Next]_vars
             PROVE  Control'
  OBVIOUS
<1> USE EncoderAssumption
    DEF Control, MutexInv, CallerInv, WriterInv, TypeOK, NoEntry, NoBuffer,
        Entry, Buffer, Returns, Fits, callerVars, writerVars, shared
<1>1. ASSUME NEW n \in WriteSizes, Write(n)
      PROVE  Control'
  BY <1>1 DEF Write, FlushToFifo
<1>2. CASE Flush
  BY <1>2 DEF Flush, FlushToFifo
<1>3. CASE Destroy
  BY <1>3 DEF Destroy, FlushToFifo
<1>4. CASE PushLock
  BY <1>4 DEF PushLock
<1>5. CASE PushAppend
  BY <1>5 DEF PushAppend
<1>6. CASE OverAlloc
  BY <1>6 DEF OverAlloc
<1>7. CASE OverPush
  BY <1>7 DEF OverPush, FlushToFifo
<1>8. CASE Signal
  BY <1>8 DEF Signal, WakeWriter
<1>9. CASE Copy
  BY <1>9 DEF Copy
<1>10. CASE KillLock
  BY <1>10 DEF KillLock
<1>11. CASE KillSet
  BY <1>11 DEF KillSet
<1>12. CASE Broadcast
  BY <1>12 DEF Broadcast, WakeWriter
<1>13. CASE Join
  BY <1>13 DEF Join
<1>14. CASE WriterLock
  BY <1>14 DEF WriterLock
<1>15. CASE CondWait
  BY <1>15 DEF CondWait
<1>16. CASE Grab
  BY <1>16 DEF Grab
<1>17. CASE NothingToGrab
  BY <1>17 DEF NothingToGrab
<1>18. CASE EncodeOk
  BY <1>18 DEF EncodeOk
<1>19. CASE EncodeFail
  BY <1>19 DEF EncodeFail
<1>20. CASE EncodeDone
  BY <1>20 DEF EncodeDone
<1>21. CASE FreeEntry
  BY <1>21 DEF FreeEntry
<1>22. CASE FreeDone
  BY <1>22 DEF FreeDone
<1>23. CASE CheckKill
  BY <1>23 DEF CheckKill
<1>24. CASE Die
  BY <1>24 DEF Die
<1>25. CASE SpuriousWakeup
  BY <1>25 DEF SpuriousWakeup
<1>26. CASE UNCHANGED vars
  BY <1>26 DEF vars
<1> QED
  BY <1>1, <1>2, <1>3, <1>4, <1>5, <1>6, <1>7, <1>8, <1>9, <1>10, <1>11,
     <1>12, <1>13, <1>14, <1>15, <1>16, <1>17, <1>18, <1>19, <1>20, <1>21,
     <1>22, <1>23, <1>24, <1>25, <1>26
     DEF Next, CallerStep, WriterStep

-----------------------------------------------------------------------------
(***************************************************************************)
(* The samples on their way form one interval.                             *)
(***************************************************************************)

\* The parts of Chain about the JNI thread's own buffers.
CallerChain ==
    /\ m_write_buffer # NoBuffer =>
           m_write_buffer.first + m_write_buffer_offset = accepted + 1
    /\ next # NoEntry => next.first + next.fill = BufferStart

\* Initially nothing is on its way and the first sample is number 1.
LEMMA InitChain == Init => Chain /\ FillsFit /\ NoSampleVanishes /\ Frontier = 1
  BY DEF Init, Chain, FillsFit, NoSampleVanishes, Linked, Frontier, FifoStart,
         NextStart, BufferStart, Start, NoEntry, NoBuffer

\* The boundaries are sample numbers.
LEMMA StartNat ==
    ASSUME TypeOK
    PROVE  /\ BufferStart \in Nat /\ NextStart \in Nat
           /\ FifoStart \in Nat /\ Frontier \in Nat
<1>1. BufferStart \in Nat /\ NextStart \in Nat
  BY DEF TypeOK, BufferStart, NextStart, Buffer, Entry
<1>2. \A list \in Seq(Entry) : list # <<>> => list[1].first \in Nat
  <2>1. ASSUME NEW list \in Seq(Entry), list # <<>>
        PROVE  list[1] \in Entry
    <3>1. 1 \in 1..Len(list)
      BY <2>1, EmptySeq
    <3> QED
      BY <3>1, ElementOfSeq
  <2> QED
    BY <2>1 DEF Entry
<1>3. FifoStart \in Nat
  BY <1>1, <1>2 DEF TypeOK, FifoStart, Start
<1> QED
  BY <1>1, <1>2, <1>3 DEF TypeOK, Frontier, Start

\* A step that leaves the lists alone and moves samples between the JNI
\* thread's buffers moves no boundary the lists depend on.
LEMMA ChainFrame ==
    ASSUME Chain, UNCHANGED <<m_fifo, current>>, NextStart' = NextStart,
           CallerChain'
    PROVE  Chain' /\ Frontier' = Frontier
<1>1. FifoStart' = FifoStart
  BY DEF FifoStart, Start
<1>2. Frontier' = Frontier
  BY <1>1 DEF Frontier, Start
<1> QED
  BY <1>1, <1>2 DEF Chain, CallerChain, Linked

\* flush_to_fifo() hands the write buffer's interval to the new entry.
LEMMA FlushToFifoChain ==
    ASSUME TypeOK, Control, Chain, NEW return \in Returns,
           jni \in {"idle", "over_push"}, FlushToFifo(return),
           UNCHANGED <<m_fifo, current, accepted, m_write_buffer_offset>>
    PROVE  Chain' /\ Frontier' = Frontier
<1>1. next = NoEntry
  BY DEF Control, CallerInv
<1>2. NextStart' = NextStart
  BY <1>1 DEF FlushToFifo, NextStart, BufferStart, TypeOK, Buffer, NoEntry,
              NoBuffer
<1>3. CallerChain'
  BY <1>1 DEF FlushToFifo, CallerChain, Chain, BufferStart, TypeOK, Buffer,
              NoEntry, NoBuffer
<1> QED
  BY <1>2, <1>3, ChainFrame

\* Taking the head off the grabbed list moves the frontier past it.
LEMMA TakeEntry ==
    ASSUME TypeOK, Chain, EncodeOk \/ FreeEntry
    PROVE  Chain' /\ Frontier' = Frontier + Head(current).fill
<1>1. /\ UNCHANGED <<callerVars, shared>>
      /\ current # <<>> /\ current' = Tail(current)
  BY DEF EncodeOk, FreeEntry
<1>2. NextStart' = NextStart /\ CallerChain'
  BY <1>1 DEF NextStart, BufferStart, CallerChain, Chain, callerVars
<1>3. FifoStart' = FifoStart
  BY <1>1, <1>2 DEF FifoStart, Start, shared
<1>4. /\ Linked(Tail(current), FifoStart)
      /\ Start(Tail(current), FifoStart)
             = Head(current).first + Head(current).fill
  BY <1>1, StartNat, TailLinked DEF Chain, TypeOK
<1>5. Frontier = Head(current).first
  BY <1>1 DEF Frontier, Start, TypeOK
<1>6. Frontier' = Frontier + Head(current).fill
  BY <1>1, <1>3, <1>4, <1>5 DEF Frontier
<1>7. Linked(current', FifoStart')
  BY <1>1, <1>3, <1>4
<1>8. Linked(m_fifo', NextStart')
  BY <1>1, <1>2 DEF Chain, shared
<1> QED
  BY <1>2, <1>6, <1>7, <1>8 DEF Chain, CallerChain

\* What an action may do to the frontier: only encoding or freeing an entry
\* moves it, by the entry's length.
FrontierMove ==
    \/ Frontier' = Frontier
    \/ /\ EncodeOk \/ FreeEntry
       /\ Frontier' = Frontier + Head(current).fill

\* No action tears the interval of samples on their way.
LEMMA ChainStep == TypeOK /\ Control /\ Chain /\ [Next]_vars => Chain' /\ FrontierMove
<1> SUFFICES ASSUME TypeOK, Control, Chain, [Next]_vars
             PROVE  Chain' /\ FrontierMove
  OBVIOUS
<1>f. FrontierMove <=> \/ Frontier' = Frontier
                      \/ /\ EncodeOk \/ FreeEntry
                         /\ Frontier' = Frontier + Head(current).fill
  BY DEF FrontierMove
<1>1. ASSUME NEW n \in WriteSizes, Write(n)
      PROVE  Chain' /\ Frontier' = Frontier
  <2>1. CASE FlushToFifo("over_alloc") \/ FlushToFifo("full_signal")
    BY <1>1, <2>1, FlushToFifoChain DEF Write, writerVars, Returns
  <2>2. CASE UNCHANGED <<after, next, m_write_buffer>>
    <3>1. NextStart' = NextStart /\ CallerChain'
      BY <1>1, <2>2 DEF Write, NextStart, BufferStart, CallerChain, Chain
    <3> QED
      BY <1>1, <2>2, <3>1, ChainFrame DEF Write, writerVars
  <2> QED
    BY <1>1, <2>1, <2>2 DEF Write
<1>2. CASE Flush
  BY <1>2, FlushToFifoChain, <1>f DEF Flush, writerVars, Returns
<1>3. CASE Destroy
  BY <1>3, FlushToFifoChain, <1>f DEF Destroy, writerVars, Returns
<1>4. CASE OverPush
  BY <1>4, FlushToFifoChain, <1>f DEF OverPush, writerVars, Returns
<1>5. CASE PushAppend
  <2>1. next \in Entry /\ m_write_buffer = NoBuffer
    BY <1>5 DEF PushAppend, TypeOK, Control, CallerInv
  <2>2. next # NoEntry
    BY <1>5 DEF PushAppend, Control, CallerInv
  <2>3. /\ NextStart = next.first
        /\ NextStart' = BufferStart
        /\ next.first + next.fill = BufferStart
        /\ BufferStart \in Nat
    BY <1>5, <2>1, <2>2, StartNat
       DEF PushAppend, NextStart, BufferStart, Chain
  <2>4. /\ Linked(Append(m_fifo, next), BufferStart)
        /\ Start(Append(m_fifo, next), BufferStart) = Start(m_fifo, next.first)
    BY <2>1, <2>3, AppendLinked DEF TypeOK, Chain
  <2>5. FifoStart' = FifoStart
    BY <1>5, <2>3, <2>4 DEF PushAppend, FifoStart
  <2>6. Frontier' = Frontier
    BY <1>5, <2>5 DEF PushAppend, Frontier, Start, writerVars
  <2>7. CallerChain'
    BY <1>5, <2>1 DEF PushAppend, CallerChain
  <2>8. Linked(m_fifo', NextStart')
    BY <1>5, <2>3, <2>4 DEF PushAppend
  <2>9. Linked(current', FifoStart')
    BY <1>5, <2>5 DEF PushAppend, Chain, writerVars
  <2> QED
    BY <2>6, <2>7, <2>8, <2>9, <1>f DEF Chain, CallerChain
<1>6. CASE OverAlloc
  <2>1. next = NoEntry
    BY <1>6 DEF OverAlloc, Control, CallerInv
  <2>2. NextStart' = NextStart /\ CallerChain'
    BY <1>6, <2>1 DEF OverAlloc, NextStart, BufferStart, CallerChain, Chain, TypeOK,
                     Buffer, NoBuffer, Control, CallerInv
  <2> QED
    BY <1>6, <2>2, ChainFrame, <1>f DEF OverAlloc, writerVars
<1>7. CASE Copy
  <2>1. next = NoEntry /\ next' = NoEntry
    BY <1>7 DEF Copy, Control, CallerInv
  <2>2. CASE m_write_buffer = NoBuffer
    <3>1. /\ m_write_buffer' = [first |-> accepted + 1, cap |-> WriteBufferSize]
          /\ m_write_buffer_offset' = pending
          /\ accepted' = accepted + pending
      BY <1>7, <2>2 DEF Copy
    <3>2. m_write_buffer'.first = accepted + 1 /\ m_write_buffer' # NoBuffer
      BY <3>1 DEF NoBuffer, TypeOK
    <3>3. NextStart' = NextStart /\ CallerChain'
      BY <2>1, <2>2, <3>1, <3>2
         DEF NextStart, BufferStart, CallerChain, TypeOK
    <3> QED
      BY <1>7, <3>3, ChainFrame, <1>f DEF Copy, writerVars
  <2>3. CASE m_write_buffer # NoBuffer
    <3>1. /\ m_write_buffer' = m_write_buffer
          /\ m_write_buffer_offset' = m_write_buffer_offset + pending
          /\ accepted' = accepted + pending
      BY <1>7, <2>3 DEF Copy
    <3>2. m_write_buffer.first \in Nat
      BY <2>3 DEF TypeOK, Buffer
    <3>3. NextStart' = NextStart
      BY <2>1, <2>3, <3>1 DEF NextStart, BufferStart
    <3>4. m_write_buffer.first + m_write_buffer_offset = accepted + 1
      BY <2>3 DEF Chain
    <3>5. m_write_buffer'.first + m_write_buffer_offset' = accepted' + 1
      <4>1. /\ m_write_buffer_offset \in Nat /\ pending \in Nat
            /\ accepted \in Nat
        BY DEF TypeOK
      <4>2. m_write_buffer.first + (m_write_buffer_offset + pending)
                = (accepted + pending) + 1
        BY <3>2, <3>4, <4>1
      <4> QED
        BY <3>1, <4>2
    <3>6. CallerChain'
      BY <2>1, <3>5 DEF CallerChain
    <3> QED
      BY <1>7, <3>3, <3>6, ChainFrame, <1>f DEF Copy, writerVars
  <2> QED
    BY <2>2, <2>3
<1>8. CASE Grab
  <2>1. current = <<>>
    BY <1>8 DEF Grab, Control, WriterInv
  <2>2. NextStart' = NextStart /\ CallerChain'
    BY <1>8 DEF Grab, NextStart, BufferStart, CallerChain, Chain, callerVars
  <2>3. FifoStart' = NextStart
    BY <1>8, <2>2 DEF Grab, FifoStart, Start
  <2>4. Frontier' = Frontier
    BY <1>8, <2>1, <2>2, <2>3 DEF Grab, Frontier, FifoStart, Start
  <2>5. Linked(current', FifoStart')
    BY <1>8, <2>3 DEF Grab, Chain
  <2>6. Linked(m_fifo', NextStart')
    BY <1>8 DEF Grab, Linked
  <2> QED
    BY <2>2, <2>4, <2>5, <2>6, <1>f DEF Chain, CallerChain
<1>9. CASE EncodeOk
  BY <1>9, TakeEntry, <1>f
<1>10. CASE FreeEntry
  BY <1>10, TakeEntry, <1>f
<1>11. CASE UNCHANGED <<next, m_write_buffer, m_write_buffer_offset,
                        accepted, m_fifo, current>>
  <2>1. NextStart' = NextStart /\ CallerChain'
    BY <1>11 DEF NextStart, BufferStart, CallerChain, Chain
  <2> QED
    BY <1>11, <2>1, ChainFrame, <1>f
<1> QED
  BY <1>1, <1>2, <1>3, <1>4, <1>5, <1>6, <1>7, <1>8, <1>9, <1>10, <1>11, <1>f
     DEF Next, CallerStep, WriterStep, PushLock, Signal, KillLock, KillSet,
         Broadcast, Join, WriterLock, CondWait, NothingToGrab, EncodeFail,
         EncodeDone, FreeDone, CheckKill, Die, SpuriousWakeup, vars,
         callerVars, writerVars, shared

-----------------------------------------------------------------------------
(***************************************************************************)
(* Buffers are not overrun.                                                *)
(***************************************************************************)

\* An entry gets the fill count and the capacity of the buffer it takes over.
LEMMA FillsFitStep == TypeOK /\ Control /\ FillsFit /\ [Next]_vars => FillsFit'
<1> SUFFICES ASSUME TypeOK, Control, FillsFit, [Next]_vars
             PROVE  FillsFit'
  OBVIOUS
<1>1. CASE PushAppend
  <2>1. next \in Entry /\ next.fill <= next.cap
    BY <1>1 DEF PushAppend, TypeOK, Control, CallerInv
  <2>2. /\ Len(m_fifo') = Len(m_fifo) + 1
        /\ \A i \in 1..Len(m_fifo) : m_fifo'[i] = m_fifo[i]
        /\ m_fifo'[Len(m_fifo) + 1] = next
        /\ Len(m_fifo) \in Nat
    BY <1>1, <2>1, AppendProperties, LenProperties DEF PushAppend, TypeOK
  <2> QED
    BY <2>1, <2>2 DEF FillsFit
<1>2. CASE Grab
  BY <1>2 DEF Grab, FillsFit
<1>3. CASE UNCHANGED m_fifo
  BY <1>3 DEF FillsFit
<1> QED
  BY <1>1, <1>2, <1>3
     DEF Next, Write, Flush, Destroy, CallerStep, WriterStep, PushLock,
         OverAlloc, OverPush, Signal, Copy, KillLock, KillSet, Broadcast, Join,
         WriterLock, CondWait, NothingToGrab, EncodeOk, EncodeFail, EncodeDone,
         FreeEntry, FreeDone, CheckKill, Die, SpuriousWakeup, vars, shared

-----------------------------------------------------------------------------
(***************************************************************************)
(* No sample vanishes.                                                     *)
(***************************************************************************)

\* libFLAC cannot be made to forget what it has read, and what was given up
\* stays given up.
LEMMA HistoryGrows ==
    ASSUME TypeOK, [Next]_vars
    PROVE  /\ Len(encoded) <= Len(encoded')
           /\ \A i \in 1..Len(encoded) : encoded'[i] = encoded[i]
           /\ dropped \subseteq dropped'
<1>1. ASSUME NEW t \in Seq(Nat), encoded' = encoded \o t
      PROVE  /\ Len(encoded) <= Len(encoded')
             /\ \A i \in 1..Len(encoded) : encoded'[i] = encoded[i]
  BY <1>1, ConcatProperties, LenProperties DEF TypeOK
<1>2. CASE EncodeOk
  <2>1. Head(current) \in Entry
    BY <1>2, HeadTailProperties DEF EncodeOk, TypeOK
  <2> QED
    BY <1>1, <1>2, <2>1, ValuesReadProps DEF EncodeOk
<1>3. CASE EncodeFail
  <2>1. Head(current) \in Entry
    BY <1>3, HeadTailProperties DEF EncodeFail, TypeOK
  <2>2. PICK k \in 0..(Head(current).fill * Channels) :
            encoded' = encoded \o SubSeq(ValuesRead(Head(current)), 1, k)
    BY <1>3 DEF EncodeFail
  <2>3. SubSeq(ValuesRead(Head(current)), 1, k) \in Seq(Nat)
    <3>1. /\ ValuesRead(Head(current)) \in Seq(Nat)
          /\ Len(ValuesRead(Head(current))) = Head(current).fill * Channels
      BY <2>1, ValuesReadProps
    <3>2. \A i \in 1..k : ValuesRead(Head(current))[i] \in Nat
      BY <3>1, ElementOfSeq, LenProperties
    <3> QED
      BY <3>1, <3>2, SubSeqProperties
  <2> QED
    BY <1>1, <1>3, <2>2, <2>3 DEF EncodeFail
<1>4. CASE FreeEntry
  BY <1>4, LenProperties DEF FreeEntry, TypeOK
<1>5. CASE UNCHANGED <<encoded, dropped>>
  BY <1>5, LenProperties DEF TypeOK
<1> QED
  BY <1>2, <1>3, <1>4, <1>5
     DEF Next, Write, Flush, Destroy, CallerStep, WriterStep, PushLock,
         PushAppend, OverAlloc, OverPush, Signal, Copy, KillLock, KillSet,
         Broadcast, Join, WriterLock, CondWait, Grab, NothingToGrab,
         EncodeDone, FreeDone, CheckKill, Die, SpuriousWakeup, vars, writerVars

\* The frontier only passes samples that were read or given up.
LEMMA VanishStep ==
    TypeOK /\ Control /\ Chain /\ NoSampleVanishes /\ [Next]_vars
        => NoSampleVanishes'
<1> SUFFICES ASSUME TypeOK, Control, Chain, NoSampleVanishes, [Next]_vars,
                    NEW s \in 1..(Frontier' - 1)
             PROVE  IsEncoded(s)' \/ s \in dropped'
  BY DEF NoSampleVanishes
<1>0. Frontier \in Nat /\ Len(encoded) \in Nat
  BY StartNat, LenProperties DEF TypeOK
<1>1. FrontierMove
  BY ChainStep
<1>2. CASE s \in 1..(Frontier - 1)
  <2>1. CASE IsEncoded(s)
    <3>1. PICK i \in 1..Len(encoded) : encoded[i] = s
      BY <2>1 DEF IsEncoded
    <3>2. Len(encoded') \in Nat
      BY TypeStep, LenProperties DEF TypeOK, Control
    <3>3. i \in 1..Len(encoded') /\ encoded'[i] = s
      BY <1>0, <3>1, <3>2, HistoryGrows
    <3> QED
      BY <3>3 DEF IsEncoded
  <2>2. CASE s \in dropped
    BY <2>2, HistoryGrows
  <2> QED
    BY <1>2, <2>1, <2>2 DEF NoSampleVanishes
<1>3. CASE ~(s \in 1..(Frontier - 1))
  <2>1. /\ EncodeOk \/ FreeEntry
        /\ Frontier' = Frontier + Head(current).fill
    BY <1>1, <1>3 DEF FrontierMove
  <2>2. /\ Head(current) \in Entry
        /\ Frontier = Head(current).first
    <3>1. current \in Seq(Entry) /\ current # <<>>
      BY <2>1 DEF EncodeOk, FreeEntry, TypeOK
    <3> QED
      BY <3>1, HeadTailProperties DEF Frontier, Start
  <2> DEFINE e == Head(current)
  <2>3. /\ e.first \in Nat /\ e.fill \in Nat
        /\ s >= e.first /\ s < e.first + e.fill /\ s \in Nat
    BY <1>0, <1>3, <2>1, <2>2 DEF Entry
  <2>4. CASE FreeEntry
    BY <2>3, <2>4 DEF FreeEntry, SamplesOf
  <2>5. CASE EncodeOk
    <3> DEFINE i == s - e.first + 1
               v == ValuesRead(e)
    <3>1. i \in 1..e.fill
      BY <2>3
    <3>2. /\ v \in Seq(Nat) /\ Len(v) >= e.fill
          /\ v[i] = e.first + i - 1
      BY <2>2, <3>1, ValuesReadProps
    <3>3. encoded' = encoded \o v
      BY <2>5 DEF EncodeOk
    <3>4. v[i] = s
      BY <2>3, <3>2
    <3> HIDE DEF i, v, e
    <3>5. /\ Len(encoded') = Len(encoded) + Len(v)
          /\ \A j \in 1..(Len(encoded) + Len(v)) :
                 encoded'[j] = IF j <= Len(encoded) THEN encoded[j]
                               ELSE v[j - Len(encoded)]
      BY <3>2, <3>3, ConcatProperties DEF TypeOK
    <3>6. Len(v) \in Nat /\ i \in Nat /\ i >= 1 /\ i <= Len(v)
      BY <2>3, <3>1, <3>2, LenProperties
    <3>7. /\ Len(encoded) + i \in 1..Len(encoded')
          /\ encoded'[Len(encoded) + i] = s
      BY <1>0, <3>4, <3>5, <3>6
    <3> QED
      BY <3>7 DEF IsEncoded
  <2> QED
    BY <2>1, <2>4, <2>5
<1> QED
  BY <1>2, <1>3

-----------------------------------------------------------------------------
(***************************************************************************)
(* The theorems.                                                           *)
(***************************************************************************)

\* The inductive invariant holds in every reachable state.
THEOREM Invariance == Spec => []IInv
<1>1. Init => IInv
  BY InitType, InitControl, InitChain DEF IInv, Control
<1>2. IInv /\ [Next]_vars => IInv'
  BY TypeStep, ControlStep, ChainStep, FillsFitStep, VanishStep
     DEF IInv, Control
<1> QED
  BY <1>1, <1>2, PTL DEF Spec

\* Every variable keeps its type, whatever the sizes and the interleaving.
THEOREM TypeCorrectness == Spec => []TypeOK
<1>1. IInv => TypeOK
  BY DEF IInv
<1> QED
  BY <1>1, Invariance, PTL

\* write() and flush_to_fifo() keep every fill count within its allocation.
THEOREM BuffersNotOverrun == Spec => []NoBufferOverrun
<1>1. IInv => NoBufferOverrun
  BY DEF IInv, CallerInv, FillsFit, NoBufferOverrun
<1> QED
  BY <1>1, Invariance, PTL

\* The writer never goes to sleep in front of work or of a kill request.
THEOREM NoSleepOnWork == Spec => []SleepsOnlyWhenIdle
<1>1. IInv => SleepsOnlyWhenIdle
  BY DEF IInv, WriterInv, SleepsOnlyWhenIdle
<1> QED
  BY <1>1, Invariance, PTL

\* The writer leaves its loop only after the destructor's last push has been
\* taken from the FIFO.
THEOREM Drained == Spec => []DrainedOnExit
<1>1. IInv => DrainedOnExit
  BY DEF IInv, WriterInv, CallerInv, DrainedOnExit
<1> QED
  BY <1>1, Invariance, PTL

\* No sample gets lost between write() and libFLAC unless its list is given
\* up after RetryLimit retries.
THEOREM NothingVanishes == Spec => []NoSampleVanishes
<1>1. IInv => NoSampleVanishes
  BY DEF IInv
<1> QED
  BY <1>1, Invariance, PTL

\* A stream whose destructor has returned accounts for every sample accepted.
THEOREM ClosedAccountsForAll == Spec => []AccountedForAtClose
<1>1. IInv => AccountedForAtClose
  <2> SUFFICES ASSUME IInv, jni = "destroyed"
               PROVE  Frontier = accepted + 1
    BY DEF IInv, NoSampleVanishes, AccountedForAtClose, TypeOK
  <2>1. m_fifo = <<>> /\ current = <<>>
    BY DEF IInv, WriterInv
  <2>2. next = NoEntry /\ m_write_buffer = NoBuffer
    BY DEF IInv, CallerInv
  <2> QED
    BY <2>1, <2>2 DEF Frontier, FifoStart, NextStart, BufferStart, Start
<1> QED
  BY <1>1, Invariance, PTL

-----------------------------------------------------------------------------
(***************************************************************************)
(* The encoder implements SampleStream.                                    *)
(***************************************************************************)

\* Initially libFLAC has read nothing and the frontier is sample 1.
LEMMA InitExact == Init => Exact
  BY InitChain DEF Init, Exact

\* As long as a mono encoder has not failed, each entry is read once, from the
\* frontier on.
LEMMA ExactStep ==
    ASSUME Channels = 1, ~failed', TypeOK, Control, Chain, Exact, [Next]_vars
    PROVE  Exact'
<1>0. /\ Frontier \in Nat /\ Len(encoded) \in Nat
      /\ Len(encoded) = Frontier - 1
  BY StartNat, LenProperties DEF TypeOK, Exact
<1>1. FrontierMove
  BY ChainStep
<1>2. writer' = "free" => current' = <<>>
  BY DEF Exact, Control, WriterInv, Next, Write, Flush, Destroy,
         CallerStep, WriterStep, PushLock, PushAppend, OverAlloc, OverPush,
         Signal, WakeWriter, Copy, KillLock, KillSet, Broadcast, Join,
         WriterLock, CondWait, Grab, NothingToGrab, EncodeOk, EncodeFail,
         EncodeDone, FreeEntry, FreeDone, CheckKill, Die, SpuriousWakeup,
         vars, writerVars
<1>3. CASE EncodeOk
  <2>1. /\ current \in Seq(Entry) /\ current # <<>>
        /\ encoded' = encoded \o ValuesRead(Head(current))
    BY <1>3 DEF EncodeOk, TypeOK
  <2>2. Head(current) \in Entry /\ Frontier = Head(current).first
    BY <2>1, HeadTailProperties DEF Frontier, Start
  <2> DEFINE e == Head(current)
             v == ValuesRead(e)
  <2>3. e.first \in Nat /\ e.fill \in Nat
    BY <2>2 DEF Entry
  <2>4. /\ v \in Seq(Nat) /\ Len(v) = e.fill
        /\ \A i \in 1..e.fill : v[i] = e.first + i - 1
    BY <2>2, <2>3, ValuesReadProps
  <2>5. Frontier' = Frontier + e.fill
    BY <1>3, TakeEntry
  <2> HIDE DEF e, v
  <2>6. /\ Len(encoded') = Len(encoded) + Len(v)
        /\ \A j \in 1..(Len(encoded) + Len(v)) :
               encoded'[j] = IF j <= Len(encoded) THEN encoded[j]
                             ELSE v[j - Len(encoded)]
    BY <2>1, <2>4, ConcatProperties DEF TypeOK, e, v
  <2>7. Len(encoded') = Frontier' - 1
    BY <1>0, <2>3, <2>4, <2>5, <2>6
  <2>8. \A j \in 1..Len(encoded') : encoded'[j] = j
    <3> SUFFICES ASSUME NEW j \in 1..Len(encoded')
                 PROVE  encoded'[j] = j
      OBVIOUS
    <3>1. CASE j <= Len(encoded)
      BY <1>0, <2>3, <2>4, <2>6, <3>1 DEF Exact
    <3>2. CASE j > Len(encoded)
      <4>1. j - Len(encoded) \in 1..e.fill
        BY <1>0, <2>3, <2>4, <2>6, <3>2
      <4>2. encoded'[j] = e.first + (j - Len(encoded)) - 1
        <5>1. encoded'[j] = v[j - Len(encoded)]
          BY <1>0, <2>3, <2>4, <2>6, <3>2
        <5> QED
          BY <2>4, <4>1, <5>1
      <4> QED
        BY <1>0, <2>2, <2>3, <4>1, <4>2 DEF e
    <3> QED
      BY <1>0, <2>3, <2>4, <2>6, <3>1, <3>2
  <2> QED
    BY <1>2, <2>7, <2>8 DEF Exact
<1>4. CASE ~EncodeOk
  <2>1. encoded' = encoded
    BY <1>4 DEF Next, Write, Flush, Destroy, CallerStep, WriterStep,
         PushLock, PushAppend, OverAlloc, OverPush, Signal, Copy, KillLock,
         KillSet, Broadcast, Join, WriterLock, CondWait, Grab, NothingToGrab,
         EncodeFail, EncodeDone, FreeEntry, FreeDone, CheckKill, Die,
         SpuriousWakeup, vars, writerVars
  <2>2. ~FreeEntry
    BY DEF Exact, FreeEntry
  <2>3. Frontier' = Frontier
    BY <1>1, <1>4, <2>2 DEF FrontierMove
  <2> QED
    BY <1>2, <2>1, <2>3 DEF Exact
<1> QED
  BY <1>3, <1>4

\* Nothing in the lists lies beyond the samples accepted so far.
Bounded ==
    /\ \A i \in 1..Len(m_fifo) : m_fifo[i].first + m_fifo[i].fill <= accepted + 1
    /\ \A i \in 1..Len(current) :
           current[i].first + current[i].fill <= accepted + 1

\* No step puts an entry beyond the samples accepted.
LEMMA BoundedStep ==
    ASSUME TypeOK, Control, Chain, Bounded, [Next]_vars
    PROVE  Bounded'
<1>0. accepted \in Nat /\ accepted' \in Nat /\ accepted <= accepted'
  <2>1. accepted' \in Nat
    BY TypeStep DEF Control, TypeOK
  <2>2. accepted' = accepted \/ accepted' = accepted + pending
    BY DEF Next, Write, Flush, Destroy, CallerStep, WriterStep, PushLock,
       PushAppend, OverAlloc, OverPush, Signal, Copy, KillLock, KillSet,
       Broadcast, Join, WriterLock, CondWait, Grab, NothingToGrab, EncodeOk,
       EncodeFail, EncodeDone, FreeEntry, FreeDone, CheckKill, Die,
       SpuriousWakeup, vars, callerVars
  <2> QED
    BY <2>1, <2>2 DEF TypeOK
<1>1. ASSUME NEW list \in Seq(Entry),
             \A i \in 1..Len(list) : list[i].first + list[i].fill <= accepted + 1
      PROVE  \A i \in 1..Len(list) :
                 list[i].first + list[i].fill <= accepted' + 1
  <2> SUFFICES ASSUME NEW i \in 1..Len(list)
               PROVE  list[i].first + list[i].fill <= accepted' + 1
    OBVIOUS
  <2>1. list[i].first \in Nat /\ list[i].fill \in Nat
    <3>1. list[i] \in Entry
      BY ElementOfSeq
    <3> QED
      BY <3>1 DEF Entry
  <2>2. list[i].first + list[i].fill <= accepted + 1
    BY <1>1
  <2> QED
    BY <1>0, <2>1, <2>2
<1>2. /\ \A i \in 1..Len(m_fifo) :
             m_fifo[i].first + m_fifo[i].fill <= accepted' + 1
      /\ \A i \in 1..Len(current) :
             current[i].first + current[i].fill <= accepted' + 1
  BY <1>1 DEF Bounded, TypeOK
<1>3. CASE PushAppend
  <2>1. /\ next \in Entry /\ next # NoEntry /\ m_write_buffer = NoBuffer
    BY <1>3 DEF PushAppend, TypeOK, Control, CallerInv
  <2>2. /\ Len(m_fifo') = Len(m_fifo) + 1
        /\ \A i \in 1..Len(m_fifo) : m_fifo'[i] = m_fifo[i]
        /\ m_fifo'[Len(m_fifo) + 1] = next
        /\ Len(m_fifo) \in Nat
    BY <1>3, <2>1, AppendProperties, LenProperties DEF PushAppend, TypeOK
  <2>3. next.first + next.fill = accepted + 1 /\ accepted' = accepted
    BY <1>3, <2>1 DEF PushAppend, Chain, BufferStart
  <2>4. \A i \in 1..Len(m_fifo') :
            m_fifo'[i].first + m_fifo'[i].fill <= accepted' + 1
    BY <1>0, <1>2, <2>2, <2>3
  <2> QED
    BY <1>2, <1>3, <2>4 DEF Bounded, PushAppend, writerVars
<1>4. CASE Grab
  BY <1>2, <1>4 DEF Bounded, Grab
<1>5. CASE EncodeOk \/ FreeEntry
  <2>1. /\ current \in Seq(Entry) /\ current # <<>>
        /\ current' = Tail(current) /\ m_fifo' = m_fifo
    BY <1>5 DEF EncodeOk, FreeEntry, TypeOK, shared
  <2>2. /\ Len(current') = Len(current) - 1
        /\ \A i \in 1..Len(current') : current'[i] = current[i + 1]
        /\ Len(current) \in Nat
    BY <2>1, HeadTailProperties, LenProperties
  <2>3. \A i \in 1..Len(current') :
            current'[i].first + current'[i].fill <= accepted' + 1
    BY <1>2, <2>2
  <2> QED
    BY <1>2, <2>1, <2>3 DEF Bounded
<1>6. CASE UNCHANGED <<m_fifo, current>>
  BY <1>2, <1>6 DEF Bounded
<1> QED
  BY <1>3, <1>4, <1>5, <1>6
     DEF Next, Write, Flush, Destroy, CallerStep, WriterStep, PushLock,
         OverAlloc, OverPush, Signal, Copy, KillLock, KillSet, Broadcast, Join,
         WriterLock, CondWait, NothingToGrab, EncodeFail, EncodeDone,
         FreeDone, CheckKill, Die, SpuriousWakeup, vars, writerVars, shared

\* What encoding an entry adds to the file stays within what was accepted.
LEMMA EncodeIsPersist ==
    ASSUME Channels = 1, ~failed, IInv, Exact, Bounded, [Next]_vars, EncodeOk
    PROVE  Stream!Persist
<1>1. Exact' /\ TypeOK'
  BY ExactStep, TypeStep DEF IInv, Control, EncodeOk
<1>2. encoded' = Stream!Samples(Len(encoded'))
  <2>1. /\ encoded' \in Seq(Nat) /\ Len(encoded') \in Nat
        /\ \A i \in 1..Len(encoded') : encoded'[i] = i
    BY <1>1, LenProperties DEF Exact, TypeOK
  <2>2. encoded' = [i \in 1..Len(encoded') |-> encoded'[i]]
    BY <2>1, LenProperties
  <2> QED
    BY <2>1, <2>2 DEF Stream!Samples
<1>3. Len(encoded') \in Len(encoded)..accepted
  <2>1. current \in Seq(Entry) /\ current # <<>>
    BY DEF EncodeOk, TypeOK, IInv
  <2>2. /\ Head(current) \in Entry /\ Head(current) = current[1]
        /\ Frontier = Head(current).first /\ 1 \in 1..Len(current)
    BY <2>1, HeadTailProperties, EmptySeq DEF Frontier, Start
  <2>3. Frontier' = Frontier + Head(current).fill
    BY TakeEntry DEF IInv
  <2>4. Len(encoded) = Frontier - 1 /\ Len(encoded') = Frontier' - 1
    BY <1>1 DEF Exact
  <2>5. Head(current).first + Head(current).fill <= accepted + 1
    BY <2>2 DEF Bounded
  <2>6. /\ Head(current).first \in Nat /\ Head(current).fill \in Nat
        /\ accepted \in Nat /\ Len(encoded) \in Nat
    BY <2>2, LenProperties DEF Entry, IInv, TypeOK
  <2> HIDE DEF IInv
  <2> QED
    BY <2>2, <2>3, <2>4, <2>5, <2>6
<1>4. jni # "destroyed" /\ jni' = jni /\ accepted' = accepted /\ failed' = failed
  BY DEF EncodeOk, IInv, WriterInv, callerVars
<1> QED
  BY <1>2, <1>3, <1>4 DEF Stream!Persist, Stream!Working

\* A failure is not forgotten, and while there is none, libFLAC has read what
\* is before the frontier.
SoFar == ~failed => Exact

LEMMA SoFarStep ==
    ASSUME Channels = 1, IInv, SoFar, [Next]_vars
    PROVE  SoFar' /\ (failed => failed')
<1>1. failed => failed'
  BY DEF Next, Write, Flush, Destroy, CallerStep, WriterStep, PushLock,
     PushAppend, OverAlloc, OverPush, Signal, Copy, KillLock, KillSet,
     Broadcast, Join, WriterLock, CondWait, Grab, NothingToGrab, EncodeOk,
     EncodeFail, EncodeDone, FreeEntry, FreeDone, CheckKill, Die,
     SpuriousWakeup, vars, writerVars
<1>2. IInv => TypeOK /\ Control /\ Chain
  BY DEF IInv, Control
<1> QED
  BY <1>1, <1>2, ExactStep DEF SoFar

\* A mono encoder implements SampleStream: until libFLAC fails, what it accepts
\* is in the file once, in order, and all of it when it is closed
\* (FLACStreamEncoder.cpp:211-236, 326-376, 395-446).
THEOREM EncoderImplementsStream ==
    ASSUME Channels = 1
    PROVE  Spec => StreamSpec
<1>1. Init => IInv /\ SoFar /\ Bounded
  BY InitType, InitControl, InitChain, InitExact
     DEF IInv, Control, Bounded, SoFar, Init
<1>2. IInv /\ SoFar /\ Bounded /\ [Next]_vars => (IInv /\ SoFar /\ Bounded)'
  BY TypeStep, ControlStep, ChainStep, FillsFitStep, VanishStep, SoFarStep,
     BoundedStep DEF IInv, Control
<1>3. Init => Stream!Init
  BY DEF Init, Stream!Init
<1>4. IInv /\ SoFar /\ Bounded /\ [Next]_vars => [Stream!Next]_(Stream!vars)
  <2> SUFFICES ASSUME IInv, SoFar, Bounded, [Next]_vars
               PROVE  [Stream!Next]_(Stream!vars)
    OBVIOUS
  <2>5. CASE failed
    BY <2>5, SoFarStep, Zenon DEF IInv, TypeOK, Stream!Next, Stream!Fail
  <2>6. CASE ~failed /\ EncodeFail
    BY <2>6 DEF EncodeFail, IInv, WriterInv, Stream!Next, Stream!Fail
  <2>1. CASE ~failed /\ EncodeOk
    BY <2>1, EncodeIsPersist DEF Stream!Next, SoFar
  <2>2. CASE ~failed /\ (OverAlloc \/ Copy)
    <3>1. /\ accepted \in Nat /\ pending \in Nat
          /\ accepted' = accepted + pending /\ encoded' = encoded
          /\ jni # "destroyed" /\ jni' # "destroyed" /\ failed' = failed
      BY <2>2 DEF OverAlloc, Copy, IInv, TypeOK, writerVars
    <3>2. accepted' \in Nat /\ accepted' >= accepted
      BY <3>1
    <3> QED
      BY <2>2, <3>1, <3>2 DEF Stream!Next, Stream!Accept, Stream!Working
  <2>3. CASE ~failed /\ Join
    <3>1. Frontier = accepted + 1
      BY <2>3 DEF Join, IInv, WriterInv, CallerInv, Frontier, FifoStart,
                  NextStart, BufferStart, Start
    <3>2. /\ encoded \in Seq(Nat) /\ Len(encoded) = accepted
          /\ \A i \in 1..Len(encoded) : encoded[i] = i
      BY <2>3, <3>1 DEF SoFar, Exact, IInv, TypeOK
    <3>3. encoded = [i \in 1..Len(encoded) |-> encoded[i]]
      BY <3>2, LenProperties
    <3>4. encoded = Stream!Samples(accepted)
      BY <3>2, <3>3 DEF Stream!Samples
    <3> QED
      BY <2>3, <3>4
         DEF Join, Stream!Next, Stream!Close, Stream!Working, callerVars,
             writerVars
  <2>4. CASE UNCHANGED <<accepted, encoded, failed>>
               /\ (jni' = "destroyed" <=> jni = "destroyed")
    BY <2>4 DEF Stream!vars
  <2> QED
    BY <2>1, <2>2, <2>3, <2>4, <2>5, <2>6
       DEF Next, Write, Flush, Destroy, FlushToFifo, CallerStep,
           WriterStep, PushLock, PushAppend, OverPush, Signal, KillLock,
           KillSet, Broadcast, WriterLock, CondWait, Grab, NothingToGrab,
           EncodeDone, FreeEntry, FreeDone, CheckKill, Die,
           SpuriousWakeup, vars, callerVars, writerVars, IInv, TypeOK, Returns
<1> QED
  BY <1>1, <1>2, <1>3, <1>4, PTL DEF Spec, StreamSpec, Stream!Spec

-----------------------------------------------------------------------------
(***************************************************************************)
(* How the destructor ends, or does not.                                   *)
(***************************************************************************)

\* The destructor waits for a writer that is in its loop, ...
Doomed == jni = "join" /\ writer \notin {"start", "enter", "sleep", "waiting"}

\* ... or for one whose first wait comes after the broadcast.
Missed == jni = "join" /\ writer \in {"start", "enter", "waiting"}

\* Where the writer is on its way from the encoder to its end.
Ahead ==
    CASE writer = "encode" -> 6
      [] writer = "free" -> 5
      [] writer \in {"relock", "woken"} -> 4
      [] writer = "grab" -> 3
      [] writer = "check" -> 2
      [] writer = "dying" -> 1
      [] OTHER -> 0

\* The writer has come further; or the list it grabbed has become shorter; or
\* one more of its retries is used up.
Comes ==
    \/ Ahead' < Ahead
    \/ Ahead' = Ahead /\ Len(current') < Len(current)
    \/ Ahead' = Ahead /\ current' = current /\ retry' > retry

\* The FIFO has been emptied, or it is as it was and the writer comes.
Sinks ==
    \/ m_fifo # <<>> /\ m_fifo' = <<>>
    \/ m_fifo' = m_fifo /\ Comes

\* The writer stays in its loop; a step of it takes it closer to its end.
Dooms ==
    /\ Doomed' \/ jni' = "destroyed"
    /\ writerVars' # writerVars \/ writer' # writer => Sinks

\* A writer that will look at the FIFO before it waits again.
Called == m_fifo # <<>> /\ writer \in {"encode", "free", "relock", "woken", "grab"}

\* The FIFO has been taken up, or a step of the writer takes it closer to that.
TakesUp ==
    \/ m_fifo' = <<>>
    \/ Called' /\ (writerVars' # writerVars \/ writer' # writer => Comes)

LEMMA ShorterTail ==
    ASSUME NEW list \in Seq(Entry), list # <<>>
    PROVE  Len(Tail(list)) < Len(list)
<1>1. Len(list) \in Nat \ {0}
  BY EmptySeq
<1>2. Len(Tail(list)) = Len(list) - 1
  BY HeadTailProperties
<1> QED
  BY <1>1, <1>2

LEMMA DoomedNext == IInv /\ [Next]_vars => [Doomed => Dooms]_vars
<1> SUFFICES ASSUME IInv, Next, Doomed
             PROVE  Dooms
  OBVIOUS
<1>1. jni = "join" /\ writer \notin {"start", "enter", "sleep", "waiting"}
  BY DEF Doomed
<1>2. /\ current \in Seq(Entry) /\ retry \in Nat /\ m_kill_writer
  BY <1>1, EncoderAssumption DEF IInv, TypeOK, CallerInv
<1>3. CASE Join
  BY <1>3 DEF Join, Dooms, writerVars
<1>4. CASE WriterLock
  <2>1. writer \in {"relock", "woken"} /\ writer' = "grab"
    BY <1>1, <1>4 DEF WriterLock
  <2> QED
    BY <1>1, <1>4, <2>1 DEF WriterLock, shared, Dooms, Doomed, Sinks, Comes, Ahead
<1>5. CASE Grab
  BY <1>1, <1>5 DEF Grab, Dooms, Doomed, Sinks, Comes
<1>6. CASE NothingToGrab
  BY <1>1, <1>6 DEF NothingToGrab, shared, Dooms, Doomed, Sinks, Comes, Ahead
<1>7. CASE EncodeOk \/ FreeEntry
  <2>1. /\ writer' = writer /\ writer \in {"encode", "free"}
        /\ m_fifo' = m_fifo /\ jni' = jni
        /\ current # <<>> /\ current' = Tail(current)
    BY <1>7 DEF EncodeOk, FreeEntry, shared
  <2>2. Len(current') < Len(current)
    BY <1>2, <2>1, ShorterTail
  <2>3. Ahead' = Ahead
    BY <2>1 DEF Ahead
  <2> QED
    BY <1>1, <2>1, <2>2, <2>3 DEF Dooms, Doomed, Sinks, Comes
<1>8. CASE EncodeFail
  <2>1. /\ writer = "encode" /\ m_fifo' = m_fifo /\ jni' = jni
        /\ current' = current
        /\ \/ writer' = writer /\ retry' = retry + 1
           \/ writer' = "free"
    BY <1>8 DEF EncodeFail, shared
  <2> QED
    BY <1>1, <1>2, <2>1 DEF Dooms, Doomed, Sinks, Comes, Ahead
<1>9. CASE EncodeDone \/ FreeDone
  BY <1>1, <1>9
     DEF EncodeDone, FreeDone, shared, Dooms, Doomed, Sinks, Comes, Ahead
<1>10. CASE CheckKill
  BY <1>1, <1>2, <1>10
     DEF CheckKill, shared, Dooms, Doomed, Sinks, Comes, Ahead
<1>11. CASE Die
  BY <1>1, <1>11 DEF Die, shared, Dooms, Doomed, Sinks, Comes, Ahead
<1> QED
  BY <1>1, <1>3, <1>4, <1>5, <1>6, <1>7, <1>8, <1>9, <1>10, <1>11
     DEF Next, Write, Flush, Destroy, CallerStep, WriterStep, PushLock,
         PushAppend, OverAlloc, OverPush, Signal, Copy, KillLock, KillSet,
         Broadcast, CondWait, SpuriousWakeup

LEMMA MissedNext ==
    [Next]_vars => [Missed => Missed' \/ SpuriousWakeup]_vars
  BY DEF Missed, Next, Write, Flush, Destroy, CallerStep, WriterStep,
         PushLock, PushAppend, OverAlloc, OverPush, Signal, Copy, KillLock,
         KillSet, Broadcast, Join, WriterLock, CondWait, Grab, NothingToGrab,
         EncodeOk, EncodeFail, EncodeDone, FreeEntry, FreeDone, CheckKill, Die

LEMMA BroadcastDecides ==
    IInv /\ Broadcast =>
        IF writer \in {"start", "enter"} THEN Missed' ELSE Doomed'
  BY DEF IInv, CallerInv, WriterInv, Broadcast, WakeWriter, Missed, Doomed,
         TypeOK, WriterPoints

\* The broadcast decides how the destructor ends.  A writer that has reached
\* its first pthread_cond_wait before never waits again, and every step of it
\* takes it closer to its end, however often libFLAC fails: the join returns
\* (FLACStreamEncoder.cpp:211-226, 323-376).
THEOREM WaitedWriterEnds ==
    Spec => /\ [][Broadcast /\ writer \notin {"start", "enter"} => Doomed']_vars
            /\ [][Doomed => Dooms]_vars
<1>1. IInv => (Broadcast /\ writer \notin {"start", "enter"} => Doomed')
  BY BroadcastDecides
<1> QED
  BY <1>1, Invariance, DoomedNext, PTL DEF Spec

\* For a writer that has not, nothing the program does ends the wait: only a
\* spurious wakeup of pthread_cond_wait could (FLACStreamEncoder.cpp:211-226,
\* 326).
THEOREM MissedBroadcastIsFinal ==
    Spec => /\ [][Broadcast /\ writer \in {"start", "enter"} => Missed']_vars
            /\ [][Missed => Missed' \/ SpuriousWakeup]_vars
<1>1. IInv => (Broadcast /\ writer \in {"start", "enter"} => Missed')
  BY BroadcastDecides
<1> QED
  BY <1>1, Invariance, MissedNext, PTL DEF Spec

LEMMA CalledNext == IInv /\ [Next]_vars => [Called => TakesUp]_vars
<1> SUFFICES ASSUME IInv, Next, Called
             PROVE  TakesUp
  OBVIOUS
<1>1. /\ current \in Seq(Entry) /\ retry \in Nat /\ m_fifo \in Seq(Entry)
      /\ next \in Entry \union {NoEntry}
  BY EncoderAssumption DEF IInv, TypeOK
<1>2. CASE CallerStep \/ Flush \/ Destroy \/ \E n \in WriteSizes : Write(n)
  <2>1. UNCHANGED <<writer, writerVars>>
    BY <1>2 DEF CallerStep, PushLock, PushAppend, Write, Flush, Destroy, OverAlloc, OverPush,
                Signal, Copy, KillLock, KillSet, Broadcast, Join, WakeWriter, Called
  <2>2. m_fifo' # <<>>
    <3>1. CASE PushAppend
      <4>1. m_fifo' = Append(m_fifo, next)
        BY <3>1 DEF PushAppend
      <4>2. m_fifo \in Seq(Entry \union {NoEntry})
        BY <1>1
      <4> QED
        BY <1>1, <4>1, <4>2, AppendProperties
    <3>2. CASE m_fifo' = m_fifo
      BY <3>2 DEF Called
    <3> QED
      BY <1>2, <3>1, <3>2 DEF CallerStep, PushLock, Write, Flush, Destroy, OverAlloc,
         OverPush, Signal, Copy, KillLock, KillSet, Broadcast, Join
  <2> QED
    BY <2>1, <2>2 DEF TakesUp, Called
<1>3. CASE WriterLock
  <2>1. writer \in {"relock", "woken"} /\ writer' = "grab"
    BY <1>3 DEF WriterLock, Called
  <2> QED
    BY <1>3, <2>1 DEF WriterLock, shared, TakesUp, Called, Comes, Ahead
<1>4. CASE Grab
  BY <1>4 DEF Grab, TakesUp
<1>5. CASE EncodeOk \/ FreeEntry
  <2>1. /\ writer' = writer /\ writer \in {"encode", "free"}
        /\ m_fifo' = m_fifo
        /\ current # <<>> /\ current' = Tail(current)
    BY <1>5 DEF EncodeOk, FreeEntry, shared
  <2>2. Len(current') < Len(current)
    BY <1>1, <2>1, ShorterTail
  <2>3. Ahead' = Ahead
    BY <2>1 DEF Ahead
  <2> QED
    BY <2>1, <2>2, <2>3 DEF TakesUp, Called, Comes
<1>6. CASE EncodeFail
  <2>1. /\ writer = "encode" /\ m_fifo' = m_fifo /\ current' = current
        /\ \/ writer' = writer /\ retry' = retry + 1
           \/ writer' = "free"
    BY <1>6 DEF EncodeFail, shared
  <2> QED
    BY <1>1, <2>1 DEF TakesUp, Called, Comes, Ahead
<1>7. CASE EncodeDone \/ FreeDone
  BY <1>7 DEF EncodeDone, FreeDone, shared, TakesUp, Called, Comes, Ahead
<1>8. ~(NothingToGrab \/ CheckKill \/ Die \/ CondWait \/ SpuriousWakeup)
  BY DEF Called, NothingToGrab, CheckKill, Die, CondWait, SpuriousWakeup
<1> QED
  BY <1>2, <1>3, <1>4, <1>5, <1>6, <1>7, <1>8 DEF Next, WriterStep

\* What was pushed is taken up, if the writer had reached its first wait when
\* it was signalled: the writer then looks at the FIFO before it waits again,
\* and each of its steps takes it closer to that, however often libFLAC fails
\* and whatever is pushed in the meantime (FLACStreamEncoder.cpp:246-252,
\* 323-376).
THEOREM PushedIsTakenUp ==
    Spec => /\ [][Signal /\ m_fifo # <<>> /\ writer \notin {"start", "enter"}
                     => Called']_vars
            /\ [][Called => TakesUp]_vars
<1>1. IInv => (Signal /\ m_fifo # <<>> /\ writer \notin {"start", "enter"} => Called')
  BY DEF IInv, WriterInv, TypeOK, WriterPoints, Signal, WakeWriter, Called
<1> QED
  BY <1>1, Invariance, CalledNext, PTL DEF Spec
=============================================================================
