------------------------ MODULE LibFLACEncoderProofs ------------------------
(***************************************************************************)
(* Theorems about libFLAC's stream encoder as the writer thread drives it, *)
(* for any block size, entries, number of samples and limit of retries:    *)
(* what is in the file follows the input, the header is true, a failed     *)
(* write is final, and every call comes to its end.                        *)
(***************************************************************************)
EXTENDS LibFLACEncoder, SequenceTheorems, TLAPS

\* How full the signal is wherever the writer is, and what its state says.
Collecting ==
    /\ pc = "frame" => Len(signal) = Block + 1
    /\ pc = "last_frame" => Len(signal) \in 1..Block /\ state = "ok"
    /\ pc = "idle" /\ state = "ok" => Len(signal) <= Block
    /\ pc \in {"md5", "total", "sizes"} => state = "ok" /\ signal = <<>>
    /\ state = "ok" => ~starved
    /\ state = "memory_allocation_error" => starved

\* The entry is the last of what was handed over, and taken when a call ends.
Entry ==
    /\ state = "ok" /\ pc \notin {"fill", "frame", "died"} => j = Len(buffer)
    /\ Len(buffer) <= given
    /\ \A x \in 1..Len(buffer) : buffer[x] = given - Len(buffer) + x

\* A failed write leaves the signal full and the fifo all but empty.
Stuck ==
    state \in {"client_error", "verify_mismatch"} =>
       \/ pc \in {"close", "closed", "died"}
       \/ /\ pc \in {"idle", "fill", "frame"}
          /\ Len(signal) = Block + 1 /\ Len(input_fifo) <= 1
          /\ md5 # <<>>

\* The frames are numbered, and of full length until the last one.
FramesInv ==
    /\ NumbersGivePositions
    /\ pc # "died" => current_frame_number = Len(frames)
    /\ pc \in {"idle", "fill", "frame", "last_frame"} =>
          \A i \in 1..Len(frames) : Len(frames[i].samples) = Block

\* While nothing has failed, STREAMINFO in memory describes the file.
Account ==
    state = "ok" /\ pc # "died" =>
       /\ ~torn
       /\ total_samples = SamplesInFile
       /\ Len(md5) = SamplesInFile
       /\ \A k \in 1..Len(md5) : md5[k] = k

\* The header has a total only when its signature is there.
HeaderInv ==
    /\ header.total # 0 => pc \in {"sizes", "close", "closed", "died"}
    /\ pc = "total" => header.md5 = md5
    /\ TotalIsTrue

IInv == /\ TypeOK /\ Collecting /\ Entry /\ Stuck /\ FramesInv
        /\ FifoHoldsSignal /\ NothingLost /\ Account /\ HeaderInv

-----------------------------------------------------------------------------
(***************************************************************************)
(* Numbers and sequences.                                                  *)
(***************************************************************************)

LEMMA MinOfTwo ==
    ASSUME NEW a \in Nat, NEW b \in Nat
    PROVE  Min({a, b}) = IF a <= b THEN a ELSE b
  <1> DEFINE P(m) == m \in {a, b} /\ \A y \in {a, b} : m <= y
             c == IF a <= b THEN a ELSE b
  <1>1. P(c)
    OBVIOUS
  <1>2. \A m \in {a, b} : (\A y \in {a, b} : m <= y) => m = c
    OBVIOUS
  <1>3. Min({a, b}) = CHOOSE m \in {a, b} : \A y \in {a, b} : m <= y
    BY DEF Min
  <1> QED BY <1>1, <1>2, <1>3

LEMMA MaxOfTwo ==
    ASSUME NEW a \in Nat, NEW b \in Nat
    PROVE  Max({a, b}) \in Nat
  <1> DEFINE c == IF a >= b THEN a ELSE b
  <1>1. c \in {a, b} /\ \A y \in {a, b} : c >= y
    OBVIOUS
  <1>2. Max({a, b}) = CHOOSE m \in {a, b} : \A y \in {a, b} : m >= y
    BY DEF Max
  <1> QED BY <1>1, <1>2

\* What is left of a sequence.
LEMMA DropFacts ==
    ASSUME NEW S, NEW seq \in Seq(S), NEW n \in 0..Len(seq)
    PROVE  /\ Drop(seq, n) \in Seq(S)
           /\ Len(Drop(seq, n)) = Len(seq) - n
           /\ \A k \in 1..(Len(seq) - n) : Drop(seq, n)[k] = seq[n + k]
  <1>1. Len(seq) \in Nat
    BY LenProperties
  <1>2. \A i \in (n + 1)..Len(seq) : seq[i] \in S
    BY <1>1, ElementOfSeq
  <1>3. /\ SubSeq(seq, n + 1, Len(seq)) \in Seq(S)
        /\ Len(SubSeq(seq, n + 1, Len(seq)))
             = IF n + 1 <= Len(seq) THEN Len(seq) - (n + 1) + 1 ELSE 0
        /\ \A k \in 1..(Len(seq) - (n + 1) + 1) :
              SubSeq(seq, n + 1, Len(seq))[k] = seq[n + 1 + k - 1]
    BY <1>1, <1>2, SubSeqProperties
  <1>4. \A k \in 1..(Len(seq) - n) :
           SubSeq(seq, n + 1, Len(seq))[k] = seq[n + k]
    BY <1>1, <1>3
  <1> QED BY <1>1, <1>3, <1>4 DEF Drop

\* The beginning of a sequence.
LEMMA PrefixFacts ==
    ASSUME NEW S, NEW seq \in Seq(S), NEW n \in 0..Len(seq)
    PROVE  /\ SubSeq(seq, 1, n) \in Seq(S)
           /\ Len(SubSeq(seq, 1, n)) = n
           /\ \A k \in 1..n : SubSeq(seq, 1, n)[k] = seq[k]
  <1>1. Len(seq) \in Nat
    BY LenProperties
  <1>2. \A i \in 1..n : seq[i] \in S
    BY <1>1, ElementOfSeq
  <1>3. /\ SubSeq(seq, 1, n) \in Seq(S)
        /\ Len(SubSeq(seq, 1, n)) = IF 1 <= n THEN n - 1 + 1 ELSE 0
        /\ \A k \in 1..(n - 1 + 1) : SubSeq(seq, 1, n)[k] = seq[1 + k - 1]
    BY <1>1, <1>2, SubSeqProperties
  <1> QED BY <1>1, <1>3

\* One turn takes what the entry still has, and fills a block at most.
LEMMA TakenFacts ==
    ASSUME TypeOK
    PROVE  /\ Taken \in Seq(Sample)
           /\ Len(Taken) \in Nat
           /\ \A x \in 1..Len(Taken) : Taken[x] = buffer[j + x]
           /\ Len(signal) + Len(Taken) <= Block + 1
           /\ j + Len(Taken) <= Len(buffer)
           /\ \/ Len(signal) + Len(Taken) = Block + 1
              \/ j + Len(Taken) = Len(buffer)
  <1> DEFINE n == Min({Block + 1 - Len(signal), Len(buffer) - j})
  <1>1. /\ Len(signal) \in Nat /\ Len(buffer) \in Nat /\ j \in Nat
        /\ Len(signal) <= Block + 1 /\ j <= Len(buffer) /\ Block \in Nat
        /\ buffer \in Seq(Sample)
    BY LenProperties, LibEncoderAssumption DEF TypeOK
  <1>2. /\ n \in Nat
        /\ n <= Block + 1 - Len(signal) /\ n <= Len(buffer) - j
        /\ n = Block + 1 - Len(signal) \/ n = Len(buffer) - j
    <2>1. Block + 1 - Len(signal) \in Nat /\ Len(buffer) - j \in Nat
      BY <1>1
    <2>2. n = IF Block + 1 - Len(signal) <= Len(buffer) - j
              THEN Block + 1 - Len(signal) ELSE Len(buffer) - j
      BY <2>1, MinOfTwo
    <2> HIDE DEF n
    <2> QED BY <1>1, <2>1, <2>2
  <1> HIDE DEF n
  <1>3. \A i \in (j + 1)..(j + n) : buffer[i] \in Sample
    BY <1>1, <1>2, ElementOfSeq
  <1>4. /\ SubSeq(buffer, j + 1, j + n) \in Seq(Sample)
        /\ Len(SubSeq(buffer, j + 1, j + n))
              = IF j + 1 <= j + n THEN j + n - (j + 1) + 1 ELSE 0
        /\ \A x \in 1..(j + n - (j + 1) + 1) :
              SubSeq(buffer, j + 1, j + n)[x] = buffer[j + 1 + x - 1]
    BY <1>1, <1>2, <1>3, SubSeqProperties
  <1>5. Taken = SubSeq(buffer, j + 1, j + n)
    BY DEF Taken, n
  <1>6. Len(Taken) = n
    BY <1>1, <1>2, <1>4, <1>5
  <1>7. \A x \in 1..n : Taken[x] = buffer[j + x]
    BY <1>1, <1>2, <1>4, <1>5
  <1> QED BY <1>1, <1>2, <1>4, <1>5, <1>6, <1>7

\* The block of a frame is the beginning of the signal, and not empty.
LEMMA TheBlockFacts ==
    ASSUME TypeOK, Collecting, InFrame
    PROVE  /\ TheBlock \in Seq(Sample)
           /\ Len(TheBlock) = (IF pc = "frame" THEN Block ELSE Len(signal))
           /\ Len(TheBlock) \in 1..Block
           /\ Len(TheBlock) <= Len(signal)
           /\ \A k \in 1..Len(TheBlock) : TheBlock[k] = signal[k]
  <1> DEFINE n == IF pc = "frame" THEN Block ELSE Len(signal)
  <1>1. /\ Len(signal) \in Nat /\ signal \in Seq(Sample)
        /\ Block \in Nat /\ Block > 1
    BY LenProperties, LibEncoderAssumption DEF TypeOK
  <1>2. n \in 1..Block /\ n \in 0..Len(signal)
    BY <1>1 DEF Collecting, InFrame
  <1>3. TheBlock = SubSeq(signal, 1, n)
    BY DEF TheBlock
  <1> HIDE DEF n
  <1>4. /\ SubSeq(signal, 1, n) \in Seq(Sample)
        /\ Len(SubSeq(signal, 1, n)) = n
        /\ \A k \in 1..n : SubSeq(signal, 1, n)[k] = signal[k]
    BY <1>1, <1>2, PrefixFacts
  <1> QED BY <1>1, <1>2, <1>3, <1>4 DEF n

-----------------------------------------------------------------------------
(***************************************************************************)
(* Every step preserves the invariant.                                     *)
(***************************************************************************)

LEMMA InitInv == Init => IInv
  <1> SUFFICES ASSUME Init PROVE IInv
    OBVIOUS
  <1>1. AbsurdlyHigh \in Nat
    BY DEF AbsurdlyHigh
  <1>2. TypeOK
    <2>1. <<>> \in Seq(Sample) /\ <<>> \in Seq(Frame) /\ Len(<<>>) = 0
      OBVIOUS
    <2>2. framesize \in [min : Nat, max : Nat]
      BY <1>1 DEF Init
    <2>3. header \in [md5 : Seq(Sample), total : Nat,
                      sizes : [min : Nat, max : Nat]]
      BY <2>1 DEF Init, NoStreaminfo
    <2>4. MaxSamples \in Nat /\ RetryLimit \in Nat /\ Block \in Nat
      BY LibEncoderAssumption
    <2>5. torn \in BOOLEAN /\ starved \in BOOLEAN
      BY DEF Init
    <2>6. /\ given = 0 /\ buffer = <<>> /\ j = 0 /\ retry = 0
          /\ signal = <<>> /\ input_fifo = <<>> /\ current_frame_number = 0
          /\ md5 = <<>> /\ total_samples = 0 /\ frames = <<>>
          /\ pc = "idle" /\ state = "ok"
      BY DEF Init
    <2>7. /\ given \in 0..MaxSamples /\ buffer \in Seq(Sample)
          /\ j \in 0..Len(buffer) /\ retry \in 0..RetryLimit
          /\ signal \in Seq(Sample) /\ Len(signal) <= Block + 1
      BY <2>1, <2>4, <2>6
    <2> QED BY <2>1, <2>2, <2>3, <2>5, <2>6, <2>7 DEF TypeOK
  <1>3. frames = <<>> /\ Len(frames) = 0 /\ SamplesInFile = 0
    BY DEF Init, SamplesInFile
  <1>4. header.total = 0
    BY DEF Init, NoStreaminfo
  <1>5. Collecting /\ Entry /\ Stuck /\ FifoHoldsSignal
    BY LibEncoderAssumption DEF Init, Collecting, Entry, Stuck, FifoHoldsSignal
  <1>6. FramesInv /\ FramesInOrder
    BY <1>3 DEF Init, FramesInv, NumbersGivePositions, FramesInOrder
  <1>7. NothingLost /\ Account
    <2>1. /\ signal = <<>> /\ buffer = <<>> /\ md5 = <<>>
          /\ given = 0 /\ j = 0 /\ total_samples = 0 /\ ~torn
      BY DEF Init
    <2>2. Len(signal) = 0 /\ Len(buffer) = 0 /\ Len(md5) = 0
      BY <2>1
    <2>3. SamplesInFile + Len(signal) = given - (Len(buffer) - j)
      <3>1. SamplesInFile = 0 /\ given = 0 /\ j = 0
        BY <1>3, <2>1
      <3> QED BY <2>2, <3>1
    <2>4. \A k \in 1..0 : FALSE
      OBVIOUS
    <2> QED BY <1>3, <1>6, <2>1, <2>2, <2>3, <2>4 DEF NothingLost, Account
  <1>8. HeaderInv
    BY <1>4 DEF Init, HeaderInv, TotalIsTrue
  <1> QED BY <1>2, <1>5, <1>6, <1>7, <1>8 DEF IInv

\* What is said of the frames, while they stay as they are.
LEMMA FramesStay ==
    ASSUME UNCHANGED frames
    PROVE  /\ SamplesInFile' = SamplesInFile
           /\ FramesInOrder' = FramesInOrder
           /\ NumbersGivePositions' = NumbersGivePositions
  BY DEF SamplesInFile, FramesInOrder, NumbersGivePositions

LEMMA CallInv == ASSUME IInv, NEW n \in EntrySizes, Call(n) PROVE IInv'
  <1>1. /\ pc = "idle" /\ pc' = "fill" /\ given' = given + n
        /\ buffer' = [i \in 1..n |-> given + i] /\ j' = 0 /\ retry' = 0
        /\ UNCHANGED <<state, collected, info, file, starved>>
        /\ n \in Nat /\ given \in Nat /\ given + n <= MaxSamples
        /\ MaxSamples \in Nat /\ RetryLimit \in Nat
    BY LibEncoderAssumption DEF Call, IInv, TypeOK
  <1>2. /\ buffer' \in Seq(Sample) /\ Len(buffer') = n
        /\ \A x \in 1..n : buffer'[x] = given + x
    <2>1. \A i \in 1..n : given + i \in Sample
      BY <1>1 DEF Sample
    <2>2. buffer' \in [1..n -> Sample]
      BY <1>1, <2>1
    <2> QED BY <1>1, <2>2
  <1>3. TypeOK'
    BY <1>1, <1>2 DEF IInv, TypeOK, collected, info, file
  <1>4. Collecting' /\ Stuck' /\ FifoHoldsSignal'
    BY <1>1 DEF IInv, Collecting, Stuck, FifoHoldsSignal, collected, info
  <1>5. Entry'
    BY <1>1, <1>2 DEF Entry
  <1>6. UNCHANGED frames
    BY <1>1 DEF file
  <1>7. FramesInv' /\ Account'
    BY <1>1, <1>6, FramesStay
    DEF IInv, FramesInv, Account, collected, info, file
  <1>8. NothingLost'
    <2>1. state = "ok" => j = Len(buffer)
      BY <1>1 DEF IInv, Entry
    <2>2. Len(buffer) \in Nat /\ j \in Nat
      BY LenProperties DEF IInv, TypeOK
    <2> QED BY <1>1, <1>2, <1>6, <2>1, <2>2, FramesStay
        DEF IInv, NothingLost, collected
  <1>9. HeaderInv'
    BY <1>1 DEF IInv, HeaderInv, TotalIsTrue, info, file
  <1> QED BY <1>3, <1>4, <1>5, <1>7, <1>8, <1>9 DEF IInv

LEMMA FillInv == ASSUME IInv, Fill PROVE IInv'
  <1> DEFINE t == Taken
  <1>1. /\ pc = "fill" /\ signal' = signal \o t
        /\ input_fifo' = input_fifo \o t /\ j' = j + Len(t)
        /\ pc' = IF Len(signal') > Block THEN "frame" ELSE "idle"
        /\ UNCHANGED <<state, given, buffer, retry, current_frame_number,
                       info, file, starved>>
    BY DEF Fill, Copied
  <1>2. /\ t \in Seq(Sample) /\ Len(t) \in Nat
        /\ \A x \in 1..Len(t) : t[x] = buffer[j + x]
        /\ Len(signal) + Len(t) <= Block + 1
        /\ j + Len(t) <= Len(buffer)
        /\ Len(signal) + Len(t) = Block + 1 \/ j + Len(t) = Len(buffer)
    BY TakenFacts DEF IInv
  <1> HIDE DEF t
  <1>3. /\ signal \in Seq(Sample) /\ input_fifo \in Seq(Sample)
        /\ Len(signal) \in Nat /\ Len(input_fifo) \in Nat
        /\ Block \in Nat /\ j \in Nat /\ Len(buffer) \in Nat /\ given \in Nat
    BY LenProperties, LibEncoderAssumption DEF IInv, TypeOK
  <1>4. /\ signal' \in Seq(Sample) /\ Len(signal') = Len(signal) + Len(t)
        /\ \A i \in 1..(Len(signal) + Len(t)) :
              signal'[i] = IF i <= Len(signal) THEN signal[i]
                           ELSE t[i - Len(signal)]
    BY <1>1, <1>2, <1>3, ConcatProperties
  <1>5. /\ input_fifo' \in Seq(Sample)
        /\ Len(input_fifo') = Len(input_fifo) + Len(t)
    BY <1>1, <1>2, <1>3, ConcatProperties
  <1>6. TypeOK'
    BY <1>1, <1>2, <1>3, <1>4, <1>5 DEF IInv, TypeOK, info, file
  <1>7. Collecting'
    BY <1>1, <1>2, <1>3, <1>4 DEF IInv, Collecting
  <1>8. Entry'
    <2>1. pc' \in {"frame", "idle"} /\ (pc' = "idle" => j' = Len(buffer))
      BY <1>1, <1>2, <1>3, <1>4
    <2> QED BY <1>1, <2>1 DEF IInv, Entry
  <1>9. Stuck'
    <2> SUFFICES ASSUME state \in {"client_error", "verify_mismatch"}
                 PROVE  Stuck'
      BY <1>1 DEF Stuck
    <2>1. Len(signal) = Block + 1 /\ Len(input_fifo) <= 1 /\ md5 # <<>>
      BY <1>1 DEF IInv, Stuck
    <2>2. Len(t) = 0
      BY <1>2, <1>3, <2>1
    <2> QED BY <1>1, <1>3, <1>4, <1>5, <2>1, <2>2 DEF Stuck, info
  <1>10. UNCHANGED frames
    BY <1>1 DEF file
  <1>11. FramesInv' /\ Account'
    BY <1>1, <1>10, FramesStay DEF IInv, FramesInv, Account, info, file
  <1>12. FifoHoldsSignal'
    BY <1>1 DEF IInv, FifoHoldsSignal
  <1>13. NothingLost'
    <2>1. state = "ok" =>
             /\ \A k \in 1..Len(signal) : signal[k] = SamplesInFile + k
             /\ SamplesInFile + Len(signal) = given - (Len(buffer) - j)
      BY <1>1 DEF IInv, NothingLost
    <2>2. SamplesInFile \in Int
      <3>1. Len(frames) \in Nat
        BY LenProperties DEF IInv, TypeOK
      <3>2. CASE frames = <<>>
        BY <3>2 DEF SamplesInFile
      <3>3. CASE frames # <<>>
        <4>1. frames[Len(frames)] \in Frame
          BY <3>1, <3>3, EmptySeq, ElementOfSeq DEF IInv, TypeOK
        <4>2. Len(frames[Len(frames)].samples) \in Nat
          BY <4>1, LenProperties DEF Frame
        <4>3. (Len(frames) - 1) * Block \in Int
          BY <1>3, <3>1
        <4> QED BY <3>3, <4>2, <4>3 DEF SamplesInFile
      <3> QED BY <3>2, <3>3
    <2>3. state = "ok" => \A k \in 1..Len(signal') :
                             signal'[k] = SamplesInFile + k
      <3> SUFFICES ASSUME state = "ok", NEW k \in 1..Len(signal')
                   PROVE  signal'[k] = SamplesInFile + k
        OBVIOUS
      <3>1. CASE k <= Len(signal)
        BY <1>3, <1>4, <2>1, <3>1
      <3>2. CASE k > Len(signal)
        <4>1. k - Len(signal) \in 1..Len(t)
          BY <1>2, <1>3, <1>4, <3>2
        <4>2. signal'[k] = buffer[j + (k - Len(signal))]
          <5>1. k \in 1..(Len(signal) + Len(t)) /\ ~(k <= Len(signal))
            BY <1>3, <1>4, <3>2
          <5>2. signal'[k] = t[k - Len(signal)]
            BY <1>4, <5>1
          <5>3. t[k - Len(signal)] = buffer[j + (k - Len(signal))]
            BY <1>2, <4>1
          <5> QED BY <5>2, <5>3
        <4>3. j + (k - Len(signal)) \in 1..Len(buffer)
          BY <1>2, <1>3, <4>1
        <4>4. buffer[j + (k - Len(signal))]
                 = given - Len(buffer) + (j + (k - Len(signal)))
          BY <4>3 DEF IInv, Entry
        <4>5. SamplesInFile + Len(signal) = given - (Len(buffer) - j)
          BY <2>1
        <4>6. given - Len(buffer) + (j + (k - Len(signal)))
                 = SamplesInFile + k
          BY <1>3, <2>2, <4>5
        <4> QED BY <4>2, <4>4, <4>6
      <3> QED BY <1>3, <3>1, <3>2
    <2>4. ASSUME state = "ok"
          PROVE  SamplesInFile + Len(signal') = given - (Len(buffer) - j')
      <3>1. /\ j' = j + Len(t) /\ Len(t) \in Nat
            /\ Len(signal') = Len(signal) + Len(t)
        BY <1>1, <1>2, <1>4
      <3>2. SamplesInFile + Len(signal) = given - (Len(buffer) - j)
        BY <2>1, <2>4
      <3> QED BY <1>3, <2>2, <3>1, <3>2
    <2>5. ~starved => FramesInOrder
      BY DEF IInv, NothingLost
    <2> QED BY <1>1, <1>10, <2>3, <2>4, <2>5, FramesStay DEF NothingLost
  <1>14. HeaderInv'
    BY <1>1 DEF IInv, HeaderInv, TotalIsTrue, info, file
  <1> QED BY <1>6, <1>7, <1>8, <1>9, <1>11, <1>12, <1>13, <1>14 DEF IInv

\* How many samples are in the file.
LEMMA SamplesInFileNat ==
    ASSUME TypeOK, NumbersGivePositions
    PROVE  /\ Len(frames) \in Nat
           /\ SamplesInFile \in Nat
           /\ (\A i \in 1..Len(frames) : Len(frames[i].samples) = Block)
                 => SamplesInFile = Len(frames) * Block
  <1>1. Len(frames) \in Nat /\ Block \in Nat /\ frames \in Seq(Frame)
    BY LenProperties, LibEncoderAssumption DEF TypeOK
  <1>2. CASE frames = <<>>
    BY <1>1, <1>2 DEF SamplesInFile
  <1>3. CASE frames # <<>>
    <2> DEFINE F == Len(frames)
               last == Len(frames[F].samples)
    <2>1. F \in Nat /\ F >= 1
      BY <1>1, <1>3, EmptySeq
    <2>2. last \in Nat
      BY <1>1, <2>1 DEF NumbersGivePositions
    <2>3. SamplesInFile = (F - 1) * Block + last
      BY <1>3 DEF SamplesInFile
    <2> HIDE DEF F, last
    <2>4. (F - 1) * Block \in Nat
      <3>1. F - 1 \in Nat
        BY <2>1
      <3> QED BY <1>1, <3>1
    <2>5. (F - 1) * Block + Block = F * Block
      BY <1>1, <2>1
    <2>6. (\A i \in 1..Len(frames) : Len(frames[i].samples) = Block)
             => last = Block
      BY <2>1 DEF F, last
    <2> QED BY <1>1, <2>1, <2>2, <2>3, <2>4, <2>5, <2>6 DEF F
  <1> QED BY <1>2, <1>3

LEMMA FinishInv == ASSUME IInv, Finish PROVE IInv'
  <1>1. /\ pc = "idle"
        /\ pc' = IF state # "ok" THEN "close"
                 ELSE IF signal # <<>> THEN "last_frame" ELSE "md5"
        /\ UNCHANGED <<state, call, collected, info, file, starved>>
    BY DEF Finish, Stages
  <1>2. pc' \in {"close", "last_frame", "md5"}
    BY <1>1
  <1>3. UNCHANGED <<state, given, buffer, j, retry, signal, input_fifo,
                    current_frame_number, md5, total_samples, framesize,
                    frames, torn, header, starved>>
    BY <1>1 DEF call, collected, info, file
  <1>4. TypeOK'
    BY <1>2, <1>3 DEF IInv, TypeOK
  <1>5. Collecting'
    <2>1. Len(signal) \in Nat /\ (signal # <<>> => Len(signal) >= 1)
      BY LenProperties, EmptySeq DEF IInv, TypeOK
    <2> QED BY <1>1, <1>3, <2>1 DEF IInv, Collecting
  <1>6. Entry' /\ FifoHoldsSignal' /\ Account'
    BY <1>1, <1>2, <1>3, FramesStay
    DEF IInv, Entry, FifoHoldsSignal, Account
  <1>7. Stuck'
    BY <1>1, <1>3 DEF Stuck
  <1>8. FramesInv' /\ NothingLost'
    BY <1>1, <1>2, <1>3, FramesStay DEF IInv, FramesInv, NothingLost
  <1>9. HeaderInv'
    BY <1>1, <1>2, <1>3 DEF IInv, HeaderInv, TotalIsTrue, SamplesInFile,
                            FramesInOrder
  <1> QED BY <1>4, <1>5, <1>6, <1>7, <1>8, <1>9 DEF IInv

LEMMA CloseInv == ASSUME IInv, Close PROVE IInv'
  <1>1. pc = "close" /\ pc' = "closed"
    BY DEF Close
  <1>2. UNCHANGED <<state, given, buffer, j, retry, signal, input_fifo,
                    current_frame_number, md5, total_samples, framesize,
                    frames, torn, header, starved>>
    BY DEF Close, call, collected, info, file
  <1>3. TypeOK'
    BY <1>1, <1>2 DEF IInv, TypeOK
  <1>4. Collecting' /\ Entry' /\ Stuck' /\ FifoHoldsSignal' /\ Account'
    BY <1>1, <1>2, FramesStay
    DEF IInv, Collecting, Entry, Stuck, FifoHoldsSignal, Account
  <1>5. FramesInv' /\ NothingLost'
    BY <1>1, <1>2, FramesStay DEF IInv, FramesInv, NothingLost
  <1>6. HeaderInv'
    BY <1>1, <1>2 DEF IInv, HeaderInv, TotalIsTrue, SamplesInFile,
                      FramesInOrder
  <1> QED BY <1>3, <1>4, <1>5, <1>6 DEF IInv

LEMMA FifoUnderflowsInv == ASSUME IInv, FifoUnderflows PROVE IInv'
  <1>1. InFrame /\ pc' = "died"
    BY DEF FifoUnderflows
  <1>2. UNCHANGED <<state, given, buffer, j, retry, signal, input_fifo,
                    current_frame_number, md5, total_samples, framesize,
                    frames, torn, header, starved>>
    BY DEF FifoUnderflows, call, collected, info, file
  <1>3. TypeOK'
    BY <1>1, <1>2 DEF IInv, TypeOK
  <1>4. Collecting' /\ Entry' /\ Stuck' /\ FifoHoldsSignal' /\ Account'
    BY <1>1, <1>2 DEF IInv, Collecting, Entry, Stuck, FifoHoldsSignal, Account
  <1>5. FramesInv' /\ NothingLost'
    BY <1>1, <1>2, FramesStay DEF IInv, FramesInv, NothingLost
  <1>6. HeaderInv'
    BY <1>1, <1>2 DEF IInv, HeaderInv, TotalIsTrue, SamplesInFile,
                      FramesInOrder
  <1> QED BY <1>3, <1>4, <1>5, <1>6 DEF IInv

LEMMA UpdateFailsInv == ASSUME IInv, UpdateFails PROVE IInv'
  <1>1. /\ pc \in {"md5", "total", "sizes"} /\ pc' = "close"
        /\ state' = "client_error"
    BY DEF UpdateFails
  <1>2. UNCHANGED <<given, buffer, j, retry, signal, input_fifo,
                    current_frame_number, md5, total_samples, framesize,
                    frames, torn, header, starved>>
    BY DEF UpdateFails, call, collected, info, file
  <1>3. TypeOK'
    BY <1>1, <1>2 DEF IInv, TypeOK, Errors
  <1>4. Collecting' /\ Entry' /\ Stuck' /\ FifoHoldsSignal' /\ Account'
    BY <1>1, <1>2 DEF IInv, Collecting, Entry, Stuck, FifoHoldsSignal, Account
  <1>5. FramesInv' /\ NothingLost'
    BY <1>1, <1>2, FramesStay DEF IInv, FramesInv, NothingLost
  <1>6. HeaderInv'
    BY <1>1, <1>2 DEF IInv, HeaderInv, TotalIsTrue, SamplesInFile,
                      FramesInOrder
  <1> QED BY <1>3, <1>4, <1>5, <1>6 DEF IInv

\* Where a failed frame leaves the writer.
LEMMA FailedCases ==
    ASSUME IInv, InFrame, NEW error, Failed(error)
    PROVE  /\ state' = error
           /\ pc = "frame" => pc' \in {"fill", "idle"}
           /\ pc = "last_frame" => pc' = "close"
           /\ j' \in 0..Len(buffer)
           /\ retry' \in 0..RetryLimit
  <1>1. /\ j \in 0..Len(buffer) /\ Len(buffer) \in Nat
        /\ retry \in 0..RetryLimit /\ RetryLimit \in Nat
    BY LenProperties, LibEncoderAssumption DEF IInv, TypeOK
  <1>2. Min({retry + 1, RetryLimit}) \in 0..RetryLimit
    BY <1>1, MinOfTwo
  <1> QED BY <1>1, <1>2 DEF Failed

\* Before a frame fails, the writer is not stuck, or the frame fails at the
\* check.
LEMMA FrameOfSignal ==
    ASSUME IInv, InFrame
    PROVE  \/ input_fifo = signal /\ state \in {"ok", "memory_allocation_error"}
              /\ Verified
           \/ /\ state \in {"client_error", "verify_mismatch"}
              /\ ~Verified /\ pc = "frame" /\ Len(signal) = Block + 1
              /\ Len(input_fifo) <= 1 /\ md5 # <<>>
  <1>1. /\ Len(TheBlock) = (IF pc = "frame" THEN Block ELSE Len(signal))
        /\ Len(TheBlock) \in 1..Block
        /\ Len(TheBlock) <= Len(signal)
        /\ TheBlock = SubSeq(signal, 1, Len(TheBlock))
    <2>1. Len(TheBlock) = (IF pc = "frame" THEN Block ELSE Len(signal))
      BY TheBlockFacts DEF IInv
    <2> QED BY <2>1, TheBlockFacts DEF IInv, TheBlock
  <1>2. Block \in Nat /\ Block > 1 /\ Len(input_fifo) \in Nat
    BY LenProperties, LibEncoderAssumption DEF IInv, TypeOK
  <1>3. CASE state \in {"ok", "memory_allocation_error"}
    <2>1. input_fifo = signal
      BY <1>3 DEF IInv, FifoHoldsSignal
    <2> QED BY <1>1, <1>2, <1>3, <2>1 DEF Verified
  <1>4. CASE state \in {"client_error", "verify_mismatch"}
    <2>1. /\ pc = "frame" /\ Len(signal) = Block + 1
          /\ Len(input_fifo) <= 1 /\ md5 # <<>>
      BY <1>4 DEF IInv, Stuck, Collecting, InFrame
    <2>2. ~Verified
      BY <1>1, <1>2, <2>1 DEF Verified
    <2> QED BY <1>4, <2>1, <2>2
  <1> QED BY <1>3, <1>4 DEF IInv, TypeOK, Errors

\* What becomes of the file's properties when a frame has failed.
LEMMA FailedFrames ==
    ASSUME IInv, InFrame, state' # "ok", pc' \in {"fill", "idle", "close"},
           pc = "frame" => pc' \in {"fill", "idle"},
           pc = "last_frame" => pc' = "close",
           UNCHANGED <<given, buffer, signal, current_frame_number,
                       total_samples, framesize, frames, header>>,
           starved => starved'
    PROVE  FramesInv' /\ NothingLost' /\ Account' /\ HeaderInv' /\ Entry'
  <1>1. pc \in {"frame", "last_frame"}
    BY DEF InFrame
  <1>2. FramesInv' /\ NothingLost' /\ Account'
    BY <1>1, FramesStay DEF IInv, FramesInv, NothingLost, Account
  <1>3. header.total = 0
    BY <1>1 DEF IInv, HeaderInv
  <1>4. HeaderInv'
    BY <1>3 DEF HeaderInv, TotalIsTrue
  <1>5. Entry'
    BY DEF IInv, Entry
  <1> QED BY <1>2, <1>4, <1>5

LEMMA AllocationFailsInv == ASSUME IInv, AllocationFails PROVE IInv'
  <1>1. /\ InFrame /\ md5 = <<>> /\ Failed("memory_allocation_error")
        /\ starved' = TRUE
        /\ UNCHANGED <<given, buffer, signal, input_fifo,
                       current_frame_number, md5, total_samples, framesize,
                       frames, torn, header>>
    BY DEF AllocationFails, collected, info, file
  <1>2. /\ state' = "memory_allocation_error"
        /\ pc = "frame" => pc' \in {"fill", "idle"}
        /\ pc = "last_frame" => pc' = "close"
        /\ j' \in 0..Len(buffer) /\ retry' \in 0..RetryLimit
    BY <1>1, FailedCases
  <1>3. pc' \in {"fill", "idle", "close"}
    BY <1>1, <1>2 DEF InFrame
  <1>4. TypeOK'
    BY <1>1, <1>2, <1>3 DEF IInv, TypeOK, Errors
  <1>5. Collecting'
    BY <1>1, <1>2, <1>3 DEF Collecting
  <1>6. Stuck'
    BY <1>2 DEF Stuck
  <1>7. FifoHoldsSignal'
    BY <1>1, FrameOfSignal DEF FifoHoldsSignal
  <1>8. FramesInv' /\ NothingLost' /\ Account' /\ HeaderInv' /\ Entry'
    BY <1>1, <1>2, <1>3, FailedFrames
  <1> QED BY <1>4, <1>5, <1>6, <1>7, <1>8 DEF IInv

\* The block is not empty, and MD5 takes it before it can fail the check.
LEMMA Accumulated ==
    ASSUME IInv, InFrame
    PROVE  /\ md5 \o TheBlock \in Seq(Sample)
           /\ md5 \o TheBlock # <<>>
           /\ Len(md5 \o TheBlock) = Len(md5) + Len(TheBlock)
           /\ \A k \in 1..(Len(md5) + Len(TheBlock)) :
                 (md5 \o TheBlock)[k] = IF k <= Len(md5) THEN md5[k]
                                        ELSE TheBlock[k - Len(md5)]
  <1>1. md5 \in Seq(Sample) /\ Len(md5) \in Nat
    BY LenProperties DEF IInv, TypeOK
  <1>2. TheBlock \in Seq(Sample) /\ Len(TheBlock) \in 1..Block
    BY TheBlockFacts DEF IInv
  <1>3. Block \in Nat
    BY LibEncoderAssumption
  <1>4. /\ md5 \o TheBlock \in Seq(Sample)
        /\ Len(md5 \o TheBlock) = Len(md5) + Len(TheBlock)
    BY <1>1, <1>2, ConcatProperties
  <1>5. md5 \o TheBlock # <<>>
    BY <1>1, <1>2, <1>3, <1>4, EmptySeq
  <1> QED BY <1>1, <1>2, <1>4, <1>5, ConcatProperties

LEMMA VerifyFailsInv == ASSUME IInv, VerifyFails PROVE IInv'
  <1>1. /\ InFrame /\ ~Verified /\ md5' = md5 \o TheBlock
        /\ Failed("verify_mismatch")
        /\ UNCHANGED <<given, buffer, signal, input_fifo,
                       current_frame_number, total_samples, framesize,
                       frames, torn, header, starved>>
    BY DEF VerifyFails, collected, file
  <1>2. /\ state' = "verify_mismatch"
        /\ pc = "frame" => pc' \in {"fill", "idle"}
        /\ pc = "last_frame" => pc' = "close"
        /\ j' \in 0..Len(buffer) /\ retry' \in 0..RetryLimit
    BY <1>1, FailedCases
  <1>3. pc = "frame" /\ Len(signal) = Block + 1 /\ Len(input_fifo) <= 1
    BY <1>1, FrameOfSignal
  <1>4. md5' \in Seq(Sample) /\ md5' # <<>>
    BY <1>1, Accumulated
  <1>5. TypeOK'
    BY <1>1, <1>2, <1>3, <1>4 DEF IInv, TypeOK, Errors
  <1>6. Collecting' /\ FifoHoldsSignal'
    BY <1>1, <1>2, <1>3 DEF Collecting, FifoHoldsSignal
  <1>7. Stuck'
    BY <1>1, <1>2, <1>3, <1>4 DEF Stuck
  <1>8. FramesInv' /\ NothingLost' /\ Account' /\ HeaderInv' /\ Entry'
    BY <1>1, <1>2, <1>3, FailedFrames
  <1> QED BY <1>5, <1>6, <1>7, <1>8 DEF IInv

LEMMA WriteFailsInv == ASSUME IInv, WriteFails PROVE IInv'
  <1>1. /\ InFrame /\ Verified /\ md5' = md5 \o TheBlock
        /\ Failed("client_error") /\ input_fifo' = Dequeued
        /\ torn' \in BOOLEAN
        /\ UNCHANGED <<given, buffer, signal, current_frame_number,
                       total_samples, framesize, frames, header, starved>>
    BY DEF WriteFails
  <1>2. /\ state' = "client_error"
        /\ pc = "frame" => pc' \in {"fill", "idle"}
        /\ pc = "last_frame" => pc' = "close"
        /\ j' \in 0..Len(buffer) /\ retry' \in 0..RetryLimit
    BY <1>1, FailedCases
  <1>3. pc' \in {"fill", "idle", "close"}
    BY <1>1, <1>2 DEF InFrame
  <1>4. md5' \in Seq(Sample) /\ md5' # <<>>
    BY <1>1, Accumulated
  <1>5. /\ input_fifo = signal
        /\ Len(TheBlock) \in 0..Len(signal)
        /\ Len(TheBlock) = (IF pc = "frame" THEN Block ELSE Len(signal))
        /\ Len(signal) \in Nat /\ Block \in Nat
    <2>1. Len(signal) \in Nat /\ Block \in Nat
      BY LenProperties, LibEncoderAssumption DEF IInv, TypeOK
    <2>2. Len(TheBlock) \in 1..Block /\ Len(TheBlock) <= Len(signal)
      BY <1>1, TheBlockFacts DEF IInv
    <2>3. Len(TheBlock) = (IF pc = "frame" THEN Block ELSE Len(signal))
      BY <1>1, TheBlockFacts DEF IInv
    <2> QED BY <1>1, <2>1, <2>2, <2>3, FrameOfSignal
  <1>6. /\ input_fifo' \in Seq(Sample)
        /\ Len(input_fifo') = Len(signal) - Len(TheBlock)
    BY <1>1, <1>5, DropFacts DEF Dequeued, IInv, TypeOK
  <1>7. TypeOK'
    BY <1>1, <1>2, <1>3, <1>4, <1>6 DEF IInv, TypeOK, Errors
  <1>8. Collecting' /\ FifoHoldsSignal'
    BY <1>1, <1>2, <1>3 DEF Collecting, FifoHoldsSignal
  <1>9. Stuck'
    <2>1. CASE pc = "last_frame"
      BY <1>2, <2>1 DEF Stuck
    <2>2. CASE pc = "frame"
      <3>1. Len(signal) = Block + 1
        BY <2>2 DEF IInv, Collecting
      <3>2. Len(input_fifo') <= 1
        BY <1>5, <1>6, <2>2, <3>1
      <3> QED BY <1>1, <1>2, <1>4, <2>2, <3>1, <3>2 DEF Stuck
    <2> QED BY <1>1, <2>1, <2>2 DEF InFrame
  <1>10. FramesInv' /\ NothingLost' /\ Account' /\ HeaderInv' /\ Entry'
    BY <1>1, <1>2, <1>3, FailedFrames
  <1> QED BY <1>7, <1>8, <1>9, <1>10 DEF IInv

LEMMA StageOrder ==
    /\ StageAfter("md5") = "total"
    /\ StageAfter("total") = "sizes"
    /\ StageAfter("sizes") = "close"
  <1>1. /\ Stages[1] = "md5" /\ Stages[2] = "total" /\ Stages[3] = "sizes"
        /\ Stages[4] = "close"
    BY DEF Stages
  <1>2. (CHOOSE i \in 1..3 : Stages[i] = "md5") = 1
    BY <1>1
  <1>3. (CHOOSE i \in 1..3 : Stages[i] = "total") = 2
    BY <1>1
  <1>4. (CHOOSE i \in 1..3 : Stages[i] = "sizes") = 3
    BY <1>1
  <1> QED BY <1>1, <1>2, <1>3, <1>4 DEF StageAfter

LEMMA UpdateMetadataInv == ASSUME IInv, UpdateMetadata PROVE IInv'
  <1>1. /\ pc \in {"md5", "total", "sizes"} /\ state = "ok"
        /\ pc' = StageAfter(pc) /\ signal = <<>>
    BY DEF UpdateMetadata, IInv, Collecting
  <1>2. UNCHANGED <<state, given, buffer, j, retry, signal, input_fifo,
                    current_frame_number, md5, total_samples, framesize,
                    frames, torn, starved>>
    BY DEF UpdateMetadata, call, collected, info
  <1>3. /\ pc = "md5" => pc' = "total"
        /\ pc = "total" => pc' = "sizes"
        /\ pc = "sizes" => pc' = "close"
    BY <1>1, StageOrder
  <1>4. /\ header \in [md5 : Seq(Sample), total : Nat,
                       sizes : [min : Nat, max : Nat]]
        /\ md5 \in Seq(Sample) /\ total_samples \in Nat
        /\ framesize \in [min : Nat, max : Nat]
    BY DEF IInv, TypeOK
  <1>5. /\ pc = "md5" => header' = [header EXCEPT !.md5 = md5]
        /\ pc = "total" => header' = [header EXCEPT !.total = total_samples]
        /\ pc = "sizes" => header' = [header EXCEPT !.sizes = framesize]
    <2>1. header' = [header EXCEPT ![pc] = Streaminfo[pc]]
      BY DEF UpdateMetadata
    <2>2. /\ Streaminfo["md5"] = md5 /\ Streaminfo["total"] = total_samples
          /\ Streaminfo["sizes"] = framesize
      BY DEF Streaminfo
    <2>3. CASE pc = "md5"
      BY <2>1, <2>2, <2>3
    <2>4. CASE pc = "total"
      BY <2>1, <2>2, <2>4
    <2>5. CASE pc = "sizes"
      BY <2>1, <2>2, <2>5
    <2> QED BY <1>1, <2>3, <2>4, <2>5
  <1>6. /\ pc = "md5" => header'.total = header.total /\ header'.md5 = md5
        /\ pc = "total" => header'.total = total_samples
                           /\ header'.md5 = header.md5
        /\ pc = "sizes" => header'.total = header.total
                           /\ header'.md5 = header.md5
        /\ header' \in [md5 : Seq(Sample), total : Nat,
                        sizes : [min : Nat, max : Nat]]
    BY <1>1, <1>4, <1>5
  <1>7. TypeOK'
    BY <1>1, <1>2, <1>3, <1>6 DEF IInv, TypeOK
  <1>8. Collecting' /\ Entry' /\ Stuck' /\ FifoHoldsSignal' /\ Account'
    BY <1>1, <1>2, <1>3, FramesStay
    DEF IInv, Collecting, Entry, Stuck, FifoHoldsSignal, Account
  <1>9. FramesInv' /\ NothingLost'
    BY <1>1, <1>2, <1>3, FramesStay DEF IInv, FramesInv, NothingLost
  <1>10. HeaderInv'
    <2>1. CASE pc = "md5"
      <3>1. header.total = 0
        BY <2>1 DEF IInv, HeaderInv
      <3> QED BY <1>2, <1>3, <1>6, <2>1, <3>1 DEF HeaderInv, TotalIsTrue
    <2>2. CASE pc = "total"
      <3>1. /\ header.md5 = md5 /\ ~torn /\ FramesInOrder
            /\ total_samples = SamplesInFile
            /\ Len(md5) = SamplesInFile
            /\ \A k \in 1..Len(md5) : md5[k] = k
            /\ SamplesInFile + Len(signal) = given - (Len(buffer) - j)
            /\ j = Len(buffer)
        BY <1>1, <2>2 DEF IInv, HeaderInv, Account, NothingLost, Entry,
                          Collecting
      <3>2. SamplesInFile = given
        <4>1. Len(signal) = 0
          BY <1>1
        <4>2. SamplesInFile \in Nat /\ given \in Nat /\ j \in Nat
          BY SamplesInFileNat, LenProperties DEF IInv, FramesInv, TypeOK
        <4> QED BY <3>1, <4>1, <4>2
      <3>3. md5 = [k \in 1..given |-> k]
        <4>1. md5 \in [1..given -> Sample]
          BY <1>4, <3>1, <3>2, LenProperties
        <4> QED BY <3>1, <3>2, <4>1
      <3>4. TotalIsTrue'
        BY <1>2, <1>6, <2>2, <3>1, <3>2, <3>3, FramesStay DEF TotalIsTrue
      <3> QED BY <1>3, <2>2, <3>4 DEF HeaderInv
    <2>3. CASE pc = "sizes"
      <3>1. TotalIsTrue'
        BY <1>2, <1>6, <2>3, FramesStay DEF IInv, HeaderInv, TotalIsTrue
      <3> QED BY <1>3, <2>3, <3>1 DEF HeaderInv
    <2> QED BY <1>1, <2>1, <2>2, <2>3
  <1> QED BY <1>7, <1>8, <1>9, <1>10 DEF IInv

LEMMA DieInv == ASSUME IInv, Die PROVE IInv'
  <1>1. /\ pc \notin {"closed", "died"} /\ pc' = "died"
        /\ UNCHANGED <<state, given, buffer, j, retry, signal, input_fifo,
                       current_frame_number, md5, total_samples, framesize,
                       header, starved>>
    BY DEF Die, call, collected, info
  <1>2. Collecting' /\ Entry' /\ Stuck' /\ FifoHoldsSignal' /\ Account'
    BY <1>1 DEF IInv, Collecting, Entry, Stuck, FifoHoldsSignal, Account
  <1>3. CASE UNCHANGED <<frames, torn>>
    <2>1. TypeOK'
      BY <1>1, <1>3 DEF IInv, TypeOK
    <2>2. FramesInv' /\ NothingLost'
      BY <1>1, <1>3, FramesStay DEF IInv, FramesInv, NothingLost
    <2>3. HeaderInv'
      BY <1>1, <1>3, FramesStay DEF IInv, HeaderInv, TotalIsTrue
    <2> QED BY <1>2, <2>1, <2>2, <2>3 DEF IInv
  <1>4. ASSUME header = NoStreaminfo, torn' \in BOOLEAN,
               NEW k \in 0..Len(frames), frames' = SubSeq(frames, 1, k)
        PROVE  IInv'
    <2>1. Len(frames) \in Nat /\ frames \in Seq(Frame)
      BY LenProperties DEF IInv, TypeOK
    <2>2. /\ frames' \in Seq(Frame) /\ Len(frames') = k
          /\ \A i \in 1..k : frames'[i] = frames[i]
      BY <1>4, <2>1, PrefixFacts
    <2>3. TypeOK'
      BY <1>1, <1>4, <2>2 DEF IInv, TypeOK
    <2>4. \A i \in 1..k : i \in 1..Len(frames)
      BY <2>1
    <2>5. NumbersGivePositions'
      <3>1. \A i \in 1..k : i < k => i < Len(frames)
        BY <2>1
      <3> QED BY <1>1, <2>2, <2>4, <3>1
          DEF IInv, FramesInv, NumbersGivePositions
    <2>6. FramesInOrder => FramesInOrder'
      BY <2>2, <2>4 DEF FramesInOrder
    <2>7. FramesInv' /\ NothingLost'
      BY <1>1, <2>5, <2>6 DEF IInv, FramesInv, NothingLost
    <2>8. HeaderInv'
      <3>1. header'.total = 0
        BY <1>1, <1>4 DEF NoStreaminfo
      <3> QED BY <1>1, <3>1 DEF HeaderInv, TotalIsTrue
    <2> QED BY <1>2, <2>3, <2>7, <2>8 DEF IInv
  <1> QED BY <1>3, <1>4 DEF Die

\* A new frame goes on where the file ends.
LEMMA FrameAppended ==
    ASSUME IInv, InFrame, NEW new \in Frame, frames' = Append(frames, new),
           new.samples = TheBlock, new.number = current_frame_number
    PROVE  /\ frames' \in Seq(Frame) /\ Len(frames') = Len(frames) + 1
           /\ NumbersGivePositions'
           /\ SamplesInFile = Len(frames) * Block
           /\ SamplesInFile' = SamplesInFile + Len(TheBlock)
           /\ pc = "frame" => \A i \in 1..Len(frames') :
                                 Len(frames'[i].samples) = Block
           /\ FramesInOrder /\ state = "ok" => FramesInOrder'
  <1> DEFINE F == Len(frames)
  <1>1. /\ F \in Nat /\ frames \in Seq(Frame) /\ Block \in Nat
        /\ current_frame_number = F
        /\ \A i \in 1..F : Len(frames[i].samples) = Block
        /\ \A i \in 1..F : frames[i].number = i - 1
        /\ pc \in {"frame", "last_frame"}
    BY LenProperties, LibEncoderAssumption
    DEF IInv, TypeOK, FramesInv, NumbersGivePositions, InFrame
  <1>2. /\ Len(TheBlock) = (IF pc = "frame" THEN Block ELSE Len(signal))
        /\ Len(TheBlock) \in 1..Block
        /\ \A k \in 1..Len(TheBlock) : TheBlock[k] = signal[k]
        /\ Len(TheBlock) <= Len(signal) /\ Len(signal) \in Nat
    BY TheBlockFacts, LenProperties DEF IInv, TypeOK
  <1>3. SamplesInFile = F * Block /\ SamplesInFile \in Nat
    BY <1>1, SamplesInFileNat DEF IInv, FramesInv
  <1>4. /\ frames' \in Seq(Frame) /\ Len(frames') = F + 1 /\ frames' # <<>>
        /\ \A i \in 1..F : frames'[i] = frames[i]
        /\ frames'[F + 1] = new
    BY <1>1, AppendProperties
  <1>0. F \in Nat
    BY <1>1
  <1> HIDE DEF F
  <1>5. SamplesInFile' = SamplesInFile + Len(TheBlock)
    <2>1. SamplesInFile' = (Len(frames') - 1) * Block
                              + Len(frames'[Len(frames')].samples)
      BY <1>4 DEF SamplesInFile
    <2>2. Len(frames') - 1 = F
      BY <1>1, <1>4
    <2>3. Len(frames'[Len(frames')].samples) = Len(TheBlock)
      BY <1>4
    <2> QED BY <1>3, <2>1, <2>2, <2>3
  <1>6. NumbersGivePositions'
    <2> SUFFICES ASSUME NEW i \in 1..(F + 1)
                 PROVE  /\ frames'[i].number = i - 1
                        /\ Len(frames'[i].samples) \in 1..Block
                        /\ i < F + 1 => Len(frames'[i].samples) = Block
      BY <1>4 DEF NumbersGivePositions
    <2>1. CASE i \in 1..F
      <3>1. /\ frames'[i] = frames[i] /\ frames[i].number = i - 1
            /\ Len(frames[i].samples) = Block
        BY <1>1, <1>4, <2>1 DEF F
      <3>2. Block \in 1..Block
        BY <1>1, <1>2
      <3> QED BY <3>1, <3>2
    <2>2. CASE i = F + 1
      <3>1. frames'[i].number = F /\ Len(frames'[i].samples) = Len(TheBlock)
        BY <1>1, <1>4, <2>2 DEF F
      <3>2. i - 1 = F /\ ~(i < F + 1)
        BY <1>0, <2>2
      <3>3. Len(TheBlock) \in 1..Block
        BY <1>2
      <3> QED BY <3>1, <3>2, <3>3
    <2>3. i \in 1..F \/ i = F + 1
      BY <1>0
    <2> QED BY <2>1, <2>2, <2>3
  <1>7. pc = "frame" => \A i \in 1..(F + 1) : Len(frames'[i].samples) = Block
    <2> SUFFICES ASSUME pc = "frame", NEW i \in 1..(F + 1)
                 PROVE  Len(frames'[i].samples) = Block
      OBVIOUS
    <2>1. CASE i \in 1..F
      BY <1>1, <1>4, <2>1 DEF F
    <2>2. CASE i = F + 1
      BY <1>2, <1>4, <2>2
    <2>3. i \in 1..F \/ i = F + 1
      BY <1>0
    <2> QED BY <2>1, <2>2, <2>3
  <1>8. ASSUME FramesInOrder, state = "ok" PROVE FramesInOrder'
    <2> SUFFICES ASSUME NEW i \in 1..(F + 1),
                        NEW k \in 1..Len(frames'[i].samples)
                 PROVE  frames'[i].samples[k] = (i - 1) * Block + k
      BY <1>4 DEF FramesInOrder
    <2>1. CASE i \in 1..F
      BY <1>4, <1>8, <2>1 DEF FramesInOrder, F
    <2>2. CASE i = F + 1
      <3>1. frames'[i].samples = TheBlock
        BY <1>4, <2>2
      <3>2. k \in 1..Len(TheBlock) /\ k \in 1..Len(signal)
        BY <1>2, <3>1
      <3>3. signal[k] = SamplesInFile + k
        BY <1>1, <1>8, <3>2 DEF IInv, NothingLost
      <3>4. frames'[i].samples[k] = F * Block + k
        BY <1>2, <1>3, <3>1, <3>2, <3>3
      <3>5. i - 1 = F
        BY <1>1, <2>2
      <3> QED BY <3>4, <3>5
    <2>3. i \in 1..F \/ i = F + 1
      BY <1>0
    <2> QED BY <2>1, <2>2, <2>3
  <1> QED BY <1>3, <1>4, <1>5, <1>6, <1>7, <1>8 DEF F

\* A byte is only ever written behind the others.
LEMMA BytesWrittenNat ==
    ASSUME TypeOK
    PROVE  BytesWritten \in Nat
  <1>1. CASE frames = <<>>
    BY <1>1, LibEncoderAssumption DEF BytesWritten
  <1>2. CASE frames # <<>>
    <2>1. Len(frames) \in 1..Len(frames)
      BY <1>2, EmptySeq DEF TypeOK
    <2>2. frames[Len(frames)] \in Frame
      BY <2>1, ElementOfSeq DEF TypeOK
    <2> QED BY <1>2, <2>2 DEF BytesWritten, Frame
  <1> QED BY <1>1, <1>2

LEMMA WriteFrameInv ==
    ASSUME IInv, NEW bytes \in FrameSizes, WriteFrame(bytes)
    PROVE  IInv'
  <1> DEFINE new == [number |-> current_frame_number, samples |-> TheBlock,
                     first |-> BytesWritten, end |-> BytesWritten + bytes]
             n == Len(TheBlock)
  <1>1. /\ InFrame /\ Verified /\ md5' = md5 \o TheBlock
        /\ input_fifo' = Drop(input_fifo, n) /\ frames' = Append(frames, new)
        /\ framesize' = [min |-> Min({bytes, framesize.min}),
                         max |-> Max({bytes, framesize.max})]
        /\ signal' = Drop(signal, n)
        /\ current_frame_number' = current_frame_number + 1
        /\ total_samples' = total_samples + n
        /\ pc' = IF pc = "last_frame" THEN "md5"
                 ELSE IF j < Len(buffer) THEN "fill" ELSE "idle"
    BY DEF WriteFrame, Dequeued, Unprocessed, NextNumber, Stages
  <1>2. UNCHANGED <<state, given, buffer, j, retry, torn, header, starved>>
    BY DEF WriteFrame, call
  <1>3. /\ state \in {"ok", "memory_allocation_error"}
        /\ input_fifo = signal /\ input_fifo' = signal'
    BY <1>1, FrameOfSignal
  <1>4. /\ pc = "frame" => pc' \in {"fill", "idle"}
        /\ pc = "last_frame" => pc' = "md5"
        /\ pc \in {"frame", "last_frame"}
        /\ pc' = "idle" => ~(j < Len(buffer))
    BY <1>1 DEF InFrame
  <1>5. /\ TheBlock \in Seq(Sample) /\ n \in 1..Block /\ n \in 0..Len(signal)
        /\ n = (IF pc = "frame" THEN Block ELSE Len(signal))
        /\ Len(signal) \in Nat /\ Block \in Nat
        /\ \A k \in 1..n : TheBlock[k] = signal[k]
    <2>1. n = (IF pc = "frame" THEN Block ELSE Len(signal))
      BY <1>1, TheBlockFacts DEF IInv
    <2>2. Len(signal) \in Nat /\ Block \in Nat
      BY LenProperties, LibEncoderAssumption DEF IInv, TypeOK
    <2>3. n \in 1..Block /\ n <= Len(signal)
      BY <1>1, TheBlockFacts DEF IInv
    <2>4. /\ TheBlock \in Seq(Sample)
          /\ \A k \in 1..n : TheBlock[k] = signal[k]
      BY <1>1, TheBlockFacts DEF IInv
    <2> HIDE DEF n
    <2> QED BY <2>1, <2>2, <2>3, <2>4
  <1>6. /\ signal' \in Seq(Sample)
        /\ Len(signal') = Len(signal) - n
        /\ \A k \in 1..(Len(signal) - n) : signal'[k] = signal[n + k]
    <2>1. signal \in Seq(Sample) /\ n \in 0..Len(signal)
      BY <1>5 DEF IInv, TypeOK
    <2>2. signal' = Drop(signal, n)
      BY <1>1
    <2> HIDE DEF n
    <2> QED BY <2>1, <2>2, DropFacts
  <1>7. new \in Frame
    <2>1. bytes \in Nat
      BY LibEncoderAssumption
    <2>2. BytesWritten \in Nat /\ current_frame_number \in Nat
      BY BytesWrittenNat DEF IInv, TypeOK
    <2> HIDE DEF n
    <2> QED BY <1>5, <2>1, <2>2 DEF Frame
  <1>8. new.samples = TheBlock /\ new.number = current_frame_number
    OBVIOUS
  <1> HIDE DEF new
  <1>9. /\ frames' \in Seq(Frame) /\ Len(frames') = Len(frames) + 1
        /\ NumbersGivePositions'
        /\ SamplesInFile' = SamplesInFile + n
        /\ pc = "frame" => \A i \in 1..Len(frames') :
                              Len(frames'[i].samples) = Block
        /\ FramesInOrder /\ state = "ok" => FramesInOrder'
    BY <1>1, <1>7, <1>8, FrameAppended
  <1>10. /\ md5' \in Seq(Sample) /\ Len(md5') = Len(md5) + n
         /\ \A k \in 1..(Len(md5) + n) :
               md5'[k] = IF k <= Len(md5) THEN md5[k]
                         ELSE TheBlock[k - Len(md5)]
    BY <1>1, Accumulated
  <1> HIDE DEF n
  <1>11. framesize' \in [min : Nat, max : Nat]
    <2>1. bytes \in Nat /\ framesize.min \in Nat /\ framesize.max \in Nat
      BY LibEncoderAssumption DEF IInv, TypeOK
    <2>2. /\ Min({bytes, framesize.min}) \in Nat
          /\ Max({bytes, framesize.max}) \in Nat
      BY <2>1, MinOfTwo, MaxOfTwo
    <2> QED BY <1>1, <2>2
  <1>12. TypeOK'
    <2>1. /\ current_frame_number' \in Nat /\ total_samples' \in Nat
          /\ Len(signal') <= Block + 1
      <3>1. n \in Nat /\ Len(signal) \in Nat /\ Len(signal) <= Block + 1
        BY <1>5 DEF IInv, TypeOK
      <3>2. Len(signal') = Len(signal) - n /\ Block \in Nat
        BY <1>5, <1>6
      <3>3. current_frame_number \in Nat /\ total_samples \in Nat
        BY DEF IInv, TypeOK
      <3>4. /\ current_frame_number' = current_frame_number + 1
            /\ total_samples' = total_samples + n
        BY <1>1 DEF n
      <3> QED BY <3>1, <3>2, <3>3, <3>4
    <2>2. pc' \in {"fill", "idle", "md5"}
      BY <1>4
    <2> QED BY <1>2, <1>3, <1>6, <1>9, <1>10, <1>11, <2>1, <2>2
        DEF IInv, TypeOK
  <1>13. Collecting'
    <2>1. pc = "frame" => Len(signal') <= Block
      BY <1>5, <1>6 DEF IInv, Collecting
    <2>2. pc = "last_frame" => signal' = <<>> /\ state = "ok"
      BY <1>5, <1>6, EmptySeq DEF IInv, Collecting
    <2> QED BY <1>2, <1>4, <2>1, <2>2 DEF IInv, Collecting
  <1>14. Entry'
    <2>1. j \in 0..Len(buffer) /\ Len(buffer) \in Nat
      BY LenProperties DEF IInv, TypeOK
    <2>2. pc' = "idle" => j = Len(buffer)
      BY <1>4, <2>1
    <2> QED BY <1>2, <1>4, <2>2 DEF IInv, Entry
  <1>15. Stuck' /\ FifoHoldsSignal'
    BY <1>2, <1>3 DEF Stuck, FifoHoldsSignal
  <1>16. FramesInv'
    <2>1. current_frame_number = Len(frames)
      BY <1>4 DEF IInv, FramesInv
    <2> QED BY <1>1, <1>4, <1>9, <2>1 DEF FramesInv
  <1>17. SamplesInFile \in Nat
    BY SamplesInFileNat DEF IInv, FramesInv
  <1>18. NothingLost'
    <2>1. ~starved' => FramesInOrder'
      <3>1. ~starved => state = "ok" /\ FramesInOrder
        BY <1>3 DEF IInv, Collecting, NothingLost
      <3> QED BY <1>2, <1>9, <3>1
    <2>2. ASSUME state = "ok"
          PROVE  /\ \A k \in 1..Len(signal') : signal'[k] = SamplesInFile' + k
                 /\ SamplesInFile' + Len(signal') = given - (Len(buffer) - j)
      <3>1. /\ \A k \in 1..Len(signal) : signal[k] = SamplesInFile + k
            /\ SamplesInFile + Len(signal) = given - (Len(buffer) - j)
        BY <1>4, <2>2 DEF IInv, NothingLost
      <3>2. SamplesInFile' + Len(signal') = SamplesInFile + Len(signal)
        <4>1. n \in Nat /\ Len(signal) \in Nat
          BY <1>5
        <4>2. /\ Len(signal') = Len(signal) - n
              /\ SamplesInFile' = SamplesInFile + n
          BY <1>6, <1>9
        <4> QED BY <1>17, <4>1, <4>2
      <3>3. ASSUME NEW k \in 1..Len(signal')
            PROVE  signal'[k] = SamplesInFile' + k
        <4>1. n + k \in 1..Len(signal) /\ k \in 1..(Len(signal) - n)
          BY <1>5, <1>6
        <4>2. signal'[k] = SamplesInFile + (n + k)
          BY <1>6, <3>1, <4>1
        <4> QED BY <1>5, <1>9, <1>17, <4>2
      <3> QED BY <3>1, <3>2, <3>3
    <2> QED BY <1>2, <2>1, <2>2 DEF NothingLost
  <1>19. Account'
    <2> SUFFICES ASSUME state = "ok" PROVE Account'
      BY <1>2 DEF Account
    <2>1. /\ ~torn /\ total_samples = SamplesInFile
          /\ Len(md5) = SamplesInFile
          /\ \A k \in 1..Len(md5) : md5[k] = k
      BY <1>4 DEF IInv, Account
    <2>2. \A k \in 1..n : TheBlock[k] = SamplesInFile + k
      <3>1. \A k \in 1..Len(signal) : signal[k] = SamplesInFile + k
        BY <1>4 DEF IInv, NothingLost
      <3>2. \A k \in 1..n : k \in 1..Len(signal)
        BY <1>5
      <3> QED BY <1>5, <3>1, <3>2
    <2>3. ASSUME NEW k \in 1..Len(md5') PROVE md5'[k] = k
      <3>1. k \in 1..(Len(md5) + n)
        BY <1>10
      <3>2. CASE k <= Len(md5)
        BY <1>10, <1>17, <2>1, <3>1, <3>2
      <3>3. CASE k > Len(md5)
        <4>1. k - Len(md5) \in 1..n /\ ~(k <= Len(md5))
          BY <1>5, <1>17, <2>1, <3>1, <3>3
        <4>2. md5'[k] = TheBlock[k - Len(md5)]
          BY <1>10, <3>1, <4>1
        <4>3. TheBlock[k - Len(md5)] = SamplesInFile + (k - Len(md5))
          BY <2>2, <4>1
        <4> QED BY <1>17, <2>1, <4>2, <4>3
      <3> QED BY <1>17, <2>1, <3>2, <3>3
    <2>4. total_samples' = SamplesInFile' /\ Len(md5') = SamplesInFile'
      BY <1>1, <1>9, <1>10, <2>1 DEF n
    <2> QED BY <1>2, <2>1, <2>3, <2>4 DEF Account
  <1>20. HeaderInv'
    <2>1. header.total = 0
      BY <1>4 DEF IInv, HeaderInv
    <2> QED BY <1>2, <1>4, <2>1 DEF HeaderInv, TotalIsTrue
  <1> QED BY <1>12, <1>13, <1>14, <1>15, <1>16, <1>18, <1>19, <1>20 DEF IInv

LEMMA NextInv == IInv /\ [Next]_vars => IInv'
  <1> SUFFICES ASSUME IInv, [Next]_vars PROVE IInv'
    OBVIOUS
  <1>1. CASE UNCHANGED vars
    <2>1. UNCHANGED <<pc, state, given, buffer, j, retry, signal, input_fifo,
                      current_frame_number, md5, total_samples, framesize,
                      frames, torn, header, starved>>
      BY <1>1 DEF vars, call, collected, info, file
    <2>2. TypeOK'
      BY <2>1 DEF IInv, TypeOK
    <2>3. Collecting' /\ Entry' /\ Stuck' /\ FifoHoldsSignal' /\ Account'
      BY <2>1, FramesStay
      DEF IInv, Collecting, Entry, Stuck, FifoHoldsSignal, Account
    <2>4. FramesInv' /\ NothingLost' /\ HeaderInv'
      BY <2>1, FramesStay
      DEF IInv, FramesInv, NothingLost, HeaderInv, TotalIsTrue
    <2> QED BY <2>2, <2>3, <2>4 DEF IInv
  <1>2. CASE \E n \in EntrySizes : Call(n)
    BY <1>2, CallInv
  <1>3. CASE Finish
    BY <1>3, FinishInv
  <1>4. CASE Die
    BY <1>4, DieInv
  <1>5. CASE LibStep
    <2>1. CASE \E bytes \in FrameSizes : WriteFrame(bytes)
      BY <2>1, WriteFrameInv
    <2> QED BY <1>5, <2>1, FillInv, AllocationFailsInv, VerifyFailsInv,
               FifoUnderflowsInv, WriteFailsInv, UpdateMetadataInv,
               UpdateFailsInv, CloseInv DEF LibStep
  <1> QED BY <1>1, <1>2, <1>3, <1>4, <1>5 DEF Next

-----------------------------------------------------------------------------
(***************************************************************************)
(* Theorems.                                                               *)
(***************************************************************************)

\* The inductive invariant of the encoder.
THEOREM EncoderInvariance == Spec => []IInv
  BY InitInv, NextInv, PTL DEF Spec

\* The encoder's variables keep their types, for any sizes
\* (stream_encoder.c:2031-2110).
THEOREM EncoderTypeCorrectness == Spec => []TypeOK
  <1>1. IInv => TypeOK
    BY DEF IInv
  <1> QED BY <1>1, EncoderInvariance, PTL

\* The fifo holds the signal until a write fails, however the entries fall
\* among the blocks (stream_encoder.c:2088-2102, 4236).
THEOREM FifoFollowsSignal == Spec => []FifoHoldsSignal
  <1>1. IInv => FifoHoldsSignal
    BY DEF IInv
  <1> QED BY <1>1, EncoderInvariance, PTL

\* The file and the signal hold every sample taken, in order, while nothing
\* has failed (stream_encoder.c:2031-2110).
THEOREM FileFollowsInput == Spec => []NothingLost
  <1>1. IInv => NothingLost
    BY DEF IInv
  <1> QED BY <1>1, EncoderInvariance, PTL

\* A frame's number times the block size is where it starts
\* (stream_encoder.c:2927; stream_decoder.c:2420).
THEOREM NumbersArePositions == Spec => []NumbersGivePositions
  <1>1. IInv => NumbersGivePositions
    BY DEF IInv, FramesInv
  <1> QED BY <1>1, EncoderInvariance, PTL

\* Whenever the process dies, a total in the header is true
\* (stream_encoder.c:1340, 2546-2611).
THEOREM HeaderIsTrue == Spec => []TotalIsTrue
  <1>1. IInv => TotalIsTrue
    BY DEF IInv, HeaderInv
  <1> QED BY <1>1, EncoderInvariance, PTL

\* After a failed write, no step adds a frame.
LEMMA NoFrameAfterFailure ==
    ASSUME IInv, [Next]_vars, state \in {"client_error", "verify_mismatch"}
    PROVE  Len(frames') <= Len(frames)
  <1>1. Len(frames) \in Nat
    BY LenProperties DEF IInv, TypeOK
  <1>2. CASE UNCHANGED frames
    BY <1>1, <1>2
  <1>3. CASE \E bytes \in FrameSizes : WriteFrame(bytes)
    <2>1. InFrame /\ Verified
      BY <1>3 DEF WriteFrame
    <2> QED BY <2>1, FrameOfSignal
  <1>4. CASE Die
    <2>1. ASSUME NEW k \in 0..Len(frames), frames' = SubSeq(frames, 1, k)
          PROVE  Len(frames') <= Len(frames)
      <3>1. Len(frames') = k
        BY <2>1, PrefixFacts DEF IInv, TypeOK
      <3> QED BY <1>1, <3>1
    <2> QED BY <1>2, <1>4, <2>1 DEF Die
  <1> QED BY <1>2, <1>3, <1>4
      DEF Next, vars, Call, Finish, LibStep, Fill, AllocationFails,
          VerifyFails, FifoUnderflows, WriteFails, UpdateMetadata,
          UpdateFails, Close, file

\* Retries after a failed write are futile, for any number of them: no frame
\* is ever added (stream_encoder.c:2420-2425, 4236;
\* FLACStreamEncoder.cpp:349-365).
THEOREM RetriesAreFutile == Spec => WriteFailureIsFinal
  <1>1. IInv /\ [Next]_vars
           => [(state \in {"client_error", "verify_mismatch"})
                  => Len(frames') <= Len(frames)]_vars
    BY NoFrameAfterFailure
  <1> QED BY <1>1, EncoderInvariance, PTL DEF Spec, WriteFailureIsFinal

-----------------------------------------------------------------------------
(***************************************************************************)
(* Why a call ends: what each of its steps brings nearer.                  *)
(***************************************************************************)

\* The thread is in libFLAC.
InCall == pc \notin {"idle", "closed", "died"}

\* How far the thread is from the end of finish(); in process_interleaved() it
\* has all of it before it.
Distance == CASE pc = "last_frame" -> 5
              [] pc = "md5" -> 4
              [] pc = "total" -> 3
              [] pc = "sizes" -> 2
              [] pc = "close" -> 1
              [] OTHER -> 6

\* The next step of finish() is reached; or one more of the retries is used
\* up; or more of the entry is taken; or the signal has been shortened; or it
\* is full, and its frame comes next.
Nearer ==
    \/ Distance' < Distance
    \/ /\ Distance' = Distance /\ UNCHANGED buffer
       /\ \/ retry' > retry
          \/ retry' = retry /\ j' > j
          \/ retry' = retry /\ j' = j /\ Len(signal') < Len(signal)
          \/ /\ retry' = retry /\ j' = j /\ signal' = signal
             /\ pc = "fill" /\ pc' = "frame"

LEMMA FillNearer ==
    ASSUME IInv, Fill, InCall'
    PROVE  Nearer
  <1>1. /\ pc = "fill" /\ pc' = "frame" /\ signal' = signal \o Taken
        /\ j' = j + Len(Taken) /\ UNCHANGED <<buffer, retry>>
    BY DEF Fill, InCall
  <1>2. Taken \in Seq(Sample) /\ Len(Taken) \in Nat
    BY TakenFacts DEF IInv
  <1>3. j \in Nat /\ signal \in Seq(Sample)
    BY DEF IInv, TypeOK
  <1>4. Distance = 6 /\ Distance' = 6
    BY <1>1 DEF Distance
  <1>5. CASE Len(Taken) = 0
    <2>1. Taken = <<>>
      BY <1>2, <1>5, EmptySeq
    <2>2. signal' = signal /\ j' = j
      BY <1>1, <1>3, <1>5, <2>1, ConcatEmptySeq
    <2> QED BY <1>1, <1>4, <2>2 DEF Nearer
  <1>6. CASE Len(Taken) # 0
    <2>1. j' > j
      BY <1>1, <1>2, <1>3, <1>6
    <2> QED BY <1>1, <1>4, <2>1 DEF Nearer
  <1> QED BY <1>5, <1>6

\* A failure is answered by a retry, of which there are only so many.
LEMMA FailedNearer ==
    ASSUME IInv, NEW error \in Errors, Failed(error), UNCHANGED buffer, InCall'
    PROVE  Nearer
  <1>1. CASE pc = "last_frame"
    <2>1. pc' = "close"
      BY <1>1 DEF Failed
    <2> QED BY <1>1, <2>1 DEF Nearer, Distance
  <1>2. CASE pc = "frame"
    <2>1. /\ pc' = "fill" /\ retry < RetryLimit
          /\ retry' = Min({retry + 1, RetryLimit})
      BY <1>2 DEF Failed, Retries, InCall
    <2>2. retry \in Nat /\ RetryLimit \in Nat
      BY LibEncoderAssumption DEF IInv, TypeOK
    <2>3. retry' > retry
      BY <2>1, <2>2, MinOfTwo
    <2>4. Distance = 6 /\ Distance' = 6
      BY <1>2, <2>1 DEF Distance
    <2> QED BY <2>3, <2>4 DEF Nearer
  <1> QED BY <1>1, <1>2 DEF Failed

LEMMA WriteFrameNearer ==
    ASSUME IInv, NEW bytes \in FrameSizes, WriteFrame(bytes), InCall'
    PROVE  Nearer
  <1>1. CASE pc = "last_frame"
    <2>1. pc' = "md5"
      BY <1>1 DEF WriteFrame, Stages
    <2> QED BY <1>1, <2>1 DEF Nearer, Distance
  <1>2. CASE pc = "frame"
    <2>1. pc' = "fill" /\ UNCHANGED <<buffer, j, retry>>
          /\ signal' = Drop(signal, Len(TheBlock))
      BY <1>2 DEF WriteFrame, InCall, call, Unprocessed
    <2>2. /\ Len(TheBlock) \in 1..Block /\ Len(TheBlock) <= Len(signal)
          /\ signal \in Seq(Sample) /\ Len(signal) \in Nat
      BY <1>2, TheBlockFacts, LenProperties DEF InFrame, IInv, TypeOK
    <2> DEFINE n == Len(TheBlock)
    <2>3. n \in 0..Len(signal) /\ n > 0
      BY <2>2, LibEncoderAssumption
    <2> HIDE DEF n
    <2>4. Len(Drop(signal, n)) = Len(signal) - n
      BY <2>2, <2>3, DropFacts
    <2>5. Len(signal') < Len(signal)
      BY <2>1, <2>2, <2>3, <2>4 DEF n
    <2>6. Distance = 6 /\ Distance' = 6
      BY <1>2, <2>1 DEF Distance
    <2> QED BY <2>1, <2>5, <2>6 DEF Nearer
  <1> QED BY <1>1, <1>2 DEF WriteFrame, InFrame

LEMMA UpdateNearer ==
    ASSUME UpdateMetadata \/ UpdateFails
    PROVE  Nearer
  <1>1. CASE UpdateMetadata
    <2>1. \/ (pc = "md5" /\ pc' = "total")
          \/ (pc = "total" /\ pc' = "sizes")
          \/ (pc = "sizes" /\ pc' = "close")
      BY <1>1, StageOrder DEF UpdateMetadata
    <2> QED BY <2>1 DEF Nearer, Distance
  <1>2. CASE UpdateFails
    <2>1. pc \in {"md5", "total", "sizes"} /\ pc' = "close"
      BY <1>2 DEF UpdateFails
    <2> QED BY <2>1 DEF Nearer, Distance
  <1> QED BY <1>1, <1>2

LEMMA CallGetsNearer ==
    IInv /\ [Next]_vars => [InCall /\ InCall' => Nearer]_vars
  <1> SUFFICES ASSUME IInv, Next, InCall, InCall' PROVE Nearer
    OBVIOUS
  <1>1. LibStep
    BY DEF Next, Call, Finish, Die, InCall
  <1>2. CASE Fill
    BY <1>2, FillNearer
  <1>3. CASE AllocationFails \/ VerifyFails \/ WriteFails
    <2>1. \E error \in Errors : Failed(error)
      BY <1>3 DEF AllocationFails, VerifyFails, WriteFails, Errors
    <2>2. UNCHANGED buffer
      BY <1>3 DEF AllocationFails, VerifyFails, WriteFails
    <2> QED BY <2>1, <2>2, FailedNearer
  <1>4. CASE FifoUnderflows \/ Close
    BY <1>4 DEF FifoUnderflows, Close, InCall
  <1>5. CASE \E bytes \in FrameSizes : WriteFrame(bytes)
    BY <1>5, WriteFrameNearer
  <1>6. CASE UpdateMetadata \/ UpdateFails
    BY <1>6, UpdateNearer
  <1> QED BY <1>1, <1>2, <1>3, <1>4, <1>5, <1>6 DEF LibStep

\* Every step of a call brings its end nearer, for any entries and any number
\* of retries: the retries and the entry are bounded, and a full signal is
\* followed by its frame, after which it is shorter
\* (FLACStreamEncoder.cpp:338-371; stream_encoder.c:1316-1382, 2031-2110).
THEOREM CallsGetNearerTheirEnd ==
    Spec => /\ [](retry \in 0..RetryLimit /\ j \in 0..Len(buffer))
            /\ [][InCall /\ InCall' => Nearer]_vars
  <1>1. IInv => retry \in 0..RetryLimit /\ j \in 0..Len(buffer)
    BY DEF IInv, TypeOK
  <1> QED BY <1>1, InitInv, NextInv, CallGetsNearer, PTL DEF Spec
=============================================================================
