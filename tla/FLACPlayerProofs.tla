-------------------------- MODULE FLACPlayerProofs --------------------------
(***************************************************************************)
(* Proofs about the decoder and the player that uses it, for files, blocks *)
(* and damages of any size and any number of requests. The decoder first:  *)
(* its variables keep their types, what is heard is what the file holds,   *)
(* in order, from where one has sought, and the position follows. Then the *)
(* player: pausing takes effect within a block, a seek is not forgotten    *)
(* before it is handed over, and playing goes on near its target. For the  *)
(* last, each step of the player is shown to be one of the decoder's.      *)
(* Last, each step of it brings playing nearer to its end.                 *)
(***************************************************************************)
EXTENDS FLACPlayer, SequenceTheorems, TLAPS

-----------------------------------------------------------------------------
(***************************************************************************)
(* The decoder.                                                            *)
(***************************************************************************)

Audible == Values \union {Silence}

\* A sample at which a block begins, or the end of the file.
Starts == {s \in 0..Total : s = Total \/ s % Block = 0}

\* Where the values heard begin.
Origin == IF target = -1 THEN 0 ELSE BlockEnd(target)

\* The values decoded in this call of read().
Buffered == SubSeq(buffer, 1, m_buf_used)

\* What was decoded since the last seek, returned or not.
Decoded == IF pc = "process" THEN heard \o Buffered ELSE heard

\* The damaged block has been met: no more is read.
Past == Origin <= bad /\ bad < next

FileInv == bad # Total \/ damage = "none"

\* A block is written at the start of the buffer: a second one in the same
\* call would find the first one to be the last of the file.
BufferInv ==
    /\ offset = 0
    /\ next \in Starts
    /\ target < Total
    /\ Origin <= next
    /\ pc = "seek" => m_buf_used = 0 /\ m_seek_pos >= 0
    /\ pc = "process" => m_buf_used = 0 \/ next = Total
    /\ pc # "idle" => ~Past

\* Nothing is left out or repeated up to the damage.
OrderInv ==
    /\ ~overflowed
    /\ IF Past THEN m_finished /\ IsPrefix(heard, Playable(Origin))
               ELSE Decoded = Span(Origin, next)

\* The position counts the values; a seek sets it to a sample.
PositionInv ==
    /\ m_cur_pos + (Total - next) * Channels <= Total * (Channels + 1)
    /\ m_buf_used <= m_cur_pos + 1
    /\ seeks = 0 => /\ m_seek_pos = -1 /\ pc # "seek" /\ target = -1
                    /\ m_cur_pos + 1 = Len(Decoded)

DecoderInv == TypeOK /\ FileInv /\ BufferInv /\ OrderInv /\ PositionInv
-----------------------------------------------------------------------------
(***************************************************************************)
(* Blocks.                                                                 *)
(***************************************************************************)

LEMMA DivBounds ==
    ASSUME NEW s \in Nat, NEW b \in Nat \ {0}
    PROVE  s \div b \in Nat /\ b * (s \div b) <= s /\ s < b * (s \div b) + b
  BY SMT

LEMMA Multiple ==
    ASSUME NEW s \in Nat, NEW b \in Nat \ {0}, s % b = 0
    PROVE  s = b * (s \div b)
  BY SMT

LEMMA MultipleMod ==
    ASSUME NEW k \in Nat, NEW b \in Nat \ {0}
    PROVE  (b * k) % b = 0 /\ (b * k) \div b = k
  BY SMT

LEMMA MinOfTwo ==
    ASSUME NEW a \in Int, NEW b \in Int
    PROVE  Min({a, b}) = IF a <= b THEN a ELSE b
  BY DEF Min

\* What BlockEnd() is, without division.
LEMMA BlockEndIs ==
    ASSUME NEW s \in 0..Total
    PROVE  \E k \in Nat : /\ Block * k <= s /\ s < Block * k + Block
                         /\ BlockEnd(s) = IF Total <= Block * k + Block
                                          THEN Total ELSE Block * k + Block
<1> DEFINE k == s \div Block
<1>1. Block \in Nat \ {0} /\ Total \in Nat /\ s \in Nat
  BY DecoderAssumption
<1>2. k \in Nat /\ Block * k <= s /\ s < Block * k + Block
  BY <1>1, DivBounds
<1>3. (k + 1) * Block = Block * k + Block
  BY <1>1, <1>2
<1>4. Block * k \in Nat
  BY <1>1, <1>2
<1>5. BlockEnd(s) = IF Total <= Block * k + Block THEN Total ELSE Block * k + Block
  BY <1>1, <1>3, <1>4, MinOfTwo DEF BlockEnd
<1> HIDE DEF k
<1> QED
  BY <1>2, <1>5

\* The end of a block begins the next one, or is the end of the file.
LEMMA BlockEndBounds ==
    ASSUME NEW s \in 0..Total
    PROVE  /\ BlockEnd(s) \in Starts /\ BlockEnd(s) \in s..Total
           /\ BlockEnd(s) <= s + Block
           /\ s < Total => s < BlockEnd(s)
<1>1. Block \in Nat \ {0} /\ Total \in Nat \ {0}
  BY DecoderAssumption
<1>2. PICK k \in Nat : /\ Block * k <= s /\ s < Block * k + Block
                       /\ BlockEnd(s) = IF Total <= Block * k + Block
                                        THEN Total ELSE Block * k + Block
  BY BlockEndIs
<1>3. Block * (k + 1) = Block * k + Block /\ k + 1 \in Nat /\ Block * k \in Nat
  BY <1>1, <1>2
<1>4. (Block * k + Block) % Block = 0
  BY <1>1, <1>3, MultipleMod
<1> QED
  BY <1>1, <1>2, <1>3, <1>4 DEF Starts

\* From before a start, the next block ends there or before.
LEMMA NextStart ==
    ASSUME NEW s \in 0..Total, NEW b \in Starts, s < b
    PROVE  BlockEnd(s) <= b
<1>1. Block \in Nat \ {0} /\ Total \in Nat \ {0} /\ b \in 0..Total
  BY DecoderAssumption DEF Starts
<1>2. PICK k \in Nat : /\ Block * k <= s /\ s < Block * k + Block
                       /\ BlockEnd(s) = IF Total <= Block * k + Block
                                        THEN Total ELSE Block * k + Block
  BY BlockEndIs
<1>3. CASE b = Total
  BY <1>3, BlockEndBounds
<1>4. CASE b % Block = 0
  <2> DEFINE j == b \div Block
  <2>1. b = Block * j /\ j \in Nat
    BY <1>1, <1>4, Multiple, DivBounds
  <2> HIDE DEF j
  <2>2. k < j
    BY <1>1, <1>2, <2>1
  <2>3. Block * (k + 1) <= Block * j
    BY <1>1, <2>1, <2>2
  <2>4. Block * (k + 1) = Block * k + Block /\ Block * k \in Nat
    BY <1>1
  <2> QED
    BY <1>1, <1>2, <2>1, <2>3, <2>4
<1> QED
  BY <1>3, <1>4 DEF Starts

\* All blocks but the last are of full size.
LEMMA FullBlock ==
    ASSUME NEW s \in Starts, BlockEnd(s) # Total
    PROVE  BlockEnd(s) = s + Block
<1>1. Block \in Nat \ {0} /\ Total \in Nat \ {0} /\ s \in 0..Total
  BY DecoderAssumption DEF Starts
<1>2. PICK k \in Nat : /\ Block * k <= s /\ s < Block * k + Block
                       /\ BlockEnd(s) = IF Total <= Block * k + Block
                                        THEN Total ELSE Block * k + Block
  BY <1>1, BlockEndIs
<1>3. s # Total
  BY <1>1, BlockEndBounds
<1>4. s = Block * (s \div Block) /\ s \div Block \in Nat
  BY <1>1, <1>3, Multiple, DivBounds DEF Starts
<1> DEFINE j == s \div Block
<1> HIDE DEF j
<1>5. s = Block * j /\ j \in Nat
  BY <1>4 DEF j
<1>6. j = k
  BY <1>1, <1>2, <1>5
<1> QED
  BY <1>1, <1>2, <1>5, <1>6

-----------------------------------------------------------------------------
(***************************************************************************)
(* Spans of values and the buffer.                                         *)
(***************************************************************************)

\* Products with the number of channels.
LEMMA Products ==
    ASSUME NEW a \in Int, NEW b \in Int
    PROVE  /\ a * Channels \in Int /\ (b - a) * Channels = b * Channels - a * Channels
           /\ a <= b => a * Channels <= b * Channels
           /\ a < b => a * Channels < b * Channels
           /\ 0 <= a => a <= a * Channels
           /\ (a + b) * Channels = a * Channels + b * Channels
  BY DecoderAssumption

LEMMA SpanProperties ==
    ASSUME NEW a \in 0..Total, NEW b \in a..Total
    PROVE  /\ Span(a, b) \in Seq(Values) /\ Span(a, b) \in Seq(Audible)
           /\ Len(Span(a, b)) = b * Channels - a * Channels
           /\ \A i \in 1..Len(Span(a, b)) : Span(a, b)[i] = a * Channels + i - 1
<1> DEFINE n == (b - a) * Channels
           A == a * Channels
           B == b * Channels
           T == Total * Channels
<1>1. Total \in Nat /\ a \in Int /\ b \in Int /\ 0 <= a /\ a <= b /\ b <= Total
  BY DecoderAssumption
<1>2. /\ A \in Int /\ B \in Int /\ T \in Int /\ 0 <= A /\ A <= B /\ B <= T
      /\ n = B - A
  BY <1>1, DecoderAssumption
<1>3. Values = 0..(T - 1)
  BY DEF Values
<1> HIDE DEF A, B, T, n
<1>4. n \in Nat
  BY <1>2
<1>5. Span(a, b) = [i \in 1..n |-> A + i - 1]
  BY DEF Span, n, A
<1>6. \A i \in 1..n : A + i - 1 \in Values
  BY <1>2, <1>3, <1>4
<1>7. Span(a, b) \in [1..n -> Values] /\ Values \subseteq Audible
  BY <1>5, <1>6 DEF Audible
<1>8. Span(a, b) \in Seq(Values) /\ Span(a, b) \in Seq(Audible) /\ Len(Span(a, b)) = n
  BY <1>4, <1>7, SeqDef
<1> QED
  BY <1>2, <1>4, <1>5, <1>8 DEF A, B

LEMMA SilenceProperties ==
    ASSUME NEW a \in 0..Total, NEW b \in a..Total
    PROVE  /\ SilenceFor(a, b) \in Seq(Audible)
           /\ Len(SilenceFor(a, b)) = b * Channels - a * Channels
<1> DEFINE n == (b - a) * Channels
<1>1. Total \in Nat /\ a \in Int /\ b \in Int /\ 0 <= a /\ a <= b /\ b <= Total
  BY DecoderAssumption
<1>2. n \in Nat /\ n = b * Channels - a * Channels
  BY <1>1, DecoderAssumption
<1>3. SilenceFor(a, b) \in [1..n -> Audible]
  BY DEF SilenceFor, Audible
<1> HIDE DEF n
<1> QED
  BY <1>2, <1>3, SeqDef

\* Adjacent spans make one.
LEMMA SpanConcat ==
    ASSUME NEW a \in 0..Total, NEW b \in a..Total, NEW c \in b..Total
    PROVE  Span(a, b) \o Span(b, c) = Span(a, c)
<1> DEFINE A == a * Channels
           B == b * Channels
           C == c * Channels
<1>1. Total \in Nat /\ a \in Int /\ b \in Int /\ c \in Int /\ a <= b /\ b <= c /\ 0 <= a /\ c <= Total
  BY DecoderAssumption
<1>2. A \in Int /\ B \in Int /\ C \in Int /\ A <= B /\ B <= C
  BY <1>1, DecoderAssumption
<1>3. /\ b \in 0..Total /\ b \in a..Total /\ c \in a..Total /\ c \in b..Total
  BY <1>1
<1>4. /\ Span(a, b) \in Seq(Values) /\ Len(Span(a, b)) = B - A
      /\ \A i \in 1..Len(Span(a, b)) : Span(a, b)[i] = A + i - 1
  BY <1>3, SpanProperties
<1>5. /\ Span(b, c) \in Seq(Values) /\ Len(Span(b, c)) = C - B
      /\ \A i \in 1..Len(Span(b, c)) : Span(b, c)[i] = B + i - 1
  BY <1>3, SpanProperties
<1>6. /\ Span(a, c) \in Seq(Values) /\ Len(Span(a, c)) = C - A
      /\ \A i \in 1..Len(Span(a, c)) : Span(a, c)[i] = A + i - 1
  BY <1>3, SpanProperties
<1> HIDE DEF A, B, C
<1> DEFINE s == Span(a, b)
           t == Span(b, c)
<1>7. /\ s \o t \in Seq(Values) /\ Len(s \o t) = Len(s) + Len(t)
      /\ \A i \in 1..(Len(s) + Len(t)) :
            (s \o t)[i] = IF i <= Len(s) THEN s[i] ELSE t[i - Len(s)]
  BY <1>4, <1>5, ConcatProperties
<1>8. Len(s \o t) = Len(Span(a, c))
  BY <1>2, <1>4, <1>5, <1>6, <1>7
<1>9. ASSUME NEW i \in 1..Len(s \o t)
      PROVE  (s \o t)[i] = Span(a, c)[i]
  <2>1. CASE i <= Len(s)
    BY <1>2, <1>4, <1>5, <1>6, <1>7, <1>8, <1>9, <2>1
  <2>2. CASE ~(i <= Len(s))
    <3>1. i - Len(s) \in 1..Len(t)
      BY <1>2, <1>4, <1>5, <1>7, <2>2
    <3> QED
      BY <1>2, <1>4, <1>5, <1>6, <1>7, <1>8, <1>9, <2>2, <3>1
  <2> QED
    BY <2>1, <2>2
<1> QED
  BY <1>6, <1>7, <1>8, <1>9, SeqEqual

\* A sequence is a prefix of what is made by adding to it, and of itself.
LEMMA PrefixOfConcat ==
    ASSUME NEW S, NEW s \in Seq(S), NEW t \in Seq(S)
    PROVE  IsPrefix(s, s \o t) /\ IsPrefix(s, s)
<1>1. s \o t \in Seq(S) /\ Len(s \o t) = Len(s) + Len(t) /\ Len(s) \in Nat /\ Len(t) \in Nat
  BY ConcatProperties, LenProperties
<1>2. Len(s) <= Len(s \o t)
  BY <1>1
<1>3. SubSeq(s \o t, 1, Len(s)) = SubSeq(s, 1, Len(s))
  <2>1. CASE Len(s) = 0
    BY <2>1, SubSeqEmpty
  <2>2. CASE Len(s) # 0
    <3>1. 1 \in 1..Len(s) /\ Len(s) \in 1..Len(s)
      BY <1>1, <2>2
    <3> QED
      BY <3>1, SubSeqOfConcat1
  <2> QED
    BY <2>1, <2>2
<1> QED
  BY <1>1, <1>2, <1>3 DEF IsPrefix

LEMMA CapacityValue ==
    /\ Capacity = Block * Channels /\ Capacity \in Nat \ {0}
    /\ BufSize \in Nat /\ Capacity <= BufSize
<1> DEFINE BC == Block * Channels
<1>1. BC \in Nat \ {0}
  BY DecoderAssumption
<1>2. BufSize = BC * BytesPerValue
  BY DecoderAssumption DEF BufSize
<1> HIDE DEF BC
<1>3. Capacity = BC /\ BufSize \in Nat /\ BC <= BufSize
  BY <1>1, <1>2, DecoderAssumption DEF Capacity
<1> QED
  BY <1>1, <1>3 DEF BC

\* write_internal() into an empty buffer: the block fits and lies at its start.
LEMMA WriteInternalEffect ==
    ASSUME TypeOK, offset = 0, m_buf_used = 0, ~overflowed,
           NEW block \in Seq(Audible), Len(block) <= Block * Channels,
           WriteInternal(block)
    PROVE  /\ offset' = 0 /\ m_buf_used' = Len(block)
           /\ m_buf_used' \in 0..(Block * Channels)
           /\ m_cur_pos' = m_cur_pos + Len(block)
           /\ ~overflowed' /\ overflowed' \in BOOLEAN
           /\ buffer' \in [1..BufSize -> Values \union {Unwritten, Silence}]
           /\ Buffered' = block
<1> DEFINE n == Len(block)
<1>1. n \in Nat /\ n <= Capacity /\ Capacity \in Nat /\ Capacity <= BufSize /\ BufSize \in Nat
  BY CapacityValue, LenProperties
<1>2. Capacity - m_buf_used = Capacity
  BY <1>1
<1>3. Min({n, Capacity - m_buf_used}) = n
  BY <1>1, <1>2, MinOfTwo
<1> DEFINE filled == [i \in DOMAIN buffer |->
                         IF i \in 1..n THEN block[i] ELSE buffer[i]]
<1>4. /\ buffer' = [i \in DOMAIN buffer |->
                       IF i \in (offset + 1)..(offset + n)
                       THEN block[i - offset] ELSE buffer[i]]
      /\ offset' = offset + m_buf_used \div BytesPerValue
      /\ m_buf_used' = m_buf_used + n
      /\ m_cur_pos' = m_cur_pos + n
      /\ overflowed' = (overflowed \/ n < n)
  BY <1>3 DEF WriteInternal
<1>5. offset' = 0 /\ m_buf_used' = n /\ ~overflowed' /\ overflowed' \in BOOLEAN
  <2>1. m_buf_used \div BytesPerValue = 0
    BY DecoderAssumption
  <2>2. ~(n < n)
    BY <1>1
  <2>3. offset' = 0 /\ m_buf_used' = n
    BY <1>1, <1>4, <2>1
  <2> QED
    BY <1>4, <2>2, <2>3
<1>6. \A i \in 1..n : block[i] \in Audible /\ i - 0 = i
  BY <1>1, ElementOfSeq
<1>7. /\ DOMAIN buffer = 1..BufSize
      /\ \A i \in 1..BufSize : buffer[i] \in Values \union {Unwritten, Silence}
  BY DEF TypeOK
<1>8. buffer' = filled
  BY <1>1, <1>4, <1>6, <1>7
<1>9. buffer' \in [1..BufSize -> Values \union {Unwritten, Silence}]
  BY <1>6, <1>7, <1>8 DEF Audible
<1>10. \A i \in 1..n : buffer'[i] = block[i] /\ buffer'[i] \in Audible
  BY <1>1, <1>6, <1>7, <1>8
<1>11. Buffered' = SubSeq(buffer', 1, n)
  BY <1>5 DEF Buffered
<1>12. Buffered' \in Seq(Audible) /\ Len(Buffered') = IF 1 <= n THEN n - 1 + 1 ELSE 0
  BY <1>1, <1>10, <1>11, SubSeqProperties
<1>13. \A i \in 1..(n - 1 + 1) : Buffered'[i] = buffer'[1 + i - 1]
  BY <1>1, <1>10, <1>11, SubSeqProperties
<1>14. Len(Buffered') = n
  BY <1>1, <1>12
<1>15. \A i \in 1..n : 1 + i - 1 = i /\ n - 1 + 1 = n
  BY <1>1
<1>16. \A i \in 1..n : Buffered'[i] = block[i]
  BY <1>1, <1>10, <1>13, <1>15
<1>17. Buffered' = block
  BY <1>12, <1>14, <1>16, SeqEqual
<1>18. m_buf_used' \in 0..(Block * Channels)
  BY <1>1, <1>5, CapacityValue
<1> QED
  BY <1>4, <1>5, <1>9, <1>17, <1>18

-----------------------------------------------------------------------------
(***************************************************************************)
(* Steps.                                                                  *)
(***************************************************************************)

LEMMA OriginBounds ==
    ASSUME target \in -1..Total, target < Total
    PROVE  /\ Origin \in Starts /\ Origin \in 0..Total
           /\ target # -1 => Origin \in target..Total /\ Origin <= target + Block
<1>1. Total \in Nat /\ Total # 0 /\ Block \in Nat /\ Block # 0
  BY DecoderAssumption
<1>2. CASE target = -1
  <2>1. 0 % Block = 0
    BY <1>1, MultipleMod
  <2> QED
    BY <1>1, <1>2, <2>1 DEF Origin, Starts
<1>3. CASE target # -1
  <2>1. target \in 0..Total
    BY <1>1, <1>3
  <2> QED
    BY <1>1, <1>3, <2>1, BlockEndBounds DEF Origin, Starts
<1> QED
  BY <1>2, <1>3

\* What read() has decoded after a call of libFLAC, whether it goes on or not.
LEMMA ContinueEffect ==
    ASSUME ended \in BOOLEAN, NEW result \in BOOLEAN, Continue(result)
    PROVE  /\ pc' \in {"idle", "process"} /\ ended' \in BOOLEAN
           /\ Decoded' = IF result THEN heard \o Buffered' ELSE heard
           /\ pc' = "idle" => heard' = Decoded'
           /\ pc' = "process" => /\ heard' = heard /\ m_buf_used' < Capacity
                                 /\ ~m_finished'
<1>1. CASE ~m_finished' /\ result /\ m_buf_used' < Capacity
  BY <1>1 DEF Continue, Decoded, Buffered
<1>2. CASE ~(~m_finished' /\ result /\ m_buf_used' < Capacity)
  BY <1>2 DEF Continue, Decoded, Buffered
<1> QED
  BY <1>1, <1>2

\* The position stays within its bounds when values are counted.
LEMMA PositionCounts ==
    ASSUME TypeOK, PositionInv, next' \in next..Total,
           NEW a \in next..Total, NEW b \in a..next',
           m_cur_pos' = m_cur_pos + (b * Channels - a * Channels)
    PROVE  /\ m_cur_pos' + (Total - next') * Channels <= Total * (Channels + 1)
           /\ m_cur_pos' \in -1..(Total * (Channels + 1))
<1>1. next \in Int /\ next \in 0..Total /\ Total \in Nat /\ m_cur_pos \in Int /\ m_cur_pos >= -1
      /\ a \in Int /\ b \in Int /\ next' \in Int
      /\ next <= a /\ a <= b /\ b <= next' /\ next' <= Total
  BY DecoderAssumption DEF TypeOK
<1>2. m_cur_pos + (Total - next) * Channels <= Total * (Channels + 1)
  BY DEF PositionInv
<1> DEFINE N == next * Channels
           M == next' * Channels
           A == a * Channels
           B == b * Channels
           T == Total * Channels
<1>3. /\ N \in Int /\ M \in Int /\ A \in Int /\ B \in Int /\ T \in Int
      /\ N <= A /\ A <= B /\ B <= M /\ M <= T
  <2>1. N \in Int /\ N <= A
    BY <1>1, Products
  <2>2. A \in Int /\ A <= B
    BY <1>1, Products
  <2>3. B \in Int /\ B <= M
    BY <1>1, Products
  <2>4. M \in Int /\ M <= T
    BY <1>1, Products
  <2>5. T \in Int
    BY <1>1, Products
  <2> QED
    BY <2>1, <2>2, <2>3, <2>4, <2>5
<1>4. (Total - next) * Channels = T - N /\ (Total - next') * Channels = T - M
  <2>1. (Total - next) * Channels = T - N
    BY <1>1, Products
  <2>2. (Total - next') * Channels = T - M
    BY <1>1, Products
  <2> QED
    BY <2>1, <2>2
<1>5. Total * (Channels + 1) = T + Total
  BY <1>1, DecoderAssumption
<1>6. m_cur_pos' = m_cur_pos + (B - A)
  OBVIOUS
<1> HIDE DEF N, M, A, B, T
<1>7. m_cur_pos' \in Int /\ m_cur_pos' >= -1
  BY <1>1, <1>3, <1>6
<1>8. m_cur_pos + (T - N) <= T + Total
  BY <1>2, <1>4, <1>5
<1>9. m_cur_pos' + (T - M) <= T + Total /\ m_cur_pos' <= T + Total
  BY <1>1, <1>3, <1>6, <1>8
<1>10. T + Total \in Int
  BY <1>1, <1>3
<1> QED
  BY <1>4, <1>5, <1>7, <1>9, <1>10

\* While read() is on its way, nothing or the end of the file has been decoded.
LEMMA BeforeBlock ==
    ASSUME DecoderInv, pc = "process", next < Total
    PROVE  /\ m_buf_used = 0 /\ ~Past /\ Decoded = heard
           /\ heard = Span(Origin, next)
           /\ Origin \in 0..Total /\ next \in Origin..Total /\ next \in 0..Total
<1>1. m_buf_used = 0 /\ ~Past /\ heard \in Seq(Audible) /\ next \in 0..Total
      /\ Origin <= next /\ Origin \in 0..Total
  BY OriginBounds, DecoderAssumption DEF DecoderInv, BufferInv, TypeOK, Audible
<1>2. Buffered = <<>>
  BY <1>1, SubSeqEmpty DEF Buffered
<1>3. Decoded = heard
  BY <1>1, <1>2, ConcatEmptySeq DEF Decoded
<1>4. Decoded = Span(Origin, next)
  BY <1>1 DEF DecoderInv, OrderInv
<1> QED
  BY <1>1, <1>3, <1>4, DecoderAssumption

LEMMA DecoderInitInv == Init => DecoderInv
<1> SUFFICES ASSUME Init PROVE DecoderInv
  OBVIOUS
<1>1. Total \in Nat \ {0} /\ Block \in Nat \ {0} /\ Channels \in {1, 2}
  BY DecoderAssumption
<1>2. Origin = 0 /\ 0 \in Starts /\ 0 \in 0..Total
  <2>1. 0 % Block = 0
    BY <1>1, MultipleMod
  <2> QED
    BY <1>1, <2>1 DEF Init, Origin, Starts
<1>3. Damageable \subseteq 0..(Total - 1)
  BY DecoderAssumption
<1>4. TypeOK
  <2>1. buffer \in [1..BufSize -> Values \union {Unwritten, Silence}]
    BY DEF Init
  <2>2. 0 \in 0..(Block * Channels)
    BY <1>1
  <2>3. -1 \in -1..(Total * (Channels + 1))
    BY <1>1
  <2>4. <<>> \in Seq(Values \union {Silence})
    BY EmptySeq
  <2>5. 0 \in 0..MaxSeeks
    BY DecoderAssumption
  <2>6. pc \in {"idle", "seek", "process"} /\ ended \in BOOLEAN /\ overflowed \in BOOLEAN
    BY DEF Init
  <2>10. m_seek_pos = -1 /\ offset = 0 /\ next = 0 /\ fetched \in 0..Total /\ target = -1
    BY DEF Init
  <2>9. m_finished \in BOOLEAN
    BY DEF Init
  <2>7. bad \in Damageable \union {Total} /\ damage \in Damages \union {"none"}
    BY DEF Init
  <2>8. m_cur_pos = -1 /\ m_buf_used = 0 /\ heard = <<>> /\ seeks = 0
    BY DEF Init
  <2> QED
    BY <1>1, <2>1, <2>2, <2>3, <2>4, <2>5, <2>6, <2>7, <2>8, <2>9, <2>10
       DEF TypeOK
<1>5. FileInv
  BY DEF Init, FileInv
<1>6. ~Past
  BY <1>1, <1>2, <1>3 DEF Init, Past
<1>7. BufferInv
  BY <1>1, <1>2, <1>6 DEF Init, BufferInv
<1>8. Span(0, 0) = <<>>
  <2>1. 0 \in 0..Total
    BY <1>2
  <2>2. Span(0, 0) \in Seq(Values) /\ Len(Span(0, 0)) = 0 * Channels - 0 * Channels
    BY <2>1, SpanProperties
  <2>3. Len(Span(0, 0)) = 0
    BY <1>1, <2>2
  <2> QED
    BY <2>2, <2>3, EmptySeq
<1>9. OrderInv
  BY <1>2, <1>6, <1>8 DEF Init, OrderInv, Decoded
<1>10. PositionInv
  <2>1. -1 + (Total - 0) * Channels <= Total * (Channels + 1)
    BY <1>1
  <2>2. Decoded = <<>> /\ Len(Decoded) = 0
    BY EmptySeq DEF Init, Decoded
  <2> QED
    BY <2>1, <2>2 DEF Init, PositionInv
<1> QED
  BY <1>4, <1>5, <1>7, <1>9, <1>10 DEF DecoderInv

\* Steps that take no value in: a request, an end, the beginning of a read().
LEMMA SeekToStep ==
    ASSUME DecoderInv, NEW s \in 0..Total, SeekTo(s)
    PROVE  DecoderInv'
<1> USE DEF SeekTo, lib, file
<1>1. TypeOK'
  BY DecoderAssumption DEF DecoderInv, TypeOK
<1>2. Origin' = Origin /\ Past' = Past /\ Decoded' = Decoded
      /\ Span(Origin, next)' = Span(Origin, next) /\ Playable(Origin)' = Playable(Origin)
  BY DEF Origin, Past, Decoded, Buffered, Playable
<1>3. BufferInv'
  BY <1>2 DEF DecoderInv, BufferInv
<1>4. OrderInv'
  BY <1>2 DEF DecoderInv, OrderInv
<1>5. seeks' # 0
  BY DEF DecoderInv, TypeOK
<1>6. PositionInv'
  BY <1>5 DEF DecoderInv, PositionInv
<1> QED
  BY <1>1, <1>3, <1>4, <1>6 DEF DecoderInv, FileInv

LEMMA ReadAtEndStep ==
    ASSUME DecoderInv, ReadAtEnd
    PROVE  DecoderInv'
<1> USE DEF ReadAtEnd, lib, file
<1>1. TypeOK'
  BY DEF DecoderInv, TypeOK
<1>2. Origin' = Origin /\ Past' = Past /\ Decoded' = Decoded
      /\ Span(Origin, next)' = Span(Origin, next) /\ Playable(Origin)' = Playable(Origin)
  BY DEF Origin, Past, Decoded, Buffered, Playable
<1>3. BufferInv' /\ OrderInv' /\ PositionInv'
  BY <1>2 DEF DecoderInv, BufferInv, OrderInv, PositionInv
<1> QED
  BY <1>1, <1>3 DEF DecoderInv, FileInv

LEMMA ReadStep ==
    ASSUME DecoderInv, Read
    PROVE  DecoderInv'
<1> USE DEF Read, lib, file, caller
<1>1. 0 \in 0..(Block * Channels)
  BY CapacityValue
<1>2. TypeOK'
  BY <1>1 DEF DecoderInv, TypeOK
<1>3. Origin' = Origin /\ Past' = Past
      /\ Span(Origin, next)' = Span(Origin, next) /\ Playable(Origin)' = Playable(Origin)
  BY DEF Origin, Past, Playable
<1>4. ~Past
  BY DEF DecoderInv, OrderInv
<1>5. Buffered' = <<>>
  BY SubSeqEmpty DEF Buffered
<1>6. Decoded = heard /\ Decoded' = heard
  <2>1. heard \o <<>> = heard
    BY ConcatEmptySeq DEF DecoderInv, TypeOK
  <2> QED
    BY <1>5, <2>1 DEF Decoded
<1>7. BufferInv'
  BY <1>3, <1>4 DEF DecoderInv, BufferInv, TypeOK
<1>8. OrderInv'
  BY <1>3, <1>4, <1>6 DEF DecoderInv, OrderInv
<1>9. PositionInv'
  <2>1. m_buf_used' <= m_cur_pos' + 1
    BY DEF DecoderInv, TypeOK
  <2> QED
    BY <1>6, <2>1 DEF DecoderInv, PositionInv
<1> QED
  BY <1>2, <1>7, <1>8, <1>9 DEF DecoderInv, FileInv

\* A seek begins a new hearing.
LEMMA SeekStep ==
    ASSUME DecoderInv, Seek
    PROVE  DecoderInv'
<1> USE DEF Seek, file
<1> DEFINE s == m_seek_pos
           o == BlockEnd(s)
<1>1. /\ s \in 0..Total /\ s < Total /\ s \in -1..Total
      /\ Total \in Nat /\ Block \in Nat /\ Channels \in {1, 2}
  BY DecoderAssumption DEF DecoderInv, TypeOK, BufferInv
<1>2. o \in Starts /\ o \in 0..Total /\ s <= o /\ o \in s..Total
  BY <1>1, BlockEndBounds DEF Starts
<1>3. target' = s /\ next' = o /\ Origin' = o
  BY <1>1 DEF Origin, BlockEnd
<1>4. 0 \in 0..(Block * Channels) /\ <<>> \in Seq(Values \union {Silence})
  BY CapacityValue, EmptySeq
<1>5. s + (Total - o) * Channels <= Total * (Channels + 1)
      /\ s \in -1..(Total * (Channels + 1))
  <2> HIDE DEF s, o
  <2>1. (Total - o) * Channels = Total * Channels - o * Channels /\ 0 * Channels = 0
        /\ Total * Channels \in Int
    BY <1>1, <1>2, Products
  <2>2. o * Channels \in Int /\ 0 * Channels <= o * Channels
    BY <1>1, <1>2, Products
  <2>3. Total * (Channels + 1) = Total * Channels + Total
    BY <1>1
  <2>4. 0 * Channels <= Total * Channels
    BY <1>1, Products
  <2> QED
    BY <1>1, <1>2, <2>1, <2>2, <2>3, <2>4
<1>6. PICK f \in o..Total, eof \in BOOLEAN : fetched' = f /\ m_finished' = eof
  OBVIOUS
<1>7. fetched' \in 0..Total /\ m_finished' \in BOOLEAN
  BY <1>1, <1>2, <1>6
<1>8. TypeOK'
  BY <1>1, <1>2, <1>3, <1>4, <1>5, <1>7 DEF DecoderInv, TypeOK
<1>9. ~Past'
  <2>1. bad' \in 0..Total
    BY DecoderAssumption DEF DecoderInv, TypeOK
  <2> HIDE DEF o
  <2> QED
    BY <1>2, <1>3, <2>1 DEF Past
<1>10. BufferInv'
  <2>1. offset' = 0
    BY DEF DecoderInv, BufferInv
  <2>2. Starts' = Starts
    BY DEF Starts
  <2> HIDE DEF o
  <2> QED
    BY <1>1, <1>2, <1>3, <1>9, <2>1, <2>2 DEF BufferInv
<1>11. Decoded' = <<>>
  <2>1. Buffered' = <<>>
    BY SubSeqEmpty DEF Buffered
  <2>2. <<>> \o <<>> = <<>>
    BY <1>4, ConcatEmptySeq
  <2> QED
    BY <2>1, <2>2 DEF Decoded
<1>12. Span(o, o) = <<>>
  <2>1. Span(o, o) \in Seq(Values) /\ Len(Span(o, o)) = o * Channels - o * Channels
    BY <1>2, SpanProperties
  <2>2. o * Channels \in Int
    BY <1>2, Products
  <2>3. Len(Span(o, o)) = 0
    BY <2>1, <2>2
  <2> QED
    BY <2>1, <2>3, EmptySeq
<1>13. OrderInv'
  <2>1. Span(Origin, next)' = Span(o, o)
    BY <1>3 DEF Span
  <2> QED
    BY <1>9, <1>11, <1>12, <2>1 DEF DecoderInv, OrderInv
<1>14. PositionInv'
  <2>1. seeks' # 0
    BY DEF DecoderInv, PositionInv
  <2> QED
    BY <1>3, <1>5, <2>1 DEF PositionInv
<1> QED
  BY <1>8, <1>10, <1>13, <1>14 DEF DecoderInv, FileInv

\* A seek that is refused or fails changes nothing of what is heard.
LEMMA RefusedSeekStep ==
    ASSUME DecoderInv, SeekBeyondEnd \/ SeekFails
    PROVE  DecoderInv'
<1> USE DEF SeekBeyondEnd, SeekFails, lib, file, caller
<1>1. /\ m_seek_pos \in 0..Total /\ next \in 0..Total
      /\ Total \in Nat /\ Channels \in {1, 2} /\ pc = "seek"
  BY DecoderAssumption DEF DecoderInv, TypeOK, BufferInv
<1>2. 0 \in 0..(Block * Channels)
  BY CapacityValue
<1>3. m_seek_pos + (Total - next) * Channels <= Total * (Channels + 1)
      /\ m_seek_pos \in -1..(Total * (Channels + 1))
  <2>1. (Total - next) * Channels = Total * Channels - next * Channels /\ 0 * Channels = 0
        /\ Total * Channels \in Int
    BY <1>1, Products
  <2>2. next * Channels \in Int /\ 0 * Channels <= next * Channels
    BY <1>1, Products
  <2>3. Total * (Channels + 1) = Total * Channels + Total
    BY <1>1
  <2>4. 0 * Channels <= Total * Channels
    BY <1>1, Products
  <2> QED
    BY <1>1, <2>1, <2>2, <2>3, <2>4
<1>4. TypeOK'
  <2>1. CASE SeekBeyondEnd
    BY <1>1, <1>2, <1>3, <2>1 DEF DecoderInv, TypeOK
  <2>2. CASE SeekFails
    BY <1>1, <1>2, <1>3, <2>2 DEF DecoderInv, TypeOK
  <2> QED
    BY <2>1, <2>2
<1>5. Origin' = Origin /\ Past' = Past
      /\ Span(Origin, next)' = Span(Origin, next) /\ Playable(Origin)' = Playable(Origin)
  BY DEF Origin, Past, Playable
<1>6. ~Past
  BY <1>1 DEF DecoderInv, BufferInv
<1>7. Decoded = heard /\ Decoded' = heard
  <2>1. Buffered' = <<>>
    BY SubSeqEmpty DEF Buffered
  <2>2. heard \o <<>> = heard
    BY ConcatEmptySeq DEF DecoderInv, TypeOK
  <2> QED
    BY <1>1, <2>1, <2>2 DEF Decoded
<1>8. BufferInv'
  BY <1>5, <1>6 DEF DecoderInv, BufferInv
<1>9. OrderInv'
  BY <1>5, <1>6, <1>7 DEF DecoderInv, OrderInv
<1>10. PositionInv'
  BY <1>1, <1>3 DEF DecoderInv, PositionInv
<1> QED
  BY <1>4, <1>8, <1>9, <1>10 DEF DecoderInv, FileInv

\* The next block goes on where the one before ended.
LEMMA ProcessBlockStep ==
    ASSUME DecoderInv, ProcessBlock
    PROVE  DecoderInv'
<1> USE DEF Processing, file
<1> DEFINE end == BlockEnd(next)
           block == Span(next, end)
<1>1. /\ pc = "process" /\ next < Total /\ next # bad /\ Fetched(end) /\ next' = end
      /\ WriteInternal(block) /\ Continue(overflowed' = overflowed)
      /\ UNCHANGED <<file, target, seeks, m_seek_pos>>
  BY DEF ProcessBlock
<1>2. /\ m_buf_used = 0 /\ ~Past /\ heard = Span(Origin, next)
      /\ Origin \in 0..Total /\ next \in Origin..Total /\ next \in 0..Total
  BY <1>1, BeforeBlock
<1>3. /\ end \in Starts /\ end \in next..Total /\ end <= next + Block
      /\ next < end /\ end \in 0..Total /\ end \in Origin..Total
  BY <1>1, <1>2, BlockEndBounds DEF Starts
<1>4. /\ block \in Seq(Audible) /\ Len(block) = end * Channels - next * Channels
  BY <1>2, <1>3, SpanProperties
<1>5. Total \in Nat /\ Block \in Nat \ {0} /\ bad \in Starts /\ bad \in 0..Total
  BY DecoderAssumption DEF DecoderInv, TypeOK, Starts
<1> HIDE DEF end, block
<1>6. Len(block) <= Block * Channels /\ (Len(block) < Block * Channels => end = Total)
  <2>1. end * Channels <= (next + Block) * Channels
    BY <1>2, <1>3, <1>5, Products
  <2>2. (next + Block) * Channels = next * Channels + Block * Channels
        /\ next * Channels \in Int
    BY <1>2, <1>5, Products
  <2>3. end * Channels \in Int /\ Block * Channels \in Int
    BY <1>3, <1>5, Products
  <2>4. end # Total => end = next + Block
    BY FullBlock DEF end, DecoderInv, BufferInv
  <2> QED
    BY <1>4, <2>1, <2>2, <2>3, <2>4
<1>7. TypeOK /\ offset = 0 /\ ~overflowed /\ ended \in BOOLEAN
  BY DEF DecoderInv, BufferInv, OrderInv, TypeOK
<1>8. /\ offset' = 0 /\ m_buf_used' = Len(block) /\ m_buf_used' \in 0..(Block * Channels)
      /\ m_cur_pos' = m_cur_pos + Len(block)
      /\ ~overflowed' /\ overflowed' \in BOOLEAN
      /\ buffer' \in [1..BufSize -> Values \union {Unwritten, Silence}]
      /\ Buffered' = block
  BY <1>1, <1>2, <1>4, <1>6, <1>7, WriteInternalEffect
<1>9. Continue(TRUE)
  <2>1. overflowed \in BOOLEAN
    BY <1>7 DEF TypeOK
  <2>2. overflowed' = overflowed
    BY <1>7, <1>8, <2>1
  <2> QED
    BY <1>1, <2>2 DEF Continue
<1>10. /\ pc' \in {"idle", "process"} /\ ended' \in BOOLEAN
       /\ Decoded' = heard \o Buffered'
       /\ pc' = "idle" => heard' = Decoded'
       /\ pc' = "process" => heard' = heard /\ m_buf_used' < Capacity /\ ~m_finished'
  BY <1>7, <1>9, ContinueEffect
<1>11. Origin' = Origin
  BY <1>1 DEF Origin, BlockEnd
<1>12. Decoded' = Span(Origin, end)
  BY <1>2, <1>3, <1>8, <1>10, SpanConcat DEF block
<1>13. heard' \in Seq(Values \union {Silence})
  BY <1>2, <1>3, <1>7, <1>10, <1>12, SpanProperties DEF Audible, TypeOK
<1>14. ~Past'
  <2>1. CASE bad < Origin
    BY <1>1, <1>2, <1>5, <1>11, <2>1 DEF Past
  <2>2. CASE next < bad
    <3>1. end <= bad
      BY <1>2, <1>5, <2>2, NextStart DEF end
    <3> QED
      BY <1>1, <1>3, <1>5, <3>1 DEF Past
  <2> QED
    BY <1>1, <1>2, <1>5, <2>1, <2>2 DEF Past
<1>15. fetched' \in 0..Total /\ m_finished' \in BOOLEAN
  <2>1. CASE UNCHANGED <<fetched, m_finished>>
    BY <2>1 DEF DecoderInv, TypeOK
  <2>2. CASE fetched' \in end..Total /\ m_finished' \in BOOLEAN
    BY <1>3, <1>5, <2>2
  <2> QED
    BY <1>1, <2>1, <2>2 DEF Fetched
<1>16. /\ m_cur_pos' + (Total - next') * Channels <= Total * (Channels + 1)
       /\ m_cur_pos' \in -1..(Total * (Channels + 1))
  <2>1. next' \in next..Total /\ next \in next..Total /\ end \in next..next'
    BY <1>1, <1>2, <1>3, <1>5
  <2>2. m_cur_pos' = m_cur_pos + (end * Channels - next * Channels)
    BY <1>4, <1>8
  <2>3. PositionInv
    BY DEF DecoderInv
  <2> QED
    BY <1>7, <2>1, <2>2, <2>3, PositionCounts
<1>17. TypeOK'
  BY <1>1, <1>3, <1>8, <1>10, <1>13, <1>15, <1>16 DEF DecoderInv, TypeOK
<1>18. BufferInv'
  <2>1. pc' = "process" => next' = Total
    BY <1>1, <1>6, <1>8, <1>10, CapacityValue
  <2>2. Starts' = Starts /\ target < Total
    BY DEF Starts, DecoderInv, BufferInv
  <2> QED
    BY <1>1, <1>3, <1>8, <1>10, <1>11, <1>14, <2>1, <2>2 DEF BufferInv
<1>19. OrderInv'
  <2>1. Span(Origin, next)' = Span(Origin, end)
    BY <1>1, <1>11 DEF Span
  <2> QED
    BY <1>8, <1>12, <1>14, <2>1 DEF OrderInv
<1>20. PositionInv'
  <2>1. ASSUME seeks' = 0 PROVE m_cur_pos' + 1 = Len(Decoded')
    <3>1. m_cur_pos + 1 = Len(heard)
      <4>1. m_cur_pos + 1 = Len(Decoded)
        BY <1>1, <2>1 DEF DecoderInv, PositionInv
      <4> QED
        BY <1>1, <4>1, BeforeBlock
    <3>2. heard \in Seq(Audible)
      BY <1>7 DEF TypeOK, Audible
    <3>3. Len(Decoded') = Len(heard) + Len(block)
      BY <1>4, <1>8, <1>10, <3>2, ConcatProperties
    <3>4. m_cur_pos \in Int /\ Len(heard) \in Nat /\ Len(block) \in Nat
      BY <1>4, <1>7, <3>2, LenProperties DEF TypeOK
    <3> QED
      BY <1>8, <3>1, <3>3, <3>4
  <2>2. m_buf_used' <= m_cur_pos' + 1
    <3>1. m_cur_pos \in Int /\ m_cur_pos >= -1 /\ Len(block) \in Nat
      BY <1>4, <1>7, LenProperties DEF TypeOK
    <3> QED
      BY <1>8, <3>1
  <2> QED
    BY <1>1, <1>10, <1>16, <2>1, <2>2 DEF DecoderInv, PositionInv
<1> QED
  BY <1>1, <1>17, <1>18, <1>19, <1>20 DEF DecoderInv, FileInv

\* What is handed over at the damage ends what there is to hear.
LEMMA DamageStep ==
    ASSUME DecoderInv, pc = "process", next = bad, bad < Total, m_finished' = TRUE,
           UNCHANGED <<file, target, seeks, m_seek_pos>>, fetched' \in 0..Total,
           NEW a \in next..Total, NEW b \in a..Total, b <= a + Block, bad < b,
           NEW block \in Seq(Audible), Len(block) = b * Channels - a * Channels,
           next' = b, b \in Starts,
           WriteInternal(block), Continue(overflowed' = overflowed),
           Playable(Origin) = Span(Origin, bad) \o block
    PROVE  DecoderInv'
<1> USE DEF file
<1>1. /\ m_buf_used = 0 /\ ~Past /\ heard = Span(Origin, next) /\ Decoded = heard
      /\ Origin \in 0..Total /\ next \in Origin..Total /\ next \in 0..Total
  BY BeforeBlock
<1>2. Total \in Nat /\ Block \in Nat \ {0} /\ a \in Int /\ b \in Int
  BY <1>1, DecoderAssumption
<1>3. Len(block) <= Block * Channels
  <2>1. b * Channels <= (a + Block) * Channels /\ b * Channels \in Int
    BY <1>2, Products
  <2>2. (a + Block) * Channels = a * Channels + Block * Channels /\ a * Channels \in Int
    BY <1>2, Products
  <2>3. Block * Channels \in Int
    BY <1>2, Products
  <2> QED
    BY <2>1, <2>2, <2>3
<1>4. TypeOK /\ offset = 0 /\ ~overflowed /\ ended \in BOOLEAN /\ overflowed \in BOOLEAN
  BY DEF DecoderInv, BufferInv, OrderInv, TypeOK
<1>5. /\ offset' = 0 /\ m_buf_used' = Len(block) /\ m_buf_used' \in 0..(Block * Channels)
      /\ m_cur_pos' = m_cur_pos + Len(block)
      /\ ~overflowed' /\ overflowed' \in BOOLEAN
      /\ buffer' \in [1..BufSize -> Values \union {Unwritten, Silence}]
      /\ Buffered' = block
  BY <1>1, <1>3, <1>4, WriteInternalEffect
<1>6. Continue(TRUE)
  <2>1. overflowed' = overflowed
    BY <1>4, <1>5
  <2> QED
    BY <2>1 DEF Continue
<1>7. pc' = "idle" /\ ended' \in BOOLEAN /\ heard' = Decoded' /\ Decoded' = heard \o block
  BY <1>4, <1>5, <1>6, ContinueEffect
<1>8. Origin' = Origin /\ Playable(Origin)' = Playable(Origin)
  BY DEF Origin, Playable
<1>9. heard' = Playable(Origin)
  BY <1>1, <1>7
<1>10. heard' \in Seq(Audible)
  BY <1>1, <1>7, SpanProperties, ConcatProperties
<1>11. IsPrefix(heard', Playable(Origin))
  BY <1>9, <1>10, PrefixOfConcat
<1>12. /\ m_cur_pos' + (Total - next') * Channels <= Total * (Channels + 1)
       /\ m_cur_pos' \in -1..(Total * (Channels + 1))
  <2>1. next' \in next..Total /\ b \in a..next'
    BY <1>1, <1>2
  <2>2. m_cur_pos' = m_cur_pos + (b * Channels - a * Channels)
    BY <1>5
  <2>3. PositionInv
    BY DEF DecoderInv
  <2> QED
    BY <1>4, <2>1, <2>2, <2>3, PositionCounts
<1>13. TypeOK'
  BY <1>1, <1>2, <1>5, <1>7, <1>10, <1>12 DEF DecoderInv, TypeOK, Audible
<1>14. Past'
  BY <1>1, <1>2, <1>8 DEF Past
<1>15. BufferInv'
  <2>1. Starts' = Starts /\ target < Total
    BY DEF Starts, DecoderInv, BufferInv
  <2> QED
    BY <1>1, <1>2, <1>5, <1>7, <1>8, <2>1 DEF BufferInv
<1>16. OrderInv'
  BY <1>5, <1>8, <1>11, <1>14 DEF OrderInv
<1>17. PositionInv'
  <2>1. ASSUME seeks' = 0 PROVE m_cur_pos' + 1 = Len(Decoded')
    <3>1. m_cur_pos + 1 = Len(heard)
      BY <1>1, <2>1 DEF DecoderInv, PositionInv
    <3>2. heard \in Seq(Audible)
      BY <1>4 DEF TypeOK, Audible
    <3>3. Len(Decoded') = Len(heard) + Len(block)
      BY <1>7, <3>2, ConcatProperties
    <3>4. m_cur_pos \in Int /\ Len(heard) \in Nat /\ Len(block) \in Nat
      BY <1>4, <3>2, LenProperties DEF TypeOK
    <3> QED
      BY <1>5, <3>1, <3>3, <3>4
  <2>2. m_buf_used' <= m_cur_pos' + 1
    <3>1. m_cur_pos \in Int /\ m_cur_pos >= -1 /\ Len(block) \in Nat
      BY <1>4, LenProperties DEF TypeOK
    <3> QED
      BY <1>5, <3>1
  <2> QED
    BY <1>7, <1>12, <2>1, <2>2 DEF DecoderInv, PositionInv
<1> QED
  BY <1>13, <1>15, <1>16, <1>17 DEF DecoderInv, FileInv

\* If libFLAC finds nothing more to hand over, reading stops.
LEMMA StopStep ==
    ASSUME DecoderInv, pc = "process", m_finished' = TRUE,
           UNCHANGED <<file, target, seeks, m_seek_pos, m_buf_used, m_cur_pos, offset,
                       buffer, overflowed>>,
           fetched' \in 0..Total, next' \in Starts, next' \in next..Total,
           NEW result \in BOOLEAN, Continue(result), next < Total \/ result,
           next' = next
             \/ /\ next = bad /\ bad < next'
                /\ \E t \in Seq(Audible) : Playable(Origin) = Span(Origin, bad) \o t
    PROVE  DecoderInv'
<1> USE DEF file
<1>1. TypeOK /\ ended \in BOOLEAN /\ next \in 0..Total /\ bad \in 0..Total /\ Total \in Nat
      /\ ~Past
  BY DecoderAssumption DEF DecoderInv, TypeOK, BufferInv
<1>2. Origin \in 0..Total /\ Origin <= next
  BY OriginBounds DEF DecoderInv, BufferInv, TypeOK
<1>3. Buffered' = Buffered
  BY DEF Buffered
<1>4. Decoded = heard \o Buffered /\ Decoded = Span(Origin, next)
  BY <1>1 DEF Decoded, DecoderInv, OrderInv
<1>5. pc' = "idle" /\ ended' \in BOOLEAN /\ heard' = Decoded' /\ Decoded' = Decoded
  <2>1. /\ pc' = "idle" /\ ended' \in BOOLEAN /\ heard' = Decoded'
        /\ Decoded' = IF result THEN heard \o Buffered' ELSE heard
    BY <1>1, ContinueEffect
  <2>2. next < Total => Decoded = heard
    BY BeforeBlock
  <2> QED
    BY <1>3, <1>4, <2>1, <2>2
<1>6. Decoded \in Seq(Audible) /\ Decoded \in Seq(Values \union {Silence})
  <2>1. next \in Origin..Total
    BY <1>1, <1>2
  <2> QED
    BY <1>2, <1>4, <2>1, SpanProperties DEF Audible
<1>7. Origin' = Origin /\ Playable(Origin)' = Playable(Origin)
  BY DEF Origin, Playable
<1>8. /\ m_cur_pos' + (Total - next') * Channels <= Total * (Channels + 1)
      /\ m_cur_pos' \in -1..(Total * (Channels + 1))
  <2>1. next' \in next..Total /\ next \in next..next' /\ next \in next..Total
    BY <1>1
  <2>2. m_cur_pos' = m_cur_pos + (next * Channels - next * Channels)
    <3>1. next * Channels \in Int /\ m_cur_pos \in Int
      BY <1>1, Products DEF TypeOK
    <3> QED
      BY <3>1
  <2>3. PositionInv
    BY DEF DecoderInv
  <2> QED
    BY <1>1, <2>1, <2>2, <2>3, PositionCounts
<1>9. TypeOK'
  BY <1>1, <1>5, <1>6, <1>8 DEF TypeOK
<1>10. BufferInv'
  <2>1. Starts' = Starts /\ target < Total /\ offset = 0
    BY DEF Starts, DecoderInv, BufferInv
  <2> QED
    BY <1>1, <1>2, <1>5, <1>7, <2>1 DEF BufferInv
<1>11. OrderInv'
  <2>1. ~overflowed'
    BY DEF DecoderInv, OrderInv
  <2>2. CASE next' = next
    <3>1. ~Past'
      BY <1>1, <1>7, <2>2 DEF Past
    <3>2. Span(Origin, next)' = Span(Origin, next)
      BY <1>7, <2>2 DEF Span
    <3> QED
      BY <1>4, <1>5, <2>1, <3>1, <3>2 DEF OrderInv
  <2>3. CASE /\ next = bad /\ bad < next'
             /\ \E t \in Seq(Audible) : Playable(Origin) = Span(Origin, bad) \o t
    <3>1. Past'
      BY <1>1, <1>2, <1>7, <2>3 DEF Past
    <3>2. PICK t \in Seq(Audible) : Playable(Origin) = Decoded \o t
      BY <1>4, <2>3
    <3>3. IsPrefix(heard', Playable(Origin))
      BY <1>5, <1>6, <3>2, PrefixOfConcat
    <3> QED
      BY <1>7, <2>1, <3>1, <3>3 DEF OrderInv
  <2> QED
    BY <2>2, <2>3
<1>12. PositionInv'
  BY <1>1, <1>5, <1>8 DEF DecoderInv, PositionInv
<1> QED
  BY <1>9, <1>10, <1>11, <1>12 DEF DecoderInv, FileInv

LEMMA ProcessSilentStep ==
    ASSUME DecoderInv, ProcessSilent
    PROVE  DecoderInv'
<1> DEFINE end == BlockEnd(next)
           block == SilenceFor(next, end)
<1>1. /\ pc = "process" /\ next = bad /\ damage = "silent" /\ m_finished' = TRUE
      /\ next' = end /\ WriteInternal(block) /\ Continue(overflowed' = overflowed)
      /\ UNCHANGED <<file, target, seeks, m_seek_pos>>
  BY DEF ProcessSilent, Processing, CbError
<1>2. next < Total /\ next \in 0..Total /\ Total \in Nat
  BY <1>1, DecoderAssumption DEF DecoderInv, FileInv, TypeOK
<1>3. Origin \in 0..Total /\ next \in Origin..Total
  BY <1>1, <1>2, BeforeBlock
<1>4. /\ end \in Starts /\ end \in next..Total /\ end <= next + Block /\ next < end
  BY <1>2, BlockEndBounds
<1>5. block \in Seq(Audible) /\ Len(block) = end * Channels - next * Channels
  BY <1>2, <1>4, SilenceProperties
<1>6. fetched' \in 0..Total
  <2>1. CASE UNCHANGED fetched
    BY <2>1 DEF DecoderInv, TypeOK
  <2>2. CASE fetched' \in end..Total
    BY <1>2, <1>4, <2>2
  <2> QED
    BY <2>1, <2>2 DEF ProcessSilent
<1>7. Playable(Origin) = Span(Origin, bad) \o block
  BY <1>1, <1>2, <1>3 DEF Playable
<1>8. next \in next..Total
  BY <1>2
<1> HIDE DEF end, block
<1> QED
  BY <1>1, <1>2, <1>4, <1>5, <1>6, <1>7, <1>8, DamageStep

LEMMA ProcessLostStep ==
    ASSUME DecoderInv, ProcessLost
    PROVE  DecoderInv'
<1> DEFINE end == BlockEnd(next)
           over == BlockEnd(end)
           block == Span(end, over)
<1>1. /\ pc = "process" /\ next = bad /\ damage = "lost" /\ m_finished' = TRUE
      /\ UNCHANGED <<file, target, seeks, m_seek_pos>>
  BY DEF ProcessLost, Processing, CbError
<1>2. next < Total /\ next \in 0..Total /\ Total \in Nat
  BY <1>1, DecoderAssumption DEF DecoderInv, FileInv, TypeOK
<1>3. Origin \in 0..Total /\ next \in Origin..Total
  BY <1>1, <1>2, BeforeBlock
<1>4. /\ end \in Starts /\ end \in next..Total /\ next < end /\ end \in 0..Total
  BY <1>2, BlockEndBounds DEF Starts
<1>5. over \in Starts /\ over \in end..Total /\ over <= end + Block
  BY <1>4, BlockEndBounds
<1>6. block \in Seq(Audible) /\ Len(block) = over * Channels - end * Channels
  BY <1>4, <1>5, SpanProperties
<1>7. fetched' \in 0..Total
  <2>1. CASE UNCHANGED fetched
    BY <2>1 DEF DecoderInv, TypeOK
  <2>2. CASE fetched' \in (next + 1)..Total
    BY <1>2, <2>2
  <2> QED
    BY <2>1, <2>2 DEF ProcessLost
<1>8. Playable(Origin) = Span(Origin, bad) \o block
  BY <1>1, <1>2, <1>3 DEF Playable
<1>9. \/ /\ next' = over /\ WriteInternal(block) /\ Continue(overflowed' = overflowed)
      \/ /\ next' = end
         /\ UNCHANGED <<m_buf_used, m_cur_pos, offset, buffer, overflowed>>
         /\ \E result \in BOOLEAN : Continue(result)
  BY DEF ProcessLost
<1> HIDE DEF end, over, block
<1>10. bad < over /\ bad < end
  BY <1>1, <1>2, <1>4, <1>5
<1>11. CASE next' = over /\ WriteInternal(block) /\ Continue(overflowed' = overflowed)
  BY <1>1, <1>2, <1>4, <1>5, <1>6, <1>7, <1>8, <1>10, <1>11, DamageStep
<1>12. CASE /\ next' = end
            /\ UNCHANGED <<m_buf_used, m_cur_pos, offset, buffer, overflowed>>
            /\ \E result \in BOOLEAN : Continue(result)
  <2>1. PICK result \in BOOLEAN : Continue(result)
    BY <1>12
  <2>2. \E t \in Seq(Audible) : Playable(Origin) = Span(Origin, bad) \o t
    BY <1>6, <1>8
  <2> QED
    BY <1>1, <1>2, <1>4, <1>7, <1>10, <1>12, <2>1, <2>2, StopStep
<1> QED
  BY <1>9, <1>11, <1>12

LEMMA ProcessTornStep ==
    ASSUME DecoderInv, ProcessTorn
    PROVE  DecoderInv'
<1>1. /\ pc = "process" /\ next = bad /\ damage = "torn" /\ m_finished' = TRUE
      /\ UNCHANGED <<file, target, seeks, m_seek_pos, m_buf_used, m_cur_pos, offset,
                     buffer, overflowed>>
      /\ next' = next /\ fetched' = Total /\ Continue(FALSE)
  BY DEF ProcessTorn, Processing
<1>2. next < Total /\ next \in 0..Total /\ Total \in Nat /\ next \in Starts
  BY <1>1, DecoderAssumption DEF DecoderInv, FileInv, TypeOK, BufferInv
<1>3. next \in next..Total /\ Total \in 0..Total
  BY <1>2
<1> QED
  BY <1>1, <1>2, <1>3, StopStep

LEMMA ProcessEndStep ==
    ASSUME DecoderInv, ProcessEnd
    PROVE  DecoderInv'
<1>1. /\ pc = "process" /\ next = Total /\ m_finished' = TRUE
      /\ UNCHANGED <<file, target, seeks, m_seek_pos, m_buf_used, m_cur_pos, offset,
                     buffer, overflowed>>
      /\ next' = next /\ fetched' = fetched /\ Continue(TRUE)
  BY DEF ProcessEnd, lib
<1>2. next \in next..Total /\ next \in Starts /\ fetched \in 0..Total
  BY <1>1, DecoderAssumption DEF DecoderInv, TypeOK, BufferInv
<1> QED
  BY <1>1, <1>2, StopStep

LEMMA DecoderNextInv == DecoderInv /\ [Next]_vars => DecoderInv'
<1> SUFFICES ASSUME DecoderInv, [Next]_vars PROVE DecoderInv'
  OBVIOUS
<1>1. CASE Next
  BY <1>1, SeekToStep, ReadAtEndStep, ReadStep, SeekStep, RefusedSeekStep,
     ProcessBlockStep, ProcessSilentStep, ProcessLostStep, ProcessTornStep,
     ProcessEndStep DEF Next, LoopStep
<1>2. CASE UNCHANGED vars
  <2>1. TypeOK'
    BY <1>2 DEF vars, lib, file, caller, DecoderInv, TypeOK
  <2>2. Origin' = Origin /\ Past' = Past /\ Decoded' = Decoded
        /\ Span(Origin, next)' = Span(Origin, next) /\ Playable(Origin)' = Playable(Origin)
    BY <1>2 DEF vars, lib, file, caller, Origin, Past, Decoded, Buffered, Playable
  <2>3. BufferInv' /\ OrderInv' /\ PositionInv' /\ FileInv'
    BY <1>2, <2>2 DEF vars, lib, file, caller, DecoderInv, BufferInv, OrderInv,
                      PositionInv, FileInv
  <2> QED
    BY <2>1, <2>3 DEF DecoderInv
<1> QED
  BY <1>1, <1>2

-----------------------------------------------------------------------------

\* What is still to be heard follows on what was decoded.
LEMMA Remaining ==
    ASSUME DecoderInv, ~Past
    PROVE  \E t \in Seq(Audible) : Playable(Origin) = Span(Origin, next) \o t
<1>1. /\ Origin \in 0..Total /\ next \in 0..Total /\ bad \in 0..Total
      /\ Origin <= next /\ Total \in Nat
  BY OriginBounds, DecoderAssumption DEF DecoderInv, TypeOK, BufferInv
<1>2. CASE Origin > bad
  <2>1. Playable(Origin) = Span(Origin, Total)
    BY <1>2 DEF Playable
  <2>2. next \in Origin..Total /\ Total \in next..Total
    BY <1>1
  <2>3. Span(next, Total) \in Seq(Audible)
    BY <1>1, <2>2, SpanProperties
  <2>4. Span(Origin, Total) = Span(Origin, next) \o Span(next, Total)
    BY <1>1, <2>2, SpanConcat
  <2> QED
    BY <2>1, <2>3, <2>4
<1>3. CASE ~(Origin > bad)
  <2> DEFINE end == BlockEnd(bad)
             over == BlockEnd(end)
             rest == CASE damage = "silent" -> SilenceFor(bad, end)
                       [] damage = "lost" -> Span(end, over)
                       [] OTHER -> <<>>
  <2>1. Playable(Origin) = Span(Origin, bad) \o rest
    BY <1>3 DEF Playable
  <2>2. end \in bad..Total /\ end \in 0..Total
    BY <1>1, BlockEndBounds DEF Starts
  <2>3. over \in end..Total
    BY <2>2, BlockEndBounds
  <2>4. rest \in Seq(Audible)
    <3>1. SilenceFor(bad, end) \in Seq(Audible)
      BY <1>1, <2>2, SilenceProperties
    <3>2. Span(end, over) \in Seq(Audible)
      BY <2>2, <2>3, SpanProperties
    <3>3. <<>> \in Seq(Audible)
      BY EmptySeq
    <3> QED
      BY <3>1, <3>2, <3>3
  <2> HIDE DEF end, over, rest
  <2>5. next \in Origin..Total /\ bad \in next..Total
    BY <1>1, <1>3 DEF Past
  <2>6. Span(Origin, next) \in Seq(Audible) /\ Span(next, bad) \in Seq(Audible)
    BY <1>1, <2>5, SpanProperties
  <2>7. Span(Origin, bad) = Span(Origin, next) \o Span(next, bad)
    BY <1>1, <2>5, SpanConcat
  <2>8. (Span(Origin, next) \o Span(next, bad)) \o rest
          = Span(Origin, next) \o (Span(next, bad) \o rest)
    BY <2>4, <2>6, ConcatAssociative
  <2>9. Span(next, bad) \o rest \in Seq(Audible)
    BY <2>4, <2>6, ConcatProperties
  <2> QED
    BY <2>1, <2>7, <2>8, <2>9
<1> QED
  BY <1>2, <1>3

\* What was heard is the beginning of what there is to hear from the origin on.
LEMMA HeardFromOrigin ==
    ASSUME DecoderInv
    PROVE  IsPrefix(heard, Playable(Origin))
<1>1. CASE Past
  BY <1>1 DEF DecoderInv, OrderInv
<1>2. CASE ~Past
  <2> DEFINE S == Audible \union {Unwritten}
  <2>1. PICK t \in Seq(Audible) : Playable(Origin) = Span(Origin, next) \o t
    BY <1>2, Remaining
  <2>2. Decoded = Span(Origin, next)
    BY <1>2 DEF DecoderInv, OrderInv
  <2>3. t \in Seq(S) /\ heard \in Seq(S)
    BY SeqMonotonic DEF DecoderInv, TypeOK, Audible
  <2>4. CASE pc # "process"
    <3>1. heard = Decoded
      BY <2>4 DEF Decoded
    <3> HIDE DEF S
    <3> QED
      BY <2>1, <2>2, <2>3, <3>1, PrefixOfConcat
  <2>5. CASE pc = "process"
    <3>1. Decoded = heard \o Buffered
      BY <2>5 DEF Decoded
    <3>2. Buffered \in Seq(S)
      <4>1. m_buf_used \in Int /\ m_buf_used <= BufSize /\ BufSize \in Nat
        BY CapacityValue DEF DecoderInv, TypeOK
      <4>2. \A i \in 1..m_buf_used : buffer[i] \in S
        BY <4>1 DEF DecoderInv, TypeOK, Audible
      <4> HIDE DEF S
      <4> QED
        BY <4>1, <4>2, SubSeqProperties DEF Buffered
    <3> HIDE DEF S
    <3>3. Playable(Origin) = heard \o (Buffered \o t)
      BY <2>1, <2>2, <2>3, <3>1, <3>2, ConcatAssociative
    <3>4. Buffered \o t \in Seq(S)
      BY <2>3, <3>2, ConcatProperties
    <3> QED
      BY <2>3, <3>3, <3>4, PrefixOfConcat
  <2> QED
    BY <2>4, <2>5
<1> QED
  BY <1>1, <1>2

\* The inductive invariant of the decoder holds throughout.
THEOREM DecoderInvariance == Spec => []DecoderInv
  BY DecoderInitInv, DecoderNextInv, PTL DEF Spec

\* The decoder's variables keep their types, for files and blocks of any size
\* (FLACStreamDecoder.cpp:516-541).
THEOREM DecoderTypes == Spec => []TypeOK
<1>1. DecoderInv => TypeOK
  BY DEF DecoderInv
<1> QED
  BY <1>1, DecoderInvariance, PTL

\* No block overruns the buffer, and what read() returns is what the file
\* holds, in order, up to the damage (FLACStreamDecoder.cpp:213-241, 429-466).
THEOREM ReadsInOrder == Spec => []HeardInOrder
<1>1. ASSUME DecoderInv PROVE HeardInOrder
  <2>1. IsPrefix(heard, Playable(Origin)) /\ ~overflowed
    BY <1>1, HeardFromOrigin DEF DecoderInv, OrderInv
  <2>2. Origin \in 0..Total /\ (target = -1 => Origin = 0)
    BY <1>1, OriginBounds DEF DecoderInv, TypeOK, BufferInv, Origin
  <2> QED
    BY <2>1, <2>2 DEF HeardInOrder
<1> QED
  BY <1>1, DecoderInvariance, PTL

\* Until somebody seeks, position() counts the values returned, those of all
\* channels: in a stereo file it runs twice as fast as the samples
\* (FLACStreamDecoder.cpp:464).
THEOREM PositionCountsValues ==
    Spec => [](seeks = 0 /\ pc = "idle" => m_cur_pos + 1 = Len(heard))
<1>1. DecoderInv => (seeks = 0 /\ pc = "idle" => m_cur_pos + 1 = Len(heard))
  BY DEF DecoderInv, PositionInv, Decoded
<1> QED
  BY <1>1, DecoderInvariance, PTL

-----------------------------------------------------------------------------
(***************************************************************************)
(* The player.                                                             *)
(***************************************************************************)

\* While the player is to be paused, a block that has been written since puts
\* run() on its way to sleep.
PauseInv == mPaused => written = 0 \/ (written = 1 /\ at \in {"head", "sleep"})

\* A seek that run() is handing over is the one wanted, unless another has cut
\* in; after it is handed over nothing is wanted that the field is cleared of.
SeekInv ==
    /\ wanted \in Positions \union {-1} /\ wanted # 0
    /\ SeekIsKept
    /\ mSeekPos \in Positions \union {-1}
    /\ at = "seek" => wanted \in {seekPos, -1} /\ seekPos \in Positions \ {0}
    /\ at = "clear" => wanted = -1

PlayerInv == PauseInv /\ SeekInv

-----------------------------------------------------------------------------

LEMMA PlayerInitInv == PlayerInit => PlayerInv
  BY DEF PlayerInit, PlayerInv, PauseInv, SeekInv, SeekIsKept

\* No step of the owner or of run() undoes the pause.
LEMMA PauseStep == PauseInv /\ PlayerNext => PauseInv'
<1> SUFFICES ASSUME PauseInv, PlayerNext
             PROVE  PauseInv'
  OBVIOUS
<1>1. CASE PausePlayback
  BY <1>1 DEF PausePlayback, Request, PauseInv
<1>2. CASE ResumePlayback
  BY <1>2 DEF ResumePlayback, Request, PauseInv
<1>3. CASE Interrupt
  BY <1>3 DEF Interrupt, PauseInv
<1>4. CASE \E ms \in Positions : SeekRequest(ms)
  BY <1>4 DEF SeekRequest, Request, PauseInv
<1>5. CASE Start
  BY <1>5 DEF Start, fields, PauseInv
<1>6. CASE LoopHead
  BY <1>6 DEF LoopHead, fields, PauseInv
<1>7. CASE Wake \/ SleepEnds
  BY <1>7 DEF Wake, SleepEnds, AfterSleep, fields, PauseInv
<1>8. CASE Fetch \/ HandOver \/ Clear
  BY <1>8 DEF Fetch, HandOver, Clear, fields, PauseInv
<1>9. CASE CallRead \/ InRead
  BY <1>9 DEF CallRead, InRead, fields, PauseInv
<1>10. CASE WriteTrack
  <2>1. mPaused => written = 0
    BY <1>10 DEF WriteTrack, PauseInv
  <2> QED
    BY <1>10, <2>1 DEF WriteTrack, PauseInv
<1>11. CASE Finish
  BY <1>11 DEF Finish, fields, PauseInv
<1> QED
  BY <1>1, <1>2, <1>3, <1>4, <1>5, <1>6, <1>7, <1>8, <1>9, <1>10, <1>11
     DEF PlayerNext, PlayerStep

\* A request replaces what is wanted together with the field; run() clears the
\* field only when nothing is wanted any more.
LEMMA PlayerSeekStep == SeekInv /\ PlayerNext => SeekInv'
<1> SUFFICES ASSUME SeekInv, PlayerNext
             PROVE  SeekInv'
  OBVIOUS
<1> USE PlayerAssumption DEF SeekInv, SeekIsKept
<1>1. CASE PausePlayback
  BY <1>1 DEF PausePlayback, Request
<1>2. CASE ResumePlayback
  BY <1>2 DEF ResumePlayback, Request
<1>3. CASE Interrupt
  BY <1>3 DEF Interrupt
<1>4. CASE \E ms \in Positions : SeekRequest(ms)
  BY <1>4 DEF SeekRequest, Request
<1>5. CASE Start
  BY <1>5 DEF Start, fields
<1>6. CASE LoopHead
  BY <1>6 DEF LoopHead, fields
<1>7. CASE Wake \/ SleepEnds
  BY <1>7 DEF Wake, SleepEnds, AfterSleep, fields
<1>8. CASE Fetch
  BY <1>8 DEF Fetch, fields
<1>9. CASE HandOver
  BY <1>9 DEF HandOver, fields
<1>10. CASE Clear
  BY <1>10 DEF Clear
<1>11. CASE CallRead \/ InRead
  BY <1>11 DEF CallRead, InRead, AfterRead, fields
<1>12. CASE WriteTrack
  BY <1>12 DEF WriteTrack
<1>13. CASE Finish
  BY <1>13 DEF Finish, fields
<1> QED
  BY <1>1, <1>2, <1>3, <1>4, <1>5, <1>6, <1>7, <1>8, <1>9, <1>10, <1>11, <1>12,
     <1>13 DEF PlayerNext, PlayerStep

LEMMA PlayerNextInv == PlayerInv /\ [PlayerNext]_playerVars => PlayerInv'
<1> SUFFICES ASSUME PlayerInv, [PlayerNext]_playerVars
             PROVE  PlayerInv'
  OBVIOUS
<1>1. CASE PlayerNext
  BY <1>1, PauseStep, PlayerSeekStep DEF PlayerInv
<1>2. CASE UNCHANGED playerVars
  BY <1>2 DEF playerVars, fields, PlayerInv, PauseInv, SeekInv, SeekIsKept
<1> QED
  BY <1>1, <1>2

\* The invariant of the player holds throughout (FLACPlayer.java:93-205).
THEOREM PlayerInvariance == PlayerSpec => []PlayerInv
  BY PlayerInitInv, PlayerNextInv, PTL DEF PlayerSpec

\* However often the thread is interrupted, at most one block is written after
\* pausePlayback() (FLACPlayer.java:163-166, 192-196).
THEOREM PausingIsPrompt == PlayerSpec => []PausesWithinABlock
<1>1. PlayerInv => PausesWithinABlock
  BY DEF PlayerInv, PauseInv, PausesWithinABlock
<1> QED
  BY <1>1, PlayerInvariance, PTL

\* A seek that does not cut in on another is kept until it is handed over
\* (FLACPlayer.java:170-177).
THEOREM SeeksAreKept == PlayerSpec => []SeekIsKept
<1>1. PlayerInv => SeekIsKept
  BY DEF PlayerInv, SeekInv
<1> QED
  BY <1>1, PlayerInvariance, PTL

-----------------------------------------------------------------------------
(***************************************************************************)
(* The player and the decoder.                                             *)
(***************************************************************************)

\* The sample of a position lies in the file.
LEMMA SamplesInFile ==
    ASSUME NEW ms \in Positions \ {0}
    PROVE  SamplesAt(ms) \subseteq 0..Total
<1> DEFINE m == ms * SampleRate
<1>1. ms \in Nat /\ ms >= 1 /\ SampleRate \in Nat /\ SampleRate >= 1
  BY PlayerAssumption
<1>2. m \in Nat /\ m >= 1
  BY <1>1
<1>3. m \div 1000 <= Total /\ Total \in Nat
  BY PlayerAssumption, DecoderAssumption
<1> HIDE DEF m
<1>4. m \div 1000 \in 0..Total /\ (m - 1) \div 1000 \in 0..Total
  BY <1>2, <1>3
<1> QED
  BY <1>4 DEF SamplesAt, m

\* A step of the player is a step of its decoder, or none.
LEMMA PlayerStepIsDecoderStep ==
    ASSUME PlayerInv, [PlayerNext]_playerVars
    PROVE  [Next]_vars
<1> USE DEF decoderVars
<1>1. CASE PausePlayback \/ ResumePlayback \/ Interrupt
  BY <1>1 DEF PausePlayback, ResumePlayback, Interrupt, Request
<1>2. CASE \E ms \in Positions : SeekRequest(ms)
  BY <1>2 DEF SeekRequest, Request
<1>3. CASE Start \/ LoopHead \/ Wake \/ SleepEnds \/ Fetch
  BY <1>3 DEF Start, LoopHead, Wake, SleepEnds, Fetch
<1>4. CASE HandOver
  <2>1. PICK s \in SamplesAt(seekPos) : SeekTo(s)
    BY <1>4 DEF HandOver
  <2>2. seekPos \in Positions \ {0}
    BY <1>4 DEF HandOver, PlayerInv, SeekInv
  <2>3. s \in 0..Total
    BY <2>1, <2>2, SamplesInFile
  <2> QED
    BY <2>1, <2>3 DEF Next
<1>5. CASE Clear \/ WriteTrack \/ Finish
  BY <1>5 DEF Clear, WriteTrack, Finish
<1>6. CASE CallRead \/ InRead
  BY <1>6 DEF CallRead, InRead, Next
<1>7. CASE UNCHANGED playerVars
  BY <1>7 DEF playerVars
<1> QED
  BY <1>1, <1>2, <1>3, <1>4, <1>5, <1>6, <1>7 DEF PlayerNext, PlayerStep

\* The player drives the decoder as its specification allows, so whatever
\* holds of the decoder holds of it in the player: no target outside the file
\* is handed over (FLACPlayer.java:170-184).
THEOREM PlayerUsesDecoder == PlayerSpec => Spec
<1>1. PlayerInit => Init
  BY DEF PlayerInit
<1> QED
  BY <1>1, PlayerStepIsDecoderStep, PlayerInvariance, PTL DEF PlayerSpec, Spec

\* What is played is what the file holds, in order, up to the damage
\* (FLACPlayer.java:170-195; FLACStreamDecoder.cpp:213-241, 429-466).
THEOREM PlaysInOrder == PlayerSpec => []HeardInOrder
  BY PlayerUsesDecoder, ReadsInOrder, PTL

\* After a seek, playing goes on with the block after the one that holds the
\* target, in order and up to the damage: what libFLAC delivers of the target's
\* block is discarded, whatever the target (FLACStreamDecoder.cpp:214-219).
THEOREM SeeksSkipABlock ==
    PlayerSpec => [](target # -1 => IsPrefix(heard, Playable(BlockEnd(target))))
<1>1. DecoderInv =>
         (target # -1 => IsPrefix(heard, Playable(BlockEnd(target))))
  BY HeardFromOrigin DEF Origin
<1> QED
  BY <1>1, PlayerUsesDecoder, DecoderInvariance, PTL

-----------------------------------------------------------------------------
(***************************************************************************)
(* Types.                                                                  *)
(***************************************************************************)

\* The times the player may report.
PlayTimes == 0..((Total * (Channels + 1) * 1000) \div SampleRate)

\* A block is written to the track only if there is one.
TypesInv ==
    /\ at \in {"start", "head", "sleep", "fetch", "seek", "clear", "read",
               "reading", "write", "close", "finished", "error"}
    /\ at = "write" => m_buf_used # 0
    /\ mPaused \in BOOLEAN /\ interrupted \in BOOLEAN
    /\ mSeekPos \in Positions \union {-1}
    /\ seekPos \in Positions \union {-1}
    /\ mPlayPos \in PlayTimes
    /\ owner \in {"idle", "interrupt"}
    /\ requests \in 0..MaxRequests
    /\ wanted \in Positions \union {-1}
    /\ written \in Nat

\* A read() that returns without an error has something in the buffer.
LEMMA ReadReturnsBlock ==
    ASSUME Read \/ ReadAtEnd \/ LoopStep, pc' = "idle", ~ended'
    PROVE  m_buf_used' # 0
<1>1. CASE Read \/ ReadAtEnd \/ Seek \/ SeekBeyondEnd \/ SeekFails
  BY <1>1 DEF Read, ReadAtEnd, Seek, SeekBeyondEnd, SeekFails
<1>2. ASSUME NEW result \in BOOLEAN, Continue(result)
      PROVE  m_buf_used' # 0
  BY <1>2 DEF Continue
<1>3. (overflowed' = overflowed) \in BOOLEAN
  OBVIOUS
<1>4. CASE ProcessBlock
  BY <1>2, <1>3, <1>4 DEF ProcessBlock
<1>5. CASE ProcessSilent
  BY <1>2, <1>3, <1>5 DEF ProcessSilent
<1>6. CASE ProcessLost
  BY <1>2, <1>3, <1>6 DEF ProcessLost
<1>7. CASE ProcessTorn
  BY <1>2, <1>7 DEF ProcessTorn
<1>8. CASE ProcessEnd
  BY <1>2, <1>8 DEF ProcessEnd
<1> QED
  BY <1>1, <1>4, <1>5, <1>6, <1>7, <1>8 DEF LoopStep

\* The time of a position the decoder may be at.
LEMMA PlayTimeBounds ==
    ASSUME NEW n \in Nat, NEW m \in 0..n, NEW r \in Nat \ {0}
    PROVE  (m * 1000) \div r \in 0..((n * 1000) \div r)
<1> DEFINE a == (m * 1000) \div r
           b == (n * 1000) \div r
<1>1. /\ a \in Nat /\ r * a <= m * 1000
      /\ b \in Nat /\ n * 1000 < r * b + r
  BY DivBounds
<1> HIDE DEF a, b
<1>2. r * a < r * b + r
  BY <1>1
<1>3. r * b + r = r * (b + 1)
  BY <1>1
<1>4. a < b + 1
  <2>1. ASSUME b + 1 <= a PROVE FALSE
    <3>1. r * (b + 1) <= r * a
      BY <1>1, <2>1
    <3> QED
      BY <1>1, <1>2, <1>3, <3>1
  <2> QED
    BY <1>1, <2>1
<1> QED
  BY <1>1, <1>4 DEF a, b

LEMMA TypesInitInv == PlayerInit => TypesInv
<1> SUFFICES ASSUME PlayerInit PROVE TypesInv
  OBVIOUS
<1>1. Total * (Channels + 1) \in Nat
  BY DecoderAssumption
<1>2. 0 \in PlayTimes
  BY <1>1, DivBounds, PlayerAssumption DEF PlayTimes
<1>3. 0 \in 0..MaxRequests
  BY PlayerAssumption
<1> QED
  BY <1>2, <1>3 DEF PlayerInit, TypesInv

LEMMA TypesStep ==
    ASSUME TypesInv, DecoderInv, PlayerNext
    PROVE  TypesInv'
<1> USE DEF TypesInv
<1>1. CASE PausePlayback \/ ResumePlayback \/ \E ms \in Positions : SeekRequest(ms)
  <2>1. requests' \in 0..MaxRequests
    BY <1>1, PlayerAssumption DEF PausePlayback, ResumePlayback, SeekRequest, Request
  <2>2. m_buf_used' = m_buf_used
    BY <1>1 DEF PausePlayback, ResumePlayback, SeekRequest, Request, decoderVars, vars
  <2>3. CASE PausePlayback
    BY <2>1, <2>2, <2>3 DEF PausePlayback, Request
  <2>4. CASE ResumePlayback
    BY <2>1, <2>2, <2>4 DEF ResumePlayback, Request
  <2>5. CASE \E ms \in Positions : SeekRequest(ms)
    BY <2>1, <2>2, <2>5 DEF SeekRequest, Request
  <2> QED
    BY <1>1, <2>3, <2>4, <2>5
<1>2. CASE Interrupt
  BY <1>2 DEF Interrupt, decoderVars, vars
<1>3. CASE Start \/ LoopHead \/ Finish
  BY <1>3 DEF Start, LoopHead, Finish, fields, ownersVars
<1>4. CASE Wake \/ SleepEnds
  BY <1>4 DEF Wake, SleepEnds, AfterSleep, fields, ownersVars
<1>5. CASE Fetch \/ Clear
  BY <1>5 DEF Fetch, Clear, fields, ownersVars
<1>6. CASE HandOver
  BY <1>6 DEF HandOver, fields, ownersVars
<1>7. CASE CallRead \/ InRead
  <2>1. /\ Read \/ ReadAtEnd \/ LoopStep
        /\ AfterRead /\ UNCHANGED <<fields, seekPos, ownersVars, wanted, written>>
    BY <1>7 DEF CallRead, InRead
  <2>2. at' = "write" => m_buf_used' # 0
    BY <2>1, ReadReturnsBlock DEF AfterRead
  <2>3. at' \in {"reading", "close", "write"}
    BY <2>1 DEF AfterRead
  <2> QED
    BY <2>1, <2>2, <2>3 DEF fields, ownersVars
<1>8. CASE WriteTrack
  <2>1. m_cur_pos \in 0..(Total * (Channels + 1)) /\ Total * (Channels + 1) \in Nat
    <3>1. m_buf_used \in Nat /\ m_buf_used # 0 /\ m_buf_used <= m_cur_pos + 1
      BY <1>8, CapacityValue DEF WriteTrack, DecoderInv, TypeOK, PositionInv
    <3>2. m_cur_pos \in -1..(Total * (Channels + 1))
      BY DEF DecoderInv, TypeOK
    <3>3. Total * (Channels + 1) \in Nat
      BY DecoderAssumption
    <3> QED
      BY <3>1, <3>2, <3>3
  <2>2. mPlayPos' \in PlayTimes
    BY <1>8, <2>1, PlayTimeBounds, PlayerAssumption DEF WriteTrack, PlayTime, PlayTimes
  <2>3. written' \in Nat
    BY <1>8 DEF WriteTrack
  <2>4. at' = "head" /\ UNCHANGED <<mPaused, mSeekPos, interrupted, seekPos, owner, requests, wanted>>
    BY <1>8 DEF WriteTrack, ownersVars
  <2> QED
    BY <2>2, <2>3, <2>4
<1> QED
  BY <1>1, <1>2, <1>3, <1>4, <1>5, <1>6, <1>7, <1>8 DEF PlayerNext, PlayerStep

LEMMA TypesNextInv == TypesInv /\ DecoderInv /\ [PlayerNext]_playerVars => TypesInv'
<1>1. CASE PlayerNext
  BY <1>1, TypesStep
<1>2. CASE UNCHANGED playerVars
  BY <1>2 DEF playerVars, decoderVars, vars, fields, TypesInv
<1> QED
  BY <1>1, <1>2

\* The player's variables keep their types, the time it reports among them:
\* a position is reported only when values have been read
\* (FLACPlayer.java:50-74, 186-195).
THEOREM PlayerTypes == PlayerSpec => []PlayerTypeOK
<1>1. PlayerSpec => []DecoderInv
  BY PlayerUsesDecoder, DecoderInvariance, PTL
<1>2. PlayerSpec => []TypesInv
  BY <1>1, TypesInitInv, TypesNextInv, PTL DEF PlayerSpec
<1>3. TypesInv /\ DecoderInv => PlayerTypeOK
  BY DEF TypesInv, PlayTimes, DecoderInv, PlayerTypeOK
<1> QED
  BY <1>1, <1>2, <1>3, PTL

-----------------------------------------------------------------------------
(***************************************************************************)
(* Why playing ends: each step of run() brings it nearer to its end, but   *)
(* for those that wait for the owner to resume.                            *)
(***************************************************************************)

\* How often libFLAC may still be called for a block: a seek that is due may
\* lead back to the start of the file.
Undecoded == (Total - next) + (IF m_finished THEN 0 ELSE 1)
SeekDue == IF m_seek_pos >= 0 THEN Total + 2 ELSE 0

\* A seek asked for becomes one that is due.
Asked == at = "seek" \/ (at # "clear" /\ mSeekPos > 0)
SeekAsked == IF Asked THEN 2 * (Total + 2) ELSE 0

\* How far run() is from the end of the round.
Place == [finished |-> 0, error |-> 0, close |-> 1, reading |-> 2, read |-> 3,
          clear |-> 4, seek |-> 5, fetch |-> 6, head |-> 7, write |-> 8,
          sleep |-> 8, start |-> 8]

ToPlay == 10 * (SeekAsked + SeekDue + Undecoded) + Place[at]

\* The end of the file met by a seek finds the buffer empty.
FinishInv == pc = "process" /\ m_finished => m_buf_used = 0

\* Whoever sleeps without being paused is about to be woken up.
AwakeInv == at = "sleep" /\ ~mPaused => interrupted \/ owner = "interrupt"

PausedAtHead == at = "head" /\ mPaused

\* Only a new seek and going to sleep take run() away from its end.
PlaysOn ==
    /\ (PlayerStep \/ SleepEnds) /\ ~PausedAtHead => ToPlay' < ToPlay
    /\ ToPlay' > ToPlay => PausedAtHead \/ \E ms \in Positions : SeekRequest(ms)

-----------------------------------------------------------------------------

\* How far the decoder is from the end of the file.
DecodeTyped ==
    /\ next \in 0..Total /\ Total \in Nat
    /\ Undecoded \in Int /\ SeekDue \in Int
    /\ 0 <= Undecoded /\ Undecoded <= Total + 1
    /\ Total - next <= Undecoded /\ Undecoded <= Total - next + 1
    /\ m_finished => Undecoded <= Total - next
    /\ ~m_finished => Undecoded >= Total - next + 1
    /\ 0 <= SeekDue /\ SeekDue <= Total + 2
    /\ m_seek_pos >= 0 => SeekDue >= Total + 2
    /\ ~(m_seek_pos >= 0) => SeekDue <= 0

LEMMA DecodeTypes == DecoderInv => DecodeTyped
  BY DecoderAssumption DEF DecoderInv, TypeOK, Undecoded, SeekDue, DecodeTyped

LEMMA DecodeTypesNext == DecoderInv' => DecodeTyped'
  BY DecodeTypes, PTL

\* The block after the next.
LEMMA NextAdvances ==
    ASSUME DecoderInv, next < Total
    PROVE  /\ BlockEnd(next) \in 0..Total /\ next < BlockEnd(next)
           /\ BlockEnd(next) < Total => BlockEnd(next) < BlockEnd(BlockEnd(next))
<1>1. next \in 0..Total /\ Total \in Nat
  BY DecodeTypes DEF DecodeTyped
<1>2. BlockEnd(next) \in next..Total /\ next < BlockEnd(next)
  BY <1>1, BlockEndBounds
<1>3. BlockEnd(next) \in 0..Total
  BY <1>1, <1>2
<1> QED
  BY <1>2, <1>3, BlockEndBounds

\* read() has come nearer to its return, and its caller nearer to the end.
DecodesOn ==
    /\ FinishInv'
    /\ SeekDue' + Undecoded' <= SeekDue + Undecoded
    /\ pc' # "idle" \/ ~ended' => SeekDue' + Undecoded' < SeekDue + Undecoded

\* How sums compare.
LEMMA SumLess ==
    \A a \in Int, b \in Int, c \in Int, d \in Int :
        a <= c /\ b < d => a + b < c + d
  OBVIOUS

LEMMA SumDrops ==
    \A a \in Int, b \in Int, c \in Int, d \in Int, t \in Int :
        a <= 0 /\ b <= t + 1 /\ t + 2 <= c /\ 0 <= d => a + b < c + d
  OBVIOUS

LEMMA SumAtMost ==
    \A a \in Int, b \in Int, c \in Int, d \in Int :
        a <= c /\ b <= d => a + b <= c + d
  OBVIOUS

LEMMA LessIsAtMost ==
    \A a \in Int, b \in Int, c \in Int, d \in Int :
        a + b < c + d => a + b <= c + d
  OBVIOUS

LEMMA RestLess ==
    \A t \in Int, n \in Int, m \in Int, u \in Int, v \in Int : n < m =>
        /\ u <= t - m /\ t - n <= v => u < v
        /\ u <= t - m + 1 /\ v >= t - n + 1 => u < v
  OBVIOUS

LEMMA SameSeekDue ==
    ASSUME DecodeTyped, DecodeTyped', UNCHANGED m_seek_pos
    PROVE  SeekDue' <= SeekDue
<1>1. CASE m_seek_pos >= 0
  BY <1>1 DEF DecodeTyped
<1>2. CASE ~(m_seek_pos >= 0)
  <2>1. ~(m_seek_pos' >= 0)
    BY <1>2
  <2> QED
    BY <2>1 DEF DecodeTyped
<1> QED
  BY <1>1, <1>2

\* One more block has been decoded, or passed over.
LEMMA BlockGone ==
    ASSUME DecoderInv, DecoderInv', next < next', UNCHANGED m_seek_pos,
           m_finished' \/ m_finished' = m_finished \/ ~m_finished,
           NEW result \in BOOLEAN, Continue(result)
    PROVE  DecodesOn
<1>1. DecodeTyped /\ DecodeTyped'
  BY DecodeTypes, DecodeTypesNext
<1>2. Undecoded' < Undecoded
  <2>1. /\ Total \in Int /\ next \in Int /\ next' \in Int
        /\ Undecoded' \in Int /\ Undecoded \in Int
    BY <1>1 DEF DecodeTyped
  <2>2. CASE m_finished'
    <3>1. Undecoded' <= Total - next' /\ Total - next <= Undecoded
      BY <1>1, <2>2 DEF DecodeTyped
    <3> QED
      BY <2>1, <3>1, RestLess, Zenon
  <2>3. CASE ~m_finished' /\ ~m_finished
    <3>1. Undecoded' <= Total - next' + 1 /\ Undecoded >= Total - next + 1
      BY <1>1, <2>3 DEF DecodeTyped
    <3> QED
      BY <2>1, <3>1, RestLess, Zenon
  <2> QED
    BY <2>2, <2>3
<1>3. SeekDue' <= SeekDue
  BY <1>1, SameSeekDue
<1>4. FinishInv'
  BY DEF FinishInv, Continue
<1>5. Undecoded' \in Int /\ Undecoded \in Int /\ SeekDue' \in Int /\ SeekDue \in Int
  BY <1>1 DEF DecodeTyped
<1>6. SeekDue' + Undecoded' < SeekDue + Undecoded
  BY <1>2, <1>3, <1>5, SumLess, Zenon
<1>7. SeekDue' + Undecoded' <= SeekDue + Undecoded
  BY <1>5, <1>6, LessIsAtMost, Zenon
<1> QED
  BY <1>4, <1>6, <1>7 DEF DecodesOn

LEMMA LoopStepDecodesOn ==
    ASSUME DecoderInv, DecoderInv', FinishInv, LoopStep
    PROVE  DecodesOn
<1>1. DecodeTyped /\ DecodeTyped'
  BY DecodeTypes, DecodeTypesNext
<1>2. /\ next \in 0..Total /\ next' \in 0..Total /\ Total \in Int
      /\ Undecoded \in Int /\ SeekDue \in Int
      /\ Undecoded' \in Int /\ SeekDue' \in Int
  BY <1>1 DEF DecodeTyped
<1>3. CASE Seek \/ SeekBeyondEnd \/ SeekFails
  <2>1. pc = "seek" /\ m_seek_pos' = -1
    BY <1>3 DEF Seek, SeekBeyondEnd, SeekFails
  <2>2. m_seek_pos >= 0 /\ ~(m_seek_pos' >= 0)
    BY <2>1 DEF DecoderInv, BufferInv
  <2>3. FinishInv'
    BY <1>3 DEF Seek, SeekBeyondEnd, SeekFails, FinishInv
  <2>4. SeekDue' + Undecoded' < SeekDue + Undecoded
    <3>1. Total + 2 <= SeekDue /\ SeekDue' <= 0
      BY <1>1, <2>2 DEF DecodeTyped
    <3>2. 0 <= Undecoded /\ Undecoded' <= Total + 1
      BY <1>1 DEF DecodeTyped
    <3> QED
      BY <1>2, <3>1, <3>2, SumDrops, Zenon
  <2>5. SeekDue' + Undecoded' <= SeekDue + Undecoded
    BY <1>2, <2>4, LessIsAtMost, Zenon
  <2> QED
    BY <2>3, <2>4, <2>5 DEF DecodesOn
<1>4. (overflowed' = overflowed) \in BOOLEAN
  OBVIOUS
<1>5. CASE ProcessBlock
  <2>1. next < Total /\ next' = BlockEnd(next) /\ m_seek_pos' = m_seek_pos
        /\ (m_finished' = m_finished \/ ~m_finished)
        /\ Continue(overflowed' = overflowed)
    BY <1>5 DEF ProcessBlock, Processing, Fetched
  <2> QED
    BY <1>4, <2>1, NextAdvances, BlockGone
<1>6. CASE ProcessSilent
  <2>1. next = bad /\ damage = "silent" /\ next' = BlockEnd(next)
        /\ m_seek_pos' = m_seek_pos /\ m_finished'
        /\ Continue(overflowed' = overflowed)
    BY <1>6 DEF ProcessSilent, Processing, CbError
  <2>2. next < Total
    BY <1>2, <2>1 DEF DecoderInv, FileInv
  <2> QED
    BY <1>4, <2>1, <2>2, NextAdvances, BlockGone
<1>7. CASE ProcessLost
  <2>1. next = bad /\ damage = "lost" /\ m_seek_pos' = m_seek_pos /\ m_finished'
    BY <1>7 DEF ProcessLost, Processing, CbError
  <2>2. \E result \in BOOLEAN : Continue(result)
    BY <1>4, <1>7 DEF ProcessLost
  <2>3. \/ next' = BlockEnd(next)
        \/ next' = BlockEnd(BlockEnd(next)) /\ BlockEnd(next) < Total
    BY <1>7 DEF ProcessLost
  <2>4. next < Total
    BY <1>2, <2>1 DEF DecoderInv, FileInv
  <2>5. next < next'
    BY <1>2, <2>3, <2>4, NextAdvances
  <2> QED
    BY <2>1, <2>2, <2>5, BlockGone
<1>8. CASE ProcessTorn
  <2>1. m_seek_pos' = m_seek_pos /\ m_finished' = TRUE /\ next' = next
        /\ Continue(FALSE)
    BY <1>8 DEF ProcessTorn, Processing
  <2>2. pc' = "idle" /\ ended'
    BY <2>1 DEF Continue
  <2>3. SeekDue' <= SeekDue
    BY <1>1, <2>1, SameSeekDue
  <2>4. Undecoded' <= Undecoded
    BY <1>1, <2>1 DEF DecodeTyped
  <2>5. SeekDue' + Undecoded' <= SeekDue + Undecoded
    BY <1>2, <2>3, <2>4, SumAtMost, Zenon
  <2>6. FinishInv'
    BY <2>2 DEF FinishInv
  <2> QED
    BY <2>2, <2>5, <2>6 DEF DecodesOn
<1>9. CASE ProcessEnd
  <2>1. m_seek_pos' = m_seek_pos /\ m_finished' = TRUE /\ next' = next
        /\ m_buf_used' = m_buf_used /\ Continue(TRUE) /\ pc = "process"
    BY <1>9 DEF ProcessEnd, lib
  <2>2. pc' = "idle" /\ ended' = (m_buf_used = 0)
    BY <2>1 DEF Continue
  <2>3. SeekDue' <= SeekDue
    BY <1>1, <2>1, SameSeekDue
  <2>4. SeekDue' + Undecoded' <= SeekDue + Undecoded
    <3>1. Undecoded' <= Undecoded
      BY <1>1, <2>1 DEF DecodeTyped
    <3> QED
      BY <1>2, <2>3, <3>1, SumAtMost, Zenon
  <2>5. ASSUME ~ended' PROVE SeekDue' + Undecoded' < SeekDue + Undecoded
    <3>1. ~m_finished
      BY <2>1, <2>2, <2>5 DEF FinishInv
    <3>2. Undecoded' < Undecoded
      BY <1>1, <2>1, <3>1 DEF DecodeTyped
    <3> QED
      BY <1>2, <2>3, <3>2, SumLess, Zenon
  <2>6. FinishInv'
    BY <2>2 DEF FinishInv
  <2> QED
    BY <2>2, <2>4, <2>5, <2>6 DEF DecodesOn
<1> QED
  BY <1>3, <1>5, <1>6, <1>7, <1>8, <1>9 DEF LoopStep

-----------------------------------------------------------------------------

PlayTyped ==
    /\ Place[at] \in Int /\ 0 <= Place[at] /\ Place[at] <= 8
    /\ SeekAsked \in Int /\ 0 <= SeekAsked
    /\ SeekDue \in Int /\ 0 <= SeekDue /\ SeekDue <= Total + 2
    /\ Undecoded \in Int /\ 0 <= Undecoded
    /\ ToPlay \in Nat
    /\ ToPlay <= 0 => at \in {"finished", "error"}

LEMMA PlayTypes == TypesInv /\ DecoderInv => PlayTyped
<1> SUFFICES ASSUME TypesInv, DecoderInv PROVE PlayTyped
  OBVIOUS
<1>1. /\ Undecoded \in Int /\ 0 <= Undecoded
      /\ SeekDue \in Int /\ 0 <= SeekDue /\ SeekDue <= Total + 2 /\ Total \in Nat
  BY DecodeTypes DEF DecodeTyped
<1>2. /\ Place[at] \in 0..8
      /\ Place[at] = 0 => at \in {"finished", "error"}
  BY DEF TypesInv, Place
<1>3. SeekAsked \in Int /\ 0 <= SeekAsked
  BY <1>1 DEF SeekAsked
<1>4. ToPlay \in Nat /\ (ToPlay <= 0 => Place[at] = 0)
  <2> HIDE DEF Place
  <2> QED
    BY <1>1, <1>2, <1>3 DEF ToPlay
<1> QED
  BY <1>1, <1>2, <1>3, <1>4 DEF PlayTyped

LEMMA PlayTypesNext == TypesInv' /\ DecoderInv' => PlayTyped'
  BY PlayTypes, PTL

\* How the measure compares when one of its parts falls.
LEMMA PlaceLess ==
    \A a \in Int, b \in Int, c \in Int, p \in Int, d \in Int, e \in Int,
       f \in Int, q \in Int :
        d <= a /\ e <= b /\ f <= c /\ q < p =>
            10 * (d + e + f) + q < 10 * (a + b + c) + p
  OBVIOUS

LEMMA RestDrops ==
    \A a \in Int, b \in Int, c \in Int, p \in Int, d \in Int, e \in Int,
       f \in Int, q \in Int :
        d <= a /\ e + f < b + c /\ 0 <= p /\ q <= 8 =>
            10 * (d + e + f) + q < 10 * (a + b + c) + p
  OBVIOUS

LEMMA RestKept ==
    \A a \in Int, b \in Int, c \in Int, p \in Int, d \in Int, e \in Int,
       f \in Int, q \in Int :
        d <= a /\ e + f <= b + c /\ q < p =>
            10 * (d + e + f) + q < 10 * (a + b + c) + p
  OBVIOUS

LEMMA AskedDrops ==
    \A a \in Int, b \in Int, c \in Int, p \in Int, d \in Int, e \in Int,
       f \in Int, q \in Int, t \in Int :
        d <= 0 /\ 2 * (t + 2) <= a /\ 0 <= t + 2 /\ e <= t + 2 /\ 0 <= b /\ f <= c
        /\ q < p =>
            10 * (d + e + f) + q < 10 * (a + b + c) + p
  OBVIOUS

LEMMA LessIsNotMore == \A a \in Int, b \in Int : a < b => ~(a > b)
  OBVIOUS

\* The file is not touched, and run() goes on in its round.
Onward ==
    /\ UNCHANGED <<next, m_finished, m_seek_pos>>
    /\ Asked' <=> Asked
    /\ Place[at'] < Place[at]

LEMMA SameFile ==
    ASSUME DecodeTyped, DecodeTyped', UNCHANGED <<next, m_finished, m_seek_pos>>
    PROVE  SeekDue' <= SeekDue /\ Undecoded' <= Undecoded
<1>1. SeekDue' <= SeekDue
  BY SameSeekDue
<1>2. Undecoded' = Undecoded
  BY DEF Undecoded
<1>3. Undecoded \in Int
  BY DEF DecodeTyped
<1> QED
  BY <1>1, <1>2, <1>3

LEMMA SameAsked ==
    ASSUME PlayTyped, Asked' <=> Asked
    PROVE  SeekAsked' <= SeekAsked
<1>1. SeekAsked' = SeekAsked
  BY DEF SeekAsked
<1>2. SeekAsked \in Int
  BY DEF PlayTyped
<1> QED
  BY <1>1, <1>2

LEMMA OnwardLess ==
    ASSUME TypesInv, DecoderInv, TypesInv', DecoderInv', Onward
    PROVE  ToPlay' < ToPlay
<1>1. PlayTyped /\ PlayTyped' /\ DecodeTyped /\ DecodeTyped'
  BY PlayTypes, PlayTypesNext, DecodeTypes, DecodeTypesNext
<1>2. SeekDue' <= SeekDue /\ Undecoded' <= Undecoded /\ SeekAsked' <= SeekAsked
  BY <1>1, SameFile, SameAsked DEF Onward
<1>3. Place[at'] < Place[at]
  BY DEF Onward
<1>4. /\ SeekAsked \in Int /\ SeekDue \in Int /\ Undecoded \in Int /\ Place[at] \in Int
      /\ SeekAsked' \in Int /\ SeekDue' \in Int /\ Undecoded' \in Int
      /\ Place[at'] \in Int
  BY <1>1, Zenon DEF PlayTyped, Place
<1> QED
  BY <1>2, <1>3, <1>4, PlaceLess, Zenon DEF ToPlay, Place

LEMMA RoundStep ==
    ASSUME TypesInv, \/ Start \/ (LoopHead /\ ~PausedAtHead) \/ Wake \/ SleepEnds
                     \/ Fetch \/ Clear \/ WriteTrack \/ Finish
    PROVE  Onward
<1>1. UNCHANGED <<next, m_finished, m_seek_pos>>
  BY DEF Start, LoopHead, Wake, SleepEnds, Fetch, Clear, WriteTrack, Finish,
         decoderVars, vars, lib
<1>2. CASE Start \/ (LoopHead /\ ~PausedAtHead) \/ Wake \/ SleepEnds \/ WriteTrack \/ Finish
  <2>1. mSeekPos' = mSeekPos
    BY <1>2 DEF Start, LoopHead, Wake, SleepEnds, WriteTrack, Finish, fields
  <2>2. /\ at \in {"start", "head", "sleep", "write", "close"}
        /\ at' \in {"head", "error", "fetch", "finished"}
        /\ Place[at'] < Place[at]
    BY <1>2 DEF Start, LoopHead, PausedAtHead, Wake, SleepEnds, WriteTrack, Finish,
                AfterSleep, Place
  <2> QED
    BY <1>1, <2>1, <2>2 DEF Onward, Asked
<1>3. CASE Fetch
  <2>1. mSeekPos' = mSeekPos /\ at = "fetch"
        /\ at' = IF mSeekPos > 0 THEN "seek" ELSE "read"
    BY <1>3 DEF Fetch, fields
  <2>2. Place[at'] < Place[at]
    BY <2>1 DEF Place
  <2> QED
    BY <1>1, <2>1, <2>2 DEF Onward, Asked
<1>4. CASE Clear
  <2>1. mSeekPos' = -1 /\ at = "clear" /\ at' = "read"
    BY <1>4 DEF Clear
  <2>2. Place[at'] < Place[at]
    BY <2>1 DEF Place
  <2> QED
    BY <1>1, <2>1, <2>2 DEF Onward, Asked
<1> QED
  BY <1>2, <1>3, <1>4

LEMMA CallReadStep ==
    ASSUME CallRead
    PROVE  Onward
<1>1. UNCHANGED <<next, m_finished, m_seek_pos, mSeekPos>>
  BY DEF CallRead, Read, ReadAtEnd, lib, fields
<1>2. at = "read" /\ at' \in {"reading", "close"}
  BY DEF CallRead, AfterRead, Read, ReadAtEnd
<1>3. Place[at'] < Place[at]
  BY <1>2 DEF Place
<1> QED
  BY <1>1, <1>2, <1>3 DEF Onward, Asked

LEMMA InReadLess ==
    ASSUME TypesInv, DecoderInv, TypesInv', DecoderInv', FinishInv, InRead
    PROVE  ToPlay' < ToPlay
<1>1. PlayTyped /\ PlayTyped'
  BY PlayTypes, PlayTypesNext
<1>2. /\ SeekAsked \in Int /\ SeekDue \in Int /\ Undecoded \in Int /\ Place[at] \in Int
      /\ SeekAsked' \in Int /\ SeekDue' \in Int /\ Undecoded' \in Int
      /\ Place[at'] \in Int
  BY <1>1, Zenon DEF PlayTyped, Place
<1>3. DecodesOn
  BY LoopStepDecodesOn DEF InRead
<1>4. SeekAsked' <= SeekAsked
  <2>1. mSeekPos' = mSeekPos /\ at = "reading" /\ at' \in {"reading", "close", "write"}
    BY DEF InRead, AfterRead, fields
  <2>2. Asked' <=> Asked
    BY <2>1 DEF Asked
  <2> QED
    BY <1>1, <2>2, SameAsked
<1>5. CASE SeekDue' + Undecoded' < SeekDue + Undecoded
  <2>1. 0 <= Place[at] /\ Place[at'] <= 8
    BY <1>1, Zenon DEF PlayTyped, Place
  <2> QED
    BY <1>2, <1>4, <1>5, <2>1, RestDrops, Zenon DEF ToPlay, Place
<1>6. CASE ~(SeekDue' + Undecoded' < SeekDue + Undecoded)
  <2>1. pc' = "idle" /\ ended'
    BY <1>3, <1>6, Zenon DEF DecodesOn
  <2>2. at = "reading" /\ at' = "close"
    BY <2>1 DEF InRead, AfterRead
  <2>3. Place[at'] < Place[at]
    BY <2>2 DEF Place
  <2>4. SeekDue' + Undecoded' <= SeekDue + Undecoded
    BY <1>3, Zenon DEF DecodesOn
  <2> QED
    BY <1>2, <1>4, <2>3, <2>4, RestKept, Zenon DEF ToPlay, Place
<1> QED
  BY <1>5, <1>6

LEMMA HandOverLess ==
    ASSUME TypesInv, DecoderInv, TypesInv', DecoderInv', HandOver
    PROVE  ToPlay' < ToPlay
<1>1. PlayTyped /\ PlayTyped' /\ DecodeTyped /\ DecodeTyped'
  BY PlayTypes, PlayTypesNext, DecodeTypes, DecodeTypesNext
<1>2. /\ SeekAsked \in Int /\ SeekDue \in Int /\ Undecoded \in Int /\ Place[at] \in Int
      /\ SeekAsked' \in Int /\ SeekDue' \in Int /\ Undecoded' \in Int
      /\ Place[at'] \in Int
  BY <1>1, Zenon DEF PlayTyped, Place
<1>3. at = "seek" /\ at' = "clear" /\ UNCHANGED <<next, m_finished>>
  BY DEF HandOver, SeekTo, lib
<1>4. Total \in Int /\ 0 <= Total + 2
  BY DecoderAssumption
<1>5. SeekAsked' <= 0 /\ 2 * (Total + 2) <= SeekAsked
  <2>1. Asked /\ ~Asked'
    BY <1>3 DEF Asked
  <2> QED
    BY <1>4, <2>1 DEF SeekAsked
<1>6. SeekDue' <= Total + 2 /\ 0 <= SeekDue
  BY <1>1, Zenon DEF PlayTyped
<1>7. Undecoded' <= Undecoded
  <2>1. Undecoded' = Undecoded
    BY <1>3 DEF Undecoded
  <2> QED
    BY <1>2, <2>1
<1>8. Place[at'] < Place[at]
  BY <1>3 DEF Place
<1> QED
  BY <1>2, <1>4, <1>5, <1>6, <1>7, <1>8, AskedDrops, Zenon DEF ToPlay, Place

LEMMA OwnerKeeps ==
    ASSUME TypesInv, DecoderInv, PausePlayback \/ ResumePlayback \/ Interrupt
    PROVE  ~(ToPlay' > ToPlay)
<1>1. UNCHANGED <<next, m_finished, m_seek_pos, at, mSeekPos>>
  BY DEF PausePlayback, ResumePlayback, Interrupt, Request, decoderVars, vars, lib
<1>2. ToPlay' = ToPlay
  BY <1>1 DEF ToPlay, SeekAsked, Asked, SeekDue, Undecoded, Place
<1>3. ToPlay \in Int
  BY PlayTypes DEF PlayTyped
<1> QED
  BY <1>2, <1>3

LEMMA RequestIsNoStep ==
    ASSUME Request \/ Interrupt
    PROVE  ~(PlayerStep \/ SleepEnds)
<1>1. owner' # owner
  BY DEF Request, Interrupt
<1>2. PlayerStep \/ SleepEnds => owner' = owner
  BY DEF PlayerStep, SleepEnds, Start, LoopHead, Wake, Fetch, HandOver, Clear,
         CallRead, InRead, WriteTrack, Finish, ownersVars
<1> QED
  BY <1>1, <1>2

LEMMA PlaysOnNext ==
    TypesInv /\ DecoderInv /\ TypesInv' /\ DecoderInv' /\ FinishInv
        /\ [PlayerNext]_playerVars => [PlaysOn]_playerVars
<1> SUFFICES ASSUME TypesInv, DecoderInv, TypesInv', DecoderInv', FinishInv, PlayerNext
             PROVE  PlaysOn
  OBVIOUS
<1>1. ToPlay \in Int /\ ToPlay' \in Int
  BY PlayTypes, PlayTypesNext DEF PlayTyped
<1>2. ASSUME ToPlay' < ToPlay PROVE PlaysOn
  BY <1>1, <1>2, LessIsNotMore, Zenon DEF PlaysOn
<1>3. CASE LoopHead /\ PausedAtHead
  BY <1>3 DEF PlaysOn
<1>4. CASE \/ Start \/ (LoopHead /\ ~PausedAtHead) \/ Wake \/ SleepEnds
           \/ Fetch \/ Clear \/ WriteTrack \/ Finish
  BY <1>2, <1>4, RoundStep, OnwardLess
<1>5. CASE CallRead
  BY <1>2, <1>5, CallReadStep, OnwardLess
<1>6. CASE InRead
  BY <1>2, <1>6, InReadLess
<1>7. CASE HandOver
  BY <1>2, <1>7, HandOverLess
<1>8. CASE \E ms \in Positions : SeekRequest(ms)
  <2>1. ~(PlayerStep \/ SleepEnds)
    BY <1>8, RequestIsNoStep DEF SeekRequest
  <2> QED
    BY <1>8, <2>1 DEF PlaysOn
<1>9. CASE PausePlayback \/ ResumePlayback \/ Interrupt
  <2>1. ~(PlayerStep \/ SleepEnds)
    BY <1>9, RequestIsNoStep DEF PausePlayback, ResumePlayback
  <2> QED
    BY <1>9, <2>1, OwnerKeeps DEF PlaysOn
<1>10. CASE LoopHead
  BY <1>3, <1>4, <1>10
<1>11. CASE PlayerStep \/ SleepEnds
  BY <1>4, <1>5, <1>6, <1>7, <1>10, <1>11 DEF PlayerStep
<1> QED
  BY <1>8, <1>9, <1>11 DEF PlayerNext

LEMMA FinishNext ==
    DecoderInv /\ DecoderInv' /\ FinishInv /\ [PlayerNext]_playerVars => FinishInv'
<1> SUFFICES ASSUME DecoderInv, DecoderInv', FinishInv, [PlayerNext]_playerVars
             PROVE  FinishInv'
  OBVIOUS
<1>1. CASE LoopStep
  BY <1>1, LoopStepDecodesOn DEF DecodesOn
<1>2. CASE Read \/ ReadAtEnd
  BY <1>2 DEF Read, ReadAtEnd, FinishInv
<1>3. CASE UNCHANGED decoderVars
  BY <1>3 DEF decoderVars, vars, FinishInv
<1>4. CASE HandOver
  BY <1>4 DEF HandOver, SeekTo, FinishInv
<1> QED
  BY <1>1, <1>2, <1>3, <1>4 DEF PlayerNext, PlayerStep, PausePlayback, ResumePlayback,
     Interrupt, SeekRequest, Request, Start, LoopHead, Wake, SleepEnds, Fetch, Clear,
     CallRead, InRead, WriteTrack, Finish, playerVars

LEMMA AwakeNext == AwakeInv /\ [PlayerNext]_playerVars => AwakeInv'
  BY DEF AwakeInv, PlayerNext, PlayerStep, PausePlayback, ResumePlayback,
     Interrupt, SeekRequest, Request, Start, LoopHead, Wake, SleepEnds, AfterSleep,
     Fetch, HandOver, Clear, CallRead, InRead, AfterRead, WriteTrack, Finish,
     playerVars, fields, ownersVars

\* Every step of run() brings the player nearer to its end, of which it is at
\* most so far away as the file is long; only a new seek takes it back, and
\* going to sleep, while it is to be paused. A sleep is never without the
\* pause, unless the interrupt is there or about to come
\* (FLACPlayer.java:94-98, 158-205; FLACStreamDecoder.cpp:213-233).
THEOREM PlayingMovesOn ==
    PlayerSpec => /\ [](ToPlay \in Nat /\ (ToPlay <= 0 => at \in {"finished", "error"}))
                  /\ [](at = "sleep" /\ ~mPaused => interrupted \/ owner = "interrupt")
                  /\ [][PlaysOn]_playerVars
<1>1. PlayerInit => FinishInv /\ AwakeInv
  BY DEF PlayerInit, Init, FinishInv, AwakeInv
<1>2. PlayerSpec => []DecoderInv
  BY PlayerUsesDecoder, DecoderInvariance, PTL
<1>3. PlayerSpec => []TypesInv
  BY <1>2, TypesInitInv, TypesNextInv, PTL DEF PlayerSpec
<1>4. PlayerSpec => []FinishInv /\ []AwakeInv
  BY <1>1, <1>2, FinishNext, AwakeNext, PTL DEF PlayerSpec
<1>5. TypesInv /\ DecoderInv =>
         ToPlay \in Nat /\ (ToPlay <= 0 => at \in {"finished", "error"})
  BY PlayTypes DEF PlayTyped
<1>6. AwakeInv => (at = "sleep" /\ ~mPaused => interrupted \/ owner = "interrupt")
  BY DEF AwakeInv
<1> QED
  BY <1>2, <1>3, <1>4, <1>5, <1>6, PlaysOnNext, PTL DEF PlayerSpec
=============================================================================
