-------------------------- MODULE ChunkRotationProofs --------------------------
(***************************************************************************)
(* Proofs about ChunkRotation, for recordings of any length.  Up to the    *)
(* tick at which the schedule overtakes itself, the four switches come in  *)
(* one fixed order, round after round; an encoder's chunk is closed before *)
(* the encoder is needed again, and the chunk that takes the data is       *)
(* always the latest.                                                      *)
(***************************************************************************)
EXTENDS ChunkRotation, TLAPS

\* No read covers more than a tenth of a second, so none steps over a switch.
ShortReads == Strides \subseteq {0, 1}

\* The rounds that begin before the schedule overtakes itself.
Rounds == 1..8

\* The ticks up to there.
Early == 0..2247

\* A round of the schedule has four stages.  mEncoder2 has a chunk alone ...
SecondAlone(k) ==
    /\ 291 * k - 291 <= mChunkTimer /\ mChunkTimer < 282 * k - 141
    /\ mEncHandler = 1 /\ mChunk = 2 * k - 2
    /\ mEncoder2 = mChunk /\ mEncoder3 = None

\* ... until mEncoder3 takes over, ...
ThirdTakesOver(k) ==
    /\ 282 * k - 141 <= mChunkTimer /\ mChunkTimer < 302 * k - 151
    /\ mEncHandler = 2 /\ mChunk = 2 * k - 1
    /\ mEncoder2 = mChunk - 1 /\ mEncoder3 = mChunk

\* ... and is alone when the other has been closed, ...
ThirdAlone(k) ==
    /\ 302 * k - 151 <= mChunkTimer /\ mChunkTimer < 281 * k
    /\ mEncHandler = 2 /\ mChunk = 2 * k - 1
    /\ mEncoder2 = None /\ mEncoder3 = mChunk

\* ... until mEncoder2 takes over again.
SecondTakesOver(k) ==
    /\ 281 * k <= mChunkTimer /\ mChunkTimer < 291 * k
    /\ mEncHandler = 1 /\ mChunk = 2 * k
    /\ mEncoder2 = mChunk /\ mEncoder3 = mChunk - 1

\* While recording, the encoders are where the schedule has put them.
StageInv ==
    phase = "recording" /\ mChunkTimer < 2248 =>
        \E k \in Rounds : \/ SecondAlone(k) \/ ThirdTakesOver(k)
                          \/ ThirdAlone(k) \/ SecondTakesOver(k)

\* The encoders that are open are those referred to; all others are announced.
OpenInv ==
    phase = "recording" /\ mChunkTimer < 2248 =>
        /\ open = {mEncoder2, mEncoder3} \ {None}
        /\ announced = Chunks \ open

\* Chunk by chunk, the data has gone to the chunks without a gap.
CoverInv ==
    phase = "recording" /\ mChunkTimer < 2248 =>
        /\ DOMAIN from = Chunks /\ DOMAIN to = Chunks
        /\ \A c \in Chunks \ {0} : from[c] = to[c - 1] + 1
        /\ to[mChunk] = mChunkTimer

\* When the loop has been left, nothing is open or nothing can be released,
\* and nothing is announced any more.
EndInv ==
    mChunkTimer < 2248 =>
        /\ phase = "released" => open = {}
        /\ announced \subseteq Chunks \ open

RotationInv == TypeOK /\ StageInv /\ OpenInv /\ CoverInv /\ EndInv

-----------------------------------------------------------------------------
(***************************************************************************)
(* The schedule.                                                           *)
(***************************************************************************)

\* The end of mEncoder2's chunk falls behind its next start in round 8.
LEMMA CrossingTick == FirstCrossing = 2248
<1> DEFINE First(k) == Crossing(k) /\ \A j \in 1..(k - 1) : ~Crossing(j)
<1>1. \A k \in 1..100 : Crossing(k) <=> k >= 8
  BY DEF Crossing
<1>2. \A k \in 1..100 : First(k) <=> k = 8
  <2>1. ASSUME NEW k \in 1..100, First(k)
        PROVE  k = 8
    <3>1. k >= 8
      BY <1>1, <2>1
    <3>2. k > 8 => 8 \in 1..(k - 1)
      OBVIOUS
    <3>3. Crossing(8)
      BY <1>1
    <3> QED BY <2>1, <3>1, <3>2, <3>3
  <2>2. First(8)
    BY <1>1
  <2> QED BY <2>1, <2>2
<1> HIDE DEF First
<1>3. \E k \in 1..100 : First(k)
  BY <1>2
<1> DEFINE round == CHOOSE k \in 1..100 : First(k)
<1>4. round \in 1..100 /\ First(round)
  BY <1>3
<1>5. round = 8
  BY <1>2, <1>4
<1>6. FirstCrossing = 281 * round
  BY DEF First, FirstCrossing
<1> HIDE DEF round
<1> QED BY <1>5, <1>6

\* When each of the four switches comes.
LEMMA ThirdStarts ==
    ASSUME NEW t \in Early
    PROVE  StartsThird(t) <=> \E k \in Rounds : t = 282 * k - 141
  BY DEF Early, Rounds, StartsThird, Late, OddMultiple

LEMMA SecondEnds ==
    ASSUME NEW t \in Early
    PROVE  EndsSecond(t) <=> \E k \in 1..7 : t = 302 * k - 151
<1>1. Late(t) /\ OddMultiple(t, 151) <=> \E k \in 1..7 : t = 302 * k - 151
  BY DEF Early, Late, OddMultiple
<1>2. \A k \in 1..7 : t = 302 * k - 151 => ~StartsThird(t)
  BY ThirdStarts DEF Rounds
<1> QED BY <1>1, <1>2 DEF EndsSecond

LEMMA SecondStarts ==
    ASSUME NEW t \in Early
    PROVE  StartsSecond(t) <=> \E k \in 1..7 : t = 281 * k
<1>1. Late(t) /\ t % 281 = 0 <=> \E k \in 1..7 : t = 281 * k
  BY DEF Early, Late
<1>2. \A k \in 1..7 : t = 281 * k => ~StartsThird(t) /\ ~EndsSecond(t)
  BY ThirdStarts, SecondEnds DEF Rounds
<1> QED BY <1>1, <1>2 DEF StartsSecond

LEMMA ThirdEnds ==
    ASSUME NEW t \in Early
    PROVE  EndsThird(t) <=> \E k \in 1..7 : t = 291 * k
<1>1. Late(t) /\ t % 291 = 0 <=> \E k \in 1..7 : t = 291 * k
  BY DEF Early, Late
<1>2. \A k \in 1..7 : t = 291 * k =>
          ~StartsThird(t) /\ ~EndsSecond(t) /\ ~StartsSecond(t)
  BY ThirdStarts, SecondEnds, SecondStarts DEF Rounds
<1> QED BY <1>1, <1>2 DEF EndsThird

\* At no tick do two switches come together.
LEMMA OneSwitch ==
    ASSUME NEW t \in Int
    PROVE  /\ ~(StartsThird(t) /\ EndsSecond(t))
           /\ ~(StartsThird(t) /\ StartsSecond(t))
           /\ ~(StartsThird(t) /\ EndsThird(t))
           /\ ~(EndsSecond(t) /\ StartsSecond(t))
           /\ ~(EndsSecond(t) /\ EndsThird(t))
           /\ ~(StartsSecond(t) /\ EndsThird(t))
  BY DEF EndsSecond, StartsSecond, EndsThird

-----------------------------------------------------------------------------
(***************************************************************************)
(* Types.                                                                  *)
(***************************************************************************)

\* What a chunk was given stays a map of chunks to ticks.
LEMMA PutTypes ==
    ASSUME NEW f, NEW c, NEW t \in Ticks, \A x \in DOMAIN f : f[x] \in Ticks
    PROVE  /\ DOMAIN Put(f, c, t) = DOMAIN f \union {c}
           /\ \A x \in DOMAIN Put(f, c, t) : Put(f, c, t)[x] \in Ticks
           /\ Put(f, c, t)[c] = t
           /\ \A x \in DOMAIN f \ {c} : Put(f, c, t)[x] = f[x]
  BY DEF Put

\* The chunks' spans keep their types when the data goes to chunk c.
LEMMA WriteToTypes ==
    ASSUME TypeOK, NEW c \in Nat \union {None}, WriteTo(c), mChunkTimer' \in Ticks
    PROVE  /\ DOMAIN from' \subseteq Chunks \union ({c} \ {None})
           /\ DOMAIN to' = DOMAIN from'
           /\ \A x \in DOMAIN from' : from'[x] \in Ticks /\ to'[x] \in Ticks
<1>1. CASE c = None
  BY <1>1 DEF WriteTo, spans, TypeOK
<1>2. CASE c # None
  <2> DEFINE g == Put(from, c, mChunkTimer')
             h == Put(to, c, mChunkTimer')
  <2>1. from' = (IF c \in DOMAIN from THEN from ELSE g) /\ to' = h
    BY <1>2 DEF WriteTo
  <2>2. /\ DOMAIN g = DOMAIN from \union {c}
        /\ \A x \in DOMAIN g : g[x] \in Ticks
    BY PutTypes DEF TypeOK
  <2>3. /\ DOMAIN h = DOMAIN to \union {c}
        /\ \A x \in DOMAIN h : h[x] \in Ticks
    BY PutTypes DEF TypeOK
  <2> HIDE DEF g, h
  <2>4. DOMAIN from' = DOMAIN from \union {c}
    BY <2>1, <2>2
  <2>5. \A x \in DOMAIN from' : from'[x] \in Ticks
    BY <2>1, <2>2 DEF TypeOK
  <2> QED BY <1>2, <2>1, <2>3, <2>4, <2>5 DEF TypeOK
<1> QED BY <1>1, <1>2

LEMMA InitTypes == Init => TypeOK
  BY RotationAssumption DEF Init, TypeOK, Chunks, Ticks, None

\* A read keeps the clock in its range.
LEMMA TickTypes ==
    ASSUME TypeOK, NEW d \in Strides, Tick(d)
    PROVE  mChunkTimer' \in Ticks /\ mChunkTimer' >= mChunkTimer
  BY RotationAssumption DEF TypeOK, Tick, Ticks

LEMMA NextTypes == TypeOK /\ [Next]_vars => TypeOK'
<1> SUFFICES ASSUME TypeOK, [Next]_vars
             PROVE  TypeOK'
  OBVIOUS
<1>1. ASSUME NEW d \in Strides, ReadPlain(d)
      PROVE  TypeOK'
  <2>1. mChunkTimer' \in Ticks
    BY <1>1, TickTypes DEF ReadPlain
  <2>2. Taker(mEncHandler, mEncoder2, mEncoder3) \in Chunks \union {None}
    BY DEF TypeOK, Taker
  <2>3. Chunks \subseteq Nat /\ None \notin Chunks
    BY DEF TypeOK, Chunks, None
  <2>4. /\ DOMAIN from' \subseteq Chunks
        /\ DOMAIN to' = DOMAIN from'
        /\ \A x \in DOMAIN from' : from'[x] \in Ticks /\ to'[x] \in Ticks
    BY <1>1, <2>1, <2>2, <2>3, WriteToTypes DEF ReadPlain
  <2> QED BY <1>1, <2>1, <2>4 DEF TypeOK, ReadPlain, Tick, encoders, Chunks
<1>2. ASSUME NEW d \in Strides, StartThird(d)
      PROVE  TypeOK'
  <2>1. mChunkTimer' \in Ticks
    BY <1>2, TickTypes DEF StartThird
  <2>2. mChunk' \in Nat /\ Chunks' = Chunks \union {mChunk'} /\ mChunk' # None
    BY <1>2 DEF StartThird, TypeOK, Chunks, None
  <2>3. /\ DOMAIN from' \subseteq Chunks'
        /\ DOMAIN to' = DOMAIN from'
        /\ \A x \in DOMAIN from' : from'[x] \in Ticks /\ to'[x] \in Ticks
    BY <1>2, <2>1, <2>2, WriteToTypes DEF StartThird
  <2>4. open' \subseteq Chunks' /\ announced' \subseteq Chunks' \union {None}
    BY <1>2, <2>2 DEF StartThird, TypeOK
  <2>5. mEncoder2' \in Chunks' \union {None} /\ mEncoder3' \in Chunks' \union {None}
    BY <1>2, <2>2 DEF StartThird, TypeOK
  <2> QED BY <1>2, <2>1, <2>2, <2>3, <2>4, <2>5 DEF TypeOK, StartThird, Tick
<1>3. ASSUME NEW d \in Strides, EndSecond(d)
      PROVE  TypeOK'
  <2>1. mChunkTimer' \in Ticks
    BY <1>3, TickTypes DEF EndSecond
  <2>2. Taker(mEncHandler, None, mEncoder3) \in Chunks \union {None}
    BY DEF TypeOK, Taker
  <2>3. Chunks \subseteq Nat /\ None \notin Chunks /\ Chunks' = Chunks
    BY <1>3 DEF EndSecond, TypeOK, Chunks, None
  <2>4. /\ DOMAIN from' \subseteq Chunks
        /\ DOMAIN to' = DOMAIN from'
        /\ \A x \in DOMAIN from' : from'[x] \in Ticks /\ to'[x] \in Ticks
    BY <1>3, <2>1, <2>2, <2>3, WriteToTypes DEF EndSecond
  <2>5. mChunk - 1 \in Chunks \union {None}
    BY DEF TypeOK, Chunks, None
  <2> QED BY <1>3, <2>1, <2>3, <2>4, <2>5 DEF TypeOK, EndSecond, Tick
<1>4. ASSUME NEW d \in Strides, StartSecond(d)
      PROVE  TypeOK'
  <2>1. mChunkTimer' \in Ticks
    BY <1>4, TickTypes DEF StartSecond
  <2>2. mChunk' \in Nat /\ Chunks' = Chunks \union {mChunk'} /\ mChunk' # None
    BY <1>4 DEF StartSecond, TypeOK, Chunks, None
  <2>3. /\ DOMAIN from' \subseteq Chunks'
        /\ DOMAIN to' = DOMAIN from'
        /\ \A x \in DOMAIN from' : from'[x] \in Ticks /\ to'[x] \in Ticks
    BY <1>4, <2>1, <2>2, WriteToTypes DEF StartSecond
  <2>4. open' \subseteq Chunks' /\ announced' \subseteq Chunks' \union {None}
    BY <1>4, <2>2 DEF StartSecond, TypeOK
  <2>5. mEncoder2' \in Chunks' \union {None} /\ mEncoder3' \in Chunks' \union {None}
    BY <1>4, <2>2 DEF StartSecond, TypeOK
  <2> QED BY <1>4, <2>1, <2>2, <2>3, <2>4, <2>5 DEF TypeOK, StartSecond, Tick
<1>5. ASSUME NEW d \in Strides, EndThird(d)
      PROVE  TypeOK'
  <2>1. mChunkTimer' \in Ticks
    BY <1>5, TickTypes DEF EndThird
  <2>2. Taker(mEncHandler, mEncoder2, None) \in Chunks \union {None}
    BY DEF TypeOK, Taker
  <2>3. Chunks \subseteq Nat /\ None \notin Chunks /\ Chunks' = Chunks
    BY <1>5 DEF EndThird, TypeOK, Chunks, None
  <2>4. /\ DOMAIN from' \subseteq Chunks
        /\ DOMAIN to' = DOMAIN from'
        /\ \A x \in DOMAIN from' : from'[x] \in Ticks /\ to'[x] \in Ticks
    BY <1>5, <2>1, <2>2, <2>3, WriteToTypes DEF EndThird
  <2>5. mChunk - 1 \in Chunks \union {None}
    BY DEF TypeOK, Chunks, None
  <2> QED BY <1>5, <2>1, <2>3, <2>4, <2>5 DEF TypeOK, EndThird, Tick
<1>6. ASSUME NEW d \in Strides, Refuse(d)
      PROVE  TypeOK'
  <2>1. mChunkTimer' \in Ticks
    BY <1>6, TickTypes DEF Refuse
  <2>2. mChunk' \in Nat /\ Chunks \subseteq Chunks'
    BY <1>6 DEF Refuse, TypeOK, Chunks
  <2> QED BY <1>6, <2>1, <2>2 DEF TypeOK, Refuse, spans
<1>7. CASE Stop
  BY <1>7 DEF TypeOK, Stop, spans, Chunks
<1>8. CASE UNCHANGED vars
  BY <1>8 DEF TypeOK, vars, encoders, spans, Chunks
<1> QED BY <1>1, <1>2, <1>3, <1>4, <1>5, <1>6, <1>7, <1>8 DEF Next

\* The rotation's variables keep their types, for recordings of any length,
\* reads of any length and encoders refused at any time
\* (FLACRecorder.java:366-482).
THEOREM RotationTypes == Spec => []TypeOK
<1> QED BY InitTypes, NextTypes, PTL DEF Spec

-----------------------------------------------------------------------------
(***************************************************************************)
(* Rounds.                                                                 *)
(***************************************************************************)

\* A read covers a tenth of a second or less, and the loop was running.
LEMMA ShortTick ==
    ASSUME ShortReads, TypeOK, NEW d \in Strides, Tick(d), mChunkTimer' < 2248
    PROVE  /\ mChunkTimer \in Early /\ mChunkTimer' \in Early
           /\ mChunkTimer' \in {mChunkTimer, mChunkTimer + 1}
           /\ phase = "recording"
  BY DEF ShortReads, TypeOK, Tick, Ticks, Early

\* The chunk that takes the data already has its first tick.
LEMMA WriteToLatest ==
    ASSUME TypeOK, CoverInv, phase = "recording", mChunkTimer \in Early,
           WriteTo(mChunk), mChunk' = mChunk, mChunkTimer' \in Ticks
    PROVE  CoverInv'
<1>1. mChunk \in DOMAIN from /\ mChunk # None /\ mChunk \in Nat
  BY DEF CoverInv, Early, Chunks, TypeOK, None
<1>2. from' = from /\ to' = Put(to, mChunk, mChunkTimer')
  BY <1>1 DEF WriteTo
<1>3. DOMAIN to = Chunks /\ mChunk \in Chunks /\ DOMAIN from = Chunks
  BY <1>1 DEF CoverInv, Early, Chunks
<1>5. /\ DOMAIN to' = Chunks
      /\ to'[mChunk] = mChunkTimer'
      /\ \A x \in Chunks \ {mChunk} : to'[x] = to[x]
  BY <1>2, <1>3 DEF Put
<1>6. \A c \in Chunks \ {0} : c - 1 \in Chunks \ {mChunk}
  BY <1>1 DEF Chunks
<1>7. \A c \in Chunks \ {0} : from'[c] = to'[c - 1] + 1
  <2>1. \A c \in Chunks \ {0} : from[c] = to[c - 1] + 1
    BY DEF CoverInv, Early
  <2> QED BY <1>2, <1>5, <1>6, <2>1
<1>8. Chunks' = Chunks
  BY DEF Chunks
<1> QED BY <1>2, <1>3, <1>5, <1>7, <1>8 DEF CoverInv

\* A new chunk takes over at the tick after the last one of the chunk before.
LEMMA WriteToNew ==
    ASSUME TypeOK, CoverInv, phase = "recording", mChunkTimer \in Early,
           WriteTo(mChunk + 1), mChunk' = mChunk + 1,
           mChunkTimer' = mChunkTimer + 1, mChunkTimer' \in Ticks
    PROVE  CoverInv'
<1>1. mChunk \in Nat /\ mChunk + 1 # None
  BY DEF TypeOK, None
<1>2. /\ DOMAIN from = Chunks /\ DOMAIN to = Chunks
      /\ \A c \in Chunks \ {0} : from[c] = to[c - 1] + 1
      /\ to[mChunk] = mChunkTimer
  BY DEF CoverInv, Early
<1>3. /\ from' = Put(from, mChunk + 1, mChunkTimer')
      /\ to' = Put(to, mChunk + 1, mChunkTimer')
  BY <1>1, <1>2 DEF WriteTo, Chunks
<1>5. /\ DOMAIN from' = Chunks \union {mChunk + 1}
      /\ from'[mChunk + 1] = mChunkTimer'
      /\ \A x \in Chunks \ {mChunk + 1} : from'[x] = from[x]
  BY <1>2, <1>3 DEF Put
<1>6. /\ DOMAIN to' = Chunks \union {mChunk + 1}
      /\ to'[mChunk + 1] = mChunkTimer'
      /\ \A x \in Chunks \ {mChunk + 1} : to'[x] = to[x]
  BY <1>2, <1>3 DEF Put
<1>7. Chunks' = Chunks \union {mChunk + 1} /\ mChunk + 1 \notin Chunks
  BY <1>1 DEF Chunks
<1>8. ASSUME NEW c \in Chunks' \ {0}
      PROVE  from'[c] = to'[c - 1] + 1
  <2>1. CASE c = mChunk + 1
    <3>1. mChunk \in Chunks /\ c - 1 = mChunk
      BY <1>1, <2>1 DEF Chunks
    <3> QED BY <1>2, <1>5, <1>6, <1>7, <2>1, <3>1
  <2>2. CASE c # mChunk + 1
    <3>1. c \in Chunks \ {0} /\ c - 1 \in Chunks
      BY <1>1, <1>7, <2>2 DEF Chunks
    <3> QED BY <1>2, <1>5, <1>6, <1>7, <3>1
  <2> QED BY <2>1, <2>2
<1> QED BY <1>5, <1>6, <1>7, <1>8 DEF CoverInv

LEMMA InitRotation == Init => RotationInv
<1> SUFFICES ASSUME Init
             PROVE  RotationInv
  OBVIOUS
<1>1. SecondAlone(1)
  BY DEF Init, SecondAlone, None
<1>2. StageInv
  BY <1>1 DEF StageInv, Rounds
<1>3. OpenInv /\ EndInv
  BY DEF Init, OpenInv, EndInv, Chunks, None
<1>4. CoverInv
  BY DEF Init, CoverInv, Chunks
<1> QED BY <1>2, <1>3, <1>4, InitTypes DEF RotationInv

\* A read between two switches, or after the first read at one.
LEMMA PlainRound ==
    ASSUME ShortReads, RotationInv, NEW d \in Strides, ReadPlain(d),
           mChunkTimer' < 2248
    PROVE  StageInv' /\ OpenInv' /\ CoverInv' /\ EndInv'
<1>1. /\ mChunkTimer \in Early /\ mChunkTimer' \in Early
      /\ mChunkTimer' \in {mChunkTimer, mChunkTimer + 1}
      /\ phase = "recording" /\ mChunkTimer' \in Ticks
  BY ShortTick, TickTypes DEF ReadPlain, RotationInv
<1>2. PICK k \in Rounds : \/ SecondAlone(k) \/ ThirdTakesOver(k)
                          \/ ThirdAlone(k) \/ SecondTakesOver(k)
  BY <1>1 DEF RotationInv, StageInv, Early
<1>3. UNCHANGED <<phase, mEncHandler, mEncoder2, mEncoder3, mChunk, open, announced>>
  BY DEF ReadPlain, encoders
<1>4. ~EndsSecond(mChunkTimer') /\ ~EndsThird(mChunkTimer')
  BY <1>1, OneSwitch DEF ReadPlain, Early
<1>5. /\ StartsThird(mChunkTimer') => mEncHandler = 2
      /\ StartsSecond(mChunkTimer') => mEncHandler = 1
  BY <1>1, OneSwitch DEF ReadPlain, Early
<1>6. Taker(mEncHandler, mEncoder2, mEncoder3) = mChunk
  BY <1>2 DEF Taker, SecondAlone, ThirdTakesOver, ThirdAlone, SecondTakesOver
<1>7. CoverInv'
  BY <1>1, <1>3, <1>6, WriteToLatest DEF ReadPlain, RotationInv
<1>8. OpenInv' /\ EndInv'
  BY <1>1, <1>3 DEF RotationInv, OpenInv, EndInv, Chunks, Early
<1>9. StageInv'
  <2>1. CASE SecondAlone(k)
    <3>1. mChunkTimer' # 282 * k - 141
      BY <1>1, <1>5, <2>1, ThirdStarts DEF SecondAlone
    <3>2. SecondAlone(k)'
      BY <1>1, <1>3, <2>1, <3>1 DEF SecondAlone, Early, Rounds
    <3> QED BY <3>2 DEF StageInv
  <2>2. CASE ThirdTakesOver(k)
    <3>1. mChunkTimer' # 302 * k - 151
      <4>1. k = 8 => mChunkTimer' # 302 * k - 151
        BY <1>1 DEF Early
      <4>2. k \in 1..7 => mChunkTimer' # 302 * k - 151
        BY <1>1, <1>4, SecondEnds
      <4> QED BY <4>1, <4>2 DEF Rounds
    <3>2. ThirdTakesOver(k)'
      BY <1>1, <1>3, <2>2, <3>1 DEF ThirdTakesOver, Early, Rounds
    <3> QED BY <3>2 DEF StageInv
  <2>3. CASE ThirdAlone(k)
    <3>1. mChunkTimer' # 281 * k
      <4>1. k = 8 => mChunkTimer' # 281 * k
        BY <1>1 DEF Early
      <4>2. k \in 1..7 => mChunkTimer' # 281 * k
        BY <1>1, <1>5, <2>3, SecondStarts DEF ThirdAlone
      <4> QED BY <4>1, <4>2 DEF Rounds
    <3>2. ThirdAlone(k)'
      BY <1>1, <1>3, <2>3, <3>1 DEF ThirdAlone, Early, Rounds
    <3> QED BY <3>2 DEF StageInv
  <2>4. CASE SecondTakesOver(k)
    <3>1. mChunkTimer' # 291 * k
      <4>1. k = 8 => mChunkTimer' # 291 * k
        BY <1>1 DEF Early
      <4>2. k \in 1..7 => mChunkTimer' # 291 * k
        BY <1>1, <1>4, ThirdEnds
      <4> QED BY <4>1, <4>2 DEF Rounds
    <3>2. SecondTakesOver(k)'
      BY <1>1, <1>3, <2>4, <3>1 DEF SecondTakesOver, Early, Rounds
    <3> QED BY <3>2 DEF StageInv
  <2> QED BY <1>2, <2>1, <2>2, <2>3, <2>4
<1> QED BY <1>7, <1>8, <1>9

\* mEncoder3 takes over at an odd multiple of 141.
LEMMA StartThirdRound ==
    ASSUME ShortReads, RotationInv, NEW d \in Strides, StartThird(d),
           mChunkTimer' < 2248
    PROVE  StageInv' /\ OpenInv' /\ CoverInv' /\ EndInv'
<1>1. /\ mChunkTimer \in Early /\ mChunkTimer' \in Early
      /\ mChunkTimer' \in {mChunkTimer, mChunkTimer + 1}
      /\ phase = "recording" /\ mChunkTimer' \in Ticks
  BY ShortTick, TickTypes DEF StartThird, RotationInv
<1>2. PICK j \in Rounds : mChunkTimer' = 282 * j - 141
  BY <1>1, ThirdStarts DEF StartThird
<1>3. PICK k \in Rounds : SecondAlone(k) \/ SecondTakesOver(k)
  BY <1>1 DEF RotationInv, StageInv, Early, StartThird, ThirdTakesOver,
              ThirdAlone
<1>4. SecondAlone(k) /\ j = k /\ mChunkTimer' = mChunkTimer + 1
  BY <1>1, <1>2, <1>3 DEF SecondAlone, SecondTakesOver, Early, Rounds
<1>5. ThirdTakesOver(k)'
  BY <1>2, <1>4 DEF SecondAlone, ThirdTakesOver, StartThird, Rounds
<1>6. StageInv'
  BY <1>5 DEF StageInv
<1>7. CoverInv'
  BY <1>1, <1>4, WriteToNew DEF StartThird, RotationInv
<1>8. mChunk \in Nat /\ mChunk' = mChunk + 1 /\ Chunks' = Chunks \union {mChunk'}
  BY DEF StartThird, RotationInv, TypeOK, Chunks
<1>9. open = {mChunk} /\ open' = {mChunk, mChunk'}
  BY <1>1, <1>4, <1>8
     DEF StartThird, RotationInv, OpenInv, SecondAlone, Early, None
<1>10. open' = {mEncoder2', mEncoder3'} \ {None}
  BY <1>4, <1>8, <1>9 DEF StartThird, SecondAlone, None
<1>11. announced' = Chunks' \ open'
  <2>1. announced = Chunks \ open /\ announced' = announced
    BY <1>1 DEF StartThird, RotationInv, OpenInv, Early
  <2> QED BY <1>8, <1>9, <2>1 DEF Chunks
<1> QED BY <1>6, <1>7, <1>10, <1>11 DEF StartThird, Tick, OpenInv, EndInv

\* mEncoder2 takes over at a multiple of 281.
LEMMA StartSecondRound ==
    ASSUME ShortReads, RotationInv, NEW d \in Strides, StartSecond(d),
           mChunkTimer' < 2248
    PROVE  StageInv' /\ OpenInv' /\ CoverInv' /\ EndInv'
<1>1. /\ mChunkTimer \in Early /\ mChunkTimer' \in Early
      /\ mChunkTimer' \in {mChunkTimer, mChunkTimer + 1}
      /\ phase = "recording" /\ mChunkTimer' \in Ticks
  BY ShortTick, TickTypes DEF StartSecond, RotationInv
<1>2. PICK j \in 1..7 : mChunkTimer' = 281 * j
  BY <1>1, SecondStarts DEF StartSecond
<1>3. PICK k \in Rounds : ThirdTakesOver(k) \/ ThirdAlone(k)
  BY <1>1 DEF RotationInv, StageInv, Early, StartSecond, SecondAlone,
              SecondTakesOver
<1>4. ThirdAlone(k) /\ j = k /\ mChunkTimer' = mChunkTimer + 1
  BY <1>1, <1>2, <1>3 DEF ThirdTakesOver, ThirdAlone, Early, Rounds
<1>5. SecondTakesOver(k)'
  BY <1>2, <1>4 DEF ThirdAlone, SecondTakesOver, StartSecond, Rounds
<1>6. StageInv'
  BY <1>5 DEF StageInv
<1>7. CoverInv'
  BY <1>1, <1>4, WriteToNew DEF StartSecond, RotationInv
<1>8. mChunk \in Nat /\ mChunk' = mChunk + 1 /\ Chunks' = Chunks \union {mChunk'}
  BY DEF StartSecond, RotationInv, TypeOK, Chunks
<1>9. open = {mChunk} /\ open' = {mChunk, mChunk'}
  BY <1>1, <1>4, <1>8
     DEF StartSecond, RotationInv, OpenInv, ThirdAlone, Early, None
<1>10. open' = {mEncoder2', mEncoder3'} \ {None}
  BY <1>4, <1>8, <1>9 DEF StartSecond, ThirdAlone, None
<1>11. announced' = Chunks' \ open'
  <2>1. announced = Chunks \ open /\ announced' = announced
    BY <1>1 DEF StartSecond, RotationInv, OpenInv, Early
  <2> QED BY <1>8, <1>9, <2>1 DEF Chunks
<1> QED BY <1>6, <1>7, <1>10, <1>11 DEF StartSecond, Tick, OpenInv, EndInv

\* mEncoder2's chunk is closed at an odd multiple of 151, once.
LEMMA EndSecondRound ==
    ASSUME ShortReads, RotationInv, NEW d \in Strides, EndSecond(d),
           mChunkTimer' < 2248
    PROVE  StageInv' /\ OpenInv' /\ CoverInv' /\ EndInv'
<1>1. /\ mChunkTimer \in Early /\ mChunkTimer' \in Early
      /\ mChunkTimer' \in {mChunkTimer, mChunkTimer + 1}
      /\ phase = "recording" /\ mChunkTimer' \in Ticks
  BY ShortTick, TickTypes DEF EndSecond, RotationInv
<1>2. PICK j \in 1..7 : mChunkTimer' = 302 * j - 151
  BY <1>1, SecondEnds DEF EndSecond
<1>3. PICK k \in Rounds : \/ SecondAlone(k) \/ ThirdTakesOver(k)
                          \/ ThirdAlone(k) \/ SecondTakesOver(k)
  BY <1>1 DEF RotationInv, StageInv, Early
<1>4. /\ ThirdTakesOver(k) \/ ThirdAlone(k)
      /\ j = k /\ mChunkTimer' < 281 * k
  BY <1>1, <1>2, <1>3
     DEF SecondAlone, ThirdTakesOver, ThirdAlone, SecondTakesOver, Early, Rounds
<1>5. mEncHandler = 2 /\ mEncoder3 = mChunk /\ mChunk = 2 * k - 1
  BY <1>4 DEF ThirdTakesOver, ThirdAlone
<1>6. ThirdAlone(k)'
  BY <1>2, <1>4, <1>5 DEF EndSecond, ThirdAlone, Rounds
<1>7. StageInv'
  BY <1>6 DEF StageInv
<1>8. CoverInv'
  BY <1>1, <1>5, WriteToLatest DEF EndSecond, RotationInv, Taker
<1>9. mChunk \in Nat \ {0} /\ mChunk' = mChunk /\ Chunks' = Chunks
  BY <1>5 DEF EndSecond, RotationInv, TypeOK, Chunks, Rounds
<1>10. open = {mEncoder2, mEncoder3} \ {None} /\ announced = Chunks \ open
  BY <1>1 DEF RotationInv, OpenInv, Early
<1>11. mEncoder2 \in {None, mChunk - 1}
  BY <1>4 DEF ThirdTakesOver, ThirdAlone
<1>12. open' = {mChunk}
  BY <1>5, <1>9, <1>10, <1>11 DEF EndSecond, None
<1>13. open' = {mEncoder2', mEncoder3'} \ {None}
  BY <1>5, <1>9, <1>12 DEF EndSecond, None
<1>14. announced' = Chunks' \ open'
  <2>1. open \subseteq {mChunk - 1, mChunk} /\ mChunk \in open
    BY <1>5, <1>9, <1>10, <1>11 DEF None
  <2>2. announced' = announced \union {mChunk - 1}
    BY DEF EndSecond
  <2> QED BY <1>9, <1>10, <1>12, <2>1, <2>2 DEF Chunks
<1> QED BY <1>7, <1>8, <1>13, <1>14 DEF EndSecond, Tick, OpenInv, EndInv

\* mEncoder3's chunk is closed at a multiple of 291, once.
LEMMA EndThirdRound ==
    ASSUME ShortReads, RotationInv, NEW d \in Strides, EndThird(d),
           mChunkTimer' < 2248
    PROVE  StageInv' /\ OpenInv' /\ CoverInv' /\ EndInv'
<1>1. /\ mChunkTimer \in Early /\ mChunkTimer' \in Early
      /\ mChunkTimer' \in {mChunkTimer, mChunkTimer + 1}
      /\ phase = "recording" /\ mChunkTimer' \in Ticks
  BY ShortTick, TickTypes DEF EndThird, RotationInv
<1>2. PICK j \in 1..7 : mChunkTimer' = 291 * j
  BY <1>1, ThirdEnds DEF EndThird
<1>3. PICK k \in Rounds : \/ SecondAlone(k) \/ ThirdTakesOver(k)
                          \/ ThirdAlone(k) \/ SecondTakesOver(k)
  BY <1>1 DEF RotationInv, StageInv, Early
<1>4. \/ SecondTakesOver(k) /\ j = k
      \/ SecondAlone(k) /\ j = k - 1
  BY <1>1, <1>2, <1>3
     DEF SecondAlone, ThirdTakesOver, ThirdAlone, SecondTakesOver, Early, Rounds
<1>5. mEncHandler = 1 /\ mEncoder2 = mChunk /\ mChunk = 2 * j
  BY <1>4 DEF SecondTakesOver, SecondAlone, Rounds
<1>6. SecondAlone(j + 1)'
  BY <1>2, <1>5 DEF EndThird, SecondAlone
<1>7. StageInv'
  BY <1>6 DEF StageInv, Rounds
<1>8. CoverInv'
  BY <1>1, <1>5, WriteToLatest DEF EndThird, RotationInv, Taker
<1>9. mChunk \in Nat \ {0} /\ mChunk' = mChunk /\ Chunks' = Chunks
  BY <1>5 DEF EndThird, RotationInv, TypeOK, Chunks
<1>10. open = {mEncoder2, mEncoder3} \ {None} /\ announced = Chunks \ open
  BY <1>1 DEF RotationInv, OpenInv, Early
<1>11. mEncoder3 \in {None, mChunk - 1}
  BY <1>4 DEF SecondTakesOver, SecondAlone
<1>12. open' = {mChunk}
  BY <1>5, <1>9, <1>10, <1>11 DEF EndThird, None
<1>13. open' = {mEncoder2', mEncoder3'} \ {None}
  BY <1>5, <1>9, <1>12 DEF EndThird, None
<1>14. announced' = Chunks' \ open'
  <2>1. open \subseteq {mChunk - 1, mChunk} /\ mChunk \in open
    BY <1>5, <1>9, <1>10, <1>11 DEF None
  <2>2. announced' = announced \union {mChunk - 1}
    BY DEF EndThird
  <2> QED BY <1>9, <1>10, <1>12, <2>1, <2>2 DEF Chunks
<1> QED BY <1>7, <1>8, <1>13, <1>14 DEF EndThird, Tick, OpenInv, EndInv

LEMMA NextRotation == ShortReads /\ RotationInv /\ [Next]_vars => RotationInv'
<1> SUFFICES ASSUME ShortReads, RotationInv, [Next]_vars
             PROVE  RotationInv'
  OBVIOUS
<1>1. TypeOK'
  BY NextTypes DEF RotationInv
<1>2. CASE mChunkTimer' >= 2248
  <2>1. ~(mChunkTimer' < 2248)
    BY <1>1, <1>2, RotationAssumption DEF TypeOK, Ticks
  <2> QED BY <1>1, <2>1 DEF RotationInv, StageInv, OpenInv, CoverInv, EndInv
<1>3. CASE mChunkTimer' < 2248
  <2> SUFFICES StageInv' /\ OpenInv' /\ CoverInv' /\ EndInv'
    BY <1>1 DEF RotationInv
  <2>1. ASSUME NEW d \in Strides, Refuse(d)
        PROVE  StageInv' /\ OpenInv' /\ CoverInv' /\ EndInv'
    <3>1. phase' = "failed" /\ mChunkTimer < 2248
      BY <1>3, <2>1, ShortTick DEF Refuse, RotationInv, Early
    <3>2. announced' \subseteq Chunks' \ open'
      <4>1. announced \subseteq Chunks \ open /\ Chunks \subseteq Chunks'
        BY <2>1, <3>1 DEF RotationInv, EndInv, Refuse, TypeOK, Chunks
      <4> QED BY <2>1, <4>1 DEF Refuse
    <3> QED BY <3>1, <3>2 DEF StageInv, OpenInv, CoverInv, EndInv
  <2>2. CASE Stop
    <3>1. phase = "recording" /\ phase' = "released" /\ mChunkTimer < 2248
      BY <1>3, <2>2 DEF Stop
    <3>2. open' = {}
      BY <2>2, <3>1 DEF Stop, RotationInv, OpenInv
    <3>3. announced' \subseteq Chunks'
      BY <2>2, <3>1 DEF Stop, RotationInv, EndInv, Chunks
    <3>4. StageInv' /\ OpenInv' /\ CoverInv'
      BY <3>1 DEF StageInv, OpenInv, CoverInv
    <3>5. EndInv'
      BY <3>2, <3>3 DEF EndInv
    <3> QED BY <3>4, <3>5
  <2>3. CASE UNCHANGED vars
    <3>1. UNCHANGED <<phase, mChunkTimer, mEncHandler, mEncoder2, mEncoder3,
                      mChunk, open, announced, from, to>>
      BY <2>3 DEF vars, encoders, spans
    <3>2. StageInv'
      BY <3>1 DEF RotationInv, StageInv, SecondAlone, ThirdTakesOver,
                  ThirdAlone, SecondTakesOver
    <3>3. OpenInv' /\ EndInv'
      BY <3>1 DEF RotationInv, OpenInv, EndInv, Chunks
    <3>4. CoverInv'
      BY <3>1 DEF RotationInv, CoverInv, Chunks
    <3> QED BY <3>2, <3>3, <3>4
  <2>4. ASSUME NEW d \in Strides,
               \/ ReadPlain(d) \/ StartThird(d) \/ EndSecond(d)
               \/ StartSecond(d) \/ EndThird(d)
        PROVE  StageInv' /\ OpenInv' /\ CoverInv' /\ EndInv'
    <3>1. CASE ReadPlain(d)
      BY <1>3, <3>1, PlainRound
    <3>2. CASE StartThird(d)
      BY <1>3, <3>2, StartThirdRound
    <3>3. CASE EndSecond(d)
      BY <1>3, <3>3, EndSecondRound
    <3>4. CASE StartSecond(d)
      BY <1>3, <3>4, StartSecondRound
    <3>5. CASE EndThird(d)
      BY <1>3, <3>5, EndThirdRound
    <3> QED BY <2>4, <3>1, <3>2, <3>3, <3>4, <3>5
  <2> QED BY <2>1, <2>2, <2>3, <2>4 DEF Next
<1>4. mChunkTimer' >= 2248 \/ mChunkTimer' < 2248
  BY <1>1, RotationAssumption DEF TypeOK, Ticks
<1> QED BY <1>2, <1>3, <1>4

-----------------------------------------------------------------------------
(***************************************************************************)
(* Theorems.                                                               *)
(***************************************************************************)

\* When no read covers more than a tenth of a second, the encoders go through
\* the same four stages in every round, until the schedule overtakes itself
\* (FLACRecorder.java:370-445).
THEOREM RotationInvariance == ASSUME ShortReads PROVE Spec => []RotationInv
<1>1. RotationInv /\ [Next]_vars => RotationInv'
  BY NextRotation
<1> QED BY <1>1, InitRotation, PTL DEF Spec

\* An encoder variable is not overwritten while its chunk is open, and nothing
\* is left open at the end, in a recording of any length up to that tick
\* (FLACRecorder.java:379, 417, 474-482).
THEOREM EncodersAreReleased == ASSUME ShortReads PROVE Spec => []NoEncoderLost
<1>1. RotationInv => NoEncoderLost
  <2> SUFFICES ASSUME RotationInv, OnSchedule, phase # "failed"
               PROVE  open \subseteq {mEncoder2, mEncoder3}
    BY DEF NoEncoderLost
  <2>1. mChunkTimer < 2248
    BY CrossingTick DEF OnSchedule
  <2>2. CASE phase = "recording"
    BY <2>1, <2>2 DEF RotationInv, OpenInv
  <2>3. CASE phase = "released"
    BY <2>1, <2>3 DEF RotationInv, EndInv
  <2> QED BY <2>2, <2>3 DEF RotationInv, TypeOK
<1> QED BY <1>1, RotationInvariance, PTL

\* A chunk is announced when its file is complete, neither before nor never
\* (FLACRecorder.java:385-403, 423-436).
THEOREM AnnouncedInTime == ASSUME ShortReads PROVE Spec => []AnnouncedOnceClosed
<1>1. RotationInv => AnnouncedOnceClosed
  <2>1. OnSchedule => mChunkTimer < 2248
    BY CrossingTick DEF OnSchedule
  <2> QED BY <2>1 DEF RotationInv, EndInv, OpenInv, AnnouncedOnceClosed
<1> QED BY <1>1, RotationInvariance, PTL

\* No stretch of the recording is missing from the chunks, and none is in two
\* (FLACRecorder.java:453-456).
THEOREM ChunksAreSeamless == ASSUME ShortReads PROVE Spec => []ChunksCoverRecording
<1>1. RotationInv => ChunksCoverRecording
  <2>1. OnSchedule => mChunkTimer < 2248
    BY CrossingTick DEF OnSchedule
  <2> QED BY <2>1 DEF RotationInv, CoverInv, ChunksCoverRecording
<1> QED BY <1>1, RotationInvariance, PTL

-----------------------------------------------------------------------------
(***************************************************************************)
(* The order of the announcements, which module Transcription takes for    *)
(* granted.                                                                *)
(***************************************************************************)

\* The first n chunks have been announced, ...
InTurn(n) == announced = 0..(n - 1)

\* ... which are all but the one or two at work, unless another was refused.
TurnInv ==
    mChunkTimer < 2248 =>
        \E n \in Nat : InTurn(n) /\ (phase # "failed" => n \in {mChunk, mChunk - 1})

\* A switch announces the next chunk, or the latest once more.
AnnouncesNext ==
    \A d \in Strides : EndSecond(d) \/ EndThird(d) =>
        \E n \in Nat : InTurn(n) /\ mChunk - 1 \in {n, n - 1} \intersect Nat

\* What is left of the chunks without the last one or two.
LEMMA FirstOnes ==
    ASSUME NEW m \in Nat
    PROVE  /\ (0..m) \ {m} = 0..(m - 1)
           /\ m # 0 => (0..m) \ {m, m - 1} = 0..((m - 1) - 1)
<1>1. (0..m) \ {m} = 0..(m - 1)
  OBVIOUS
<1>2. m # 0 => (0..m) \ {m, m - 1} = 0..((m - 1) - 1)
  OBVIOUS
<1> QED BY <1>1, <1>2

\* While recording, the stage tells how many have been announced.
LEMMA StageTurn ==
    RotationInv /\ phase = "recording" /\ mChunkTimer < 2248
       => \E n \in Nat : InTurn(n) /\ n \in {mChunk, mChunk - 1}
<1> SUFFICES ASSUME RotationInv, phase = "recording", mChunkTimer < 2248
             PROVE  \E n \in Nat : InTurn(n) /\ n \in {mChunk, mChunk - 1}
  OBVIOUS
<1>1. PICK k \in Rounds : \/ SecondAlone(k) \/ ThirdTakesOver(k)
                          \/ ThirdAlone(k) \/ SecondTakesOver(k)
  BY DEF RotationInv, StageInv
<1>2. announced = (0..mChunk) \ ({mEncoder2, mEncoder3} \ {None})
  BY DEF RotationInv, OpenInv, Chunks
<1>3. mChunk \in Nat
  BY DEF RotationInv, TypeOK
<1>4. CASE SecondAlone(k) \/ ThirdAlone(k)
  <2>1. announced = (0..mChunk) \ {mChunk}
    BY <1>2, <1>3, <1>4 DEF SecondAlone, ThirdAlone, None
  <2>2. InTurn(mChunk)
    BY <1>3, <2>1, FirstOnes DEF InTurn
  <2> QED BY <1>3, <2>2
<1>5. CASE ThirdTakesOver(k) \/ SecondTakesOver(k)
  <2>1. mChunk # 0 /\ announced = (0..mChunk) \ {mChunk, mChunk - 1}
    BY <1>2, <1>5 DEF ThirdTakesOver, SecondTakesOver, Rounds, None
  <2>2. announced = 0..((mChunk - 1) - 1)
    BY <1>3, <2>1, FirstOnes
  <2>3. InTurn(mChunk - 1) /\ mChunk - 1 \in Nat
    BY <1>3, <2>1, <2>2 DEF InTurn
  <2> QED BY <2>3
<1> QED BY <1>1, <1>4, <1>5

LEMMA InitTurn == Init => TurnInv
<1> SUFFICES ASSUME Init PROVE TurnInv
  OBVIOUS
<1>1. InTurn(0) /\ mChunk = 0
  BY DEF Init, InTurn
<1> QED BY <1>1 DEF TurnInv

LEMMA NextTurn ==
    ShortReads /\ RotationInv /\ RotationInv' /\ TurnInv /\ [Next]_vars => TurnInv'
<1>0. (RotationInv /\ phase = "recording" /\ mChunkTimer < 2248
         => \E n \in Nat : InTurn(n) /\ n \in {mChunk, mChunk - 1})'
  BY StageTurn, PTL
<1> SUFFICES ASSUME ShortReads, RotationInv, RotationInv', TurnInv, [Next]_vars,
                    mChunkTimer' < 2248
             PROVE  TurnInv'
  BY DEF TurnInv
<1>1. CASE phase' = "recording"
  BY <1>0, <1>1 DEF TurnInv
<1>2. CASE Stop
  BY <1>2 DEF Stop, TurnInv, InTurn
<1>3. ASSUME NEW d \in Strides, Refuse(d)
      PROVE  TurnInv'
  <2>1. mChunkTimer < 2248
    BY <1>3, ShortTick DEF Refuse, RotationInv, Early
  <2> QED BY <1>3, <2>1 DEF Refuse, TurnInv, InTurn
<1>4. CASE UNCHANGED vars
  BY <1>4 DEF vars, encoders, TurnInv, InTurn
<1> QED BY <1>1, <1>2, <1>3, <1>4
        DEF Next, ReadPlain, StartThird, EndSecond, StartSecond, EndThird, Tick

LEMMA AnnounceTurn ==
    ASSUME ShortReads, RotationInv, mChunkTimer' < 2248
    PROVE  AnnouncesNext
<1> SUFFICES ASSUME NEW d \in Strides, EndSecond(d) \/ EndThird(d)
             PROVE  \E n \in Nat :
                       InTurn(n) /\ mChunk - 1 \in {n, n - 1} \intersect Nat
  BY DEF AnnouncesNext
<1>1. /\ mChunkTimer \in Early /\ mChunkTimer' \in Early
      /\ mChunkTimer' \in {mChunkTimer, mChunkTimer + 1}
      /\ phase = "recording"
  BY ShortTick DEF EndSecond, EndThird, RotationInv
<1>2. PICK n \in Nat : InTurn(n) /\ n \in {mChunk, mChunk - 1}
  BY <1>1, StageTurn DEF RotationInv, Early
<1>3. mChunk # 0
  <2> SUFFICES ASSUME mChunk = 0 PROVE FALSE
    OBVIOUS
  <2>1. mChunkTimer < 141
    BY <1>1 DEF RotationInv, StageInv, Early, Rounds, SecondAlone,
                ThirdTakesOver, ThirdAlone, SecondTakesOver
  <2>2. ASSUME NEW j \in 1..7, mChunkTimer' = 302 * j - 151 \/ mChunkTimer' = 291 * j
        PROVE  FALSE
    BY <1>1, <2>1, <2>2 DEF Early
  <2> QED BY <1>1, <2>2, SecondEnds, ThirdEnds DEF EndSecond, EndThird
<1>4. mChunk \in Nat
  BY DEF RotationInv, TypeOK
<1>5. mChunk - 1 \in {n, n - 1} \intersect Nat
  BY <1>2, <1>3, <1>4
<1> QED BY <1>2, <1>5

\* Chunks are announced in the order of their numbers and none is passed over:
\* whenever the recording ends, those announced are the first ones, all but
\* the last one or two, and what is announced is the next chunk or the latest
\* once more (FLACRecorder.java:385-403, 423-436).
THEOREM AnnouncedInTurn ==
    ASSUME ShortReads
    PROVE  Spec =>
             /\ [](OnSchedule =>
                     \E n \in Nat : /\ InTurn(n)
                                    /\ phase # "failed" => n \in {mChunk, mChunk - 1})
             /\ [][OnSchedule' => AnnouncesNext]_vars
<1>1. RotationInv /\ [Next]_vars => RotationInv'
  BY NextRotation
<1>2. RotationInv /\ RotationInv' /\ TurnInv /\ [Next]_vars => TurnInv'
  BY NextTurn
<1>3. TurnInv => (OnSchedule =>
                     \E n \in Nat : /\ InTurn(n)
                                    /\ phase # "failed" => n \in {mChunk, mChunk - 1})
  BY CrossingTick DEF TurnInv, OnSchedule
<1>4. RotationInv => [OnSchedule' => AnnouncesNext]_vars
  <2>1. OnSchedule' => mChunkTimer' < 2248
    BY CrossingTick DEF OnSchedule, FirstCrossing
  <2> QED BY <2>1, AnnounceTurn
<1> QED BY <1>1, <1>2, <1>3, <1>4, InitRotation, InitTurn, PTL DEF Spec
=============================================================================
