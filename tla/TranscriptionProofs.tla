------------------------- MODULE TranscriptionProofs -------------------------
(***************************************************************************)
(* Proofs about Transcription, for any number of recordings, announcements *)
(* and message objects: the keywords of a file are filed under one row,    *)
(* its first, and those that come in time under their own recording; the   *)
(* handlers take the announcements in turn, and each has few steps to go.  *)
(***************************************************************************)
EXTENDS Transcription, SequenceTheorems, FiniteSetTheorems,
        WellFoundedInduction, TLAPS

\* What is announced or answered belongs to a recording that has begun.
BegunInv ==
    mShortFileName = 0 => calls = <<>> /\ archives = <<>> /\ ~RECORDING

\* A recording's chunks are numbered no faster than they are announced.
ChunksInv == \A n \in 1..Len(calls) : calls[n].chunk < n

\* Each recording has a row, and its name contains itself.
RowsInv ==
    \A r \in 1..mShortFileName :
        r \in matches[r] /\ \E i \in 1..Len(archives) : archives[i] = r

\* The row that holds a keyword is the first of its file.
FirstRowInv ==
    \A row \in archiveKeywords : \A i \in 1..Len(archives) :
        archives[i] = archives[row.archive] => row.archive <= i

TranscriptionInv == TypeOK /\ BegunInv /\ ChunksInv /\ RowsInv /\ FirstRowInv

-----------------------------------------------------------------------------
(***************************************************************************)
(* The least and the greatest of a set of numbers.                         *)
(***************************************************************************)

LEMMA LeastOf ==
    ASSUME NEW S, S \subseteq Nat, S # {}
    PROVE  Min(S) \in S /\ \A y \in S : Min(S) <= y
<1> DEFINE R == OpToRel(<, Nat)
<1>1. IsWellFoundedOn(R, Nat)
  BY NatLessThanWellFounded
<1> HIDE DEF R
<1>2. PICK x \in S : \A y \in S : ~(<<y, x>> \in R)
  BY <1>1, WFMin
<1>3. \A y \in S : ~(y < x)
  BY <1>2 DEF R, OpToRel
<1>4. \A y \in S : x <= y
  BY <1>3
<1> QED
  BY <1>4 DEF Min

LEMMA GreatestOf ==
    ASSUME NEW N \in Nat, NEW S, S \subseteq 0..N, S # {}
    PROVE  Max(S) \in S /\ \A y \in S : Max(S) >= y
<1> DEFINE T == {N - y : y \in S}
<1>1. T \subseteq Nat /\ T # {}
  <2>1. \A y \in S : N - y \in Nat
    OBVIOUS
  <2> QED
    BY <2>1
<1>2. Min(T) \in T /\ \A z \in T : Min(T) <= z
  BY <1>1, LeastOf
<1>3. PICK x \in S : Min(T) = N - x
  BY <1>2
<1>4. \A y \in S : N - x <= N - y
  BY <1>2, <1>3
<1>5. \A y \in S : x >= y
  BY <1>4
<1> QED
  BY <1>5 DEF Max

\* The row looked up is the first of those that match.
LEMMA RowFound ==
    ASSUME TranscriptionInv, mShortFileName # 0
    PROVE  /\ FindByFileName(mShortFileName) \in 1..Len(archives)
           /\ archives[FindByFileName(mShortFileName)] \in matches[mShortFileName]
           /\ \A i \in 1..Len(archives) :
                 archives[i] \in matches[mShortFileName] =>
                     FindByFileName(mShortFileName) <= i
<1> DEFINE S == {i \in 1..Len(archives) : archives[i] \in matches[mShortFileName]}
<1>1. Len(archives) \in Nat /\ mShortFileName \in 1..mShortFileName
  BY LenProperties DEF TranscriptionInv, TypeOK
<1>2. S \subseteq Nat /\ S # {}
  BY <1>1 DEF TranscriptionInv, RowsInv
<1>3. Min(S) \in S /\ \A y \in S : Min(S) <= y
  BY <1>2, LeastOf
<1> QED
  BY <1>3 DEF FindByFileName

-----------------------------------------------------------------------------
(***************************************************************************)
(* What the actions have in common.                                        *)
(***************************************************************************)

\* A row is added at the end of the archive table.
LEMMA RowAdded ==
    ASSUME TranscriptionInv, NEW r \in Recordings, archives' = Append(archives, r),
           UNCHANGED tables
    PROVE  /\ archives' \in Seq(Recordings) /\ archives' # <<>>
           /\ Len(archives') = Len(archives) + 1 /\ Len(archives) \in Nat
           /\ \A i \in 1..Len(archives) : archives'[i] = archives[i]
           /\ archives'[Len(archives) + 1] = r
           /\ archiveKeywords' \subseteq
                 [archive : 1..Len(archives'), chunk : 0..MaxCalls,
                  keyword : keywords', of : Recordings]
           /\ FirstRowInv'
<1>1. archives \in Seq(Recordings)
  BY DEF TranscriptionInv, TypeOK
<1>2. /\ archives' \in Seq(Recordings) /\ archives' # <<>>
      /\ Len(archives') = Len(archives) + 1
      /\ \A i \in 1..Len(archives) : archives'[i] = archives[i]
      /\ archives'[Len(archives) + 1] = r
  BY <1>1, AppendProperties
<1>3. Len(archives) \in Nat
  BY <1>1, LenProperties
<1>4. \A row \in archiveKeywords :
         /\ row \in [archive : 1..Len(archives), chunk : 0..MaxCalls,
                     keyword : keywords, of : Recordings]
         /\ row.archive \in 1..Len(archives) /\ row.archive \in 1..Len(archives')
  BY <1>2, <1>3 DEF TranscriptionInv, TypeOK
<1>5. archiveKeywords' \subseteq
         [archive : 1..Len(archives'), chunk : 0..MaxCalls,
          keyword : keywords', of : Recordings]
  BY <1>4 DEF tables
<1>6. ASSUME NEW row \in archiveKeywords, NEW i \in 1..(Len(archives) + 1),
             archives'[i] = archives'[row.archive]
      PROVE  row.archive <= i
  <2>1. CASE i \in 1..Len(archives)
    BY <1>2, <1>4, <1>6, <2>1 DEF TranscriptionInv, FirstRowInv
  <2>2. CASE i = Len(archives) + 1
    BY <1>3, <1>4, <2>2
  <2> QED
    BY <1>3, <2>1, <2>2
<1>7. FirstRowInv'
  BY <1>2, <1>6 DEF FirstRowInv, tables
<1> QED
  BY <1>2, <1>3, <1>5, <1>7

\* A call comes to its next stage.
LEMMA CallMoved ==
    ASSUME TranscriptionInv, NEW n \in 1..Len(calls), NEW stage \in Stages,
           Move(n, stage)
    PROVE  /\ calls' \in Seq(Call) /\ Len(calls') = Len(calls)
           /\ ChunksInv' /\ mShortFileName # 0
           /\ calls[n] \in Call
<1> DEFINE call == [calls[n] EXCEPT !.stage = stage]
<1>1. calls \in Seq(Call)
  BY DEF TranscriptionInv, TypeOK
<1>2. calls[n] \in Call
  BY <1>1, ElementOfSeq
<1>3. call \in Call /\ call.chunk = calls[n].chunk
  BY <1>2 DEF Call
<1>4. calls' = [calls EXCEPT ![n] = call]
  BY DEF Move
<1> HIDE DEF call
<1>5. /\ calls' \in Seq(Call) /\ Len(calls') = Len(calls)
      /\ \A j \in 1..Len(calls) : calls'[j] = IF j = n THEN call ELSE calls[j]
  BY <1>1, <1>3, <1>4, ExceptSeq
<1>6. \A j \in 1..Len(calls) : calls'[j].chunk = calls[j].chunk
  BY <1>3, <1>5
<1>7. ChunksInv'
  BY <1>5, <1>6 DEF TranscriptionInv, ChunksInv
<1>8. mShortFileName # 0
  <2>1. Len(calls) # 0
    BY <1>1, LenProperties
  <2> QED
    BY <2>1, <1>1, EmptySeq DEF TranscriptionInv, BegunInv
<1> QED
  BY <1>2, <1>5, <1>7, <1>8

\* A call of a stage that is handled in order.
LEMMA FirstOfStage ==
    ASSUME TranscriptionInv, NEW stage, At(stage) # {}
    PROVE  Min(At(stage)) \in 1..Len(calls)
<1>1. At(stage) \subseteq Nat
  BY LenProperties DEF At
<1> QED
  BY <1>1, LeastOf DEF At

\* A message leaves the pool, or comes back.
LEMMA OneObject ==
    ASSUME NEW obj \in Objects
    PROVE  {obj} \subseteq Objects /\ Cardinality({obj}) <= 1
  BY FS_Singleton

-----------------------------------------------------------------------------
(***************************************************************************)
(* The actions.                                                            *)
(***************************************************************************)

LEMMA TranscriptionInitInv == Init => TranscriptionInv
<1> SUFFICES ASSUME Init PROVE TranscriptionInv
  OBVIOUS
<1>1. /\ <<>> \in Seq(Recordings) /\ <<>> \in Seq(Call) /\ Len(<<>>) = 0
      /\ Cardinality({}) = 0
  BY EmptySeq, FS_EmptySet
<1>2. MaxRecordings \in Nat /\ MaxCalls \in Nat
  BY TranscriptionAssumption
<1>3. 0 \in 0..MaxRecordings /\ Len(<<>>) <= MaxCalls
  BY <1>1, <1>2
<1>4. TypeOK
  <2>1. matches \in [Recordings -> SUBSET Recordings] /\ 0 \in 0..2
    BY DEF Init
  <2>2. RECORDING \in BOOLEAN
    BY DEF Init
  <2>3. archiveKeywords \subseteq
           [archive : 1..Len(archives), chunk : 0..MaxCalls,
            keyword : keywords, of : Recordings]
    BY DEF Init
  <2> QED
    BY <1>1, <1>3, <2>1, <2>2, <2>3 DEF Init, TypeOK
<1>5. BegunInv /\ ChunksInv /\ RowsInv /\ FirstRowInv
  BY <1>1 DEF Init, BegunInv, ChunksInv, RowsInv, FirstRowInv
<1> QED
  BY <1>4, <1>5 DEF TranscriptionInv

LEMMA StartRecordingStep ==
    ASSUME TranscriptionInv, StartRecording
    PROVE  TranscriptionInv'
<1> DEFINE m == mShortFileName + 1
<1>1. /\ mShortFileName \in 0..MaxRecordings /\ mShortFileName < MaxRecordings
      /\ mShortFileName' = m /\ archives' = Append(archives, m)
      /\ UNCHANGED <<calls, lastMessage, keywordNaN, tables>> /\ RECORDING' = TRUE
  BY DEF StartRecording, TranscriptionInv, TypeOK
<1>2. PICK earlier \in SUBSET (1..mShortFileName) :
         matches' = [matches EXCEPT ![m] = earlier \union {m}]
  BY <1>1 DEF StartRecording
<1>3. /\ MaxRecordings \in Nat /\ m \in 1..MaxRecordings /\ m \in Recordings
      /\ m # 0 /\ m \in 0..MaxRecordings
  BY <1>1, TranscriptionAssumption DEF Recordings
<1>4. earlier \union {m} \subseteq Recordings
  BY <1>1, <1>2, <1>3 DEF Recordings
<1>5. matches \in [Recordings -> SUBSET Recordings]
  BY DEF TranscriptionInv, TypeOK
<1>6. /\ matches' \in [Recordings -> SUBSET Recordings] /\ m \in matches'[m]
      /\ \A r \in Recordings \ {m} : matches'[r] = matches[r]
  BY <1>2, <1>3, <1>4, <1>5
<1>7. /\ archives' \in Seq(Recordings)
      /\ Len(archives') = Len(archives) + 1 /\ Len(archives) \in Nat
      /\ \A i \in 1..Len(archives) : archives'[i] = archives[i]
      /\ archives'[Len(archives) + 1] = m
      /\ archiveKeywords' \subseteq
            [archive : 1..Len(archives'), chunk : 0..MaxCalls,
             keyword : keywords', of : Recordings]
      /\ FirstRowInv'
  BY <1>1, <1>3, RowAdded
<1>8. RowsInv'
  <2>1. ASSUME NEW r \in 1..m
        PROVE  r \in matches'[r] /\ \E i \in 1..Len(archives') : archives'[i] = r
    <3>1. CASE r = m
      BY <1>6, <1>7, <3>1
    <3>2. CASE r # m
      <4>1. r \in 1..mShortFileName /\ r \in Recordings \ {m}
        BY <1>1, <1>3, <3>2 DEF Recordings
      <4>2. PICK i \in 1..Len(archives) : archives[i] = r
        BY <4>1 DEF TranscriptionInv, RowsInv
      <4>3. i \in 1..Len(archives') /\ archives'[i] = r
        BY <1>7, <4>2
      <4>4. r \in matches'[r]
        BY <1>6, <4>1 DEF TranscriptionInv, RowsInv
      <4> QED
        BY <4>3, <4>4
    <3> QED
      BY <3>1, <3>2
  <2> QED
    BY <1>1, <2>1 DEF RowsInv
<1>9. TypeOK'
  BY <1>1, <1>3, <1>6, <1>7 DEF TranscriptionInv, TypeOK, tables
<1>10. BegunInv' /\ ChunksInv'
  BY <1>1, <1>3 DEF TranscriptionInv, BegunInv, ChunksInv
<1> QED
  BY <1>7, <1>8, <1>9, <1>10 DEF TranscriptionInv

\* What stopping does to the recordings and their rows.
LEMMA StopRecordingEffect ==
    ASSUME TranscriptionInv, StopRecording, mShortFileName # 0, UNCHANGED tables
    PROVE  /\ RECORDING' = FALSE /\ keywordNaN' = 0
           /\ UNCHANGED <<mShortFileName, matches>>
           /\ archives' \in Seq(Recordings)
           /\ archiveKeywords' \subseteq
                 [archive : 1..Len(archives'), chunk : 0..MaxCalls,
                  keyword : keywords', of : Recordings]
           /\ RowsInv' /\ FirstRowInv'
<1>1. mShortFileName \in Recordings
  BY TranscriptionAssumption DEF TranscriptionInv, TypeOK, Recordings
<1>2. /\ archives' \in Seq(Recordings)
      /\ Len(archives') = Len(archives) + 1 /\ Len(archives) \in Nat
      /\ \A i \in 1..Len(archives) : archives'[i] = archives[i]
      /\ archiveKeywords' \subseteq
            [archive : 1..Len(archives'), chunk : 0..MaxCalls,
             keyword : keywords', of : Recordings]
      /\ FirstRowInv'
  BY <1>1, RowAdded DEF StopRecording
<1>3. \A r \in 1..mShortFileName :
         r \in matches[r] /\ \E i \in 1..Len(archives') : archives'[i] = r
  <2>1. \A i \in 1..Len(archives) : i \in 1..Len(archives')
    BY <1>2
  <2> QED
    BY <1>2, <2>1 DEF TranscriptionInv, RowsInv
<1>4. RowsInv'
  BY <1>3 DEF RowsInv, StopRecording
<1> QED
  BY <1>2, <1>4 DEF StopRecording

LEMMA ClickStopStep ==
    ASSUME TranscriptionInv, ClickStop
    PROVE  TranscriptionInv'
<1>1. mShortFileName # 0
  BY DEF ClickStop, TranscriptionInv, BegunInv
<1>2. UNCHANGED <<calls, lastMessage, tables>> /\ StopRecording
  BY DEF ClickStop
<1>3. /\ RECORDING' = FALSE /\ keywordNaN' = 0
      /\ UNCHANGED <<mShortFileName, matches>>
      /\ archives' \in Seq(Recordings)
      /\ archiveKeywords' \subseteq
            [archive : 1..Len(archives'), chunk : 0..MaxCalls,
             keyword : keywords', of : Recordings]
      /\ RowsInv' /\ FirstRowInv'
  BY <1>1, <1>2, StopRecordingEffect DEF tables
<1>4. TypeOK'
  <2>1. RECORDING' \in BOOLEAN
    BY <1>3
  <2>2. keywordNaN' \in 0..2
    BY <1>3
  <2> QED
    BY <1>2, <1>3, <2>1, <2>2 DEF TranscriptionInv, TypeOK, tables
<1>5. BegunInv' /\ ChunksInv'
  BY <1>1, <1>2, <1>3 DEF TranscriptionInv, BegunInv, ChunksInv
<1> QED
  BY <1>3, <1>4, <1>5 DEF TranscriptionInv

LEMMA AnnounceStep ==
    ASSUME TranscriptionInv, Announce
    PROVE  TranscriptionInv'
<1> DEFINE own == {calls[n].chunk :
                      n \in {k \in 1..Len(calls) : calls[k].of = mShortFileName}}
           N == Len(calls)
<1>1. /\ RECORDING /\ N < MaxCalls /\ N \in Nat /\ MaxCalls \in Nat
      /\ calls \in Seq(Call) /\ mShortFileName \in 0..MaxRecordings
      /\ UNCHANGED <<recorderVars, lastMessage, keywordNaN, tables>>
  BY LenProperties, TranscriptionAssumption DEF Announce, TranscriptionInv, TypeOK
<1>2. mShortFileName # 0 /\ mShortFileName \in Recordings
  BY <1>1, TranscriptionAssumption DEF TranscriptionInv, BegunInv, Recordings
<1>3. PICK chunk \in IF own = {} THEN {0} ELSE {Max(own), Max(own) + 1}, obj \in Objects :
         calls' = Append(calls, [of |-> mShortFileName, chunk |-> chunk,
                                 obj |-> obj, stage |-> "internal"])
  BY DEF Announce
<1>4. chunk \in 0..N
  <2>1. CASE own = {}
    BY <1>1, <1>3, <2>1
  <2>2. CASE own # {}
    <3>1. \A n \in 1..N : calls[n] \in Call /\ calls[n].chunk \in Nat /\ calls[n].chunk < n
      <4>1. \A n \in 1..N : calls[n] \in Call
        BY <1>1, ElementOfSeq
      <4>2. \A n \in 1..N : calls[n].chunk \in 0..MaxCalls
        BY <4>1 DEF Call
      <4> QED
        BY <1>1, <4>1, <4>2 DEF TranscriptionInv, ChunksInv
    <3>2. N - 1 \in Nat
      BY <1>1, <2>2
    <3>3. own \subseteq 0..(N - 1)
      BY <1>1, <3>1
    <3> HIDE DEF own
    <3>4. Max(own) \in 0..(N - 1)
      BY <2>2, <3>2, <3>3, GreatestOf
    <3> QED
      BY <1>1, <1>3, <2>2, <3>4
  <2> QED
    BY <2>1, <2>2
<1> DEFINE call == [of |-> mShortFileName, chunk |-> chunk, obj |-> obj,
                    stage |-> "internal"]
<1>5. call \in Call /\ call.chunk = chunk
  BY <1>1, <1>2, <1>4 DEF Call, Stages
<1> HIDE DEF call
<1>6. calls' = Append(calls, call)
  BY <1>3 DEF call
<1>7. /\ calls' \in Seq(Call) /\ Len(calls') = N + 1
      /\ \A n \in 1..N : calls'[n] = calls[n]
      /\ calls'[N + 1] = call
  BY <1>1, <1>5, <1>6, AppendProperties
<1>8. Len(calls') <= MaxCalls
  BY <1>1, <1>7
<1>9. TypeOK'
  BY <1>1, <1>7, <1>8 DEF TranscriptionInv, TypeOK, recorderVars, tables
<1>10. ChunksInv'
  <2>1. ASSUME NEW n \in 1..(N + 1)
        PROVE  calls'[n].chunk < n
    <3>1. CASE n = N + 1
      BY <1>1, <1>4, <1>5, <1>7, <3>1
    <3>2. CASE n \in 1..N
      BY <1>7, <3>2 DEF TranscriptionInv, ChunksInv
    <3> QED
      BY <1>1, <3>1, <3>2
  <2> QED
    BY <1>7, <2>1 DEF ChunksInv
<1>11. BegunInv' /\ RowsInv' /\ FirstRowInv'
  BY <1>1, <1>2 DEF TranscriptionInv, BegunInv, RowsInv, FirstRowInv, recorderVars, tables
<1> QED
  BY <1>9, <1>10, <1>11 DEF TranscriptionInv

LEMMA HandlersStep ==
    ASSUME TranscriptionInv, InternalHandler \/ TranscriptionHandler
    PROVE  TranscriptionInv'
<1>1. /\ \E n \in 1..Len(calls), stage \in Stages : Move(n, stage)
      /\ lastMessage' \subseteq Objects /\ Cardinality(lastMessage') <= 1
  <2>1. CASE InternalHandler
    <3> DEFINE n == Min(At("internal"))
    <3>1. n \in 1..Len(calls)
      BY <2>1, FirstOfStage DEF InternalHandler
    <3>2. calls[n] \in Call
      BY <3>1, ElementOfSeq DEF TranscriptionInv, TypeOK
    <3>3. lastMessage' = {calls[n].obj} /\ calls[n].obj \in Objects
      BY <2>1, <3>2 DEF InternalHandler, Call
    <3>4. Move(n, IF calls[n].obj \in lastMessage THEN "dropped" ELSE "transcription")
      BY <2>1 DEF InternalHandler
    <3>5. (IF calls[n].obj \in lastMessage THEN "dropped" ELSE "transcription") \in Stages
      BY DEF Stages
    <3> HIDE DEF n
    <3> QED
      BY <3>1, <3>3, <3>4, <3>5, OneObject
  <2>2. CASE TranscriptionHandler
    <3>1. Min(At("transcription")) \in 1..Len(calls)
      BY <2>2, FirstOfStage DEF TranscriptionHandler
    <3> QED
      BY <2>2, <3>1 DEF TranscriptionHandler, Stages, TranscriptionInv, TypeOK
  <2> QED
    BY <2>1, <2>2
<1>2. PICK n \in 1..Len(calls), stage \in Stages : Move(n, stage)
  BY <1>1
<1>3. calls' \in Seq(Call) /\ Len(calls') = Len(calls) /\ ChunksInv' /\ mShortFileName # 0
  BY <1>2, CallMoved
<1>4. UNCHANGED <<recorderVars, keywordNaN, tables>>
  BY DEF InternalHandler, TranscriptionHandler
<1>5. TypeOK'
  BY <1>1, <1>3, <1>4 DEF TranscriptionInv, TypeOK, recorderVars, tables
<1>6. BegunInv' /\ RowsInv' /\ FirstRowInv'
  BY <1>3, <1>4 DEF TranscriptionInv, BegunInv, RowsInv, FirstRowInv, recorderVars, tables
<1> QED
  BY <1>3, <1>5, <1>6 DEF TranscriptionInv

\* An answer that leaves the tables alone, and stops the recording or not.
LEMMA AnswerStep ==
    ASSUME TranscriptionInv, NEW n \in 1..Len(calls),
           Recognized(n) \/ TaggedEmpty(n) \/ TaggingFailed(n)
    PROVE  TranscriptionInv'
<1>1. \E stage \in Stages : Move(n, stage)
  BY DEF Recognized, TaggedEmpty, TaggingFailed, Stages
<1>2. calls' \in Seq(Call) /\ Len(calls') = Len(calls) /\ ChunksInv' /\ mShortFileName # 0
  BY <1>1, CallMoved
<1>3. UNCHANGED <<lastMessage, tables>>
  BY DEF Recognized, TaggedEmpty, TaggingFailed
<1>4. CASE UNCHANGED recorderVars /\ keywordNaN' \in 0..2
  <2>1. TypeOK'
    BY <1>2, <1>3, <1>4 DEF TranscriptionInv, TypeOK, recorderVars, tables
  <2>2. BegunInv' /\ RowsInv' /\ FirstRowInv'
    BY <1>2, <1>3, <1>4
       DEF TranscriptionInv, BegunInv, RowsInv, FirstRowInv, recorderVars, tables
  <2> QED
    BY <1>2, <2>1, <2>2 DEF TranscriptionInv
<1>5. CASE StopRecording
  <2>1. /\ RECORDING' = FALSE /\ keywordNaN' = 0
        /\ UNCHANGED <<mShortFileName, matches>>
        /\ archives' \in Seq(Recordings)
        /\ archiveKeywords' \subseteq
              [archive : 1..Len(archives'), chunk : 0..MaxCalls,
               keyword : keywords', of : Recordings]
        /\ RowsInv' /\ FirstRowInv'
    BY <1>2, <1>3, <1>5, StopRecordingEffect DEF tables
  <2>2. TypeOK'
    <3>1. RECORDING' \in BOOLEAN
      BY <2>1
    <3>2. keywordNaN' \in 0..2
      BY <2>1
    <3> QED
      BY <1>2, <1>3, <2>1, <3>1, <3>2 DEF TranscriptionInv, TypeOK, tables
  <2>3. BegunInv'
    BY <1>2, <2>1 DEF BegunInv
  <2> QED
    BY <1>2, <2>1, <2>2, <2>3 DEF TranscriptionInv
<1>6. (UNCHANGED recorderVars /\ keywordNaN' \in 0..2) \/ StopRecording
  <2>1. keywordNaN \in 0..2
    BY DEF TranscriptionInv, TypeOK
  <2>2. CASE Recognized(n) \/ TaggingFailed(n)
    BY <2>1, <2>2 DEF Recognized, TaggingFailed
  <2>3. CASE TaggedEmpty(n)
    BY <2>1, <2>3 DEF TaggedEmpty
  <2> QED
    BY <2>2, <2>3
<1> QED
  BY <1>4, <1>5, <1>6

\* A keyword is filed under the first row of its file.
LEMMA KeywordsStep ==
    ASSUME TranscriptionInv, NEW n \in 1..Len(calls), TaggedWithKeywords(n)
    PROVE  TranscriptionInv'
<1> DEFINE found == FindByFileName(mShortFileName)
<1>1. Move(n, "answered") /\ UNCHANGED <<recorderVars, lastMessage, keywordNaN>>
  BY DEF TaggedWithKeywords
<1>2. /\ calls' \in Seq(Call) /\ Len(calls') = Len(calls) /\ ChunksInv'
      /\ mShortFileName # 0 /\ calls[n] \in Call
  BY <1>1, CallMoved DEF Stages
<1>3. /\ found \in 1..Len(archives) /\ archives[found] \in matches[mShortFileName]
      /\ \A i \in 1..Len(archives) :
            archives[i] \in matches[mShortFileName] => found <= i
  BY <1>2, RowFound
<1> HIDE DEF found
<1>4. PICK first \in Words, others \in SUBSET Words :
         /\ keywords' = keywords \union {first} \union others
         /\ archiveKeywords' \subseteq
               archiveKeywords \union {[archive |-> found, chunk |-> calls[n].chunk,
                                       keyword |-> first, of |-> calls[n].of]}
  BY DEF TaggedWithKeywords, found
<1> DEFINE row == [archive |-> found, chunk |-> calls[n].chunk,
                   keyword |-> first, of |-> calls[n].of]
<1>5. keywords' \subseteq Words /\ keywords \subseteq keywords' /\ first \in keywords'
  BY <1>4 DEF TranscriptionInv, TypeOK
<1>6. row \in [archive : 1..Len(archives), chunk : 0..MaxCalls,
              keyword : keywords', of : Recordings]
  BY <1>2, <1>3, <1>5 DEF Call
<1>7. archiveKeywords \subseteq [archive : 1..Len(archives), chunk : 0..MaxCalls,
                                keyword : keywords', of : Recordings]
  BY <1>5 DEF TranscriptionInv, TypeOK
<1>8. archiveKeywords' \subseteq [archive : 1..Len(archives), chunk : 0..MaxCalls,
                                 keyword : keywords', of : Recordings]
  BY <1>4, <1>6, <1>7
<1>9. row.archive = found
  OBVIOUS
<1> HIDE DEF row
<1>10. archives' = archives
  BY <1>1 DEF recorderVars
<1>11. TypeOK'
  BY <1>1, <1>2, <1>5, <1>8, <1>10 DEF TranscriptionInv, TypeOK, recorderVars
<1>12. FirstRowInv'
  <2>1. \A i \in 1..Len(archives) : archives[i] = archives[found] => found <= i
    BY <1>3
  <2>2. archiveKeywords' \subseteq archiveKeywords \union {row}
    BY <1>4 DEF row
  <2> QED
    BY <1>9, <1>10, <2>1, <2>2 DEF TranscriptionInv, FirstRowInv
<1>13. BegunInv' /\ RowsInv'
  BY <1>1, <1>2 DEF BegunInv, TranscriptionInv, RowsInv, recorderVars
<1> QED
  BY <1>2, <1>11, <1>12, <1>13 DEF TranscriptionInv

LEMMA TranscriptionNextInv == TranscriptionInv /\ [Next]_vars => TranscriptionInv'
<1> SUFFICES ASSUME TranscriptionInv, [Next]_vars PROVE TranscriptionInv'
  OBVIOUS
<1>1. CASE Next
  BY <1>1, StartRecordingStep, ClickStopStep, AnnounceStep, HandlersStep, AnswerStep,
     KeywordsStep DEF Next, Answer
<1>2. CASE UNCHANGED vars
  BY <1>2 DEF vars, recorderVars, tables, TranscriptionInv, TypeOK, BegunInv, ChunksInv,
              RowsInv, FirstRowInv
<1> QED
  BY <1>1, <1>2

-----------------------------------------------------------------------------
(***************************************************************************)
(* The theorems.                                                           *)
(***************************************************************************)

\* The inductive invariant of the pipeline holds throughout.
THEOREM TranscriptionInvariance == Spec => []TranscriptionInv
  BY TranscriptionInitInv, TranscriptionNextInv, PTL DEF Spec

\* The tables refer to rows, recordings and keywords that exist
\* (MainActivity.java:352-425).
THEOREM TablesAreWellTyped == Spec => []TypeOK
<1>1. TranscriptionInv => TypeOK
  BY DEF TranscriptionInv
<1> QED
  BY <1>1, TranscriptionInvariance, PTL

\* However many rows a file gets, its keywords are filed under one, as long as
\* rows are only added (Archive.java:151-155).
THEOREM FiledUnderOneArchive == Spec => []OneArchivePerFile
<1>1. ASSUME TranscriptionInv, NEW row1 \in archiveKeywords, NEW row2 \in archiveKeywords,
             archives[row1.archive] = archives[row2.archive]
      PROVE  row1.archive = row2.archive
  <2>1. row1.archive \in 1..Len(archives) /\ row2.archive \in 1..Len(archives)
    BY <1>1 DEF TranscriptionInv, TypeOK
  <2>2. row1.archive <= row2.archive /\ row2.archive <= row1.archive
    BY <1>1, <2>1 DEF TranscriptionInv, FirstRowInv
  <2> QED
    BY <2>1, <2>2
<1>2. TranscriptionInv => OneArchivePerFile
  BY <1>1 DEF OneArchivePerFile
<1> QED
  BY <1>2, TranscriptionInvariance, PTL

\* A keyword that comes in time is filed under its own recording, if no other
\* file's name contains the recording's; and no step removes one
\* (MainActivity.java:386-399).
THEOREM FiledInTime == Spec => FiledUnderOwnRecording
<1> DEFINE Filed ==
       /\ archiveKeywords \subseteq archiveKeywords'
       /\ \A row \in archiveKeywords' \ archiveKeywords :
             row.of = mShortFileName /\ matches[row.of] = {row.of} =>
                 archives'[row.archive] = row.of
<1>1. ASSUME TranscriptionInv, NEW n \in 1..Len(calls), TaggedWithKeywords(n)
      PROVE  Filed
  <2> DEFINE found == FindByFileName(mShortFileName)
  <2>1. Move(n, "answered") /\ archives' = archives
    BY <1>1 DEF TaggedWithKeywords, recorderVars
  <2>2. mShortFileName # 0
    BY <1>1, <2>1, CallMoved DEF Stages
  <2>3. archives[found] \in matches[mShortFileName]
    BY <1>1, <2>2, RowFound
  <2> HIDE DEF found
  <2>4. PICK first \in Words :
           LET row == [archive |-> found, chunk |-> calls[n].chunk,
                       keyword |-> first, of |-> calls[n].of]
           IN  \/ archiveKeywords' = archiveKeywords \union {row}
               \/ archiveKeywords' = archiveKeywords
    <3>1. \A S : S \union {} = S
      OBVIOUS
    <3> QED
      BY <1>1, <3>1 DEF TaggedWithKeywords, found
  <2>5. archiveKeywords \subseteq archiveKeywords'
    BY <2>4
  <2>6. \A row \in archiveKeywords' \ archiveKeywords : row.archive = found
    BY <2>4
  <2> QED
    BY <2>1, <2>3, <2>5, <2>6
<1>2. ASSUME UNCHANGED archiveKeywords PROVE Filed
  BY <1>2
<1>3. TranscriptionInv /\ [Next]_vars => [Filed]_vars
  <2> SUFFICES ASSUME TranscriptionInv, Next PROVE Filed
    OBVIOUS
  <2>1. CASE StartRecording \/ ClickStop \/ Announce \/ InternalHandler
             \/ TranscriptionHandler
    BY <1>2, <2>1 DEF StartRecording, ClickStop, Announce, InternalHandler,
                      TranscriptionHandler, tables
  <2>2. ASSUME NEW n \in 1..Len(calls),
               Recognized(n) \/ TaggedEmpty(n) \/ TaggingFailed(n)
        PROVE  Filed
    BY <1>2, <2>2 DEF Recognized, TaggedEmpty, TaggingFailed, tables
  <2> QED
    BY <1>1, <2>1, <2>2 DEF Next, Answer
<1> HIDE DEF Filed
<1>4. Spec => [][Filed]_vars
  BY <1>3, TranscriptionInvariance, PTL DEF Spec
<1> QED
  BY <1>4 DEF FiledUnderOwnRecording, Filed

-----------------------------------------------------------------------------
(***************************************************************************)
(* How an announcement is answered: the two handlers take the calls as     *)
(* they were announced, and each call has four steps at most to go.        *)
(***************************************************************************)

\* A call that both handlers have passed on.
PassedOn == {"recognizing", "tagging", "failed", "answered"}

\* The steps a call has to go.
StepsLeft == [internal |-> 4, transcription |-> 3, recognizing |-> 2,
              tagging |-> 1, dropped |-> 0, failed |-> 0, answered |-> 0]

\* Recorder's handler has handled the first h calls.
Handled(h) ==
    /\ \A n \in 1..Len(calls) : calls[n].stage = "internal" <=> n > h
    /\ lastMessage = IF h = 0 THEN {} ELSE {calls[h].obj}

RepeatsInv ==
    \A n \in 1..Len(calls) :
        calls[n].stage = "dropped" => n > 1 /\ calls[n].obj = calls[n - 1].obj

PassedInv ==
    \A n \in 1..Len(calls) :
        calls[n].stage \in PassedOn => \A m \in 1..n : calls[m].stage # "transcription"

HandlersInv ==
    (\E h \in 0..Len(calls) : Handled(h)) /\ RepeatsInv /\ PassedInv

\* What becomes of the calls in a step.
CallsAdvance ==
    \A n \in 1..Len(calls) :
        /\ n <= Len(calls')
        /\ calls'[n].of = calls[n].of /\ calls'[n].chunk = calls[n].chunk
        /\ \/ calls'[n] = calls[n]
           \/ StepsLeft[calls'[n].stage] < StepsLeft[calls[n].stage]

LEMMA StagesAre ==
    ASSUME NEW stage \in Stages
    PROVE  /\ StepsLeft[stage] \in 0..4
           /\ stage = "internal" <=> StepsLeft[stage] = 4
           /\ stage = "transcription" <=> StepsLeft[stage] = 3
           /\ stage = "recognizing" <=> StepsLeft[stage] = 2
           /\ stage = "tagging" <=> StepsLeft[stage] = 1
           /\ StepsLeft[stage] = 0 =>
                 stage = "dropped" \/ stage \in {"answered", "failed"}
  BY DEF Stages, StepsLeft

LEMMA LeastInStage ==
    ASSUME TranscriptionInv, NEW stage, At(stage) # {}
    PROVE  /\ Min(At(stage)) \in At(stage)
           /\ \A m \in At(stage) : Min(At(stage)) <= m
<1>1. At(stage) \subseteq Nat
  BY LenProperties DEF At
<1> QED
  BY <1>1, LeastOf

LEMMA StageMoved ==
    ASSUME TranscriptionInv, NEW n \in 1..Len(calls), NEW stage \in Stages,
           Move(n, stage)
    PROVE  /\ Len(calls) \in Nat /\ Len(calls') = Len(calls)
           /\ \A m \in 1..Len(calls) :
                 /\ calls[m].stage \in Stages
                 /\ m # n => calls'[m] = calls[m]
                 /\ calls'[m].obj = calls[m].obj
                 /\ calls'[m].of = calls[m].of
                 /\ calls'[m].chunk = calls[m].chunk
           /\ calls'[n].stage = stage
<1> DEFINE call == [calls[n] EXCEPT !.stage = stage]
<1>1. calls \in Seq(Call) /\ Len(calls) \in Nat
  BY LenProperties DEF TranscriptionInv, TypeOK
<1>2. \A m \in 1..Len(calls) : calls[m] \in Call
  BY <1>1, ElementOfSeq
<1>3. /\ call \in Call /\ call.stage = stage /\ call.obj = calls[n].obj
      /\ call.of = calls[n].of /\ call.chunk = calls[n].chunk
  BY <1>2 DEF Call
<1>4. calls' = [calls EXCEPT ![n] = call]
  BY DEF Move
<1>5. \A m \in 1..Len(calls) : calls[m].stage \in Stages
  BY <1>2 DEF Call
<1> HIDE DEF call
<1>6. /\ Len(calls') = Len(calls)
      /\ \A m \in 1..Len(calls) : calls'[m] = IF m = n THEN call ELSE calls[m]
  BY <1>1, <1>3, <1>4, ExceptSeq
<1> QED
  BY <1>1, <1>3, <1>5, <1>6

LEMMA HandlersInitInv == Init => HandlersInv
<1> SUFFICES ASSUME Init PROVE HandlersInv
  OBVIOUS
<1>1. calls = <<>> /\ lastMessage = {}
  BY DEF Init
<1>2. Len(calls) = 0
  BY <1>1, EmptySeq
<1>3. Handled(0) /\ RepeatsInv /\ PassedInv
  BY <1>1, <1>2 DEF Handled, RepeatsInv, PassedInv
<1>4. 0 \in 0..Len(calls)
  BY <1>2
<1> QED
  BY <1>3, <1>4 DEF HandlersInv

\* Past Recorder's handler, a call overtakes none that waits for the other.
LEMMA OnwardStep ==
    ASSUME TranscriptionInv, HandlersInv, NEW n \in 1..Len(calls),
           NEW stage \in PassedOn, Move(n, stage), UNCHANGED lastMessage,
           calls[n].stage # "internal",
           \A m \in 1..n : m # n => calls[m].stage # "transcription"
    PROVE  HandlersInv'
<1>1. stage \in Stages /\ stage \notin {"internal", "dropped", "transcription"}
  BY DEF PassedOn, Stages
<1>2. /\ Len(calls) \in Nat /\ Len(calls') = Len(calls)
      /\ \A m \in 1..Len(calls) : m # n => calls'[m] = calls[m]
      /\ \A m \in 1..Len(calls) : calls'[m].obj = calls[m].obj
      /\ calls'[n].stage = stage
  BY <1>1, StageMoved
<1>3. PICK h \in 0..Len(calls) : Handled(h)
  BY DEF HandlersInv
<1>4. Handled(h)'
  <2>1. \A m \in 1..Len(calls) : calls'[m].stage = "internal" <=> m > h
    <3> TAKE m \in 1..Len(calls)
    <3>1. calls[m].stage = "internal" <=> m > h
      BY <1>3 DEF Handled
    <3>2. calls'[m].stage = "internal" <=> calls[m].stage = "internal"
      BY <1>1, <1>2
    <3> QED
      BY <3>1, <3>2
  <2>2. h # 0 => h \in 1..Len(calls)
    BY <1>2
  <2>3. lastMessage' = IF h = 0 THEN {} ELSE {calls'[h].obj}
    BY <1>2, <1>3, <2>2 DEF Handled
  <2> QED
    BY <1>2, <2>1, <2>3 DEF Handled
<1>5. RepeatsInv'
  <2> SUFFICES ASSUME NEW m \in 1..Len(calls), calls'[m].stage = "dropped"
               PROVE  m > 1 /\ calls'[m].obj = calls'[m - 1].obj
    BY <1>2 DEF RepeatsInv
  <2>1. calls[m].stage = "dropped"
    BY <1>1, <1>2
  <2>2. m > 1 /\ calls[m].obj = calls[m - 1].obj
    BY <2>1 DEF HandlersInv, RepeatsInv
  <2>3. m - 1 \in 1..Len(calls)
    BY <1>2, <2>2
  <2> QED
    BY <1>2, <2>2, <2>3
<1>6. PassedInv'
  <2> SUFFICES ASSUME NEW k \in 1..Len(calls), calls'[k].stage \in PassedOn,
                      NEW m \in 1..k
               PROVE  calls'[m].stage # "transcription"
    BY <1>2 DEF PassedInv
  <2>1. m \in 1..Len(calls)
    BY <1>2
  <2>2. CASE m = n
    BY <1>1, <1>2, <2>2
  <2>3. CASE m # n /\ k = n
    BY <1>2, <2>1, <2>3
  <2>4. CASE m # n /\ k # n
    BY <1>2, <2>1, <2>4 DEF HandlersInv, PassedInv
  <2> QED
    BY <2>2, <2>3, <2>4
<1> QED
  BY <1>2, <1>4, <1>5, <1>6 DEF HandlersInv

LEMMA InternalStep ==
    ASSUME TranscriptionInv, HandlersInv, InternalHandler
    PROVE  HandlersInv'
<1>1. PICK n, stage :
         /\ n = Min(At("internal")) /\ Move(n, stage)
         /\ stage = IF calls[n].obj \in lastMessage THEN "dropped" ELSE "transcription"
         /\ lastMessage' = {calls[n].obj}
  BY DEF InternalHandler
<1>2. n \in At("internal") /\ \A m \in At("internal") : n <= m
  BY <1>1, LeastInStage DEF InternalHandler
<1>3. n \in 1..Len(calls) /\ calls[n].stage = "internal"
  BY <1>2 DEF At
<1>4. \A m \in 1..Len(calls) : calls[m].stage = "internal" => n <= m
  BY <1>2 DEF At
<1>5. Move(n, stage) /\ lastMessage' = {calls[n].obj}
  BY <1>1
<1>6. stage \in Stages /\ stage \in {"dropped", "transcription"}
  BY <1>1 DEF Stages
<1>7. stage = "dropped" => calls[n].obj \in lastMessage
  BY <1>1
<1>8. /\ Len(calls) \in Nat /\ Len(calls') = Len(calls)
      /\ \A m \in 1..Len(calls) : m # n => calls'[m] = calls[m]
      /\ \A m \in 1..Len(calls) : calls'[m].obj = calls[m].obj
      /\ calls'[n].stage = stage
  BY <1>3, <1>5, <1>6, StageMoved
<1>9. PICK h \in 0..Len(calls) : Handled(h)
  BY DEF HandlersInv
<1>10. n = h + 1
  <2>1. n > h
    BY <1>3, <1>9 DEF Handled
  <2>2. h + 1 \in 1..Len(calls)
    BY <1>3, <1>8, <2>1
  <2>3. calls[h + 1].stage = "internal"
    BY <1>9, <2>2 DEF Handled
  <2> QED
    BY <1>3, <1>4, <1>8, <2>1, <2>2, <2>3
<1>11. Handled(n)'
  <2>1. \A m \in 1..Len(calls) : calls'[m].stage = "internal" <=> m > n
    <3> TAKE m \in 1..Len(calls)
    <3>1. calls[m].stage = "internal" <=> m > h
      BY <1>9 DEF Handled
    <3>2. CASE m = n
      BY <1>3, <1>6, <1>8, <3>2
    <3>3. CASE m # n
      <4>1. m > h <=> m > n
        BY <1>3, <1>8, <1>10, <3>3
      <4> QED
        BY <1>8, <3>1, <3>3, <4>1
    <3> QED
      BY <3>2, <3>3
  <2>2. n # 0
    BY <1>3
  <2>3. lastMessage' = {calls'[n].obj}
    BY <1>3, <1>5, <1>8
  <2> QED
    BY <1>8, <2>1, <2>2, <2>3 DEF Handled
<1>12. RepeatsInv'
  <2> SUFFICES ASSUME NEW m \in 1..Len(calls), calls'[m].stage = "dropped"
               PROVE  m > 1 /\ calls'[m].obj = calls'[m - 1].obj
    BY <1>8 DEF RepeatsInv
  <2>1. m > 1 /\ calls[m].obj = calls[m - 1].obj
    <3>1. CASE m # n
      BY <1>8, <3>1 DEF HandlersInv, RepeatsInv
    <3>2. CASE m = n
      <4>1. calls[n].obj \in lastMessage
        BY <1>7, <1>8, <3>2
      <4>2. h # 0 /\ calls[n].obj = calls[h].obj
        BY <1>9, <4>1 DEF Handled
      <4> QED
        BY <1>8, <1>10, <3>2, <4>2
    <3> QED
      BY <3>1, <3>2
  <2>2. m - 1 \in 1..Len(calls)
    BY <1>8, <2>1
  <2> QED
    BY <1>8, <2>1, <2>2
<1>13. PassedInv'
  <2> SUFFICES ASSUME NEW k \in 1..Len(calls), calls'[k].stage \in PassedOn,
                      NEW m \in 1..k
               PROVE  calls'[m].stage # "transcription"
    BY <1>8 DEF PassedInv
  <2>1. k # n /\ calls[k].stage \in PassedOn
    BY <1>6, <1>8 DEF PassedOn
  <2>2. calls[k].stage # "internal"
    BY <2>1 DEF PassedOn
  <2>3. k <= h
    BY <1>8, <1>9, <2>2 DEF Handled
  <2>4. m # n /\ m \in 1..Len(calls)
    BY <1>8, <1>10, <2>3
  <2> QED
    BY <1>8, <2>1, <2>4 DEF HandlersInv, PassedInv
<1> QED
  BY <1>3, <1>8, <1>11, <1>12, <1>13 DEF HandlersInv

LEMMA CallAdded ==
    ASSUME TranscriptionInv, Announce
    PROVE  /\ Len(calls) \in Nat /\ Len(calls') = Len(calls) + 1
           /\ \A m \in 1..Len(calls) : calls'[m] = calls[m]
           /\ calls'[Len(calls) + 1].stage = "internal"
<1>1. PICK call : calls' = Append(calls, call) /\ call.stage = "internal"
  BY DEF Announce
<1>2. calls \in Seq(Call)
  BY DEF TranscriptionInv, TypeOK
<1>3. calls \in Seq(Call \union {call})
  BY <1>2
<1> QED
  BY <1>1, <1>3, AppendProperties, LenProperties

LEMMA AnnounceInTurn ==
    ASSUME TranscriptionInv, HandlersInv, Announce
    PROVE  HandlersInv'
<1>1. Len(calls) \in Nat
  BY CallAdded
<1>2. calls'[Len(calls) + 1].stage = "internal"
  BY CallAdded
<1>3. /\ Len(calls') = Len(calls) + 1
      /\ \A m \in 1..Len(calls) : calls'[m] = calls[m]
  BY CallAdded
<1>4. lastMessage' = lastMessage
  BY DEF Announce
<1>5. PICK h \in 0..Len(calls) : Handled(h)
  BY DEF HandlersInv
<1>6. \A m \in 1..Len(calls') : m \in 1..Len(calls) \/ m = Len(calls) + 1
  BY <1>1, <1>3
<1>7. Handled(h)'
  <2>1. \A m \in 1..Len(calls') : calls'[m].stage = "internal" <=> m > h
    <3> TAKE m \in 1..Len(calls')
    <3>1. CASE m \in 1..Len(calls)
      BY <1>3, <1>5, <3>1 DEF Handled
    <3>2. CASE m = Len(calls) + 1
      BY <1>1, <1>2, <1>3, <3>2
    <3> QED
      BY <1>6, <3>1, <3>2
  <2>2. h # 0 => h \in 1..Len(calls)
    BY <1>1
  <2>3. lastMessage' = IF h = 0 THEN {} ELSE {calls'[h].obj}
    BY <1>3, <1>4, <1>5, <2>2 DEF Handled
  <2> QED
    BY <2>1, <2>3 DEF Handled
<1>8. RepeatsInv'
  <2> SUFFICES ASSUME NEW m \in 1..Len(calls'), calls'[m].stage = "dropped"
               PROVE  m > 1 /\ calls'[m].obj = calls'[m - 1].obj
    BY DEF RepeatsInv
  <2>1. m \in 1..Len(calls)
    BY <1>2, <1>3, <1>6
  <2>2. m > 1 /\ calls[m].obj = calls[m - 1].obj
    BY <1>3, <2>1 DEF HandlersInv, RepeatsInv
  <2>3. m - 1 \in 1..Len(calls)
    BY <1>1, <2>1, <2>2
  <2> QED
    BY <1>3, <2>1, <2>2, <2>3
<1>9. PassedInv'
  <2> SUFFICES ASSUME NEW k \in 1..Len(calls'), calls'[k].stage \in PassedOn,
                      NEW m \in 1..k
               PROVE  calls'[m].stage # "transcription"
    BY DEF PassedInv
  <2>1. k \in 1..Len(calls)
    BY <1>2, <1>3, <1>6 DEF PassedOn
  <2>2. m \in 1..Len(calls)
    BY <1>1, <2>1
  <2> QED
    BY <1>3, <2>1, <2>2 DEF HandlersInv, PassedInv
<1>10. h \in 0..Len(calls')
  BY <1>1, <1>3
<1> QED
  BY <1>7, <1>8, <1>9, <1>10 DEF HandlersInv

LEMMA HandlersNextInv ==
    TranscriptionInv /\ HandlersInv /\ [Next]_vars => HandlersInv'
<1> SUFFICES ASSUME TranscriptionInv, HandlersInv, [Next]_vars PROVE HandlersInv'
  OBVIOUS
<1>1. ASSUME UNCHANGED <<calls, lastMessage>> PROVE HandlersInv'
  BY <1>1 DEF HandlersInv, Handled, RepeatsInv, PassedInv
<1>2. CASE StartRecording \/ ClickStop \/ UNCHANGED vars
  BY <1>1, <1>2 DEF StartRecording, ClickStop, vars
<1>3. CASE TranscriptionHandler
  <2> DEFINE n == Min(At("transcription"))
  <2>1. n \in At("transcription") /\ \A m \in At("transcription") : n <= m
    BY <1>3, LeastInStage DEF TranscriptionHandler
  <2>2. Move(n, "recognizing") /\ lastMessage' = lastMessage
    BY <1>3 DEF TranscriptionHandler
  <2> HIDE DEF n
  <2>3. n \in 1..Len(calls) /\ calls[n].stage = "transcription"
    BY <2>1 DEF At
  <2>4. Len(calls) \in Nat
    BY LenProperties DEF TranscriptionInv, TypeOK
  <2>5. \A m \in 1..n : m # n => calls[m].stage # "transcription"
    BY <2>1, <2>3, <2>4 DEF At
  <2> QED
    BY <2>2, <2>3, <2>5, OnwardStep DEF PassedOn
<1>4. ASSUME NEW n \in 1..Len(calls), Recognized(n) \/ Answer(n) PROVE HandlersInv'
  <2>1. /\ calls[n].stage \in PassedOn /\ calls[n].stage # "internal"
        /\ \E stage \in PassedOn : Move(n, stage)
        /\ lastMessage' = lastMessage
    BY <1>4 DEF Recognized, Answer, TaggedWithKeywords, TaggedEmpty, TaggingFailed,
                PassedOn
  <2>2. \A m \in 1..n : calls[m].stage # "transcription"
    BY <2>1 DEF HandlersInv, PassedInv
  <2> QED
    BY <2>1, <2>2, OnwardStep
<1> QED
  BY <1>2, <1>3, <1>4, InternalStep, AnnounceInTurn DEF Next

LEMMA CallsAdvanceNext == TranscriptionInv /\ [Next]_vars => [CallsAdvance]_vars
<1> SUFFICES ASSUME TranscriptionInv, Next PROVE CallsAdvance
  OBVIOUS
<1>1. calls \in Seq(Call) /\ Len(calls) \in Nat
  BY LenProperties DEF TranscriptionInv, TypeOK
<1>2. ASSUME UNCHANGED calls PROVE CallsAdvance
  BY <1>1, <1>2 DEF CallsAdvance
<1>3. ASSUME NEW n \in 1..Len(calls), NEW stage \in Stages, Move(n, stage),
             StepsLeft[stage] < StepsLeft[calls[n].stage]
      PROVE  CallsAdvance
  <2>1. /\ Len(calls') = Len(calls)
        /\ \A m \in 1..Len(calls) :
              /\ m # n => calls'[m] = calls[m]
              /\ calls'[m].of = calls[m].of
              /\ calls'[m].chunk = calls[m].chunk
        /\ calls'[n].stage = stage
    BY <1>3, StageMoved
  <2> QED
    BY <1>1, <1>3, <2>1 DEF CallsAdvance
<1>4. CASE StartRecording \/ ClickStop
  BY <1>2, <1>4 DEF StartRecording, ClickStop
<1>5. CASE Announce
  BY <1>5, CallAdded DEF CallsAdvance
<1>6. CASE InternalHandler
  <2>1. PICK n \in At("internal"), stage \in {"dropped", "transcription"} :
           Move(n, stage)
    BY <1>6, LeastInStage DEF InternalHandler
  <2>2. n \in 1..Len(calls) /\ calls[n].stage = "internal"
    BY <2>1 DEF At
  <2>3. StepsLeft[stage] < StepsLeft["internal"] /\ stage \in Stages
    BY <2>1 DEF StepsLeft, Stages
  <2> QED
    BY <1>3, <2>1, <2>2, <2>3
<1>7. CASE TranscriptionHandler
  <2>1. PICK n \in At("transcription") : Move(n, "recognizing")
    BY <1>7, LeastInStage DEF TranscriptionHandler
  <2>2. n \in 1..Len(calls) /\ calls[n].stage = "transcription"
    BY <2>1 DEF At
  <2>3. StepsLeft["recognizing"] < StepsLeft["transcription"]
        /\ "recognizing" \in Stages
    BY DEF StepsLeft, Stages
  <2> QED
    BY <1>3, <2>1, <2>2, <2>3
<1>8. ASSUME NEW n \in 1..Len(calls), Recognized(n) \/ Answer(n) PROVE CallsAdvance
  <2>1. \/ calls[n].stage = "recognizing" /\ Move(n, "tagging")
        \/ calls[n].stage = "tagging" /\ Move(n, "answered")
        \/ calls[n].stage = "tagging" /\ Move(n, "failed")
    BY <1>8 DEF Recognized, Answer, TaggedWithKeywords, TaggedEmpty, TaggingFailed
  <2>2. /\ StepsLeft["tagging"] < StepsLeft["recognizing"]
        /\ StepsLeft["answered"] < StepsLeft["tagging"]
        /\ StepsLeft["failed"] < StepsLeft["tagging"]
        /\ {"tagging", "answered", "failed"} \subseteq Stages
    BY DEF StepsLeft, Stages
  <2> QED
    BY <1>3, <2>1, <2>2
<1> QED
  BY <1>4, <1>5, <1>6, <1>7, <1>8 DEF Next

LEMMA HandlersInvariance == Spec => []HandlersInv
  BY HandlersInitInv, HandlersNextInv, TranscriptionInvariance, PTL DEF Spec

\* The chunks are passed to the recognizer in the order of their announcement:
\* neither handler takes a message before an older one, and only the requests
\* are answered in any order (Recorder.java:113-123, MainActivity.java:110-120).
THEOREM HandlersTakeInTurn ==
    Spec => [](\A n \in 1..Len(calls), m \in 1..Len(calls) : m < n =>
                 /\ calls[m].stage = "internal" => calls[n].stage = "internal"
                 /\ calls[m].stage = "transcription" =>
                       calls[n].stage \notin PassedOn)
<1>1. TranscriptionInv /\ HandlersInv =>
         \A n \in 1..Len(calls), m \in 1..Len(calls) : m < n =>
            /\ calls[m].stage = "internal" => calls[n].stage = "internal"
            /\ calls[m].stage = "transcription" => calls[n].stage \notin PassedOn
  <2> SUFFICES ASSUME TranscriptionInv, HandlersInv, NEW n \in 1..Len(calls),
                      NEW m \in 1..Len(calls), m < n
               PROVE  /\ calls[m].stage = "internal" => calls[n].stage = "internal"
                      /\ calls[m].stage = "transcription" =>
                            calls[n].stage \notin PassedOn
    OBVIOUS
  <2>1. Len(calls) \in Nat
    BY LenProperties DEF TranscriptionInv, TypeOK
  <2>2. PICK h \in 0..Len(calls) : Handled(h)
    BY DEF HandlersInv
  <2>3. calls[m].stage = "internal" => calls[n].stage = "internal"
    BY <2>1, <2>2 DEF Handled
  <2>4. m \in 1..n
    BY <2>1
  <2> QED
    BY <2>3, <2>4 DEF HandlersInv, PassedInv
<1> QED
  BY <1>1, TranscriptionInvariance, HandlersInvariance, PTL

\* An announcement is only lost to the one before it, whose Message object the
\* looper had recycled for it; each other one has at most four steps to go,
\* every step that touches it takes it nearer to its answer, and one that is
\* settled stays so (Recorder.java:113-123, MainActivity.java:110-120, 347-425).
THEOREM EachCallAdvances ==
    Spec => /\ [](\A n \in 1..Len(calls) :
                     /\ StepsLeft[calls[n].stage] \in 0..4
                     /\ StepsLeft[calls[n].stage] = 0 => Settled(n))
            /\ [][CallsAdvance]_vars
<1>1. TranscriptionInv /\ HandlersInv =>
         \A n \in 1..Len(calls) :
            /\ StepsLeft[calls[n].stage] \in 0..4
            /\ StepsLeft[calls[n].stage] = 0 => Settled(n)
  <2> SUFFICES ASSUME TranscriptionInv, HandlersInv, NEW n \in 1..Len(calls)
               PROVE  /\ StepsLeft[calls[n].stage] \in 0..4
                      /\ StepsLeft[calls[n].stage] = 0 => Settled(n)
    OBVIOUS
  <2>1. calls[n] \in Call
    BY ElementOfSeq DEF TranscriptionInv, TypeOK
  <2>2. calls[n].stage \in Stages
    BY <2>1 DEF Call
  <2> QED
    BY <2>2, StagesAre DEF Settled, HandlersInv, RepeatsInv
<1> QED
  BY <1>1, TranscriptionInvariance, HandlersInvariance, CallsAdvanceNext, PTL DEF Spec
=============================================================================
