--------------------------- MODULE RecorderProofs ---------------------------
(***************************************************************************)
(* Proofs about Recorder, for any number of recordings and errors: the     *)
(* variables keep their types, at most the current recorder's thread is    *)
(* alive, and a new recording never finds an old recorder in its way.      *)
(* Last, what becomes of stop(): a thread that is told to end gets ever    *)
(* nearer to its end, unless it hangs in the destructor of an encoder,     *)
(* which takes a refused encoder or a writer thread that lags; and one     *)
(* that overrules stop() is never told again.                              *)
(***************************************************************************)
EXTENDS Recorder, SequenceTheorems, TLAPS

InStop == ui \in {"stop_pause", "stop_run", "stop_join"}

Starting == ui = "start_new" \/ (InStop /\ after = "start_new")

\* Where the UI thread is tells whether there is a recorder.
UiInv ==
    /\ mFLACRecorder <= created
    /\ InStop \/ ui = "start_resume" => mFLACRecorder # None
    /\ ui = "start_new" => mFLACRecorder = None
    /\ Starting => ~RECORDING
    /\ Starting => created < MaxRecordings

ThreadInv ==
    /\ \A g \in Recordings : g > created => pc[g] = "unborn"
    /\ NoOrphanThread

\* Whether a recording holds the microphone or an encoder.
Holds(g) == device[g] \in {"idle", "recording"} \/ encoding[g]

\* It does only between the search for a configuration and the release, or
\* when its thread was refused an encoder; the microphone is released before
\* the encoders are.
HoldInv ==
    \A g \in Recordings :
        /\ Holds(g) => pc[g] \notin {"unborn", "config", "done"}
        /\ pc[g] \in {"closing", "end_join"} =>
              device[g] \notin {"idle", "recording"}

IInv == TypeOK /\ UiInv /\ StartFindsNoRecorder /\ ThreadInv /\ HoldInv

-----------------------------------------------------------------------------

\* The messages keep their type when one is forwarded.
LEMMA ForwardType ==
    ASSUME NEW q \in Seq(Message), q # <<>>
    PROVE  Append(Tail(q), [Head(q) EXCEPT !.hop = 2]) \in Seq(Message)
<1>1. Head(q) \in Message /\ Tail(q) \in Seq(Message)
  BY HeadTailProperties
<1>2. [Head(q) EXCEPT !.hop = 2] \in Message
  BY <1>1 DEF Message
<1> QED
  BY <1>1, <1>2, AppendProperties

\* The messages keep their type when an error is reported.
LEMMA ReportType ==
    ASSUME NEW g \in Recordings, queue \in Seq(Message), Report(g)
    PROVE  queue' \in Seq(Message)
<1>1. [from |-> g, hop |-> 1] \in Message
  BY DEF Message
<1> QED
  BY <1>1, AppendProperties DEF Report

\* There is room for the recording about to be created.
LEMMA NextRecording ==
    ASSUME TypeOK, UiInv, ui = "start_new"
    PROVE  created + 1 \in Recordings
<1>1. created \in 0..MaxRecordings
  BY DEF TypeOK
<1>2. created < MaxRecordings
  <2>1. Starting
    BY DEF Starting
  <2>2. Starting => created < MaxRecordings
    BY DEF UiInv
  <2> QED
    BY <2>1, <2>2
<1> QED
  BY <1>1, <1>2, RecorderAssumption DEF Recordings

\* The errors counted stay within their bound.
LEMMA CountType ==
    ASSUME NEW g \in Recordings, ReportAndContinue(g),
           errors \in [Recordings -> 0..MaxErrors]
    PROVE  errors' \in [Recordings -> 0..MaxErrors]
<1>1. errors[g] + 1 \in 0..MaxErrors
  BY RecorderAssumption DEF ReportAndContinue
<1> QED
  BY <1>1 DEF ReportAndContinue

\* Initially nothing runs.
LEMMA InitInv == Init => IInv
<1> SUFFICES ASSUME Init PROVE IInv
  OBVIOUS
<1> USE RecorderAssumption DEF Init
<1>1. queue \in Seq(Message)
  BY EmptySeq
<1>2. ui \in UiPoints /\ after \in {"loop", "start_new"} /\ RECORDING \in BOOLEAN
  BY DEF UiPoints
<1>9. mFLACRecorder \in Recordings \union {None}
  BY DEF None
<1>10. created \in 0..MaxRecordings
  OBVIOUS
<1>3. pc \in [Recordings -> ThreadPoints]
  BY DEF ThreadPoints, Joining, Ended
<1>4. mShouldRun \in [Recordings -> BOOLEAN]
      /\ mShouldRecord \in [Recordings -> BOOLEAN]
      /\ oldShouldRecord \in [Recordings -> BOOLEAN]
      /\ encoding \in [Recordings -> BOOLEAN]
      /\ lagging \in [Recordings -> BOOLEAN]
  OBVIOUS
<1>5. device \in [Recordings -> {"none", "idle", "recording", "released"}]
      /\ errors \in [Recordings -> 0..MaxErrors]
  OBVIOUS
<1>6. TypeOK
  BY <1>1, <1>2, <1>3, <1>4, <1>5, <1>9, <1>10 DEF TypeOK
<1>7. UiInv /\ StartFindsNoRecorder
  BY DEF UiInv, StartFindsNoRecorder, InStop, Starting, None
<1>8. ThreadInv
  BY DEF ThreadInv, NoOrphanThread, Alive, Ended
<1>11. HoldInv
  BY DEF HoldInv, Holds
<1> QED
  BY <1>6, <1>7, <1>8, <1>11 DEF IInv

\* The steps of the UI thread preserve the invariant.
LEMMA UiInvariant ==
    ASSUME IInv, ClickRecord \/ ClickStop \/ KeywordStop \/ UiStep
    PROVE  IInv'
<1> USE RecorderAssumption
    DEF IInv, TypeOK, UiInv, StartFindsNoRecorder, ThreadInv, NoOrphanThread,
        Alive, InStop, Starting, CallStop, threadVars, uiVars, resources, Recordings,
        None, UiPoints, ThreadPoints, Joining, Ended, HoldInv, Holds
<1>1. CASE ClickRecord
  BY <1>1 DEF ClickRecord
<1>2. CASE ClickStop
  BY <1>2 DEF ClickStop
<1>3. CASE KeywordStop
  BY <1>3 DEF KeywordStop
<1>4. CASE StartNew
  <2>1. created + 1 \in Recordings /\ created' = created + 1
    <3>1. TypeOK /\ UiInv
      OBVIOUS
    <3> HIDE DEF IInv, TypeOK, UiInv, Recordings
    <3> QED
      BY <1>4, <3>1, NextRecording DEF StartNew
  <2>2. pc' \in [Recordings -> ThreadPoints]
        /\ \A g \in Recordings : g # created + 1 => pc'[g] = pc[g]
    BY <1>4, <2>1 DEF StartNew
  <2>3. TypeOK'
    BY <1>4, <2>1, <2>2 DEF StartNew
  <2>4. UiInv' /\ StartFindsNoRecorder'
    BY <1>4, <2>1 DEF StartNew
  <2>5. ThreadInv' /\ HoldInv'
    BY <1>4, <2>1, <2>2 DEF StartNew
  <2> QED
    BY <2>3, <2>4, <2>5
<1>5. CASE StartResume
  BY <1>5 DEF StartResume
<1>6. CASE StopPause
  BY <1>6 DEF StopPause
<1>7. CASE StopRun
  BY <1>7 DEF StopRun
<1>8. CASE StopJoin
  BY <1>8 DEF StopJoin
<1>9. CASE ForwardError
  <2>1. queue' \in Seq(Message)
    BY <1>9, ForwardType DEF ForwardError
  <2> QED
    BY <1>9, <2>1 DEF ForwardError
<1>10. CASE HandleError
  <2>1. queue' \in Seq(Message)
    BY <1>10, HeadTailProperties DEF HandleError
  <2> QED
    BY <1>10, <2>1 DEF HandleError
<1> QED
  BY <1>1, <1>2, <1>3, <1>4, <1>5, <1>6, <1>7, <1>8, <1>9, <1>10 DEF UiStep

\* The steps of a recording's thread preserve the invariant: a thread that is
\* alive stays the current recorder's, and none comes to life.
LEMMA ThreadInvariant ==
    ASSUME IInv, NEW g \in Recordings, ThreadStep(g)
    PROVE  IInv'
<1> USE RecorderAssumption
    DEF IInv, TypeOK, UiInv, StartFindsNoRecorder, ThreadInv, NoOrphanThread,
        Alive, InStop, Starting, uiVars, resources, Recordings, None, UiPoints,
        ThreadPoints, Joining, Ended, Goto, HoldInv,
        Holds, NewEncoder, Refused, AllClosed
<1>1. CASE FindConfig(g)
  <2>1. queue' \in Seq(Message)
    BY <1>1, ReportType DEF FindConfig
  <2> QED
    BY <1>1, <2>1 DEF FindConfig
<1>2. CASE SetShouldRun(g)
  BY <1>2 DEF SetShouldRun
<1>3. CASE OpenEncoders(g)
  <2>1. queue' \in Seq(Message)
    BY <1>3, ReportType DEF OpenEncoders
  <2>2. /\ encoding' \in [Recordings -> BOOLEAN]
        /\ lagging' \in [Recordings -> BOOLEAN]
        /\ \A h \in Recordings \ {g} : encoding'[h] = encoding[h]
    BY <1>3 DEF OpenEncoders
  <2>3. pc' \in [Recordings -> ThreadPoints] /\ pc[g] = "open"
        /\ pc'[g] \in {"loop", "refused", "refusal_join"}
        /\ \A h \in Recordings \ {g} : pc'[h] = pc[h]
    BY <1>3 DEF OpenEncoders
  <2>4. UNCHANGED <<ui, after, RECORDING, mFLACRecorder, created, mShouldRun,
                    mShouldRecord, oldShouldRecord, device, errors>>
    BY <1>3 DEF OpenEncoders
  <2>5. HoldInv'
    BY <2>2, <2>3, <2>4
  <2>6. ThreadInv'
    BY <2>3, <2>4
  <2>7. TypeOK' /\ UiInv' /\ StartFindsNoRecorder'
    BY <2>1, <2>2, <2>3, <2>4
  <2> QED
    BY <2>5, <2>6, <2>7
<1>4. CASE LoopTest(g)
  BY <1>4 DEF LoopTest
<1>5. CASE ToggleTest(g)
  BY <1>5 DEF ToggleTest
<1>6. CASE Switch(g)
  BY <1>6 DEF Switch
<1>7. CASE Remember(g)
  BY <1>7 DEF Remember
<1>8. CASE RecordTest(g)
  BY <1>8 DEF RecordTest
<1>9. CASE Read(g)
  <2>1. queue' \in Seq(Message)
    BY <1>9, ReportType DEF Read, ReportAndContinue
  <2>2. errors' \in [Recordings -> 0..MaxErrors]
    BY <1>9, CountType DEF Read
  <2>3. pc' \in [Recordings -> ThreadPoints] /\ pc[g] = "read"
        /\ \A h \in Recordings \ {g} : pc'[h] = pc[h]
    BY <1>9 DEF Read, ReportAndContinue
  <2>4. pc'[g] \in {"loop", "write", "refused"}
    BY <1>9 DEF Read, ReportAndContinue
  <2>5. HoldInv'
    BY <1>9, <2>3, <2>4 DEF Read
  <2>6. TypeOK' /\ UiInv' /\ StartFindsNoRecorder' /\ ThreadInv'
    BY <1>9, <2>1, <2>2, <2>3 DEF Read
  <2> QED
    BY <2>5, <2>6
<1>10. CASE WriteData(g)
  <2>1. queue' \in Seq(Message)
    BY <1>10, ReportType DEF WriteData, ReportAndContinue
  <2>2. errors' \in [Recordings -> 0..MaxErrors]
    BY <1>10, CountType DEF WriteData
  <2>3. pc' \in [Recordings -> ThreadPoints] /\ pc[g] = "write"
        /\ \A h \in Recordings \ {g} : pc'[h] = pc[h]
    BY <1>10 DEF WriteData, ReportAndContinue
  <2>4. pc'[g] \in {"loop", "refused", "refusal_join", "chunk_join"}
    BY <1>10 DEF WriteData, ReportAndContinue
  <2>7. lagging' \in [Recordings -> BOOLEAN]
    BY <1>10 DEF WriteData
  <2>5. HoldInv'
    BY <1>10, <2>3, <2>4 DEF WriteData
  <2>6. TypeOK' /\ UiInv' /\ StartFindsNoRecorder' /\ ThreadInv'
    BY <1>10, <2>1, <2>2, <2>3, <2>7 DEF WriteData
  <2> QED
    BY <2>5, <2>6
<1>11. CASE Release(g)
  BY <1>11 DEF Release
<1>12. CASE Close(g)
  BY <1>12 DEF Close
<1> QED
  BY <1>1, <1>2, <1>3, <1>4, <1>5, <1>6, <1>7, <1>8, <1>9, <1>10, <1>11,
     <1>12 DEF ThreadStep

\* The steps of its encoders' writer threads preserve the invariant: at most
\* they let the recording's thread out of a join.
LEMMA WriterInvariant ==
    ASSUME IInv, NEW g \in Recordings, WriterStep(g)
    PROVE  IInv'
<1> USE RecorderAssumption
    DEF IInv, TypeOK, UiInv, StartFindsNoRecorder, ThreadInv, NoOrphanThread,
        Alive, InStop, Starting, uiVars, resources, Recordings, None, UiPoints,
        ThreadPoints, Joining, Ended, Goto, HoldInv, Holds, AllClosed
<1>1. CASE WritersWait(g)
  BY <1>1 DEF WritersWait
<1>2. CASE SpuriousWakeup(g)
  <2>1. queue' \in Seq(Message)
    BY <1>2, ReportType DEF SpuriousWakeup, ReportAndContinue
  <2>2. errors' \in [Recordings -> 0..MaxErrors]
    BY <1>2, CountType DEF SpuriousWakeup
  <2>3. pc' \in [Recordings -> ThreadPoints]
        /\ pc[g] \in {"chunk_join", "end_join"}
        /\ \A h \in Recordings \ {g} : pc'[h] = pc[h]
    BY <1>2 DEF SpuriousWakeup, ReportAndContinue
  <2>4. \/ pc'[g] = "loop" /\ UNCHANGED encoding
        \/ pc[g] = "end_join" /\ AllClosed(g)
    BY <1>2 DEF SpuriousWakeup, ReportAndContinue
  <2>5. HoldInv'
    BY <1>2, <2>3, <2>4 DEF SpuriousWakeup
  <2>6. TypeOK' /\ UiInv' /\ StartFindsNoRecorder' /\ ThreadInv'
    BY <1>2, <2>1, <2>2, <2>3, <2>4 DEF SpuriousWakeup
  <2> QED
    BY <2>5, <2>6
<1> QED
  BY <1>1, <1>2 DEF WriterStep

LEMMA StutterInvariant == IInv /\ UNCHANGED vars => IInv'
  BY DEF IInv, TypeOK, UiInv, StartFindsNoRecorder, ThreadInv, NoOrphanThread,
         Alive, InStop, Starting, vars, uiVars, resources, HoldInv, Holds

\* The invariant holds in every reachable state.
THEOREM Invariance == Spec => []IInv
<1>1. IInv /\ [Next]_vars => IInv'
  BY UiInvariant, ThreadInvariant, WriterInvariant, StutterInvariant DEF Next
<1> QED
  BY InitInv, <1>1, PTL DEF Spec

\* The variables keep their types.
THEOREM TypeCorrectness == Spec => []TypeOK
  BY Invariance, PTL DEF IInv

\* Recordings never overlap: only the recorder that Recorder.java refers to
\* has a living thread (Recorder.java:134-139, 158-162).
THEOREM NoOverlap == Spec => []NoOrphanThread
  BY Invariance, PTL DEF IInv, ThreadInv

\* A recorder that is still there when recording starts "shouldn't happen!"
\* (Recorder.java:132), and does not.
THEOREM StartIsClean == Spec => []StartFindsNoRecorder
  BY Invariance, PTL DEF IInv

\* No recording but the current one holds the microphone or an encoder, but
\* for one whose thread was refused an encoder (FLACRecorder.java:474-484,
\* Recorder.java:154-162).
THEOREM NothingHeldBack == Spec => []DeviceReleased
<1>1. IInv => DeviceReleased
  BY DEF IInv, DeviceReleased, ThreadInv, NoOrphanThread, Alive, Ended,
         HoldInv, Holds
<1> QED
  BY Invariance, <1>1, PTL

-----------------------------------------------------------------------------
(***************************************************************************)
(* What keeps stop() from returning, and what does not.                    *)
(***************************************************************************)

\* The thread is past the line that sets mShouldRun, and stop() has cleared it.
Told(g) == ~mShouldRun[g] /\ pc[g] \notin {"unborn", "config", "set_flag"}

\* How far such a thread is from its end: it gets round to the test of the
\* loop, and on through the release.
StepsLeft(g) ==
    CASE pc[g] \in Ended -> 0
      [] pc[g] \in {"end_join", "refusal_join"} -> 1
      [] pc[g] = "closing" -> 2
      [] pc[g] = "release" -> 3
      [] pc[g] = "loop" -> 4
      [] pc[g] = "chunk_join" -> 5
      [] pc[g] = "write" -> 6
      [] pc[g] = "read" -> 7
      [] pc[g] = "check" -> 8
      [] pc[g] = "remember" -> 9
      [] pc[g] = "switch" -> 10
      [] pc[g] = "toggle" -> 11
      [] OTHER -> 12

\* It remains told, and a step that moves it leaves fewer.
Nearer(g) == /\ Told(g)'
             /\ pc'[g] # pc[g] => StepsLeft(g)' < StepsLeft(g)

\* It gets into the join of a destructor only if the writer thread has not
\* come to its first wait, or the encoder was refused.
HangsOnlyFor(g) ==
    pc[g] \notin Joining =>
        /\ pc'[g] \in {"chunk_join", "end_join"} => lagging[g]
        /\ pc'[g] = "refusal_join" => EncoderMayThrow

Ending(g) == Nearer(g) /\ HangsOnlyFor(g)

\* What has been created has been started.
Born == \A g \in Recordings : g <= created => pc[g] # "unborn"

LEMMA BornNext == IInv /\ Born /\ [Next]_vars => Born'
<1> SUFFICES ASSUME IInv, Born, [Next]_vars PROVE Born'
  OBVIOUS
<1>1. /\ pc \in [Recordings -> ThreadPoints] /\ created \in Nat
      /\ \A g \in Recordings : g \in Nat
  BY DEF IInv, TypeOK, Recordings
<1>2. CASE StartNew
  <2>1. created' = created + 1 /\ pc' = [pc EXCEPT ![created + 1] = "config"]
    BY <1>2 DEF StartNew
  <2> QED
    BY <1>1, <2>1 DEF Born
<1>3. ASSUME NEW h \in Recordings, ThreadStep(h) PROVE Born'
  <2>1. UNCHANGED created
    BY <1>3 DEF ThreadStep, FindConfig, SetShouldRun, OpenEncoders, LoopTest,
                ToggleTest, Switch, Remember, RecordTest, Read, WriteData,
                Release, Close, uiVars
  <2>2. \E point \in ThreadPoints \ {"unborn"} : Goto(h, point)
    BY <1>3 DEF ThreadStep, FindConfig, SetShouldRun, OpenEncoders, LoopTest,
                ToggleTest, Switch, Remember, RecordTest, Read, WriteData,
                Release, ReportAndContinue, ThreadPoints,
                Joining, Ended, Refused, AllClosed, Close
  <2>3. \A g \in Recordings : pc[g] # "unborn" => pc'[g] # "unborn"
    BY <1>1, <2>2 DEF Goto
  <2> QED
    BY <2>1, <2>3 DEF Born
<1>5. ASSUME NEW h \in Recordings, WriterStep(h) PROVE Born'
  <2>1. /\ UNCHANGED created
        /\ UNCHANGED pc \/ \E point \in ThreadPoints \ {"unborn"} : Goto(h, point)
    BY <1>5 DEF WriterStep, WritersWait, SpuriousWakeup, ReportAndContinue,
                AllClosed, ThreadPoints, Ended, uiVars
  <2> QED
    BY <1>1, <2>1 DEF Goto, Born
<1>4. CASE UNCHANGED <<pc, created>>
  BY <1>4 DEF Born
<1> QED
  BY <1>2, <1>3, <1>4, <1>5
  DEF Next, UiStep, ClickRecord, ClickStop, KeywordStop, StartResume,
      StopPause, StopRun, StopJoin, ForwardError, HandleError, threadVars,
      vars, uiVars

\* No step of the thread but one sets the flag, and it is behind it.
LEMMA ThreadEnds ==
    ASSUME IInv, NEW g \in Recordings, Told(g), ThreadStep(g)
    PROVE  Ending(g)
<1>1. /\ lagging \in [Recordings -> BOOLEAN]
      /\ pc \in [Recordings -> ThreadPoints]
      /\ mShouldRun \in [Recordings -> BOOLEAN]
  BY DEF IInv, TypeOK
<1> USE <1>1 DEF Told, Ending, Nearer, HangsOnlyFor, StepsLeft, Goto, Ended,
                Joining, Refused, AllClosed
<1>2. CASE OpenEncoders(g)
  BY <1>2 DEF OpenEncoders
<1>3. CASE LoopTest(g)
  BY <1>3 DEF LoopTest
<1>4. CASE ToggleTest(g)
  BY <1>4 DEF ToggleTest
<1>5. CASE Switch(g)
  BY <1>5 DEF Switch
<1>6. CASE Remember(g)
  BY <1>6 DEF Remember
<1>7. CASE RecordTest(g)
  BY <1>7 DEF RecordTest
<1>8. CASE Read(g)
  BY <1>8 DEF Read, ReportAndContinue
<1>9. CASE WriteData(g)
  BY <1>9 DEF WriteData, ReportAndContinue
<1>10. CASE Release(g)
  BY <1>10 DEF Release
<1>11. CASE Close(g)
  BY <1>11 DEF Close
<1> QED
  BY <1>2, <1>3, <1>4, <1>5, <1>6, <1>7, <1>8, <1>9, <1>10, <1>11
  DEF ThreadStep, FindConfig, SetShouldRun

\* A writer thread lets it out of a join at most, and that is nearer.
LEMMA WriterEnds ==
    ASSUME IInv, NEW g \in Recordings, Told(g), WriterStep(g)
    PROVE  Ending(g)
<1>1. /\ pc \in [Recordings -> ThreadPoints]
      /\ mShouldRun \in [Recordings -> BOOLEAN]
  BY DEF IInv, TypeOK
<1> USE <1>1 DEF Told, Ending, Nearer, HangsOnlyFor, StepsLeft, Goto, Ended, Joining
<1>2. CASE WritersWait(g)
  BY <1>2 DEF WritersWait
<1>3. CASE SpuriousWakeup(g)
  BY <1>3 DEF SpuriousWakeup, ReportAndContinue, AllClosed
<1> QED
  BY <1>2, <1>3 DEF WriterStep

\* The other threads leave it alone, and so does the UI thread.
LEMMA OthersLeaveItAlone ==
    ASSUME IInv, NEW g \in Recordings, Told(g),
           \/ \E h \in Recordings \ {g} : ThreadStep(h) \/ WriterStep(h)
           \/ ClickRecord \/ ClickStop \/ KeywordStop \/ UiStep
    PROVE  Told(g)' /\ pc'[g] = pc[g]
<1>1. /\ pc \in [Recordings -> ThreadPoints]
      /\ mShouldRun \in [Recordings -> BOOLEAN]
  BY DEF IInv, TypeOK
<1>2. ASSUME NEW h \in Recordings \ {g}, ThreadStep(h)
      PROVE  pc'[g] = pc[g] /\ mShouldRun'[g] = mShouldRun[g]
  <2>1. /\ \E point \in ThreadPoints : Goto(h, point)
        /\ \/ UNCHANGED mShouldRun
           \/ mShouldRun' = [mShouldRun EXCEPT ![h] = TRUE]
    BY <1>2 DEF ThreadStep, FindConfig, SetShouldRun, OpenEncoders, LoopTest,
                ToggleTest, Switch, Remember, RecordTest, Read, WriteData,
                Release, ReportAndContinue, ThreadPoints,
                Joining, Ended, Refused, AllClosed, Close
  <2> QED
    BY <1>1, <2>1 DEF Goto
<1>6. ASSUME NEW h \in Recordings \ {g}, WriterStep(h)
      PROVE  pc'[g] = pc[g] /\ mShouldRun'[g] = mShouldRun[g]
  <2>1. /\ UNCHANGED pc \/ \E point \in ThreadPoints : Goto(h, point)
        /\ UNCHANGED mShouldRun
    BY <1>6 DEF WriterStep, WritersWait, SpuriousWakeup, ReportAndContinue,
                AllClosed, ThreadPoints, Ended
  <2> QED
    BY <1>1, <2>1 DEF Goto
<1>3. CASE StartNew
  <2>1. /\ pc' = [pc EXCEPT ![created + 1] = "config"] /\ UNCHANGED mShouldRun
        /\ created \in Nat /\ g \in Nat
    BY <1>3 DEF StartNew, IInv, TypeOK, Recordings
  <2>2. g # created + 1
    BY <2>1 DEF IInv, ThreadInv, Told
  <2> QED
    BY <1>1, <2>1, <2>2 DEF Told
<1>4. CASE StopRun
  <2>1. /\ mShouldRun' = [mShouldRun EXCEPT ![mFLACRecorder] = FALSE]
        /\ UNCHANGED pc
    BY <1>4 DEF StopRun, threadVars
  <2> QED
    BY <1>1, <2>1 DEF Told
<1>5. CASE UNCHANGED <<pc, mShouldRun>>
  BY <1>5 DEF Told
<1> QED
  BY <1>2, <1>3, <1>4, <1>5, <1>6
  DEF Told, UiStep, ClickRecord, ClickStop, KeywordStop, StartResume,
      StopPause, StopJoin, ForwardError, HandleError, threadVars

LEMMA ToldNext ==
    ASSUME NEW g \in Recordings
    PROVE  IInv /\ [Next]_vars => [Told(g) => Ending(g)]_vars
<1> SUFFICES ASSUME IInv, Next, Told(g) PROVE Ending(g)
  OBVIOUS
<1>1. CASE ThreadStep(g)
  BY <1>1, ThreadEnds
<1>2. CASE WriterStep(g)
  BY <1>2, WriterEnds
<1>3. CASE ~ThreadStep(g) /\ ~WriterStep(g)
  <2>1. Told(g)' /\ pc'[g] = pc[g]
    BY <1>3, OthersLeaveItAlone DEF Next
  <2> QED
    BY <2>1 DEF Ending, Nearer, HangsOnlyFor, Joining
<1> QED
  BY <1>1, <1>2, <1>3

\* A thread that set mShouldRun before stop() cleared it reads it as cleared
\* ever after, and whatever it was doing and whatever the others do, every
\* step that moves it leaves it nearer to its end.  The one place where it may
\* stay for ever is the join of a destructor, and it gets into that only while
\* the writer thread of one of its encoders has not come to its first wait, or
\* when an encoder is refused (FLACRecorder.java:303-304, 317-484;
\* FLACStreamEncoder.cpp:326, 613; Recorder.java:155-158).
THEOREM ToldThreadsEndOrHang ==
    Spec => \A g \in Recordings : [][Told(g) => Ending(g)]_vars
<1> SUFFICES ASSUME NEW g \in Recordings
             PROVE  Spec => [][Told(g) => Ending(g)]_vars
  OBVIOUS
<1>1. IInv /\ [Next]_vars => [Told(g) => Ending(g)]_vars
  BY ToldNext
<1> QED
  BY Invariance, <1>1, PTL DEF Spec

\* stop() tells the thread unless it comes before the line that sets the flag,
\* where the thread undoes what stop() did (FLACRecorder.java:298;
\* Recorder.java:155).
THEOREM StopTells ==
    Spec => [][StopRun /\ pc[mFLACRecorder] \notin {"config", "set_flag"}
                  => Told(mFLACRecorder)']_vars
<1> DEFINE A == StopRun /\ pc[mFLACRecorder] \notin {"config", "set_flag"}
                  => Told(mFLACRecorder)'
<1>1. IInv /\ Born => A
  <2> SUFFICES ASSUME IInv, Born, StopRun,
                      pc[mFLACRecorder] \notin {"config", "set_flag"}
               PROVE  Told(mFLACRecorder)'
    OBVIOUS
  <2>1. mFLACRecorder \in Recordings /\ mFLACRecorder <= created
    BY DEF IInv, TypeOK, UiInv, InStop, StopRun, None
  <2>2. /\ UNCHANGED <<mFLACRecorder, pc>>
        /\ mShouldRun' = [mShouldRun EXCEPT ![mFLACRecorder] = FALSE]
        /\ mShouldRun \in [Recordings -> BOOLEAN]
    BY DEF StopRun, threadVars, IInv, TypeOK
  <2>3. ~mShouldRun'[mFLACRecorder]
    BY <2>1, <2>2
  <2> QED
    BY <2>1, <2>2, <2>3 DEF Told, Born
<1>2. Init => Born
  BY DEF Init, Born, Recordings
<1> QED
  BY Invariance, <1>1, <1>2, BornNext, PTL DEF Spec

\* stop() waits for a thread that set mShouldRun after it had been cleared,
\* and that has nothing to read any more.
Overruled(g) ==
    /\ ui = "stop_join" /\ mFLACRecorder = g
    /\ mShouldRun[g] /\ ~mShouldRecord[g]
    /\ pc[g] \in {"loop", "toggle", "switch", "remember", "check"}

LEMMA OverruledNext ==
    ASSUME NEW g \in Recordings
    PROVE  IInv /\ Overruled(g) /\ [Next]_vars => Overruled(g)'
<1> SUFFICES ASSUME IInv, Overruled(g), [Next]_vars
             PROVE  Overruled(g)'
  OBVIOUS
<1>1. /\ pc \in [Recordings -> ThreadPoints]
      /\ mShouldRun \in [Recordings -> BOOLEAN]
      /\ mShouldRecord \in [Recordings -> BOOLEAN]
  BY DEF IInv, TypeOK
<1>2. CASE ThreadStep(g)
  BY <1>1, <1>2 DEF Overruled, ThreadStep, FindConfig, SetShouldRun,
     OpenEncoders, LoopTest, ToggleTest, Switch, Remember, RecordTest, Read,
     WriteData, Release, Close, Goto, uiVars
<1>3. ASSUME NEW h \in Recordings \ {g}, ThreadStep(h)
      PROVE  Overruled(g)'
  <2>1. /\ \E point \in ThreadPoints : Goto(h, point)
        /\ \/ UNCHANGED mShouldRun
           \/ mShouldRun' = [mShouldRun EXCEPT ![h] = TRUE]
        /\ UNCHANGED <<ui, mFLACRecorder, mShouldRecord>>
    BY <1>3 DEF ThreadStep, FindConfig, SetShouldRun, OpenEncoders, LoopTest,
                ToggleTest, Switch, Remember, RecordTest, Read, WriteData,
                Release, ReportAndContinue, ThreadPoints,
                Joining, Ended, Refused, AllClosed, Close, uiVars
  <2> QED
    BY <1>1, <2>1 DEF Goto, Overruled
<1>6. ASSUME NEW h \in Recordings, WriterStep(h)
      PROVE  Overruled(g)'
  <2>1. /\ \/ UNCHANGED pc
           \/ pc[h] \in Joining /\ \E point \in ThreadPoints : Goto(h, point)
        /\ UNCHANGED <<ui, mFLACRecorder, mShouldRun, mShouldRecord>>
    BY <1>6 DEF WriterStep, WritersWait, SpuriousWakeup, ReportAndContinue,
                AllClosed, ThreadPoints, Ended, Joining, uiVars
  <2> QED
    BY <1>1, <2>1 DEF Goto, Overruled, Joining
<1>4. CASE UNCHANGED vars
  BY <1>4 DEF Overruled, vars, uiVars
<1>5. ~(ClickRecord \/ ClickStop \/ KeywordStop \/ UiStep)
  BY DEF Overruled, UiStep, ClickRecord, ClickStop, KeywordStop, StartNew,
         StartResume, StopPause, StopRun, StopJoin, ForwardError, HandleError,
         Ended
<1> QED
  BY <1>2, <1>3, <1>4, <1>5, <1>6 DEF Next

\* When the thread sets mShouldRun after stop() has cleared it and gets into
\* its loop, stop() never returns, whatever happens afterwards; nor does the
\* UI thread ever handle anything again (FLACRecorder.java:298, 317;
\* Recorder.java:155-158).
THEOREM OverruledForEver ==
    Spec => \A g \in Recordings : [](Overruled(g) => []Overruled(g))
<1> SUFFICES ASSUME NEW g \in Recordings
             PROVE  Spec => [](Overruled(g) => []Overruled(g))
  OBVIOUS
<1>1. IInv /\ Overruled(g) /\ [Next]_vars => Overruled(g)'
  BY OverruledNext
<1> QED
  BY Invariance, <1>1, PTL DEF Spec
=============================================================================
