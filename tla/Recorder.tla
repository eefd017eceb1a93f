------------------------------ MODULE Recorder ------------------------------
(***************************************************************************)
(* Starting and stopping a recording: MainActivity and Recorder.java on    *)
(* the UI thread, FLACRecorder.java on a thread per recording, and the     *)
(* messages by which the one reports errors to the other.                  *)
(*                                                                         *)
(* Recording g is the g-th FLACRecorder created.  The AMPLITUDES and OK    *)
(* messages, which the UI passes on and ignores, are left out; so is the   *)
(* schedule of the chunks (module ChunkRotation).  Of an encoder, what      *)
(* matters here is whether destroying it returns: it joins a writer thread *)
(* that misses a request to end which comes before its first wait (module  *)
(* FLACStreamEncoder, run encoder_destroy_hangs).                          *)
(***************************************************************************)
EXTENDS Naturals, Sequences, FiniteSets

CONSTANTS
    MaxRecordings,     \* bound: recordings started
    MaxErrors,         \* bound: read and write errors one recording reports
    EncoderMayThrow,   \* whether creating an encoder may be refused
    WritersMayLag      \* whether an encoder may be destroyed before its
                       \* writer thread has come to its first wait

ASSUME RecorderAssumption ==
    /\ MaxRecordings \in Nat \ {0}
    /\ MaxErrors \in Nat
    /\ EncoderMayThrow \in BOOLEAN
    /\ WritersMayLag \in BOOLEAN

Recordings == 1..MaxRecordings
None == 0

VARIABLES
    ui,             \* where the UI thread is
    after,          \* where Recorder.stop() returns to
    RECORDING,      \* MainActivity.RECORDING
    mFLACRecorder,  \* the current recording, or None
    created,        \* how many FLACRecorders have been created
    queue,          \* error messages in the UI thread's looper
    pc,             \* where the thread of each recording is
    mShouldRun,
    mShouldRecord,
    oldShouldRecord,
    device,         \* the AudioRecord of each recording
    encoding,       \* whether an encoder of each recording is open
    lagging,        \* whether the writer of one has not come to its first wait
    errors          \* how many such errors each recording has reported

uiVars == <<ui, after, RECORDING, mFLACRecorder, created>>
resources == <<device, encoding, lagging>>
vars == <<uiVars, queue, pc, mShouldRun, mShouldRecord, oldShouldRecord,
          resources, errors>>

UiPoints == {"loop", "start_new", "start_resume", "stop_pause", "stop_run",
             "stop_join"}

\* "done" and "refused" are the ends of a thread, by its last line or by the
\* exception of an encoder that is refused.
Ended == {"done", "refused"}

\* Inside the destructor of an encoder: of a chunk's at a switch, of the
\* recording's at its end, and of one that init() refused.
Joining == {"chunk_join", "end_join", "refusal_join"}
ThreadPoints == {"unborn", "config", "set_flag", "open", "loop", "toggle",
                 "switch", "remember", "check", "read", "write", "release",
                 "closing"}
                \union Joining \union Ended

Message == [from : Recordings, hop : {1, 2}]

TypeOK ==
    /\ ui \in UiPoints
    /\ after \in {"loop", "start_new"}
    /\ RECORDING \in BOOLEAN
    /\ mFLACRecorder \in Recordings \union {None}
    /\ created \in 0..MaxRecordings
    /\ queue \in Seq(Message)
    /\ pc \in [Recordings -> ThreadPoints]
    /\ mShouldRun \in [Recordings -> BOOLEAN]
    /\ mShouldRecord \in [Recordings -> BOOLEAN]
    /\ oldShouldRecord \in [Recordings -> BOOLEAN]
    /\ device \in [Recordings -> {"none", "idle", "recording", "released"}]
    /\ encoding \in [Recordings -> BOOLEAN]
    /\ lagging \in [Recordings -> BOOLEAN]
    /\ errors \in [Recordings -> 0..MaxErrors]

Init ==
    /\ ui = "loop"
    /\ after = "loop"
    /\ RECORDING = FALSE
    /\ mFLACRecorder = None
    /\ created = 0
    /\ queue = <<>>
    /\ pc = [g \in Recordings |-> "unborn"]
    /\ mShouldRun = [g \in Recordings |-> FALSE]
    /\ mShouldRecord = [g \in Recordings |-> FALSE]
    /\ oldShouldRecord = [g \in Recordings |-> FALSE]
    /\ device = [g \in Recordings |-> "none"]
    /\ encoding = [g \in Recordings |-> FALSE]
    /\ lagging = [g \in Recordings |-> FALSE]
    /\ errors = [g \in Recordings |-> 0]

-----------------------------------------------------------------------------
(***************************************************************************)
(* The UI thread.                                                          *)
(***************************************************************************)

threadVars == <<pc, oldShouldRecord, resources, errors>>

\* Recorder.stop() does nothing without a recorder.
CallStop(return) ==
    /\ ui' = IF mFLACRecorder = None THEN return ELSE "stop_pause"
    /\ after' = return

\* MainActivity.startRecording() calls Recorder.start(), which kills a
\* recorder that is still there before it creates the new one.
ClickRecord ==
    /\ ui = "loop"
    /\ ~RECORDING
    /\ created < MaxRecordings
    /\ CallStop("start_new")
    /\ UNCHANGED <<RECORDING, mFLACRecorder, created, queue, threadVars,
                   mShouldRun, mShouldRecord>>

\* new FLACRecorder(), then Thread.start().
StartNew ==
    /\ ui = "start_new"
    /\ created' = created + 1
    /\ mFLACRecorder' = created + 1
    /\ pc' = [pc EXCEPT ![created + 1] = "config"]
    /\ ui' = "start_resume"
    /\ UNCHANGED <<after, RECORDING, queue, mShouldRun, mShouldRecord,
                   oldShouldRecord, resources, errors>>

StartResume ==
    /\ ui = "start_resume"
    /\ mShouldRecord' = [mShouldRecord EXCEPT ![mFLACRecorder] = TRUE]
    /\ RECORDING' = TRUE
    /\ ui' = "loop"
    /\ UNCHANGED <<after, mFLACRecorder, created, queue, threadVars,
                   mShouldRun>>

\* Slip: the flag is cleared before the recorder has been told to stop.
ClickStopFlagOnly ==
    /\ ui = "loop"
    /\ RECORDING
    /\ RECORDING' = FALSE
    /\ UNCHANGED <<ui, after, mFLACRecorder, created, queue, threadVars,
                   mShouldRun, mShouldRecord>>

\* The stop button: stopRecording(View).
ClickStop ==
    /\ ui = "loop"
    /\ RECORDING
    /\ RECORDING' = FALSE
    /\ CallStop("loop")
    /\ UNCHANGED <<mFLACRecorder, created, queue, threadVars, mShouldRun,
                   mShouldRecord>>

\* A late answer with a third empty keyword calls stopRecording() whatever
\* RECORDING says.
KeywordStop ==
    /\ ui = "loop"
    /\ created > 0
    /\ RECORDING' = FALSE
    /\ CallStop("loop")
    /\ UNCHANGED <<mFLACRecorder, created, queue, threadVars, mShouldRun,
                   mShouldRecord>>

\* Slip: the handler forwards its own messages as well.
ForwardErrorAgain ==
    /\ ui = "loop"
    /\ queue # <<>>
    /\ queue' = Append(Tail(queue),
                       [Head(queue) EXCEPT !.hop = Head(queue).hop + 1])
    /\ UNCHANGED <<uiVars, threadVars, mShouldRun, mShouldRecord>>

\* The looper hands a message to Recorder's internal handler, which posts it
\* again for MainActivity's handler, which stops whatever is recording.
ForwardError ==
    /\ ui = "loop"
    /\ queue # <<>> /\ Head(queue).hop = 1
    /\ queue' = Append(Tail(queue), [Head(queue) EXCEPT !.hop = 2])
    /\ UNCHANGED <<uiVars, threadVars, mShouldRun, mShouldRecord>>

\* Slip: the error is shown, and the recording goes on.
HandleErrorShowOnly ==
    /\ ui = "loop"
    /\ queue # <<>> /\ Head(queue).hop = 2
    /\ queue' = Tail(queue)
    /\ UNCHANGED <<uiVars, threadVars, mShouldRun, mShouldRecord>>

HandleError ==
    /\ ui = "loop"
    /\ queue # <<>> /\ Head(queue).hop = 2
    /\ queue' = Tail(queue)
    /\ CallStop("loop")
    /\ UNCHANGED <<RECORDING, mFLACRecorder, created, threadVars, mShouldRun,
                   mShouldRecord>>

StopPause ==
    /\ ui = "stop_pause"
    /\ mShouldRecord' = [mShouldRecord EXCEPT ![mFLACRecorder] = FALSE]
    /\ ui' = "stop_run"
    /\ UNCHANGED <<after, RECORDING, mFLACRecorder, created, queue,
                   threadVars, mShouldRun>>

\* Slip: stop() only pauses, and forgets the flag that ends the thread.
StopRunForgotten ==
    /\ ui = "stop_run"
    /\ ui' = "stop_join"
    /\ UNCHANGED <<after, RECORDING, mFLACRecorder, created, queue,
                   threadVars, mShouldRun, mShouldRecord>>

\* Thread.interrupt() follows; nothing the recording thread calls heeds it.
StopRun ==
    /\ ui = "stop_run"
    /\ mShouldRun' = [mShouldRun EXCEPT ![mFLACRecorder] = FALSE]
    /\ ui' = "stop_join"
    /\ UNCHANGED <<after, RECORDING, mFLACRecorder, created, queue,
                   threadVars, mShouldRecord>>

\* Slip: stop() does not wait for the thread to end.
StopUnjoined ==
    /\ ui = "stop_join"
    /\ mFLACRecorder' = None
    /\ ui' = after
    /\ UNCHANGED <<after, RECORDING, created, queue, threadVars, mShouldRun,
                   mShouldRecord>>

StopJoin ==
    /\ ui = "stop_join"
    /\ pc[mFLACRecorder] \in Ended
    /\ mFLACRecorder' = None
    /\ ui' = after
    /\ UNCHANGED <<after, RECORDING, created, queue, threadVars, mShouldRun,
                   mShouldRecord>>

-----------------------------------------------------------------------------
(***************************************************************************)
(* The thread of recording g: FLACRecorder.run().                          *)
(***************************************************************************)

Goto(g, point) == pc' = [pc EXCEPT ![g] = point]
Report(g) == queue' = Append(queue, [from |-> g, hop |-> 1])

\* A failed read or write is reported, and the loop goes on.
ReportAndContinue(g) ==
    /\ errors[g] < MaxErrors
    /\ errors' = [errors EXCEPT ![g] = @ + 1]
    /\ Report(g)
    /\ Goto(g, "loop")

\* The search for a configuration ends with an open AudioRecord, or with an
\* error message and the end of the thread.
FindConfig(g) ==
    /\ pc[g] = "config"
    /\ \/ /\ device' = [device EXCEPT ![g] = "idle"]
          /\ Goto(g, "set_flag")
          /\ UNCHANGED queue
       \/ /\ Report(g)
          /\ Goto(g, "done")
          /\ UNCHANGED device
    /\ UNCHANGED <<uiVars, mShouldRun, mShouldRecord, oldShouldRecord,
                   encoding, lagging, errors>>

SetShouldRun(g) ==
    /\ pc[g] = "set_flag"
    /\ mShouldRun' = [mShouldRun EXCEPT ![g] = TRUE]
    /\ Goto(g, "open")
    /\ UNCHANGED <<uiVars, queue, mShouldRecord, oldShouldRecord, resources,
                   errors>>

\* A new encoder's writer thread has not run yet.
NewEncoder(g) == lagging' = [lagging EXCEPT ![g] = WritersMayLag]

\* An encoder that init() refuses is deleted before the exception is thrown:
\* its destructor locks a mutex and joins a thread that may never have been
\* created, and comes back, or does not.  The exception ends the thread, with
\* what was opened before it left open.
Refused(g) ==
    /\ EncoderMayThrow
    /\ \/ Report(g) /\ Goto(g, "refused")
       \/ Goto(g, "refusal_join") /\ UNCHANGED queue

\* Two encoders are created, one for the recording and one for its first
\* chunk.
OpenEncoders(g) ==
    /\ pc[g] = "open"
    /\ \/ /\ encoding' = [encoding EXCEPT ![g] = TRUE]
          /\ NewEncoder(g)
          /\ Goto(g, "loop")
          /\ UNCHANGED queue
       \/ /\ Refused(g)
          /\ \/ UNCHANGED <<encoding, lagging>>
             \/ encoding' = [encoding EXCEPT ![g] = TRUE] /\ NewEncoder(g)
    /\ UNCHANGED <<uiVars, mShouldRun, mShouldRecord, oldShouldRecord, device,
                   errors>>

LoopTest(g) ==
    /\ pc[g] = "loop"
    /\ Goto(g, IF mShouldRun[g] THEN "toggle" ELSE "release")
    /\ UNCHANGED <<uiVars, queue, mShouldRun, mShouldRecord, oldShouldRecord,
                   resources, errors>>

\* mShouldRecord is read anew at each of the four places it is used: the
\* toggle test, the choice of start or stop, the assignment of
\* oldShouldRecord, and the test that guards reading.
ToggleTest(g) ==
    /\ pc[g] = "toggle"
    /\ Goto(g, IF mShouldRecord[g] # oldShouldRecord[g]
               THEN "switch" ELSE "check")
    /\ UNCHANGED <<uiVars, queue, mShouldRun, mShouldRecord, oldShouldRecord,
                   resources, errors>>

Switch(g) ==
    /\ pc[g] = "switch"
    /\ device' = [device EXCEPT
                    ![g] = IF mShouldRecord[g] THEN "recording" ELSE "idle"]
    /\ Goto(g, "remember")
    /\ UNCHANGED <<uiVars, queue, mShouldRun, mShouldRecord, oldShouldRecord,
                   encoding, lagging, errors>>

Remember(g) ==
    /\ pc[g] = "remember"
    /\ oldShouldRecord' = [oldShouldRecord EXCEPT ![g] = mShouldRecord[g]]
    /\ Goto(g, "check")
    /\ UNCHANGED <<uiVars, queue, mShouldRun, mShouldRecord, resources, errors>>

RecordTest(g) ==
    /\ pc[g] = "check"
    /\ Goto(g, IF mShouldRecord[g] THEN "read" ELSE "loop")
    /\ UNCHANGED <<uiVars, queue, mShouldRun, mShouldRecord, oldShouldRecord,
                   resources, errors>>

\* AudioRecord.read() delivers data from a device that is recording, nothing,
\* or an error.
Read(g) ==
    /\ pc[g] = "read"
    /\ \/ /\ device[g] = "recording"
          /\ Goto(g, "write")
          /\ UNCHANGED <<queue, errors>>
       \/ /\ Goto(g, "loop")
          /\ UNCHANGED <<queue, errors>>
       \/ ReportAndContinue(g)
    /\ UNCHANGED <<uiVars, mShouldRun, mShouldRecord, oldShouldRecord,
                   resources>>

\* Data goes to the encoders.  On the way, switching to the next chunk may
\* create an encoder, which may be refused like the first ones, or destroy
\* one, which does not return when that one's writer still lags.
WriteData(g) ==
    /\ pc[g] = "write"
    /\ \/ /\ Goto(g, "loop") /\ UNCHANGED <<queue, errors>>
          /\ NewEncoder(g) \/ UNCHANGED lagging
       \/ /\ ReportAndContinue(g)
          /\ NewEncoder(g) \/ UNCHANGED lagging
       \/ /\ Refused(g)
          /\ UNCHANGED <<errors, lagging>>
       \/ /\ lagging[g]
          /\ Goto(g, "chunk_join")
          /\ UNCHANGED <<queue, errors, lagging>>
    /\ UNCHANGED <<uiVars, mShouldRun, mShouldRecord, oldShouldRecord, device,
                   encoding>>

\* Slip: the encoders are closed, the AudioRecord is forgotten.
ReleaseForgotten(g) ==
    /\ pc[g] = "release"
    /\ Goto(g, "closing")
    /\ UNCHANGED <<uiVars, queue, mShouldRun, mShouldRecord, oldShouldRecord,
                   resources, errors>>

\* recorder.release().
Release(g) ==
    /\ pc[g] = "release"
    /\ device' = [device EXCEPT ![g] = "released"]
    /\ Goto(g, "closing")
    /\ UNCHANGED <<uiVars, queue, mShouldRun, mShouldRecord, oldShouldRecord,
                   encoding, lagging, errors>>

AllClosed(g) ==
    /\ encoding' = [encoding EXCEPT ![g] = FALSE]
    /\ Goto(g, "done")

\* The encoders are destroyed one after the other.  One whose writer lags asks
\* it to end before the writer waits, and joins it for ever.
Close(g) ==
    /\ pc[g] = "closing"
    /\ \/ ~lagging[g] /\ AllClosed(g)
       \/ lagging[g] /\ Goto(g, "end_join") /\ UNCHANGED encoding
    /\ UNCHANGED <<uiVars, queue, mShouldRun, mShouldRecord, oldShouldRecord,
                   device, lagging, errors>>

\* The writers get to their first pthread_cond_wait().
WritersWait(g) ==
    /\ lagging[g]
    /\ lagging' = [lagging EXCEPT ![g] = FALSE]
    /\ UNCHANGED <<uiVars, queue, pc, mShouldRun, mShouldRecord,
                   oldShouldRecord, device, encoding, errors>>

\* pthread_cond_wait() may return with no signal; the writer then finds the
\* request to end, and the join is over.  Nothing makes this happen.
SpuriousWakeup(g) ==
    /\ \/ /\ pc[g] = "chunk_join"
          /\ \/ Goto(g, "loop") /\ UNCHANGED <<queue, errors>>
             \/ ReportAndContinue(g)
          /\ UNCHANGED encoding
       \/ /\ pc[g] = "end_join"
          /\ AllClosed(g)
          /\ UNCHANGED <<queue, errors>>
    /\ UNCHANGED <<uiVars, mShouldRun, mShouldRecord, oldShouldRecord, device,
                   lagging>>

-----------------------------------------------------------------------------

\* What the UI thread does by itself: the calls under way and the messages.
UiStep == \/ StartNew \/ StartResume \/ StopPause \/ StopRun \/ StopJoin
          \/ ForwardError \/ HandleError

ThreadStep(g) == \/ FindConfig(g) \/ SetShouldRun(g) \/ OpenEncoders(g)
                 \/ LoopTest(g) \/ ToggleTest(g) \/ Switch(g) \/ Remember(g)
                 \/ RecordTest(g) \/ Read(g) \/ WriteData(g) \/ Release(g)
                 \/ Close(g)

\* What the writer threads of a recording's encoders do to it.
WriterStep(g) == WritersWait(g) \/ SpuriousWakeup(g)

Next == \/ ClickRecord \/ ClickStop \/ KeywordStop
        \/ UiStep
        \/ \E g \in Recordings : ThreadStep(g) \/ WriterStep(g)

Spec == Init /\ [][Next]_vars

\* The scheduler runs every thread; nobody is obliged to press a button, and
\* no wait is obliged to return without a signal.
Fairness ==
    /\ WF_vars(UiStep)
    /\ \A g \in Recordings : WF_vars(ThreadStep(g)) /\ WF_vars(WritersWait(g))

FairSpec == Spec /\ Fairness

-----------------------------------------------------------------------------
(***************************************************************************)
(* Properties.                                                             *)
(***************************************************************************)

Alive(g) == pc[g] \notin {"unborn"} \union Ended

\* Only the recorder that Recorder.java holds on to has a living thread, so
\* recordings never overlap: stop() gives the old one up after the join only
\* (Recorder.java:146-163, 134-136).
NoOrphanThread == \A g \in Recordings : Alive(g) => g = mFLACRecorder

\* No recording but the current one holds the microphone or an encoder: stop()
\* gives up a recording only when it has released them (Recorder.java:154-162,
\* FLACRecorder.java:474-482).  A thread that was refused an encoder is the
\* exception; it skips the release (FLACRecorder.java:484).
DeviceReleased ==
    \A g \in Recordings :
        device[g] \in {"idle", "recording"} \/ encoding[g] =>
            g = mFLACRecorder \/ pc[g] = "refused"

\* Recorder.java:132 calls a recorder still there at start() something that
\* "shouldn't happen!": MainActivity starts only when RECORDING is false, and
\* whoever clears RECORDING also stops the recorder.
StartFindsNoRecorder == ui = "loop" /\ ~RECORDING => mFLACRecorder = None

\* stop() returns if the thread set mShouldRun before stop() began, whatever
\* the thread was doing (Recorder.java:155-158), unless the thread gets into the
\* destructor of an encoder that was refused or whose writer had not yet come
\* to its first wait: there it hangs, and stop() with it (FLACRecorder.java:
\* 303-304, 386, 424, 475-479; FLACStreamEncoder.cpp:326).
StopReturnsOnceRunning ==
    \A g \in Recordings :
        (ui = "stop_pause" /\ mFLACRecorder = g
            /\ pc[g] \notin {"config", "set_flag"})
          ~> (mFLACRecorder # g \/ pc[g] \in Joining)

\* An error a recording reports ends it, through two handlers and a join
\* (Recorder.java:106-108, MainActivity.java:139-143), unless the destructor of
\* one of its encoders hangs.
ErrorEndsRecording ==
    \A g \in Recordings :
        (\E i \in 1..Len(queue) : queue[i].from = g)
          ~> (~Alive(g) \/ pc[g] \in Joining)

\* Recorder.java:152: stop() pauses the recording and kills the recorder.
StopKillsRecorder == ui = "stop_join" ~> ui # "stop_join"
=============================================================================
