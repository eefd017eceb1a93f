---------------------------- MODULE Transcription ----------------------------
(***************************************************************************)
(* What becomes of an announced chunk: the message goes through two        *)
(* handlers of the UI thread, the chunk's file to the speech recognizer,   *)
(* its transcript to the tagger, and the tagger's keywords into the        *)
(* database, under the archive entry of the recording.  MainActivity's     *)
(* handlers and callbacks all run on the UI thread, one at a time; the two *)
(* requests run elsewhere and are answered in any order, or not at all.    *)
(*                                                                         *)
(* Recognizer, tagger and the looper's pool of messages are external.      *)
(***************************************************************************)
EXTENDS Naturals, Sequences, FiniteSets, FiniteSetsExt

CONSTANTS
    MaxRecordings,   \* bound: recordings started
    MaxCalls,        \* bound: announcements made
    Objects,         \* the pool's Message objects
    Words            \* keywords the tagger answers with

ASSUME TranscriptionAssumption ==
    /\ MaxRecordings \in Nat \ {0}
    /\ MaxCalls \in Nat
    /\ IsFiniteSet(Objects)

Recordings == 1..MaxRecordings

VARIABLES
    RECORDING,
    mShortFileName,   \* the latest recording, 0 before the first
    matches,          \* for each, the recordings whose file name contains its
    archives,         \* the archive table: row i is archives[i]'s
    calls,            \* the announcements made, and how far each has come
    lastMessage,      \* the last Message object handled, in a set
    keywordNaN,       \* empty answers since the last stop
    keywords,         \* the keyword table
    archiveKeywords   \* the archive_keywords table, and whose chunk it was

recorderVars == <<RECORDING, mShortFileName, matches, archives>>
tables == <<keywords, archiveKeywords>>
vars == <<recorderVars, calls, lastMessage, keywordNaN, tables>>

Stages == {"internal", "dropped", "transcription", "recognizing", "tagging",
           "failed", "answered"}

Call == [of : Recordings, chunk : 0..MaxCalls, obj : Objects, stage : Stages]

TypeOK ==
    /\ RECORDING \in BOOLEAN
    /\ mShortFileName \in 0..MaxRecordings
    /\ matches \in [Recordings -> SUBSET Recordings]
    /\ archives \in Seq(Recordings)
    /\ calls \in Seq(Call) /\ Len(calls) <= MaxCalls
    /\ lastMessage \subseteq Objects /\ Cardinality(lastMessage) <= 1
    /\ keywordNaN \in 0..2
    /\ keywords \subseteq Words
    /\ archiveKeywords \subseteq
          [archive : 1..Len(archives), chunk : 0..MaxCalls,
           keyword : keywords, of : Recordings]

Init ==
    /\ RECORDING = FALSE
    /\ mShortFileName = 0
    /\ matches = [r \in Recordings |-> {}]
    /\ archives = <<>>
    /\ calls = <<>>
    /\ lastMessage = {}
    /\ keywordNaN = 0
    /\ keywords = {}
    /\ archiveKeywords = {}

-----------------------------------------------------------------------------

\* startRecording(): a new file name, and a row for it.  A name is made of
\* numbers without separators, so an earlier one may contain it.
StartRecording ==
    /\ ~RECORDING
    /\ mShortFileName < MaxRecordings
    /\ RECORDING' = TRUE
    /\ mShortFileName' = mShortFileName + 1
    /\ archives' = Append(archives, mShortFileName')
    /\ \E earlier \in SUBSET (1..mShortFileName) :
          matches' = [matches EXCEPT
                        ![mShortFileName'] = earlier \union {mShortFileName'}]
    /\ UNCHANGED <<calls, lastMessage, keywordNaN, tables>>

\* Slip: the count of empty answers is not set back.
StopRecordingKeepsCount ==
    /\ RECORDING' = FALSE
    /\ archives' = Append(archives, mShortFileName)
    /\ keywordNaN' = keywordNaN + 1
    /\ UNCHANGED <<mShortFileName, matches>>

\* stopRecording(): the file gets one more row.
StopRecording ==
    /\ RECORDING' = FALSE
    /\ archives' = Append(archives, mShortFileName)
    /\ keywordNaN' = 0
    /\ UNCHANGED <<mShortFileName, matches>>

\* The stop button.
ClickStop ==
    /\ RECORDING
    /\ StopRecording
    /\ UNCHANGED <<calls, lastMessage, tables>>

At(stage) == {n \in 1..Len(calls) : calls[n].stage = stage}
ObjectsInUse == {calls[n].obj : n \in At("internal")}
Move(n, stage) == calls' = [calls EXCEPT ![n].stage = stage]

\* The recording thread announces its next chunk, or the latest once more.
Announce ==
    /\ RECORDING
    /\ Len(calls) < MaxCalls
    /\ LET own == {calls[n].chunk :
                      n \in {k \in 1..Len(calls) : calls[k].of = mShortFileName}}
       IN  \E chunk \in IF own = {} THEN {0} ELSE {Max(own), Max(own) + 1},
              obj \in Objects \ ObjectsInUse :
              /\ calls' = Append(calls, [of |-> mShortFileName, chunk |-> chunk,
                                         obj |-> obj, stage |-> "internal"])
    /\ UNCHANGED <<recorderVars, lastMessage, keywordNaN, tables>>

\* Slip: the dedupe lets the repeated message through and drops the others.
InternalHandlerInverted ==
    /\ At("internal") # {}
    /\ LET n == Min(At("internal"))
       IN  /\ Move(n, IF calls[n].obj \in lastMessage THEN "transcription"
                      ELSE "dropped")
           /\ lastMessage' = {calls[n].obj}
    /\ UNCHANGED <<recorderVars, keywordNaN, tables>>

\* Recorder's handler drops a message that is the object it handled last;
\* but the looper recycles the objects, so that another message may be.
InternalHandler ==
    /\ At("internal") # {}
    /\ LET n == Min(At("internal"))
       IN  /\ Move(n, IF calls[n].obj \in lastMessage THEN "dropped"
                      ELSE "transcription")
           /\ lastMessage' = {calls[n].obj}
    /\ UNCHANGED <<recorderVars, keywordNaN, tables>>

\* MainActivity's handler calls getTranscriptionV2(), which starts a task.
TranscriptionHandler ==
    /\ At("transcription") # {}
    /\ Move(Min(At("transcription")), "recognizing")
    /\ UNCHANGED <<recorderVars, lastMessage, keywordNaN, tables>>

\* onResponse(): whatever the recognizer made of it goes to the tagger.
Recognized(n) ==
    /\ calls[n].stage = "recognizing"
    /\ Move(n, "tagging")
    /\ UNCHANGED <<recorderVars, lastMessage, keywordNaN, tables>>

\* onFailure() does nothing.
TaggingFailed(n) ==
    /\ calls[n].stage = "tagging"
    /\ Move(n, "failed")
    /\ UNCHANGED <<recorderVars, lastMessage, keywordNaN, tables>>

\* Slip: the query is not restricted to the name.
FindAnyRow(r) == 1

\* Slip: the latest of the matching rows is taken.
FindLatestRow(r) == Max({i \in 1..Len(archives) : archives[i] \in matches[r]})

\* findByFileName(): the first row whose file name contains the one given.
FindByFileName(r) == Min({i \in 1..Len(archives) : archives[i] \in matches[r]})

\* onSuccess() with keywords: they are put into the keyword table, and the
\* first of them under the chunk, unless the chunk has a keyword already; the
\* primary key refuses the others.  The archive looked up is that of the
\* recording that is the current one now.
TaggedWithKeywords(n) ==
    /\ calls[n].stage = "tagging"
    /\ \E first \in Words, others \in SUBSET Words :
          LET row == [archive |-> FindByFileName(mShortFileName),
                      chunk |-> calls[n].chunk, keyword |-> first,
                      of |-> calls[n].of]
              taken == \E old \in archiveKeywords :
                          old.archive = row.archive /\ old.chunk = row.chunk
          IN  /\ keywords' = keywords \union {first} \union others
              /\ archiveKeywords' =
                    archiveKeywords \union (IF taken THEN {} ELSE {row})
    /\ Move(n, "answered")
    /\ UNCHANGED <<recorderVars, lastMessage, keywordNaN>>

\* onSuccess() with an empty answer, whose only part is the literal "" as
\* split() yields it; the third since the last stop stops whatever is
\* recorded, or nothing.
TaggedEmpty(n) ==
    /\ calls[n].stage = "tagging"
    /\ Move(n, "answered")
    /\ \/ /\ keywordNaN + 1 <= 2
          /\ keywordNaN' = keywordNaN + 1
          /\ UNCHANGED recorderVars
       \/ /\ keywordNaN + 1 > 2
          /\ StopRecording
    /\ UNCHANGED <<lastMessage, tables>>

Answer(n) == TaggedWithKeywords(n) \/ TaggedEmpty(n) \/ TaggingFailed(n)

Next == \/ StartRecording \/ ClickStop \/ Announce
        \/ InternalHandler \/ TranscriptionHandler
        \/ \E n \in 1..Len(calls) : Recognized(n) \/ Answer(n)

Spec == Init /\ [][Next]_vars

\* The looper runs, and each request is answered or fails in the end.
Fairness ==
    /\ WF_vars(InternalHandler)
    /\ WF_vars(TranscriptionHandler)
    /\ \A n \in 1..MaxCalls :
          /\ WF_vars(n <= Len(calls) /\ Recognized(n))
          /\ WF_vars(n <= Len(calls) /\ Answer(n))

FairSpec == Spec /\ Fairness

-----------------------------------------------------------------------------
(***************************************************************************)
(* Properties.                                                             *)
(***************************************************************************)

\* A keyword that arrives while its recording is still the latest, whose name
\* no earlier name contains, is filed under its own recording; and once
\* filed it stays there (MainActivity.java:386-399).
FiledUnderOwnRecording ==
    [][/\ archiveKeywords \subseteq archiveKeywords'
       /\ \A row \in archiveKeywords' \ archiveKeywords :
             row.of = mShortFileName /\ matches[row.of] = {row.of} =>
                 archives'[row.archive] = row.of]_vars

\* A file has a row from its start and one more from every stop, but all its
\* keywords are filed under one of them, the first (Archive.java:151-155).
OneArchivePerFile ==
    \A row1, row2 \in archiveKeywords :
        archives[row1.archive] = archives[row2.archive] =>
            row1.archive = row2.archive

\* Every chunk announced is recognized and tagged, or its tagging fails, or
\* its message came in the very object of the message before it
\* (Recorder.java:115-122, MainActivity.java:112-120, 352-425).
Settled(n) ==
    \/ calls[n].stage \in {"answered", "failed"}
    \/ calls[n].stage = "dropped" /\ n > 1 /\ calls[n].obj = calls[n - 1].obj
AnnouncedIsAnswered ==
    \A n \in 1..MaxCalls :
        n <= Len(calls) ~> n <= Len(calls) /\ Settled(n)
=============================================================================
