----------------------------- MODULE FLACPlayer -----------------------------
(***************************************************************************)
(* FLACPlayer.java: a thread that reads blocks from the native decoder and *)
(* writes them to an audio track, while the owner pauses, resumes and      *)
(* seeks through volatile fields and interrupt().                          *)
(*                                                                         *)
(* Nothing in the application clears mShouldRun, and the decoder is the    *)
(* one of FLACStreamDecoder: its steps are those of the thread in read().  *)
(***************************************************************************)
EXTENDS FLACStreamDecoder

CONSTANTS
    SampleRate,   \* sampleRate
    Positions,    \* the positions seekTo() is called with, in milliseconds
    MaxRequests   \* bound: calls of pausePlayback(), resumePlayback(), seekTo()

ASSUME PlayerAssumption ==
    /\ SampleRate \in Nat \ {0} /\ MaxRequests \in Nat
    /\ Positions \subseteq Nat
    /\ \A ms \in Positions : (ms * SampleRate) \div 1000 <= Total

VARIABLES
    at,           \* where run() is
    mPaused,
    mSeekPos,
    mPlayPos,
    seekPos,      \* run()'s local
    interrupted,  \* the thread's interrupt status
    owner,        \* the owner: "idle", or about to call interrupt()
    requests,     \* calls the owner has made
    wanted,       \* history: a seek that was not asked for amid another, or -1
    written       \* history: blocks written since the last pausePlayback()

decoderVars == vars
fields == <<mPaused, mSeekPos, mPlayPos, interrupted>>
playerVars == <<decoderVars, at, fields, seekPos, owner, requests, wanted,
                written>>

\* Slip: the position is not divided by the rate.
PlayTimeOfValues(position) == position * 1000

\* The milliseconds of a position.
PlayTime(position) == (position * 1000) \div SampleRate

\* The sample of a time, computed in floating point: a whole number may come
\* out one too small.
SamplesAt(ms) == {(ms * SampleRate) \div 1000, (ms * SampleRate - 1) \div 1000}

PlayerTypeOK ==
    /\ TypeOK
    /\ at \in {"start", "head", "sleep", "fetch", "seek", "clear", "read",
               "reading", "write", "close", "finished", "error"}
    /\ mPaused \in BOOLEAN /\ interrupted \in BOOLEAN
    /\ mSeekPos \in Positions \union {-1}
    /\ seekPos \in Positions \union {-1}
    /\ mPlayPos \in 0..((Total * (Channels + 1) * 1000) \div SampleRate)
    /\ owner \in {"idle", "interrupt"}
    /\ requests \in 0..MaxRequests
    /\ wanted \in Positions \union {-1}
    /\ written \in Nat

PlayerInit ==
    /\ Init
    /\ at = "start"
    /\ mPaused = FALSE
    /\ mSeekPos = -1
    /\ mPlayPos = 0
    /\ seekPos = -1
    /\ interrupted = FALSE
    /\ owner = "idle"
    /\ requests = 0
    /\ wanted = -1
    /\ written = 0

-----------------------------------------------------------------------------
(***************************************************************************)
(* The owner.                                                              *)
(***************************************************************************)

Request ==
    /\ owner = "idle"
    /\ requests < MaxRequests
    /\ requests' = requests + 1
    /\ owner' = "interrupt"
    /\ UNCHANGED <<decoderVars, at, mPlayPos, seekPos, interrupted>>

PausePlayback ==
    /\ Request
    /\ mPaused' = TRUE
    /\ written' = 0
    /\ UNCHANGED <<mSeekPos, wanted>>

ResumePlayback ==
    /\ Request
    /\ mPaused' = FALSE
    /\ UNCHANGED <<mSeekPos, wanted, written>>

\* A position that replaces the one run() is just handing over is lost when
\* run() clears the field; one of 0 is not taken for a request.
SeekRequest(ms) ==
    /\ Request
    /\ mSeekPos' = ms
    /\ wanted' = IF at \in {"seek", "clear"} \/ ms = 0 THEN -1 ELSE ms
    /\ UNCHANGED <<mPaused, written>>

\* Slip: the thread is woken up only if it is paused.
InterruptIfPaused ==
    /\ owner = "interrupt"
    /\ owner' = "idle"
    /\ interrupted' = mPaused
    /\ UNCHANGED <<decoderVars, at, mPaused, mSeekPos, mPlayPos, seekPos,
                   requests, wanted, written>>

Interrupt ==
    /\ owner = "interrupt"
    /\ owner' = "idle"
    /\ interrupted' = TRUE
    /\ UNCHANGED <<decoderVars, at, mPaused, mSeekPos, mPlayPos, seekPos,
                   requests, wanted, written>>

-----------------------------------------------------------------------------
(***************************************************************************)
(* run().                                                                  *)
(***************************************************************************)

ownersVars == <<owner, requests>>

\* The decoder or the audio track may refuse the file.
Start ==
    /\ at = "start"
    /\ at' \in {"head", "error"}
    /\ UNCHANGED <<decoderVars, fields, seekPos, ownersVars, wanted, written>>

\* Slip: a thread that is woken up does not look at mPaused again.
AfterSleepFetch == "fetch"

AfterSleep == "head"

LoopHead ==
    /\ at = "head"
    /\ at' = IF mPaused THEN "sleep" ELSE "fetch"
    /\ UNCHANGED <<decoderVars, fields, seekPos, ownersVars, wanted, written>>

\* An interrupt, also one that came before, ends the sleep and is consumed.
Wake ==
    /\ at = "sleep"
    /\ interrupted
    /\ interrupted' = FALSE
    /\ at' = AfterSleep
    /\ UNCHANGED <<decoderVars, mPaused, mSeekPos, mPlayPos, seekPos,
                   ownersVars, wanted, written>>

\* After ten minutes.
SleepEnds ==
    /\ at = "sleep"
    /\ at' = AfterSleep
    /\ UNCHANGED <<decoderVars, fields, seekPos, ownersVars, wanted, written>>

\* Slip: an interrupt that is pending drops the seek it came with.
FetchClearing ==
    /\ at = "fetch"
    /\ seekPos' = mSeekPos
    /\ mSeekPos' = -1
    /\ at' = IF mSeekPos > 0 /\ ~interrupted THEN "seek" ELSE "read"
    /\ UNCHANGED <<decoderVars, mPaused, mPlayPos, interrupted, ownersVars,
                   wanted, written>>

Fetch ==
    /\ at = "fetch"
    /\ seekPos' = mSeekPos
    /\ at' = IF mSeekPos > 0 THEN "seek" ELSE "read"
    /\ UNCHANGED <<decoderVars, fields, ownersVars, wanted, written>>

HandOver ==
    /\ at = "seek"
    /\ \E s \in SamplesAt(seekPos) : SeekTo(s)
    /\ at' = "clear"
    /\ wanted' = IF wanted = seekPos THEN -1 ELSE wanted
    /\ UNCHANGED <<fields, seekPos, ownersVars, written>>

Clear ==
    /\ at = "clear"
    /\ mSeekPos' = -1
    /\ at' = "read"
    /\ UNCHANGED <<decoderVars, mPaused, mPlayPos, interrupted, seekPos,
                   ownersVars, wanted, written>>

\* Where run() goes when the decoder has taken a step.
AfterRead == at' = IF pc' # "idle" THEN "reading"
                   ELSE IF ended' THEN "close" ELSE "write"

CallRead ==
    /\ at = "read"
    /\ Read \/ ReadAtEnd
    /\ AfterRead
    /\ UNCHANGED <<fields, seekPos, ownersVars, wanted, written>>

InRead ==
    /\ at = "reading"
    /\ LoopStep
    /\ AfterRead
    /\ UNCHANGED <<fields, seekPos, ownersVars, wanted, written>>

WriteTrack ==
    /\ at = "write"
    /\ mPlayPos' = PlayTime(m_cur_pos)
    /\ written' = IF mPaused THEN written + 1 ELSE written
    /\ at' = "head"
    /\ UNCHANGED <<decoderVars, mPaused, mSeekPos, interrupted, seekPos,
                   ownersVars, wanted>>

\* Track and decoder are released, and the listener hears onFinished().
Finish ==
    /\ at = "close"
    /\ at' = "finished"
    /\ UNCHANGED <<decoderVars, fields, seekPos, ownersVars, wanted, written>>

PlayerStep == Start \/ LoopHead \/ Wake \/ Fetch \/ HandOver \/ Clear \/ CallRead
              \/ InRead \/ WriteTrack \/ Finish

PlayerNext ==
    \/ PausePlayback \/ ResumePlayback \/ Interrupt
    \/ \E ms \in Positions : SeekRequest(ms)
    \/ PlayerStep \/ SleepEnds

PlayerSpec == PlayerInit /\ [][PlayerNext]_playerVars

\* The thread runs, and the owner goes on to call interrupt(); no sleep is
\* waited for.
FairPlayer == PlayerSpec /\ WF_playerVars(PlayerStep)
                         /\ WF_playerVars(Interrupt)

-----------------------------------------------------------------------------
(***************************************************************************)
(* Properties.                                                             *)
(***************************************************************************)

\* pausePlayback() stops the player within a block, whatever interrupts come
\* in (FLACPlayer.java:163-166, 192-196).
PausesWithinABlock == mPaused => written <= 1

\* A seek that does not cut in on another one is not forgotten before it is
\* handed to the decoder (FLACPlayer.java:170-177).
SeekIsKept == wanted # -1 => mSeekPos = wanted

\* Playing ends, unless it is paused again and again: a player that is not
\* paused does not sleep on, although mPaused is tested before sleep() is
\* called and the interrupt may come in between, and a read() returns, also
\* after a seek that fails (FLACPlayer.java:94-98, 158-205;
\* FLACStreamDecoder.cpp:213-233).
PlayerEnds == <>(at \in {"finished", "error"}) \/ []<>mPaused
=============================================================================
