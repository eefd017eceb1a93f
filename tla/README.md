# VoiceArchieving: specifications, model checks and proofs

VoiceArchieving is an Android application that records speech into FLAC files,
has the recording transcribed chunk by chunk while it goes on, and files the
keywords of each chunk in a database. This directory models its own logic in
TLA+: Java under `src/edu/skku/monet/VoiceArchieving/`, C++ under `jni/jni/`,
and of the vendored libFLAC under `jni/flac/src/libFLAC/` the two parts the
application's promises rest on: the encoder's way from samples to a finished
file, and the decoder's seek. The rest of libFLAC, libogg, Android, the speech
recognizer and the tagger are external: they may do whatever the code that calls
them has to expect.

## 1. The system

| Component | Code | State | Operations |
|---|---|---|---|
| Native encoder | `FLACStreamEncoder.cpp` | write buffer, FIFO of full buffers, kill flag, mutex and condition | `write`, `flush`, destructor; the writer thread |
| Recorder | `Recorder.java`, `FLACRecorder.java`, `MainActivity.java` | `RECORDING`, `mFLACRecorder`, `mShouldRun`, `mShouldRecord`, the microphone, the encoders | start, stop, error messages; `FLACRecorder.run()` |
| Chunk rotation | `FLACRecorder.java:366-456` | `mChunkTimer`, `mEncHandler`, `mEncoder2`, `mEncoder3`, `mChunk` | four switches, announcement |
| Configuration search | `FLACRecorder.java:233-296` | three loop indices | try the next configuration |
| Transcription | `Recorder.java:113-123`, `MainActivity.java:347-430`, `AsyncHttpTask.java` | `lastMessage`, `keywordNaN`, `mShortFileName`, requests under way | two handlers, two callbacks |
| Archive database | `Archive/*.java` | tables `archive`, `keyword`, `archive_keywords` | insert, look up |
| Native decoder | `FLACStreamDecoder.cpp` | buffer, position, seek request, `m_finished` | `read`, `seekTo`, `position`, libFLAC's callbacks |
| Player | `FLACPlayer.java` | pause flag, seek and play position | `run`, pause, resume, seek |
| libFLAC's encoder | `stream_encoder.c`, `md5.c` | collected samples, verify FIFO, state, STREAMINFO in memory and in the file | `process_interleaved`, `process_frame_`, `finish`, `update_metadata_` |
| libFLAC's seek | `stream_decoder.c:1167, 2972-3187` | bounds in bytes and samples, position, bytes per frame | aim, probe, narrow, go back |
| JNI handles | both `.cpp`, `FLAC/*.java` | `mObject` | init, deinit |
| Amplitudes | `FLACRecorder.java:58-98`, `Recorder.java:75-99` | sums and maxima | accumulate |
| Lists and activities | `*Activity.java` | none of their own | show rows |

How they interact:

- The **UI thread** runs `MainActivity`, `Recorder` and every handler. It creates
  one **recording thread** per recording and stops it by two plain flags, an
  interrupt nothing heeds, and a join.
- The recording thread reads the microphone and calls three native encoders.
  Each encoder has a **writer thread**; they share a mutex-protected FIFO.
- The recording thread posts messages to two handlers of the UI thread:
  errors, which stop the recording, and finished chunks, which are sent to the
  recognizer, whose answer goes to the tagger, whose answer goes to the database.
- The writer thread hands each full buffer to libFLAC's encoder, and calls again
  when it fails; the destructor calls `finish()`.
- Playback is a thread of its own that owns a native decoder. The owner of the
  player writes three volatile fields and interrupts it. The decoder calls
  libFLAC, which calls back for data, for the end of the file and with errors.

What is hard about it: flags written by two threads without a lock; a
condition variable waited on without its predicate; joins on the UI thread;
answers that come late or in another order; a schedule of four periods that
drift against each other; refusals and errors in the middle of a sequence of
acquisitions; counts in bytes, values and samples; blocks, FIFO entries and
frames that do not end in the same places; files cut off by the death of the
process, or damaged; an end of file met by a fetch and not by what is decoded.
`PROJECT.json` lists each
hazard at its line, with the properties that watch it.

What makes each component correct:

- *encoder*: samples reach libFLAC once, in order, none missing at close; the
  destructor returns; no buffer is overrun.
- *recorder*: one recording at a time, everything released at its end, stop and
  errors take effect.
- *rotation*: chunks cover the recording, no encoder is lost, a chunk is
  announced when and only when it is complete.
- *search*: the best configuration that works, or an honest error.
- *transcription*: each announced chunk is answered, its keyword filed under
  its own recording, in one row.
- *libFLAC's encoder*: frames hold the samples in order, their numbers give their
  positions, a header with a total is true.
- *libFLAC's seek*: it ends, and finds a sample that is there.
- *decoder*: what is read is what is in the file, in order, from where one has
  sought, up to the damage.
- *player*: pause and seek take effect, and playing ends.

## 2. The modules

| Module | Models | State |
|---|---|---|
| `SampleStream` | abstract: what a stream promises its user | accepted, persisted, closed, failed |
| `FLACStreamEncoder` | the JNI thread and the writer thread, at the level of lock operations | variables bear the C++ names; `jni` and `writer` are program points; `current` is the list the writer grabbed |
| `FLACStreamEncoderProofs` | theorems about it | |
| `Recorder` | UI thread and recording threads, at the level of single accesses to the shared flags, and the encoders' destructors, which may hang | `pc[g]` is where the thread of the g-th recording is; `queue` is the looper's; `lagging[g]`: the writer of one of its encoders has not come to its first wait |
| `RecorderProofs` | theorems about it | |
| `ChunkRotation` | one pass of the loop per action | `from`, `to` record what each chunk was given |
| `ChunkRotationProofs` | theorems about it | |
| `AudioConfig` | one trial per action | `tried`, `worked` are histories |
| `RecordingThread` | the two above: `FLACRecorder.run()` from its first line to its last | |
| `AudioConfigProofs` | theorems about the search and the composition | |
| `Transcription` | one handler or callback per action | `calls[n].stage` is how far the n-th announcement has come |
| `TranscriptionProofs` | theorems about it | |
| `LibFLACEncoder` | one turn of `process_interleaved()`'s loop, one frame, one step of `finish()` per action | `signal`, `input_fifo`, `frames` are sequences of sample numbers; `header` is the file's STREAMINFO, `total_samples`, `framesize`, `md5` the copy in memory |
| `LibFLACEncoderProofs` | theorems about it | |
| `LibFLACSeek` | one probe of `seek_to_absolute_sample_()` in two actions | C names; `stream` is the file |
| `RoundTrip` | the two above: what the encoder leaves is what the seek opens | |
| `RoundTripProofs` | theorems about the seek and about the composition | |
| `FLACStreamDecoder` | one step of the loop of `read()` per action | `next`, `fetched` are libFLAC's; `bad`, `damage` the damaged block; `heard` is what the caller got |
| `FLACPlayer` | the player's thread, at the level of single accesses to the volatile fields, and its owner; extends the decoder | `at` is where `run()` is; `owner` is between two halves of a request |
| `FLACPlayerProofs` | theorems about the decoder and the player | |

Abstractions. Samples are numbers in the order they were accepted, so that a
buffer is an interval and loss, repetition and disorder are visible. A
recording, a chunk, a keyword is a number or a model value. File names are the
recordings themselves, with one relation (`matches`) for what
`LIKE '%name%'` can confuse. Samples handed to libFLAC are numbered, so that no
two of them compare equal: its check of a frame is as strong as it can be. A
frame is its number, its samples and its place in the file. `FLACStreamEncoder` and `Recorder` name each
program point at which another thread can come between; code between two such
points is one action. Handlers of the UI thread are atomic in `Transcription`,
for they run to completion on one looper; `Recorder` splits `start()` and
`stop()` because the other thread reads the flags in between.

Definitions that begin with the comment "Slip:" are not part of a
specification: each is the definition after it with a plausible mistake, and
shows for one property that the mistake would be found.

Modules meet at named places. `FLACStreamEncoder` implements `SampleStream`
through the mapping `accepted`, `encoded`, `jni = "destroyed"`, `failed`. `Recorder`
opens and releases encoders as wholes and refers the chunks to `ChunkRotation`;
what it takes over from `FLACStreamEncoder` is that the destructor hangs in
`pthread_join()` when the writer had not come to its first wait
(`Joining`, `lagging`, `WritersWait`, `SpuriousWakeup`);
`ChunkRotation`'s announcements are `Transcription`'s `Announce`;
`Transcription`'s third empty answer is `Recorder`'s `KeywordStop`;
`AudioConfig` is what `Recorder`'s `FindConfig` does in one step; `RecordingThread`
puts it before `ChunkRotation`, in the order of `run()`. `LibFLACEncoder`
is what `FLACStreamEncoder` leaves open when it passes an entry on. `RoundTrip`
composes `LibFLACEncoder` and `LibFLACSeek`, and its behaviours are shown to be
behaviours of `SeekSpec`: the files a recording may leave are files the seek's
assumptions admit. `FLACStreamDecoder` sums a seek up in one step that succeeds
or fails; how it comes to either is `LibFLACSeek`'s. `FLACPlayer` calls the
decoder's own actions, and its behaviours are shown to be behaviours of the
decoder's `Spec`.

## 3. What the runs check

Passing runs. Each checks all the properties of its component together, the
liveness properties under the module's fair specification.

| Run | Shows |
|---|---|
| `encoder` | With an encoder that may fail at any buffer: no overrun (`NoBufferOverrun`), every sample accepted was read by libFLAC or belonged to a list given up (`AccountedForAtClose`). Until libFLAC fails, the encoder implements `SampleStream` (`StreamSpec`). Once the writer has waited for the first time, the destructor returns (`DestroyReturnsOnceWriterWaited`) and pushed data is taken up (`SignalReachesEncoder`), though libFLAC may fail every time. |
| `recorder` | Recordings never overlap (`NoOrphanThread`); when `RECORDING` is false, no recorder is left (`StartFindsNoRecorder`); only the current recording, or one whose thread was refused an encoder, holds the microphone or an encoder (`DeviceReleased`). `stop()` returns if the thread was past setting `mShouldRun` (`StopReturnsOnceRunning`); an error ends the recording that reported it (`ErrorEndsRecording`). Both say "or its thread is inside the destructor of an encoder": one that was refused, or one whose writer had not come to its first wait, may never be left, and `stop()` joins the thread that is in it. |
| `recording` | The search, then the chunks. Configurations are tried in the order of preference; the first that works is chosen, with the device and buffer size of that trial, and the search is given up only when none does (`FirstWorkingConfig`). Up to tick 2248: no open encoder is overwritten (`NoEncoderLost`), a chunk is announced when it is complete and not before (`AnnouncedOnceClosed`), and the chunks cover the recording without gap or overlap (`ChunksCoverRecording`). |
| `transcription` | With late, failed and reordered answers: the keywords of a file share one row (`OneArchivePerFile`); a keyword that arrives while its recording is the latest, whose name no earlier name contains, is filed under its own recording (`FiledUnderOwnRecording`); each announcement is answered or fails, unless its message came in the object of the one before (`AnnouncedIsAnswered`). |
| `roundtrip` | Writes, allocations and updates of the header may fail, and the process may die at any step; then the file is opened and sought in. Frame numbers give positions (`NumbersGivePositions`), the check compares each frame with its own samples (`FifoHoldsSignal`), nothing is lost before a failure (`NothingLost`), a total in the header is true (`TotalIsTrue`), a failed write is final in spite of the retries (`WriteFailureIsFinal`), calls return (`CallsReturn`). The bounds of a seek stay around the target (`BoundsHoldTarget`), it ends (`SeekReturns`) and finds a sample of a finished file unless the end of the file was met (`FindsTarget`), and the sample heard is the one recorded there (`HearsWhatWasRecorded`). |
| `player` | Stereo, pauses, seeks, interrupts at any moment, seek errors, and one damaged block or none: values come in order, from the start or from where the last seek led, up to the damage, and every block fits the buffer (`HeardInOrder`), a pause takes effect within a block (`PausesWithinABlock`), a seek is not forgotten (`SeekIsKept`), and playing ends unless it is paused again and again (`PlayerEnds`). |

Runs that end in a violation. Each states what a comment or a declaration of
the repository says and finds that the code does otherwise; `PROJECT.json`
quotes the line.

| Run | The code |
|---|---|
| `encoder_destroy_hangs` | The writer waits without looking at `m_kill_writer`; a destructor that broadcasts before the first wait joins for ever. In the application that thread is the recording thread in its last lines, and `Recorder.stop()` waits for it on the UI thread. |
| `encoder_stereo` | Values are passed where libFLAC expects samples per channel; with two channels it reads values never stored. |
| `recorder_stop_hangs` | `run()` sets `mShouldRun` after the configuration search, over `stop()`'s false; the UI thread joins for ever. |
| `decoder_tail` | The end of the file is met by the fetch; what is not decoded by then is never read. |
| `decoder_position` | In a stereo file `position()` counts the values of both channels (`FLACStreamDecoder.cpp:464`) where `FLACStreamDecoder.java:124` says samples, and `FLACPlayer` reports twice the time. |
| `decoder_seek` | libFLAC delivers the target's block while it seeks, and `read()` discards it (`FLACStreamDecoder.cpp:219`): the sample that `FLACStreamDecoder.java:117` says one seeks to is never returned. |

Other oddities are in the models because they are in the code, and shape the
properties without a run of their own:

- the signal of `flush()` is lost like the destructor's broadcast if the writer
  has not waited yet, and the data then stays in memory until the next signal;
- after four failures the writer deletes the rest of its list, though `write()`
  has reported it as written;
- `mShouldRecord` is read at four places of a pass, so a read may find a device
  that was never started;
- a thread that is refused an encoder skips the release of the microphone, which
  is why `DeviceReleased` exempts it;
- twice `ERROR` is `ERROR_BAD_VALUE`, so a hardware error is taken for an
  unsupported configuration;
- an `init()` that fails is followed by the destructor, which locks a mutex and
  joins a thread that may never have been created: it comes back, or it does not
  (`Refused`);
- a target beyond the end is refused only in a file that says how many samples it
  has; in another it is searched for, and not found;
- `m_finished` is set by the fetch that meets the end of the file and never
  reset: a seek whose probe comes near the end makes every later probe fail;
- any error, one damaged block included, ends playing. The block after it is
  heard only if its data had been fetched, because the end-of-file callback
  returns `m_finished`;
- libFLAC's encoder state is never reset: after a failed write the retries find
  the verify FIFO a block short and can only fail, and `finish()` writes neither
  the last frame nor STREAMINFO;
- a retry after a failed allocation passes the whole entry again although a part
  of it was taken, so its samples are repeated (`FLACStreamEncoder.cpp:352`
  assumes nothing was); `md5.c:409-415` leaves its buffer NULL when it fails;
- `seekTo()` between `run()`'s reading the field and clearing it is lost, and a
  position of 0 is no request; `SeekIsKept` says what is left;
- nothing in the application calls `pausePlayback`, `resumePlayback` or `seekTo`:
  `MainActivity.java:227` and `FileListActivity.java:82` make a new player for
  each click. The interface is modelled as declared.

### Bounds, and why they are enough

- *Encoder*: a buffer of 2 elements and writes of 1 to 3 reach each path of
  `write()`: fits, exactly full, does not fit, larger than a buffer. Three
  samples make lists of up to three entries, so that a give-up leaves something
  behind. `RetryLimit = 3` is the code's. What three samples
  might miss, the proofs make up for.
- *Recorder*: two recordings, so that an error of the first can meet the
  second; two read or write errors each. Any encoder may
  lag, at a switch as at the end; in `recorder_stop_hangs` none does
  (`WritersMayLag = FALSE`), so that what it finds is due to the flag alone.
- *Recording*: for the chunks the code's own constants; 2400 ticks is beyond the drift. A read
  moves the clock by at most one tick (`Strides = {0, 1}`), that is, it
  holds at most 100 ms of audio. For the search the code's own 2 x 5 x 2 configurations, all answers.
- *Transcription*: two recordings, so that answers can be late; three
  announcements, so that the third empty answer stops a recording. Two message
  objects make reuse possible and avoidable. Two keywords.
- *Player*: 7 samples in blocks of 2, so that the last block is short; two
  channels; a rate of 1500, so that times and samples differ and rounding shows;
  positions at the start, in the middle and near the end; four requests, so that
  pause, resume and two seeks can meet in any order; the damaged block may be
  the second or the last, so that it is met, sought past and sought into.
- *Decoder*: `decoder_tail`, `decoder_position` and `decoder_seek` use an intact
  file of three blocks and the least that violates: one channel and no seek, two
  channels and no seek, one channel and one seek.
- *Round trip*: blocks of 2 and 7 samples in entries of 1 and 3, so that entries
  end before, at and after block ends and an entry spans two blocks. Frames of 8
  or 90 bytes and a reader of 60 bytes, so that a fetch ends inside a frame or
  beyond several, and the guess of a frame's size is wrong in both directions:
  every branch of the search is taken. Tails of 1 and 2 bytes: too short for a
  header, and a header without data.

Deadlock is not checked: every one of these systems may stop for good, as when
the encoder is destroyed, the bound on recordings is used up or the
player has come to the end or sleeps.

### Fairness

- *Encoder*: weak fairness of both threads' steps (the scheduler runs them),
  strong fairness of taking the mutex (it becomes free again and again, and a
  blocked thread gets it in the end). None of spurious wakeups, nor of the
  user's calls.
- *Recorder*: weak fairness of the UI thread's own steps, of each recording
  thread and of the writers' way to their first wait. None of buttons, nor of
  spurious wakeups. Errors are bounded by `MaxErrors`, reading nothing
  is not.
- *Transcription*: weak fairness of the looper's handlers and of the end of
  each request: HTTP requests end by an answer, an error or a timeout.
- *Round trip*: weak fairness of the thread that is in libFLAC, on either side.
  None of the calls.
- *Player*: weak fairness of the player's thread and of the second half of a
  request, the `interrupt()`. A sleep of ten minutes is never waited for, and
  nobody has to resume.

## 4. What is proved

TLAPS proves the following for all values of the constants. The only
assumptions are those declared with the constants: sizes and bounds are natural
numbers, buffers, blocks and rates are not zero, switches are Booleans. Beyond
that, `LibEncoderAssumption` has blocks of more than one sample (libFLAC refuses
less than 16), `RoundTripAssumption` has the decoder's metadata end where the
encoder's do, `DecoderAssumption` has damaged blocks begin where blocks begin,
and `PlayerAssumption` has positions within the file. Three theorems about the
rotation and the one about announcing in turn have a hypothesis of their own,
`ShortReads`: no read covers more than a tenth of a second. Without it they are
false (see section 5).

Two kinds of theorems come up in nearly every component. The first are the safety
properties of the runs, from an inductive invariant. The second are about
progress: that each step takes a component nearer to where it has to come, by a
measure among the natural numbers, or by several in order. From these, the fairness
of section 3 and the well-foundedness of the order the liveness property
follows; those last steps are the ones left to TLC. What the measures add to
its runs is that they hold for all sizes.

### `FLACStreamEncoderProofs`

`TypeCorrectness`, `BuffersNotOverrun`, `NoSleepOnWork`, `Drained`,
`NothingVanishes` and `ClosedAccountsForAll` follow from one inductive
invariant, `IInv` (theorem `Invariance`). Besides the types it says:

- `MutexInv`: who holds the mutex, from the program points.
- `CallerInv`: which buffers exist at which point of the JNI thread, and that
  `Fits` was established before the copy. It makes `NoBufferOverrun` inductive.
- `WriterInv`: at `sleep`, `check` and after the loop the FIFO is empty. This
  holds because the writer looks at the FIFO again under the lock it then
  keeps until it waits.
- `Chain`: the entries in the writer's list, the FIFO, the entry being pushed
  and the write buffer are one interval without gaps that ends with the last
  sample accepted. Without it nothing could be said of where a lost sample
  was. Its start is the `Frontier`.
- `NoSampleVanishes`: every sample before the frontier is encoded or dropped.

Lemmas `TailLinked` and `AppendLinked` carry `Chain` over the list operations;
`TakeEntry` moves the frontier over one entry; `HistoryGrows` keeps what was
encoded. There is one case per action in each step lemma.

`EncoderImplementsStream` proves `Spec => StreamSpec` for one channel. It adds
`SoFar`: until libFLAC fails, it has read exactly the samples before the
frontier. Each step then maps to `Accept`, `Persist`, `Close`, `Fail` or a
stutter. Neither condition can be dropped: `encoder_stereo` shows what two
channels do, and a writer that gives up leaves a gap.

The destructor's broadcast decides how it ends. `WaitedWriterEnds`: a writer that
has reached its first wait by then never waits again, and each of its steps
takes it closer to its end. The measure counts what is in the FIFO, what is
left of the list, the retries left for the entry and the place in the loop.
`MissedBroadcastIsFinal`: for one that has not, no step of the program but a
spurious wakeup ends the wait. This is the general form of
`encoder_destroy_hangs`. `PushedIsTakenUp` says of `flush()`'s signal what the first says
of the broadcast: the writer looks at the FIFO before it waits again. Here the
measure must not count the FIFO, which may grow in the meantime.

The runs do not repeat `SleepsOnlyWhenIdle`, `DrainedOnExit` and `NoSampleVanishes`,
which the proofs establish for every size.

### `RecorderProofs`

`TypeCorrectness`, `NoOverlap`, `StartIsClean` and `NothingHeldBack` follow from
`IInv` = `TypeOK`, `UiInv`, `StartFindsNoRecorder`, `ThreadInv`, `HoldInv`. `UiInv` ties the
UI thread's position to `mFLACRecorder` and `RECORDING`: inside `stop()` there
is a recorder, before a creation there is none and the bound is not used up.
`ThreadInv` says that recordings not yet created have no thread, and
`NoOrphanThread`. `HoldInv` says at which points a thread may hold the microphone
or an encoder: not before the search, nor at the last line. Every other point but
`refused` is a living thread's, and that one is the current recorder's. Stale error messages are harmless here because a handler
that finds another recorder also joins it.

`StopTells` and `ToldThreadsEndOrHang` divide what `StopReturnsOnceRunning` claims:
`stop()` tells a thread that is past the line that sets `mShouldRun`, and every
step of a thread so told brings it nearer to its end (`StepsLeft`, twelve at
most), wherever it was and whatever the other threads do. `HangsOnlyFor` says
where it may stay: it gets into the join of a destructor only while the writer of
one of its encoders lags, or when an encoder is refused, and then only a spurious
wakeup, which nothing is obliged to bring about, leads out. `OverruledForEver` is the other side: a thread
that sets the flag over `stop()` and enters its loop is never told again, and
the UI thread joins for ever. It is the general form of `recorder_stop_hangs`.

### `ChunkRotationProofs`

For recordings of any length, and encoders refused at any time. A round of the schedule has four stages: `SecondAlone`, `ThirdTakesOver`,
`ThirdAlone`, `SecondTakesOver`. Each bounds the clock between two of the four
switches of its round and says which chunk each encoder has, which of them the
data goes to and what was announced. `RotationInv` joins `TypeOK`, `StageInv` (the
rotation is in a stage of some round, or has not begun), `OpenInv` (what is open
from when), `CoverInv` (chunks follow one another without gap) and `EndInv`. The
stages are needed because the promise of one switch rests on the order of the
three before. They hold up to `CrossingTick`, 2248, where in the
eighth round `mEncoder2` is taken again before its last chunk is closed; what the code does after it is in the
model but nothing is claimed of it.

`EncodersAreReleased`, `AnnouncedInTime` and `ChunksAreSeamless` follow under
`ShortReads`; `RotationTypes` needs no hypothesis. `AnnouncedInTurn` is what
`Transcription` takes for granted of its announcements: they come in the order
of the chunks, none is passed over, some are made twice, and at the end at
most the last two are missing.

### `AudioConfigProofs`

For any number of formats, rates and layouts, and whatever the device answers.
`Rank` numbers the configurations in the order of preference, and the arithmetic
that its lemmas do (each of the three loops' steps is the next rank) is the
core. `SearchInv` is `SearchTypeOK`, `PlaceInv` (while searching, the place is the one
after those tried), `OrderInv` (the i-th tried has rank i) and `OutcomeInv` (all
before the last have failed). `FirstThatWorks` and `SearchTypes` follow.
`SearchIsBounded` is the end of the search: there are never more trials than
configurations. On the way it is proved that the search never ends with
`hardware_unavailable`: twice `ERROR` is `ERROR_BAD_VALUE`. `PhasesKeepApart`:
every behaviour of `RecordingThread` is one of the search and one of the rotation,
so what is proved of either holds of `run()`.

### `LibFLACEncoderProofs`

The invariant `IInv` is, besides the types: `Collecting` (how full the signal is
at each point), `Entry` (the entry holds consecutive samples), `Stuck` (after a
failed write the verify FIFO is shorter than the signal, so that no check can
succeed), `FramesInv` (all frames but the last are one block long and follow one
another in the file), `FifoHoldsSignal`, `NothingLost`, `Account` (the total and
the signature in memory are those of the frames) and `HeaderInv` (what is in the
header, by the stage `finish()` has come to). `FifoFollowsSignal`, `FileFollowsInput`, `NumbersArePositions`,
`HeaderIsTrue` and `RetriesAreFutile` follow. The overread sample is what makes
it delicate: a frame is only made when one more sample than a block has come,
and that sample stays in signal and FIFO.

`CallsGetNearerTheirEnd`: each step of a call makes another try, or takes more of
the entry, or, when it makes a frame, has a shorter way through the loop
(`Nearer`, lexicographically). The retries and the entry are bounded.

### `RoundTripProofs`

First the seek, for every file whose frames follow one another, with any gaps,
any sizes and any tail. `SeekInv` is `SeekTypeOK`, `StreamInv` (the file is one of
`Streams`), `BoundsHoldTarget` and `FindsTarget`. Neither of the last two is inductive
alone: a search that gives up at the lower bound has missed nothing only
because the bounds held the target. The products and quotients of the
interpolation do not matter to it: whatever the position, a probe narrows the
bounds truly. `TargetIsFound` adds the other side: a seek that succeeds ends in the
one frame that holds the target, because only a probe that hits it succeeds and
frames do not overlap. `SeekGetsCloser`: each turn of the search brings the bounds
closer (`Span`), or leaves them and has the next probe go further back (`Room`), which
is what the doubling of the estimate is for; once there is no room, it probes at
the lower bound.

Then the composition. `RInv` joins `IInv`, `SeekInv`, `BytesInOrder` (frames of the
recording follow one another in bytes and in samples), `PlaysRecording` (the open
file is the recording) and `LandsInFrame`. `RecordingsCanBeSought` proves
`RoundTripSpec => SeekSpec`: opening a recording is one of the seek's `Open`
steps, for a file that was finished, given up or cut off. `RecordingGoesOn` proves
`RoundTripSpec => Spec`: the encoder is not disturbed. So the theorems of either
hold of both (`BothSidesHold`). `WhatWasRecordedIsHeard` and `RoundTripTypes` follow
from `RInv`.

### `FLACPlayerProofs`

First the decoder. `ReadsInOrder`, `PositionCountsValues` and `DecoderTypes` follow from
`DecoderInv`, that is `TypeOK`, `FileInv`, `BufferInv`, `OrderInv` and
`PositionInv`. `Origin` is where the last seek led to and `Decoded` what was
decoded since, returned or not. `OrderInv` says that `Decoded` is the file from
`Origin` to `next`, and that after the damage reading is over. `BufferInv` says
that a second block in one call of `read()` would find the first to be the last
of the file; that is why moving `m_buffer` by values as if they were bytes does
no harm. `PositionInv` bounds the position by what is left, for after a seek it is
a sample and from then on it counts values. `PositionCountsValues` and
`SeeksSkipABlock` are what `decoder_position` and `decoder_seek` show, for all
sizes: the code does something else than its declarations say, and does it
always.

Then the player. `PausingIsPrompt` and `SeeksAreKept` follow from `PauseInv` and
`SeekInv`, which say where `run()` may be when a request comes in. `PlayerUsesDecoder` proves
`PlayerSpec => Spec`: a step of the player is a step of its decoder or none. With
it `PlaysInOrder` and `SeeksSkipABlock` follow from `DecoderInv`, and `PlayerTypes`
from `TypesInv`: a block is written to the track only if there is one, which
makes the reported position one in the file.

`PlayingMovesOn` gives `PlayerEnds` its measure, `ToPlay`: what is not decoded, the
seeks not yet made and the place in `run()`. Every step of the thread lowers it
but the one to sleep while it is to be paused; only a new seek raises it; it is
zero at the end only. And the thread is never asleep unless it is paused or
the interrupt that wakes it is there or about to come.

### `TranscriptionProofs`

`FiledUnderOneArchive`, `FiledInTime` and `TablesAreWellTyped` follow from
`TranscriptionInv`: `TypeOK`, `BegunInv` (no call, no row and no recording before
the first), `ChunksInv`, `RowsInv` (each recording has a row and matches its own
name) and `FirstRowInv` (a keyword's row is the first of its file). The last is
inductive because rows are only ever added at the end, and the row found is the
least of all that match.

`EachCallAdvances` gives `AnnouncedIsAnswered` its measure: an announcement has at
most four steps to go, each step that touches it leaves fewer, and it is
dropped only if its message came in the object of the one before. For the
last, `HandlersInv` says where the messages before and after one stand, and so
`HandlersTakeInTurn`: both handlers take them in their order, and only the
requests are answered in another.

### What is only model-checked

- Liveness (`DestroyReturnsOnceWriterWaited`, `SignalReachesEncoder`,
  `StopReturnsOnceRunning`, `ErrorEndsRecording`, `AnnouncedIsAnswered`,
  `CallsReturn`, `SeekReturns`, `PlayerEnds`). For all of them but
  `ErrorEndsRecording`, progress by a measure is proved; that the steps are taken,
  which is a matter of fairness and `ENABLED`, and that a measure cannot fall
  for ever, an induction, are beyond the prover. Of `ErrorEndsRecording` only
  its last part, the end of a thread that was told, is proved.
- The invariants of passing runs are all proved, and their action properties too.

## 5. What is not modelled

- Amplitude metering and the durations: nothing but a display depends on them.
- The JNI wrappers. In `FLACStreamEncoder` an `init()` that fails
  (`FLACStreamEncoder.cpp:602-620`); `Recorder` has it as an encoder that is
  refused, whose destructor may or may not return.
- The bits of a frame: prediction, residual coding, bit reader and writer,
  checksums. A frame is decoded to the samples it was made of, or is damaged.
  That a false header is found inside a frame is left out, as is more than one
  damaged block, and a disk that fails while it is read.
- Failing allocations other than the one of `md5.c`, which can fail at the first
  frame only, and failures in the middle of writing a frame's bits.
- Seek tables (`stream_decoder.c:3016-3066`): the application's files have none.
- The rest of the vendored code: libFLAC's metadata editor, Ogg layer and C++
  wrapper, the `flac` and `metaflac` tools, their tests, and libogg. It makes up
  most of the repository's lines; the application neither calls it nor builds
  the files it is for.
- Reads of more than one tick in `ChunkRotation`: they can step over a
  switch, and the schedule has no remedy.
- The activity's life cycle: the code has no `onPause` or `onDestroy`. A player
  whose constructor throws leaves its decoder to the finalizer.
- Database updates, lists, categories, the upgrade of the schema, the screens
  that show rows, logging and path conversion.

## 6. Plan

Done, in this order: encoder, its abstract specification and proofs; recorder
and proofs; rotation and configuration search; transcription; decoder; libFLAC's
encoder and seek, their composition and proofs; player, damaged files and proofs;
transcription's proofs; the rotation's and the search's; the progress of each
component, and the two ways in which it hangs.

What would come next:

1. A failing `init()` and the destructor after it, in `FLACStreamEncoder`
   (`FLACStreamEncoder.cpp:602-620`).
2. `ChunkRotation` with longer reads, and composed with `Transcription`:
   duplicate and missing announcements seen from the database.
3. Several damaged blocks, and a disk that fails, in `FLACStreamDecoder`.
4. `FLACStreamEncoder` composed with `LibFLACEncoder`, in place of an encoder that
   may fail at any entry.
