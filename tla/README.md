# BoWWServer: a TLA+ verification project

BoWWServer is a voice gateway. Wake-word clients connect over WebSocket, report
a confidence score when they hear the wake word, and stream audio; the server
arbitrates between the clients of a group, checks the winner's audio with its
own model, and sends the audio to an ALSA device or to a WAV file until nobody
speaks any more. This directory holds TLA+ models of the program, TLC
configurations that check them on small instances, and TLAPS proofs of the
safety properties for instances of any size.

## 1. The system

### Threads and locks

| Thread | Runs | Locks |
|---|---|---|
| io (the main thread) | `BoWWServer::OnOpen`, `OnClose`, `OnMessage` | `sessions_mutex_`, then `group_mutex_`, then `GroupController::mutex_`, then `device_mutex` |
| ticker, every 10 ms | `GroupController::OnTick` of every group | `group_mutex_` around all of it, then as above |
| watcher, every 2 s (detached) | `ConfigManager::ParseYaml` and its callbacks | `group_mutex_` or `sessions_mutex_` in the callbacks; none around `valid_clients_` |
| one worker per ALSA device | `ProcessQueue`'s lambda, `PlayWavFile` | `device_mutex`, once per block |

### Components, their state and what makes them correct

* **GroupController** (`src/src/GroupController.cpp`). State: `state_` (IDLE,
  ARBITRATING, STREAMING), the offers of the round and the best of them, a
  buffer of audio per client id, the winner's id, the two output flags.
  Operations: `HandleConfidenceScore`, `HandleAudioStream`, `OnTick`. Correct if
  the best offer wins, nobody who offered is forgotten, no audio is lost or
  repeated when the buffer is flushed and live audio follows, the output is held
  exactly for the length of the stream, rounds are decided and streams end.
* **Wake-word gate** (`ValidateAuthoritativeWakeword`). A pure step machine over
  the probabilities the network gives per frame, in three modes. Correct if it
  computes the attack/hold/decay envelope it is meant to, and terminates.
* **Voice activity detection** (`ProcessVADFrames`, `WindowAverager`). A window
  of two hops, an average of 15 answers, the network's states; decides when
  `last_voice_time_` moves. Correct if the window is contiguous audio of this
  stream, and the voice time is that of the last frame at which the average of
  the last 15 answers was above the threshold, whatever came before the stream.
* **ClientSession, BoWWServer**. One session per connection, with the GUID and
  group it said hello with; `group_mutex_` serialises all groups. Correct if
  messages act for the id that is current when they are handled, and a client is
  never left believing it should stream.
* **AlsaSinkManager** (`src/src/AlsaSinkManager.cpp`). Per device: FREE,
  LIVE_BUSY or FILE_BUSY, the PCM handle, a queue of recordings, a worker
  thread. Correct if one stream at a time has the device, recordings are played
  once, in order, in one piece, nothing is stranded, and no thread waits for a
  thread that waits for it.
* **WavWriter**. A temp file, a 32-bit byte count, and a publication in three
  steps (copy, remove, JSON trigger). Correct if a header never promises more
  than its file has, everything on disk is accounted for wherever the process
  ends, and what was published is not overwritten.
* **ConfigManager**. The parsed YAML, the valid GUIDs, the watcher, and the
  onboarding of clients: the administrator writes a temporary id into the file,
  the server sends the GUID and edits the file.
* **SimpleAGC**. A delay line of five chunks, made for the size of the first, and
  a gain. Correct if it delays, and neither loses nor moves a sample nor writes
  past a chunk.
* **TFLiteRunner**. The states a network carries from frame to frame. Correct if
  a checked stream starts without the memory of an earlier one.
* **pffft**. A setup (factors, table of twiddle factors) and transforms that go
  back and forth between buffers. Correct if table, passes and buffers fit.
* **main, BoWWServer's constructor, Run, Stop and destructor, MDNSService**: four
  threads, two of them detached, a signal handler, and members destroyed in the
  reverse order of their declaration. Correct if a signal ends the process, the
  recording at work is published, and nobody uses what is destroyed.
* **FeatureExtractor, weights**: signal processing and numbers; no control state
  of the program's own.

Components interact by calls under the locks above. What is hard: `SetGUID` runs
without `group_mutex_` while the ticker may be inside the neural network with
it; sessions are matched by pointer in some places and by GUID in others, and
one GUID may have several sessions; a disconnection is not reported to the
controllers; the worker gives `device_mutex` up between blocks; two calls of the
sink manager let go of it in the middle; `ProcessQueue` and the destructor join
a thread while holding it; files are published in steps that can fail one by
one. `PROJECT.json` lists these hazards line by line.

## 2. The modules

| Module | Models | Abstract counterpart |
|---|---|---|
| `GroupController` | one controller with its sessions, the messages of `OnMessage` that reach it, and the ticker | `WakeArbiter` |
| `AlsaSinkManager` | one device, its worker, the groups that share it | `SinkArbiter` |
| `BoWWSystem` | `AlsaSinkManager` composed with several groups, whose clients move between them | that of the sink |
| `AlsaShutdown` | `AlsaSinkManager` with the manager's destructor | |
| `Onboarding` | `ConfigManager` with its watcher, `clients.yaml` and its administrator, enrollment and hello in `BoWWServer` | |
| `WakewordGate` | `ValidateAuthoritativeWakeword` frame by frame | the definitions on whole sequences in it |
| `AudioPath` = `SimpleAGC` + `TFLiteRunner` + `WindowAverager` | what happens to a group's audio, over several streams | the definitions on the whole history in it |
| `WavWriter` | the writer, its files and their names | |
| `Lifecycle` | `WavWriter` in the process from `main` to its exit | |
| `FFT` | plan, table and buffers of pffft | `Program`, the list of steps, in it |
| `MCGroupController`, `MCOnboarding`, `MCWakewordGate`, `MCLifecycle` | symmetry sets, files and configurations for TLC | |
| `GroupControllerProofs`, `OnboardingProofs`, `WakewordGateProofs`, `AudioPathProofs`, `FFTProofs` | theorems about the module each is named after | |
| `BoWWSystemProofs` | theorems about `AlsaSinkManager` and, on them, about `BoWWSystem` | |
| `LifecycleProofs` | theorems about `WavWriter` and, on them, about `Lifecycle` | |
| `WindowAveragerProofs` | lemmas about the averager, for the gate and the audio path | |

How they fit together: `GroupController` takes the gate's verdict, the VAD's
answers and the device's grant as nondeterministic choices. `WakewordGate` says
how the verdict comes about, `AudioPath` how the answers move the voice time,
`AlsaSinkManager` when a grant is given, and `BoWWSystem` joins the last one with
the phases of several controllers, leaving out what `GroupController` already
shows (scores, buffers, ids shared by sessions). `WavWriter` is the file that
`GroupController` opens and publishes; `Lifecycle` extends it by the threads that
may be in the middle of it when the process ends.

### GroupController

The variables carry the names of the fields. `conn` and `guid` are the sessions
(`fresh`: not connected yet; `closed`: gone from `sessions_`, though a
controller may still hold a pointer to it). Time is kept as ages, in ticks, of
`arbitration_start_time_` and of each session's `last_voice_time_`, capped at
the timeout they are compared with. `told`, `leased`, `verified`, `arrived`,
`output` and `queued` are history: what a client was last told, whether the
device was granted and not given back, the id whose audio the last check
accepted, the messages accepted under each id, what the output has received,
and what the last `QueueWavFile` was handed.

A handler is one action because it runs under `group_mutex_` and `mutex_`. Two
things are finer. `SetGUID` takes neither lock, so it may happen while the
ticker is in the middle of a decision; it then leaves the io thread waiting for
`group_mutex_` (`io_blocked`), which is why at most one can happen per tick.
And `OnTick`, which reads ids at three places far apart, is split there.
`CheckTrigger` reads the best candidate's to choose the audio it checks, and the
network runs over that (`GroupController.cpp:255`). `StartStreaming` reads it
again and fixes it as the stream's (line 274), opens the device or the file, and
puts the pre-roll through AGC, output and VAD, which may block for as long as the
device takes. `AnswerCandidates` compares every candidate's with the stream's
(line 340). A check that fails ends in `AbortTrigger`. Lines 255 and 256 are one
read, since nothing but a map lookup is between them; the loop of line 339 is one
because with at most one hello in the tick, what the loop does to that session is
what it would do before the hello or after it. The race of `SetGUID` with these
reads, on a `std::string` without a lock, is undefined behaviour in the code;
what is modelled is that each read has the old id or the new one.

| Code | Action |
|---|---|
| `OnOpen`, `OnClose`, hello | `OnOpen`, `OnClose`, `SetGUID` |
| `HandleConfidenceScore` | `HandleConfidenceScore` = `StartArbitration` or `JoinArbitration` |
| `HandleAudioStream` | `HandleAudioStream` = `BufferAudio` or `StreamAudio` |
| `OnTick` | `CheckTrigger`, `AbortTrigger`, `StartStreaming`, `AnswerCandidates`, `StopStreaming` |
| the clock | `Tick` |

A message that a handler drops changes nothing and has no action (a score while
STREAMING, audio while IDLE or from another id). A binary message is the pair of
its id and its number; what the VAD and the network say, whether the device is
granted and whether a file opens or is published are nondeterministic. Messages
have at least one sample: an empty one would only create an empty buffer.

### AlsaSinkManager

All calls come under `group_mutex_`, so there is one `caller`, interleaved with
the `worker` thread. Every section under `device_mutex` is an action; where a
call gives the mutex up and `ProcessQueue` takes it again, the caller is at
`"unlocked"`; inside `ProcessQueue`, which joins the old worker under the mutex,
it is at `"joining"` and the worker's locked sections are disabled. Streams are
numbered in the order they start, and a recording is known by its stream's
number. `Publish` gives the three outcomes of `WavWriter::CloseAndPublish`.
`heard` is the history of what the device played. Different devices share no
state but `global_mutex_`, which is never held while another lock is waited for
except in the destructor, so one device is enough.

`AlsaShutdown` adds the destructor: it takes `device_mutex`, closes the handle
and joins the worker under the mutex. By then the ticker has been joined and the
io loop has returned, so only the worker runs.

### Onboarding

`ParseYaml` runs in the main thread first (`LoadConfig`) and in the detached
watcher from then on, so one variable, `at`, says where it is. Between any two
of its steps the administrator may save, delete or restore the file and the io
thread may handle messages. The file is its lists of groups, clients and
requests (`onboard_temp_id`); a file with a mistake is one on which the parse
fails at some point, after having acted on the nodes before it. Time stamps are
a count of writes; two writes never share one. `Missing` is a file that does not
exist, `Truncated` one that an `ofstream` has just opened.

| Code | Action |
|---|---|
| `StartWatching` | `FirstLook`, `Poll` |
| `ParseYaml` | `LoadFile`, `ConfigureGroups`, `Onboard`, `Commit`, `Throw` |
| `SafeRemoveOnboardTempId` | `ReadLines`, `Truncate`, `WriteBack` |
| `OnGroupConfigChanged`, `OnClientOnboarded` | in `ConfigureGroups` and `Onboard` |
| `OnOpen`, `OnClose`, enroll | `OnOpen`, `OnClose`, `AssignTempID` |
| hello, `IsGUIDValid` | `HelloKnown`, `HelloAdmit`: its two lookups |
| the administrator | `Save`, `Delete` |

`first`, `loaded`, `wanted`, `asked`, `sent`, `refused` and `listed` are
history: the stamp of the watcher's first look, the clients of the last file
parsed to its end, what was saved last, how often each request was saved and
answered, whether the server was ever refused the file, and every pair of GUID
and group it was shown.

### WakewordGate and WindowAverager

One action per frame, one for the end of the buffer. Probabilities, thresholds
and ratios are whole percent. An average is kept as the sum of the `hold` values
of the window, and what the code compares with an average is multiplied by
`hold`, so there is no rounding in the model (there is in the code).

| Code | Action |
|---|---|
| ratio mode's loop | `CountFrame` |
| envelope loop, not armed | `UnarmedFrame` |
| envelope loop, armed, with the early exit | `ArmedFrame` |
| after either loop | `EndOfBuffer` |

`frames` and `smoothed` are history: all probabilities and sums so far. On them
the reference definition is stated: `AttackAt(k)` (the last `attack` frames up
to k are hits), `ArmedAt(k)` (the first such k), `ReleasedAt(k, i)`,
`ClosedAt(k, i)` (the first release after k), `EnvelopeAccepts`. The loop keeps
a counter, a flag and a peak in their place.

Two things the definition has because the code has them, and which no text of
the repository settles: a buffer that ends before the gate has closed is
rejected, so a winner who speaks on through the arbitration timeout fails; and
in leading mode the release line is never below 5 %, so an average as low as
that validates the word without a drop by `decay` from the peak, which is all
that `src/README.md` speaks of.

### AudioPath, SimpleAGC and TFLiteRunner

All of this runs in one call under the controller's mutex, so it is one thread;
what makes it hard is that AGC, window, averager and network belong to the
controller and carry their state from stream to stream, while only some of them
are reset, each at a place of its own. A sample is its number (0 is silence), so
where it comes out says everything. When streams start and end is
`GroupController`'s business; here a stream starts with any pre-roll, empty ones
included, and ends between any two chunks. What comes out of the network is any
level; an `Invoke` may fail at any frame, and the score of the frame before is
then used again, as in the code. A state of the network is the set of streams
that had an influence on it.

| Code | Definition |
|---|---|
| `SimpleAGC::Process` | `Primed`, `Pushed`, `NextLine`, `OutChunk`, `Processed`, `Overruns` |
| `TFLiteRunner`'s constructor, `infer`, `reset_states` | `Boot`, `Infer` or `InferFails`, `ResetStates` |
| `WindowAverager::reset`, `process` | `Reset`, `Process` of `WindowAverager` |
| `OnTick`, the flush; `ValidateAuthoritativeWakeword`'s use of the network | `StartStream`, `AfterCheck` |
| `HandleAudioStream` | `LiveChunk` |
| `ProcessVADFrames` | `Frame`, `Judge`, `EndOfChunk` |
| the end of a stream | `StopStream` |

`all_sizes`, `received`, `passed`, `began`, `voiced` and `checked` are history,
on which the definitions are stated. What is written past the end of a chunk has
no defined outcome; `overrun` is set and the model ends there.

### WavWriter

One writer, one group that records with it, and the files. Names carry the time
in whole seconds, so a file is known by its second (those of one client; group
and client are the rest of the name). Sizes are counted in chunks, modulo
`SizeLimit`, for the 32 bits of `data_chunk_size_`. Every step of
`CloseAndPublish` is an action, and a copy has two, between which the
destination is incomplete; each may throw, which ends the rest. A write that
fails makes the stream `good = FALSE` and nothing more gets into the file, not
even the header, while the size is counted on. A crash is the end of the
behaviour at any state, so what the invariants say of the files they say of
every crash. `config.place` is where the recording goes: to `dest_dir`, which may
be `temp_dir` itself, or to a queued file for a device. The model has one clock.
The code times streams by `steady_clock` and names files by `system_clock`, so
`NothingOverwritten` assumes that nobody sets the wall clock back.

| Code | Action |
|---|---|
| `Open`, `WriteHeader` | `Open` |
| `Write` | `Write` |
| `CloseAndPublish` up to `file_.close()`, `UpdateHeaderSizes` | `Close` |
| `copy`, `remove`, the trigger, `catch` | `StartCopy`, `EndCopy`, `Remove`, `WriteTrigger`, `Throw` |
| the names in `OnTick`, the clock | `NameAt`, `Tick` |

### Lifecycle

`WavWriter` inside the process. The main thread goes from the arguments through
constructor, `LoadConfig`, `Run` and the destructor, which destroys the members
one by one in the reverse order of their declaration (`Members`, those that
matter). `Signal` is the handler, between any two of its steps; it calls `Stop`
if `g_server` points to a server. The ticker, the device's worker, the watcher
and the mDNS poll loop are threads of their own; the last two are detached.
`stale` records who used a member after its destruction.

`queue`, `audio` and `worker` are the group's recordings in the device's queue,
the one being played, and where the worker is. A recording is queued under its
name whether or not its file was opened and published, and after playing it, or
as much of it as there is, the worker writes the trigger of that name once more,
from the metadata the group made before it opened the file. These have no
`duration_ms`: the trigger that reported the length is replaced by one that does
not (`NoLength`), and one appears where there was none. The other groups of the
device are there in what they do to its worker (`OthersStop`, and that
`ProcessQueue` may do nothing because one of them streams).

| Code | Action |
|---|---|
| `main` | `ParseArgs`, `PublishServer`, `Exit` |
| `BoWWServer::BoWWServer`, `MDNSService::Start` | `Construct` |
| `Run` | `LoadConfig`, `StartTicker`, `Listen`, `RunReturns` |
| `Stop`, the signal handler | `Signal` |
| `~BoWWServer`, `MDNSService::Stop` | `StopAll`, `JoinTicker`, `Destroy` |
| `~GroupController`, `~WavWriter` | `CloseInDtor`, `PublishInDtor`, `EndLiveInDtor` |
| the ticker's loop | `CheckRunning`, `NothingToDo`, `StartLive`, `StartRecording`, `StopLive`, `StopRecording`, `PublishInTick`, `Published`, `OthersStop` |
| `OnMessage` with audio | `Audio` |
| the worker's lambda, `PlayWavFile` | `TakeNext`, `QueueEmpty`, `Play`, `TriggerPlayed` |
| the watcher, Avahi's callbacks, `avahi_simple_poll_loop` | `Reload`, `ClientCallback`, `PollQuits` |

The signal handler runs `endpoint_.stop()`, which takes a lock of the io loop.
If it interrupts the loop while it holds that lock the process is `"hung"`.

### BoWWSystem

`AlsaSinkManager`'s variables and actions with several controllers as its
callers, instead of callers that do anything. `StartStreaming` is a round's end
with `RequestLiveStream`, `AnswerCandidates` the write of the pre-roll and the
answers, `StopStreaming` the timeout with `CloseLiveStream` or `QueueWavFile`. A
session that says hello in a second group keeps one `last_voice_time_`, and each
group may tell the client something else. Handlers and other groups' ticks need
`NoTick`: all of them run under `group_mutex_`, and so do the flush and
`ProcessQueue`. A hello may come during the flush (`answering`), with the same id
or another, and then the io thread waits (`io_blocked`); `crossed` records the
streams whose winner said it.

| Code | Action |
|---|---|
| hello, `OnClose` | `Hello`, `Disconnect` |
| `HandleConfidenceScore`, `HandleAudioStream` with voice | `HandleConfidenceScore`, `Voice` |
| `OnTick` of a group | `AbortTrigger`, `StartStreaming`, `AnswerCandidates`, `StopStreaming` |
| the worker, `ProcessQueue` | `Sink` |

### FFT

A behaviour makes one setup and some transforms with it. `decompose` divides by
the factors in the order the code tries them; `Twiddles` fills the table factor
by factor, with the index arithmetic of `rffti1_ps` and `cffti1_ps`, a cell
holding which multiple of the angle it has; a pass reads the table at the place
where `rfftf1_ps`, `rfftb1_ps` or `cfftf1_ps` has moved its pointer; buffers hold
the list of steps that made their content. The reordering is an operator on
vectors. The models use `SIMD_SZ = 4`, as the SSE and NEON builds do. What a
butterfly computes is left out.

## 3. What TLC checks

| Run | Shows | Bounds |
|---|---|---|
| `group_safety` | `TypeOK`; `RoundConsistent` (the best offer is the earliest highest one, buffers are complete, who waits is listed, phases reset each other's fields); `OnlyWinnerStarted`; `OutputHeldByStream`; `EveryCandidateAnswered` (a decided round leaves nobody waiting but those under the id it streams, and its winner started, if no hello came within the tick); `StreamFaithful` (the output is the winner's audio, complete, once, in order); `FlushIsChecked` (what is flushed was accepted by the check) | 3 sessions, 2 GUIDs, 2 scores, rounds of 3 offers, 2 numbered messages per id |
| `group_liveness` | `ArbiterSpec` (implements `WakeArbiter`, liveness included), `StreamEnds` | 2 sessions, 2 GUIDs, 2 scores, 2 frame counts |
| `sink` | `TypeOK`, `SinkConsistent`, `NoStrandedQueue`, `JoinNeverBlocks`, `HeardInOnePiece`, `PlayedOnce`, `ArbiterSpec` (implements `SinkArbiter`, liveness included) | 3 groups, 4 streams, files of up to 2 blocks |
| `system` | `SignalsAgree` (whoever was told to stream is the winner of some stream, and a winner that stayed, and said no hello while its pre-roll was written, was told so); `EverythingEnds` (streams end and recordings leave the queue, however groups share device, ticker and sessions); `RoundsDecided` (no group keeps another's round from being decided) | 2 groups, 2 sessions, 2 streams |
| `onboarding` | `UpToDate` (a watcher that sees nothing new has loaded what is in the file); `RequestOnce`; `AdmittedWasListed`; `ConfigTakesEffect` (what is saved and left alone is in force in the end) | 1 session, 2 GUIDs, 1 address, 3 contents, 2 edits |
| `wakeword_gate` | `VerdictCorrect` (the loop decides as the definitions on whole sequences do); `SmoothedIsMovingAverage` | 8 configurations, 4 probabilities, buffers of up to 7 frames |
| `audio_path` | `PureDelay` (with chunks of one size the AGC is a delay and nothing else); `LineMatchesChunk` (it writes past a chunk exactly when the chunk is shorter than the one `DelayChunks` before it); `WindowContiguous`; `VoiceClockCorrect`; `NetworkFresh` | 2 streams of up to 3 chunks, of 1, 1½ and 2 hops; 2 delayed chunks; an average of 3 |
| `lifecycle` | `HeaderHonest`; `FilesAccountedFor` (a trigger that reports a length has a whole WAV, of that length if nothing failed; one that reports none was written by the device's worker, and is without a WAV only if something failed); `NothingOverwritten`; `StaleExplained` (who may use a destroyed member: not the ticker, and the signal handler only after `listen` threw); `StopPublishes`; `SignalEnds` | 3 clock ticks, 2 to a second; recordings of up to 2 chunks, of which 32 bits count 2 |
| `fft` | `FactorsFit`; `TwiddlesRead`; `ResultInOutput`; `ReorderUndone` | 14 sizes, 2 transforms with each setup |

Why the bounds are enough.

* Groups: three sessions with two GUIDs give a winner, a loser and a second
  session with the winner's GUID; three offers give a lead, a tie and an
  overtake. Two numbered messages give one that is flushed and one that follows
  it; beyond `MaxChunks` messages still act on the timeouts but are not numbered.
* Sink: four streams give one live, one playing, one queued and one that asks.
  The system needs two groups, one of which holds the device while the other
  records, and two clients, one of which moves.
* Onboarding: sessions meet only in what they are sent, so one shows what the
  file's edits do, and the invariants are proved for any number; one address makes
  every reconnection reuse a temporary id; two
  edits give one that is lost or noticed late and one that follows; the contents
  are an ordinary file, one with two requests and one with a mistake.
* Gate: seven frames fill a window of three twice, and hold an attack that is
  broken off, one that succeeds, and a release; the configurations include an
  attack longer than the window, an attack of 0, an unknown mode and the check
  switched off.
* Audio: two streams give a state that is carried over; three chunks and a
  pre-roll are more than the line delays and more frames than the average has;
  a chunk of one and a half hops leaves a rest.
* Life: three ticks give a recording that ends, its publication, the playing of
  it, and a second one in the next second; two chunks wrap a count of two. There
  is no time in it for two recordings of the group in the queue at once: their
  order is the `sink` run's subject, and the theorems about the files are for
  queues of any length.
* FFT: the sizes have one to five factors, every factor, mixtures of them, the
  smallest at which the reordering has something to wrap, and one, 224, that has
  a factor 7 and is refused. 1024 real points are what `FeatureExtractor` uses.

The bounds are `MaxOffers`, `MaxChunks`, `MaxStreams`, `MaxBlocks`, `MaxSaves`,
`MaxFrames`, `MaxTime`, `MaxWrites` and `MaxCalls`, and the timeouts count 1 or 2
ticks. The proofs below hold for all values of these.

Runs without the deadlock check are of models that stop: `sink` and `system`
when `MaxStreams` streams are over (that nothing waits for ever there is
`JoinNeverBlocks`, `RoundsDecided` and the liveness of `ArbiterSpec`),
`wakeword_gate` with its verdict, `audio_path` after `MaxStreams` streams or an
overrun, `fft` after `MaxCalls` transforms or a refused size, `onboarding` when
the administrator has made `MaxSaves` edits and the io thread has nothing to do,
and `lifecycle` with the process, which ends, or hangs in one of the two ways
that `SignalEnds` names.

Three runs show a disagreement between the code and what its texts say
(`findings` in `PROJECT.json` quotes them):

| Run | Shows |
|---|---|
| `checked_audio` | a hello during the check exchanges the id, so that audio that was not checked is streamed |
| `safe_removal` | removing a temporary id writes back what was read before, over an edit saved in between |
| `shutdown` | the manager's destructor and the worker it joins wait for each other |

Reading the code for the models showed more of them, which need no run to see:

* A winner whose audio has not arrived when the arbitration timeout passes is
  streamed without any check (`GroupController.cpp:254`; the repository's
  `README.md:10` has the pre-roll checked first). `FlushIsChecked` is about what
  is flushed.
* A recording whose file did not open or was not published is queued all the
  same (`GroupController.cpp:361`); `AlsaSinkManager.h:46` speaks of a
  finished WAV. `Publish` in `AlsaSinkManager` has that outcome.
* The trigger of a recording is on disk before the recording is played
  (`GroupController.cpp:357`); `AlsaSinkManager.cpp:214` has it after playback.
  The one written then replaces it and has no `duration_ms`, and it is written
  for a recording without a WAV too. `FilesAccountedFor` tells the two apart.
* A winner that says hello with another id of its group while its pre-roll is
  written is told START and then STOP, and its stream runs on without it; a loser
  that takes the winner's id in that time is told nothing
  (`GroupController.cpp:337`, `:340`, `BoWWServer.cpp:124`). The exceptions in
  `EveryCandidateAnswered` and `SignalsAgree` are these two.
* The AGC writes past the end of a chunk that is shorter than the one five
  before it (`SimpleAGC.h:31`); `LineMatchesChunk` is the exact condition. Its
  last five chunks of a stream come out at the beginning of the next one.
* A group that exists is not updated when its configuration changes, although
  the change is logged (`BoWWServer.cpp:24`).
* The mDNS service is always advertised with port 9002 (`BoWWServer.cpp:46`).
* `clients.yaml` is emptied and then written: a crash in between leaves a file
  without clients (`ConfigManager.cpp:30`; `Truncated` in `Onboarding`).
* "Shutdown complete" is printed by `main` while the server still exists; the
  destructor runs after it.

### Fairness

* `GroupController`: weak fairness of `OnTick`, because the ticker thread calls
  it every 10 ms while the server runs, and of `Tick`, because time passes. No
  client action is fair. `StreamEnds` excepts voice that is heard again and
  again: the code has no maximum length of a stream.
* `AlsaSinkManager`: weak fairness of the worker and of a caller inside
  `ProcessQueue`: threads run. Nothing makes a group end its live stream, so
  `SinkArbiter` promises only that a free device takes the next recording.
* `BoWWSystem`: the same two together, weak fairness of `OnTick` for each group,
  because the ticker's loop calls it for every group in turn and none of them can
  keep the loop, and of `Clock`. With it `EverythingEnds` needs no assumption
  about live streams but that nobody speaks again and again.
* `Lifecycle`: weak fairness of the main thread and of the ticker: the process is
  scheduled. Signals, messages, the clock, the worker's steps, the watcher and
  Avahi are not fair, so nothing depends on them; a worker that plays for ever is the
  second way in which a stop may hang.
* `AlsaShutdown`: the same, and the destructor's return.
* `Onboarding`: weak fairness of the thread that parses and polls; it runs as
  long as the process does. The administrator and the clients are not fair.
  `ConfigTakesEffect` asks for a file that is left alone, well-formed, and not
  the one the watcher saw first.

## 4. What is proved

Every proof module follows one argument: an inductive invariant holds initially,
is kept by every step, and implies what is stated. What is inductive, and why it
is needed:

* **Controller and sink**: `IInv` is the conjunction of the invariants TLC
  checks; none of them is inductive alone. For the controller, `StreamFaithful`
  at the flush needs `BuffersComplete`, which at the start of a round needs that
  IDLE leaves no message counted (`PhaseConsistent`); `EveryCandidateAnswered`
  needs `WaitingListed`, and, from the choice of the winner to the answers, that
  the winner is under the stream's id unless a hello came (`WinnerHeld`); the award
  of the refinement needs `BestOfRound`. For the
  sink, the type invariant of the history needs `SinkConsistent`; that closing a
  live stream frees the device needs that no other group is live, which follows
  from `PlayedOnce` (streams are distinct); `HeardInOnePiece` needs both, to know
  that what plays has not been played before. Each conjunct has its own step
  lemma, with a case per action.
* **System**: every step of the composition is one of the sink's or leaves the
  sink alone (`SinkSteps`), so the sink's `IInv` holds of it as proved. On it
  rests `SystemInv`: a group has a winner exactly while the sink has a stream of
  its (`Phases`), a session that has not moved is known to one group only
  (`AtHome`), so that a loser of another group's round cannot be a winner, and
  until the candidates are answered the winner is one of them (`WinnerListed`).
* **Onboarding**: `UpToDate` speaks of the watcher at rest, so `IInv` follows the
  stamps through the parse: `SnapshotFresh` (a stamp taken before reading that is
  still the file's means that the snapshot is the file), `LoadedFresh` (the same
  of the stamp taken over and the clients loaded), `StampsOrdered`.
  `AdmittedWasListed` needs the same of what is about to be admitted
  (`HelloListed`, `ValidListed`). `RequestOnce` needs that as long as
  a request may still be answered, being in the file or in what the parser has
  yet to act on, it was answered less often than saved (`AnswersOwed`).
* **Gate**: `IInv` says what the loop's variables stand for. Before arming, the
  counter is the length of the run of hits at the end and no attack was complete
  before (`Unarmed`); after it, there is a frame k at which the gate was armed,
  the count is the distance from it, the peak is the largest average since k, and
  nothing since k releases (`Armed`); the ratio's counter is the number of hits
  (`Counted`). `AverageInv` adds `WindowKept`, what the averager holds.
* **Averager** (`WindowAveragerProofs`): `Holds` says that from its head on the
  circular window has the last numbers given to it, oldest first, with the fill
  value for those not given yet, and that the sum is theirs. `ResetHolds` and
  `ProcessHolds` are what the gate and the detector cite. The sum of a growing
  sequence is a difference of two totals (`MovingSum`), so that one step changes
  it by one number that comes in and one that goes out (`SumSlides`).
* **Audio path**: `PathInv` says that chunk j of the line has the size of the
  chunk that went in there (`LineInv`), and that, with chunks of one size, the
  samples in it are the ones that have not come out yet (`ContentInv`). `NetInv`
  follows what is in the network's inputs through reset, inference and failure;
  it needs that states without an output are never written (`RestIsZero`).
  `ClockInv` says that the averager holds the live answers with voice before the
  first, from the end of the flush on: what the flush left in it is gone with the
  reset there. `ContiguousInv` keeps the window place by place (`WindowInv`),
  because the slices in which the property is stated do not survive a step; it
  needs that the chunk at work is the end of what was passed on (`TailInv`) and
  that whole hops of it are left (`HopInv`).
* **Writer**: `WriterInv`. The step of the publication decides what is on disk
  (`Control`, `CopyHonest`, `CopyDone`); the count is the file's size as long as
  nothing failed or wrapped (`CountHonest`); the names of later seconds are
  unused (`NamesUnused`), which, with the second between streams (`Spaced`), is
  why nothing is overwritten.
* **FFT**: `PlanInv`, in five parts.
  - `FactorInv`: every prefix of the factors divides n, and what is left is
    divided by what is left of the last one (`Factored`, `Quotient`); what has no
    factor 2, 3 or 5 stays in it until the end, which is why a size without a setup
    is not smooth. The 2 that `decompose` puts in front multiplies every earlier
    product by 2, and the proof follows it (`FactoredInsert`). `OrderInv` is what
    the order of the trials gives: in a real transform only odd lengths are left
    after a 3 or a 5, in a complex one only even ones.
  - `WalkInv`: `l1` and the place in the table have closed forms, the product of
    the factors behind and n less what is left after them, the same for the two
    loops that go up and the one that goes down. That the loops agree follows.
  - `TableInv`: the rows of the factors done are in the table, below the place
    where the next one is written (`RowOf`), so that a row once written stays.
  - `SizeInv`: the sizes asserted, which make the table large enough (`Room`).
  - `DataInv`: the input of the next step is what `Program` has made so far
    (`MadeInv`), and the buffers still to be changed are even or odd in number as
    needed for the last of them to be the output (`PlaceInv`, `Left`).

  Products are a recursive function; that it has values, and what an element put
  in front or behind does to them, is proved once (`ProductsExist`,
  `ProductsGrow`). Where a number of steps is not bounded, as here and in the
  averager, induction is over the members of a set: a set with 0 in it and with
  every successor has all numbers (`NatSetInduction`, from the theorem of the
  library that the numbers are well-founded). Reordering is undone because each
  place is copied to one other place and back (`ComplexUndone`, `RealUndone`).
* **Process**: `LifeInv` adds to it who may still run: once members are destroyed
  the ticker is not running (`Ticking`, `NothingGone`), the handler has a server
  only before `RunReturns` or after `listen` threw (`Handler`), and behind
  `groups_` there is no recording (`GroupGone`). The threads are then cases of
  the writer's steps; all but the worker's trigger, which is a step of its own.
  It is honest because a recording enters the queue after its publication, with
  its WAV unless something failed (`Closing`), and because as long as it waits
  or plays no later stream has its name (`Queued`, `GivenTime`), so that nothing
  changes what its WAV is (`PlayerInv`).

| Theorem | States |
|---|---|
| `GroupControllerProofs`: `BestCandidatePresent` | outside IDLE there is a best candidate with an id |
| `TypeCorrect`, `RoundsConsistent`, `StreamsFaithful`, `OnlyWinnersStarted`, `OutputsHeldByStreams` | `SafeSpec => []` of the invariant |
| `CandidatesAnswered`, `FlushesChecked` | `SafeSpec => EveryCandidateAnswered`, `FlushIsChecked` |
| `ImplementsArbiter` | `SafeSpec => Arbiter!SafeSpec` |
| `BoWWSystemProofs`, of the sink: `TypeCorrect`, `SinkAlwaysConsistent`, `QueueNeverStranded`, `JoinIsSafe`, `RecordingsPlayedOnce`, `StreamsHeardInOnePiece` | `SafeSpec => []` of the invariant |
| `ImplementsArbiter` | `SafeSpec => Arbiter!SafeSpec` |
| of the system: `DeviceInvariance`, `SystemImplementsArbiter` | `SystemSpec => []IInv` of the sink, and `SystemSpec => Arbiter!SafeSpec` |
| `SystemTypeCorrect`, `ClientsAndGroupsAgree` | `SystemSpec => []SystemTypeOK`, `[]SignalsAgree` |
| `OnboardingProofs`: `TypeCorrect`, `WatcherUpToDate`, `OnlyListedAdmitted`, `RequestsAnsweredOnce` | `SafeSpec => []` of `TypeOK`, `UpToDate`, `AdmittedWasListed`, `RequestOnce` |
| `WakewordGateProofs`: `TypeCorrect`, `VerdictsCorrect` | `Spec => []` of `TypeOK`, `VerdictCorrect`: for buffers of any length |
| `AveragesMove` | `Spec => []SmoothedIsMovingAverage`: for windows of any size |
| `AudioPathProofs`: `FreshNetwork`, `OverrunExplained`, `AgcIsADelay`, `AudioTypes` | `Spec => []` of `NetworkFresh`, `LineMatchesChunk`, `PureDelay`, `TypeOK`: for any number and length of streams |
| `ClockCorrect`, `WindowIsContiguous` | `Spec => []` of `VoiceClockCorrect`, `WindowContiguous` |
| `LifecycleProofs`, of the writer: `WriterCorrect` | the writer by itself: `HeaderHonest`, `FilesAccountedFor`, `NothingOverwritten` |
| of the process: `HeadersHonest`, `FilesExplained`, `PublishedForGood`, `StaleUseExplained`, `StopsPublished`, `LifecycleTypes` | the same in the process, `StaleExplained`, `StopPublishes`, the type invariant |
| `FFTProofs`: `ResultsInOutput`, `FactorsAlwaysFit`, `TwiddlesAlwaysRead`, `ReorderAlwaysUndone` | `Spec => []` of `ResultInOutput`, `FactorsFit`, `TwiddlesRead`, `ReorderUndone`: for every size |

The assumptions are those on the constants, each in the module that declares
them: special values are none of the others, bounds and timeouts are numbers, a
window has a place, a hop and a second are not empty, files have their type.

With that, every invariant that a passing run checks is a theorem. Only
model-checked, because liveness and ENABLED are out of the prover's reach: the
properties that need fairness (`StreamEnds`, `EverythingEnds`, `RoundsDecided`,
`ConfigTakesEffect`, `SignalEnds`) and the fairness part of the two refinements
(`ArbiterSpec`), whose safety part is `ImplementsArbiter`. What TLC shows beyond
the theorems is that the hypotheses of the implications are met: the runs reach
full windows, two streams, every factor, and sizes without a setup.

## 5. Plan

1. An abstract store of recordings (begun, published, announced) that `WavWriter`
   implements, and the step from it to the sink's queue.
2. Two devices in `BoWWSystem`, to have `global_mutex_` and the order of the
   destructor's joins in a model.
3. The simple (non-SIMD) variant of pffft and its convolution, should the program
   begin to use them.

## 6. Not modelled

Floating-point arithmetic: the butterflies and the 4x4 steps of pffft, the
features (window, mel, DCT), what a network computes, the AGC's gain. They have
no state that a step could leave wrong, and nothing short of the numbers says
whether they are right. pffft's convolution, which nobody calls. Generated
tables of weights. The factors go into an `int[15]` (`pffft.c:1200`), of which two
are the length and their number; the model's list has no bound. The smallest size
with more than 13 factors that `pffft_new_setup` accepts is 17006112, far beyond
the 1024 of `FeatureExtractor`.

mDNS: Avahi itself, its states besides S_RUNNING, a name collision. Which
arguments end the process is a choice in `Lifecycle`; what they set is
configuration. Log output, and the terminal meter of the debug mode. The
WebSocket library, of which only this is used: handlers run one at a time in the
io thread, and a send to a closed connection does nothing.

Of `WavWriter`: a wall clock that is set back between two streams, the moment
between a trigger's truncation and its text (the trigger is written at once, by
the writer and by the worker), the RIFF chunk size, which is the data size plus 36 and wraps
with it, the constant fields of the header, the metadata besides the duration.
Of `ConfigManager`: the directories of the server section and failures to create
them, `connecting_clients.txt`, files without a section of clients, and the
access of two threads to one `std::map` at the same moment, which has no defined
outcome; the model has the replacement of the map between two accesses. Of the
gate: rounding, and the samples behind a probability. Of `TFLiteRunner`: a model
file that does not load, which ends the process. Of `Lifecycle`: how a destroyed
object misbehaves; the model goes on and remembers that it was used.
