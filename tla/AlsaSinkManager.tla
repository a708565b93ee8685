-------------------------- MODULE AlsaSinkManager --------------------------
(***************************************************************************)
(* AlsaSinkManager: one SinkDevice, the groups that share it, and the      *)
(* worker thread that plays its queue.  Different devices share nothing,   *)
(* so one is modelled.                                                     *)
(*                                                                         *)
(* The calls of all groups come from OnTick and OnMessage, under           *)
(* BoWWServer::group_mutex_: there is one caller at a time, and it is only *)
(* interleaved with the worker.  A section under device_mutex is one       *)
(* action, except that of ProcessQueue, which joins the old worker while   *)
(* it holds the mutex: that is where a thread can block with the lock.     *)
(*                                                                         *)
(* Data abstracted: streams are numbered in the order they start; a file   *)
(* is so many blocks; what snd_pcm_open and the file system answer is      *)
(* nondeterministic.                                                       *)
(***************************************************************************)
EXTENDS Integers, Sequences

CONSTANTS
  Groups,      \* GroupControllers whose output_target is this device
  MaxStreams,  \* bound: streams ever started
  MaxBlocks    \* bound: 1024-sample blocks in a file

ASSUME SinkAssumption == MaxStreams \in Nat /\ MaxBlocks \in Nat

VARIABLES
  \* the SinkDevice
  state,           \* "FREE", "LIVE_BUSY" or "FILE_BUSY"
  handle,          \* 0 for nullptr, else the stream it was opened for
  playback_queue,  \* the recordings queued
  worker,          \* worker_thread: "none" if not joinable, else where it is
  audio,           \* the recording the worker has popped, or 0
  left,            \* blocks of it still to be played
  \* the caller
  caller,          \* "ready", "unlocked" (about to enter ProcessQueue), "joining"
  \* the groups
  started,         \* streams started so far
  stream,          \* the stream of each group, or 0
  live,            \* is_live_streaming_ of each group
  \* the files of the recordings, in temp_dir
  wavs,            \* recordings whose WAV was published
  triggers,        \* recordings whose JSON trigger was written
  \* history
  played,          \* recordings whose playback is complete
  heard            \* the streams the device played, in order, repeats left out

deviceVars == <<state, handle, playback_queue>>
workerVars == <<worker, audio, left>>
groupVars  == <<started, stream, live>>
fileVars   == <<wavs, triggers, played>>
vars == <<deviceVars, workerVars, caller, groupVars, fileVars, heard>>

Streams == 1..MaxStreams

\* device_mutex, as the worker sees it.
Unlocked == caller # "joining"

\* snd_pcm_writei: the device plays audio of stream n.
Hear(n) == heard' = IF heard # <<>> /\ heard[Len(heard)] = n THEN heard ELSE Append(heard, n)

-----------------------------------------------------------------------------
(***************************************************************************)
(* The caller: a group that starts or ends a stream.                       *)
(***************************************************************************)

\* OpenAlsaDevice, for stream n.
OpenAlsaDevice(n) == handle' = n

\* Mutant: the handle is drained but not closed.
Shut_Forgotten == handle

\* CloseAlsaDevice drains and closes the device.
Shut == 0

\* Mutant: only another live stream keeps a live stream out.
Grantable_OverFile(opened) == state # "LIVE_BUSY" /\ opened

\* RequestLiveStream: refused when the device is busy or does not open.
Grantable(opened) == state = "FREE" /\ opened

RequestLiveStream(g, opened) ==
  /\ caller = "ready"
  /\ stream[g] = 0
  /\ started < MaxStreams
  /\ started' = started + 1
  /\ stream' = [stream EXCEPT ![g] = started + 1]
  /\ live' = [live EXCEPT ![g] = Grantable(opened)]
  /\ IF Grantable(opened)
     THEN state' = "LIVE_BUSY" /\ OpenAlsaDevice(started + 1)
     ELSE UNCHANGED <<state, handle>>
  /\ UNCHANGED <<playback_queue, workerVars, caller, fileVars, heard>>

WriteLiveStream(g) ==
  /\ caller = "ready"
  /\ live[g]
  /\ state = "LIVE_BUSY"
  /\ handle # 0
  /\ Hear(stream[g])
  /\ UNCHANGED <<deviceVars, workerVars, caller, groupVars, fileVars>>

\* Mutant: recordings queued behind the live stream are forgotten.
AfterLive_Forgets == "ready"

\* After it closed the device, CloseLiveStream unlocks and calls ProcessQueue
\* if anything is queued.
AfterLive == IF playback_queue # <<>> THEN "unlocked" ELSE "ready"

CloseLiveStream(g) ==
  /\ caller = "ready"
  /\ live[g]
  /\ IF state = "LIVE_BUSY"
     THEN /\ handle' = Shut
          /\ state' = "FREE"
          /\ caller' = AfterLive
     ELSE UNCHANGED <<state, handle, caller>>
  /\ stream' = [stream EXCEPT ![g] = 0]
  /\ live' = [live EXCEPT ![g] = FALSE]
  /\ UNCHANGED <<playback_queue, workerVars, started, fileVars, heard>>

\* WavWriter::CloseAndPublish may do nothing, publish the WAV only, or publish
\* the WAV and its JSON trigger.
Publish(n) ==
  \/ UNCHANGED <<wavs, triggers>>
  \/ wavs' = wavs \cup {n} /\ UNCHANGED triggers
  \/ wavs' = wavs \cup {n} /\ triggers' = triggers \cup {n}

\* QueueWavFile, which OnTick calls after CloseAndPublish whatever came of it.
QueueWavFile(g) ==
  /\ caller = "ready"
  /\ stream[g] # 0
  /\ ~live[g]
  /\ Publish(stream[g])
  /\ playback_queue' = Append(playback_queue, stream[g])
  /\ caller' = IF state = "FREE" THEN "unlocked" ELSE "ready"
  /\ stream' = [stream EXCEPT ![g] = 0]
  /\ UNCHANGED <<state, handle, workerVars, started, live, played, heard>>

\* ProcessQueue takes device_mutex and looks again.
ProcessQueue ==
  /\ caller = "unlocked"
  /\ IF state # "FREE" \/ playback_queue = <<>>
     THEN /\ caller' = "ready"
          /\ UNCHANGED state
     ELSE /\ caller' = "joining"
          /\ state' = "FILE_BUSY"
  /\ UNCHANGED <<handle, playback_queue, workerVars, groupVars, fileVars, heard>>

\* It waits for the old worker, if there is one, and starts a new one.
JoinAndSpawn ==
  /\ caller = "joining"
  /\ worker \in {"none", "done"}
  /\ worker' = "take"
  /\ caller' = "ready"
  /\ UNCHANGED <<deviceVars, audio, left, groupVars, fileVars, heard>>

Caller ==
  \/ \E g \in Groups, opened \in BOOLEAN : RequestLiveStream(g, opened)
  \/ \E g \in Groups : WriteLiveStream(g) \/ CloseLiveStream(g) \/ QueueWavFile(g)
  \/ ProcessQueue
  \/ JoinAndSpawn

-----------------------------------------------------------------------------
(***************************************************************************)
(* The worker: ProcessQueue's lambda and PlayWavFile.                      *)
(***************************************************************************)
\* The queue is empty: the worker frees the device and touches it no more.
Retire ==
  /\ worker = "take"
  /\ Unlocked
  /\ playback_queue = <<>>
  /\ state' = "FREE"
  /\ worker' = "done"
  /\ UNCHANGED <<handle, playback_queue, audio, left, caller, groupVars, fileVars, heard>>

\* Mutant: the newest recording is played first.
NextUp_Newest == playback_queue[Len(playback_queue)]

\* front() and pop().
NextUp == Head(playback_queue)

\* Mutant: front() without pop().
Rest_Kept == playback_queue

Rest == Tail(playback_queue)

Take ==
  /\ worker = "take"
  /\ Unlocked
  /\ playback_queue # <<>>
  /\ audio' = NextUp
  /\ playback_queue' = Rest
  /\ worker' = "open"
  /\ UNCHANGED <<state, handle, left, caller, groupVars, fileVars, heard>>

\* Mutant: the device is marked free when it does not open.
OpenFails_Frees ==
  /\ worker = "open"
  /\ Unlocked
  /\ worker' = "take"
  /\ audio' = 0
  /\ state' = "FREE"
  /\ UNCHANGED <<handle, playback_queue, left, caller, groupVars, fileVars, heard>>

\* A device that does not open ends PlayWavFile: the recording is dropped.
OpenFails ==
  /\ worker = "open"
  /\ Unlocked
  /\ worker' = "take"
  /\ audio' = 0
  /\ UNCHANGED <<deviceVars, left, caller, groupVars, fileVars, heard>>

\* The device opens; the file that follows has some blocks, or does not open.
Open ==
  /\ worker = "open"
  /\ Unlocked
  /\ OpenAlsaDevice(audio)
  /\ \E n \in 0..MaxBlocks : (n > 0 => audio \in wavs) /\ left' = n
  /\ worker' = "write"
  /\ UNCHANGED <<state, playback_queue, audio, caller, groupVars, fileVars, heard>>

\* Mutant: one read too many.
MoreBlocks_OneMore == left >= 0

MoreBlocks == left > 0

WriteBlock ==
  /\ worker = "write"
  /\ MoreBlocks
  /\ Unlocked
  /\ IF handle # 0 THEN Hear(audio) ELSE UNCHANGED heard
  /\ left' = left - 1
  /\ UNCHANGED <<deviceVars, worker, audio, caller, groupVars, fileVars>>

Close ==
  /\ worker = "write"
  /\ left = 0
  /\ Unlocked
  /\ handle' = Shut
  /\ played' = IF audio \in wavs THEN played \cup {audio} ELSE played
  /\ worker' = "trigger"
  /\ UNCHANGED <<state, playback_queue, audio, left, caller, groupVars, wavs,
                 triggers, heard>>

\* The JSON trigger is written, if it can be, whether or not there was a WAV.
WriteTrigger ==
  /\ worker = "trigger"
  /\ triggers' \in {triggers, triggers \cup {audio}}
  /\ worker' = "take"
  /\ audio' = 0
  /\ UNCHANGED <<deviceVars, left, caller, groupVars, wavs, played, heard>>

Worker ==
  \/ Retire
  \/ Take
  \/ OpenFails
  \/ Open
  \/ WriteBlock
  \/ Close
  \/ WriteTrigger

-----------------------------------------------------------------------------
Init ==
  /\ state = "FREE"
  /\ handle = 0
  /\ playback_queue = <<>>
  /\ worker = "none"
  /\ audio = 0
  /\ left = 0
  /\ caller = "ready"
  /\ started = 0
  /\ stream = [g \in Groups |-> 0]
  /\ live = [g \in Groups |-> FALSE]
  /\ wavs = {}
  /\ triggers = {}
  /\ played = {}
  /\ heard = <<>>

Next == Caller \/ Worker

SafeSpec == Init /\ [][Next]_vars

\* The worker and a caller inside ProcessQueue run on; nothing makes a group
\* start or end a stream.
Fairness == WF_vars(Worker) /\ WF_vars(ProcessQueue \/ JoinAndSpawn)

Spec == SafeSpec /\ Fairness

-----------------------------------------------------------------------------
\* The manager seen as an arbiter: the device is held by the live stream, or by
\* the recording the worker has taken.
Arbiter == INSTANCE SinkArbiter WITH
  holder  <- IF state = "LIVE_BUSY" THEN handle ELSE audio,
  waiting <- playback_queue

Queued == {playback_queue[i] : i \in 1..Len(playback_queue)}

\* The type invariant of the device, its users and the files.
TypeOK ==
  /\ state \in {"FREE", "LIVE_BUSY", "FILE_BUSY"}
  /\ handle \in 0..MaxStreams
  /\ playback_queue \in Seq(Streams)
  /\ worker \in {"none", "take", "open", "write", "trigger", "done"}
  /\ audio \in 0..MaxStreams
  /\ left \in Nat
  /\ caller \in {"ready", "unlocked", "joining"}
  /\ started \in 0..MaxStreams
  /\ stream \in [Groups -> 0..MaxStreams]
  /\ live \in [Groups -> BOOLEAN]
  /\ wavs \in SUBSET Streams
  /\ triggers \in SUBSET Streams
  /\ played \in SUBSET Streams
  /\ heard \in Seq(Streams)

\* The lease of the device agrees with everybody's view of it: a group that
\* believes it streams live has the device open for its own stream, so none of
\* its audio is dropped by WriteLiveStream; the handle is open only for that
\* group or for the recording being played, so no handle is ever overwritten
\* and leaked; and outside playback no worker is active.
LiveOwnsDevice ==
  \A g \in Groups : live[g] => state = "LIVE_BUSY" /\ handle = stream[g] /\ handle # 0

SinkConsistent ==
  /\ LiveOwnsDevice
  /\ state = "LIVE_BUSY" => \E g \in Groups : live[g]
  /\ state = "FREE" => handle = 0
  /\ state = "FILE_BUSY" => handle = IF worker = "write" THEN audio ELSE 0
  /\ worker \in {"none", "done"} <=> state # "FILE_BUSY" \/ caller = "joining"
  /\ caller = "joining" => state = "FILE_BUSY"
  /\ audio # 0 <=> worker \in {"open", "write", "trigger"}

\* Nothing is left in the queue of a free device, except for the caller that is
\* just about to start the worker: the windows in which CloseLiveStream and
\* QueueWavFile have let go of device_mutex strand no recording.
NoStrandedQueue ==
  /\ state = "FREE" /\ playback_queue # <<>> => caller = "unlocked"
  /\ caller = "unlocked" => state = "FREE"

\* ProcessQueue joins the old worker while it holds device_mutex.  That worker
\* must never need the mutex again, or both wait for ever, and with them every
\* thread that wants group_mutex_.
JoinNeverBlocks == caller = "joining" => worker \in {"none", "done"}

\* A stream is in one place: with a group, in the queue, with the worker, or done
\* with.  So a recording is handed to the queue, taken and played at most once,
\* whether its stream, its group or its worker is long gone.
PlayedOnce ==
  /\ \A g, h \in Groups : stream[g] = stream[h] /\ stream[g] # 0 => g = h
  /\ \A g \in Groups : stream[g] # 0 => stream[g] \notin Queued \cup played \cup {audio}
  /\ \A i, j \in 1..Len(playback_queue) :
       playback_queue[i] = playback_queue[j] => i = j
  /\ audio \notin Queued
  /\ played \cap Queued = {}
  /\ worker \in {"open", "write"} => audio \notin played
  /\ \A g \in Groups : stream[g] <= started
  /\ \A n \in Queued \cup played \cup {audio} : n <= started

\* The stream that the device is open for.
OnAir(n) == (\E g \in Groups : live[g] /\ stream[g] = n) \/ (worker = "write" /\ audio = n)

\* The streams whose turn is still to come.
Upcoming(n) ==
  \/ n > started
  \/ n \in Queued
  \/ \E g \in Groups : ~live[g] /\ stream[g] = n
  \/ worker = "open" /\ audio = n

\* No stream is interrupted by another one and then resumed: what the device
\* plays of a stream, live or recorded, it plays in one piece and in its turn,
\* although the worker gives the mutex up between blocks.
HeardInOnePiece ==
  /\ \A i, j \in 1..Len(heard) : heard[i] = heard[j] => i = j
  /\ \A i \in 1..Len(heard) : ~Upcoming(heard[i]) /\ (OnAir(heard[i]) => i = Len(heard))

\* The manager keeps SinkArbiter's promise: recordings are taken in the order
\* queued, one stream at a time has the device, a live stream never overtakes a
\* waiting recording, and a free device never leaves one waiting for ever.
ArbiterSpec == Arbiter!Spec
=============================================================================
