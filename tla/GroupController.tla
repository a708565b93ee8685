-------------------------- MODULE GroupController --------------------------
(***************************************************************************)
(* One GroupController and the ClientSessions whose GUID belongs to its    *)
(* group.  The io thread (OnMessage) and the ticker thread call it under   *)
(* BoWWServer::group_mutex_ and its own mutex_ for the whole handler, so a *)
(* handler is one action, but for two things.  The hello handler sets the  *)
(* session's GUID before it takes group_mutex_; and the tick that decides  *)
(* a round is long, for it runs the neural network over the pre-roll and   *)
(* writes the pre-roll to a device that may block.  It reads the ids again *)
(* after each, so it is three actions: CheckTrigger, StartStreaming and    *)
(* AnswerCandidates.                                                       *)
(*                                                                         *)
(* Data abstracted: time is counted in ticks and kept as ages, capped at   *)
(* the timeout they are compared with; a binary message is <<id, n>>, the  *)
(* n-th the group accepted from that id since the round began; the neural  *)
(* network's verdicts (voice in a chunk, wake word in a pre-roll) and the  *)
(* outcome of opening a device or a file are nondeterministic.  The AGC,   *)
(* which rewrites samples when config_.use_agc is set, is left out.        *)
(***************************************************************************)
EXTENDS Integers, Sequences

CONSTANTS
  Sessions,            \* ClientSession objects, one per WebSocket connection
  Guids,               \* the GUIDs that clients.yaml gives to this group
  None,                \* nullptr, or no GUID
  Scores,              \* confidence scores
  FrameCounts,         \* frame counts reported with them
  ArbitrationTimeout,  \* config_.arbitration_timeout_ms
  NoVoiceTimeout,      \* config_.vad_no_voice_ms
  OutputIsAlsa,        \* config_.output_type == OutputType::ALSA
  AuthEnabled,         \* config_.auth_ww.enabled
  MaxOffers,           \* bound: offers in a round
  MaxChunks            \* bound: messages per id tracked by content

ASSUME ConstantAssumption ==
  /\ None \notin Sessions \cup Guids
  /\ Scores \subseteq Int
  /\ FrameCounts \subseteq Int
  /\ ArbitrationTimeout \in Nat
  /\ NoVoiceTimeout \in Nat
  /\ OutputIsAlsa \in BOOLEAN
  /\ AuthEnabled \in BOOLEAN
  /\ MaxOffers \in Nat
  /\ MaxChunks \in Nat

VARIABLES
  \* the sessions
  conn,                 \* connection of each session: "fresh", "open", "closed"
  guid,                 \* guid_ of each session; None until authenticated
  silence,              \* age of each session's last_voice_time_
  told,                 \* history: what a session waits for or was last told
  \* the controller
  state,                \* state_
  elapsed,              \* age of arbitration_start_time_
  current_candidates,   \* current_candidates_, with the score and frames offered
  best_candidate, best_score, best_frame_count,
  verdict,              \* OnTick in a decision: passed_auth_check, then "flushed"
  io_blocked,           \* the io thread waits for group_mutex_ in a hello
  arbitration_buffers,  \* <<>> where the code's map has no entry
  active_client_guid,
  is_live_streaming, is_recording_to_file,
  wav,                  \* wav_writer_: "closed", "open" or "published"
  leased,               \* history: this group holds the ALSA device
  verified,             \* history: the id whose audio the last check accepted
  arrived,              \* history: messages accepted from each id this round
  output                \* history: what the stream's output received, in order

sessionVars == <<conn, guid>>
roundVars   == <<elapsed, current_candidates, best_candidate, best_score,
                 best_frame_count, arbitration_buffers>>
outputVars  == <<active_client_guid, is_live_streaming, is_recording_to_file,
                 wav, leased, verified, output>>
locks == <<verdict, io_blocked>>
vars == <<sessionVars, silence, told, state, roundVars, outputVars, arrived, locks>>

Offer == [who : Sessions, score : Scores, frames : FrameCounts]
Chunk == Guids \X (Nat \ {0})

\* The messages of id g in the order they arrived, n of them.
AudioOf(g, n) == [i \in 1..n |-> <<g, i>>]

Age(a, cap) == IF a < cap THEN a + 1 ELSE a
NoAudio == [g \in Guids |-> <<>>]
NoneArrived == [g \in Guids |-> 0]

-----------------------------------------------------------------------------
(***************************************************************************)
(* The sessions: OnOpen, the "hello" handler and OnClose of BoWWServer.    *)
(* OnClose drops the session from sessions_ and tells no controller: the   *)
(* shared_ptr a controller holds stays usable, but sends reach nobody.     *)
(***************************************************************************)
OnOpen(s) ==
  /\ ~io_blocked
  /\ conn[s] = "fresh"
  /\ conn' = [conn EXCEPT ![s] = "open"]
  /\ UNCHANGED <<guid, silence, told, state, roundVars, outputVars, arrived, locks>>

\* A client may say hello again, and with another of the valid GUIDs.  SetGUID
\* runs before the lock that the handler then takes to look up the pre-roll
\* length: in the middle of a tick it takes effect, and leaves the io thread
\* waiting for the tick to end.
SetGUID(s, g) ==
  /\ ~io_blocked
  /\ conn[s] = "open"
  /\ guid' = [guid EXCEPT ![s] = g]
  /\ io_blocked' = (verdict # "none")
  /\ UNCHANGED <<conn, silence, told, state, roundVars, outputVars, arrived, verdict>>

OnClose(s) ==
  /\ ~io_blocked
  /\ conn[s] = "open"
  /\ conn' = [conn EXCEPT ![s] = "closed"]
  /\ UNCHANGED <<guid, silence, told, state, roundVars, outputVars, arrived, locks>>

IsAuthenticated(s) == conn[s] = "open" /\ guid[s] # None

\* Mutant: nobody waits for the ticker.
Unlocked_Ignored == TRUE

\* group_mutex_ is free.
Unlocked == verdict = "none"

\* SendStartSignal and SendStopSignal: only an open connection hears them.
Tell(S, signal) ==
  [s \in Sessions |-> IF s \in S /\ conn[s] = "open" THEN signal ELSE told[s]]

-----------------------------------------------------------------------------
(***************************************************************************)
(* HandleConfidenceScore.  A score that arrives while STREAMING changes    *)
(* nothing and is not answered.                                            *)
(***************************************************************************)
Candidates == {current_candidates[i].who : i \in 1..Len(current_candidates)}

\* Mutant: the last of equal scores wins.
Beats_Ties(score) == score >= best_score

Beats(score) == score > best_score

\* current_candidates_.push_back(client), whatever the score.
Enlisted(o) == Append(current_candidates, o)

StartArbitration(o) ==
  /\ state = "IDLE"
  /\ state' = "ARBITRATING"
  /\ elapsed' = 0
  /\ best_candidate' = o.who
  /\ best_score' = o.score
  /\ best_frame_count' = o.frames
  /\ current_candidates' = <<o>>
  /\ arbitration_buffers' = NoAudio

JoinArbitration(o) ==
  /\ state = "ARBITRATING"
  /\ Len(current_candidates) < MaxOffers
  /\ current_candidates' = Enlisted(o)
  /\ IF Beats(o.score)
     THEN /\ best_candidate' = o.who
          /\ best_score' = o.score
          /\ best_frame_count' = o.frames
     ELSE UNCHANGED <<best_candidate, best_score, best_frame_count>>
  /\ UNCHANGED <<state, elapsed, arbitration_buffers>>

\* History: who still waited when a round starts was left out by an earlier one.
Enter(s) ==
  [t \in Sessions |->
     CASE t = s -> "waiting"
       [] t # s /\ state = "IDLE" /\ told[t] = "waiting" -> "ignored"
       [] OTHER -> told[t]]

HandleConfidenceScore(o) ==
  /\ Unlocked
  /\ IsAuthenticated(o.who)
  /\ StartArbitration(o) \/ JoinArbitration(o)
  /\ told' = Enter(o.who)
  /\ UNCHANGED <<sessionVars, silence, outputVars, arrived, locks>>

-----------------------------------------------------------------------------
(***************************************************************************)
(* HandleAudioStream.  While ARBITRATING the audio of any authenticated    *)
(* session is kept under its id; while STREAMING only audio under the      *)
(* winner's id is accepted, whichever session brings it; otherwise it is   *)
(* dropped.  Beyond MaxChunks messages of an id their content is no longer *)
(* tracked, but they still keep the stream alive.                          *)
(***************************************************************************)
\* Mutant: an extra message is numbered like the last one.
Grow_Repeats(seq, g) ==
  IF arrived[g] < MaxChunks THEN Append(seq, <<g, arrived[g]>>) ELSE seq

Grow(seq, g) ==
  IF arrived[g] < MaxChunks THEN Append(seq, <<g, arrived[g] + 1>>) ELSE seq

CountArrival(g) == arrived' = [arrived EXCEPT ![g] = Age(@, MaxChunks)]

BufferAudio(g) ==
  /\ state = "ARBITRATING"
  /\ arbitration_buffers' = [arbitration_buffers EXCEPT ![g] = Grow(@, g)]
  /\ UNCHANGED <<elapsed, current_candidates, best_candidate, best_score,
                 best_frame_count, outputVars, silence>>

\* The chunk reaches somebody: the live device or the open WAV file.
OutputOpen == is_live_streaming \/ (is_recording_to_file /\ wav = "open")

Accepted(g) == active_client_guid = g

\* The VAD moved last_voice_time_ of best_candidate_.
HeardVoice(voiced) == voiced /\ best_candidate # None

StreamAudio(g, voiced) ==
  /\ state = "STREAMING"
  /\ Accepted(g)
  /\ output' = IF OutputOpen THEN Grow(output, g) ELSE output
  /\ silence' = IF HeardVoice(voiced)
                THEN [silence EXCEPT ![best_candidate] = 0]
                ELSE silence
  /\ UNCHANGED <<roundVars, active_client_guid, is_live_streaming,
                 is_recording_to_file, wav, leased, verified>>

HandleAudioStream(s, voiced) ==
  /\ Unlocked
  /\ IsAuthenticated(s)
  /\ BufferAudio(guid[s]) \/ StreamAudio(guid[s], voiced)
  /\ CountArrival(guid[s])
  /\ UNCHANGED <<sessionVars, told, state, locks>>

-----------------------------------------------------------------------------
(***************************************************************************)
(* OnTick.  In state ARBITRATING best_candidate_ is always set (theorem    *)
(* BestCandidatePresent), so the branch that finds none is not reachable.  *)
(***************************************************************************)
PreRoll == arbitration_buffers[guid[best_candidate]]

ArbitrationOver == state = "ARBITRATING" /\ elapsed >= ArbitrationTimeout

\* The model is asked only when the winner's id has a buffer; it says yes when
\* the check is disabled.
CheckTrigger ==
  /\ ArbitrationOver
  /\ Unlocked
  /\ \/ /\ verdict' = "passed"
        /\ verified' = IF AuthEnabled /\ PreRoll # <<>>
                       THEN guid[best_candidate] ELSE None
     \/ /\ AuthEnabled /\ PreRoll # <<>>
        /\ verdict' = "failed"
        /\ verified' = None
  /\ UNCHANGED <<sessionVars, silence, told, state, roundVars, active_client_guid,
                 is_live_streaming, is_recording_to_file, wav, leased, output,
                 arrived, io_blocked>>

Unlock == verdict' = "none" /\ io_blocked' = FALSE

\* The check failed: everyone is told to stop.
AbortTrigger ==
  /\ verdict = "failed"
  /\ Unlock
  /\ told' = Tell(Candidates, "stop")
  /\ current_candidates' = <<>>
  /\ arbitration_buffers' = NoAudio
  /\ arrived' = NoneArrived
  /\ best_candidate' = None
  /\ state' = "IDLE"
  /\ UNCHANGED <<sessionVars, silence, elapsed, best_score, best_frame_count,
                 outputVars>>

\* The output chosen: the live device if it is granted, else a WAV file, which
\* may fail to open.
ChooseOutput(granted, opened) ==
  /\ granted => OutputIsAlsa /\ ~opened
  /\ is_live_streaming' = granted
  /\ leased' = granted
  /\ is_recording_to_file' = ~granted
  /\ wav' = IF opened THEN "open" ELSE "closed"

\* Mutant: the buffers are cleared before the pre-roll is written.
PreRollWritten_Cleared == <<>>

\* The pre-roll that is written before any live audio.
PreRollWritten == PreRoll

\* The check passed, was disabled, or had no audio to look at: the winner's id
\* is fixed, the output opened and the pre-roll written.
StartStreaming ==
  /\ verdict = "passed"
  /\ verdict' = "flushed"
  /\ state' = "STREAMING"
  /\ active_client_guid' = guid[best_candidate]
  /\ \E granted, opened \in BOOLEAN :
       /\ ChooseOutput(granted, opened)
       /\ output' = IF granted \/ opened THEN PreRollWritten ELSE <<>>
  /\ arrived' = [NoneArrived EXCEPT ![guid[best_candidate]] = arrived[guid[best_candidate]]]
  /\ UNCHANGED <<sessionVars, silence, told, roundVars, verified, io_blocked>>

\* Mutant: the candidates are compared with the id the winner has by now.
Losers_CurrentId == {s \in Candidates : guid[s] # guid[best_candidate]}

\* Every candidate whose id is by now another one than the stream's.
Losers == {s \in Candidates : guid[s] # active_client_guid}

\* The winner is told to start, and then to stop if it is among the losers.
WinnerHears == IF best_candidate \in Losers THEN "stop" ELSE "start"

\* The pre-roll is out: the answers to the round.  They are one action although
\* ids are read one after another: one hello at most comes within the tick, and
\* to its session the loop does what it would do before or after that hello.
AnswerCandidates ==
  /\ verdict = "flushed"
  /\ Unlock
  /\ silence' = [silence EXCEPT ![best_candidate] = 0]
  /\ arbitration_buffers' = NoAudio
  /\ told' = [Tell(Losers, "stop") EXCEPT
                ![best_candidate] = Tell({best_candidate}, WinnerHears)[best_candidate]]
  /\ current_candidates' = <<>>
  /\ UNCHANGED <<sessionVars, state, elapsed, best_candidate, best_score,
                 best_frame_count, outputVars, arrived>>

\* Mutant: only a connected winner is timed.
WentSilent_Connected ==
  /\ state = "STREAMING"
  /\ best_candidate # None
  /\ conn[best_candidate] = "open"
  /\ silence[best_candidate] >= NoVoiceTimeout

\* No voice for config_.vad_no_voice_ms.
WentSilent ==
  /\ state = "STREAMING"
  /\ best_candidate # None
  /\ silence[best_candidate] >= NoVoiceTimeout

\* Mutant: the live stream is not closed.
CloseOutput_KeepsDevice(published) ==
  /\ published => is_recording_to_file /\ wav = "open"
  /\ leased' = leased
  /\ wav' = IF published THEN "published" ELSE "closed"

\* CloseLiveStream, or CloseAndPublish and, for ALSA, QueueWavFile.
CloseOutput(published) ==
  /\ published => is_recording_to_file /\ wav = "open"
  /\ leased' = (leased /\ ~(OutputIsAlsa /\ is_live_streaming))
  /\ wav' = IF published THEN "published" ELSE "closed"

\* Mutant: the winner is not told.
StopWinner_Silent == told

\* best_candidate_->SendStopSignal().
StopWinner == Tell({best_candidate}, "stop")

StopStreaming ==
  /\ Unlocked
  /\ WentSilent
  /\ \E published \in BOOLEAN : CloseOutput(published)
  /\ told' = StopWinner
  /\ state' = "IDLE"
  /\ active_client_guid' = None
  /\ best_candidate' = None
  /\ is_live_streaming' = FALSE
  /\ is_recording_to_file' = FALSE
  /\ verified' = None
  /\ output' = <<>>
  /\ arrived' = NoneArrived
  /\ UNCHANGED <<sessionVars, silence, elapsed, current_candidates, best_score,
                 best_frame_count, arbitration_buffers, locks>>

OnTick ==
  CheckTrigger \/ AbortTrigger \/ StartStreaming \/ AnswerCandidates \/ StopStreaming

\* Time passes; ages are not followed beyond the timeouts they are held to.
Tick ==
  /\ elapsed' = Age(elapsed, ArbitrationTimeout)
  /\ silence' = [s \in Sessions |-> Age(silence[s], NoVoiceTimeout)]
  /\ UNCHANGED <<sessionVars, told, state, current_candidates, best_candidate,
                 best_score, best_frame_count, arbitration_buffers, outputVars,
                 arrived, locks>>

-----------------------------------------------------------------------------
Init ==
  /\ conn = [s \in Sessions |-> "fresh"]
  /\ guid = [s \in Sessions |-> None]
  /\ silence = [s \in Sessions |-> NoVoiceTimeout]
  /\ told = [s \in Sessions |-> "nothing"]
  /\ state = "IDLE"
  /\ elapsed = ArbitrationTimeout
  /\ current_candidates = <<>>
  /\ best_candidate = None
  /\ best_score = 0
  /\ best_frame_count = 0
  /\ arbitration_buffers = NoAudio
  /\ active_client_guid = None
  /\ is_live_streaming = FALSE
  /\ is_recording_to_file = FALSE
  /\ wav = "closed"
  /\ leased = FALSE
  /\ verified = None
  /\ verdict = "none"
  /\ io_blocked = FALSE
  /\ arrived = NoneArrived
  /\ output = <<>>

Next ==
  \/ \E s \in Sessions : OnOpen(s) \/ OnClose(s)
  \/ \E s \in Sessions, g \in Guids : SetGUID(s, g)
  \/ \E o \in Offer : HandleConfidenceScore(o)
  \/ \E s \in Sessions, voiced \in BOOLEAN : HandleAudioStream(s, voiced)
  \/ OnTick
  \/ Tick

SafeSpec == Init /\ [][Next]_vars

\* The ticker thread calls OnTick every 10 ms for as long as the server runs,
\* and time passes; no client is obliged to do anything.
Fairness == WF_vars(OnTick) /\ WF_vars(Tick)

Spec == SafeSpec /\ Fairness

-----------------------------------------------------------------------------
\* The controller seen as an arbiter: its list of candidates is the round until
\* it is decided, the best_ fields are the winning offer while it streams.
Arbiter == INSTANCE WakeArbiter WITH
  phase  <- CASE state = "IDLE" -> "idle"
              [] state = "ARBITRATING" -> "collecting"
              [] state = "STREAMING" -> "awarded",
  offers <- IF state = "STREAMING" THEN <<>> ELSE current_candidates,
  holder <- IF state = "STREAMING"
            THEN [who |-> best_candidate, score |-> best_score,
                  frames |-> best_frame_count]
            ELSE None

\* The type invariant of the controller and its sessions.
TypeOK ==
  /\ conn \in [Sessions -> {"fresh", "open", "closed"}]
  /\ guid \in [Sessions -> Guids \cup {None}]
  /\ silence \in [Sessions -> Nat]
  /\ told \in [Sessions -> {"nothing", "waiting", "ignored", "start", "stop"}]
  /\ state \in {"IDLE", "ARBITRATING", "STREAMING"}
  /\ elapsed \in Nat
  /\ current_candidates \in Seq(Offer)
  /\ best_candidate \in Sessions \cup {None}
  /\ best_score \in Int
  /\ best_frame_count \in Int
  /\ arbitration_buffers \in [Guids -> Seq(Chunk)]
  /\ active_client_guid \in Guids \cup {None}
  /\ is_live_streaming \in BOOLEAN
  /\ is_recording_to_file \in BOOLEAN
  /\ wav \in {"closed", "open", "published"}
  /\ leased \in BOOLEAN
  /\ verified \in Guids \cup {None}
  /\ verdict \in {"none", "passed", "failed", "flushed"}
  /\ io_blocked \in BOOLEAN
  /\ arrived \in [Guids -> Nat]
  /\ output \in Seq(Chunk)

\* The best_ fields are those of the earliest offer with the highest score.
BestOfRound ==
  state = "ARBITRATING" =>
    \E i \in 1..Len(current_candidates) :
      /\ Arbiter!IsFirstBest(current_candidates, i)
      /\ current_candidates[i] = [who |-> best_candidate, score |-> best_score,
                                  frames |-> best_frame_count]

\* Each buffer holds all the audio accepted under its id, in order.
BuffersComplete ==
  state = "ARBITRATING" =>
    \A g \in Guids : arbitration_buffers[g] = AudioOf(g, arrived[g])

\* Nobody who waits is missing from the list that will be answered.
WaitingListed ==
  state = "ARBITRATING" \/ verdict = "flushed" =>
    \A s \in Sessions : told[s] = "waiting" => s \in Candidates

\* Each phase has its own fields set, and those of the other phases are reset.
PhaseConsistent ==
  /\ state = "IDLE" <=> best_candidate = None
  /\ state = "ARBITRATING" \/ verdict = "flushed" <=> current_candidates # <<>>
  /\ state = "STREAMING" <=> active_client_guid # None
  /\ state = "IDLE" => arrived = NoneArrived
  /\ verdict \in {"passed", "failed"} => state = "ARBITRATING"
  /\ verdict = "flushed" => state = "STREAMING"
  /\ best_candidate # None => guid[best_candidate] # None
  /\ \A s \in Sessions : conn[s] = "fresh" => told[s] = "nothing"

\* While a round is open its bookkeeping agrees with its history, and outside a
\* round nothing of it is left (HandleConfidenceScore, HandleAudioStream and the
\* exits of OnTick).
RoundConsistent == PhaseConsistent /\ BestOfRound /\ BuffersComplete /\ WaitingListed

\* No audio is lost, repeated, reordered or taken from another id on the way
\* from the arbitration buffer to the live stream: whatever the interleaving of
\* messages, ticks and reconnections, what the output has received is exactly
\* what the group accepted under the winner's id since the round began
\* (HandleAudioStream's buffering, and the pre-roll flush of OnTick).
StreamFaithful ==
  state = "STREAMING" /\ OutputOpen =>
    output = AudioOf(active_client_guid, arrived[active_client_guid])

\* At most one connected client believes it should be streaming: the winner of
\* the group, and only while the group is STREAMING.  A client that was told to
\* start is therefore always told to stop when its stream ends.
OnlyWinnerStarted ==
  \A s \in Sessions : told[s] = "start" /\ conn[s] = "open" =>
    state = "STREAMING" /\ s = best_candidate

\* The output is held exactly for the length of a stream: the ALSA device is
\* leased if and only if the live flag says so, a WAV file is open only while
\* recording, and a group that is not streaming holds neither (OnTick's three
\* ways of leaving and entering STREAMING agree with each other).
OutputHeldByStream ==
  /\ leased <=> is_live_streaming
  /\ is_live_streaming => OutputIsAlsa
  /\ wav = "open" => is_recording_to_file
  /\ state = "STREAMING" <=> (is_live_streaming \/ is_recording_to_file)
  /\ ~(is_live_streaming /\ is_recording_to_file)

\* When the tick that decides a round ends, every connected client that entered
\* it and still waits has been told start, if it won, or stop; except one whose
\* id is by then the one the group streams, whose audio is accepted instead.  A
\* winner is told start and no more, unless a hello came within the tick.
EveryCandidateAnswered ==
  [][verdict # "none" /\ verdict' = "none" =>
       /\ \A s \in Sessions : told[s] = "waiting" /\ conn[s] = "open" =>
            \/ told'[s] = "stop"
            \/ told'[s] = "start" /\ s = best_candidate'
            \/ state' = "STREAMING" /\ guid[s] = active_client_guid'
       /\ state' = "STREAMING" /\ conn[best_candidate'] = "open" /\ ~io_blocked =>
            told'[best_candidate'] = "start"]_vars

\* The group keeps WakeArbiter's promise: the floor goes to the earliest offer
\* with the highest score, with the frame count that came with it, and every
\* round is decided although clients keep sending audio.
ArbiterSpec == Arbiter!Spec

\* A stream ends once nobody speaks, even if the winner disconnected, came back
\* under another session or changed its GUID: the group leaves STREAMING unless
\* voice is heard again and again.
StreamEnds ==
  \/ []<><<\E s \in Sessions : HandleAudioStream(s, TRUE)>>_vars
  \/ state = "STREAMING" ~> state # "STREAMING"

\* With the check enabled, no audio that came in before the stream began is written
\* unless the check has accepted the audio of that very id, whatever arrives
\* around the check; except where a hello came in the middle of it.  (A winner
\* whose audio has not arrived in time is streamed unchecked.)
FlushIsChecked ==
  [][/\ AuthEnabled
     /\ state = "ARBITRATING" /\ state' = "STREAMING"
     /\ output' # <<>>
     /\ ~io_blocked
     => verified' = active_client_guid']_vars

\* README.md: the pre-roll runs through the model to verify the wake word before
\* the server opens the output.  What was checked is what is streamed: the audio
\* of the same id.
CheckedAudioIsStreamed ==
  state = "STREAMING" /\ verified # None => verified = active_client_guid
=============================================================================
