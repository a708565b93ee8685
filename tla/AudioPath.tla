----------------------------- MODULE AudioPath ------------------------------
(***************************************************************************)
(* What the audio of one group goes through, over several streams: the AGC *)
(* changes a chunk in place, the writer or the device gets the result, and *)
(* ProcessVADFrames cuts it into hops, analyses a window of two hops and   *)
(* smooths the network's answers, which move the session's last voice      *)
(* time.  AGC, window, averager and network belong to the controller and   *)
(* outlive the stream.  A sample is its number; 0 is silence.              *)
(*                                                                         *)
(* When streams start and end is GroupController's business: here a stream *)
(* starts with any pre-roll and ends at any time.  All of this runs under  *)
(* the controller's mutex, so nothing else happens in a chunk.             *)
(***************************************************************************)
EXTENDS Integers, Sequences, SimpleAGC, TFLiteRunner, WindowAverager

CONSTANTS
  Hop,           \* 320 samples in the code; the window is two hops
  VadWindow,     \* 15 frames in the code
  VadThreshold,  \* percent
  Levels,        \* what the network may say of a frame: percent of voice
  ChunkSizes,    \* samples in a chunk; an empty one changes nothing
  MaxStreams,    \* bound: streams
  MaxChunks      \* bound: chunks of one stream

ASSUME AudioAssumption ==
  /\ Hop \in Nat \ {0}
  /\ VadWindow \in Nat \ {0}
  /\ VadThreshold \in Nat
  /\ Levels \subseteq 0..100
  /\ ChunkSizes \subseteq Nat \ {0}
  /\ MaxStreams \in Nat
  /\ MaxChunks \in Nat

VARIABLES
  use_agc,          \* configuration
  auth_enabled,     \* configuration
  phase,            \* "idle", "flush" (of the pre-roll) or "live"
  stream,           \* streams started
  delay_line_, overrun,
  pcm_data, i,      \* the chunk being analysed, and where
  sliding_window_, vad_averager_, network,
  last_voice,       \* the live frame of this stream that moved it last
  checked,          \* history: the check ran on this stream
  all_sizes,        \* history: sizes of the chunks of all streams
  received,         \* history: how many samples came in, in all streams
  passed,           \* history: the samples that went out, in all streams
  began,            \* history: where this stream begins in all_sizes and in passed
  voiced            \* history: the network's answers on live frames

configVars == <<use_agc, auth_enabled>>
agcVars    == <<delay_line_, overrun>>
vadVars    == <<sliding_window_, vad_averager_, network>>
chunkVars  == <<all_sizes, received, passed>>
vars == <<configVars, phase, stream, agcVars, pcm_data, i, vadVars, last_voice, checked,
          chunkVars, began, voiced>>

-----------------------------------------------------------------------------
(***************************************************************************)
(* A chunk on its way to the output and the analysis.                      *)
(***************************************************************************)
Samples(n) == [k \in 1..n |-> received + k]

\* The AGC, if it is on, and the output.  Writing past the end of the chunk has
\* no defined outcome, and the model ends there.
PassOn(pcm) ==
  LET treated == use_agc /\ pcm # <<>> IN
  /\ received' = received + Len(pcm)
  /\ IF treated /\ Overruns(delay_line_, pcm)
     THEN /\ overrun' = TRUE
          /\ UNCHANGED <<delay_line_, pcm_data, passed>>
     ELSE /\ pcm_data' = IF treated THEN Processed(delay_line_, pcm) ELSE pcm
          /\ delay_line_' = IF treated THEN NextLine(delay_line_, pcm) ELSE delay_line_
          /\ passed' = passed \o pcm_data'
          /\ UNCHANGED overrun
  /\ i' = 0

Silence == Zeros(2 * Hop)

\* Mutant: the window keeps the end of the stream before.
FreshWindow_Not == sliding_window_

FreshWindow == Silence

\* The check feeds the frames of the pre-roll to the network, between two resets.
AfterCheck(net, preroll, ok) ==
  LET clean == ResetStates(net)
  IN  ResetStates(IF preroll < Hop THEN clean
                  ELSE IF ok THEN Infer(clean, stream + 1, net.score)
                  ELSE InferFails(clean))

\* A stream starts: what arrived during arbitration, if anything, is one chunk.
StartStream(preroll, ok) ==
  /\ phase = "idle" /\ ~overrun
  /\ stream < MaxStreams
  /\ stream' = stream + 1
  /\ sliding_window_' = FreshWindow
  /\ checked' = (auth_enabled /\ preroll > 0)
  /\ network' = IF checked' THEN AfterCheck(network, preroll, ok) ELSE network
  /\ PassOn(Samples(preroll))
  /\ vad_averager_' = Reset(vad_averager_, 0)
  /\ all_sizes' = IF preroll > 0 THEN Append(all_sizes, preroll) ELSE all_sizes
  /\ began' = [chunk |-> Len(all_sizes), sample |-> Len(passed)]
  /\ voiced' = <<>>
  /\ last_voice' = 0
  /\ phase' = "flush"
  /\ UNCHANGED configVars

LiveChunk(n) ==
  /\ phase = "live" /\ ~overrun
  /\ pcm_data = <<>>
  /\ Len(all_sizes) - began.chunk < MaxChunks
  /\ PassOn(Samples(n))
  /\ all_sizes' = Append(all_sizes, n)
  /\ UNCHANGED <<configVars, phase, stream, vadVars, last_voice, checked, began, voiced>>

-----------------------------------------------------------------------------
(***************************************************************************)
(* ProcessVADFrames.                                                       *)
(***************************************************************************)
WholeHop == i + Hop <= Len(pcm_data)

NextHop == SubSeq(pcm_data, i + 1, i + Hop)

VoiceHeard(a) == a.current_sum > VadThreshold * VadWindow

\* The averager and the session see the answer only of a network with a class
\* for voice; only live frames move the session's last voice time.
Judge(p) ==
  /\ vad_averager_' = IF NumClasses >= 3 THEN Process(vad_averager_, p) ELSE vad_averager_
  /\ voiced' = IF phase = "live" THEN Append(voiced, p) ELSE voiced
  /\ last_voice' = IF phase = "live" /\ NumClasses >= 3 /\ VoiceHeard(vad_averager_')
                   THEN Len(voiced') ELSE last_voice

\* One frame; ok says whether the network could be invoked.
Frame(p, ok) ==
  /\ ~overrun
  /\ WholeHop
  /\ sliding_window_' = SubSeq(sliding_window_, Hop + 1, 2 * Hop) \o NextHop
  /\ network' = IF ok THEN Infer(network, stream, p) ELSE InferFails(network)
  /\ Judge(network'.score)
  /\ i' = i + Hop
  /\ UNCHANGED <<configVars, phase, stream, agcVars, pcm_data, checked, chunkVars, began>>

\* What is left of the chunk is dropped.  After the pre-roll the averager is
\* filled with voice, so that the live audio gets its chance.
EndOfChunk ==
  /\ phase # "idle" /\ ~overrun
  /\ phase = "flush" \/ pcm_data # <<>>
  /\ ~WholeHop
  /\ pcm_data' = <<>>
  /\ i' = 0
  /\ phase' = "live"
  /\ vad_averager_' = IF phase = "flush" THEN Reset(vad_averager_, 100) ELSE vad_averager_
  /\ UNCHANGED <<configVars, stream, agcVars, sliding_window_, network, last_voice, checked,
                 chunkVars, began, voiced>>

StopStream ==
  /\ phase = "live" /\ ~overrun
  /\ pcm_data = <<>>
  /\ phase' = "idle"
  /\ UNCHANGED <<configVars, stream, agcVars, pcm_data, i, vadVars, last_voice, checked,
                 chunkVars, began, voiced>>

-----------------------------------------------------------------------------
Init ==
  /\ use_agc \in BOOLEAN
  /\ auth_enabled \in BOOLEAN
  /\ phase = "idle"
  /\ stream = 0
  /\ delay_line_ = <<>>
  /\ overrun = FALSE
  /\ pcm_data = <<>>
  /\ i = 0
  /\ sliding_window_ = Silence
  /\ vad_averager_ = NewAverager(VadWindow)
  /\ network = Boot
  /\ last_voice = 0
  /\ checked = FALSE
  /\ all_sizes = <<>>
  /\ received = 0
  /\ passed = <<>>
  /\ began = [chunk |-> 0, sample |-> 0]
  /\ voiced = <<>>

Next ==
  \/ \E n \in ChunkSizes \union {0}, ok \in BOOLEAN : StartStream(n, ok)
  \/ \E n \in ChunkSizes : LiveChunk(n)
  \/ \E p \in Levels : Frame(p, TRUE)
  \/ Frame(0, FALSE)
  \/ EndOfChunk
  \/ StopStream

Spec == Init /\ [][Next]_vars

-----------------------------------------------------------------------------
\* The type invariant; the window has its size, the averager's head is in it, the
\* analysis stays inside the chunk.
TypeOK ==
  /\ use_agc \in BOOLEAN /\ auth_enabled \in BOOLEAN
  /\ phase \in {"idle", "flush", "live"}
  /\ stream \in 0..MaxStreams
  /\ delay_line_ \in Seq(Seq(Nat)) /\ overrun \in BOOLEAN
  /\ pcm_data \in Seq(Nat) /\ i \in 0..Len(pcm_data)
  /\ sliding_window_ \in [1..2*Hop -> Nat]
  /\ vad_averager_ \in [window : [0..VadWindow-1 -> 0..100], head : 0..VadWindow-1,
                        current_sum : Int, size : {VadWindow}]
  /\ network \in [in : [1..NumInputs-1 -> SUBSET Nat], out : [1..NumOutputs-1 -> SUBSET Nat],
                  score : 0..100, failed : BOOLEAN]
  /\ last_voice \in 0..Len(voiced)
  /\ checked \in BOOLEAN
  /\ all_sizes \in Seq(Nat) /\ received \in Nat /\ passed \in Seq(Nat)
  /\ began \in [chunk : 0..Len(all_sizes), sample : 0..Len(passed)]
  /\ voiced \in Seq(0..100)

-----------------------------------------------------------------------------
\* With chunks of one size, in all streams, the AGC is a delay of DelayChunks
\* chunks: no sample is lost, repeated or moved, whatever streams start and end
\* (SimpleAGC::Process).  Without it the output is the input.
PureDelay ==
  (\A k \in DOMAIN all_sizes : all_sizes[k] = all_sizes[1]) \/ ~use_agc =>
    LET delay == IF use_agc /\ all_sizes # <<>> THEN DelayChunks * all_sizes[1] ELSE 0
    IN  \A k \in DOMAIN passed : passed[k] = IF k > delay THEN k - delay ELSE 0

\* The window is the last two hops of this stream's audio, preceded by silence and
\* by nothing of the stream before, if chunks are made of whole hops: no hop is
\* left out or analysed twice where two chunks meet (ProcessVADFrames).
WindowContiguous ==
  (\A k \in began.chunk+1..Len(all_sizes) : all_sizes[k] % Hop = 0) =>
    LET analysed == SubSeq(passed, began.sample + 1, Len(passed) - (Len(pcm_data) - i))
        audio    == Silence \o analysed
    IN  sliding_window_ = SubSeq(audio, Len(audio) - 2 * Hop + 1, Len(audio))

\* The average of the last VadWindow answers up to live frame k, with voice in the
\* place of those before the first, times VadWindow.
Average(k) == MovingSum(voiced, k, VadWindow, 100)

\* The session's last voice time is that of the last live frame at which that
\* average was above the threshold, whatever the averager went through before
\* (the flush of the pre-roll, earlier streams, the place of its head).
VoiceClockCorrect ==
  NumClasses >= 3 =>
    LET heard == {k \in DOMAIN voiced : Average(k) > VadThreshold * VadWindow}
    IN  /\ last_voice \in heard \union {0}
        /\ \A k \in heard : k <= last_voice

\* On a stream that was checked the network remembers nothing of earlier ones, as
\* long as no Invoke has failed (reset_states; without a check it does).
NetworkFresh ==
  checked /\ ~network.failed => \A k \in DOMAIN network.in : network.in[k] \subseteq {stream}

\* The chunk that leaves the delay line for the place of the k-th, or what stands
\* for it at the beginning.
Behind(k) == all_sizes[IF k > DelayChunks THEN k - DelayChunks ELSE 1]

\* What comes out of the delay line fits the chunk it is written over, unless a chunk
\* is shorter than the one DelayChunks before it, in this stream or an earlier one:
\* the one case in which the AGC writes past the end (SimpleAGC.h:31 makes the line
\* once, for the size of the first chunk).
LineMatchesChunk ==
  overrun <=> use_agc /\ \E k \in DOMAIN all_sizes : Behind(k) > all_sizes[k]
=============================================================================
