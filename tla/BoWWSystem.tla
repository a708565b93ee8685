---------------------------- MODULE BoWWSystem ------------------------------
(***************************************************************************)
(* The controllers of several groups on one sound device, composed with    *)
(* AlsaSinkManager: a round ends with RequestLiveStream, a stream with     *)
(* CloseLiveStream or QueueWavFile.  A client may say hello again, under   *)
(* an id of another group or after the file was edited, and has then an    *)
(* offer or a stream in each; its session has one last_voice_time_, which  *)
(* the audio of either group moves.                                        *)
(*                                                                         *)
(* The ticker holds group_mutex_ for all groups while one of them writes   *)
(* the pre-roll of its winner: StartStreaming fixes the winner, and        *)
(* AnswerCandidates tells the candidates when that is done.  A hello may   *)
(* come in between, and then the io thread waits.                          *)
(*                                                                         *)
(* A session is known to a group by the id it says hello with there; after *)
(* a hello in its own group the id may be the same or another, which is    *)
(* left open.  GroupController has what is left out here: scores, ids      *)
(* shared by several sessions, buffers, and the check.                     *)
(***************************************************************************)
EXTENDS AlsaSinkManager, FiniteSets

CONSTANTS
  Sessions,     \* ClientSessions
  Arbitration,  \* arbitration_timeout_ms, in clock ticks
  NoVoice,      \* vad_no_voice_ms, in clock ticks
  None          \* no session, no group

ASSUME SystemAssumption ==
  /\ Arbitration \in Nat
  /\ NoVoice \in Nat \ {0}
  /\ None \notin Sessions \union Groups

VARIABLES
  group,    \* of each session
  told,     \* what each client was told last: "nothing", "start", "stop"; "gone"
  age,      \* time since last_voice_time_ of each session, up to NoVoice
  offers,   \* the candidates of each group's round; {} outside one
  elapsed,  \* the age of the round, up to Arbitration
  winner,   \* best_candidate_ of a stream
  moved,    \* history: sessions that said hello in a second group
  answering,   \* the group whose tick is between StartStreaming and the answers
  io_blocked,  \* a hello waits for that tick to end
  crossed      \* streams whose winner said hello in that time, by group

answerVars == <<answering, io_blocked, crossed>>
controlVars == <<group, told, age, offers, elapsed, winner, moved, answerVars>>
systemVars == <<vars, controlVars>>

Streaming(g) == stream[g] # 0

\* Candidates wait for an answer.
Arbitrating(g) == offers[g] # {}

\* No tick is under way: no group is about to answer, or in the call that ends its
\* stream.
NoTick == answering = None /\ caller = "ready"

\* Sends to those that are still there.
Tell(msg) ==
  told' = [s \in Sessions |->
             IF s \in DOMAIN msg /\ told[s] # "gone" THEN msg[s] ELSE told[s]]

-----------------------------------------------------------------------------
(***************************************************************************)
(* The io thread.                                                          *)
(***************************************************************************)
\* SetGUID runs before group_mutex_ is taken.  (A tick that ends a stream reads no id
\* after it has begun: that a hello would wait for it too makes no difference.)
Hello(s, g) ==
  /\ ~io_blocked
  /\ told[s] # "gone"
  /\ group' = [group EXCEPT ![s] = g]
  /\ moved' = IF group[s] \in {None, g} THEN moved ELSE moved \union {s}
  /\ io_blocked' = (answering # None)
  /\ crossed' = crossed \union {h \in Groups : h = answering /\ winner[h] = s}
  /\ UNCHANGED <<vars, told, age, offers, elapsed, winner, answering>>

\* The controllers keep their pointers to the session.
Disconnect(s) ==
  /\ ~io_blocked
  /\ told[s] # "gone"
  /\ told' = [told EXCEPT ![s] = "gone"]
  /\ UNCHANGED <<vars, group, age, offers, elapsed, winner, moved, answerVars>>

\* The bound on streams is kept by opening no round beyond it.
Room == started + Cardinality({g \in Groups : Arbitrating(g)}) < MaxStreams

\* Mutant: every offer starts the round again.
RoundAge_Restarted(g) == 0

\* Only the first offer starts the clock of the round.
RoundAge(g) == IF Arbitrating(g) THEN elapsed[g] ELSE 0

HandleConfidenceScore(s, g) ==
  /\ NoTick
  /\ told[s] # "gone" /\ group[s] = g
  /\ ~Streaming(g)
  /\ Arbitrating(g) \/ Room
  /\ offers' = [offers EXCEPT ![g] = @ \union {s}]
  /\ elapsed' = [elapsed EXCEPT ![g] = RoundAge(g)]
  /\ UNCHANGED <<vars, group, told, age, winner, moved, answerVars>>

\* Audio of the winner in which voice is heard.
Voice(s, g) ==
  /\ NoTick
  /\ told[s] # "gone" /\ group[s] = g
  /\ Streaming(g) /\ winner[g] = s
  /\ age' = [age EXCEPT ![s] = 0]
  /\ IF live[g] THEN WriteLiveStream(g) ELSE UNCHANGED vars
  /\ UNCHANGED <<group, told, offers, elapsed, winner, moved, answerVars>>

-----------------------------------------------------------------------------
(***************************************************************************)
(* The ticker.                                                             *)
(***************************************************************************)
RoundOver(g) == Arbitrating(g) /\ elapsed[g] >= Arbitration

Cleared(g) == [offers EXCEPT ![g] = {}]

\* The check of the best candidate's audio fails.
AbortTrigger(g) ==
  /\ NoTick
  /\ RoundOver(g)
  /\ offers' = Cleared(g)
  /\ Tell([s \in offers[g] |-> "stop"])
  /\ UNCHANGED <<vars, group, age, elapsed, winner, moved, answerVars>>

\* Any candidate may be the best.
StartStreaming(g, s, opened) ==
  /\ NoTick
  /\ RoundOver(g)
  /\ s \in offers[g]
  /\ RequestLiveStream(g, opened)
  /\ winner' = [winner EXCEPT ![g] = s]
  /\ answering' = g
  /\ UNCHANGED <<group, told, age, offers, elapsed, moved, io_blocked, crossed>>

\* What a candidate hears last: the winner is told to start, and then to stop too
\* if its id is not the stream's any more.
Answer(g, c) ==
  IF c # winner[g] THEN {"stop"}
  ELSE IF g \in crossed THEN {"start", "stop"} ELSE {"start"}

\* The pre-roll, if the winner sent one, is out; starting counts as voice.
AnswerCandidates(g) ==
  /\ answering = g
  /\ UNCHANGED vars \/ WriteLiveStream(g)
  /\ offers' = Cleared(g)
  /\ age' = [age EXCEPT ![winner[g]] = 0]
  /\ \E msg \in [offers[g] -> {"start", "stop"}] :
       /\ \A c \in offers[g] : msg[c] \in Answer(g, c)
       /\ Tell(msg)
  /\ answering' = None
  /\ io_blocked' = FALSE
  /\ UNCHANGED <<group, elapsed, winner, moved, crossed>>

\* Mutant: only a winner that is still in the group can fall silent.
WentSilent_Member(g) == age[winner[g]] >= NoVoice /\ group[winner[g]] = g

WentSilent(g) == age[winner[g]] >= NoVoice

CloseOutput(g) == IF live[g] THEN CloseLiveStream(g) ELSE QueueWavFile(g)

\* Mutant: the client is not told.
Goodbye_None(s) == [x \in {} |-> "stop"]

Goodbye(s) == [x \in {s} |-> "stop"]

StopStreaming(g) ==
  /\ NoTick
  /\ Streaming(g)
  /\ WentSilent(g)
  /\ CloseOutput(g)
  /\ Tell(Goodbye(winner[g]))
  /\ winner' = [winner EXCEPT ![g] = None]
  /\ crossed' = crossed \ {g}
  /\ UNCHANGED <<group, age, offers, elapsed, moved, answering, io_blocked>>

OnTick(g) ==
  \/ AbortTrigger(g)
  \/ \E s \in Sessions, opened \in BOOLEAN : StartStreaming(g, s, opened)
  \/ AnswerCandidates(g)
  \/ StopStreaming(g)

Clock ==
  /\ age' = [s \in Sessions |-> IF age[s] < NoVoice THEN age[s] + 1 ELSE age[s]]
  /\ elapsed' = [g \in Groups |-> IF Arbitrating(g) /\ elapsed[g] < Arbitration
                                  THEN elapsed[g] + 1 ELSE elapsed[g]]
  /\ UNCHANGED <<vars, group, told, offers, winner, moved, answerVars>>

\* The steps of the sink that are not called by a group.
Sink == (ProcessQueue \/ JoinAndSpawn \/ Worker) /\ UNCHANGED controlVars

-----------------------------------------------------------------------------
SystemInit ==
  /\ Init
  /\ group = [s \in Sessions |-> None]
  /\ told = [s \in Sessions |-> "nothing"]
  /\ age = [s \in Sessions |-> 0]
  /\ offers = [g \in Groups |-> {}]
  /\ elapsed = [g \in Groups |-> 0]
  /\ winner = [g \in Groups |-> None]
  /\ moved = {}
  /\ answering = None
  /\ io_blocked = FALSE
  /\ crossed = {}

SystemNext ==
  \/ \E s \in Sessions, g \in Groups :
       Hello(s, g) \/ HandleConfidenceScore(s, g) \/ Voice(s, g)
  \/ \E s \in Sessions : Disconnect(s)
  \/ \E g \in Groups : OnTick(g)
  \/ Clock
  \/ Sink

\* The ticker goes through all groups; it and the sink's threads run, time passes.
SystemSpec ==
  /\ SystemInit
  /\ [][SystemNext]_systemVars
  /\ \A g \in Groups : WF_systemVars(OnTick(g))
  /\ WF_systemVars(Clock)
  /\ WF_systemVars(Sink)

-----------------------------------------------------------------------------
\* The type invariant of the composition.
SystemTypeOK ==
  /\ group \in [Sessions -> Groups \union {None}]
  /\ told \in [Sessions -> {"nothing", "start", "stop", "gone"}]
  /\ age \in [Sessions -> 0..NoVoice]
  /\ offers \in [Groups -> SUBSET Sessions]
  /\ elapsed \in [Groups -> 0..Arbitration]
  /\ winner \in [Groups -> Sessions \union {None}]
  /\ moved \in SUBSET Sessions
  /\ answering \in Groups \union {None}
  /\ io_blocked \in BOOLEAN
  /\ crossed \in SUBSET Groups

\* Clients and groups agree about who streams.  A client told to stream is the winner
\* of a stream in some group, however it moved between groups: nobody is left streaming
\* to a server that does not listen.  And once its round is answered, a winner was told
\* to stream and not to stop; except one that moved, which one group may stop while it
\* streams in the other, and one that said hello while its pre-roll was written, whose
\* own group may stop it after it started it.
SignalsAgree ==
  /\ \A s \in Sessions : told[s] = "start" => \E g \in Groups : winner[g] = s
  /\ \A g \in Groups \ (crossed \union {answering}) :
       winner[g] \notin moved \union {None} => told[winner[g]] \in {"start", "gone"}

\* Voice in any group: the clock of the session is shared.
VoiceForEver == []<><<\E s \in Sessions, g \in Groups : Voice(s, g)>>_systemVars

\* Every stream ends and every recording is taken from the queue, unless somebody
\* speaks again and again, however the groups share the device.
EverythingEnds ==
  \/ VoiceForEver
  \/ /\ \A g \in Groups : []<>~Streaming(g)
     /\ \A n \in Streams : []<>(n \notin Queued)

\* A round of one group is decided whatever the other groups and the device do: the
\* ticker, which serves all groups, is not held up for ever by the sink.
RoundsDecided == \A g \in Groups : []<>~Arbitrating(g)
=============================================================================
