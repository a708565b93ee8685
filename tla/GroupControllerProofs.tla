----------------------- MODULE GroupControllerProofs -----------------------
(***************************************************************************)
(* Proofs about GroupController, for any number of sessions, GUIDs, scores *)
(* and messages.  The inductive invariant is the conjunction of the        *)
(* invariants that TLC checks: each of them leans on the others.           *)
(***************************************************************************)
EXTENDS GroupController, TLAPS

IInv ==
  /\ TypeOK
  /\ RoundConsistent
  /\ StreamFaithful
  /\ OnlyWinnerStarted
  /\ OutputHeldByStream

-----------------------------------------------------------------------------
\* The audio of an id after one more message is the audio before it, and then
\* the message (the numbering of HandleAudioStream's payloads).
LEMMA AudioOfGrows ==
  ASSUME NEW g \in Guids, NEW n \in Nat
  PROVE  AudioOf(g, n + 1) = Append(AudioOf(g, n), <<g, n + 1>>)
BY DEF AudioOf

\* What is kept under an id stays complete when HandleAudioStream appends to it.
LEMMA GrowKeepsAudio ==
  ASSUME TypeOK, NEW g \in Guids, CountArrival(g),
         NEW seq, seq = AudioOf(g, arrived[g])
  PROVE  Grow(seq, g) = AudioOf(g, arrived'[g])
<1>1. arrived[g] \in Nat /\ arrived'[g] = Age(arrived[g], MaxChunks)
  BY DEF TypeOK, CountArrival
<1>2. CASE arrived[g] < MaxChunks
  BY <1>1, <1>2, AudioOfGrows DEF Grow, Age
<1>3. CASE ~(arrived[g] < MaxChunks)
  BY <1>1, <1>3 DEF Grow, Age
<1> QED BY <1>2, <1>3

\* Grow keeps a sequence of chunks one.
LEMMA GrowType ==
  ASSUME TypeOK, NEW g \in Guids, NEW seq \in Seq(Chunk)
  PROVE  Grow(seq, g) \in Seq(Chunk)
<1>1. arrived[g] \in Nat
  BY DEF TypeOK
<1>2. <<g, arrived[g] + 1>> \in Chunk
  BY <1>1 DEF Chunk
<1> QED BY <1>2 DEF Grow

\* Capped ages and counters stay natural numbers.
LEMMA AgeType ==
  ASSUME NEW a \in Nat, NEW cap
  PROVE  Age(a, cap) \in Nat
BY DEF Age

\* No id has audio before any message is accepted.
LEMMA NoAudioOf ==
  ASSUME NEW g \in Guids
  PROVE  AudioOf(g, 0) = <<>> /\ NoAudio[g] = <<>> /\ NoneArrived[g] = 0
BY DEF AudioOf, NoAudio, NoneArrived

-----------------------------------------------------------------------------
\* The initial state satisfies the inductive invariant.
LEMMA InitIInv == Init => IInv
<1> SUFFICES ASSUME Init PROVE IInv
  OBVIOUS
<1>1. TypeOK
  <2>1. NoAudio \in [Guids -> Seq(Chunk)] /\ NoneArrived \in [Guids -> Nat]
    BY DEF NoAudio, NoneArrived
  <2>2. current_candidates \in Seq(Offer) /\ output \in Seq(Chunk)
    BY DEF Init
  <2>3. elapsed \in Nat /\ silence \in [Sessions -> Nat]
    BY ConstantAssumption DEF Init, ConstantAssumption
  <2>4. best_score \in Int /\ best_frame_count \in Int
    BY DEF Init
  <2> QED BY <2>1, <2>2, <2>3, <2>4, Zenon DEF Init, TypeOK
<1>2. RoundConsistent
  BY DEF Init, RoundConsistent, PhaseConsistent, BestOfRound, BuffersComplete,
         WaitingListed
<1>3. StreamFaithful /\ OnlyWinnerStarted /\ OutputHeldByStream
  BY DEF Init, StreamFaithful, OnlyWinnerStarted, OutputHeldByStream
<1> QED BY <1>1, <1>2, <1>3 DEF IInv

-----------------------------------------------------------------------------
\* While a round is open or a stream runs there is a best candidate, and it has
\* an id (the guard "if (best_candidate_)" of OnTick never fails).
THEOREM BestCandidatePresent ==
  ASSUME TypeOK, PhaseConsistent, state # "IDLE"
  PROVE  best_candidate \in Sessions /\ guid[best_candidate] \in Guids
BY DEF TypeOK, PhaseConsistent

\* Every step keeps the types.
LEMMA TypeStep ==
  ASSUME TypeOK, PhaseConsistent, [Next]_vars
  PROVE  TypeOK'
<1> USE DEF sessionVars, roundVars, outputVars, locks
<1>1. CASE UNCHANGED vars
  BY <1>1 DEF TypeOK, vars
<1>2. ASSUME NEW s \in Sessions, OnOpen(s) PROVE TypeOK'
  BY <1>2 DEF TypeOK, OnOpen
<1>3. ASSUME NEW s \in Sessions, OnClose(s) PROVE TypeOK'
  BY <1>3 DEF TypeOK, OnClose
<1>4. ASSUME NEW s \in Sessions, NEW g \in Guids, SetGUID(s, g) PROVE TypeOK'
  BY <1>4 DEF TypeOK, SetGUID
<1>5. ASSUME NEW o \in Offer, HandleConfidenceScore(o) PROVE TypeOK'
  <2>1. told' \in [Sessions -> {"nothing", "waiting", "ignored", "start", "stop"}]
    BY <1>5 DEF TypeOK, HandleConfidenceScore, Enter
  <2>2. CASE StartArbitration(o)
    <3>1. o.who \in Sessions /\ o.score \in Int /\ o.frames \in Int
      BY ConstantAssumption DEF Offer, ConstantAssumption
    <3>2. NoAudio \in [Guids -> Seq(Chunk)]
      BY DEF NoAudio
    <3> QED BY SMTT(30), <1>5, <2>1, <2>2, <3>1, <3>2 DEF TypeOK, HandleConfidenceScore, StartArbitration
  <2>3. CASE JoinArbitration(o)
    <3>1. o.who \in Sessions /\ o.score \in Int /\ o.frames \in Int
      BY ConstantAssumption DEF Offer, ConstantAssumption
    <3>2. current_candidates' \in Seq(Offer)
      BY <2>3 DEF TypeOK, JoinArbitration, Enlisted
    <3> QED BY SMTT(30), <1>5, <2>1, <2>3, <3>1, <3>2 DEF TypeOK, HandleConfidenceScore, JoinArbitration
  <2> QED BY <1>5, <2>2, <2>3 DEF HandleConfidenceScore
<1>6. ASSUME NEW s \in Sessions, NEW voiced \in BOOLEAN, HandleAudioStream(s, voiced)
      PROVE TypeOK'
  <2>1. guid[s] \in Guids
    BY <1>6 DEF TypeOK, HandleAudioStream, IsAuthenticated
  <2>2. arrived' \in [Guids -> Nat]
    BY <1>6, <2>1, AgeType DEF TypeOK, HandleAudioStream, CountArrival
  <2>3. CASE BufferAudio(guid[s])
    <3>1. arbitration_buffers' \in [Guids -> Seq(Chunk)]
      BY <2>1, <2>3, GrowType DEF TypeOK, BufferAudio
    <3> QED BY SMTT(30), <1>6, <2>2, <2>3, <3>1 DEF TypeOK, HandleAudioStream, BufferAudio
  <2>4. CASE StreamAudio(guid[s], voiced)
    <3>1. output' \in Seq(Chunk)
      BY <2>1, <2>4, GrowType DEF TypeOK, StreamAudio
    <3>2. silence' \in [Sessions -> Nat]
      BY <2>4 DEF TypeOK, StreamAudio, HeardVoice
    <3> QED BY <1>6, <2>2, <2>4, <3>1, <3>2 DEF TypeOK, HandleAudioStream, StreamAudio
  <2> QED BY <1>6, <2>3, <2>4 DEF HandleAudioStream
<1>7. CASE CheckTrigger
  BY <1>7, BestCandidatePresent DEF TypeOK, CheckTrigger, ArbitrationOver
<1>8. CASE AbortTrigger
  <2>1. told' \in [Sessions -> {"nothing", "waiting", "ignored", "start", "stop"}]
    BY <1>8 DEF TypeOK, AbortTrigger, Tell
  <2>2. NoAudio \in [Guids -> Seq(Chunk)] /\ NoneArrived \in [Guids -> Nat]
    BY DEF NoAudio, NoneArrived
  <2>3. <<>> \in Seq(Offer)
    OBVIOUS
  <2> QED BY <1>8, <2>1, <2>2, <2>3, Zenon DEF TypeOK, AbortTrigger, Unlock
<1>9. CASE StartStreaming
  <2>1. best_candidate \in Sessions /\ guid[best_candidate] \in Guids
    BY <1>9, BestCandidatePresent DEF PhaseConsistent, StartStreaming
  <2>2. output' \in Seq(Chunk)
    BY <1>9, <2>1 DEF TypeOK, StartStreaming, PreRollWritten, PreRoll
  <2>3. arrived' \in [Guids -> Nat]
    BY <1>9, <2>1 DEF TypeOK, StartStreaming, NoneArrived
  <2>4. /\ is_live_streaming' \in BOOLEAN /\ leased' \in BOOLEAN
        /\ is_recording_to_file' \in BOOLEAN /\ wav' \in {"closed", "open", "published"}
    BY <1>9, Zenon DEF StartStreaming, ChooseOutput
  <2> QED BY <1>9, <2>1, <2>2, <2>3, <2>4, Zenon DEF TypeOK, StartStreaming
<1>10. CASE AnswerCandidates
  <2>1. told' \in [Sessions -> {"nothing", "waiting", "ignored", "start", "stop"}]
    <3>1. Tell(Losers, "stop") \in [Sessions -> {"nothing", "waiting", "ignored", "start", "stop"}]
      BY DEF TypeOK, Tell
    <3>2. best_candidate \in Sessions =>
            Tell({best_candidate}, WinnerHears)[best_candidate]
              \in {"nothing", "waiting", "ignored", "start", "stop"}
      BY DEF TypeOK, Tell, WinnerHears
    <3> QED BY <1>10, <3>1, <3>2 DEF AnswerCandidates
  <2>2. silence' \in [Sessions -> Nat]
    BY <1>10 DEF TypeOK, AnswerCandidates
  <2>3. NoAudio \in [Guids -> Seq(Chunk)] /\ <<>> \in Seq(Offer)
    BY DEF NoAudio
  <2> QED BY <1>10, <2>1, <2>2, <2>3, Zenon DEF TypeOK, AnswerCandidates, Unlock
<1>11. CASE StopStreaming
  <2>1. told' \in [Sessions -> {"nothing", "waiting", "ignored", "start", "stop"}]
    BY <1>11 DEF TypeOK, StopStreaming, StopWinner, Tell
  <2>2. NoneArrived \in [Guids -> Nat] /\ <<>> \in Seq(Chunk)
    BY DEF NoneArrived
  <2>3. leased' \in BOOLEAN /\ wav' \in {"closed", "open", "published"}
    BY <1>11 DEF TypeOK, StopStreaming, CloseOutput
  <2> QED BY <1>11, <2>1, <2>2, <2>3, Zenon DEF TypeOK, StopStreaming
<1>12. CASE Tick
  BY <1>12, AgeType DEF TypeOK, Tick
<1> QED BY <1>1, <1>2, <1>3, <1>4, <1>5, <1>6, <1>7, <1>8, <1>9, <1>10, <1>11, <1>12
    DEF Next, OnTick

\* Every step leaves the fields of the phases consistent.
LEMMA PhaseStep ==
  ASSUME TypeOK, PhaseConsistent, [Next]_vars
  PROVE  PhaseConsistent'
<1> USE DEF sessionVars, roundVars, outputVars, locks
<1>1. CASE UNCHANGED vars
  BY <1>1 DEF PhaseConsistent, vars
<1>2. ASSUME NEW s \in Sessions, OnOpen(s) PROVE PhaseConsistent'
  BY <1>2 DEF TypeOK, PhaseConsistent, OnOpen
<1>3. ASSUME NEW s \in Sessions, OnClose(s) PROVE PhaseConsistent'
  BY <1>3 DEF TypeOK, PhaseConsistent, OnClose
<1>4. ASSUME NEW s \in Sessions, NEW g \in Guids, SetGUID(s, g) PROVE PhaseConsistent'
  BY <1>4, ConstantAssumption DEF TypeOK, PhaseConsistent, SetGUID, ConstantAssumption
<1>5. ASSUME NEW o \in Offer, HandleConfidenceScore(o) PROVE PhaseConsistent'
  <2>1. o.who \in Sessions /\ o.who # None /\ conn[o.who] = "open" /\ guid[o.who] # None
    BY <1>5, ConstantAssumption DEF Offer, ConstantAssumption, HandleConfidenceScore, IsAuthenticated
  <2>2. \A t \in Sessions : conn[t] = "fresh" => told'[t] = "nothing"
    BY <1>5, <2>1 DEF TypeOK, PhaseConsistent, HandleConfidenceScore, Enter
  <2>3. CASE StartArbitration(o)
    BY <1>5, <2>1, <2>2, <2>3 DEF TypeOK, PhaseConsistent, HandleConfidenceScore, StartArbitration
  <2>4. CASE JoinArbitration(o)
    <3>1. current_candidates' # <<>>
      BY <2>4 DEF TypeOK, JoinArbitration, Enlisted
    <3> QED BY <1>5, <2>1, <2>2, <2>4, <3>1 DEF TypeOK, PhaseConsistent, HandleConfidenceScore, JoinArbitration
  <2> QED BY <1>5, <2>3, <2>4 DEF HandleConfidenceScore
<1>6. ASSUME NEW s \in Sessions, NEW voiced \in BOOLEAN, HandleAudioStream(s, voiced)
      PROVE PhaseConsistent'
  <2>1. CASE BufferAudio(guid[s])
    BY <1>6, <2>1 DEF PhaseConsistent, HandleAudioStream, BufferAudio
  <2>2. CASE StreamAudio(guid[s], voiced)
    BY <1>6, <2>2 DEF PhaseConsistent, HandleAudioStream, StreamAudio
  <2> QED BY <1>6, <2>1, <2>2 DEF HandleAudioStream
<1>7. CASE CheckTrigger
  BY <1>7 DEF PhaseConsistent, CheckTrigger, ArbitrationOver
<1>8. CASE AbortTrigger
  BY <1>8 DEF TypeOK, PhaseConsistent, AbortTrigger, Unlock, Tell
<1>9. CASE StartStreaming
  <2>1. best_candidate \in Sessions /\ guid[best_candidate] \in Guids
    BY <1>9, BestCandidatePresent DEF PhaseConsistent, StartStreaming
  <2>2. guid[best_candidate] # None
    BY <2>1, ConstantAssumption DEF ConstantAssumption
  <2> QED BY <1>9, <2>1, <2>2 DEF PhaseConsistent, StartStreaming
<1>10. CASE AnswerCandidates
  <2>1. state = "STREAMING" /\ best_candidate \in Sessions
    BY <1>10, BestCandidatePresent DEF PhaseConsistent, AnswerCandidates
  <2>2. \A s \in Sessions : conn[s] = "fresh" => told'[s] = "nothing"
    BY <1>10, <2>1 DEF TypeOK, PhaseConsistent, AnswerCandidates, Tell
  <2> QED BY <1>10, <2>1, <2>2 DEF PhaseConsistent, AnswerCandidates, Unlock
<1>11. CASE StopStreaming
  <2>1. \A s \in Sessions : conn[s] = "fresh" => told'[s] = "nothing"
    BY <1>11 DEF TypeOK, PhaseConsistent, StopStreaming, StopWinner, Tell
  <2> QED BY <1>11, <2>1 DEF PhaseConsistent, StopStreaming, Unlocked, WentSilent
<1>12. CASE Tick
  BY <1>12 DEF PhaseConsistent, Tick
<1> QED BY <1>1, <1>2, <1>3, <1>4, <1>5, <1>6, <1>7, <1>8, <1>9, <1>10, <1>11, <1>12
    DEF Next, OnTick

\* Every step leaves the best_ fields those of the earliest best offer.
LEMMA BestStep ==
  ASSUME TypeOK, TypeOK', PhaseConsistent, BestOfRound, [Next]_vars
  PROVE  BestOfRound'
<1> USE DEF sessionVars, roundVars, outputVars, locks
<1> DEFINE Best(c, i) == /\ \A j \in 1..Len(c) : c[j].score <= c[i].score
                         /\ \A j \in 1..(i - 1) : c[j].score < c[i].score
<1>0. \A c, i : Arbiter!IsFirstBest(c, i) <=> Best(c, i)
  BY DEF Arbiter!IsFirstBest
<1> HIDE DEF Best
<1>1. CASE UNCHANGED <<state, current_candidates, best_candidate, best_score, best_frame_count>>
  BY <1>0, <1>1 DEF BestOfRound
<1>2. ASSUME NEW o \in Offer, StartArbitration(o) PROVE BestOfRound'
  <2>1. /\ Len(current_candidates') = 1
        /\ current_candidates'[1] = o
        /\ o = [who |-> o.who, score |-> o.score, frames |-> o.frames]
        /\ o.score \in Int
    BY <1>2, ConstantAssumption DEF StartArbitration, Offer, ConstantAssumption
  <2>2. Best(current_candidates', 1)
    BY <2>1 DEF Best
  <2> QED BY <1>0, <1>2, <2>1, <2>2 DEF BestOfRound, StartArbitration
<1>3. ASSUME NEW o \in Offer, JoinArbitration(o) PROVE BestOfRound'
  <2> DEFINE n == Len(current_candidates)
  <2>1. PICK i \in 1..n :
          /\ Best(current_candidates, i)
          /\ current_candidates[i] = [who |-> best_candidate, score |-> best_score,
                                      frames |-> best_frame_count]
    BY <1>0, <1>3 DEF BestOfRound, JoinArbitration
  <2>0. current_candidates \in Seq(Offer) /\ current_candidates' = Append(current_candidates, o)
    BY <1>3 DEF TypeOK, JoinArbitration, Enlisted
  <2>2. /\ n \in Nat /\ Len(current_candidates') = n + 1
        /\ \A j \in 1..n : current_candidates'[j] = current_candidates[j]
        /\ current_candidates'[n + 1] = o
    BY <2>0
  <2>3. /\ \A j \in 1..n : current_candidates[j].score \in Int
        /\ o.score \in Int
        /\ o = [who |-> o.who, score |-> o.score, frames |-> o.frames]
    <3>1. ASSUME NEW p \in Offer
          PROVE  /\ p.score \in Int
                 /\ p = [who |-> p.who, score |-> p.score, frames |-> p.frames]
      BY ConstantAssumption DEF Offer, ConstantAssumption
    <3>2. \A j \in 1..n : current_candidates[j] \in Offer
      BY <2>0
    <3> QED BY <3>1, <3>2
  <2>4. current_candidates[i].score = best_score /\ best_score \in Int
    BY <2>1 DEF TypeOK
  <2>5. CASE Beats(o.score)
    <3>1. \A j \in 1..n : current_candidates'[j].score < o.score
      BY <2>1, <2>2, <2>3, <2>4, <2>5 DEF Best, Beats
    <3>2. \A j \in 1..Len(current_candidates') :
            j \in 1..n \/ current_candidates'[j] = o
      BY <2>2
    <3>3. \A j \in 1..n : current_candidates'[j].score \in Int
      BY <2>2, <2>3
    <3>4. Best(current_candidates', n + 1)
      BY <2>2, <2>3, <3>1, <3>2, <3>3 DEF Best
    <3>5. current_candidates'[n + 1] = [who |-> best_candidate', score |-> best_score',
                                        frames |-> best_frame_count']
      BY <1>3, <2>2, <2>3, <2>5 DEF JoinArbitration
    <3>6. n + 1 \in 1..Len(current_candidates')
      BY <2>2
    <3> QED BY <1>0, <3>4, <3>5, <3>6 DEF BestOfRound
  <2>6. CASE ~Beats(o.score)
    <3>1. Best(current_candidates', i)
      BY <2>1, <2>2, <2>3, <2>4, <2>6 DEF Best, Beats
    <3> QED BY <1>0, <1>3, <2>1, <2>2, <2>6, <3>1 DEF BestOfRound, JoinArbitration
  <2> QED BY <2>5, <2>6
<1>4. CASE state' # "ARBITRATING"
  BY <1>4 DEF BestOfRound
<1>5. \/ UNCHANGED <<state, current_candidates, best_candidate, best_score, best_frame_count>>
      \/ \E o \in Offer : StartArbitration(o) \/ JoinArbitration(o)
      \/ state' # "ARBITRATING"
  BY DEF Next, vars, OnOpen, OnClose, SetGUID, HandleConfidenceScore, HandleAudioStream,
         BufferAudio, StreamAudio, OnTick, CheckTrigger, AbortTrigger, StartStreaming,
         AnswerCandidates, PhaseConsistent, StopStreaming, Tick
<1> QED BY <1>1, <1>2, <1>3, <1>4, <1>5

\* Every step leaves the buffers of an open round complete.
LEMMA BufferStep ==
  ASSUME TypeOK, PhaseConsistent, BuffersComplete, [Next]_vars
  PROVE  BuffersComplete'
<1> USE DEF sessionVars, roundVars, outputVars, locks
<1>1. CASE UNCHANGED <<state, arbitration_buffers, arrived>>
  BY <1>1 DEF BuffersComplete, AudioOf
<1>2. ASSUME NEW o \in Offer, HandleConfidenceScore(o), StartArbitration(o)
      PROVE  BuffersComplete'
  <2>1. arbitration_buffers' = NoAudio /\ arrived' = NoneArrived
    BY <1>2 DEF PhaseConsistent, HandleConfidenceScore, StartArbitration
  <2> QED BY <2>1, NoAudioOf DEF BuffersComplete, AudioOf
<1>3. ASSUME NEW s \in Sessions, NEW voiced \in BOOLEAN,
             HandleAudioStream(s, voiced), BufferAudio(guid[s])
      PROVE  BuffersComplete'
  <2>1. guid[s] \in Guids /\ CountArrival(guid[s])
    BY <1>3 DEF TypeOK, HandleAudioStream, IsAuthenticated
  <2>2. arbitration_buffers[guid[s]] = AudioOf(guid[s], arrived[guid[s]])
    BY <1>3, <2>1 DEF BuffersComplete, BufferAudio
  <2>3. arbitration_buffers'[guid[s]] = AudioOf(guid[s], arrived'[guid[s]])
    <3>1. arbitration_buffers'[guid[s]] = Grow(arbitration_buffers[guid[s]], guid[s])
      BY <1>3, <2>1 DEF TypeOK, BufferAudio
    <3> QED BY <2>1, <2>2, <3>1, GrowKeepsAudio
  <2>4. ASSUME NEW g \in Guids, g # guid[s]
        PROVE  arbitration_buffers'[g] = AudioOf(g, arrived'[g])
    BY <1>3, <2>1, <2>4 DEF TypeOK, BuffersComplete, BufferAudio, CountArrival
  <2>5. \A g \in Guids : arbitration_buffers'[g] = AudioOf(g, arrived'[g])
    BY <2>3, <2>4
  <2> QED BY <2>5 DEF BuffersComplete, AudioOf
<1>4. CASE state' # "ARBITRATING"
  BY <1>4 DEF BuffersComplete
<1>5. \/ UNCHANGED <<state, arbitration_buffers, arrived>>
      \/ \E o \in Offer : HandleConfidenceScore(o) /\ StartArbitration(o)
      \/ \E s \in Sessions, voiced \in BOOLEAN :
           HandleAudioStream(s, voiced) /\ BufferAudio(guid[s])
      \/ state' # "ARBITRATING"
  BY DEF Next, vars, OnOpen, OnClose, SetGUID, HandleConfidenceScore, JoinArbitration,
         HandleAudioStream, StreamAudio, OnTick, CheckTrigger, AbortTrigger,
         StartStreaming, AnswerCandidates, PhaseConsistent, StopStreaming, Tick
<1> QED BY <1>1, <1>2, <1>3, <1>4, <1>5

\* The candidates after a step of HandleConfidenceScore.
LEMMA CandidatesGrow ==
  ASSUME TypeOK, NEW o \in Offer, HandleConfidenceScore(o)
  PROVE  Candidates' = (IF state = "IDLE" THEN {} ELSE Candidates) \cup {o.who}
<1>1. CASE StartArbitration(o)
  <2>1. state = "IDLE" /\ current_candidates' = <<o>>
    BY <1>1 DEF StartArbitration
  <2> QED BY <2>1 DEF Candidates
<1>2. CASE JoinArbitration(o)
  <2>1. /\ state # "IDLE"
        /\ current_candidates \in Seq(Offer)
        /\ current_candidates' = Append(current_candidates, o)
    BY <1>2 DEF TypeOK, JoinArbitration, Enlisted
  <2>2. /\ Len(current_candidates) \in Nat
        /\ Len(current_candidates') = Len(current_candidates) + 1
        /\ \A j \in 1..Len(current_candidates) :
             current_candidates'[j] = current_candidates[j]
        /\ current_candidates'[Len(current_candidates) + 1] = o
    BY <2>1
  <2>3. ASSUME NEW s \in Candidates' PROVE s \in Candidates \cup {o.who}
    BY <2>2 DEF Candidates
  <2>4. ASSUME NEW s \in Candidates PROVE s \in Candidates'
    BY <2>2 DEF Candidates
  <2>5. o.who \in Candidates'
    BY <2>2 DEF Candidates
  <2> QED BY <2>1, <2>3, <2>4, <2>5
<1> QED BY <1>1, <1>2 DEF HandleConfidenceScore

\* Every step leaves everybody who waits on the list of candidates.
LEMMA WaitingStep ==
  ASSUME TypeOK, PhaseConsistent, WaitingListed, [Next]_vars
  PROVE  WaitingListed'
<1> USE DEF sessionVars, roundVars, outputVars, locks
<1>1. CASE UNCHANGED <<state, told, current_candidates, verdict>>
  BY <1>1 DEF WaitingListed, Candidates
<1>2. ASSUME NEW o \in Offer, HandleConfidenceScore(o) PROVE WaitingListed'
  <2>1. Candidates' = (IF state = "IDLE" THEN {} ELSE Candidates) \cup {o.who}
    BY <1>2, CandidatesGrow
  <2>2. ASSUME NEW s \in Sessions, told'[s] = "waiting" PROVE s \in Candidates'
    <3>1. s # o.who => told[s] = "waiting" /\ state # "IDLE"
      BY <1>2, <2>2 DEF TypeOK, HandleConfidenceScore, Enter
    <3>2. state \in {"IDLE", "ARBITRATING"}
      BY <1>2 DEF HandleConfidenceScore, StartArbitration, JoinArbitration
    <3> QED BY <2>1, <3>1, <3>2 DEF WaitingListed
  <2> QED BY <2>2 DEF WaitingListed
<1>3. CASE ~(state' = "ARBITRATING" \/ verdict' = "flushed")
  BY <1>3 DEF WaitingListed
<1>4. CASE CheckTrigger \/ StartStreaming
  <2>1. state = "ARBITRATING" /\ UNCHANGED <<told, current_candidates>>
    BY <1>4 DEF CheckTrigger, ArbitrationOver, StartStreaming, PhaseConsistent
  <2> QED BY <2>1 DEF WaitingListed, Candidates
<1>5. \/ UNCHANGED <<state, told, current_candidates, verdict>>
      \/ \E o \in Offer : HandleConfidenceScore(o)
      \/ ~(state' = "ARBITRATING" \/ verdict' = "flushed")
      \/ CheckTrigger \/ StartStreaming
  BY DEF Next, vars, OnOpen, OnClose, SetGUID, HandleAudioStream, BufferAudio, StreamAudio,
         OnTick, AbortTrigger, AnswerCandidates, Unlock, PhaseConsistent, StopStreaming,
         Unlocked, Tick
<1> QED BY <1>1, <1>2, <1>3, <1>4, <1>5

\* Every step leaves the stream faithful: the flush starts it with the buffer of
\* the winner's id, which is complete, and HandleAudioStream extends it.
LEMMA StreamStep ==
  ASSUME TypeOK, PhaseConsistent, BuffersComplete, StreamFaithful, [Next]_vars
  PROVE  StreamFaithful'
<1> USE DEF sessionVars, roundVars, outputVars, locks
<1>1. CASE UNCHANGED <<state, active_client_guid, is_live_streaming, is_recording_to_file,
                       wav, output, arrived>>
  BY <1>1 DEF StreamFaithful, OutputOpen, AudioOf
<1>2. ASSUME NEW s \in Sessions, NEW voiced \in BOOLEAN,
             HandleAudioStream(s, voiced), StreamAudio(guid[s], voiced)
      PROVE  StreamFaithful'
  <2>1. /\ guid[s] \in Guids /\ CountArrival(guid[s])
        /\ state = "STREAMING" /\ active_client_guid = guid[s]
    BY <1>2 DEF TypeOK, HandleAudioStream, IsAuthenticated, StreamAudio, Accepted
  <2>2. SUFFICES ASSUME OutputOpen'
                 PROVE  output' = AudioOf(guid[s], arrived'[guid[s]])
    BY <1>2, <2>1 DEF StreamFaithful, StreamAudio, AudioOf
  <2>3. OutputOpen
    BY <1>2, <2>2 DEF StreamAudio, OutputOpen
  <2>4. output = AudioOf(guid[s], arrived[guid[s]]) /\ output' = Grow(output, guid[s])
    BY <1>2, <2>1, <2>3 DEF StreamFaithful, StreamAudio
  <2> QED BY <2>1, <2>4, GrowKeepsAudio
<1>3. CASE StartStreaming
  <2> DEFINE g == guid[best_candidate]
  <2>1. g \in Guids /\ state = "ARBITRATING"
    BY <1>3, BestCandidatePresent DEF PhaseConsistent, StartStreaming
  <2>2. active_client_guid' = g /\ arrived'[g] = arrived[g]
    BY <1>3, <2>1 DEF StartStreaming, NoneArrived
  <2>3. PreRoll = AudioOf(g, arrived[g])
    BY <2>1 DEF BuffersComplete, PreRoll
  <2>4. PICK granted \in BOOLEAN, opened \in BOOLEAN :
          /\ ChooseOutput(granted, opened)
          /\ output' = IF granted \/ opened THEN PreRollWritten ELSE <<>>
    BY <1>3 DEF StartStreaming
  <2>5. OutputOpen' => granted \/ opened
    BY <2>4 DEF OutputOpen, ChooseOutput
  <2>6. OutputOpen' => output' = AudioOf(g, arrived[g])
    BY <2>3, <2>4, <2>5 DEF PreRollWritten
  <2> QED BY <2>2, <2>6 DEF StreamFaithful, AudioOf
<1>4. CASE state' # "STREAMING"
  BY <1>4 DEF StreamFaithful
<1>5. \/ UNCHANGED <<state, active_client_guid, is_live_streaming, is_recording_to_file,
                     wav, output, arrived>>
      \/ \E s \in Sessions, voiced \in BOOLEAN :
           HandleAudioStream(s, voiced) /\ StreamAudio(guid[s], voiced)
      \/ StartStreaming
      \/ state' # "STREAMING"
  BY DEF Next, vars, OnOpen, OnClose, SetGUID, HandleConfidenceScore, StartArbitration,
         JoinArbitration, HandleAudioStream, BufferAudio, OnTick, CheckTrigger, AbortTrigger,
         AnswerCandidates, StopStreaming, Tick
<1> QED BY <1>1, <1>2, <1>3, <1>4, <1>5

\* Every step leaves at most the winner started: no client is told to start but
\* by AnswerCandidates, and StopStreaming tells the same session to stop.
LEMMA StartedStep ==
  ASSUME TypeOK, PhaseConsistent, OnlyWinnerStarted, [Next]_vars
  PROVE  OnlyWinnerStarted'
<1> USE DEF sessionVars, roundVars, outputVars, locks
<1>1. CASE UNCHANGED <<conn, told, state, best_candidate>>
  BY <1>1 DEF OnlyWinnerStarted
<1>2. ASSUME NEW s \in Sessions, OnOpen(s) \/ OnClose(s) PROVE OnlyWinnerStarted'
  BY <1>2 DEF TypeOK, PhaseConsistent, OnlyWinnerStarted, OnOpen, OnClose
<1>3. ASSUME NEW o \in Offer, HandleConfidenceScore(o) PROVE OnlyWinnerStarted'
  BY <1>3 DEF TypeOK, OnlyWinnerStarted, HandleConfidenceScore, StartArbitration,
              JoinArbitration, Enter
<1>4. CASE AbortTrigger
  BY <1>4 DEF TypeOK, PhaseConsistent, OnlyWinnerStarted, AbortTrigger, Tell
<1>5. CASE AnswerCandidates
  <2>1. best_candidate \in Sessions /\ state = "STREAMING"
    BY <1>5, BestCandidatePresent DEF PhaseConsistent, AnswerCandidates
  <2>2. ASSUME NEW s \in Sessions, s # best_candidate, conn[s] = "open"
        PROVE  told'[s] # "start"
    BY <1>5, <2>1, <2>2 DEF TypeOK, OnlyWinnerStarted, AnswerCandidates, Tell
  <2> QED BY <1>5, <2>1, <2>2 DEF OnlyWinnerStarted, AnswerCandidates
<1>6. CASE StartStreaming
  BY <1>6 DEF PhaseConsistent, OnlyWinnerStarted, StartStreaming
<1>7. CASE StopStreaming
  BY <1>7 DEF TypeOK, OnlyWinnerStarted, StopStreaming, StopWinner, Tell
<1>8. \/ UNCHANGED <<conn, told, state, best_candidate>>
      \/ \E s \in Sessions : OnOpen(s) \/ OnClose(s)
      \/ \E o \in Offer : HandleConfidenceScore(o)
      \/ AbortTrigger \/ StartStreaming \/ AnswerCandidates \/ StopStreaming
  BY DEF Next, vars, SetGUID, HandleAudioStream, BufferAudio, StreamAudio, OnTick,
         CheckTrigger, Tick
<1> QED BY <1>1, <1>2, <1>3, <1>4, <1>5, <1>6, <1>7, <1>8

\* Every step leaves the output held exactly by a stream.
LEMMA OutputStep ==
  ASSUME TypeOK, PhaseConsistent, OutputHeldByStream, [Next]_vars
  PROVE  OutputHeldByStream'
<1> USE DEF sessionVars, roundVars, outputVars, locks
<1>1. ASSUME UNCHANGED <<leased, is_live_streaming, is_recording_to_file, wav>>,
             state' = "STREAMING" <=> state = "STREAMING"
      PROVE  OutputHeldByStream'
  BY <1>1 DEF OutputHeldByStream
<1>2. CASE StartStreaming
  <2>1. PICK granted \in BOOLEAN, opened \in BOOLEAN : ChooseOutput(granted, opened)
    BY <1>2 DEF StartStreaming
  <2>2. /\ leased' = granted /\ is_live_streaming' = granted
        /\ is_recording_to_file' = ~granted
        /\ granted => OutputIsAlsa /\ ~opened
        /\ wav' = "open" => opened
    BY <2>1 DEF ChooseOutput
  <2>3. state' = "STREAMING"
    BY <1>2 DEF StartStreaming
  <2> QED BY <2>2, <2>3 DEF OutputHeldByStream
<1>3. CASE StopStreaming
  <2>1. PICK published \in BOOLEAN : CloseOutput(published)
    BY <1>3 DEF StopStreaming
  <2>2. leased' = FALSE
    BY <2>1 DEF OutputHeldByStream, CloseOutput
  <2>3. wav' # "open"
    BY <2>1 DEF CloseOutput
  <2> QED BY <1>3, <2>2, <2>3 DEF OutputHeldByStream, StopStreaming
<1>4. \/ /\ UNCHANGED <<leased, is_live_streaming, is_recording_to_file, wav>>
         /\ state' = "STREAMING" <=> state = "STREAMING"
      \/ StartStreaming
      \/ StopStreaming
  BY DEF Next, vars, OnOpen, OnClose, SetGUID, HandleConfidenceScore, StartArbitration,
         JoinArbitration, HandleAudioStream, BufferAudio, StreamAudio, OnTick, CheckTrigger,
         AbortTrigger, AnswerCandidates, PhaseConsistent, Tick
<1> QED BY <1>1, <1>2, <1>3, <1>4

-----------------------------------------------------------------------------
\* The inductive invariant holds in every reachable state.
THEOREM Invariance == SafeSpec => []IInv
<1>1. Init => IInv
  BY InitIInv
<1>2. IInv /\ [Next]_vars => IInv'
  <2> SUFFICES ASSUME IInv, [Next]_vars PROVE IInv'
    OBVIOUS
  <2>1. /\ TypeOK /\ PhaseConsistent /\ BestOfRound /\ BuffersComplete
        /\ WaitingListed /\ StreamFaithful /\ OnlyWinnerStarted /\ OutputHeldByStream
    BY DEF IInv, RoundConsistent
  <2>2. TypeOK' /\ PhaseConsistent'
    BY <2>1, TypeStep, PhaseStep
  <2>3. BestOfRound' /\ BuffersComplete' /\ WaitingListed'
    BY <2>1, <2>2, BestStep, BufferStep, WaitingStep
  <2>4. StreamFaithful' /\ OnlyWinnerStarted' /\ OutputHeldByStream'
    BY <2>1, StreamStep, StartedStep, OutputStep
  <2> QED BY <2>2, <2>3, <2>4 DEF IInv, RoundConsistent
<1> QED BY <1>1, <1>2, PTL DEF SafeSpec

\* All variables keep their types.
THEOREM TypeCorrect == SafeSpec => []TypeOK
<1>1. IInv => TypeOK
  BY DEF IInv
<1> QED BY <1>1, Invariance, PTL

\* The bookkeeping of a round agrees with its history: the best offer is the
\* earliest with the highest score, no buffered audio is missing, nobody who
\* waits is forgotten, and nothing of a round outlives it.
THEOREM RoundsConsistent == SafeSpec => []RoundConsistent
<1>1. IInv => RoundConsistent
  BY DEF IInv
<1> QED BY <1>1, Invariance, PTL

\* What the output of a stream has received is exactly the audio accepted under
\* the winner's id since its round began.
THEOREM StreamsFaithful == SafeSpec => []StreamFaithful
<1>1. IInv => StreamFaithful
  BY DEF IInv
<1> QED BY <1>1, Invariance, PTL

\* A connected client that was last told to start is the winner of the running
\* stream.
THEOREM OnlyWinnersStarted == SafeSpec => []OnlyWinnerStarted
<1>1. IInv => OnlyWinnerStarted
  BY DEF IInv
<1> QED BY <1>1, Invariance, PTL

\* The output is held exactly while a stream runs.
THEOREM OutputsHeldByStreams == SafeSpec => []OutputHeldByStream
<1>1. IInv => OutputHeldByStream
  BY DEF IInv
<1> QED BY <1>1, Invariance, PTL

\* As long as no hello has come in the middle of the tick, the id that the group
\* streams is the one the winner still has.
WinnerHeld ==
  verdict = "flushed" /\ ~io_blocked => guid[best_candidate] = active_client_guid

\* While the tick holds the lock, the winner's id is changed by a hello alone.
LEMMA WinnerStep ==
  ASSUME IInv, WinnerHeld, [Next]_vars
  PROVE  WinnerHeld'
<1> USE DEF sessionVars, roundVars, outputVars, locks
<1>1. CASE StartStreaming
  BY <1>1 DEF StartStreaming, WinnerHeld
<1>2. CASE \E s \in Sessions, g \in Guids : SetGUID(s, g)
  BY <1>2 DEF SetGUID, WinnerHeld
<1>3. CASE verdict' # "flushed"
  BY <1>3 DEF WinnerHeld
<1>4. CASE UNCHANGED <<verdict, io_blocked, best_candidate, guid, active_client_guid>>
  BY <1>4 DEF WinnerHeld
<1>5. CASE verdict = "none" /\ UNCHANGED verdict
  BY <1>5 DEF WinnerHeld
<1>6. \/ StartStreaming
      \/ \E s \in Sessions, g \in Guids : SetGUID(s, g)
      \/ verdict' # "flushed"
      \/ UNCHANGED <<verdict, io_blocked, best_candidate, guid, active_client_guid>>
      \/ verdict = "none" /\ UNCHANGED verdict
  BY DEF Next, vars, OnOpen, OnClose, HandleConfidenceScore, HandleAudioStream, OnTick,
         CheckTrigger, AbortTrigger, AnswerCandidates, Unlock, StopStreaming, Unlocked, Tick
<1> QED BY <1>1, <1>2, <1>3, <1>4, <1>5, <1>6

\* When the tick that decides a round ends, whoever waits has been told start or stop,
\* unless its id is by then the one the group streams: OnTick's loops reach all
\* candidates, and all who wait are candidates.  The winner has been told start alone,
\* unless a hello came in the tick.
THEOREM CandidatesAnswered == SafeSpec => EveryCandidateAnswered
<1> USE DEF sessionVars, roundVars, outputVars, locks
<1> DEFINE Answered ==
      verdict # "none" /\ verdict' = "none" =>
        /\ \A s \in Sessions : told[s] = "waiting" /\ conn[s] = "open" =>
             \/ told'[s] = "stop"
             \/ told'[s] = "start" /\ s = best_candidate'
             \/ state' = "STREAMING" /\ guid[s] = active_client_guid'
        /\ state' = "STREAMING" /\ conn[best_candidate'] = "open" /\ ~io_blocked =>
             told'[best_candidate'] = "start"
<1>1. Init => WinnerHeld
  BY DEF Init, WinnerHeld
<1>2. IInv /\ WinnerHeld /\ [Next]_vars => WinnerHeld'
  BY WinnerStep
<1>3. IInv /\ WinnerHeld /\ [Next]_vars => [Answered]_vars
  <2> SUFFICES ASSUME IInv, WinnerHeld, [Next]_vars, verdict # "none", verdict' = "none"
               PROVE  Answered
    OBVIOUS
  <2>1. AbortTrigger \/ AnswerCandidates
    BY DEF Next, vars, OnOpen, OnClose, SetGUID, HandleConfidenceScore, HandleAudioStream,
           OnTick, CheckTrigger, StartStreaming, StopStreaming, Unlocked, Tick
  <2>2. CASE AbortTrigger
    <3>1. ASSUME NEW s \in Sessions, told[s] = "waiting", conn[s] = "open"
          PROVE  told'[s] = "stop"
      <4>1. s \in Candidates
        BY <2>2, <3>1 DEF IInv, RoundConsistent, PhaseConsistent, WaitingListed, AbortTrigger
      <4> QED BY <2>2, <3>1, <4>1 DEF AbortTrigger, Tell
    <3> QED BY <2>2, <3>1 DEF AbortTrigger
  <2>3. CASE AnswerCandidates
    <3>1. /\ best_candidate \in Sessions /\ state' = "STREAMING"
          /\ UNCHANGED <<best_candidate, active_client_guid>>
      BY <2>3, BestCandidatePresent
      DEF IInv, RoundConsistent, PhaseConsistent, AnswerCandidates
    <3>2. ASSUME NEW s \in Sessions, told[s] = "waiting", conn[s] = "open"
          PROVE  \/ told'[s] = "stop"
                 \/ told'[s] = "start" /\ s = best_candidate
                 \/ guid[s] = active_client_guid
      <4>1. s \in Candidates
        BY <2>3, <3>2 DEF IInv, RoundConsistent, WaitingListed, AnswerCandidates
      <4>2. s \in Losers \/ guid[s] = active_client_guid
        BY <4>1 DEF Losers
      <4>3. CASE s = best_candidate
        BY <2>3, <3>1, <3>2, <4>3 DEF AnswerCandidates, Tell, WinnerHears
      <4>4. CASE s # best_candidate
        BY <2>3, <3>1, <3>2, <4>2, <4>4 DEF AnswerCandidates, Tell
      <4> QED BY <4>3, <4>4
    <3>3. ASSUME conn[best_candidate] = "open", ~io_blocked
          PROVE  told'[best_candidate] = "start"
      <4>1. best_candidate \notin Losers
        BY <2>3, <3>3 DEF WinnerHeld, AnswerCandidates, Losers
      <4>2. WinnerHears = "start"
        BY <4>1 DEF WinnerHears
      <4> QED BY <2>3, <3>1, <3>3, <4>2 DEF AnswerCandidates, Tell
    <3> QED BY <3>1, <3>2, <3>3
  <2> QED BY <2>1, <2>2, <2>3
<1> QED BY <1>1, <1>2, <1>3, Invariance, PTL DEF SafeSpec, EveryCandidateAnswered

\* Between the check and the tick that acts on it, unless a hello came, the audio that
\* waits to be flushed is that of the id the check accepted.
CheckHeld ==
  verdict = "passed" /\ AuthEnabled /\ ~io_blocked /\ PreRoll # <<>> =>
    verified = guid[best_candidate]

\* The io thread waits for the ticker, so nothing moves under a verdict but the clock,
\* connections, and the hello that CheckHeld excludes.
LEMMA CheckStep ==
  ASSUME IInv, CheckHeld, [Next]_vars
  PROVE  CheckHeld'
<1> USE DEF sessionVars, roundVars, outputVars, locks
<1>1. CASE CheckTrigger
  BY <1>1 DEF CheckTrigger, CheckHeld, PreRoll
<1>2. CASE \E s \in Sessions, g \in Guids : SetGUID(s, g)
  BY <1>2 DEF SetGUID, CheckHeld
<1>3. CASE verdict' # "passed"
  BY <1>3 DEF CheckHeld
<1>4. CASE UNCHANGED <<verdict, io_blocked, best_candidate, guid, arbitration_buffers, verified>>
  BY <1>4 DEF CheckHeld, PreRoll
<1>5. ASSUME NEW o \in Offer, HandleConfidenceScore(o) PROVE CheckHeld'
  BY <1>5 DEF HandleConfidenceScore, Unlocked, CheckHeld
<1>6. ASSUME NEW s \in Sessions, NEW voiced \in BOOLEAN, HandleAudioStream(s, voiced)
      PROVE  CheckHeld'
  BY <1>6 DEF HandleAudioStream, Unlocked, CheckHeld
<1>7. CASE AbortTrigger \/ StartStreaming \/ AnswerCandidates
  BY <1>7 DEF AbortTrigger, StartStreaming, AnswerCandidates, Unlock, CheckHeld
<1>8. CASE StopStreaming
  <2>1. verdict = "none" /\ UNCHANGED verdict
    BY <1>8 DEF StopStreaming, Unlocked
  <2> QED BY <2>1 DEF CheckHeld
<1>9. CASE (\E s \in Sessions : OnOpen(s) \/ OnClose(s)) \/ Tick \/ UNCHANGED vars
  <2>1. UNCHANGED <<verdict, io_blocked, best_candidate, guid, arbitration_buffers, verified>>
    BY <1>9 DEF OnOpen, OnClose, Tick, vars
  <2> QED BY <2>1, <1>4
<1> QED BY <1>1, <1>2, <1>5, <1>6, <1>7, <1>8, <1>9 DEF Next, OnTick

\* With the check enabled, what is flushed to the output at the start of a stream has
\* passed the check under the same id, whenever messages and ticks come, except where a
\* hello came during the check.
THEOREM FlushesChecked == SafeSpec => FlushIsChecked
<1> USE DEF sessionVars, roundVars, outputVars, locks
<1> DEFINE Checked ==
      /\ AuthEnabled
      /\ state = "ARBITRATING" /\ state' = "STREAMING"
      /\ output' # <<>>
      /\ ~io_blocked
      => verified' = active_client_guid'
<1>1. Init => CheckHeld
  BY DEF Init, CheckHeld
<1>2. IInv /\ CheckHeld /\ [Next]_vars => CheckHeld'
  BY CheckStep
<1>3. IInv /\ CheckHeld /\ [Next]_vars => [Checked]_vars
  <2> SUFFICES ASSUME IInv, CheckHeld, [Next]_vars, AuthEnabled, state = "ARBITRATING",
                      state' = "STREAMING", output' # <<>>, ~io_blocked
               PROVE  verified' = active_client_guid'
    OBVIOUS
  <2>1. StartStreaming
    BY DEF Next, vars, OnOpen, OnClose, SetGUID, HandleConfidenceScore, StartArbitration,
           JoinArbitration, HandleAudioStream, OnTick, CheckTrigger, AbortTrigger,
           AnswerCandidates, StopStreaming, WentSilent, Tick
  <2>2. PreRoll # <<>>
    BY <2>1 DEF StartStreaming, PreRollWritten
  <2> QED BY <2>1, <2>2 DEF StartStreaming, CheckHeld
<1> QED BY <1>1, <1>2, <1>3, Invariance, PTL DEF SafeSpec, FlushIsChecked

-----------------------------------------------------------------------------
\* The controller implements the abstract arbiter: every step opens, joins,
\* awards, refuses or releases a round as WakeArbiter allows, or changes nothing
\* that it sees.  The award is StartStreaming; the answers are a stutter.
THEOREM ImplementsArbiter == SafeSpec => Arbiter!SafeSpec
<1> USE DEF sessionVars, roundVars, outputVars, locks
<1>1. Init => Arbiter!Init
  BY DEF Init, Arbiter!Init
<1>2. IInv /\ [Next]_vars => [Arbiter!Next]_(Arbiter!arbiterVars)
  <2> SUFFICES ASSUME IInv, [Next]_vars
               PROVE  Arbiter!Next \/ UNCHANGED Arbiter!arbiterVars
    OBVIOUS
  <2>1. TypeOK /\ PhaseConsistent /\ BestOfRound
    BY DEF IInv, RoundConsistent
  <2>2. CASE UNCHANGED <<state, current_candidates, best_candidate, best_score,
                         best_frame_count>>
    BY <2>2 DEF Arbiter!arbiterVars
  <2>3. ASSUME NEW o \in Offer, StartArbitration(o) PROVE Arbiter!OpenRound(o)
    BY <2>3 DEF StartArbitration, Arbiter!OpenRound
  <2>4. ASSUME NEW o \in Offer, JoinArbitration(o) PROVE Arbiter!JoinRound(o)
    BY <2>4 DEF JoinArbitration, Enlisted, Arbiter!JoinRound
  <2>5. CASE AbortTrigger
    <3>1. state = "ARBITRATING"
      BY <2>1, <2>5 DEF PhaseConsistent, AbortTrigger
    <3> QED BY <2>5, <3>1 DEF AbortTrigger, Arbiter!Next, Arbiter!Refuse
  <2>6. CASE StartStreaming
    <3>1. state = "ARBITRATING"
      BY <2>1, <2>6 DEF PhaseConsistent, StartStreaming
    <3>2. PICK i \in 1..Len(current_candidates) :
            /\ Arbiter!IsFirstBest(current_candidates, i)
            /\ current_candidates[i] = [who |-> best_candidate, score |-> best_score,
                                        frames |-> best_frame_count]
      BY <2>1, <3>1 DEF BestOfRound
    <3>3. Arbiter!Award
      BY <2>6, <3>1, <3>2 DEF StartStreaming, Arbiter!Award
    <3> QED BY <3>3 DEF Arbiter!Next
  <2>7. CASE StopStreaming
    <3>1. /\ state = "STREAMING" /\ state' = "IDLE"
          /\ current_candidates = <<>> /\ UNCHANGED current_candidates
      BY <2>1, <2>7 DEF StopStreaming, WentSilent, Unlocked, PhaseConsistent
    <3> QED BY <3>1 DEF Arbiter!Next, Arbiter!Release
  <2>8. CASE AnswerCandidates
    <3>1. state = "STREAMING" /\ state' = "STREAMING"
      BY <2>1, <2>8 DEF PhaseConsistent, AnswerCandidates
    <3> QED BY <2>8, <3>1 DEF AnswerCandidates, Arbiter!arbiterVars
  <2>9. \/ UNCHANGED <<state, current_candidates, best_candidate, best_score,
                       best_frame_count>>
        \/ \E o \in Offer : StartArbitration(o) \/ JoinArbitration(o)
        \/ AbortTrigger \/ StartStreaming \/ AnswerCandidates \/ StopStreaming
    BY DEF Next, vars, OnOpen, OnClose, SetGUID, HandleConfidenceScore, HandleAudioStream,
           BufferAudio, StreamAudio, OnTick, CheckTrigger, Tick
  <2> QED BY <2>2, <2>3, <2>4, <2>5, <2>6, <2>7, <2>8, <2>9
      DEF Arbiter!Next, Arbiter!Offer, Offer
<1> QED BY <1>1, <1>2, Invariance, PTL DEF SafeSpec, Arbiter!SafeSpec
=============================================================================
