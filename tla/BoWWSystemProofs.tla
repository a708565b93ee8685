-------------------------- MODULE BoWWSystemProofs --------------------------
(***************************************************************************)
(* Proofs about BoWWSystem and the AlsaSinkManager it is built from, for   *)
(* any number of groups, sessions, streams, blocks and ticks.  A step of   *)
(* the system is a step of the sound device or none at all, so what is     *)
(* proved of the device holds with real groups for its callers.            *)
(***************************************************************************)
EXTENDS BoWWSystem, TLAPS

(***************************************************************************)
(* The sound device.  Its inductive invariant is the conjunction of the    *)
(* invariants that TLC checks.                                             *)
(***************************************************************************)
IInv ==
  /\ TypeOK
  /\ SinkConsistent
  /\ NoStrandedQueue
  /\ JoinNeverBlocks
  /\ PlayedOnce
  /\ HeardInOnePiece

-----------------------------------------------------------------------------
\* QueueWavFile adds one recording to those that wait.
LEMMA QueuedAppend ==
  ASSUME TypeOK, NEW n \in Streams, playback_queue' = Append(playback_queue, n)
  PROVE  /\ Queued' = Queued \cup {n}
         /\ Len(playback_queue') = Len(playback_queue) + 1
         /\ \A i \in 1..Len(playback_queue) : playback_queue'[i] = playback_queue[i]
         /\ playback_queue'[Len(playback_queue) + 1] = n
<1>1. playback_queue \in Seq(Streams)
  BY DEF TypeOK
<1>2. /\ Len(playback_queue) \in Nat
      /\ Len(playback_queue') = Len(playback_queue) + 1
      /\ \A i \in 1..Len(playback_queue) : playback_queue'[i] = playback_queue[i]
      /\ playback_queue'[Len(playback_queue) + 1] = n
  BY <1>1
<1>3. ASSUME NEW x \in Queued' PROVE x \in Queued \cup {n}
  BY <1>2 DEF Queued
<1>4. ASSUME NEW x \in Queued PROVE x \in Queued'
  BY <1>2 DEF Queued
<1>5. n \in Queued'
  BY <1>2 DEF Queued
<1> QED BY <1>2, <1>3, <1>4, <1>5

\* pop() takes away the first of those that wait, and only that one.
LEMMA QueuedTail ==
  ASSUME TypeOK, PlayedOnce, playback_queue # <<>>,
         playback_queue' = Tail(playback_queue)
  PROVE  /\ Head(playback_queue) \in Queued
         /\ Queued' = Queued \ {Head(playback_queue)}
         /\ \A i, j \in 1..Len(playback_queue') :
              playback_queue'[i] = playback_queue'[j] => i = j
<1> DEFINE q == playback_queue
<1>1. q \in Seq(Streams)
  BY DEF TypeOK
<1>2. /\ Len(q) \in Nat \ {0}
      /\ Head(q) = q[1]
      /\ Len(q') = Len(q) - 1
      /\ \A i \in 1..(Len(q) - 1) : q'[i] = q[i + 1]
  BY <1>1
<1>3. \A i, j \in 1..Len(q) : q[i] = q[j] => i = j
  BY DEF PlayedOnce
<1>4. Head(q) \in Queued
  BY <1>2 DEF Queued
<1>5. ASSUME NEW x \in Queued' PROVE x \in Queued /\ x # Head(q)
  <2>1. PICK i \in 1..(Len(q) - 1) : x = q[i + 1]
    BY <1>2 DEF Queued
  <2>2. i + 1 \in 1..Len(q) /\ i + 1 # 1 /\ 1 \in 1..Len(q)
    BY <1>2
  <2> QED BY <1>2, <1>3, <2>1, <2>2 DEF Queued
<1>6. ASSUME NEW x \in Queued, x # Head(q) PROVE x \in Queued'
  <2>1. PICK i \in 1..Len(q) : x = q[i]
    BY DEF Queued
  <2>2. i # 1
    BY <1>2, <1>6, <2>1
  <2>3. i - 1 \in 1..Len(q') /\ q'[i - 1] = x
    BY <1>2, <2>1, <2>2
  <2> QED BY <2>3 DEF Queued
<1>7. ASSUME NEW i \in 1..Len(q'), NEW j \in 1..Len(q'), q'[i] = q'[j] PROVE i = j
  <2>1. i + 1 \in 1..Len(q) /\ j + 1 \in 1..Len(q) /\ q[i + 1] = q[j + 1]
    BY <1>2, <1>7
  <2>2. i + 1 = j + 1
    BY <1>3, <2>1
  <2> QED BY <2>2
<1> QED BY <1>4, <1>5, <1>6, <1>7

\* The queue holds streams.
LEMMA QueuedType == TypeOK => Queued \subseteq Streams
BY DEF TypeOK, Queued

-----------------------------------------------------------------------------
\* The initial state satisfies the inductive invariant.
LEMMA InitIInv == Init => IInv
<1> SUFFICES ASSUME Init PROVE IInv
  OBVIOUS
<1>1. TypeOK
  <2>1. <<>> \in Seq(Streams)
    OBVIOUS
  <2>2. handle \in 0..MaxStreams /\ left \in Nat /\ audio \in 0..MaxStreams
        /\ started \in 0..MaxStreams /\ stream \in [Groups -> 0..MaxStreams]
    BY SinkAssumption DEF Init, SinkAssumption
  <2>3. live \in [Groups -> BOOLEAN]
    BY DEF Init
  <2> QED BY <2>1, <2>2, <2>3, Zenon DEF Init, TypeOK
<1>2. Queued = {}
  BY DEF Init, Queued
<1>3. SinkConsistent /\ NoStrandedQueue /\ JoinNeverBlocks
  BY DEF Init, SinkConsistent, LiveOwnsDevice, NoStrandedQueue, JoinNeverBlocks
<1>4. PlayedOnce
  BY <1>2 DEF Init, PlayedOnce
<1>5. HeardInOnePiece
  BY DEF Init, HeardInOnePiece
<1> QED BY <1>1, <1>3, <1>4, <1>5 DEF IInv

-----------------------------------------------------------------------------
\* Playing a block of a stream keeps the history a sequence of streams.
LEMMA HearType ==
  ASSUME TypeOK, NEW n \in Streams, Hear(n)
  PROVE  heard' \in Seq(Streams)
BY DEF TypeOK, Hear

\* Every step keeps the types.
LEMMA TypeStep ==
  ASSUME TypeOK, SinkConsistent, [Next]_vars
  PROVE  TypeOK'
<1> USE SinkAssumption DEF deviceVars, workerVars, groupVars, fileVars, SinkAssumption, Streams
<1>1. CASE UNCHANGED vars
  BY <1>1 DEF TypeOK, vars
<1>2. ASSUME NEW g \in Groups, NEW opened \in BOOLEAN, RequestLiveStream(g, opened)
      PROVE  TypeOK'
  <2>1. live' \in [Groups -> BOOLEAN]
    BY <1>2 DEF TypeOK, RequestLiveStream, OpenAlsaDevice, Grantable
  <2>2. started' \in 0..MaxStreams /\ stream' \in [Groups -> 0..MaxStreams]
    BY <1>2 DEF TypeOK, RequestLiveStream, OpenAlsaDevice
  <2>3. handle' \in 0..MaxStreams /\ state' \in {"FREE", "LIVE_BUSY", "FILE_BUSY"}
    BY <1>2 DEF TypeOK, RequestLiveStream, OpenAlsaDevice
  <2> QED BY <1>2, <2>1, <2>2, <2>3 DEF TypeOK, RequestLiveStream, OpenAlsaDevice
<1>3. ASSUME NEW g \in Groups, WriteLiveStream(g) PROVE TypeOK'
  <2>1. stream[g] \in Streams
    BY <1>3 DEF TypeOK, SinkConsistent, LiveOwnsDevice, WriteLiveStream
  <2>2. heard' \in Seq(Streams)
    BY <1>3, <2>1, HearType DEF WriteLiveStream
  <2> QED BY <1>3, <2>2 DEF TypeOK, WriteLiveStream
<1>4. ASSUME NEW g \in Groups, CloseLiveStream(g) PROVE TypeOK'
  <2>1. live' \in [Groups -> BOOLEAN] /\ stream' \in [Groups -> 0..MaxStreams]
    BY <1>4 DEF TypeOK, CloseLiveStream, Shut
  <2>2. /\ handle' \in 0..MaxStreams
        /\ state' \in {"FREE", "LIVE_BUSY", "FILE_BUSY"}
        /\ caller' \in {"ready", "unlocked", "joining"}
    BY <1>4 DEF TypeOK, CloseLiveStream, Shut, AfterLive
  <2> QED BY <1>4, <2>1, <2>2 DEF TypeOK, CloseLiveStream, Shut
<1>5. ASSUME NEW g \in Groups, QueueWavFile(g) PROVE TypeOK'
  <2>1. stream[g] \in Streams
    BY <1>5 DEF TypeOK, QueueWavFile
  <2>2. wavs' \in SUBSET Streams /\ triggers' \in SUBSET Streams
    BY <1>5, <2>1 DEF TypeOK, QueueWavFile, Publish
  <2>3. playback_queue' \in Seq(Streams) /\ stream' \in [Groups -> 0..MaxStreams]
    BY <1>5, <2>1 DEF TypeOK, QueueWavFile
  <2> QED BY <1>5, <2>2, <2>3 DEF TypeOK, QueueWavFile
<1>6. CASE ProcessQueue
  BY <1>6 DEF TypeOK, ProcessQueue
<1>7. CASE JoinAndSpawn
  BY <1>7 DEF TypeOK, JoinAndSpawn
<1>8. CASE Retire
  BY <1>8 DEF TypeOK, Retire
<1>9. CASE Take
  <2>1. audio' \in Streams /\ playback_queue' \in Seq(Streams)
    BY <1>9 DEF TypeOK, Take, NextUp, Rest
  <2> QED BY <1>9, <2>1 DEF TypeOK, Take
<1>10. CASE OpenFails
  BY <1>10 DEF TypeOK, OpenFails
<1>11. CASE Open
  BY <1>11 DEF TypeOK, Open, OpenAlsaDevice
<1>12. CASE WriteBlock
  <2>1. audio \in Streams
    BY <1>12 DEF TypeOK, SinkConsistent, WriteBlock
  <2>2. heard' \in Seq(Streams)
    BY <1>12, <2>1, HearType DEF TypeOK, WriteBlock
  <2>3. left' \in Nat
    BY <1>12 DEF TypeOK, WriteBlock, MoreBlocks
  <2> QED BY <1>12, <2>2, <2>3 DEF TypeOK, WriteBlock
<1>13. CASE Close
  <2>1. played' \in SUBSET Streams
    BY <1>13 DEF TypeOK, Close
  <2> QED BY <1>13, <2>1 DEF TypeOK, Close, Shut
<1>14. CASE WriteTrigger
  <2>1. audio \in Streams
    BY <1>14 DEF TypeOK, SinkConsistent, WriteTrigger
  <2> QED BY <1>14, <2>1 DEF TypeOK, WriteTrigger
<1> QED BY <1>1, <1>2, <1>3, <1>4, <1>5, <1>6, <1>7, <1>8, <1>9, <1>10, <1>11, <1>12, <1>13,
           <1>14 DEF Next, Caller, Worker

\* Every step leaves the lease of the device consistent.
LEMMA SinkStep ==
  ASSUME TypeOK, SinkConsistent, NoStrandedQueue, JoinNeverBlocks, PlayedOnce, [Next]_vars
  PROVE  SinkConsistent' /\ NoStrandedQueue' /\ JoinNeverBlocks'
<1> USE SinkAssumption DEF deviceVars, workerVars, groupVars, fileVars, SinkAssumption, Streams
<1> DEFINE Goal == SinkConsistent /\ NoStrandedQueue /\ JoinNeverBlocks
<1> USE DEF SinkConsistent, LiveOwnsDevice, NoStrandedQueue, JoinNeverBlocks
<1>1. CASE UNCHANGED vars
  BY <1>1 DEF vars
<1>2. ASSUME NEW g \in Groups, NEW opened \in BOOLEAN, RequestLiveStream(g, opened)
      PROVE  Goal'
  <2>1. CASE Grantable(opened)
    <3>1. \A h \in Groups : live'[h] <=> h = g
      BY <1>2, <2>1 DEF TypeOK, RequestLiveStream, OpenAlsaDevice, Grantable
    <3>2. stream'[g] = started + 1 /\ handle' = started + 1 /\ state' = "LIVE_BUSY"
      BY <1>2, <2>1 DEF TypeOK, RequestLiveStream, OpenAlsaDevice
    <3>3. started + 1 # 0
      BY DEF TypeOK
    <3>4. caller = "ready" /\ caller' = "ready" /\ playback_queue' = playback_queue
          /\ worker' = worker /\ audio' = audio /\ state = "FREE"
      BY <1>2, <2>1 DEF RequestLiveStream, OpenAlsaDevice, Grantable
    <3> QED BY <3>1, <3>2, <3>3, <3>4
  <2>2. CASE ~Grantable(opened)
    <3>1. \A h \in Groups : live'[h] <=> live[h]
      BY <1>2, <2>2 DEF TypeOK, RequestLiveStream, OpenAlsaDevice
    <3>2. \A h \in Groups : live[h] => stream'[h] = stream[h]
      BY <1>2 DEF TypeOK, RequestLiveStream, OpenAlsaDevice
    <3> QED BY <1>2, <2>2, <3>1, <3>2 DEF RequestLiveStream, OpenAlsaDevice
  <2> QED BY <2>1, <2>2
<1>3. ASSUME NEW g \in Groups, WriteLiveStream(g) PROVE Goal'
  BY <1>3 DEF WriteLiveStream
<1>4. ASSUME NEW g \in Groups, CloseLiveStream(g) PROVE Goal'
  <2>1. state = "LIVE_BUSY" /\ \A h \in Groups : live[h] => h = g
    BY <1>4 DEF TypeOK, CloseLiveStream, Shut, PlayedOnce
  <2>2. \A h \in Groups : ~live'[h]
    BY <1>4, <2>1 DEF TypeOK, CloseLiveStream, Shut
  <2> QED BY <1>4, <2>1, <2>2 DEF CloseLiveStream, Shut, AfterLive
<1>5. ASSUME NEW g \in Groups, QueueWavFile(g) PROVE Goal'
  <2>1. \A h \in Groups : live[h] => stream'[h] = stream[h]
    BY <1>5 DEF TypeOK, QueueWavFile
  <2> QED BY <1>5, <2>1 DEF QueueWavFile
<1>6. CASE ProcessQueue
  BY <1>6 DEF TypeOK, ProcessQueue
<1>7. CASE JoinAndSpawn
  BY <1>7 DEF JoinAndSpawn
<1>8. CASE Retire
  BY <1>8 DEF Retire, Unlocked
<1>9. CASE Take
  <2>1. audio' \in Streams
    BY <1>9 DEF TypeOK, Take, NextUp
  <2> QED BY <1>9, <2>1 DEF Take, Unlocked
<1>10. CASE OpenFails
  BY <1>10 DEF OpenFails, Unlocked
<1>11. CASE Open
  BY <1>11 DEF Open, OpenAlsaDevice, Unlocked
<1>12. CASE WriteBlock
  BY <1>12 DEF WriteBlock
<1>13. CASE Close
  BY <1>13 DEF Close, Shut, Unlocked
<1>14. CASE WriteTrigger
  BY <1>14 DEF WriteTrigger
<1> QED BY <1>1, <1>2, <1>3, <1>4, <1>5, <1>6, <1>7, <1>8, <1>9, <1>10, <1>11, <1>12, <1>13,
           <1>14 DEF Next, Caller, Worker

\* A step that only moves the recording of the worker on leaves each stream in
\* one place (the steps of PlayWavFile).
LEMMA PlacesKept ==
  ASSUME TypeOK, PlayedOnce,
         UNCHANGED <<stream, started, playback_queue>>,
         audio' \in {0, audio}, played' \subseteq played \cup {audio},
         worker' \in {"open", "write"} =>
           worker \in {"open", "write"} /\ audio' = audio /\ played' = played
  PROVE  PlayedOnce'
<1>1. Queued' = Queued /\ 0 \notin Queued
  <2>1. Queued' = Queued
    BY DEF Queued
  <2>2. 0 \notin Queued
    BY QueuedType DEF Streams
  <2> QED BY <2>1, <2>2
<1>2. /\ \A g, h \in Groups : stream'[g] = stream'[h] /\ stream'[g] # 0 => g = h
      /\ \A i, j \in 1..Len(playback_queue') :
           playback_queue'[i] = playback_queue'[j] => i = j
      /\ \A g \in Groups : stream'[g] <= started'
  BY DEF PlayedOnce
<1>3. \A g \in Groups : stream'[g] # 0 => stream'[g] \notin Queued' \cup played' \cup {audio'}
  BY <1>1 DEF PlayedOnce
<1>4. audio' \notin Queued' /\ played' \cap Queued' = {}
  BY <1>1 DEF PlayedOnce
<1>5. worker' \in {"open", "write"} => audio' \notin played'
  BY DEF PlayedOnce
<1>6. \A n \in Queued' \cup played' \cup {audio'} : n <= started'
  <2>1. started \in Nat
    BY SinkAssumption DEF TypeOK, SinkAssumption
  <2> QED BY <1>1, <2>1 DEF PlayedOnce
<1> QED BY <1>2, <1>3, <1>4, <1>5, <1>6 DEF PlayedOnce

\* Every step leaves each stream in one place.
LEMMA PlayedStep ==
  ASSUME TypeOK, SinkConsistent, PlayedOnce, [Next]_vars
  PROVE  PlayedOnce'
<1> USE SinkAssumption DEF deviceVars, workerVars, groupVars, fileVars, SinkAssumption, Streams
<1>0. Queued \subseteq Streams /\ (UNCHANGED playback_queue => Queued' = Queued)
  BY QueuedType DEF Queued
<1>1. CASE UNCHANGED vars
  BY <1>0, <1>1 DEF PlayedOnce, vars
<1>2. ASSUME NEW g \in Groups, NEW opened \in BOOLEAN, RequestLiveStream(g, opened)
      PROVE  PlayedOnce'
  <2>1. /\ started' = started + 1 /\ stream'[g] = started + 1
        /\ \A h \in Groups : h # g => stream'[h] = stream[h]
        /\ UNCHANGED <<playback_queue, played, audio, worker>> /\ Queued' = Queued
    BY <1>0, <1>2 DEF TypeOK, RequestLiveStream, OpenAlsaDevice
  <2>2. /\ \A h \in Groups : stream[h] \in Nat /\ stream[h] <= started
        /\ \A n \in Queued \cup played \cup {audio} : n \in Nat /\ n <= started
        /\ started \in Nat
    BY <1>0 DEF TypeOK, PlayedOnce
  <2> QED BY <2>1, <2>2 DEF PlayedOnce
<1>3. ASSUME NEW g \in Groups, WriteLiveStream(g) PROVE PlayedOnce'
  BY <1>0, <1>3 DEF PlayedOnce, WriteLiveStream
<1>4. ASSUME NEW g \in Groups, CloseLiveStream(g) PROVE PlayedOnce'
  <2>1. \A h \in Groups : stream'[h] = IF h = g THEN 0 ELSE stream[h]
    BY <1>4 DEF TypeOK, CloseLiveStream, Shut
  <2>2. UNCHANGED <<started, played, audio, worker, playback_queue>> /\ Queued' = Queued
    BY <1>0, <1>4 DEF CloseLiveStream, Shut
  <2>3. \A h, k \in Groups : stream'[h] = stream'[k] /\ stream'[h] # 0 => h = k
    BY <2>1 DEF PlayedOnce
  <2>4. \A h \in Groups : stream'[h] # 0 =>
          stream'[h] \notin Queued' \cup played' \cup {audio'}
    BY <2>1, <2>2 DEF PlayedOnce
  <2>5. \A h \in Groups : stream'[h] <= started'
    BY <2>1, <2>2 DEF TypeOK, PlayedOnce
  <2> QED BY <2>2, <2>3, <2>4, <2>5 DEF PlayedOnce
<1>5. ASSUME NEW g \in Groups, QueueWavFile(g) PROVE PlayedOnce'
  <2> DEFINE n == stream[g]
  <2>1. n \in Streams /\ n \notin Queued \cup played \cup {audio} /\ n <= started
    BY <1>5 DEF TypeOK, PlayedOnce, QueueWavFile
  <2>2. /\ Queued' = Queued \cup {n}
        /\ Len(playback_queue') = Len(playback_queue) + 1
        /\ \A i \in 1..Len(playback_queue) : playback_queue'[i] = playback_queue[i]
        /\ playback_queue'[Len(playback_queue) + 1] = n
    BY <1>5, <2>1, QueuedAppend DEF QueueWavFile
  <2>3. \A h \in Groups : stream'[h] = IF h = g THEN 0 ELSE stream[h]
    BY <1>5 DEF TypeOK, QueueWavFile
  <2>4. UNCHANGED <<started, played, audio, worker>>
    BY <1>5 DEF QueueWavFile
  <2>5. ASSUME NEW i \in 1..Len(playback_queue'), NEW j \in 1..Len(playback_queue'),
               playback_queue'[i] = playback_queue'[j]
        PROVE  i = j
    <3>1. Len(playback_queue) \in Nat
      BY DEF TypeOK
    <3>2. \A k \in 1..Len(playback_queue) : playback_queue[k] # n
      BY <2>1 DEF Queued
    <3>3. \A k \in 1..Len(playback_queue') :
            k \in 1..Len(playback_queue) \/ k = Len(playback_queue) + 1
      BY <2>2, <3>1
    <3> QED BY <2>2, <2>5, <3>2, <3>3 DEF PlayedOnce
  <2>6. \A h \in Groups : stream'[h] # 0 =>
          stream'[h] \notin Queued' \cup played' \cup {audio'}
    BY <2>2, <2>3, <2>4 DEF PlayedOnce
  <2>7. \A h, k \in Groups : stream'[h] = stream'[k] /\ stream'[h] # 0 => h = k
    BY <2>3 DEF PlayedOnce
  <2>8. \A h \in Groups : stream'[h] <= started'
    BY <2>3, <2>4 DEF TypeOK, PlayedOnce
  <2> QED BY <2>1, <2>2, <2>4, <2>5, <2>6, <2>7, <2>8 DEF PlayedOnce
<1>6. CASE ProcessQueue
  BY <1>0, <1>6 DEF PlayedOnce, ProcessQueue
<1>7. CASE JoinAndSpawn
  BY <1>0, <1>7 DEF PlayedOnce, JoinAndSpawn
<1>8. CASE Retire
  BY <1>8, PlacesKept DEF Retire
<1>9. CASE Take
  <2>1. /\ Head(playback_queue) \in Queued
        /\ Queued' = Queued \ {Head(playback_queue)}
        /\ \A i, j \in 1..Len(playback_queue') :
             playback_queue'[i] = playback_queue'[j] => i = j
    BY <1>9, QueuedTail DEF Take, Rest
  <2>2. audio' = Head(playback_queue) /\ UNCHANGED <<stream, started, played>>
    BY <1>9 DEF Take, NextUp
  <2> QED BY <2>1, <2>2 DEF PlayedOnce
<1>10. CASE OpenFails
  BY <1>10, PlacesKept DEF OpenFails
<1>11. CASE Open
  BY <1>11, PlacesKept DEF Open, OpenAlsaDevice
<1>12. CASE WriteBlock
  BY <1>12, PlacesKept DEF WriteBlock
<1>13. CASE Close
  BY <1>13, PlacesKept DEF Close
<1>14. CASE WriteTrigger
  BY <1>14, PlacesKept DEF WriteTrigger
<1> QED BY <1>1, <1>2, <1>3, <1>4, <1>5, <1>6, <1>7, <1>8, <1>9, <1>10, <1>11, <1>12, <1>13,
           <1>14 DEF Next, Caller, Worker

\* Playing a stream that is not upcoming, and whose only mention so far may be the
\* last, keeps every stream in one piece.
LEMMA HeardExtends ==
  ASSUME TypeOK, NEW n \in Streams, Hear(n),
         \A i, j \in 1..Len(heard) : heard[i] = heard[j] => i = j,
         \A i \in 1..Len(heard) : heard[i] = n => i = Len(heard)
  PROVE  /\ \A i, j \in 1..Len(heard') : heard'[i] = heard'[j] => i = j
         /\ \A i \in 1..Len(heard') :
              \/ heard'[i] = n /\ i = Len(heard')
              \/ heard'[i] # n /\ i \in 1..Len(heard) /\ heard'[i] = heard[i]
<1>1. heard \in Seq(Streams) /\ Len(heard) \in Nat
  BY DEF TypeOK
<1>2. CASE heard # <<>> /\ heard[Len(heard)] = n
  BY <1>1, <1>2 DEF Hear
<1>3. CASE ~(heard # <<>> /\ heard[Len(heard)] = n)
  <2>1. heard' = Append(heard, n)
    BY <1>3 DEF Hear
  <2>2. /\ Len(heard') = Len(heard) + 1
        /\ \A i \in 1..Len(heard) : heard'[i] = heard[i]
        /\ heard'[Len(heard) + 1] = n
    BY <1>1, <2>1
  <2>3. \A i \in 1..Len(heard) : heard[i] # n
    BY <1>1, <1>3
  <2>4. \A i \in 1..Len(heard') : i \in 1..Len(heard) \/ i = Len(heard) + 1
    BY <1>1, <2>2
  <2>5. ASSUME NEW i \in 1..Len(heard'), NEW j \in 1..Len(heard'), heard'[i] = heard'[j]
        PROVE  i = j
    BY <1>1, <2>2, <2>3, <2>4, <2>5
  <2>6. ASSUME NEW i \in 1..Len(heard')
        PROVE  \/ heard'[i] = n /\ i = Len(heard')
               \/ heard'[i] # n /\ i \in 1..Len(heard) /\ heard'[i] = heard[i]
    BY <1>1, <2>2, <2>3, <2>4
  <2> QED BY <2>5, <2>6
<1> QED BY <1>2, <1>3

\* Every step leaves what was heard in one piece.
LEMMA HeardStep ==
  ASSUME TypeOK, SinkConsistent, PlayedOnce, HeardInOnePiece, [Next]_vars
  PROVE  HeardInOnePiece'
<1> USE DEF deviceVars, workerVars, groupVars, fileVars
<1>0. /\ heard \in Seq(Streams) /\ Len(heard) \in Nat
      /\ \A i \in 1..Len(heard) : heard[i] \in Streams
      /\ UNCHANGED playback_queue => Queued' = Queued
  BY DEF TypeOK, Queued
<1>1. ASSUME heard' = heard,
             \A n \in Streams : Upcoming(n)' => Upcoming(n),
             \A n \in Streams : OnAir(n)' => OnAir(n) \/ Upcoming(n)
      PROVE  HeardInOnePiece'
  BY <1>0, <1>1 DEF HeardInOnePiece
<1>2. ASSUME NEW n \in Streams, Hear(n), OnAir(n), ~Upcoming(n),
             \A m \in Streams : Upcoming(m)' => Upcoming(m),
             \A m \in Streams : OnAir(m)' => m = n
      PROVE  HeardInOnePiece'
  <2>1. /\ \A i, j \in 1..Len(heard') : heard'[i] = heard'[j] => i = j
        /\ \A i \in 1..Len(heard') :
              \/ heard'[i] = n /\ i = Len(heard')
              \/ heard'[i] # n /\ i \in 1..Len(heard) /\ heard'[i] = heard[i]
    BY <1>2, HeardExtends DEF HeardInOnePiece
  <2>2. ASSUME NEW i \in 1..Len(heard'), NEW m \in Streams, m = heard'[i]
        PROVE  ~Upcoming(m)' /\ (OnAir(m)' => i = Len(heard'))
    <3>1. CASE heard'[i] = n /\ i = Len(heard')
      BY <1>2, <2>2, <3>1
    <3>2. CASE heard'[i] # n /\ i \in 1..Len(heard) /\ heard'[i] = heard[i]
      BY <1>0, <1>2, <2>2, <3>2 DEF HeardInOnePiece
    <3> QED BY <2>1, <3>1, <3>2
  <2>3. \A i \in 1..Len(heard') : heard'[i] \in Streams
    BY <1>0, <2>1
  <2>4. \A i \in 1..Len(heard') :
          (~Upcoming(heard[i]) /\ (OnAir(heard[i]) => i = Len(heard)))'
    BY <2>2, <2>3 DEF Upcoming, OnAir
  <2> QED BY <2>1, <2>4 DEF HeardInOnePiece
<1> USE SinkAssumption DEF SinkAssumption, Streams, OnAir, Upcoming
<1>3. CASE UNCHANGED vars
  <2>1. Queued' = Queued
    BY <1>0, <1>3 DEF vars
  <2> QED BY <1>1, <1>3, <2>1 DEF vars
<1>4. ASSUME NEW g \in Groups, NEW opened \in BOOLEAN, RequestLiveStream(g, opened)
      PROVE  HeardInOnePiece'
  <2>1. /\ started' = started + 1 /\ stream'[g] = started + 1 /\ started \in Nat
        /\ \A h \in Groups : h # g => stream'[h] = stream[h] /\ (live'[h] <=> live[h])
        /\ UNCHANGED <<worker, audio, heard>> /\ Queued' = Queued
    BY <1>0, <1>4 DEF TypeOK, RequestLiveStream, OpenAlsaDevice
  <2>2. \A n \in Streams : Upcoming(n)' => Upcoming(n)
    BY <2>1
  <2>3. \A n \in Streams : OnAir(n)' => OnAir(n) \/ Upcoming(n)
    BY <2>1
  <2> QED BY <1>1, <2>1, <2>2, <2>3
<1>5. ASSUME NEW g \in Groups, WriteLiveStream(g) PROVE HeardInOnePiece'
  <2>1. stream[g] \in Streams /\ Hear(stream[g]) /\ OnAir(stream[g])
    BY <1>5 DEF TypeOK, SinkConsistent, LiveOwnsDevice, WriteLiveStream
  <2>2. worker \in {"none", "done"} /\ \A h \in Groups : live[h] => h = g
    BY <1>5, <2>1 DEF SinkConsistent, LiveOwnsDevice, PlayedOnce, WriteLiveStream
  <2>3. ~Upcoming(stream[g])
    BY SMTT(30), <1>5, <2>1, <2>2 DEF TypeOK, PlayedOnce, WriteLiveStream
  <2>4. UNCHANGED <<started, stream, live, worker, audio>> /\ Queued' = Queued
    BY <1>0, <1>5 DEF WriteLiveStream
  <2> QED BY <1>2, <2>1, <2>2, <2>3, <2>4
<1>6. ASSUME NEW g \in Groups, CloseLiveStream(g) PROVE HeardInOnePiece'
  <2>1. /\ \A h \in Groups : stream'[h] = IF h = g THEN 0 ELSE stream[h]
        /\ \A h \in Groups : live'[h] <=> h # g /\ live[h]
    BY <1>6 DEF TypeOK, CloseLiveStream, Shut
  <2>2. UNCHANGED <<started, worker, audio, heard>> /\ Queued' = Queued
    BY <1>0, <1>6 DEF CloseLiveStream, Shut
  <2> QED BY <1>1, <2>1, <2>2
<1>7. ASSUME NEW g \in Groups, QueueWavFile(g) PROVE HeardInOnePiece'
  <2>1. stream[g] \in Streams /\ ~live[g] /\ UNCHANGED <<started, live, worker, audio, heard>>
    BY <1>7 DEF TypeOK, QueueWavFile
  <2>2. Queued' = Queued \cup {stream[g]}
    BY <1>7, <2>1, QueuedAppend DEF QueueWavFile
  <2>3. \A h \in Groups : stream'[h] = IF h = g THEN 0 ELSE stream[h]
    BY <1>7 DEF TypeOK, QueueWavFile
  <2> QED BY <1>1, <2>1, <2>2, <2>3
<1>8. ASSUME ProcessQueue \/ JoinAndSpawn \/ Retire \/ OpenFails \/ Close \/ WriteTrigger
      PROVE  HeardInOnePiece'
  <2>1. /\ UNCHANGED <<started, stream, live, heard>> /\ Queued' = Queued
        /\ worker' \in {"open", "write"} => worker' = worker /\ audio' = audio
    BY <1>0, <1>8 DEF ProcessQueue, JoinAndSpawn, Retire, OpenFails, Close, WriteTrigger
  <2> QED BY <1>1, <2>1
<1>9. CASE Take
  <2>1. Head(playback_queue) \in Queued /\ Queued' = Queued \ {Head(playback_queue)}
    BY <1>9, QueuedTail DEF Take, Rest
  <2>2. /\ audio' = Head(playback_queue) /\ worker' = "open"
        /\ UNCHANGED <<started, stream, live, heard>>
    BY <1>9 DEF Take, NextUp
  <2> QED BY <1>1, <2>1, <2>2
<1>10. CASE Open
  <2>1. /\ worker = "open" /\ worker' = "write"
        /\ UNCHANGED <<started, stream, live, heard, audio>> /\ Queued' = Queued
    BY <1>0, <1>10 DEF Open, OpenAlsaDevice
  <2> QED BY <1>1, <2>1
<1>11. CASE WriteBlock
  <2>1. audio \in Streams /\ worker = "write" /\ handle = audio
    BY <1>11 DEF TypeOK, SinkConsistent, WriteBlock
  <2>2. Hear(audio) /\ OnAir(audio) /\ \A h \in Groups : ~live[h]
    BY <1>11, <2>1 DEF SinkConsistent, LiveOwnsDevice, WriteBlock
  <2>3. ~Upcoming(audio)
    BY <2>1, <2>2 DEF TypeOK, PlayedOnce
  <2>4. UNCHANGED <<started, stream, live, worker, audio>> /\ Queued' = Queued
    BY <1>0, <1>11 DEF WriteBlock
  <2> QED BY <1>2, <2>1, <2>2, <2>3, <2>4
<1> QED BY <1>3, <1>4, <1>5, <1>6, <1>7, <1>8, <1>9, <1>10, <1>11 DEF Next, Caller, Worker

-----------------------------------------------------------------------------
\* The inductive invariant holds in every reachable state.
THEOREM Invariance == SafeSpec => []IInv
<1>1. Init => IInv
  BY InitIInv
<1>2. IInv /\ [Next]_vars => IInv'
  <2> SUFFICES ASSUME IInv, [Next]_vars PROVE IInv'
    OBVIOUS
  <2>1. /\ TypeOK /\ SinkConsistent /\ NoStrandedQueue /\ JoinNeverBlocks /\ PlayedOnce
        /\ HeardInOnePiece
    BY DEF IInv
  <2>2. TypeOK' /\ SinkConsistent' /\ NoStrandedQueue' /\ JoinNeverBlocks'
    BY <2>1, TypeStep, SinkStep
  <2>3. PlayedOnce' /\ HeardInOnePiece'
    BY <2>1, PlayedStep, HeardStep
  <2> QED BY <2>2, <2>3 DEF IInv
<1> QED BY <1>1, <1>2, PTL DEF SafeSpec

\* All variables keep their types.
THEOREM TypeCorrect == SafeSpec => []TypeOK
<1>1. IInv => TypeOK
  BY DEF IInv
<1> QED BY <1>1, Invariance, PTL

\* A group that believes it streams live owns the open device, no handle is
\* overwritten, and no worker is active outside playback.
THEOREM SinkAlwaysConsistent == SafeSpec => []SinkConsistent
<1>1. IInv => SinkConsistent
  BY DEF IInv
<1> QED BY <1>1, Invariance, PTL

\* The windows between the two locked sections of a call strand no recording.
THEOREM QueueNeverStranded == SafeSpec => []NoStrandedQueue
<1>1. IInv => NoStrandedQueue
  BY DEF IInv
<1> QED BY <1>1, Invariance, PTL

\* ProcessQueue's join under device_mutex never waits for a thread that needs
\* that mutex.
THEOREM JoinIsSafe == SafeSpec => []JoinNeverBlocks
<1>1. IInv => JoinNeverBlocks
  BY DEF IInv
<1> QED BY <1>1, Invariance, PTL

\* Every stream is in one place, and so queued, taken and played at most once.
THEOREM RecordingsPlayedOnce == SafeSpec => []PlayedOnce
<1>1. IInv => PlayedOnce
  BY DEF IInv
<1> QED BY <1>1, Invariance, PTL

\* Whatever the device plays of a stream it plays in one piece.
THEOREM StreamsHeardInOnePiece == SafeSpec => []HeardInOnePiece
<1>1. IInv => HeardInOnePiece
  BY DEF IInv
<1> QED BY <1>1, Invariance, PTL

-----------------------------------------------------------------------------
\* The manager implements the abstract arbiter of the device.
THEOREM ImplementsArbiter == SafeSpec => Arbiter!SafeSpec
<1> USE DEF deviceVars, workerVars, groupVars, fileVars
<1>1. Init => Arbiter!Init
  BY DEF Init, Arbiter!Init
<1>2. IInv /\ [Next]_vars => [Arbiter!Next]_(Arbiter!sinkVars)
  <2> SUFFICES ASSUME IInv, [Next]_vars
               PROVE  Arbiter!Next \/ UNCHANGED Arbiter!sinkVars
    OBVIOUS
  <2>1. TypeOK /\ SinkConsistent /\ NoStrandedQueue /\ JoinNeverBlocks
    BY DEF IInv
  <2> DEFINE holder == IF state = "LIVE_BUSY" THEN handle ELSE audio
  <2>2. CASE UNCHANGED <<holder, playback_queue>>
    BY <2>2 DEF Arbiter!sinkVars
  <2>3. ASSUME NEW g \in Groups, NEW opened \in BOOLEAN, RequestLiveStream(g, opened),
               Grantable(opened)
        PROVE  Arbiter!Next
    <3>1. state = "FREE" /\ audio = 0 /\ playback_queue = <<>>
      BY <2>1, <2>3 DEF SinkConsistent, NoStrandedQueue, RequestLiveStream, OpenAlsaDevice, Grantable
    <3>2. started + 1 \in Arbiter!Streams
      BY <2>1, <2>3, SinkAssumption
      DEF TypeOK, RequestLiveStream, OpenAlsaDevice, SinkAssumption, Arbiter!Streams
    <3>3. Arbiter!GrantLive(started + 1)
      BY <2>3, <3>1 DEF RequestLiveStream, OpenAlsaDevice, Arbiter!GrantLive
    <3> QED BY <3>2, <3>3 DEF Arbiter!Next
  <2>4. ASSUME NEW g \in Groups, QueueWavFile(g) PROVE Arbiter!Next
    <3>1. stream[g] \in Arbiter!Streams
      BY <2>1, <2>4 DEF TypeOK, QueueWavFile, Arbiter!Streams
    <3>2. Arbiter!HandOver(stream[g])
      BY <2>4 DEF QueueWavFile, Arbiter!HandOver
    <3> QED BY <3>1, <3>2 DEF Arbiter!Next
  <2>5. ASSUME NEW g \in Groups, CloseLiveStream(g) PROVE Arbiter!Next
    <3>1. state = "LIVE_BUSY" /\ handle # 0 /\ audio = 0
      BY <2>1, <2>5 DEF SinkConsistent, LiveOwnsDevice, CloseLiveStream, Shut
    <3> QED BY <2>5, <3>1 DEF CloseLiveStream, Shut, Arbiter!Next, Arbiter!Release
  <2>6. CASE Take
    <3>1. state # "LIVE_BUSY" /\ audio = 0
      BY <2>1, <2>6 DEF SinkConsistent, Take
    <3> QED BY <2>6, <3>1 DEF Take, NextUp, Rest, Arbiter!Next, Arbiter!TakeNext
  <2>7. CASE OpenFails \/ WriteTrigger
    <3>1. state # "LIVE_BUSY" /\ audio # 0
      BY <2>1, <2>7 DEF SinkConsistent, OpenFails, WriteTrigger
    <3> QED BY <2>7, <3>1 DEF OpenFails, WriteTrigger, Arbiter!Next, Arbiter!Release
  <2>8. CASE UNCHANGED vars \/ ProcessQueue \/ JoinAndSpawn \/ Retire \/ Open
             \/ WriteBlock \/ Close
    <3>1. state = "LIVE_BUSY" <=> state' = "LIVE_BUSY"
      BY <2>1, <2>8 DEF SinkConsistent, vars, ProcessQueue, JoinAndSpawn, Retire, Open,
                        WriteBlock, Close, Unlocked
    <3>2. state # "LIVE_BUSY" \/ handle' = handle
      BY <2>1, <2>8 DEF SinkConsistent, vars, ProcessQueue, JoinAndSpawn, Retire, Open,
                        WriteBlock, Close, Unlocked
    <3>3. UNCHANGED <<audio, playback_queue>>
      BY <2>8 DEF vars, ProcessQueue, JoinAndSpawn, Retire, Open, OpenAlsaDevice, WriteBlock, Close
    <3> QED BY <2>2, <3>1, <3>2, <3>3
  <2>9. ASSUME NEW g \in Groups, WriteLiveStream(g)
        PROVE  Arbiter!Next \/ UNCHANGED Arbiter!sinkVars
    BY <2>2, <2>9 DEF WriteLiveStream
  <2>10. ASSUME NEW g \in Groups, NEW opened \in BOOLEAN, RequestLiveStream(g, opened),
                ~Grantable(opened)
         PROVE  Arbiter!Next \/ UNCHANGED Arbiter!sinkVars
    BY <2>2, <2>10 DEF RequestLiveStream, OpenAlsaDevice
  <2> QED BY <2>3, <2>4, <2>5, <2>6, <2>7, <2>8, <2>9, <2>10 DEF Next, Caller, Worker
<1> QED BY <1>1, <1>2, Invariance, PTL DEF SafeSpec, Arbiter!SafeSpec

-----------------------------------------------------------------------------
(***************************************************************************)
(* The groups that call it.                                                *)
(***************************************************************************)
\* Only a stream has a winner, and a group that has candidates has no stream, except
\* where it is about to answer them.
Phases ==
  \A g \in Groups :
    /\ winner[g] # None <=> Streaming(g)
    /\ Arbitrating(g) /\ Streaming(g) <=> answering = g

\* The winner is among the candidates that are about to be answered.
WinnerListed == \A g \in Groups : answering = g => winner[g] \in offers[g]

\* A session that has stayed in one group has offers and streams there only.
AtHome ==
  \A g \in Groups, s \in Sessions \ moved : s \in offers[g] \/ winner[g] = s => group[s] = g

SystemInv == SystemTypeOK /\ Phases /\ WinnerListed /\ AtHome /\ SignalsAgree

-----------------------------------------------------------------------------
\* A step of the system is one of the sink, as its groups and threads call it.
LEMMA SinkSteps == [SystemNext]_systemVars => [Next]_vars
<1> SUFFICES ASSUME [SystemNext]_systemVars PROVE [Next]_vars
  OBVIOUS
<1>1. ASSUME NEW g \in Groups, OnTick(g) PROVE [Next]_vars
  BY <1>1 DEF OnTick, AbortTrigger, StartStreaming, AnswerCandidates, StopStreaming,
              CloseOutput, Next, Caller
<1>2. ASSUME NEW s \in Sessions, NEW g \in Groups,
             Hello(s, g) \/ HandleConfidenceScore(s, g) \/ Voice(s, g)
      PROVE  [Next]_vars
  BY <1>2 DEF Hello, HandleConfidenceScore, Voice, Next, Caller
<1>3. CASE (\E s \in Sessions : Disconnect(s)) \/ Clock \/ UNCHANGED systemVars
  BY <1>3 DEF Disconnect, Clock, systemVars
<1>4. CASE Sink
  BY <1>4 DEF Sink, Next, Caller
<1> QED BY <1>1, <1>2, <1>3, <1>4 DEF SystemNext

\* No step of the sink but those the groups call touches their streams.
LEMMA SinkKeepsStreams ==
  ASSUME ProcessQueue \/ JoinAndSpawn \/ Worker
  PROVE  UNCHANGED stream
BY DEF ProcessQueue, JoinAndSpawn, Worker, Retire, Take, OpenFails, Open, WriteBlock, Close,
       WriteTrigger, groupVars

-----------------------------------------------------------------------------
\* A first offer makes a round, a score in a round joins it.
LEMMA OfferStep ==
  ASSUME SystemInv, IInv, NEW s \in Sessions, NEW g \in Groups, HandleConfidenceScore(s, g)
  PROVE  SystemInv'
<1>1. /\ group[s] = g /\ ~Streaming(g) /\ answering = None
      /\ offers' = [offers EXCEPT ![g] = @ \union {s}]
      /\ elapsed' = [elapsed EXCEPT ![g] = RoundAge(g)]
      /\ UNCHANGED <<stream, group, told, age, winner, moved, answering, io_blocked, crossed>>
  BY DEF HandleConfidenceScore, NoTick, vars, groupVars, answerVars
<1>2. RoundAge(g) \in 0..Arbitration
  BY SystemAssumption DEF RoundAge, SystemInv, SystemTypeOK, SystemAssumption
<1>3. SystemTypeOK'
  BY <1>1, <1>2 DEF SystemInv, SystemTypeOK
<1>4. Phases' /\ WinnerListed'
  BY <1>1, SystemAssumption
     DEF SystemInv, SystemTypeOK, Phases, WinnerListed, Streaming, Arbitrating, SystemAssumption
<1>5. AtHome' /\ SignalsAgree'
  BY <1>1 DEF SystemInv, SystemTypeOK, AtHome, SignalsAgree
<1> QED BY <1>3, <1>4, <1>5 DEF SystemInv

\* A client that says hello in another group has moved; one that says it while it is
\* about to be told start has crossed the answer.
LEMMA HelloStep ==
  ASSUME SystemInv, NEW s \in Sessions, NEW g \in Groups, Hello(s, g)
  PROVE  SystemInv'
<1>1. /\ group' = [group EXCEPT ![s] = g]
      /\ moved' = IF group[s] \in {None, g} THEN moved ELSE moved \union {s}
      /\ crossed' = crossed \union {h \in Groups : h = answering /\ winner[h] = s}
      /\ io_blocked' = (answering # None)
      /\ UNCHANGED <<stream, told, age, offers, elapsed, winner, answering>>
  BY DEF Hello, vars, groupVars
<1>2. SystemTypeOK'
  <2>1. io_blocked' \in BOOLEAN
    BY <1>1, Zenon
  <2> QED BY <1>1, <2>1 DEF SystemInv, SystemTypeOK
<1>3. Phases' /\ WinnerListed'
  BY <1>1 DEF SystemInv, Phases, WinnerListed, Streaming, Arbitrating
<1>4. AtHome'
  BY <1>1, SystemAssumption DEF SystemInv, SystemTypeOK, AtHome, SystemAssumption
<1>5. SignalsAgree'
  BY <1>1 DEF SystemInv, SystemTypeOK, SignalsAgree
<1> QED BY <1>2, <1>3, <1>4, <1>5 DEF SystemInv

\* A round that is aborted, for group g.
LEMMA AbortStep ==
  ASSUME SystemInv, NEW g \in Groups, AbortTrigger(g)
  PROVE  SystemInv'
<1>1. /\ Arbitrating(g) /\ answering = None
      /\ offers' = [offers EXCEPT ![g] = {}]
      /\ told' = [s \in Sessions |->
                    IF s \in offers[g] /\ told[s] # "gone" THEN "stop" ELSE told[s]]
      /\ UNCHANGED <<stream, group, age, elapsed, winner, moved, answering, io_blocked, crossed>>
  BY DEF AbortTrigger, NoTick, RoundOver, Cleared, Tell, vars, groupVars, answerVars
<1>2. SystemTypeOK' /\ Phases' /\ WinnerListed' /\ AtHome'
  BY <1>1, SystemAssumption
     DEF SystemInv, SystemTypeOK, Phases, WinnerListed, AtHome, Streaming, Arbitrating,
         SystemAssumption
<1>3. ASSUME NEW h \in Groups, winner[h] \notin moved \union {None}
      PROVE  winner[h] \in Sessions /\ winner[h] \notin offers[g]
  BY <1>1, <1>3, SystemAssumption DEF SystemInv, SystemTypeOK, Phases, AtHome, SystemAssumption
<1>4. SignalsAgree'
  <2>1. ASSUME NEW s \in Sessions, told'[s] = "start" PROVE \E h \in Groups : winner'[h] = s
    BY <1>1, <2>1 DEF SystemInv, SignalsAgree
  <2>2. ASSUME NEW h \in Groups \ (crossed' \union {answering'}),
               winner'[h] \notin moved' \union {None}
        PROVE  told'[winner'[h]] \in {"start", "gone"}
    BY <1>1, <1>3, <2>2 DEF SystemInv, SignalsAgree
  <2> QED BY <2>1, <2>2 DEF SignalsAgree
<1> QED BY <1>2, <1>4 DEF SystemInv

\* A round that candidate s wins: the answers are still to come.
LEMMA StartStep ==
  ASSUME SystemInv, IInv, NEW g \in Groups, NEW s \in Sessions, NEW opened \in BOOLEAN,
         StartStreaming(g, s, opened)
  PROVE  SystemInv'
<1>1. /\ Arbitrating(g) /\ s \in offers[g] /\ answering = None /\ answering' = g
      /\ winner' = [winner EXCEPT ![g] = s]
      /\ UNCHANGED <<group, told, age, offers, elapsed, moved, io_blocked, crossed>>
  BY DEF StartStreaming, NoTick, RoundOver
<1>2. stream' = [stream EXCEPT ![g] = started + 1] /\ started + 1 # 0
  BY SinkAssumption DEF StartStreaming, RequestLiveStream, IInv, TypeOK, SinkAssumption
<1>3. stream \in [Groups -> 0..MaxStreams]
  BY DEF IInv, TypeOK
<1>4. winner[g] = None
  BY <1>1, SystemAssumption DEF SystemInv, Phases, SystemAssumption
<1>5. SystemTypeOK'
  BY <1>1 DEF SystemInv, SystemTypeOK
<1>6. Phases' /\ WinnerListed'
  BY <1>1, <1>2, <1>3, SystemAssumption
     DEF SystemInv, SystemTypeOK, Phases, WinnerListed, Streaming, Arbitrating, SystemAssumption
<1>7. AtHome'
  BY <1>1 DEF SystemInv, SystemTypeOK, AtHome
<1>8. SignalsAgree'
  <2>1. ASSUME NEW c \in Sessions, told'[c] = "start" PROVE \E h \in Groups : winner'[h] = c
    <3>1. PICK h \in Groups : winner[h] = c
      BY <1>1, <2>1 DEF SystemInv, SignalsAgree
    <3>2. h # g
      BY <1>4, <3>1, SystemAssumption DEF SystemAssumption
    <3>3. winner'[h] = c
      BY <1>1, <3>1, <3>2 DEF SystemInv, SystemTypeOK
    <3> QED BY <3>3
  <2>2. ASSUME NEW h \in Groups \ (crossed' \union {answering'}),
               winner'[h] \notin moved' \union {None}
        PROVE  told'[winner'[h]] \in {"start", "gone"}
    <3>1. winner'[h] = winner[h] /\ h \notin crossed \union {answering}
      BY <1>1, SystemAssumption DEF SystemInv, SystemTypeOK, SystemAssumption
    <3> QED BY <1>1, <2>2, <3>1 DEF SystemInv, SignalsAgree
  <2> QED BY <2>1, <2>2 DEF SignalsAgree
<1> QED BY <1>5, <1>6, <1>7, <1>8 DEF SystemInv

\* The answers to a round: the winner is told start, unless it crossed them.
LEMMA AnswerStep ==
  ASSUME SystemInv, NEW g \in Groups, AnswerCandidates(g)
  PROVE  SystemInv'
<1>1. PICK msg \in [offers[g] -> {"start", "stop"}] :
        (\A c \in offers[g] : msg[c] \in Answer(g, c)) /\ Tell(msg)
  BY DEF AnswerCandidates
<1>2. /\ answering = g /\ answering' = None /\ io_blocked' = FALSE
      /\ offers' = [offers EXCEPT ![g] = {}]
      /\ age' = [age EXCEPT ![winner[g]] = 0]
      /\ UNCHANGED <<stream, group, elapsed, winner, moved, crossed>>
  BY DEF AnswerCandidates, Cleared, WriteLiveStream, vars, groupVars
<1>3. told' = [c \in Sessions |-> IF c \in offers[g] /\ told[c] # "gone"
                                  THEN msg[c] ELSE told[c]]
  BY <1>1 DEF Tell
<1>4. winner[g] \in Sessions /\ winner[g] \in offers[g]
  BY <1>2 DEF SystemInv, SystemTypeOK, WinnerListed
<1>5. SystemTypeOK'
  <2>1. told' \in [Sessions -> {"nothing", "start", "stop", "gone"}]
    BY <1>3 DEF SystemInv, SystemTypeOK
  <2>2. age' \in [Sessions -> 0..NoVoice]
    <3>1. 0 \in 0..NoVoice
      BY SystemAssumption DEF SystemAssumption
    <3> QED BY <1>2, <3>1 DEF SystemInv, SystemTypeOK
  <2>3. offers' \in [Groups -> SUBSET Sessions]
    BY <1>2 DEF SystemInv, SystemTypeOK
  <2> QED BY <1>2, <2>1, <2>2, <2>3, Zenon DEF SystemInv, SystemTypeOK
<1>6. Phases' /\ WinnerListed' /\ AtHome'
  BY <1>2, SystemAssumption
     DEF SystemInv, SystemTypeOK, Phases, WinnerListed, AtHome, Streaming, Arbitrating,
         SystemAssumption
<1>7. SignalsAgree'
  <2>1. ASSUME NEW c \in Sessions, told'[c] = "start" PROVE \E h \in Groups : winner'[h] = c
    <3>1. CASE c = winner[g]
      BY <1>2, <3>1
    <3>2. CASE c # winner[g]
      <4>1. c \in offers[g] => msg[c] = "stop"
        BY <1>1, <3>2 DEF Answer
      <4>2. told[c] = "start"
        BY <1>3, <2>1, <4>1
      <4> QED BY <1>2, <4>2 DEF SystemInv, SignalsAgree
    <3> QED BY <3>1, <3>2
  <2>2. ASSUME NEW h \in Groups \ (crossed' \union {answering'}),
               winner'[h] \notin moved' \union {None}
        PROVE  told'[winner'[h]] \in {"start", "gone"}
    <3>1. CASE h = g
      <4>1. msg[winner[g]] = "start"
        BY <1>1, <1>2, <1>4, <3>1 DEF Answer
      <4> QED BY <1>2, <1>3, <1>4, <3>1, <4>1
    <3>2. CASE h # g
      <4>1. winner'[h] = winner[h] /\ winner[h] \in Sessions \ moved
        BY <1>2, <2>2 DEF SystemInv, SystemTypeOK
      <4>2. group[winner[h]] = h
        BY <4>1 DEF SystemInv, AtHome
      <4>3. winner[h] \notin offers[g]
        BY <4>1, <4>2, <3>2 DEF SystemInv, AtHome
      <4>4. told[winner[h]] \in {"start", "gone"}
        BY <1>2, <2>2, <3>2, <4>1 DEF SystemInv, SignalsAgree
      <4> QED BY <1>3, <4>1, <4>3, <4>4
    <3> QED BY <3>1, <3>2
  <2> QED BY <2>1, <2>2 DEF SignalsAgree
<1> QED BY <1>5, <1>6, <1>7 DEF SystemInv

\* A stream that ends.
LEMMA StopStep ==
  ASSUME SystemInv, IInv, NEW g \in Groups, StopStreaming(g)
  PROVE  SystemInv'
<1>1. /\ Streaming(g) /\ answering = None /\ crossed' = crossed \ {g}
      /\ winner' = [winner EXCEPT ![g] = None]
      /\ told' = [s \in Sessions |-> IF s = winner[g] /\ told[s] # "gone" THEN "stop" ELSE told[s]]
      /\ UNCHANGED <<group, age, offers, elapsed, moved, answering, io_blocked>>
  BY DEF StopStreaming, NoTick, Tell, Goodbye
<1>2. stream' = [stream EXCEPT ![g] = 0] /\ stream \in [Groups -> 0..MaxStreams]
  BY DEF StopStreaming, CloseOutput, CloseLiveStream, QueueWavFile, IInv, TypeOK
<1>3. SystemTypeOK'
  BY <1>1 DEF SystemInv, SystemTypeOK
<1>4. Phases' /\ WinnerListed'
  BY <1>1, <1>2, SystemAssumption
     DEF SystemInv, SystemTypeOK, Phases, WinnerListed, Streaming, Arbitrating, SystemAssumption
<1>5. AtHome'
  BY <1>1, SystemAssumption DEF SystemInv, SystemTypeOK, AtHome, SystemAssumption
<1>6. SignalsAgree'
  <2>1. ASSUME NEW c \in Sessions, told'[c] = "start" PROVE \E h \in Groups : winner'[h] = c
    <3>1. c # winner[g] /\ told[c] = "start"
      BY <1>1, <2>1
    <3>2. PICK h \in Groups : winner[h] = c
      BY <3>1 DEF SystemInv, SignalsAgree
    <3>3. winner'[h] = c
      BY <1>1, <3>1, <3>2 DEF SystemInv, SystemTypeOK
    <3> QED BY <3>3
  <2>2. ASSUME NEW h \in Groups \ (crossed' \union {answering'}),
               winner'[h] \notin moved' \union {None}
        PROVE  told'[winner'[h]] \in {"start", "gone"}
    <3>1. h # g /\ winner'[h] = winner[h] /\ winner[h] \in Sessions \ moved
      BY <1>1, <2>2 DEF SystemInv, SystemTypeOK
    <3>2. winner[h] # winner[g]
      BY <3>1 DEF SystemInv, AtHome
    <3>3. told[winner[h]] \in {"start", "gone"}
      BY <1>1, <2>2, <3>1, SystemAssumption DEF SystemInv, SignalsAgree, SystemAssumption
    <3> QED BY <1>1, <3>1, <3>2, <3>3
  <2> QED BY <2>1, <2>2 DEF SignalsAgree
<1> QED BY <1>3, <1>4, <1>5, <1>6 DEF SystemInv

\* Voice moves a clock, and time all of them; a connection that ends is remembered.
LEMMA QuietStep ==
  ASSUME SystemInv,
         \/ \E s \in Sessions, g \in Groups : Voice(s, g)
         \/ \E s \in Sessions : Disconnect(s)
         \/ Clock
         \/ Sink
         \/ UNCHANGED systemVars
  PROVE  SystemInv'
<1>1. UNCHANGED <<stream, group, offers, winner, moved, answering, io_blocked, crossed>>
  BY SinkKeepsStreams
     DEF Voice, Disconnect, Clock, Sink, systemVars, controlVars, answerVars, vars, groupVars,
         WriteLiveStream
<1>2. told' \in [Sessions -> {"nothing", "start", "stop", "gone"}]
      /\ \A s \in Sessions : told'[s] \in {told[s], "gone"}
  BY DEF Voice, Disconnect, Clock, Sink, systemVars, controlVars, SystemInv, SystemTypeOK
<1>3. age' \in [Sessions -> 0..NoVoice]
  <2>1. 0 \in 0..NoVoice /\ \A a \in 0..NoVoice : a < NoVoice => a + 1 \in 0..NoVoice
    BY SystemAssumption DEF SystemAssumption
  <2> QED BY <2>1
          DEF Voice, Disconnect, Clock, Sink, systemVars, controlVars, SystemInv, SystemTypeOK
<1>4. elapsed' \in [Groups -> 0..Arbitration]
  <2>1. \A a \in 0..Arbitration : a < Arbitration => a + 1 \in 0..Arbitration
    BY SystemAssumption DEF SystemAssumption
  <2> QED BY <2>1
          DEF Voice, Disconnect, Clock, Sink, systemVars, controlVars, SystemInv, SystemTypeOK
<1>5. SystemTypeOK'
  BY <1>1, <1>2, <1>3, <1>4 DEF SystemInv, SystemTypeOK
<1>6. Phases' /\ WinnerListed' /\ AtHome'
  BY <1>1 DEF SystemInv, Phases, WinnerListed, AtHome, Streaming, Arbitrating
<1>7. SignalsAgree'
  BY <1>1, <1>2 DEF SystemInv, SystemTypeOK, SignalsAgree
<1> QED BY <1>5, <1>6, <1>7 DEF SystemInv

\* Every behaviour of the composition is one of the sink.
LEMMA SystemIsSink == SystemSpec => SafeSpec
<1>1. SystemInit => Init
  BY DEF SystemInit
<1> QED BY <1>1, SinkSteps, PTL DEF SystemSpec, SafeSpec

-----------------------------------------------------------------------------
\* With groups that follow GroupController's phases for callers, the device keeps the
\* whole invariant that was proved of it for any callers.
THEOREM DeviceInvariance == SystemSpec => []IInv
BY SystemIsSink, Invariance, PTL

\* However several groups share the device, it is arbitrated as SinkArbiter says: the
\* composition refines it.
THEOREM SystemImplementsArbiter == SystemSpec => Arbiter!SafeSpec
BY SystemIsSink, ImplementsArbiter, PTL

\* SystemInv is an invariant of the composition.
THEOREM SystemInvariance == SystemSpec => []SystemInv
<1>1. SystemInit => SystemInv
  <2> SUFFICES ASSUME SystemInit PROVE SystemInv
    OBVIOUS
  <2>1. io_blocked \in BOOLEAN
    BY Zenon DEF SystemInit
  <2>2. SystemTypeOK
    BY <2>1, SystemAssumption DEF SystemInit, SystemTypeOK, SystemAssumption
  <2>3. Phases /\ WinnerListed /\ AtHome /\ SignalsAgree
    BY SystemAssumption
       DEF SystemInit, Init, Phases, WinnerListed, AtHome, SignalsAgree, Streaming, Arbitrating,
           SystemAssumption
  <2> QED BY <2>2, <2>3 DEF SystemInv
<1>2. SystemInv /\ IInv /\ [SystemNext]_systemVars => SystemInv'
  BY OfferStep, HelloStep, AbortStep, StartStep, AnswerStep, StopStep, QuietStep
     DEF SystemNext, OnTick
<1> QED BY <1>1, <1>2, DeviceInvariance, PTL DEF SystemSpec

\* All variables of the composition keep their types.
THEOREM SystemTypeCorrect == SystemSpec => []SystemTypeOK
<1>1. SystemInv => SystemTypeOK
  BY DEF SystemInv
<1> QED BY <1>1, SystemInvariance, PTL

\* Clients and groups agree about who streams, however clients move between groups; a winner
\* that stayed in its group is told to stream and not to stop, unless its hello crossed the
\* answers.
THEOREM ClientsAndGroupsAgree == SystemSpec => []SignalsAgree
<1>1. SystemInv => SignalsAgree
  BY DEF SystemInv
<1> QED BY <1>1, SystemInvariance, PTL
=============================================================================
