-------------------------- MODULE AudioPathProofs ---------------------------
(***************************************************************************)
(* Proofs about AudioPath, for streams and chunks of any number and size,  *)
(* a delay line of any length and a network with any number of states: the *)
(* AGC is a pure delay when chunks have one size, writes past a chunk in   *)
(* one case only, a checked stream starts with a network that remembers    *)
(* nothing, the voice time follows the moving average, and the detector's  *)
(* window leaves nothing out.                                              *)
(***************************************************************************)
EXTENDS AudioPath, WindowAveragerProofs

-----------------------------------------------------------------------------
(***************************************************************************)
(* The memory of the network.                                              *)
(***************************************************************************)
Nets ==
  [in : [1..NumInputs-1 -> SUBSET Nat], out : [1..NumOutputs-1 -> SUBSET Nat],
   score : 0..100, failed : BOOLEAN]

\* Inputs that have no output to be copied from are never written.
RestIsZero(net) == \A k \in 1..NumInputs-1 : k > NumStates => net.in[k] = {}

NetInv ==
  /\ stream \in Nat
  /\ network \in Nets
  /\ RestIsZero(network)
  /\ NetworkFresh

\* The states that are copied are among the inputs and among the outputs.
LEMMA StatesFit ==
  NumStates \in Int /\ NumStates <= NumInputs - 1 /\ NumStates <= NumOutputs - 1
BY TensorAssumption DEF TensorAssumption, NumStates, Fewer

\* A frame leaves an influence of its stream, and of what was there.
LEMMA InferAdds ==
  ASSUME NEW net \in Nets, RestIsZero(net), NEW s \in Nat, NEW score \in 0..100
  PROVE  /\ Infer(net, s, score) \in Nets /\ RestIsZero(Infer(net, s, score))
         /\ Infer(net, s, score).failed = net.failed
         /\ (\A k \in 1..NumInputs-1 : net.in[k] \subseteq {s})
              => \A k \in 1..NumInputs-1 : Infer(net, s, score).in[k] \subseteq {s}
<1> DEFINE inf == Influence(net)
<1> DEFINE out == [j \in 1..NumOutputs-1 |-> inf \union {s}]
<1> DEFINE in  == [j \in 1..NumInputs-1 |-> IF j <= NumStates THEN out[j] ELSE net.in[j]]
<1>1. /\ net.in \in [1..NumInputs-1 -> SUBSET Nat] /\ net.failed \in BOOLEAN
  BY Zenon DEF Nets
<1>2. inf \in SUBSET Nat
  BY ZenonT(60), <1>1 DEF Influence
<1>3. (\A k \in 1..NumInputs-1 : net.in[k] \subseteq {s}) => inf \subseteq {s}
  BY DEF Influence
<1> HIDE DEF inf
<1>4. out \in [1..NumOutputs-1 -> SUBSET Nat]
  BY <1>2
<1>5. NumInputs \in Int /\ NumOutputs \in Int
  BY TensorAssumption DEF TensorAssumption
<1>6. \A k \in 1..NumInputs-1 : IF k <= NumStates THEN in[k] = inf \union {s}
                                ELSE in[k] = {}
  BY <1>5, StatesFit DEF RestIsZero
<1>7. in \in [1..NumInputs-1 -> SUBSET Nat]
  BY <1>2, <1>6
<1>8. Infer(net, s, score) = [in |-> in, out |-> out, score |-> score, failed |-> net.failed]
  BY DEF Infer, Fed, inf
<1> HIDE DEF in, out
<1>9. Infer(net, s, score) \in Nets
  BY <1>1, <1>4, <1>7, <1>8 DEF Nets
<1>10. Infer(net, s, score).in = in /\ Infer(net, s, score).failed = net.failed
  BY <1>8
<1>11. RestIsZero(Infer(net, s, score))
  BY <1>5, <1>6, <1>10, StatesFit DEF RestIsZero
<1> QED BY <1>3, <1>6, <1>9, <1>10, <1>11

\* A failed one is remembered as such.
LEMMA FailureShows ==
  ASSUME NEW net \in Nets, RestIsZero(net)
  PROVE  /\ InferFails(net) \in Nets /\ RestIsZero(InferFails(net))
         /\ InferFails(net).failed
<1> DEFINE in  == [j \in 1..NumInputs-1 |-> IF j <= NumStates THEN net.out[j] ELSE net.in[j]]
<1>1. /\ net.in \in [1..NumInputs-1 -> SUBSET Nat] /\ net.out \in [1..NumOutputs-1 -> SUBSET Nat]
      /\ net.score \in 0..100
  BY Zenon DEF Nets
<1>2. NumInputs \in Int /\ NumOutputs \in Int
  BY TensorAssumption DEF TensorAssumption
<1>3. in \in [1..NumInputs-1 -> SUBSET Nat]
  BY <1>1, <1>2, StatesFit
<1>4. \A k \in 1..NumInputs-1 : k > NumStates => in[k] = {}
  BY <1>2, StatesFit DEF RestIsZero
<1>5. InferFails(net) = [in |-> in, out |-> net.out, score |-> net.score, failed |-> TRUE]
  BY DEF InferFails, Fed
<1> HIDE DEF in
<1>6. InferFails(net).in = in /\ InferFails(net).failed
  BY <1>5
<1>7. InferFails(net) \in Nets
  <2>1. PICK b \in BOOLEAN : b = TRUE
    BY Zenon
  <2> QED BY <1>1, <1>3, <1>5, <2>1 DEF Nets
<1> QED BY <1>4, <1>6, <1>7 DEF RestIsZero

\* After a reset nothing is left in any input.
LEMMA ResetForgets ==
  ASSUME NEW net \in Nets, RestIsZero(net)
  PROVE  /\ ResetStates(net) \in Nets /\ RestIsZero(ResetStates(net))
         /\ \A k \in 1..NumInputs-1 : ResetStates(net).in[k] = {}
         /\ ResetStates(net).failed = net.failed
<1> DEFINE in == [j \in 1..NumInputs-1 |-> IF j <= NumStates THEN {} ELSE net.in[j]]
<1>1. \A k \in 1..NumInputs-1 : in[k] = {}
  <2>1. NumInputs \in Int /\ NumOutputs \in Int
    BY TensorAssumption DEF TensorAssumption
  <2> QED BY <2>1, StatesFit DEF RestIsZero
<1>2. in \in [1..NumInputs-1 -> SUBSET Nat]
  BY <1>1
<1>3. ResetStates(net) = [in |-> in, out |-> net.out, score |-> net.score,
                          failed |-> net.failed]
  BY DEF ResetStates
<1> HIDE DEF in
<1>4. ResetStates(net) \in Nets
  BY <1>2, <1>3 DEF Nets
<1>5. ResetStates(net).in = in /\ ResetStates(net).failed = net.failed
  BY <1>3
<1> QED BY <1>1, <1>4, <1>5 DEF RestIsZero

\* The check leaves nothing behind either.
LEMMA CheckForgets ==
  ASSUME NetInv, NEW preroll, NEW ok
  PROVE  LET net == AfterCheck(network, preroll, ok)
         IN  /\ net \in Nets /\ RestIsZero(net)
             /\ \A k \in 1..NumInputs-1 : net.in[k] = {}
<1> DEFINE clean == ResetStates(network)
<1> DEFINE fed == IF preroll < Hop THEN clean
                  ELSE IF ok THEN Infer(clean, stream + 1, network.score)
                  ELSE InferFails(clean)
<1>1. clean \in Nets /\ RestIsZero(clean)
  BY ResetForgets DEF NetInv
<1>2. network.score \in 0..100 /\ stream + 1 \in Nat
  BY DEF NetInv, Nets
<1> HIDE DEF clean
<1>3. /\ Infer(clean, stream + 1, network.score) \in Nets
      /\ RestIsZero(Infer(clean, stream + 1, network.score))
      /\ InferFails(clean) \in Nets /\ RestIsZero(InferFails(clean))
  BY <1>1, <1>2, InferAdds, FailureShows
<1>4. fed \in Nets /\ RestIsZero(fed)
  BY <1>1, <1>3
<1>5. AfterCheck(network, preroll, ok) = ResetStates(fed)
  BY DEF AfterCheck, clean
<1> HIDE DEF fed
<1> QED BY <1>4, <1>5, ResetForgets

\* All states are zeros on boot.
LEMMA NetInit == Init => NetInv
<1> SUFFICES ASSUME Init
             PROVE  NetInv
  OBVIOUS
<1>1. stream = 0 /\ network = Boot /\ checked = FALSE
  BY DEF Init
<1>2. PICK b \in BOOLEAN : b = FALSE
  BY Zenon
<1>3. Boot \in Nets /\ RestIsZero(Boot)
  BY <1>2 DEF Nets, RestIsZero, Boot
<1> QED BY <1>1, <1>3 DEF NetInv, NetworkFresh

\* Every step keeps the network's memory to the streams it may remember.
LEMMA NetStep ==
  ASSUME NetInv, [Next]_vars
  PROVE  NetInv'
<1> USE DEF vadVars
<1>1. ASSUME NEW n \in ChunkSizes \union {0}, NEW ok \in BOOLEAN, StartStream(n, ok)
      PROVE  NetInv'
  <2>1. /\ stream' = stream + 1
        /\ network' = IF checked' THEN AfterCheck(network, n, ok) ELSE network
    BY <1>1 DEF StartStream
  <2>2. CASE checked'
    <3>1. /\ AfterCheck(network, n, ok) \in Nets
          /\ RestIsZero(AfterCheck(network, n, ok))
          /\ \A k \in 1..NumInputs-1 : AfterCheck(network, n, ok).in[k] = {}
      BY CheckForgets
    <3>2. network' = AfterCheck(network, n, ok)
      BY <2>1, <2>2
    <3>3. /\ network' \in Nets /\ RestIsZero(network)'
          /\ \A k \in 1..NumInputs-1 : network'.in[k] = {}
      BY <3>1, <3>2 DEF RestIsZero
    <3>4. DOMAIN network'.in = 1..NumInputs-1
      BY <3>3 DEF Nets
    <3>5. NetworkFresh'
      BY <3>3, <3>4 DEF NetworkFresh
    <3>6. stream' \in Nat
      BY <2>1 DEF NetInv
    <3> QED BY <3>3, <3>5, <3>6 DEF NetInv
  <2>3. CASE ~checked'
    BY <2>1, <2>3 DEF NetInv, NetworkFresh, RestIsZero
  <2> QED BY <2>2, <2>3
<1>2. ASSUME NEW p \in 0..100, NEW ok \in BOOLEAN, Frame(p, ok)
      PROVE  NetInv'
  <2>1. /\ UNCHANGED <<stream, checked>>
        /\ network' = IF ok THEN Infer(network, stream, p) ELSE InferFails(network)
    BY <1>2 DEF Frame
  <2>2. network \in Nets /\ RestIsZero(network) /\ stream \in Nat
    BY DEF NetInv
  <2>3. CASE ok
    <3>1. /\ network' \in Nets /\ RestIsZero(network)'
          /\ network'.failed = network.failed
          /\ (\A k \in 1..NumInputs-1 : network.in[k] \subseteq {stream})
               => \A k \in 1..NumInputs-1 : network'.in[k] \subseteq {stream}
      <4>1. network' = Infer(network, stream, p) /\ p \in 0..100
        BY <1>2, <2>1, <2>3
      <4>2. /\ Infer(network, stream, p) \in Nets /\ RestIsZero(Infer(network, stream, p))
            /\ Infer(network, stream, p).failed = network.failed
            /\ (\A k \in 1..NumInputs-1 : network.in[k] \subseteq {stream})
                 => \A k \in 1..NumInputs-1 : Infer(network, stream, p).in[k] \subseteq {stream}
        BY <2>2, <4>1, InferAdds
      <4> QED BY <4>1, <4>2 DEF RestIsZero
    <3>2. network.in \in [1..NumInputs-1 -> SUBSET Nat]
          /\ network'.in \in [1..NumInputs-1 -> SUBSET Nat]
      BY <2>2, <3>1 DEF Nets
    <3> QED BY <2>1, <2>2, <3>1, <3>2 DEF NetInv, NetworkFresh
  <2>4. CASE ~ok
    <3>1. network' \in Nets /\ RestIsZero(network)' /\ network'.failed
      BY <2>1, <2>2, <2>4, FailureShows DEF RestIsZero
    <3> QED BY <2>1, <2>2, <3>1 DEF NetInv, NetworkFresh
  <2> QED BY <2>3, <2>4
<1>3. ASSUME UNCHANGED <<stream, network, checked>>
      PROVE  NetInv'
  BY <1>3 DEF NetInv, NetworkFresh, RestIsZero
<1>4. CASE EndOfChunk \/ StopStream \/ (\E n \in ChunkSizes : LiveChunk(n)) \/ UNCHANGED vars
  BY <1>3, <1>4 DEF EndOfChunk, StopStream, LiveChunk, vars
<1>5. CASE (\E p \in Levels : Frame(p, TRUE)) \/ Frame(0, FALSE)
  <2>1. 0 \in 0..100 /\ \A p \in Levels : p \in 0..100
    BY AudioAssumption DEF AudioAssumption
  <2>2. \E p \in 0..100, ok \in BOOLEAN : Frame(p, ok)
    BY <1>5, <2>1, Zenon
  <2> QED BY <1>2, <2>2
<1> QED BY <1>1, <1>4, <1>5 DEF Next

\* On a stream that was checked the network remembers nothing of earlier streams, as
\* long as no Invoke has failed.
THEOREM FreshNetwork == Spec => []NetworkFresh
<1>1. NetInv => NetworkFresh
  BY DEF NetInv
<1> QED BY <1>1, NetInit, NetStep, PTL DEF Spec

-----------------------------------------------------------------------------
(***************************************************************************)
(* The size of what comes out of the delay line.                           *)
(***************************************************************************)
LineTypes ==
  /\ delay_line_ \in Seq(Seq(Nat))
  /\ all_sizes \in Seq(Nat \ {0})
  /\ received \in Nat

\* The chunks in the line are the last that came, and the silence before the first.
LineSizes ==
  use_agc /\ ~overrun =>
    IF all_sizes = <<>> THEN delay_line_ = <<>>
    ELSE /\ Len(delay_line_) = DelayChunks
         /\ \A j \in 1..DelayChunks : Len(delay_line_[j]) = Behind(Len(all_sizes) + j)

LineInv == LineTypes /\ LineSizes /\ LineMatchesChunk

\* Silence has its size and is silent.
LEMMA ZerosFill ==
  ASSUME NEW pcm \in Seq(Nat)
  PROVE  /\ Zeros(Len(pcm)) \in Seq(Nat) /\ Len(Zeros(Len(pcm))) = Len(pcm)
         /\ \A m \in 1..Len(pcm) : Zeros(Len(pcm))[m] = 0
BY DEF Zeros

\* The delay line by its places.
LEMMA LineMoves ==
  ASSUME NEW line \in Seq(Seq(Nat)), line = <<>> \/ Len(line) = DelayChunks,
         NEW pcm \in Seq(Nat)
  PROVE  /\ Primed(line, pcm) \in Seq(Seq(Nat)) /\ Len(Primed(line, pcm)) = DelayChunks
         /\ line # <<>> => Primed(line, pcm) = line
         /\ line = <<>> => \A j \in 1..DelayChunks : Primed(line, pcm)[j] = Zeros(Len(pcm))
         /\ OutChunk(line, pcm) = Primed(line, pcm)[1]
         /\ NextLine(line, pcm) \in Seq(Seq(Nat)) /\ Len(NextLine(line, pcm)) = DelayChunks
         /\ \A j \in 1..DelayChunks-1 : NextLine(line, pcm)[j] = Primed(line, pcm)[j + 1]
         /\ NextLine(line, pcm)[DelayChunks] = pcm
<1> DEFINE full == Primed(line, pcm)
<1>1. DelayChunks \in Nat /\ DelayChunks > 0
  BY DelayAssumption DEF DelayAssumption
<1>2. /\ full \in Seq(Seq(Nat)) /\ Len(full) = DelayChunks
      /\ line # <<>> => full = line
      /\ line = <<>> => \A j \in 1..DelayChunks : full[j] = Zeros(Len(pcm))
  <2>1. CASE line = <<>>
    <3> DEFINE z == Zeros(Len(pcm))
    <3>1. full = [k \in 1..DelayChunks |-> z]
      BY <2>1 DEF Primed
    <3>2. z \in Seq(Nat)
      BY ZerosFill
    <3> HIDE DEF z
    <3>3. full \in Seq(Seq(Nat)) /\ Len(full) = DelayChunks
          /\ \A j \in 1..DelayChunks : full[j] = z
      BY <1>1, <3>1, <3>2
    <3> QED BY <2>1, <3>3 DEF z
  <2>2. CASE line # <<>>
    BY <2>2 DEF Primed
  <2> QED BY <2>1, <2>2
<1> HIDE DEF full
<1> DEFINE pushed == Append(full, pcm)
<1>3. /\ pushed \in Seq(Seq(Nat)) /\ Len(pushed) = DelayChunks + 1
      /\ \A j \in 1..DelayChunks : pushed[j] = full[j]
      /\ pushed[DelayChunks + 1] = pcm
  BY <1>1, <1>2
<1>4. OutChunk(line, pcm) = Head(pushed) /\ NextLine(line, pcm) = Tail(pushed)
  BY DEF OutChunk, NextLine, Pushed, full
<1> HIDE DEF pushed
<1>5. /\ Head(pushed) = pushed[1] /\ Tail(pushed) \in Seq(Seq(Nat))
      /\ Len(Tail(pushed)) = DelayChunks
      /\ \A j \in 1..DelayChunks : Tail(pushed)[j] = pushed[j + 1]
  BY <1>1, <1>3
<1>6. /\ OutChunk(line, pcm) = full[1]
      /\ NextLine(line, pcm) \in Seq(Seq(Nat)) /\ Len(NextLine(line, pcm)) = DelayChunks
      /\ \A j \in 1..DelayChunks-1 : NextLine(line, pcm)[j] = full[j + 1]
      /\ NextLine(line, pcm)[DelayChunks] = pcm
  BY <1>1, <1>3, <1>4, <1>5
<1> QED BY <1>2, <1>6 DEF full

\* What a chunk leaves behind, in the history of sizes.
LEMMA BehindGrows ==
  ASSUME LineTypes, NEW n \in Nat \ {0}, all_sizes' = Append(all_sizes, n)
  PROVE  /\ Len(all_sizes') = Len(all_sizes) + 1 /\ Len(all_sizes) \in Nat
         /\ all_sizes' \in Seq(Nat \ {0})
         /\ all_sizes'[Len(all_sizes) + 1] = n
         /\ \A k \in 1..Len(all_sizes) : all_sizes'[k] = all_sizes[k] /\ all_sizes[k] \in Nat
         /\ all_sizes = <<>> <=> Len(all_sizes) = 0
BY DEF LineTypes

\* A chunk that is not empty goes through the AGC, or past it.
LEMMA ChunkPasses ==
  ASSUME LineInv, ~overrun, NEW n \in Nat \ {0}, PassOn(Samples(n)),
         all_sizes' = Append(all_sizes, n), use_agc' = use_agc
  PROVE  LineInv'
<1>1. PICK N \in Nat : N = Len(all_sizes)
  BY BehindGrows DEF LineInv
<1> DEFINE pcm == Samples(n)
<1> DEFINE full == Primed(delay_line_, pcm)
<1> DEFINE B(k) == all_sizes'[IF k > DelayChunks THEN k - DelayChunks ELSE 1]
<1>2. DelayChunks \in Nat /\ DelayChunks > 0
  BY DelayAssumption DEF DelayAssumption
<1>3. received \in Nat /\ pcm \in Seq(Nat) /\ Len(pcm) = n /\ pcm # <<>>
  <2>1. received \in Nat
    BY DEF LineInv, LineTypes
  <2>2. pcm = [k \in 1..n |-> received + k]
    BY DEF Samples
  <2> HIDE DEF pcm
  <2>3. pcm \in Seq(Nat) /\ Len(pcm) = n
    BY <2>1, <2>2
  <2> QED BY <2>1, <2>3
<1>4. /\ received' = received + n
      /\ IF use_agc /\ Overruns(delay_line_, pcm)
         THEN overrun' = TRUE /\ delay_line_' = delay_line_
         ELSE /\ overrun' = overrun
              /\ delay_line_' = IF use_agc THEN NextLine(delay_line_, pcm) ELSE delay_line_
  BY <1>3 DEF PassOn
<1>5. /\ Len(all_sizes') = N + 1 /\ N \in Nat /\ all_sizes' \in Seq(Nat \ {0})
      /\ all_sizes'[N + 1] = n
      /\ \A k \in 1..N : all_sizes'[k] = all_sizes[k] /\ all_sizes[k] \in Nat
      /\ all_sizes = <<>> <=> N = 0
  BY <1>1, BehindGrows DEF LineInv
<1>6. /\ \A k \in Nat : Behind(k)' = B(k)
      /\ \A k \in 1..N+DelayChunks : N > 0 => Behind(k) = B(k)
  <2>1. \A k \in Nat : Behind(k)' = B(k)
    BY DEF Behind
  <2>2. ASSUME NEW k \in 1..N+DelayChunks, N > 0
        PROVE  Behind(k) = B(k)
    <3>1. (IF k > DelayChunks THEN k - DelayChunks ELSE 1) \in 1..N
      BY <1>2, <1>5, <2>2
    <3> QED BY <1>5, <3>1 DEF Behind
  <2> QED BY <2>1, <2>2
<1> HIDE DEF pcm, full, B
<1>7. ASSUME use_agc
      PROVE  delay_line_ = <<>> \/ Len(delay_line_) = DelayChunks
  BY <1>7 DEF LineInv, LineSizes
<1>8. ASSUME use_agc
      PROVE  /\ Len(full) = DelayChunks
             /\ OutChunk(delay_line_, pcm) = full[1]
             /\ NextLine(delay_line_, pcm) \in Seq(Seq(Nat))
             /\ Len(NextLine(delay_line_, pcm)) = DelayChunks
             /\ \A j \in 1..DelayChunks-1 : NextLine(delay_line_, pcm)[j] = full[j + 1]
             /\ NextLine(delay_line_, pcm)[DelayChunks] = pcm
             /\ \A j \in 1..DelayChunks : Len(full[j]) = B(N + j)
  <2>1. /\ Len(full) = DelayChunks
        /\ delay_line_ # <<>> => full = delay_line_
        /\ delay_line_ = <<>> => \A j \in 1..DelayChunks : Len(full[j]) = Len(pcm)
        /\ OutChunk(delay_line_, pcm) = full[1]
        /\ NextLine(delay_line_, pcm) \in Seq(Seq(Nat))
        /\ Len(NextLine(delay_line_, pcm)) = DelayChunks
        /\ \A j \in 1..DelayChunks-1 : NextLine(delay_line_, pcm)[j] = full[j + 1]
        /\ NextLine(delay_line_, pcm)[DelayChunks] = pcm
    <3>1. delay_line_ \in Seq(Seq(Nat)) /\ (delay_line_ = <<>> \/ Len(delay_line_) = DelayChunks)
      BY <1>7, <1>8 DEF LineInv, LineTypes
    <3>2. /\ Len(Primed(delay_line_, pcm)) = DelayChunks
          /\ OutChunk(delay_line_, pcm) = Primed(delay_line_, pcm)[1]
      BY <1>3, <3>1, LineMoves
    <3>3. delay_line_ # <<>> => Primed(delay_line_, pcm) = delay_line_
      BY <1>3, <3>1, LineMoves
    <3>4. delay_line_ = <<>> =>
             \A j \in 1..DelayChunks : Primed(delay_line_, pcm)[j] = Zeros(Len(pcm))
      BY ZenonT(60), <1>3, <3>1, LineMoves
    <3>5. /\ NextLine(delay_line_, pcm) \in Seq(Seq(Nat))
          /\ Len(NextLine(delay_line_, pcm)) = DelayChunks
          /\ NextLine(delay_line_, pcm)[DelayChunks] = pcm
      BY <1>3, <3>1, LineMoves
    <3>6. \A j \in 1..DelayChunks-1 :
             NextLine(delay_line_, pcm)[j] = Primed(delay_line_, pcm)[j + 1]
      BY <1>3, <3>1, LineMoves
    <3> QED BY <1>3, <3>2, <3>3, <3>4, <3>5, <3>6, ZerosFill DEF full
  <2>2. CASE N = 0
    <3>1. delay_line_ = <<>>
      BY <1>5, <1>8, <2>2 DEF LineInv, LineSizes
    <3>2. \A j \in 1..DelayChunks : B(N + j) = n
      BY <1>2, <1>5, <2>2 DEF B
    <3> QED BY <1>3, <2>1, <3>1, <3>2
  <2>3. CASE N > 0
    <3>1. /\ Len(delay_line_) = DelayChunks
          /\ \A j \in 1..DelayChunks : Len(delay_line_[j]) = Behind(N + j)
      BY <1>1, <1>5, <1>8, <2>3 DEF LineInv, LineSizes
    <3>2. full = delay_line_
      BY <1>2, <2>1, <3>1
    <3>3. \A j \in 1..DelayChunks : Behind(N + j) = B(N + j)
      BY <1>2, <1>5, <1>6, <2>3
    <3> QED BY <2>1, <3>1, <3>2, <3>3
  <2> QED BY <1>5, <2>1, <2>2, <2>3
<1>9. LineTypes'
  <2>1. delay_line_' \in Seq(Seq(Nat))
    BY <1>4, <1>8 DEF LineInv, LineTypes
  <2> QED BY <1>3, <1>4, <1>5, <2>1 DEF LineTypes
<1>10. overrun' <=> use_agc /\ B(N + 1) > n
  <2>1. CASE use_agc
    <3>1. Overruns(delay_line_, pcm) <=> B(N + 1) > n
      BY SMTT(30), <1>2, <1>3, <1>8, <2>1 DEF Overruns
    <3> QED BY <1>4, <2>1, <3>1
  <2>2. CASE ~use_agc
    BY <1>4, <2>2
  <2> QED BY <2>1, <2>2
<1>11. LineMatchesChunk'
  <2>1. DOMAIN all_sizes = 1..N /\ DOMAIN all_sizes' = 1..N+1
    BY <1>1, <1>5 DEF LineInv, LineTypes
  <2>2. ASSUME use_agc, NEW k \in 1..N
        PROVE  ~(Behind(k)' > all_sizes'[k])
    <3>1. ~(Behind(k) > all_sizes[k])
      BY <2>1, <2>2 DEF LineInv, LineMatchesChunk
    <3>2. Behind(k)' = B(k) /\ Behind(k) = B(k)
      BY <1>2, <1>5, <1>6
    <3> QED BY <1>5, <3>1, <3>2
  <2>3. Behind(N + 1)' = B(N + 1)
    BY <1>5, <1>6
  <2>4. overrun' <=> use_agc /\ \E k \in 1..N+1 : Behind(k)' > all_sizes'[k]
    BY <1>5, <1>10, <2>2, <2>3
  <2> QED BY <2>1, <2>4 DEF LineMatchesChunk
<1>12. LineSizes'
  <2>1. SUFFICES ASSUME use_agc, ~overrun'
                 PROVE  /\ Len(delay_line_') = DelayChunks
                        /\ \A j \in 1..DelayChunks : Len(delay_line_'[j]) = B(N + 1 + j)
    <3>1. all_sizes' # <<>>
      BY <1>5
    <3> QED BY <1>5, <3>1 DEF LineSizes, Behind, B
  <2>2. delay_line_' = NextLine(delay_line_, pcm)
    BY <1>4, <2>1
  <2>3. ASSUME NEW j \in 1..DelayChunks
        PROVE  Len(delay_line_'[j]) = B(N + 1 + j)
    <3>1. CASE j < DelayChunks
      <4>1. Len(full[j + 1]) = B(N + (j + 1))
        BY <1>2, <1>8, <2>1, <3>1
      <4>2. N + (j + 1) = N + 1 + j
        BY <1>2, <1>5
      <4> QED BY <1>2, <1>8, <2>1, <2>2, <3>1, <4>1, <4>2
    <3>2. CASE j = DelayChunks
      <4>1. B(N + 1 + j) = n
        BY <1>2, <1>5, <3>2 DEF B
      <4> QED BY <1>3, <1>8, <2>1, <2>2, <3>2, <4>1
    <3> QED BY <1>2, <3>1, <3>2
  <2> QED BY <1>8, <2>1, <2>2, <2>3
<1> QED BY <1>9, <1>11, <1>12 DEF LineInv

-----------------------------------------------------------------------------
(***************************************************************************)
(* What comes out of the delay line.                                       *)
(***************************************************************************)
Delayed(k, delay) == IF k > delay THEN k - delay ELSE 0

OneSize == all_sizes # <<>> /\ \A k \in DOMAIN all_sizes : all_sizes[k] = all_sizes[1]

\* With the AGC the next DelayChunks chunks of the output are in the line.
InLine(size) ==
  \A j \in 1..DelayChunks, m \in 1..size :
    delay_line_[j][m] = Delayed(received + (j - 1) * size + m, DelayChunks * size)

ContentInv ==
  /\ passed \in Seq(Nat)
  /\ ~overrun => Len(passed) = received
  /\ all_sizes = <<>> => received = 0
  /\ ~use_agc => \A k \in 1..Len(passed) : passed[k] = k
  /\ use_agc /\ OneSize =>
       /\ InLine(all_sizes[1])
       /\ \A k \in 1..Len(passed) : passed[k] = Delayed(k, DelayChunks * all_sizes[1])

PathInv == LineInv /\ ContentInv

\* The places of a line of chunks of one size follow each other.
LEMMA PlacesInLine ==
  ASSUME NEW size \in Nat, NEW j \in 1..DelayChunks, NEW m \in 1..size
  PROVE  /\ (j - 1) * size \in Nat /\ DelayChunks * size \in Nat /\ j * size \in Nat
         /\ j * size = (j - 1) * size + size
         /\ (j - 1) * size + m <= DelayChunks * size
<1>1. DelayChunks \in Nat /\ j \in Nat /\ m \in Nat /\ j <= DelayChunks /\ m <= size /\ j >= 1
  BY DelayAssumption DEF DelayAssumption
<1>2. j * size = (j - 1) * size + size
  BY <1>1
<1>3. j * size <= DelayChunks * size
  BY <1>1
<1>4. (j - 1) * size \in Nat /\ DelayChunks * size \in Nat /\ j * size \in Nat
  BY <1>1
<1> QED BY <1>1, <1>2, <1>3, <1>4

\* What was appended comes after what was there.
LEMMA ConcatPlaces ==
  ASSUME NEW a \in Seq(Nat), NEW b \in Seq(Nat), NEW r \in Nat, r = Len(a),
         NEW n \in Nat, n = Len(b)
  PROVE  /\ a \o b \in Seq(Nat) /\ Len(a \o b) = r + n
         /\ \A k \in 1..r : (a \o b)[k] = a[k]
         /\ \A k \in r+1..r+n : (a \o b)[k] = b[k - r]
<1>1. a \o b \in Seq(Nat) /\ Len(a \o b) = r + n
  OBVIOUS
<1>2. \A k \in 1..r : (a \o b)[k] = a[k]
  OBVIOUS
<1>3. \A k \in r+1..r+n : (a \o b)[k] = b[k - r]
  OBVIOUS
<1> QED BY <1>1, <1>2, <1>3

LEMMA ConcatByPlaces ==
  ASSUME NEW a \in Seq(Nat), NEW b \in Seq(Nat)
  PROVE  /\ a \o b \in Seq(Nat) /\ Len(a \o b) = Len(a) + Len(b)
         /\ \A k \in 1..Len(a) : (a \o b)[k] = a[k]
         /\ \A k \in Len(a)+1..Len(a)+Len(b) : (a \o b)[k] = b[k - Len(a)]
<1>1. Len(a) \in Nat /\ Len(b) \in Nat
  OBVIOUS
<1> QED BY <1>1, ConcatPlaces

\* A chunk that comes out in the place of one of its size replaces it.
LEMMA ProcessedFits ==
  ASSUME NEW line, NEW pcm \in Seq(Nat), OutChunk(line, pcm) \in Seq(Nat)
  PROVE  /\ Processed(line, pcm) \in Seq(Nat) /\ Len(Processed(line, pcm)) = Len(pcm)
         /\ Len(OutChunk(line, pcm)) = Len(pcm) =>
              \A i_ \in 1..Len(pcm) : Processed(line, pcm)[i_] = OutChunk(line, pcm)[i_]
<1> DEFINE out == OutChunk(line, pcm)
<1>1. Processed(line, pcm) = [k \in 1..Len(pcm) |-> IF k <= Len(out) THEN out[k] ELSE pcm[k]]
  BY DEF Processed
<1>2. \A k \in 1..Len(pcm) : (IF k <= Len(out) THEN out[k] ELSE pcm[k]) \in Nat
  OBVIOUS
<1> HIDE DEF out
<1> QED BY <1>1, <1>2 DEF out

\* A chunk goes in and a chunk comes out.
LEMMA ChunkComesOut ==
  ASSUME PathInv, ~overrun, NEW n \in Nat \ {0}, PassOn(Samples(n)),
         all_sizes' = Append(all_sizes, n), use_agc' = use_agc
  PROVE  PathInv'
<1>1. PICK N \in Nat, R \in Nat : N = Len(all_sizes) /\ R = received
  BY BehindGrows DEF PathInv, LineInv, LineTypes
<1> DEFINE pcm == Samples(n)
<1>2. LineInv'
  BY ChunkPasses DEF PathInv
<1>3. /\ pcm \in Seq(Nat) /\ Len(pcm) = n /\ \A m \in 1..n : pcm[m] = R + m
      /\ pcm # <<>>
  <2>1. pcm = [k \in 1..n |-> R + k]
    BY <1>1 DEF Samples
  <2> HIDE DEF pcm
  <2>2. pcm \in Seq(Nat) /\ Len(pcm) = n
    BY <1>1, <2>1
  <2> QED BY <2>1, <2>2
<1>4. /\ received' = R + n
      /\ IF use_agc /\ Overruns(delay_line_, pcm)
         THEN overrun' = TRUE /\ passed' = passed
         ELSE /\ ~overrun'
              /\ passed' = passed \o pcm_data'
              /\ pcm_data' = IF use_agc THEN Processed(delay_line_, pcm) ELSE pcm
              /\ delay_line_' = IF use_agc THEN NextLine(delay_line_, pcm) ELSE delay_line_
  BY <1>1, <1>3 DEF PassOn
<1>5. /\ Len(all_sizes') = N + 1 /\ all_sizes'[N + 1] = n /\ all_sizes' # <<>>
      /\ all_sizes' \in Seq(Nat \ {0}) /\ all_sizes \in Seq(Nat \ {0})
      /\ \A k \in 1..N : all_sizes'[k] = all_sizes[k]
      /\ all_sizes = <<>> <=> N = 0
  BY SMTT(30), <1>1, BehindGrows DEF PathInv, LineInv, LineTypes
<1>6. DelayChunks \in Nat /\ DelayChunks > 0
  BY DelayAssumption DEF DelayAssumption
<1> DEFINE full == Primed(delay_line_, pcm)
<1> DEFINE out == OutChunk(delay_line_, pcm)
<1> HIDE DEF pcm
<1>7. ASSUME use_agc
      PROVE  /\ delay_line_ = <<>> \/ Len(delay_line_) = DelayChunks
             /\ delay_line_ # <<>> => full = delay_line_
             /\ delay_line_ = <<>> => \A j \in 1..DelayChunks : full[j] = Zeros(Len(pcm))
             /\ out = full[1] /\ out \in Seq(Nat)
             /\ \A j \in 1..DelayChunks-1 : NextLine(delay_line_, pcm)[j] = full[j + 1]
             /\ NextLine(delay_line_, pcm)[DelayChunks] = pcm
  <2>1. delay_line_ \in Seq(Seq(Nat)) /\ (delay_line_ = <<>> \/ Len(delay_line_) = DelayChunks)
    BY <1>7 DEF PathInv, LineInv, LineTypes, LineSizes
  <2>2. full \in Seq(Seq(Nat)) /\ Len(full) = DelayChunks
    BY <1>3, <2>1, LineMoves
  <2>3. full[1] \in Seq(Nat)
    BY <1>6, <2>2
  <2> QED BY ZenonT(60), <1>3, <2>1, <2>3, LineMoves
<1> HIDE DEF full, out
<1>8. passed \in Seq(Nat) /\ Len(passed) = R
  BY <1>1 DEF PathInv, ContentInv
<1>9. ASSUME ~overrun'
      PROVE  /\ pcm_data' \in Seq(Nat) /\ Len(pcm_data') = n
             /\ passed' \in Seq(Nat) /\ Len(passed') = R + n
             /\ \A k \in 1..R : passed'[k] = passed[k]
             /\ \A k \in R+1..R+n : passed'[k] = pcm_data'[k - R]
  <2>1. pcm_data' \in Seq(Nat) /\ Len(pcm_data') = n
    <3>1. CASE use_agc
      BY <1>3, <1>4, <1>7, <1>9, <3>1, ProcessedFits DEF out
    <3>2. CASE ~use_agc
      BY <1>3, <1>4, <1>9, <3>2
    <3> QED BY <3>1, <3>2
  <2>2. passed' = passed \o pcm_data'
    BY <1>4, <1>9
  <2>3. PICK a \in Seq(Nat), b \in Seq(Nat) : a = passed /\ b = pcm_data'
    BY <1>8, <2>1
  <2>4. n \in Nat /\ R \in Nat /\ R = Len(a) /\ n = Len(b)
    BY <1>1, <1>8, <2>1, <2>3
  <2>5. /\ a \o b \in Seq(Nat) /\ Len(a \o b) = R + n
        /\ \A k \in 1..R : (a \o b)[k] = a[k]
        /\ \A k \in R+1..R+n : (a \o b)[k] = b[k - R]
    BY <2>4, ConcatPlaces
  <2> QED BY <2>1, <2>2, <2>3, <2>5, Zenon
<1>10. passed' \in Seq(Nat) /\ (~overrun' => Len(passed') = received')
  BY <1>4, <1>8, <1>9
<1>11. ASSUME ~use_agc
       PROVE  \A k \in 1..Len(passed') : passed'[k] = k
  <2>1. ~overrun' /\ pcm_data' = pcm
    BY <1>4, <1>11
  <2>2. \A k \in 1..R : passed[k] = k
    BY <1>8, <1>11 DEF PathInv, ContentInv
  <2>3. \A k \in R+1..R+n : pcm[k - R] = k
    BY <1>3
  <2>4. \A k \in R+1..R+n : passed'[k] = k
    BY <1>9, <2>1, <2>3
  <2>5. \A k \in 1..R : passed'[k] = k
    BY <1>9, <2>1, <2>2
  <2>6. \A k \in 1..R+n : k \in 1..R \/ k \in R+1..R+n
    OBVIOUS
  <2> QED BY <1>9, <2>1, <2>4, <2>5, <2>6
<1>12. ASSUME use_agc, OneSize'
       PROVE  /\ ~overrun' /\ all_sizes'[1] = n
              /\ IF N = 0 THEN delay_line_ = <<>> /\ R = 0
                 ELSE /\ OneSize /\ all_sizes[1] = n
                      /\ Len(delay_line_) = DelayChunks
                      /\ \A j \in 1..DelayChunks : Len(delay_line_[j]) = n
  <2>1. \A k \in 1..N+1 : all_sizes'[k] = n
    BY SMTT(30), <1>5, <1>12 DEF OneSize
  <2>2. ~overrun'
    <3>1. \A k \in 1..N+1 : Behind(k)' = n
      <4>1. ASSUME NEW k \in 1..N+1
            PROVE  (IF k > DelayChunks THEN k - DelayChunks ELSE 1) \in 1..N+1
        BY <1>6
      <4> QED BY <2>1, <4>1 DEF Behind
    <3>2. DOMAIN all_sizes' = 1..N+1
      BY <1>5
    <3> QED BY <1>2, <2>1, <3>1, <3>2 DEF LineInv, LineMatchesChunk
  <2>3. CASE N = 0
    BY <1>1, <1>5, <1>12, <2>1, <2>2, <2>3
       DEF PathInv, LineInv, LineSizes, ContentInv
  <2>4. CASE N > 0
    <3>1. OneSize /\ all_sizes[1] = n /\ \A k \in 1..N : all_sizes[k] = n
      BY <1>1, <1>5, <2>1, <2>4 DEF OneSize
    <3>2. /\ Len(delay_line_) = DelayChunks
          /\ \A j \in 1..DelayChunks : Len(delay_line_[j]) = Behind(N + j)
      BY <1>1, <1>5, <1>12, <2>4 DEF PathInv, LineInv, LineSizes
    <3>3. ASSUME NEW j \in 1..DelayChunks
          PROVE  Behind(N + j) = n
      <4>1. CASE N + j > DelayChunks
        <5>1. Behind(N + j) = all_sizes[N + j - DelayChunks]
          BY <1>1, <1>6, <4>1 DEF Behind
        <5>2. N + j - DelayChunks \in 1..N
          BY <1>1, <1>6, <4>1
        <5> QED BY <3>1, <5>1, <5>2
      <4>2. CASE ~(N + j > DelayChunks)
        <5>1. Behind(N + j) = all_sizes[1]
          BY <4>2 DEF Behind
        <5> QED BY <3>1, <5>1
      <4> QED BY <4>1, <4>2
    <3> QED BY <2>1, <2>2, <2>4, <3>1, <3>2, <3>3
  <2> QED BY <2>3, <2>4
<1> DEFINE D == DelayChunks * n
<1>13. D \in Nat
  BY <1>6
<1> HIDE DEF D
<1>14. ASSUME use_agc, OneSize'
       PROVE  \A j \in 1..DelayChunks, m \in 1..n :
                /\ Len(full[j]) = n
                /\ full[j][m] = Delayed(R + (j - 1) * n + m, D)
  <2>1. CASE N = 0
    <3>1. delay_line_ = <<>> /\ R = 0
      BY <1>12, <1>14, <2>1
    <3>2. \A j \in 1..DelayChunks, m \in 1..n : full[j][m] = 0 /\ Len(full[j]) = n
      BY <1>3, <1>7, <1>14, <3>1, ZerosFill
    <3>3. \A j \in 1..DelayChunks, m \in 1..n : (j - 1) * n \in Nat /\ (j - 1) * n + m <= D
      BY PlacesInLine DEF D
    <3>4. \A j \in 1..DelayChunks, m \in 1..n : Delayed(R + (j - 1) * n + m, D) = 0
      BY <1>13, <3>1, <3>3 DEF Delayed
    <3> QED BY <3>2, <3>4
  <2>2. CASE N # 0
    <3>1. /\ OneSize /\ all_sizes[1] = n /\ Len(delay_line_) = DelayChunks
          /\ \A j \in 1..DelayChunks : Len(delay_line_[j]) = n
      BY <1>12, <1>14, <2>2
    <3>2. full = delay_line_
      BY <1>6, <1>7, <1>14, <3>1
    <3>3. InLine(n)
      BY <1>14, <3>1 DEF PathInv, ContentInv
    <3> QED BY <1>1, <3>1, <3>2, <3>3 DEF InLine, D
  <2> QED BY <2>1, <2>2
<1>15. ASSUME use_agc, OneSize'
       PROVE  \A k \in 1..Len(passed') : passed'[k] = Delayed(k, D)
  <2>1. \A m \in 1..n : Len(out) = n /\ out[m] = Delayed(R + m, D)
    <3>1. PICK j \in 1..DelayChunks : j = 1
      BY <1>6
    <3>2. ASSUME NEW m \in 1..n
          PROVE  Len(full[j]) = n /\ full[j][m] = Delayed(R + (j - 1) * n + m, D)
      BY <1>14, <1>15
    <3>3. ASSUME NEW m \in 1..n
          PROVE  R + (j - 1) * n + m = R + m
      BY <3>1
    <3> QED BY <1>7, <1>15, <3>1, <3>2, <3>3
  <2>2. pcm_data' = Processed(delay_line_, pcm) /\ ~overrun'
    BY <1>4, <1>12, <1>15
  <2>3. \A m \in 1..n : pcm_data'[m] = out[m]
    <3> SUFFICES ASSUME NEW m \in 1..n PROVE pcm_data'[m] = out[m]
      OBVIOUS
    <3>1. Len(out) = n
      BY <2>1
    <3>2. /\ OutChunk(delay_line_, pcm) \in Seq(Nat)
          /\ Len(OutChunk(delay_line_, pcm)) = Len(pcm)
      BY <1>3, <1>7, <1>15, <3>1 DEF out
    <3>3. \A j \in 1..Len(pcm) : Processed(delay_line_, pcm)[j] = OutChunk(delay_line_, pcm)[j]
      BY <1>3, <3>2, ProcessedFits
    <3> QED BY <1>3, <2>2, <3>3 DEF out
  <2>4. \A k \in R+1..R+n : passed'[k] = Delayed(k, D)
    <3>1. ASSUME NEW k \in R+1..R+n
          PROVE  k - R \in 1..n /\ R + (k - R) = k
      OBVIOUS
    <3>2. ASSUME NEW k \in R+1..R+n
          PROVE  pcm_data'[k - R] = Delayed(R + (k - R), D)
      BY <2>1, <2>3, <3>1
    <3> QED BY <1>9, <2>2, <3>1, <3>2
  <2>5. \A k \in 1..R : passed[k] = Delayed(k, D)
    <3>1. CASE N = 0
      BY <1>12, <1>15, <3>1
    <3>2. CASE N # 0
      BY <1>8, <1>12, <1>15, <3>2 DEF PathInv, ContentInv, D
    <3> QED BY <3>1, <3>2
  <2>6. \A k \in 1..R+n : k \in 1..R \/ k \in R+1..R+n
    OBVIOUS
  <2> QED BY <1>9, <2>2, <2>4, <2>5, <2>6
<1>16. ASSUME use_agc, OneSize'
       PROVE  \A j \in 1..DelayChunks, m \in 1..n :
                delay_line_'[j][m] = Delayed((R + n) + (j - 1) * n + m, D)
  <2>1. delay_line_' = NextLine(delay_line_, pcm)
    BY <1>4, <1>12, <1>16
  <2> SUFFICES ASSUME NEW j \in 1..DelayChunks, NEW m \in 1..n
               PROVE  delay_line_'[j][m] = Delayed((R + n) + (j - 1) * n + m, D)
    OBVIOUS
  <2>2. (j - 1) * n \in Nat /\ j * n = (j - 1) * n + n /\ j * n \in Nat
    BY PlacesInLine
  <2>3. CASE j < DelayChunks
    <3>1. delay_line_'[j] = full[j + 1] /\ j + 1 \in 1..DelayChunks
      BY <1>6, <1>7, <1>16, <2>1, <2>3
    <3>2. full[j + 1][m] = Delayed(R + ((j + 1) - 1) * n + m, D)
      BY <1>14, <1>16, <3>1
    <3>3. R + ((j + 1) - 1) * n + m = (R + n) + (j - 1) * n + m
      <4>1. (j + 1) - 1 = j
        OBVIOUS
      <4>2. ((j + 1) - 1) * n = j * n
        BY <4>1
      <4> QED BY <2>2, <4>2
    <3> QED BY <3>1, <3>2, <3>3
  <2>4. CASE j = DelayChunks
    <3>1. delay_line_'[j][m] = R + m
      BY <1>3, <1>7, <1>16, <2>1, <2>4
    <3>2. (R + n) + (j - 1) * n + m = D + (R + m)
      BY <2>2, <2>4 DEF D
    <3>3. Delayed(D + (R + m), D) = R + m
      BY <1>13 DEF Delayed
    <3> QED BY <3>1, <3>2, <3>3
  <2> QED BY <1>6, <2>3, <2>4
<1>17. ContentInv'
  <2>1. ASSUME use_agc, OneSize'
        PROVE  /\ InLine(all_sizes[1])'
               /\ \A k \in 1..Len(passed') : passed'[k] = Delayed(k, DelayChunks * all_sizes'[1])
    <3>1. all_sizes'[1] = n /\ received' = R + n
      BY <1>4, <1>12, <2>1
    <3>2. \A j \in 1..DelayChunks, m \in 1..n :
            delay_line_'[j][m] = Delayed(received' + (j - 1) * n + m, DelayChunks * n)
      BY <1>16, <2>1, <3>1 DEF D
    <3>3. InLine(all_sizes[1])'
      BY <3>1, <3>2 DEF InLine
    <3>4. \A k \in 1..Len(passed') : passed'[k] = Delayed(k, DelayChunks * n)
      BY <1>15, <2>1 DEF D
    <3> QED BY <3>1, <3>3, <3>4
  <2> QED BY <1>5, <1>10, <1>11, <2>1 DEF ContentInv
<1> QED BY <1>2, <1>17 DEF PathInv

\* Nothing is in the line before the first chunk.
LEMMA PathInit == Init => PathInv
<1> SUFFICES ASSUME Init
             PROVE  PathInv
  OBVIOUS
<1>1. /\ delay_line_ = <<>> /\ all_sizes = <<>> /\ passed = <<>> /\ received = 0
      /\ overrun = FALSE
  BY DEF Init
<1>2. LineTypes /\ LineSizes /\ LineMatchesChunk
  BY <1>1 DEF LineTypes, LineSizes, LineMatchesChunk
<1>3. ContentInv
  BY <1>1 DEF ContentInv, OneSize
<1> QED BY <1>2, <1>3 DEF PathInv, LineInv

\* Steps that pass nothing on.
LEMMA PathStutters ==
  ASSUME PathInv, UNCHANGED <<use_agc, delay_line_, overrun, all_sizes, received, passed>>
  PROVE  PathInv'
BY DEF PathInv, LineInv, LineTypes, LineSizes, LineMatchesChunk, Behind, ContentInv, OneSize,
       InLine

\* Every step keeps the sizes and the contents of the line.
LEMMA PathStep ==
  ASSUME PathInv, [Next]_vars
  PROVE  PathInv'
<1> USE DEF configVars, agcVars, chunkVars
<1>1. ASSUME NEW ok \in BOOLEAN, StartStream(0, ok)
      PROVE  PathInv'
  <2>1. /\ PassOn(Samples(0)) /\ use_agc' = use_agc /\ all_sizes' = all_sizes
    BY <1>1 DEF StartStream
  <2>2. received \in Nat /\ passed \in Seq(Nat)
    BY DEF PathInv, LineInv, LineTypes, ContentInv
  <2>3. Samples(0) = <<>>
    BY DEF Samples
  <2>4. Len(Samples(0)) = 0
    BY <2>3
  <2>5. /\ UNCHANGED <<delay_line_, overrun>> /\ received' = received + 0
        /\ passed' = passed \o <<>>
    BY <2>1, <2>3, <2>4 DEF PassOn
  <2>6. received' = received /\ passed' = passed
    BY <2>2, <2>5
  <2> QED BY <2>1, <2>5, <2>6, PathStutters
<1>2. ASSUME NEW n \in Nat \ {0}, NEW ok \in BOOLEAN, StartStream(n, ok)
      PROVE  PathInv'
  BY <1>2, ChunkComesOut DEF StartStream
<1>3. ASSUME NEW n \in Nat \ {0}, LiveChunk(n)
      PROVE  PathInv'
  BY <1>3, ChunkComesOut DEF LiveChunk
<1>4. CASE (\E p \in Levels : Frame(p, TRUE)) \/ Frame(0, FALSE)
  BY <1>4, PathStutters DEF Frame
<1>5. CASE EndOfChunk \/ StopStream \/ UNCHANGED vars
  BY <1>5, PathStutters DEF EndOfChunk, StopStream, vars
<1>6. ChunkSizes \subseteq Nat \ {0}
  BY AudioAssumption DEF AudioAssumption
<1> QED BY <1>1, <1>2, <1>3, <1>4, <1>5, <1>6 DEF Next

\* The line holds what is to come, whatever streams start and end.
THEOREM PathInvariance == Spec => []PathInv
BY PathInit, PathStep, PTL DEF Spec

\* The AGC writes past the end of a chunk just when one is shorter than the one
\* DelayChunks before it.
THEOREM OverrunExplained == Spec => []LineMatchesChunk
<1>1. PathInv => LineMatchesChunk
  BY DEF PathInv, LineInv
<1> QED BY <1>1, PathInvariance, PTL

\* With chunks of one size the AGC loses, repeats and moves no sample.
THEOREM AgcIsADelay == Spec => []PureDelay
<1>1. ASSUME PathInv
      PROVE  PureDelay
  <2> DEFINE d == IF use_agc /\ all_sizes # <<>> THEN DelayChunks * all_sizes[1] ELSE 0
  <2> SUFFICES ASSUME (\A k \in DOMAIN all_sizes : all_sizes[k] = all_sizes[1]) \/ ~use_agc,
                      NEW k \in DOMAIN passed
               PROVE  passed[k] = IF k > d THEN k - d ELSE 0
    BY DEF PureDelay
  <2>1. /\ passed \in Seq(Nat) /\ k \in 1..Len(passed)
    BY <1>1 DEF PathInv, ContentInv
  <2>2. CASE ~use_agc
    <3>1. passed[k] = k /\ d = 0
      BY <1>1, <2>1, <2>2 DEF PathInv, ContentInv
    <3> QED BY <2>1, <3>1
  <2>3. CASE use_agc /\ all_sizes = <<>>
    <3>1. ~overrun
      BY <1>1, <2>3 DEF PathInv, LineInv, LineMatchesChunk
    <3>2. Len(passed) = 0
      BY <1>1, <2>3, <3>1 DEF PathInv, ContentInv
    <3> QED BY <2>1, <3>2
  <2>4. CASE use_agc /\ all_sizes # <<>>
    <3>1. OneSize
      BY <2>4 DEF OneSize
    <3>2. passed[k] = Delayed(k, DelayChunks * all_sizes[1])
      BY <1>1, <2>1, <2>4, <3>1 DEF PathInv, ContentInv
    <3>3. d = DelayChunks * all_sizes[1]
      BY <2>4
    <3> HIDE DEF d
    <3> QED BY <3>2, <3>3 DEF Delayed
  <2> QED BY <2>2, <2>3, <2>4
<1> QED BY <1>1, PathInvariance, PTL

-----------------------------------------------------------------------------
(***************************************************************************)
(* Types.                                                                  *)
(***************************************************************************)
\* The chunk and the place in it,
ChunkTypes ==
  /\ stream \in 0..MaxStreams /\ phase \in {"idle", "flush", "live"}
  /\ pcm_data \in Seq(Nat) /\ i \in 0..Len(pcm_data)
  /\ sliding_window_ \in [1..2*Hop -> Nat]

\* the averager and what it judged,
Averagers ==
  [window : [0..VadWindow-1 -> 0..100], head : 0..VadWindow-1, current_sum : Int,
   size : {VadWindow}]

JudgeTypes ==
  /\ vad_averager_ \in Averagers
  /\ voiced \in Seq(0..100)
  /\ last_voice \in 0..Len(voiced)

\* the flags and where the stream began.
FlagTypes ==
  /\ use_agc \in BOOLEAN /\ auth_enabled \in BOOLEAN
  /\ overrun \in BOOLEAN /\ checked \in BOOLEAN

BeganTypes == began \in [chunk : 0..Len(all_sizes), sample : 0..Len(passed)]

\* What comes out of the AGC is a chunk.
LEMMA PassOnChunk ==
  ASSUME PathInv, ~overrun, NEW n \in Nat, PassOn(Samples(n)), pcm_data \in Seq(Nat)
  PROVE  /\ pcm_data' \in Seq(Nat) /\ i' = 0
         /\ passed' \in Seq(Nat) /\ Len(passed') >= Len(passed)
         /\ overrun' = overrun \/ overrun' = TRUE
<1> DEFINE pcm == Samples(n)
<1>1. pcm \in Seq(Nat)
  <2>1. received \in Nat
    BY DEF PathInv, LineInv, LineTypes
  <2>2. pcm = [k \in 1..n |-> received + k]
    BY DEF Samples
  <2> HIDE DEF pcm
  <2> QED BY <2>1, <2>2
<1>2. passed \in Seq(Nat)
  BY DEF PathInv, ContentInv
<1>3. IF use_agc /\ pcm # <<>> /\ Overruns(delay_line_, pcm)
      THEN overrun' = TRUE /\ UNCHANGED <<pcm_data, passed>>
      ELSE /\ overrun' = overrun /\ passed' = passed \o pcm_data'
           /\ pcm_data' = IF use_agc /\ pcm # <<>> THEN Processed(delay_line_, pcm) ELSE pcm
  BY DEF PassOn
<1>4. i' = 0
  BY DEF PassOn
<1> HIDE DEF pcm
<1>5. ASSUME use_agc
      PROVE  Processed(delay_line_, pcm) \in Seq(Nat)
  <2>1. delay_line_ \in Seq(Seq(Nat)) /\ (delay_line_ = <<>> \/ Len(delay_line_) = DelayChunks)
    BY <1>5 DEF PathInv, LineInv, LineTypes, LineSizes
  <2>2. /\ Primed(delay_line_, pcm) \in Seq(Seq(Nat))
        /\ Len(Primed(delay_line_, pcm)) = DelayChunks
        /\ OutChunk(delay_line_, pcm) = Primed(delay_line_, pcm)[1]
    BY <1>1, <2>1, LineMoves
  <2>3. OutChunk(delay_line_, pcm) \in Seq(Nat)
    BY <2>2, DelayAssumption DEF DelayAssumption
  <2> QED BY <1>1, <2>3, ProcessedFits
<1>6. CASE use_agc /\ pcm # <<>> /\ Overruns(delay_line_, pcm)
  BY <1>2, <1>3, <1>4, <1>6
<1>7. CASE ~(use_agc /\ pcm # <<>> /\ Overruns(delay_line_, pcm))
  <2>1. pcm_data' \in Seq(Nat)
    BY <1>1, <1>3, <1>5, <1>7
  <2>2. PICK b \in Seq(Nat) : b = pcm_data'
    BY <2>1
  <2>3. passed \o b \in Seq(Nat) /\ Len(passed \o b) >= Len(passed)
    BY <1>2, <2>2
  <2> QED BY <1>3, <1>4, <1>7, <2>1, <2>2, <2>3
<1> QED BY <1>6, <1>7

\* A stream starts with or without a pre-roll.
LEMMA StartTypes ==
  ASSUME PathInv, ChunkTypes, JudgeTypes, FlagTypes, BeganTypes,
         NEW n \in Nat, NEW ok \in BOOLEAN, StartStream(n, ok)
  PROVE  (ChunkTypes /\ JudgeTypes /\ FlagTypes /\ BeganTypes)'
<1> USE DEF configVars
<1>1. /\ phase' = "flush" /\ stream < MaxStreams /\ stream' = stream + 1
      /\ sliding_window_' = Silence /\ last_voice' = 0 /\ voiced' = <<>>
      /\ vad_averager_' = Reset(vad_averager_, 0)
      /\ began' = [chunk |-> Len(all_sizes), sample |-> Len(passed)]
      /\ UNCHANGED <<use_agc, auth_enabled>>
  BY DEF StartStream, FreshWindow
<1>2. /\ pcm_data' \in Seq(Nat) /\ i' = 0
      /\ passed' \in Seq(Nat) /\ Len(passed') >= Len(passed)
      /\ overrun' = overrun \/ overrun' = TRUE
  BY PassOnChunk DEF StartStream, ChunkTypes
<1>3. ChunkTypes'
  <2>1. Silence \in [1..2*Hop -> Nat]
    BY DEF Silence, Zeros
  <2>2. stream' \in 0..MaxStreams
    BY <1>1, AudioAssumption DEF AudioAssumption, ChunkTypes
  <2> QED BY <1>1, <1>2, <2>1, <2>2 DEF ChunkTypes
<1>4. JudgeTypes'
  <2>1. vad_averager_' \in Averagers
    <3>1. vad_averager_ \in Averagers /\ VadWindow \in Nat
      BY AudioAssumption DEF AudioAssumption, JudgeTypes
    <3>2. vad_averager_.size = VadWindow /\ vad_averager_.head \in 0..VadWindow-1
      BY <3>1 DEF Averagers
    <3>3. vad_averager_' = [window |-> [k \in 0..VadWindow-1 |-> 0], head |-> vad_averager_.head,
                            current_sum |-> 0 * VadWindow, size |-> VadWindow]
      BY <1>1, <3>2 DEF Reset
    <3> QED BY <3>1, <3>2, <3>3 DEF Averagers
  <2> QED BY <1>1, <2>1 DEF JudgeTypes
<1>5. FlagTypes'
  <2>1. checked' \in BOOLEAN
    BY Zenon DEF StartStream
  <2>2. overrun' \in BOOLEAN
    BY <1>2, Zenon DEF FlagTypes
  <2> QED BY <1>1, <2>1, <2>2 DEF FlagTypes
<1>6. BeganTypes'
  <2>1. Len(all_sizes) \in Nat /\ Len(all_sizes') \in Nat /\ Len(all_sizes') >= Len(all_sizes)
    <3>1. all_sizes \in Seq(Nat \ {0})
      BY DEF PathInv, LineInv, LineTypes
    <3>2. all_sizes' = IF n > 0 THEN Append(all_sizes, n) ELSE all_sizes
      BY DEF StartStream
    <3> QED BY <3>1, <3>2
  <2>2. Len(passed) \in Nat /\ Len(passed') \in Nat
    BY <1>2 DEF PathInv, ContentInv
  <2>3. Len(all_sizes) \in 0..Len(all_sizes') /\ Len(passed) \in 0..Len(passed')
    BY <1>2, <2>1, <2>2
  <2> QED BY <1>1, <2>3 DEF BeganTypes
<1> QED BY <1>3, <1>4, <1>5, <1>6

\* A chunk comes while the stream is live.
LEMMA LiveTypes ==
  ASSUME PathInv, ChunkTypes, JudgeTypes, FlagTypes, BeganTypes,
         NEW n \in Nat, LiveChunk(n)
  PROVE  (ChunkTypes /\ JudgeTypes /\ FlagTypes /\ BeganTypes)'
<1> USE DEF configVars, vadVars
<1>1. UNCHANGED <<use_agc, auth_enabled, phase, stream, sliding_window_, vad_averager_,
                 last_voice, checked, began, voiced>>
  BY DEF LiveChunk
<1>2. /\ pcm_data' \in Seq(Nat) /\ i' = 0
      /\ passed' \in Seq(Nat) /\ Len(passed') >= Len(passed)
      /\ overrun' = overrun \/ overrun' = TRUE
  BY PassOnChunk DEF LiveChunk, ChunkTypes
<1>3. ChunkTypes' /\ JudgeTypes'
  BY <1>1, <1>2 DEF ChunkTypes, JudgeTypes
<1>4. FlagTypes'
  <2>1. overrun' \in BOOLEAN
    BY <1>2, Zenon DEF FlagTypes
  <2> QED BY <1>1, <2>1 DEF FlagTypes
<1>5. BeganTypes'
  <2>1. all_sizes \in Seq(Nat \ {0}) /\ passed \in Seq(Nat)
    BY DEF PathInv, LineInv, LineTypes, ContentInv
  <2>2. Len(all_sizes') = Len(all_sizes) + 1
    BY <2>1 DEF LiveChunk
  <2>3. \A k \in Int : /\ k \in 0..Len(all_sizes) => k \in 0..Len(all_sizes')
                       /\ k \in 0..Len(passed) => k \in 0..Len(passed')
    BY <1>2, <2>1, <2>2
  <2> QED BY <1>1, <2>1, <2>3 DEF BeganTypes
<1> QED BY <1>3, <1>4, <1>5

\* A frame is analysed inside the chunk.
LEMMA FrameTypes ==
  ASSUME NetInv, NetInv', ChunkTypes, JudgeTypes, FlagTypes, BeganTypes,
         NEW p \in 0..100, NEW ok \in BOOLEAN, Frame(p, ok)
  PROVE  (ChunkTypes /\ JudgeTypes /\ FlagTypes /\ BeganTypes)'
<1> USE DEF configVars, agcVars, chunkVars
<1>1. /\ i + Hop <= Len(pcm_data) /\ i' = i + Hop /\ Judge(network'.score)
      /\ sliding_window_' = SubSeq(sliding_window_, Hop + 1, 2 * Hop) \o NextHop
      /\ UNCHANGED <<use_agc, auth_enabled, phase, stream, overrun, pcm_data, checked,
                     all_sizes, passed, began>>
  BY DEF Frame, WholeHop
<1>2. Hop \in Nat /\ Hop > 0 /\ VadWindow \in Nat /\ VadWindow > 0
  BY AudioAssumption DEF AudioAssumption
<1>3. ChunkTypes'
  <2>1. sliding_window_ \in Seq(Nat) /\ Len(sliding_window_) = 2 * Hop
    BY <1>2 DEF ChunkTypes
  <2>2. /\ SubSeq(sliding_window_, Hop + 1, 2 * Hop) \in Seq(Nat)
        /\ Len(SubSeq(sliding_window_, Hop + 1, 2 * Hop)) = Hop
    BY <1>2, <2>1
  <2>3. NextHop \in Seq(Nat) /\ Len(NextHop) = Hop
    <3>1. PICK x \in Seq(Nat), k \in Nat : x = pcm_data /\ k = i /\ k + Hop <= Len(x)
      BY <1>1, <1>2 DEF ChunkTypes
    <3>2. SubSeq(x, k + 1, k + Hop) \in Seq(Nat) /\ Len(SubSeq(x, k + 1, k + Hop)) = Hop
      BY <1>2, <3>1
    <3> QED BY <3>1, <3>2 DEF NextHop
  <2>4. sliding_window_' \in Seq(Nat) /\ Len(sliding_window_') = 2 * Hop
    <3>1. PICK a \in Seq(Nat), b \in Seq(Nat) :
            a = SubSeq(sliding_window_, Hop + 1, 2 * Hop) /\ b = NextHop
      BY <2>2, <2>3
    <3>2. Hop = Len(a) /\ Hop = Len(b)
      BY <2>2, <2>3, <3>1
    <3>3. a \o b \in Seq(Nat) /\ Len(a \o b) = Hop + Hop
      BY ZenonT(60), <1>2, <3>2, ConcatPlaces
    <3> QED BY <1>1, <1>2, <3>1, <3>3
  <2>5. sliding_window_' \in [1..2*Hop -> Nat]
    BY <2>4
  <2>6. i' \in 0..Len(pcm_data)
    BY <1>1, <1>2 DEF ChunkTypes
  <2> QED BY <1>1, <2>5, <2>6 DEF ChunkTypes
<1>4. PICK q \in 0..100 : q = network'.score
  BY DEF NetInv, Nets
<1>5. vad_averager_' \in Averagers
  <2>1. /\ vad_averager_ \in Averagers /\ vad_averager_.size = VadWindow
        /\ vad_averager_.window \in [0..VadWindow-1 -> 0..100]
        /\ vad_averager_.head \in 0..VadWindow-1 /\ vad_averager_.current_sum \in Int
    BY DEF JudgeTypes, Averagers
  <2>2. /\ [vad_averager_.window EXCEPT ![vad_averager_.head] = q] \in [0..VadWindow-1 -> 0..100]
        /\ (vad_averager_.head + 1) % VadWindow \in 0..VadWindow-1
        /\ vad_averager_.current_sum - vad_averager_.window[vad_averager_.head] + q \in Int
    <3>1. [vad_averager_.window EXCEPT ![vad_averager_.head] = q] \in [0..VadWindow-1 -> 0..100]
      BY <1>4, <2>1
    <3>2. (vad_averager_.head + 1) % VadWindow \in 0..VadWindow-1
      BY <1>2, <2>1
    <3>3. vad_averager_.window[vad_averager_.head] \in 0..100
      BY <2>1
    <3>4. vad_averager_.current_sum - vad_averager_.window[vad_averager_.head] + q \in Int
      <4>1. PICK w \in Int : w = vad_averager_.window[vad_averager_.head]
        BY <3>3
      <4>2. PICK c \in Int : c = vad_averager_.current_sum
        BY <2>1
      <4>3. w \in Int /\ c \in Int /\ q \in Int
        BY <1>4, <4>1, <4>2
      <4>4. c - w + q \in Int
        BY <4>3
      <4> QED BY <4>1, <4>2, <4>4, Zenon
    <3> QED BY <3>1, <3>2, <3>4
  <2>3. Process(vad_averager_, q) \in Averagers
    BY <2>1, <2>2 DEF Process, Averagers
  <2> QED BY <1>1, <1>4, <2>1, <2>3 DEF Judge
<1>6. JudgeTypes'
  <2>1. voiced \in Seq(0..100) /\ last_voice \in 0..Len(voiced)
    BY DEF JudgeTypes
  <2>2. voiced' \in Seq(0..100) /\ Len(voiced') >= Len(voiced)
    <3>1. voiced' = Append(voiced, q) \/ voiced' = voiced
      BY <1>1, <1>4 DEF Judge
    <3>2. Append(voiced, q) \in Seq(0..100) /\ Len(Append(voiced, q)) = Len(voiced) + 1
      BY <2>1
    <3>3. Len(voiced) \in Nat
      BY <2>1
    <3>4. CASE voiced' = Append(voiced, q)
      BY <3>2, <3>3, <3>4
    <3>5. CASE voiced' = voiced
      BY <2>1, <3>3, <3>5
    <3> QED BY <3>1, <3>4, <3>5
  <2>3. last_voice' = last_voice \/ last_voice' = Len(voiced')
    BY <1>1 DEF Judge
  <2> QED BY <1>5, <2>1, <2>2, <2>3 DEF JudgeTypes
<1>7. FlagTypes' /\ BeganTypes'
  BY <1>1 DEF FlagTypes, BeganTypes
<1> QED BY <1>3, <1>6, <1>7

\* A chunk has been analysed, or the stream ends.
LEMMA EndTypes ==
  ASSUME ChunkTypes, JudgeTypes, FlagTypes, BeganTypes, EndOfChunk \/ StopStream
  PROVE  (ChunkTypes /\ JudgeTypes /\ FlagTypes /\ BeganTypes)'
<1> USE DEF configVars, agcVars, chunkVars
<1>1. /\ UNCHANGED <<use_agc, auth_enabled, stream, overrun, sliding_window_, last_voice,
                     checked, all_sizes, passed, began, voiced>>
      /\ phase' \in {"idle", "live"}
      /\ UNCHANGED <<pcm_data, i>> \/ (pcm_data' = <<>> /\ i' = 0)
      /\ vad_averager_' = vad_averager_ \/ vad_averager_' = Reset(vad_averager_, 100)
  BY DEF EndOfChunk, StopStream, vadVars
<1>2. ChunkTypes'
  <2>1. CASE UNCHANGED <<pcm_data, i>>
    BY <1>1, <2>1 DEF ChunkTypes
  <2>2. CASE pcm_data' = <<>> /\ i' = 0
    <3>1. pcm_data' \in Seq(Nat) /\ Len(pcm_data') = 0
      BY <2>2
    <3> QED BY <1>1, <2>2, <3>1 DEF ChunkTypes
  <2> QED BY <1>1, <2>1, <2>2
<1>3. vad_averager_' \in Averagers
  <2>1. vad_averager_ \in Averagers /\ VadWindow \in Nat
    BY AudioAssumption DEF AudioAssumption, JudgeTypes
  <2>2. vad_averager_.size = VadWindow /\ vad_averager_.head \in 0..VadWindow-1
    BY <2>1 DEF Averagers
  <2>3. Reset(vad_averager_, 100)
          = [window |-> [k \in 0..VadWindow-1 |-> 100], head |-> vad_averager_.head,
             current_sum |-> 100 * VadWindow, size |-> VadWindow]
    BY <2>2 DEF Reset
  <2>4. Reset(vad_averager_, 100) \in Averagers
    BY <2>1, <2>2, <2>3 DEF Averagers
  <2> QED BY <1>1, <2>1, <2>4
<1>4. JudgeTypes' /\ FlagTypes' /\ BeganTypes'
  BY <1>1, <1>3 DEF JudgeTypes, FlagTypes, BeganTypes
<1> QED BY <1>2, <1>4

Types == ChunkTypes /\ JudgeTypes /\ FlagTypes /\ BeganTypes

\* The types at the start.
LEMMA TypesInit == Init => Types
<1> SUFFICES ASSUME Init
             PROVE  Types
  OBVIOUS
<1>1. Hop \in Nat /\ VadWindow \in Nat /\ VadWindow > 0 /\ MaxStreams \in Nat
  BY AudioAssumption DEF AudioAssumption
<1>2. ChunkTypes
  <2>1. Silence \in [1..2*Hop -> Nat]
    BY DEF Silence, Zeros
  <2>2. 0 \in 0..MaxStreams /\ <<>> \in Seq(Nat) /\ 0 \in 0..Len(<<>>)
    BY <1>1
  <2> QED BY <2>1, <2>2 DEF Init, ChunkTypes
<1>3. JudgeTypes
  <2>1. NewAverager(VadWindow) \in Averagers
    BY <1>1 DEF NewAverager, Averagers
  <2>2. <<>> \in Seq(0..100) /\ 0 \in 0..Len(<<>>)
    OBVIOUS
  <2> QED BY <2>1, <2>2 DEF Init, JudgeTypes
<1>4. FlagTypes
  BY Zenon DEF Init, FlagTypes
<1>5. BeganTypes
  <2>1. /\ began = [chunk |-> 0, sample |-> 0] /\ Len(all_sizes) = 0 /\ Len(passed) = 0
    BY DEF Init
  <2> QED BY <2>1 DEF BeganTypes
<1> QED BY <1>2, <1>3, <1>4, <1>5 DEF Types

\* Every step keeps them.
LEMMA TypesStep ==
  ASSUME NetInv, PathInv, Types, [Next]_vars
  PROVE  Types'
<1> USE DEF Types
<1>1. ASSUME NEW n \in Nat, NEW ok \in BOOLEAN, StartStream(n, ok)
      PROVE  Types'
  BY <1>1, StartTypes
<1>2. ASSUME NEW n \in Nat, LiveChunk(n)
      PROVE  Types'
  BY <1>2, LiveTypes
<1>3. ASSUME NEW p \in 0..100, NEW ok \in BOOLEAN, Frame(p, ok)
      PROVE  Types'
  BY <1>3, FrameTypes, NetStep
<1>4. CASE EndOfChunk \/ StopStream
  BY <1>4, EndTypes
<1>5. CASE UNCHANGED vars
  BY <1>5 DEF vars, configVars, agcVars, vadVars, chunkVars, ChunkTypes, JudgeTypes, FlagTypes,
              BeganTypes
<1>6. CASE (\E p \in Levels : Frame(p, TRUE)) \/ Frame(0, FALSE)
  <2>1. 0 \in 0..100 /\ \A p \in Levels : p \in 0..100
    BY AudioAssumption DEF AudioAssumption
  <2>2. \E p \in 0..100, ok \in BOOLEAN : Frame(p, ok)
    BY <1>6, <2>1, Zenon
  <2> QED BY <1>3, <2>2
<1>7. \A n \in ChunkSizes \union {0} : n \in Nat
  BY AudioAssumption DEF AudioAssumption
<1>8. CASE (\E n \in ChunkSizes \union {0}, ok \in BOOLEAN : StartStream(n, ok))
           \/ \E n \in ChunkSizes : LiveChunk(n)
  BY <1>1, <1>2, <1>7, <1>8
<1> QED BY <1>4, <1>5, <1>6, <1>8 DEF Next

\* The type invariant; the analysis stays inside the chunk and the averager's head
\* inside its window.
THEOREM AudioTypes == Spec => []TypeOK
<1>1. NetInv /\ PathInv /\ Types => TypeOK
  <2> SUFFICES ASSUME NetInv, PathInv, Types PROVE TypeOK
    OBVIOUS
  <2>1. network \in Nets
    BY DEF NetInv
  <2>2. delay_line_ \in Seq(Seq(Nat)) /\ all_sizes \in Seq(Nat \ {0}) /\ received \in Nat
    BY DEF PathInv, LineInv, LineTypes
  <2>3. all_sizes \in Seq(Nat) /\ passed \in Seq(Nat)
    BY <2>2 DEF PathInv, ContentInv
  <2> HIDE DEF NetInv, PathInv
  <2> QED BY Zenon, <2>1, <2>2, <2>3
          DEF Types, ChunkTypes, JudgeTypes, Averagers, FlagTypes, BeganTypes, Nets, TypeOK
<1>2. Init => NetInv /\ PathInv /\ Types
  BY NetInit, PathInit, TypesInit
<1>3. NetInv /\ PathInv /\ Types /\ [Next]_vars => (NetInv /\ PathInv /\ Types)'
  BY NetStep, PathStep, TypesStep
<1> QED BY <1>1, <1>2, <1>3, PTL DEF Spec

-----------------------------------------------------------------------------
(***************************************************************************)
(* The clock of the session.                                               *)
(***************************************************************************)
\* From the end of the flush on the window holds the live answers, and voice before
\* the first.
ClockInv ==
  /\ phase = "flush" => voiced = <<>> /\ last_voice = 0
  /\ phase = "live" /\ NumClasses >= 3 => Holds(vad_averager_, VadWindow, voiced, 100)
  /\ VoiceClockCorrect

\* An answer is judged by the average it is the last of.
LEMMA VoiceJudged ==
  ASSUME NetInv', JudgeTypes, ClockInv, NEW p, NEW ok, Frame(p, ok)
  PROVE  ClockInv'
<1>1. /\ Judge(network'.score) /\ phase' = phase
  BY DEF Frame
<1>2. PICK q \in Int : q = network'.score /\ q \in 0..100
  BY DEF NetInv, Nets
<1>3. CASE phase # "live"
  <2>1. voiced' = voiced /\ last_voice' = last_voice
    BY <1>1, <1>3 DEF Judge
  <2> QED BY <1>1, <1>3, <2>1 DEF ClockInv, VoiceClockCorrect, Average
<1>4. CASE phase = "live" /\ ~(NumClasses >= 3)
  BY <1>1, <1>4 DEF ClockInv, VoiceClockCorrect
<1>5. CASE phase = "live" /\ NumClasses >= 3
  <2>1. PICK n \in Nat \ {0} : n = VadWindow
    BY AudioAssumption DEF AudioAssumption
  <2>2. PICK c \in Int : c = VadThreshold * n
    BY <2>1, AudioAssumption DEF AudioAssumption
  <2>3. voiced \in Seq(Int) /\ last_voice \in 0..Len(voiced) /\ 100 \in Int
    <3>1. voiced \in Seq(0..100) /\ last_voice \in 0..Len(voiced)
      BY DEF JudgeTypes
    <3>2. 0..100 \subseteq Int /\ 100 \in Int
      OBVIOUS
    <3>3. Seq(0..100) \subseteq Seq(Int)
      BY <3>2, SeqMonotonic
    <3> QED BY <3>1, <3>2, <3>3
  <2>4. PICK L \in Nat : L = Len(voiced)
    BY <2>3
  <2>5. /\ voiced' = Append(voiced, q) /\ Len(voiced') = L + 1
        /\ vad_averager_' = Process(vad_averager_, q)
        /\ last_voice' = IF vad_averager_'.current_sum > c THEN L + 1 ELSE last_voice
    BY <1>1, <1>2, <1>5, <2>1, <2>2, <2>3, <2>4 DEF Judge, VoiceHeard
  <2>6. Holds(vad_averager_', n, Append(voiced, q), 100)
    <3>1. Holds(vad_averager_, n, voiced, 100)
      BY <1>5, <2>1 DEF ClockInv
    <3>2. Holds(Process(vad_averager_, q), n, Append(voiced, q), 100)
      BY <1>2, <2>1, <2>3, <3>1, ProcessHolds, Zenon
    <3> QED BY <2>5, <3>2
  <2>7. Average(L + 1)' = vad_averager_'.current_sum
    BY <2>1, <2>4, <2>5, <2>6 DEF Average, Holds
  <2>8. ASSUME NEW k \in 1..L PROVE MovingSum(voiced', k, n, 100) = MovingSum(voiced, k, n, 100)
    <3>1. k \in 0..Len(voiced)
      BY <2>4
    <3> QED BY <1>2, <2>1, <2>3, <2>5, <3>1, MovingSumAppend
  <2>9. \A k \in 1..L : Average(k)' = Average(k)
    BY <2>1, <2>8 DEF Average
  <2>10. VoiceClockCorrect'
    <3>1. /\ last_voice = 0 \/ (last_voice \in 1..L /\ Average(last_voice) > c)
          /\ \A k \in 1..L : Average(k) > c => k <= last_voice
          /\ last_voice \in 0..L
      BY <1>5, <2>1, <2>2, <2>3, <2>4, SMTT(30) DEF ClockInv, VoiceClockCorrect
    <3>2. DOMAIN voiced' = 1..L+1
      BY <1>2, <2>3, <2>4, <2>5
    <3>3. CASE vad_averager_'.current_sum > c
      BY <2>1, <2>2, <2>4, <2>5, <2>7, <3>2, <3>3 DEF VoiceClockCorrect
    <3>4. CASE ~(vad_averager_'.current_sum > c)
      <4>1. last_voice' = last_voice
        BY <2>5, <3>4
      <4>2. PICK v \in 0..L : v = last_voice
        BY <3>1
      <4>3. v = 0 \/ (v \in 1..L+1 /\ Average(v)' > c)
        BY <2>4, <2>9, <3>1, <4>2
      <4>4. \A k \in 1..L+1 : Average(k)' > c => k <= v
        BY <2>4, <2>7, <2>9, <3>1, <3>4, <4>2
      <4>5. last_voice' = v
        BY <4>1, <4>2
      <4> QED BY <2>1, <2>2, <3>2, <4>3, <4>4, <4>5 DEF VoiceClockCorrect
    <3> QED BY <3>3, <3>4
  <2> QED BY <1>1, <1>5, <2>1, <2>5, <2>6, <2>10 DEF ClockInv
<1> QED BY <1>3, <1>4, <1>5

LEMMA PercentsAreNumbers ==
  ASSUME NEW n \in Nat, NEW f \in [0..n-1 -> 0..100]
  PROVE  f \in [0..n-1 -> Int]
<1>1. f = [k \in 0..n-1 |-> f[k]]
  OBVIOUS
<1>2. \A k \in 0..n-1 : f[k] \in 0..100
  OBVIOUS
<1>3. 0..100 \subseteq Int
  OBVIOUS
<1>4. \A k \in 0..n-1 : f[k] \in Int
  BY <1>2, <1>3, Zenon
<1> QED BY <1>1, <1>4

\* The other steps judge nothing.
LEMMA ClockStep ==
  ASSUME NetInv', ChunkTypes, JudgeTypes, ClockInv, [Next]_vars
  PROVE  ClockInv'
<1>1. ASSUME NEW n, NEW ok, StartStream(n, ok) PROVE ClockInv'
  <2>1. voiced' = <<>> /\ last_voice' = 0 /\ phase' = "flush"
    BY <1>1 DEF StartStream
  <2> QED BY <2>1 DEF ClockInv, VoiceClockCorrect
<1>2. ASSUME UNCHANGED <<vad_averager_, last_voice, voiced>>, phase' # "flush",
             phase' = "live" => phase = "live"
      PROVE  ClockInv'
  BY <1>2 DEF ClockInv, VoiceClockCorrect, Average
<1>3. CASE StopStream \/ (\E n \in ChunkSizes : LiveChunk(n))
  BY <1>2, <1>3 DEF StopStream, LiveChunk, vadVars
<1>4. CASE EndOfChunk
  <2>1. CASE phase = "live"
    BY <1>2, <1>4, <2>1 DEF EndOfChunk
  <2>2. CASE phase = "flush"
    <3>1. /\ voiced' = <<>> /\ last_voice' = 0 /\ phase' = "live"
          /\ vad_averager_' = Reset(vad_averager_, 100)
      BY <1>4, <2>2 DEF EndOfChunk, ClockInv
    <3>2. PICK n \in Nat \ {0} : n = VadWindow
      BY AudioAssumption DEF AudioAssumption
    <3>3. vad_averager_ \in IntAveragers(n) /\ 100 \in Int
      <4>1. \A f \in [0..n-1 -> 0..100] : f \in [0..n-1 -> Int]
        BY <3>2, PercentsAreNumbers
      <4>2. vad_averager_ \in [window : [0..n-1 -> 0..100], head : 0..n-1, current_sum : Int,
                               size : {n}]
        BY <3>2 DEF JudgeTypes, Averagers
      <4> QED BY <4>1, <4>2 DEF IntAveragers
    <3>4. Holds(Reset(vad_averager_, 100), n, <<>>, 100)
      BY <3>2, <3>3, ResetHolds, Zenon
    <3>5. Holds(vad_averager_', VadWindow, voiced', 100)
      BY <3>1, <3>2, <3>4
    <3> QED BY <3>1, <3>5 DEF ClockInv, VoiceClockCorrect
  <2>3. phase \in {"flush", "live"}
    BY <1>4 DEF EndOfChunk, ChunkTypes
  <2> QED BY <2>1, <2>2, <2>3
<1>5. CASE UNCHANGED vars
  BY <1>5 DEF vars, vadVars, ClockInv, VoiceClockCorrect, Average
<1>6. CASE (\E p \in Levels : Frame(p, TRUE)) \/ Frame(0, FALSE)
  BY <1>6, VoiceJudged
<1> QED BY <1>1, <1>3, <1>4, <1>5, <1>6 DEF Next

\* The session's last voice time is that of the last live frame at which the moving
\* average was above the threshold, for windows and streams of any length.
THEOREM ClockCorrect == Spec => []VoiceClockCorrect
<1>1. Init => ClockInv
  BY DEF Init, ClockInv, VoiceClockCorrect
<1>2. Init => NetInv /\ PathInv /\ Types
  BY NetInit, PathInit, TypesInit
<1>3. NetInv /\ PathInv /\ Types /\ [Next]_vars => (NetInv /\ PathInv /\ Types)'
  BY NetStep, PathStep, TypesStep
<1>4. NetInv' /\ Types /\ ClockInv /\ [Next]_vars => ClockInv'
  BY ClockStep DEF Types
<1>5. ClockInv => VoiceClockCorrect
  BY DEF ClockInv
<1> QED BY <1>1, <1>2, <1>3, <1>4, <1>5, PTL DEF Spec

-----------------------------------------------------------------------------
(***************************************************************************)
(* The window of two hops.                                                 *)
(***************************************************************************)
\* This stream's chunks are made of whole hops.
WholeHops == \A k \in began.chunk+1..Len(all_sizes) : all_sizes[k] % Hop = 0

\* What of the output has been analysed.
Analysed == Len(passed) - (Len(pcm_data) - i)

\* The chunk at work is the end of the output, and all of it is this stream's,
TailInv ==
  /\ phase = "idle" => pcm_data = <<>>
  /\ began.sample + Len(pcm_data) <= Len(passed)
  /\ \A k \in 1..Len(pcm_data) : pcm_data[k] = passed[Len(passed) - Len(pcm_data) + k]

\* what is left of it is made of whole hops,
HopInv == WholeHops => (Len(pcm_data) - i) % Hop = 0

\* and the window is, place by place, the last of what was analysed, with silence before
\* the stream: w is that of s, from b to e, for hops of h.
ByPlaces(w, s, b, e, h) ==
  \A m \in 1..2*h : w[m] = IF e - 2 * h + m > b THEN s[e - 2 * h + m] ELSE 0

WindowInv == WholeHops => ByPlaces(sliding_window_, passed, began.sample, Analysed, Hop)

ContiguousInv == TailInv /\ HopInv /\ WindowInv

\* A part of a sequence, place by place.
LEMMA SubSeqPlaces ==
  ASSUME NEW s \in Seq(Nat), NEW b \in Nat, NEW e \in Nat, b <= e, e <= Len(s)
  PROVE  /\ SubSeq(s, b + 1, e) \in Seq(Nat) /\ Len(SubSeq(s, b + 1, e)) = e - b
         /\ \A k \in 1..e-b : SubSeq(s, b + 1, e)[k] = s[b + k]
OBVIOUS

\* A sequence is a function on its places.
LEMMA SeqIsFunction ==
  ASSUME NEW s \in Seq(Nat), NEW r \in Nat, Len(s) = r
  PROVE  s \in [1..r -> Nat]
BY LenProperties

\* And the other way round.
LEMMA FunctionIsSeq ==
  ASSUME NEW r \in Nat, NEW w \in [1..r -> Nat]
  PROVE  w \in Seq(Nat) /\ Len(w) = r
OBVIOUS

\* A window of two hops of h: the last of what was analysed of s, from b to e, and of the
\* silence before it.
WindowOf(s, b, e, h) ==
  LET audio == Zeros(2 * h) \o SubSeq(s, b + 1, e)
  IN  SubSeq(audio, Len(audio) - 2 * h + 1, Len(audio))

LEMMA WindowByPlaces ==
  ASSUME NEW s \in Seq(Nat), NEW b \in Nat, NEW e \in Nat, NEW h \in Nat \ {0},
         b <= e, e <= Len(s), NEW w \in [1..2*h -> Nat], ByPlaces(w, s, b, e, h)
  PROVE  w = WindowOf(s, b, e, h)
<1>1. 2 * h \in Nat /\ e - b \in Nat
  OBVIOUS
<1>2. PICK r \in Nat, n \in Nat : r = 2 * h /\ n = e - b
  BY <1>1
<1>3. PICK z : z = Zeros(r)
  OBVIOUS
<1>4. z \in Seq(Nat) /\ Len(z) = r /\ \A k \in 1..r : z[k] = 0
  BY <1>2, <1>3 DEF Zeros
<1>5. PICK a : a = SubSeq(s, b + 1, e)
  OBVIOUS
<1>6. a \in Seq(Nat) /\ Len(a) = n /\ \A k \in 1..n : a[k] = s[b + k]
  BY <1>2, <1>5, SubSeqPlaces, SMTT(30)
<1>7. PICK x : x = z \o a
  OBVIOUS
<1>8. /\ x \in Seq(Nat) /\ Len(x) = r + n
      /\ \A k \in 1..r : x[k] = z[k]
      /\ \A k \in r+1..r+n : x[k] = a[k - r]
  <2>1. /\ z \in Seq(Nat) /\ r \in Nat /\ r = Len(z)
        /\ a \in Seq(Nat) /\ n \in Nat /\ n = Len(a)
    BY <1>2, <1>4, <1>6
  <2>2. /\ z \o a \in Seq(Nat) /\ Len(z \o a) = r + n
        /\ \A k \in 1..r : (z \o a)[k] = z[k]
        /\ \A k \in r+1..r+n : (z \o a)[k] = a[k - r]
    BY <2>1, ConcatPlaces
  <2> QED BY <1>7, <2>2
<1>9. PICK y : y = SubSeq(x, n + 1, r + n)
  OBVIOUS
<1>10. y \in Seq(Nat) /\ Len(y) = r /\ \A m \in 1..r : y[m] = x[n + m]
  <2>1. PICK f \in Nat : f = r + n
    BY <1>2
  <2>2. n <= f /\ f <= Len(x) /\ f - n = r
    BY <1>2, <1>8, <2>1
  <2>3. /\ SubSeq(x, n + 1, f) \in Seq(Nat) /\ Len(SubSeq(x, n + 1, f)) = f - n
        /\ \A k \in 1..f-n : SubSeq(x, n + 1, f)[k] = x[n + k]
    BY <1>2, <1>8, <2>1, <2>2, SubSeqPlaces, SMTT(30)
  <2> QED BY <1>9, <2>1, <2>2, <2>3
<1>11. ASSUME NEW m \in 1..r PROVE w[m] = y[m]
  <2>1. w[m] = IF e - r + m > b THEN s[e - r + m] ELSE 0
    BY <1>2, <1>11 DEF ByPlaces
  <2>2. n + m \in 1..r+n
    BY <1>2, <1>11
  <2>3. CASE n + m <= r
    <3>1. x[n + m] = 0
      <4>1. n + m \in 1..r
        BY <1>2, <1>11, <2>3
      <4>2. PICK k \in 1..r : k = n + m
        BY <4>1, Zenon
      <4> QED BY <1>4, <1>8, <4>2
    <3>2. ~(e - r + m > b)
      BY <1>2, <1>11, <2>3
    <3>3. w[m] = 0
      BY <2>1, <3>2
    <3>4. y[m] = x[n + m]
      BY <1>10, <1>11
    <3> QED BY <3>1, <3>3, <3>4
  <2>4. CASE n + m > r
    <3>1. n + m - r \in 1..n
      BY <1>2, <1>11, <2>4
    <3>2. PICK k \in 1..n : k = n + m - r
      BY <3>1, Zenon
    <3>3. x[n + m] = a[k] /\ a[k] = s[b + k]
      <4>1. PICK l \in r+1..r+n : l = n + m
        BY <1>2, <1>11, <2>2, <2>4
      <4>2. l - r = k
        BY <1>2, <1>11, <3>2, <4>1
      <4> QED BY <1>6, <1>8, <3>2, <4>1, <4>2
    <3>4. b + k = e - r + m
      BY <1>2, <1>11, <3>2
    <3>5. e - r + m > b
      BY <1>2, <1>11, <2>4
    <3> QED BY <1>10, <1>11, <2>1, <3>3, <3>4, <3>5
  <2> QED BY <1>2, <1>11, <2>3, <2>4
<1>12. w \in [1..r -> Nat] /\ y \in [1..r -> Nat]
  <2>1. y \in [1..r -> Nat]
    BY <1>2, <1>10, SeqIsFunction
  <2>2. w \in [1..r -> Nat]
    BY <1>2, Zenon
  <2> QED BY <2>1, <2>2
<1>13. w = y
  BY <1>11, <1>12
<1>14. Len(x) - 2 * h + 1 = n + 1 /\ Len(x) = r + n
  BY <1>2, <1>8
<1> QED BY <1>2, <1>3, <1>5, <1>7, <1>9, <1>13, <1>14 DEF WindowOf

\* So the window is where the property says.
LEMMA WindowInPlace ==
  ASSUME Types, PathInv, ContiguousInv
  PROVE  WindowContiguous
<1> SUFFICES ASSUME WholeHops
             PROVE  sliding_window_ = WindowOf(passed, began.sample, Analysed, Hop)
  BY Zenon DEF WindowContiguous, WholeHops, Analysed, WindowOf, Silence
<1>1. PICK s \in Seq(Nat), h \in Nat \ {0} : s = passed /\ h = Hop
  BY AudioAssumption DEF AudioAssumption, PathInv, ContentInv
<1>2. sliding_window_ \in [1..2*h -> Nat]
  BY <1>1 DEF Types, ChunkTypes
<1>3. PICK b \in Nat, e \in Nat : b = began.sample /\ e = Analysed /\ b <= e /\ e <= Len(s)
  <2>1. began.sample \in Nat
    BY <1>1 DEF Types, BeganTypes
  <2>2. Analysed \in Nat /\ began.sample <= Analysed /\ Analysed <= Len(s)
    BY <1>1, <2>1, SMTT(30) DEF Types, ChunkTypes, ContiguousInv, TailInv, Analysed
  <2> QED BY <2>1, <2>2, Zenon
<1>4. ByPlaces(sliding_window_, s, b, e, h)
  BY <1>1, <1>3 DEF ContiguousInv, WindowInv
<1>5. sliding_window_ = WindowOf(s, b, e, h)
  BY <1>1, <1>2, <1>3, <1>4, WindowByPlaces
<1> QED BY <1>1, <1>3, <1>5

\* What is passed on becomes the chunk at work, or, past the end of a chunk, nothing.
LEMMA PassOnTail ==
  ASSUME PathInv, ~overrun, NEW n \in Nat, PassOn(Samples(n)), pcm_data = <<>>
  PROVE  /\ pcm_data' \in Seq(Nat) /\ i' = 0
         /\ Len(pcm_data') \in {0, n}
         /\ passed' \in Seq(Nat) /\ Len(passed') = Len(passed) + Len(pcm_data')
         /\ \A k \in 1..Len(passed) : passed'[k] = passed[k]
         /\ \A k \in 1..Len(pcm_data') : passed'[Len(passed) + k] = pcm_data'[k]
<1> DEFINE pcm == Samples(n)
<1>1. pcm \in Seq(Nat) /\ Len(pcm) = n
  <2>1. received \in Nat
    BY DEF PathInv, LineInv, LineTypes
  <2>2. pcm = [k \in 1..n |-> received + k]
    BY DEF Samples
  <2> HIDE DEF pcm
  <2> QED BY <2>1, <2>2
<1>2. passed \in Seq(Nat) /\ i' = 0
  BY DEF PathInv, ContentInv, PassOn
<1>3. IF use_agc /\ pcm # <<>> /\ Overruns(delay_line_, pcm)
      THEN UNCHANGED <<pcm_data, passed>>
      ELSE /\ passed' = passed \o pcm_data'
           /\ pcm_data' = IF use_agc /\ pcm # <<>> THEN Processed(delay_line_, pcm) ELSE pcm
  BY DEF PassOn
<1> HIDE DEF pcm
<1>4. ASSUME use_agc
      PROVE  Processed(delay_line_, pcm) \in Seq(Nat) /\ Len(Processed(delay_line_, pcm)) = n
  <2>1. delay_line_ \in Seq(Seq(Nat)) /\ (delay_line_ = <<>> \/ Len(delay_line_) = DelayChunks)
    BY <1>4 DEF PathInv, LineInv, LineTypes, LineSizes
  <2>2. /\ Primed(delay_line_, pcm) \in Seq(Seq(Nat))
        /\ Len(Primed(delay_line_, pcm)) = DelayChunks
        /\ OutChunk(delay_line_, pcm) = Primed(delay_line_, pcm)[1]
    BY <1>1, <2>1, LineMoves
  <2>3. OutChunk(delay_line_, pcm) \in Seq(Nat)
    BY <2>2, DelayAssumption DEF DelayAssumption
  <2> QED BY <1>1, <2>3, ProcessedFits
<1>5. CASE use_agc /\ pcm # <<>> /\ Overruns(delay_line_, pcm)
  BY <1>2, <1>3, <1>5
<1>6. CASE ~(use_agc /\ pcm # <<>> /\ Overruns(delay_line_, pcm))
  <2>1. pcm_data' \in Seq(Nat) /\ Len(pcm_data') = n
    BY <1>1, <1>3, <1>4, <1>6
  <2>2. PICK c \in Seq(Nat), r \in Nat : c = pcm_data' /\ Len(c) = n /\ r = Len(passed)
    BY <1>2, <2>1
  <2>3. /\ passed \o c \in Seq(Nat) /\ Len(passed \o c) = r + n
        /\ \A k \in 1..r : (passed \o c)[k] = passed[k]
        /\ \A k \in r+1..r+n : (passed \o c)[k] = c[k - r]
    <3>1. passed \in Seq(Nat) /\ r = Len(passed) /\ n = Len(c)
      BY <1>2, <2>2
    <3>2. /\ passed \o c \in Seq(Nat) /\ Len(passed \o c) = Len(passed) + Len(c)
          /\ \A k \in 1..Len(passed) : (passed \o c)[k] = passed[k]
          /\ \A k \in Len(passed)+1..Len(passed)+Len(c) : (passed \o c)[k] = c[k - Len(passed)]
      BY <2>2, <3>1, ConcatByPlaces, Zenon
    <3> QED BY <3>1, <3>2, Zenon
  <2>4. \A k \in 1..n : (passed \o c)[r + k] = c[k]
    <3> SUFFICES ASSUME NEW k \in 1..n PROVE (passed \o c)[r + k] = c[k]
      OBVIOUS
    <3>1. PICK m \in r+1..r+n : m = r + k
      BY <2>2
    <3>2. m - r = k
      BY <2>2, <3>1
    <3> QED BY <2>3, <3>1, <3>2
  <2>5. passed' = passed \o c
    BY <1>3, <1>6, <2>2
  <2> QED BY <1>2, <2>1, <2>2, <2>3, <2>4, <2>5
<1> QED BY <1>5, <1>6

\* What is left of a chunk, less a hop.
LEMMA HopsLeft ==
  ASSUME NEW h \in Nat \ {0}, NEW x \in Nat
  PROVE  /\ x < h /\ x % h = 0 => x = 0
         /\ x >= h /\ x % h = 0 => (x - h) % h = 0
<1>1. ASSUME NEW q \in Int, NEW r \in 0..h-1 PROVE (q * h + r) % h = r
  OBVIOUS
<1>2. x = (x \div h) * h + (x % h) /\ x \div h \in Int /\ (x % h) \in 0..h-1
  OBVIOUS
<1>3. PICK q \in Int, r \in 0..h-1 : q = x \div h /\ r = x % h /\ x = q * h + r
  BY <1>2
<1>4. x - h = (q - 1) * h + r
  BY <1>3
<1>5. ((q - 1) * h + r) % h = r
  <2>1. q - 1 \in Int
    BY <1>3
  <2> QED BY <1>1, <1>3, <2>1
<1>6. x < h => x % h = x
  OBVIOUS
<1> QED BY <1>3, <1>4, <1>5, <1>6

\* More output leaves the window where it was;
LEMMA OutputGrows ==
  ASSUME NEW s \in Seq(Nat), NEW t \in Seq(Nat), \A k \in 1..Len(s) : t[k] = s[k],
         NEW b \in Nat, NEW e \in Nat, e <= Len(s), NEW h \in Nat \ {0},
         NEW w, ByPlaces(w, s, b, e, h)
  PROVE  ByPlaces(w, t, b, e, h)
<1> SUFFICES ASSUME NEW m \in 1..2*h
             PROVE  w[m] = IF e - 2 * h + m > b THEN t[e - 2 * h + m] ELSE 0
  BY DEF ByPlaces
<1>1. w[m] = IF e - 2 * h + m > b THEN s[e - 2 * h + m] ELSE 0
  BY DEF ByPlaces
<1>2. ASSUME e - 2 * h + m > b PROVE t[e - 2 * h + m] = s[e - 2 * h + m]
  <2>1. e - 2 * h + m \in 1..Len(s)
    BY <1>2
  <2> QED BY <2>1
<1> QED BY <1>1, <1>2

\* two sequences one after the other, place by place;
LEMMA Joined ==
  ASSUME NEW x \in Seq(Nat), NEW y \in Seq(Nat)
  PROVE  /\ \A k \in 1..Len(x) : (x \o y)[k] = x[k]
         /\ \A k \in Len(x)+1..Len(x)+Len(y) : (x \o y)[k] = y[k - Len(x)]
<1>1. \A k \in 1..Len(x) : (x \o y)[k] = x[k]
  OBVIOUS
<1>2. \A k \in Len(x)+1..Len(x)+Len(y) : (x \o y)[k] = y[k - Len(x)]
  OBVIOUS
<1> QED BY <1>1, <1>2

\* with the next hop of the output it moves on by a hop.
LEMMA WindowMoves ==
  ASSUME NEW s \in Seq(Nat), NEW b \in Nat, NEW e \in Nat, NEW h \in Nat \ {0},
         b <= e, NEW w \in [1..2*h -> Nat], ByPlaces(w, s, b, e, h),
         NEW c \in Seq(Nat), NEW j \in Nat, j + h <= Len(c),
         \A k \in 1..h : c[j + k] = s[e + k]
  PROVE  ByPlaces(SubSeq(w, h + 1, 2 * h) \o SubSeq(c, j + 1, j + h), s, b, e + h, h)
<1>1. PICK r \in Nat, f \in Nat : r = 2 * h /\ f = j + h
  OBVIOUS
<1>2. w \in Seq(Nat) /\ Len(w) = r
  <2>1. w \in [1..r -> Nat]
    BY <1>1, Zenon
  <2> QED BY <1>1, <2>1, FunctionIsSeq, Zenon
<1>3. PICK x : x = SubSeq(w, h + 1, r)
  OBVIOUS
<1>4. x \in Seq(Nat) /\ Len(x) = h /\ \A k \in 1..h : x[k] = w[h + k]
  <2>1. h <= r /\ r <= Len(w) /\ r - h = h /\ h \in Nat
    BY <1>1, <1>2
  <2>2. /\ SubSeq(w, h + 1, r) \in Seq(Nat) /\ Len(SubSeq(w, h + 1, r)) = r - h
        /\ \A k \in 1..r-h : SubSeq(w, h + 1, r)[k] = w[h + k]
    BY <1>1, <1>2, <2>1, SubSeqPlaces, Zenon
  <2> QED BY <1>3, <2>1, <2>2
<1>5. PICK y : y = SubSeq(c, j + 1, f)
  OBVIOUS
<1>6. y \in Seq(Nat) /\ Len(y) = h /\ \A k \in 1..h : y[k] = c[j + k]
  <2>1. j <= f /\ f <= Len(c) /\ f - j = h
    BY <1>1
  <2>2. /\ SubSeq(c, j + 1, f) \in Seq(Nat) /\ Len(SubSeq(c, j + 1, f)) = f - j
        /\ \A k \in 1..f-j : SubSeq(c, j + 1, f)[k] = c[j + k]
    BY <1>1, <2>1, SubSeqPlaces, ZenonT(60)
  <2> QED BY <1>5, <2>1, <2>2
<1>7. PICK z : z = x \o y
  OBVIOUS
<1>8. (\A m \in 1..h : z[m] = x[m]) /\ \A m \in h+1..h+h : z[m] = y[m - h]
  <2>1. x \in Seq(Nat) /\ y \in Seq(Nat)
    BY <1>4, <1>6
  <2>2. /\ \A k \in 1..Len(x) : z[k] = x[k]
        /\ \A k \in Len(x)+1..Len(x)+Len(y) : z[k] = y[k - Len(x)]
    BY <1>7, <2>1, Joined, Zenon
  <2> QED BY <1>4, <1>6, <2>2
<1>9. ASSUME NEW m \in 1..2*h
      PROVE  z[m] = IF e + h - 2 * h + m > b THEN s[e + h - 2 * h + m] ELSE 0
  <2>1. CASE m <= h
    <3>1. z[m] = w[h + m]
      <4>1. m \in 1..h
        BY <1>9, <2>1
      <4>2. z[m] = x[m] /\ x[m] = w[h + m]
        BY <1>4, <1>8, <4>1
      <4> QED BY <4>2
    <3>2. PICK k \in 1..2*h : k = h + m
      BY <1>9, <2>1
    <3>3. w[k] = IF e - 2 * h + k > b THEN s[e - 2 * h + k] ELSE 0
      BY DEF ByPlaces
    <3>4. e - 2 * h + k = e + h - 2 * h + m
      BY <1>9, <3>2
    <3> QED BY <3>1, <3>2, <3>3, <3>4
  <2>2. CASE m > h
    <3>1. PICK k \in 1..h : k = m - h
      BY <1>9, <2>2
    <3>2. z[m] = s[e + k]
      <4>1. m \in h+1..h+h
        BY <1>9, <2>2
      <4> QED BY <1>6, <1>8, <3>1, <4>1
    <3>3. e + h - 2 * h + m = e + k /\ e + k > b
      BY <1>9, <3>1
    <3> QED BY <3>2, <3>3
  <2> QED BY <1>9, <2>1, <2>2
<1>10. ByPlaces(z, s, b, e + h, h)
  BY <1>9 DEF ByPlaces
<1> QED BY <1>1, <1>3, <1>5, <1>7, <1>10

\* A chunk that comes into an empty buffer, in this stream or at the start of it.
LEMMA ChunkContiguous ==
  ASSUME PathInv, TailInv, ~overrun, NEW n \in Nat, PassOn(Samples(n)), pcm_data = <<>>,
         phase' # "idle", NEW b \in Nat, b = began'.sample, b <= Len(passed),
         WholeHops' => n % Hop = 0 /\ ByPlaces(sliding_window_', passed, b, Len(passed), Hop)
  PROVE  ContiguousInv'
<1>1. /\ pcm_data' \in Seq(Nat) /\ i' = 0
      /\ Len(pcm_data') \in {0, n}
      /\ passed' \in Seq(Nat) /\ Len(passed') = Len(passed) + Len(pcm_data')
      /\ \A k \in 1..Len(passed) : passed'[k] = passed[k]
      /\ \A k \in 1..Len(pcm_data') : passed'[Len(passed) + k] = pcm_data'[k]
  BY PassOnTail
<1>2. PICK s \in Seq(Nat), t \in Seq(Nat), c \in Seq(Nat), e \in Nat :
        s = passed /\ t = passed' /\ c = pcm_data' /\ e = Len(s)
  <2>1. passed \in Seq(Nat) /\ Len(passed) \in Nat
    BY DEF PathInv, ContentInv
  <2> QED BY <1>1, <2>1, Zenon
<1>3. PICK h \in Nat \ {0} : h = Hop
  BY AudioAssumption DEF AudioAssumption
<1>4. TailInv'
  <2>1. b + Len(c) <= Len(t) /\ Len(t) - Len(c) = e
    BY <1>1, <1>2
  <2>2. \A k \in 1..Len(c) : c[k] = t[Len(t) - Len(c) + k]
    BY <1>1, <1>2, <2>1
  <2> QED BY <1>2, <2>1, <2>2 DEF TailInv
<1>5. HopInv'
  <2>1. Len(c) = 0 => Len(c) % h = 0
    BY <1>2
  <2>2. WholeHops' => Len(c) % h = 0
    BY <1>1, <1>2, <1>3, <2>1
  <2>3. Len(c) - 0 = Len(c)
    BY <1>2
  <2> QED BY <1>1, <1>2, <1>3, <2>2, <2>3 DEF HopInv
<1>6. WindowInv'
  <2>1. Analysed' = e
    BY <1>1, <1>2 DEF Analysed
  <2>2. ASSUME WholeHops' PROVE ByPlaces(sliding_window_', t, b, e, h)
    <3>1. ByPlaces(sliding_window_', s, b, e, h)
      BY <1>2, <1>3, <2>2
    <3>2. PICK w : w = sliding_window_'
      OBVIOUS
    <3>3. (\A k \in 1..Len(s) : t[k] = s[k]) /\ e <= Len(s)
      BY <1>1, <1>2
    <3>4. ByPlaces(w, t, b, e, h)
      BY <1>2, <1>3, <3>1, <3>2, <3>3, OutputGrows
    <3> QED BY <3>2, <3>4
  <2> QED BY <1>2, <1>3, <2>1, <2>2 DEF WindowInv
<1> QED BY <1>4, <1>5, <1>6 DEF ContiguousInv

\* A stream starts with a window of silence.
LEMMA StartContiguous ==
  ASSUME PathInv, Types, ContiguousInv, NEW n \in Nat, NEW ok, StartStream(n, ok)
  PROVE  ContiguousInv'
<1>1. /\ phase = "idle" /\ ~overrun /\ phase' = "flush"
      /\ PassOn(Samples(n))
      /\ sliding_window_' = Zeros(2 * Hop)
      /\ all_sizes' = IF n > 0 THEN Append(all_sizes, n) ELSE all_sizes
      /\ began' = [chunk |-> Len(all_sizes), sample |-> Len(passed)]
  BY DEF StartStream, FreshWindow, Silence
<1>2. TailInv /\ pcm_data = <<>>
  BY <1>1 DEF ContiguousInv, TailInv
<1>3. PICK b \in Nat : b = Len(passed)
  BY DEF PathInv, ContentInv
<1>4. PICK h \in Nat \ {0} : h = Hop
  BY AudioAssumption DEF AudioAssumption
<1>5. b = began'.sample /\ began'.chunk = Len(all_sizes)
  BY <1>1, <1>3
<1>6. ASSUME WholeHops' PROVE n % h = 0
  <2>1. CASE n = 0
    BY <2>1
  <2>2. CASE n > 0
    <3>1. PICK a \in Seq(Nat) : a = all_sizes
      BY DEF PathInv, LineInv, LineTypes
    <3>2. PICK l \in Nat : l = Len(a)
      BY <3>1
    <3>3. all_sizes' = Append(a, n) /\ Len(Append(a, n)) = l + 1 /\ Append(a, n)[l + 1] = n
      BY <1>1, <2>2, <3>1, <3>2
    <3>4. \A k \in l+1..l+1 : all_sizes'[k] % h = 0
      BY <1>4, <1>5, <1>6, <3>1, <3>2, <3>3 DEF WholeHops
    <3> QED BY <3>2, <3>3, <3>4
  <2> QED BY <2>1, <2>2
<1>7. ByPlaces(sliding_window_', passed, b, b, h)
  <2>1. \A m \in 1..2*h : ~(b - 2 * h + m > b) /\ Zeros(2 * h)[m] = 0
    BY DEF Zeros
  <2> QED BY <1>1, <1>4, <2>1 DEF ByPlaces
<1>8. phase' # "idle" /\ b <= Len(passed)
  BY <1>1, <1>3
<1> QED BY <1>1, <1>2, <1>3, <1>4, <1>5, <1>6, <1>7, <1>8, ChunkContiguous

\* A live chunk finds all there was analysed.
LEMMA LiveContiguous ==
  ASSUME PathInv, Types, ContiguousInv, NEW n \in Nat, LiveChunk(n)
  PROVE  ContiguousInv'
<1>1. /\ phase = "live" /\ phase' = phase /\ ~overrun /\ pcm_data = <<>>
      /\ PassOn(Samples(n))
      /\ all_sizes' = Append(all_sizes, n)
      /\ began' = began /\ sliding_window_' = sliding_window_
  BY DEF LiveChunk, vadVars
<1>2. PICK b \in Nat, e \in Nat :
        b = began.sample /\ b = began'.sample /\ e = Len(passed) /\ b <= e
  <2>1. Len(passed) \in Nat
    BY DEF PathInv, ContentInv
  <2>2. began.sample \in 0..Len(passed)
    BY DEF Types, BeganTypes
  <2> QED BY <1>1, <2>1, <2>2
<1>3. PICK h \in Nat \ {0} : h = Hop
  BY AudioAssumption DEF AudioAssumption
<1>4. Analysed = e
  <2>1. i = 0 /\ Len(pcm_data) = 0
    BY <1>1 DEF Types, ChunkTypes
  <2> QED BY <1>2, <2>1 DEF Analysed
<1>5. PICK a \in Seq(Nat), l \in Nat, f \in Nat :
        a = all_sizes /\ l = Len(a) /\ f = began.chunk /\ f <= l
  <2>1. all_sizes \in Seq(Nat) /\ Len(all_sizes) \in Nat
    BY DEF PathInv, LineInv, LineTypes
  <2>2. began.chunk \in 0..Len(all_sizes)
    BY DEF Types, BeganTypes
  <2> QED BY <2>1, <2>2
<1>6. /\ all_sizes' = Append(a, n) /\ Len(Append(a, n)) = l + 1 /\ Append(a, n)[l + 1] = n
      /\ \A k \in 1..l : Append(a, n)[k] = a[k]
  BY <1>1, <1>5
<1>7. ASSUME WholeHops' PROVE n % h = 0 /\ WholeHops
  <2>1. \A k \in f+1..l+1 : Append(a, n)[k] % h = 0
    BY <1>1, <1>3, <1>5, <1>6, <1>7 DEF WholeHops
  <2>2. l + 1 \in f+1..l+1
    BY <1>5
  <2>3. \A k \in f+1..l : a[k] % h = 0
    <3> SUFFICES ASSUME NEW k \in f+1..l PROVE a[k] % h = 0
      OBVIOUS
    <3>1. k \in f+1..l+1 /\ k \in 1..l
      BY <1>5
    <3>2. Append(a, n)[k] % h = 0 /\ Append(a, n)[k] = a[k]
      BY <1>6, <2>1, <3>1
    <3> QED BY <3>2
  <2> QED BY <1>3, <1>5, <1>6, <2>1, <2>2, <2>3 DEF WholeHops
<1>8. WholeHops' => n % Hop = 0 /\ ByPlaces(sliding_window_', passed, b, Len(passed), Hop)
  BY <1>1, <1>2, <1>3, <1>4, <1>7 DEF ContiguousInv, WindowInv
<1>9. TailInv /\ phase' # "idle"
  BY <1>1 DEF ContiguousInv
<1> QED BY <1>1, <1>2, <1>8, <1>9, ChunkContiguous

\* A frame takes one hop of the chunk.
LEMMA FrameContiguous ==
  ASSUME PathInv, Types, ContiguousInv, NEW p, NEW ok, Frame(p, ok)
  PROVE  ContiguousInv'
<1>1. /\ i + Hop <= Len(pcm_data) /\ i' = i + Hop
      /\ sliding_window_' = SubSeq(sliding_window_, Hop + 1, 2 * Hop)
                            \o SubSeq(pcm_data, i + 1, i + Hop)
      /\ phase' = phase /\ pcm_data' = pcm_data /\ passed' = passed
      /\ all_sizes' = all_sizes /\ began' = began
  BY DEF Frame, WholeHop, NextHop, chunkVars
<1>2. PICK s \in Seq(Nat), c \in Seq(Nat), j \in Nat, h \in Nat \ {0} :
        s = passed /\ c = pcm_data /\ j = i /\ h = Hop /\ j <= Len(c)
  BY AudioAssumption DEF AudioAssumption, Types, ChunkTypes, PathInv, ContentInv
<1>3. PICK b \in Nat, e \in Nat :
        b = began.sample /\ e = Analysed /\ e = Len(s) - (Len(c) - j) /\ b <= e
  <2>1. began.sample \in Nat /\ began.sample + Len(c) <= Len(s)
    BY <1>2 DEF Types, BeganTypes, ContiguousInv, TailInv
  <2>2. /\ Len(s) - (Len(c) - j) \in Nat
        /\ began.sample <= Len(s) - (Len(c) - j)
    BY <1>2, <2>1
  <2>3. Analysed = Len(s) - (Len(c) - j)
    BY <1>2 DEF Analysed
  <2> QED BY <2>1, <2>2, <2>3
<1>4. TailInv'
  BY <1>1 DEF ContiguousInv, TailInv
<1>5. WholeHops' <=> WholeHops
  BY <1>1 DEF WholeHops
<1>6. HopInv'
  <2>1. PICK x \in Nat : x = Len(c) - j /\ x >= h
    <3>1. Len(c) - j \in Nat /\ Len(c) - j >= h
      BY <1>1, <1>2
    <3> QED BY <3>1, Zenon
  <2>2. ASSUME WholeHops PROVE (Len(c) - (j + h)) % h = 0
    <3>1. x % h = 0
      BY <1>2, <2>1, <2>2 DEF ContiguousInv, HopInv
    <3>2. (x - h) % h = 0
      BY <2>1, <3>1, HopsLeft
    <3>3. x - h = Len(c) - (j + h)
      BY <1>2, <2>1
    <3> QED BY <3>2, <3>3
  <2> QED BY <1>1, <1>2, <1>5, <2>2 DEF HopInv
<1>7. WindowInv'
  <2>1. Analysed' = e + h
    BY <1>1, <1>2, <1>3 DEF Analysed
  <2>2. PICK w \in [1..2*h -> Nat] : w = sliding_window_
    BY <1>2 DEF Types, ChunkTypes
  <2>3. \A k \in 1..h : c[j + k] = s[e + k]
    <3> SUFFICES ASSUME NEW k \in 1..h PROVE c[j + k] = s[e + k]
      OBVIOUS
    <3>1. PICK m \in 1..Len(c) : m = j + k
      BY <1>1, <1>2
    <3>2. c[m] = s[Len(s) - Len(c) + m]
      BY <1>2 DEF ContiguousInv, TailInv
    <3>3. Len(s) - Len(c) + m = e + k
      BY <1>2, <1>3, <3>1
    <3> QED BY <3>1, <3>2, <3>3
  <2>4. ASSUME WholeHops PROVE ByPlaces(sliding_window_', s, b, e + h, h)
    <3>1. ByPlaces(w, s, b, e, h)
      BY <1>2, <1>3, <2>2, <2>4 DEF ContiguousInv, WindowInv
    <3>2. j + h <= Len(c)
      BY <1>1, <1>2
    <3>3. ByPlaces(SubSeq(w, h + 1, 2 * h) \o SubSeq(c, j + 1, j + h), s, b, e + h, h)
      BY <1>2, <1>3, <2>2, <2>3, <3>1, <3>2, WindowMoves
    <3> QED BY <1>1, <1>2, <2>2, <3>3
  <2> QED BY <1>1, <1>2, <1>3, <1>5, <2>1, <2>4 DEF WindowInv
<1> QED BY <1>4, <1>6, <1>7 DEF ContiguousInv

\* At the end of a chunk of whole hops nothing is left to drop.
LEMMA EndContiguous ==
  ASSUME PathInv, Types, ContiguousInv, EndOfChunk
  PROVE  ContiguousInv'
<1>1. /\ ~(i + Hop <= Len(pcm_data)) /\ pcm_data' = <<>> /\ i' = 0 /\ phase' = "live"
      /\ sliding_window_' = sliding_window_ /\ passed' = passed
      /\ all_sizes' = all_sizes /\ began' = began
  BY DEF EndOfChunk, WholeHop, chunkVars
<1>2. PICK s \in Seq(Nat), c \in Seq(Nat), j \in Nat, h \in Nat \ {0} :
        s = passed /\ c = pcm_data /\ j = i /\ h = Hop /\ j <= Len(c)
  BY AudioAssumption DEF AudioAssumption, Types, ChunkTypes, PathInv, ContentInv
<1>3. began.sample \in Nat /\ began.sample <= Len(s)
  BY <1>2 DEF Types, BeganTypes
<1>4. Len(pcm_data') = 0
  BY <1>1
<1>5. TailInv'
  BY <1>1, <1>2, <1>3, <1>4 DEF TailInv
<1>6. WholeHops' <=> WholeHops
  BY <1>1 DEF WholeHops
<1>7. HopInv'
  <2>1. 0 - 0 = 0 /\ 0 % h = 0
    BY <1>2
  <2> QED BY <1>1, <1>2, <1>4, <2>1 DEF HopInv
<1>8. WindowInv'
  <2>1. ASSUME WholeHops PROVE Analysed' = Analysed
    <3>1. PICK x \in Nat : x = Len(c) - j /\ x < h
      <4>1. Len(c) - j \in Nat /\ Len(c) - j < h
        BY <1>1, <1>2
      <4> QED BY <4>1, Zenon
    <3>2. x % h = 0
      BY <1>2, <2>1, <3>1 DEF ContiguousInv, HopInv
    <3>3. x = 0
      BY <3>1, <3>2, HopsLeft
    <3> QED BY <1>1, <1>2, <1>4, <3>1, <3>3 DEF Analysed
  <2> QED BY <1>1, <1>6, <2>1 DEF ContiguousInv, WindowInv
<1> QED BY <1>5, <1>7, <1>8 DEF ContiguousInv

\* The invariant at the start,
LEMMA ContiguousInit == Init => ContiguousInv
<1> SUFFICES ASSUME Init
             PROVE  ContiguousInv
  OBVIOUS
<1>1. PICK h \in Nat \ {0} : h = Hop
  BY AudioAssumption DEF AudioAssumption
<1>2. /\ pcm_data = <<>> /\ i = 0 /\ Len(pcm_data) = 0 /\ passed = <<>> /\ Len(passed) = 0
      /\ began.sample = 0 /\ sliding_window_ = Zeros(2 * h)
  BY <1>1 DEF Init, Silence
<1>3. TailInv
  BY <1>2 DEF TailInv
<1>4. HopInv
  <2>1. 0 - 0 = 0 /\ 0 % h = 0
    OBVIOUS
  <2> QED BY <1>1, <1>2, <2>1 DEF HopInv
<1>5. WindowInv
  <2>1. Analysed = 0
    BY <1>2 DEF Analysed
  <2>2. \A m \in 1..2*h : ~(0 - 2 * h + m > 0) /\ Zeros(2 * h)[m] = 0
    BY DEF Zeros
  <2> QED BY <1>1, <1>2, <2>1, <2>2 DEF WindowInv, ByPlaces
<1> QED BY <1>3, <1>4, <1>5 DEF ContiguousInv

\* and through every step.
LEMMA ContiguousStep ==
  ASSUME PathInv, Types, ContiguousInv, [Next]_vars
  PROVE  ContiguousInv'
<1>1. \A n \in ChunkSizes \union {0} : n \in Nat
  BY AudioAssumption DEF AudioAssumption
<1>2. CASE \E n \in ChunkSizes \union {0}, ok \in BOOLEAN : StartStream(n, ok)
  BY <1>1, <1>2, StartContiguous
<1>3. CASE \E n \in ChunkSizes : LiveChunk(n)
  BY <1>1, <1>3, LiveContiguous
<1>4. CASE (\E p \in Levels : Frame(p, TRUE)) \/ Frame(0, FALSE)
  BY <1>4, FrameContiguous
<1>5. CASE EndOfChunk
  BY <1>5, EndContiguous
<1>6. ASSUME UNCHANGED <<pcm_data, i, passed, all_sizes, began, sliding_window_>>,
             phase' = "idle" => pcm_data = <<>>
      PROVE  ContiguousInv'
  BY <1>6 DEF ContiguousInv, TailInv, HopInv, WindowInv, WholeHops, Analysed
<1>7. CASE StopStream
  BY <1>6, <1>7 DEF StopStream, vadVars, chunkVars
<1>8. CASE UNCHANGED vars
  <2>1. phase' = "idle" => pcm_data = <<>>
    BY <1>8 DEF vars, ContiguousInv, TailInv
  <2> QED BY <1>6, <1>8, <2>1 DEF vars, vadVars, chunkVars
<1> QED BY <1>2, <1>3, <1>4, <1>5, <1>7, <1>8 DEF Next

\* The window is the last two hops of this stream's audio, whatever its length and
\* that of its chunks, as long as they are made of whole hops.
THEOREM WindowIsContiguous == Spec => []WindowContiguous
<1>1. Init => PathInv /\ NetInv /\ Types /\ ContiguousInv
  BY NetInit, PathInit, TypesInit, ContiguousInit
<1>2. NetInv /\ PathInv /\ Types /\ [Next]_vars => (NetInv /\ PathInv /\ Types)'
  BY NetStep, PathStep, TypesStep
<1>3. PathInv /\ Types /\ ContiguousInv /\ [Next]_vars => ContiguousInv'
  BY ContiguousStep
<1>4. PathInv /\ Types /\ ContiguousInv => WindowContiguous
  BY WindowInPlace
<1> QED BY <1>1, <1>2, <1>3, <1>4, PTL DEF Spec
=============================================================================
