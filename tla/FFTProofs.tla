----------------------------- MODULE FFTProofs ------------------------------
(***************************************************************************)
(* Proofs about FFT, for transforms of any length and setups used any      *)
(* number of times: what every transform leaves in its output, which sizes *)
(* have factors, where the table is written and read, and that reordering  *)
(* can be undone.                                                          *)
(***************************************************************************)
EXTENDS FFT, SequenceTheorems, WellFoundedInduction, TLAPS

(***************************************************************************)
(* The way of the data.                                                    *)
(***************************************************************************)
Names == {"input", "output", "scratch"}
Targets == {"output", "scratch"}
Steps == [step : {"call", "split", "pass", "finalize", "reorder", "preprocess", "join"}, k : Nat]

Working == {"split", "passes", "finalize", "reorder", "preprocess", "join", "finish"}

\* Between two transforms no pass is under way, and in one only in the passes.
CallTypes ==
  /\ at \in {"decompose", "twiddles", "setup", "null"} \union Working
  /\ transform \in {"real", "complex"} /\ direction \in {"forward", "backward"}
  /\ ordered \in BOOLEAN /\ in_place \in BOOLEAN
  /\ calls \in Nat
  /\ ifac \in Seq(Nat) /\ ntryh \in Seq(Nat)
  /\ k1 \in Nat
  /\ at \in {"setup"} \union (Working \ {"passes"}) => k1 = 0
  /\ at = "passes" => k1 <= nf + 1

BufferTypes ==
  /\ buff \in [Names -> Seq(Steps)]
  /\ in \in Names /\ out \in Targets

\* Which steps there are depends on the transform.
Stages ==
  /\ at = "split" => direction = "forward" /\ transform = "complex"
  /\ at = "finalize" => direction = "forward"
  /\ at = "preprocess" => direction = "backward"
  /\ at = "join" => direction = "backward" /\ transform = "complex"
  /\ at = "reorder" => ordered
  /\ at \in {"decompose", "twiddles"} => calls = 0

\* The steps before the passes, the passes and the steps after them.
Call == <<Done("call", calls)>>

Only(c, s) == IF c THEN <<Done(s, 0)>> ELSE <<>>

Front ==
  Call \o IF direction = "forward" THEN Only(transform = "complex", "split")
          ELSE Only(ordered, "reorder") \o <<Done("preprocess", 0)>>

Passes(m) == [k \in 1..m |-> Done("pass", IF Descending THEN nf - k + 1 ELSE k)]

Back ==
  IF direction = "forward" THEN <<Done("finalize", 0)>> \o Only(ordered, "reorder")
  ELSE Only(transform = "complex", "join")

\* What the next step reads is what the program has made so far.
MadeInv ==
  /\ at = "split" => buff[in] = Call
  /\ at = "reorder" /\ direction = "backward" => buff[in] = Call
  /\ at = "preprocess" => buff[in] = Call \o Only(ordered, "reorder")
  /\ at = "passes" => buff[in] = Front \o Passes(IF k1 = 0 THEN 0 ELSE k1 - 1)
  /\ at \in {"finalize", "join"} => buff[in] = Front \o Passes(nf)
  /\ at = "reorder" /\ direction = "forward" =>
       buff[in] = (Front \o Passes(nf)) \o <<Done("finalize", 0)>>
  /\ at = "finish" => buff[in] = Program

\* How many times the buffers are still to change.
Left ==
  LET o == IF ordered THEN 1 ELSE 0
      after == IF direction = "forward" THEN 1 + o ELSE 0
  IN  IF at = "split" THEN nf + 2 + o
      ELSE IF at = "passes" THEN (IF k1 = 0 THEN nf ELSE nf - k1 + 1) + after
      ELSE IF at = "finalize" THEN 1 + o
      ELSE IF at = "reorder" THEN IF direction = "forward" THEN 1 ELSE nf + 2
      ELSE IF at = "preprocess" THEN nf + 1
      ELSE 0

\* No step reads what it writes, and, if the input is to be kept, the last writes the
\* output.
PlaceInv ==
  at \in Working =>
    /\ at # "split" => in # out
    /\ in = "input" => ~in_place
    /\ at \in {"join", "finish"} \/ (at = "passes" /\ direction = "backward") => in # "input"
    /\ ~in_place => /\ buff["input"] = Call
                    /\ in # out
                    /\ out = IF Left % 2 = 1 THEN "output" ELSE "scratch"

SetupInv ==
  at = "setup" /\ calls > 0 =>
    /\ buff["output"] = Program
    /\ ~in_place => buff["input"] = Call

DataInv == CallTypes /\ BufferTypes /\ Stages /\ MadeInv /\ PlaceInv /\ SetupInv

-----------------------------------------------------------------------------
\* A step that goes from one buffer to another adds itself to what was made.
LEMMA StepMoves ==
  ASSUME BufferTypes, in # out, NEW d \in Steps, Step(d)
  PROVE  /\ BufferTypes' /\ in' = out /\ out' = Other(out) /\ in' # out' /\ in' # "input"
         /\ buff'[in'] = buff[in] \o <<d>>
         /\ buff'["input"] = buff["input"]
<1>1. PICK s \in Seq(Steps) : s = buff[in]
  BY DEF BufferTypes
<1>2. /\ buff' = [buff EXCEPT ![out] = Append(s, d)]
      /\ in' = out /\ out' = Other(out)
  BY <1>1 DEF Step
<1>3. Append(s, d) = s \o <<d>> /\ Append(s, d) \in Seq(Steps)
  BY <1>1, AppendIsConcat, AppendProperties
<1>4. out \in Targets /\ Other(out) \in Targets /\ Other(out) # out
  BY DEF BufferTypes, Targets, Other
<1>5. buff \in [Names -> Seq(Steps)] /\ out \in Names /\ "input" \in Names /\ out # "input"
  BY <1>4 DEF BufferTypes, Names, Targets
<1>6. /\ buff' \in [Names -> Seq(Steps)]
      /\ buff'[out] = Append(s, d)
      /\ buff'["input"] = buff["input"]
  BY <1>2, <1>3, <1>5
<1> QED BY <1>1, <1>2, <1>3, <1>4, <1>5, <1>6 DEF BufferTypes

\* The parts of the program.
LEMMA PartsTyped ==
  ASSUME CallTypes
  PROVE  /\ nf \in Nat
         /\ Call \in Seq(Steps) /\ Front \in Seq(Steps) /\ Back \in Seq(Steps)
         /\ \A m \in 0..nf : Passes(m) \in Seq(Steps) /\ Len(Passes(m)) = m
         /\ \A s \in {"split", "finalize", "reorder", "preprocess", "join"} :
              /\ Done(s, 0) \in Steps
              /\ \A c \in BOOLEAN : Only(c, s) \in Seq(Steps)
<1>1. nf \in Nat
  BY DEF CallTypes, nf
<1>2. \A s \in {"split", "finalize", "reorder", "preprocess", "join", "pass", "call"}, k \in Nat :
        Done(s, k) \in Steps
  BY DEF Done, Steps
<1>3. \A s \in {"split", "finalize", "reorder", "preprocess", "join"} :
        <<Done(s, 0)>> \in Seq(Steps) /\ \A c \in BOOLEAN : Only(c, s) \in Seq(Steps)
  BY <1>2 DEF Only
<1>4. Call \in Seq(Steps)
  BY <1>2 DEF Call, CallTypes
<1>5. Front \in Seq(Steps)
  <2>1. Only(transform = "complex", "split") \in Seq(Steps)
    BY <1>3
  <2>2. Only(ordered, "reorder") \o <<Done("preprocess", 0)>> \in Seq(Steps)
    BY <1>3, ConcatProperties DEF CallTypes
  <2> QED BY <1>4, <2>1, <2>2, ConcatProperties DEF Front
<1>6. Back \in Seq(Steps)
  <2>1. Only(transform = "complex", "join") \in Seq(Steps)
    BY <1>3
  <2>2. <<Done("finalize", 0)>> \o Only(ordered, "reorder") \in Seq(Steps)
    BY <1>3, ConcatProperties DEF CallTypes
  <2> QED BY <2>1, <2>2 DEF Back
<1>7. ASSUME NEW m \in 0..nf PROVE Passes(m) \in Seq(Steps) /\ Len(Passes(m)) = m
  <2>1. \A k \in 1..m : Done("pass", IF Descending THEN nf - k + 1 ELSE k) \in Steps
    BY <1>1, <1>2
  <2> QED BY <1>1, <2>1 DEF Passes
<1> QED BY <1>1, <1>2, <1>3, <1>4, <1>5, <1>6, <1>7

\* Putting parts of a sequence together in one order or the other.
Cat(a, b) == a \o b

LEMMA CatAssociative ==
  ASSUME NEW S, NEW a \in Seq(S), NEW b \in Seq(S), NEW c \in Seq(S)
  PROVE  Cat(a, b) \in Seq(S) /\ Cat(Cat(a, b), c) = Cat(a, Cat(b, c))
<1>1. a \o b \in Seq(S)
  BY ConcatProperties
<1>2. (a \o b) \o c = a \o (b \o c)
  BY ConcatAssociative
<1> QED BY <1>1, <1>2 DEF Cat

LEMMA FourParts ==
  ASSUME NEW S, NEW a \in Seq(S), NEW b \in Seq(S), NEW c \in Seq(S), NEW d \in Seq(S)
  PROVE  Cat(a, Cat(Cat(b, c), d)) = Cat(Cat(Cat(a, b), c), d)
<1>1. Cat(b, c) \in Seq(S)
  BY CatAssociative
<1>2. Cat(Cat(a, Cat(b, c)), d) = Cat(a, Cat(Cat(b, c), d))
  BY <1>1, CatAssociative
<1>3. Cat(Cat(a, b), c) = Cat(a, Cat(b, c))
  BY CatAssociative
<1> QED BY <1>2, <1>3

LEMMA FiveParts ==
  ASSUME NEW S, NEW a \in Seq(S), NEW b \in Seq(S), NEW c \in Seq(S), NEW d \in Seq(S),
         NEW e \in Seq(S)
  PROVE  Cat(a, Cat(Cat(Cat(b, c), d), e)) = Cat(Cat(Cat(a, b), c), Cat(d, e))
<1>1. Cat(b, c) \in Seq(S) /\ Cat(d, e) \in Seq(S)
  BY CatAssociative
<1>2. Cat(Cat(Cat(b, c), d), e) = Cat(Cat(b, c), Cat(d, e))
  BY <1>1, CatAssociative
<1>3. Cat(Cat(a, Cat(b, c)), Cat(d, e)) = Cat(a, Cat(Cat(b, c), Cat(d, e)))
  BY <1>1, CatAssociative
<1>4. Cat(Cat(a, b), c) = Cat(a, Cat(b, c))
  BY CatAssociative
<1> QED BY <1>2, <1>3, <1>4

\* The program from its parts.
LEMMA ProgramParts ==
  ASSUME CallTypes
  PROVE  Program = (Front \o Passes(nf)) \o Back
<1>1. PICK p \in Seq(Steps) : p = Passes(nf)
  BY PartsTyped
<1>2. PICK c \in Seq(Steps) : c = <<Done("call", calls)>> /\ c = Call
  BY PartsTyped DEF Call
<1>3. CASE direction = "forward"
  <2>1. PICK a \in Seq(Steps), f \in Seq(Steps), o \in Seq(Steps) :
          /\ a = Only(transform = "complex", "split")
          /\ f = <<Done("finalize", 0)>>
          /\ o = Only(ordered, "reorder")
    <3>1. Only(transform = "complex", "split") \in Seq(Steps) /\ Only(ordered, "reorder") \in Seq(Steps)
      BY PartsTyped DEF CallTypes
    <3>2. <<Done("finalize", 0)>> \in Seq(Steps)
      BY PartsTyped
    <3> QED BY <3>1, <3>2
  <2>2. p = IF transform = "complex" THEN [k \in 1..nf |-> Done("pass", k)]
            ELSE [k \in 1..nf |-> Done("pass", nf - k + 1)]
    BY <1>1, <1>3 DEF Passes, Descending, CallTypes
  <2>3. Program = c \o (((a \o p) \o f) \o o)
    BY <1>2, <1>3, <2>1, <2>2 DEF Program, Only
  <2>4. Front = c \o a /\ Back = f \o o
    BY <1>2, <1>3, <2>1 DEF Front, Back
  <2>5. Cat(c, Cat(Cat(Cat(a, p), f), o)) = Cat(Cat(Cat(c, a), p), Cat(f, o))
    <3>1. /\ p \in Seq(Steps) /\ c \in Seq(Steps)
          /\ a \in Seq(Steps) /\ f \in Seq(Steps) /\ o \in Seq(Steps)
      BY <1>1, <1>2, <2>1, Zenon
    <3> QED BY <3>1, FiveParts
  <2> QED BY <1>1, <2>3, <2>4, <2>5, Zenon DEF Cat
<1>4. CASE direction = "backward"
  <2>1. PICK a \in Seq(Steps), f \in Seq(Steps), o \in Seq(Steps) :
          /\ o = Only(transform = "complex", "join")
          /\ f = <<Done("preprocess", 0)>>
          /\ a = Only(ordered, "reorder")
    <3>1. Only(transform = "complex", "join") \in Seq(Steps) /\ Only(ordered, "reorder") \in Seq(Steps)
      BY PartsTyped DEF CallTypes
    <3>2. <<Done("preprocess", 0)>> \in Seq(Steps)
      BY PartsTyped
    <3> QED BY <3>1, <3>2
  <2>2. p = [k \in 1..nf |-> Done("pass", k)]
    BY <1>1, <1>4 DEF Passes, Descending
  <2>3. Program = c \o (((a \o f) \o p) \o o)
    BY <1>2, <1>4, <2>1, <2>2 DEF Program, Only
  <2>4. Front = c \o (a \o f) /\ Back = o
    BY <1>2, <1>4, <2>1 DEF Front, Back
  <2>5. Cat(a, f) \in Seq(Steps)
    BY <2>1, CatAssociative
  <2>6. Cat(c, Cat(Cat(Cat(a, f), p), o)) = Cat(Cat(Cat(c, Cat(a, f)), p), o)
    <3>1. p \in Seq(Steps) /\ c \in Seq(Steps) /\ o \in Seq(Steps)
      BY <1>1, <1>2, <2>1, Zenon
    <3> QED BY <2>5, <3>1, FourParts
  <2> QED BY <1>1, <2>3, <2>4, <2>6, Zenon DEF Cat
<1> QED BY <1>3, <1>4 DEF CallTypes

\* While a transform is made its program stays.
LEMMA SameProgram ==
  ASSUME UNCHANGED <<transform, ifac, direction, ordered, calls>>
  PROVE  /\ Program' = Program /\ Front' = Front /\ Back' = Back /\ Call' = Call /\ nf' = nf
         /\ \A m \in Nat : Passes(m)' = Passes(m)
<1>1. nf' = nf /\ Call' = Call /\ (Descending' <=> Descending)
  BY DEF nf, Call, Descending
<1>2. Front' = Front /\ Back' = Back
  BY <1>1 DEF Front, Back
<1>3. Program' = Program
  BY <1>1 DEF Program
<1>4. \A m \in Nat : Passes(m)' = Passes(m)
  BY <1>1 DEF Passes
<1> QED BY <1>1, <1>2, <1>3, <1>4

\* Before the first pass there is none.
LEMMA EmptyTable ==
  ASSUME NEW f, f = [k \in 1..0 |-> f[k]]
  PROVE  f = <<>>
<1>1. f \in Seq(Nat) /\ Len(f) = 0
  OBVIOUS
<1> QED BY <1>1, EmptySeq

\* The passes one by one.
LEMMA PassesGrow ==
  ASSUME CallTypes
  PROVE  /\ Passes(0) = <<>>
         /\ \A m \in 0..nf-1 :
              Passes(m + 1) = Passes(m)
                \o <<Done("pass", IF Descending THEN nf - (m + 1) + 1 ELSE m + 1)>>
<1>1. nf \in Nat
  BY PartsTyped
<1>2. Passes(0) = <<>>
  <2>1. Passes(0) \in Seq(Steps) /\ Len(Passes(0)) = 0
    BY <1>1, PartsTyped
  <2> QED BY <2>1, EmptySeq
<1>3. ASSUME NEW m \in 0..nf-1
      PROVE  Passes(m + 1) = Passes(m)
               \o <<Done("pass", IF Descending THEN nf - (m + 1) + 1 ELSE m + 1)>>
  <2>1. PICK d : d = Done("pass", IF Descending THEN nf - (m + 1) + 1 ELSE m + 1)
    OBVIOUS
  <2>2. m \in Nat /\ m \in 0..nf /\ m + 1 \in 0..nf
    BY <1>1, <1>3
  <2>3. PICK s \in Seq(Steps), t \in Seq(Steps) :
          s = Passes(m) /\ Len(s) = m /\ t = Passes(m + 1) /\ Len(t) = m + 1
    BY <2>2, PartsTyped
  <2>4. d \in Steps /\ t[m + 1] = d
    <3>1. t[m + 1] = d
      BY <2>1, <2>2, <2>3 DEF Passes
    <3>2. t[m + 1] \in Steps
      BY <2>2, <2>3
    <3> QED BY <3>1, <3>2
  <2>5. \A k \in 1..m : t[k] = s[k]
    BY <2>2, <2>3 DEF Passes
  <2>6. /\ Append(s, d) \in Seq(Steps) /\ Len(Append(s, d)) = m + 1
        /\ \A k \in 1..m : Append(s, d)[k] = s[k]
        /\ Append(s, d)[m + 1] = d
    BY <2>3, <2>4, AppendProperties
  <2>7. t = Append(s, d)
    <3>1. \A k \in 1..m+1 : Append(s, d)[k] = t[k]
      BY <2>2, <2>4, <2>5, <2>6
    <3> QED BY <2>3, <2>6, <3>1, SeqEqual
  <2>8. Append(s, d) = s \o <<d>>
    BY <2>3, <2>4, AppendIsConcat
  <2> QED BY <2>1, <2>3, <2>7, <2>8
<1> QED BY <1>2, <1>3

\* What comes before, one part longer.
LEMMA PartsGrow ==
  ASSUME NEW S, NEW a \in Seq(S), NEW b \in Seq(S), NEW c \in Seq(S)
  PROVE  /\ (a \o b) \o c = a \o (b \o c)
         /\ a \o <<>> = a
         /\ a \o b \in Seq(S)
<1>1. (a \o b) \o c = a \o (b \o c)
  BY ConcatAssociative
<1>2. a \o <<>> = a
  BY ConcatEmptySeq
<1>3. a \o b \in Seq(S)
  BY ConcatProperties
<1> QED BY <1>1, <1>2, <1>3

\* A transform starts with its input.
LEMMA TransformData ==
  ASSUME DataInv, NEW dir \in {"forward", "backward"}, NEW o \in BOOLEAN, NEW same \in BOOLEAN,
         Transform(dir, o, same)
  PROVE  DataInv'
<1> USE DEF DataInv
<1>1. PICK v : v = IF same THEN "output" ELSE "input"
  OBVIOUS
<1>2. /\ at = "setup" /\ calls' = calls + 1
      /\ direction' = dir /\ ordered' = o /\ in_place' = same
      /\ buff' = [buff EXCEPT ![v] = <<Done("call", calls + 1)>>]
      /\ in' = v /\ out' = FirstTarget(dir, FirstBuffer(o), v)
      /\ at' = IF dir = "forward" THEN IF transform = "real" THEN "passes" ELSE "split"
               ELSE IF o THEN "reorder" ELSE "preprocess"
      /\ transform' = transform /\ ifac' = ifac /\ ntryh' = ntryh /\ k1' = k1
  BY <1>1 DEF Transform, setupVars, loopVars, CallTypes
<1>3. CallTypes'
  BY <1>2 DEF CallTypes, Working, nf
<1>4. Call' = <<Done("call", calls + 1)>> /\ Call' \in Seq(Steps)
  <2>1. Call' = <<Done("call", calls + 1)>>
    BY <1>2 DEF Call
  <2>2. Done("call", calls + 1) \in Steps
    BY DEF Done, Steps, CallTypes
  <2> QED BY <2>1, <2>2
<1>5. BufferTypes'
  <2>1. v \in Names
    BY <1>1 DEF Names
  <2>2. FirstTarget(dir, FirstBuffer(o), v) \in Targets
    BY <1>1 DEF FirstTarget, FirstBuffer, Buffer, Targets
  <2> QED BY <1>2, <1>4, <2>1, <2>2 DEF BufferTypes
<1>6. buff'[in'] = Call'
  <2>1. v \in DOMAIN buff
    BY <1>1 DEF BufferTypes, Names
  <2> QED BY <1>2, <1>4, <2>1
<1>7. Stages'
  BY <1>2 DEF Stages, CallTypes
<1>8. MadeInv'
  <2>1. CASE at' = "split" \/ at' = "reorder"
    BY <1>2, <1>6, <2>1 DEF MadeInv
  <2>2. CASE at' = "preprocess"
    <3>1. ~ordered'
      BY <1>2, <2>2
    <3>2. Call' \o <<>> = Call'
      BY <1>4, ConcatEmptySeq
    <3> QED BY <1>6, <2>2, <3>1, <3>2 DEF MadeInv, Only
  <2>3. CASE at' = "passes"
    <3>1. direction' = "forward" /\ transform' = "real" /\ k1' = 0
      BY <1>2, <2>3 DEF CallTypes
    <3>2. Front' = Call' \o <<>>
      BY <3>1 DEF Front, Only
    <3>3. Passes(0)' = <<>>
      <4>1. PICK f : f = Passes(0)'
        OBVIOUS
      <4>2. f = [k \in 1..0 |-> f[k]]
        BY <4>1 DEF Passes
      <4> QED BY <4>1, <4>2, EmptyTable
    <3>4. Call' \o <<>> = Call'
      BY <1>4, ConcatEmptySeq
    <3>5. buff'[in'] = Front' \o Passes(0)'
      BY <1>6, <3>2, <3>3, <3>4
    <3> QED BY <2>3, <3>1, <3>5 DEF MadeInv
  <2> QED BY <1>2, <2>1, <2>2, <2>3
<1>9. PlaceInv'
  <2>1. nf' = nf /\ nf \in Nat
    BY <1>2 DEF nf, CallTypes
  <2>2. k1' = 0
    BY <1>2 DEF CallTypes
  <2>3. at' \in {"passes", "split", "reorder", "preprocess"}
    BY <1>2
  <2>4. at' # "split" => in' # out'
    BY <1>1, <1>2 DEF FirstTarget, FirstBuffer, Buffer, CallTypes
  <2>5. ~same => in' # out' /\ buff'["input"] = Call'
    <3>1. ~same => buff'["input"] = Call'
      BY <1>1, <1>2, <1>4 DEF BufferTypes, Names
    <3> QED BY <1>1, <1>2, <3>1 DEF FirstTarget, FirstBuffer, Buffer
  <2>6. ASSUME ~same PROVE out' = IF Left' % 2 = 1 THEN "output" ELSE "scratch"
    <3>1. PICK f \in Nat : f = nf
      BY <2>1
    <3>2. v = "input"
      BY <1>1, <2>6
    <3>3. out' = IF dir = "forward" /\ transform = "complex" THEN Buffer(1 - FirstBuffer(o))
                 ELSE Buffer(FirstBuffer(o))
      BY <1>2, <3>2 DEF FirstTarget, Buffer
    <3>4. Left' = IF at' = "split" THEN f + 2 + (IF o THEN 1 ELSE 0)
                  ELSE IF at' = "passes" THEN f + (1 + (IF o THEN 1 ELSE 0))
                  ELSE IF at' = "reorder" THEN f + 2
                  ELSE f + 1
      BY <1>2, <2>1, <2>2, <2>3, <3>1 DEF Left
    <3>5. FirstBuffer(o) = IF (f % 2 = 1) # o THEN 1 ELSE 0
      BY <3>1 DEF FirstBuffer
    <3>6. CASE at' = "split"
      <4>1. dir = "forward" /\ transform = "complex"
        BY <1>2, <3>6 DEF CallTypes
      <4>2. Left' % 2 = 1 <=> FirstBuffer(o) = 1
        BY <3>1, <3>4, <3>5, <3>6
      <4> QED BY <3>3, <3>5, <4>1, <4>2 DEF Buffer
    <3>7. CASE at' # "split"
      <4>1. out' = Buffer(FirstBuffer(o))
        BY <1>2, <3>3, <3>7
      <4>2. Left' % 2 = 1 <=> FirstBuffer(o) = 0
        <5>1. CASE at' = "passes"
          BY <3>1, <3>4, <3>5, <5>1
        <5>2. CASE at' = "reorder"
          BY <1>2, <3>1, <3>4, <3>5, <5>2
        <5>3. CASE at' = "preprocess"
          BY <1>2, <3>1, <3>4, <3>5, <5>3
        <5> QED BY <2>3, <3>7, <5>1, <5>2, <5>3
      <4> QED BY <3>5, <4>1, <4>2 DEF Buffer
    <3> QED BY <3>6, <3>7
  <2>7. at' \in {"join", "finish"} \/ (at' = "passes" /\ direction' = "backward") => in' # "input"
    BY <1>2
  <2>8. in' = "input" => ~in_place'
    BY <1>1, <1>2
  <2> QED BY <1>2, <2>4, <2>5, <2>6, <2>7, <2>8 DEF PlaceInv
<1>10. SetupInv'
  BY <1>2 DEF SetupInv
<1> QED BY <1>3, <1>5, <1>7, <1>8, <1>9, <1>10

\* The steps of a transform leave its program and its settings.
Unchanged ==
  UNCHANGED <<transform, ifac, ntryh, direction, ordered, in_place, calls>>

LEMMA SplitData ==
  ASSUME DataInv, Split
  PROVE  DataInv'
<1> USE DEF DataInv
<1>1. /\ at = "split" /\ at' = "passes" /\ Unchanged /\ k1' = k1 /\ k1 = 0
      /\ buff' = [buff EXCEPT ![out] = Append(buff[in], Done("split", 0))]
      /\ in' = out /\ out' = Other(out)
  BY DEF Split, setupVars, loopVars, callVars, Unchanged, CallTypes, Working
<1>2. /\ direction = "forward" /\ transform = "complex"
      /\ buff[in] = Call /\ Call \in Seq(Steps) /\ Done("split", 0) \in Steps /\ nf \in Nat
  BY <1>1, PartsTyped DEF Stages, MadeInv
<1>3. /\ Call' = Call /\ Front' = Front /\ Program' = Program /\ nf' = nf
      /\ Passes(0)' = <<>>
  BY <1>1, SameProgram, PassesGrow DEF Unchanged
<1>4. CallTypes'
  BY <1>1, <1>2, <1>3 DEF CallTypes, Unchanged, Working
<1>5. Append(Call, Done("split", 0)) = Front /\ Front \in Seq(Steps)
  BY <1>2, AppendIsConcat, PartsTyped DEF Front, Only
<1>6. out \in Targets /\ Other(out) \in Targets /\ Other(out) # out /\ out # "input"
  BY DEF BufferTypes, Targets, Other
<1>7. /\ buff' \in [Names -> Seq(Steps)] /\ buff'[out] = Front
      /\ buff'["input"] = buff["input"]
  <2>1. buff \in [Names -> Seq(Steps)] /\ out \in Names /\ "input" \in Names
    BY <1>6 DEF BufferTypes, Names, Targets
  <2>2. buff' = [buff EXCEPT ![out] = Front]
    BY <1>1, <1>2, <1>5
  <2> QED BY <1>5, <1>6, <2>1, <2>2
<1>8. BufferTypes'
  BY <1>1, <1>6, <1>7 DEF BufferTypes, Names, Targets
<1>9. Stages' /\ SetupInv'
  BY <1>1 DEF Stages, SetupInv, Unchanged
<1>10. MadeInv'
  <2>1. Front \o <<>> = Front
    BY <1>5, ConcatEmptySeq
  <2>2. buff'[in'] = Front' \o Passes(0)'
    BY <1>1, <1>3, <1>7, <2>1
  <2> QED BY <1>1, <2>2 DEF MadeInv
<1>11. PlaceInv'
  <2>1. PICK f \in Nat : f = nf
    BY <1>2
  <2>2. Left = f + 2 + (IF ordered THEN 1 ELSE 0) /\ Left' = f + (1 + (IF ordered THEN 1 ELSE 0))
    BY <1>1, <1>2, <1>3, <2>1 DEF Left, Unchanged
  <2>3. Left' % 2 = 1 <=> ~(Left % 2 = 1)
    BY <2>1, <2>2
  <2>4. ASSUME ~in_place PROVE out' = IF Left' % 2 = 1 THEN "output" ELSE "scratch"
    BY <1>1, <2>3, <2>4 DEF PlaceInv, Working, Other
  <2>5. ~in_place => buff'["input"] = Call'
    BY <1>1, <1>3, <1>7 DEF PlaceInv, Working
  <2> QED BY <1>1, <1>2, <1>6, <2>4, <2>5 DEF PlaceInv, Unchanged
<1> QED BY <1>4, <1>8, <1>9, <1>10, <1>11

\* What every step from one buffer to another keeps.
LEMMA MovesKeep ==
  ASSUME DataInv, NEW d \in Steps, Step(d), Unchanged, at \in Working \ {"split", "join", "finish"},
         at' \in Working, Left' = Left - 1, Left \in Nat
  PROVE  BufferTypes' /\ PlaceInv' /\ buff'[in'] = buff[in] \o <<d>>
<1>1. in # out
  BY DEF DataInv, PlaceInv
<1>2. /\ BufferTypes' /\ in' = out /\ out' = Other(out) /\ in' # out' /\ in' # "input"
      /\ buff'[in'] = buff[in] \o <<d>>
      /\ buff'["input"] = buff["input"]
  BY <1>1, StepMoves DEF DataInv
<1>3. Call' = Call /\ in_place' = in_place
  BY SameProgram DEF Unchanged
<1>4. ASSUME ~in_place PROVE out' = IF Left' % 2 = 1 THEN "output" ELSE "scratch"
  <2>1. PICK l \in Nat : l = Left
    OBVIOUS
  <2>2. (l - 1) % 2 = 1 <=> ~(l % 2 = 1)
    OBVIOUS
  <2>3. out = IF l % 2 = 1 THEN "output" ELSE "scratch"
    BY <1>4, <2>1 DEF DataInv, PlaceInv
  <2> QED BY <1>2, <2>1, <2>2, <2>3 DEF Other
<1>5. ~in_place => buff["input"] = Call
  BY DEF DataInv, PlaceInv
<1> QED BY <1>2, <1>3, <1>4, <1>5 DEF PlaceInv

LEMMA PassData ==
  ASSUME DataInv, Pass
  PROVE  DataInv'
<1>1. /\ at = "passes" /\ at' = "passes" /\ Unchanged /\ k1 \in 1..nf /\ k1' = k1 + 1
      /\ Step(Done("pass", factor))
  BY DEF Pass, setupVars, callVars, Unchanged
<1>2. CallTypes
  BY DEF DataInv
<1>3. /\ nf \in Nat /\ Front \in Seq(Steps)
      /\ Front' = Front /\ nf' = nf /\ \A m \in Nat : Passes(m)' = Passes(m)
  BY <1>1, <1>2, SameProgram, PartsTyped DEF Unchanged
<1>4. PICK m \in 0..nf-1 : m = k1 - 1
  BY <1>1, <1>3
<1>5. factor \in Nat /\ factor = IF Descending THEN nf - (m + 1) + 1 ELSE m + 1
  BY <1>1, <1>3, <1>4 DEF factor
<1>6. PICK d \in Steps : d = Done("pass", factor)
  BY <1>5 DEF Done, Steps
<1>7. Left' = Left - 1 /\ Left \in Nat
  BY <1>1, <1>3 DEF Left, Unchanged
<1>8. BufferTypes' /\ PlaceInv' /\ buff'[in'] = buff[in] \o <<d>>
  BY <1>1, <1>6, <1>7, MovesKeep DEF Working
<1>9. CallTypes'
  BY <1>1, <1>2, <1>3 DEF CallTypes, Unchanged, Working
<1>10. Stages' /\ SetupInv'
  BY <1>1 DEF DataInv, Stages, SetupInv, Unchanged
<1>11. MadeInv'
  <2>1. m \in 0..nf /\ m + 1 \in 0..nf /\ m \in Nat /\ m + 1 \in Nat
    BY <1>3, <1>4
  <2>2. PICK p \in Seq(Steps) : p = Passes(m)
    BY <1>2, <2>1, PartsTyped
  <2>3. <<d>> \in Seq(Steps)
    OBVIOUS
  <2>4. buff[in] = Front \o p
    BY <1>1, <1>4, <2>2 DEF DataInv, MadeInv
  <2>5. (Front \o p) \o <<d>> = Front \o (p \o <<d>>)
    BY <1>3, <2>2, <2>3, PartsGrow
  <2>6. p \o <<d>> = Passes(m + 1)
    BY <1>2, <1>5, <1>6, <2>1, <2>2, PassesGrow
  <2>7. buff'[in'] = Front' \o Passes(m + 1)'
    BY <1>3, <1>8, <2>1, <2>4, <2>5, <2>6
  <2>8. m + 1 = k1' - 1 /\ k1' # 0
    BY <1>1, <1>3, <1>4
  <2> QED BY <1>1, <2>7, <2>8 DEF MadeInv
<1> QED BY <1>8, <1>9, <1>10, <1>11 DEF DataInv

LEMMA StartPassesData ==
  ASSUME DataInv, StartPasses
  PROVE  DataInv'
<1>1. /\ at = "passes" /\ at' = "passes" /\ Unchanged /\ k1 = 0 /\ k1' = 1
      /\ buff' = buff /\ in' = in /\ out' = out
  BY DEF StartPasses, setupVars, callVars, bufferVars, Unchanged
<1>2. /\ CallTypes /\ nf \in Nat /\ Front' = Front /\ nf' = nf /\ Passes(0)' = Passes(0)
      /\ Call' = Call
  BY <1>1, SameProgram, PartsTyped DEF Unchanged, DataInv
<1>3. Left' = Left
  BY <1>1, <1>2 DEF Left, Unchanged
<1>4. CallTypes' /\ BufferTypes' /\ Stages' /\ SetupInv'
  BY <1>1, <1>2 DEF DataInv, CallTypes, BufferTypes, Stages, SetupInv, Unchanged, Working
<1>5. MadeInv'
  BY <1>1, <1>2 DEF DataInv, MadeInv
<1>6. PlaceInv'
  BY <1>1, <1>2, <1>3 DEF DataInv, PlaceInv, Unchanged
<1> QED BY <1>4, <1>5, <1>6 DEF DataInv

LEMMA EndOfPassesData ==
  ASSUME DataInv, EndOfPasses
  PROVE  DataInv'
<1>1. /\ at = "passes" /\ Unchanged /\ k1 = nf + 1 /\ k1' = 0
      /\ at' = IF direction = "forward" THEN "finalize"
               ELSE IF transform = "real" THEN "finish" ELSE "join"
      /\ buff' = buff /\ in' = in /\ out' = out
  BY DEF EndOfPasses, setupVars, callVars, bufferVars, Unchanged, DataInv, CallTypes
<1>2. /\ CallTypes /\ nf \in Nat /\ Front' = Front /\ nf' = nf /\ Passes(nf)' = Passes(nf)
      /\ Call' = Call /\ Program' = Program
  <2>1. CallTypes /\ nf \in Nat
    BY PartsTyped DEF DataInv
  <2>2. /\ Front' = Front /\ nf' = nf /\ Call' = Call /\ Program' = Program
        /\ \A m \in Nat : Passes(m)' = Passes(m)
    BY <1>1, SameProgram DEF Unchanged
  <2>3. PICK f \in Nat : f = nf
    BY <2>1
  <2>4. Passes(f)' = Passes(f)
    BY <2>2
  <2>5. Passes(nf)' = Passes(nf)
    BY <1>1, <2>2 DEF Passes, Descending, Unchanged
  <2> QED BY <2>1, <2>2, <2>5
<1>3. Left' = Left
  BY <1>1, <1>2 DEF Left, Unchanged, CallTypes
<1>4. CallTypes' /\ BufferTypes' /\ Stages' /\ SetupInv'
  BY <1>1, <1>2 DEF DataInv, CallTypes, BufferTypes, Stages, SetupInv, Unchanged, Working
<1>5. MadeInv'
  <2>1. buff[in] = Front \o Passes(nf)
    <3>1. PICK m : m = IF k1 = 0 THEN 0 ELSE k1 - 1
      OBVIOUS
    <3>2. buff[in] = Front \o Passes(m)
      BY <1>1, <3>1 DEF DataInv, MadeInv
    <3>3. m = nf
      BY <1>1, <1>2, <3>1
    <3> QED BY <3>2, <3>3
  <2>2. CASE at' \in {"finalize", "join"}
    BY <1>1, <1>2, <2>1, <2>2 DEF MadeInv
  <2>3. CASE at' = "finish"
    <3>1. Back = <<>>
      BY <1>1, <2>3 DEF Back, Only
    <3>2. Program = (Front \o Passes(nf)) \o Back
      BY <1>2, ProgramParts
    <3>3. buff[in] \in Seq(Steps)
      BY DEF DataInv, BufferTypes
    <3>4. Program = buff[in]
      BY <2>1, <3>1, <3>2, <3>3, ConcatEmptySeq
    <3> QED BY <1>1, <1>2, <2>3, <3>4 DEF MadeInv
  <2> QED BY <1>1, <2>2, <2>3
<1>6. PlaceInv'
  BY <1>1, <1>2, <1>3 DEF DataInv, PlaceInv, Unchanged, Working, CallTypes
<1> QED BY <1>4, <1>5, <1>6 DEF DataInv

LEMMA FinalizeData ==
  ASSUME DataInv, Finalize
  PROVE  DataInv'
<1>1. /\ at = "finalize" /\ Unchanged /\ k1' = k1 /\ k1 = 0
      /\ at' = IF ordered THEN "reorder" ELSE "finish"
      /\ Step(Done("finalize", 0)) /\ direction = "forward"
  BY DEF Finalize, setupVars, callVars, loopVars, Unchanged, DataInv, CallTypes, Working, Stages
<1>2. /\ CallTypes /\ nf \in Nat /\ Front' = Front /\ nf' = nf /\ Program' = Program
  BY <1>1, SameProgram, PartsTyped DEF Unchanged, DataInv
<1>3. Passes(nf)' = Passes(nf)
  BY <1>1, <1>2 DEF Passes, Descending, Unchanged
<1>4. PICK d \in Steps : d = Done("finalize", 0)
  BY DEF Done, Steps
<1>5. Left' = Left - 1 /\ Left \in Nat
  BY <1>1, <1>2 DEF Left, Unchanged, CallTypes
<1>6. BufferTypes' /\ PlaceInv' /\ buff'[in'] = buff[in] \o <<d>>
  BY <1>1, <1>4, <1>5, MovesKeep DEF Working
<1>7. CallTypes' /\ Stages' /\ SetupInv'
  BY <1>1, <1>2 DEF DataInv, CallTypes, Stages, SetupInv, Unchanged, Working
<1>8. buff'[in'] = (Front \o Passes(nf)) \o <<d>>
  BY <1>1, <1>6 DEF DataInv, MadeInv
<1>9. MadeInv'
  <2>1. CASE at' = "reorder"
    <3>1. direction' = "forward"
      BY <1>1 DEF Unchanged
    <3>2. buff'[in'] = (Front' \o Passes(nf)') \o <<Done("finalize", 0)>>
      BY <1>2, <1>3, <1>4, <1>8, Zenon
    <3> QED BY <2>1, <3>1, <3>2 DEF MadeInv
  <2>2. CASE at' = "finish"
    <3>1. <<d>> \o <<>> = <<d>>
      <4>1. <<d>> \in Seq(Steps)
        OBVIOUS
      <4> QED BY <4>1, ConcatEmptySeq
    <3>2. Back = <<d>>
      BY <1>1, <1>4, <2>2, <3>1 DEF Back, Only
    <3> QED BY <1>2, <1>8, <2>2, <3>2, ProgramParts DEF MadeInv
  <2> QED BY <1>1, <2>1, <2>2
<1> QED BY <1>6, <1>7, <1>9 DEF DataInv

LEMMA ReorderData ==
  ASSUME DataInv, Reorder
  PROVE  DataInv'
<1>1. /\ at = "reorder" /\ Unchanged /\ k1' = k1 /\ k1 = 0 /\ ordered
      /\ at' = IF direction = "forward" THEN "finish" ELSE "preprocess"
      /\ Step(Done("reorder", 0))
  BY DEF Reorder, setupVars, callVars, loopVars, Unchanged, DataInv, CallTypes, Working, Stages
<1>2. /\ CallTypes /\ nf \in Nat /\ Front' = Front /\ nf' = nf /\ Program' = Program
      /\ Call' = Call
  BY <1>1, SameProgram, PartsTyped DEF Unchanged, DataInv
<1>3. PICK d \in Steps : d = Done("reorder", 0)
  BY DEF Done, Steps
<1>4. Left' = Left - 1 /\ Left \in Nat
  BY <1>1, <1>2 DEF Left, Unchanged, CallTypes
<1>5. BufferTypes' /\ PlaceInv' /\ buff'[in'] = buff[in] \o <<d>>
  BY <1>1, <1>3, <1>4, MovesKeep DEF Working
<1>6. CallTypes' /\ Stages' /\ SetupInv'
  BY <1>1, <1>2 DEF DataInv, CallTypes, Stages, SetupInv, Unchanged, Working
<1>7. MadeInv'
  <2>1. CASE direction = "backward"
    BY <1>1, <1>2, <1>3, <1>5, <2>1 DEF DataInv, MadeInv, Only, Unchanged
  <2>2. CASE direction = "forward"
    <3>1. PICK g \in Seq(Steps), f \in Seq(Steps) :
            g = Front \o Passes(nf) /\ f = <<Done("finalize", 0)>>
      <4>1. Front \in Seq(Steps) /\ Passes(nf) \in Seq(Steps) /\ Done("finalize", 0) \in Steps
        BY <1>2, PartsTyped
      <4>2. Front \o Passes(nf) \in Seq(Steps)
        BY <4>1, ConcatProperties
      <4>3. <<Done("finalize", 0)>> \in Seq(Steps)
        BY <4>1
      <4> QED BY <4>2, <4>3, Zenon
    <3>2. <<d>> \in Seq(Steps)
      OBVIOUS
    <3>3. (g \o f) \o <<d>> = g \o (f \o <<d>>)
      BY <3>1, <3>2, PartsGrow
    <3>4. Back = f \o <<d>>
      BY <1>1, <1>3, <2>2, <3>1 DEF Back, Only
    <3>5. buff[in] = g \o f
      BY <1>1, <2>2, <3>1 DEF DataInv, MadeInv
    <3>6. buff'[in'] = Program
      BY <1>2, <1>5, <3>1, <3>3, <3>4, <3>5, ProgramParts
    <3> QED BY <1>1, <1>2, <2>2, <3>6 DEF MadeInv
  <2> QED BY <1>2, <2>1, <2>2 DEF CallTypes
<1> QED BY <1>5, <1>6, <1>7 DEF DataInv

LEMMA PreprocessData ==
  ASSUME DataInv, Preprocess
  PROVE  DataInv'
<1>1. /\ at = "preprocess" /\ Unchanged /\ k1' = k1 /\ k1 = 0 /\ direction = "backward"
      /\ at' = "passes"
      /\ Step(Done("preprocess", 0))
  BY DEF Preprocess, setupVars, callVars, loopVars, Unchanged, DataInv, CallTypes, Working, Stages
<1>2. /\ CallTypes /\ nf \in Nat /\ Front' = Front /\ nf' = nf /\ Passes(0)' = Passes(0)
      /\ Passes(0) = <<>> /\ Front \in Seq(Steps)
  BY <1>1, SameProgram, PartsTyped, PassesGrow DEF Unchanged, DataInv
<1>3. PICK d \in Steps : d = Done("preprocess", 0)
  BY DEF Done, Steps
<1>4. Left' = Left - 1 /\ Left \in Nat
  BY <1>1, <1>2 DEF Left, Unchanged, CallTypes
<1>5. BufferTypes' /\ PlaceInv' /\ buff'[in'] = buff[in] \o <<d>>
  BY <1>1, <1>3, <1>4, MovesKeep DEF Working
<1>6. CallTypes' /\ Stages' /\ SetupInv'
  BY <1>1, <1>2 DEF DataInv, CallTypes, Stages, SetupInv, Unchanged, Working
<1>7. MadeInv'
  <2>1. PICK c \in Seq(Steps), r \in Seq(Steps) : c = Call /\ r = Only(ordered, "reorder")
    <3>1. Call \in Seq(Steps) /\ Only(ordered, "reorder") \in Seq(Steps)
      BY <1>2, PartsTyped DEF CallTypes
    <3> QED BY <3>1
  <2>2. <<d>> \in Seq(Steps)
    OBVIOUS
  <2>3. (c \o r) \o <<d>> = c \o (r \o <<d>>)
    BY <2>1, <2>2, PartsGrow
  <2>4. Front = c \o (r \o <<d>>)
    BY <1>1, <1>3, <2>1 DEF Front
  <2>5. buff[in] = c \o r
    BY <1>1, <2>1 DEF DataInv, MadeInv
  <2>6. Front \o <<>> = Front
    BY <1>2, ConcatEmptySeq
  <2>7. buff'[in'] = Front' \o Passes(0)'
    BY <1>2, <1>5, <2>3, <2>4, <2>5, <2>6
  <2> QED BY <1>1, <2>7 DEF MadeInv
<1> QED BY <1>5, <1>6, <1>7 DEF DataInv

LEMMA JoinData ==
  ASSUME DataInv, Join
  PROVE  DataInv'
<1>1. /\ at = "join" /\ Unchanged /\ k1' = k1 /\ k1 = 0 /\ direction = "backward"
      /\ transform = "complex" /\ at' = "finish" /\ in' = in /\ out' = out
      /\ buff' = [buff EXCEPT ![in] = Append(buff[in], Done("join", 0))]
  BY DEF Join, setupVars, callVars, loopVars, Unchanged, DataInv, CallTypes, Working, Stages
<1>2. /\ CallTypes /\ nf \in Nat /\ Call' = Call /\ nf' = nf /\ Program' = Program
  BY <1>1, SameProgram, PartsTyped DEF Unchanged, DataInv
<1>3. PICK d \in Steps : d = Done("join", 0)
  BY DEF Done, Steps
<1>4. PICK s \in Seq(Steps) : s = buff[in] /\ s = Front \o Passes(nf)
  BY <1>1 DEF DataInv, BufferTypes, MadeInv
<1>5. Append(s, d) = s \o <<d>> /\ Append(s, d) \in Seq(Steps)
  BY AppendIsConcat, AppendProperties
<1>6. buff \in [Names -> Seq(Steps)] /\ in \in Names /\ in # "input" /\ "input" \in Names
  BY <1>1 DEF DataInv, BufferTypes, PlaceInv, Working, Names
<1>7. /\ buff' \in [Names -> Seq(Steps)] /\ buff'[in] = s \o <<d>>
      /\ buff'["input"] = buff["input"]
  BY <1>1, <1>3, <1>4, <1>5, <1>6
<1>8. BufferTypes'
  BY <1>1, <1>7 DEF DataInv, BufferTypes
<1>9. CallTypes' /\ Stages' /\ SetupInv'
  BY <1>1, <1>2 DEF DataInv, CallTypes, Stages, SetupInv, Unchanged, Working
<1>10. MadeInv'
  <2>1. Back = <<d>>
    BY <1>1, <1>3 DEF Back, Only
  <2>2. buff'[in'] = Program'
    BY <1>1, <1>2, <1>4, <1>7, <2>1, ProgramParts
  <2> QED BY <1>1, <2>2 DEF MadeInv
<1>11. PlaceInv'
  <2>1. Left = 0 /\ Left' = 0
    BY <1>1 DEF Left
  <2> QED BY <1>1, <1>2, <1>7, <2>1 DEF DataInv, PlaceInv, Unchanged, Working
<1> QED BY <1>8, <1>9, <1>10, <1>11 DEF DataInv

LEMMA FinishData ==
  ASSUME DataInv, Finish
  PROVE  DataInv'
<1>1. /\ at = "finish" /\ Unchanged /\ k1' = k1 /\ k1 = 0
      /\ at' = "setup" /\ in' = in /\ out' = out
      /\ buff' = [buff EXCEPT !["output"] = buff[in]]
  BY DEF Finish, setupVars, callVars, loopVars, Unchanged, DataInv, CallTypes, Working
<1>2. CallTypes /\ Call' = Call /\ nf' = nf /\ Program' = Program
  BY <1>1, SameProgram DEF Unchanged, DataInv
<1>3. buff \in [Names -> Seq(Steps)] /\ buff[in] \in Seq(Steps) /\ {"input", "output"} \subseteq Names
  BY DEF DataInv, BufferTypes, Names
<1>4. /\ buff' \in [Names -> Seq(Steps)] /\ buff'["output"] = buff[in]
      /\ buff'["input"] = buff["input"]
  BY <1>1, <1>3
<1>5. CallTypes' /\ Stages' /\ BufferTypes'
  BY <1>1, <1>2, <1>4 DEF DataInv, CallTypes, BufferTypes, Stages, Unchanged, Working
<1>6. SetupInv'
  <2>1. buff[in] = Program /\ (~in_place => buff["input"] = Call)
    BY <1>1 DEF DataInv, MadeInv, PlaceInv, Working
  <2> QED BY <1>1, <1>2, <1>4, <2>1 DEF SetupInv, Unchanged
<1>7. MadeInv' /\ PlaceInv'
  BY <1>1 DEF MadeInv, PlaceInv, Working
<1> QED BY <1>5, <1>6, <1>7 DEF DataInv

LEMMA SetupData ==
  ASSUME DataInv, decompose \/ StartTwiddles \/ Twiddles \/ EndOfSetup
  PROVE  DataInv'
<1>1. /\ at \in {"decompose", "twiddles"} /\ at' \in {"decompose", "twiddles", "setup", "null"}
      /\ at' = "setup" => k1' = 0
      /\ transform' = transform /\ direction' = direction /\ ordered' = ordered
      /\ in_place' = in_place /\ calls' = calls
      /\ buff' = buff /\ in' = in /\ out' = out
  BY DEF decompose, StartTwiddles, Twiddles, EndOfSetup, setupVars, loopVars, callVars, bufferVars
<1>2. ifac' \in Seq(Nat) /\ ntryh' \in Seq(Nat)
  <2>1. CASE decompose
    <3>1. PICK f \in Seq(Nat), t \in Seq(Nat) : f = ifac /\ t = ntryh /\ t # <<>>
      BY <2>1 DEF DataInv, CallTypes, decompose
    <3>2. Head(t) \in Nat /\ Tail(t) \in Seq(Nat)
      BY <3>1
    <3>3. ifac' = ifac \/ ifac' = Inserted(Head(t))
      BY <2>1, <3>1 DEF decompose
    <3>4. <<2>> \o f \in Seq(Nat) /\ Append(f, Head(t)) \in Seq(Nat)
      <4>1. <<2>> \in Seq(Nat)
        OBVIOUS
      <4>2. <<2>> \o f \in Seq(Nat)
        BY <4>1, ConcatProperties
      <4> QED BY <3>2, <4>2
    <3>5. ntryh' = t \/ ntryh' = Tail(t)
      BY <2>1, <3>1 DEF decompose, Untried
    <3> QED BY <3>1, <3>2, <3>3, <3>4, <3>5 DEF Inserted
  <2>2. CASE StartTwiddles \/ Twiddles \/ EndOfSetup
    BY <2>2 DEF DataInv, CallTypes, StartTwiddles, Twiddles, EndOfSetup, setupVars
  <2> QED BY <2>1, <2>2
<1>3. k1' \in Nat
  BY DEF DataInv, CallTypes, decompose, StartTwiddles, Twiddles, EndOfSetup, setupVars, loopVars
<1>4. CallTypes'
  BY <1>1, <1>2, <1>3 DEF DataInv, CallTypes, Working
<1>5. BufferTypes' /\ MadeInv' /\ PlaceInv' /\ Stages' /\ SetupInv'
  BY <1>1 DEF DataInv, BufferTypes, MadeInv, PlaceInv, Stages, SetupInv, Working
<1> QED BY <1>4, <1>5 DEF DataInv

LEMMA DataStutters ==
  ASSUME DataInv, UNCHANGED vars
  PROVE  DataInv'
<1>1. /\ UNCHANGED <<at, transform, ifac, ntryh, direction, ordered, in_place, calls, k1, buff, in, out>>
  BY DEF vars, setupVars, loopVars, callVars, bufferVars
<1>2. /\ Call' = Call /\ Front' = Front /\ Program' = Program /\ nf' = nf
      /\ \A m \in Nat : Passes(m)' = Passes(m)
  BY <1>1, SameProgram
<1>3. Passes(nf)' = Passes(nf) /\ Left' = Left
      /\ Passes(IF k1 = 0 THEN 0 ELSE k1 - 1)' = Passes(IF k1 = 0 THEN 0 ELSE k1 - 1)
  BY <1>1, <1>2 DEF Passes, Descending, Left
<1>4. CallTypes' /\ BufferTypes' /\ Stages' /\ SetupInv'
  BY <1>1, <1>2 DEF DataInv, CallTypes, BufferTypes, Stages, SetupInv
<1>5. MadeInv'
  BY <1>1, <1>2, <1>3 DEF DataInv, MadeInv
<1>6. PlaceInv'
  BY <1>1, <1>2, <1>3 DEF DataInv, PlaceInv
<1> QED BY <1>4, <1>5, <1>6 DEF DataInv

LEMMA DataInit == Init => DataInv
<1> SUFFICES ASSUME Init
             PROVE  DataInv
  OBVIOUS
<1>1. CallTypes
  <2>1. /\ at = "decompose" /\ transform \in {"real", "complex"} /\ direction = "forward"
        /\ ordered = FALSE /\ in_place = FALSE /\ calls = 0 /\ k1 = 1
        /\ ifac = <<>> /\ ntryh = Trials(transform)
    BY DEF Init
  <2>2. ntryh \in Seq(Nat) /\ ifac \in Seq(Nat)
    BY <2>1 DEF Trials
  <2>3. ordered \in BOOLEAN /\ in_place \in BOOLEAN
    BY <2>1, Zenon
  <2> QED BY <2>1, <2>2, <2>3 DEF CallTypes, Working
<1>2. BufferTypes
  BY DEF Init, BufferTypes, Names, Targets
<1>3. Stages /\ MadeInv /\ PlaceInv /\ SetupInv
  BY DEF Init, Stages, MadeInv, PlaceInv, SetupInv, Working
<1> QED BY <1>1, <1>2, <1>3 DEF DataInv

LEMMA DataStep ==
  ASSUME DataInv, [Next]_vars
  PROVE  DataInv'
<1>1. CASE \E dir \in {"forward", "backward"} : \E o, same \in BOOLEAN : Transform(dir, o, same)
  BY <1>1, TransformData
<1>2. CASE decompose \/ StartTwiddles \/ Twiddles \/ EndOfSetup
  BY <1>2, SetupData
<1>3. CASE RealForwardPass \/ RealBackwardPass \/ ComplexPass
  BY <1>3, PassData DEF RealForwardPass, RealBackwardPass, ComplexPass
<1>4. CASE Split
  BY <1>4, SplitData
<1>5. CASE StartPasses
  BY <1>5, StartPassesData
<1>6. CASE EndOfPasses
  BY <1>6, EndOfPassesData
<1>7. CASE Finalize
  BY <1>7, FinalizeData
<1>8. CASE Reorder
  BY <1>8, ReorderData
<1>9. CASE Preprocess
  BY <1>9, PreprocessData
<1>10. CASE Join
  BY <1>10, JoinData
<1>11. CASE Finish
  BY <1>11, FinishData
<1>12. CASE UNCHANGED vars
  BY <1>12, DataStutters
<1> QED BY <1>1, <1>2, <1>3, <1>4, <1>5, <1>6, <1>7, <1>8, <1>9, <1>10, <1>11, <1>12 DEF Next

\* The result of every transform is in the output, made by all the steps and by no step
\* that reads what it writes, for any number of factors.
THEOREM ResultsInOutput == Spec => []ResultInOutput
<1>1. DataInv => ResultInOutput
  <2> SUFFICES ASSUME DataInv
               PROVE  ResultInOutput
    OBVIOUS
  <2>1. ASSUME at = "finish", ~in_place PROVE in = "output"
    <3>1. Left = 0
      BY <2>1 DEF Left
    <3>2. in # out /\ out = "scratch" /\ in # "input"
      BY <2>1, <3>1 DEF DataInv, PlaceInv, Working
    <3> QED BY <3>2 DEF DataInv, BufferTypes, Names
  <2>2. at = "setup" /\ calls > 0 =>
          buff["output"] = Program /\ (~in_place => buff["input"] = <<Done("call", calls)>>)
    BY DEF DataInv, SetupInv, Call
  <2> QED BY <2>1, <2>2 DEF ResultInOutput
<1>2. Init => DataInv
  BY DataInit
<1>3. DataInv /\ [Next]_vars => DataInv'
  BY DataStep
<1> QED BY <1>1, <1>2, <1>3, PTL DEF Spec

-----------------------------------------------------------------------------
(***************************************************************************)
(* Products.                                                               *)
(***************************************************************************)
\* Induction, for the members of a set: the smallest number left out would have a
\* predecessor that is not.
LEMMA NatSetInduction ==
  ASSUME NEW S, 0 \in S, \A m \in Nat : m \in S => m + 1 \in S
  PROVE  \A m \in Nat : m \in S
<1> DEFINE T == Nat \ S
<1>1. SUFFICES ASSUME T # {} PROVE FALSE
  OBVIOUS
<1>2. PICK x \in T : \A y \in T : ~(<<y, x>> \in OpToRel(<, Nat))
  BY <1>1, NatLessThanWellFounded, WFMin
<1>3. \A y \in T : ~(y < x)
  BY <1>2 DEF OpToRel
<1>4. x # 0 /\ x \in Nat
  OBVIOUS
<1>5. x - 1 \in Nat /\ x - 1 \in S
  BY <1>3, <1>4
<1> QED BY <1>4, <1>5

\* g holds the products of up to m numbers.
ProductsUpTo(g, s, m) ==
  /\ g \in [0..m -> Nat \ {0}]
  /\ g[0] = 1
  /\ \A k \in 1..m : g[k] = g[k-1] * s[k]

Positive == Nat \ {0}

LEMMA PositiveProduct ==
  ASSUME NEW a \in Positive, NEW b \in Positive
  PROVE  a * b \in Positive /\ a * b >= a /\ a * b >= b
BY DEF Positive

\* There are such products for every sequence.
LEMMA ProductsExist ==
  ASSUME NEW s \in Seq(Positive)
  PROVE  ProductsUpTo(Products(s), s, Len(s))
<1> DEFINE S == {m \in Nat : m <= Len(s) => \E g : ProductsUpTo(g, s, m)}
<1>1. Len(s) \in Nat /\ \A k \in 1..Len(s) : s[k] \in Positive
  OBVIOUS
<1>2. 0 \in S
  <2>1. ProductsUpTo([k \in 0..0 |-> 1], s, 0)
    BY DEF ProductsUpTo
  <2> QED BY <2>1
<1>3. ASSUME NEW m \in Nat, m \in S PROVE m + 1 \in S
  <2>1. SUFFICES ASSUME m + 1 <= Len(s) PROVE \E g : ProductsUpTo(g, s, m + 1)
    OBVIOUS
  <2>2. PICK g : ProductsUpTo(g, s, m)
    BY <1>1, <1>3, <2>1
  <2>3. PICK p : p = g[m] * s[m+1]
    OBVIOUS
  <2>4. p \in Positive
    <3>1. g[m] \in Positive /\ s[m+1] \in Positive
      BY <1>1, <2>1, <2>2 DEF ProductsUpTo, Positive
    <3> QED BY <2>3, <3>1, PositiveProduct
  <2> DEFINE h == [k \in 0..m+1 |-> IF k = m + 1 THEN p ELSE g[k]]
  <2>5. h \in [0..m+1 -> Nat \ {0}]
    BY <2>2, <2>4 DEF ProductsUpTo, Positive
  <2>6. \A k \in 1..m+1 : h[k] = h[k-1] * s[k]
    <3>1. \A k \in 1..m : h[k] = g[k] /\ h[k-1] = g[k-1]
      OBVIOUS
    <3>2. h[m+1] = p /\ h[m] = g[m]
      OBVIOUS
    <3> HIDE DEF h
    <3>3. \A k \in 1..m : h[k] = h[k-1] * s[k]
      BY <2>2, <3>1 DEF ProductsUpTo
    <3>4. h[m+1] = h[(m+1)-1] * s[m+1]
      BY <2>3, <3>2
    <3> QED BY <3>3, <3>4
  <2>7. h[0] = 1
    BY <2>2 DEF ProductsUpTo
  <2> HIDE DEF h
  <2>8. ProductsUpTo(h, s, m + 1)
    BY <2>5, <2>6, <2>7 DEF ProductsUpTo
  <2> QED BY <2>8
<1>4. \A m \in Nat : m \in S
  <2> HIDE DEF S
  <2> QED BY <1>2, <1>3, NatSetInduction
<1>5. PICK g : ProductsUpTo(g, s, Len(s))
  BY <1>1, <1>4
<1>6. g = [k \in 0..Len(s) |-> IF k = 0 THEN 1 ELSE g[k-1] * s[k]]
  BY <1>1, <1>5 DEF ProductsUpTo
<1>7. PICK t : t = Products(s) /\ t = [k \in 0..Len(s) |-> IF k = 0 THEN 1 ELSE t[k-1] * s[k]]
  BY <1>6, Zenon DEF Products
<1> DEFINE U == {m \in Nat : m <= Len(s) => t[m] \in Positive}
<1>8. 0 \in U
  BY <1>1, <1>7 DEF Positive
<1>9. ASSUME NEW m \in Nat, m \in U PROVE m + 1 \in U
  <2>1. SUFFICES ASSUME m + 1 <= Len(s) PROVE t[m+1] \in Positive
    OBVIOUS
  <2>2. t[m] \in Positive /\ s[m+1] \in Positive /\ t[m+1] = t[m] * s[m+1]
    BY <1>1, <1>7, <1>9, <2>1
  <2> QED BY <2>2, PositiveProduct
<1>10. \A m \in Nat : m \in U
  <2> HIDE DEF U
  <2> QED BY <1>8, <1>9, NatSetInduction
<1>11. t \in [0..Len(s) -> Positive]
  <2>1. \A m \in 0..Len(s) : t[m] \in Positive
    BY <1>1, <1>10
  <2> QED BY <1>1, <1>7, <2>1
<1> QED BY <1>1, <1>7, <1>11 DEF ProductsUpTo, Positive

\* The products are all there is with the property.
LEMMA ProductsUnique ==
  ASSUME NEW s \in Seq(Positive), NEW r \in Seq(Positive), NEW q \in Positive, NEW d \in {0, 1},
         NEW m \in Nat, m <= Len(s), m + d <= Len(r),
         Products(r)[d] = q,
         \A k \in 1..m : r[k + d] = s[k]
  PROVE  \A k \in 0..m : Products(r)[k + d] = q * Products(s)[k]
<1>1. PICK p, t : p = Products(s) /\ t = Products(r)
  OBVIOUS
<1>2. ProductsUpTo(p, s, Len(s)) /\ ProductsUpTo(t, r, Len(r))
  BY <1>1, ProductsExist
<1>3. Len(s) \in Nat /\ Len(r) \in Nat
  OBVIOUS
<1> DEFINE S == {k \in Nat : k <= m => t[k + d] = q * p[k]}
<1>4. 0 \in S
  BY <1>1, <1>2, <1>3 DEF ProductsUpTo, Positive
<1>5. ASSUME NEW k \in Nat, k \in S PROVE k + 1 \in S
  <2>1. SUFFICES ASSUME k + 1 <= m PROVE t[k + 1 + d] = q * p[k + 1]
    OBVIOUS
  <2>2. t[k + d] = q * p[k]
    BY <1>5, <2>1
  <2>3. k + 1 \in 1..Len(s) /\ k + 1 + d \in 1..Len(r) /\ k + 1 \in 1..m
    BY <1>3, <2>1
  <2>4. /\ p[k + 1] = p[k] * s[k + 1]
        /\ t[k + 1 + d] = t[k + d] * r[k + 1 + d]
        /\ r[k + 1 + d] = s[k + 1]
    <3>1. (k + 1) - 1 = k /\ (k + 1 + d) - 1 = k + d
      OBVIOUS
    <3> QED BY <1>2, <2>3, <3>1 DEF ProductsUpTo
  <2>5. PICK a \in Nat, b \in Nat : a = p[k] /\ b = s[k + 1]
    <3>1. p[k] \in Nat
      <4>1. k \in 0..Len(s)
        BY <1>3, <2>1
      <4>2. p \in [0..Len(s) -> Nat \ {0}]
        BY <1>2 DEF ProductsUpTo
      <4> QED BY <4>1, <4>2
    <3>2. s[k + 1] \in Nat
      BY <2>3 DEF Positive
    <3> QED BY <3>1, <3>2, Zenon
  <2>6. (q * a) * b = q * (a * b)
    BY DEF Positive
  <2> QED BY <2>2, <2>4, <2>5, <2>6
<1>6. \A k \in Nat : k \in S
  <2> HIDE DEF S
  <2> QED BY <1>4, <1>5, NatSetInduction
<1> QED BY <1>1, <1>6

\* A factor at the end adds a product, one at the front changes all.
LEMMA ProductsGrow ==
  ASSUME NEW s \in Seq(Positive), NEW q \in Positive
  PROVE  /\ \A k \in 0..Len(s) : Products(Append(s, q))[k] = Products(s)[k]
         /\ Products(Append(s, q))[Len(s) + 1] = Products(s)[Len(s)] * q
         /\ Products(<<q>> \o s)[0] = 1
         /\ \A k \in 0..Len(s) : Products(<<q>> \o s)[k + 1] = q * Products(s)[k]
<1>1. PICK r : r = Append(s, q)
  OBVIOUS
<1>2. /\ r \in Seq(Positive) /\ Len(s) \in Nat /\ Len(r) = Len(s) + 1
      /\ \A k \in 1..Len(s) : r[k] = s[k]
      /\ r[Len(s) + 1] = q
  BY <1>1
<1>3. ProductsUpTo(Products(r), r, Len(r)) /\ ProductsUpTo(Products(s), s, Len(s))
  BY <1>2, ProductsExist
<1>4. ASSUME NEW k \in 0..Len(s) PROVE Products(r)[k] = Products(s)[k]
  <2>1. Products(r)[0] = 1 /\ 1 \in Positive
    BY <1>3 DEF ProductsUpTo, Positive
  <2>2. \A j \in 1..Len(s) : r[j + 0] = s[j]
    BY <1>2
  <2>3. Products(r)[k + 0] = 1 * Products(s)[k]
    <3>1. Len(s) <= Len(s) /\ Len(s) + 0 <= Len(r)
      BY <1>2
    <3>2. \A j \in 0..Len(s) : Products(r)[j + 0] = 1 * Products(s)[j]
      BY <1>2, <2>1, <2>2, <3>1, ProductsUnique
    <3> QED BY <3>2
  <2>4. Products(s)[k] \in Nat
    BY <1>2, <1>3 DEF ProductsUpTo
  <2> QED BY <2>3, <2>4
<1>5. Products(r)[Len(s) + 1] = Products(s)[Len(s)] * q
  <2>1. Products(r)[Len(s)] = Products(s)[Len(s)]
    BY <1>2, <1>4
  <2>2. Len(s) + 1 \in 1..Len(r) /\ (Len(s) + 1) - 1 = Len(s)
    BY <1>2
  <2>3. Products(r)[Len(s) + 1] = Products(r)[(Len(s) + 1) - 1] * r[Len(s) + 1]
    BY <1>3, <2>2, Zenon DEF ProductsUpTo
  <2> QED BY <1>2, <2>1, <2>2, <2>3
<1>6. PICK u : u = <<q>> \o s
  OBVIOUS
<1>7. /\ u \in Seq(Positive) /\ Len(u) = Len(s) + 1
      /\ u[1] = q /\ \A k \in 1..Len(s) : u[k + 1] = s[k]
  BY <1>2, <1>6
<1>8. ProductsUpTo(Products(u), u, Len(u))
  BY <1>7, ProductsExist
<1>9. Products(u)[0] = 1
  BY <1>8 DEF ProductsUpTo
<1>10. Products(u)[1] = q
  <2>1. 1 \in 1..Len(u) /\ 1 - 1 = 0
    BY <1>2, <1>7
  <2>2. Products(u)[1] = Products(u)[1 - 1] * u[1]
    BY <1>8, <2>1, Zenon DEF ProductsUpTo
  <2> QED BY <1>7, <1>9, <2>1, <2>2 DEF Positive
<1>11. \A k \in 0..Len(s) : Products(u)[k + 1] = q * Products(s)[k]
  <2>1. Len(s) <= Len(s) /\ Len(s) + 1 <= Len(u)
    BY <1>2, <1>7
  <2> QED BY <1>2, <1>7, <1>10, <2>1, ProductsUnique
<1> QED BY <1>1, <1>4, <1>5, <1>6, <1>9, <1>11

-----------------------------------------------------------------------------
(***************************************************************************)
(* Divisors.                                                               *)
(***************************************************************************)
LEMMA DivExact ==
  ASSUME NEW a \in Positive, NEW b \in Positive
  PROVE  /\ (a * b) \div a = b /\ (a * b) % a = 0 /\ (a * b) % b = 0
BY DEF Positive

LEMMA DivSplits ==
  ASSUME NEW a \in Positive, NEW b \in Positive, a % b = 0
  PROVE  a \div b \in Positive /\ a = b * (a \div b)
BY DEF Positive

LEMMA Multiple ==
  ASSUME NEW a \in Positive, NEW b \in Positive, a % b = 0
  PROVE  \E x \in Positive : a = b * x
<1>1. a \div b \in Positive /\ a = b * (a \div b)
  BY DivSplits
<1> QED BY <1>1

\* A divisor that has no factor q is one of what is left without it.
LEMMA Coprime ==
  ASSUME NEW q \in {2, 3, 5}, NEW d \in Nat, NEW e \in Nat, NEW c \in Nat, d * e = q * c, d % q # 0
  PROVE  e % q = 0
<1>1. PICK a \in Nat : a = d \div q
  OBVIOUS
<1>2. PICK z \in Nat : z = a * e
  OBVIOUS
<1>3. CASE q = 2
  <2>1. d = 2 * a + 1
    BY <1>1, <1>3
  <2>2. (2 * a + 1) * e = 2 * (a * e) + e
    OBVIOUS
  <2>3. 2 * z + e = 2 * c
    BY <1>2, <1>3, <2>1, <2>2
  <2> QED BY <1>2, <1>3, <2>3, SMTT(30)
<1>4. CASE q = 3
  <2>1. \E r \in {1, 2} : d = 3 * a + r
    BY <1>1, <1>4
  <2>2. \A r \in {1, 2} : (3 * a + r) * e = 3 * (a * e) + r * e
    OBVIOUS
  <2> QED BY <1>2, <1>4, <2>1, <2>2
<1>5. CASE q = 5
  <2>1. \E r \in {1, 2, 3, 4} : d = 5 * a + r
    BY <1>1, <1>5
  <2>2. \A r \in {1, 2, 3, 4} : (5 * a + r) * e = 5 * (a * e) + r * e
    OBVIOUS
  <2> QED BY <1>2, <1>5, <2>1, <2>2
<1> QED BY <1>3, <1>4, <1>5

\* A number without the factors 2, 3 and 5.
Rough(d) == d % 2 # 0 /\ d % 3 # 0 /\ d % 5 # 0

LEMMA EvenFactor ==
  ASSUME NEW d \in Nat, NEW e \in Nat, NEW c \in Nat, d * e = 2 * c, d % 2 # 0
  PROVE  e % 2 = 0
<1>1. 2 \in {2, 3, 5}
  OBVIOUS
<1> QED BY <1>1, Coprime

LEMMA RoughStays ==
  ASSUME NEW l \in Positive, NEW q \in {2, 3, 4, 5}, NEW m \in Positive, l = q * m,
         NEW d \in Positive, Rough(d), l % d = 0
  PROVE  m % d = 0
<1>1. PICK e \in Positive : l = d * e
  BY DivSplits
<1>2. d \in Nat /\ e \in Nat /\ m \in Nat
  BY DEF Positive
<1>3. CASE q \in {2, 3, 5}
  <2>1. d * e = q * m
    BY <1>1
  <2>2. d % q # 0
    BY <1>3 DEF Rough
  <2>3. e % q = 0
    BY <1>2, <1>3, <2>1, <2>2, Coprime
  <2>4. PICK x \in Positive : e = q * x
    <3>1. q \in Positive
      BY <1>3 DEF Positive
    <3> QED BY <2>3, <3>1, DivSplits
  <2>5. d * x = m
    BY <1>3, <2>1, <2>4 DEF Positive
  <2> QED BY <2>5, DivExact
<1>4. CASE q = 4
  <2>1. PICK c \in Nat : c = 2 * m /\ d * e = 2 * c
    <3>1. 2 * m \in Nat /\ d * e = 2 * (2 * m)
      BY <1>1, <1>2, <1>4
    <3> QED BY <3>1
  <2>2. d % 2 # 0
    BY DEF Rough
  <2>3. e % 2 = 0
    BY <1>2, <2>1, <2>2, EvenFactor
  <2>4. PICK x \in Positive : e = 2 * x
    BY <2>3, DivSplits DEF Positive
  <2>5. d * x = 2 * m /\ x \in Nat
    BY <2>1, <2>4 DEF Positive
  <2>6. x % 2 = 0
    BY <1>2, <2>2, <2>5, EvenFactor
  <2>7. PICK y \in Positive : x = 2 * y
    BY <2>6, DivSplits DEF Positive
  <2>8. d * y = m
    BY <2>5, <2>7 DEF Positive
  <2> QED BY <2>8, DivExact
<1> QED BY <1>3, <1>4

-----------------------------------------------------------------------------
(***************************************************************************)
(* The factors s of m, and l, what is left of it.                          *)
(***************************************************************************)
Radices == {2, 3, 4, 5}

\* What is left after the first k factors.
Quotient(s, m, k) == m \div Products(s)[k]

Factored(s, m, l) ==
  /\ s \in Seq(Radices) /\ m \in Positive /\ l \in Positive
  /\ \A k \in 0..Len(s) :
       /\ Quotient(s, m, k) \in Positive
       /\ Products(s)[k] * Quotient(s, m, k) = m
       /\ Quotient(s, m, k) % l = 0
  /\ Quotient(s, m, Len(s)) = l
  /\ \A d \in 1..m : m % d = 0 /\ Rough(d) => l % d = 0

LEMMA RadixSequences ==
  ASSUME NEW s \in Seq(Radices)
  PROVE  /\ s \in Seq(Positive) /\ s \in Seq(Nat) /\ Len(s) \in Nat
         /\ \A k \in 0..Len(s) : Products(s)[k] \in Positive
         /\ Products(s)[0] = 1
<1>1. Radices \subseteq Positive /\ Positive \subseteq Nat
  BY DEF Radices, Positive
<1>2. s \in Seq(Positive) /\ s \in Seq(Nat) /\ Len(s) \in Nat
  <2>1. Len(s) \in Nat /\ s \in [1..Len(s) -> Radices]
    OBVIOUS
  <2>2. s \in [1..Len(s) -> Positive] /\ s \in [1..Len(s) -> Nat]
    BY <1>1, <2>1
  <2> QED BY <2>1, <2>2
<1>3. ProductsUpTo(Products(s), s, Len(s))
  BY <1>2, ProductsExist
<1>4. Products(s) \in [0..Len(s) -> Positive] /\ Products(s)[0] = 1
  BY <1>3 DEF ProductsUpTo, Positive
<1> QED BY <1>2, <1>4

LEMMA NotFactored ==
  ASSUME NEW m \in Positive
  PROVE  Factored(<<>>, m, m)
<1>1. <<>> \in Seq(Radices) /\ Len(<<>>) = 0
  OBVIOUS
<1>2. Products(<<>>)[0] = 1
  BY <1>1, RadixSequences
<1>3. Quotient(<<>>, m, 0) = m
  BY <1>2 DEF Quotient, Positive
<1>4. \A k \in 0..Len(<<>>) : k = 0
  BY <1>1
<1>5. m % m = 0
  BY DEF Positive
<1>6. \A k \in 0..Len(<<>>) :
       /\ Quotient(<<>>, m, k) \in Positive
       /\ Products(<<>>)[k] * Quotient(<<>>, m, k) = m
       /\ Quotient(<<>>, m, k) % m = 0
  BY <1>2, <1>3, <1>4, <1>5 DEF Positive
<1> QED BY <1>1, <1>3, <1>6 DEF Factored

\* One factor more, at the end.
LEMMA FactoredAppend ==
  ASSUME NEW s, NEW m, NEW l, Factored(s, m, l),
         NEW q \in Radices, NEW r \in Positive, l = q * r
  PROVE  /\ Factored(Append(s, q), m, r)
         /\ Len(Append(s, q)) = Len(s) + 1
         /\ \A k \in 0..Len(s) : Quotient(Append(s, q), m, k) = Quotient(s, m, k)
         /\ Quotient(Append(s, q), m, Len(s) + 1) = r
         /\ Append(s, q)[Len(s) + 1] = q
         /\ \A k \in 1..Len(s) : Append(s, q)[k] = s[k]
<1>1. s \in Seq(Radices) /\ m \in Positive /\ l \in Positive /\ q \in Positive
  BY DEF Factored, Radices, Positive
<1>2. s \in Seq(Positive) /\ Len(s) \in Nat /\ \A k \in 0..Len(s) : Products(s)[k] \in Positive
  BY <1>1, RadixSequences
<1>3. PICK t : t = Append(s, q)
  OBVIOUS
<1>4. /\ t \in Seq(Radices) /\ Len(t) = Len(s) + 1 /\ t[Len(s) + 1] = q
      /\ \A k \in 1..Len(s) : t[k] = s[k]
  BY <1>1, <1>3
<1>5. /\ \A k \in 0..Len(s) : Products(t)[k] = Products(s)[k]
      /\ Products(t)[Len(s) + 1] = Products(s)[Len(s)] * q
  BY <1>1, <1>2, <1>3, ProductsGrow
<1>6. \A k \in 0..Len(s) : Quotient(t, m, k) = Quotient(s, m, k)
  BY <1>5 DEF Quotient
<1>7. Quotient(t, m, Len(s) + 1) = r /\ Products(t)[Len(s) + 1] * r = m
  <2>1. PICK p \in Positive : p = Products(s)[Len(s)]
    BY <1>2
  <2>2. p * l = m
    BY <1>2, <2>1 DEF Factored
  <2>3. (p * q) * r = m /\ p * q \in Positive
    BY <1>1, <2>2, PositiveProduct DEF Positive
  <2>4. m \div (p * q) = r
    BY <2>3, DivExact
  <2> QED BY <1>5, <2>1, <2>3, <2>4 DEF Quotient
<1>8. ASSUME NEW k \in 0..Len(s)
      PROVE  /\ Quotient(t, m, k) \in Positive
             /\ Products(t)[k] * Quotient(t, m, k) = m
             /\ Quotient(t, m, k) % r = 0
  <2>1. PICK u \in Positive : u = Quotient(s, m, k) /\ Products(s)[k] * u = m /\ u % l = 0
    BY DEF Factored
  <2>2. PICK x \in Positive : u = l * x
    BY <1>1, <2>1, Multiple, Zenon
  <2>3. u = r * (q * x) /\ q * x \in Positive
    BY <1>1, <2>2, PositiveProduct DEF Positive
  <2>4. u % r = 0
    BY <2>3, DivExact
  <2> QED BY <1>5, <1>6, <2>1, <2>4
<1>9. r % r = 0
  BY DEF Positive
<1>10. \A k \in 0..Len(t) :
         /\ Quotient(t, m, k) \in Positive
         /\ Products(t)[k] * Quotient(t, m, k) = m
         /\ Quotient(t, m, k) % r = 0
  <2>1. \A k \in 0..Len(t) : k \in 0..Len(s) \/ k = Len(s) + 1
    BY <1>2, <1>4
  <2> QED BY <1>7, <1>8, <1>9, <2>1
<1>11. ASSUME NEW d \in 1..m, m % d = 0, Rough(d) PROVE r % d = 0
  <2>1. d \in Positive /\ l % d = 0
    BY <1>1, <1>11 DEF Positive, Factored
  <2> QED BY <1>1, <1>11, <2>1, RoughStays DEF Radices
<1>12. Factored(t, m, r)
  BY <1>1, <1>4, <1>7, <1>10, <1>11 DEF Factored
<1> QED BY <1>3, <1>4, <1>6, <1>7, <1>12

\* A 2 more, at the front.
LEMMA FactoredInsert ==
  ASSUME NEW s, NEW m, NEW l, Factored(s, m, l), NEW r \in Positive, l = 2 * r
  PROVE  /\ Factored(<<2>> \o s, m, r)
         /\ Len(<<2>> \o s) = Len(s) + 1
         /\ \A k \in 0..Len(s) : 2 * Quotient(<<2>> \o s, m, k + 1) = Quotient(s, m, k)
         /\ (<<2>> \o s)[1] = 2
         /\ \A k \in 1..Len(s) : (<<2>> \o s)[k + 1] = s[k]
<1>1. s \in Seq(Radices) /\ m \in Positive /\ l \in Positive /\ 2 \in Positive
  BY DEF Factored, Radices, Positive
<1>2. s \in Seq(Positive) /\ Len(s) \in Nat /\ \A k \in 0..Len(s) : Products(s)[k] \in Positive
  BY <1>1, RadixSequences
<1>3. PICK t : t = <<2>> \o s
  OBVIOUS
<1>4. /\ t \in Seq(Radices) /\ Len(t) = Len(s) + 1 /\ t[1] = 2
      /\ \A k \in 1..Len(s) : t[k + 1] = s[k]
  BY <1>1, <1>2, <1>3 DEF Radices
<1>5. /\ Products(t)[0] = 1
      /\ \A k \in 0..Len(s) : Products(t)[k + 1] = 2 * Products(s)[k]
  BY <1>1, <1>2, <1>3, ProductsGrow
<1>6. ASSUME NEW k \in 0..Len(s)
      PROVE  /\ 2 * Quotient(t, m, k + 1) = Quotient(s, m, k)
             /\ Quotient(t, m, k + 1) \in Positive
             /\ Products(t)[k + 1] * Quotient(t, m, k + 1) = m
             /\ Quotient(t, m, k + 1) % r = 0
  <2>1. PICK p \in Positive : p = Products(s)[k]
    BY <1>2
  <2>2. PICK u \in Positive : u = Quotient(s, m, k) /\ p * u = m /\ u % l = 0
    BY <2>1 DEF Factored
  <2>3. PICK x \in Positive : u = l * x
    BY <1>1, <2>2, Multiple, Zenon
  <2>4. u = 2 * (r * x) /\ r * x \in Positive
    BY <1>1, <2>3, PositiveProduct DEF Positive
  <2>5. PICK y \in Positive : y = r * x /\ u = 2 * y
    BY <2>4
  <2>6. (2 * p) * y = m /\ 2 * p \in Positive
    BY <2>2, <2>5 DEF Positive
  <2>7. m \div (2 * p) = y
    BY <2>6, DivExact
  <2>8. y % r = 0
    BY <2>5, DivExact
  <2> QED BY <1>5, <2>1, <2>2, <2>5, <2>6, <2>7, <2>8 DEF Quotient
<1>7. /\ Quotient(t, m, 0) \in Positive
      /\ Products(t)[0] * Quotient(t, m, 0) = m
      /\ Quotient(t, m, 0) % r = 0
  <2>1. Quotient(t, m, 0) = m /\ 1 * m = m
    BY <1>1, <1>5 DEF Quotient, Positive
  <2>2. Quotient(s, m, 0) = m /\ 0 \in 0..Len(s)
    BY <1>1, <1>2, RadixSequences DEF Quotient, Positive
  <2>3. PICK x \in Positive : m = l * x
    <3>1. m % l = 0
      BY <1>2, <2>2 DEF Factored
    <3> QED BY <1>1, <3>1, Multiple, Zenon
  <2>4. m = r * (2 * x) /\ 2 * x \in Positive
    BY <1>1, <2>3 DEF Positive
  <2>5. m % r = 0
    BY <2>4, DivExact
  <2> QED BY <1>1, <1>5, <2>1, <2>5
<1>8. \A k \in 0..Len(t) :
         /\ Quotient(t, m, k) \in Positive
         /\ Products(t)[k] * Quotient(t, m, k) = m
         /\ Quotient(t, m, k) % r = 0
  <2>1. ASSUME NEW k \in 0..Len(t), k # 0 PROVE k - 1 \in 0..Len(s) /\ (k - 1) + 1 = k
    BY <1>2, <1>4, <2>1
  <2> QED BY <1>6, <1>7, <2>1
<1>9. Quotient(t, m, Len(t)) = r
  <2>1. Len(s) \in 0..Len(s) /\ Quotient(s, m, Len(s)) = l
    BY <1>2 DEF Factored
  <2>2. 2 * Quotient(t, m, Len(s) + 1) = l /\ Quotient(t, m, Len(s) + 1) \in Positive
    BY <1>6, <2>1
  <2> QED BY <1>4, <2>2 DEF Positive
<1>10. ASSUME NEW d \in 1..m, m % d = 0, Rough(d) PROVE r % d = 0
  <2>1. d \in Positive /\ l % d = 0
    BY <1>1, <1>10 DEF Positive, Factored
  <2> QED BY <1>10, <2>1, RoughStays, <1>1
<1>11. Factored(t, m, r)
  BY <1>1, <1>4, <1>8, <1>9, <1>10 DEF Factored
<1> QED BY <1>3, <1>4, <1>6, <1>11

-----------------------------------------------------------------------------
(***************************************************************************)
(* decompose.                                                              *)
(***************************************************************************)
\* What can still be to be tried.
Suffixes(kind) ==
  IF kind = "real" THEN {<<4, 2, 3, 5>>, <<2, 3, 5>>, <<3, 5>>, <<5>>, <<>>}
  ELSE {<<5, 3, 4, 2>>, <<3, 4, 2>>, <<4, 2>>, <<2>>, <<>>}

Pending == {ntryh[i] : i \in 1..Len(ntryh)}

\* After a 3 or a 5 of a real transform only an odd number is left, and after one of a
\* complex transform an even one: a 4 follows.  A 2 that goes before them halves it.
OrderInv ==
  /\ transform = "real" =>
       /\ 2 \in Pending => \A k \in 1..nf : ifac[k] \in {2, 4}
       /\ \A k \in 1..nf : ifac[k] \in {3, 5} => Quotient(ifac, n, k) % 2 = 1
  /\ transform = "complex" =>
       /\ n % 4 = 0
       /\ 3 \in Pending => nl % 4 = 0
       /\ \A k \in 1..nf : ifac[k] \in {3, 5} =>
            /\ Quotient(ifac, n, k) % 2 = 0
            /\ nl % 2 = 0 => Quotient(ifac, n, k) % 4 = 0

FactorInv ==
  /\ transform \in {"real", "complex"}
  /\ ntryh \in Suffixes(transform)
  /\ at # "decompose" => ntryh = <<>>
  /\ Factored(ifac, n, nl)
  /\ \A p \in Radices \ Pending : nl % p # 0
  /\ OrderInv
  /\ at = "null" => nl # 1
  /\ at \notin {"decompose", "twiddles", "null"} => nl = 1

\* The order of the trials.
LEMMA TrialOrder ==
  ASSUME ntryh \in Suffixes(transform), transform \in {"real", "complex"}, ntryh # <<>>
  PROVE  /\ Head(ntryh) \in Radices /\ Head(ntryh) \in Pending
         /\ Tail(ntryh) \in Suffixes(transform)
         /\ \A p \in Pending \ {ntryh[i] : i \in 2..Len(ntryh)} : p = Head(ntryh)
         /\ {Tail(ntryh)[i] : i \in 1..Len(Tail(ntryh))} = {ntryh[i] : i \in 2..Len(ntryh)}
         /\ Head(ntryh) = 2 => 4 \notin Pending
         /\ transform = "real" =>
              IF Head(ntryh) \in {2, 4} THEN 2 \in Pending ELSE 2 \notin Pending
         /\ transform = "complex" => (Head(ntryh) \in {3, 5} <=> 3 \in Pending)
<1>1. PICK t : t = ntryh
  OBVIOUS
<1>2. Pending = {t[i] : i \in 1..Len(t)}
  BY <1>1 DEF Pending
<1>3. CASE t = <<4, 2, 3, 5>> /\ transform = "real"
  <2>1. Head(t) = 4 /\ Tail(t) = <<2, 3, 5>> /\ Pending = {4, 2, 3, 5}
        /\ {t[i] : i \in 2..Len(t)} = {2, 3, 5}
        /\ {Tail(t)[i] : i \in 1..Len(Tail(t))} = {2, 3, 5}
    BY <1>2, <1>3
  <2> QED BY <1>1, <1>3, <2>1 DEF Suffixes, Radices
<1>4. CASE t = <<2, 3, 5>> /\ transform = "real"
  <2>1. Head(t) = 2 /\ Tail(t) = <<3, 5>> /\ Pending = {2, 3, 5}
        /\ {t[i] : i \in 2..Len(t)} = {3, 5}
        /\ {Tail(t)[i] : i \in 1..Len(Tail(t))} = {3, 5}
    BY <1>2, <1>4
  <2> QED BY <1>1, <1>4, <2>1 DEF Suffixes, Radices
<1>5. CASE t = <<3, 5>> /\ transform = "real"
  <2>1. Head(t) = 3 /\ Tail(t) = <<5>> /\ Pending = {3, 5}
        /\ {t[i] : i \in 2..Len(t)} = {5}
        /\ {Tail(t)[i] : i \in 1..Len(Tail(t))} = {5}
    BY <1>2, <1>5
  <2> QED BY <1>1, <1>5, <2>1 DEF Suffixes, Radices
<1>6. CASE t = <<5>> /\ transform = "real"
  <2>1. Head(t) = 5 /\ Tail(t) = <<>> /\ Pending = {5}
        /\ {t[i] : i \in 2..Len(t)} = {}
        /\ {Tail(t)[i] : i \in 1..Len(Tail(t))} = {}
    BY <1>2, <1>6
  <2> QED BY <1>1, <1>6, <2>1 DEF Suffixes, Radices
<1>7. CASE t = <<5, 3, 4, 2>> /\ transform = "complex"
  <2>1. Head(t) = 5 /\ Tail(t) = <<3, 4, 2>> /\ Pending = {5, 3, 4, 2}
        /\ {t[i] : i \in 2..Len(t)} = {3, 4, 2}
        /\ {Tail(t)[i] : i \in 1..Len(Tail(t))} = {3, 4, 2}
    BY <1>2, <1>7
  <2> QED BY <1>1, <1>7, <2>1 DEF Suffixes, Radices
<1>8. CASE t = <<3, 4, 2>> /\ transform = "complex"
  <2>1. Head(t) = 3 /\ Tail(t) = <<4, 2>> /\ Pending = {3, 4, 2}
        /\ {t[i] : i \in 2..Len(t)} = {4, 2}
        /\ {Tail(t)[i] : i \in 1..Len(Tail(t))} = {4, 2}
    BY <1>2, <1>8
  <2> QED BY <1>1, <1>8, <2>1 DEF Suffixes, Radices
<1>9. CASE t = <<4, 2>> /\ transform = "complex"
  <2>1. Head(t) = 4 /\ Tail(t) = <<2>> /\ Pending = {4, 2}
        /\ {t[i] : i \in 2..Len(t)} = {2}
        /\ {Tail(t)[i] : i \in 1..Len(Tail(t))} = {2}
    BY <1>2, <1>9
  <2> QED BY <1>1, <1>9, <2>1 DEF Suffixes, Radices
<1>10. CASE t = <<2>> /\ transform = "complex"
  <2>1. Head(t) = 2 /\ Tail(t) = <<>> /\ Pending = {2}
        /\ {t[i] : i \in 2..Len(t)} = {}
        /\ {Tail(t)[i] : i \in 1..Len(Tail(t))} = {}
    BY <1>2, <1>10
  <2> QED BY <1>1, <1>10, <2>1 DEF Suffixes, Radices
<1> QED BY <1>1, <1>3, <1>4, <1>5, <1>6, <1>7, <1>8, <1>9, <1>10 DEF Suffixes

\* A factor that divides is taken out.
LEMMA DivideKeeps ==
  ASSUME NEW q \in Radices, NEW l \in Positive, NEW r \in Positive, l = q * r
  PROVE  \A p \in Radices : l % p # 0 => r % p # 0
<1>1. SUFFICES ASSUME NEW p \in Radices, r % p = 0 PROVE l % p = 0
  OBVIOUS
<1>2. p \in Positive /\ q \in Positive
  BY DEF Radices, Positive
<1>3. PICK x \in Positive : r = p * x
  BY <1>1, <1>2, Multiple, Zenon
<1>4. l = p * (q * x) /\ q * x \in Positive
  BY <1>2, <1>3, PositiveProduct DEF Positive
<1> QED BY <1>2, <1>4, DivExact

\* A factor that does not divide is not tried again.
LEMMA NextFactor ==
  ASSUME FactorInv, at = "decompose", ntryh # <<>>,
         nl = 1 \/ nl % Head(ntryh) # 0,
         ntryh' = Tail(ntryh), UNCHANGED <<at, transform, N, nl, ifac>>
  PROVE  FactorInv'
<1>1. /\ Head(ntryh) \in Radices
      /\ ntryh' \in Suffixes(transform)
      /\ \A p \in Pending : p \in Pending' \/ p = Head(ntryh)
      /\ Pending' \subseteq Pending
  <2>1. Pending' = {ntryh[i] : i \in 2..Len(ntryh)}
    BY TrialOrder DEF FactorInv, Pending
  <2>2. {ntryh[i] : i \in 2..Len(ntryh)} \subseteq Pending
    BY DEF Pending
  <2> QED BY <2>1, <2>2, TrialOrder DEF FactorInv
<1>2. n' = n /\ nf' = nf
  BY DEF n, nf
<1>3. nl % Head(ntryh) # 0
  <2>1. \A q \in Radices : 1 % q # 0
    BY DEF Radices
  <2> QED BY <1>1, <2>1
<1>4. \A p \in Radices \ Pending' : nl % p # 0
  BY <1>1, <1>3 DEF FactorInv
<1>5. OrderInv'
  BY <1>1, <1>2 DEF FactorInv, OrderInv
<1> QED BY <1>1, <1>2, <1>4, <1>5 DEF FactorInv

\* One that divides becomes the last factor.
LEMMA LastFactor ==
  ASSUME FactorInv, at = "decompose", ntryh # <<>>,
         nl # 1, nl % Head(ntryh) = 0, Head(ntryh) # 2,
         nl' = nl \div Head(ntryh), ifac' = Append(ifac, Head(ntryh)),
         UNCHANGED <<at, transform, N, ntryh>>
  PROVE  FactorInv'
<1>1. PICK q \in Radices : q = Head(ntryh)
  BY TrialOrder DEF FactorInv
<1>2. PICK l \in Positive, r \in Positive : l = nl /\ r = nl' /\ l = q * r
  <2>1. nl \in Positive /\ q \in Positive
    BY DEF FactorInv, Factored, Radices, Positive
  <2>2. nl' \in Positive /\ nl = q * nl'
    BY <1>1, <2>1, DivSplits
  <2> QED BY <2>1, <2>2, Zenon
<1>3. PICK s, m : s = ifac /\ m = n /\ Factored(s, m, l)
  BY <1>2 DEF FactorInv
<1>4. n' = m /\ Pending' = Pending /\ ifac' = Append(s, q)
  BY <1>1, <1>3 DEF n, Pending
<1>5. /\ Factored(ifac', m, r)
      /\ nf' = nf + 1 /\ nf = Len(s)
      /\ \A k \in 0..nf : Quotient(ifac', m, k) = Quotient(ifac, m, k)
      /\ Quotient(ifac', m, nf + 1) = r
      /\ ifac'[nf + 1] = q
      /\ \A k \in 1..nf : ifac'[k] = ifac[k]
  BY <1>2, <1>3, <1>4, FactoredAppend DEF nf
<1>6. nf \in Nat
  BY <1>3, <1>5, RadixSequences DEF Factored
<1>7. \A p \in Radices \ Pending : r % p # 0
  BY <1>2, DivideKeeps DEF FactorInv
<1>8. \A k \in 1..nf' : k \in 1..nf \/ k = nf + 1
  BY <1>5, <1>6
<1>9. OrderInv'
  <2>1. CASE transform = "real"
    <3>1. 2 \in Pending => \A k \in 1..nf' : ifac'[k] \in {2, 4}
      <4>1. 2 \in Pending => q = 4
        BY <1>1, <2>1, TrialOrder DEF FactorInv
      <4> QED BY <1>5, <1>8, <2>1, <4>1 DEF FactorInv, OrderInv
    <3>2. q \in {3, 5} => r % 2 = 1
      <4>1. q \in {3, 5} => 2 \notin Pending
        BY <1>1, <2>1, TrialOrder DEF FactorInv
      <4>2. 2 \notin Pending => r % 2 # 0
        BY <1>7 DEF Radices
      <4> QED BY <4>1, <4>2 DEF Positive
    <3>3. \A k \in 1..nf' : ifac'[k] \in {3, 5} => Quotient(ifac', m, k) % 2 = 1
      BY <1>3, <1>5, <1>6, <1>8, <2>1, <3>2 DEF FactorInv, OrderInv
    <3> QED BY <1>4, <2>1, <3>1, <3>3 DEF OrderInv
  <2>2. CASE transform = "complex"
    <3>1. m % 4 = 0
      BY <1>3, <2>2 DEF FactorInv, OrderInv
    <3>2. q \in {3, 5} => r % 4 = 0
      <4>1. q \in {3, 5} => l % 4 = 0
        BY <1>1, <1>2, <2>2, TrialOrder DEF FactorInv, OrderInv
      <4>2. CASE q = 3
        BY <1>2, <4>1, <4>2, SMTT(30) DEF Positive
      <4>3. CASE q = 5
        BY <1>2, <4>1, <4>3, SMTT(30) DEF Positive
      <4> QED BY <4>2, <4>3
    <3>3. 3 \in Pending => r % 4 = 0
      <4>1. 3 \in Pending => q \in {3, 5}
        BY <1>1, <2>2, TrialOrder DEF FactorInv
      <4> QED BY <3>2, <4>1
    <3>4. r % 2 = 0 => l % 2 = 0
      <4>1. l % 2 # 0 => r % 2 # 0
        BY <1>2, DivideKeeps DEF Radices
      <4> QED BY <4>1
    <3>5. ASSUME NEW k \in 1..nf', ifac'[k] \in {3, 5}
          PROVE  /\ Quotient(ifac', m, k) % 2 = 0
                 /\ r % 2 = 0 => Quotient(ifac', m, k) % 4 = 0
      <4>1. CASE k \in 1..nf
        BY <1>2, <1>3, <1>5, <1>6, <2>2, <3>4, <3>5, <4>1 DEF FactorInv, OrderInv
      <4>2. CASE k = nf + 1
        <5>1. r % 4 = 0
          BY <1>5, <3>2, <3>5, <4>2
        <5> QED BY <1>5, <4>2, <5>1 DEF Positive
      <4> QED BY <1>8, <4>1, <4>2
    <3> QED BY <1>2, <1>4, <2>2, <3>1, <3>3, <3>5 DEF OrderInv
  <2> QED BY <2>1, <2>2 DEF FactorInv
<1> QED BY <1>2, <1>4, <1>5, <1>7, <1>9 DEF FactorInv

\* A 2 that divides becomes the first.
LEMMA FirstFactor ==
  ASSUME FactorInv, at = "decompose", ntryh # <<>>,
         nl # 1, nl % 2 = 0, Head(ntryh) = 2,
         nl' = nl \div 2, ifac' = Inserted(2),
         UNCHANGED <<at, transform, N, ntryh>>
  PROVE  FactorInv'
<1>1. 2 \in Radices /\ 2 \in Positive /\ 4 \in Radices
  BY DEF Radices, Positive
<1>2. PICK l \in Positive, r \in Positive : l = nl /\ r = nl' /\ l = 2 * r
  <2>1. nl \in Positive
    BY DEF FactorInv, Factored
  <2>2. nl' \in Positive /\ nl = 2 * nl'
    BY <1>1, <2>1, DivSplits
  <2> QED BY <2>1, <2>2, Zenon
<1>3. PICK s, m : s = ifac /\ m = n /\ Factored(s, m, l)
  BY <1>2 DEF FactorInv
<1>4. n' = m /\ Pending' = Pending /\ ifac' = <<2>> \o s
  BY <1>3 DEF n, Pending, Inserted
<1>5. /\ Factored(ifac', m, r)
      /\ nf' = nf + 1 /\ nf = Len(s)
      /\ \A k \in 0..nf : 2 * Quotient(ifac', m, k + 1) = Quotient(ifac, m, k)
      /\ ifac'[1] = 2
      /\ \A k \in 1..nf : ifac'[k + 1] = ifac[k]
  <2>1. /\ Factored(<<2>> \o s, m, r)
        /\ Len(<<2>> \o s) = Len(s) + 1
        /\ \A k \in 0..Len(s) : 2 * Quotient(<<2>> \o s, m, k + 1) = Quotient(s, m, k)
        /\ (<<2>> \o s)[1] = 2
        /\ \A k \in 1..Len(s) : (<<2>> \o s)[k + 1] = s[k]
    BY <1>2, <1>3, FactoredInsert
  <2>2. nf' = Len(<<2>> \o s) /\ nf = Len(s)
    BY <1>3, <1>4 DEF nf
  <2> QED BY <1>3, <1>4, <2>1, <2>2, Zenon
<1>6. nf \in Nat
  BY <1>3, <1>5, RadixSequences DEF Factored
<1>7. \A p \in Radices \ Pending : r % p # 0
  BY <1>1, <1>2, DivideKeeps DEF FactorInv
<1>8. ASSUME NEW k \in 1..nf', k # 1
      PROVE  /\ k - 1 \in 1..nf /\ k \in 0..nf'
             /\ ifac'[k] = ifac[k - 1] /\ 2 * Quotient(ifac', m, k) = Quotient(ifac, m, k - 1)
  <2>1. PICK j \in 1..nf : j = k - 1 /\ k = j + 1
    BY <1>5, <1>6, <1>8
  <2>2. ifac'[j + 1] = ifac[j] /\ 2 * Quotient(ifac', m, j + 1) = Quotient(ifac, m, j)
    BY <1>5, <1>6, <2>1
  <2> QED BY <1>5, <1>6, <2>1, <2>2
<1>9. OrderInv'
  <2>1. CASE transform = "real"
    <3>1. 2 \in Pending
      BY <2>1, TrialOrder DEF FactorInv
    <3>2. \A k \in 1..nf : ifac[k] \in {2, 4}
      BY <2>1, <3>1 DEF FactorInv, OrderInv
    <3>3. \A k \in 1..nf' : ifac'[k] \in {2, 4}
      BY <1>5, <1>8, <3>2
    <3>4. \A k \in 1..nf' : ifac'[k] \notin {3, 5}
      BY <3>3
    <3> QED BY <2>1, <3>3, <3>4, Zenon DEF OrderInv
  <2>2. CASE transform = "complex"
    <3>1. m % 4 = 0
      BY <1>3, <2>2 DEF FactorInv, OrderInv
    <3>2. l % 4 # 0
      <4>1. 4 \notin Pending
        BY TrialOrder DEF FactorInv
      <4> QED BY <1>1, <1>2, <4>1 DEF FactorInv
    <3>3. r % 2 # 0
      BY <1>2, <3>2 DEF Positive
    <3>4. 3 \notin Pending
      BY <1>2, <2>2, <3>2 DEF FactorInv, OrderInv
    <3>5. ASSUME NEW k \in 1..nf', ifac'[k] \in {3, 5} PROVE Quotient(ifac', m, k) % 2 = 0
      <4>1. k # 1
        BY <1>5, <3>5
      <4>2. PICK j \in 1..nf : j = k - 1 /\ ifac[j] \in {3, 5}
                               /\ 2 * Quotient(ifac', m, k) = Quotient(ifac, m, j)
        BY <1>8, <3>5, <4>1
      <4>3. Quotient(ifac, m, j) % 4 = 0
        BY <1>2, <1>3, <2>2, <4>2 DEF FactorInv, OrderInv
      <4>4. Quotient(ifac', m, k) \in Positive
        BY <1>5, <1>8, <4>1 DEF Factored, nf
      <4> QED BY <4>2, <4>3, <4>4 DEF Positive
    <3> QED BY <1>2, <1>4, <2>2, <3>1, <3>3, <3>4, <3>5 DEF OrderInv
  <2> QED BY <2>1, <2>2 DEF FactorInv
<1> QED BY <1>2, <1>4, <1>5, <1>7, <1>9 DEF FactorInv

LEMMA FactorInit == Init => FactorInv
<1> SUFFICES ASSUME Init
             PROVE  FactorInv
  OBVIOUS
<1>1. /\ transform \in {"real", "complex"} /\ N \in Nat \ {0}
      /\ at = "decompose" /\ nl = n /\ ntryh = Trials(transform) /\ ifac = <<>>
      /\ N % (IF transform = "real" THEN 32 ELSE 16) = 0
  BY FFTAssumption DEF Init, SIMD_SZ
<1>2. n \in Positive /\ (transform = "complex" => n % 4 = 0)
  <2>1. CASE transform = "real"
    BY <1>1, <2>1 DEF n, SIMD_SZ, Positive
  <2>2. CASE transform = "complex"
    BY <1>1, <2>2 DEF n, SIMD_SZ, Positive
  <2> QED BY <1>1, <2>1, <2>2
<1>3. Factored(ifac, n, nl)
  BY <1>1, <1>2, NotFactored
<1>4. ntryh \in Suffixes(transform)
  BY <1>1 DEF Trials, Suffixes
<1>5. Radices \ Pending = {}
  <2>1. CASE ntryh = <<4, 2, 3, 5>>
    BY <2>1 DEF Pending, Radices
  <2>2. CASE ntryh = <<5, 3, 4, 2>>
    BY <2>2 DEF Pending, Radices
  <2> QED BY <1>1, <2>1, <2>2 DEF Trials
<1>6. nf = 0
  BY <1>1 DEF nf
<1> QED BY <1>1, <1>2, <1>3, <1>4, <1>5, <1>6 DEF FactorInv, OrderInv

LEMMA FactorStep ==
  ASSUME FactorInv, CallTypes, [Next]_vars
  PROVE  FactorInv'
<1>1. CASE decompose
  <2>1. /\ at = "decompose" /\ ntryh # <<>> /\ UNCHANGED <<at, transform, N>>
        /\ nl \in Positive /\ Head(ntryh) \in Radices
    BY <1>1, TrialOrder DEF FactorInv, Factored, decompose
  <2>2. CASE nl # 1 /\ nl % Head(ntryh) = 0
    <3>1. nl' = nl \div Head(ntryh) /\ ifac' = Inserted(Head(ntryh)) /\ ntryh' = ntryh
      BY <1>1, <2>2 DEF decompose, Untried
    <3>2. CASE Head(ntryh) = 2
      BY <2>1, <2>2, <3>1, <3>2, FirstFactor DEF Inserted
    <3>3. CASE Head(ntryh) # 2
      BY <2>1, <2>2, <3>1, <3>3, LastFactor DEF Inserted
    <3> QED BY <3>2, <3>3
  <2>3. CASE ~(nl # 1 /\ nl % Head(ntryh) = 0)
    <3>1. nl' = nl /\ ifac' = ifac /\ ntryh' = Tail(ntryh)
      BY <1>1, <2>3 DEF decompose, Untried
    <3> QED BY <2>1, <2>3, <3>1, NextFactor
  <2> QED BY <2>2, <2>3
<1>2. CASE UNCHANGED <<transform, N, nl, ntryh, ifac>> /\ (at = "decompose" => at' = "decompose" \/ ntryh = <<>>)
           /\ (at' = "null" => at = "null" \/ nl # 1)
           /\ (at' \notin {"decompose", "twiddles", "null"} => at \notin {"decompose", "twiddles", "null"} \/ nl = 1)
  <2>1. n' = n /\ nf' = nf /\ Pending' = Pending
    BY <1>2 DEF n, nf, Pending
  <2>2. OrderInv'
    BY <1>2, <2>1 DEF FactorInv, OrderInv
  <2> QED BY <1>2, <2>1, <2>2 DEF FactorInv
<1>3. CASE EndOfSetup
  <2>1. UNCHANGED <<transform, N, nl, ntryh, ifac>> /\ at = "twiddles"
        /\ at' = IF Products(ifac)[nf] = n THEN "setup" ELSE "null"
    BY <1>3 DEF EndOfSetup, setupVars
  <2>2. Products(ifac)[nf] = n <=> nl = 1
    <3>1. PICK s \in Seq(Radices), m \in Positive, l \in Positive : s = ifac /\ m = n /\ l = nl /\ Factored(s, m, l)
      <4>1. ifac \in Seq(Radices) /\ n \in Positive /\ nl \in Positive /\ Factored(ifac, n, nl)
        BY DEF FactorInv, Factored
      <4> QED BY <4>1, Zenon
    <3>2. PICK p \in Positive : p = Products(s)[Len(s)] /\ p * l = m
      BY <3>1, RadixSequences DEF Factored
    <3>3. p = m <=> l = 1
      BY <3>2 DEF Positive
    <3> QED BY <3>1, <3>2, <3>3 DEF nf
  <2> QED BY <1>2, <2>1, <2>2
<1>4. CASE StartTwiddles
  BY <1>2, <1>4 DEF StartTwiddles, setupVars
<1>5. CASE Twiddles
  BY <1>2, <1>5 DEF Twiddles
<1>6. CASE \E dir \in {"forward", "backward"} : \E o, same \in BOOLEAN : Transform(dir, o, same)
  <2>1. /\ UNCHANGED <<transform, N, nl, ntryh, ifac>> /\ at = "setup"
        /\ transform \in {"real", "complex"}
    BY <1>6 DEF Transform, setupVars, FactorInv
  <2>2. at' \in {"passes", "split", "reorder", "preprocess"}
    BY <1>6, <2>1 DEF Transform
  <2> QED BY <1>2, <2>1, <2>2
<1>7. CASE Split \/ StartPasses \/ Finalize \/ Reorder \/ Preprocess
  BY <1>2, <1>7 DEF Split, StartPasses, Finalize, Reorder, Preprocess, setupVars
<1>8. CASE RealForwardPass \/ RealBackwardPass \/ ComplexPass
  BY <1>2, <1>8 DEF RealForwardPass, RealBackwardPass, ComplexPass, Pass, setupVars
<1>9. CASE Join \/ Finish
  BY <1>2, <1>9 DEF Join, Finish, setupVars
<1>10. CASE UNCHANGED vars
  BY <1>2, <1>10 DEF vars, setupVars
<1>11. CASE EndOfPasses
  <2>1. UNCHANGED <<transform, N, nl, ntryh, ifac>> /\ at = "passes"
    BY <1>11 DEF EndOfPasses, setupVars
  <2>2. nl = 1
    BY <2>1 DEF FactorInv
  <2>3. at' # "null"
    BY <1>11 DEF EndOfPasses, CallTypes
  <2> QED BY <1>2, <2>1, <2>2, <2>3
<1> QED BY <1>1, <1>3, <1>4, <1>5, <1>6, <1>7, <1>8, <1>9, <1>10, <1>11 DEF Next

-----------------------------------------------------------------------------
(***************************************************************************)
(* The walk through the factors and the table.                             *)
(***************************************************************************)
\* One factor more or less.
LEMMA FactorBetween ==
  ASSUME NEW s, NEW m, NEW l, Factored(s, m, l), NEW k \in 1..Len(s)
  PROVE  /\ s[k] \in Radices
         /\ Products(s)[k-1] \in Positive /\ Products(s)[k] \in Positive
         /\ Products(s)[k] = Products(s)[k-1] * s[k]
         /\ Products(s)[k] \div s[k] = Products(s)[k-1]
         /\ Quotient(s, m, k) \in Positive /\ Quotient(s, m, k-1) \in Positive
         /\ Quotient(s, m, k-1) = s[k] * Quotient(s, m, k)
         /\ Quotient(s, m, k-1) <= m /\ Quotient(s, m, k) <= m
<1>1. s \in Seq(Radices) /\ m \in Positive /\ s[k] \in Radices /\ Len(s) \in Nat
  BY DEF Factored
<1>2. s \in Seq(Positive) /\ s[k] \in Positive
  BY <1>1, RadixSequences DEF Radices, Positive
<1>3. k \in 0..Len(s) /\ k - 1 \in 0..Len(s)
  BY <1>1
<1>4. PICK a \in Positive, b \in Positive : a = Products(s)[k-1] /\ b = Products(s)[k]
  BY <1>1, <1>3, RadixSequences, Zenon
<1>5. b = a * s[k]
  BY <1>2, <1>4, ProductsExist DEF ProductsUpTo
<1>6. PICK u \in Positive, v \in Positive : u = Quotient(s, m, k-1) /\ v = Quotient(s, m, k)
  BY <1>3, Zenon DEF Factored
<1>7. a * u = m /\ b * v = m
  BY <1>3, <1>4, <1>6 DEF Factored
<1>8. PICK q \in Positive : q = s[k]
  BY <1>2
<1>9. b \div q = a
  <2>1. b = q * a
    BY <1>5, <1>8 DEF Positive
  <2> QED BY <2>1, DivExact
<1>10. u = q * v
  <2>1. a * u = a * (q * v) /\ q * v \in Positive
    <3>1. q * v \in Positive
      BY PositiveProduct
    <3>2. (a * q) * v = a * (q * v)
      BY DEF Positive
    <3> QED BY <1>5, <1>7, <1>8, <3>1, <3>2
  <2>2. (a * u) \div a = u /\ (a * (q * v)) \div a = q * v
    BY <2>1, DivExact
  <2> QED BY <2>1, <2>2
<1>11. u <= m /\ v <= m
  BY <1>7, PositiveProduct
<1> QED BY <1>1, <1>4, <1>5, <1>6, <1>8, <1>9, <1>10, <1>11

Width == IF transform = "real" THEN 1 ELSE 2

\* How many factors are on the one side of where a loop is.
Behind == IF at = "passes" /\ Descending THEN nf - k1 + 1 ELSE k1 - 1

\* What the loops keep: the product of the factors, and a place in the table.
WalkInv ==
  /\ at = "decompose" => k1 = 1 /\ len = 1 /\ iw = 0
  /\ at = "twiddles" => k1 \in 1..nf+1
  /\ at = "twiddles" \/ (at = "passes" /\ k1 > 0) =>
       /\ len = Products(ifac)[Behind]
       /\ iw = Width * (n - Quotient(ifac, n, Behind))

\* What a pass is asked for.
LEMMA PassPlan ==
  ASSUME CallTypes, FactorInv, WalkInv, at = "passes", k1 \in 1..nf
  PROVE  /\ factor \in 1..nf /\ ifac[factor] \in Radices
         /\ l1 = Products(ifac)[factor - 1]
         /\ l1 * ifac[factor] = Products(ifac)[factor]
         /\ ido = Quotient(ifac, n, factor)
         /\ place = Width * (n - Quotient(ifac, n, factor - 1))
         /\ place + cells = Width * (n - Quotient(ifac, n, factor))
<1>1. PICK s \in Seq(Radices), m \in Positive : s = ifac /\ m = n
  <2>1. ifac \in Seq(Radices) /\ n \in Positive
    BY DEF FactorInv, Factored
  <2> QED BY <2>1, Zenon
<1>2. Factored(s, m, nl) /\ nf = Len(s) /\ nf \in Nat
  BY <1>1, RadixSequences DEF FactorInv, nf
<1>3. PICK f \in 1..Len(s) : f = factor
  <2>1. factor \in 1..nf
    BY <1>2 DEF factor
  <2> QED BY <1>2, <2>1, Zenon
<1>4. f = IF Descending THEN Behind ELSE Behind + 1
  BY <1>2, <1>3 DEF factor, Behind
<1>5. PICK a \in Positive, b \in Positive, u \in Positive, v \in Positive, q \in Radices :
        /\ a = Products(s)[f-1] /\ b = Products(s)[f]
        /\ u = Quotient(s, m, f-1) /\ v = Quotient(s, m, f)
        /\ q = s[f]
  <2>1. /\ Products(s)[f-1] \in Positive /\ Products(s)[f] \in Positive
        /\ Quotient(s, m, f-1) \in Positive /\ Quotient(s, m, f) \in Positive
        /\ s[f] \in Radices
    BY <1>2, FactorBetween
  <2> QED BY <2>1, Zenon
<1>6. b = a * q /\ b \div q = a /\ u = q * v /\ u <= m /\ v <= m
  BY <1>2, <1>5, FactorBetween
<1>7. m \div b = v
  BY <1>5 DEF Quotient
<1>8. Behind = IF Descending THEN f ELSE f - 1
  BY <1>3, <1>4, <1>2 DEF Behind
<1>9. /\ len = IF Descending THEN b ELSE a
      /\ iw = Width * (m - IF Descending THEN v ELSE u)
  BY <1>1, <1>5, <1>8 DEF WalkInv
<1>10. l1 = a
  BY <1>1, <1>3, <1>5, <1>6, <1>9 DEF l1
<1>11. ido = v
  BY <1>1, <1>3, <1>5, <1>6, <1>7, <1>10 DEF ido
<1>12. cells = Width * (u - v)
  <2>1. (q - 1) * v = u - v /\ (q - 1) * (2 * v) = 2 * (u - v)
    BY <1>6 DEF Radices, Positive
  <2>2. cells = (q - 1) * (IF transform = "real" THEN v ELSE 2 * v)
    BY <1>1, <1>3, <1>5, <1>11 DEF cells
  <2>3. CASE transform = "real"
    BY <2>1, <2>2, <2>3 DEF Width, Positive
  <2>4. CASE transform # "real"
    BY <2>1, <2>2, <2>4 DEF Width
  <2> QED BY <2>3, <2>4
<1>13. place = Width * (m - u) /\ place + cells = Width * (m - v)
  <2>1. Descending => Width = 1
    BY DEF Descending, Width
  <2>2. CASE Descending
    BY <1>9, <1>12, <2>1, <2>2 DEF place, Positive
  <2>3. CASE ~Descending
    BY <1>9, <1>12, <2>3 DEF place, Positive, Width
  <2> QED BY <2>2, <2>3
<1> QED BY <1>1, <1>2, <1>3, <1>5, <1>6, <1>10, <1>11, <1>13

\* No butterfly is asked for what it cannot do.
LEMMA FitFollows ==
  ASSUME CallTypes, FactorInv, WalkInv
  PROVE  FactorsFit
<1>1. PICK s \in Seq(Radices), m \in Positive, l \in Positive : s = ifac /\ m = n /\ l = nl
  <2>1. ifac \in Seq(Radices) /\ n \in Positive /\ nl \in Positive
    BY DEF FactorInv, Factored
  <2> QED BY <2>1, Zenon
<1>2. Factored(s, m, l)
  BY <1>1 DEF FactorInv
<1>3. ASSUME at = "null"
      PROVE  \E d \in 2..m : m % d = 0 /\ \A p \in {2, 3, 5} : d % p # 0
  <2>1. ntryh = <<>> /\ l # 1
    BY <1>1, <1>3 DEF FactorInv
  <2>2. Pending = {}
    BY <2>1 DEF Pending
  <2>3. \A p \in {2, 3, 5} : l % p # 0
    BY <1>1, <2>2 DEF FactorInv, Radices
  <2>4. m % l = 0 /\ l <= m
    <3>1. PICK p \in Positive : p = Products(s)[Len(s)] /\ p * l = m
      BY <1>2, RadixSequences DEF Factored
    <3> QED BY <3>1, DivExact, PositiveProduct
  <2>5. l \in 2..m
    BY <2>1, <2>4 DEF Positive
  <2> QED BY <2>3, <2>4, <2>5, Zenon
<1>4. ASSUME at \notin {"decompose", "twiddles", "null"}, NEW d \in 2..m, m % d = 0
      PROVE  \E p \in {2, 3, 5} : d % p = 0
  <2>1. l = 1
    BY <1>1, <1>4 DEF FactorInv
  <2>2. Rough(d) => 1 % d = 0
    BY <1>2, <1>4, <2>1 DEF Factored, Positive
  <2> QED BY <2>2 DEF Rough
<1>5. ASSUME at = "passes", k1 \in 1..nf, ifac[factor] \in {3, 5}
      PROVE  IF transform = "real" THEN ido % 2 = 1 ELSE ido > 1
  <2>1. factor \in 1..nf /\ ido = Quotient(ifac, n, factor)
    BY <1>5, PassPlan
  <2>2. Quotient(s, m, factor) \in Positive
    BY <1>1, <1>2, <2>1, FactorBetween DEF nf
  <2>3. CASE transform = "real"
    BY <1>5, <2>1, <2>3 DEF FactorInv, OrderInv
  <2>4. CASE transform = "complex"
    <3>1. ido \in Positive /\ ido % 2 = 0
      BY <1>1, <1>5, <2>1, <2>2, <2>4 DEF FactorInv, OrderInv
    <3> QED BY <2>4, <3>1 DEF Positive
  <2> QED BY <2>3, <2>4 DEF FactorInv
<1> QED BY <1>1, <1>3, <1>4, <1>5 DEF FactorsFit

\* What a round of the loop that makes the table goes by.
LEMMA RoundPlan ==
  ASSUME FactorInv, WalkInv, Twiddles
  PROVE  /\ k1 \in 1..nf /\ nf \in Nat /\ ifac[k1] \in Radices
         /\ len = Products(ifac)[k1 - 1]
         /\ n \div (len * ifac[k1]) = Quotient(ifac, n, k1)
         /\ iw = Width * (n - Quotient(ifac, n, k1 - 1))
         /\ len' = Products(ifac)[k1]
         /\ iw' = Width * (n - Quotient(ifac, n, k1))
         /\ iw' = iw + Width * ((ifac[k1] - 1) * Quotient(ifac, n, k1))
<1>1. PICK s \in Seq(Radices), m \in Positive : s = ifac /\ m = n
  <2>1. ifac \in Seq(Radices) /\ n \in Positive
    BY DEF FactorInv, Factored
  <2> QED BY <2>1, Zenon
<1>2. Factored(s, m, nl) /\ nf = Len(s) /\ nf \in Nat
  BY <1>1, RadixSequences DEF FactorInv, nf
<1>3. at = "twiddles" /\ k1 \in 1..nf+1 /\ k1 <= nf
  BY <1>2 DEF WalkInv, Twiddles
<1>4. PICK f \in 1..Len(s) : f = k1
  <2>1. k1 \in 1..nf
    BY <1>2, <1>3
  <2> QED BY <1>2, <2>1, Zenon
<1>5. PICK a \in Positive, b \in Positive, u \in Positive, v \in Positive, q \in Radices :
        /\ a = Products(s)[f-1] /\ b = Products(s)[f]
        /\ u = Quotient(s, m, f-1) /\ v = Quotient(s, m, f)
        /\ q = s[f]
  <2>1. /\ Products(s)[f-1] \in Positive /\ Products(s)[f] \in Positive
        /\ Quotient(s, m, f-1) \in Positive /\ Quotient(s, m, f) \in Positive
        /\ s[f] \in Radices
    BY <1>2, FactorBetween
  <2> QED BY <2>1, Zenon
<1>6. b = a * q /\ u = q * v /\ u <= m /\ v <= m
  BY <1>2, <1>5, FactorBetween
<1>7. len = a /\ iw = Width * (m - u)
  BY <1>1, <1>3, <1>4, <1>5 DEF WalkInv, Behind
<1>8. n \div (len * ifac[k1]) = v
  BY <1>1, <1>4, <1>5, <1>6, <1>7 DEF Quotient
<1>9. len' = b
  BY <1>1, <1>4, <1>5, <1>6, <1>7 DEF Twiddles
<1>10. iw' = iw + (q - 1) * (IF transform = "real" THEN v ELSE 2 * v)
  BY <1>1, <1>4, <1>5, <1>8 DEF Twiddles
<1>11. (q - 1) * v = u - v /\ (q - 1) * (2 * v) = 2 * (u - v)
  BY <1>6 DEF Radices, Positive
<1>12. iw' = iw + Width * (u - v)
  BY <1>10, <1>11 DEF Width, Positive
<1>13. iw' = Width * (m - v)
  BY <1>7, <1>12 DEF Width, Positive
<1> QED BY <1>1, <1>2, <1>4, <1>5, <1>7, <1>8, <1>9, <1>11, <1>12, <1>13

LEMMA WalkInit == Init => WalkInv
BY DEF Init, WalkInv

\* Before the first factor and after the last one.
LEMMA WalkEnds ==
  ASSUME FactorInv
  PROVE  /\ nf \in Nat /\ n \in Positive
         /\ Products(ifac)[0] = 1 /\ Quotient(ifac, n, 0) = n
         /\ nl = 1 => Products(ifac)[nf] = n /\ Quotient(ifac, n, nf) = 1
<1>1. /\ ifac \in Seq(Radices) /\ n \in Positive /\ Factored(ifac, n, nl)
  BY DEF FactorInv, Factored
<1>2. nf \in Nat /\ Products(ifac)[0] = 1 /\ nf = Len(ifac)
  BY <1>1, RadixSequences DEF nf
<1>3. PICK m \in Positive : m = n
  BY <1>1
<1>4. Quotient(ifac, m, 0) = m
  BY <1>2 DEF Quotient, Positive
<1>5. PICK p \in Positive : p = Products(ifac)[nf]
  BY <1>1, <1>2, RadixSequences
<1>6. p * nl = m /\ Quotient(ifac, m, nf) = nl
  BY <1>1, <1>2, <1>3, <1>5 DEF Factored
<1>7. nl = 1 => p = m
  BY <1>6 DEF Positive
<1> QED BY <1>2, <1>3, <1>4, <1>5, <1>6, <1>7

\* A step outside of the loops.
LEMMA WalkElsewhere ==
  ASSUME at' \notin {"decompose", "twiddles"}, at' = "passes" => k1' = 0
  PROVE  WalkInv'
BY DEF WalkInv

LEMMA WalkStep ==
  ASSUME CallTypes, FactorInv, WalkInv, [Next]_vars
  PROVE  WalkInv'
<1>1. CASE UNCHANGED <<at, transform, N, ifac, direction, k1, len, iw>>
  <2>1. Behind' = Behind /\ Width' = Width /\ n' = n /\ nf' = nf
    BY <1>1 DEF Behind, Width, Descending, n, nf
  <2> QED BY <1>1, <2>1 DEF WalkInv
<1>2. CASE decompose
  BY <1>2 DEF decompose, loopVars, WalkInv
<1>3. CASE StartTwiddles
  <2>1. /\ UNCHANGED <<N, transform, ifac, k1, len, iw>>
        /\ at' = "twiddles" /\ k1 = 1 /\ len = 1 /\ iw = 0
    BY <1>3 DEF StartTwiddles, setupVars, loopVars, WalkInv
  <2>2. Behind' = 0 /\ Width' = Width /\ n' = n /\ nf' = nf
    BY <2>1 DEF Behind, Width, n, nf
  <2>3. Width * (n - n) = 0
    BY WalkEnds DEF Width, Positive
  <2> QED BY <2>1, <2>2, <2>3, WalkEnds DEF WalkInv
<1>4. CASE Twiddles
  <2>1. UNCHANGED <<at, N, transform, ifac>> /\ at = "twiddles" /\ k1' = k1 + 1
    BY <1>4 DEF Twiddles
  <2>2. Behind' = k1 /\ Width' = Width /\ n' = n /\ nf' = nf
    BY <1>4, <2>1, RoundPlan DEF Behind, Width, n, nf
  <2> QED BY <1>4, <2>1, <2>2, RoundPlan DEF WalkInv
<1>5. CASE EndOfSetup
  BY <1>5, WalkElsewhere DEF EndOfSetup
<1>6. CASE \E dir \in {"forward", "backward"} : \E o, same \in BOOLEAN : Transform(dir, o, same)
  <2>1. at = "setup" /\ k1' = k1 /\ transform \in {"real", "complex"}
    BY <1>6 DEF Transform, loopVars, CallTypes
  <2>2. at' \in {"passes", "split", "reorder", "preprocess"}
    BY <1>6, <2>1 DEF Transform
  <2> QED BY <2>1, <2>2, WalkElsewhere DEF CallTypes
<1>7. CASE Split \/ Preprocess
  <2>1. at' = "passes" /\ k1' = k1 /\ at \in Working \ {"passes"}
    BY <1>7 DEF Split, Preprocess, loopVars, Working
  <2> QED BY <2>1, WalkElsewhere DEF CallTypes
<1>8. CASE StartPasses
  <2>1. /\ UNCHANGED <<at, N, transform, ifac, direction>> /\ at = "passes" /\ k1' = 1
        /\ len' = (IF Descending THEN n ELSE 1)
        /\ iw' = (IF Descending THEN n - 1 ELSE 0)
    BY <1>8 DEF StartPasses, setupVars, callVars, DescentStart
  <2>2. /\ Behind' = (IF Descending THEN nf ELSE 0)
        /\ Width' = Width /\ n' = n /\ nf' = nf
    BY <2>1, WalkEnds DEF Behind, Descending, Width, n, nf
  <2>3. nl = 1
    BY <2>1 DEF FactorInv
  <2>4. Descending => Width = 1
    BY DEF Descending, Width
  <2>5. iw' = (IF Descending THEN Width * (n - 1) ELSE Width * (n - n))
    BY <2>1, <2>4, WalkEnds DEF Width, Positive
  <2> QED BY <2>1, <2>2, <2>3, <2>5, WalkEnds DEF WalkInv
<1>9. CASE RealForwardPass \/ RealBackwardPass \/ ComplexPass
  <2>1. /\ UNCHANGED <<at, N, transform, ifac, direction>> /\ at = "passes" /\ k1 \in 1..nf
        /\ k1' = k1 + 1
    BY <1>9 DEF RealForwardPass, RealBackwardPass, ComplexPass, Pass, setupVars, callVars
  <2>2. /\ Behind' = (IF Descending THEN factor - 1 ELSE factor)
        /\ Width' = Width /\ n' = n /\ nf' = nf
    BY <2>1, WalkEnds DEF Behind, Descending, Width, n, nf, factor
  <2>3. CASE Descending
    <3>1. len' = l1 /\ iw' = place
      BY <1>9, <2>3 DEF RealForwardPass, RealBackwardPass, ComplexPass, Descending
    <3> QED BY <2>1, <2>2, <2>3, <3>1, PassPlan DEF WalkInv
  <2>4. CASE ~Descending
    <3>1. len' = len * ifac[factor] /\ iw' = iw + cells
      BY <1>9, <2>4 DEF RealForwardPass, RealBackwardPass, ComplexPass
    <3>2. len = l1 /\ iw = place
      BY <2>4 DEF l1, place
    <3> QED BY <2>1, <2>2, <2>4, <3>1, <3>2, PassPlan DEF WalkInv
  <2> QED BY <2>3, <2>4
<1>10. CASE EndOfPasses
  <2>1. at = "passes" /\ k1' = 0
    BY <1>10 DEF EndOfPasses
  <2>2. at' \in {"finalize", "join", "finish"}
    BY <1>10 DEF EndOfPasses, CallTypes
  <2> QED BY <2>1, <2>2, WalkElsewhere
<1>11. CASE Finalize \/ Reorder \/ Join \/ Finish
  BY <1>11, WalkElsewhere DEF Finalize, Reorder, Join, Finish
<1>12. CASE UNCHANGED vars
  BY <1>1, <1>12 DEF vars, setupVars, loopVars, callVars
<1> QED BY <1>2, <1>3, <1>4, <1>5, <1>6, <1>7, <1>8, <1>9, <1>10, <1>11, <1>12 DEF Next

-----------------------------------------------------------------------------
(***************************************************************************)
(* The table.                                                              *)
(***************************************************************************)
\* The cells x and x + 1 of w hold the cosine and the sine of the angle a; they are
\* before top.
Pair(w, x, a, top) ==
  /\ {x, x + 1} \subseteq DOMAIN w
  /\ w[x] = a /\ w[x + 1] = a + 1
  /\ x + 1 < top

\* From x on w holds the table of a factor ip, d being what is left after it and l the
\* product of those before it.
Row(w, kind, x, ip, d, l, top) ==
  \A j \in 1..ip-1 :
    IF kind = "real"
    THEN \A fi \in 1..(d-1) \div 2 : Pair(w, x + (j - 1) * d + 2 * (fi - 1), 2 * fi * j * l, top)
    ELSE \A fi \in 0..d-1 : Pair(w, x + 2 * (j - 1) * d + 2 * fi, 2 * fi * j * l, top)

LEMMA RowsApart ==
  ASSUME NEW a \in Nat, NEW b \in Nat, NEW d \in Nat, a < b
  PROVE  a * d + d <= b * d
<1>1. PICK c \in Nat : b = a + 1 + c
  <2>1. b - a - 1 \in Nat /\ b = a + 1 + (b - a - 1)
    OBVIOUS
  <2> QED BY <2>1
<1>2. (a + 1 + c) * d = a * d + d + c * d /\ c * d \in Nat /\ a * d \in Nat
  OBVIOUS
<1> QED BY <1>1, <1>2

LEMMA DivRest ==
  ASSUME NEW a \in Nat, NEW d \in Positive, NEW r \in 0..d-1
  PROVE  (a * d + r) \div d = a /\ (a * d + r) % d = r
BY DEF Positive

\* The cells of rffti1.
LEMMA RealRow ==
  ASSUME iw \in Nat, len \in Nat, NEW ip \in Positive, NEW d \in Positive
  PROVE  /\ DOMAIN RealTwiddles(ip, d) \subseteq iw..iw + (ip - 1) * d - 1
         /\ Row(RealTwiddles(ip, d), "real", iw, ip, d, len, iw + (ip - 1) * d)
<1>1. PICK c : c = RealTwiddles(ip, d)
  OBVIOUS
<1> DEFINE at1(j, fi) == iw + (j - 1) * d + 2 * (fi - 1)
           pairs == (1..ip-1) \X (1..(d-1) \div 2)
           cs == {at1(p[1], p[2]) + e : p \in pairs, e \in {0, 1}}
           v(x) == 2 * (((x - iw) % d) \div 2 + 1) * (1 + (x - iw) \div d) * len + (((x - iw) % d) % 2)
<1>2. c = [x \in cs |-> v(x)]
  BY <1>1 DEF RealTwiddles
<1>3. ASSUME NEW j \in 1..ip-1, NEW fi \in 1..(d-1) \div 2, NEW e \in {0, 1}
      PROVE  /\ at1(j, fi) + e \in cs
             /\ at1(j, fi) + e \in iw..iw + (ip - 1) * d - 1
             /\ v(at1(j, fi) + e) = 2 * fi * j * len + e
  <2>1. PICK y \in Nat : y = (j - 1) * d
    <3>1. (j - 1) * d \in Nat
      BY <1>3 DEF Positive
    <3> QED BY <3>1
  <2>2. PICK r \in 0..d-1 : r = 2 * (fi - 1) + e
    <3>1. 2 * (fi - 1) + e \in 0..d-1
      BY <1>3 DEF Positive
    <3> QED BY <3>1
  <2>3. y + d <= (ip - 1) * d
    BY <1>3, <2>1, RowsApart DEF Positive
  <2>4. at1(j, fi) + e = iw + (y + r)
    BY <1>3, <2>1, <2>2
  <2>5. at1(j, fi) + e \in iw..iw + (ip - 1) * d - 1
    BY <2>2, <2>3, <2>4 DEF Positive
  <2>6. at1(j, fi) + e \in cs
    <3>1. <<j, fi>> \in pairs /\ <<j, fi>>[1] = j /\ <<j, fi>>[2] = fi
      BY <1>3
    <3> QED BY <1>3, <3>1
  <2>7. (iw + (y + r)) - iw = y + r /\ (y + r) \div d = j - 1 /\ (y + r) % d = r
    <3>1. j - 1 \in Nat /\ r \in Nat
      BY <1>3, <2>2 DEF Positive
    <3>2. ((j - 1) * d + r) \div d = j - 1 /\ ((j - 1) * d + r) % d = r
      BY <3>1, DivRest
    <3> QED BY <2>1, <3>1, <3>2
  <2>8. r \div 2 + 1 = fi /\ r % 2 = e /\ 1 + (j - 1) = j
    BY <1>3, <2>2
  <2>9. v(at1(j, fi) + e) = 2 * fi * j * len + e
    BY <2>4, <2>7, <2>8
  <2> QED BY <2>5, <2>6, <2>9
<1>4. DOMAIN c \subseteq iw..iw + (ip - 1) * d - 1
  <2>1. DOMAIN c = cs
    BY <1>2
  <2>2. ASSUME NEW x \in cs PROVE x \in iw..iw + (ip - 1) * d - 1
    <3>1. PICK p \in pairs, e \in {0, 1} : x = at1(p[1], p[2]) + e
      BY <2>2
    <3>2. p[1] \in 1..ip-1 /\ p[2] \in 1..(d-1) \div 2
      BY <3>1
    <3> HIDE DEF cs, v, at1, pairs
    <3> QED BY <1>3, <3>1, <3>2
  <2> QED BY <2>1, <2>2
<1>5. ASSUME NEW j \in 1..ip-1, NEW fi \in 1..(d-1) \div 2
      PROVE  Pair(c, at1(j, fi), 2 * fi * j * len, iw + (ip - 1) * d)
  <2>1. PICK x : x = at1(j, fi)
    OBVIOUS
  <2>2. x \in Int /\ 2 * fi * j * len \in Int
    BY <1>5, <2>1 DEF Positive
  <2> HIDE DEF cs, v, at1
  <2>3. /\ x + 0 \in cs /\ v(x + 0) = 2 * fi * j * len + 0
        /\ x + 1 \in cs /\ v(x + 1) = 2 * fi * j * len + 1
        /\ x + 1 \in iw..iw + (ip - 1) * d - 1
    BY <1>3, <1>5, <2>1
  <2>4. x + 0 = x /\ 2 * fi * j * len + 0 = 2 * fi * j * len
    BY <2>2
  <2>5. x + 1 < iw + (ip - 1) * d
    <3>1. (ip - 1) * d \in Int
      BY DEF Positive
    <3> QED BY <2>2, <2>3, <3>1
  <2> QED BY <1>2, <2>1, <2>3, <2>4, <2>5 DEF Pair
<1> QED BY <1>1, <1>4, <1>5 DEF Row

\* The cells of cffti1: two more than those of its table.
LEMMA ComplexRow ==
  ASSUME iw \in Nat, len \in Nat, NEW ip \in Positive, NEW d \in Positive
  PROVE  /\ DOMAIN ComplexTwiddles(ip, d) = iw..iw + 2 * ((ip - 1) * d) + 1
         /\ Row(ComplexTwiddles(ip, d), "complex", iw, ip, d, len, iw + 2 * ((ip - 1) * d))
<1>1. PICK c : c = ComplexTwiddles(ip, d)
  OBVIOUS
<1>2. PICK z \in Nat : z = (ip - 1) * d /\ 2 * (ip - 1) * d = 2 * z
  <2>1. (ip - 1) * d \in Nat /\ 2 * (ip - 1) * d = 2 * ((ip - 1) * d)
    BY DEF Positive
  <2> QED BY <2>1
<1> DEFINE cs == iw..iw + 2 * z + 1
           j0(x) == 1 + (x - iw) \div (2 * d)
           f0(x) == ((x - iw) % (2 * d)) \div 2
           v(x) == IF j0(x) = ip THEN 2 * d * (ip - 1) * len + ((x - iw) % 2)
                   ELSE 2 * f0(x) * j0(x) * len + ((x - iw) % 2)
<1>3. c = [x \in cs |-> v(x)]
  BY <1>1, <1>2 DEF ComplexTwiddles
<1>4. ASSUME NEW j \in 1..ip-1, NEW fi \in 0..d-1, NEW e \in {0, 1},
             NEW x, x = iw + 2 * (j - 1) * d + 2 * fi
      PROVE  /\ x \in Int /\ x + e \in cs
             /\ x + 1 < iw + 2 * z
             /\ v(x + e) = 2 * fi * j * len + e
  <2>1. PICK y \in Nat : y = (j - 1) * d /\ 2 * (j - 1) * d = 2 * y
    <3>1. (j - 1) * d \in Nat /\ 2 * (j - 1) * d = 2 * ((j - 1) * d)
      BY <1>4 DEF Positive
    <3> QED BY <3>1
  <2>2. y + d <= z
    BY <1>2, <1>4, <2>1, RowsApart DEF Positive
  <2>3. x + e = iw + (2 * y + (2 * fi + e)) /\ x \in Int
    BY <1>4, <2>1
  <2>4. x + e \in cs /\ x + 1 < iw + 2 * z
    BY <1>4, <2>2, <2>3 DEF Positive
  <2>5. (2 * y + (2 * fi + e)) \div (2 * d) = j - 1 /\ (2 * y + (2 * fi + e)) % (2 * d) = 2 * fi + e
    <3>1. j - 1 \in Nat /\ 2 * fi + e \in 0..(2 * d)-1 /\ 2 * d \in Positive
      BY <1>4 DEF Positive
    <3>2. 2 * y = (j - 1) * (2 * d)
      BY <1>4, <2>1 DEF Positive
    <3> QED BY <3>1, <3>2, DivRest
  <2>6. /\ (x + e) - iw = 2 * y + (2 * fi + e)
        /\ (2 * fi + e) \div 2 = fi /\ (2 * y + (2 * fi + e)) % 2 = e
        /\ 1 + (j - 1) = j /\ j # ip
    BY <1>4, <2>3 DEF Positive
  <2>7. j0(x + e) = j /\ f0(x + e) = fi /\ ((x + e) - iw) % 2 = e
    BY <2>5, <2>6
  <2> QED BY <2>3, <2>4, <2>6, <2>7
<1>5. ASSUME NEW j \in 1..ip-1, NEW fi \in 0..d-1
      PROVE  Pair(c, iw + 2 * (j - 1) * d + 2 * fi, 2 * fi * j * len, iw + 2 * z)
  <2>1. PICK x : x = iw + 2 * (j - 1) * d + 2 * fi
    OBVIOUS
  <2>2. 2 * fi * j * len \in Int
    BY <1>5 DEF Positive
  <2> HIDE DEF cs, v
  <2>3. /\ x \in Int /\ x + 1 < iw + 2 * z
        /\ x + 0 \in cs /\ v(x + 0) = 2 * fi * j * len + 0
        /\ x + 1 \in cs /\ v(x + 1) = 2 * fi * j * len + 1
    BY <1>4, <1>5, <2>1
  <2>4. x + 0 = x /\ 2 * fi * j * len + 0 = 2 * fi * j * len
    BY <2>2, <2>3
  <2> QED BY <1>3, <2>1, <2>3, <2>4 DEF Pair
<1>6. DOMAIN c = iw..iw + 2 * ((ip - 1) * d) + 1
  BY <1>2, <1>3
<1>7. Row(c, "complex", iw, ip, d, len, iw + 2 * ((ip - 1) * d))
  BY <1>2, <1>5, Zenon DEF Row
<1> QED BY <1>1, <1>6, <1>7

\* What is before the cells that are written stays.
LEMMA RowWritten ==
  ASSUME NEW c, NEW w, NEW kind, NEW x \in Int, NEW ip \in Positive, NEW d \in Positive, NEW l \in Nat,
         NEW low \in Int, NEW high \in Int, low <= high,
         \A y \in DOMAIN c : y \in Int /\ y >= low
  PROVE  /\ Row(w, kind, x, ip, d, l, low) => Row(Written(c, w), kind, x, ip, d, l, high)
         /\ Row(c, kind, x, ip, d, l, high) => Row(Written(c, w), kind, x, ip, d, l, high)
<1>1. PICK u : u = Written(c, w)
  OBVIOUS
<1>2. /\ DOMAIN u = DOMAIN c \union DOMAIN w
      /\ \A y \in DOMAIN c : u[y] = c[y]
      /\ \A y \in DOMAIN w : y \notin DOMAIN c => u[y] = w[y]
  BY <1>1 DEF Written
<1>3. ASSUME NEW y \in Int, NEW a, Pair(w, y, a, low) PROVE Pair(u, y, a, high)
  BY <1>2, <1>3 DEF Pair
<1>4. ASSUME NEW y \in Int, NEW a, Pair(c, y, a, high) PROVE Pair(u, y, a, high)
  BY <1>2, <1>4 DEF Pair
<1>5. ASSUME NEW j \in 1..ip-1, NEW fi \in Nat
      PROVE  x + (j - 1) * d + 2 * (fi - 1) \in Int /\ x + 2 * (j - 1) * d + 2 * fi \in Int
  BY <1>5 DEF Positive
<1>6. /\ \A fi \in 1..(d-1) \div 2 : fi \in Nat
      /\ \A fi \in 0..d-1 : fi \in Nat
  BY DEF Positive
<1>7. Row(w, kind, x, ip, d, l, low) => Row(u, kind, x, ip, d, l, high)
  BY <1>3, <1>5, <1>6, Zenon DEF Row
<1>8. Row(c, kind, x, ip, d, l, high) => Row(u, kind, x, ip, d, l, high)
  BY <1>4, <1>5, <1>6, Zenon DEF Row
<1> QED BY <1>1, <1>7, <1>8

LEMMA RowTop ==
  ASSUME NEW w, NEW kind, NEW x \in Int, NEW ip \in Positive, NEW d \in Positive, NEW l \in Nat,
         NEW low \in Int, NEW high \in Int, low <= high, Row(w, kind, x, ip, d, l, low)
  PROVE  Row(w, kind, x, ip, d, l, high)
<1>1. ASSUME NEW y \in Int, NEW a, Pair(w, y, a, low) PROVE Pair(w, y, a, high)
  BY <1>1 DEF Pair
<1>2. ASSUME NEW j \in 1..ip-1, NEW fi \in Nat
      PROVE  x + (j - 1) * d + 2 * (fi - 1) \in Int /\ x + 2 * (j - 1) * d + 2 * fi \in Int
  BY <1>2 DEF Positive
<1>3. /\ \A fi \in 1..(d-1) \div 2 : fi \in Nat
      /\ \A fi \in 0..d-1 : fi \in Nat
  BY DEF Positive
<1> QED BY <1>1, <1>2, <1>3, Zenon DEF Row

\* What is asserted of the size.
SizeInv ==
  /\ transform \in {"real", "complex"}
  /\ N \in Positive
  /\ N % (IF transform = "real" THEN 32 ELSE 16) = 0

\* The part of the table for factor k.
RowOf(k, top) ==
  Row(wa, transform, Width * (n - Quotient(ifac, n, k-1)), ifac[k], Quotient(ifac, n, k),
      Products(ifac)[k-1], top)

TableInv ==
  /\ DOMAIN wa \subseteq 0..2 * Ncvec - 1
  /\ at = "twiddles" => \A k \in 1..k1-1 : RowOf(k, iw)
  /\ at \notin {"decompose", "twiddles", "null"} => \A k \in 1..nf : RowOf(k, 2 * Ncvec)

LEMMA Room ==
  ASSUME SizeInv
  PROVE  2 * Ncvec = Width * n /\ n \in Positive
<1>1. CASE transform = "real"
  BY <1>1 DEF SizeInv, Ncvec, n, Width, SIMD_SZ, Positive
<1>2. CASE transform = "complex"
  BY <1>2 DEF SizeInv, Ncvec, n, Width, SIMD_SZ, Positive
<1> QED BY <1>1, <1>2 DEF SizeInv

\* The data of a row.
LEMMA RowTypes ==
  ASSUME FactorInv, NEW k \in 1..nf
  PROVE  /\ Width * (n - Quotient(ifac, n, k-1)) \in Nat
         /\ ifac[k] \in Positive /\ Quotient(ifac, n, k) \in Positive
         /\ Products(ifac)[k-1] \in Nat
<1>1. Factored(ifac, n, nl) /\ n \in Positive /\ k \in 1..Len(ifac)
  BY DEF FactorInv, Factored, nf
<1>2. PICK m \in Positive : m = n
  BY <1>1
<1>3. /\ ifac[k] \in Radices
      /\ Products(ifac)[k-1] \in Positive
      /\ Quotient(ifac, m, k) \in Positive /\ Quotient(ifac, m, k-1) \in Positive
      /\ Quotient(ifac, m, k-1) <= m
  BY <1>1, <1>2, FactorBetween
<1>4. Width * (m - Quotient(ifac, m, k-1)) \in Nat
  BY <1>3 DEF Width, Positive
<1> QED BY <1>2, <1>3, <1>4 DEF Radices, Positive

LEMMA TableInit == Init => TableInv /\ SizeInv
<1> SUFFICES ASSUME Init
             PROVE  TableInv /\ SizeInv
  OBVIOUS
<1>1. SizeInv
  BY FFTAssumption DEF Init, SizeInv, SIMD_SZ, Positive
<1>2. DOMAIN wa = {} /\ at = "decompose"
  <2>1. wa = <<>> /\ at = "decompose"
    BY DEF Init
  <2>2. DOMAIN <<>> = {}
    OBVIOUS
  <2> QED BY <2>1, <2>2
<1> QED BY <1>1, <1>2 DEF TableInv

\* A round of the loop that makes the table.
LEMMA TwiddlesTable ==
  ASSUME FactorInv, WalkInv, TableInv, SizeInv, Twiddles
  PROVE  TableInv'
<1>1. /\ k1 \in 1..nf /\ nf \in Nat /\ k1 - 1 \in Nat
      /\ UNCHANGED <<at, N, transform, ifac>> /\ at = "twiddles" /\ k1' = k1 + 1
  BY RoundPlan DEF Twiddles
<1>2. n' = n /\ nf' = nf /\ Width' = Width /\ Ncvec' = Ncvec
  BY <1>1 DEF n, nf, Width, Ncvec
<1>3. PICK x \in Nat, ip \in Positive, d \in Positive, l \in Nat, h \in Nat, z \in Nat :
        /\ x = iw /\ ip = ifac[k1] /\ d = Quotient(ifac, n, k1) /\ l = len /\ h = iw'
        /\ z = (ip - 1) * d
  <2>1. /\ iw \in Nat /\ ifac[k1] \in Positive /\ Quotient(ifac, n, k1) \in Positive
        /\ len \in Nat
    BY <1>1, RowTypes, RoundPlan
  <2>2. (ifac[k1] - 1) * Quotient(ifac, n, k1) \in Nat
    BY <2>1 DEF Positive
  <2>3. iw' \in Nat
    <3>1. iw' = iw + Width * ((ifac[k1] - 1) * Quotient(ifac, n, k1))
      BY RoundPlan
    <3> QED BY <2>1, <2>2, <3>1 DEF Width
  <2> QED BY <2>1, <2>2, <2>3, Zenon
<1>4. h = x + Width * z /\ h = Width * (n - d) /\ n \div (len * ip) = d
  BY <1>3, RoundPlan
<1>5. PICK c : c = IF transform = "real" THEN RealTwiddles(ip, d) ELSE ComplexTwiddles(ip, d)
  OBVIOUS
<1>6. wa' = Written(c, wa)
  BY <1>3, <1>4, <1>5 DEF Twiddles
<1>7. /\ \A y \in DOMAIN c : y \in Int /\ y >= x /\ y <= (IF transform = "real" THEN h - 1 ELSE h + 1)
      /\ Row(c, transform, x, ip, d, l, h)
  <2>1. CASE transform = "real"
    <3>1. /\ DOMAIN c \subseteq x..x + z - 1
          /\ Row(c, "real", x, ip, d, l, x + z)
      BY <1>3, <1>5, <2>1, RealRow
    <3>2. x + z = h
      BY <1>4, <2>1 DEF Width
    <3> QED BY <2>1, <3>1, <3>2
  <2>2. CASE transform = "complex"
    <3>1. /\ DOMAIN c = x..x + 2 * z + 1
          /\ Row(c, "complex", x, ip, d, l, x + 2 * z)
      BY <1>3, <1>5, <2>2, ComplexRow
    <3>2. x + 2 * z = h
      BY <1>4, <2>2 DEF Width
    <3> QED BY <2>2, <3>1, <3>2
  <2> QED BY <2>1, <2>2 DEF SizeInv
<1>8. x <= h /\ h \in Int
  BY <1>4 DEF Width
<1>9. DOMAIN wa' \subseteq 0..2 * Ncvec - 1
  <2>1. DOMAIN wa' = DOMAIN c \union DOMAIN wa
    BY <1>6 DEF Written
  <2>2. PICK m \in Positive : m = n /\ 2 * Ncvec = Width * m
    BY Room
  <2>3. \A y \in DOMAIN c : y \in 0..(Width * m) - 1
    <3>1. h = Width * (m - d)
      BY <1>4, <2>2
    <3>2. CASE transform = "real"
      BY <1>7, <3>1, <3>2 DEF Width, Positive
    <3>3. CASE transform # "real"
      BY <1>7, <3>1, <3>3 DEF Width, Positive
    <3> QED BY <3>2, <3>3
  <2> QED BY <2>1, <2>2, <2>3 DEF TableInv
<1>10. ASSUME NEW k \in 1..k1 PROVE RowOf(k, h)'
  <2>1. k \in 1..nf
    BY <1>1
  <2>2. PICK y \in Nat, jp \in Positive, e \in Positive, g \in Nat :
          /\ y = Width * (n - Quotient(ifac, n, k-1)) /\ jp = ifac[k]
          /\ e = Quotient(ifac, n, k) /\ g = Products(ifac)[k-1]
    BY <2>1, RowTypes, Zenon
  <2>3. CASE k = k1
    <3>1. Row(wa', transform, x, ip, d, l, h)
      <4>1. x \in Int /\ \A v \in DOMAIN c : v \in Int /\ v >= x
        BY <1>7
      <4> QED BY <1>6, <1>7, <1>8, <4>1, RowWritten
    <3>2. y = x /\ jp = ip /\ e = d /\ g = l
      BY <1>3, <2>2, <2>3, RoundPlan
    <3> QED BY <1>1, <1>2, <2>2, <3>1, <3>2 DEF RowOf
  <2>4. CASE k # k1
    <3>1. Row(wa, transform, y, jp, e, g, x)
      BY <1>1, <1>3, <2>2, <2>4 DEF TableInv, RowOf
    <3>2. Row(wa', transform, y, jp, e, g, h)
      BY <1>6, <1>7, <1>8, <3>1, RowWritten
    <3> QED BY <1>1, <1>2, <2>2, <3>2 DEF RowOf
  <2> QED BY <2>3, <2>4
<1>11. \A k \in 1..k1'-1 : k \in 1..k1
  BY <1>1
<1> QED BY <1>1, <1>2, <1>3, <1>9, <1>10, <1>11 DEF TableInv

\* The last factor of a real transform needs nothing.
LEMMA EndOfSetupTable ==
  ASSUME FactorInv, FactorInv', WalkInv, TableInv, SizeInv, EndOfSetup
  PROVE  TableInv'
<1>1. /\ UNCHANGED <<N, transform, ifac, wa, nl>> /\ at = "twiddles" /\ at' \in {"setup", "null"}
      /\ k1 > IF transform = "real" THEN nf - 1 ELSE nf
  BY DEF EndOfSetup, setupVars
<1>2. n' = n /\ nf' = nf /\ Width' = Width /\ Ncvec' = Ncvec
  BY <1>1 DEF n, nf, Width, Ncvec
<1>3. nf \in Nat /\ k1 \in 1..nf+1
  BY <1>1, WalkEnds DEF WalkInv
<1>4. ASSUME at' = "setup", NEW k \in 1..nf PROVE RowOf(k, 2 * Ncvec)
  <2>1. PICK y \in Nat, jp \in Positive, e \in Positive, g \in Nat :
          /\ y = Width * (n - Quotient(ifac, n, k-1)) /\ jp = ifac[k]
          /\ e = Quotient(ifac, n, k) /\ g = Products(ifac)[k-1]
    BY RowTypes, Zenon
  <2>2. CASE k < k1
    <3>1. Row(wa, transform, y, jp, e, g, iw)
      BY <1>1, <1>3, <2>1, <2>2 DEF TableInv, RowOf
    <3>2. iw \in Int /\ 2 * Ncvec \in Int /\ iw <= 2 * Ncvec
      <4>1. PICK m \in Positive : m = n /\ 2 * Ncvec = Width * m
        BY Room
      <4>2. iw = Width * (m - Quotient(ifac, m, k1 - 1))
        BY <1>1, <4>1 DEF WalkInv, Behind
      <4>3. Quotient(ifac, m, k1 - 1) \in Positive
        BY <1>3, <4>1 DEF FactorInv, Factored, nf
      <4> QED BY <4>1, <4>2, <4>3 DEF Width, Positive
    <3>3. Row(wa, transform, y, jp, e, g, 2 * Ncvec)
      BY <3>1, <3>2, RowTop
    <3> QED BY <2>1, <3>3 DEF RowOf
  <2>3. CASE k >= k1
    <3>1. transform = "real" /\ k = nf
      BY <1>1, <1>3, <2>3
    <3>2. e = 1
      BY <1>1, <1>4, <2>1, <3>1, WalkEnds DEF FactorInv
    <3>3. (1 - 1) \div 2 = 0
      OBVIOUS
    <3>4. Row(wa, "real", y, jp, e, g, 2 * Ncvec)
      BY <3>2, <3>3 DEF Row
    <3> QED BY <2>1, <3>1, <3>4 DEF RowOf
  <2> QED BY <1>3, <2>2, <2>3
<1>5. at' = "setup" => \A k \in 1..nf : RowOf(k, 2 * Ncvec)'
  BY <1>1, <1>2, <1>4 DEF RowOf
<1> QED BY <1>1, <1>2, <1>5 DEF TableInv

LEMMA TableStep ==
  ASSUME CallTypes, FactorInv, FactorInv', WalkInv, TableInv, SizeInv, [Next]_vars
  PROVE  TableInv' /\ SizeInv'
<1>1. SizeInv'
  <2>1. UNCHANGED <<N, transform>>
    BY DEF Next, vars, setupVars, decompose, StartTwiddles, Twiddles, EndOfSetup, Transform, Split,
           StartPasses, RealForwardPass, RealBackwardPass, ComplexPass, Pass, EndOfPasses, Finalize,
           Reorder, Preprocess, Join, Finish
  <2> QED BY <2>1 DEF SizeInv
<1>2. CASE /\ UNCHANGED <<N, transform, ifac, wa>>
           /\ at' = "twiddles" => \/ at = "twiddles" /\ k1' = k1 /\ iw' = iw
                                 \/ k1' = 1
           /\ at' \notin {"decompose", "twiddles", "null"} => at \notin {"decompose", "twiddles", "null"}
  <2>1. n' = n /\ nf' = nf /\ Width' = Width /\ Ncvec' = Ncvec
    BY <1>2 DEF n, nf, Width, Ncvec
  <2> QED BY <1>1, <1>2, <2>1 DEF TableInv, RowOf
<1>3. CASE decompose
  <2>1. wa' = wa /\ at' = "decompose" /\ N' = N /\ transform' = transform
    BY <1>3 DEF decompose
  <2>2. Ncvec' = Ncvec
    BY <2>1 DEF Ncvec
  <2> QED BY <1>1, <2>1, <2>2 DEF TableInv
<1>4. CASE StartTwiddles
  BY <1>1, <1>2, <1>4 DEF StartTwiddles, setupVars, loopVars, WalkInv
<1>5. CASE Twiddles
  BY <1>1, <1>5, TwiddlesTable
<1>6. CASE EndOfSetup
  BY <1>1, <1>6, EndOfSetupTable
<1>7. CASE \E dir \in {"forward", "backward"} : \E o, same \in BOOLEAN : Transform(dir, o, same)
  <2>1. UNCHANGED <<N, transform, ifac, wa>> /\ at = "setup" /\ transform \in {"real", "complex"}
    BY <1>7 DEF Transform, setupVars, SizeInv
  <2>2. at' \in {"passes", "split", "reorder", "preprocess"}
    BY <1>7, <2>1 DEF Transform
  <2> QED BY <1>1, <1>2, <2>1, <2>2
<1>8. CASE EndOfPasses
  <2>1. UNCHANGED <<N, transform, ifac, wa>> /\ at = "passes"
    BY <1>8 DEF EndOfPasses, setupVars
  <2>2. at' \in {"finalize", "join", "finish"}
    BY <1>8 DEF EndOfPasses, CallTypes
  <2> QED BY <1>1, <1>2, <2>1, <2>2
<1>9. CASE StartPasses \/ RealForwardPass \/ RealBackwardPass \/ ComplexPass
  BY <1>1, <1>2, <1>9 DEF StartPasses, RealForwardPass, RealBackwardPass, ComplexPass, Pass, setupVars
<1>10. CASE Split \/ Finalize \/ Reorder \/ Preprocess
  BY <1>1, <1>2, <1>10 DEF Split, Finalize, Reorder, Preprocess, setupVars
<1>11. CASE Join \/ Finish
  BY <1>1, <1>2, <1>11 DEF Join, Finish, setupVars
<1>12. CASE UNCHANGED vars
  BY <1>1, <1>2, <1>12 DEF vars, setupVars, loopVars
<1> QED BY <1>3, <1>4, <1>5, <1>6, <1>7, <1>8, <1>9, <1>10, <1>11, <1>12 DEF Next

\* A pass finds its twiddles.
LEMMA ReadFollows ==
  ASSUME CallTypes, FactorInv, WalkInv, TableInv
  PROVE  TwiddlesRead
<1>1. SUFFICES ASSUME at = "passes", k1 \in 1..nf
               PROVE  \A j \in 1..ifac[factor]-1 :
                 IF transform = "real"
                 THEN \A fi \in 1..(ido-1) \div 2 :
                        Pair(wa, place + (j - 1) * ido + 2 * (fi - 1), 2 * fi * j * l1, 2 * Ncvec)
                 ELSE \A fi \in 0..ido-1 :
                        Pair(wa, place + 2 * (j - 1) * ido + 2 * fi, 2 * fi * j * l1, 2 * Ncvec)
  BY DEF TableInv, TwiddlesRead, Pair
<1>2. /\ factor \in 1..nf /\ l1 = Products(ifac)[factor - 1]
      /\ ido = Quotient(ifac, n, factor)
      /\ place = Width * (n - Quotient(ifac, n, factor - 1))
  BY <1>1, PassPlan
<1>3. PICK k \in 1..nf : k = factor
  BY <1>2
<1>4. RowOf(k, 2 * Ncvec)
  BY <1>1 DEF TableInv
<1> QED BY <1>2, <1>3, <1>4, Zenon DEF RowOf, Row

-----------------------------------------------------------------------------
PlanInv == DataInv /\ FactorInv /\ WalkInv /\ TableInv /\ SizeInv

LEMMA PlanInvariant == Spec => []PlanInv
<1>1. Init => PlanInv
  BY DataInit, FactorInit, WalkInit, TableInit DEF PlanInv
<1>2. PlanInv /\ [Next]_vars => PlanInv'
  BY DataStep, FactorStep, WalkStep, TableStep DEF PlanInv, DataInv
<1> QED BY <1>1, <1>2, PTL DEF Spec

\* A setup is made exactly for the sizes that have no factors but 2, 3 and 5, and the
\* order of the factors asks no butterfly for what it cannot do, for every size.
THEOREM FactorsAlwaysFit == Spec => []FactorsFit
<1>1. PlanInv => FactorsFit
  BY FitFollows DEF PlanInv, DataInv
<1> QED BY <1>1, PlanInvariant, PTL

\* What fills the table and what reads it agree on every place, for every size, and
\* stay in the room there is.
THEOREM TwiddlesAlwaysRead == Spec => []TwiddlesRead
<1>1. PlanInv => TwiddlesRead
  BY ReadFollows DEF PlanInv, DataInv
<1> QED BY <1>1, PlanInvariant, PTL

-----------------------------------------------------------------------------
(***************************************************************************)
(* pffft_zreorder.                                                         *)
(***************************************************************************)
\* Vectors of four elements.
Quad(x) == x = <<x[1], x[2], x[3], x[4]>>

LEMMA FourElements ==
  ASSUME NEW E, NEW x \in [1..4 -> E]
  PROVE  Quad(x)
BY DEF Quad

LEMMA Unzips ==
  ASSUME NEW x, NEW y, Quad(x), Quad(y)
  PROVE  /\ Uninterleave(Interleave(x, y, 0), Interleave(x, y, 1), 0) = x
         /\ Uninterleave(Interleave(x, y, 0), Interleave(x, y, 1), 1) = y
         /\ Quad(Interleave(x, y, 0)) /\ Quad(Interleave(x, y, 1))
BY DEF Quad, Interleave, Uninterleave

LEMMA Unswaps ==
  ASSUME NEW a, NEW b, NEW p, Quad(a)
  PROVE  VSWAPHL(VSWAPHL(a, b), VSWAPHL(p, a)) = a
BY DEF Quad, VSWAPHL

\* The places of a complex spectrum are all different.
LEMMA TransposedInjective ==
  ASSUME SizeInv, transform = "complex"
  PROVE  /\ Ncvec \in Nat
         /\ \A k \in 0..Ncvec-1 : Transposed(k) \in 0..Ncvec-1
         /\ \A j, k \in 0..Ncvec-1 : Transposed(j) = Transposed(k) => j = k
<1>1. PICK h \in Positive : Ncvec = 4 * h /\ Ncvec \div 4 = h
  <2>1. Ncvec = 4 * (N \div 16) /\ N \div 16 \in Positive /\ Ncvec \div 4 = N \div 16
    BY DEF SizeInv, Ncvec, SIMD_SZ, Positive
  <2> QED BY <2>1
<1>2. ASSUME NEW k \in 0..Ncvec-1
      PROVE  /\ Transposed(k) \in 0..Ncvec-1
             /\ Transposed(k) \div h = k % 4 /\ Transposed(k) % h = k \div 4
  <2>1. k % 4 \in 0..3 /\ k \div 4 \in 0..h-1
    BY <1>1 DEF Positive
  <2>2. Transposed(k) = (k % 4) * h + k \div 4
    BY <1>1, <2>1 DEF Transposed, Positive
  <2>3. (k % 4) * h + h <= 4 * h
    BY <2>1, RowsApart DEF Positive
  <2>4. (k % 4) * h \in Nat
    BY <2>1 DEF Positive
  <2>5. Transposed(k) \in 0..Ncvec-1
    BY <1>1, <2>1, <2>2, <2>3, <2>4 DEF Positive
  <2>6. ((k % 4) * h + k \div 4) \div h = k % 4 /\ ((k % 4) * h + k \div 4) % h = k \div 4
    BY <2>1, DivRest
  <2> QED BY <2>2, <2>5, <2>6
<1>3. ASSUME NEW j \in 0..Ncvec-1, NEW k \in 0..Ncvec-1, Transposed(j) = Transposed(k)
      PROVE  j = k
  <2>1. j % 4 = k % 4 /\ j \div 4 = k \div 4
    BY <1>2, <1>3
  <2> QED BY <1>1, <2>1 DEF Positive
<1>4. Ncvec \in Nat
  BY <1>1 DEF Positive
<1> QED BY <1>2, <1>3, <1>4

LEMMA ComplexUndone ==
  ASSUME SizeInv, transform = "complex",
         NEW E, NEW vin \in [0..2*Ncvec-1 -> [1..4 -> E]]
  PROVE  zreorder("backward", zreorder("forward", vin)) = vin
<1>1. PICK w : w = zreorder("forward", vin)
  OBVIOUS
<1>2. PICK C \in Nat : C = Ncvec
  BY TransposedInjective
<1>3. ASSUME NEW k \in 0..C-1, NEW h \in {0, 1}
      PROVE  w[2 * Transposed(k) + h] = Interleave(vin[2 * k], vin[2 * k + 1], h)
  <2>1. PICK t \in 0..C-1 : t = Transposed(k)
    BY <1>2, <1>3, TransposedInjective
  <2>2. 2 * t + h \in 0..2*C-1 /\ (2 * t + h) \div 2 = t /\ (2 * t + h) % 2 = h
    <3>1. t \in Nat /\ t + 1 <= C
      BY <1>2, <2>1
    <3>2. CASE h = 0
      BY <1>2, <3>1, <3>2
    <3>3. CASE h = 1
      BY <1>2, <3>1, <3>3
    <3> QED BY <1>3, <3>2, <3>3
  <2>3. (CHOOSE j \in 0..C-1 : Transposed(j) = t) = k
    <3>1. \A j \in 0..C-1 : Transposed(j) = t => j = k
      BY <1>2, <1>3, <2>1, TransposedInjective
    <3> QED BY <2>1, <3>1
  <2>4. w[2 * t + h] = ComplexReordered("forward", vin, 2 * t + h)
    BY <1>1, <1>2, <2>2 DEF zreorder
  <2>5. ComplexReordered("forward", vin, 2 * t + h) = Interleave(vin[2 * k], vin[2 * k + 1], h)
    BY <1>2, <2>2, <2>3, Zenon DEF ComplexReordered
  <2> QED BY <2>1, <2>4, <2>5
<1>4. ASSUME NEW v \in 0..2*C-1 PROVE ComplexReordered("backward", w, v) = vin[v]
  <2>1. PICK k \in 0..C-1, h \in {0, 1} : v = 2 * k + h /\ v \div 2 = k /\ v % 2 = h
    <3>1. v \div 2 \in 0..C-1 /\ v % 2 \in {0, 1} /\ v = 2 * (v \div 2) + (v % 2)
      BY <1>2, <1>4
    <3> QED BY <3>1
  <2>2. PICK t \in 0..C-1 : t = Transposed(k)
    BY <1>2, TransposedInjective
  <2>3. /\ w[2 * t] = Interleave(vin[2 * k], vin[2 * k + 1], 0)
        /\ w[2 * t + 1] = Interleave(vin[2 * k], vin[2 * k + 1], 1)
    <3>1. 2 * t + 0 = 2 * t
      BY <1>2
    <3> QED BY <1>3, <2>2, <3>1
  <2>4. ComplexReordered("backward", w, v) = Uninterleave(w[2 * t], w[2 * t + 1], h)
    BY <2>1, <2>2 DEF ComplexReordered
  <2>5. Quad(vin[2 * k]) /\ Quad(vin[2 * k + 1])
    <3>1. 2 * k \in 0..2*C-1 /\ 2 * k + 1 \in 0..2*C-1
      BY <1>2, <2>1
    <3> QED BY <1>2, <3>1, FourElements
  <2>6. ComplexReordered("backward", w, v) = IF h = 0 THEN vin[2 * k] ELSE vin[2 * k + 1]
    <3>1. CASE h = 0
      BY <2>3, <2>4, <2>5, <3>1, Unzips
    <3>2. CASE h = 1
      BY <2>3, <2>4, <2>5, <3>2, Unzips
    <3> QED BY <2>1, <3>1, <3>2
  <2>7. v = IF h = 0 THEN 2 * k ELSE 2 * k + 1
    BY <1>2, <2>1
  <2> QED BY <2>6, <2>7
<1>5. zreorder("backward", w) = [v \in 0..2*C-1 |-> ComplexReordered("backward", w, v)]
  BY <1>2 DEF zreorder
<1> QED BY <1>1, <1>2, <1>4, <1>5

\* The quarters of a real spectrum.
LEMMA RealForward ==
  ASSUME SizeInv, transform = "real", NEW vin, NEW q \in 0..3, NEW r \in 0..2*dk-1
  PROVE  /\ dk \in Positive /\ 2 * Ncvec = 8 * dk
         /\ 2 * q * dk + r \in 0..2*Ncvec-1
         /\ zreorder("forward", vin)[2 * q * dk + r]
              = IF q % 2 = 0 THEN Quarter(vin, q, r) ELSE reversed_copy(vin, q, r)
<1>1. dk \in Positive /\ 2 * Ncvec = 8 * dk
  BY DEF SizeInv, Ncvec, dk, SIMD_SZ, Positive
<1>2. PICK d \in Positive : d = 2 * dk
  BY <1>1 DEF Positive
<1>3. 2 * q * dk = q * d /\ q * d \in Nat /\ q * d + d <= 4 * d
  BY <1>1, <1>2 DEF Positive
<1>4. 2 * q * dk + r \in 0..2*Ncvec-1
  BY <1>1, <1>2, <1>3 DEF Positive
<1>5. (q * d + r) \div d = q /\ (q * d + r) % d = r
  <2>1. q \in Nat /\ r \in 0..d-1
    BY <1>2
  <2> QED BY <2>1, DivRest
<1>6. zreorder("forward", vin)[2 * q * dk + r] = RealReordered("forward", vin, 2 * q * dk + r)
  BY <1>4 DEF zreorder
<1>7. RealReordered("forward", vin, 2 * q * dk + r)
        = IF q % 2 = 0 THEN Quarter(vin, q, r) ELSE reversed_copy(vin, q, r)
  BY <1>2, <1>3, <1>5 DEF RealReordered
<1> QED BY <1>1, <1>4, <1>6, <1>7

LEMMA RealUndone ==
  ASSUME SizeInv, transform = "real",
         NEW E, NEW vin \in [0..2*Ncvec-1 -> [1..4 -> E]]
  PROVE  zreorder("backward", zreorder("forward", vin)) = vin
<1>1. PICK w : w = zreorder("forward", vin)
  OBVIOUS
<1>2. PICK D \in Positive : D = dk /\ 2 * Ncvec = 8 * D
  <2>1. dk \in Positive /\ 2 * Ncvec = 8 * dk
    BY DEF SizeInv, Ncvec, dk, SIMD_SZ, Positive
  <2> QED BY <2>1
<1>3. ASSUME NEW q \in 0..3, NEW r \in 0..2*D-1
      PROVE  w[2 * q * D + r] = IF q % 2 = 0 THEN Quarter(vin, q, r) ELSE reversed_copy(vin, q, r)
  BY <1>1, <1>2, RealForward
<1>4. ASSUME NEW v \in 0..8*D-1 PROVE RealReordered("backward", w, v) = vin[v]
  <2>1. PICK k \in 0..D-1, q \in 0..3, h \in {0, 1} :
          v = 8 * k + 2 * q + h /\ v \div 8 = k /\ (v % 8) \div 2 = q /\ v % 2 = h
    <3>1. /\ v \div 8 \in 0..D-1 /\ (v % 8) \div 2 \in 0..3 /\ v % 2 \in {0, 1}
          /\ v = 8 * (v \div 8) + 2 * ((v % 8) \div 2) + (v % 2)
      BY <1>2, <1>4 DEF Positive
    <3> QED BY <3>1
  <2>2. PICK x, y : x = vin[8 * k + 2 * q] /\ y = vin[8 * k + 2 * q + 1]
    OBVIOUS
  <2>3. Quad(x) /\ Quad(y)
    <3>1. 8 * k + 2 * q \in 0..8*D-1 /\ 8 * k + 2 * q + 1 \in 0..8*D-1
      BY <1>2, <2>1 DEF Positive
    <3> QED BY <1>2, <2>2, <3>1, FourElements
  <2>4. PICK a, b : a = Interleave(x, y, 0) /\ b = Interleave(x, y, 1)
    OBVIOUS
  <2>5. Quarter(vin, q, 2 * k) = a /\ Quarter(vin, q, 2 * k + 1) = b
    <3>1. (2 * k) \div 2 = k /\ (2 * k) % 2 = 0 /\ (2 * k + 1) \div 2 = k /\ (2 * k + 1) % 2 = 1
      BY <1>2, <2>1 DEF Positive
    <3> QED BY <2>2, <2>4, <3>1 DEF Quarter
  <2>6. RealReordered("backward", w, v) = Uninterleave(a, b, h)
    <3>1. CASE q % 2 = 0
      <4>1. /\ 2 * (q * D + k) = 2 * q * D + 2 * k
            /\ 2 * (q * D + k) + 1 = 2 * q * D + (2 * k + 1)
            /\ 2 * k \in 0..2*D-1 /\ 2 * k + 1 \in 0..2*D-1
        BY <1>2, <2>1 DEF Positive
      <4>2. w[2 * (q * D + k)] = a /\ w[2 * (q * D + k) + 1] = b
        BY <1>3, <2>1, <2>5, <3>1, <4>1
      <4> QED BY <1>2, <2>1, <3>1, <4>2 DEF RealReordered
    <3>2. CASE q % 2 # 0
      <4>1. PICK s, p, vx, vy, vz :
              /\ s = Quarter(vin, q, (2 * k + 1 + 1) % (2 * D))
              /\ p = Quarter(vin, q, 2 * D - 1 - ((2 * (D - k)) % (2 * D)))
              /\ vx = w[2 * q * D + 2 * (D - k) - 2]
              /\ vy = w[2 * q * D + 2 * (D - k) - 1]
              /\ vz = w[2 * q * D + ((2 * (D - k)) % (2 * D))]
        OBVIOUS
      <4>2. vx = VSWAPHL(b, s)
        <5>1. /\ 2 * q * D + 2 * (D - k) - 2 = 2 * q * D + (2 * (D - k) - 2)
              /\ 2 * (D - k) - 2 \in 0..2*D-1
              /\ 2 * D - 1 - (2 * (D - k) - 2) = 2 * k + 1
          BY <1>2, <2>1 DEF Positive
        <5>2. vx = reversed_copy(vin, q, 2 * (D - k) - 2)
          BY <1>3, <2>1, <3>2, <4>1, <5>1
        <5> QED BY <1>2, <2>5, <4>1, <5>1, <5>2 DEF reversed_copy
      <4>3. vy = VSWAPHL(a, b)
        <5>1. /\ 2 * q * D + 2 * (D - k) - 1 = 2 * q * D + (2 * (D - k) - 1)
              /\ 2 * (D - k) - 1 \in 0..2*D-1
              /\ 2 * D - 1 - (2 * (D - k) - 1) = 2 * k
              /\ (2 * k + 1) % (2 * D) = 2 * k + 1
          BY <1>2, <2>1 DEF Positive
        <5>2. vy = reversed_copy(vin, q, 2 * (D - k) - 1)
          BY <1>3, <2>1, <3>2, <4>1, <5>1
        <5> QED BY <1>2, <2>5, <5>1, <5>2 DEF reversed_copy
      <4>4. vz = VSWAPHL(p, a)
        <5>1. PICK r \in 0..2*D-1 : r = (2 * (D - k)) % (2 * D) /\ ((2 * D - 1 - r) + 1) % (2 * D) = 2 * k
          <6>1. CASE k = 0
            <7>1. (2 * D) % (2 * D) = 0 /\ 2 * (D - k) = 2 * D /\ 0 \in 0..2*D-1
              BY <1>2, <6>1 DEF Positive
            <7>2. ((2 * D - 1 - 0) + 1) % (2 * D) = 2 * k
              BY <1>2, <6>1, <7>1 DEF Positive
            <7> QED BY <7>1, <7>2
          <6>2. CASE k # 0
            <7>1. /\ (2 * (D - k)) % (2 * D) = 2 * (D - k) /\ 2 * (D - k) \in 0..2*D-1
                  /\ (2 * D - 1 - 2 * (D - k)) + 1 = 2 * k /\ (2 * k) % (2 * D) = 2 * k
              BY <1>2, <2>1, <6>2 DEF Positive
            <7> QED BY <7>1
          <6> QED BY <6>1, <6>2
        <5>2. vz = reversed_copy(vin, q, r)
          BY <1>3, <2>1, <3>2, <4>1, <5>1
        <5> QED BY <1>2, <2>5, <4>1, <5>1, <5>2 DEF reversed_copy
      <4>5. VSWAPHL(vy, vz) = a /\ VSWAPHL(vx, vy) = b
        BY <2>3, <2>4, <4>2, <4>3, <4>4, Unzips, Unswaps
      <4> QED BY <1>2, <2>1, <3>2, <4>1, <4>5 DEF RealReordered, unreversed_copy
    <3> QED BY <3>1, <3>2
  <2>7. RealReordered("backward", w, v) = IF h = 0 THEN x ELSE y
    <3>1. CASE h = 0
      BY <2>3, <2>4, <2>6, <3>1, Unzips
    <3>2. CASE h = 1
      BY <2>3, <2>4, <2>6, <3>2, Unzips
    <3> QED BY <2>1, <3>1, <3>2
  <2>8. v = IF h = 0 THEN 8 * k + 2 * q ELSE 8 * k + 2 * q + 1
    BY <1>2, <2>1 DEF Positive
  <2> QED BY <2>2, <2>7, <2>8
<1>5. zreorder("backward", w) = [v \in 0..8*D-1 |-> RealReordered("backward", w, v)]
  BY <1>2 DEF zreorder
<1> QED BY <1>1, <1>2, <1>4, <1>5

\* Reordering there and back changes nothing, for every size.
THEOREM ReorderAlwaysUndone == Spec => []ReorderUndone
<1>1. SizeInv => ReorderUndone
  <2> SUFFICES ASSUME SizeInv
               PROVE  ReorderUndone
    OBVIOUS
  <2>1. PICK v : v = [i \in 0..2*Ncvec-1 |-> [e \in 1..SIMD_SZ |-> SIMD_SZ * i + e]]
    OBVIOUS
  <2>2. v \in [0..2*Ncvec-1 -> [1..4 -> Int]]
    <3>1. 2 * Ncvec \in Nat
      BY Room DEF Width, Positive
    <3> QED BY <2>1, <3>1 DEF SIMD_SZ
  <2>3. zreorder("backward", zreorder("forward", v)) = v
    BY <2>2, ComplexUndone, RealUndone DEF SizeInv
  <2> QED BY <2>1, <2>3 DEF ReorderUndone
<1> QED BY <1>1, PlanInvariant, PTL DEF PlanInv
=============================================================================
