----------------------------- MODULE SimpleAGC ------------------------------
(***************************************************************************)
(* The delay line of the class SimpleAGC, which looks ahead by DelayChunks *)
(* chunks.  The gain is left out: what matters here is which sample comes  *)
(* out in which place.  A chunk is a sequence of samples, and the line is  *)
(* empty until the first chunk has been processed (initialized_).          *)
(***************************************************************************)
EXTENDS Integers, Sequences

CONSTANT DelayChunks  \* 5 in the code

ASSUME DelayAssumption == DelayChunks \in Nat \ {0}

Zeros(n) == [i \in 1..n |-> 0]

\* Mutant: the line is made anew for a chunk of another size.
Primed_Anew(line, pcm) ==
  IF line = <<>> \/ Len(Head(line)) # Len(pcm)
  THEN [k \in 1..DelayChunks |-> Zeros(Len(pcm))] ELSE line

\* The first chunk decides the size of the chunks of silence that fill the line.
Primed(line, pcm) ==
  IF line = <<>> THEN [k \in 1..DelayChunks |-> Zeros(Len(pcm))] ELSE line

Pushed(line, pcm) == Append(Primed(line, pcm), pcm)

\* Mutant: the oldest chunk comes out but stays in the line.
NextLine_Kept(line, pcm) == Pushed(line, pcm)

NextLine(line, pcm) == Tail(Pushed(line, pcm))

OutChunk(line, pcm) == Head(Pushed(line, pcm))

\* The output is written over the input, sample by sample of the output: what is
\* behind a shorter output keeps the new samples.
Processed(line, pcm) ==
  LET out == OutChunk(line, pcm)
  IN  [i \in 1..Len(pcm) |-> IF i <= Len(out) THEN out[i] ELSE pcm[i]]

\* A longer output is written past the end of the chunk.
Overruns(line, pcm) == Len(OutChunk(line, pcm)) > Len(pcm)
=============================================================================
