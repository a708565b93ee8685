---------------------------- MODULE TFLiteRunner ----------------------------
(***************************************************************************)
(* The class TFLiteRunner: the memory that the network carries from frame  *)
(* to frame.  Input 0 is the features and output 0 the probabilities; the  *)
(* others are the states.  The content of a state is the set of streams    *)
(* that have had an influence on it; {} is all zeros.  What the network    *)
(* computes is any probability.                                            *)
(***************************************************************************)
EXTENDS Integers

CONSTANTS
  NumInputs, NumOutputs,  \* tensors of the model
  NumClasses              \* probabilities in output 0

ASSUME TensorAssumption ==
  /\ NumInputs \in Nat \ {0}
  /\ NumOutputs \in Nat \ {0}
  /\ NumClasses \in Nat

Fewer(a, b) == IF a <= b THEN a ELSE b

\* States that are copied back and reset.
NumStates == Fewer(NumInputs, NumOutputs) - 1

\* All input states are zeros on boot; output tensors too, until the first Invoke.
Boot ==
  [in     |-> [i \in 1..NumInputs-1 |-> {}],
   out    |-> [i \in 1..NumOutputs-1 |-> {}],
   score  |-> 0,
   failed |-> FALSE]

Influence(net) == UNION {net.in[i] : i \in 1..NumInputs-1}

\* Copies the output states to the inputs.
Fed(in, out) ==
  [i \in 1..NumInputs-1 |-> IF i <= NumStates THEN out[i] ELSE in[i]]

\* One frame of stream s, for which the network gives score.
Infer(net, s, score) ==
  LET out == [i \in 1..NumOutputs-1 |-> Influence(net) \union {s}]
  IN  [in |-> Fed(net.in, out), out |-> out, score |-> score, failed |-> net.failed]

\* Invoke fails: it is logged, and the outputs of the frame before are used again.
InferFails(net) ==
  [in     |-> Fed(net.in, net.out),
   out    |-> net.out,
   score  |-> net.score,
   failed |-> TRUE]  \* history

\* Mutant: the last state is forgotten.
ResetStates_ButLast(net) ==
  [net EXCEPT !.in = [i \in 1..NumInputs-1 |-> IF i < NumStates THEN {} ELSE net.in[i]]]

ResetStates(net) ==
  [in     |-> [i \in 1..NumInputs-1 |-> IF i <= NumStates THEN {} ELSE net.in[i]],
   out    |-> net.out,
   score  |-> net.score,
   failed |-> net.failed]
=============================================================================
