--------------------------- MODULE WindowAverager ---------------------------
(***************************************************************************)
(* The class WindowAverager: a circular window of the last probabilities,  *)
(* and their sum, kept up to date step by step.  Probabilities are whole   *)
(* numbers of percent, and averages are kept as sums: the model has no     *)
(* rounding.                                                               *)
(***************************************************************************)
EXTENDS Integers, Sequences

NewAverager(size) ==
  [window |-> [i \in 0..size-1 |-> 0], head |-> 0, current_sum |-> 0, size |-> size]

\* Mutant: the oldest probability stays in the sum.
Process_Adds(a, p) ==
  [window      |-> [a.window EXCEPT ![a.head] = p],
   head        |-> (a.head + 1) % a.size,
   current_sum |-> a.current_sum + p,
   size        |-> a.size]

\* The new probability takes the place of the oldest.
Process(a, p) ==
  [window      |-> [a.window EXCEPT ![a.head] = p],
   head        |-> (a.head + 1) % a.size,
   current_sum |-> a.current_sum - a.window[a.head] + p,
   size        |-> a.size]

\* Mutant: the window is filled, the sum is not.
Reset_KeepsSum(a, val) ==
  [window      |-> [i \in 0..a.size-1 |-> val],
   head        |-> a.head,
   current_sum |-> a.current_sum,
   size        |-> a.size]

\* Fills the window; the head stays where it is.
Reset(a, val) ==
  [window      |-> [i \in 0..a.size-1 |-> val],
   head        |-> a.head,
   current_sum |-> val * a.size,
   size        |-> a.size]

-----------------------------------------------------------------------------
(***************************************************************************)
(* What the averager is to keep, said of the whole sequence it was given.  *)
(***************************************************************************)
\* The sums of the first 0, 1, 2... numbers of s.
Totals(s) ==
  LET total[k \in 0..Len(s)] == IF k = 0 THEN 0 ELSE total[k-1] + s[k]
  IN  total

\* The sum of the last size numbers of the first k, with fill for those that are missing.
MovingSum(s, k, size, fill) ==
  IF k < size THEN Totals(s)[k] + fill * (size - k)
  ELSE Totals(s)[k] - Totals(s)[k - size]
=============================================================================
