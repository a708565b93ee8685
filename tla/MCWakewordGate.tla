--------------------------- MODULE MCWakewordGate ---------------------------
\* WakewordGate for TLC: a few configurations of each mode.
EXTENDS WakewordGate

Mode(type, attack, hold, decay) ==
  [enabled |-> TRUE, type |-> type, threshold |-> 85, attack |-> attack, hold |-> hold,
   decay |-> decay, ratio |-> 50]

\* The last three: an attack longer than the window, a type that is not one of
\* the three, and the check switched off.
MCSettings ==
  {Mode("leading", 2, 3, 20), Mode("leading", 1, 2, 40),
   Mode("average", 2, 3, 15), Mode("average", 0, 2, 25),
   Mode("ratio", 1, 1, 0),
   Mode("average", 3, 2, 15), Mode("trailing", 1, 1, 0),
   [Mode("leading", 1, 1, 0) EXCEPT !.enabled = FALSE]}
=============================================================================
