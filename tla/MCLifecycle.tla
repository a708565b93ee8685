---------------------------- MODULE MCLifecycle -----------------------------
EXTENDS Lifecycle

\* Two ticks from one stream to the next, and a second has two ticks.
ASecondApart == {[arbitration |-> 1, no_voice |-> 1]}
=============================================================================
