---------------------------- MODULE SinkArbiter ----------------------------
(***************************************************************************)
(* What the sharing of a sound device promises, without saying how: the    *)
(* device has one holder at a time; recordings wait in the order in which  *)
(* they were handed over and are taken in that order; a live stream is     *)
(* granted the device only when no recording has it or waits for it.       *)
(* AlsaSinkManager implements this specification.                          *)
(***************************************************************************)
EXTENDS Integers, Sequences

CONSTANT MaxStreams  \* streams, live or recorded, are numbered 1..MaxStreams

VARIABLES
  holder,  \* the stream the device plays, or 0
  waiting  \* the recordings handed over and not taken yet

sinkVars == <<holder, waiting>>

Streams == 1..MaxStreams

Init == holder = 0 /\ waiting = <<>>

GrantLive(n) ==
  /\ holder = 0
  /\ waiting = <<>>
  /\ holder' = n
  /\ UNCHANGED waiting

HandOver(n) ==
  /\ waiting' = Append(waiting, n)
  /\ UNCHANGED holder

TakeNext ==
  /\ holder = 0
  /\ waiting # <<>>
  /\ holder' = Head(waiting)
  /\ waiting' = Tail(waiting)

Release ==
  /\ holder # 0
  /\ holder' = 0
  /\ UNCHANGED waiting

Next ==
  \/ \E n \in Streams : GrantLive(n) \/ HandOver(n)
  \/ TakeNext
  \/ Release

SafeSpec == Init /\ [][Next]_sinkVars

\* A free device does not leave a recording waiting.
Spec == SafeSpec /\ WF_sinkVars(TakeNext)
=============================================================================
