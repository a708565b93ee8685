---------------------------- MODULE WakeArbiter ----------------------------
(***************************************************************************)
(* What a group promises about its wake-word arbitration, without saying   *)
(* how: the offers of a round are collected, and when the round closes it  *)
(* is either refused or awarded to the earliest of the offers with the     *)
(* highest score; the group hears nobody else until the floor is released. *)
(* GroupController implements this specification.                          *)
(***************************************************************************)
EXTENDS Integers, Sequences

CONSTANTS
  Sessions,     \* the client sessions that may offer
  Scores,       \* the confidence scores they may report
  FrameCounts,  \* the frame counts they may report
  None          \* nobody holds the floor

VARIABLES
  phase,   \* "idle", "collecting" or "awarded"
  offers,  \* the offers of the open round, in order of arrival
  holder   \* the offer the floor was awarded to, or None

arbiterVars == <<phase, offers, holder>>

Offer == [who : Sessions, score : Scores, frames : FrameCounts]

\* c[i] has the highest score of the sequence c, and no earlier one matches it.
IsFirstBest(c, i) ==
  /\ \A j \in 1..Len(c) : c[j].score <= c[i].score
  /\ \A j \in 1..(i - 1) : c[j].score < c[i].score

Init ==
  /\ phase = "idle"
  /\ offers = <<>>
  /\ holder = None

\* The first offer opens a round.
OpenRound(o) ==
  /\ phase = "idle"
  /\ phase' = "collecting"
  /\ offers' = <<o>>
  /\ UNCHANGED holder

JoinRound(o) ==
  /\ phase = "collecting"
  /\ offers' = Append(offers, o)
  /\ UNCHANGED <<phase, holder>>

Award ==
  /\ phase = "collecting"
  /\ \E i \in 1..Len(offers) :
       /\ IsFirstBest(offers, i)
       /\ holder' = offers[i]
  /\ phase' = "awarded"
  /\ offers' = <<>>

Refuse ==
  /\ phase = "collecting"
  /\ phase' = "idle"
  /\ offers' = <<>>
  /\ UNCHANGED holder

Release ==
  /\ phase = "awarded"
  /\ phase' = "idle"
  /\ holder' = None
  /\ UNCHANGED offers

Next ==
  \/ \E o \in Offer : OpenRound(o) \/ JoinRound(o)
  \/ Award
  \/ Refuse
  \/ Release

SafeSpec == Init /\ [][Next]_arbiterVars

\* A round that was opened is eventually closed.
Spec == SafeSpec /\ WF_arbiterVars(Award \/ Refuse)
=============================================================================
