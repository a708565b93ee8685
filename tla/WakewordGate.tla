---------------------------- MODULE WakewordGate ----------------------------
(***************************************************************************)
(* GroupController::ValidateAuthoritativeWakeword: one check of a pre-roll *)
(* buffer, one action per frame.  The network is left out: the probability *)
(* it gives for a frame is any of Levels.  Probabilities, thresholds and   *)
(* ratios are whole numbers of percent; an average over hold frames is     *)
(* kept as their sum, so what the code compares with an average is         *)
(* multiplied by hold here.                                                *)
(***************************************************************************)
EXTENDS Integers, Sequences, FiniteSets, WindowAverager

CONSTANTS
  Settings,     \* configurations of the check (AuthoritativeWakewordConfig)
  FrameCounts,  \* what clients report as the length of the word
  Levels,       \* probabilities
  MaxFrames     \* bound: frames in a buffer

Setting == [enabled : BOOLEAN, type : STRING, threshold : Int, attack : Int,
            hold : Nat \ {0}, decay : Int, ratio : Int]

ASSUME GateAssumption ==
  /\ Settings \subseteq Setting
  /\ FrameCounts \subseteq Int
  /\ Levels \subseteq Nat
  /\ MaxFrames \in Nat

VARIABLES
  auth_ww, client_frame_count,  \* the configuration and the parameter
  averager,
  attack_counter, was_armed, smoothed_peak, current_frame_count,
  above_threshold_count,
  verdict,                      \* "open" while the loop runs
  frames,                       \* history: probabilities of the frames seen
  smoothed                      \* history: the averager's sums

callVars  == <<auth_ww, client_frame_count>>
gateVars  == <<attack_counter, was_armed, smoothed_peak, current_frame_count>>
vars == <<callVars, averager, gateVars, above_threshold_count, verdict, frames, smoothed>>

Greater(a, b) == IF a >= b THEN a ELSE b

IsRatio == auth_ww.type = "ratio"
Hit(p)  == p >= auth_ww.threshold

\* A threshold on averages, as a threshold on sums.
Sum(percent) == percent * auth_ww.hold

-----------------------------------------------------------------------------
(***************************************************************************)
(* The loops.                                                              *)
(***************************************************************************)
MoreFrames == verdict = "open" /\ Len(frames) < MaxFrames

CountFrame(p) ==
  /\ MoreFrames
  /\ IsRatio
  /\ above_threshold_count' =
       IF Hit(p) THEN above_threshold_count + 1 ELSE above_threshold_count
  /\ frames' = Append(frames, p)
  /\ UNCHANGED <<callVars, averager, gateVars, verdict, smoothed>>

\* What both halves of the envelope's loop begin with.
Smooth(p) ==
  /\ MoreFrames
  /\ ~IsRatio
  /\ averager' = Process(averager, p)
  /\ frames' = Append(frames, p)
  /\ smoothed' = Append(smoothed, averager'.current_sum)

\* Mutant: a frame below the threshold does not start the attack anew.
AttackAfter_Kept(p) == IF Hit(p) THEN attack_counter + 1 ELSE attack_counter

AttackAfter(p) == IF Hit(p) THEN attack_counter + 1 ELSE 0

UnarmedFrame(p) ==
  /\ Smooth(p)
  /\ ~was_armed
  /\ attack_counter' = AttackAfter(p)
  /\ IF Hit(p) /\ attack_counter' >= auth_ww.attack
     THEN /\ was_armed' = TRUE
          /\ smoothed_peak' = averager'.current_sum
          /\ current_frame_count' = attack_counter'
     ELSE UNCHANGED <<was_armed, smoothed_peak, current_frame_count>>
  /\ UNCHANGED <<callVars, above_threshold_count, verdict>>

PeakReached == smoothed_peak' >= Sum(auth_ww.threshold)

\* In leading mode the average has dropped from its peak, or to nearly nothing;
\* in average mode it has dropped below a fixed line, or never got up in time.
ShouldRelease ==
  \/ /\ auth_ww.type = "leading"
     /\ averager'.current_sum <= Greater(Sum(5), smoothed_peak' - Sum(auth_ww.decay))
  \/ /\ auth_ww.type = "average"
     /\ IF PeakReached
        THEN averager'.current_sum < Sum(auth_ww.threshold - auth_ww.decay)
        ELSE current_frame_count' >= auth_ww.hold

ArmedFrame(p) ==
  /\ Smooth(p)
  /\ was_armed
  /\ current_frame_count' = current_frame_count + 1
  /\ smoothed_peak' = Greater(smoothed_peak, averager'.current_sum)
  /\ verdict' = IF ~ShouldRelease THEN "open"
                ELSE IF auth_ww.type = "leading" \/ PeakReached THEN "passed"
                ELSE "failed"
  /\ UNCHANGED <<callVars, attack_counter, was_armed, above_threshold_count>>

RatioMet ==
  IF client_frame_count > 0
  THEN 100 * above_threshold_count >= auth_ww.ratio * client_frame_count
  ELSE 0 >= auth_ww.ratio

\* The buffer is over: the ratio decides, and an envelope still open has failed.
EndOfBuffer ==
  /\ verdict = "open"
  /\ verdict' = IF IsRatio /\ RatioMet THEN "passed" ELSE "failed"
  /\ UNCHANGED <<callVars, averager, gateVars, above_threshold_count, frames, smoothed>>

-----------------------------------------------------------------------------
Init ==
  /\ auth_ww \in Settings
  /\ client_frame_count \in FrameCounts
  /\ averager = NewAverager(auth_ww.hold)
  /\ attack_counter = 0
  /\ was_armed = FALSE
  /\ smoothed_peak = 0
  /\ current_frame_count = 0
  /\ above_threshold_count = 0
  /\ verdict = IF auth_ww.enabled THEN "open" ELSE "passed"
  /\ frames = <<>>
  /\ smoothed = <<>>

Next ==
  \/ \E p \in Levels : CountFrame(p) \/ UnarmedFrame(p) \/ ArmedFrame(p)
  \/ EndOfBuffer

Spec == Init /\ [][Next]_vars

-----------------------------------------------------------------------------
\* The type invariant; the head stays inside the window.
TypeOK ==
  /\ auth_ww \in Settings
  /\ client_frame_count \in FrameCounts
  /\ averager \in [window : [0..auth_ww.hold-1 -> Int], head : 0..auth_ww.hold-1,
                   current_sum : Int, size : {auth_ww.hold}]
  /\ attack_counter \in Nat
  /\ was_armed \in BOOLEAN
  /\ smoothed_peak \in Int
  /\ current_frame_count \in Nat
  /\ above_threshold_count \in Nat
  /\ verdict \in {"open", "passed", "failed"}
  /\ frames \in Seq(Levels)
  /\ smoothed \in Seq(Int)

-----------------------------------------------------------------------------
(***************************************************************************)
(* What the check computes, said of the whole sequence of frames.          *)
(***************************************************************************)
Attack == Greater(1, auth_ww.attack)

\* The attack is over at frame k: it and the frames before it are hits.
AttackAt(k) == k >= Attack /\ \A j \in k-Attack+1..k : Hit(frames[j])

ArmedAt(k) == AttackAt(k) /\ \A j \in 1..k-1 : ~AttackAt(j)

\* The average has reached the threshold after k and no later than i.
RoseBetween(k, i) == \E j \in k..i : smoothed[j] >= Sum(auth_ww.threshold)

\* The gate armed at k may close at i.
ReleasedAt(k, i) ==
  \/ /\ auth_ww.type = "leading"
     /\ \/ smoothed[i] <= Sum(5)
        \/ \E j \in k..i : smoothed[i] <= smoothed[j] - Sum(auth_ww.decay)
  \/ /\ auth_ww.type = "average"
     /\ IF RoseBetween(k, i)
        THEN smoothed[i] < Sum(auth_ww.threshold - auth_ww.decay)
        ELSE i - k + Attack >= auth_ww.hold

\* The gate armed at k closes at i.
ClosedAt(k, i) == ReleasedAt(k, i) /\ \A j \in k+1..i-1 : ~ReleasedAt(k, j)

\* The word is accepted: the gate was armed and has closed on a valid word.
EnvelopeAccepts ==
  \E k \in 1..Len(frames), i \in 1..Len(frames) :
    /\ k < i
    /\ ArmedAt(k)
    /\ ClosedAt(k, i)
    /\ auth_ww.type = "leading" \/ RoseBetween(k, i)

Hits == {j \in 1..Len(frames) : Hit(frames[j])}

\* Enough of the frames that the client counted are hits.
RatioAccepts ==
  IF client_frame_count > 0
  THEN 100 * Cardinality(Hits) >= auth_ww.ratio * client_frame_count
  ELSE 0 >= auth_ww.ratio

\* The verdict is that of the definitions above on the whole sequence of frames
\* and averages (ValidateAuthoritativeWakeword's counters, its peak, its flag and
\* its early exit lose nothing of it).
VerdictCorrect ==
  auth_ww.enabled /\ verdict # "open" =>
    (verdict = "passed" <=> IF IsRatio THEN RatioAccepts ELSE EnvelopeAccepts)

\* The sums are those of the last hold frames, or of all if there are fewer
\* (WindowAverager's circular window).
SmoothedIsMovingAverage ==
  \A i \in DOMAIN smoothed : smoothed[i] = MovingSum(frames, i, auth_ww.hold, 0)
=============================================================================
