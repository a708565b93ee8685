------------------------ MODULE WakewordGateProofs ------------------------
(***************************************************************************)
(* Theorems about WakewordGate.  The loop's counters stand for facts about *)
(* the frames seen so far; IInv says which, and with it the verdict is     *)
(* that of the definitions on whole sequences, for all configurations and  *)
(* buffers of any length.                                                  *)
(***************************************************************************)
EXTENDS WakewordGate, WindowAveragerProofs, FiniteSetTheorems

\* In an envelope mode there is an average for each frame.
SmoothedEach == ~IsRatio => Len(smoothed) = Len(frames)

\* The attack counter is the length of the run of hits that the frames end with.
RunOfHits ==
  /\ attack_counter <= Len(frames)
  /\ \A j \in Len(frames)-attack_counter+1..Len(frames) : Hit(frames[j])
  /\ attack_counter < Len(frames) => ~Hit(frames[Len(frames)-attack_counter])

\* Before the gate is armed no attack has been completed.
Unarmed ==
  ~IsRatio /\ ~was_armed =>
    /\ RunOfHits
    /\ attack_counter < Attack
    /\ \A k \in 1..Len(frames) : ~AttackAt(k)

\* The gate was armed at k; what the loop knows of the frames since then.
ArmedSince(k) ==
  /\ ArmedAt(k)
  /\ current_frame_count = Len(frames) - k + Attack
  /\ \E j \in k..Len(frames) : smoothed_peak = smoothed[j]
  /\ \A j \in k..Len(frames) : smoothed[j] <= smoothed_peak
  /\ verdict = "open" => \A i \in k+1..Len(frames) : ~ReleasedAt(k, i)

Armed == ~IsRatio /\ was_armed => \E k \in 1..Len(frames) : ArmedSince(k)

\* The counter of the ratio mode.
Counted == IsRatio => above_threshold_count = Cardinality(Hits)

IInv == TypeOK /\ SmoothedEach /\ Unarmed /\ Armed /\ Counted /\ VerdictCorrect

-----------------------------------------------------------------------------
\* What the configuration's types say.
LEMMA SettingTypes ==
  ASSUME TypeOK
  PROVE  /\ auth_ww.threshold \in Int
         /\ auth_ww.attack \in Int
         /\ auth_ww.hold \in Nat \ {0}
         /\ auth_ww.decay \in Int
         /\ auth_ww.ratio \in Int
         /\ Attack \in Nat \ {0}
         /\ client_frame_count \in Int
BY GateAssumption DEF TypeOK, Setting, Attack, Greater, GateAssumption

\* What appending does to a sequence.
LEMMA Appended ==
  ASSUME NEW S, NEW s \in Seq(S), NEW e \in S
  PROVE  /\ Append(s, e) \in Seq(S)
         /\ Len(s) \in Nat
         /\ Len(Append(s, e)) = Len(s) + 1
         /\ \A i \in 1..Len(s) : Append(s, e)[i] = s[i]
         /\ Append(s, e)[Len(s)+1] = e
BY AppendProperties, LenProperties

\* A step of the window keeps its shape.
LEMMA ProcessTypes ==
  ASSUME NEW n \in Nat \ {0}, NEW p \in Int,
         NEW a \in [window : [0..n-1 -> Int], head : 0..n-1, current_sum : Int, size : {n}]
  PROVE  Process(a, p) \in [window : [0..n-1 -> Int], head : 0..n-1, current_sum : Int,
                            size : {n}]
<1>1. (a.head + 1) % n \in 0..n-1
  OBVIOUS
<1>2. a.window[a.head] \in Int
  OBVIOUS
<1>3. [a.window EXCEPT ![a.head] = p] \in [0..n-1 -> Int]
  OBVIOUS
<1>4. a.current_sum - a.window[a.head] + p \in Int
  BY <1>2
<1> QED BY <1>1, <1>3, <1>4 DEF Process

LEMMA TypeInit == Init => TypeOK
<1> SUFFICES ASSUME Init PROVE TypeOK
  OBVIOUS
<1>1. auth_ww.hold \in Nat \ {0}
  BY GateAssumption DEF Init, Setting, GateAssumption
<1>2. averager \in [window : [0..auth_ww.hold-1 -> Int], head : 0..auth_ww.hold-1,
                    current_sum : Int, size : {auth_ww.hold}]
  BY <1>1 DEF Init, NewAverager
<1>3. verdict \in {"open", "passed", "failed"}
  BY DEF Init
<1>4. frames \in Seq(Levels) /\ smoothed \in Seq(Int)
  BY DEF Init
<1>5. /\ attack_counter \in Nat /\ smoothed_peak \in Int /\ current_frame_count \in Nat
      /\ above_threshold_count \in Nat
  BY DEF Init
<1>6. was_armed \in BOOLEAN /\ auth_ww \in Settings /\ client_frame_count \in FrameCounts
  BY Zenon DEF Init
<1> QED BY <1>2, <1>3, <1>4, <1>5, <1>6 DEF TypeOK

LEMMA TypeStep == ASSUME TypeOK, [Next]_vars PROVE TypeOK'
<1> USE DEF TypeOK
<1>0. auth_ww.hold \in Nat \ {0} /\ Levels \subseteq Int
  BY SettingTypes, GateAssumption DEF GateAssumption
<1>1. ASSUME NEW p \in Levels, CountFrame(p) PROVE TypeOK'
  <2>1. frames' \in Seq(Levels)
    BY <1>1, Appended DEF CountFrame
  <2>2. above_threshold_count' \in Nat
    BY <1>1 DEF CountFrame
  <2> QED BY <1>1, <2>1, <2>2 DEF CountFrame, callVars, gateVars
<1>2. ASSUME NEW p \in Levels, Smooth(p), auth_ww' = auth_ww
      PROVE  /\ averager' \in [window : [0..auth_ww.hold-1 -> Int], head : 0..auth_ww.hold-1,
                               current_sum : Int, size : {auth_ww.hold}]
             /\ averager'.current_sum \in Int
             /\ frames' \in Seq(Levels)
             /\ smoothed' \in Seq(Int)
  <2>1. averager' \in [window : [0..auth_ww.hold-1 -> Int], head : 0..auth_ww.hold-1,
                       current_sum : Int, size : {auth_ww.hold}]
    BY <1>0, <1>2, ProcessTypes DEF Smooth
  <2>2. averager'.current_sum \in Int
    BY <2>1
  <2>3. frames' \in Seq(Levels) /\ smoothed' \in Seq(Int)
    BY <1>2, <2>2, Appended DEF Smooth
  <2> QED BY <2>1, <2>2, <2>3
<1>3. ASSUME NEW p \in Levels, UnarmedFrame(p) PROVE TypeOK'
  <2>1. Smooth(p) /\ UNCHANGED callVars
    BY <1>3 DEF UnarmedFrame
  <2>2. attack_counter' \in Nat
    BY <1>3 DEF UnarmedFrame, AttackAfter
  <2>3. was_armed' \in BOOLEAN /\ smoothed_peak' \in Int /\ current_frame_count' \in Nat
    BY <1>2, <1>3, <2>1, <2>2 DEF UnarmedFrame, callVars
  <2> QED BY <1>2, <1>3, <2>1, <2>2, <2>3 DEF UnarmedFrame, callVars
<1>4. ASSUME NEW p \in Levels, ArmedFrame(p) PROVE TypeOK'
  <2>1. Smooth(p) /\ UNCHANGED callVars
    BY <1>4 DEF ArmedFrame
  <2>2. smoothed_peak' \in Int /\ current_frame_count' \in Nat
    BY <1>2, <1>4, <2>1 DEF ArmedFrame, Greater, callVars
  <2>3. verdict' \in {"open", "passed", "failed"}
    BY <1>4 DEF ArmedFrame
  <2> QED BY <1>2, <1>4, <2>1, <2>2, <2>3 DEF ArmedFrame, callVars
<1>5. CASE EndOfBuffer
  <2>1. verdict' \in {"open", "passed", "failed"}
    BY <1>5 DEF EndOfBuffer
  <2> QED BY <1>5, <2>1 DEF EndOfBuffer, callVars, gateVars
<1>6. CASE UNCHANGED vars
  BY <1>6 DEF vars, callVars, gateVars
<1> QED BY <1>1, <1>3, <1>4, <1>5, <1>6 DEF Next

-----------------------------------------------------------------------------
\* What is true of the frames seen so far stays true of them.
LEMMA AttackKept ==
  ASSUME TypeOK, NEW p \in Levels, frames' = Append(frames, p), UNCHANGED callVars
  PROVE  \A k \in 1..Len(frames) : /\ AttackAt(k)' <=> AttackAt(k)
                                   /\ ArmedAt(k)' <=> ArmedAt(k)
<1>0. /\ Len(frames) \in Nat
      /\ \A i \in 1..Len(frames) : frames'[i] = frames[i]
  BY Appended DEF TypeOK
<1>1. auth_ww' = auth_ww /\ Attack \in Nat \ {0} /\ Attack' = Attack
  BY SettingTypes DEF callVars, Attack
<1>2. ASSUME NEW k \in 1..Len(frames) PROVE AttackAt(k)' <=> AttackAt(k)
  BY <1>0, <1>1 DEF AttackAt, Hit
<1>3. ASSUME NEW k \in 1..Len(frames) PROVE ArmedAt(k)' <=> ArmedAt(k)
  <2>1. \A j \in 1..k-1 : j \in 1..Len(frames)
    BY <1>0
  <2> QED BY <1>2, <2>1 DEF ArmedAt
<1> QED BY <1>2, <1>3

LEMMA ReleasedKept ==
  ASSUME TypeOK, NEW x \in Int, smoothed' = Append(smoothed, x), UNCHANGED callVars
  PROVE  \A k \in 1..Len(smoothed) : \A i \in k..Len(smoothed) :
           /\ RoseBetween(k, i)' <=> RoseBetween(k, i)
           /\ ReleasedAt(k, i)' <=> ReleasedAt(k, i)
<1>0. /\ Len(smoothed) \in Nat
      /\ \A i \in 1..Len(smoothed) : smoothed'[i] = smoothed[i]
  BY Appended DEF TypeOK
<1>1. auth_ww' = auth_ww /\ Attack' = Attack
  BY DEF callVars, Attack
<1>2. ASSUME NEW k \in 1..Len(smoothed), NEW i \in k..Len(smoothed)
      PROVE  RoseBetween(k, i)' <=> RoseBetween(k, i)
  BY <1>0, <1>1 DEF RoseBetween, Sum
<1>3. ASSUME NEW k \in 1..Len(smoothed), NEW i \in k..Len(smoothed)
      PROVE  ReleasedAt(k, i)' <=> ReleasedAt(k, i)
  BY <1>0, <1>1, <1>2 DEF ReleasedAt, Sum
<1> QED BY <1>2, <1>3

\* The gate is armed once.
LEMMA ArmedOnce ==
  ASSUME Len(frames) \in Nat,
         NEW k \in 1..Len(frames), NEW l \in 1..Len(frames), ArmedAt(k), ArmedAt(l)
  PROVE  k = l
<1>1. ~(k < l) /\ ~(l < k)
  BY DEF ArmedAt
<1> QED BY <1>1

\* The frames and averages after one more.
LEMMA Smoothing ==
  ASSUME TypeOK, TypeOK', SmoothedEach, NEW p \in Levels, Smooth(p), UNCHANGED callVars
  PROVE  /\ Len(frames) \in Nat
         /\ Len(smoothed) = Len(frames)
         /\ Len(frames') = Len(frames) + 1
         /\ Len(smoothed') = Len(frames) + 1
         /\ \A i \in 1..Len(frames) : frames'[i] = frames[i]
         /\ \A i \in 1..Len(frames) : smoothed'[i] = smoothed[i]
         /\ frames'[Len(frames)+1] = p
         /\ smoothed'[Len(frames)+1] = averager'.current_sum
         /\ averager'.current_sum \in Int
         /\ smoothed' = Append(smoothed, averager'.current_sum)
         /\ frames' = Append(frames, p)
         /\ ~IsRatio
         /\ verdict = "open"
<1>1. averager'.current_sum \in Int
  BY DEF TypeOK
<1>2. /\ smoothed' = Append(smoothed, averager'.current_sum) /\ frames' = Append(frames, p)
      /\ ~IsRatio /\ verdict = "open"
  BY DEF Smooth, MoreFrames
<1>3. /\ Len(frames) \in Nat /\ Len(frames') = Len(frames) + 1
      /\ \A i \in 1..Len(frames) : frames'[i] = frames[i]
      /\ frames'[Len(frames)+1] = p
  BY <1>2, Appended DEF TypeOK
<1>4. /\ Len(smoothed') = Len(smoothed) + 1
      /\ \A i \in 1..Len(smoothed) : smoothed'[i] = smoothed[i]
      /\ smoothed'[Len(smoothed)+1] = averager'.current_sum
  BY <1>1, <1>2, Appended DEF TypeOK
<1>5. Len(smoothed) = Len(frames)
  BY <1>2 DEF SmoothedEach
<1> QED BY <1>1, <1>2, <1>3, <1>4, <1>5

-----------------------------------------------------------------------------
\* A frame before the gate is armed.
LEMMA UnarmedStep ==
  ASSUME TypeOK, TypeOK', SmoothedEach, Unarmed, NEW p \in Levels, UnarmedFrame(p)
  PROVE  SmoothedEach' /\ Unarmed' /\ Armed'
<1>0. PICK n \in Nat : n = Len(frames)
  BY Appended DEF TypeOK
<1>1. /\ Smooth(p) /\ UNCHANGED callVars /\ ~was_armed /\ verdict' = verdict
      /\ attack_counter' = AttackAfter(p)
      /\ IF Hit(p) /\ attack_counter' >= auth_ww.attack
         THEN was_armed' = TRUE /\ smoothed_peak' = averager'.current_sum
              /\ current_frame_count' = attack_counter'
         ELSE was_armed' = was_armed
  BY DEF UnarmedFrame
<1>2. /\ n \in Nat /\ Len(frames) = n /\ Len(smoothed) = n /\ Len(frames') = n + 1 /\ Len(smoothed') = n + 1
      /\ \A i \in 1..n : frames'[i] = frames[i]
      /\ frames'[n+1] = p
      /\ smoothed'[n+1] = averager'.current_sum
      /\ averager'.current_sum \in Int
      /\ frames' = Append(frames, p)
      /\ ~IsRatio
  BY <1>0, <1>1, Smoothing
<1>3. /\ auth_ww' = auth_ww /\ Attack' = Attack /\ Attack \in Nat \ {0}
      /\ auth_ww.attack \in Int /\ auth_ww.threshold \in Int
  BY <1>1, SettingTypes DEF callVars, Attack
<1>4. /\ RunOfHits /\ attack_counter < Attack /\ attack_counter \in Nat
      /\ \A k \in 1..n : ~AttackAt(k)
  BY <1>1, <1>2 DEF Unarmed, TypeOK
<1>5. \A k \in 1..n : ~AttackAt(k)'
  BY <1>1, <1>2, <1>4, AttackKept
<1>6. SmoothedEach'
  BY <1>2 DEF SmoothedEach
<1>7. ASSUME Hit(p), attack_counter' >= auth_ww.attack PROVE Unarmed' /\ Armed'
  <2>1. was_armed' = TRUE /\ smoothed_peak' = averager'.current_sum
        /\ current_frame_count' = attack_counter' /\ attack_counter' = attack_counter + 1
    BY <1>1, <1>7 DEF AttackAfter
  <2>2. attack_counter + 1 = Attack
    BY <1>3, <1>4, <1>7, <2>1 DEF Attack, Greater
  <2>3. AttackAt(n+1)'
    <3>1. n + 1 >= Attack
      BY <1>2, <1>4, <2>2 DEF RunOfHits
    <3>2. ASSUME NEW j \in n+1-Attack+1..n+1 PROVE frames'[j] >= auth_ww.threshold
      <4>1. CASE j = n + 1
        BY <1>2, <1>7, <4>1 DEF Hit
      <4>2. CASE j # n + 1
        <5>1. j \in n-attack_counter+1..n /\ j \in 1..n
          BY <1>2, <1>3, <1>4, <2>2, <3>1, <4>2
        <5> QED BY <1>2, <1>4, <5>1 DEF RunOfHits, Hit
      <4> QED BY <4>1, <4>2
    <3> QED BY <1>3, <3>1, <3>2 DEF AttackAt, Hit
  <2>4. ArmedAt(n+1)'
    BY <1>2, <1>5, <2>3 DEF ArmedAt
  <2>5. ArmedSince(n+1)'
    <3>1. current_frame_count' = Len(frames') - (n + 1) + Attack'
      BY <1>2, <1>3, <2>1, <2>2
    <3>2. \A j \in n+1..Len(frames') : j = n + 1
      BY <1>2
    <3>3. n + 1 \in n+1..Len(frames') /\ smoothed_peak' = smoothed'[n+1]
          /\ smoothed'[n+1] <= smoothed_peak'
      BY <1>2, <2>1
    <3>4. \A i \in n+1+1..Len(frames') : FALSE
      BY <1>2
    <3> QED BY <2>4, <3>1, <3>2, <3>3, <3>4 DEF ArmedSince
  <2> QED BY <1>2, <2>1, <2>5 DEF Unarmed, Armed
<1>8. ASSUME ~(Hit(p) /\ attack_counter' >= auth_ww.attack) PROVE Unarmed' /\ Armed'
  <2>0. ~was_armed'
    BY <1>1, <1>8
  <2>1. CASE Hit(p)
    <3>1. attack_counter' = attack_counter + 1 /\ attack_counter + 1 < auth_ww.attack
      BY <1>1, <1>3, <1>4, <1>8, <2>1 DEF AttackAfter
    <3>2. attack_counter' < Attack'
      BY <1>3, <1>4, <3>1 DEF Attack, Greater
    <3>3. RunOfHits'
      <4>1. attack_counter' <= Len(frames')
        BY <1>2, <1>4, <3>1 DEF RunOfHits
      <4>2. ASSUME NEW j \in Len(frames')-attack_counter'+1..Len(frames')
            PROVE  frames'[j] >= auth_ww.threshold
        <5>1. CASE j = n + 1
          BY <1>2, <1>3, <2>1, <5>1 DEF Hit
        <5>2. CASE j # n + 1
          <6>1. j \in n-attack_counter+1..n /\ j \in 1..n
            BY <1>2, <1>4, <3>1, <5>2 DEF RunOfHits
          <6> QED BY <1>2, <1>3, <1>4, <6>1 DEF RunOfHits, Hit
        <5> QED BY <5>1, <5>2
      <4>3. ASSUME attack_counter' < Len(frames')
            PROVE  ~(frames'[Len(frames')-attack_counter'] >= auth_ww.threshold)
        <5>1. attack_counter < n /\ n - attack_counter \in 1..n
              /\ Len(frames') - attack_counter' = n - attack_counter
          BY <1>2, <1>4, <3>1, <4>3
        <5> QED BY <1>2, <1>3, <1>4, <5>1 DEF RunOfHits, Hit
      <4> QED BY <1>3, <4>1, <4>2, <4>3 DEF RunOfHits, Hit
    <3>4. ~AttackAt(n+1)'
      <4> SUFFICES ASSUME AttackAt(n+1)' PROVE FALSE
        OBVIOUS
      <4>1. n + 1 >= Attack
        BY <1>3 DEF AttackAt
      <4>2. attack_counter + 1 < Attack
        BY <1>3, <3>1, <3>2
      <4>3. /\ attack_counter < n /\ n - attack_counter \in 1..n
            /\ n - attack_counter \in n+1-Attack+1..n+1
        BY <1>2, <1>3, <1>4, <4>1, <4>2
      <4>4. ~Hit(frames[n-attack_counter])
        BY <1>2, <1>4, <4>3 DEF RunOfHits
      <4>5. frames'[n-attack_counter] >= auth_ww.threshold
        BY <1>3, <4>3 DEF AttackAt, Hit
      <4> QED BY <1>2, <4>3, <4>4, <4>5 DEF Hit
    <3>5. \A k \in 1..Len(frames') : ~AttackAt(k)'
      BY <1>2, <1>5, <3>4
    <3> QED BY <2>0, <3>2, <3>3, <3>5 DEF Unarmed, Armed
  <2>2. CASE ~Hit(p)
    <3>1. attack_counter' = 0
      BY <1>1, <2>2 DEF AttackAfter
    <3>2. RunOfHits'
      <4>1. 0 <= Len(frames') /\ Len(frames') - 0 = n + 1
            /\ \A j \in Len(frames')-0+1..Len(frames') : FALSE
        BY <1>2
      <4>2. ~(frames'[n+1] >= auth_ww.threshold)
        BY <1>2, <1>3, <2>2 DEF Hit
      <4> QED BY <1>3, <3>1, <4>1, <4>2 DEF RunOfHits, Hit
    <3>3. ~AttackAt(n+1)'
      BY <1>2, <1>3, <2>2 DEF AttackAt, Hit
    <3>4. \A k \in 1..Len(frames') : ~AttackAt(k)'
      BY <1>2, <1>5, <3>3
    <3> QED BY <1>3, <2>0, <3>1, <3>2, <3>4 DEF Unarmed, Armed
  <2> QED BY <2>1, <2>2
<1> QED BY <1>6, <1>7, <1>8

-----------------------------------------------------------------------------
\* The release that the loop decides on is that of the definition.
LEMMA ReleaseDecided ==
  ASSUME TypeOK, TypeOK', UNCHANGED callVars,
         NEW k \in Nat, NEW n \in Nat, k <= n,
         smoothed'[n+1] = averager'.current_sum,
         \A j \in k..n : smoothed'[j] \in Int,
         current_frame_count' = n + 1 - k + Attack,
         \E j \in k..n+1 : smoothed_peak' = smoothed'[j],
         \A j \in k..n+1 : smoothed'[j] <= smoothed_peak'
  PROVE  /\ PeakReached <=> RoseBetween(k, n+1)'
         /\ ShouldRelease <=> ReleasedAt(k, n+1)'
<1>1. /\ auth_ww' = auth_ww /\ Attack' = Attack /\ Attack \in Nat
      /\ auth_ww.threshold \in Int /\ auth_ww.decay \in Int /\ auth_ww.hold \in Nat
  BY SettingTypes DEF callVars, Attack
<1>2. smoothed_peak' \in Int /\ averager'.current_sum \in Int
  BY DEF TypeOK
<1>3. \A j \in k..n+1 : smoothed'[j] \in Int
  BY <1>2
<1>4. \A a \in Int : smoothed_peak' >= a <=> \E j \in k..n+1 : smoothed'[j] >= a
  BY <1>2, <1>3
<1>5. PICK threshold \in Int : threshold = Sum(auth_ww.threshold)
  BY <1>1 DEF Sum
<1>6. PICK decay \in Int : decay = Sum(auth_ww.decay)
  BY <1>1 DEF Sum
<1>7. PICK floor \in Int : floor = Sum(5)
  BY <1>1 DEF Sum
<1>8. /\ Sum(auth_ww.threshold)' = threshold /\ Sum(auth_ww.decay)' = decay
      /\ Sum(5)' = floor
      /\ Sum(auth_ww.threshold - auth_ww.decay)' = Sum(auth_ww.threshold - auth_ww.decay)
  BY <1>1, <1>5, <1>6, <1>7 DEF Sum
<1>9. PeakReached <=> RoseBetween(k, n+1)'
  BY <1>4, <1>5, <1>8 DEF PeakReached, RoseBetween
<1>10. \/ averager'.current_sum <= floor
       \/ \E j \in k..n+1 : averager'.current_sum <= smoothed'[j] - decay
       <=> averager'.current_sum <= Greater(floor, smoothed_peak' - decay)
  BY <1>2, <1>3 DEF Greater
<1>11. ShouldRelease <=>
         \/ /\ auth_ww.type = "leading"
            /\ averager'.current_sum <= Greater(floor, smoothed_peak' - decay)
         \/ /\ auth_ww.type = "average"
            /\ IF PeakReached
               THEN averager'.current_sum < Sum(auth_ww.threshold - auth_ww.decay)
               ELSE current_frame_count' >= auth_ww.hold
  BY <1>6, <1>7 DEF ShouldRelease
<1>12. ReleasedAt(k, n+1)' <=>
         \/ /\ auth_ww.type = "leading"
            /\ \/ averager'.current_sum <= floor
               \/ \E j \in k..n+1 : averager'.current_sum <= smoothed'[j] - decay
         \/ /\ auth_ww.type = "average"
            /\ IF RoseBetween(k, n+1)'
               THEN averager'.current_sum < Sum(auth_ww.threshold - auth_ww.decay)
               ELSE current_frame_count' >= auth_ww.hold
  BY <1>1, <1>8 DEF ReleasedAt
<1> QED BY <1>9, <1>10, <1>11, <1>12

\* A frame once the gate is armed.
LEMMA ArmedStep ==
  ASSUME TypeOK, TypeOK', SmoothedEach, Armed, NEW p \in Levels, ArmedFrame(p)
  PROVE  SmoothedEach' /\ Unarmed' /\ Armed' /\ VerdictCorrect'
<1>0. PICK n \in Nat : n = Len(frames)
  BY Appended DEF TypeOK
<1>1. /\ Smooth(p) /\ UNCHANGED callVars /\ was_armed /\ was_armed' = was_armed
      /\ current_frame_count' = current_frame_count + 1
      /\ smoothed_peak' = Greater(smoothed_peak, averager'.current_sum)
      /\ verdict' = IF ~ShouldRelease THEN "open"
                    ELSE IF auth_ww.type = "leading" \/ PeakReached THEN "passed"
                    ELSE "failed"
  BY DEF ArmedFrame
<1>2. /\ n \in Nat /\ Len(frames) = n /\ Len(smoothed) = n
      /\ Len(frames') = n + 1 /\ Len(smoothed') = n + 1
      /\ \A i \in 1..n : smoothed'[i] = smoothed[i]
      /\ smoothed'[n+1] = averager'.current_sum
      /\ averager'.current_sum \in Int
      /\ smoothed' = Append(smoothed, averager'.current_sum)
      /\ frames' = Append(frames, p)
      /\ ~IsRatio
      /\ verdict = "open"
  BY <1>0, <1>1, Smoothing
<1>3. auth_ww' = auth_ww /\ Attack' = Attack /\ Attack \in Nat
  BY <1>1, SettingTypes DEF callVars, Attack
<1>4. PICK k \in 1..n : ArmedSince(k)
  BY <1>1, <1>2 DEF Armed
<1>5. ArmedAt(k)'
  BY <1>1, <1>2, <1>4, AttackKept DEF ArmedSince
<1>6. current_frame_count' = n + 1 - k + Attack
  BY <1>1, <1>2, <1>3, <1>4 DEF ArmedSince
<1>7. /\ \A j \in k..n : smoothed'[j] = smoothed[j] /\ smoothed[j] \in Int
      /\ smoothed_peak \in Int
      /\ \E j \in k..n : smoothed_peak = smoothed[j]
      /\ \A j \in k..n : smoothed[j] <= smoothed_peak
  <2>1. \A j \in 1..n : smoothed[j] \in Int
    BY <1>2 DEF TypeOK
  <2>2. ASSUME NEW j \in k..n PROVE smoothed'[j] = smoothed[j] /\ smoothed[j] \in Int
    <3>1. j \in 1..n
      OBVIOUS
    <3> QED BY <1>2, <2>1, <3>1
  <2>3. smoothed_peak \in Int
    BY DEF TypeOK
  <2>4. /\ \E j \in k..n : smoothed_peak = smoothed[j]
        /\ \A j \in k..n : smoothed[j] <= smoothed_peak
    BY <1>2, <1>4 DEF ArmedSince
  <2> QED BY <2>2, <2>3, <2>4
<1>8. /\ \E j \in k..n+1 : smoothed_peak' = smoothed'[j]
      /\ \A j \in k..n+1 : smoothed'[j] <= smoothed_peak'
  <2>1. CASE smoothed_peak >= averager'.current_sum
    <3>1. smoothed_peak' = smoothed_peak
      BY <1>1, <2>1 DEF Greater
    <3>2. \E j \in k..n+1 : smoothed_peak' = smoothed'[j]
      BY <1>7, <3>1
    <3>3. \A j \in k..n : smoothed'[j] <= smoothed_peak'
      BY <1>7, <3>1
    <3>4. smoothed'[n+1] <= smoothed_peak'
      BY <1>2, <1>7, <2>1, <3>1
    <3>5. \A j \in k..n+1 : j \in k..n \/ j = n + 1
      OBVIOUS
    <3> QED BY <3>2, <3>3, <3>4, <3>5
  <2>2. CASE ~(smoothed_peak >= averager'.current_sum)
    <3>1. smoothed_peak' = averager'.current_sum
      BY <1>1, <2>2 DEF Greater
    <3>2. \A j \in k..n : smoothed'[j] <= averager'.current_sum
      BY <1>2, <1>7, <2>2
    <3>3. \A j \in k..n+1 : j \in k..n \/ j = n + 1
      OBVIOUS
    <3>4. n + 1 \in k..n+1 /\ averager'.current_sum <= averager'.current_sum
      BY <1>2
    <3> QED BY <1>2, <3>1, <3>2, <3>3, <3>4
  <2> QED BY <2>1, <2>2
<1>9. /\ PeakReached <=> RoseBetween(k, n+1)'
      /\ ShouldRelease <=> ReleasedAt(k, n+1)'
  <2>1. k \in Nat /\ k <= n /\ \A j \in k..n : smoothed'[j] \in Int
    BY <1>7
  <2> QED BY <1>1, <1>2, <1>6, <1>8, <2>1, ReleaseDecided
<1>10. \A i \in k+1..n : ~ReleasedAt(k, i)'
  <2>1. \A i \in k+1..n : ~ReleasedAt(k, i) /\ i \in k..Len(smoothed)
    BY <1>2, <1>4 DEF ArmedSince
  <2> QED BY <1>1, <1>2, <2>1, ReleasedKept
<1>11. SmoothedEach' /\ Unarmed' /\ ~IsRatio'
  BY <1>1, <1>2, <1>3 DEF SmoothedEach, Unarmed, IsRatio
<1>12. Armed'
  <2>1. ASSUME verdict' = "open", NEW i \in k+1..n+1 PROVE ~ReleasedAt(k, i)'
    <3>1. ~ShouldRelease
      BY <1>1, <2>1
    <3> QED BY <1>9, <1>10, <2>1, <3>1
  <2>2. ArmedSince(k)'
    BY <1>2, <1>3, <1>5, <1>6, <1>8, <2>1 DEF ArmedSince
  <2> QED BY <1>2, <2>2 DEF Armed
<1>13. VerdictCorrect'
  <2>1. CASE verdict' = "open"
    BY <2>1 DEF VerdictCorrect
  <2>2. CASE verdict' = "passed"
    <3>1. ReleasedAt(k, n+1)' /\ (auth_ww.type = "leading" \/ RoseBetween(k, n+1)')
      BY <1>1, <1>9, <2>2
    <3>2. ClosedAt(k, n+1)'
      BY <1>10, <3>1 DEF ClosedAt
    <3>3. EnvelopeAccepts'
      BY <1>2, <1>3, <1>5, <3>1, <3>2 DEF EnvelopeAccepts
    <3> QED BY <1>11, <2>2, <3>3 DEF VerdictCorrect
  <2>3. CASE verdict' = "failed"
    <3>1. ReleasedAt(k, n+1)' /\ ~(auth_ww.type = "leading") /\ ~RoseBetween(k, n+1)'
      BY <1>1, <1>9, <2>3
    <3>2. ASSUME NEW l \in 1..n+1, NEW i \in 1..n+1, l < i, ArmedAt(l)', ClosedAt(l, i)',
                 (auth_ww.type = "leading" \/ RoseBetween(l, i))'
          PROVE  FALSE
      <4>1. l = k
        BY <1>2, <1>5, <3>2 DEF ArmedAt
      <4>2. i = n + 1
        BY <1>10, <3>2, <4>1 DEF ClosedAt
      <4> QED BY <1>3, <3>1, <3>2, <4>1, <4>2
    <3>3. ~EnvelopeAccepts'
      BY <1>2, <3>2 DEF EnvelopeAccepts
    <3> QED BY <1>11, <2>3, <3>3 DEF VerdictCorrect
  <2> QED BY <2>1, <2>2, <2>3 DEF TypeOK
<1> QED BY <1>11, <1>12, <1>13

-----------------------------------------------------------------------------
\* A frame in the ratio mode.
LEMMA CountStep ==
  ASSUME TypeOK, Counted, NEW p \in Levels, CountFrame(p)
  PROVE  SmoothedEach' /\ Unarmed' /\ Armed' /\ Counted' /\ VerdictCorrect'
<1>0. PICK n \in Nat : n = Len(frames)
  BY Appended DEF TypeOK
<1>1. /\ IsRatio /\ IsRatio' /\ auth_ww' = auth_ww /\ verdict' = "open"
      /\ frames' = Append(frames, p)
      /\ above_threshold_count' =
           IF Hit(p) THEN above_threshold_count + 1 ELSE above_threshold_count
  BY DEF CountFrame, MoreFrames, callVars, IsRatio
<1>2. /\ Len(frames') = n + 1 /\ \A i \in 1..n : frames'[i] = frames[i]
      /\ frames'[n+1] = p
  BY <1>0, <1>1, Appended DEF TypeOK
<1>3. Hits' = IF Hit(p) THEN Hits \cup {n+1} ELSE Hits
  <2>1. Hits' = {j \in 1..n+1 : frames'[j] >= auth_ww.threshold}
    BY <1>1, <1>2 DEF Hits, Hit
  <2>2. Hits = {j \in 1..n : frames[j] >= auth_ww.threshold}
    BY <1>0 DEF Hits, Hit
  <2>3. \A j : j \in 1..n+1 <=> j \in 1..n \/ j = n + 1
    OBVIOUS
  <2> QED BY <1>2, <2>1, <2>2, <2>3 DEF Hit
<1>4. IsFiniteSet(Hits) /\ n + 1 \notin Hits
  <2>1. IsFiniteSet(1..n)
    BY FS_Interval
  <2>2. Hits \in SUBSET (1..n) /\ n + 1 \notin 1..n
    BY <1>0 DEF Hits
  <2> QED BY <2>1, <2>2, FS_Subset
<1>5. Cardinality(Hits \cup {n+1}) = Cardinality(Hits) + 1
  BY <1>4, FS_AddElement
<1>6. Counted'
  <2>1. above_threshold_count = Cardinality(Hits)
    BY <1>1 DEF Counted
  <2>2. CASE Hit(p)
    BY <1>1, <1>3, <1>5, <2>1, <2>2 DEF Counted
  <2>3. CASE ~Hit(p)
    BY <1>1, <1>3, <2>1, <2>3 DEF Counted
  <2> QED BY <2>2, <2>3
<1> QED BY <1>1, <1>6 DEF SmoothedEach, Unarmed, Armed, VerdictCorrect

\* The end of the buffer.
LEMMA EndStep ==
  ASSUME TypeOK, Unarmed, Armed, Counted, EndOfBuffer
  PROVE  VerdictCorrect'
<1>0. PICK n \in Nat : n = Len(frames)
  BY Appended DEF TypeOK
<1>1. /\ auth_ww' = auth_ww /\ client_frame_count' = client_frame_count
      /\ frames' = frames /\ smoothed' = smoothed /\ verdict = "open"
      /\ verdict' = IF IsRatio /\ RatioMet THEN "passed" ELSE "failed"
  BY DEF EndOfBuffer, callVars
<1>2. /\ IsRatio' <=> IsRatio
      /\ RatioAccepts' <=> RatioAccepts
      /\ EnvelopeAccepts' <=> EnvelopeAccepts
  BY <1>1 DEF IsRatio, RatioAccepts, Hits, Hit, EnvelopeAccepts, ArmedAt, AttackAt, Attack,
              ClosedAt, ReleasedAt, RoseBetween, Sum
<1>3. CASE IsRatio
  <2>1. RatioMet <=> RatioAccepts
    BY <1>3 DEF Counted, RatioMet, RatioAccepts
  <2> QED BY <1>1, <1>2, <1>3, <2>1 DEF VerdictCorrect
<1>4. CASE ~IsRatio
  <2>1. ~EnvelopeAccepts
    <3>1. CASE ~was_armed
      <4>1. \A k \in 1..n : ~AttackAt(k)
        BY <1>0, <1>4, <3>1 DEF Unarmed
      <4> QED BY <1>0, <4>1 DEF EnvelopeAccepts, ArmedAt
    <3>2. CASE was_armed
      <4>1. PICK k \in 1..n : ArmedSince(k)
        BY <1>0, <1>4, <3>2 DEF Armed
      <4>2. \A i \in k+1..n : ~ReleasedAt(k, i)
        BY <1>0, <1>1, <4>1 DEF ArmedSince
      <4>3. ASSUME NEW l \in 1..n, NEW i \in 1..n, l < i, ArmedAt(l), ClosedAt(l, i)
            PROVE  FALSE
        <5>1. l = k
          BY <1>0, <4>1, <4>3, ArmedOnce DEF ArmedSince
        <5> QED BY <4>2, <4>3, <5>1 DEF ClosedAt
      <4> QED BY <1>0, <4>3 DEF EnvelopeAccepts
    <3> QED BY <3>1, <3>2
  <2> QED BY <1>1, <1>2, <1>4, <2>1 DEF VerdictCorrect
<1> QED BY <1>3, <1>4

\* What the counters stand for holds after every step, and so does VerdictCorrect.
THEOREM Invariance == Spec => []IInv
<1>1. Init => IInv
  <2> SUFFICES ASSUME Init PROVE IInv
    OBVIOUS
  <2>1. /\ frames = <<>> /\ smoothed = <<>> /\ attack_counter = 0 /\ ~was_armed
        /\ above_threshold_count = 0 /\ Len(frames) = 0
    BY DEF Init
  <2>2. TypeOK
    BY TypeInit
  <2>3. Attack \in Nat \ {0}
    BY <2>2, SettingTypes
  <2>4. SmoothedEach /\ Unarmed /\ Armed
    BY <2>1, <2>3 DEF SmoothedEach, Unarmed, Armed, RunOfHits
  <2>5. Counted
    <3>1. Hits = {}
      BY <2>1 DEF Hits
    <3> QED BY <2>1, <3>1, FS_EmptySet DEF Counted
  <2>6. VerdictCorrect
    BY DEF Init, VerdictCorrect
  <2> QED BY <2>2, <2>4, <2>5, <2>6 DEF IInv
<1>2. IInv /\ [Next]_vars => IInv'
  <2> SUFFICES ASSUME IInv, [Next]_vars PROVE IInv'
    OBVIOUS
  <2>1. TypeOK /\ TypeOK' /\ SmoothedEach /\ Unarmed /\ Armed /\ Counted /\ VerdictCorrect
    BY TypeStep DEF IInv
  <2>2. ASSUME NEW p \in Levels, CountFrame(p) PROVE IInv'
    BY <2>1, <2>2, CountStep DEF IInv
  <2>3. ASSUME NEW p \in Levels, UnarmedFrame(p) PROVE IInv'
    <3>1. SmoothedEach' /\ Unarmed' /\ Armed'
      BY <2>1, <2>3, UnarmedStep
    <3>2. Counted' /\ VerdictCorrect'
      BY <2>3 DEF UnarmedFrame, Smooth, MoreFrames, callVars, IsRatio, Counted, VerdictCorrect
    <3> QED BY <2>1, <3>1, <3>2 DEF IInv
  <2>4. ASSUME NEW p \in Levels, ArmedFrame(p) PROVE IInv'
    <3>1. SmoothedEach' /\ Unarmed' /\ Armed' /\ VerdictCorrect'
      BY <2>1, <2>4, ArmedStep
    <3>2. Counted'
      BY <2>4 DEF ArmedFrame, Smooth, callVars, IsRatio, Counted
    <3> QED BY <2>1, <3>1, <3>2 DEF IInv
  <2>5. CASE EndOfBuffer
    <3>1. VerdictCorrect'
      BY <2>1, <2>5, EndStep
    <3>2. /\ UNCHANGED <<auth_ww, client_frame_count, averager, attack_counter, was_armed,
                         smoothed_peak, current_frame_count, above_threshold_count,
                         frames, smoothed>>
          /\ verdict' # "open"
      BY <2>5 DEF EndOfBuffer, callVars, gateVars
    <3>3. SmoothedEach' /\ Unarmed' /\ Counted'
      BY <2>1, <3>2 DEF SmoothedEach, Unarmed, RunOfHits, Counted, Hits, Hit, IsRatio,
                        AttackAt, Attack
    <3>4. Armed'
      BY <2>1, <3>2 DEF Armed, ArmedSince, ArmedAt, AttackAt, Attack, IsRatio, Hit
    <3> QED BY <2>1, <3>1, <3>3, <3>4 DEF IInv
  <2>6. CASE UNCHANGED vars
    <3>1. /\ UNCHANGED <<auth_ww, client_frame_count, averager, attack_counter, was_armed,
                         smoothed_peak, current_frame_count, above_threshold_count,
                         frames, smoothed, verdict>>
      BY <2>6 DEF vars, callVars, gateVars
    <3>2. SmoothedEach' /\ Unarmed' /\ Counted'
      BY <2>1, <3>1 DEF SmoothedEach, Unarmed, RunOfHits, Counted, Hits, Hit, IsRatio,
                        AttackAt, Attack
    <3>3. Armed'
      BY <2>1, <3>1 DEF Armed, ArmedSince, ArmedAt, AttackAt, Attack, IsRatio, Hit,
                        ReleasedAt, RoseBetween, Sum
    <3>4. VerdictCorrect'
      BY <2>1, <3>1 DEF VerdictCorrect, IsRatio, RatioAccepts, Hits, Hit, EnvelopeAccepts,
                        ArmedAt, AttackAt, Attack, ClosedAt, ReleasedAt, RoseBetween, Sum
    <3> QED BY <2>1, <3>2, <3>3, <3>4 DEF IInv
  <2> QED BY <2>2, <2>3, <2>4, <2>5, <2>6 DEF Next
<1> QED BY <1>1, <1>2, PTL DEF Spec

\* The types are kept; in particular the averager's head stays inside its window.
THEOREM TypeCorrect == Spec => []TypeOK
<1>1. IInv => TypeOK
  BY DEF IInv
<1> QED BY <1>1, Invariance, PTL

\* In each mode the verdict is that of the definition on the whole sequence of
\* frames and averages, for every configuration and every length of the buffer.
THEOREM VerdictsCorrect == Spec => []VerdictCorrect
<1>1. IInv => VerdictCorrect
  BY DEF IInv
<1> QED BY <1>1, Invariance, PTL

-----------------------------------------------------------------------------
(***************************************************************************)
(* The averages.                                                           *)
(***************************************************************************)
\* The window holds the last frames, and in ratio mode nobody looks at it.
WindowKept ==
  /\ IsRatio => smoothed = <<>>
  /\ ~IsRatio => Holds(averager, auth_ww.hold, frames, 0)

AverageInv == TypeOK /\ SmoothedEach /\ WindowKept /\ SmoothedIsMovingAverage

LEMMA AverageInit == Init => AverageInv
<1> SUFFICES ASSUME Init PROVE AverageInv
  OBVIOUS
<1>1. TypeOK
  BY TypeInit
<1>2. PICK n \in Nat \ {0} : n = auth_ww.hold
  BY <1>1, SettingTypes
<1>3. PICK a : a = NewAverager(n)
  OBVIOUS
<1>4. a \in IntAveragers(n)
  BY <1>3 DEF NewAverager, IntAveragers
<1>5. Reset(a, 0) = a
  BY <1>3 DEF Reset, NewAverager
<1>6. Holds(a, n, <<>>, 0)
  BY <1>4, <1>5, ResetHolds
<1>7. averager = a /\ frames = <<>> /\ smoothed = <<>>
  BY <1>2, <1>3 DEF Init
<1>8. SmoothedEach
  BY <1>7 DEF SmoothedEach
<1>9. SmoothedIsMovingAverage
  BY <1>7 DEF SmoothedIsMovingAverage
<1> QED BY <1>1, <1>2, <1>6, <1>7, <1>8, <1>9 DEF AverageInv, WindowKept

\* A frame that is smoothed adds its average.
LEMMA AverageAdds ==
  ASSUME AverageInv, NEW p \in Levels, Smooth(p), UNCHANGED callVars
  PROVE  SmoothedEach' /\ WindowKept' /\ SmoothedIsMovingAverage'
<1>1. PICK n \in Nat \ {0} : n = auth_ww.hold
  BY SettingTypes DEF AverageInv
<1>2. p \in Int /\ frames \in Seq(Int) /\ smoothed \in Seq(Int)
  <2>1. Levels \subseteq Int
    BY GateAssumption DEF GateAssumption
  <2>2. frames \in Seq(Levels) /\ smoothed \in Seq(Int)
    BY DEF AverageInv, TypeOK
  <2>3. Seq(Levels) \subseteq Seq(Int)
    BY <2>1, SeqMonotonic
  <2> QED BY <2>1, <2>2, <2>3
<1>3. /\ auth_ww' = auth_ww /\ ~IsRatio /\ ~IsRatio'
      /\ frames' = Append(frames, p)
      /\ averager' = Process(averager, p)
      /\ smoothed' = Append(smoothed, averager'.current_sum)
  BY DEF Smooth, callVars, IsRatio
<1>4. Holds(averager, n, frames, 0)
  BY <1>1, <1>3 DEF AverageInv, WindowKept
<1>5. Holds(averager', n, Append(frames, p), 0)
  <2>1. 0 \in Int
    OBVIOUS
  <2>2. Holds(Process(averager, p), n, Append(frames, p), 0)
    BY <1>1, <1>2, <1>4, <2>1, ProcessHolds, Zenon
  <2> QED BY <1>3, <2>2
<1>6. WindowKept'
  BY <1>1, <1>3, <1>5 DEF WindowKept
<1>7. PICK L \in Nat : L = Len(frames) /\ L = Len(smoothed)
  BY <1>2, <1>3 DEF AverageInv, SmoothedEach
<1>8. PICK c \in Int : c = averager'.current_sum
  <2>1. averager'.current_sum \in Int
    BY <1>5 DEF Holds, IntAveragers
  <2> QED BY <2>1, Zenon
<1>9. /\ Len(smoothed') = L + 1 /\ smoothed' \in Seq(Int)
      /\ \A i \in 1..L : smoothed'[i] = smoothed[i]
      /\ smoothed'[L + 1] = averager'.current_sum
  BY <1>2, <1>3, <1>7, <1>8, Appended
<1>10. Len(frames') = L + 1
  <2>1. p \in Int /\ frames \in Seq(Int)
    BY <1>2
  <2>2. Len(Append(frames, p)) = Len(frames) + 1
    BY <2>1, Appended
  <2> QED BY <1>3, <1>7, <2>2
<1>11. SmoothedEach'
  BY <1>9, <1>10 DEF SmoothedEach
<1>12. ASSUME NEW i \in 1..L+1 PROVE smoothed'[i] = MovingSum(frames', i, n, 0)
  <2>1. CASE i = L + 1
    BY <1>3, <1>5, <1>9, <1>10, <2>1 DEF Holds
  <2>2. CASE i \in 1..L
    <3>1. smoothed[i] = MovingSum(frames, i, n, 0)
      BY <1>1, <1>2, <1>7, <2>2 DEF AverageInv, SmoothedIsMovingAverage
    <3>2. i \in 0..Len(frames)
      BY <1>7, <2>2
    <3>3. MovingSum(Append(frames, p), i, n, 0) = MovingSum(frames, i, n, 0)
      BY <1>2, <3>2, MovingSumAppend
    <3> QED BY <1>3, <1>9, <2>2, <3>1, <3>3
  <2> QED BY <2>1, <2>2
<1>13. DOMAIN smoothed' = 1..L+1
  BY <1>9
<1>14. SmoothedIsMovingAverage'
  BY <1>1, <1>3, <1>12, <1>13 DEF SmoothedIsMovingAverage
<1> QED BY <1>6, <1>11, <1>14

LEMMA AverageStep == ASSUME AverageInv, [Next]_vars PROVE AverageInv'
<1>1. TypeOK'
  BY TypeStep DEF AverageInv
<1>2. ASSUME NEW p \in Levels, UnarmedFrame(p) \/ ArmedFrame(p) PROVE AverageInv'
  <2>1. Smooth(p) /\ UNCHANGED callVars
    BY <1>2 DEF UnarmedFrame, ArmedFrame
  <2> QED BY <1>1, <2>1, AverageAdds DEF AverageInv
<1>3. ASSUME NEW p \in Levels, CountFrame(p) PROVE AverageInv'
  <2>1. IsRatio /\ auth_ww' = auth_ww /\ smoothed' = smoothed
    BY <1>3 DEF CountFrame, callVars
  <2>2. IsRatio' /\ smoothed' = <<>>
    BY <2>1 DEF AverageInv, WindowKept, IsRatio
  <2> QED BY <1>1, <2>2 DEF AverageInv, WindowKept, SmoothedEach, SmoothedIsMovingAverage
<1>4. ASSUME UNCHANGED <<auth_ww, averager, frames, smoothed>> PROVE AverageInv'
  BY <1>1, <1>4 DEF AverageInv, WindowKept, SmoothedEach, SmoothedIsMovingAverage, IsRatio
<1>5. CASE EndOfBuffer \/ UNCHANGED vars
  BY <1>4, <1>5 DEF EndOfBuffer, vars, callVars
<1> QED BY <1>2, <1>3, <1>5 DEF Next

\* The sums that are kept step by step in a circular window are those of the last hold
\* frames, for a window of any size and a buffer of any length.
THEOREM AveragesMove == Spec => []SmoothedIsMovingAverage
<1>1. AverageInv => SmoothedIsMovingAverage
  BY DEF AverageInv
<1> QED BY <1>1, AverageInit, AverageStep, PTL DEF Spec
============================================================================
