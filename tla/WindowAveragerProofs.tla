------------------------ MODULE WindowAveragerProofs ------------------------
(***************************************************************************)
(* Lemmas about WindowAverager, for windows of any size and sequences of   *)
(* any length: the sum that is kept step by step is the moving sum.        *)
(***************************************************************************)
EXTENDS WindowAverager, WellFoundedInduction, SequenceTheorems, TLAPS

\* Induction, for the members of a set: the smallest number left out would have a
\* predecessor that is not.
LEMMA NatSetInduction ==
  ASSUME NEW S, 0 \in S, \A n \in Nat : n \in S => n + 1 \in S
  PROVE  \A n \in Nat : n \in S
<1> DEFINE T == Nat \ S
<1>1. SUFFICES ASSUME T # {} PROVE FALSE
  OBVIOUS
<1>2. PICK x \in T : \A y \in T : ~(<<y, x>> \in OpToRel(<, Nat))
  BY <1>1, NatLessThanWellFounded, WFMin
<1>3. \A y \in T : ~(y < x)
  BY <1>2 DEF OpToRel
<1>4. x # 0 /\ x \in Nat
  OBVIOUS
<1>5. x - 1 \in Nat /\ x - 1 \in S
  BY <1>3, <1>4
<1> QED BY <1>4, <1>5

\* g holds the sums of up to m numbers.
SumsUpTo(g, s, m) ==
  /\ g \in [0..m -> Int]
  /\ g[0] = 0
  /\ \A k \in 1..m : g[k] = g[k-1] + s[k]

\* There are such sums for every sequence.
LEMMA TotalsExist ==
  ASSUME NEW s \in Seq(Int)
  PROVE  /\ Totals(s) = [k \in 0..Len(s) |-> IF k = 0 THEN 0 ELSE Totals(s)[k-1] + s[k]]
         /\ Totals(s) \in [0..Len(s) -> Int]
<1> DEFINE S == {m \in Nat : m <= Len(s) => \E g : SumsUpTo(g, s, m)}
<1>1. Len(s) \in Nat /\ \A k \in 1..Len(s) : s[k] \in Int
  OBVIOUS
<1>2. 0 \in S
  <2>1. SumsUpTo([k \in 0..0 |-> 0], s, 0)
    BY DEF SumsUpTo
  <2> QED BY <2>1
<1>3. ASSUME NEW m \in Nat, m \in S PROVE m + 1 \in S
  <2>1. SUFFICES ASSUME m + 1 <= Len(s) PROVE \E g : SumsUpTo(g, s, m + 1)
    OBVIOUS
  <2>2. PICK g : SumsUpTo(g, s, m)
    BY <1>1, <1>3, <2>1
  <2> DEFINE h == [k \in 0..m+1 |-> IF k = m + 1 THEN g[m] + s[m+1] ELSE g[k]]
  <2>3. g[m] \in Int /\ s[m+1] \in Int
    BY <1>1, <2>1, <2>2 DEF SumsUpTo
  <2>4. h \in [0..m+1 -> Int]
    BY <2>2, <2>3 DEF SumsUpTo
  <2>5. \A k \in 1..m+1 : h[k] = h[k-1] + s[k]
    BY <2>2 DEF SumsUpTo
  <2>6. h[0] = 0
    BY <2>2 DEF SumsUpTo
  <2> HIDE DEF h
  <2>7. SumsUpTo(h, s, m + 1)
    BY <2>4, <2>5, <2>6 DEF SumsUpTo
  <2> QED BY <2>7
<1>4. \A m \in Nat : m \in S
  <2> HIDE DEF S
  <2> QED BY <1>2, <1>3, NatSetInduction
<1>5. PICK g : SumsUpTo(g, s, Len(s))
  BY <1>1, <1>4
<1>6. g = [k \in 0..Len(s) |-> IF k = 0 THEN 0 ELSE g[k-1] + s[k]]
  BY <1>1, <1>5 DEF SumsUpTo
<1>7. Totals(s) = [k \in 0..Len(s) |-> IF k = 0 THEN 0 ELSE Totals(s)[k-1] + s[k]]
  BY <1>6, Zenon DEF Totals
<1> DEFINE t == Totals(s)
<1>8. t = [k \in 0..Len(s) |-> IF k = 0 THEN 0 ELSE t[k-1] + s[k]]
  BY <1>7
<1> HIDE DEF t
<1> DEFINE U == {m \in Nat : m <= Len(s) => t[m] \in Int}
<1>9. 0 \in U /\ \A m \in Nat : m \in U => m + 1 \in U
  BY <1>1, <1>8
<1>10. \A m \in Nat : m \in U
  <2> HIDE DEF U
  <2> QED BY <1>9, NatSetInduction
<1>11. t \in [0..Len(s) -> Int]
  BY <1>1, <1>8, <1>10
<1> QED BY <1>7, <1>11 DEF t

\* They start with that of no numbers.
LEMMA TotalsStart ==
  ASSUME NEW s \in Seq(Int)
  PROVE  Totals(s)[0] = 0
<1>1. PICK t : t = Totals(s)
  OBVIOUS
<1>2. t = [k \in 0..Len(s) |-> IF k = 0 THEN 0 ELSE t[k-1] + s[k]]
  BY <1>1, TotalsExist
<1>3. 0 \in 0..Len(s)
  OBVIOUS
<1> QED BY <1>1, <1>2, <1>3

\* An append adds a total and leaves the others.
LEMMA TotalsAppend ==
  ASSUME NEW s \in Seq(Int), NEW x \in Int
  PROVE  /\ \A k \in 0..Len(s) : Totals(Append(s, x))[k] = Totals(s)[k]
         /\ Totals(Append(s, x))[Len(s) + 1] = Totals(s)[Len(s)] + x
<1> DEFINE r == Append(s, x)
<1> DEFINE t == Totals(s)
<1> DEFINE u == Totals(r)
<1>1. /\ r \in Seq(Int) /\ Len(s) \in Nat /\ Len(r) = Len(s) + 1
      /\ \A k \in 1..Len(s) : r[k] = s[k]
      /\ r[Len(s) + 1] = x
  OBVIOUS
<1> HIDE DEF r
<1>2. /\ t = [k \in 0..Len(s) |-> IF k = 0 THEN 0 ELSE t[k-1] + s[k]]
      /\ u = [k \in 0..Len(r) |-> IF k = 0 THEN 0 ELSE u[k-1] + r[k]]
  BY <1>1, TotalsExist
<1> HIDE DEF t, u
<1> DEFINE S == {k \in Nat : k <= Len(s) => u[k] = t[k]}
<1>3. 0 \in S /\ \A k \in Nat : k \in S => k + 1 \in S
  BY <1>1, <1>2
<1>4. \A k \in Nat : k \in S
  <2> HIDE DEF S
  <2> QED BY <1>3, NatSetInduction
<1>5. u[Len(s) + 1] = t[Len(s)] + x
  <2>1. u[Len(s)] = t[Len(s)]
    BY <1>1, <1>4
  <2> QED BY <1>1, <1>2, <2>1
<1> QED BY <1>1, <1>4, <1>5 DEF r, t, u

\* Moving sums of what was there stay as they were.
LEMMA MovingSumAppend ==
  ASSUME NEW s \in Seq(Int), NEW x \in Int, NEW n \in Nat \ {0}, NEW fill \in Int,
         NEW k \in 0..Len(s)
  PROVE  /\ MovingSum(Append(s, x), k, n, fill) = MovingSum(s, k, n, fill)
         /\ MovingSum(s, k, n, fill) \in Int
<1>1. Len(s) \in Nat
  OBVIOUS
<1>2. \A m \in 0..Len(s) : Totals(Append(s, x))[m] = Totals(s)[m] /\ Totals(s)[m] \in Int
  BY TotalsAppend, TotalsExist
<1>3. fill * (n - k) \in Int
  BY <1>1
<1> QED BY <1>1, <1>2, <1>3 DEF MovingSum

-----------------------------------------------------------------------------
(***************************************************************************)
(* The circular window.                                                    *)
(***************************************************************************)
IntAveragers(n) ==
  [window : [0..n-1 -> Int], head : 0..n-1, current_sum : Int, size : {n}]

\* The number m places before the one that comes next in s.
Recent(s, m, fill) == IF m <= Len(s) THEN s[Len(s) + 1 - m] ELSE fill

\* From its head on the window holds the last n numbers of s, with fill before the
\* first, and the sum is theirs.
Holds(a, n, s, fill) ==
  /\ a \in IntAveragers(n)
  /\ a.current_sum = MovingSum(s, Len(s), n, fill)
  /\ \A j \in 0..n-1 : a.window[(a.head + j) % n] = Recent(s, n - j, fill)

\* Once around the window.
LEMMA Around ==
  ASSUME NEW n \in Nat \ {0}, NEW x \in 0..2*n-1
  PROVE  x % n = IF x < n THEN x ELSE x - n
OBVIOUS

\* A fill starts anew.
LEMMA ResetHolds ==
  ASSUME NEW n \in Nat \ {0}, NEW a \in IntAveragers(n), NEW fill \in Int
  PROVE  Holds(Reset(a, fill), n, <<>>, fill)
<1> DEFINE b == Reset(a, fill)
<1>1. /\ b = [window |-> [i \in 0..n-1 |-> fill], head |-> a.head,
               current_sum |-> fill * n, size |-> n]
      /\ fill * n \in Int
  BY DEF Reset, IntAveragers
<1>2. b \in IntAveragers(n) /\ a.head \in 0..n-1
  BY <1>1 DEF IntAveragers
<1>3. MovingSum(<<>>, 0, n, fill) = fill * n
  <2>1. <<>> \in Seq(Int) /\ Len(<<>>) = 0
    OBVIOUS
  <2>2. Totals(<<>>)[0] = 0
    BY <2>1, TotalsStart, Zenon
  <2> QED BY <2>2 DEF MovingSum
<1>4. ASSUME NEW j \in 0..n-1 PROVE b.window[(b.head + j) % n] = fill
  <2>1. (a.head + j) % n \in 0..n-1
    BY <1>2
  <2> QED BY <1>1, <2>1
<1>5. \A j \in 0..n-1 : Recent(<<>>, n - j, fill) = fill
  BY DEF Recent
<1>6. b.current_sum = fill * n
  BY <1>1
<1> HIDE DEF b
<1> QED BY <1>2, <1>3, <1>4, <1>5, <1>6 DEF Holds, b

\* The oldest number leaves the sum, the new one comes in.
LEMMA SumSlides ==
  ASSUME NEW n \in Nat \ {0}, NEW s \in Seq(Int), NEW fill \in Int, NEW p \in Int
  PROVE  MovingSum(Append(s, p), Len(s) + 1, n, fill)
           = MovingSum(s, Len(s), n, fill) - Recent(s, n, fill) + p
<1>1. PICK L \in Nat : L = Len(s)
  OBVIOUS
<1>2. PICK t : t = Totals(s)
  OBVIOUS
<1>3. PICK u : u = Totals(Append(s, p))
  OBVIOUS
<1>4. /\ \A k \in 0..L : u[k] = t[k] /\ t[k] \in Int
      /\ u[L + 1] = t[L] + p
  BY <1>1, <1>2, <1>3, TotalsAppend, TotalsExist
<1>5. t = [k \in 0..L |-> IF k = 0 THEN 0 ELSE t[k-1] + s[k]]
  BY <1>1, <1>2, TotalsExist
<1>6. \A k \in 1..L : s[k] \in Int
  BY <1>1
<1>7. MovingSum(s, Len(s), n, fill) = IF L < n THEN t[L] + fill * (n - L) ELSE t[L] - t[L - n]
  BY <1>1, <1>2 DEF MovingSum
<1>8. MovingSum(Append(s, p), Len(s) + 1, n, fill)
        = IF L + 1 < n THEN u[L + 1] + fill * (n - (L + 1)) ELSE u[L + 1] - u[L + 1 - n]
  BY <1>1, <1>3 DEF MovingSum
<1>9. CASE L < n
  <2>1. Recent(s, n, fill) = fill
    BY <1>1, <1>9 DEF Recent
  <2>2. n - L - 1 \in Nat
    BY <1>1, <1>9
  <2>3. PICK m \in Nat : m = n - L - 1
    BY <2>2, Zenon
  <2>4. fill * m \in Int
    BY <2>3
  <2>5. PICK z \in Int : z = fill * m
    BY <2>4, Zenon
  <2>6. fill * (n - L) = z + fill
    BY <1>1, <2>3, <2>5
  <2>7. fill * (n - (L + 1)) = z
    BY <1>1, <2>3, <2>5
  <2>8. L + 1 = n => z = 0
    BY <2>3, <2>5
  <2>9. t[0] = 0
    BY <1>5
  <2>10. t[L] \in Int /\ u[0] = 0
    BY <1>1, <1>4, <2>9
  <2>11. MovingSum(s, Len(s), n, fill) = t[L] + (z + fill)
    BY <1>7, <1>9, <2>6
  <2>12. MovingSum(Append(s, p), Len(s) + 1, n, fill) = t[L] + p + z
    <3>1. CASE L + 1 < n
      BY <1>4, <1>8, <2>7, <3>1
    <3>2. CASE L + 1 = n
      <4>1. L + 1 - n = 0
        BY <1>1, <3>2
      <4> QED BY <1>1, <1>4, <1>8, <2>8, <2>10, <3>2, <4>1, SMTT(30)
    <3> QED BY <1>1, <1>9, <3>1, <3>2
  <2> QED BY <2>1, <2>5, <2>10, <2>11, <2>12
<1>10. CASE L >= n
  <2>1. Recent(s, n, fill) = s[L + 1 - n]
    BY <1>1, <1>10 DEF Recent
  <2>2. L + 1 - n \in 1..L
    BY <1>1, <1>10
  <2>3. PICK k \in 1..L : k = L + 1 - n
    BY <2>2, Zenon
  <2>4. t[k] = t[k - 1] + s[k]
    BY <1>5, <2>3
  <2>5. k - 1 = L - n /\ k - 1 \in 0..L
    BY <1>1, <2>3
  <2>6. s[k] \in Int /\ t[k - 1] \in Int /\ u[k] = t[k]
    BY <1>1, <1>4, <1>6, <2>3, <2>5
  <2>7. t[L] \in Int
    BY <1>1, <1>4
  <2>8. MovingSum(s, Len(s), n, fill) = t[L] - t[k - 1]
    BY <1>1, <1>7, <1>10, <2>5, SMTT(30)
  <2>9. MovingSum(Append(s, p), Len(s) + 1, n, fill) = (t[L] + p) - t[k]
    <3>1. ~(L + 1 < n) /\ L + 1 - n = k
      BY <1>1, <1>10, <2>3
    <3>2. MovingSum(Append(s, p), Len(s) + 1, n, fill) = u[L + 1] - u[k]
      BY <1>8, <3>1
    <3>3. u[L + 1] = t[L] + p /\ u[k] = t[k]
      BY <1>4, <2>6
    <3> QED BY <3>2, <3>3
  <2>10. Recent(s, n, fill) = s[k]
    BY <2>1, <2>3
  <2>11. (t[L] + p) - t[k] = ((t[L] - t[k - 1]) - s[k]) + p
    BY <2>4, <2>6, <2>7
  <2> QED BY <1>1, <2>8, <2>9, <2>10, <2>11, Zenon
<1> QED BY <1>1, <1>9, <1>10

\* Every number gets one place older.
LEMMA RecentAppend ==
  ASSUME NEW s \in Seq(Int), NEW fill \in Int, NEW p \in Int
  PROVE  /\ Recent(Append(s, p), 1, fill) = p
         /\ \A m \in Nat \ {0} : Recent(Append(s, p), m + 1, fill) = Recent(s, m, fill)
<1>1. PICK L \in Nat : L = Len(s)
  OBVIOUS
<1>2. PICK r : r = Append(s, p)
  OBVIOUS
<1>3. Len(r) = L + 1 /\ r[L + 1] = p /\ \A k \in 1..L : r[k] = s[k]
  BY <1>1, <1>2
<1>4. ASSUME NEW m \in Nat \ {0} PROVE Recent(r, m + 1, fill) = Recent(s, m, fill)
  BY <1>1, <1>3 DEF Recent
<1>5. Recent(r, 1, fill) = p
  BY <1>1, <1>3 DEF Recent
<1> QED BY <1>2, <1>4, <1>5

\* Where the j-th number after the head is, when the head has moved on.
LEMMA HeadMoves ==
  ASSUME NEW n \in Nat \ {0}, NEW h \in 0..n-1, NEW j \in 0..n-1
  PROVE  /\ (h + 1) % n \in 0..n-1
         /\ j = n - 1 => (((h + 1) % n) + j) % n = h
         /\ j < n - 1 => (((h + 1) % n) + j) % n = (h + (j + 1)) % n
         /\ j < n - 1 => (h + (j + 1)) % n \in (0..n-1) \ {h}
<1>1. (h + 1) % n \in 0..n-1
  OBVIOUS
<1>2. PICK g \in 0..n-1 : g = (h + 1) % n
  BY <1>1, Zenon
<1>3. g = IF h + 1 < n THEN h + 1 ELSE 0
  BY <1>2
<1>4. (g + j) % n = IF g + j < n THEN g + j ELSE g + j - n
  BY <1>2
<1>5. (h + (j + 1)) % n = IF h + (j + 1) < n THEN h + (j + 1) ELSE h + (j + 1) - n
  OBVIOUS
<1>6. /\ j = n - 1 => (g + j) % n = h
      /\ j < n - 1 => (g + j) % n = (h + (j + 1)) % n
      /\ j < n - 1 => (h + (j + 1)) % n \in (0..n-1) \ {h}
  BY <1>2, <1>3, <1>4, <1>5
<1> QED BY <1>1, <1>2, <1>6

\* A new number takes the place of the oldest, in the window and in the sum.
LEMMA ProcessHolds ==
  ASSUME NEW n \in Nat \ {0}, NEW a, NEW s \in Seq(Int), NEW fill \in Int, NEW p \in Int,
         Holds(a, n, s, fill)
  PROVE  Holds(Process(a, p), n, Append(s, p), fill)
<1>1. PICK w \in [0..n-1 -> Int], h \in 0..n-1, c \in Int :
         a.window = w /\ a.head = h /\ a.current_sum = c /\ a.size = n
  BY DEF Holds, IntAveragers
<1>2. w[h] = Recent(s, n, fill)
  <2>1. (h + 0) % n = h
    BY <1>1, Around
  <2>2. w[(h + 0) % n] = Recent(s, n - 0, fill)
    BY <1>1 DEF Holds
  <2> QED BY <2>1, <2>2
<1>3. PICK b : b = [window |-> [w EXCEPT ![h] = p], head |-> (h + 1) % n,
                    current_sum |-> c - w[h] + p, size |-> n]
  OBVIOUS
<1>4. Process(a, p) = b
  BY <1>1, <1>3 DEF Process
<1>5. b \in IntAveragers(n)
  <2>1. [w EXCEPT ![h] = p] \in [0..n-1 -> Int] /\ (h + 1) % n \in 0..n-1
    BY <1>1, HeadMoves
  <2>2. w[h] \in Int
    BY <1>1
  <2>3. c - w[h] + p \in Int
    BY <1>1, <2>2
  <2> QED BY <1>3, <2>1, <2>3 DEF IntAveragers
<1>6. b.current_sum = MovingSum(Append(s, p), Len(Append(s, p)), n, fill)
  <2>1. c = MovingSum(s, Len(s), n, fill)
    BY <1>1 DEF Holds
  <2>2. Len(Append(s, p)) = Len(s) + 1
    OBVIOUS
  <2> QED BY <1>2, <1>3, <2>1, <2>2, SumSlides
<1>7. ASSUME NEW j \in 0..n-1
      PROVE  b.window[(b.head + j) % n] = Recent(Append(s, p), n - j, fill)
  <2>1. CASE j = n - 1
    <3>1. (b.head + j) % n = h
      <4>1. b.head = (h + 1) % n
        BY <1>3
      <4>2. /\ (h + 1) % n \in 0..n-1
            /\ j = n - 1 => (((h + 1) % n) + j) % n = h
            /\ j < n - 1 => (((h + 1) % n) + j) % n = (h + (j + 1)) % n
            /\ j < n - 1 => (h + (j + 1)) % n \in (0..n-1) \ {h}
        BY <1>1, HeadMoves
      <4> QED BY <2>1, <4>1, <4>2
    <3>2. b.window[h] = p
      BY <1>1, <1>3
    <3> QED BY <2>1, <3>1, <3>2, RecentAppend
  <2>2. CASE j < n - 1
    <3>1. PICK x \in (0..n-1) \ {h} : (b.head + j) % n = x /\ x = (h + (j + 1)) % n
      <4>1. b.head = (h + 1) % n
        BY <1>3
      <4>2. /\ j < n - 1 => (((h + 1) % n) + j) % n = (h + (j + 1)) % n
            /\ j < n - 1 => (h + (j + 1)) % n \in (0..n-1) \ {h}
        BY <1>1, HeadMoves
      <4>3. /\ (b.head + j) % n = (h + (j + 1)) % n
            /\ (h + (j + 1)) % n \in (0..n-1) \ {h}
        BY <2>2, <4>1, <4>2
      <4> QED BY <4>3, Zenon
    <3>2. PICK k \in 0..n-1 : k = j + 1
      BY <2>2
    <3>3. w[x] = Recent(s, n - k, fill)
      BY <1>1, <3>1, <3>2 DEF Holds
    <3>4. n - k \in Nat \ {0} /\ (n - k) + 1 = n - j
      BY <2>2, <3>2
    <3>5. PICK m \in Nat \ {0} : m = n - k
      BY <3>4, Zenon
    <3>6. Recent(Append(s, p), m + 1, fill) = Recent(s, m, fill)
      BY <3>5, RecentAppend
    <3>7. m + 1 = n - j
      BY <3>5, <3>4
    <3>8. b.window[x] = w[x]
      BY <1>1, <1>3, <3>1
    <3> QED BY <3>1, <3>3, <3>5, <3>8, <3>6, <3>7
  <2> QED BY <2>1, <2>2
<1> QED BY <1>4, <1>5, <1>6, <1>7 DEF Holds
=============================================================================
