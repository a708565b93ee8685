-------------------------------- MODULE FFT ---------------------------------
(***************************************************************************)
(* The plan of a fast Fourier transform and the way of the data through    *)
(* its buffers (pffft).  A setup factors the size and fills a table of     *)
(* twiddle factors; a transform goes through one pass per factor, back and *)
(* forth between two buffers, and must end in the output.  The arithmetic  *)
(* of a pass is left out: a buffer holds the steps that made its content.  *)
(*                                                                         *)
(* ifac is a sequence of any length.  The code's int[15] has room for 13   *)
(* factors, which no size below 17006112 exceeds; larger ones are not      *)
(* what these properties are about.                                        *)
(***************************************************************************)
EXTENDS Integers, Sequences

CONSTANTS
  Sizes,    \* lengths of transforms
  MaxCalls  \* bound: transforms with one setup

ASSUME FFTAssumption ==
  /\ Sizes \subseteq Nat \ {0}
  /\ MaxCalls \in Nat

VARIABLES
  N, transform,  \* of the setup
  at,            \* "decompose", "twiddles", "setup", "null" (no setup), and in a transform "split",
                 \* "passes", "finalize", "reorder", "preprocess", "join", "finish"
  nl, ntryh,     \* decompose: what is left, and the factors still to be tried
  ifac,          \* the factors
  wa,            \* the table: a cell holds 2 * a for cos(a * 2pi/n), 2 * a + 1 for sin
  k1, len, iw,   \* of a loop over the factors: the next one, l1 or l2, a place in wa
  direction, ordered, in_place, calls,
  buff,          \* the steps whose result "input", "output" and "scratch" hold
  in, out        \* of these, what the next step reads and what it writes

setupVars == <<N, transform, nl, ntryh, ifac, wa>>
loopVars  == <<k1, len, iw>>
callVars  == <<direction, ordered, in_place, calls>>
bufferVars == <<buff, in, out>>
vars == <<at, setupVars, loopVars, callVars, bufferVars>>

SIMD_SZ == 4

\* What the passes and the table are for: a transform of length n, of vectors.
n == N \div SIMD_SZ

Ncvec == (IF transform = "real" THEN N \div 2 ELSE N) \div SIMD_SZ

nf == Len(ifac)

-----------------------------------------------------------------------------
(***************************************************************************)
(* pffft_new_setup: the factors.                                           *)
(***************************************************************************)
\* Mutant: both kinds of transform try the factors in the same order.
Trials_Same(kind) == <<5, 3, 4, 2>>

Trials(kind) == IF kind = "real" THEN <<4, 2, 3, 5>> ELSE <<5, 3, 4, 2>>

\* A 2 goes before all others.
Inserted(ntry) == IF ntry = 2 THEN <<2>> \o ifac ELSE Append(ifac, ntry)

\* A factor is tried as long as it divides what is left.
Untried(divides) == IF divides THEN ntryh ELSE Tail(ntryh)

decompose ==
  /\ at = "decompose"
  /\ ntryh # <<>>
  /\ LET ntry    == Head(ntryh)
         divides == nl # 1 /\ nl % ntry = 0
     IN  /\ nl' = IF divides THEN nl \div ntry ELSE nl
         /\ ifac' = IF divides THEN Inserted(ntry) ELSE ifac
         /\ ntryh' = Untried(divides)
  /\ UNCHANGED <<at, N, transform, wa, loopVars, callVars, bufferVars>>

StartTwiddles ==
  /\ at = "decompose"
  /\ ntryh = <<>>
  /\ at' = "twiddles"
  /\ UNCHANGED <<setupVars, loopVars, callVars, bufferVars>>

-----------------------------------------------------------------------------
(***************************************************************************)
(* The table.                                                              *)
(***************************************************************************)
\* rffti1: for each j the multiples of the angle j * l1, none for the angle 0.
RealTwiddles(ip, ido) ==
  LET place(j, fi) == iw + (j - 1) * ido + 2 * (fi - 1)
      pairs == (1..ip-1) \X (1..(ido-1) \div 2)
      cells == {place(p[1], p[2]) + c : p \in pairs, c \in {0, 1}}
      value(x) == LET y == (x - iw) % ido
                      j == 1 + (x - iw) \div ido
                  IN  2 * (y \div 2 + 1) * j * len + (y % 2)
  IN  [x \in cells |-> value(x)]

\* cffti1: the pair written last for one j is overwritten by the first of the next.
ComplexTwiddles(ip, ido) ==
  LET cells == iw..iw + 2 * (ip - 1) * ido + 1
      value(x) == LET y  == x - iw
                      j  == 1 + y \div (2 * ido)
                      fi == (y % (2 * ido)) \div 2
                  IN  IF j = ip THEN 2 * ido * (ip - 1) * len + (y % 2)
                      ELSE 2 * fi * j * len + (y % 2)
  IN  [x \in cells |-> value(x)]

\* Cells that are written replace those of before.
Written(cells, table) ==
  [x \in DOMAIN cells \union DOMAIN table |->
     IF x \in DOMAIN cells THEN cells[x] ELSE table[x]]

\* One round of the loop over the factors.  The last factor of a real transform
\* needs nothing.
Twiddles ==
  /\ at = "twiddles"
  /\ k1 <= IF transform = "real" THEN nf - 1 ELSE nf
  /\ LET ip  == ifac[k1]
         ido == n \div (len * ip)
     IN  /\ wa' = IF transform = "real" THEN Written(RealTwiddles(ip, ido), wa)
                  ELSE Written(ComplexTwiddles(ip, ido), wa)
         /\ iw' = iw + (ip - 1) * (IF transform = "real" THEN ido ELSE 2 * ido)
         /\ len' = len * ip
         /\ k1' = k1 + 1
  /\ UNCHANGED <<at, N, transform, nl, ntryh, ifac, callVars, bufferVars>>

\* What the loop over the factors has made of the first k of them.
Products(s) ==
  LET m[k \in 0..Len(s)] == IF k = 0 THEN 1 ELSE m[k-1] * s[k]
  IN  m

\* A size that the factors do not make up is refused.
EndOfSetup ==
  /\ at = "twiddles"
  /\ k1 > IF transform = "real" THEN nf - 1 ELSE nf
  /\ at' = IF Products(ifac)[nf] = n THEN "setup" ELSE "null"
  /\ k1' = 0
  /\ UNCHANGED <<len, iw, setupVars, callVars, bufferVars>>

-----------------------------------------------------------------------------
(***************************************************************************)
(* pffft_transform_internal.                                               *)
(***************************************************************************)
Buffer(ib) == IF ib = 0 THEN "output" ELSE "scratch"

\* Mutant: the number of passes is left out.
FirstBuffer_Fixed(o) == IF o THEN 1 ELSE 0

\* Chosen for the result to end in the output: every pass changes buffers, and so
\* does the reordering.
FirstBuffer(o) == IF (nf % 2 = 1) # o THEN 1 ELSE 0

Other(b) == IF b = "output" THEN "scratch" ELSE "output"

Done(step, k) == [step |-> step, k |-> k]

\* Where the first step writes.  Only the split of a complex input may do so in place.
FirstTarget(dir, ib, vinput) ==
  IF dir = "forward" /\ transform = "complex" THEN Buffer(1 - ib)
  ELSE IF vinput = Buffer(ib) THEN Buffer(1 - ib) ELSE Buffer(ib)

Transform(dir, o, same) ==
  /\ at = "setup"
  /\ calls < MaxCalls
  /\ calls' = calls + 1
  /\ direction' = dir
  /\ ordered' = o
  /\ in_place' = same
  /\ LET vinput == IF same THEN "output" ELSE "input"
     IN  /\ buff' = [buff EXCEPT ![vinput] = <<Done("call", calls + 1)>>]
         /\ in' = vinput
         /\ out' = FirstTarget(dir, FirstBuffer(o), vinput)
  /\ at' = CASE dir = "forward" /\ transform = "real" -> "passes"
             [] dir = "forward" /\ transform = "complex" -> "split"
             [] dir = "backward" -> IF o THEN "reorder" ELSE "preprocess"
  /\ UNCHANGED <<setupVars, loopVars>>

\* A step from one buffer to another; what it would read after writing is lost.
Step(done) ==
  /\ buff' = [buff EXCEPT ![out] = IF in = out THEN <<Done("clobbered", 0)>>
                                   ELSE Append(buff[in], done)]
  /\ in' = out
  /\ out' = Other(out)

Split ==
  /\ at = "split"
  /\ buff' = [buff EXCEPT ![out] = Append(buff[in], Done("split", 0))]
  /\ in' = out
  /\ out' = Other(out)
  /\ at' = "passes"
  /\ UNCHANGED <<setupVars, loopVars, callVars>>

Descending == transform = "real" /\ direction = "forward"

\* Mutant: the table is read from one cell further on.
DescentStart_Late == n

DescentStart == n - 1

StartPasses ==
  /\ at = "passes"
  /\ k1 = 0
  /\ k1' = 1
  /\ len' = IF Descending THEN n ELSE 1
  /\ iw' = IF Descending THEN DescentStart ELSE 0
  /\ UNCHANGED <<at, setupVars, callVars, bufferVars>>

\* The pass that comes next: which factor, how many cells of the table it has, and
\* where they are.
factor == IF Descending THEN nf - k1 + 1 ELSE k1
l1     == IF Descending THEN len \div ifac[factor] ELSE len
ido    == n \div (l1 * ifac[factor])
cells  == (ifac[factor] - 1) * (IF transform = "real" THEN ido ELSE 2 * ido)
place  == IF Descending THEN iw - cells ELSE iw

Pass ==
  /\ at = "passes"
  /\ k1 \in 1..nf
  /\ k1' = k1 + 1
  /\ Step(Done("pass", factor))
  /\ UNCHANGED <<at, setupVars, callVars>>

\* rfftf1: from the last factor to the first.
RealForwardPass ==
  /\ Descending
  /\ Pass
  /\ len' = l1
  /\ iw' = place

\* rfftb1
RealBackwardPass ==
  /\ transform = "real"
  /\ ~Descending
  /\ Pass
  /\ len' = len * ifac[factor]
  /\ iw' = iw + cells

\* cfftf1, for both directions
ComplexPass ==
  /\ transform = "complex"
  /\ Pass
  /\ len' = len * ifac[factor]
  /\ iw' = iw + cells

EndOfPasses ==
  /\ at = "passes"
  /\ k1 = nf + 1
  /\ k1' = 0
  /\ at' = CASE direction = "forward" -> "finalize"
             [] direction = "backward" -> IF transform = "real" THEN "finish" ELSE "join"
  /\ UNCHANGED <<len, iw, setupVars, callVars, bufferVars>>

Finalize ==
  /\ at = "finalize"
  /\ Step(Done("finalize", 0))
  /\ at' = IF ordered THEN "reorder" ELSE "finish"
  /\ UNCHANGED <<setupVars, loopVars, callVars>>

Reorder ==
  /\ at = "reorder"
  /\ Step(Done("reorder", 0))
  /\ at' = IF direction = "forward" THEN "finish" ELSE "preprocess"
  /\ UNCHANGED <<setupVars, loopVars, callVars>>

Preprocess ==
  /\ at = "preprocess"
  /\ Step(Done("preprocess", 0))
  /\ at' = "passes"
  /\ UNCHANGED <<setupVars, loopVars, callVars>>

Join ==
  /\ at = "join"
  /\ buff' = [buff EXCEPT ![in] = Append(buff[in], Done("join", 0))]
  /\ at' = "finish"
  /\ UNCHANGED <<in, out, setupVars, loopVars, callVars>>

\* An extra copy if the result is not in the output.
Finish ==
  /\ at = "finish"
  /\ buff' = [buff EXCEPT !["output"] = buff[in]]
  /\ at' = "setup"
  /\ UNCHANGED <<in, out, setupVars, loopVars, callVars>>

-----------------------------------------------------------------------------
(***************************************************************************)
(* pffft_zreorder, on vectors of SIMD_SZ elements.                         *)
(***************************************************************************)
\* INTERLEAVE2, UNINTERLEAVE2: the two halves (0 and 1) of the result.
Interleave(x, y, h) == IF h = 0 THEN <<x[1], y[1], x[2], y[2]>> ELSE <<x[3], y[3], x[4], y[4]>>
Uninterleave(x, y, h) == IF h = 0 THEN <<x[1], x[3], y[1], y[3]>> ELSE <<x[2], x[4], y[2], y[4]>>

VSWAPHL(x, y) == <<y[1], y[2], x[3], x[4]>>

\* A quarter of a real spectrum, interleaved; there are 2 * dk vectors in it.
dk == N \div 32
Quarter(vin, q, m) == Interleave(vin[8 * (m \div 2) + 2 * q], vin[8 * (m \div 2) + 2 * q + 1], m % 2)

\* Mutant: the last vector is not swapped with the first.
reversed_copy_NoWrap(vin, q, r) ==
  LET m == 2 * dk - 1 - r
  IN  IF r = 0 THEN Quarter(vin, q, m) ELSE VSWAPHL(Quarter(vin, q, m), Quarter(vin, q, m + 1))

\* Backwards from the end, each vector made of two neighbours, the last and the first
\* being neighbours too.
reversed_copy(vin, q, r) ==
  LET m == 2 * dk - 1 - r
  IN  VSWAPHL(Quarter(vin, q, m), Quarter(vin, q, (m + 1) % (2 * dk)))

unreversed_copy(vin, q, k, h) ==
  LET x == vin[2 * q * dk + 2 * (dk - k) - 2]
      y == vin[2 * q * dk + 2 * (dk - k) - 1]
      z == vin[2 * q * dk + ((2 * (dk - k)) % (2 * dk))]
  IN  Uninterleave(VSWAPHL(y, z), VSWAPHL(x, y), h)

\* The vector v of the result, from those of vin.
RealReordered(dir, vin, v) ==
  IF dir = "forward"
  THEN LET q == v \div (2 * dk)
           r == v % (2 * dk)
       IN  IF q % 2 = 0 THEN Quarter(vin, q, r) ELSE reversed_copy(vin, q, r)
  ELSE LET k == v \div 8
           q == (v % 8) \div 2
       IN  IF q % 2 = 0
           THEN Uninterleave(vin[2 * (q * dk + k)], vin[2 * (q * dk + k) + 1], v % 2)
           ELSE unreversed_copy(vin, q, k, v % 2)

\* Where the forward direction puts pair k.
Transposed(k) == (k \div 4) + (k % 4) * (Ncvec \div 4)

ComplexReordered(dir, vin, v) ==
  IF dir = "forward"
  THEN LET k == CHOOSE k \in 0..Ncvec-1 : Transposed(k) = v \div 2
       IN  Interleave(vin[2 * k], vin[2 * k + 1], v % 2)
  ELSE LET kk == Transposed(v \div 2)
       IN  Uninterleave(vin[2 * kk], vin[2 * kk + 1], v % 2)

zreorder(dir, vin) ==
  [v \in 0..2*Ncvec-1 |-> IF transform = "real" THEN RealReordered(dir, vin, v)
                          ELSE ComplexReordered(dir, vin, v)]

-----------------------------------------------------------------------------
\* pffft_new_setup asserts the sizes of the vectors.
Init ==
  /\ N \in Sizes
  /\ transform \in {"real", "complex"}
  /\ N % (IF transform = "real" THEN 2 * SIMD_SZ * SIMD_SZ ELSE SIMD_SZ * SIMD_SZ) = 0
  /\ at = "decompose"
  /\ nl = n
  /\ ntryh = Trials(transform)
  /\ ifac = <<>>
  /\ wa = <<>>
  /\ k1 = 1
  /\ len = 1
  /\ iw = 0
  /\ direction = "forward" /\ ordered = FALSE /\ in_place = FALSE
  /\ calls = 0
  /\ buff = [b \in {"input", "output", "scratch"} |-> <<>>]
  /\ in = "input" /\ out = "output"

Next ==
  \/ decompose
  \/ StartTwiddles
  \/ Twiddles
  \/ EndOfSetup
  \/ \E dir \in {"forward", "backward"} : \E o, same \in BOOLEAN : Transform(dir, o, same)
  \/ Split
  \/ StartPasses
  \/ RealForwardPass
  \/ RealBackwardPass
  \/ ComplexPass
  \/ EndOfPasses
  \/ Finalize
  \/ Reorder
  \/ Preprocess
  \/ Join
  \/ Finish

Spec == Init /\ [][Next]_vars

-----------------------------------------------------------------------------
(***************************************************************************)
(* Properties.                                                             *)
(***************************************************************************)
\* The factors fit.  A setup is made exactly for the sizes whose vectors have no prime
\* factor above 5, whatever order the factors are tried in.  And no pass is asked for
\* what its butterflies cannot do: of radix 3 and 5, the real ones have no code for an
\* even length and the complex ones refuse the length 1; the order of the factors never
\* asks them to.
FactorsFit ==
  LET smooth == \A d \in 2..n : n % d = 0 => \E p \in {2, 3, 5} : d % p = 0
  IN  /\ at = "null" => ~smooth
      /\ at \notin {"decompose", "twiddles", "null"} => smooth
      /\ at = "passes" /\ k1 \in 1..nf /\ ifac[factor] \in {3, 5} =>
           IF transform = "real" THEN ido % 2 = 1 ELSE ido > 1

\* A pass finds at its place in the table the multiples of its angle: the loops that
\* fill the table, and the two that read it, one of them from its end, agree.
\* The table stays in the room allocated for it, which the twiddles of a complex
\* transform fill to the last cell.
TwiddlesRead ==
  /\ DOMAIN wa \subseteq 0..2 * Ncvec - 1
  /\ at = "passes" /\ k1 \in 1..nf =>
       \A j \in 1..ifac[factor]-1 :
         IF transform = "real"
         THEN \A fi \in 1..(ido-1) \div 2 :
                LET x == place + (j - 1) * ido + 2 * (fi - 1)
                IN  /\ {x, x + 1} \subseteq DOMAIN wa
                    /\ wa[x] = 2 * fi * j * l1
                    /\ wa[x+1] = 2 * fi * j * l1 + 1
         ELSE ido > 1 =>
              \A fi \in 0..ido-1 :
                LET x == place + 2 * (j - 1) * ido + 2 * fi
                IN  /\ {x, x + 1} \subseteq DOMAIN wa
                    /\ wa[x] = 2 * fi * j * l1
                    /\ wa[x+1] = 2 * fi * j * l1 + 1

\* The steps that make a transform, in order.
Program ==
  LET up      == [k \in 1..nf |-> Done("pass", k)]
      down    == [k \in 1..nf |-> Done("pass", nf - k + 1)]
      only(c, s) == IF c THEN <<Done(s, 0)>> ELSE <<>>
      complex == transform = "complex"
  IN  <<Done("call", calls)>> \o
      IF direction = "forward"
      THEN only(complex, "split") \o (IF complex THEN up ELSE down)
           \o <<Done("finalize", 0)>> \o only(ordered, "reorder")
      ELSE only(ordered, "reorder") \o <<Done("preprocess", 0)>> \o up
           \o only(complex, "join")

\* For every number of passes, both directions, ordered or not, in place or not: the
\* output ends with all the steps made on the input, none of them on a buffer it was
\* writing to; the input is not touched unless it is the output; and a copy is needed
\* in place only, as pffft_transform_internal asserts.
ResultInOutput ==
  /\ at = "finish" /\ in # "output" => in_place
  /\ at = "setup" /\ calls > 0 =>
       /\ buff["output"] = Program
       /\ ~in_place => buff["input"] = <<Done("call", calls)>>

\* Reordering is undone by reordering in the other direction, for each size of setup.
ReorderUndone ==
  at = "setup" /\ calls = 0 =>
    LET v == [i \in 0..2*Ncvec-1 |-> [e \in 1..SIMD_SZ |-> SIMD_SZ * i + e]]
    IN  zreorder("backward", zreorder("forward", v)) = v
=============================================================================
