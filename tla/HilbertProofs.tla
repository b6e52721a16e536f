---------------------------- MODULE HilbertProofs ----------------------------
(***************************************************************************)
(* What holds of HilbertCode.tla and HilbertIndex.tla for every grid whose *)
(* side is a power of two:                                                 *)
(*   - the curve: Encode and DecodeToPoint are inverse to each other, and  *)
(*     the curve goes from cell to adjacent cell (CurveContinues);         *)
(*   - the ranges of a box that is not wrapped cover it, are at most as    *)
(*     many as asked for, and exact when that is enough (Covers);          *)
(*   - the ranges of a box that is wrapped cover its parts, and are exact  *)
(*     unless they were compacted (GetRangeOfParts);                       *)
(*   - the iterator of ExtractItems yields the items of the ranges it      *)
(*     walks, for every sorted list of items and every ascending list of   *)
(*     ranges: also when ranges overlap, items share a Hid or the binary   *)
(*     search meets any of them (WalkExact);                               *)
(*   - so Within's walk finds the items of its box, and only these unless  *)
(*     the ranges were compacted (FoundExact), and NearestNeighbours' the  *)
(*     nearest ones, when the box around them fits the grid (NearestExact).*)
(* The provers know no induction over a recursive function.  So the first  *)
(* section proves induction and recursion over sets of naturals, and each  *)
(* recursive function of HilbertCode is unfolded once by it (EncodeStep,   *)
(* DecodeStep, SplitQuadStep, JoinNearIs, CompactIs).                      *)
(***************************************************************************)
EXTENDS HilbertIndex, FiniteSetTheorems, SequenceTheorems, WellFoundedInduction, TLAPS

-----------------------------------------------------------------------------
(* Induction and recursion *)

\* Every set of naturals that is not empty has a least element.
LEMMA LeastElement ==
  ASSUME NEW T \in SUBSET Nat, T # {}
  PROVE  \E n \in T : \A m \in T : n <= m
<1> DEFINE R == OpToRel(<, Nat)
<1>1. IsWellFoundedOn(R, Nat)
  BY NatLessThanWellFounded, Zenon
<1>2. PICK n \in T : \A m \in T : <<m, n>> \notin R
  <2> HIDE DEF R
  <2> QED
    BY <1>1, WFMin
<1>3. \A m \in T : ~ (m < n)
  BY <1>2 DEF OpToRel
<1> QED
  BY <1>3

\* Induction over a set of naturals.
LEMMA Inductive ==
  ASSUME NEW P \in SUBSET Nat, 0 \in P, \A n \in P : n + 1 \in P
  PROVE  \A n \in Nat : n \in P
<1> SUFFICES ASSUME NEW k \in Nat, k \notin P PROVE FALSE
  OBVIOUS
<1>1. PICK n \in Nat \ P : \A m \in Nat \ P : n <= m
  BY LeastElement
<1>2. n # 0 /\ n - 1 \in Nat
  OBVIOUS
<1>3. n - 1 \in P
  BY <1>1, <1>2
<1> QED
  BY <1>3, <1>1

\* A set of numbers from -1 on that is bounded and not empty has a greatest element.
LEMMA GreatestFrom ==
  ASSUME NEW b \in Int, NEW T, T \subseteq -1..b, T # {}
  PROVE  \E x \in T : \A y \in T : x >= y
<1> DEFINE U == {b - x : x \in T}
<1>1. U \subseteq Nat /\ U # {}
  <2>1. \A x \in T : b - x \in Nat
    OBVIOUS
  <2>2. \A u \in U : u \in Nat
    BY <2>1, Zenon
  <2>3. PICK x \in T : TRUE
    BY Zenon
  <2>4. b - x \in U
    BY <2>3, Zenon
  <2> QED
    BY <2>2, <2>4, Zenon
<1>2. PICK u \in U : \A v \in U : ~(<<v, u>> \in OpToRel(<, Nat))
  BY <1>1, NatLessThanWellFounded, WFMin
<1>3. PICK x \in T : u = b - x
  BY <1>2, Zenon
<1>4. ASSUME NEW y \in T PROVE x >= y
  <2>1. b - y \in U
    BY <1>4, Zenon
  <2>2. b - y \in Nat /\ u \in Nat
    BY <1>1, <1>2, <2>1
  <2> HIDE DEF U
  <2>3. ~(b - y < u)
    BY <1>2, <2>1, <2>2 DEF OpToRel
  <2>4. x \in Int /\ y \in Int
    OBVIOUS
  <2> QED
    BY <1>3, <2>3, <2>4
<1> QED
  BY <1>4

\* The argument a value is read off is smaller.
Descends(from) == from \in [Nat -> Nat] /\ \A i \in Nat \ {0} : from[i] < i

\* f is what step and base compute: a value from the one at from[i].
Computes(f, base, step, from) ==
    f[0] = base /\ \A i \in Nat \ {0} : f[i] = step[<<i, f[from[i]]>>]

\* A function on the naturals whose value at i is read off its value at
\* some smaller argument, from[i].
LEMMA Recursion ==
  ASSUME NEW S, NEW base \in S, NEW step \in [Nat \X S -> S],
         NEW from, Descends(from)
  PROVE  \E f \in [Nat -> S] : Computes(f, base, step, from)
<1> USE DEF Descends, Computes
<1> DEFINE Upto(n, g) == /\ g \in [0..n -> S] /\ g[0] = base
                         /\ \A i \in 1..n : g[i] = step[<<i, g[from[i]]>>]
           P == {n \in Nat : \E g \in [0..n -> S] : Upto(n, g)}
<1>1. 0 \in P
  <2> Upto(0, [i \in 0..0 |-> base])
    OBVIOUS
  <2> QED
    OBVIOUS
<1>2. ASSUME NEW n \in P PROVE n + 1 \in P
  <2>1. PICK g \in [0..n -> S] : Upto(n, g)
    OBVIOUS
  <2> DEFINE new == step[<<n + 1, g[from[n + 1]]>>]
             h == [i \in 0..(n + 1) |-> IF i = n + 1 THEN new ELSE g[i]]
  <2>2. n \in Nat /\ from[n + 1] \in 0..n
    <3>1. n \in Nat /\ n + 1 \in Nat \ {0}
      OBVIOUS
    <3> HIDE DEF P
    <3>2. from[n + 1] \in Nat /\ from[n + 1] < n + 1
      BY <3>1
    <3> QED
      BY <3>1, <3>2
  <2>3. step[<<n + 1, g[from[n + 1]]>>] \in S
    <3>1. g \in [0..n -> S]
      BY <2>1
    <3>2. g[from[n + 1]] \in S
      BY ONLY <2>2, <3>1
    <3>3. n + 1 \in Nat
      BY ONLY <2>2
    <3>4. <<n + 1, g[from[n + 1]]>> \in Nat \X S
      BY ONLY <3>2, <3>3
    <3> QED
      BY ONLY <3>4, step \in [Nat \X S -> S]
  <2>4. h \in [0..(n + 1) -> S]
    BY <2>3, <2>1
  <2>5. ASSUME NEW i \in 1..(n + 1) PROVE from[i] \in 0..n /\ from[i] < i
    <3>1. i \in Nat \ {0} /\ i <= n + 1
      BY <2>2
    <3>2. from[i] \in Nat /\ from[i] < i
      BY <3>1
    <3> QED
      BY ONLY <3>1, <3>2, <2>2
  <2>6. ASSUME NEW i \in 1..(n + 1) PROVE h[i] = step[<<i, h[from[i]]>>]
    <3>1. from[i] \in 0..n /\ from[i] < i
      BY <2>5
    <3>a. \A j \in 0..n : h[j] = g[j]
      BY <2>2
    <3>b. h[n + 1] = new
      <4> HIDE DEF new
      <4> QED
        BY <2>2
    <3> HIDE DEF h, P
    <3>2. h[from[i]] = g[from[i]]
      BY <3>1, <3>a
    <3>3. CASE i = n + 1
      BY <3>2, <3>3, <3>b
    <3>4. CASE i \in 1..n
      <4>1. g[i] = step[<<i, g[from[i]]>>]
        BY <2>1, <3>4
      <4>2. h[i] = g[i]
        <5>1. i \in 0..n
          BY ONLY <3>4, <2>2
        <5> QED
          BY ONLY <5>1, <3>a
      <4> QED
        BY ONLY <4>1, <4>2, <3>2
    <3> QED
      BY ONLY <3>3, <3>4, <2>2, i \in 1..(n + 1)
  <2>7. h[0] = base
    BY <2>1, <2>2
  <2>8. Upto(n + 1, h)
    <3> HIDE DEF h
    <3> QED
      BY <2>4, <2>6, <2>7
  <2> HIDE DEF h, Upto
  <2> QED
    BY <2>2, <2>4, <2>8
<1>3. \A n \in Nat : \E g \in [0..n -> S] : Upto(n, g)
  <2> HIDE DEF Upto
  <2>1. P \in SUBSET Nat
    OBVIOUS
  <2> HIDE DEF P
  <2>2. \A n \in Nat : n \in P
    BY <1>1, <1>2, <2>1, Inductive
  <2> QED
    BY <2>2 DEF P
<1>4. \A m, n \in Nat : \A g, h :
          m <= n /\ Upto(m, g) /\ Upto(n, h) => \A i \in 0..m : g[i] = h[i]
  <2> SUFFICES ASSUME NEW m \in Nat, NEW n \in Nat, NEW g, NEW h,
                      m <= n, Upto(m, g), Upto(n, h)
               PROVE  \A i \in 0..m : g[i] = h[i]
    <3> HIDE DEF Upto
    <3> QED
      OBVIOUS
  <2> DEFINE T == {i \in 0..m : g[i] # h[i]}
  <2>1. T \in SUBSET Nat
    <3> HIDE DEF Upto
    <3> QED
      OBVIOUS
  <2>2. SUFFICES ASSUME T # {} PROVE FALSE
    <3> HIDE DEF Upto
    <3> QED
      OBVIOUS
  <2>3. PICK k \in T : \A j \in T : k <= j
    <3> HIDE DEF T, Upto
    <3> QED
      BY <2>1, <2>2, LeastElement
  <2>4. k \in 0..m /\ g[k] # h[k] /\ k # 0
    <3>1. g[0] = h[0]
      OBVIOUS
    <3> HIDE DEF Upto
    <3> QED
      BY <3>1
  <2>5. k \in 1..m /\ k \in 1..n /\ k \in Nat \ {0}
    BY ONLY <2>4, m <= n, m \in Nat, n \in Nat
  <2>6. from[k] \in Nat /\ from[k] < k
    <3> HIDE DEF T, Upto
    <3> QED
      BY <2>5
  <2>7. g[from[k]] = h[from[k]]
    <3> HIDE DEF Upto
    <3>1. from[k] \in 0..m /\ ~ (k <= from[k])
      BY ONLY <2>5, <2>6
    <3> QED
      BY <3>1, <2>3
  <2>8. g[k] = step[<<k, g[from[k]]>>] /\ h[k] = step[<<k, h[from[k]]>>]
    <3> HIDE DEF T
    <3> QED
      BY <2>5
  <2> QED
    BY ONLY <2>4, <2>7, <2>8
<1> DEFINE Part(n) == CHOOSE g \in [0..n -> S] : Upto(n, g)
           f == [n \in Nat |-> Part(n)[n]]
<1>5. \A n \in Nat : Part(n) \in [0..n -> S] /\ Upto(n, Part(n))
  <2> HIDE DEF Upto
  <2> QED
    BY <1>3
<1>6. \A i \in Nat : Part(i)[i] \in S
  <2> HIDE DEF Part
  <2> QED
    BY <1>5
<1>7. f \in [Nat -> S]
  BY <1>6
<1>8. Part(0)[0] = base
  <2> HIDE DEF Part
  <2> QED
    BY <1>5
<1>9. ASSUME NEW i \in Nat \ {0}
      PROVE  Part(i)[i] = step[<<i, Part(from[i])[from[i]]>>]
  <2>1. from[i] \in Nat /\ from[i] < i /\ i \in Nat
    OBVIOUS
  <2>2. Part(i)[i] = step[<<i, Part(i)[from[i]]>>]
    <3> HIDE DEF Part
    <3>1. i \in 1..i
      BY <2>1
    <3>2. Upto(i, Part(i))
      <4> HIDE DEF Upto
      <4> QED
        BY <2>1, <1>5
    <3> QED
      BY <3>1, <3>2
  <2>3. Part(from[i])[from[i]] = Part(i)[from[i]]
    <3> HIDE DEF Part, Upto
    <3>1. from[i] \in 0..from[i]
      BY <2>1
    <3>2. Upto(from[i], Part(from[i])) /\ Upto(i, Part(i))
      BY <2>1, <1>5
    <3> QED
      BY <3>1, <3>2, <2>1, <1>4
  <2> QED
    BY <2>2, <2>3
<1> QED
  <2>1. f[0] = base /\ \A i \in Nat \ {0} : f[i] = step[<<i, f[from[i]]>>]
    <3> HIDE DEF Part
    <3> QED
      BY <1>8, <1>9
  <2> HIDE DEF f
  <2> QED
    BY <1>7, <2>1

-----------------------------------------------------------------------------
(* Bits *)

\* Division with remainder.
LEMMA DivMod ==
  ASSUME NEW v \in Int, NEW s \in Nat \ {0}
  PROVE  /\ v \div s \in Int /\ v % s \in Int
         /\ 0 <= v % s /\ v % s < s /\ v = s * (v \div s) + (v % s)
OBVIOUS

\* A multiple of s that is smaller than s is zero.
LEMMA Multiple ==
  ASSUME NEW s \in Nat \ {0}, NEW a \in Int, s * a < s, -s < s * a
  PROVE  a = 0
OBVIOUS

\* The quotient is the only one.
LEMMA DivUnique ==
  ASSUME NEW s \in Nat \ {0}, NEW a \in Int, NEW r \in 0..(s - 1)
  PROVE  (s * a + r) \div s = a
<1> DEFINE v == s * a + r
           q == v \div s
<1>1. v \in Int
  OBVIOUS
<1>2. q \in Int /\ v % s \in Int /\ 0 <= v % s /\ v % s < s /\ v = s * q + (v % s)
  <2> HIDE DEF v
  <2> QED
    BY <1>1, DivMod
<1>3. s * (a - q) < s /\ -s < s * (a - q)
  <2>1. s * (a - q) = s * a - s * q
    BY <1>2
  <2>2. v = s * a + r /\ 0 <= r /\ r < s
    OBVIOUS
  <2>3. s * a \in Int /\ s * q \in Int
    BY <1>2
  <2> HIDE DEF v, q
  <2> QED
    BY ONLY <2>1, <2>2, <2>3, <1>2, <1>1, r \in 0..(s - 1), s \in Nat \ {0}
<1>4. a - q = 0
  <2> HIDE DEF q
  <2> QED
    BY <1>3, <1>2, Multiple
<1> HIDE DEF q
<1>5. a = q
  BY <1>4, <1>2
<1> QED
  BY <1>5 DEF q

\* A bit is a bit.
LEMMA BitOf ==
  ASSUME NEW s \in Nat \ {0}, NEW v \in Int
  PROVE  Bit(v, s) \in {0, 1}
BY DEF Bit

\* The bit s selects does not depend on what is below s.
LEMMA BitLow ==
  ASSUME NEW s \in Nat \ {0}, NEW a \in Int, NEW r \in 0..(s - 1)
  PROVE  Bit(s * a + r, s) = a % 2
BY DivUnique DEF Bit

\* Nor on what is above it, in negative numbers too.
LEMMA BitPeriodic ==
  ASSUME NEW s \in Nat \ {0}, NEW v \in Int, NEW m \in Int
  PROVE  Bit(v + 2 * s * m, s) = Bit(v, s)
<1> DEFINE q == v \div s
           r == v % s
<1>1. q \in Int /\ r \in 0..(s - 1) /\ v = s * q + r
  BY DivMod
<1> HIDE DEF q, r
<1>2. v + 2 * s * m = s * (q + 2 * m) + r
  BY <1>1
<1>a. q + 2 * m \in Int
  BY <1>1
<1>3. Bit(v + 2 * s * m, s) = (q + 2 * m) % 2
  <2>1. Bit(s * (q + 2 * m) + r, s) = (q + 2 * m) % 2
    BY ONLY BitLow, <1>a, <1>1, s \in Nat \ {0}
  <2> QED
    BY ONLY <2>1, <1>2
<1>4. Bit(v, s) = q % 2
  BY <1>1, BitLow
<1> QED
  BY <1>1, <1>3, <1>4

-----------------------------------------------------------------------------
(* Encode *)

\* Points are rotated to points.
LEMMA RotateIn ==
  ASSUME NEW s \in Nat, NEW c \in Points, NEW rx \in {0, 1}, NEW ry \in {0, 1}
  PROVE  Rotate(s, c, rx, ry) \in Points
BY DEF Rotate, Reflect, Cell, Points

\* A quarter is one of four.
LEMMA QuarterIn ==
  ASSUME NEW rx \in {0, 1}, NEW ry \in {0, 1}
  PROVE  Quarter(rx, ry) \in 0..3
BY DEF Quarter

\* The powers of two.
LEMMA TwoToStep ==
  /\ TwoTo \in [Nat -> Nat]
  /\ TwoTo[0] = 1
  /\ \A k \in Nat : TwoTo[k + 1] = 2 * TwoTo[k]
<1> DEFINE step == [p \in Nat \X Nat |-> 2 * p[2]]
           from == [k \in Nat |-> IF k = 0 THEN 0 ELSE k - 1]
<1>1. step \in [Nat \X Nat -> Nat]
  OBVIOUS
<1>2. Descends(from)
  BY DEF Descends
<1>3. PICK f \in [Nat -> Nat] : Computes(f, 1, step, from)
  <2> HIDE DEF step, from
  <2>1. 1 \in Nat
    OBVIOUS
  <2> QED
    BY <1>1, <1>2, <2>1, Recursion
<1>4. f = [k \in Nat |-> IF k = 0 THEN 1 ELSE 2 * f[k - 1]]
  <2>1. ASSUME NEW k \in Nat \ {0} PROVE f[k] = 2 * f[k - 1]
    <3>1. from[k] = k - 1 /\ f[k - 1] \in Nat
      OBVIOUS
    <3>2. step[<<k, f[k - 1]>>] = 2 * f[k - 1]
      BY <3>1
    <3> HIDE DEF step, from
    <3> QED
      BY <1>3, <3>1, <3>2 DEF Computes
  <2> HIDE DEF step, from
  <2> QED
    BY <1>3, <2>1 DEF Computes
<1> HIDE DEF step, from
<1>5. TwoTo = [k \in Nat |-> IF k = 0 THEN 1 ELSE 2 * TwoTo[k - 1]]
  BY <1>4, Zenon DEF TwoTo
<1>6. ASSUME NEW k \in Nat PROVE TwoTo[k + 1] = 2 * TwoTo[k]
  <2>1. k + 1 \in Nat /\ k + 1 # 0 /\ (k + 1) - 1 = k
    OBVIOUS
  <2> QED
    BY ONLY <1>5, <2>1
<1>7. TwoTo[0] = 1
  BY <1>5
<1>8. \A k \in Nat : TwoTo[k] \in Nat
  <2> DEFINE P == {k \in Nat : TwoTo[k] \in Nat}
  <2>1. P \in SUBSET Nat /\ 0 \in P /\ \A k \in P : k + 1 \in P
    BY <1>6, <1>7
  <2> HIDE DEF P
  <2>2. \A k \in Nat : k \in P
    BY <2>1, Inductive
  <2> QED
    BY <2>2 DEF P
<1>9. TwoTo \in [Nat -> Nat]
  <2>1. DOMAIN TwoTo = Nat
    BY <1>5
  <2>2. TwoTo = [k \in Nat |-> TwoTo[k]]
    BY <1>5
  <2> QED
    BY <2>2, <1>8
<1> QED
  BY <1>6, <1>7, <1>9

\* An iteration of Encode.
LEMMA EncodeStep ==
  /\ \A c \in Points : Encode(c, 1) = 0
  /\ \A s \in Nat \ {0}, c \in Points :
        LET rx == Bit(c.x, s)
            ry == Bit(c.y, s)
        IN  Encode(c, 2 * s) =
              s * s * Quarter(rx, ry) + Encode(Rotate(s, c, rx, ry), s)
<1> DEFINE S == [Points -> Int]
           base == [c \in Points |-> 0]
           Turned(s, c) == Rotate(s, c, Bit(c.x, s), Bit(c.y, s))
           Digit(s, c) == s * s * Quarter(Bit(c.x, s), Bit(c.y, s))
           new(s, g) == [c \in Points |-> Digit(s, c) + g[Turned(s, c)]]
           step == [p \in Nat \X S |-> IF p[1] = 0 THEN base ELSE new(p[1], p[2])]
           from == [s \in Nat |-> s \div 2]
<1>1. base \in S
  OBVIOUS
<1>2. \A s \in Nat \ {0}, c \in Points : Turned(s, c) \in Points /\ Digit(s, c) \in Int
  <2> SUFFICES ASSUME NEW s \in Nat \ {0}, NEW c \in Points
               PROVE  Turned(s, c) \in Points /\ Digit(s, c) \in Int
    OBVIOUS
  <2>1. Bit(c.x, s) \in {0, 1} /\ Bit(c.y, s) \in {0, 1}
    BY BitOf DEF Points
  <2>2. Quarter(Bit(c.x, s), Bit(c.y, s)) \in Int
    BY <2>1, QuarterIn
  <2>3. Turned(s, c) \in Points
    BY <2>1, RotateIn
  <2>4. \A k \in Int : s * s * k \in Int
    OBVIOUS
  <2> QED
    BY <2>2, <2>3, <2>4
<1> HIDE DEF Turned, Digit
<1>3. \A s \in Nat \ {0}, g \in S : new(s, g) \in S
  BY <1>2
<1>4. step \in [Nat \X S -> S]
  <2> HIDE DEF new, base, S
  <2> QED
    BY <1>1, <1>3
<1>5. Descends(from)
  BY DEF Descends
<1>6. PICK f \in [Nat -> S] : Computes(f, base, step, from)
  <2> HIDE DEF step, from, base, S
  <2> QED
    BY <1>1, <1>4, <1>5, Recursion
<1>7. \A s \in Nat \ {0} : f[s] = new(s, f[s \div 2])
  <2> SUFFICES ASSUME NEW s \in Nat \ {0} PROVE f[s] = new(s, f[s \div 2])
    OBVIOUS
  <2>1. from[s] = s \div 2 /\ s \div 2 \in Nat
    OBVIOUS
  <2> HIDE DEF new, from, base, S
  <2>2. step[<<s, f[s \div 2]>>] = new(s, f[s \div 2])
    BY <2>1
  <2> HIDE DEF step
  <2> QED
    BY <1>6, <2>1, <2>2 DEF Computes
<1> DEFINE Body(g) == [s \in Nat |-> [c \in Points |->
                         IF s = 0 THEN 0 ELSE Digit(s, c) + g[s \div 2][Turned(s, c)]]]
<1>8. f = Body(f)
  <2>1. \A s \in Nat : f[s] = [c \in Points |->
              IF s = 0 THEN 0 ELSE Digit(s, c) + f[s \div 2][Turned(s, c)]]
    <3> SUFFICES ASSUME NEW s \in Nat
                 PROVE f[s] = [c \in Points |->
            IF s = 0 THEN 0 ELSE Digit(s, c) + f[s \div 2][Turned(s, c)]]
      OBVIOUS
    <3>1. CASE s = 0
      BY <3>1, <1>6 DEF Computes
    <3>2. CASE s # 0
      <4>1. f[s] = new(s, f[s \div 2])
        BY <3>2, <1>7
      <4> QED
        BY <3>2, <4>1
    <3> QED
      BY <3>1, <3>2
  <2>2. f = [s \in Nat |-> f[s]]
    OBVIOUS
  <2> QED
    BY <2>1, <2>2
<1>9. EncodeFrom = Body(EncodeFrom)
  BY <1>8, Zenon DEF EncodeFrom, Turned, Digit
<1>10. \A c \in Points : Encode(c, 1) = 0
  <2>1. 1 \div 2 = 0
    OBVIOUS
  <2>2. \A c \in Points : EncodeFrom[0][c] = 0
    BY <1>9
  <2> QED
    BY <2>1, <2>2 DEF Encode
<1>11. ASSUME NEW s \in Nat \ {0}, NEW c \in Points
       PROVE  Encode(c, 2 * s) = Digit(s, c) + Encode(Turned(s, c), s)
  <2>1. (2 * s) \div 2 = s
    OBVIOUS
  <2>2. EncodeFrom[s][c] = Digit(s, c) + EncodeFrom[s \div 2][Turned(s, c)]
    <3>1. s \in Nat /\ s # 0
      OBVIOUS
    <3>2. EncodeFrom[s] = Body(EncodeFrom)[s]
      BY <1>9
    <3> QED
      BY ONLY <3>1, <3>2, c \in Points
  <2> QED
    BY <2>1, <2>2 DEF Encode
<1> QED
  BY <1>10, <1>11, Zenon DEF Turned, Digit

-----------------------------------------------------------------------------
(* DecodeToPoint *)

\* The bits of a digit of d.
LEMMA DigitsIn ==
  ASSUME NEW t \in Nat
  PROVE  (t \div 2) % 2 \in {0, 1} /\ (t + ((t \div 2) % 2)) % 2 \in {0, 1}
OBVIOUS

\* An iteration of DecodeToPoint: the point before it, the digit of d.
PlaceIn(s, p, t) ==
    LET rx == (t \div 2) % 2
        ry == (t + rx) % 2
        c == Rotate(s, p, rx, ry)
    IN  Cell(c.x + s * rx, c.y + s * ry)

\* It makes a point of a point.
LEMMA PlaceInPoints ==
  ASSUME NEW s \in Nat, NEW p \in Points, NEW t \in Nat
  PROVE  PlaceIn(s, p, t) \in Points
<1> DEFINE rx == (t \div 2) % 2
           ry == (t + rx) % 2
           c == Rotate(s, p, rx, ry)
<1>1. rx \in {0, 1} /\ ry \in {0, 1}
  BY DigitsIn
<1> HIDE DEF rx, ry
<1>2. c \in Points
  BY <1>1, RotateIn
<1>3. s * rx \in Int /\ s * ry \in Int
  BY <1>1
<1> HIDE DEF c
<1>4. Cell(c.x + s * rx, c.y + s * ry) \in Points
  BY <1>2, <1>3 DEF Cell, Points
<1> QED
  BY <1>4 DEF PlaceIn, c, rx, ry

\* The iterations of DecodeToPoint.
LEMMA DecodeStep ==
  /\ \A d \in Nat : DecodeToPoint(1, d) = Cell(0, 0)
  /\ \A s \in Nat \ {0}, d \in Nat :
        DecodeToPoint(2 * s, d) = PlaceIn(s, DecodeToPoint(s, d), d \div (s * s))
<1> DEFINE S == [Nat -> Points]
           base == [d \in Nat |-> Cell(0, 0)]
           new(s, g) == [d \in Nat |-> PlaceIn(s, g[d], d \div (s * s))]
           step == [p \in Nat \X S |-> IF p[1] = 0 THEN base ELSE new(p[1], p[2])]
           from == [s \in Nat |-> s \div 2]
<1>1. base \in S
  BY DEF Cell, Points
<1>2. \A s \in Nat \ {0}, d \in Nat : d \div (s * s) \in Nat
  <2> SUFFICES ASSUME NEW s \in Nat \ {0}, NEW d \in Nat PROVE d \div (s * s) \in Nat
    OBVIOUS
  <2> DEFINE q == s * s
  <2>1. q \in Nat \ {0}
    OBVIOUS
  <2> HIDE DEF q
  <2>2. d \div q \in Nat
    <3>1. d \div q \in Int /\ d % q < q /\ d = q * (d \div q) + (d % q) /\ d % q \in Int
      BY <2>1, DivMod
    <3> DEFINE e == d \div q
               r == d % q
    <3> HIDE DEF e, r
    <3>2. ASSUME e < 0 PROVE FALSE
      <4>1. q * e <= q * (-1)
        BY <3>1, <3>2, <2>1 DEF e
      <4> QED
        BY <4>1, <3>1, <2>1 DEF e, r
    <3> QED
      BY <3>1, <3>2 DEF e
  <2> QED
    BY <2>2 DEF q
<1>3. \A s \in Nat \ {0}, g \in S : new(s, g) \in S
  BY <1>2, PlaceInPoints
<1>4. step \in [Nat \X S -> S]
  <2> HIDE DEF new, base, S
  <2> QED
    BY <1>1, <1>3
<1>5. Descends(from)
  BY DEF Descends
<1>6. PICK f \in [Nat -> S] : Computes(f, base, step, from)
  <2> HIDE DEF step, from, base, S
  <2> QED
    BY <1>1, <1>4, <1>5, Recursion
<1>7. \A s \in Nat \ {0} : f[s] = new(s, f[s \div 2])
  <2> SUFFICES ASSUME NEW s \in Nat \ {0} PROVE f[s] = new(s, f[s \div 2])
    OBVIOUS
  <2>1. from[s] = s \div 2 /\ s \div 2 \in Nat
    OBVIOUS
  <2> HIDE DEF new, from, base, S
  <2>2. step[<<s, f[s \div 2]>>] = new(s, f[s \div 2])
    BY <2>1
  <2> HIDE DEF step
  <2> QED
    BY <1>6, <2>1, <2>2 DEF Computes
<1> DEFINE Body(g) == [s \in Nat |-> [d \in Nat |->
              IF s = 0 THEN Cell(0, 0) ELSE PlaceIn(s, g[s \div 2][d], d \div (s * s))]]
<1>8. f = Body(f)
  <2>1. ASSUME NEW s \in Nat PROVE f[s] = [d \in Nat |->
            IF s = 0 THEN Cell(0, 0) ELSE PlaceIn(s, f[s \div 2][d], d \div (s * s))]
    <3>1. CASE s = 0
      BY <3>1, <1>6 DEF Computes
    <3>2. CASE s # 0
      <4>1. f[s] = new(s, f[s \div 2])
        BY <3>2, <1>7
      <4> QED
        BY <3>2, <4>1
    <3> QED
      BY <3>1, <3>2
  <2>2. f = [s \in Nat |-> f[s]]
    OBVIOUS
  <2> QED
    BY <2>1, <2>2
<1>9. DecodeUpTo = Body(DecodeUpTo)
  BY <1>8, Zenon DEF DecodeUpTo, PlaceIn
<1>10. \A d \in Nat : DecodeToPoint(1, d) = Cell(0, 0)
  <2>1. 1 \div 2 = 0
    OBVIOUS
  <2>2. \A d \in Nat : DecodeUpTo[0][d] = Cell(0, 0)
    BY <1>9
  <2> QED
    BY <2>1, <2>2 DEF DecodeToPoint
<1>11. ASSUME NEW s \in Nat \ {0}, NEW d \in Nat
       PROVE  DecodeToPoint(2 * s, d) = PlaceIn(s, DecodeToPoint(s, d), d \div (s * s))
  <2>1. (2 * s) \div 2 = s
    OBVIOUS
  <2>2. DecodeUpTo[s][d] = PlaceIn(s, DecodeUpTo[s \div 2][d], d \div (s * s))
    <3>1. s \in Nat /\ s # 0
      OBVIOUS
    <3>2. DecodeUpTo[s] = Body(DecodeUpTo)[s]
      BY <1>9
    <3> QED
      BY ONLY <3>1, <3>2, d \in Nat
  <2> QED
    BY <2>1, <2>2 DEF DecodeToPoint
<1> QED
  BY <1>10, <1>11

\* Induction over the powers of two.
LEMMA SizeInduction ==
  ASSUME NEW P \in SUBSET Nat, 1 \in P, \A n \in P : n # 0 => 2 * n \in P
  PROVE  \A k \in Nat : TwoTo[k] \in P /\ TwoTo[k] # 0
<1> DEFINE Q == {k \in Nat : TwoTo[k] \in P /\ TwoTo[k] # 0}
<1>1. 0 \in Q
  BY TwoToStep
<1>2. \A k \in Q : k + 1 \in Q
  BY TwoToStep
<1>3. \A k \in Nat : k \in Q
  <2>1. Q \in SUBSET Nat
    OBVIOUS
  <2> HIDE DEF Q
  <2> QED
    BY <1>1, <1>2, <2>1, Inductive
<1> QED
  BY <1>3

\* The sides a grid may have.
Sides == {TwoTo[k] : k \in Nat}

\* Points that differ by multiples of a side.
Congruent(u, p, n) ==
    \E i, j \in Int : u.x = p.x + n * i /\ u.y = p.y + n * j

\* Congruent points are rotated to congruent ones.
LEMMA RotateCongruent ==
  ASSUME NEW s \in Nat, NEW u \in Points, NEW p \in Points, Congruent(u, p, 2 * s),
         NEW rx \in {0, 1}, NEW ry \in {0, 1}
  PROVE  Congruent(Rotate(s, u, rx, ry), Rotate(s, p, rx, ry), s)
<1>1. PICK i, j \in Int : u.x = p.x + 2 * s * i /\ u.y = p.y + 2 * s * j
  BY DEF Congruent
<1>2. p.x \in Int /\ p.y \in Int /\ u.x \in Int /\ u.y \in Int
  BY DEF Points
<1>3. \A a, b, k \in Int : a = b + 2 * s * k => /\ a = b + s * (2 * k)
                                              /\ s - 1 - a = s - 1 - b + s * (-2 * k)
  OBVIOUS
<1>4. 2 * i \in Int /\ 2 * j \in Int /\ -2 * i \in Int /\ -2 * j \in Int
  OBVIOUS
<1>5. CASE ry = 1
  <2>1. u.x = p.x + s * (2 * i) /\ u.y = p.y + s * (2 * j)
    BY <1>1, <1>2, <1>3
  <2> QED
    BY <2>1, <1>4, <1>5 DEF Congruent, Rotate
<1>6. CASE ry = 0 /\ rx = 0
  <2>1. u.x = p.x + s * (2 * i) /\ u.y = p.y + s * (2 * j)
    BY <1>1, <1>2, <1>3
  <2>2. Rotate(s, u, rx, ry) = Cell(u.y, u.x) /\ Rotate(s, p, rx, ry) = Cell(p.y, p.x)
    BY <1>6 DEF Rotate, Reflect
  <2>3. /\ Rotate(s, u, rx, ry).x = Rotate(s, p, rx, ry).x + s * (2 * j)
        /\ Rotate(s, u, rx, ry).y = Rotate(s, p, rx, ry).y + s * (2 * i)
    BY ONLY <2>1, <2>2 DEF Cell
  <2> QED
    BY ONLY <2>3, <1>4 DEF Congruent
<1>7. CASE ry = 0 /\ rx = 1
  <2>1. /\ s - 1 - u.x = s - 1 - p.x + s * (-2 * i)
        /\ s - 1 - u.y = s - 1 - p.y + s * (-2 * j)
    BY <1>1, <1>2, <1>3
  <2>2. /\ Rotate(s, u, rx, ry) = Cell(s - 1 - u.y, s - 1 - u.x)
        /\ Rotate(s, p, rx, ry) = Cell(s - 1 - p.y, s - 1 - p.x)
    BY <1>7 DEF Rotate, Reflect, Cell
  <2>3. /\ Rotate(s, u, rx, ry).x = Rotate(s, p, rx, ry).x + s * (-2 * j)
        /\ Rotate(s, u, rx, ry).y = Rotate(s, p, rx, ry).y + s * (-2 * i)
    BY ONLY <2>1, <2>2 DEF Cell
  <2> QED
    BY ONLY <2>3, <1>4 DEF Congruent
<1> QED
  BY <1>5, <1>6, <1>7

\* Encode does not see the bits from n on up.
LEMMA EncodePeriodic ==
  \A n \in Sides : \A u, p \in Points :
      Congruent(u, p, n) => Encode(u, n) = Encode(p, n)
<1> DEFINE Same(s) == \A u, p \in Points : Congruent(u, p, s) => Encode(u, s) = Encode(p, s)
           P == {s \in Nat : Same(s)}
<1>1. 1 \in P
  BY EncodeStep
<1>2. ASSUME NEW s \in P, s # 0 PROVE 2 * s \in P
  <2>1. s \in Nat \ {0} /\ Same(s)
    BY <1>2
  <2> SUFFICES ASSUME NEW u \in Points, NEW p \in Points, Congruent(u, p, 2 * s)
               PROVE  Encode(u, 2 * s) = Encode(p, 2 * s)
    BY <2>1
  <2> HIDE DEF P
  <2> DEFINE rx == Bit(p.x, s)
             ry == Bit(p.y, s)
  <2>2. Bit(u.x, s) = rx /\ Bit(u.y, s) = ry
    <3>1. PICK i, j \in Int : u.x = p.x + 2 * s * i /\ u.y = p.y + 2 * s * j
      BY DEF Congruent
    <3>2. p.x \in Int /\ p.y \in Int
      BY DEF Points
    <3>3. Bit(p.x + 2 * s * i, s) = Bit(p.x, s)
      BY ONLY <2>1, <3>1, <3>2, BitPeriodic
    <3>4. Bit(p.y + 2 * s * j, s) = Bit(p.y, s)
      BY ONLY <2>1, <3>1, <3>2, BitPeriodic
    <3> QED
      BY ONLY <3>1, <3>3, <3>4
  <2>3. rx \in {0, 1} /\ ry \in {0, 1}
    <3>1. p.x \in Int /\ p.y \in Int
      BY DEF Points
    <3> QED
      BY <2>1, <3>1, BitOf
  <2>4. Encode(u, 2 * s) = s * s * Quarter(rx, ry) + Encode(Rotate(s, u, rx, ry), s)
    BY <2>1, <2>2, EncodeStep
  <2>5. Encode(p, 2 * s) = s * s * Quarter(rx, ry) + Encode(Rotate(s, p, rx, ry), s)
    BY <2>1, <2>2, EncodeStep
  <2> HIDE DEF rx, ry
  <2>6. Congruent(Rotate(s, u, rx, ry), Rotate(s, p, rx, ry), s)
    BY <2>1, <2>3, RotateCongruent
  <2>7. Rotate(s, u, rx, ry) \in Points /\ Rotate(s, p, rx, ry) \in Points
    BY <2>1, <2>3, RotateIn
  <2> QED
    BY <2>1, <2>4, <2>5, <2>6, <2>7
<1>3. \A n \in Sides : n \in P
  <2>1. P \in SUBSET Nat
    OBVIOUS
  <2> HIDE DEF P
  <2> QED
    BY <1>1, <1>2, <2>1, SizeInduction DEF Sides
<1> QED
  BY <1>3

\* Nor does DecodeToPoint, in d.
LEMMA DecodePeriodic ==
  \A n \in Sides : \A d, m \in Nat :
      DecodeToPoint(n, d + n * n * m) = DecodeToPoint(n, d)
<1> DEFINE Same(s) == \A d, m, e \in Nat :
               e = d + s * s * m => DecodeToPoint(s, e) = DecodeToPoint(s, d)
           P == {s \in Nat : Same(s)}
<1>1. 1 \in P
  BY DecodeStep
<1>2. ASSUME NEW s \in P, s # 0 PROVE 2 * s \in P
  <2>1. s \in Nat \ {0} /\ Same(s)
    BY <1>2
  <2> SUFFICES ASSUME NEW d \in Nat, NEW m \in Nat, NEW e \in Nat,
                      e = d + (2 * s) * (2 * s) * m
               PROVE  DecodeToPoint(2 * s, e) = DecodeToPoint(2 * s, d)
    BY <2>1
  <2> HIDE DEF P
  <2> DEFINE q == s * s
             t == d \div q
             r == d % q
  <2>2. q \in Nat \ {0}
    BY <2>1
  <2>3. e = d + q * (4 * m)
    BY <2>1
  <2>4. DecodeToPoint(s, e) = DecodeToPoint(s, d)
    <3>1. 4 * m \in Nat
      OBVIOUS
    <3> QED
      BY <2>1, <2>3, <3>1
  <2> HIDE DEF q
  <2>5. t \in Int /\ r \in 0..(q - 1) /\ d = q * t + r
    BY <2>2, DivMod
  <2> HIDE DEF t, r
  <2>6. t \in Nat
    <3>1. ASSUME t < 0 PROVE FALSE
      <4>1. q * t <= q * (-1)
        BY <3>1, <2>5, <2>2
      <4> QED
        BY <4>1, <2>5, <2>2
    <3> QED
      BY <3>1, <2>5
  <2>7. e = q * (t + 4 * m) + r
    BY <2>3, <2>5, <2>2
  <2>8. t + 4 * m \in Int
    BY <2>5
  <2>9. e \div q = t + 4 * m
    BY ONLY <2>2, <2>5, <2>7, <2>8, DivUnique
  <2>10. \A p : PlaceIn(s, p, t + 4 * m) = PlaceIn(s, p, t)
    <3>1. ((t + 4 * m) \div 2) % 2 = (t \div 2) % 2
      BY <2>6
    <3>2. \A x \in {0, 1} : (t + 4 * m + x) % 2 = (t + x) % 2
      BY <2>6
    <3>3. (t \div 2) % 2 \in {0, 1}
      BY <2>6
    <3> QED
      BY <3>1, <3>2, <3>3 DEF PlaceIn
  <2>11. d \div q = t
    BY DEF t
  <2>12. /\ DecodeToPoint(2 * s, e) = PlaceIn(s, DecodeToPoint(s, e), e \div q)
         /\ DecodeToPoint(2 * s, d) = PlaceIn(s, DecodeToPoint(s, d), d \div q)
    BY <2>1, DecodeStep DEF q
  <2> QED
    BY <2>4, <2>9, <2>10, <2>11, <2>12
<1>3. \A n \in Sides : n \in P
  <2>1. P \in SUBSET Nat
    OBVIOUS
  <2> HIDE DEF P
  <2> QED
    BY <1>1, <1>2, <2>1, SizeInduction DEF Sides
<1>4. \A n \in Sides : n \in Nat
  BY <1>3
<1>5. ASSUME NEW n \in Sides, NEW d \in Nat, NEW m \in Nat
      PROVE  DecodeToPoint(n, d + n * n * m) = DecodeToPoint(n, d)
  <2>1. d + n * n * m \in Nat
    BY <1>4
  <2>2. Same(n)
    BY <1>3
  <2> QED
    BY <2>1, <2>2
<1> QED
  BY <1>5

-----------------------------------------------------------------------------
(* The curve *)

\* Where the j-th quarter of a square of side 2 * s has the point p.
InQuarter(s, j, p) ==
    CASE j = 0 -> Cell(p.y, p.x)
      [] j = 1 -> Cell(p.x, p.y + s)
      [] j = 2 -> Cell(p.x + s, p.y + s)
      [] j = 3 -> Cell(2 * s - 1 - p.y, s - 1 - p.x)

\* One is a side, and twice a side is.
LEMMA SidesDouble ==
  /\ \A n \in Sides : n \in Nat \ {0}
  /\ 1 \in Sides
  /\ \A n \in Sides : 2 * n \in Sides
<1>1. \A k \in Nat : TwoTo[k] \in Nat /\ TwoTo[k] # 0
  <2> DEFINE P == Nat \ {0}
  <2>1. P \in SUBSET Nat /\ 1 \in P /\ \A n \in P : n # 0 => 2 * n \in P
    OBVIOUS
  <2> HIDE DEF P
  <2>2. \A k \in Nat : TwoTo[k] \in P /\ TwoTo[k] # 0
    BY <2>1, SizeInduction
  <2> QED
    BY <2>2 DEF P
<1>2. 1 \in Sides
  <2>1. 0 \in Nat /\ TwoTo[0] = 1
    BY TwoToStep
  <2> QED
    BY <2>1 DEF Sides
<1>3. \A n \in Sides : 2 * n \in Sides
  <2> SUFFICES ASSUME NEW k \in Nat PROVE 2 * TwoTo[k] \in Sides
    BY DEF Sides
  <2>1. k + 1 \in Nat /\ TwoTo[k + 1] = 2 * TwoTo[k]
    BY TwoToStep
  <2> QED
    BY <2>1 DEF Sides
<1> QED
  BY <1>1, <1>2, <1>3 DEF Sides

\* Induction over the sides.
LEMMA SidesInduction ==
  ASSUME NEW P \in SUBSET Sides, 1 \in P, \A s \in P : 2 * s \in P
  PROVE  \A n \in Sides : n \in P
<1>1. P \in SUBSET Nat
  BY SidesDouble
<1>2. \A k \in Nat : TwoTo[k] \in P
  BY <1>1, SizeInduction
<1> QED
  BY <1>2 DEF Sides

\* The last digit of a number is the quarter its cell is in.
LEMMA PlaceInQuarter ==
  ASSUME NEW s \in Nat, NEW j \in 0..3, NEW p \in Points
  PROVE  PlaceIn(s, p, j) = InQuarter(s, j, p)
<1>1. p.x \in Int /\ p.y \in Int
  BY DEF Points
<1>2. CASE j = 0
  <2>1. (j \div 2) % 2 = 0 /\ (j + 0) % 2 = 0
    BY <1>2
  <2> QED
    BY <1>1, <1>2, <2>1 DEF PlaceIn, InQuarter, Rotate, Reflect, Cell
<1>3. CASE j = 1
  <2>1. (j \div 2) % 2 = 0 /\ (j + 0) % 2 = 1
    BY <1>3
  <2> QED
    BY <1>1, <1>3, <2>1 DEF PlaceIn, InQuarter, Rotate, Reflect, Cell
<1>4. CASE j = 2
  <2>1. (j \div 2) % 2 = 1 /\ (j + 1) % 2 = 1
    BY <1>4
  <2> QED
    BY <1>1, <1>4, <2>1 DEF PlaceIn, InQuarter, Rotate, Reflect, Cell
<1>5. CASE j = 3
  <2>1. (j \div 2) % 2 = 1 /\ (j + 1) % 2 = 0
    BY <1>5
  <2> QED
    BY <1>1, <1>5, <2>1 DEF PlaceIn, InQuarter, Rotate, Reflect, Cell
<1> QED
  BY <1>2, <1>3, <1>4, <1>5

\* DecodeToPoint puts the j-th quarter of the numbers in the j-th quarter.
LEMMA DecodeQuarter ==
  ASSUME NEW s \in Sides, NEW j \in 0..3, NEW r \in 0..(s * s - 1),
         DecodeToPoint(s, r) \in Points
  PROVE  DecodeToPoint(2 * s, s * s * j + r) = InQuarter(s, j, DecodeToPoint(s, r))
<1> DEFINE q == s * s
<1>1. s \in Nat \ {0} /\ q \in Nat \ {0} /\ r \in Nat
  BY SidesDouble
<1>2. q * j + r \in Nat
  BY <1>1
<1>3. DecodeToPoint(2 * s, q * j + r)
        = PlaceIn(s, DecodeToPoint(s, q * j + r), (q * j + r) \div q)
  BY <1>1, <1>2, DecodeStep
<1>4. (q * j + r) \div q = j
  <2>1. r \in 0..(q - 1) /\ j \in Int
    OBVIOUS
  <2> HIDE DEF q
  <2> QED
    BY ONLY <1>1, <2>1, DivUnique
<1>5. DecodeToPoint(s, q * j + r) = DecodeToPoint(s, r)
  <2>1. j \in Nat /\ q * j + r = r + s * s * j
    BY <1>1
  <2>2. DecodeToPoint(s, r + s * s * j) = DecodeToPoint(s, r)
    BY ONLY <2>1, <1>1, s \in Sides, DecodePeriodic
  <2> HIDE DEF q
  <2> QED
    BY ONLY <2>1, <2>2
<1> QED
  BY <1>1, <1>3, <1>4, <1>5, PlaceInQuarter

\* Every curve number is a quarter's digit and a number within the quarter.
LEMMA Digits ==
  ASSUME NEW s \in Sides, NEW d \in 0..((2 * s) * (2 * s) - 1)
  PROVE  \E j \in 0..3, r \in 0..(s * s - 1) : d = s * s * j + r
<1> DEFINE q == s * s
           j == d \div q
           r == d % q
<1>1. s \in Nat \ {0} /\ q \in Nat \ {0}
  BY SidesDouble
<1>2. d \in Nat /\ d < 4 * q
  BY <1>1
<1> HIDE DEF q
<1>3. j \in Int /\ r \in 0..(q - 1) /\ d = q * j + r
  BY <1>1, <1>2, DivMod
<1> HIDE DEF j, r
<1>4. j \in 0..3
  <2>1. ASSUME j < 0 PROVE FALSE
    <3>1. q * j <= q * (-1)
      BY <2>1, <1>3, <1>1
    <3> QED
      BY <3>1, <1>1, <1>2, <1>3
  <2>2. ASSUME j > 3 PROVE FALSE
    <3>1. q * j >= q * 4
      BY <2>2, <1>3, <1>1
    <3> QED
      BY <3>1, <1>1, <1>2, <1>3
  <2> QED
    BY <2>1, <2>2, <1>3
<1> QED
  BY <1>3, <1>4 DEF q

\* The quarters of a grid are in it.
LEMMA InQuarterIn ==
  ASSUME NEW s \in Nat \ {0}, NEW j \in 0..3, NEW p \in Grid(s)
  PROVE  InQuarter(s, j, p) \in Grid(2 * s)
<1>1. p.x \in 0..(s - 1) /\ p.y \in 0..(s - 1)
  BY DEF Grid, Cell
<1>2. \A u, v \in 0..(s - 1) : /\ u \in 0..(2 * s - 1) /\ u + s \in 0..(2 * s - 1)
                               /\ 2 * s - 1 - v \in 0..(2 * s - 1)
                               /\ s - 1 - u \in 0..(2 * s - 1)
  OBVIOUS
<1>3. \A u, v \in 0..(2 * s - 1) : Cell(u, v) \in Grid(2 * s)
  BY DEF Grid
<1> QED
  BY <1>1, <1>2, <1>3 DEF InQuarter

\* The cells of a grid are points.
LEMMA GridPoints ==
  ASSUME NEW n \in Nat, NEW p
  PROVE  p \in Grid(n) <=>
            p \in Points /\ p.x \in 0..(n - 1) /\ p.y \in 0..(n - 1)
BY DEF Grid, Points, Cell

\* Encode reads off the quarter a point lies in.
LEMMA EncodeQuarter ==
  ASSUME NEW s \in Sides, NEW j \in 0..3, NEW p \in Grid(s)
  PROVE  Encode(InQuarter(s, j, p), 2 * s) = s * s * j + Encode(p, s)
<1> DEFINE c == InQuarter(s, j, p)
           rx == Bit(c.x, s)
           ry == Bit(c.y, s)
<1>1. s \in Nat \ {0}
  BY SidesDouble
<1>2. p \in Points /\ p.x \in 0..(s - 1) /\ p.y \in 0..(s - 1)
  BY <1>1, GridPoints
<1>3. c \in Points
  <2>1. 2 * s \in Nat /\ c \in Grid(2 * s)
    BY <1>1, InQuarterIn
  <2> QED
    BY <2>1, GridPoints
<1>4. Encode(c, 2 * s) = s * s * Quarter(rx, ry) + Encode(Rotate(s, c, rx, ry), s)
  BY <1>1, <1>3, EncodeStep
<1>5. \A v \in 0..(s - 1) : Bit(v, s) = 0 /\ Bit(v + s, s) = 1
  <2> SUFFICES ASSUME NEW v \in 0..(s - 1) PROVE Bit(v, s) = 0 /\ Bit(v + s, s) = 1
    OBVIOUS
  <2>1. s * 0 + v = v /\ s * 1 + v = v + s
    BY <1>1
  <2>2. \A a \in Int : Bit(s * a + v, s) = a % 2
    BY <1>1, BitLow
  <2>3. Bit(s * 0 + v, s) = 0 % 2 /\ Bit(s * 1 + v, s) = 1 % 2
    <3>1. 0 \in Int /\ 1 \in Int
      OBVIOUS
    <3> QED
      BY <2>2, <3>1, Zenon
  <2> QED
    BY <2>1, <2>3
<1>6. /\ Quarter(rx, ry) = j
      /\ Rotate(s, c, rx, ry) \in Points
      /\ Congruent(Rotate(s, c, rx, ry), p, s)
  <2>0. 0 \in Int /\ 1 \in Int /\ -1 \in Int
    OBVIOUS
  <2>1. CASE j = 0
    <3>1. c = Cell(p.y, p.x)
      BY <2>1 DEF InQuarter
    <3>2. rx = 0 /\ ry = 0
      BY <3>1, <1>2, <1>5 DEF Cell
    <3> HIDE DEF c, rx, ry
    <3>3. Rotate(s, c, rx, ry) = Cell(p.x, p.y)
      BY <3>1, <3>2 DEF Rotate, Reflect, Cell
    <3>4. p.x = p.x + s * 0 /\ p.y = p.y + s * 0
      BY <1>1, <1>2
    <3> QED
      BY <2>0, <2>1, <3>2, <3>3, <3>4, <1>2 DEF Congruent, Quarter, Cell, Points
  <2>2. CASE j = 1
    <3>1. c = Cell(p.x, p.y + s)
      BY <2>2 DEF InQuarter
    <3>2. rx = 0 /\ ry = 1
      BY <3>1, <1>2, <1>5 DEF Cell
    <3> HIDE DEF c, rx, ry
    <3>3. Rotate(s, c, rx, ry) = Cell(p.x, p.y + s)
      BY <3>1, <3>2 DEF Rotate
    <3>4. p.x = p.x + s * 0 /\ p.y + s = p.y + s * 1 /\ p.y + s \in Int
      BY <1>1, <1>2
    <3> QED
      BY <2>0, <2>2, <3>2, <3>3, <3>4, <1>2 DEF Congruent, Quarter, Cell, Points
  <2>3. CASE j = 2
    <3>1. c = Cell(p.x + s, p.y + s)
      BY <2>3 DEF InQuarter
    <3>2. rx = 1 /\ ry = 1
      BY <3>1, <1>2, <1>5 DEF Cell
    <3> HIDE DEF c, rx, ry
    <3>3. Rotate(s, c, rx, ry) = Cell(p.x + s, p.y + s)
      BY <3>1, <3>2 DEF Rotate
    <3>4. /\ p.x + s = p.x + s * 1 /\ p.x + s \in Int
          /\ p.y + s = p.y + s * 1 /\ p.y + s \in Int
      BY <1>1, <1>2
    <3> QED
      BY <2>0, <2>3, <3>2, <3>3, <3>4, <1>2 DEF Congruent, Quarter, Cell, Points
  <2>4. CASE j = 3
    <3>1. c = Cell((s - 1 - p.y) + s, s - 1 - p.x)
      BY <2>4, <1>1, <1>2 DEF InQuarter, Cell
    <3>2. rx = 1 /\ ry = 0
      <4>1. s - 1 - p.y \in 0..(s - 1) /\ s - 1 - p.x \in 0..(s - 1)
        BY <1>1, <1>2
      <4> QED
        BY <3>1, <4>1, <1>5 DEF Cell
    <3> HIDE DEF c, rx, ry
    <3>3. Rotate(s, c, rx, ry) = Cell(p.x, p.y - s)
      BY <3>1, <3>2, <1>1, <1>2 DEF Rotate, Reflect, Cell
    <3>4. p.x = p.x + s * 0 /\ p.y - s = p.y + s * (-1) /\ p.y - s \in Int
      BY <1>1, <1>2
    <3> QED
      BY <2>0, <2>4, <3>2, <3>3, <3>4, <1>2 DEF Congruent, Quarter, Cell, Points
  <2> QED
    BY <2>1, <2>2, <2>3, <2>4
<1> HIDE DEF rx, ry
<1>7. Encode(Rotate(s, c, rx, ry), s) = Encode(p, s)
  BY <1>2, <1>6, EncodePeriodic
<1> QED
  BY <1>4, <1>6, <1>7

\* DecodeToPoint gives cells of the grid, and Encode inverts it.
LEMMA DecodeInverts ==
  \A n \in Sides : \A d \in 0..(n * n - 1) :
      DecodeToPoint(n, d) \in Grid(n) /\ Encode(DecodeToPoint(n, d), n) = d
<1> DEFINE Good(n) == \A d \in 0..(n * n - 1) :
                DecodeToPoint(n, d) \in Grid(n) /\ Encode(DecodeToPoint(n, d), n) = d
           P == {n \in Sides : Good(n)}
<1>1. 1 \in P
  <2> SUFFICES ASSUME NEW d \in 0..(1 * 1 - 1)
               PROVE  DecodeToPoint(1, d) \in Grid(1) /\ Encode(DecodeToPoint(1, d), 1) = d
    BY SidesDouble
  <2>1. d = 0
    OBVIOUS
  <2>2. Cell(0, 0) \in Points /\ Cell(0, 0) \in Grid(1)
    BY DEF Cell, Points, Grid
  <2> QED
    BY <2>1, <2>2, DecodeStep, EncodeStep
<1>2. ASSUME NEW s \in P PROVE 2 * s \in P
  <2>1. s \in Sides /\ s \in Nat \ {0} /\ Good(s) /\ 2 * s \in Sides
    BY SidesDouble
  <2> SUFFICES ASSUME NEW d \in 0..((2 * s) * (2 * s) - 1)
               PROVE  /\ DecodeToPoint(2 * s, d) \in Grid(2 * s)
                      /\ Encode(DecodeToPoint(2 * s, d), 2 * s) = d
    BY <2>1
  <2>2. PICK j \in 0..3, r \in 0..(s * s - 1) : d = s * s * j + r
    BY <2>1, Digits
  <2> HIDE DEF P
  <2> DEFINE p == DecodeToPoint(s, r)
  <2>3. p \in Grid(s) /\ Encode(p, s) = r
    BY <2>1
  <2> HIDE DEF Good
  <2>4. p \in Points
    BY <2>1, <2>3, GridPoints
  <2>5. DecodeToPoint(2 * s, d) = InQuarter(s, j, p)
    BY <2>1, <2>2, <2>4, DecodeQuarter
  <2> HIDE DEF p
  <2> QED
    BY <2>1, <2>2, <2>3, <2>5, InQuarterIn, EncodeQuarter
<1>3. P \in SUBSET Sides
  OBVIOUS
<1> HIDE DEF P
<1>4. \A n \in Sides : n \in P
  BY <1>1, <1>2, <1>3, SidesInduction
<1> QED
  BY <1>4 DEF P

\* The curve starts in the lower left corner and ends in the lower right one.
Ends(n) == DecodeToPoint(n, 0) = Cell(0, 0) /\ DecodeToPoint(n, n * n - 1) = Cell(n - 1, 0)

\* It does on every grid.
LEMMA CurveEnds ==
  \A n \in Sides : Ends(n)
<1> DEFINE P == {n \in Sides : Ends(n)}
<1>1. 1 \in P
  <2>1. 1 * 1 - 1 = 0 /\ 1 - 1 = 0
    OBVIOUS
  <2>2. Ends(1)
    BY <2>1, DecodeStep DEF Ends
  <2> QED
    BY <2>2, SidesDouble
<1>2. ASSUME NEW s \in P PROVE 2 * s \in P
  <2>1. s \in Sides /\ s \in Nat \ {0} /\ Ends(s) /\ 2 * s \in Sides
    BY SidesDouble
  <2>2. 0 \in 0..(s * s - 1) /\ s * s - 1 \in 0..(s * s - 1)
    BY <2>1
  <2>3. /\ 0 = s * s * 0 + 0
        /\ (2 * s) * (2 * s) - 1 = s * s * 3 + (s * s - 1)
    BY <2>1
  <2>4. Cell(0, 0) \in Points /\ Cell(s - 1, 0) \in Points
    BY <2>1 DEF Cell, Points
  <2>5. DecodeToPoint(2 * s, 0) = InQuarter(s, 0, Cell(0, 0))
    <3>1. DecodeToPoint(s, 0) = Cell(0, 0)
      BY <2>1 DEF Ends
    <3>2. DecodeToPoint(2 * s, s * s * 0 + 0) = InQuarter(s, 0, Cell(0, 0))
      BY <2>1, <2>2, <2>4, <3>1, DecodeQuarter
    <3> QED
      BY <3>2, <2>3
  <2>6. DecodeToPoint(2 * s, (2 * s) * (2 * s) - 1) = InQuarter(s, 3, Cell(s - 1, 0))
    <3>1. DecodeToPoint(s, s * s - 1) = Cell(s - 1, 0)
      BY <2>1 DEF Ends
    <3>2. DecodeToPoint(2 * s, s * s * 3 + (s * s - 1)) = InQuarter(s, 3, Cell(s - 1, 0))
      BY <2>1, <2>2, <2>4, <3>1, DecodeQuarter
    <3> QED
      BY <3>2, <2>3
  <2>7. InQuarter(s, 0, Cell(0, 0)) = Cell(0, 0)
    BY DEF InQuarter, Cell
  <2>8. InQuarter(s, 3, Cell(s - 1, 0)) = Cell(2 * s - 1, 0)
    BY <2>1 DEF InQuarter, Cell
  <2>9. Ends(2 * s)
    BY <2>5, <2>6, <2>7, <2>8 DEF Ends
  <2> QED
    BY <2>1, <2>9
<1>3. P \in SUBSET Sides
  OBVIOUS
<1> HIDE DEF P
<1>4. \A n \in Sides : n \in P
  BY <1>1, <1>2, <1>3, SidesInduction
<1> QED
  BY <1>4 DEF P

\* Within a quarter steps stay steps.
LEMMA QuarterSquared ==
  ASSUME NEW s \in Nat, NEW j \in 0..3, NEW p \in Points, NEW u \in Points
  PROVE  Squared(InQuarter(s, j, p), InQuarter(s, j, u)) = Squared(p, u)
<1>1. p.x \in Int /\ p.y \in Int /\ u.x \in Int /\ u.y \in Int
  BY DEF Points
<1>2. \A a, b, c \in Int : /\ (a + c) - (b + c) = a - b
                          /\ (c - a) - (c - b) = b - a
                          /\ (b - a) * (b - a) = (a - b) * (a - b)
  OBVIOUS
<1>3. CASE j = 0
  BY <1>1, <1>3 DEF InQuarter, Cell, Squared
<1>4. CASE j = 1
  BY <1>1, <1>4 DEF InQuarter, Cell, Squared
<1>5. CASE j = 2
  BY <1>1, <1>5 DEF InQuarter, Cell, Squared
<1>6. CASE j = 3
  BY <1>1, <1>6 DEF InQuarter, Cell, Squared
<1> QED
  BY <1>3, <1>4, <1>5, <1>6

\* The curve goes from cell to adjacent cell, also from quarter to quarter.
LEMMA CurveSteps ==
  \A n \in Sides : \A d \in 1..(n * n - 1) :
      Squared(DecodeToPoint(n, d), DecodeToPoint(n, d - 1)) = 1
<1> DEFINE Steps(n) == \A d \in 1..(n * n - 1) :
                Squared(DecodeToPoint(n, d), DecodeToPoint(n, d - 1)) = 1
           P == {n \in Sides : Steps(n)}
<1>1. 1 \in P
  BY SidesDouble
<1>2. ASSUME NEW s \in P PROVE 2 * s \in P
  <2>1. s \in Sides /\ s \in Nat \ {0} /\ Steps(s) /\ 2 * s \in Sides
    BY SidesDouble
  <2> SUFFICES ASSUME NEW d \in 1..((2 * s) * (2 * s) - 1)
               PROVE  Squared(DecodeToPoint(2 * s, d), DecodeToPoint(2 * s, d - 1)) = 1
    BY <2>1
  <2> HIDE DEF P
  <2>2. PICK j \in 0..3, r \in 0..(s * s - 1) : d = s * s * j + r
    <3>1. d \in 0..((2 * s) * (2 * s) - 1)
      OBVIOUS
    <3> QED
      BY <2>1, <3>1, Digits
  <2>3. \A e \in 0..(s * s - 1) : DecodeToPoint(s, e) \in Points
    BY <2>1, DecodeInverts, GridPoints
  <2>4. DecodeToPoint(2 * s, d) = InQuarter(s, j, DecodeToPoint(s, r))
    BY <2>1, <2>2, <2>3, DecodeQuarter
  <2>5. CASE r > 0
    <3>1. r \in 1..(s * s - 1) /\ r - 1 \in 0..(s * s - 1) /\ d - 1 = s * s * j + (r - 1)
      BY <2>1, <2>2, <2>5
    <3>2. DecodeToPoint(2 * s, d - 1) = InQuarter(s, j, DecodeToPoint(s, r - 1))
      BY <2>1, <2>3, <3>1, DecodeQuarter
    <3>3. Squared(DecodeToPoint(s, r), DecodeToPoint(s, r - 1)) = 1
      BY <2>1, <3>1
    <3> QED
      BY <2>1, <2>3, <2>4, <3>1, <3>2, <3>3, QuarterSquared
  <2>6. CASE r = 0
    <3> DEFINE q == s * s
    <3>1. q \in Nat \ {0} /\ d = q * j + 0 /\ d > 0
      BY <2>1, <2>2, <2>6
    <3>2. j \in 1..3
      BY <3>1
    <3>3. j - 1 \in 0..3 /\ q - 1 \in 0..(q - 1) /\ d - 1 = q * (j - 1) + (q - 1)
      <4> HIDE DEF q
      <4>1. q * (j - 1) = q * j - q
        BY <3>1, <3>2
      <4> QED
        BY <3>1, <3>2, <4>1
    <3>4. DecodeToPoint(2 * s, d - 1) = InQuarter(s, j - 1, DecodeToPoint(s, q - 1))
      <4>1. DecodeToPoint(s, q - 1) \in Points
        BY <2>3, <3>3
      <4> QED
        BY <2>1, <3>3, <4>1, DecodeQuarter
    <3>5. DecodeToPoint(s, q - 1) = Cell(s - 1, 0) /\ DecodeToPoint(s, 0) = Cell(0, 0)
      BY <2>1, CurveEnds DEF Ends
    <3>6. /\ DecodeToPoint(2 * s, d - 1) = InQuarter(s, j - 1, Cell(s - 1, 0))
          /\ DecodeToPoint(2 * s, d) = InQuarter(s, j, Cell(0, 0))
      BY <2>4, <2>6, <3>4, <3>5
    <3>7. CASE j = 1
      <4>1. /\ InQuarter(s, 0, Cell(s - 1, 0)) = Cell(0, s - 1)
            /\ InQuarter(s, 1, Cell(0, 0)) = Cell(0, s)
        BY <2>1 DEF InQuarter, Cell
      <4>2. Squared(Cell(0, s), Cell(0, s - 1)) = 1
        BY <2>1 DEF Squared, Cell
      <4> QED
        BY <3>6, <3>7, <4>1, <4>2
    <3>8. CASE j = 2
      <4>1. /\ InQuarter(s, 1, Cell(s - 1, 0)) = Cell(s - 1, s)
            /\ InQuarter(s, 2, Cell(0, 0)) = Cell(s, s)
        BY <2>1 DEF InQuarter, Cell
      <4>2. Squared(Cell(s, s), Cell(s - 1, s)) = 1
        BY <2>1 DEF Squared, Cell
      <4> QED
        BY <3>6, <3>8, <4>1, <4>2
    <3>9. CASE j = 3
      <4>1. /\ InQuarter(s, 2, Cell(s - 1, 0)) = Cell(2 * s - 1, s)
            /\ InQuarter(s, 3, Cell(0, 0)) = Cell(2 * s - 1, s - 1)
        BY <2>1 DEF InQuarter, Cell
      <4>2. Squared(Cell(2 * s - 1, s - 1), Cell(2 * s - 1, s)) = 1
        BY <2>1 DEF Squared, Cell
      <4> QED
        BY <3>6, <3>9, <4>1, <4>2
    <3> QED
      BY <3>2, <3>7, <3>8, <3>9
  <2> QED
    BY <2>2, <2>5, <2>6
<1>3. P \in SUBSET Sides
  OBVIOUS
<1> HIDE DEF P
<1>4. \A n \in Sides : n \in P
  BY <1>1, <1>2, <1>3, SidesInduction
<1> QED
  BY <1>4 DEF P

-----------------------------------------------------------------------------
(* SplitQuad *)

\* The rotations of SplitQuadA..D.
Rotations == {"A", "B", "C", "D"}

\* The part of an interval in a half of a square is of naturals.
LEMMA AxisIn ==
  ASSUME NEW lo \in Nat, NEW len \in Nat, NEW half \in Nat, NEW far \in {0, 1},
         Meets(lo, len, half, far)
  PROVE  Start(lo, half, far) \in Nat /\ Length(lo, len, half, far) \in Nat
BY DEF Meets, Start, Length

\* The k-th quarter of each rotation: where it lies, and its own rotation.
LEMMA QuarterTable ==
  ASSUME NEW rot \in Rotations, NEW k \in 1..4
  PROVE  /\ Quarters[rot][k][1] \in {0, 1} /\ Quarters[rot][k][2] \in {0, 1}
         /\ Quarters[rot][k][3] \in Rotations
<1>1. CASE rot = "A"
  BY <1>1 DEF Quarters, Rotations, West, East, South, North
<1>2. CASE rot = "B"
  BY <1>2 DEF Quarters, Rotations, West, East, South, North
<1>3. CASE rot = "C"
  BY <1>3 DEF Quarters, Rotations, West, East, South, North
<1>4. CASE rot = "D"
  BY <1>4 DEF Quarters, Rotations, West, East, South, North
<1> QED
  BY <1>1, <1>2, <1>3, <1>4 DEF Rotations

\* So is the part of a box in a quarter.
LEMMA SubQuadIn ==
  ASSUME NEW square \in Squares, NEW half \in Nat, NEW k \in 1..4,
         Touches(square, half, k)
  PROVE  SubQuad(square, half, k) \in Squares
<1> DEFINE b == square.box
           quarter == Quarters[square.rotation][k]
           east == quarter[1]
           north == quarter[2]
<1>1. /\ square.rotation \in Rotations /\ square.min \in Nat
      /\ b.x \in Nat /\ b.y \in Nat /\ b.p \in Nat /\ b.q \in Nat
  BY DEF Squares, Rotations
<1>2. east \in {0, 1} /\ north \in {0, 1} /\ quarter[3] \in Rotations
  BY <1>1, QuarterTable
<1>3. Meets(b.x, b.q, half, east) /\ Meets(b.y, b.p, half, north)
  BY DEF Touches
<1> HIDE DEF quarter, b
<1>4. /\ Start(b.x, half, east) \in Nat /\ Length(b.x, b.q, half, east) \in Nat
      /\ Start(b.y, half, north) \in Nat /\ Length(b.y, b.p, half, north) \in Nat
  BY <1>1, <1>2, <1>3, AxisIn
<1>5. square.min + half * half * (k - 1) \in Nat
  <2>1. half * half \in Nat /\ k - 1 \in Nat
    OBVIOUS
  <2> QED
    BY <2>1, <1>1
<1>6. SubQuad(square, half, k) =
        [rotation |-> quarter[3],
         min |-> square.min + half * half * (k - 1),
         box |-> [x |-> Start(b.x, half, east), y |-> Start(b.y, half, north),
                  p |-> Length(b.y, b.p, half, north), q |-> Length(b.x, b.q, half, east)]]
  BY DEF SubQuad, quarter, b
<1> QED
  BY <1>2, <1>4, <1>5, <1>6 DEF Squares, Rotations

\* AddRange makes ranges of ranges.
LEMMA AddRangeIn ==
  ASSUME NEW L \in RangeLists, NEW r \in Nat \X Nat
  PROVE  AddRange(L, r) \in RangeLists
<1> DEFINE T == Nat \X Nat
<1>1. L \in Seq(T) /\ r \in T
  BY DEF RangeLists
<1>2. CASE L # << >>
  <2>1. Len(L) \in Nat /\ Len(L) > 0
    <3> HIDE DEF T
    <3> QED
      BY <1>1, <1>2
  <2>2. L[Len(L)] \in T
    <3> HIDE DEF T
    <3> QED
      BY <1>1, <2>1
  <2>3. <<L[Len(L)][1], r[2]>> \in T
    BY <1>1, <2>2
  <2> HIDE DEF T
  <2>4. SubSeq(L, 1, Len(L) - 1) \in Seq(T)
    BY <1>1, <2>1
  <2>5. SubSeq(L, 1, Len(L) - 1) \o << <<L[Len(L)][1], r[2]>> >> \in Seq(T)
    BY ONLY <2>3, <2>4
  <2>6. Append(L, r) \in Seq(T)
    BY <1>1
  <2> QED
    BY <2>5, <2>6 DEF AddRange, RangeLists, Last, Front, T
<1>3. CASE L = << >>
  <2>1. AddRange(L, r) = Append(L, r)
    BY <1>3 DEF AddRange
  <2> HIDE DEF T
  <2>2. Append(L, r) \in Seq(T)
    BY <1>1
  <2> QED
    BY <2>1, <2>2 DEF RangeLists, T
<1> QED
  BY <1>2, <1>3

\* The part of SplitQuad that one quarter does.
Into(t, square, k, L) ==
    IF Touches(square, t, k) THEN SplitQuad[t][SubQuad(square, t, k)][L] ELSE L

\* SplitQuad, unfolded once.
LEMMA SplitQuadStep ==
  \A s \in Nat \ {0}, q \in Squares, L \in RangeLists :
        SplitQuad[s][q][L] =
             IF s = q.box.p /\ s = q.box.q
             THEN AddRange(L, <<q.min, q.min + s * s - 1>>)
             ELSE IF s <= 1 THEN L
             ELSE Into(s \div 2, q, 4, Into(s \div 2, q, 3,
                    Into(s \div 2, q, 2, Into(s \div 2, q, 1, L))))
<1> DEFINE S == [Squares -> [RangeLists -> RangeLists]]
           Part(g, t, q, k, L) ==
                IF Touches(q, t, k) THEN g[SubQuad(q, t, k)][L] ELSE L
           Value(g, s, q, L) ==
               IF s = q.box.p /\ s = q.box.q
               THEN AddRange(L, <<q.min, q.min + s * s - 1>>)
               ELSE IF s <= 1 THEN L
               ELSE Part(g, s \div 2, q, 4, Part(g, s \div 2, q, 3,
                      Part(g, s \div 2, q, 2, Part(g, s \div 2, q, 1, L))))
           new(s, g) == [q \in Squares |-> [L \in RangeLists |-> Value(g, s, q, L)]]
           empty == [q \in Squares |-> [L \in RangeLists |-> L]]
           step == [p \in Nat \X S |-> IF p[1] = 0 THEN empty ELSE new(p[1], p[2])]
           from == [s \in Nat |-> s \div 2]
<1>1. \A g \in S, t \in Nat, q \in Squares, k \in 1..4, L \in RangeLists :
          Part(g, t, q, k, L) \in RangeLists
  BY SubQuadIn
<1>2. empty \in S
  OBVIOUS
<1>3. \A s \in Nat \ {0}, g \in S, q \in Squares, L \in RangeLists :
          Value(g, s, q, L) \in RangeLists
  <2> SUFFICES ASSUME NEW s \in Nat \ {0}, NEW g \in S, NEW q \in Squares,
                      NEW L \in RangeLists
               PROVE  Value(g, s, q, L) \in RangeLists
    OBVIOUS
  <2> HIDE DEF Part, S
  <2>1. <<q.min, q.min + s * s - 1>> \in Nat \X Nat
    <3>1. q.min \in Nat
      BY DEF Squares
    <3>2. s * s \in Nat \ {0}
      OBVIOUS
    <3>3. q.min + s * s - 1 \in Nat
      BY <3>1, <3>2
    <3> QED
      BY <3>1, <3>3
  <2>2. s \div 2 \in Nat
    OBVIOUS
  <2>3. AddRange(L, <<q.min, q.min + s * s - 1>>) \in RangeLists
    BY <2>1, AddRangeIn
  <2>4. 1 \in 1..4 /\ 2 \in 1..4 /\ 3 \in 1..4 /\ 4 \in 1..4
    OBVIOUS
  <2> QED
    BY <2>2, <2>3, <2>4, <1>1
<1> HIDE DEF Value
<1>4. \A s \in Nat \ {0}, g \in S : new(s, g) \in S
  BY <1>3
<1>5. step \in [Nat \X S -> S]
  <2> HIDE DEF new, empty, S
  <2> QED
    BY <1>2, <1>4
<1>6. Descends(from)
  BY DEF Descends
<1>7. PICK f \in [Nat -> S] : Computes(f, empty, step, from)
  <2> HIDE DEF step, from, empty, S
  <2> QED
    BY <1>2, <1>5, <1>6, Recursion
<1>8. \A s \in Nat \ {0} : f[s] = new(s, f[s \div 2])
  <2> SUFFICES ASSUME NEW s \in Nat \ {0} PROVE f[s] = new(s, f[s \div 2])
    OBVIOUS
  <2>1. from[s] = s \div 2 /\ s \div 2 \in Nat
    OBVIOUS
  <2> HIDE DEF new, from, empty, S
  <2>2. step[<<s, f[s \div 2]>>] = new(s, f[s \div 2])
    BY <2>1
  <2> HIDE DEF step
  <2> QED
    BY <1>7, <2>1, <2>2 DEF Computes
<1> DEFINE Body(g) == [s \in Nat \ {0} |-> [q \in Squares |-> [L \in RangeLists |->
                         Value(g[s \div 2], s, q, L)]]]
           h == [s \in Nat \ {0} |-> f[s]]
<1>9. h = Body(h)
  <2>1. ASSUME NEW s \in Nat \ {0}, NEW q \in Squares, NEW L \in RangeLists
        PROVE  Value(f[s \div 2], s, q, L) = Value(h[s \div 2], s, q, L)
    <3>1. CASE s <= 1
      BY <3>1 DEF Value
    <3>2. CASE s > 1
      <4>1. s \div 2 \in Nat \ {0}
        BY <3>2
      <4>2. h[s \div 2] = f[s \div 2]
        BY <4>1
      <4> HIDE DEF h
      <4> QED
        BY <4>2
    <3> QED
      BY <3>1, <3>2
  <2>2. ASSUME NEW s \in Nat \ {0} PROVE h[s] = Body(h)[s]
    <3> HIDE DEF Value, S
    <3>1. h[s] = new(s, f[s \div 2])
      BY <1>8
    <3> HIDE DEF h
    <3>2. new(s, f[s \div 2]) = [q \in Squares |-> [L \in RangeLists |->
                                     Value(h[s \div 2], s, q, L)]]
      BY <2>1
    <3> QED
      BY <3>1, <3>2
  <2> HIDE DEF Value, S, new
  <2> QED
    BY <2>2
<1>10. SplitQuad = Body(SplitQuad)
  <2> HIDE DEF h
  <2> USE DEF Value
  <2> QED
    BY <1>9, Zenon DEF SplitQuad
<1>11. \A s \in Nat \ {0}, q \in Squares, L \in RangeLists :
          SplitQuad[s][q][L] = Value(SplitQuad[s \div 2], s, q, L)
  <2> SUFFICES ASSUME NEW s \in Nat \ {0}, NEW q \in Squares, NEW L \in RangeLists
               PROVE  SplitQuad[s][q][L] = Value(SplitQuad[s \div 2], s, q, L)
    OBVIOUS
  <2>1. SplitQuad[s] = Body(SplitQuad)[s]
    BY <1>10
  <2>2. SplitQuad[s][q] = [K \in RangeLists |-> Value(SplitQuad[s \div 2], s, q, K)]
    BY ONLY <2>1, s \in Nat \ {0}, q \in Squares
  <2> QED
    BY ONLY <2>2, L \in RangeLists
<1> QED
  BY <1>11 DEF Value, Into

-----------------------------------------------------------------------------
(* Turned squares *)

\* Every cell of a grid lies in a quarter of it, and is some cell of the quarter.
LEMMA QuarterOf ==
  ASSUME NEW s \in Nat \ {0}, NEW c \in Grid(2 * s)
  PROVE  \E j \in 0..3 : \E p \in Grid(s) : c = InQuarter(s, j, p)
<1>1. PICK x \in 0..(2 * s - 1), y \in 0..(2 * s - 1) : c = Cell(x, y)
  BY DEF Grid
<1>2. \A u, v \in 0..(s - 1) : Cell(u, v) \in Grid(s)
  BY DEF Grid
<1>3. CASE x < s /\ y < s
  <2>1. x \in 0..(s - 1) /\ y \in 0..(s - 1)
    BY <1>3
  <2>2. Cell(y, x) \in Grid(s)
    BY <2>1, <1>2
  <2>3. c = InQuarter(s, 0, Cell(y, x))
    BY <1>1 DEF InQuarter, Cell
  <2>4. 0 \in 0..3
    OBVIOUS
  <2> QED
    BY <2>2, <2>3, <2>4
<1>4. CASE x < s /\ y >= s
  <2>1. x \in 0..(s - 1) /\ y - s \in 0..(s - 1) /\ (y - s) + s = y
    BY <1>4
  <2>2. Cell(x, y - s) \in Grid(s)
    BY <2>1, <1>2
  <2>3. c = InQuarter(s, 1, Cell(x, y - s))
    BY <1>1, <2>1 DEF InQuarter, Cell
  <2>4. 1 \in 0..3
    OBVIOUS
  <2> QED
    BY <2>2, <2>3, <2>4
<1>5. CASE x >= s /\ y >= s
  <2>1. x - s \in 0..(s - 1) /\ y - s \in 0..(s - 1) /\ (y - s) + s = y /\ (x - s) + s = x
    BY <1>5
  <2>2. Cell(x - s, y - s) \in Grid(s)
    BY <2>1, <1>2
  <2>3. c = InQuarter(s, 2, Cell(x - s, y - s))
    BY <1>1, <2>1 DEF InQuarter, Cell
  <2>4. 2 \in 0..3
    OBVIOUS
  <2> QED
    BY <2>2, <2>3, <2>4
<1>6. CASE x >= s /\ y < s
  <2>1. /\ s - 1 - y \in 0..(s - 1) /\ 2 * s - 1 - x \in 0..(s - 1)
        /\ 2 * s - 1 - (2 * s - 1 - x) = x /\ s - 1 - (s - 1 - y) = y
    BY <1>6
  <2>2. Cell(s - 1 - y, 2 * s - 1 - x) \in Grid(s)
    BY <2>1, <1>2
  <2>3. c = InQuarter(s, 3, Cell(s - 1 - y, 2 * s - 1 - x))
    BY <1>1, <2>1 DEF InQuarter, Cell
  <2>4. 3 \in 0..3
    OBVIOUS
  <2> QED
    BY <2>2, <2>3, <2>4
<1> QED
  BY <1>1, <1>3, <1>4, <1>5, <1>6

\* Encode numbers the cells of a grid, and DecodeToPoint inverts it.
LEMMA EncodeInverts ==
  \A n \in Sides : \A c \in Grid(n) :
      Encode(c, n) \in 0..(n * n - 1) /\ DecodeToPoint(n, Encode(c, n)) = c
<1> DEFINE Good(n) == \A c \in Grid(n) :
                Encode(c, n) \in 0..(n * n - 1) /\ DecodeToPoint(n, Encode(c, n)) = c
           P == {n \in Sides : Good(n)}
<1>1. 1 \in P
  <2> SUFFICES ASSUME NEW c \in Grid(1)
               PROVE  Encode(c, 1) \in 0..(1 * 1 - 1) /\ DecodeToPoint(1, Encode(c, 1)) = c
    BY SidesDouble
  <2>1. c = Cell(0, 0) /\ c \in Points
    BY DEF Cell, Points, Grid
  <2>2. Encode(c, 1) = 0
    BY <2>1, EncodeStep
  <2> QED
    BY <2>1, <2>2, DecodeStep
<1>2. ASSUME NEW s \in P PROVE 2 * s \in P
  <2>1. s \in Sides /\ s \in Nat \ {0} /\ Good(s) /\ 2 * s \in Sides
    BY SidesDouble
  <2> SUFFICES ASSUME NEW c \in Grid(2 * s)
               PROVE  /\ Encode(c, 2 * s) \in 0..((2 * s) * (2 * s) - 1)
                      /\ DecodeToPoint(2 * s, Encode(c, 2 * s)) = c
    BY <2>1
  <2>2. PICK j \in 0..3 : \E p \in Grid(s) : c = InQuarter(s, j, p)
    BY <2>1, QuarterOf
  <2>3. PICK p \in Grid(s) : c = InQuarter(s, j, p)
    BY <2>2
  <2> HIDE DEF P
  <2> DEFINE r == Encode(p, s)
             q == s * s
  <2>4. r \in 0..(q - 1) /\ DecodeToPoint(s, r) = p
    BY <2>1
  <2>5. Encode(c, 2 * s) = q * j + r
    BY <2>1, <2>3, EncodeQuarter
  <2>6. p \in Points
    BY <2>1, GridPoints
  <2> HIDE DEF Good, r
  <2>7. DecodeToPoint(2 * s, q * j + r) = InQuarter(s, j, p)
    BY <2>1, <2>4, <2>6, DecodeQuarter
  <2>8. q * j + r \in 0..((2 * s) * (2 * s) - 1)
    <3>1. q \in Nat /\ (2 * s) * (2 * s) = 4 * q
      BY <2>1
    <3> HIDE DEF q
    <3>2. q * j \in Nat /\ q * j <= q * 3
      BY <3>1
    <3> QED
      BY <3>1, <3>2, <2>4
  <2> QED
    BY <2>3, <2>5, <2>7, <2>8
<1>3. P \in SUBSET Sides
  OBVIOUS
<1> HIDE DEF P
<1>4. \A n \in Sides : n \in P
  BY <1>1, <1>2, <1>3, SidesInduction
<1> QED
  BY <1>4 DEF P

\* A cell of a square of side t as the unturned curve sees it.
Turn(rotation, t, c) ==
    CASE rotation = "A" -> c
      [] rotation = "B" -> Cell(c.y, c.x)
      [] rotation = "C" -> Cell(t - 1 - c.x, t - 1 - c.y)
      [] rotation = "D" -> Cell(t - 1 - c.y, t - 1 - c.x)

\* The number of a cell on the turned curve of a square.
Number(rotation, t, c) == Encode(Turn(rotation, t, c), t)

\* A turned cell is a cell, and turned twice it is back.
LEMMA TurnIn ==
  ASSUME NEW t \in Nat, NEW rot \in Rotations, NEW c \in Grid(t)
  PROVE  Turn(rot, t, c) \in Grid(t) /\ Turn(rot, t, Turn(rot, t, c)) = c
<1>1. PICK x \in 0..(t - 1), y \in 0..(t - 1) : c = Cell(x, y)
  BY DEF Grid
<1>2. \A u, v \in 0..(t - 1) : Cell(u, v) \in Grid(t)
  BY DEF Grid
<1>3. /\ t - 1 - x \in 0..(t - 1) /\ t - 1 - y \in 0..(t - 1)
      /\ t - 1 - (t - 1 - x) = x /\ t - 1 - (t - 1 - y) = y
  OBVIOUS
<1>4. CASE rot = "A"
  BY <1>4 DEF Turn
<1>5. CASE rot = "B"
  <2>1. \A u, v : Turn(rot, t, Cell(u, v)) = Cell(v, u)
    BY <1>5 DEF Turn, Cell
  <2> QED
    BY <1>1, <1>2, <2>1
<1>6. CASE rot = "C"
  <2>1. \A u, v : Turn(rot, t, Cell(u, v)) = Cell(t - 1 - u, t - 1 - v)
    BY <1>6 DEF Turn, Cell
  <2> QED
    BY <1>1, <1>2, <1>3, <2>1
<1>7. CASE rot = "D"
  <2>1. \A u, v : Turn(rot, t, Cell(u, v)) = Cell(t - 1 - v, t - 1 - u)
    BY <1>7 DEF Turn, Cell
  <2> QED
    BY <1>1, <1>2, <1>3, <2>1
<1> QED
  BY <1>4, <1>5, <1>6, <1>7 DEF Rotations

\* The corner of the k-th quarter that the turned curve visits.
Corner(rotation, s, k) ==
    Cell(s * Quarters[rotation][k][1], s * Quarters[rotation][k][2])

\* Where that quarter has the cell c.
Shifted(rotation, s, k, c) ==
    Cell(c.x + Corner(rotation, s, k).x, c.y + Corner(rotation, s, k).y)

\* The tables of SplitQuadA..D agree with the turns of Encode.
LEMMA TurnQuarter ==
  ASSUME NEW s \in Nat \ {0}, NEW rot \in Rotations, NEW k \in 1..4, NEW c \in Grid(s)
  PROVE  Turn(rot, 2 * s, Shifted(rot, s, k, c))
           = InQuarter(s, k - 1, Turn(Quarters[rot][k][3], s, c))
<1>1. PICK x \in 0..(s - 1), y \in 0..(s - 1) : c = Cell(x, y)
  BY DEF Grid
<1>2. k = 1 \/ k = 2 \/ k = 3 \/ k = 4
  OBVIOUS
<1>3. CASE rot = "A"
  BY <1>1, <1>2, <1>3 DEF Quarters, West, East, South, North, Shifted, Corner, Turn,
                          InQuarter, Cell
<1>4. CASE rot = "B"
  BY <1>1, <1>2, <1>4 DEF Quarters, West, East, South, North, Shifted, Corner, Turn,
                          InQuarter, Cell
<1>5. CASE rot = "C"
  BY <1>1, <1>2, <1>5 DEF Quarters, West, East, South, North, Shifted, Corner, Turn,
                          InQuarter, Cell
<1>6. CASE rot = "D"
  BY <1>1, <1>2, <1>6 DEF Quarters, West, East, South, North, Shifted, Corner, Turn,
                          InQuarter, Cell
<1> QED
  BY <1>3, <1>4, <1>5, <1>6 DEF Rotations

\* The turned curve goes through the quarters one after the other.
LEMMA NumberQuarter ==
  ASSUME NEW s \in Sides, NEW rot \in Rotations, NEW k \in 1..4, NEW c \in Grid(s)
  PROVE  Number(rot, 2 * s, Shifted(rot, s, k, c))
           = s * s * (k - 1) + Number(Quarters[rot][k][3], s, c)
<1>1. s \in Nat \ {0} /\ k - 1 \in 0..3
  BY SidesDouble
<1>2. Quarters[rot][k][3] \in Rotations
  BY QuarterTable
<1> DEFINE p == Turn(Quarters[rot][k][3], s, c)
<1>3. p \in Grid(s)
  BY <1>1, <1>2, TurnIn
<1>4. Turn(rot, 2 * s, Shifted(rot, s, k, c)) = InQuarter(s, k - 1, p)
  BY <1>1, TurnQuarter
<1> HIDE DEF p
<1>5. Encode(InQuarter(s, k - 1, p), 2 * s) = s * s * (k - 1) + Encode(p, s)
  BY <1>1, <1>3, EncodeQuarter
<1> QED
  BY <1>4, <1>5 DEF Number, p

\* Every cell of a square is in one of the quarters its curve visits.
LEMMA VisitedQuarter ==
  ASSUME NEW s \in Nat \ {0}, NEW rot \in Rotations, NEW c \in Grid(2 * s)
  PROVE  \E k \in 1..4 : \E e \in Grid(s) : c = Shifted(rot, s, k, e)
<1>1. PICK x \in 0..(2 * s - 1), y \in 0..(2 * s - 1) : c = Cell(x, y)
  BY DEF Grid
<1>2. PICK i \in {0, 1} : x - s * i \in 0..(s - 1)
  <2>1. CASE x < s
    <3>1. x - s * 0 \in 0..(s - 1)
      BY <2>1
    <3> QED
      BY <3>1
  <2>2. CASE x >= s
    <3>1. x - s * 1 \in 0..(s - 1)
      BY <2>2
    <3> QED
      BY <3>1
  <2> QED
    BY <2>1, <2>2
<1>3. PICK j \in {0, 1} : y - s * j \in 0..(s - 1)
  <2>1. CASE y < s
    <3>1. y - s * 0 \in 0..(s - 1)
      BY <2>1
    <3> QED
      BY <3>1
  <2>2. CASE y >= s
    <3>1. y - s * 1 \in 0..(s - 1)
      BY <2>2
    <3> QED
      BY <3>1
  <2> QED
    BY <2>1, <2>2
<1>4. PICK k \in 1..4 : Quarters[rot][k][1] = i /\ Quarters[rot][k][2] = j
  <2>0. 1 \in 1..4 /\ 2 \in 1..4 /\ 3 \in 1..4 /\ 4 \in 1..4
    OBVIOUS
  <2>1. CASE rot = "A"
    BY <2>0, <2>1 DEF Quarters, West, East, South, North
  <2>2. CASE rot = "B"
    BY <2>0, <2>2 DEF Quarters, West, East, South, North
  <2>3. CASE rot = "C"
    BY <2>0, <2>3 DEF Quarters, West, East, South, North
  <2>4. CASE rot = "D"
    BY <2>0, <2>4 DEF Quarters, West, East, South, North
  <2> QED
    BY <2>1, <2>2, <2>3, <2>4 DEF Rotations
<1> DEFINE e == Cell(x - s * i, y - s * j)
<1>5. e \in Grid(s)
  BY <1>2, <1>3 DEF Grid
<1>6. (x - s * i) + s * i = x /\ (y - s * j) + s * j = y
  BY <1>2, <1>3
<1>7. c = Shifted(rot, s, k, e)
  BY <1>1, <1>4, <1>6 DEF Shifted, Corner, Cell
<1> QED
  BY <1>5, <1>7

\* The numbers of a whole square are those it may have.
LEMMA NumberOnto ==
  ASSUME NEW t \in Sides, NEW rot \in Rotations
  PROVE  {Number(rot, t, c) : c \in Grid(t)} = 0..(t * t - 1)
<1>1. t \in Nat
  BY SidesDouble
<1>2. ASSUME NEW c \in Grid(t) PROVE Number(rot, t, c) \in 0..(t * t - 1)
  BY <1>1, TurnIn, EncodeInverts DEF Number
<1>3. ASSUME NEW d \in 0..(t * t - 1) PROVE \E c \in Grid(t) : d = Number(rot, t, c)
  <2> DEFINE p == DecodeToPoint(t, d)
  <2>1. p \in Grid(t) /\ Encode(p, t) = d
    BY DecodeInverts
  <2> HIDE DEF p
  <2>2. Turn(rot, t, p) \in Grid(t) /\ Turn(rot, t, Turn(rot, t, p)) = p
    BY <1>1, <2>1, TurnIn
  <2>3. d = Number(rot, t, Turn(rot, t, p))
    BY <2>1, <2>2 DEF Number
  <2> QED
    BY <2>2, <2>3
<1> QED
  BY <1>2, <1>3

-----------------------------------------------------------------------------
(* Ranges *)

\* The numbers in ranges.
Numbers(L) == {d \in Nat : \E k \in 1..Len(L) : L[k][1] <= d /\ d <= L[k][2]}

\* Ranges that are not empty, ascend, and could not be one.
Tidy(L) ==
    /\ \A k \in 1..Len(L) : L[k][1] <= L[k][2]
    /\ \A k \in 2..Len(L) : L[k - 1][2] + 1 < L[k][1]

\* All of them end below a number.
EndBelow(L, m) == \A k \in 1..Len(L) : L[k][2] < m

\* Ranges that are tidy but for a seam behind the j-th, where a second part of a
\* box begins; those behind it end below m.
Grown(L, j, m) ==
    /\ j <= Len(L)
    /\ \A k \in 1..Len(L) : L[k][1] <= L[k][2]
    /\ \A k \in 2..Len(L) : k # j + 1 => L[k - 1][2] + 1 < L[k][1]
    /\ \A k \in (j + 1)..Len(L) : L[k][2] < m

\* Without a seam.
LEMMA GrownTidy ==
  ASSUME NEW L \in RangeLists, NEW m
  PROVE  Grown(L, 0, m) <=> Tidy(L) /\ EndBelow(L, m)
<1>1. Len(L) \in Nat
  BY DEF RangeLists
<1>2. 0 + 1 = 1 /\ \A k \in 2..Len(L) : k # 1
  OBVIOUS
<1> QED
  BY <1>1, <1>2 DEF Grown, Tidy, EndBelow

\* A box that reaches at most the far edges of a square.
Fits(b, t) == b.x + b.q <= t /\ b.y + b.p <= t

\* The numbers of a square's box on the square's turned curve.
BoxNumbers(square, t) ==
    {square.min + Number(square.rotation, t, c) : c \in CellsOf(square.box)}

\* The last range and those before it.
LEMMA ListParts ==
  ASSUME NEW L \in RangeLists
  PROVE  /\ Len(L) \in Nat
         /\ \A k \in 1..Len(L) : L[k] \in Nat \X Nat /\ L[k][1] \in Nat /\ L[k][2] \in Nat
         /\ L = << >> <=> Len(L) = 0
         /\ Last(L) = L[Len(L)]
<1> DEFINE T == Nat \X Nat
<1>1. L \in Seq(T)
  BY DEF RangeLists
<1>2. Len(L) \in Nat /\ (L = << >> <=> Len(L) = 0) /\ \A k \in 1..Len(L) : L[k] \in T
  <2> HIDE DEF T
  <2> QED
    BY <1>1
<1>3. Last(L) = L[Len(L)]
  BY DEF Last
<1> QED
  BY <1>2, <1>3

\* A list with its last range replaced.
LEMMA LastReplaced ==
  ASSUME NEW T, NEW L \in Seq(T), NEW new \in T, L # << >>
  PROVE  LET K == Front(L) \o <<new>>
             n == Len(L)
         IN  /\ K \in Seq(T) /\ Len(K) = n /\ K[n] = new
             /\ \A k \in 1..(n - 1) : K[k] = L[k]
<1> DEFINE n == Len(L)
           F == Front(L)
<1>1. n \in Nat /\ n > 0 /\ n - 1 \in Nat /\ n - 1 <= n
  OBVIOUS
<1>2. F = SubSeq(L, 1, n - 1)
  BY DEF Front
<1>3. \A k \in 1..(n - 1) : L[k] \in T
  OBVIOUS
<1>4. F = [k \in 1..(n - 1) |-> L[k]]
  <2>1. 1 + n - 1 - 1 = n - 1 /\ \A k \in 1..(n - 1) : 1 + k - 1 = k
    BY <1>1
  <2> QED
    BY <1>1, <1>2, <2>1
<1> HIDE DEF F
<1>5. F \in Seq(T) /\ Len(F) = n - 1 /\ \A k \in 1..(n - 1) : F[k] = L[k]
  BY <1>1, <1>3, <1>4
<1> HIDE DEF n
<1>6. /\ F \o <<new>> \in Seq(T) /\ Len(F \o <<new>>) = n /\ (F \o <<new>>)[n] = new
      /\ \A k \in 1..(n - 1) : (F \o <<new>>)[k] = F[k]
  BY ONLY <1>1, <1>5, new \in T
<1> QED
  BY <1>5, <1>6 DEF F, n

\* AddRange with a range beyond those behind the seam: they stay tidy and gain its
\* numbers, also when it joins the last range before the seam.
LEMMA AddRangeGrows ==
  ASSUME NEW L \in RangeLists, NEW j \in Nat, NEW a \in Nat, NEW b \in Nat, a <= b,
         Grown(L, j, a)
  PROVE  LET K == AddRange(L, <<a, b>>)
         IN  /\ K \in RangeLists /\ Grown(K, j, b + 1)
             /\ Numbers(K) = Numbers(L) \cup a..b
<1> DEFINE r == <<a, b>>
           K == AddRange(L, r)
           n == Len(L)
           T == Nat \X Nat
<1>0. r \in T /\ r[1] = a /\ r[2] = b
  OBVIOUS
<1>1. K \in RangeLists
  <2> HIDE DEF r, K
  <2> QED
    BY <1>0, AddRangeIn DEF K
<1>2. /\ L \in Seq(T) /\ n \in Nat /\ (L = << >> <=> n = 0) /\ Last(L) = L[n]
      /\ \A k \in 1..n : L[k] \in T /\ L[k][1] \in Nat /\ L[k][2] \in Nat
  BY ListParts DEF RangeLists
<1>3. CASE L # << >> /\ Last(L)[2] + 1 = a
  <2> DEFINE last == L[n]
             new == <<last[1], b>>
  <2>1. n \in 1..n /\ last \in T /\ new \in T /\ new[1] = last[1] /\ new[2] = b
        /\ last[1] \in Nat /\ last[2] + 1 = a
    BY <1>2, <1>3
  <2>2. K = Front(L) \o <<new>>
    BY <1>0, <1>2, <1>3 DEF AddRange
  <2> HIDE DEF new, K, r, T
  <2>6. Len(K) = n /\ K[n] = new /\ \A k \in 1..(n - 1) : K[k] = L[k]
    BY <1>2, <1>3, <2>1, <2>2, LastReplaced
  <2> HIDE DEF n
  <2>7. /\ \A k \in 1..n : k \in 1..(n - 1) \/ k = n
        /\ \A k \in 1..(n - 1) : k \in 1..n
        /\ \A k \in 2..n : k - 1 \in 1..(n - 1) /\ k \in 1..n
    BY <1>2
  <2>8. /\ j <= n /\ \A k \in 1..n : L[k][1] <= L[k][2]
        /\ \A k \in (j + 1)..n : L[k][2] < a
        /\ \A k \in 2..n : k # j + 1 => L[k - 1][2] + 1 < L[k][1]
    BY DEF Grown, n
  <2>9. last[1] <= last[2] /\ last[2] \in Nat
    BY <2>1, <2>8, <1>2
  <2>10. \A k \in 1..n : K[k][1] <= K[k][2] /\ (k >= j + 1 => K[k][2] < b + 1)
    <3> SUFFICES ASSUME NEW k \in 1..n
                 PROVE  K[k][1] <= K[k][2] /\ (k >= j + 1 => K[k][2] < b + 1)
      OBVIOUS
    <3>1. CASE k = n
      BY <3>1, <2>1, <2>6, <2>9
    <3>2. CASE k \in 1..(n - 1)
      <4>1. K[k] = L[k] /\ L[k][2] \in Nat /\ (k >= j + 1 => k \in (j + 1)..n)
        BY <3>2, <2>6, <2>7, <1>2
      <4> QED
        BY <4>1, <2>8
    <3> QED
      BY <2>7, <3>1, <3>2
  <2>11. \A k \in 2..n : k # j + 1 => K[k - 1][2] + 1 < K[k][1]
    <3> SUFFICES ASSUME NEW k \in 2..n, k # j + 1 PROVE K[k - 1][2] + 1 < K[k][1]
      OBVIOUS
    <3>1. K[k][1] = L[k][1]
      BY <2>6, <2>7, <2>1
    <3>2. K[k - 1] = L[k - 1]
      BY <2>6, <2>7
    <3> QED
      BY <3>1, <3>2, <2>8
  <2>12. Numbers(K) = Numbers(L) \cup a..b
    <3>1. ASSUME NEW d \in Numbers(K) PROVE d \in Numbers(L) \cup a..b
      <4>1. PICK k \in 1..n : K[k][1] <= d /\ d <= K[k][2]
        BY <2>6 DEF Numbers
      <4>2. d \in Nat
        BY DEF Numbers
      <4>3. CASE k = n
        <5>1. last[1] <= d /\ d <= b
          BY <4>1, <4>3, <2>6, <2>1
        <5>2. CASE d <= last[2]
          <6>1. d \in Numbers(L)
            BY <2>1, <5>1, <5>2, <4>2 DEF Numbers, n
          <6> QED
            BY <6>1
        <5>3. CASE ~(d <= last[2])
          BY <5>1, <5>3, <2>1, <2>9, <4>2
        <5> QED
          BY <5>2, <5>3
      <4>4. CASE k \in 1..(n - 1)
        BY <4>1, <4>2, <4>4, <2>6, <2>7 DEF Numbers, n
      <4> QED
        BY <2>7, <4>3, <4>4
    <3>2. ASSUME NEW d \in Numbers(L) PROVE d \in Numbers(K)
      <4>1. PICK k \in 1..n : L[k][1] <= d /\ d <= L[k][2]
        BY DEF Numbers, n
      <4>2. d \in Nat
        BY DEF Numbers
      <4>3. CASE k = n
        <5>1. last[1] <= d /\ d <= b
          BY <4>1, <4>2, <4>3, <2>1, <2>9
        <5> QED
          BY <5>1, <4>2, <2>6, <2>1 DEF Numbers
      <4>4. CASE k \in 1..(n - 1)
        BY <4>1, <4>2, <4>4, <2>6, <2>7 DEF Numbers
      <4> QED
        BY <2>7, <4>3, <4>4
    <3>3. ASSUME NEW d \in a..b PROVE d \in Numbers(K)
      <4>1. d \in Nat /\ last[1] <= d /\ d <= b
        BY <2>1, <2>9
      <4> QED
        BY <4>1, <2>6, <2>1 DEF Numbers
    <3> QED
      BY <3>1, <3>2, <3>3
  <2>13. Grown(K, j, b + 1)
    <3>1. \A k \in (j + 1)..n : k \in 1..n /\ k >= j + 1
      BY <1>2
    <3> QED
      BY <2>6, <2>8, <2>10, <2>11, <3>1 DEF Grown
  <2> QED
    BY <1>1, <2>12, <2>13 DEF K, r
<1>4. CASE ~(L # << >> /\ Last(L)[2] + 1 = a)
  <2>1. K = Append(L, r)
    BY <1>0, <1>4 DEF AddRange
  <2> HIDE DEF K, T, r, n
  <2>2. Len(K) = n + 1 /\ K[n + 1] = r /\ \A k \in 1..n : K[k] = L[k]
    BY <1>2, <1>0, <2>1 DEF n
  <2>3. /\ \A k \in 1..(n + 1) : k \in 1..n \/ k = n + 1
        /\ \A k \in 1..n : k \in 1..(n + 1)
        /\ n + 1 \in 1..(n + 1)
        /\ \A k \in 2..(n + 1) : k - 1 \in 1..n
    BY <1>2
  <2>4. /\ j <= n /\ \A k \in 1..n : L[k][1] <= L[k][2]
        /\ \A k \in (j + 1)..n : L[k][2] < a
        /\ \A k \in 2..n : k # j + 1 => L[k - 1][2] + 1 < L[k][1]
    BY DEF Grown, n
  <2>5. \A k \in 1..(n + 1) : K[k][1] <= K[k][2] /\ (k >= j + 1 => K[k][2] < b + 1)
    <3> SUFFICES ASSUME NEW k \in 1..(n + 1)
                 PROVE  K[k][1] <= K[k][2] /\ (k >= j + 1 => K[k][2] < b + 1)
      OBVIOUS
    <3>1. CASE k = n + 1
      BY <3>1, <2>2, <1>0
    <3>2. CASE k \in 1..n
      <4>1. K[k] = L[k] /\ L[k][2] \in Nat /\ (k >= j + 1 => k \in (j + 1)..n)
        BY <3>2, <2>2, <1>2
      <4> QED
        BY <4>1, <3>2, <2>4
    <3> QED
      BY <2>3, <3>1, <3>2
  <2>6. \A k \in 2..(n + 1) : k # j + 1 => K[k - 1][2] + 1 < K[k][1]
    <3> SUFFICES ASSUME NEW k \in 2..(n + 1), k # j + 1 PROVE K[k - 1][2] + 1 < K[k][1]
      OBVIOUS
    <3>1. CASE k = n + 1
      <4>1. K[k - 1] = L[n] /\ K[k] = r /\ n \in 1..n /\ n \in (j + 1)..n
        BY <3>1, <2>2, <2>3, <2>4, <1>2
      <4>2. L[n][2] < a /\ L[n][2] \in Nat
        BY <4>1, <2>4, <1>2
      <4>3. L[n][2] + 1 # a
        BY <1>4, <1>2, <4>1
      <4> QED
        BY <4>1, <4>2, <4>3, <1>0
    <3>2. CASE k # n + 1
      <4>1. k \in 2..n /\ k \in 1..n /\ k - 1 \in 1..n
        BY <3>2, <1>2
      <4> QED
        BY <4>1, <2>2, <2>4
    <3> QED
      BY <3>1, <3>2
  <2>7. Numbers(K) = Numbers(L) \cup a..b
    <3>1. ASSUME NEW d \in Numbers(K) PROVE d \in Numbers(L) \cup a..b
      <4>1. PICK k \in 1..(n + 1) : K[k][1] <= d /\ d <= K[k][2]
        BY <2>2 DEF Numbers
      <4>2. d \in Nat
        BY DEF Numbers
      <4>3. CASE k = n + 1
        BY <4>1, <4>2, <4>3, <2>2, <1>0
      <4>4. CASE k \in 1..n
        BY <4>1, <4>2, <4>4, <2>2 DEF Numbers, n
      <4> QED
        BY <2>3, <4>3, <4>4
    <3>2. ASSUME NEW d \in Numbers(L) PROVE d \in Numbers(K)
      <4>1. PICK k \in 1..n : L[k][1] <= d /\ d <= L[k][2]
        BY DEF Numbers, n
      <4>2. d \in Nat
        BY DEF Numbers
      <4> QED
        BY <4>1, <4>2, <2>2, <2>3 DEF Numbers
    <3>3. ASSUME NEW d \in a..b PROVE d \in Numbers(K)
      <4>1. d \in Nat /\ a <= d /\ d <= b
        OBVIOUS
      <4> QED
        BY <4>1, <2>2, <2>3, <1>0 DEF Numbers
    <3> QED
      BY <3>1, <3>2, <3>3
  <2>8. Grown(K, j, b + 1)
    <3>1. j <= n + 1 /\ \A k \in (j + 1)..(n + 1) : k \in 1..(n + 1) /\ k >= j + 1
      BY <1>2, <2>4
    <3> QED
      BY <2>2, <2>5, <2>6, <3>1 DEF Grown
  <2> QED
    BY <1>1, <2>7, <2>8 DEF K, r
<1> QED
  BY <1>3, <1>4

\* Along an axis, the part of an interval in a half of a square.
LEMMA AxisPart ==
  ASSUME NEW lo \in Nat, NEW len \in Nat, NEW half \in Nat \ {0}, lo + len <= 2 * half,
         NEW side \in {0, 1}
  PROVE  /\ Meets(lo, len, half, side) =>
              /\ Start(lo, half, side) \in Nat /\ Length(lo, len, half, side) \in Nat
              /\ Start(lo, half, side) + Length(lo, len, half, side) <= half
         /\ \A v \in 0..(half - 1) :
              v + half * side \in lo..((lo + len) - 1)
              <=> /\ Meets(lo, len, half, side)
                  /\ v \in Start(lo, half, side)
                           ..((Start(lo, half, side) + Length(lo, len, half, side)) - 1)
<1>1. CASE side = 0
  BY <1>1 DEF Meets, Start, Length
<1>2. CASE side = 1
  BY <1>2 DEF Meets, Start, Length
<1> QED
  BY <1>1, <1>2

-----------------------------------------------------------------------------
(* The ranges of a box *)

\* What SplitQuad of a square of side t has to make of the ranges L.
Fills(K, L, j, square, t) ==
    /\ K \in RangeLists /\ Grown(K, j, square.min + t * t)
    /\ Numbers(K) = Numbers(L) \cup BoxNumbers(square, t)

\* It does for every square of side t, and ranges of which those behind a seam end
\* before it.
Splits(t) ==
    \A square \in Squares, L \in RangeLists, j \in Nat :
        Fits(square.box, t) /\ Grown(L, j, square.min)
        => Fills(SplitQuad[t][square][L], L, j, square, t)

\* The cells of a box, by their coordinates.
LEMMA CellsIn ==
  ASSUME NEW b
  PROVE  /\ \A c \in CellsOf(b) :
              \E x \in b.x..(MaxX(b) - 1), y \in b.y..(MaxY(b) - 1) : c = Cell(x, y)
         /\ \A u, v : Cell(u, v) \in CellsOf(b)
                      <=> u \in b.x..(MaxX(b) - 1) /\ v \in b.y..(MaxY(b) - 1)
<1> DEFINE X == b.x..(MaxX(b) - 1)
           Y == b.y..(MaxY(b) - 1)
<1>1. CellsOf(b) = {Cell(x, y) : x \in X, y \in Y}
  BY DEF CellsOf
<1> HIDE DEF X, Y
<1>2. \A u, v, x, y : Cell(u, v) = Cell(x, y) => u = x /\ v = y
  BY DEF Cell
<1>3. \A d \in CellsOf(b) : \E x \in X, y \in Y : d = Cell(x, y)
  BY <1>1
<1>4. \A u, v : Cell(u, v) \in CellsOf(b) <=> u \in X /\ v \in Y
  BY <1>1, <1>2
<1> QED
  BY <1>3, <1>4, Zenon DEF X, Y

\* A box that fits a square consists of cells of it.
LEMMA BoxInGrid ==
  ASSUME NEW t \in Nat, NEW square \in Squares, Fits(square.box, t)
  PROVE  CellsOf(square.box) \subseteq Grid(t)
<1> DEFINE b == square.box
<1>1. b.x \in Nat /\ b.y \in Nat /\ b.p \in Nat /\ b.q \in Nat
  BY DEF Squares
<1>2. b.x + b.q <= t /\ b.y + b.p <= t
  BY DEF Fits
<1> HIDE DEF b
<1>3. \A x \in b.x..((b.x + b.q) - 1) : x \in 0..(t - 1)
  BY <1>1, <1>2
<1>4. \A y \in b.y..((b.y + b.p) - 1) : y \in 0..(t - 1)
  BY <1>1, <1>2
<1>5. \A x, y \in 0..(t - 1) : Cell(x, y) \in Grid(t)
  BY DEF Grid
<1>6. ASSUME NEW c \in CellsOf(b) PROVE c \in Grid(t)
  <2>1. PICK x \in b.x..(MaxX(b) - 1), y \in b.y..(MaxY(b) - 1) : c = Cell(x, y)
    BY CellsIn, Zenon
  <2>2. x \in b.x..((b.x + b.q) - 1) /\ y \in b.y..((b.y + b.p) - 1)
    BY <2>1 DEF MaxX, MaxY
  <2> QED
    BY <1>3, <1>4, <1>5, <2>1, <2>2
<1> QED
  BY <1>6 DEF b

\* SubQuad is given a quarter exactly when the box has cells there or is at its
\* edge, and the part of the box it is given has exactly those cells.
LEMMA SubQuadCells ==
  ASSUME NEW s \in Nat \ {0}, NEW square \in Squares, Fits(square.box, 2 * s), NEW k \in 1..4
  PROVE  /\ Touches(square, s, k) => Fits(SubQuad(square, s, k).box, s)
         /\ \A e \in Grid(s) :
              Shifted(square.rotation, s, k, e) \in CellsOf(square.box)
              <=> /\ Touches(square, s, k)
                  /\ e \in CellsOf(SubQuad(square, s, k).box)
<1> DEFINE b == square.box
           i == Quarters[square.rotation][k][1]
           j == Quarters[square.rotation][k][2]
           a == SubQuad(square, s, k).box
<1>1. b.x \in Nat /\ b.y \in Nat /\ b.p \in Nat /\ b.q \in Nat
  BY DEF Squares
<1>2. b.x + b.q <= 2 * s /\ b.y + b.p <= 2 * s
  BY DEF Fits
<1>3. i \in {0, 1} /\ j \in {0, 1}
  <2>1. square.rotation \in Rotations
    BY DEF Squares, Rotations
  <2> QED
    BY <2>1, QuarterTable
<1>4. Touches(square, s, k) <=> Meets(b.x, b.q, s, i) /\ Meets(b.y, b.p, s, j)
  BY DEF Touches
<1>5. a = [x |-> Start(b.x, s, i), y |-> Start(b.y, s, j),
           p |-> Length(b.y, b.p, s, j), q |-> Length(b.x, b.q, s, i)]
  BY DEF SubQuad
<1>6. \A e : Shifted(square.rotation, s, k, e) = Cell(e.x + s * i, e.y + s * j)
  BY DEF Shifted, Corner, Cell
<1> HIDE DEF b, i, j, a
<1>7. Touches(square, s, k) => Fits(a, s)
  <2> SUFFICES ASSUME Touches(square, s, k) PROVE Fits(a, s)
    OBVIOUS
  <2>1. /\ Start(b.x, s, i) + Length(b.x, b.q, s, i) <= s
        /\ Start(b.y, s, j) + Length(b.y, b.p, s, j) <= s
    BY <1>1, <1>2, <1>3, <1>4, AxisPart
  <2> QED
    BY <1>5, <2>1 DEF Fits
<1>8. ASSUME NEW e \in Grid(s)
      PROVE  Cell(e.x + s * i, e.y + s * j) \in CellsOf(b)
             <=> Touches(square, s, k) /\ e \in CellsOf(a)
  <2>1. e = Cell(e.x, e.y) /\ e.x \in 0..(s - 1) /\ e.y \in 0..(s - 1)
    BY DEF Grid, Cell
  <2>2. \A u, v, o : Cell(u, v) \in CellsOf(o)
                  <=> u \in o.x..((o.x + o.q) - 1) /\ v \in o.y..((o.y + o.p) - 1)
    BY CellsIn, Zenon DEF MaxX, MaxY
  <2>3. e.x + s * i \in b.x..((b.x + b.q) - 1)
        <=> /\ Meets(b.x, b.q, s, i)
            /\ e.x \in Start(b.x, s, i)..((Start(b.x, s, i) + Length(b.x, b.q, s, i)) - 1)
    <3>1. PICK lo \in Nat, len \in Nat : lo = b.x /\ len = b.q
      BY <1>1
    <3>2. lo + len <= 2 * s /\ e.x \in 0..(s - 1)
      BY <1>2, <2>1, <3>1
    <3>3. e.x + s * i \in lo..((lo + len) - 1)
          <=> /\ Meets(lo, len, s, i)
              /\ e.x \in Start(lo, s, i)..((Start(lo, s, i) + Length(lo, len, s, i)) - 1)
      BY <1>3, <3>2, AxisPart
    <3> QED
      BY <3>1, <3>3
  <2>4. e.y + s * j \in b.y..((b.y + b.p) - 1)
        <=> /\ Meets(b.y, b.p, s, j)
            /\ e.y \in Start(b.y, s, j)..((Start(b.y, s, j) + Length(b.y, b.p, s, j)) - 1)
    <3>1. PICK lo \in Nat, len \in Nat : lo = b.y /\ len = b.p
      BY <1>1
    <3>2. lo + len <= 2 * s /\ e.y \in 0..(s - 1)
      BY <1>2, <2>1, <3>1
    <3>3. e.y + s * j \in lo..((lo + len) - 1)
          <=> /\ Meets(lo, len, s, j)
              /\ e.y \in Start(lo, s, j)..((Start(lo, s, j) + Length(lo, len, s, j)) - 1)
      BY <1>3, <3>2, AxisPart
    <3> QED
      BY <3>1, <3>3
  <2>5. Cell(e.x + s * i, e.y + s * j) \in CellsOf(b)
        <=> e.x + s * i \in b.x..((b.x + b.q) - 1) /\ e.y + s * j \in b.y..((b.y + b.p) - 1)
    BY <2>2, Zenon
  <2>6. e \in CellsOf(a)
        <=> e.x \in a.x..((a.x + a.q) - 1) /\ e.y \in a.y..((a.y + a.p) - 1)
    <3>1. Cell(e.x, e.y) \in CellsOf(a)
          <=> e.x \in a.x..((a.x + a.q) - 1) /\ e.y \in a.y..((a.y + a.p) - 1)
      BY <2>2, Zenon
    <3> QED
      BY <3>1, <2>1, Zenon
  <2>7. /\ a.x = Start(b.x, s, i) /\ a.q = Length(b.x, b.q, s, i)
        /\ a.y = Start(b.y, s, j) /\ a.p = Length(b.y, b.p, s, j)
    BY <1>5
  <2> QED
    BY <1>4, <2>3, <2>4, <2>5, <2>6, <2>7, Zenon
<1> QED
  BY <1>6, <1>7, <1>8 DEF a, b, i, j

\* The numbers of the box's cells in the k-th quarter.
PartNumbers(square, s, k) ==
    {square.min + Number(square.rotation, 2 * s, Shifted(square.rotation, s, k, e)) :
        e \in {c \in Grid(s) :
                 Shifted(square.rotation, s, k, c) \in CellsOf(square.box)}}

\* The quarters together have the numbers of the box.
LEMMA PartsTogether ==
  ASSUME NEW s \in Nat \ {0}, NEW square \in Squares, Fits(square.box, 2 * s)
  PROVE  BoxNumbers(square, 2 * s) = UNION {PartNumbers(square, s, k) : k \in 1..4}
<1> DEFINE rot == square.rotation
<1>1. rot \in Rotations
  BY DEF Squares, Rotations
<1>2. ASSUME NEW c \in CellsOf(square.box)
      PROVE  \E k \in 1..4 : square.min + Number(rot, 2 * s, c) \in PartNumbers(square, s, k)
  <2>1. c \in Grid(2 * s)
    <3>1. 2 * s \in Nat
      OBVIOUS
    <3> QED
      BY <3>1, BoxInGrid
  <2>2. PICK k \in 1..4 : \E e \in Grid(s) : c = Shifted(rot, s, k, e)
    BY <1>1, <2>1, VisitedQuarter
  <2>3. PICK e \in Grid(s) : c = Shifted(rot, s, k, e)
    BY <2>2
  <2>4. e \in {u \in Grid(s) : Shifted(rot, s, k, u) \in CellsOf(square.box)}
    BY <2>3
  <2>5. square.min + Number(rot, 2 * s, Shifted(rot, s, k, e)) \in PartNumbers(square, s, k)
    BY <2>4, Zenon DEF PartNumbers
  <2> QED
    BY <2>3, <2>5
<1>3. ASSUME NEW k \in 1..4, NEW d \in PartNumbers(square, s, k)
      PROVE  d \in BoxNumbers(square, 2 * s)
  BY Zenon DEF PartNumbers, BoxNumbers
<1>4. ASSUME NEW d \in BoxNumbers(square, 2 * s)
      PROVE  d \in UNION {PartNumbers(square, s, k) : k \in 1..4}
  BY <1>2 DEF BoxNumbers
<1> QED
  BY <1>3, <1>4

\* What is done for one quarter.
LEMMA IntoFills ==
  ASSUME NEW s \in Sides, Splits(s), NEW square \in Squares, Fits(square.box, 2 * s),
         NEW k \in 1..4, NEW L \in RangeLists, NEW j \in Nat,
         Grown(L, j, square.min + s * s * (k - 1))
  PROVE  LET K == Into(s, square, k, L)
         IN  /\ K \in RangeLists /\ Grown(K, j, square.min + s * s * k)
             /\ Numbers(K) = Numbers(L) \cup PartNumbers(square, s, k)
<1> DEFINE q == s * s
           rot == square.rotation
           m == square.min + q * (k - 1)
<1>1. s \in Nat \ {0} /\ q \in Nat /\ square.min \in Nat /\ rot \in Rotations
  BY SidesDouble DEF Squares, Rotations
<1>2. m + q = square.min + q * k /\ m \in Nat
  <2> HIDE DEF q
  <2>1. q * k = q * (k - 1) + q /\ q * (k - 1) \in Nat
    BY <1>1
  <2> QED
    BY <1>1, <2>1
<1>3. \A e \in Grid(s) : Shifted(rot, s, k, e) \in CellsOf(square.box)
                     <=> Touches(square, s, k) /\ e \in CellsOf(SubQuad(square, s, k).box)
  BY <1>1, SubQuadCells
<1>4. CASE Touches(square, s, k)
  <2> DEFINE sub == SubQuad(square, s, k)
             K == SplitQuad[s][sub][L]
  <2>1. sub \in Squares
    BY <1>1, <1>4, SubQuadIn
  <2>2. Fits(sub.box, s)
    BY <1>1, <1>4, SubQuadCells
  <2>3. sub.min = m /\ sub.rotation = Quarters[rot][k][3]
    BY DEF SubQuad
  <2>4. Into(s, square, k, L) = K
    BY <1>4 DEF Into
  <2>5. CellsOf(sub.box) \subseteq Grid(s)
    BY <1>1, <2>1, <2>2, BoxInGrid
  <2> HIDE DEF sub
  <2>6. Fills(K, L, j, sub, s)
    BY <2>1, <2>2, <2>3 DEF Splits
  <2>7. \A e \in Grid(s) : square.min + Number(rot, 2 * s, Shifted(rot, s, k, e))
                           = sub.min + Number(sub.rotation, s, e)
    <3> SUFFICES ASSUME NEW e \in Grid(s)
                 PROVE  square.min + Number(rot, 2 * s, Shifted(rot, s, k, e))
                         = sub.min + Number(sub.rotation, s, e)
      OBVIOUS
    <3>1. Number(rot, 2 * s, Shifted(rot, s, k, e)) = q * (k - 1) + Number(sub.rotation, s, e)
      BY <1>1, <2>3, NumberQuarter
    <3>2. Number(sub.rotation, s, e) \in Int
      <4>1. sub.rotation \in Rotations
        BY <2>1 DEF Squares, Rotations
      <4>2. Number(sub.rotation, s, e) \in 0..(s * s - 1)
        BY <4>1, <1>1, TurnIn, EncodeInverts DEF Number
      <4> QED
        BY <4>2
    <3>3. q * (k - 1) \in Int
      BY <1>1
    <3> HIDE DEF q
    <3> QED
      BY <1>1, <2>3, <3>1, <3>2, <3>3
  <2>8. PartNumbers(square, s, k) = BoxNumbers(sub, s)
    <3>1. {c \in Grid(s) : Shifted(rot, s, k, c) \in CellsOf(square.box)}
            = CellsOf(sub.box)
      BY <1>3, <1>4, <2>5 DEF sub
    <3>2. PartNumbers(square, s, k)
            = {square.min + Number(rot, 2 * s, Shifted(rot, s, k, e)) : e \in CellsOf(sub.box)}
      BY <3>1 DEF PartNumbers
    <3> QED
      BY <3>2, <2>5, <2>7 DEF BoxNumbers
  <2> QED
    BY <1>2, <2>3, <2>4, <2>6, <2>8 DEF Fills
<1>5. CASE ~Touches(square, s, k)
  <2>1. Into(s, square, k, L) = L
    BY <1>5 DEF Into
  <2>2. PartNumbers(square, s, k) = {}
    BY <1>3, <1>5 DEF PartNumbers
  <2>3. Grown(L, j, square.min + q * k)
    <3>1. \A i \in (j + 1)..Len(L) : L[i][2] \in Nat /\ L[i][2] < m
      BY ListParts DEF Grown
    <3>2. m <= m + q
      BY <1>1, <1>2
    <3> HIDE DEF m, q
    <3>3. \A i \in (j + 1)..Len(L) : L[i][2] < m + q
      BY <3>1, <3>2, <1>1, <1>2
    <3> QED
      BY <3>3, <1>2 DEF Grown
  <2> QED
    BY <2>1, <2>2, <2>3
<1> QED
  BY <1>4, <1>5

\* SplitQuad adds exactly the numbers of the box, in tidy ranges.
LEMMA SplitQuadFills == \A t \in Sides : Splits(t)
<1> DEFINE P == {t \in Sides : Splits(t)}
<1>0. ASSUME NEW t \in Sides, NEW square \in Squares, NEW L \in RangeLists, NEW j \in Nat,
             Fits(square.box, t), Grown(L, j, square.min),
             t = square.box.p, t = square.box.q
      PROVE  Fills(SplitQuad[t][square][L], L, j, square, t)
  <2> DEFINE a == square.min
             q == t * t
             b == a + q - 1
             K == AddRange(L, <<a, b>>)
  <2>1. t \in Nat \ {0} /\ a \in Nat /\ q \in Nat \ {0} /\ square.rotation \in Rotations
    BY SidesDouble DEF Squares, Rotations
  <2>2. SplitQuad[t][square][L] = K
    BY <2>1, <1>0, SplitQuadStep
  <2>3. b \in Nat /\ a <= b /\ b + 1 = a + q
    <3> HIDE DEF a, q
    <3> QED
      BY <2>1
  <2> HIDE DEF b, K, q
  <2>4. /\ K \in RangeLists /\ Grown(K, j, b + 1)
        /\ Numbers(K) = Numbers(L) \cup a..b
    BY <1>0, <2>1, <2>3, AddRangeGrows DEF K
  <2>5. CellsOf(square.box) = Grid(t)
    <3>1. square.box.x \in Nat /\ square.box.y \in Nat
      BY DEF Squares
    <3>2. square.box.x = 0 /\ square.box.y = 0
      BY <1>0, <2>1, <3>1 DEF Fits
    <3>3. 0 + t - 1 = t - 1
      BY <2>1
    <3>4. MaxX(square.box) = t /\ MaxY(square.box) = t
      <4>1. square.box.p = t /\ square.box.q = t
        BY <1>0
      <4>2. 0 + t = t
        BY <2>1
      <4> QED
        BY ONLY <4>1, <4>2, <3>2 DEF MaxX, MaxY
    <3> QED
      BY <3>2, <3>4 DEF CellsOf, Grid
  <2>6. BoxNumbers(square, t) = a..b
    <3> DEFINE N == {Number(square.rotation, t, c) : c \in Grid(t)}
    <3>1. N = 0..(q - 1)
      BY <2>1, NumberOnto DEF q
    <3>2. BoxNumbers(square, t) = {a + d : d \in N}
      BY <2>5 DEF BoxNumbers
    <3> HIDE DEF N, a
    <3>3. \A d \in 0..(q - 1) : a + d \in a..b
      BY <2>1 DEF b
    <3>4. \A e \in a..b : e - a \in 0..(q - 1) /\ a + (e - a) = e
      BY <2>1, <2>3 DEF b
    <3>5. {a + d : d \in 0..(q - 1)} = a..b
      BY <3>3, <3>4
    <3> QED
      BY <3>1, <3>2, <3>5
  <2> QED
    BY <2>2, <2>3, <2>4, <2>6 DEF Fills, q
<1>1. 1 \in P
  <2>1. 1 \in Sides
    BY SidesDouble
  <2>2. ASSUME NEW square \in Squares, NEW L \in RangeLists, NEW j \in Nat,
               Fits(square.box, 1), Grown(L, j, square.min)
        PROVE  Fills(SplitQuad[1][square][L], L, j, square, 1)
    <3>1. CASE 1 = square.box.p /\ 1 = square.box.q
      BY <1>0, <2>1, <2>2, <3>1
    <3>2. CASE ~(1 = square.box.p /\ 1 = square.box.q)
      <4>1. SplitQuad[1][square][L] = L
        <5>1. 1 \in Nat \ {0} /\ 1 <= 1
          OBVIOUS
        <5> QED
          BY <3>2, <5>1, SplitQuadStep
      <4>2. CellsOf(square.box) = {}
        <5>1. /\ square.box.x \in Nat /\ square.box.y \in Nat
              /\ square.box.p \in Nat /\ square.box.q \in Nat
          BY DEF Squares
        <5>2. square.box.x + square.box.q <= 1 /\ square.box.y + square.box.p <= 1
          BY <2>2 DEF Fits
        <5>3. square.box.p = 0 \/ square.box.q = 0
          BY ONLY <5>1, <5>2, <3>2
        <5> QED
          BY <5>1, <5>3 DEF CellsOf, MaxX, MaxY
      <4>3. BoxNumbers(square, 1) = {}
        BY <4>2 DEF BoxNumbers
      <4>4. Grown(L, j, square.min + 1 * 1)
        <5>1. square.min \in Nat
          BY DEF Squares
        <5>2. \A i \in (j + 1)..Len(L) : L[i][2] \in Nat /\ L[i][2] < square.min
          BY <2>2, ListParts DEF Grown
        <5>3. \A i \in (j + 1)..Len(L) : L[i][2] < square.min + 1 * 1
          BY <5>1, <5>2
        <5> QED
          BY <2>2, <5>3 DEF Grown
      <4> QED
        BY <2>2, <4>1, <4>3, <4>4 DEF Fills
    <3> QED
      BY <3>1, <3>2
  <2> QED
    BY <2>1, <2>2 DEF Splits
<1>2. ASSUME NEW s \in P PROVE 2 * s \in P
  <2>1. s \in Sides /\ s \in Nat \ {0} /\ Splits(s) /\ 2 * s \in Sides
    BY SidesDouble
  <2> HIDE DEF P
  <2>2. ASSUME NEW square \in Squares, NEW L \in RangeLists, NEW j \in Nat,
               Fits(square.box, 2 * s), Grown(L, j, square.min)
        PROVE  Fills(SplitQuad[2 * s][square][L], L, j, square, 2 * s)
    <3>1. CASE 2 * s = square.box.p /\ 2 * s = square.box.q
      BY <1>0, <2>1, <2>2, <3>1
    <3>2. CASE ~(2 * s = square.box.p /\ 2 * s = square.box.q)
      <4> DEFINE q == s * s
                 m == square.min
                 K1 == Into(s, square, 1, L)
                 K2 == Into(s, square, 2, K1)
                 K3 == Into(s, square, 3, K2)
                 K4 == Into(s, square, 4, K3)
      <4>1. SplitQuad[2 * s][square][L] = K4
        <5>1. 2 * s \in Nat \ {0} /\ (2 * s) \div 2 = s /\ ~(2 * s <= 1)
          BY <2>1
        <5>2. SplitQuad[2 * s][square][L]
                = Into((2 * s) \div 2, square, 4, Into((2 * s) \div 2, square, 3,
                    Into((2 * s) \div 2, square, 2, Into((2 * s) \div 2, square, 1, L))))
          BY <3>2, <5>1, SplitQuadStep, Zenon
        <5> QED
          BY <5>1, <5>2
      <4>2. m \in Nat /\ q \in Nat
        BY <2>1 DEF Squares
      <4>3. Grown(L, j, m + q * (1 - 1))
        <5>1. m + q * (1 - 1) = m
          BY <4>2
        <5> QED
          BY <5>1, <2>2
      <4>4. 2 - 1 = 1 /\ 3 - 1 = 2 /\ 4 - 1 = 3
        OBVIOUS
      <4>5. 1 \in 1..4 /\ 2 \in 1..4 /\ 3 \in 1..4 /\ 4 \in 1..4
        OBVIOUS
      <4> HIDE DEF K4
      <4>6. /\ K1 \in RangeLists /\ Grown(K1, j, m + q * 1)
            /\ Numbers(K1) = Numbers(L) \cup PartNumbers(square, s, 1)
        BY <2>1, <2>2, <4>3, <4>5, IntoFills
      <4> HIDE DEF K1
      <4>7. /\ K2 \in RangeLists /\ Grown(K2, j, m + q * 2)
            /\ Numbers(K2) = Numbers(K1) \cup PartNumbers(square, s, 2)
        BY <2>1, <2>2, <4>4, <4>5, <4>6, IntoFills
      <4> HIDE DEF K2
      <4>8. /\ K3 \in RangeLists /\ Grown(K3, j, m + q * 3)
            /\ Numbers(K3) = Numbers(K2) \cup PartNumbers(square, s, 3)
        BY <2>1, <2>2, <4>4, <4>5, <4>7, IntoFills
      <4> HIDE DEF K3
      <4>9. /\ K4 \in RangeLists /\ Grown(K4, j, m + q * 4)
            /\ Numbers(K4) = Numbers(K3) \cup PartNumbers(square, s, 4)
        BY <2>1, <2>2, <4>4, <4>5, <4>8, IntoFills DEF K4
      <4>10. m + q * 4 = m + (2 * s) * (2 * s)
        BY <2>1
      <4>11. Numbers(K4) = Numbers(L) \cup BoxNumbers(square, 2 * s)
        <5>1. \A k : k \in 1..4 <=> k = 1 \/ k = 2 \/ k = 3 \/ k = 4
          OBVIOUS
        <5>2. BoxNumbers(square, 2 * s)
                = UNION {PartNumbers(square, s, k) : k \in 1..4}
          BY <2>1, <2>2, PartsTogether
        <5> HIDE DEF q, m
        <5> QED
          BY <5>1, <5>2, <4>6, <4>7, <4>8, <4>9
      <4> QED
        BY <4>1, <4>9, <4>10, <4>11 DEF Fills
    <3> QED
      BY <3>1, <3>2
  <2>3. Splits(2 * s)
    BY <2>2 DEF Splits
  <2> QED
    BY <2>1, <2>3 DEF P
<1>3. P \in SUBSET Sides
  OBVIOUS
<1> HIDE DEF P
<1>4. \A n \in Sides : n \in P
  BY <1>1, <1>2, <1>3, SidesInduction
<1> QED
  BY <1>4 DEF P

-----------------------------------------------------------------------------
(* Joining ranges *)

\* f is what step makes of base, again and again.
Iterates(f, base, step) ==
    f[0] = base /\ \A i \in Nat : f[i + 1] = step[<<i + 1, f[i]>>]

\* A function on 0, 1, 2... whose next value is read off the one before.
LEMMA Iteration ==
  ASSUME NEW S, NEW base \in S, NEW step \in [Nat \X S -> S]
  PROVE  \E f \in [Nat -> S] : Iterates(f, base, step)
<1> DEFINE from == [k \in Nat |-> IF k = 0 THEN 0 ELSE k - 1]
<1>1. Descends(from)
  BY DEF Descends
<1>2. \A i \in Nat : from[i + 1] = i /\ i + 1 \in Nat \ {0}
  OBVIOUS
<1> HIDE DEF from
<1>3. PICK f \in [Nat -> S] : Computes(f, base, step, from)
  BY <1>1, Recursion
<1>4. Iterates(f, base, step)
  BY <1>2, <1>3 DEF Computes, Iterates
<1> QED
  BY <1>4

\* The states of a pass of CompactRanges.
Passes == [out : RangeLists \ {<< >>}, next : Nat]

\* States are records of a list and a distance.
LEMMA PassIn ==
  ASSUME NEW K \in RangeLists, K # << >>, NEW next \in Nat, NEW state,
         state = [out |-> K, next |-> next]
  PROVE  state \in Passes
BY DEF Passes

\* A difference of ulongs is a ulong.
LEMMA MinusIn ==
  ASSUME NEW a \in Nat, NEW b \in Nat
  PROVE  Minus(a, b) \in Nat /\ Minus(a, b) <= ULong - 1
<1>1. ULong \in Nat \ {0} /\ a - b \in Int
  BY ULongAssumption
<1>2. (a - b) % ULong \in Int /\ 0 <= (a - b) % ULong /\ (a - b) % ULong < ULong
  BY <1>1, DivMod
<1> QED
  BY <1>1, <1>2 DEF Minus

\* What Join does to the list it is given.
Joins(state, r, tolerance, now) ==
    LET L == state.out
        n == Len(L)
        diff == Minus(r[1], L[n][2])
        K == now.out
    IN  /\ n \in Nat \ {0} /\ diff \in Nat /\ now \in Passes
        /\ diff <= tolerance =>
              /\ now.next = state.next
              /\ Len(K) = n /\ K[n] = <<L[n][1], r[2]>>
              /\ \A k \in 1..(n - 1) : K[k] = L[k]
        /\ ~(diff <= tolerance) =>
              /\ now.next = Lesser(diff, state.next)
              /\ Len(K) = n + 1 /\ K[n + 1] = r
              /\ \A k \in 1..n : K[k] = L[k]

\* Join does.
LEMMA JoinIs ==
  ASSUME NEW state \in Passes, NEW r \in Nat \X Nat, NEW tolerance \in Nat
  PROVE  Joins(state, r, tolerance, Join(state, r, tolerance))
<1> DEFINE L == state.out
           n == Len(L)
           diff == Minus(r[1], L[n][2])
           now == Join(state, r, tolerance)
           K == now.out
           T == Nat \X Nat
<1>1. L \in RangeLists /\ L # << >> /\ state.next \in Nat
      /\ state = [out |-> L, next |-> state.next]
  BY DEF Passes
<1>2. /\ n \in Nat /\ n # 0 /\ n \in 1..n /\ L[n] \in T /\ L[n][1] \in Nat /\ L[n][2] \in Nat
      /\ Last(L) = L[n] /\ r[1] \in Nat /\ r[2] \in Nat
  BY <1>1, ListParts
<1>3. diff \in Nat
  BY <1>2, MinusIn
<1>4. CASE diff <= tolerance
  <2> DEFINE new == <<L[n][1], r[2]>>
  <2>1. new \in T
    BY <1>2
  <2>2. now = [state EXCEPT !.out = Front(L) \o <<new>>]
    BY <1>2, <1>4 DEF Join
  <2>3. K = Front(L) \o <<new>> /\ now.next = state.next
        /\ now = [out |-> K, next |-> now.next]
    BY <1>1, <2>2
  <2> HIDE DEF new, now, K, T
  <2>4. L \in Seq(T)
    BY <1>1 DEF RangeLists, T
  <2>5. K \in Seq(T) /\ Len(K) = n /\ K[n] = new /\ \A k \in 1..(n - 1) : K[k] = L[k]
    BY <1>1, <2>1, <2>3, <2>4, LastReplaced
  <2>6. K \in RangeLists /\ K # << >>
    <3>1. K \in RangeLists
      BY <2>5 DEF RangeLists, T
    <3> QED
      BY <3>1, <2>5, <1>2, ListParts
  <2>7. now \in Passes
    <3>1. now.next \in Nat
      BY <1>1, <2>3
    <3> QED
      BY <2>3, <2>6, <3>1, PassIn, Zenon
  <2> QED
    BY <1>2, <1>3, <1>4, <2>3, <2>5, <2>7 DEF new, K, now, Joins
<1>5. CASE ~(diff <= tolerance)
  <2>1. now = [out |-> Append(L, r), next |-> Lesser(diff, state.next)]
    BY <1>2, <1>5 DEF Join
  <2>2. K = Append(L, r) /\ now.next = Lesser(diff, state.next)
        /\ now = [out |-> K, next |-> now.next]
    BY <2>1
  <2>3. now.next \in Nat
    BY <1>1, <1>3, <2>2 DEF Lesser
  <2> HIDE DEF now, K, T, n
  <2>4. L \in Seq(T) /\ r \in T
    BY <1>1 DEF RangeLists, T
  <2>5. K \in Seq(T) /\ Len(K) = n + 1 /\ K[n + 1] = r /\ \A k \in 1..n : K[k] = L[k]
    BY <2>2, <2>4 DEF n
  <2>6. K \in RangeLists /\ K # << >>
    <3>1. K \in RangeLists
      BY <2>5 DEF RangeLists, T
    <3> QED
      BY <3>1, <2>5, <1>2, ListParts
  <2>7. now \in Passes
    BY <2>2, <2>3, <2>6, PassIn, Zenon
  <2> QED
    BY <1>2, <1>3, <1>5, <2>2, <2>5, <2>7 DEF K, now, n, Joins
<1> QED
  BY <1>4, <1>5

\* A pass goes through the ranges one by one.
LEMMA JoinNearIs ==
  ASSUME NEW L \in RangeLists \ {<< >>}, NEW tolerance \in Nat
  PROVE  \E u \in [1..Len(L) -> Passes] :
            /\ u[1] = [out |-> <<L[1]>>, next |-> ULong - 1]
            /\ \A k \in 2..Len(L) : u[k] = Join(u[k - 1], L[k], tolerance)
            /\ JoinNear(L, tolerance) = u[Len(L)]
<1> DEFINE N == Len(L)
           first == [out |-> <<L[1]>>, next |-> ULong - 1]
           At(k) == IF k \in 1..N THEN L[k] ELSE <<0, 0>>
           step == [p \in Nat \X Passes |-> Join(p[2], At(p[1] + 1), tolerance)]
           Body(g) == [k \in 1..N |-> IF k = 1 THEN first ELSE Join(g[k - 1], L[k], tolerance)]
<1>1. N \in Nat \ {0} /\ \A k \in 1..N : L[k] \in Nat \X Nat
  BY ListParts
<1>2. first \in Passes
  <2>1. <<L[1]>> \in RangeLists
    <3> DEFINE T == Nat \X Nat
    <3>1. L[1] \in T
      BY <1>1
    <3> HIDE DEF T
    <3>2. <<L[1]>> \in Seq(T)
      BY <3>1
    <3> QED
      BY <3>2 DEF RangeLists, T
  <2>2. <<L[1]>> # << >> /\ ULong - 1 \in Nat
    BY ULongAssumption
  <2> QED
    BY <2>1, <2>2 DEF Passes
<1>3. \A k : At(k) \in Nat \X Nat
  BY <1>1
<1> HIDE DEF N, first, At
<1>4. \A v \in Passes : \A k : Join(v, At(k), tolerance) \in Passes
  BY <1>3, JoinIs DEF Joins
<1>5. step \in [Nat \X Passes -> Passes]
  BY <1>4
<1>6. PICK f \in [Nat -> Passes] : Iterates(f, first, step)
  <2> HIDE DEF step
  <2> QED
    BY <1>2, <1>5, Iteration
<1> DEFINE h == [k \in 1..N |-> f[k - 1]]
<1>7. h[1] = first
  <2>1. 1 \in 1..N /\ 1 - 1 = 0
    BY <1>1
  <2> QED
    BY <1>6, <2>1 DEF Iterates
<1>8. ASSUME NEW k \in 1..N, k # 1 PROVE h[k] = Join(h[k - 1], L[k], tolerance)
  <2>1. k - 2 \in Nat /\ (k - 2) + 1 = k - 1 /\ ((k - 2) + 1) + 1 = k
        /\ k - 1 \in 1..N /\ (k - 1) - 1 = k - 2
    BY <1>1, <1>8
  <2>2. f[(k - 2) + 1] = step[<<(k - 2) + 1, f[k - 2]>>]
    BY <1>6, <2>1 DEF Iterates
  <2>3. f[k - 2] \in Passes /\ k - 1 \in Nat
    BY <2>1
  <2>4. step[<<k - 1, f[k - 2]>>] = Join(f[k - 2], At((k - 1) + 1), tolerance)
    BY <2>3
  <2>5. At((k - 1) + 1) = L[k]
    BY <2>1 DEF At
  <2>6. h[k] = f[k - 1] /\ h[k - 1] = f[k - 2]
    BY <2>1
  <2> HIDE DEF h, step
  <2> QED
    BY <2>1, <2>2, <2>4, <2>5, <2>6
<1>9. h = Body(h)
  <2>1. \A k \in 1..N : h[k] = IF k = 1 THEN first ELSE Join(h[k - 1], L[k], tolerance)
    <3> HIDE DEF h
    <3> QED
      BY <1>7, <1>8
  <2>2. h = [k \in 1..N |-> h[k]]
    OBVIOUS
  <2> HIDE DEF h
  <2> QED
    BY <2>1, <2>2
<1>10. \E u : u = Body(u) /\ JoinNear(L, tolerance) = u[N]
  <2> HIDE DEF h
  <2> QED
    BY <1>9, Zenon DEF JoinNear, N, first
<1>11. PICK u : u = Body(u) /\ JoinNear(L, tolerance) = u[N]
  BY <1>10
<1>12. DOMAIN u = 1..N /\ \A k \in 1..N :
            u[k] = IF k = 1 THEN first ELSE Join(u[k - 1], L[k], tolerance)
  BY <1>11
<1>13. \A k \in 1..N : u[k] \in Passes
  <2> DEFINE P == {i \in Nat : i + 1 \in 1..N => u[i + 1] \in Passes}
  <2>1. 0 \in P
    <3>1. 0 + 1 = 1 /\ 1 \in 1..N
      BY <1>1
    <3> QED
      BY <3>1, <1>2, <1>12
  <2>2. ASSUME NEW i \in P PROVE i + 1 \in P
    <3>1. i \in Nat /\ i + 1 \in Nat
      OBVIOUS
    <3>2. CASE (i + 1) + 1 \in 1..N
      <4>1. i + 1 \in 1..N /\ (i + 1) + 1 # 1 /\ ((i + 1) + 1) - 1 = i + 1
        BY <1>1, <3>1, <3>2
      <4>2. u[i + 1] \in Passes
        BY <4>1
      <4>3. u[(i + 1) + 1] = Join(u[i + 1], L[(i + 1) + 1], tolerance)
        BY <1>12, <3>2, <4>1
      <4>4. L[(i + 1) + 1] = At((i + 1) + 1)
        BY <3>2 DEF At
      <4> QED
        BY <1>4, <4>2, <4>3, <4>4, <3>1
    <3> QED
      BY <3>1, <3>2
  <2>3. P \in SUBSET Nat
    OBVIOUS
  <2>4. \A i \in Nat : i \in P
    <3> HIDE DEF P
    <3> QED
      BY <2>1, <2>2, <2>3, Inductive
  <2>5. \A k \in 1..N : k - 1 \in Nat /\ (k - 1) + 1 = k
    BY <1>1
  <2> QED
    BY <2>4, <2>5
<1>14. u \in [1..N -> Passes]
  <2>1. u = [k \in 1..N |-> u[k]]
    BY <1>11
  <2> QED
    BY <2>1, <1>13
<1>15. u[1] = first
  BY <1>1, <1>12
<1>16. \A k \in 2..N : u[k] = Join(u[k - 1], L[k], tolerance)
  <2>1. \A k \in 2..N : k \in 1..N /\ k # 1
    BY <1>1
  <2> QED
    BY <2>1, <1>12
<1> QED
  BY <1>11, <1>14, <1>15, <1>16 DEF N, first

-----------------------------------------------------------------------------
(* A pass of CompactRanges *)

\* Two adjacent ranges that a pass with the tolerance joins.
Near(L, tolerance) == \E j \in 2..Len(L) : Minus(L[j][1], L[j - 1][2]) <= tolerance

\* What a pass over L has made of the first k ranges: nothing of them is lost, the
\* distance it found is one there is, and it has joined ranges if any were near.
PassInv(state, L, k, tolerance) ==
    LET K == state.out
        n == Len(K)
    IN  /\ Tidy(K) /\ EndBelow(K, ULong)
        /\ n <= k /\ K[n][2] = L[k][2]
        /\ \A i \in 1..k : \A d \in Nat : L[i][1] <= d /\ d <= L[i][2] => d \in Numbers(K)
        /\ n = 1 => state.next = ULong - 1
        /\ n >= 2 => Near(K, state.next)
        /\ (\E j \in 2..k : Minus(L[j][1], L[j - 1][2]) <= tolerance) => n < k

\* A pass begins with the first range.
LEMMA PassBegins ==
  ASSUME NEW L \in RangeLists \ {<< >>}, Tidy(L), EndBelow(L, ULong), NEW tolerance,
         NEW state, state = [out |-> <<L[1]>>, next |-> ULong - 1]
  PROVE  PassInv(state, L, 1, tolerance)
<1> DEFINE K == state.out
<1>1. Len(L) \in Nat /\ 1 \in 1..Len(L) /\ L[1] \in Nat \X Nat
  BY ListParts
<1>2. L[1][1] <= L[1][2] /\ L[1][2] < ULong
  BY <1>1 DEF Tidy, EndBelow
<1>3. K = <<L[1]>> /\ state.next = ULong - 1
  OBVIOUS
<1> HIDE DEF K
<1>4. Len(K) = 1 /\ K[1] = L[1]
  BY <1>3
<1>5. /\ \A k : k \in 1..1 <=> k = 1
      /\ \A k : k \notin 2..1
  OBVIOUS
<1>6. Tidy(K) /\ EndBelow(K, ULong)
  BY <1>2, <1>4, <1>5 DEF Tidy, EndBelow
<1>7. \A d \in Nat : L[1][1] <= d /\ d <= L[1][2] => d \in Numbers(K)
  BY <1>4, <1>5 DEF Numbers
<1>8. ~(1 >= 2) /\ 1 <= 1
  OBVIOUS
<1> QED
  BY <1>3, <1>4, <1>5, <1>6, <1>7, <1>8 DEF PassInv, K

\* A pass goes on with the next.
LEMMA PassStep ==
  ASSUME NEW L \in RangeLists, Tidy(L), EndBelow(L, ULong), NEW tolerance \in Nat,
         NEW k \in 2..Len(L), NEW state \in Passes, PassInv(state, L, k - 1, tolerance)
  PROVE  PassInv(Join(state, L[k], tolerance), L, k, tolerance)
<1> DEFINE K == state.out
           n == Len(K)
           r == L[k]
           diff == Minus(r[1], K[n][2])
           now == Join(state, r, tolerance)
           M == now.out
<1>1. /\ Len(L) \in Nat /\ k \in Nat /\ k - 1 \in 1..Len(L) /\ k \in 1..Len(L) /\ k - 1 \in Nat
      /\ r \in Nat \X Nat /\ r[1] \in Nat /\ r[2] \in Nat /\ L[k - 1][2] \in Nat
  BY ListParts
<1>2. /\ r[1] <= r[2] /\ r[2] < ULong /\ L[k - 1][2] + 1 < r[1]
  BY <1>1 DEF Tidy, EndBelow
<1>3. K \in RangeLists /\ K # << >> /\ state.next \in Nat
  BY DEF Passes
<1>4. /\ n \in Nat /\ n >= 1 /\ n \in 1..n
      /\ \A i \in 1..n : K[i] \in Nat \X Nat /\ K[i][1] \in Nat /\ K[i][2] \in Nat
  BY <1>3, ListParts
<1>5. /\ \A i \in 1..n : K[i][1] <= K[i][2] /\ K[i][2] < ULong
      /\ \A i \in 2..n : K[i - 1][2] + 1 < K[i][1]
      /\ n <= k - 1 /\ K[n][2] = L[k - 1][2]
      /\ \A i \in 1..(k - 1) : \A d \in Nat :
            L[i][1] <= d /\ d <= L[i][2] => d \in Numbers(K)
      /\ n = 1 => state.next = ULong - 1
      /\ n >= 2 => Near(K, state.next)
      /\ (\E j \in 2..(k - 1) : Minus(L[j][1], L[j - 1][2]) <= tolerance) => n < k - 1
  BY DEF PassInv, Tidy, EndBelow
<1>6. /\ diff \in Nat /\ now \in Passes
      /\ diff <= tolerance =>
            /\ now.next = state.next
            /\ Len(M) = n /\ M[n] = <<K[n][1], r[2]>>
            /\ \A i \in 1..(n - 1) : M[i] = K[i]
      /\ ~(diff <= tolerance) =>
            /\ now.next = Lesser(diff, state.next)
            /\ Len(M) = n + 1 /\ M[n + 1] = r
            /\ \A i \in 1..n : M[i] = K[i]
  <2>1. Joins(state, r, tolerance, now)
    BY <1>1, JoinIs
  <2> HIDE DEF now
  <2> QED
    BY <2>1 DEF Joins
<1>7. diff = Minus(L[k][1], L[k - 1][2])
  BY <1>5
<1>8. \A i \in 1..k : i \in 1..(k - 1) \/ i = k
  BY <1>1
<1> HIDE DEF diff, K, M, n, r, now
<1>9. CASE diff <= tolerance
  <2>1. /\ now.next = state.next /\ Len(M) = n
        /\ M[n][1] = K[n][1] /\ M[n][2] = r[2]
        /\ \A i \in 1..(n - 1) : M[i] = K[i]
    BY <1>6, <1>9
  <2>2. /\ \A i \in 1..n : i \in 1..(n - 1) \/ i = n
        /\ \A i \in 2..n : i - 1 \in 1..(n - 1) /\ i \in 1..n
    BY <1>4
  <2>3. K[n][1] <= K[n][2] /\ K[n][2] < r[1] /\ K[n][1] \in Nat /\ K[n][2] \in Nat
    <3>1. K[n][1] <= K[n][2] /\ K[n][1] \in Nat /\ K[n][2] \in Nat
      BY <1>4, <1>5
    <3>2. K[n][2] = L[k - 1][2] /\ L[k - 1][2] \in Nat /\ r[1] \in Nat
      BY <1>1, <1>5
    <3>3. K[n][2] < r[1]
      BY ONLY <3>2, <1>2
    <3> QED
      BY ONLY <3>1, <3>3
  <2>4. \A i \in 1..n : M[i][1] = K[i][1]
    BY ONLY <2>1, <2>2
  <2>5. \A i \in 1..n : M[i][1] <= M[i][2] /\ M[i][2] < ULong
    <3> SUFFICES ASSUME NEW i \in 1..n PROVE M[i][1] <= M[i][2] /\ M[i][2] < ULong
      OBVIOUS
    <3>1. CASE i = n
      <4>0. r[1] \in Nat /\ r[2] \in Nat /\ r[1] <= r[2]
        BY <1>1, <1>2
      <4>1. K[n][1] <= r[2]
        BY ONLY <2>3, <4>0
      <4>2. M[n][1] <= M[n][2] /\ M[n][2] < ULong
        BY ONLY <4>1, <2>1, <1>2
      <4> QED
        BY <3>1, <4>2
    <3>2. CASE i \in 1..(n - 1)
      BY <3>2, <2>1, <1>5
    <3> QED
      BY <2>2, <3>1, <3>2
  <2>6. \A i \in 2..n : M[i - 1] = K[i - 1] /\ M[i][1] = K[i][1]
    BY <2>1, <2>2, <2>4
  <2>7. \A i \in 2..n : M[i - 1][2] + 1 < M[i][1]
    BY <2>6, <1>5
  <2>8. Tidy(M) /\ EndBelow(M, ULong)
    BY <2>1, <2>5, <2>7 DEF Tidy, EndBelow
  <2>9. \A d \in Numbers(K) : d \in Numbers(M)
    <3> SUFFICES ASSUME NEW d \in Numbers(K) PROVE d \in Numbers(M)
      OBVIOUS
    <3>1. PICK i \in 1..n : K[i][1] <= d /\ d <= K[i][2]
      BY DEF Numbers, n
    <3>2. d \in Nat
      BY DEF Numbers
    <3>3. CASE i = n
      <4>1. M[n][1] <= d /\ d <= M[n][2]
        <5>1. K[n][1] <= d /\ d <= K[n][2]
          BY ONLY <3>1, <3>3
        <5>2. r[1] \in Nat /\ r[2] \in Nat /\ r[1] <= r[2]
          BY <1>1, <1>2
        <5>3. d <= r[2]
          BY ONLY <5>1, <5>2, <2>3, <3>2
        <5> QED
          BY ONLY <5>1, <5>3, <2>1
      <4> QED
        BY <4>1, <3>2, <2>1, <1>4 DEF Numbers
    <3>4. CASE i \in 1..(n - 1)
      BY <3>1, <3>2, <3>4, <2>1 DEF Numbers
    <3> QED
      BY <2>2, <3>3, <3>4
  <2>10. \A d \in Nat : r[1] <= d /\ d <= r[2] => d \in Numbers(M)
    <3> SUFFICES ASSUME NEW d \in Nat, r[1] <= d, d <= r[2] PROVE d \in Numbers(M)
      OBVIOUS
    <3>1. M[n][1] <= d /\ d <= M[n][2]
      <4>1. r[1] \in Nat
        BY <1>1
      <4>2. K[n][1] <= d
        BY ONLY <4>1, <2>3, d \in Nat, r[1] <= d
      <4> QED
        BY ONLY <4>2, <2>1, d <= r[2]
    <3> QED
      BY <3>1, <2>1, <1>4 DEF Numbers
  <2>11. \A i \in 1..k : \A d \in Nat : L[i][1] <= d /\ d <= L[i][2] => d \in Numbers(M)
    BY <1>5, <1>8, <2>9, <2>10 DEF r
  <2>12. n >= 2 => Near(M, now.next)
    BY <1>5, <2>1, <2>6 DEF Near, n
  <2>13. n < k /\ n <= k
    BY <1>1, <1>4, <1>5
  <2> QED
    BY <1>5, <2>1, <2>8, <2>11, <2>12, <2>13 DEF PassInv, M, now, r
<1>10. CASE ~(diff <= tolerance)
  <2>1. /\ now.next = Lesser(diff, state.next)
        /\ Len(M) = n + 1 /\ M[n + 1] = r
        /\ \A i \in 1..n : M[i] = K[i]
    BY <1>6, <1>10
  <2>2. /\ \A i \in 1..(n + 1) : i \in 1..n \/ i = n + 1
        /\ \A i \in 1..n : i \in 1..(n + 1)
        /\ \A i \in 2..n : i - 1 \in 1..n /\ i \in 1..n /\ i \in 2..(n + 1)
        /\ \A i \in 2..(n + 1) : i \in 2..n \/ i = n + 1
        /\ n + 1 \in 1..(n + 1) /\ n + 1 \in 2..(n + 1) /\ (n + 1) - 1 = n
    BY <1>4
  <2>3. \A i \in 1..(n + 1) : M[i][1] <= M[i][2] /\ M[i][2] < ULong
    BY <1>2, <1>5, <2>1, <2>2
  <2>4. M[(n + 1) - 1][2] + 1 < M[n + 1][1]
    BY <1>1, <1>2, <1>4, <1>5, <2>1, <2>2
  <2>5. \A i \in 2..n : M[i - 1] = K[i - 1] /\ M[i] = K[i]
    BY <2>1, <2>2
  <2>6. \A i \in 2..(n + 1) : M[i - 1][2] + 1 < M[i][1]
    BY <1>5, <2>2, <2>4, <2>5
  <2>7. Tidy(M) /\ EndBelow(M, ULong)
    BY <2>1, <2>3, <2>6 DEF Tidy, EndBelow
  <2>8. \A d \in Numbers(K) : d \in Numbers(M)
    BY <2>1, <2>2 DEF Numbers, n
  <2>9. \A d \in Nat : r[1] <= d /\ d <= r[2] => d \in Numbers(M)
    BY <2>1, <2>2 DEF Numbers
  <2>10. \A i \in 1..k : \A d \in Nat : L[i][1] <= d /\ d <= L[i][2] => d \in Numbers(M)
    BY <1>5, <1>8, <2>8, <2>9 DEF r
  <2>11. n + 1 >= 2 /\ n + 1 # 1 /\ n + 1 <= k
    BY <1>1, <1>4, <1>5
  <2>12. Near(M, now.next)
    <3>1. Minus(M[n + 1][1], M[(n + 1) - 1][2]) = diff
      BY <1>4, <2>1, <2>2 DEF diff
    <3>2. CASE diff <= state.next
      <4>1. now.next = diff
        BY <2>1, <3>2 DEF Lesser
      <4>2. Minus(M[n + 1][1], M[(n + 1) - 1][2]) <= now.next
        BY <3>1, <4>1, <1>6
      <4> QED
        BY <4>2, <2>1, <2>2 DEF Near
    <3>3. CASE ~(diff <= state.next)
      <4>1. now.next = state.next
        BY <2>1, <3>3 DEF Lesser
      <4>2. n >= 2
        <5>1. diff <= ULong - 1
          BY <1>1, <1>4, MinusIn DEF diff
        <5> QED
          BY <1>4, <1>5, <3>3, <5>1
      <4>3. PICK j \in 2..n : Minus(K[j][1], K[j - 1][2]) <= state.next
        BY <1>5, <4>2 DEF Near, n
      <4>4. Minus(M[j][1], M[j - 1][2]) <= now.next
        BY <2>5, <4>1, <4>3
      <4> QED
        BY <4>4, <2>1, <2>2 DEF Near
    <3> QED
      BY <3>2, <3>3
  <2>13. ASSUME NEW j \in 2..k, Minus(L[j][1], L[j - 1][2]) <= tolerance PROVE n + 1 < k
    <3>1. j # k
      BY <1>7, <1>10, <2>13
    <3>2. j \in 2..(k - 1)
      BY <1>1, <3>1
    <3>3. n < k - 1
      BY <1>5, <2>13, <3>2
    <3> QED
      BY <1>1, <1>4, <3>3
  <2> QED
    BY <2>1, <2>7, <2>10, <2>11, <2>12, <2>13 DEF PassInv, M, now, r
<1> QED
  BY <1>9, <1>10

\* A whole pass.
LEMMA JoinNearKeeps ==
  ASSUME NEW L \in RangeLists \ {<< >>}, Tidy(L), EndBelow(L, ULong), NEW tolerance \in Nat
  PROVE  /\ JoinNear(L, tolerance) \in Passes
         /\ PassInv(JoinNear(L, tolerance), L, Len(L), tolerance)
<1>1. PICK u \in [1..Len(L) -> Passes] :
          /\ u[1] = [out |-> <<L[1]>>, next |-> ULong - 1]
          /\ \A k \in 2..Len(L) : u[k] = Join(u[k - 1], L[k], tolerance)
          /\ JoinNear(L, tolerance) = u[Len(L)]
  BY JoinNearIs
<1>2. Len(L) \in Nat /\ Len(L) >= 1
  BY ListParts
<1> DEFINE P == {i \in Nat : i + 1 \in 1..Len(L) => PassInv(u[i + 1], L, i + 1, tolerance)}
<1>3. 0 \in P
  <2>1. PassInv(u[1], L, 1, tolerance)
    BY <1>1, PassBegins
  <2>2. 0 + 1 = 1
    OBVIOUS
  <2> QED
    BY <2>1, <2>2
<1>4. ASSUME NEW i \in P PROVE i + 1 \in P
  <2> SUFFICES ASSUME (i + 1) + 1 \in 1..Len(L)
               PROVE  PassInv(u[(i + 1) + 1], L, (i + 1) + 1, tolerance)
    OBVIOUS
  <2> DEFINE k == (i + 1) + 1
  <2>1. i \in Nat /\ k \in 2..Len(L) /\ k - 1 = i + 1 /\ i + 1 \in 1..Len(L)
    BY <1>2
  <2>2. PassInv(u[k - 1], L, k - 1, tolerance) /\ u[k - 1] \in Passes
    BY <2>1, <1>1
  <2>3. u[k] = Join(u[k - 1], L[k], tolerance)
    BY <2>1, <1>1
  <2> HIDE DEF k, P
  <2>4. PassInv(u[k], L, k, tolerance)
    BY <2>1, <2>2, <2>3, PassStep
  <2> QED
    BY <2>4 DEF k
<1>5. P \in SUBSET Nat
  OBVIOUS
<1>6. \A i \in Nat : i \in P
  <2> HIDE DEF P
  <2> QED
    BY <1>3, <1>4, <1>5, Inductive
<1>7. Len(L) - 1 \in Nat /\ (Len(L) - 1) + 1 = Len(L) /\ Len(L) \in 1..Len(L)
  BY <1>2
<1>8. PassInv(u[Len(L)], L, Len(L), tolerance)
  BY <1>6, <1>7
<1> QED
  BY <1>1, <1>7, <1>8

-----------------------------------------------------------------------------
(* CompactRanges *)

\* What the first passes over L have made of it: nothing is lost, and as long as
\* there are too many ranges each pass but the first leaves fewer.
CompactInv(state, L, length, passes) ==
    LET K == state.out
        n == Len(K)
    IN  /\ state \in Passes /\ Tidy(K) /\ EndBelow(K, ULong)
        /\ Numbers(L) \subseteq Numbers(K)
        /\ Len(L) <= length => K = L
        /\ n <= length \/ /\ n + passes <= Len(L) + 1
                          /\ passes = 0 => n <= Len(L)
                          /\ passes # 0 => Near(K, state.next)

\* A pass over ranges that are too many.
LEMMA CompactStep ==
  ASSUME NEW L \in RangeLists \ {<< >>}, NEW length \in Nat \ {0}, NEW passes \in Nat,
         NEW state, CompactInv(state, L, length, passes), ~(Len(state.out) <= length)
  PROVE  CompactInv(JoinNear(state.out, state.next), L, length, passes + 1)
<1> DEFINE K == state.out
           n == Len(K)
           now == JoinNear(K, state.next)
           M == now.out
           m == Len(M)
<1>1. /\ state \in Passes /\ Tidy(K) /\ EndBelow(K, ULong)
      /\ Numbers(L) \subseteq Numbers(K)
      /\ Len(L) <= length => K = L
      /\ n + passes <= Len(L) + 1
      /\ passes = 0 => n <= Len(L)
      /\ passes # 0 => Near(K, state.next)
      /\ ~(n <= length)
  BY DEF CompactInv
<1>2. K \in RangeLists \ {<< >>} /\ state.next \in Nat
  BY <1>1 DEF Passes
<1>3. n \in Nat /\ Len(L) \in Nat /\ n >= 2
  BY <1>1, <1>2, ListParts
<1> HIDE DEF n, K
<1>4. now \in Passes /\ PassInv(now, K, n, state.next)
  BY <1>1, <1>2, JoinNearKeeps DEF n
<1> HIDE DEF now
<1>5. /\ Tidy(M) /\ EndBelow(M, ULong) /\ m <= n
      /\ \A i \in 1..n : \A d \in Nat : K[i][1] <= d /\ d <= K[i][2] => d \in Numbers(M)
      /\ m >= 2 => Near(M, now.next)
      /\ (\E j \in 2..n : Minus(K[j][1], K[j - 1][2]) <= state.next) => m < n
  BY <1>4 DEF PassInv
<1>6. M \in RangeLists /\ m \in Nat
  <2>1. M \in RangeLists
    BY <1>4 DEF Passes
  <2> QED
    BY <2>1, ListParts
<1>7. Numbers(L) \subseteq Numbers(M)
  <2>1. Numbers(K) \subseteq Numbers(M)
    BY <1>5 DEF Numbers, n
  <2> QED
    BY <1>1, <2>1
<1>8. ~(Len(L) <= length)
  <2> SUFFICES ASSUME Len(L) <= length PROVE FALSE
    OBVIOUS
  <2>1. Len(K) = Len(L)
    BY <1>1
  <2> QED
    BY <1>1, <2>1 DEF n
<1>9. m <= length \/ /\ m + (passes + 1) <= Len(L) + 1
                     /\ Near(M, now.next)
  <2> SUFFICES ASSUME ~(m <= length)
               PROVE  m + (passes + 1) <= Len(L) + 1 /\ Near(M, now.next)
    OBVIOUS
  <2>1. m >= 2
    BY <1>6
  <2>2. CASE passes = 0
    BY <1>1, <1>3, <1>5, <1>6, <2>1, <2>2
  <2>3. CASE passes # 0
    <3>1. Near(K, state.next)
      BY <1>1, <2>3
    <3>2. m < n
      BY <1>5, <3>1 DEF Near, n
    <3>3. n + passes <= Len(L) + 1
      BY <1>1
    <3>4. m \in Nat /\ n \in Nat /\ Len(L) \in Nat
      BY <1>3, <1>6
    <3> HIDE DEF m
    <3>5. m + (passes + 1) <= Len(L) + 1
      BY ONLY <3>2, <3>3, <3>4, passes \in Nat
    <3> QED
      BY <1>5, <2>1, <3>5
  <2> QED
    BY <2>2, <2>3
<1>10. passes + 1 # 0
  OBVIOUS
<1>11. CompactInv(now, L, length, passes + 1)
  BY <1>4, <1>5, <1>7, <1>8, <1>9, <1>10 DEF CompactInv
<1> QED
  BY <1>11 DEF now, K

\* CompactRanges makes passes until there are few enough ranges.
LEMMA CompactIs ==
  ASSUME NEW L \in RangeLists \ {<< >>}, NEW length \in Nat
  PROVE  \E u :
            /\ u[0] = [out |-> L, next |-> 1] /\ u[0] \in Passes
            /\ \A k \in 1..Len(L) :
                  u[k] = IF Len(u[k - 1].out) <= length THEN u[k - 1]
                         ELSE JoinNear(u[k - 1].out, u[k - 1].next)
            /\ CompactRanges(L, length) = u[Len(L)].out
<1> DEFINE N == Len(L)
           first == [out |-> L, next |-> 1]
           Pass(v) == IF Len(v.out) <= length THEN v ELSE JoinNear(v.out, v.next)
           step == [p \in Nat \X Passes |-> Pass(p[2])]
           Body(g) == [k \in 0..N |-> IF k = 0 THEN first ELSE Pass(g[k - 1])]
<1>1. N \in Nat \ {0}
  BY ListParts
<1>2. first \in Passes
  BY DEF Passes
<1>3. \A v \in Passes : Pass(v) \in Passes
  <2> SUFFICES ASSUME NEW v \in Passes PROVE Pass(v) \in Passes
    OBVIOUS
  <2>1. v.out \in RangeLists \ {<< >>} /\ v.next \in Nat
    BY DEF Passes
  <2>2. PICK u \in [1..Len(v.out) -> Passes] : JoinNear(v.out, v.next) = u[Len(v.out)]
    BY <2>1, JoinNearIs
  <2>3. Len(v.out) \in 1..Len(v.out)
    BY <2>1, ListParts
  <2> QED
    BY <2>2, <2>3
<1> HIDE DEF N, first, Pass
<1>4. step \in [Nat \X Passes -> Passes]
  BY <1>3
<1>5. PICK f \in [Nat -> Passes] : Iterates(f, first, step)
  <2> HIDE DEF step
  <2> QED
    BY <1>2, <1>4, Iteration
<1> DEFINE h == [k \in 0..N |-> f[k]]
<1>6. h = Body(h)
  <2>1. ASSUME NEW k \in 0..N PROVE h[k] = IF k = 0 THEN first ELSE Pass(h[k - 1])
    <3>1. CASE k = 0
      BY <3>1, <1>5 DEF Iterates
    <3>2. CASE k # 0
      <4>1. k - 1 \in Nat /\ k - 1 \in 0..N /\ (k - 1) + 1 = k
        BY <1>1, <3>2
      <4>2. f[(k - 1) + 1] = step[<<(k - 1) + 1, f[k - 1]>>]
        BY <1>5, <4>1 DEF Iterates
      <4>3. step[<<k, f[k - 1]>>] = Pass(f[k - 1])
        BY <4>1
      <4>4. h[k] = f[k] /\ h[k - 1] = f[k - 1]
        BY <4>1
      <4> HIDE DEF h, step
      <4> QED
        BY <3>2, <4>1, <4>2, <4>3, <4>4
    <3> QED
      BY <3>1, <3>2
  <2>2. h = [k \in 0..N |-> h[k]]
    OBVIOUS
  <2> HIDE DEF h
  <2> QED
    BY <2>1, <2>2
<1>7. \E u : u = Body(u) /\ CompactRanges(L, length) = u[N].out
  <2> HIDE DEF h
  <2> QED
    BY <1>6, Zenon DEF CompactRanges, N, first, Pass
<1>8. PICK u : u = Body(u) /\ CompactRanges(L, length) = u[N].out
  BY <1>7
<1>9. u[0] = first /\ \A k \in 0..N : k # 0 => u[k] = Pass(u[k - 1])
  <2>1. 0 \in 0..N
    BY <1>1
  <2> QED
    BY <1>8, <2>1
<1>10. \A k \in 1..N : u[k] = Pass(u[k - 1])
  <2>1. \A k \in 1..N : k \in 0..N /\ k # 0
    BY <1>1
  <2> QED
    BY <1>9, <2>1
<1> QED
  BY <1>2, <1>8, <1>9, <1>10 DEF N, first, Pass

\* CompactRanges loses nothing, leaves at most the ranges asked for, and changes
\* nothing when there are no more.
LEMMA CompactKeeps ==
  ASSUME NEW L \in RangeLists \ {<< >>}, Tidy(L), EndBelow(L, ULong),
         NEW length \in Nat \ {0}
  PROVE  LET K == CompactRanges(L, length)
         IN  /\ K \in RangeLists /\ Numbers(L) \subseteq Numbers(K)
             /\ Len(K) <= length
             /\ Len(L) <= length => K = L
<1> DEFINE N == Len(L)
<1>1. N \in Nat \ {0}
  BY ListParts
<1>2. PICK u :
          /\ u[0] = [out |-> L, next |-> 1] /\ u[0] \in Passes
          /\ \A k \in 1..N : u[k] = IF Len(u[k - 1].out) <= length THEN u[k - 1]
                                    ELSE JoinNear(u[k - 1].out, u[k - 1].next)
          /\ CompactRanges(L, length) = u[N].out
  BY CompactIs
<1> HIDE DEF N
<1> DEFINE P == {k \in Nat : k \in 0..N => CompactInv(u[k], L, length, k)}
<1>10. 0 \in P
  <2>1. u[0].out = L
    BY <1>2
  <2>2. Len(L) + 0 <= Len(L) + 1 /\ Len(L) <= Len(L)
    BY <1>1 DEF N
  <2>3. CompactInv(u[0], L, length, 0)
    BY <1>2, <2>1, <2>2 DEF CompactInv
  <2> QED
    BY <2>3
<1>11. ASSUME NEW k \in P PROVE k + 1 \in P
  <2> SUFFICES ASSUME k + 1 \in 0..N PROVE CompactInv(u[k + 1], L, length, k + 1)
    OBVIOUS
  <2>1. k \in Nat /\ k \in 0..N /\ k + 1 \in 1..N /\ (k + 1) - 1 = k
    BY <1>1
  <2>2. CompactInv(u[k], L, length, k)
    BY <2>1
  <2>3. u[k + 1] = IF Len(u[k].out) <= length THEN u[k] ELSE JoinNear(u[k].out, u[k].next)
    BY <1>2, <2>1
  <2> HIDE DEF P
  <2>4. CASE Len(u[k].out) <= length
    <3>1. u[k + 1] = u[k]
      BY <2>3, <2>4
    <3> QED
      BY <2>2, <2>4, <3>1 DEF CompactInv
  <2>5. CASE ~(Len(u[k].out) <= length)
    <3>1. u[k + 1] = JoinNear(u[k].out, u[k].next)
      BY <2>3, <2>5
    <3> QED
      BY <2>1, <2>2, <2>5, <3>1, CompactStep
  <2> QED
    BY <2>4, <2>5
<1>12. P \in SUBSET Nat
  OBVIOUS
<1>13. \A k \in Nat : k \in P
  <2> HIDE DEF P
  <2> QED
    BY <1>10, <1>11, <1>12, Inductive
<1>14. CompactInv(u[N], L, length, N)
  <2>1. N \in 0..N /\ N \in Nat
    BY <1>1
  <2> QED
    BY <1>13, <2>1
<1> DEFINE K == u[N].out
<1>15. /\ u[N] \in Passes /\ Numbers(L) \subseteq Numbers(K) /\ (N <= length => K = L)
       /\ Len(K) <= length \/ Len(K) + N <= N + 1
  BY <1>14 DEF CompactInv, N
<1> HIDE DEF K
<1>16. K \in RangeLists /\ Len(K) \in Nat
  <2>1. K \in RangeLists
    BY <1>15 DEF Passes, K
  <2> QED
    BY <2>1, ListParts
<1>17. Len(K) <= length
  BY <1>1, <1>15, <1>16
<1> QED
  BY <1>2, <1>15, <1>16, <1>17 DEF K, N

-----------------------------------------------------------------------------
(* CompactRanges of two parts *)

\* Ranges below m of which each starts where the one before it ends or later, but for
\* the one behind the j-th.
Stepping(L, j, m) ==
    /\ \A k \in 1..Len(L) : L[k][1] <= L[k][2] /\ L[k][2] < m
    /\ \A k \in 2..Len(L) : k # j + 1 => L[k - 1][2] <= L[k][1]

\* The k-th range starts before the one before it ends: where a second part begins.
Breaks(L, k) == L[k][1] < L[k - 1][2]

\* Of numbers in the lower half of the ulongs, a difference that underflows is in the
\* upper half.
LEMMA MinusUnder ==
  ASSUME NEW m \in Nat \ {0}, 2 * m <= ULong,
         NEW a \in Nat, NEW b \in Nat, a < m, b < m
  PROVE  /\ Minus(a, b) \in Nat
         /\ b <= a => Minus(a, b) = a - b /\ Minus(a, b) <= m
         /\ a < b => m < Minus(a, b)
<1>1. ULong \in Nat \ {0} /\ m <= ULong
  BY ULongAssumption
<1>2. Minus(a, b) \in Nat
  BY MinusIn
<1>3. CASE b <= a
  <2>1. a - b \in 0..(ULong - 1) /\ a - b <= m
    BY <1>1, <1>3
  <2>2. (a - b) % ULong = a - b
    BY <1>1, <2>1
  <2> QED
    BY <1>2, <1>3, <2>1, <2>2 DEF Minus
<1>4. CASE a < b
  <2>1. a - b + ULong \in 0..(ULong - 1) /\ m < a - b + ULong
    BY <1>1, <1>4
  <2>2. (a - b) % ULong = a - b + ULong
    BY <1>1, <2>1
  <2> QED
    BY <1>2, <1>4, <2>1, <2>2 DEF Minus
<1> QED
  BY <1>3, <1>4

\* What a pass over L has made of the first k ranges: nothing of them is lost, the
\* ranges break where L does, if at all, and the distance it found is the one between
\* two that do not break, if there are any.
StepInv(state, L, j, k, m) ==
    LET K == state.out
        n == Len(K)
    IN  /\ \E i \in Nat : Stepping(K, i, m) /\ (k <= j => n <= i)
        /\ n <= k /\ K[n][2] = L[k][2]
        /\ \A i \in 1..k : \A d \in Nat : L[i][1] <= d /\ d <= L[i][2] => d \in Numbers(K)
        /\ state.next <= m \/ \A i \in 2..n : Breaks(K, i)

\* A pass begins with the first range.
LEMMA StepBegins ==
  ASSUME NEW L \in RangeLists \ {<< >>}, NEW j \in Nat, NEW m, Stepping(L, j, m),
         NEW state, state = [out |-> <<L[1]>>, next |-> ULong - 1]
  PROVE  StepInv(state, L, j, 1, m)
<1> DEFINE K == state.out
<1>1. Len(L) \in Nat /\ 1 \in 1..Len(L) /\ L[1] \in Nat \X Nat
  BY ListParts
<1>2. L[1][1] <= L[1][2] /\ L[1][2] < m
  BY <1>1 DEF Stepping
<1>3. K = <<L[1]>>
  OBVIOUS
<1> HIDE DEF K
<1>4. Len(K) = 1 /\ K[1] = L[1]
  BY <1>3
<1>5. /\ \A k : k \in 1..1 <=> k = 1
      /\ \A k : k \notin 2..1
  OBVIOUS
<1>6. Stepping(K, 1, m)
  BY <1>2, <1>4, <1>5 DEF Stepping
<1>7. \A d \in Nat : L[1][1] <= d /\ d <= L[1][2] => d \in Numbers(K)
  BY <1>4, <1>5 DEF Numbers
<1>8. 1 <= 1 /\ 1 \in Nat
  OBVIOUS
<1> QED
  BY <1>4, <1>5, <1>6, <1>7, <1>8 DEF StepInv, K

\* A pass goes on with the next.
LEMMA StepGoesOn ==
  ASSUME NEW m \in Nat \ {0}, 2 * m <= ULong,
         NEW L \in RangeLists, NEW j \in Nat, Stepping(L, j, m),
         NEW tolerance \in Nat, tolerance <= m,
         NEW k \in 2..Len(L), NEW state \in Passes, StepInv(state, L, j, k - 1, m)
  PROVE  StepInv(Join(state, L[k], tolerance), L, j, k, m)
<1> DEFINE K == state.out
           n == Len(K)
           r == L[k]
           diff == Minus(r[1], K[n][2])
           now == Join(state, r, tolerance)
           M == now.out
<1>1. /\ Len(L) \in Nat /\ k \in Nat /\ k - 1 \in 1..Len(L) /\ k \in 1..Len(L) /\ k - 1 \in Nat
      /\ r \in Nat \X Nat /\ r[1] \in Nat /\ r[2] \in Nat /\ L[k - 1][2] \in Nat
  BY ListParts
<1>2. /\ r[1] <= r[2] /\ r[2] < m /\ r[1] < m
      /\ k # j + 1 => L[k - 1][2] <= r[1]
  <2>1. r[1] <= r[2] /\ r[2] < m /\ (k # j + 1 => L[k - 1][2] <= r[1])
    BY <1>1 DEF Stepping
  <2> HIDE DEF r
  <2> QED
    BY <1>1, <2>1
<1>3. K \in RangeLists /\ K # << >> /\ state.next \in Nat
  BY DEF Passes
<1>4. /\ n \in Nat /\ n >= 1 /\ n \in 1..n
      /\ \A i \in 1..n : K[i] \in Nat \X Nat /\ K[i][1] \in Nat /\ K[i][2] \in Nat
  BY <1>3, ListParts
<1>5. PICK i \in Nat : Stepping(K, i, m) /\ (k - 1 <= j => n <= i)
  BY DEF StepInv
<1>6. /\ n <= k - 1 /\ K[n][2] = L[k - 1][2]
      /\ \A u \in 1..(k - 1) : \A d \in Nat :
            L[u][1] <= d /\ d <= L[u][2] => d \in Numbers(K)
      /\ state.next <= m \/ \A u \in 2..n : Breaks(K, u)
  BY DEF StepInv
<1>7. /\ \A u \in 1..n : K[u][1] <= K[u][2] /\ K[u][2] < m
      /\ \A u \in 2..n : u # i + 1 => K[u - 1][2] <= K[u][1]
  BY <1>5 DEF Stepping
<1>8. /\ diff \in Nat /\ now \in Passes
      /\ diff <= tolerance =>
            /\ now.next = state.next
            /\ Len(M) = n /\ M[n] = <<K[n][1], r[2]>>
            /\ \A u \in 1..(n - 1) : M[u] = K[u]
      /\ ~(diff <= tolerance) =>
            /\ now.next = Lesser(diff, state.next)
            /\ Len(M) = n + 1 /\ M[n + 1] = r
            /\ \A u \in 1..n : M[u] = K[u]
  <2>1. Joins(state, r, tolerance, now)
    BY <1>1, JoinIs
  <2> HIDE DEF now
  <2> QED
    BY <2>1 DEF Joins
<1>9. \A u \in 1..k : u \in 1..(k - 1) \/ u = k
  BY <1>1
<1>10. K[n][1] \in Nat /\ K[n][2] \in Nat /\ K[n][1] <= K[n][2] /\ K[n][2] < m
  BY <1>4, <1>7
<1>11. /\ K[n][2] <= r[1] => diff <= m
       /\ r[1] < K[n][2] => m < diff
  BY <1>1, <1>2, <1>10, MinusUnder
<1> HIDE DEF diff, K, M, n, r, now
<1>12. CASE diff <= tolerance
  <2>0. K[n][2] <= r[1]
    <3>1. ~(m < diff)
      BY ONLY <1>12, <1>8, tolerance \in Nat, m \in Nat \ {0}, tolerance <= m
    <3> QED
      BY ONLY <3>1, <1>1, <1>10, <1>11
  <2>1. /\ now.next = state.next /\ Len(M) = n
        /\ M[n][1] = K[n][1] /\ M[n][2] = r[2]
        /\ \A u \in 1..(n - 1) : M[u] = K[u]
    BY <1>8, <1>12
  <2>2. /\ \A u \in 1..n : u \in 1..(n - 1) \/ u = n
        /\ \A u \in 2..n : u - 1 \in 1..(n - 1) /\ u \in 1..n
    BY <1>4
  <2>3. \A u \in 1..n : M[u][1] = K[u][1]
    BY ONLY <2>1, <2>2
  <2>4. K[n][1] <= r[2]
    BY ONLY <2>0, <1>1, <1>2, <1>10
  <2>5. \A u \in 1..n : M[u][1] <= M[u][2] /\ M[u][2] < m
    <3> SUFFICES ASSUME NEW u \in 1..n PROVE M[u][1] <= M[u][2] /\ M[u][2] < m
      OBVIOUS
    <3>1. CASE u = n
      BY ONLY <3>1, <2>1, <2>4, <1>2
    <3>2. CASE u \in 1..(n - 1)
      BY <3>2, <2>1, <1>7
    <3> QED
      BY <2>2, <3>1, <3>2
  <2>6. \A u \in 2..n : M[u - 1] = K[u - 1] /\ M[u][1] = K[u][1]
    BY <2>1, <2>2, <2>3
  <2>7. Stepping(M, i, m)
    BY <2>1, <2>5, <2>6, <1>7 DEF Stepping
  <2>8. \A u \in 2..n : Breaks(M, u) <=> Breaks(K, u)
    BY <2>6 DEF Breaks
  <2>9. \A d \in Numbers(K) : d \in Numbers(M)
    <3> SUFFICES ASSUME NEW d \in Numbers(K) PROVE d \in Numbers(M)
      OBVIOUS
    <3>1. PICK u \in 1..n : K[u][1] <= d /\ d <= K[u][2]
      BY DEF Numbers, n
    <3>2. d \in Nat
      BY DEF Numbers
    <3>3. CASE u = n
      <4>1. K[n][1] <= d /\ d <= K[n][2]
        BY ONLY <3>1, <3>3
      <4>2. d <= r[2]
        BY ONLY <4>1, <2>0, <3>2, <1>1, <1>2, <1>10
      <4>3. M[n][1] <= d /\ d <= M[n][2]
        BY ONLY <4>1, <4>2, <2>1
      <4> QED
        BY <4>3, <3>2, <2>1, <1>4 DEF Numbers
    <3>4. CASE u \in 1..(n - 1)
      BY <3>1, <3>2, <3>4, <2>1 DEF Numbers
    <3> QED
      BY <2>2, <3>3, <3>4
  <2>10. \A d \in Nat : r[1] <= d /\ d <= r[2] => d \in Numbers(M)
    <3> SUFFICES ASSUME NEW d \in Nat, r[1] <= d, d <= r[2] PROVE d \in Numbers(M)
      OBVIOUS
    <3>1. K[n][1] <= d
      BY ONLY <1>1, <1>10, <2>0, d \in Nat, r[1] <= d
    <3>2. M[n][1] <= d /\ d <= M[n][2]
      BY ONLY <3>1, <2>1, d <= r[2]
    <3> QED
      BY <3>2, <2>1, <1>4 DEF Numbers
  <2>11. \A u \in 1..k : \A d \in Nat : L[u][1] <= d /\ d <= L[u][2] => d \in Numbers(M)
    BY <1>6, <1>9, <2>9, <2>10 DEF r
  <2>12. n <= k /\ (k <= j => n <= i)
    <3>1. n <= k - 1 /\ (k - 1 <= j => n <= i)
      BY <1>5, <1>6 DEF n
    <3>2. n \in Nat /\ k \in Nat
      BY <1>1, <1>4
    <3> QED
      BY ONLY <3>1, <3>2, i \in Nat, j \in Nat
  <2>13. now.next <= m \/ \A u \in 2..n : Breaks(M, u)
    BY <1>6, <2>1, <2>8
  <2> QED
    BY <2>1, <2>7, <2>11, <2>12, <2>13 DEF StepInv, M, now, r
<1>13. CASE ~(diff <= tolerance)
  <2>1. /\ now.next = Lesser(diff, state.next)
        /\ Len(M) = n + 1 /\ M[n + 1] = r
        /\ \A u \in 1..n : M[u] = K[u]
    BY <1>8, <1>13
  <2>2. /\ \A u \in 1..(n + 1) : u \in 1..n \/ u = n + 1
        /\ \A u \in 1..n : u \in 1..(n + 1)
        /\ \A u \in 2..n : u - 1 \in 1..n /\ u \in 1..n /\ u \in 2..(n + 1)
        /\ \A u \in 2..(n + 1) : u \in 2..n \/ u = n + 1
        /\ n + 1 \in 1..(n + 1) /\ n + 1 \in 2..(n + 1) /\ (n + 1) - 1 = n
    BY <1>4
  <2>3. \A u \in 1..(n + 1) : M[u][1] <= M[u][2] /\ M[u][2] < m
    BY <1>2, <1>7, <2>1, <2>2
  <2>4. \A u \in 2..n : M[u - 1] = K[u - 1] /\ M[u] = K[u]
    BY <2>1, <2>2
  <2>5. M[(n + 1) - 1][2] = K[n][2] /\ M[n + 1][1] = r[1]
    BY <1>4, <2>1, <2>2
  <2>6. \E v \in Nat : Stepping(M, v, m) /\ (k <= j => n + 1 <= v)
    <3>1. CASE k <= j
      <4>1. n <= i /\ k # j + 1
        BY <1>1, <1>5, <3>1 DEF n
      <4>2. \A u \in 2..n : u # i + 1
        BY <1>4, <4>1
      <4>3. \A u \in 2..(n + 1) : M[u - 1][2] <= M[u][1]
        BY <1>2, <1>6, <1>7, <2>2, <2>4, <2>5, <4>1, <4>2
      <4>4. Stepping(M, n + 1, m) /\ n + 1 \in Nat /\ n + 1 <= n + 1
        BY <1>4, <2>1, <2>3, <4>3 DEF Stepping
      <4> QED
        BY <4>4
    <3>2. CASE k = j + 1
      <4>1. n <= i /\ ~(k <= j)
        BY <1>1, <1>5, <3>2 DEF n
      <4>2. \A u \in 2..n : u # i + 1
        BY <1>4, <4>1
      <4>3. \A u \in 2..(n + 1) : u # n + 1 => M[u - 1][2] <= M[u][1]
        BY <1>7, <2>2, <2>4, <4>2
      <4>4. Stepping(M, n, m)
        BY <2>1, <2>3, <4>3 DEF Stepping
      <4> QED
        BY <1>4, <4>1, <4>4
    <3>3. CASE ~(k <= j) /\ k # j + 1
      <4>1. \A u \in 2..(n + 1) : u # i + 1 => M[u - 1][2] <= M[u][1]
        BY <1>2, <1>6, <1>7, <2>2, <2>4, <2>5, <3>3
      <4>2. Stepping(M, i, m)
        BY <2>1, <2>3, <4>1 DEF Stepping
      <4> QED
        BY <3>3, <4>2
    <3> QED
      BY <3>1, <3>2, <3>3
  <2>7. \A d \in Numbers(K) : d \in Numbers(M)
    BY <2>1, <2>2 DEF Numbers, n
  <2>8. \A d \in Nat : r[1] <= d /\ d <= r[2] => d \in Numbers(M)
    BY <2>1, <2>2 DEF Numbers
  <2>9. \A u \in 1..k : \A d \in Nat : L[u][1] <= d /\ d <= L[u][2] => d \in Numbers(M)
    BY <1>6, <1>9, <2>7, <2>8 DEF r
  <2>10. now.next <= m \/ \A u \in 2..(n + 1) : Breaks(M, u)
    <3>1. now.next \in Nat /\ now.next <= diff /\ now.next <= state.next
      BY <1>3, <1>8, <2>1 DEF Lesser
    <3>2. CASE state.next <= m
      BY <1>3, <3>1, <3>2
    <3>3. CASE K[n][2] <= r[1]
      BY <1>8, <1>11, <3>1, <3>3
    <3>4. CASE ~(state.next <= m) /\ ~(K[n][2] <= r[1])
      <4>1. \A u \in 2..n : Breaks(M, u)
        BY <1>6, <2>4, <3>4 DEF Breaks
      <4>2. Breaks(M, n + 1)
        BY <1>1, <1>10, <2>5, <3>4 DEF Breaks
      <4> QED
        BY <2>2, <4>1, <4>2
    <3> QED
      BY <3>2, <3>3, <3>4
  <2>11. n + 1 <= k
    BY <1>1, <1>4, <1>6
  <2> QED
    BY <2>1, <2>6, <2>9, <2>10, <2>11 DEF StepInv, M, now, r
<1> QED
  BY <1>12, <1>13

\* A whole pass.
LEMMA JoinNearSteps ==
  ASSUME NEW m \in Nat \ {0}, 2 * m <= ULong,
         NEW L \in RangeLists \ {<< >>}, NEW j \in Nat, Stepping(L, j, m),
         NEW tolerance \in Nat, tolerance <= m
  PROVE  /\ JoinNear(L, tolerance) \in Passes
         /\ StepInv(JoinNear(L, tolerance), L, j, Len(L), m)
<1>1. PICK u \in [1..Len(L) -> Passes] :
          /\ u[1] = [out |-> <<L[1]>>, next |-> ULong - 1]
          /\ \A k \in 2..Len(L) : u[k] = Join(u[k - 1], L[k], tolerance)
          /\ JoinNear(L, tolerance) = u[Len(L)]
  BY JoinNearIs
<1>2. Len(L) \in Nat /\ Len(L) >= 1
  BY ListParts
<1> DEFINE P == {i \in Nat : i + 1 \in 1..Len(L) => StepInv(u[i + 1], L, j, i + 1, m)}
<1>3. 0 \in P
  <2>1. StepInv(u[1], L, j, 1, m)
    BY <1>1, StepBegins
  <2>2. 0 + 1 = 1
    OBVIOUS
  <2> QED
    BY <2>1, <2>2
<1>4. ASSUME NEW i \in P PROVE i + 1 \in P
  <2> SUFFICES ASSUME (i + 1) + 1 \in 1..Len(L)
               PROVE  StepInv(u[(i + 1) + 1], L, j, (i + 1) + 1, m)
    OBVIOUS
  <2> DEFINE k == (i + 1) + 1
  <2>1. i \in Nat /\ k \in 2..Len(L) /\ k - 1 = i + 1 /\ i + 1 \in 1..Len(L)
    BY <1>2
  <2>2. StepInv(u[k - 1], L, j, k - 1, m) /\ u[k - 1] \in Passes
    BY <2>1, <1>1
  <2>3. u[k] = Join(u[k - 1], L[k], tolerance)
    BY <2>1, <1>1
  <2> HIDE DEF k, P
  <2>4. StepInv(u[k], L, j, k, m)
    BY <2>1, <2>2, <2>3, StepGoesOn
  <2> QED
    BY <2>4 DEF k
<1>5. P \in SUBSET Nat
  OBVIOUS
<1>6. \A i \in Nat : i \in P
  <2> HIDE DEF P
  <2> QED
    BY <1>3, <1>4, <1>5, Inductive
<1>7. Len(L) - 1 \in Nat /\ (Len(L) - 1) + 1 = Len(L) /\ Len(L) \in 1..Len(L)
  BY <1>2
<1>8. StepInv(u[Len(L)], L, j, Len(L), m)
  BY <1>6, <1>7
<1> QED
  BY <1>1, <1>7, <1>8

\* What the first passes over L have made of it: nothing is lost, and as long as there
\* are too many ranges the distance of the next pass is less than a break.
SeamInv(state, L, length, m) ==
    LET K == state.out
    IN  /\ state \in Passes /\ \E j \in Nat : Stepping(K, j, m)
        /\ Numbers(L) \subseteq Numbers(K)
        /\ Len(L) <= length => K = L
        /\ state.next <= m \/ Len(K) <= length

\* A pass over ranges that are too many.
LEMMA SeamStep ==
  ASSUME NEW m \in Nat \ {0}, 2 * m <= ULong,
         NEW L \in RangeLists \ {<< >>}, NEW length \in Nat \ {0, 1},
         NEW state, SeamInv(state, L, length, m), ~(Len(state.out) <= length)
  PROVE  SeamInv(JoinNear(state.out, state.next), L, length, m)
<1> DEFINE K == state.out
           n == Len(K)
           now == JoinNear(K, state.next)
           M == now.out
<1>1. /\ state \in Passes /\ Numbers(L) \subseteq Numbers(K)
      /\ Len(L) <= length => K = L
      /\ state.next <= m
  BY DEF SeamInv
<1>2. PICK j \in Nat : Stepping(K, j, m)
  BY DEF SeamInv
<1>3. K \in RangeLists \ {<< >>} /\ state.next \in Nat
  BY <1>1 DEF Passes
<1>4. ~(Len(L) <= length)
  BY <1>1
<1> HIDE DEF n, K
<1>5. now \in Passes /\ StepInv(now, K, j, n, m)
  BY <1>1, <1>2, <1>3, JoinNearSteps DEF n
<1> HIDE DEF now
<1>6. PICK i \in Nat : Stepping(M, i, m)
  BY <1>5 DEF StepInv
<1>7. /\ \A u \in 1..n : \A d \in Nat : K[u][1] <= d /\ d <= K[u][2] => d \in Numbers(M)
      /\ now.next <= m \/ \A u \in 2..Len(M) : Breaks(M, u)
  BY <1>5 DEF StepInv
<1>8. Numbers(L) \subseteq Numbers(M)
  <2>1. Numbers(K) \subseteq Numbers(M)
    BY <1>7 DEF Numbers, n
  <2> QED
    BY <1>1, <2>1
<1>9. M \in RangeLists
  BY <1>5 DEF Passes
<1> HIDE DEF M
<1>10. now.next <= m \/ Len(M) <= length
  <2> SUFFICES ASSUME \A u \in 2..Len(M) : Breaks(M, u), ~(Len(M) <= length) PROVE FALSE
    BY <1>7 DEF M
  <2>1. /\ Len(M) \in Nat /\ Len(M) >= 3
        /\ \A u \in 1..Len(M) : M[u][1] \in Nat /\ M[u][2] \in Nat
    BY <1>9, ListParts
  <2>2. \A u \in 2..Len(M) : u = i + 1
    <3> SUFFICES ASSUME NEW u \in 2..Len(M), u # i + 1 PROVE FALSE
      OBVIOUS
    <3>1. M[u - 1][2] <= M[u][1] /\ M[u][1] < M[u - 1][2]
      BY <1>6 DEF Stepping, Breaks
    <3>2. M[u - 1][2] \in Nat /\ M[u][1] \in Nat
      BY <2>1
    <3> QED
      BY <3>1, <3>2
  <2>3. 2 \in 2..Len(M) /\ 3 \in 2..Len(M)
    BY <2>1
  <2>4. 2 = i + 1 /\ 3 = i + 1
    BY <2>2, <2>3
  <2> QED
    BY <2>4
<1> QED
  BY <1>4, <1>5, <1>6, <1>8, <1>10 DEF SeamInv, M, now, K

\* Of the ranges of two parts CompactRanges loses nothing, and it changes nothing when
\* there are no more than asked for.
LEMMA CompactSeam ==
  ASSUME NEW m \in Nat \ {0}, 2 * m <= ULong,
         NEW L \in RangeLists \ {<< >>}, NEW j \in Nat, Stepping(L, j, m),
         NEW length \in Nat \ {0, 1}
  PROVE  LET K == CompactRanges(L, length)
         IN  /\ K \in RangeLists /\ Numbers(L) \subseteq Numbers(K)
             /\ Len(L) <= length => K = L
<1> DEFINE N == Len(L)
<1>1. N \in Nat \ {0}
  BY ListParts
<1>2. PICK u :
          /\ u[0] = [out |-> L, next |-> 1] /\ u[0] \in Passes
          /\ \A k \in 1..N : u[k] = IF Len(u[k - 1].out) <= length THEN u[k - 1]
                                    ELSE JoinNear(u[k - 1].out, u[k - 1].next)
          /\ CompactRanges(L, length) = u[N].out
  BY CompactIs
<1> HIDE DEF N
<1> DEFINE P == {k \in Nat : k \in 0..N => SeamInv(u[k], L, length, m)}
<1>3. 0 \in P
  <2>1. u[0].out = L /\ u[0].next = 1 /\ 1 <= m
    BY <1>2
  <2>2. SeamInv(u[0], L, length, m)
    BY <1>2, <2>1 DEF SeamInv
  <2> QED
    BY <2>2
<1>4. ASSUME NEW k \in P PROVE k + 1 \in P
  <2> SUFFICES ASSUME k + 1 \in 0..N PROVE SeamInv(u[k + 1], L, length, m)
    OBVIOUS
  <2>1. k \in Nat /\ k \in 0..N /\ k + 1 \in 1..N /\ (k + 1) - 1 = k
    BY <1>1
  <2>2. SeamInv(u[k], L, length, m)
    BY <2>1
  <2>3. u[k + 1] = IF Len(u[k].out) <= length THEN u[k] ELSE JoinNear(u[k].out, u[k].next)
    BY <1>2, <2>1
  <2> HIDE DEF P
  <2>4. CASE Len(u[k].out) <= length
    BY <2>2, <2>3, <2>4
  <2>5. CASE ~(Len(u[k].out) <= length)
    BY <2>2, <2>3, <2>5, SeamStep
  <2> QED
    BY <2>4, <2>5
<1>5. P \in SUBSET Nat
  OBVIOUS
<1>6. \A k \in Nat : k \in P
  <2> HIDE DEF P
  <2> QED
    BY <1>3, <1>4, <1>5, Inductive
<1>7. SeamInv(u[N], L, length, m)
  BY <1>1, <1>6
<1>8. /\ u[N].out \in RangeLists /\ Numbers(L) \subseteq Numbers(u[N].out)
      /\ Len(L) <= length => u[N].out = L
  BY <1>7 DEF SeamInv, Passes
<1> QED
  BY <1>2, <1>8

-----------------------------------------------------------------------------
(* OrderBy *)

\* What OrderBy makes of ranges.
Ascending(R) == \A j, k \in 1..Len(R) : j <= k => R[j][1] <= R[k][1]

\* InsertAt keeps what is before the place, and moves what is behind it.
LEMMA Inserted ==
  ASSUME NEW T, NEW s \in Seq(T), NEW e \in T, NEW i \in 1..(Len(s) + 1)
  PROVE  LET K == InsertAt(s, i, e)
         IN  /\ K \in Seq(T) /\ Len(K) = Len(s) + 1 /\ K[i] = e
             /\ \A k \in 1..(i - 1) : K[k] = s[k]
             /\ \A k \in (i + 1)..(Len(s) + 1) : K[k] = s[k - 1]
<1> DEFINE n == Len(s)
           a == SubSeq(s, 1, i - 1)
           m == <<e>>
           c == SubSeq(s, i, n)
           am == a \o m
           K == InsertAt(s, i, e)
<1>1. n \in Nat /\ i \in Nat /\ i - 1 \in Nat /\ i \in Int /\ i - 1 \in Int /\ 1 \in Int /\ n \in Int
      /\ i <= n + 1 /\ i >= 1 /\ \A k \in 1..n : s[k] \in T
  OBVIOUS
<1>2. /\ a \in Seq(T) /\ Len(a) = i - 1
      /\ \A k \in 1..(i - 1) : a[k] = s[k]
  <2>1. \A k \in 1..(i - 1) : s[k] \in T
    BY <1>1
  <2>2. /\ a \in Seq(T) /\ Len(a) = (IF 1 <= i - 1 THEN i - 1 - 1 + 1 ELSE 0)
        /\ \A k \in 1..(i - 1 - 1 + 1) : a[k] = s[1 + k - 1]
    BY ONLY <1>1, <2>1, SubSeqProperties
  <2>3. i - 1 - 1 + 1 = i - 1 /\ \A k \in 1..(i - 1) : 1 + k - 1 = k
    BY <1>1
  <2> HIDE DEF a
  <2> QED
    BY <1>1, <2>2, <2>3
<1>3. m \in Seq(T) /\ Len(m) = 1 /\ m[1] = e
  OBVIOUS
<1>4. /\ c \in Seq(T) /\ Len(c) = n - i + 1
      /\ \A k \in 1..(n - i + 1) : c[k] = s[i + k - 1]
  <2>1. \A k \in i..n : s[k] \in T
    BY <1>1
  <2>2. /\ c \in Seq(T) /\ Len(c) = (IF i <= n THEN n - i + 1 ELSE 0)
        /\ \A k \in 1..(n - i + 1) : c[k] = s[i + k - 1]
    BY ONLY <1>1, <2>1, SubSeqProperties
  <2> HIDE DEF c
  <2> QED
    BY <1>1, <2>2
<1> HIDE DEF a, m, c, n
<1>5. /\ am \in Seq(T) /\ Len(am) = i
      /\ \A k \in 1..i : am[k] = IF k <= i - 1 THEN a[k] ELSE m[k - (i - 1)]
  <2>1. /\ am \in Seq(T) /\ Len(am) = Len(a) + Len(m)
        /\ \A k \in 1..(Len(a) + Len(m)) :
              am[k] = IF k <= Len(a) THEN a[k] ELSE m[k - Len(a)]
    BY ONLY <1>2, <1>3, ConcatProperties
  <2>2. Len(a) + Len(m) = i
    BY <1>1, <1>2, <1>3
  <2> HIDE DEF am
  <2> QED
    BY <1>2, <2>1, <2>2
<1>6. am[i] = e /\ \A k \in 1..(i - 1) : am[k] = s[k]
  <2>1. i \in 1..i /\ ~(i <= i - 1) /\ i - (i - 1) = 1
    BY <1>1
  <2>2. \A k \in 1..(i - 1) : k \in 1..i /\ k <= i - 1
    BY <1>1
  <2> HIDE DEF am
  <2> QED
    BY <1>2, <1>3, <1>5, <2>1, <2>2
<1> HIDE DEF am
<1>7. K = am \o c
  BY DEF InsertAt, am, a, m, c, n
<1>8. /\ K \in Seq(T) /\ Len(K) = Len(am) + Len(c)
      /\ \A k \in 1..(Len(am) + Len(c)) :
            K[k] = IF k <= Len(am) THEN am[k] ELSE c[k - Len(am)]
  <2>1. /\ am \o c \in Seq(T) /\ Len(am \o c) = Len(am) + Len(c)
        /\ \A k \in 1..(Len(am) + Len(c)) :
              (am \o c)[k] = IF k <= Len(am) THEN am[k] ELSE c[k - Len(am)]
    BY ONLY <1>4, <1>5, ConcatProperties
  <2> HIDE DEF K
  <2> QED
    BY ONLY <2>1, <1>7
<1>9. Len(am) + Len(c) = n + 1
  BY <1>1, <1>4, <1>5
<1> HIDE DEF K
<1>10. K[i] = e /\ \A k \in 1..(i - 1) : K[k] = s[k]
  <2>1. i \in 1..(n + 1) /\ i <= i
    BY <1>1
  <2>2. \A k \in 1..(i - 1) : k \in 1..(n + 1) /\ k <= i
    BY <1>1
  <2> QED
    BY <1>5, <1>6, <1>8, <1>9, <2>1, <2>2
<1>11. \A k \in (i + 1)..(n + 1) : K[k] = s[k - 1]
  <2> SUFFICES ASSUME NEW k \in (i + 1)..(n + 1) PROVE K[k] = s[k - 1]
    OBVIOUS
  <2>1. k \in 1..(n + 1) /\ ~(k <= i) /\ k - i \in 1..(n - i + 1) /\ i + (k - i) - 1 = k - 1
    BY <1>1
  <2>2. K[k] = c[k - i]
    BY <1>5, <1>8, <1>9, <2>1
  <2> QED
    BY <1>4, <2>1, <2>2
<1> QED
  BY <1>8, <1>9, <1>10, <1>11 DEF K, n

\* The pairs of s and e, in ascending order.
Gains(K, s, e) ==
    LET n == Len(s)
    IN  /\ Len(K) = n + 1 /\ Ascending(K)
        /\ \A k \in 1..(n + 1) : K[k] = e \/ \E j \in 1..n : K[k] = s[j]
        /\ \E k \in 1..(n + 1) : K[k] = e
        /\ \A j \in 1..n : \E k \in 1..(n + 1) : K[k] = s[j]

\* A pair is put behind the last that does not start after it.
LEMMA InsertPlace ==
  ASSUME NEW T, \A t \in T : t[1] \in Nat, NEW s \in Seq(T), NEW e \in T, Ascending(s)
  PROVE  InsertOrdered(s, e) \in Seq(T) /\ Gains(InsertOrdered(s, e), s, e)
<1> DEFINE n == Len(s)
           U == {0} \cup {j \in DOMAIN s : s[j][1] <= e[1]}
           p == Max(U)
           i == 1 + p
           K == InsertOrdered(s, e)
<1>1. n \in Nat /\ DOMAIN s = 1..n /\ e[1] \in Nat /\ \A k \in 1..n : s[k] \in T /\ s[k][1] \in Nat
  OBVIOUS
<1>2. /\ p \in 0..n /\ p \in U /\ \A j \in 1..n : s[j][1] <= e[1] => j <= p
  <2>1. U \subseteq -1..n /\ U # {} /\ n \in Int
    BY <1>1
  <2>2. \E x \in U : \A y \in U : x >= y
    <3> HIDE DEF U
    <3> QED
      BY <2>1, GreatestFrom
  <2>3. p \in U /\ \A y \in U : p >= y
    <3> HIDE DEF U
    <3> QED
      BY <2>2 DEF Max
  <2>4. p \in 0..n
    BY <1>1, <2>3
  <2>5. \A j \in 1..n : s[j][1] <= e[1] => j \in U
    BY <1>1
  <2> HIDE DEF U, p
  <2> QED
    BY <1>1, <2>3, <2>4, <2>5
<1>3. p # 0 => p \in 1..n /\ s[p][1] <= e[1]
  BY <1>1, <1>2
<1>4. K = InsertAt(s, i, e)
  BY DEF InsertOrdered
<1> HIDE DEF U, p, n
<1>5. i \in 1..(n + 1) /\ i - 1 = p
  BY <1>1, <1>2
<1>6. /\ K \in Seq(T) /\ Len(K) = n + 1 /\ K[i] = e
      /\ \A k \in 1..p : K[k] = s[k]
      /\ \A k \in (i + 1)..(n + 1) : K[k] = s[k - 1]
  <2> DEFINE G == InsertAt(s, i, e)
  <2>1. /\ G \in Seq(T) /\ Len(G) = Len(s) + 1 /\ G[i] = e
        /\ \A k \in 1..(i - 1) : G[k] = s[k]
        /\ \A k \in (i + 1)..(Len(s) + 1) : G[k] = s[k - 1]
    <3> HIDE DEF i
    <3> QED
      BY <1>5, Inserted DEF n
  <2> HIDE DEF i, K, G
  <2>2. K = G
    BY <1>4 DEF G
  <2> QED
    BY <1>5, <2>1, <2>2 DEF n
<1> HIDE DEF K, i
<1>7. /\ \A k \in 1..(n + 1) : k \in 1..p \/ k = i \/ k \in (i + 1)..(n + 1)
      /\ \A k \in (i + 1)..(n + 1) : k - 1 \in 1..n /\ k - 1 > p /\ k > i
      /\ \A k \in 1..p : k \in 1..n /\ k \in 1..(n + 1) /\ k < i
      /\ \A j \in 1..n : j \in 1..p \/ j + 1 \in (i + 1)..(n + 1)
      /\ \A j \in 1..n : j + 1 \in 1..(n + 1) /\ (j + 1) - 1 = j
  BY <1>1, <1>2, <1>5
<1>8. \A j, k \in 1..n : j <= k => s[j][1] <= s[k][1]
  BY DEF Ascending, n
<1>9. \A k \in 1..p : K[k][1] <= e[1] /\ K[k][1] \in Nat
  <2> SUFFICES ASSUME NEW k \in 1..p PROVE K[k][1] <= e[1] /\ K[k][1] \in Nat
    OBVIOUS
  <2>1. p # 0 /\ k <= p /\ k \in 1..n
    BY <1>2, <1>7
  <2>2. s[k][1] <= s[p][1] /\ s[p][1] <= e[1] /\ s[k][1] \in Nat /\ s[p][1] \in Nat
    BY <1>1, <1>3, <1>8, <2>1
  <2>3. s[k][1] <= e[1]
    BY <1>1, <2>2
  <2> QED
    BY <1>6, <2>2, <2>3
<1>10. \A k \in (i + 1)..(n + 1) : e[1] <= K[k][1] /\ K[k][1] \in Nat
  <2> SUFFICES ASSUME NEW k \in (i + 1)..(n + 1) PROVE e[1] <= K[k][1] /\ K[k][1] \in Nat
    OBVIOUS
  <2>1. k - 1 \in 1..n /\ k - 1 > p /\ K[k] = s[k - 1]
    BY <1>6, <1>7
  <2>2. ~(s[k - 1][1] <= e[1]) /\ s[k - 1][1] \in Nat
    BY <1>1, <1>2, <2>1
  <2> QED
    BY <1>1, <2>1, <2>2
<1>11. ASSUME NEW j \in 1..(n + 1), NEW k \in 1..(n + 1), j <= k PROVE K[j][1] <= K[k][1]
  <2>1. CASE j = i
    <3>1. k = i \/ k \in (i + 1)..(n + 1)
      BY <1>7, <1>11, <2>1, <1>5, <1>1
    <3> QED
      BY <2>1, <3>1, <1>1, <1>6, <1>10
  <2>2. CASE j \in 1..p
    <3>1. CASE k \in 1..p
      <4>1. s[j][1] <= s[k][1]
        BY <1>7, <1>8, <1>11, <2>2, <3>1
      <4> QED
        BY <4>1, <1>6, <2>2, <3>1
    <3>2. CASE k = i
      BY <1>6, <1>9, <2>2, <3>2
    <3>3. CASE k \in (i + 1)..(n + 1)
      <4>1. K[j][1] <= e[1] /\ e[1] <= K[k][1] /\ K[j][1] \in Nat /\ K[k][1] \in Nat
        BY <1>9, <1>10, <2>2, <3>3
      <4> QED
        BY <4>1, <1>1
    <3> QED
      BY <1>7, <3>1, <3>2, <3>3
  <2>3. CASE j \in (i + 1)..(n + 1)
    <3>1. k \in (i + 1)..(n + 1)
      BY <1>1, <1>5, <1>11, <2>3
    <3>2. j - 1 \in 1..n /\ k - 1 \in 1..n /\ j - 1 <= k - 1
      BY <1>1, <1>5, <1>7, <1>11, <2>3, <3>1
    <3>3. s[j - 1][1] <= s[k - 1][1]
      BY <1>8, <3>2
    <3> QED
      BY <1>6, <2>3, <3>1, <3>3
  <2> QED
    BY <1>7, <2>1, <2>2, <2>3
<1>12. Ascending(K)
  BY <1>6, <1>11 DEF Ascending
<1>13. \A k \in 1..(n + 1) : K[k] = e \/ \E j \in 1..n : K[k] = s[j]
  BY <1>6, <1>7
<1>14. \A j \in 1..n : \E k \in 1..(n + 1) : K[k] = s[j]
  <2> SUFFICES ASSUME NEW j \in 1..n PROVE \E k \in 1..(n + 1) : K[k] = s[j]
    OBVIOUS
  <2>1. CASE j \in 1..p
    BY <1>6, <1>7, <2>1
  <2>2. CASE j + 1 \in (i + 1)..(n + 1)
    BY <1>6, <1>7, <2>2
  <2> QED
    BY <1>7, <2>1, <2>2
<1> QED
  BY <1>5, <1>6, <1>12, <1>13, <1>14 DEF K, n, Gains

\* What FoldLeft takes next: the last of the first k.
LEMMA Tops ==
  ASSUME NEW k \in Nat
  PROVE  /\ Max(1..(k + 1)) = k + 1 /\ (1..(k + 1)) \ {k + 1} = 1..k
         /\ \A t \in SUBSET (1..(k + 1)) :
               /\ k + 1 \in t => Max(t) = k + 1 /\ t \ {k + 1} \in SUBSET (1..k)
               /\ k + 1 \notin t => t \in SUBSET (1..k)
<1>1. ASSUME NEW t \in SUBSET (1..(k + 1)), k + 1 \in t PROVE Max(t) = k + 1
  <2>1. \A y \in t : k + 1 >= y
    OBVIOUS
  <2>2. \A x \in t : (\A y \in t : x >= y) => x = k + 1
    BY <1>1
  <2> QED
    BY <1>1, <2>1, <2>2 DEF Max
<1>2. \A x \in 1..(k + 1) : x # k + 1 => x \in 1..k
  OBVIOUS
<1> QED
  BY <1>1, <1>2

\* OrderBy, pair by pair.
LEMMA OrderByFold ==
  ASSUME NEW s, NEW n \in Nat, DOMAIN s = 1..n
  PROVE  \E f : /\ f[0] = << >> /\ OrderBy(s) = f[n]
                /\ \A i \in 1..n : f[i] = InsertOrdered(f[i - 1], s[i])
<1> DEFINE Folds(k, g) ==
               g = [t \in SUBSET (1..k) |->
                       IF t = {} THEN << >> ELSE InsertOrdered(g[t \ {Max(t)}], s[Max(t)])]
           P == {k \in Nat : \E g : Folds(k, g)}
<1>1. 0 \in P
  <2>1. Folds(0, [t \in SUBSET (1..0) |-> << >>])
    OBVIOUS
  <2> QED
    BY <2>1
<1>2. ASSUME NEW k \in P PROVE k + 1 \in P
  <2>1. PICK g : Folds(k, g)
    OBVIOUS
  <2> DEFINE h == [t \in SUBSET (1..(k + 1)) |->
                      IF k + 1 \in t THEN InsertOrdered(g[t \ {k + 1}], s[k + 1]) ELSE g[t]]
  <2>0. k \in Nat
    OBVIOUS
  <2> HIDE DEF P, Folds
  <2>2. k \in Nat /\ \A t \in SUBSET (1..k) : h[t] = g[t] /\ t \ {Max(t)} \in SUBSET (1..k)
    <3>1. \A t \in SUBSET (1..k) : k + 1 \notin t /\ t \in SUBSET (1..(k + 1))
      BY <2>0
    <3>2. \A t \in SUBSET (1..k) : t \ {Max(t)} \in SUBSET (1..k)
      OBVIOUS
    <3> QED
      BY <2>0, <3>1, <3>2
  <2>3. ASSUME NEW t \in SUBSET (1..(k + 1))
        PROVE  h[t] = IF t = {} THEN << >> ELSE InsertOrdered(h[t \ {Max(t)}], s[Max(t)])
    <3>1. CASE k + 1 \in t
      <4>1. Max(t) = k + 1 /\ t \ {k + 1} \in SUBSET (1..k) /\ t # {}
        BY <2>2, <3>1, Tops
      <4>2. h[t] = InsertOrdered(g[t \ {k + 1}], s[k + 1]) /\ h[t \ {k + 1}] = g[t \ {k + 1}]
        BY <2>2, <3>1, <4>1
      <4> QED
        BY ONLY <4>1, <4>2
    <3>2. CASE k + 1 \notin t
      <4>1. t \in SUBSET (1..k)
        BY <2>2, <3>2, Tops
      <4>2. h[t] = g[t] /\ h[t \ {Max(t)}] = g[t \ {Max(t)}]
        BY <2>2, <4>1
      <4>3. g[t] = IF t = {} THEN << >> ELSE InsertOrdered(g[t \ {Max(t)}], s[Max(t)])
        BY ONLY <2>1, <4>1 DEF Folds
      <4> QED
        BY ONLY <4>2, <4>3
    <3> QED
      BY ONLY <3>1, <3>2
  <2>4. Folds(k + 1, h)
    BY ONLY <2>3 DEF Folds
  <2> HIDE DEF h
  <2> QED
    BY ONLY <2>4, <2>0 DEF P
<1>3. \E g : Folds(n, g)
  <2> HIDE DEF Folds
  <2>1. P \in SUBSET Nat
    OBVIOUS
  <2>2. n \in P
    <3> HIDE DEF P
    <3> QED
      BY <1>1, <1>2, <2>1, Inductive
  <2> QED
    BY ONLY <2>2
<1> DEFINE F == CHOOSE g : Folds(n, g)
<1>4. Folds(n, F)
  BY ONLY <1>3
<1>5. OrderBy(s) = F[1..n]
  BY DEF OrderBy, FoldLeft, MapThenFoldSet
<1> HIDE DEF F
<1> DEFINE f == [i \in 0..n |-> F[1..i]]
<1>6. f[0] = << >> /\ f[n] = F[1..n]
  <2>1. 1..0 = {} /\ {} \in SUBSET (1..n) /\ 0 \in 0..n /\ n \in 0..n
    OBVIOUS
  <2>2. F[{}] = << >>
    BY ONLY <1>4, <2>1
  <2> QED
    BY ONLY <2>1, <2>2
<1>7. ASSUME NEW i \in 1..n PROVE f[i] = InsertOrdered(f[i - 1], s[i])
  <2>1. i - 1 \in Nat /\ i - 1 + 1 = i /\ 1..i \in SUBSET (1..n) /\ 1..i # {}
    OBVIOUS
  <2>2. Max(1..i) = i /\ (1..i) \ {i} = 1..(i - 1)
    BY <2>1, Tops
  <2>3. F[1..i] = InsertOrdered(F[(1..i) \ {Max(1..i)}], s[Max(1..i)])
    BY ONLY <1>4, <2>1
  <2>4. f[i] = F[1..i] /\ f[i - 1] = F[1..(i - 1)]
    OBVIOUS
  <2> QED
    BY ONLY <2>2, <2>3, <2>4
<1> HIDE DEF f
<1> QED
  BY <1>5, <1>6, <1>7

\* OrderBy gives the same pairs, in ascending order.
LEMMA OrderByIs ==
  ASSUME NEW T, \A t \in T : t[1] \in Nat, NEW s \in Seq(T)
  PROVE  LET R == OrderBy(s)
             n == Len(s)
         IN  /\ R \in Seq(T) /\ Len(R) = n /\ Ascending(R)
             /\ \A k \in 1..n : \E j \in 1..n : R[k] = s[j]
             /\ \A j \in 1..n : \E k \in 1..n : R[k] = s[j]
<1> DEFINE n == Len(s)
           Ordered(R, i) ==
              /\ R \in Seq(T) /\ Len(R) = i /\ Ascending(R)
              /\ \A k \in 1..i : \E j \in 1..i : R[k] = s[j]
              /\ \A j \in 1..i : \E k \in 1..i : R[k] = s[j]
<1>1. n \in Nat /\ DOMAIN s = 1..n /\ \A k \in 1..n : s[k] \in T
  OBVIOUS
<1>2. PICK f : /\ f[0] = << >> /\ OrderBy(s) = f[n]
               /\ \A i \in 1..n : f[i] = InsertOrdered(f[i - 1], s[i])
  BY ONLY <1>1, OrderByFold, Z3
<1> DEFINE P == {i \in Nat : i <= n => Ordered(f[i], i)}
<1>3. 0 \in P
  <2>1. Ordered(<< >>, 0)
    BY DEF Ascending
  <2> HIDE DEF Ordered
  <2> QED
    BY <1>2, <2>1
<1> HIDE DEF n, Ordered
<1>4. ASSUME NEW i \in P PROVE i + 1 \in P
  <2> SUFFICES ASSUME i + 1 <= n PROVE Ordered(f[i + 1], i + 1)
    OBVIOUS
  <2> DEFINE K == f[i]
             R == f[i + 1]
             e == s[i + 1]
  <2>1. i \in Nat /\ i <= n /\ i + 1 \in 1..n /\ (i + 1) - 1 = i
    BY <1>1
  <2>2. Ordered(K, i)
    BY <2>1
  <2>3. /\ K \in Seq(T) /\ Len(K) = i /\ Ascending(K)
        /\ \A k \in 1..i : \E j \in 1..i : K[k] = s[j]
        /\ \A j \in 1..i : \E k \in 1..i : K[k] = s[j]
    BY <2>2 DEF Ordered
  <2>4. R = InsertOrdered(K, e) /\ e \in T
    BY <1>1, <1>2, <2>1
  <2> HIDE DEF K, R, e, P
  <2>5. /\ R \in Seq(T) /\ Len(R) = i + 1 /\ Ascending(R)
        /\ \A k \in 1..(i + 1) : R[k] = e \/ \E j \in 1..i : R[k] = K[j]
        /\ \E k \in 1..(i + 1) : R[k] = e
        /\ \A j \in 1..i : \E k \in 1..(i + 1) : R[k] = K[j]
    <3>1. K \in Seq(T) /\ Ascending(K) /\ e \in T /\ \A t \in T : t[1] \in Nat
      BY <2>3, <2>4
    <3>2. InsertOrdered(K, e) \in Seq(T) /\ Gains(InsertOrdered(K, e), K, e)
      BY ONLY <3>1, InsertPlace, Zenon
    <3>3. R \in Seq(T) /\ Gains(R, K, e)
      BY <2>4, <3>2
    <3> QED
      BY <2>3, <3>3 DEF Gains
  <2>6. \A k \in 1..(i + 1) : \E j \in 1..(i + 1) : R[k] = s[j]
    <3>1. \A j \in 1..i : j \in 1..(i + 1)
      BY <2>1
    <3>2. i + 1 \in 1..(i + 1)
      BY <2>1
    <3>3. ASSUME NEW k \in 1..(i + 1) PROVE \E j \in 1..(i + 1) : R[k] = s[j]
      <4>1. CASE R[k] = e
        BY <3>2, <4>1 DEF e
      <4>2. CASE \E j \in 1..i : R[k] = K[j]
        <5>1. PICK j \in 1..i : R[k] = K[j]
          BY <4>2
        <5>2. PICK u \in 1..i : K[j] = s[u]
          BY <2>3
        <5> QED
          BY <3>1, <5>1, <5>2
      <4> QED
        BY <2>5, <4>1, <4>2
    <3> QED
      BY <3>3
  <2>7. \A j \in 1..(i + 1) : \E k \in 1..(i + 1) : R[k] = s[j]
    <3> SUFFICES ASSUME NEW j \in 1..(i + 1) PROVE \E k \in 1..(i + 1) : R[k] = s[j]
      OBVIOUS
    <3>1. CASE j = i + 1
      BY <2>5, <3>1 DEF e
    <3>2. CASE j \in 1..i
      <4>1. PICK k \in 1..i : K[k] = s[j]
        BY <2>3, <3>2
      <4> QED
        BY <2>5, <4>1
    <3> QED
      BY <2>1, <3>1, <3>2
  <2> QED
    BY <2>5, <2>6, <2>7 DEF R, Ordered
<1>5. P \in SUBSET Nat
  OBVIOUS
<1>6. \A i \in Nat : i \in P
  <2> HIDE DEF P
  <2> QED
    BY <1>3, <1>4, <1>5, Inductive
<1>7. Ordered(f[n], n)
  BY <1>1, <1>6
<1> QED
  BY <1>2, <1>7 DEF n, Ordered

-----------------------------------------------------------------------------
(* WrapOverlap *)

\* Boxes of cells of the grid.
OnGrid(n) == {b \in [x : Nat, y : Nat, p : Nat \ {0}, q : Nat \ {0}] : Fits(b, n)}

\* A box that is wrapped at most once, and reaches over one pole at most.
Wraps(b, n) ==
    /\ b \in [x : Int, y : Int, p : Nat \ {0}, q : Nat \ {0}]
    /\ b.x <= n - 1 /\ b.y <= n - 1 /\ MaxX(b) > 0 /\ MaxY(b) > 0
    /\ b.x < 0 => MaxX(b) <= n - 1 /\ b.q <= n - 1
    /\ b.x >= 0 => MaxX(b) <= n \/ MaxX(b) <= 2 * (n - 1)
    /\ b.y < 0 => MaxY(b) <= n - 1

\* The columns of its parts: the first and how many.
Columns(b, n) ==
    IF b.x < 0 THEN << <<0, MaxX(b)>>, <<n - 1 + b.x, -b.x>> >>
    ELSE IF MaxX(b) <= n - 1 THEN << <<b.x, b.q>> >>
    ELSE << <<b.x, Greater(1, n - 1 - b.x)>>, <<0, MaxX(b) - (n - 1)>> >>

\* Their rows.
Rows(b, n) ==
    IF b.y < 0 THEN <<0, MaxY(b)>>
    ELSE IF MaxY(b) <= n - 1 THEN <<b.y, b.p>>
    ELSE <<b.y, Greater(1, n - 1 - b.y)>>

\* A part.
Part(column, rows) == [x |-> column[1], y |-> rows[1], p |-> rows[2], q |-> column[2]]

\* FlattenSeq of one list.
LEMMA FlattenOne ==
  ASSUME NEW s, Len(s) = 1
  PROVE  FlattenSeq(s) = s[1]
<1> DEFINE N == Len(s)
           Body(g) == [i \in 1..N |-> IF i = 1 THEN s[i] ELSE g[i - 1] \o s[i]]
           h == [i \in 1..N |-> s[1]]
<1>1. N = 1
  OBVIOUS
<1> HIDE DEF N
<1>2. h = Body(h)
  BY <1>1
<1>3. N # 0
  BY <1>1
<1>4. \E u : u = Body(u) /\ FlattenSeq(s) = u[N]
  <2> HIDE DEF h
  <2> QED
    BY <1>2, <1>3, Zenon DEF FlattenSeq, N
<1>5. PICK u : u = Body(u) /\ FlattenSeq(s) = u[N]
  BY <1>4
<1>6. 1 \in 1..N
  BY <1>1
<1>7. u[1] = s[1]
  BY <1>5, <1>6
<1> QED
  BY <1>1, <1>5, <1>7

\* FlattenSeq of two.
LEMMA FlattenTwo ==
  ASSUME NEW s, Len(s) = 2
  PROVE  FlattenSeq(s) = s[1] \o s[2]
<1> DEFINE N == Len(s)
           Body(g) == [i \in 1..N |-> IF i = 1 THEN s[i] ELSE g[i - 1] \o s[i]]
           both == s[1] \o s[2]
           h == [i \in 1..N |-> IF i = 1 THEN s[1] ELSE both]
<1>1. N = 2
  OBVIOUS
<1> HIDE DEF N
<1>2. /\ 1 \in 1..N /\ 2 \in 1..N /\ 2 # 1 /\ 2 - 1 = 1 /\ N # 0
      /\ \A i \in 1..N : i = 1 \/ i = 2
  BY <1>1
<1>3. h = Body(h)
  <2>1. h[1] = s[1] /\ h[2] = both
    BY <1>2
  <2>2. h = [i \in 1..N |-> h[i]]
    OBVIOUS
  <2> HIDE DEF h
  <2>3. h[1] = s[1] /\ h[2] = h[2 - 1] \o s[2]
    BY <1>2, <2>1
  <2>4. \A i \in 1..N : h[i] = IF i = 1 THEN s[i] ELSE h[i - 1] \o s[i]
    BY <1>2, <2>3
  <2> QED
    BY <2>2, <2>4
<1>4. \E u : u = Body(u) /\ FlattenSeq(s) = u[N]
  <2> HIDE DEF h
  <2> QED
    BY <1>2, <1>3, Zenon DEF FlattenSeq, N
<1>5. PICK u : u = Body(u) /\ FlattenSeq(s) = u[N]
  BY <1>4
<1>6. u[1] = s[1] /\ u[2] = u[2 - 1] \o s[2]
  BY <1>2, <1>5
<1> QED
  BY <1>1, <1>2, <1>5, <1>6

\* One after the other.
LEMMA TwoOf ==
  ASSUME NEW u, NEW v
  PROVE  <<u>> \o <<v>> = <<u, v>>
<1> DEFINE T == {u, v}
<1>1. <<u>> \in Seq(T) /\ v \in T
  OBVIOUS
<1>2. Append(<<u>>, v) = <<u>> \o <<v>>
  <2> HIDE DEF T
  <2> QED
    BY <1>1, AppendIsConcat
<1>3. PICK K, R : K = Append(<<u>>, v) /\ R = <<u, v>>
  OBVIOUS
<1>4. /\ K \in Seq(T) /\ R \in Seq(T) /\ Len(K) = 2 /\ Len(R) = 2
      /\ K[1] = u /\ K[2] = v /\ R[1] = u /\ R[2] = v
  BY <1>1, <1>3
<1>5. \A k \in 1..Len(K) : K[k] = R[k]
  BY <1>4
<1>6. K = R
  <2> HIDE DEF T
  <2> QED
    BY <1>4, <1>5, SeqEqual
<1> QED
  BY <1>2, <1>3, <1>6

\* An envelope with a height and a width.
LEMMA Envelope ==
  ASSUME NEW x, NEW y, NEW p \in Nat \ {0}, NEW q \in Nat \ {0}
  PROVE  HilbertEnvelope(x, y, p, q) = [x |-> x, y |-> y, p |-> p, q |-> q]
<1>1. Greater(1, p) = p /\ Greater(1, q) = q
  BY DEF Greater
<1> QED
  BY <1>1 DEF HilbertEnvelope

\* The rows of the part with the columns c, before it is cut at the north.
LEMMA SouthPart ==
  ASSUME NEW n \in Nat \ {0}, NEW b, Wraps(b, n), NEW u \in Int, NEW v \in Nat \ {0}
  PROVE  WrapSouth(Part(<<u, v>>, <<b.y, b.p>>), n)
           = Part(<<u, v>>, IF b.y < 0 THEN <<0, MaxY(b)>> ELSE <<b.y, b.p>>)
<1> DEFINE a == Part(<<u, v>>, <<b.y, b.p>>)
<1>1. a.x = u /\ a.y = b.y /\ a.p = b.p /\ a.q = v /\ MaxY(a) = MaxY(b)
  BY DEF Part, MaxY
<1>2. b.y \in Int /\ b.p \in Nat \ {0} /\ MaxY(b) \in Nat \ {0}
  BY DEF Wraps, MaxY
<1>3. CASE b.y < 0
  <2>1. WrapSouth(a, n) = HilbertEnvelope(u, 0, MaxY(b), v)
    BY <1>1, <1>2, <1>3 DEF WrapSouth
  <2>2. HilbertEnvelope(u, 0, MaxY(b), v) = Part(<<u, v>>, <<0, MaxY(b)>>)
    BY <1>2, Envelope DEF Part
  <2> QED
    BY <1>3, <2>1, <2>2
<1>4. CASE ~(b.y < 0)
  BY <1>1, <1>2, <1>4 DEF WrapSouth
<1> QED
  BY <1>3, <1>4

\* And after.
LEMMA NorthPart ==
  ASSUME NEW n \in Nat \ {0}, NEW b, Wraps(b, n), NEW u \in Int, NEW v \in Nat \ {0}
  PROVE  WrapNorth(Part(<<u, v>>, IF b.y < 0 THEN <<0, MaxY(b)>> ELSE <<b.y, b.p>>), n)
           = Part(<<u, v>>, Rows(b, n))
<1>1. b.y \in Int /\ b.p \in Nat \ {0} /\ MaxY(b) \in Nat \ {0} /\ MaxY(b) = b.y + b.p
      /\ (b.y < 0 => MaxY(b) <= n - 1)
  BY DEF Wraps, MaxY
<1>2. CASE b.y < 0
  <2> DEFINE a == Part(<<u, v>>, <<0, MaxY(b)>>)
  <2>1. MaxY(a) = MaxY(b)
    BY <1>1 DEF Part, MaxY
  <2>2. WrapNorth(a, n) = a
    BY <1>1, <1>2, <2>1 DEF WrapNorth
  <2> QED
    BY <1>2, <2>2 DEF Rows
<1>3. CASE ~(b.y < 0)
  <2> DEFINE a == Part(<<u, v>>, <<b.y, b.p>>)
  <2>1. MaxY(a) = MaxY(b) /\ a.x = u /\ a.y = b.y /\ a.q = v
    BY <1>1 DEF Part, MaxY
  <2>2. CASE MaxY(b) <= n - 1
    BY <1>3, <2>1, <2>2 DEF WrapNorth, Rows
  <2>3. CASE ~(MaxY(b) <= n - 1)
    <3>1. WrapNorth(a, n) = HilbertEnvelope(u, b.y, n - 1 - b.y, v)
      BY <2>1, <2>3 DEF WrapNorth
    <3>2. Greater(1, v) = v
      BY DEF Greater
    <3> QED
      BY <1>3, <2>3, <3>1, <3>2 DEF HilbertEnvelope, Part, Rows
  <2> QED
    BY <1>3, <2>2, <2>3
<1> QED
  BY <1>2, <1>3

\* What WrapWest does to the columns.
LEMMA WestParts ==
  ASSUME NEW n \in Nat \ {0}, NEW b, Wraps(b, n)
  PROVE  WrapWest(b, n) =
           IF b.x < 0 THEN <<Part(<<0, MaxX(b)>>, <<b.y, b.p>>),
                             Part(<<n - 1 + b.x, -b.x>>, <<b.y, b.p>>)>>
           ELSE <<Part(<<b.x, b.q>>, <<b.y, b.p>>)>>
<1>1. b.x \in Int /\ b.p \in Nat \ {0} /\ b.q \in Nat \ {0} /\ MaxX(b) \in Nat \ {0}
  BY DEF Wraps, MaxX
<1>2. CASE b.x < 0
  <2>1. -b.x \in Nat \ {0}
    BY <1>1, <1>2
  <2>2. WrapWest(b, n) = <<HilbertEnvelope(0, b.y, b.p, MaxX(b))>>
                         \o <<HilbertEnvelope(n - 1 + b.x, b.y, b.p, -b.x)>>
    BY <1>1, <1>2 DEF WrapWest
  <2>3. /\ HilbertEnvelope(0, b.y, b.p, MaxX(b)) = Part(<<0, MaxX(b)>>, <<b.y, b.p>>)
        /\ HilbertEnvelope(n - 1 + b.x, b.y, b.p, -b.x)
             = Part(<<n - 1 + b.x, -b.x>>, <<b.y, b.p>>)
    BY <1>1, <2>1, Envelope DEF Part
  <2> QED
    BY <1>2, <2>2, <2>3, TwoOf
<1>3. CASE ~(b.x < 0)
  <2>1. WrapWest(b, n) = <<b>>
    BY <1>1, <1>3 DEF WrapWest
  <2>2. b = Part(<<b.x, b.q>>, <<b.y, b.p>>)
    BY DEF Wraps, Part
  <2> QED
    BY <1>3, <2>1, <2>2
<1> QED
  BY <1>2, <1>3

\* And WrapEast.
Eastern(u, v, rows, n) ==
    IF u + v <= n - 1 THEN <<Part(<<u, v>>, rows)>>
    ELSE <<Part(<<u, Greater(1, n - 1 - u)>>, rows), Part(<<0, (u + v) - (n - 1)>>, rows)>>

LEMMA EastPart ==
  ASSUME NEW n \in Nat \ {0}, NEW u \in Int, NEW v \in Nat \ {0}, NEW y, NEW p \in Nat \ {0}
  PROVE  WrapEast(Part(<<u, v>>, <<y, p>>), n) = Eastern(u, v, <<y, p>>, n)
<1> DEFINE a == Part(<<u, v>>, <<y, p>>)
<1>1. a.x = u /\ a.y = y /\ a.p = p /\ MaxX(a) = u + v
  BY DEF Part, MaxX
<1>2. CASE u + v <= n - 1
  BY <1>1, <1>2 DEF WrapEast, Eastern
<1>3. CASE ~(u + v <= n - 1)
  <2>1. (u + v) - (n - 1) \in Nat \ {0}
    BY <1>3
  <2>2. WrapEast(a, n) = <<HilbertEnvelope(u, y, p, n - 1 - u),
                           HilbertEnvelope(0, y, p, (u + v) - (n - 1))>>
    BY <1>1, <1>3 DEF WrapEast
  <2>3. HilbertEnvelope(0, y, p, (u + v) - (n - 1)) = Part(<<0, (u + v) - (n - 1)>>, <<y, p>>)
    BY <2>1, Envelope DEF Part
  <2>4. HilbertEnvelope(u, y, p, n - 1 - u) = Part(<<u, Greater(1, n - 1 - u)>>, <<y, p>>)
    <3>1. Greater(1, p) = p
      BY DEF Greater
    <3> QED
      BY <3>1 DEF HilbertEnvelope, Part
  <2> QED
    BY <1>3, <2>2, <2>3, <2>4 DEF Eastern
<1> QED
  BY <1>2, <1>3

\* The columns are one interval or two, and none of them is empty.
LEMMA ColumnsIn ==
  ASSUME NEW n \in Nat \ {0}, NEW b, Wraps(b, n)
  PROVE  LET C == Columns(b, n)
         IN  /\ DOMAIN C = 1..Len(C) /\ Len(C) \in {1, 2}
             /\ \A k \in DOMAIN C : /\ C[k][1] \in Nat /\ C[k][2] \in Nat \ {0}
                                    /\ C[k][1] + C[k][2] <= n
<1>1. b.x \in Int /\ b.q \in Nat \ {0} /\ MaxX(b) \in Nat \ {0} /\ MaxX(b) = b.x + b.q
      /\ b.x <= n - 1 /\ (b.x < 0 => MaxX(b) <= n - 1 /\ b.q <= n - 1)
      /\ (b.x >= 0 => MaxX(b) <= n \/ MaxX(b) <= 2 * (n - 1))
  BY DEF Wraps, MaxX
<1>2. PICK C : C = Columns(b, n)
  OBVIOUS
<1>3. CASE b.x < 0
  <2>1. C = << <<0, MaxX(b)>>, <<n - 1 + b.x, -b.x>> >>
    BY <1>2, <1>3 DEF Columns
  <2>2. DOMAIN C = 1..Len(C) /\ Len(C) = 2
    BY <2>1
  <2>3. C[1][1] = 0 /\ C[1][2] = MaxX(b) /\ C[2][1] = n - 1 + b.x /\ C[2][2] = -b.x
    BY <2>1
  <2>4. n - 1 + b.x \in Nat /\ -b.x \in Nat \ {0} /\ n - 1 + b.x + -b.x <= n
        /\ 0 + MaxX(b) <= n
    BY <1>1, <1>3
  <2>5. \A k \in 1..2 : k = 1 \/ k = 2
    OBVIOUS
  <2> QED
    BY ONLY <1>1, <1>2, <2>2, <2>3, <2>4, <2>5
<1>4. CASE b.x >= 0 /\ MaxX(b) <= n - 1
  <2>1. C = << <<b.x, b.q>> >>
    BY <1>1, <1>2, <1>4 DEF Columns
  <2>2. b.x \in Nat /\ b.x + b.q <= n
    BY <1>1, <1>4
  <2> QED
    BY <1>1, <1>2, <2>1, <2>2
<1>5. CASE b.x >= 0 /\ ~(MaxX(b) <= n - 1)
  <2> DEFINE v == Greater(1, n - 1 - b.x)
  <2>1. C = << <<b.x, v>>, <<0, MaxX(b) - (n - 1)>> >>
    BY <1>1, <1>2, <1>5 DEF Columns
  <2>2. DOMAIN C = 1..Len(C) /\ Len(C) = 2
    BY <2>1
  <2>3. C[1][1] = b.x /\ C[1][2] = v /\ C[2][1] = 0 /\ C[2][2] = MaxX(b) - (n - 1)
    BY <2>1
  <2>4. v \in Nat \ {0} /\ b.x + v <= n /\ b.x \in Nat
    BY <1>1, <1>5 DEF Greater
  <2>5. MaxX(b) - (n - 1) \in Nat \ {0} /\ 0 + (MaxX(b) - (n - 1)) <= n
    BY <1>1, <1>5
  <2>6. \A k \in 1..2 : k = 1 \/ k = 2
    OBVIOUS
  <2> HIDE DEF v
  <2> QED
    BY ONLY <1>1, <1>2, <2>2, <2>3, <2>4, <2>5, <2>6
<1> QED
  BY <1>1, <1>3, <1>4, <1>5

\* The parts of a wrapped box: its columns, by its rows.
LEMMA WrappedIs ==
  ASSUME NEW n \in Nat \ {0}, NEW b, Wraps(b, n)
  PROVE  Wrapped(b, n) = [k \in DOMAIN Columns(b, n) |-> Part(Columns(b, n)[k], Rows(b, n))]
<1> DEFINE row == IF b.y < 0 THEN <<0, MaxY(b)>> ELSE <<b.y, b.p>>
           west == WrapWest(b, n)
           south == [i \in DOMAIN west |-> WrapSouth(west[i], n)]
           split == [i \in DOMAIN south |-> WrapEast(south[i], n)]
           east == FlattenSeq(split)
           north == [i \in DOMAIN east |-> WrapNorth(east[i], n)]
           Low(u, v) == Part(<<u, v>>, <<b.y, b.p>>)
           Raised(u, v) == Part(<<u, v>>, row)
           Cut(u, v) == Part(<<u, v>>, Rows(b, n))
<1>1. b.x \in Int /\ b.q \in Nat \ {0} /\ MaxX(b) \in Nat \ {0} /\ MaxX(b) = b.x + b.q
      /\ b.x <= n - 1 /\ (b.x < 0 => MaxX(b) <= n - 1)
      /\ row[2] \in Nat \ {0} /\ row = <<row[1], row[2]>>
  BY DEF Wraps, MaxX, MaxY
<1>2. Wrapped(b, n) = north
  BY DEF Wrapped
<1>3. west = IF b.x < 0 THEN <<Low(0, MaxX(b)), Low(n - 1 + b.x, -b.x)>>
             ELSE <<Low(b.x, b.q)>>
  BY WestParts
<1>4. \A u \in Int, v \in Nat \ {0} :
        WrapSouth(Low(u, v), n) = Raised(u, v) /\ WrapNorth(Raised(u, v), n) = Cut(u, v)
  BY SouthPart, NorthPart
<1>5. \A u \in Int, v \in Nat \ {0} :
        WrapEast(Raised(u, v), n)
          = IF u + v <= n - 1 THEN <<Raised(u, v)>>
            ELSE <<Raised(u, Greater(1, n - 1 - u)), Raised(0, (u + v) - (n - 1))>>
  <2> HIDE DEF row
  <2>1. PICK y, p : y = row[1] /\ p = row[2]
    OBVIOUS
  <2>2. p \in Nat \ {0} /\ row = <<y, p>>
    BY <1>1, <2>1
  <2>3. ASSUME NEW u \in Int, NEW v \in Nat \ {0}
        PROVE  WrapEast(Part(<<u, v>>, <<y, p>>), n) = Eastern(u, v, <<y, p>>, n)
    <3>1. p \in Nat \ {0}
      BY <2>2
    <3> QED
      BY ONLY n \in Nat \ {0}, <3>1, EastPart
  <2> QED
    BY <2>2, <2>3 DEF Eastern
<1> HIDE DEF Low, Raised, Cut, row, west, south, split, east
<1>6. CASE b.x < 0
  <2> DEFINE w == n - 1 + b.x
             m == MaxX(b)
             z == -b.x
  <2>1. w \in Int /\ z \in Nat \ {0} /\ m \in Nat \ {0} /\ w + z <= n - 1 /\ 0 + m <= n - 1
    BY <1>1, <1>6
  <2>2. west = <<Low(0, m), Low(w, z)>>
    BY <1>3, <1>6
  <2>3. Columns(b, n) = << <<0, m>>, <<w, z>> >>
    BY <1>6 DEF Columns
  <2> HIDE DEF w, m, z
  <2>4. DOMAIN south = 1..2 /\ south[1] = Raised(0, m) /\ south[2] = Raised(w, z)
    BY <1>4, <2>1, <2>2 DEF south
  <2>5. DOMAIN split = 1..2 /\ split[1] = <<Raised(0, m)>> /\ split[2] = <<Raised(w, z)>>
    BY <1>5, <2>1, <2>4 DEF split
  <2>6. Len(split) = 2
    <3>1. split = [i \in 1..2 |-> split[i]]
      BY <2>4 DEF split
    <3> QED
      BY <3>1
  <2>7. east = <<Raised(0, m), Raised(w, z)>>
    BY ONLY <2>5, <2>6, FlattenTwo, TwoOf, Zenon DEF east
  <2>8. north = [k \in 1..2 |-> IF k = 1 THEN Cut(0, m) ELSE Cut(w, z)]
    <3>1. DOMAIN east = 1..2 /\ east[1] = Raised(0, m) /\ east[2] = Raised(w, z)
      BY <2>7
    <3>2. \A k \in 1..2 : k = 1 \/ k = 2
      OBVIOUS
    <3> QED
      BY <1>4, <2>1, <3>1, <3>2
  <2>9. [k \in DOMAIN Columns(b, n) |-> Part(Columns(b, n)[k], Rows(b, n))]
          = [k \in 1..2 |-> IF k = 1 THEN Cut(0, m) ELSE Cut(w, z)]
    <3>1. PICK C : C = Columns(b, n)
      OBVIOUS
    <3>2. DOMAIN C = 1..2 /\ C[1] = <<0, m>> /\ C[2] = <<w, z>>
      BY <2>3, <3>1
    <3>3. \A k \in 1..2 : k = 1 \/ k = 2
      OBVIOUS
    <3> QED
      BY ONLY <3>1, <3>2, <3>3 DEF Cut
  <2> QED
    BY <1>2, <2>8, <2>9
<1>7. CASE b.x >= 0 /\ MaxX(b) <= n - 1
  <2> DEFINE u == b.x
             v == b.q
  <2>1. u \in Int /\ v \in Nat \ {0} /\ u + v <= n - 1
    BY <1>1, <1>7
  <2>2. west = <<Low(u, v)>>
    BY <1>1, <1>3, <1>7
  <2>3. Columns(b, n) = << <<u, v>> >>
    BY <1>1, <1>7 DEF Columns
  <2> HIDE DEF u, v
  <2>4. DOMAIN south = 1..1 /\ south[1] = Raised(u, v)
    BY <1>4, <2>1, <2>2 DEF south
  <2>5. DOMAIN split = 1..1 /\ split[1] = <<Raised(u, v)>>
    BY <1>5, <2>1, <2>4 DEF split
  <2>6. Len(split) = 1
    <3>1. split = [i \in 1..1 |-> split[i]]
      BY <2>4 DEF split
    <3> QED
      BY <3>1
  <2>7. east = <<Raised(u, v)>>
    BY ONLY <2>5, <2>6, FlattenOne, Zenon DEF east
  <2>8. north = [k \in 1..1 |-> Cut(u, v)]
    <3>1. DOMAIN east = 1..1 /\ east[1] = Raised(u, v)
      BY <2>7
    <3> QED
      BY <1>4, <2>1, <3>1
  <2>9. [k \in DOMAIN Columns(b, n) |-> Part(Columns(b, n)[k], Rows(b, n))]
          = [k \in 1..1 |-> Cut(u, v)]
    <3>1. PICK C : C = Columns(b, n)
      OBVIOUS
    <3>2. DOMAIN C = 1..1 /\ C[1] = <<u, v>>
      BY <2>3, <3>1
    <3> QED
      BY ONLY <3>1, <3>2 DEF Cut
  <2> QED
    BY <1>2, <2>8, <2>9
<1>8. CASE b.x >= 0 /\ ~(MaxX(b) <= n - 1)
  <2> DEFINE u == b.x
             v == b.q
             w == Greater(1, n - 1 - u)
             z == MaxX(b) - (n - 1)
  <2>1. u \in Int /\ v \in Nat \ {0} /\ ~(u + v <= n - 1) /\ w \in Nat \ {0}
        /\ z \in Nat \ {0} /\ (u + v) - (n - 1) = z
    BY <1>1, <1>8 DEF Greater
  <2>2. west = <<Low(u, v)>>
    BY <1>1, <1>3, <1>8
  <2>3. Columns(b, n) = << <<u, w>>, <<0, z>> >>
    BY <1>1, <1>8 DEF Columns
  <2>4. DOMAIN south = 1..1 /\ south[1] = Raised(u, v)
    BY <1>4, <2>1, <2>2 DEF south
  <2>5. WrapEast(Raised(u, v), n) = <<Raised(u, w), Raised(0, z)>>
    BY <1>5, <2>1
  <2> HIDE DEF u, v, w, z
  <2>6. DOMAIN split = 1..1 /\ split[1] = <<Raised(u, w), Raised(0, z)>>
    BY <2>4, <2>5 DEF split
  <2>7. Len(split) = 1
    <3>1. split = [i \in 1..1 |-> split[i]]
      BY <2>4 DEF split
    <3> QED
      BY <3>1
  <2>8. east = <<Raised(u, w), Raised(0, z)>>
    BY ONLY <2>6, <2>7, FlattenOne, Zenon DEF east
  <2>9. north = [k \in 1..2 |-> IF k = 1 THEN Cut(u, w) ELSE Cut(0, z)]
    <3>1. DOMAIN east = 1..2 /\ east[1] = Raised(u, w) /\ east[2] = Raised(0, z)
      BY <2>8
    <3>2. \A k \in 1..2 : k = 1 \/ k = 2
      OBVIOUS
    <3> QED
      BY <1>4, <2>1, <3>1, <3>2
  <2>10. [k \in DOMAIN Columns(b, n) |-> Part(Columns(b, n)[k], Rows(b, n))]
           = [k \in 1..2 |-> IF k = 1 THEN Cut(u, w) ELSE Cut(0, z)]
    <3>1. PICK C : C = Columns(b, n)
      OBVIOUS
    <3>2. DOMAIN C = 1..2 /\ C[1] = <<u, w>> /\ C[2] = <<0, z>>
      BY <2>3, <3>1
    <3>3. \A k \in 1..2 : k = 1 \/ k = 2
      OBVIOUS
    <3> QED
      BY ONLY <3>1, <3>2, <3>3 DEF Cut
  <2> QED
    BY <1>2, <2>9, <2>10
<1> QED
  BY <1>1, <1>6, <1>7, <1>8

\* The rows are an interval of the grid's, not empty.
LEMMA RowsIn ==
  ASSUME NEW n \in Nat \ {0}, NEW b, Wraps(b, n)
  PROVE  /\ Rows(b, n)[1] \in Nat /\ Rows(b, n)[2] \in Nat \ {0}
         /\ Rows(b, n)[1] + Rows(b, n)[2] <= n
<1>1. b.y \in Int /\ b.p \in Nat \ {0} /\ MaxY(b) \in Nat \ {0} /\ MaxY(b) = b.y + b.p
      /\ b.y <= n - 1 /\ (b.y < 0 => MaxY(b) <= n - 1)
  BY DEF Wraps, MaxY
<1>2. CASE b.y < 0
  BY <1>1, <1>2 DEF Rows
<1>3. CASE b.y >= 0 /\ MaxY(b) <= n - 1
  BY <1>1, <1>3 DEF Rows
<1>4. CASE b.y >= 0 /\ ~(MaxY(b) <= n - 1)
  BY <1>1, <1>4 DEF Rows, Greater
<1> QED
  BY <1>1, <1>2, <1>3, <1>4

\* The parts are one or two boxes of cells of the grid.
LEMMA WrappedIn ==
  ASSUME NEW n \in Nat \ {0}, NEW b, Wraps(b, n)
  PROVE  /\ Wrapped(b, n) \in Seq(OnGrid(n)) /\ Len(Wrapped(b, n)) \in {1, 2}
         /\ DOMAIN Wrapped(b, n) = DOMAIN Columns(b, n)
         /\ \A k \in DOMAIN Columns(b, n) :
              Wrapped(b, n)[k] = Part(Columns(b, n)[k], Rows(b, n))
<1>1. PICK C, r, W : C = Columns(b, n) /\ r = Rows(b, n) /\ W = Wrapped(b, n)
  OBVIOUS
<1>2. /\ DOMAIN C = 1..Len(C) /\ Len(C) \in {1, 2}
      /\ \A k \in 1..Len(C) : /\ C[k][1] \in Nat /\ C[k][2] \in Nat \ {0}
                              /\ C[k][1] + C[k][2] <= n
  BY <1>1, ColumnsIn
<1>3. r[1] \in Nat /\ r[2] \in Nat \ {0} /\ r[1] + r[2] <= n
  BY <1>1, RowsIn
<1>4. W = [k \in DOMAIN C |-> Part(C[k], r)]
  BY <1>1, WrappedIs
<1>5. ASSUME NEW k \in 1..Len(C) PROVE Part(C[k], r) \in OnGrid(n)
  <2>1. /\ Part(C[k], r) \in [x : Nat, y : Nat, p : Nat \ {0}, q : Nat \ {0}]
        /\ Part(C[k], r).x = C[k][1] /\ Part(C[k], r).q = C[k][2]
        /\ Part(C[k], r).y = r[1] /\ Part(C[k], r).p = r[2]
    BY <1>2, <1>3 DEF Part
  <2> QED
    BY <1>2, <1>3, <2>1 DEF OnGrid, Fits
<1>6. W \in Seq(OnGrid(n)) /\ Len(W) = Len(C)
  <2>1. PICK m : m = Len(C)
    OBVIOUS
  <2>2. m \in Nat /\ W = [k \in 1..m |-> Part(C[k], r)] /\ \A k \in 1..m : Part(C[k], r) \in OnGrid(n)
    BY <1>2, <1>4, <1>5, <2>1
  <2> QED
    BY ONLY <2>1, <2>2
<1> QED
  BY <1>1, <1>2, <1>4, <1>6

\* Its cells.
LEMMA PartCellsAre ==
  ASSUME NEW c, NEW r, NEW u, NEW v
  PROVE  Cell(u, v) \in CellsOf(Part(c, r))
           <=> u \in c[1]..((c[1] + c[2]) - 1) /\ v \in r[1]..((r[1] + r[2]) - 1)
<1>1. /\ Part(c, r).x = c[1] /\ MaxX(Part(c, r)) = c[1] + c[2]
      /\ Part(c, r).y = r[1] /\ MaxY(Part(c, r)) = r[1] + r[2]
  BY DEF Part, MaxX, MaxY
<1> QED
  BY <1>1, CellsIn

\* A column that is at most once around the grid away.
LEMMA Around ==
  ASSUME NEW m \in Nat \ {0}, NEW u \in Int
  PROVE  /\ 0 <= u /\ u < m => u % m = u
         /\ -m <= u /\ u < 0 => u % m = u + m
         /\ m <= u /\ u < 2 * m => u % m = u - m
<1>1. \A a \in Int, r \in 0..(m - 1) : u = m * a + r => u % m = r
  <2> SUFFICES ASSUME NEW a \in Int, NEW r \in 0..(m - 1), u = m * a + r PROVE u % m = r
    OBVIOUS
  <2>1. u \div m = a
    BY DivUnique
  <2>2. u = m * (u \div m) + (u % m) /\ u % m \in Int
    BY DivMod
  <2>3. m * a \in Int
    OBVIOUS
  <2> QED
    BY <2>1, <2>2, <2>3
<1>2. 0 <= u /\ u < m => u % m = u
  <2>1. u = m * 0 + u
    OBVIOUS
  <2> QED
    BY <1>1, <2>1
<1>3. -m <= u /\ u < 0 => u % m = u + m
  <2>1. u = m * (-1) + (u + m)
    OBVIOUS
  <2>2. -m <= u /\ u < 0 => u + m \in 0..(m - 1)
    OBVIOUS
  <2> QED
    BY <1>1, <2>1, <2>2
<1>4. m <= u /\ u < 2 * m => u % m = u - m
  <2>1. u = m * 1 + (u - m)
    OBVIOUS
  <2>2. m <= u /\ u < 2 * m => u - m \in 0..(m - 1)
    OBVIOUS
  <2> QED
    BY <1>1, <2>1, <2>2
<1> QED
  BY <1>2, <1>3, <1>4

\* Every column of a box is in one of the intervals, counted from the edge on when it
\* leaves the grid.
LEMMA ColumnsCover ==
  ASSUME NEW n \in Nat \ {0, 1}, NEW b, Wraps(b, n), NEW u \in b.x..(MaxX(b) - 1)
  PROVE  LET C == Columns(b, n)
         IN  \E k \in DOMAIN C : u % (n - 1) \in C[k][1]..((C[k][1] + C[k][2]) - 1)
<1>1. b.x \in Int /\ b.q \in Nat \ {0} /\ MaxX(b) \in Nat \ {0} /\ MaxX(b) = b.x + b.q
      /\ b.x <= n - 1 /\ (b.x < 0 => MaxX(b) <= n - 1 /\ b.q <= n - 1)
      /\ (b.x >= 0 => MaxX(b) <= n \/ MaxX(b) <= 2 * (n - 1))
      /\ u \in Int /\ b.x <= u /\ u < MaxX(b)
  BY DEF Wraps, MaxX
<1>2. PICK C, m : C = Columns(b, n) /\ m = n - 1
  OBVIOUS
<1>3. m \in Nat \ {0} /\ n = m + 1
  BY <1>2
<1>4. /\ 0 <= u /\ u < m => u % m = u
      /\ -m <= u /\ u < 0 => u % m = u + m
      /\ m <= u /\ u < 2 * m => u % m = u - m
  BY <1>1, <1>3, Around
<1>5. CASE b.x < 0
  <2>1. C = << <<0, MaxX(b)>>, <<m + b.x, -b.x>> >>
    BY <1>2, <1>5 DEF Columns
  <2>2. 1 \in DOMAIN C /\ 2 \in DOMAIN C /\ C[1][1] = 0 /\ C[1][2] = MaxX(b)
        /\ C[2][1] = m + b.x /\ C[2][2] = -b.x
    BY <2>1
  <2>3. CASE u < 0
    <3>1. u % m = u + m
      BY <1>1, <1>3, <1>4, <1>5, <2>3
    <3>2. u + m \in (m + b.x)..((m + b.x + -b.x) - 1)
      BY <1>1, <1>3, <2>3
    <3> QED
      BY <1>2, <2>2, <3>1, <3>2
  <2>4. CASE u >= 0
    <3>1. u % m = u
      BY <1>1, <1>3, <1>4, <1>5, <2>4
    <3>2. u \in 0..((0 + MaxX(b)) - 1)
      BY <1>1, <2>4
    <3> QED
      BY <1>2, <2>2, <3>1, <3>2
  <2> QED
    BY <1>1, <2>3, <2>4
<1>6. CASE b.x >= 0 /\ MaxX(b) <= n - 1
  <2>1. C = << <<b.x, b.q>> >>
    BY <1>1, <1>2, <1>6 DEF Columns
  <2>2. 1 \in DOMAIN C /\ C[1][1] = b.x /\ C[1][2] = b.q
    BY <2>1
  <2>3. u % m = u
    BY <1>1, <1>3, <1>4, <1>6
  <2>4. u \in b.x..((b.x + b.q) - 1)
    BY <1>1
  <2> QED
    BY <1>2, <2>2, <2>3, <2>4
<1>7. CASE b.x >= 0 /\ ~(MaxX(b) <= n - 1)
  <2> DEFINE v == Greater(1, m - b.x)
  <2>1. C = << <<b.x, v>>, <<0, MaxX(b) - m>> >>
    BY <1>1, <1>2, <1>7 DEF Columns
  <2>2. 1 \in DOMAIN C /\ 2 \in DOMAIN C /\ C[1][1] = b.x /\ C[1][2] = v
        /\ C[2][1] = 0 /\ C[2][2] = MaxX(b) - m
    BY <2>1
  <2>3. CASE u < m
    <3>1. u % m = u
      BY <1>1, <1>3, <1>4, <1>7, <2>3
    <3>2. u \in b.x..((b.x + v) - 1)
      BY <1>1, <1>3, <2>3 DEF Greater
    <3> QED
      BY <1>2, <2>2, <3>1, <3>2
  <2>4. CASE u >= m
    <3>1. u < 2 * m
      BY <1>1, <1>3, <1>7, <2>4
    <3>2. u % m = u - m
      BY <1>4, <2>4, <3>1
    <3>3. u - m \in 0..((0 + (MaxX(b) - m)) - 1)
      BY <1>1, <1>3, <2>4
    <3> QED
      BY <1>2, <2>2, <3>2, <3>3
  <2> QED
    BY <1>1, <1>3, <2>3, <2>4
<1> QED
  BY <1>1, <1>5, <1>6, <1>7

\* Every cell of a box south of the last row is in a part.
LEMMA WrappedCovers ==
  ASSUME NEW n \in Nat \ {0}, NEW b, Wraps(b, n), NEW c \in CellsOf(b), c.y \in 0..(n - 2)
  PROVE  \E k \in DOMAIN Wrapped(b, n) :
            Cell(c.x % (n - 1), c.y) \in CellsOf(Wrapped(b, n)[k])
<1>1. PICK u \in b.x..(MaxX(b) - 1), v \in b.y..(MaxY(b) - 1) : c = Cell(u, v)
  BY CellsIn
<1>2. c.x = u /\ c.y = v
  BY <1>1 DEF Cell
<1>3. n \in Nat \ {0, 1} /\ v \in Int
  BY <1>2
<1>4. PICK k \in DOMAIN Columns(b, n) :
        u % (n - 1) \in Columns(b, n)[k][1]
                        ..((Columns(b, n)[k][1] + Columns(b, n)[k][2]) - 1)
  BY <1>3, ColumnsCover
<1>5. v \in Rows(b, n)[1]..((Rows(b, n)[1] + Rows(b, n)[2]) - 1)
  <2>1. b.y \in Int /\ b.p \in Nat \ {0} /\ MaxY(b) \in Nat \ {0} /\ MaxY(b) = b.y + b.p
        /\ v \in Int /\ b.y <= v /\ v < MaxY(b) /\ 0 <= v /\ v <= n - 2
    BY <1>2, <1>3 DEF Wraps, MaxY
  <2>2. CASE b.y < 0
    BY <2>1, <2>2 DEF Rows
  <2>3. CASE b.y >= 0 /\ MaxY(b) <= n - 1
    BY <2>1, <2>3 DEF Rows
  <2>4. CASE b.y >= 0 /\ ~(MaxY(b) <= n - 1)
    BY <2>1, <2>4 DEF Rows, Greater
  <2> QED
    BY <2>1, <2>2, <2>3, <2>4
<1>6. Cell(u % (n - 1), v) \in CellsOf(Part(Columns(b, n)[k], Rows(b, n)))
  BY <1>4, <1>5, PartCellsAre
<1> QED
  BY <1>2, <1>6, WrappedIn

\* A box of the grid's cells is wrapped at most once.
LEMMA OnGridWraps ==
  ASSUME NEW n \in Nat \ {0}, NEW b \in OnGrid(n)
  PROVE  Wraps(b, n)
<1>1. b.x \in Nat /\ b.y \in Nat /\ b.p \in Nat \ {0} /\ b.q \in Nat \ {0}
      /\ b.x + b.q <= n /\ b.y + b.p <= n
  BY DEF OnGrid, Fits
<1>2. MaxX(b) = b.x + b.q /\ MaxY(b) = b.y + b.p
  BY DEF MaxX, MaxY
<1>3. b \in [x : Int, y : Int, p : Nat \ {0}, q : Nat \ {0}]
  BY DEF OnGrid
<1>4. /\ b.x <= n - 1 /\ b.y <= n - 1 /\ b.x + b.q > 0 /\ b.y + b.p > 0
      /\ ~(b.x < 0) /\ ~(b.y < 0)
  BY <1>1
<1> QED
  BY ONLY <1>1, <1>2, <1>3, <1>4 DEF Wraps

\* Every cell of its parts is its own, or continues it east of the edge.
LEMMA WrappedOnly ==
  ASSUME NEW n \in Nat \ {0}, NEW b \in OnGrid(n),
         NEW k \in DOMAIN Wrapped(b, n), NEW e \in CellsOf(Wrapped(b, n)[k])
  PROVE  \E c \in CellsOf(b) : e \in {c, Cell(c.x % (n - 1), c.y)}
<1>1. b.x \in Nat /\ b.y \in Nat /\ b.p \in Nat \ {0} /\ b.q \in Nat \ {0}
      /\ MaxX(b) = b.x + b.q /\ MaxY(b) = b.y + b.p /\ MaxX(b) <= n /\ MaxY(b) <= n
  BY DEF OnGrid, Fits, MaxX, MaxY
<1>2. Wraps(b, n)
  BY OnGridWraps
<1>3. PICK C, r : C = Columns(b, n) /\ r = Rows(b, n)
  OBVIOUS
<1>4. k \in DOMAIN C /\ Wrapped(b, n)[k] = Part(C[k], r)
  BY <1>2, <1>3, WrappedIn
<1>5. PICK u, v : e = Cell(u, v)
  BY CellsIn
<1>6. u \in C[k][1]..((C[k][1] + C[k][2]) - 1) /\ v \in r[1]..((r[1] + r[2]) - 1)
  BY <1>4, <1>5, PartCellsAre
<1>7. v \in b.y..(MaxY(b) - 1)
  <2>1. CASE MaxY(b) <= n - 1
    <3>1. r[1] = b.y /\ r[2] = b.p
      BY <1>1, <1>3, <2>1 DEF Rows
    <3> QED
      BY <1>1, <1>6, <3>1
  <2>2. CASE ~(MaxY(b) <= n - 1)
    <3>1. r[1] = b.y /\ r[2] = Greater(1, n - 1 - b.y)
      BY <1>1, <1>3, <2>2 DEF Rows
    <3>2. b.y + Greater(1, n - 1 - b.y) <= MaxY(b) /\ Greater(1, n - 1 - b.y) \in Nat
      BY <1>1, <2>2 DEF Greater
    <3> QED
      BY <1>1, <1>6, <3>1, <3>2
  <2> QED
    BY <2>1, <2>2
<1>8. u \in b.x..(MaxX(b) - 1)
      \/ (n # 1 /\ u = 0 /\ n - 1 \in b.x..(MaxX(b) - 1))
  <2>1. CASE MaxX(b) <= n - 1
    <3>1. C = << <<b.x, b.q>> >>
      BY <1>1, <1>3, <2>1 DEF Columns
    <3>2. k = 1 /\ C[k][1] = b.x /\ C[k][2] = b.q
      BY <1>4, <3>1
    <3> QED
      BY <1>1, <1>6, <3>2
  <2>2. CASE ~(MaxX(b) <= n - 1)
    <3> DEFINE w == Greater(1, n - 1 - b.x)
    <3>1. C = << <<b.x, w>>, <<0, MaxX(b) - (n - 1)>> >>
      BY <1>1, <1>3, <2>2 DEF Columns
    <3>2. MaxX(b) = n
      BY <1>1, <2>2
    <3>3. b.x + w <= MaxX(b) /\ w \in Nat
      BY <1>1, <2>2 DEF Greater
    <3> HIDE DEF w
    <3>4. k \in {1, 2}
      BY <1>4, <3>1
    <3>5. CASE k = 1
      <4>1. C[k][1] = b.x /\ C[k][2] = w
        BY <3>1, <3>5
      <4> QED
        BY <1>1, <1>6, <3>3, <4>1
    <3>6. CASE k = 2
      <4>1. C[k][1] = 0 /\ C[k][2] = MaxX(b) - (n - 1)
        BY <3>1, <3>6
      <4>2. u = 0
        BY <1>1, <1>6, <3>2, <4>1
      <4>3. n - 1 \in b.x..(MaxX(b) - 1)
        BY <1>1, <3>2
      <4> QED
        BY <1>1, <4>2, <4>3
    <3> QED
      BY <3>4, <3>5, <3>6
  <2> QED
    BY <2>1, <2>2
<1>9. CASE u \in b.x..(MaxX(b) - 1)
  BY <1>5, <1>7, <1>9, CellsIn
<1>10. CASE n # 1 /\ u = 0 /\ n - 1 \in b.x..(MaxX(b) - 1)
  <2> DEFINE c == Cell(n - 1, v)
  <2>1. c \in CellsOf(b)
    BY <1>7, <1>10, CellsIn
  <2>2. c.x = n - 1 /\ c.y = v
    BY DEF Cell
  <2>3. (n - 1) % (n - 1) = 0
    <3>1. n - 1 \in Nat \ {0} /\ n - 1 \in Int /\ n - 1 < 2 * (n - 1) /\ (n - 1) - (n - 1) = 0
      BY <1>10
    <3> QED
      BY <3>1, Around
  <2>4. e = Cell(c.x % (n - 1), c.y)
    BY <1>5, <1>10, <2>2, <2>3
  <2> QED
    BY <2>1, <2>4
<1> QED
  BY <1>8, <1>9, <1>10

\* A corner of a box of the grid's cells is a cell of the grid.
LEMMA FirstNumber ==
  ASSUME NEW n \in Sides, NEW b \in OnGrid(n)
  PROVE  Encode(Cell(b.x, b.y), n) \in Nat
<1>1. n \in Nat \ {0} /\ n * n \in Nat
  BY SidesDouble
<1>2. b.x \in 0..(n - 1) /\ b.y \in 0..(n - 1)
  BY <1>1 DEF OnGrid, Fits
<1>3. Cell(b.x, b.y) \in Grid(n)
  BY <1>2 DEF Grid
<1> QED
  BY <1>1, <1>3, EncodeInverts

\* Its cells are the grid's.
LEMMA OnGridCells ==
  ASSUME NEW n \in Nat \ {0}, NEW b \in OnGrid(n)
  PROVE  CellsOf(b) \subseteq Grid(n)
<1>1. b \in [x : Nat, y : Nat, p : Nat, q : Nat] /\ Fits(b, n)
  BY DEF OnGrid
<1> DEFINE square == [rotation |-> "A", min |-> 0, box |-> b]
<1>2. square \in Squares /\ square.box = b
  BY <1>1 DEF Squares
<1> HIDE DEF square
<1> QED
  BY <1>1, <1>2, BoxInGrid

\* ByFirst only orders boxes.
LEMMA ByFirstIs ==
  ASSUME NEW n \in Sides, NEW boxes \in Seq(OnGrid(n))
  PROVE  LET R == ByFirst(boxes, n)
         IN  /\ R \in Seq(OnGrid(n)) /\ Len(R) = Len(boxes)
             /\ \A k \in 1..Len(boxes) : \E j \in 1..Len(boxes) : R[k] = boxes[j]
             /\ \A j \in 1..Len(boxes) : \E k \in 1..Len(boxes) : R[k] = boxes[j]
<1> DEFINE T == Nat \X OnGrid(n)
           First(b) == Encode(Cell(b.x, b.y), n)
           s == [i \in DOMAIN boxes |-> <<First(boxes[i]), boxes[i]>>]
           m == Len(boxes)
           Q == OrderBy(s)
           R == [i \in DOMAIN Q |-> Q[i][2]]
<1>1. m \in Nat /\ DOMAIN boxes = 1..m /\ \A i \in 1..m : boxes[i] \in OnGrid(n)
  OBVIOUS
<1>2. \A i \in 1..m : First(boxes[i]) \in Nat
  BY <1>1, FirstNumber
<1> HIDE DEF First
<1>3. s = [i \in 1..m |-> <<First(boxes[i]), boxes[i]>>] /\ \A i \in 1..m : s[i] \in T
  BY <1>1, <1>2
<1>4. s \in Seq(T) /\ Len(s) = m
  <2>1. \E q \in Nat : s \in [1..q -> T]
    <3>1. s \in [1..m -> T]
      BY <1>3
    <3> HIDE DEF s, T, m
    <3> QED
      BY <1>1, <3>1
  <2>2. s \in Seq(T)
    <3> HIDE DEF s, T
    <3> QED
      BY <2>1
  <2> QED
    BY <1>1, <1>3, <2>2
<1>5. \A t \in T : t[1] \in Nat
  OBVIOUS
<1> HIDE DEF s, m, T
<1>6. /\ Q \in Seq(T) /\ Len(Q) = m
      /\ \A k \in 1..m : \E j \in 1..m : Q[k] = s[j]
      /\ \A j \in 1..m : \E k \in 1..m : Q[k] = s[j]
  BY ONLY <1>4, <1>5, OrderByIs
<1> HIDE DEF Q
<1>7. DOMAIN Q = 1..m
  BY <1>6
<1>8. \A k, j \in 1..m : Q[k] = s[j] => R[k] = boxes[j]
  BY <1>3, <1>7
<1>9. /\ \A k \in 1..m : \E j \in 1..m : R[k] = boxes[j]
      /\ \A j \in 1..m : \E k \in 1..m : R[k] = boxes[j]
  <2> HIDE DEF R
  <2>1. ASSUME NEW k \in 1..m PROVE \E j \in 1..m : R[k] = boxes[j]
    <3>1. PICK j \in 1..m : Q[k] = s[j]
      BY <1>6
    <3> QED
      BY <1>8, <3>1
  <2>2. ASSUME NEW j \in 1..m PROVE \E k \in 1..m : R[k] = boxes[j]
    <3>1. PICK k \in 1..m : Q[k] = s[j]
      BY <1>6
    <3> QED
      BY <1>8, <3>1
  <2> QED
    BY <2>1, <2>2
<1>10. R \in Seq(OnGrid(n)) /\ Len(R) = m
  <2>1. R = [k \in 1..m |-> R[k]] /\ \A k \in 1..m : R[k] \in OnGrid(n)
    <3>1. R = [k \in 1..m |-> R[k]]
      BY <1>7
    <3> HIDE DEF R
    <3> QED
      BY <1>1, <1>9, <3>1
  <2> HIDE DEF R
  <2> QED
    BY <1>1, <2>1
<1>11. R = ByFirst(boxes, n)
  BY DEF ByFirst, R, Q, s, First
<1> HIDE DEF R
<1> QED
  BY <1>9, <1>10, <1>11 DEF m

\* The cells of several boxes.
CellsOfAll(boxes) == UNION {CellsOf(boxes[k]) : k \in DOMAIN boxes}

\* The boxes WrapOverlap gives: one or two, with the cells of the parts.
LEMMA OverlapIs ==
  ASSUME NEW n \in Sides, NEW b, Wraps(b, n)
  PROVE  LET P == WrapOverlap(b, n)
         IN  /\ P \in Seq(OnGrid(n)) /\ Len(P) \in {1, 2}
             /\ CellsOfAll(P) = CellsOfAll(Wrapped(b, n))
<1>1. n \in Nat \ {0}
  BY SidesDouble
<1>2. PICK W : W = Wrapped(b, n)
  OBVIOUS
<1>3. W \in Seq(OnGrid(n)) /\ Len(W) \in {1, 2}
  BY <1>1, <1>2, WrappedIn
<1>4. CASE Inside(b, n)
  <2>1. WrapOverlap(b, n) = <<b>>
    BY <1>4 DEF WrapOverlap
  <2>2. b.x >= 0 /\ b.y >= 0 /\ MaxX(b) <= n - 1 /\ MaxY(b) <= n - 1
    BY <1>4 DEF Inside
  <2>3. b \in [x : Int, y : Int, p : Nat \ {0}, q : Nat \ {0}]
    BY DEF Wraps
  <2>4. Columns(b, n) = << <<b.x, b.q>> >> /\ Rows(b, n) = <<b.y, b.p>>
    BY <2>2, <2>3 DEF Columns, Rows
  <2>5. DOMAIN Columns(b, n) = {1} /\ Part(Columns(b, n)[1], Rows(b, n)) = b
    BY <2>3, <2>4 DEF Part
  <2>6. DOMAIN W = {1} /\ W[1] = b
    BY <1>1, <1>2, <2>5, WrappedIn
  <2>7. W = <<b>>
    <3>1. PICK V : V = <<b>>
      OBVIOUS
    <3>2. V \in Seq({b}) /\ W \in Seq({b}) /\ Len(V) = 1 /\ Len(W) = 1
      <4>1. Len(W) = 1 /\ 1..1 = {1}
        BY <1>3, <2>6
      <4>2. W = [k \in 1..1 |-> W[k]] /\ \A k \in 1..1 : W[k] \in {b}
        <5>1. W = [k \in DOMAIN W |-> W[k]]
          BY <1>3
        <5> QED
          BY <2>6, <4>1, <5>1
      <4> QED
        BY <3>1, <4>1, <4>2
    <3>3. \A k \in 1..1 : V[k] = W[k]
      BY <2>6, <3>1
    <3> QED
      BY <3>1, <3>2, <3>3, SeqEqual
  <2> QED
    BY <1>2, <1>3, <2>1, <2>7
<1>5. CASE ~Inside(b, n)
  <2>1. PICK P : P = WrapOverlap(b, n)
    OBVIOUS
  <2>2. P = ByFirst(W, n)
    BY <1>2, <1>5, <2>1 DEF WrapOverlap
  <2>3. /\ P \in Seq(OnGrid(n)) /\ Len(P) = Len(W)
        /\ \A k \in 1..Len(W) : \E j \in 1..Len(W) : P[k] = W[j]
        /\ \A j \in 1..Len(W) : \E k \in 1..Len(W) : P[k] = W[j]
    BY <1>3, <2>2, ByFirstIs
  <2>4. DOMAIN P = 1..Len(W) /\ DOMAIN W = 1..Len(W)
    BY <1>3, <2>3
  <2>5. CellsOfAll(P) = CellsOfAll(W)
    <3>1. ASSUME NEW k \in DOMAIN P PROVE \E j \in DOMAIN W : P[k] = W[j]
      BY <2>3, <2>4
    <3>2. ASSUME NEW j \in DOMAIN W PROVE \E k \in DOMAIN P : P[k] = W[j]
      BY <2>3, <2>4
    <3>3. {CellsOf(P[k]) : k \in DOMAIN P} = {CellsOf(W[k]) : k \in DOMAIN W}
      BY ONLY <3>1, <3>2, Zenon
    <3> QED
      BY <3>3 DEF CellsOfAll
  <2> QED
    BY <1>2, <1>3, <2>1, <2>3, <2>5
<1> QED
  BY <1>4, <1>5

-----------------------------------------------------------------------------
(* GetRange *)

\* The square of the whole grid, with the part of a box in it.
Whole(b) == [rotation |-> "A", min |-> 0, box |-> b]

\* The numbers of a box.
Codes(b, n) == {Encode(c, n) : c \in CellsOf(b)}

\* The ranges of a box, one part after the other, before they are compacted.
LEMMA PartsAre ==
  ASSUME NEW parts, NEW n, Len(parts) \in {1, 2}
  PROVE  LET one == SplitQuad[n][Whole(parts[1])][<< >>]
         IN  SplitParts(parts, n)
               = IF Len(parts) = 1 THEN one ELSE SplitQuad[n][Whole(parts[2])][one]
<1> DEFINE N == Len(parts)
           With(k, before) == SplitQuad[n][Whole(parts[k])][before]
           one == With(1, << >>)
           two == With(2, one)
           Body(g) == [k \in 0..N |-> IF k = 0 THEN << >> ELSE With(k, g[k - 1])]
           h == [k \in 0..N |-> IF k = 0 THEN << >> ELSE IF k = 1 THEN one ELSE two]
<1>1. N \in {1, 2}
  OBVIOUS
<1> HIDE DEF N, With, one, two
<1>2. \A k \in 0..N : k = 0 \/ k = 1 \/ k = 2
  BY <1>1
<1>3. h = Body(h)
  <2>1. ASSUME NEW k \in 0..N
        PROVE  h[k] = IF k = 0 THEN << >> ELSE With(k, h[k - 1])
    <3>1. CASE k = 0
      BY <3>1
    <3>2. CASE k = 1
      <4>1. k - 1 = 0 /\ 0 \in 0..N
        BY <1>1, <3>2
      <4>2. h[k] = one /\ h[k - 1] = << >>
        BY <3>2, <4>1
      <4> HIDE DEF h
      <4> QED
        BY <3>2, <4>2 DEF one
    <3>3. CASE k = 2
      <4>1. k - 1 = 1 /\ 1 \in 0..N
        BY <1>1, <3>3
      <4>2. h[k] = two /\ h[k - 1] = one
        BY <3>3, <4>1
      <4> HIDE DEF h
      <4> QED
        BY <3>3, <4>2 DEF two
    <3> HIDE DEF h
    <3> QED
      BY <1>2, <3>1, <3>2, <3>3
  <2>2. h = [k \in 0..N |-> h[k]]
    OBVIOUS
  <2> HIDE DEF h
  <2> QED
    BY <2>1, <2>2
<1>4. \E u : u = Body(u) /\ SplitParts(parts, n) = u[N]
  <2> HIDE DEF h
  <2> QED
    BY <1>3, Zenon DEF SplitParts, N, Whole, With
<1>5. PICK u : u = Body(u) /\ SplitParts(parts, n) = u[N]
  BY <1>4
<1>6. u[0] = << >> /\ u[1] = one
  <2>1. 0 \in 0..N /\ 1 \in 0..N /\ 1 # 0 /\ 1 - 1 = 0
    BY <1>1
  <2>2. u[0] = << >> /\ u[1] = With(1, u[1 - 1])
    BY <1>5, <2>1
  <2> QED
    BY <2>1, <2>2 DEF one
<1>7. CASE N = 1
  BY <1>5, <1>6, <1>7 DEF N, one, With
<1>8. CASE N = 2
  <2>1. 2 \in 0..N /\ 2 # 0 /\ 2 - 1 = 1 /\ N # 1
    BY <1>8
  <2>2. u[2] = With(2, u[2 - 1])
    BY <1>5, <2>1
  <2>3. u[2] = two
    BY <1>6, <2>1, <2>2 DEF two
  <2> QED
    BY <1>5, <1>8, <2>1, <2>3 DEF N, one, two, With
<1> QED
  BY <1>1, <1>7, <1>8

\* A part of a box that ends at the edge of the grid or before it adds its numbers,
\* behind a seam at the end of the ranges of the parts before it.
LEMMA PartFills ==
  ASSUME NEW n \in Sides, NEW b \in [x : Nat, y : Nat, p : Nat, q : Nat], Fits(b, n),
         NEW L \in RangeLists, NEW j \in Nat, Grown(L, j, 0)
  PROVE  LET K == SplitQuad[n][Whole(b)][L]
         IN  /\ K \in RangeLists /\ Grown(K, j, n * n)
             /\ Numbers(K) = Numbers(L) \cup Codes(b, n)
<1> DEFINE square == Whole(b)
           K == SplitQuad[n][square][L]
<1>1. n \in Nat \ {0} /\ n * n \in Nat
  BY SidesDouble
<1>2. square.box = b /\ square.min = 0 /\ square.rotation = "A"
  BY DEF Whole
<1>3. square \in Squares
  BY DEF Squares, Whole
<1> HIDE DEF square
<1>4. Fills(K, L, j, square, n)
  BY <1>2, <1>3, SplitQuadFills DEF Splits
<1>5. BoxNumbers(square, n) = Codes(b, n)
  <2>1. \A c : Turn("A", n, c) = c
    BY DEF Turn
  <2>2. CellsOf(b) \subseteq Grid(n)
    BY <1>1, <1>2, <1>3, BoxInGrid
  <2>3. \A c \in CellsOf(b) : Encode(c, n) \in Nat
    BY <1>1, <2>2, EncodeInverts
  <2>4. \A c \in CellsOf(b) : square.min + Number(square.rotation, n, c) = Encode(c, n)
    BY <1>2, <2>1, <2>3 DEF Number
  <2> QED
    BY <1>2, <2>4 DEF BoxNumbers, Codes
<1>6. 0 + n * n = n * n
  BY <1>1
<1> QED
  BY <1>2, <1>4, <1>5, <1>6 DEF Fills, square

\* The ranges of a box, wrapped or not, that is compacted to at least two: they cover its
\* parts, and nothing else unless there were more.
LEMMA GetRangeOfParts ==
  ASSUME NEW n \in Sides, 2 * (n * n) <= ULong, NEW b, Wraps(b, n),
         NEW length \in Nat \ {0, 1}
  PROVE  LET K == GetRange(b, n, length)
             codes == {Encode(c, n) : c \in CellsOfAll(WrapOverlap(b, n))}
         IN  /\ K \in RangeLists /\ codes \subseteq Numbers(K)
             /\ Len(GetRange(b, n, 0)) <= length => Numbers(K) = codes
<1>1. n \in Nat \ {0} /\ n * n \in Nat \ {0}
  <2>1. n \in Nat \ {0}
    BY SidesDouble
  <2> QED
    BY <2>1
<1>2. PICK P : P = WrapOverlap(b, n)
  OBVIOUS
<1>3. P \in Seq(OnGrid(n)) /\ Len(P) \in {1, 2}
  BY <1>2, OverlapIs
<1>4. DOMAIN P = 1..Len(P) /\ \A k \in 1..Len(P) : P[k] \in OnGrid(n)
  BY <1>3
<1>5. ASSUME NEW a \in OnGrid(n)
      PROVE  /\ a \in [x : Nat, y : Nat, p : Nat, q : Nat] /\ Fits(a, n)
             /\ CellsOf(a) # {} /\ CellsOf(a) \subseteq Grid(n)
             /\ Codes(a, n) \subseteq 0..(n * n - 1) /\ Codes(a, n) # {}
  <2>1. a \in [x : Nat, y : Nat, p : Nat, q : Nat] /\ Fits(a, n)
        /\ a.x \in Nat /\ a.y \in Nat /\ a.p \in Nat \ {0} /\ a.q \in Nat \ {0}
    BY DEF OnGrid
  <2>2. CellsOf(a) \subseteq Grid(n)
    BY <1>1, OnGridCells
  <2>3. Cell(a.x, a.y) \in CellsOf(a)
    <3>1. a.x \in a.x..(MaxX(a) - 1) /\ a.y \in a.y..(MaxY(a) - 1)
      BY <2>1 DEF MaxX, MaxY
    <3> QED
      BY <3>1, CellsIn
  <2>4. \A c \in CellsOf(a) : Encode(c, n) \in 0..(n * n - 1)
    BY <2>2, EncodeInverts
  <2> QED
    BY <2>1, <2>2, <2>3, <2>4 DEF Codes
<1> DEFINE codes == {Encode(c, n) : c \in CellsOfAll(P)}
           E == << >>
<1>6. \E L, j : /\ L = SplitParts(P, n) /\ L \in RangeLists /\ j \in Nat
                /\ Grown(L, j, n * n) /\ Numbers(L) = codes
  <2>1. 1 \in 1..Len(P) /\ P[1] \in OnGrid(n)
    BY <1>3, <1>4
  <2>2. E \in RangeLists /\ Grown(E, 0, 0) /\ Numbers(E) = {}
    <3>1. E \in RangeLists /\ Tidy(E) /\ EndBelow(E, 0) /\ Numbers(E) = {}
      BY DEF RangeLists, Tidy, EndBelow, Numbers
    <3> QED
      BY <3>1, GrownTidy
  <2> HIDE DEF E
  <2>3. PICK L : L = SplitQuad[n][Whole(P[1])][E]
    OBVIOUS
  <2>4. L \in RangeLists /\ Grown(L, 0, n * n) /\ Numbers(L) = Codes(P[1], n)
    <3>1. /\ L \in RangeLists /\ Grown(L, 0, n * n)
          /\ Numbers(L) = Numbers(E) \cup Codes(P[1], n)
      BY <1>5, <2>1, <2>2, <2>3, PartFills
    <3> QED
      BY <2>2, <3>1
  <2>5. CASE Len(P) = 1
    <3>1. L = SplitParts(P, n)
      BY <2>3, <2>5, PartsAre DEF E
    <3>2. CellsOfAll(P) = CellsOf(P[1])
      <4>1. DOMAIN P = {1}
        BY <1>4, <2>5
      <4> QED
        BY <4>1 DEF CellsOfAll
    <3> QED
      BY <2>4, <3>1, <3>2 DEF Codes
  <2>6. CASE Len(P) = 2
    <3>1. 2 \in 1..Len(P) /\ P[2] \in OnGrid(n)
      BY <1>4, <2>6
    <3>2. PICK K : K = SplitQuad[n][Whole(P[2])][L]
      OBVIOUS
    <3>3. K = SplitParts(P, n)
      BY <2>3, <2>6, <3>2, PartsAre DEF E
    <3>4. Len(L) \in Nat /\ Grown(L, Len(L), 0)
      <4>1. Len(L) \in Nat
        BY <2>4, ListParts
      <4>2. \A k \in 2..Len(L) : k # 0 + 1 /\ ~(k \in (Len(L) + 1)..Len(L))
        BY <4>1
      <4>3. (Len(L) + 1)..Len(L) = {}
        BY <4>1
      <4> QED
        BY <2>4, <4>1, <4>2, <4>3 DEF Grown
    <3>5. /\ K \in RangeLists /\ Grown(K, Len(L), n * n)
          /\ Numbers(K) = Codes(P[1], n) \cup Codes(P[2], n)
      BY <1>5, <2>4, <3>1, <3>2, <3>4, PartFills
    <3>6. CellsOfAll(P) = CellsOf(P[1]) \cup CellsOf(P[2])
      <4>1. DOMAIN P = {1, 2}
        BY <1>4, <2>6
      <4> QED
        BY <4>1 DEF CellsOfAll
    <3>7. Numbers(K) = codes
      BY <3>5, <3>6 DEF Codes
    <3> HIDE DEF codes
    <3> QED
      BY <3>3, <3>4, <3>5, <3>7
  <2> QED
    BY <1>3, <2>5, <2>6
<1>7. PICK L, j : /\ L = SplitParts(P, n) /\ L \in RangeLists /\ j \in Nat
                  /\ Grown(L, j, n * n) /\ Numbers(L) = codes
  BY <1>6
<1>8. codes \subseteq 0..(n * n - 1) /\ codes # {}
  <2>1. ASSUME NEW k \in DOMAIN P
        PROVE  CellsOf(P[k]) # {} /\ \A c \in CellsOf(P[k]) : Encode(c, n) \in 0..(n * n - 1)
    <3>1. P[k] \in OnGrid(n)
      BY <1>4
    <3> QED
      BY <1>5, <3>1 DEF Codes
  <2>2. 1 \in DOMAIN P
    BY <1>3, <1>4
  <2> QED
    BY <2>1, <2>2 DEF CellsOfAll
<1> HIDE DEF codes
<1>9. Len(L) \in Nat /\ (\A k \in 1..Len(L) : L[k][1] \in Nat /\ L[k][2] \in Nat)
      /\ (L = << >> <=> Len(L) = 0)
  BY <1>7, ListParts
<1>10. L # << >>
  <2>1. L = << >> => Numbers(L) = {}
    BY DEF Numbers
  <2> QED
    BY <1>7, <1>8, <2>1
<1>11. Stepping(L, j, n * n)
  <2>1. ASSUME NEW k \in 1..Len(L) PROVE L[k][1] <= L[k][2] /\ L[k][2] < n * n
    <3>1. L[k][1] <= L[k][2]
      BY <1>7 DEF Grown
    <3>2. L[k][2] \in Numbers(L)
      BY <1>9, <3>1 DEF Numbers
    <3>3. L[k][2] \in 0..(n * n - 1)
      BY <1>7, <1>8, <3>2
    <3> QED
      BY <1>1, <3>1, <3>3
  <2>2. ASSUME NEW k \in 2..Len(L), k # j + 1 PROVE L[k - 1][2] <= L[k][1]
    <3>1. L[k - 1][2] + 1 < L[k][1]
      BY <1>7, <2>2 DEF Grown
    <3>2. k - 1 \in 1..Len(L) /\ k \in 1..Len(L)
      BY <1>9
    <3> QED
      BY <1>9, <3>1, <3>2
  <2> QED
    BY <2>1, <2>2 DEF Stepping
<1>12. PICK K : K = CompactRanges(L, length)
  OBVIOUS
<1>13. /\ K \in RangeLists /\ Numbers(L) \subseteq Numbers(K)
       /\ Len(L) <= length => K = L
  BY <1>1, <1>7, <1>10, <1>11, <1>12, CompactSeam
<1>14. K = GetRange(b, n, length) /\ L = GetRange(b, n, 0)
  <2>1. length > 0 /\ ~(0 > 0)
    OBVIOUS
  <2> QED
    BY <1>2, <1>7, <1>12, <2>1 DEF GetRange
<1> QED
  BY <1>2, <1>7, <1>13, <1>14 DEF codes

\* A box inside the grid is not wrapped.
LEMMA NotWrapped ==
  ASSUME NEW b, NEW n, Inside(b, n)
  PROVE  WrapOverlap(b, n) = <<b>>
BY DEF WrapOverlap

\* In tidy ranges every range ends before any later one begins.
LEMMA TidyAscends ==
  ASSUME NEW L \in RangeLists, Tidy(L)
  PROVE  \A k \in 1..Len(L) : \A j \in 1..(k - 1) : L[j][2] < L[k][1]
<1> DEFINE P == {k \in Nat : k \in 1..Len(L) => \A j \in 1..(k - 1) : L[j][2] < L[k][1]}
<1>1. Len(L) \in Nat /\ \A k \in 1..Len(L) : L[k][1] \in Nat /\ L[k][2] \in Nat
  BY ListParts
<1>2. 0 \in P
  OBVIOUS
<1>3. ASSUME NEW k \in P PROVE k + 1 \in P
  <2> SUFFICES ASSUME k + 1 \in 1..Len(L), NEW j \in 1..((k + 1) - 1)
               PROVE  L[j][2] < L[k + 1][1]
    OBVIOUS
  <2>1. k \in 1..Len(L) /\ k + 1 \in 2..Len(L) /\ (k + 1) - 1 = k /\ j \in 1..k
        /\ (j \in 1..(k - 1) \/ j = k) /\ j \in 1..Len(L)
    BY <1>1
  <2>2. L[k][2] + 1 < L[k + 1][1] /\ L[k][1] <= L[k][2]
    BY <2>1 DEF Tidy
  <2>3. \A i \in 1..(k - 1) : L[i][2] < L[k][1]
    BY <2>1
  <2> HIDE DEF P
  <2>4. CASE j = k
    BY <1>1, <2>1, <2>2, <2>4
  <2>5. CASE j \in 1..(k - 1)
    <3>1. L[j][2] < L[k][1]
      BY <2>3, <2>5
    <3> QED
      BY <1>1, <2>1, <2>2, <3>1
  <2> QED
    BY <2>1, <2>4, <2>5
<1>4. P \in SUBSET Nat
  OBVIOUS
<1>5. \A k \in Nat : k \in P
  <2> HIDE DEF P
  <2> QED
    BY <1>2, <1>3, <1>4, Inductive
<1> QED
  BY <1>1, <1>5

\* Tidy ranges are no more than the numbers in them are.
LEMMA TidyFew ==
  ASSUME NEW L \in RangeLists, Tidy(L), IsFiniteSet(Numbers(L))
  PROVE  Len(L) <= Cardinality(Numbers(L))
<1> DEFINE f == [k \in 1..Len(L) |-> L[k][1]]
<1>1. Len(L) \in Nat /\ \A k \in 1..Len(L) : L[k][1] \in Nat /\ L[k][2] \in Nat
  BY ListParts
<1>2. \A k \in 1..Len(L) : L[k][1] <= L[k][2]
  BY DEF Tidy
<1>3. \A k \in 1..Len(L) : L[k][1] \in Numbers(L)
  BY <1>1, <1>2 DEF Numbers
<1>4. ASSUME NEW j \in 1..Len(L), NEW k \in 1..Len(L), L[j][1] = L[k][1] PROVE j = k
  <2>1. ASSUME NEW u \in 1..Len(L), NEW v \in 1..Len(L), u < v PROVE L[u][1] < L[v][1]
    <3>1. u \in 1..(v - 1)
      BY <2>1
    <3>2. L[u][2] < L[v][1]
      BY <3>1, TidyAscends
    <3> QED
      BY <1>1, <1>2, <3>2
  <2>2. ~(j < k)
    BY <1>1, <1>4, <2>1
  <2>3. ~(k < j)
    BY <1>1, <1>4, <2>1
  <2> QED
    BY <2>2, <2>3
<1>5. f \in Injection(1..Len(L), Numbers(L))
  BY <1>3, <1>4 DEF Injection, IsInjective
<1>6. Cardinality(1..Len(L)) <= Cardinality(Numbers(L))
  BY <1>5, FS_Injection
<1>7. Cardinality(1..Len(L)) = Len(L)
  <2>1. Cardinality(1..Len(L)) = IF 1 > Len(L) THEN 0 ELSE Len(L) - 1 + 1
    BY <1>1, FS_Interval
  <2> QED
    BY <1>1, <2>1
<1> QED
  BY <1>6, <1>7

\* The ranges of a box that is not wrapped cover it, are at most as many as asked
\* for, and with as many as there are cells cover nothing else.
LEMMA GetRangeCovers ==
  ASSUME NEW n \in Sides, n * n <= ULong, NEW max \in Nat \ {0},
         NEW b \in [x : Nat, y : Nat, p : Nat, q : Nat], Inside(b, n), CellsOf(b) # {}
  PROVE  LET K == GetRange(b, n, max)
             codes == Codes(b, n)
         IN  /\ K \in RangeLists /\ codes \subseteq Numbers(K) /\ Len(K) <= max
             /\ max >= Cardinality(CellsOf(b)) => Tidy(K) /\ Numbers(K) = codes
<1> DEFINE square == Whole(b)
           L == SplitQuad[n][square][<< >>]
           codes == Codes(b, n)
           K == GetRange(b, n, max)
<1>1. n \in Nat \ {0} /\ n * n \in Nat
  BY SidesDouble
<1>2. square \in Squares /\ square.box = b
  BY DEF Squares, Whole
<1>3. K = CompactRanges(L, max)
  <2>1. WrapOverlap(b, n) = <<b>>
    BY NotWrapped
  <2>2. Len(<<b>>) = 1 /\ <<b>>[1] = b
    OBVIOUS
  <2>3. SplitParts(<<b>>, n) = L
    BY <2>2, PartsAre
  <2> HIDE DEF L
  <2> QED
    BY <2>1, <2>3 DEF GetRange
<1>4. Fits(b, n)
  <2>1. b.x + b.q <= n - 1 /\ b.y + b.p <= n - 1
    BY DEF Inside, MaxX, MaxY
  <2>2. b.x \in Nat /\ b.y \in Nat /\ b.q \in Nat /\ b.p \in Nat
    OBVIOUS
  <2> QED
    BY <1>1, <2>1, <2>2 DEF Fits
<1>5. /\ L \in RangeLists /\ Tidy(L) /\ EndBelow(L, n * n) /\ Numbers(L) = codes
  <2> DEFINE E == << >>
  <2>1. E \in RangeLists /\ Tidy(E) /\ EndBelow(E, 0) /\ Numbers(E) = {}
    BY DEF RangeLists, Tidy, EndBelow, Numbers
  <2>2. Grown(E, 0, 0)
    BY <2>1, GrownTidy
  <2> HIDE DEF square, E, codes
  <2>3. /\ SplitQuad[n][square][E] \in RangeLists /\ Grown(SplitQuad[n][square][E], 0, n * n)
        /\ Numbers(SplitQuad[n][square][E]) = Numbers(E) \cup codes
    BY <1>4, <2>1, <2>2, PartFills DEF square, codes
  <2> QED
    BY <2>1, <2>3, GrownTidy DEF E
<1>6. CellsOf(b) \subseteq Grid(n)
  BY <1>1, <1>2, <1>4, BoxInGrid
<1>7. /\ IsFiniteSet(codes) /\ IsFiniteSet(CellsOf(b))
      /\ Cardinality(codes) <= Cardinality(CellsOf(b))
  <2>0. codes = {Encode(c, n) : c \in CellsOf(b)}
    BY DEF Codes
  <2> HIDE DEF codes
  <2>1. \A c \in CellsOf(b) : Encode(c, n) \in 0..(n * n - 1) /\ DecodeToPoint(n, Encode(c, n)) = c
    BY <1>6, EncodeInverts
  <2>2. IsFiniteSet(0..(n * n - 1))
    BY <1>1, FS_Interval
  <2>3. codes \subseteq 0..(n * n - 1)
    BY <2>0, <2>1
  <2>4. IsFiniteSet(codes)
    BY <2>2, <2>3, FS_Subset
  <2> DEFINE e == [c \in CellsOf(b) |-> Encode(c, n)]
             d == [i \in codes |-> DecodeToPoint(n, i)]
  <2>5. e \in Injection(CellsOf(b), 0..(n * n - 1))
    BY <2>1 DEF Injection, IsInjective
  <2>6. IsFiniteSet(CellsOf(b))
    BY <2>2, <2>5, FS_Injection
  <2>7. d \in Injection(codes, CellsOf(b))
    BY <2>0, <2>1 DEF Injection, IsInjective
  <2>8. Cardinality(codes) <= Cardinality(CellsOf(b))
    BY <2>6, <2>7, FS_Injection
  <2> QED
    BY <2>4, <2>6, <2>8
<1>8. CellsOf(b) # {} /\ codes # {}
  BY DEF Codes
<1> HIDE DEF L, codes, square
<1>9. L # << >> /\ Len(L) \in Nat
  <2>1. L = << >> => Numbers(L) = {}
    BY DEF Numbers
  <2> QED
    BY <1>5, <1>8, <2>1, ListParts
<1>10. EndBelow(L, ULong)
  <2>1. \A i \in 1..Len(L) : L[i][2] \in Nat /\ L[i][2] < n * n
    BY <1>5, ListParts DEF EndBelow
  <2>2. ULong \in Nat
    BY ULongAssumption
  <2> QED
    BY <1>1, <2>1, <2>2 DEF EndBelow
<1>11. /\ K \in RangeLists /\ Numbers(L) \subseteq Numbers(K)
       /\ Len(K) <= max
       /\ Len(L) <= max => K = L
  BY <1>3, <1>5, <1>9, <1>10, CompactKeeps
<1>12. Len(L) <= Cardinality(codes)
  BY <1>5, <1>7, TidyFew
<1>13. max >= Cardinality(CellsOf(b)) => Len(L) <= max
  <2>1. Cardinality(codes) \in Nat
    BY <1>7, FS_CardinalityType
  <2>2. Cardinality(CellsOf(b)) \in Nat
    BY <1>7, FS_CardinalityType
  <2> QED
    BY ONLY <1>7, <1>9, <1>12, <2>1, <2>2, max \in Nat
<1> QED
  BY <1>5, <1>11, <1>13 DEF codes

-----------------------------------------------------------------------------
(* Searches *)

\* An index is never changed.
LEMMA AlwaysIndex == Spec => [](index \in Index)
<1>1. Init => index \in Index
  BY DEF Init
<1>2. index \in Index /\ [Next]_vars => (index \in Index)'
  BY DEF Next, vars, GetRanges, Within, NearestNeighbours, NearestOfNone, Walk, Seek, Take,
         NextRange, Finish
<1> QED
  BY <1>1, <1>2, PTL DEF Spec

\* The side of an index's grid is a power of two, and its numbers fit a ulong.
LEMMA IndexSide ==
  ASSUME NEW i \in Index
  PROVE  /\ i.n \in Sides /\ i.n \in Nat \ {0}
         /\ i.n * i.n <= ULong /\ 2 * (i.n * i.n) <= ULong
<1>1. i.n \in {TwoTo[k] : k \in 0..30} /\ 2 * (i.n * i.n) <= ULong
  BY IndexAssumption
<1>2. \A k \in 0..30 : k \in Nat
  OBVIOUS
<1>3. i.n \in Sides
  BY <1>1, <1>2 DEF Sides
<1>4. i.n \in Nat \ {0}
  BY <1>3, SidesDouble
<1>5. i.n * i.n \in Nat /\ ULong \in Nat
  BY <1>4, ULongAssumption
<1>6. i.n * i.n <= ULong
  BY <1>1, <1>5
<1> QED
  BY <1>1, <1>3, <1>4, <1>6

\* PointOf and CodeOf are the curve.
LEMMA Tables ==
  ASSUME NEW i \in Index
  PROVE  /\ \A d \in 0..(i.n * i.n - 1) : PointOf[i.n][d] = DecodeToPoint(i.n, d)
         /\ \A c \in Grid(i.n) : CodeOf[i.n][c] = Encode(c, i.n)
<1>1. i.n \in {j.n : j \in Index}
  OBVIOUS
<1> QED
  BY <1>1 DEF PointOf, CodeOf

\* HilbertCode.cs:204-233: on every grid Decode inverts Encode, and numbers next to each
\* other are cells next to each other.
THEOREM CurveContinues == Spec => []CurveIsContinuous
<1>1. index \in Index => CurveIsContinuous
  <2> SUFFICES ASSUME index \in Index
               PROVE  \A d \in 0..(index.n * index.n - 1) :
                        /\ CodeOf[index.n][PointOf[index.n][d]] = d
                        /\ d > 0 => Squared(PointOf[index.n][d], PointOf[index.n][d - 1]) = 1
    BY Zenon DEF CurveIsContinuous
  <2>1. PICK n : n = index.n
    OBVIOUS
  <2>2. n \in Sides /\ n \in Nat \ {0}
    BY <2>1, IndexSide
  <2>3. /\ \A d \in 0..(n * n - 1) : PointOf[n][d] = DecodeToPoint(n, d)
        /\ \A c \in Grid(n) : CodeOf[n][c] = Encode(c, n)
    BY <2>1, Tables
  <2>4. ASSUME NEW d \in 0..(n * n - 1)
        PROVE  CodeOf[n][PointOf[n][d]] = d
    <3>1. DecodeToPoint(n, d) \in Grid(n) /\ Encode(DecodeToPoint(n, d), n) = d
      BY <2>2, DecodeInverts
    <3> QED
      BY <2>3, <3>1
  <2>5. ASSUME NEW d \in 0..(n * n - 1), d > 0
        PROVE  Squared(PointOf[n][d], PointOf[n][d - 1]) = 1
    <3>1. n * n \in Nat
      BY <2>2
    <3>2. d \in 1..(n * n - 1) /\ d - 1 \in 0..(n * n - 1)
      BY <2>5, <3>1
    <3>3. Squared(DecodeToPoint(n, d), DecodeToPoint(n, d - 1)) = 1
      BY <2>2, <3>2, CurveSteps
    <3> QED
      BY <2>3, <3>2, <3>3
  <2> QED
    BY ONLY <2>1, <2>4, <2>5
<1> QED
  BY <1>1, AlwaysIndex, PTL

-----------------------------------------------------------------------------
\* What the caller of GetRanges was given.
Answered ==
  at = "ranges" =>
    \E b \in BoxesOnGrid(index.n), max \in MaxRanges :
      /\ search = Asks("ranges", b, Cell(b.x, b.y), max)
      /\ segments = GetRange(b, index.n, max)

\* A box inside the grid is of naturals, and has cells.
LEMMA BoxInside ==
  ASSUME NEW n \in Nat \ {0}, NEW b \in BoxesOnGrid(n), Inside(b, n)
  PROVE  b \in [x : Nat, y : Nat, p : Nat, q : Nat] /\ CellsOf(b) # {}
<1>1. PICK u \in 0..(n - 1), v \in 0..(n - 1), p \in 1..n, q \in 1..n :
        b = HilbertEnvelope(u, v, p, q)
  BY DEF BoxesOnGrid, Boxes, Grid, Cell
<1>2. b = [x |-> u, y |-> v, p |-> p, q |-> q]
  BY <1>1 DEF HilbertEnvelope, Greater
<1>3. b \in [x : Nat, y : Nat, p : Nat, q : Nat]
  BY <1>1, <1>2
<1>4. Cell(u, v) \in CellsOf(b)
  <2>1. u \in u..(u + q - 1) /\ v \in v..(v + p - 1)
    BY <1>1
  <2> QED
    BY <1>2, <2>1 DEF CellsOf, MaxX, MaxY
<1> QED
  BY <1>3, <1>4

\* The cells of a box inside the grid are the grid's.
LEMMA InsideGrid ==
  ASSUME NEW n \in Nat, NEW b \in [x : Nat, y : Nat, p : Nat, q : Nat], Inside(b, n)
  PROVE  CellsOf(b) \subseteq Grid(n)
<1> DEFINE square == [rotation |-> "A", min |-> 0, box |-> b]
<1>1. square \in Squares /\ square.box = b
  BY DEF Squares
<1>2. b.x \in Nat /\ b.y \in Nat /\ b.p \in Nat /\ b.q \in Nat
  OBVIOUS
<1>3. b.x + b.q <= n - 1 /\ b.y + b.p <= n - 1
  BY DEF Inside, MaxX, MaxY
<1>4. Fits(b, n)
  BY <1>2, <1>3 DEF Fits
<1> HIDE DEF square
<1> QED
  BY <1>1, <1>4, BoxInGrid

\* Whoever stands at "ranges" was answered.
LEMMA AnsweredStep ==
  ASSUME index \in Index, Answered, [Next]_vars
  PROVE  Answered'
<1>1. CASE GetRanges
  <2>1. index' = index /\ index.n \in {i.n : i \in Index}
    BY <1>1 DEF GetRanges
  <2>2. PICK b \in BoxesOnGrid(index.n), max \in MaxRanges :
          /\ search' = Asks("ranges", b, Cell(b.x, b.y), max)
          /\ segments' = CoverOf[index.n][b][max]
    BY <1>1 DEF GetRanges
  <2>3. CoverOf[index.n][b][max] = GetRange(b, index.n, max)
    BY <2>1 DEF CoverOf
  <2>4. at' = "ranges"
    BY <1>1 DEF GetRanges
  <2> QED
    BY <2>1, <2>2, <2>3, <2>4 DEF Answered
<1>2. CASE UNCHANGED vars
  BY <1>2 DEF Answered, vars
<1>3. ~GetRanges /\ Next => at' # "ranges"
  BY DEF Next, Within, NearestNeighbours, NearestOfNone, Walk, Seek, Take, NextRange, Finish,
         Answered
<1> QED
  BY <1>1, <1>2, <1>3 DEF Answered

\* HilbertCode.cs:143, GetRanges: for every box inside the grid and every number of ranges
\* asked for, the ranges cover the box and are at most as many, and with as many as there are
\* cells they cover nothing else and no two could be one.
THEOREM Covers == Spec => []RangesCover
<1>1. Init => Answered
  BY DEF Init, Answered
<1>2. index \in Index /\ Answered => RangesCover
  <2> SUFFICES ASSUME index \in Index, Answered, at = "ranges", Inside(search.box, index.n)
               PROVE  LET cells == CellsOf(search.box)
                      IN  /\ \A c \in cells : InSomeRange(CodeOf[index.n][c])
                          /\ Len(segments) <= search.max
                          /\ search.max >= Cardinality(cells) =>
                              /\ \A d \in 0..(index.n * index.n - 1) :
                                    InSomeRange(d) => PointOf[index.n][d] \in cells
                              /\ \A k \in 2..Len(segments) :
                                    segments[k - 1][2] + 1 < segments[k][1]
    BY Zenon DEF RangesCover
  <2>1. PICK n : n = index.n
    OBVIOUS
  <2>2. n \in Sides /\ n \in Nat \ {0} /\ n * n <= ULong
    BY <2>1, IndexSide
  <2>3. PICK b \in BoxesOnGrid(n), max \in MaxRanges :
          search = Asks("ranges", b, Cell(b.x, b.y), max) /\ segments = GetRange(b, n, max)
    BY <2>1 DEF Answered
  <2>4. search.box = b /\ search.max = max
    BY <2>3 DEF Asks
  <2>5. Inside(b, n) /\ max \in Nat \ {0}
    BY <2>1, <2>4, IndexAssumption
  <2>6. b \in [x : Nat, y : Nat, p : Nat, q : Nat] /\ CellsOf(b) # {}
    BY <2>2, <2>5, BoxInside
  <2> DEFINE codes == Codes(b, n)
  <2>7. /\ segments \in RangeLists /\ codes \subseteq Numbers(segments)
        /\ Len(segments) <= max
        /\ max >= Cardinality(CellsOf(b)) => Tidy(segments) /\ Numbers(segments) = codes
    BY <2>2, <2>3, <2>5, <2>6, GetRangeCovers
  <2>8. CellsOf(b) \subseteq Grid(n)
    BY <2>2, <2>5, <2>6, InsideGrid
  <2>9. ASSUME NEW d \in Nat
        PROVE  InSomeRange(d) <=> d \in Numbers(segments)
    <3>1. DOMAIN segments = 1..Len(segments)
      BY <2>7 DEF RangeLists
    <3>2. \A k \in 1..Len(segments) : segments[k][1] \in Nat /\ segments[k][2] \in Nat
      BY <2>7, ListParts
    <3> QED
      BY <3>1, <3>2 DEF InSomeRange, Numbers
  <2>10. /\ \A d \in 0..(n * n - 1) : PointOf[n][d] = DecodeToPoint(n, d)
         /\ \A c \in Grid(n) : CodeOf[n][c] = Encode(c, n)
    BY <2>1, Tables
  <2>11. \A c \in CellsOf(b) :
           /\ CodeOf[n][c] = Encode(c, n) /\ Encode(c, n) \in Nat
           /\ DecodeToPoint(n, Encode(c, n)) = c
    BY <2>2, <2>8, <2>10, EncodeInverts
  <2>12. \A c \in CellsOf(b) : InSomeRange(CodeOf[n][c])
    BY <2>7, <2>9, <2>11 DEF Codes
  <2>13. ASSUME max >= Cardinality(CellsOf(b)), NEW d \in 0..(n * n - 1), InSomeRange(d)
         PROVE  PointOf[n][d] \in CellsOf(b)
    <3>1. d \in codes
      <4>1. d \in Nat
        OBVIOUS
      <4> QED
        BY <2>7, <2>9, <2>13, <4>1
    <3> QED
      BY <2>10, <2>11, <3>1 DEF Codes
  <2>14. max >= Cardinality(CellsOf(b)) =>
           \A k \in 2..Len(segments) : segments[k - 1][2] + 1 < segments[k][1]
    BY <2>7 DEF Tidy
  <2> HIDE DEF codes
  <2> QED
    BY <2>1, <2>4, <2>7, <2>12, <2>13, <2>14
<1> QED
  BY <1>1, <1>2, AlwaysIndex, AnsweredStep, PTL DEF Spec

-----------------------------------------------------------------------------
(* The walk *)

InRanges(R, d) == \E k \in 1..Len(R) : d \in R[k][1]..R[k][2]

\* Every item of the ranges is yielded.  When no two items share a Hid, nothing
\* else is, and each item once and in the order of the list.
YieldsExactly(R) ==
    /\ \A i \in 0..(Count - 1) : InRanges(R, Hid(i)) => i \in Yielded
    /\ Distinct =>
        /\ \A i \in Yielded : InRanges(R, Hid(i))
        /\ \A j, k \in DOMAIN found : j < k => found[j] < found[k]

\* The loop over R begins.
Begins(R) == at = "seek" /\ segments = R /\ startIndex = 0 /\ found = << >>

\* The segments are the ranges of R still to be walked.
Place(R) ==
    /\ at \in {"seek", "take", "done"}
    /\ segments \in Seq(Nat \X Nat) /\ Len(segments) <= Len(R)
    /\ \A k \in 1..Len(segments) : segments[k] = R[Len(R) - Len(segments) + k]
    /\ startIndex \in Nat /\ found \in Seq(0..(Count - 1))
    /\ at = "take" => segments # << >> /\ position \in Nat
    /\ at = "done" => segments = << >>

\* How far the walk has come in the items.
Here == IF at = "take" THEN position ELSE startIndex

\* What is in a range that was walked is yielded, and what is behind the walk is
\* yielded or below every range to come.
Complete(R) ==
    /\ \A i \in 0..(Count - 1), k \in 1..(Len(R) - Len(segments)) :
          Hid(i) \in R[k][1]..R[k][2] => i \in Yielded
    /\ \A i \in 0..(Count - 1) : i < Here =>
          i \in Yielded \/ \A k \in 1..Len(segments) : Hid(i) < segments[k][1]

\* Of distinct items, those from here on are in or beyond the current range, and
\* those yielded are behind.
Sound(R) ==
    Distinct =>
        /\ at = "take" => \A i \in 0..(Count - 1) : position <= i => Hid(i) >= segments[1][1]
        /\ \A i \in Yielded : InRanges(R, Hid(i))
        /\ \A j, k \in DOMAIN found : j < k => found[j] < found[k]
        /\ \A j \in DOMAIN found : found[j] < Here

Walking(R) == Place(R) /\ Complete(R) /\ Sound(R)

-----------------------------------------------------------------------------
(* The binary search and the scan *)

\* The Hids of the items are numbers that do not descend.
LEMMA Items ==
  ASSUME index \in Index
  PROVE  /\ Count \in Nat
         /\ \A i \in 0..(Count - 1) : Hid(i) \in Nat
         /\ \A i, j \in 0..(Count - 1) : i <= j => Hid(i) <= Hid(j)
<1>1. index.hids \in Seq(0..(index.n * index.n - 1))
  BY IndexAssumption
<1>2. Count \in Nat /\ \A i \in 1..Count : index.hids[i] \in Nat
  <2>1. PICK H, S : H = index.hids /\ S = 0..(index.n * index.n - 1)
    OBVIOUS
  <2>2. S \subseteq Nat
    BY <2>1
  <2>3. H \in Seq(S)
    BY <1>1, <2>1
  <2>4. Len(H) \in Nat /\ \A i \in 1..Len(H) : H[i] \in S
    BY ONLY <2>3
  <2> QED
    BY ONLY <2>1, <2>2, <2>4 DEF Count
<1>3. \A i \in 0..(Count - 1) : i + 1 \in 1..Count
  BY <1>2
<1>4. \A i, j \in 1..Count : i <= j => index.hids[i] <= index.hids[j]
  BY SortedAssumption DEF Count
<1> QED
  BY <1>2, <1>3, <1>4 DEF Hid

\* "Scan down" comes to the first item of a Hid, or to the item before it.
LEMMA Scan ==
  ASSUME index \in Index, NEW i \in 0..(Count - 1)
  PROVE  /\ ScanDown(i) \in -1..i
         /\ \A k \in 0..(Count - 1) : k < ScanDown(i) => Hid(k) < Hid(i)
         /\ Distinct => ScanDown(i) = i
<1> DEFINE T == {k \in -1..(i - 1) : k = -1 \/ Hid(k) # Hid(i)}
<1>0. /\ Count \in Nat /\ \A k \in 0..(Count - 1) : Hid(k) \in Nat
      /\ \A k, j \in 0..(Count - 1) : k <= j => Hid(k) <= Hid(j)
  BY Items
<1>1. T \subseteq -1..(i - 1) /\ -1 \in T
  BY <1>0
<1>2. PICK stop : stop = Max(T)
  OBVIOUS
<1>3. stop \in T /\ \A k \in T : stop >= k
  <2>1. \E x \in T : \A y \in T : x >= y
    <3> HIDE DEF T
    <3>1. i - 1 \in Int
      BY <1>0
    <3> QED
      BY <1>1, <3>1, GreatestFrom
  <2> HIDE DEF T
  <2> QED
    BY <1>2, <2>1 DEF Max
<1>4. ScanDown(i) = IF stop = i - 1 THEN i ELSE stop
  BY <1>2 DEF ScanDown
<1>5. stop \in -1..(i - 1) /\ (stop = -1 \/ Hid(stop) # Hid(i))
  BY <1>3
<1>6. ASSUME NEW k \in 0..(Count - 1), k <= stop PROVE Hid(k) < Hid(i)
  <2>1. stop \in 0..(Count - 1) /\ stop <= i /\ stop # -1
    BY <1>0, <1>5, <1>6
  <2>2. Hid(k) <= Hid(stop) /\ Hid(stop) <= Hid(i) /\ Hid(stop) # Hid(i)
    BY <1>0, <1>5, <1>6, <2>1
  <2>3. Hid(k) \in Nat /\ Hid(stop) \in Nat /\ Hid(i) \in Nat
    BY <1>0, <2>1
  <2> QED
    BY <2>2, <2>3
<1>7. ScanDown(i) \in -1..i
  BY <1>0, <1>4, <1>5
<1>8. \A k \in 0..(Count - 1) : k < ScanDown(i) => k <= stop
  BY <1>0, <1>4, <1>5
<1>9. Distinct => stop = i - 1
  <2> SUFFICES ASSUME Distinct, i # 0 PROVE stop = i - 1
    BY <1>0, <1>5
  <2>1. i - 1 \in 0..(Count - 1) /\ i - 1 # i
    BY <1>0
  <2>2. Hid(i - 1) # Hid(i)
    BY <2>1 DEF Distinct
  <2>3. i - 1 \in T
    BY <1>0, <2>1, <2>2
  <2> QED
    BY <1>0, <1>3, <1>5, <2>3
<1> QED
  BY <1>4, <1>6, <1>7, <1>8, <1>9

\* The walk of a range starts where all items passed over are below it, and of
\* distinct items at the first one that is not.
LEMMA SearchPlace ==
  ASSUME index \in Index, NEW from \in Nat, NEW hid \in Nat, NEW i \in BinarySearch(from, hid)
  PROVE  /\ WalkFrom(i) \in Nat
         /\ \A k \in 0..(Count - 1) : from <= k /\ k < WalkFrom(i) => Hid(k) < hid
         /\ Distinct =>
              /\ from <= WalkFrom(i)
              /\ \A k \in 0..(Count - 1) : WalkFrom(i) <= k => Hid(k) >= hid
<1> DEFINE matches == {k \in from..(Count - 1) : Hid(k) = hid}
           smaller == {k \in from..(Count - 1) : Hid(k) < hid}
<1>0. /\ Count \in Nat /\ \A k \in 0..(Count - 1) : Hid(k) \in Nat
      /\ \A k, j \in 0..(Count - 1) : k <= j => Hid(k) <= Hid(j)
  BY Items
<1>1. CASE matches # {}
  <2>1. i \in from..(Count - 1) /\ Hid(i) = hid /\ i \in 0..(Count - 1)
    BY <1>0, <1>1 DEF BinarySearch
  <2>2. /\ ScanDown(i) \in -1..i
        /\ \A k \in 0..(Count - 1) : k < ScanDown(i) => Hid(k) < hid
        /\ Distinct => ScanDown(i) = i
    BY <2>1, Scan
  <2>3. WalkFrom(i) = IF ScanDown(i) < 0 THEN -ScanDown(i) - 1 ELSE ScanDown(i)
    BY <1>0, <2>1 DEF WalkFrom, Complement
  <2>4. /\ WalkFrom(i) \in Nat /\ \A k \in 0..(Count - 1) : k < WalkFrom(i) => k < ScanDown(i)
        /\ (ScanDown(i) = i => WalkFrom(i) = i)
    BY <1>0, <2>1, <2>2, <2>3
  <2>5. \A k \in 0..(Count - 1) : i <= k => Hid(k) >= hid
    BY <1>0, <2>1
  <2> QED
    BY <2>1, <2>2, <2>4, <2>5
<1>2. CASE matches = {}
  <2>1. PICK c : c = Cardinality(smaller)
    OBVIOUS
  <2>2. i = -(from + c) - 1
    BY <1>2, <2>1 DEF BinarySearch
  <2>3. IsFiniteSet(smaller) /\ c \in Nat
    <3>1. IsFiniteSet(from..(Count - 1))
      BY <1>0, FS_Interval
    <3> QED
      BY <2>1, <3>1, FS_Subset, FS_CardinalityType
  <2>4. WalkFrom(i) = from + c
    BY <2>2, <2>3 DEF WalkFrom, Complement
  <2>5. ASSUME NEW k \in 0..(Count - 1), from <= k, k < from + c PROVE Hid(k) < hid
    <3> SUFFICES ASSUME ~(Hid(k) < hid) PROVE FALSE
      OBVIOUS
    <3>1. smaller \subseteq from..(k - 1)
      BY <1>0, <2>5
    <3>2. IsFiniteSet(from..(k - 1)) /\ Cardinality(from..(k - 1)) = k - from
      <4>1. from \in Int /\ k - 1 \in Int /\ from <= k
        BY <1>0, <2>5
      <4>2. IsFiniteSet(from..(k - 1)) /\ Cardinality(from..(k - 1)) =
              IF from > k - 1 THEN 0 ELSE (k - 1) - from + 1
        BY <4>1, FS_Interval
      <4> QED
        BY <4>1, <4>2
    <3>3. c <= k - from
      BY <2>1, <3>1, <3>2, FS_Subset
    <3> QED
      BY <2>3, <2>5, <3>3
  <2>6. ASSUME NEW k \in 0..(Count - 1), from + c <= k PROVE Hid(k) >= hid
    <3> SUFFICES ASSUME Hid(k) < hid PROVE FALSE
      BY <1>0
    <3>1. from..k \subseteq smaller
      <4> SUFFICES ASSUME NEW j \in from..k PROVE j \in smaller
        OBVIOUS
      <4>1. j \in 0..(Count - 1) /\ j \in from..(Count - 1) /\ j <= k
        BY <1>0, <2>6
      <4>2. Hid(j) <= Hid(k) /\ Hid(j) \in Nat /\ Hid(k) \in Nat
        BY <1>0, <4>1
      <4> QED
        BY <4>1, <4>2
    <3>2. Cardinality(from..k) = k - from + 1
      BY <2>3, <2>6, FS_Interval
    <3>3. k - from + 1 <= c
      BY <2>1, <2>3, <3>1, <3>2, FS_Subset
    <3> QED
      BY <2>3, <2>6, <3>3
  <2> QED
    BY <2>3, <2>4, <2>5, <2>6
<1> QED
  BY <1>1, <1>2

-----------------------------------------------------------------------------
(* The steps of the walk *)

\* The items yielded are places of the list.
LEMMA FoundPlaces ==
  ASSUME found \in Seq(0..(Count - 1))
  PROVE  /\ Len(found) \in Nat /\ DOMAIN found = 1..Len(found)
         /\ \A j \in 1..Len(found) : found[j] \in Int
<1>1. PICK S, f : S = 0..(Count - 1) /\ f = found
  OBVIOUS
<1>2. f \in Seq(S)
  BY <1>1
<1>3. Len(f) \in Nat /\ DOMAIN f = 1..Len(f) /\ \A j \in 1..Len(f) : f[j] \in S
  BY ONLY <1>2
<1>4. S \subseteq Int
  BY <1>1
<1> QED
  BY ONLY <1>1, <1>3, <1>4

\* No step of the walk changes the items.
LEMMA SameItems ==
  ASSUME UNCHANGED index
  PROVE  /\ Count' = Count /\ Distinct' = Distinct
         /\ \A i : Hid(i)' = Hid(i)
  BY DEF Count, Distinct, Hid

\* Seek passes over items that are below the range and those after it.
LEMMA SeekWalks ==
  ASSUME NEW R \in Seq(Nat \X Nat), Ascending(R), index \in Index, Walking(R), Seek
  PROVE  Walking(R)'
<1>0. /\ Place(R) /\ Complete(R) /\ Sound(R) /\ at = "seek" /\ segments # << >>
      /\ at' = "take" /\ UNCHANGED <<index, search, segments, startIndex, found>>
  BY DEF Walking, Seek
<1>1. /\ Count' = Count /\ Distinct' = Distinct /\ (\A i : Hid(i)' = Hid(i))
      /\ Yielded' = Yielded /\ Here = startIndex /\ Here' = position'
  BY <1>0, SameItems DEF Yielded, Here
<1>2. PICK low : low = segments[1][1]
  OBVIOUS
<1>3. /\ segments \in Seq(Nat \X Nat) /\ Len(segments) \in Nat /\ 1 \in 1..Len(segments)
      /\ startIndex \in Nat /\ Len(R) \in Nat /\ Len(segments) <= Len(R)
      /\ Head(segments) = segments[1]
  BY <1>0 DEF Place
<1>4. \A k \in 1..Len(segments) : low <= segments[k][1] /\ segments[k][1] \in Nat
  <2> SUFFICES ASSUME NEW k \in 1..Len(segments)
               PROVE  low <= segments[k][1] /\ segments[k][1] \in Nat
    OBVIOUS
  <2>1. segments[k] = R[Len(R) - Len(segments) + k] /\ segments[1] = R[Len(R) - Len(segments) + 1]
    BY <1>0, <1>3 DEF Place
  <2>2. /\ Len(R) - Len(segments) + k \in 1..Len(R) /\ Len(R) - Len(segments) + 1 \in 1..Len(R)
        /\ Len(R) - Len(segments) + 1 <= Len(R) - Len(segments) + k
    BY <1>3
  <2>3. segments[k] \in Nat \X Nat
    BY <1>3
  <2> QED
    BY <1>2, <2>1, <2>2, <2>3 DEF Ascending
<1>5. low \in Nat
  BY <1>2, <1>3, <1>4
<1>6. /\ position' \in Nat
      /\ \A k \in 0..(Count - 1) : startIndex <= k /\ k < position' => Hid(k) < low
      /\ Distinct =>
           /\ startIndex <= position'
           /\ \A k \in 0..(Count - 1) : position' <= k => Hid(k) >= low
  <2>1. PICK i \in BinarySearch(startIndex, low) : position' = WalkFrom(i)
    BY <1>2, <1>3 DEF Seek
  <2> QED
    BY <1>3, <1>5, <2>1, SearchPlace
<1>7. Place(R)'
  BY <1>0, <1>1, <1>6 DEF Place
<1>8. Complete(R)'
  <2>1. ASSUME NEW i \in 0..(Count - 1), i < position', i \notin Yielded,
               NEW k \in 1..Len(segments)
        PROVE  Hid(i) < segments[k][1]
    <3>1. CASE i < startIndex
      BY <1>0, <1>1, <2>1, <3>1 DEF Complete
    <3>2. CASE ~(i < startIndex)
      <4>1. Hid(i) < low /\ Hid(i) \in Nat
        BY <1>3, <1>6, <2>1, <3>2, Items
      <4> QED
        BY <1>4, <1>5, <4>1
    <3> QED
      BY <3>1, <3>2
  <2> QED
    BY <1>0, <1>1, <2>1 DEF Complete
<1>9. Sound(R)'
  <2> SUFFICES ASSUME Distinct PROVE Sound(R)'
    BY <1>1 DEF Sound
  <2>1. \A j \in DOMAIN found : found[j] < position'
    <3> SUFFICES ASSUME NEW j \in DOMAIN found PROVE found[j] < position'
      OBVIOUS
    <3>1. found[j] < startIndex
      BY <1>0, <1>1 DEF Sound
    <3>2. found[j] \in Int
      BY <1>0, FoundPlaces DEF Place
    <3> QED
      BY <1>3, <1>6, <3>1, <3>2
  <2> QED
    BY <1>0, <1>1, <1>2, <1>6, <2>1 DEF Sound
<1> QED
  BY <1>7, <1>8, <1>9 DEF Walking

\* Take yields the item it passes.
LEMMA TakeWalks ==
  ASSUME NEW R \in Seq(Nat \X Nat), index \in Index, Walking(R), Take
  PROVE  Walking(R)'
<1>0. /\ Place(R) /\ Complete(R) /\ Sound(R) /\ at = "take" /\ InRange
      /\ found' = Append(found, position) /\ position' = position + 1
      /\ UNCHANGED <<index, search, segments, startIndex, at>>
  BY DEF Walking, Take
<1>1. /\ Count' = Count /\ Distinct' = Distinct /\ (\A i : Hid(i)' = Hid(i))
      /\ Here = position /\ Here' = position + 1
  BY <1>0, SameItems DEF Here
<1>2. /\ segments[1] \in Nat \X Nat /\ 1 \in 1..Len(segments) /\ Head(segments) = segments[1]
      /\ Len(segments) \in Nat /\ Len(R) \in Nat /\ Len(segments) <= Len(R)
      /\ segments[1] = R[Len(R) - Len(segments) + 1]
  <2>1. segments \in Seq(Nat \X Nat) /\ segments # << >> /\ Len(segments) <= Len(R)
    BY <1>0 DEF Place
  <2>2. /\ segments[1] \in Nat \X Nat /\ 1 \in 1..Len(segments) /\ Len(segments) \in Nat
        /\ Head(segments) = segments[1]
    BY <2>1
  <2>3. segments[1] = R[Len(R) - Len(segments) + 1]
    BY <1>0, <2>2 DEF Place
  <2>4. Len(R) \in Nat
    OBVIOUS
  <2> QED
    BY ONLY <2>1, <2>2, <2>3, <2>4
<1>3. /\ position \in 0..(Count - 1) /\ Hid(position) <= segments[1][2]
      /\ position \in Nat /\ Count \in Nat
  <2>1. position \in Nat /\ Count \in Nat
    BY <1>0, Items DEF Place
  <2>2. position < Count /\ Hid(position) <= segments[1][2]
    BY <1>0, <1>2 DEF InRange
  <2> QED
    BY <2>1, <2>2
<1>4. /\ found \in Seq(0..(Count - 1)) /\ Len(found) \in Nat /\ DOMAIN found = 1..Len(found)
      /\ found' \in Seq(0..(Count - 1)) /\ DOMAIN found' = 1..(Len(found) + 1)
      /\ \A j \in 1..Len(found) : found'[j] = found[j]
      /\ found'[Len(found) + 1] = position
  <2>1. PICK S, f : S = 0..(Count - 1) /\ f = found
    OBVIOUS
  <2>2. f \in Seq(S) /\ position \in S
    BY <1>0, <1>3, <2>1 DEF Place
  <2>3. /\ Len(f) \in Nat /\ DOMAIN f = 1..Len(f)
        /\ Append(f, position) \in Seq(S) /\ DOMAIN Append(f, position) = 1..(Len(f) + 1)
        /\ \A j \in 1..Len(f) : Append(f, position)[j] = f[j]
        /\ Append(f, position)[Len(f) + 1] = position
    BY ONLY <2>2
  <2> QED
    BY <1>0, <2>1, <2>2, <2>3
<1>5. Yielded' = Yielded \cup {position}
  <2>1. \A j \in 1..(Len(found) + 1) : j \in 1..Len(found) \/ j = Len(found) + 1
    BY <1>4
  <2>2. 1..Len(found) \subseteq 1..(Len(found) + 1) /\ Len(found) + 1 \in 1..(Len(found) + 1)
    BY <1>4
  <2>3. /\ Yielded = {found[j] : j \in 1..Len(found)}
        /\ Yielded' = {found'[j] : j \in 1..(Len(found) + 1)}
    BY <1>4 DEF Yielded
  <2>4. Yielded' \subseteq Yielded \cup {position}
    BY <1>4, <2>1, <2>3
  <2>5. Yielded \cup {position} \subseteq Yielded'
    BY <1>4, <2>2, <2>3
  <2> QED
    BY <2>4, <2>5
<1>6. Place(R)'
  BY <1>0, <1>1, <1>3, <1>4 DEF Place
<1>7. Complete(R)'
  <2>1. \A i \in 0..(Count - 1) : i < position + 1 => i < position \/ i = position
    BY <1>3
  <2> QED
    BY <1>0, <1>1, <1>5, <2>1 DEF Complete
<1>8. Sound(R)'
  <2> SUFFICES ASSUME Distinct PROVE Sound(R)'
    BY <1>1 DEF Sound
  <2>1. \A i \in 0..(Count - 1) : position + 1 <= i => Hid(i) >= segments[1][1]
    <3>1. \A i \in 0..(Count - 1) : position + 1 <= i => position <= i
      BY <1>3
    <3> QED
      BY <1>0, <3>1 DEF Sound
  <2>2. InRanges(R, Hid(position))
    <3>1. Hid(position) >= segments[1][1] /\ Hid(position) \in Nat
      BY <1>0, <1>3, Items DEF Sound
    <3>2. segments[1][1] \in Nat /\ segments[1][2] \in Nat
      BY <1>2
    <3>3. Hid(position) \in segments[1][1]..segments[1][2]
      BY <1>3, <3>1, <3>2
    <3>4. Len(R) - Len(segments) + 1 \in 1..Len(R)
      BY <1>2
    <3> QED
      BY <1>2, <3>3, <3>4 DEF InRanges
  <2>3. \A i \in Yielded' : InRanges(R, Hid(i))
    BY <1>0, <1>5, <2>2 DEF Sound
  <2>4. \A j \in 1..(Len(found) + 1) : found'[j] < position + 1
    <3> SUFFICES ASSUME NEW j \in 1..(Len(found) + 1) PROVE found'[j] < position + 1
      OBVIOUS
    <3>1. CASE j \in 1..Len(found)
      <4>1. found[j] < position
        BY <1>0, <1>1, <1>4, <3>1 DEF Sound
      <4>2. found[j] \in Int
        BY <1>4, <3>1, FoundPlaces
      <4> QED
        BY <1>3, <1>4, <3>1, <4>1, <4>2
    <3>2. CASE j = Len(found) + 1
      BY <1>3, <1>4, <3>2
    <3> QED
      BY <1>4, <3>1, <3>2
  <2>5. ASSUME NEW j \in 1..(Len(found) + 1), NEW k \in 1..(Len(found) + 1), j < k
        PROVE  found'[j] < found'[k]
    <3>1. j \in 1..Len(found)
      BY <1>4, <2>5
    <3>2. CASE k \in 1..Len(found)
      BY <1>0, <1>4, <2>5, <3>1, <3>2 DEF Sound
    <3>3. CASE k = Len(found) + 1
      BY <1>0, <1>1, <1>4, <3>1, <3>3 DEF Sound
    <3> QED
      BY <1>4, <3>2, <3>3
  <2> QED
    BY <1>0, <1>1, <1>4, <2>1, <2>3, <2>4, <2>5 DEF Sound, InRanges
<1> QED
  BY <1>6, <1>7, <1>8 DEF Walking

\* When the walk leaves a range, no item of it is ahead.
LEMMA NextRangeWalks ==
  ASSUME NEW R \in Seq(Nat \X Nat), index \in Index, Walking(R), NextRange
  PROVE  Walking(R)'
<1>0. /\ Place(R) /\ Complete(R) /\ Sound(R) /\ at = "take" /\ ~InRange /\ at' = "seek"
      /\ startIndex' = position /\ segments' = Tail(segments)
      /\ UNCHANGED <<index, search, position, found>>
  BY DEF Walking, NextRange
<1>1. /\ Count' = Count /\ Distinct' = Distinct /\ (\A i : Hid(i)' = Hid(i))
      /\ Yielded' = Yielded /\ Here = position /\ Here' = position
  BY <1>0, SameItems DEF Yielded, Here
<1>2. PICK L, N : L = Len(segments) /\ N = Len(R)
  OBVIOUS
<1>3. /\ segments \in Seq(Nat \X Nat) /\ Head(segments) = segments[1]
      /\ L \in Nat /\ L >= 1 /\ N \in Nat /\ L <= N
      /\ segments' \in Seq(Nat \X Nat) /\ Len(segments') = L - 1
      /\ \A k \in 1..(L - 1) : segments'[k] = segments[k + 1]
  <2>1. segments \in Seq(Nat \X Nat) /\ segments # << >> /\ L <= N
    BY <1>0, <1>2 DEF Place
  <2> QED
    BY <1>0, <1>2, <2>1
<1>4. \A k \in 1..L : segments[k] = R[N - L + k]
  BY <1>0, <1>2 DEF Place
<1>5. Place(R)'
  <2>1. ASSUME NEW k \in 1..(L - 1) PROVE segments'[k] = R[N - (L - 1) + k]
    <3>0. L \in Nat /\ N \in Nat /\ L >= 1
      BY <1>3
    <3>1. k + 1 \in 1..L /\ N - (L - 1) + k = N - L + (k + 1)
      BY ONLY <3>0, k \in 1..(L - 1)
    <3> QED
      BY <1>3, <1>4, <3>1
  <2>2. L - 1 <= N
    BY <1>3
  <2>3. Len(segments') = L - 1 /\ segments' \in Seq(Nat \X Nat)
    BY <1>3
  <2> QED
    BY <1>0, <1>1, <1>2, <2>1, <2>2, <2>3 DEF Place
<1>6. \A i \in 0..(Count - 1) : Hid(i) \in segments[1][1]..segments[1][2] => i \in Yielded
  <2> SUFFICES ASSUME NEW i \in 0..(Count - 1), Hid(i) \in segments[1][1]..segments[1][2]
               PROVE  i \in Yielded
    OBVIOUS
  <2>1. i < position
    <3> SUFFICES ASSUME ~(i < position) PROVE FALSE
      OBVIOUS
    <3>1. Count \in Nat /\ position \in Nat
      BY <1>0, Items DEF Place
    <3>2. position <= i /\ position \in 0..(Count - 1) /\ position < Count
      BY <3>1
    <3>3. Hid(position) <= Hid(i) /\ Hid(position) \in Nat /\ Hid(i) \in Nat
      BY <3>2, Items
    <3>4. ~(Hid(position) <= segments[1][2]) /\ segments[1] \in Nat \X Nat
      BY <1>0, <1>2, <1>3, <3>2 DEF InRange
    <3> QED
      BY <3>3, <3>4
  <2>2. CASE i \in Yielded
    BY <2>2
  <2>3. CASE \A k \in 1..Len(segments) : Hid(i) < segments[k][1]
    <3>1. 1 \in 1..Len(segments) /\ segments[1] \in Nat \X Nat
      BY <1>2, <1>3
    <3>2. Hid(i) < segments[1][1] /\ Hid(i) \in Nat
      BY <2>3, <3>1, Items
    <3> QED
      BY <3>1, <3>2
  <2> QED
    BY <1>0, <1>1, <2>1, <2>2, <2>3 DEF Complete
<1>7. Complete(R)'
  <2>1. ASSUME NEW i \in 0..(Count - 1), NEW k \in 1..(N - (L - 1)), Hid(i) \in R[k][1]..R[k][2]
        PROVE  i \in Yielded
    <3>1. CASE k \in 1..(N - L)
      BY <1>0, <1>2, <2>1, <3>1 DEF Complete
    <3>2. CASE k = N - L + 1
      <4>1. R[k] = segments[1]
        BY <1>3, <1>4, <3>2
      <4> QED
        BY <1>6, <2>1, <4>1
    <3> QED
      BY <1>3, <3>1, <3>2
  <2>2. ASSUME NEW i \in 0..(Count - 1), i < position, i \notin Yielded, NEW k \in 1..(L - 1)
        PROVE  Hid(i) < segments'[k][1]
    <3>1. k + 1 \in 1..L /\ segments'[k] = segments[k + 1]
      BY <1>3
    <3> QED
      BY <1>0, <1>1, <1>2, <2>2, <3>1 DEF Complete
  <2>3. Len(segments') = L - 1
    BY <1>3
  <2> QED
    BY <1>1, <1>2, <2>1, <2>2, <2>3 DEF Complete
<1>8. Sound(R)'
  BY <1>0, <1>1 DEF Sound, InRanges
<1> QED
  BY <1>5, <1>7, <1>8 DEF Walking

\* Once begun, the walk keeps its invariant.
LEMMA NextWalks ==
  ASSUME NEW R \in Seq(Nat \X Nat), Ascending(R), index \in Index, Walking(R), [Next]_vars
  PROVE  Walking(R)'
<1>0. /\ Place(R) /\ Complete(R) /\ Sound(R) /\ at \in {"seek", "take", "done"}
  BY DEF Walking, Place
<1>1. CASE Finish
  <2>1. /\ Count' = Count /\ Distinct' = Distinct /\ (\A i : Hid(i)' = Hid(i))
        /\ Yielded' = Yielded /\ Here = startIndex /\ Here' = startIndex
    BY <1>1, SameItems DEF Yielded, Here, Finish
  <2>2. at' = "done" /\ segments = << >>
        /\ UNCHANGED <<index, search, segments, position, startIndex, found>>
    BY <1>1 DEF Finish
  <2>3. Place(R)'
    BY <1>0, <2>1, <2>2 DEF Place
  <2>4. Complete(R)'
    BY <1>0, <2>1, <2>2 DEF Complete
  <2>5. Sound(R)'
    BY <1>0, <2>1, <2>2 DEF Sound, InRanges
  <2> QED
    BY <2>3, <2>4, <2>5 DEF Walking
<1>2. CASE UNCHANGED vars
  <2>1. /\ Count' = Count /\ Distinct' = Distinct /\ (\A i : Hid(i)' = Hid(i))
        /\ Yielded' = Yielded /\ Here' = Here
    BY <1>2, SameItems DEF Yielded, Here, vars
  <2>2. Place(R)' /\ Complete(R)' /\ Sound(R)'
    BY <1>0, <1>2, <2>1 DEF Place, Complete, Sound, InRanges, vars
  <2> QED
    BY <2>2 DEF Walking
<1>3. CASE Seek
  BY <1>3, SeekWalks
<1>4. CASE Take
  BY <1>4, TakeWalks
<1>5. CASE NextRange
  BY <1>5, NextRangeWalks
<1> QED
  BY <1>0, <1>1, <1>2, <1>3, <1>4, <1>5
     DEF Next, GetRanges, Within, NearestNeighbours, NearestOfNone

-----------------------------------------------------------------------------
\* The walk begins with its invariant.
LEMMA WalkBegins ==
  ASSUME NEW R \in Seq(Nat \X Nat), index \in Index, Begins(R)
  PROVE  Walking(R)
<1>1. segments = R /\ Len(R) \in Nat /\ found = << >> /\ startIndex = 0 /\ at = "seek"
  BY DEF Begins
<1>2. Yielded = {} /\ Here = 0 /\ DOMAIN found = {} /\ found \in Seq(0..(Count - 1))
  BY <1>1 DEF Yielded, Here
<1>3. Place(R)
  <2>1. \A k \in 1..Len(R) : Len(R) - Len(R) + k = k
    BY <1>1
  <2> QED
    BY <1>1, <1>2, <2>1 DEF Place
<1>4. Complete(R)
  <2>1. 1..(Len(R) - Len(segments)) = {} /\ \A i \in 0..(Count - 1) : ~(i < 0)
    BY <1>1
  <2> QED
    BY <1>2, <2>1 DEF Complete
<1>5. Sound(R)
  BY <1>1, <1>2 DEF Sound
<1> QED
  BY <1>3, <1>4, <1>5 DEF Walking

\* At its end the invariant says what was yielded.
LEMMA WalkEnds ==
  ASSUME NEW R \in Seq(Nat \X Nat), Walking(R), at = "done"
  PROVE  YieldsExactly(R)
<1>1. segments = << >> /\ Len(R) - Len(segments) = Len(R)
  <2>1. segments = << >> /\ Len(R) \in Nat
    BY DEF Walking, Place
  <2> QED
    BY <2>1
<1>2. Complete(R) /\ Sound(R)
  BY DEF Walking
<1> QED
  BY <1>1, <1>2 DEF Complete, Sound, YieldsExactly, InRanges

\* HilbertIndex.cs:117-147, ExtractItems: whenever the loop begins on ranges in
\* ascending order, it ends having yielded every item of them, and of items with
\* distinct Hids nothing else, each once and in the order of the list.
THEOREM WalkExact ==
  ASSUME NEW CONSTANT R \in Seq(Nat \X Nat), Ascending(R)
  PROVE  Spec => [](Begins(R) => [](at = "done" => YieldsExactly(R)))
<1>1. index \in Index /\ Begins(R) => Walking(R)
  BY WalkBegins
<1>2. index \in Index /\ Walking(R) /\ [Next]_vars => Walking(R)'
  BY NextWalks
<1>3. Walking(R) => (at = "done" => YieldsExactly(R))
  BY WalkEnds
<1> QED
  BY <1>1, <1>2, <1>3, AlwaysIndex, PTL DEF Spec

-----------------------------------------------------------------------------
(* What is searched for *)

\* The ranges of a search, in the order they are walked.
Ranges(n, b) == OrderBy(GetRange(b, n, DefaultRangeCompactation))

\* A search of a box that is wrapped at most once walks its ranges.
Searching ==
    /\ at = "idle" => startIndex = 0 /\ found = << >> /\ search = NoSearch
    /\ at \in {"seek", "take", "done"} /\ search # NoSearch =>
         /\ search.kind = "within" => search.box \in BoxesOnGrid(index.n)
         /\ search.kind = "nearest" =>
              /\ search.center \in Grid(index.n)
              /\ \E j \in 0..(Count - 1) :
                   search.box = CreateBox1D(Encode(search.center, index.n), Hid(j), index.n)
         /\ Wraps(search.box, index.n) =>
              Begins(Ranges(index.n, search.box)) \/ Walking(Ranges(index.n, search.box))

\* The ranges walked ascend, and have the numbers of those GetRange gave.
LEMMA RangesWalked ==
  ASSUME NEW n \in {i.n : i \in Index}, NEW b, Wraps(b, n)
  PROVE  LET R == Ranges(n, b)
             codes == {Encode(c, n) : c \in CellsOfAll(WrapOverlap(b, n))}
         IN  /\ R \in Seq(Nat \X Nat) /\ Ascending(R)
             /\ \A d \in codes : InRanges(R, d)
             /\ Len(GetRange(b, n, 0)) <= DefaultRangeCompactation =>
                  \A d \in Nat : InRanges(R, d) => d \in codes
<1>1. PICK K, R : K = GetRange(b, n, DefaultRangeCompactation) /\ R = OrderBy(K)
  OBVIOUS
<1>2. n \in Sides /\ 2 * (n * n) <= ULong /\ Wraps(b, n)
      /\ DefaultRangeCompactation \in Nat \ {0, 1}
  BY IndexSide, IndexAssumption
<1> DEFINE codes == {Encode(c, n) : c \in CellsOfAll(WrapOverlap(b, n))}
<1>3. /\ K \in RangeLists /\ codes \subseteq Numbers(K)
      /\ Len(GetRange(b, n, 0)) <= DefaultRangeCompactation => Numbers(K) = codes
  BY <1>1, <1>2, GetRangeOfParts
<1> HIDE DEF codes
<1>4. /\ R \in Seq(Nat \X Nat) /\ Len(R) = Len(K) /\ Ascending(R)
      /\ \A k \in 1..Len(K) : \E j \in 1..Len(K) : R[k] = K[j]
      /\ \A j \in 1..Len(K) : \E k \in 1..Len(K) : R[k] = K[j]
  <2>1. PICK T : T = Nat \X Nat
    OBVIOUS
  <2>2. K \in Seq(T) /\ \A t \in T : t[1] \in Nat
    BY <1>3, <2>1 DEF RangeLists
  <2>3. /\ OrderBy(K) \in Seq(T) /\ Len(OrderBy(K)) = Len(K) /\ Ascending(OrderBy(K))
        /\ \A k \in 1..Len(K) : \E j \in 1..Len(K) : OrderBy(K)[k] = K[j]
        /\ \A j \in 1..Len(K) : \E k \in 1..Len(K) : OrderBy(K)[k] = K[j]
    BY ONLY <2>2, OrderByIs
  <2> QED
    BY <1>1, <2>1, <2>3
<1>5. \A k \in 1..Len(K) : K[k][1] \in Nat /\ K[k][2] \in Nat
  BY <1>3, ListParts
<1>6. ASSUME NEW d \in Nat PROVE InRanges(R, d) <=> d \in Numbers(K)
  <2>1. ASSUME NEW k \in 1..Len(R), d \in R[k][1]..R[k][2] PROVE d \in Numbers(K)
    <3>1. PICK j \in 1..Len(K) : R[k] = K[j]
      BY <1>4
    <3>2. K[j][1] <= d /\ d <= K[j][2]
      BY <1>5, <2>1, <3>1
    <3> QED
      BY <3>2 DEF Numbers
  <2>2. ASSUME NEW j \in 1..Len(K), K[j][1] <= d, d <= K[j][2] PROVE InRanges(R, d)
    <3>1. PICK k \in 1..Len(K) : R[k] = K[j]
      BY <1>4
    <3>2. d \in R[k][1]..R[k][2] /\ k \in 1..Len(R)
      BY <1>4, <1>5, <2>2, <3>1
    <3> QED
      BY <3>2 DEF InRanges
  <2> QED
    BY <2>1, <2>2 DEF InRanges, Numbers
<1>7. \A d \in codes : InRanges(R, d)
  <2>1. \A d \in Numbers(K) : d \in Nat
    BY DEF Numbers
  <2> QED
    BY <1>3, <1>6, <2>1
<1>8. Len(GetRange(b, n, 0)) <= DefaultRangeCompactation =>
        \A d \in Nat : InRanges(R, d) => d \in codes
  BY <1>3, <1>6
<1>9. R = Ranges(n, b)
  BY <1>1 DEF Ranges
<1> QED
  BY <1>1, <1>4, <1>7, <1>8, <1>9 DEF codes

\* The boxes searched for are boxes of the grid's cells.
LEMMA BoxesIn ==
  ASSUME NEW n \in Nat \ {0}, NEW b \in BoxesOnGrid(n)
  PROVE  b \in OnGrid(n)
<1>1. PICK c \in Grid(n), p \in 1..n, q \in 1..n : b = HilbertEnvelope(c.x, c.y, p, q)
  BY DEF BoxesOnGrid, Boxes
<1>2. c.x \in Nat /\ c.y \in Nat
  BY DEF Grid, Cell
<1>3. p \in Nat \ {0} /\ q \in Nat \ {0}
  OBVIOUS
<1>4. b = [x |-> c.x, y |-> c.y, p |-> p, q |-> q]
  BY <1>1, <1>3, Envelope
<1>5. MaxX(b) <= n /\ MaxY(b) <= n
  BY DEF BoxesOnGrid
<1> QED
  BY <1>2, <1>3, <1>4, <1>5 DEF OnGrid, Fits, MaxX, MaxY

\* NearestNeighbours measures its box by an item.
LEMMA NeighbourIs ==
  ASSUME index \in Index, Count > 0, NEW search1D, NEW i \in BinarySearch(0, search1D)
  PROVE  \E j \in 0..(Count - 1) : Neighbour1D(search1D, i) = Hid(j)
<1> DEFINE matches == {k \in 0..(Count - 1) : Hid(k) = search1D}
           smaller == {k \in 0..(Count - 1) : Hid(k) < search1D}
<1>1. Count \in Nat
  BY Items
<1>2. CASE matches # {}
  <2>1. i \in 0..(Count - 1) /\ i > -1
    BY <1>1, <1>2 DEF BinarySearch
  <2> QED
    BY <2>1 DEF Neighbour1D
<1>3. CASE matches = {}
  <2>1. PICK c : c = Cardinality(smaller)
    OBVIOUS
  <2>2. IsFiniteSet(0..(Count - 1))
    BY <1>1, FS_Interval
  <2>3. c \in Nat
    BY <2>1, <2>2, FS_Subset, FS_CardinalityType
  <2>4. i = -(0 + c) - 1
    BY <1>3, <2>1 DEF BinarySearch
  <2>5. ~(i > -1) /\ Complement(i) = c
    BY <2>3, <2>4 DEF Complement
  <2>6. CASE c >= Count - 1
    <3>1. Neighbour1D(search1D, i) = Hid(Count - 1)
      BY <2>5, <2>6 DEF Neighbour1D
    <3>2. Count - 1 \in 0..(Count - 1)
      BY <1>1
    <3> QED
      BY <3>1, <3>2
  <2>7. CASE ~(c >= Count - 1)
    <3>1. Neighbour1D(search1D, i) = Hid(c) \/ Neighbour1D(search1D, i) = Hid(c + 1)
      BY <2>5, <2>7 DEF Neighbour1D
    <3>2. c \in 0..(Count - 1) /\ c + 1 \in 0..(Count - 1)
      BY <1>1, <2>3, <2>7
    <3> QED
      BY <3>1, <3>2
  <2> QED
    BY <2>6, <2>7
<1> QED
  BY <1>2, <1>3

\* Every step keeps the search and its walk.
LEMMA SearchingStep ==
  ASSUME index \in Index, Searching, [Next]_vars
  PROVE  Searching'
<1>1. PICK n : n = index.n
  OBVIOUS
<1>2. CASE GetRanges
  <2>1. at' = "ranges"
    BY <1>2 DEF GetRanges
  <2> QED
    BY <2>1 DEF Searching
<1>3. CASE Within
  <2>1. at = "idle" /\ startIndex = 0 /\ found = << >>
    BY <1>3 DEF Within, Searching
  <2>2. PICK b \in BoxesOnGrid(index.n) :
          /\ search' = Asks("within", b, Cell(b.x, b.y), DefaultRangeCompactation)
          /\ segments' = OrderBy(CoverOf[index.n][b][DefaultRangeCompactation])
          /\ at' = "seek" /\ UNCHANGED <<index, position, startIndex, found>>
    BY <1>3 DEF Within, Walk
  <2>3. CoverOf[index.n][b][DefaultRangeCompactation]
          = GetRange(b, index.n, DefaultRangeCompactation)
    <3>1. index.n \in {i.n : i \in Index}
      OBVIOUS
    <3> QED
      BY <3>1 DEF CoverOf
  <2>4. search'.kind = "within" /\ search'.box = b /\ search'.kind # "nearest"
    BY <2>2 DEF Asks
  <2>5. segments' = Ranges(index'.n, search'.box)
    BY <2>2, <2>3, <2>4 DEF Ranges
  <2>6. Begins(Ranges(index.n, search.box))'
    BY <2>1, <2>2, <2>5 DEF Begins
  <2> QED
    BY <2>2, <2>4, <2>6 DEF Searching
<1>4. CASE NearestNeighbours
  <2>1. at = "idle" /\ startIndex = 0 /\ found = << >> /\ Count > 0
    BY <1>4 DEF NearestNeighbours, Searching
  <2>2. PICK c \in Grid(index.n) :
          \E i \in BinarySearch(0, Encode(c, index.n)) :
            LET b == CreateBox1D(Encode(c, index.n), Neighbour1D(Encode(c, index.n), i), index.n)
            IN  /\ search' = Asks("nearest", b, c, DefaultRangeCompactation)
                /\ Walk(GetRange(b, index.n, DefaultRangeCompactation))
    BY <1>4 DEF NearestNeighbours
  <2>3. PICK i \in BinarySearch(0, Encode(c, index.n)) : \E b :
          /\ b = CreateBox1D(Encode(c, index.n), Neighbour1D(Encode(c, index.n), i), index.n)
          /\ search' = Asks("nearest", b, c, DefaultRangeCompactation)
          /\ segments' = OrderBy(GetRange(b, index.n, DefaultRangeCompactation))
          /\ at' = "seek" /\ UNCHANGED <<index, position, startIndex, found>>
    BY <2>2 DEF Walk
  <2>4. PICK b :
          /\ b = CreateBox1D(Encode(c, index.n), Neighbour1D(Encode(c, index.n), i), index.n)
          /\ search' = Asks("nearest", b, c, DefaultRangeCompactation)
          /\ segments' = OrderBy(GetRange(b, index.n, DefaultRangeCompactation))
          /\ at' = "seek" /\ UNCHANGED <<index, position, startIndex, found>>
    BY <2>3
  <2>5. PICK j \in 0..(Count - 1) : Neighbour1D(Encode(c, index.n), i) = Hid(j)
    BY <2>1, NeighbourIs
  <2>6. /\ search'.kind = "nearest" /\ search'.box = b /\ search'.center = c
        /\ search'.kind # "within"
    BY <2>4 DEF Asks
  <2>7. segments' = Ranges(index'.n, search'.box)
    BY <2>4, <2>6 DEF Ranges
  <2>8. Begins(Ranges(index.n, search.box))'
    BY <2>1, <2>4, <2>7 DEF Begins
  <2>9. /\ search'.center \in Grid(index'.n)
        /\ search'.box = CreateBox1D(Encode(search'.center, index'.n), Hid(j)', index'.n)
        /\ j \in 0..(Count' - 1)
    BY <2>4, <2>5, <2>6, SameItems
  <2> QED
    BY <2>4, <2>6, <2>8, <2>9 DEF Searching
<1>5. CASE NearestOfNone
  BY <1>5 DEF NearestOfNone, Searching
<1>6. CASE at \in {"seek", "take", "done"} /\ UNCHANGED <<index, search>>
  <2>1. at' \in {"seek", "take", "done"}
    BY <1>6 DEF Next, GetRanges, Within, NearestNeighbours, NearestOfNone, Seek, Take, NextRange,
                Finish, vars
  <2> SUFFICES ASSUME search # NoSearch PROVE Searching'
    BY <1>6, <2>1 DEF Searching
  <2>2. Count' = Count /\ \A i : Hid(i)' = Hid(i)
    BY <1>6, SameItems
  <2>3. PICK b : b = search.box
    OBVIOUS
  <2>4. ASSUME Wraps(b, n) PROVE Walking(Ranges(index.n, search.box))'
    <3>1. PICK R : R = Ranges(n, b)
      OBVIOUS
    <3>2. R \in Seq(Nat \X Nat) /\ Ascending(R)
      <4>1. n \in {i.n : i \in Index}
        BY <1>1
      <4> QED
        BY ONLY <2>4, <3>1, <4>1, RangesWalked
    <3>3. Begins(R) \/ Walking(R)
      BY <1>1, <1>6, <2>3, <2>4, <3>1 DEF Searching
    <3>4. Walking(R)
      BY <3>2, <3>3, WalkBegins
    <3>5. Walking(R)'
      BY <3>2, <3>4, NextWalks
    <3>6. R = Ranges(index'.n, search'.box)
      BY <1>1, <1>6, <2>3, <3>1
    <3> QED
      BY <3>5, <3>6
  <2> QED
    BY <1>1, <1>6, <2>1, <2>2, <2>3, <2>4 DEF Searching
<1>7. CASE UNCHANGED vars /\ at \notin {"seek", "take", "done"}
  BY <1>7 DEF Searching, vars
<1>8. Seek \/ Take \/ NextRange \/ Finish => at \in {"seek", "take"} /\ UNCHANGED <<index, search>>
  BY DEF Seek, Take, NextRange, Finish
<1> QED
  BY <1>2, <1>3, <1>4, <1>5, <1>6, <1>7, <1>8 DEF Next, vars

\* An item's cell is the one its Hid stands for.
LEMMA ItemCells ==
  ASSUME index \in Index, NEW i \in 0..(Count - 1)
  PROVE  /\ ItemCell(i) \in Grid(index.n) /\ Encode(ItemCell(i), index.n) = Hid(i)
         /\ ItemCell(i) = DecodeToPoint(index.n, Hid(i))
<1>1. Hid(i) \in 0..(index.n * index.n - 1)
  <2>1. PICK H, S : H = index.hids /\ S = 0..(index.n * index.n - 1)
    OBVIOUS
  <2>2. H \in Seq(S)
    BY <2>1, IndexAssumption
  <2>3. i \in 0..(Len(H) - 1)
    BY <2>1 DEF Count
  <2>4. Len(H) \in Nat /\ \A k \in 1..Len(H) : H[k] \in S
    BY ONLY <2>2
  <2>5. i + 1 \in 1..Len(H)
    BY <2>3, <2>4
  <2> QED
    BY <2>1, <2>4, <2>5 DEF Hid
<1>2. ItemCell(i) = DecodeToPoint(index.n, Hid(i))
  BY <1>1, Tables DEF ItemCell
<1> QED
  BY <1>1, <1>2, IndexSide, DecodeInverts

\* HilbertIndex.cs:28-42, Within: for every index and every box of cells, also one that is
\* wrapped or compacted, the walk yields every item of the box but those in the last row
\* or column of the grid, and of items with distinct Hids each once, in order, and nothing
\* else unless the ranges had to be compacted.
THEOREM FoundExact == Spec => []FoundExactly
<1>1. Init => Searching
  BY DEF Init, Searching
<1>2. index \in Index /\ Searching => FoundExactly
  <2> SUFFICES ASSUME index \in Index, Searching,
                      at = "done", search # NoSearch, search.kind = "within"
               PROVE  FoundExactly
    BY DEF FoundExactly
  <2>1. PICK n, b : n = index.n /\ b = search.box
    OBVIOUS
  <2>2. n \in Sides /\ n \in Nat \ {0} /\ b \in BoxesOnGrid(n)
    BY <2>1, IndexSide DEF Searching
  <2>3. b \in OnGrid(n) /\ Wraps(b, n)
    BY <2>2, BoxesIn, OnGridWraps
  <2>4. PICK R : R = Ranges(n, b)
    OBVIOUS
  <2> DEFINE P == WrapOverlap(b, n)
             W == Wrapped(b, n)
             codes == {Encode(c, n) : c \in CellsOfAll(P)}
             few == Len(GetRange(b, n, 0)) <= DefaultRangeCompactation
  <2>5. /\ R \in Seq(Nat \X Nat) /\ Ascending(R) /\ \A d \in codes : InRanges(R, d)
        /\ few => \A d \in Nat : InRanges(R, d) => d \in codes
    <3>1. n \in {i.n : i \in Index}
      BY <2>1
    <3> QED
      BY ONLY <2>3, <2>4, <3>1, RangesWalked DEF codes, few, P
  <2>6. CellsOfAll(P) = CellsOfAll(W)
    BY <2>2, <2>3, OverlapIs
  <2>7. few <=> Len(CoverOf[index.n][search.box][0]) <= DefaultRangeCompactation
    <3>1. CoverOf[n][b][0] = GetRange(b, n, 0)
      <4>1. n \in {i.n : i \in Index} /\ 0 \in MaxRanges \cup {0, DefaultRangeCompactation}
        BY <2>1
      <4> QED
        BY <2>2, <4>1 DEF CoverOf
    <3> QED
      BY <2>1, <3>1
  <2> HIDE DEF codes, few, P, W
  <2>8. Walking(R)
    BY <2>1, <2>3, <2>4 DEF Searching, Begins
  <2>9. YieldsExactly(R)
    BY <2>5, <2>8, WalkEnds
  <2>10. ASSUME NEW i \in 0..(Count - 1), ItemCell(i) \in OnGlobe(search.box)
         PROVE  i \in Yielded
    <3>1. PICK c \in CellsOf(b) : c.y \in 0..(n - 2) /\ ItemCell(i) = Cell(c.x % (n - 1), c.y)
      BY <2>1, <2>10 DEF OnGlobe
    <3>2. \E k \in DOMAIN W : ItemCell(i) \in CellsOf(W[k])
      BY <2>2, <2>3, <3>1, WrappedCovers DEF W
    <3>3. ItemCell(i) \in CellsOfAll(P)
      BY <2>6, <3>2 DEF CellsOfAll
    <3>4. Hid(i) = Encode(ItemCell(i), n)
      BY <2>1, ItemCells
    <3>5. Hid(i) \in codes
      BY <3>3, <3>4 DEF codes
    <3> QED
      BY <2>5, <2>9, <3>5 DEF YieldsExactly
  <2>11. ASSUME few, Distinct, NEW i \in Yielded
         PROVE  \E c \in CellsOf(search.box) :
                   ItemCell(i) \in {c, Cell(c.x % (index.n - 1), c.y)}
    <3>1. InRanges(R, Hid(i))
      BY <2>9, <2>11 DEF YieldsExactly
    <3>2. i \in 0..(Count - 1)
      <4>1. found \in Seq(0..(Count - 1))
        BY <2>8 DEF Walking, Place
      <4>2. PICK S, f : S = 0..(Count - 1) /\ f = found
        OBVIOUS
      <4>3. f \in Seq(S)
        BY <4>1, <4>2
      <4>4. \A k \in DOMAIN f : f[k] \in S
        BY ONLY <4>3
      <4> QED
        BY <4>2, <4>4 DEF Yielded
    <3>3. Hid(i) \in Nat
      BY <3>2, Items
    <3>4. PICK e \in CellsOfAll(P) : Hid(i) = Encode(e, n)
      BY <2>5, <2>11, <3>1, <3>3 DEF codes
    <3>5. PICK k \in DOMAIN W : e \in CellsOf(W[k])
      BY <2>6 DEF CellsOfAll
    <3>6. e \in Grid(n)
      <4>1. PICK j \in DOMAIN P : e \in CellsOf(P[j])
        BY DEF CellsOfAll
      <4>2. P[j] \in OnGrid(n)
        BY <2>2, <2>3, <4>1, OverlapIs DEF P
      <4> QED
        BY <2>2, <4>1, <4>2, OnGridCells
    <3>7. ItemCell(i) = e
      BY <2>1, <2>2, <3>2, <3>4, <3>6, ItemCells, EncodeInverts
    <3> QED
      BY <2>1, <2>2, <2>3, <3>5, <3>7, WrappedOnly DEF W
  <2>12. Distinct => \A j, k \in DOMAIN found : j < k => found[j] < found[k]
    BY <2>9 DEF YieldsExactly
  <2> QED
    BY <2>7, <2>10, <2>11, <2>12 DEF FoundExactly
<1> QED
  BY <1>1, <1>2, AlwaysIndex, SearchingStep, PTL DEF Spec

\* Math.Ceiling(Math.Sqrt(d)) is a root of at least d.
LEMMA RootOf ==
  ASSUME NEW d \in Nat
  PROVE  CeilRoot(d) \in Nat /\ CeilRoot(d) * CeilRoot(d) >= d
<1> DEFINE T == {h \in 0..d : h * h >= d}
           Least(h) == h * h >= d /\ \A k \in 0..(h - 1) : k * k < d
<1>1. d \in T /\ T \in SUBSET Nat
  <2>1. d * d >= d
    OBVIOUS
  <2> QED
    BY <2>1
<1>2. PICK h \in T : \A k \in T : h <= k
  <2> HIDE DEF T
  <2> QED
    BY <1>1, LeastElement
<1>3. h \in 0..d /\ Least(h)
  <2>1. ASSUME NEW k \in 0..(h - 1) PROVE k * k < d
    <3>1. k \notin T /\ k \in 0..d
      BY <1>2
    <3>2. k * k \in Nat
      OBVIOUS
    <3> QED
      BY <3>1, <3>2
  <2> QED
    BY <1>2, <2>1
<1>4. \E k \in 0..d : Least(k)
  BY <1>3
<1>5. CeilRoot(d) = CHOOSE k \in 0..d : Least(k)
  BY DEF CeilRoot
<1> HIDE DEF Least
<1>6. CeilRoot(d) \in 0..d /\ Least(CeilRoot(d))
  BY <1>4, <1>5
<1> QED
  BY <1>6 DEF Least

\* A number whose square is no larger is no larger.
LEMMA RootBounds ==
  ASSUME NEW a \in Int, NEW h \in Nat, a * a <= h * h
  PROVE  -h <= a /\ a <= h
<1>1. \A u \in Nat : u > h => u * u > h * h
  OBVIOUS
<1>2. ASSUME a > h PROVE FALSE
  BY <1>1, <1>2
<1>3. ASSUME a < -h PROVE FALSE
  <2>1. -a \in Nat /\ -a > h
    BY <1>3
  <2>2. (-a) * (-a) = a * a
    OBVIOUS
  <2>3. (-a) * (-a) > h * h
    BY <1>1, <2>1
  <2> QED
    BY <2>2, <2>3
<1> QED
  BY <1>2, <1>3

\* The box of NearestNeighbours has all cells that are no farther away than the item it was
\* measured by, when it fits the grid.
LEMMA BoxAround ==
  ASSUME NEW n \in Sides, NEW c \in Grid(n), NEW hid \in 0..(n * n - 1),
         NEW b, b = CreateBox1D(Encode(c, n), hid, n), 2 * (c.x - b.x) + 1 <= n - 1
  PROVE  /\ Wraps(b, n)
         /\ \A e \in Grid(n) :
              Squared(c, e) <= Squared(c, DecodeToPoint(n, hid)) => e \in CellsOf(b)
<1>1. n \in Nat \ {0}
  BY SidesDouble
<1>2. PICK o : o = DecodeToPoint(n, hid)
  OBVIOUS
<1>3. o \in Grid(n) /\ DecodeToPoint(n, Encode(c, n)) = c
  BY <1>2, DecodeInverts, EncodeInverts
<1>4. /\ c.x \in 0..(n - 1) /\ c.y \in 0..(n - 1) /\ o.x \in 0..(n - 1) /\ o.y \in 0..(n - 1)
      /\ \A e \in Grid(n) : e.x \in 0..(n - 1) /\ e.y \in 0..(n - 1) /\ e = Cell(e.x, e.y)
  BY <1>1, <1>3 DEF Grid, Cell
<1>5. PICK d : d = Squared(c, o)
  OBVIOUS
<1>6. d \in Nat
  <2>1. \A a \in Int : a * a \in Nat
    OBVIOUS
  <2>2. c.x - o.x \in Int /\ c.y - o.y \in Int
    BY <1>1, <1>4
  <2> QED
    BY <1>5, <2>1, <2>2 DEF Squared
<1>7. PICK h : h = CeilRoot(d)
  OBVIOUS
<1>8. h \in Nat /\ h * h >= d
  BY <1>6, <1>7, RootOf
<1> DEFINE hw == Lesser(h, n - 1)
           size == Lesser(hw * 2 + 1, n - 1)
<1>9. b = HilbertEnvelope(c.x - hw, c.y - hw, size, size)
  BY <1>2, <1>3, <1>5, <1>7 DEF CreateBox1D
<1>10. b.x = c.x - hw
  BY <1>9 DEF HilbertEnvelope
<1>11. hw = h /\ 2 * h + 1 <= n - 1 /\ size = 2 * h + 1
  <2>1. hw \in Nat
    BY <1>1, <1>8 DEF Lesser
  <2>2. 2 * hw + 1 <= n - 1
    <3> HIDE DEF hw
    <3> QED
      BY <1>1, <1>4, <1>10, <2>1
  <2>3. hw = h
    BY <1>1, <1>8, <2>2 DEF Lesser
  <2> HIDE DEF hw
  <2> QED
    BY <1>1, <1>8, <2>2, <2>3 DEF Lesser
<1> HIDE DEF hw, size
<1>12. b = [x |-> c.x - h, y |-> c.y - h, p |-> 2 * h + 1, q |-> 2 * h + 1]
  <2>1. 2 * h + 1 \in Nat \ {0}
    BY <1>8
  <2> QED
    BY <1>9, <1>11, <2>1, Envelope
<1>13. b.x = c.x - h /\ b.y = c.y - h /\ b.p = 2 * h + 1 /\ b.q = 2 * h + 1
       /\ MaxX(b) = c.x + h + 1 /\ MaxY(b) = c.y + h + 1
  <2>1. b.x = c.x - h /\ b.y = c.y - h /\ b.p = 2 * h + 1 /\ b.q = 2 * h + 1
    BY <1>12
  <2> QED
    BY <1>1, <1>4, <1>8, <2>1 DEF MaxX, MaxY
<1>14. Wraps(b, n)
  <2>1. b \in [x : Int, y : Int, p : Nat \ {0}, q : Nat \ {0}]
    <3>1. c.x - h \in Int /\ c.y - h \in Int /\ 2 * h + 1 \in Nat \ {0}
      BY <1>1, <1>4, <1>8
    <3> QED
      BY <1>12, <3>1
  <2>2. b.x <= n - 1 /\ b.y <= n - 1 /\ MaxX(b) > 0 /\ MaxY(b) > 0
    BY <1>1, <1>4, <1>8, <1>13
  <2>3. b.x < 0 => MaxX(b) <= n - 1 /\ b.q <= n - 1
    BY <1>1, <1>4, <1>8, <1>11, <1>13
  <2>4. b.x >= 0 => MaxX(b) <= n \/ MaxX(b) <= 2 * (n - 1)
    BY <1>1, <1>4, <1>8, <1>11, <1>13
  <2>5. b.y < 0 => MaxY(b) <= n - 1
    BY <1>1, <1>4, <1>8, <1>11, <1>13
  <2> QED
    BY <2>1, <2>2, <2>3, <2>4, <2>5 DEF Wraps
<1>15. ASSUME NEW e \in Grid(n), Squared(c, e) <= d PROVE e \in CellsOf(b)
  <2>1. PICK u, v : u = c.x - e.x /\ v = c.y - e.y
    OBVIOUS
  <2>2. u \in Int /\ v \in Int /\ e.x = c.x - u /\ e.y = c.y - v
    BY <1>1, <1>4, <2>1
  <2>3. u * u + v * v <= h * h
    <3>1. Squared(c, e) = u * u + v * v
      BY <2>1 DEF Squared
    <3>2. u * u \in Int /\ v * v \in Int /\ h * h \in Int
      BY <1>8, <2>2
    <3> QED
      BY <1>6, <1>8, <1>15, <3>1, <3>2
  <2>4. u * u \in Nat /\ v * v \in Nat /\ h * h \in Nat
    BY <1>8, <2>2
  <2>5. u * u <= h * h /\ v * v <= h * h
    BY <2>3, <2>4
  <2>6. -h <= u /\ u <= h /\ -h <= v /\ v <= h
    BY <1>8, <2>2, <2>5, RootBounds
  <2>7. e.x \in b.x..(MaxX(b) - 1) /\ e.y \in b.y..(MaxY(b) - 1)
    BY <1>1, <1>4, <1>8, <1>13, <2>2, <2>6
  <2> QED
    BY <1>4, <2>7, CellsIn
<1> QED
  BY <1>2, <1>5, <1>14, <1>15

\* HilbertIndex.cs:67-100, NearestNeighbours: for every index and every position, the items
\* nearest to it are yielded, unless they are in the last row or column of the grid or the box
\* does not fit it.
THEOREM NearestExact == Spec => []NearestFound
<1>1. Init => Searching
  BY DEF Init, Searching
<1>2. index \in Index /\ Searching => NearestFound
  <2> SUFFICES ASSUME index \in Index, Searching,
                      at = "done", search # NoSearch, search.kind = "nearest",
                      2 * (search.center.x - search.box.x) + 1 <= index.n - 1,
                      NEW i \in 0..(Count - 1),
                      ItemCell(i).x < index.n - 1, ItemCell(i).y < index.n - 1,
                      \A j \in 0..(Count - 1) :
                         Squared(search.center, ItemCell(i)) <= Squared(search.center, ItemCell(j))
               PROVE  i \in Yielded
    BY DEF NearestFound
  <2>1. PICK n, b, c : n = index.n /\ b = search.box /\ c = search.center
    OBVIOUS
  <2>2. n \in Sides /\ n \in Nat \ {0} /\ c \in Grid(n)
    BY <2>1, IndexSide DEF Searching
  <2>3. PICK j \in 0..(Count - 1) : b = CreateBox1D(Encode(c, n), Hid(j), n)
    BY <2>1 DEF Searching
  <2>4. /\ ItemCell(i) \in Grid(n) /\ Encode(ItemCell(i), n) = Hid(i)
        /\ ItemCell(j) \in Grid(n) /\ Encode(ItemCell(j), n) = Hid(j)
        /\ ItemCell(j) = DecodeToPoint(n, Hid(j))
    BY <2>1, ItemCells
  <2>5. Hid(j) \in 0..(n * n - 1)
    BY <2>2, <2>4, EncodeInverts
  <2>6. /\ Wraps(b, n)
        /\ \A e \in Grid(n) :
             Squared(c, e) <= Squared(c, DecodeToPoint(n, Hid(j))) => e \in CellsOf(b)
    BY ONLY <2>1, <2>2, <2>3, <2>5, BoxAround,
            2 * (search.center.x - search.box.x) + 1 <= index.n - 1
  <2>7. ItemCell(i) \in CellsOf(b)
    BY <2>1, <2>4, <2>6
  <2>8. PICK u, v : u \in 0..(n - 2) /\ v \in 0..(n - 2) /\ ItemCell(i) = Cell(u, v)
    <3>1. PICK u \in 0..(n - 1), v \in 0..(n - 1) : ItemCell(i) = Cell(u, v)
      BY <2>4 DEF Grid
    <3>2. u < n - 1 /\ v < n - 1
      BY <2>1, <3>1 DEF Cell
    <3> QED
      BY <2>2, <3>1, <3>2
  <2>9. u % (n - 1) = u
    <3>1. n - 1 \in Nat \ {0} /\ u \in Int /\ 0 <= u /\ u < n - 1
      BY <2>2, <2>8
    <3> QED
      BY <3>1, Around
  <2>10. \E k \in DOMAIN Wrapped(b, n) : ItemCell(i) \in CellsOf(Wrapped(b, n)[k])
    <3>1. Cell(u, v).x = u /\ Cell(u, v).y = v
      BY DEF Cell
    <3>2. Cell(u, v) \in CellsOf(b) /\ Cell(u, v).y \in 0..(n - 2)
      BY <2>7, <2>8, <3>1
    <3>3. \E k \in DOMAIN Wrapped(b, n) :
             Cell(Cell(u, v).x % (n - 1), Cell(u, v).y) \in CellsOf(Wrapped(b, n)[k])
      BY ONLY <2>2, <2>6, <3>2, WrappedCovers
    <3> QED
      BY <2>8, <2>9, <3>1, <3>3
  <2>11. ItemCell(i) \in CellsOfAll(WrapOverlap(b, n))
    <3>1. CellsOfAll(WrapOverlap(b, n)) = CellsOfAll(Wrapped(b, n))
      BY <2>2, <2>6, OverlapIs
    <3> QED
      BY <2>10, <3>1 DEF CellsOfAll
  <2>12. PICK R : R = Ranges(n, b)
    OBVIOUS
  <2> DEFINE codes == {Encode(e, n) : e \in CellsOfAll(WrapOverlap(b, n))}
  <2>13. R \in Seq(Nat \X Nat) /\ \A d \in codes : InRanges(R, d)
    <3>1. n \in {k.n : k \in Index}
      BY <2>1
    <3> QED
      BY ONLY <2>6, <2>12, <3>1, RangesWalked
  <2>14. Hid(i) \in codes
    BY <2>4, <2>11
  <2> HIDE DEF codes
  <2>15. Walking(R)
    BY <2>1, <2>6, <2>12 DEF Searching, Begins
  <2>16. YieldsExactly(R)
    BY <2>13, <2>15, WalkEnds
  <2> QED
    BY <2>13, <2>14, <2>16 DEF YieldsExactly
<1> QED
  BY <1>1, <1>2, AlwaysIndex, SearchingStep, PTL DEF Spec

=============================================================================
