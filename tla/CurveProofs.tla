---------------------------- MODULE CurveProofs -----------------------------
(***************************************************************************)
(* What the operators of the crate compute, for every curve that meets     *)
(* the contract and every width: from the laws of module PointLaws to the  *)
(* loops (the ladder of scalar_mul_ct, double_scalar_mul), the blinders,   *)
(* and with them the functions the components are made of:                 *)
(*   - integers, powers of two and octets;                                 *)
(*   - points: multiples, the ladder, the blinders, SharedX and the        *)
(*     verifying key;                                                      *)
(*   - signatures: Accepts accepts those of the textbook and no others,    *)
(*     and Signature is the textbook pair, whatever its blinders.          *)
(***************************************************************************)
EXTENDS SignOps, PointLaws, WellFoundedInduction, TLAPS

-----------------------------------------------------------------------------
(***************************************************************************)
(* Integers, powers of two and octets.  Induction over the naturals takes  *)
(* the form of a set: the library's theorems take an operator, the minimum *)
(* of a well-founded set does not.                                         *)
(***************************************************************************)

\* A set of naturals that has 0 and the successors of its members has them all.
LEMMA NatInductionSet ==
  ASSUME NEW T \in SUBSET Nat, 0 \in T, \A n \in T : n + 1 \in T
  PROVE  T = Nat
<1> DEFINE Bad == Nat \ T
<1> SUFFICES ASSUME Bad # {} PROVE FALSE
  OBVIOUS
<1>1. IsWellFoundedOn(OpToRel(<, Nat), Nat) /\ Bad \subseteq Nat
  BY NatLessThanWellFounded
<1> HIDE DEF Bad
<1>2. PICK x \in Bad : \A y \in Bad : ~(<<y, x>> \in OpToRel(<, Nat))
  BY <1>1, WFMin, Zenon
<1>3. x \in Nat /\ x - 1 \in Nat /\ x - 1 < x
  BY DEF Bad
<1>4. <<x - 1, x>> \in OpToRel(<, Nat)
  BY <1>3 DEF OpToRel
<1>5. x - 1 \in T
  BY <1>2, <1>3, <1>4 DEF Bad
<1>6. (x - 1) + 1 \in T
  BY <1>5
<1>7. x \in T
  BY <1>3, <1>6
<1>8. QED
  BY <1>7 DEF Bad

-----------------------------------------------------------------------------
(* Division                                                                *)

\* Euclidean division.
LEMMA DivMod == ASSUME NEW a \in Int, NEW m \in Nat \ {0}
  PROVE  /\ a \div m \in Int /\ a % m \in 0 .. m - 1
         /\ a = m * (a \div m) + (a % m)
OBVIOUS

LEMMA DivModNat == ASSUME NEW a \in Nat, NEW m \in Nat \ {0}
  PROVE  a \div m \in Nat
OBVIOUS

\* Quotient and remainder are determined.
LEMMA DivModUnique ==
  ASSUME NEW m \in Nat \ {0}, NEW a \in Int, NEW q \in Int, NEW r \in 0 .. m - 1,
         a = m * q + r
  PROVE  a % m = r /\ a \div m = q
<1>1. a = m * (a \div m) + (a % m) /\ a \div m \in Int /\ a % m \in 0 .. m - 1
  BY DivMod
<1> DEFINE d == q - a \div m
<1>2. d \in Int /\ m * d = (a % m) - r
  <2>1. m * (q - a \div m) = m * q - m * (a \div m)
    BY <1>1
  <2>2. QED
    BY <2>1, <1>1
<1>3. m * d < m /\ m * d > -m
  BY <1>1, <1>2
<1> HIDE DEF d
<1>4. d = 0
  <2>1. CASE d >= 1
    <3>1. m * d >= m
      BY <2>1, <1>2
    <3>2. QED
      BY <3>1, <1>2, <1>3
  <2>2. CASE d <= -1
    <3>1. m * d <= -m
      BY <2>2, <1>2
    <3>2. QED
      BY <3>1, <1>2, <1>3
  <2>3. QED
    BY <2>1, <2>2, <1>2
<1>5. QED
  BY <1>1, <1>2, <1>4 DEF d

\* A multiple of the modulus leaves the remainder alone.
LEMMA DivModAddMultiple ==
  ASSUME NEW a \in Int, NEW b \in Int, NEW m \in Nat \ {0}
  PROVE  (a + m * b) % m = a % m /\ (a + m * b) \div m = a \div m + b
<1>1. a = m * (a \div m) + (a % m) /\ a \div m \in Int /\ a % m \in 0 .. m - 1
  BY DivMod
<1>2. m * (a \div m + b) = m * (a \div m) + m * b
  BY <1>1
<1> DEFINE c == a + m * b
           q == a \div m + b
           r == a % m
<1>3. c \in Int /\ q \in Int /\ r \in 0 .. m - 1 /\ c = m * q + r
  BY <1>1, <1>2
<1> HIDE DEF c, q, r
<1>4. c % m = r /\ c \div m = q
  BY <1>3, DivModUnique
<1>5. QED
  BY <1>4 DEF c, q, r

\* A summand may be reduced first, and so may a factor.
LEMMA ModAdd ==
  ASSUME NEW a \in Int, NEW b \in Int, NEW m \in Nat \ {0}
  PROVE  ((a % m) + b) % m = (a + b) % m
<1> DEFINE c == (a % m) + b
           q == a \div m
<1>1. a = m * q + (a % m) /\ q \in Int /\ a % m \in 0 .. m - 1
  BY DivMod
<1>2. c \in Int /\ a + b = c + m * q
  BY <1>1
<1> HIDE DEF c, q
<1>3. (c + m * q) % m = c % m
  BY <1>1, <1>2, DivModAddMultiple
<1>4. QED
  BY <1>2, <1>3 DEF c

LEMMA ModMul ==
  ASSUME NEW a \in Int, NEW b \in Int, NEW m \in Nat \ {0}
  PROVE  ((a % m) * b) % m = (a * b) % m
<1> DEFINE r == a % m
           q == a \div m
           c == r * b
           d == q * b
<1>1. a = m * q + r /\ q \in Int /\ r \in 0 .. m - 1
  BY DivMod
<1>2. c \in Int /\ d \in Int /\ a * b = c + m * d
  <2>1. (m * q + r) * b = m * (q * b) + r * b
    BY <1>1
  <2>2. QED
    BY <1>1, <2>1
<1> HIDE DEF c, d
<1>3. (c + m * d) % m = c % m
  BY <1>2, DivModAddMultiple
<1>4. QED
  BY <1>2, <1>3 DEF c

\* Two strings end to end, and a string cut in two: the digits of a number in base w.
LEMMA TwoDigits ==
  ASSUME NEW n \in Nat \ {0}, NEW w \in Nat \ {0}, NEW a \in 0 .. n - 1, NEW b \in 0 .. w - 1
  PROVE  /\ a * w + b \in 0 .. n * w - 1
         /\ (a * w + b) \div w = a /\ (a * w + b) % w = b
<1>1. a * w <= (n - 1) * w /\ (n - 1) * w = n * w - w /\ a * w = w * a
      /\ a * w \in Nat /\ n * w \in Nat
  OBVIOUS
<1> DEFINE t == a * w + b
<1>2. t \in 0 .. n * w - 1 /\ t = w * a + b /\ t \in Int
  BY <1>1
<1> HIDE DEF t
<1>3. t \div w = a /\ t % w = b
  BY <1>2, DivModUnique
<1>4. QED
  BY <1>2, <1>3 DEF t

LEMMA DigitsOf ==
  ASSUME NEW w \in Nat \ {0}, NEW n \in Nat \ {0}, NEW v \in 0 .. n * w - 1
  PROVE  v \div w \in 0 .. n - 1 /\ v % w \in 0 .. w - 1
<1> DEFINE q == v \div w
           r == v % w
<1>1. n * w \in Nat /\ v \in Int /\ v \in Nat
  OBVIOUS
<1>2. v = w * q + r /\ q \in Int /\ r \in 0 .. w - 1 /\ q \in Nat
  BY <1>1, DivMod, DivModNat
<1> HIDE DEF q, r
<1>3. ASSUME q >= n PROVE FALSE
  <2>1. w * q = w * n + w * (q - n) /\ w * (q - n) >= 0 /\ w * n = n * w
    BY <1>2, <1>3
  <2>2. QED
    BY <1>1, <1>2, <2>1
<1>4. QED
  BY <1>2, <1>3 DEF q, r

\* A shift by one bit less, from the shift by one bit more and the bit between.
LEMMA HalveShift ==
  ASSUME NEW a \in Nat, NEW m \in Nat \ {0}
  PROVE  a \div m = 2 * (a \div (2 * m)) + ((a \div m) % 2)
OBVIOUS
-----------------------------------------------------------------------------
(* Powers of two and octets                                                *)

LEMMA PowerType == \A n \in 0 .. LongestShift : 2^n \in Nat \ {0}
BY PowersOfTwo

LEMMA LongestShiftType == LongestShift \in Nat
BY OctetsAssumption DEF LongestShift

LEMMA PowerSplit ==
  ASSUME NEW a \in Nat, NEW b \in Nat, a + b <= LongestShift
  PROVE  2^(a + b) = 2^a * 2^b
<1> DEFINE T == {n \in Nat : a + n <= LongestShift => 2^(a + n) = 2^a * 2^n}
<1>1. 0 \in T
  <2>1. 2^a \in Nat
    BY PowersOfTwo, LongestShiftType
  <2>2. QED
    BY <2>1, PowersOfTwo
<1>2. ASSUME NEW n \in T PROVE n + 1 \in T
  <2> SUFFICES ASSUME a + (n + 1) <= LongestShift PROVE 2^(a + (n + 1)) = 2^a * 2^(n + 1)
    OBVIOUS
  <2>1. n \in Nat /\ a + n \in 0 .. LongestShift /\ n \in 0 .. LongestShift /\ a \in 0 .. LongestShift
    BY LongestShiftType
  <2>2. 2^(a + n) = 2^a * 2^n
    BY <2>1
  <2>3. /\ 2^a \in Nat /\ 2^n \in Nat /\ 2^(n + 1) = 2 * 2^n
        /\ 2^((a + n) + 1) = 2 * 2^(a + n)
    BY <2>1, PowersOfTwo
  <2>4. (a + n) + 1 = a + (n + 1)
    BY <2>1
  <2> DEFINE x == 2^a
             y == 2^n
  <2>5. x \in Nat /\ y \in Nat
    BY <2>3
  <2>6. 2^(a + (n + 1)) = 2 * (x * y) /\ 2^(n + 1) = 2 * y
    BY <2>2, <2>3, <2>4
  <2> HIDE DEF x, y
  <2>7. 2 * (x * y) = x * (2 * y)
    BY <2>5
  <2>8. QED
    BY <2>6, <2>7 DEF x
<1> HIDE DEF T
<1>3. T = Nat
  <2>1. T \in SUBSET Nat
    BY DEF T
  <2>2. QED
    BY <2>1, <1>1, <1>2, NatInductionSet
<1>4. QED
  BY <1>3 DEF T

LEMMA WidthType ==
  ASSUME NEW n \in 0 .. SLICE_BYTES
  PROVE  BYTE_BITS * n \in 0 .. LongestShift /\ Width(n) \in Nat \ {0}
<1>1. BYTE_BITS * n <= BYTE_BITS * SLICE_BYTES
  BY OctetsAssumption
<1>2. BYTE_BITS * n \in 0 .. LongestShift
  BY <1>1, OctetsAssumption DEF LongestShift
<1>3. QED
  BY <1>2, PowersOfTwo DEF Width

LEMMA WidthSum ==
  ASSUME NEW m \in Nat, NEW n \in Nat, m + n <= SLICE_BYTES
  PROVE  Width(m + n) = Width(m) * Width(n)
<1>1. BYTE_BITS * (m + n) = BYTE_BITS * m + BYTE_BITS * n
  BY OctetsAssumption
<1>2. BYTE_BITS * (m + n) \in 0 .. LongestShift
  BY OctetsAssumption, WidthType
<1>3. BYTE_BITS * m \in Nat /\ BYTE_BITS * n \in Nat
  BY OctetsAssumption
<1>4. QED
  BY <1>1, <1>2, <1>3, PowerSplit DEF Width

\* What is written end to end can be cut apart again.
LEMMA ConcatOfSlices ==
  ASSUME NEW m \in Nat, NEW n \in Nat, m + n <= SLICE_BYTES,
         NEW x \in Slices(m), NEW y \in Slices(n)
  PROVE  /\ Concat(x, y) \in Slices(m + n) /\ Concat(x, y).len = m + n
         /\ Concat(x, y).val \div Width(n) = x.val /\ Concat(x, y).val % Width(n) = y.val
<1> DEFINE w == Width(n)
           u == Width(m)
           a == x.val
           b == y.val
<1>1. m \in 0 .. SLICE_BYTES /\ n \in 0 .. SLICE_BYTES
  BY OctetsAssumption
<1>2. w \in Nat \ {0} /\ u \in Nat \ {0}
  BY <1>1, WidthType
<1>3. a \in 0 .. u - 1 /\ b \in 0 .. w - 1 /\ x.len = m /\ y.len = n
  BY DEF Slices
<1>4. Width(m + n) = u * w
  BY WidthSum
<1>5. Concat(x, y) = [len |-> m + n, val |-> a * w + b]
  BY <1>3 DEF Concat
<1> HIDE DEF w, u, a, b
<1>6. a * w + b \in 0 .. u * w - 1 /\ (a * w + b) \div w = a /\ (a * w + b) % w = b
  BY <1>2, <1>3, TwoDigits
<1>7. QED
  BY <1>4, <1>5, <1>6 DEF Slices, w, u, a, b

LEMMA ToBEType ==
  ASSUME NEW n \in 0 .. SLICE_BYTES, NEW v \in Int
  PROVE  ToBE(v, n) \in Slices(n)
BY WidthType, DivMod DEF ToBE, Slices

\* An integer that fits is written whole.
LEMMA ToBEExact ==
  ASSUME NEW n \in 0 .. SLICE_BYTES, NEW v \in Nat, v < Width(n)
  PROVE  ToBE(v, n).val = v
<1>1. v = Width(n) * 0 + v
  BY WidthType
<1>2. v % Width(n) = v
  BY <1>1, WidthType, DivModUnique
<1>3. QED
  BY <1>2 DEF ToBE

-----------------------------------------------------------------------------
(***************************************************************************)
(* Points                                                                  *)
(***************************************************************************)

LEMMA CurveSizes ==
  /\ P \in Nat /\ P > 3 /\ P < Width(ELEM_BYTES)
  /\ N \in Nat /\ N > 2 /\ N < Width(ELEM_BYTES)
  /\ P \in Nat \ {0} /\ N \in Nat \ {0}
  /\ A \in Field /\ G \in FinitePoints
BY CurveAssumption DEF CurveContract

HaveInverses(m) == \A a \in 1 .. m - 1 : \E i \in 1 .. m - 1 : (a * i) % m = 1

\* Modulo a prime every nonzero residue has an inverse: the least positive
\* combination of the residue and the prime divides the prime, so it is 1.
LEMMA PrimeHasInverses ==
  ASSUME NEW m \in Nat, IsPrime(m)
  PROVE  HaveInverses(m)
<1> SUFFICES ASSUME NEW a \in 1 .. m - 1
             PROVE  \E i \in 1 .. m - 1 : (a * i) % m = 1
  BY DEF HaveInverses
<1>1. m \in Nat \ {0} /\ m > 1 /\ a \in Int /\ m \in Int
  BY DEF IsPrime
<1> DEFINE S == {x \in Nat \ {0} : \E u, v \in Int : x = a * u + m * v}
<1>2. a \in S
  <2>1. a = a * 1 + m * 0 /\ 1 \in Int /\ 0 \in Int /\ a \in Nat \ {0}
    BY <1>1
  <2>2. QED
    BY <2>1
<1>3. PICK g \in S : \A x \in S : g <= x
  <2>1. IsWellFoundedOn(OpToRel(<, Nat), Nat) /\ S \subseteq Nat /\ S # {}
    BY <1>2, NatLessThanWellFounded
  <2> HIDE DEF S
  <2>2. PICK g \in S : \A x \in S : ~(<<x, g>> \in OpToRel(<, Nat))
    BY <2>1, WFMin, Zenon
  <2>3. \A x \in S : x \in Nat /\ g \in Nat /\ ~(x < g)
    BY <2>1, <2>2 DEF OpToRel
  <2>4. QED
    BY <2>3
<1>4. PICK u \in Int, v \in Int : g = a * u + m * v
  OBVIOUS
<1>5. g \in Nat \ {0} /\ g <= a
  BY <1>2, <1>3
<1>6. m % g = 0
  <2> DEFINE q == m \div g
             r == m % g
             uq == u * q
             vq == v * q
  <2>1. q \in Int /\ r \in 0 .. g - 1 /\ m = g * q + r
    BY <1>1, <1>5, DivMod
  <2> HIDE DEF q, r
  <2>2. g * q = a * uq + m * vq /\ uq \in Int /\ vq \in Int
    <3>1. (a * u + m * v) * q = a * (u * q) + m * (v * q) /\ u * q \in Int /\ v * q \in Int
      BY <1>1, <2>1
    <3>2. QED
      BY <1>4, <3>1
  <2> HIDE DEF uq, vq
  <2>3. r = a * (-uq) + m * (1 - vq)
    <3>1. a * (-uq) = -(a * uq) /\ m * (1 - vq) = m - m * vq
      BY <1>1, <2>2
    <3>2. QED
      BY <1>1, <2>1, <2>2, <3>1
  <2>4. r # 0 => r \in S
    <3>1. r \in Nat /\ -uq \in Int /\ 1 - vq \in Int
      BY <1>5, <2>1, <2>2
    <3>2. QED
      BY <2>3, <3>1
  <2>5. r = 0
    BY <1>3, <1>5, <2>1, <2>4
  <2>6. QED
    BY <2>5 DEF r
<1> HIDE DEF S
<1>7. g = 1
  BY <1>1, <1>5, <1>6 DEF IsPrime
<1> DEFINE i == u % m
           ai == a * i
           au == a * u
<1>8. i \in 0 .. m - 1 /\ i \in Int
  <2>1. i \in 0 .. m - 1
    BY <1>1, DivMod
  <2> HIDE DEF i
  <2>2. QED
    BY <1>1, <2>1
<1>9. ai % m = au % m
  <2>1. (i * a) % m = (u * a) % m
    BY <1>1, ModMul
  <2>2. i * a = ai /\ u * a = au
    BY <1>1, <1>8
  <2> HIDE DEF i, ai, au
  <2>3. QED
    BY <2>1, <2>2
<1>10. au % m = 1
  <2>1. au \in Int /\ -v \in Int /\ au = m * (-v) + 1
    <3>1. m * (-v) = -(m * v) /\ a * u \in Int /\ m * v \in Int
      BY <1>1
    <3>2. QED
      BY <1>4, <1>7, <3>1
  <2> HIDE DEF au
  <2>2. 1 \in 0 .. m - 1
    BY <1>1
  <2>3. QED
    BY <1>1, <2>1, <2>2, DivModUnique
<1>11. i # 0
  <2>1. i = 0 => ai = m * 0 + 0
    BY <1>1, <1>8
  <2>2. 0 \in 0 .. m - 1 /\ 0 \in Int
    BY <1>1
  <2>3. ai \in Int
    BY <1>1, <1>8
  <2> HIDE DEF ai, i, au
  <2>4. i = 0 => ai % m = 0
    BY <1>1, <2>1, <2>2, <2>3, DivModUnique
  <2>5. QED
    BY <1>9, <1>10, <2>4
<1>12. QED
  BY <1>8, <1>9, <1>10, <1>11

\* Both moduli of the contract are prime.
LEMMA Inverses == HaveInverses(P) /\ HaveInverses(N)
BY CurveAssumption, PrimeHasInverses DEF CurveContract

LEMMA InfIsNotFinite == Inf \notin FinitePoints /\ Inf \in Points
BY DEF Inf, FinitePoints, Points

LEMMA GroupIdentity ==
  ASSUME NEW p \in Points
  PROVE  GroupAdd(Inf, p) = p /\ GroupAdd(p, Inf) = p
BY DEF GroupAdd

-----------------------------------------------------------------------------
(* Multiples                                                               *)

\* The multiples of a point exist and are what their recursion says.
LEMMA MultiplesExist ==
  ASSUME NEW pt
  PROVE  \A n \in Nat :
           \E f : f = [k \in 0 .. n |-> IF k = 0 THEN Inf ELSE GroupAdd(f[k - 1], pt)]
<1> DEFINE Times(f, n) == f = [k \in 0 .. n |-> IF k = 0 THEN Inf ELSE GroupAdd(f[k - 1], pt)]
           T == {n \in Nat : \E f : Times(f, n)}
<1>1. 0 \in T
  <2>1. Times([k \in 0 .. 0 |-> Inf], 0)
    OBVIOUS
  <2>2. QED
    BY <2>1
<1>2. ASSUME NEW n \in T PROVE n + 1 \in T
  <2>1. PICK f : Times(f, n)
    OBVIOUS
  <2> DEFINE g == [k \in 0 .. n + 1 |-> IF k = n + 1 THEN GroupAdd(f[n], pt) ELSE f[k]]
  <2>2. n + 1 \in Nat /\ Times(g, n + 1)
    BY <2>1
  <2>3. QED
    BY <2>2
<1> HIDE DEF T
<1>3. T = Nat
  <2>1. T \in SUBSET Nat
    BY DEF T
  <2>2. QED
    BY <2>1, <1>1, <1>2, NatInductionSet
<1>4. QED
  BY <1>3 DEF T

LEMMA MultiplesStep ==
  ASSUME NEW pt \in Points
  PROVE  /\ Multiples[pt][0] = Inf
         /\ \A k \in 1 .. N : Multiples[pt][k] = GroupAdd(Multiples[pt][k - 1], pt)
<1> DEFINE Times[k \in 0 .. N] == IF k = 0 THEN Inf ELSE GroupAdd(Times[k - 1], pt)
<1>1. N \in Nat
  BY CurveSizes
<1>2. \E f : f = [k \in 0 .. N |-> IF k = 0 THEN Inf ELSE GroupAdd(f[k - 1], pt)]
  BY <1>1, MultiplesExist
<1>3. Times = [k \in 0 .. N |-> IF k = 0 THEN Inf ELSE GroupAdd(Times[k - 1], pt)]
  BY <1>2
<1>4. Multiples[pt] = [k \in 0 .. N |-> Times[k]]
  BY DEF Multiples
<1> HIDE DEF Times
<1>5. QED
  BY <1>1, <1>3, <1>4

LEMMA MultiplesType ==
  ASSUME NEW pt \in Points
  PROVE  \A k \in 0 .. N : Multiples[pt][k] \in Points
<1> DEFINE T == {n \in Nat : n <= N => Multiples[pt][n] \in Points}
<1>0. N \in Nat
  BY CurveSizes
<1>1. 0 \in T
  BY MultiplesStep, InfIsNotFinite
<1>2. ASSUME NEW n \in T PROVE n + 1 \in T
  <2> SUFFICES ASSUME n + 1 <= N PROVE Multiples[pt][n + 1] \in Points
    OBVIOUS
  <2>1. n + 1 \in 1 .. N /\ Multiples[pt][n] \in Points
    BY <1>0
  <2>2. Multiples[pt][n + 1] = GroupAdd(Multiples[pt][(n + 1) - 1], pt)
    BY <2>1, MultiplesStep
  <2>3. (n + 1) - 1 = n
    OBVIOUS
  <2>4. QED
    BY <2>1, <2>2, <2>3, GroupAssumption
<1> HIDE DEF T
<1>3. T = Nat
  <2>1. T \in SUBSET Nat
    BY DEF T
  <2>2. QED
    BY <2>1, <1>1, <1>2, NatInductionSet
<1>4. QED
  BY <1>0, <1>3 DEF T

LEMMA GroupMulType ==
  ASSUME NEW pt \in Points, NEW k \in Nat
  PROVE  GroupMul(k, pt) \in Points
<1>1. N \in Nat \ {0} /\ k \in Int
  BY CurveSizes
<1>2. k % N \in 0 .. N - 1
  BY <1>1, DivMod
<1>3. QED
  BY <1>1, <1>2, MultiplesType DEF GroupMul

\* A point whose order divides N.
HasOrder(pt) == pt \in Points /\ Multiples[pt][N] = Inf

LEMMA GroupMulSucc ==
  ASSUME NEW pt, HasOrder(pt), NEW k \in Nat
  PROVE  GroupMul(k + 1, pt) = GroupAdd(GroupMul(k, pt), pt)
<1> DEFINE r == k % N
           q == k \div N
<1>0. N \in Nat \ {0} /\ k \in Int
  BY CurveSizes
<1>1. k = N * q + r /\ q \in Int /\ r \in 0 .. N - 1
  BY <1>0, DivMod
<1> HIDE DEF r, q
<1>2. CASE r + 1 < N
  <2>1. k + 1 = N * q + (r + 1) /\ r + 1 \in 0 .. N - 1 /\ k + 1 \in Int
    BY <1>0, <1>1, <1>2
  <2>2. (k + 1) % N = r + 1
    BY <1>0, <1>1, <2>1, DivModUnique
  <2> DEFINE i == r + 1
  <2>i. i \in 1 .. N /\ pt \in Points
    BY <1>0, <1>1, <2>1 DEF HasOrder
  <2> HIDE DEF i
  <2>j. Multiples[pt][i] = GroupAdd(Multiples[pt][i - 1], pt)
    BY <2>i, MultiplesStep
  <2>3. Multiples[pt][r + 1] = GroupAdd(Multiples[pt][(r + 1) - 1], pt)
    BY <2>j DEF i
  <2>4. (r + 1) - 1 = r
    BY <1>1
  <2>5. QED
    BY <2>2, <2>3, <2>4 DEF GroupMul, r
<1>3. CASE r + 1 = N
  <2>1. N * (q + 1) = N * q + N
    BY <1>0, <1>1
  <2>2. k + 1 = N * (q + 1) + 0 /\ 0 \in 0 .. N - 1 /\ q + 1 \in Int /\ k + 1 \in Int
    BY <1>0, <1>1, <1>3, <2>1
  <2>3. (k + 1) % N = 0
    BY <1>0, <2>2, DivModUnique
  <2>4. Multiples[pt][N] = GroupAdd(Multiples[pt][N - 1], pt) /\ r = N - 1
    BY <1>1, <1>3, MultiplesStep DEF HasOrder
  <2>5. QED
    BY <2>3, <2>4, MultiplesStep DEF GroupMul, HasOrder, r
<1>4. QED
  BY <1>0, <1>1, <1>2, <1>3

\* (a + b) pt = a pt + b pt.
LEMMA GroupMulAdd ==
  ASSUME NEW pt, HasOrder(pt), NEW a \in Nat
  PROVE  \A b \in Nat : GroupMul(a + b, pt) = GroupAdd(GroupMul(a, pt), GroupMul(b, pt))
<1> DEFINE T == {n \in Nat : GroupMul(a + n, pt) = GroupAdd(GroupMul(a, pt), GroupMul(n, pt))}
<1>0. pt \in Points /\ \A n \in Nat : GroupMul(n, pt) \in Points
  BY GroupMulType DEF HasOrder
<1>z. GroupMul(0, pt) = Inf
  <2>1. 0 % N = 0
    <3>1. N \in Nat \ {0} /\ 0 = N * 0 + 0
      BY CurveSizes
    <3>2. QED
      BY <3>1, DivModUnique
  <2>2. QED
    BY <1>0, <2>1, MultiplesStep DEF GroupMul
<1>1. 0 \in T
  BY <1>0, <1>z, GroupIdentity
<1>2. ASSUME NEW n \in T PROVE n + 1 \in T
  <2>1. GroupMul((a + n) + 1, pt) = GroupAdd(GroupMul(a + n, pt), pt)
    BY GroupMulSucc
  <2>2. GroupMul(n + 1, pt) = GroupAdd(GroupMul(n, pt), pt)
    BY GroupMulSucc
  <2>3. (a + n) + 1 = a + (n + 1)
    OBVIOUS
  <2>4. GroupAdd(GroupAdd(GroupMul(a, pt), GroupMul(n, pt)), pt)
          = GroupAdd(GroupMul(a, pt), GroupAdd(GroupMul(n, pt), pt))
    BY <1>0, GroupAssumption
  <2>5. QED
    BY <2>1, <2>2, <2>3, <2>4
<1> HIDE DEF T
<1>3. T = Nat
  <2>1. T \in SUBSET Nat
    BY DEF T
  <2>2. QED
    BY <2>1, <1>1, <1>2, NatInductionSet
<1>4. QED
  BY <1>3 DEF T

LEMMA GroupMulZero ==
  ASSUME NEW pt \in Points
  PROVE  GroupMul(0, pt) = Inf /\ GroupMul(1, pt) = pt
<1>1. N \in Nat \ {0} /\ N > 2 /\ 0 = N * 0 + 0 /\ 1 = N * 0 + 1
  BY CurveSizes
<1>2. 0 % N = 0 /\ 1 % N = 1
  BY <1>1, DivModUnique
<1>3. 1 \in 1 .. N /\ 1 - 1 = 0
  BY <1>1
<1>4. Multiples[pt][1] = GroupAdd(Multiples[pt][0], pt)
  BY <1>3, MultiplesStep
<1>5. QED
  BY <1>2, <1>4, MultiplesStep, GroupIdentity DEF GroupMul

\* The curve is cyclic: every point is a multiple of the generator.
LEMMA Cyclic ==
  /\ HasOrder(G)
  /\ \A pt \in Points : \E j \in 0 .. N - 1 : pt = GroupMul(j, G)
<1>1. HasOrder(G)
  BY CurveAssumption DEF CurveContract, HasOrder, Points
<1>2. ASSUME NEW pt \in Points PROVE \E j \in 0 .. N - 1 : pt = GroupMul(j, G)
  <2>1. PICK j \in 0 .. N - 1 : pt = Multiples[G][j]
    BY CurveAssumption DEF CurveContract
  <2>2. N \in Nat \ {0} /\ j = N * 0 + j /\ j \in Int
    BY CurveSizes
  <2>3. j % N = j
    BY <2>2, DivModUnique
  <2>4. QED
    BY <2>1, <2>3 DEF GroupMul
<1>3. QED
  BY <1>1, <1>2

\* The order of every point divides N.
LEMMA EveryPointHasOrder == \A pt \in Points : HasOrder(pt)
<1> TAKE pt \in Points
<1>0. N \in Nat \ {0} /\ G \in Points /\ HasOrder(G)
  BY CurveSizes, Cyclic DEF Points
<1>1. PICK j \in 0 .. N - 1 : pt = GroupMul(j, G)
  BY Cyclic
<1> DEFINE T == {n \in Nat : n <= N => Multiples[pt][n] = GroupMul(j * n, G)}
<1>2. 0 \in T
  <2>1. j * 0 = 0
    BY <1>0
  <2>2. QED
    BY <1>0, <2>1, GroupMulZero, MultiplesStep
<1>3. ASSUME NEW n \in T PROVE n + 1 \in T
  <2> SUFFICES ASSUME n + 1 <= N PROVE Multiples[pt][n + 1] = GroupMul(j * (n + 1), G)
    OBVIOUS
  <2> DEFINE i == n + 1
             jn == j * n
  <2>1. i \in 1 .. N /\ i - 1 = n /\ jn \in Nat /\ j * i = jn + j /\ Multiples[pt][n] = GroupMul(jn, G)
    BY <1>0
  <2> HIDE DEF i, jn
  <2>2. Multiples[pt][i] = GroupAdd(Multiples[pt][i - 1], pt)
    BY <2>1, MultiplesStep
  <2>3. GroupMul(jn + j, G) = GroupAdd(GroupMul(jn, G), GroupMul(j, G))
    BY <1>0, <2>1, GroupMulAdd
  <2>4. Multiples[pt][i] = GroupMul(j * i, G)
    BY <1>1, <2>1, <2>2, <2>3
  <2>5. QED
    BY <2>4 DEF i
<1> HIDE DEF T
<1>4. T = Nat
  <2>1. T \in SUBSET Nat
    BY DEF T
  <2>2. QED
    BY <2>1, <1>2, <1>3, NatInductionSet
<1>5. Multiples[pt][N] = GroupMul(j * N, G)
  BY <1>0, <1>4 DEF T
<1>6. (j * N) % N = 0
  <2> DEFINE jN == j * N
  <2>1. jN \in Int /\ jN = N * j + 0 /\ 0 \in 0 .. N - 1 /\ j \in Int
    BY <1>0
  <2> HIDE DEF jN
  <2>2. jN % N = 0
    BY <1>0, <2>1, DivModUnique
  <2>3. QED
    BY <2>2 DEF jN
<1>7. QED
  BY <1>0, <1>5, <1>6, MultiplesStep DEF HasOrder, GroupMul

LEMMA GroupAddCommutes == \A p, q \in Points : GroupAdd(p, q) = GroupAdd(q, p)
<1> TAKE p, q \in Points
<1>1. PICK j \in Nat : p = GroupMul(j, G)
  BY Cyclic, CurveSizes
<1>2. PICK k \in Nat : q = GroupMul(k, G)
  BY Cyclic, CurveSizes
<1>3. GroupMul(j + k, G) = GroupAdd(p, q) /\ GroupMul(k + j, G) = GroupAdd(q, p)
  BY <1>1, <1>2, Cyclic, GroupMulAdd
<1>4. j + k = k + j
  OBVIOUS
<1>5. QED
  BY <1>3, <1>4

\* b (a pt) = (a b) pt.
LEMMA GroupMulMul ==
  ASSUME NEW pt \in Points, NEW a \in Nat
  PROVE  \A b \in Nat : GroupMul(b, GroupMul(a, pt)) = GroupMul(a * b, pt)
<1> DEFINE q == GroupMul(a, pt)
           T == {n \in Nat : GroupMul(n, q) = GroupMul(a * n, pt)}
<1>0. q \in Points /\ HasOrder(q) /\ HasOrder(pt)
  BY GroupMulType, EveryPointHasOrder
<1>1. 0 \in T
  <2>1. a * 0 = 0
    OBVIOUS
  <2>2. QED
    BY <1>0, <2>1, GroupMulZero
<1>2. ASSUME NEW n \in T PROVE n + 1 \in T
  <2> DEFINE an == a * n
  <2>1. an \in Nat /\ a * (n + 1) = an + a /\ GroupMul(n, q) = GroupMul(an, pt)
    OBVIOUS
  <2>2. n \in Nat
    OBVIOUS
  <2> HIDE DEF an
  <2>3. GroupMul(n + 1, q) = GroupAdd(GroupMul(n, q), q)
    BY <1>0, <2>2, GroupMulSucc
  <2>4. GroupMul(an + a, pt) = GroupAdd(GroupMul(an, pt), GroupMul(a, pt))
    BY <1>0, <2>1, GroupMulAdd
  <2>5. GroupMul(n + 1, q) = GroupMul(a * (n + 1), pt)
    BY <2>1, <2>3, <2>4
  <2>6. QED
    BY <2>2, <2>5
<1> HIDE DEF T
<1>3. T = Nat
  <2>1. T \in SUBSET Nat
    BY DEF T
  <2>2. QED
    BY <2>1, <1>1, <1>2, NatInductionSet
<1>4. QED
  BY <1>3 DEF T

\* A scalar in range takes no finite point to the identity: N is prime.
LEMMA GroupMulFinite ==
  ASSUME NEW pt \in FinitePoints, NEW d \in Scalar
  PROVE  GroupMul(d, pt) \in FinitePoints
<1>1. pt \in Points /\ d \in Nat /\ GroupMul(d, pt) \in Points
  BY CurveSizes, GroupMulType DEF Scalar, Points
<1>2. SUFFICES ASSUME GroupMul(d, pt) = Inf PROVE FALSE
  BY <1>1 DEF Points
<1>3. PICK i \in 1 .. N - 1 : (d * i) % N = 1
  BY Inverses DEF HaveInverses, Scalar
<1>4. GroupMul(i, Inf) = GroupMul(d * i, pt)
  BY <1>1, <1>2, <1>3, CurveSizes, GroupMulMul
<1>5. 1 % N = 1
  <2>1. N \in Nat \ {0} /\ 1 = N * 0 + 1 /\ 1 \in 0 .. N - 1
    BY CurveSizes
  <2>2. QED
    BY <2>1, DivModUnique
<1>6. GroupMul(d * i, pt) = pt
  BY <1>1, <1>3, <1>5, GroupMulZero DEF GroupMul
<1>7. GroupMul(i, Inf) = Inf
  <2>1. i \in Nat /\ 0 * i = 0 /\ 0 \in Nat
    BY <1>3, CurveSizes
  <2>2. GroupMul(i, GroupMul(0, pt)) = GroupMul(0 * i, pt)
    BY <1>1, <2>1, GroupMulMul
  <2>3. QED
    BY <1>1, <2>1, <2>2, GroupMulZero
<1>8. QED
  BY <1>4, <1>6, <1>7, InfIsNotFinite

-----------------------------------------------------------------------------
(* The ladder                                                              *)

\* The slices a ladder may walk.
Ladderable(s) ==
  s.len \in 0 .. SLICE_BYTES /\ s.val \in Nat /\ s.val < Width(s.len)

\* The bits of s consumed after k steps.
Consumed(s, k) == s.val \div 2^(BYTE_BITS * s.len - k)

LEMMA ConsumedBits ==
  ASSUME NEW s, Ladderable(s)
  PROVE  LET bits == BYTE_BITS * s.len
         IN  /\ bits \in 0 .. LongestShift
             /\ Consumed(s, 0) = 0 /\ Consumed(s, bits) = s.val
             /\ \A k \in 1 .. bits :
                  /\ Consumed(s, k - 1) \in Nat /\ Consumed(s, k) % 2 \in {0, 1}
                  /\ Consumed(s, k) = 2 * Consumed(s, k - 1) + (Consumed(s, k) % 2)
<1> DEFINE bits == BYTE_BITS * s.len
<1>1. bits \in 0 .. LongestShift /\ s.val \in Nat /\ s.val < 2^bits /\ 2^bits \in Nat \ {0}
  BY WidthType, PowersOfTwo DEF Ladderable, Width
<1>2. Consumed(s, 0) = 0
  <2> DEFINE m == 2^bits
             v == s.val
  <2>1. m \in Nat \ {0} /\ v \in Nat /\ v = m * 0 + v /\ v \in 0 .. m - 1
    BY <1>1
  <2> HIDE DEF m, v
  <2>2. v \div m = 0
    BY <2>1, DivModUnique
  <2>3. bits - 0 = bits
    BY <1>1
  <2>4. QED
    BY <2>2, <2>3 DEF Consumed, m, v
<1>3. Consumed(s, bits) = s.val
  <2>1. bits - bits = 0
    BY <1>1
  <2>2. s.val \div 1 = s.val
    BY <1>1
  <2>3. QED
    BY <2>1, <2>2, PowersOfTwo DEF Consumed
<1>4. ASSUME NEW k \in 1 .. bits
      PROVE  /\ Consumed(s, k - 1) \in Nat /\ Consumed(s, k) % 2 \in {0, 1}
             /\ Consumed(s, k) = 2 * Consumed(s, k - 1) + (Consumed(s, k) % 2)
  <2> DEFINE e == bits - k
             m == 2^e
             v == s.val
  <2>1. e \in 0 .. LongestShift /\ v \in Nat /\ bits - (k - 1) = e + 1
    BY <1>1, LongestShiftType
  <2>2. m \in Nat \ {0} /\ 2^(e + 1) = 2 * m
    BY <2>1, PowersOfTwo
  <2>3. Consumed(s, k) = v \div m /\ Consumed(s, k - 1) = v \div (2 * m)
    BY <2>1, <2>2 DEF Consumed
  <2> HIDE DEF e, m, v
  <2>4. v \div m = 2 * (v \div (2 * m)) + ((v \div m) % 2)
    BY <2>1, <2>2, HalveShift
  <2>5. v \div (2 * m) \in Nat /\ (v \div m) % 2 \in {0, 1}
    BY <2>1, <2>2
  <2>6. QED
    BY <2>3, <2>4, <2>5
<1>5. QED
  BY <1>1, <1>2, <1>3, <1>4

LEMMA IdentityRepresents == IdentityCt \in Triples /\ RcbAffine(IdentityCt) = Inf
BY CurveSizes, InfIsNotFinite DEF IdentityCt, Triples, PointCt, Field, RcbAffine

\* One step doubles and, on a set bit, adds.
LEMMA LadderStepRepresents ==
  ASSUME NEW base \in Triples, NEW r \in Triples, NEW k \in Nat, NEW bit \in {0, 1},
         RcbAffine(r) = GroupMul(k, RcbAffine(base))
  PROVE  /\ LadderStep(r, bit, base) \in Triples
         /\ RcbAffine(LadderStep(r, bit, base)) = GroupMul(2 * k + bit, RcbAffine(base))
<1> DEFINE pt == RcbAffine(base)
           d == AddRcb(r, r)
<1>1. pt \in Points /\ HasOrder(pt)
  BY EveryPointHasOrder DEF Triples
<1>2. d \in Triples /\ RcbAffine(d) = GroupAdd(GroupMul(k, pt), GroupMul(k, pt))
  BY CompleteAddition
<1>3. RcbAffine(d) = GroupMul(2 * k, pt)
  <2>1. GroupMul(k + k, pt) = GroupAdd(GroupMul(k, pt), GroupMul(k, pt)) /\ k + k = 2 * k
    BY <1>1, GroupMulAdd
  <2>2. QED
    BY <1>2, <2>1
<1>4. AddRcb(d, base) \in Triples /\ RcbAffine(AddRcb(d, base)) = GroupAdd(GroupMul(2 * k, pt), pt)
  BY <1>2, <1>3, CompleteAddition
<1>5. GroupMul(2 * k + 1, pt) = GroupAdd(GroupMul(2 * k, pt), pt)
  BY <1>1, GroupMulSucc
<1>6. QED
  BY <1>2, <1>3, <1>4, <1>5 DEF LadderStep

\* The accumulators of the first n steps of a ladder over the given bits.
Walks(f, s, base, bits, n) ==
  f = [k \in 0 .. n |-> IF k = 0 THEN IdentityCt
                        ELSE LadderStep(f[k - 1], (s.val \div 2^(bits - k)) % 2, base)]

LEMMA LadderExists ==
  ASSUME NEW s, NEW base, NEW bits
  PROVE  \A n \in Nat : \E f : Walks(f, s, base, bits, n)
<1> DEFINE T == {n \in Nat : \E f : Walks(f, s, base, bits, n)}
<1>1. 0 \in T
  <2>1. Walks([k \in 0 .. 0 |-> IdentityCt], s, base, bits, 0)
    BY DEF Walks
  <2>2. QED
    BY <2>1
<1>2. ASSUME NEW n \in T PROVE n + 1 \in T
  <2>1. PICK f : Walks(f, s, base, bits, n)
    OBVIOUS
  <2> DEFINE g == [k \in 0 .. n + 1 |->
                     IF k = n + 1
                     THEN LadderStep(f[n], (s.val \div 2^(bits - (n + 1))) % 2, base)
                     ELSE f[k]]
  <2>2. n + 1 \in Nat /\ Walks(g, s, base, bits, n + 1)
    BY <2>1 DEF Walks
  <2>3. QED
    BY <2>2
<1> HIDE DEF T
<1>3. T = Nat
  <2>1. T \in SUBSET Nat
    BY DEF T
  <2>2. QED
    BY <2>1, <1>1, <1>2, NatInductionSet
<1>4. QED
  BY <1>3 DEF T

\* scalar_mul_ct multiplies, whatever the length of its slice.
THEOREM LadderMultiplies ==
  ASSUME NEW base \in Triples, NEW s, Ladderable(s)
  PROVE  /\ ScalarMulCt(s, base) \in Triples
         /\ RcbAffine(ScalarMulCt(s, base)) = GroupMul(s.val, RcbAffine(base))
<1> DEFINE bits == BYTE_BITS * s.len
           Acc[k \in 0 .. bits] ==
             IF k = 0 THEN IdentityCt
             ELSE LadderStep(Acc[k - 1], (s.val \div 2^(bits - k)) % 2, base)
           pt == RcbAffine(base)
<1>0. bits \in Nat /\ pt \in Points
  BY ConsumedBits DEF Triples
<1>1. \E f : f = [k \in 0 .. bits |-> IF k = 0 THEN IdentityCt
                   ELSE LadderStep(f[k - 1], (s.val \div 2^(bits - k)) % 2, base)]
  <2>1. PICK f : Walks(f, s, base, bits, bits)
    BY <1>0, LadderExists
  <2>2. QED
    BY <2>1 DEF Walks
<1>2. Acc = [k \in 0 .. bits |-> IF k = 0 THEN IdentityCt
                   ELSE LadderStep(Acc[k - 1], (s.val \div 2^(bits - k)) % 2, base)]
  BY <1>1
<1>3. ScalarMulCt(s, base) = Acc[bits]
  BY DEF ScalarMulCt
<1> HIDE DEF Acc
<1>4. Acc[0] = IdentityCt
  BY <1>0, <1>2
<1>5. \A k \in 1 .. bits : Acc[k] = LadderStep(Acc[k - 1], Consumed(s, k) % 2, base)
  BY <1>0, <1>2 DEF Consumed
<1> DEFINE T == {n \in Nat : n <= bits => /\ Acc[n] \in Triples
                                          /\ RcbAffine(Acc[n]) = GroupMul(Consumed(s, n), pt)}
<1>6. 0 \in T
  BY <1>0, <1>4, IdentityRepresents, ConsumedBits, GroupMulZero
<1>7. ASSUME NEW n \in T PROVE n + 1 \in T
  <2> SUFFICES ASSUME n + 1 <= bits
               PROVE  /\ Acc[n + 1] \in Triples
                      /\ RcbAffine(Acc[n + 1]) = GroupMul(Consumed(s, n + 1), pt)
    OBVIOUS
  <2> DEFINE k == n + 1
             bit == Consumed(s, k) % 2
             c == Consumed(s, n)
  <2>1. k \in 1 .. bits /\ k - 1 = n /\ Acc[n] \in Triples /\ RcbAffine(Acc[n]) = GroupMul(c, pt)
    BY <1>0
  <2> HIDE DEF k
  <2>2. c \in Nat /\ bit \in {0, 1} /\ Consumed(s, k) = 2 * c + bit
    BY <2>1, ConsumedBits
  <2>3. Acc[k] = LadderStep(Acc[n], bit, base)
    BY <1>5, <2>1
  <2> HIDE DEF bit, c
  <2>4. Acc[k] \in Triples /\ RcbAffine(Acc[k]) = GroupMul(2 * c + bit, pt)
    BY <2>1, <2>2, <2>3, LadderStepRepresents
  <2>5. QED
    BY <2>2, <2>4 DEF k
<1> HIDE DEF T
<1>8. T = Nat
  <2>1. T \in SUBSET Nat
    BY DEF T
  <2>2. QED
    BY <2>1, <1>6, <1>7, NatInductionSet
<1>9. Acc[bits] \in Triples /\ RcbAffine(Acc[bits]) = GroupMul(Consumed(s, bits), pt)
  BY <1>0, <1>8 DEF T
<1>10. QED
  BY <1>3, <1>9, ConsumedBits

-----------------------------------------------------------------------------
(* The blinders                                                            *)

LEMMA InverseExists ==
  ASSUME NEW a \in 1 .. P - 1
  PROVE  InvMod(P, a) \in 1 .. P - 1 /\ (a * InvMod(P, a)) % P = 1
BY Inverses DEF HaveInverses, InvMod

LEMMA FieldOperations ==
  ASSUME NEW a \in Field, NEW b \in Field
  PROVE  a \otimes b \in Field /\ a \oplus b \in Field /\ a \ominus b \in Field
<1>1. P \in Nat \ {0} /\ a \in Int /\ b \in Int /\ a * b \in Int
  BY CurveSizes DEF Field
<1>2. (a * b) % P \in 0 .. P - 1 /\ (a + b) % P \in 0 .. P - 1 /\ (a - b) % P \in 0 .. P - 1
  BY <1>1, DivMod
<1>3. QED
  BY <1>2 DEF Field, \otimes, \oplus, \ominus

\* A coordinate scaled by lambda and divided by it again.
LEMMA ScaleAndDivide ==
  ASSUME NEW x \in Field, NEW lambda \in 1 .. P - 1
  PROVE  (x \otimes lambda) \otimes InvMod(P, lambda) = x
<1> DEFINE i == InvMod(P, lambda)
           li == lambda * i
           xl == x * lambda
<1>1. P \in Nat \ {0} /\ x \in 0 .. P - 1 /\ x \in Int /\ lambda \in Int /\ i \in Int /\ li % P = 1
  BY CurveSizes, InverseExists DEF Field
<1> HIDE DEF i
<1>2. li \in Int /\ xl \in Int /\ xl * i = li * x
  <2>1. (x * lambda) * i = (lambda * i) * x
    BY <1>1
  <2>2. QED
    BY <1>1, <2>1
<1> HIDE DEF li, xl
<1>3. ((xl % P) * i) % P = (xl * i) % P
  BY <1>1, <1>2, ModMul
<1>4. ((li % P) * x) % P = (li * x) % P
  BY <1>1, <1>2, ModMul
<1>5. (1 * x) % P = x
  <2>1. 1 * x = P * 0 + x /\ 1 * x \in Int
    BY <1>1
  <2>2. QED
    BY <1>1, <2>1, DivModUnique
<1>6. ((xl % P) * i) % P = x
  BY <1>1, <1>2, <1>3, <1>4, <1>5
<1>7. QED
  BY <1>6 DEF \otimes, i, xl

\* A point of the curve in coordinates blinded or not is still that point.
LEMMA BlindPointRepresents ==
  ASSUME NEW x, NEW y, <<x, y>> \in FinitePoints, NEW blind, FromBE(blind) \in Int
  PROVE  BlindPoint(x, y, blind) \in Triples /\ RcbAffine(BlindPoint(x, y, blind)) = <<x, y>>
<1> DEFINE reduced == FromBE(blind) % P
           lambda  == IF blind = Empty \/ reduced = 0 THEN 1 ELSE reduced
<1>1. P \in Nat \ {0} /\ P > 3 /\ x \in Field /\ y \in Field
  BY CurveSizes DEF FinitePoints
<1>2. reduced \in 0 .. P - 1
  BY <1>1, DivMod
<1> HIDE DEF reduced
<1>3. lambda \in 1 .. P - 1 /\ lambda \in Field
  BY <1>1, <1>2 DEF Field
<1>4. BlindPoint(x, y, blind) = [x |-> x \otimes lambda, y |-> y \otimes lambda, z |-> lambda]
  BY DEF BlindPoint, reduced
<1> HIDE DEF lambda
<1> DEFINE b == BlindPoint(x, y, blind)
<1>5. b.x = x \otimes lambda /\ b.y = y \otimes lambda /\ b.z = lambda /\ b \in PointCt /\ b.z # 0
  BY <1>1, <1>3, <1>4, FieldOperations DEF PointCt
<1> HIDE DEF b
<1>6. RcbAffine(b) = <<x, y>>
  BY <1>1, <1>3, <1>5, ScaleAndDivide DEF RcbAffine, AffineXYCt
<1>7. QED
  BY <1>5, <1>6 DEF Triples, b, Points

LEMMA ElementWidths ==
  /\ Width(ELEM_BYTES) \in Nat \ {0} /\ Width(T_BYTES) \in Nat \ {0}
  /\ Width(SCALAR_BLIND_BYTES) \in Nat \ {0} /\ Width(SCALAR_BLIND_BYTES + 1) \in Nat \ {0}
  /\ Width(SCALAR_BLIND_BYTES) <= Width(ELEM_BYTES)
  /\ Width(SCALAR_BLIND_BYTES) <= Width(SCALAR_BLIND_BYTES + 1)
<1>1. /\ ELEM_BYTES \in 0 .. SLICE_BYTES /\ T_BYTES \in 0 .. SLICE_BYTES
      /\ SCALAR_BLIND_BYTES \in 0 .. SLICE_BYTES /\ SCALAR_BLIND_BYTES + 1 \in 0 .. SLICE_BYTES
      /\ 1 \in 0 .. SLICE_BYTES
      /\ ELEM_BYTES - SCALAR_BLIND_BYTES \in 0 .. SLICE_BYTES
  BY OctetsAssumption, BlindAssumption
<1> DEFINE s == Width(SCALAR_BLIND_BYTES)
           o == Width(1)
           e == Width(ELEM_BYTES - SCALAR_BLIND_BYTES)
<1>2. /\ Width(ELEM_BYTES) \in Nat \ {0} /\ Width(T_BYTES) \in Nat \ {0}
      /\ s \in Nat \ {0} /\ Width(SCALAR_BLIND_BYTES + 1) \in Nat \ {0}
      /\ o \in Nat \ {0} /\ e \in Nat \ {0}
  BY <1>1, WidthType
<1>3. Width(SCALAR_BLIND_BYTES + 1) = s * o
  BY <1>1, OctetsAssumption, BlindAssumption, WidthSum
<1>4. Width(ELEM_BYTES) = s * e
  <2>1. SCALAR_BLIND_BYTES + (ELEM_BYTES - SCALAR_BLIND_BYTES) = ELEM_BYTES
    BY OctetsAssumption, BlindAssumption
  <2> DEFINE n == ELEM_BYTES - SCALAR_BLIND_BYTES
  <2>2. n \in Nat /\ SCALAR_BLIND_BYTES + n <= SLICE_BYTES /\ SCALAR_BLIND_BYTES \in Nat
    BY <1>1, <2>1, OctetsAssumption
  <2>3. Width(SCALAR_BLIND_BYTES + n) = Width(SCALAR_BLIND_BYTES) * Width(n)
    BY <2>2, WidthSum
  <2>4. QED
    BY <2>1, <2>3
<1> HIDE DEF s, o, e
<1>5. s * o >= s /\ s * e >= s
  BY <1>2
<1>6. QED
  BY <1>2, <1>3, <1>4, <1>5 DEF s

\* blind_scalar loses no carry: it spells k + r n, in SCALAR_BLIND_BYTES + 1 + ELEM_BYTES octets.
THEOREM BlindScalarIsExact ==
  ASSUME NEW k \in Slices(ELEM_BYTES), NEW r \in Slices(SCALAR_BLIND_BYTES),
         T_BYTES = ELEM_BYTES
  PROVE  /\ BlindScalar(k, r).val = k.val + r.val * N
         /\ Ladderable(BlindScalar(k, r))
<1> DEFINE T == Width(T_BYTES)
           W == Width(SCALAR_BLIND_BYTES)
           W1 == Width(SCALAR_BLIND_BYTES + 1)
           rv == r.val
           kv == k.val
           prod == N * rv
<1>1. /\ T \in Nat \ {0} /\ W \in Nat \ {0} /\ W1 \in Nat \ {0} /\ W <= T /\ W <= W1
      /\ N \in Nat /\ N < T
  BY ElementWidths, CurveSizes
<1>2. /\ FromBE(r) = rv /\ rv \in 0 .. W - 1 /\ r.len = SCALAR_BLIND_BYTES
      /\ FromBE(k) = kv /\ kv \in 0 .. T - 1
  BY OctetsAssumption, BlindAssumption DEF Slices, FromBE
<1>3. /\ BlindScalar(k, r).len = (SCALAR_BLIND_BYTES + 1) + ELEM_BYTES
      /\ BlindScalar(k, r).val
           = ((((prod \div T) + (((prod % T) + kv) \div T)) % T) % W1) * T
             + ((((prod % T) + kv) % T) % T)
  BY <1>2 DEF BlindScalar, ToBE
<1> HIDE DEF T, W, W1, rv, kv
<1>4. prod \in Nat /\ prod + kv < W * T
  <2>1. prod <= (T - 1) * rv
    BY <1>1, <1>2
  <2>2. (T - 1) * rv <= (T - 1) * (W - 1)
    BY <1>1, <1>2
  <2>3. (T - 1) * (W - 1) = W * T - T - W + 1
    BY <1>1
  <2>4. prod \in Nat /\ W * T \in Int /\ (T - 1) * rv \in Int
    BY <1>1, <1>2
  <2> HIDE DEF prod
  <2>5. QED
    BY <1>1, <1>2, <2>1, <2>2, <2>3, <2>4
<1> HIDE DEF prod
<1> DEFINE q == prod \div T
           m == prod % T
           l == m + kv
           c == l \div T
           h == q + c
           b == l % T
<1>5. prod = T * q + m /\ q \in Nat /\ m \in 0 .. T - 1
  <2>1. prod \in Int /\ prod \in Nat /\ T \in Nat \ {0}
    BY <1>1, <1>4
  <2>2. QED
    BY <2>1, DivMod, DivModNat
<1> HIDE DEF q, m
<1>6. l \in Nat /\ l = T * c + b /\ c \in Nat /\ b \in 0 .. T - 1
  <2>1. l \in Int /\ l \in Nat /\ T \in Nat \ {0}
    BY <1>1, <1>2, <1>5
  <2> HIDE DEF l
  <2>2. QED
    BY <2>1, DivMod, DivModNat
<1>7. prod + kv = T * h + b
  <2>0. l = m + kv
    OBVIOUS
  <2> HIDE DEF l
  <2>1. T * (q + c) = T * q + T * c /\ T * q \in Int /\ T * c \in Int
    BY <1>1, <1>5, <1>6
  <2> HIDE DEF c, b
  <2> DEFINE Tq == T * q
             Tc == T * c
  <2>2. T * h = Tq + Tc /\ prod = Tq + m /\ l = Tc + b /\ Tq \in Int /\ Tc \in Int
    BY <1>5, <1>6, <2>1
  <2> HIDE DEF Tq, Tc, h
  <2>3. m \in Int /\ kv \in Int /\ b \in Int
    BY <1>1, <1>2, <1>5, <1>6
  <2>4. QED
    BY <2>0, <2>2, <2>3
<1>8. h \in Nat /\ h < W
  <2>1. h \in Nat
    BY <1>5, <1>6
  <2> HIDE DEF l, c, h, b
  <2>2. SUFFICES ASSUME h >= W PROVE FALSE
    BY <1>1, <2>1
  <2>3. T * h >= W * T /\ T * h \in Int /\ W * T \in Int
    BY <1>1, <2>1, <2>2
  <2>4. QED
    BY <1>1, <1>4, <1>6, <1>7, <2>3
<1>9. h % T = h /\ h % W1 = h /\ b % T = b
  <2> HIDE DEF l, c, h, b
  <2>1. /\ h = T * 0 + h /\ h \in 0 .. T - 1 /\ h = W1 * 0 + h /\ h \in 0 .. W1 - 1
        /\ b = T * 0 + b /\ h \in Int /\ b \in Int
    BY <1>1, <1>6, <1>8
  <2>2. QED
    BY <1>1, <1>6, <2>1, DivModUnique
<1>10. BlindScalar(k, r).val = h * T + b
  BY <1>3, <1>9 DEF q, m
<1>11. h * T + b = k.val + r.val * N
  <2>1. h * T = T * h /\ N * rv = rv * N
    BY <1>1, <1>2, <1>8
  <2> HIDE DEF l, c, h, b
  <2>2. prod \in Nat /\ kv \in Nat /\ T * h + b = kv + prod
    BY <1>2, <1>4, <1>7
  <2>3. QED
    BY <2>1, <2>2 DEF prod, rv, kv
<1>12. Ladderable(BlindScalar(k, r))
  <2>1. /\ SCALAR_BLIND_BYTES + 1 \in Nat /\ ELEM_BYTES \in Nat
        /\ (SCALAR_BLIND_BYTES + 1) + ELEM_BYTES <= SLICE_BYTES
        /\ (SCALAR_BLIND_BYTES + 1) + ELEM_BYTES \in 0 .. SLICE_BYTES
    BY OctetsAssumption, BlindAssumption
  <2>2. Width((SCALAR_BLIND_BYTES + 1) + ELEM_BYTES) = W1 * T
    BY <2>1, WidthSum DEF W1, T
  <2> HIDE DEF l, c, h, b
  <2>3. h * T + b \in Nat
    BY <1>1, <1>6, <1>8
  <2>4. h * T + b < W1 * T
    <3>1. h + 1 <= W1 /\ h \in Nat
      BY <1>1, <1>8
    <3>2. (h + 1) * T <= W1 * T
      BY <1>1, <3>1
    <3>3. (h + 1) * T = h * T + T
      BY <1>1, <3>1
    <3>4. h * T \in Int /\ W1 * T \in Int
      BY <1>1, <3>1
    <3>5. QED
      BY <1>1, <1>6, <3>2, <3>3, <3>4
  <2>5. QED
    BY <1>3, <1>10, <2>1, <2>2, <2>3, <2>4 DEF Ladderable
<1>13. QED
  BY <1>10, <1>11, <1>12

LEMMA LadderScalarIsExact ==
  ASSUME NEW d \in Slices(ELEM_BYTES), NEW r,
         r = Empty \/ (r \in Slices(SCALAR_BLIND_BYTES) /\ T_BYTES = ELEM_BYTES)
  PROVE  /\ LadderScalar(d, r).val = d.val + r.val * N
         /\ Ladderable(LadderScalar(d, r))
<1>1. CASE r = Empty
  <2>1. r.val * N = 0 /\ d.val \in Nat /\ d.val < Width(ELEM_BYTES) /\ d.len = ELEM_BYTES
    BY <1>1, CurveSizes, ElementWidths DEF Empty, Slices
  <2>2. ELEM_BYTES \in 0 .. SLICE_BYTES
    BY OctetsAssumption
  <2>3. QED
    BY <1>1, <2>1, <2>2 DEF LadderScalar, Ladderable
<1>2. CASE r # Empty
  BY <1>2, BlindScalarIsExact DEF LadderScalar
<1>3. QED
  BY <1>1, <1>2

\* d + r n multiplies as d does.
LEMMA BlindedMultiple ==
  ASSUME NEW d \in Nat, NEW r \in Nat, NEW pt
  PROVE  GroupMul(d + r * N, pt) = GroupMul(d, pt)
<1>1. N \in Nat \ {0} /\ d \in Int /\ r \in Int /\ r * N = N * r
  BY CurveSizes
<1>2. (d + N * r) % N = d % N
  BY <1>1, DivModAddMultiple
<1>3. QED
  BY <1>1, <1>2 DEF GroupMul

LEMMA AffineCoordinates ==
  ASSUME NEW pt \in Triples
  PROVE  /\ pt.z # 0 <=> RcbAffine(pt) # Inf
         /\ AffineXCt(pt).valid <=> RcbAffine(pt) # Inf
         /\ pt.z # 0 => /\ AffineXYCt(pt) = RcbAffine(pt)
                        /\ AffineXCt(pt).x = RcbAffine(pt)[1]
<1>1. pt.z # 0 <=> RcbAffine(pt) # Inf
  BY DEF RcbAffine, AffineXYCt, Inf
<1>2. P \in Nat \ {0} /\ pt.z \in Field /\ pt.z = P * 0 + pt.z /\ pt.z \in Int /\ pt.z \in 0 .. P - 1
  BY CurveSizes DEF Triples, PointCt, Field
<1>3. pt.z % P = pt.z
  BY <1>2, DivModUnique
<1>4. AffineXCt(pt).valid <=> pt.z # 0
  BY DEF AffineXCt
<1>5. ASSUME pt.z # 0
      PROVE  AffineXYCt(pt) = RcbAffine(pt) /\ AffineXCt(pt).x = RcbAffine(pt)[1]
  BY <1>3, <1>5 DEF RcbAffine, AffineXYCt, AffineXCt, FermatInv
<1>6. QED
  BY <1>1, <1>4, <1>5

\* The ladder of a whole call: what it walks and from where gives d P.
LEMMA SharedPoint ==
  ASSUME NEW d \in Slices(ELEM_BYTES), NEW r, NEW x, NEW y, NEW blind,
         <<x, y>> \in FinitePoints, FromBE(blind) \in Int,
         r = Empty \/ (r \in Slices(SCALAR_BLIND_BYTES) /\ T_BYTES = ELEM_BYTES)
  PROVE  LET q == ScalarMulCt(LadderScalar(d, r), BlindPoint(x, y, blind))
         IN  q \in Triples /\ RcbAffine(q) = GroupMul(d.val, <<x, y>>)
<1> DEFINE s == LadderScalar(d, r)
           b == BlindPoint(x, y, blind)
<1>1. Ladderable(s) /\ s.val = d.val + r.val * N
  BY LadderScalarIsExact
<1>2. b \in Triples /\ RcbAffine(b) = <<x, y>>
  BY BlindPointRepresents
<1> HIDE DEF s, b
<1>3. ScalarMulCt(s, b) \in Triples /\ RcbAffine(ScalarMulCt(s, b)) = GroupMul(s.val, <<x, y>>)
  BY <1>1, <1>2, LadderMultiplies
<1>4. d.val \in Nat /\ r.val \in Nat
  BY ElementWidths DEF Slices, Empty
<1>5. GroupMul(s.val, <<x, y>>) = GroupMul(d.val, <<x, y>>)
  BY <1>1, <1>4, BlindedMultiple
<1>6. QED
  BY <1>3, <1>5 DEF s, b


LEMMA CoordinatesAreElements ==
  ASSUME NEW pt \in FinitePoints
  PROVE  /\ pt[1] \in Field /\ pt[2] \in Field /\ pt = <<pt[1], pt[2]>>
         /\ ToBE(pt[1], ELEM_BYTES).val = pt[1]
         /\ ToBE(pt[2], ELEM_BYTES).val = pt[2]
<1>1. pt[1] \in Field /\ pt[2] \in Field /\ pt = <<pt[1], pt[2]>>
  BY DEF FinitePoints
<1>2. ELEM_BYTES \in 0 .. SLICE_BYTES
  BY OctetsAssumption
<1>3. \A v \in Field : v \in Nat /\ v < Width(ELEM_BYTES)
  BY CurveSizes, ElementWidths DEF Field
<1>4. QED
  BY <1>1, <1>2, <1>3, ToBEExact

-----------------------------------------------------------------------------
(* The calls                                                               *)

LEMMA RangeOfSecret ==
  ASSUME NEW d \in Slices(ELEM_BYTES)
  PROVE  d.val \in Nat /\ (SecretInRange(d) <=> d.val \in Scalar)
BY OctetsAssumption, CurveSizes, ElementWidths DEF Slices, FromBE, SecretInRange, Scalar

\* What the gates of a call let through.
LEMMA GatesPass ==
  ASSUME NEW c, IsSlice(c.d), IsSlice(c.blind), IsSlice(c.scalarBlind), IsSec1(c.peer),
         WellShaped(c), ValidPeer(c.peer)
  PROVE  /\ c.d \in Slices(ELEM_BYTES) /\ <<c.peer.x, c.peer.y>> \in FinitePoints
         /\ FromBE(c.blind) \in Int
         /\ c.scalarBlind = Empty
            \/ (c.scalarBlind \in Slices(SCALAR_BLIND_BYTES) /\ T_BYTES = ELEM_BYTES)
<1>1. c.d \in Slices(ELEM_BYTES)
  BY DEF IsSlice, WellShaped
<1>2. <<c.peer.x, c.peer.y>> \in FinitePoints
  BY CurveSizes DEF ValidPeer, IsSec1, FinitePoints, Field
<1>3. FromBE(c.blind) \in Int
  <2>1. c.blind = Empty \/ c.blind \in Slices(ELEM_BYTES)
    BY DEF IsSlice, WellShaped
  <2>2. c.blind.val \in Int
    BY <2>1, ElementWidths DEF Slices, Empty
  <2>3. QED
    BY <2>2 DEF FromBE
<1>4. QED
  BY <1>1, <1>2, <1>3 DEF IsSlice, WellShaped

\* ecdh_shared_x_ct, blinded or not: it succeeds when d is in [1, n - 1], and writes x(d P).
THEOREM SharedXIsTheProduct ==
  ASSUME NEW d, NEW peer, NEW blind, NEW r,
         IsSlice(d), IsSlice(blind), IsSlice(r), IsSec1(peer),
         WellShaped([d |-> d, peer |-> peer, blind |-> blind, scalarBlind |-> r]),
         ValidPeer(peer)
  PROVE  SharedX(d, peer, blind, r)
           = [ok |-> d.val \in Scalar,
              out |-> ToBE(IF d.val \in Scalar THEN GroupMul(d.val, <<peer.x, peer.y>>)[1] ELSE 0,
                           ELEM_BYTES)]
<1> DEFINE c == [d |-> d, peer |-> peer, blind |-> blind, scalarBlind |-> r]
           pt == <<peer.x, peer.y>>
           q == ScalarMulCt(LadderScalar(d, r), BlindPoint(peer.x, peer.y, blind))
<1>1. /\ d \in Slices(ELEM_BYTES) /\ pt \in FinitePoints /\ FromBE(blind) \in Int
      /\ r = Empty \/ (r \in Slices(SCALAR_BLIND_BYTES) /\ T_BYTES = ELEM_BYTES)
  <2>1. /\ c.d = d /\ c.peer = peer /\ c.blind = blind /\ c.scalarBlind = r
        /\ WellShaped(c)
    OBVIOUS
  <2> HIDE DEF c
  <2>2. QED
    BY <2>1, GatesPass
<1>2. q \in Triples /\ RcbAffine(q) = GroupMul(d.val, pt)
  BY <1>1, SharedPoint
<1>3. SecretInRange(d) <=> d.val \in Scalar
  BY <1>1, RangeOfSecret
<1>4. d.val \in Scalar => q.z # 0 /\ RcbAffine(q) # Inf
  BY <1>1, <1>2, GroupMulFinite, InfIsNotFinite, AffineCoordinates
<1>5. d.val \in Scalar => AffineXCt(q).valid /\ AffineXCt(q).x = GroupMul(d.val, pt)[1]
  BY <1>2, <1>4, AffineCoordinates
<1>6. SharedX(d, peer, blind, r)
        = LET ax == AffineXCt(q)
              ok == SecretInRange(d) /\ ax.valid
          IN  [ok |-> ok, out |-> ToBE(IF ok THEN ax.x ELSE 0, ELEM_BYTES)]
  BY DEF SharedX
<1> HIDE DEF q, c, pt
<1>7. CASE d.val \in Scalar
  <2>1. (SecretInRange(d) /\ AffineXCt(q).valid) = TRUE /\ (d.val \in Scalar) = TRUE
    BY <1>3, <1>5, <1>7 DEF AffineXCt
  <2>2. QED
    BY <1>5, <1>6, <2>1 DEF pt
<1>8. CASE ~(d.val \in Scalar)
  <2>1. (SecretInRange(d) /\ AffineXCt(q).valid) = FALSE /\ (d.val \in Scalar) = FALSE
    BY <1>3, <1>8
  <2>2. QED
    BY <1>6, <2>1
<1>9. QED
  BY <1>7, <1>8

\* The public point of a scalar in range is a point of the curve, d G, written whole.
THEOREM VerifyingKeyIsTheProduct ==
  ASSUME NEW d \in Slices(ELEM_BYTES), d.val \in Scalar
  PROVE  /\ HasPublicKey(d)
         /\ GroupMul(d.val, G) \in FinitePoints
         /\ VerifyingKey(d) = Sec1(SEC1_BYTES, 4, GroupMul(d.val, G)[1], GroupMul(d.val, G)[2])
         /\ ValidPeer(VerifyingKey(d)) /\ IsSec1(VerifyingKey(d))
<1> DEFINE g == [x |-> GX, y |-> GY, z |-> 1]
           q == PublicPoint(d)
           pt == GroupMul(d.val, G)
<1>1. g = BlindPoint(GX, GY, Empty) /\ <<GX, GY>> \in FinitePoints
  <2>1. P \in Nat \ {0} /\ GX \in Field /\ GY \in Field /\ <<GX, GY>> \in FinitePoints
    BY CurveSizes DEF G, FinitePoints
  <2>2. \A x \in Field : x \otimes 1 = x
    <3>1. ASSUME NEW x \in Field PROVE (x * 1) % P = x
      <4>1. x * 1 = P * 0 + x /\ x * 1 \in Int /\ x \in 0 .. P - 1
        BY <2>1 DEF Field
      <4>2. QED
        BY <2>1, <4>1, DivModUnique
    <3>2. QED
      BY <3>1 DEF \otimes
  <2>3. QED
    BY <2>1, <2>2 DEF BlindPoint
<1>2. FromBE(Empty) \in Int /\ LadderScalar(d, Empty) = d
  BY DEF FromBE, Empty, LadderScalar
<1>3. q \in Triples /\ RcbAffine(q) = pt
  <2>1. /\ ScalarMulCt(LadderScalar(d, Empty), BlindPoint(GX, GY, Empty)) \in Triples
        /\ RcbAffine(ScalarMulCt(LadderScalar(d, Empty), BlindPoint(GX, GY, Empty)))
             = GroupMul(d.val, <<GX, GY>>)
    BY <1>1, <1>2, SharedPoint
  <2>2. QED
    BY <1>1, <1>2, <2>1 DEF PublicPoint, G
<1>4. pt \in FinitePoints
  BY CurveSizes, GroupMulFinite
<1>5. q.z # 0 /\ AffineXYCt(q) = pt
  BY <1>3, <1>4, InfIsNotFinite, AffineCoordinates
<1>6. HasPublicKey(d)
  BY <1>5, RangeOfSecret DEF HasPublicKey, Slices
<1> HIDE DEF q, pt
<1>7. VerifyingKey(d) = Sec1(SEC1_BYTES, 4, pt[1], pt[2])
  BY <1>5 DEF VerifyingKey, q
<1>8. pt[1] \in Field /\ pt[2] \in Field /\ OnCurve(pt[1], pt[2])
  BY <1>4 DEF FinitePoints
<1>9. ValidPeer(VerifyingKey(d)) /\ IsSec1(VerifyingKey(d))
  BY <1>7, <1>8, CurveSizes DEF ValidPeer, IsSec1, Sec1, Field
<1>10. QED
  BY <1>4, <1>6, <1>7, <1>9 DEF pt

-----------------------------------------------------------------------------
(***************************************************************************)
(* Signatures                                                              *)
(***************************************************************************)

LEMMA InverseModN ==
  ASSUME NEW a \in Scalar
  PROVE  InvMod(N, a) \in Scalar /\ (a * InvMod(N, a)) % N = 1
BY Inverses DEF HaveInverses, Scalar, InvMod

LEMMA ModMulRight ==
  ASSUME NEW a \in Int, NEW b \in Int, NEW m \in Nat \ {0}
  PROVE  (b * (a % m)) % m = (b * a) % m
<1>1. a % m \in Int
  BY DivMod
<1>2. b * (a % m) = (a % m) * b /\ b * a = a * b
  BY <1>1
<1>3. ((a % m) * b) % m = (a * b) % m
  BY ModMul
<1>4. QED
  BY <1>2, <1>3

\* A factor and its inverse cancel mod n.
LEMMA TimesInverse ==
  ASSUME NEW a \in Scalar, NEW x \in Int
  PROVE  /\ (InvMod(N, a) * ((a * x) % N)) % N = x % N
         /\ (a * ((InvMod(N, a) * x) % N)) % N = x % N
<1> DEFINE w == InvMod(N, a)
           aw == a * w
<1>1. N \in Nat \ {0} /\ a \in Int /\ w \in Int /\ aw % N = 1 /\ aw \in Int
  BY CurveSizes, InverseModN DEF Scalar
<1> HIDE DEF w
<1>2. a * x \in Int /\ w * x \in Int /\ w * (a * x) = aw * x /\ a * (w * x) = aw * x
  BY <1>1
<1> HIDE DEF aw
<1>3. (aw * x) % N = x % N
  <2>1. ((aw % N) * x) % N = (aw * x) % N
    BY <1>1, ModMul
  <2>2. (aw % N) * x = x
    BY <1>1
  <2>3. QED
    BY <2>1, <2>2
<1>4. (w * ((a * x) % N)) % N = (w * (a * x)) % N /\ (a * ((w * x) % N)) % N = (a * (w * x)) % N
  BY <1>1, <1>2, ModMulRight
<1>5. QED
  BY <1>2, <1>3, <1>4 DEF w

-----------------------------------------------------------------------------
(* The digest                                                              *)

LEMMA DivDiv ==
  ASSUME NEW a \in Nat, NEW m \in Nat \ {0}, NEW n \in Nat \ {0}
  PROVE  (a \div m) \div n = a \div (m * n)
<1> DEFINE q == a \div m
           r == a % m
           q2 == q \div n
           r2 == q % n
           k == m * n
           t == m * r2
<1>1. a = m * q + r /\ q \in Int /\ r \in 0 .. m - 1 /\ a \in Int
  BY DivMod
<1>2. q = n * q2 + r2 /\ q2 \in Int /\ r2 \in 0 .. n - 1
  BY <1>1, DivMod
<1> HIDE DEF q, r, q2, r2
<1>3. k \in Nat \ {0} /\ t \in Nat /\ t <= k - m
  <2>1. m * r2 <= m * (n - 1) /\ m * (n - 1) = m * n - m /\ m * r2 \in Nat /\ m * n \in Nat \ {0}
    BY <1>2
  <2>2. QED
    BY <2>1
<1>4. a = k * q2 + (t + r)
  <2>1. m * (n * q2 + r2) = (m * n) * q2 + m * r2
    BY <1>2
  <2>2. QED
    BY <1>1, <1>2, <2>1
<1> HIDE DEF k, t
<1>5. t + r \in 0 .. k - 1
  BY <1>1, <1>3
<1>6. a \div k = q2
  BY <1>1, <1>2, <1>3, <1>4, <1>5, DivModUnique
<1>7. QED
  BY <1>6 DEF k, q2, q

LEMMA LengthOfN == NBits \in 1 .. BYTE_BITS * ELEM_BYTES
<1> DEFINE L == BYTE_BITS * ELEM_BYTES
           Fits(k) == N < 2^k /\ (k = 0 \/ 2^(k - 1) <= N)
           T == {n \in Nat : n <= L /\ N < 2^n => \E k \in 0 .. n : Fits(k)}
<1>1. /\ L \in Nat /\ N < 2^L /\ N \in Nat /\ N > 2 /\ 2^0 = 1
      /\ \A n \in 0 .. L : 2^n \in Nat
  <2>1. ELEM_BYTES \in 0 .. SLICE_BYTES
    BY OctetsAssumption
  <2>2. L \in 0 .. LongestShift
    BY <2>1, WidthType
  <2>3. QED
    BY <2>2, CurveSizes, PowersOfTwo, LongestShiftType DEF Width
<1> HIDE DEF L
<1>2. 0 \in T
  BY <1>1
<1>3. ASSUME NEW n \in T PROVE n + 1 \in T
  <2> SUFFICES ASSUME n + 1 <= L, N < 2^(n + 1) PROVE \E k \in 0 .. n + 1 : Fits(k)
    OBVIOUS
  <2>1. CASE N < 2^n
    BY <1>1, <2>1
  <2>2. CASE ~(N < 2^n)
    <3>1. n + 1 \in 0 .. n + 1 /\ (n + 1) - 1 = n /\ 2^n <= N
      BY <1>1, <2>2
    <3>2. QED
      BY <3>1
  <2>3. QED
    BY <2>1, <2>2
<1> HIDE DEF T
<1>4. T = Nat
  <2>1. T \in SUBSET Nat
    BY DEF T
  <2>2. QED
    BY <2>1, <1>2, <1>3, NatInductionSet
<1>5. \E k \in 0 .. L : Fits(k)
  BY <1>1, <1>4 DEF T
<1>6. NBits \in 0 .. L /\ Fits(NBits)
  BY <1>5 DEF NBits, BitLen, L
<1>7. NBits # 0
  <2> SUFFICES ASSUME NBits = 0 PROVE FALSE
    OBVIOUS
  <2>1. N < 2^NBits /\ 2^NBits = 2^0
    BY <1>6
  <2>2. QED
    BY <1>1, <2>1
<1>8. QED
  BY <1>1, <1>6, <1>7 DEF L

\* hash_to_scalar keeps the leftmost bits of the digest, whatever its length.
LEMMA LeftmostBitsOfDigest ==
  ASSUME NEW digest, IsSlice(digest), digest.len # 0
  PROVE  /\ LeftmostBits(digest, NBits) \in Nat
         /\ HashToScalar(digest, NBits) = LeftmostBits(digest, NBits)
         /\ DigestScalar(digest) = LeftmostBits(digest, NBits) % N
         /\ DigestScalar(digest) \in 0 .. N - 1
<1> DEFINE nb == (NBits + BYTE_BITS - 1) \div BYTE_BITS
           excess == nb * BYTE_BITS - NBits
           total == digest.len * BYTE_BITS
           v == digest.val
           bb == BYTE_BITS
<1>1. /\ bb \in Nat \ {0} /\ NBits \in 1 .. bb * ELEM_BYTES /\ ELEM_BYTES \in Nat
      /\ ELEM_BYTES <= T_BYTES /\ T_BYTES \in Nat /\ SLICE_BYTES \in Nat
      /\ digest.len \in 1 .. SLICE_BYTES /\ v \in Nat /\ NBits \in Int
  BY OctetsAssumption, LengthOfN DEF IsSlice, Slices
<1>2. /\ nb \in 1 .. ELEM_BYTES /\ excess \in Nat
      /\ nb * bb = NBits + excess
  <2> DEFINE x == NBits + bb - 1
  <2>0. x \in Int /\ bb \in Nat \ {0}
    BY <1>1
  <2>2. x = NBits + bb - 1 /\ nb = x \div bb
    OBVIOUS
  <2> HIDE DEF x, bb, nb
  <2>1. x \in Int /\ x = bb * (x \div bb) + (x % bb) /\ x \div bb \in Int /\ x % bb \in 0 .. bb - 1
    BY <2>0, DivMod
  <2>3. bb * nb >= NBits /\ bb * nb <= bb * ELEM_BYTES + (bb - 1)
    BY <1>1, <2>1, <2>2
  <2>4. nb >= 1
    <3>1. nb <= 0 => bb * nb <= 0
      BY <1>1, <2>1, <2>2
    <3>2. QED
      BY <1>1, <2>1, <2>2, <2>3, <3>1
  <2>5. nb <= ELEM_BYTES
    <3>1. nb >= ELEM_BYTES + 1 => bb * nb >= bb * (ELEM_BYTES + 1)
      BY <1>1, <2>1, <2>2
    <3>2. bb * (ELEM_BYTES + 1) = bb * ELEM_BYTES + bb /\ bb * ELEM_BYTES \in Nat /\ bb * nb \in Int
      BY <1>1, <2>1, <2>2
    <3>3. QED
      BY <1>1, <2>1, <2>2, <2>3, <3>1, <3>2
  <2>6. nb * bb = bb * nb /\ nb \in Int /\ excess = nb * bb - NBits
    BY <1>1, <2>1, <2>2 DEF bb
  <2>7. QED
    BY <1>1, <2>3, <2>4, <2>5, <2>6
<1> HIDE DEF nb
<1>6. \A e \in Nat : e % N \in 0 .. N - 1
  <2> SUFFICES ASSUME NEW e \in Nat PROVE e % N \in 0 .. N - 1
    OBVIOUS
  <2>1. e \in Int /\ N \in Nat \ {0}
    BY CurveSizes
  <2>2. QED
    BY <2>1, DivMod
<1>3. CASE digest.len <= NBits \div BYTE_BITS
  <2> DEFINE f == NBits \div bb
  <2>1. NBits = bb * f + (NBits % bb) /\ f \in Int /\ NBits % bb \in 0 .. bb - 1
    BY <1>1, DivMod
  <2>2. digest.len <= f
    BY <1>3
  <2> HIDE DEF f
  <2>3. digest.len * bb <= bb * f
    <3>1. bb * digest.len <= bb * f /\ bb * digest.len = digest.len * bb
      BY <1>1, <2>1, <2>2
    <3>2. QED
      BY <3>1
  <2>4. f <= ELEM_BYTES
    <3>1. f >= ELEM_BYTES + 1 => bb * f >= bb * (ELEM_BYTES + 1)
      BY <1>1, <2>1
    <3>2. bb * (ELEM_BYTES + 1) = bb * ELEM_BYTES + bb /\ bb * ELEM_BYTES \in Nat /\ bb * f \in Int
      BY <1>1, <2>1
    <3>3. QED
      BY <1>1, <2>1, <3>1, <3>2
  <2>5. total <= NBits
    <3>1. bb * f \in Int /\ digest.len * bb \in Int
      BY <1>1, <2>1
    <3>2. QED
      BY <1>1, <2>1, <2>3, <3>1
  <2>6. FromBE(digest) = v
    BY <1>1, <2>2, <2>4, <2>1 DEF FromBE
  <2>7. HashToScalar(digest, NBits) = v /\ LeftmostBits(digest, NBits) = v
    BY <1>3, <2>5, <2>6 DEF HashToScalar, LeftmostBits
  <2>8. QED
    BY <1>1, <1>6, <2>7 DEF DigestScalar
<1>4. CASE ~(digest.len <= NBits \div BYTE_BITS)
  <2> DEFINE f == NBits \div bb
             rest == digest.len - nb
  <2>1. NBits = bb * f + (NBits % bb) /\ f \in Int /\ NBits % bb \in 0 .. bb - 1
    BY <1>1, DivMod
  <2>2. digest.len >= f + 1
    BY <1>1, <1>4, <2>1
  <2> HIDE DEF f
  <2>3. total > NBits
    <3>1. bb * digest.len >= bb * (f + 1) /\ bb * digest.len = digest.len * bb
      BY <1>1, <2>1, <2>2
    <3>2. bb * (f + 1) = bb * f + bb /\ bb * f \in Int /\ bb * digest.len \in Int
      BY <1>1, <2>1
    <3>3. QED
      BY <1>1, <2>1, <3>1, <3>2
  <2>4. rest \in 0 .. SLICE_BYTES
    <3>1. nb >= digest.len + 1 => bb * nb >= bb * (digest.len + 1)
      BY <1>1, <1>2
    <3>2. /\ bb * (digest.len + 1) = total + bb /\ bb * nb = NBits + excess
          /\ total \in Int /\ excess < bb
      <4>1. bb * (digest.len + 1) = bb * digest.len + bb /\ bb * digest.len = digest.len * bb
            /\ bb * nb = nb * bb /\ total \in Int
        BY <1>1, <1>2
      <4>2. excess < bb
        <5> DEFINE x == NBits + bb - 1
        <5>0. x \in Int /\ bb \in Nat \ {0}
          BY <1>1
        <5>2. nb = x \div bb /\ x = NBits + bb - 1
          BY DEF nb
        <5> HIDE DEF x, bb
        <5>1. x \in Int /\ x = bb * (x \div bb) + (x % bb) /\ x % bb \in 0 .. bb - 1
              /\ x \div bb \in Int
          BY <5>0, DivMod
        <5>3. bb * nb <= x /\ x = NBits + bb - 1 /\ bb * nb \in Int
          BY <1>1, <5>1, <5>2
        <5>4. QED
          BY <1>1, <1>2, <4>1, <5>3
      <4>3. QED
        BY <1>2, <4>1, <4>2
    <3>3. nb <= digest.len
      BY <1>1, <1>2, <2>3, <3>1, <3>2
    <3>4. QED
      BY <1>1, <1>2, <3>3
  <2> DEFINE w == bb * rest
  <2>5. w \in 0 .. LongestShift /\ w \in Nat /\ Width(rest) = 2^w /\ 2^w \in Nat \ {0}
    BY <2>4, WidthType, LongestShiftType DEF Width
  <2>6. w + excess = total - NBits /\ w + excess <= LongestShift
    <3>1. bb * (digest.len - nb) = bb * digest.len - bb * nb
          /\ bb * digest.len = digest.len * bb /\ bb * nb = nb * bb
          /\ digest.len * bb \in Int
      BY <1>1, <1>2
    <3>2. digest.len * bb <= LongestShift
      <4>1. bb * digest.len <= bb * SLICE_BYTES
        BY <1>1, OctetsAssumption
      <4>2. QED
        BY <3>1, <4>1 DEF LongestShift
    <3>3. QED
      BY <1>1, <1>2, <3>1, <3>2, LongestShiftType
  <2>7. excess \in 0 .. LongestShift /\ 2^excess \in Nat \ {0}
    BY <1>2, <2>5, <2>6, PowersOfTwo, LongestShiftType
  <2>8. 2^(total - NBits) = 2^w * 2^excess
    BY <1>2, <2>5, <2>6, PowerSplit
  <2>9. (v \div 2^w) \div 2^excess = v \div 2^(total - NBits)
    BY <1>1, <2>5, <2>7, <2>8, DivDiv
  <2>10. FromBE(Prefix(digest, nb)) = v \div 2^w
    BY <1>1, <1>2, <2>5 DEF FromBE, Prefix
  <2>11. HashToScalar(digest, NBits) = LeftmostBits(digest, NBits)
    BY <1>4, <2>3, <2>9, <2>10, <1>1 DEF HashToScalar, LeftmostBits, nb
  <2>12. LeftmostBits(digest, NBits) \in Nat
    <3>1. LeftmostBits(digest, NBits) = (v \div 2^w) \div 2^excess
      BY <1>1, <2>3, <2>9 DEF LeftmostBits
    <3>2. v \div 2^w \in Nat
      BY <1>1, <2>5, DivModNat
    <3>3. QED
      BY <2>7, <3>1, <3>2, DivModNat
  <2>13. QED
    BY <1>6, <2>11, <2>12 DEF DigestScalar
<1>5. QED
  BY <1>3, <1>4

-----------------------------------------------------------------------------
(* double_scalar_mul                                                       *)

LEMMA TimesOne == \A x \in Field : x \otimes 1 = x /\ x % P = x
<1> SUFFICES ASSUME NEW x \in Field PROVE (x * 1) % P = x /\ x % P = x
  BY DEF \otimes
<1>1. P \in Nat \ {0} /\ x * 1 = x /\ x = P * 0 + x /\ x \in Int /\ x \in 0 .. P - 1 /\ 0 \in Int
  BY CurveSizes DEF Field
<1>2. QED
  BY <1>1, DivModUnique

LEMMA InverseOfOne == InvMod(P, 1) = 1
<1> DEFINE i == InvMod(P, 1)
<1>1. P \in Nat \ {0} /\ P > 3
  BY CurveSizes
<1>2. i \in 1 .. P - 1 /\ (1 * i) % P = 1
  BY <1>1, InverseExists
<1> HIDE DEF i
<1>3. i \in Field /\ i \in Int
  BY <1>1, <1>2 DEF Field
<1>4. (1 * i) % P = i
  BY <1>3, TimesOne
<1>5. QED
  BY <1>2, <1>4 DEF i

\* from_affine
LEMMA FromAffineRepresents ==
  ASSUME NEW x, NEW y, <<x, y>> \in FinitePoints
  PROVE  FromAffine(x, y) \in JTriples /\ JAffine(FromAffine(x, y)) = <<x, y>>
<1>1. x \in Field /\ y \in Field /\ 1 \in Field /\ <<x, y>> \in Points
  BY CurveSizes DEF FinitePoints, Field, Points
<1>2. FromAffine(x, y) = [x |-> x, y |-> y, z |-> 1]
  BY <1>1, TimesOne DEF FromAffine
<1>3. JAffine(FromAffine(x, y)) = <<x, y>>
  BY <1>1, <1>2, TimesOne, InverseOfOne DEF JAffine, IsInfinity
<1>4. QED
  BY <1>1, <1>2, <1>3 DEF JTriples, JPoint

LEMMA InfinityRepresents == Infinity \in JTriples /\ JAffine(Infinity) = Inf
BY CurveSizes, InfIsNotFinite DEF Infinity, JTriples, JPoint, Field, JAffine, IsInfinity

\* Every sum the loop meets is a multiple of G.
LEMMA Combination ==
  ASSUME NEW j \in Nat, NEW a \in Nat, NEW b \in Nat
  PROVE  GroupAdd(GroupMul(a, G), GroupMul(b, GroupMul(j, G))) = GroupMul(a + j * b, G)
<1> DEFINE jb == j * b
<1>1. G \in Points /\ HasOrder(G) /\ jb \in Nat
  BY CurveSizes, Cyclic DEF Points
<1>2. GroupMul(b, GroupMul(j, G)) = GroupMul(jb, G)
  BY <1>1, GroupMulMul
<1> HIDE DEF jb
<1>3. GroupMul(a + jb, G) = GroupAdd(GroupMul(a, G), GroupMul(jb, G))
  BY <1>1, GroupMulAdd
<1>4. QED
  BY <1>2, <1>3 DEF jb

\* The bit of a scalar, as an integer.
BitOf(b) == IF b THEN 1 ELSE 0

PeerOf(q) == <<q.pubkey.x, q.pubkey.y>>

\* One pass doubles both multipliers and adds their next bits, whatever
\* exceptional case add meets.
LEMMA ShamirStepRepresents ==
  ASSUME NEW q, PeerOf(q) \in FinitePoints, NEW acc \in JTriples,
         NEW a \in Nat, NEW b \in Nat, NEW b1 \in BOOLEAN, NEW b2 \in BOOLEAN,
         JAffine(acc) = GroupAdd(GroupMul(a, G), GroupMul(b, PeerOf(q)))
  PROVE  /\ ShamirStep(q, acc, b1, b2) \in JTriples
         /\ JAffine(ShamirStep(q, acc, b1, b2))
              = GroupAdd(GroupMul(2 * a + BitOf(b1), G), GroupMul(2 * b + BitOf(b2), PeerOf(q)))
<1>1. PICK j \in 0 .. N - 1 : PeerOf(q) = GroupMul(j, G)
  BY Cyclic DEF Points
<1>2. j \in Nat /\ G \in Points /\ HasOrder(G) /\ <<GX, GY>> \in FinitePoints
  BY CurveSizes, Cyclic DEF Points, G
<1> DEFINE jb == j * b
           c == a + jb
           M(n) == GroupMul(n, G)
<1>3. jb \in Nat /\ c \in Nat /\ JAffine(acc) = M(c)
  <2>1. jb \in Nat
    BY <1>2
  <2>2. JAffine(acc) = M(a + j * b)
    BY <1>1, <1>2, Combination
  <2>3. QED
    BY <2>1, <2>2
<1>11. \A m, n \in Nat : M(m + n) = GroupAdd(M(m), M(n))
  BY <1>2, GroupMulAdd
<1> HIDE DEF jb
<1>4. Double(acc) \in JTriples /\ JAffine(Double(acc)) = M(c + c)
  <2>1. Double(acc) \in JTriples /\ JAffine(Double(acc)) = GroupAdd(M(c), M(c))
    BY <1>3, JacobianAddition
  <2>2. QED
    BY <1>3, <1>11, <2>1
<1>5. /\ JG \in JTriples /\ JAffine(JG) = M(1)
      /\ JQ(q) \in JTriples /\ JAffine(JQ(q)) = M(j)
  BY <1>1, <1>2, FromAffineRepresents, GroupMulZero DEF JG, JQ, PeerOf, G
<1>6. Add(JG, JQ(q)) \in JTriples /\ JAffine(Add(JG, JQ(q))) = M(1 + j)
  <2>1. Add(JG, JQ(q)) \in JTriples /\ JAffine(Add(JG, JQ(q))) = GroupAdd(M(1), M(j))
    BY <1>5, JacobianAddition
  <2>2. QED
    BY <1>2, <1>11, <2>1
<1> DEFINE f == (IF b1 THEN 1 ELSE 0) + (IF b2 THEN j ELSE 0)
<1>7. /\ ShamirStep(q, acc, b1, b2) \in JTriples
      /\ JAffine(ShamirStep(q, acc, b1, b2)) = M((c + c) + f)
  <2>1. CASE ~b1 /\ ~b2
    <3>1. f = 0 /\ (c + c) + 0 = c + c
      BY <1>3, <2>1
    <3>2. QED
      BY <1>4, <2>1, <3>1 DEF ShamirStep
  <2>2. CASE b1 \/ b2
    <3>1. Addend(q, b1, b2) \in JTriples /\ JAffine(Addend(q, b1, b2)) = M(f) /\ f \in Nat
      <4>1. CASE b1 /\ b2
        BY <1>2, <1>6, <4>1 DEF Addend
      <4>2. CASE b1 /\ ~b2
        <5>1. f = 1
          BY <4>2
        <5>2. QED
          BY <1>5, <4>2, <5>1 DEF Addend
      <4>3. CASE ~b1 /\ b2
        <5>1. f = j
          BY <1>2, <4>3
        <5>2. QED
          BY <1>2, <1>5, <4>3, <5>1 DEF Addend
      <4>4. QED
        BY <2>2, <4>1, <4>2, <4>3
    <3> HIDE DEF f
    <3>2. /\ Add(Double(acc), Addend(q, b1, b2)) \in JTriples
          /\ JAffine(Add(Double(acc), Addend(q, b1, b2))) = GroupAdd(M(c + c), M(f))
      BY <1>4, <3>1, JacobianAddition
    <3>3. M((c + c) + f) = GroupAdd(M(c + c), M(f))
      BY <1>2, <1>3, <3>1, GroupMulAdd
    <3>4. QED
      BY <2>2, <3>2, <3>3 DEF ShamirStep
  <2>3. QED
    BY <2>1, <2>2
<1>8. (c + c) + f = (2 * a + BitOf(b1)) + j * (2 * b + BitOf(b2))
  <2> DEFINE t == j * (2 * b + BitOf(b2))
  <2>1. t = 2 * jb + (IF b2 THEN j ELSE 0)
    <3>1. j * (2 * b + 1) = 2 * (j * b) + j /\ j * (2 * b + 0) = 2 * (j * b) + 0
      BY <1>2
    <3>2. QED
      BY <3>1 DEF BitOf, jb
  <2> HIDE DEF t
  <2>2. (c + c) + f = (2 * a + BitOf(b1)) + t
    BY <1>2, <1>3, <2>1 DEF BitOf
  <2>3. QED
    BY <2>2 DEF t
<1>9. 2 * a + BitOf(b1) \in Nat /\ 2 * b + BitOf(b2) \in Nat
  BY DEF BitOf
<1>10. QED
  BY <1>1, <1>2, <1>7, <1>8, <1>9, Combination

\* A scalar below n has no bit beyond the loop.
LEMMA LoopBitsOfScalar ==
  ASSUME NEW u \in 0 .. N - 1
  PROVE  /\ LoopBits \in Nat /\ LoopBits \in 0 .. LongestShift
         /\ u \div 2^LoopBits = 0 /\ u \div 2^0 = u
         /\ \A e \in 0 .. LoopBits : u \div 2^e \in Nat
         /\ \A e \in 1 .. LoopBits :
              u \div 2^(e - 1) = 2 * (u \div 2^e) + BitOf(Bit(u, e - 1))
<1> DEFINE s == [len |-> ELEM_BYTES, val |-> u]
<1>1. LoopBits = BYTE_BITS * s.len /\ s.val = u /\ u \in Nat /\ BYTE_BITS * ELEM_BYTES \in Nat
  BY OctetsAssumption, CurveSizes DEF LoopBits
<1>2. Ladderable(s)
  <2>1. ELEM_BYTES \in 0 .. SLICE_BYTES
    BY OctetsAssumption
  <2>2. u < Width(ELEM_BYTES)
    BY CurveSizes, ElementWidths
  <2>3. QED
    BY <1>1, <2>1, <2>2 DEF Ladderable
<1> HIDE DEF s
<1> DEFINE L == LoopBits
<1>3. /\ L \in 0 .. LongestShift /\ Consumed(s, 0) = 0 /\ Consumed(s, L) = u
      /\ \A k \in 1 .. L : /\ Consumed(s, k - 1) \in Nat /\ Consumed(s, k) % 2 \in {0, 1}
                           /\ Consumed(s, k) = 2 * Consumed(s, k - 1) + (Consumed(s, k) % 2)
  BY <1>1, <1>2, ConsumedBits
<1>4. L \in Nat /\ \A k \in 0 .. L : Consumed(s, k) = u \div 2^(L - k)
  BY <1>1, <1>3, LongestShiftType DEF Consumed
<1> HIDE DEF L
<1>5. u \div 2^L = 0 /\ u \div 2^0 = u
  <2>1. 0 \in 0 .. L /\ L \in 0 .. L /\ L - 0 = L /\ L - L = 0
    BY <1>4
  <2>2. QED
    BY <1>3, <1>4, <2>1
<1>6. ASSUME NEW e \in 0 .. L PROVE u \div 2^e \in Nat
  <2>1. e \in 0 .. LongestShift
    BY <1>3, LongestShiftType
  <2>2. 2^e \in Nat \ {0}
    BY <2>1, PowersOfTwo
  <2>3. QED
    BY <1>1, <2>2, DivModNat
<1>7. ASSUME NEW e \in 1 .. L
      PROVE u \div 2^(e - 1) = 2 * (u \div 2^e) + BitOf(Bit(u, e - 1))
  <2> DEFINE k == (L - e) + 1
  <2>1. k \in 1 .. L /\ k \in 0 .. L /\ k - 1 \in 0 .. L /\ L - k = e - 1 /\ L - (k - 1) = e
    BY <1>4
  <2>2. Consumed(s, k) = u \div 2^(e - 1) /\ Consumed(s, k - 1) = u \div 2^e
    BY <1>4, <2>1
  <2> HIDE DEF k
  <2> DEFINE v == u \div 2^(e - 1)
  <2>3. v % 2 \in {0, 1} /\ v = 2 * (u \div 2^e) + (v % 2)
    BY <1>3, <2>1, <2>2
  <2>4. BitOf(Bit(u, e - 1)) = v % 2
    BY <2>3 DEF BitOf, Bit
  <2>5. QED
    BY <2>3, <2>4
<1>8. QED
  BY <1>1, <1>3, <1>4, <1>5, <1>6, <1>7 DEF L

\* The accumulators of the first n passes over the scalars v1 and v2.
Passes(f, q, v1, v2, n) ==
  f = [k \in 0 .. n |-> IF k = 0 THEN Infinity
                        ELSE ShamirStep(q, f[k - 1], Bit(v1, LoopBits - k), Bit(v2, LoopBits - k))]

LEMMA PassesExist ==
  ASSUME NEW q, NEW v1, NEW v2
  PROVE  \A n \in Nat : \E f : Passes(f, q, v1, v2, n)
<1> DEFINE T == {n \in Nat : \E f : Passes(f, q, v1, v2, n)}
<1>1. 0 \in T
  <2>1. Passes([k \in 0 .. 0 |-> Infinity], q, v1, v2, 0)
    BY DEF Passes
  <2>2. QED
    BY <2>1
<1>2. ASSUME NEW n \in T PROVE n + 1 \in T
  <2>1. PICK f : Passes(f, q, v1, v2, n)
    OBVIOUS
  <2> DEFINE g == [k \in 0 .. n + 1 |->
                     IF k = n + 1
                     THEN ShamirStep(q, f[n], Bit(v1, LoopBits - (n + 1)),
                                     Bit(v2, LoopBits - (n + 1)))
                     ELSE f[k]]
  <2>2. n + 1 \in Nat /\ Passes(g, q, v1, v2, n + 1)
    BY <2>1 DEF Passes
  <2>3. QED
    BY <2>2
<1> HIDE DEF T
<1>3. T = Nat
  <2>1. T \in SUBSET Nat
    BY DEF T
  <2>2. QED
    BY <2>1, <1>1, <1>2, NatInductionSet
<1>4. QED
  BY <1>3 DEF T

\* The whole loop computes v1 G + v2 Q.
LEMMA LoopCombines ==
  ASSUME NEW q, PeerOf(q) \in FinitePoints, NEW v1 \in 0 .. N - 1, NEW v2 \in 0 .. N - 1,
         NEW f, Passes(f, q, v1, v2, LoopBits)
  PROVE  /\ f[LoopBits] \in JTriples
         /\ JAffine(f[LoopBits]) = GroupAdd(GroupMul(v1, G), GroupMul(v2, PeerOf(q)))
<1> DEFINE L == LoopBits
           pt == PeerOf(q)
           Sum(e) == GroupAdd(GroupMul(v1 \div 2^e, G), GroupMul(v2 \div 2^e, pt))
           T == {n \in Nat : n <= L => f[n] \in JTriples /\ JAffine(f[n]) = Sum(L - n)}
<1>1. L \in Nat /\ pt \in Points /\ G \in Points
  BY LoopBitsOfScalar, CurveSizes DEF Points
<1>2. f[0] = Infinity
  BY <1>1 DEF Passes
<1>3. \A k \in 1 .. L : f[k] = ShamirStep(q, f[k - 1], Bit(v1, L - k), Bit(v2, L - k))
  BY <1>1 DEF Passes
<1> HIDE DEF L
<1>4. 0 \in T
  <2>1. L - 0 = L /\ v1 \div 2^L = 0 /\ v2 \div 2^L = 0
    BY <1>1, LoopBitsOfScalar DEF L
  <2>2. Sum(L - 0) = Inf
    BY <1>1, <2>1, GroupMulZero, InfIsNotFinite, GroupIdentity
  <2>3. QED
    BY <1>2, <2>2, InfinityRepresents
<1>5. ASSUME NEW n \in T PROVE n + 1 \in T
  <2> SUFFICES ASSUME n + 1 <= L
               PROVE  f[n + 1] \in JTriples /\ JAffine(f[n + 1]) = Sum(L - (n + 1))
    OBVIOUS
  <2> DEFINE e == L - n
             a == v1 \div 2^e
             b == v2 \div 2^e
             b1 == Bit(v1, e - 1)
             b2 == Bit(v2, e - 1)
  <2>1. n + 1 \in 1 .. L /\ (n + 1) - 1 = n /\ L - (n + 1) = e - 1 /\ e \in 1 .. L /\ e \in 0 .. L
    BY <1>1
  <2>2. f[n] \in JTriples /\ JAffine(f[n]) = GroupAdd(GroupMul(a, G), GroupMul(b, pt))
    BY <1>1, <2>1
  <2>3. f[n + 1] = ShamirStep(q, f[n], b1, b2)
    BY <1>3, <2>1
  <2> HIDE DEF e
  <2>4. a \in Nat /\ b \in Nat /\ b1 \in BOOLEAN /\ b2 \in BOOLEAN
    BY <2>1, LoopBitsOfScalar DEF L, Bit
  <2>5. v1 \div 2^(e - 1) = 2 * a + BitOf(b1) /\ v2 \div 2^(e - 1) = 2 * b + BitOf(b2)
    BY <2>1, LoopBitsOfScalar DEF L
  <2> HIDE DEF a, b, b1, b2
  <2>6. /\ f[n + 1] \in JTriples
        /\ JAffine(f[n + 1]) = GroupAdd(GroupMul(2 * a + BitOf(b1), G), GroupMul(2 * b + BitOf(b2), pt))
    BY <2>2, <2>3, <2>4, ShamirStepRepresents
  <2>7. QED
    BY <2>1, <2>5, <2>6
<1> HIDE DEF T
<1>6. T = Nat
  <2>1. T \in SUBSET Nat
    BY DEF T
  <2>2. QED
    BY <2>1, <1>4, <1>5, NatInductionSet
<1>7. f[L] \in JTriples /\ JAffine(f[L]) = Sum(L - L) /\ L - L = 0
  <2>1. L \in T /\ L <= L /\ L - L = 0
    BY <1>1, <1>6
  <2> HIDE DEF Sum
  <2>2. QED
    BY <2>1 DEF T
<1>8. v1 \div 2^0 = v1 /\ v2 \div 2^0 = v2
  BY LoopBitsOfScalar
<1>9. QED
  BY <1>7, <1>8 DEF L

-----------------------------------------------------------------------------
(* The verifier accepts exactly the signatures                             *)

\* to_affine_x
LEMMA AffineXRepresents ==
  ASSUME NEW pt \in JTriples
  PROVE  /\ IsInfinity(pt) <=> JAffine(pt) = Inf
         /\ ~IsInfinity(pt) => AffineX(pt) = JAffine(pt)[1]
<1>1. ASSUME ~IsInfinity(pt)
      PROVE  /\ JAffine(pt) = <<JAffine(pt)[1], JAffine(pt)[2]>> /\ AffineX(pt) = JAffine(pt)[1]
  <2> DEFINE z == InvMod(P, pt.z)
             x == pt.x
  <2>1. P \in Nat \ {0} /\ x \in Int /\ pt.z \in 1 .. P - 1
    BY <1>1, CurveSizes DEF JTriples, JPoint, Field, IsInfinity
  <2>2. z \in Int
    BY <2>1, InverseExists
  <2>3. JAffine(pt)[1] = (x \otimes z) \otimes z /\ AffineX(pt) = x \otimes (z \otimes z)
        /\ JAffine(pt) = <<JAffine(pt)[1], JAffine(pt)[2]>>
    BY <1>1 DEF JAffine, AffineX
  <2> HIDE DEF x, z
  <2>4. x * z \in Int /\ z * z \in Int /\ (x * z) * z = (z * z) * x
    BY <2>1, <2>2
  <2>5. (x \otimes z) \otimes z = ((x * z) * z) % P
    BY <2>1, <2>2, <2>4, ModMul DEF \otimes
  <2>6. x \otimes (z \otimes z) = ((z * z) * x) % P
    <3>1. (z * z) % P \in Int
      BY <2>1, <2>4, DivMod
    <3>2. x * ((z * z) % P) = ((z * z) % P) * x
      BY <2>1, <3>1
    <3>3. QED
      BY <2>1, <2>4, <3>2, ModMul DEF \otimes
  <2>7. QED
    BY <2>3, <2>4, <2>5, <2>6
<1>2. IsInfinity(pt) => JAffine(pt) = Inf
  BY DEF JAffine
<1>3. ~IsInfinity(pt) => JAffine(pt) # Inf
  BY <1>1 DEF Inf
<1>4. QED
  BY <1>1, <1>2, <1>3

\* What the gates of a verification leave.
LEMMA VerifierGates ==
  ASSUME NEW q, RequestShape(q), PassesGates(q)
  PROVE  /\ PeerOf(q) \in FinitePoints
         /\ q.r.val \in Scalar /\ q.s.val \in Scalar /\ q.r.val % N = q.r.val
         /\ FromBE(q.r) = q.r.val /\ FromBE(q.s) = q.s.val
         /\ U1(q) \in 0 .. N - 1 /\ U2(q) \in 0 .. N - 1
<1>1. PeerOf(q) \in FinitePoints
  BY CurveSizes
     DEF RequestShape, PassesGates, CoordinatesInRange, IsSec1, PeerOf, FinitePoints, Field
<1>2. FromBE(q.r) = q.r.val /\ FromBE(q.s) = q.s.val
  BY OctetsAssumption DEF PassesGates, WellFormed, FromBE
<1>3. q.r.val \in Scalar /\ q.s.val \in Scalar
  BY <1>2 DEF PassesGates, SignatureInRange, Scalar
<1>4. N \in Nat \ {0} /\ q.r.val = N * 0 + q.r.val /\ q.r.val \in Int /\ q.r.val \in 0 .. N - 1
  BY <1>3, CurveSizes DEF Scalar
<1>5. q.r.val % N = q.r.val
  BY <1>4, DivModUnique
<1>6. DigestScalar(q.digest) \in Int
  BY LeftmostBitsOfDigest, CurveSizes DEF RequestShape, PassesGates, WellFormed
<1>7. U1(q) \in 0 .. N - 1 /\ U2(q) \in 0 .. N - 1
  <2> DEFINE w == InvMod(N, FromBE(q.s))
             e == DigestScalar(q.digest)
  <2>1. w \in Int /\ e \in Int /\ FromBE(q.r) \in Int
    BY <1>2, <1>3, <1>6, InverseModN, CurveSizes DEF Scalar
  <2>2. U1(q) = (e * w) % N /\ U2(q) = (FromBE(q.r) * w) % N
    BY DEF U1, U2
  <2> HIDE DEF w, e
  <2>3. e * w \in Int /\ FromBE(q.r) * w \in Int
    BY <2>1
  <2>4. QED
    BY <1>4, <2>2, <2>3, DivMod
<1>8. QED
  BY <1>1, <1>2, <1>3, <1>5, <1>7

\* The point a verification ends at.
VerifierPoint(q) == GroupAdd(GroupMul(U1(q), G), GroupMul(U2(q), PeerOf(q)))

\* The comparison at the end of a verification.
LEMMA Comparison ==
  ASSUME NEW q, RequestShape(q), PassesGates(q), NEW pt \in JTriples
  PROVE  ShowsR(q, pt) <=> JAffine(pt) # Inf /\ JAffine(pt)[1] % N = q.r.val
BY VerifierGates, AffineXRepresents DEF ShowsR

\* The call as one function.
LEMMA AcceptsComputes ==
  ASSUME NEW q, RequestShape(q)
  PROVE  Accepts(q) <=> /\ PassesGates(q)
                        /\ VerifierPoint(q) # Inf /\ VerifierPoint(q)[1] % N = q.r.val
<1>1. CASE ~PassesGates(q)
  BY <1>1 DEF Accepts
<1>2. CASE PassesGates(q)
  <2> DEFINE v1 == U1(q)
             v2 == U2(q)
             Acc[k \in 0 .. LoopBits] ==
               IF k = 0 THEN Infinity
               ELSE ShamirStep(q, Acc[k - 1], Bit(v1, LoopBits - k), Bit(v2, LoopBits - k))
  <2>0. PeerOf(q) \in FinitePoints /\ v1 \in 0 .. N - 1 /\ v2 \in 0 .. N - 1
    BY <1>2, VerifierGates
  <2>1. \E f : f = [k \in 0 .. LoopBits |-> IF k = 0 THEN Infinity
                     ELSE ShamirStep(q, f[k - 1], Bit(v1, LoopBits - k), Bit(v2, LoopBits - k))]
    <3>1. LoopBits \in Nat
      BY <2>0, LoopBitsOfScalar
    <3>2. PICK f : Passes(f, q, v1, v2, LoopBits)
      BY <3>1, PassesExist
    <3>3. QED
      BY <3>2 DEF Passes
  <2>2. Acc = [k \in 0 .. LoopBits |-> IF k = 0 THEN Infinity
                ELSE ShamirStep(q, Acc[k - 1], Bit(v1, LoopBits - k), Bit(v2, LoopBits - k))]
    BY <2>1
  <2>3. Accepts(q) <=> ShowsR(q, Acc[LoopBits])
    BY <1>2 DEF Accepts
  <2> HIDE DEF Acc
  <2>4. Passes(Acc, q, v1, v2, LoopBits)
    BY <2>2 DEF Passes
  <2>5. /\ Acc[LoopBits] \in JTriples
        /\ JAffine(Acc[LoopBits]) = VerifierPoint(q)
    BY <2>0, <2>4, LoopCombines DEF VerifierPoint
  <2>6. QED
    BY <1>2, <2>3, <2>5, Comparison
<1>3. QED
  BY <1>1, <1>2

\* The multiple of G a verification ends at, for a public key j G.
LEMMA VerifierScalar ==
  ASSUME NEW q, RequestShape(q), PassesGates(q), NEW j \in Nat
  PROVE  LET c == U1(q) + j * U2(q)
             z == LeftmostBits(q.digest, NBits) + q.r.val * j
         IN  /\ c \in Nat /\ z \in Nat
             /\ c % N = (InvMod(N, q.s.val) * z) % N
<1> DEFINE w == InvMod(N, q.s.val)
           e == LeftmostBits(q.digest, NBits)
           D == DigestScalar(q.digest)
           r == q.r.val
           v1 == U1(q)
           v2 == U2(q)
           rj == r * j
           rw == r * w
           Dw == D * w
           jv == j * v2
           k == rw * j
<1>1. /\ N \in Nat \ {0} /\ w \in Nat /\ r \in Nat /\ v1 \in Nat /\ v2 \in Nat
      /\ e \in Nat /\ D = e % N /\ D \in Nat
  <2>1. N \in Nat \ {0} /\ \A x \in Scalar : x \in Nat
    BY CurveSizes DEF Scalar
  <2>2. w \in Nat /\ r \in Nat /\ v1 \in Nat /\ v2 \in Nat
    BY <2>1, VerifierGates, InverseModN
  <2>3. e \in Nat /\ D = e % N /\ D \in Nat
    BY LeftmostBitsOfDigest DEF RequestShape, PassesGates, WellFormed
  <2>4. QED
    BY <2>1, <2>2, <2>3
<1>2. v1 = Dw % N /\ v2 = rw % N
  BY VerifierGates DEF U1, U2
<1> HIDE DEF w, e, D, r, v1, v2
<1>3. /\ rj \in Nat /\ rw \in Nat /\ Dw \in Nat /\ jv \in Nat /\ k \in Nat /\ j * v2 = v2 * j
      /\ rj \in Int /\ rw \in Int /\ Dw \in Int /\ jv \in Int /\ k \in Int /\ j \in Int
      /\ e \in Int /\ D \in Int /\ w \in Int
  BY <1>1
<1>4. Dw + k = w * (D + rj)
  <2>1. w * (D + r * j) = D * w + (r * w) * j
    BY <1>1
  <2>2. QED
    BY <2>1
<1>5. jv % N = k % N
  <2>1. ((rw % N) * j) % N = (rw * j) % N
    BY <1>1, <1>3, ModMul
  <2>2. QED
    BY <1>2, <1>3, <2>1
<1> HIDE DEF jv, k, Dw, rj, rw
<1>6. (v1 + jv) % N = (Dw + k) % N
  <2>1. ((Dw % N) + jv) % N = (Dw + jv) % N
    BY <1>1, <1>3, ModAdd
  <2>2. ((jv % N) + Dw) % N = (jv + Dw) % N /\ ((k % N) + Dw) % N = (k + Dw) % N
    BY <1>1, <1>3, ModAdd
  <2>3. Dw + jv = jv + Dw /\ k + Dw = Dw + k
    BY <1>3
  <2>4. QED
    BY <1>2, <1>5, <2>1, <2>2, <2>3
<1>7. (w * (D + rj)) % N = (w * (e + rj)) % N
  <2> DEFINE a == D + rj
             b == e + rj
  <2>1. a \in Int /\ b \in Int
    BY <1>3
  <2>2. a % N = b % N
    <3>1. ((e % N) + rj) % N = (e + rj) % N
      BY <1>1, <1>3, ModAdd
    <3>2. QED
      BY <1>1, <3>1
  <2> HIDE DEF a, b
  <2>3. (w * (a % N)) % N = (w * a) % N
    BY <1>1, <1>3, <2>1, ModMulRight
  <2>4. (w * (b % N)) % N = (w * b) % N
    BY <1>1, <1>3, <2>1, ModMulRight
  <2>5. QED
    BY <2>2, <2>3, <2>4 DEF a, b
<1>8. (v1 + jv) % N = (w * (e + rj)) % N /\ v1 + jv \in Nat /\ e + rj \in Nat
  BY <1>1, <1>3, <1>4, <1>6, <1>7
<1>9. QED
  BY <1>8 DEF w, e, D, r, v1, v2, jv, rj

LEMMA GroupMulMod ==
  ASSUME NEW k \in Nat
  PROVE  GroupMul(k % N, G) = GroupMul(k, G) /\ k % N \in 0 .. N - 1
<1>1. N \in Nat \ {0} /\ k \in Int
  BY CurveSizes
<1> DEFINE m == k % N
<1>2. m \in 0 .. N - 1 /\ m \in Int
  BY <1>1, DivMod
<1> HIDE DEF m
<1>3. m = N * 0 + m
  BY <1>1, <1>2
<1>4. m % N = m
  BY <1>1, <1>2, <1>3, DivModUnique
<1>5. QED
  BY <1>2, <1>4 DEF GroupMul, m

\* A multiple of G that is not the identity has a scalar.
LEMMA ScalarOf ==
  ASSUME NEW k \in Nat, GroupMul(k, G) # Inf
  PROVE  k % N \in Scalar
<1>1. k % N \in 0 .. N - 1 /\ GroupMul(k % N, G) # Inf
  BY GroupMulMod
<1>2. k % N # 0
  BY <1>1, CurveSizes, GroupMulZero DEF Points
<1>3. QED
  BY <1>1, <1>2 DEF Scalar

LEMMA EquationIsSignature ==
  ASSUME NEW q, RequestShape(q), PassesGates(q)
  PROVE  VerifierPoint(q) # Inf /\ VerifierPoint(q)[1] % N = q.r.val <=> IsSignature(q)
<1> DEFINE w == InvMod(N, q.s.val)
           s == q.s.val
           Z(j) == LeftmostBits(q.digest, NBits) + q.r.val * j
           C(j) == U1(q) + j * U2(q)
<1>1. /\ PeerOf(q) \in FinitePoints /\ PeerOf(q) \in Points /\ q.r.val \in Scalar /\ s \in Scalar
      /\ \A x \in Scalar : x \in Nat /\ x \in 0 .. N - 1
      /\ U1(q) \in Nat /\ U2(q) \in Nat /\ N \in Nat \ {0}
  BY CurveSizes, VerifierGates DEF Scalar, Points
<1>2. \A j \in Nat : C(j) \in Nat /\ Z(j) \in Nat /\ C(j) % N = (w * Z(j)) % N
  BY VerifierScalar
<1>3. ASSUME NEW j \in Nat, PeerOf(q) = GroupMul(j, G)
      PROVE  VerifierPoint(q) = GroupMul(C(j), G)
  BY <1>1, <1>3, Combination DEF VerifierPoint
<1>4. s \in Int /\ w \in Int
  BY <1>1, InverseModN
<1> HIDE DEF Z, C, w
<1>5. ASSUME VerifierPoint(q) # Inf, VerifierPoint(q)[1] % N = q.r.val
      PROVE  IsSignature(q)
  <2>1. PICK j \in 0 .. N - 1 : PeerOf(q) = GroupMul(j, G)
    BY <1>1, Cyclic
  <2>2. j \in Nat /\ G \in Points
    BY <1>1, CurveSizes DEF Points
  <2>3. j \in Scalar
    <3>1. j # 0
      BY <1>1, <2>1, <2>2, GroupMulZero, InfIsNotFinite
    <3>2. QED
      BY <2>1, <3>1 DEF Scalar
  <2> DEFINE k == C(j) % N
  <2>4. C(j) \in Nat /\ VerifierPoint(q) = GroupMul(C(j), G)
    BY <1>2, <1>3, <2>1, <2>2
  <2>5. k \in Scalar /\ GroupMul(k, G)[1] % N = q.r.val
    BY <1>5, <2>4, ScalarOf, GroupMulMod
  <2>6. (s * k) % N = Z(j) % N
    <3>1. k = (w * Z(j)) % N /\ Z(j) \in Int
      BY <1>2, <2>2
    <3>2. QED
      BY <1>1, <3>1, TimesInverse DEF w
  <2> HIDE DEF k
  <2>7. QED
    BY <1>1, <2>1, <2>3, <2>5, <2>6 DEF IsSignature, Z, PeerOf
<1>6. ASSUME IsSignature(q)
      PROVE  VerifierPoint(q) # Inf /\ VerifierPoint(q)[1] % N = q.r.val
  <2>1. PICK d \in Scalar :
          /\ GroupMul(d, G) = PeerOf(q)
          /\ \E k \in Scalar : (s * k) % N = Z(d) % N /\ GroupMul(k, G)[1] % N = q.r.val
    BY <1>6 DEF IsSignature, Z, PeerOf
  <2>2. PICK k \in Scalar : (s * k) % N = Z(d) % N /\ GroupMul(k, G)[1] % N = q.r.val
    BY <2>1
  <2>3. d \in Nat /\ k \in Nat /\ k \in Int /\ k \in 0 .. N - 1
    BY <1>1
  <2>4. C(d) \in Nat /\ Z(d) \in Int /\ C(d) % N = (w * Z(d)) % N
        /\ VerifierPoint(q) = GroupMul(C(d), G)
    BY <1>2, <1>3, <2>1, <2>3
  <2>5. C(d) % N = k % N
    <3>1. (w * (Z(d) % N)) % N = (w * Z(d)) % N
      BY <1>1, <1>4, <2>4, ModMulRight
    <3>2. (w * ((s * k) % N)) % N = k % N
      BY <1>1, <2>3, TimesInverse DEF w
    <3>3. QED
      BY <2>2, <2>4, <3>1, <3>2
  <2>6. VerifierPoint(q) = GroupMul(k, G)
    <3>1. GroupMul(C(d) % N, G) = GroupMul(C(d), G) /\ GroupMul(k % N, G) = GroupMul(k, G)
      BY <2>3, <2>4, GroupMulMod
    <3>2. QED
      BY <2>4, <2>5, <3>1
  <2>7. GroupMul(k, G) # Inf
    BY CurveSizes, GroupMulFinite, InfIsNotFinite
  <2>8. QED
    BY <2>2, <2>6, <2>7
<1>7. QED
  BY <1>5, <1>6

\* verify_for_curve accepts a pair exactly when some nonce explains it under the
\* private key of the public point, and every input is in its exact encoding.
THEOREM AcceptsTheSignatures ==
  ASSUME NEW q, RequestShape(q)
  PROVE  Accepts(q) <=> WellFormed(q) /\ IsSignature(q)
<1>1. WellFormed(q) /\ IsSignature(q) => PassesGates(q)
  <2> SUFFICES ASSUME WellFormed(q), IsSignature(q) PROVE PassesGates(q)
    OBVIOUS
  <2>1. PICK d \in Scalar : GroupMul(d, G) = PeerOf(q)
    BY DEF IsSignature, PeerOf
  <2>2. PeerOf(q) \in FinitePoints
    BY <2>1, CurveSizes, GroupMulFinite
  <2>3. CoordinatesInRange(q) /\ OnCurve(q.pubkey.x, q.pubkey.y)
    BY <2>2, CurveSizes DEF PeerOf, FinitePoints, Field, CoordinatesInRange
  <2>4. FromBE(q.r) = q.r.val /\ FromBE(q.s) = q.s.val
    BY OctetsAssumption DEF WellFormed, FromBE
  <2>5. SignatureInRange(q)
    BY <2>4 DEF SignatureInRange, IsSignature, Scalar
  <2>6. QED
    BY <2>3, <2>5 DEF PassesGates
<1>2. PassesGates(q) => WellFormed(q)
  BY DEF PassesGates
<1>3. QED
  BY <1>1, <1>2, AcceptsComputes, EquationIsSignature

-----------------------------------------------------------------------------
(* The signer computes the textbook pair                                   *)

LEMMA FermatType ==
  /\ \A z \in Field : FermatInv(P, z) \in Int
  /\ \A k \in Int : FermatInv(N, k) \in Int
  /\ \A k \in Scalar : FermatInv(N, k) = InvMod(N, k)
<1>0. P \in Nat \ {0} /\ N \in Nat \ {0}
  BY CurveSizes
<1>1. ASSUME NEW z \in Field PROVE FermatInv(P, z) \in Int
  <2>1. z % P = z /\ z \in 0 .. P - 1
    BY <1>1, TimesOne DEF Field
  <2>2. z # 0 => InvMod(P, z) \in Int
    BY <1>0, <2>1, InverseExists
  <2>3. QED
    BY <2>1, <2>2 DEF FermatInv
<1>2. ASSUME NEW k \in Int PROVE FermatInv(N, k) \in Int
  <2>1. k % N \in 0 .. N - 1
    BY <1>0, DivMod
  <2>2. k % N # 0 => k % N \in Scalar
    BY <2>1 DEF Scalar
  <2>3. k % N # 0 => InvMod(N, k % N) \in Int
    BY <1>0, <2>2, InverseModN DEF Scalar
  <2>4. QED
    BY <2>3 DEF FermatInv
<1>3. ASSUME NEW k \in Scalar PROVE FermatInv(N, k) = InvMod(N, k)
  <2>1. k \in Int /\ k \in 0 .. N - 1 /\ k # 0 /\ k = N * 0 + k /\ 0 \in Int
    BY <1>0 DEF Scalar
  <2>2. k % N = k
    BY <1>0, <2>1, DivModUnique
  <2>3. QED
    BY <2>1, <2>2 DEF FermatInv
<1>4. QED
  BY <1>1, <1>2, <1>3

\* The nonce and the secret enter as d and k; lambda and r0 leave no trace.
SignerArguments(d, digest, nonce, lambda, r0) ==
  /\ d \in Slices(ELEM_BYTES) /\ nonce \in Slices(ELEM_BYTES)
  /\ IsSlice(digest) /\ digest.len # 0
  /\ FromBE(lambda) \in Int
  /\ r0 = Empty \/ (r0 \in Slices(SCALAR_BLIND_BYTES) /\ T_BYTES = ELEM_BYTES)

\* The ladder of the signer, and what its coordinate is when the nonce is in range.
LEMMA SignerPoint ==
  ASSUME NEW d, NEW digest, NEW nonce, NEW lambda, NEW r0,
         SignerArguments(d, digest, nonce, lambda, r0)
  PROVE  LET ax == AffineXCt(ScalarMulCt(LadderScalar(nonce, r0), BlindPoint(GX, GY, lambda)))
         IN  /\ ax.x \in Int
             /\ nonce.val \in Scalar => ax.valid /\ ax.x = GroupMul(nonce.val, G)[1]
<1> DEFINE pt == ScalarMulCt(LadderScalar(nonce, r0), BlindPoint(GX, GY, lambda))
<1>1. <<GX, GY>> \in FinitePoints
  BY CurveSizes DEF G
<1>2. pt \in Triples /\ RcbAffine(pt) = GroupMul(nonce.val, G)
  BY <1>1, SharedPoint DEF SignerArguments, G
<1> HIDE DEF pt
<1>3. AffineXCt(pt).x \in Int
  <2>1. pt.x \in Field /\ pt.z \in Field /\ P \in Nat \ {0}
    BY <1>2, CurveSizes DEF Triples, PointCt
  <2> DEFINE f == FermatInv(P, pt.z)
  <2>2. f \in Int /\ pt.x \in Int
    BY <2>1, FermatType DEF Field
  <2> HIDE DEF f
  <2>3. pt.x * f \in Int
    BY <2>2
  <2>4. (pt.x * f) % P \in Int
    BY <2>1, <2>3, DivMod
  <2>5. QED
    BY <2>4 DEF AffineXCt, f, \otimes
<1>4. nonce.val \in Scalar => GroupMul(nonce.val, G) # Inf
  BY CurveSizes, GroupMulFinite, InfIsNotFinite
<1>5. nonce.val \in Scalar => AffineXCt(pt).valid /\ AffineXCt(pt).x = GroupMul(nonce.val, G)[1]
  BY <1>2, <1>4, AffineCoordinates
<1>6. QED
  BY <1>3, <1>5 DEF pt

\* Signing succeeds exactly on a secret and a nonce in [1, n - 1] neither half of
\* whose pair is zero, and then returns x(k G) mod n and (e + r d) / k mod n: the
\* blinders change nothing, and both halves are written whole.
THEOREM SignatureIsTheTextbookPair ==
  ASSUME NEW d, NEW digest, NEW nonce, NEW lambda, NEW r0,
         SignerArguments(d, digest, nonce, lambda, r0)
  PROVE  LET sig == Signature(d, digest, nonce, lambda, r0)
             r == GroupMul(nonce.val, G)[1] % N
             x == (LeftmostBits(digest, NBits) + r * d.val) % N
         IN  /\ sig.ok \in BOOLEAN /\ sig.r \in Slices(ELEM_BYTES) /\ sig.s \in Slices(ELEM_BYTES)
             /\ sig.ok <=> d.val \in Scalar /\ nonce.val \in Scalar /\ r # 0 /\ x # 0
             /\ sig.ok => /\ sig.r.val = r /\ (sig.s.val * nonce.val) % N = x
                          /\ sig.r.val \in Scalar /\ sig.s.val \in Scalar
<1> DEFINE ax == AffineXCt(ScalarMulCt(LadderScalar(nonce, r0), BlindPoint(GX, GY, lambda)))
           rr == ax.x % N
           dv == FromBE(d)
           k == nonce.val
           D == DigestScalar(digest)
           e == LeftmostBits(digest, NBits)
           w == FermatInv(N, FromBE(nonce))
           x == (D + rr * dv) % N
           s == (w * x) % N
           r == GroupMul(k, G)[1] % N
<1>1. Signature(d, digest, nonce, lambda, r0)
        = [r |-> ToBE(rr, ELEM_BYTES), s |-> ToBE(s, ELEM_BYTES),
           ok |-> SecretInRange(d) /\ SecretInRange(nonce) /\ ax.valid /\ rr # 0 /\ s # 0]
  BY DEF Signature
<1>2. /\ N \in Nat \ {0} /\ dv = d.val /\ dv \in Nat /\ FromBE(nonce) = k /\ k \in Nat
      /\ (SecretInRange(d) <=> dv \in Scalar) /\ (SecretInRange(nonce) <=> k \in Scalar)
  <2>1. FromBE(d) = d.val /\ FromBE(nonce) = nonce.val
    BY OctetsAssumption DEF SignerArguments, Slices, FromBE
  <2>2. QED
    BY <2>1, CurveSizes, RangeOfSecret DEF SignerArguments
<1>3. e \in Nat /\ D = e % N /\ D \in Nat /\ D \in Int /\ e \in Int
  BY <1>2, LeftmostBitsOfDigest DEF SignerArguments
<1>4. ax.x \in Int /\ (k \in Scalar => ax.valid /\ rr = r)
  BY SignerPoint
<1>5. rr \in 0 .. N - 1 /\ rr \in Int /\ rr \in Nat
  <2> DEFINE a == ax.x
  <2>1. a \in Int
    BY <1>4
  <2> HIDE DEF a, ax, rr, dv, D, e, w, k, r
  <2>2. N \in Nat \ {0}
    BY <1>2
  <2>3. a % N \in 0 .. N - 1
    BY <2>1, <2>2, DivMod
  <2>4. a % N \in Int /\ a % N \in Nat
    BY <2>2, <2>3
  <2>5. QED
    BY <2>3, <2>4 DEF a, rr
<1>6. w \in Int /\ (k \in Scalar => w = InvMod(N, k))
  BY <1>2, FermatType
<1> HIDE DEF ax, rr, dv, D, e, w, k, r
<1>7. x \in 0 .. N - 1 /\ x \in Int /\ x = (e + rr * dv) % N
  <2> DEFINE rd == rr * dv
  <2>1. rd \in Int
    BY <1>2, <1>5
  <2> HIDE DEF rd
  <2>2. D + rd \in Int
    BY <1>3, <2>1
  <2>3. (D + rd) % N \in 0 .. N - 1 /\ (D + rd) % N = (e + rd) % N
    BY <1>2, <1>3, <2>1, <2>2, DivMod, ModAdd
  <2>4. QED
    BY <1>2, <2>3 DEF rd
<1> HIDE DEF x
<1>8. s \in 0 .. N - 1 /\ s \in Int /\ (x = 0 => s = 0)
  <2>1. w * x \in Int /\ (x = 0 => w * x = N * 0 + 0)
    BY <1>2, <1>6, <1>7
  <2>2. (w * x) % N \in 0 .. N - 1
    BY <1>2, <2>1, DivMod
  <2>3. x = 0 => (w * x) % N = 0
    <3>1. 0 \in Int /\ 0 \in 0 .. N - 1
      BY <1>2
    <3>2. QED
      BY <1>2, <2>1, <3>1, DivModUnique
  <2>4. QED
    BY <1>2, <2>2, <2>3
<1>9. k \in Scalar => (k * s) % N = x
  <2>1. k \in Scalar => (k * s) % N = x % N
    BY <1>6, <1>7, TimesInverse
  <2>2. x = N * 0 + x /\ 0 \in Int
    BY <1>2, <1>7
  <2>3. x % N = x
    BY <1>2, <1>7, <2>2, DivModUnique
  <2>4. QED
    BY <2>1, <2>3
<1> HIDE DEF s
<1>10. k \in Scalar => (s * k) % N = x /\ (s = 0 => x = 0)
  <2>1. s * k = k * s /\ (s = 0 => k * s = N * 0 + 0) /\ 0 \in Int /\ 0 \in 0 .. N - 1
    BY <1>2, <1>8
  <2>2. s = 0 => (k * s) % N = 0
    <3>1. 0 % N = 0
      BY <1>2, <2>1, DivModUnique
    <3>2. QED
      BY <1>2, <2>1, <3>1
  <2>3. QED
    BY <1>9, <2>1, <2>2
<1>11. /\ ToBE(rr, ELEM_BYTES) \in Slices(ELEM_BYTES) /\ ToBE(s, ELEM_BYTES) \in Slices(ELEM_BYTES)
       /\ ToBE(rr, ELEM_BYTES).val = rr /\ ToBE(s, ELEM_BYTES).val = s
  <2>1. ELEM_BYTES \in 0 .. SLICE_BYTES
    BY OctetsAssumption
  <2>2. rr < Width(ELEM_BYTES) /\ s < Width(ELEM_BYTES) /\ rr \in Nat /\ s \in Nat
    BY <1>2, <1>5, <1>8, CurveSizes, ElementWidths
  <2>3. QED
    BY <1>5, <1>8, <2>1, <2>2, ToBEType, ToBEExact
<1> DEFINE sig == Signature(d, digest, nonce, lambda, r0)
<1>12. /\ sig.r = ToBE(rr, ELEM_BYTES) /\ sig.s = ToBE(s, ELEM_BYTES)
       /\ sig.ok = (SecretInRange(d) /\ SecretInRange(nonce) /\ ax.valid /\ rr # 0 /\ s # 0)
  BY <1>1
<1> HIDE DEF sig
<1>13. sig.ok \in BOOLEAN
  BY <1>12
<1>14. sig.ok <=> dv \in Scalar /\ k \in Scalar /\ r # 0 /\ (e + r * dv) % N # 0
  <2>1. sig.ok <=> dv \in Scalar /\ k \in Scalar /\ ax.valid /\ rr # 0 /\ s # 0
    BY <1>2, <1>12
  <2>2. CASE k \in Scalar
    BY <1>4, <1>7, <1>8, <1>10, <2>1, <2>2
  <2>3. CASE ~(k \in Scalar)
    BY <2>1, <2>3
  <2>4. QED
    BY <2>2, <2>3
<1>15. ASSUME sig.ok
       PROVE  /\ sig.r.val = r /\ (sig.s.val * k) % N = (e + r * dv) % N
              /\ sig.r.val \in Scalar /\ sig.s.val \in Scalar
  <2>1. k \in Scalar /\ rr # 0 /\ s # 0 /\ rr = r
    BY <1>2, <1>4, <1>12, <1>15
  <2>2. sig.r.val = rr /\ sig.s.val = s
    BY <1>11, <1>12
  <2>3. rr \in Scalar /\ s \in Scalar
    BY <1>5, <1>8, <2>1 DEF Scalar
  <2>4. QED
    BY <1>7, <1>10, <2>1, <2>2, <2>3
<1>16. sig.r \in Slices(ELEM_BYTES) /\ sig.s \in Slices(ELEM_BYTES)
  BY <1>11, <1>12
<1>17. QED
  BY <1>2, <1>13, <1>14, <1>15, <1>16 DEF sig, r, e, k

\* A derived nonce is a slice of the element width that spells a scalar.
LEMMA NonceType ==
  ASSUME NEW n \in Nonces
  PROVE  IsSlice(n) /\ n.len = ELEM_BYTES /\ n.val \in Scalar
<1>1. PICK v \in Scalar : n = ToBE(v, ELEM_BYTES)
  BY DEF Nonces
<1>2. v \in Nat /\ v < Width(ELEM_BYTES) /\ ELEM_BYTES \in 0 .. SLICE_BYTES
  BY CurveSizes, ElementWidths, OctetsAssumption DEF Scalar
<1>3. n \in Slices(ELEM_BYTES) /\ n.val = v
  BY <1>1, <1>2, ToBEType, ToBEExact
<1>4. QED
  BY <1>2, <1>3 DEF IsSlice, Slices

\* A pair of halves, asked about under the public key of d.
OwnRequest(d, digest, r, s) ==
  LET own == GroupMul(d.val, G)
  IN  [pubkey |-> Sec1(SEC1_BYTES, 4, own[1], own[2]), digest |-> digest, r |-> r, s |-> s]

\* What the signer makes is a signature as the verifier understands it.
LEMMA SignatureIsASignature ==
  ASSUME NEW d, NEW digest, NEW nonce, NEW lambda, NEW r0,
         SignerArguments(d, digest, nonce, lambda, r0),
         Signature(d, digest, nonce, lambda, r0).ok
  PROVE  IsSignature(OwnRequest(d, digest, Signature(d, digest, nonce, lambda, r0).r,
                                Signature(d, digest, nonce, lambda, r0).s))
<1> DEFINE sig == Signature(d, digest, nonce, lambda, r0)
           r == sig.r
           s == sig.s
           pt == GroupMul(d.val, G)
           e == LeftmostBits(digest, NBits)
<1>1. /\ d.val \in Scalar /\ nonce.val \in Scalar /\ r.val \in Scalar /\ s.val \in Scalar
      /\ r.val = GroupMul(nonce.val, G)[1] % N
      /\ (s.val * nonce.val) % N = (e + r.val * d.val) % N
  BY SignatureIsTheTextbookPair
<1>2. pt = <<pt[1], pt[2]>>
  BY <1>1, VerifyingKeyIsTheProduct DEF FinitePoints, SignerArguments
<1> HIDE DEF sig, r, s, pt, e
<1> DEFINE q == [pubkey |-> Sec1(SEC1_BYTES, 4, pt[1], pt[2]), digest |-> digest,
                 r |-> r, s |-> s]
<1>3. /\ q.pubkey.x = pt[1] /\ q.pubkey.y = pt[2] /\ q.digest = digest
      /\ q.r = r /\ q.s = s
  BY DEF Sec1
<1> HIDE DEF q
<1>4. /\ GroupMul(d.val, G) = <<q.pubkey.x, q.pubkey.y>>
      /\ (q.s.val * nonce.val) % N
           = (LeftmostBits(q.digest, NBits) + q.r.val * d.val) % N
      /\ GroupMul(nonce.val, G)[1] % N = q.r.val
      /\ q.r.val \in Scalar /\ q.s.val \in Scalar
  BY <1>1, <1>2, <1>3 DEF pt, e
<1>5. IsSignature(q)
  BY <1>1, <1>4 DEF IsSignature
<1>6. QED
  BY <1>5 DEF OwnRequest, q, pt, r, s, sig
=============================================================================
