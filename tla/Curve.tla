------------------------------- MODULE Curve --------------------------------
(***************************************************************************)
(* The Curve trait and the prime field under it.  A curve is six integers, *)
(* each ELEM_BYTES octets wide; the trait's "implementor contract" (P and  *)
(* N prime, the generator of order exactly N, cofactor 1, A and B reduced) *)
(* is CurveContract, which the code assumes and cannot check.  Field       *)
(* arithmetic is modmath's, outside this repository.                       *)
(*                                                                         *)
(* The second half is not code: it is the affine group law, the reference  *)
(* every projective formula of the crate is compared with.                 *)
(***************************************************************************)
EXTENDS Octets

CONSTANTS P, A, B, N, GX, GY

\* A SEC1 uncompressed point: its length, its first octet, its coordinates.
Sec1(len, tag, x, y) == [len |-> len, tag |-> tag, x |-> x, y |-> y]
SEC1_BYTES == 1 + 2 * ELEM_BYTES

\* Its coordinates are what octets spell.
IsSec1(sec1) == sec1.x \in Nat /\ sec1.y \in Nat

Elem == 0 .. Width(ELEM_BYTES) - 1
Field == 0 .. P - 1
Scalar == 1 .. N - 1

a \oplus b  == (a + b) % P
a \ominus b == (a - b) % P
a \otimes b == (a * b) % P

\* FieldOps::inv and FieldCt::inv_fermat on a nonzero residue of a prime m.
InvMod(m, a) == CHOOSE i \in 1 .. m - 1 : (a * i) % m = 1

\* FieldCt::exp with the exponent fermat_exp: defined everywhere, 0 at 0.
FermatInv(m, a) == IF a % m = 0 THEN 0 ELSE InvMod(m, a % m)

\* is_on_curve: y^2 = x^3 + a x + b, on residues.
OnCurve(x, y) == y \otimes y = (x \otimes x \otimes x) \oplus (A \otimes x) \oplus B

-----------------------------------------------------------------------------
(* The affine group law: <<>> is the identity, <<x, y>> a finite point.    *)

Inf == <<>>
G == <<GX, GY>>
FinitePoints == {pt \in Field \X Field : OnCurve(pt[1], pt[2])}
Points == FinitePoints \cup {Inf}

Negate(pt) == IF pt = Inf THEN Inf ELSE <<pt[1], 0 \ominus pt[2]>>

\* The third point of the line of the given slope through p1 and p2, reflected.
Chord(slope, p1, p2) ==
  LET x == (slope \otimes slope) \ominus (p1[1] + p2[1])
  IN  <<x, (slope \otimes (p1[1] \ominus x)) \ominus p1[2]>>

GroupAdd(p1, p2) ==
  IF p1 = Inf THEN p2
  ELSE IF p2 = Inf THEN p1
  ELSE IF p1 = Negate(p2) THEN Inf
  ELSE IF p1 = p2
  THEN Chord(((3 * p1[1] * p1[1] + A) % P) \otimes InvMod(P, (2 * p1[2]) % P), p1, p1)
  ELSE Chord((p2[2] \ominus p1[2]) \otimes InvMod(P, p2[1] \ominus p1[1]), p1, p2)

\* The multiples 0 .. N of every point.
Multiples ==
  [pt \in {p : p \in Points} |->
     LET Times[k \in 0 .. N] == IF k = 0 THEN Inf ELSE GroupAdd(Times[k - 1], pt)
     IN  [k \in 0 .. N |-> Times[k]]]

\* k times pt, for any k: the order of every point divides N.
GroupMul(k, pt) == Multiples[pt][k % N]

IsPrime(m) == m > 1 /\ \A d \in 2 .. m - 1 : m % d # 0

\* "Implementor contract -- the verifier assumes, and cannot check".
CurveContract ==
  /\ P \in Nat /\ P > 3 /\ IsPrime(P) /\ P < Width(ELEM_BYTES)
  /\ N \in Nat /\ N > 2 /\ IsPrime(N) /\ N < Width(ELEM_BYTES)
  /\ A \in Field /\ B \in Field /\ G \in FinitePoints
  /\ Multiples[G][N] = Inf
  /\ {Multiples[G][k] : k \in 0 .. N - 1} = Points

ASSUME CurveAssumption == CurveContract
=============================================================================
