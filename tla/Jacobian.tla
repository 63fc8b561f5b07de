------------------------------ MODULE Jacobian ------------------------------
(***************************************************************************)
(* The verifier's variable-time point arithmetic: Jacobian coordinates,    *)
(* (X : Y : Z) for (X/Z^2, Y/Z^3), the identity encoded as Z = 0.          *)
(***************************************************************************)
EXTENDS Curve

JPoint == [x : Field, y : Field, z : Field]

Infinity == [x |-> 1, y |-> 1, z |-> 0]
IsInfinity(pt) == pt.z = 0
FromAffine(x, y) == [x |-> x % P, y |-> y % P, z |-> 1]

\* dbl-2007-bl, general a.
Double(pt) ==
  LET xx   == pt.x \otimes pt.x
      yy   == pt.y \otimes pt.y
      yyyy == yy \otimes yy
      zz   == pt.z \otimes pt.z
      s    == (2 * ((((pt.x + yy) \otimes (pt.x + yy)) \ominus xx) \ominus yyyy)) % P
      m    == (3 * xx) \oplus (A \otimes (zz \otimes zz))
      x3   == ((m \otimes m) \ominus s) \ominus s
  IN  IF IsInfinity(pt) THEN Infinity
      ELSE [x |-> x3,
            y |-> (m \otimes (s \ominus x3)) \ominus (8 * yyyy),
            z |-> (((pt.y + pt.z) \otimes (pt.y + pt.z)) \ominus yy) \ominus zz]

\* add-2007-bl, for two finite points with different affine x.
AddDistinct(p1, p2, u1, s1, h, sd) ==
  LET i  == (2 * h) \otimes (2 * h)
      j  == h \otimes i
      rr == (2 * sd) % P
      v  == u1 \otimes i
      x3 == ((rr \otimes rr) \ominus j) \ominus (2 * v)
      zz == (p1.z + p2.z) \otimes (p1.z + p2.z)
  IN  [x |-> x3,
       y |-> (rr \otimes (v \ominus x3)) \ominus (2 * (s1 \otimes j)),
       z |-> ((zz \ominus (p1.z \otimes p1.z)) \ominus (p2.z \otimes p2.z)) \otimes h]

\* Mutant: P + P falls into the branch of P + (-P).
AddWithoutDoubling(p1, p2) ==
  LET z1z1 == p1.z \otimes p1.z
      z2z2 == p2.z \otimes p2.z
      u1   == p1.x \otimes z2z2
      u2   == p2.x \otimes z1z1
      s1   == p1.y \otimes p2.z \otimes z2z2
      s2   == p2.y \otimes p1.z \otimes z1z1
  IN  CASE IsInfinity(p1)                                        -> p2
        [] ~IsInfinity(p1) /\ IsInfinity(p2)                     -> p1
        [] ~IsInfinity(p1) /\ ~IsInfinity(p2) /\ u2 \ominus u1 = 0 -> Infinity
        [] OTHER -> AddDistinct(p1, p2, u1, s1, u2 \ominus u1, s2 \ominus s1)

\* add: identity operands, P + P and P + (-P) are told apart before the formula.
Add(p1, p2) ==
  LET z1z1 == p1.z \otimes p1.z
      z2z2 == p2.z \otimes p2.z
      u1   == p1.x \otimes z2z2
      u2   == p2.x \otimes z1z1
      s1   == p1.y \otimes p2.z \otimes z2z2
      s2   == p2.y \otimes p1.z \otimes z1z1
      h    == u2 \ominus u1
      sd   == s2 \ominus s1
  IN  CASE IsInfinity(p1)                             -> p2
        [] ~IsInfinity(p1) /\ IsInfinity(p2)          -> p1
        [] ~IsInfinity(p1) /\ ~IsInfinity(p2) /\ h = 0 ->
             IF sd = 0 THEN Double(p1) ELSE Infinity
        [] OTHER                                      -> AddDistinct(p1, p2, u1, s1, h, sd)

\* The affine point a Jacobian triple stands for (a reference, not code).
JAffine(pt) ==
  IF IsInfinity(pt) THEN Inf
  ELSE LET zinv == InvMod(P, pt.z)
       IN  <<pt.x \otimes zinv \otimes zinv, pt.y \otimes zinv \otimes zinv \otimes zinv>>

\* to_affine_x of a point that is not the identity.
AffineX(pt) == LET zinv == InvMod(P, pt.z) IN pt.x \otimes (zinv \otimes zinv)

\* bit i of a scalar.
Bit(v, i) == (v \div 2^i) % 2 = 1
=============================================================================
