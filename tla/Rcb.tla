-------------------------------- MODULE Rcb ---------------------------------
(***************************************************************************)
(* The secret-scalar arithmetic: homogeneous projective coordinates,       *)
(* (X : Y : Z) for (X/Z, Y/Z) with identity (0 : 1 : 0), one complete      *)
(* addition formula for every pair of operands, a ladder that consumes a   *)
(* fixed number of bits, and the two blinders (coordinate and scalar).     *)
(***************************************************************************)
EXTENDS Curve

CONSTANT SCALAR_BLIND_BYTES   \* octets of the scalar blinder r (8 in the code)

ASSUME BlindAssumption == SCALAR_BLIND_BYTES \in 1 .. ELEM_BYTES

PointCt == [x : Field, y : Field, z : Field]

IdentityCt == [x |-> 0, y |-> 1, z |-> 0]

\* b3 = b + b + b, computed once per call; the mutant stops at 2 b.
B3Short == (2 * B) % P
B3 == (3 * B) % P

\* Renes-Costello-Batina 2015, Algorithm 1: the code's forty field
\* operations, with the temporaries it overwrites given names.
AddRcb(p, q) ==
  LET t0 == p.x \otimes q.x
      t1 == p.y \otimes q.y
      t2 == p.z \otimes q.z
      xy == ((p.x + p.y) \otimes (q.x + q.y)) \ominus (t0 + t1)
      xz == ((p.x + p.z) \otimes (q.x + q.z)) \ominus (t0 + t2)
      yz == ((p.y + p.z) \otimes (q.y + q.z)) \ominus (t1 + t2)
      w  == (B3 \otimes t2) \oplus (A \otimes xz)
      lo == t1 \ominus w
      hi == t1 \oplus w
      m  == (3 * t0) \oplus (A \otimes t2)
      v  == (B3 \otimes xz) \oplus (A \otimes (t0 \ominus (A \otimes t2)))
  IN  [x |-> (xy \otimes lo) \ominus (yz \otimes v),
       y |-> (lo \otimes hi) \oplus (m \otimes v),
       z |-> (yz \otimes hi) \oplus (xy \otimes m)]

\* One step! of scalar_mul_ct: both additions run, the bit selects (cswap).
LadderStep(r, bit, base) ==
  LET doubled == AddRcb(r, r)
      added   == AddRcb(doubled, base)
  IN  IF bit = 1 THEN added ELSE doubled

\* scalar_mul_ct over the octets of a slice, most significant bit first.
ScalarMulCt(scalar, base) ==
  LET bits == BYTE_BITS * scalar.len
      Acc[k \in 0 .. bits] ==
        IF k = 0 THEN IdentityCt
        ELSE LadderStep(Acc[k - 1], (scalar.val \div 2^(bits - k)) % 2, base)
  IN  Acc[bits]

\* Mutant: the carry of lo + k is dropped.
BlindScalarNoCarry(k, r) ==
  LET T    == Width(T_BYTES)
      prod == N * FromBE(r)
      lo   == (prod % T) + FromBE(k)
      top  == ToBE(prod \div T, SCALAR_BLIND_BYTES + 1)
      rest == ToBE(lo % T, ELEM_BYTES)
  IN  [len |-> top.len + rest.len, val |-> top.val * Width(rest.len) + rest.val]

\* blind_scalar: r * n as a (lo, hi) pair split at the width of T, k folded
\* into lo, the carry into hi; hi and lo are then written as octets.
BlindScalar(k, r) ==
  LET T    == Width(T_BYTES)
      prod == N * FromBE(r)
      lo   == (prod % T) + FromBE(k)
      hi   == ((prod \div T) + (lo \div T)) % T
      top  == ToBE(hi, SCALAR_BLIND_BYTES + 1)
      rest == ToBE(lo % T, ELEM_BYTES)
  IN  [len |-> top.len + rest.len, val |-> top.val * Width(rest.len) + rest.val]

\* Mutants: lambda is not reduced; a lambda that reduces to zero is used.
BlindPointUnreduced(x, y, blind) ==
  LET lambda == IF FromBE(blind) % P = 0 THEN 1 ELSE FromBE(blind)
  IN  [x |-> x \otimes lambda, y |-> y \otimes lambda, z |-> lambda]

BlindPointUnguarded(x, y, blind) ==
  LET lambda == IF blind = Empty THEN 1 ELSE FromBE(blind) % P
  IN  [x |-> x \otimes lambda, y |-> y \otimes lambda, z |-> lambda]

\* The base point under coordinate randomisation: (x : y : 1) scaled by lambda,
\* a lambda that reduces to zero being replaced by one.
BlindPoint(x, y, blind) ==
  LET reduced == FromBE(blind) % P
      lambda  == IF blind = Empty \/ reduced = 0 THEN 1 ELSE reduced
  IN  [x |-> x \otimes lambda, y |-> y \otimes lambda, z |-> lambda]

\* affine_x_ct: the coordinate and whether the point is finite.
AffineXCt(pt) == [x |-> pt.x \otimes FermatInv(P, pt.z), valid |-> pt.z # 0]

\* affine_xy_ct of a finite point.
AffineXYCt(pt) == LET zinv == InvMod(P, pt.z) IN <<pt.x \otimes zinv, pt.y \otimes zinv>>

\* The affine point a projective triple stands for (a reference, not code).
RcbAffine(pt) == IF pt.z = 0 THEN Inf ELSE AffineXYCt(pt)
=============================================================================
