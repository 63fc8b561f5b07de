------------------------------ MODULE MCTraits -------------------------------
(***************************************************************************)
(* Both types of signing key over secrets on either side of every bound,   *)
(* digests shorter and longer than the order, keys on and off the curve,   *)
(* and every signature of the right length.                                *)
(***************************************************************************)
EXTENDS Traits, PointLaws

Octets(n, v) == [len |-> n, val |-> v]

MCSecrets ==
  {Octets(ELEM_BYTES, v) : v \in {0, 1, 3, N - 1, N, N + 1, Width(ELEM_BYTES) - 1}}
    \cup {Octets(1, 1), Octets(ELEM_BYTES + 1, 3)}
MCDigests == {Octets(1, 2), Octets(2, 14), Octets(3, 27)}
MCLambdaDraws == {Octets(ELEM_BYTES, v) : v \in {P, 2}}
MCRDraws == {Octets(SCALAR_BLIND_BYTES, v) : v \in {0, Width(SCALAR_BLIND_BYTES) - 1}}

MCForeignKeys ==
  {Sec1(SEC1_BYTES, 4, pt[1], pt[2]) : pt \in FinitePoints}
    \cup {ZeroSec1, Sec1(SEC1_BYTES, 3, GX, GY), Sec1(SEC1_BYTES, 4, GX, (GY + 1) % P)}
MCPresented == Slices(SIG_BYTES) \cup {Octets(SIG_BYTES - 1, 5), Octets(SIG_BYTES + 1, 21), Empty}
=============================================================================
