------------------------------- MODULE MCKem --------------------------------
(***************************************************************************)
(* Small instances of the KEM.  The RNG offers scalars out of range at     *)
(* both ends and two inside, and a coordinate blinder that reduces to zero.*)
(***************************************************************************)
EXTENDS Kem, PointLaws

Octets(n, vals) == {[len |-> n, val |-> v] : v \in vals}

MCScalars == Octets(ELEM_BYTES, {0, 3, N - 1, N})
MCLambdas == Octets(ELEM_BYTES, {P, Width(ELEM_BYTES) - 1})
MCRs == Octets(SCALAR_BLIND_BYTES, {0, Width(SCALAR_BLIND_BYTES) - 1})

\* A point off the curve, a coordinate not below p, a wrong prefix.
MCGarbage ==
  {Sec1(SEC1_BYTES, 4, GX, (GY + 1) % P), Sec1(SEC1_BYTES, 4, GX + P, GY),
   Sec1(SEC1_BYTES, 2, GX, GY)}
=============================================================================
