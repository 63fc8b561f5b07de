------------------------------- MODULE MCSign --------------------------------
(***************************************************************************)
(* The calls the signer is checked with: every d and nonce of the element  *)
(* width, blinders that reduce to zero and that do not reduce, buffers     *)
(* that hold an earlier valid signature, and every wrong length.           *)
(***************************************************************************)
EXTENDS Sign, PointLaws

Octets(n, v) == [len |-> n, val |-> v]

SomeD == Octets(ELEM_BYTES, 3)
SomeDigest == Octets(2, 14)
MCDigests == {SomeDigest, Octets(1, 2), Octets(3, 27)}

\* A signature of SomeDigest under SomeD, left in the buffers by an earlier call.
Earlier ==
  LET n == CHOOSE n \in Nonces : Signature(SomeD, SomeDigest, n, Empty, Empty).ok
  IN  Signature(SomeD, SomeDigest, n, Empty, Empty)

MCBlinds == {Empty} \cup {Octets(ELEM_BYTES, v) : v \in {P, Width(ELEM_BYTES) - 1}}
MCSBlinds == {Empty} \cup {Octets(SCALAR_BLIND_BYTES, v) : v \in {0, Width(SCALAR_BLIND_BYTES) - 1}}
MCLambdaDraws == MCBlinds \ {Empty}
MCRDraws == MCSBlinds \ {Empty}

ArithmeticCalls ==
  [entry : {"with_k"}, d : Slices(ELEM_BYTES), digest : MCDigests, k : Slices(ELEM_BYTES),
   blind : MCBlinds, sblind : MCSBlinds, outR : {Earlier.r}, outS : {Earlier.s}]

UnblindedCalls ==
  [entry : {"raw", "prehash"}, d : Slices(ELEM_BYTES) \cup {Empty, Octets(1, 1)},
   digest : MCDigests \cup {Empty}, k : {Empty}, blind : {Empty}, sblind : {Empty},
   outR : {Earlier.r}, outS : {Earlier.s, Empty}]

CheckedCalls ==
  [entry : {"hedged", "randomized"}, d : Slices(ELEM_BYTES), digest : MCDigests, k : {Empty},
   blind : {Empty}, sblind : {Empty},
   outR : {Zeros(ELEM_BYTES)}, outS : {Zeros(ELEM_BYTES)}]

ShapeCalls ==
  [entry : {"hedged"}, d : {SomeD, Octets(ELEM_BYTES + 1, 3)}, digest : {SomeDigest, Empty},
   k : {Empty}, blind : {Octets(1, 1), Octets(ELEM_BYTES, 5)},
   sblind : {Octets(SCALAR_BLIND_BYTES + 1, 1), Octets(SCALAR_BLIND_BYTES, 1)},
   outR : {Earlier.r, Octets(ELEM_BYTES + 1, 5)}, outS : {Earlier.s, Octets(1, 1)}]

ShapeArithmeticCalls ==
  [entry : {"with_k"}, d : {SomeD, Empty}, digest : {SomeDigest, Empty},
   k : {SomeD, Octets(1, 1)}, blind : {Empty, Octets(1, 1)},
   sblind : {Empty, Octets(SCALAR_BLIND_BYTES + 1, 1)},
   outR : {Earlier.r, Empty}, outS : {Earlier.s, Octets(1, 1)}]

MCCalls ==
  ArithmeticCalls \cup UnblindedCalls \cup CheckedCalls \cup ShapeCalls
    \cup ShapeArithmeticCalls
=============================================================================
