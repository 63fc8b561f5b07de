------------------------------ MODULE MCVerify ------------------------------
(***************************************************************************)
(* The calls the verifier is checked with: every (r, s) of the element     *)
(* width under every key on the curve and digests shorter than, as long as *)
(* and longer than n; every pair of coordinates, on the curve or not; and  *)
(* every wrong length and prefix.                                          *)
(***************************************************************************)
EXTENDS Verify

Elements == Slices(ELEM_BYTES)
Octets(n, v) == [len |-> n, val |-> v]

MCDigests ==
  {Octets(1, v) : v \in {0, 3}} \cup {Octets(2, v) : v \in {1, 7, 11, 14}}
    \cup {Octets(3, v) : v \in {27, 45}}

SignatureRequests ==
  [pubkey : {Sec1(SEC1_BYTES, 4, pt[1], pt[2]) : pt \in FinitePoints},
   digest : MCDigests, r : Elements, s : Elements]

SomeR == Octets(ELEM_BYTES, GX % N)
SomeDigest == Octets(2, 11)

\* Any coordinates, with every s for the r of the nonce 1.
KeyRequests ==
  [pubkey : {Sec1(SEC1_BYTES, 4, x, y) : x \in Elem, y \in Elem},
   digest : {SomeDigest}, r : {SomeR}, s : {Octets(ELEM_BYTES, 1), Octets(ELEM_BYTES, 2)}]

ShapeRequests ==
  [pubkey : {Sec1(len, tag, GX, GY) : len \in {0, SEC1_BYTES - 1, SEC1_BYTES}, tag \in {2, 4}},
   digest : {Empty, SomeDigest},
   r : {SomeR, Empty, Octets(ELEM_BYTES + 1, SomeR.val)},
   s : {Octets(len, v) : len \in {ELEM_BYTES - 1, ELEM_BYTES, ELEM_BYTES + 1}, v \in 1 .. 3}]

MCRequests == SignatureRequests \cup KeyRequests \cup ShapeRequests
=============================================================================
