----------------------------- MODULE VerifyOps ------------------------------
(***************************************************************************)
(* The gates of verify_inner, its scalars, one pass of double_scalar_mul   *)
(* and the whole of a verification as one function of its arguments q, a   *)
(* record [pubkey, digest, r, s].  Module Verify runs the same call bit by *)
(* bit; the signer uses the function to check its own output.              *)
(***************************************************************************)
EXTENDS Jacobian

\* The loop length, eb * 8.
LoopBits == ELEM_BYTES * BYTE_BITS

\* const-evaluated bitlen_be(C::N).
NBits == BitLen(N, ELEM_BYTES)

\* Four slices: nothing else is known of the arguments.
RequestShape(q) ==
  IsSec1(q.pubkey) /\ IsSlice(q.digest) /\ IsSlice(q.r) /\ IsSlice(q.s)

-----------------------------------------------------------------------------

WellFormed(q) ==
  /\ q.pubkey.len = SEC1_BYTES /\ q.pubkey.tag = 4
  /\ q.r.len = ELEM_BYTES /\ q.s.len = ELEM_BYTES
  /\ q.digest.len # 0

CoordinatesInRange(q) == q.pubkey.x < P /\ q.pubkey.y < P

\* r_int and s_int in [1, n - 1].
SignatureInRange(q) == FromBE(q.r) \in 1 .. N - 1 /\ FromBE(q.s) \in 1 .. N - 1

PassesGates(q) ==
  /\ WellFormed(q)
  /\ CoordinatesInRange(q)
  /\ SignatureInRange(q)
  /\ OnCurve(q.pubkey.x, q.pubkey.y)

\* The scalar of a digest, reduced mod n.
DigestScalar(digest) == HashToScalar(digest, NBits) % N

\* Mutant: the product is not reduced.
U1Unreduced(q) == DigestScalar(q.digest) * InvMod(N, FromBE(q.s))

U1(q) == (DigestScalar(q.digest) * InvMod(N, FromBE(q.s))) % N
U2(q) == (FromBE(q.r) * InvMod(N, FromBE(q.s))) % N

JG == FromAffine(GX, GY)
JQ(q) == FromAffine(q.pubkey.x, q.pubkey.y)

\* The point added after a doubling, by the pair of scalar bits.
Addend(q, b1, b2) == CASE  b1 /\  b2 -> Add(JG, JQ(q))
                       []  b1 /\ ~b2 -> JG
                       [] ~b1 /\  b2 -> JQ(q)

\* One pass of the loop of double_scalar_mul.
ShamirStep(q, acc, b1, b2) ==
  LET d == Double(acc) IN IF b1 \/ b2 THEN Add(d, Addend(q, b1, b2)) ELSE d

\* The identity is rejected; otherwise r is compared with x mod n.
ShowsR(q, pt) == ~IsInfinity(pt) /\ AffineX(pt) % N = FromBE(q.r) % N

\* The call as one function, as the signer uses it.
Accepts(q) ==
  LET u1 == U1(q)
      u2 == U2(q)
      Acc[k \in 0 .. LoopBits] ==
        IF k = 0 THEN Infinity
        ELSE ShamirStep(q, Acc[k - 1], Bit(u1, LoopBits - k), Bit(u2, LoopBits - k))
  IN  PassesGates(q) /\ ShowsR(q, Acc[LoopBits])

-----------------------------------------------------------------------------
(* The textbook relation (a reference, not code): some nonce k explains    *)
(* (r, s) under the private key of the public point.  The digest enters as *)
(* the integer of its leftmost bits.                                       *)

LeftmostBits(digest, nBits) ==
  LET total == digest.len * BYTE_BITS
  IN  IF total <= nBits THEN digest.val ELSE digest.val \div 2^(total - nBits)

IsSignature(q) ==
  /\ q.r.val \in Scalar /\ q.s.val \in Scalar
  /\ \E d \in Scalar :
       /\ GroupMul(d, G) = <<q.pubkey.x, q.pubkey.y>>
       /\ \E k \in Scalar :
            /\ (q.s.val * k) % N = (LeftmostBits(q.digest, NBits) + q.r.val * d) % N
            /\ GroupMul(k, G)[1] % N = q.r.val
=============================================================================
