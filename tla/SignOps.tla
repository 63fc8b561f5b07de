------------------------------ MODULE SignOps --------------------------------
(***************************************************************************)
(* The signature arithmetic of sign_prehashed_ct_with_k_inner, and the two *)
(* signing calls of the public keys as functions of their arguments.       *)
(* Module Sign runs these calls step by step; the trait implementations    *)
(* (module Traits) use the functions.                                      *)
(***************************************************************************)
EXTENDS EcdhOps, VerifyOps

Zeros(n) == [len |-> n, val |-> 0]

\* Candidates in [1, n - 1], the only nonces a derivation returns (module Rfc6979,
\* which also has the refusal of a hash wider than its buffers).
Nonces == {ToBE(v, ELEM_BYTES) : v \in Scalar}

\* Mutant: a point whose x is 0 mod n is signed with.
SignatureRZero(d, digest, nonce, lambda, r0) ==
  LET ax == AffineXCt(ScalarMulCt(LadderScalar(nonce, r0), BlindPoint(GX, GY, lambda)))
      r  == ax.x % N
      s  == (FermatInv(N, FromBE(nonce)) * ((DigestScalar(digest) + r * FromBE(d)) % N)) % N
  IN  [r |-> ToBE(r, ELEM_BYTES), s |-> ToBE(s, ELEM_BYTES),
       ok |-> SecretInRange(d) /\ SecretInRange(nonce) /\ ax.valid /\ s # 0]

\* r = x(k G) mod n and s = (e + r d) / k mod n; validity is folded, never
\* branched on, and an inverse of zero is zero.
Signature(d, digest, nonce, lambda, r0) ==
  LET ax == AffineXCt(ScalarMulCt(LadderScalar(nonce, r0), BlindPoint(GX, GY, lambda)))
      r  == ax.x % N
      s  == (FermatInv(N, FromBE(nonce)) * ((DigestScalar(digest) + r * FromBE(d)) % N)) % N
  IN  [r |-> ToBE(r, ELEM_BYTES), s |-> ToBE(s, ELEM_BYTES),
       ok |-> SecretInRange(d) /\ SecretInRange(nonce) /\ ax.valid /\ r # 0 /\ s # 0]

\* Mutant: only zero is refused, as for a key whose range is checked at its use.
KeyAcceptedNonzero(kind, d) == d.len = ELEM_BYTES /\ FromBE(d) # 0

\* from_bytes of the two signing keys: the length, then the range; the randomized
\* key also has to derive the public key it caches.
KeyAccepted(kind, d) ==
  /\ d.len = ELEM_BYTES /\ SecretInRange(d)
  /\ kind = "prehash" \/ HasPublicKey(d)

\* PrehashSigningKey::sign_prehashed, with the nonce derived for the digest.
SignPrehashed(d, digest, nonce) ==
  LET sig == Signature(d, digest, nonce, Empty, Empty)
  IN  [sig EXCEPT !.ok = @ /\ digest.len # 0]

\* RandomizedSigningKey::sign_prehashed_hedged: what was signed is then verified
\* under the cached public key.
SignHedged(d, pubkey, digest, nonce, lambda, r0) ==
  LET sig == Signature(d, digest, nonce, lambda, r0)
  IN  [sig EXCEPT !.ok = /\ @ /\ digest.len # 0
                         /\ Accepts([pubkey |-> pubkey, digest |-> digest,
                                     r |-> sig.r, s |-> sig.s])]
=============================================================================
