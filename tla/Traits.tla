------------------------------- MODULE Traits --------------------------------
(***************************************************************************)
(* The RustCrypto face of a curve module: a signing key and its Keypair,   *)
(* the four signer traits, and the two verifier traits of VerifyingKey and *)
(* RefVerifyingKey.  One key signs once, by any of its traits, and one     *)
(* verification follows, of what was signed or of anything else, under the *)
(* key's own verifying key or under any other.                             *)
(*                                                                         *)
(* A message stands for the digest D makes of it.  The closure that feeds  *)
(* it to D may fail, and so may each fill of the RNG.                      *)
(***************************************************************************)
EXTENDS SignOps

CONSTANTS
  Kinds,                \* "prehash" and "randomized": the type of the signing key
  Secrets,              \* the octets from_bytes is called with
  Digests,              \* what a digest may be
  LambdaDraws, RDraws,  \* what the RNG may fill the two blinders with
  ForeignKeys,          \* the SEC1 octets from_sec1_bytes is called with
  Presented             \* signatures that come from elsewhere

\* The slices of the signer's backend, and what the two array types hold.
ASSUME TraitsAssumption ==
  \* const assert: "signing backend must be exactly the curve's field width"
  /\ T_BYTES = ELEM_BYTES
  /\ Kinds \subseteq {"prehash", "randomized"}
  /\ \A b \in Secrets \cup Digests \cup Presented : IsSlice(b)
  /\ LambdaDraws \subseteq Slices(ELEM_BYTES) /\ RDraws \subseteq Slices(SCALAR_BLIND_BYTES)
  /\ \A q \in ForeignKeys : IsSec1(q) /\ q.len = SEC1_BYTES

VARIABLES
  pc,      \* "new", "key", "signed", "verifying", "done"
  kind, d, \* the signing key
  sec1,    \* the octets of the verifying key
  digest,  \* the digest of the last call; Empty if it could not be made
  sig,     \* its signature, in or out
  mine,    \* history: sec1 is the Keypair's of the signing key
  ok       \* whether the last call returned Ok

vars == <<pc, kind, d, sec1, digest, sig, mine, ok>>

\* IEEE P1363: r || s, fixed width.
SIG_BYTES == 2 * ELEM_BYTES
P1363(r, s) == Concat(r, s)

\* Mutant: the halves are the other way round.
HalvesSwapped(p) ==
  [r |-> [len |-> ELEM_BYTES, val |-> p.val % Width(ELEM_BYTES)], s |-> Prefix(p, ELEM_BYTES)]

\* split_at(ELEM_BYTES), of a signature that is long enough.
Halves(p) ==
  [r |-> Prefix(p, ELEM_BYTES),
   s |-> [len |-> p.len - ELEM_BYTES, val |-> p.val % Width(p.len - ELEM_BYTES)]]

\* An array that verifying_key_sec1 did not fill.
ZeroSec1 == Sec1(SEC1_BYTES, 0, 0, 0)

-----------------------------------------------------------------------------

Init ==
  /\ pc = "new"
  /\ kind \in Kinds /\ d \in Secrets
  /\ sec1 = ZeroSec1 /\ digest = Empty /\ sig = Empty
  /\ mine = FALSE /\ ok = FALSE

\* from_bytes returns a key, or None and there is nothing to call.
MakeKey ==
  /\ pc = "new"
  /\ pc' = IF KeyAccepted(kind, d) THEN "key" ELSE "done"
  /\ UNCHANGED <<kind, d, sec1, digest, sig, mine, ok>>

\* Ok(r || s) or Err, from a [r, s, ok].
Answer(dg, signed) ==
  /\ digest' = dg
  /\ ok' = signed.ok
  /\ sig' = IF signed.ok THEN P1363(signed.r, signed.s) ELSE Empty
  /\ pc' = "signed"
  /\ UNCHANGED <<kind, d, sec1, mine>>

Fails ==
  /\ pc' = "signed" /\ ok' = FALSE
  /\ UNCHANGED <<kind, d, sec1, digest, sig, mine>>

\* PrehashSigner::sign_prehash.
SignPrehash ==
  /\ pc = "key" /\ kind = "prehash"
  /\ \E dg \in Digests \cup {Empty}, nonce \in Nonces : Answer(dg, SignPrehashed(d, dg, nonce))

\* DigestSigner::try_sign_digest: the closure's error is returned at once.
TrySignDigest ==
  /\ pc = "key" /\ kind = "prehash"
  /\ \/ Fails
     \/ \E dg \in Digests, nonce \in Nonces : Answer(dg, SignPrehashed(d, dg, nonce))

\* sign_prehash_with_rng: the hedge only enters the nonce; any fill may fail.
WithRng(dg) ==
  \/ Fails
  \/ \E nonce \in Nonces, lambda \in LambdaDraws, r0 \in RDraws :
       Answer(dg, SignHedged(d, VerifyingKey(d), dg, nonce, lambda, r0))

\* RandomizedPrehashSigner::sign_prehash_with_rng.
SignPrehashWithRng ==
  /\ pc = "key" /\ kind = "randomized"
  /\ \E dg \in Digests \cup {Empty} : WithRng(dg)

\* RandomizedDigestSigner::try_sign_digest_with_rng: the closure fails before the
\* RNG is asked.
TrySignDigestWithRng ==
  /\ pc = "key" /\ kind = "randomized"
  /\ \/ Fails
     \/ \E dg \in Digests : WithRng(dg)

\* Keypair::verifying_key: a derivation that fails is not reported.
KeypairVerifyingKey ==
  /\ pc = "signed"
  /\ sec1' = IF HasPublicKey(d) THEN VerifyingKey(d) ELSE ZeroSec1
  /\ mine' = TRUE
  /\ pc' = "verifying"
  /\ UNCHANGED <<kind, d, digest, sig, ok>>

\* from_sec1_bytes: nothing is checked here.
FromSec1Bytes ==
  /\ pc = "signed"
  /\ sec1' \in ForeignKeys
  /\ pc' = "verifying"
  /\ UNCHANGED <<kind, d, digest, sig, mine, ok>>

\* What a verification is asked about: the signed pair, its signature with another
\* digest, its signature changed; or, when nothing was signed, something from elsewhere.
Tampered ==
  {P1363(Halves(sig).s, Halves(sig).r), Prefix(sig, SIG_BYTES - 1)}
    \cup [len : {SIG_BYTES + 1}, val : {sig.val, sig.val * Width(1)}]

Asked ==
  IF sig = Empty THEN (Digests \cup {Empty}) \X Presented
  ELSE ((Digests \cup {Empty}) \X {sig}) \cup ({digest} \X Tampered)

LengthIsRight(p) == p.len = SIG_BYTES

\* The length gate, then verify_for_curve or verify_for_curve_ref.
Verify(dg, p) ==
  /\ digest' = dg /\ sig' = p
  /\ ok' = /\ LengthIsRight(p)
           /\ Accepts([pubkey |-> sec1, digest |-> dg, r |-> Halves(p).r, s |-> Halves(p).s])
  /\ pc' = "done"
  /\ UNCHANGED <<kind, d, sec1, mine>>

\* PrehashVerifier::verify_prehash, of either verifying key.
VerifyPrehash == pc = "verifying" /\ \E ask \in Asked : Verify(ask[1], ask[2])

\* DigestVerifier::verify_digest: the closure's error is returned at once.
VerifyDigest ==
  /\ pc = "verifying"
  /\ \/ /\ digest' = Empty /\ ok' = FALSE /\ pc' = "done"
        /\ UNCHANGED <<kind, d, sec1, sig, mine>>
     \/ \E ask \in Asked : ask[1] # Empty /\ Verify(ask[1], ask[2])

\* The key and its signature are dropped.
Returned == pc = "done" /\ UNCHANGED vars

Next ==
  \/ MakeKey \/ SignPrehash \/ TrySignDigest \/ SignPrehashWithRng \/ TrySignDigestWithRng
  \/ KeypairVerifyingKey \/ FromSec1Bytes \/ VerifyPrehash \/ VerifyDigest \/ Returned

Spec == Init /\ [][Next]_vars

-----------------------------------------------------------------------------
(* Properties                                                              *)

\* The verifying key of a signing key is the point of its secret, although the
\* Keypair ignores whether the derivation succeeded ("Valid by construction").
KeypairHoldsThePoint ==
  mine => LET point == GroupMul(d.val, G)
          IN  point # Inf /\ sec1 = Sec1(SEC1_BYTES, 4, point[1], point[2])

\* What any signer trait returned is accepted by either verifier trait, for the same
\* digest and under the signer's own verifying key.
SignedIsAccepted ==
  [][mine /\ ok /\ pc = "verifying" /\ sig' = sig /\ digest' = digest => ok']_vars

\* A verifier returns Ok for the whole octets of a signature, r || s and nothing
\* else, over the digest it was fed, under a well-formed key: for no other octets,
\* and for nothing when the digest could not be made.
AcceptsOnlyWholeSignatures ==
  pc = "done" =>
    (ok <=> /\ sig.len = SIG_BYTES /\ digest # Empty
            /\ sec1.tag = 4
            /\ IsSignature([pubkey |-> sec1, digest |-> digest,
                            r |-> [len |-> ELEM_BYTES, val |-> sig.val \div Width(ELEM_BYTES)],
                            s |-> [len |-> ELEM_BYTES, val |-> sig.val % Width(ELEM_BYTES)]]))
=============================================================================
