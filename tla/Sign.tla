-------------------------------- MODULE Sign ---------------------------------
(***************************************************************************)
(* One call of a signer, from the construction of its key to what it       *)
(* leaves in the caller's two buffers.  The entry points are               *)
(*   "with_k"      sign_prehashed_ct_with_k and its blinded form           *)
(*   "raw"         sign_prehashed_ct and sign_prehashed_ct_hedged          *)
(*   "prehash"     PrehashSigningKey                                       *)
(*   "hedged"      RandomizedSigningKey::sign_prehashed_hedged             *)
(*   "randomized"  RandomizedSigningKey as RandomizedPrehashSigner         *)
(* The last two verify their own output before they release it, against a  *)
(* fault in the signature arithmetic (Glitch).                             *)
(***************************************************************************)
EXTENDS SignOps

CONSTANTS
  Calls,                \* the arguments the calls are made with
  LambdaDraws, RDraws,  \* what the RNG may fill the two blinders with
  FAULTS,               \* whether the signature arithmetic may glitch, once a call
  None

Keyed == {"prehash", "hedged", "randomized"}
Checked == {"hedged", "randomized"}

\* Seven slices; sign_prehash_with_rng brings zeroed buffers of its own.
CallShape(c) ==
  /\ c = [entry |-> c.entry, d |-> c.d, digest |-> c.digest, k |-> c.k, blind |-> c.blind,
          sblind |-> c.sblind, outR |-> c.outR, outS |-> c.outS]
  /\ c.entry \in {"with_k", "raw"} \cup Keyed
  /\ IsSlice(c.d) /\ IsSlice(c.digest) /\ IsSlice(c.k) /\ IsSlice(c.blind)
  /\ IsSlice(c.sblind) /\ IsSlice(c.outR) /\ IsSlice(c.outS)
  /\ c.entry = "randomized" => c.outR = Zeros(ELEM_BYTES) /\ c.outS = Zeros(ELEM_BYTES)

ASSUME SignAssumption ==
  \* const assert: "signing backend must be exactly the curve's field width"
  /\ T_BYTES = ELEM_BYTES
  /\ \A c \in Calls : CallShape(c)
  /\ LambdaDraws \subseteq Slices(ELEM_BYTES) /\ RDraws \subseteq Slices(SCALAR_BLIND_BYTES)

VARIABLES
  pc,             \* "key", "draw", "buffers", "derive", "sign", "check", "done"
  call,           \* the arguments
  pubkey,         \* the public key cached in a RandomizedSigningKey
  draws,          \* how many of the three fills have succeeded
  blind, sblind,  \* the blinders in use
  k,              \* the nonce buffer
  derived, signed,  \* the two validity bools of sign_prehashed_ct_added
  outR, outS,     \* the caller's buffers
  faulted,        \* history: the arithmetic has glitched
  result          \* the value returned

vars == <<pc, call, pubkey, draws, blind, sblind, k, derived, signed,
          outR, outS, faulted, result>>

\* The shapes sign_prehashed_ct_with_k_inner asks for.
ArgumentsShaped ==
  /\ call.d.len = ELEM_BYTES /\ k.len = ELEM_BYTES
  /\ outR.len = ELEM_BYTES /\ outS.len = ELEM_BYTES
  /\ call.digest.len # 0

BlindersShaped ==
  /\ blind = Empty \/ blind.len = ELEM_BYTES
  /\ sblind = Empty \/ sblind.len = SCALAR_BLIND_BYTES

\* Mutant: a secret out of range is refused with the wrong shapes.
SignShapedInRange == ArgumentsShaped /\ BlindersShaped /\ SecretInRange(call.d)

SignShaped == ArgumentsShaped /\ BlindersShaped

-----------------------------------------------------------------------------

\* Where a call starts, and what its nonce buffer holds.
Entry(c) ==
  CASE c.entry = "with_k" -> "sign"
    [] c.entry = "raw"    -> "derive"
    [] OTHER              -> "key"

EntryNonce(c) == IF c.entry = "with_k" THEN c.k ELSE Zeros(ELEM_BYTES)

Init ==
  /\ call \in Calls
  /\ pc = Entry(call)
  /\ pubkey = None /\ draws = 0
  /\ blind = call.blind /\ sblind = call.sblind
  /\ k = EntryNonce(call)
  /\ derived = TRUE /\ signed = FALSE
  /\ outR = call.outR /\ outS = call.outS
  /\ faulted = FALSE /\ result = FALSE

\* from_bytes returns None: there is no key to sign with.
RejectKey ==
  /\ pc = "key" /\ ~KeyAccepted(call.entry, call.d)
  /\ pc' = "done"
  /\ UNCHANGED <<call, pubkey, draws, blind, sblind, k, derived, signed,
                 outR, outS, faulted, result>>

AcceptKey ==
  /\ pc = "key" /\ KeyAccepted(call.entry, call.d)
  /\ pubkey' = IF call.entry = "prehash" THEN None ELSE VerifyingKey(call.d)
  /\ pc' = CASE call.entry = "prehash"    -> "derive"
             [] call.entry = "hedged"     -> "buffers"
             [] call.entry = "randomized" -> "draw"
  /\ UNCHANGED <<call, draws, blind, sblind, k, derived, signed,
                 outR, outS, faulted, result>>

\* The fills of sign_prehash_with_rng: the hedge entropy (which only the nonce
\* depends on), lambda, r.
Draw ==
  /\ pc = "draw"
  /\ \/ draws = 0 /\ UNCHANGED <<blind, sblind>>
     \/ draws = 1 /\ blind' \in LambdaDraws /\ UNCHANGED sblind
     \/ draws = 2 /\ sblind' \in RDraws /\ UNCHANGED blind
  /\ draws' = draws + 1
  /\ pc' = IF draws' = 3 THEN "buffers" ELSE "draw"
  /\ UNCHANGED <<call, pubkey, k, derived, signed, outR, outS, faulted, result>>

\* Any fill returns an error, mapped to signature::Error.
RngFails ==
  /\ pc = "draw"
  /\ pc' = "done"
  /\ UNCHANGED <<call, pubkey, draws, blind, sblind, k, derived, signed,
                 outR, outS, faulted, result>>

BuffersFit == outR.len = ELEM_BYTES /\ outS.len = ELEM_BYTES

\* Mutant: an element is cleared, whatever the length of the buffers.
EraseElement ==
  /\ outR' = Zeros(ELEM_BYTES) /\ outS' = Zeros(ELEM_BYTES)
  /\ result' = FALSE
  /\ pc' = "done"

\* Mutant: one of the buffers is forgotten.
EraseR ==
  /\ outR' = Zeros(outR.len) /\ UNCHANGED outS
  /\ result' = FALSE
  /\ pc' = "done"

\* Both buffers are zeroed and false is returned.
Erase ==
  /\ outR' = Zeros(outR.len) /\ outS' = Zeros(outS.len)
  /\ result' = FALSE
  /\ pc' = "done"

\* Buffers of the wrong length are cleared as well.
RejectBuffers ==
  /\ pc = "buffers" /\ ~BuffersFit
  /\ Erase
  /\ UNCHANGED <<call, pubkey, draws, blind, sblind, k, derived, signed, faulted>>

AcceptBuffers ==
  /\ pc = "buffers" /\ BuffersFit
  /\ pc' = "derive"
  /\ UNCHANGED <<call, pubkey, draws, blind, sblind, k, derived, signed,
                 outR, outS, faulted, result>>

\* derive_nonce_rfc6979_ct_added: an early return leaves the nonce buffer zero;
\* otherwise a nonce is written whether or not d is in range.
Derive ==
  /\ pc = "derive"
  /\ IF call.d.len = ELEM_BYTES /\ call.digest.len # 0
     THEN k' \in Nonces /\ derived' = SecretInRange(call.d)
     ELSE k' = k /\ derived' = FALSE
  /\ pc' = "sign"
  /\ UNCHANGED <<call, pubkey, draws, blind, sblind, signed, outR, outS, faulted, result>>

\* derived & signed, returned to the caller or to the check.
AfterSign ==
  IF call.entry \in Checked
  THEN pc' = "check" /\ UNCHANGED result
  ELSE pc' = "done" /\ result' = (derived /\ signed')

\* A wrong shape returns before anything is written.
SignRejects ==
  /\ pc = "sign" /\ ~SignShaped
  /\ signed' = FALSE
  /\ AfterSign
  /\ UNCHANGED <<call, pubkey, draws, blind, sblind, k, derived, outR, outS, faulted>>

\* Both halves are written, valid or not.
SignWrites ==
  /\ pc = "sign" /\ SignShaped
  /\ LET sig == Signature(call.d, call.digest, k, blind, sblind)
     IN  outR' = sig.r /\ outS' = sig.s /\ signed' = sig.ok
  /\ AfterSign
  /\ UNCHANGED <<call, pubkey, draws, blind, sblind, k, derived, faulted>>

\* A fault in the arithmetic: one half of what was written is another value.
Glitch ==
  /\ FAULTS /\ pc = "check" /\ SignShaped /\ ~faulted
  /\ \/ outR' \in Slices(ELEM_BYTES) /\ UNCHANGED outS
     \/ outS' \in Slices(ELEM_BYTES) /\ UNCHANGED outR
  /\ faulted' = TRUE
  /\ UNCHANGED <<pc, call, pubkey, draws, blind, sblind, k, derived, signed, result>>

\* Mutant: the output is not verified.
VerifiedBlindly == TRUE

\* Mutant: it is verified under the generator, not under the signer's own key.
VerifiedUnderG ==
  Accepts([pubkey |-> Sec1(SEC1_BYTES, 4, GX, GY), digest |-> call.digest,
           r |-> outR, s |-> outS])

\* verify_for_curve, under the public key derived from the same secret.
Verified == Accepts([pubkey |-> pubkey, digest |-> call.digest, r |-> outR, s |-> outS])

\* Mutant: whatever verifies is released, even when signing failed.
ReleaseUnsigned ==
  /\ pc = "check" /\ Verified
  /\ pc' = "done" /\ result' = TRUE
  /\ UNCHANGED <<call, pubkey, draws, blind, sblind, k, derived, signed, outR, outS, faulted>>

Release ==
  /\ pc = "check" /\ derived /\ signed /\ Verified
  /\ pc' = "done" /\ result' = TRUE
  /\ UNCHANGED <<call, pubkey, draws, blind, sblind, k, derived, signed, outR, outS, faulted>>

Withhold ==
  /\ pc = "check" /\ ~(derived /\ signed /\ Verified)
  /\ Erase
  /\ UNCHANGED <<call, pubkey, draws, blind, sblind, k, derived, signed, faulted>>

\* The call has returned.
Returned == pc = "done" /\ UNCHANGED vars

Next ==
  \/ RejectKey \/ AcceptKey \/ Draw \/ RngFails \/ RejectBuffers \/ AcceptBuffers
  \/ Derive \/ SignRejects \/ SignWrites \/ Glitch \/ Release \/ Withhold
  \/ Returned

Spec == Init /\ [][Next]_vars

-----------------------------------------------------------------------------
(* Properties                                                              *)

\* The output buffers keep the lengths the caller gave them, and every value its
\* width.
TypeOK ==
  /\ pc \in {"key", "draw", "buffers", "derive", "sign", "check", "done"}
  /\ draws \in 0 .. 3
  /\ k.val \in 0 .. Width(k.len) - 1
  /\ outR.len = call.outR.len /\ outR.val \in 0 .. Width(outR.len) - 1
  /\ outS.len = call.outS.len /\ outS.val \in 0 .. Width(outS.len) - 1
  /\ {derived, signed, faulted, result} \subseteq BOOLEAN

\* The output buffers, asked about under the public key q.
Request(q) == [pubkey |-> q, digest |-> call.digest, r |-> outR, s |-> outS]

Own == GroupMul(call.d.val, G)

\* A signer that checks its output never releases a pair that is not a signature
\* of the digest under the public key of its own d, glitch or not, and whatever
\* the buffers held before.
ReleasedSignaturesVerify ==
  pc = "done" /\ result /\ call.entry \in Checked =>
    IsSignature(Request(Sec1(SEC1_BYTES, 4, Own[1], Own[2])))

\* When it releases none, nothing is left in the buffers: neither the faulted
\* pair, nor a signature an earlier call left there, whatever their lengths.
WithheldSignaturesAreErased ==
  pc = "done" /\ ~result /\ pubkey # None => outR.val = 0 /\ outS.val = 0

\* A call whose arguments have the right shapes.
WellAsked ==
  /\ call.d.len = ELEM_BYTES /\ call.digest.len # 0
  /\ BuffersFit
  /\ k.len = ELEM_BYTES
  /\ blind.len \in {0, ELEM_BYTES} /\ sblind.len \in {0, SCALAR_BLIND_BYTES}
  /\ call.entry = "randomized" => draws = 3

\* Without a glitch, a call succeeds exactly when d and k are in [1, n - 1] and
\* neither half is zero, and then it returns the textbook pair of d, k and the
\* digest: the blinders change nothing, and the check refuses no good signature.
SignsTheTextbookPair ==
  pc = "done" /\ ~faulted =>
    LET e == LeftmostBits(call.digest, NBits)
        r == GroupMul(k.val, G)[1] % N
        inRange == call.d.val \in Scalar /\ k.val \in Scalar
    IN  /\ result <=> WellAsked /\ inRange /\ r # 0 /\ (e + r * call.d.val) % N # 0
        /\ result => outR.val = r /\ (outS.val * k.val) % N = (e + r * call.d.val) % N

\* Is sig, a pair of halves, a signature for the call c under its own public key?
IsGoodFor(c, sig) ==
  LET own == GroupMul(c.d.val, G)
  IN  IsSignature([pubkey |-> Sec1(SEC1_BYTES, 4, own[1], own[2]), digest |-> c.digest,
                   r |-> sig.r, s |-> sig.s])

\* A call that checks its output; one that was refused its key has no signer.
ChecksOutput(c) == c.entry \in Checked /\ KeyAccepted(c.entry, c.d)

Ideal == INSTANCE Signer WITH
  IsGood <- IsGoodFor,
  Checks <- ChecksOutput,
  request <- call,
  open <- pc # "done",
  released <- IF pc = "done" /\ result THEN {[r |-> outR, s |-> outS]} ELSE {},
  spotless <- outR.val = 0 /\ outS.val = 0

\* Every entry point is a signer as module Signer has it: one final answer, good
\* or none, and nothing of a withheld signature survives the call.
ImplementsSigner == Ideal!Spec
=============================================================================
