---------------------------- MODULE TraitsProofs ----------------------------
(***************************************************************************)
(* Proofs about module Traits, for every curve that meets the contract,    *)
(* every width, secret, digest, key and signature: what the signer traits  *)
(* return is a signature, and the verifier traits accept those and no      *)
(* other octets.                                                           *)
(***************************************************************************)
EXTENDS Traits, CurveProofs

\* What AcceptsOnlyWholeSignatures asks of a signature p.
Asks(key, dg, p) ==
  [pubkey |-> key, digest |-> dg,
   r |-> [len |-> ELEM_BYTES, val |-> p.val \div Width(ELEM_BYTES)],
   s |-> [len |-> ELEM_BYTES, val |-> p.val % Width(ELEM_BYTES)]]

WholeSignature(key, dg, p) ==
  p.len = SIG_BYTES /\ dg # Empty /\ key.tag = 4 /\ IsSignature(Asks(key, dg, p))

IsKeyArray(key) == IsSec1(key) /\ key.len = SEC1_BYTES

\* The verifying key the Keypair makes of d.
OwnKey == VerifyingKey(d)

\* What a signer trait returned: a signature under the key's own verifying key.
Made == IF ok THEN WholeSignature(OwnKey, digest, sig) ELSE sig = Empty

IInv ==
  /\ pc \in {"new", "key", "signed", "verifying", "done"}
  /\ kind \in {"prehash", "randomized"} /\ ok \in BOOLEAN /\ mine \in BOOLEAN
  /\ IsSlice(d) /\ IsSlice(digest) /\ IsSlice(sig) /\ IsKeyArray(sec1)
  /\ pc # "verifying" /\ pc # "done" => ~mine
  /\ pc \in {"key", "signed", "verifying"} \/ mine => KeyAccepted(kind, d)
  /\ mine => sec1 = OwnKey
  /\ pc \in {"new", "key"} => ~ok /\ sig = Empty
  /\ pc \in {"signed", "verifying"} => Made
  /\ pc = "done" => (ok <=> WholeSignature(sec1, digest, sig))

-----------------------------------------------------------------------------
(* The fixed-width pair                                                    *)

LEMMA SignatureWidths ==
  /\ {ELEM_BYTES, SIG_BYTES - 1, SIG_BYTES, SIG_BYTES + 1} \subseteq 0 .. SLICE_BYTES
  /\ {Width(ELEM_BYTES), Width(SIG_BYTES - 1), Width(1)} \subseteq Nat \ {0}
  /\ Width(SIG_BYTES) = Width(ELEM_BYTES) * Width(ELEM_BYTES)
  /\ Width(SIG_BYTES) = Width(SIG_BYTES - 1) * Width(1)
  /\ Width(SIG_BYTES + 1) = Width(SIG_BYTES) * Width(1)
<1>1. /\ ELEM_BYTES \in Nat /\ SIG_BYTES \in Nat /\ SIG_BYTES - 1 \in Nat /\ 1 \in Nat
      /\ SIG_BYTES = ELEM_BYTES + ELEM_BYTES /\ SIG_BYTES = (SIG_BYTES - 1) + 1
      /\ SIG_BYTES + 1 <= SLICE_BYTES /\ SLICE_BYTES \in Nat
  BY OctetsAssumption DEF SIG_BYTES
<1>2. /\ {ELEM_BYTES, SIG_BYTES - 1, SIG_BYTES, SIG_BYTES + 1} \subseteq 0 .. SLICE_BYTES
      /\ 1 \in 0 .. SLICE_BYTES
  BY <1>1
<1>3. {Width(ELEM_BYTES), Width(SIG_BYTES - 1), Width(1)} \subseteq Nat \ {0}
  BY <1>2, WidthType
<1>4. Width(ELEM_BYTES + ELEM_BYTES) = Width(ELEM_BYTES) * Width(ELEM_BYTES)
  BY <1>1, <1>2, WidthSum
<1>5. Width((SIG_BYTES - 1) + 1) = Width(SIG_BYTES - 1) * Width(1)
  BY <1>1, <1>2, WidthSum
<1>6. Width(SIG_BYTES + 1) = Width(SIG_BYTES) * Width(1)
  BY <1>1, <1>2, WidthSum
<1>7. QED
  BY <1>1, <1>2, <1>3, <1>4, <1>5, <1>6

LEMMA PairIsASlice ==
  ASSUME NEW r \in Slices(ELEM_BYTES), NEW s \in Slices(ELEM_BYTES)
  PROVE  /\ IsSlice(P1363(r, s)) /\ P1363(r, s).len = SIG_BYTES
         /\ \A key, dg : Asks(key, dg, P1363(r, s))
                           = [pubkey |-> key, digest |-> dg, r |-> r, s |-> s]
<1> DEFINE p == P1363(r, s)
<1>1. /\ ELEM_BYTES \in Nat /\ ELEM_BYTES + ELEM_BYTES = SIG_BYTES
      /\ SIG_BYTES \in 0 .. SLICE_BYTES /\ SIG_BYTES <= SLICE_BYTES
  BY SignatureWidths, OctetsAssumption DEF SIG_BYTES
<1>2. /\ p \in Slices(SIG_BYTES) /\ p.len = SIG_BYTES
      /\ p.val \div Width(ELEM_BYTES) = r.val /\ p.val % Width(ELEM_BYTES) = s.val
  BY <1>1, ConcatOfSlices DEF P1363
<1>3. r = [len |-> ELEM_BYTES, val |-> r.val] /\ s = [len |-> ELEM_BYTES, val |-> s.val]
  BY DEF Slices
<1> HIDE DEF p
<1>4. QED
  BY <1>1, <1>2, <1>3 DEF p, IsSlice, Asks

\* split_at gives the two digits.
LEMMA HalvesAreSlices ==
  ASSUME NEW p, IsSlice(p), p.len = SIG_BYTES
  PROVE  /\ Halves(p).r \in Slices(ELEM_BYTES) /\ Halves(p).s \in Slices(ELEM_BYTES)
         /\ \A key, dg : Asks(key, dg, p)
              = [pubkey |-> key, digest |-> dg, r |-> Halves(p).r, s |-> Halves(p).s]
<1> DEFINE w == Width(ELEM_BYTES)
<1>1. SIG_BYTES - ELEM_BYTES = ELEM_BYTES
  BY OctetsAssumption DEF SIG_BYTES
<1>2. Halves(p) = [r |-> [len |-> ELEM_BYTES, val |-> p.val \div w],
                   s |-> [len |-> ELEM_BYTES, val |-> p.val % w]]
  BY <1>1 DEF Halves, Prefix
<1>3. w \in Nat \ {0} /\ p.val \in 0 .. w * w - 1
  BY SignatureWidths DEF IsSlice, Slices
<1> HIDE DEF w
<1>4. p.val \div w \in 0 .. w - 1 /\ p.val % w \in 0 .. w - 1
  BY <1>3, DigitsOf
<1>5. QED
  BY <1>2, <1>4 DEF Slices, Asks, w

\* Only the empty slice has no octets.
LEMMA EmptyIsTheShortest ==
  IsSlice(Empty) /\ \A b : IsSlice(b) => (b.len # 0 <=> b # Empty)
<1>1. Width(0) = 1
  <2>1. BYTE_BITS * 0 = 0
    BY OctetsAssumption
  <2>2. QED
    BY <2>1, PowersOfTwo DEF Width
<1>2. 0 \in 0 .. SLICE_BYTES
  BY OctetsAssumption
<1>3. \A b : b \in Slices(0) <=> b = [len |-> 0, val |-> 0]
  BY <1>1 DEF Slices
<1>4. QED
  BY <1>2, <1>3 DEF IsSlice, Empty

\* A verifier's answer: the length gate and verify_for_curve together.
LEMMA VerifierIsExact ==
  ASSUME NEW key, IsKeyArray(key), NEW dg, IsSlice(dg), NEW p, IsSlice(p)
  PROVE  LengthIsRight(p)
           /\ Accepts([pubkey |-> key, digest |-> dg, r |-> Halves(p).r, s |-> Halves(p).s])
         <=> WholeSignature(key, dg, p)
<1>1. CASE p.len # SIG_BYTES
  BY <1>1 DEF LengthIsRight, WholeSignature
<1>2. CASE p.len = SIG_BYTES
  <2> DEFINE q == Asks(key, dg, p)
  <2>1. q = [pubkey |-> key, digest |-> dg, r |-> Halves(p).r, s |-> Halves(p).s]
    BY <1>2, HalvesAreSlices
  <2>2. q.pubkey = key /\ q.digest = dg /\ q.r = Halves(p).r /\ q.s = Halves(p).s
    BY <2>1
  <2> HIDE DEF q
  <2>3. q.r \in Slices(ELEM_BYTES) /\ q.s \in Slices(ELEM_BYTES)
    BY <1>2, <2>2, HalvesAreSlices
  <2>4. q.r.len = ELEM_BYTES /\ q.s.len = ELEM_BYTES /\ IsSlice(q.r) /\ IsSlice(q.s)
    BY <2>3, SignatureWidths DEF Slices, IsSlice
  <2>5. RequestShape(q)
    BY <2>2, <2>4 DEF RequestShape, IsKeyArray
  <2>6. WellFormed(q) <=> key.tag = 4 /\ dg # Empty
    BY <2>2, <2>4, EmptyIsTheShortest DEF WellFormed, IsKeyArray
  <2>7. Accepts(q) <=> WellFormed(q) /\ IsSignature(q)
    BY <2>5, AcceptsTheSignatures
  <2>8. WholeSignature(key, dg, p) <=> key.tag = 4 /\ dg # Empty /\ IsSignature(q)
    BY <1>2 DEF WholeSignature, q
  <2>9. LengthIsRight(p)
    BY <1>2 DEF LengthIsRight
  <2>10. QED
    BY <2>1, <2>6, <2>7, <2>8, <2>9
<1>3. QED
  BY <1>1, <1>2

-----------------------------------------------------------------------------
(* What the signer traits make                                             *)

\* What a key that was made knows of its secret.
LEMMA MadeKey ==
  ASSUME NEW secret, IsSlice(secret), NEW type, KeyAccepted(type, secret)
  PROVE  /\ secret \in Slices(ELEM_BYTES) /\ secret.val \in Scalar /\ HasPublicKey(secret)
         /\ GroupMul(secret.val, G) \in FinitePoints
         /\ VerifyingKey(secret)
              = Sec1(SEC1_BYTES, 4, GroupMul(secret.val, G)[1], GroupMul(secret.val, G)[2])
         /\ IsKeyArray(VerifyingKey(secret)) /\ VerifyingKey(secret).tag = 4
<1>1. secret \in Slices(ELEM_BYTES) /\ secret.val \in Scalar
  BY RangeOfSecret DEF KeyAccepted, IsSlice
<1>2. /\ HasPublicKey(secret) /\ GroupMul(secret.val, G) \in FinitePoints
      /\ VerifyingKey(secret)
           = Sec1(SEC1_BYTES, 4, GroupMul(secret.val, G)[1], GroupMul(secret.val, G)[2])
      /\ IsSec1(VerifyingKey(secret))
  BY <1>1, VerifyingKeyIsTheProduct
<1>3. VerifyingKey(secret).len = SEC1_BYTES /\ VerifyingKey(secret).tag = 4
  BY <1>2 DEF Sec1
<1>4. QED
  BY <1>1, <1>2, <1>3 DEF IsKeyArray

\* A pair the arithmetic makes is a whole signature under the public key of its secret.
LEMMA PairIsWhole ==
  ASSUME NEW secret, IsSlice(secret), NEW type, KeyAccepted(type, secret),
         NEW dg, IsSlice(dg), dg.len # 0,
         NEW nonce \in Nonces, NEW lambda, NEW r0,
         FromBE(lambda) \in Int,
         r0 = Empty \/ (r0 \in Slices(SCALAR_BLIND_BYTES) /\ T_BYTES = ELEM_BYTES)
  PROVE  LET pair == Signature(secret, dg, nonce, lambda, r0)
         IN  /\ pair.ok \in BOOLEAN
             /\ pair.ok => /\ IsSlice(P1363(pair.r, pair.s))
                           /\ WholeSignature(VerifyingKey(secret), dg, P1363(pair.r, pair.s))
<1> DEFINE pair == Signature(secret, dg, nonce, lambda, r0)
<1>1. nonce \in Slices(ELEM_BYTES)
  BY NonceType DEF IsSlice
<1>2. SignerArguments(secret, dg, nonce, lambda, r0)
  BY <1>1, MadeKey DEF SignerArguments
<1>3. /\ pair.ok \in BOOLEAN
      /\ pair.r \in Slices(ELEM_BYTES) /\ pair.s \in Slices(ELEM_BYTES)
  BY <1>2, SignatureIsTheTextbookPair
<1>4. pair.ok => IsSignature(OwnRequest(secret, dg, pair.r, pair.s))
  BY <1>2, SignatureIsASignature
<1> HIDE DEF pair
<1>5. /\ IsSlice(P1363(pair.r, pair.s)) /\ P1363(pair.r, pair.s).len = SIG_BYTES
      /\ Asks(VerifyingKey(secret), dg, P1363(pair.r, pair.s))
           = [pubkey |-> VerifyingKey(secret), digest |-> dg, r |-> pair.r, s |-> pair.s]
  BY <1>3, PairIsASlice
<1>6. OwnRequest(secret, dg, pair.r, pair.s)
        = [pubkey |-> VerifyingKey(secret), digest |-> dg, r |-> pair.r, s |-> pair.s]
  BY MadeKey DEF OwnRequest
<1>7. dg # Empty /\ VerifyingKey(secret).tag = 4
  BY EmptyIsTheShortest, MadeKey
<1>8. pair.ok => WholeSignature(VerifyingKey(secret), dg, P1363(pair.r, pair.s))
  BY <1>4, <1>5, <1>6, <1>7 DEF WholeSignature
<1>9. QED
  BY <1>3, <1>5, <1>8 DEF pair

\* What either key returns from a call: nothing, or a whole signature.
Returns(secret, dg, signed) ==
  /\ signed.ok \in BOOLEAN
  /\ signed.ok => /\ IsSlice(P1363(signed.r, signed.s))
                  /\ WholeSignature(VerifyingKey(secret), dg, P1363(signed.r, signed.s))

LEMMA PrehashReturns ==
  ASSUME NEW secret, IsSlice(secret), NEW type, KeyAccepted(type, secret),
         NEW dg, IsSlice(dg), NEW nonce \in Nonces
  PROVE  Returns(secret, dg, SignPrehashed(secret, dg, nonce))
<1> DEFINE pair == Signature(secret, dg, nonce, Empty, Empty)
           signed == SignPrehashed(secret, dg, nonce)
<1>1. signed.ok = (pair.ok /\ dg.len # 0) /\ signed.r = pair.r /\ signed.s = pair.s
  BY DEF SignPrehashed, Signature
<1>2. FromBE(Empty) \in Int
  BY DEF FromBE, Empty
<1>3. dg.len # 0 => Returns(secret, dg, pair)
  BY <1>2, PairIsWhole DEF Returns
<1> HIDE DEF pair, signed
<1>4. CASE dg.len = 0
  <2>1. signed.ok = FALSE
    BY <1>1, <1>4
  <2>2. QED
    BY <2>1 DEF Returns, signed
<1>5. CASE dg.len # 0
  <2>1. pair.ok \in BOOLEAN
    BY <1>3, <1>5 DEF Returns
  <2>2. signed.ok = pair.ok
    BY <1>1, <1>5, <2>1
  <2>3. QED
    BY <1>1, <1>3, <1>5, <2>2 DEF Returns, signed
<1>6. QED
  BY <1>4, <1>5

LEMMA HedgedReturns ==
  ASSUME NEW secret, IsSlice(secret), NEW type, KeyAccepted(type, secret),
         NEW dg, IsSlice(dg), NEW nonce \in Nonces,
         NEW lambda \in Slices(ELEM_BYTES), NEW r0 \in Slices(SCALAR_BLIND_BYTES)
  PROVE  Returns(secret, dg, SignHedged(secret, VerifyingKey(secret), dg, nonce, lambda, r0))
<1> DEFINE pair == Signature(secret, dg, nonce, lambda, r0)
           checked == Accepts([pubkey |-> VerifyingKey(secret), digest |-> dg,
                               r |-> pair.r, s |-> pair.s])
           signed == SignHedged(secret, VerifyingKey(secret), dg, nonce, lambda, r0)
<1>1. /\ signed.ok = (pair.ok /\ dg.len # 0 /\ checked)
      /\ signed.r = pair.r /\ signed.s = pair.s
  BY DEF SignHedged, Signature
<1>2. FromBE(lambda) \in Int /\ T_BYTES = ELEM_BYTES
  BY TraitsAssumption, ElementWidths DEF FromBE, Slices
<1>3. dg.len # 0 => Returns(secret, dg, pair)
  BY <1>2, PairIsWhole DEF Returns
<1> HIDE DEF pair, signed, checked
<1>4. signed.ok \in BOOLEAN /\ (signed.ok => pair.ok /\ dg.len # 0)
  BY <1>1
<1>5. QED
  BY <1>1, <1>3, <1>4 DEF Returns, signed

\* What a call of either key is asked about: slices.
LEMMA AskedAreSlices ==
  ASSUME IsSlice(digest), IsSlice(sig), sig = Empty \/ sig.len = SIG_BYTES,
         NEW ask \in Asked
  PROVE  IsSlice(ask[1]) /\ IsSlice(ask[2])
<1>1. CASE sig = Empty
  BY <1>1, TraitsAssumption, EmptyIsTheShortest DEF Asked
<1>2. CASE sig # Empty /\ ask \in (Digests \cup {Empty}) \X {sig}
  BY <1>2, TraitsAssumption, EmptyIsTheShortest
<1>3. CASE sig # Empty /\ ask \in {digest} \X Tampered
  <2>1. sig.len = SIG_BYTES /\ ask[1] = digest /\ ask[2] \in Tampered
    BY <1>3
  <2> DEFINE short == Width(SIG_BYTES - 1)
             one == Width(1)
             whole == Width(SIG_BYTES)
  <2>2. /\ {SIG_BYTES - 1, SIG_BYTES, SIG_BYTES + 1} \subseteq 0 .. SLICE_BYTES
        /\ short \in Nat \ {0} /\ one \in Nat \ {0}
        /\ whole = short * one /\ Width(SIG_BYTES + 1) = whole * one
    BY SignatureWidths
  <2>3. sig.val \in 0 .. whole - 1
    BY <2>1 DEF IsSlice, Slices
  <2>4. IsSlice(P1363(Halves(sig).s, Halves(sig).r))
    BY <2>1, HalvesAreSlices, PairIsASlice
  <2>5. IsSlice(Prefix(sig, SIG_BYTES - 1))
    <3>1. sig.len - (SIG_BYTES - 1) = 1
      BY <2>1, OctetsAssumption DEF SIG_BYTES
    <3>2. Prefix(sig, SIG_BYTES - 1) = [len |-> SIG_BYTES - 1, val |-> sig.val \div one]
      BY <3>1 DEF Prefix
    <3> HIDE DEF short, one, whole
    <3>3. sig.val \div one \in 0 .. short - 1
      BY <2>2, <2>3, DigitsOf
    <3>4. QED
      BY <2>2, <3>2, <3>3 DEF IsSlice, Slices, short
  <2>6. ASSUME NEW v \in {sig.val, sig.val * one}
        PROVE  IsSlice([len |-> SIG_BYTES + 1, val |-> v])
    <3> HIDE DEF short, one
    <3>1. whole \in Nat \ {0}
      BY <2>2
    <3> HIDE DEF whole
    <3>2. sig.val <= whole - 1 /\ sig.val \in Nat /\ whole - 1 \in Nat
      BY <2>3, <3>1
    <3>3. /\ sig.val * one <= (whole - 1) * one /\ (whole - 1) * one = whole * one - one
          /\ sig.val * one \in Nat /\ whole * one \in Nat
          /\ sig.val <= sig.val * one
      BY <2>2, <3>1, <3>2
    <3>4. v \in 0 .. whole * one - 1
      BY <2>2, <3>2, <3>3
    <3>5. QED
      BY <2>2, <3>4 DEF IsSlice, Slices
  <2>7. QED
    BY <2>1, <2>4, <2>5, <2>6, EmptyIsTheShortest DEF Tampered
<1>4. QED
  BY <1>1, <1>2, <1>3 DEF Asked

-----------------------------------------------------------------------------
(* The inductive invariant                                                 *)

LEMMA ZeroSec1IsAnArray == IsKeyArray(ZeroSec1)
BY DEF ZeroSec1, IsKeyArray, IsSec1, Sec1

LEMMA NothingIsWhole == SIG_BYTES # 0 /\ Empty.len = 0
BY OctetsAssumption DEF SIG_BYTES, Empty

LEMMA InitIInv == Init => IInv
<1> SUFFICES ASSUME Init PROVE IInv
  OBVIOUS
<1>1. IsSlice(d) /\ kind \in {"prehash", "randomized"}
  BY TraitsAssumption DEF Init
<1>2. QED
  BY <1>1, ZeroSec1IsAnArray, EmptyIsTheShortest DEF Init, IInv

LEMMA MakeKeyStep == IInv /\ MakeKey => IInv'
<1> SUFFICES ASSUME IInv, MakeKey PROVE IInv'
  OBVIOUS
<1>1. pc' = (IF KeyAccepted(kind, d) THEN "key" ELSE "done") /\ ~mine /\ ~ok /\ sig = Empty
  BY DEF MakeKey, IInv
<1>2. ~WholeSignature(sec1, digest, sig)
  BY <1>1, NothingIsWhole DEF WholeSignature
<1>3. QED
  BY <1>1, <1>2 DEF MakeKey, IInv, WholeSignature, Asks

\* A signer trait returns what the key did.
LEMMA AnswerStep ==
  ASSUME IInv, pc = "key", NEW dg, IsSlice(dg), NEW signed, Returns(d, dg, signed),
         Answer(dg, signed)
  PROVE  IInv'
<1>1. /\ pc' = "signed" /\ digest' = dg /\ ok' = signed.ok
      /\ kind' = kind /\ d' = d /\ sec1' = sec1 /\ mine' = mine /\ ~mine
      /\ sig' = IF signed.ok THEN P1363(signed.r, signed.s) ELSE Empty
  BY DEF Answer, IInv
<1>2. ok' \in BOOLEAN /\ IsSlice(sig')
  BY <1>1, EmptyIsTheShortest DEF Returns
<1>3. Made'
  <2>1. CASE signed.ok
    <3>1. sig' = P1363(signed.r, signed.s) /\ ok'
      BY <1>1, <2>1
    <3>2. WholeSignature(VerifyingKey(d), dg, sig')
      BY <2>1, <3>1 DEF Returns
    <3>3. QED
      BY <1>1, <3>1, <3>2 DEF Made, OwnKey, WholeSignature, Asks
  <2>2. CASE ~signed.ok
    BY <1>1, <2>2 DEF Made
  <2>3. QED
    BY <2>1, <2>2
<1>4. QED
  BY <1>1, <1>2, <1>3 DEF IInv

\* A closure, a fill of the RNG: nothing is returned.
LEMMA FailsStep ==
  ASSUME IInv, pc = "key", Fails
  PROVE  IInv'
<1>1. /\ pc' = "signed" /\ ok' = FALSE /\ sig' = Empty /\ ~mine
      /\ kind' = kind /\ d' = d /\ sec1' = sec1 /\ digest' = digest /\ sig' = sig /\ mine' = mine
  BY DEF Fails, IInv
<1>2. Made'
  BY <1>1 DEF Made
<1>3. QED
  BY <1>1, <1>2 DEF IInv

LEMMA DigestsAreSlices == \A dg \in Digests \cup {Empty} : IsSlice(dg)
BY TraitsAssumption, EmptyIsTheShortest

LEMMA PrehashStep ==
  ASSUME IInv, pc = "key", NEW dg \in Digests \cup {Empty}, NEW nonce \in Nonces,
         Answer(dg, SignPrehashed(d, dg, nonce))
  PROVE  IInv'
<1>1. IsSlice(dg) /\ IsSlice(d) /\ KeyAccepted(kind, d)
  BY DigestsAreSlices DEF IInv
<1>2. Returns(d, dg, SignPrehashed(d, dg, nonce))
  BY <1>1, PrehashReturns
<1>3. QED
  BY <1>1, <1>2, AnswerStep

LEMMA RandomizedStep ==
  ASSUME IInv, pc = "key", NEW dg \in Digests \cup {Empty}, WithRng(dg)
  PROVE  IInv'
<1>1. CASE Fails
  BY <1>1, FailsStep
<1>2. ASSUME NEW nonce \in Nonces, NEW lambda \in LambdaDraws, NEW r0 \in RDraws,
             Answer(dg, SignHedged(d, VerifyingKey(d), dg, nonce, lambda, r0))
      PROVE  IInv'
  <2>1. IsSlice(dg) /\ IsSlice(d) /\ KeyAccepted(kind, d)
    BY DigestsAreSlices DEF IInv
  <2>2. lambda \in Slices(ELEM_BYTES) /\ r0 \in Slices(SCALAR_BLIND_BYTES)
    BY TraitsAssumption
  <2>3. Returns(d, dg, SignHedged(d, VerifyingKey(d), dg, nonce, lambda, r0))
    BY <2>1, <2>2, HedgedReturns
  <2>4. QED
    BY <1>2, <2>1, <2>3, AnswerStep
<1>3. QED
  BY <1>1, <1>2 DEF WithRng

LEMMA SignStep ==
  ASSUME IInv,
         SignPrehash \/ TrySignDigest \/ SignPrehashWithRng \/ TrySignDigestWithRng
  PROVE  IInv'
<1>1. CASE SignPrehash
  BY <1>1, PrehashStep DEF SignPrehash
<1>2. CASE TrySignDigest
  BY <1>2, FailsStep, PrehashStep DEF TrySignDigest
<1>3. CASE SignPrehashWithRng
  BY <1>3, RandomizedStep DEF SignPrehashWithRng
<1>4. CASE TrySignDigestWithRng
  BY <1>4, FailsStep, RandomizedStep DEF TrySignDigestWithRng
<1>5. QED
  BY <1>1, <1>2, <1>3, <1>4

LEMMA KeypairStep == IInv /\ KeypairVerifyingKey => IInv'
<1> SUFFICES ASSUME IInv, KeypairVerifyingKey PROVE IInv'
  OBVIOUS
<1>1. /\ pc = "signed" /\ pc' = "verifying" /\ mine' = TRUE
      /\ kind' = kind /\ d' = d /\ digest' = digest /\ sig' = sig /\ ok' = ok
      /\ sec1' = IF HasPublicKey(d) THEN VerifyingKey(d) ELSE ZeroSec1
  BY DEF KeypairVerifyingKey
<1>2. IsSlice(d) /\ KeyAccepted(kind, d) /\ Made
  BY <1>1 DEF IInv
<1>3. HasPublicKey(d) /\ IsKeyArray(VerifyingKey(d))
  BY <1>2, MadeKey
<1>4. sec1' = OwnKey' /\ IsKeyArray(sec1')
  BY <1>1, <1>3 DEF OwnKey
<1>5. Made'
  BY <1>1, <1>2 DEF Made, OwnKey, WholeSignature, Asks
<1>6. QED
  BY <1>1, <1>2, <1>4, <1>5 DEF IInv

LEMMA FromSec1BytesStep == IInv /\ FromSec1Bytes => IInv'
<1> SUFFICES ASSUME IInv, FromSec1Bytes PROVE IInv'
  OBVIOUS
<1>1. /\ pc = "signed" /\ pc' = "verifying" /\ sec1' \in ForeignKeys /\ ~mine /\ mine' = mine
      /\ kind' = kind /\ d' = d /\ digest' = digest /\ sig' = sig /\ ok' = ok
  BY DEF FromSec1Bytes, IInv
<1>2. IsKeyArray(sec1')
  BY <1>1, TraitsAssumption DEF IsKeyArray
<1>3. Made'
  BY <1>1 DEF IInv, Made, OwnKey, WholeSignature, Asks
<1>4. QED
  BY <1>1, <1>2, <1>3 DEF IInv

\* A verifier answers for the octets it was given.
LEMMA VerifyStep ==
  ASSUME IInv, pc = "verifying", NEW ask \in Asked, Verify(ask[1], ask[2])
  PROVE  IInv' /\ (ok' <=> WholeSignature(sec1, ask[1], ask[2]))
<1> DEFINE dg == ask[1]
           p == ask[2]
<1>1. sig = Empty \/ sig.len = SIG_BYTES
  BY DEF IInv, Made, WholeSignature
<1>2. IsSlice(dg) /\ IsSlice(p)
  BY <1>1, AskedAreSlices DEF IInv
<1>3. IsKeyArray(sec1)
  BY DEF IInv
<1> HIDE DEF dg, p
<1>4. /\ pc' = "done" /\ digest' = dg /\ sig' = p
      /\ kind' = kind /\ d' = d /\ sec1' = sec1 /\ mine' = mine
      /\ ok' = (LengthIsRight(p)
                /\ Accepts([pubkey |-> sec1, digest |-> dg,
                            r |-> Halves(p).r, s |-> Halves(p).s]))
  BY DEF Verify, dg, p
<1>5. ok' \in BOOLEAN /\ (ok' <=> WholeSignature(sec1, dg, p))
  BY <1>2, <1>3, <1>4, VerifierIsExact
<1>6. WholeSignature(sec1, dg, p) <=> WholeSignature(sec1', digest', sig')
  BY <1>4
<1>7. mine => KeyAccepted(kind, d) /\ sec1 = VerifyingKey(d)
  BY DEF IInv, OwnKey
<1>8. mine' => KeyAccepted(kind', d') /\ sec1' = VerifyingKey(d')
  BY <1>4, <1>7
<1>9. (ok <=> WholeSignature(sec1, digest, sig))' /\ (mine => sec1 = OwnKey)'
  BY <1>5, <1>6, <1>8 DEF OwnKey, WholeSignature, Asks
<1>10. QED
  BY <1>2, <1>3, <1>4, <1>5, <1>8, <1>9 DEF IInv, dg, p

LEMMA VerifierStep ==
  ASSUME IInv, VerifyPrehash \/ VerifyDigest
  PROVE  IInv'
<1>1. CASE VerifyPrehash
  BY <1>1, VerifyStep DEF VerifyPrehash
<1>2. CASE VerifyDigest
  <2>1. CASE /\ digest' = Empty /\ ok' = FALSE /\ pc' = "done"
             /\ UNCHANGED <<kind, d, sec1, sig, mine>>
    <3>1. ~WholeSignature(sec1, digest, sig)'
      BY <2>1 DEF WholeSignature
    <3>2. pc = "verifying"
      BY <1>2 DEF VerifyDigest
    <3>3. QED
      BY <2>1, <3>1, <3>2, EmptyIsTheShortest DEF IInv, OwnKey
  <2>2. CASE \E ask \in Asked : ask[1] # Empty /\ Verify(ask[1], ask[2])
    BY <1>2, <2>2, VerifyStep DEF VerifyDigest
  <2>3. QED
    BY <1>2, <2>1, <2>2 DEF VerifyDigest
<1>3. QED
  BY <1>1, <1>2

LEMMA StutterStep == IInv /\ UNCHANGED vars => IInv'
BY DEF IInv, vars, Made, OwnKey, WholeSignature, Asks

LEMMA NextIInv == IInv /\ [Next]_vars => IInv'
BY MakeKeyStep, SignStep, KeypairStep, FromSec1BytesStep, VerifierStep, StutterStep
   DEF Next, Returned

\* What module Traits keeps at every step: a key that was made derives its public
\* point, and a signature that was returned is one under that point.
THEOREM Invariance == Spec => []IInv
<1>1. QED
  BY InitIInv, NextIInv, PTL DEF Spec

-----------------------------------------------------------------------------
(* The properties                                                          *)

\* Keypair::verifying_key returns the point of the secret, although it does not
\* look at whether the derivation succeeded.
THEOREM KeypairIsThePoint == Spec => []KeypairHoldsThePoint
<1>1. IInv => KeypairHoldsThePoint
  <2> SUFFICES ASSUME IInv, mine PROVE KeypairHoldsThePoint
    BY DEF KeypairHoldsThePoint
  <2>1. IsSlice(d) /\ KeyAccepted(kind, d) /\ sec1 = VerifyingKey(d)
    BY DEF IInv, OwnKey
  <2>2. /\ GroupMul(d.val, G) \in FinitePoints
        /\ sec1 = Sec1(SEC1_BYTES, 4, GroupMul(d.val, G)[1], GroupMul(d.val, G)[2])
    BY <2>1, MadeKey
  <2>3. QED
    BY <2>2, InfIsNotFinite DEF KeypairHoldsThePoint
<1>2. QED
  BY <1>1, Invariance, PTL

\* The verifier traits return Ok for r || s of a signature and nothing else.
THEOREM OnlyWholeSignaturesAreAccepted == Spec => []AcceptsOnlyWholeSignatures
<1>1. IInv => AcceptsOnlyWholeSignatures
  BY DEF IInv, AcceptsOnlyWholeSignatures, WholeSignature, Asks
<1>2. QED
  BY <1>1, Invariance, PTL

\* A verifier trait accepts what a signer trait returned, for the same digest and
\* under the signer's own verifying key.
THEOREM WhatIsSignedIsAccepted == Spec => SignedIsAccepted
<1>1. IInv /\ [Next]_vars
        => [mine /\ ok /\ pc = "verifying" /\ sig' = sig /\ digest' = digest => ok']_vars
  <2> SUFFICES ASSUME IInv, Next, mine, ok, pc = "verifying", sig' = sig, digest' = digest
               PROVE  ok'
    BY DEF vars
  <2>1. WholeSignature(sec1, digest, sig) /\ digest # Empty
    BY DEF IInv, Made, WholeSignature
  <2>2. ASSUME NEW ask \in Asked, Verify(ask[1], ask[2]) PROVE ok'
    <3>1. ask[1] = digest /\ ask[2] = sig
      BY <2>2 DEF Verify
    <3>2. QED
      BY <2>1, <2>2, <3>1, VerifyStep
  <2>3. VerifyPrehash \/ VerifyDigest
    BY DEF Next, MakeKey, SignPrehash, TrySignDigest, SignPrehashWithRng,
           TrySignDigestWithRng, KeypairVerifyingKey, FromSec1Bytes, Returned
  <2>4. QED
    BY <2>1, <2>2, <2>3 DEF VerifyPrehash, VerifyDigest
<1>2. QED
  BY <1>1, Invariance, PTL DEF Spec, SignedIsAccepted
=============================================================================
