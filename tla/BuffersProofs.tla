--------------------------- MODULE BuffersProofs ----------------------------
(***************************************************************************)
(* Proofs about module Buffers, for curves, backends, hashes and digests   *)
(* of every size, and buffers no smaller than the curves of the crate.     *)
(***************************************************************************)
EXTENDS Buffers, TLAPS

\* The octets hash_to_scalar keeps are there whenever it slices.
LEMMA HashSlicesHarmless ==
  ASSUME NEW c \in CallShape, NEW len \in Nat
  PROVE  HashSlices(c, len) \in Seq(HarmlessSlices(c))
<1>1. CASE len <= c.nbits \div 8
  BY <1>1 DEF HashSlices
<1>2. CASE ~(len <= c.nbits \div 8)
  <2>1. c.nbits \in Nat /\ (c.nbits + 7) \div 8 \in Nat
    BY DEF CallShape
  <2>2. (c.nbits + 7) \div 8 <= len
    BY <1>2, <2>1
  <2>3. Index(len, (c.nbits + 7) \div 8) \in HarmlessSlices(c)
    BY <2>1, <2>2 DEF Index, HarmlessSlices, Fits
  <2>4. QED
    BY <1>2, <2>3 DEF HashSlices
<1>3. QED
  BY <1>1, <1>2

\* The blinded scalar fits its buffer on every curve as wide as MAX_ELEM.
LEMMA BlindSlicesHarmless ==
  ASSUME NEW c \in CallShape, c.eb <= MAX_ELEM \/ Exception(c) \/ ~c.blinded
  PROVE  BlindSlices(c) \in Seq(HarmlessSlices(c))
<1>1. CASE ~c.blinded
  BY <1>1 DEF BlindSlices
<1>2. CASE c.blinded
  <2>1. c.eb \in Nat
    BY DEF CallShape
  <2>2. Index(BlindBuffer, c.eb + SCALAR_BLIND_BYTES + 1) \in HarmlessSlices(c)
    BY <1>2, <2>1, BuffersAssumption DEF BlindBuffer, Index, HarmlessSlices, Fits
  <2>3. QED
    BY <1>2, <2>2 DEF BlindSlices
<1>3. QED
  BY <1>1, <1>2 DEF CallShape

LEMMA SignCoreHarmless ==
  ASSUME NEW c \in CallShape, c.eb <= MAX_ELEM \/ Exception(c) \/ ~c.blinded
  PROVE  SignCoreSlices(c) \in Seq(HarmlessSlices(c))
<1>1. c.digest \in Nat
  BY DEF CallShape
<1>2. QED
  BY <1>1, HashSlicesHarmless, BlindSlicesHarmless DEF SignCoreSlices

\* Nothing the derivation slices can panic: what may not fit is checked.
LEMMA DeriveHarmless ==
  ASSUME NEW c \in CallShape
  PROVE  DeriveSlices(c) \in Seq(HarmlessSlices(c))
<1>1. c.eb \in Nat /\ c.hlen \in Nat /\ c.digest \in Nat
  BY DEF CallShape
<1>2. /\ Get(MAX_HLEN, c.hlen) \in HarmlessSlices(c)
      /\ Get(MAX_QLEN_BYTES, c.eb) \in HarmlessSlices(c)
  BY <1>1, BuffersAssumption DEF Get, HarmlessSlices
<1>3. NonceSlices(c) \in Seq(HarmlessSlices(c))
  <2>1. HashSlices(c, c.eb) \in Seq(HarmlessSlices(c))
    BY <1>1, HashSlicesHarmless
  <2>2. QED
    BY <1>2, <2>1 DEF NonceSlices
<1>4. HashSlices(c, c.digest) \in Seq(HarmlessSlices(c))
  BY <1>1, HashSlicesHarmless
<1>5. QED
  BY <1>2, <1>3, <1>4 DEF DeriveSlices

\* The frames of sign_prehashed_ct_added, in a build its asserts let through.
LEMMA SignFramesHarmless ==
  ASSUME NEW c \in CallShape, DeriveBuilds(c), c.eb <= MAX_ELEM \/ ~c.blinded
  PROVE  SignFrames(c) \in Seq(Seq(HarmlessSlices(c)))
<1>1. Index(MAX_QLEN_BYTES, c.eb) \in HarmlessSlices(c)
  BY BuffersAssumption DEF DeriveBuilds, CallShape, Index, HarmlessSlices, Fits
<1>2. QED
  BY <1>1, DeriveHarmless, SignCoreHarmless DEF SignFrames

\* The frames of the keys, which assert MAX_ELEM.
LEMMA KeyFramesHarmless ==
  ASSUME NEW c \in CallShape, KeyBuilds(c)
  PROVE  KeyFrame(c) \in Seq(HarmlessSlices(c)) /\ PubkeyFrame(c) \in Seq(HarmlessSlices(c))
<1>1. c.eb \in Nat /\ c.eb <= MAX_ELEM /\ 1 + 2 * c.eb <= 1 + 2 * MAX_ELEM
  BY BuffersAssumption DEF CallShape, KeyBuilds
<1>2. /\ Index(MAX_ELEM, c.eb) \in HarmlessSlices(c)
      /\ Index(1 + 2 * MAX_ELEM, 1 + 2 * c.eb) \in HarmlessSlices(c)
  BY <1>1, BuffersAssumption DEF Index, HarmlessSlices, Fits
<1>3. QED
  BY <1>2 DEF KeyFrame, PubkeyFrame

\* Whatever its asserts let through slices nothing that can panic, entry by entry.
LEMMA FramesHarmless ==
  ASSUME NEW c \in CallShape, Builds(c)
  PROVE  Frames(c) \in Seq(Seq(HarmlessSlices(c)))
<1> DEFINE H == Seq(HarmlessSlices(c))
<1>0. c.digest \in Nat /\ c.eb \in Nat /\ (c.blinded => c.entry \in Blindable)
  BY DEF CallShape
<1> HIDE DEF H
<1>1. CASE c.entry = "verify"
  <2>1. HashSlices(c, c.digest) \in H
    BY <1>0, HashSlicesHarmless DEF H
  <2>2. QED
    BY <1>1, <2>1 DEF Frames, H
<1>2. CASE c.entry = "with_k"
  <2>1. c.eb <= MAX_ELEM \/ Exception(c) \/ ~c.blinded
    BY <1>0, <1>2, BuffersAssumption DEF Exception
  <2>2. SignCoreSlices(c) \in H
    BY <2>1, SignCoreHarmless DEF H
  <2>3. QED
    BY <1>2, <2>2 DEF Frames, H
<1>3. CASE c.entry = "raw"
  <2>1. DeriveBuilds(c) /\ ~c.blinded
    BY <1>0, <1>3 DEF Builds, SignBuilds, Blindable
  <2>2. SignFrames(c) \in Seq(H)
    BY <2>1, SignFramesHarmless DEF H
  <2>3. QED
    BY <1>3, <2>2 DEF Frames, H
<1>4. CASE c.entry = "prehash"
  <2>1. KeyBuilds(c) /\ DeriveBuilds(c) /\ ~c.blinded
    BY <1>0, <1>4 DEF Builds, SignBuilds, Blindable
  <2>2. SignFrames(c) \in Seq(H)
    BY <2>1, SignFramesHarmless DEF H
  <2>3. KeyFrame(c) \in H
    BY <2>1, KeyFramesHarmless DEF H
  <2>4. QED
    BY <1>4, <2>2, <2>3 DEF Frames, H
<1>5. CASE c.entry = "randomized"
  <2>1. KeyBuilds(c) /\ DeriveBuilds(c) /\ c.eb <= MAX_ELEM
    BY <1>5 DEF Builds, SignBuilds, KeyBuilds
  <2>2. SignFrames(c) \in Seq(H)
    BY <2>1, SignFramesHarmless DEF H
  <2>3. KeyFrame(c) \in H /\ PubkeyFrame(c) \in H
    BY <2>1, KeyFramesHarmless DEF H
  <2>4. HashSlices(c, c.digest) \in H
    BY <1>0, HashSlicesHarmless DEF H
  <2>5. QED
    BY <1>5, <2>2, <2>3, <2>4 DEF Frames, H
<1>6. CASE c.entry = "ecdh"
  BY <1>6 DEF Frames
<1>7. CASE c.entry = "kem"
  <2>1. KeyBuilds(c) /\ c.eb <= MAX_ELEM
    BY <1>7 DEF Builds, KeyBuilds
  <2>2. KeyFrame(c) \in H /\ BlindSlices(c) \in H
    BY <2>1, KeyFramesHarmless, BlindSlicesHarmless DEF H
  <2>3. QED
    BY <1>7, <2>2 DEF Frames, H
<1>8. QED
  BY <1>1, <1>2, <1>3, <1>4, <1>5, <1>6, <1>7 DEF CallShape, Entries

-----------------------------------------------------------------------------

LEMMA InitIInv == Init => IInv
BY DEF Init, IInv

LEMMA StepIInv == IInv /\ [Next]_vars => IInv'
<1> SUFFICES ASSUME IInv, [Next]_vars PROVE IInv'
  OBVIOUS
<1> DEFINE H == HarmlessSlices(call)
<1>0. call \in Calls /\ call \in CallShape /\ left \in Seq(Seq(H))
  BY BuffersAssumption DEF IInv
<1> HIDE DEF H
<1>a. ASSUME left # <<>> PROVE Head(left) \in Seq(H) /\ Tail(left) \in Seq(Seq(H))
  BY <1>a, <1>0
<1>1. CASE DoesNotBuild
  BY <1>1 DEF DoesNotBuild, IInv
<1>2. CASE Call
  <2>1. left' \in Seq(Seq(H))
    BY <1>0, <1>2, FramesHarmless DEF Call, H
  <2>2. QED
    BY <1>2, <2>1 DEF Call, IInv, H
<1>3. CASE Slice
  <2>1. Tail(Head(left)) \in Seq(H)
    BY <1>3, <1>a DEF Slice
  <2>2. left' \in Seq(Seq(H))
    BY <1>3, <1>a, <2>1 DEF Slice
  <2>3. QED
    BY <1>3, <2>2 DEF Slice, IInv, H
<1>4. CASE EndFrame \/ LeaveFrame
  <2>1. left' \in Seq(Seq(H))
    BY <1>4, <1>a DEF EndFrame, LeaveFrame
  <2>2. QED
    BY <1>4, <2>1 DEF EndFrame, LeaveFrame, IInv, H
<1>5. CASE Panic
  <2>1. Head(Head(left)) \in H
    BY <1>5, <1>a DEF Panic
  <2>2. Exception(call)
    BY <1>5, <2>1 DEF Panic, H, HarmlessSlices
  <2>3. QED
    BY <1>5, <2>2 DEF Panic, IInv
<1>6. CASE Return \/ Ended \/ UNCHANGED vars
  BY <1>6 DEF Return, Ended, vars, IInv
<1>7. QED
  BY <1>1, <1>2, <1>3, <1>4, <1>5, <1>6 DEF Next

\* What the panic audit calls builds, and is no exception.
LEMMA AuditedCallsAreFine == \A c \in Audited : Builds(c) /\ ~Exception(c)
<1> SUFFICES ASSUME NEW c \in Audited PROVE Builds(c) /\ ~Exception(c)
  OBVIOUS
<1>1. /\ c.entry \in {"with_k", "ecdh", "raw"}
      /\ c.eb \in {32, 48} /\ c.size = c.eb
  BY DEF Audited, WithKFixtures, EcdhFixtures, BlindedFixtures, RawFixtures, Fixture
<1>2. DeriveBuilds(c) /\ SignCoreBuilds(c) /\ EcdhBuilds(c)
  BY <1>1, BuffersAssumption DEF DeriveBuilds, SignCoreBuilds, EcdhBuilds
<1>3. Builds(c)
  <2>1. CASE c.entry = "with_k"
    BY <1>2, <2>1 DEF Builds
  <2>2. CASE c.entry = "ecdh"
    BY <1>2, <2>2 DEF Builds
  <2>3. CASE c.entry = "raw"
    BY <1>2, <2>3 DEF Builds, SignBuilds
  <2>4. QED
    BY <1>1, <2>1, <2>2, <2>3
<1>4. QED
  BY <1>1, <1>3, BuffersAssumption DEF Exception

THEOREM Invariance == Spec => []IInv
<1>1. QED
  BY InitIInv, StepIInv, PTL DEF Spec

\* No slice of any entry point panics, but that of the blinded nonce in a build
\* wider than MAX_ELEM, for all sizes there are.
THEOREM NoOtherPanic == Spec => []OnlyTheWideBlindedNonceOverflows
<1>1. IInv => OnlyTheWideBlindedNonceOverflows
  BY AuditedCallsAreFine DEF IInv, Exception, OnlyTheWideBlindedNonceOverflows
<1>2. QED
  BY <1>1, Invariance, PTL
=============================================================================
