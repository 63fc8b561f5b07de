----------------------------- MODULE SignProofs -----------------------------
(***************************************************************************)
(* Proofs about modules Sign and TaintSign, for every curve that meets the *)
(* contract, every width and every call: a signer returns the textbook     *)
(* pair, one that checks its output releases nothing else even when the    *)
(* arithmetic glitches, and no secret steers the signing core.             *)
(***************************************************************************)
EXTENDS TaintSign, CurveProofs

\* The pair the arithmetic makes of the call, when nothing glitches.
Answer == Signature(call.d, call.digest, k, blind, sblind)

ShowsAnswer == outR = Answer.r /\ outS = Answer.s

Clean == outR.val = 0 /\ outS.val = 0

\* A keyed call has its key; the randomized keys cache the public key of d.
HasKey ==
  /\ call.entry \in Keyed => KeyAccepted(call.entry, call.d)
  /\ pubkey = IF call.entry \in Checked THEN VerifyingKey(call.d) ELSE None

Drawn == call.entry = "randomized" => draws = 3

\* Nothing has been written.
Untouched ==
  outR = call.outR /\ outS = call.outS /\ ~faulted /\ ~signed /\ ~result

\* The nonce buffer is as it was zeroed.
NoNonce == k = Zeros(ELEM_BYTES)

\* What sign_prehashed_ct_with_k returned.
Answered == HasKey /\ Drawn /\ (signed <=> SignShaped /\ Answer.ok)

\* What the call returned, when it got as far as signing: the pair, or nothing.
Settled ==
  \/ /\ result /\ derived /\ signed
     /\ call.entry \in Checked => Verified
     /\ ~faulted => ShowsAnswer
  \/ /\ ~result
     /\ call.entry \in Checked => Clean
     /\ ~faulted => ~(derived /\ signed)

\* What it returned when it did not.
Refused ==
  /\ ~result /\ NoNonce
  /\ pubkey # None => ChecksOutput(call)
  /\ ChecksOutput(call) => Clean

Shapes ==
  /\ CallShape(call) /\ IsSlice(k) /\ IsSlice(blind) /\ IsSlice(sblind)
  /\ IsSlice(outR) /\ outR.len = call.outR.len
  /\ IsSlice(outS) /\ outS.len = call.outS.len
  /\ draws \in 0 .. 3 /\ {derived, signed, faulted, result} \subseteq BOOLEAN

\* A derivation fails only on a d that cannot sign.
Derives ==
  call.d.len = ELEM_BYTES /\ call.d.val \in Scalar /\ k.val \in Scalar => derived

IInv ==
  /\ Shapes /\ Derives
  /\ pc \in {"key", "draw", "buffers", "derive", "sign", "check", "done"}
  /\ pc \in {"key", "draw", "buffers", "derive"} => Untouched
  /\ pc = "key" => NoNonce /\ call.entry \in Keyed /\ pubkey = None /\ draws = 0
  /\ pc = "draw" => NoNonce /\ HasKey /\ call.entry = "randomized" /\ draws \in 0 .. 2
  /\ pc = "buffers" => NoNonce /\ HasKey /\ Drawn /\ call.entry \in Checked
  /\ pc = "derive" => NoNonce /\ HasKey /\ Drawn
  /\ pc = "sign" => HasKey /\ Drawn /\ ~faulted /\ ~result
  /\ pc = "check" => /\ Answered /\ call.entry \in Checked /\ ~result
                     /\ signed /\ ~faulted => ShowsAnswer
  /\ pc = "done" => Refused \/ (Answered /\ Settled)
  /\ faulted => call.entry \in Checked

-----------------------------------------------------------------------------
(* What the signature and its check compute                                *)

LEMMA WellShapedArguments ==
  ASSUME Shapes, SignShaped
  PROVE  /\ SignerArguments(call.d, call.digest, k, blind, sblind)
         /\ call.d \in Slices(ELEM_BYTES) /\ k \in Slices(ELEM_BYTES)
<1>1. call.d \in Slices(ELEM_BYTES) /\ k \in Slices(ELEM_BYTES)
  BY DEF Shapes, CallShape, IsSlice, SignShaped, ArgumentsShaped
<1>2. IsSlice(call.digest) /\ call.digest.len # 0
  BY DEF Shapes, CallShape, SignShaped, ArgumentsShaped
<1>3. FromBE(blind) \in Int
  <2>1. blind = Empty \/ blind \in Slices(ELEM_BYTES)
    BY DEF Shapes, IsSlice, SignShaped, BlindersShaped
  <2>2. blind.val \in Int
    BY <2>1, ElementWidths DEF Slices, Empty
  <2>3. QED
    BY <2>2 DEF FromBE
<1>4. sblind = Empty \/ (sblind \in Slices(SCALAR_BLIND_BYTES) /\ T_BYTES = ELEM_BYTES)
  BY SignAssumption DEF Shapes, IsSlice, SignShaped, BlindersShaped
<1>5. QED
  BY <1>1, <1>2, <1>3, <1>4 DEF SignerArguments

\* SignatureIsTheTextbookPair, of the call at hand.
Solvable ==
  LET r == GroupMul(k.val, G)[1] % N
  IN  /\ call.d.val \in Scalar /\ k.val \in Scalar
      /\ r # 0 /\ (LeftmostBits(call.digest, NBits) + r * call.d.val) % N # 0

Solves(sig) ==
  LET r == GroupMul(k.val, G)[1] % N
  IN  /\ sig.r.val = r
      /\ (sig.s.val * k.val) % N = (LeftmostBits(call.digest, NBits) + r * call.d.val) % N

LEMMA AnswerIsThePair ==
  ASSUME Shapes, SignShaped
  PROVE  /\ Answer.ok \in BOOLEAN /\ (Answer.ok <=> Solvable)
         /\ Answer.r \in Slices(ELEM_BYTES) /\ Answer.s \in Slices(ELEM_BYTES)
         /\ Answer.ok => /\ Solves(Answer)
                         /\ Answer.r.val \in Scalar /\ Answer.s.val \in Scalar
BY WellShapedArguments, SignatureIsTheTextbookPair DEF Answer, Solvable, Solves

Halves == [r |-> outR, s |-> outS]

LEMMA AnswerIsGood ==
  ASSUME Shapes, SignShaped, Answer.ok
  PROVE  IsGoodFor(call, [r |-> Answer.r, s |-> Answer.s])
BY WellShapedArguments, SignatureIsASignature DEF Answer, IsGoodFor, OwnRequest

\* The cached key is the public key of d, and the check asks for a signature under it.
LEMMA CheckIsExact ==
  ASSUME Shapes, HasKey, call.entry \in Checked
  PROVE  /\ Own \in FinitePoints /\ pubkey = Sec1(SEC1_BYTES, 4, Own[1], Own[2])
         /\ Verified <=> WellFormed(Request(pubkey)) /\ IsGoodFor(call, Halves)
<1>1. call.d \in Slices(ELEM_BYTES) /\ call.d.val \in Scalar
  <2>1. call.d.len = ELEM_BYTES /\ SecretInRange(call.d)
    BY DEF HasKey, Keyed, Checked, KeyAccepted
  <2>2. QED
    BY <2>1, RangeOfSecret DEF Shapes, CallShape, IsSlice
<1>2. /\ Own \in FinitePoints /\ pubkey = Sec1(SEC1_BYTES, 4, Own[1], Own[2])
      /\ IsSec1(pubkey)
  BY <1>1, VerifyingKeyIsTheProduct DEF HasKey, Own
<1> DEFINE q == Request(pubkey)
<1>3. /\ q.pubkey = pubkey /\ q.digest = call.digest /\ q.r = outR /\ q.s = outS
  BY DEF Request
<1>4. RequestShape(q)
  BY <1>2, <1>3 DEF RequestShape, Shapes, CallShape
<1>5. Verified = Accepts(q)
  BY DEF Verified, Request
<1>6. IsSignature(q) <=> IsGoodFor(call, Halves)
  BY <1>2 DEF IsGoodFor, Halves, Request, Own
<1> HIDE DEF q
<1>7. Accepts(q) <=> WellFormed(q) /\ IsSignature(q)
  BY <1>4, AcceptsTheSignatures
<1>8. QED
  BY <1>2, <1>5, <1>6, <1>7 DEF q

\* The check lets every pair through that the arithmetic made.
LEMMA AnswerPasses ==
  ASSUME Shapes, HasKey, call.entry \in Checked, SignShaped, Answer.ok, ShowsAnswer
  PROVE  Verified
<1>1. IsGoodFor(call, Halves)
  BY AnswerIsGood DEF Halves, ShowsAnswer
<1>2. WellFormed(Request(pubkey))
  BY CheckIsExact DEF WellFormed, Request, Sec1, SignShaped, ArgumentsShaped
<1>3. QED
  BY <1>1, <1>2, CheckIsExact

-----------------------------------------------------------------------------
(* The inductive invariant                                                 *)

LEMMA ZerosType ==
  /\ \A n \in 0 .. SLICE_BYTES : IsSlice(Zeros(n)) /\ Zeros(n) \in Slices(n)
  /\ Zeros(ELEM_BYTES).val = 0 /\ IsSlice(Zeros(ELEM_BYTES)) /\ 0 \notin Scalar
<1>1. ASSUME NEW n \in 0 .. SLICE_BYTES PROVE IsSlice(Zeros(n)) /\ Zeros(n) \in Slices(n)
  <2>1. 0 \in 0 .. Width(n) - 1
    BY WidthType
  <2>2. QED
    BY <1>1, <2>1 DEF IsSlice, Zeros, Slices
<1>2. ELEM_BYTES \in 0 .. SLICE_BYTES
  BY OctetsAssumption
<1>3. Zeros(ELEM_BYTES).val = 0 /\ 0 \notin Scalar
  BY DEF Zeros, Scalar
<1>4. QED
  BY <1>1, <1>2, <1>3

LEMMA NoNonceRefuses == NoNonce => k.val \notin Scalar /\ IsSlice(k)
BY ZerosType DEF NoNonce

LEMMA InitIInv == Init => IInv
<1> SUFFICES ASSUME Init PROVE IInv
  OBVIOUS
<1>1. CallShape(call)
  BY SignAssumption DEF Init
<1>2. Shapes
  <2>1. /\ IsSlice(call.k) /\ IsSlice(call.blind) /\ IsSlice(call.sblind)
        /\ IsSlice(call.outR) /\ IsSlice(call.outS)
    BY <1>1 DEF CallShape
  <2>2. IsSlice(k)
    BY <2>1, ZerosType DEF Init, EntryNonce
  <2>3. draws \in 0 .. 3 /\ {derived, signed, faulted, result} \subseteq BOOLEAN
    <3>1. derived = TRUE /\ signed = FALSE /\ faulted = FALSE /\ result = FALSE /\ draws = 0
      BY DEF Init
    <3>2. {derived, signed, faulted, result} \subseteq BOOLEAN
      BY <3>1, Zenon
    <3>3. QED
      BY <3>1, <3>2
  <2>4. QED
    BY <1>1, <2>1, <2>2, <2>3 DEF Init, Shapes
<1>3. Untouched
  BY DEF Init, Untouched
<1>4. CASE call.entry = "with_k"
  BY <1>2, <1>3, <1>4 DEF Init, IInv, Derives, Entry, HasKey, Drawn, Untouched, Keyed, Checked
<1>5. CASE call.entry = "raw"
  BY <1>2, <1>3, <1>5
     DEF Init, IInv, Derives, Entry, EntryNonce, NoNonce, HasKey, Drawn, Untouched, Keyed, Checked
<1>6. CASE call.entry \in Keyed
  BY <1>2, <1>3, <1>6
     DEF Init, IInv, Derives, Entry, EntryNonce, NoNonce, HasKey, Drawn, Untouched, Keyed, Checked
<1>7. QED
  BY <1>1, <1>4, <1>5, <1>6 DEF CallShape

\* Nothing that decides what the call returns has moved.
LEMMA Undisturbed ==
  ASSUME UNCHANGED <<call, pubkey, draws, blind, sblind, k, outR, outS>>
  PROVE  /\ Answer' = Answer /\ SignShaped' = SignShaped /\ HasKey' = HasKey /\ Drawn' = Drawn
         /\ NoNonce' = NoNonce /\ Verified' = Verified /\ Clean' = Clean
         /\ ShowsAnswer' = ShowsAnswer /\ ChecksOutput(call') = ChecksOutput(call)
<1>1. Answer' = Answer /\ SignShaped' = SignShaped /\ HasKey' = HasKey /\ Drawn' = Drawn
  BY DEF Answer, SignShaped, ArgumentsShaped, BlindersShaped, HasKey, Drawn
<1>2. NoNonce' = NoNonce /\ Verified' = Verified /\ Clean' = Clean
  BY DEF NoNonce, Verified, Clean
<1>3. ShowsAnswer' = ShowsAnswer /\ ChecksOutput(call') = ChecksOutput(call)
  BY <1>1 DEF ShowsAnswer
<1>4. QED
  BY <1>1, <1>2, <1>3

\* The lengths of the buffers are all the arithmetic asks of them.
LEMMA BuffersRewritten ==
  ASSUME Shapes, UNCHANGED <<call, pubkey, draws, blind, sblind, k>>,
         outR'.len = outR.len, outS'.len = outS.len
  PROVE  /\ Answer' = Answer /\ (SignShaped' <=> SignShaped)
         /\ HasKey' = HasKey /\ Drawn' = Drawn /\ NoNonce' = NoNonce
<1>1. Answer' = Answer /\ HasKey' = HasKey /\ Drawn' = Drawn /\ NoNonce' = NoNonce
  BY DEF Answer, HasKey, Drawn, NoNonce
<1>2. SignShaped' <=> SignShaped
  BY DEF SignShaped, ArgumentsShaped, BlindersShaped
<1>3. QED
  BY <1>1, <1>2

LEMMA RejectKeyStep == IInv /\ RejectKey => IInv'
<1> SUFFICES ASSUME IInv, RejectKey PROVE IInv'
  OBVIOUS
<1>1. Shapes' /\ Derives' /\ NoNonce' /\ pubkey' = None /\ result' = FALSE
  BY DEF IInv, RejectKey, Shapes, Derives, NoNonce, Untouched
<1>2. ~ChecksOutput(call')
  BY DEF RejectKey, ChecksOutput
<1>3. Refused'
  BY <1>1, <1>2 DEF Refused
<1>4. QED
  BY <1>1, <1>3 DEF IInv, RejectKey, Untouched

LEMMA AcceptKeyStep == IInv /\ AcceptKey => IInv'
<1> SUFFICES ASSUME IInv, AcceptKey PROVE IInv'
  OBVIOUS
<1>1. /\ Shapes' /\ Derives' /\ NoNonce' /\ Untouched' /\ call' = call /\ draws' = 0
      /\ call.entry \in Keyed /\ KeyAccepted(call.entry, call.d)
  BY DEF IInv, AcceptKey, Shapes, Derives, NoNonce, Untouched
<1>2. HasKey'
  BY <1>1 DEF AcceptKey, HasKey, Keyed, Checked
<1>3. pc' \in {"draw", "buffers", "derive"}
  BY <1>1 DEF AcceptKey, Keyed
<1>4. /\ pc' = "draw" => call.entry = "randomized"
      /\ pc' = "buffers" => call.entry = "hedged"
      /\ pc' = "derive" => call.entry = "prehash"
  BY <1>1 DEF AcceptKey, Keyed
<1>5. QED
  BY <1>1, <1>2, <1>3, <1>4 DEF IInv, Drawn, Checked, Untouched

LEMMA DrawStep == IInv /\ Draw => IInv'
<1> SUFFICES ASSUME IInv, Draw PROVE IInv'
  OBVIOUS
<1>1. /\ draws \in 0 .. 2 /\ draws' = draws + 1 /\ call' = call
      /\ call.entry = "randomized" /\ NoNonce /\ HasKey /\ Untouched
  BY DEF IInv, Draw
<1>2. IsSlice(blind') /\ IsSlice(sblind')
  <2>1. ELEM_BYTES \in 0 .. SLICE_BYTES /\ SCALAR_BLIND_BYTES \in 0 .. SLICE_BYTES
    BY OctetsAssumption, BlindAssumption
  <2>2. \A b \in LambdaDraws \cup RDraws : IsSlice(b)
    BY <2>1, SignAssumption DEF IsSlice, Slices
  <2>3. IsSlice(blind) /\ IsSlice(sblind)
    BY DEF IInv, Shapes
  <2>4. QED
    BY <2>2, <2>3 DEF Draw
<1>3. Shapes'
  BY <1>1, <1>2 DEF IInv, Shapes, Draw
<1>4. Derives' /\ NoNonce' /\ HasKey' /\ Untouched'
  BY <1>1 DEF IInv, Draw, Derives, NoNonce, HasKey, Untouched
<1>5. draws' \in 0 .. 3 /\ pc' = IF draws' = 3 THEN "buffers" ELSE "draw"
  BY <1>1 DEF Draw
<1>6. QED
  BY <1>1, <1>3, <1>4, <1>5 DEF IInv, Drawn, Checked, Untouched

LEMMA RngFailsStep == IInv /\ RngFails => IInv'
<1> SUFFICES ASSUME IInv, RngFails PROVE IInv'
  OBVIOUS
<1>1. /\ Shapes' /\ Derives' /\ NoNonce' /\ HasKey /\ Untouched /\ call.entry = "randomized"
      /\ call' = call /\ outR' = outR /\ outS' = outS /\ ~result' /\ ~faulted'
  BY DEF IInv, RngFails, Shapes, Derives, NoNonce, Untouched
<1>2. Clean'
  BY <1>1, ZerosType DEF Untouched, IInv, Shapes, CallShape, Clean
<1>3. ChecksOutput(call')
  BY <1>1 DEF HasKey, ChecksOutput, Keyed, Checked
<1>4. QED
  BY <1>1, <1>2, <1>3 DEF IInv, RngFails, Refused

LEMMA EraseEffect ==
  ASSUME Shapes, Erase,
         UNCHANGED <<call, pubkey, draws, blind, sblind, k, derived, signed, faulted>>
  PROVE  /\ Shapes' /\ Clean' /\ ~result' /\ outR'.len = outR.len /\ outS'.len = outS.len
         /\ pc' = "done"
<1>1. IsSlice(Zeros(outR.len)) /\ IsSlice(Zeros(outS.len))
  BY ZerosType DEF Shapes, IsSlice
<1>2. /\ outR'.len = outR.len /\ outS'.len = outS.len /\ IsSlice(outR') /\ IsSlice(outS')
      /\ result' = FALSE /\ pc' = "done" /\ Clean'
  BY <1>1 DEF Erase, Zeros, Clean
<1>3. {derived', signed', faulted', result'} \subseteq BOOLEAN
  BY <1>2 DEF Shapes
<1>4. QED
  BY <1>2, <1>3 DEF Shapes

LEMMA RejectBuffersStep == IInv /\ RejectBuffers => IInv'
<1> SUFFICES ASSUME IInv, RejectBuffers PROVE IInv'
  OBVIOUS
<1>1. /\ Shapes /\ Derives /\ NoNonce /\ HasKey /\ Untouched /\ call.entry \in Checked
      /\ Erase
      /\ UNCHANGED <<call, pubkey, draws, blind, sblind, k, derived, signed, faulted>>
  BY DEF IInv, RejectBuffers
<1>2. Shapes' /\ Clean' /\ ~result' /\ pc' = "done"
  BY <1>1, EraseEffect
<1>3. Derives' /\ NoNonce'
  BY <1>1 DEF Derives, NoNonce
<1>4. ChecksOutput(call')
  BY <1>1 DEF HasKey, ChecksOutput, Keyed, Checked
<1>5. Refused'
  BY <1>2, <1>3, <1>4 DEF Refused
<1>6. QED
  BY <1>1, <1>2, <1>3, <1>5 DEF IInv

LEMMA AcceptBuffersStep == IInv /\ AcceptBuffers => IInv'
<1> SUFFICES ASSUME IInv, AcceptBuffers PROVE IInv'
  OBVIOUS
<1>1. UNCHANGED <<call, pubkey, draws, blind, sblind, k, derived, signed, outR, outS,
                  faulted, result>>
  BY DEF AcceptBuffers
<1>2. Shapes' /\ Derives' /\ Untouched' /\ NoNonce' /\ HasKey' /\ Drawn'
  BY <1>1 DEF IInv, AcceptBuffers, Shapes, Derives, Untouched, NoNonce, HasKey, Drawn
<1>3. QED
  BY <1>1, <1>2 DEF IInv, AcceptBuffers

LEMMA DeriveStep == IInv /\ Derive => IInv'
<1> SUFFICES ASSUME IInv, Derive PROVE IInv'
  OBVIOUS
<1>1. /\ Shapes /\ Derives /\ NoNonce /\ HasKey /\ Drawn /\ Untouched /\ pc' = "sign"
      /\ UNCHANGED <<call, pubkey, draws, blind, sblind, signed, outR, outS, faulted, result>>
  BY DEF IInv, Derive
<1>2. IsSlice(k') /\ derived' \in BOOLEAN /\ Derives'
  <2>1. CASE call.d.len = ELEM_BYTES /\ call.digest.len # 0
    <3>1. k' \in Nonces /\ derived' = SecretInRange(call.d)
      BY <2>1 DEF Derive
    <3>2. call.d \in Slices(ELEM_BYTES)
      BY <1>1, <2>1 DEF Shapes, CallShape, IsSlice
    <3>3. derived' \in BOOLEAN
      BY <3>1 DEF SecretInRange
    <3>4. call.d.val \in Scalar => derived'
      BY <3>1, <3>2, RangeOfSecret
    <3>5. QED
      BY <1>1, <3>1, <3>3, <3>4, NonceType DEF Derives
  <2>2. CASE ~(call.d.len = ELEM_BYTES /\ call.digest.len # 0)
    <3>1. k' = k /\ derived' = FALSE
      BY <2>2 DEF Derive
    <3>2. QED
      BY <1>1, <3>1, NoNonceRefuses DEF Derives
  <2>3. QED
    BY <2>1, <2>2
<1>3. HasKey' /\ Drawn'
  BY <1>1 DEF HasKey, Drawn
<1>4. Shapes'
  <2>1. {derived', signed', faulted', result'} \subseteq BOOLEAN
    BY <1>1, <1>2 DEF Shapes
  <2>2. QED
    BY <1>1, <1>2, <2>1 DEF Shapes
<1>5. QED
  BY <1>1, <1>2, <1>3, <1>4 DEF IInv, Untouched

\* What the signing core answers, and what is returned of it when nothing checks it.
LEMMA AfterSignStep ==
  ASSUME IInv, pc = "sign", AfterSign, Shapes', Answered', signed' => ShowsAnswer',
         UNCHANGED <<call, pubkey, draws, blind, sblind, k, derived, faulted>>
  PROVE  IInv'
<1>1. Derives' /\ ~faulted'
  BY DEF IInv, Derives
<1>2. CASE call.entry \in Checked
  <2>1. pc' = "check" /\ ~result'
    BY <1>2 DEF AfterSign, IInv
  <2>2. QED
    BY <1>1, <1>2, <2>1 DEF IInv
<1>3. CASE call.entry \notin Checked
  <2>1. pc' = "done" /\ result' = (derived /\ signed')
    BY <1>3 DEF AfterSign
  <2>2. Settled'
    BY <1>1, <1>3, <2>1 DEF Settled
  <2>3. QED
    BY <1>1, <2>1, <2>2 DEF IInv
<1>4. QED
  BY <1>2, <1>3

LEMMA ResultType ==
  ASSUME IInv, AfterSign, signed' \in BOOLEAN, UNCHANGED <<derived, faulted>>
  PROVE  {derived', signed', faulted', result'} \subseteq BOOLEAN
<1>1. result' \in BOOLEAN
  <2>1. CASE call.entry \in Checked
    BY <2>1 DEF AfterSign, IInv, Shapes
  <2>2. CASE call.entry \notin Checked
    <3>1. result' = (derived /\ signed')
      BY <2>2 DEF AfterSign
    <3>2. QED
      BY <3>1
  <2>3. QED
    BY <2>1, <2>2
<1>2. QED
  BY <1>1 DEF IInv, Shapes

LEMMA SignRejectsStep == IInv /\ SignRejects => IInv'
<1> SUFFICES ASSUME IInv, SignRejects PROVE IInv'
  OBVIOUS
<1>1. /\ pc = "sign" /\ ~SignShaped /\ signed' = FALSE /\ AfterSign
      /\ UNCHANGED <<call, pubkey, draws, blind, sblind, k, derived, outR, outS, faulted>>
  BY DEF SignRejects
<1>2. Shapes'
  BY <1>1, ResultType DEF IInv, Shapes
<1>3. Answered'
  <2>1. HasKey' /\ Drawn' /\ ~SignShaped'
    BY <1>1, Undisturbed DEF IInv
  <2>2. QED
    BY <1>1, <2>1 DEF Answered
<1>4. QED
  BY <1>1, <1>2, <1>3, AfterSignStep

LEMMA SignWritesStep == IInv /\ SignWrites => IInv'
<1> SUFFICES ASSUME IInv, SignWrites PROVE IInv'
  OBVIOUS
<1>1. /\ pc = "sign" /\ SignShaped /\ AfterSign /\ Shapes
      /\ outR' = Answer.r /\ outS' = Answer.s /\ signed' = Answer.ok
      /\ UNCHANGED <<call, pubkey, draws, blind, sblind, k, derived, faulted>>
  BY DEF IInv, SignWrites, Answer
<1>2. Answer.r \in Slices(ELEM_BYTES) /\ Answer.s \in Slices(ELEM_BYTES) /\ Answer.ok \in BOOLEAN
  BY <1>1, AnswerIsThePair
<1>3. /\ outR'.len = outR.len /\ outS'.len = outS.len /\ IsSlice(outR') /\ IsSlice(outS')
  <2>1. outR.len = ELEM_BYTES /\ outS.len = ELEM_BYTES
    BY <1>1 DEF SignShaped, ArgumentsShaped
  <2>2. QED
    BY <1>1, <1>2, <2>1, OctetsAssumption DEF IsSlice, Slices
<1>4. Shapes'
  <2>1. {derived', signed', faulted', result'} \subseteq BOOLEAN
    BY <1>1, <1>2, ResultType
  <2>2. QED
    BY <1>1, <1>3, <2>1 DEF Shapes
<1>5. Answer' = Answer /\ (SignShaped' <=> SignShaped) /\ HasKey' = HasKey /\ Drawn' = Drawn
  BY <1>1, <1>3, BuffersRewritten
<1>6. Answered' /\ ShowsAnswer'
  <2>1. HasKey /\ Drawn
    BY <1>1 DEF IInv
  <2>2. QED
    BY <1>1, <1>5, <2>1 DEF Answered, ShowsAnswer
<1>7. QED
  BY <1>1, <1>4, <1>6, AfterSignStep

LEMMA GlitchStep == IInv /\ Glitch => IInv'
<1> SUFFICES ASSUME IInv, Glitch PROVE IInv'
  OBVIOUS
<1>1. /\ pc = "check" /\ pc' = "check" /\ SignShaped /\ faulted' = TRUE
      /\ Shapes /\ Answered /\ call.entry \in Checked /\ ~result
      /\ UNCHANGED <<pc, call, pubkey, draws, blind, sblind, k, derived, signed, result>>
  BY DEF IInv, Glitch
<1>2. /\ outR'.len = outR.len /\ outS'.len = outS.len /\ IsSlice(outR') /\ IsSlice(outS')
  <2>1. outR.len = ELEM_BYTES /\ outS.len = ELEM_BYTES /\ IsSlice(outR) /\ IsSlice(outS)
    BY <1>1 DEF SignShaped, ArgumentsShaped, Shapes
  <2>2. \A b \in Slices(ELEM_BYTES) : IsSlice(b) /\ b.len = ELEM_BYTES
    BY OctetsAssumption DEF IsSlice, Slices
  <2>3. QED
    BY <2>1, <2>2 DEF Glitch
<1>3. Shapes'
  <2>1. {derived', signed', faulted', result'} \subseteq BOOLEAN
    BY <1>1 DEF Shapes
  <2>2. QED
    BY <1>1, <1>2, <2>1 DEF Shapes
<1>4. Answered'
  BY <1>1, <1>2, BuffersRewritten DEF Answered
<1>5. Derives'
  BY <1>1 DEF IInv, Derives
<1>6. QED
  BY <1>1, <1>3, <1>4, <1>5 DEF IInv

LEMMA ReleaseStep == IInv /\ Release => IInv'
<1> SUFFICES ASSUME IInv, Release PROVE IInv'
  OBVIOUS
<1>1. /\ pc' = "done" /\ derived /\ signed /\ Verified /\ result' = TRUE
      /\ Shapes /\ Derives /\ Answered /\ call.entry \in Checked /\ (~faulted => ShowsAnswer)
      /\ UNCHANGED <<call, pubkey, draws, blind, sblind, k, derived, signed, outR, outS, faulted>>
  BY DEF IInv, Release
<1>2. Shapes'
  <2>1. {derived', signed', faulted', result'} \subseteq BOOLEAN
    BY <1>1 DEF Shapes
  <2>2. QED
    BY <1>1, <2>1 DEF Shapes
<1>3. Answered' /\ Derives' /\ Settled'
  BY <1>1, Undisturbed DEF Answered, Derives, Settled
<1>4. QED
  BY <1>1, <1>2, <1>3 DEF IInv

LEMMA WithholdStep == IInv /\ Withhold => IInv'
<1> SUFFICES ASSUME IInv, Withhold PROVE IInv'
  OBVIOUS
<1>1. /\ ~(derived /\ signed /\ Verified) /\ Erase
      /\ Shapes /\ Derives /\ Answered /\ call.entry \in Checked
      /\ (signed /\ ~faulted => ShowsAnswer)
      /\ UNCHANGED <<call, pubkey, draws, blind, sblind, k, derived, signed, faulted>>
  BY DEF IInv, Withhold
<1>2. Shapes' /\ Clean' /\ ~result' /\ outR'.len = outR.len /\ outS'.len = outS.len /\ pc' = "done"
  BY <1>1, EraseEffect
<1>3. ~faulted => ~(derived /\ signed)
  BY <1>1, AnswerPasses DEF Answered
<1>4. Answered'
  BY <1>1, <1>2, BuffersRewritten DEF Answered
<1>5. Settled' /\ Derives'
  BY <1>1, <1>2, <1>3 DEF Settled, Derives
<1>6. QED
  BY <1>1, <1>2, <1>4, <1>5 DEF IInv

LEMMA StutterIInv == IInv /\ UNCHANGED vars => IInv'
<1> SUFFICES ASSUME IInv, UNCHANGED vars PROVE IInv'
  OBVIOUS
<1>1. UNCHANGED <<pc, call, pubkey, draws, blind, sblind, k, derived, signed, outR, outS,
                  faulted, result>>
  BY DEF vars
<1>2. /\ HasKey' = HasKey /\ Drawn' = Drawn /\ NoNonce' = NoNonce /\ ShowsAnswer' = ShowsAnswer
      /\ Answered' = Answered /\ Settled' = Settled /\ Refused' = Refused
  BY <1>1, Undisturbed DEF Answered, Settled, Refused
<1>3. Shapes' = Shapes /\ Derives' = Derives /\ Untouched' = Untouched
  BY <1>1 DEF Shapes, Derives, Untouched
<1>4. QED
  BY <1>1, <1>2, <1>3 DEF IInv

LEMMA NextIInv == IInv /\ [Next]_vars => IInv'
BY RejectKeyStep, AcceptKeyStep, DrawStep, RngFailsStep, RejectBuffersStep, AcceptBuffersStep,
   DeriveStep, SignRejectsStep, SignWritesStep, GlitchStep, ReleaseStep, WithholdStep,
   StutterIInv DEF Next, Returned

\* Whatever the secret, the digest, the blinders and the buffers, and wherever the
\* arithmetic glitches, every variable is what the call has made of its arguments.
THEOREM Invariance == Spec => []IInv
BY InitIInv, NextIInv, PTL DEF Spec

-----------------------------------------------------------------------------
(* What a signer returns                                                   *)

\* The output buffers keep the lengths the caller gave them, and every value its
\* width, through refusals, erasures and glitches.
THEOREM TypeCorrect == Spec => []TypeOK
<1>1. IInv => TypeOK
  <2> SUFFICES ASSUME IInv PROVE TypeOK
    OBVIOUS
  <2>1. \A b : IsSlice(b) => b.val \in 0 .. Width(b.len) - 1
    BY DEF IsSlice, Slices
  <2>2. QED
    BY <2>1 DEF IInv, Shapes, TypeOK
<1>2. QED
  BY <1>1, Invariance, PTL

\* What a returned call has released is a signature under the public key of its d.
LEMMA ReleasedIsGood == IInv /\ pc = "done" /\ result => IsGoodFor(call, Halves)
<1> SUFFICES ASSUME IInv, pc = "done", result PROVE IsGoodFor(call, Halves)
  OBVIOUS
<1>1. Shapes /\ Answered /\ HasKey /\ derived /\ signed /\ SignShaped /\ Answer.ok
      /\ (call.entry \in Checked => Verified) /\ (~faulted => ShowsAnswer)
  BY DEF IInv, Refused, Settled, Answered
<1>2. CASE call.entry \in Checked
  BY <1>1, <1>2, CheckIsExact
<1>3. CASE call.entry \notin Checked
  <2>1. ShowsAnswer
    BY <1>1, <1>3 DEF IInv
  <2>2. QED
    BY <1>1, <2>1, AnswerIsGood DEF Halves, ShowsAnswer
<1>4. QED
  BY <1>2, <1>3

\* The two hedged signers never release a pair that does not verify under the public
\* key of their own d, even when the arithmetic glitches.
THEOREM OnlySignaturesAreReleased == Spec => []ReleasedSignaturesVerify
<1>1. IInv => ReleasedSignaturesVerify
  BY ReleasedIsGood DEF ReleasedSignaturesVerify, IsGoodFor, Halves, Request, Own
<1>2. QED
  BY <1>1, Invariance, PTL

\* When they release none, no half of it is left, nor of an earlier signature.
THEOREM WithheldAreErased == Spec => []WithheldSignaturesAreErased
<1>1. IInv => WithheldSignaturesAreErased
  <2> SUFFICES ASSUME IInv, pc = "done", ~result, pubkey # None
      PROVE  outR.val = 0 /\ outS.val = 0
    BY DEF WithheldSignaturesAreErased
  <2>1. CASE Refused
    BY <2>1 DEF Refused, Clean
  <2>2. CASE Answered /\ Settled
    BY <2>2 DEF Answered, HasKey, Settled, Clean
  <2>3. QED
    BY <2>1, <2>2 DEF IInv
<1>2. QED
  BY <1>1, Invariance, PTL

\* Without a glitch every entry point succeeds exactly when it can, and returns the
\* textbook pair: blinding and checking lose no signature and change none.
THEOREM TheTextbookPairIsSigned == Spec => []SignsTheTextbookPair
<1>1. IInv => SignsTheTextbookPair
  <2> SUFFICES ASSUME IInv, pc = "done", ~faulted
      PROVE  (result <=> WellAsked /\ Solvable) /\ (result => Solves([r |-> outR, s |-> outS]))
    BY DEF SignsTheTextbookPair, Solvable, Solves
  <2>1. Shapes /\ Derives
    BY DEF IInv
  <2>2. CASE Refused
    BY <2>2, NoNonceRefuses DEF Refused, Solvable
  <2>3. CASE Answered /\ Settled
    <3>1. WellAsked => SignShaped
      <4>1. \A b : IsSlice(b) /\ b.len = 0 => b = Empty
        <5>1. ASSUME NEW b, IsSlice(b), b.len = 0 PROVE b = Empty
          <6>1. Width(0) = 1
            <7>1. BYTE_BITS * 0 = 0
              BY OctetsAssumption
            <7>2. QED
              BY <7>1, PowersOfTwo DEF Width
          <6>2. QED
            BY <5>1, <6>1 DEF IsSlice, Slices, Empty
        <5>2. QED
          BY <5>1
      <4>2. QED
        BY <2>1, <4>1
           DEF WellAsked, SignShaped, ArgumentsShaped, BlindersShaped, BuffersFit, Shapes
    <3>2. SignShaped => WellAsked
      BY <2>3 DEF WellAsked, SignShaped, ArgumentsShaped, BlindersShaped, BuffersFit, Answered,
                  Drawn, Empty
    <3>3. CASE result
      <4>1. SignShaped /\ Answer.ok /\ ShowsAnswer
        BY <2>3, <3>3 DEF Answered, Settled
      <4>2. QED
        BY <2>1, <3>2, <3>3, <4>1, AnswerIsThePair DEF ShowsAnswer, Solves
    <3>4. CASE ~result
      <4>1. ~(derived /\ SignShaped /\ Answer.ok)
        BY <2>3, <3>4 DEF Answered, Settled
      <4>2. ~(WellAsked /\ Solvable)
        BY <2>1, <3>1, <4>1, AnswerIsThePair DEF Derives, Solvable, WellAsked
      <4>3. QED
        BY <3>4, <4>2
    <3>5. QED
      BY <3>3, <3>4
  <2>4. QED
    BY <2>2, <2>3 DEF IInv
<1>2. QED
  BY <1>1, Invariance, PTL

\* Every entry point is a signer as module Signer has it: each step is work on an
\* open request, its one final answer, or nothing.
THEOREM ImplementsTheSigner == Spec => ImplementsSigner
<1>1. Init => Ideal!Init
  <2> SUFFICES ASSUME Init PROVE Ideal!Init
    OBVIOUS
  <2>1. pc # "done"
    BY DEF Init, Entry
  <2>2. QED
    BY <2>1 DEF Ideal!Init
<1>2. (IInv /\ pc = "done" /\ result => IsGoodFor(call, Halves))'
  BY ReleasedIsGood, PTL
<1>3. IInv /\ IInv' /\ [Next]_vars => [Ideal!Next]_(Ideal!vars)
  <2> SUFFICES ASSUME IInv, IInv', [Next]_vars PROVE Ideal!Next \/ UNCHANGED Ideal!vars
    OBVIOUS
  <2>1. CASE UNCHANGED vars
    BY <2>1 DEF vars, Ideal!vars
  <2>2. CASE ~UNCHANGED vars
    <3>1. Next /\ pc # "done" /\ call' = call
      BY <2>2 DEF Next, RejectKey, AcceptKey, Draw, RngFails, RejectBuffers, AcceptBuffers,
                  Derive, SignRejects, SignWrites, Glitch, Release, Withhold, Returned
    <3>2. CASE pc' # "done"
      BY <3>1, <3>2 DEF Ideal!Next, Ideal!Work
    <3>3. CASE pc' = "done" /\ result'
      <4>1. IsGoodFor(call', Halves')
        BY <1>2, <3>3
      <4>2. IsGoodFor(call, [r |-> outR', s |-> outS'])
        BY <3>1, <4>1 DEF Halves, IsGoodFor
      <4>3. Ideal!Sign
        BY <3>1, <3>3, <4>2 DEF Ideal!Sign
      <4>4. QED
        BY <4>3 DEF Ideal!Next
    <3>4. CASE pc' = "done" /\ ~result'
      <4>1. ChecksOutput(call) => outR'.val = 0 /\ outS'.val = 0
        BY <3>1, <3>4 DEF IInv, Refused, Settled, Clean, ChecksOutput
      <4>2. Ideal!Refuse
        BY <3>1, <3>4, <4>1 DEF Ideal!Refuse
      <4>3. QED
        BY <4>2 DEF Ideal!Next
    <3>5. QED
      BY <3>2, <3>3, <3>4
  <2>3. QED
    BY <2>1, <2>2
<1>4. QED
  BY <1>1, <1>3, Invariance, PTL DEF Spec, ImplementsSigner, Ideal!Spec

-----------------------------------------------------------------------------
(* What a run of the signing core shows is a function of the lengths of    *)
(* the secrets and of the public arguments                                 *)

NonceLen(c) == IF c.entry = "with_k" THEN c.k.len ELSE ELEM_BYTES

Shaped(c) ==
  /\ c.d.len = ELEM_BYTES /\ NonceLen(c) = ELEM_BYTES
  /\ c.outR.len = ELEM_BYTES /\ c.outS.len = ELEM_BYTES /\ c.digest.len # 0
  /\ c.blind = Empty \/ c.blind.len = ELEM_BYTES
  /\ c.sblind = Empty \/ c.sblind.len = SCALAR_BLIND_BYTES

Rounds(c) ==
  BYTE_BITS * (IF c.sblind = Empty THEN ELEM_BYTES ELSE SCALAR_BLIND_BYTES + 1 + ELEM_BYTES)

DeriveShows(c) == <<IF c.d.len = ELEM_BYTES /\ c.digest.len # 0 THEN "derived" ELSE "refused", 0>>
SignShows(c) == IF Shaped(c) THEN <<"written", Rounds(c)>> ELSE <<"rejected", 0>>

\* What a call shows before it signs, and when it has returned.
Before(c) == IF c.entry = "raw" THEN <<DeriveShows(c)>> ELSE <<>>
Whole(c) == IF c.entry = "raw" THEN <<DeriveShows(c), SignShows(c)>> ELSE <<SignShows(c)>>

Traced ==
  /\ CallShape(call) /\ blind = call.blind /\ sblind = call.sblind
  /\ \/ pc = "key" /\ ~again /\ trace = <<>>
     \/ pc = "derive" /\ call.entry = "raw" /\ k = Zeros(ELEM_BYTES) /\ trace = <<>>
     \/ pc = "sign" /\ k.len = NonceLen(call) /\ trace = Before(call)
     \/ pc = "done" /\ trace = Whole(call)
  /\ pc # "key" => call.entry \in {"with_k", "raw"}
  /\ pc \in {"derive", "sign"} => outR = call.outR /\ outS = call.outS
  /\ again => reference = Whole(call)

\* A call that differs in the octets of d and k alone shows the same.
LEMMA SecretsAreNotShown ==
  ASSUME NEW c, CallShape(c), NEW e \in Retainted(c)
  PROVE  CallShape(e) /\ e.entry = c.entry /\ e.blind = c.blind /\ e.sblind = c.sblind
         /\ Before(e) = Before(c) /\ Whole(e) = Whole(c)
<1>1. PICK secret \in Slices(c.d.len), nonce \in Slices(c.k.len) :
        e = [c EXCEPT !.d = secret, !.k = nonce]
  <2>1. CASE c.entry = "with_k"
    <3> DEFINE With(secret, nonce) == [c EXCEPT !.d = secret, !.k = nonce]
    <3>1. e \in {With(secret, nonce) : secret \in Slices(c.d.len), nonce \in Slices(c.k.len)}
      <4>1. RetaintedDK(c)
              = {With(secret, nonce) : secret \in Slices(c.d.len), nonce \in Slices(c.k.len)}
        BY DEF RetaintedDK
      <4>2. Retainted(c) = RetaintedDK(c)
        BY <2>1 DEF Retainted
      <4> HIDE DEF With
      <4>3. QED
        BY <4>1, <4>2
    <3> HIDE DEF With
    <3>2. \E secret \in Slices(c.d.len), nonce \in Slices(c.k.len) : e = With(secret, nonce)
      BY <3>1
    <3>3. QED
      BY <3>2 DEF With
  <2>2. CASE c.entry # "with_k"
    <3>1. PICK secret \in Slices(c.d.len) : e = [c EXCEPT !.d = secret]
      BY <2>2 DEF Retainted, RetaintedD
    <3>2. c.k \in Slices(c.k.len)
      BY DEF CallShape, IsSlice
    <3>3. e = [c EXCEPT !.d = secret, !.k = c.k]
      BY <3>1 DEF CallShape
    <3>4. QED
      BY <3>2, <3>3
  <2>3. QED
    BY <2>1, <2>2
<1>2. e = [entry |-> c.entry, d |-> secret, digest |-> c.digest, k |-> nonce,
           blind |-> c.blind, sblind |-> c.sblind, outR |-> c.outR, outS |-> c.outS]
  BY <1>1 DEF CallShape
<1>3. secret.len = c.d.len /\ nonce.len = c.k.len
  BY DEF Slices
<1>4. CallShape(e)
  <2>1. /\ e.entry = c.entry /\ e.d = secret /\ e.digest = c.digest /\ e.k = nonce
        /\ e.blind = c.blind /\ e.sblind = c.sblind /\ e.outR = c.outR /\ e.outS = c.outS
    BY <1>2
  <2>2. IsSlice(secret) /\ IsSlice(nonce)
    BY <1>3 DEF CallShape, IsSlice
  <2>3. QED
    BY <1>2, <2>1, <2>2 DEF CallShape
<1>5. /\ e.entry = c.entry /\ e.d.len = c.d.len /\ e.k.len = c.k.len /\ e.digest = c.digest
      /\ e.blind = c.blind /\ e.sblind = c.sblind /\ e.outR = c.outR /\ e.outS = c.outS
  BY <1>2, <1>3
<1>6. /\ (Shaped(e) <=> Shaped(c)) /\ Rounds(e) = Rounds(c) /\ DeriveShows(e) = DeriveShows(c)
  BY <1>5 DEF Shaped, NonceLen, Rounds, DeriveShows
<1>7. SignShows(e) = SignShows(c)
  BY <1>6 DEF SignShows
<1>8. QED
  BY <1>4, <1>5, <1>6, <1>7 DEF Before, Whole

LEMMA TaintInitTraced == TaintInit => Traced
<1> SUFFICES ASSUME TaintInit PROVE Traced
  OBVIOUS
<1>1. CallShape(call) /\ blind = call.blind /\ sblind = call.sblind
  BY SignAssumption DEF TaintInit, Init
<1>2. /\ pc = Entry(call) /\ k = EntryNonce(call) /\ trace = <<>> /\ again = FALSE
      /\ outR = call.outR /\ outS = call.outS
  BY DEF TaintInit, Init
<1>3. CASE call.entry = "with_k"
  BY <1>1, <1>2, <1>3 DEF Traced, Entry, EntryNonce, NonceLen, Before
<1>4. CASE call.entry = "raw"
  BY <1>1, <1>2, <1>4 DEF Traced, Entry, EntryNonce
<1>5. CASE call.entry \in Keyed
  BY <1>1, <1>2, <1>5 DEF Traced, Entry, Keyed
<1>6. QED
  BY <1>1, <1>3, <1>4, <1>5 DEF CallShape

LEMMA ExecuteTraced == Traced /\ Execute => Traced'
<1> SUFFICES ASSUME Traced, Execute PROVE Traced'
  OBVIOUS
<1>1. reference' = reference /\ again' = again /\ call' = call /\ blind' = blind /\ sblind' = sblind
  BY DEF Execute, Shows, Derive, SignRejects, SignWrites
<1>2. CASE Derive /\ Shows(IF k' = k THEN "refused" ELSE "derived", 0)
  <2>1. /\ pc = "derive" /\ call.entry = "raw" /\ k = Zeros(ELEM_BYTES) /\ trace = <<>>
        /\ pc' = "sign" /\ outR' = outR /\ outS' = outS
        /\ outR = call.outR /\ outS = call.outS
        /\ trace' = Append(trace, <<IF k' = k THEN "refused" ELSE "derived", 0>>)
    BY <1>2 DEF Traced, Derive, Shows
  <2>2. k'.len = ELEM_BYTES /\ (k' # k <=> call.d.len = ELEM_BYTES /\ call.digest.len # 0)
    <3>1. k.len = ELEM_BYTES /\ k.val \notin Scalar
      BY <2>1, ZerosType DEF Zeros
    <3>2. QED
      BY <1>2, <3>1, NonceType DEF Derive
  <2>3. trace' = <<DeriveShows(call)>>
    BY <2>1, <2>2 DEF DeriveShows
  <2>4. QED
    BY <1>1, <2>1, <2>2, <2>3 DEF Traced, NonceLen, Before
<1>3. ASSUME SignRejects \/ SignWrites
      PROVE  /\ pc = "sign" /\ pc' = "done" /\ call.entry \in {"with_k", "raw"}
             /\ (SignShaped <=> Shaped(call)) /\ trace = Before(call)
  <2>1. pc = "sign" /\ AfterSign
    BY <1>3 DEF SignRejects, SignWrites
  <2>2. /\ call.entry \in {"with_k", "raw"} /\ k.len = NonceLen(call) /\ trace = Before(call)
        /\ outR = call.outR /\ outS = call.outS /\ blind = call.blind /\ sblind = call.sblind
    BY <2>1 DEF Traced
  <2>3. pc' = "done"
    BY <2>1, <2>2 DEF AfterSign, Checked
  <2>4. SignShaped <=> Shaped(call)
    BY <2>2 DEF SignShaped, ArgumentsShaped, BlindersShaped, Shaped
  <2>5. QED
    BY <2>1, <2>2, <2>3, <2>4
<1>4. ASSUME SignRejects \/ SignWrites, trace' = Append(trace, SignShows(call)) PROVE Traced'
  <2>1. trace' = Whole(call)
    <3> DEFINE a == DeriveShows(call)
               b == SignShows(call)
    <3>1. /\ trace = IF call.entry = "raw" THEN <<a>> ELSE <<>>
          /\ Whole(call) = IF call.entry = "raw" THEN <<a, b>> ELSE <<b>>
          /\ trace' = Append(trace, b)
      BY <1>3, <1>4 DEF Before, Whole
    <3> HIDE DEF a, b
    <3>2. QED
      BY <3>1
  <2>2. QED
    BY <1>1, <1>3, <1>4, <2>1 DEF Traced
<1>5. CASE SignRejects /\ Shows("rejected", 0)
  BY <1>3, <1>4, <1>5 DEF SignRejects, Shows, SignShows
<1>6. CASE SignWrites /\ Shows("written", BYTE_BITS * LadderScalar(k, sblind).len)
  <2>1. k.len = ELEM_BYTES /\ sblind = call.sblind /\ SignShaped /\ Shaped(call)
    BY <1>3, <1>6 DEF SignWrites, SignShaped, ArgumentsShaped, Traced
  <2>2. LadderScalar(k, sblind).len
          = IF sblind = Empty THEN ELEM_BYTES ELSE SCALAR_BLIND_BYTES + 1 + ELEM_BYTES
    BY <2>1 DEF LadderScalar, BlindScalar, ToBE
  <2>3. BYTE_BITS * LadderScalar(k, sblind).len = Rounds(call)
    BY <2>1, <2>2 DEF Rounds
  <2>4. trace' = Append(trace, SignShows(call))
    BY <1>6, <2>1, <2>3 DEF Shows, SignShows
  <2>5. QED
    BY <1>4, <1>6, <2>4
<1>7. QED
  BY <1>2, <1>5, <1>6 DEF Execute

LEMMA TaintStep == Traced /\ [TaintNext]_taintVars => Traced'
<1> SUFFICES ASSUME Traced, [TaintNext]_taintVars PROVE Traced'
  OBVIOUS
<1>1. CASE Execute
  BY <1>1, ExecuteTraced
<1>2. CASE Again
  <2>1. /\ call' \in Retainted(call) /\ pc = "done" /\ trace = Whole(call)
        /\ pc' = Entry(call') /\ k' = EntryNonce(call') /\ outR' = call'.outR /\ outS' = call'.outS
        /\ reference' = trace /\ trace' = <<>> /\ again' = TRUE
        /\ blind' = blind /\ sblind' = sblind
    BY <1>2 DEF Again, Traced
  <2>2. /\ CallShape(call) /\ blind = call.blind /\ sblind = call.sblind
        /\ call.entry \in {"with_k", "raw"}
    BY <2>1 DEF Traced
  <2>3. /\ CallShape(call') /\ call'.entry = call.entry /\ blind' = call'.blind
        /\ sblind' = call'.sblind /\ Whole(call') = Whole(call)
    BY <2>1, <2>2, SecretsAreNotShown
  <2>4. CASE call.entry = "with_k"
    BY <2>1, <2>2, <2>3, <2>4 DEF Traced, Entry, EntryNonce, NonceLen, Before
  <2>5. CASE call.entry = "raw"
    BY <2>1, <2>2, <2>3, <2>5 DEF Traced, Entry, EntryNonce
  <2>6. QED
    BY <2>2, <2>4, <2>5
<1>3. CASE UNCHANGED taintVars
  BY <1>3 DEF taintVars, vars, Traced
<1>4. QED
  BY <1>1, <1>2, <1>3 DEF TaintNext, Compared

\* The constant-time claim: two runs that differ in the octets of d, and of the
\* caller's k, alone take the same branches and ladders of the same length.
THEOREM SecretsNeverSteer == TaintSpec => []SecretsDoNotSteer
<1>1. Traced => SecretsDoNotSteer
  <2> SUFFICES ASSUME Traced, again
      PROVE  /\ Len(trace) <= Len(reference)
             /\ trace = SubSeq(reference, 1, Len(trace))
             /\ pc = "done" => trace = reference
    BY DEF SecretsDoNotSteer
  <2> DEFINE a == DeriveShows(call)
             b == SignShows(call)
  <2>1. /\ reference = IF call.entry = "raw" THEN <<a, b>> ELSE <<b>>
        /\ \/ trace = <<>> /\ pc # "done"
           \/ trace = <<a>> /\ call.entry = "raw" /\ pc # "done"
           \/ trace = reference
    BY DEF Traced, Before, Whole
  <2> HIDE DEF a, b
  <2>2. CASE trace = <<>> /\ pc # "done"
    BY <2>1, <2>2
  <2>3. CASE trace = <<a>> /\ call.entry = "raw" /\ pc # "done"
    BY <2>1, <2>3
  <2>4. CASE trace = reference
    <3>1. <<a, b>> = SubSeq(<<a, b>>, 1, 2) /\ Len(<<a, b>>) = 2
      OBVIOUS
    <3>2. <<b>> = SubSeq(<<b>>, 1, 1) /\ Len(<<b>>) = 1
      OBVIOUS
    <3>3. CASE call.entry = "raw"
      BY <2>1, <2>4, <3>1, <3>3
    <3>4. CASE call.entry # "raw"
      BY <2>1, <2>4, <3>2, <3>4
    <3>5. QED
      BY <3>3, <3>4
  <2>5. QED
    BY <2>1, <2>2, <2>3, <2>4
<1>2. QED
  BY <1>1, TaintInitTraced, TaintStep, PTL DEF TaintSpec
=============================================================================
