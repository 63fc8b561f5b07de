----------------------------- MODULE KemProofs ------------------------------
(***************************************************************************)
(* Proofs about module Kem, for every set of threads and keys, every       *)
(* curve that meets the assumptions, and whatever the RNG draws.           *)
(***************************************************************************)
EXTENDS Kem, CurveProofs

-----------------------------------------------------------------------------
(* What the ladder gives the KEM, from the laws of the curve.               *)

\* Everything that arrives, and every blinder, is made of octets.
LEMMA ArgumentsAreOctets ==
  /\ \A d \in ScalarDraws : d \in Slices(ELEM_BYTES) /\ IsSlice(d)
  /\ \A l \in LambdaDraws \cup {Empty} : IsSlice(l) /\ (l = Empty \/ l.len = ELEM_BYTES)
  /\ \A r \in RDraws \cup {Empty} : IsSlice(r) /\ (r = Empty \/ r.len = SCALAR_BLIND_BYTES)
  /\ \A l \in LambdaDraws : l # Empty
  /\ \A r \in RDraws : r # Empty
<1>1. IsSlice(Empty)
  <2>1. BYTE_BITS * 0 = 0
    BY OctetsAssumption
  <2>2. Width(0) = 1
    BY <2>1, PowersOfTwo DEF Width
  <2>3. QED
    BY <2>2, OctetsAssumption DEF IsSlice, Slices, Empty
<1>2. QED
  BY <1>1, KemAssumption, OctetsAssumption, BlindAssumption
     DEF KemConstants, IsSlice, Slices, Empty

LEMMA ArrivalsAreSec1 ==
  ASSUME NEW point \in Arrivals
  PROVE  IsSec1(point) /\ point.len = SEC1_BYTES
<1>1. CASE point \in Garbage
  BY <1>1, KemAssumption, ElementWidths DEF KemConstants, Sec1Array, IsSec1, Elem
<1>2. CASE point \notin Garbage
  <2>1. PICK pt \in FinitePoints : point = Sec1(SEC1_BYTES, 4, pt[1], pt[2])
    BY <1>2 DEF Arrivals
  <2>2. QED
    BY <2>1, CoordinatesAreElements, CurveSizes DEF Sec1, IsSec1, Field
<1>3. QED
  BY <1>1, <1>2

LEMMA PublicKeyIsTheProduct ==
  ASSUME NEW d \in DOMAIN PublicKey
  PROVE  /\ d \in ScalarDraws /\ d \in Slices(ELEM_BYTES) /\ d.val \in Scalar
         /\ GroupMul(d.val, G) \in FinitePoints
         /\ PublicKey[d] = Sec1(SEC1_BYTES, 4, GroupMul(d.val, G)[1], GroupMul(d.val, G)[2])
         /\ <<PublicKey[d].x, PublicKey[d].y>> = GroupMul(d.val, G)
         /\ PublicKey[d] \in Arrivals /\ ValidPeer(PublicKey[d])
<1>1. d \in ScalarDraws /\ HasPublicKey(d) /\ PublicKey[d] = VerifyingKey(d)
  BY DEF PublicKey
<1>2. d \in Slices(ELEM_BYTES)
  BY <1>1, ArgumentsAreOctets
<1>3. d.val \in Scalar
  BY <1>1, <1>2, RangeOfSecret DEF HasPublicKey
<1> DEFINE pt == GroupMul(d.val, G)
<1>4. /\ pt \in FinitePoints /\ ValidPeer(PublicKey[d])
      /\ PublicKey[d] = Sec1(SEC1_BYTES, 4, pt[1], pt[2])
  BY <1>1, <1>2, <1>3, VerifyingKeyIsTheProduct
<1>5. PublicKey[d] \in Arrivals
  BY <1>4 DEF Arrivals
<1>6. <<PublicKey[d].x, PublicKey[d].y>> = pt
  BY <1>4, CoordinatesAreElements DEF Sec1
<1>7. QED
  BY <1>1, <1>2, <1>3, <1>4, <1>5, <1>6

\* Under the const assert, any blinders fit a validated point: x(d P) comes out.
LEMMA SharedIsSecret ==
  ASSUME NEW d \in ScalarDraws, NEW point \in Arrivals, ValidPeer(point),
         NEW l \in LambdaDraws \cup {Empty}, NEW r \in RDraws \cup {Empty},
         r = Empty \/ T_BYTES = ELEM_BYTES
  PROVE  /\ Shared[<<d, point, l, r>>].ok \in BOOLEAN
         /\ Shared[<<d, point, l, r>>].ok <=> d.val \in Scalar
         /\ Shared[<<d, point, l, r>>].out \in Slices(ELEM_BYTES)
         /\ d.val \in Scalar => Shared[<<d, point, l, r>>].out = Secret(d, point)
<1>1. <<d, point, l, r>> \in LadderArgs
  BY DEF LadderArgs
<1>2. Shared[<<d, point, l, r>>] = SharedX(d, point, l, r)
  BY <1>1 DEF Shared
<1>3. WellShaped([d |-> d, peer |-> point, blind |-> l, scalarBlind |-> r])
  BY ArgumentsAreOctets DEF WellShaped, ValidPeer, Slices
<1>4. IsSlice(d) /\ IsSlice(l) /\ IsSlice(r) /\ IsSec1(point)
  BY ArgumentsAreOctets, ArrivalsAreSec1
<1>5. SharedX(d, point, l, r)
        = [ok |-> d.val \in Scalar,
           out |-> ToBE(IF d.val \in Scalar THEN GroupMul(d.val, <<point.x, point.y>>)[1] ELSE 0,
                        ELEM_BYTES)]
  BY <1>3, <1>4, SharedXIsTheProduct
<1>6. (IF d.val \in Scalar THEN GroupMul(d.val, <<point.x, point.y>>)[1] ELSE 0) \in Int
  <2>1. <<point.x, point.y>> \in FinitePoints
    BY <1>4, CurveSizes DEF ValidPeer, IsSec1, FinitePoints, Field
  <2>2. d.val \in Scalar => GroupMul(d.val, <<point.x, point.y>>) \in FinitePoints
    BY <2>1, GroupMulFinite
  <2>3. QED
    BY <2>2, CoordinatesAreElements, CurveSizes DEF Field
<1>7. ELEM_BYTES \in 0 .. SLICE_BYTES
  BY OctetsAssumption
<1>8. Shared[<<d, point, l, r>>].out \in Slices(ELEM_BYTES)
  BY <1>2, <1>5, <1>6, <1>7, ToBEType
<1>9. Shared[<<d, point, l, r>>].ok = (d.val \in Scalar)
  BY <1>2, <1>5
<1>10. d.val \in Scalar => Shared[<<d, point, l, r>>].out = Secret(d, point)
  BY <1>2, <1>5 DEF Secret
<1>11. CASE d.val \in Scalar
  <2>1. Shared[<<d, point, l, r>>].ok = TRUE
    BY <1>9, <1>11
  <2>2. QED
    BY <1>8, <1>10, <1>11, <2>1
<1>12. CASE ~(d.val \in Scalar)
  <2>0. (d.val \in Scalar) = FALSE
    BY <1>12
  <2>1. Shared[<<d, point, l, r>>].ok = FALSE
    BY <1>9, <2>0, Zenon
  <2>2. QED
    BY <1>8, <1>10, <1>12, <2>1
<1>13. QED
  BY <1>11, <1>12

\* A call that its gates refuse still has a result of its type.
LEMMA SharedResultType ==
  ASSUME NEW q \in LadderArgs
  PROVE  Shared[q].ok \in BOOLEAN /\ Shared[q].out \in Slices(ELEM_BYTES)
<1>1. PICK d \in ScalarDraws, point \in Arrivals,
           l \in LambdaDraws \cup {Empty}, r \in RDraws \cup {Empty} : q = <<d, point, l, r>>
  BY DEF LadderArgs
<1>2. Shared[q] = SharedX(d, point, l, r)
  BY <1>1 DEF Shared
<1> DEFINE c == [d |-> d, peer |-> point, blind |-> l, scalarBlind |-> r]
<1>3. CASE WellShaped(c) /\ ValidPeer(point)
  <2>1. r = Empty \/ T_BYTES = ELEM_BYTES
    BY <1>3 DEF WellShaped
  <2>2. /\ Shared[<<d, point, l, r>>].ok \in BOOLEAN
        /\ Shared[<<d, point, l, r>>].out \in Slices(ELEM_BYTES)
    BY <1>3, <2>1, SharedIsSecret
  <2>3. QED
    BY <1>1, <2>2
<1>4. CASE ~(WellShaped(c) /\ ValidPeer(point))
  <2>1. Shared[q] = [ok |-> FALSE, out |-> ToBE(0, ELEM_BYTES)]
    BY <1>2, <1>4 DEF SharedX
  <2>2. ELEM_BYTES \in 0 .. SLICE_BYTES
    BY OctetsAssumption
  <2>3. ToBE(0, ELEM_BYTES) \in Slices(ELEM_BYTES)
    BY <2>2, ToBEType
  <2>4. QED
    BY <2>1, <2>3
<1>5. QED
  BY <1>3, <1>4

\* A scalar with a public key was drawn by the RNG, and its public key is a
\* well-formed point that can travel.
LEMMA PublicKeyFacts ==
  ASSUME NEW d \in DOMAIN PublicKey
  PROVE  /\ d \in ScalarDraws
         /\ PublicKey[d] \in Arrivals
         /\ ValidPeer(PublicKey[d])
BY PublicKeyIsTheProduct

\* The ladder's result has its type for any key a place can hold.
LEMMA SharedType ==
  ASSUME NEW key \in DecapsulationKey, NEW point \in Arrivals,
         NEW s, s = Shared[<<key.scalar, point, BlindOf(key), ScalarBlindOf(key)>>]
  PROVE  s.ok \in BOOLEAN /\ s.out \in Slices(ELEM_BYTES)
<1>1. <<key.scalar, point, BlindOf(key), ScalarBlindOf(key)>> \in LadderArgs
  BY DEF DecapsulationKey, LadderArgs, BlindOf, ScalarBlindOf
<1>2. QED
  BY <1>1, SharedResultType

\* On a sound key and a validated point the ladder succeeds, and its result is
\* what the scalar and the point agree on.
LEMMA SharedSucceeds ==
  ASSUME NEW key, Sound(key), NEW point \in Arrivals, ValidPeer(point)
  PROVE  /\ Shared[<<key.scalar, point, BlindOf(key), ScalarBlindOf(key)>>].ok
         /\ Shared[<<key.scalar, point, BlindOf(key), ScalarBlindOf(key)>>].out
              = Secret(key.scalar, point)
<1> DEFINE l == BlindOf(key)
           r == ScalarBlindOf(key)
<1>1. key.scalar \in ScalarDraws /\ key.scalar.val \in Scalar
  BY PublicKeyIsTheProduct DEF Sound
<1>2. /\ l \in LambdaDraws \cup {Empty} /\ r \in RDraws \cup {Empty}
      /\ r = Empty \/ T_BYTES = ELEM_BYTES
  BY KemAssumption DEF Sound, DecapsulationKey, BlindOf, ScalarBlindOf, KemConstants
<1> HIDE DEF l, r
<1>3. /\ Shared[<<key.scalar, point, l, r>>].ok <=> key.scalar.val \in Scalar
      /\ key.scalar.val \in Scalar
           => Shared[<<key.scalar, point, l, r>>].out = Secret(key.scalar, point)
  BY <1>1, <1>2, SharedIsSecret
<1>4. QED
  BY <1>1, <1>3 DEF l, r

LEMMA InitIInv == Init => IInv
<1> SUFFICES ASSUME Init PROVE IInv
  OBVIOUS
<1>1. TypeOK
  <2>1. NoOutcome \in Outcome
    BY DEF NoOutcome, Outcome
  <2>2. NoJob \in Job
    BY DEF NoJob, Job
  <2>3. QED
    BY <2>1, <2>2 DEF Init, TypeOK, PCs
<1>2. JobsSound
  BY DEF Init, JobsSound, JobSound, Building, Decapsulating
<1>3. KeysSound
  BY DEF Init, KeysSound, Generating, Building, Live
<1>4. OneUse
  BY DEF Init, OneUse, OnLadder, Live
<1>5. Provenance
  BY DEF Init, Provenance, Assembled, Building, Live, NoOutcome
<1>6. QED
  BY <1>1, <1>2, <1>3, <1>4, <1>5 DEF IInv

-----------------------------------------------------------------------------
(* Type correctness, step by step.  The locals of a call have the types     *)
(* JobsSound gives them, which is why it is not inductive on its own.       *)

LEMMA TypeStep == IInv /\ [Next]_vars => TypeOK'
<1> SUFFICES ASSUME IInv, [Next]_vars PROVE TypeOK'
  OBVIOUS
<1> USE DEF IInv
<1>1. CASE UNCHANGED vars
  BY <1>1 DEF vars, TypeOK
<1>2. ASSUME NEW t \in Threads, NEW k \in Keys, BeginGenerate(t, k) PROVE TypeOK'
  BY <1>2 DEF TypeOK, BeginGenerate, Call, Job, PCs
<1>3. ASSUME NEW t \in Threads, NEW share \in KeyShares, BeginEncapsulate(t, share)
      PROVE  TypeOK'
  <2>1. share \in Arrivals
    BY DEF KeyShares, KeysSound, Sound, DecapsulationKey, Arrivals
  <2>2. QED
    BY <1>3, <2>1 DEF TypeOK, BeginEncapsulate, Call, Job, PCs
<1>4. ASSUME NEW t \in Threads, NEW k \in Keys, NEW ct \in Ciphertexts,
             BeginDecapsulate(t, k, ct)
      PROVE  TypeOK'
  <2>1. ct \in Arrivals
    BY DEF Ciphertexts, TypeOK, Arrivals
  <2>2. NoOutcome \in Outcome
    BY DEF NoOutcome, Outcome
  <2>3. QED
    BY <1>4, <2>1, <2>2 DEF TypeOK, BeginDecapsulate, Call, Job, PCs
<1>5. ASSUME NEW t \in Threads, AcceptScalar(t) PROVE TypeOK'
  <2>1. PICK d \in DOMAIN PublicKey :
          job' = [job EXCEPT ![t].made =
            [scalar |-> d, blind |-> Empty, scalarBlind |-> Empty, ek |-> PublicKey[d]]]
    BY <1>5 DEF AcceptScalar
  <2>2. [scalar |-> d, blind |-> Empty, scalarBlind |-> Empty, ek |-> PublicKey[d]]
          \in DecapsulationKey
    BY PublicKeyFacts DEF DecapsulationKey
  <2> DEFINE key == [scalar |-> d, blind |-> Empty, scalarBlind |-> Empty, ek |-> PublicKey[d]]
  <2> HIDE DEF key
  <2>3. job' \in [Threads -> Job]
    <3>1. job[t] \in Job /\ job' = [job EXCEPT ![t].made = key] /\ key \in DecapsulationKey
      BY <2>1, <2>2 DEF TypeOK, key
    <3>2. [job[t] EXCEPT !.made = key] \in Job
      BY <3>1 DEF Job
    <3>3. QED
      BY <3>1, <3>2 DEF TypeOK
  <2>4. QED
    BY <1>5, <2>3 DEF TypeOK, AcceptScalar, PCs
<1>6. ASSUME NEW t \in Threads, DrawLambda(t) PROVE TypeOK'
  <2>1. PICK l \in LambdaDraws : job' = [job EXCEPT ![t].made.blind = l]
    BY <1>6 DEF DrawLambda
  <2>2. job[t] \in Job /\ job[t].made \in DecapsulationKey
    BY <1>6 DEF DrawLambda, TypeOK, JobsSound, JobSound, Building, Sound
  <2>3. [job[t].made EXCEPT !.blind = l] \in DecapsulationKey
    BY <2>2 DEF DecapsulationKey
  <2>4. [job[t] EXCEPT !.made.blind = l] \in Job
    BY <2>2, <2>3 DEF Job
  <2>5. job' \in [Threads -> Job]
    BY <2>1, <2>4 DEF TypeOK
  <2>6. QED
    BY <1>6, <2>5 DEF TypeOK, DrawLambda, PCs
<1>7. ASSUME NEW t \in Threads, DrawR(t) PROVE TypeOK'
  <2>1. PICK r \in RDraws : job' = [job EXCEPT ![t].made.scalarBlind = r]
    BY <1>7 DEF DrawR
  <2>2. job[t] \in Job /\ job[t].made \in DecapsulationKey
    BY <1>7 DEF DrawR, TypeOK, JobsSound, JobSound, Building, Sound
  <2>3. [job[t].made EXCEPT !.scalarBlind = r] \in DecapsulationKey
    BY <2>2 DEF DecapsulationKey
  <2>4. [job[t] EXCEPT !.made.scalarBlind = r] \in Job
    BY <2>2, <2>3 DEF Job
  <2>5. job' \in [Threads -> Job]
    BY <2>1, <2>4 DEF TypeOK
  <2>6. QED
    BY <1>7, <2>5 DEF TypeOK, DrawR, PCs
<1>8. ASSUME NEW t \in Threads, Publish(t) PROVE TypeOK'
  <2>1. job[t].made \in DecapsulationKey
    BY <1>8 DEF Publish, JobsSound, JobSound, Building, Sound
  <2>2. NoJob \in Job
    BY DEF NoJob, Job
  <2>3. QED
    BY <1>8, <2>1, <2>2 DEF TypeOK, Publish, Return, PCs
<1>9. ASSUME NEW t \in Threads, Agree(t) PROVE TypeOK'
  <2>1. job[t].made.ek \in Arrivals
    BY <1>9 DEF Agree, JobsSound, JobSound, Building, Sound, DecapsulationKey
  <2>2. NoJob \in Job
    BY DEF NoJob, Job
  <2>3. QED
    BY <1>9, <2>1, <2>2 DEF TypeOK, Agree, Return, PCs
<1>10. ASSUME NEW t \in Threads, RejectCiphertext(t) \/ RefuseSpent(t) PROVE TypeOK'
  <2>1. job[t].key \in Keys /\ job[t].point \in Arrivals
    BY <1>10 DEF RejectCiphertext, RefuseSpent, JobsSound, JobSound, Decapsulating
  <2>2. [NoOutcome EXCEPT !.key = job[t].key, !.ct = job[t].point] \in Outcome
    BY <2>1 DEF NoOutcome, Outcome
  <2>3. NoJob \in Job
    BY DEF NoJob, Job
  <2>4. QED
    BY <1>10, <2>2, <2>3 DEF TypeOK, RejectCiphertext, RefuseSpent, Fail, Return, PCs
<1>11. ASSUME NEW t \in Threads, AcceptCiphertext(t) PROVE TypeOK'
  BY <1>11 DEF TypeOK, AcceptCiphertext, PCs
<1>12. ASSUME NEW t \in Threads, Claim(t) PROVE TypeOK'
  BY <1>12 DEF TypeOK, Claim, PCs
<1>13. ASSUME NEW t \in Threads, Ladder(t) PROVE TypeOK'
  <2> DEFINE k == job[t].key
             s == Shared[<<dk[k].scalar, job[t].point, BlindOf(dk[k]), ScalarBlindOf(dk[k])>>]
  <2>1. k \in Keys /\ job[t].point \in Arrivals /\ dk[k] \in DecapsulationKey
    BY <1>13 DEF Ladder, JobsSound, JobSound, Decapsulating, KeysSound, Sound
  <2>2. s.ok \in BOOLEAN /\ s.out \in Slices(ELEM_BYTES)
    BY <2>1, SharedType
  <2>3. [key |-> k, ct |-> job[t].point, ok |-> s.ok, shared |-> IF s.ok THEN s.out ELSE None]
          \in Outcome
    BY <2>1, <2>2 DEF Outcome
  <2>4. NoJob \in Job
    BY DEF NoJob, Job
  <2>5. outcome' \in [Threads -> Outcome]
    BY <1>13, <2>3 DEF Ladder, TypeOK
  <2>6. /\ runs' = [runs EXCEPT ![k] = IF BLIND THEN @ + 1 ELSE @]
        /\ yields' = [yields EXCEPT ![k] = IF BLIND /\ s.ok THEN @ + 1 ELSE @]
    BY <1>13 DEF Ladder
  <2> HIDE DEF k, s
  <2>7. runs' \in [Keys -> Nat] /\ yields' \in [Keys -> Nat]
    BY <2>1, <2>6 DEF TypeOK
  <2>8. QED
    BY <1>13, <2>4, <2>5, <2>7 DEF TypeOK, Ladder, Return, PCs
<1>14. ASSUME NEW t \in Threads, RngFails(t) PROVE TypeOK'
  <2>1. NoJob \in Job
    BY DEF NoJob, Job
  <2>2. QED
    BY <1>14, <2>1 DEF TypeOK, RngFails, Return, PCs
<1>15. QED
  BY <1>1, <1>2, <1>3, <1>4, <1>5, <1>6, <1>7, <1>8, <1>9, <1>10, <1>11, <1>12, <1>13, <1>14
     DEF Next, Begin, Advance
-----------------------------------------------------------------------------
(* The locals of the calls.  A step changes those of the thread that takes   *)
(* it; another thread can be disturbed only through dk, which Publish alone  *)
(* changes, at a place where nobody else is making a key.                    *)

LEMMA Undisturbed ==
  ASSUME NEW u \in Threads, JobSound(u), dk' = dk, pc'[u] = pc[u], job'[u] = job[u]
  PROVE  JobSound(u)'
BY DEF JobSound, Live

LEMMA JobsStep == IInv /\ [Next]_vars => JobsSound'
<1> SUFFICES ASSUME IInv, [Next]_vars, NEW u \in Threads PROVE JobSound(u)'
  BY DEF JobsSound
<1> USE DEF IInv
<1>0. JobSound(u)
  BY DEF JobsSound
<1>1. CASE UNCHANGED vars
  BY <1>0, <1>1 DEF vars, JobSound, Live
<1>2. ASSUME NEW t \in Threads, NEW k \in Keys, BeginGenerate(t, k)
      PROVE  JobSound(u)'
  BY <1>0, <1>2 DEF TypeOK, BeginGenerate, Call, JobSound, Building, Decapsulating, Live
<1>3. ASSUME NEW t \in Threads, NEW share \in KeyShares, BeginEncapsulate(t, share)
      PROVE  JobSound(u)'
  <2>1. share \in Arrivals /\ ValidPeer(share)
    BY <1>3 DEF BeginEncapsulate, KeyShares, KeysSound, Sound, DecapsulationKey, Arrivals
  <2>2. CASE u # t
    BY <1>0, <1>3, <2>2, Undisturbed DEF BeginEncapsulate, Call, TypeOK
  <2>3. CASE u = t
    BY <1>3, <2>1, <2>3 DEF BeginEncapsulate, Call, TypeOK, JobSound, Building, Decapsulating
  <2>4. QED
    BY <2>2, <2>3
<1>4. ASSUME NEW t \in Threads, NEW k \in Keys, NEW ct \in Ciphertexts,
             BeginDecapsulate(t, k, ct)
      PROVE  JobSound(u)'
  <2>1. ct \in Arrivals
    BY DEF Ciphertexts, TypeOK, Arrivals
  <2>2. CASE u # t
    BY <1>0, <1>4, <2>2, Undisturbed DEF BeginDecapsulate, Call, TypeOK
  <2>3. CASE u = t
    BY <1>4, <2>1, <2>3 DEF BeginDecapsulate, Call, TypeOK, JobSound, Building, Decapsulating, Live
  <2>4. QED
    BY <2>2, <2>3
<1>5. ASSUME NEW t \in Threads, AcceptScalar(t) PROVE JobSound(u)'
  <2> DEFINE key(d) == [scalar |-> d, blind |-> Empty, scalarBlind |-> Empty,
                        ek |-> PublicKey[d]]
  <2>1. PICK d \in DOMAIN PublicKey : job' = [job EXCEPT ![t].made = key(d)]
    BY <1>5 DEF AcceptScalar
  <2>2. Sound(key(d))
    BY PublicKeyFacts DEF Sound, DecapsulationKey
  <2> HIDE DEF key
  <2>3. CASE u # t
    BY <1>0, <1>5, <2>3, Undisturbed DEF AcceptScalar, TypeOK
  <2>4. CASE u = t
    <3>1. /\ job'[t] = [job[t] EXCEPT !.made = key(d)]
          /\ job'[t].op = job[t].op /\ job'[t].key = job[t].key
          /\ job'[t].point = job[t].point /\ job'[t].made = key(d)
      BY <2>1 DEF TypeOK, Job
    <3>2. pc[t] = "scalar" /\ pc'[t] \in {"lambda", "built"} /\ dk' = dk
      BY <1>5 DEF AcceptScalar, TypeOK
    <3>3. QED
      BY <1>0, <2>2, <2>4, <3>1, <3>2 DEF JobSound, Building, Decapsulating, Live
  <2>5. QED
    BY <2>3, <2>4
<1>6. ASSUME NEW t \in Threads, DrawLambda(t) PROVE JobSound(u)'
  <2>1. PICK l \in LambdaDraws : job' = [job EXCEPT ![t].made.blind = l]
    BY <1>6 DEF DrawLambda
  <2>2. CASE u # t
    BY <1>0, <1>6, <2>2, Undisturbed DEF DrawLambda, TypeOK
  <2>3. CASE u = t
    <3>1. pc[t] = "lambda" /\ pc'[t] = "r" /\ dk' = dk
      BY <1>6 DEF DrawLambda, TypeOK
    <3>2. Sound(job[t].made)
      BY <1>0, <2>3, <3>1 DEF JobSound, Building
    <3>3. Sound([job[t].made EXCEPT !.blind = l])
      BY <3>2 DEF Sound, DecapsulationKey
    <3>4. /\ job'[t].op = job[t].op /\ job'[t].key = job[t].key
          /\ job'[t].point = job[t].point
          /\ job'[t].made = [job[t].made EXCEPT !.blind = l]
      BY <2>1, <3>2 DEF TypeOK, Job
    <3>5. QED
      BY <1>0, <2>3, <3>1, <3>3, <3>4 DEF JobSound, Building, Decapsulating, Live
  <2>4. QED
    BY <2>2, <2>3
<1>7. ASSUME NEW t \in Threads, DrawR(t) PROVE JobSound(u)'
  <2>1. PICK r \in RDraws : job' = [job EXCEPT ![t].made.scalarBlind = r]
    BY <1>7 DEF DrawR
  <2>2. CASE u # t
    BY <1>0, <1>7, <2>2, Undisturbed DEF DrawR, TypeOK
  <2>3. CASE u = t
    <3>1. pc[t] = "r" /\ pc'[t] = "built" /\ dk' = dk
      BY <1>7 DEF DrawR, TypeOK
    <3>2. Sound(job[t].made)
      BY <1>0, <2>3, <3>1 DEF JobSound, Building
    <3>3. Sound([job[t].made EXCEPT !.scalarBlind = r])
      BY <3>2 DEF Sound, DecapsulationKey
    <3>4. /\ job'[t].op = job[t].op /\ job'[t].key = job[t].key
          /\ job'[t].point = job[t].point
          /\ job'[t].made = [job[t].made EXCEPT !.scalarBlind = r]
      BY <2>1, <3>2 DEF TypeOK, Job
    <3>5. QED
      BY <1>0, <2>3, <3>1, <3>3, <3>4 DEF JobSound, Building, Decapsulating, Live
  <2>4. QED
    BY <2>2, <2>3
<1>8. ASSUME NEW t \in Threads, Publish(t) PROVE JobSound(u)'
  <2>1. /\ job[t].key \in Keys /\ Sound(job[t].made)
        /\ Generating(t, job[t].key)
    BY <1>8 DEF Publish, JobsSound, JobSound, Building, Generating
  <2>2. job[t].made # None
    BY <2>1, KemAssumption DEF Sound, KemConstants
  <2>3. CASE u # t
    <3>1. pc'[u] = pc[u] /\ job'[u] = job[u]
      BY <1>8, <2>3 DEF Publish, Return, TypeOK
    <3>2. \A k \in Keys : dk'[k] = IF k = job[t].key THEN job[t].made ELSE dk[k]
      BY <1>8 DEF Publish, TypeOK
    <3>3. ~Generating(u, job[t].key)
      BY <2>1, <2>3 DEF KeysSound
    <3>4. QED
      BY <1>0, <2>1, <2>2, <3>1, <3>2, <3>3
         DEF JobSound, Building, Decapsulating, Live, Generating
  <2>4. CASE u = t
    BY <1>8, <2>4 DEF Publish, Return, TypeOK, JobSound, Building, Decapsulating
  <2>5. QED
    BY <2>3, <2>4
<1>9. ASSUME NEW t \in Threads, Agree(t)
      PROVE  JobSound(u)'
  BY <1>0, <1>9 DEF TypeOK, Agree, Return, JobSound, Building, Decapsulating, Live
<1>10. ASSUME NEW t \in Threads, RejectCiphertext(t) \/ RefuseSpent(t)
      PROVE  JobSound(u)'
  BY <1>0, <1>10 DEF TypeOK, RejectCiphertext, RefuseSpent, Fail, Return, JobSound, Building, Decapsulating, Live
<1>11. ASSUME NEW t \in Threads, AcceptCiphertext(t)
      PROVE  JobSound(u)'
  BY <1>0, <1>11 DEF TypeOK, AcceptCiphertext, JobSound, Building, Decapsulating, Live
<1>12. ASSUME NEW t \in Threads, Claim(t)
      PROVE  JobSound(u)'
  BY <1>0, <1>12 DEF TypeOK, Claim, JobSound, Building, Decapsulating, Live
<1>13. ASSUME NEW t \in Threads, Ladder(t)
      PROVE  JobSound(u)'
  BY <1>0, <1>13 DEF TypeOK, Ladder, Return, JobSound, Building, Decapsulating, Live
<1>14. ASSUME NEW t \in Threads, RngFails(t)
      PROVE  JobSound(u)'
  BY <1>0, <1>14 DEF TypeOK, RngFails, Return, JobSound, Building, Decapsulating, Live
<1>15. QED
  BY <1>1, <1>2, <1>3, <1>4, <1>5, <1>6, <1>7, <1>8, <1>9, <1>10, <1>11, <1>12, <1>13, <1>14
     DEF Next, Begin, Advance
-----------------------------------------------------------------------------
(* The keys.  dk changes in Publish alone; a place gets a second thread that *)
(* makes a key for it in BeginGenerate alone, whose guard forbids it.        *)

LEMMA KeysStep == IInv /\ [Next]_vars => KeysSound'
<1> SUFFICES ASSUME IInv, [Next]_vars PROVE KeysSound'
  OBVIOUS
<1> USE DEF IInv
<1> DEFINE NoneNew == \A u \in Threads, k \in Keys : Generating(u, k)' => Generating(u, k)
<1>0. ASSUME dk' = dk, NoneNew PROVE KeysSound'
  BY <1>0 DEF KeysSound, Live
<1>1. CASE UNCHANGED vars
  BY <1>1 DEF vars, KeysSound, Generating, Live
<1>2. ASSUME NEW t \in Threads, NEW k \in Keys, BeginGenerate(t, k) PROVE KeysSound'
  <2>1. \A u \in Threads, q \in Keys :
          Generating(u, q)' => Generating(u, q) \/ (u = t /\ q = k)
    BY <1>2 DEF BeginGenerate, Call, Generating, TypeOK
  <2>2. \A u \in Threads : ~Generating(u, k)
    BY <1>2 DEF BeginGenerate, Generating, Building
  <2>3. dk' = dk
    BY <1>2 DEF BeginGenerate
  <2>4. QED
    BY <2>1, <2>2, <2>3 DEF KeysSound, Live
<1>3. ASSUME NEW t \in Threads, NEW share \in KeyShares, BeginEncapsulate(t, share) PROVE KeysSound'
  <2>1. NoneNew
    BY <1>3 DEF BeginEncapsulate, Call, Generating, Building, TypeOK
  <2>2. QED
    BY <1>0, <1>3, <2>1 DEF BeginEncapsulate, Call
<1>4. ASSUME NEW t \in Threads, NEW k \in Keys, NEW ct \in Ciphertexts, BeginDecapsulate(t, k, ct) PROVE KeysSound'
  <2>1. NoneNew
    BY <1>4 DEF BeginDecapsulate, Call, Generating, Building, TypeOK
  <2>2. QED
    BY <1>0, <1>4, <2>1 DEF BeginDecapsulate, Call
<1>5. ASSUME NEW t \in Threads, AcceptScalar(t) PROVE KeysSound'
  <2>1. NoneNew
    BY <1>5 DEF AcceptScalar, Generating, Building, TypeOK, Job
  <2>2. QED
    BY <1>0, <1>5, <2>1 DEF AcceptScalar
<1>6. ASSUME NEW t \in Threads, DrawLambda(t) PROVE KeysSound'
  <2>1. NoneNew
    BY <1>6 DEF DrawLambda, Generating, Building, TypeOK, Job
  <2>2. QED
    BY <1>0, <1>6, <2>1 DEF DrawLambda
<1>7. ASSUME NEW t \in Threads, DrawR(t) PROVE KeysSound'
  <2>1. NoneNew
    BY <1>7 DEF DrawR, Generating, Building, TypeOK, Job
  <2>2. QED
    BY <1>0, <1>7, <2>1 DEF DrawR
<1>8. ASSUME NEW t \in Threads, Publish(t) PROVE KeysSound'
  <2>1. Sound(job[t].made)
    BY <1>8 DEF Publish, JobsSound, JobSound, Building
  <2>2. \A k \in Keys : dk'[k] = IF k = job[t].key THEN job[t].made ELSE dk[k]
    BY <1>8 DEF Publish, TypeOK
  <2>3. NoneNew
    BY <1>8 DEF Publish, Return, Generating, Building, TypeOK
  <2>4. QED
    BY <2>1, <2>2, <2>3 DEF KeysSound, Live
<1>9. ASSUME NEW t \in Threads, Agree(t) PROVE KeysSound'
  <2>1. NoneNew
    BY <1>9 DEF Agree, Return, Generating, Building, TypeOK
  <2>2. QED
    BY <1>0, <1>9, <2>1 DEF Agree, Return
<1>10. ASSUME NEW t \in Threads, RejectCiphertext(t) \/ RefuseSpent(t) PROVE KeysSound'
  <2>1. NoneNew
    BY <1>10 DEF RejectCiphertext, RefuseSpent, Fail, Return, Generating, Building, TypeOK
  <2>2. QED
    BY <1>0, <1>10, <2>1 DEF RejectCiphertext, RefuseSpent, Fail, Return
<1>11. ASSUME NEW t \in Threads, AcceptCiphertext(t) PROVE KeysSound'
  <2>1. NoneNew
    BY <1>11 DEF AcceptCiphertext, Generating, Building, TypeOK
  <2>2. QED
    BY <1>0, <1>11, <2>1 DEF AcceptCiphertext
<1>12. ASSUME NEW t \in Threads, Claim(t) PROVE KeysSound'
  <2>1. NoneNew
    BY <1>12 DEF Claim, Generating, Building, TypeOK
  <2>2. QED
    BY <1>0, <1>12, <2>1 DEF Claim
<1>13. ASSUME NEW t \in Threads, Ladder(t) PROVE KeysSound'
  <2>1. NoneNew
    BY <1>13 DEF Ladder, Return, Generating, Building, TypeOK
  <2>2. QED
    BY <1>0, <1>13, <2>1 DEF Ladder, Return
<1>14. ASSUME NEW t \in Threads, RngFails(t) PROVE KeysSound'
  <2>1. NoneNew
    BY <1>14 DEF RngFails, Return, Generating, Building, TypeOK
  <2>2. QED
    BY <1>0, <1>14, <2>1 DEF RngFails, Return
<1>15. QED
  BY <1>1, <1>2, <1>3, <1>4, <1>5, <1>6, <1>7, <1>8, <1>9, <1>10, <1>11, <1>12, <1>13, <1>14
     DEF Next, Begin, Advance
-----------------------------------------------------------------------------
(* Single use.  Claim takes a key from fresh to "on one ladder" and Ladder    *)
(* from there to used; every other step leaves the flag, the ladders under   *)
(* way and the history of every key as they are.                             *)

LEMMA OneUseStep == IInv /\ [Next]_vars => OneUse'
<1> SUFFICES ASSUME IInv, [Next]_vars, BLIND PROVE OneUse'
  BY DEF OneUse
<1> USE DEF IInv
<1> DEFINE SameLadders == \A u \in Threads, k \in Keys : OnLadder(u, k)' <=> OnLadder(u, k)
<1>0. ASSUME dk' = dk, spent' = spent, runs' = runs, yields' = yields, SameLadders
      PROVE  OneUse'
  BY <1>0 DEF OneUse, Live
<1>1. CASE UNCHANGED vars
  <2>1. SameLadders
    BY <1>1 DEF vars, OnLadder
  <2>2. QED
    BY <1>0, <1>1, <2>1 DEF vars
<1>2. ASSUME NEW t \in Threads, NEW k \in Keys, BeginGenerate(t, k) PROVE OneUse'
  <2>1. SameLadders
    BY <1>2 DEF BeginGenerate, Call, OnLadder, TypeOK
  <2>2. QED
    BY <1>0, <1>2, <2>1 DEF BeginGenerate, Call
<1>3. ASSUME NEW t \in Threads, NEW share \in KeyShares, BeginEncapsulate(t, share) PROVE OneUse'
  <2>1. SameLadders
    BY <1>3 DEF BeginEncapsulate, Call, OnLadder, TypeOK
  <2>2. QED
    BY <1>0, <1>3, <2>1 DEF BeginEncapsulate, Call
<1>4. ASSUME NEW t \in Threads, NEW k \in Keys, NEW ct \in Ciphertexts, BeginDecapsulate(t, k, ct) PROVE OneUse'
  <2>1. SameLadders
    BY <1>4 DEF BeginDecapsulate, Call, OnLadder, TypeOK
  <2>2. QED
    BY <1>0, <1>4, <2>1 DEF BeginDecapsulate, Call
<1>5. ASSUME NEW t \in Threads, AcceptScalar(t) PROVE OneUse'
  <2>1. SameLadders
    BY <1>5 DEF AcceptScalar, OnLadder, TypeOK, Job
  <2>2. QED
    BY <1>0, <1>5, <2>1 DEF AcceptScalar
<1>6. ASSUME NEW t \in Threads, DrawLambda(t) PROVE OneUse'
  <2>1. SameLadders
    BY <1>6 DEF DrawLambda, OnLadder, TypeOK, Job
  <2>2. QED
    BY <1>0, <1>6, <2>1 DEF DrawLambda
<1>7. ASSUME NEW t \in Threads, DrawR(t) PROVE OneUse'
  <2>1. SameLadders
    BY <1>7 DEF DrawR, OnLadder, TypeOK, Job
  <2>2. QED
    BY <1>0, <1>7, <2>1 DEF DrawR
<1>8. ASSUME NEW t \in Threads, Publish(t) PROVE OneUse'
  <2>1. job[t].key \in Keys /\ ~Live(job[t].key) /\ job[t].made # None
    BY <1>8, KemAssumption
       DEF Publish, JobsSound, JobSound, Building, Sound, KemConstants
  <2>2. SameLadders
    BY <1>8 DEF Publish, Return, OnLadder, TypeOK
  <2>3. spent' = spent
    BY <1>8, <2>1 DEF Publish, OneUse, TypeOK
  <2>4. \A k \in Keys : Live(k) => Live(k)'
    BY <1>8, <2>1 DEF Publish, Live, TypeOK
  <2>5. runs' = runs /\ yields' = yields
    BY <1>8 DEF Publish
  <2>6. QED
    BY <2>2, <2>3, <2>4, <2>5 DEF OneUse
<1>9. ASSUME NEW t \in Threads, Agree(t) PROVE OneUse'
  <2>1. SameLadders
    BY <1>9 DEF Agree, Return, OnLadder, TypeOK
  <2>2. QED
    BY <1>0, <1>9, <2>1 DEF Agree, Return
<1>10. ASSUME NEW t \in Threads, RejectCiphertext(t) \/ RefuseSpent(t) PROVE OneUse'
  <2>1. SameLadders
    BY <1>10 DEF RejectCiphertext, RefuseSpent, Fail, Return, OnLadder, TypeOK
  <2>2. QED
    BY <1>0, <1>10, <2>1 DEF RejectCiphertext, RefuseSpent, Fail, Return
<1>11. ASSUME NEW t \in Threads, AcceptCiphertext(t) PROVE OneUse'
  <2>1. SameLadders
    BY <1>11 DEF AcceptCiphertext, OnLadder, TypeOK
  <2>2. QED
    BY <1>0, <1>11, <2>1 DEF AcceptCiphertext
<1>12. ASSUME NEW t \in Threads, Claim(t) PROVE OneUse'
  <2>1. PICK c \in Keys : c = job[t].key /\ Live(c) /\ ~spent[c]
    BY <1>12 DEF Claim, JobsSound, JobSound, Decapsulating
  <2>2. runs[c] = 0 /\ \A u \in Threads : ~OnLadder(u, c)
    BY <2>1 DEF OneUse
  <2>3. \A k \in Keys : spent'[k] = (IF k = c THEN TRUE ELSE spent[k])
    BY <1>12, <2>1 DEF Claim, TypeOK
  <2>4. \A u \in Threads, k \in Keys :
          OnLadder(u, k)' <=> OnLadder(u, k) \/ (u = t /\ k = c)
    BY <1>12, <2>1 DEF Claim, OnLadder, TypeOK
  <2>5. \A u \in Threads : OnLadder(u, c)' <=> u = t
    BY <2>1, <2>2, <2>4
  <2>6. dk' = dk /\ runs' = runs /\ yields' = yields
    BY <1>12 DEF Claim
  <2> SUFFICES ASSUME NEW k \in Keys
      PROVE  /\ ~Live(k)' => ~spent'[k]
             /\ yields'[k] = runs'[k]
             /\ ~spent'[k] => runs'[k] = 0 /\ \A u \in Threads : ~OnLadder(u, k)'
             /\ spent'[k] => \/ runs'[k] = 1 /\ \A u \in Threads : ~OnLadder(u, k)'
                             \/ /\ runs'[k] = 0
                                /\ \E v \in Threads : \A u \in Threads : OnLadder(u, k)' <=> u = v
    BY DEF OneUse
  <2>7. CASE k = c
    BY <2>1, <2>2, <2>3, <2>5, <2>6, <2>7 DEF OneUse, Live
  <2>8. CASE k # c
    <3>1. \A u \in Threads : OnLadder(u, k)' <=> OnLadder(u, k)
      BY <2>4, <2>8
    <3>2. QED
      BY <2>3, <2>6, <2>8, <3>1 DEF OneUse, Live
  <2>9. QED
    BY <2>7, <2>8
<1>13. ASSUME NEW t \in Threads, Ladder(t) PROVE OneUse'
  <2> DEFINE c == job[t].key
             s == Shared[<<dk[c].scalar, job[t].point, BlindOf(dk[c]), ScalarBlindOf(dk[c])>>]
  <2>1. c \in Keys /\ Sound(dk[c]) /\ job[t].point \in Arrivals /\ ValidPeer(job[t].point)
    BY <1>13 DEF Ladder, JobsSound, JobSound, Decapsulating, KeysSound
  <2>2. s.ok
    BY <2>1, SharedSucceeds
  <2>3. /\ runs' = [runs EXCEPT ![c] = @ + 1]
        /\ yields' = [yields EXCEPT ![c] = @ + 1]
    BY <1>13, <2>2 DEF Ladder
  <2>4. OnLadder(t, c)
    BY <1>13 DEF Ladder, OnLadder
  <2>5. spent[c] /\ runs[c] = 0 /\ \A u \in Threads : OnLadder(u, c) => u = t
    BY <2>1, <2>4 DEF OneUse
  <2>6. \A u \in Threads, k \in Keys : OnLadder(u, k)' <=> OnLadder(u, k) /\ u # t
    BY <1>13 DEF Ladder, Return, OnLadder, TypeOK
  <2>7. \A k \in Keys : k # c => ~OnLadder(t, k)
    BY DEF OnLadder
  <2>8. dk' = dk /\ spent' = spent
    BY <1>13 DEF Ladder
  <2> HIDE DEF c, s
  <2>9. QED
    BY <2>1, <2>3, <2>5, <2>6, <2>7, <2>8 DEF OneUse, Live, TypeOK
<1>14. ASSUME NEW t \in Threads, RngFails(t) PROVE OneUse'
  <2>1. SameLadders
    BY <1>14 DEF RngFails, Return, OnLadder, TypeOK
  <2>2. QED
    BY <1>0, <1>14, <2>1 DEF RngFails, Return
<1>15. QED
  BY <1>1, <1>2, <1>3, <1>4, <1>5, <1>6, <1>7, <1>8, <1>9, <1>10, <1>11, <1>12, <1>13, <1>14
     DEF Next, Begin, Advance
-----------------------------------------------------------------------------
(* Where keys, encapsulations and released secrets come from.  A key is     *)
(* assembled by one thread, which Assembled follows field by field; what a   *)
(* ladder wrote stays true because the key it ran on is never replaced.      *)

\* No step clears the flag of a key that exists, or puts another in its place.
LEMMA KeysStay ==
  IInv /\ [Next]_vars =>
    \A k \in Keys : Live(k) => dk'[k] = dk[k] /\ (spent[k] => spent'[k])
<1> SUFFICES ASSUME IInv, [Next]_vars, NEW k \in Keys, Live(k)
    PROVE  dk'[k] = dk[k] /\ (spent[k] => spent'[k])
  OBVIOUS
<1>1. CASE dk' = dk /\ spent' = spent
  BY <1>1
<1>2. CASE \E t \in Threads : Publish(t)
  <2>1. PICK t \in Threads : Publish(t)
    BY <1>2
  <2>2. job[t].key \in Keys /\ ~Live(job[t].key)
    BY <2>1 DEF IInv, Publish, JobsSound, JobSound, Building
  <2>3. QED
    BY <2>1, <2>2 DEF Publish, IInv, TypeOK
<1>3. CASE \E t \in Threads : Claim(t)
  BY <1>3 DEF Claim, IInv, TypeOK
<1>4. QED
  BY <1>1, <1>2, <1>3
     DEF Next, Begin, Advance, BeginGenerate, BeginEncapsulate, BeginDecapsulate, AcceptScalar,
         DrawLambda, DrawR, Agree, RejectCiphertext, AcceptCiphertext, RefuseSpent, Ladder,
         RngFails, vars


LEMMA AssembledStep == IInv /\ [Next]_vars => \A u \in Threads : Assembled(u)'
<1> SUFFICES ASSUME IInv, [Next]_vars, NEW u \in Threads PROVE Assembled(u)'
  OBVIOUS
<1>0. Assembled(u) /\ TypeOK
  BY DEF IInv, Provenance
<1>1. CASE pc'[u] = pc[u] /\ job'[u] = job[u]
  BY <1>0, <1>1 DEF Assembled
<1>2. CASE pc'[u] \notin {"lambda", "r", "built"}
  BY <1>2 DEF Assembled, Building
<1>3. ASSUME AcceptScalar(u) PROVE Assembled(u)'
  <2>1. PICK d \in DOMAIN PublicKey :
          job' = [job EXCEPT ![u].made =
            [scalar |-> d, blind |-> Empty, scalarBlind |-> Empty, ek |-> PublicKey[d]]]
    BY <1>3 DEF AcceptScalar
  <2>2. job'[u].made = [scalar |-> d, blind |-> Empty, scalarBlind |-> Empty, ek |-> PublicKey[d]]
    BY <1>0, <2>1 DEF TypeOK, Job
  <2>3. pc'[u] = (IF BLIND THEN "lambda" ELSE "built")
    BY <1>0, <1>3 DEF AcceptScalar, TypeOK
  <2>4. BLIND \in BOOLEAN
    BY KemAssumption DEF KemConstants
  <2>5. CASE BLIND
    BY <2>2, <2>3, <2>5 DEF Assembled, Building
  <2>6. CASE ~BLIND
    <3>1. BLIND = FALSE
      BY <2>4, <2>6
    <3>2. /\ (job'[u].made.blind # Empty) = FALSE /\ (job'[u].made.scalarBlind # Empty) = FALSE
          /\ job'[u].made.ek = PublicKey[job'[u].made.scalar] /\ pc'[u] = "built"
      BY <2>2, <2>3, <2>6
    <3>3. /\ (job'[u].made.blind # Empty) = BLIND /\ (job'[u].made.scalarBlind # Empty) = BLIND
      BY <3>1, <3>2, Zenon
    <3>4. QED
      BY <3>2, <3>3 DEF Assembled
  <2>7. QED
    BY <2>5, <2>6
<1>4. ASSUME DrawLambda(u) PROVE Assembled(u)'
  <2>1. PICK l \in LambdaDraws : job' = [job EXCEPT ![u].made.blind = l]
    BY <1>4 DEF DrawLambda
  <2>2. Sound(job[u].made)
    BY <1>4 DEF DrawLambda, IInv, JobsSound, JobSound, Building
  <2>3. job'[u].made = [job[u].made EXCEPT !.blind = l]
    BY <1>0, <2>1, <2>2 DEF TypeOK, Job
  <2>4. /\ job'[u].made.blind = l /\ job'[u].made.ek = job[u].made.ek
        /\ job'[u].made.scalar = job[u].made.scalar
    BY <2>2, <2>3 DEF Sound, DecapsulationKey
  <2>5. pc[u] = "lambda" /\ pc'[u] = "r" /\ l # Empty
    BY <1>0, <1>4, ArgumentsAreOctets DEF DrawLambda, TypeOK
  <2>6. QED
    BY <1>0, <2>4, <2>5 DEF Assembled, Building
<1>5. ASSUME DrawR(u) PROVE Assembled(u)'
  <2>1. PICK r \in RDraws : job' = [job EXCEPT ![u].made.scalarBlind = r]
    BY <1>5 DEF DrawR
  <2>2. Sound(job[u].made)
    BY <1>5 DEF DrawR, IInv, JobsSound, JobSound, Building
  <2>3. job'[u].made = [job[u].made EXCEPT !.scalarBlind = r]
    BY <1>0, <2>1, <2>2 DEF TypeOK, Job
  <2>4. /\ job'[u].made.scalarBlind = r /\ job'[u].made.ek = job[u].made.ek
        /\ job'[u].made.scalar = job[u].made.scalar
        /\ job'[u].made.blind = job[u].made.blind
    BY <2>2, <2>3 DEF Sound, DecapsulationKey
  <2>5. pc[u] = "r" /\ pc'[u] = "built" /\ r # Empty
    BY <1>0, <1>5, ArgumentsAreOctets DEF DrawR, TypeOK
  <2>6. BLIND = TRUE /\ job[u].made.blind # Empty /\ job[u].made.ek = PublicKey[job[u].made.scalar]
    BY <1>0, <2>5, KemAssumption DEF Assembled, Building, KemConstants
  <2>7. QED
    BY <2>4, <2>5, <2>6 DEF Assembled, Building
<1>6. ASSUME NEW t \in Threads, t # u, Begin(t) \/ Advance(t) \/ RngFails(t)
      PROVE  pc'[u] = pc[u] /\ job'[u] = job[u]
  BY <1>0, <1>6
     DEF Begin, Advance, BeginGenerate, BeginEncapsulate, BeginDecapsulate, Call, Return,
         AcceptScalar, DrawLambda, DrawR, Publish, Agree, RejectCiphertext, AcceptCiphertext,
         Claim, RefuseSpent, Ladder, Fail, RngFails, TypeOK
<1>7. ASSUME \/ Begin(u) \/ Publish(u) \/ Agree(u) \/ RejectCiphertext(u) \/ AcceptCiphertext(u)
             \/ Claim(u) \/ RefuseSpent(u) \/ Ladder(u) \/ RngFails(u)
      PROVE  pc'[u] \notin {"lambda", "r", "built"}
  BY <1>0, <1>7
     DEF Begin, BeginGenerate, BeginEncapsulate, BeginDecapsulate, Call, Return, Publish, Agree,
         RejectCiphertext, AcceptCiphertext, Claim, RefuseSpent, Ladder, Fail, RngFails, TypeOK
<1>8. CASE UNCHANGED vars
  BY <1>0, <1>1, <1>8 DEF vars
<1>9. QED
  BY <1>1, <1>2, <1>3, <1>4, <1>5, <1>6, <1>7, <1>8 DEF Next, Advance

LEMMA ProvenanceStep == IInv /\ [Next]_vars => Provenance'
<1> SUFFICES ASSUME IInv, [Next]_vars PROVE Provenance'
  OBVIOUS
<1>0. TypeOK /\ Provenance
  BY DEF IInv
<1>1. \A u \in Threads : Assembled(u)'
  BY AssembledStep
<1>2. ASSUME NEW k \in Keys, Live(k)'
      PROVE  /\ dk'[k].ek = PublicKey[dk'[k].scalar]
             /\ (dk'[k].blind # Empty) = BLIND /\ (dk'[k].scalarBlind # Empty) = BLIND
  <2>1. CASE dk'[k] = dk[k]
    BY <1>0, <1>2, <2>1 DEF Provenance, Live
  <2>2. ASSUME NEW t \in Threads, Publish(t), job[t].key = k
        PROVE  dk'[k] = job[t].made
    BY <1>0, <2>2 DEF Publish, TypeOK
  <2>3. ASSUME NEW t \in Threads, Publish(t), job[t].key # k
        PROVE  dk'[k] = dk[k]
    BY <1>0, <2>3 DEF Publish, TypeOK
  <2>4. ASSUME NEW t \in Threads, Publish(t)
        PROVE  /\ job[t].made.ek = PublicKey[job[t].made.scalar]
               /\ (job[t].made.blind # Empty) = BLIND
               /\ (job[t].made.scalarBlind # Empty) = BLIND
    BY <1>0, <2>4 DEF Publish, Provenance, Assembled, Building
  <2>5. CASE dk' = dk
    BY <2>1, <2>5
  <2>6. QED
    BY <2>1, <2>2, <2>3, <2>4, <2>5
       DEF Next, Begin, Advance, BeginGenerate, BeginEncapsulate, BeginDecapsulate, AcceptScalar,
           DrawLambda, DrawR, Agree, RejectCiphertext, AcceptCiphertext, Claim,
           RefuseSpent, Ladder, RngFails, vars
<1>3. ASSUME NEW w \in wire'
      PROVE  /\ ValidPeer(w.peer)
             /\ \E d \in DOMAIN PublicKey : w.ct = PublicKey[d] /\ w.shared = Secret(d, w.peer)
  <2>1. CASE w \in wire
    BY <1>0, <2>1 DEF Provenance
  <2>2. ASSUME NEW t \in Threads, Agree(t), w \notin wire
        PROVE  /\ ValidPeer(w.peer)
               /\ \E d \in DOMAIN PublicKey : w.ct = PublicKey[d] /\ w.shared = Secret(d, w.peer)
    <3> DEFINE eph == job[t].made
    <3>1. /\ Sound(eph) /\ job[t].point \in Arrivals /\ ValidPeer(job[t].point)
          /\ eph.ek = PublicKey[eph.scalar]
      BY <1>0, <2>2 DEF IInv, Agree, JobsSound, JobSound, Building, Provenance, Assembled
    <3>2. /\ w.ct = eph.ek /\ w.peer = job[t].point
          /\ w.shared = Shared[<<eph.scalar, job[t].point, BlindOf(eph), ScalarBlindOf(eph)>>].out
      BY <2>2 DEF Agree
    <3> HIDE DEF eph
    <3>3. w.shared = Secret(eph.scalar, w.peer)
      BY <3>1, <3>2, SharedSucceeds
    <3>4. QED
      BY <3>1, <3>2, <3>3 DEF Sound
  <2>3. QED
    BY <2>1, <2>2
       DEF Next, Begin, Advance, BeginGenerate, BeginEncapsulate, BeginDecapsulate, AcceptScalar,
           DrawLambda, DrawR, Publish, RejectCiphertext, AcceptCiphertext, Claim, RefuseSpent,
           Ladder, Fail, RngFails, vars
<1>4. ASSUME NEW u \in Threads, outcome'[u].ok
      PROVE  /\ outcome'[u].key \in Keys /\ dk'[outcome'[u].key] # None
             /\ outcome'[u].shared = Secret(dk'[outcome'[u].key].scalar, outcome'[u].ct)
  <2>1. CASE outcome'[u] = outcome[u]
    <3>1. /\ outcome[u].key \in Keys /\ Live(outcome[u].key)
          /\ outcome[u].shared = Secret(dk[outcome[u].key].scalar, outcome[u].ct)
      BY <1>0, <1>4, <2>1 DEF Provenance
    <3>2. dk'[outcome[u].key] = dk[outcome[u].key]
      BY <3>1, KeysStay
    <3>3. QED
      BY <2>1, <3>1, <3>2 DEF Live
  <2>2. ASSUME NEW t \in Threads, RejectCiphertext(t) \/ RefuseSpent(t), t = u PROVE FALSE
    <3>1. outcome'[u] = [NoOutcome EXCEPT !.key = job[t].key, !.ct = job[t].point]
      BY <1>0, <2>2 DEF RejectCiphertext, RefuseSpent, Fail, TypeOK
    <3>2. QED
      BY <1>4, <3>1 DEF NoOutcome
  <2>3. ASSUME NEW t \in Threads, NEW k \in Keys, NEW ct \in Ciphertexts,
               BeginDecapsulate(t, k, ct), t = u
        PROVE  FALSE
    BY <1>0, <1>4, <2>3 DEF BeginDecapsulate, NoOutcome, TypeOK
  <2>4. ASSUME NEW t \in Threads, Ladder(t), t = u
        PROVE  /\ outcome'[u].key \in Keys /\ dk'[outcome'[u].key] # None
               /\ outcome'[u].shared = Secret(dk'[outcome'[u].key].scalar, outcome'[u].ct)
    <3> DEFINE k == job[t].key
               s == Shared[<<dk[k].scalar, job[t].point, BlindOf(dk[k]), ScalarBlindOf(dk[k])>>]
    <3>1. k \in Keys /\ Live(k) /\ Sound(dk[k]) /\ job[t].point \in Arrivals /\ ValidPeer(job[t].point)
      BY <2>4 DEF Ladder, IInv, JobsSound, JobSound, Decapsulating, KeysSound
    <3>2. s.ok /\ s.out = Secret(dk[k].scalar, job[t].point)
      BY <3>1, SharedSucceeds
    <3>3. /\ outcome'[u] = [key |-> k, ct |-> job[t].point, ok |-> s.ok,
                            shared |-> IF s.ok THEN s.out ELSE None]
          /\ dk' = dk
      BY <1>0, <2>4 DEF Ladder, TypeOK
    <3> HIDE DEF k, s
    <3>4. QED
      BY <3>1, <3>2, <3>3 DEF Live
  <2>5. QED
    BY <1>0, <2>1, <2>2, <2>3, <2>4
       DEF Next, Begin, Advance, BeginGenerate, BeginEncapsulate, BeginDecapsulate, AcceptScalar,
           DrawLambda, DrawR, Publish, Agree, RejectCiphertext, AcceptCiphertext, Claim,
           RefuseSpent, Ladder, Fail, RngFails, vars, TypeOK
<1>5. QED
  BY <1>1, <1>2, <1>3, <1>4 DEF Provenance, Live

-----------------------------------------------------------------------------
(* The theorems                                                              *)

LEMMA NextIInv == IInv /\ [Next]_vars => IInv'
BY TypeStep, JobsStep, KeysStep, OneUseStep, ProvenanceStep DEF IInv

\* IInv holds at every state of every behaviour: the locals of a call, the keys
\* and the single-use flag stay together under any interleaving of calls.
THEOREM Invariance == Spec => []IInv
BY InitIInv, NextIInv, PTL DEF Spec

\* Every variable keeps its type.
THEOREM TypeCorrect == Spec => []TypeOK
<1>1. IInv => TypeOK
  BY DEF IInv
<1>2. QED
  BY <1>1, Invariance, PTL

\* try_decapsulate never runs two ladders under one key's (lambda, r), for any
\* number of threads that share the key: the atomic swap is enough.
THEOREM MaskIsUsedOnce == Spec => []MaskUsedOnce
<1>1. IInv => MaskUsedOnce
  <2> SUFFICES ASSUME IInv, BLIND, NEW k \in Keys
      PROVE  /\ runs[k] <= 1
             /\ \A t \in Threads : OnLadder(t, k) => runs[k] = 0
             /\ \A t, u \in Threads : OnLadder(t, k) /\ OnLadder(u, k) => t = u
    BY DEF MaskUsedOnce
  <2>1. runs[k] = 0 \/ (runs[k] = 1 /\ \A t \in Threads : ~OnLadder(t, k))
    BY DEF IInv, OneUse, TypeOK
  <2>2. \A t, u \in Threads : OnLadder(t, k) /\ OnLadder(u, k) => t = u
    BY DEF IInv, OneUse, TypeOK
  <2>3. QED
    BY <2>1, <2>2
<1>2. QED
  BY <1>1, Invariance, PTL

\* A key is never burnt for nothing: one whose flag is set has released its
\* secret, or is on the ladder that will with a ciphertext that was validated.
THEOREM SpentKeysYield == Spec => []SpentKeyYields
<1>1. IInv => SpentKeyYields
  <2> SUFFICES ASSUME IInv, BLIND, NEW k \in Keys, spent[k]
      PROVE  \/ yields[k] = 1
             \/ \E t \in Threads : OnLadder(t, k) /\ ValidPeer(job[t].point)
    BY DEF SpentKeyYields
  <2>1. \A t \in Threads : OnLadder(t, k) => ValidPeer(job[t].point)
    BY DEF IInv, JobsSound, JobSound, OnLadder
  <2>2. yields[k] = 1 \/ \E t \in Threads : OnLadder(t, k)
    BY DEF IInv, OneUse
  <2>3. QED
    BY <2>1, <2>2
<1>2. QED
  BY <1>1, Invariance, PTL

\* A claim and a key are for good, whatever threads do to the key.
THEOREM KeysForGood == Spec => KeysAreForGood
<1>1. IInv /\ [Next]_vars =>
        [\A k \in Keys : Live(k) => dk'[k] = dk[k] /\ (spent[k] => spent'[k])]_vars
  BY KeysStay
<1>2. QED
  BY <1>1, Invariance, PTL DEF Spec, KeysAreForGood

\* encapsulate_with_rng's debug_assert: an encapsulation against a validated key
\* succeeds, so the release build, which drops the assertion, never hands out a
\* zeroed secret as valid.
THEOREM EncapsulationNeverFails == Spec => []EncapsulationSucceeds
<1>1. Init => EncapsulationSucceeds
  BY DEF Init, EncapsulationSucceeds
<1>2. IInv /\ EncapsulationSucceeds /\ [Next]_vars => EncapsulationSucceeds'
  <2> SUFFICES ASSUME IInv, EncapsulationSucceeds, [Next]_vars PROVE EncapsulationSucceeds'
    OBVIOUS
  <2>1. CASE wire' = wire
    BY <2>1 DEF EncapsulationSucceeds
  <2>2. ASSUME NEW t \in Threads, Agree(t) PROVE EncapsulationSucceeds'
    <3>1. Sound(job[t].made) /\ job[t].point \in Arrivals /\ ValidPeer(job[t].point)
      BY <2>2 DEF IInv, Agree, JobsSound, JobSound, Building
    <3>2. Shared[<<job[t].made.scalar, job[t].point,
                   BlindOf(job[t].made), ScalarBlindOf(job[t].made)>>].ok
      BY <3>1, SharedSucceeds
    <3>3. QED
      BY <2>2, <3>2 DEF Agree, EncapsulationSucceeds
  <2>3. QED
    BY <2>1, <2>2
       DEF Next, Begin, Advance, BeginGenerate, BeginEncapsulate, BeginDecapsulate, AcceptScalar,
           DrawLambda, DrawR, Publish, RejectCiphertext, AcceptCiphertext, Claim, RefuseSpent,
           Ladder, Fail, RngFails, vars
<1>3. QED
  BY <1>1, <1>2, Invariance, PTL DEF Spec

\* A caller with a well-formed ciphertext is refused by a spent Blinded key only.
THEOREM RefusalsAreOnlyJust == Spec => []RefusalsAreJust
<1>1. Init => RefusalsAreJust
  BY DEF Init, RefusalsAreJust, NoOutcome
<1>2. IInv /\ RefusalsAreJust /\ [Next]_vars => RefusalsAreJust'
  <2> SUFFICES ASSUME IInv, RefusalsAreJust, [Next]_vars, NEW u \in Threads,
                      outcome'[u].key # None, ~outcome'[u].ok
      PROVE  ~ValidPeer(outcome'[u].ct) \/ (BLIND /\ spent'[outcome'[u].key])
    BY DEF RefusalsAreJust
  <2>1. CASE outcome'[u] = outcome[u]
    <3>1. ~ValidPeer(outcome[u].ct) \/ (BLIND /\ spent[outcome[u].key])
      BY <2>1 DEF RefusalsAreJust
    <3>2. outcome[u].key \in Keys
      BY <2>1 DEF IInv, TypeOK, Outcome
    <3>3. BLIND /\ spent[outcome[u].key] => Live(outcome[u].key)
      BY <3>2 DEF IInv, OneUse
    <3>4. QED
      BY <2>1, <3>1, <3>2, <3>3, KeysStay
  <2>2. ASSUME NEW t \in Threads, RejectCiphertext(t), t = u
        PROVE  ~ValidPeer(outcome'[u].ct)
    <3>1. outcome'[u] = [NoOutcome EXCEPT !.key = job[t].key, !.ct = job[t].point]
      BY <2>2 DEF RejectCiphertext, Fail, IInv, TypeOK
    <3>2. QED
      BY <2>2, <3>1 DEF RejectCiphertext, NoOutcome
  <2>3. ASSUME NEW t \in Threads, RefuseSpent(t), t = u
        PROVE  BLIND /\ spent'[outcome'[u].key]
    <3>1. outcome'[u] = [NoOutcome EXCEPT !.key = job[t].key, !.ct = job[t].point]
      BY <2>3 DEF RefuseSpent, Fail, IInv, TypeOK
    <3>2. BLIND
      BY <2>3 DEF RefuseSpent, IInv, JobsSound, JobSound
    <3>3. QED
      BY <2>3, <3>1, <3>2 DEF RefuseSpent, NoOutcome
  <2>4. ASSUME NEW t \in Threads, Ladder(t), t = u PROVE FALSE
    <3>1. LET k == job[t].key
          IN  Sound(dk[k]) /\ job[t].point \in Arrivals /\ ValidPeer(job[t].point)
      BY <2>4 DEF Ladder, IInv, JobsSound, JobSound, Decapsulating, KeysSound
    <3>2. LET k == job[t].key
          IN  Shared[<<dk[k].scalar, job[t].point, BlindOf(dk[k]), ScalarBlindOf(dk[k])>>].ok
      BY <3>1, SharedSucceeds
    <3>3. outcome'[u].ok
      BY <2>4, <3>2 DEF Ladder, IInv, TypeOK
    <3>4. QED
      BY <3>3
  <2>5. ASSUME NEW t \in Threads, NEW k \in Keys, NEW ct \in Ciphertexts,
               BeginDecapsulate(t, k, ct), t = u
        PROVE  FALSE
    BY <2>5 DEF BeginDecapsulate, NoOutcome, IInv, TypeOK
  <2>6. QED
    BY <2>1, <2>2, <2>3, <2>4, <2>5
       DEF Next, Begin, Advance, BeginGenerate, BeginEncapsulate, BeginDecapsulate, AcceptScalar,
           DrawLambda, DrawR, Publish, Agree, RejectCiphertext, AcceptCiphertext, Claim,
           RefuseSpent, Ladder, Fail, RngFails, vars, IInv, TypeOK
<1>3. QED
  BY <1>1, <1>2, Invariance, PTL DEF Spec

\* Every key that can be used or imported is d G for its own d in range, with the
\* blinders of its personality; a generation that failed part-way leaves none.
THEOREM KeysAreWholeAlways == Spec => []KeysAreWhole
<1>1. IInv => KeysAreWhole
  <2> SUFFICES ASSUME IInv, NEW k \in Keys, Live(k)
      PROVE  /\ dk[k].scalar.val \in Scalar
             /\ <<dk[k].ek.x, dk[k].ek.y>> = GroupMul(dk[k].scalar.val, G)
             /\ (dk[k].blind # Empty) = BLIND /\ (dk[k].scalarBlind # Empty) = BLIND
    BY DEF KeysAreWhole
  <2>1. Sound(dk[k])
    BY DEF IInv, KeysSound
  <2>2. /\ dk[k].ek = PublicKey[dk[k].scalar]
        /\ (dk[k].blind # Empty) = BLIND /\ (dk[k].scalarBlind # Empty) = BLIND
    BY DEF IInv, Provenance
  <2>3. QED
    BY <2>1, <2>2, PublicKeyIsTheProduct DEF Sound
<1>2. QED
  BY <1>1, Invariance, PTL

\* x(d (e G)) = x(e (d G)).
LEMMA AgreementCommutes ==
  ASSUME NEW d \in DOMAIN PublicKey, NEW e \in DOMAIN PublicKey
  PROVE  Secret(d, PublicKey[e]) = Secret(e, PublicKey[d])
<1> DEFINE a == d.val
           b == e.val
<1>1. a \in Nat /\ b \in Nat
  BY PublicKeyIsTheProduct, CurveSizes DEF Scalar
<1>2. <<PublicKey[e].x, PublicKey[e].y>> = GroupMul(b, G)
  BY PublicKeyIsTheProduct
<1>3. <<PublicKey[d].x, PublicKey[d].y>> = GroupMul(a, G)
  BY PublicKeyIsTheProduct
<1>4. G \in Points
  BY CurveSizes DEF Points
<1>5. GroupMul(a, GroupMul(b, G)) = GroupMul(b * a, G)
  BY <1>1, <1>4, GroupMulMul
<1>6. GroupMul(b, GroupMul(a, G)) = GroupMul(a * b, G)
  BY <1>1, <1>4, GroupMulMul
<1>7. a * b = b * a
  BY <1>1
<1>8. QED
  BY <1>2, <1>3, <1>5, <1>6, <1>7 DEF Secret

\* Both ends of every exchange hold one secret, whatever blinders each drew and
\* however the calls of any number of threads interleave.
THEOREM BothEndsAgree == Spec => []SecretsAgree
<1>1. IInv => SecretsAgree
  <2> SUFFICES ASSUME IInv, NEW t \in Threads, NEW w \in wire, outcome[t].ok,
                      outcome[t].ct = w.ct, dk[outcome[t].key].ek = w.peer
      PROVE  outcome[t].shared = w.shared
    BY DEF SecretsAgree
  <2> DEFINE key == dk[outcome[t].key]
  <2>1. PICK e \in DOMAIN PublicKey : w.ct = PublicKey[e] /\ w.shared = Secret(e, w.peer)
    BY DEF IInv, Provenance
  <2>2. /\ outcome[t].key \in Keys /\ Live(outcome[t].key)
        /\ outcome[t].shared = Secret(key.scalar, outcome[t].ct)
    BY DEF IInv, Provenance
  <2>3. key.scalar \in DOMAIN PublicKey /\ key.ek = PublicKey[key.scalar]
    BY <2>2 DEF IInv, Provenance, KeysSound, Sound
  <2>4. Secret(key.scalar, PublicKey[e]) = Secret(e, PublicKey[key.scalar])
    BY <2>1, <2>3, AgreementCommutes
  <2>5. QED
    BY <2>1, <2>2, <2>3, <2>4
<1>2. QED
  BY <1>1, Invariance, PTL

\* A Blinded key implements OneShot: Publish issues it, the swap that finds the
\* flag clear claims it, its ladder yields; every other step is a stutter.
THEOREM KeepsPromiseSafely ==
  ASSUME BLIND
  PROVE  Spec => Promise!Safety
<1> DEFINE issued == {k \in Keys : Live(k)}
           claimed == {k \in Keys : spent[k]}
<1>1. Init => Promise!Init
  BY DEF Init, Live, Promise!Init
<1>2. IInv /\ [Next]_vars => [Promise!Next]_(Promise!vars)
  <2> SUFFICES ASSUME IInv, [Next]_vars PROVE Promise!Next \/ UNCHANGED Promise!vars
    OBVIOUS
  <2>1. CASE dk' = dk /\ spent' = spent /\ yields' = yields
    BY <2>1 DEF Promise!vars, Live
  <2>2. ASSUME NEW t \in Threads, Publish(t) PROVE Promise!Next
    <3>1. PICK c \in Keys : c = job[t].key /\ ~Live(c) /\ job[t].made # None /\ ~spent[c]
      BY <2>2, KemAssumption
         DEF IInv, Publish, JobsSound, JobSound, Building, Sound, OneUse, KemConstants
    <3>2. \A k \in Keys : Live(k)' <=> Live(k) \/ k = c
      BY <2>2, <3>1 DEF Publish, Live, IInv, TypeOK
    <3>3. issued' = issued \cup {c}
      BY <3>1, <3>2
    <3>4. spent' = spent /\ yields' = yields
      BY <2>2, <3>1 DEF Publish, IInv, TypeOK
    <3>5. Promise!Issue(c)
      BY <3>1, <3>3, <3>4 DEF Promise!Issue
    <3>6. QED
      BY <3>5 DEF Promise!Next
  <2>3. ASSUME NEW t \in Threads, Claim(t) PROVE Promise!Next
    <3>1. PICK c \in Keys : c = job[t].key /\ Live(c) /\ ~spent[c]
      BY <2>3 DEF IInv, Claim, JobsSound, JobSound, Decapsulating
    <3>2. \A k \in Keys : spent'[k] <=> spent[k] \/ k = c
      BY <2>3, <3>1 DEF Claim, IInv, TypeOK
    <3>3. claimed' = claimed \cup {c}
      BY <3>1, <3>2
    <3>4. dk' = dk /\ yields' = yields
      BY <2>3 DEF Claim
    <3>5. Promise!Claim(c)
      BY <3>1, <3>3, <3>4 DEF Promise!Claim, Live
    <3>6. QED
      BY <3>5 DEF Promise!Next
  <2>4. ASSUME NEW t \in Threads, Ladder(t) PROVE Promise!Next
    <3>1. PICK c \in Keys :
            /\ c = job[t].key /\ OnLadder(t, c) /\ Sound(dk[c])
            /\ job[t].point \in Arrivals /\ ValidPeer(job[t].point)
      BY <2>4 DEF IInv, Ladder, JobsSound, JobSound, Decapsulating, KeysSound, OnLadder
    <3>2. Shared[<<dk[c].scalar, job[t].point, BlindOf(dk[c]), ScalarBlindOf(dk[c])>>].ok
      BY <3>1, SharedSucceeds
    <3>3. spent[c] /\ yields[c] = 0
      BY <3>1 DEF IInv, OneUse
    <3>4. yields' = [yields EXCEPT ![c] = 1] /\ dk' = dk /\ spent' = spent
      BY <2>4, <3>1, <3>2, <3>3 DEF Ladder, IInv, TypeOK
    <3>5. Promise!Yield(c)
      BY <3>1, <3>3, <3>4 DEF Promise!Yield, Live
    <3>6. QED
      BY <3>5 DEF Promise!Next
  <2>5. QED
    BY <2>1, <2>2, <2>3, <2>4
       DEF Next, Begin, Advance, BeginGenerate, BeginEncapsulate, BeginDecapsulate, AcceptScalar,
           DrawLambda, DrawR, Agree, RejectCiphertext, AcceptCiphertext, RefuseSpent, Fail,
           RngFails, vars
<1>3. QED
  BY <1>1, <1>2, Invariance, PTL DEF Spec, Promise!Safety
=============================================================================
