---------------------------- MODULE VerifyProofs ----------------------------
(***************************************************************************)
(* Proofs about module Verify, for every curve that meets the contract,    *)
(* every width and every request: the loop carries u1 G + u2 Q, and the    *)
(* call accepts exactly the signatures.                                    *)
(***************************************************************************)
EXTENDS Verify, CurveProofs

\* The loop has reached bit i of the two scalars of the request.
Looping ==
  /\ PassesGates(req) /\ u1 = U1(req) /\ u2 = U2(req)
  /\ i \in 0 .. LoopBits /\ acc \in JTriples
  /\ JAffine(acc) = GroupAdd(GroupMul(u1 \div 2^i, G), GroupMul(u2 \div 2^i, Q))

\* Nothing has been computed.
Untouched == u1 = 0 /\ u2 = 0 /\ acc = Infinity /\ i = LoopBits

IInv ==
  /\ RequestShape(req) /\ pc \in {"gates", "loop", "done"} /\ result \in BOOLEAN
  /\ pc = "gates" => Untouched /\ result = FALSE
  /\ pc = "loop" => Looping
  /\ pc = "done" => /\ Looping \/ (Untouched /\ ~PassesGates(req))
                    /\ result <=> Accepts(req)

LEMMA InitIInv == Init => IInv
BY VerifyAssumption DEF Init, IInv, Untouched

\* Where the loop is when no bit is left.
LEMMA AtTheEnd ==
  ASSUME RequestShape(req), Looping, i = 0
  PROVE  ShowsR(req, acc) <=> Accepts(req)
<1>1. u1 \div 2^0 = u1 /\ u2 \div 2^0 = u2
  BY VerifierGates, LoopBitsOfScalar DEF Looping
<1>2. JAffine(acc) = VerifierPoint(req) /\ acc \in JTriples /\ PassesGates(req)
  BY <1>1 DEF Looping, VerifierPoint, Q, PeerOf
<1>3. QED
  BY <1>2, Comparison, AcceptsComputes

LEMMA NextIInv == IInv /\ [Next]_vars => IInv'
<1> SUFFICES ASSUME IInv, [Next]_vars PROVE IInv'
  OBVIOUS
<1>1. CASE UNCHANGED vars
  BY <1>1 DEF IInv, Untouched, Looping, Q, vars
<1>2. CASE Reject
  <2>1. ~Accepts(req)
    BY <1>2 DEF Reject, Accepts
  <2>2. QED
    BY <1>2, <2>1 DEF Reject, IInv, Untouched
<1>3. CASE Prepare
  <2>1. RequestShape(req) /\ PassesGates(req) /\ result = FALSE
    BY <1>3 DEF Prepare, IInv
  <2>2. /\ pc' = "loop" /\ req' = req /\ u1' = U1(req) /\ u2' = U2(req) /\ acc' = Infinity
        /\ i' = LoopBits /\ result' = result /\ Q' = Q
    BY <1>3 DEF Prepare, Q
  <2>3. /\ LoopBits \in Nat /\ Q \in Points
        /\ u1' \div 2^(i') = 0 /\ u2' \div 2^(i') = 0
    BY <2>1, <2>2, VerifierGates, LoopBitsOfScalar DEF Points, Q, PeerOf
  <2>4. GroupAdd(GroupMul(0, G), GroupMul(0, Q)) = Inf
    BY <2>3, CurveSizes, GroupMulZero, InfIsNotFinite, GroupIdentity DEF Points
  <2>5. Looping'
    BY <2>1, <2>2, <2>3, <2>4, InfinityRepresents DEF Looping
  <2>6. QED
    BY <2>1, <2>2, <2>5 DEF IInv
<1>4. CASE Step
  <2>1. RequestShape(req) /\ Looping /\ i > 0 /\ PassesGates(req)
    BY <1>4 DEF Step, IInv, Looping
  <2>2. /\ pc' = "loop" /\ req' = req /\ u1' = u1 /\ u2' = u2 /\ result' = result
        /\ acc' = ShamirStep(req, acc, Bit(u1, i - 1), Bit(u2, i - 1)) /\ i' = i - 1 /\ Q' = Q
    BY <1>4 DEF Step, Q
  <2> DEFINE a == u1 \div 2^i
             b == u2 \div 2^i
             b1 == Bit(u1, i - 1)
             b2 == Bit(u2, i - 1)
  <2>3. u1 \in 0 .. N - 1 /\ u2 \in 0 .. N - 1 /\ PeerOf(req) \in FinitePoints /\ Q = PeerOf(req)
    BY <2>1, VerifierGates DEF Looping, Q, PeerOf
  <2>4. LoopBits \in Nat /\ i \in 1 .. LoopBits /\ i \in 0 .. LoopBits /\ i - 1 \in 0 .. LoopBits
    BY <2>1, <2>3, LoopBitsOfScalar DEF Looping
  <2>5. /\ a \in Nat /\ b \in Nat /\ b1 \in BOOLEAN /\ b2 \in BOOLEAN
        /\ u1 \div 2^(i - 1) = 2 * a + BitOf(b1) /\ u2 \div 2^(i - 1) = 2 * b + BitOf(b2)
    BY <2>3, <2>4, LoopBitsOfScalar DEF Bit
  <2>6. acc \in JTriples /\ JAffine(acc) = GroupAdd(GroupMul(a, G), GroupMul(b, PeerOf(req)))
    BY <2>1, <2>3 DEF Looping
  <2> HIDE DEF a, b, b1, b2
  <2>7. /\ ShamirStep(req, acc, b1, b2) \in JTriples
        /\ JAffine(ShamirStep(req, acc, b1, b2))
             = GroupAdd(GroupMul(2 * a + BitOf(b1), G), GroupMul(2 * b + BitOf(b2), PeerOf(req)))
    BY <2>3, <2>5, <2>6, ShamirStepRepresents
  <2>8. acc' = ShamirStep(req, acc, b1, b2)
    BY <2>2 DEF b1, b2
  <2>9. Looping'
    BY <2>1, <2>2, <2>3, <2>4, <2>5, <2>7, <2>8 DEF Looping
  <2>10. QED
    BY <2>1, <2>2, <2>9 DEF IInv
<1>5. CASE Finish
  <2>1. /\ RequestShape(req) /\ Looping /\ i = 0
        /\ pc' = "done" /\ result' = ShowsR(req, acc) /\ UNCHANGED <<req, u1, u2, acc, i>>
    BY <1>5 DEF Finish, IInv
  <2>2. ShowsR(req, acc) \in BOOLEAN /\ (ShowsR(req, acc) <=> Accepts(req))
    <3>1. ShowsR(req, acc) <=> Accepts(req)
      BY <2>1, AtTheEnd
    <3>2. ShowsR(req, acc) \in BOOLEAN
      BY DEF ShowsR
    <3>3. QED
      BY <3>1, <3>2
  <2>3. Looping'
    BY <2>1 DEF Looping, Q
  <2>4. QED
    BY <2>1, <2>2, <2>3 DEF IInv
<1>6. CASE Returned
  BY <1>6 DEF Returned, IInv, Untouched, Looping, Q, vars
<1>7. QED
  BY <1>1, <1>2, <1>3, <1>4, <1>5, <1>6 DEF Next

\* At every pass the accumulator is where the two scalars of the request put it.
THEOREM Invariance == Spec => []IInv
BY InitIInv, NextIInv, PTL DEF Spec

\* Every variable keeps its type: the scalars are reduced, the accumulator is a
\* triple of residues.
THEOREM TypeCorrect == Spec => []TypeOK
<1>1. IInv => TypeOK
  <2> SUFFICES ASSUME IInv PROVE TypeOK
    OBVIOUS
  <2>1. 0 \in 0 .. N - 1 /\ LoopBits \in Nat /\ Infinity \in JPoint
    <3>1. 0 \in 0 .. N - 1
      BY CurveSizes
    <3>2. QED
      BY <3>1, LoopBitsOfScalar, InfinityRepresents DEF JTriples
  <2>2. CASE Untouched
    BY <2>1, <2>2 DEF IInv, Untouched, TypeOK
  <2>3. CASE Looping
    BY <2>3, VerifierGates DEF IInv, Looping, TypeOK, JTriples
  <2>4. QED
    BY <2>2, <2>3 DEF IInv
<1>2. QED
  BY <1>1, Invariance, PTL

\* No exceptional addition of double_scalar_mul (P + P, P + (-P), the identity)
\* takes the accumulator off (u1 >> i) G + (u2 >> i) Q.
THEOREM LoopStaysOnThePrefix == Spec => []AccumulatorIsPrefix
<1>1. IInv => AccumulatorIsPrefix
  BY DEF IInv, Looping, AccumulatorIsPrefix
<1>2. QED
  BY <1>1, Invariance, PTL

\* verify_for_curve accepts exactly the ECDSA signatures of the public key, in
\* their exact encoding; Accepts is the same call.
THEOREM AcceptsOnlySignatures == Spec => []AcceptsExactlySignatures
<1>1. IInv => AcceptsExactlySignatures
  <2> SUFFICES ASSUME IInv, pc = "done"
      PROVE  (result <=> WellFormed(req) /\ IsSignature(req)) /\ result = Accepts(req)
    BY DEF AcceptsExactlySignatures
  <2>1. RequestShape(req) /\ result \in BOOLEAN /\ (result <=> Accepts(req))
    BY DEF IInv
  <2>2. Accepts(req) <=> WellFormed(req) /\ IsSignature(req)
    BY <2>1, AcceptsTheSignatures
  <2>3. Accepts(req) \in BOOLEAN
    BY DEF Accepts
  <2>4. QED
    BY <2>1, <2>2, <2>3
<1>2. QED
  BY <1>1, Invariance, PTL
=============================================================================
