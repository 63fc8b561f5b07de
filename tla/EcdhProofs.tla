----------------------------- MODULE EcdhProofs -----------------------------
(***************************************************************************)
(* Proofs about modules Ecdh and TaintEcdh: the value a call releases and  *)
(* what it leaves behind, for every curve that meets the contract, every   *)
(* width and every argument; and that no secret steers it.                 *)
(***************************************************************************)
EXTENDS TaintEcdh, CurveProofs

\* The gates a call passes before any arithmetic.
Gates(c) == WellShaped(c) /\ ValidPeer(c.peer)

\* What a call that passes them leaves in out.
Released(c) ==
  ToBE(IF c.d.val \in Scalar THEN GroupMul(c.d.val, <<c.peer.x, c.peer.y>>)[1] ELSE 0, ELEM_BYTES)

\* Nothing has been computed yet.
Fresh == base = IdentityCt /\ acc = IdentityCt /\ scalar = Empty /\ left = 0 /\ result = FALSE

\* On the ladder: the accumulator stands for the bits consumed, and the bits left
\* are those of the scalar, which is d + r n.
Climbing ==
  /\ base = BlindPoint(call.peer.x, call.peer.y, call.blind)
  /\ scalar = LadderScalar(call.d, call.scalarBlind)
  /\ left \in 0 .. BYTE_BITS * scalar.len
  /\ acc \in Triples
  /\ RcbAffine(acc) = GroupMul(scalar.val \div 2^left, Peer)

Locals ==
  /\ pc = "entry" => Fresh /\ out = call.out
  /\ pc = "cleared" => Fresh /\ call.out.len = ELEM_BYTES /\ out = ToBE(0, ELEM_BYTES)
  /\ pc = "ladder" =>
       /\ call.out.len = ELEM_BYTES /\ out = ToBE(0, ELEM_BYTES)
       /\ Gates(call) /\ Climbing /\ result = FALSE
  /\ pc = "done" =>
       \/ call.out.len # ELEM_BYTES /\ Fresh /\ out = call.out
       \/ call.out.len = ELEM_BYTES /\ ~Gates(call) /\ Fresh /\ out = ToBE(0, ELEM_BYTES)
       \/ /\ call.out.len = ELEM_BYTES /\ Gates(call) /\ Climbing
          /\ result \in BOOLEAN /\ (result <=> call.d.val \in Scalar) /\ out = Released(call)

IInv == CallShape(call) /\ pc \in {"entry", "cleared", "ladder", "done"} /\ Locals

-----------------------------------------------------------------------------

LEMMA InitIInv == Init => IInv
<1> SUFFICES ASSUME Init PROVE IInv
  OBVIOUS
<1>1. CallShape(call)
  BY EcdhAssumption DEF Init
<1>2. QED
  BY <1>1 DEF Init, IInv, Locals, Fresh

\* What the gates give a call of this shape.
LEMMA Passed ==
  ASSUME CallShape(call), Gates(call)
  PROVE  /\ call.d \in Slices(ELEM_BYTES) /\ Peer \in FinitePoints
         /\ FromBE(call.blind) \in Int
         /\ call.scalarBlind = Empty
            \/ (call.scalarBlind \in Slices(SCALAR_BLIND_BYTES) /\ T_BYTES = ELEM_BYTES)
         /\ LET b == BlindPoint(call.peer.x, call.peer.y, call.blind)
                s == LadderScalar(call.d, call.scalarBlind)
            IN  /\ b \in Triples /\ RcbAffine(b) = Peer
                /\ s.val = call.d.val + call.scalarBlind.val * N /\ Ladderable(s)
<1>1. /\ call.d \in Slices(ELEM_BYTES) /\ Peer \in FinitePoints
      /\ FromBE(call.blind) \in Int
      /\ call.scalarBlind = Empty
         \/ (call.scalarBlind \in Slices(SCALAR_BLIND_BYTES) /\ T_BYTES = ELEM_BYTES)
  BY GatesPass DEF CallShape, Gates, Peer
<1>2. QED
  BY <1>1, BlindPointRepresents, LadderScalarIsExact DEF Peer

\* The whole scalar has been consumed: the accumulator stands for d P.
LEMMA AtTheTop ==
  ASSUME IInv, pc = "ladder", left = 0
  PROVE  /\ acc \in Triples /\ RcbAffine(acc) = GroupMul(call.d.val, Peer)
         /\ LET ax == AffineXCt(acc)
                ok == SecretInRange(call.d) /\ ax.valid
            IN  /\ ok <=> call.d.val \in Scalar
                /\ ToBE(IF ok THEN ax.x ELSE 0, ELEM_BYTES) = Released(call)
<1>1. CallShape(call) /\ Gates(call) /\ Climbing
  BY DEF IInv, Locals
<1>2. /\ call.d \in Slices(ELEM_BYTES) /\ Peer \in FinitePoints
      /\ scalar.val = call.d.val + call.scalarBlind.val * N /\ Ladderable(scalar)
      /\ call.d.val \in Nat /\ call.scalarBlind.val \in Nat
  BY <1>1, Passed, ElementWidths DEF Climbing, Slices, Empty
<1>3. scalar.val \div 2^left = scalar.val
  <2>1. scalar.val \in Nat /\ scalar.val \div 1 = scalar.val
    BY <1>2 DEF Ladderable
  <2>2. QED
    BY <2>1, PowersOfTwo
<1>4. GroupMul(scalar.val, Peer) = GroupMul(call.d.val, Peer)
  BY <1>2, BlindedMultiple
<1>5. acc \in Triples /\ RcbAffine(acc) = GroupMul(call.d.val, Peer)
  BY <1>1, <1>3, <1>4 DEF Climbing
<1>6. SecretInRange(call.d) <=> call.d.val \in Scalar
  BY <1>2, RangeOfSecret
<1>7. call.d.val \in Scalar => acc.z # 0 /\ RcbAffine(acc) # Inf
  BY <1>2, <1>5, GroupMulFinite, InfIsNotFinite, AffineCoordinates
<1>8. call.d.val \in Scalar =>
        AffineXCt(acc).valid /\ AffineXCt(acc).x = GroupMul(call.d.val, Peer)[1]
  BY <1>5, <1>7, AffineCoordinates
<1>9. CASE call.d.val \in Scalar
  BY <1>5, <1>6, <1>8, <1>9 DEF Released, Peer
<1>10. CASE ~(call.d.val \in Scalar)
  BY <1>5, <1>6, <1>10 DEF Released
<1>11. QED
  BY <1>9, <1>10

LEMMA NextIInv == IInv /\ [Next]_vars => IInv'
<1> SUFFICES ASSUME IInv, [Next]_vars PROVE IInv'
  OBVIOUS
<1>1. CASE UNCHANGED vars
  BY <1>1 DEF IInv, Locals, Fresh, Climbing, Peer, vars
<1>2. CASE RejectBuffer
  BY <1>2 DEF RejectBuffer, IInv, Locals, Fresh
<1>3. CASE ClearOut
  BY <1>3 DEF ClearOut, IInv, Locals, Fresh
<1>4. CASE RejectInput
  BY <1>4 DEF RejectInput, IInv, Locals, Fresh, Gates
<1>5. CASE Blind
  <2>1. CallShape(call) /\ Gates(call) /\ Fresh /\ call.out.len = ELEM_BYTES
        /\ out = ToBE(0, ELEM_BYTES)
    BY <1>5 DEF Blind, IInv, Locals, Gates
  <2>2. /\ pc' = "ladder" /\ call' = call /\ out' = out /\ result' = result
        /\ base' = BlindPoint(call.peer.x, call.peer.y, call.blind)
        /\ scalar' = LadderScalar(call.d, call.scalarBlind)
        /\ left' = BYTE_BITS * scalar'.len /\ acc' = IdentityCt
    BY <1>5 DEF Blind
  <2>3. Ladderable(scalar')
    BY <2>1, <2>2, Passed
  <2>4. left' \in 0 .. LongestShift /\ left' \in 0 .. BYTE_BITS * scalar'.len
    BY <2>2, <2>3, ConsumedBits
  <2>5. scalar'.val \div 2^(left') = 0
    <3>1. Consumed(scalar', 0) = 0
      BY <2>3, ConsumedBits
    <3> DEFINE l == left'
    <3>2. l \in Nat /\ l = BYTE_BITS * scalar'.len
      BY <2>2, <2>4, LongestShiftType
    <3> HIDE DEF l
    <3>3. l - 0 = l
      BY <3>2
    <3>4. scalar'.val \div 2^l = 0
      BY <3>1, <3>2, <3>3 DEF Consumed
    <3>5. QED
      BY <3>4 DEF l
  <2>6. Peer \in Points /\ Peer' = Peer
    BY <2>1, <2>2, Passed DEF Points, Peer
  <2>7. acc' \in Triples /\ RcbAffine(acc') = GroupMul(scalar'.val \div 2^(left'), Peer)
    BY <2>2, <2>5, <2>6, IdentityRepresents, GroupMulZero
  <2>8. Climbing'
    BY <2>2, <2>4, <2>6, <2>7 DEF Climbing
  <2>9. QED
    BY <2>1, <2>2, <2>8 DEF IInv, Locals, Fresh
<1>6. CASE Step
  <2>1. CallShape(call) /\ Gates(call) /\ Climbing /\ call.out.len = ELEM_BYTES
        /\ out = ToBE(0, ELEM_BYTES) /\ result = FALSE
    BY <1>6 DEF Step, IInv, Locals
  <2>2. /\ pc' = "ladder" /\ call' = call /\ out' = out /\ result' = result
        /\ base' = base /\ scalar' = scalar /\ left' = left - 1 /\ left > 0
        /\ acc' = LadderStep(acc, (scalar.val \div 2^(left - 1)) % 2, base)
    BY <1>6 DEF Step
  <2>3. Ladderable(scalar) /\ base \in Triples /\ RcbAffine(base) = Peer
    BY <2>1, Passed DEF Climbing
  <2> DEFINE bits == BYTE_BITS * scalar.len
             k == bits - (left - 1)
             c == Consumed(scalar, k - 1)
             bit == Consumed(scalar, k) % 2
  <2>4. bits \in Nat /\ left \in 0 .. bits
    BY <2>1, <2>3, ConsumedBits DEF Climbing
  <2>5. /\ k \in 1 .. bits /\ bits - (k - 1) = left /\ bits - k = left - 1
        /\ left - 1 \in 0 .. bits
    BY <2>2, <2>4
  <2>6. scalar.val \div 2^left = c /\ scalar.val \div 2^(left - 1) = Consumed(scalar, k)
    BY <2>5 DEF Consumed
  <2> HIDE DEF k
  <2>7. c \in Nat /\ bit \in {0, 1} /\ Consumed(scalar, k) = 2 * c + bit
    BY <2>3, <2>5, ConsumedBits
  <2>8. acc' = LadderStep(acc, bit, base)
    BY <2>2, <2>6
  <2>9. acc \in Triples /\ RcbAffine(acc) = GroupMul(c, RcbAffine(base))
    BY <2>1, <2>3, <2>6 DEF Climbing
  <2> HIDE DEF c, bit
  <2>10. acc' \in Triples /\ RcbAffine(acc') = GroupMul(2 * c + bit, Peer)
    BY <2>3, <2>7, <2>8, <2>9, LadderStepRepresents
  <2>11. Climbing'
    BY <2>1, <2>2, <2>5, <2>6, <2>7, <2>10 DEF Climbing, Peer
  <2>12. QED
    BY <2>1, <2>2, <2>11 DEF IInv, Locals
<1>7. CASE Release
  <2>1. CallShape(call) /\ Gates(call) /\ Climbing /\ call.out.len = ELEM_BYTES
    BY <1>7 DEF Release, IInv, Locals
  <2>2. Climbing'
    BY <1>7, <2>1 DEF Release, Climbing, Peer
  <2>3. /\ result' = (SecretInRange(call.d) /\ AffineXCt(acc).valid)
        /\ out' = ToBE(IF SecretInRange(call.d) /\ AffineXCt(acc).valid
                       THEN AffineXCt(acc).x ELSE 0, ELEM_BYTES)
        /\ pc' = "done" /\ call' = call /\ pc = "ladder" /\ left = 0
    BY <1>7 DEF Release
  <2>4. /\ result' \in BOOLEAN /\ (result' <=> call.d.val \in Scalar)
        /\ out' = Released(call)
    <3>1. /\ SecretInRange(call.d) /\ AffineXCt(acc).valid <=> call.d.val \in Scalar
          /\ out' = Released(call)
      BY <2>3, AtTheTop
    <3>2. (SecretInRange(call.d) /\ AffineXCt(acc).valid) \in BOOLEAN
      OBVIOUS
    <3>3. QED
      BY <2>3, <3>1, <3>2
  <2>5. QED
    BY <2>1, <2>2, <2>3, <2>4 DEF IInv, Locals, Released
<1>8. CASE Returned
  BY <1>8 DEF Returned, IInv, Locals, Fresh, Climbing, Peer, vars
<1>9. QED
  BY <1>1, <1>2, <1>3, <1>4, <1>5, <1>6, <1>7, <1>8 DEF Next

\* At every point of a call the accumulator, the bits left and the buffer are
\* where its arguments put them.
THEOREM Invariance == Spec => []IInv
BY InitIInv, NextIInv, PTL DEF Spec

-----------------------------------------------------------------------------
(* The properties                                                          *)

\* Every variable keeps its type; out keeps its length.
THEOREM TypeCorrect == Spec => []TypeOK
<1>1. IInv => TypeOK
  <2> SUFFICES ASSUME IInv PROVE TypeOK
    OBVIOUS
  <2>1. ELEM_BYTES \in 0 .. SLICE_BYTES /\ Width(0) = 1 /\ BYTE_BITS * 0 = 0
    <3>1. BYTE_BITS * 0 = 0
      BY OctetsAssumption
    <3>2. Width(0) = 1
      BY <3>1, PowersOfTwo DEF Width
    <3>3. QED
      BY <3>1, <3>2, OctetsAssumption
  <2>2. IdentityCt \in PointCt
    BY IdentityRepresents DEF Triples
  <2>3. ToBE(0, ELEM_BYTES) \in Slices(ELEM_BYTES)
    BY <2>1, ToBEType
  <2>4. call.out \in Slices(call.out.len)
    BY DEF IInv, CallShape, IsSlice
  <2>5. ASSUME Fresh
        PROVE  /\ base \in PointCt /\ acc \in PointCt /\ scalar.val \in 0 .. Width(scalar.len) - 1
               /\ left \in 0 .. BYTE_BITS * scalar.len /\ result \in BOOLEAN
    <3>1. scalar.len = 0 /\ scalar.val = 0 /\ left = 0
      BY <2>5 DEF Fresh, Empty
    <3>2. Width(scalar.len) = 1 /\ BYTE_BITS * scalar.len = 0
      BY <2>1, <3>1
    <3>3. scalar.val \in 0 .. Width(scalar.len) - 1 /\ left \in 0 .. BYTE_BITS * scalar.len
      BY <3>1, <3>2
    <3>4. base \in PointCt /\ acc \in PointCt /\ result \in BOOLEAN
      BY <2>2, <2>5 DEF Fresh
    <3>5. QED
      BY <3>3, <3>4
  <2>6. ASSUME Gates(call), Climbing
        PROVE  /\ base \in PointCt /\ acc \in PointCt /\ scalar.val \in 0 .. Width(scalar.len) - 1
               /\ left \in 0 .. BYTE_BITS * scalar.len
               /\ Released(call) \in Slices(ELEM_BYTES)
    <3>1. CallShape(call)
      BY DEF IInv
    <3>2. base \in PointCt /\ acc \in PointCt /\ Ladderable(scalar)
      BY <2>6, <3>1, Passed DEF Climbing, Triples
    <3>3. Width(scalar.len) \in Nat
      BY <3>2, WidthType DEF Ladderable
    <3>4. (IF call.d.val \in Scalar THEN GroupMul(call.d.val, Peer)[1] ELSE 0) \in Int
      <4>1. Peer \in FinitePoints
        BY <2>6, <3>1, Passed
      <4>2. QED
        BY <4>1, GroupMulFinite, CoordinatesAreElements, CurveSizes DEF Field
    <3>5. Released(call) \in Slices(ELEM_BYTES)
      BY <2>1, <3>4, ToBEType DEF Released, Peer
    <3>6. QED
      BY <2>6, <3>2, <3>3, <3>5 DEF Climbing, Ladderable
  <2>7. out \in Slices(call.out.len)
    BY <2>3, <2>4, <2>6 DEF IInv, Locals
  <2>8. out.len = call.out.len /\ out.val \in 0 .. Width(out.len) - 1
    BY <2>7 DEF Slices
  <2>9. QED
    BY <2>5, <2>6, <2>8 DEF IInv, Locals, TypeOK
<1>2. QED
  BY <1>1, Invariance, PTL

\* The additions of the ladder are complete where a blinded scalar takes it: the
\* accumulator is the multiple the consumed bits spell, at every bit.
THEOREM LadderStaysOnThePrefix == Spec => []LadderIsPrefix
<1>1. IInv => LadderIsPrefix
  BY DEF IInv, Locals, Climbing, LadderIsPrefix
<1>2. QED
  BY <1>1, Invariance, PTL

\* No carry of blind_scalar is lost, whatever the blinder and the curve.
THEOREM BlindingIsExact == Spec => []BlindedScalarIsExact
<1>1. IInv => BlindedScalarIsExact
  BY Passed DEF IInv, Locals, Climbing, BlindedScalarIsExact
<1>2. QED
  BY <1>1, Invariance, PTL

\* A call succeeds exactly on a scalar in range and a point of the curve, and then
\* releases x(d P); SharedX is the same call.
THEOREM ReleasesOnlyTheSharedX == Spec => []ReleasesTheSharedX
<1>1. IInv => ReleasesTheSharedX
  <2> SUFFICES ASSUME IInv, pc = "done"
      PROVE  /\ result <=> /\ call.out.len = ELEM_BYTES
                           /\ WellShaped(call) /\ ValidPeer(call.peer)
                           /\ call.d.val \in Scalar
             /\ result => out.val = GroupMul(call.d.val, Peer)[1]
             /\ call.out.len = ELEM_BYTES =>
                  SharedX(call.d, call.peer, call.blind, call.scalarBlind)
                    = [ok |-> result, out |-> out]
    BY DEF ReleasesTheSharedX
  <2> DEFINE c == [d |-> call.d, peer |-> call.peer, blind |-> call.blind,
                   scalarBlind |-> call.scalarBlind]
  <2>0. CallShape(call) /\ (WellShaped(c) <=> WellShaped(call))
    BY DEF IInv, WellShaped
  <2>1. CASE call.out.len # ELEM_BYTES
    BY <2>1 DEF IInv, Locals, Fresh
  <2>2. CASE call.out.len = ELEM_BYTES /\ ~Gates(call)
    <3>1. result = FALSE /\ out = ToBE(0, ELEM_BYTES)
      BY <2>2 DEF IInv, Locals, Fresh
    <3>2. SharedX(call.d, call.peer, call.blind, call.scalarBlind)
            = [ok |-> FALSE, out |-> ToBE(0, ELEM_BYTES)]
      BY <2>0, <2>2 DEF SharedX, Gates
    <3>3. QED
      BY <2>2, <3>1, <3>2 DEF Gates
  <2>3. CASE call.out.len = ELEM_BYTES /\ Gates(call)
    <3>1. /\ result \in BOOLEAN /\ (result <=> call.d.val \in Scalar) /\ out = Released(call)
      BY <2>3 DEF IInv, Locals
    <3>2. SharedX(call.d, call.peer, call.blind, call.scalarBlind)
            = [ok |-> call.d.val \in Scalar, out |-> Released(call)]
      BY <2>0, <2>3, SharedXIsTheProduct DEF Gates, CallShape, Released
    <3>3. result = (call.d.val \in Scalar)
      BY <3>1
    <3>4. SharedX(call.d, call.peer, call.blind, call.scalarBlind) = [ok |-> result, out |-> out]
      BY <3>1, <3>2, <3>3
    <3>5. ASSUME result PROVE out.val = GroupMul(call.d.val, Peer)[1]
      <4>1. call.d.val \in Scalar /\ Peer \in FinitePoints
        BY <2>0, <2>3, <3>1, <3>5, Passed
      <4>2. GroupMul(call.d.val, Peer) \in FinitePoints
        BY <4>1, GroupMulFinite
      <4>3. ToBE(GroupMul(call.d.val, Peer)[1], ELEM_BYTES).val = GroupMul(call.d.val, Peer)[1]
        BY <4>2, CoordinatesAreElements
      <4>4. QED
        BY <3>1, <4>1, <4>3 DEF Released, Peer
    <3>6. QED
      BY <2>3, <3>1, <3>4, <3>5 DEF Gates
  <2>4. QED
    BY <2>1, <2>2, <2>3
<1>2. QED
  BY <1>1, Invariance, PTL

\* A call that fails leaves zeros in a buffer of the right length: nothing of an
\* earlier secret, nothing of a product with a scalar out of range.
THEOREM FailureAlwaysLeavesZero == Spec => []FailureLeavesZero
<1>1. IInv => FailureLeavesZero
  <2> SUFFICES ASSUME IInv, pc = "done", ~result, call.out.len = ELEM_BYTES
      PROVE  out.val = 0
    BY DEF FailureLeavesZero
  <2>1. ToBE(0, ELEM_BYTES).val = 0
    <3>1. ELEM_BYTES \in 0 .. SLICE_BYTES /\ 0 < Width(ELEM_BYTES)
      BY OctetsAssumption, ElementWidths
    <3>2. QED
      BY <3>1, ToBEExact
  <2>2. out = ToBE(0, ELEM_BYTES)
    BY DEF IInv, Locals, Released
  <2>3. QED
    BY <2>1, <2>2
<1>2. QED
  BY <1>1, Invariance, PTL

-----------------------------------------------------------------------------
(* No secret steers the call: the trace of a run is a function of what the  *)
(* two runs share.                                                          *)

\* The branches a call may show.
Branches == {"buffer", "clear", "reject", "blind", "step", "release"}

\* The number of bits a call's ladder consumes.
LadderBits(c) ==
  BYTE_BITS * (IF c.scalarBlind = Empty THEN c.d.len ELSE (SCALAR_BLIND_BYTES + 1) + ELEM_BYTES)

\* The trace of a whole call: its length, and its i-th branch.
TraceLength(c) ==
  IF c.out.len # ELEM_BYTES THEN 1 ELSE IF ~Gates(c) THEN 2 ELSE LadderBits(c) + 3

Branch(c, i) ==
  IF c.out.len # ELEM_BYTES THEN "buffer"
  ELSE IF i = 1 THEN "clear"
  ELSE IF ~Gates(c) THEN "reject"
  ELSE IF i = 2 THEN "blind"
  ELSE IF i = LadderBits(c) + 3 THEN "release"
  ELSE "step"

\* tr is the first n branches of the trace of c.
Follows(tr, c, n) ==
  /\ tr \in Seq(Branches) /\ Len(tr) = n
  /\ \A i \in 1 .. n : tr[i] = Branch(c, i)

\* How many branches this run has taken.
Progress ==
  IF pc = "entry" THEN 0
  ELSE IF pc = "cleared" THEN 1
  ELSE IF pc = "ladder" THEN 2 + (LadderBits(call) - left)
  ELSE TraceLength(call)

Traced ==
  /\ Follows(trace, call, Progress)
  /\ again => Follows(reference, call, TraceLength(call))

LEMMA LadderBitsType ==
  ASSUME CallShape(call), Gates(call)
  PROVE  /\ LadderBits(call) \in Nat
         /\ BYTE_BITS * LadderScalar(call.d, call.scalarBlind).len = LadderBits(call)
<1>1. call.d.len = ELEM_BYTES
  BY DEF Gates, WellShaped
<1>2. CASE call.scalarBlind = Empty
  BY <1>1, <1>2, OctetsAssumption DEF LadderBits, LadderScalar
<1>3. CASE call.scalarBlind # Empty
  <2>1. LadderScalar(call.d, call.scalarBlind).len = (SCALAR_BLIND_BYTES + 1) + ELEM_BYTES
    BY <1>3 DEF LadderScalar, BlindScalar, ToBE
  <2>2. BYTE_BITS * ((SCALAR_BLIND_BYTES + 1) + ELEM_BYTES) \in Nat
    BY OctetsAssumption, BlindAssumption
  <2>3. QED
    BY <1>3, <2>1, <2>2 DEF LadderBits
<1>4. QED
  BY <1>2, <1>3

\* A call that differs in the octets of d alone has the same trace.
LEMMA SecretsAreNotPublic ==
  ASSUME NEW c, CallShape(c), NEW e \in Retainted(c)
  PROVE  /\ CallShape(e) /\ e.out = c.out /\ TraceLength(e) = TraceLength(c)
         /\ \A i : Branch(e, i) = Branch(c, i)
<1>1. PICK secret \in Slices(c.d.len) : e = [c EXCEPT !.d = secret]
  BY DEF Retainted
<1>2. secret.len = c.d.len
  BY DEF Slices
<1>3. e = [d |-> secret, peer |-> c.peer, blind |-> c.blind, scalarBlind |-> c.scalarBlind,
           out |-> c.out]
  BY <1>1 DEF CallShape
<1>4. CallShape(e)
  BY <1>2, <1>3 DEF CallShape, IsSlice
<1>5. (Gates(e) <=> Gates(c)) /\ LadderBits(e) = LadderBits(c) /\ e.out = c.out
  BY <1>2, <1>3 DEF Gates, WellShaped, LadderBits
<1>6. QED
  BY <1>4, <1>5 DEF TraceLength, Branch

LEMMA AppendBranch ==
  ASSUME NEW tr, NEW c, NEW n \in Nat, Follows(tr, c, n),
         NEW b \in Branches, b = Branch(c, n + 1)
  PROVE  Follows(Append(tr, b), c, n + 1)
BY DEF Follows

LEMMA ExecuteTraced == IInv /\ Traced /\ Execute => Traced'
<1> SUFFICES ASSUME IInv, Traced, Execute PROVE Traced'
  OBVIOUS
<1>1. /\ Follows(trace, call, Progress) /\ CallShape(call)
      /\ again' = again /\ reference' = reference /\ call' = call
  BY DEF Traced, IInv, Execute, Shows, RejectBuffer, ClearOut, RejectInput, Blind, Step, Release
<1>2. again' => Follows(reference, call, TraceLength(call))'
  BY <1>1 DEF Traced
<1>3. ASSUME NEW b \in Branches, trace' = Append(trace, b), Progress \in Nat,
             Progress' = Progress + 1, b = Branch(call, Progress + 1)
      PROVE  Traced'
  <2>1. Follows(trace', call, Progress + 1)
    BY <1>1, <1>3, AppendBranch
  <2>2. Follows(trace', call', Progress')
    BY <1>1, <1>3, <2>1
  <2>3. QED
    BY <1>2, <2>2 DEF Traced
<1>4. CASE RejectBuffer /\ Shows("buffer")
  <2>1. Progress = 0 /\ Progress' = 1 /\ Branch(call, 0 + 1) = "buffer"
    BY <1>4 DEF RejectBuffer, Progress, TraceLength, Branch
  <2>2. /\ trace' = Append(trace, "buffer") /\ Progress \in Nat /\ Progress' = Progress + 1
        /\ "buffer" = Branch(call, Progress + 1) /\ "buffer" \in Branches
    BY <1>4, <2>1 DEF Shows, Branches
  <2>9. QED
    BY <1>3, <2>2
<1>5. CASE ClearOut /\ Shows("clear")
  <2>1. Progress = 0 /\ Progress' = 1 /\ Branch(call, 0 + 1) = "clear"
    BY <1>5 DEF ClearOut, Progress, Branch
  <2>2. /\ trace' = Append(trace, "clear") /\ Progress \in Nat /\ Progress' = Progress + 1
        /\ "clear" = Branch(call, Progress + 1) /\ "clear" \in Branches
    BY <1>5, <2>1 DEF Shows, Branches
  <2>9. QED
    BY <1>3, <2>2
<1>6. CASE RejectInput /\ Shows("reject")
  <2>1. ~Gates(call) /\ call.out.len = ELEM_BYTES /\ pc = "cleared" /\ pc' = "done"
    BY <1>6 DEF RejectInput, IInv, Locals, Gates
  <2>2. Progress = 1 /\ Progress' = 2 /\ Branch(call, 1 + 1) = "reject"
    BY <1>1, <2>1 DEF Progress, TraceLength, Branch
  <2>3. /\ trace' = Append(trace, "reject") /\ Progress \in Nat /\ Progress' = Progress + 1
        /\ "reject" = Branch(call, Progress + 1) /\ "reject" \in Branches
    BY <1>6, <2>2 DEF Shows, Branches
  <2>9. QED
    BY <1>3, <2>3
<1>7. CASE Blind /\ Shows("blind")
  <2>1. Gates(call) /\ call.out.len = ELEM_BYTES /\ pc = "cleared" /\ pc' = "ladder"
    BY <1>7 DEF Blind, IInv, Locals, Gates
  <2>2. left' = LadderBits(call) /\ LadderBits(call) \in Nat
    BY <1>1, <1>7, <2>1, LadderBitsType DEF Blind
  <2>3. Progress = 1 /\ Progress' = 2 /\ Branch(call, 1 + 1) = "blind"
    BY <1>1, <2>1, <2>2 DEF Progress, Branch
  <2>4. /\ trace' = Append(trace, "blind") /\ Progress \in Nat /\ Progress' = Progress + 1
        /\ "blind" = Branch(call, Progress + 1) /\ "blind" \in Branches
    BY <1>7, <2>3 DEF Shows, Branches
  <2>9. QED
    BY <1>3, <2>4
<1>8. ASSUME pc = "ladder"
      PROVE  /\ Gates(call) /\ call.out.len = ELEM_BYTES
             /\ LadderBits(call) \in Nat /\ left \in 0 .. LadderBits(call)
             /\ Progress = 2 + (LadderBits(call) - left) /\ Progress \in Nat
  <2>1. /\ Gates(call) /\ call.out.len = ELEM_BYTES
        /\ left \in 0 .. BYTE_BITS * scalar.len /\ scalar = LadderScalar(call.d, call.scalarBlind)
    BY <1>8 DEF IInv, Locals, Climbing
  <2>2. LadderBits(call) \in Nat /\ left \in 0 .. LadderBits(call)
    BY <1>1, <2>1, LadderBitsType
  <2>3. QED
    BY <1>8, <2>1, <2>2 DEF Progress
<1> DEFINE n == LadderBits(call)
<1>9. CASE Step /\ Shows("step")
  <2>1. pc = "ladder" /\ pc' = "ladder" /\ left' = left - 1 /\ left > 0
    BY <1>9 DEF Step
  <2>2. Progress' = 2 + (n - (left - 1))
    BY <1>1, <2>1 DEF Progress
  <2>3. /\ n \in Nat /\ left \in 0 .. n /\ Progress = 2 + (n - left) /\ Progress \in Nat
        /\ Gates(call) /\ call.out.len = ELEM_BYTES
    BY <1>8, <2>1
  <2> HIDE DEF n
  <2>4. Progress' = Progress + 1
    BY <2>2, <2>3
  <2>5. Progress + 1 # 1 /\ Progress + 1 # 2 /\ Progress + 1 # n + 3
    BY <2>1, <2>3
  <2>6. Branch(call, Progress + 1) = "step"
    BY <2>3, <2>5 DEF Branch, n
  <2>7. trace' = Append(trace, "step") /\ "step" \in Branches
    BY <1>9 DEF Shows, Branches
  <2>8. QED
    BY <1>3, <2>3, <2>4, <2>6, <2>7
<1>10. CASE Release /\ Shows("release")
  <2>1. pc = "ladder" /\ pc' = "done" /\ left = 0
    BY <1>10 DEF Release
  <2>2. /\ n \in Nat /\ Progress = 2 + (n - left) /\ Progress \in Nat
        /\ Gates(call) /\ call.out.len = ELEM_BYTES
    BY <1>8, <2>1
  <2>3. Progress' = n + 3
    BY <1>1, <2>1, <2>2 DEF Progress, TraceLength
  <2> HIDE DEF n
  <2>4. Progress' = Progress + 1 /\ Progress + 1 = n + 3 /\ n + 3 # 1 /\ n + 3 # 2
    BY <2>1, <2>2, <2>3
  <2>5. Branch(call, Progress + 1) = "release"
    BY <2>2, <2>4 DEF Branch, n
  <2>6. trace' = Append(trace, "release") /\ "release" \in Branches
    BY <1>10 DEF Shows, Branches
  <2>7. QED
    BY <1>3, <2>2, <2>4, <2>5, <2>6
<1>11. QED
  BY <1>4, <1>5, <1>6, <1>7, <1>9, <1>10 DEF Execute

LEMMA TaintInit0 == TaintInit => IInv /\ Traced
<1> SUFFICES ASSUME TaintInit PROVE IInv /\ Traced
  OBVIOUS
<1>1. IInv
  BY InitIInv DEF TaintInit
<1>2. trace = <<>> /\ again = FALSE /\ Progress = 0
  BY DEF TaintInit, Init, Progress
<1>3. Traced
  BY <1>2 DEF Traced, Follows
<1>4. QED
  BY <1>1, <1>3

LEMMA TaintStep == IInv /\ Traced /\ [TaintNext]_taintVars => (IInv /\ Traced)'
<1> SUFFICES ASSUME IInv, Traced, [TaintNext]_taintVars PROVE (IInv /\ Traced)'
  OBVIOUS
<1>1. CASE Execute
  <2>1. Next
    BY <1>1 DEF Execute, Next
  <2>2. QED
    BY <1>1, <2>1, NextIInv, ExecuteTraced
<1>2. CASE Again
  <2>1. /\ call' \in Retainted(call) /\ pc = "done" /\ pc' = "entry" /\ out' = call'.out
        /\ base' = IdentityCt /\ acc' = IdentityCt /\ scalar' = Empty /\ left' = 0
        /\ result' = FALSE /\ reference' = trace /\ trace' = <<>>
    BY <1>2 DEF Again
  <2>2. CallShape(call)
    BY DEF IInv
  <2>3. /\ CallShape(call') /\ TraceLength(call') = TraceLength(call)
        /\ \A i : Branch(call', i) = Branch(call, i)
    BY <2>1, <2>2, SecretsAreNotPublic
  <2>4. IInv'
    BY <2>1, <2>3 DEF IInv, Locals, Fresh
  <2>5. Follows(trace, call, TraceLength(call))
    BY <2>1 DEF Traced, Progress
  <2>6. Follows(reference', call', TraceLength(call'))
    BY <2>1, <2>3, <2>5 DEF Follows
  <2>7. Follows(trace', call', Progress')
    BY <2>1 DEF Follows, Progress
  <2>8. QED
    BY <2>4, <2>6, <2>7 DEF Traced
<1>3. CASE UNCHANGED taintVars
  <2>1. UNCHANGED vars
    BY <1>3 DEF taintVars
  <2>2. IInv'
    BY <2>1, NextIInv
  <2>3. Traced'
    BY <1>3 DEF taintVars, vars, Traced, Progress
  <2>4. QED
    BY <2>2, <2>3
<1>4. QED
  BY <1>1, <1>2, <1>3 DEF TaintNext, Compared

\* The constant-time claim: two runs that differ in the octets of d alone take the
\* same branches and the same number of ladder steps, in the same order.
THEOREM SecretsNeverSteer == TaintSpec => []SecretsDoNotSteer
<1>1. IInv /\ Traced => SecretsDoNotSteer
  <2> SUFFICES ASSUME IInv, Traced, again
      PROVE  /\ Len(trace) <= Len(reference)
             /\ trace = SubSeq(reference, 1, Len(trace))
             /\ pc = "done" => trace = reference
    BY DEF SecretsDoNotSteer
  <2> DEFINE n == Progress
             m == TraceLength(call)
  <2>1. Follows(trace, call, n) /\ Follows(reference, call, m)
    BY DEF Traced
  <2>2. n \in Nat /\ m \in Nat /\ n <= m /\ (pc = "done" => n = m)
    <3>1. CASE pc = "entry" \/ pc = "cleared"
      <4>1. CASE Gates(call)
        <5>1. LadderBits(call) \in Nat
          BY <4>1, LadderBitsType DEF IInv
        <5>2. QED
          BY <3>1, <4>1, <5>1 DEF Progress, TraceLength
      <4>2. CASE ~Gates(call)
        BY <3>1, <4>2 DEF Progress, TraceLength
      <4>3. QED
        BY <4>1, <4>2
    <3>2. CASE pc = "ladder"
      <4>1. /\ Gates(call) /\ call.out.len = ELEM_BYTES /\ CallShape(call)
            /\ left \in 0 .. BYTE_BITS * scalar.len
            /\ scalar = LadderScalar(call.d, call.scalarBlind)
        BY <3>2 DEF IInv, Locals, Climbing
      <4>2. LadderBits(call) \in Nat /\ left \in 0 .. LadderBits(call)
        BY <4>1, LadderBitsType
      <4>3. QED
        BY <3>2, <4>1, <4>2 DEF Progress, TraceLength
    <3>3. CASE pc = "done"
      <4>1. CASE Gates(call)
        <5>1. LadderBits(call) \in Nat
          BY <4>1, LadderBitsType DEF IInv
        <5>2. QED
          BY <3>3, <5>1 DEF Progress, TraceLength
      <4>2. CASE ~Gates(call)
        BY <3>3, <4>2 DEF Progress, TraceLength
      <4>3. QED
        BY <4>1, <4>2
    <3>4. QED
      BY <3>1, <3>2, <3>3 DEF IInv
  <2> HIDE DEF n, m
  <2>3. /\ trace \in Seq(Branches) /\ reference \in Seq(Branches)
        /\ Len(trace) = n /\ Len(reference) = m
        /\ \A i \in 1 .. n : trace[i] = reference[i]
    BY <2>1, <2>2 DEF Follows
  <2>4. trace = SubSeq(reference, 1, n)
    BY <2>2, <2>3
  <2>5. pc = "done" => trace = reference
    BY <2>2, <2>3
  <2>6. QED
    BY <2>2, <2>3, <2>4, <2>5
<1>2. QED
  BY <1>1, TaintInit0, TaintStep, PTL DEF TaintSpec
=============================================================================
