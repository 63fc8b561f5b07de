-------------------------------- MODULE Ecdh --------------------------------
(***************************************************************************)
(* ecdh_shared_x_ct, one call at a time: the length gate on out, the       *)
(* clearing of out, the shape and range gates, the two blinders, the       *)
(* ladder bit by bit and the masked write of the result.                   *)
(***************************************************************************)
EXTENDS EcdhOps

CONSTANT Calls   \* the (d, peer, blind, scalarBlind, out) the calls are made with

\* Five slices: nothing else is known of the arguments.
CallShape(c) ==
  /\ c = [d |-> c.d, peer |-> c.peer, blind |-> c.blind, scalarBlind |-> c.scalarBlind,
          out |-> c.out]
  /\ IsSlice(c.d) /\ IsSlice(c.blind) /\ IsSlice(c.scalarBlind) /\ IsSlice(c.out)
  /\ IsSec1(c.peer)

ASSUME EcdhAssumption == \A c \in Calls : CallShape(c)

VARIABLES
  pc,      \* "entry", "cleared", "ladder", "done"
  call,    \* the arguments; call.out is the buffer on entry
  out,     \* the caller's buffer
  base,    \* the peer point, blinded when blind is not empty
  scalar,  \* the slice the ladder walks: d, or d + r n
  acc,     \* the ladder's accumulator
  left,    \* how many bits of the scalar are still to be consumed
  result   \* the value returned

vars == <<pc, call, out, base, scalar, acc, left, result>>

-----------------------------------------------------------------------------

Init ==
  /\ pc = "entry"
  /\ call \in Calls
  /\ out = call.out
  /\ base = IdentityCt /\ acc = IdentityCt
  /\ scalar = Empty /\ left = 0
  /\ result = FALSE

\* out of the wrong length: returned as it came.
RejectBuffer ==
  /\ pc = "entry" /\ call.out.len # ELEM_BYTES
  /\ pc' = "done" /\ result' = FALSE
  /\ UNCHANGED <<call, out, base, scalar, acc, left>>

ClearOut ==
  /\ pc = "entry" /\ call.out.len = ELEM_BYTES
  /\ out' = ToBE(0, ELEM_BYTES)
  /\ pc' = "cleared"
  /\ UNCHANGED <<call, base, scalar, acc, left, result>>

RejectInput ==
  /\ pc = "cleared" /\ ~(WellShaped(call) /\ ValidPeer(call.peer))
  /\ pc' = "done" /\ result' = FALSE
  /\ UNCHANGED <<call, out, base, scalar, acc, left>>

Blind ==
  /\ pc = "cleared" /\ WellShaped(call) /\ ValidPeer(call.peer)
  /\ base' = BlindPoint(call.peer.x, call.peer.y, call.blind)
  /\ scalar' = LadderScalar(call.d, call.scalarBlind)
  /\ left' = BYTE_BITS * scalar'.len
  /\ acc' = IdentityCt
  /\ pc' = "ladder"
  /\ UNCHANGED <<call, out, result>>

Step ==
  /\ pc = "ladder" /\ left > 0
  /\ acc' = LadderStep(acc, (scalar.val \div 2^(left - 1)) % 2, base)
  /\ left' = left - 1
  /\ UNCHANGED <<pc, call, out, base, scalar, result>>

\* Mutant: the octets are written whatever the validity says.
ReleaseUnmasked ==
  /\ pc = "ladder" /\ left = 0
  /\ LET ax == AffineXCt(acc)
     IN  /\ out' = ToBE(ax.x, ELEM_BYTES)
         /\ result' = (SecretInRange(call.d) /\ ax.valid)
  /\ pc' = "done"
  /\ UNCHANGED <<call, base, scalar, acc, left>>

\* Serialise, mask to zero unless d was in range and the point is finite.
Release ==
  /\ pc = "ladder" /\ left = 0
  /\ LET ax == AffineXCt(acc)
         ok == SecretInRange(call.d) /\ ax.valid
     IN  /\ out' = ToBE(IF ok THEN ax.x ELSE 0, ELEM_BYTES)
         /\ result' = ok
  /\ pc' = "done"
  /\ UNCHANGED <<call, base, scalar, acc, left>>

\* The call has returned.
Returned == pc = "done" /\ UNCHANGED vars

Next ==
  \/ RejectBuffer \/ ClearOut \/ RejectInput
  \/ Blind \/ Step \/ Release \/ Returned

Spec == Init /\ [][Next]_vars

-----------------------------------------------------------------------------
(* Properties                                                              *)

Peer == <<call.peer.x, call.peer.y>>

TypeOK ==
  /\ pc \in {"entry", "cleared", "ladder", "done"}
  /\ out.len = call.out.len /\ out.val \in 0 .. Width(out.len) - 1
  /\ base \in PointCt /\ acc \in PointCt
  /\ scalar.val \in 0 .. Width(scalar.len) - 1
  /\ left \in 0 .. BYTE_BITS * scalar.len
  /\ result \in BOOLEAN

\* Before every bit the accumulator stands for (scalar >> left) P, whatever the
\* coordinate blinder and although the blinded scalar passes multiples of n, at
\* which the accumulator is the identity: the additions are complete.
LadderIsPrefix ==
  pc = "ladder" => RcbAffine(acc) = GroupMul(scalar.val \div 2^left, Peer)

\* blind_scalar loses no carry: the ladder walks exactly d + r n, and a scalar
\* congruent to d mod n whether blinded or not.
BlindedScalarIsExact ==
  pc = "ladder" => scalar.val = call.d.val + call.scalarBlind.val * N

\* The call succeeds exactly when d is in [1, n - 1] and the peer is a point of
\* the curve, and then out is x(d P), the value without any blinder; SharedX, the
\* call as the KEM uses it, returns and writes the same.
ReleasesTheSharedX ==
  pc = "done" =>
    /\ result <=> /\ call.out.len = ELEM_BYTES
                  /\ WellShaped(call) /\ ValidPeer(call.peer)
                  /\ call.d.val \in Scalar
    /\ result => out.val = GroupMul(call.d.val, Peer)[1]
    /\ call.out.len = ELEM_BYTES =>
         SharedX(call.d, call.peer, call.blind, call.scalarBlind) = [ok |-> result, out |-> out]

\* A call that fails leaves nothing of an earlier secret and nothing of d P in a
\* buffer of the right length.
FailureLeavesZero ==
  pc = "done" /\ ~result /\ call.out.len = ELEM_BYTES => out.val = 0

\* The comment at the clearing of out: "Zero `out` up front so every failure path
\* leaves it cleared (the documented contract)".
EveryFailureLeavesZero == pc = "done" /\ ~result => out.val = 0
=============================================================================
