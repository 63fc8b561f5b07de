------------------------------- MODULE Verify -------------------------------
(***************************************************************************)
(* verify_inner: the gates, the computation of u1 and u2, the interleaved  *)
(* double-and-add of double_scalar_mul one bit at a time, and the final    *)
(* comparison.  A behaviour is one call.                                   *)
(***************************************************************************)
EXTENDS VerifyOps

CONSTANT Requests   \* the (pubkey, digest, r, s) the calls are made with

ASSUME VerifyAssumption == \A q \in Requests : RequestShape(q)

VARIABLES
  pc,       \* "gates", "loop" or "done"
  req,      \* the arguments
  u1, u2,   \* the two scalars
  acc,      \* the accumulator of double_scalar_mul
  i,        \* how many bits are still to be consumed
  result    \* the value returned

vars == <<pc, req, u1, u2, acc, i, result>>

-----------------------------------------------------------------------------

Init ==
  /\ pc = "gates"
  /\ req \in Requests
  /\ u1 = 0 /\ u2 = 0 /\ acc = Infinity /\ i = LoopBits
  /\ result = FALSE

\* An early return false.
Reject ==
  /\ pc = "gates" /\ ~PassesGates(req)
  /\ pc' = "done" /\ result' = FALSE
  /\ UNCHANGED <<req, u1, u2, acc, i>>

Prepare ==
  /\ pc = "gates" /\ PassesGates(req)
  /\ u1' = U1(req) /\ u2' = U2(req)
  /\ acc' = Infinity /\ i' = LoopBits
  /\ pc' = "loop"
  /\ UNCHANGED <<req, result>>

\* One pass of the loop of double_scalar_mul, for bit i - 1.
Step ==
  /\ pc = "loop" /\ i > 0
  /\ acc' = ShamirStep(req, acc, Bit(u1, i - 1), Bit(u2, i - 1))
  /\ i' = i - 1
  /\ UNCHANGED <<pc, req, u1, u2, result>>

Finish ==
  /\ pc = "loop" /\ i = 0
  /\ pc' = "done"
  /\ result' = ShowsR(req, acc)
  /\ UNCHANGED <<req, u1, u2, acc, i>>

\* The call has returned.
Returned == pc = "done" /\ UNCHANGED vars

Next == Reject \/ Prepare \/ Step \/ Finish \/ Returned

Spec == Init /\ [][Next]_vars

-----------------------------------------------------------------------------
(* Properties                                                              *)

TypeOK ==
  /\ pc \in {"gates", "loop", "done"}
  /\ u1 \in 0 .. N - 1 /\ u2 \in 0 .. N - 1
  /\ acc \in JPoint
  /\ i \in 0 .. LoopBits
  /\ result \in BOOLEAN

Q == <<req.pubkey.x, req.pubkey.y>>

\* At every pass of double_scalar_mul the accumulator stands for
\* (u1 >> i) G + (u2 >> i) Q, whatever exceptional addition was met on the way
\* (doubling through add, a sum at the identity, Q = G, Q = -G).
AccumulatorIsPrefix ==
  pc = "loop" =>
    JAffine(acc) = GroupAdd(GroupMul(u1 \div 2^i, G), GroupMul(u2 \div 2^i, Q))

\* verify_for_curve accepts exactly the ECDSA signatures of the public key, in
\* their exact encoding, and nothing else; Accepts, the call as the signer uses it,
\* gives the same answer.
AcceptsExactlySignatures ==
  pc = "done" => /\ result <=> WellFormed(req) /\ IsSignature(req)
                 /\ result = Accepts(req)
=============================================================================
