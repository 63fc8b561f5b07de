------------------------------ MODULE EcdhOps -------------------------------
(***************************************************************************)
(* The gates of the ECDH core and the whole of ecdh_shared_x_ct as one     *)
(* function of its arguments.  Module Ecdh runs the same call bit by bit;  *)
(* the KEM uses the function, because a call works on its own stack and    *)
(* its caller's buffer only.                                               *)
(***************************************************************************)
EXTENDS Rcb

\* validate_peer_sec1: prefix and length, coordinates below p, on the curve.
ValidPeer(sec1) ==
  /\ sec1.len = SEC1_BYTES /\ sec1.tag = 4
  /\ sec1.x < P /\ sec1.y < P
  /\ OnCurve(sec1.x, sec1.y)

\* The shapes checked before any arithmetic; an empty blinder means none.
WellShaped(c) ==
  /\ c.d.len = ELEM_BYTES
  /\ c.peer.len = SEC1_BYTES /\ c.peer.tag = 4
  /\ c.blind = Empty \/ c.blind.len = ELEM_BYTES
  /\ \/ c.scalarBlind = Empty
     \/ c.scalarBlind.len = SCALAR_BLIND_BYTES /\ T_BYTES = ELEM_BYTES

\* The range of the secret d, folded into a Choice, never branched on.
SecretInRange(d) == FromBE(d) # 0 /\ FromBE(d) < N

\* Mutant: leading zero octets of an unblinded scalar are skipped.
LadderScalarTrimmed(d, scalarBlind) ==
  IF scalarBlind = Empty
  THEN [d EXCEPT !.len = (BitLen(d.val, d.len) + BYTE_BITS - 1) \div BYTE_BITS]
  ELSE BlindScalar(d, scalarBlind)

\* The octets the ladder walks: all of d, or d + r n.
LadderScalar(d, scalarBlind) ==
  IF scalarBlind = Empty THEN d ELSE BlindScalar(d, scalarBlind)

\* The call as one function, as other components use it: the value returned
\* and what is left in an out buffer of the right length.
SharedX(d, peer, blind, scalarBlind) ==
  LET c  == [d |-> d, peer |-> peer, blind |-> blind, scalarBlind |-> scalarBlind]
      ax == AffineXCt(ScalarMulCt(LadderScalar(d, scalarBlind),
                                  BlindPoint(peer.x, peer.y, blind)))
      ok == SecretInRange(d) /\ ax.valid
  IN  IF WellShaped(c) /\ ValidPeer(peer)
      THEN [ok |-> ok, out |-> ToBE(IF ok THEN ax.x ELSE 0, ELEM_BYTES)]
      ELSE [ok |-> FALSE, out |-> ToBE(0, ELEM_BYTES)]

\* SigningKey::verifying_key_sec1: the public point of a scalar, if there is one.
PublicPoint(d) == ScalarMulCt(d, [x |-> GX, y |-> GY, z |-> 1])

HasPublicKey(d) ==
  d.len = ELEM_BYTES /\ SecretInRange(d) /\ PublicPoint(d).z # 0

VerifyingKey(d) ==
  LET xy == AffineXYCt(PublicPoint(d)) IN Sec1(SEC1_BYTES, 4, xy[1], xy[2])
=============================================================================
