------------------------------- MODULE Buffers -------------------------------
(***************************************************************************)
(* The fixed stack buffers and the lengths they are sliced to, for a curve *)
(* of any width: the const asserts that refuse to build an entry point,    *)
(* the slices that are checked, and the ones that would panic.  Only       *)
(* lengths are modelled; the runs use the sizes of the code.               *)
(*                                                                         *)
(* A call is an instantiation of an entry point for a curve of eb octets   *)
(* whose order has nbits bits, a backend of size octets, an HMAC of hlen   *)
(* octets and a digest of digest octets; blinded says whether it passes a  *)
(* scalar blinder.                                                         *)
(***************************************************************************)
EXTENDS Integers, Sequences

CONSTANTS
  Calls,
  MAX_ELEM, MAX_QLEN_BYTES, MAX_HLEN, SCALAR_BLIND_BYTES

VARIABLES
  pc,    \* "build", "run", and one of "refused", "panicked", "returned"
  call,
  left   \* the slices still to be taken, in the frames that take them

vars == <<pc, call, left>>

\* Entry points, and those that can pass a scalar blinder.
Entries == {"verify", "with_k", "raw", "prehash", "randomized", "ecdh", "kem"}
Blindable == {"with_k", "randomized", "kem"}

CallShape ==
  {c \in [entry : Entries, eb : Nat, nbits : Nat, size : Nat, blinded : BOOLEAN,
          hlen : Nat, digest : Nat] : c.blinded => c.entry \in Blindable}

\* The buffers hold the curves of the crate.
ASSUME BuffersAssumption ==
  /\ MAX_ELEM \in Nat /\ MAX_ELEM >= 48
  /\ MAX_QLEN_BYTES \in Nat /\ MAX_QLEN_BYTES >= 48
  /\ MAX_HLEN \in Nat /\ SCALAR_BLIND_BYTES \in Nat
  /\ Calls \subseteq CallShape

-----------------------------------------------------------------------------
(* Const asserts                                                           *)

VerifyBuilds(c)       == c.size >= c.eb
DeriveBuilds(c)       == c.eb <= MAX_QLEN_BYTES
SignCoreBuilds(c)     == c.size = c.eb
KeyBuilds(c)          == c.eb <= MAX_ELEM
VerifyingKeyBuilds(c) == c.size >= c.eb
EcdhBuilds(c)         == c.size >= c.eb
KemBuilds(c)          == c.eb <= MAX_ELEM /\ c.size >= c.eb /\ (c.blinded => c.size = c.eb)

SignBuilds(c) == DeriveBuilds(c) /\ SignCoreBuilds(c)

Builds(c) ==
  CASE c.entry = "verify"     -> VerifyBuilds(c)
    [] c.entry = "with_k"     -> SignCoreBuilds(c)
    [] c.entry = "raw"        -> SignBuilds(c)
    [] c.entry = "prehash"    -> KeyBuilds(c) /\ SignBuilds(c)
    [] c.entry = "randomized" -> KeyBuilds(c) /\ VerifyingKeyBuilds(c) /\ SignBuilds(c) /\ VerifyBuilds(c)
    [] c.entry = "ecdh"       -> EcdhBuilds(c)
    [] c.entry = "kem"        -> KemBuilds(c) /\ KeyBuilds(c) /\ VerifyingKeyBuilds(c) /\ EcdhBuilds(c)

-----------------------------------------------------------------------------
(* Slices, in the order they are taken: want octets of the have there are. *)

\* buf[..want] panics when it is too long; get(..want)? returns.
Index(have, want) == [have |-> have, want |-> want, checked |-> FALSE]
Get(have, want)   == [have |-> have, want |-> want, checked |-> TRUE]

\* hash_to_scalar, of len octets: digest[..nb], when the digest is longer than n.
HashSlices(c, len) ==
  IF len <= c.nbits \div 8 THEN <<>> ELSE <<Index(len, (c.nbits + 7) \div 8)>>

\* Mutant: a buffer for the product, without room for the blinder's carry.
BlindBufferTight == MAX_ELEM + SCALAR_BLIND_BYTES

\* kp of the signer and dp of the ECDH core.
BlindBuffer == MAX_ELEM + SCALAR_BLIND_BYTES + 1

BlindSlices(c) ==
  IF c.blinded THEN <<Index(BlindBuffer, c.eb + SCALAR_BLIND_BYTES + 1)>> ELSE <<>>

SignCoreSlices(c) == BlindSlices(c) \o HashSlices(c, c.digest)

\* rfc6979_nonce: an HMAC wider than K, V and the scratch ends the derivation; T is
\* filled in checked pieces.
NonceSlices(c) ==
  <<Get(MAX_HLEN, c.hlen), Get(MAX_QLEN_BYTES, c.eb)>> \o HashSlices(c, c.eb)

DeriveSlices(c) ==
  HashSlices(c, c.digest) \o <<Get(MAX_QLEN_BYTES, c.eb)>> \o NonceSlices(c)

\* sign_prehashed_ct_added: when the derivation returns early, the core runs all
\* the same, on a nonce of zeros.
SignFrames(c) == <<<<Index(MAX_QLEN_BYTES, c.eb)>>, DeriveSlices(c), SignCoreSlices(c)>>

KeyFrame(c) == <<Index(MAX_ELEM, c.eb)>>
PubkeyFrame(c) == <<Index(1 + 2 * MAX_ELEM, 1 + 2 * c.eb)>>

\* The frames of a call whose arguments have the lengths the entry point asks for.
\* ecdh_diffie_hellman_ct passes no blinder, so that its core slices nothing.
Frames(c) ==
  CASE c.entry = "verify"     -> <<HashSlices(c, c.digest)>>
    [] c.entry = "with_k"     -> <<SignCoreSlices(c)>>
    [] c.entry = "raw"        -> SignFrames(c)
    [] c.entry = "prehash"    -> <<KeyFrame(c)>> \o SignFrames(c)
    [] c.entry = "randomized" -> <<KeyFrame(c), PubkeyFrame(c)>> \o SignFrames(c)
                                   \o <<HashSlices(c, c.digest)>>
    [] c.entry = "ecdh"       -> <<>>
    [] c.entry = "kem"        -> <<KeyFrame(c), KeyFrame(c), BlindSlices(c)>>

-----------------------------------------------------------------------------

Init == pc = "build" /\ call \in Calls /\ left = <<>>

\* A const assert fails when the entry point is monomorphized.
DoesNotBuild ==
  /\ pc = "build" /\ ~Builds(call)
  /\ pc' = "refused"
  /\ UNCHANGED <<call, left>>

Call ==
  /\ pc = "build" /\ Builds(call)
  /\ pc' = "run" /\ left' = Frames(call)
  /\ UNCHANGED call

Fits(slice) == slice.want <= slice.have

Slice ==
  /\ pc = "run" /\ left # <<>> /\ Head(left) # <<>>
  /\ Fits(Head(Head(left)))
  /\ left' = <<Tail(Head(left))>> \o Tail(left)
  /\ UNCHANGED <<pc, call>>

EndFrame ==
  /\ pc = "run" /\ left # <<>> /\ Head(left) = <<>>
  /\ left' = Tail(left)
  /\ UNCHANGED <<pc, call>>

\* ? on a slice that does not fit: the frame returns, its caller goes on.
LeaveFrame ==
  /\ pc = "run" /\ left # <<>> /\ Head(left) # <<>>
  /\ Head(Head(left)).checked /\ ~Fits(Head(Head(left)))
  /\ left' = Tail(left)
  /\ UNCHANGED <<pc, call>>

Panic ==
  /\ pc = "run" /\ left # <<>> /\ Head(left) # <<>>
  /\ ~Head(Head(left)).checked /\ ~Fits(Head(Head(left)))
  /\ pc' = "panicked"
  /\ UNCHANGED <<call, left>>

Return ==
  /\ pc = "run" /\ left = <<>>
  /\ pc' = "returned"
  /\ UNCHANGED <<call, left>>

Ended == pc \in {"refused", "panicked", "returned"} /\ UNCHANGED vars

Next == DoesNotBuild \/ Call \/ Slice \/ EndFrame \/ LeaveFrame \/ Panic \/ Return \/ Ended

Spec == Init /\ [][Next]_vars

-----------------------------------------------------------------------------
(* Calls                                                                   *)

\* A call of a panic-audit fixture, for a curve of eb octets with a byte-aligned
\* order, a backend of that width and a digest of that width.
Fixture(entry, eb, blinded, hlen) ==
  [entry |-> entry, eb |-> eb, nbits |-> 8 * eb, size |-> eb, blinded |-> blinded,
   hlen |-> hlen, digest |-> eb]

\* The fixtures of the panic audit: p256 and p384 with each entry point.
WithKFixtures    == {Fixture("with_k", eb, FALSE, 0) : eb \in {32, 48}}
EcdhFixtures     == {Fixture("ecdh", eb, FALSE, 0) : eb \in {32, 48}}
BlindedFixtures  == {Fixture("with_k", eb, TRUE, 0) : eb \in {32, 48}}
\* Deterministic and hedged: the hedge is only hashed, it has no buffer.
RawFixtures      == {Fixture("raw", eb, FALSE, eb) : eb \in {32, 48}}

Audited == WithKFixtures \cup EcdhFixtures \cup BlindedFixtures \cup RawFixtures

-----------------------------------------------------------------------------
(* Properties                                                              *)

\* Every slice of every entry point fits, whatever the curve, the backend, the hash
\* and the digest, or its const asserts refuse the curve: except that the signing
\* core asserts no bound on the curve before it slices the blinded nonce.  What the
\* panic audit calls returns.
OnlyTheWideBlindedNonceOverflows ==
  /\ pc = "panicked" => call.entry = "with_k" /\ call.blinded /\ call.eb > MAX_ELEM
  /\ call \in Audited => pc \notin {"refused", "panicked"}

\* "no_std, no allocator, no panics" (README.md:12).
NeverPanics == pc # "panicked"

-----------------------------------------------------------------------------
(* The inductive invariant: what is left to slice cannot panic, the nonce  *)
(* of the exception aside.                                                 *)

Exception(c) == c.entry = "with_k" /\ c.blinded /\ c.eb > MAX_ELEM

HarmlessSlices(c) ==
  {s \in [have : Nat, want : Nat, checked : BOOLEAN] : s.checked \/ Fits(s) \/ Exception(c)}

IInv ==
  /\ pc \in {"build", "run", "refused", "panicked", "returned"}
  /\ call \in Calls
  /\ left \in Seq(Seq(HarmlessSlices(call)))
  /\ pc = "refused" => ~Builds(call)
  /\ pc = "panicked" => Exception(call)
=============================================================================
