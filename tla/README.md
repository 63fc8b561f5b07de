# A TLA+ model of krabiecdsa

`krabiecdsa` (`src/ecdsa`) verifies and makes ECDSA signatures over short
Weierstrass curves and offers ECDH as a KEM, without allocation, without panics
and, where a secret is involved, without secret-dependent branches. This
directory models what the code computes and in which order, model-checks it with
TLC on small curves, and proves with TLAPS every safety property those runs check,
for every curve that meets the trait's contract, every width and argument, and
any number of threads and keys. Line numbers are those of
`src/ecdsa/src/lib.rs`; `PROJECT.json` gives the lines of every definition.

## Inventory

The crate is one file of about 2700 lines, generic in a `Curve` and in a backend
integer `T`. Only one component keeps state that outlives a call and that two
threads can see: the KEM key's flag. Everything else is a call that works on its
arguments and its stack, and is hard because of arithmetic edges, of the order of
its gates and of what it leaves in the caller's buffers when it fails.

| Component (lines) | State | Operations | What makes it correct |
|---|---|---|---|
| Octet conversions (78-89, 769-803, 1046-1065) | none | `from_be`, `to_be_ct`, `bitlen_be`, `hash_to_scalar` | the leftmost bits of the digest, no truncation elsewhere |
| Curve parameters (91-125) | constants | the `Curve` trait and its implementor contract | assumed by the code, cannot be checked by it |
| Verifier point arithmetic (577-767) | none | Jacobian `double`, `add`, `double_scalar_mul`, `to_affine_x` | the affine group law, at every exceptional pair of operands |
| Verification core (805-1011) | one call | `verify_for_curve`, `verify_for_curve_ref`, `verify_inner` | accepts exactly the signatures of the key, returns on every input |
| Constant-time point arithmetic (1337-1525, 2019-2027) | none | `add_rcb`, `scalar_mul_ct`, `blind_scalar`, `affine_x_ct`, `affine_xy_ct` | one formula for every pair of operands; blinders never change the result |
| ECDH core (1527-1685, 2091-2133) | one call, the caller's `out` | `ecdh_shared_x_ct`, `validate_peer_sec1`, `verifying_key_sec1` | x(dP) for every blinder; a failure leaves zeros |
| ECDH KEM (2330-2663) | `DecapsulationKey` and its atomic `spent` | generate, import, encapsulate, decapsulate | both ends agree; a Blinded key masks one ladder and yields one secret |
| RFC 6979 generator (1067-1289) | K, V of one call | `hmac_into`, `rfc6979_nonce`, `derive_nonce_rfc6979_ct_added` | a nonce in [1, n-1], distinct seeds for distinct messages |
| Signing core (1687-2017) | one call, the caller's `out_r`, `out_s` | sign with k, sign (added entropy), sign-then-verify | a released signature verifies; a failure leaves zeros |
| Signing keys and traits (149-575, 2029-2320) | key bytes | constructors, the four signer traits, `Keypair`, the two verifier traits | no bad key, failed draw or failed closure reaches a signature; what one trait signs the other accepts; only whole signatures pass |
| Stack buffers (const asserts, 1067-1189, 1637-1641, 1864-1868, 1949-1967, 2052-2062) | fixed arrays | slicing to generic widths | what builds never indexes out of a buffer |
| Constant-time harness (`src/ct-verify`) | - | taint, panic, assembly and cycle gates | no secret steers a branch or a ladder's length; the rest is about compiled code: outside a state model |
| Footprint examples (`src/footprint`) | - | binaries to measure | no logic |
| Tests | - | known answers, Wycheproof, CAVP | read for the behaviour they expect |

Who calls whom: the KEM calls the ECDH core and, to derive a public key,
`SigningKey::verifying_key_sec1`; both call the constant-time point arithmetic;
the randomized signer calls the signing core and then the verification core on its
own output, with the public key derived from the same secret; the signing core
calls the nonce generator and the constant-time arithmetic. There are no messages
other than the bytes a user carries (public key, ciphertext, signature), no
callback other than the RNG, and no shared mutable state other than `spent`
(2538), which is read and written by one `swap` with `Relaxed` ordering (2642).

The behaviours that are hard, and that tests hardly reach:

* two callers of one shared `Blinded` key arriving together at the single-use
  guard, with malformed and well-formed ciphertexts in between (2630-2648);
* a key generation that loops over rejected draws and whose RNG fails at any of
  its three fills (2578-2600);
* exceptional additions: in Shamir's trick with `Q = G`, `Q = -G`, or a sum at the
  identity (680-757), and in the ladder of `d + r n`, which passes multiples of n
  (1481-1501, 1433-1466);
* digests shorter or longer than n, n not a whole number of octets (a path no
  shipped curve takes, 796-801), x above n (1005-1010);
* a signature that travels from one of four signer traits to one of two verifier
  traits, cut into halves by length alone (239-249, 335-525);
* arrays of fixed sizes sliced to generic widths, some by index, some by `get`
  (1133-1189, 1865-1868);
* buffers that hold an earlier secret or signature when a call fails (1555-1561,
  1647-1652, 1993-2014).

`PROJECT.json` lists them as hazards, each with its line and the properties that
cover it.

## Modules

```
Octets -- Curve -+- Jacobian -- VerifyOps -+- Verify -- MCVerify
                 |               |         +- Rfc6979 -- MCRfc6979
                 |               |
                 |            SignOps -+- Sign -+- MCSign
                 |               |     |    |   +- TaintSign -- MCTaintSign
                 |               |     |  Signer (INSTANCE)
                 |               |     +- Traits -- MCTraits
                 |               |
                 +- Rcb ------ EcdhOps -+- Ecdh -- TaintEcdh -- MCEcdh
                                        +- Kem -- MCKem
                                             |
                                          OneShot (INSTANCE)
Buffers -- MCBuffers

Rcb, Jacobian -- PointLaws -+- MCSign, MCTraits, MCKem
                            +- CurveProofs (with SignOps) -- the proof modules:
                                 VerifyProofs, EcdhProofs, KemProofs,
                                 SignProofs, TraitsProofs, Rfc6979Proofs
Buffers -- BuffersProofs
```

**Octets** represents a slice as its length and the integer it spells, and gives
the conversions with their error branches (`from_be` maps the impossible error to
zero, as the code does) and truncations. The octet has `BYTE_BITS` bits.

**Curve** has the six constants of the trait, the contract of its documentation
as `CurveContract` (assumed, so TLC evaluates it in every run), the field operations, and, as a reference that
is not code, the affine group law with a table of multiples.

**Jacobian** and **Rcb** are the two sets of formulas, operation for operation but
for the temporaries. Both come with a map to the affine group (`JAffine`,
`RcbAffine`) used only by properties. **PointLaws** states, as assumptions, that
chord and tangent make a group and that both sets of formulas compute it on every
pair of operands.

**VerifyOps** has the gates of `verify_inner`, u1 and u2, one pass of
`double_scalar_mul`, and `Accepts`, the whole verification as a function; the
textbook relation `IsSignature` is a reference, not code.

**Verify** is one call of `verify_inner`, bit by bit: `Reject` stands for the early returns,
`Prepare` for u1 and u2, `Step` for one pass of `double_scalar_mul`, `Finish` for
the comparison. The variables are the locals of the code. The two public entries
differ in the `modmath` field they build and are one model. Its property
`AcceptsExactlySignatures` also says that the call and `Accepts` agree, which is
what allows the signer to use the function.

**EcdhOps** has the gates and `SharedX`, the whole of `ecdh_shared_x_ct` as a
function. **Ecdh** is the same call step by step, from the gate on `out` to the
masked write; its property `ReleasesTheSharedX` says that both agree, and this is
what allows the KEM to use the function.

**SignOps** has the signature arithmetic, the acceptance of a key, and
`SignPrehashed` and `SignHedged`, the signing calls of the two public keys as
functions. They compose the operators the actions of `Sign` take one by one
(`KeyAccepted`, `Signature`, `Accepts`), so that `Traits` can use a signing call as
one step; that the two forms agree is by reading, not a property of a run or a theorem.

**Sign** is one call of a signer, from the construction of its key to what it
leaves in the caller's buffers; `call.entry` says through which of the five entry
points. The program counter follows the code:

| `pc` | where the code is |
|---|---|
| `key` | `from_bytes` of the key (2171, 2227), which caches the public key of the randomized signer |
| `draw` | the three fills of `sign_prehash_with_rng` (427-432) |
| `buffers` | the length gate of `sign_hedged_verified_with_pubkey` (1993) |
| `derive` | `derive_nonce_rfc6979_ct_added` (1956) |
| `sign` | `sign_prehashed_ct_with_k_inner` (1957, or the entry points that take k) |
| `check` | `verify_for_curve` on the signer's own output (2010) |

The derivation is, in this module, any nonce in [1, n-1]: the properties hold for
whatever the generator returns, and `FirstGoodCandidate` of `Rfc6979` shows that
it returns nothing else. The hedge entropy only enters the nonce, so its
draw changes nothing but the count. The validity of d, k, r and s is folded into
one bit and both halves are written whatever it says, as in the code. `Glitch` is
not code: it is the fault that verify-after-sign is there for, and replaces one
half, once, between the arithmetic and the verification; it does not touch d,
the digest or the verification itself. The two halves of the trait's fixed-size
signature are two buffers of the element width.

**Signer** is what any signer promises: one final answer, a signature for the
request or none, and, from a signer that checks its output, no octet left behind
with none. `Sign` implements it (`ImplementsSigner`) under the mapping: the request
is open until `pc = "done"`, released is the pair in the buffers when `result` is
true, spotless says that both buffers are zero. The entry points that do not check
their output promise no clean buffers, and indeed leave both halves of an invalid
pair behind (1884-1885); without a check only a call that no fault meets is good,
and `Glitch` strikes checked calls only.

**Traits** is the life of a key in a curve module: `from_bytes`, one signature by
one of the four traits of its type, a verifying key that is the `Keypair`'s or
foreign, and one verification by one of the two verifier traits, of that signature,
of a changed one (halves exchanged, an octet cut off, an octet more) or, when
nothing was signed, of any octets of the right length. A message stands for its
digest; the closures that feed it may fail, and so may the RNG. `PrehashVerifier`
is also called with an empty digest, which no hash yields. `VerifyingKey` and
`RefVerifyingKey` are one model, like the two cores they call.

**Buffers** has no arithmetic: it is the list of slices each entry point takes of
its fixed arrays, in order, frame by frame, and the const asserts in front of them.
An index that does not fit panics; a `get` that does not fit returns from its frame
(`LeaveFrame`), after which `sign_prehashed_ct_added` still runs the signature
(1955-1967). The constants are the code's own. The calls of the panic audit
(`panic-free-audit`) are among those checked (`Audited`).

**TaintSign** and **TaintEcdh** are the taint fixtures. The harness marks d (and k,
where the caller brings it) as undefined and lets memcheck find the branches that
depend on them; the model runs a call twice, with the same public arguments and
two secrets, and compares what the two runs show: the actions taken, each of which
is a branch of the code, and the length of the ladder. `TaintEcdh` composes with
`Ecdh` bit by bit, `TaintSign` with `Sign` from the derivation on. Two things are
left out as in the harness: how many candidates `rfc6979_nonce` draws, which the
code declares public (1190-1199), and the constructors of the keys, which branch on
the range of d on purpose and have no fixture.

**Rfc6979** is a sequence of calls of `derive_nonce_rfc6979_ct_added`. HMAC is
symbolic and collision-free: an output is the place of its question in `oracle`, a
table that all calls share, so that one question always has one answer. A question
is a key, a V and the octets that follow it, and those are a flat octet string, as
`hmac_into` feeds them, so that `x`, `h1` and `added` could be confused with one
another. A call that is over leaves its questions and the outputs it read in `done`. The octets of an output are chosen, among all of its length, when the
candidate loop first reads it. `Seed0` and `Seed1` are the two seedings, `Fill` one
pass of the inner loop, `Accept` and `Reseed` the outcomes of the range test. The
hash's length is an argument of the call.

**Kem** has threads that call `try_generate_from_rng`, `EncapsulationKey::new`
with `encapsulate_with_rng`, and `try_decapsulate` on keys they share. A thread is
a program counter and the locals of its call (`job`):

| `pc` | where the code is |
|---|---|
| `scalar`, `lambda`, `r`, `built` | the three fills of key generation (2579, 2598, 2599), the key complete |
| `validate` | before `validate_peer_sec1` (2632) |
| `claim` | before `spent.swap(true)` (2642) |
| `ladder` | before `ecdh_shared_x_ct` (2650), the claim being made |

A step is what other threads cannot tell apart from one: the ladder and the
validation touch only the thread's stack, the swap is atomic, and so each is a
step, with every interleaving between them. `Relaxed` is enough for the model to
be faithful: all that is ordered is one location, and the other fields of the key
do not change after it is published. `wire` and `outcome` are what callers hold
afterwards; `runs` and `yields` are history, incremented only by the ladder of a
`Blinded` key. Encapsulation's ephemeral goes through the same generation actions,
with the RNG error left out (`generate_from_rng` has no error), and its key is
dropped at the end of `Agree`, blinders included. A draw that is out of range or
has no public key changes nothing, since the next fill overwrites the buffer: it
is a stuttering step, and what keeps that faithful is that the accepted draw, the
point and the blinders come from the last turn of the loop.

**OneShot** is the abstract specification of a `Blinded` key: issued, claimed by
one use, and a claim yields one secret, eventually.

**CurveProofs** proves what the operators compute; the other `*Proofs` modules prove
the properties of the components (see Proofs). The `MC*` modules have the arguments of the calls
and the draws of the RNG. Slices are at most `SLICE_BYTES` octets long (`isize::MAX` in the
code), a bound the proofs use and the runs give a value that no slice reaches.
Next to a definition stand the variants of it that a
plausible slip of the code would give ("Mutant: ..."); no specification uses them.
`PROJECT.json` pairs each property with such a variant that breaks it.

## Runs

The curves were found by search to satisfy `CurveContract` (which TLC evaluates in
every run but those of the buffers) and chosen to differ where the shipped curves do:

* y^2 = x^3 - 3x + 10 over F_11, order 7 (`verify`): a = p - 3 like P-256 and P-384,
  so that the term of a in a doubling matters; n < p and points with x above n, so
  that reducing x mod n matters; n of 3 bits with octets of 2, so that the sub-octet
  shift of `hash_to_scalar` is taken; and a backend wider than the field;
* y^2 = x^3 - 3x + 6 over F_7, order 11 (`ecdh`, the KEM runs): n > p;
* y^2 = x^3 - 3x + 1 over F_5, order 7 (`sign`): n > p, and a point whose x is 0;
* y^2 = x^3 + 7 over F_13, order 7 (`taint_sign`, `traits`): a = 0 like secp256k1,
  n < p, and a point whose x is n, so that r = 0 happens with a nonce in range;
* y^2 = x^3 - 3x + 15 over F_31, order 29 (the generator's runs): elements of three
  octets, so that a hash can divide an element, not divide it, or exceed it.

An octet of two bits makes an element of two octets 4 bits wide. Values below p, between p and
the width, below n and between n and the width all exist, which is all the gates
and the reductions tell apart, and every value can be enumerated.

| Run | States (about) | What it shows |
|---|---|---|
| `verify` | 35 000: every r, s of the width, every key, 8 digests of 1 to 3 octets, every pair of coordinates, wrong shapes | the accumulator of Shamir's trick is the prefix of u1 G + u2 Q at every bit; the answer is the textbook relation |
| `ecdh` | 295 000: every d after one d, every peer, 6 coordinate blinders (none, 0, p and non-reduced ones), every scalar blinder, wrong shapes | the ladder is exact through the multiples of n, the blinded scalar is d + r n, the result is x(dP) and agrees with `SharedX`, failures leave zero; the two runs of a call take the same branches and the same ladder steps |
| `ecdh_buffer` | violated at once | a buffer of the wrong length is returned as it came: see Findings |
| `sign` | 37 000: every d and nonce of the width through the arithmetic, nine blindings, every d through the five entry points with every nonce, an RNG that fails at each fill, a glitch to any value, all wrong lengths, buffers holding an earlier signature | a checked signer releases only signatures of its own key; a checked call that fails leaves zeros; a call succeeds exactly when it should and then returns the textbook pair, whatever the blinders; every call is a `Signer` |
| `taint_sign` | 124 000: every d and nonce of the width after one pair, with k given or derived, blinders and wrong shapes | the textbook pair on the second curve; the two runs of a call take the same branches and a ladder of the same length |
| `rfc6979_single` | 277 000: one derivation, hashes of 1 to 5 octets for elements of 3, every output, two candidates | the questions put to HMAC are those of RFC 6979 3.2, none twice; the nonce is the first candidate in range; a refused call leaves `out_k` |
| `rfc6979_pair` | 176 000: two derivations, seeds that could be cut elsewhere, digests equal mod n | two calls share an output of HMAC exactly when key, digest mod n and added data agree |
| `kem_blinded` | 93 000: two threads, one `Blinded` key, two encapsulations, RNG errors, bad draws, garbage ciphertexts and shares | both ends agree, refusals are just, one ladder per mask, a spent key yields; the inductive invariant of the proofs; the refinement of `OneShot` with its liveness |
| `kem_unblinded` | 14 000 | two reusable keys, on a backend wider than the field |
| `traits` | 65 000: both kinds of key, secrets on either side of every bound, digests of 1 to 3 octets, failing closures and draws, every key of the curve and three that are none, every signature of the right length | the `Keypair` holds the point of d; a signature of any signer trait passes either verifier trait; nothing but the whole octets of a signature over the fed digest passes |
| `buffers` | 227 000: seven entry points, widths of 1 to 70 octets, three lengths of n, backends one octet narrower to one wider, HMACs up to one octet beyond `MAX_HLEN` | no slice panics but that of the blinded nonce in a build wider than `MAX_ELEM`; the audited calls return |
| `buffers_wide` | violated at once | that panic, for the width of P-521: see Findings |

Bounds of the KEM, and why they are enough. Two callers can meet at the guard, and
either can come back to what the two left, since a thread calls again and again; a
run with a third thread found nothing more, and the theorems hold for any number. A
key's steps mention only that key, so one key, and two where keys could be confused with one another
(`kem_unblinded`). `MaxEncaps` bounds the encapsulations of a behaviour: two give a
key two different good ciphertexts. The RNG offers 0 and n (rejected), 3 and n - 1
(accepted), a coordinate blinder that reduces to zero and one that is not reduced,
and the least and greatest scalar blinder. The theorems need none of these bounds.

Bounds of the generator. `MaxTries` is two candidates: the second is read from a
state made by a reseeding, and a third repeats that step. `MaxCalls` is one, with
every output, or two, which is what it takes to confuse seeds.

`blind_scalar` is run with a blinder of one octet in the KEM runs and as wide as the
field in `ecdh`, which fills the high half of the product and makes its carry
matter; the code's 8 octets of 32 or 48 lie in between.

Bounds of the traits, the buffers and the pairs of runs. A key signs once and one
verification follows, because nothing survives a call but the key's octets, which
do not change. Widths beyond 66 are refused by every assert there is, so 70 is past
the last case. In `taint_sign` and `ecdh` equality of traces is transitive, so that one
reference secret against all others compares every two.

### Fairness

`Verify`, `Ecdh`, `Sign`, `Rfc6979`, `Traits`, `Buffers` and the taint modules need
none: every step advances a program counter or a
bounded loop, and the deadlock check of their runs shows that no call is stuck
before it returns. The one unbounded loop among them, the candidate loop, returns
with probability one only; what the model shows is that it never meets a state
twice. `Kem` assumes weak fairness of `Advance(t)` for
each thread: a thread inside a call is scheduled, and an RNG that is asked again
and again yields a scalar that is accepted. The second half is the code's own
argument (2573-2577): a draw qualifies with probability at least 1/2. No fairness
is assumed between threads, of calls not yet begun, or of RNG errors.

### Findings

`ecdh_shared_x_ct` returns at 1555-1557 when `out` has the wrong length, before
`out` is cleared at 1561. The comment there says that *every* failure path leaves
it cleared, and the doc comment (1529-1531) that `false` zeroes `out`. `ecdh_buffer`
ends a call with a buffer that holds its earlier value. `FailureLeavesZero` is the
property that does hold: buffers of the right length. The callers inside the crate
always pass the right length; the signing path clears its buffers in this case
(1993-1996).

The blinded nonce k + r n is written to `kp`, of `MAX_ELEM + SCALAR_BLIND_BYTES + 1`
= 57 octets, sliced by index to `ELEM_BYTES + SCALAR_BLIND_BYTES + 1` (1865-1868).
The signing core asserts that the backend has the width of the curve, not that the
curve is within `MAX_ELEM` (1773-1792). The keys assert it (2052-2057), the KEM too
(2547), and the other signing functions pass no blinder or go through a key; but
`sign_prehashed_ct_with_k_blinded` (feature `test-vectors`) reaches the slice on
its own, and for a curve as wide as P-521, which the crate's comments name as one a
downstream implements (109) and size other buffers for (1068-1069), it asks for 75
octets and panics, against "no panics" (`src/README.md`, line 12). `buffers_wide`
shows it; `OnlyTheWideBlindedNonceOverflows` shows that it is the only such case.
No curve of the crate is wide enough.

## Proofs

Every safety invariant the passing runs check, every action property and the safety
part of both refinements is a theorem, for every value of the constants the
assumptions allow.

| Module | Theorems |
|---|---|
| `CurveProofs` | about operators, not behaviours: `LadderMultiplies`, `BlindScalarIsExact`, `SharedXIsTheProduct`, `VerifyingKeyIsTheProduct`, `AcceptsTheSignatures`, `SignatureIsTheTextbookPair` |
| `VerifyProofs` | `TypeCorrect`, `LoopStaysOnThePrefix`, `AcceptsOnlySignatures` |
| `EcdhProofs` | `TypeCorrect`, `LadderStaysOnThePrefix`, `BlindingIsExact`, `ReleasesOnlyTheSharedX`, `FailureAlwaysLeavesZero`, `SecretsNeverSteer` (`TaintEcdh`) |
| `KemProofs` | `TypeCorrect`, `Invariance`, `MaskIsUsedOnce`, `SpentKeysYield`, `KeysForGood`, `EncapsulationNeverFails`, `RefusalsAreOnlyJust`, `KeysAreWholeAlways`, `BothEndsAgree`, `KeepsPromiseSafely` |
| `SignProofs` | `TypeCorrect`, `OnlySignaturesAreReleased`, `WithheldAreErased`, `TheTextbookPairIsSigned`, `ImplementsTheSigner`, `SecretsNeverSteer` (`TaintSign`) |
| `TraitsProofs` | `KeypairIsThePoint`, `OnlyWholeSignaturesAreAccepted`, `WhatIsSignedIsAccepted` |
| `Rfc6979Proofs` | `TypeCorrect`, `FollowsTheRfcAlways`, `FirstGoodCandidateAlways`, `NoncesAreApartAlways` |
| `BuffersProofs` | `NoOtherPanic` |

### Assumptions

Each is named, stated in the module that declares the constants, and evaluated by TLC.

* The mathematics the code takes for granted. `CurveAssumption` is the trait's
  implementor contract (P and N prime, G of order N, cofactor 1). `GroupAssumption`:
  chord and tangent stay on the curve and associate. `CompleteAddition`: `add_rcb`
  adds, on all representatives of all pairs of points. `JacobianAddition`: `double` and
  `add` with its special cases do. These are what Renes, Costello and Batina, and the
  EFD, prove of the formulas over any field; the prover has no theory of fields to
  repeat it in. TLC checks them for three curves (those of `sign`, `traits` and the KEM
  runs, with a = p - 3 and a = 0), on every pair of triples: that is the check of the
  forty field operations as the code writes them.
* `PowersOfTwo`: 2^0 = 1 and 2^(n+1) = 2 * 2^n as far as the longest slice; the prover
  does not know exponentiation.
* The widths: `OctetsAssumption`, `BlindAssumption`, and the const asserts
  (`T_BYTES >= ELEM_BYTES`, equality for signers and for `BLIND`), in `SignAssumption`,
  `TraitsAssumption` and `KemAssumption`.
* The types of the arguments: `VerifyAssumption`, `EcdhAssumption`, `SignAssumption`,
  `TraitsAssumption`, `KemAssumption`, `RfcAssumption`, `BuffersAssumption`. They say
  that slices are slices, and nothing of their length or content, except that
  `sign_prehash_with_rng` brings zeroed buffers, that the RNG and the array types fill
  fixed widths, that an HMAC output of a hash is as long as the hash, that some call is
  made, and that the fixed buffers hold at least the curves of the crate
  (`BuffersAssumption`).

Collision-freedom of HMAC is not assumed of a constant: it is the shape of the table in
`Rfc6979`, where a question is the name of its output. An HMAC whose *octets* repeat is
allowed and proved about.

Nothing about the group's arithmetic is assumed beyond the above. That inverses mod a
prime exist, that every point has order dividing N, that the group is commutative and
that multiples add and multiply are proved (`PrimeHasInverses`, `EveryPointHasOrder`,
`GroupAddCommutes`, `GroupMulAdd`, `GroupMulMul`): the group is cyclic by the contract,
so every point is a multiple of G.

### Argument

*Induction.* The library's induction theorems take an operator, which no prover here
instantiates. `NatInductionSet` puts induction as a set: a set of naturals with 0 and
closed under successor is Nat, from the least element of a well-founded set. Loops are
functions on an interval (`Times`, `Stream`, the ladder's accumulators), whose defining
equation is proved once (`MultiplesStep`, `LadderExists`, `PassesExist`,
`StreamIsGrown`), and a property of the i-th value is proved of the set of all i for
which it holds.

*Ladder and Shamir's trick.* The invariant is the prefix: after i bits the accumulator
represents `GroupMul(scalar \div 2^left, base)`, and for the verifier the sum of two
such multiples. A doubling and an addition shift in one bit (`LadderStepRepresents`,
`ShamirStepRepresents`), and this holds through the identity and equal or opposite
operands because the assumptions are about all pairs. With no bit left the prefix is the
scalar. `BlindedMultiple` removes r n, since N times a point is the identity;
`BlindPointRepresents` removes lambda, since the triple scaled is the same point.

*Ecdh.* `IInv` says, at each `pc`, which gates the call has passed, that `out` is zero from
`cleared` to the masked write, and that on the ladder the accumulator is the prefix.
`FailureLeavesZero` is not inductive alone: that a failure after the ladder writes zero
rests on the scalar's range being what `valid` accumulates, which `Locals` carries.

*Verify.* `IInv` carries the prefix through the loop and, at the end, that the result is
`Accepts`; `AcceptsTheSignatures` then turns u1 and u2 into the textbook relation
by inverting s mod n.

*Sign.* `ReleasedSignaturesVerify` needs that the cached key is the public key of d
(`HasKey`), that nothing is in the buffers but the call's own arguments until the
arithmetic writes them (`Untouched`) or `Erase` clears them, and what the call
owes at `check`, where a fault may have struck (`Answered`). That the answer of an unfaulted call
passes its own check is `AnswerPasses`: the algebra of ECDSA, R = kG against
u1 G + u2 Q. For `ImplementsSigner` every action but `Release`, `Withhold` and the
refusals is a stutter.

*Traits.* `Made` (what a signer trait returned is a whole signature under the key of d)
travels from `signed` to the verification, and the fixed-width pair is cut where it was
joined.

*Kem.* `MaskUsedOnce` is not inductive: that no ladder has run when a thread is
on one depends on the flag having been set by that very thread. `OneUse` says which
three states a key can be in (fresh, on exactly one thread's ladder, used once) and
ties the flag to the history. It needs `JobsSound` (a thread at `claim` or `ladder`
is on a live key, under `BLIND` it got there through `claim`, and its ciphertext
was validated, which is what makes the ladder succeed and `yields` follow `runs`)
and `KeysSound` (a live key was built from an accepted scalar; one thread at a time
builds into a place, so that publishing never replaces a key). `Provenance` follows the
fields of a key and every secret in transit back to the scalar they came from, and with
it `SecretsAgree` is commutativity of multiples. `TypeStep`, `JobsStep`, `KeysStep`,
`OneUseStep`, `AssembledStep` and `ProvenanceStep` prove one conjunct each, action by
action; `Undisturbed` carries a thread's locals over a step of another. TLC checks this
`IInv` in `kem_blinded`. For the refinement, `BeginGenerate` to `DrawR` stutter,
`Publish` is `Issue`, the claim is `Claim`, and the ladder is `Yield`.

*Rfc6979.* `IInv` places the call: r candidates were dropped and f outputs of the next
have been read (`At`), the questions asked are a prefix of those of RFC 6979
(`Derivation`), and the octets of the candidate are the first f outputs one after the
other (`Filling`, `Testing`). No question of a call is asked twice because each but the
first is about the output before it, so that two equal ones would lead back to the
first. `NoncesAreApart` is the hard one: an output that two calls share is traced back, each
question to the output before it (`AboutTheLast`, `Lineage`), until both are at the
same place of their calls and at the two seedings, whose octets differ unless key,
reduced digest and added data agree (`SeedsTellInputsApart`, by cutting the flat string
at its known widths). Conversely calls with the same seeds ask the same questions,
read the same octets and stop at the same candidate.

*Two runs.* `SecretsDoNotSteer` compares two runs of one call. The proof gives the whole
trace as a function of the public arguments (`Branch`, `Whole`) and shows that each run
is on it, so that two runs with the same public arguments show the same.

*Buffers.* Everything still to be taken is harmless for the call (`FramesHarmless`, one
lemma for each list of slices).

What the proofs found. The calls of `MCEcdh` once had a slice without octets that
spelled a number, which the assumption on arguments refuses; `Rfc6979` had a control
state that nothing enters; and that a ladder succeeds, once assumed of the KEM's
constants, follows from the laws of the curve. None was about the code.

### Model-checked only

Liveness: `CallsReturn`, and the fairness of `OneShot` in `KeepsPromise`
(`KeepsPromiseSafely` is the rest). That no call is stuck before it returns (the
deadlock check). The two runs that show findings. The two formulas' completeness, for
the three curves above, and, on the multiples a call passes, in `verify` and `ecdh`.

## Not modelled

Timing, power and the layout of machine code: the assembly gate (`ct-driver`), the
cycle counts (`cyccnt-hardware`) and the negative controls of `ct-verify`, which
test the detectors and not the crate. Branches that a compiler introduces, which is
what those gates are for: the taint runs are about the branches of the source.
Zeroization of dropped values; the internals of `modmath` and `fixed_bigint` (field
operations are taken to be exact mod m, and are marked external in the map), of
HMAC and of the hashes, panics included; the memory model beyond the atomicity of
the swap; `hx`, which parses constants at compile time; the test suites and the
footprint examples, which have no logic of their own.

## Plan

The modules of the first plan are written: `Octets`, `Curve`, `Jacobian`, `Verify`,
`Rcb`, `EcdhOps`, `Ecdh`, `Kem`, `OneShot`, `VerifyOps`, `SignOps`, `Sign`, `Signer`,
`Rfc6979`, `Traits`, `Buffers`, `TaintSign`, `TaintEcdh`; and so are the proofs of their
safety. Left:

1. A theorem that `SignPrehashed` and `SignHedged` are what the actions of `Sign`
   compute, so that `Traits` rests on `Sign` by proof and not by reading.
2. `Traits` as an implementation of an abstract pair of signer and verifier.
3. A theorem that composes `Rfc6979` with `Sign`: the nonce of `Derive` is a value
   `FirstGoodCandidate` allows.
