-------------------------------- MODULE Kem ---------------------------------
(***************************************************************************)
(* The ecdh module: key generation with its rejection loop and fallible    *)
(* RNG, encapsulation, and decapsulation on keys that threads share by     *)
(* reference.  A DecapsulationKey is Sync: try_decapsulate takes &self,    *)
(* and the only state it changes is the atomic flag `spent`.               *)
(*                                                                         *)
(* BLIND is the Blinding personality of the instantiation.  Work a thread  *)
(* does on its own stack (a ladder, a validation) is one step; what other  *)
(* threads can see in between (spent) has a step of its own.               *)
(***************************************************************************)
EXTENDS EcdhOps, FiniteSets

CONSTANTS
  Threads, Keys,  \* callers, and the places they keep decapsulation keys in
  BLIND,          \* TRUE: Blinded, FALSE: Unblinded
  ScalarDraws, LambdaDraws, RDraws,  \* what the RNG may fill a buffer with
  Garbage,        \* points that arrive from elsewhere, valid or not
  MaxEncaps,      \* bound: encapsulations made in one behaviour
  None

VARIABLES
  dk,       \* the decapsulation key in each place, None before it is generated
  spent,    \* its single-use guard
  pc, job,  \* where each thread is in the call it makes, and its locals
  wire,     \* the encapsulations made: ciphertext, peer, and the sender's secret
  outcome,  \* what each thread's latest try_decapsulate returned
  runs,     \* history: ladders run under the key's blinders
  yields    \* history: secrets such a key has released

vars == <<dk, spent, pc, job, wire, outcome, runs, yields>>

\* Array<u8, Sec1Size>: a ciphertext or an encapsulation key in transit.
Sec1Array == [len : {SEC1_BYTES}, tag : {2, 4}, x : Elem, y : Elem]

\* What can arrive: any point of the curve, and the garbage of the instance.
Arrivals == {Sec1(SEC1_BYTES, 4, pt[1], pt[2]) : pt \in FinitePoints} \cup Garbage

\* The fields of DecapsulationKey; the blinders are Empty until drawn, and
\* always under Unblinded, which hands the ladder none.
DecapsulationKey ==
  [scalar : ScalarDraws, blind : LambdaDraws \cup {Empty},
   scalarBlind : RDraws \cup {Empty}, ek : Arrivals]

\* verifying_key_sec1, as a function of the scalars for which it returns true.
PublicKey == [d \in {d \in ScalarDraws : HasPublicKey(d)} |-> VerifyingKey(d)]

\* ecdh_shared_x_ct, as a function of all the arguments a call can meet here.
LadderArgs ==
  {<<d, peer, l, r>> : d \in ScalarDraws, peer \in Arrivals,
                       l \in LambdaDraws \cup {Empty}, r \in RDraws \cup {Empty}}

Shared == [q \in LadderArgs |-> SharedX(q[1], q[2], q[3], q[4])]

KemConstants ==
  /\ BLIND \in BOOLEAN
  \* const assert: "Blinded ECDH backend must be exactly the curve's field width"
  /\ BLIND => T_BYTES = ELEM_BYTES
  /\ MaxEncaps \in Nat
  /\ ScalarDraws \subseteq Slices(ELEM_BYTES)
  /\ LambdaDraws \subseteq Slices(ELEM_BYTES)
  /\ RDraws \subseteq Slices(SCALAR_BLIND_BYTES)
  /\ Garbage \subseteq Sec1Array
  /\ None \notin DecapsulationKey

ASSUME KemAssumption == KemConstants

\* A thread's locals: the call, the key it is on (None for encapsulation), the
\* point it was given, and the key try_generate_from_rng is assembling.
Job == [op : {"generate", "encapsulate", "decapsulate"}, key : Keys \cup {None},
        point : Arrivals \cup {None}, made : DecapsulationKey \cup {None}]

NoJob == [op |-> "generate", key |-> None, point |-> None, made |-> None]
NoOutcome == [key |-> None, ct |-> None, ok |-> FALSE, shared |-> None]

Live(k) == dk[k] # None

Call(t, op, key, point, at) ==
  /\ pc[t] = "idle"
  /\ pc' = [pc EXCEPT ![t] = at]
  /\ job' = [job EXCEPT ![t] = [op |-> op, key |-> key, point |-> point, made |-> None]]

Return(t) ==
  /\ pc' = [pc EXCEPT ![t] = "idle"]
  /\ job' = [job EXCEPT ![t] = NoJob]

\* The blinders a ladder is given: the key's own, or none.
BlindOf(key) == IF BLIND THEN key.blind ELSE Empty
ScalarBlindOf(key) == IF BLIND THEN key.scalarBlind ELSE Empty

-----------------------------------------------------------------------------
(* DecapsulationKey::try_generate_from_rng                                 *)

Init ==
  /\ dk = [k \in Keys |-> None]
  /\ spent = [k \in Keys |-> FALSE]
  /\ pc = [t \in Threads |-> "idle"]
  /\ job = [t \in Threads |-> NoJob]
  /\ wire = {}
  /\ outcome = [t \in Threads |-> NoOutcome]
  /\ runs = [k \in Keys |-> 0]
  /\ yields = [k \in Keys |-> 0]

\* The key under construction is nobody else's: &mut, then returned by value.
BeginGenerate(t, k) ==
  /\ ~Live(k)
  /\ \A u \in Threads : ~(pc[u] # "idle" /\ job[u].op = "generate" /\ job[u].key = k)
  /\ Call(t, "generate", k, None, "scalar")
  /\ UNCHANGED <<dk, spent, wire, outcome, runs, yields>>

\* Mutant: the public key of another draw is left in the buffer.
AcceptScalarStale(t) ==
  /\ pc[t] = "scalar"
  /\ \E d, e \in DOMAIN PublicKey :
       job' = [job EXCEPT ![t].made =
                 [scalar |-> d, blind |-> Empty, scalarBlind |-> Empty, ek |-> PublicKey[e]]]
  /\ pc' = [pc EXCEPT ![t] = IF BLIND THEN "lambda" ELSE "built"]
  /\ UNCHANGED <<dk, spent, wire, outcome, runs, yields>>

\* The draw that ends the loop.  One out of range, or without a public key,
\* leaves the call where it was: the next fill overwrites the buffer.
AcceptScalar(t) ==
  /\ pc[t] = "scalar"
  /\ \E d \in DOMAIN PublicKey :
       job' = [job EXCEPT ![t].made =
                 [scalar |-> d, blind |-> Empty, scalarBlind |-> Empty, ek |-> PublicKey[d]]]
  /\ pc' = [pc EXCEPT ![t] = IF BLIND THEN "lambda" ELSE "built"]
  /\ UNCHANGED <<dk, spent, wire, outcome, runs, yields>>

DrawLambda(t) ==
  /\ pc[t] = "lambda"
  /\ \E l \in LambdaDraws : job' = [job EXCEPT ![t].made.blind = l]
  /\ pc' = [pc EXCEPT ![t] = "r"]
  /\ UNCHANGED <<dk, spent, wire, outcome, runs, yields>>

\* Mutant: the scalar blinder is filled to the width of a field element.
DrawRWide(t) ==
  /\ pc[t] = "r"
  /\ \E r \in LambdaDraws : job' = [job EXCEPT ![t].made.scalarBlind = r]
  /\ pc' = [pc EXCEPT ![t] = "built"]
  /\ UNCHANGED <<dk, spent, wire, outcome, runs, yields>>

DrawR(t) ==
  /\ pc[t] = "r"
  /\ \E r \in RDraws : job' = [job EXCEPT ![t].made.scalarBlind = r]
  /\ pc' = [pc EXCEPT ![t] = "built"]
  /\ UNCHANGED <<dk, spent, wire, outcome, runs, yields>>

\* Mutant: an error of the RNG while the blinders are drawn is swallowed.
RngErrorSwallowed(t) ==
  /\ pc[t] \in {"lambda", "r"} /\ job[t].op = "generate"
  /\ pc' = [pc EXCEPT ![t] = "built"]
  /\ UNCHANGED <<dk, spent, job, wire, outcome, runs, yields>>

\* Any of the three fills returns an error.  Encapsulation's RNG is infallible.
RngFails(t) ==
  /\ pc[t] \in {"scalar", "lambda", "r"} /\ job[t].op = "generate"
  /\ Return(t)
  /\ UNCHANGED <<dk, spent, wire, outcome, runs, yields>>

\* Ok(Self { .., spent: AtomicBool::new(false), .. })
Publish(t) ==
  /\ pc[t] = "built" /\ job[t].op = "generate"
  /\ dk' = [dk EXCEPT ![job[t].key] = job[t].made]
  /\ spent' = [spent EXCEPT ![job[t].key] = FALSE]
  /\ Return(t)
  /\ UNCHANGED <<wire, outcome, runs, yields>>

-----------------------------------------------------------------------------
(* EncapsulationKey::new and encapsulate_with_rng                          *)

\* The SEC1 bytes an encapsulator may import: a generated key's, or others.
KeyShares == {dk[k].ek : k \in {k \in Keys : Live(k)}} \cup Garbage

\* Cardinality bound on encapsulations made and under way.
Encapsulating == {t \in Threads : pc[t] # "idle" /\ job[t].op = "encapsulate"}

\* Mutant: TryKeyInit keeps the bytes without validating them.
BeginEncapsulateUnchecked(t, share) ==
  /\ Cardinality(wire) + Cardinality(Encapsulating) < MaxEncaps
  /\ Call(t, "encapsulate", None, share, "scalar")
  /\ UNCHANGED <<dk, spent, wire, outcome, runs, yields>>

\* The share passes TryKeyInit; the ephemeral is generated by the same loop.
BeginEncapsulate(t, share) ==
  /\ ValidPeer(share)
  /\ Cardinality(wire) + Cardinality(Encapsulating) < MaxEncaps
  /\ Call(t, "encapsulate", None, share, "scalar")
  /\ UNCHANGED <<dk, spent, wire, outcome, runs, yields>>

\* Mutant: the ladder is given the ephemeral's own point for a peer.
AgreeWithItself(t) ==
  /\ pc[t] = "built" /\ job[t].op = "encapsulate"
  /\ LET eph == job[t].made
         s   == Shared[<<eph.scalar, eph.ek, BlindOf(eph), ScalarBlindOf(eph)>>]
     IN  wire' = wire \cup {[ct |-> eph.ek, peer |-> job[t].point,
                             ok |-> s.ok, shared |-> s.out]}
  /\ Return(t)
  /\ UNCHANGED <<dk, spent, outcome, runs, yields>>

\* shared = x(e * peer) under the ephemeral's own blinders; ct = e * G.
Agree(t) ==
  /\ pc[t] = "built" /\ job[t].op = "encapsulate"
  /\ LET eph == job[t].made
         s   == Shared[<<eph.scalar, job[t].point, BlindOf(eph), ScalarBlindOf(eph)>>]
     IN  wire' = wire \cup {[ct |-> eph.ek, peer |-> job[t].point,
                             ok |-> s.ok, shared |-> s.out]}
  /\ Return(t)
  /\ UNCHANGED <<dk, spent, outcome, runs, yields>>

-----------------------------------------------------------------------------
(* TryDecapsulate::try_decapsulate                                         *)

Ciphertexts == {w.ct : w \in wire} \cup Garbage

BeginDecapsulate(t, k, ct) ==
  /\ Live(k)
  /\ Call(t, "decapsulate", k, ct, "validate")
  /\ outcome' = [outcome EXCEPT ![t] = NoOutcome]
  /\ UNCHANGED <<dk, spent, wire, runs, yields>>

Fail(t) ==
  /\ outcome' = [outcome EXCEPT ![t] = [NoOutcome EXCEPT !.key = job[t].key,
                                                         !.ct = job[t].point]]
  /\ Return(t)

\* Mutant: a malformed ciphertext gives the claim back.
RejectCiphertextUnclaims(t) ==
  /\ pc[t] = "validate" /\ ~ValidPeer(job[t].point)
  /\ spent' = [spent EXCEPT ![job[t].key] = FALSE]
  /\ Fail(t)
  /\ UNCHANGED <<dk, wire, runs, yields>>

\* A malformed ciphertext returns before the flag is touched.
RejectCiphertext(t) ==
  /\ pc[t] = "validate" /\ ~ValidPeer(job[t].point)
  /\ Fail(t)
  /\ UNCHANGED <<dk, spent, wire, runs, yields>>

\* Mutants: the key is claimed under both personalities; a key is claimed before
\* the ciphertext is validated; the claim is skipped.
AcceptCiphertextClaims(t) ==
  /\ pc[t] = "validate" /\ ValidPeer(job[t].point)
  /\ pc' = [pc EXCEPT ![t] = "claim"]
  /\ UNCHANGED <<dk, spent, job, wire, outcome, runs, yields>>

AcceptAnyCiphertext(t) ==
  /\ pc[t] = "validate"
  /\ pc' = [pc EXCEPT ![t] = IF BLIND THEN "claim" ELSE "ladder"]
  /\ UNCHANGED <<dk, spent, job, wire, outcome, runs, yields>>

AcceptCiphertextUnclaimed(t) ==
  /\ pc[t] = "validate" /\ ValidPeer(job[t].point)
  /\ pc' = [pc EXCEPT ![t] = "ladder"]
  /\ UNCHANGED <<dk, spent, job, wire, outcome, runs, yields>>

AcceptCiphertext(t) ==
  /\ pc[t] = "validate" /\ ValidPeer(job[t].point)
  /\ pc' = [pc EXCEPT ![t] = IF BLIND THEN "claim" ELSE "ladder"]
  /\ UNCHANGED <<dk, spent, job, wire, outcome, runs, yields>>

\* Mutant: a load where the swap is; the flag is never stored.
ClaimByLoad(t) ==
  /\ pc[t] = "claim" /\ ~spent[job[t].key]
  /\ pc' = [pc EXCEPT ![t] = "ladder"]
  /\ UNCHANGED <<dk, spent, job, wire, outcome, runs, yields>>

\* spent.swap(true) returned false: the ladder is this thread's.
Claim(t) ==
  /\ pc[t] = "claim" /\ ~spent[job[t].key]
  /\ spent' = [spent EXCEPT ![job[t].key] = TRUE]
  /\ pc' = [pc EXCEPT ![t] = "ladder"]
  /\ UNCHANGED <<dk, job, wire, outcome, runs, yields>>

\* Mutants: a refused caller puts the flag back; it waits for the flag to clear.
RefuseSpentRestores(t) ==
  /\ pc[t] = "claim" /\ spent[job[t].key]
  /\ spent' = [spent EXCEPT ![job[t].key] = FALSE]
  /\ Fail(t)
  /\ UNCHANGED <<dk, wire, runs, yields>>

RefuseSpentWaits(t) ==
  pc[t] = "claim" /\ spent[job[t].key] /\ UNCHANGED vars

\* spent.swap(true) returned true.
RefuseSpent(t) ==
  /\ pc[t] = "claim" /\ spent[job[t].key]
  /\ Fail(t)
  /\ UNCHANGED <<dk, spent, wire, runs, yields>>

Ladder(t) ==
  /\ pc[t] = "ladder"
  /\ LET k == job[t].key
         s == Shared[<<dk[k].scalar, job[t].point, BlindOf(dk[k]), ScalarBlindOf(dk[k])>>]
     IN  /\ outcome' = [outcome EXCEPT ![t] =
                          [key |-> k, ct |-> job[t].point, ok |-> s.ok,
                           shared |-> IF s.ok THEN s.out ELSE None]]
         /\ runs' = [runs EXCEPT ![k] = IF BLIND THEN @ + 1 ELSE @]
         /\ yields' = [yields EXCEPT ![k] = IF BLIND /\ s.ok THEN @ + 1 ELSE @]
  /\ Return(t)
  /\ UNCHANGED <<dk, spent, wire>>

-----------------------------------------------------------------------------

\* The steps of a call a thread is in, an error of its RNG excepted.
Advance(t) ==
  \/ AcceptScalar(t) \/ DrawLambda(t) \/ DrawR(t) \/ Publish(t) \/ Agree(t)
  \/ RejectCiphertext(t) \/ AcceptCiphertext(t)
  \/ Claim(t) \/ RefuseSpent(t) \/ Ladder(t)

Begin(t) ==
  \/ \E k \in Keys : BeginGenerate(t, k)
  \/ \E share \in KeyShares : BeginEncapsulate(t, share)
  \/ \E k \in Keys, ct \in Ciphertexts : BeginDecapsulate(t, k, ct)

Next == \E t \in Threads : Begin(t) \/ Advance(t) \/ RngFails(t)

\* A thread in a call is scheduled, and an RNG asked again and again yields a
\* scalar in range ("a draw qualifies with probability >= 1/2").  Nothing is
\* assumed of calls not yet begun, and nothing forces the RNG to fail.
Fairness == \A t \in Threads : WF_vars(Advance(t))

Spec == Init /\ [][Next]_vars /\ Fairness

-----------------------------------------------------------------------------
(* Properties                                                              *)

PCs == {"idle", "scalar", "lambda", "r", "built", "validate", "claim", "ladder"}

Outcome == [key : Keys \cup {None}, ct : Arrivals \cup {None}, ok : BOOLEAN,
            shared : Slices(ELEM_BYTES) \cup {None}]

TypeOK ==
  /\ dk \in [Keys -> DecapsulationKey \cup {None}]
  /\ spent \in [Keys -> BOOLEAN]
  /\ pc \in [Threads -> PCs]
  /\ job \in [Threads -> Job]
  /\ \A w \in wire : w.ct \in Arrivals
  /\ outcome \in [Threads -> Outcome]
  /\ runs \in [Keys -> Nat] /\ yields \in [Keys -> Nat]

\* The thread runs the ladder of key k.
OnLadder(t, k) == pc[t] = "ladder" /\ job[t].key = k

\* A Blinded key's (lambda, r) never masks two ladders, whatever threads share
\* the key and however their calls interleave: no thread is on the ladder of a
\* key that has run it, and no two are at once.
MaskUsedOnce ==
  BLIND => \A k \in Keys :
    /\ runs[k] <= 1
    /\ \A t \in Threads : OnLadder(t, k) => runs[k] = 0
    /\ \A t, u \in Threads : OnLadder(t, k) /\ OnLadder(u, k) => t = u

\* A spent key has released its secret, or a thread with a well-formed
\* ciphertext is on the ladder that will: a malformed ciphertext, a refused call
\* and a failing ladder never burn a key.
SpentKeyYields ==
  BLIND => \A k \in Keys : spent[k] =>
    \/ yields[k] = 1
    \/ \E t \in Threads : OnLadder(t, k) /\ ValidPeer(job[t].point)

\* A key that can be used or imported is d G for its own d in [1, n - 1], with
\* both blinders drawn exactly when the personality is Blinded; keys whose
\* generation failed part-way are never seen.
KeysAreWhole ==
  \A k \in Keys : Live(k) =>
    /\ dk[k].scalar.val \in Scalar
    /\ <<dk[k].ek.x, dk[k].ek.y>> = GroupMul(dk[k].scalar.val, G)
    /\ (dk[k].blind # Empty) = BLIND /\ (dk[k].scalarBlind # Empty) = BLIND

\* encapsulate_with_rng has no error channel: "a zeroed `shared` is never
\* returned as valid".
EncapsulationSucceeds == \A w \in wire : w.ok

\* A decapsulation that succeeds on a ciphertext made for its key returns the
\* secret the encapsulator holds, through different blinders on the two sides.
SecretsAgree ==
  \A t \in Threads, w \in wire :
    LET o == outcome[t]
    IN  o.ok /\ o.ct = w.ct /\ dk[o.key].ek = w.peer => o.shared = w.shared

\* The caller of a well-formed ciphertext is refused only by a Blinded key that
\* is spent: no other call, no race and no ladder makes one fail.
RefusalsAreJust ==
  \A t \in Threads :
    LET o == outcome[t]
    IN  o.key # None /\ ~o.ok => ~ValidPeer(o.ct) \/ (BLIND /\ spent[o.key])

\* A spent key stays spent and a generated key is never replaced in its place.
KeysAreForGood ==
  [][\A k \in Keys : Live(k) => dk'[k] = dk[k] /\ (spent[k] => spent'[k])]_vars

\* Every call returns: rejection sampling, the validation, the claim and the
\* ladder never leave a caller waiting for another.
CallsReturn == \A t \in Threads : pc[t] # "idle" ~> pc[t] = "idle"

\* The promise of a Blinded key: module OneShot.
Promise == INSTANCE OneShot WITH
  issued  <- {k \in Keys : Live(k)},
  claimed <- {k \in Keys : spent[k]}
KeepsPromise == Promise!Spec

-----------------------------------------------------------------------------
(* The inductive invariant behind the properties above                     *)

Building == {"scalar", "lambda", "r", "built"}
Decapsulating == {"validate", "claim", "ladder"}
Generating(t, k) == pc[t] \in Building /\ job[t].op = "generate" /\ job[t].key = k

\* A key whose scalar was accepted.
Sound(key) ==
  /\ key \in DecapsulationKey
  /\ key.scalar \in DOMAIN PublicKey
  /\ ValidPeer(key.ek)

\* What a thread's locals hold at each point of its call.
JobSound(t) ==
  /\ pc[t] \in Building =>
       /\ job[t].op \in {"generate", "encapsulate"}
       /\ job[t].op = "generate" => job[t].key \in Keys /\ ~Live(job[t].key)
       /\ job[t].op = "encapsulate" => job[t].point \in Arrivals /\ ValidPeer(job[t].point)
  /\ pc[t] \in Building \ {"scalar"} => Sound(job[t].made)
  /\ pc[t] \in Decapsulating =>
       /\ job[t].op = "decapsulate"
       /\ job[t].key \in Keys /\ Live(job[t].key)
       /\ job[t].point \in Arrivals
  /\ pc[t] \in {"claim", "ladder"} => ValidPeer(job[t].point)
  /\ pc[t] = "claim" => BLIND

JobsSound == \A t \in Threads : JobSound(t)

\* Every key that exists is sound, and one thread at a time makes a key.
KeysSound ==
  /\ \A k \in Keys : Live(k) => Sound(dk[k])
  /\ \A k \in Keys : \A t, u \in Threads : Generating(t, k) /\ Generating(u, k) => t = u

\* The flag, the ladder under way and the history of a Blinded key go together:
\* fresh (not spent, nothing run), on one thread's ladder, or used once.
OneUse ==
  BLIND => \A k \in Keys :
    /\ ~Live(k) => ~spent[k]
    /\ yields[k] = runs[k]
    /\ ~spent[k] => runs[k] = 0 /\ \A t \in Threads : ~OnLadder(t, k)
    /\ spent[k] => \/ runs[k] = 1 /\ \A t \in Threads : ~OnLadder(t, k)
                   \/ runs[k] = 0 /\ \E t \in Threads : \A u \in Threads : OnLadder(u, k) <=> u = t

\* The key under construction holds the public key of its own scalar, and the
\* blinders its personality asks for, as far as it has drawn them.
Assembled(t) ==
  LET key == job[t].made
  IN  /\ pc[t] \in Building \ {"scalar"} => key.ek = PublicKey[key.scalar]
      /\ pc[t] \in {"lambda", "r"} => BLIND
      /\ pc[t] = "r" => key.blind # Empty
      /\ pc[t] = "built" => (key.blind # Empty) = BLIND /\ (key.scalarBlind # Empty) = BLIND

\* What scalar d and a peer's point agree on, as octets.
Secret(d, point) == ToBE(GroupMul(d.val, <<point.x, point.y>>)[1], ELEM_BYTES)

\* Where keys, encapsulations and released secrets come from.
Provenance ==
  /\ \A t \in Threads : Assembled(t)
  /\ \A k \in Keys : Live(k) =>
       /\ dk[k].ek = PublicKey[dk[k].scalar]
       /\ (dk[k].blind # Empty) = BLIND /\ (dk[k].scalarBlind # Empty) = BLIND
  /\ \A w \in wire :
       /\ ValidPeer(w.peer)
       /\ \E d \in DOMAIN PublicKey : w.ct = PublicKey[d] /\ w.shared = Secret(d, w.peer)
  /\ \A t \in Threads : outcome[t].ok =>
       /\ outcome[t].key \in Keys /\ Live(outcome[t].key)
       /\ outcome[t].shared = Secret(dk[outcome[t].key].scalar, outcome[t].ct)

IInv == TypeOK /\ JobsSound /\ KeysSound /\ OneUse /\ Provenance
=============================================================================
