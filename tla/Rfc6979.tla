------------------------------ MODULE Rfc6979 --------------------------------
(***************************************************************************)
(* derive_nonce_rfc6979_ct_added and the generator under it,               *)
(* rfc6979_nonce: a sequence of calls, each with its own K and V.          *)
(*                                                                         *)
(* HMAC is symbolic.  Its outputs are named by their place in the table of *)
(* the questions asked so far, so that one question has one answer and two *)
(* questions never the same; the messages are octet strings, so that what  *)
(* is concatenated can be confused.  The octets of an output are chosen    *)
(* when the generator first turns it into a candidate.                     *)
(***************************************************************************)
EXTENDS VerifyOps, Sequences

CONSTANTS
  Calls,      \* the arguments [hlen, d, digest, added, out] of the calls
  Outputs,    \* for each hlen, the octets an HMAC output may have
  MAX_HLEN,
  MaxCalls,   \* bounds the calls of a behaviour
  MaxTries    \* bounds the candidates of a call

\* A hash of any length, and four slices.
CallShape(c) ==
  /\ c = [hlen |-> c.hlen, d |-> c.d, digest |-> c.digest, added |-> c.added, out |-> c.out]
  /\ c.hlen \in Nat \ {0} /\ Outputs[c.hlen] \subseteq Slices(c.hlen)
  /\ IsSlice(c.d) /\ IsSlice(c.digest) /\ IsSlice(c.added) /\ IsSlice(c.out)

ASSUME RfcAssumption ==
  /\ Calls # {} /\ \A c \in Calls : CallShape(c)
  \* An element and an output together are far shorter than the longest slice.
  /\ MAX_HLEN \in Nat /\ ELEM_BYTES + MAX_HLEN <= SLICE_BYTES
  /\ MaxCalls \in Nat /\ MaxTries \in Nat

VARIABLES
  pc,       \* "idle", "entry", "seed1", "fill", "test"
  call,     \* the arguments
  K, V,     \* the generator's state: names of outputs, Initial at first
  t,        \* the octets of the candidate assembled so far
  asked,    \* history: the questions of this call, in order
  read,     \* history: the outputs whose octets this call has used
  oracle,   \* history: every question asked, and its output's octets
  done      \* history: what the calls so far were and returned

vars == <<pc, call, K, V, t, asked, read, oracle, done>>

\* K is hlen octets 0x00 and V hlen octets 0x01.
Initial == 0

Octet(v) == [len |-> 1, val |-> v]

-----------------------------------------------------------------------------
(* HMAC_key(v || tail)                                                     *)

Question(hlen, key, v, tail) == [hlen |-> hlen, key |-> key, v |-> v, tail |-> tail]

Name(table, q) == CHOOSE j \in DOMAIN table : table[j].question = q

\* The table once q has been asked; octets are its output's, if it is new.
Ask(table, q, octets) ==
  IF \E j \in DOMAIN table : table[j].question = q THEN table
  ELSE Append(table, [question |-> q, octets |-> octets])

\* Mutant: V is not refreshed under the new K.
UpdateKOnly(tail) ==
  LET q == Question(call.hlen, K, V, tail)
  IN  /\ oracle' = Ask(oracle, q, Empty)
      /\ K' = Name(oracle', q) /\ V' = V
      /\ asked' = Append(asked, K')

\* K = HMAC_K(V || tail), V = HMAC_K(V).
UpdateKV(tail) ==
  LET q     == Question(call.hlen, K, V, tail)
      table == Ask(oracle, q, Empty)
      key   == Name(table, q)
      qv    == Question(call.hlen, key, V, Empty)
  IN  /\ oracle' = Ask(table, qv, Empty)
      /\ K' = key /\ V' = Name(oracle', qv)
      /\ asked' = asked \o <<K', V'>>

-----------------------------------------------------------------------------

\* Mutant: the residue is written without its leading zero octets.
H1Short(digest) ==
  LET e == DigestScalar(digest)
  IN  ToBE(e, CHOOSE n \in 1 .. ELEM_BYTES :
                e < Width(n) /\ (n = 1 \/ e >= Width(n - 1)))

\* h1 = int2octets(bits2int(digest) mod n), exactly eb octets.
H1(digest) == ToBE(DigestScalar(digest), ELEM_BYTES)

\* 0x00 or 0x01, then x || h1 || added.
SeedOctets(first) ==
  Concat(Concat(Concat(Octet(first), call.d), H1(call.digest)), call.added)

\* Mutant: n itself passes.
InRangeOrN(cand) == cand \in 1 .. N

\* The predicate 1 <= cand < n handed to the generator.
InRange(cand) == cand # 0 /\ cand < N

WellShapedCall ==
  call.d.len = ELEM_BYTES /\ call.out.len = ELEM_BYTES /\ call.digest.len # 0

Return(ok, out) ==
  /\ done' = Append(done, [call |-> call, ok |-> ok, out |-> out,
                           asked |-> asked, read |-> read])
  /\ pc' = "idle"

Init ==
  /\ pc = "idle" /\ call = CHOOSE c \in Calls : TRUE
  /\ K = Initial /\ V = Initial /\ t = Empty
  /\ asked = <<>> /\ read = <<>> /\ oracle = <<>> /\ done = <<>>

Begin ==
  /\ pc = "idle" /\ Len(done) < MaxCalls
  /\ call' \in Calls
  /\ K' = Initial /\ V' = Initial /\ t' = Empty
  /\ asked' = <<>> /\ read' = <<>>
  /\ pc' = "entry"
  /\ UNCHANGED <<oracle, done>>

\* Wrong lengths, an empty digest, or a hash wider than the buffers: out_k is
\* left as it came.
Reject ==
  /\ pc = "entry" /\ ~(WellShapedCall /\ call.hlen <= MAX_HLEN)
  /\ Return(FALSE, call.out)
  /\ UNCHANGED <<call, K, V, t, asked, read, oracle>>

\* The first seeding, with the octet 0x00.
Seed0 ==
  /\ pc = "entry" /\ WellShapedCall /\ call.hlen <= MAX_HLEN
  /\ UpdateKV(SeedOctets(0))
  /\ pc' = "seed1"
  /\ UNCHANGED <<call, t, read, done>>

\* The second, with 0x01.
Seed1 ==
  /\ pc = "seed1"
  /\ UpdateKV(SeedOctets(1))
  /\ t' = Empty
  /\ pc' = "fill"
  /\ UNCHANGED <<call, read, done>>

\* Mutant: a whole output is taken, whatever is left of the candidate.
TakeWhole == call.hlen

\* take = min(hlen, eb - tlen).
Take == IF call.hlen < ELEM_BYTES - t.len THEN call.hlen ELSE ELEM_BYTES - t.len

\* One pass of the inner loop: V = HMAC_K(V), its first octets go to t.
Fill ==
  /\ pc = "fill"
  /\ \E octets \in Outputs[call.hlen] :
       LET q == Question(call.hlen, K, V, Empty)
       IN  /\ oracle' = Ask(oracle, q, octets)
           /\ V' = Name(oracle', q)
           \* one choice for a question asked before
           /\ oracle' = oracle => octets = oracle[V'].octets
  /\ t' = Concat(t, Prefix(oracle'[V'].octets, Take))
  /\ asked' = Append(asked, V') /\ read' = Append(read, V')
  /\ pc' = IF t'.len < ELEM_BYTES THEN "fill" ELSE "test"
  /\ UNCHANGED <<call, K, done>>

\* The candidate t[..eb].
Cand == HashToScalar(t, NBits)

\* A candidate in range is the nonce, valid or not as d is.
Accept ==
  /\ pc = "test" /\ InRange(Cand)
  /\ Return(InRange(FromBE(call.d)), ToBE(Cand, ELEM_BYTES))
  /\ UNCHANGED <<call, K, V, t, asked, read, oracle>>

Tries == Len(read) \div ((ELEM_BYTES + call.hlen - 1) \div call.hlen)

\* One out of range is dropped: K = HMAC_K(V || 0x00), V = HMAC_K(V).
Reseed ==
  /\ pc = "test" /\ ~InRange(Cand) /\ Tries < MaxTries
  /\ UpdateKV(Octet(0))
  /\ t' = Empty
  /\ pc' = "fill"
  /\ UNCHANGED <<call, read, done>>

\* The calls are over, or a bound of the model is reached.
Over ==
  /\ \/ pc = "idle" /\ Len(done) = MaxCalls
     \/ pc = "test" /\ ~InRange(Cand) /\ Tries = MaxTries
  /\ UNCHANGED vars

Next == Begin \/ Reject \/ Seed0 \/ Seed1 \/ Fill \/ Accept \/ Reseed \/ Over

Spec == Init /\ [][Next]_vars

-----------------------------------------------------------------------------
(* Properties                                                              *)

\* The state names outputs of the table, and a candidate never outgrows the width
\* of an element.
TypeOK ==
  /\ pc \in {"idle", "entry", "seed1", "fill", "test"}
  /\ {K, V} \subseteq 0 .. Len(oracle)
  /\ t.len \in 0 .. ELEM_BYTES /\ t.val \in 0 .. Width(t.len) - 1
  /\ \A j \in DOMAIN asked : asked[j] \in DOMAIN oracle
  /\ \A j \in DOMAIN read : read[j] \in DOMAIN oracle
  /\ Len(done) <= MaxCalls

(* RFC 6979, section 3.2, as a reference.                                  *)

\* Outputs per candidate, ceil(eb / hlen).
Blocks(hlen) == (ELEM_BYTES + hlen - 1) \div hlen

\* The m-th run of outputs, as it grows.
Stream(table, hlen, outputs, m) ==
  LET c == Blocks(hlen)
      T[j \in 0 .. c] ==
        IF j = 0 THEN Empty ELSE Concat(T[j - 1], table[outputs[(m - 1) * c + j]].octets)
  IN  T

\* bits2int of all its octets: the leftmost qlen bits.
Candidate(hlen, outputs, m) ==
  LeftmostBits(Stream(oracle, hlen, outputs, m)[Blocks(hlen)], NBits)

E(digest) == LeftmostBits(digest, NBits) % N

SeedOf(first, c) ==
  Concat(Concat(Concat(Octet(first), c.d), ToBE(E(c.digest), ELEM_BYTES)), c.added)

\* The m-th question of the derivation c, from the outputs a of those before it: two
\* seedings, then runs of Blocks(hlen) outputs with a reseeding between them.
Expected(c, a, m) ==
  LET n     == Blocks(c.hlen)
      j     == (m - 5) % (n + 2)
      \* the output that is K while the m-th question is asked
      keyAt == a[m - j - 2]
  IN CASE m = 1 -> Question(c.hlen, Initial, Initial, SeedOf(0, c))
       [] m = 2 -> Question(c.hlen, a[1], Initial, Empty)
       [] m = 3 -> Question(c.hlen, a[1], a[2], SeedOf(1, c))
       [] m = 4 -> Question(c.hlen, a[3], a[2], Empty)
       [] m > 4 /\ j < n     -> Question(c.hlen, keyAt, a[m - 1], Empty)
       [] m > 4 /\ j = n     -> Question(c.hlen, keyAt, a[m - 1], Octet(0))
       [] m > 4 /\ j = n + 1 -> Question(c.hlen, a[m - 1], a[m - 2], Empty)

\* The generator asks its HMAC exactly the questions of the RFC, in its order,
\* and never the same twice: no rejected candidate comes back.
FollowsTheRfc ==
  /\ \A m \in DOMAIN asked : oracle[asked[m]].question = Expected(call, asked, m)
  /\ \A m, l \in DOMAIN asked : asked[m] = asked[l] => m = l

\* The nonce is the first candidate in [1, n - 1], whatever the length of the hash:
\* every candidate before it was out of range, none is used in part, and only the
\* value returned depends on d being in range.  A refused call writes nothing.
FirstGoodCandidate ==
  \A r \in {done[j] : j \in DOMAIN done} :
    LET c     == Blocks(r.call.hlen)
        tries == Len(r.read) \div c
    IN  IF r.read = <<>> THEN ~r.ok /\ r.out = r.call.out
        ELSE /\ Len(r.read) = tries * c
             /\ \A m \in 1 .. tries - 1 : Candidate(r.call.hlen, r.read, m) \notin Scalar
             /\ Candidate(r.call.hlen, r.read, tries) \in Scalar
             /\ r.out = ToBE(Candidate(r.call.hlen, r.read, tries), ELEM_BYTES)
             /\ r.ok <=> r.call.d.val \in Scalar

SameInputs(c1, c2) ==
  c1.d = c2.d /\ E(c1.digest) = E(c2.digest) /\ c1.added = c2.added

\* Two derivations with one hash share an output of the HMAC only when key, digest
\* (mod n) and added data agree, and then they return the same nonce: a nonce never
\* meets a second message, and an RNG that repeats itself costs only the hedge.
NoncesAreApart ==
  \A r, s \in {done[j] : j \in {i \in DOMAIN done : done[i].read # <<>>}} :
    r.call.hlen = s.call.hlen =>
      LET shared == \E j \in DOMAIN r.read, l \in DOMAIN s.read : r.read[j] = s.read[l]
      IN  /\ shared <=> SameInputs(r.call, s.call)
          /\ shared => r.out = s.out
=============================================================================
