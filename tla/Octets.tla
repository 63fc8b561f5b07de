------------------------------- MODULE Octets -------------------------------
(***************************************************************************)
(* Big-endian octet strings and the conversions the crate performs on      *)
(* them.  A slice &[u8] is a record [len, val]: its length and the integer *)
(* its octets spell, so that two slices of different length never compare  *)
(* equal.  The octet has BYTE_BITS bits (8 in the code; the runs use 2, so *)
(* that whole value spaces can be enumerated), the backend integer T has   *)
(* T_BYTES octets (size_of::<T>()), and no slice has more than SLICE_BYTES *)
(* octets (isize::MAX in the code).                                        *)
(***************************************************************************)
EXTENDS Integers

CONSTANTS BYTE_BITS, ELEM_BYTES, T_BYTES, SLICE_BYTES

ASSUME OctetsAssumption ==
  /\ BYTE_BITS \in Nat \ {0}
  /\ ELEM_BYTES \in Nat \ {0}
  \* const assert: "backend type narrower than the curve's field element"
  /\ T_BYTES \in Nat /\ T_BYTES >= ELEM_BYTES
  \* The scratch arrays of the crate are a few integers wide.
  /\ SLICE_BYTES \in Nat /\ SLICE_BYTES >= 4 * T_BYTES

\* The number of values of an n-octet string.
Width(n) == 2^(BYTE_BITS * n)

\* What exponentiation is, as far as the longest slice reaches.
LongestShift == BYTE_BITS * SLICE_BYTES

ASSUME PowersOfTwo ==
  /\ 2^0 = 1
  /\ \A n \in 0 .. LongestShift : 2^n \in Nat \ {0} /\ 2^(n + 1) = 2 * 2^n

\* Every n-octet slice.
Slices(n) == [len : {n}, val : 0 .. Width(n) - 1]

Empty == [len |-> 0, val |-> 0]

\* A slice of any length.
IsSlice(s) == s.len \in 0 .. SLICE_BYTES /\ s \in Slices(s.len)

\* &s[..k], for k <= s.len.
Prefix(s, k) == [len |-> k, val |-> s.val \div Width(s.len - k)]

\* a || b.
Concat(a, b) == [len |-> a.len + b.len, val |-> a.val * Width(b.len) + b.val]

\* from_be: the error branch (empty input, or wider than T) is mapped to zero.
FromBE(s) == IF s.len = 0 \/ s.len > T_BYTES THEN 0 ELSE s.val

\* to_be_ct into n octets: the n low-order octets of v; the rest is dropped.
ToBE(v, n) == [len |-> n, val |-> v % Width(n)]

\* bitlen_be of a string of n octets spelling v: leading zero octets, then the
\* leading zeros of the first non-zero octet, do not count.
BitLen(v, n) == CHOOSE k \in 0 .. BYTE_BITS * n :
                   v < 2^k /\ (k = 0 \/ 2^(k - 1) <= v)

\* Mutant: the octets are kept, the bits past nBits are not shifted out.
HashToScalarUnshifted(digest, nBits) ==
  LET nb == (nBits + BYTE_BITS - 1) \div BYTE_BITS
  IN  IF digest.len <= nBits \div BYTE_BITS THEN FromBE(digest) ELSE FromBE(Prefix(digest, nb))

\* hash_to_scalar: the leftmost min(bitlen(digest), nBits) bits of the digest.
HashToScalar(digest, nBits) ==
  LET nb     == (nBits + BYTE_BITS - 1) \div BYTE_BITS
      excess == nb * BYTE_BITS - nBits
  IN  IF digest.len <= nBits \div BYTE_BITS
      THEN FromBE(digest)
      ELSE FromBE(Prefix(digest, nb)) \div 2^excess
=============================================================================
