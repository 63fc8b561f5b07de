------------------------------ MODULE MCRfc6979 ------------------------------
(***************************************************************************)
(* The calls the generator is checked with.  The hash is shorter than an   *)
(* element (dividing it or not), as long, longer, and too long.            *)
(***************************************************************************)
EXTENDS Rfc6979

Octets(n, v) == [len |-> n, val |-> v]

HashLengths == 1 .. MAX_HLEN + 1

EveryOutput == [h \in HashLengths |-> Slices(h)]

Digits(h) == Width(h) - 1

\* An output that may end in a rejected candidate, and one that does not.
SomeOutputs == [h \in HashLengths |-> {Octets(h, 0), Octets(h, Width(h) \div 2 - 1)}]

OwnBuffer == Octets(ELEM_BYTES, 5)

\* One call: every output, keys in and out of range, wrong shapes.
SingleCalls ==
  [hlen : HashLengths, d : {Octets(ELEM_BYTES, 3), Octets(ELEM_BYTES, N)},
   digest : {Octets(2, 14), Octets(4, 201)}, added : {Empty, Octets(1, 2)}, out : {OwnBuffer}]
  \cup
  [hlen : {2}, d : {Octets(ELEM_BYTES, 3), Octets(1, 3)}, digest : {Octets(2, 14), Empty},
   added : {Empty}, out : {OwnBuffer, Octets(1, 1)}]

\* Pairs of calls whose seeds could be confused: the same octets cut elsewhere,
\* digests equal and different mod n, the same entropy twice.
PairCalls ==
  [hlen : {2, 4}, d : {Octets(ELEM_BYTES, 3), Octets(ELEM_BYTES, 12)},
   digest : {Octets(1, 0), Octets(2, 1), Octets(3, 2 * N), Octets(2, 7)},
   added : {Empty, Octets(1, 3), Octets(2, 1)}, out : {OwnBuffer}]
=============================================================================
