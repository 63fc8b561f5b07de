------------------------------ MODULE MCBuffers ------------------------------
(***************************************************************************)
(* Every entry point for every width up to beyond the buffers, with orders *)
(* that end on an octet or inside one, backends narrower, equal and wider, *)
(* and hashes and digests on either side of the buffers they go to.        *)
(***************************************************************************)
EXTENDS Buffers

Widths == 1 .. 70

\* The length of the order in bits: of the top octet, all, one, or none.
OrderBits(eb) == {8 * eb, 8 * eb - 7, 8 * (eb - 1)}

CallsOf(eb) ==
  [entry : Entries, eb : {eb}, nbits : OrderBits(eb) \ {0}, size : {eb - 1, eb, eb + 1},
   blinded : BOOLEAN, hlen : {32, MAX_HLEN, MAX_HLEN + 1}, digest : {1, eb, MAX_HLEN + 1}]

MCCalls == Audited \cup (UNION {CallsOf(eb) : eb \in Widths} \cap CallShape)

\* P-521: 66 octets, an order of 521 bits, a backend of exactly that width.
P521Calls == {c \in CallsOf(66) \cap CallShape : c.nbits = 521 /\ c.size = 66 /\ c.blinded}
=============================================================================
