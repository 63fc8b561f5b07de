----------------------------- MODULE MCTaintSign -----------------------------
(***************************************************************************)
(* The fixtures' calls: every public argument with one secret, which the   *)
(* second run replaces by every other of the element width.  Equality of   *)
(* traces is transitive, so one secret to compare with is enough.          *)
(***************************************************************************)
EXTENDS TaintSign

Octets(n, v) == [len |-> n, val |-> v]

SomeSecret == Octets(ELEM_BYTES, 3)
MCBlinds == {Empty} \cup {Octets(ELEM_BYTES, v) : v \in {0, 1, P, Width(ELEM_BYTES) - 1}}
MCSBlinds == {Empty} \cup Slices(SCALAR_BLIND_BYTES)

Digests == {Empty, Octets(1, 2), Octets(2, 14), Octets(3, 27)}

MCCalls ==
  [entry : {"with_k"}, d : {SomeSecret}, digest : Digests, k : {SomeSecret},
   blind : MCBlinds \cup {Octets(1, 1)}, sblind : MCSBlinds,
   outR : {Zeros(ELEM_BYTES)}, outS : {Zeros(ELEM_BYTES), Zeros(1)}]
  \cup
  [entry : {"raw"}, d : {SomeSecret}, digest : Digests, k : {Empty},
   blind : {Empty}, sblind : {Empty},
   outR : {Zeros(ELEM_BYTES)}, outS : {Zeros(ELEM_BYTES)}]
=============================================================================
