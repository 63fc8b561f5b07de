------------------------------- MODULE MCEcdh -------------------------------
(***************************************************************************)
(* The calls the ECDH core is checked with: a first run with one secret,   *)
(* which the second replaces by every other of the element width.          *)
(* Equality of traces is transitive, so one secret to compare with is      *)
(* enough.  Every call starts with a buffer that holds an earlier value.   *)
(***************************************************************************)
EXTENDS TaintEcdh

Octets(n, v) == [len |-> n, val |-> v]

\* Zero and a multiple of p among the coordinate blinders (the guard), the
\* largest element (not reduced), and none.
MCBlinds == {Empty} \cup {Octets(ELEM_BYTES, v) : v \in {0, 1, 5, P, Width(ELEM_BYTES) - 1}}

MCScalarBlinds == {Empty} \cup Slices(SCALAR_BLIND_BYTES)

SomeSecret == Octets(ELEM_BYTES, 3)

MCOut == Octets(ELEM_BYTES, 9)

ValidPeerCalls ==
  [d : {SomeSecret},
   peer : {Sec1(SEC1_BYTES, 4, pt[1], pt[2]) : pt \in FinitePoints},
   blind : MCBlinds, scalarBlind : MCScalarBlinds, out : {MCOut}]

\* Any coordinates and prefix.
PeerCalls ==
  [d : {SomeSecret},
   peer : {Sec1(len, tag, x, y) : len \in {SEC1_BYTES - 1, SEC1_BYTES}, tag \in {2, 4},
                                  x \in Elem, y \in Elem},
   blind : {Empty}, scalarBlind : {Empty}, out : {MCOut}]

\* Every wrong length, of every argument.
ShapeCalls ==
  [d : {Empty, Octets(ELEM_BYTES, 3), Octets(ELEM_BYTES + 1, 3)},
   peer : {Sec1(SEC1_BYTES, 4, GX, GY)},
   blind : {Empty, Octets(1, 1), Octets(ELEM_BYTES, 1), Octets(ELEM_BYTES + 1, 1)},
   scalarBlind : {Empty, Octets(SCALAR_BLIND_BYTES, 1), Octets(SCALAR_BLIND_BYTES + 1, 1)},
   out : {MCOut, Octets(ELEM_BYTES + 1, 9), Octets(1, 1)}]

MCCalls == ValidPeerCalls \cup PeerCalls \cup ShapeCalls
=============================================================================
