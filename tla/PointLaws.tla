----------------------------- MODULE PointLaws ------------------------------
(***************************************************************************)
(* The mathematics the crate takes for granted, as assumptions: chord and  *)
(* tangent make a group, and the two sets of point formulas compute it.    *)
(* The last is what the crate's own sources (Renes, Costello and Batina;   *)
(* the EFD) prove of a formula, over any field; TLC evaluates all of them  *)
(* for the curves of the runs that extend this module.                     *)
(***************************************************************************)
EXTENDS Rcb, Jacobian

ASSUME GroupAssumption ==
  /\ \A p, q \in Points : GroupAdd(p, q) \in Points
  /\ \A p, q, r \in Points : GroupAdd(GroupAdd(p, q), r) = GroupAdd(p, GroupAdd(q, r))

\* The triples that stand for a point: (x : y : z), the identity as (0 : y : 0).
Triples == {pt \in PointCt : RcbAffine(pt) \in Points /\ (pt.z = 0 => pt.x = 0 /\ pt.y # 0)}

\* One formula for all operands: equal, opposite, the identity.
ASSUME CompleteAddition ==
  \A p, q \in Triples :
    AddRcb(p, q) \in Triples /\ RcbAffine(AddRcb(p, q)) = GroupAdd(RcbAffine(p), RcbAffine(q))

\* The Jacobian triples that stand for a point.
JTriples == {pt \in JPoint : JAffine(pt) \in Points}

\* dbl-2007-bl doubles, and add with its exceptional cases adds.
ASSUME JacobianAddition ==
  /\ \A p \in JTriples :
       Double(p) \in JTriples /\ JAffine(Double(p)) = GroupAdd(JAffine(p), JAffine(p))
  /\ \A p, q \in JTriples :
       Add(p, q) \in JTriples /\ JAffine(Add(p, q)) = GroupAdd(JAffine(p), JAffine(q))
=============================================================================
