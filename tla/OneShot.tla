------------------------------ MODULE OneShot -------------------------------
(***************************************************************************)
(* What a Blinded decapsulation key promises its owner: once issued, it is *)
(* claimed by one use, and a claim yields one secret -- never two, and     *)
(* never none.                                                             *)
(***************************************************************************)
EXTENDS Naturals

CONSTANT Keys

VARIABLES
  issued,   \* the keys that exist
  claimed,  \* those whose one use has been taken
  yields    \* the number of secrets each has released

vars == <<issued, claimed, yields>>

Init == issued = {} /\ claimed = {} /\ yields = [k \in Keys |-> 0]

Issue(k) ==
  /\ k \notin issued
  /\ issued' = issued \cup {k}
  /\ UNCHANGED <<claimed, yields>>

Claim(k) ==
  /\ k \in issued \ claimed
  /\ claimed' = claimed \cup {k}
  /\ UNCHANGED <<issued, yields>>

Yield(k) ==
  /\ k \in claimed /\ yields[k] = 0
  /\ yields' = [yields EXCEPT ![k] = 1]
  /\ UNCHANGED <<issued, claimed>>

Next == \E k \in Keys : Issue(k) \/ Claim(k) \/ Yield(k)

Safety == Init /\ [][Next]_vars
Spec == Safety /\ \A k \in Keys : WF_vars(Yield(k))
=============================================================================
