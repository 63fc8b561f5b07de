------------------------------- MODULE Signer --------------------------------
(***************************************************************************)
(* What a signer promises its caller: one answer, which is either a        *)
(* signature for the request or nothing, and which is final.  When it is   *)
(* nothing, a signer that checks its own output leaves nothing behind: no  *)
(* half-made signature, and none of an earlier request.                    *)
(***************************************************************************)
CONSTANTS
  IsGood(_, _),   \* is the second argument a signature for the first?
  Checks(_)       \* does the signer check its output on this request?

VARIABLES
  request,   \* what is to be signed, and by whom
  open,      \* the request has not been answered
  released,  \* the signatures given out: none, or one
  spotless   \* nothing is left in the caller's buffers

vars == <<request, open, released, spotless>>

Init == open = TRUE /\ released = {}

\* Before the answer, the buffers belong to the signer.
Work == open /\ open' /\ UNCHANGED <<request, released>>

Sign ==
  /\ open /\ ~open'
  /\ \E sig \in released' : released' = {sig} /\ IsGood(request, sig)
  /\ UNCHANGED request

Refuse ==
  /\ open /\ ~open'
  /\ released' = {}
  /\ Checks(request) => spotless'
  /\ UNCHANGED request

Next == Work \/ Sign \/ Refuse

Spec == Init /\ [][Next]_vars
=============================================================================
