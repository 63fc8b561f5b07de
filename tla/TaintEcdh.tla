------------------------------ MODULE TaintEcdh ------------------------------
(***************************************************************************)
(* The constant-time claim of the ECDH core, as its taint fixture makes it *)
(* and for the blinded call of the KEM, which has no fixture: a call is    *)
(* run twice with the same peer, blinders and buffer and any two secrets   *)
(* d, and its two traces, branch by branch and ladder step by ladder step, *)
(* are one.                                                                *)
(***************************************************************************)
EXTENDS Ecdh, Sequences

VARIABLES
  trace,      \* what this run has shown
  reference,  \* what the first run has shown
  again       \* this is the second run

taintVars == <<vars, trace, reference, again>>

\* The calls that differ from c only in what ctgrind marks undefined: the octets
\* of d, not their number.
Retainted(c) == {[c EXCEPT !.d = secret] : secret \in Slices(c.d.len)}

TaintInit == Init /\ trace = <<>> /\ reference = <<>> /\ again = FALSE

Shows(branch) ==
  /\ trace' = Append(trace, branch)
  /\ UNCHANGED <<reference, again>>

Execute ==
  \/ RejectBuffer /\ Shows("buffer")
  \/ ClearOut /\ Shows("clear")
  \/ RejectInput /\ Shows("reject")
  \/ Blind /\ Shows("blind")
  \/ Step /\ Shows("step")
  \/ Release /\ Shows("release")

Again ==
  /\ pc = "done" /\ ~again
  /\ again' = TRUE /\ reference' = trace /\ trace' = <<>>
  /\ call' \in Retainted(call)
  /\ pc' = "entry" /\ out' = call'.out
  /\ base' = IdentityCt /\ acc' = IdentityCt
  /\ scalar' = Empty /\ left' = 0 /\ result' = FALSE

Compared == pc = "done" /\ again /\ UNCHANGED taintVars

TaintNext == Execute \/ Again \/ Compared

TaintSpec == TaintInit /\ [][TaintNext]_taintVars

-----------------------------------------------------------------------------
(* Properties                                                              *)

\* No secret d steers the ECDH core: an invalid one is not refused early, and a
\* short one has no shorter ladder, blinded or not.
SecretsDoNotSteer ==
  again =>
    /\ Len(trace) <= Len(reference)
    /\ trace = SubSeq(reference, 1, Len(trace))
    /\ pc = "done" => trace = reference
=============================================================================
