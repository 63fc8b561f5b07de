------------------------------ MODULE TaintSign ------------------------------
(***************************************************************************)
(* The constant-time claim of the signing core, as the taint fixtures make *)
(* it: with d (and k, where the caller brings it) marked secret, nothing   *)
(* a call does before it returns depends on them.  A call is run twice,    *)
(* with the same public arguments and any two secrets, valid or not, and   *)
(* leaves a trace of the branches it took and of its ladder's length.      *)
(*                                                                         *)
(* How often rfc6979_nonce draws is not in the trace: that branch is the   *)
(* one the harness declassifies.  The keys, whose constructors refuse a    *)
(* secret out of range, have no fixture.                                   *)
(***************************************************************************)
EXTENDS Sign, Sequences

VARIABLES
  trace,      \* what this run has shown
  reference,  \* what the first run has shown
  again       \* this is the second run

taintVars == <<vars, trace, reference, again>>

\* The calls that differ from c only in what ctgrind marks undefined: d and k, or d
\* alone where the nonce is derived.
RetaintedDK(c) ==
  {[c EXCEPT !.d = secret, !.k = nonce] : secret \in Slices(c.d.len), nonce \in Slices(c.k.len)}

RetaintedD(c) == {[c EXCEPT !.d = secret] : secret \in Slices(c.d.len)}

Retainted(c) == IF c.entry = "with_k" THEN RetaintedDK(c) ELSE RetaintedD(c)

TaintInit == Init /\ trace = <<>> /\ reference = <<>> /\ again = FALSE

Shows(branch, rounds) ==
  /\ trace' = Append(trace, <<branch, rounds>>)
  /\ UNCHANGED <<reference, again>>

\* One run of a fixture.
Execute ==
  \/ Derive /\ Shows(IF k' = k THEN "refused" ELSE "derived", 0)
  \/ SignRejects /\ Shows("rejected", 0)
  \/ SignWrites /\ Shows("written", BYTE_BITS * LadderScalar(k, sblind).len)

\* The first run is over; another begins on fresh buffers.
Again ==
  /\ pc = "done" /\ ~again
  /\ again' = TRUE /\ reference' = trace /\ trace' = <<>>
  /\ \E c \in Retainted(call) :
       /\ call' = c /\ pc' = Entry(c) /\ k' = EntryNonce(c)
       /\ outR' = c.outR /\ outS' = c.outS
  /\ derived' = TRUE /\ signed' = FALSE /\ result' = FALSE
  /\ UNCHANGED <<pubkey, draws, blind, sblind, faulted>>

Compared == pc = "done" /\ again /\ UNCHANGED taintVars

TaintNext == Execute \/ Again \/ Compared

TaintSpec == TaintInit /\ [][TaintNext]_taintVars

-----------------------------------------------------------------------------
(* Properties                                                              *)

\* No secret steers the signing core: whatever d and k are, zero, out of range or
\* leading to r = 0, the second run shows what the first has shown, no less and no
\* more ("no secret-dependent early return").
SecretsDoNotSteer ==
  again =>
    /\ Len(trace) <= Len(reference)
    /\ trace = SubSeq(reference, 1, Len(trace))
    /\ pc = "done" => trace = reference
=============================================================================
