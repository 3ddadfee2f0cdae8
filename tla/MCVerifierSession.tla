-------------------------- MODULE MCVerifierSession --------------------------
(* Credentials to verify, for TLC. *)
EXTENDS VerifierSession, TLC

Good(m) == [model |-> m, formed |-> TRUE, schema |-> TRUE, hashed |-> TRUE, proof |-> TRUE]

(* Flawless ones of every issuance model, and one for each flaw. *)
EveryPaper ==
  {Good("self"), Good("controller"), Good("external"),
   [Good("self") EXCEPT !.formed = FALSE],
   [Good("self") EXCEPT !.schema = FALSE],
   [Good("self") EXCEPT !.hashed = FALSE],
   [Good("self") EXCEPT !.proof = FALSE]}

SelfPaper == {Good("self")}

Symmetry == Permutations(Verifier)
==============================================================================
