------------------------- MODULE MCVerifiedRegistry -------------------------
(* An instance of the registry and the programs that verify one credential *)
(* against it, for TLC. *)
EXTENDS VerifiedRegistry

FactsGrants == {{"ASSERTION"}}

ExternalPaper ==
  {[model |-> "external", formed |-> TRUE, schema |-> TRUE, hashed |-> TRUE, proof |-> TRUE]}
==============================================================================
