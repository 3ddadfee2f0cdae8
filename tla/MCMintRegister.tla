---------------------------- MODULE MCMintRegister ----------------------------
(* Instances of mint and register for TLC.                                     *)
EXTENDS MintRegister, TLC

Symmetry == Permutations(Account) \cup Permutations(Key) \cup Permutations(Flow)
==============================================================================
