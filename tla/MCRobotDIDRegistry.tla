------------------------- MODULE MCRobotDIDRegistry -------------------------
(* Instances of the registry for TLC; the .cfg files choose the sizes. *)
EXTENDS RobotDIDRegistry

(* A controller that issues.                                               *)
CredentialGrants == {{"ASSERTION"}}

(* Keys and robots are interchangeable: no definition orders them or names *)
(* one of them.                                                            *)
Symmetry == 
  Permutations(RobotKey) \cup Permutations(Token) \cup Permutations(Hash \ {ZeroHash})
==============================================================================
