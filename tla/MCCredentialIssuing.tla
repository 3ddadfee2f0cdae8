------------------------- MODULE MCCredentialIssuing -------------------------
(* Instances of issuing for TLC.                                               *)
EXTENDS CredentialIssuing, TLC

CONSTANTS c1, c2, c3

(* Two handlers of the page, of one model or of two, and a program; or a       *)
(* handler and two programs.                                                   *)
AnyFlow(c) ==
  CASE c = c1 -> {"browser"} \X {SELF, EXTERNAL}
    [] c = c2 -> {"browser"} \X {SELF, CONTROLLER} \cup {<<"cli", EXTERNAL>>}
    [] c = c3 -> {<<"cli", CONTROLLER>>}

Symmetry == Permutations(Robot)
==============================================================================
