--------------------------- MODULE MCAdminConsole ---------------------------
(* Instances of the administration page for TLC. *)
EXTENDS AdminConsole, TLC

CONSTANTS c1, c2

(* Any handler overlaps with another one that changes the page's globals.      *)
AnyWithAnother(c) == IF c = c1 THEN Buttons ELSE {"show", "revoke"}

Symmetry == Permutations(Robot)
==============================================================================
