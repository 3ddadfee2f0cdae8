--------------------------- MODULE MCPlatformAdmin ---------------------------
(* Two accounts, of which one deployed the contracts. *)
EXTENDS PlatformAdmin, TLC

Ticked == {<<"Maintenance">>, <<"Maintenance", "SafetyInspection">>}

Symmetry == Permutations(Task)
==============================================================================
