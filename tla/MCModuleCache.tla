---------------------------- MODULE MCModuleCache ----------------------------
(* Values for ModuleCache's function-valued constants. *)
EXTENDS ModuleCache

CONSTANTS k1, k2, k3

\* Sizes that tell every set of modules from every other.
MCSize == [k \in Keys |-> CASE k = k1 -> 1 [] k = k2 -> 2 [] k = k3 -> 4]
=============================================================================
