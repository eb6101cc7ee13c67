---------------------------- MODULE MCInteraction ----------------------------
(* Interaction on small instances.                                          *)
EXTENDS InteractionInvariant, TLC

CONSTANTS r1, r2, a1, a2

MCSymmetry == Permutations({r1, r2}) 
\* where both actions are in the instance, and are treated alike
MCFullSymmetry == MCSymmetry \cup Permutations({a1, a2})
=============================================================================
