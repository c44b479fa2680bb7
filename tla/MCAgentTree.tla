---------------------------- MODULE MCAgentTree ----------------------------
(* Instances of AgentTree for TLC. *)
EXTENDS AgentTree, TLC

CONSTANTS a0, a1, a2, a3, a4

\* Identities other than the root's are interchangeable.
Symmetry == Permutations(Agents \ {Root})
=============================================================================
