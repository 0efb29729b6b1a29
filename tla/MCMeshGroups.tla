---------------------------- MODULE MCMeshGroups ----------------------------
(* Small instances of MeshGroups for TLC. *)
EXTENDS MeshGroups

CONSTANTS g1, g2, n1, n2
=============================================================================
