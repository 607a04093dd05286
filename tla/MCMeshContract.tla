--------------------------- MODULE MCMeshContract ---------------------------
(***************************************************************************)
(* The small clusters of MCMeshBuilder for MeshContract.                   *)
(***************************************************************************)
EXTENDS MCMeshBuilder, MeshContract
=============================================================================
