-------------------------------- MODULE MCMesh --------------------------------
(* Instances of Mesh for TLC: three nodes in a line. *)
EXTENDS Mesh

CONSTANTS n1, n2, n3

ThreeNodes == {n1, n2, n3}
Line == {{n1, n2}, {n2, n3}}
==============================================================================
