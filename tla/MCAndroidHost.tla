---------------------------- MODULE MCAndroidHost ----------------------------
(* Small instances of AndroidHost for TLC; the constants are in the cfgs. *)
EXTENDS AndroidHost, TLC

\* Nodes are alike, those with an exit transition among themselves.
NodeSymmetry ==
  {f \in Permutations(Node) : {f[n] : n \in ExitNode} = ExitNode}
=============================================================================
