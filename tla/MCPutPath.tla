----------------------------- MODULE MCPutPath -----------------------------
(* Small instances of PutPath.                                             *)
EXTENDS PutPath, TLC

Symmetry == Permutations(Node) \cup Permutations(Request)

============================================================================
