--------------------------- MODULE MCGatewayProxy ---------------------------
(***************************************************************************)
(* Instances of GatewayProxy for model checking.                           *)
(***************************************************************************)
EXTENDS GatewayProxy, TLC

\* Requests, repositories and search bodies are interchangeable.
Symmetry == Permutations(Requests) \cup Permutations(Repos) \cup Permutations(Digests)
=============================================================================
