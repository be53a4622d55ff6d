-------------------------- MODULE MCPolicyIngestion --------------------------
(* Small instances of PolicyIngestion for TLC.                             *)
EXTENDS PolicyIngestion, TLC

Interchangeable == Permutations(Handlers) \union Permutations(Parts)
=============================================================================
