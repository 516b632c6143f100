------------------------------ MODULE MCTsHash ------------------------------
(* Instances of TsHash for TLC.                                            *)
EXTENDS TsHashRefinement, TLC

CONSTANTS t1, t2, t3, a, b, c, k1

MCPairs == {<<a, b>>}
=============================================================================
