---------------------------- MODULE MCShardMove ----------------------------
(* An instance of ShardMove for TLC: two names of two databases.           *)
EXTENDS ShardMove

CONSTANTS a1, a2

Apart == [a \in Alias |-> a]
=============================================================================
