------------------------- MODULE MCChunkExecution --------------------------
(* Instances of ChunkExecution for TLC.                                    *)
EXTENDS ChunkExecution, TLC

CONSTANTS c1, k1, k2, t1, t2, w1, w2

OneChunk == [k \in Case |-> c1]

\* The two tasks belong to different processes, or to one.
TwoWorkers == (t1 :> w1) @@ (t2 :> w2)
OneWorker  == [t \in Task |-> w1]

=============================================================================
