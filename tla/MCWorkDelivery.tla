--------------------------- MODULE MCWorkDelivery ---------------------------
(* Finite instances of WorkDelivery.                                       *)
EXTENDS WorkDelivery, TLC

OneChunk  == {1}
TwoChunks == {1, 2}

(* Workers are interchangeable, and so are coordinators.                   *)
Processes == Permutations(Task) \cup Permutations(Coordinator)
=============================================================================
