--------------------------- MODULE MCRunLifecycle ---------------------------
(***************************************************************************)
(* A run of two chunks on a shard that may move, two coordinators and a    *)
(* cancel command, one fault.  Coordinators are interchangeable: no action *)
(* and no property tells them apart.                                       *)
(***************************************************************************)
EXTENDS RunLifecycle, TLC

CONSTANTS s1, a1   \* the shard, and the database that owns it at first

AtFirst == s1 :> a1

Interchangeable == Permutations(Coordinator)

Behaviours == Init /\ [][Next]_lifecycleVars
=============================================================================
