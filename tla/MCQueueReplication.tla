------------------------- MODULE MCQueueReplication -------------------------
(* Instances of QueueReplication for model checking.  The replicas are     *)
(* interchangeable; the consumers are not, since the history of a queue    *)
(* made at run time names one of them.                                     *)
EXTENDS QueueReplication, TLC

ReplicaSymmetry == Permutations(Replicas)
=============================================================================
