----------------------------- MODULE MCStorage -----------------------------
(***************************************************************************)
(* The queues of a node: parts that share no state, checked together.  A   *)
(* behaviour is one of a single part -- the segment log, a group's         *)
(* consumer state, the deduplicated append, the capture of topics, the     *)
(* life of a queue, a publish through the cluster -- and the other parts   *)
(* stay in an initial state.                                               *)
(***************************************************************************)
EXTENDS SegmentLog, ConsumerState, TransferDedupe, TopicCapture, QueueRegistry, MCQueuePublish

VARIABLE part

\* Bounds of a queue's life: consumers come, leave and time out; the queue is
\* administered meanwhile; contracts change with a restart.
RegistryBounds ==
    LET Bounds(subscribes, leaves, admin, restarts, time, classes) ==
            [subscribes |-> subscribes, leaves |-> leaves, admin |-> admin,
             restarts |-> restarts, time |-> time, classes |-> classes]
    IN  {Bounds(2, 1, 0, 0, 2, {}),
         Bounds(1, 1, 2, 0, 1, {"stream1"}),
         Bounds(1, 0, 2, 1, 0, {"stream1", "stream2"})}

CaptureLane == [a |-> 2]

StorageInit ==
    /\ part \in {"segments", "state", "dedupe", "capture", "registry", "fanout"}
    /\ Init /\ StateInit /\ DedupeInit /\ CaptureInit /\ RegistryInit /\ FanoutInit
    /\ part # "registry" => bounds.time = 2
    /\ part # "fanout" => limits.deletes = 1 /\ leader = "n1"

StorageNext ==
    /\ UNCHANGED part
    /\ \/ /\ part = "segments" /\ Next
          /\ UNCHANGED <<stateVars, dedupeVars, captureVars, registryVars, fanoutVars>>
       \/ /\ part = "state" /\ StateNext
          /\ UNCHANGED <<vars, dedupeVars, captureVars, registryVars, fanoutVars>>
       \/ /\ part = "dedupe" /\ DedupeNext
          /\ UNCHANGED <<vars, stateVars, captureVars, registryVars, fanoutVars>>
       \/ /\ part = "capture" /\ CaptureNext
          /\ UNCHANGED <<vars, stateVars, dedupeVars, registryVars, fanoutVars>>
       \/ /\ part = "registry" /\ RegistryNext
          /\ UNCHANGED <<vars, stateVars, dedupeVars, captureVars, fanoutVars>>
       \/ /\ part = "fanout" /\ FanoutNext
          /\ UNCHANGED <<vars, stateVars, dedupeVars, captureVars, registryVars>>

StorageSpec ==
    /\ StorageInit
    /\ [][StorageNext]_<<part, vars, stateVars, dedupeVars, captureVars, registryVars,
                         fanoutVars>>
    /\ Fairness
=============================================================================
