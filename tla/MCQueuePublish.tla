--------------------------- MODULE MCQueuePublish ---------------------------
(***************************************************************************)
(* Three nodes: the first knows what the instance says, the second the     *)
(* replicated queue, the third that and the queue its consumer created.    *)
(***************************************************************************)
EXTENDS QueuePublish

FanoutBounds(first, policy, moves, deletes, faults, hops) ==
    [known |-> [n1 |-> first, n2 |-> {"r"}, n3 |-> {"r", "a"}], consuming |-> {"n3"},
     policy |-> policy, moves |-> moves, deletes |-> deletes, faults |-> faults, hops |-> hops]

\* The leader moves under a publish with a fault; a queue is deleted under one;
\* the queue is created by the publish; the policy rejects; two forwards.
FanoutBudgets ==
    {FanoutBounds({"r"}, "forward", 1, 0, 1, 2),
     FanoutBounds({"r", "a"}, "forward", 0, 1, 1, 2),
     FanoutBounds({}, "forward", 0, 0, 1, 2),
     FanoutBounds({"r", "a"}, "reject", 1, 0, 0, 2),
     FanoutBounds({"r"}, "forward", 1, 0, 0, 3)}
=============================================================================
