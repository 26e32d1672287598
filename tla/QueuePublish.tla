---------------------------- MODULE QueuePublish ----------------------------
(***************************************************************************)
(* An addressed publish to queues in a cluster (queue/manager.go,          *)
(* record_core.go, cluster/transport.go): resolve the queues that match,   *)
(* append to those this node writes, forward to the leaders of the         *)
(* replicated ones, and forward to nodes with consumers of queues this     *)
(* node does not know.  A forward runs the same code on the other node, so *)
(* a publish is a stack of calls.                                          *)
(*                                                                         *)
(* Every queue of the model matches the topic, which is below the name of  *)
(* AutoQueue.  A queue that is not replicated has a log on each node; the  *)
(* log of a replicated one is kept once.  A node acts on its own view of   *)
(* who leads; an append succeeds only on the node that does.               *)
(***************************************************************************)
EXTENDS Naturals, Sequences, FiniteSets

CONSTANTS
    Nodes,            \* brokers
    Replicated,       \* queues with replication
    Unreplicated,     \* queues without
    Lagging,          \* a node may lead before it has applied the creation of its queues
    PublishBudgets    \* settings and bounds: [known, consuming, policy, moves, deletes,
                      \* faults, hops]

VARIABLES
    known,      \* node -> queues in its store
    leader,     \* the leader of the replicated queues, or "none"
    view,       \* node -> who it takes for the leader, or "none"
    calls,      \* the stack of calls, the innermost last
    answer,     \* what the innermost call has returned: "", "ok" or "failed"
    result,     \* what the publisher was told: "", "ok" or "failed"
    wanted,     \* the queues the publish was resolved to at the publisher
    copies,     \* <<node, queue>> -> copies of the message; Shared for a replicated queue
    gone,       \* queues deleted somewhere during the publish
    limits      \* what is left of the bounds

fanoutVars == <<known, leader, view, calls, answer, result, wanted, copies, gone, limits>>

Shared == "shared"
AutoQueue == CHOOSE q \in Unreplicated : TRUE
QueueNames == Replicated \cup Unreplicated
Where(n, q) == IF q \in Replicated THEN <<Shared, q>> ELSE <<n, q>>
Copy(n, q) == copies' = [copies EXCEPT ![Where(n, q)] = @ + 1]

(***************************************************************************)
(* Calls.  A call has a mode, "normal" or "forwarded", and the targets the *)
(* caller forced.                                                          *)
(***************************************************************************)
Call(n, mode, forced) ==
    [node |-> n, mode |-> mode, forced |-> forced, pc |-> "resolve", local |-> {},
     forward |-> {}, peers |-> {}, failed |-> FALSE]

Top == calls[Len(calls)]
SetTop(c) == calls' = [calls EXCEPT ![Len(calls)] = c]
CallAt(pc) == calls # <<>> /\ answer = "" /\ Top.pc = pc
Push(after, c) == calls' = Append([calls EXCEPT ![Len(calls)] = after], c)

Use(what) == limits[what] > 0 /\ limits' = [limits EXCEPT ![what] = @ - 1]

\* PublishCommand of the publisher.
Publish(n) ==
    /\ calls = <<>> /\ result = ""
    /\ calls' = <<Call(n, "normal", {})>>
    /\ UNCHANGED <<known, leader, view, answer, result, wanted, copies, gone, limits>>

(***************************************************************************)
(* resolvePublishTargets: forced targets this node does not have are       *)
(* skipped, and a publish that matches nothing creates its queue.          *)
(***************************************************************************)
Resolved ==
    CASE Top.forced # {} -> Top.forced \cap known[Top.node]
      [] Top.forced = {} /\ known[Top.node] # {} -> known[Top.node]
      [] OTHER -> {AutoQueue}

ResolvePublishTargets ==
    /\ CallAt("resolve")
    /\ known' = IF Top.forced = {} THEN [known EXCEPT ![Top.node] = @ \cup Resolved] ELSE known
    /\ wanted' = IF Len(calls) = 1 THEN Resolved ELSE wanted
    /\ SetTop([Top EXCEPT !.local = Resolved,
                          !.pc = IF Top.mode = "forwarded" THEN "append"
                                 ELSE IF Resolved = {} THEN "return" ELSE "classify"])
    /\ UNCHANGED <<leader, view, answer, result, copies, gone, limits>>

(***************************************************************************)
(* writeToTargets: which targets are written here, which are forwarded,    *)
(* and which fail the publish before anything is written.                  *)
(***************************************************************************)
Remote(n, targets) == IF view[n] = n THEN {} ELSE targets \cap Replicated

Rejected(n, targets) == Remote(n, targets) # {} /\ (limits.policy # "forward" \/ view[n] = "none")

WriteToTargets ==
    /\ CallAt("classify")
    /\ SetTop(IF Rejected(Top.node, Top.local)
              THEN [Top EXCEPT !.local = {}, !.failed = TRUE, !.pc = "append"]
              ELSE [Top EXCEPT !.local = @ \ Remote(Top.node, @),
                               !.forward = Remote(Top.node, Top.local), !.pc = "append"])
    /\ UNCHANGED <<known, leader, view, answer, result, wanted, copies, gone, limits>>

LeadsGroup(n) == leader = n /\ view[n] = n
CanAppend(n, q) == IF q \in Replicated THEN LeadsGroup(n) ELSE q \in known[n]

TargetAppended(q) ==
    /\ CanAppend(Top.node, q)
    /\ Copy(Top.node, q)
    /\ SetTop([Top EXCEPT !.local = @ \ {q}])
    /\ UNCHANGED limits

\* Mutant: publishLocalToTargets forgets the error of a target.
TargetFailureForgotten(q) ==
    /\ \/ ~CanAppend(Top.node, q) /\ UNCHANGED <<copies, limits>>
       \/ Use("faults") /\ UNCHANGED copies
       \/ Use("faults") /\ q \in Replicated /\ LeadsGroup(Top.node) /\ Copy(Top.node, q)
    /\ SetTop([Top EXCEPT !.local = @ \ {q}])

\* The store or the leadership fails the append, and a replicated append that
\* is reported failed may have been committed.
TargetFails(q) ==
    /\ \/ ~CanAppend(Top.node, q) /\ UNCHANGED <<copies, limits>>
       \/ Use("faults") /\ UNCHANGED copies
       \/ Use("faults") /\ q \in Replicated /\ LeadsGroup(Top.node) /\ Copy(Top.node, q)
    /\ SetTop([Top EXCEPT !.local = @ \ {q}, !.failed = TRUE])

\* One target of publishLocalToTargets (appendLocalTarget, appendResolved,
\* appendConfiguredMessage).
AppendLocalTarget(q) ==
    /\ CallAt("append") /\ q \in Top.local
    /\ TargetAppended(q) \/ TargetFails(q)
    /\ UNCHANGED <<known, leader, view, answer, result, wanted, gone>>

\* publishLocal ends with its appends; a strict writeToTargets returns before
\* it forwards when one of them failed.
AppendsDone ==
    /\ CallAt("append") /\ Top.local = {}
    /\ SetTop([Top EXCEPT !.pc = IF Top.mode = "forwarded" THEN "return"
                                 ELSE IF Top.failed \/ Top.forward = {} THEN "peers"
                                 ELSE "forward"])
    /\ UNCHANGED <<known, leader, view, answer, result, wanted, copies, gone, limits>>

(***************************************************************************)
(* forwardPublishToLeader: SendEnqueueRemote, EnqueueRemote and            *)
(* HandleQueuePublish on the leader.  A request may be lost, and so may    *)
(* its answer; retryWithBreaker sends it again.                            *)
(***************************************************************************)
ForwardPublishToLeader ==
    /\ CallAt("forward")
    /\ Len(calls) < limits.hops
    /\ view[Top.node] # "none"
    /\ Push([Top EXCEPT !.pc = "forwarding"], Call(view[Top.node], "normal", Top.forward))
    /\ UNCHANGED <<known, leader, view, answer, result, wanted, copies, gone, limits>>

\* The request fails for good: no answer, or too many hops for its deadline.
ForwardFails ==
    /\ CallAt("forward")
    /\ \/ Len(calls) >= limits.hops /\ UNCHANGED limits
       \/ Len(calls) < limits.hops /\ Use("faults")
    /\ SetTop([Top EXCEPT !.failed = TRUE, !.pc = "peers"])
    /\ UNCHANGED <<known, leader, view, answer, result, wanted, copies, gone>>

\* Mutant: an answer that says the leader failed is taken for success.
ForwardForgets ==
    /\ answer # "" /\ Len(calls) > 0 /\ Top.pc = "forwarding"
    /\ answer' = ""
    /\ SetTop([Top EXCEPT !.pc = "peers"])
    /\ UNCHANGED <<known, leader, view, result, wanted, copies, gone, limits>>

ForwardReturns ==
    /\ answer # "" /\ Len(calls) > 0 /\ Top.pc = "forwarding"
    /\ answer' = ""
    /\ \/ /\ SetTop([Top EXCEPT !.pc = "peers", !.failed = @ \/ answer = "failed"])
          /\ UNCHANGED limits
       \/ /\ Use("faults")   \* no answer, or a failure: the request is repeated
          /\ SetTop([Top EXCEPT !.pc = "forward"])
    /\ UNCHANGED <<known, leader, view, result, wanted, copies, gone>>

(***************************************************************************)
(* forwardToRemoteNodes, which also follows a publish that was rejected:   *)
(* nodes with consumers of the topic's queue, if it is unknown here.  Its  *)
(* failures are logged only.                                               *)
(***************************************************************************)
UnknownHere(n) ==
    IF AutoQueue \in known[n] THEN {} ELSE limits.consuming \ {n}

\* The consumers are read from the cluster; if that fails nothing is forwarded.
ForwardToRemoteNodes ==
    /\ CallAt("peers")
    /\ \/ /\ SetTop([Top EXCEPT !.peers = UnknownHere(Top.node), !.pc = "peer"])
          /\ UNCHANGED limits
       \/ Use("faults") /\ SetTop([Top EXCEPT !.pc = "return"])
    /\ UNCHANGED <<known, leader, view, answer, result, wanted, copies, gone>>

ForwardToPeer(m) ==
    /\ CallAt("peer") /\ m \in Top.peers
    /\ \/ /\ Push([Top EXCEPT !.peers = @ \ {m}, !.pc = "peering"], Call(m, "forwarded", {}))
          /\ UNCHANGED limits
       \/ Use("faults") /\ SetTop([Top EXCEPT !.peers = @ \ {m}])
    /\ UNCHANGED <<known, leader, view, answer, result, wanted, copies, gone>>

PeerReturns ==
    /\ answer # "" /\ Len(calls) > 0 /\ Top.pc = "peering"
    /\ answer' = ""
    /\ SetTop([Top EXCEPT !.pc = "peer"])
    /\ UNCHANGED <<known, leader, view, result, wanted, copies, gone, limits>>

PublishReturns ==
    /\ CallAt("return") \/ (CallAt("peer") /\ Top.peers = {})
    /\ calls' = SubSeq(calls, 1, Len(calls) - 1)
    /\ IF Len(calls) = 1
       THEN result' = (IF Top.failed THEN "failed" ELSE "ok") /\ UNCHANGED answer
       ELSE answer' = (IF Top.failed THEN "failed" ELSE "ok") /\ UNCHANGED result
    /\ UNCHANGED <<known, leader, view, wanted, copies, gone, limits>>

(***************************************************************************)
(* Around it: leadership moves and is learnt late, a replica applies the   *)
(* creation of a queue late, and queues are deleted.                       *)
(***************************************************************************)
CanLead(n) == Lagging \/ Replicated \ gone \subseteq known[n]

LeaderMoves(n) ==
    /\ Use("moves")
    /\ n # leader
    /\ CanLead(n)
    /\ leader' = n
    /\ UNCHANGED <<known, view, calls, answer, result, wanted, copies, gone>>

LeaderLost ==
    /\ Use("moves")
    /\ leader # "none"
    /\ leader' = "none"
    /\ UNCHANGED <<known, view, calls, answer, result, wanted, copies, gone>>

\* A replica applies the creation of a replicated queue.
ApplyCreate(n) ==
    /\ ~ (Replicated \ gone \subseteq known[n])
    /\ known' = [known EXCEPT ![n] = @ \cup (Replicated \ gone)]
    /\ UNCHANGED <<leader, view, calls, answer, result, wanted, copies, gone, limits>>

LearnLeader(n) ==
    /\ view[n] # leader
    /\ view' = [view EXCEPT ![n] = leader]
    /\ UNCHANGED <<known, leader, calls, answer, result, wanted, copies, gone, limits>>

DeleteQueueAt(n, q) ==
    /\ Use("deletes")
    /\ q \in known[n]
    /\ q \in Replicated => LeadsGroup(n)
    /\ known' = [m \in Nodes |-> IF m = n \/ q \in Replicated THEN known[m] \ {q} ELSE known[m]]
    /\ gone' = gone \cup {q}
    /\ UNCHANGED <<leader, view, calls, answer, result, wanted, copies>>

FanoutInit ==
    /\ limits \in PublishBudgets
    /\ known = [n \in Nodes |-> limits.known[n]]
    /\ gone = {}
    /\ leader \in {n \in Nodes : CanLead(n)}
    /\ view = [n \in Nodes |-> leader]
    /\ calls = <<>>
    /\ answer = ""
    /\ result = ""
    /\ wanted = {}
    /\ copies = [w \in {Where(n, q) : n \in Nodes, q \in QueueNames} |-> 0]

FanoutNext ==
    \/ \E n \in Nodes :
          Publish(n) \/ LeaderMoves(n) \/ LearnLeader(n) \/ ApplyCreate(n) \/ ForwardToPeer(n)
    \/ \E q \in QueueNames : AppendLocalTarget(q)
    \/ \E n \in Nodes, q \in QueueNames : DeleteQueueAt(n, q)
    \/ LeaderLost
    \/ ResolvePublishTargets \/ WriteToTargets \/ AppendsDone
    \/ ForwardPublishToLeader \/ ForwardFails \/ ForwardReturns
    \/ ForwardToRemoteNodes \/ PeerReturns \/ PublishReturns

FanoutSpec == FanoutInit /\ [][FanoutNext]_fanoutVars

(***************************************************************************)
(* Properties.                                                             *)
(***************************************************************************)
\* A publish that was told ok is in every queue it was resolved to and that
\* was not deleted meanwhile, although the leader moved, nodes held stale views
\* of it, and requests or answers of the forwards were lost.  ("fanoutStrict
\* abandons the publish at the first target that cannot be written.")
PublishedEverywhere ==
    result = "ok" =>
        \A q \in wanted \ gone : \E n \in Nodes : copies[Where(n, q)] > 0
=============================================================================
