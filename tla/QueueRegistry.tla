--------------------------- MODULE QueueRegistry ---------------------------
(***************************************************************************)
(* One queue of the queue manager (queue/manager.go, control.go,           *)
(* subscriptions.go): its stored configuration and the contract that       *)
(* protects it, the consumers of its group, and the life of a queue that   *)
(* was created by a subscription and expires after its last consumer left. *)
(*                                                                         *)
(* Queue store and group store serialise their own calls; an operation of  *)
(* the manager is a sequence of such calls and other operations run        *)
(* between them.  A mutation of the configuration holds the contract lock  *)
(* for reading from its check to its write, a change of the contract holds *)
(* it for writing, so both are one step.                                   *)
(*                                                                         *)
(* Left out: replicated queues (QueueReplication has them), store errors   *)
(* other than a missing queue or group, and clients that come back to a    *)
(* registration they did not renew.                                        *)
(***************************************************************************)
EXTENDS Naturals

CONSTANTS
    Consumers,       \* clients that subscribe
    RegistryBudgets  \* bounds: [subscribes, leaves, admin, restarts, time, classes]

\* Streams differ in their limits; only a stream can be protected.
Streams == {"stream1", "stream2"}

ASSUME RegistryAssumption ==
    RegistryBudgets \subseteq [subscribes : Nat, leaves : Nat, admin : Nat, restarts : Nat,
                               time : Nat, classes : SUBSET (Streams \cup {"ephemeral"})]

VARIABLES
    current,     \* the configuration in the queue store, or NotStored
    contract,    \* the class the queue is protected as, or "none"
    group,       \* the consumer group exists
    heartbeat,   \* consumer -> time of its last heartbeat, 0 if not registered
    tracked,     \* consumer -> references and last use in Manager.subscriptions
    announced,   \* consumers registered in the cluster
    connected,   \* consumers with a delivery target on this node
    doing,       \* actor -> the operation it is in
    clock,       \* coarse time: one tick is ConsumerTimeout and ExpiresAfter
    touched,     \* the heartbeat loop has run in this tick
    overlapped,  \* history: two operations were under way at once, or a restart
                 \* cut one short
    bounds       \* what is left of the bounds

registryVars == <<current, contract, group, heartbeat, tracked, announced, connected, doing, clock,
                  touched, overlapped, bounds>>

(***************************************************************************)
(* A configuration: its class, and LastConsumerDisconnect (0 if zero).     *)
(***************************************************************************)
QueueConfig(class, mark) == [class |-> class, mark |-> mark]
NotStored == QueueConfig("none", 0)
DefaultEphemeralQueueConfig == QueueConfig("ephemeral", 0)

Exists == current # NotStored

\* Mutant: a queue's configuration may be written whatever its contract says.
ValidateMutationNever(config) == TRUE

\* protectedQueueContractMismatch, through validateMutationLocked.
ValidateMutation(config) == contract \in {"none", config.class}

(***************************************************************************)
(* Who runs operations: every client, the delivery engine, the cleanup     *)
(* loop of consumers and the one of expired queues.                        *)
(***************************************************************************)
Actors == Consumers \cup {"engine", "cleanup", "sweep"}
NoOperation == [pc |-> "idle", copy |-> NotStored]
Goto(a, pc) == doing' = [doing EXCEPT ![a].pc = pc]
Keep(a, pc, config) == doing' = [doing EXCEPT ![a] = [pc |-> pc, copy |-> config]]
EndOp(a) == doing' = [doing EXCEPT ![a] = NoOperation]
OpAt(a, pc) == doing[a].pc = pc

\* The first step of an operation notes whether it overlaps with another.
Begin(a) ==
    /\ doing[a] = NoOperation
    /\ overlapped' = (overlapped \/ \E b \in Actors : doing[b] # NoOperation)

SpendBound(what) == bounds[what] > 0 /\ bounds' = [bounds EXCEPT ![what] = @ - 1]

NoReference == [count |-> 0, seen |-> 0]

(***************************************************************************)
(* Configuration: CreateQueue, UpdateQueue, DeleteQueue and the contracts. *)
(***************************************************************************)
CreateInStore(config) ==
    current' = IF ValidateMutation(config) /\ ~ Exists THEN config ELSE current

StoreUpdate(config) ==
    current' = IF ValidateMutation(config) /\ Exists THEN config ELSE current

DeleteFromStore == current' = IF contract = "none" THEN NotStored ELSE current

CreateQueue(class) ==
    /\ SpendBound("admin")
    /\ CreateInStore(QueueConfig(class, 0))
    /\ UNCHANGED <<contract, group, heartbeat, tracked, announced, connected, doing, clock, touched,
                   overlapped>>

UpdateStoredQueue(class) ==
    /\ SpendBound("admin")
    /\ StoreUpdate(QueueConfig(class, 0))
    /\ UNCHANGED <<contract, group, heartbeat, tracked, announced, connected, doing, clock, touched,
                   overlapped>>

DeleteStoredQueue ==
    /\ SpendBound("admin")
    /\ DeleteFromStore
    /\ UNCHANGED <<contract, group, heartbeat, tracked, announced, connected, doing, clock, touched,
                   overlapped>>

\* ReplaceProtectedQueueContracts: the stored queue has to meet the contract.
ReplaceContracts(class) ==
    /\ SpendBound("admin")
    /\ contract' = IF current.class = class THEN class ELSE contract
    /\ UNCHANGED <<current, group, heartbeat, tracked, announced, connected, doing, clock, touched,
                   overlapped>>

\* NarrowProtectedQueueContracts without this queue.
NarrowContracts ==
    /\ SpendBound("admin")
    /\ contract' = "none"
    /\ UNCHANGED <<current, group, heartbeat, tracked, announced, connected, doing, clock, touched,
                   overlapped>>

(***************************************************************************)
(* subscribe: find or create the queue and the group, register, clear the  *)
(* disconnect time, announce and track.                                    *)
(***************************************************************************)
BeginSubscribe(c) ==
    /\ SpendBound("subscribes")
    /\ Begin(c)
    /\ Goto(c, IF Exists THEN "group" ELSE "create")
    /\ UNCHANGED <<current, contract, group, heartbeat, tracked, announced, connected, clock,
                   touched>>

\* GetOrCreateQueue: a queue that appeared meanwhile is as good.
AutoCreate(c) ==
    /\ OpAt(c, "create")
    /\ CreateInStore(DefaultEphemeralQueueConfig)
    /\ IF ValidateMutation(DefaultEphemeralQueueConfig) \/ Exists
       THEN Goto(c, "resolve") ELSE EndOp(c)
    /\ UNCHANGED <<contract, group, heartbeat, tracked, announced, connected, clock, touched,
                   overlapped, bounds>>

Resolve(c) ==
    /\ OpAt(c, "resolve")
    /\ IF Exists THEN Goto(c, "group") ELSE EndOp(c)
    /\ UNCHANGED <<current, contract, group, heartbeat, tracked, announced, connected, clock,
                   touched, overlapped, bounds>>

GetOrCreateGroup(c) ==
    /\ OpAt(c, "group")
    /\ group' = TRUE
    /\ Goto(c, "register")
    /\ UNCHANGED <<current, contract, heartbeat, tracked, announced, connected, clock, touched,
                   overlapped, bounds>>

RegisterConsumer(c) ==
    /\ OpAt(c, "register")
    /\ IF group
       THEN /\ heartbeat' = [heartbeat EXCEPT ![c] = clock]
            /\ connected' = connected \cup {c}
            /\ Goto(c, "readMark")
       ELSE EndOp(c) /\ UNCHANGED <<heartbeat, connected>>
    /\ UNCHANGED <<current, contract, group, tracked, announced, clock, touched, overlapped,
                   bounds>>

\* Mutant: the disconnect time of the queue is left as it is.
SkipEphemeralDisconnect(c) ==
    /\ OpAt(c, "readMark")
    /\ Goto(c, "announce")
    /\ UNCHANGED <<current, contract, group, heartbeat, tracked, announced, connected, clock,
                   touched, overlapped, bounds>>

\* clearEphemeralDisconnect reads the configuration and writes it back without
\* the time.
ClearEphemeralDisconnect(c) ==
    /\ OpAt(c, "readMark")
    /\ IF current.class = "ephemeral" /\ current.mark # 0
       THEN Keep(c, "clearMark", [current EXCEPT !.mark = 0])
       ELSE Goto(c, "announce")
    /\ UNCHANGED <<current, contract, group, heartbeat, tracked, announced, connected, clock,
                   touched, overlapped, bounds>>

WriteCleared(c) ==
    /\ OpAt(c, "clearMark")
    /\ StoreUpdate(doing[c].copy)
    /\ Goto(c, "announce")
    /\ UNCHANGED <<contract, group, heartbeat, tracked, announced, connected, clock, touched,
                   overlapped, bounds>>

\* The registration in the cluster may fail and is only logged.
TrackSubscription(c) ==
    /\ OpAt(c, "announce")
    /\ announced' \in {announced, announced \cup {c}}
    /\ tracked' = [tracked EXCEPT ![c] = [count |-> @.count + 1, seen |-> clock]]
    /\ EndOp(c)
    /\ UNCHANGED <<current, contract, group, heartbeat, connected, clock, touched, overlapped,
                   bounds>>

(***************************************************************************)
(* A consumer goes: it unsubscribes, the engine finds its client gone, or  *)
(* its heartbeat is too old.                                               *)
(***************************************************************************)
Untracked(C) ==
    [c \in Consumers |->
        IF c \notin C \/ tracked[c].count <= 1 THEN IF c \in C THEN NoReference ELSE tracked[c]
        ELSE [tracked[c] EXCEPT !.count = @ - 1]]

Unregistered(C) == [c \in Consumers |-> IF c \in C THEN 0 ELSE heartbeat[c]]

Unsubscribe(c) ==
    /\ SpendBound("leaves")
    /\ Begin(c)
    /\ heartbeat' = Unregistered({c})
    /\ Goto(c, "withdraw")
    /\ UNCHANGED <<current, contract, group, tracked, announced, connected, clock, touched>>

UntrackSubscription(c) ==
    /\ OpAt(c, "withdraw")
    /\ announced' \in {announced, announced \ {c}}
    /\ tracked' = Untracked({c})
    /\ Goto(c, "check")
    /\ UNCHANGED <<current, contract, group, heartbeat, connected, clock, touched, overlapped,
                   bounds>>

\* The client's connection and session end without an UNSUBSCRIBE.
LoseClient(c) ==
    /\ c \in connected
    /\ SpendBound("leaves")
    /\ connected' = connected \ {c}
    /\ UNCHANGED <<current, contract, group, heartbeat, tracked, announced, doing, clock, touched,
                   overlapped>>

\* DeliveryEngine.unregisterConsumer, then handleConsumersRemoved.
EngineRemoves(c) ==
    /\ heartbeat[c] # 0 /\ c \notin connected
    /\ Begin("engine")
    /\ heartbeat' = Unregistered({c})
    /\ tracked' = Untracked({c})
    /\ announced' = announced \ {c}
    /\ Goto("engine", "check")
    /\ UNCHANGED <<current, contract, group, connected, clock, touched, bounds>>

Stale == {c \in Consumers : heartbeat[c] # 0 /\ heartbeat[c] + 1 < clock}

CleanupStaleConsumers ==
    /\ Stale # {}
    /\ Begin("cleanup")
    /\ heartbeat' = Unregistered(Stale)
    /\ tracked' = Untracked(Stale)
    /\ Goto("cleanup", "check")
    /\ UNCHANGED <<current, contract, group, announced, connected, clock, touched, bounds>>

\* checkEphemeralDisconnect: read the configuration, look for consumers, write
\* the configuration back with the time.
CheckEphemeralDisconnect(a) ==
    /\ OpAt(a, "check")
    /\ IF current.class = "ephemeral" THEN Keep(a, "count", current) ELSE EndOp(a)
    /\ UNCHANGED <<current, contract, group, heartbeat, tracked, announced, connected, clock,
                   touched, overlapped, bounds>>

QueueHasConsumers(a) ==
    /\ OpAt(a, "count")
    /\ IF group /\ \E c \in Consumers : heartbeat[c] # 0
       THEN EndOp(a) ELSE Goto(a, "mark")
    /\ UNCHANGED <<current, contract, group, heartbeat, tracked, announced, connected, clock,
                   touched, overlapped, bounds>>

WriteMark(a) ==
    /\ OpAt(a, "mark")
    /\ StoreUpdate([doing[a].copy EXCEPT !.mark = clock])
    /\ EndOp(a)
    /\ UNCHANGED <<contract, group, heartbeat, tracked, announced, connected, clock, touched,
                   overlapped, bounds>>

(***************************************************************************)
(* Heartbeats.                                                             *)
(***************************************************************************)
\* UpdateHeartbeat of a client: a registration that is gone is forgotten.
UpdateHeartbeat(c) ==
    /\ tracked[c].count > 0
    /\ IF heartbeat[c] # 0
       THEN /\ heartbeat' = [heartbeat EXCEPT ![c] = clock]
            /\ tracked' = [tracked EXCEPT ![c].seen = clock]
       ELSE /\ tracked' = [tracked EXCEPT ![c] = NoReference]
            /\ UNCHANGED heartbeat
    /\ UNCHANGED <<current, contract, group, announced, connected, doing, clock, touched,
                   overlapped, bounds>>

\* touchLiveConsumerHeartbeats: whoever has a delivery target here.
TouchLiveConsumerHeartbeats ==
    /\ touched' = TRUE
    /\ heartbeat' = [c \in Consumers |-> IF heartbeat[c] # 0 /\ c \in connected THEN clock
                                         ELSE heartbeat[c]]
    /\ UNCHANGED <<current, contract, group, tracked, announced, connected, doing, clock,
                   overlapped, bounds>>

PruneStaleSubscriptions ==
    /\ \E c \in Consumers : tracked[c].count > 0 /\ tracked[c].seen + 2 < clock
    /\ tracked' = [c \in Consumers |-> IF tracked[c].seen + 2 < clock THEN NoReference
                                       ELSE tracked[c]]
    /\ UNCHANGED <<current, contract, group, heartbeat, announced, connected, doing, clock, touched,
                   overlapped, bounds>>

(***************************************************************************)
(* cleanupEphemeralQueues works on the list it has read: groups first,     *)
(* then the queue.                                                         *)
(***************************************************************************)
Expired(config) ==
    config.class = "ephemeral" /\ config.mark # 0 /\ config.mark < clock

FindExpired ==
    /\ Expired(current)
    /\ Begin("sweep")
    /\ Goto("sweep", "groups")
    /\ UNCHANGED <<current, contract, group, heartbeat, tracked, announced, connected, clock,
                   touched, bounds>>

DeleteGroups ==
    /\ OpAt("sweep", "groups")
    /\ group' = FALSE
    /\ heartbeat' = Unregistered(Consumers)
    /\ Goto("sweep", "delete")
    /\ UNCHANGED <<current, contract, tracked, announced, connected, clock, touched, overlapped,
                   bounds>>

DeleteExpired ==
    /\ OpAt("sweep", "delete")
    /\ DeleteFromStore
    /\ EndOp("sweep")
    /\ UNCHANGED <<contract, group, heartbeat, tracked, announced, connected, clock, touched,
                   overlapped, bounds>>

(***************************************************************************)
(* Time: the heartbeat loop's interval is a fraction of a tick.  A restart *)
(* keeps what is stored; Start refuses contracts the stored queue does not *)
(* meet, and the configuration may name others than before.                *)
(***************************************************************************)
Tick ==
    /\ touched
    /\ SpendBound("time")
    /\ clock' = clock + 1
    /\ touched' = FALSE
    /\ UNCHANGED <<current, contract, group, heartbeat, tracked, announced, connected, doing,
                   overlapped>>

Restart ==
    /\ SpendBound("restarts")
    /\ contract' \in {"none"} \cup ({current.class} \cap Streams)
    /\ tracked' = [c \in Consumers |-> NoReference]
    /\ announced' = {}
    /\ connected' = {}
    /\ doing' = [a \in Actors |-> NoOperation]
    /\ overlapped' = (overlapped \/ \E b \in Actors : doing[b] # NoOperation)
    /\ UNCHANGED <<current, group, heartbeat, clock, touched>>

RegistryInit ==
    /\ current = NotStored
    /\ contract = "none"
    /\ group = FALSE
    /\ heartbeat = [c \in Consumers |-> 0]
    /\ tracked = [c \in Consumers |-> NoReference]
    /\ announced = {}
    /\ connected = {}
    /\ doing = [a \in Actors |-> NoOperation]
    /\ clock = 1
    /\ touched = FALSE
    /\ overlapped = FALSE
    /\ bounds \in RegistryBudgets

RegistryNext ==
    \/ \E class \in bounds.classes : CreateQueue(class) \/ UpdateStoredQueue(class)
    \/ \E class \in bounds.classes \cap Streams : ReplaceContracts(class)
    \/ DeleteStoredQueue \/ NarrowContracts
    \/ \E c \in Consumers :
          \/ BeginSubscribe(c) \/ AutoCreate(c) \/ Resolve(c)
          \/ GetOrCreateGroup(c) \/ RegisterConsumer(c) \/ ClearEphemeralDisconnect(c)
          \/ WriteCleared(c) \/ TrackSubscription(c)
          \/ Unsubscribe(c) \/ UntrackSubscription(c) \/ LoseClient(c) \/ EngineRemoves(c)
          \/ UpdateHeartbeat(c)
    \/ \E a \in Actors :
          CheckEphemeralDisconnect(a) \/ QueueHasConsumers(a) \/ WriteMark(a)
    \/ CleanupStaleConsumers \/ TouchLiveConsumerHeartbeats \/ PruneStaleSubscriptions
    \/ FindExpired \/ DeleteGroups \/ DeleteExpired
    \/ Tick \/ Restart

RegistrySpec == RegistryInit /\ [][RegistryNext]_registryVars

(***************************************************************************)
(* Properties.                                                             *)
(***************************************************************************)
\* While a contract is in force the stored queue meets it: no creation, update,
\* deletion, expiry or late write of a configuration read before the contract
\* was installed gets past validateMutationLocked.
ContractHeld == contract # "none" => current.class = contract

\* As long as no two operations overlapped and no restart cut one short,
\* cleanupEphemeralQueues finds no queue expired that has a consumer: whoever
\* subscribed since the last one left has taken the disconnect time off.
ExpiresWithoutConsumers ==
    ~ overlapped /\ current.class = "ephemeral" /\ (\A a \in Actors : doing[a] = NoOperation) =>
        (Expired(current) => \A c \in Consumers : heartbeat[c] = 0)
=============================================================================
