------------------------------ MODULE MCBroker ------------------------------
(***************************************************************************)
(* The parts of a node that share no state and of which only safety is     *)
(* asked, checked together: a behaviour is one of a single part, the other *)
(* parts stay in an initial state.                                         *)
(***************************************************************************)
EXTENDS QueueReplication, WireStreams, AmqpChannel, AmqpPublish

VARIABLE part

\* Bounds of the AMQP channel's behaviours: two messages to consumers of a
\* queue; consumers of a queue and of a topic on two channels, with a fault; one
\* message and a fault.
ChannelBudgets ==
    LET Bounds(messages, consumers_, calls, faults, kinds, channels) ==
            [messages |-> messages, consumes |-> consumers_, calls |-> calls, faults |-> faults,
             kinds |-> kinds, channels |-> channels]
    IN  {Bounds(2, 2, 1, 0, {<<"queue", FALSE>>}, {1}),
         Bounds(0, 3, 1, 1, {<<"queue", FALSE>>, <<"topic", TRUE>>}, {1, 2}),
         Bounds(1, 2, 2, 1, {<<"queue", TRUE>>, <<"topic", FALSE>>}, {1})}

PublishGrants ==
    {[a |-> "external", b |-> "absent"],
     [a |-> "exact", b |-> "exact"],
     [a |-> "prefix", b |-> "absent"]}
PublishTargets ==
    {[exchange |-> "x", key |-> "k"], [exchange |-> "", key |-> "q"], [exchange |-> "", key |-> "s"]}
PublishLimits == [a |-> 2, b |-> 1]
PublishRoutes == [q |-> "pubsub", s |-> "queue"]
PublishBindings ==
    {[queue |-> "q", exchange |-> "x", key |-> "#"], [queue |-> "r", exchange |-> "", key |-> "q"]}

BrokerInit ==
    /\ part \in {"replication", "wire", "channel", "publish"}
    /\ ReplicationInit /\ WireInit /\ AmqpInit /\ PublishInit
    /\ part # "replication" => configured
    /\ part # "wire" => codec = "amqp" /\ limit = FullFrame
    /\ part # "channel" => budget.messages = 2
    /\ part # "publish" => grant.a = "external"

BrokerNext ==
    /\ UNCHANGED part
    /\ \/ part = "replication" /\ ReplicationNext /\ UNCHANGED <<wireVars, amqpVars, publishVars>>
       \/ part = "wire" /\ WireNext /\ UNCHANGED <<replicationVars, amqpVars, publishVars>>
       \/ part = "channel" /\ AmqpNext /\ UNCHANGED <<replicationVars, wireVars, publishVars>>
       \/ part = "publish" /\ PublishNext /\ UNCHANGED <<replicationVars, wireVars, amqpVars>>

BrokerSpec ==
    BrokerInit /\ [][BrokerNext]_<<part, replicationVars, wireVars, amqpVars, publishVars>>

ReplicaSymmetry == Permutations(Replicas)
=============================================================================
