--------------------------- MODULE SessionDelivery --------------------------
(***************************************************************************)
(* Outbound QoS 1 and 2 delivery to one MQTT session                       *)
(* (mqtt/broker/delivery.go, mqtt/session/session.go, sendwindow.go and    *)
(* messages.go, storage/messages/inflight.go and queue.go): the send       *)
(* window of Receive Maximum tokens, the inflight store, the pending and   *)
(* offline queues, acknowledgements, retries, and connections that         *)
(* replace one another under deliveries still running.                     *)
(*                                                                         *)
(* Every message has a deliverer, a goroutine in deliverQoS that leased a  *)
(* connection generation; the packet identifier is fresh for every         *)
(* message, so the message stands for it.  A connection's send queue is    *)
(* asynchronous, and its read loop starts only after deliverOfflineMessages*)
(* has returned.  The client is external: it answers what it received.     *)
(***************************************************************************)
EXTENDS Naturals, Sequences, FiniteSets, Functions

CONSTANTS Payloads,      \* the messages delivered to the session
          ExactlyOnce,   \* those of QoS 2; the others are QoS 1
          Window,        \* Receive Maximum, clamped by the server limit
          MaxInflight,   \* the server's inflight limit
          PendingSize,   \* capacity of the pending channel
          Modes,         \* inflight_overflow: "backpressure" or "queue"
          MaxEpochs,     \* bound: connections of the session
          Faults         \* the send queue fills up and writes fail

ASSUME DeliveryAssumption ==
    /\ ExactlyOnce \subseteq Payloads /\ "drain" \notin Payloads
    /\ Window \in 1..MaxInflight
    /\ MaxInflight \in Nat /\ PendingSize \in Nat /\ MaxEpochs \in Nat
    /\ Modes \subseteq {"backpressure", "queue"} /\ Faults \in BOOLEAN

VARIABLES
    mode,     \* the configured overflow mode
    epoch,    \* the session's connection generation
    up,       \* the session has a connection
    held,     \* packet identifiers holding a token of this generation
    pc,       \* each deliverer's step
    lease,    \* the generation each deliverer leased
    entry,    \* the inflight store; sent is the generation marked
    offline,  \* the offline queue
    pending,  \* the pending channel
    wire,     \* <<generation, m>>: PUBLISH packets in a send queue
    client,   \* <<m, phase>>: held unanswered by the client
    batch,    \* per generation, what its deliverOfflineMessages has left
    reading,  \* generations whose read loop runs
    acked,    \* acknowledged by the client
    lost      \* dropped by a full queue

deliveryVars == <<mode, epoch, up, held, pc, lease, entry, offline, pending,
                  wire, client, batch, reading, acked, lost>>

connection == <<mode, epoch, up>>
queues == <<offline, pending>>
network == <<wire, client, reading>>
outcome == <<acked, lost>>

Epochs == 1..MaxEpochs
NoEntry == [in |-> FALSE, sent |-> 0, rec |-> FALSE]

DeliveryInit ==
    /\ mode \in Modes
    /\ epoch = 0 /\ up = FALSE /\ held = {}
    /\ pc = [m \in Payloads |-> "idle"]
    /\ lease = [m \in Payloads |-> 0]
    /\ entry = [m \in Payloads |-> NoEntry]
    /\ offline = <<>> /\ pending = <<>>
    /\ wire = {} /\ client = {}
    /\ batch = [g \in Epochs |-> <<>>] /\ reading = {}
    /\ acked = {} /\ lost = {}

Goto(m, step) == pc' = [pc EXCEPT ![m] = step]

(* The delivery of m returns, to the next of the batch it was part of.     *)
Return(m) ==
    /\ Goto(m, "idle")
    /\ batch' = [g \in Epochs |-> IF batch[g] # <<>> /\ Head(batch[g]) = m
                                  THEN Tail(batch[g]) ELSE batch[g]]

-----------------------------------------------------------------------------
(* The connection.                                                         *)

(* attach: a new generation with a fresh window, replacing a connection    *)
(* that may still be up.                                                   *)
Attach ==
    /\ epoch < MaxEpochs
    /\ epoch' = epoch + 1 /\ up' = TRUE
    /\ held' = {} /\ client' = {}
    /\ batch' = [batch EXCEPT ![epoch + 1] = <<"drain">>]
    /\ UNCHANGED <<mode, pc, lease, entry, wire, reading, queues,
                   outcome>>

(* deliverOfflineMessages drains the queue and delivers one after another, *)
(* then runSession starts reading.                                         *)
DrainOffline(g) ==
    /\ batch[g] # <<>> /\ Head(batch[g]) = "drain"
    /\ batch' = [batch EXCEPT ![g] = offline]
    /\ offline' = <<>>
    /\ pc' = [m \in Payloads |->
                IF m \in Range(offline) THEN "batched" ELSE pc[m]]
    /\ UNCHANGED <<held, lease, entry, pending, connection, network,
                   outcome>>

BatchNext(g) ==
    /\ batch[g] # <<>> /\ Head(batch[g]) # "drain"
    /\ pc[Head(batch[g])] = "batched"
    /\ Goto(Head(batch[g]), "deliver")
    /\ UNCHANGED <<held, lease, entry, batch, connection, queues,
                   network, outcome>>

StartReading(g) ==
    /\ g \in 1..epoch \ reading
    /\ batch[g] = <<>>
    /\ reading' = reading \cup {g}
    /\ UNCHANGED <<held, pc, lease, entry, wire, client, batch,
                   connection, queues, outcome>>

(* A full offline queue drops; here its capacity is never reached.         *)
Park(q) == offline' = offline \o q

(* drainPendingToOffline.  Mutant: the channel is copied, not drained.     *)
CopyPendingToOffline == Park(pending) /\ UNCHANGED pending
DrainPendingToOffline == Park(pending) /\ pending' = <<>>

(* disconnectLocked: what is pending moves to the offline queue; the       *)
(* generation, and with it the window, stays as it is until the next       *)
(* attach.                                                                 *)
Drop ==
    /\ up
    /\ up' = FALSE /\ client' = {}
    /\ wire' = {p \in wire : p[1] # epoch}
    /\ DrainPendingToOffline
    /\ UNCHANGED <<mode, epoch, held, pc, lease, entry, batch, reading,
                   outcome>>

-----------------------------------------------------------------------------
(* A delivery.                                                             *)

(* A publish for the session starts a deliverer.                           *)
Publish(m) ==
    /\ pc[m] = "idle"
    /\ m \notin acked \cup lost \cup Range(offline) \cup Range(pending)
    /\ ~entry[m].in
    /\ Goto(m, "deliver")
    /\ UNCHANGED <<held, lease, entry, batch, connection, queues,
                   network, outcome>>

(* deliverToSession: lease the current generation, or queue for an offline *)
(* session, which may have come online since.                              *)
DeliverToSession(m) ==
    /\ pc[m] = "deliver"
    /\ IF up
         THEN lease' = [lease EXCEPT ![m] = epoch] /\ Goto(m, "acquire")
         ELSE Goto(m, "park") /\ UNCHANGED lease
    /\ UNCHANGED <<held, entry, batch, connection, queues, network,
                   outcome>>

DeliverOffline(m) ==
    /\ pc[m] = "park"
    /\ Park(<<m>>) /\ Return(m)
    /\ UNCHANGED <<held, lease, entry, pending, connection, network, outcome>>

(* tryAcquireLocked: m holds a token of this generation or one is free.    *)
(* Mutant: one more than Receive Maximum.                                  *)
TokenOverrun(m) == m \in held \/ Cardinality(held) <= Window
HasToken(m) == m \in held \/ Cardinality(held) < Window

AcquireQuota(m) ==
    /\ pc[m] = "acquire"
    /\ lease[m] = epoch
    /\ HasToken(m)
    /\ held' = held \cup {m}
    /\ Goto(m, "add")
    /\ UNCHANGED <<lease, entry, batch, connection, queues, network,
                   outcome>>

(* retrySupersededLease: the generation was replaced while the deliverer   *)
(* waited, so it leases the current one.                                   *)
LeaseAgain(m) ==
    /\ pc[m] = "acquire"
    /\ lease[m] # epoch /\ up
    /\ lease' = [lease EXCEPT ![m] = epoch]
    /\ UNCHANGED <<held, pc, entry, batch, connection, queues, network,
                   outcome>>

(* releaseLease: backpressure ends with the connection, in the offline     *)
(* queue.  Mutant: it ends like an exhausted quota.                        *)
ReleaseToOverflow(m) == Goto(m, "overflow")
ReleaseLease(m) == Goto(m, "park")

GiveUpWaiting(m) ==
    /\ mode = "backpressure"
    /\ pc[m] = "acquire"
    /\ ~up
    /\ lease[m] # epoch \/ ~HasToken(m)
    /\ ReleaseLease(m)
    /\ UNCHANGED <<held, lease, entry, batch, connection, queues,
                   network, outcome>>

(* Queue mode: no token, and no newer connection to lease.                 *)
QuotaExhausted(m) ==
    /\ mode = "queue"
    /\ pc[m] = "acquire"
    /\ (lease[m] = epoch /\ ~HasToken(m)) \/ (lease[m] # epoch /\ ~up)
    /\ Goto(m, "overflow")
    /\ UNCHANGED <<held, lease, entry, batch, connection, queues,
                   network, outcome>>

(* TryEnqueuePending, or the message is released.                          *)
Overflow(m) ==
    /\ pc[m] = "overflow"
    /\ Return(m)
    /\ IF mode = "queue" /\ Len(pending) < PendingSize
         THEN pending' = Append(pending, m) /\ UNCHANGED lost
         ELSE lost' = lost \cup {m} /\ UNCHANGED pending
    /\ UNCHANGED <<held, lease, entry, offline, acked, connection,
                   network>>

(* Inflight().Add, the token going back if the store is full.              *)
AddInflight(m) ==
    /\ pc[m] = "add"
    /\ IF Cardinality({n \in Payloads : entry[n].in}) < MaxInflight
         THEN /\ entry' = [entry EXCEPT ![m] = [NoEntry EXCEPT !.in = TRUE]]
              /\ Goto(m, "write") /\ UNCHANGED held
         ELSE /\ held' = IF lease[m] = epoch THEN held \ {m} ELSE held
              /\ Goto(m, "overflow") /\ UNCHANGED entry
    /\ UNCHANGED <<lease, batch, connection, queues, network, outcome>>

(* DeliverMessage on the leased connection: the packet is queued, the      *)
(* queue is full, or the connection is closed.                             *)
WritePublish(m, full) ==
    /\ pc[m] = "write"
    /\ Return(m)
    /\ LET live == up /\ lease[m] = epoch IN
       /\ full => live /\ Faults
       /\ wire' = IF live /\ ~full THEN wire \cup {<<epoch, m>>} ELSE wire
    /\ UNCHANGED <<held, lease, entry, client, reading, acked, lost,
                   connection, queues>>

(* The send loop writes a packet, and onSent marks it unless its           *)
(* connection was replaced.                                                *)
MarkSentIfEpoch(m, g) ==
    IF g = epoch /\ entry[m].in THEN [entry EXCEPT ![m].sent = g] ELSE entry

Flush(g, m) ==
    /\ <<g, m>> \in wire
    /\ wire' = wire \ {<<g, m>>}
    /\ client' = IF g = epoch THEN client \cup {<<m, "publish">>} ELSE client
    /\ entry' = MarkSentIfEpoch(m, g)
    /\ UNCHANGED <<held, pc, lease, batch, reading, connection, queues,
                   outcome>>

-----------------------------------------------------------------------------
(* The read loop: acknowledgements and retries.                            *)

(* A packet of m is on its way to the client or unanswered by it, on this  *)
(* connection.                                                             *)
Outstanding(m) ==
    <<epoch, m>> \in wire \/ \E phase \in {"publish", "release"} :
                                <<m, phase>> \in client

(* AckMessage: the entry and the token go, and one pending message is      *)
(* pulled through.                                                         *)
AckMessage(m) ==
    /\ entry[m].in
    /\ entry' = [entry EXCEPT ![m] = NoEntry]
    /\ acked' = acked \cup {m}
    /\ held' = held \ {m}
    /\ IF pending = <<>> THEN UNCHANGED <<pending, pc>>
       ELSE /\ Goto(Head(pending), "deliver")
            /\ pending' = Tail(pending)

(* HandlePubAck, HandlePubComp.  The check that the connection is current  *)
(* and the handler are one step: runSession documents the window between   *)
(* them.                                                                   *)
PubAck(m) ==
    /\ up /\ epoch \in reading
    /\ LET phase == IF m \in ExactlyOnce THEN "release" ELSE "publish" IN
       /\ <<m, phase>> \in client
       /\ client' = client \ {<<m, phase>>}
    /\ AckMessage(m)
    /\ UNCHANGED <<lease, offline, wire, batch, reading, lost,
                   connection>>

(* HandlePubRec: the delivery moves to its second half, and PUBREL is      *)
(* sent.                                                                   *)
PubRec(m) ==
    /\ up /\ epoch \in reading
    /\ m \in ExactlyOnce /\ <<m, "publish">> \in client
    /\ client' = (client \ {<<m, "publish">>}) \cup {<<m, "release">>}
    /\ entry' = IF entry[m].in THEN [entry EXCEPT ![m].rec = TRUE] ELSE entry
    /\ UNCHANGED <<held, pc, lease, wire, batch, reading, connection,
                   queues, outcome>>

(* ProcessRetries: an entry without an answer for RetryTimeout, or that    *)
(* never reached the socket, is sent again under a token of this           *)
(* generation.  The client is taken to answer within RetryTimeout.         *)
Retry(m) ==
    /\ up /\ epoch \in reading
    /\ entry[m].in /\ pc[m] # "write" /\ ~Outstanding(m)
    /\ HasToken(m)
    /\ held' = held \cup {m}
    /\ IF entry[m].rec
         THEN /\ client' = client \cup {<<m, "release">>}
              /\ entry' = [entry EXCEPT ![m].sent = epoch] /\ UNCHANGED wire
         ELSE wire' = wire \cup {<<epoch, m>>} /\ UNCHANGED <<client, entry>>
    /\ UNCHANGED <<pc, lease, batch, reading, connection, queues,
                   outcome>>

-----------------------------------------------------------------------------
Deliver(m) ==
    \/ DeliverToSession(m) \/ DeliverOffline(m)
    \/ AcquireQuota(m) \/ LeaseAgain(m) \/ GiveUpWaiting(m)
    \/ QuotaExhausted(m) \/ Overflow(m)
    \/ AddInflight(m) \/ WritePublish(m, FALSE)

Serve(g) == DrainOffline(g) \/ BatchNext(g) \/ StartReading(g)

DeliveryNext ==
    \/ Attach \/ Drop
    \/ \E m \in Payloads :
          \/ Publish(m) \/ Deliver(m) \/ WritePublish(m, TRUE)
          \/ PubAck(m) \/ PubRec(m) \/ Retry(m)
    \/ \E g \in Epochs : Serve(g) \/ \E m \in Payloads : Flush(g, m)

(* Goroutines run, sockets flush, and the client answers.                  *)
DeliveryFairness ==
    /\ \A m \in Payloads :
          /\ WF_deliveryVars(Deliver(m)) /\ WF_deliveryVars(Retry(m))
          /\ WF_deliveryVars(PubAck(m)) /\ WF_deliveryVars(PubRec(m))
    /\ \A g \in Epochs : /\ WF_deliveryVars(Serve(g))
                         /\ \A m \in Payloads : WF_deliveryVars(Flush(g, m))

DeliverySpec ==
    DeliveryInit /\ [][DeliveryNext]_deliveryVars /\ DeliveryFairness

-----------------------------------------------------------------------------
(* Properties.                                                             *)

(* The client is never sent more unanswered PUBLISH packets on one         *)
(* connection than its Receive Maximum, however deliveries, retries and    *)
(* leftovers of replaced connections interleave [MQTT-4.9].                *)
WindowRespected == Cardinality({m \in Payloads : Outstanding(m)}) <= Window

(* The places a message can be.                                            *)
Places(m) ==
    {p \in {"deliverer", "inflight", "offline", "pending"} :
        \/ p = "deliverer" /\ pc[m] \notin {"idle", "write"}
        \/ p = "inflight" /\ entry[m].in
        \/ p = "offline" /\ m \in Range(offline)
        \/ p = "pending" /\ m \in Range(pending)}

(* A message is in one place at a time, and in none once it is             *)
(* acknowledged: no takeover in the middle of a delivery leaves it both    *)
(* inflight and queued, where the client would be sent it twice.           *)
HeldOnce ==
    \A m \in Payloads :
        /\ \A p, q \in Places(m) : p = q
        /\ m \in acked \cup lost => Places(m) = {}

(* "This prevents message loss": in backpressure mode, with room in the    *)
(* inflight store, nothing is dropped.                                     *)
NothingDropped == mode = "backpressure" => lost = {}

=============================================================================
