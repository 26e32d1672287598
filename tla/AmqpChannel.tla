---------------------------- MODULE AmqpChannel ----------------------------
(***************************************************************************)
(* The consuming side of one AMQP 0.9.1 connection (amqp/broker): its      *)
(* channels and their consumers, prefetch windows, pending and unsettled   *)
(* deliveries, and the registrations the connection holds with the queue   *)
(* manager.                                                                *)
(*                                                                         *)
(* Every method of the client runs on the connection's goroutine, one      *)
(* after the other; deliveries come from other goroutines, one for  *)
(* each message, and so does a cancellation by the queue manager.  A step is     *)
(* what one goroutine does under one lock.                                 *)
(***************************************************************************)
EXTENDS Integers, Sequences, FiniteSets

CONSTANTS
    Channels,      \* channel numbers
    ConsumerTags,  \* consumer tags the client uses
    Messages,      \* messages to deliver, numbered in the order their delivery
                   \* begins
    Windows,       \* prefetch counts the client asks for
    Budgets        \* bounds of one behaviour: the channels used, messages,
                   \* Basic.Consume calls and their kinds, other calls but
                   \* settlements, faults

VARIABLES
    open,         \* the channels in Connection.channels
    closing,      \* channels on which the server has sent Channel.Close
    consumers,    \* Channel.consumers: a set of consumers with distinct tags
    registrations,\* Connection.queueRegistrations: owners of the one queue
    subscribed,   \* what the queue manager and the router hold for the client
    dropped,      \* channels a cancellation by the manager has yet to visit
    prefetch,     \* Channel.prefetchCount; 0 is no limit
    flow,         \* Channel.flow
    unacked,      \* Channel.unacked: a set of [tag, copy]
    pendings,     \* Channel.pendingDeliveries: a sequence of copies
    nextTag,      \* Connection.deliveryTag
    method,       \* what the connection's goroutine is doing
    sender,       \* what the goroutine that delivers each message is doing
    cut,          \* the network connection is gone
    answered,     \* history: copies the client settled
    written,      \* history: copies whose frames were written
    taken,        \* history: copies a consumer took
    steady,       \* history: channels whose window never changed in use
    consumes,     \* Basic.Consume calls
    budget        \* what is left of the bounds

chanState == <<open, closing, consumers, registrations, subscribed, dropped,
               prefetch, flow, steady, consumes, budget>>
deliveryState == <<unacked, pendings, nextTag, answered, written, taken>>
amqpVars == <<chanState, deliveryState, method, sender, cut>>

\* A consumer reads the queue, registered with the queue manager, or a topic,
\* subscribed at the router; `gen` tells apart consumers with one tag.
Consumer == [tag : ConsumerTags, gen : Nat, from : {"queue", "topic"}, noAck : BOOLEAN]

Spend(on) == budget[on] > 0 /\ budget' = [budget EXCEPT ![on] = @ - 1]

Idle == [at |-> "idle"]
Done == [at |-> "done"]
Ready == [at |-> "ready"]

AmqpInit ==
    /\ budget \in Budgets
    /\ open = budget.channels
    /\ closing = {}
    /\ consumers = [c \in Channels |-> {}]
    /\ registrations = 0
    /\ subscribed = {}
    /\ dropped = {}
    /\ prefetch = [c \in Channels |-> 0]
    /\ flow = [c \in Channels |-> TRUE]
    /\ unacked = [c \in Channels |-> {}]
    /\ pendings = [c \in Channels |-> <<>>]
    /\ nextTag = 1
    /\ method = Ready
    /\ sender = [s \in Messages |-> Idle]
    /\ cut = FALSE
    /\ answered = {} /\ written = {} /\ taken = {}
    /\ steady = Channels
    /\ consumes = 0

(***************************************************************************)
(* The prefetch window.                                                    *)
(***************************************************************************)
Full(c) == prefetch[c] > 0 /\ Cardinality(unacked[c]) >= prefetch[c]

(* Mutant: the window is not looked at. *)
QueueOnlyWithoutFlow(c, cons) == ~ flow[c]

ShouldQueueDelivery(c, cons) ==
    \/ ~ flow[c]
    \/ ~ cons.noAck /\ Full(c)

\* sendDelivery up to the write: a tag, and the record of an unsettled delivery.
SendDelivery(copy) ==
    LET c == copy.chan
    IN  /\ nextTag' = nextTag + 1
        /\ unacked' = IF copy.cons.noAck THEN unacked
                      ELSE [unacked EXCEPT ![c] = @ \cup {[tag |-> nextTag, copy |-> copy]}]
        /\ taken' = taken \cup {copy}
        /\ UNCHANGED <<pendings, answered, written>>

\* sendDelivery's write of the frames, all or none.
WriteFrames(copy) ==
    /\ written' = IF cut THEN written ELSE written \cup {copy}
    /\ UNCHANGED <<unacked, pendings, nextTag, answered, taken>>

(***************************************************************************)
(* A delivery: every consumer of every channel that matches the topic.     *)
(* Connection.deliverMessage holds the lock of the channel map throughout. *)
(***************************************************************************)
InMap(s) == sender[s] \notin {Idle, Done}
Delivering == \E s \in Messages : InMap(s)

BeginDelivery(s) ==
    /\ sender[s] = Idle /\ \A t \in Messages : t < s => sender[t] # Idle
    /\ open # {} /\ Spend("messages")
    /\ \E from \in {kind[1] : kind \in budget.kinds} :
         sender' = [sender EXCEPT ![s] =
              [at |-> "channels", from |-> from, chans |-> open, todo |-> {}, chan |-> 0]]
    /\ UNCHANGED <<open, closing, consumers, registrations, subscribed, dropped, prefetch, flow,
                   steady, consumes, deliveryState, method, cut>>

\* Channel.deliverMessage copies the list of consumers.
EnterChannel(s) ==
    /\ sender[s].at = "channels" /\ sender[s].todo = {}
    /\ \E c \in sender[s].chans :
         sender' = [sender EXCEPT ![s].chans = @ \ {c}, ![s].chan = c,
                    ![s].todo = {k \in consumers[c] : k.from = sender[s].from}]
    /\ UNCHANGED <<chanState, deliveryState, method, cut>>

CheckWindow(s) ==
    /\ sender[s].at = "channels"
    /\ \E k \in sender[s].todo :
         LET d == sender[s]
             copy == [chan |-> d.chan, cons |-> k, msg |-> s]
         IN  sender' = [sender EXCEPT ![s] =
                [at |-> IF ShouldQueueDelivery(d.chan, k) THEN "enqueue" ELSE "send",
                 from |-> d.from, chans |-> d.chans,
                 todo |-> d.todo \ {k}, chan |-> d.chan, copy |-> copy]]
    /\ UNCHANGED <<chanState, deliveryState, method, cut>>

Onward(s, todo) ==
    sender' = [sender EXCEPT ![s] =
        [at |-> "channels", from |-> @.from, chans |-> @.chans,
         todo |-> todo, chan |-> @.chan]]

EnqueueDelivery(s) ==
    /\ sender[s].at = "enqueue"
    /\ LET copy == sender[s].copy
       IN  /\ pendings' = [pendings EXCEPT ![copy.chan] = Append(@, copy)]
           /\ taken' = taken \cup {copy}
    /\ Onward(s, sender[s].todo)
    /\ UNCHANGED <<chanState, unacked, nextTag, answered, written, method, cut>>

RecordDelivery(s) ==
    /\ sender[s].at = "send"
    /\ SendDelivery(sender[s].copy)
    /\ sender' = [sender EXCEPT ![s].at = "write"]
    /\ UNCHANGED <<chanState, method, cut>>

\* A write that fails ends the channel's turn.
WriteDelivery(s) ==
    /\ sender[s].at = "write"
    /\ WriteFrames(sender[s].copy)
    /\ Onward(s, IF cut THEN {} ELSE sender[s].todo)
    /\ UNCHANGED <<chanState, method, cut>>

EndDelivery(s) ==
    /\ sender[s].at = "channels" /\ sender[s].todo = {} /\ sender[s].chans = {}
    /\ sender' = [sender EXCEPT ![s] = Done]
    /\ UNCHANGED <<chanState, deliveryState, method, cut>>

(***************************************************************************)
(* drainPending, on the connection's goroutine after a settlement or a     *)
(* Channel.Flow: one pending delivery after the other while the window has *)
(* room.                                                                   *)
(***************************************************************************)
Drain(c) == method' = [at |-> "drain", chan |-> c]

\* The consumer that now has the tag and the queue of a pending delivery.
Addressee(c, copy) == {k \in consumers[c] : k.tag = copy.cons.tag /\ k.from = copy.cons.from}

DrainPop ==
    /\ method.at = "drain"
    /\ LET c == method.chan
       IN  IF ~ flow[c] \/ Full(c) \/ pendings[c] = <<>>
           THEN method' = Ready /\ UNCHANGED pendings
           ELSE /\ pendings' = [pendings EXCEPT ![c] = Tail(@)]
                /\ IF Addressee(c, Head(pendings[c])) = {}
                   THEN UNCHANGED method
                   ELSE \E k \in Addressee(c, Head(pendings[c])) :
                          method' = [at |-> "popped", chan |-> c,
                                     was |-> Head(pendings[c]),
                                     copy |-> [Head(pendings[c]) EXCEPT !.cons = k]]
    /\ UNCHANGED <<chanState, unacked, nextTag, answered, written, taken, sender, cut>>

(* Mutant: a delivery that finds the window full again is not put back. *)
DrainWindowDrops ==
    /\ method.at = "popped"
    /\ IF ShouldQueueDelivery(method.chan, method.copy.cons)
       THEN method' = Ready
       ELSE method' = [method EXCEPT !.at = "send"]
    /\ UNCHANGED <<chanState, deliveryState, sender, cut>>

DrainWindow ==
    /\ method.at = "popped"
    /\ IF ShouldQueueDelivery(method.chan, method.copy.cons)
       THEN /\ pendings' = [pendings EXCEPT ![method.chan] = <<method.was>> \o @]
            /\ method' = Ready
       ELSE /\ method' = [method EXCEPT !.at = "send"]
            /\ UNCHANGED pendings
    /\ UNCHANGED <<chanState, unacked, nextTag, answered, written, taken, sender, cut>>

DrainSend ==
    /\ method.at = "send"
    /\ SendDelivery(method.copy)
    /\ method' = [method EXCEPT !.at = "write"]
    /\ UNCHANGED <<chanState, sender, cut>>

DrainWrite ==
    /\ method.at = "write"
    /\ WriteFrames(method.copy)
    /\ IF cut THEN method' = Ready ELSE Drain(method.chan)
    /\ UNCHANGED <<chanState, sender, cut>>

(***************************************************************************)
(* Methods of the client.  After a Channel.Close of the server's own only  *)
(* the answer is heard.                                                    *)
(***************************************************************************)
Heard(c) == method = Ready /\ ~ cut /\ c \in open \ closing

\* Basic.Ack, Basic.Nack and Basic.Reject of a delivery the client has seen.
\* What the queue manager is told of a queue's deliveries changes nothing here.
Settle(c, multiple) ==
    /\ Heard(c)
    /\ \E u \in unacked[c] :
         LET all == {v \in unacked[c] : IF multiple THEN v.tag <= u.tag ELSE v = u}
         IN  /\ u.copy \in written
             /\ unacked' = [unacked EXCEPT ![c] = @ \ all]
             /\ answered' = answered \cup {v.copy : v \in all}
    /\ Drain(c)
    /\ UNCHANGED <<chanState, pendings, nextTag, written, taken, sender, cut>>

Called == Spend("calls")

BasicQos(c, w) ==
    /\ Heard(c) /\ Called
    /\ prefetch' = [prefetch EXCEPT ![c] = w]
    /\ steady' = IF consumers[c] = {} /\ unacked[c] = {} /\ pendings[c] = <<>> /\ ~ Delivering
                 THEN steady ELSE steady \ {c}
    /\ UNCHANGED <<open, closing, consumers, registrations, subscribed, dropped, flow, consumes,
                   deliveryState, method, sender, cut>>

ChannelFlow(c) ==
    /\ Heard(c) /\ Called
    /\ flow' = [flow EXCEPT ![c] = ~ @]
    /\ IF flow'[c] THEN Drain(c) ELSE UNCHANGED method
    /\ UNCHANGED <<open, closing, consumers, registrations, subscribed, dropped, prefetch, steady,
                   consumes, deliveryState, sender, cut>>

(***************************************************************************)
(* Registrations.  The queue manager knows the connection, not its         *)
(* consumers: the first consumer of a queue registers it, the last one     *)
(* takes the registration back.                                            *)
(***************************************************************************)
(* Mutant: any consumer that goes takes the registration back. *)
ReleaseAny(n) == [left |-> 0, unused |-> registrations > 0 /\ n > 0]

ReleaseQueueRegistration(n) ==
    [left |-> IF registrations > n THEN registrations - n ELSE 0,
     unused |-> registrations > 0 /\ n >= registrations]

\* handleBasicConsume reserves the consumer before it subscribes.  Tags are
\* interchangeable: the first consumer's is 1.
BasicConsume(c, tag, from, noAck) ==
    /\ Heard(c) /\ Spend("consumes")
    /\ consumes = 0 => tag = 1
    /\ consumes' = consumes + 1
    /\ LET k == [tag |-> tag, gen |-> consumes + 1, from |-> from, noAck |-> noAck]
       IN  IF \E other \in consumers[c] : other.tag = tag
           THEN /\ closing' = closing \cup {c}
                /\ UNCHANGED <<consumers, registrations, method>>
           ELSE /\ consumers' = [consumers EXCEPT ![c] = @ \cup {k}]
                /\ registrations' = registrations + IF from = "queue" THEN 1 ELSE 0
                /\ method' = [at |-> "subscribe", chan |-> c, cons |-> k]
                /\ UNCHANGED closing
    /\ UNCHANGED <<open, subscribed, dropped, prefetch, flow, steady,
                   deliveryState, sender, cut>>

\* A hook or the authoriser denies it.
ConsumeDenied(c) ==
    /\ Heard(c) /\ Spend("faults")
    /\ closing' = closing \cup {c}
    /\ UNCHANGED <<open, consumers, registrations, subscribed, dropped, prefetch, flow, steady,
                   consumes, deliveryState, method, sender, cut>>

Subscribe ==
    /\ method.at = "subscribe"
    /\ subscribed' = subscribed \cup {method.cons.from}
    /\ method' = Ready
    /\ UNCHANGED <<open, closing, consumers, registrations, dropped, prefetch, flow, steady,
                   consumes, budget, deliveryState, sender, cut>>

\* The manager refuses, before it registered anything or after.
SubscribeFails(partial) ==
    /\ method.at = "subscribe" /\ method.cons.from = "queue"
    /\ Spend("faults")
    /\ LET c == method.chan
           k == method.cons
           mine == k \in consumers[c]
           release == ReleaseQueueRegistration(1)
       IN  /\ consumers' = [consumers EXCEPT ![c] = @ \ {k}]
           /\ registrations' = IF mine THEN release.left ELSE registrations
           /\ subscribed' = IF ~ partial THEN subscribed
                            ELSE IF mine /\ release.unused THEN subscribed \ {"queue"}
                            ELSE subscribed \cup {"queue"}
           /\ closing' = closing \cup {c}
    /\ method' = Ready
    /\ UNCHANGED <<open, dropped, prefetch, flow, steady, consumes,
                   deliveryState, sender, cut>>

\* What is left of the registrations, and of what the manager and the router
\* hold, when these consumers go.
Withdraw(gone) ==
    LET release == ReleaseQueueRegistration(Cardinality({k \in gone : k.from = "queue"}))
    IN  /\ registrations' = release.left
        /\ subscribed' = subscribed
             \ ((IF release.unused THEN {"queue"} ELSE {})
                \cup (IF \E k \in gone : k.from = "topic" THEN {"topic"} ELSE {}))

BasicCancel(c, k) ==
    /\ Heard(c) /\ Called
    /\ k \in consumers[c]
    /\ consumers' = [consumers EXCEPT ![c] = @ \ {k}]
    /\ Withdraw({k})
    /\ UNCHANGED <<open, closing, dropped, prefetch, flow, steady, consumes,
                   deliveryState, method, sender, cut>>

\* The queue manager has removed the client after missed heartbeats; its
\* callback visits the channels there are when it starts.  0 stands for the
\* callback that has not started.
ManagerDrops ==
    /\ "queue" \in subscribed /\ dropped = {} /\ Spend("faults")
    /\ subscribed' = subscribed \ {"queue"}
    /\ dropped' = {0}
    /\ UNCHANGED <<open, closing, consumers, registrations, prefetch, flow, steady, consumes,
                   deliveryState, method, sender, cut>>

CancelConsumers ==
    /\ dropped = {0}
    /\ dropped' = open
    /\ UNCHANGED <<open, closing, consumers, registrations, subscribed, prefetch, flow, steady,
                   consumes, budget, deliveryState, method, sender, cut>>

CancelConsumerByQueue(c) ==
    /\ c \in dropped \ {0}
    /\ dropped' = dropped \ {c}
    /\ LET gone == {k \in consumers[c] : c \in open /\ k.from = "queue"}
       IN  /\ consumers' = [consumers EXCEPT ![c] = @ \ gone]
           /\ registrations' = ReleaseQueueRegistration(Cardinality(gone)).left
    /\ UNCHANGED <<open, closing, subscribed, prefetch, flow, steady, consumes, budget,
                   deliveryState, method, sender, cut>>

(***************************************************************************)
(* Channels and the connection come and go.  The channel map's lock waits  *)
(* for deliveries under way.  What a closed channel held is forgotten.     *)
(***************************************************************************)
Cleanup(chans) ==
    /\ open' = open \ chans
    /\ closing' = closing \ chans
    /\ Withdraw(UNION {consumers[c] : c \in chans \cap open})
    /\ consumers' = [c \in Channels |-> IF c \in chans THEN {} ELSE consumers[c]]
    /\ unacked' = [c \in Channels |-> IF c \in chans THEN {} ELSE unacked[c]]
    /\ pendings' = [c \in Channels |-> IF c \in chans THEN <<>> ELSE pendings[c]]

CloseChannel(c) ==
    /\ method = Ready /\ ~ cut /\ c \in open
    /\ ~ Delivering
    /\ IF c \in closing THEN UNCHANGED budget ELSE Spend("calls")
    /\ Cleanup({c})
    /\ UNCHANGED <<dropped, prefetch, flow, steady, consumes, nextTag, answered, written, taken,
                   method, sender, cut>>

\* newChannel
OpenChannel(c) ==
    /\ method = Ready /\ ~ cut /\ open # {} /\ c \in budget.channels \ open
    /\ ~ Delivering /\ Called
    /\ open' = open \cup {c}
    /\ prefetch' = [prefetch EXCEPT ![c] = 0]
    /\ flow' = [flow EXCEPT ![c] = TRUE]
    /\ steady' = steady \cup {c}
    /\ UNCHANGED <<closing, consumers, registrations, subscribed, dropped, consumes,
                   deliveryState, method, sender, cut>>

Disconnect ==
    /\ ~ cut /\ Spend("faults")
    /\ cut' = TRUE
    /\ UNCHANGED <<open, closing, consumers, registrations, subscribed, dropped, prefetch, flow,
                   steady, consumes, deliveryState, method, sender>>

ConnectionCleanup ==
    /\ cut /\ method = Ready /\ open # {}
    /\ ~ Delivering
    /\ Cleanup(open)
    /\ UNCHANGED <<dropped, prefetch, flow, steady, consumes, budget, nextTag, answered, written,
                   taken, method, sender, cut>>

AmqpNext ==
    \/ \E s \in Messages :
         \/ BeginDelivery(s) \/ EnterChannel(s) \/ CheckWindow(s) \/ EnqueueDelivery(s)
         \/ RecordDelivery(s) \/ WriteDelivery(s) \/ EndDelivery(s)
    \/ DrainPop \/ DrainWindow \/ DrainSend \/ DrainWrite
    \/ Subscribe \/ \E partial \in BOOLEAN : SubscribeFails(partial)
    \/ ManagerDrops \/ CancelConsumers \/ Disconnect \/ ConnectionCleanup
    \/ \E c \in Channels :
         \/ \E multiple \in BOOLEAN : Settle(c, multiple)
         \/ \E w \in Windows : BasicQos(c, w)
         \/ \E tag \in ConsumerTags, kind \in budget.kinds : BasicConsume(c, tag, kind[1], kind[2])
         \/ \E k \in consumers[c] : BasicCancel(c, k)
         \/ ConsumeDenied(c)
         \/ ChannelFlow(c) \/ CancelConsumerByQueue(c) \/ CloseChannel(c) \/ OpenChannel(c)

AmqpSpec == AmqpInit /\ [][AmqpNext]_amqpVars

(***************************************************************************)
(* Properties                                                              *)
(***************************************************************************)
\* With a prefetch count that does not change while it is in use, the
\* unsettled deliveries of a channel exceed it by no more than the goroutines
\* that can be between their look at the window and their entry in it: the
\* check and the record of a delivery are two critical sections.
WindowOverrun ==
    \A c \in open \cap steady :
        prefetch[c] > 0 =>
            Cardinality(unacked[c]) <= prefetch[c] + Cardinality(Messages)

\* A delivery that a consumer took, at once or behind its window, is in
\* exactly one place while the consumer and the connection stay: pending, in
\* the hand of a goroutine, unsettled or settled; for a consumer without
\* acknowledgements, on the wire.
Pending(copy) == \E i \in DOMAIN pendings[copy.chan] : pendings[copy.chan][i] = copy

InHand(copy) ==
    \/ method.at \in {"popped", "send"} /\ method.was = copy
    \/ copy.cons.noAck /\ method.at = "write" /\ method.copy = copy
    \/ copy.cons.noAck /\ \E s \in Messages : sender[s].at = "write" /\ sender[s].copy = copy

Closed(copy) == IF copy.cons.noAck THEN copy \in written ELSE copy \in answered

Unsettled(copy) == \E u \in unacked[copy.chan] : u.copy = copy

TakenIsHeld ==
    \A copy \in taken :
        ~ cut /\ copy.cons \in consumers[copy.chan] =>
            Cardinality({p \in 1..4 : CASE p = 1 -> Pending(copy) [] p = 2 -> InHand(copy)
                                         [] p = 3 -> Closed(copy) [] p = 4 -> Unsettled(copy)}) = 1

\* A queue consumer whose Basic.Consume succeeded is registered with the queue
\* manager, or the manager has dropped the connection and the cancellation is
\* on its way, however consumers of the same queue come, fail and go.
ConsumersRegistered ==
    \A c \in open : \A k \in consumers[c] :
        k.from = "queue" /\ ~ (method.at = "subscribe" /\ method.cons = k)
            => "queue" \in subscribed \/ 0 \in dropped \/ c \in dropped
=============================================================================
