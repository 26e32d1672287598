---------------------------- MODULE AmqpPublish ----------------------------
(***************************************************************************)
(* The publishing side of AMQP 0.9.1 (amqp/broker): content frames that    *)
(* make up a message, the route a complete message takes, publisher        *)
(* confirms, and the bounded appends to a protected durable stream, which  *)
(* connections share and which outlive the publisher that stopped waiting. *)
(***************************************************************************)
EXTENDS Integers, Sequences, FiniteSets, Functions

CONSTANTS
    Publishers,      \* connections, each publishing on one channel
    Grants,          \* assignments of "external", "exact" or "prefix", the way its
                     \* publications are authorised, or "absent", to connections
    Targets,         \* where publications go: [exchange, key]
    Routes,          \* Resolve: [keys -> route kinds] of the default exchange
    Types,           \* types of the exchanges declared
    Queues,          \* queues declared
    Bindings,        \* bindings made: [queue, exchange, key]
    BodySize,        \* frames' worth of a message body
    MaxOutstanding,  \* maxOutstandingDurableAppends
    MaxPublishes,    \* publications of each connection
    MaxTopology      \* declarations and bindings of one connection

VARIABLES
    exchanges,    \* Channel.exchanges: declared names and their types
    bindings,     \* Channel.bindings, in order
    content,      \* the publication whose frames are arriving
    confirmMode,  \* Channel.confirmMode
    shut,         \* the server has sent Channel.Close
    waiting,      \* the publication whose durable append the connection awaits
    appends,      \* append goroutines: [pub, at]
    grant,        \* the assignment this behaviour is about
    outstanding,  \* durableAppendLimiter: appends that hold a slot
    revoked,      \* connections whose permission has been withdrawn
    stored,       \* <<publication, queue>> pairs a queue holds
    started,      \* history: publications begun by each connection
    completed,    \* history: publications completed in confirm mode, in order
    answers,      \* history: confirms sent, in order
    topology      \* declarations and bindings made

publishVars == <<exchanges, bindings, content, confirmMode, shut, waiting, appends, outstanding,
                 grant, revoked, stored, started, completed, answers, topology>>

Nothing == [at |-> "none"]
Stream == "s"

PublishInit ==
    /\ exchanges = [p \in Publishers |-> <<>>]
    /\ bindings = [p \in Publishers |-> <<>>]
    /\ content = [p \in Publishers |-> Nothing]
    /\ confirmMode = [p \in Publishers |-> FALSE]
    /\ shut = {}
    /\ waiting = [p \in Publishers |-> Nothing]
    /\ appends = {}
    /\ outstanding = 0
    /\ grant \in Grants
    /\ revoked = {}
    /\ stored = {}
    /\ started = [p \in Publishers |-> 0]
    /\ completed = [p \in Publishers |-> <<>>]
    /\ answers = [p \in Publishers |-> <<>>]
    /\ topology = [p \in Publishers |-> 0]

\* The connection's goroutine takes the next frame.
Hears(p) == grant[p] # "absent" /\ p \notin shut /\ waiting[p] = Nothing

(***************************************************************************)
(* Exchanges, queues and bindings, private to the channel.                 *)
(***************************************************************************)
DefaultExchange == ""

\* Between the frames of a publication too.  A connection of a local principal
\* may declare nothing (DenyMethod).
Topology(p) ==
    /\ Hears(p) /\ grant[p] = "external"
    /\ topology[p] < MaxTopology
    /\ topology' = [topology EXCEPT ![p] = @ + 1]
    /\ UNCHANGED <<content, confirmMode, shut, waiting, appends, outstanding, grant, revoked, stored,
                   started, completed, answers>>

ExchangeDeclare(p, x, type) ==
    /\ Topology(p)
    /\ exchanges' = [exchanges EXCEPT ![p] = [e \in DOMAIN @ \cup {x} |-> IF e = x THEN type ELSE @[e]]]
    /\ UNCHANGED bindings

\* The bindings of a deleted exchange stay.
ExchangeDelete(p, x) ==
    /\ Topology(p)
    /\ exchanges' = [exchanges EXCEPT ![p] = [e \in DOMAIN @ \ {x} |-> @[e]]]
    /\ UNCHANGED bindings

Bind(p, b) ==
    /\ Topology(p)
    /\ bindings' = [bindings EXCEPT ![p] = Append(@, b)]
    /\ UNCHANGED exchanges

DeclarationRefused(p) ==
    /\ Hears(p)
    /\ shut' = shut \cup {p}
    /\ UNCHANGED <<exchanges, bindings, content, confirmMode, waiting, appends, outstanding, grant,
                   revoked, stored, started, completed, answers, topology>>

\* A queue is bound to the default exchange under its own name each time it is
\* declared; the queue manager refuses to change a protected queue.
QueueDeclare(p, q) ==
    \/ Bind(p, [queue |-> q, exchange |-> DefaultExchange, key |-> q])
    \/ grant[p] = "external" /\ q = Stream /\ DeclarationRefused(p)

QueueUnbind(p, b) ==
    /\ Topology(p)
    /\ bindings' = [bindings EXCEPT ![p] = SelectSeq(@, LAMBDA c : c # b)]
    /\ UNCHANGED exchanges

QueueDelete(p, q) ==
    /\ Topology(p)
    /\ bindings' = [bindings EXCEPT ![p] = SelectSeq(@, LAMBDA c : c.queue # q)]
    /\ UNCHANGED exchanges

\* authorizeLocalMethod, denyLocalMethod.
DenyMethod(p) == grant[p] # "external" /\ DeclarationRefused(p)

ExchangeExists(p, x) == x = DefaultExchange \/ x \in DOMAIN exchanges[p]

ExchangeDeclarePassive(p, x) ==
    grant[p] = "external" /\ ~ ExchangeExists(p, x) /\ DeclarationRefused(p)

\* routingKeyMatches; "#" is the pattern of a topic exchange that matches all.
RoutingKeyMatches(p, b, key) ==
    \/ b.key = key
    \/ /\ b.exchange \in DOMAIN exchanges[p]
       /\ \/ exchanges[p][b.exchange] = "fanout"
          \/ exchanges[p][b.exchange] = "topic" /\ b.key = "#"

\* The queues a publication is put in through bindings, one per binding.
Bound(p, t) ==
    LET match == SelectSeq(bindings[p], LAMBDA b : b.exchange = t.exchange
                                                    /\ RoutingKeyMatches(p, b, t.key))
    IN  [i \in DOMAIN match |-> match[i].queue]

(***************************************************************************)
(* Confirms.  The number of a confirm counts the confirms sent, not the    *)
(* publications.                                                           *)
(***************************************************************************)
(* Mutant: a failed publication is not answered. *)
ConfirmedOnSuccess(p, pub, into, ok) ==
    IF confirmMode[p] /\ ok
    THEN [answers EXCEPT ![p] = Append(@, [seq |-> Len(@) + 1, ok |-> ok, pub |-> pub, into |-> into])]
    ELSE answers

Confirmed(p, pub, into, ok) ==
    IF confirmMode[p]
    THEN [answers EXCEPT ![p] = Append(@, [seq |-> Len(@) + 1, ok |-> ok, pub |-> pub, into |-> into])]
    ELSE answers

Complete(p, pub) ==
    /\ content' = [content EXCEPT ![p] = Nothing]
    /\ completed' = IF confirmMode[p] THEN [completed EXCEPT ![p] = Append(@, pub)] ELSE completed
    /\ UNCHANGED <<exchanges, bindings, confirmMode, grant, revoked, started, topology>>

Refuse(p) == shut' = shut \cup {p}

(***************************************************************************)
(* The route of a complete publication (completePublish).                  *)
(***************************************************************************)
\* The queue manager's Publish, for each of these queues in turn.  One that
\* fails may have stored the message all the same.
QueuePublish(pub, queues, failed, kept) ==
    /\ failed \subseteq DOMAIN queues /\ kept \subseteq failed
    /\ stored' = stored \cup {<<pub, queues[i]>> : i \in (DOMAIN queues \ failed) \cup kept}

\* A queue's or stream's own name: without confirms a failure ends the channel.
HandleQueuePublish(p, pub, q, failed, kept) ==
    /\ QueuePublish(pub, <<q>>, failed, kept)
    /\ answers' = Confirmed(p, pub, {q}, failed = {})
    /\ shut' = IF failed = {} \/ confirmMode[p] THEN shut ELSE shut \cup {p}

(* Mutant: the last bound queue decides. *)
PublishFailedLast(queues, failed) == Len(queues) \in failed

PublishFailed(queues, failed) == failed # {}

\* Queues bound to the exchange: without confirms a failure is only logged.
PublishToBound(p, pub, queues, failed, kept) ==
    /\ QueuePublish(pub, queues, failed, kept)
    /\ answers' = Confirmed(p, pub, Range(queues), ~ PublishFailed(queues, failed))
    /\ UNCHANGED shut

\* publishToPubSub: a mandatory message nobody subscribes to is returned, and
\* acknowledged; the router's or the cluster's failure is a negative confirm.
PublishToPubSub(p, pub, ok) ==
    /\ answers' = Confirmed(p, pub, {}, ok)
    /\ UNCHANGED <<shut, stored>>

Pub(p) == <<p, started[p]>>

CompletePublish(p) ==
    LET t == content[p].target
        pub == Pub(p)
        bound == Bound(p, t)
        route == IF t.exchange = DefaultExchange THEN Routes[t.key] ELSE "pubsub"
    IN  /\ Complete(p, pub)
        /\ UNCHANGED <<waiting, appends, outstanding>>
        /\ \/ p \in revoked /\ Refuse(p) /\ UNCHANGED <<stored, answers>>
           \/ /\ p \notin revoked
              /\ grant[p] # "exact"
              /\ IF grant[p] = "prefix" THEN \E ok \in BOOLEAN : PublishToPubSub(p, pub, ok)
                 ELSE CASE route = "commit" ->
                              answers' = Confirmed(p, pub, {}, TRUE) /\ UNCHANGED <<shut, stored>>
                        [] route = "malformed" -> UNCHANGED <<shut, stored, answers>>
                        [] route = "queue" ->
                              \E failed, kept \in SUBSET {1} : HandleQueuePublish(p, pub, t.key, failed, kept)
                        [] route = "pubsub" /\ bound # <<>> ->
                              \E failed, kept \in SUBSET (DOMAIN bound) :
                                  PublishToBound(p, pub, bound, failed, kept)
                        [] OTHER -> \E ok \in BOOLEAN : PublishToPubSub(p, pub, ok)

(***************************************************************************)
(* An exact grant: the record is appended and synced to the protected      *)
(* stream by a goroutine of its own.                                       *)
(***************************************************************************)
Reject(p, pub) ==
    /\ answers' = Confirmed(p, pub, {Stream}, FALSE)
    /\ shut' = IF confirmMode[p] THEN shut ELSE shut \cup {p}

Abandon(p, pub) ==
    /\ answers' = Confirmed(p, pub, {Stream}, FALSE)
    /\ shut' = shut \cup {p}

StreamPublish(p) ==
    /\ Complete(p, Pub(p))
    /\ p \notin revoked /\ grant[p] = "exact"
    /\ \/ /\ content[p].target.exchange # DefaultExchange
          /\ Reject(p, Pub(p)) /\ UNCHANGED <<waiting, appends, outstanding>>
       \/ /\ content[p].target.exchange = DefaultExchange /\ outstanding >= MaxOutstanding
          /\ Abandon(p, Pub(p)) /\ UNCHANGED <<waiting, appends, outstanding>>
       \/ /\ content[p].target.exchange = DefaultExchange /\ outstanding < MaxOutstanding
          /\ outstanding' = outstanding + 1
          /\ appends' = appends \cup {[pub |-> Pub(p), at |-> "barrier"]}
          /\ waiting' = [waiting EXCEPT ![p] = [at |-> "append", pub |-> Pub(p)]]
          /\ UNCHANGED <<answers, shut>>
    /\ UNCHANGED stored

\* The append returns: its result is handed over before its slot is given back.
AppendReturns(a, ok, kept) ==
    /\ a \in appends /\ a.at = "barrier"
    /\ appends' = (appends \ {a}) \cup {[a EXCEPT !.at = IF ok THEN "ok" ELSE "failed"]}
    /\ stored' = IF ok \/ kept THEN stored \cup {<<a.pub, Stream>>} ELSE stored
    /\ UNCHANGED <<exchanges, bindings, content, confirmMode, shut, waiting, outstanding, grant, revoked,
                   started, completed, answers, topology>>

ReleaseSlot(a) ==
    /\ a \in appends /\ a.at \in {"ok", "failed"}
    /\ \A p \in Publishers : waiting[p] # [at |-> "append", pub |-> a.pub]
    /\ appends' = appends \ {a}
    /\ outstanding' = outstanding - 1
    /\ UNCHANGED <<exchanges, bindings, content, confirmMode, shut, waiting, grant, revoked, stored,
                   started, completed, answers, topology>>

AppendAnswered(p) ==
    \E a \in appends :
        /\ waiting[p] = [at |-> "append", pub |-> a.pub]
        /\ \/ a.at = "ok" /\ answers' = Confirmed(p, a.pub, {Stream}, TRUE) /\ UNCHANGED shut
           \/ a.at = "failed" /\ Reject(p, a.pub)
        /\ waiting' = [waiting EXCEPT ![p] = Nothing]
        /\ UNCHANGED <<exchanges, bindings, content, confirmMode, appends, outstanding, grant, revoked,
                       stored, started, completed, topology>>

(* Mutant: a publisher that stops waiting gives the slot back. *)
DeadlineReleases(p) ==
    /\ waiting[p] # Nothing
    /\ Abandon(p, waiting[p].pub)
    /\ waiting' = [waiting EXCEPT ![p] = Nothing]
    /\ outstanding' = outstanding - 1
    /\ UNCHANGED <<exchanges, bindings, content, confirmMode, appends, grant, revoked,
                   stored, started, completed, topology>>

\* localPublishTimeout: the outcome stays open and so does the slot.
Deadline(p) ==
    /\ waiting[p] # Nothing
    /\ Abandon(p, waiting[p].pub)
    /\ waiting' = [waiting EXCEPT ![p] = Nothing]
    /\ UNCHANGED <<exchanges, bindings, content, confirmMode, appends, outstanding, grant, revoked,
                   stored, started, completed, topology>>

(***************************************************************************)
(* Frames of the client.                                                   *)
(***************************************************************************)
Unrouted == <<exchanges, bindings, confirmMode, waiting, appends, outstanding, grant, revoked, stored,
              completed, answers, topology>>

ConfirmSelect(p) ==
    /\ Hears(p) /\ ~ confirmMode[p]
    /\ confirmMode' = [confirmMode EXCEPT ![p] = TRUE]
    /\ UNCHANGED <<exchanges, bindings, content, shut, waiting, appends, outstanding, grant, revoked,
                   stored, started, completed, answers, topology>>

BasicPublish(p, t) ==
    /\ Hears(p) /\ started[p] < MaxPublishes[p]
    /\ started' = [started EXCEPT ![p] = @ + 1]
    /\ IF \/ p \in revoked /\ grant[p] # "external"
          \/ content[p] # Nothing
          \/ ~ ExchangeExists(p, t.exchange)
       THEN Refuse(p) /\ content' = [content EXCEPT ![p] = Nothing]
       ELSE content' = [content EXCEPT ![p] = [at |-> "method", target |-> t]] /\ UNCHANGED shut
    /\ UNCHANGED Unrouted

\* A header announces the size of the body; one that is malformed, too large or
\* out of place ends the channel.
HeaderFrame(p, size) ==
    /\ Hears(p)
    /\ \/ /\ content[p].at = "method"
          /\ content' = [content EXCEPT ![p] = [at |-> "body", target |-> @.target, size |-> size, got |-> 0]]
          /\ UNCHANGED shut
       \/ Refuse(p) /\ content' = [content EXCEPT ![p] = Nothing]
    /\ UNCHANGED <<Unrouted, started>>

BodyFrame(p, n) ==
    /\ Hears(p)
    /\ IF content[p].at # "body" \/ content[p].got + n > content[p].size
       THEN Refuse(p) /\ content' = [content EXCEPT ![p] = Nothing]
       ELSE /\ content[p].got + n < content[p].size
            /\ content' = [content EXCEPT ![p].got = @ + n]
            /\ UNCHANGED shut
    /\ UNCHANGED <<Unrouted, started>>

\* The frame that completes the message: the last of its body, or the header of
\* an empty one.
LastFrame(p) ==
    /\ Hears(p) /\ content[p].at \in {"method", "body"}
    /\ CompletePublish(p) \/ StreamPublish(p)

Revoke(p) ==
    /\ revoked = {}
    /\ revoked' = {p}
    /\ UNCHANGED <<exchanges, bindings, content, confirmMode, shut, waiting, appends, outstanding, grant,
                   stored, started, completed, answers, topology>>

Exchanges == {t.exchange : t \in Targets} \ {DefaultExchange}

PublishNext ==
    \/ \E p \in Publishers :
         \/ ConfirmSelect(p) \/ LastFrame(p) \/ AppendAnswered(p) \/ Deadline(p) \/ Revoke(p)
         \/ DenyMethod(p)
         \/ HeaderFrame(p, BodySize)
         \/ \E n \in {1, BodySize + 1} : BodyFrame(p, n)
         \/ \E t \in Targets : BasicPublish(p, t)
         \/ \E x \in Exchanges :
              \/ \E type \in Types : ExchangeDeclare(p, x, type)
              \/ ExchangeDelete(p, x)
              \/ ExchangeDeclarePassive(p, x)
         \/ \E b \in Bindings : Bind(p, b) \/ QueueUnbind(p, b)
         \/ \E q \in Queues : QueueDeclare(p, q) \/ QueueDelete(p, q)
    \/ \E a \in appends :
         \/ ReleaseSlot(a)
         \/ \E ok, kept \in BOOLEAN : AppendReturns(a, ok, kept)

PublishSpec == PublishInit /\ [][PublishNext]_publishVars

(***************************************************************************)
(* Properties                                                              *)
(***************************************************************************)
\* A publisher can rely on its confirms: the n-th one has the number n and
\* answers the n-th publication made in confirm mode, and a positive one is
\* sent only when every queue, or the stream, the publication was routed to
\* holds it.
ConfirmsAreTrue ==
    \A p \in Publishers : \A i \in DOMAIN answers[p] :
        LET a == answers[p][i]
        IN  /\ a.seq = i
            /\ a.pub = completed[p][i]
            /\ a.ok => \A q \in a.into : <<a.pub, q>> \in stored

\* No more appends wait for the stream's storage than the limit, those that
\* every publisher has given up on included.
AppendsBounded ==
    /\ Cardinality({a \in appends : a.at = "barrier"}) <= MaxOutstanding
    /\ outstanding = Cardinality(appends)
=============================================================================
