--------------------------- MODULE StreamDelivery ---------------------------
(***************************************************************************)
(* Delivery of a stream queue to one auto-commit group: the schedule and   *)
(* the delivery engine (queue/delivery_schedule.go, delivery_engine.go),   *)
(* the cursor of the group (queue/consumer/manager.go, state_machine.go)   *)
(* and the callers of the pull API that read through the same cursor       *)
(* (server/queue/handler.go).                                              *)
(*                                                                         *)
(* A reader peeks at the records from the cursor on, delivers them, and    *)
(* moves the cursor only then.  Group lock and schedule lock make single   *)
(* calls atomic; delivery happens between them.  The log is an interval of *)
(* offsets, and Passing says which records the group's filter lets through *)
(* (the others are of another topic, expired or undecodable).              *)
(*                                                                         *)
(* Left out: groups settled by hand (ConsumerGroup has the pending list),  *)
(* the change of a group from one to the other, the leadership fence of    *)
(* replicated queues, and the queues that share the schedule, of which     *)
(* only the effect on its channel shows: it can be full.                   *)
(***************************************************************************)
EXTENDS Naturals, FiniteSets

CONSTANTS
    LocalConsumers,   \* consumers connected to this node
    RemoteConsumers,  \* consumers of the group on other nodes
    Pullers,          \* callers of Consume
    Streamers,        \* callers of ConsumeQueue
    Passing,          \* offsets of the records the filter lets through
    BatchSize,        \* records a reader asks for
    MaxCursorScan,    \* records examined in one call
    Backlog,          \* records in the log when the group is created, at its start
    StreamBudgets     \* bounds: [appends, truncates, faults, leaves, joins, full, pulls, stops]

ASSUME StreamAssumption == Passing \subseteq Nat /\ Backlog \in Nat

VARIABLES
    low, high,    \* the log holds the offsets low .. high - 1
    position,     \* the next offset the group reads
    settledTo,    \* its committed offset
    joined,       \* consumers registered in the group
    reachable,    \* consumers whose client is connected
    enqueued,     \* the queue is marked as scheduled
    channel,      \* its entries in the schedule's channel
    scheduling,   \* writer -> it is between marking the queue and sending it
    engine,       \* the delivery engine
    pull,         \* API caller -> its call
    exposed,      \* offsets handed to some consumer
    spare         \* what is left of the bounds

streamVars == <<low, high, position, settledTo, joined, reachable, enqueued, channel, scheduling,
                engine, pull, exposed, spare>>

StreamConsumers == LocalConsumers \cup RemoteConsumers
Callers == Pullers \cup Streamers
ConsumeBound(what) == spare[what] > 0 /\ spare' = [spare EXCEPT ![what] = @ - 1]

(***************************************************************************)
(* Schedule marks the queue under its lock, unless it is marked, and then  *)
(* sends it to the channel; if the channel is full the mark is taken off   *)
(* and the queue waits for the next sweep.                                 *)
(***************************************************************************)
Writer == "writer"
Engine == "engine"

ScheduleMark(w) ==
    /\ enqueued' = TRUE
    /\ scheduling' = [scheduling EXCEPT ![w] = ~ enqueued]

MarkDelivered == enqueued' = FALSE

ScheduleSend(w) ==
    /\ scheduling[w]
    /\ scheduling' = [scheduling EXCEPT ![w] = FALSE]
    /\ channel' = channel + 1
    /\ UNCHANGED <<low, high, position, settledTo, joined, reachable, enqueued, engine, pull,
                   exposed, spare>>

\* Mutant: the mark stays when the channel is full.
ScheduleFullKeepsMark(w) ==
    /\ scheduling[w]
    /\ ConsumeBound("full")
    /\ scheduling' = [scheduling EXCEPT ![w] = FALSE]
    /\ UNCHANGED <<low, high, position, settledTo, joined, reachable, enqueued, channel, engine,
                   pull, exposed>>

ScheduleFull(w) ==
    /\ scheduling[w]
    /\ ConsumeBound("full")
    /\ scheduling' = [scheduling EXCEPT ![w] = FALSE]
    /\ MarkDelivered
    /\ UNCHANGED <<low, high, position, settledTo, joined, reachable, channel, engine, pull,
                   exposed>>

(***************************************************************************)
(* The log.  An append that succeeded schedules the queue; retention and   *)
(* the API truncate.                                                       *)
(***************************************************************************)
AppendToStream ==
    /\ ConsumeBound("appends")
    /\ ~ scheduling[Writer]
    /\ high' = high + 1
    /\ ScheduleMark(Writer)
    /\ UNCHANGED <<low, position, settledTo, joined, reachable, channel, engine, pull, exposed>>

TruncateStream(offset) ==
    /\ ConsumeBound("truncates")
    /\ offset > low
    /\ low' = offset
    /\ UNCHANGED <<high, position, settledTo, joined, reachable, enqueued, channel, scheduling,
                   engine, pull, exposed>>

(***************************************************************************)
(* peekBatchStreamLocked and updateStreamCursorLocked.                     *)
(***************************************************************************)
PeekFrom == IF position < low THEN low ELSE position
Found(end) == {o \in Passing : PeekFrom <= o /\ o < end}
ScanStops(end) ==
    end = high \/ Cardinality(Found(end)) = BatchSize \/ end - PeekFrom = MaxCursorScan
ScanEnd == CHOOSE end \in PeekFrom .. high :
    ScanStops(end) /\ \A e \in PeekFrom .. (end - 1) : ~ ScanStops(e)

\* Committed follows when the auto-commit interval has passed.
UpdateStreamCursor(next) ==
    /\ position' = IF next > position THEN next ELSE position
    /\ settledTo' \in IF next > position THEN {settledTo, next} ELSE {settledTo}

\* In a call that finds nothing the cursor passes what was examined.
PeekBatchStream ==
    IF Found(ScanEnd) = {} THEN UpdateStreamCursor(ScanEnd) ELSE UNCHANGED <<position, settledTo>>

Least(S) == CHOOSE o \in S : \A p \in S : o <= p

(***************************************************************************)
(* The engine: receive, take off the mark, serve every consumer, and       *)
(* schedule again if anything was delivered.                               *)
(***************************************************************************)
Waiting == [pc |-> "wait", todo |-> {}, who |-> "none", batch |-> {}, next |-> 0, sent |-> 0,
            gave |-> FALSE]

Receive ==
    /\ engine.pc = "wait" /\ channel > 0 /\ ~ scheduling[Engine]
    /\ channel' = channel - 1
    /\ engine' = [engine EXCEPT !.pc = "mark"]
    /\ UNCHANGED <<low, high, position, settledTo, joined, reachable, enqueued, scheduling, pull,
                   exposed, spare>>

\* The ticker: ScheduleAll.
Sweep ==
    /\ engine.pc = "wait" /\ ~ scheduling[Engine]
    /\ ScheduleMark(Engine)
    /\ UNCHANGED <<low, high, position, settledTo, joined, reachable, channel, engine, pull,
                   exposed, spare>>

\* deliverQueueConfig serves the members of the group; deliverToRemoteConsumers
\* serves the remote ones in the same way from the cluster's list.
DeliverQueue ==
    /\ engine.pc = "mark"
    /\ MarkDelivered
    /\ engine' = [engine EXCEPT !.pc = "serve", !.todo = joined]
    /\ UNCHANGED <<low, high, position, settledTo, joined, reachable, channel, scheduling, pull,
                   exposed, spare>>

\* A local consumer whose client is gone is unregistered.
RemoveMember(c) ==
    /\ engine.pc = "serve" /\ c \in engine.todo \cap LocalConsumers
    /\ c \notin reachable
    /\ joined' = joined \ {c}
    /\ engine' = [engine EXCEPT !.todo = @ \ {c}]
    /\ UNCHANGED <<low, high, position, settledTo, reachable, enqueued, channel, scheduling, pull,
                   exposed, spare>>

ConsumeNothing(c) ==
    /\ engine.pc = "serve" /\ c \in engine.todo
    /\ c \in joined => c \in reachable \cup RemoteConsumers
    /\ IF c \notin joined
       THEN UNCHANGED <<position, settledTo>> /\ engine' = [engine EXCEPT !.todo = @ \ {c}]
       ELSE /\ Found(ScanEnd) = {}
            /\ PeekBatchStream
            /\ engine' = [engine EXCEPT !.todo = @ \ {c}, !.gave = @ \/ ScanEnd < high]
    /\ UNCHANGED <<low, high, joined, reachable, enqueued, channel, scheduling, pull, exposed,
                   spare>>

ConsumeBatch(c) ==
    /\ engine.pc = "serve" /\ c \in engine.todo \cap joined
    /\ c \in reachable \cup RemoteConsumers
    /\ Found(ScanEnd) # {}
    /\ PeekBatchStream
    /\ engine' = [engine EXCEPT !.pc = IF c \in RemoteConsumers THEN "route" ELSE "deliver",
                                !.todo = @ \ {c}, !.who = c, !.batch = Found(ScanEnd),
                                !.next = ScanEnd, !.sent = 0]
    /\ UNCHANGED <<low, high, joined, reachable, enqueued, channel, scheduling, pull, exposed,
                   spare>>

DeliverLocal ==
    /\ engine.pc = "deliver" /\ engine.batch # {} /\ engine.who \in reachable
    /\ LET o == Least(engine.batch) IN
       /\ exposed' = exposed \cup {o}
       /\ engine' = [engine EXCEPT !.batch = @ \ {o}, !.sent = o + 1, !.gave = TRUE]
    /\ UNCHANGED <<low, high, position, settledTo, joined, reachable, enqueued, channel, scheduling,
                   pull, spare>>

\* Mutant: the cursor passes the whole batch although its delivery stopped.
CommittedCursorWhole == engine.next

\* Where the cursor goes after a delivery that did not fail, or stopped.
CommittedCursor == IF engine.batch = {} THEN engine.next ELSE engine.sent

\* A failed delivery ends the batch; a client that is gone is unregistered.
DeliverLocalFails ==
    /\ engine.pc = "deliver" /\ engine.batch # {}
    /\ IF engine.who \in reachable
       THEN ConsumeBound("faults") /\ UNCHANGED joined
       ELSE joined' = joined \ {engine.who} /\ UNCHANGED spare
    /\ engine' = [engine EXCEPT !.pc = IF engine.sent > 0 THEN "commit" ELSE "serve"]
    /\ UNCHANGED <<low, high, position, settledTo, reachable, enqueued, channel, scheduling, pull,
                   exposed>>

DeliverLocalEnds ==
    /\ engine.pc = "deliver" /\ engine.batch = {}
    /\ engine' = [engine EXCEPT !.pc = "commit"]
    /\ UNCHANGED <<low, high, position, settledTo, joined, reachable, enqueued, channel, scheduling,
                   pull, exposed, spare>>

RouteRemoteBatch ==
    /\ engine.pc = "route" /\ engine.who \in reachable
    /\ exposed' = exposed \cup engine.batch
    /\ engine' = [engine EXCEPT !.pc = "commit", !.batch = {}, !.gave = TRUE]
    /\ UNCHANGED <<low, high, position, settledTo, joined, reachable, enqueued, channel, scheduling,
                   pull, spare>>

\* The batch fails after a part of it, and its single records after it; the
\* cursor stays.  A client that is gone is unregistered.
RouteRemoteBatchFails ==
    /\ engine.pc = "route"
    /\ IF engine.who \in reachable
       THEN /\ ConsumeBound("faults")
            /\ \E o \in engine.batch : exposed' = exposed \cup {p \in engine.batch : p < o}
            /\ UNCHANGED joined
       ELSE joined' = joined \ {engine.who} /\ UNCHANGED <<exposed, spare>>
    /\ engine' = [engine EXCEPT !.pc = "serve"]
    /\ UNCHANGED <<low, high, position, settledTo, reachable, enqueued, channel, scheduling, pull>>

\* commitStreamCursor; an error is logged.
CommitStreamCursor ==
    /\ engine.pc = "commit"
    /\ \/ UpdateStreamCursor(CommittedCursor) /\ UNCHANGED spare
       \/ ConsumeBound("faults") /\ UNCHANGED <<position, settledTo>>
    /\ engine' = [engine EXCEPT !.pc = "serve"]
    /\ UNCHANGED <<low, high, joined, reachable, enqueued, channel, scheduling, pull, exposed>>

DeliverQueueEnds ==
    /\ engine.pc = "serve" /\ engine.todo = {}
    /\ engine' = Waiting
    /\ IF engine.gave THEN ScheduleMark(Engine) ELSE UNCHANGED <<enqueued, scheduling>>
    /\ UNCHANGED <<low, high, position, settledTo, joined, reachable, channel, pull, exposed,
                   spare>>

(***************************************************************************)
(* The pull API.  Consume moves the cursor and answers; ConsumeQueue sends *)
(* the records of a round one by one and then moves it.                    *)
(***************************************************************************)
NoCall == [pc |-> "idle", batch |-> {}, next |-> 0]

PullPeek(p) ==
    /\ pull[p] = NoCall
    /\ ConsumeBound("pulls")
    /\ PeekBatchStream
    /\ pull' = IF Found(ScanEnd) = {} THEN pull
               ELSE [pull EXCEPT ![p] = [pc |-> IF p \in Pullers THEN "commit" ELSE "send",
                                         batch |-> Found(ScanEnd), next |-> ScanEnd]]
    /\ UNCHANGED <<low, high, joined, reachable, enqueued, channel, scheduling, engine, exposed>>

\* A Send that fails ends the call and leaves the cursor.
PullSend(p) ==
    /\ pull[p].pc = "send"
    /\ \/ /\ exposed' = exposed \cup {Least(pull[p].batch)}
          /\ pull' = [pull EXCEPT ![p].batch = @ \ {Least(@)},
                                  ![p].pc = IF Cardinality(pull[p].batch) = 1 THEN "commit"
                                            ELSE "send"]
          /\ UNCHANGED spare
       \/ ConsumeBound("faults") /\ pull' = [pull EXCEPT ![p] = NoCall] /\ UNCHANGED exposed
    /\ UNCHANGED <<low, high, position, settledTo, joined, reachable, enqueued, channel, scheduling,
                   engine>>

PullCommit(p) ==
    /\ pull[p].pc = "commit"
    /\ pull' = [pull EXCEPT ![p] = NoCall]
    /\ \/ /\ UpdateStreamCursor(pull[p].next)
          /\ exposed' = exposed \cup pull[p].batch
          /\ UNCHANGED spare
       \/ ConsumeBound("faults") /\ UNCHANGED <<position, settledTo, exposed>>
    /\ UNCHANGED <<low, high, joined, reachable, enqueued, channel, scheduling, engine>>

\* ackStream: AdvanceCommitted.
AckStream(offset) ==
    /\ settledTo < offset + 1 /\ offset + 1 <= position
    /\ settledTo' = offset + 1
    /\ UNCHANGED <<low, high, position, joined, reachable, enqueued, channel, scheduling, engine,
                   pull, exposed, spare>>

(***************************************************************************)
(* Consumers come and go, and the node stops and starts.  The cursor is    *)
(* stored; schedule and engine begin anew.                                 *)
(***************************************************************************)
Join(c) ==
    /\ ConsumeBound("joins")
    /\ joined' = joined \cup {c}
    /\ reachable' = reachable \cup {c}
    /\ UNCHANGED <<low, high, position, settledTo, enqueued, channel, scheduling, engine, pull,
                   exposed>>

Leave(c) ==
    /\ ConsumeBound("leaves")
    /\ c \in reachable
    /\ reachable' = reachable \ {c}
    /\ UNCHANGED <<low, high, position, settledTo, joined, enqueued, channel, scheduling, engine,
                   pull, exposed>>

StopAndStart ==
    /\ ConsumeBound("stops")
    /\ enqueued' = FALSE
    /\ channel' = 0
    /\ scheduling' = [w \in {Writer, Engine} |-> FALSE]
    /\ engine' = Waiting
    /\ pull' = [p \in Callers |-> NoCall]
    /\ UNCHANGED <<low, high, position, settledTo, joined, reachable, exposed>>

StreamInit ==
    /\ low = 0 /\ high = Backlog /\ position = 0 /\ settledTo = 0
    /\ joined = StreamConsumers
    /\ reachable = StreamConsumers
    /\ enqueued = FALSE
    /\ channel = 0
    /\ scheduling = [w \in {Writer, Engine} |-> FALSE]
    /\ engine = Waiting
    /\ pull = [p \in Callers |-> NoCall]
    /\ exposed = {}
    /\ spare \in StreamBudgets

EngineStep ==
    \/ Receive \/ DeliverQueue \/ DeliverLocal \/ DeliverLocalFails \/ DeliverLocalEnds
    \/ RouteRemoteBatch \/ RouteRemoteBatchFails \/ CommitStreamCursor \/ DeliverQueueEnds
    \/ \E c \in StreamConsumers : RemoveMember(c) \/ ConsumeNothing(c) \/ ConsumeBatch(c)

StreamNext ==
    \/ EngineStep \/ Sweep
    \/ \E w \in {Writer, Engine} : ScheduleSend(w) \/ ScheduleFull(w)
    \/ AppendToStream \/ StopAndStart
    \/ \E o \in 0 .. high : TruncateStream(o) \/ AckStream(o)
    \/ \E p \in Callers : PullPeek(p) \/ PullSend(p) \/ PullCommit(p)
    \/ \E c \in StreamConsumers : Join(c) \/ Leave(c)

\* The engine is a goroutine that does not wait for anything but its channel
\* and its ticker, and a select that is ready for ever with both takes each in
\* turn; Schedule does not block.
StreamFairness ==
    /\ WF_streamVars(EngineStep)
    /\ SF_streamVars(Sweep)
    /\ \A w \in {Writer, Engine} : WF_streamVars(ScheduleSend(w) \/ ScheduleFull(w))

StreamSpec == StreamInit /\ [][StreamNext]_streamVars
FairStreamSpec == StreamSpec /\ StreamFairness

(***************************************************************************)
(* Properties.                                                             *)
(***************************************************************************)
\* The cursor of an auto-commit group never passes a record of its filter that
\* was handed to nobody and is still in the log: the engine and the callers of
\* the API peek at the same records and move the cursor in any order, batches
\* are delivered in part, and remote batches fail.
StreamNoSkip ==
    \A o \in Passing : o < position => o \in exposed \/ o < low

\* A record of the group's filter is delivered in the end unless it is
\* truncated or the group stays without a member: a full channel drops a
\* trigger but not the queue's chance to be scheduled by the next sweep.
EventuallyDelivered ==
    \A o \in Passing :
        high > o ~> (o \in exposed \/ o < low \/ [](joined = {}))
=============================================================================
