--------------------------- MODULE ConsumerGroup ---------------------------
(***************************************************************************)
(* One classic (queue-mode) consumer group over one durable queue log:     *)
(* queue/consumer/manager.go on top of the file-backed group store         *)
(* (logstorage/adapter.go, logstorage/consumer_state.go).                  *)
(*                                                                         *)
(* Every exported operation of consumer.Manager holds the group's lock     *)
(* from start to end, so it is one action.  The exception is a dead-letter *)
(* transfer: the lock is released around the write to the destination and  *)
(* the entry is only reserved, so Reject and the poison sweep are three    *)
(* actions each (prepare, append, finish) and everything else interleaves  *)
(* with them.  Retention reads the committed offset without the lock and   *)
(* truncates later: two actions.                                           *)
(*                                                                         *)
(* Time is abstract: a lease lapses (Lapse) and a record expires (Expire)  *)
(* whenever the environment says so.                                       *)
(***************************************************************************)
EXTENDS Naturals, FiniteSets

CONSTANTS
    Consumers,         \* consumer IDs that may join the group
    Nobody,            \* the owner of an offset that is not pending
    MaxOffset,         \* bound: records ever appended to the log
    MaxPELSize,        \* Config.MaxPELSize
    MaxDeliveryCount,  \* Config.MaxDeliveryCount
    MaxBatch,          \* largest limit a ClaimBatch call asks for
    ScanBudget,        \* maxCursorScan
    MaxRestarts,       \* bound: crashes of the broker process
    DLQOutcomes        \* what the destination write may do in this instance

ASSUME ConsumerGroupAssumption ==
    /\ Nobody \notin Consumers
    /\ MaxOffset \in Nat /\ MaxPELSize \in Nat \ {0}
    /\ MaxDeliveryCount \in Nat \ {0} /\ MaxBatch \in Nat \ {0}
    /\ ScanBudget \in Nat \ {0} /\ MaxRestarts \in Nat
    /\ DLQOutcomes \subseteq {"appended", "unconfirmed", "failed", "unavailable"}

VARIABLES
    head,       \* first offset retention has left in the log
    tail,       \* next offset an append takes
    record,     \* offset -> what a claim would make of the record there
    cursor,     \* next offset the group scans
    committed,  \* the group's safe floor
    pel,        \* offset -> pending entry, NoEntry when not pending
    members,    \* registered consumers
    transfer,   \* offset -> reservation by a dead-letter transfer
    poison,     \* offset -> the sweeper's tracking state
    safePoint,  \* committed offset a retention pass has read, 0 when none runs
    dlq,        \* offsets whose record the dead-letter queue holds
    acked,      \* history: offsets a consumer acknowledged
    dropped,    \* history: offsets passed over (expired, filtered, undecodable)
    restarts    \* crashes so far

vars == <<head, tail, record, cursor, committed, pel, members,
          transfer, poison, safePoint, dlq, acked, dropped, restarts>>

Offsets == 0 .. MaxOffset - 1

\* Delivery counts are only compared with MaxDeliveryCount, so they saturate
\* one above it.
Bump(n) == IF n > MaxDeliveryCount THEN n ELSE n + 1

\* types.PendingEntry.  lease is ClaimedAt seen from the visibility timeout.
NoEntry == [owner |-> Nobody, count |-> 0, lease |-> "held"]
Entry   == [owner : Consumers, count : 1 .. MaxDeliveryCount + 1,
            lease : {"held", "lapsed"}]

\* Manager.transfers and what the running transfer will report.
NoTransfer == [by |-> "none", owner |-> Nobody, stage |-> "idle"]
Transfer   == [by : {"reject", "sweep"}, owner : Consumers,
               stage : {"append", "done", "failed", "unavailable"}]

Pending   == {o \in Offsets : pel[o] # NoEntry}
Reserved  == {o \in Offsets : transfer[o] # NoTransfer}
Settled   == acked \cup dropped \cup dlq

\* A group whose consumers are registered already.
InitWith(registered) ==
    /\ head = 0 /\ tail = 0 /\ record = [o \in Offsets |-> "absent"]
    /\ cursor = 0 /\ committed = 0
    /\ pel = [o \in Offsets |-> NoEntry]
    /\ members = registered
    /\ transfer = [o \in Offsets |-> NoTransfer]
    /\ poison = [o \in Offsets |-> "untracked"]
    /\ safePoint = 0
    /\ dlq = {} /\ acked = {} /\ dropped = {} /\ restarts = 0

Init == InitWith({})

----------------------------------------------------------------------------
(* The log and its clock.                                                  *)

\* A record is "unclaimable" when the group can never be handed it: its
\* envelope does not decode, or its topic is outside the group's filter.
Append(kind) ==
    /\ tail < MaxOffset
    /\ tail' = tail + 1
    /\ record' = [record EXCEPT ![tail] = kind]
    /\ UNCHANGED <<head, cursor, committed, pel, members, transfer, poison,
                   safePoint, dlq, acked, dropped, restarts>>

\* Only an expiry the group can still notice: of a record it has not passed or
\* has not settled.
Expire(o) ==
    /\ record[o] = "live"
    /\ cursor <= o \/ o \in Pending
    /\ record' = [record EXCEPT ![o] = "expired"]
    /\ UNCHANGED <<head, tail, cursor, committed, pel, members, transfer,
                   poison, safePoint, dlq, acked, dropped, restarts>>

Lapse(o) ==
    /\ pel[o].lease = "held" /\ pel[o] # NoEntry
    /\ pel' = [pel EXCEPT ![o].lease = "lapsed"]
    /\ UNCHANGED <<head, tail, record, cursor, committed, members, transfer,
                   poison, safePoint, dlq, acked, dropped, restarts>>

----------------------------------------------------------------------------
(* Membership.                                                             *)

RegisterConsumer(c) ==
    /\ c \notin members
    /\ members' = members \cup {c}
    /\ UNCHANGED <<head, tail, record, cursor, committed, pel, transfer,
                   poison, safePoint, dlq, acked, dropped, restarts>>

\* Mutant: a leaving consumer takes its pending entries with it.
UnregisterConsumerDropsEntries(c) ==
    /\ c \in members
    /\ members' = members \ {c}
    /\ pel' = [o \in Offsets |-> IF pel[o].owner = c THEN NoEntry ELSE pel[o]]
    /\ UNCHANGED <<head, tail, record, cursor, committed, transfer,
                   poison, safePoint, dlq, acked, dropped, restarts>>

UnregisterConsumer(c) ==
    /\ c \in members
    /\ members' = members \ {c}
    /\ UNCHANGED <<head, tail, record, cursor, committed, pel, transfer,
                   poison, safePoint, dlq, acked, dropped, restarts>>

\* Every member whose heartbeat is older than the consumer timeout at once.
CleanupStaleConsumers(stale) ==
    /\ stale # {} /\ stale \subseteq members
    /\ members' = members \ stale
    /\ UNCHANGED <<head, tail, record, cursor, committed, pel, transfer,
                   poison, safePoint, dlq, acked, dropped, restarts>>

----------------------------------------------------------------------------
(* Claiming.                                                               *)

\* Mutant: every scan starts at the head of the log.
ScanStartAtHead == head

ScanStart == IF head > cursor THEN head ELSE cursor

\* What the scan of the offsets before stop hands out.
Claimable(stop) ==
    {o \in Offsets : ScanStart <= o /\ o < stop /\ record[o] = "live"}

\* A run of claimFromCursor calls, each examining at most ScanBudget records,
\* takes the live records up to stop: it ends because the batch or the pending
\* list is full, at the tail, or at the end of one call's scan budget.
ClaimFromCursor(limit, stop) ==
    LET taken == Claimable(stop)
        n     == Cardinality(taken)
        used  == Cardinality(Pending)
        room  == IF used < MaxPELSize THEN MaxPELSize - used ELSE 0
    IN  /\ n <= limit /\ n <= room
        /\ \A o \in taken : \/ o - ScanStart < ScanBudget
                            \/ \E p \in taken : p < o /\ o - p <= ScanBudget
        /\ \E next \in ScanStart .. stop :
              /\ \A o \in taken : o < next
              /\ next = ScanStart \/ next - 1 \in taken
              /\ IF n = limit \/ n = room
                 THEN stop = next
                 ELSE \/ stop = tail /\ stop <= next + ScanBudget
                      \/ stop < tail /\ stop = next + ScanBudget

\* ConsumerGroup.StealableEntries: another consumer's entry, lapsed or held
\* by a consumer that left.
Stealable(c) ==
    {o \in Pending : /\ pel[o].owner # c
                     /\ pel[o].owner \notin members \/ pel[o].lease = "lapsed"}

\* Config.OnDLQ is set: the consumer manager can reach a dead-letter queue.
HasDLQHandler == DLQOutcomes # {}

\* deferPoisonTransfer: the sweeper owns an exhausted entry unless there is no
\* handler, or an earlier sweep found that the queue has no destination.
DeferredToSweep(o) ==
    /\ pel[o].count >= MaxDeliveryCount
    /\ HasDLQHandler /\ poison[o] # "noDestination"

\* Entries the walk of stealWorkFrom removes instead of redelivering.
Dead(seen) == {o \in seen : ~DeferredToSweep(o) /\ record[o] = "expired"}

\* prunePoison, then trackPoisonForSweep on the exhausted entries among those
\* seen, or markPoisonWithoutDestination when there is no handler.
TrackPoison(seen) ==
    [o \in Offsets |->
        IF o \notin Pending THEN "untracked"
        ELSE IF o \in seen /\ pel[o].count >= MaxDeliveryCount /\ poison[o] = "untracked"
             THEN IF HasDLQHandler THEN "tracked" ELSE "noDestination"
        ELSE poison[o]]

Claimed(p, c, o) == [owner |-> c, count |-> Bump(p[o].count), lease |-> "held"]

\* Stealable entries no transfer has reserved, and those of them that the walk
\* of stealWorkFrom hands out.
Walk(c)  == Stealable(c) \ Reserved
Ready(c) == {o \in Walk(c) : record[o] = "live" /\ head <= o /\ ~DeferredToSweep(o)}

\* Map iteration decides which entries come first; a walk that ends short of
\* what is wanted has seen every one.
StealWork(c, want, stolen, seen) ==
    /\ Cardinality(stolen) <= want
    /\ Cardinality(stolen) < want => stolen = Ready(c) /\ seen = Walk(c) \ Ready(c)
    /\ want = 0 => seen = {}

\* What a claim leaves behind: new entries for the records taken up to stop, a
\* new owner for the stolen ones, and no entry for those found expired.
Deliver(c, taken, stop, stolen, seen) ==
    /\ pel' = [o \in Offsets |->
          IF o \in taken THEN [owner |-> c, count |-> 1, lease |-> "held"]
          ELSE IF o \in stolen THEN Claimed(pel, c, o)
          ELSE IF o \in Dead(seen) THEN NoEntry
          ELSE pel[o]]
    /\ cursor' = IF stop > ScanStart THEN stop ELSE cursor
    /\ dropped' = dropped \cup Dead(seen)
          \cup {o \in Offsets : ScanStart <= o /\ o < stop /\ o \notin taken}

\* ClaimBatch(limit) first takes new records from the cursor and then, while
\* the batch is short, steals.
ClaimBatch(c) ==
    /\ \E limit \in 1 .. MaxBatch, stop \in ScanStart .. tail :
         /\ ClaimFromCursor(limit, stop)
         /\ LET want == limit - Cardinality(Claimable(stop))
            IN  \E stolen \in SUBSET Ready(c), seen \in SUBSET (Walk(c) \ Ready(c)) :
                  /\ StealWork(c, want, stolen, seen)
                  /\ Deliver(c, Claimable(stop), stop, stolen, seen)
                  /\ poison' = IF want = 0 THEN poison ELSE TrackPoison(seen \cup stolen)
    /\ UNCHANGED <<head, tail, record, committed, members, transfer,
                   safePoint, dlq, acked, restarts>>

\* ClaimPendingBatch, the Claim command of the queue API: any idle entries of
\* other consumers, whatever minIdle the caller names.  It does not look at
\* the reservations of running transfers.
ClaimPendingBatch(c) ==
    \E wanted \in SUBSET {o \in Pending : pel[o].owner # c} :
        /\ wanted # {} /\ Cardinality(wanted) <= MaxBatch
        /\ \A o \in wanted : head <= o
        /\ pel' = [o \in Offsets |->
              IF o \notin wanted THEN pel[o]
              ELSE IF record[o] = "expired" THEN NoEntry
              ELSE Claimed(pel, c, o)]
        /\ dropped' = dropped \cup {o \in wanted : record[o] = "expired"}
    /\ UNCHANGED <<head, tail, record, cursor, committed, members, transfer,
                   poison, safePoint, dlq, acked, restarts>>

----------------------------------------------------------------------------
(* Settlement.                                                             *)

\* Mutant: the floor follows the cursor even while entries are pending.
AdvanceCommittedToCursor == committed' = cursor

\* The committed offset follows the smallest offset still pending, or the
\* cursor when none is, and does not fall.
AdvanceCommitted ==
    IF Pending' = {} THEN committed' = cursor
    ELSE \E low \in Pending' :
            /\ \A o \in Pending' : low <= o
            /\ committed' = IF low > committed THEN low ELSE committed

Remove(o) == [pel EXCEPT ![o] = NoEntry]

\* Mutants: the pending entry outlives the ack; the reservation of a running
\* dead-letter write is not looked at.
AckKeepsEntry(o) ==
    /\ o \in Pending \cup Settled
    /\ o \notin Reserved
    /\ acked' = IF o \in Pending THEN acked \cup {o} ELSE acked
    /\ UNCHANGED <<head, tail, record, cursor, committed, pel, members, transfer,
                   poison, safePoint, dlq, dropped, restarts>>
AckIgnoresReservation(o) ==
    /\ o \in Pending \cup Settled
    /\ pel' = Remove(o)
    /\ AdvanceCommitted
    /\ acked' = IF o \in Pending THEN acked \cup {o} ELSE acked
    /\ UNCHANGED <<head, tail, record, cursor, members, transfer, poison,
                   safePoint, dlq, dropped, restarts>>

\* Ack settles by offset, whoever holds the entry by now: the resolver looked
\* the owner up before the lock was taken, so the entry may also be gone.
Ack(o) ==
    /\ o \in Pending \cup Settled
    /\ o \notin Reserved
    /\ pel' = Remove(o)
    /\ AdvanceCommitted
    /\ acked' = IF o \in Pending THEN acked \cup {o} ELSE acked
    /\ UNCHANGED <<head, tail, record, cursor, members, transfer, poison,
                   safePoint, dlq, dropped, restarts>>

\* The resolver names the current owner, so the ownership test inside the
\* lock passes.  A delay keeps the entry from being stolen until it lapses.
NackWithDelay(o, delayed) ==
    /\ o \in Pending
    /\ o \notin Reserved
    /\ pel' = [pel EXCEPT ![o].lease = IF delayed THEN "held" ELSE "lapsed"]
    /\ UNCHANGED <<head, tail, record, cursor, committed, members, transfer,
                   poison, safePoint, dlq, acked, dropped, restarts>>

PrepareTransfer(o) ==
    /\ o \in Pending /\ HasDLQHandler
    /\ o \notin Reserved
    /\ head <= o
    /\ transfer' = [transfer EXCEPT ![o] =
                      [by |-> "reject", owner |-> pel[o].owner, stage |-> "append"]]
    /\ UNCHANGED <<head, tail, record, cursor, committed, pel, members, poison,
                   safePoint, dlq, acked, dropped, restarts>>

\* SweepPoison on one entry of its work list; one that was settled meanwhile
\* is forgotten.
PreparePoisonTransfer(o) ==
    /\ HasDLQHandler /\ poison[o] # "untracked"
    /\ o \notin Reserved
    /\ IF o \in Pending
       THEN /\ head <= o
            /\ transfer' = [transfer EXCEPT ![o] =
                  [by |-> "sweep", owner |-> pel[o].owner, stage |-> "append"]]
            /\ UNCHANGED poison
       ELSE /\ poison' = [poison EXCEPT ![o] = "untracked"]
            /\ UNCHANGED transfer
    /\ UNCHANGED <<head, tail, record, cursor, committed, pel, members,
                   safePoint, dlq, acked, dropped, restarts>>

\* moveToDLQ, outside the group lock.  The transfer ID is derived from queue,
\* group and offset, and appendTransferOnce keeps one record per ID, so a retry
\* finds the record of an earlier attempt.  "unconfirmed": the record is in the
\* destination but the caller gets an error (a failed fsync, a Raft timeout).
MoveToDLQ(o, outcome) ==
    /\ transfer[o].stage = "append"
    /\ dlq' = IF outcome \in {"appended", "unconfirmed"} THEN dlq \cup {o} ELSE dlq
    /\ transfer' = [transfer EXCEPT ![o].stage =
                      CASE outcome = "appended"    -> "done"
                        [] outcome = "unavailable" -> "unavailable"
                        [] OTHER                   -> "failed"]
    /\ UNCHANGED <<head, tail, record, cursor, committed, pel, members, poison,
                   safePoint, acked, dropped, restarts>>

FinishTransfer(o) ==
    /\ transfer[o].by = "reject"
    /\ transfer[o].stage # "append"
    /\ transfer' = [transfer EXCEPT ![o] = NoTransfer]
    /\ IF transfer[o].stage = "done"
       THEN /\ pel' = Remove(o)
            /\ AdvanceCommitted
       ELSE UNCHANGED <<pel, committed>>
    /\ UNCHANGED <<head, tail, record, cursor, members, poison, safePoint,
                   dlq, acked, dropped, restarts>>

\* Mutant: a failed transfer returns without endTransfer.
FinishPoisonTransferLeaksReservation(o) ==
    /\ transfer[o].by = "sweep"
    /\ transfer[o].stage = "done"
    /\ transfer' = [transfer EXCEPT ![o] = NoTransfer]
    /\ pel' = Remove(o)
    /\ poison' = [poison EXCEPT ![o] = "untracked"]
    /\ UNCHANGED <<head, tail, record, cursor, committed, members, safePoint,
                   dlq, acked, dropped, restarts>>

\* Unlike FinishTransfer this leaves the committed offset alone.
FinishPoisonTransfer(o) ==
    /\ transfer[o].by = "sweep"
    /\ transfer[o].stage # "append"
    /\ transfer' = [transfer EXCEPT ![o] = NoTransfer]
    /\ pel' = IF transfer[o].stage = "done" THEN Remove(o) ELSE pel
    /\ poison' = [poison EXCEPT ![o] =
                    CASE transfer[o].stage = "done"        -> "untracked"
                      [] transfer[o].stage = "unavailable" -> "noDestination"
                      [] OTHER                             -> poison[o]]
    /\ UNCHANGED <<head, tail, record, cursor, committed, members, safePoint,
                   dlq, acked, dropped, restarts>>

----------------------------------------------------------------------------
(* Retention and crashes.                                                  *)

\* Mutant: retention follows the cursor instead of the floor.
ReadCursorAsSafePoint ==
    /\ safePoint = 0
    /\ safePoint' = cursor
    /\ UNCHANGED <<head, tail, record, cursor, committed, pel, members,
                   transfer, poison, dlq, acked, dropped, restarts>>

\* processRetention reads the smallest committed offset without any group's
\* lock ...
ReadSafePoint ==
    /\ safePoint = 0
    /\ safePoint' = committed
    /\ UNCHANGED <<head, tail, record, cursor, committed, pel, members,
                   transfer, poison, dlq, acked, dropped, restarts>>

\* ... and truncates afterwards: to that offset or, where a retention policy,
\* another group or a segment boundary keeps more, to an earlier one.
Truncate ==
    /\ safePoint > 0
    /\ \E h \in head .. tail :
          /\ h = head \/ h <= safePoint
          /\ head' = h
          /\ record' = [o \in Offsets |-> IF o < h THEN "absent" ELSE record[o]]
    /\ safePoint' = 0
    /\ UNCHANGED <<tail, cursor, committed, pel, members, transfer,
                   poison, dlq, acked, dropped, restarts>>

\* Reservations, the sweeper's list and a running retention pass are process
\* state; cursor, pending list, floor and membership are on disk.
LoseProcessState ==
    /\ restarts < MaxRestarts
    /\ restarts' = restarts + 1
    /\ transfer' = [o \in Offsets |-> NoTransfer]
    /\ poison' = [o \in Offsets |-> "untracked"]
    /\ safePoint' = 0

Restart ==
    /\ LoseProcessState
    /\ UNCHANGED <<head, tail, record, cursor, committed, pel, members,
                   dlq, acked, dropped>>

\* A crash between Ack's two writes, RemovePendingEntry and UpdateCommitted.
CrashDuringAck(o) ==
    /\ o \in Pending /\ o \notin Reserved
    /\ LoseProcessState
    /\ pel' = Remove(o)
    /\ acked' = acked \cup {o}
    /\ UNCHANGED <<head, tail, record, cursor, committed, members, dlq, dropped>>

----------------------------------------------------------------------------

\* The consumers' answers, the broker's loops and the clock, with the
\* membership left as it is.
Work ==
    \/ \E kind \in {"live", "unclaimable"} : Append(kind)
    \/ \E o \in Offsets : Expire(o) \/ Lapse(o)
    \/ \E c \in Consumers : ClaimBatch(c)
    \/ \E o \in Offsets : Ack(o) \/ NackWithDelay(o, FALSE)
    \/ \E o \in Offsets : PrepareTransfer(o) \/ PreparePoisonTransfer(o)
    \/ \E o \in Offsets, outcome \in DLQOutcomes : MoveToDLQ(o, outcome)
    \/ \E o \in Offsets : FinishTransfer(o) \/ FinishPoisonTransfer(o)
    \/ ReadSafePoint \/ Truncate
    \/ Restart
    \/ \E o \in Offsets : CrashDuringAck(o)

Next ==
    \/ Work
    \/ \E c \in Consumers : RegisterConsumer(c) \/ UnregisterConsumer(c)
    \/ \E stale \in SUBSET Consumers : CleanupStaleConsumers(stale)
    \/ \E c \in Consumers : ClaimPendingBatch(c)
    \/ \E o \in Offsets : NackWithDelay(o, TRUE)

Spec == Init /\ [][Next]_vars

\* The delivery engine keeps claiming for every consumer, leases run out, the
\* sweeper's ticker fires, a destination write returns and its transfer is
\* finished, and a destination that is tried again and again accepts in the
\* end.  Nothing is assumed of the consumers: they may never answer.
Fairness ==
    /\ \A c \in Consumers : WF_vars(ClaimBatch(c))
    /\ \A o \in Offsets :
         /\ WF_vars(Lapse(o))
         /\ WF_vars(PreparePoisonTransfer(o))
         /\ WF_vars(\E outcome \in DLQOutcomes : MoveToDLQ(o, outcome))
         /\ SF_vars(MoveToDLQ(o, "appended"))
         /\ WF_vars(FinishTransfer(o) \/ FinishPoisonTransfer(o))

LiveSpec == InitWith(Consumers) /\ [][Work]_vars /\ Fairness

----------------------------------------------------------------------------
(* Properties.                                                             *)

\* Every variable keeps its Go type; an entry, a reservation and a tracking
\* state are always complete.
TypeOK ==
    /\ head \in 0 .. MaxOffset /\ tail \in 0 .. MaxOffset
    /\ record \in [Offsets -> {"absent", "live", "unclaimable", "expired"}]
    /\ cursor \in 0 .. MaxOffset /\ committed \in 0 .. MaxOffset
    /\ pel \in [Offsets -> Entry \cup {NoEntry}]
    /\ members \subseteq Consumers
    /\ transfer \in [Offsets -> Transfer \cup {NoTransfer}]
    /\ poison \in [Offsets -> {"untracked", "tracked", "noDestination"}]
    /\ safePoint \in 0 .. MaxOffset
    /\ dlq \subseteq Offsets /\ acked \subseteq Offsets /\ dropped \subseteq Offsets
    /\ restarts \in 0 .. MaxRestarts

\* The committed offset is a safe floor: nothing pending lies below it and it
\* never passes the cursor, whatever order acks, steals, transfers and crashes
\* come in (advanceCommitted, and the paths that remove an entry without it).
CommittedFloor ==
    /\ committed <= cursor /\ cursor <= tail
    /\ \A o \in Pending : committed <= o /\ o < cursor

\* At-least-once: a record the cursor has passed is still pending for some
\* consumer, or was acknowledged, dead-lettered, or could never be delivered.
NothingLost ==
    \A o \in Offsets : o < cursor => o \in Pending \cup Settled

\* Retention reads the floor and truncates later without a lock, yet never
\* removes a record that some consumer has still to settle.
RetentionSafe ==
    /\ safePoint <= committed /\ head <= committed
    /\ \A o \in Offsets : o < head => o \in Settled \ Pending

\* An acknowledged record is never handed out again, not even after a crash
\* between the two writes of an ack.
AckIsFinal ==
    acked \cap Pending = {}

\* The floor retention truncates to never falls.
CommittedMonotonic ==
    [][committed <= committed']_vars

\* The comment on Manager.transfers: while a dead-letter write is in flight its
\* entry is neither settled nor stolen.
ReservationHeld ==
    \A o \in Reserved : pel[o].owner = transfer[o].owner

\* The same for every operation except the Claim command: acks, nacks, claims,
\* steals, sweeps and membership changes leave a reserved entry alone.
ReservationHonoured ==
    [][(\A c \in Consumers : ~ClaimPendingBatch(c)) =>
         \A o \in Reserved \cap Reserved' :
            /\ pel'[o].owner = pel[o].owner
            /\ pel'[o].count = pel[o].count]_vars

\* The group keeps the ledger's promise: owners, leases, retries, transfers and
\* crashes are steps the ledger allows or does not see.
Ledger == INSTANCE GroupLedger
            WITH next <- cursor, floor <- committed, base <- head,
                 open <- Pending, done <- Settled
KeepsLedger == Ledger!Spec

\* Every record is in the end acknowledged, dead-lettered or passed over, even
\* if no consumer ever answers a delivery: leases lapse, others steal, the
\* delivery budget runs out and the sweeper moves the record away.
EventuallySettled ==
    \A o \in Offsets : (o < tail) ~> (o \in Settled \ Pending)
============================================================================
