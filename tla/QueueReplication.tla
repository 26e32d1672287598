-------------------------- MODULE QueueReplication --------------------------
(***************************************************************************)
(* One replicated queue and one of its consumer groups: the Raft state     *)
(* machine that applies committed operations to each node's disk store     *)
(* (LogFSM in queue/raft/fsm.go over logstorage.Adapter), the recovery of  *)
(* that store when a node restarts or installs a snapshot                  *)
(* (Manager.prepareFSMForRecovery, LogFSM.Restore), and the queue manager  *)
(* that proposes the operations (queue/manager.go, control.go,             *)
(* configured_queue.go, groupstore_raft.go).                               *)
(*                                                                         *)
(* Raft itself is external: it is the sequence `entries` of committed      *)
(* operations, which every node applies in order and at its own pace, and  *)
(* a leader that has all of them in its log but may still be applying.     *)
(* A proposal is made on what the proposer's own store shows, which may be *)
(* behind the entries already committed.                                   *)
(*                                                                         *)
(* A disk store holds the log of the queue, the log store's consumer state *)
(* (`cst`) and the group's metadata (`meta`); deleting the queue removes   *)
(* the first two, deleting the group only the third.                       *)
(***************************************************************************)
EXTENDS Naturals, Sequences, FiniteSets, SequencesExt

CONSTANTS Replicas,     \* the nodes of the Raft group
          Workers,      \* consumers of the group
          NoWorker,     \* not one of them
          Conf,         \* the settings the queue is declared or created with
          Updated,       \* settings a runtime update writes
          Default,      \* ephemeral settings invented by an append
          Off,          \* settings with replication disabled
          NoCfg,        \* no queue
          Declared,     \* {TRUE}: declared in every broker's configuration,
                        \* {FALSE}: created at run time with one delivered record
          Updates,      \* settings a runtime update may choose
          Early,        \* a declared queue is updated or subscribed to before
                        \* its settings are recorded
          Echoes,       \* later entries may overtake a proposer's follow-up
                        \* write to its own store
          MaxEntries,   \* bound: committed entries, of a queue made at run time
          MaxDeclared,  \* bound: committed entries, of a declared queue
          MaxStops,     \* bound: crashes
          MaxSnapshots  \* bound: snapshots taken

ASSUME ReplicationAssumption ==
    /\ NoWorker \notin Workers
    /\ Cardinality({Conf, Updated, Default, Off, NoCfg}) = 5
    /\ Declared \subseteq BOOLEAN
    /\ Updates \subseteq {Updated, Off}
    /\ Early \in BOOLEAN /\ Echoes \in BOOLEAN
    /\ MaxEntries \in Nat /\ MaxDeclared \in 0 .. MaxEntries
    /\ MaxStops \in Nat /\ MaxSnapshots \in Nat

VARIABLES
    entries,     \* the committed operations
    leads,       \* the node that leads the group
    configured,  \* the queue is declared in the configuration
    disk,        \* node -> its queue and group stores
    recorded,    \* nodes whose settings came from Raft state since they started
    applied,     \* node -> index of the last entry it applied
    alive,       \* nodes that run
    image,       \* node -> its latest snapshot and the index it describes
    recording,   \* node -> progress of writing the queue's settings to the log
    echo,        \* node -> an operation it repeats on its own store, and the
                 \* index of the entry it waits for
    halted,      \* index -> nodes that a local failure stopped at that entry
    crashed, snapshots   \* counters of the bounds

replicationVars == <<entries, leads, configured, disk, recorded, applied, alive,
                     image, recording, echo, halted, crashed, snapshots>>
nodeVars == <<disk, recorded, applied, alive, image, halted, crashed, snapshots>>

NoWork == [kind |-> "none", cfg |-> NoCfg, at |-> 0, by |-> NoWorker,
           to |-> NoWorker]
Work(k, o) == [NoWork EXCEPT !.kind = k, !.at = o]
SettingsWork(k, cfg) == [NoWork EXCEPT !.kind = k, !.cfg = cfg]

(***************************************************************************)
(* The disk store (logstorage.Adapter).                                    *)
(***************************************************************************)
Positions == 0 .. MaxEntries
NoGroup == [on |-> FALSE, pel |-> [o \in Positions |-> NoWorker],
            due |-> {}, cursor |-> 0]
NoQueue == [cfg |-> NoCfg, head |-> 0, recs |-> <<>>, cst |-> NoGroup,
            meta |-> NoGroup]

Exists(d) == d.cfg # NoCfg
Owns(d) == d.cfg \notin {NoCfg, Off}

(* GetConsumerGroup: the metadata record is shared, and reading it through *)
(* the adapter overwrites its cursor and pending entries with the log      *)
(* store's.  A group the log store does not know reads with cursor zero.   *)
Synced(d) ==
    IF ~d.meta.on \/ ~Exists(d) THEN d
    ELSE IF d.cst.on THEN [d EXCEPT !.meta = d.cst]
    ELSE [d EXCEPT !.meta.cursor = 0]

GroupView(d) == Synced(d).meta

StoreCreate(d, cfg) ==
    IF Exists(d) THEN d
    ELSE [d EXCEPT !.cfg = cfg, !.head = 0, !.recs = <<>>, !.cst = NoGroup]

StoreDelete(d) == [NoQueue EXCEPT !.meta = d.meta]

StoreAppend(d, v) == [d EXCEPT !.recs = Append(@, v)]

StoreTruncate(d, k) ==
    IF k <= d.head THEN d
    ELSE LET cut == IF k - d.head < Len(d.recs) THEN k - d.head
                                               ELSE Len(d.recs)
         IN [d EXCEPT !.head = k, !.recs = SubSeq(@, cut + 1, Len(@))]

TailOf(d) == d.head + Len(d.recs)

Holding(g, o, c) == [g EXCEPT !.pel[o] = c, !.due = @ \ {o}]
IfOn(g, new) == IF g.on THEN new ELSE g

(***************************************************************************)
(* Applying an entry.  Every operation yields the store it leaves and an   *)
(* outcome: "ok", "refused" (the same deterministic refusal on every       *)
(* replica) or "stop" (stopLocalFailure: the process ends).                *)
(***************************************************************************)
Ok(d) == [disk |-> d, out |-> "ok"]
Refused(d) == [disk |-> d, out |-> "refused"]
Stop(d) == [disk |-> d, out |-> "stop"]

ApplyCreateQueue(d, w) == Ok(StoreCreate(d, w.cfg))

ApplyUpdateQueue(d, w) ==
    IF Exists(d) THEN Ok([d EXCEPT !.cfg = w.cfg]) ELSE Refused(d)

ApplyDeleteQueue(d, w) == Ok(StoreDelete(d))

(* An append to a queue the replica does not hold creates it as an         *)
(* ephemeral queue of this group.                                          *)
ApplyAppend(d, w) == Ok(StoreAppend(StoreCreate(d, Default), w.at))

ApplyTruncate(d, w) ==
    IF Exists(d) THEN Ok(StoreTruncate(d, w.at)) ELSE Stop(d)

(* The metadata is saved before the log store is asked for the queue.      *)
ApplyCreateGroup(d, w) ==
    LET saved == [d EXCEPT !.meta = [NoGroup EXCEPT !.on = TRUE]] IN
    CASE d.meta.on  -> Ok(d)
      [] ~d.meta.on /\ ~Exists(d) -> Stop(saved)
      [] OTHER      -> Ok([saved EXCEPT !.cst.on = TRUE])

ApplyDeleteGroup(d, w) == Ok([d EXCEPT !.meta = NoGroup])

(* The log store creates its consumer state on demand and moves its        *)
(* cursor; the metadata records the entry only.                            *)
ApplyAddPending(d, w) ==
    IF ~Exists(d) THEN Stop(d)
    ELSE Ok([d EXCEPT !.cst = [Holding(@, w.at, w.by) EXCEPT !.on = TRUE,
                                  !.cursor = IF w.at >= @ THEN w.at + 1 ELSE @],
                      !.meta = IfOn(@, Holding(@, w.at, w.by))])

(* The log store settles by offset whoever holds it; an offset that is no  *)
(* longer pending is no error.                                             *)
ApplyRemovePending(d, w) ==
    LET s == Synced(d) IN
    CASE ~Exists(d) -> Stop(s)
      [] Exists(d) /\ ~d.cst.on -> Refused(s)
      [] Exists(d) /\ d.cst.on /\ d.cst.pel[w.at] = NoWorker -> Ok(s)
      [] OTHER -> Ok([s EXCEPT !.cst = Holding(@, w.at, NoWorker),
                               !.meta = IfOn(@, Holding(@, w.at, NoWorker))])

(* Refused unless the entry is still held by the consumer it moves from.   *)
ApplyTransferPending(d, w) ==
    LET s == Synced(d) IN
    CASE ~d.meta.on \/ s.meta.pel[w.at] # w.by -> Refused(s)
      [] d.meta.on /\ s.meta.pel[w.at] = w.by /\ ~Exists(d) -> Stop(s)
      [] d.meta.on /\ s.meta.pel[w.at] = w.by /\ Exists(d) /\ ~d.cst.on -> Refused(s)
      [] OTHER -> Ok([s EXCEPT !.cst = Holding(@, w.at, w.to),
                               !.meta = Holding(@, w.at, w.to)])

(* Mutant: the settlement is matched against the owner the proposer saw.   *)
OwnerAsProposed(d, w) == w.by

(* pendingOwner: a settlement is about the record, so the owner is the one *)
(* this replica's state names.                                             *)
PendingOwner(d, w) ==
    IF d.meta.on /\ GroupView(d).pel[w.at] # NoWorker
    THEN GroupView(d).pel[w.at] ELSE w.by

ApplyRequeuePending(d, w) ==
    LET s == Synced(d)
        held == s.meta.pel[w.at]
    IN CASE ~d.meta.on \/ held = NoWorker \/ held # PendingOwner(d, w) -> Refused(s)
         [] d.meta.on /\ held = PendingOwner(d, w) /\ ~Exists(d) -> Stop(s)
         [] d.meta.on /\ held = PendingOwner(d, w) /\ Exists(d) /\ ~d.cst.on -> Refused(s)
         [] OTHER -> Ok([s EXCEPT !.cst.due = @ \cup {w.at},
                                  !.meta.due = @ \cup {w.at}])

ApplyUpdateCursor(d, w) ==
    IF ~Exists(d) THEN Stop(d)
    ELSE Ok([d EXCEPT !.cst.on = TRUE, !.cst.cursor = w.at,
                      !.meta = IfOn(@, [@ EXCEPT !.cursor = w.at])])

Applied(d, w) ==
    CASE w.kind = "create"      -> ApplyCreateQueue(d, w)
      [] w.kind = "update"      -> ApplyUpdateQueue(d, w)
      [] w.kind = "delete"      -> ApplyDeleteQueue(d, w)
      [] w.kind = "append"      -> ApplyAppend(d, w)
      [] w.kind = "truncate"    -> ApplyTruncate(d, w)
      [] w.kind = "createGroup" -> ApplyCreateGroup(d, w)
      [] w.kind = "deleteGroup" -> ApplyDeleteGroup(d, w)
      [] w.kind = "add"         -> ApplyAddPending(d, w)
      [] w.kind = "remove"      -> ApplyRemovePending(d, w)
      [] w.kind = "transfer"    -> ApplyTransferPending(d, w)
      [] w.kind = "requeue"     -> ApplyRequeuePending(d, w)
      [] w.kind = "cursor"      -> ApplyUpdateCursor(d, w)

(***************************************************************************)
(* Snapshots and recovery.                                                 *)
(***************************************************************************)
NoImage == [index |-> 0, queue |-> NoQueue]

(* Snapshot: the queues this group owns, with their records and the        *)
(* group metadata as the metadata store holds it.                          *)
Captured(d) == IF Owns(d) THEN [d EXCEPT !.cst = NoGroup] ELSE NoQueue

ResetState(d) == IF Owns(d) THEN NoQueue ELSE d

(* restoreQueue and RestoreRecord; a group the metadata store still has is *)
(* not created again, so the log store is not given its state.             *)
RestoreQueue(d, q) ==
    IF ~Exists(q) THEN d
    ELSE LET known == d.meta.on IN
         [q EXCEPT !.meta = IF known THEN d.meta ELSE q.meta,
                   !.cst = IF known THEN NoGroup ELSE q.meta]

Restore(d, q) == RestoreQueue(ResetState(d), q)

(* Mutant: the replay runs over the store as the crash left it.            *)
ReplayOver(d) == d

(* resetForReplay: the queues this group owns are emptied and their groups *)
(* dropped; the settings stay.                                             *)
ResetForReplay(d) == IF Owns(d) THEN [NoQueue EXCEPT !.cfg = d.cfg] ELSE d

SettingsIn(q) == Exists(q)

(***************************************************************************)
(* The start: a new cluster for a declared queue, or one whose log holds a *)
(* queue created at run time, its group and one delivered record.          *)
(***************************************************************************)
History ==
    << SettingsWork("create", Conf), SettingsWork("update", Conf),
       Work("append", 3), Work("createGroup", 0),
       [Work("add", 0) EXCEPT !.by = CHOOSE c \in Workers : TRUE],
       Work("cursor", 1) >>

Established == FoldLeft(LAMBDA d, w : Applied(d, w).disk, NoQueue, History)

ReplicationInit ==
    /\ configured \in Declared
    /\ leads \in Replicas
    /\ entries = IF configured THEN <<>> ELSE History
    /\ disk = [n \in Replicas |-> IF configured THEN NoQueue ELSE Established]
    /\ applied = [n \in Replicas |-> Len(entries)]
    /\ recorded = IF configured THEN {} ELSE Replicas
    /\ alive = Replicas
    /\ image = [n \in Replicas |-> NoImage]
    /\ recording = [n \in Replicas |-> IF configured THEN "start" ELSE "idle"]
    /\ echo = [n \in Replicas |-> [work |-> NoWork, index |-> 0]]
    /\ halted = [i \in 1 .. MaxEntries |-> {}]
    /\ crashed = 0 /\ snapshots = 0

(***************************************************************************)
(* Proposals.  A node proposes from what its own store shows.              *)
(***************************************************************************)
Leads(n) == leads = n /\ n \in alive

Commit(w) ==
    /\ Len(entries) < IF configured THEN MaxDeclared ELSE MaxEntries
    /\ entries' = Append(entries, w)
    /\ UNCHANGED <<leads, configured, nodeVars>>

(* replicationWriteReadiness: the leader refuses writes to a declared      *)
(* queue until its settings are Raft state.                                *)
Writable(n) == /\ Leads(n) /\ Owns(disk[n])
               /\ configured => n \in recorded

AppendMessage(n) ==
    /\ Writable(n)
    /\ Commit(Work("append", Len(entries) + 1))
    /\ UNCHANGED <<recording, echo>>

(* processRetention: up to the group's oldest unsettled offset.  The bound *)
(* leaves out the passes that would remove nothing.                        *)
SafeOffset(g) == LET held == {o \in Positions : g.pel[o] # NoWorker}
                 IN IF held = {} THEN g.cursor
                    ELSE CHOOSE o \in held : \A p \in held : o <= p

Retain(n) ==
    /\ Writable(n) /\ disk[n].meta.on
    /\ SafeOffset(GroupView(disk[n])) > disk[n].head
    /\ Commit(Work("truncate", SafeOffset(GroupView(disk[n]))))
    /\ UNCHANGED <<recording, echo>>

(* A queue operation that its proposer repeats on its own store once the   *)
(* entry is applied.                                                       *)
CommitAndEcho(n, w, again) ==
    /\ echo[n].index = 0
    /\ Commit(w)
    /\ echo' = [echo EXCEPT ![n] = [work |-> again, index |-> Len(entries) + 1]]

NotEarly(n) == configured => Early \/ n \in recorded

UpdateQueue(n) ==
    /\ Leads(n) /\ Owns(disk[n])
    /\ NotEarly(n)
    /\ \E cfg \in Updates :
          /\ cfg # disk[n].cfg
          /\ CommitAndEcho(n, SettingsWork("update", cfg),
                              SettingsWork("update", cfg))
    /\ UNCHANGED recording

DeleteQueue(n) ==
    /\ Writable(n) /\ ~configured
    /\ CommitAndEcho(n, Work("delete", 0), Work("delete", 0))
    /\ UNCHANGED recording

(* recordConfiguredQueue and createReplicatedQueue: the create, then the   *)
(* update that makes the settings Raft state, each awaited.  Start tries   *)
(* once whatever Raft already holds; the recorder stops when settings      *)
(* arrived.                                                                *)
RecordCreate(n) ==
    /\ Leads(n)
    /\ \/ recording[n] = "start"
       \/ recording[n] = "pending" /\ n \notin recorded
       \/ recording[n] = "idle" /\ ~configured /\ ~Exists(disk[n])
    /\ Commit(SettingsWork("create", Conf))
    /\ recording' = [recording EXCEPT ![n] = "created"]
    /\ UNCHANGED echo

RecordUpdate(n) ==
    /\ Leads(n) /\ recording[n] = "created"
    /\ applied[n] = Len(entries)
    /\ CommitAndEcho(n, SettingsWork("update", Conf), SettingsWork("create", Conf))
    /\ recording' = [recording EXCEPT ![n] = "idle"]

CreatedLocally(n) ==
    disk' = [disk EXCEPT ![n] = IF configured THEN StoreCreate(@, Conf) ELSE @]

(* A node that does not lead creates the queue in its own store and leaves *)
(* the recording to the retries.                                           *)
RecordWaits(n) ==
    /\ n \in alive /\ ~Leads(n) /\ recording[n] \in {"start", "created"}
    /\ CreatedLocally(n)
    /\ recording' = [recording EXCEPT
                       ![n] = IF configured THEN "pending" ELSE "idle"]
    /\ UNCHANGED <<entries, leads, configured, recorded, applied, alive, image,
                   echo, halted, crashed, snapshots>>

RecorderStops(n) ==
    /\ n \in alive /\ recording[n] = "pending" /\ n \in recorded
    /\ recording' = [recording EXCEPT ![n] = "idle"]
    /\ UNCHANGED <<entries, leads, configured, echo, nodeVars>>

(* The proposer's own second write of an update, a delete or a create.     *)
WriteAgain(n) ==
    /\ n \in alive /\ echo[n].index > 0 /\ applied[n] >= echo[n].index
    /\ disk' = [disk EXCEPT ![n] =
                   CASE echo[n].work.kind = "update" -> [@ EXCEPT !.cfg = echo[n].work.cfg]
                     [] echo[n].work.kind = "delete" -> StoreDelete(@)
                     [] echo[n].work.kind = "create" -> StoreCreate(@, Conf)]
    /\ echo' = [echo EXCEPT ![n] = [work |-> NoWork, index |-> 0]]
    /\ UNCHANGED <<entries, leads, configured, recorded, applied, alive, image,
                   recording, halted, crashed, snapshots>>

(* Group operations: delivery runs on the leader, a subscription and a     *)
(* settlement on any node, which forwards them to the leader.              *)
CreateGroup(n) ==
    /\ n \in alive /\ Owns(disk[n]) /\ ~disk[n].meta.on /\ NotEarly(n)
    /\ Commit(Work("createGroup", 0))

DeleteGroup(n) ==
    /\ n \in alive /\ Owns(disk[n]) /\ disk[n].meta.on
    /\ Commit(Work("deleteGroup", 0))

DeliverNext(n) ==
    LET g == GroupView(disk[n]) IN
    /\ Leads(n) /\ Owns(disk[n]) /\ disk[n].meta.on
    /\ g.cursor \in disk[n].head .. TailOf(disk[n]) - 1
    /\ \E c \in Workers : Commit([Work("add", g.cursor) EXCEPT !.by = c])

(* The cursor is persisted after the entries of the batch.                 *)
PersistCursor(n) ==
    LET d == disk[n] IN
    /\ Leads(n) /\ Owns(d) /\ d.meta.on /\ d.cst.on
    /\ d.meta.cursor # d.cst.cursor
    /\ Commit(Work("cursor", d.cst.cursor))

ClaimPending(n) ==
    LET g == GroupView(disk[n]) IN
    /\ Leads(n) /\ Owns(disk[n]) /\ disk[n].meta.on
    /\ \E o \in Positions, c \in Workers :
          /\ g.pel[o] \notin {NoWorker, c}
          /\ Commit([Work("transfer", o) EXCEPT !.by = g.pel[o], !.to = c])

SettlePending(n, kind) ==
    LET g == GroupView(disk[n]) IN
    /\ n \in alive /\ Owns(disk[n]) /\ disk[n].meta.on
    /\ \E o \in Positions :
          /\ g.pel[o] # NoWorker
          /\ Commit([Work(kind, o) EXCEPT !.by = g.pel[o]])

GroupOperation(n) ==
    /\ \/ CreateGroup(n) \/ DeleteGroup(n) \/ DeliverNext(n) \/ PersistCursor(n)
       \/ ClaimPending(n) \/ SettlePending(n, "remove") \/ SettlePending(n, "requeue")
    /\ UNCHANGED <<recording, echo>>

(***************************************************************************)
(* What a replica does.                                                    *)
(***************************************************************************)
Apply(n) ==
    LET i == applied[n] + 1
        w == entries[i]
        r == Applied(disk[n], w)
    IN /\ n \in alive /\ i <= Len(entries)
       /\ ~Echoes => echo[n].index = 0 \/ applied[n] < echo[n].index
       /\ disk' = [disk EXCEPT ![n] = r.disk]
       /\ IF r.out = "stop"
          THEN /\ halted' = [halted EXCEPT ![i] = @ \cup {n}]
               /\ alive' = alive \ {n}
               /\ UNCHANGED <<applied, recorded, echo>>
          ELSE /\ applied' = [applied EXCEPT ![n] = i]
               /\ recorded' = CASE w.kind = "update" /\ r.out = "ok" -> recorded \cup {n}
                                [] w.kind = "delete" -> recorded \ {n}
                                [] OTHER -> recorded
               /\ echo' = IF r.out = "refused" /\ echo[n].index = i
                          THEN [echo EXCEPT ![n] = [work |-> NoWork, index |-> 0]]
                          ELSE echo
               /\ UNCHANGED <<halted, alive>>
       /\ UNCHANGED <<entries, leads, configured, image, recording, crashed, snapshots>>

TakeSnapshot(n) ==
    /\ n \in alive /\ snapshots < MaxSnapshots /\ applied[n] > image[n].index
    /\ image' = [image EXCEPT ![n] = [index |-> applied[n], queue |-> Captured(disk[n])]]
    /\ snapshots' = snapshots + 1
    /\ UNCHANGED <<entries, leads, configured, disk, recorded, applied, alive,
                   recording, echo, halted, crashed>>

(* A follower behind the leader's compacted log is sent its snapshot.      *)
InstallSnapshot(n) ==
    /\ n \in alive /\ leads \in alive /\ image[leads].index > applied[n]
    /\ ~Echoes => echo[n].index = 0
    /\ disk' = [disk EXCEPT ![n] = Restore(@, image[leads].queue)]
    /\ image' = [image EXCEPT ![n] = image[leads]]
    /\ applied' = [applied EXCEPT ![n] = image[leads].index]
    /\ recorded' = IF SettingsIn(image[leads].queue) THEN recorded \cup {n}
                                                    ELSE recorded \ {n}
    /\ UNCHANGED <<entries, leads, configured, alive, recording, echo, halted,
                   crashed, snapshots>>

Elect(n) ==
    /\ n \in alive /\ leads # n
    /\ leads' = n
    /\ UNCHANGED <<entries, configured, recording, echo, nodeVars>>

StopNode(n) ==
    /\ n \in alive /\ crashed < MaxStops
    /\ alive' = alive \ {n}
    /\ crashed' = crashed + 1
    /\ UNCHANGED <<entries, leads, configured, disk, recorded, applied, image,
                   recording, echo, halted, snapshots>>

(* Manager.Start: the newest snapshot, or the whole log over emptied       *)
(* queues; then the broker's start.                                        *)
RestartNode(n) ==
    /\ n \notin alive
    /\ alive' = alive \cup {n}
    /\ applied' = [applied EXCEPT ![n] = image[n].index]
    /\ IF image[n].index > 0
       THEN /\ disk' = [disk EXCEPT ![n] = Restore(@, image[n].queue)]
            /\ recorded' = IF SettingsIn(image[n].queue) THEN recorded \cup {n}
                                                        ELSE recorded \ {n}
       ELSE /\ disk' = [disk EXCEPT ![n] = ResetForReplay(@)]
            /\ recorded' = recorded \ {n}
    /\ recording' = [recording EXCEPT ![n] = IF configured THEN "start" ELSE "idle"]
    /\ echo' = [echo EXCEPT ![n] = [work |-> NoWork, index |-> 0]]
    /\ UNCHANGED <<entries, leads, configured, image, halted, crashed, snapshots>>

ReplicationNext ==
    \E n \in Replicas :
        \/ AppendMessage(n) \/ Retain(n) \/ UpdateQueue(n) \/ DeleteQueue(n)
        \/ RecordCreate(n) \/ RecordUpdate(n) \/ RecordWaits(n) \/ RecorderStops(n)
        \/ WriteAgain(n) \/ GroupOperation(n)
        \/ Apply(n) \/ TakeSnapshot(n) \/ InstallSnapshot(n) \/ Elect(n)
        \/ StopNode(n) \/ RestartNode(n)

ReplicationSpec == ReplicationInit /\ [][ReplicationNext]_replicationVars

(***************************************************************************)
(* Properties                                                              *)
(***************************************************************************)
Removed == \E i \in 1 .. Len(entries) : entries[i].kind \in {"delete", "deleteGroup"}

(* Two running replicas that applied the same entries hold the same        *)
(* records at the same offsets, however often either of them crashed and   *)
(* rebuilt its store from a snapshot or from the log, and, as long as      *)
(* neither the queue nor the group was removed, the same consumer holds    *)
(* each pending record in both.                                            *)
ReplicasAgree ==
    \A n, m \in alive :
        applied[n] = applied[m] =>
            /\ disk[n].head = disk[m].head
            /\ disk[n].recs = disk[m].recs
            /\ ~Removed => GroupView(disk[n]).pel = GroupView(disk[m]).pel

(* An acknowledgement or a negative acknowledgement takes effect on the    *)
(* record it names if that is pending when it is applied, also when a      *)
(* follower proposed it before it had applied the transfer of the record.  *)
SettlesByOffset ==
    [][\A n \in Replicas :
         LET w == entries[applied'[n]]
             d == disk[n]
         IN applied'[n] = applied[n] + 1 /\ d.cst.on /\ d.cst.pel[w.at] # NoWorker
            /\ d.meta.on =>
              /\ w.kind = "remove" => disk'[n].cst.pel[w.at] = NoWorker
              /\ w.kind = "requeue" => w.at \in disk'[n].cst.due]_replicationVars

(* No committed entry stops every replica: what all replicas decline for   *)
(* the same reason is skipped, not fatal.                                  *)
NoEntryStopsAll == \A i \in 1 .. MaxEntries : halted[i] # Replicas

=============================================================================
