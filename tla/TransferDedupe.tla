--------------------------- MODULE TransferDedupe ---------------------------
(***************************************************************************)
(* Dead-letter transfers into a local queue (recordCore.moveToDLQ and      *)
(* appendTransferOnce in queue/record_core.go, Adapter.appendOnce and      *)
(* Adapter.Truncate in logstorage).  A transfer carries an identity made   *)
(* of the source queue's name, the group and the source offset; the        *)
(* destination keeps a durable index from identity to record, and a retry  *)
(* whose record is already there settles its source without appending.     *)
(*                                                                         *)
(* The destination log and the index are two stores: a crash may fall      *)
(* between any two writes, and takes with it the records of the log that   *)
(* were not synced.  The queue's deduplication lock is held by at most one *)
(* operation.                                                              *)
(***************************************************************************)
EXTENDS Naturals, Sequences

CONSTANTS Sources,       \* source offsets being dead-lettered
          NoSource,      \* not one of them
          Incarnations,  \* 1..n: lives of the source queue under one name
          Fsync,         \* the destination acknowledges after fsync
          MaxTail,       \* bound: records ever appended
          MaxDedupeFaults   \* bound: crashes and failed writes

ASSUME DedupeAssumption ==
    /\ NoSource \notin Sources
    /\ Incarnations \in Nat \ {0} /\ MaxTail \in Nat /\ MaxDedupeFaults \in Nat
    /\ Fsync \in BOOLEAN

VARIABLES
    life,      \* the source queue's incarnation
    dlq,       \* the destination log from dlqHead on: sequence of records
    dlqHead,   \* its first offset
    synced,    \* records below this offset survive a crash
    index,     \* the durable index: identity -> [state, offset]
    op,        \* the operation holding the deduplication lock
    settled,   \* transfers <<life, source>> reported as done to the source
    faults

dedupeVars == <<life, dlq, dlqHead, synced, index, op, settled, faults>>

Transfers == [key : Sources, life : 1..Incarnations]
Other == [key |-> NoSource, life |-> 0]      \* an ordinary record
Absent == [state |-> "absent", offset |-> 0]
NoOp == [step |-> "none"]

DedupeInit ==
    /\ life = 1
    /\ dlq = <<>> /\ dlqHead = 0 /\ synced = 0
    /\ index = [k \in Sources |-> Absent]
    /\ op = NoOp
    /\ settled = {} /\ faults = 0

DlqTail == dlqHead + Len(dlq)
RecordAt(o) == dlq[o - dlqHead + 1]
Held(o) == o \in dlqHead..(DlqTail - 1)
Carries(o, k) == Held(o) /\ RecordAt(o).key = k

Fault == faults < MaxDedupeFaults /\ faults' = faults + 1
DedupeStep(s) == op' = [op EXCEPT !.step = s]
Put(k, s, o) == index' = [index EXCEPT ![k] = [state |-> s, offset |-> o]]

(* An error is returned: the source keeps its entry, and retries later.    *)
Refuse == op' = NoOp

(* Success is returned, and the caller settles the source.                 *)
SettleSource(k) ==
    /\ settled' = settled \cup {<<op.life, k>>}
    /\ op' = NoOp

-----------------------------------------------------------------------------
(* appendOnce, one step per durable write.                                 *)

MoveToDLQ(k) ==
    /\ op = NoOp
    /\ <<life, k>> \notin settled
    /\ op' = [step |-> "lookup", key |-> k, life |-> life, offset |-> 0]
    /\ UNCHANGED <<life, dlq, dlqHead, synced, index, settled, faults>>

(* findDedupeRecord: the suffix from the reserved tail on.                 *)
FindDedupeRecord(k, start) == {o \in start..(DlqTail - 1) : Carries(o, k)}

(* resolveDedupeEntry: the offset that carries the identity, if any.       *)
(* Mutant: a pending reservation is trusted to have failed.                *)
ResolveConfirmedOnly(k) ==
    IF index[k].state = "pending" THEN {}
    ELSE {o \in {index[k].offset} : Carries(o, k)}
ResolveDedupeEntry(k) ==
    IF index[k].state = "pending" THEN FindDedupeRecord(k, index[k].offset)
    ELSE {o \in {index[k].offset} : Carries(o, k)}

Lookup ==
    /\ op.step = "lookup"
    /\ LET k == op.key
           found == IF index[k] = Absent THEN {} ELSE ResolveDedupeEntry(k)
       IN  \/ /\ found # {} /\ index[k].state = "confirmed"
              /\ SettleSource(k) /\ UNCHANGED index
           \/ /\ found # {} /\ index[k].state # "confirmed"
              /\ \E o \in found :
                    op' = [op EXCEPT !.step = "confirm", !.offset = o]
              /\ UNCHANGED <<index, settled>>
           \/ /\ found = {}
              /\ index' = [index EXCEPT ![k] = Absent]
              /\ DedupeStep("reserve") /\ UNCHANGED settled
    /\ UNCHANGED <<life, dlq, dlqHead, synced, faults>>

(* SyncQueue, for a record whose durability was never established.         *)
ConfirmSync(ok) ==
    /\ op.step = "confirm"
    /\ IF ok THEN /\ synced' = DlqTail /\ DedupeStep("put") /\ UNCHANGED faults
             ELSE Fault /\ Refuse /\ UNCHANGED synced
    /\ UNCHANGED <<life, dlq, dlqHead, index, settled>>

Reserve == Put(op.key, "pending", DlqTail)

ReserveKey ==
    /\ op.step = "reserve"
    /\ Reserve /\ DedupeStep("append")
    /\ UNCHANGED <<life, dlq, dlqHead, synced, settled, faults>>

(* appendRecord, with or without its fsync.  Mutant: the barrier is left   *)
(* out of a deduplicated append.                                           *)
NoBarrier == "put"
Barrier == IF Fsync THEN "sync" ELSE "put"

AppendRecord ==
    /\ op.step = "append"
    /\ DlqTail < MaxTail
    /\ dlq' = Append(dlq, [key |-> op.key, life |-> op.life])
    /\ op' = [op EXCEPT !.step = Barrier, !.offset = DlqTail]
    /\ UNCHANGED <<life, dlqHead, synced, index, settled, faults>>

AppendFails ==
    /\ op.step = "append"
    /\ Fault /\ DedupeStep("clear")
    /\ UNCHANGED <<life, dlq, dlqHead, synced, index, settled>>

ClearReservation ==
    /\ op.step = "clear"
    /\ index' = [index EXCEPT ![op.key] = Absent]
    /\ Refuse
    /\ UNCHANGED <<life, dlq, dlqHead, synced, settled, faults>>

SyncRecord(ok) ==
    /\ op.step = "sync"
    /\ IF ok THEN /\ synced' = DlqTail /\ DedupeStep("put") /\ UNCHANGED faults
             ELSE Fault /\ DedupeStep("unconfirmed") /\ UNCHANGED synced
    /\ UNCHANGED <<life, dlq, dlqHead, index, settled>>

PutUnconfirmed ==
    /\ op.step = "unconfirmed"
    /\ Put(op.key, "unconfirmed", op.offset) /\ Refuse
    /\ UNCHANGED <<life, dlq, dlqHead, synced, settled, faults>>

PutConfirmed ==
    /\ op.step = "put"
    /\ Put(op.key, "confirmed", op.offset) /\ SettleSource(op.key)
    /\ UNCHANGED <<life, dlq, dlqHead, synced, faults>>

(* Any write to the index may fail instead; the entry stays as it is.      *)
IndexWriteFails ==
    /\ op.step \in {"reserve", "clear", "unconfirmed", "put", "prune"}
    /\ Fault /\ Refuse
    /\ UNCHANGED <<life, dlq, dlqHead, synced, index, settled>>

-----------------------------------------------------------------------------
(* Truncate removes records, then their identities, under the same lock.   *)

TruncateLog(o) ==
    /\ op = NoOp
    /\ Held(o) /\ o > dlqHead
    /\ dlq' = SubSeq(dlq, o - dlqHead + 1, Len(dlq))
    /\ dlqHead' = o
    /\ synced' = IF synced < o THEN o ELSE synced
    /\ op' = [step |-> "prune", offset |-> o]
    /\ UNCHANGED <<life, index, settled, faults>>

PruneBelow ==
    /\ op.step = "prune"
    /\ index' = [k \in Sources |->
         IF index[k] = Absent \/ index[k].offset >= op.offset THEN index[k]
         ELSE IF index[k].state = "pending"
                THEN [index[k] EXCEPT !.offset = op.offset]
         ELSE Absent]
    /\ op' = NoOp
    /\ UNCHANGED <<life, dlq, dlqHead, synced, settled, faults>>

(* An ordinary append to the same queue.                                   *)
OtherAppend ==
    /\ DlqTail < MaxTail
    /\ dlq' = Append(dlq, Other)
    /\ UNCHANGED <<life, dlqHead, synced, index, op, settled, faults>>

(* Power is lost: the unsynced suffix, or part of it, is gone.             *)
DedupeCrash(o) ==
    /\ Fault
    /\ o \in synced..DlqTail /\ o >= dlqHead
    /\ dlq' = SubSeq(dlq, 1, o - dlqHead)
    /\ synced' = o
    /\ op' = NoOp
    /\ UNCHANGED <<life, dlqHead, index, settled>>

(* The source queue is deleted and created again under the same name, its  *)
(* offsets starting over.                                                  *)
RecreateSource ==
    /\ life < Incarnations
    /\ op = NoOp
    /\ life' = life + 1
    /\ UNCHANGED <<dlq, dlqHead, synced, index, op, settled, faults>>

-----------------------------------------------------------------------------
DedupeNext ==
    \/ \E k \in Sources : MoveToDLQ(k)
    \/ Lookup \/ ReserveKey \/ AppendRecord \/ AppendFails \/ ClearReservation
    \/ \E ok \in BOOLEAN : ConfirmSync(ok) \/ SyncRecord(ok)
    \/ PutUnconfirmed \/ PutConfirmed \/ IndexWriteFails
    \/ \E o \in 0..MaxTail : TruncateLog(o) \/ DedupeCrash(o)
    \/ PruneBelow \/ OtherAppend \/ RecreateSource

DedupeSpec == DedupeInit /\ [][DedupeNext]_dedupeVars

-----------------------------------------------------------------------------
(* Properties.                                                             *)

(* "Produces no second record": however often a transfer is retried, and   *)
(* whatever write a crash fell between, the destination holds one record   *)
(* of its identity at most.                                                *)
TransferredOnce ==
    \A k \in Sources :
        \A o, p \in dlqHead..(DlqTail - 1) : Carries(o, k) /\ Carries(p, k) => o = p

(* A source is only settled against a record that a crash cannot take      *)
(* back: under fsync, a settled transfer's record is on disk, or was       *)
(* truncated since.                                                        *)
SettledIsDurable ==
    Fsync => \A k \in Sources :
        \A o \in synced..(DlqTail - 1) :
            Carries(o, k) => <<RecordAt(o).life, k>> \notin settled

=============================================================================
