---------------------------- MODULE ConsumerState ---------------------------
(***************************************************************************)
(* The persisted state of one consumer group in the log store              *)
(* (logstorage/consumer_state.go): a cursor, an ack floor and a pending    *)
(* entry list in shards, each operation applied in memory and appended to  *)
(* an operation log; compaction writes a snapshot of the group state, then *)
(* one per shard, then empties the log.  A restart loads whatever          *)
(* snapshots are on disk and replays the log over them.                    *)
(*                                                                         *)
(* Every operation runs under the state's mutex, so only a crash falls     *)
(* between the writes of one compaction.  A crash is the end of the        *)
(* process: files keep what was written (no file here is fsynced, so a     *)
(* loss of power may lose more).                                           *)
(***************************************************************************)
EXTENDS Naturals, Sequences, FiniteSets, SequencesExt

CONSTANTS Offsets,      \* 0..n: offsets of the queue
          Members,      \* consumers of the group
          NoMember,
          Shards,       \* number of pending-entry shards
          MaxOps,       \* bound: operations
          MaxAttempts,  \* bound: delivery count of an entry
          MaxStateCrashes    \* bound: crashes

ASSUME ConsumerStateAssumption ==
    /\ NoMember \notin Members /\ Shards \in Nat \ {0}
    /\ MaxOps \in Nat /\ MaxAttempts \in Nat /\ MaxStateCrashes \in Nat

VARIABLES
    mem,        \* the state in memory: [floor, cursor, pel, byConsumer]
    stateFile,  \* state.json: [floor, cursor]
    pelFile,    \* the shards' snapshots, together: offset -> entry
    opLog,      \* the operation log
    compacting, \* files a running compaction has written
    owed,       \* history: offsets delivered and not acknowledged or passed over
    opCount,    \* operations so far
    crashCount

stateVars == <<mem, stateFile, pelFile, opLog, compacting, owed,
               opCount, crashCount>>

NotPending == [owner |-> NoMember, count |-> 0]
EmptyPEL == [o \in Offsets |-> NotPending]
NoIndex == [c \in Members |-> {}]

StateInit ==
    /\ mem = [floor |-> 0, cursor |-> 0, pel |-> EmptyPEL, byConsumer |-> NoIndex]
    /\ stateFile = [floor |-> 0, cursor |-> 0] /\ pelFile = EmptyPEL
    /\ opLog = <<>> /\ compacting = 0
    /\ owed = {} /\ opCount = 0 /\ crashCount = 0

IsPending(s, o) == s.pel[o] # NotPending

-----------------------------------------------------------------------------
(* applyOp: what an operation does to the state in memory, when it is      *)
(* issued and when it is replayed.                                         *)

AddEntry(s, o, c, n) ==
    [s EXCEPT !.pel[o] = [owner |-> c, count |-> n],
              !.byConsumer[c] = @ \cup {o}]

ApplyDeliver(s, op) ==
    [AddEntry(s, op.offset, op.consumer, 1)
        EXCEPT !.cursor = IF op.offset >= @ THEN op.offset + 1 ELSE @]

ApplyRestorePending(s, op) ==
    AddEntry(s, op.offset, op.consumer, IF op.count = 0 THEN 1 ELSE op.count)

(* tryAdvanceAckFloor: up to the first pending offset.                     *)
TryAdvanceAckFloor(s) ==
    LET clear == {f \in (s.floor + 1)..(s.cursor - 1) :
                    \A o \in (s.floor + 1)..f : ~IsPending(s, o)}
    IN  [s EXCEPT !.floor = @ + Cardinality(clear)]

ApplyAck(s, op) ==
    IF ~IsPending(s, op.offset) THEN s
    ELSE TryAdvanceAckFloor(
           [s EXCEPT !.pel[op.offset] = NotPending,
                     !.byConsumer[s.pel[op.offset].owner] = @ \ {op.offset}])

(* applyNack counts an attempt; applyRelease only moves the entry's time.  *)
ApplyNack(s, op) ==
    IF ~IsPending(s, op.offset) THEN s ELSE [s EXCEPT !.pel[op.offset].count = @ + 1]

ApplyClaim(s, op) ==
    IF ~IsPending(s, op.offset) THEN s
    ELSE LET old == s.pel[op.offset].owner IN
         [s EXCEPT !.pel[op.offset] = [owner |-> op.consumer, count |-> @.count + 1],
                   !.byConsumer = [c \in Members |->
                      IF c = op.consumer THEN @[c] \cup {op.offset}
                      ELSE IF c = old THEN @[c] \ {op.offset} ELSE @[c]]]

ApplyAdvanceFloor(s, op) ==
    IF op.offset > s.floor THEN [s EXCEPT !.floor = op.offset] ELSE s

ApplySetCursor(s, op) == [s EXCEPT !.cursor = op.offset]

ApplyOp(s, op) ==
    CASE op.type = "deliver" -> ApplyDeliver(s, op)
      [] op.type = "restore" -> ApplyRestorePending(s, op)
      [] op.type = "ack" -> ApplyAck(s, op)
      [] op.type = "nack" -> ApplyNack(s, op)
      [] op.type = "claim" -> ApplyClaim(s, op)
      [] op.type = "floor" -> ApplyAdvanceFloor(s, op)
      [] op.type = "cursor" -> ApplySetCursor(s, op)

-----------------------------------------------------------------------------
(* An operation: applied, then written (writeOp).                          *)

Operation(op) ==
    /\ compacting = 0
    /\ opCount < MaxOps /\ opCount' = opCount + 1
    /\ mem' = ApplyOp(mem, op)
    /\ opLog' = Append(opLog, op)
    /\ UNCHANGED <<stateFile, pelFile, compacting, crashCount>>

Op(type, o, c) == [type |-> type, offset |-> o, consumer |-> c, count |-> 0]

(* Deliveries follow the cursor; after a seek they repeat.                 *)
Deliver(o, c) ==
    /\ o <= mem.cursor
    /\ Operation(Op("deliver", o, c))
    /\ owed' = owed \cup {o}

RestorePending(o, c, n) ==
    /\ o < mem.cursor
    /\ Operation([Op("restore", o, c) EXCEPT !.count = n])
    /\ owed' = owed \cup {o}

Ack(o) == Operation(Op("ack", o, NoMember)) /\ owed' = owed \ {o}

Nack(o) ==
    /\ mem.pel[o].count < MaxAttempts
    /\ Operation(Op("nack", o, NoMember)) /\ UNCHANGED owed

Claim(o, c) ==
    /\ mem.pel[o].count < MaxAttempts
    /\ Operation(Op("claim", o, c)) /\ UNCHANGED owed

RestoreAckFloor(o) == Operation(Op("floor", o, NoMember)) /\ UNCHANGED owed

(* SetCursor: a seek; what it passes over is no longer to be delivered.    *)
SetCursor(o) ==
    /\ Operation(Op("cursor", o, NoMember))
    /\ owed' = {p \in owed : p < mem.cursor \/ p >= o}

(* compactLocked: state.json, the shards in order, then the log.  Mutant:  *)
(* the log is emptied before the shards are written.                       *)
Shard(o) == o % Shards
TruncatesEarly(n) == n = 2
TruncatesAt(n) == n = Shards + 2

Compact ==
    LET n == compacting + 1 IN
    /\ opLog # <<>> \/ compacting > 0
    /\ compacting' = IF n = Shards + 2 THEN 0 ELSE n
    /\ stateFile' = IF n = 1 THEN [floor |-> mem.floor, cursor |-> mem.cursor]
                    ELSE stateFile
    /\ pelFile' = [o \in Offsets |-> IF n = Shard(o) + 2 THEN mem.pel[o] ELSE pelFile[o]]
    /\ opLog' = IF TruncatesAt(n) THEN <<>> ELSE opLog
    /\ UNCHANGED <<mem, owed, opCount, crashCount>>

(* NewConsumerState: load the snapshots, rebuild the index by consumer and *)
(* replay the log.  Mutant: the log is not replayed over a snapshot.       *)
Load ==
    [floor |-> stateFile.floor, cursor |-> stateFile.cursor, pel |-> pelFile,
     byConsumer |-> [c \in Members |-> {o \in Offsets : pelFile[o].owner = c}]]
ReplayNothing(ops) == Load
Replay(ops) == FoldLeft(ApplyOp, Load, ops)

(* The process dies and starts again: what it wrote is there.              *)
CrashAndLoad ==
    /\ crashCount < MaxStateCrashes
    /\ mem' = Replay(opLog)
    /\ compacting' = 0
    /\ crashCount' = crashCount + 1
    /\ UNCHANGED <<stateFile, pelFile, opLog, owed, opCount>>

-----------------------------------------------------------------------------
StateNext ==
    \/ \E o \in Offsets :
          \/ \E c \in Members : Deliver(o, c) \/ Claim(o, c) \/ RestorePending(o, c, 2)
          \/ Ack(o) \/ Nack(o) \/ RestoreAckFloor(o) \/ SetCursor(o)
    \/ Compact \/ CrashAndLoad

StateSpec == StateInit /\ [][StateNext]_stateVars

-----------------------------------------------------------------------------
(* Properties.                                                             *)

(* A restart forgets no delivery: a record the group handed out and nobody *)
(* acknowledged is pending, or lies at or above the cursor and will be     *)
(* handed out again, whichever writes the crash fell between.              *)
NoDeliveryForgotten ==
    \A o \in owed : o < mem.cursor => IsPending(mem, o)

(* Replaying a log whose effects a half-written snapshot already holds     *)
(* gives back the pending entries, their owners and the cursor; only the   *)
(* delivery count may come back higher, counting a claim twice.            *)
RecoversPending ==
    [][crashCount' # crashCount =>
          /\ mem'.cursor = mem.cursor
          /\ \A o \in Offsets : /\ mem'.pel[o].owner = mem.pel[o].owner
                                /\ mem'.pel[o].count >= mem.pel[o].count]_stateVars

=============================================================================
