------------------------ MODULE TransferDedupeProofs ------------------------
(***************************************************************************)
(* Proofs about TransferDedupe: for every set of sources, every number of  *)
(* lives of the source queue, every log length and every number of crashes *)
(* and failed writes, with and without fsync.                              *)
(***************************************************************************)
EXTENDS TransferDedupe, TLAPS

(* The steps of a transfer at which its record is known to be in the log,  *)
(* and those at which it is known not to be.                               *)
HoldingSteps == {"sync", "unconfirmed", "put", "confirm"}
MissingSteps == {"reserve", "append", "clear"}
TransferSteps == {"lookup"} \cup HoldingSteps \cup MissingSteps

DlqRecord == [key : Sources \cup {NoSource}, life : 0..Incarnations]
DedupeEntry == [state : {"absent", "pending", "unconfirmed", "confirmed"}, offset : Nat]
TransferOp == [step : TransferSteps, key : Sources, life : 1..Incarnations, offset : Nat]
PruneOp == [step : {"prune"}, offset : Nat]

DedupeTypeOK ==
    /\ life \in 1..Incarnations
    /\ dlq \in Seq(DlqRecord) /\ dlqHead \in Nat /\ synced \in Nat
    /\ index \in [Sources -> DedupeEntry]
    /\ op \in {NoOp} \cup TransferOp \cup PruneOp
    /\ faults \in Nat

(* No identity has two records.                                            *)
OneRecord ==
    \A k \in Sources : \A o, p \in Nat : Carries(o, k) /\ Carries(p, k) => o = p

(* The index leads to the record: a pending entry bounds its offset from   *)
(* below, any other entry names it.                                        *)
IndexFinds ==
    \A k \in Sources : \A o \in Nat : Carries(o, k) =>
        \/ index[k].state = "pending" /\ index[k].offset <= o
        \/ index[k].state \in {"unconfirmed", "confirmed"} /\ index[k].offset = o

(* What the operation that holds the lock has established.                 *)
OpKnows ==
    /\ op.step \in MissingSteps => \A o \in Nat : ~ Carries(o, op.key)
    /\ op.step = "append" =>
         index[op.key].state = "pending" /\ index[op.key].offset <= DlqTail
    /\ op.step \in HoldingSteps => Carries(op.offset, op.key)
    /\ op.step = "prune" => op.offset = dlqHead

(* Under fsync whatever is confirmed, or about to be, is on disk, and the  *)
(* transfer under way has not been settled.                                *)
DurableFirst ==
    /\ synced <= DlqTail
    /\ Fsync =>
         /\ \A k \in Sources : index[k].state = "confirmed" => index[k].offset < synced
         /\ op.step = "put" => op.offset < synced
         /\ op.step \in TransferSteps => <<op.life, op.key>> \notin settled

DedupeInv ==
    DedupeTypeOK /\ OneRecord /\ IndexFinds /\ OpKnows /\ DurableFirst /\ SettledIsDurable

-----------------------------------------------------------------------------
(* The destination log.                                                    *)

(* The log's records stay where they are when it does not change.          *)
LEMMA DlqSame ==
    ASSUME UNCHANGED <<dlq, dlqHead>>
    PROVE  /\ DlqTail' = DlqTail
           /\ \A o : Held(o)' = Held(o) /\ RecordAt(o)' = RecordAt(o)
           /\ \A o, k : Carries(o, k)' = Carries(o, k)
  BY DEF DlqTail, Held, RecordAt, Carries

(* An append adds one record, at the tail.                                 *)
LEMMA DlqAppend ==
    ASSUME DedupeTypeOK, NEW r \in DlqRecord, dlq' = Append(dlq, r), dlqHead' = dlqHead
    PROVE  /\ dlq' \in Seq(DlqRecord)
           /\ DlqTail \in Nat /\ DlqTail' = DlqTail + 1
           /\ \A o \in Nat : Held(o)' <=> Held(o) \/ o = DlqTail
           /\ \A o \in Nat : Held(o) => RecordAt(o)' = RecordAt(o)
           /\ \A o \in Nat : o = DlqTail => RecordAt(o)' = r
           /\ \A o \in Nat, k \in Sources :
                Carries(o, k)' <=> Carries(o, k) \/ (o = DlqTail /\ r.key = k)
<1>1. Len(dlq) \in Nat /\ Len(dlq') = Len(dlq) + 1 /\ dlq' \in Seq(DlqRecord)
  BY DEF DedupeTypeOK
<1>2. \A i \in 1..Len(dlq) : dlq'[i] = dlq[i]
  BY <1>1 DEF DedupeTypeOK
<1>3. dlq'[Len(dlq) + 1] = r
  BY <1>1 DEF DedupeTypeOK
<1>4. DlqTail \in Nat /\ DlqTail' = DlqTail + 1
  BY <1>1 DEF DedupeTypeOK, DlqTail
<1>5. \A o \in Nat : Held(o)' <=> Held(o) \/ o = DlqTail
  BY <1>1, <1>4 DEF DedupeTypeOK, DlqTail, Held
<1>6. \A o \in Nat : Held(o) => RecordAt(o)' = RecordAt(o)
  BY <1>1, <1>2 DEF DedupeTypeOK, DlqTail, Held, RecordAt
<1>7. \A o \in Nat : o = DlqTail => RecordAt(o)' = r
  BY <1>1, <1>3 DEF DedupeTypeOK, DlqTail, RecordAt
<1>8. \A o \in Nat : Held(o) => o # DlqTail
  BY <1>4 DEF Held, DedupeTypeOK
<1>9. ASSUME NEW o \in Nat, NEW k \in Sources
      PROVE  Carries(o, k)' <=> Carries(o, k) \/ (o = DlqTail /\ r.key = k)
  <2>1. CASE Held(o)
    BY <2>1, <1>5, <1>6, <1>8 DEF Carries
  <2>2. CASE ~ Held(o)
    BY <2>2, <1>5, <1>7 DEF Carries
  <2> QED
    BY <2>1, <2>2
<1> QED
  BY <1>1, <1>4, <1>5, <1>6, <1>7, <1>9

(* A truncation keeps the records from its offset on.                      *)
LEMMA DlqSuffix ==
    ASSUME DedupeTypeOK, NEW o \in Nat, Held(o),
           dlq' = SubSeq(dlq, o - dlqHead + 1, Len(dlq)), dlqHead' = o
    PROVE  /\ dlq' \in Seq(DlqRecord) /\ DlqTail' = DlqTail
           /\ \A p \in Nat : Held(p)' <=> Held(p) /\ p >= o
           /\ \A p \in Nat : Held(p)' => RecordAt(p)' = RecordAt(p)
           /\ \A p \in Nat, k \in Sources : Carries(p, k)' => Carries(p, k)
<1>1. /\ Len(dlq) \in Nat /\ dlqHead \in Nat
      /\ o - dlqHead + 1 \in 1..Len(dlq)
  BY DEF DedupeTypeOK, Held, DlqTail
<1>2. /\ dlq' \in Seq(DlqRecord)
      /\ Len(dlq') = Len(dlq) - (o - dlqHead)
      /\ \A i \in 1..Len(dlq') : dlq'[i] = dlq[i + o - dlqHead]
  BY <1>1 DEF DedupeTypeOK
<1>3. DlqTail' = DlqTail
  BY <1>1, <1>2 DEF DlqTail
<1>4. \A p \in Nat : Held(p)' <=> Held(p) /\ p >= o
  BY <1>1, <1>3 DEF Held
<1>5. \A p \in Nat : Held(p)' => RecordAt(p)' = RecordAt(p)
  BY <1>1, <1>2 DEF Held, DlqTail, RecordAt
<1> QED
  BY <1>2, <1>3, <1>4, <1>5 DEF Carries

(* A crash keeps the records below its offset.                             *)
LEMMA DlqPrefix ==
    ASSUME DedupeTypeOK, NEW o \in Nat, o \in dlqHead..DlqTail,
           dlq' = SubSeq(dlq, 1, o - dlqHead), dlqHead' = dlqHead
    PROVE  /\ dlq' \in Seq(DlqRecord) /\ DlqTail' = o
           /\ \A p \in Nat : Held(p)' => Held(p) /\ RecordAt(p)' = RecordAt(p)
           /\ \A p \in Nat, k \in Sources : Carries(p, k)' => Carries(p, k)
<1>1. Len(dlq) \in Nat /\ dlqHead \in Nat /\ o - dlqHead \in 0..Len(dlq)
  BY DEF DedupeTypeOK, DlqTail
<1>2. /\ dlq' \in Seq(DlqRecord)
      /\ Len(dlq') = o - dlqHead
      /\ \A i \in 1..Len(dlq') : dlq'[i] = dlq[i]
  BY <1>1 DEF DedupeTypeOK
<1>3. DlqTail' = o
  BY <1>1, <1>2 DEF DlqTail
<1>4. \A p \in Nat : Held(p)' => Held(p) /\ RecordAt(p)' = RecordAt(p)
  BY <1>1, <1>2 DEF Held, DlqTail, RecordAt
<1> QED
  BY <1>2, <1>3, <1>4 DEF Carries

-----------------------------------------------------------------------------
(* Type correctness.                                                       *)

(* The step of an operation tells a transfer from a truncation.            *)
LEMMA OpShape ==
    ASSUME DedupeTypeOK
    PROVE  /\ op.step \in TransferSteps => op \in TransferOp
           /\ op.step = "prune" => op \in PruneOp
           /\ op = NoOp => op.step = "none"
  BY DEF DedupeTypeOK, TransferOp, PruneOp, NoOp, TransferSteps, HoldingSteps, MissingSteps

(* A transfer that goes on to another step, or notes an offset, is still a *)
(* well-formed transfer.                                                   *)
LEMMA OpMoves ==
    ASSUME op \in TransferOp, NEW s \in TransferSteps, NEW o \in Nat
    PROVE  /\ [op EXCEPT !.step = s] \in TransferOp
           /\ [op EXCEPT !.step = s, !.offset = o] \in TransferOp
           /\ op.key \in Sources /\ op.life \in 1..Incarnations /\ op.offset \in Nat
  BY Zenon DEF TransferOp, TransferSteps

(* The three outcomes of a lookup: the record is confirmed, it is there    *)
(* but was never confirmed, or the index leads to none.                    *)
LEMMA LookupOutcomes ==
    ASSUME DedupeTypeOK, Lookup
    PROVE  /\ op \in TransferOp /\ op.key \in Sources /\ op.step = "lookup"
           /\ UNCHANGED <<life, dlq, dlqHead, synced, faults>>
           /\ \/ /\ index[op.key].state = "confirmed" /\ Carries(index[op.key].offset, op.key)
                 /\ SettleSource(op.key) /\ UNCHANGED index
              \/ \E o \in Nat : /\ Carries(o, op.key)
                               /\ op' = [op EXCEPT !.step = "confirm", !.offset = o]
                               /\ UNCHANGED <<index, settled>>
              \/ /\ \/ index[op.key] = Absent
                    \/ index[op.key].state = "pending"
                       /\ \A o \in Nat : o >= index[op.key].offset => ~ Carries(o, op.key)
                    \/ index[op.key].state # "pending" /\ ~ Carries(index[op.key].offset, op.key)
                 /\ index' = [index EXCEPT ![op.key] = Absent]
                 /\ op' = [op EXCEPT !.step = "reserve"] /\ UNCHANGED settled
<1>1. op \in TransferOp /\ op.key \in Sources
  BY Zenon, OpShape DEF Lookup, TransferSteps, TransferOp
<1>2. DlqTail \in Nat /\ index[op.key] \in DedupeEntry
  BY <1>1 DEF DedupeTypeOK, DlqTail
<1> DEFINE found == IF index[op.key] = Absent THEN {} ELSE ResolveDedupeEntry(op.key)
<1>3. /\ \A o \in found : o \in Nat /\ Carries(o, op.key)
      /\ found # {} /\ index[op.key].state = "confirmed" =>
            Carries(index[op.key].offset, op.key)
  BY <1>2 DEF ResolveDedupeEntry, FindDedupeRecord, DedupeEntry
<1>4. ASSUME found = {}
      PROVE  \/ index[op.key] = Absent
             \/ index[op.key].state = "pending"
                /\ \A o \in Nat : o >= index[op.key].offset => ~ Carries(o, op.key)
             \/ index[op.key].state # "pending" /\ ~ Carries(index[op.key].offset, op.key)
  BY <1>2, <1>4
     DEF ResolveDedupeEntry, FindDedupeRecord, DedupeEntry, Carries, Held, DedupeTypeOK
<1>5. CASE found # {} /\ index[op.key].state = "confirmed" /\ SettleSource(op.key)
           /\ UNCHANGED index
  BY Zenon, <1>1, <1>3, <1>5 DEF Lookup
<1>6. CASE /\ \E o \in found : op' = [op EXCEPT !.step = "confirm", !.offset = o]
           /\ UNCHANGED <<index, settled>>
  BY Zenon, <1>1, <1>3, <1>6 DEF Lookup
<1>7. CASE /\ found = {} /\ index' = [index EXCEPT ![op.key] = Absent]
           /\ DedupeStep("reserve") /\ UNCHANGED settled
  BY Zenon, <1>1, <1>4, <1>7 DEF Lookup, DedupeStep
<1> QED
  BY Zenon, <1>5, <1>6, <1>7 DEF Lookup

(* Every operation leaves log, index and operation well formed.            *)
LEMMA DedupeType ==
    ASSUME DedupeTypeOK, [DedupeNext]_dedupeVars
    PROVE  DedupeTypeOK'
<1> USE DedupeAssumption
<1>t. DlqTail \in Nat
  BY DEF DedupeTypeOK, DlqTail
<1>n. NoOp \in {NoOp} \cup TransferOp \cup PruneOp
  OBVIOUS
<1>1. ASSUME NEW k \in Sources, MoveToDLQ(k) PROVE DedupeTypeOK'
  BY <1>1 DEF DedupeTypeOK, MoveToDLQ, TransferOp, TransferSteps
<1>2. ASSUME Lookup PROVE DedupeTypeOK'
  <2>1. Absent \in DedupeEntry
    BY DEF Absent, DedupeEntry
  <2>2. op' \in {NoOp} \cup TransferOp
    <3>1. \A o \in Nat : [op EXCEPT !.step = "confirm", !.offset = o] \in TransferOp
      BY Zenon, <1>2, LookupOutcomes, OpMoves DEF TransferSteps, HoldingSteps
    <3>2. [op EXCEPT !.step = "reserve"] \in TransferOp
      BY Zenon, <1>2, LookupOutcomes, OpMoves DEF TransferSteps, MissingSteps
    <3> QED
      BY Zenon, <1>2, <3>1, <3>2, LookupOutcomes DEF SettleSource
  <2>3. index' \in [Sources -> DedupeEntry]
    BY Zenon, <1>2, <2>1, LookupOutcomes DEF DedupeTypeOK
  <2> QED
    BY Zenon, <1>2, <2>2, <2>3 DEF Lookup, DedupeTypeOK
<1>3. ASSUME ReserveKey \/ AppendFails \/ ClearReservation \/ PutUnconfirmed \/ PutConfirmed
      PROVE  DedupeTypeOK'
  <2>1. op \in TransferOp
    BY <1>3, OpShape DEF ReserveKey, AppendFails, ClearReservation, PutUnconfirmed, PutConfirmed,
       TransferSteps, HoldingSteps, MissingSteps
  <2>2. op' \in {NoOp} \cup TransferOp
    BY Zenon, <1>3, <2>1, OpMoves DEF ReserveKey, AppendFails, ClearReservation, PutUnconfirmed,
       PutConfirmed, DedupeStep, Refuse, SettleSource, TransferSteps, HoldingSteps, MissingSteps
  <2>3. /\ \A s \in {"pending", "unconfirmed", "confirmed"}, o \in Nat :
              [state |-> s, offset |-> o] \in DedupeEntry
        /\ Absent \in DedupeEntry /\ op.key \in Sources /\ op.offset \in Nat
    BY <2>1 DEF DedupeEntry, Absent, TransferOp
  <2>4. index' \in [Sources -> DedupeEntry]
    BY <1>3, <1>t, <2>3 DEF ReserveKey, Reserve, Put, AppendFails, ClearReservation,
       PutUnconfirmed, PutConfirmed, DedupeTypeOK
  <2> QED
    BY <1>3, <2>2, <2>4 DEF ReserveKey, AppendFails, ClearReservation, PutUnconfirmed,
       PutConfirmed, Fault, DedupeTypeOK
<1>4. ASSUME AppendRecord PROVE DedupeTypeOK'
  <2>1. op \in TransferOp
    BY <1>4, OpShape DEF AppendRecord, TransferSteps, MissingSteps
  <2>2. op' \in TransferOp
    BY Zenon, <1>4, <1>t, <2>1, OpMoves DEF AppendRecord, Barrier, TransferSteps, HoldingSteps
  <2>3. dlq' \in Seq(DlqRecord)
    BY <1>4, <2>1 DEF AppendRecord, DedupeTypeOK, DlqRecord, TransferOp
  <2> QED
    BY <1>4, <2>2, <2>3 DEF AppendRecord, DedupeTypeOK
<1>5. ASSUME NEW ok \in BOOLEAN, ConfirmSync(ok) \/ SyncRecord(ok) PROVE DedupeTypeOK'
  <2>1. op \in TransferOp
    BY <1>5, OpShape DEF ConfirmSync, SyncRecord, TransferSteps, HoldingSteps
  <2>2. op' \in {NoOp} \cup TransferOp
    BY Zenon, <1>5, <2>1, OpMoves DEF ConfirmSync, SyncRecord, DedupeStep, Refuse, TransferSteps,
       HoldingSteps
  <2> QED
    BY <1>5, <1>t, <2>2 DEF ConfirmSync, SyncRecord, Fault, DedupeTypeOK
<1>6. ASSUME IndexWriteFails PROVE DedupeTypeOK'
  BY <1>6 DEF IndexWriteFails, Fault, Refuse, DedupeTypeOK
<1>7. ASSUME NEW o \in 0..MaxTail, TruncateLog(o) PROVE DedupeTypeOK'
  <2>0. o \in Nat
    OBVIOUS
  <2>1. dlq' \in Seq(DlqRecord)
    BY Zenon, <1>7, <2>0, DlqSuffix DEF TruncateLog
  <2>2. op' \in PruneOp
    BY <1>7 DEF TruncateLog, PruneOp
  <2> QED
    BY <1>7, <2>1, <2>2 DEF TruncateLog, DedupeTypeOK
<1>8. ASSUME NEW o \in 0..MaxTail, DedupeCrash(o) PROVE DedupeTypeOK'
  <2>0. o \in Nat /\ o \in dlqHead..DlqTail
    BY <1>8, <1>t DEF DedupeCrash, DedupeTypeOK
  <2>1. dlq' \in Seq(DlqRecord)
    BY Zenon, <1>8, <2>0, DlqPrefix DEF DedupeCrash
  <2> QED
    BY <1>8, <2>1 DEF DedupeCrash, Fault, DedupeTypeOK
<1>9. ASSUME PruneBelow PROVE DedupeTypeOK'
  <2>1. op \in PruneOp
    BY <1>9, OpShape DEF PruneBelow
  <2>2. index' \in [Sources -> DedupeEntry]
    BY <1>9, <2>1 DEF PruneBelow, DedupeTypeOK, PruneOp, DedupeEntry, Absent
  <2> QED
    BY <1>9, <2>2 DEF PruneBelow, DedupeTypeOK
<1>10. ASSUME OtherAppend PROVE DedupeTypeOK'
  <2>1. Other \in DlqRecord
    BY DEF Other, DlqRecord
  <2> QED
    BY <1>10, <2>1 DEF OtherAppend, DedupeTypeOK
<1>11. ASSUME RecreateSource PROVE DedupeTypeOK'
  BY <1>11 DEF RecreateSource, DedupeTypeOK
<1>12. ASSUME UNCHANGED dedupeVars PROVE DedupeTypeOK'
  BY <1>12 DEF dedupeVars, DedupeTypeOK
<1> QED
  BY <1>1, <1>2, <1>3, <1>4, <1>5, <1>6, <1>7, <1>8, <1>9, <1>10, <1>11, <1>12 DEF DedupeNext

-----------------------------------------------------------------------------
(* The inductive invariant.                                                *)

(* Steps that leave the log alone and settle nothing keep one record per   *)
(* identity, and syncing more of the log only helps.                       *)
LEMMA LogKept ==
    ASSUME DedupeInv, UNCHANGED <<dlq, dlqHead, settled>>, synced' \in {synced, DlqTail}
    PROVE  OneRecord' /\ SettledIsDurable' /\ synced <= synced' /\ synced' <= DlqTail'
<1>1. DlqTail \in Nat /\ synced \in Nat /\ synced <= DlqTail
  BY DEF DedupeInv, DurableFirst, DedupeTypeOK, DlqTail
<1>2. OneRecord'
  BY DlqSame DEF DedupeInv, OneRecord
<1>3. SettledIsDurable'
  BY <1>1, DlqSame DEF DedupeInv, SettledIsDurable
<1> QED
  BY <1>1, <1>2, <1>3, DlqSame

(* A transfer begins.                                                      *)
LEMMA KeptByMove ==
    ASSUME DedupeInv, NEW k \in Sources, MoveToDLQ(k)
    PROVE  OneRecord' /\ IndexFinds' /\ OpKnows' /\ DurableFirst' /\ SettledIsDurable'
<1>1. UNCHANGED <<dlq, dlqHead, settled, synced, index>>
  BY DEF MoveToDLQ
<1>2. op'.step = "lookup" /\ op'.life = life /\ op'.key = k
  BY DEF MoveToDLQ
<1>3. IndexFinds'
  BY <1>1, DlqSame DEF DedupeInv, IndexFinds
<1>4. OpKnows'
  BY <1>2 DEF OpKnows, HoldingSteps, MissingSteps
<1>5. DurableFirst'
  BY <1>1, <1>2, LogKept DEF DedupeInv, DurableFirst, MoveToDLQ
<1> QED
  BY <1>1, <1>3, <1>4, <1>5, LogKept

(* Whatever the lookup finds, it knows what it does next to be right: if   *)
(* the index leads to no record, the log holds none.                       *)
LEMMA KeptByLookup ==
    ASSUME DedupeInv, Lookup
    PROVE  OneRecord' /\ IndexFinds' /\ OpKnows' /\ DurableFirst' /\ SettledIsDurable'
<1>0. DedupeTypeOK /\ OneRecord /\ IndexFinds /\ OpKnows /\ DurableFirst /\ SettledIsDurable
  BY DEF DedupeInv
<1>1. /\ op \in TransferOp /\ op.key \in Sources /\ op.step = "lookup"
      /\ UNCHANGED <<life, dlq, dlqHead, synced, faults>>
  BY Zenon, <1>0, LookupOutcomes
<1>2. CASE /\ index[op.key].state = "confirmed" /\ Carries(index[op.key].offset, op.key)
           /\ SettleSource(op.key) /\ UNCHANGED index
  <2>1. op' = NoOp /\ op'.step = "none" /\ settled' = settled \cup {<<op.life, op.key>>}
    BY <1>2 DEF SettleSource, NoOp
  <2>2. OneRecord' /\ IndexFinds'
    BY <1>0, <1>1, <1>2, DlqSame DEF OneRecord, IndexFinds
  <2>3. OpKnows' /\ DurableFirst'
    BY <1>0, <1>1, <1>2, <2>1, DlqSame
       DEF OpKnows, DurableFirst, HoldingSteps, MissingSteps, TransferSteps
  <2>4. SettledIsDurable'
    <3> SUFFICES ASSUME Fsync, NEW k \in Sources, NEW o \in synced..(DlqTail - 1), Carries(o, k)
                 PROVE  <<RecordAt(o).life, k>> \notin settled'
      BY <1>1, DlqSame DEF SettledIsDurable
    <3>1. <<RecordAt(o).life, k>> \notin settled
      BY <1>0 DEF SettledIsDurable
    <3>2. o \in Nat /\ o >= synced /\ index[op.key].offset \in Nat
      BY <1>0, <1>1 DEF DedupeTypeOK, DedupeEntry, DlqTail
    <3>3. index[op.key].offset < synced
      BY <1>0, <1>1, <1>2 DEF DurableFirst
    <3>4. k # op.key
      BY <1>0, <1>1, <1>2, <3>2, <3>3 DEF OneRecord, DedupeTypeOK
    <3> QED
      BY <2>1, <3>1, <3>4
  <2> QED
    BY <2>2, <2>3, <2>4
<1>3. ASSUME NEW o \in Nat, Carries(o, op.key),
             op' = [op EXCEPT !.step = "confirm", !.offset = o], UNCHANGED <<index, settled>>
      PROVE  OneRecord' /\ IndexFinds' /\ OpKnows' /\ DurableFirst' /\ SettledIsDurable'
  <2>1. op'.step = "confirm" /\ op'.offset = o /\ op'.key = op.key /\ op'.life = op.life
    BY <1>1, <1>3 DEF TransferOp
  <2>2. IndexFinds'
    BY <1>0, <1>1, <1>3, DlqSame DEF IndexFinds
  <2>3. OpKnows'
    BY <1>1, <1>3, <2>1, DlqSame DEF OpKnows, HoldingSteps, MissingSteps
  <2>4. DurableFirst'
    BY <1>0, <1>1, <1>3, <2>1, DlqSame DEF DurableFirst, TransferSteps
  <2> QED
    BY <1>1, <1>3, <2>2, <2>3, <2>4, LogKept
<1>4. ASSUME \/ index[op.key] = Absent
             \/ index[op.key].state = "pending"
                /\ \A o \in Nat : o >= index[op.key].offset => ~ Carries(o, op.key)
             \/ index[op.key].state # "pending" /\ ~ Carries(index[op.key].offset, op.key),
             index' = [index EXCEPT ![op.key] = Absent],
             op' = [op EXCEPT !.step = "reserve"], UNCHANGED settled
      PROVE  OneRecord' /\ IndexFinds' /\ OpKnows' /\ DurableFirst' /\ SettledIsDurable'
  <2>1. op'.step = "reserve" /\ op'.key = op.key /\ op'.life = op.life
    BY <1>1, <1>4 DEF TransferOp
  <2>2. \A o \in Nat : ~ Carries(o, op.key)
    <3>1. index[op.key] \in DedupeEntry
      BY <1>0, <1>1 DEF DedupeTypeOK
    <3> QED
      BY <1>0, <1>1, <1>4, <3>1 DEF IndexFinds, DedupeEntry, Absent
  <2>3. /\ \A k \in Sources : k # op.key => index'[k] = index[k]
        /\ index'[op.key].state = "absent"
    BY <1>0, <1>1, <1>4 DEF DedupeTypeOK, Absent
  <2>4. IndexFinds'
    BY <1>0, <1>1, <2>2, <2>3, DlqSame DEF IndexFinds
  <2>5. OpKnows'
    BY <1>1, <2>1, <2>2, DlqSame DEF OpKnows, HoldingSteps, MissingSteps
  <2>6. DurableFirst'
    BY <1>0, <1>1, <1>4, <2>1, <2>3, DlqSame DEF DurableFirst, TransferSteps
  <2> QED
    BY <1>1, <1>4, <2>4, <2>5, <2>6, LogKept
<1> QED
  BY Zenon, <1>0, <1>2, <1>3, <1>4, LookupOutcomes

(* Steps that end the operation without a word to the source: a failed     *)
(* write, a cleared reservation, and nothing at all under a new life.      *)
LEMMA KeptByRefusal ==
    ASSUME DedupeInv, IndexWriteFails \/ ClearReservation \/ RecreateSource
    PROVE  OneRecord' /\ IndexFinds' /\ OpKnows' /\ DurableFirst' /\ SettledIsDurable'
<1>0. DedupeTypeOK /\ IndexFinds /\ OpKnows /\ DurableFirst
  BY DEF DedupeInv
<1>1. UNCHANGED <<dlq, dlqHead, synced, settled>> /\ op' = NoOp /\ op'.step = "none"
  BY DEF IndexWriteFails, ClearReservation, RecreateSource, Refuse, NoOp
<1>2. \/ index' = index
      \/ /\ op \in TransferOp /\ op.step = "clear"
         /\ index' = [index EXCEPT ![op.key] = Absent]
  BY <1>0, OpShape
     DEF IndexWriteFails, ClearReservation, RecreateSource, TransferSteps, MissingSteps
<1>3. \A k \in Sources : index'[k] = index[k] \/ (index'[k].state = "absent"
                                                  /\ \A o \in Nat : ~ Carries(o, k))
  <2>1. CASE index' = index
    BY <2>1
  <2>2. CASE /\ op \in TransferOp /\ op.step = "clear"
             /\ index' = [index EXCEPT ![op.key] = Absent]
    <3>1. \A o \in Nat : ~ Carries(o, op.key)
      BY <1>0, <2>2 DEF OpKnows, MissingSteps
    <3> QED
      BY <1>0, <2>2, <3>1 DEF DedupeTypeOK, Absent
  <2> QED
    BY <1>2, <2>1, <2>2
<1>4. IndexFinds'
  BY <1>0, <1>1, <1>3, DlqSame DEF IndexFinds
<1>5. OpKnows'
  BY <1>1 DEF OpKnows, HoldingSteps, MissingSteps
<1>6. DurableFirst'
  BY <1>0, <1>1, <1>3, DlqSame DEF DurableFirst, TransferSteps, HoldingSteps, MissingSteps
<1> QED
  BY <1>1, <1>4, <1>5, <1>6, LogKept

(* The reservation notes the tail, below which no record of the identity   *)
(* can be.                                                                 *)
LEMMA KeptByReserve ==
    ASSUME DedupeInv, ReserveKey
    PROVE  OneRecord' /\ IndexFinds' /\ OpKnows' /\ DurableFirst' /\ SettledIsDurable'
<1>0. DedupeTypeOK /\ IndexFinds /\ OpKnows /\ DurableFirst
  BY DEF DedupeInv
<1>1. /\ op \in TransferOp /\ op.key \in Sources /\ op.step = "reserve" /\ DlqTail \in Nat
      /\ UNCHANGED <<dlq, dlqHead, synced, settled>>
  BY <1>0, OpShape
     DEF ReserveKey, TransferOp, TransferSteps, MissingSteps, DedupeTypeOK, DlqTail
<1>2. op'.step = "append" /\ op'.key = op.key /\ op'.life = op.life
  BY <1>1 DEF ReserveKey, DedupeStep, TransferOp
<1>3. /\ \A k \in Sources : k # op.key => index'[k] = index[k]
      /\ index'[op.key].state = "pending" /\ index'[op.key].offset = DlqTail
  BY <1>0, <1>1 DEF ReserveKey, Reserve, Put, DedupeTypeOK
<1>4. \A o \in Nat : ~ Carries(o, op.key)
  BY <1>0, <1>1 DEF OpKnows, MissingSteps
<1>5. IndexFinds'
  BY <1>0, <1>1, <1>3, <1>4, DlqSame DEF IndexFinds
<1>6. OpKnows'
  BY <1>1, <1>2, <1>3, <1>4, DlqSame DEF OpKnows, HoldingSteps, MissingSteps
<1>7. DurableFirst'
  BY <1>0, <1>1, <1>2, <1>3, DlqSame DEF DurableFirst, TransferSteps, MissingSteps
<1> QED
  BY <1>1, <1>5, <1>6, <1>7, LogKept

(* A failed append leaves the reservation to be cleared.                   *)
LEMMA KeptByAppendFails ==
    ASSUME DedupeInv, AppendFails
    PROVE  OneRecord' /\ IndexFinds' /\ OpKnows' /\ DurableFirst' /\ SettledIsDurable'
<1>0. DedupeTypeOK /\ IndexFinds /\ OpKnows /\ DurableFirst
  BY DEF DedupeInv
<1>1. /\ op \in TransferOp /\ op.step = "append"
      /\ UNCHANGED <<dlq, dlqHead, synced, settled, index>>
  BY <1>0, OpShape DEF AppendFails, TransferSteps, MissingSteps
<1>2. op'.step = "clear" /\ op'.key = op.key /\ op'.life = op.life
  BY <1>1 DEF AppendFails, DedupeStep, TransferOp
<1>3. IndexFinds'
  BY <1>0, <1>1, DlqSame DEF IndexFinds
<1>4. OpKnows'
  BY <1>0, <1>1, <1>2, DlqSame DEF OpKnows, HoldingSteps, MissingSteps
<1>5. DurableFirst'
  BY <1>0, <1>1, <1>2, DlqSame DEF DurableFirst, TransferSteps, MissingSteps
<1> QED
  BY <1>1, <1>3, <1>4, <1>5, LogKept

(* The record goes where the reservation leads, and is the only one.       *)
LEMMA KeptByAppendRecord ==
    ASSUME DedupeInv, AppendRecord
    PROVE  OneRecord' /\ IndexFinds' /\ OpKnows' /\ DurableFirst' /\ SettledIsDurable'
<1>0. DedupeTypeOK /\ OneRecord /\ IndexFinds /\ OpKnows /\ DurableFirst /\ SettledIsDurable
  BY DEF DedupeInv
<1>1. /\ op \in TransferOp /\ op.key \in Sources /\ op.step = "append"
      /\ UNCHANGED <<dlqHead, synced, settled, index>>
  BY <1>0, OpShape DEF AppendRecord, TransferSteps, MissingSteps, TransferOp
<1> DEFINE r == [key |-> op.key, life |-> op.life]
<1>2. r \in DlqRecord /\ dlq' = Append(dlq, r)
  BY <1>1 DEF AppendRecord, DlqRecord, TransferOp
<1>3. /\ DlqTail \in Nat /\ DlqTail' = DlqTail + 1
      /\ \A o \in Nat : Held(o) => RecordAt(o)' = RecordAt(o)
      /\ \A o \in Nat : o = DlqTail => RecordAt(o)' = r
      /\ \A o \in Nat, k \in Sources :
           Carries(o, k)' <=> Carries(o, k) \/ (o = DlqTail /\ op.key = k)
  BY <1>0, <1>1, <1>2, DlqAppend
<1>4. /\ op'.step \in {"sync", "put"} /\ op'.offset = DlqTail
      /\ op'.key = op.key /\ op'.life = op.life
      /\ Fsync => op'.step = "sync"
  BY <1>1 DEF AppendRecord, TransferOp, Barrier
<1>5. \A o \in Nat : ~ Carries(o, op.key)
  BY <1>0, <1>1 DEF OpKnows, MissingSteps
<1>6. OneRecord'
  BY <1>0, <1>3, <1>5 DEF OneRecord
<1>7. IndexFinds'
  BY <1>0, <1>1, <1>3 DEF IndexFinds, OpKnows
<1>8. OpKnows'
  <2>1. \A o \in Nat, k \in Sources : o = op'.offset /\ k = op'.key => Carries(o, k)'
    BY <1>3, <1>4
  <2> QED
    BY <1>1, <1>3, <1>4, <2>1 DEF OpKnows, HoldingSteps, MissingSteps
<1>9. DurableFirst'
  BY <1>0, <1>1, <1>3, <1>4 DEF DurableFirst, DedupeTypeOK, TransferSteps, MissingSteps
<1>10. SettledIsDurable'
  <2> SUFFICES ASSUME Fsync, NEW k \in Sources, NEW o \in synced..DlqTail, Carries(o, k)'
               PROVE  <<RecordAt(o)'.life, k>> \notin settled
    BY <1>1, <1>3 DEF SettledIsDurable
  <2>1. o \in Nat
    BY <1>0, <1>3 DEF DedupeTypeOK
  <2>2. CASE Carries(o, k)
    <3>1. Held(o) /\ o \in synced..(DlqTail - 1)
      BY <1>3, <2>1, <2>2 DEF Carries, Held, DedupeTypeOK
    <3> QED
      BY <1>0, <1>3, <2>1, <2>2, <3>1 DEF SettledIsDurable
  <2>3. CASE o = DlqTail /\ op.key = k
    <3>1. RecordAt(o)' = r
      BY <1>3, <2>3
    <3> QED
      BY <1>0, <1>1, <2>3, <3>1 DEF DurableFirst, TransferSteps, MissingSteps
  <2> QED
    BY <1>3, <2>1, <2>2, <2>3
<1> QED
  BY <1>6, <1>7, <1>8, <1>9, <1>10

(* A sync that succeeds covers the operation's record.                     *)
LEMMA KeptBySync ==
    ASSUME DedupeInv, NEW ok \in BOOLEAN, ConfirmSync(ok) \/ SyncRecord(ok)
    PROVE  OneRecord' /\ IndexFinds' /\ OpKnows' /\ DurableFirst' /\ SettledIsDurable'
<1>0. DedupeTypeOK /\ IndexFinds /\ OpKnows /\ DurableFirst
  BY DEF DedupeInv
<1>1. /\ op \in TransferOp /\ op.step \in HoldingSteps /\ op.offset \in Nat
      /\ UNCHANGED <<dlq, dlqHead, settled, index>>
      /\ Carries(op.offset, op.key)
  BY <1>0, OpShape DEF ConfirmSync, SyncRecord, TransferSteps, HoldingSteps, TransferOp, OpKnows
<1>2. \/ op' = NoOp /\ synced' = synced
      \/ op' = [op EXCEPT !.step = "unconfirmed"] /\ synced' = synced
      \/ op' = [op EXCEPT !.step = "put"] /\ synced' = DlqTail
  BY DEF ConfirmSync, SyncRecord, DedupeStep, Refuse
<1>3. op'.step # "none" => op'.key = op.key /\ op'.life = op.life /\ op'.offset = op.offset
  BY <1>1, <1>2 DEF TransferOp, NoOp
<1>4. /\ op'.step \in {"none", "unconfirmed", "put"}
      /\ op'.step = "put" => synced' = DlqTail
  BY <1>1, <1>2 DEF TransferOp, NoOp
<1>5. DlqTail \in Nat /\ op.offset < DlqTail
  BY <1>0, <1>1 DEF Carries, Held, DedupeTypeOK, DlqTail
<1>6. synced' \in {synced, DlqTail} /\ synced \in Nat /\ synced <= synced' /\ synced' <= DlqTail'
  BY <1>0, <1>1, <1>2, LogKept DEF DedupeTypeOK
<1>7. IndexFinds'
  BY <1>0, <1>1, DlqSame DEF IndexFinds
<1>8. OpKnows'
  BY <1>1, <1>3, <1>4, DlqSame DEF OpKnows, HoldingSteps, MissingSteps
<1>9. DurableFirst'
  <2>1. \A k \in Sources : index[k].offset \in Nat
    BY <1>0 DEF DedupeTypeOK, DedupeEntry
  <2> QED
    BY <1>0, <1>1, <1>3, <1>4, <1>5, <1>6, <2>1
       DEF DurableFirst, TransferSteps, HoldingSteps, MissingSteps
<1> QED
  BY <1>1, <1>6, <1>7, <1>8, <1>9, LogKept

(* The index names the operation's record, and only a record on disk       *)
(* settles its source.                                                     *)
LEMMA KeptByPut ==
    ASSUME DedupeInv, PutUnconfirmed \/ PutConfirmed
    PROVE  OneRecord' /\ IndexFinds' /\ OpKnows' /\ DurableFirst' /\ SettledIsDurable'
<1>0. DedupeTypeOK /\ OneRecord /\ IndexFinds /\ OpKnows /\ DurableFirst /\ SettledIsDurable
  BY DEF DedupeInv
<1>1. /\ op \in TransferOp /\ op.step \in {"unconfirmed", "put"} /\ op.offset \in Nat
      /\ op.key \in Sources /\ Carries(op.offset, op.key)
      /\ UNCHANGED <<dlq, dlqHead, synced>> /\ op' = NoOp /\ op'.step = "none"
  BY <1>0, OpShape DEF PutUnconfirmed, PutConfirmed, Refuse, SettleSource, TransferSteps,
     HoldingSteps, TransferOp, OpKnows, NoOp
<1>2. /\ \A k \in Sources : k # op.key => index'[k] = index[k]
      /\ index'[op.key].state \in {"unconfirmed", "confirmed"}
      /\ index'[op.key].offset = op.offset
      /\ index'[op.key].state = "confirmed" => op.step = "put"
  BY <1>0, <1>1 DEF PutUnconfirmed, PutConfirmed, Put, DedupeTypeOK
<1>3. /\ settled' \in {settled, settled \cup {<<op.life, op.key>>}}
      /\ settled' # settled => op.step = "put"
  BY DEF PutUnconfirmed, PutConfirmed, SettleSource
<1>4. OneRecord'
  BY <1>0, <1>1, DlqSame DEF OneRecord
<1>5. IndexFinds'
  BY <1>0, <1>1, <1>2, DlqSame DEF IndexFinds, OneRecord
<1>6. OpKnows'
  BY <1>1 DEF OpKnows, HoldingSteps, MissingSteps
<1>7. DurableFirst'
  BY <1>0, <1>1, <1>2, DlqSame DEF DurableFirst, TransferSteps, HoldingSteps, MissingSteps
<1>8. SettledIsDurable'
  <2> SUFFICES ASSUME Fsync, NEW k \in Sources, NEW o \in synced..(DlqTail - 1), Carries(o, k)
               PROVE  <<RecordAt(o).life, k>> \notin settled'
    BY <1>1, DlqSame DEF SettledIsDurable
  <2>1. <<RecordAt(o).life, k>> \notin settled
    BY <1>0 DEF SettledIsDurable
  <2>2. o \in Nat /\ o >= synced
    BY <1>0 DEF DedupeTypeOK, DlqTail
  <2>3. ASSUME k = op.key PROVE op.step # "put"
    BY <1>0, <1>1, <2>2, <2>3 DEF OneRecord, DurableFirst, DedupeTypeOK
  <2> QED
    BY <1>3, <2>1, <2>3
<1> QED
  BY <1>4, <1>5, <1>6, <1>7, <1>8

(* Pruning forgets only identities whose records are gone.                 *)
LEMMA KeptByPrune ==
    ASSUME DedupeInv, PruneBelow
    PROVE  OneRecord' /\ IndexFinds' /\ OpKnows' /\ DurableFirst' /\ SettledIsDurable'
<1>0. DedupeTypeOK /\ IndexFinds /\ OpKnows /\ DurableFirst
  BY DEF DedupeInv
<1>1. /\ op \in PruneOp /\ op.offset = dlqHead /\ dlqHead \in Nat
      /\ UNCHANGED <<dlq, dlqHead, synced, settled>> /\ op' = NoOp /\ op'.step = "none"
  BY <1>0, OpShape DEF PruneBelow, OpKnows, NoOp, DedupeTypeOK
<1>2. \A k \in Sources :
        \/ index'[k] = index[k]
        \/ index[k].offset < dlqHead /\ index[k].state = "pending"
           /\ index'[k].state = "pending" /\ index'[k].offset = dlqHead
        \/ index[k].offset < dlqHead /\ index[k].state # "pending" /\ index'[k].state = "absent"
  BY <1>0, <1>1 DEF PruneBelow, DedupeTypeOK, DedupeEntry, Absent
<1>3. IndexFinds'
  <2> SUFFICES ASSUME NEW k \in Sources, NEW o \in Nat, Carries(o, k)
               PROVE  \/ index'[k].state = "pending" /\ index'[k].offset <= o
                      \/ index'[k].state \in {"unconfirmed", "confirmed"} /\ index'[k].offset = o
    BY <1>1, DlqSame DEF IndexFinds
  <2>1. o >= dlqHead
    BY <1>1 DEF Carries, Held
  <2>2. \/ index[k].state = "pending" /\ index[k].offset <= o
        \/ index[k].state \in {"unconfirmed", "confirmed"} /\ index[k].offset = o
    BY <1>0 DEF IndexFinds
  <2> QED
    BY <1>1, <1>2, <2>1, <2>2
<1>4. OpKnows'
  BY <1>1 DEF OpKnows, HoldingSteps, MissingSteps
<1>5. DurableFirst'
  BY <1>0, <1>1, <1>2, DlqSame DEF DurableFirst, TransferSteps, HoldingSteps, MissingSteps
<1> QED
  BY <1>1, <1>3, <1>4, <1>5, LogKept

(* An ordinary record has no identity.                                     *)
LEMMA KeptByOtherAppend ==
    ASSUME DedupeInv, OtherAppend
    PROVE  OneRecord' /\ IndexFinds' /\ OpKnows' /\ DurableFirst' /\ SettledIsDurable'
<1>0. DedupeTypeOK /\ OneRecord /\ IndexFinds /\ OpKnows /\ DurableFirst /\ SettledIsDurable
  BY DEF DedupeInv
<1>1. UNCHANGED <<dlqHead, synced, settled, index, op>>
  BY DEF OtherAppend
<1>2. Other \in DlqRecord /\ Other.key \notin Sources /\ dlq' = Append(dlq, Other)
  BY DedupeAssumption DEF OtherAppend, DlqRecord, Other
<1>3. /\ DlqTail \in Nat /\ DlqTail' = DlqTail + 1
      /\ \A o \in Nat : Held(o) => RecordAt(o)' = RecordAt(o)
      /\ \A o \in Nat, k \in Sources : Carries(o, k)' <=> Carries(o, k)
  BY <1>0, <1>1, <1>2, DlqAppend
<1>4. OneRecord' /\ IndexFinds'
  BY <1>0, <1>1, <1>3 DEF OneRecord, IndexFinds
<1>5. OpKnows'
  <2>1. op.step \in TransferSteps => op.key \in Sources /\ op.offset \in Nat
    BY <1>0, OpShape DEF TransferOp
  <2>2. op.step \in MissingSteps => \A o \in Nat : ~ Carries(o, op.key)'
    BY <1>0, <1>1, <1>3, <2>1 DEF OpKnows, TransferSteps
  <2>3. op.step \in HoldingSteps => Carries(op.offset, op.key)'
    BY <1>0, <1>1, <1>3, <2>1 DEF OpKnows, TransferSteps
  <2>4. op.step = "append" => index[op.key].offset \in Nat
    BY <1>0, <2>1 DEF DedupeTypeOK, DedupeEntry, TransferSteps, MissingSteps
  <2> QED
    BY <1>0, <1>1, <1>3, <2>2, <2>3, <2>4 DEF OpKnows
<1>6. DurableFirst'
  BY <1>0, <1>1, <1>3 DEF DurableFirst, DedupeTypeOK
<1>7. SettledIsDurable'
  <2> SUFFICES ASSUME Fsync, NEW k \in Sources, NEW o \in synced..DlqTail, Carries(o, k)'
               PROVE  <<RecordAt(o)'.life, k>> \notin settled
    BY <1>1, <1>3 DEF SettledIsDurable
  <2>1. o \in Nat /\ Carries(o, k)
    BY <1>0, <1>3 DEF DedupeTypeOK
  <2>2. Held(o) /\ o \in synced..(DlqTail - 1)
    BY <1>3, <2>1 DEF Carries, Held, DedupeTypeOK
  <2> QED
    BY <1>0, <1>3, <2>1, <2>2 DEF SettledIsDurable
<1> QED
  BY <1>4, <1>5, <1>6, <1>7

(* A truncation and a crash only take records away; a crash leaves what is *)
(* synced.                                                                 *)
LEMMA KeptByLoss ==
    ASSUME DedupeInv, NEW o \in 0..MaxTail, TruncateLog(o) \/ DedupeCrash(o)
    PROVE  OneRecord' /\ IndexFinds' /\ OpKnows' /\ DurableFirst' /\ SettledIsDurable'
<1>0. DedupeTypeOK /\ OneRecord /\ IndexFinds /\ OpKnows /\ DurableFirst /\ SettledIsDurable
  BY DEF DedupeInv
<1>t. DlqTail \in Nat /\ o \in Nat /\ synced \in Nat /\ synced <= DlqTail
  BY <1>0, DedupeAssumption DEF DedupeTypeOK, DlqTail, DurableFirst
<1>1. UNCHANGED <<index, settled>>
  BY DEF TruncateLog, DedupeCrash
<1>2. /\ op'.step \in {"none", "prune"}
      /\ op'.step = "prune" => op'.offset = dlqHead'
  BY DEF TruncateLog, DedupeCrash, NoOp
<1>3. /\ DlqTail' \in Nat /\ DlqTail' <= DlqTail
      /\ \A p \in Nat : Held(p)' => Held(p) /\ RecordAt(p)' = RecordAt(p)
      /\ \A p \in Nat, k \in Sources : Carries(p, k)' => Carries(p, k)
      /\ synced' \in Nat /\ synced <= synced' /\ synced' <= DlqTail'
  <2>1. CASE TruncateLog(o)
    <3>1. Held(o) /\ o < DlqTail /\ dlq' = SubSeq(dlq, o - dlqHead + 1, Len(dlq)) /\ dlqHead' = o
      BY <1>0, <1>t, <2>1 DEF TruncateLog, Held, DedupeTypeOK
    <3>2. /\ DlqTail' = DlqTail
          /\ \A p \in Nat : Held(p)' => Held(p) /\ RecordAt(p)' = RecordAt(p)
          /\ \A p \in Nat, k \in Sources : Carries(p, k)' => Carries(p, k)
      BY Zenon, <1>0, <1>t, <3>1, DlqSuffix
    <3>3. synced' = IF synced < o THEN o ELSE synced
      BY <2>1 DEF TruncateLog
    <3> QED
      BY <1>t, <3>1, <3>2, <3>3
  <2>2. CASE DedupeCrash(o)
    <3>1. /\ o \in dlqHead..DlqTail /\ o >= synced /\ synced' = o
          /\ dlq' = SubSeq(dlq, 1, o - dlqHead) /\ dlqHead' = dlqHead
      BY <1>0, <1>t, <2>2 DEF DedupeCrash, DedupeTypeOK
    <3>2. /\ DlqTail' = o
          /\ \A p \in Nat : Held(p)' => Held(p) /\ RecordAt(p)' = RecordAt(p)
          /\ \A p \in Nat, k \in Sources : Carries(p, k)' => Carries(p, k)
      BY Zenon, <1>0, <1>t, <3>1, DlqPrefix
    <3> QED
      BY <1>t, <3>1, <3>2
  <2> QED
    BY <2>1, <2>2
<1>4. OneRecord' /\ IndexFinds'
  BY <1>0, <1>1, <1>3 DEF OneRecord, IndexFinds
<1>5. OpKnows'
  BY <1>2 DEF OpKnows, HoldingSteps, MissingSteps
<1>6. DurableFirst'
  <2>1. \A k \in Sources : index[k].offset \in Nat
    BY <1>0 DEF DedupeTypeOK, DedupeEntry
  <2> QED
    BY <1>0, <1>t, <1>1, <1>2, <1>3, <2>1
       DEF DurableFirst, TransferSteps, HoldingSteps, MissingSteps
<1>7. SettledIsDurable'
  <2>1. synced' \in Nat /\ DlqTail' \in Nat /\ synced <= synced' /\ DlqTail' <= DlqTail
    BY <1>3
  <2>2. \A s, t, s1, t1 \in Nat : s <= s1 /\ t1 <= t =>
          \A p \in s1..(t1 - 1) : p \in Nat /\ p \in s..(t - 1)
    OBVIOUS
  <2>3. \A p \in synced'..(DlqTail' - 1) : p \in Nat /\ p \in synced..(DlqTail - 1)
    BY Zenon, <1>t, <2>1, <2>2
  <2>4. ASSUME Fsync, NEW k \in Sources, NEW p \in Nat, p \in synced..(DlqTail - 1),
               Carries(p, k)'
        PROVE  <<RecordAt(p)'.life, k>> \notin settled
    <3>1. Carries(p, k) /\ RecordAt(p)' = RecordAt(p)
      BY <1>3, <2>4 DEF Carries
    <3> QED
      BY <1>0, <2>4, <3>1 DEF SettledIsDurable
  <2> QED
    BY <1>1, <2>3, <2>4 DEF SettledIsDurable
<1> QED
  BY <1>4, <1>5, <1>6, <1>7

-----------------------------------------------------------------------------
(* The theorems.                                                           *)

(* The inductive invariant: what the index says of the log, what the       *)
(* operation under the lock has established, and that what is confirmed is *)
(* on disk, hold through every crash and failed write.                     *)
THEOREM DedupeInvariance == DedupeSpec => []DedupeInv
<1>1. DedupeInit => DedupeInv
  <2> SUFFICES ASSUME DedupeInit PROVE DedupeInv
    OBVIOUS
  <2>1. DlqTail = 0 /\ \A o, k : ~ Carries(o, k)
    BY DEF DedupeInit, DlqTail, Carries, Held
  <2>2. DedupeTypeOK
    BY DedupeAssumption DEF DedupeInit, DedupeTypeOK, DedupeEntry, Absent
  <2>3. op.step = "none" /\ \A k \in Sources : index[k].state = "absent"
    BY DEF DedupeInit, NoOp, Absent
  <2> QED
    BY <2>1, <2>2, <2>3 DEF DedupeInit, DedupeInv, OneRecord, IndexFinds, OpKnows, DurableFirst,
       SettledIsDurable, HoldingSteps, MissingSteps, TransferSteps
<1>2. DedupeInv /\ [DedupeNext]_dedupeVars => DedupeInv'
  <2> SUFFICES ASSUME DedupeInv, [DedupeNext]_dedupeVars PROVE DedupeInv'
    OBVIOUS
  <2>1. DedupeTypeOK'
    BY DedupeType DEF DedupeInv
  <2>2. CASE UNCHANGED dedupeVars
    BY SMTT(30), <2>2 DEF dedupeVars, DedupeInv, DedupeTypeOK, OneRecord, IndexFinds, OpKnows,
       DurableFirst, SettledIsDurable, Carries, Held, RecordAt, DlqTail
  <2>3. CASE DedupeNext
    <3>1. OneRecord' /\ IndexFinds' /\ OpKnows' /\ DurableFirst' /\ SettledIsDurable'
      BY <2>3, KeptByMove, KeptByLookup, KeptByRefusal, KeptByReserve, KeptByAppendFails,
         KeptByAppendRecord, KeptBySync, KeptByPut, KeptByPrune, KeptByOtherAppend, KeptByLoss
         DEF DedupeNext
    <3> QED
      BY <2>1, <3>1 DEF DedupeInv
  <2> QED
    BY <2>2, <2>3
<1> QED
  BY <1>1, <1>2, PTL DEF DedupeSpec

(* TransferredOnce: however often a dead-letter transfer is retried, the   *)
(* destination holds one record of its identity at most.                   *)
THEOREM OneTransferPerIdentity == DedupeSpec => []TransferredOnce
<1>1. DedupeInv => TransferredOnce
  BY DEF DedupeInv, OneRecord, TransferredOnce, DedupeTypeOK, DlqTail
<1> QED
  BY <1>1, DedupeInvariance, PTL

(* SettledIsDurable: under fsync a source is settled only against a record *)
(* that no crash takes back.                                               *)
THEOREM SettledTransfersDurable == DedupeSpec => []SettledIsDurable
<1>1. DedupeInv => SettledIsDurable
  BY DEF DedupeInv
<1> QED
  BY <1>1, DedupeInvariance, PTL
=============================================================================
