------------------------ MODULE ConsumerGroupProofs ------------------------
(***************************************************************************)
(* Proofs about ConsumerGroup, for every set of consumers, every log       *)
(* length and every configuration of the group.                            *)
(***************************************************************************)
EXTENDS ConsumerGroup, TLAPS

----------------------------------------------------------------------------
(* Entries and reservations.                                               *)

\* A pending entry is never mistaken for an absent one, and redelivery
\* (TransferPending) gives a well-formed entry again.
LEMMA EntryFacts ==
    ASSUME NEW e \in Entry, NEW c \in Consumers, NEW n \in {"held", "lapsed"}
    PROVE  /\ e # NoEntry
           /\ e.owner # Nobody
           /\ [owner |-> c, count |-> Bump(e.count), lease |-> "held"] \in Entry
           /\ [owner |-> c, count |-> 1, lease |-> "held"] \in Entry
           /\ [e EXCEPT !.lease = n] \in Entry
  BY ConsumerGroupAssumption DEF Entry, NoEntry, Bump

----------------------------------------------------------------------------
(* Type correctness.                                                       *)

\* A new group is well formed, whoever is registered.
LEMMA TypeInit ==
    ASSUME NEW registered \in SUBSET Consumers, InitWith(registered)
    PROVE  TypeOK
  BY ConsumerGroupAssumption DEF InitWith, TypeOK, Offsets

\* The committed offset is taken from the cursor or from a pending offset.
LEMMA TypeAdvance ==
    ASSUME TypeOK, AdvanceCommitted
    PROVE  committed' \in 0 .. MaxOffset
  BY ConsumerGroupAssumption DEF TypeOK, AdvanceCommitted, Pending, Offsets

\* ClaimBatch writes well-formed entries, cursor and tracking states.
LEMMA TypeClaimBatch ==
    ASSUME TypeOK, NEW c \in Consumers, ClaimBatch(c)
    PROVE  TypeOK'
<1>1. PICK stop \in ScanStart .. tail, stolen \in SUBSET Pending, seen \in SUBSET Pending :
        Deliver(c, Claimable(stop), stop, stolen, seen)
  BY DEF ClaimBatch, Ready, Walk, Stealable
<1>2. UNCHANGED <<head, tail, record, committed, members, transfer,
                  safePoint, dlq, acked, restarts>>
  BY DEF ClaimBatch
<1>3. cursor' \in 0 .. MaxOffset
  BY <1>1, ConsumerGroupAssumption DEF TypeOK, ScanStart, Deliver
<1>4. dropped' \subseteq Offsets
  BY <1>1 DEF TypeOK, Dead, Deliver, Pending
<1>5. pel' \in [Offsets -> Entry \cup {NoEntry}]
  <2>1. \A o \in Pending : pel[o] \in Entry
    BY DEF TypeOK, Pending
  <2>2. \A o \in Pending : Claimed(pel, c, o) \in Entry
    BY Zenon, <2>1, EntryFacts DEF Claimed
  <2>3. [owner |-> c, count |-> 1, lease |-> "held"] \in Entry
    BY ConsumerGroupAssumption DEF Entry
  <2> QED
    BY <1>1, <2>2, <2>3 DEF TypeOK, Deliver
<1>6. poison' \in [Offsets -> {"untracked", "tracked", "noDestination"}]
  BY DEF TypeOK, TrackPoison, ClaimBatch
<1> QED
  BY <1>2, <1>3, <1>4, <1>5, <1>6 DEF TypeOK

\* So does ClaimPendingBatch.
LEMMA TypeClaimPendingBatch ==
    ASSUME TypeOK, NEW c \in Consumers, ClaimPendingBatch(c)
    PROVE  TypeOK'
<1>1. PICK wanted \in SUBSET Pending :
        /\ pel' = [o \in Offsets |->
              IF o \notin wanted THEN pel[o]
              ELSE IF record[o] = "expired" THEN NoEntry
              ELSE Claimed(pel, c, o)]
        /\ dropped' = dropped \cup {o \in wanted : record[o] = "expired"}
  BY DEF ClaimPendingBatch
<1>2. \A o \in Pending : pel[o] \in Entry
  BY DEF TypeOK, Pending
<1>3. \A o \in Pending : Claimed(pel, c, o) \in Entry
  BY Zenon, <1>2, EntryFacts DEF Claimed
<1>4. pel' \in [Offsets -> Entry \cup {NoEntry}]
  BY <1>1, <1>3 DEF TypeOK
<1>5. dropped' \subseteq Offsets
  BY <1>1 DEF TypeOK, Pending
<1> QED
  BY <1>4, <1>5 DEF TypeOK, ClaimPendingBatch

\* A change of one pending entry or reservation keeps the types of both.
LEMMA TypeUpdate ==
    ASSUME TypeOK, NEW o \in Offsets, NEW n \in {"held", "lapsed"},
           NEW s \in {"done", "failed", "unavailable"}
    PROVE  /\ Remove(o) \in [Offsets -> Entry \cup {NoEntry}]
           /\ o \in Pending =>
                /\ [pel EXCEPT ![o].lease = n] \in [Offsets -> Entry \cup {NoEntry}]
                /\ pel[o].owner \in Consumers
           /\ transfer[o] # NoTransfer =>
                [transfer EXCEPT ![o].stage = s] \in [Offsets -> Transfer \cup {NoTransfer}]
<1>1. Remove(o) \in [Offsets -> Entry \cup {NoEntry}]
  BY DEF TypeOK, Remove
<1>2. ASSUME o \in Pending
      PROVE  /\ [pel EXCEPT ![o].lease = n] \in [Offsets -> Entry \cup {NoEntry}]
             /\ pel[o].owner \in Consumers
  <2>1. pel[o] \in Entry
    BY <1>2 DEF TypeOK, Pending
  <2> QED
    BY <2>1 DEF TypeOK, Entry
<1>3. ASSUME transfer[o] # NoTransfer
      PROVE  [transfer EXCEPT ![o].stage = s] \in [Offsets -> Transfer \cup {NoTransfer}]
  <2>1. transfer[o] \in Transfer
    BY <1>3 DEF TypeOK
  <2> QED
    BY <2>1 DEF TypeOK, Transfer
<1> QED
  BY <1>1, <1>2, <1>3

\* The log, the clock and the membership.
LEMMA TypeLog ==
    ASSUME TypeOK,
           \/ \E kind \in {"live", "unclaimable"} : Append(kind)
           \/ \E o \in Offsets : Expire(o) \/ Lapse(o)
           \/ \E c \in Consumers : RegisterConsumer(c) \/ UnregisterConsumer(c)
           \/ \E stale \in SUBSET Consumers : CleanupStaleConsumers(stale)
           \/ ReadSafePoint \/ Truncate
    PROVE  TypeOK'
<1>1. ASSUME NEW kind \in {"live", "unclaimable"}, Append(kind) PROVE TypeOK'
  BY <1>1, ConsumerGroupAssumption DEF TypeOK, Append, Offsets
<1>2. ASSUME NEW o \in Offsets, Expire(o) PROVE TypeOK'
  BY <1>2 DEF TypeOK, Expire
<1>3. ASSUME NEW o \in Offsets, Lapse(o) PROVE TypeOK'
  <2>1. o \in Pending
    BY <1>3 DEF Lapse, Pending
  <2> QED
    BY Zenon, <1>3, <2>1, TypeUpdate DEF TypeOK, Lapse
<1>4. ASSUME NEW c \in Consumers, RegisterConsumer(c) \/ UnregisterConsumer(c) PROVE TypeOK'
  BY <1>4 DEF TypeOK, RegisterConsumer, UnregisterConsumer
<1>5. ASSUME NEW stale \in SUBSET Consumers, CleanupStaleConsumers(stale) PROVE TypeOK'
  BY <1>5 DEF TypeOK, CleanupStaleConsumers
<1>6. ASSUME ReadSafePoint PROVE TypeOK'
  BY <1>6 DEF TypeOK, ReadSafePoint
<1>7. ASSUME Truncate PROVE TypeOK'
  BY <1>7, ConsumerGroupAssumption DEF TypeOK, Truncate
<1> QED
  BY <1>1, <1>2, <1>3, <1>4, <1>5, <1>6, <1>7

\* A crash leaves well-formed process state.
LEMMA TypeCrash ==
    ASSUME TypeOK, LoseProcessState
    PROVE  /\ transfer' \in [Offsets -> Transfer \cup {NoTransfer}]
           /\ poison' \in [Offsets -> {"untracked", "tracked", "noDestination"}]
           /\ safePoint' \in 0 .. MaxOffset
           /\ restarts' \in 0 .. MaxRestarts
  BY ConsumerGroupAssumption DEF TypeOK, LoseProcessState

\* Acks, nacks and crashes.
LEMMA TypeSettle ==
    ASSUME TypeOK, NEW o \in Offsets,
           \/ Ack(o) \/ CrashDuringAck(o)
           \/ NackWithDelay(o, TRUE) \/ NackWithDelay(o, FALSE)
    PROVE  TypeOK'
<1>1. ASSUME Ack(o) PROVE TypeOK'
  BY Zenon, <1>1, TypeUpdate, TypeAdvance DEF TypeOK, Ack
<1>2. ASSUME NEW delayed \in BOOLEAN, NackWithDelay(o, delayed) PROVE TypeOK'
  BY Zenon, <1>2, TypeUpdate DEF TypeOK, NackWithDelay
<1>3. ASSUME CrashDuringAck(o) PROVE TypeOK'
  BY Zenon, <1>3, TypeCrash, TypeUpdate DEF TypeOK, CrashDuringAck
<1> QED
  BY Zenon, <1>1, <1>2, <1>3

\* Dead-letter transfers.
LEMMA TypeTransfer ==
    ASSUME TypeOK, NEW o \in Offsets,
           \/ PrepareTransfer(o) \/ PreparePoisonTransfer(o)
           \/ \E outcome \in DLQOutcomes : MoveToDLQ(o, outcome)
           \/ FinishTransfer(o) \/ FinishPoisonTransfer(o)
    PROVE  TypeOK'
<1>1. ASSUME PrepareTransfer(o) PROVE TypeOK'
  BY Zenon, <1>1, TypeUpdate DEF TypeOK, PrepareTransfer, Transfer
<1>2. ASSUME PreparePoisonTransfer(o) PROVE TypeOK'
  <2>1. transfer' \in [Offsets -> Transfer \cup {NoTransfer}]
    <3>1. CASE o \in Pending
      <4>1. [by |-> "sweep", owner |-> pel[o].owner, stage |-> "append"] \in Transfer
        BY Zenon, <3>1, TypeUpdate DEF Transfer
      <4> QED
        BY <1>2, <3>1, <4>1 DEF TypeOK, PreparePoisonTransfer
    <3>2. CASE o \notin Pending
      BY <1>2, <3>2 DEF TypeOK, PreparePoisonTransfer
    <3> QED
      BY <3>1, <3>2
  <2>2. poison' \in [Offsets -> {"untracked", "tracked", "noDestination"}]
    BY <1>2 DEF TypeOK, PreparePoisonTransfer
  <2> QED
    BY <1>2, <2>1, <2>2 DEF TypeOK, PreparePoisonTransfer
<1>3. ASSUME NEW outcome \in DLQOutcomes, MoveToDLQ(o, outcome) PROVE TypeOK'
  <2>1. transfer[o] # NoTransfer
    BY <1>3 DEF MoveToDLQ, NoTransfer
  <2>2. dlq' \subseteq Offsets
    BY <1>3 DEF TypeOK, MoveToDLQ
  <2>3. transfer' \in [Offsets -> Transfer \cup {NoTransfer}]
    BY Zenon, <1>3, <2>1, TypeUpdate DEF MoveToDLQ
  <2> QED
    BY <1>3, <2>2, <2>3 DEF TypeOK, MoveToDLQ
<1>4. ASSUME FinishTransfer(o) PROVE TypeOK'
  <2>1. pel' \in [Offsets -> Entry \cup {NoEntry}] /\ committed' \in 0 .. MaxOffset
    <3>1. CASE transfer[o].stage = "done"
      <4>1. pel' = Remove(o) /\ AdvanceCommitted
        BY <1>4, <3>1 DEF FinishTransfer
      <4> QED
        BY Zenon, <4>1, TypeUpdate, TypeAdvance
    <3>2. CASE transfer[o].stage # "done"
      BY <1>4, <3>2 DEF TypeOK, FinishTransfer
    <3> QED
      BY <3>1, <3>2
  <2>2. transfer' \in [Offsets -> Transfer \cup {NoTransfer}]
    BY <1>4 DEF TypeOK, FinishTransfer
  <2> QED
    BY <1>4, <2>1, <2>2 DEF TypeOK, FinishTransfer
<1>5. ASSUME FinishPoisonTransfer(o) PROVE TypeOK'
  <2>1. poison' \in [Offsets -> {"untracked", "tracked", "noDestination"}]
    BY <1>5 DEF TypeOK, FinishPoisonTransfer
  <2> QED
    BY Zenon, <1>5, <2>1, TypeUpdate DEF TypeOK, FinishPoisonTransfer
<1> QED
  BY <1>1, <1>2, <1>3, <1>4, <1>5

\* Every operation keeps the types.
LEMMA TypeNext ==
    ASSUME TypeOK, [Next]_vars
    PROVE  TypeOK'
<1>1. CASE UNCHANGED vars
  BY <1>1 DEF TypeOK, vars, Pending
<1>2. CASE Restart
  BY <1>2, TypeCrash DEF TypeOK, Restart
<1>3. CASE Next /\ ~Restart
  BY Zenon, <1>3, TypeClaimBatch, TypeClaimPendingBatch, TypeLog, TypeSettle, TypeTransfer
     DEF Next, Work
<1> QED
  BY <1>1, <1>2, <1>3

\* Every variable of the group keeps its type in every reachable state.
THEOREM TypeCorrect == Spec => []TypeOK
<1>1. Init => TypeOK
  BY TypeInit DEF Init
<1> QED
  BY <1>1, TypeNext, PTL DEF Spec

----------------------------------------------------------------------------
(* The inductive invariant: what the ledger promises, and the bookkeeping  *)
(* that makes every operation of the group a step of the ledger.           *)

\* Ledger!Safe alone is not inductive.  A transfer settles an offset outside
\* the group lock, so reserved offsets must be ones the cursor has passed; it
\* closes the entry later, so its outcome must be known by then; retention
\* truncates to an offset it read earlier, so that must stay below the floor.
GroupInv ==
    /\ TypeOK
    /\ Ledger!Safe
    /\ head <= committed /\ committed <= cursor /\ cursor <= tail
    /\ safePoint <= committed
    /\ \A o \in Settled \cup Reserved : o < cursor
    /\ \A o \in Offsets : transfer[o].stage = "done" => o \in dlq
    /\ acked \cap Pending = {}

LedgerStep == Ledger!Next \/ UNCHANGED Ledger!vars

\* A new group satisfies the invariant and is an initial ledger.
LEMMA InitInv ==
    ASSUME Init
    PROVE  GroupInv /\ Ledger!Init
<1>1. TypeOK
  BY TypeInit DEF Init
<1>2. Pending = {} /\ Settled = {} /\ Reserved = {}
  BY DEF Init, InitWith, Pending, Settled, Reserved
<1>3. \A o \in Offsets : transfer[o].stage # "done"
  BY DEF Init, InitWith, NoTransfer
<1> QED
  BY <1>1, <1>2, <1>3 DEF GroupInv, Ledger!Safe, Ledger!Init, Init, InitWith

----------------------------------------------------------------------------
(* How operations change the pending and the settled offsets.              *)

\* RemovePendingEntry closes exactly one offset.
LEMMA PendingAfterRemove ==
    ASSUME TypeOK, NEW o \in Offsets, pel' = Remove(o)
    PROVE  Pending' = Pending \ {o}
  BY DEF TypeOK, Pending, Remove

\* A lease that lapses, or a nack, leaves its entry pending.
LEMMA PendingAfterLease ==
    ASSUME TypeOK, NEW o \in Pending, NEW n, pel' = [pel EXCEPT ![o].lease = n]
    PROVE  Pending' = Pending
<1>1. o \in Offsets /\ pel[o] \in Entry
  BY DEF TypeOK, Pending
<1>2. pel'[o] # NoEntry
  <2>1. pel'[o].owner = pel[o].owner
    BY <1>1 DEF TypeOK, Entry
  <2> QED
    BY <1>1, <2>1, ConsumerGroupAssumption DEF Entry, NoEntry
<1> QED
  BY <1>1, <1>2 DEF TypeOK, Pending

\* Only acks, drops and dead letters settle an offset.
LEMMA SettledSame ==
    ASSUME UNCHANGED <<acked, dropped, dlq>>
    PROVE  Settled' = Settled
  BY DEF Settled

\* advanceCommitted raises the floor, at most to the lowest offset left.
LEMMA AdvanceFloor ==
    ASSUME GroupInv, AdvanceCommitted, Pending' \subseteq Pending
    PROVE  /\ committed' \in committed .. cursor
           /\ \A o \in Pending' : committed' <= o
<1>1. /\ committed \in Nat /\ cursor \in Nat /\ committed <= cursor
      /\ \A o \in Pending : o \in Nat /\ committed <= o /\ o < cursor
  BY ConsumerGroupAssumption DEF GroupInv, TypeOK, Ledger!Safe, Pending, Offsets
<1>2. CASE Pending' = {}
  BY <1>1, <1>2 DEF AdvanceCommitted
<1>3. CASE Pending' # {}
  <2>1. PICK low \in Pending' :
          /\ \A o \in Pending' : low <= o
          /\ committed' = IF low > committed THEN low ELSE committed
    BY <1>3 DEF AdvanceCommitted
  <2> QED
    BY <1>1, <2>1
<1> QED
  BY <1>2, <1>3

----------------------------------------------------------------------------
(* Every operation is a step of the ledger.                                *)

\* ClaimBatch issues the offsets it scans: each becomes pending or is passed
\* over, and expired entries it meets are closed.
LEMMA DeliverStep ==
    ASSUME GroupInv, NEW c \in Consumers, ClaimBatch(c)
    PROVE  /\ Ledger!Issue
           /\ cursor' <= tail
           /\ acked \cap Pending' = {}
<1>1. PICK stop \in ScanStart .. tail, stolen \in SUBSET Pending, seen \in SUBSET Pending :
        /\ Deliver(c, Claimable(stop), stop, stolen, seen)
        /\ stolen \cap seen = {}
  BY DEF ClaimBatch, Ready, Walk, Stealable
<1>2. /\ cursor \in Nat /\ tail \in Nat /\ ScanStart = cursor
      /\ cursor' = stop /\ cursor' \in cursor .. MaxOffset /\ cursor' <= tail
  BY <1>1, ConsumerGroupAssumption DEF GroupInv, TypeOK, ScanStart, Deliver
<1>3. \A o \in Offsets : o \in Nat
  BY ConsumerGroupAssumption DEF Offsets
<1>4. \A o \in Pending : pel[o] \in Entry
  BY DEF GroupInv, TypeOK, Pending
<1>5. \A o \in Pending : Claimed(pel, c, o) # NoEntry
  BY <1>4, EntryFacts, ConsumerGroupAssumption DEF Claimed, NoEntry
<1>6. [owner |-> c, count |-> 1, lease |-> "held"] # NoEntry
  BY ConsumerGroupAssumption DEF NoEntry
<1>7. Claimable(stop) \subseteq {o \in Offsets : cursor <= o /\ o < stop}
  BY <1>2 DEF Claimable
<1>8. Dead(seen) \subseteq Pending \ (stolen \cup Claimable(stop))
  <2>1. Dead(seen) \subseteq seen
    BY DEF Dead
  <2>2. \A o \in Pending : o \notin Claimable(stop)
    BY <1>2, <1>3, <1>7 DEF GroupInv, Ledger!Safe, Pending
  <2> QED
    BY <1>1, <2>1, <2>2
<1>9. Pending' = (Pending \ Dead(seen)) \cup Claimable(stop)
  BY <1>1, <1>5, <1>6, <1>8 DEF Deliver, Pending, Claimable
<1>10. {o \in Offsets : cursor <= o /\ o < stop} = cursor .. stop - 1
  BY <1>2, ConsumerGroupAssumption DEF Offsets
<1>11. dropped' = dropped \cup Dead(seen) \cup ((cursor .. stop - 1) \ Claimable(stop))
  BY <1>1, <1>2, <1>10 DEF Deliver
<1>12. Settled' = Settled \cup Dead(seen) \cup ((cursor .. stop - 1) \ Claimable(stop))
  BY <1>11 DEF Settled, ClaimBatch
<1>13. Pending \cap (cursor .. stop - 1) = {}
  BY <1>2 DEF GroupInv, Ledger!Safe
<1>14. Settled' = Settled \cup ((Pending \cup (cursor .. stop - 1)) \ Pending')
  BY <1>7, <1>8, <1>9, <1>10, <1>12, <1>13
<1>15. Pending' \subseteq Pending \cup (cursor .. stop - 1)
  BY <1>7, <1>9, <1>10
<1>16. UNCHANGED <<committed, head>>
  BY DEF ClaimBatch
<1>17. Ledger!Issue
  BY <1>2, <1>14, <1>15, <1>16 DEF Ledger!Issue
<1>18. acked \cap Pending' = {}
  <2>1. \A o \in acked : o < cursor /\ o \in Nat
    BY <1>3 DEF GroupInv, Settled, TypeOK
  <2> QED
    BY <1>2, <1>15, <2>1 DEF GroupInv
<1> QED
  BY <1>2, <1>17, <1>18

\* ClaimPendingBatch only moves entries between consumers or closes expired
\* ones, so that the ledger sees an issue of nothing.
LEMMA ClaimStep ==
    ASSUME GroupInv, NEW c \in Consumers, ClaimPendingBatch(c)
    PROVE  Ledger!Issue
<1>1. PICK wanted \in SUBSET Pending :
        /\ pel' = [o \in Offsets |->
              IF o \notin wanted THEN pel[o]
              ELSE IF record[o] = "expired" THEN NoEntry
              ELSE Claimed(pel, c, o)]
        /\ dropped' = dropped \cup {o \in wanted : record[o] = "expired"}
  BY DEF ClaimPendingBatch
<1> DEFINE gone == {o \in wanted : record[o] = "expired"}
<1>2. \A o \in Pending : Claimed(pel, c, o) # NoEntry
  BY ConsumerGroupAssumption DEF Claimed, NoEntry
<1>3. Pending' = Pending \ gone
  BY <1>1, <1>2 DEF Pending
<1>4. Settled' = Settled \cup gone
  BY <1>1 DEF Settled, ClaimPendingBatch
<1>5. UNCHANGED <<cursor, committed, head>>
  BY DEF ClaimPendingBatch
<1>6. cursor .. cursor - 1 = {} /\ cursor \in cursor .. MaxOffset
  BY ConsumerGroupAssumption DEF GroupInv, TypeOK
<1>7. gone \subseteq Pending
  OBVIOUS
<1> HIDE DEF gone
<1> QED
  BY <1>3, <1>4, <1>5, <1>6, <1>7 DEF Ledger!Issue

\* An ack closes its offset and advances the floor.
LEMMA AckStep ==
    ASSUME GroupInv, NEW o \in Offsets, Ack(o)
    PROVE  /\ Ledger!Retire
           /\ \A x \in Settled' : x < cursor
           /\ acked' \cap Pending' = {}
<1>1. Pending' = Pending \ {o}
  BY PendingAfterRemove DEF Ack, GroupInv
<1>2. /\ committed' \in committed .. cursor
      /\ \A x \in Pending' : committed' <= x
  BY <1>1, AdvanceFloor DEF Ack
<1>3. acked' = IF o \in Pending THEN acked \cup {o} ELSE acked
  BY DEF Ack
<1>4. Settled' = Settled \cup (Pending \ Pending')
  BY <1>1, <1>3 DEF Settled, Ack
<1>5. UNCHANGED <<cursor, head>>
  BY DEF Ack
<1>6. Ledger!Retire
  BY <1>1, <1>2, <1>4, <1>5 DEF Ledger!Retire
<1>7. \A x \in Settled' : x < cursor
  BY <1>1, <1>4 DEF GroupInv, Ledger!Safe
<1>8. acked' \cap Pending' = {}
  BY <1>1, <1>3 DEF GroupInv
<1> QED
  BY <1>6, <1>7, <1>8

\* A crash between the two writes of an ack leaves the floor behind.
LEMMA CrashStep ==
    ASSUME GroupInv, NEW o \in Offsets, CrashDuringAck(o)
    PROVE  Ledger!Retire /\ acked' \cap Pending' = {}
<1>1. Pending' = Pending \ {o} /\ o \in Pending
  BY PendingAfterRemove DEF CrashDuringAck, GroupInv
<1>2. Settled' = Settled \cup (Pending \ Pending')
  BY <1>1 DEF Settled, CrashDuringAck
<1>3. committed' \in committed .. cursor
  BY DEF GroupInv, TypeOK, CrashDuringAck
<1> QED
  BY <1>1, <1>2, <1>3 DEF Ledger!Retire, CrashDuringAck, GroupInv

\* Closing an entry whose outcome is known, with or without the floor.
LEMMA FinishStep ==
    ASSUME GroupInv, NEW o \in Offsets, FinishTransfer(o) \/ FinishPoisonTransfer(o)
    PROVE  (Ledger!Retire \/ UNCHANGED Ledger!vars) /\ Pending' \subseteq Pending
<1>1. Settled' = Settled /\ UNCHANGED <<cursor, head>>
  BY SettledSame DEF FinishTransfer, FinishPoisonTransfer
<1>2. CASE transfer[o].stage = "done"
  <2>1. pel' = Remove(o)
    BY <1>2 DEF FinishTransfer, FinishPoisonTransfer
  <2>2. Pending' = Pending \ {o}
    BY <2>1, PendingAfterRemove DEF GroupInv
  <2>3. o \in Settled
    BY <1>2 DEF GroupInv, Settled
  <2>4. /\ committed' \in committed .. cursor
        /\ committed' = committed \/ \A x \in Pending' : committed' <= x
    <3>1. CASE FinishTransfer(o)
      BY <1>2, <2>2, <3>1, AdvanceFloor DEF FinishTransfer
    <3>2. CASE FinishPoisonTransfer(o)
      BY <3>2 DEF FinishPoisonTransfer, GroupInv, TypeOK
    <3> QED
      BY <3>1, <3>2
  <2> QED
    BY <1>1, <2>2, <2>3, <2>4 DEF Ledger!Retire
<1>3. CASE transfer[o].stage # "done"
  <2>1. UNCHANGED <<pel, committed>>
    BY <1>3 DEF FinishTransfer, FinishPoisonTransfer
  <2>2. Pending' = Pending
    BY <2>1 DEF Pending
  <2> QED
    BY <1>1, <2>1, <2>2 DEF Ledger!vars
<1> QED
  BY <1>2, <1>3

\* The destination write settles an offset the cursor has passed.
LEMMA MoveStep ==
    ASSUME GroupInv, NEW o \in Offsets, NEW outcome \in DLQOutcomes, MoveToDLQ(o, outcome)
    PROVE  Ledger!Resolve /\ Pending' = Pending
<1>1. Pending' = Pending /\ UNCHANGED <<cursor, committed, head>>
  BY DEF MoveToDLQ, Pending
<1>2. o \in Reserved
  BY DEF MoveToDLQ, Reserved, NoTransfer
<1>3. o \in Pending \cup Settled
  <2>1. o \in 0 .. cursor - 1
    BY <1>2, ConsumerGroupAssumption DEF GroupInv, TypeOK, Offsets
  <2> QED
    BY <2>1 DEF GroupInv, Ledger!Safe
<1>4. Settled \subseteq Settled' /\ Settled' \subseteq Settled \cup {o}
  BY DEF Settled, MoveToDLQ
<1> QED
  BY <1>1, <1>3, <1>4 DEF Ledger!Resolve

\* Retention truncates to an offset at or below the floor it read.
LEMMA TruncateStep ==
    ASSUME GroupInv, Truncate
    PROVE  Ledger!Truncate /\ Pending' = Pending
<1>1. Pending' = Pending /\ Settled' = Settled
  BY DEF Truncate, Pending, Settled
<1>2. head' \in head .. committed
  BY DEF Truncate, GroupInv, TypeOK
<1> QED
  BY <1>1, <1>2 DEF Ledger!Truncate, Truncate

\* Everything else leaves cursor, floor, head, pending and settled offsets alone.
Quiet ==
    \/ \E kind \in {"live", "unclaimable"} : Append(kind)
    \/ \E o \in Offsets : Expire(o) \/ Lapse(o)
    \/ \E c \in Consumers : RegisterConsumer(c) \/ UnregisterConsumer(c)
    \/ \E stale \in SUBSET Consumers : CleanupStaleConsumers(stale)
    \/ \E o \in Offsets, delayed \in BOOLEAN : NackWithDelay(o, delayed)
    \/ \E o \in Offsets : PrepareTransfer(o) \/ PreparePoisonTransfer(o)
    \/ ReadSafePoint \/ Restart
    \/ UNCHANGED vars

\* A quiet step is a stutter of the ledger: appends, the clock, membership,
\* nacks, reservations, the read of the floor and a restart settle nothing.
LEMMA QuietStep ==
    ASSUME GroupInv, Quiet
    PROVE  UNCHANGED Ledger!vars /\ Pending' = Pending /\ acked' = acked
<1>1. UNCHANGED <<cursor, committed, head, acked, dropped, dlq>>
  BY DEF Quiet, Append, Expire, Lapse, RegisterConsumer, UnregisterConsumer,
         CleanupStaleConsumers, NackWithDelay, PrepareTransfer, PreparePoisonTransfer,
         ReadSafePoint, Restart, LoseProcessState, vars
<1>2. Settled' = Settled
  BY <1>1, SettledSame
<1>3. Pending' = Pending
  <2>1. CASE pel' = pel
    BY <2>1 DEF Pending
  <2>2. ASSUME NEW o \in Offsets, Lapse(o) PROVE Pending' = Pending
    <3>1. o \in Pending
      BY <2>2 DEF Lapse, Pending
    <3> QED
      BY Zenon, <2>2, <3>1, PendingAfterLease DEF Lapse, GroupInv
  <2>3. ASSUME NEW o \in Offsets, NEW delayed \in BOOLEAN, NackWithDelay(o, delayed)
        PROVE  Pending' = Pending
    BY Zenon, <2>3, PendingAfterLease DEF NackWithDelay, GroupInv
  <2> QED
    BY <2>1, <2>2, <2>3
       DEF Quiet, Append, Expire, RegisterConsumer, UnregisterConsumer,
           CleanupStaleConsumers, PrepareTransfer, PreparePoisonTransfer,
           ReadSafePoint, Restart, LoseProcessState, vars
<1> QED
  BY <1>1, <1>2, <1>3 DEF Ledger!vars

\* Every step of the group is a step of the ledger or is invisible to it.
LEMMA LedgerNext ==
    ASSUME GroupInv, [Next]_vars
    PROVE  LedgerStep
<1>1. CASE Quiet
  BY <1>1, QuietStep DEF LedgerStep
<1>2. CASE \E c \in Consumers : ClaimBatch(c) \/ ClaimPendingBatch(c)
  BY <1>2, DeliverStep, ClaimStep DEF LedgerStep, Ledger!Next
<1>3. CASE \E o \in Offsets : Ack(o) \/ CrashDuringAck(o)
  BY <1>3, AckStep, CrashStep DEF LedgerStep, Ledger!Next
<1>4. CASE \E o \in Offsets : FinishTransfer(o) \/ FinishPoisonTransfer(o)
  BY <1>4, FinishStep DEF LedgerStep, Ledger!Next
<1>5. CASE \E o \in Offsets, outcome \in DLQOutcomes : MoveToDLQ(o, outcome)
  BY <1>5, MoveStep DEF LedgerStep, Ledger!Next
<1>6. CASE Truncate
  BY <1>6, TruncateStep DEF LedgerStep, Ledger!Next
<1> QED
  BY Zenon, <1>1, <1>2, <1>3, <1>4, <1>5, <1>6 DEF Next, Work, Quiet

----------------------------------------------------------------------------
(* The invariant is inductive.                                             *)

\* Arithmetic of a scan from one cursor to the next.
LEMMA Between ==
    ASSUME NEW a \in Nat, NEW b \in Nat, NEW low \in Nat, a <= b, low <= a
    PROVE  /\ \A o \in 0 .. b - 1 : o \in 0 .. a - 1 \/ o \in a .. b - 1
           /\ \A o \in a .. b - 1 : low <= o /\ o < b
           /\ \A o \in Nat : o < a => o < b
           /\ low <= b
  OBVIOUS

\* A step of the ledger keeps its promise and moves its positions forward.
LEMMA LedgerKeepsSafe ==
    ASSUME GroupInv, TypeOK', LedgerStep
    PROVE  /\ Ledger!Safe'
           /\ head' <= committed' /\ committed' <= cursor'
           /\ committed <= committed' /\ cursor <= cursor'
           /\ \A o \in Settled' : o < cursor'
<1>1. /\ cursor \in Nat /\ committed \in Nat /\ head \in Nat
      /\ \A o \in Pending \cup Settled : o \in Nat
  <2>1. Offsets \subseteq Nat
    BY ConsumerGroupAssumption DEF Offsets
  <2>2. Pending \subseteq Offsets /\ Settled \subseteq Offsets
    BY DEF GroupInv, TypeOK, Pending, Settled
  <2> QED
    BY <2>1, <2>2 DEF GroupInv, TypeOK
<1>2. CASE Ledger!Issue
  <2> DEFINE issued == cursor .. cursor' - 1
  <2>1. /\ committed' = committed /\ head' = head
        /\ Pending' \subseteq Pending \cup issued
        /\ Settled' = Settled \cup ((Pending \cup issued) \ Pending')
    BY <1>2 DEF Ledger!Issue
  <2>2. cursor' \in Nat /\ cursor <= cursor'
    BY <1>1, <1>2 DEF Ledger!Issue, TypeOK
  <2>3. /\ \A o \in 0 .. cursor' - 1 : o \in 0 .. cursor - 1 \/ o \in issued
        /\ \A o \in issued : committed <= o /\ o < cursor'
        /\ \A o \in Nat : o < cursor => o < cursor'
        /\ committed' <= cursor'
    BY Zenon, <1>1, <2>1, <2>2, Between DEF GroupInv
  <2> HIDE DEF issued
  <2>4. \A o \in Pending \cup Settled : o < cursor'
    BY <1>1, <2>3 DEF GroupInv, Ledger!Safe
  <2>5. \A o \in Pending' : committed' <= o /\ o < cursor'
    BY <2>1, <2>3, <2>4 DEF GroupInv, Ledger!Safe
  <2>6. \A o \in 0 .. cursor' - 1 : o \in Pending' \cup Settled'
    BY <2>1, <2>3 DEF GroupInv, Ledger!Safe
  <2>7. \A o \in Settled' : o < cursor'
    BY <2>1, <2>3, <2>4
  <2>8. head' <= committed' /\ committed <= committed'
    BY <1>1, <2>1 DEF GroupInv
  <2> QED
    BY Zenon, <2>2, <2>3, <2>5, <2>6, <2>7, <2>8 DEF Ledger!Safe
<1>3. CASE Ledger!Resolve
  BY <1>1, <1>3 DEF GroupInv, Ledger!Safe, Ledger!Resolve
<1>4. CASE Ledger!Retire
  BY <1>1, <1>4 DEF GroupInv, Ledger!Safe, Ledger!Retire
<1>5. CASE Ledger!Truncate
  BY <1>1, <1>5 DEF GroupInv, Ledger!Safe, Ledger!Truncate
<1>6. CASE UNCHANGED Ledger!vars
  BY <1>1, <1>6 DEF GroupInv, Ledger!Safe, Ledger!vars
<1> QED
  BY <1>2, <1>3, <1>4, <1>5, <1>6 DEF LedgerStep, Ledger!Next

\* No operation hands an acknowledged offset out again.
LEMMA AckedStaysOut ==
    ASSUME GroupInv, [Next]_vars
    PROVE  acked' \cap Pending' = {}
<1>1. CASE Quiet
  BY <1>1, QuietStep DEF GroupInv
<1>2. CASE \E c \in Consumers : ClaimBatch(c)
  BY Zenon, <1>2, DeliverStep DEF ClaimBatch
<1>3. CASE \E c \in Consumers : ClaimPendingBatch(c)
  <2>1. acked' = acked /\ cursor' = cursor
    BY <1>3 DEF ClaimPendingBatch
  <2>2. cursor .. cursor - 1 = {}
    BY DEF GroupInv, TypeOK
  <2>3. Pending' \subseteq Pending
    BY <1>3, <2>1, <2>2, ClaimStep DEF Ledger!Issue
  <2> QED
    BY <2>1, <2>3 DEF GroupInv
<1>4. CASE \E o \in Offsets : Ack(o) \/ CrashDuringAck(o)
  BY <1>4, AckStep, CrashStep
<1>5. CASE \E o \in Offsets : FinishTransfer(o) \/ FinishPoisonTransfer(o)
  BY <1>5, FinishStep DEF GroupInv, FinishTransfer, FinishPoisonTransfer
<1>6. CASE \E o \in Offsets, outcome \in DLQOutcomes : MoveToDLQ(o, outcome)
  BY Zenon, <1>6, MoveStep DEF GroupInv, MoveToDLQ
<1>7. CASE Truncate
  BY <1>7, TruncateStep DEF GroupInv, Truncate
<1> QED
  BY Zenon, <1>1, <1>2, <1>3, <1>4, <1>5, <1>6, <1>7 DEF Next, Work, Quiet

\* A transfer reserves an offset that is pending, and keeps it only until it
\* is finished; while it runs its outcome matches the destination.
LEMMA ReservationsTracked ==
    ASSUME GroupInv, TypeOK', [Next]_vars, cursor <= cursor'
    PROVE  /\ \A o \in Reserved' : o < cursor'
           /\ \A o \in Offsets : transfer'[o].stage = "done" => o \in dlq'
<1>1. /\ cursor \in Nat /\ cursor' \in Nat
      /\ \A x \in Offsets : x \in Nat
      /\ \A x \in Pending \cup Reserved : x < cursor
  BY ConsumerGroupAssumption DEF GroupInv, TypeOK, Ledger!Safe, Offsets
<1>2. CASE UNCHANGED <<transfer, dlq>>
  BY <1>1, <1>2 DEF GroupInv, Reserved
<1>3. ASSUME NEW o \in Offsets, PrepareTransfer(o) \/ PreparePoisonTransfer(o),
             transfer' # transfer
      PROVE  /\ o \in Pending
             /\ transfer'[o].stage = "append"
             /\ \A x \in Offsets \ {o} : transfer'[x] = transfer[x]
             /\ dlq' = dlq
  <2>1. /\ o \in Pending /\ dlq' = dlq
        /\ \E by \in {"reject", "sweep"} : transfer' = [transfer EXCEPT ![o] =
              [by |-> by, owner |-> pel[o].owner, stage |-> "append"]]
    BY <1>3 DEF PrepareTransfer, PreparePoisonTransfer
  <2>2. DOMAIN transfer = Offsets
    BY DEF GroupInv, TypeOK
  <2> QED
    BY <2>1, <2>2
<1>4. CASE \E o \in Offsets : PrepareTransfer(o) \/ PreparePoisonTransfer(o)
  <2>1. dlq' = dlq
    BY <1>4 DEF PrepareTransfer, PreparePoisonTransfer
  <2>2. CASE transfer' = transfer
    BY <1>2, <2>1, <2>2
  <2>3. CASE transfer' # transfer
    <3>1. PICK o \in Offsets : /\ o < cursor /\ transfer'[o].stage = "append"
                               /\ \A x \in Offsets \ {o} : transfer'[x] = transfer[x]
      BY <1>1, <1>3, <1>4, <2>3
    <3>2. \A x \in Reserved' : x < cursor
      BY <1>1, <3>1 DEF Reserved
    <3>3. \A x \in Offsets : transfer'[x].stage = "done" => x \in dlq
      BY <3>1 DEF GroupInv
    <3> QED
      BY <1>1, <2>1, <3>2, <3>3 DEF Reserved
  <2> QED
    BY <2>2, <2>3
<1>5. ASSUME NEW o \in Offsets, NEW outcome \in DLQOutcomes, MoveToDLQ(o, outcome)
      PROVE  /\ o \in Reserved
             /\ transfer'[o].stage = "done" => o \in dlq'
             /\ dlq \subseteq dlq'
             /\ \A x \in Offsets \ {o} : transfer'[x] = transfer[x]
  <2>1. o \in Reserved
    BY <1>5 DEF MoveToDLQ, Reserved, NoTransfer
  <2>2. transfer[o] \in Transfer
    BY <2>1 DEF Reserved, GroupInv, TypeOK
  <2>3. CASE outcome = "appended"
    BY <1>5, <2>1, <2>2, <2>3 DEF MoveToDLQ, GroupInv, TypeOK
  <2>4. CASE outcome # "appended"
    <3>1. transfer'[o].stage \in {"failed", "unavailable"}
      BY <1>5, <2>2, <2>4 DEF MoveToDLQ, GroupInv, TypeOK, Transfer
    <3> QED
      BY <1>5, <2>1, <3>1 DEF MoveToDLQ, GroupInv, TypeOK
  <2> QED
    BY <2>3, <2>4
<1>6. CASE \E o \in Offsets, outcome \in DLQOutcomes : MoveToDLQ(o, outcome)
  BY <1>1, <1>5, <1>6 DEF GroupInv, Reserved
<1>7. ASSUME NEW o \in Offsets, FinishTransfer(o) \/ FinishPoisonTransfer(o)
      PROVE  /\ transfer'[o] = NoTransfer /\ dlq' = dlq
             /\ \A x \in Offsets \ {o} : transfer'[x] = transfer[x]
  BY <1>7 DEF FinishTransfer, FinishPoisonTransfer, GroupInv, TypeOK
<1>8. CASE \E o \in Offsets : FinishTransfer(o) \/ FinishPoisonTransfer(o)
  <2>1. PICK o \in Offsets : /\ transfer'[o] = NoTransfer /\ dlq' = dlq
                             /\ \A x \in Offsets \ {o} : transfer'[x] = transfer[x]
    BY <1>7, <1>8
  <2>2. Reserved' \subseteq Reserved
    BY <2>1 DEF Reserved
  <2>3. \A x \in Offsets : transfer'[x].stage = "done" => x \in dlq
    BY <2>1 DEF GroupInv, NoTransfer
  <2> QED
    BY <1>1, <2>1, <2>2, <2>3 DEF Reserved
<1>9. CASE LoseProcessState
  BY <1>9 DEF LoseProcessState, Reserved, NoTransfer
<1> QED
  BY SMTT(30), <1>2, <1>4, <1>6, <1>8, <1>9
     DEF Next, Work, vars, Append, Expire, Lapse, ClaimBatch, ClaimPendingBatch, Ack,
         NackWithDelay, RegisterConsumer, UnregisterConsumer, CleanupStaleConsumers,
         ReadSafePoint, Truncate, Restart, CrashDuringAck

\* The cursor stays inside the log, and what retention has read stays below
\* the floor while the floor moves.
LEMMA PositionsOrdered ==
    ASSUME GroupInv, TypeOK', [Next]_vars, committed <= committed'
    PROVE  cursor' <= tail' /\ safePoint' <= committed'
<1>1. /\ cursor \in Nat /\ tail \in Nat /\ safePoint \in Nat
      /\ committed \in Nat /\ committed' \in Nat
  BY DEF GroupInv, TypeOK
<1>2. cursor <= tail /\ safePoint <= committed
  BY DEF GroupInv
<1>3. cursor' <= tail'
  <2>1. CASE \E c \in Consumers : ClaimBatch(c)
    BY Zenon, <2>1, DeliverStep DEF ClaimBatch
  <2>2. CASE \E kind \in {"live", "unclaimable"} : Append(kind)
    <3>1. cursor' = cursor /\ tail' = tail + 1
      BY <2>2 DEF Append
    <3> QED
      BY <1>1, <1>2, <3>1
  <2>3. CASE cursor' = cursor /\ tail' = tail
    BY <2>3, <1>2
  <2> QED
    BY SMTT(30), <2>1, <2>2, <2>3
       DEF Next, Work, vars, Expire, Lapse, ClaimPendingBatch, Ack,
           NackWithDelay, RegisterConsumer, UnregisterConsumer, CleanupStaleConsumers,
           PrepareTransfer, PreparePoisonTransfer, MoveToDLQ, FinishTransfer,
           FinishPoisonTransfer, ReadSafePoint, Truncate, Restart, LoseProcessState,
           CrashDuringAck
<1>4. safePoint' <= committed'
  <2>1. safePoint' \in {safePoint, 0, committed}
    BY SMTT(30)
       DEF Next, Work, vars, Append, Expire, Lapse, ClaimBatch, ClaimPendingBatch, Ack,
           NackWithDelay, RegisterConsumer, UnregisterConsumer, CleanupStaleConsumers,
           PrepareTransfer, PreparePoisonTransfer, MoveToDLQ, FinishTransfer,
           FinishPoisonTransfer, ReadSafePoint, Truncate, Restart, LoseProcessState,
           CrashDuringAck
  <2> QED
    BY <1>2, <1>1, <2>1
<1> QED
  BY <1>3, <1>4

\* Every step of the group keeps the invariant.
LEMMA InvNext ==
    ASSUME GroupInv, [Next]_vars
    PROVE  GroupInv'
<1>1. TypeOK'
  BY TypeNext DEF GroupInv
<1>2. /\ Ledger!Safe'
      /\ head' <= committed' /\ committed' <= cursor'
      /\ committed <= committed' /\ cursor <= cursor'
      /\ \A o \in Settled' : o < cursor'
  BY <1>1, LedgerNext, LedgerKeepsSafe
<1>3. /\ \A o \in Reserved' : o < cursor'
      /\ \A o \in Offsets : transfer'[o].stage = "done" => o \in dlq'
  BY <1>1, <1>2, ReservationsTracked
<1>4. cursor' <= tail' /\ safePoint' <= committed'
  BY <1>1, <1>2, PositionsOrdered
<1>5. acked' \cap Pending' = {}
  BY AckedStaysOut
<1> QED
  BY <1>1, <1>2, <1>3, <1>4, <1>5 DEF GroupInv

\* The inductive invariant holds in every reachable state of the group
\* (consumer.Manager with its store).
THEOREM Invariance == Spec => []GroupInv
  BY InitInv, InvNext, PTL DEF Spec

----------------------------------------------------------------------------
(* What it gives.                                                          *)

\* The committed offset is a safe floor (advanceCommitted): nothing pending
\* lies below it and it never passes the cursor.
THEOREM FloorIsSafe == Spec => []CommittedFloor
<1>1. GroupInv => CommittedFloor
  BY DEF GroupInv, Ledger!Safe, CommittedFloor
<1> QED
  BY <1>1, Invariance, PTL

\* At-least-once: whatever the cursor has passed is pending or has an outcome.
THEOREM NoRecordLost == Spec => []NothingLost
<1>1. GroupInv => NothingLost
  <2> SUFFICES ASSUME GroupInv, NEW o \in Offsets, o < cursor
               PROVE  o \in Pending \cup Settled
    BY DEF NothingLost
  <2>1. o \in 0 .. cursor - 1
    BY ConsumerGroupAssumption DEF GroupInv, TypeOK, Offsets
  <2> QED
    BY <2>1 DEF GroupInv, Ledger!Safe
<1> QED
  BY <1>1, Invariance, PTL

\* Retention, which reads the floor and truncates later without the group's
\* lock, removes only records that have an outcome.
THEOREM RetentionRemovesSettled == Spec => []RetentionSafe
<1>1. GroupInv => RetentionSafe
  <2> SUFFICES ASSUME GroupInv PROVE RetentionSafe
    OBVIOUS
  <2>1. ASSUME NEW o \in Offsets, o < head PROVE o \in Settled \ Pending
    <3>1. o \in Nat /\ head \in Nat /\ committed \in Nat /\ cursor \in Nat
      BY ConsumerGroupAssumption DEF GroupInv, TypeOK, Offsets
    <3>2. o < committed /\ o \in 0 .. cursor - 1
      BY <2>1, <3>1 DEF GroupInv
    <3>3. o \notin Pending
      BY <3>1, <3>2 DEF GroupInv, Ledger!Safe
    <3> QED
      BY <3>2, <3>3 DEF GroupInv, Ledger!Safe
  <2> QED
    BY <2>1 DEF GroupInv, RetentionSafe
<1> QED
  BY <1>1, Invariance, PTL

\* An acknowledged record is never handed out again.
THEOREM AcksAreFinal == Spec => []AckIsFinal
<1>1. GroupInv => AckIsFinal
  BY DEF GroupInv, AckIsFinal
<1> QED
  BY <1>1, Invariance, PTL

\* The floor never falls.
THEOREM FloorNeverFalls == Spec => CommittedMonotonic
<1>1. GroupInv /\ [Next]_vars => [committed <= committed']_vars
  BY TypeNext, LedgerNext, LedgerKeepsSafe DEF GroupInv
<1> QED
  BY <1>1, Invariance, PTL DEF Spec, CommittedMonotonic

\* An entry under a running dead-letter write keeps its owner and its delivery
\* count through every operation except the Claim command (stealWorkFrom, Ack,
\* NackWithDelay and the transfers all look at the reservation).
THEOREM ReservationsHonoured == Spec => ReservationHonoured
<1> DEFINE Kept(o) == pel'[o].owner = pel[o].owner /\ pel'[o].count = pel[o].count
<1>1. ASSUME GroupInv, [Next]_vars, \A c \in Consumers : ~ClaimPendingBatch(c),
             NEW o \in Reserved \cap Reserved'
      PROVE  Kept(o)
  <2>1. o \in Offsets /\ o \in Nat /\ cursor \in Nat /\ o < cursor
    BY <1>1, ConsumerGroupAssumption DEF GroupInv, TypeOK, Reserved, Offsets
  <2>2. \A x \in Pending : pel[x] \in Entry
    BY <1>1 DEF GroupInv, TypeOK, Pending
  <2>3. CASE pel' = pel
    BY <2>3
  <2>4. ASSUME NEW c \in Consumers, ClaimBatch(c) PROVE Kept(o)
    <3>1. PICK stop \in ScanStart .. tail, stolen \in SUBSET Walk(c), seen \in SUBSET Walk(c) :
            Deliver(c, Claimable(stop), stop, stolen, seen)
      BY <2>4 DEF ClaimBatch, Ready
    <3>2. o \notin Walk(c)
      BY <1>1 DEF Walk
    <3>3. o \notin Claimable(stop)
      BY <1>1, <2>1, <3>1 DEF Claimable, ScanStart, GroupInv, TypeOK
    <3> QED
      BY <2>1, <3>1, <3>2, <3>3 DEF Deliver, Dead
  <2>5. ASSUME NEW x \in Offsets, Lapse(x) \/ (\E d \in BOOLEAN : NackWithDelay(x, d))
        PROVE  Kept(o)
    <3>1. x \in Pending
      BY <2>5 DEF Lapse, NackWithDelay, Pending
    <3>2. pel[x] \in Entry
      BY <2>2, <3>1
    <3> QED
      BY <1>1, <2>1, <2>5, <3>2 DEF Lapse, NackWithDelay, GroupInv, TypeOK, Entry
  <2>6. ASSUME NEW x \in Offsets, Ack(x) PROVE Kept(o)
    BY <1>1, <2>1, <2>6 DEF Ack, Remove, GroupInv, TypeOK
  <2>7. ASSUME NEW x \in Offsets, FinishTransfer(x) \/ FinishPoisonTransfer(x)
        PROVE  Kept(o)
    <3>1. transfer'[x] = NoTransfer
      BY <1>1, <2>7 DEF FinishTransfer, FinishPoisonTransfer, GroupInv, TypeOK
    <3>2. o # x
      BY <1>1, <3>1 DEF Reserved
    <3> QED
      BY <1>1, <2>1, <2>7, <3>2
         DEF FinishTransfer, FinishPoisonTransfer, Remove, GroupInv, TypeOK
  <2>8. ASSUME LoseProcessState PROVE FALSE
    BY <1>1, <2>8 DEF LoseProcessState, Reserved
  <2> HIDE DEF Kept
  <2> QED
    BY Zenon, <1>1, <2>3, <2>4, <2>5, <2>6, <2>7, <2>8
       DEF Next, Work, vars, Append, Expire, RegisterConsumer, UnregisterConsumer,
           CleanupStaleConsumers, PrepareTransfer, PreparePoisonTransfer, MoveToDLQ,
           ReadSafePoint, Truncate, Restart, CrashDuringAck
<1>2. GroupInv /\ [Next]_vars =>
        [(\A c \in Consumers : ~ClaimPendingBatch(c)) =>
            \A o \in Reserved \cap Reserved' :
               /\ pel'[o].owner = pel[o].owner
               /\ pel'[o].count = pel[o].count]_vars
  BY <1>1
<1> QED
  BY <1>2, Invariance, PTL DEF Spec, ReservationHonoured

\* The group implements the abstract ledger: claims, settlements, transfers,
\* retention and crashes of consumer.Manager are steps the ledger allows.
THEOREM ImplementsLedger == Spec => KeepsLedger
<1>1. Init => Ledger!Init
  BY InitInv
<1>2. GroupInv /\ [Next]_vars => [Ledger!Next]_(Ledger!vars)
  BY LedgerNext DEF LedgerStep
<1> QED
  BY <1>1, <1>2, Invariance, PTL DEF Spec, KeepsLedger, Ledger!Spec
============================================================================
