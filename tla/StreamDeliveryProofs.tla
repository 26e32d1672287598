------------------------ MODULE StreamDeliveryProofs ------------------------
(***************************************************************************)
(* The cursor of an auto-commit group skips nothing, for every number of   *)
(* consumers, of callers of the pull API, of records, and every batch and  *)
(* scan size.                                                              *)
(***************************************************************************)
EXTENDS StreamDelivery, WellFoundedInduction, TLAPS

-----------------------------------------------------------------------------
(* The inductive invariant.                                                *)

(* Of the records below n that the filter lets through, those not in B     *)
(* were handed to somebody (e) or lie below the start l of the log.        *)
Handed(e, l, n, B) ==
    \A o \in Passing : o < n => o \in e \/ o < l \/ o \in B

\* The engine's state.
EngineType ==
    [pc : {"wait", "mark", "serve", "deliver", "route", "commit"}, todo : SUBSET StreamConsumers,
     who : StreamConsumers \cup {"none"}, batch : SUBSET Passing, next : Nat, sent : Nat,
     gave : BOOLEAN]

StreamTypeOK ==
    /\ low \in Nat /\ high \in Nat /\ low <= high
    /\ position \in Nat /\ position <= high
    /\ engine \in EngineType
    /\ pull \in [Callers -> [pc : {"idle", "send", "commit"}, batch : SUBSET Passing, next : Nat]]
    /\ joined \subseteq StreamConsumers

(* A reader's batch is all that is left to hand over of what lies before   *)
(* the offset it will move the cursor to, and the engine hands over a      *)
(* batch from its least record on.                                         *)
EngineHolds ==
    /\ Handed(exposed, low, engine.next, engine.batch) /\ engine.next <= high
    /\ \A b \in engine.batch : engine.sent <= b /\ b < engine.next

CallHolds(p) == Handed(exposed, low, pull[p].next, pull[p].batch) /\ pull[p].next <= high

StreamInv ==
    /\ StreamTypeOK
    /\ Handed(exposed, low, position, {})
    /\ EngineHolds
    /\ \A p \in Callers : CallHolds(p)

-----------------------------------------------------------------------------
(* Every set of natural numbers that is not empty has a least element.     *)
LEMMA LeastExists ==
    ASSUME NEW S, S \subseteq Nat, S # {}
    PROVE  \E x \in S : \A y \in S : x <= y
<1> DEFINE R == OpToRel(<, Nat)
<1>1. IsWellFoundedOn(R, Nat)
  BY Zenon, NatLessThanWellFounded
<1>2. \A x, y \in Nat : <<x, y>> \in R <=> x < y
  BY DEF OpToRel
<1> HIDE DEF R
<1>3. PICK x \in S : \A y \in S : ~ (<<y, x>> \in R)
  BY Zenon, <1>1, WFMin
<1>4. \A y \in S : ~ (y < x)
  BY Zenon, <1>2, <1>3
<1>5. \A m, n \in Nat : ~ (n < m) => m <= n
  OBVIOUS
<1> QED
  BY <1>3, <1>4, <1>5

(* Least finds it.                                                         *)
LEMMA LeastIsLeast ==
    ASSUME NEW S, S \subseteq Nat, S # {}
    PROVE  Least(S) \in S /\ \A y \in S : Least(S) <= y
  BY Zenon, LeastExists DEF Least

(* A scan ends, between the first offset it looks at and the end of the    *)
(* log.                                                                    *)
LEMMA ScanEnds ==
    ASSUME StreamTypeOK
    PROVE  ScanEnd \in Nat /\ PeekFrom \in Nat /\ PeekFrom <= ScanEnd /\ ScanEnd <= high
<1>1. PeekFrom \in Nat /\ PeekFrom <= high /\ high \in Nat
  BY DEF StreamTypeOK, PeekFrom
<1> DEFINE S == {end \in PeekFrom .. high : ScanStops(end)}
<1>2. S \subseteq Nat /\ S # {}
  <2>1. high \in PeekFrom .. high /\ ScanStops(high)
    BY <1>1 DEF ScanStops
  <2> QED
    BY <1>1, <2>1
<1>3. PICK x \in S : \A y \in S : x <= y
  BY Zenon, <1>2, LeastExists
<1>4. /\ x \in PeekFrom .. high /\ ScanStops(x)
      /\ \A e \in PeekFrom .. (x - 1) : ~ ScanStops(e)
  <2>1. x \in PeekFrom .. high /\ ScanStops(x)
    BY <1>3
  <2>2. ASSUME NEW e \in PeekFrom .. (x - 1), ScanStops(e) PROVE FALSE
    <3>1. e \in PeekFrom .. high /\ e < x
      BY <1>1, <2>1
    <3>2. e \in S
      BY <2>2, <3>1
    <3> QED
      BY <1>1, <1>3, <2>1, <3>1, <3>2
  <2> QED
    BY <2>1, <2>2
<1>5. ScanEnd \in PeekFrom .. high
  BY <1>4 DEF ScanEnd
<1> QED
  BY <1>1, <1>5

(* What a peek finds is all there is to hand over before its end.          *)
LEMMA PeekFindsAll ==
    ASSUME StreamInv
    PROVE  /\ Found(ScanEnd) \subseteq Passing
           /\ Handed(exposed, low, ScanEnd, Found(ScanEnd))
           /\ \A b \in Found(ScanEnd) : b \in Nat /\ b < ScanEnd
<1>1. ScanEnd \in Nat /\ low \in Nat /\ position \in Nat /\ Passing \subseteq Nat
  BY ScanEnds, StreamAssumption DEF StreamInv, StreamTypeOK
<1>2. ASSUME NEW o \in Passing, o < ScanEnd PROVE o \in exposed \/ o < low \/ o \in Found(ScanEnd)
  <2>1. CASE o < position
    BY <2>1 DEF StreamInv, Handed
  <2>2. CASE ~ (o < position) /\ ~ (o < low)
    BY <1>1, <1>2, <2>2 DEF Found, PeekFrom
  <2> QED
    BY <2>1, <2>2
<1> QED
  BY <1>1, <1>2 DEF Handed, Found

(* What was handed over stays so.                                          *)
LEMMA HandedStays ==
    ASSUME NEW e, NEW f, e \subseteq f, NEW l \in Nat, NEW k \in Nat, l <= k, NEW n, NEW B,
           Handed(e, l, n, B)
    PROVE  Handed(f, k, n, B)
  BY StreamAssumption DEF Handed

(* What a step that only adds to the log, to what was handed over and to   *)
(* the truncated part keeps of what it does not change.                    *)
LEMMA WhatStays ==
    ASSUME StreamInv, low' \in Nat, high' \in Nat, low <= low', high <= high',
           exposed \subseteq exposed'
    PROVE  /\ position' = position => /\ Handed(exposed', low', position', {})
                                      /\ position' \in Nat /\ position' <= high'
           /\ /\ engine'.batch = engine.batch
              /\ engine'.next = engine.next /\ engine'.sent = engine.sent
              => EngineHolds'
           /\ \A p \in Callers : pull'[p] = pull[p] => CallHolds(p)'
<1>1. /\ low \in Nat /\ high \in Nat /\ position \in Nat /\ position <= high
      /\ engine.next \in Nat /\ engine.next <= high
      /\ \A p \in Callers : pull[p].next \in Nat /\ pull[p].next <= high
  BY DEF StreamInv, StreamTypeOK, EngineType, EngineHolds, CallHolds
<1>2. \A n, B : Handed(exposed, low, n, B) => Handed(exposed', low', n, B)
  BY <1>1, HandedStays
<1>3. position' = position => /\ Handed(exposed', low', position', {})
                              /\ position' \in Nat /\ position' <= high'
  BY <1>1, <1>2 DEF StreamInv
<1>4. /\ engine'.batch = engine.batch
      /\ engine'.next = engine.next /\ engine'.sent = engine.sent
      => EngineHolds'
  BY <1>1, <1>2 DEF StreamInv, EngineHolds
<1>5. ASSUME NEW p \in Callers, pull'[p] = pull[p] PROVE CallHolds(p)'
  BY <1>1, <1>2, <1>5 DEF StreamInv, CallHolds
<1> QED
  BY <1>3, <1>4, <1>5

(* Moving the cursor to an offset before which everything was handed over. *)
LEMMA CursorMoves ==
    ASSUME StreamInv, NEW n \in Nat, n <= high, UpdateStreamCursor(n), low' = low, high' = high,
           exposed \subseteq exposed', Handed(exposed', low, n, {})
    PROVE  Handed(exposed', low', position', {}) /\ position' \in Nat /\ position' <= high'
<1>1. low \in Nat /\ high \in Nat /\ position \in Nat /\ position <= high
  BY DEF StreamInv, StreamTypeOK
<1>2. CASE n > position
  BY <1>1, <1>2 DEF UpdateStreamCursor
<1>3. CASE ~ (n > position)
  BY <1>1, <1>3, WhatStays DEF UpdateStreamCursor
<1> QED
  BY <1>2, <1>3

(* A peek that finds nothing moves the cursor, one that finds something    *)
(* does not.                                                               *)
LEMMA PeekMoves ==
    ASSUME StreamInv, PeekBatchStream, low' = low, high' = high, exposed' = exposed
    PROVE  Handed(exposed', low', position', {}) /\ position' \in Nat /\ position' <= high'
<1>1. ScanEnd \in Nat /\ ScanEnd <= high /\ low \in Nat /\ high \in Nat
  BY ScanEnds DEF StreamInv, StreamTypeOK
<1>2. CASE Found(ScanEnd) = {}
  <2>1. Handed(exposed', low, ScanEnd, {})
    BY <1>2, PeekFindsAll
  <2> QED
    BY <1>1, <1>2, <2>1, CursorMoves DEF PeekBatchStream
<1>3. CASE Found(ScanEnd) # {}
  BY <1>1, <1>3, WhatStays DEF PeekBatchStream
<1> QED
  BY <1>2, <1>3

-----------------------------------------------------------------------------
(* The steps.                                                              *)

(* The schedule, the consumers and the log: no reader moves.               *)
LEMMA BystandersKeep ==
    ASSUME StreamInv,
           \/ Sweep \/ AppendToStream
           \/ \E w \in {Writer, Engine} : ScheduleSend(w) \/ ScheduleFull(w)
           \/ \E o \in 0 .. high : TruncateStream(o) \/ AckStream(o)
           \/ \E c \in StreamConsumers : Join(c) \/ Leave(c)
    PROVE  StreamInv'
<1>1. /\ position' = position /\ engine' = engine /\ pull' = pull /\ exposed' = exposed
      /\ low' \in Nat /\ high' \in Nat /\ low <= low' /\ high <= high' /\ low' <= high'
      /\ joined' \subseteq StreamConsumers
  <2>1. /\ low \in Nat /\ high \in Nat /\ low <= high /\ joined \subseteq StreamConsumers
        /\ \A n \in Nat : n <= n + 1 /\ n + 1 \in Nat
    BY DEF StreamInv, StreamTypeOK
  <2>2. CASE Sweep \/ \E w \in {Writer, Engine} : ScheduleSend(w) \/ ScheduleFull(w)
    BY <2>1, <2>2 DEF Sweep, ScheduleSend, ScheduleFull
  <2>3. CASE AppendToStream
    BY <2>1, <2>3 DEF AppendToStream
  <2>4. CASE \E o \in 0 .. high : TruncateStream(o) \/ AckStream(o)
    BY <2>1, <2>4 DEF TruncateStream, AckStream
  <2>5. CASE \E c \in StreamConsumers : Join(c) \/ Leave(c)
    BY <2>1, <2>5 DEF Join, Leave
  <2> QED
    BY <2>2, <2>3, <2>4, <2>5
<1>2. Handed(exposed', low', position', {}) /\ EngineHolds' /\ \A p \in Callers : CallHolds(p)'
  BY <1>1, WhatStays
<1>3. position' \in Nat /\ position' <= high'
  BY <1>1, WhatStays
<1>4. StreamTypeOK'
  BY <1>1, <1>3 DEF StreamInv, StreamTypeOK
<1> QED
  BY <1>2, <1>4 DEF StreamInv

(* What a step of the engine that does not touch the log has to keep.      *)
LEMMA EngineStepKeeps ==
    ASSUME StreamInv, low' = low, high' = high, pull' = pull, exposed \subseteq exposed',
           Handed(exposed', low, position', {}), position' \in Nat, position' <= high,
           joined' \subseteq joined, EngineHolds', engine' \in EngineType
    PROVE  StreamInv'
<1>1. low \in Nat /\ high \in Nat /\ low <= high /\ joined' \subseteq StreamConsumers
  BY DEF StreamInv, StreamTypeOK
<1>2. \A p \in Callers : CallHolds(p)'
  BY <1>1, WhatStays
<1>3. StreamTypeOK'
  BY <1>1 DEF StreamInv, StreamTypeOK
<1> QED
  BY <1>2, <1>3 DEF StreamInv


(* Steps of the engine that leave the cursor and its batch.                *)
LEMMA EngineMovesKeep ==
    ASSUME StreamInv,
           \/ Receive \/ DeliverQueue \/ DeliverLocalFails \/ DeliverLocalEnds \/ DeliverQueueEnds
           \/ RouteRemoteBatchFails
           \/ \E c \in StreamConsumers : RemoveMember(c)
    PROVE  StreamInv'
<1>1. low \in Nat /\ high \in Nat /\ low <= high /\ joined \subseteq StreamConsumers
      /\ engine \in EngineType
  BY DEF StreamInv, StreamTypeOK
<1>2. /\ low' = low /\ high' = high /\ position' = position /\ pull' = pull
      /\ exposed \subseteq exposed' /\ joined' \subseteq joined
  BY DEF Receive, DeliverQueue, DeliverLocalFails, DeliverLocalEnds, DeliverQueueEnds,
         RouteRemoteBatchFails, RemoveMember
<1>3. engine' \in EngineType
  <2>1. Waiting \in EngineType
    BY DEF Waiting, EngineType
  <2>2. CASE Receive \/ DeliverLocalFails \/ DeliverLocalEnds \/ RouteRemoteBatchFails
    BY <1>1, <2>2 DEF Receive, DeliverLocalFails, DeliverLocalEnds, RouteRemoteBatchFails,
       EngineType
  <2>3. CASE DeliverQueue \/ \E c \in StreamConsumers : RemoveMember(c)
    <3>1. CASE DeliverQueue
      BY <1>1, <3>1 DEF DeliverQueue, EngineType
    <3>2. ASSUME NEW c \in StreamConsumers, RemoveMember(c) PROVE engine' \in EngineType
      BY <1>1, <3>2 DEF RemoveMember, EngineType
    <3> QED
      BY <2>3, <3>1, <3>2
  <2>4. CASE DeliverQueueEnds
    BY <2>1, <2>4 DEF DeliverQueueEnds
  <2> QED
    BY <2>2, <2>3, <2>4
<1>4. \/ engine' = Waiting
      \/ /\ engine'.batch = engine.batch
         /\ engine'.next = engine.next /\ engine'.sent = engine.sent
  BY Zenon, <1>1 DEF Receive, DeliverQueue, DeliverLocalFails, DeliverLocalEnds, DeliverQueueEnds,
         RouteRemoteBatchFails, RemoveMember, EngineType
<1>5. EngineHolds'
  <2>1. CASE engine' = Waiting
    BY <1>1, <1>2, <2>1, StreamAssumption DEF EngineHolds, Waiting, Handed
  <2> QED
    BY <1>1, <1>2, <1>4, <2>1, WhatStays
<1>6. Handed(exposed', low, position', {}) /\ position' \in Nat /\ position' <= high
  BY <1>1, <1>2, WhatStays
<1> QED
  BY <1>2, <1>3, <1>5, <1>6, EngineStepKeeps

(* A consumer the engine has nothing for: the cursor passes what the scan  *)
(* looked at.                                                              *)
LEMMA ConsumeNothingKeeps ==
    ASSUME StreamInv, NEW c \in StreamConsumers, ConsumeNothing(c)
    PROVE  StreamInv'
<1>1. low \in Nat /\ high \in Nat /\ engine \in EngineType
  BY DEF StreamInv, StreamTypeOK
<1>2. /\ low' = low /\ high' = high /\ pull' = pull /\ exposed' = exposed /\ joined' = joined
      /\ position' = position \/ PeekBatchStream
  BY DEF ConsumeNothing
<1>3. Handed(exposed', low, position', {}) /\ position' \in Nat /\ position' <= high
  BY <1>1, <1>2, PeekMoves, WhatStays
<1>4. /\ engine' \in EngineType
      /\ engine'.batch = engine.batch
      /\ engine'.next = engine.next /\ engine'.sent = engine.sent
  <2>1. CASE c \notin joined
    BY <1>1, <2>1 DEF ConsumeNothing, EngineType
  <2>2. CASE c \in joined
    <3>1. PICK g \in BOOLEAN : engine' = [engine EXCEPT !.todo = @ \ {c}, !.gave = g]
      BY Zenon, <2>2, <1>1 DEF ConsumeNothing, EngineType
    <3> QED
      BY Zenon, <1>1, <3>1 DEF EngineType
  <2> QED
    BY <2>1, <2>2
<1>5. EngineHolds'
  BY <1>1, <1>2, <1>4, WhatStays
<1> QED
  BY <1>2, <1>3, <1>4, <1>5, EngineStepKeeps

(* The engine takes a batch.                                               *)
LEMMA ConsumeBatchKeeps ==
    ASSUME StreamInv, NEW c \in StreamConsumers, ConsumeBatch(c)
    PROVE  StreamInv'
<1>1. low \in Nat /\ high \in Nat /\ engine \in EngineType
  BY DEF StreamInv, StreamTypeOK
<1>2. /\ low' = low /\ high' = high /\ pull' = pull /\ exposed' = exposed /\ joined' = joined
      /\ PeekBatchStream
  BY DEF ConsumeBatch
<1>3. Handed(exposed', low, position', {}) /\ position' \in Nat /\ position' <= high
  BY <1>1, <1>2, PeekMoves
<1>4. /\ Found(ScanEnd) \subseteq Passing /\ Handed(exposed, low, ScanEnd, Found(ScanEnd))
      /\ \A b \in Found(ScanEnd) : b \in Nat /\ b < ScanEnd
      /\ ScanEnd \in Nat /\ ScanEnd <= high
  BY PeekFindsAll, ScanEnds DEF StreamInv
<1>5. /\ engine' \in EngineType
      /\ engine'.batch = Found(ScanEnd) /\ engine'.next = ScanEnd /\ engine'.sent = 0
  BY Zenon, <1>1, <1>4 DEF ConsumeBatch, EngineType
<1>6. EngineHolds'
  BY <1>2, <1>4, <1>5 DEF EngineHolds
<1> QED
  BY <1>2, <1>3, <1>5, <1>6, EngineStepKeeps

(* The engine hands over the least record of its batch.                    *)
LEMMA DeliverLocalKeeps ==
    ASSUME StreamInv, DeliverLocal
    PROVE  StreamInv'
<1>1. /\ low \in Nat /\ high \in Nat /\ engine \in EngineType
      /\ engine.batch \subseteq Nat /\ engine.batch \subseteq Passing
  BY Zenon, StreamAssumption DEF StreamInv, StreamTypeOK, EngineType
<1>2. /\ low' = low /\ high' = high /\ pull' = pull /\ joined' = joined
      /\ position' = position /\ engine.batch # {}
  BY DEF DeliverLocal
<1>3. PICK o : o = Least(engine.batch)
  BY Zenon
<1>4. o \in engine.batch /\ \A b \in engine.batch : o <= b
  BY <1>1, <1>2, <1>3, LeastIsLeast
<1>5. exposed' = exposed \cup {o}
  BY <1>3 DEF DeliverLocal
<1>6. /\ engine' \in EngineType
      /\ engine'.batch = engine.batch \ {o} /\ engine'.next = engine.next /\ engine'.sent = o + 1
  <2>1. engine' = [engine EXCEPT !.batch = engine.batch \ {o}, !.sent = o + 1, !.gave = TRUE]
    BY <1>3 DEF DeliverLocal
  <2>2. o + 1 \in Nat
    BY <1>1, <1>4
  <2> QED
    BY Zenon, <1>1, <2>1, <2>2 DEF EngineType
<1>7. EngineHolds'
  <2>1. Handed(exposed', low', engine'.next, engine'.batch)
    BY <1>2, <1>5, <1>6 DEF StreamInv, EngineHolds, Handed
  <2>2. \A b \in engine'.batch : engine'.sent <= b /\ b < engine'.next
    BY <1>1, <1>4, <1>6 DEF StreamInv, EngineHolds
  <2> QED
    BY <1>2, <1>6, <2>1, <2>2 DEF StreamInv, EngineHolds
<1>8. Handed(exposed', low, position', {}) /\ position' \in Nat /\ position' <= high
  BY <1>1, <1>2, <1>5, WhatStays
<1> QED
  BY <1>2, <1>5, <1>6, <1>7, <1>8, EngineStepKeeps

(* A batch for a remote consumer is sent as a whole.                       *)
LEMMA RouteRemoteBatchKeeps ==
    ASSUME StreamInv, RouteRemoteBatch
    PROVE  StreamInv'
<1>1. low \in Nat /\ high \in Nat /\ engine \in EngineType
  BY DEF StreamInv, StreamTypeOK
<1>2. /\ low' = low /\ high' = high /\ pull' = pull /\ joined' = joined
      /\ position' = position /\ exposed' = exposed \cup engine.batch
  BY DEF RouteRemoteBatch
<1>3. /\ engine' \in EngineType
      /\ engine'.batch = {} /\ engine'.next = engine.next
  BY Zenon, <1>1 DEF RouteRemoteBatch, EngineType
<1>4. EngineHolds'
  <2>1. Handed(exposed, low, engine.next, engine.batch) /\ engine.next <= high
    BY DEF StreamInv, EngineHolds
  <2>2. Handed(exposed', low, engine.next, {})
    BY <1>2, <2>1 DEF Handed
  <2> QED
    BY <1>2, <1>3, <2>1, <2>2 DEF EngineHolds
<1>5. Handed(exposed', low, position', {}) /\ position' \in Nat /\ position' <= high
  BY <1>1, <1>2, WhatStays
<1> QED
  BY <1>2, <1>3, <1>4, <1>5, EngineStepKeeps

(* Before the offset the engine moves the cursor to, everything was handed *)
(* over: it is the end of the scan when the batch is delivered, and the    *)
(* offset after the last record delivered otherwise.                       *)
LEMMA CommittedIsHanded ==
    ASSUME StreamInv
    PROVE  /\ CommittedCursor \in Nat /\ CommittedCursor <= high
           /\ Handed(exposed, low, CommittedCursor, {})
<1>1. /\ engine.next \in Nat /\ engine.sent \in Nat /\ engine.next <= high /\ high \in Nat
      /\ engine.batch \subseteq Passing /\ Passing \subseteq Nat
      /\ Handed(exposed, low, engine.next, engine.batch)
      /\ \A b \in engine.batch : engine.sent <= b /\ b < engine.next
  BY StreamAssumption DEF StreamInv, StreamTypeOK, EngineType, EngineHolds
<1>2. CASE engine.batch = {}
  BY <1>1, <1>2 DEF CommittedCursor
<1>3. CASE engine.batch # {}
  <2>1. PICK b \in engine.batch : engine.sent <= b /\ b < engine.next
    BY <1>1, <1>3
  <2>2. engine.sent < engine.next /\ engine.sent <= high
    <3>1. \A s, n, h, m \in Nat : s <= m /\ m < n /\ n <= h => s < n /\ s <= h
      OBVIOUS
    <3>2. b \in Nat
      BY Zenon, <1>1, <2>1
    <3> QED
      BY <1>1, <2>1, <3>1, <3>2
  <2>3. ASSUME NEW o \in Passing, o < engine.sent PROVE o \in exposed \/ o < low
    BY <1>1, <2>2, <2>3 DEF Handed
  <2> QED
    BY <1>1, <1>3, <2>2, <2>3 DEF CommittedCursor, Handed
<1> QED
  BY <1>2, <1>3

(* The engine moves the cursor.                                            *)
LEMMA CommitStreamCursorKeeps ==
    ASSUME StreamInv, CommitStreamCursor
    PROVE  StreamInv'
<1>1. low \in Nat /\ high \in Nat /\ engine \in EngineType
  BY DEF StreamInv, StreamTypeOK
<1>2. /\ low' = low /\ high' = high /\ pull' = pull /\ joined' = joined /\ exposed' = exposed
      /\ UpdateStreamCursor(CommittedCursor) \/ position' = position
  BY DEF CommitStreamCursor
<1>3. /\ engine' \in EngineType
      /\ engine'.batch = engine.batch
      /\ engine'.next = engine.next /\ engine'.sent = engine.sent
  BY <1>1 DEF CommitStreamCursor, EngineType
<1>4. EngineHolds'
  BY <1>1, <1>2, <1>3, WhatStays
<1>5. Handed(exposed', low, position', {}) /\ position' \in Nat /\ position' <= high
  <2>1. CASE position' = position
    BY <1>1, <1>2, <2>1, WhatStays
  <2>2. CASE UpdateStreamCursor(CommittedCursor)
    <3>1. PICK n : n = CommittedCursor
      BY Zenon
    <3>2. n \in Nat /\ n <= high /\ Handed(exposed, low, n, {})
      BY <3>1, CommittedIsHanded
    <3> QED
      BY <1>2, <2>2, <3>1, <3>2, CursorMoves
  <2> QED
    BY <1>2, <2>1, <2>2
<1> QED
  BY <1>2, <1>3, <1>4, <1>5, EngineStepKeeps

(* What a step of a caller has to keep.                                    *)
LEMMA CallerStepKeeps ==
    ASSUME StreamInv, low' = low, high' = high, engine' = engine, joined' = joined,
           exposed \subseteq exposed',
           Handed(exposed', low, position', {}), position' \in Nat, position' <= high,
           NEW p \in Callers,
           NEW q \in [pc : {"idle", "send", "commit"}, batch : SUBSET Passing, next : Nat],
           pull' = [pull EXCEPT ![p] = q], Handed(exposed', low, q.next, q.batch), q.next <= high
    PROVE  StreamInv'
<1>1. /\ low \in Nat /\ high \in Nat
      /\ pull \in [Callers -> [pc : {"idle", "send", "commit"}, batch : SUBSET Passing, next : Nat]]
  BY DEF StreamInv, StreamTypeOK
<1>2. EngineHolds'
  BY <1>1, WhatStays
<1>3. ASSUME NEW r \in Callers PROVE CallHolds(r)'
  <2>1. CASE r = p
    <3>1. pull'[r] = q
      BY <1>1, <2>1
    <3> QED
      BY <3>1 DEF CallHolds
  <2>2. CASE r # p
    <3>1. pull'[r] = pull[r]
      BY <1>1, <2>2
    <3> QED
      BY <1>1, <3>1, WhatStays
  <2> QED
    BY <2>1, <2>2
<1>4. StreamTypeOK'
  BY <1>1 DEF StreamInv, StreamTypeOK
<1> QED
  BY <1>2, <1>3, <1>4 DEF StreamInv

(* A call that is over holds nothing.                                      *)
LEMMA NoCallHolds ==
    /\ NoCall \in [pc : {"idle", "send", "commit"}, batch : SUBSET Passing, next : Nat]
    /\ \A e, l : Handed(e, l, NoCall.next, NoCall.batch)
    /\ NoCall.next = 0
<1>1. NoCall.next = 0
  BY DEF NoCall
<1>2. \A o \in Passing : ~ (o < 0)
  BY StreamAssumption
<1> QED
  BY <1>1, <1>2 DEF NoCall, Handed

(* A caller peeks.                                                         *)
LEMMA PullPeekKeeps ==
    ASSUME StreamInv, NEW p \in Callers, PullPeek(p)
    PROVE  StreamInv'
<1>1. /\ low \in Nat /\ high \in Nat
      /\ pull \in [Callers -> [pc : {"idle", "send", "commit"}, batch : SUBSET Passing, next : Nat]]
  BY DEF StreamInv, StreamTypeOK
<1>2. /\ low' = low /\ high' = high /\ engine' = engine /\ exposed' = exposed /\ joined' = joined
      /\ PeekBatchStream /\ pull[p] = NoCall
  BY DEF PullPeek
<1>3. Handed(exposed', low, position', {}) /\ position' \in Nat /\ position' <= high
  BY <1>1, <1>2, PeekMoves
<1>4. CASE Found(ScanEnd) = {}
  <2>1. pull' = [pull EXCEPT ![p] = NoCall]
    BY <1>1, <1>2, <1>4 DEF PullPeek
  <2>2. NoCall.next <= high
    BY <1>1, NoCallHolds
  <2> QED
    BY Zenon, <1>2, <1>3, <2>1, <2>2, NoCallHolds, CallerStepKeeps
<1>5. CASE Found(ScanEnd) # {}
  <2>1. PICK q : q = [pc |-> IF p \in Pullers THEN "commit" ELSE "send",
                      batch |-> Found(ScanEnd), next |-> ScanEnd]
    BY Zenon
  <2>2. pull' = [pull EXCEPT ![p] = q]
    BY <1>5, <2>1 DEF PullPeek
  <2>3. /\ q \in [pc : {"idle", "send", "commit"}, batch : SUBSET Passing, next : Nat]
        /\ Handed(exposed', low, q.next, q.batch) /\ q.next <= high
    BY <1>2, <2>1, PeekFindsAll, ScanEnds DEF StreamInv
  <2> QED
    BY Zenon, <1>2, <1>3, <2>2, <2>3, CallerStepKeeps
<1> QED
  BY <1>4, <1>5

(* A caller of ConsumeQueue sends a record, or its stream is gone.         *)
LEMMA PullSendKeeps ==
    ASSUME StreamInv, NEW p \in Callers, PullSend(p)
    PROVE  StreamInv'
<1>1. /\ low \in Nat /\ high \in Nat
      /\ pull \in [Callers -> [pc : {"idle", "send", "commit"}, batch : SUBSET Passing, next : Nat]]
  BY DEF StreamInv, StreamTypeOK
<1>2. /\ low' = low /\ high' = high /\ engine' = engine /\ joined' = joined
      /\ position' = position
  BY DEF PullSend
<1>3. CASE pull' = [pull EXCEPT ![p] = NoCall] /\ exposed' = exposed
  <2>1. NoCall.next <= high
    BY <1>1, NoCallHolds
  <2>2. Handed(exposed', low, position', {}) /\ position' \in Nat /\ position' <= high
    BY <1>1, <1>2, <1>3, WhatStays
  <2> QED
    BY Zenon, <1>2, <1>3, <2>1, <2>2, NoCallHolds, CallerStepKeeps
<1>4. CASE ~ (pull' = [pull EXCEPT ![p] = NoCall] /\ exposed' = exposed)
  <2>1. PICK o : o = Least(pull[p].batch)
    BY Zenon
  <2>2. PICK s : s = IF Cardinality(pull[p].batch) = 1 THEN "commit" ELSE "send"
    BY Zenon
  <2>3. /\ exposed' = exposed \cup {o}
        /\ pull' = [pull EXCEPT ![p].batch = @ \ {Least(@)}, ![p].pc = s]
    BY <1>4, <2>1, <2>2 DEF PullSend
  <2>4. PICK c \in [pc : {"idle", "send", "commit"}, batch : SUBSET Passing, next : Nat] :
           c = pull[p]
    BY <1>1
  <2>5. PICK q : q = [c EXCEPT !.batch = c.batch \ {o}, !.pc = s]
    BY Zenon
  <2>a. pull' = [pull EXCEPT ![p] = q]
    BY Zenon, <1>1, <2>1, <2>3, <2>4, <2>5
  <2>6. /\ q \in [pc : {"idle", "send", "commit"}, batch : SUBSET Passing, next : Nat]
        /\ q.next = c.next /\ q.batch = c.batch \ {o}
    BY Zenon, <2>2, <2>4, <2>5
  <2>7. Handed(exposed', low, q.next, q.batch) /\ q.next <= high
    BY <2>3, <2>4, <2>6 DEF StreamInv, CallHolds, Handed
  <2>8. Handed(exposed', low, position', {}) /\ position' \in Nat /\ position' <= high
    BY <1>1, <1>2, <2>3, WhatStays
  <2> QED
    BY Zenon, <1>2, <2>3, <2>a, <2>6, <2>7, <2>8, CallerStepKeeps
<1> QED
  BY <1>3, <1>4

(* A caller moves the cursor.                                              *)
LEMMA PullCommitKeeps ==
    ASSUME StreamInv, NEW p \in Callers, PullCommit(p)
    PROVE  StreamInv'
<1>1. low \in Nat /\ high \in Nat
  BY DEF StreamInv, StreamTypeOK
<1>2. /\ low' = low /\ high' = high /\ engine' = engine /\ joined' = joined
      /\ pull' = [pull EXCEPT ![p] = NoCall] /\ exposed \subseteq exposed'
  BY DEF PullCommit
<1>3. Handed(exposed', low, position', {}) /\ position' \in Nat /\ position' <= high
  <2>1. CASE position' = position
    BY <1>1, <1>2, <2>1, WhatStays
  <2>2. CASE UpdateStreamCursor(pull[p].next) /\ exposed' = exposed \cup pull[p].batch
    <3>1. PICK n, B : n = pull[p].next /\ B = pull[p].batch
      BY Zenon
    <3>2. n \in Nat /\ n <= high /\ Handed(exposed, low, n, B)
      BY <3>1 DEF StreamInv, StreamTypeOK, CallHolds
    <3>3. Handed(exposed', low, n, {})
      <4>1. exposed' = exposed \cup B
        BY <2>2, <3>1
      <4> QED
        BY <3>2, <4>1 DEF Handed
    <3> QED
      BY <1>2, <2>2, <3>1, <3>2, <3>3, CursorMoves
  <2> QED
    BY <2>1, <2>2 DEF PullCommit
<1>4. NoCall.next <= high
  BY <1>1, NoCallHolds
<1> QED
  BY Zenon, <1>2, <1>3, <1>4, NoCallHolds, CallerStepKeeps

(* A restart forgets the readers.                                          *)
LEMMA StopAndStartKeeps ==
    ASSUME StreamInv, StopAndStart
    PROVE  StreamInv'
<1>1. low \in Nat /\ high \in Nat /\ low <= high /\ joined \subseteq StreamConsumers
  BY DEF StreamInv, StreamTypeOK
<1>2. /\ low' = low /\ high' = high /\ position' = position /\ exposed' = exposed
      /\ joined' = joined /\ engine' = Waiting /\ pull' = [p \in Callers |-> NoCall]
  BY DEF StopAndStart
<1>3. engine' \in EngineType
  BY <1>2 DEF Waiting, EngineType
<1>4. StreamTypeOK'
  BY <1>1, <1>2, <1>3, NoCallHolds DEF StreamInv, StreamTypeOK
<1>5. EngineHolds'
  BY <1>1, <1>2, StreamAssumption DEF EngineHolds, Waiting, Handed
<1>6. ASSUME NEW p \in Callers PROVE CallHolds(p)'
  <2>1. pull'[p] = NoCall
    BY <1>2
  <2> QED
    BY <1>1, <1>2, <2>1, NoCallHolds DEF CallHolds
<1> QED
  BY <1>2, <1>4, <1>5, <1>6 DEF StreamInv

-----------------------------------------------------------------------------
(* StreamInv holds in every state.                                         *)
THEOREM StreamInvariance == StreamSpec => []StreamInv
<1>1. StreamInit => StreamInv
  <2> SUFFICES ASSUME StreamInit PROVE StreamInv
    OBVIOUS
  <2>1. StreamTypeOK
    <3>1. engine \in EngineType
      BY DEF StreamInit, Waiting, EngineType
    <3> QED
      BY <3>1, NoCallHolds, StreamAssumption DEF StreamInit, StreamTypeOK
  <2>2. EngineHolds /\ Handed(exposed, low, position, {})
    BY StreamAssumption DEF StreamInit, EngineHolds, Waiting, Handed
  <2>3. ASSUME NEW p \in Callers PROVE CallHolds(p)
    <3>1. pull[p] = NoCall /\ high \in Nat
      BY StreamAssumption DEF StreamInit
    <3> QED
      BY <3>1, NoCallHolds DEF CallHolds
  <2> QED
    BY <2>1, <2>2, <2>3 DEF StreamInv
<1>2. StreamInv /\ [StreamNext]_streamVars => StreamInv'
  <2> SUFFICES ASSUME StreamInv, [StreamNext]_streamVars PROVE StreamInv'
    OBVIOUS
  <2>1. CASE UNCHANGED streamVars
    BY <2>1 DEF streamVars, StreamInv, StreamTypeOK, EngineHolds, CallHolds
  <2>2. CASE EngineStep
    BY <2>2, EngineMovesKeep, ConsumeNothingKeeps, ConsumeBatchKeeps, DeliverLocalKeeps,
       RouteRemoteBatchKeeps, CommitStreamCursorKeeps DEF EngineStep
  <2>3. CASE \E p \in Callers : PullPeek(p) \/ PullSend(p) \/ PullCommit(p)
    BY <2>3, PullPeekKeeps, PullSendKeeps, PullCommitKeeps
  <2> QED
    BY <2>1, <2>2, <2>3, BystandersKeep, StopAndStartKeeps DEF StreamNext
<1> QED
  BY <1>1, <1>2, PTL DEF StreamSpec

(* The cursor of an auto-commit group never passes a record of its filter  *)
(* that was handed to nobody and is still in the log (manager.go and       *)
(* delivery_engine.go), whatever the engine and the callers of the pull    *)
(* API interleave, fail and restart.                                       *)
THEOREM StreamSkipsNothing == StreamSpec => []StreamNoSkip
<1>1. StreamInv => StreamNoSkip
  BY DEF StreamInv, StreamNoSkip, Handed
<1> QED
  BY <1>1, StreamInvariance, PTL
=============================================================================
