------------------------- MODULE QueueManagerProofs -------------------------
(***************************************************************************)
(* Theorems about parts of the queue manager: the stored configuration,    *)
(* its contract and the expiry of a queue (QueueRegistry), and the capture *)
(* of publishes into queues (TopicCapture), for every number of publishes, *)
(* lanes and captured queues: a captured publish is written, failed or     *)
(* discarded, and what the workers use outlives them.                      *)
(***************************************************************************)
EXTENDS QueueRegistry, TopicCapture, TLAPS

-----------------------------------------------------------------------------
(* The life of a queue: the inductive invariant.                           *)

OpSteps == {"idle", "create", "resolve", "group", "register", "readMark", "clearMark", "announce",
            "withdraw", "check", "count", "mark", "groups", "delete"}
StoredConfig == [class : Streams \cup {"none", "ephemeral"}, mark : Nat]
RegistryBound == [subscribes : Nat, leaves : Nat, admin : Nat, restarts : Nat, time : Nat,
                  classes : SUBSET (Streams \cup {"ephemeral"})]

RegistryTypeOK ==
    /\ current \in StoredConfig
    /\ contract \in Streams \cup {"none"}
    /\ group \in BOOLEAN
    /\ heartbeat \in [Consumers -> Nat]
    /\ doing \in [Actors -> [pc : OpSteps, copy : StoredConfig]]
    /\ clock \in Nat
    /\ overlapped \in BOOLEAN
    /\ bounds \in RegistryBound

(* Only an ephemeral queue has a disconnect time, in the store and in the  *)
(* copy of a check under way; the copy a subscriber writes back has none.  *)
MarksAreEphemeral ==
    /\ current.mark # 0 => current.class = "ephemeral"
    /\ \A a \in Actors :
          /\ doing[a].pc \in {"count", "mark"} => doing[a].copy.class = "ephemeral"
          /\ doing[a].pc = "clearMark" => doing[a].copy.mark = 0

(* A group that does not exist has no consumers.                           *)
GroupHolds == ~ group => \A c \in Consumers : heartbeat[c] = 0

(* Without overlap one operation is under way at most.                     *)
OneAtATime ==
    ~ overlapped =>
        \A a, b \in Actors : doing[a] # NoOperation /\ doing[b] # NoOperation => a = b

(* Without overlap a queue with a consumer has a disconnect time only      *)
(* while that consumer is about to take it off, and a check that is about  *)
(* to write one has found no consumer.                                     *)
MarkMeansNobody ==
    ~ overlapped =>
        /\ current.mark # 0 /\ (\E c \in Consumers : heartbeat[c] # 0) =>
              \E a \in Actors : doing[a].pc \in {"readMark", "clearMark"}
        /\ \A a \in Actors : doing[a].pc = "mark" => \A c \in Consumers : heartbeat[c] = 0

RegistryInv ==
    RegistryTypeOK /\ ContractHeld /\ MarksAreEphemeral /\ GroupHolds /\ OneAtATime
    /\ MarkMeansNobody

-----------------------------------------------------------------------------
(* How an operation moves on.                                              *)

(* The actors of the steps below.                                          *)
LEMMA ActorsHave == Consumers \subseteq Actors /\ {"engine", "cleanup", "sweep"} \subseteq Actors
  BY DEF Actors

(* Spending a bound leaves it one.                                         *)
LEMMA BoundsLast ==
    ASSUME RegistryTypeOK, NEW w \in {"subscribes", "leaves", "admin", "restarts", "time"},
           SpendBound(w)
    PROVE  bounds' \in RegistryBound
  BY DEF RegistryTypeOK, RegistryBound, SpendBound

(* The step and the copy of the other operations stay.                     *)
LEMMA GotoMoves ==
    ASSUME RegistryTypeOK, NEW a \in Actors, NEW s \in OpSteps, Goto(a, s)
    PROVE  /\ doing' \in [Actors -> [pc : OpSteps, copy : StoredConfig]]
           /\ doing'[a].pc = s /\ doing'[a].copy = doing[a].copy
           /\ \A b \in Actors : b # a => doing'[b] = doing[b]
  BY DEF RegistryTypeOK, Goto

LEMMA KeepMoves ==
    ASSUME RegistryTypeOK, NEW a \in Actors, NEW s \in OpSteps, NEW config \in StoredConfig,
           Keep(a, s, config)
    PROVE  /\ doing' \in [Actors -> [pc : OpSteps, copy : StoredConfig]]
           /\ doing'[a].pc = s /\ doing'[a].copy = config
           /\ \A b \in Actors : b # a => doing'[b] = doing[b]
  BY DEF RegistryTypeOK, Keep

LEMMA EndMoves ==
    ASSUME RegistryTypeOK, NEW a \in Actors, EndOp(a)
    PROVE  /\ doing' \in [Actors -> [pc : OpSteps, copy : StoredConfig]]
           /\ doing'[a] = NoOperation /\ doing'[a].pc = "idle"
           /\ \A b \in Actors : b # a => doing'[b] = doing[b]
  BY DEF RegistryTypeOK, EndOp, NoOperation, StoredConfig, NotStored, QueueConfig, OpSteps

(* A configuration is written only past the contract.                      *)
LEMMA StoreWrites ==
    ASSUME RegistryTypeOK, ContractHeld, NEW config \in StoredConfig,
           CreateInStore(config) \/ StoreUpdate(config), UNCHANGED contract
    PROVE  /\ current' \in StoredConfig /\ ContractHeld'
           /\ current' \in {current, config}
  BY DEF RegistryTypeOK, ContractHeld, CreateInStore, StoreUpdate, ValidateMutation

(* A queue under contract is not deleted.                                  *)
LEMMA StoreDeletes ==
    ASSUME RegistryTypeOK, ContractHeld, DeleteFromStore, UNCHANGED contract
    PROVE  /\ current' \in StoredConfig /\ ContractHeld'
           /\ current' \in {current, NotStored}
  BY DEF RegistryTypeOK, ContractHeld, DeleteFromStore, NotStored, QueueConfig, StoredConfig

-----------------------------------------------------------------------------
(* Every action keeps the invariant.                                       *)

(* Administration: no operation is touched, and what is written has no     *)
(* disconnect time.                                                        *)
LEMMA KeptByAdministration ==
    ASSUME RegistryInv,
           \/ \E class \in bounds.classes : CreateQueue(class) \/ UpdateStoredQueue(class)
           \/ \E class \in bounds.classes \cap Streams : ReplaceContracts(class)
           \/ DeleteStoredQueue \/ NarrowContracts
    PROVE  RegistryInv'
<1>0. RegistryTypeOK /\ ContractHeld
  BY DEF RegistryInv
<1>1. UNCHANGED <<group, heartbeat, doing, clock, overlapped>>
  BY DEF CreateQueue, UpdateStoredQueue, ReplaceContracts, DeleteStoredQueue, NarrowContracts
<1>2. bounds' \in RegistryBound
  BY <1>0, BoundsLast
     DEF CreateQueue, UpdateStoredQueue, ReplaceContracts, DeleteStoredQueue, NarrowContracts
<1>3. /\ current' \in StoredConfig /\ contract' \in Streams \cup {"none"} /\ ContractHeld'
      /\ current' = current \/ current'.mark = 0
  <2>1. ASSUME NEW class \in bounds.classes, CreateQueue(class) \/ UpdateStoredQueue(class)
        PROVE  <1>3!:
    <3>1. QueueConfig(class, 0) \in StoredConfig /\ QueueConfig(class, 0).mark = 0
      BY <1>0 DEF QueueConfig, StoredConfig, RegistryTypeOK, RegistryBound
    <3> QED
      BY <1>0, <2>1, <3>1, StoreWrites DEF CreateQueue, UpdateStoredQueue, RegistryTypeOK
  <2>2. CASE DeleteStoredQueue
    BY <1>0, <2>2, StoreDeletes DEF DeleteStoredQueue, RegistryTypeOK, NotStored, QueueConfig
  <2>3. CASE \E class \in bounds.classes \cap Streams : ReplaceContracts(class)
    BY <1>0, <2>3 DEF ReplaceContracts, RegistryTypeOK, ContractHeld
  <2>4. CASE NarrowContracts
    BY <1>0, <2>4 DEF NarrowContracts, RegistryTypeOK, ContractHeld
  <2> QED
    BY <2>1, <2>2, <2>3, <2>4
<1>4. RegistryTypeOK'
  BY <1>0, <1>1, <1>2, <1>3 DEF RegistryTypeOK
<1>5. MarksAreEphemeral' /\ GroupHolds' /\ OneAtATime' /\ MarkMeansNobody'
  BY <1>1, <1>3 DEF RegistryInv, MarksAreEphemeral, GroupHolds, OneAtATime, MarkMeansNobody
<1> QED
  BY <1>3, <1>4, <1>5 DEF RegistryInv

(* An operation goes on: without overlap every other actor is idle.        *)
LEMMA OperationGoesOn ==
    ASSUME RegistryInv, RegistryTypeOK', ContractHeld', GroupHolds', UNCHANGED overlapped,
           NEW a \in Actors, doing[a] # NoOperation,
           \A b \in Actors : b # a => doing'[b] = doing[b],
           current'.mark # 0 => current'.class = "ephemeral",
           doing'[a].pc \in {"count", "mark"} => doing'[a].copy.class = "ephemeral",
           doing'[a].pc = "clearMark" => doing'[a].copy.mark = 0,
           (~ overlapped /\ current'.mark # 0 /\ \E c \in Consumers : heartbeat'[c] # 0) =>
               doing'[a].pc \in {"readMark", "clearMark"},
           (~ overlapped /\ doing'[a].pc = "mark") => \A c \in Consumers : heartbeat'[c] = 0
    PROVE  RegistryInv'
<1>1. MarksAreEphemeral'
  BY DEF RegistryInv, MarksAreEphemeral
<1>2. OneAtATime'
  BY DEF RegistryInv, OneAtATime
<1>3. ~ overlapped => \A b \in Actors : b # a => doing'[b].pc = "idle"
  BY DEF RegistryInv, OneAtATime, NoOperation
<1>4. MarkMeansNobody'
  BY <1>3 DEF MarkMeansNobody
<1> QED
  BY <1>1, <1>2, <1>4 DEF RegistryInv

(* An operation begins: without overlap nobody else is in one.             *)
LEMMA OperationBegins ==
    ASSUME RegistryInv, RegistryTypeOK', UNCHANGED <<current, contract, group>>,
           NEW a \in Actors, Begin(a),
           \A b \in Actors : b # a => doing'[b] = doing[b],
           doing'[a].pc \notin {"count", "mark", "clearMark"},
           \A c \in Consumers : heartbeat'[c] # 0 => heartbeat[c] # 0
    PROVE  RegistryInv'
<1>1. MarksAreEphemeral'
  BY DEF RegistryInv, MarksAreEphemeral
<1>2. ~ overlapped' => ~ overlapped /\ \A b \in Actors : doing[b] = NoOperation
  BY Zenon DEF Begin, RegistryInv, RegistryTypeOK
<1>3. OneAtATime'
  BY <1>2 DEF OneAtATime
<1>4. GroupHolds' /\ ContractHeld'
  BY DEF RegistryInv, GroupHolds, ContractHeld
<1>5. MarkMeansNobody'
  BY <1>2 DEF RegistryInv, MarkMeansNobody, NoOperation
<1> QED
  BY <1>1, <1>3, <1>4, <1>5 DEF RegistryInv

(* A subscription or a removal that begins.                                *)
LEMMA KeptByBeginning ==
    ASSUME RegistryInv,
           \/ \E c \in Consumers : BeginSubscribe(c) \/ Unsubscribe(c) \/ EngineRemoves(c)
           \/ CleanupStaleConsumers \/ FindExpired
    PROVE  RegistryInv'
<1>0. RegistryTypeOK
  BY DEF RegistryInv
<1>1. \A C \in SUBSET Consumers : /\ Unregistered(C) \in [Consumers -> Nat]
                                  /\ \A c \in Consumers : Unregistered(C)[c] # 0 => heartbeat[c] # 0
  BY <1>0 DEF Unregistered, RegistryTypeOK
<1>2. UNCHANGED <<current, contract, group, clock>>
  BY Zenon DEF BeginSubscribe, Unsubscribe, EngineRemoves, CleanupStaleConsumers, FindExpired
<1>3. bounds' \in RegistryBound
  BY Zenon, <1>0, BoundsLast DEF BeginSubscribe, Unsubscribe, EngineRemoves, CleanupStaleConsumers,
     FindExpired, RegistryTypeOK
<1>4. /\ heartbeat' \in [Consumers -> Nat]
      /\ \A c \in Consumers : heartbeat'[c] # 0 => heartbeat[c] # 0
  <2>1. Stale \in SUBSET Consumers
    BY DEF Stale
  <2>2. heartbeat' = heartbeat \/ \E C \in SUBSET Consumers : heartbeat' = Unregistered(C)
    BY Zenon, <2>1 DEF BeginSubscribe, Unsubscribe, EngineRemoves, CleanupStaleConsumers,
       FindExpired
  <2> QED
    BY <1>0, <1>1, <2>2 DEF RegistryTypeOK
<1>5. \E a \in Actors, s \in {"group", "create", "withdraw", "check", "groups"} :
          Begin(a) /\ Goto(a, s)
  BY Zenon, ActorsHave DEF BeginSubscribe, Unsubscribe, EngineRemoves, CleanupStaleConsumers,
     FindExpired
<1>6. PICK a \in Actors, s \in {"group", "create", "withdraw", "check", "groups"} :
          Begin(a) /\ Goto(a, s)
  BY <1>5
<1>7. /\ doing' \in [Actors -> [pc : OpSteps, copy : StoredConfig]]
      /\ doing'[a].pc = s
      /\ \A b \in Actors : b # a => doing'[b] = doing[b]
  BY <1>0, <1>6, GotoMoves DEF OpSteps
<1>8. overlapped' \in BOOLEAN
  BY <1>6 DEF Begin
<1>9. RegistryTypeOK'
  BY <1>0, <1>2, <1>3, <1>4, <1>7, <1>8 DEF RegistryTypeOK
<1> QED
  BY <1>2, <1>4, <1>6, <1>7, <1>9, OperationBegins

(* Without overlap, an operation at any step but these two finds no        *)
(* disconnect time or no consumer.                                         *)
LEMMA MarkOrConsumer ==
    ASSUME RegistryInv, ~ overlapped, NEW a \in Actors,
           doing[a].pc \notin {"idle", "readMark", "clearMark"}
    PROVE  current.mark = 0 \/ \A c \in Consumers : heartbeat[c] = 0
<1>1. \A b \in Actors : doing[b].pc \notin {"readMark", "clearMark"}
  <2> SUFFICES ASSUME NEW b \in Actors, doing[b].pc \in {"readMark", "clearMark"} PROVE FALSE
    OBVIOUS
  <2>1. doing[a] # NoOperation /\ doing[b] # NoOperation
    BY DEF NoOperation
  <2> QED
    BY <2>1 DEF RegistryInv, OneAtATime
<1> QED
  BY <1>1 DEF RegistryInv, MarkMeansNobody

(* Steps that only move on, write nothing that counts and read no mark.    *)
LEMMA KeptByPassing ==
    ASSUME RegistryInv,
           \/ \E c \in Consumers : \/ Resolve(c) \/ GetOrCreateGroup(c)
                                   \/ TrackSubscription(c) \/ UntrackSubscription(c)
           \/ \E a \in Actors : CheckEphemeralDisconnect(a) \/ QueueHasConsumers(a)
    PROVE  RegistryInv'
<1>0. RegistryTypeOK /\ GroupHolds /\ ContractHeld /\ MarksAreEphemeral
  BY DEF RegistryInv
<1>1. /\ UNCHANGED <<current, contract, heartbeat, clock, overlapped, bounds>>
      /\ group' \in {group, TRUE}
  BY Zenon, <1>0 DEF Resolve, GetOrCreateGroup, TrackSubscription, UntrackSubscription,
     CheckEphemeralDisconnect, QueueHasConsumers, RegistryTypeOK
<1>2. ContractHeld' /\ GroupHolds'
  BY Zenon, <1>0, <1>1 DEF ContractHeld, GroupHolds
<1>3. \E a \in Actors :
          /\ doing[a].pc \in {"resolve", "group", "announce", "withdraw", "check", "count"}
          /\ \/ EndOp(a)
             \/ \E s \in {"group", "register", "check"} : Goto(a, s)
             \/ Keep(a, "count", current) /\ current.class = "ephemeral"
             \/ /\ doing[a].pc = "count" /\ Goto(a, "mark")
                /\ ~ (group /\ \E c \in Consumers : heartbeat[c] # 0)
  <2>1. CASE \E c \in Consumers : \/ Resolve(c) \/ GetOrCreateGroup(c)
                                  \/ TrackSubscription(c) \/ UntrackSubscription(c)
    BY <2>1, ActorsHave
       DEF Resolve, GetOrCreateGroup, TrackSubscription, UntrackSubscription, OpAt
  <2>2. CASE \E a \in Actors : CheckEphemeralDisconnect(a) \/ QueueHasConsumers(a)
    BY <2>2 DEF CheckEphemeralDisconnect, QueueHasConsumers, OpAt
  <2> QED
    BY <2>1, <2>2
<1>4. PICK a \in Actors :
          /\ doing[a].pc \in {"resolve", "group", "announce", "withdraw", "check", "count"}
          /\ \/ EndOp(a)
             \/ \E s \in {"group", "register", "check"} : Goto(a, s)
             \/ Keep(a, "count", current) /\ current.class = "ephemeral"
             \/ /\ doing[a].pc = "count" /\ Goto(a, "mark")
                /\ ~ (group /\ \E c \in Consumers : heartbeat[c] # 0)
  BY <1>3
<1>5. /\ doing' \in [Actors -> [pc : OpSteps, copy : StoredConfig]]
      /\ \A b \in Actors : b # a => doing'[b] = doing[b]
      /\ doing'[a].pc \in {"count", "mark"} => doing'[a].copy.class = "ephemeral"
      /\ doing'[a].pc \notin {"clearMark", "readMark"}
      /\ doing'[a].pc = "mark" => \A c \in Consumers : heartbeat[c] = 0
  <2>1. CASE EndOp(a)
    BY <1>0, <2>1, EndMoves
  <2>2. CASE \E s \in {"group", "register", "check"} : Goto(a, s)
    BY <1>0, <2>2, GotoMoves DEF OpSteps
  <2>3. CASE Keep(a, "count", current) /\ current.class = "ephemeral"
    BY <1>0, <2>3, KeepMoves DEF OpSteps, RegistryTypeOK
  <2>4. CASE /\ doing[a].pc = "count" /\ Goto(a, "mark")
             /\ ~ (group /\ \E c \in Consumers : heartbeat[c] # 0)
    <3>1. \A c \in Consumers : heartbeat[c] = 0
      BY Zenon, <1>0, <2>4 DEF GroupHolds
    <3> QED
      BY <1>0, <2>4, <3>1, GotoMoves DEF OpSteps, MarksAreEphemeral
  <2> QED
    BY <1>4, <2>1, <2>2, <2>3, <2>4
<1>6. RegistryTypeOK'
  BY Zenon, <1>0, <1>1, <1>5 DEF RegistryTypeOK
<1>7. doing[a] # NoOperation /\ doing[a].pc \notin {"idle", "readMark", "clearMark"}
  BY <1>4 DEF NoOperation
<1>8. ~ overlapped => current'.mark = 0 \/ \A c \in Consumers : heartbeat'[c] = 0
  BY <1>1, <1>7, MarkOrConsumer
<1>9. current'.mark # 0 => current'.class = "ephemeral"
  BY <1>0, <1>1 DEF MarksAreEphemeral
<1> QED
  BY <1>1, <1>2, <1>5, <1>6, <1>7, <1>8, <1>9, OperationGoesOn

(* GetOrCreateQueue writes a configuration without a disconnect time.      *)
LEMMA KeptByAutoCreate ==
    ASSUME RegistryInv, NEW c \in Consumers, AutoCreate(c)
    PROVE  RegistryInv'
<1>0. RegistryTypeOK /\ GroupHolds /\ ContractHeld /\ MarksAreEphemeral /\ c \in Actors
  BY ActorsHave DEF RegistryInv
<1>1. UNCHANGED <<contract, group, heartbeat, clock, overlapped, bounds>>
  BY DEF AutoCreate
<1>2. /\ DefaultEphemeralQueueConfig \in StoredConfig
      /\ DefaultEphemeralQueueConfig.mark = 0
  BY DEF DefaultEphemeralQueueConfig, QueueConfig, StoredConfig
<1>3. current' \in StoredConfig /\ ContractHeld' /\ (current' = current \/ current'.mark = 0)
  BY <1>0, <1>1, <1>2, StoreWrites DEF AutoCreate
<1>4. /\ doing' \in [Actors -> [pc : OpSteps, copy : StoredConfig]]
      /\ \A b \in Actors : b # c => doing'[b] = doing[b]
      /\ doing'[c].pc \in {"resolve", "idle"}
  BY <1>0, GotoMoves, EndMoves DEF AutoCreate, OpSteps
<1>5. RegistryTypeOK' /\ GroupHolds'
  BY <1>0, <1>1, <1>3, <1>4 DEF RegistryTypeOK, GroupHolds
<1>6. doing[c] # NoOperation /\ doing[c].pc \notin {"idle", "readMark", "clearMark"}
  BY DEF AutoCreate, OpAt, NoOperation
<1>7. ~ overlapped => current'.mark = 0 \/ \A d \in Consumers : heartbeat'[d] = 0
  BY <1>0, <1>1, <1>3, <1>6, MarkOrConsumer
<1>8. current'.mark # 0 => current'.class = "ephemeral"
  BY <1>0, <1>3 DEF MarksAreEphemeral
<1> QED
  BY <1>0, <1>1, <1>3, <1>4, <1>5, <1>6, <1>7, <1>8, OperationGoesOn

(* A consumer registers, and goes on to look at the disconnect time.       *)
LEMMA KeptByRegister ==
    ASSUME RegistryInv, NEW c \in Consumers, RegisterConsumer(c)
    PROVE  RegistryInv'
<1>0. RegistryTypeOK /\ GroupHolds /\ ContractHeld /\ MarksAreEphemeral /\ c \in Actors
  BY ActorsHave DEF RegistryInv
<1>1. UNCHANGED <<current, contract, group, clock, overlapped, bounds>>
  BY DEF RegisterConsumer
<1>2. /\ heartbeat' \in [Consumers -> Nat]
      /\ heartbeat' = heartbeat \/ group
  BY <1>0 DEF RegisterConsumer, RegistryTypeOK
<1>3. /\ doing' \in [Actors -> [pc : OpSteps, copy : StoredConfig]]
      /\ \A b \in Actors : b # c => doing'[b] = doing[b]
      /\ doing'[c].pc = "readMark" \/ (doing'[c].pc = "idle" /\ heartbeat' = heartbeat)
  BY <1>0, GotoMoves, EndMoves DEF RegisterConsumer, OpSteps
<1>4. RegistryTypeOK' /\ GroupHolds' /\ ContractHeld'
  BY <1>0, <1>1, <1>2, <1>3 DEF RegistryTypeOK, GroupHolds, ContractHeld
<1>5. doing[c] # NoOperation /\ doing[c].pc \notin {"idle", "readMark", "clearMark"}
  BY DEF RegisterConsumer, OpAt, NoOperation
<1>6. ~ overlapped => current.mark = 0 \/ \A d \in Consumers : heartbeat[d] = 0
  BY <1>0, <1>5, MarkOrConsumer
<1>7. current'.mark # 0 => current'.class = "ephemeral"
  BY <1>0, <1>1 DEF MarksAreEphemeral
<1> QED
  BY <1>0, <1>1, <1>3, <1>4, <1>5, <1>6, <1>7, OperationGoesOn

(* clearEphemeralDisconnect reads: there is nothing to take off, or it     *)
(* will be taken off.                                                      *)
LEMMA KeptByReadMark ==
    ASSUME RegistryInv, NEW c \in Consumers, ClearEphemeralDisconnect(c)
    PROVE  RegistryInv'
<1>0. RegistryTypeOK /\ GroupHolds /\ ContractHeld /\ MarksAreEphemeral /\ c \in Actors
  BY ActorsHave DEF RegistryInv
<1>1. UNCHANGED <<current, contract, group, heartbeat, clock, overlapped, bounds>>
  BY DEF ClearEphemeralDisconnect
<1>2. /\ [current EXCEPT !.mark = 0] \in StoredConfig
      /\ [current EXCEPT !.mark = 0].mark = 0
  BY <1>0 DEF RegistryTypeOK, StoredConfig
<1>3. /\ doing' \in [Actors -> [pc : OpSteps, copy : StoredConfig]]
      /\ \A b \in Actors : b # c => doing'[b] = doing[b]
      /\ \/ doing'[c].pc = "clearMark" /\ doing'[c].copy.mark = 0
         \/ doing'[c].pc = "announce" /\ ~ (current.class = "ephemeral" /\ current.mark # 0)
  <2>1. CASE current.class = "ephemeral" /\ current.mark # 0
    BY Zenon, <1>0, <1>2, <2>1, KeepMoves DEF ClearEphemeralDisconnect, OpSteps
  <2>2. CASE ~ (current.class = "ephemeral" /\ current.mark # 0)
    BY <1>0, <2>2, GotoMoves DEF ClearEphemeralDisconnect, OpSteps
  <2> QED
    BY <2>1, <2>2
<1>4. RegistryTypeOK' /\ GroupHolds' /\ ContractHeld'
  BY <1>0, <1>1, <1>3 DEF RegistryTypeOK, GroupHolds, ContractHeld
<1>5. doing[c] # NoOperation
  BY DEF ClearEphemeralDisconnect, OpAt, NoOperation
<1>6. current'.mark # 0 => current'.class = "ephemeral"
  BY <1>0, <1>1 DEF MarksAreEphemeral
<1> QED
  BY <1>0, <1>1, <1>3, <1>4, <1>5, <1>6, OperationGoesOn

(* It writes: the write is refused only when a contract for another class  *)
(* is in force, and then the stored queue has no disconnect time.          *)
LEMMA KeptByWriteCleared ==
    ASSUME RegistryInv, NEW c \in Consumers, WriteCleared(c)
    PROVE  RegistryInv'
<1>0. RegistryTypeOK /\ GroupHolds /\ ContractHeld /\ MarksAreEphemeral /\ c \in Actors
  BY ActorsHave DEF RegistryInv
<1>1. UNCHANGED <<contract, group, heartbeat, clock, overlapped, bounds>>
  BY DEF WriteCleared
<1>2. doing[c].copy \in StoredConfig /\ doing[c].copy.mark = 0 /\ doing[c] # NoOperation
  BY <1>0 DEF WriteCleared, OpAt, MarksAreEphemeral, RegistryTypeOK, NoOperation
<1>3. current' \in StoredConfig /\ ContractHeld' /\ current'.mark = 0
  <2>1. current' \in StoredConfig /\ ContractHeld'
    BY <1>0, <1>1, <1>2, StoreWrites DEF WriteCleared
  <2> DEFINE written == ValidateMutation(doing[c].copy) /\ Exists
  <2>2. current' = IF written THEN doing[c].copy ELSE current
    BY DEF WriteCleared, StoreUpdate
  <2>3. CASE written
    BY <1>2, <2>1, <2>2, <2>3
  <2>4. CASE ~ Exists
    <3>1. current.mark = 0
      BY <2>4 DEF Exists, NotStored, QueueConfig
    <3> QED
      BY <2>1, <2>2, <2>4, <3>1
  <2>5. CASE ~ ValidateMutation(doing[c].copy)
    <3>1. contract \in Streams /\ current.class = contract
      BY <1>0, <2>5 DEF ValidateMutation, ContractHeld, RegistryTypeOK
    <3>2. current.mark = 0
      BY <1>0, <3>1 DEF MarksAreEphemeral, Streams
    <3> QED
      BY <2>1, <2>2, <2>5, <3>2
  <2> QED
    BY <2>1, <2>3, <2>4, <2>5
<1>4. /\ doing' \in [Actors -> [pc : OpSteps, copy : StoredConfig]]
      /\ \A b \in Actors : b # c => doing'[b] = doing[b]
      /\ doing'[c].pc = "announce"
  BY <1>0, GotoMoves DEF WriteCleared, OpSteps
<1>5. RegistryTypeOK' /\ GroupHolds'
  BY <1>0, <1>1, <1>3, <1>4 DEF RegistryTypeOK, GroupHolds
<1> QED
  BY <1>0, <1>1, <1>2, <1>3, <1>4, <1>5, OperationGoesOn

(* checkEphemeralDisconnect writes the time of a queue without consumers.  *)
LEMMA KeptByWriteMark ==
    ASSUME RegistryInv, NEW a \in Actors, WriteMark(a)
    PROVE  RegistryInv'
<1>0. RegistryTypeOK /\ GroupHolds /\ ContractHeld /\ MarksAreEphemeral
  BY DEF RegistryInv
<1>1. UNCHANGED <<contract, group, heartbeat, clock, overlapped, bounds>>
  BY DEF WriteMark
<1> DEFINE marked == [doing[a].copy EXCEPT !.mark = clock]
<1>2. doing[a].copy.class = "ephemeral" /\ doing[a] # NoOperation
  BY <1>0 DEF WriteMark, OpAt, MarksAreEphemeral, NoOperation
<1>3. marked \in StoredConfig /\ marked.class = "ephemeral"
  BY <1>0, <1>2 DEF RegistryTypeOK, StoredConfig
<1>4. StoreUpdate(marked)
  BY DEF WriteMark
<1>5. current' \in StoredConfig /\ ContractHeld' /\ current' \in {current, marked}
  BY <1>0, <1>1, <1>3, <1>4, StoreWrites
<1>6. current'.mark # 0 => current'.class = "ephemeral"
  BY Zenon, <1>0, <1>3, <1>5 DEF MarksAreEphemeral
<1>7. /\ doing' \in [Actors -> [pc : OpSteps, copy : StoredConfig]]
      /\ \A b \in Actors : b # a => doing'[b] = doing[b]
      /\ doing'[a].pc = "idle"
  BY <1>0, EndMoves DEF WriteMark
<1>8. RegistryTypeOK' /\ GroupHolds'
  BY <1>0, <1>1, <1>5, <1>7 DEF RegistryTypeOK, GroupHolds
<1>9. ~ overlapped => \A c \in Consumers : heartbeat'[c] = 0
  BY <1>1 DEF RegistryInv, MarkMeansNobody, WriteMark, OpAt
<1> QED
  BY <1>1, <1>2, <1>5, <1>6, <1>7, <1>8, <1>9, OperationGoesOn

(* The sweep removes the consumers before the queue.                       *)
LEMMA KeptBySweep ==
    ASSUME RegistryInv, DeleteGroups \/ DeleteExpired
    PROVE  RegistryInv'
<1>0. RegistryTypeOK /\ GroupHolds /\ ContractHeld /\ MarksAreEphemeral /\ "sweep" \in Actors
  BY ActorsHave DEF RegistryInv
<1>1. UNCHANGED <<contract, clock, overlapped, bounds>>
  BY DEF DeleteGroups, DeleteExpired
<1>2. /\ doing' \in [Actors -> [pc : OpSteps, copy : StoredConfig]]
      /\ \A b \in Actors : b # "sweep" => doing'[b] = doing[b]
      /\ doing'["sweep"].pc \in {"delete", "idle"}
  BY <1>0, GotoMoves, EndMoves DEF DeleteGroups, DeleteExpired, OpSteps
<1>3. /\ heartbeat' \in [Consumers -> Nat] /\ group' \in BOOLEAN
      /\ heartbeat' = heartbeat \/ \A c \in Consumers : heartbeat'[c] = 0
      /\ GroupHolds'
  <2>1. CASE DeleteGroups
    <3>1. heartbeat' = [c \in Consumers |-> 0] /\ group' = FALSE
      BY <2>1 DEF DeleteGroups, Unregistered
    <3> QED
      BY Zenon, <3>1 DEF GroupHolds
  <2>2. CASE DeleteExpired
    BY <1>0, <2>2 DEF DeleteExpired, RegistryTypeOK, GroupHolds
  <2> QED
    BY <2>1, <2>2
<1>4. current' \in StoredConfig /\ ContractHeld' /\ (current' = current \/ current'.mark = 0)
  <2>1. CASE DeleteGroups
    BY <1>0, <1>1, <2>1 DEF DeleteGroups, RegistryTypeOK, ContractHeld
  <2>2. CASE DeleteExpired
    BY <1>0, <1>1, <2>2, StoreDeletes DEF DeleteExpired, NotStored, QueueConfig
  <2> QED
    BY <2>1, <2>2
<1>5. RegistryTypeOK'
  BY <1>0, <1>1, <1>2, <1>3, <1>4 DEF RegistryTypeOK
<1>6. /\ doing["sweep"] # NoOperation
      /\ doing["sweep"].pc \notin {"idle", "readMark", "clearMark"}
  BY DEF DeleteGroups, DeleteExpired, OpAt, NoOperation
<1>7. ~ overlapped => current.mark = 0 \/ \A c \in Consumers : heartbeat[c] = 0
  BY <1>0, <1>6, MarkOrConsumer
<1>8. current'.mark # 0 => current'.class = "ephemeral"
  BY <1>0, <1>4 DEF MarksAreEphemeral
<1> QED
  BY <1>0, <1>1, <1>2, <1>3, <1>4, <1>5, <1>6, <1>7, <1>8, OperationGoesOn

(* Heartbeats and time touch no operation, and register nobody.            *)
LEMMA KeptByTime ==
    ASSUME RegistryInv,
           \/ \E c \in Consumers : LoseClient(c) \/ UpdateHeartbeat(c)
           \/ TouchLiveConsumerHeartbeats \/ PruneStaleSubscriptions \/ Tick
    PROVE  RegistryInv'
<1>0. RegistryTypeOK
  BY DEF RegistryInv
<1>1. UNCHANGED <<current, contract, group, doing, overlapped>>
  BY DEF LoseClient, UpdateHeartbeat, TouchLiveConsumerHeartbeats, PruneStaleSubscriptions, Tick
<1>2. bounds' \in RegistryBound /\ clock' \in Nat
  BY <1>0, BoundsLast DEF LoseClient, UpdateHeartbeat, TouchLiveConsumerHeartbeats,
     PruneStaleSubscriptions, Tick, RegistryTypeOK
<1>3. /\ heartbeat' \in [Consumers -> Nat]
      /\ \A c \in Consumers : heartbeat'[c] # 0 => heartbeat[c] # 0
  BY <1>0 DEF LoseClient, UpdateHeartbeat, TouchLiveConsumerHeartbeats, PruneStaleSubscriptions,
     Tick, RegistryTypeOK
<1>4. RegistryTypeOK'
  BY <1>0, <1>1, <1>2, <1>3 DEF RegistryTypeOK
<1>5. ContractHeld' /\ MarksAreEphemeral' /\ GroupHolds' /\ OneAtATime' /\ MarkMeansNobody'
  BY <1>1, <1>3 DEF RegistryInv, ContractHeld, MarksAreEphemeral, GroupHolds, OneAtATime,
     MarkMeansNobody
<1> QED
  BY <1>4, <1>5 DEF RegistryInv

(* A restart puts a contract in force only for the queue that is stored,   *)
(* and counts as an overlap when it cuts an operation short.               *)
LEMMA KeptByRestart ==
    ASSUME RegistryInv, Restart
    PROVE  RegistryInv'
<1>0. RegistryTypeOK
  BY DEF RegistryInv
<1>1. /\ UNCHANGED <<current, group, heartbeat, clock>>
      /\ doing' = [a \in Actors |-> NoOperation]
      /\ overlapped' = (overlapped \/ \E b \in Actors : doing[b] # NoOperation)
      /\ contract' \in {"none"} \cup ({current.class} \cap Streams)
  BY DEF Restart
<1>2. NoOperation \in [pc : OpSteps, copy : StoredConfig] /\ NoOperation.pc = "idle"
  BY DEF NoOperation, OpSteps, StoredConfig, NotStored, QueueConfig
<1>3. RegistryTypeOK'
  BY <1>0, <1>1, <1>2, BoundsLast DEF Restart, RegistryTypeOK
<1>4. ContractHeld' /\ MarksAreEphemeral' /\ GroupHolds' /\ OneAtATime'
  BY <1>1, <1>2 DEF RegistryInv, ContractHeld, MarksAreEphemeral, GroupHolds, OneAtATime
<1>5. ~ overlapped' => ~ overlapped /\ \A b \in Actors : doing[b] = NoOperation
  BY Zenon, <1>0, <1>1 DEF RegistryTypeOK
<1>6. MarkMeansNobody'
  BY <1>1, <1>2, <1>5 DEF RegistryInv, MarkMeansNobody
<1> QED
  BY <1>3, <1>4, <1>6 DEF RegistryInv

(* No step leaves the invariant.                                           *)
LEMMA RegistryStep ==
    ASSUME RegistryInv, [RegistryNext]_registryVars
    PROVE  RegistryInv'
<1>1. CASE UNCHANGED registryVars
  BY <1>1 DEF RegistryInv, RegistryTypeOK, ContractHeld, MarksAreEphemeral, GroupHolds, OneAtATime,
     MarkMeansNobody, registryVars
<1>2. CASE \E c \in Consumers :
              \/ BeginSubscribe(c) \/ AutoCreate(c) \/ Resolve(c)
              \/ GetOrCreateGroup(c) \/ RegisterConsumer(c) \/ ClearEphemeralDisconnect(c)
              \/ WriteCleared(c) \/ TrackSubscription(c)
              \/ Unsubscribe(c) \/ UntrackSubscription(c) \/ LoseClient(c) \/ EngineRemoves(c)
              \/ UpdateHeartbeat(c)
  BY <1>2, KeptByBeginning, KeptByPassing, KeptByAutoCreate, KeptByRegister, KeptByReadMark,
     KeptByWriteCleared, KeptByTime
<1>3. CASE \E a \in Actors :
              CheckEphemeralDisconnect(a) \/ QueueHasConsumers(a) \/ WriteMark(a)
  BY <1>3, KeptByPassing, KeptByWriteMark
<1> QED
  BY <1>1, <1>2, <1>3, KeptByAdministration, KeptByBeginning, KeptByTime, KeptBySweep,
     KeptByRestart DEF RegistryNext

(* The invariant holds in every reachable state.                           *)
THEOREM RegistryInvariance == RegistrySpec => []RegistryInv
<1>1. ASSUME RegistryInit PROVE RegistryInv
  <2>1. /\ NotStored \in StoredConfig /\ NotStored.mark = 0
        /\ NoOperation \in [pc : OpSteps, copy : StoredConfig] /\ NoOperation.pc = "idle"
    BY DEF NoOperation, OpSteps, StoredConfig, NotStored, QueueConfig
  <2>2. RegistryTypeOK
    BY Zenon, <1>1, <2>1, RegistryAssumption DEF RegistryInit, RegistryTypeOK, RegistryBound
  <2>3. ContractHeld /\ MarksAreEphemeral /\ GroupHolds /\ OneAtATime /\ MarkMeansNobody
    BY <1>1, <2>1 DEF RegistryInit, ContractHeld, MarksAreEphemeral, GroupHolds, OneAtATime,
       MarkMeansNobody
  <2> QED
    BY <2>2, <2>3 DEF RegistryInv
<1> QED
  BY <1>1, RegistryStep, PTL DEF RegistrySpec

(* No creation, update, deletion, expiry or late write gets past a         *)
(* contract (validateMutationLocked), for any number of consumers.         *)
THEOREM ContractsHold == RegistrySpec => []ContractHeld
<1>1. RegistryInv => ContractHeld
  BY DEF RegistryInv
<1> QED
  BY <1>1, RegistryInvariance, PTL

(* cleanupEphemeralQueues deletes no queue with a consumer, unless two     *)
(* operations overlapped or a restart cut one short.                       *)
THEOREM ExpiryFindsNobody == RegistrySpec => []ExpiresWithoutConsumers
<1>1. RegistryInv => ExpiresWithoutConsumers
  <2> SUFFICES ASSUME RegistryInv, ~ overlapped, Expired(current),
                      \A a \in Actors : doing[a] = NoOperation
               PROVE  \A c \in Consumers : heartbeat[c] = 0
    BY Zenon DEF ExpiresWithoutConsumers
  <2>1. current.mark # 0
    BY DEF Expired
  <2>2. \A a \in Actors : doing[a].pc = "idle"
    BY DEF NoOperation
  <2> QED
    BY Zenon, <2>1, <2>2 DEF RegistryInv, MarkMeansNobody
<1> QED
  BY <1>1, RegistryInvariance, PTL

-----------------------------------------------------------------------------
(* Capture of publishes: the inductive invariant.                          *)

(* Every job there can be.                                                 *)
CaptureJobs == {Job(p, t) : p \in 1..Publishes, t \in CaptureTargets}

CaptureTypeOK ==
    /\ publisher \in [1..Publishes -> [pc : {"idle", "next", "send", "refused"},
                                       jobs : SUBSET CaptureJobs]]
    /\ accepting \subseteq 1..Publishes
    /\ closed \in BOOLEAN
    /\ lanes \in [Lanes -> Seq(CaptureJobs)]
    /\ worker \in [Lanes -> [pc : {"run", "apply", "drain", "drainApply", "gone"},
                             job : CaptureJobs \cup {Job(0, "peers")}]]
    /\ stopper \in {"running", "closing", "waiting", "quiesced", "timedOut", "complete",
                    "stillRunning", "exited"}
    /\ resources \in {"open", "closed"}
    /\ logged \in [CapturedQueues -> Seq(1..Publishes)]

(* A job is with the publish it is part of, in its lane, and in the hands  *)
(* of the worker of that lane.                                             *)
JobsPlaced ==
    /\ \A p \in 1..Publishes :
          /\ \A j \in publisher[p].jobs : j.publish = p
          /\ publisher[p].pc \in {"send", "refused"} => publisher[p].jobs # {}
    /\ \A l \in Lanes :
          /\ \A j \in Range(lanes[l]) : LaneFor(j) = l
          /\ Working(l) => worker[l].job \in CaptureJobs /\ LaneFor(worker[l].job) = l

WithPublisher(j) ==
    publisher[j.publish].pc = "idle" \/ j \in publisher[j.publish].jobs
InLane(j) == j \in Range(lanes[LaneFor(j)])
InHand(j) == Working(LaneFor(j)) /\ worker[LaneFor(j)].job = j
Written(j) == j.target # "peers" /\ j.publish \in Range(logged[j.target])

(* A job is in one place, once.                                            *)
InOnePlace ==
    /\ \A j \in CaptureJobs :
          /\ WithPublisher(j) => ~ InLane(j) /\ ~ InHand(j) /\ ~ Written(j)
          /\ InLane(j) => ~ InHand(j) /\ ~ Written(j)
          /\ InHand(j) => ~ Written(j)
    /\ \A l \in Lanes : IsInjective(lanes[l])
    /\ \A q \in CapturedQueues : IsInjective(logged[q])

(* No job for a queue goes without a trace.                                *)
JobsKept ==
    \A j \in CaptureJobs : j.target # "peers" =>
        WithPublisher(j) \/ InLane(j) \/ InHand(j) \/ Written(j) \/ j \in discarded \cup failed

(* Whoever is about to send holds closedMu, so that nothing is sent once   *)
(* the dispatcher is closed.                                               *)
NoSendAfterClose ==
    /\ \A p \in 1..Publishes : publisher[p].pc = "send" => p \in accepting
    /\ stopper # "running" => closed /\ \A p \in 1..Publishes : publisher[p].pc # "send"
    /\ stopper \in {"complete", "stillRunning", "exited"} => \A l \in Lanes : lanes[l] = <<>>

(* Stop reports success, and resources are released, with no worker left.  *)
WorkersGone ==
    stopper \in {"quiesced", "complete"} \/ resources = "closed" =>
        \A l \in Lanes : worker[l].pc = "gone"

CaptureInv ==
    CaptureTypeOK /\ JobsPlaced /\ InOnePlace /\ JobsKept /\ NoSendAfterClose /\ WorkersGone

-----------------------------------------------------------------------------
(* Sequences without repetition.                                           *)

(* What appending an element does.                                         *)
LEMMA AppendExtends ==
    ASSUME NEW S, NEW s \in Seq(S), NEW x \in S
    PROVE  /\ Append(s, x) \in Seq(S)
           /\ Range(Append(s, x)) = Range(s) \cup {x}
           /\ IsInjective(s) /\ x \notin Range(s) => IsInjective(Append(s, x))
<1>1. /\ Append(s, x) \in Seq(S) /\ DOMAIN s = 1..Len(s) /\ Len(s) \in Nat
      /\ DOMAIN Append(s, x) = 1..(Len(s) + 1)
      /\ \A i \in 1..Len(s) : Append(s, x)[i] = s[i]
      /\ Append(s, x)[Len(s) + 1] = x
  OBVIOUS
<1>2. \A i \in 1..(Len(s) + 1) : i \in 1..Len(s) \/ i = Len(s) + 1
  BY <1>1
<1>3. Range(Append(s, x)) = Range(s) \cup {x}
  BY <1>1, <1>2 DEF Range
<1>4. IsInjective(s) /\ x \notin Range(s) => IsInjective(Append(s, x))
  BY <1>1, <1>2 DEF Range, IsInjective
<1> QED
  BY <1>1, <1>3, <1>4

(* What taking the first element does.                                     *)
LEMMA HeadAndTail ==
    ASSUME NEW S, NEW s \in Seq(S), s # <<>>
    PROVE  /\ Head(s) \in S /\ Tail(s) \in Seq(S)
           /\ Range(s) = {Head(s)} \cup Range(Tail(s))
           /\ IsInjective(s) => IsInjective(Tail(s)) /\ Head(s) \notin Range(Tail(s))
<1>1. /\ Head(s) \in S /\ Tail(s) \in Seq(S) /\ Head(s) = s[1]
      /\ Len(s) \in Nat /\ Len(s) > 0 /\ DOMAIN s = 1..Len(s)
      /\ DOMAIN Tail(s) = 1..(Len(s) - 1)
      /\ \A i \in 1..(Len(s) - 1) : Tail(s)[i] = s[i + 1]
  OBVIOUS
<1>2. /\ \A i \in 1..Len(s) : i = 1 \/ (i - 1 \in 1..(Len(s) - 1) /\ (i - 1) + 1 = i)
      /\ \A i \in 1..(Len(s) - 1) : i + 1 \in 1..Len(s) /\ i + 1 # 1
      /\ \A i, j \in 1..(Len(s) - 1) : i + 1 = j + 1 => i = j
      /\ 1 \in 1..Len(s)
  BY <1>1
<1>3. Range(s) = {Head(s)} \cup Range(Tail(s))
  <2>1. ASSUME NEW x \in Range(s) PROVE x \in {Head(s)} \cup Range(Tail(s))
    <3>1. PICK i \in 1..Len(s) : x = s[i]
      BY <1>1, <2>1 DEF Range
    <3>2. CASE i # 1
      <4>1. i - 1 \in DOMAIN Tail(s) /\ x = Tail(s)[i - 1]
        BY <1>1, <1>2, <3>1, <3>2
      <4> QED
        BY Zenon, <4>1 DEF Range
    <3> QED
      BY <1>1, <3>1, <3>2
  <2>2. {Head(s)} \cup Range(Tail(s)) \subseteq Range(s)
    BY <1>1, <1>2 DEF Range
  <2> QED
    BY <2>1, <2>2
<1>4. IsInjective(s) => IsInjective(Tail(s)) /\ Head(s) \notin Range(Tail(s))
  BY <1>1, <1>2 DEF Range, IsInjective
<1> QED
  BY <1>1, <1>3, <1>4

(* Jobs are equal when their publish and target are; each has its lane.    *)
LEMMA JobFields ==
    /\ \A j \in CaptureJobs : /\ j.publish \in 1..Publishes /\ j.target \in CaptureTargets
                              /\ j = Job(j.publish, j.target)
                              /\ LaneFor(j) \in Lanes
    /\ \A p \in 1..Publishes, t \in CaptureTargets :
          /\ Job(p, t) \in CaptureJobs /\ Job(p, t).publish = p /\ Job(p, t).target = t
<1>1. \A p, t : Job(p, t).publish = p /\ Job(p, t).target = t
  BY DEF Job
<1>2. \A t \in CaptureTargets, p \in 1..Publishes : LaneFor(Job(p, t)) \in Lanes
  BY <1>1 DEF CaptureTargets, LaneFor, Lanes
<1> QED
  BY <1>1, <1>2 DEF CaptureJobs

(* The job a publish hands over next is one of those it has.               *)
LEMMA NextJobIsOne ==
    ASSUME CaptureTypeOK, JobsPlaced, NEW p \in 1..Publishes, publisher[p].jobs # {}
    PROVE  NextJob(p) \in publisher[p].jobs /\ NextJob(p) \in CaptureJobs
<1>1. publisher[p].jobs \subseteq CaptureJobs
  BY DEF CaptureTypeOK
<1>2. \E j \in publisher[p].jobs : j.target = "peers" => publisher[p].jobs = {j}
  <2>1. CASE \E j \in publisher[p].jobs : j.target # "peers"
    BY <2>1
  <2>2. CASE \A j \in publisher[p].jobs : j.target = "peers"
    <3>1. \A j \in publisher[p].jobs : j = Job(p, "peers")
      BY <1>1, <2>2, JobFields DEF JobsPlaced
    <3> QED
      BY <3>1
  <2> QED
    BY <2>1, <2>2
<1> QED
  BY <1>1, <1>2 DEF NextJob

(* The first job leaves its lane.                                          *)
LEMMA LaneShrinks ==
    ASSUME CaptureInv, NEW l \in Lanes, lanes[l] # <<>>,
           lanes' = [lanes EXCEPT ![l] = Tail(@)]
    PROVE  /\ lanes' \in [Lanes -> Seq(CaptureJobs)]
           /\ Head(lanes[l]) \in CaptureJobs /\ LaneFor(Head(lanes[l])) = l
           /\ InLane(Head(lanes[l]))
           /\ \A k \in Lanes : IsInjective(lanes'[k]) /\ Range(lanes'[k]) \subseteq Range(lanes[k])
           /\ \A j \in CaptureJobs : InLane(j)' <=> InLane(j) /\ j # Head(lanes[l])
           /\ \A k \in Lanes : lanes[k] = <<>> => lanes'[k] = <<>>
<1>1. /\ lanes[l] \in Seq(CaptureJobs) /\ IsInjective(lanes[l])
      /\ lanes' \in [Lanes -> Seq(CaptureJobs)]
  BY DEF CaptureInv, CaptureTypeOK, InOnePlace
<1>2. /\ Head(lanes[l]) \in CaptureJobs
      /\ Range(lanes[l]) = {Head(lanes[l])} \cup Range(Tail(lanes[l]))
      /\ IsInjective(Tail(lanes[l])) /\ Head(lanes[l]) \notin Range(Tail(lanes[l]))
  BY <1>1, HeadAndTail
<1>3. lanes'[l] = Tail(lanes[l]) /\ \A k \in Lanes : k # l => lanes'[k] = lanes[k]
  BY DEF CaptureInv, CaptureTypeOK
<1>4. LaneFor(Head(lanes[l])) = l /\ InLane(Head(lanes[l]))
  BY <1>2 DEF CaptureInv, JobsPlaced, InLane
<1>5. \A k \in Lanes : IsInjective(lanes'[k]) /\ Range(lanes'[k]) \subseteq Range(lanes[k])
  BY <1>2, <1>3 DEF CaptureInv, InOnePlace
<1>6. \A j \in CaptureJobs : InLane(j)' <=> InLane(j) /\ j # Head(lanes[l])
  BY <1>2, <1>3, <1>4, JobFields DEF InLane, LaneFor
<1> QED
  BY <1>1, <1>2, <1>3, <1>4, <1>5, <1>6

(* A publish is left with the jobs J.                                      *)
LEMMA PublisherMoves ==
    ASSUME CaptureTypeOK, JobsPlaced, NEW p \in 1..Publishes, NEW J \in SUBSET CaptureJobs,
           \A j \in J : j.publish = p,
           publisher' = [publisher EXCEPT ![p] = [pc |-> "next", jobs |-> J]]
    PROVE  /\ publisher' \in [1..Publishes -> [pc : {"idle", "next", "send", "refused"},
                                               jobs : SUBSET CaptureJobs]]
           /\ publisher'[p].pc = "next" /\ publisher'[p].jobs = J
           /\ \A r \in 1..Publishes : r # p => publisher'[r] = publisher[r]
           /\ \A r \in 1..Publishes :
                 /\ \A j \in publisher'[r].jobs : j.publish = r
                 /\ publisher'[r].pc \in {"send", "refused"} => publisher'[r].jobs # {}
<1>1. /\ publisher' \in [1..Publishes -> [pc : {"idle", "next", "send", "refused"},
                                          jobs : SUBSET CaptureJobs]]
      /\ publisher'[p] = [pc |-> "next", jobs |-> J]
      /\ \A r \in 1..Publishes : r # p => publisher'[r] = publisher[r]
  BY DEF CaptureTypeOK
<1> QED
  BY <1>1 DEF JobsPlaced

-----------------------------------------------------------------------------
(* Every action keeps the invariant.                                       *)

(* A publish starts: each queue it resolves to gets a job, each it does    *)
(* not is counted as failed.                                               *)
LEMMA KeptByPublish ==
    ASSUME CaptureInv, NEW p \in 1..Publishes, PublishToMatchingQueues(p)
    PROVE  CaptureInv'
<1>0. CaptureTypeOK /\ JobsPlaced
  BY DEF CaptureInv
<1>1. UNCHANGED <<accepting, closed, lanes, worker, stopper, resources, discarded, logged,
                  forwarded>> /\ publisher[p].pc = "idle"
  BY DEF PublishToMatchingQueues
<1>2. PICK lost \in SUBSET CapturedQueues :
          /\ failed' = failed \cup {Job(p, q) : q \in lost}
          /\ publisher' = [publisher EXCEPT ![p] =
                 [pc |-> "next",
                  jobs |-> IF lost = CapturedQueues THEN {}
                           ELSE {Job(p, t) : t \in CaptureTargets \ lost}]]
  BY Zenon DEF PublishToMatchingQueues
<1> DEFINE J == IF lost = CapturedQueues THEN {} ELSE {Job(p, t) : t \in CaptureTargets \ lost}
<1>3. J \in SUBSET CaptureJobs /\ \A j \in J : j.publish = p
  BY JobFields
<1>4. /\ publisher' \in [1..Publishes -> [pc : {"idle", "next", "send", "refused"},
                                          jobs : SUBSET CaptureJobs]]
      /\ publisher'[p].pc = "next" /\ publisher'[p].jobs = J
      /\ \A r \in 1..Publishes : r # p => publisher'[r] = publisher[r]
      /\ \A r \in 1..Publishes :
            /\ \A j \in publisher'[r].jobs : j.publish = r
            /\ publisher'[r].pc \in {"send", "refused"} => publisher'[r].jobs # {}
  <2> HIDE DEF J
  <2>1. publisher' = [publisher EXCEPT ![p] = [pc |-> "next", jobs |-> J]]
    BY <1>2 DEF J
  <2> QED
    BY Zenon, <1>0, <1>3, <2>1, PublisherMoves
<1>5. \A j \in CaptureJobs : /\ WithPublisher(j)' => WithPublisher(j)
                             /\ InLane(j)' <=> InLane(j)
                             /\ InHand(j)' <=> InHand(j)
                             /\ Written(j)' <=> Written(j)
  BY <1>1, <1>4, JobFields DEF WithPublisher, InLane, InHand, Written, Working, LaneFor
<1>6. ASSUME NEW j \in CaptureJobs, j.target # "peers"
      PROVE  \/ WithPublisher(j)' \/ InLane(j)' \/ InHand(j)' \/ Written(j)'
             \/ j \in discarded' \cup failed'
  <2>1. CASE j.publish # p
    BY <1>1, <1>2, <1>4, <1>5, <1>6, <2>1, JobFields DEF CaptureInv, JobsKept, WithPublisher
  <2>2. CASE j.publish = p
    <3>1. j = Job(p, j.target) /\ j.target \in CapturedQueues
      BY <1>6, <2>2, JobFields DEF CaptureTargets
    <3>2. CASE j.target \in lost
      BY <1>2, <3>1, <3>2
    <3>3. CASE j.target \notin lost
      BY <1>4, <2>2, <3>1, <3>3 DEF WithPublisher, CaptureTargets
    <3> QED
      BY <3>2, <3>3
  <2> QED
    BY <2>1, <2>2
<1>7. CaptureTypeOK' /\ JobsPlaced'
  BY <1>0, <1>1, <1>4 DEF CaptureTypeOK, JobsPlaced, Working, LaneFor
<1>8. InOnePlace'
  BY <1>1, <1>5 DEF CaptureInv, InOnePlace
<1>9. JobsKept'
  BY <1>6 DEF JobsKept
<1>10. NoSendAfterClose' /\ WorkersGone'
  BY <1>1, <1>4 DEF CaptureInv, NoSendAfterClose, WorkersGone
<1> QED
  BY <1>7, <1>8, <1>9, <1>10 DEF CaptureInv

(* enqueue takes the lock and looks at the flag.                           *)
LEMMA KeptByEnqueue ==
    ASSUME CaptureInv, NEW p \in 1..Publishes, Enqueue(p)
    PROVE  CaptureInv'
<1>0. CaptureTypeOK /\ JobsPlaced
  BY DEF CaptureInv
<1>1. /\ UNCHANGED <<closed, lanes, worker, stopper, resources, discarded, failed, logged,
                     forwarded>>
      /\ publisher[p].pc = "next" /\ publisher[p].jobs # {} /\ accepting' = accepting \cup {p}
      /\ publisher' = [publisher EXCEPT ![p].pc = IF closed THEN "refused" ELSE "send"]
  BY DEF Enqueue
<1>2. /\ publisher' \in [1..Publishes -> [pc : {"idle", "next", "send", "refused"},
                                          jobs : SUBSET CaptureJobs]]
      /\ publisher'[p].pc = IF closed THEN "refused" ELSE "send"
      /\ publisher'[p].jobs = publisher[p].jobs
      /\ \A r \in 1..Publishes : r # p => publisher'[r] = publisher[r]
  BY <1>0, <1>1 DEF CaptureTypeOK
<1>3. \A j \in CaptureJobs : /\ WithPublisher(j)' <=> WithPublisher(j)
                             /\ InLane(j)' <=> InLane(j)
                             /\ InHand(j)' <=> InHand(j)
                             /\ Written(j)' <=> Written(j)
  BY <1>1, <1>2, JobFields DEF WithPublisher, InLane, InHand, Written, Working, LaneFor
<1>4. CaptureTypeOK' /\ JobsPlaced'
  BY <1>0, <1>1, <1>2 DEF CaptureTypeOK, JobsPlaced, Working, LaneFor
<1>5. InOnePlace' /\ JobsKept'
  BY <1>1, <1>3 DEF CaptureInv, InOnePlace, JobsKept
<1>6. NoSendAfterClose' /\ WorkersGone'
  BY <1>1, <1>2 DEF CaptureInv, NoSendAfterClose, WorkersGone
<1> QED
  BY <1>4, <1>5, <1>6 DEF CaptureInv

(* A job leaves its publish.                                               *)
LEMMA JobHanded ==
    ASSUME CaptureInv, NEW p \in 1..Publishes, publisher[p].pc \in {"send", "refused"},
           publisher' = Handed(p), NEW n, n = NextJob(p)
    PROVE  /\ n \in CaptureJobs /\ WithPublisher(n) /\ ~ WithPublisher(n)'
           /\ \A j \in CaptureJobs : j # n => (WithPublisher(j)' <=> WithPublisher(j))
           /\ publisher' \in [1..Publishes -> [pc : {"idle", "next", "send", "refused"},
                                               jobs : SUBSET CaptureJobs]]
           /\ publisher'[p].pc = "next"
           /\ \A r \in 1..Publishes : r # p => publisher'[r] = publisher[r]
           /\ \A r \in 1..Publishes :
                 /\ \A j \in publisher'[r].jobs : j.publish = r
                 /\ publisher'[r].pc \in {"send", "refused"} => publisher'[r].jobs # {}
<1> DEFINE J == publisher[p].jobs \ {n}
<1>0. CaptureTypeOK /\ JobsPlaced
  BY DEF CaptureInv
<1>1. n \in publisher[p].jobs /\ n \in CaptureJobs /\ n.publish = p
  <2>1. publisher[p].jobs # {}
    BY <1>0 DEF JobsPlaced
  <2>2. n \in publisher[p].jobs /\ n \in CaptureJobs
    BY <1>0, <2>1, NextJobIsOne
  <2> QED
    BY <1>0, <2>2 DEF JobsPlaced
<1>2. publisher' = [publisher EXCEPT ![p] = [pc |-> "next", jobs |-> J]]
  BY <1>0 DEF Handed, CaptureTypeOK
<1>3. J \in SUBSET CaptureJobs /\ \A j \in J : j.publish = p
  BY <1>0 DEF CaptureTypeOK, JobsPlaced
<1>4. /\ publisher' \in [1..Publishes -> [pc : {"idle", "next", "send", "refused"},
                                          jobs : SUBSET CaptureJobs]]
      /\ publisher'[p].pc = "next" /\ publisher'[p].jobs = J
      /\ \A r \in 1..Publishes : r # p => publisher'[r] = publisher[r]
      /\ \A r \in 1..Publishes :
            /\ \A j \in publisher'[r].jobs : j.publish = r
            /\ publisher'[r].pc \in {"send", "refused"} => publisher'[r].jobs # {}
  <2> HIDE DEF J
  <2> QED
    BY Zenon, <1>0, <1>2, <1>3, PublisherMoves
<1>5. /\ WithPublisher(n) /\ ~ WithPublisher(n)'
      /\ \A j \in CaptureJobs : j # n => (WithPublisher(j)' <=> WithPublisher(j))
  BY <1>1, <1>4, JobFields DEF WithPublisher
<1> QED
  BY <1>1, <1>4, <1>5

(* The job goes into its lane, or the lane is full and it is counted.      *)
LEMMA KeptBySend ==
    ASSUME CaptureInv, NEW p \in 1..Publishes, EnqueueSend(p)
    PROVE  CaptureInv'
<1>0. CaptureTypeOK /\ JobsPlaced /\ InOnePlace /\ JobsKept /\ NoSendAfterClose /\ WorkersGone
  BY DEF CaptureInv
<1>1. PICK n : n = NextJob(p)
  OBVIOUS
<1>2. /\ UNCHANGED <<closed, worker, stopper, resources, failed, logged, forwarded>>
      /\ publisher[p].pc = "send" /\ publisher' = Handed(p) /\ accepting' = accepting \ {p}
  BY DEF EnqueueSend
<1>3. /\ n \in CaptureJobs /\ WithPublisher(n) /\ ~ WithPublisher(n)'
      /\ \A j \in CaptureJobs : j # n => (WithPublisher(j)' <=> WithPublisher(j))
      /\ publisher' \in [1..Publishes -> [pc : {"idle", "next", "send", "refused"},
                                          jobs : SUBSET CaptureJobs]]
      /\ publisher'[p].pc = "next"
      /\ \A r \in 1..Publishes : r # p => publisher'[r] = publisher[r]
      /\ \A r \in 1..Publishes :
            /\ \A j \in publisher'[r].jobs : j.publish = r
            /\ publisher'[r].pc \in {"send", "refused"} => publisher'[r].jobs # {}
  BY <1>1, <1>2, JobHanded
<1>4. \A j \in CaptureJobs : (InHand(j)' <=> InHand(j)) /\ (Written(j)' <=> Written(j))
  BY <1>2 DEF InHand, Written, Working, LaneFor
<1>5. /\ lanes' \in [Lanes -> Seq(CaptureJobs)]
      /\ \A l \in Lanes : /\ IsInjective(lanes'[l])
                          /\ \A j \in Range(lanes'[l]) : LaneFor(j) = l
      /\ \A j \in CaptureJobs : j # n => (InLane(j)' <=> InLane(j))
      /\ InLane(n)' \/ (~ InLane(n)' /\ n \in discarded')
      /\ discarded \subseteq discarded'
  <2> DEFINE l == LaneFor(n)
  <2>0. l \in Lanes /\ lanes[l] \in Seq(CaptureJobs)
    BY <1>0, <1>3, JobFields DEF CaptureTypeOK
  <2>1. ~ InLane(n) /\ n \notin Range(lanes[l])
    BY <1>0, <1>3 DEF InOnePlace, InLane
  <2>2. CASE lanes' = [lanes EXCEPT ![l] = Append(@, n)] /\ UNCHANGED discarded
    <3>1. /\ Append(lanes[l], n) \in Seq(CaptureJobs)
          /\ Range(Append(lanes[l], n)) = Range(lanes[l]) \cup {n}
          /\ IsInjective(Append(lanes[l], n))
      <4>1. n \in CaptureJobs /\ IsInjective(lanes[l])
        BY <1>0, <1>3, <2>0 DEF InOnePlace
      <4> QED
        BY <2>0, <2>1, <4>1, AppendExtends
    <3>2. /\ lanes' \in [Lanes -> Seq(CaptureJobs)] /\ lanes'[l] = Append(lanes[l], n)
          /\ \A k \in Lanes : k # l => lanes'[k] = lanes[k]
      BY <1>0, <2>0, <2>2, <3>1 DEF CaptureTypeOK
    <3>3. \A k \in Lanes : IsInjective(lanes'[k])
      BY Zenon, <1>0, <3>1, <3>2 DEF InOnePlace
    <3>5. \A k \in Lanes : \A j \in Range(lanes'[k]) : LaneFor(j) = k
      BY Zenon, <1>0, <3>1, <3>2 DEF JobsPlaced
    <3>4. InLane(n)' /\ \A j \in CaptureJobs : j # n => (InLane(j)' <=> InLane(j))
      <4>1. \A j \in CaptureJobs : InLane(j)' <=> j \in Range(lanes'[LaneFor(j)])
        BY DEF InLane, LaneFor
      <4>2. InLane(n)'
        BY Zenon, <1>3, <2>0, <3>1, <3>2, <4>1
      <4>3. \A j \in CaptureJobs : j # n => (InLane(j)' <=> InLane(j))
        BY Zenon, <3>1, <3>2, <4>1, JobFields DEF InLane
      <4> QED
        BY <4>2, <4>3
    <3> QED
      BY <2>2, <3>2, <3>3, <3>4, <3>5
  <2>3. CASE discarded' = discarded \cup {n} /\ UNCHANGED lanes
    <3>1. \A j \in CaptureJobs : InLane(j)' <=> InLane(j)
      BY <2>3 DEF InLane, LaneFor
    <3> QED
      BY <1>0, <1>3, <2>1, <2>3, <3>1 DEF CaptureTypeOK, InOnePlace, JobsPlaced
  <2> QED
    BY <1>1, <2>2, <2>3 DEF EnqueueSend
<1>6. CaptureTypeOK' /\ JobsPlaced'
  BY <1>0, <1>2, <1>3, <1>5 DEF CaptureTypeOK, JobsPlaced, Working, LaneFor
<1>7. InOnePlace'
  BY <1>0, <1>2, <1>3, <1>4, <1>5 DEF InOnePlace
<1>8. JobsKept'
  BY <1>0, <1>2, <1>3, <1>4, <1>5 DEF JobsKept
<1>9. NoSendAfterClose' /\ WorkersGone'
  BY <1>0, <1>2, <1>3 DEF NoSendAfterClose, WorkersGone
<1> QED
  BY <1>6, <1>7, <1>8, <1>9 DEF CaptureInv

(* A closed dispatcher counts the job.                                     *)
LEMMA KeptByRefusal ==
    ASSUME CaptureInv, NEW p \in 1..Publishes, EnqueueRefused(p)
    PROVE  CaptureInv'
<1>0. CaptureTypeOK /\ JobsPlaced /\ InOnePlace /\ JobsKept /\ NoSendAfterClose /\ WorkersGone
  BY DEF CaptureInv
<1>1. PICK n : n = NextJob(p)
  OBVIOUS
<1>2. /\ UNCHANGED <<closed, lanes, worker, stopper, resources, failed, logged, forwarded>>
      /\ publisher[p].pc = "refused" /\ publisher' = Handed(p) /\ accepting' = accepting \ {p}
      /\ discarded' = discarded \cup {n}
  BY <1>1 DEF EnqueueRefused
<1>3. /\ n \in CaptureJobs /\ WithPublisher(n) /\ ~ WithPublisher(n)'
      /\ \A j \in CaptureJobs : j # n => (WithPublisher(j)' <=> WithPublisher(j))
      /\ publisher' \in [1..Publishes -> [pc : {"idle", "next", "send", "refused"},
                                          jobs : SUBSET CaptureJobs]]
      /\ publisher'[p].pc = "next"
      /\ \A r \in 1..Publishes : r # p => publisher'[r] = publisher[r]
      /\ \A r \in 1..Publishes :
            /\ \A j \in publisher'[r].jobs : j.publish = r
            /\ publisher'[r].pc \in {"send", "refused"} => publisher'[r].jobs # {}
  BY <1>1, <1>2, JobHanded
<1>4. \A j \in CaptureJobs : /\ InLane(j)' <=> InLane(j)
                             /\ InHand(j)' <=> InHand(j)
                             /\ Written(j)' <=> Written(j)
  BY <1>2 DEF InLane, InHand, Written, Working, LaneFor
<1>5. CaptureTypeOK' /\ JobsPlaced'
  BY <1>0, <1>2, <1>3 DEF CaptureTypeOK, JobsPlaced, Working, LaneFor
<1>6. InOnePlace'
  BY <1>0, <1>2, <1>3, <1>4 DEF InOnePlace
<1>7. JobsKept'
  BY <1>0, <1>2, <1>3, <1>4 DEF JobsKept
<1>8. NoSendAfterClose' /\ WorkersGone'
  BY <1>0, <1>2, <1>3 DEF NoSendAfterClose, WorkersGone
<1> QED
  BY <1>5, <1>6, <1>7, <1>8 DEF CaptureInv

(* A worker takes the first job of its lane.                               *)
LEMMA KeptByTaking ==
    ASSUME CaptureInv, NEW l \in Lanes, RunReceives(l) \/ DrainReceives(l)
    PROVE  CaptureInv'
<1>0. CaptureTypeOK /\ JobsPlaced /\ InOnePlace /\ JobsKept /\ NoSendAfterClose /\ WorkersGone
  BY DEF CaptureInv
<1>1. PICK pc \in {"apply", "drainApply"} : TakeJob(l, pc)
  BY DEF RunReceives, DrainReceives
<1>2. PICK h : h = Head(lanes[l])
  OBVIOUS
<1>3. /\ UNCHANGED <<publisher, accepting, closed, stopper, resources, discarded, failed, logged,
                     forwarded>>
      /\ lanes[l] # <<>> /\ lanes' = [lanes EXCEPT ![l] = Tail(@)]
      /\ worker' = [worker EXCEPT ![l] = [pc |-> pc, job |-> h]]
      /\ worker[l].pc \in {"run", "drain"}
  BY <1>1, <1>2 DEF TakeJob, RunReceives, DrainReceives
<1>4. /\ lanes' \in [Lanes -> Seq(CaptureJobs)]
      /\ h \in CaptureJobs /\ LaneFor(h) = l /\ InLane(h)
      /\ \A k \in Lanes : IsInjective(lanes'[k]) /\ Range(lanes'[k]) \subseteq Range(lanes[k])
      /\ \A j \in CaptureJobs : InLane(j)' <=> InLane(j) /\ j # h
      /\ \A k \in Lanes : lanes[k] = <<>> => lanes'[k] = <<>>
  BY Zenon, <1>2, <1>3, LaneShrinks
<1>5. /\ worker' \in [Lanes -> [pc : {"run", "apply", "drain", "drainApply", "gone"},
                                job : CaptureJobs \cup {Job(0, "peers")}]]
      /\ worker'[l].pc = pc /\ worker'[l].job = h
      /\ \A k \in Lanes : k # l => worker'[k] = worker[k]
  BY <1>0, <1>3, <1>4 DEF CaptureTypeOK
<1>6. \A j \in CaptureJobs : InHand(j)' <=> InHand(j) \/ j = h
  BY <1>3, <1>4, <1>5, JobFields DEF InHand, Working, LaneFor
<1>7. \A j \in CaptureJobs : /\ WithPublisher(j)' <=> WithPublisher(j)
                             /\ Written(j)' <=> Written(j)
  BY <1>3 DEF WithPublisher, Written
<1>8. CaptureTypeOK'
  BY <1>0, <1>3, <1>4, <1>5 DEF CaptureTypeOK
<1>9. JobsPlaced'
  <2>1. publisher' = publisher
    BY <1>3
  <2>2. ASSUME NEW k \in Lanes
        PROVE  /\ \A j \in Range(lanes'[k]) : LaneFor(j) = k
               /\ Working(k)' => worker'[k].job \in CaptureJobs /\ LaneFor(worker'[k].job) = k
    <3>1. /\ \A j \in Range(lanes[k]) : LaneFor(j) = k
          /\ Working(k) => worker[k].job \in CaptureJobs /\ LaneFor(worker[k].job) = k
      BY <1>0, <2>2 DEF JobsPlaced
    <3>2. \A j \in Range(lanes'[k]) : LaneFor(j) = k
      BY <1>4, <2>2, <3>1
    <3>3. CASE k = l
      BY <1>4, <1>5, <3>2, <3>3
    <3>4. CASE k # l
      <4>1. worker'[k] = worker[k]
        BY <1>5, <2>2, <3>4
      <4> QED
        BY <3>1, <3>2, <4>1 DEF Working
    <3> QED
      BY <3>3, <3>4
  <2> QED
    BY <1>0, <2>1, <2>2 DEF JobsPlaced, LaneFor
<1>10. InOnePlace'
  BY Zenon, <1>0, <1>3, <1>4, <1>6, <1>7 DEF InOnePlace
<1>11. JobsKept'
  BY <1>0, <1>3, <1>4, <1>6, <1>7 DEF JobsKept
<1>12. NoSendAfterClose' /\ WorkersGone'
  BY <1>0, <1>3, <1>4 DEF NoSendAfterClose, WorkersGone
<1> QED
  BY <1>8, <1>9, <1>10, <1>11, <1>12 DEF CaptureInv

(* A job is counted instead of written.                                    *)
LEMMA KeptByDropping ==
    ASSUME CaptureInv, NEW l \in Lanes, DrainTimesOut(l) \/ SweepLanes(l)
    PROVE  CaptureInv'
<1>0. CaptureTypeOK /\ JobsPlaced /\ InOnePlace /\ JobsKept /\ NoSendAfterClose /\ WorkersGone
  BY DEF CaptureInv
<1>1. PICK h : h = Head(lanes[l])
  OBVIOUS
<1>2. /\ UNCHANGED <<publisher, accepting, closed, worker, stopper, resources, failed, logged,
                     forwarded>>
      /\ lanes[l] # <<>> /\ lanes' = [lanes EXCEPT ![l] = Tail(@)]
      /\ discarded' = discarded \cup {h}
  BY <1>1 DEF DrainTimesOut, SweepLanes
<1>3. /\ lanes' \in [Lanes -> Seq(CaptureJobs)]
      /\ h \in CaptureJobs /\ LaneFor(h) = l /\ InLane(h)
      /\ \A k \in Lanes : IsInjective(lanes'[k]) /\ Range(lanes'[k]) \subseteq Range(lanes[k])
      /\ \A j \in CaptureJobs : InLane(j)' <=> InLane(j) /\ j # h
      /\ \A k \in Lanes : lanes[k] = <<>> => lanes'[k] = <<>>
  BY Zenon, <1>1, <1>2, LaneShrinks
<1>4. \A j \in CaptureJobs : /\ WithPublisher(j)' <=> WithPublisher(j)
                             /\ InHand(j)' <=> InHand(j)
                             /\ Written(j)' <=> Written(j)
  BY <1>2 DEF WithPublisher, Written, InHand, Working, LaneFor
<1>5. CaptureTypeOK' /\ JobsPlaced'
  BY <1>0, <1>2, <1>3 DEF CaptureTypeOK, JobsPlaced, Working, LaneFor
<1>6. InOnePlace'
  BY <1>0, <1>2, <1>3, <1>4 DEF InOnePlace
<1>7. JobsKept'
  BY <1>0, <1>2, <1>3, <1>4 DEF JobsKept
<1>8. NoSendAfterClose' /\ WorkersGone'
  BY <1>0, <1>2, <1>3 DEF NoSendAfterClose, WorkersGone
<1> QED
  BY <1>5, <1>6, <1>7, <1>8 DEF CaptureInv

(* applyCaptureJob: the job in hand is written, forwarded or counted.      *)
LEMMA KeptByApplying ==
    ASSUME CaptureInv, NEW l \in Lanes, ApplyCaptureJob(l)
    PROVE  CaptureInv'
<1>0. CaptureTypeOK /\ JobsPlaced /\ InOnePlace /\ JobsKept /\ NoSendAfterClose /\ WorkersGone
  BY DEF CaptureInv
<1>1. PICK h : h = worker[l].job
  OBVIOUS
<1>2. /\ UNCHANGED <<publisher, accepting, closed, lanes, stopper, resources, discarded>>
      /\ Working(l)
  BY DEF ApplyCaptureJob
<1>3. h \in CaptureJobs /\ LaneFor(h) = l /\ InHand(h) /\ ~ Written(h)
  <2>1. h \in CaptureJobs /\ LaneFor(h) = l
    BY <1>0, <1>1, <1>2 DEF JobsPlaced
  <2> QED
    BY <1>0, <1>1, <1>2, <2>1 DEF InHand, InOnePlace
<1>4. /\ worker' \in [Lanes -> [pc : {"run", "apply", "drain", "drainApply", "gone"},
                                job : CaptureJobs \cup {Job(0, "peers")}]]
      /\ worker'[l].pc \in {"run", "drain"}
      /\ \A k \in Lanes : k # l => worker'[k] = worker[k]
  BY <1>0 DEF ApplyCaptureJob, CaptureTypeOK, IdleWorker
<1>5. \A j \in CaptureJobs : InHand(j)' <=> InHand(j) /\ j # h
  <2>1. \A j \in CaptureJobs : LaneFor(j) \in Lanes
    BY JobFields
  <2>2. ~ Working(l)' /\ Working(l) /\ \A k \in Lanes : k # l => (Working(k)' <=> Working(k))
    BY <1>2, <1>4 DEF Working
  <2>3. ASSUME NEW j \in CaptureJobs PROVE InHand(j)' <=> InHand(j) /\ j # h
    <3>1. LaneFor(j)' = LaneFor(j)
      BY DEF LaneFor
    <3> QED
      BY <1>1, <1>3, <1>4, <2>1, <2>2, <2>3, <3>1 DEF InHand
  <2> QED
    BY <2>3
<1>6. \A j \in CaptureJobs : /\ WithPublisher(j)' <=> WithPublisher(j)
                             /\ InLane(j)' <=> InLane(j)
  BY <1>2 DEF WithPublisher, InLane, LaneFor
<1>7. /\ logged' \in [CapturedQueues -> Seq(1..Publishes)]
      /\ \A q \in CapturedQueues : IsInjective(logged'[q])
      /\ \A j \in CaptureJobs : j # h => (Written(j)' <=> Written(j))
      /\ h.target # "peers" => Written(h)' \/ h \in failed'
      /\ failed \subseteq failed'
  <2>1. CASE h.target = "peers" /\ UNCHANGED <<failed, logged>>
    BY <1>0, <2>1 DEF CaptureTypeOK, InOnePlace, Written
  <2>2. CASE failed' = failed \cup {h} /\ UNCHANGED logged
    BY <1>0, <2>2 DEF CaptureTypeOK, InOnePlace, Written
  <2>3. CASE /\ h.target # "peers" /\ UNCHANGED failed
             /\ logged' = [logged EXCEPT ![h.target] = Append(@, h.publish)]
    <3> DEFINE q == h.target
               s == Append(logged[q], h.publish)
    <3>1. /\ q \in CapturedQueues /\ h.publish \in 1..Publishes
          /\ logged[q] \in Seq(1..Publishes) /\ h.publish \notin Range(logged[q])
      BY <1>0, <1>3, <2>3, JobFields DEF CaptureTargets, CaptureTypeOK, Written
    <3>2. /\ s \in Seq(1..Publishes) /\ IsInjective(s)
          /\ Range(s) = Range(logged[q]) \cup {h.publish}
      <4>1. IsInjective(logged[q])
        BY <1>0, <3>1 DEF InOnePlace
      <4>2. PICK S : S = 1..Publishes
        OBVIOUS
      <4>3. /\ s \in Seq(S) /\ IsInjective(s)
            /\ Range(s) = Range(logged[q]) \cup {h.publish}
        <5>1. logged[q] \in Seq(S) /\ h.publish \in S /\ h.publish \notin Range(logged[q])
          BY <3>1, <4>2
        <5> QED
          BY <4>1, <5>1, AppendExtends
      <4> QED
        BY <4>2, <4>3
    <3>3. /\ logged' \in [CapturedQueues -> Seq(1..Publishes)] /\ logged'[q] = s
          /\ \A r \in CapturedQueues : r # q => logged'[r] = logged[r]
      BY <1>0, <2>3, <3>1, <3>2 DEF CaptureTypeOK
    <3>4. \A r \in CapturedQueues : IsInjective(logged'[r])
      BY Zenon, <1>0, <3>2, <3>3 DEF InOnePlace
    <3>5. \A j \in CaptureJobs : j # h /\ j.target = q => j.publish # h.publish
      BY <1>3, JobFields
    <3>6. \A j \in CaptureJobs : j.target # "peers" => j.target \in CapturedQueues
      BY JobFields DEF CaptureTargets
    <3>7. Written(h)' /\ \A j \in CaptureJobs : j # h => (Written(j)' <=> Written(j))
      BY <1>3, <2>3, <3>1, <3>2, <3>3, <3>5, <3>6 DEF Written
    <3> QED
      BY <2>3, <3>3, <3>4, <3>7
  <2> QED
    BY Zenon, <1>1, <2>1, <2>2, <2>3 DEF ApplyCaptureJob
<1>8. CaptureTypeOK'
  BY <1>0, <1>2, <1>4, <1>7 DEF CaptureTypeOK
<1>9. JobsPlaced'
  BY <1>0, <1>2, <1>4 DEF JobsPlaced, Working, LaneFor
<1>10. InOnePlace'
  BY Zenon, <1>0, <1>2, <1>3, <1>5, <1>6, <1>7 DEF InOnePlace
<1>11. JobsKept'
  BY <1>0, <1>2, <1>3, <1>5, <1>6, <1>7 DEF JobsKept
<1>12. NoSendAfterClose' /\ WorkersGone'
  BY <1>0, <1>2, <1>4 DEF NoSendAfterClose, WorkersGone, Working
<1> QED
  BY <1>8, <1>9, <1>10, <1>11, <1>12 DEF CaptureInv

(* Workers end, Stop goes on: no job moves.                                *)
LEMMA KeptByStopping ==
    ASSUME CaptureInv,
           \/ \E l \in Lanes : RunStops(l) \/ DrainEnds(l)
           \/ StopCapture \/ SignalStop \/ StopWaited \/ StopReturns \/ ReleaseShutdownResources
           \/ UNCHANGED captureVars
    PROVE  CaptureInv'
<1>0. CaptureTypeOK /\ JobsPlaced /\ InOnePlace /\ JobsKept /\ NoSendAfterClose /\ WorkersGone
  BY DEF CaptureInv
<1>1. UNCHANGED <<publisher, accepting, lanes, discarded, failed, logged, forwarded>>
  BY DEF RunStops, DrainEnds, StopCapture, SignalStop, StopWaited, StopReturns,
     ReleaseShutdownResources, captureVars
<1>2. /\ worker' \in [Lanes -> [pc : {"run", "apply", "drain", "drainApply", "gone"},
                                job : CaptureJobs \cup {Job(0, "peers")}]]
      /\ \A l \in Lanes : /\ worker'[l].job = worker[l].job
                          /\ Working(l)' <=> Working(l)
                          /\ worker[l].pc = "gone" => worker'[l].pc = "gone"
  <2>1. CASE worker' = worker
    BY <1>0, <2>1 DEF CaptureTypeOK, Working
  <2>2. ASSUME NEW l \in Lanes, RunStops(l) \/ DrainEnds(l) PROVE <1>2!:
    <3>1. PICK pc \in {"drain", "gone"} : worker' = [worker EXCEPT ![l] = [@ EXCEPT !.pc = pc]]
      BY <2>2 DEF RunStops, DrainEnds
    <3>2. worker[l].pc \in {"run", "drain"}
      BY <2>2 DEF RunStops, DrainEnds
    <3> QED
      BY <1>0, <3>1, <3>2 DEF CaptureTypeOK, Working
  <2> QED
    BY Zenon, <2>1, <2>2 DEF StopCapture, SignalStop, StopWaited, StopReturns,
       ReleaseShutdownResources, captureVars
<1>3. \A j \in CaptureJobs : /\ WithPublisher(j)' <=> WithPublisher(j)
                             /\ InLane(j)' <=> InLane(j)
                             /\ InHand(j)' <=> InHand(j)
                             /\ Written(j)' <=> Written(j)
  BY <1>1, <1>2, JobFields DEF WithPublisher, InLane, InHand, Written, LaneFor
<1>4. InOnePlace' /\ JobsKept'
  BY <1>0, <1>1, <1>3 DEF InOnePlace, JobsKept
<1>5. JobsPlaced'
  BY <1>0, <1>1, <1>2 DEF JobsPlaced, LaneFor
<1>6. CaptureTypeOK'
  BY Zenon, <1>0, <1>1, <1>2 DEF CaptureTypeOK, RunStops, DrainEnds, StopCapture, SignalStop,
     StopWaited, StopReturns, ReleaseShutdownResources, captureVars
<1>7. NoSendAfterClose'
  BY <1>0, <1>1 DEF CaptureTypeOK, NoSendAfterClose, RunStops, DrainEnds, StopCapture, SignalStop,
     StopWaited, StopReturns, ReleaseShutdownResources, captureVars
<1>8. WorkersGone'
  BY <1>0, <1>2 DEF WorkersGone, RunStops, DrainEnds, StopCapture, SignalStop, StopWaited,
     StopReturns, ReleaseShutdownResources, captureVars
<1> QED
  BY <1>4, <1>5, <1>6, <1>7, <1>8 DEF CaptureInv

(* The invariant holds in every reachable state.                           *)
THEOREM CaptureInvariance == CaptureSpec => []CaptureInv
<1>1. ASSUME CaptureInit PROVE CaptureInv
  <2>0. Range(<<>>) = {} /\ IsInjective(<<>>)
    BY DEF Range, IsInjective
  <2>1. CaptureTypeOK
    <3>1. /\ publisher \in [1..Publishes -> [pc : {"idle", "next", "send", "refused"},
                                             jobs : SUBSET CaptureJobs]]
          /\ worker \in [Lanes -> [pc : {"run", "apply", "drain", "drainApply", "gone"},
                                   job : CaptureJobs \cup {Job(0, "peers")}]]
      BY <1>1 DEF CaptureInit, IdleWorker
    <3>2. /\ lanes \in [Lanes -> Seq(CaptureJobs)]
          /\ logged \in [CapturedQueues -> Seq(1..Publishes)]
      BY <1>1 DEF CaptureInit
    <3> QED
      BY Zenon, <1>1, <3>1, <3>2 DEF CaptureInit, CaptureTypeOK
  <2>2. /\ \A l \in Lanes : Range(lanes[l]) = {} /\ ~ Working(l) /\ IsInjective(lanes[l])
        /\ \A q \in CapturedQueues : Range(logged[q]) = {} /\ IsInjective(logged[q])
    BY <1>1, <2>0 DEF CaptureInit, Working, IdleWorker
  <2>3. JobsPlaced
    BY <1>1, <2>2 DEF CaptureInit, JobsPlaced
  <2>4. \A j \in CaptureJobs : WithPublisher(j) /\ ~ InLane(j) /\ ~ InHand(j) /\ ~ Written(j)
    BY <1>1, <2>2, JobFields DEF CaptureInit, WithPublisher, InLane, InHand, Written,
       CaptureTargets
  <2>5. InOnePlace /\ JobsKept
    BY <2>2, <2>4 DEF InOnePlace, JobsKept
  <2>6. NoSendAfterClose /\ WorkersGone
    BY <1>1 DEF CaptureInit, NoSendAfterClose, WorkersGone
  <2> QED
    BY <2>1, <2>3, <2>5, <2>6 DEF CaptureInv
<1>2. ASSUME CaptureInv, [CaptureNext]_captureVars PROVE CaptureInv'
  BY <1>2, KeptByPublish, KeptByEnqueue, KeptBySend, KeptByRefusal, KeptByTaking, KeptByDropping,
     KeptByApplying, KeptByStopping DEF CaptureNext
<1> QED
  BY <1>1, <1>2, PTL DEF CaptureSpec

(* Every job of a publish that has returned is written once, counted, or   *)
(* still on its way, and Stop leaves none in a lane, however its close     *)
(* falls between the check and the send of enqueue.                        *)
THEOREM CapturesAccounted == CaptureSpec => []CaptureAccounted
<1>1. ASSUME CaptureInv PROVE CaptureAccounted
  <2>1. ASSUME NEW p \in 1..Publishes, publisher[p].pc = "next", publisher[p].jobs = {},
               NEW q \in CapturedQueues
        PROVE  Job(p, q) \in Ended \cup Queued \cup JobsInHand
    <3> DEFINE j == Job(p, q)
    <3>1. /\ j \in CaptureJobs /\ j.publish = p /\ j.target = q /\ q # "peers"
          /\ LaneFor(j) \in Lanes
      BY JobFields, CaptureAssumption DEF CaptureTargets
    <3>2. ~ WithPublisher(j)
      BY <2>1, <3>1 DEF WithPublisher
    <3>3. InLane(j) \/ InHand(j) \/ Written(j) \/ j \in discarded \cup failed
      BY <1>1, <3>1, <3>2 DEF CaptureInv, JobsKept
    <3>4. InLane(j) => j \in Queued
      BY <3>1 DEF InLane, Queued
    <3>5. InHand(j) => j \in JobsInHand
      BY <3>1 DEF InHand, JobsInHand
    <3>6. Written(j) => j \in Ended
      <4>1. Written(j) => p \in Range(logged[q])
        BY <3>1 DEF Written
      <4> QED
        BY <4>1 DEF Ended
    <3>7. j \in discarded \cup failed => j \in Ended
      BY DEF Ended
    <3> QED
      BY <3>3, <3>4, <3>5, <3>6, <3>7
  <2>2. stopper \in {"complete", "stillRunning", "exited"} => Queued = {}
    <3>1. Range(<<>>) = {}
      BY DEF Range
    <3> QED
      BY <1>1, <3>1 DEF CaptureInv, NoSendAfterClose, Queued
  <2> QED
    BY <1>1, <2>1, <2>2 DEF CaptureInv, InOnePlace, CaptureAccounted
<1> QED
  BY <1>1, CaptureInvariance, PTL

(* ErrCaptureStillRunning keeps the store, the cluster and the coordinator *)
(* open for as long as a worker may use them.                              *)
THEOREM ResourcesOutliveWorkers == CaptureSpec => []OpenWhileCapturing
<1>1. CaptureInv => OpenWhileCapturing
  BY DEF CaptureInv, WorkersGone, OpenWhileCapturing
<1> QED
  BY <1>1, CaptureInvariance, PTL
=============================================================================
