------------------------ MODULE SessionDeliveryProofs -----------------------
(***************************************************************************)
(* The delivery of messages to a session (SessionDelivery): the send       *)
(* window is respected, a message is held in one place, and backpressure   *)
(* drops nothing, for every set of messages, every window and every number *)
(* of connections.                                                         *)
(***************************************************************************)
EXTENDS SessionDelivery, FiniteSetTheorems, TLAPS

-----------------------------------------------------------------------------
(* The inductive invariant.                                                *)

DeliveryTypeOK ==
    /\ mode \in Modes /\ epoch \in Nat /\ up \in BOOLEAN
    /\ held \subseteq Payloads /\ acked \subseteq Payloads /\ lost \subseteq Payloads
    /\ pc \in [Payloads -> {"idle", "batched", "deliver", "park", "acquire", "overflow", "add",
                            "write"}]
    /\ lease \in [Payloads -> Nat]
    /\ entry \in [Payloads -> [in : BOOLEAN, sent : Nat, rec : BOOLEAN]]
    /\ offline \in Seq(Payloads) /\ pending \in Seq(Payloads)
    /\ wire \subseteq Nat \X Payloads
    /\ client \subseteq Payloads \X {"publish", "release"}
    /\ batch \in [Epochs -> Seq(Payloads \cup {"drain"})]

(* A message is with its deliverer, inflight, in the offline queue or in   *)
(* the pending channel, or in none of them when it is settled.             *)
OnePlace(m) ==
    /\ pc[m] \notin {"idle", "write"} =>
         ~ entry[m].in /\ m \notin Range(offline) /\ m \notin Range(pending)
    /\ entry[m].in => m \notin Range(offline) /\ m \notin Range(pending)
    /\ m \in Range(offline) => m \notin Range(pending)
    /\ m \in acked \cup lost =>
         /\ pc[m] = "idle" /\ ~ entry[m].in
         /\ m \notin Range(offline) /\ m \notin Range(pending)
    /\ pc[m] = "write" => entry[m].in

(* What is outstanding is inflight, holds a token and is out once; a       *)
(* deliverer past the window holds a token of the generation it leased.    *)
OneFlight(m) ==
    /\ Outstanding(m) => entry[m].in /\ pc[m] = "idle" /\ m \in held
    /\ ~ (<<epoch, m>> \in wire /\ <<m, "publish">> \in client)
    /\ ~ (<<epoch, m>> \in wire /\ <<m, "release">> \in client)
    /\ ~ (<<m, "publish">> \in client /\ <<m, "release">> \in client)
    /\ pc[m] \in {"add", "write"} /\ lease[m] = epoch => m \in held
    /\ lease[m] <= epoch

(* The pending channel holds a message once.                               *)
Distinct(q) == \A i, j \in 1 .. Len(q) : q[i] = q[j] => i = j

DeliveryInv ==
    /\ DeliveryTypeOK
    /\ \A m \in Payloads : OnePlace(m) /\ OneFlight(m)
    /\ \A p \in wire : p[1] <= epoch
    /\ Distinct(pending)
    /\ IsFiniteSet(held) /\ Cardinality(held) <= Window

(* In backpressure mode nothing reaches the overflow.                      *)
NoOverflow ==
    mode = "backpressure" => lost = {} /\ \A m \in Payloads : pc[m] # "overflow"

-----------------------------------------------------------------------------
(* Sequences.                                                              *)

LEMMA RangeOfSeq ==
    ASSUME NEW S, NEW s \in Seq(S)
    PROVE  Range(s) = {s[i] : i \in 1 .. Len(s)} /\ Range(s) \subseteq S
  BY DEF Range

LEMMA RangeOfConcat ==
    ASSUME NEW S, NEW s \in Seq(S), NEW t \in Seq(S)
    PROVE  Range(s \o t) \subseteq Range(s) \cup Range(t) /\ s \o t \in Seq(S)
<1>1. s \o t \in Seq(S) /\ Len(s \o t) = Len(s) + Len(t)
  OBVIOUS
<1>2. ASSUME NEW i \in 1 .. Len(s \o t) PROVE (s \o t)[i] \in Range(s) \cup Range(t)
  <2>1. CASE i <= Len(s)
    BY <1>1, <2>1, RangeOfSeq
  <2>2. CASE ~ (i <= Len(s))
    <3>1. i - Len(s) \in 1 .. Len(t) /\ (s \o t)[i] = t[i - Len(s)]
      BY <1>1, <2>2
    <3> QED
      BY <3>1, RangeOfSeq
  <2> QED
    BY <2>1, <2>2
<1>3. Range(s \o t) = {(s \o t)[i] : i \in 1 .. Len(s \o t)}
  BY Zenon, <1>1, RangeOfSeq
<1> QED
  BY <1>1, <1>2, <1>3

LEMMA RangeOfAppend ==
    ASSUME NEW S, NEW s \in Seq(S), NEW x \in S
    PROVE  /\ Append(s, x) \in Seq(S)
           /\ Range(Append(s, x)) \subseteq Range(s) \cup {x}
           /\ Distinct(s) /\ x \notin Range(s) => Distinct(Append(s, x))
<1>1. /\ Append(s, x) \in Seq(S) /\ Len(Append(s, x)) = Len(s) + 1 /\ Len(s) \in Nat
      /\ \A i \in 1 .. (Len(s) + 1) : Append(s, x)[i] = IF i = Len(s) + 1 THEN x ELSE s[i]
      /\ \A i \in 1 .. (Len(s) + 1) : i = Len(s) + 1 \/ i \in 1 .. Len(s)
  OBVIOUS
<1>2. Range(s) = {s[i] : i \in 1 .. Len(s)}
  BY RangeOfSeq
<1>3. Range(Append(s, x)) = {Append(s, x)[i] : i \in 1 .. (Len(s) + 1)}
  BY Zenon, <1>1, RangeOfSeq
<1>4. ASSUME Distinct(s), x \notin Range(s), NEW i \in 1 .. (Len(s) + 1),
             NEW j \in 1 .. (Len(s) + 1), Append(s, x)[i] = Append(s, x)[j]
      PROVE  i = j
  BY <1>1, <1>2, <1>4 DEF Distinct
<1> QED
  BY <1>1, <1>2, <1>3, <1>4 DEF Distinct

LEMMA RangeOfTail ==
    ASSUME NEW S, NEW s \in Seq(S), s # <<>>
    PROVE  /\ Tail(s) \in Seq(S) /\ Head(s) \in S /\ Head(s) \in Range(s)
           /\ Range(Tail(s)) \subseteq Range(s)
           /\ Distinct(s) => Distinct(Tail(s)) /\ Head(s) \notin Range(Tail(s))
<1>1. /\ Tail(s) \in Seq(S) /\ Len(Tail(s)) = Len(s) - 1 /\ Len(s) \in Nat /\ Len(s) >= 1
      /\ Head(s) = s[1] /\ Head(s) \in S
      /\ \A i \in 1 .. (Len(s) - 1) : i + 1 \in 2 .. Len(s) /\ Tail(s)[i] = s[i + 1]
  OBVIOUS
<1>2. Range(s) = {s[i] : i \in 1 .. Len(s)}
  BY RangeOfSeq
<1>3. Range(Tail(s)) = {Tail(s)[i] : i \in 1 .. (Len(s) - 1)}
  BY Zenon, <1>1, RangeOfSeq
<1>4. 1 \in 1 .. Len(s) /\ \A i \in 2 .. Len(s) : i \in 1 .. Len(s) /\ i # 1
  BY <1>1
<1>5. ASSUME Distinct(s), NEW i \in 1 .. (Len(s) - 1), NEW j \in 1 .. (Len(s) - 1),
             Tail(s)[i] = Tail(s)[j]
      PROVE  i = j
  <2>1. i + 1 = j + 1
    BY <1>1, <1>4, <1>5 DEF Distinct
  <2> QED
    BY <2>1
<1>6. ASSUME Distinct(s), NEW i \in 1 .. (Len(s) - 1), Tail(s)[i] = Head(s) PROVE FALSE
  BY <1>1, <1>4, <1>6 DEF Distinct
<1> QED
  BY <1>1, <1>2, <1>3, <1>4, <1>5, <1>6 DEF Distinct

-----------------------------------------------------------------------------
(* The window.                                                             *)

(* A token is taken only when one is free, or held already.                *)
LEMMA TokensBounded ==
    ASSUME IsFiniteSet(held), Cardinality(held) <= Window, NEW m, HasToken(m)
    PROVE  IsFiniteSet(held \cup {m}) /\ Cardinality(held \cup {m}) <= Window
<1>1. Cardinality(held) \in Nat /\ Window \in Nat
  BY FS_CardinalityType, DeliveryAssumption
<1>2. CASE m \in held
  <2>1. held \cup {m} = held
    BY <1>2
  <2> QED
    BY <2>1
<1>3. CASE m \notin held
  <2>1. Cardinality(held) < Window
    BY <1>3 DEF HasToken
  <2>2. IsFiniteSet(held \cup {m}) /\ Cardinality(held \cup {m}) = Cardinality(held) + 1
    BY <1>3, FS_AddElement
  <2> QED
    BY <1>1, <2>1, <2>2
<1> QED
  BY <1>2, <1>3

LEMMA FewerTokens ==
    ASSUME IsFiniteSet(held), Cardinality(held) <= Window, NEW S, S \subseteq held
    PROVE  IsFiniteSet(S) /\ Cardinality(S) <= Window
<1>1. IsFiniteSet(S) /\ Cardinality(S) <= Cardinality(held)
  BY FS_Subset
<1>2. Cardinality(held) \in Nat /\ Cardinality(S) \in Nat /\ Window \in Nat
  BY <1>1, FS_CardinalityType, DeliveryAssumption
<1> QED
  BY <1>1, <1>2

-----------------------------------------------------------------------------
(* What a step leaves alone.                                               *)

LEMMA PlaceKept ==
    ASSUME NEW n, OnePlace(n), pc'[n] = pc[n], entry'[n].in = entry[n].in,
           n \in Range(offline') => n \in Range(offline),
           n \in Range(pending') => n \in Range(pending),
           n \in acked' \cup lost' => n \in acked \cup lost
    PROVE  OnePlace(n)'
  BY DEF OnePlace

LEMMA FlightKept ==
    ASSUME NEW n, OneFlight(n), epoch' = epoch, pc'[n] = pc[n], lease'[n] = lease[n],
           entry'[n].in = entry[n].in, n \in held => n \in held',
           <<epoch, n>> \in wire' => <<epoch, n>> \in wire,
           \A phase \in {"publish", "release"} : <<n, phase>> \in client' => <<n, phase>> \in client
    PROVE  OneFlight(n)'
  BY DEF OneFlight, Outstanding

(* A deliverer that is past nothing yet moves.                             *)
LEMMA DelivererMoves ==
    ASSUME DeliveryInv, NEW m \in Payloads, NEW step \in {"deliver", "park", "acquire", "overflow"},
           NEW g \in Nat, g <= epoch,
           ~ entry[m].in, m \notin Range(offline), m \notin Range(pending),
           m \notin acked \cup lost,
           pc' = [pc EXCEPT ![m] = step], lease' = [lease EXCEPT ![m] = g],
           UNCHANGED <<held, entry, batch, connection, queues, network, outcome>>
    PROVE  DeliveryInv'
<1>1. /\ mode' = mode /\ epoch' = epoch /\ up' = up /\ held' = held /\ entry' = entry
      /\ batch' = batch /\ offline' = offline /\ pending' = pending /\ wire' = wire
      /\ client' = client /\ acked' = acked /\ lost' = lost
  BY DEF connection, queues, network, outcome
<1>2. DeliveryTypeOK /\ DeliveryTypeOK'
  BY <1>1 DEF DeliveryInv, DeliveryTypeOK
<1>3. ASSUME NEW n \in Payloads PROVE OnePlace(n)' /\ OneFlight(n)'
  <2>1. OnePlace(n) /\ OneFlight(n)
    BY DEF DeliveryInv
  <2>2. CASE n = m
    <3>1. pc'[n] = step /\ lease'[n] = g
      BY <1>2, <2>2 DEF DeliveryTypeOK
    <3> QED
      BY <1>1, <2>1, <2>2, <3>1 DEF OnePlace, OneFlight, Outstanding
  <2>3. CASE n # m
    <3>1. pc'[n] = pc[n] /\ lease'[n] = lease[n]
      BY <1>2, <2>3 DEF DeliveryTypeOK
    <3> QED
      BY Zenon, <1>1, <2>1, <3>1, PlaceKept, FlightKept
  <2> QED
    BY <2>2, <2>3
<1> QED
  BY <1>1, <1>2, <1>3 DEF DeliveryInv

-----------------------------------------------------------------------------
(* The steps of a deliverer.                                               *)

(* The steps that wait, choose or give up.                                 *)
LEMMA WaitingKeeps ==
    ASSUME DeliveryInv, NEW m \in Payloads,
           \/ Publish(m) \/ DeliverToSession(m) \/ LeaseAgain(m)
           \/ GiveUpWaiting(m) \/ QuotaExhausted(m)
    PROVE  DeliveryInv'
<1>1. /\ OnePlace(m) /\ lease[m] \in Nat /\ lease[m] <= epoch /\ epoch \in Nat
      /\ lease = [lease EXCEPT ![m] = lease[m]] /\ pc = [pc EXCEPT ![m] = pc[m]]
  BY Zenon DEF DeliveryInv, DeliveryTypeOK, OneFlight
<1>2. /\ ~ entry[m].in /\ m \notin Range(offline) /\ m \notin Range(pending)
      /\ m \notin acked \cup lost
  BY <1>1 DEF OnePlace, Publish, DeliverToSession, LeaseAgain, GiveUpWaiting, QuotaExhausted
<1>3. UNCHANGED <<held, entry, batch, connection, queues, network, outcome>>
  BY DEF Publish, DeliverToSession, LeaseAgain, GiveUpWaiting, QuotaExhausted
<1>4. \E step \in {"deliver", "park", "acquire", "overflow"}, g \in {lease[m], epoch} :
         pc' = [pc EXCEPT ![m] = step] /\ lease' = [lease EXCEPT ![m] = g]
  <2>1. CASE Publish(m)
    BY <1>1, <2>1 DEF Publish, Goto
  <2>2. CASE DeliverToSession(m)
    BY <1>1, <2>2 DEF DeliverToSession, Goto
  <2>3. CASE LeaseAgain(m)
    <3>1. pc' = [pc EXCEPT ![m] = "acquire"] /\ lease' = [lease EXCEPT ![m] = epoch]
      BY <1>1, <2>3 DEF LeaseAgain
    <3> QED
      BY <3>1
  <2>4. CASE GiveUpWaiting(m) \/ QuotaExhausted(m)
    BY <1>1, <2>4 DEF GiveUpWaiting, QuotaExhausted, ReleaseLease, Goto
  <2> QED
    BY <2>1, <2>2, <2>3, <2>4
<1>5. PICK step \in {"deliver", "park", "acquire", "overflow"}, g \in {lease[m], epoch} :
         pc' = [pc EXCEPT ![m] = step] /\ lease' = [lease EXCEPT ![m] = g]
  BY Zenon, <1>4
<1>6. g \in Nat /\ g <= epoch
  BY <1>1, <1>5
<1> QED
  BY Zenon, <1>2, <1>3, <1>5, <1>6, DelivererMoves

(* deliverOfflineMessages starts on the next of its batch.                 *)
LEMMA BatchNextKeeps ==
    ASSUME DeliveryInv, NEW g \in Epochs, BatchNext(g)
    PROVE  DeliveryInv'
<1>1. PICK m : m = Head(batch[g])
  BY Zenon
<1>2. m \in Payloads
  <2>1. batch[g] \in Seq(Payloads \cup {"drain"}) /\ batch[g] # <<>> /\ m # "drain"
    BY <1>1 DEF DeliveryInv, DeliveryTypeOK, BatchNext
  <2> QED
    BY <1>1, <2>1, RangeOfTail
<1>3. /\ pc[m] = "batched" /\ pc' = [pc EXCEPT ![m] = "deliver"]
      /\ UNCHANGED <<held, lease, entry, batch, connection, queues, network, outcome>>
  BY <1>1 DEF BatchNext, Goto
<1>4. /\ OnePlace(m) /\ lease[m] \in Nat /\ lease[m] <= epoch
      /\ lease' = [lease EXCEPT ![m] = lease[m]]
  BY Zenon, <1>2, <1>3 DEF DeliveryInv, DeliveryTypeOK, OneFlight
<1>5. /\ ~ entry[m].in /\ m \notin Range(offline) /\ m \notin Range(pending)
      /\ m \notin acked \cup lost
  BY <1>3, <1>4 DEF OnePlace
<1> QED
  BY Zenon, <1>2, <1>3, <1>4, <1>5, DelivererMoves

(* A delivery that returns leaves batches of messages.                     *)
LEMMA ReturnsBatches ==
    ASSUME DeliveryTypeOK, NEW m \in Payloads, Return(m)
    PROVE  /\ batch' \in [Epochs -> Seq(Payloads \cup {"drain"})]
           /\ pc' = [pc EXCEPT ![m] = "idle"]
<1>1. ASSUME NEW g \in Epochs
      PROVE  batch[g] \in Seq(Payloads \cup {"drain"})
             /\ (batch[g] # <<>> => Tail(batch[g]) \in Seq(Payloads \cup {"drain"}))
  <2>1. batch[g] \in Seq(Payloads \cup {"drain"})
    BY DEF DeliveryTypeOK
  <2> QED
    BY <2>1, RangeOfTail
<1> QED
  BY <1>1 DEF Return, Goto

(* A delivery to an offline session ends in the offline queue.             *)
LEMMA DeliverOfflineKeeps ==
    ASSUME DeliveryInv, NEW m \in Payloads, DeliverOffline(m)
    PROVE  DeliveryInv'
<1>1. /\ mode' = mode /\ epoch' = epoch /\ up' = up /\ held' = held /\ entry' = entry
      /\ lease' = lease /\ pending' = pending /\ wire' = wire
      /\ client' = client /\ acked' = acked /\ lost' = lost
      /\ pc[m] = "park" /\ offline' = offline \o <<m>> /\ Return(m)
  BY DEF DeliverOffline, Park, connection, network, outcome
<1>2. DeliveryTypeOK /\ OnePlace(m)
  BY DEF DeliveryInv
<1>3. pc' = [pc EXCEPT ![m] = "idle"] /\ batch' \in [Epochs -> Seq(Payloads \cup {"drain"})]
  BY <1>1, <1>2, ReturnsBatches
<1>4. offline' \in Seq(Payloads) /\ Range(offline') \subseteq Range(offline) \cup {m}
  <2>1. offline \in Seq(Payloads) /\ <<m>> \in Seq(Payloads)
    BY <1>2 DEF DeliveryTypeOK
  <2>2. Range(<<m>>) \subseteq {m}
    <3>1. Len(<<m>>) = 1 /\ <<m>>[1] = m
      OBVIOUS
    <3>2. PICK t : t = <<m>>
      BY Zenon
    <3>3. t \in Seq(Payloads) /\ Len(t) = 1 /\ t[1] = m
      BY <2>1, <3>1, <3>2
    <3>4. Range(t) = {t[i] : i \in 1 .. Len(t)}
      BY <3>3, RangeOfSeq
    <3>5. \A i \in 1 .. Len(t) : t[i] = m
      BY <3>3
    <3> QED
      BY <3>2, <3>4, <3>5
  <2> QED
    BY Zenon, <1>1, <2>1, <2>2, RangeOfConcat
<1>5. DeliveryTypeOK'
  BY <1>1, <1>2, <1>3, <1>4 DEF DeliveryTypeOK
<1>6. ASSUME NEW n \in Payloads PROVE OnePlace(n)' /\ OneFlight(n)'
  <2>1. OnePlace(n) /\ OneFlight(n)
    BY DEF DeliveryInv
  <2>2. CASE n = m
    <3>1. pc'[n] = "idle"
      BY <1>2, <1>3, <2>2 DEF DeliveryTypeOK
    <3> QED
      BY <1>1, <1>2, <2>1, <2>2, <3>1 DEF OnePlace, OneFlight, Outstanding
  <2>3. CASE n # m
    <3>1. pc'[n] = pc[n]
      BY <1>2, <1>3, <2>3 DEF DeliveryTypeOK
    <3>2. n \in Range(offline') => n \in Range(offline)
      BY <1>4, <2>3
    <3> QED
      BY Zenon, <1>1, <2>1, <3>1, <3>2, PlaceKept, FlightKept
  <2> QED
    BY <2>2, <2>3
<1> QED
  BY <1>1, <1>5, <1>6 DEF DeliveryInv

(* A message without a token is pending, or dropped.                       *)
LEMMA OverflowKeeps ==
    ASSUME DeliveryInv, NEW m \in Payloads, Overflow(m)
    PROVE  DeliveryInv'
<1>1. /\ mode' = mode /\ epoch' = epoch /\ up' = up /\ held' = held /\ entry' = entry
      /\ lease' = lease /\ offline' = offline /\ wire' = wire
      /\ client' = client /\ acked' = acked
      /\ pc[m] = "overflow" /\ Return(m)
      /\ \/ pending' = Append(pending, m) /\ lost' = lost
         \/ pending' = pending /\ lost' = lost \cup {m}
  BY DEF Overflow, connection, network
<1>2. DeliveryTypeOK /\ OnePlace(m) /\ Distinct(pending) /\ pending \in Seq(Payloads)
  BY DEF DeliveryInv, DeliveryTypeOK
<1>3. pc' = [pc EXCEPT ![m] = "idle"] /\ batch' \in [Epochs -> Seq(Payloads \cup {"drain"})]
  BY <1>1, <1>2, ReturnsBatches
<1>4. /\ pending' \in Seq(Payloads) /\ Range(pending') \subseteq Range(pending) \cup {m}
      /\ Distinct(pending)'
  <2>1. m \notin Range(pending)
    BY <1>1, <1>2 DEF OnePlace
  <2>2. CASE pending' = Append(pending, m)
    BY <1>2, <2>1, <2>2, RangeOfAppend DEF Distinct
  <2>3. CASE pending' = pending
    BY <1>2, <2>3 DEF Distinct
  <2> QED
    BY <1>1, <2>2, <2>3
<1>5. DeliveryTypeOK'
  BY <1>1, <1>2, <1>3, <1>4 DEF DeliveryTypeOK
<1>6. ASSUME NEW n \in Payloads PROVE OnePlace(n)' /\ OneFlight(n)'
  <2>1. OnePlace(n) /\ OneFlight(n)
    BY DEF DeliveryInv
  <2>2. CASE n = m
    <3>1. pc'[n] = "idle"
      BY <1>2, <1>3, <2>2 DEF DeliveryTypeOK
    <3>2. OneFlight(n)'
      BY <1>1, <2>1, <2>2, <3>1 DEF OnePlace, OneFlight, Outstanding
    <3> QED
      BY <1>1, <1>2, <2>1, <2>2, <3>1, <3>2 DEF OnePlace
  <2>3. CASE n # m
    <3>1. pc'[n] = pc[n]
      BY <1>2, <1>3, <2>3 DEF DeliveryTypeOK
    <3>2. /\ n \in Range(pending') => n \in Range(pending)
          /\ n \in acked' \cup lost' => n \in acked \cup lost
      BY <1>1, <1>4, <2>3
    <3> QED
      BY Zenon, <1>1, <2>1, <3>1, <3>2, PlaceKept, FlightKept
  <2> QED
    BY <2>2, <2>3
<1> QED
  BY <1>1, <1>4, <1>5, <1>6 DEF DeliveryInv

(* A deliverer takes a token of the current generation.                    *)
LEMMA AcquireQuotaKeeps ==
    ASSUME DeliveryInv, NEW m \in Payloads, AcquireQuota(m)
    PROVE  DeliveryInv'
<1>1. /\ mode' = mode /\ epoch' = epoch /\ up' = up /\ entry' = entry /\ batch' = batch
      /\ lease' = lease /\ offline' = offline /\ pending' = pending /\ wire' = wire
      /\ client' = client /\ acked' = acked /\ lost' = lost
      /\ pc[m] = "acquire" /\ pc' = [pc EXCEPT ![m] = "add"]
      /\ HasToken(m) /\ held' = held \cup {m}
  BY DEF AcquireQuota, Goto, connection, queues, network, outcome
<1>2. DeliveryTypeOK /\ DeliveryTypeOK'
  BY <1>1 DEF DeliveryInv, DeliveryTypeOK
<1>3. IsFiniteSet(held') /\ Cardinality(held') <= Window
  BY <1>1, TokensBounded DEF DeliveryInv
<1>4. ASSUME NEW n \in Payloads PROVE OnePlace(n)' /\ OneFlight(n)'
  <2>1. OnePlace(n) /\ OneFlight(n)
    BY DEF DeliveryInv
  <2>2. CASE n = m
    <3>1. pc'[n] = "add"
      BY <1>1, <1>2, <2>2 DEF DeliveryTypeOK
    <3> QED
      BY <1>1, <2>1, <2>2, <3>1 DEF OnePlace, OneFlight, Outstanding
  <2>3. CASE n # m
    <3>1. pc'[n] = pc[n]
      BY <1>1, <1>2, <2>3 DEF DeliveryTypeOK
    <3> QED
      BY Zenon, <1>1, <2>1, <3>1, PlaceKept, FlightKept
  <2> QED
    BY <2>2, <2>3
<1> QED
  BY <1>1, <1>2, <1>3, <1>4 DEF DeliveryInv

(* The message is stored inflight, or the token goes back.                 *)
LEMMA AddInflightKeeps ==
    ASSUME DeliveryInv, NEW m \in Payloads, AddInflight(m)
    PROVE  DeliveryInv'
<1>1. /\ mode' = mode /\ epoch' = epoch /\ up' = up /\ batch' = batch
      /\ lease' = lease /\ offline' = offline /\ pending' = pending /\ wire' = wire
      /\ client' = client /\ acked' = acked /\ lost' = lost /\ pc[m] = "add"
  BY DEF AddInflight, connection, queues, network, outcome
<1>2. DeliveryTypeOK /\ OnePlace(m) /\ OneFlight(m) /\ held \subseteq Payloads
  BY SMTT(30) DEF DeliveryInv, DeliveryTypeOK
<1>3. PICK e \in [in : BOOLEAN, sent : Nat, rec : BOOLEAN] :
        e.in /\ e = [NoEntry EXCEPT !.in = TRUE]
  BY Zenon DEF NoEntry
<1>4. \/ /\ entry' = [entry EXCEPT ![m] = e] /\ pc' = [pc EXCEPT ![m] = "write"] /\ held' = held
      \/ /\ entry' = entry /\ pc' = [pc EXCEPT ![m] = "overflow"]
         /\ held' \subseteq held /\ \A n \in held : n # m => n \in held'
  BY <1>3 DEF AddInflight, Goto
<1>5. DeliveryTypeOK'
  <2>1. entry' \in [Payloads -> [in : BOOLEAN, sent : Nat, rec : BOOLEAN]]
    <3>1. PICK E : E = [in : BOOLEAN, sent : Nat, rec : BOOLEAN]
      BY Zenon
    <3>2. entry \in [Payloads -> E] /\ e \in E
      BY <1>2, <1>3, <3>1 DEF DeliveryTypeOK
    <3>3. entry' \in [Payloads -> E]
      BY <1>4, <3>2
    <3> QED
      BY <3>1, <3>3
  <2>a. held' \subseteq Payloads
    BY <1>2, <1>4
  <2>2. pc' \in [Payloads -> {"idle", "batched", "deliver", "park", "acquire", "overflow", "add",
                              "write"}]
    BY Zenon, <1>2, <1>4 DEF DeliveryTypeOK
  <2> QED
    BY Zenon, <1>1, <1>2, <2>1, <2>a, <2>2 DEF DeliveryTypeOK
<1>6. IsFiniteSet(held') /\ Cardinality(held') <= Window
  <2>1. held' \subseteq held
    BY <1>4
  <2> QED
    BY <2>1, FewerTokens DEF DeliveryInv
<1>7. ASSUME NEW n \in Payloads PROVE OnePlace(n)' /\ OneFlight(n)'
  <2>1. OnePlace(n) /\ OneFlight(n)
    BY DEF DeliveryInv
  <2>2. CASE n = m
    <3>1. CASE pc' = [pc EXCEPT ![m] = "write"]
      <4>1. pc'[n] = "write" /\ entry'[n] = e /\ held' = held
        BY <1>2, <1>4, <2>2, <3>1 DEF DeliveryTypeOK
      <4> QED
        BY <1>1, <1>3, <2>1, <2>2, <4>1 DEF OnePlace, OneFlight, Outstanding
    <3>2. CASE pc' = [pc EXCEPT ![m] = "overflow"] /\ entry' = entry
      <4>1. pc'[n] = "overflow"
        BY <1>2, <2>2, <3>2 DEF DeliveryTypeOK
      <4> QED
        BY <1>1, <2>1, <2>2, <3>2, <4>1 DEF OnePlace, OneFlight, Outstanding
    <3> QED
      BY <1>4, <3>1, <3>2
  <2>3. CASE n # m
    <3>1. pc'[n] = pc[n] /\ entry'[n] = entry[n] /\ (n \in held => n \in held')
      BY <1>2, <1>4, <2>3 DEF DeliveryTypeOK
    <3> QED
      BY Zenon, <1>1, <2>1, <3>1, PlaceKept, FlightKept
  <2> QED
    BY <2>2, <2>3
<1> QED
  BY <1>1, <1>5, <1>6, <1>7 DEF DeliveryInv

(* The packet is queued on the leased connection, or is not.               *)
LEMMA WritePublishKeeps ==
    ASSUME DeliveryInv, NEW m \in Payloads, NEW full \in BOOLEAN, WritePublish(m, full)
    PROVE  DeliveryInv'
<1>1. /\ mode' = mode /\ epoch' = epoch /\ up' = up /\ held' = held /\ entry' = entry
      /\ lease' = lease /\ offline' = offline /\ pending' = pending
      /\ client' = client /\ acked' = acked /\ lost' = lost
      /\ pc[m] = "write" /\ Return(m)
      /\ wire' = wire \/ (lease[m] = epoch /\ wire' = wire \cup {<<epoch, m>>})
  BY DEF WritePublish, connection, queues
<1>2. DeliveryTypeOK /\ OnePlace(m) /\ OneFlight(m) /\ epoch \in Nat
  BY DEF DeliveryInv, DeliveryTypeOK
<1>3. pc' = [pc EXCEPT ![m] = "idle"] /\ batch' \in [Epochs -> Seq(Payloads \cup {"drain"})]
  BY <1>1, <1>2, ReturnsBatches
<1>4. DeliveryTypeOK'
  BY <1>1, <1>2, <1>3 DEF DeliveryTypeOK
<1>5. ASSUME NEW n \in Payloads PROVE OnePlace(n)' /\ OneFlight(n)'
  <2>1. OnePlace(n) /\ OneFlight(n)
    BY DEF DeliveryInv
  <2>2. CASE n = m
    <3>1. pc'[n] = "idle"
      BY <1>2, <1>3, <2>2 DEF DeliveryTypeOK
    <3>2. OnePlace(n)'
      BY <1>1, <2>1, <2>2, <3>1 DEF OnePlace
    <3>3. ~ Outstanding(n) /\ entry[n].in
      BY <1>1, <2>1, <2>2 DEF OnePlace, OneFlight
    <3>4. OneFlight(n)'
      BY <1>1, <2>1, <2>2, <3>1, <3>3 DEF OneFlight, Outstanding
    <3> QED
      BY <3>2, <3>4
  <2>3. CASE n # m
    <3>1. pc'[n] = pc[n] /\ (<<epoch, n>> \in wire' => <<epoch, n>> \in wire)
      BY <1>1, <1>2, <1>3, <2>3 DEF DeliveryTypeOK
    <3> QED
      BY Zenon, <1>1, <2>1, <3>1, PlaceKept, FlightKept
  <2> QED
    BY <2>2, <2>3
<1>6. \A p \in wire' : p[1] <= epoch'
  <2>1. \A p \in wire : p[1] <= epoch
    BY DEF DeliveryInv
  <2> QED
    BY <1>1, <1>2, <2>1
<1> QED
  BY <1>1, <1>4, <1>5, <1>6 DEF DeliveryInv

-----------------------------------------------------------------------------
(* The connection.                                                         *)

(* A new generation: an empty window, and nothing of it on its way.        *)
LEMMA AttachKeeps ==
    ASSUME DeliveryInv, Attach
    PROVE  DeliveryInv'
<1>1. /\ mode' = mode /\ epoch' = epoch + 1 /\ up' = TRUE /\ held' = {} /\ client' = {}
      /\ entry' = entry /\ pc' = pc /\ lease' = lease /\ offline' = offline
      /\ pending' = pending /\ wire' = wire /\ acked' = acked /\ lost' = lost
      /\ epoch < MaxEpochs /\ batch' = [batch EXCEPT ![epoch + 1] = <<"drain">>]
  BY DEF Attach, queues, outcome
<1>2. DeliveryTypeOK /\ epoch \in Nat /\ epoch + 1 \in Nat
  BY DEF DeliveryInv, DeliveryTypeOK
<1>3. batch' \in [Epochs -> Seq(Payloads \cup {"drain"})]
  <2>1. <<"drain">> \in Seq(Payloads \cup {"drain"})
    OBVIOUS
  <2> QED
    BY Zenon, <1>1, <1>2, <2>1 DEF DeliveryTypeOK
<1>4. DeliveryTypeOK'
  BY <1>1, <1>2, <1>3 DEF DeliveryTypeOK
<1>5. \A p \in wire : p[1] <= epoch /\ p[1] \in Nat
  BY <1>2 DEF DeliveryInv, DeliveryTypeOK
<1>6. ASSUME NEW n \in Payloads PROVE OnePlace(n)' /\ OneFlight(n)'
  <2>1. OnePlace(n) /\ OneFlight(n) /\ lease[n] \in Nat
    BY <1>2 DEF DeliveryInv, DeliveryTypeOK
  <2>2. <<epoch + 1, n>> \notin wire
    <3>1. ASSUME <<epoch + 1, n>> \in wire PROVE FALSE
      <4>1. <<epoch + 1, n>>[1] <= epoch
        BY <1>5, <3>1
      <4> QED
        BY <1>2, <4>1
    <3> QED
      BY <3>1
  <2>3. lease[n] # epoch + 1 /\ lease[n] <= epoch + 1
    BY <1>2, <2>1 DEF OneFlight
  <2>4. OneFlight(n)'
    BY <1>1, <2>2, <2>3 DEF OneFlight, Outstanding
  <2> QED
    BY <1>1, <2>1, <2>4, PlaceKept
<1>7. \A p \in wire' : p[1] <= epoch'
  BY <1>1, <1>2, <1>5
<1>8. IsFiniteSet(held') /\ Cardinality(held') <= Window
  BY <1>1, FS_EmptySet, DeliveryAssumption
<1> QED
  BY <1>1, <1>4, <1>6, <1>7, <1>8 DEF DeliveryInv, Distinct

(* The connection ends: what is pending moves to the offline queue.        *)
LEMMA DropKeeps ==
    ASSUME DeliveryInv, Drop
    PROVE  DeliveryInv'
<1>1. /\ mode' = mode /\ epoch' = epoch /\ up' = FALSE /\ held' = held /\ client' = {}
      /\ entry' = entry /\ pc' = pc /\ lease' = lease /\ batch' = batch
      /\ offline' = offline \o pending /\ pending' = <<>>
      /\ wire' = {p \in wire : p[1] # epoch} /\ acked' = acked /\ lost' = lost
  BY DEF Drop, DrainPendingToOffline, Park, outcome
<1>2. DeliveryTypeOK /\ offline \in Seq(Payloads) /\ pending \in Seq(Payloads)
  BY DEF DeliveryInv, DeliveryTypeOK
<1>3. offline' \in Seq(Payloads) /\ Range(offline') \subseteq Range(offline) \cup Range(pending)
  BY <1>1, <1>2, RangeOfConcat
<1>4. pending' \in Seq(Payloads) /\ Range(pending') = {} /\ Distinct(pending)'
  <2>1. <<>> \in Seq(Payloads) /\ Len(<<>>) = 0
    OBVIOUS
  <2> QED
    BY <1>1, <2>1 DEF Range, Distinct
<1>5. DeliveryTypeOK'
  BY Zenon, <1>1, <1>2, <1>3, <1>4 DEF DeliveryTypeOK
<1>6. ASSUME NEW n \in Payloads PROVE OnePlace(n)' /\ OneFlight(n)'
  <2>1. OnePlace(n) /\ OneFlight(n)
    BY DEF DeliveryInv
  <2>2. OnePlace(n)'
    BY <1>1, <1>3, <1>4, <2>1 DEF OnePlace
  <2>3. <<epoch, n>> \notin wire'
    BY <1>1
  <2>4. OneFlight(n)'
    BY <1>1, <2>1, <2>3 DEF OneFlight, Outstanding
  <2> QED
    BY <2>2, <2>4
<1>7. \A p \in wire' : p[1] <= epoch'
  BY <1>1 DEF DeliveryInv
<1> QED
  BY <1>1, <1>4, <1>5, <1>6, <1>7 DEF DeliveryInv

(* The offline queue is handed to deliverOfflineMessages.                  *)
LEMMA DrainOfflineKeeps ==
    ASSUME DeliveryInv, NEW g \in Epochs, DrainOffline(g)
    PROVE  DeliveryInv'
<1>1. /\ mode' = mode /\ epoch' = epoch /\ up' = up /\ held' = held /\ client' = client
      /\ entry' = entry /\ lease' = lease /\ batch' = [batch EXCEPT ![g] = offline]
      /\ offline' = <<>> /\ pending' = pending /\ wire' = wire
      /\ acked' = acked /\ lost' = lost
      /\ pc' = [m \in Payloads |-> IF m \in Range(offline) THEN "batched" ELSE pc[m]]
  BY DEF DrainOffline, connection, network, outcome
<1>2. DeliveryTypeOK /\ offline \in Seq(Payloads)
  BY DEF DeliveryInv, DeliveryTypeOK
<1>3. offline' \in Seq(Payloads) /\ Range(offline') = {}
  <2>1. <<>> \in Seq(Payloads) /\ Len(<<>>) = 0
    OBVIOUS
  <2> QED
    BY <1>1, <2>1 DEF Range
<1>4. batch' \in [Epochs -> Seq(Payloads \cup {"drain"})]
  <2>1. offline \in Seq(Payloads \cup {"drain"})
    BY <1>2
  <2> QED
    BY <1>1, <1>2, <2>1 DEF DeliveryTypeOK
<1>5. DeliveryTypeOK'
  BY <1>1, <1>2, <1>3, <1>4 DEF DeliveryTypeOK
<1>6. ASSUME NEW n \in Payloads PROVE OnePlace(n)' /\ OneFlight(n)'
  <2>1. OnePlace(n) /\ OneFlight(n)
    BY DEF DeliveryInv
  <2>2. CASE n \in Range(offline)
    <3>1. pc'[n] = "batched"
      BY <1>1, <2>2
    <3> QED
      BY <1>1, <1>3, <2>1, <2>2, <3>1 DEF OnePlace, OneFlight, Outstanding
  <2>3. CASE n \notin Range(offline)
    <3>1. pc'[n] = pc[n]
      BY <1>1, <2>3
    <3> QED
      BY Zenon, <1>1, <1>3, <2>1, <3>1, PlaceKept, FlightKept
  <2> QED
    BY <2>2, <2>3
<1> QED
  BY <1>1, <1>5, <1>6 DEF DeliveryInv

(* The read loop starts, or nothing happens.                               *)
LEMMA ReadingKeeps ==
    ASSUME DeliveryInv, (\E g \in Epochs : StartReading(g)) \/ UNCHANGED deliveryVars
    PROVE  DeliveryInv'
<1>1. /\ mode' = mode /\ epoch' = epoch /\ up' = up /\ held' = held /\ client' = client
      /\ entry' = entry /\ pc' = pc /\ lease' = lease /\ batch' = batch
      /\ offline' = offline /\ pending' = pending /\ wire' = wire
      /\ acked' = acked /\ lost' = lost
  BY DEF StartReading, deliveryVars, connection, queues, outcome
<1>2. DeliveryTypeOK'
  BY <1>1 DEF DeliveryInv, DeliveryTypeOK
<1>3. \A n \in Payloads : OnePlace(n)' /\ OneFlight(n)'
  BY Zenon, <1>1, PlaceKept, FlightKept DEF DeliveryInv
<1> QED
  BY <1>1, <1>2, <1>3 DEF DeliveryInv, Distinct

-----------------------------------------------------------------------------
(* The client.                                                             *)

(* A packet leaves the send queue; if its connection is the current one,   *)
(* the client has it.                                                      *)
LEMMA FlushKeeps ==
    ASSUME DeliveryInv, NEW g \in Epochs, NEW m \in Payloads, Flush(g, m)
    PROVE  DeliveryInv'
<1>1. /\ mode' = mode /\ epoch' = epoch /\ up' = up /\ held' = held
      /\ pc' = pc /\ lease' = lease /\ batch' = batch
      /\ offline' = offline /\ pending' = pending /\ acked' = acked /\ lost' = lost
      /\ <<g, m>> \in wire /\ wire' = wire \ {<<g, m>>}
      /\ client' = IF g = epoch THEN client \cup {<<m, "publish">>} ELSE client
      /\ entry' = MarkSentIfEpoch(m, g)
  BY DEF Flush, connection, queues, outcome
<1>2. DeliveryTypeOK /\ g \in Nat
  BY DEF DeliveryInv, Epochs
<1>3. /\ entry' \in [Payloads -> [in : BOOLEAN, sent : Nat, rec : BOOLEAN]]
      /\ \A n \in Payloads : entry'[n].in = entry[n].in
  BY Zenon, <1>1, <1>2 DEF DeliveryTypeOK, MarkSentIfEpoch
<1>4. DeliveryTypeOK'
  BY SMTT(30), <1>1, <1>2, <1>3 DEF DeliveryTypeOK
<1>5. ASSUME NEW n \in Payloads PROVE OnePlace(n)' /\ OneFlight(n)'
  <2>1. OnePlace(n) /\ OneFlight(n) /\ entry'[n].in = entry[n].in
    BY <1>3 DEF DeliveryInv
  <2>2. OnePlace(n)'
    BY <1>1, <2>1, PlaceKept
  <2>3. CASE n = m /\ g = epoch
    <3>1. /\ entry[n].in /\ pc[n] = "idle" /\ n \in held /\ lease[n] <= epoch
          /\ <<n, "release">> \notin client
      BY <1>1, <2>1, <2>3 DEF OneFlight, Outstanding
    <3>2. <<epoch', n>> \notin wire' /\ <<n, "release">> \notin client'
      BY <1>1, <2>3, <3>1
    <3> QED
      BY <1>1, <2>1, <2>2, <3>1, <3>2 DEF OneFlight, Outstanding
  <2>4. CASE ~ (n = m /\ g = epoch)
    <3>1. /\ <<epoch, n>> \in wire' => <<epoch, n>> \in wire
          /\ \A phase \in {"publish", "release"} :
               <<n, phase>> \in client' => <<n, phase>> \in client
      BY <1>1, <2>4
    <3> QED
      BY <1>1, <2>1, <2>2, <3>1, FlightKept
  <2> QED
    BY <2>2, <2>3, <2>4
<1>6. \A p \in wire' : p[1] <= epoch'
  BY <1>1 DEF DeliveryInv
<1> QED
  BY <1>1, <1>4, <1>5, <1>6 DEF DeliveryInv

(* The second half of a QoS 2 delivery.                                    *)
LEMMA PubRecKeeps ==
    ASSUME DeliveryInv, NEW m \in Payloads, PubRec(m)
    PROVE  DeliveryInv'
<1>1. /\ mode' = mode /\ epoch' = epoch /\ up' = up /\ held' = held
      /\ pc' = pc /\ lease' = lease /\ batch' = batch /\ wire' = wire
      /\ offline' = offline /\ pending' = pending /\ acked' = acked /\ lost' = lost
      /\ <<m, "publish">> \in client
      /\ client' = (client \ {<<m, "publish">>}) \cup {<<m, "release">>}
      /\ entry' = IF entry[m].in THEN [entry EXCEPT ![m].rec = TRUE] ELSE entry
  BY DEF PubRec, connection, queues, outcome
<1>2. DeliveryTypeOK
  BY DEF DeliveryInv
<1>3. /\ entry' \in [Payloads -> [in : BOOLEAN, sent : Nat, rec : BOOLEAN]]
      /\ \A n \in Payloads : entry'[n].in = entry[n].in
  BY Zenon, <1>1, <1>2 DEF DeliveryTypeOK
<1>4. DeliveryTypeOK'
  BY <1>1, <1>2, <1>3 DEF DeliveryTypeOK
<1>5. ASSUME NEW n \in Payloads PROVE OnePlace(n)' /\ OneFlight(n)'
  <2>1. OnePlace(n) /\ OneFlight(n) /\ entry'[n].in = entry[n].in
    BY <1>3 DEF DeliveryInv
  <2>2. OnePlace(n)'
    BY <1>1, <2>1, PlaceKept
  <2>3. CASE n = m
    BY <1>1, <2>1, <2>2, <2>3 DEF OneFlight, Outstanding
  <2>4. CASE n # m
    <3>1. \A phase \in {"publish", "release"} :
               <<n, phase>> \in client' => <<n, phase>> \in client
      BY <1>1, <2>4
    <3> QED
      BY Zenon, <1>1, <2>1, <2>2, <3>1, FlightKept
  <2> QED
    BY <2>3, <2>4
<1> QED
  BY <1>1, <1>4, <1>5 DEF DeliveryInv

(* An entry is sent again, under a token of this generation.               *)
LEMMA RetryKeeps ==
    ASSUME DeliveryInv, NEW m \in Payloads, Retry(m)
    PROVE  DeliveryInv'
<1>1. /\ mode' = mode /\ epoch' = epoch /\ up' = up
      /\ pc' = pc /\ lease' = lease /\ batch' = batch
      /\ offline' = offline /\ pending' = pending /\ acked' = acked /\ lost' = lost
      /\ entry[m].in /\ pc[m] # "write" /\ ~ Outstanding(m)
      /\ HasToken(m) /\ held' = held \cup {m}
      /\ \/ /\ client' = client \cup {<<m, "release">>} /\ wire' = wire
            /\ entry' = [entry EXCEPT ![m].sent = epoch]
         \/ wire' = wire \cup {<<epoch, m>>} /\ client' = client /\ entry' = entry
  BY DEF Retry, connection, queues, outcome
<1>2. DeliveryTypeOK /\ epoch \in Nat
  BY DEF DeliveryInv, DeliveryTypeOK
<1>3. /\ entry' \in [Payloads -> [in : BOOLEAN, sent : Nat, rec : BOOLEAN]]
      /\ \A n \in Payloads : entry'[n].in = entry[n].in
  <2>1. entry \in [Payloads -> [in : BOOLEAN, sent : Nat, rec : BOOLEAN]]
    BY <1>2 DEF DeliveryTypeOK
  <2>2. CASE entry' = [entry EXCEPT ![m].sent = epoch]
    BY <1>2, <2>1, <2>2
  <2> QED
    BY <1>1, <2>1, <2>2
<1>4. DeliveryTypeOK'
  <2>1. wire' \subseteq Nat \X Payloads /\ client' \subseteq Payloads \X {"publish", "release"}
    BY <1>1, <1>2 DEF DeliveryTypeOK
  <2> QED
    BY <1>1, <1>2, <1>3, <2>1 DEF DeliveryTypeOK
<1>5. IsFiniteSet(held') /\ Cardinality(held') <= Window
  BY <1>1, TokensBounded DEF DeliveryInv
<1>6. ASSUME NEW n \in Payloads PROVE OnePlace(n)' /\ OneFlight(n)'
  <2>1. OnePlace(n) /\ OneFlight(n) /\ entry'[n].in = entry[n].in
    BY <1>3 DEF DeliveryInv
  <2>2. OnePlace(n)'
    BY <1>1, <2>1, PlaceKept
  <2>3. CASE n = m
    <3>1. pc[n] = "idle"
      BY <1>1, <1>2, <2>1, <2>3 DEF OnePlace
    <3> QED
      BY <1>1, <2>1, <2>2, <2>3, <3>1 DEF OneFlight, Outstanding
  <2>4. CASE n # m
    <3>1. /\ <<epoch, n>> \in wire' => <<epoch, n>> \in wire
          /\ \A phase \in {"publish", "release"} :
               <<n, phase>> \in client' => <<n, phase>> \in client
      BY <1>1, <2>4
    <3> QED
      BY <1>1, <2>1, <2>2, <3>1, FlightKept
  <2> QED
    BY <2>3, <2>4
<1>7. \A p \in wire' : p[1] <= epoch'
  <2>1. \A p \in wire : p[1] <= epoch
    BY DEF DeliveryInv
  <2> QED
    BY <1>1, <1>2, <2>1
<1> QED
  BY <1>1, <1>4, <1>5, <1>6, <1>7 DEF DeliveryInv

(* A message is acknowledged, and the oldest pending one is delivered.     *)
LEMMA PubAckKeeps ==
    ASSUME DeliveryInv, NEW m \in Payloads, PubAck(m)
    PROVE  DeliveryInv'
<1>1. PICK phase \in {"publish", "release"} :
         /\ <<m, phase>> \in client /\ client' = client \ {<<m, phase>>}
         /\ mode' = mode /\ epoch' = epoch /\ up' = up
         /\ lease' = lease /\ batch' = batch /\ wire' = wire
         /\ offline' = offline /\ acked' = acked \cup {m} /\ lost' = lost
         /\ entry[m].in /\ entry' = [entry EXCEPT ![m] = NoEntry] /\ held' = held \ {m}
         /\ \/ pending = <<>> /\ pending' = pending /\ pc' = pc
            \/ /\ pending # <<>> /\ pending' = Tail(pending)
               /\ pc' = [pc EXCEPT ![Head(pending)] = "deliver"]
  BY DEF PubAck, AckMessage, Goto, connection
<1>2. DeliveryTypeOK /\ pending \in Seq(Payloads) /\ Distinct(pending)
  BY DEF DeliveryInv, DeliveryTypeOK
<1>3. OnePlace(m) /\ OneFlight(m) /\ Outstanding(m)
  BY <1>1 DEF DeliveryInv, Outstanding
<1>4. /\ pending' \in Seq(Payloads) /\ Distinct(pending)'
      /\ \A n : n \in Range(pending') => n \in Range(pending)
  <2>1. CASE pending # <<>> /\ pending' = Tail(pending)
    BY <1>2, <2>1, RangeOfTail DEF Distinct
  <2>2. CASE pending' = pending
    BY <1>2, <2>2 DEF Distinct
  <2> QED
    BY <1>1, <2>1, <2>2
<1>5. /\ pc' \in [Payloads -> {"idle", "batched", "deliver", "park", "acquire", "overflow", "add",
                              "write"}]
      /\ \A n \in Payloads :
           \/ pc'[n] = pc[n]
           \/ pc'[n] = "deliver" /\ n \in Range(pending) /\ n \notin Range(pending')
  <2>1. CASE pc' = pc
    BY <1>2, <2>1 DEF DeliveryTypeOK
  <2>2. CASE /\ pending # <<>> /\ pending' = Tail(pending)
             /\ pc' = [pc EXCEPT ![Head(pending)] = "deliver"]
    <3>1. PICK h \in Payloads :
            h = Head(pending) /\ h \in Range(pending) /\ h \notin Range(pending')
      BY <1>2, <2>2, RangeOfTail
    <3>2. pc' = [pc EXCEPT ![h] = "deliver"]
      BY <2>2, <3>1
    <3> QED
      BY <1>2, <3>1, <3>2 DEF DeliveryTypeOK
  <2> QED
    BY <1>1, <2>1, <2>2
<1>6. /\ entry' \in [Payloads -> [in : BOOLEAN, sent : Nat, rec : BOOLEAN]]
      /\ ~ entry'[m].in /\ \A n \in Payloads : n # m => entry'[n] = entry[n]
  <2>1. NoEntry \in [in : BOOLEAN, sent : Nat, rec : BOOLEAN] /\ ~ NoEntry.in
    BY DEF NoEntry
  <2>2. entry \in [Payloads -> [in : BOOLEAN, sent : Nat, rec : BOOLEAN]]
    BY <1>2 DEF DeliveryTypeOK
  <2> QED
    BY <1>1, <2>1, <2>2
<1>7. DeliveryTypeOK'
  BY <1>1, <1>2, <1>4, <1>5, <1>6 DEF DeliveryTypeOK
<1>8. IsFiniteSet(held') /\ Cardinality(held') <= Window
  <2>1. held' \subseteq held
    BY <1>1
  <2> QED
    BY <2>1, FewerTokens DEF DeliveryInv
<1>9. OnePlace(m)' /\ OneFlight(m)'
  <2>1. /\ pc[m] = "idle" /\ m \notin Range(offline) /\ m \notin Range(pending)
        /\ <<epoch, m>> \notin wire /\ lease[m] <= epoch
        /\ \A ph \in {"publish", "release"} : <<m, ph>> \notin client'
    BY <1>1, <1>3 DEF OnePlace, OneFlight
  <2>2. pc'[m] = "idle" /\ m \notin Range(pending')
    BY <1>4, <1>5, <2>1
  <2> QED
    BY <1>1, <1>6, <2>1, <2>2 DEF OnePlace, OneFlight, Outstanding
<1>10. ASSUME NEW n \in Payloads, n # m PROVE OnePlace(n)' /\ OneFlight(n)'
  <2>1. OnePlace(n) /\ OneFlight(n) /\ entry'[n] = entry[n]
    BY <1>6, <1>10 DEF DeliveryInv
  <2>2. /\ n \in held => n \in held'
        /\ n \in acked' \cup lost' => n \in acked \cup lost
        /\ \A ph \in {"publish", "release"} : <<n, ph>> \in client' => <<n, ph>> \in client
    BY <1>1, <1>10
  <2>3. CASE pc'[n] = pc[n]
    BY Zenon, <1>1, <1>4, <2>1, <2>2, <2>3, PlaceKept, FlightKept
  <2>4. CASE pc'[n] = "deliver" /\ n \in Range(pending) /\ n \notin Range(pending')
    <3>1. OnePlace(n)'
      BY <1>1, <2>1, <2>2, <2>4 DEF OnePlace
    <3>2. ~ entry[n].in
      BY <2>1, <2>4 DEF OnePlace
    <3>3. OneFlight(n)'
      BY <1>1, <2>1, <2>2, <2>4, <3>2 DEF OneFlight, Outstanding
    <3> QED
      BY <3>1, <3>3
  <2> QED
    BY <1>5, <2>3, <2>4
<1> QED
  BY <1>1, <1>4, <1>7, <1>8, <1>9, <1>10 DEF DeliveryInv

-----------------------------------------------------------------------------
(* Every step keeps the invariant.                                         *)
LEMMA DeliveryInvKept ==
    ASSUME DeliveryInv, [DeliveryNext]_deliveryVars
    PROVE  DeliveryInv'
<1>1. ASSUME NEW m \in Payloads, Deliver(m) PROVE DeliveryInv'
  BY Zenon, <1>1, WaitingKeeps, DeliverOfflineKeeps, AcquireQuotaKeeps, OverflowKeeps,
     AddInflightKeeps, WritePublishKeeps DEF Deliver
<1>2. ASSUME NEW g \in Epochs, Serve(g) PROVE DeliveryInv'
  BY <1>2, DrainOfflineKeeps, BatchNextKeeps, ReadingKeeps DEF Serve
<1>3. ASSUME NEW m \in Payloads,
             Publish(m) \/ WritePublish(m, TRUE) \/ PubAck(m) \/ PubRec(m) \/ Retry(m)
      PROVE  DeliveryInv'
  BY Zenon, <1>3, WaitingKeeps, WritePublishKeeps, PubAckKeeps, PubRecKeeps, RetryKeeps
<1>4. CASE UNCHANGED deliveryVars
  BY <1>4, ReadingKeeps
<1>5. CASE DeliveryNext
  BY Zenon, <1>1, <1>2, <1>3, <1>5, AttachKeeps, DropKeeps, FlushKeeps DEF DeliveryNext
<1> QED
  BY <1>4, <1>5

(* DeliveryInv holds in every state.                                       *)
THEOREM DeliveryInvariance == DeliverySpec => []DeliveryInv
<1>1. DeliveryInit => DeliveryInv
  <2> SUFFICES ASSUME DeliveryInit PROVE DeliveryInv
    OBVIOUS
  <2>1. <<>> \in Seq(Payloads) /\ <<>> \in Seq(Payloads \cup {"drain"}) /\ Len(<<>>) = 0
    OBVIOUS
  <2>2. NoEntry \in [in : BOOLEAN, sent : Nat, rec : BOOLEAN] /\ ~ NoEntry.in
    BY DEF NoEntry
  <2>3. DeliveryTypeOK
    BY Zenon, <2>1, <2>2 DEF DeliveryInit, DeliveryTypeOK
  <2>4. Range(offline) = {} /\ Range(pending) = {} /\ Distinct(pending)
    BY <2>1 DEF DeliveryInit, Range, Distinct
  <2>5. ASSUME NEW m \in Payloads PROVE OnePlace(m) /\ OneFlight(m)
    <3>1. pc[m] = "idle" /\ ~ entry[m].in /\ lease[m] = 0 /\ m \notin acked \cup lost
      BY <2>2 DEF DeliveryInit
    <3> QED
      BY <2>4, <3>1 DEF DeliveryInit, OnePlace, OneFlight, Outstanding
  <2>6. IsFiniteSet(held) /\ Cardinality(held) <= Window
    BY FS_EmptySet, DeliveryAssumption DEF DeliveryInit
  <2> QED
    BY <2>3, <2>4, <2>5, <2>6 DEF DeliveryInit, DeliveryInv
<1>2. DeliveryInv /\ [DeliveryNext]_deliveryVars => DeliveryInv'
  BY DeliveryInvKept
<1> QED
  BY <1>1, <1>2, PTL DEF DeliverySpec

(* The client is never sent more unanswered PUBLISH packets on one         *)
(* connection than its Receive Maximum (sendwindow.go).                    *)
THEOREM WindowIsRespected == DeliverySpec => []WindowRespected
<1>1. DeliveryInv => WindowRespected
  <2> SUFFICES ASSUME DeliveryInv PROVE WindowRespected
    OBVIOUS
  <2>1. {m \in Payloads : Outstanding(m)} \subseteq held
    BY Zenon DEF DeliveryInv, OneFlight
  <2> QED
    BY <2>1, FewerTokens DEF DeliveryInv, WindowRespected
<1> QED
  BY <1>1, DeliveryInvariance, PTL

(* A message is in one place at a time and in none once it is settled,     *)
(* whatever takeovers happen in the middle of its delivery (delivery.go).  *)
THEOREM MessagesHeldOnce == DeliverySpec => []HeldOnce
<1>1. DeliveryInv => HeldOnce
  BY DEF DeliveryInv, OnePlace, HeldOnce, Places
<1> QED
  BY <1>1, DeliveryInvariance, PTL

-----------------------------------------------------------------------------
(* Backpressure.  With room in the inflight store for every message of     *)
(* the session, a deliverer reaches the overflow only in queue mode.       *)
LEMMA RoomInflight ==
    ASSUME DeliveryInv, IsFiniteSet(Payloads), Cardinality(Payloads) <= MaxInflight,
           NEW m \in Payloads, pc[m] = "add"
    PROVE  Cardinality({n \in Payloads : entry[n].in}) < MaxInflight
<1>1. ~ entry[m].in
  BY DEF DeliveryInv, OnePlace
<1>2. /\ IsFiniteSet(Payloads \ {m}) /\ Cardinality(Payloads \ {m}) = Cardinality(Payloads) - 1
  BY FS_RemoveElement
<1>3. PICK S : S = {n \in Payloads : entry[n].in}
  BY Zenon
<1>4. IsFiniteSet(S) /\ Cardinality(S) <= Cardinality(Payloads \ {m})
  <2>1. S \subseteq Payloads \ {m}
    BY <1>1, <1>3
  <2> QED
    BY <1>2, <2>1, FS_Subset
<1>5. Cardinality(S) \in Nat /\ Cardinality(Payloads) \in Nat /\ MaxInflight \in Nat
  BY <1>4, FS_CardinalityType, DeliveryAssumption
<1> QED
  BY <1>2, <1>3, <1>4, <1>5

LEMMA NoOverflowKept ==
    ASSUME DeliveryInv, NoOverflow, IsFiniteSet(Payloads), Cardinality(Payloads) <= MaxInflight,
           [DeliveryNext]_deliveryVars
    PROVE  NoOverflow'
<1> SUFFICES ASSUME mode' = "backpressure"
             PROVE  lost' = {} /\ \A n \in Payloads : pc'[n] # "overflow"
  BY DEF NoOverflow
<1>1. pc \in [Payloads -> {"idle", "batched", "deliver", "park", "acquire", "overflow", "add",
                           "write"}]
  BY DEF DeliveryInv, DeliveryTypeOK
<1>2. mode' = mode
  BY Zenon DEF DeliveryNext, Attach, Drop, Publish, Deliver, DeliverToSession, DeliverOffline,
     AcquireQuota, LeaseAgain, GiveUpWaiting, QuotaExhausted, Overflow, AddInflight, WritePublish,
     PubAck, PubRec, Retry, Serve, DrainOffline, BatchNext, StartReading, Flush, connection,
     deliveryVars
<1>3. lost = {} /\ \A n \in Payloads : pc[n] # "overflow"
  BY <1>2 DEF NoOverflow
<1>4. ASSUME NEW m \in Payloads, Deliver(m) \/ WritePublish(m, TRUE) \/ Publish(m)
      PROVE  \/ lost' = lost /\ pc' = pc
             \/ lost' = lost /\ \E step : step # "overflow" /\ pc' = [pc EXCEPT ![m] = step]
  <2>1. CASE AddInflight(m)
    <3>1. Cardinality({n \in Payloads : entry[n].in}) < MaxInflight
      BY <2>1, RoomInflight DEF AddInflight
    <3> QED
      BY <2>1, <3>1 DEF AddInflight, Goto, outcome
  <2>2. CASE QuotaExhausted(m) \/ Overflow(m)
    BY <1>2, <1>3, <2>2 DEF QuotaExhausted, Overflow
  <2>3. CASE \/ Publish(m) \/ DeliverToSession(m) \/ DeliverOffline(m) \/ AcquireQuota(m)
             \/ GiveUpWaiting(m)
    BY Zenon, <2>3 DEF Publish, DeliverToSession, DeliverOffline, AcquireQuota, GiveUpWaiting,
       ReleaseLease, Return, Goto, outcome
  <2>4. CASE LeaseAgain(m)
    BY <2>4 DEF LeaseAgain, outcome
  <2>5. CASE WritePublish(m, TRUE) \/ WritePublish(m, FALSE)
    BY Zenon, <2>5 DEF WritePublish, Return, Goto
  <2> QED
    BY Zenon, <1>4, <2>1, <2>2, <2>3, <2>4, <2>5 DEF Deliver
<1>5. ASSUME NEW m \in Payloads, Deliver(m) \/ WritePublish(m, TRUE) \/ Publish(m)
      PROVE  lost' = {} /\ \A n \in Payloads : pc'[n] # "overflow"
  BY Zenon, <1>1, <1>3, <1>4, <1>5
<1>6. CASE \/ Attach \/ Drop \/ UNCHANGED deliveryVars
           \/ \E m \in Payloads : PubRec(m) \/ Retry(m)
           \/ \E g \in Epochs : StartReading(g) \/ \E m \in Payloads : Flush(g, m)
  BY Zenon, <1>3, <1>6 DEF Attach, Drop, PubRec, Retry, StartReading, Flush, outcome, deliveryVars
<1>7. CASE \E m \in Payloads : PubAck(m)
  BY <1>1, <1>3, <1>7 DEF PubAck, AckMessage, Goto
<1>8. CASE \E g \in Epochs : DrainOffline(g) \/ BatchNext(g)
  BY <1>1, <1>3, <1>8 DEF DrainOffline, BatchNext, Goto, outcome
<1> QED
  BY Zenon, <1>5, <1>6, <1>7, <1>8 DEF DeliveryNext, Serve

(* "This prevents message loss": in backpressure mode nothing is dropped,  *)
(* when the inflight store has room for the session's messages             *)
(* (delivery.go, session.go).                                              *)
THEOREM BackpressureDropsNothing ==
    ASSUME IsFiniteSet(Payloads), Cardinality(Payloads) <= MaxInflight
    PROVE  DeliverySpec => []NothingDropped
<1>1. DeliveryInit => NoOverflow
  BY DEF DeliveryInit, NoOverflow
<1>2. DeliveryInv /\ NoOverflow /\ [DeliveryNext]_deliveryVars => NoOverflow'
  BY NoOverflowKept
<1>3. NoOverflow => NothingDropped
  BY DEF NoOverflow, NothingDropped
<1> QED
  BY <1>1, <1>2, <1>3, DeliveryInvariance, PTL DEF DeliverySpec
=============================================================================
