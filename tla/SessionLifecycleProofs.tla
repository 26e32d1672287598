----------------------- MODULE SessionLifecycleProofs -----------------------
(***************************************************************************)
(* The life of a session and its Wills (SessionLifecycle): no Will is held *)
(* twice or lost, none waits in the store behind a connected client, and a *)
(* CONNECT that fails keeps the client's messages, for every number of     *)
(* connections, messages and restarts.                                     *)
(***************************************************************************)
EXTENDS SessionLifecycle, TLAPS

-----------------------------------------------------------------------------
(* The inductive invariant.                                                *)

Fates == {"unarmed", "armed", "published", "cancelled", "discarded", "dropped"}

SessionType ==
    [id : Nat, state : {"none", "new", "connected", "offline"}, epoch : Nat, will : Nat,
     keep : BOOLEAN]

ClaimType ==
    [conn : Nat, id : Nat, epoch : Nat, keep : BOOLEAN, continues : BOOLEAN, isNew : BOOLEAN]

CallbackType == [id : Nat, epoch : Nat, clean : BOOLEAN]

LifeTypeOK ==
    /\ sess \in SessionType /\ claims \subseteq ClaimType /\ callbacks \subseteq CallbackType
    /\ conns \in 0 .. MaxConns /\ storedWill \in 0 .. conns /\ remote \in 0 .. conns
    /\ outbox \subseteq 1 .. conns /\ fate \in [Conns -> Fates]
    /\ queue \in Seq(Messages) /\ overflow \in Seq(Messages) /\ storedQueue \in Seq(Messages)

(* The session object: what its state says of its generation, of the Will  *)
(* it has, of the stored one and of the stored messages.                   *)
SessionSound ==
    /\ sess.id <= conns /\ sess.will <= conns
    /\ sess.id = 0 => sess.state = "none"
    /\ sess.state = "none" => sess.id = 0 /\ sess.will = 0
    /\ sess.state = "new" => sess.epoch = 0 /\ storedQueue = <<>> /\ overflow = <<>>
    /\ sess.state \in {"connected", "offline"} => sess.epoch > 0
    /\ sess.state = "connected" => storedWill = 0
    /\ sess.state = "offline" /\ sess.will # 0 => storedWill = 0
    /\ remote # 0 => sess.id = 0

(* A CONNECT between createSession and attachSession that starts a fresh   *)
(* session finds no Will in the store.                                     *)
ClaimSound(k) ==
    /\ k.conn \in 1 .. conns /\ k.id \in 1 .. conns
    /\ k.isNew \/ ~ k.continues => k.epoch = 0
    /\ Current(k.id, k.epoch) /\ ~ k.continues => storedWill = 0

ClaimsSound ==
    /\ \A k \in claims : ClaimSound(k)
    /\ \A k, l \in claims : k.conn = l.conn => k = l

(* A callback that is not stale finds its session offline, and without a   *)
(* Will after a clean DISCONNECT.                                          *)
CallbackSound(b) ==
    /\ b.id \in 1 .. conns
    /\ b.id = sess.id => b.epoch <= sess.epoch
    /\ Current(b.id, b.epoch) => sess.state = "offline" /\ (b.clean => sess.will = 0)

LifeInv ==
    /\ LifeTypeOK /\ SessionSound /\ ClaimsSound
    /\ \A b \in callbacks : CallbackSound(b)

InSession(w) == sess.will = w /\ sess.state # "new"

(* An armed Will is in one place, another in none.                         *)
WillSound(w) ==
    /\ fate[w] = "armed" <=> (InSession(w) \/ storedWill = w \/ w \in outbox \/ remote = w)
    /\ InSession(w) => storedWill # w /\ w \notin outbox /\ remote # w
    /\ storedWill = w => w \notin outbox /\ remote # w
    /\ w \in outbox => remote # w
    /\ w > conns => fate[w] = "unarmed"

(* A CONNECT that has not attached has not armed its Will.                 *)
WillsSound ==
    /\ \A k \in claims : fate[k.conn] = "unarmed"
    /\ \A w \in Conns : WillSound(w)

-----------------------------------------------------------------------------
(* Sequences.                                                              *)

(* What persistSessionMessages writes over nothing is what it was given.   *)
LEMMA OverwriteTypes ==
    ASSUME NEW S, NEW q \in Seq(S), NEW old \in Seq(S)
    PROVE  Overwrite(old, q) \in Seq(S) /\ Range(q) \subseteq Range(Overwrite(old, q))
<1>1. PICK t : t = SubSeq(old, Len(q) + 1, Len(old))
  BY Zenon
<1>2. t \in Seq(S)
  <2>1. Len(q) + 1 \in Nat /\ Len(old) \in Nat /\ Len(q) + 1 >= 1
    OBVIOUS
  <2> QED
    BY <1>1, <2>1
<1>3. q \o t \in Seq(S) /\ Len(q \o t) = Len(q) + Len(t)
  BY <1>2
<1>4. \A i \in 1 .. Len(q) : i \in 1 .. Len(q \o t) /\ (q \o t)[i] = q[i]
  BY <1>2, <1>3
<1>5. Overwrite(old, q) = q \o t
  BY <1>1 DEF Overwrite
<1>6. DOMAIN (q \o t) = 1 .. Len(q \o t) /\ DOMAIN q = 1 .. Len(q)
  BY <1>3
<1> QED
  BY <1>3, <1>4, <1>5, <1>6 DEF Range

-----------------------------------------------------------------------------
(* What most steps do.                                                     *)

(* The session object stays.                                               *)
LEMMA SessionStays ==
    ASSUME LifeInv, sess' = sess, conns' = conns, remote' = remote,
           claims' \subseteq claims, callbacks' \subseteq callbacks,
           storedWill' \in {0, storedWill}, outbox' \subseteq 1 .. conns,
           fate' \in [Conns -> Fates], queue' \in Seq(Messages), overflow' \in Seq(Messages),
           storedQueue' \in Seq(Messages),
           sess.state = "new" => storedQueue' = storedQueue /\ overflow' = overflow
    PROVE  LifeInv'
<1>1. LifeTypeOK'
  BY DEF LifeInv, LifeTypeOK
<1>2. SessionSound'
  BY DEF LifeInv, SessionSound
<1>3. ClaimsSound'
  BY DEF LifeInv, ClaimsSound, ClaimSound, Current
<1>4. \A b \in callbacks' : CallbackSound(b)'
  BY DEF LifeInv, CallbackSound, Current
<1> QED
  BY <1>1, <1>2, <1>3, <1>4 DEF LifeInv

(* The session object goes.                                                *)
LEMMA SessionGoes ==
    ASSUME LifeInv, sess' = NoSession, conns' \in 0 .. MaxConns, conns <= conns',
           remote' \in 0 .. conns', claims' \subseteq claims, callbacks' \subseteq callbacks,
           storedWill' \in 0 .. conns', outbox' \subseteq 1 .. conns',
           fate' \in [Conns -> Fates], queue' \in Seq(Messages), overflow' \in Seq(Messages),
           storedQueue' \in Seq(Messages)
    PROVE  LifeInv'
<1>0. conns \in Nat /\ conns' \in Nat /\ \A i \in 1 .. conns : i \in 1 .. conns' /\ i # 0
  BY LifeAssumption DEF LifeInv, LifeTypeOK
<1>1. sess'.id = 0 /\ sess'.state = "none" /\ sess'.will = 0 /\ sess' \in SessionType
  BY DEF NoSession, SessionType
<1>2. LifeTypeOK'
  BY <1>1 DEF LifeInv, LifeTypeOK
<1>3. SessionSound'
  BY <1>0, <1>1 DEF SessionSound
<1>4. ClaimsSound'
  BY <1>0, <1>1 DEF LifeInv, ClaimsSound, ClaimSound, Current
<1>5. \A b \in callbacks' : CallbackSound(b)'
  BY <1>0, <1>1 DEF LifeInv, CallbackSound, Current
<1> QED
  BY <1>2, <1>3, <1>4, <1>5 DEF LifeInv

(* A new session object is installed.                                      *)
LEMMA SessionIsNew ==
    ASSUME LifeInv, NEW o \in Opts, NEW goes \in BOOLEAN,
           conns < MaxConns, conns' = conns + 1, sess' = NewSession(conns + 1, o), remote' = 0,
           claims' = claims \cup {[conn |-> conns + 1, id |-> conns + 1, epoch |-> 0,
                                   keep |-> o.keep, continues |-> goes, isNew |-> TRUE]},
           callbacks' = callbacks, storedWill' \in {0, storedWill}, ~ goes => storedWill' = 0,
           outbox' \subseteq 1 .. conns, fate' \in [Conns -> Fates],
           queue' \in Seq(Messages), overflow' = <<>>, storedQueue' = <<>>
    PROVE  LifeInv'
<1>1. conns \in Nat /\ conns' \in Nat /\ conns' \in 0 .. MaxConns /\ conns' > 0
  BY LifeAssumption DEF LifeInv, LifeTypeOK
<1>2. \A i \in 1 .. conns : i \in 1 .. conns' /\ i # conns + 1 /\ i # conns'
  BY <1>1
<1>3. /\ sess'.id = conns + 1 /\ sess'.state = "new" /\ sess'.epoch = 0 /\ sess'.will = conns + 1
      /\ sess' \in SessionType
  BY <1>1 DEF NewSession, SessionType, Opts
<1>4. PICK n : n = [conn |-> conns + 1, id |-> conns + 1, epoch |-> 0,
                    keep |-> o.keep, continues |-> goes, isNew |-> TRUE]
  BY Zenon
<1>5. /\ n \in ClaimType /\ claims' = claims \cup {n} /\ n.conn = conns + 1 /\ n.id = conns + 1
      /\ n.epoch = 0 /\ n.continues = goes
  BY <1>1, <1>4 DEF ClaimType, Opts
<1>6. LifeTypeOK'
  <2>1. storedWill' \in 0 .. conns' /\ outbox' \subseteq 1 .. conns' /\ remote' \in 0 .. conns'
    BY <1>1, <1>2 DEF LifeInv, LifeTypeOK
  <2>2. overflow' \in Seq(Messages) /\ storedQueue' \in Seq(Messages)
    OBVIOUS
  <2>3. claims' \subseteq ClaimType /\ callbacks' \subseteq CallbackType
    BY <1>5 DEF LifeInv, LifeTypeOK
  <2> QED
    BY <1>1, <1>3, <2>1, <2>2, <2>3 DEF LifeTypeOK
<1>7. SessionSound'
  BY <1>1, <1>3 DEF SessionSound
<1>8. ClaimsSound'
  <2>1. ASSUME NEW k \in claims PROVE ClaimSound(k)' /\ k.conn # n.conn
    BY <1>2, <1>3, <1>5, <2>1 DEF LifeInv, ClaimsSound, ClaimSound, Current
  <2>2. ClaimSound(n)'
    BY <1>1, <1>5 DEF ClaimSound
  <2> QED
    BY <1>5, <2>1, <2>2 DEF LifeInv, ClaimsSound
<1>9. \A b \in callbacks' : CallbackSound(b)'
  BY <1>2, <1>3 DEF LifeInv, CallbackSound, Current
<1> QED
  BY <1>6, <1>7, <1>8, <1>9 DEF LifeInv

-----------------------------------------------------------------------------
(* The steps.                                                              *)

(* Steps that leave the session object: Wills that are published or due,   *)
(* records that lapse, CONNECTs and callbacks that are stale.              *)
LEMMA BystandersKeep ==
    ASSUME LifeInv,
           \/ \E w \in outbox : PublishWill(w)
           \/ ClaimPendingWill \/ RecordLapses
           \/ \E k \in claims : AttachRefused(k)
           \/ \E b \in callbacks : StaleCallback(b)
           \/ UNCHANGED lifeVars
    PROVE  LifeInv'
<1>1. /\ sess' = sess /\ conns' = conns /\ remote' = remote
      /\ claims' \subseteq claims /\ callbacks' \subseteq callbacks
      /\ queue' = queue /\ overflow' = overflow /\ storedQueue' = storedQueue
      /\ storedWill' \in {0, storedWill}
  BY DEF PublishWill, ClaimPendingWill, RecordLapses, AttachRefused, StaleCallback, lifeVars,
     willVars, msgVars
<1>2. /\ storedWill \in 0 .. conns /\ outbox \subseteq 1 .. conns /\ conns \in Nat
      /\ fate \in [Conns -> Fates] /\ queue \in Seq(Messages) /\ overflow \in Seq(Messages)
      /\ storedQueue \in Seq(Messages)
  BY DEF LifeInv, LifeTypeOK
<1>3. outbox' \subseteq 1 .. conns /\ fate' \in [Conns -> Fates]
  <2>1. CASE ClaimPendingWill
    <3>1. storedWill \in 1 .. conns
      BY <1>2, <2>1 DEF ClaimPendingWill
    <3>2. outbox' \subseteq outbox \cup {storedWill}
      BY <2>1 DEF ClaimPendingWill
    <3>3. fate' = fate \/ fate' = [fate EXCEPT ![storedWill] = "cancelled"]
      BY <2>1 DEF ClaimPendingWill
    <3>4. outbox' \subseteq 1 .. conns
      BY <1>2, <3>1, <3>2
    <3> QED
      BY <1>2, <3>3, <3>4 DEF Fates
  <2>2. CASE \E w \in outbox : PublishWill(w)
    BY Zenon, <1>2, <2>2 DEF PublishWill, Fates
  <2>3. CASE \/ RecordLapses \/ \E k \in claims : AttachRefused(k)
             \/ \E b \in callbacks : StaleCallback(b)
             \/ UNCHANGED lifeVars
    BY Zenon, <1>2, <2>3 DEF RecordLapses, AttachRefused, StaleCallback, lifeVars, willVars
  <2> QED
    BY <2>1, <2>2, <2>3
<1> QED
  BY <1>1, <1>2, <1>3, SessionStays

(* Messages that arrive, are acknowledged or leave the offline queue.      *)
LEMMA MessagesKeep ==
    ASSUME LifeInv,
           \/ \E m \in Messages, full \in BOOLEAN : GiveMessage(m, full)
           \/ \E m \in inflight : AckInflight(m)
           \/ \E e \in draining : QueueOffline(e)
    PROVE  LifeInv'
<1>1. /\ sess' = sess /\ conns' = conns /\ remote' = remote
      /\ claims' = claims /\ callbacks' = callbacks
      /\ storedQueue' = storedQueue /\ storedWill' = storedWill
      /\ outbox' = outbox /\ fate' = fate
  BY DEF GiveMessage, AckInflight, QueueOffline, willVars
<1>2. /\ outbox \subseteq 1 .. conns
      /\ fate \in [Conns -> Fates] /\ queue \in Seq(Messages) /\ overflow \in Seq(Messages)
      /\ storedQueue \in Seq(Messages)
  BY DEF LifeInv, LifeTypeOK
<1>3. /\ queue' \in Seq(Messages) /\ overflow' \in Seq(Messages)
      /\ sess.state = "new" => overflow' = overflow
  <2>1. CASE \E m \in Messages, full \in BOOLEAN : GiveMessage(m, full)
    <3>1. PICK m \in Messages, full \in BOOLEAN : GiveMessage(m, full)
      BY <2>1
    <3>2. \/ sess.state = "connected" /\ overflow' = Append(overflow, m) /\ queue' = queue
          \/ overflow' = overflow /\ queue' = queue
          \/ overflow' = overflow /\ queue' = Append(queue, m)
      BY <3>1 DEF GiveMessage
    <3>3. Append(overflow, m) \in Seq(Messages) /\ Append(queue, m) \in Seq(Messages)
      BY <1>2
    <3> QED
      BY Zenon, <1>2, <3>2, <3>3
  <2>2. CASE \E m \in inflight : AckInflight(m)
    <3>1. overflow # <<>> => Tail(overflow) \in Seq(Messages)
      BY <1>2
    <3> QED
      BY <1>2, <2>2, <3>1 DEF AckInflight
  <2>3. CASE \E e \in draining : QueueOffline(e)
    <3>1. overflow' = overflow /\ (queue' = queue \/ queue' = <<>>)
      BY <2>3 DEF QueueOffline
    <3>2. <<>> \in Seq(Messages)
      OBVIOUS
    <3> QED
      BY Zenon, <1>2, <3>1, <3>2
  <2> QED
    BY <2>1, <2>2, <2>3
<1> QED
  BY <1>1, <1>2, <1>3, SessionStays

(* createSession.                                                          *)
LEMMA ReuseSessionKeeps ==
    ASSUME LifeInv, NEW o \in Opts, conns < MaxConns, conns' = conns + 1, sess.id # 0,
           callbacks' = callbacks, ReuseSession(conns + 1, o)
    PROVE  LifeInv'
<1>1. conns \in Nat /\ conns' \in Nat /\ conns' \in 0 .. MaxConns /\ conns' > 0
  BY LifeAssumption DEF LifeInv, LifeTypeOK
<1>2. \A i \in 1 .. conns : i \in 1 .. conns' /\ i # conns + 1
  BY <1>1
<1>3. /\ sess' = sess /\ storedWill' = storedWill /\ outbox' = outbox /\ fate' = fate
      /\ remote' = remote /\ queue' = queue /\ overflow' = overflow /\ storedQueue' = storedQueue
  BY DEF ReuseSession, willVars, msgVars
<1>4. sess \in SessionType /\ sess.id \in Nat /\ sess.id <= conns /\ sess.epoch \in Nat
  BY DEF LifeInv, LifeTypeOK, SessionSound, SessionType
<1>5. PICK n : n = [conn |-> conns + 1, id |-> sess.id, epoch |-> sess.epoch,
                    keep |-> o.keep, continues |-> TRUE, isNew |-> FALSE]
  BY Zenon
<1>6. /\ n \in ClaimType /\ claims' = claims \cup {n} /\ n.conn = conns + 1 /\ n.id = sess.id
      /\ n.continues /\ ~ n.isNew
  BY <1>1, <1>4, <1>5 DEF ClaimType, Opts, ReuseSession
<1>7. LifeTypeOK'
  <2>1. storedWill' \in 0 .. conns' /\ outbox' \subseteq 1 .. conns' /\ remote' \in 0 .. conns'
    BY <1>1, <1>2, <1>3 DEF LifeInv, LifeTypeOK
  <2>2. claims' \subseteq ClaimType
    BY <1>6 DEF LifeInv, LifeTypeOK
  <2> QED
    BY <1>1, <1>3, <2>1, <2>2 DEF LifeInv, LifeTypeOK
<1>8. SessionSound'
  <2>1. sess.id <= conns' /\ sess.will <= conns'
    BY <1>1, <1>4 DEF LifeInv, SessionSound, LifeTypeOK, SessionType
  <2> QED
    BY <1>3, <2>1 DEF LifeInv, SessionSound
<1>9. ClaimsSound'
  <2>1. ASSUME NEW k \in claims PROVE ClaimSound(k)' /\ k.conn # n.conn
    BY <1>2, <1>3, <1>6, <2>1 DEF LifeInv, ClaimsSound, ClaimSound, Current
  <2>2. ClaimSound(n)'
    BY <1>1, <1>4, <1>6 DEF ClaimSound
  <2> QED
    BY <1>6, <2>1, <2>2 DEF LifeInv, ClaimsSound
<1>10. \A b \in callbacks' : CallbackSound(b)'
  BY <1>2, <1>3 DEF LifeInv, CallbackSound, Current
<1> QED
  BY <1>7, <1>8, <1>9, <1>10 DEF LifeInv

LEMMA InstallNewKeeps ==
    ASSUME LifeInv, NEW o \in Opts, conns < MaxConns, conns' = conns + 1,
           callbacks' = callbacks, InstallNew(conns + 1, o)
    PROVE  LifeInv'
<1>1. /\ conns \in Nat /\ storedWill \in 0 .. conns /\ remote \in 0 .. conns
      /\ sess.will \in Nat /\ sess.will <= conns /\ outbox \subseteq 1 .. conns
      /\ fate \in [Conns -> Fates] /\ storedQueue \in Seq(Messages)
  BY DEF LifeInv, LifeTypeOK, SessionSound, SessionType
<1> DEFINE taken == remote # 0 /\ ~o.clean
           stored == sess.id = 0 /\ remote = 0 /\ record /\ ~o.clean
<1>2. /\ sess' = NewSession(conns + 1, o) /\ remote' = 0
      /\ claims' = claims \cup {[conn |-> conns + 1, id |-> conns + 1, epoch |-> 0,
                                 keep |-> o.keep, continues |-> (taken \/ stored), isNew |-> TRUE]}
  BY DEF InstallNew
<1>3. CASE stored
  <2>1. /\ storedWill' = storedWill /\ outbox' = outbox /\ fate' = fate
        /\ queue' = storedQueue /\ overflow' = <<>> /\ storedQueue' = <<>>
    BY <1>3 DEF InstallNew, RestoreMessages, willVars
  <2>2. PICK goes \in BOOLEAN : goes = (taken \/ stored) /\ goes
    BY Zenon, <1>3
  <2>3. claims' = claims \cup {[conn |-> conns + 1, id |-> conns + 1, epoch |-> 0,
                                keep |-> o.keep, continues |-> goes, isNew |-> TRUE]}
    BY Zenon, <1>2, <2>2
  <2> QED
    BY Zenon, <1>1, <1>2, <2>1, <2>2, <2>3, SessionIsNew
<1>4. CASE ~ stored
  <2>1. /\ queue' = <<>> /\ overflow' = <<>> /\ storedQueue' = <<>>
        /\ storedWill' = IF taken THEN storedWill ELSE 0
        /\ outbox' = outbox \cup (IF taken THEN {}
                                  ELSE Wills(IF sess.id # 0 THEN ReplacedWill ELSE storedWill))
                            \cup {w \in Wills(remote) : Due(w, o.clean)}
        /\ fate' = [w \in Conns |-> IF w = remote /\ ~Due(w, o.clean)
                                    THEN "cancelled" ELSE fate[w]]
    BY <1>4 DEF InstallNew, MessagesEnd
  <2>2. outbox' \subseteq 1 .. conns
    <3>1. \A w \in 0 .. conns : Wills(w) \subseteq 1 .. conns
      BY <1>1 DEF Wills
    <3>2. ReplacedWill \in 0 .. conns
      BY <1>1 DEF ReplacedWill
    <3> QED
      BY Zenon, <1>1, <2>1, <3>1, <3>2
  <2>3. fate' \in [Conns -> Fates]
    BY <1>1, <2>1 DEF Fates
  <2>4. PICK goes \in BOOLEAN : goes = (taken \/ stored) /\ (goes <=> taken)
    BY Zenon, <1>4
  <2>5. claims' = claims \cup {[conn |-> conns + 1, id |-> conns + 1, epoch |-> 0,
                                keep |-> o.keep, continues |-> goes, isNew |-> TRUE]}
    BY <1>2, <2>4
  <2>6. queue' \in Seq(Messages) /\ storedWill' \in {0, storedWill} /\ (~ goes => storedWill' = 0)
    BY <2>1, <2>4
  <2> QED
    BY <1>2, <2>1, <2>2, <2>3, <2>5, <2>6, SessionIsNew
<1> QED
  BY <1>3, <1>4

(* attachSession: a new generation, before which every callback is stale.  *)
LEMMA AttachSessionKeeps ==
    ASSUME LifeInv, NEW k \in claims, AttachSession(k)
    PROVE  LifeInv'
<1> DEFINE Then(w) == CASE w = k.conn -> "armed"
                        [] w \in Displaced /\ ~Due(w, FALSE) -> "cancelled"
                        [] k.continues /\ w = storedWill -> "cancelled"
                        [] OTHER -> fate[w]
<1>1. /\ claims' = claims \ {k} /\ sess.id = k.id /\ sess.epoch = k.epoch
      /\ storedWill' = IF k.continues THEN 0 ELSE storedWill
      /\ outbox' = outbox \cup {w \in Displaced : Due(w, FALSE)}
      /\ fate' = [w \in Conns |-> Then(w)]
      /\ sess' = [sess EXCEPT !.state = "connected", !.epoch = sess.epoch + 1, !.will = k.conn,
                              !.keep = IF k.continues THEN k.keep ELSE sess.keep]
      /\ callbacks' = callbacks /\ remote' = remote /\ conns' = conns
      /\ overflow' = overflow /\ queue' = queue /\ storedQueue' = storedQueue
  BY DEF AttachSession, Current
<1>a. \A w \in Conns : Then(w) \in {"armed", "cancelled", fate[w]}
  OBVIOUS
<1> HIDE DEF Then
<1>2. /\ conns \in Nat /\ storedWill \in 0 .. conns /\ sess \in SessionType
      /\ outbox \subseteq 1 .. conns /\ fate \in [Conns -> Fates] /\ sess.will <= conns
      /\ claims \subseteq ClaimType
  BY DEF LifeInv, LifeTypeOK, SessionSound
<1>3. /\ k \in ClaimType /\ k.conn \in 1 .. conns /\ k.id \in 1 .. conns
      /\ ~ k.continues => storedWill = 0
  BY <1>1, <1>2 DEF LifeInv, ClaimsSound, ClaimSound, Current
<1>4. /\ sess' \in SessionType /\ sess'.id = sess.id /\ sess'.state = "connected"
      /\ sess'.epoch = sess.epoch + 1 /\ sess'.will = k.conn
  <2>1. PICK keep \in BOOLEAN : keep = IF k.continues THEN k.keep ELSE sess.keep
    BY <1>2, <1>3 DEF SessionType, ClaimType
  <2>2. sess' = [sess EXCEPT !.state = "connected", !.epoch = sess.epoch + 1, !.will = k.conn,
                             !.keep = keep]
    BY <1>1, <2>1
  <2>3. sess.epoch + 1 \in Nat /\ k.conn \in Nat
    BY <1>2, <1>3 DEF SessionType
  <2> QED
    BY Zenon, <1>2, <2>2, <2>3 DEF SessionType
<1>5. storedWill' = 0
  BY <1>1, <1>3
<1>6. outbox' \subseteq 1 .. conns
  <2>1. Displaced \subseteq 1 .. conns
    BY <1>2 DEF Displaced, Wills, SessionType
  <2> QED
    BY Zenon, <1>1, <1>2, <2>1
<1>7. fate' \in [Conns -> Fates]
  <2>1. \A w \in Conns : Then(w) \in Fates
    BY <1>a, <1>2 DEF Fates
  <2> QED
    BY <1>1, <2>1
<1>8. LifeTypeOK'
  <2>1. /\ claims' \subseteq ClaimType /\ storedWill' \in 0 .. conns
        /\ callbacks' = callbacks /\ remote' = remote /\ conns' = conns
        /\ overflow' = overflow /\ queue' = queue /\ storedQueue' = storedQueue
    BY <1>1, <1>2, <1>5
  <2> QED
    BY <1>4, <1>6, <1>7, <2>1 DEF LifeInv, LifeTypeOK
<1>9. SessionSound'
  BY <1>1, <1>2, <1>3, <1>4, <1>5 DEF LifeInv, SessionSound, SessionType
<1>10. ClaimsSound'
  <2>1. ASSUME NEW l \in claims' PROVE ClaimSound(l)'
    BY <1>1, <1>5, <2>1 DEF LifeInv, ClaimsSound, ClaimSound
  <2> QED
    BY <1>1, <2>1 DEF LifeInv, ClaimsSound
<1>11. ASSUME NEW b \in callbacks' PROVE CallbackSound(b)'
  <2>1. CallbackSound(b) /\ b.epoch \in Nat /\ sess.epoch \in Nat
    BY <1>1, <1>2, <1>11 DEF LifeInv, LifeTypeOK, CallbackType, SessionType
  <2>2. b.id = sess.id => b.epoch # sess'.epoch /\ b.epoch <= sess'.epoch
    BY <1>4, <2>1 DEF CallbackSound
  <2> QED
    BY <1>1, <1>4, <2>1, <2>2 DEF CallbackSound, Current
<1> QED
  BY <1>8, <1>9, <1>10, <1>11 DEF LifeInv

(* Disconnect: the one callback that is not stale is its own.              *)
LEMMA DisconnectKeeps ==
    ASSUME LifeInv, NEW clean \in BOOLEAN, Disconnect(clean)
    PROVE  LifeInv'
<1>1. /\ sess.state = "connected"
      /\ sess' = [sess EXCEPT !.state = "offline", !.will = IF clean THEN 0 ELSE sess.will]
      /\ callbacks' = callbacks \cup {[id |-> sess.id, epoch |-> sess.epoch, clean |-> clean]}
      /\ queue' = queue \o overflow /\ overflow' = <<>>
      /\ storedWill' = storedWill /\ outbox' = outbox /\ claims' = claims /\ remote' = remote
      /\ conns' = conns /\ storedQueue' = storedQueue
      /\ fate' = fate \/ fate' = [fate EXCEPT ![sess.will] = "discarded"]
  BY DEF Disconnect
<1>2. /\ conns \in Nat /\ sess \in SessionType /\ fate \in [Conns -> Fates]
      /\ sess.will <= conns /\ sess.id <= conns /\ sess.id # 0 /\ storedWill = 0
      /\ queue \in Seq(Messages) /\ overflow \in Seq(Messages)
  BY <1>1 DEF LifeInv, LifeTypeOK, SessionSound
<1>3. /\ sess' \in SessionType /\ sess'.id = sess.id /\ sess'.state = "offline"
      /\ sess'.epoch = sess.epoch /\ sess'.will = IF clean THEN 0 ELSE sess.will
  BY Zenon, <1>1, <1>2 DEF SessionType
<1>4. PICK n : n = [id |-> sess.id, epoch |-> sess.epoch, clean |-> clean]
  BY Zenon
<1>5. /\ n \in CallbackType /\ callbacks' = callbacks \cup {n} /\ n.id = sess.id
      /\ n.epoch = sess.epoch /\ n.clean = clean
  BY <1>1, <1>2, <1>4 DEF CallbackType, SessionType
<1>6. LifeTypeOK'
  <2>1. fate' \in [Conns -> Fates]
    BY <1>1, <1>2 DEF Fates
  <2>2. queue' \in Seq(Messages) /\ overflow' \in Seq(Messages)
    BY <1>1, <1>2
  <2>3. callbacks' \subseteq CallbackType
    BY <1>5 DEF LifeInv, LifeTypeOK
  <2> QED
    BY <1>1, <1>3, <2>1, <2>2, <2>3 DEF LifeInv, LifeTypeOK
<1>7. SessionSound'
  BY <1>1, <1>2, <1>3 DEF LifeInv, SessionSound
<1>8. ClaimsSound'
  BY <1>1, <1>2 DEF LifeInv, ClaimsSound, ClaimSound
<1>9. ASSUME NEW b \in callbacks' PROVE CallbackSound(b)'
  <2>1. CASE b = n
    BY <1>1, <1>2, <1>3, <1>5, <2>1 DEF CallbackSound, SessionType
  <2>2. CASE b \in callbacks
    <3>1. CallbackSound(b)
      BY <2>2 DEF LifeInv
    <3> QED
      BY <1>1, <1>3, <3>1 DEF CallbackSound, Current
  <2> QED
    BY <1>5, <1>9, <2>1, <2>2
<1> QED
  BY <1>6, <1>7, <1>8, <1>9 DEF LifeInv

(* The ways a session ends.                                                *)
LEMMA SessionEndsKeep ==
    ASSUME LifeInv,
           \/ \E k \in claims : ReleaseUnattached(k)
           \/ ExpireSession
           \/ \E o \in Opts : TakeoverOut(o)
           \/ \E graceful \in BOOLEAN : Restart(graceful)
    PROVE  LifeInv'
<1>1. /\ conns \in Nat /\ conns \in 0 .. MaxConns /\ storedWill \in 0 .. conns
      /\ remote \in 0 .. conns /\ sess \in SessionType /\ sess.will <= conns
      /\ outbox \subseteq 1 .. conns /\ fate \in [Conns -> Fates] /\ queue \in Seq(Messages)
      /\ storedQueue \in Seq(Messages) /\ <<>> \in Seq(Messages) /\ conns <= conns
      /\ \A w \in 0 .. conns : Wills(w) \subseteq 1 .. conns
  BY DEF LifeInv, LifeTypeOK, SessionSound, Wills
<1>2. Overwrite(storedQueue, queue) \in Seq(Messages)
  BY <1>1, OverwriteTypes
<1>3. CASE \E k \in claims : ReleaseUnattached(k)
  <2>1. /\ sess' = NoSession /\ conns' = conns /\ remote' = remote /\ claims' \subseteq claims
        /\ callbacks' = callbacks /\ storedWill' = storedWill /\ outbox' = outbox
        /\ fate' = fate /\ queue' = <<>> /\ overflow' = <<>>
        /\ storedQueue' = Overwrite(storedQueue, queue)
    BY <1>3 DEF ReleaseUnattached, WriteBack, willVars
  <2> QED
    BY <1>1, <1>2, <2>1, SessionGoes
<1>4. CASE ExpireSession
  <2>1. /\ sess' = NoSession /\ conns' = conns /\ remote' = remote /\ claims' = claims
        /\ callbacks' = callbacks /\ storedWill' = 0
        /\ outbox' = outbox \cup Wills(storedWill)
        /\ fate' = fate \/ fate' = [fate EXCEPT ![sess.will] = "dropped"]
        /\ queue' = <<>> /\ overflow' = <<>> /\ storedQueue' = <<>>
    BY <1>4 DEF ExpireSession, MessagesEnd
  <2>2. outbox' \subseteq 1 .. conns' /\ storedWill' \in 0 .. conns'
    <3>1. Wills(storedWill) \subseteq 1 .. conns /\ 0 \in 0 .. conns
      BY <1>1
    <3> QED
      BY Zenon, <1>1, <2>1, <3>1
  <2>3. fate' \in [Conns -> Fates]
    BY <1>1, <2>1 DEF Fates
  <2> QED
    BY <1>1, <2>1, <2>2, <2>3, SessionGoes
<1>5. CASE \E o \in Opts : TakeoverOut(o)
  <2>1. PICK o \in Opts : TakeoverOut(o)
    BY <1>5
  <2> DEFINE w == IF sess.will = 0 THEN storedWill ELSE sess.will
             Then(v) == CASE v = conns + 1 -> "armed"
                          [] v \in Wills(w) /\ ~Due(v, o.clean) -> "cancelled"
                          [] v \in Wills(storedWill) \ {w} -> "dropped"
                          [] OTHER -> fate[v]
  <2>2. /\ conns < MaxConns /\ conns' = conns + 1 /\ remote' = conns + 1
        /\ sess' = NoSession /\ claims' = claims /\ callbacks' = callbacks /\ storedWill' = 0
        /\ outbox' = outbox \cup {v \in Wills(w) : Due(v, o.clean)}
        /\ fate' = [v \in Conns |-> Then(v)]
        /\ queue' = <<>> /\ overflow' = <<>> /\ storedQueue' = <<>>
    BY <2>1 DEF TakeoverOut, MessagesEnd
  <2>3. w \in 0 .. conns
    BY <1>1 DEF SessionType
  <2>4. \A v \in Conns : Then(v) \in {"armed", "cancelled", "dropped", fate[v]}
    OBVIOUS
  <2> HIDE DEF w, Then
  <2>5. fate' \in [Conns -> Fates]
    <3>1. \A v \in Conns : Then(v) \in Fates
      BY <1>1, <2>4 DEF Fates
    <3> QED
      BY <2>2, <3>1
  <2>6. /\ conns' \in 0 .. MaxConns /\ conns <= conns' /\ remote' \in 0 .. conns'
        /\ storedWill' \in 0 .. conns'
    BY <1>1, <2>2, LifeAssumption
  <2>7. outbox' \subseteq 1 .. conns'
    <3>1. outbox' \subseteq 1 .. conns
      BY Zenon, <1>1, <2>2, <2>3
    <3>2. 1 .. conns \subseteq 1 .. conns'
      BY <1>1, <2>2
    <3> QED
      BY <3>1, <3>2
  <2> QED
    BY <1>1, <2>2, <2>5, <2>6, <2>7, SessionGoes
<1>6. CASE \E graceful \in BOOLEAN : Restart(graceful)
  <2>1. /\ sess' = NoSession /\ conns' = conns /\ remote' = remote /\ claims' = {}
        /\ callbacks' = {} /\ storedWill' = storedWill /\ outbox' = {}
        /\ fate' = [w \in Conns |->
                  IF w \in outbox \/ (w = sess.will /\ sess.state # "new")
                    THEN "dropped" ELSE fate[w]]
        /\ queue' = <<>> /\ overflow' = <<>>
        /\ storedQueue' = Overwrite(storedQueue, queue) \/ storedQueue' = storedQueue
    BY <1>6 DEF Restart
  <2>2. fate' \in [Conns -> Fates]
    BY <1>1, <2>1 DEF Fates
  <2> QED
    BY <1>1, <1>2, <2>1, <2>2, SessionGoes
<1> QED
  BY <1>3, <1>4, <1>5, <1>6

(* handleDisconnect of a generation that is still the current one.         *)
LEMMA HandleDisconnectKeeps ==
    ASSUME LifeInv, NEW b \in callbacks, HandleDisconnect(b)
    PROVE  LifeInv'
<1>1. /\ conns \in Nat /\ conns \in 0 .. MaxConns /\ storedWill \in 0 .. conns
      /\ remote \in 0 .. conns /\ sess \in SessionType /\ sess.will <= conns
      /\ outbox \subseteq 1 .. conns /\ fate \in [Conns -> Fates] /\ queue \in Seq(Messages)
      /\ overflow \in Seq(Messages)
      /\ storedQueue \in Seq(Messages) /\ <<>> \in Seq(Messages) /\ conns <= conns
      /\ \A w \in 0 .. conns : Wills(w) \subseteq 1 .. conns
      /\ sess.will \in 0 .. conns
  BY DEF LifeInv, LifeTypeOK, SessionSound, SessionType, Wills
<1>2. Overwrite(storedQueue, queue) \in Seq(Messages)
  BY <1>1, OverwriteTypes
<1>3. /\ CallbackSound(b) /\ Current(b.id, b.epoch) /\ sess.state = "offline"
      /\ callbacks' = callbacks \ {b} /\ claims' = claims /\ remote' = remote /\ conns' = conns
  BY DEF LifeInv, CallbackSound, HandleDisconnect
<1>4. outbox' \subseteq 1 .. conns
  <2>1. outbox' \subseteq outbox \cup Wills(sess.will)
    BY DEF HandleDisconnect
  <2> QED
    BY <1>1, <2>1
<1>5. fate' \in [Conns -> Fates]
  <2>1. fate' = fate \/ fate' = [fate EXCEPT ![storedWill] = "dropped"]
    BY DEF HandleDisconnect
  <2> QED
    BY <1>1, <2>1 DEF Fates
<1>6. storedWill' \in {0, storedWill, sess.will}
  BY DEF HandleDisconnect
<1>7. CASE ~ sess.keep
  <2>1. sess' = NoSession /\ queue' = <<>> /\ overflow' = <<>> /\ storedQueue' = <<>>
    BY <1>7 DEF HandleDisconnect, MessagesEnd
  <2>2. storedWill' \in 0 .. conns
    BY <1>1, <1>6
  <2> QED
    BY <1>1, <1>3, <1>4, <1>5, <2>1, <2>2, SessionGoes
<1>8. CASE sess.keep
  <2>1. /\ sess' = [sess EXCEPT !.will = 0] /\ queue' = <<>> /\ overflow' = overflow
        /\ storedQueue' = Overwrite(storedQueue, queue)
    BY <1>8 DEF HandleDisconnect, WriteBack
  <2>2. /\ sess' \in SessionType /\ sess'.id = sess.id /\ sess'.state = sess.state
        /\ sess'.epoch = sess.epoch /\ sess'.will = 0
    BY Zenon, <1>1, <2>1 DEF SessionType
  <2>3. LifeTypeOK'
    BY <1>1, <1>2, <1>3, <1>4, <1>5, <1>6, <2>1, <2>2 DEF LifeInv, LifeTypeOK
  <2>4. SessionSound'
    BY <1>1, <1>3, <2>2 DEF LifeInv, SessionSound
  <2>5. ASSUME NEW k \in claims PROVE ClaimSound(k)'
    <3>1. ClaimSound(k) /\ (Current(k.id, k.epoch) => k.continues)
      BY <1>1, <1>3, <2>5 DEF LifeInv, LifeTypeOK, ClaimsSound, ClaimSound, SessionSound, Current,
         SessionType
    <3> QED
      BY <1>3, <2>2, <3>1 DEF ClaimSound, Current
  <2>6. \A c \in callbacks' : CallbackSound(c)'
    BY <1>3, <2>2 DEF LifeInv, CallbackSound, Current
  <2> QED
    BY <1>3, <2>3, <2>4, <2>5, <2>6 DEF LifeInv, ClaimsSound
<1> QED
  BY <1>1, <1>7, <1>8 DEF SessionType

(* LifeInv holds in every state.                                           *)
THEOREM LifeInvariance == LifeSpec => []LifeInv
<1>1. LifeInit => LifeInv
  <2> SUFFICES ASSUME LifeInit PROVE LifeInv
    OBVIOUS
  <2>1. NoSession \in SessionType /\ NoSession.id = 0 /\ NoSession.will = 0
        /\ NoSession.state = "none"
    BY DEF NoSession, SessionType
  <2>2. LifeTypeOK
    BY <2>1, LifeAssumption DEF LifeInit, LifeTypeOK, Fates
  <2> QED
    BY <2>1, <2>2 DEF LifeInit, LifeInv, SessionSound, ClaimsSound
<1>2. LifeInv /\ [LifeNext]_lifeVars => LifeInv'
  <2> SUFFICES ASSUME LifeInv, [LifeNext]_lifeVars PROVE LifeInv'
    OBVIOUS
  <2>1. ASSUME NEW o \in Opts, CreateSession(o) PROVE LifeInv'
    BY <2>1, ReuseSessionKeeps, InstallNewKeeps DEF CreateSession
  <2>2. CASE UNCHANGED lifeVars
    BY <2>2, BystandersKeep
  <2>3. CASE LifeNext
    BY <2>1, <2>3, BystandersKeep, MessagesKeep, AttachSessionKeeps, SessionEndsKeep,
       DisconnectKeeps, HandleDisconnectKeeps DEF LifeNext
  <2> QED
    BY <2>2, <2>3
<1> QED
  BY <1>1, <1>2, PTL DEF LifeSpec

(* While a client is connected no delayed Will of its session is in the    *)
(* store: no late callback of an earlier generation puts one back          *)
(* (session.go).                                                           *)
THEOREM NoWillBehind == LifeSpec => []NoWillBehindConnection
<1>1. LifeInv => NoWillBehindConnection
  BY DEF LifeInv, SessionSound, NoWillBehindConnection
<1> QED
  BY <1>1, LifeInvariance, PTL

-----------------------------------------------------------------------------
(* Wills, when no takeover finds a session that is not attached.           *)

(* The two facts WillsSound' consists of, from what a step does to Wills.  *)
LEMMA WillsFollow ==
    ASSUME LifeInv, WillsSound, claims' \subseteq claims,
           \A w \in Conns : WillSound(w)',
           \A w \in Conns : fate[w] = "unarmed" => fate'[w] = "unarmed"
    PROVE  WillsSound'
<1>1. \A k \in claims : k.conn \in Conns
  BY LifeAssumption DEF LifeInv, LifeTypeOK, ClaimsSound, ClaimSound, Conns
<1> QED
  BY <1>1 DEF WillsSound

(* Steps that move no Will.                                                *)
LEMMA WillsStay ==
    ASSUME LifeInv, WillsSound,
           storedWill' = storedWill, outbox' = outbox, remote' = remote, fate' = fate,
           conns' \in Nat, conns <= conns', \A w \in Conns : InSession(w)' <=> InSession(w),
           \A k \in claims' : k \in claims \/ (k.conn \in Conns /\ k.conn > conns)
    PROVE  WillsSound'
<1>1. ASSUME NEW w \in Conns PROVE WillSound(w)'
  <2>1. w \in Nat /\ conns \in Nat
    BY LifeAssumption DEF LifeInv, LifeTypeOK, Conns
  <2>2. w > conns' => w > conns
    BY <2>1
  <2> QED
    BY <1>1, <2>2 DEF WillsSound, WillSound
<1>2. \A k \in claims : k.conn \in Conns
  BY LifeAssumption DEF LifeInv, LifeTypeOK, ClaimsSound, ClaimSound, Conns
<1> QED
  BY <1>1, <1>2 DEF WillsSound, WillSound

LEMMA WillsStayPut ==
    ASSUME LifeInv, WillsSound,
           \/ RecordLapses
           \/ \E k \in claims : AttachRefused(k) \/ ReleaseUnattached(k)
           \/ \E b \in callbacks : StaleCallback(b)
           \/ \E m \in Messages, full \in BOOLEAN : GiveMessage(m, full)
           \/ \E m \in inflight : AckInflight(m)
           \/ \E e \in draining : QueueOffline(e)
           \/ UNCHANGED lifeVars
    PROVE  WillsSound'
<1>1. /\ storedWill' = storedWill /\ outbox' = outbox /\ remote' = remote /\ fate' = fate
      /\ conns' = conns /\ claims' \subseteq claims
  BY DEF RecordLapses, AttachRefused, ReleaseUnattached, StaleCallback, GiveMessage, AckInflight,
     QueueOffline, lifeVars, willVars
<1>2. conns \in Nat /\ conns <= conns
  BY DEF LifeInv, LifeTypeOK
<1>3. sess' = sess \/ \E k \in claims : ReleaseUnattached(k)
  BY DEF RecordLapses, AttachRefused, StaleCallback, GiveMessage, AckInflight,
     QueueOffline, lifeVars
<1>4. ASSUME NEW w \in Conns PROVE InSession(w)' <=> InSession(w)
  <2>1. CASE sess' = sess
    BY <2>1 DEF InSession
  <2>2. CASE \E k \in claims : ReleaseUnattached(k)
    <3>1. PICK k \in claims : ReleaseUnattached(k)
      BY <2>2
    <3>2. k.epoch = 0 /\ sess.epoch = 0 /\ sess.id = k.id /\ k.id \in 1 .. conns
      BY <3>1 DEF LifeInv, ClaimsSound, ClaimSound, ReleaseUnattached, Current
    <3>3. sess.state = "new"
      BY <1>2, <3>2 DEF LifeInv, LifeTypeOK, SessionSound, SessionType
    <3>4. sess'.will = 0 /\ w # 0
      BY <3>1 DEF ReleaseUnattached, NoSession, Conns
    <3> QED
      BY <3>3, <3>4 DEF InSession
  <2> QED
    BY <1>3, <2>1, <2>2
<1> QED
  BY <1>1, <1>2, <1>4, WillsStay

(* A Will is published, or its delay has passed.                           *)
LEMMA WillsPublished ==
    ASSUME LifeInv, WillsSound, ClaimPendingWill \/ \E w \in outbox : PublishWill(w)
    PROVE  WillsSound'
<1>1. sess' = sess /\ claims' = claims /\ remote' = remote /\ conns' = conns
  BY DEF ClaimPendingWill, PublishWill
<1>2. /\ fate \in [Conns -> Fates] /\ outbox \subseteq Conns
      /\ storedWill # 0 => storedWill \in Conns
  BY LifeAssumption DEF LifeInv, LifeTypeOK, Conns
<1>3. CASE ClaimPendingWill
  <2>1. storedWill \in Conns /\ storedWill' = 0 /\ fate[storedWill] = "armed"
    BY <1>2, <1>3 DEF ClaimPendingWill, WillsSound, WillSound
  <2>2. CASE fate' = [fate EXCEPT ![storedWill] = "cancelled"] /\ outbox' = outbox
    <3>1. ASSUME NEW w \in Conns PROVE WillSound(w)'
      <4>1. WillSound(w) /\ w # 0 /\ fate'[w] = IF w = storedWill THEN "cancelled" ELSE fate[w]
        BY <1>2, <2>2, <3>1 DEF WillsSound, Conns
      <4> QED
        BY <1>1, <2>1, <2>2, <4>1 DEF WillSound, InSession
    <3>2. \A w \in Conns : fate[w] = "unarmed" => fate'[w] = "unarmed"
      BY <1>2, <2>1, <2>2
    <3> QED
      BY <1>1, <3>1, <3>2, WillsFollow
  <2>3. CASE fate' = fate /\ outbox' = outbox \cup {storedWill}
    <3>1. ASSUME NEW w \in Conns PROVE WillSound(w)'
      <4>1. WillSound(w) /\ w # 0
        BY <3>1 DEF WillsSound, Conns
      <4> QED
        BY <1>1, <2>1, <2>3, <4>1 DEF WillSound, InSession
    <3> QED
      BY <1>1, <2>3, <3>1 DEF WillsSound
  <2> QED
    BY <1>3, <2>2, <2>3 DEF ClaimPendingWill
<1>4. CASE \E w \in outbox : PublishWill(w)
  <2>1. PICK v \in outbox : PublishWill(v)
    BY <1>4
  <2>2. v \in Conns /\ fate[v] = "armed"
    BY <1>2 DEF WillsSound, WillSound
  <2>3. /\ outbox' = outbox \ {v} /\ fate' = [fate EXCEPT ![v] = "published"]
        /\ storedWill' = storedWill
    BY <2>1 DEF PublishWill
  <2>4. ASSUME NEW w \in Conns PROVE WillSound(w)'
    <3>1. WillSound(w) /\ fate'[w] = IF w = v THEN "published" ELSE fate[w]
      BY <1>2, <2>3, <2>4 DEF WillsSound
    <3> QED
      BY <1>1, <2>2, <2>3, <3>1 DEF WillSound, InSession
  <2>5. \A w \in Conns : fate[w] = "unarmed" => fate'[w] = "unarmed"
    BY <1>2, <2>2, <2>3
  <2> QED
    BY <1>1, <2>4, <2>5, WillsFollow
<1> QED
  BY <1>3, <1>4

(* DISCONNECT or a lost connection.                                        *)
LEMMA WillsAtDisconnect ==
    ASSUME LifeInv, WillsSound, NEW clean \in BOOLEAN, Disconnect(clean)
    PROVE  WillsSound'
<1>1. /\ claims' = claims /\ storedWill' = storedWill /\ outbox' = outbox
      /\ remote' = remote /\ conns' = conns /\ sess.state = "connected"
  BY DEF Disconnect
<1>2. fate \in [Conns -> Fates] /\ sess \in SessionType /\ (sess.will # 0 => sess.will \in Conns)
  BY LifeAssumption DEF LifeInv, LifeTypeOK, SessionSound, SessionType, Conns
<1>3. \A w \in Conns : w # 0
  BY DEF Conns
<1>4. CASE clean /\ sess.will # 0
  <2>1. /\ fate' = [fate EXCEPT ![sess.will] = "discarded"]
        /\ sess'.will = 0 /\ sess'.state = "offline"
    BY <1>2, <1>4 DEF Disconnect, SessionType
  <2>2. fate[sess.will] = "armed"
    BY <1>1, <1>2, <1>4 DEF WillsSound, WillSound, InSession
  <2>3. ASSUME NEW w \in Conns PROVE WillSound(w)'
    <3>1. WillSound(w) /\ fate'[w] = IF w = sess.will THEN "discarded" ELSE fate[w]
      BY <1>2, <2>1, <2>3 DEF WillsSound
    <3>2. ~ InSession(w)'
      BY <1>3, <2>1 DEF InSession
    <3> QED
      BY <1>1, <1>3, <2>2, <3>1, <3>2 DEF WillSound, InSession
  <2>4. \A w \in Conns : fate[w] = "unarmed" => fate'[w] = "unarmed"
    BY <1>2, <2>1, <2>2
  <2> QED
    BY <1>1, <2>3, <2>4, WillsFollow
<1>5. CASE ~ (clean /\ sess.will # 0)
  <2>1. fate' = fate /\ sess'.will = sess.will /\ sess'.state = "offline"
    BY <1>2, <1>5 DEF Disconnect, SessionType
  <2>2. \A w \in Conns : InSession(w)' <=> InSession(w)
    BY <1>1, <2>1 DEF InSession
  <2>3. conns \in Nat /\ conns <= conns
    BY DEF LifeInv, LifeTypeOK
  <2> QED
    BY <1>1, <2>1, <2>2, <2>3, WillsStay
<1> QED
  BY <1>4, <1>5

(* The disconnect callback.                                                *)
LEMMA WillsAtHandleDisconnect ==
    ASSUME LifeInv, WillsSound, NEW b \in callbacks, HandleDisconnect(b)
    PROVE  WillsSound'
<1>1. claims' = claims /\ remote' = remote /\ conns' = conns
  BY DEF HandleDisconnect
<1>2. /\ fate \in [Conns -> Fates] /\ sess \in SessionType
      /\ sess.will # 0 => sess.will \in Conns
      /\ storedWill # 0 => storedWill \in Conns
  BY LifeAssumption DEF LifeInv, LifeTypeOK, SessionSound, SessionType, Conns
<1>3. \A w \in Conns : w # 0
  BY DEF Conns
<1>4. /\ sess.state = "offline" /\ (b.clean => sess.will = 0)
      /\ sess.will # 0 => storedWill = 0
  BY DEF HandleDisconnect, LifeInv, CallbackSound, SessionSound
<1>5. sess'.will = 0
  BY <1>2 DEF HandleDisconnect, NoSession, SessionType
<1>6. /\ outbox' = outbox \cup (IF b.clean THEN {}
                                ELSE {w \in Wills(sess.will) : Due(w, ~ sess.keep)})
      /\ storedWill' = CASE ~ sess.keep \/ b.clean -> 0
                         [] sess.will # 0 /\ ~ Due(sess.will, ~ sess.keep) -> sess.will
                         [] OTHER -> storedWill
      /\ fate' = IF (~ sess.keep \/ b.clean) /\ storedWill # 0
                   THEN [fate EXCEPT ![storedWill] = "dropped"] ELSE fate
  BY DEF HandleDisconnect
<1>7. \A w \in Conns : ~ InSession(w)' /\ (InSession(w) <=> w = sess.will)
  BY <1>3, <1>4, <1>5 DEF InSession
<1>8. CASE sess.will = 0
  <2>1. outbox' = outbox
    BY <1>6, <1>8 DEF Wills
  <2>2. CASE (~ sess.keep \/ b.clean) /\ storedWill # 0
    <3>1. storedWill' = 0 /\ fate' = [fate EXCEPT ![storedWill] = "dropped"]
      BY <1>6, <1>8, <2>2
    <3>2. storedWill \in Conns /\ fate[storedWill] = "armed"
      BY <1>2, <2>2 DEF WillsSound, WillSound
    <3>3. ASSUME NEW w \in Conns PROVE WillSound(w)'
      <4>1. WillSound(w) /\ fate'[w] = IF w = storedWill THEN "dropped" ELSE fate[w]
        BY <1>2, <3>1, <3>3 DEF WillsSound
      <4> QED
        BY <1>1, <1>3, <1>7, <1>8, <2>1, <3>1, <3>2, <4>1 DEF WillSound
    <3>4. \A w \in Conns : fate[w] = "unarmed" => fate'[w] = "unarmed"
      BY <1>2, <3>1, <3>2
    <3> QED
      BY <1>1, <3>3, <3>4, WillsFollow
  <2>3. CASE ~ ((~ sess.keep \/ b.clean) /\ storedWill # 0)
    <3>1. storedWill' = storedWill /\ fate' = fate
      BY <1>6, <1>8, <2>3
    <3>2. \A w \in Conns : InSession(w)' <=> InSession(w)
      BY <1>3, <1>7, <1>8
    <3>3. conns \in Nat /\ conns <= conns
      BY DEF LifeInv, LifeTypeOK
    <3> QED
      BY <1>1, <2>1, <3>1, <3>2, <3>3, WillsStay
  <2> QED
    BY <2>2, <2>3
<1>9. CASE sess.will # 0
  <2>1. storedWill = 0 /\ ~ b.clean /\ fate' = fate /\ sess.will \in Conns
    BY <1>2, <1>4, <1>6, <1>9
  <2>2. Wills(sess.will) = {sess.will}
    BY <1>9 DEF Wills
  <2>3. \/ outbox' = outbox \cup {sess.will} /\ storedWill' = 0
        \/ outbox' = outbox /\ storedWill' = sess.will
    <3>1. CASE Due(sess.will, ~ sess.keep)
      BY <1>6, <2>1, <2>2, <3>1
    <3>2. CASE ~ Due(sess.will, ~ sess.keep)
      <4>1. sess.keep
        BY <3>2 DEF Due
      <4> QED
        BY <1>6, <1>9, <2>1, <2>2, <3>2, <4>1
    <3> QED
      BY <3>1, <3>2
  <2>4. ASSUME NEW w \in Conns PROVE WillSound(w)'
    <3>1. WillSound(w)
      BY <2>4 DEF WillsSound
    <3> QED
      BY <1>1, <1>3, <1>7, <2>1, <2>3, <3>1 DEF WillSound
  <2> QED
    BY <1>1, <2>1, <2>4, WillsFollow
<1> QED
  BY <1>8, <1>9

(* The session expires.                                                    *)
LEMMA WillsAtExpiry ==
    ASSUME LifeInv, WillsSound, ExpireSession
    PROVE  WillsSound'
<1>1. /\ claims' = claims /\ remote' = remote /\ conns' = conns /\ storedWill' = 0
      /\ sess.state = "offline" /\ sess'.will = 0
      /\ outbox' = outbox \cup Wills(storedWill)
      /\ fate' = IF sess.will # 0 THEN [fate EXCEPT ![sess.will] = "dropped"] ELSE fate
  BY DEF ExpireSession, NoSession
<1>2. /\ fate \in [Conns -> Fates] /\ (sess.will # 0 => sess.will \in Conns)
      /\ sess.will # 0 => storedWill = 0
  BY <1>1, LifeAssumption DEF LifeInv, LifeTypeOK, SessionSound, SessionType, Conns
<1>3. \A w \in Conns : w # 0
  BY DEF Conns
<1>4. \A w \in Conns : ~ InSession(w)' /\ (InSession(w) <=> w = sess.will)
  BY <1>1, <1>3 DEF InSession
<1>5. \A w \in Conns : fate'[w] = IF w = sess.will THEN "dropped" ELSE fate[w]
  BY <1>1, <1>2, <1>3
<1>6. \A w \in Conns : w \in outbox' <=> w \in outbox \/ w = storedWill
  BY <1>1, <1>3 DEF Wills
<1>7. ASSUME NEW w \in Conns PROVE WillSound(w)'
  <2>1. WillSound(w)
    BY <1>7 DEF WillsSound
  <2>2. w = sess.will => w # storedWill /\ w \notin outbox /\ remote # w /\ w <= conns
    BY <1>4, <2>1 DEF WillSound, LifeInv, SessionSound
  <2> QED
    BY <1>1, <1>3, <1>4, <1>5, <1>6, <2>1, <2>2 DEF WillSound
<1>8. \A w \in Conns : fate[w] = "unarmed" => fate'[w] = "unarmed"
  BY <1>4, <1>5 DEF WillsSound, WillSound
<1> QED
  BY <1>1, <1>7, <1>8, WillsFollow

(* The process stops.                                                      *)
LEMMA WillsAtRestart ==
    ASSUME LifeInv, WillsSound, NEW graceful \in BOOLEAN, Restart(graceful)
    PROVE  WillsSound'
<1>1. /\ claims' = {} /\ remote' = remote /\ conns' = conns /\ storedWill' = storedWill
      /\ outbox' = {} /\ sess'.will = 0
      /\ fate' = [w \in Conns |->
                    IF w \in outbox \/ (w = sess.will /\ sess.state # "new")
                      THEN "dropped" ELSE fate[w]]
  BY DEF Restart, NoSession
<1>2. \A w \in Conns : ~ InSession(w)'
  BY <1>1 DEF InSession, Conns
<1>3. ASSUME NEW w \in Conns PROVE WillSound(w)'
  <2>1. WillSound(w) /\ fate'[w] = IF w \in outbox \/ InSession(w) THEN "dropped" ELSE fate[w]
    BY <1>1, <1>3 DEF WillsSound, InSession
  <2> QED
    BY <1>1, <1>2, <2>1 DEF WillSound
<1> QED
  BY <1>1, <1>3 DEF WillsSound

(* attachSession.                                                          *)
LEMMA WillsAtAttach ==
    ASSUME LifeInv, WillsSound, NEW k \in claims, AttachSession(k)
    PROVE  WillsSound'
<1>1. /\ claims' = claims \ {k} /\ remote' = remote /\ conns' = conns
      /\ storedWill' = IF k.continues THEN 0 ELSE storedWill
      /\ outbox' = outbox \cup {w \in Displaced : Due(w, FALSE)}
      /\ fate' = [w \in Conns |->
                    CASE w = k.conn -> "armed"
                      [] w \in Displaced /\ ~ Due(w, FALSE) -> "cancelled"
                      [] k.continues /\ w = storedWill -> "cancelled"
                      [] OTHER -> fate[w]]
  BY DEF AttachSession
<1>2. k.conn \in Conns /\ k.conn <= conns /\ ClaimSound(k)
  BY LifeAssumption DEF LifeInv, LifeTypeOK, ClaimsSound, ClaimSound, Conns
<1>3. \A w \in Conns : w # 0
  BY DEF Conns
<1>4. /\ sess'.will = k.conn /\ sess'.state = "connected" /\ fate[k.conn] = "unarmed"
      /\ ~ k.continues => storedWill = 0
  BY <1>2 DEF AttachSession, LifeInv, LifeTypeOK, SessionType, WillsSound, ClaimSound
<1>5. storedWill' = 0
  BY <1>1, <1>4
<1>6. \A w \in Conns : (w \in Displaced <=> InSession(w)) /\ (InSession(w)' <=> w = k.conn)
  BY <1>3, <1>4 DEF Displaced, Wills, InSession
<1>7. ASSUME NEW w \in Conns PROVE WillSound(w)'
  <2>1. WillSound(w)
    BY <1>7 DEF WillsSound
  <2>2. ~ (InSession(w) /\ storedWill = w)
    BY <2>1 DEF WillSound
  <2>3. w \in outbox' <=> w \in outbox \/ (InSession(w) /\ Due(w, FALSE))
    BY Zenon, <1>1, <1>6, <1>7
  <2>4. CASE w = k.conn
    <3>1. fate'[w] = "armed"
      <4>1. w \notin Displaced /\ w # storedWill
        BY <1>4, <1>6, <2>1, <2>4 DEF WillSound
      <4> QED
        BY Zenon, <1>1, <1>7, <2>4, <4>1
    <3>2. w \notin outbox' /\ remote' # w /\ storedWill' # w /\ InSession(w)'
      BY Zenon, <1>1, <1>3, <1>4, <1>5, <1>6, <2>1, <2>3, <2>4 DEF WillSound
    <3>3. ~ (w > conns)
      BY <1>2, <2>4 DEF LifeInv, LifeTypeOK, Conns
    <3> QED
      BY Zenon, <1>1, <3>1, <3>2, <3>3 DEF WillSound
  <2>5. CASE w # k.conn
    <3>1. /\ InSession(w) /\ ~ Due(w, FALSE) => fate'[w] = "cancelled"
          /\ storedWill = w => fate'[w] = "cancelled"
          /\ ~ (InSession(w) /\ ~ Due(w, FALSE)) /\ storedWill # w => fate'[w] = fate[w]
      BY Zenon, <1>1, <1>3, <1>4, <1>6, <1>7, <2>2, <2>5
    <3> QED
      BY Zenon, <1>1, <1>3, <1>5, <1>6, <2>1, <2>2, <2>3, <2>5, <3>1 DEF WillSound
  <2> QED
    BY <2>4, <2>5
<1>8. ASSUME NEW l \in claims' PROVE fate'[l.conn] = "unarmed"
  <2>1. l \in claims /\ l.conn # k.conn /\ l.conn \in Conns /\ fate[l.conn] = "unarmed"
    BY <1>1, LifeAssumption
    DEF LifeInv, LifeTypeOK, ClaimsSound, ClaimSound, WillsSound, Conns
  <2>2. l.conn \notin Displaced /\ l.conn # storedWill
    BY <1>6, <2>1 DEF WillsSound, WillSound
  <2> QED
    BY Zenon, <1>1, <2>1, <2>2
<1> QED
  BY <1>7, <1>8 DEF WillsSound

(* createSession that reuses the session in the map.                       *)
LEMMA WillsAtReuse ==
    ASSUME LifeInv, WillsSound, NEW o \in Opts, conns < MaxConns, conns' = conns + 1,
           ReuseSession(conns + 1, o)
    PROVE  WillsSound'
<1>1. conns \in Nat /\ conns + 1 \in Conns /\ conns <= conns + 1 /\ conns + 1 > conns
  BY LifeAssumption DEF LifeInv, LifeTypeOK, Conns
<1>2. storedWill' = storedWill /\ outbox' = outbox /\ fate' = fate /\ remote' = remote
      /\ sess' = sess
  BY DEF ReuseSession, willVars
<1>3. PICK k : k = [conn |-> conns + 1, id |-> sess.id, epoch |-> sess.epoch,
                    keep |-> o.keep, continues |-> TRUE, isNew |-> FALSE]
  BY Zenon
<1>4. claims' = claims \cup {k} /\ k.conn = conns + 1
  BY <1>3 DEF ReuseSession
<1>5. \A w \in Conns : InSession(w)' <=> InSession(w)
  BY <1>2 DEF InSession
<1>6. conns' \in Nat /\ conns <= conns'
  BY <1>1
<1>7. \A l \in claims' : l \in claims \/ (l.conn \in Conns /\ l.conn > conns)
  BY <1>1, <1>4
<1> QED
  BY <1>2, <1>5, <1>6, <1>7, WillsStay

(* What a CONNECT or a takeover that replaces the session finds of its     *)
(* Wills.                                                                  *)
LEMMA WillsFound ==
    ASSUME LifeInv
    PROVE  /\ sess.id = 0 => \A w \in Conns : ~ InSession(w)
           /\ sess.id # 0 =>
                /\ remote = 0
                /\ \A w \in Conns : w = ReplacedWill <=> InSession(w) \/ storedWill = w
                /\ sess.state # "new" /\ sess.will # 0 => storedWill = 0
<1>1. \A w \in Conns : w # 0
  BY DEF Conns
<1>2. sess.state \in {"none", "new", "connected", "offline"}
  BY DEF LifeInv, LifeTypeOK, SessionType
<1>3. CASE sess.id = 0
  BY <1>1, <1>3 DEF LifeInv, SessionSound, InSession
<1>4. CASE sess.id # 0
  <2>1. remote = 0 /\ sess.state \in {"new", "connected", "offline"}
    BY <1>2, <1>4 DEF LifeInv, SessionSound
  <2>2. sess.state # "new" /\ sess.will # 0 => storedWill = 0
    BY <2>1 DEF LifeInv, SessionSound
  <2>3. \A w \in Conns : w = ReplacedWill <=> InSession(w) \/ storedWill = w
    BY <1>1, <2>1 DEF LifeInv, SessionSound, ReplacedWill, InSession
  <2> QED
    BY <1>4, <2>1, <2>2, <2>3
<1> QED
  BY <1>3, <1>4

(* createSession that installs a new object.                               *)
LEMMA WillsAtInstall ==
    ASSUME LifeInv, WillsSound, NEW o \in Opts, conns < MaxConns, conns' = conns + 1,
           InstallNew(conns + 1, o)
    PROVE  WillsSound'
<1> DEFINE taken == remote # 0 /\ ~ o.clean
           stored == sess.id = 0 /\ remote = 0 /\ record /\ ~ o.clean
           old == IF sess.id # 0 THEN ReplacedWill ELSE storedWill
<1>1. /\ conns \in Nat /\ conns + 1 \in Conns /\ conns <= conns + 1 /\ conns + 1 > conns
      /\ fate \in [Conns -> Fates] /\ (remote # 0 => remote \in Conns)
  BY LifeAssumption DEF LifeInv, LifeTypeOK, Conns
<1>2. \A w \in Conns : w # 0 /\ w \in Nat
  BY DEF Conns
<1>3. PICK k : k = [conn |-> conns + 1, id |-> conns + 1, epoch |-> 0, keep |-> o.keep,
                    continues |-> taken \/ stored, isNew |-> TRUE]
  BY Zenon
<1>4. /\ claims' = claims \cup {k} /\ k.conn = conns + 1 /\ remote' = 0
      /\ sess'.state = "new"
  BY <1>3 DEF InstallNew, NewSession
<1>5. \A w \in Conns : ~ InSession(w)'
  BY <1>4 DEF InSession
<1>6. \A l \in claims : l.conn \in Conns /\ fate[l.conn] = "unarmed"
  BY LifeAssumption DEF LifeInv, LifeTypeOK, ClaimsSound, ClaimSound, WillsSound, Conns
<1>7. fate[conns + 1] = "unarmed"
  BY <1>1 DEF WillsSound, WillSound
<1>8. \A w \in Conns : w > conns' => w > conns
  BY <1>1, <1>2
<1>9. \A w \in Conns : WillSound(w)
  BY DEF WillsSound
<1>10. CASE stored
  <2>1. storedWill' = storedWill /\ outbox' = outbox /\ fate' = fate /\ remote' = remote
    BY <1>4, <1>10 DEF InstallNew, willVars
  <2>2. \A w \in Conns : InSession(w)' <=> InSession(w)
    BY <1>5, <1>10, WillsFound
  <2>3. conns' \in Nat /\ conns <= conns'
    BY <1>1
  <2>4. \A l \in claims' : l \in claims \/ (l.conn \in Conns /\ l.conn > conns)
    BY <1>1, <1>4
  <2> QED
    BY <2>1, <2>2, <2>3, <2>4, WillsStay
<1>11. CASE ~ stored
  <2>1. /\ outbox' = outbox \cup (IF taken THEN {} ELSE Wills(old))
                            \cup {w \in Wills(remote) : Due(w, o.clean)}
        /\ fate' = [w \in Conns |->
                      IF w = remote /\ ~ Due(w, o.clean) THEN "cancelled" ELSE fate[w]]
        /\ storedWill' = IF taken THEN storedWill ELSE 0
    BY <1>11 DEF InstallNew
  <2>2. \A w \in Conns :
          w \in outbox' <=> \/ w \in outbox \/ (~ taken /\ w = old)
                            \/ (w = remote /\ Due(w, o.clean))
    <3> HIDE DEF taken, old
    <3> QED
      BY <1>2, <2>1 DEF Wills
  <2>3. \A w \in Conns : fate'[w] = IF w = remote /\ ~ Due(w, o.clean)
                                      THEN "cancelled" ELSE fate[w]
    BY <2>1
  <2>4. \A w \in Conns : fate[w] = "unarmed" => fate'[w] = "unarmed"
    BY <1>9, <2>3 DEF WillSound
  <2>5. \A l \in claims' : fate'[l.conn] = "unarmed"
    BY <1>1, <1>4, <1>6, <1>7, <2>4
  <2>6. CASE taken
    <3>1. \A w \in Conns : ~ InSession(w)
      BY <2>6, WillsFound
    <3>2. storedWill' = storedWill
      BY <2>1, <2>6
    <3>3. ASSUME NEW w \in Conns PROVE WillSound(w)'
      <4>1. w \in outbox' <=> w \in outbox \/ (w = remote /\ Due(w, o.clean))
        BY <2>2, <2>6, <3>3
      <4> QED
        BY <1>2, <1>4, <1>5, <1>8, <1>9, <2>3, <2>4, <3>1, <3>2, <3>3, <4>1 DEF WillSound
    <3> QED
      BY <2>5, <3>3 DEF WillsSound
  <2>7. CASE ~ taken
    <3>1. \A w \in Conns : w = old <=> InSession(w) \/ storedWill = w
      BY WillsFound
    <3>2. storedWill' = 0
      BY <2>1, <2>7
    <3>3. \A w \in Conns : w = remote => Due(w, o.clean)
      BY <1>2, <2>7 DEF Due
    <3>4. ASSUME NEW w \in Conns PROVE WillSound(w)'
      <4>1. w \in outbox' <=> w \in outbox \/ InSession(w) \/ storedWill = w \/ w = remote
        BY <2>2, <2>7, <3>1, <3>3, <3>4
      <4>2. fate'[w] = fate[w]
        BY <2>3, <3>3, <3>4
      <4> QED
        BY <1>2, <1>4, <1>5, <1>8, <1>9, <3>2, <3>4, <4>1, <4>2 DEF WillSound
    <3> QED
      BY <2>5, <3>4 DEF WillsSound
  <2> QED
    BY <2>6, <2>7
<1> QED
  BY <1>10, <1>11

(* The other node takes the session over.                                  *)
LEMMA WillsAtTakeover ==
    ASSUME LifeInv, WillsSound, MidConnect = FALSE, NEW o \in Opts, TakeoverOut(o)
    PROVE  WillsSound'
<1>1. PICK old : old = IF sess.will = 0 THEN storedWill ELSE sess.will
  BY Zenon
<1>2. /\ claims' = claims /\ remote' = conns + 1 /\ storedWill' = 0 /\ conns' = conns + 1
      /\ sess'.will = 0 /\ sess.id # 0 /\ sess.state # "new" /\ conns < MaxConns
      /\ outbox' = outbox \cup {v \in Wills(old) : Due(v, o.clean)}
      /\ fate' = [v \in Conns |->
                    CASE v = conns + 1 -> "armed"
                      [] v \in Wills(old) /\ ~ Due(v, o.clean) -> "cancelled"
                      [] v \in Wills(storedWill) \ {old} -> "dropped"
                      [] OTHER -> fate[v]]
  BY <1>1 DEF TakeoverOut, NoSession
<1>3. /\ conns \in Nat /\ conns + 1 \in Conns /\ ~ (conns + 1 > conns') /\ conns + 1 > conns
      /\ fate \in [Conns -> Fates]
  BY <1>2, LifeAssumption DEF LifeInv, LifeTypeOK, Conns
<1>4. \A w \in Conns : w # 0 /\ w \in Nat
  BY DEF Conns
<1>5. \A w \in Conns : w > conns' => w > conns
  BY <1>2, <1>3, <1>4
<1>6. remote = 0 /\ (sess.will # 0 => storedWill = 0)
  BY <1>2, WillsFound
<1>7. \A w \in Conns : (w = old <=> InSession(w) \/ storedWill = w) /\ ~ InSession(w)'
  BY <1>1, <1>2, <1>4, <1>6 DEF InSession
<1>8. \A w \in Conns : WillSound(w)
  BY DEF WillsSound
<1>9. old # conns + 1 /\ conns + 1 \notin outbox /\ fate[conns + 1] = "unarmed"
  BY <1>3, <1>7, <1>8 DEF WillSound
<1>10. \A w \in Conns : /\ w \in Wills(old) <=> w = old
                        /\ w \notin Wills(storedWill) \ {old}
  BY <1>4, <1>7 DEF Wills
<1>11. \A w \in Conns :
         /\ w = conns + 1 => fate'[w] = "armed"
         /\ w = old /\ ~ Due(w, o.clean) => fate'[w] = "cancelled"
         /\ w # conns + 1 /\ ~ (w = old /\ ~ Due(w, o.clean)) => fate'[w] = fate[w]
  BY <1>2, <1>9, <1>10
<1>12. \A w \in Conns : w \in outbox' <=> w \in outbox \/ (w = old /\ Due(w, o.clean))
  BY <1>2, <1>10
<1>13. ASSUME NEW w \in Conns PROVE WillSound(w)'
  <2>1. CASE w = conns + 1
    BY <1>2, <1>3, <1>4, <1>7, <1>9, <1>11, <1>12, <2>1 DEF WillSound
  <2>2. CASE w # conns + 1
    BY <1>2, <1>4, <1>5, <1>6, <1>7, <1>8, <1>11, <1>12, <2>2 DEF WillSound
  <2> QED
    BY <2>1, <2>2
<1>14. ASSUME NEW l \in claims' PROVE fate'[l.conn] = "unarmed"
  <2>1. l.conn \in Conns /\ l.conn <= conns /\ fate[l.conn] = "unarmed"
    BY <1>2, LifeAssumption
    DEF LifeInv, LifeTypeOK, ClaimsSound, ClaimSound, WillsSound, Conns
  <2>2. l.conn # conns + 1 /\ l.conn # old
    BY <1>3, <1>4, <1>7, <1>8, <2>1 DEF WillSound
  <2> QED
    BY <1>11, <2>1, <2>2
<1> QED
  BY <1>13, <1>14 DEF WillsSound

(* An armed Will is in exactly one place, the session object, the will     *)
(* store, the goroutine that will publish it or the other node, and a Will *)
(* that was published, discarded or cancelled is in none, as long as no    *)
(* takeover reads a session between createSession and attachSession.       *)
THEOREM WillsHeldOnce ==
    ASSUME MidConnect = FALSE
    PROVE  LifeSpec => []WillHeldOnce
<1>1. LifeInit => WillsSound
  BY DEF LifeInit, WillsSound, WillSound, InSession, NoSession, Conns
<1>2. LifeInv /\ WillsSound /\ [LifeNext]_lifeVars => WillsSound'
  <2> SUFFICES ASSUME LifeInv, WillsSound, [LifeNext]_lifeVars
               PROVE  WillsSound'
    OBVIOUS
  <2>1. ASSUME NEW o \in Opts, CreateSession(o) PROVE WillsSound'
    BY <2>1, WillsAtReuse, WillsAtInstall DEF CreateSession
  <2>2. ASSUME NEW o \in Opts, TakeoverOut(o) PROVE WillsSound'
    BY Zenon, <2>2, WillsAtTakeover
  <2>3. ASSUME NEW k \in claims, AttachSession(k) PROVE WillsSound'
    BY <2>3, WillsAtAttach
  <2>4. ASSUME NEW clean \in BOOLEAN, Disconnect(clean) PROVE WillsSound'
    BY <2>4, WillsAtDisconnect
  <2>5. ASSUME NEW graceful \in BOOLEAN, Restart(graceful) PROVE WillsSound'
    BY <2>5, WillsAtRestart
  <2>6. ASSUME NEW b \in callbacks, HandleDisconnect(b) PROVE WillsSound'
    BY <2>6, WillsAtHandleDisconnect
  <2>7. ASSUME ClaimPendingWill \/ \E w \in outbox : PublishWill(w) PROVE WillsSound'
    BY <2>7, WillsPublished
  <2>8. ASSUME ExpireSession PROVE WillsSound'
    BY <2>8, WillsAtExpiry
  <2> QED
    BY <2>1, <2>2, <2>3, <2>4, <2>5, <2>6, <2>7, <2>8, WillsStayPut DEF LifeNext
<1>3. WillsSound => WillHeldOnce
  <2> SUFFICES ASSUME WillsSound, NEW w \in Conns
               PROVE  IF fate[w] = "armed" THEN \E h \in Holders(w) : Holders(w) = {h}
                                           ELSE Holders(w) = {}
    BY DEF WillHeldOnce
  <2>1. WillSound(w)
    BY DEF WillsSound
  <2>2. /\ "session" \in Holders(w) <=> InSession(w)
        /\ "store" \in Holders(w) <=> storedWill = w
        /\ "outbox" \in Holders(w) <=> w \in outbox
        /\ "remote" \in Holders(w) <=> remote = w
        /\ Holders(w) \subseteq {"session", "store", "outbox", "remote"}
    BY DEF Holders, InSession
  <2>3. CASE fate[w] # "armed"
    BY <2>1, <2>2, <2>3 DEF WillSound
  <2>4. CASE fate[w] = "armed"
    <3>1. CASE InSession(w)
      <4>1. Holders(w) = {"session"}
        BY <2>1, <2>2, <3>1 DEF WillSound
      <4> QED
        BY <2>4, <4>1
    <3>2. CASE storedWill = w
      <4>1. Holders(w) = {"store"}
        BY <2>1, <2>2, <3>2 DEF WillSound
      <4> QED
        BY <2>4, <4>1
    <3>3. CASE w \in outbox
      <4>1. Holders(w) = {"outbox"}
        BY <2>1, <2>2, <3>3 DEF WillSound
      <4> QED
        BY <2>4, <4>1
    <3>4. CASE remote = w
      <4>1. Holders(w) = {"remote"}
        BY <2>1, <2>2, <3>4 DEF WillSound
      <4> QED
        BY <2>4, <4>1
    <3> QED
      BY <2>1, <2>4, <3>1, <3>2, <3>3, <3>4 DEF WillSound
  <2> QED
    BY <2>3, <2>4
<1> QED
  BY <1>1, <1>2, <1>3, LifeInvariance, PTL DEF LifeSpec

-----------------------------------------------------------------------------
(* A CONNECT that fails.                                                   *)

(* What releaseUnattachedSession writes back is all the session had.       *)
LEMMA ReleaseKeeps ==
    ASSUME LifeInv, NEW k \in claims, ReleaseUnattached(k), sess.state = "new"
    PROVE  Kept \subseteq Kept'
<1>1. /\ storedQueue = <<>> /\ overflow = <<>> /\ queue \in Seq(Messages)
      /\ storedQueue \in Seq(Messages)
  BY DEF LifeInv, LifeTypeOK, SessionSound
<1>2. /\ storedQueue' = Overwrite(storedQueue, queue)
      /\ storedInflight' = storedInflight \cup inflight
  BY DEF ReleaseUnattached, WriteBack
<1>3. Range(queue) \subseteq Range(storedQueue')
  BY Zenon, <1>1, <1>2, OverwriteTypes
<1>4. Range(storedQueue) = {} /\ Range(overflow) = {}
  BY <1>1 DEF Range
<1> QED
  BY <1>2, <1>3, <1>4 DEF Kept

(* Restarts are counted.                                                   *)
Counted == restarts \in Nat

LEMMA RestartsCounted == LifeSpec => []Counted
<1>1. LifeInit => Counted
  BY DEF LifeInit, Counted
<1>2. Counted /\ [LifeNext]_lifeVars => Counted'
  <2>1. [LifeNext]_lifeVars => restarts' = restarts \/ restarts' = restarts + 1
    BY Zenon DEF LifeNext, lifeVars, CreateSession, TakeoverOut, AttachSession, AttachRefused,
       ReleaseUnattached, Disconnect, Restart, HandleDisconnect, StaleCallback, PublishWill,
       ClaimPendingWill, ExpireSession, RecordLapses, GiveMessage, AckInflight, QueueOffline
  <2> QED
    BY <2>1 DEF Counted
<1> QED
  BY <1>1, <1>2, PTL DEF LifeSpec

(* A CONNECT that fails between createSession and attachSession takes      *)
(* nothing from the client: releaseUnattachedSession puts every message    *)
(* the session had, restored or published to it since, back in the stores. *)
THEOREM FailedConnectsKeep == LifeSpec => FailedConnectKeeps
<1> DEFINE Fails == sess.state = "new" /\ sess' = NoSession /\ remote' = remote
                      /\ restarts' = restarts
<1>1. LifeInv /\ Counted /\ [LifeNext]_lifeVars
        => [Fails => Kept \subseteq Kept']_lifeVars
  <2> SUFFICES ASSUME LifeInv, Counted, LifeNext, Fails PROVE Kept \subseteq Kept'
    OBVIOUS
  <2>1. NoSession.state = "none" /\ NoSession.will = 0 /\ sess # sess'
    BY DEF NoSession
  <2>2. conns \in Nat /\ remote \in 0 .. conns
    BY DEF LifeInv, LifeTypeOK
  <2>3. \A o \in Opts : ~ CreateSession(o)
    <3>1. \A c, o : ~ ReuseSession(c, o)
      BY <2>1 DEF ReuseSession
    <3>2. \A c, o : NewSession(c, o).state = "new"
      BY DEF NewSession
    <3>3. \A c, o : ~ InstallNew(c, o)
      BY <2>1, <3>2 DEF InstallNew
    <3> QED
      BY <3>1, <3>3 DEF CreateSession
  <2>4. \A o \in Opts : ~ TakeoverOut(o)
    BY <2>2 DEF TakeoverOut
  <2>5. \A k \in claims : ~ AttachSession(k) /\ ~ AttachRefused(k)
    BY Zenon, <2>1 DEF AttachSession, AttachRefused, LifeInv, LifeTypeOK, SessionType
  <2>6. \A c \in BOOLEAN : ~ Disconnect(c) /\ ~ Restart(c)
    BY <2>2 DEF Disconnect, Restart, Counted
  <2>7. \A b \in callbacks : ~ HandleDisconnect(b) /\ ~ StaleCallback(b)
    BY <2>1 DEF HandleDisconnect, StaleCallback, LifeInv, CallbackSound
  <2>8. ~ ExpireSession /\ ~ ClaimPendingWill /\ ~ RecordLapses
    BY <2>1 DEF ExpireSession, ClaimPendingWill, RecordLapses
  <2>9. \A m, x : ~ PublishWill(m) /\ ~ GiveMessage(m, x) /\ ~ AckInflight(m)
                    /\ ~ QueueOffline(m)
    BY <2>1 DEF PublishWill, GiveMessage, AckInflight, QueueOffline
  <2>10. \E k \in claims : ReleaseUnattached(k)
    BY <2>3, <2>4, <2>5, <2>6, <2>7, <2>8, <2>9 DEF LifeNext
  <2> QED
    BY <2>10, ReleaseKeeps
<1> QED
  BY <1>1, LifeInvariance, RestartsCounted, PTL DEF LifeSpec, FailedConnectKeeps
=============================================================================
