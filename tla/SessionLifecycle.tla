-------------------------- MODULE SessionLifecycle --------------------------
(***************************************************************************)
(* One client ID on one MQTT broker node (mqtt/broker/session.go,          *)
(* takeover.go, background.go, publish.go, lifecycle.go and                *)
(* mqtt/session/session.go): the session object in the session map, the    *)
(* records the stores keep under the client ID, the CONNECTs between       *)
(* createSession and attachSession, the asynchronous disconnect callbacks, *)
(* and what becomes of every connection's Will and of every message the    *)
(* session was given.                                                      *)
(*                                                                         *)
(* createSession, attachSession, handleDisconnect, expireSession,          *)
(* claimPendingWill, releaseUnattachedSession and GetSessionStateAndClose  *)
(* hold the client-ID lock, so each is one step; the epoch of the session  *)
(* object is what tells a late one that it is stale.  Disconnect itself    *)
(* takes only the session's own lock and hands the rest to a goroutine.    *)
(*                                                                         *)
(* A connection is named by its number, and so is the Will it arms.  Times *)
(* are abstracted to "due" and "lapsed".  The other node of a takeover is  *)
(* seen only through the calls it makes.  The stores are taken to succeed. *)
(***************************************************************************)
EXTENDS Naturals, Sequences, Functions

CONSTANTS MaxConns,       \* bound: CONNECTs, here or at the other node
          Messages,       \* QoS > 0 messages published to the client
          LateCallbacks,  \* a disconnect callback may outlast the expiry interval
          MidConnect,     \* a takeover may find a session not attached yet
          MaxRestarts     \* bound: crashes and graceful restarts

ASSUME LifeAssumption ==
    /\ MaxConns \in Nat \ {0}
    /\ LateCallbacks \in BOOLEAN /\ MidConnect \in BOOLEAN
    /\ MaxRestarts \in Nat

VARIABLES
    sess,        \* the object in sessionsMap: [id, state, epoch, will, keep]
    record,      \* a session record is in the session store
    storedWill,  \* the delayed Will in the will store, by connection, 0 if none
    claims,      \* CONNECTs that hold a sessionClaim and have not attached
    callbacks,   \* disconnect callbacks started and not yet run
    outbox,      \* Wills taken for publication, outside the lock
    remote,      \* the connection the other node holds, 0 if none
    conns,       \* CONNECTs so far
    delayed,     \* whether each CONNECT's Will carried a delay
    fate,        \* what became of each connection's Will
    restarts     \* crashes and restarts so far

VARIABLES
    overflow,        \* the pending channel behind a full send window
    queue,           \* the session's offline queue
    inflight,        \* sent and not acknowledged
    storedQueue,     \* the messages under <client>/queue/0, 1, ...
    storedInflight,  \* the messages under <client>/inflight/
    draining,        \* epochs whose deliverOfflineMessages has not run yet
    given,           \* messages routed to the session
    settled          \* acknowledged, or gone with the end of the session

willVars == <<storedWill, outbox, fate>>
msgVars == <<overflow, queue, inflight, storedQueue, storedInflight, draining,
             given, settled>>
lifeVars == <<sess, record, willVars, claims, callbacks, remote, conns, delayed,
              restarts, msgVars>>

Conns == 1..MaxConns
NoSession == [id |-> 0, state |-> "none", epoch |-> 0, will |-> 0, keep |-> FALSE]

Opts == [clean : BOOLEAN, delayed : BOOLEAN, keep : BOOLEAN]

LifeInit ==
    /\ sess = NoSession /\ record = FALSE
    /\ storedWill = 0 /\ outbox = {}
    /\ fate = [c \in Conns |-> "unarmed"]
    /\ claims = {} /\ callbacks = {} /\ remote = 0
    /\ conns = 0 /\ delayed = <<>> /\ restarts = 0
    /\ overflow = <<>> /\ queue = <<>> /\ inflight = {}
    /\ storedQueue = <<>> /\ storedInflight = {}
    /\ draining = {} /\ given = {} /\ settled = {}

-----------------------------------------------------------------------------
(* Wills.                                                                  *)

(* retireSession: a Will taken from a connection is published if the       *)
(* session ends or the Will carries no delay, and cancelled otherwise.     *)
Due(w, ends) == ends \/ ~delayed[w]

Wills(w) == {w} \ {0}

(* publishWillMessage, run after the lock is released.                     *)
PublishWill(w) ==
    /\ w \in outbox
    /\ outbox' = outbox \ {w}
    /\ fate' = [fate EXCEPT ![w] = "published"]
    /\ UNCHANGED <<sess, record, storedWill, claims, callbacks, remote,
                   conns, delayed, restarts, msgVars>>

(* The delay passes, and triggerWills and claimPendingWill find the Will:  *)
(* it is deleted under the lock and published, unless its client is        *)
(* connected.                                                              *)
ClaimPendingWill ==
    /\ storedWill # 0
    /\ storedWill' = 0
    /\ IF sess.state = "connected"
         THEN /\ fate' = [fate EXCEPT ![storedWill] = "cancelled"]
              /\ UNCHANGED outbox
         ELSE outbox' = outbox \cup {storedWill} /\ UNCHANGED fate
    /\ UNCHANGED <<sess, record, claims, callbacks, remote, conns, delayed, restarts,
                   msgVars>>

-----------------------------------------------------------------------------
(* Messages.                                                               *)

(* destroySessionLocked and claimOrphanedSessionState: nothing the session *)
(* held is left, in memory or in the stores.                               *)
MessagesEnd ==
    /\ overflow' = <<>> /\ queue' = <<>> /\ inflight' = {}
    /\ storedQueue' = <<>> /\ storedInflight' = {}
    /\ settled' = given
    /\ UNCHANGED <<draining, given>>

(* persistSessionMessages: the offline queue is drained into queue/0,      *)
(* queue/1, ..., over whatever those keys held; inflight is copied.        *)
Overwrite(old, q) == q \o SubSeq(old, Len(q) + 1, Len(old))

WriteBack ==
    /\ storedQueue' = Overwrite(storedQueue, queue)
    /\ storedInflight' = storedInflight \cup inflight

(* restoreInflightFromStorage and restoreQueueFromStorage: the messages    *)
(* move out of storage and into the new object.                            *)
RestoreMessages ==
    /\ queue' = storedQueue /\ inflight' = storedInflight /\ overflow' = <<>>
    /\ storedQueue' = <<>> /\ storedInflight' = {}
    /\ UNCHANGED <<draining, given, settled>>

(* A publish reaches the session: sent, held behind a full send window, or *)
(* queued for an offline client (deliverToSession).                        *)
GiveMessage(m, full) ==
    /\ m \in Messages \ given
    /\ sess.id # 0
    /\ given' = given \cup {m}
    /\ CASE sess.state = "connected" /\ full ->
              overflow' = Append(overflow, m) /\ UNCHANGED <<inflight, queue>>
         [] sess.state = "connected" /\ ~full ->
              inflight' = inflight \cup {m} /\ UNCHANGED <<overflow, queue>>
         [] OTHER ->
              ~full /\ queue' = Append(queue, m) /\ UNCHANGED <<inflight, overflow>>
    /\ UNCHANGED <<sess, record, willVars, claims, callbacks, remote, conns, delayed,
                   restarts, storedQueue, storedInflight, draining, settled>>

(* An acknowledgement frees the window, and the oldest pending message is  *)
(* sent (AckInflight, DrainOnePending).                                     *)
AckInflight(m) ==
    /\ sess.state = "connected" /\ m \in inflight
    /\ settled' = settled \cup {m}
    /\ inflight' = (inflight \ {m}) \cup
                     (IF overflow = <<>> THEN {} ELSE {Head(overflow)})
    /\ overflow' = IF overflow = <<>> THEN <<>> ELSE Tail(overflow)
    /\ UNCHANGED <<sess, record, willVars, claims, callbacks, remote, conns, delayed,
                   restarts, queue, storedQueue, storedInflight, draining, given>>

(* deliverOfflineMessages, run by the CONNECT that attached: the offline   *)
(* queue is sent, or queued again if the connection is already gone.       *)
QueueOffline(e) ==
    /\ e \in draining
    /\ draining' = draining \ {e}
    /\ IF sess.state = "connected"
         THEN inflight' = inflight \cup Range(queue) /\ queue' = <<>>
         ELSE UNCHANGED <<inflight, queue>>
    /\ UNCHANGED <<sess, record, willVars, claims, callbacks, remote, conns, delayed,
                   restarts, overflow, storedQueue, storedInflight, given, settled>>

-----------------------------------------------------------------------------
(* CONNECT.                                                                *)

NewSession(c, o) ==
    [id |-> c, state |-> "new", epoch |-> 0, will |-> c, keep |-> o.keep]

(* The Will DetachForTakeover takes from the session a Clean Start         *)
(* replaces, or the stored one if a callback has already consumed it; a    *)
(* session that never had a connection has armed none.                     *)
(* Mutant: the stored Will of the replaced session is not looked up.       *)
ReplacedInMemoryOnly == IF sess.state = "new" THEN 0 ELSE sess.will

ReplacedWill ==
    IF sess.state = "new" \/ (sess.state = "offline" /\ sess.will = 0)
      THEN storedWill ELSE sess.will

(* createSession over a session in the map, without Clean Start: the       *)
(* CONNECT will continue it, from the generation it saw.                   *)
ReuseSession(c, o) ==
    /\ claims' = claims \cup {[conn |-> c, id |-> sess.id, epoch |-> sess.epoch,
                               keep |-> o.keep, continues |-> TRUE,
                               isNew |-> FALSE]}
    /\ UNCHANGED <<sess, record, willVars, remote, msgVars>>

(* createSession with nothing in the map, or with Clean Start: a new       *)
(* object, which restores the stored session, carries on the one taken     *)
(* over from the other node, or starts fresh and clears what an earlier    *)
(* session left behind.                                                    *)
InstallNew(c, o) ==
    LET taken == remote # 0 /\ ~o.clean
        stored == sess.id = 0 /\ remote = 0 /\ record /\ ~o.clean
        old == IF sess.id # 0 THEN ReplacedWill ELSE storedWill
    IN  /\ sess' = NewSession(c, o)
        /\ record' = TRUE /\ remote' = 0
        /\ claims' = claims \cup {[conn |-> c, id |-> c, epoch |-> 0,
                                   keep |-> o.keep,
                                   continues |-> taken \/ stored, isNew |-> TRUE]}
        /\ IF stored
             THEN /\ RestoreMessages
                  /\ UNCHANGED willVars
             ELSE /\ MessagesEnd
                  /\ outbox' = outbox \cup (IF taken THEN {} ELSE Wills(old))
                                      \cup {w \in Wills(remote) : Due(w, o.clean)}
                  /\ fate' = [w \in Conns |->
                                IF w = remote /\ ~Due(w, o.clean)
                                  THEN "cancelled" ELSE fate[w]]
                  /\ storedWill' = IF taken THEN storedWill ELSE 0

CreateSession(o) ==
    /\ conns < MaxConns
    /\ conns' = conns + 1
    /\ delayed' = Append(delayed, o.delayed)
    /\ IF sess.id # 0 /\ remote = 0 /\ ~o.clean
         THEN ReuseSession(conns + 1, o)
         ELSE InstallNew(conns + 1, o)
    /\ UNCHANGED <<callbacks, restarts>>

(* The claim still names the session in the map and its generation.        *)
(* Mutant: the generation is not compared.                                 *)
CurrentObject(id, epoch) == sess.id = id
Current(id, epoch) == sess.id = id /\ sess.epoch = epoch

(* The Will attach takes from the generation it replaces, connected or     *)
(* with its callback still queued.                                         *)
Displaced == IF sess.state = "new" THEN {} ELSE Wills(sess.will)

(* attachSession: a continued session cancels its stored Will; the Will of *)
(* the connection that is displaced, or of one whose callback has not run, *)
(* is retired without ending the session.                                  *)
AttachSession(k) ==
    /\ k \in claims
    /\ claims' = claims \ {k}
    /\ Current(k.id, k.epoch)
    /\ storedWill' = IF k.continues THEN 0 ELSE storedWill
    /\ outbox' = outbox \cup {w \in Displaced : Due(w, FALSE)}
    /\ fate' = [w \in Conns |->
                  CASE w = k.conn -> "armed"
                    [] w \in Displaced /\ ~Due(w, FALSE) -> "cancelled"
                    [] k.continues /\ w = storedWill -> "cancelled"
                    [] OTHER -> fate[w]]
    /\ sess' = [sess EXCEPT !.state = "connected", !.epoch = @ + 1, !.will = k.conn,
                            !.keep = IF k.continues THEN k.keep ELSE @]
    /\ record' = TRUE
    /\ draining' = draining \cup {sess.epoch + 1}
    /\ UNCHANGED <<callbacks, remote, conns, delayed, restarts, overflow, queue,
                   inflight, storedQueue, storedInflight, given, settled>>

(* errSessionReplacedBeforeAttach: the CONNECT is refused.                 *)
AttachRefused(k) ==
    /\ k \in claims
    /\ ~Current(k.id, k.epoch)
    /\ claims' = claims \ {k}
    /\ UNCHANGED <<sess, record, willVars, callbacks, remote, conns, delayed,
                   restarts, msgVars>>

(* Any other failure of attachSession: releaseUnattachedSession writes the *)
(* restored messages back and drops the object, durable state left alone.  *)
(* Mutant: the messages are not written back.                              *)
ReleaseForgets(k) ==
    /\ k \in claims /\ k.isNew /\ Current(k.id, k.epoch)
    /\ claims' = claims \ {k}
    /\ sess' = NoSession
    /\ queue' = <<>> /\ overflow' = <<>> /\ inflight' = {}
    /\ UNCHANGED <<record, willVars, callbacks, remote, conns, delayed, restarts,
                   draining, given, settled, storedQueue, storedInflight>>

ReleaseUnattached(k) ==
    /\ k \in claims /\ k.isNew /\ Current(k.id, k.epoch)
    /\ claims' = claims \ {k}
    /\ sess' = NoSession
    /\ WriteBack
    /\ queue' = <<>> /\ overflow' = <<>> /\ inflight' = {}
    /\ UNCHANGED <<record, willVars, callbacks, remote, conns, delayed, restarts,
                   draining, given, settled>>

-----------------------------------------------------------------------------
(* The end of a connection and of a session.                               *)

(* disconnectLocked: the object goes offline, a clean DISCONNECT drops the *)
(* Will, the overflow moves to the offline queue, and a goroutine is left  *)
(* to do the rest.                                                         *)
Disconnect(clean) ==
    /\ sess.state = "connected"
    /\ sess' = [sess EXCEPT !.state = "offline", !.will = IF clean THEN 0 ELSE @]
    /\ fate' = IF clean /\ sess.will # 0
                 THEN [fate EXCEPT ![sess.will] = "discarded"] ELSE fate
    /\ callbacks' = callbacks \cup {[id |-> sess.id, epoch |-> sess.epoch,
                                     clean |-> clean]}
    /\ queue' = queue \o overflow /\ overflow' = <<>>
    /\ UNCHANGED <<record, storedWill, outbox, claims, remote, conns,
                   delayed, restarts, inflight, storedQueue, storedInflight, draining,
                   given, settled>>

(* handleDisconnect: a stale callback does nothing; otherwise the Will is  *)
(* dropped, published or stored, the messages are written back, and a      *)
(* session without an expiry interval ends.                                *)
HandleDisconnect(b) ==
    /\ b \in callbacks
    /\ callbacks' = callbacks \ {b}
    /\ Current(b.id, b.epoch)
    /\ LET ends == ~sess.keep IN
       /\ outbox' = outbox \cup (IF b.clean THEN {}
                                 ELSE {w \in Wills(sess.will) : Due(w, ends)})
       /\ storedWill' = CASE ends \/ b.clean -> 0
                          [] sess.will # 0 /\ ~Due(sess.will, ends) -> sess.will
                          [] OTHER -> storedWill
       /\ fate' = IF (ends \/ b.clean) /\ storedWill # 0
                    THEN [fate EXCEPT ![storedWill] = "dropped"] ELSE fate
       /\ sess' = IF ends THEN NoSession ELSE [sess EXCEPT !.will = 0]
       /\ record' = ~ends
       /\ IF ends THEN MessagesEnd
          ELSE WriteBack /\ queue' = <<>>
               /\ UNCHANGED <<overflow, inflight, draining, given, settled>>
    /\ UNCHANGED <<claims, remote, conns, delayed, restarts>>

StaleCallback(b) ==
    /\ b \in callbacks
    /\ ~Current(b.id, b.epoch)
    /\ callbacks' = callbacks \ {b}
    /\ UNCHANGED <<sess, record, willVars, claims, remote, conns, delayed, restarts,
                   msgVars>>

(* expireSession, with HasExpired read again under the lock: the stored    *)
(* Will is due, and everything else goes.  Mutant: the stored Will is      *)
(* deleted with the rest.                                                  *)
ExpireDropsWill ==
    /\ sess.state = "offline" /\ sess.keep
    /\ LateCallbacks \/ \A b \in callbacks : ~Current(b.id, b.epoch)
    /\ UNCHANGED outbox
    /\ storedWill' = 0
    /\ fate' = IF sess.will # 0 THEN [fate EXCEPT ![sess.will] = "dropped"] ELSE fate
    /\ sess' = NoSession /\ record' = FALSE
    /\ MessagesEnd
    /\ UNCHANGED <<claims, callbacks, remote, conns, delayed, restarts>>

ExpireSession ==
    /\ sess.state = "offline" /\ sess.keep
    /\ LateCallbacks \/ \A b \in callbacks : ~Current(b.id, b.epoch)
    /\ outbox' = outbox \cup Wills(storedWill)
    /\ storedWill' = 0
    /\ fate' = IF sess.will # 0 THEN [fate EXCEPT ![sess.will] = "dropped"] ELSE fate
    /\ sess' = NoSession /\ record' = FALSE
    /\ MessagesEnd
    /\ UNCHANGED <<claims, callbacks, remote, conns, delayed, restarts>>

(* The session record lapses: badger keeps it for the expiry interval      *)
(* counted from the last Save, connected or not.                           *)
RecordLapses ==
    /\ record
    /\ sess.keep \/ sess.id = 0
    /\ record' = FALSE
    /\ UNCHANGED <<sess, willVars, claims, callbacks, remote, conns, delayed, restarts,
                   msgVars>>

(* GetSessionStateAndClose for a CONNECT at the other node: the active or  *)
(* stored Will travels with the state, and that node's createSession       *)
(* retires it (willFromTakeover).  GetWill does not ask whether the        *)
(* connection ever attached.  What only the stores held is deleted.        *)
TakeoverOut(o) ==
    /\ conns < MaxConns /\ sess.id # 0
    /\ MidConnect \/ sess.state # "new"
    /\ conns' = conns + 1 /\ delayed' = Append(delayed, o.delayed)
    /\ LET w == IF sess.will = 0 THEN storedWill ELSE sess.will
       IN  /\ outbox' = outbox \cup {v \in Wills(w) : Due(v, o.clean)}
           /\ fate' = [v \in Conns |->
                         CASE v = conns + 1 -> "armed"
                           [] v \in Wills(w) /\ ~Due(v, o.clean) -> "cancelled"
                           [] v \in Wills(storedWill) \ {w} -> "dropped"
                           [] OTHER -> fate[v]]
    /\ remote' = conns + 1
    /\ sess' = NoSession /\ record' = FALSE /\ storedWill' = 0
    /\ MessagesEnd
    /\ UNCHANGED <<claims, callbacks, restarts>>

(* The process stops.  Close persists the offline queues of the sessions   *)
(* that are already offline and clears the map, so callbacks still to run  *)
(* find nothing; a crash loses what was in memory.                         *)
Restart(graceful) ==
    /\ restarts < MaxRestarts
    /\ restarts' = restarts + 1
    /\ sess' = NoSession
    /\ claims' = {} /\ callbacks' = {} /\ draining' = {} /\ outbox' = {}
    /\ fate' = [w \in Conns |->
                  IF w \in outbox \/ (w = sess.will /\ sess.state # "new")
                    THEN "dropped" ELSE fate[w]]
    /\ overflow' = <<>> /\ queue' = <<>> /\ inflight' = {}
    /\ IF graceful /\ sess.state \in {"offline", "new"}
         THEN storedQueue' = Overwrite(storedQueue, queue)
         ELSE UNCHANGED storedQueue
    /\ settled' = settled \cup (given \ (Range(storedQueue') \cup storedInflight))
    /\ UNCHANGED <<record, storedWill, remote, conns, delayed, given, storedInflight>>

LifeNext ==
    \/ \E o \in Opts : CreateSession(o) \/ TakeoverOut(o)
    \/ \E k \in claims : AttachSession(k) \/ AttachRefused(k) \/ ReleaseUnattached(k)
    \/ \E clean \in BOOLEAN : Disconnect(clean) \/ Restart(clean)
    \/ \E b \in callbacks : HandleDisconnect(b) \/ StaleCallback(b)
    \/ \E w \in outbox : PublishWill(w)
    \/ ClaimPendingWill \/ ExpireSession \/ RecordLapses
    \/ \E m \in Messages, full \in BOOLEAN : GiveMessage(m, full)
    \/ \E m \in inflight : AckInflight(m)
    \/ \E e \in draining : QueueOffline(e)

(* The goroutines run, a CONNECT finishes, and the one-second sweep of     *)
(* expiryLoop sees every Will whose delay passes.                          *)
LifeFairness ==
    /\ \A w \in Conns : WF_lifeVars(PublishWill(w))
    /\ WF_lifeVars(\E b \in callbacks : HandleDisconnect(b) \/ StaleCallback(b))
    /\ WF_lifeVars(\E k \in claims : AttachSession(k) \/ AttachRefused(k)
                                       \/ ReleaseUnattached(k))
    /\ WF_lifeVars(ClaimPendingWill)

LifeSpec == LifeInit /\ [][LifeNext]_lifeVars /\ LifeFairness

-----------------------------------------------------------------------------
(* Properties.                                                             *)

(* The places that hold connection w's armed Will.                         *)
Holders(w) ==
    {h \in {"session", "store", "outbox", "remote"} :
        \/ h = "session" /\ sess.will = w /\ sess.state # "new"
        \/ h = "store" /\ storedWill = w
        \/ h = "outbox" /\ w \in outbox
        \/ h = "remote" /\ remote = w}

(* An armed Will is in exactly one place, the session object, the will     *)
(* store, the hand of the goroutine that will publish it or the other      *)
(* node, and a Will that was published, discarded or cancelled is in none: *)
(* no CONNECT, callback, expiry or sweep can publish a Will twice or lose  *)
(* one ("the sweep cannot publish the same Will a second time").           *)
WillHeldOnce ==
    \A w \in Conns :
        IF fate[w] = "armed" THEN \E h \in Holders(w) : Holders(w) = {h} ELSE Holders(w) = {}

(* While a client is connected its session keeps no delayed Will in the    *)
(* store: attachSession cancelled it, and no late callback of an earlier   *)
(* generation puts one back.                                               *)
NoWillBehindConnection == sess.state = "connected" => storedWill = 0

(* Once its connection is over, a Will is published, cancelled by a        *)
(* CONNECT that continues the session, or given up with the process.       *)
WillsSettle ==
    \A w \in Conns :
        (fate[w] = "armed" /\ w # remote /\ ~(sess.state = "connected" /\ sess.will = w))
          ~> fate[w] # "armed"

(* The messages the session still has, in memory or in the stores.         *)
Kept == Range(queue) \cup Range(overflow) \cup inflight
          \cup Range(storedQueue) \cup storedInflight

(* A CONNECT that fails between createSession and attachSession takes      *)
(* nothing from the client: every message the session had, restored into   *)
(* the object or published to it since, is back in the stores ("or a       *)
(* failed CONNECT silently consumes the client's undelivered messages").   *)
FailedConnectKeeps ==
    [][(sess.state = "new" /\ sess' = NoSession /\ remote' = remote
          /\ restarts' = restarts) => Kept \subseteq Kept']_lifeVars

=============================================================================
