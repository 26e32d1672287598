-------------------------- MODULE SessionOwnership --------------------------
(***************************************************************************)
(* Which node of the cluster owns one MQTT client's session               *)
(* (cluster/etcd.go, with the steps of mqtt/broker/session.go that claim,  *)
(* hand over, fence and release it).                                       *)
(*                                                                         *)
(* etcd holds an owner key and a takeover lock key for the client, each    *)
(* attached to a lease of the node that wrote it: the expiry of the lease  *)
(* deletes the key.  A node remembers in `tracked' that it claimed the     *)
(* key, so that losing the lease, or its watch reporting the key deleted,  *)
(* disconnects the client.  The routing cache the same watch feeds is in   *)
(* module RoutingTable.                                                    *)
(*                                                                         *)
(* A CONNECT runs createSession under the client's session lock of its     *)
(* node: look the owner up, take the session over if another node has it,  *)
(* claim the owner key, install the session; attachSession follows under   *)
(* a second hold of that lock.  One CONNECT at a time runs on a node.      *)
(***************************************************************************)
EXTENDS Integers, Sequences, FiniteSets

CONSTANTS
    Nodes,          \* nodes of the cluster
    NoNode,         \* the value of a key that does not exist
    First,          \* the node the client is connected to at the start
    MaxConnects,    \* bound on the CONNECTs started
    MaxFaults       \* bound on crashes, lost leases, broken watches and
                    \* lost replies

VARIABLES
    owner,      \* etcd owner key: the node, and the number of its lease
    lock,       \* etcd takeover key: the node, its lease and the token
    live,       \* leases etcd holds, as <<node, number>>
    lease,      \* sessionLease of a node
    tracked,    \* the owner key is in the node's leasedKeys
    events,     \* owner key events the node's watch has not applied
    recovering, \* the node is in recoverSessionLease, past the fencing
    sess,       \* session object in the node's sessionsMap
    dropped,    \* a disconnect callback of the current epoch is pending
    pc,         \* where the node's CONNECT is
    from,       \* node the CONNECT takes the session over from
    token,      \* token of the CONNECT's takeover lock
    connects,   \* CONNECTs started
    faults      \* faults so far

etcdVars  == <<owner, lock, live, lease>>
watchVars == <<tracked, events>>
nodeVars  == <<recovering, sess, dropped>>
connVars  == <<pc, from, token, connects>>
vars == <<etcdVars, watchVars, nodeVars, connVars, faults>>

Steps == {"idle", "lock", "send", "finalize", "recordTakeover", "local",
          "acquire", "renew", "record", "install", "attach"}
MaxLeases == MaxFaults + 1

NoOwner == [node |-> NoNode, lease |-> 0]
NoLock  == [node |-> NoNode, lease |-> 0, token |-> 0]

TypeOK ==
    /\ owner \in [node : Nodes \cup {NoNode}, lease : 0..MaxLeases]
    /\ lock \in [node : Nodes \cup {NoNode}, lease : 0..MaxLeases,
                 token : 0..MaxConnects]
    /\ live \subseteq Nodes \X (1..MaxLeases)
    /\ lease \in [Nodes -> 1..MaxLeases]
    /\ tracked \in [Nodes -> BOOLEAN]
    /\ events \in [Nodes -> Seq(Nodes \cup {NoNode})]
    /\ recovering \in [Nodes -> BOOLEAN]
    /\ sess \in [Nodes -> {"none", "new", "offline", "connected"}]
    /\ dropped \in [Nodes -> BOOLEAN]
    /\ pc \in [Nodes -> Steps]
    /\ from \in [Nodes -> Nodes \cup {NoNode}]
    /\ token \in [Nodes -> 0..MaxConnects]
    /\ connects \in 0..MaxConnects
    /\ faults \in 0..MaxFaults

(* The client is connected to First, or nowhere.                           *)
Init ==
    /\ owner = [node |-> First, lease |-> IF First = NoNode THEN 0 ELSE 1]
    /\ lock = NoLock
    /\ live = {<<n, 1>> : n \in Nodes}
    /\ lease = [n \in Nodes |-> 1]
    /\ tracked = [n \in Nodes |-> n = First]
    /\ events = [n \in Nodes |-> <<>>]
    /\ recovering = [n \in Nodes |-> FALSE]
    /\ sess = [n \in Nodes |-> IF n = First THEN "connected" ELSE "none"]
    /\ dropped = [n \in Nodes |-> FALSE]
    /\ pc = [n \in Nodes |-> "idle"]
    /\ from = [n \in Nodes |-> NoNode]
    /\ token = [n \in Nodes |-> 0]
    /\ connects = 0 /\ faults = 0

-----------------------------------------------------------------------------
(* etcd                                                                    *)

Fault == faults < MaxFaults /\ faults' = faults + 1

LeaseLive(n) == <<n, lease[n]>> \in live

(* Writes the owner key and queues the event for every node's watch.       *)
PutOwner(o) ==
    /\ owner' = o
    /\ events' = [n \in Nodes |-> Append(events[n], o.node)]

(* A lease expires: etcd deletes the keys attached to it.  A lease a node  *)
(* has replaced is no longer kept alive; its current one expires when the  *)
(* node is cut off for longer than the TTL.                                *)
LeaseExpires(n, k) ==
    /\ <<n, k>> \in live
    /\ IF k = lease[n] THEN Fault ELSE UNCHANGED faults
    /\ live' = live \ {<<n, k>>}
    /\ IF owner.node = n /\ owner.lease = k
         THEN PutOwner(NoOwner)
         ELSE UNCHANGED <<owner, events>>
    /\ lock' = IF lock.node = n /\ lock.lease = k THEN NoLock ELSE lock
    /\ UNCHANGED <<lease, tracked, nodeVars, connVars>>

-----------------------------------------------------------------------------
(* A node's session lock, fencing and release                              *)

(* createSession holds the lock up to its return; every other holder is    *)
(* one step here.                                                          *)
SessionLocked(n) == pc[n] \notin {"idle", "attach"}

(* A claim transaction and its bookkeeping hold leaseRecoveryMu.           *)
ClaimInFlight(n) == pc[n] \in {"recordTakeover", "record"}

(* HandleSessionLeaseLost: disconnect the live connection of a session in  *)
(* the map; the disconnect callback runs later.                            *)
Fence(n) ==
    /\ sess' = [sess EXCEPT ![n] = IF @ = "connected" THEN "offline" ELSE @]
    /\ dropped' = [dropped EXCEPT ![n] = @ \/ sess[n] = "connected"]

(* ReleaseSession: untrack, and compare-and-delete the owner key.          *)
ReleaseSession(n) ==
    /\ tracked' = [tracked EXCEPT ![n] = FALSE]
    /\ IF owner.node = n THEN PutOwner(NoOwner) ELSE UNCHANGED <<owner, events>>

-----------------------------------------------------------------------------
(* Lease recovery                                                          *)

(* detachSessionOwnersLocked and notifySessionLeaseLost.                   *)
DetachSessionOwners(n) ==
    /\ tracked' = [tracked EXCEPT ![n] = FALSE]
    /\ IF tracked[n] THEN Fence(n) ELSE UNCHANGED <<sess, dropped>>

(* The keepalive stream of the current lease ends: the lease expired, or   *)
(* the node could not reach etcd for a while.  recoverSessionLease fences  *)
(* the tracked sessions and then grants a lease.                           *)
RecoverSessionLease(n) ==
    /\ ~recovering[n] /\ ~ClaimInFlight(n)
    /\ IF LeaseLive(n) THEN Fault ELSE UNCHANGED faults
    /\ DetachSessionOwners(n)
    /\ recovering' = [recovering EXCEPT ![n] = TRUE]
    /\ UNCHANGED <<etcdVars, events, connVars>>

RefreshSessionLease(n) ==
    /\ recovering[n]
    /\ lease' = [lease EXCEPT ![n] = @ + 1]
    /\ live' = live \cup {<<n, lease[n] + 1>>}
    /\ recovering' = [recovering EXCEPT ![n] = FALSE]
    /\ UNCHANGED <<owner, lock, watchVars, sess, dropped, connVars, faults>>

-----------------------------------------------------------------------------
(* The watch on the owner keys                                             *)

(* watchSessionOwners applies the next event.  A deletion of a tracked key *)
(* fences; the value of another node only stops the tracking.              *)
WatchSessionOwners(n) ==
    /\ events[n] # <<>>
    /\ LET value == Head(events[n]) IN
       /\ tracked' = [tracked EXCEPT ![n] = @ /\ value = n]
       /\ IF value = NoNode /\ tracked[n]
            THEN Fence(n)
            ELSE UNCHANGED <<sess, dropped>>
    /\ events' = [events EXCEPT ![n] = Tail(@)]
    /\ UNCHANGED <<etcdVars, recovering, connVars, faults>>

(* The watch fails and starts again at the current revision: what it had   *)
(* not delivered is never applied.                                         *)
WatchFails(n) ==
    /\ events[n] # <<>> /\ Fault
    /\ events' = [events EXCEPT ![n] = <<>>]
    /\ UNCHANGED <<etcdVars, tracked, nodeVars, connVars>>

-----------------------------------------------------------------------------
(* CONNECT: createSession                                                  *)

Goto(n, step) == pc' = [pc EXCEPT ![n] = step]

(* GetSessionOwner, read from etcd and not from the cache.                 *)
StartConnect(n) ==
    /\ pc[n] = "idle" /\ connects < MaxConnects
    /\ connects' = connects + 1
    /\ token' = [token EXCEPT ![n] = connects + 1]
    /\ IF owner.node \in Nodes \ {n}
         THEN /\ from' = [from EXCEPT ![n] = owner.node]
              /\ Goto(n, "lock")
         ELSE /\ from' = [from EXCEPT ![n] = NoNode]
              /\ Goto(n, "local")
    /\ UNCHANGED <<etcdVars, watchVars, nodeVars, faults>>

(* acquireTakeoverLock: the observed owner still owns the session and no   *)
(* takeover runs.                                                          *)
AcquireTakeoverLock(n) ==
    /\ pc[n] = "lock" /\ ~recovering[n]
    /\ IF owner.node = from[n] /\ lock = NoLock /\ LeaseLive(n)
         THEN /\ lock' = [node |-> n, lease |-> lease[n], token |-> token[n]]
              /\ Goto(n, "send")
         ELSE /\ Goto(n, "idle")
              /\ UNCHANGED lock
    /\ UNCHANGED <<owner, live, lease, watchVars, nodeVars, from, token,
                   connects, faults>>

(* GetSessionStateAndClose on the source m: detach the connection, remove  *)
(* the session and leave the owner key to the node taking over.            *)
CloseAtSource(m) ==
    /\ sess' = [sess EXCEPT ![m] = "none"]
    /\ dropped' = [dropped EXCEPT ![m] = FALSE]

(* SendTakeover: the source handles the request under its session lock.    *)
SendTakeover(n) ==
    /\ pc[n] = "send" /\ ~SessionLocked(from[n])
    /\ CloseAtSource(from[n])
    /\ Goto(n, "finalize")
    /\ UNCHANGED <<etcdVars, watchVars, recovering, from, token, connects, faults>>

(* The source closed the session but its answer is lost: retryWithBreaker  *)
(* sends the request again.                                                *)
TakeoverReplyLost(n) ==
    /\ pc[n] = "send" /\ ~SessionLocked(from[n])
    /\ Fault
    /\ CloseAtSource(from[n])
    /\ UNCHANGED <<etcdVars, watchVars, recovering, connVars>>

(* releaseTakeoverLock compares the token it deletes.                      *)
ReleaseTakeoverLock(n) ==
    lock' = IF lock.token = token[n] THEN NoLock ELSE lock

(* The request fails on every attempt.                                     *)
TakeoverFails(n) ==
    /\ pc[n] = "send"
    /\ ReleaseTakeoverLock(n)
    /\ Goto(n, "idle")
    /\ UNCHANGED <<owner, live, lease, watchVars, nodeVars, from, token,
                   connects, faults>>

(* finalizeTakeover: swap the owner and delete the lock while the owner is *)
(* still the source, or gone with its lease, and the lock is this one's.   *)
FinalizeTakeover(n) ==
    /\ pc[n] = "finalize" /\ ~recovering[n]
    /\ IF owner.node \in {from[n], NoNode} /\ lock.token = token[n] /\ LeaseLive(n)
         THEN /\ PutOwner([node |-> n, lease |-> lease[n]])
              /\ lock' = NoLock
              /\ Goto(n, "recordTakeover")
         ELSE /\ ReleaseTakeoverLock(n)
              /\ Goto(n, "idle")
              /\ UNCHANGED <<owner, events>>
    /\ UNCHANGED <<live, lease, tracked, nodeVars, from, token,
                   connects, faults>>

(* recordSessionOwnership, after the transaction's answer: the watch may   *)
(* have applied later events by then.                                      *)
RecordOwnership(n) ==
    /\ ClaimInFlight(n)
    /\ tracked' = [tracked EXCEPT ![n] = TRUE]
    /\ Goto(n, IF pc[n] = "record" THEN "install" ELSE "local")
    /\ UNCHANGED <<etcdVars, events, nodeVars, from, token, connects, faults>>

(* A Clean Start destroys the session the node has, which releases the     *)
(* owner key the CONNECT may have just taken over.                         *)
CleanStart(n) ==
    /\ pc[n] = "local" /\ sess[n] # "none"
    /\ ReleaseSession(n)
    /\ sess' = [sess EXCEPT ![n] = "none"]
    /\ dropped' = [dropped EXCEPT ![n] = FALSE]
    /\ Goto(n, "acquire")
    /\ UNCHANGED <<lock, live, lease, recovering, from, token, connects, faults>>

ResumeOrCreate(n) ==
    /\ pc[n] = "local"
    /\ Goto(n, "acquire")
    /\ UNCHANGED <<etcdVars, watchVars, nodeVars, from, token, connects, faults>>

(* Mutant: the claim does not compare the takeover key.                    *)
ClaimAcrossTakeover(n) ==
    IF tracked[n] THEN owner.node = n ELSE owner = NoOwner

(* tryInitialSessionClaim: create the key, or renew a tracked claim, while *)
(* no takeover runs.                                                       *)
ClaimHolds(n) ==
    /\ lock = NoLock
    /\ IF tracked[n] THEN owner.node = n ELSE owner = NoOwner

(* An error past the takeover hands the owner key back.                    *)
RollBack(n) ==
    IF from[n] # NoNode THEN ReleaseSession(n) ELSE UNCHANGED <<tracked, owner, events>>

(* The claim's lease is gone: recoverSessionLease, then one more attempt.  *)
RecoverLeaseOfClaim(n) ==
    /\ DetachSessionOwners(n)
    /\ recovering' = [recovering EXCEPT ![n] = TRUE]
    /\ Goto(n, "acquire")
    /\ UNCHANGED <<owner, events>>

Claim(n) ==
    /\ PutOwner([node |-> n, lease |-> lease[n]])
    /\ Goto(n, "record")
    /\ UNCHANGED <<tracked, sess, dropped, recovering>>

(* A tracked claim that is gone is fenced before the error is returned.    *)
ClaimRefused(n) ==
    /\ IF lock = NoLock /\ tracked[n]
         THEN Fence(n) /\ tracked' = [tracked EXCEPT ![n] = FALSE]
                       /\ UNCHANGED <<owner, events>>
         ELSE RollBack(n) /\ UNCHANGED <<sess, dropped>>
    /\ Goto(n, "idle")
    /\ UNCHANGED recovering

(* Mutant: a claim that meets a takeover tries again instead of failing.   *)
AcquireWaits(n) ==
    /\ pc[n] = "acquire" /\ ~recovering[n] /\ lock = NoLock
    /\ \/ ClaimHolds(n) /\ LeaseLive(n) /\ Claim(n)
       \/ ClaimHolds(n) /\ ~LeaseLive(n) /\ RecoverLeaseOfClaim(n)
       \/ ~ClaimHolds(n) /\ ClaimRefused(n)
    /\ UNCHANGED <<lock, live, lease, from, token, connects, faults>>

(* AcquireSession, first transaction; a key of this node that it does not  *)
(* track goes on to be renewed.                                            *)
AcquireSession(n) ==
    /\ pc[n] = "acquire" /\ ~recovering[n]
    /\ LET renewable == lock = NoLock /\ ~tracked[n] /\ owner.node = n IN
       \/ ClaimHolds(n) /\ LeaseLive(n) /\ Claim(n)
       \/ ClaimHolds(n) /\ ~LeaseLive(n) /\ RecoverLeaseOfClaim(n)
       \/ /\ ~ClaimHolds(n) /\ renewable
          /\ Goto(n, "renew")
          /\ UNCHANGED <<owner, watchVars, nodeVars>>
       \/ ~ClaimHolds(n) /\ ~renewable /\ ClaimRefused(n)
    /\ UNCHANGED <<lock, live, lease, from, token, connects, faults>>

(* tryRenewSessionClaim moves the node's own key to its current lease.     *)
RenewSession(n) ==
    /\ pc[n] = "renew" /\ ~recovering[n]
    /\ LET holds == owner.node = n /\ lock = NoLock IN
       \/ holds /\ LeaseLive(n) /\ Claim(n)
       \/ holds /\ ~LeaseLive(n) /\ RecoverLeaseOfClaim(n)
       \/ ~holds /\ RollBack(n) /\ Goto(n, "idle") /\ UNCHANGED nodeVars
    /\ UNCHANGED <<lock, live, lease, from, token, connects, faults>>

(* The claim commits but its answer is lost: the CONNECT fails, and unless *)
(* it took the session over the key stays, untracked.                      *)
AcquireReplyLost(n) ==
    /\ pc[n] = "acquire" /\ ~recovering[n] /\ ClaimHolds(n) /\ LeaseLive(n)
    /\ from[n] = NoNode /\ Fault
    /\ PutOwner([node |-> n, lease |-> lease[n]])
    /\ Goto(n, "idle")
    /\ UNCHANGED <<lock, live, lease, tracked, nodeVars, from, token, connects>>

InstallSession(n) ==
    /\ pc[n] = "install"
    /\ sess' = [sess EXCEPT ![n] = IF @ = "none" THEN "new" ELSE @]
    /\ Goto(n, "attach")
    /\ UNCHANGED <<etcdVars, watchVars, recovering, dropped, from, token,
                   connects, faults>>

(* Another error of createSession: the client may not use the session or   *)
(* there are too many, or restoring a new one fails after the claim.       *)
CreateFails(n) ==
    /\ \/ pc[n] = "local" /\ RollBack(n)
       \/ pc[n] = "install" /\ sess[n] = "none" /\ ReleaseSession(n)
    /\ Goto(n, "idle")
    /\ UNCHANGED <<lock, live, lease, nodeVars, from, token, connects, faults>>

(* attachSession: the session the claim names must still be in the map.    *)
AttachSession(n) ==
    /\ pc[n] = "attach"
    /\ IF sess[n] # "none"
         THEN /\ sess' = [sess EXCEPT ![n] = "connected"]
              /\ dropped' = [dropped EXCEPT ![n] = FALSE]
         ELSE UNCHANGED <<sess, dropped>>
    /\ Goto(n, "idle")
    /\ UNCHANGED <<etcdVars, watchVars, recovering, from, token, connects, faults>>

(* The attachment fails: releaseUnattachedSession drops a session this     *)
(* CONNECT created.                                                        *)
AttachFails(n) ==
    /\ pc[n] = "attach"
    /\ IF sess[n] = "new"
         THEN ReleaseSession(n) /\ sess' = [sess EXCEPT ![n] = "none"]
         ELSE UNCHANGED <<owner, watchVars, sess>>
    /\ Goto(n, "idle")
    /\ UNCHANGED <<lock, live, lease, recovering, dropped, from, token,
                   connects, faults>>

-----------------------------------------------------------------------------
(* Disconnect, expiry and crash                                            *)

ConnectionLost(n) ==
    /\ sess[n] = "connected"
    /\ Fence(n)
    /\ UNCHANGED <<etcdVars, watchVars, recovering, connVars, faults>>

(* handleDisconnect of the current epoch: a session whose expiry interval  *)
(* is zero ends, a persistent one keeps its owner key.                     *)
HandleDisconnect(n, ends) ==
    /\ dropped[n] /\ ~SessionLocked(n)
    /\ dropped' = [dropped EXCEPT ![n] = FALSE]
    /\ IF ends
         THEN /\ sess' = [sess EXCEPT ![n] = "none"]
              /\ ReleaseSession(n)
         ELSE UNCHANGED <<sess, tracked, owner, events>>
    /\ UNCHANGED <<lock, live, lease, recovering, connVars, faults>>

(* expireSession re-checks under the session lock.                         *)
ExpireSession(n) ==
    /\ sess[n] = "offline" /\ ~dropped[n] /\ ~SessionLocked(n)
    /\ sess' = [sess EXCEPT ![n] = "none"]
    /\ ReleaseSession(n)
    /\ UNCHANGED <<lock, live, lease, recovering, dropped, connVars, faults>>

(* A node crashes and starts again: memory is lost, the keys stay on the   *)
(* old lease, and Start watches from the current revision.                 *)
CrashAndStart(n) ==
    /\ Fault
    /\ lease' = [lease EXCEPT ![n] = @ + 1]
    /\ live' = live \cup {<<n, lease[n] + 1>>}
    /\ tracked' = [tracked EXCEPT ![n] = FALSE]
    /\ events' = [events EXCEPT ![n] = <<>>]
    /\ recovering' = [recovering EXCEPT ![n] = FALSE]
    /\ sess' = [sess EXCEPT ![n] = "none"]
    /\ dropped' = [dropped EXCEPT ![n] = FALSE]
    /\ Goto(n, "idle")
    /\ UNCHANGED <<owner, lock, from, token, connects>>

-----------------------------------------------------------------------------
ConnectStep(n) ==
    \/ AcquireTakeoverLock(n) \/ SendTakeover(n) \/ FinalizeTakeover(n)
    \/ RecordOwnership(n) \/ ResumeOrCreate(n) \/ AcquireSession(n)
    \/ RenewSession(n) \/ InstallSession(n) \/ AttachSession(n)

Next ==
    \E n \in Nodes :
        \/ \E k \in 1..MaxLeases : LeaseExpires(n, k)
        \/ RecoverSessionLease(n) \/ RefreshSessionLease(n)
        \/ WatchSessionOwners(n) \/ WatchFails(n)
        \/ StartConnect(n) \/ ConnectStep(n)
        \/ TakeoverReplyLost(n) \/ TakeoverFails(n) \/ CleanStart(n)
        \/ AcquireReplyLost(n) \/ CreateFails(n) \/ AttachFails(n)
        \/ ConnectionLost(n) \/ ExpireSession(n) \/ CrashAndStart(n)
        \/ \E ends \in BOOLEAN : HandleDisconnect(n, ends)

(* The goroutines that run on their own are fair: the watch, the lease     *)
(* recovery and each running CONNECT.  A client or a fault need not do     *)
(* anything, and no fairness is put on a timeout.                          *)
Fairness ==
    \A n \in Nodes :
        /\ WF_vars(WatchSessionOwners(n))
        /\ WF_vars(RefreshSessionLease(n)) /\ WF_vars(ConnectStep(n))

Spec == Init /\ [][Next]_vars
FairSpec == Spec /\ Fairness

-----------------------------------------------------------------------------
(* Properties                                                              *)

(* The owner key passes from one node to another only when the session is  *)
(* gone from the node that loses it: finalizeTakeover commits after the    *)
(* source closed its copy, and no CONNECT at the source can have installed *)
(* it again, because the claim compares the takeover key and the source    *)
(* answers under its session lock.                                         *)
TakeoverEvictsSource ==
    [][\A n \in Nodes :
          pc[n] = "finalize" /\ pc'[n] = "recordTakeover"
              => sess[from[n]] = "none"]_vars

(* Every CONNECT returns, without the help of a timeout: the session locks *)
(* of two nodes and the takeover lock never wait for each other.           *)
ConnectReturns ==
    \A n \in Nodes : pc[n] # "idle" ~> pc[n] = "idle"

=============================================================================
