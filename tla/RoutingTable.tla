---------------------------- MODULE RoutingTable ----------------------------
(***************************************************************************)
(* How a publish finds the node of one client (cluster/etcd.go).  etcd     *)
(* holds the client's owner key and the list of its subscriptions; every   *)
(* node keeps a copy of both, fed by two watches and by two loaders that   *)
(* read etcd and replace the copy.  RoutePublish reads the copies only.    *)
(* What one node's copies hold does not depend on another's, so the module *)
(* has the copies of one node, Here; every node writes the keys.           *)
(*                                                                         *)
(* The client's subscriptions are to one topic filter, subscribed to as it *)
(* is ("plain") or in a share group ("shared"): the trie keeps one entry   *)
(* per client and bare filter, so the two collide there.                   *)
(***************************************************************************)
EXTENDS Integers, Sequences, SequencesExt

CONSTANTS
    Brokers,        \* nodes of the cluster
    Here,           \* the node whose copies are modelled
    NoBroker,       \* the value of an owner key that does not exist
    MaxChanges      \* bound on the changes of the owner key, the updates
                    \* and prunings started and the watches that break

VARIABLES
    ownerKey,       \* etcd: node that owns the client
    subsKey,        \* etcd: list of subscriptions, <<>> if the key is absent
    ownerCache,     \* Here's ownerCache entry
    subTrie,        \* the client's entry in Here's trie
    feed,           \* per watch, the values not applied yet
    loading,        \* per watch, the value read and not stored yet, if any
    claiming,       \* Here's claim is committed and not recorded yet
    update,         \* per node, the subscription update in progress
    prune,          \* where a pruneOrphanedSubscriptions is
    routeChanges    \* changes so far, for the bound

routeVars == <<ownerKey, subsKey, ownerCache, subTrie, feed, loading, claiming,
               update, prune, routeChanges>>

Kinds == {"plain", "shared"}
Watches == {"owners", "subs"}
NothingRead == <<>>
NoUpdate == [op |-> "none", kind |-> "plain", read |-> <<>>, current |-> FALSE]

RouteInit ==
    /\ ownerKey = NoBroker /\ subsKey = <<>>
    /\ ownerCache = NoBroker
    /\ subTrie = "none"
    /\ feed = [w \in Watches |-> <<>>]
    /\ loading = [w \in Watches |-> NothingRead]
    /\ claiming = FALSE
    /\ update = [n \in Brokers |-> NoUpdate]
    /\ prune = "idle"
    /\ routeChanges = 0

(* The last subscription of the list to the bare filter is the one the     *)
(* trie keeps.                                                             *)
IndexSubscriptions(subs) == IF subs = <<>> THEN "none" ELSE Last(subs)

Value(w) == IF w = "owners" THEN ownerKey ELSE subsKey

RouteChange == routeChanges < MaxChanges /\ routeChanges' = routeChanges + 1

-----------------------------------------------------------------------------
(* etcd writes                                                             *)

PutOwnerKey(o) ==
    /\ ownerKey' = o
    /\ feed' = [feed EXCEPT !["owners"] = Append(@, o)]

(* A write of the list makes stale what an update in progress read.        *)
PutSubsKey(list) ==
    /\ subsKey' = list
    /\ feed' = [feed EXCEPT !["subs"] = Append(@, list)]

Outdated(upd) == [n \in Brokers |-> [upd[n] EXCEPT !.current = FALSE]]

(* A CONNECT at n claims the key, as new or by a takeover; the claim is    *)
(* recorded in Here's cache when the transaction has answered.                *)
ClaimOwner(n) ==
    /\ RouteChange
    /\ ~(n = Here /\ claiming) /\ ownerKey # n
    /\ PutOwnerKey(n)
    /\ claiming' = (claiming \/ n = Here)
    /\ UNCHANGED <<subsKey, ownerCache, subTrie, loading, update, prune>>

RecordOwner ==
    /\ claiming
    /\ claiming' = FALSE
    /\ ownerCache' = Here
    /\ UNCHANGED <<ownerKey, subsKey, subTrie, feed, loading, update, prune,
                   routeChanges>>

(* ReleaseSession deletes the key and evicts the node's own entry.         *)
ReleaseOwner(n) ==
    /\ RouteChange
    /\ ownerKey = n /\ ~(n = Here /\ claiming)
    /\ PutOwnerKey(NoBroker)
    /\ ownerCache' = IF n = Here /\ ownerCache = Here THEN NoBroker ELSE ownerCache
    /\ UNCHANGED <<subsKey, subTrie, loading, claiming, update, prune>>

(* The owner's lease expires.                                              *)
OwnerExpires ==
    /\ RouteChange
    /\ ownerKey # NoBroker
    /\ PutOwnerKey(NoBroker)
    /\ UNCHANGED <<subsKey, ownerCache, subTrie, loading, claiming, update,
                   prune>>

(* AddSubscription and RemoveSubscription read the list and commit if it   *)
(* did not change, else start over.  The node need not own the client any  *)
(* more: the connection it serves may be the one being taken over.         *)
ReadSubscriptions(n, op, kind) ==
    /\ update[n] = NoUpdate
    /\ RouteChange
    /\ op = "add" => ownerKey = n
    /\ op = "remove" => kind \in ToSet(subsKey)
    /\ update' = [update EXCEPT ![n] = [op |-> op, kind |-> kind,
                                        read |-> subsKey, current |-> TRUE]]
    /\ UNCHANGED <<ownerKey, subsKey, ownerCache, subTrie, feed, loading,
                   claiming, prune>>

(* A subscription already in the list is replaced where it is.             *)
NewList(u) ==
    IF u.op = "add"
      THEN IF u.kind \in ToSet(u.read) THEN u.read ELSE Append(u.read, u.kind)
      ELSE SelectSeq(u.read, LAMBDA k : k # u.kind)

CommitSubscriptions(n) ==
    /\ update[n] # NoUpdate
    /\ LET u == update[n] IN
       \/ /\ u.current
          /\ PutSubsKey(NewList(u))
          /\ update' = [Outdated(update) EXCEPT ![n] = NoUpdate]
       \/ /\ ~u.current /\ u.op = "remove" /\ u.kind \notin ToSet(subsKey)
          /\ update' = [update EXCEPT ![n] = NoUpdate]
          /\ UNCHANGED <<subsKey, feed>>
       \/ /\ ~u.current /\ (u.op = "remove" => u.kind \in ToSet(subsKey))
          /\ update' = [update EXCEPT ![n].read = subsKey, ![n].current = TRUE]
          /\ UNCHANGED <<subsKey, feed>>
    /\ UNCHANGED <<ownerKey, ownerCache, subTrie, loading, claiming, prune,
                   routeChanges>>

(* pruneOrphanedSubscriptions lists the keys, reads the client's owner, and *)
(* removes the list of a client that has none.                             *)
PruneList ==
    /\ prune = "idle" /\ subsKey # <<>>
    /\ RouteChange
    /\ prune' = "listed"
    /\ UNCHANGED <<ownerKey, subsKey, ownerCache, subTrie, feed, loading,
                   claiming, update>>

PruneCheck ==
    /\ prune = "listed"
    /\ prune' = IF ownerKey = NoBroker THEN "orphan" ELSE "idle"
    /\ UNCHANGED <<ownerKey, subsKey, ownerCache, subTrie, feed, loading,
                   claiming, update, routeChanges>>

PruneRemove ==
    /\ prune = "orphan"
    /\ prune' = "idle"
    /\ IF subsKey # <<>>
         THEN PutSubsKey(<<>>) /\ update' = Outdated(update)
         ELSE UNCHANGED <<subsKey, feed, update>>
    /\ UNCHANGED <<ownerKey, ownerCache, subTrie, loading, claiming,
                   routeChanges>>

-----------------------------------------------------------------------------
(* The copies at a node                                                    *)

Store(w, value) ==
    IF w = "owners"
      THEN ownerCache' = value /\ UNCHANGED subTrie
      ELSE subTrie' = IndexSubscriptions(value) /\ UNCHANGED ownerCache

(* watchSessionOwners and watchSubscriptions apply the next event.         *)
WatchApplies(w) ==
    /\ feed[w] # <<>>
    /\ Store(w, Head(feed[w]))
    /\ feed' = [feed EXCEPT ![w] = Tail(@)]
    /\ UNCHANGED <<ownerKey, subsKey, loading, claiming, update, prune,
                   routeChanges>>

(* loadSessionOwnerCache and loadSubscriptionCache, by the periodic        *)
(* reconciliation; or after the watch broke, when the events it had not    *)
(* delivered are skipped.                                                  *)
LoadRead(w) ==
    /\ loading[w] = NothingRead
    /\ loading' = [loading EXCEPT ![w] = <<Value(w)>>]
    /\ UNCHANGED <<ownerKey, subsKey, ownerCache, subTrie, feed, claiming,
                   update, prune, routeChanges>>

WatchBreaks(w) ==
    /\ RouteChange
    /\ loading[w] = NothingRead
    /\ loading' = [loading EXCEPT ![w] = <<Value(w)>>]
    /\ feed' = [feed EXCEPT ![w] = <<>>]
    /\ UNCHANGED <<ownerKey, subsKey, ownerCache, subTrie, claiming, update,
                   prune>>

(* Mutant: a load only adds entries the copy does not have.                *)
LoadAdds(w) ==
    /\ loading[w] # NothingRead
    /\ IF w = "owners" /\ ownerCache # NoBroker
         THEN UNCHANGED <<ownerCache, subTrie>>
         ELSE Store(w, Head(loading[w]))
    /\ loading' = [loading EXCEPT ![w] = NothingRead]
    /\ UNCHANGED <<ownerKey, subsKey, feed, claiming, update, prune,
                   routeChanges>>

LoadStores(w) ==
    /\ loading[w] # NothingRead
    /\ Store(w, Head(loading[w]))
    /\ loading' = [loading EXCEPT ![w] = NothingRead]
    /\ UNCHANGED <<ownerKey, subsKey, feed, claiming, update, prune,
                   routeChanges>>

(* RoutePublish: the nodes a matching publish is forwarded to.  A miss of  *)
(* the owner cache reads etcd; a share group is routed elsewhere.          *)
RoutePublish ==
    LET known == IF ownerCache = NoBroker THEN ownerKey ELSE ownerCache IN
    IF subTrie = "plain" THEN {known} \ {Here, NoBroker} ELSE {}

-----------------------------------------------------------------------------
RouteNext ==
    \/ OwnerExpires \/ RecordOwner
    \/ \E n \in Brokers :
        \/ ClaimOwner(n) \/ ReleaseOwner(n)
        \/ \E op \in {"add", "remove"}, k \in Kinds : ReadSubscriptions(n, op, k)
        \/ CommitSubscriptions(n)
    \/ PruneList \/ PruneCheck \/ PruneRemove
    \/ \E w \in Watches :
        \/ WatchApplies(w) \/ LoadRead(w) \/ LoadStores(w) \/ WatchBreaks(w)

(* The watches, the reconciliation and the transactions in progress run on *)
(* goroutines of their own; the reconciliation is a ticker that never      *)
(* stops.                                                                  *)
RouteFairness ==
    /\ WF_routeVars(RecordOwner)
    /\ WF_routeVars(PruneCheck) /\ WF_routeVars(PruneRemove)
    /\ \A n \in Brokers : WF_routeVars(CommitSubscriptions(n))
    /\ \A w \in Watches :
        WF_routeVars(WatchApplies(w)) /\ WF_routeVars(LoadStores(w))

Reconciliation == \A w \in Watches : WF_routeVars(LoadRead(w))

RouteSpec == RouteInit /\ [][RouteNext]_routeVars /\ RouteFairness /\ Reconciliation

-----------------------------------------------------------------------------
(* Properties                                                              *)

(* Once the keys stop changing the node forwards where etcd says the       *)
(* client is, whatever a claim recorded late, a load that was overtaken by *)
(* the watch or a broken watch left in its copies.                         *)
RoutesConverge ==
    <>[](RoutePublish = IF IndexSubscriptions(subsKey) = "plain"
                          THEN {ownerKey} \ {Here, NoBroker} ELSE {})

=============================================================================
