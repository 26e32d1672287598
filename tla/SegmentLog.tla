----------------------------- MODULE SegmentLog -----------------------------
(***************************************************************************)
(* The log of one queue: logstorage/manager.go (SegmentManager) with its   *)
(* segments (segment.go) and the group commit that lets concurrent         *)
(* publishers share an fsync (groupcommit.go).                             *)
(*                                                                         *)
(* SegmentManager.mu is held by an append, a rotation, a sync and a whole  *)
(* truncation, but not by the fsync of a durable append, so appends,       *)
(* rotations and truncations interleave with barriers in flight.  A        *)
(* truncation deletes file after file and is therefore several steps: a    *)
(* crash can come between any two of them.                                 *)
(*                                                                         *)
(* A record is its number in order of acceptance, and a batch is one       *)
(* record.  A process crash keeps what was written; a power loss keeps     *)
(* what was synced and any prefix of the rest.                             *)
(***************************************************************************)
EXTENDS Naturals, Sequences

CONSTANTS
    Publishers,   \* goroutines appending to this queue
    NoOne,        \* no publisher
    MaxRecords,   \* bound: records ever accepted
    MaxObjects,   \* bound: Segment objects that exist at a time
    SegmentSize,  \* records that fill a segment (MaxSegmentSize)
    MaxCrashes    \* bound: crashes of the broker

ASSUME SegmentLogAssumption ==
    /\ NoOne \notin Publishers
    /\ MaxRecords \in Nat /\ SegmentSize \in Nat \ {0} /\ MaxCrashes \in Nat
    /\ MaxObjects \in Nat /\ MaxObjects > MaxRecords

VARIABLES
    segs,        \* segments on disk, oldest first; the last one is active
    headOffset,
    tailOffset,
    syncErr,     \* a barrier failed and none has succeeded since
    commit,      \* segment object -> its segmentCommit
    pub,         \* publisher -> where it is in appendDurable
    truncation,  \* the running Truncate: its bound and the files left to delete
    accepted,    \* records accepted so far
    place,       \* history: record -> the offset it was given
    acked,       \* history: records whose durable append succeeded
    retired,     \* history: records removed by retention
    crashes      \* crashes so far

vars == <<segs, headOffset, tailOffset, syncErr, commit, pub, truncation,
          accepted, place, acked, retired, crashes>>

Records == 1 .. MaxRecords
\* Names of Segment objects: those open and those a publisher still holds
\* after they were deleted.
Objects == 1 .. MaxObjects

Idle    == [pc |-> "idle", object |-> 0, through |-> 0, covered |-> 0, record |-> 0]
NotTruncating == [running |-> FALSE, before |-> 0, doomed |-> {}]
Fresh   == [through |-> 0, leader |-> NoOne]

Active        == segs[Len(segs)]
NextOffset(s) == s.base + Len(s.log)
Stored        == {i \in Records : \E k \in DOMAIN segs : \E j \in DOMAIN segs[k].log :
                                    segs[k].log[j] = i}

\* The objects no segment and no publisher refers to, and the next to be made.
FreeObjects ==
    {x \in Objects : /\ \A k \in DOMAIN segs : segs[k].object # x
                     /\ \A p \in Publishers : pub[p].object # x}
FreeObject == CHOOSE x \in FreeObjects : TRUE

\* CreateSegment: the file is new and its directory entry durable.
NewSegment(x, base) ==
    [object |-> x, base |-> base, log |-> <<>>, synced |-> base, expired |-> FALSE]

Init ==
    /\ segs = <<NewSegment(1, 0)>>
    /\ headOffset = 0 /\ tailOffset = 0 /\ syncErr = FALSE
    /\ commit = [x \in Objects |-> Fresh]
    /\ pub = [p \in Publishers |-> Idle]
    /\ truncation = NotTruncating
    /\ accepted = 0 /\ place = [i \in Records |-> 0]
    /\ acked = {} /\ retired = {} /\ crashes = 0

----------------------------------------------------------------------------
(* Appending.                                                              *)

\* MaxSegmentAge has passed since the active segment was created.
Expire ==
    /\ segs # <<>> /\ ~Active.expired
    /\ segs' = [segs EXCEPT ![Len(segs)].expired = TRUE]
    /\ UNCHANGED <<headOffset, tailOffset, syncErr, commit, pub, truncation,
                   accepted, place, acked, retired, crashes>>

ShouldRotate == Len(Active.log) >= SegmentSize \/ Active.expired

\* rotate names the new file after the tail.  The file exists already when
\* the active segment is empty, and O_EXCL refuses.
CanRotate == Len(Active.log) > 0

\* Segment.Sync on the active segment.
Synced(s) == [s EXCEPT ![Len(s)].synced = NextOffset(s[Len(s)])]

\* Mutant: the outgoing segment is not synced.
RotatedUnsynced(s) == Append(s, NewSegment(FreeObject, tailOffset))

\* rotate: the outgoing segment is sealed by a sync before a new one is made.
Rotated(s) == Append(Synced(s), NewSegment(FreeObject, tailOffset))

\* appendLocked under the manager lock.  A recorded sync failure is retried
\* first; that sync and the one of a rotation succeed here, and where they fail
\* the append is refused and nothing changes.
AppendLocked ==
    /\ ~truncation.running /\ accepted < MaxRecords
    /\ ShouldRotate => CanRotate /\ FreeObjects # {}
    /\ LET i     == accepted + 1
           clean == IF syncErr THEN Synced(segs) ELSE segs
           open  == IF ShouldRotate THEN Rotated(clean) ELSE clean
       IN  /\ segs' = [open EXCEPT ![Len(open)].log = Append(@, i)]
           /\ commit' = IF ShouldRotate THEN [commit EXCEPT ![FreeObject] = Fresh] ELSE commit
           /\ tailOffset' = tailOffset + 1
           /\ accepted' = i
           /\ place' = [place EXCEPT ![i] = tailOffset]
    /\ syncErr' = FALSE
    /\ UNCHANGED <<headOffset, truncation, acked, retired, crashes>>

\* SegmentManager.Append with a sync interval: nothing is promised.
AppendBuffered ==
    /\ AppendLocked
    /\ UNCHANGED pub

\* appendDurable, up to the release of the lock.  The segment that took the
\* record is captured.
AppendDurable(p) ==
    /\ pub[p] = Idle
    /\ AppendLocked
    /\ pub' = [pub EXCEPT ![p] = [pc |-> "barrier", object |-> segs'[Len(segs')].object,
                                  through |-> tailOffset', covered |-> 0,
                                  record |-> accepted']]

----------------------------------------------------------------------------
(* The group commit of one segment (segmentCommit.syncThrough).            *)

SegmentOf(p) == {k \in DOMAIN segs : segs[k].object = pub[p].object}

\* through >= offset: the record is on disk and the publish succeeds.
BarrierPassed(p) ==
    /\ pub[p].pc = "barrier"
    /\ commit[pub[p].object].through >= pub[p].through
    /\ acked' = acked \cup {pub[p].record}
    /\ pub' = [pub EXCEPT ![p] = Idle]
    /\ UNCHANGED <<segs, headOffset, tailOffset, syncErr, commit, truncation,
                   accepted, place, retired, crashes>>

\* Nobody is syncing: this publisher leads.  What the fsync will cover is
\* fixed before it starts.
LeadBarrier(p) ==
    /\ pub[p].pc = "barrier"
    /\ commit[pub[p].object].through < pub[p].through
    /\ commit[pub[p].object].leader = NoOne
    /\ \E k \in SegmentOf(p) :
         pub' = [pub EXCEPT ![p].pc = "fsync", ![p].covered = NextOffset(segs[k])]
    /\ commit' = [commit EXCEPT ![pub[p].object].leader = p]
    /\ UNCHANGED <<segs, headOffset, tailOffset, syncErr, truncation,
                   accepted, place, acked, retired, crashes>>

\* Mutant: coverage is read after the fsync instead of before it.
FsyncCoversLate(p) ==
    /\ pub[p].pc = "fsync"
    /\ segs' = [k \in DOMAIN segs |->
                  IF k \in SegmentOf(p) /\ segs[k].synced < pub[p].covered
                  THEN [segs[k] EXCEPT !.synced = pub[p].covered] ELSE segs[k]]
    /\ commit' = [commit EXCEPT ![pub[p].object] = [through |-> tailOffset, leader |-> NoOne]]
    /\ pub' = [pub EXCEPT ![p].pc = "barrier"]
    /\ UNCHANGED <<headOffset, tailOffset, syncErr, truncation, accepted, place,
                   acked, retired, crashes>>

\* The fsync succeeded; the leader loops like everyone it wakes.
FsyncSucceeds(p) ==
    /\ pub[p].pc = "fsync"
    /\ segs' = [k \in DOMAIN segs |->
                  IF k \in SegmentOf(p) /\ segs[k].synced < pub[p].covered
                  THEN [segs[k] EXCEPT !.synced = pub[p].covered] ELSE segs[k]]
    /\ commit' = [commit EXCEPT ![pub[p].object] =
                    [through |-> IF pub[p].covered > @.through THEN pub[p].covered ELSE @.through,
                     leader  |-> NoOne]]
    /\ pub' = [pub EXCEPT ![p].pc = "barrier"]
    /\ UNCHANGED <<headOffset, tailOffset, syncErr, truncation, accepted, place,
                   acked, retired, crashes>>

\* Mutant: a failed barrier stays marked as syncing.
FsyncFailsSilently(p) ==
    /\ pub[p].pc = "fsync" /\ ~truncation.running
    /\ syncErr' = TRUE
    /\ pub' = [pub EXCEPT ![p] = Idle]
    /\ UNCHANGED <<segs, headOffset, tailOffset, commit, truncation, accepted,
                   place, acked, retired, crashes>>

\* The fsync failed, or a truncation closed the segment before or under it.
\* recordSyncFailure takes the manager lock while the barrier's waiters still
\* wait; the leader's publish fails and each waiter tries a barrier of its own.
FsyncFails(p) ==
    /\ \/ pub[p].pc = "fsync"
       \/ /\ pub[p].pc = "barrier" /\ SegmentOf(p) = {}
          /\ commit[pub[p].object].through < pub[p].through
          /\ commit[pub[p].object].leader = NoOne
    /\ ~truncation.running
    /\ syncErr' = TRUE
    /\ commit' = [commit EXCEPT ![pub[p].object].leader = NoOne]
    /\ pub' = [pub EXCEPT ![p] = Idle]
    /\ UNCHANGED <<segs, headOffset, tailOffset, truncation, accepted, place,
                   acked, retired, crashes>>

\* The background ticker, and Sync of the queue store.
Sync(ok) ==
    /\ ~truncation.running
    /\ segs' = IF ok THEN Synced(segs) ELSE segs
    /\ syncErr' = ~ok
    /\ UNCHANGED <<headOffset, tailOffset, commit, pub, truncation,
                   accepted, place, acked, retired, crashes>>

----------------------------------------------------------------------------
(* Retention.                                                              *)

\* Truncate takes the lock and picks every segment that ends at or before the
\* bound, the active one included.
Truncate(before) ==
    /\ ~truncation.running
    /\ truncation' = [running |-> TRUE, before |-> before,
                      doomed |-> {segs[k].object : k \in {j \in DOMAIN segs :
                                                 NextOffset(segs[j]) <= before}}]
    /\ UNCHANGED <<segs, headOffset, tailOffset, syncErr, commit, pub,
                   accepted, place, acked, retired, crashes>>

\* Segment.Delete of the oldest of them.
DeleteSegment ==
    /\ truncation.doomed # {}
    /\ segs' = Tail(segs)
    /\ truncation' = [truncation EXCEPT !.doomed = @ \ {segs[1].object}]
    /\ retired' = retired \cup {segs[1].log[j] : j \in DOMAIN segs[1].log}
    /\ UNCHANGED <<headOffset, tailOffset, syncErr, commit, pub, accepted,
                   place, acked, crashes>>

\* The head moves to the oldest segment left; a log left empty restarts at the
\* bound in a new segment.
FinishTruncate ==
    /\ truncation.running /\ truncation.doomed = {}
    /\ IF segs # <<>>
       THEN /\ headOffset' = segs[1].base
            /\ UNCHANGED <<segs, tailOffset, commit>>
       ELSE /\ FreeObjects # {}
            /\ segs' = <<NewSegment(FreeObject, truncation.before)>>
            /\ commit' = [commit EXCEPT ![FreeObject] = Fresh]
            /\ headOffset' = truncation.before
            /\ tailOffset' = truncation.before
    /\ truncation' = NotTruncating
    /\ UNCHANGED <<syncErr, pub, accepted, place, acked, retired, crashes>>

\* applyTimeRetention and applySizeRetention delete from the old end and leave
\* the active segment.
ApplyRetention ==
    /\ ~truncation.running
    /\ \E n \in 1 .. Len(segs) - 1 :
         /\ segs' = SubSeq(segs, n + 1, Len(segs))
         /\ headOffset' = segs[n + 1].base
         /\ retired' = retired \cup {i \in Stored : \E k \in 1 .. n : \E j \in DOMAIN segs[k].log :
                                        segs[k].log[j] = i}
    /\ UNCHANGED <<tailOffset, syncErr, commit, pub, truncation, accepted,
                   place, acked, crashes>>

----------------------------------------------------------------------------
(* Crash and restart.                                                      *)

\* What loadSegments finds when cut[k] records of segment k are left
\* (RecoverSegment has cut a torn batch off).
Loaded(cut, power) ==
    [k \in DOMAIN segs |->
        [object |-> k, base |-> segs[k].base,
         log |-> SubSeq(segs[k].log, 1, cut[k]),
         synced |-> IF power THEN segs[k].base + cut[k] ELSE segs[k].synced,
         expired |-> FALSE]]

\* Mutant: the tail is the base of the last segment, its records not scanned.
NewSegmentManagerUnscanned(kept) ==
    LET found == IF kept = <<>> THEN <<NewSegment(1, 0)>> ELSE kept
    IN  /\ segs' = found
        /\ headOffset' = found[1].base
        /\ tailOffset' = found[Len(found)].base
        /\ syncErr' = FALSE
        /\ commit' = [x \in Objects |-> Fresh]
        /\ pub' = [p \in Publishers |-> Idle]
        /\ truncation' = NotTruncating

\* NewSegmentManager: a directory without segments is a new log at offset 0.
NewSegmentManager(kept) ==
    LET found == IF kept = <<>> THEN <<NewSegment(1, 0)>> ELSE kept
    IN  /\ segs' = found
        /\ headOffset' = found[1].base
        /\ tailOffset' = NextOffset(found[Len(found)])
        /\ syncErr' = FALSE
        /\ commit' = [x \in Objects |-> Fresh]
        /\ pub' = [p \in Publishers |-> Idle]
        /\ truncation' = NotTruncating

\* A process crash keeps what was written, a power loss what was synced and
\* any prefix of the rest.
Crash(power) ==
    /\ crashes < MaxCrashes
    /\ crashes' = crashes + 1
    /\ \E cut \in [DOMAIN segs -> 0 .. SegmentSize] :
         /\ \A k \in DOMAIN segs :
              /\ cut[k] <= Len(segs[k].log)
              /\ segs[k].synced <= segs[k].base + cut[k]
              /\ ~power => cut[k] = Len(segs[k].log)
         /\ NewSegmentManager(Loaded(cut, power))
    /\ UNCHANGED <<accepted, place, acked, retired>>

\* Close syncs the active segment; the next start loads what was written.
\* Publishers inside a barrier find their segment closed.
CloseAndReopen ==
    /\ ~truncation.running
    /\ LET whole == [k \in DOMAIN segs |-> Len(segs[k].log)]
       IN  NewSegmentManager(Synced(Loaded(whole, FALSE)))
    /\ UNCHANGED <<accepted, place, acked, retired, crashes>>

----------------------------------------------------------------------------

Next ==
    \/ Expire \/ AppendBuffered
    \/ \E p \in Publishers : AppendDurable(p) \/ BarrierPassed(p) \/ LeadBarrier(p)
    \/ \E p \in Publishers : FsyncSucceeds(p) \/ FsyncFails(p)
    \/ \E ok \in BOOLEAN : Sync(ok)
    \/ \E before \in 0 .. tailOffset : Truncate(before)
    \/ DeleteSegment \/ FinishTruncate \/ ApplyRetention
    \/ \E power \in BOOLEAN : Crash(power)
    \/ CloseAndReopen

Spec == Init /\ [][Next]_vars

\* A publisher that can run does, an fsync returns, with either outcome, and a
\* truncation goes on to its end.  Strong fairness where a failed barrier waits
\* for the manager lock: a Go mutex hands itself to a waiter that has starved.
Fairness ==
    /\ \A p \in Publishers :
         /\ WF_vars(BarrierPassed(p)) /\ WF_vars(LeadBarrier(p))
         /\ WF_vars(FsyncSucceeds(p) \/ FsyncFails(p)) /\ SF_vars(FsyncFails(p))
    /\ WF_vars(DeleteSegment \/ FinishTruncate)

LiveSpec == Spec /\ Fairness

----------------------------------------------------------------------------
(* Properties.                                                             *)

Segment == [object : Objects, base : 0 .. MaxRecords, log : Seq(Records),
            synced : 0 .. MaxRecords, expired : BOOLEAN]

\* Every variable keeps its type, and the manager always has an active segment
\* unless a truncation is about to create it.
TypeOK ==
    /\ segs \in Seq(Segment)
    /\ segs = <<>> => truncation.running
    /\ headOffset \in 0 .. MaxRecords /\ tailOffset \in 0 .. MaxRecords
    /\ syncErr \in BOOLEAN
    /\ commit \in [Objects -> [through : 0 .. MaxRecords, leader : Publishers \cup {NoOne}]]
    /\ \A p \in Publishers : pub[p] = Idle \/ pub[p].pc \in {"barrier", "fsync"}
    /\ truncation.doomed \subseteq Objects
    /\ acked \subseteq 1 .. accepted /\ retired \subseteq 1 .. accepted
    /\ accepted \in 0 .. MaxRecords /\ crashes \in 0 .. MaxCrashes

\* A publish that was acknowledged as durable is in the log until retention
\* removes it, whatever rotations, failed barriers of others, truncations and
\* power losses follow (AppendAndSync, SyncThrough).
AckedSurvives ==
    acked \subseteq Stored \cup retired

\* findSegment: every record in the log is read back at the offset its
\* publisher was given, and head and tail enclose it.
ReadsBack ==
    ~truncation.running =>
        \A k \in DOMAIN segs : \A j \in DOMAIN segs[k].log :
            LET o == place[segs[k].log[j]]
            IN  /\ o = segs[k].base + j - 1
                /\ headOffset <= o /\ o < tailOffset
                /\ \A m \in DOMAIN segs :
                     segs[m].base <= o /\ o < NextOffset(segs[m]) => m = k

\* rotate's comment: the periodic sync only visits the active segment, so a
\* segment that is not active any more is completely on disk.
SealedDurable ==
    \A k \in 1 .. Len(segs) - 1 : segs[k].synced = NextOffset(segs[k])

\* A durable append always returns: the barrier's leader answers, and no waiter
\* is left behind when a barrier fails, a segment is deleted or it rotates.
BarrierReturns ==
    \A p \in Publishers : (pub[p] # Idle) ~> (pub[p] = Idle)

\* "Unique offset within the queue": an offset that was reported with a durable
\* publish is never given to a later record.
OffsetsUnique ==
    \A i \in acked, j \in 1 .. accepted : i < j => place[i] # place[j]

\* "rotate creates a new active segment": when an append has to rotate, it can.
RotationPossible ==
    ~truncation.running /\ ShouldRotate => CanRotate
============================================================================
