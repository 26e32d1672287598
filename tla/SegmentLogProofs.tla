-------------------------- MODULE SegmentLogProofs --------------------------
(***************************************************************************)
(* Theorems about the log of a queue, for every number of publishers,      *)
(* records and crashes and every segment size: what was acknowledged as    *)
(* durable survives, records are read back at their offsets, and sealed    *)
(* segments are on disk.                                                   *)
(***************************************************************************)
EXTENDS SegmentLogSteps

-----------------------------------------------------------------------------
(* Steps of a publisher that leave the log alone.                          *)

(* What holds of the segments and of the other publishers.                 *)
LEMMA LogUntouched ==
    ASSUME LogInv, UNCHANGED <<segs, headOffset, tailOffset, truncation, accepted, place, retired>>
    PROVE  /\ WellFormed(segs') /\ WellPlaced(segs)' /\ EndsKnown' /\ DoomedFirst'
           /\ \A p \in Publishers : pub'[p] = pub[p] => WaiterHolds(segs, pub[p])'
<1>1. /\ WellFormed(segs') /\ WellPlaced(segs)' /\ EndsKnown' /\ DoomedFirst'
  BY DEF LogInv, WellPlaced, EndsKnown, DoomedFirst, Active, NextOffset
<1> QED
  BY <1>1 DEF LogInv, WaitersHold, WaiterHolds, RecordAt, NextOffset

(* The leader of a group commit changes.                                   *)
LEMMA LeaderSet ==
    ASSUME LogTypeOK, NEW x \in Objects, NEW q \in Publishers \cup {NoOne}
    PROVE  LET c == [commit EXCEPT ![x].leader = q]
           IN  /\ c \in [Objects -> [through : Nat, leader : Publishers \cup {NoOne}]]
               /\ \A y \in Objects : c[y].through = commit[y].through
<1>1. /\ commit \in [Objects -> [through : Nat, leader : Publishers \cup {NoOne}]]
      /\ commit[x] \in [through : Nat, leader : Publishers \cup {NoOne}]
  BY DEF LogTypeOK
<1>2. PICK u : u = [commit[x] EXCEPT !.leader = q]
  BY Zenon
<1>3. u \in [through : Nat, leader : Publishers \cup {NoOne}] /\ u.through = commit[x].through
  BY <1>1, <1>2
<1>4. [commit EXCEPT ![x].leader = q] = [commit EXCEPT ![x] = u]
  BY <1>1, <1>2
<1> QED
  BY <1>1, <1>3, <1>4

(* syncThrough returns only when the record is on disk, or its segment was *)
(* deleted.                                                                *)
LEMMA KeptByBarrierPassed ==
    ASSUME LogInv, NEW p \in Publishers, BarrierPassed(p) PROVE LogInv'
<1>1. /\ LogTypeOK /\ WellFormed(segs) /\ segs \in Seq(LogSegment) /\ CommitsSynced
      /\ WaiterHolds(segs, pub[p]) /\ AckedOnDisk
  BY DEF LogInv, WellFormed, WaitersHold
<1>2. /\ UNCHANGED <<segs, headOffset, tailOffset, truncation, accepted, place, retired>>
      /\ UNCHANGED <<syncErr, commit>> /\ pub' = [pub EXCEPT ![p] = Idle]
      /\ acked' = acked \cup {pub[p].record}
  BY DEF BarrierPassed
<1>3. PICK w : w = pub[p]
  OBVIOUS
<1>4. /\ w.pc = "barrier" /\ commit[w.object].through >= w.through
      /\ w.through \in Nat /\ w.object \in Objects
  BY <1>1, <1>3 DEF BarrierPassed, LogTypeOK, WaiterHolds
<1>5. w.record \in retired \/ OnDisk(segs, w.record)
  <2>1. CASE RecordAt(segs, w.object, w.record, w.through)
    <3>1. PICK k \in DOMAIN segs :
             /\ segs[k].object = w.object
             /\ \E j \in DOMAIN segs[k].log : /\ segs[k].log[j] = w.record
                                              /\ segs[k].base + j = w.through
      BY <2>1 DEF RecordAt
    <3>2. PICK j \in DOMAIN segs[k].log : /\ segs[k].log[j] = w.record
                                          /\ segs[k].base + j = w.through
      BY <3>1
    <3>3. commit[w.object].through <= segs[k].synced
      BY <1>1, <3>1 DEF CommitsSynced
    <3>4. commit[w.object].through \in Nat /\ segs[k].synced \in Nat
      BY <1>1, <1>4, SegmentFields DEF LogTypeOK
    <3>5. segs[k].base + j <= segs[k].synced
      BY <1>4, <3>2, <3>3, <3>4
    <3> QED
      BY <3>2, <3>5 DEF OnDisk
  <2> QED
    BY <1>1, <1>3, <1>4, <2>1 DEF WaiterHolds
<1>6. LogTypeOK'
  <2>1. Idle \in [pc : {"idle", "barrier", "fsync"}, object : Objects \cup {0},
                  through : Nat, covered : Nat, record : 0 .. MaxRecords]
    BY SegmentLogAssumption DEF Idle
  <2>2. pub' \in [Publishers -> [pc : {"idle", "barrier", "fsync"}, object : Objects \cup {0},
                              through : Nat, covered : Nat, record : 0 .. MaxRecords]]
    BY <1>1, <1>2, <2>1 DEF LogTypeOK
  <2> QED
    BY <1>1, <1>2, <2>2 DEF LogTypeOK
<1>7. WaitersHold'
  <2>1. \A q \in Publishers : pub'[q] = pub[q] \/ pub'[q].pc = "idle"
    BY <1>1, <1>2 DEF LogTypeOK, Idle
  <2> QED
    BY <1>2, <2>1, LogUntouched DEF WaitersHold, WaiterHolds
<1>8. CommitsSynced'
  BY <1>1, <1>2 DEF CommitsSynced
<1>9. AckedOnDisk'
  BY <1>1, <1>2, <1>3, <1>5 DEF AckedOnDisk, OnDisk
<1> QED
  BY <1>2, <1>6, <1>7, <1>8, <1>9, LogUntouched DEF LogInv

LEMMA KeptByLeadBarrier ==
    ASSUME LogInv, NEW p \in Publishers, LeadBarrier(p) PROVE LogInv'
<1>1. /\ LogTypeOK /\ WellFormed(segs) /\ segs \in Seq(LogSegment) /\ CommitsSynced
      /\ WaiterHolds(segs, pub[p]) /\ AckedOnDisk
  BY DEF LogInv, WellFormed, WaitersHold
<1>2. /\ UNCHANGED <<segs, headOffset, tailOffset, truncation, accepted, place, retired>>
      /\ UNCHANGED <<syncErr, acked>>
      /\ commit' = [commit EXCEPT ![pub[p].object].leader = p]
  BY DEF LeadBarrier
<1>3. PICK k \in DOMAIN segs :
        /\ segs[k].object = pub[p].object
        /\ pub' = [pub EXCEPT ![p].pc = "fsync", ![p].covered = NextOffset(segs[k])]
  BY Zenon DEF LeadBarrier, SegmentOf
<1>4. NextOffset(segs[k]) \in Nat
  BY <1>1, SegmentFields
<1>5. /\ pub'[p].pc = "fsync" /\ pub'[p].covered = NextOffset(segs[k])
      /\ pub'[p].object = pub[p].object /\ pub'[p].record = pub[p].record
      /\ pub'[p].through = pub[p].through /\ pub[p].pc = "barrier"
      /\ \A q \in Publishers : q # p => pub'[q] = pub[q]
      /\ pub' \in [Publishers -> [pc : {"idle", "barrier", "fsync"}, object : Objects \cup {0},
                              through : Nat, covered : Nat, record : 0 .. MaxRecords]]
  <2>1. /\ pub[p] \in [pc : {"idle", "barrier", "fsync"}, object : Objects \cup {0},
                       through : Nat, covered : Nat, record : 0 .. MaxRecords]
        /\ pub[p].pc = "barrier"
    BY <1>1 DEF LogTypeOK, LeadBarrier
  <2>2. PICK u : u = [pub[p] EXCEPT !.pc = "fsync", !.covered = NextOffset(segs[k])]
    OBVIOUS
  <2>3. /\ u \in [pc : {"idle", "barrier", "fsync"}, object : Objects \cup {0},
                  through : Nat, covered : Nat, record : 0 .. MaxRecords]
        /\ u.pc = "fsync" /\ u.covered = NextOffset(segs[k]) /\ u.object = pub[p].object
        /\ u.record = pub[p].record /\ u.through = pub[p].through
    BY Zenon, <1>4, <2>1, <2>2
  <2>4. pub' = [pub EXCEPT ![p] = u]
    BY Zenon, <1>1, <1>3, <2>2 DEF LogTypeOK
  <2> QED
    BY <1>1, <2>1, <2>3, <2>4 DEF LogTypeOK
<1>6. /\ commit' \in [Objects -> [through : Nat, leader : Publishers \cup {NoOne}]]
      /\ \A x \in Objects : commit'[x].through = commit[x].through
  BY <1>1, <1>2, <1>5, LeaderSet DEF WaiterHolds
<1>7. LogTypeOK'
  BY Zenon, <1>1, <1>2, <1>5, <1>6 DEF LogTypeOK
<1>8. WaitersHold'
  <2>1. ASSUME NEW m \in DOMAIN segs, segs[m].object = pub[p].object
        PROVE  pub'[p].covered <= NextOffset(segs[m])
    <3>1. m = k
      <4>1. ~ (k < m) /\ ~ (m < k)
        BY <1>1, <1>3, <2>1 DEF WellFormed
      <4>2. k \in Nat /\ m \in Nat
        BY <1>1, SegmentFields
      <4> QED
        BY <4>1, <4>2
    <3> QED
      BY <1>4, <1>5, <3>1
  <2>2. WaiterHolds(segs, pub[p])'
    BY <1>1, <1>2, <1>5, <2>1 DEF WaiterHolds, RecordAt, NextOffset
  <2> QED
    BY <1>2, <1>5, <2>2, LogUntouched DEF WaitersHold
<1>9. CommitsSynced'
  <2>1. \A m \in DOMAIN segs : segs[m].object \in Objects
    BY <1>1, SegmentFields
  <2> QED
    BY <1>1, <1>2, <1>6, <2>1 DEF CommitsSynced
<1>10. AckedOnDisk'
  BY <1>1, <1>2 DEF AckedOnDisk, OnDisk
<1> QED
  BY <1>2, <1>7, <1>8, <1>9, <1>10, LogUntouched DEF LogInv

LEMMA KeptByFsyncFails ==
    ASSUME LogInv, NEW p \in Publishers, FsyncFails(p) PROVE LogInv'
<1>1. /\ LogTypeOK /\ WellFormed(segs) /\ segs \in Seq(LogSegment) /\ CommitsSynced /\ AckedOnDisk
  BY DEF LogInv, WellFormed
<1>2. /\ UNCHANGED <<segs, headOffset, tailOffset, truncation, accepted, place, retired>>
      /\ UNCHANGED acked /\ syncErr' = TRUE /\ pub' = [pub EXCEPT ![p] = Idle]
      /\ commit' = [commit EXCEPT ![pub[p].object].leader = NoOne]
  BY DEF FsyncFails
<1>3. /\ commit' \in [Objects -> [through : Nat, leader : Publishers \cup {NoOne}]]
      /\ \A x \in Objects : commit'[x].through = commit[x].through
  <2>1. pub[p].object \in Objects
    BY DEF LogInv, WaitersHold, WaiterHolds, FsyncFails
  <2> QED
    BY <1>1, <1>2, <2>1, LeaderSet
<1>4. LogTypeOK'
  <2>1. Idle \in [pc : {"idle", "barrier", "fsync"}, object : Objects \cup {0},
                  through : Nat, covered : Nat, record : 0 .. MaxRecords]
    BY SegmentLogAssumption DEF Idle
  <2>2. pub' \in [Publishers -> [pc : {"idle", "barrier", "fsync"}, object : Objects \cup {0},
                              through : Nat, covered : Nat, record : 0 .. MaxRecords]]
    BY <1>1, <1>2, <2>1 DEF LogTypeOK
  <2> QED
    BY Zenon, <1>1, <1>2, <1>3, <2>2 DEF LogTypeOK
<1>5. WaitersHold'
  <2>1. \A q \in Publishers : pub'[q] = pub[q] \/ pub'[q].pc = "idle"
    BY <1>1, <1>2 DEF LogTypeOK, Idle
  <2> QED
    BY <1>2, <2>1, LogUntouched DEF WaitersHold, WaiterHolds
<1>6. CommitsSynced'
  <2>1. \A m \in DOMAIN segs : segs[m].object \in Objects
    BY <1>1, SegmentFields
  <2> QED
    BY <1>1, <1>2, <1>3, <2>1 DEF CommitsSynced
<1>7. AckedOnDisk'
  BY <1>1, <1>2 DEF AckedOnDisk, OnDisk
<1> QED
  BY <1>2, <1>4, <1>5, <1>6, <1>7, LogUntouched DEF LogInv

-----------------------------------------------------------------------------
(* Retention.                                                              *)

(* Truncate picks segments from the old end, for a younger one ends later. *)
LEMMA KeptByTruncate ==
    ASSUME LogInv, NEW before \in 0 .. tailOffset, Truncate(before) PROVE LogInv'
<1>1. /\ LogTypeOK /\ WellFormed(segs) /\ segs \in Seq(LogSegment) /\ WellPlaced(segs)
      /\ EndsKnown /\ CommitsSynced /\ AckedOnDisk /\ WaitersHold
  BY DEF LogInv, WellFormed
<1>2. UNCHANGED <<segs, headOffset, tailOffset, syncErr, commit, pub, accepted, place, acked,
                  retired>>
  BY DEF Truncate
<1>3. PICK D : D = {segs[k].object : k \in {j \in DOMAIN segs : NextOffset(segs[j]) <= before}}
  BY Zenon
<1>4. truncation' = [running |-> TRUE, before |-> before, doomed |-> D]
  BY <1>3 DEF Truncate
<1>5. D \subseteq Objects
  BY <1>1, <1>3, SegmentFields
<1>6. before \in Nat /\ before <= tailOffset
  BY <1>1 DEF LogTypeOK
<1>7. LogTypeOK'
  BY <1>1, <1>2, <1>4, <1>5, <1>6 DEF LogTypeOK
<1>8. EndsKnown'
  BY <1>1, <1>2, <1>4 DEF EndsKnown, Active, NextOffset
<1>9. ASSUME NEW k \in DOMAIN segs, NEW m \in DOMAIN segs, k < m, segs[m].object \in D
      PROVE  segs[k].object \in D
  <2>1. PICK j \in DOMAIN segs : NextOffset(segs[j]) <= before /\ segs[j].object = segs[m].object
    BY <1>3, <1>9
  <2>2. j = m
    <3>1. ~ (j < m) /\ ~ (m < j)
      BY <1>1, <2>1 DEF WellFormed
    <3>2. j \in Nat /\ m \in Nat
      BY <1>1, SegmentFields
    <3> QED
      BY <3>1, <3>2
  <2>3. /\ NextOffset(segs[k]) \in Nat /\ NextOffset(segs[m]) \in Nat /\ segs[m].base \in Nat
        /\ segs[m].synced \in Nat
    BY <1>1, SegmentFields
  <2>4. /\ NextOffset(segs[k]) <= segs[m].base /\ segs[m].base <= segs[m].synced
        /\ segs[m].synced <= NextOffset(segs[m])
    BY <1>1, <1>9 DEF WellFormed
  <2>5. NextOffset(segs[k]) <= before
    BY <1>6, <2>1, <2>2, <2>3, <2>4
  <2> QED
    BY <1>3, <2>5
<1>10. DoomedFirst'
  <2>1. \A x \in D : \E k \in DOMAIN segs : segs[k].object = x
    BY <1>3
  <2>2. truncation'.running /\ truncation'.before = before /\ truncation'.doomed = D
    BY <1>4
  <2> QED
    BY <1>2, <1>6, <1>9, <2>1, <2>2 DEF DoomedFirst
<1>11. WellFormed(segs') /\ WellPlaced(segs)' /\ WaitersHold' /\ CommitsSynced' /\ AckedOnDisk'
  BY <1>1, <1>2 DEF WellPlaced, WaitersHold, WaiterHolds, RecordAt, NextOffset, CommitsSynced,
                    AckedOnDisk, OnDisk
<1> QED
  BY <1>7, <1>8, <1>10, <1>11 DEF LogInv

(* The first n segments are deleted and their records retired.             *)
LEMMA DroppedKept ==
    ASSUME LogInv, NEW n \in 1 .. Len(segs),
           segs' \in Seq(LogSegment), Len(segs') = Len(segs) - n,
           \A k \in DOMAIN segs' : segs'[k] = segs[k + n],
           UNCHANGED <<tailOffset, commit, pub, accepted, place, acked>>,
           retired \subseteq retired',
           \A k \in 1 .. n : \A j \in DOMAIN segs[k].log : segs[k].log[j] \in retired'
    PROVE  /\ WellFormed(segs') /\ WellPlaced(segs)' /\ WaitersHold' /\ CommitsSynced'
           /\ AckedOnDisk'
           /\ segs' # <<>> => /\ tailOffset' = NextOffset(segs'[Len(segs')])
                              /\ n + 1 \in DOMAIN segs /\ segs'[1] = segs[n + 1]
<1>1. PICK t : t = segs'
  OBVIOUS
<1>2. PICK l : l = Len(segs)
  OBVIOUS
<1>3. /\ LogTypeOK /\ WellFormed(segs) /\ segs \in Seq(LogSegment) /\ WellPlaced(segs)
      /\ EndsKnown /\ CommitsSynced /\ AckedOnDisk /\ WaitersHold
  BY DEF LogInv, WellFormed
<1>4. /\ t \in Seq(LogSegment) /\ Len(t) = l - n /\ l \in Nat /\ n \in Nat /\ n >= 1 /\ n <= l
      /\ DOMAIN t = 1 .. (l - n) /\ DOMAIN segs = 1 .. l
      /\ \A k \in DOMAIN t : t[k] = segs[k + n]
  BY <1>1, <1>2, <1>3
<1>5. \A k \in DOMAIN t : k \in Nat /\ k >= 1 /\ k + n \in DOMAIN segs
  BY <1>4
<1>6. \A k \in DOMAIN segs : k > n => k - n \in DOMAIN t /\ t[k - n] = segs[k]
  BY <1>4
<1>7. WellFormed(t)
  <2>1. ASSUME NEW k \in DOMAIN t
        PROVE  /\ k <= t[k].base + 1
               /\ t[k].base <= t[k].synced /\ t[k].synced <= NextOffset(t[k])
               /\ k < Len(t) => t[k].synced = NextOffset(t[k])
    <3>1. PICK m : m = k + n
      OBVIOUS
    <3>2. m \in DOMAIN segs /\ t[k] = segs[m]
      BY <1>4, <1>5, <3>1
    <3>3. /\ m <= segs[m].base + 1
          /\ segs[m].base <= segs[m].synced /\ segs[m].synced <= NextOffset(segs[m])
          /\ m < l => segs[m].synced = NextOffset(segs[m])
      BY <1>2, <1>3, <3>2 DEF WellFormed
    <3>4. segs[m].base \in Nat
      BY <1>3, <3>2, SegmentFields
    <3>5. k <= segs[m].base + 1
      BY SMTT(30), <1>4, <1>5, <3>1, <3>3, <3>4
    <3>6. k < Len(t) => m < l
      BY <1>4, <1>5, <3>1
    <3> QED
      BY <3>2, <3>3, <3>5, <3>6
  <2>2. ASSUME NEW k \in DOMAIN t, NEW m \in DOMAIN t, k < m
        PROVE  NextOffset(t[k]) <= t[m].base /\ t[k].object # t[m].object
    <3>1. k + n < m + n
      BY <1>4, <1>5, <2>2
    <3> QED
      BY <1>3, <1>4, <1>5, <3>1 DEF WellFormed
  <2> QED
    BY <1>4, <2>1, <2>2 DEF WellFormed
<1>8. WellPlaced(segs)'
  BY <1>1, <1>3, <1>4, <1>5 DEF WellPlaced
<1>9. ASSUME NEW k \in DOMAIN segs, k <= n, NEW j \in DOMAIN segs[k].log
      PROVE  segs[k].log[j] \in retired'
  BY <1>4, <1>9
<1>10. ASSUME NEW p \in Publishers PROVE WaiterHolds(segs, pub[p])'
  <2>1. WaiterHolds(segs, pub[p]) /\ pub'[p] = pub[p]
    BY <1>3 DEF WaitersHold
  <2> SUFFICES ASSUME pub[p].pc # "idle" PROVE WaiterHolds(segs, pub[p])'
    BY <2>1 DEF WaiterHolds
  <2>2. PICK w : w = pub[p]
    OBVIOUS
  <2>3. ASSUME RecordAt(segs, w.object, w.record, w.through)
        PROVE  \/ RecordAt(t, w.object, w.record, w.through)
               \/ w.record \in retired' /\ \A m \in DOMAIN t : t[m].object # w.object
    <3>1. PICK k \in DOMAIN segs :
             /\ segs[k].object = w.object
             /\ \E j \in DOMAIN segs[k].log : /\ segs[k].log[j] = w.record
                                              /\ segs[k].base + j = w.through
      BY <2>3 DEF RecordAt
    <3>2. CASE k > n
      BY <1>6, <3>1, <3>2 DEF RecordAt
    <3>3. CASE k <= n
      <4>1. w.record \in retired'
        BY <1>9, <3>1, <3>3
      <4>2. ASSUME NEW m \in DOMAIN t PROVE t[m].object # w.object
        <5>1. k < m + n
          BY <1>4, <1>5, <3>3
        <5> QED
          BY <1>3, <1>4, <1>5, <3>1, <5>1 DEF WellFormed
      <4> QED
        BY <4>1, <4>2
    <3>4. k > n \/ k <= n
      BY <1>4
    <3> QED
      BY <3>2, <3>3, <3>4
  <2>4. \A m \in DOMAIN t : m + n \in DOMAIN segs /\ t[m] = segs[m + n]
    BY <1>4, <1>5
  <2>5. /\ w.object \in Objects
        /\ \/ RecordAt(t, w.object, w.record, w.through)
           \/ w.record \in retired' /\ \A m \in DOMAIN t : t[m].object # w.object
        /\ w.pc = "fsync" =>
              \A m \in DOMAIN t : t[m].object = w.object => w.covered <= NextOffset(t[m])
    BY <2>1, <2>2, <2>3, <2>4 DEF WaiterHolds
  <2> QED
    BY <1>1, <2>1, <2>2, <2>5 DEF WaiterHolds, RecordAt, NextOffset
<1>11. CommitsSynced'
  BY <1>1, <1>3, <1>4, <1>5 DEF CommitsSynced
<1>12. AckedOnDisk'
  <2> SUFFICES ASSUME NEW i \in acked PROVE i \in retired' \/ OnDisk(t, i)
    BY <1>1 DEF AckedOnDisk, OnDisk
  <2>1. CASE OnDisk(segs, i)
    <3>1. PICK k \in DOMAIN segs : \E j \in DOMAIN segs[k].log :
             segs[k].log[j] = i /\ segs[k].base + j <= segs[k].synced
      BY <2>1 DEF OnDisk
    <3>2. CASE k > n
      BY <1>6, <3>1, <3>2 DEF OnDisk
    <3>3. CASE k <= n
      BY <1>9, <3>1, <3>3
    <3>4. k > n \/ k <= n
      BY <1>4
    <3> QED
      BY <3>2, <3>3, <3>4
  <2> QED
    BY <1>3, <2>1 DEF AckedOnDisk
<1>13. ASSUME t # <<>>
       PROVE  /\ tailOffset' = NextOffset(t[Len(t)]) /\ n + 1 \in DOMAIN segs /\ t[1] = segs[n + 1]
  <2>1. l - n \in DOMAIN t /\ 1 \in DOMAIN t /\ l - n + n = l /\ n + 1 = 1 + n
    BY <1>4, <1>13
  <2>2. segs # <<>> /\ t[l - n] = segs[l] /\ t[1] = segs[n + 1] /\ n + 1 \in DOMAIN segs
    BY SMTT(30), <1>4, <1>5, <2>1
  <2>3. tailOffset = NextOffset(segs[l])
    BY <1>2, <1>3, <2>2 DEF EndsKnown, Active
  <2> QED
    BY <1>4, <2>2, <2>3
<1> QED
  BY <1>1, <1>7, <1>8, <1>10, <1>11, <1>12, <1>13 DEF WaitersHold

LEMMA KeptByDeleteSegment ==
    ASSUME LogInv, DeleteSegment PROVE LogInv'
<1>1. /\ LogTypeOK /\ WellFormed(segs) /\ segs \in Seq(LogSegment) /\ EndsKnown /\ DoomedFirst
  BY DEF LogInv, WellFormed
<1>2. /\ truncation.doomed # {} /\ segs' = Tail(segs)
      /\ retired' = retired \cup {segs[1].log[j] : j \in DOMAIN segs[1].log}
      /\ UNCHANGED <<headOffset, tailOffset, syncErr, commit, pub, accepted, place, acked>>
  BY DEF DeleteSegment
<1>3. PICK D : D = truncation.doomed
  OBVIOUS
<1>4. PICK x : x = segs[1].object
  OBVIOUS
<1>5. /\ truncation.running /\ D # {} /\ D \subseteq Objects
      /\ truncation'.running = truncation.running /\ truncation'.before = truncation.before
      /\ truncation'.doomed = D \ {x} /\ truncation.before <= tailOffset
      /\ truncation' \in [running : BOOLEAN, before : Nat, doomed : SUBSET Objects]
  BY Zenon, <1>1, <1>2, <1>3, <1>4 DEF DeleteSegment, LogTypeOK, DoomedFirst
<1>6. segs # <<>> /\ 1 \in DOMAIN segs /\ 1 \in 1 .. Len(segs)
  BY <1>1, <1>3, <1>5 DEF DoomedFirst
<1>7. /\ segs' \in Seq(LogSegment) /\ Len(segs') = Len(segs) - 1
      /\ \A k \in DOMAIN segs' : segs'[k] = segs[k + 1]
  BY <1>1, <1>2, <1>6
<1>8. /\ retired \subseteq retired'
      /\ \A k \in 1 .. 1 : \A j \in DOMAIN segs[k].log : segs[k].log[j] \in retired'
  BY <1>2
<1>9. /\ WellFormed(segs') /\ WellPlaced(segs)' /\ WaitersHold' /\ CommitsSynced' /\ AckedOnDisk'
      /\ segs' # <<>> => tailOffset' = NextOffset(segs'[Len(segs')])
  BY <1>2, <1>6, <1>7, <1>8, DroppedKept
<1>10. LogTypeOK'
  BY <1>1, <1>2, <1>5 DEF LogTypeOK
<1>11. EndsKnown'
  BY <1>1, <1>2, <1>5, <1>9 DEF EndsKnown, Active, NextOffset
<1>12. DoomedFirst'
  <2>1. PICK l : l = Len(segs)
    BY Zenon
  <2>2. PICK t : t = segs'
    OBVIOUS
  <2>3. /\ l \in Nat /\ DOMAIN segs = 1 .. l /\ DOMAIN t = 1 .. (l - 1)
        /\ \A k \in DOMAIN t : k \in Nat /\ k + 1 \in DOMAIN segs /\ t[k] = segs[k + 1]
    BY <1>1, <1>6, <1>7, <2>1, <2>2
  <2>4. ASSUME NEW y \in D \ {x} PROVE \E k \in DOMAIN t : t[k].object = y
    <3>1. PICK k \in DOMAIN segs : segs[k].object = y
      BY <1>1, <1>3 DEF DoomedFirst
    <3>2. k # 1
      BY <1>4, <3>1
    <3>3. k - 1 \in DOMAIN t /\ (k - 1) + 1 = k
      BY <2>3, <3>2
    <3>4. t[k - 1] = segs[k]
      BY <2>3, <3>3
    <3> QED
      BY <3>1, <3>3, <3>4
  <2>5. ASSUME NEW k \in DOMAIN t, NEW m \in DOMAIN t, k < m, t[m].object \in D \ {x}
        PROVE  t[k].object \in D \ {x}
    <3>1. k + 1 < m + 1 /\ 1 < k + 1
      BY <2>3, <2>5
    <3>2. segs[k + 1].object \in D
      BY <1>1, <1>3, <2>3, <2>5, <3>1 DEF DoomedFirst
    <3>3. segs[k + 1].object # x
      BY <1>1, <1>4, <1>6, <2>3, <3>1 DEF WellFormed
    <3> QED
      BY <2>3, <3>2, <3>3
  <2> QED
    BY <1>2, <1>5, <2>2, <2>4, <2>5 DEF DoomedFirst
<1> QED
  BY <1>9, <1>10, <1>11, <1>12 DEF LogInv

LEMMA KeptByApplyRetention ==
    ASSUME LogInv, ApplyRetention PROVE LogInv'
<1>1. /\ LogTypeOK /\ WellFormed(segs) /\ segs \in Seq(LogSegment) /\ EndsKnown /\ DoomedFirst
  BY DEF LogInv, WellFormed
<1>2. /\ ~ truncation.running
      /\ UNCHANGED <<tailOffset, syncErr, commit, pub, truncation, accepted, place, acked>>
  BY DEF ApplyRetention
<1>3. PICK n \in 1 .. Len(segs) - 1 :
        /\ segs' = SubSeq(segs, n + 1, Len(segs))
        /\ headOffset' = segs[n + 1].base
        /\ retired' = retired \cup {i \in Stored : \E k \in 1 .. n : \E j \in DOMAIN segs[k].log :
                                       segs[k].log[j] = i}
  BY Zenon DEF ApplyRetention
<1>4. PICK l : l = Len(segs)
  OBVIOUS
<1>5. /\ l \in Nat /\ DOMAIN segs = 1 .. l /\ n \in Nat /\ n >= 1 /\ n < l /\ n \in 1 .. Len(segs)
      /\ n + 1 \in DOMAIN segs
  BY <1>1, <1>3, <1>4
<1>6. /\ segs' \in Seq(LogSegment) /\ Len(segs') = Len(segs) - n /\ segs' # <<>>
      /\ \A k \in DOMAIN segs' : segs'[k] = segs[k + n]
  <2>1. Len(segs') = l - n /\ DOMAIN segs' = 1 .. (l - n)
    BY <1>1, <1>3, <1>4, <1>5
  <2>2. \A k \in 1 .. (l - n) : segs'[k] = segs[k + n] /\ k + n \in DOMAIN segs
    BY <1>1, <1>3, <1>4, <1>5
  <2>3. segs' \in Seq(LogSegment)
    BY <1>1, <1>3, <1>4, <1>5
  <2> QED
    BY <1>4, <1>5, <2>1, <2>2, <2>3
<1>7. /\ retired \subseteq retired'
      /\ \A k \in 1 .. n : \A j \in DOMAIN segs[k].log : segs[k].log[j] \in retired'
  <2>1. ASSUME NEW k \in 1 .. n, NEW j \in DOMAIN segs[k].log PROVE segs[k].log[j] \in Stored
    <3>1. k \in DOMAIN segs
      BY <1>5
    <3>2. segs[k].log[j] \in Records
      BY <1>1, <3>1, SegmentFields
    <3> QED
      BY <3>1, <3>2 DEF Stored
  <2> QED
    BY <1>3, <2>1
<1>8. /\ WellFormed(segs') /\ WellPlaced(segs)' /\ WaitersHold' /\ CommitsSynced' /\ AckedOnDisk'
      /\ tailOffset' = NextOffset(segs'[Len(segs')]) /\ segs'[1] = segs[n + 1]
  BY <1>2, <1>5, <1>6, <1>7, DroppedKept
<1>9. LogTypeOK'
  <2>1. headOffset' \in Nat
    BY <1>1, <1>3, <1>5, SegmentFields
  <2> QED
    BY <1>1, <1>2, <2>1 DEF LogTypeOK
<1>10. EndsKnown'
  BY Zenon, <1>1, <1>2, <1>3, <1>6, <1>8 DEF EndsKnown, Active, NextOffset
<1>11. DoomedFirst'
  BY <1>1, <1>2 DEF DoomedFirst
<1> QED
  BY <1>8, <1>9, <1>10, <1>11 DEF LogInv

LEMMA KeptByFinishTruncate ==
    ASSUME LogInv, FinishTruncate PROVE LogInv'
<1>1. /\ LogTypeOK /\ WellFormed(segs) /\ segs \in Seq(LogSegment) /\ EndsKnown /\ DoomedFirst
      /\ WellPlaced(segs) /\ WaitersHold /\ CommitsSynced /\ AckedOnDisk
  BY DEF LogInv, WellFormed
<1>2. /\ UNCHANGED <<syncErr, pub, accepted, place, acked, retired>>
      /\ truncation' = NotTruncating
  BY DEF FinishTruncate
<1>3. /\ ~ truncation'.running /\ truncation'.doomed = {} /\ truncation'.before = 0
      /\ truncation' \in [running : BOOLEAN, before : Nat, doomed : SUBSET Objects]
  BY <1>2 DEF NotTruncating
<1>4. tailOffset' \in Nat => DoomedFirst'
  BY <1>3 DEF DoomedFirst
<1>5. CASE segs # <<>>
  <2>1. headOffset' = segs[1].base /\ UNCHANGED <<segs, tailOffset, commit>>
    BY <1>5 DEF FinishTruncate
  <2>2. headOffset' \in Nat
    BY <1>1, <1>5, <2>1, SegmentFields
  <2>3. LogTypeOK'
    BY <1>1, <1>2, <1>3, <2>1, <2>2 DEF LogTypeOK
  <2>4. EndsKnown'
    BY SMTT(30), <1>1, <1>2, <1>3, <1>5, <2>1 DEF EndsKnown, Active, NextOffset
  <2>5. WellFormed(segs') /\ WellPlaced(segs)' /\ WaitersHold' /\ CommitsSynced' /\ AckedOnDisk'
    <3>1. WellFormed(segs') /\ WellPlaced(segs)'
      BY <1>1, <1>2, <2>1 DEF WellPlaced
    <3>2. WaitersHold' /\ CommitsSynced' /\ AckedOnDisk'
      BY <1>1, <1>2, <2>1 DEF WaitersHold, WaiterHolds, CommitsSynced, AckedOnDisk
    <3> QED
      BY <3>1, <3>2
  <2> QED
    BY <1>4, <2>3, <2>4, <2>5 DEF LogInv, LogTypeOK
<1>6. CASE segs = <<>>
  <2>1. PICK b : b = truncation.before
    OBVIOUS
  <2>2. PICK x : x = FreeObject
    OBVIOUS
  <2>3. PICK u : u = NewSegment(x, b)
    OBVIOUS
  <2>4. /\ segs' = <<u>> /\ headOffset' = b /\ tailOffset' = b
        /\ commit' = [commit EXCEPT ![x] = Fresh]
    BY <1>6, <2>1, <2>2, <2>3 DEF FinishTruncate
  <2>5. /\ x \in Objects /\ \A p \in Publishers : pub[p].object # x
    BY <1>6, <2>2, FreeObjectIsFree DEF FinishTruncate
  <2>6. b \in Nat /\ b <= tailOffset /\ tailOffset \in Nat /\ accepted \in Nat /\ b <= accepted
    BY <1>1, <2>1, SegmentLogAssumption DEF LogTypeOK, DoomedFirst, EndsKnown
  <2>7. /\ u \in LogSegment /\ u.object = x /\ u.base = b /\ u.log = <<>> /\ u.synced = b
        /\ NextOffset(u) = b
    BY SMTT(30), <2>3, <2>5, <2>6 DEF NewSegment, LogSegment, NextOffset
  <2>8. /\ segs' \in Seq(LogSegment) /\ Len(segs') = 1 /\ DOMAIN segs' = {1} /\ segs'[1] = u
        /\ segs' # <<>>
    BY <2>4, <2>7
  <2>9. WellFormed(segs')
    BY <2>6, <2>7, <2>8 DEF WellFormed
  <2>10. WellPlaced(segs)'
    BY <2>7, <2>8 DEF WellPlaced
  <2>11. commit' \in [Objects -> [through : Nat, leader : Publishers \cup {NoOne}]]
         /\ commit'[x].through = 0
    BY <1>1, <2>4, <2>5 DEF LogTypeOK, Fresh
  <2>12. LogTypeOK'
    BY SMTT(30), <1>1, <1>2, <1>3, <2>4, <2>6, <2>11 DEF LogTypeOK
  <2>13. EndsKnown'
    BY <1>2, <1>3, <2>4, <2>6, <2>7, <2>8 DEF EndsKnown, Active, NextOffset
  <2>14. CommitsSynced'
    BY <2>6, <2>7, <2>8, <2>11 DEF CommitsSynced
  <2>15. AckedOnDisk'
    BY <1>1, <1>2, <1>6 DEF AckedOnDisk, OnDisk
  <2>16. WaitersHold'
    <3> SUFFICES ASSUME NEW p \in Publishers PROVE WaiterHolds(segs, pub[p])'
      BY DEF WaitersHold
    <3>1. WaiterHolds(segs, pub[p]) /\ pub[p].object # x
      BY <1>1, <2>5 DEF WaitersHold
    <3>2. ~ RecordAt(segs, pub[p].object, pub[p].record, pub[p].through)
      BY <1>6 DEF RecordAt
    <3> QED
      BY <1>2, <2>7, <2>8, <3>1, <3>2 DEF WaiterHolds
  <2> QED
    BY <1>4, <2>9, <2>10, <2>12, <2>13, <2>14, <2>15, <2>16 DEF LogInv, LogTypeOK
<1> QED
  BY <1>5, <1>6

-----------------------------------------------------------------------------
(* Restarts.                                                               *)

(* Each segment is there up to some record after the last one synced, in a *)
(* new object.                                                             *)
Shortened(s, t) ==
    /\ t \in Seq(LogSegment) /\ Len(t) = Len(s)
    /\ \A k \in DOMAIN s :
          /\ t[k].object = k /\ t[k].base = s[k].base
          /\ Len(t[k].log) <= Len(s[k].log)
          /\ \A j \in DOMAIN t[k].log : t[k].log[j] = s[k].log[j]
          /\ s[k].synced <= t[k].synced /\ t[k].synced <= NextOffset(t[k])

LEMMA ShortenedWellFormed ==
    ASSUME NEW s, NEW t, WellFormed(s), Shortened(s, t)
    PROVE  /\ WellFormed(t) /\ DOMAIN t = DOMAIN s
           /\ \A k \in DOMAIN s : NextOffset(t[k]) <= NextOffset(s[k])
           /\ WellPlaced(s) => WellPlaced(t)
           /\ \A i : OnDisk(s, i) => OnDisk(t, i)
<1>1. s \in Seq(LogSegment) /\ t \in Seq(LogSegment) /\ DOMAIN t = DOMAIN s /\ Len(t) = Len(s)
  BY DEF WellFormed, Shortened
<1>2. ASSUME NEW k \in DOMAIN s
      PROVE  /\ s[k].base \in Nat /\ s[k].synced \in Nat /\ NextOffset(s[k]) \in Nat
             /\ t[k].synced \in Nat /\ NextOffset(t[k]) \in Nat /\ t[k].base = s[k].base
             /\ Len(s[k].log) \in Nat /\ DOMAIN s[k].log = 1 .. Len(s[k].log)
             /\ Len(t[k].log) \in Nat /\ DOMAIN t[k].log = 1 .. Len(t[k].log)
             /\ NextOffset(s[k]) = s[k].base + Len(s[k].log)
             /\ NextOffset(t[k]) = s[k].base + Len(t[k].log)
             /\ k \in Nat /\ k >= 1
  <2>1. t[k].base = s[k].base /\ k \in DOMAIN t
    BY <1>1 DEF Shortened
  <2> QED
    BY Zenon, <1>1, <2>1, SegmentFields
<1>3. ASSUME NEW k \in DOMAIN s PROVE NextOffset(t[k]) <= NextOffset(s[k])
  <2>1. Len(t[k].log) <= Len(s[k].log)
    BY DEF Shortened
  <2> QED
    BY SMTT(30), <1>2, <2>1
<1>4. WellFormed(t)
  <2>1. ASSUME NEW k \in DOMAIN t
        PROVE  /\ k <= t[k].base + 1
               /\ t[k].base <= t[k].synced /\ t[k].synced <= NextOffset(t[k])
               /\ k < Len(t) => t[k].synced = NextOffset(t[k])
    <3>1. /\ k <= s[k].base + 1 /\ s[k].base <= s[k].synced
          /\ k < Len(s) => s[k].synced = NextOffset(s[k])
      BY <1>1 DEF WellFormed
    <3>2. s[k].synced <= t[k].synced /\ t[k].synced <= NextOffset(t[k])
      BY <1>1 DEF Shortened
    <3> QED
      BY SMTT(30), <1>1, <1>2, <1>3, <3>1, <3>2
  <2>2. ASSUME NEW k \in DOMAIN t, NEW m \in DOMAIN t, k < m
        PROVE  NextOffset(t[k]) <= t[m].base /\ t[k].object # t[m].object
    <3>1. NextOffset(s[k]) <= s[m].base
      BY <1>1, <2>2 DEF WellFormed
    <3>2. t[k].object = k /\ t[m].object = m
      BY <1>1 DEF Shortened
    <3> QED
      BY <1>1, <1>2, <1>3, <2>2, <3>1, <3>2
  <2> QED
    BY <1>1, <2>1, <2>2 DEF WellFormed
<1>5. ASSUME WellPlaced(s) PROVE WellPlaced(t)
  <2> SUFFICES ASSUME NEW k \in DOMAIN t, NEW j \in DOMAIN t[k].log
               PROVE  t[k].log[j] <= accepted /\ place[t[k].log[j]] + 1 = t[k].base + j
    BY DEF WellPlaced
  <2>1. /\ t[k].log[j] = s[k].log[j] /\ Len(t[k].log) <= Len(s[k].log) /\ t[k].base = s[k].base
    BY <1>1 DEF Shortened
  <2>2. j \in DOMAIN s[k].log
    BY <1>1, <1>2, <2>1
  <2> QED
    BY <1>1, <1>5, <2>1, <2>2 DEF WellPlaced
<1>6. ASSUME NEW i, OnDisk(s, i) PROVE OnDisk(t, i)
  <2>0. PICK k \in DOMAIN s : \E j \in DOMAIN s[k].log :
                                 s[k].log[j] = i /\ s[k].base + j <= s[k].synced
    BY <1>6 DEF OnDisk
  <2>1. PICK j \in DOMAIN s[k].log : s[k].log[j] = i /\ s[k].base + j <= s[k].synced
    BY <2>0
  <2>2. s[k].synced <= t[k].synced /\ t[k].synced <= NextOffset(t[k])
    BY DEF Shortened
  <2>3. j \in DOMAIN t[k].log /\ t[k].base + j <= t[k].synced
    <3>1. \A a, b, c, n \in Nat : \A m \in Nat \ {0} :
             a + m <= b /\ b <= c /\ c <= a + n => m \in 1 .. n /\ a + m <= c
      OBVIOUS
    <3>2. j \in Nat \ {0} /\ t[k].synced <= s[k].base + Len(t[k].log)
      BY <1>2, <2>2
    <3>3. j \in 1 .. Len(t[k].log) /\ s[k].base + j <= t[k].synced
      BY Zenon, <1>2, <2>1, <2>2, <3>1, <3>2
    <3> QED
      BY Zenon, <1>2, <3>3
  <2>4. t[k].log[j] = i
    BY <2>1, <2>3 DEF Shortened
  <2> QED
    BY <1>1, <2>3, <2>4 DEF OnDisk
<1> QED
  BY <1>1, <1>3, <1>4, <1>5, <1>6

(* NewSegmentManager on a shortened log.                                   *)
LEMMA RestartKept ==
    ASSUME LogInv, NEW kept, Shortened(segs, kept), NewSegmentManager(kept),
           UNCHANGED <<accepted, place, acked, retired>>
    PROVE  LogInv'
<1>1. /\ LogTypeOK /\ WellFormed(segs) /\ segs \in Seq(LogSegment) /\ EndsKnown
      /\ WellPlaced(segs) /\ AckedOnDisk
  BY DEF LogInv, WellFormed
<1>2. PICK found : found = IF kept = <<>> THEN <<NewSegment(1, 0)>> ELSE kept
  BY Zenon
<1>3. /\ segs' = found /\ headOffset' = found[1].base
      /\ tailOffset' = NextOffset(found[Len(found)]) /\ syncErr' = FALSE
      /\ commit' = [x \in Objects |-> Fresh] /\ pub' = [p \in Publishers |-> Idle]
      /\ truncation' = NotTruncating
  BY <1>2 DEF NewSegmentManager
<1>4. /\ WellFormed(kept) /\ DOMAIN kept = DOMAIN segs /\ WellPlaced(kept)
      /\ \A k \in DOMAIN segs : NextOffset(kept[k]) <= NextOffset(segs[k])
      /\ \A i : OnDisk(segs, i) => OnDisk(kept, i)
      /\ kept \in Seq(LogSegment) /\ Len(kept) = Len(segs)
  BY Zenon, <1>1, ShortenedWellFormed DEF Shortened
<1>5. /\ WellFormed(found) /\ WellPlaced(found) /\ found # <<>>
      /\ NextOffset(found[Len(found)]) <= accepted
      /\ \A i : OnDisk(segs, i) => OnDisk(found, i)
  <2>1. CASE kept = <<>>
    <3>1. PICK u : u = NewSegment(1, 0)
      OBVIOUS
    <3>2. 1 \in Objects
      BY SegmentLogAssumption DEF Objects
    <3>3. /\ u \in LogSegment /\ u.base = 0 /\ u.log = <<>> /\ u.synced = 0 /\ NextOffset(u) = 0
      BY <3>1, <3>2 DEF NewSegment, LogSegment, NextOffset
    <3>4. /\ found \in Seq(LogSegment) /\ Len(found) = 1 /\ DOMAIN found = {1} /\ found[1] = u
          /\ found # <<>>
      BY <1>2, <2>1, <3>1, <3>3
    <3>5. WellFormed(found) /\ WellPlaced(found)
      BY <3>3, <3>4 DEF WellFormed, WellPlaced
    <3>6. \A i : ~ OnDisk(segs, i)
      BY <1>1, <1>4, <2>1 DEF OnDisk
    <3>7. 0 <= accepted
      BY <1>1 DEF LogTypeOK
    <3> QED
      BY <3>3, <3>4, <3>5, <3>6, <3>7
  <2>2. CASE kept # <<>>
    <3>1. found = kept /\ segs # <<>> /\ Len(segs) \in DOMAIN segs
      BY <1>1, <1>2, <1>4, <2>2
    <3>2. tailOffset = NextOffset(segs[Len(segs)]) /\ tailOffset <= accepted
      BY <1>1, <3>1 DEF EndsKnown, Active
    <3>3. NextOffset(kept[Len(kept)]) \in Nat /\ tailOffset \in Nat /\ accepted \in Nat
      BY SMTT(30), <1>1, <1>4, <3>1, SegmentFields, SegmentLogAssumption DEF LogTypeOK
    <3>4. NextOffset(kept[Len(kept)]) <= tailOffset
      BY <1>4, <3>1, <3>2
    <3>5. NextOffset(kept[Len(kept)]) <= accepted
      BY <3>2, <3>3, <3>4
    <3> QED
      BY <1>4, <2>2, <3>1, <3>5
  <2> QED
    BY <2>1, <2>2
<1>6. /\ found \in Seq(LogSegment) /\ 1 \in DOMAIN found /\ Len(found) \in DOMAIN found
      /\ found[1].base \in Nat /\ NextOffset(found[Len(found)]) \in Nat
  <2>1. found \in Seq(LogSegment) /\ 1 \in DOMAIN found /\ Len(found) \in DOMAIN found
    BY <1>5 DEF WellFormed
  <2> QED
    BY <2>1, SegmentFields
<1>7. /\ ~ truncation'.running /\ truncation'.doomed = {} /\ truncation'.before = 0
      /\ truncation' \in [running : BOOLEAN, before : Nat, doomed : SUBSET Objects]
  BY <1>3 DEF NotTruncating
<1>8. LogTypeOK'
  <2>1. Idle \in [pc : {"idle", "barrier", "fsync"}, object : Objects \cup {0},
                  through : Nat, covered : Nat, record : 0 .. MaxRecords]
    BY SegmentLogAssumption DEF Idle
  <2>2. Fresh \in [through : Nat, leader : Publishers \cup {NoOne}]
    BY SMTT(30) DEF Fresh
  <2> QED
    BY Zenon, <1>1, <1>3, <1>6, <1>7, <2>1, <2>2 DEF LogTypeOK
<1>9. EndsKnown'
  BY <1>3, <1>5, <1>7 DEF EndsKnown, Active, NextOffset
<1>10. DoomedFirst'
  <2>1. 0 <= tailOffset'
    BY <1>3, <1>6
  <2> QED
    BY <1>7, <2>1 DEF DoomedFirst
<1>11. WaitersHold'
  BY <1>3 DEF WaitersHold, WaiterHolds, Idle
<1>12. CommitsSynced'
  <2>1. \A k \in DOMAIN found : found[k].object \in Objects /\ found[k].synced \in Nat
    BY <1>6, SegmentFields
  <2> QED
    BY <1>3, <2>1 DEF CommitsSynced, Fresh
<1>13. AckedOnDisk'
  BY Zenon, <1>1, <1>3, <1>5 DEF AckedOnDisk, OnDisk
<1>14. WellPlaced(segs)'
  BY <1>3, <1>5 DEF WellPlaced
<1> QED
  BY SMTT(30), <1>3, <1>5, <1>8, <1>9, <1>10, <1>11, <1>12, <1>13, <1>14 DEF LogInv

(* What loadSegments finds is a shortened log.                             *)
LEMMA LoadedShortened ==
    ASSUME LogInv, NEW power \in BOOLEAN, NEW cut \in [DOMAIN segs -> Nat],
           \A k \in DOMAIN segs : /\ cut[k] <= Len(segs[k].log)
                                  /\ segs[k].synced <= segs[k].base + cut[k]
    PROVE  Shortened(segs, Loaded(cut, power))
<1>1. /\ LogTypeOK /\ WellFormed(segs) /\ segs \in Seq(LogSegment) /\ EndsKnown
  BY DEF LogInv, WellFormed
<1>2. PICK t : t = Loaded(cut, power)
  OBVIOUS
<1>3. ASSUME NEW k \in DOMAIN segs
      PROVE  /\ t[k] \in LogSegment /\ t[k].object = k /\ t[k].base = segs[k].base
             /\ Len(t[k].log) <= Len(segs[k].log)
             /\ \A j \in DOMAIN t[k].log : t[k].log[j] = segs[k].log[j]
             /\ segs[k].synced <= t[k].synced /\ t[k].synced <= NextOffset(t[k])
  <2>1. PICK old : old = segs[k].log
    OBVIOUS
  <2>2. PICK n : n = cut[k]
    BY SMTT(30)
  <2>3. /\ old \in Seq(Records) /\ Len(old) \in Nat /\ n \in Nat /\ n <= Len(old)
        /\ segs[k].base \in Nat /\ segs[k].synced \in Nat
        /\ segs[k].synced <= segs[k].base + n
    BY <1>1, <2>1, <2>2, SegmentFields
  <2>4. /\ SubSeq(old, 1, n) \in Seq(Records) /\ Len(SubSeq(old, 1, n)) = n
        /\ DOMAIN SubSeq(old, 1, n) = 1 .. n
        /\ \A j \in 1 .. n : SubSeq(old, 1, n)[j] = old[j]
    BY <2>3
  <2>5. k \in Objects
    <3>1. k \in Nat /\ k >= 1 /\ k <= Len(segs) /\ Len(segs) \in Nat
      BY <1>1, SegmentFields
    <3>2. Len(segs) \in 0 .. MaxRecords + 1
      BY <1>1, FewSegments
    <3> QED
      BY <3>1, <3>2, SegmentLogAssumption DEF Objects
  <2>6. PICK y : y = IF power THEN segs[k].base + n ELSE segs[k].synced
    OBVIOUS
  <2>7. y \in Nat /\ segs[k].synced <= y /\ y <= segs[k].base + n
    BY <2>3, <2>6
  <2>8. t[k] = [object |-> k, base |-> segs[k].base, log |-> SubSeq(old, 1, n),
                synced |-> y, expired |-> FALSE]
    BY <1>2, <2>1, <2>2, <2>6 DEF Loaded
  <2>9. /\ t[k] \in LogSegment /\ t[k].object = k /\ t[k].base = segs[k].base
        /\ t[k].log = SubSeq(old, 1, n) /\ t[k].synced = y
    BY <2>3, <2>4, <2>5, <2>7, <2>8 DEF LogSegment
  <2>10. NextOffset(t[k]) = segs[k].base + n
    BY <2>4, <2>9 DEF NextOffset
  <2> QED
    BY <2>1, <2>3, <2>4, <2>7, <2>9, <2>10
<1>4. t \in Seq(LogSegment) /\ Len(t) = Len(segs)
  <2>1. Len(segs) \in Nat /\ DOMAIN segs = 1 .. Len(segs)
    BY <1>1
  <2>2. t \in [1 .. Len(segs) -> LogSegment]
    BY ZenonT(30), <1>2, <1>3, <2>1 DEF Loaded
  <2> QED
    BY <2>1, <2>2
<1> QED
  BY <1>2, <1>3, <1>4 DEF Shortened

LEMMA KeptByCrash ==
    ASSUME LogInv, NEW power \in BOOLEAN, Crash(power) PROVE LogInv'
<1>1. PICK cut \in [DOMAIN segs -> 0 .. SegmentSize] :
        /\ \A k \in DOMAIN segs : /\ cut[k] <= Len(segs[k].log)
                                  /\ segs[k].synced <= segs[k].base + cut[k]
        /\ NewSegmentManager(Loaded(cut, power))
  BY DEF Crash
<1>2. cut \in [DOMAIN segs -> Nat]
  BY SMTT(30)
<1>3. Shortened(segs, Loaded(cut, power))
  BY <1>1, <1>2, LoadedShortened
<1> QED
  BY <1>1, <1>3, RestartKept DEF Crash

LEMMA KeptByCloseAndReopen ==
    ASSUME LogInv, CloseAndReopen PROVE LogInv'
<1>1. WellFormed(segs) /\ segs \in Seq(LogSegment) /\ segs # <<>>
  BY Zenon DEF LogInv, CloseAndReopen, EndsKnown, WellFormed
<1>2. PICK whole : whole = [k \in DOMAIN segs |-> Len(segs[k].log)]
  BY Zenon
<1>3. PICK t : t = Loaded(whole, FALSE)
  BY Zenon
<1>4. PICK u : u = Synced(t)
  OBVIOUS
<1>5. Shortened(segs, t)
  <2>1. whole \in [DOMAIN segs -> Nat]
    BY <1>1, <1>2, SegmentFields
  <2>2. ASSUME NEW k \in DOMAIN segs
        PROVE  whole[k] <= Len(segs[k].log) /\ segs[k].synced <= segs[k].base + whole[k]
    <3>1. /\ Len(segs[k].log) \in Nat /\ NextOffset(segs[k]) = segs[k].base + Len(segs[k].log)
          /\ segs[k].synced <= NextOffset(segs[k])
      BY <1>1, SegmentFields DEF WellFormed
    <3> QED
      BY <1>2, <3>1
  <2> QED
    BY Zenon, <1>3, <2>1, <2>2, LoadedShortened
<1>6. /\ WellFormed(t) /\ t \in Seq(LogSegment) /\ t # <<>> /\ DOMAIN t = DOMAIN segs
      /\ Len(t) = Len(segs)
  <2>1. WellFormed(t) /\ DOMAIN t = DOMAIN segs
    BY <1>1, <1>5, ShortenedWellFormed
  <2>2. t \in Seq(LogSegment) /\ Len(t) = Len(segs)
    BY <1>5 DEF Shortened
  <2> QED
    BY <1>1, <2>1, <2>2
<1>7. SameLog(t, u)
  BY <1>4, <1>6, SyncedSameLog
<1>8. Shortened(segs, u)
  <2>1. u \in Seq(LogSegment) /\ Len(u) = Len(segs)
    BY <1>6, <1>7 DEF SameLog
  <2>2. ASSUME NEW k \in DOMAIN segs
        PROVE  /\ u[k].object = k /\ u[k].base = segs[k].base
               /\ Len(u[k].log) <= Len(segs[k].log)
               /\ \A j \in DOMAIN u[k].log : u[k].log[j] = segs[k].log[j]
               /\ segs[k].synced <= u[k].synced /\ u[k].synced <= NextOffset(u[k])
    <3>1. /\ u[k].object = t[k].object /\ u[k].base = t[k].base /\ u[k].log = t[k].log
          /\ t[k].synced <= u[k].synced /\ u[k].synced <= NextOffset(t[k])
      BY <1>6, <1>7 DEF SameLog
    <3>2. /\ t[k].object = k /\ t[k].base = segs[k].base
          /\ Len(t[k].log) <= Len(segs[k].log)
          /\ \A j \in DOMAIN t[k].log : t[k].log[j] = segs[k].log[j]
          /\ segs[k].synced <= t[k].synced
      BY <1>5 DEF Shortened
    <3>3. NextOffset(u[k]) = NextOffset(t[k])
      BY <3>1 DEF NextOffset
    <3>4. segs[k].synced \in Nat /\ t[k].synced \in Nat /\ u[k].synced \in Nat
      <4>1. k \in DOMAIN u
        BY <1>1, <2>1
      <4> QED
        BY <1>1, <1>6, <2>1, <4>1, SegmentFields
    <3> QED
      BY <3>1, <3>2, <3>3, <3>4
  <2> QED
    BY <2>1, <2>2 DEF Shortened
<1>9. NewSegmentManager(u) /\ UNCHANGED <<accepted, place, acked, retired>>
  BY Zenon, <1>2, <1>3, <1>4 DEF CloseAndReopen
<1> QED
  BY <1>8, <1>9, RestartKept

-----------------------------------------------------------------------------
(* Theorems.                                                               *)

(* Every step keeps it.                                                    *)
LEMMA LogInvKept ==
    ASSUME LogInv, [Next]_vars PROVE LogInv'
<1>1. ASSUME NEW p \in Publishers, AppendDurable(p) \/ BarrierPassed(p) \/ LeadBarrier(p)
      PROVE  LogInv'
  BY <1>1, KeptByAppendDurable, KeptByBarrierPassed, KeptByLeadBarrier
<1>2. ASSUME NEW p \in Publishers, FsyncSucceeds(p) \/ FsyncFails(p) PROVE LogInv'
  BY <1>2, KeptByFsyncSucceeds, KeptByFsyncFails
<1>3. CASE UNCHANGED vars
  BY <1>3, LogStutters
<1> QED
  BY <1>1, <1>2, <1>3, KeptByExpire, KeptByAppendBuffered, KeptBySync, KeptByTruncate,
     KeptByDeleteSegment, KeptByFinishTruncate, KeptByApplyRetention, KeptByCrash,
     KeptByCloseAndReopen DEF Next

(* The log is well formed in every reachable state.                        *)
THEOREM LogInvariance == Spec => []LogInv
<1>1. Init => LogInv
  BY LogStarts
<1>2. LogInv /\ [Next]_vars => LogInv'
  BY LogInvKept
<1> QED
  BY <1>1, <1>2, PTL DEF Spec

(* A publish acknowledged as durable (AppendAndSync, SyncThrough) is in    *)
(* the log until retention removes it, whatever crashes.                   *)
THEOREM AcknowledgedSurvive == Spec => []AckedSurvives
  BY AckedAreStored, LogInvariance, PTL

(* rotate seals a segment by a sync, so that every segment but the active  *)
(* one is completely on disk.                                              *)
THEOREM SealedSegmentsDurable == Spec => []SealedDurable
  BY SealedAreSynced, LogInvariance, PTL

(* A record is read back at the offset its publisher was given, from the   *)
(* only segment findSegment can pick, and head and tail enclose it.        *)
THEOREM RecordsReadBack == Spec => []ReadsBack
  BY PlacesAreUnique, LogInvariance, PTL
=============================================================================
