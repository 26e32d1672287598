-------------------------- MODULE SegmentLogSteps ---------------------------
(***************************************************************************)
(* The inductive invariant of a queue's log, what follows from it, and the *)
(* steps that append and sync.  SegmentLogProofs has the remaining steps   *)
(* and the theorems.                                                       *)
(***************************************************************************)
EXTENDS SegmentLog, TLAPS

-----------------------------------------------------------------------------
(* The inductive invariant.  What concerns the segments alone is a         *)
(* predicate of a sequence of segments, so that the steps of appendLocked  *)
(* (retry a sync, rotate, append) can be taken one after the other.        *)

LogSegment == [object : Objects, base : Nat, log : Seq(Records), synced : Nat,
               expired : BOOLEAN]

LogTypeOK ==
    /\ headOffset \in Nat /\ tailOffset \in Nat
    /\ syncErr \in BOOLEAN
    /\ commit \in [Objects -> [through : Nat, leader : Publishers \cup {NoOne}]]
    /\ pub \in [Publishers -> [pc : {"idle", "barrier", "fsync"}, object : Objects \cup {0},
                               through : Nat, covered : Nat, record : 0 .. MaxRecords]]
    /\ truncation \in [running : BOOLEAN, before : Nat, doomed : SUBSET Objects]
    /\ accepted \in 0 .. MaxRecords
    /\ place \in [Records -> Nat]

(* Segments are in order and do not overlap, each has an object of its own *)
(* and is synced up to a point in it, the sealed ones completely.  A       *)
(* segment was made when one more record than before had been accepted,    *)
(* which bounds their number.                                              *)
WellFormed(s) ==
    /\ s \in Seq(LogSegment)
    /\ \A k \in DOMAIN s : /\ k <= s[k].base + 1
                           /\ s[k].base <= s[k].synced /\ s[k].synced <= NextOffset(s[k])
                           /\ k < Len(s) => s[k].synced = NextOffset(s[k])
    /\ \A k, m \in DOMAIN s : k < m => /\ NextOffset(s[k]) <= s[m].base
                                       /\ s[k].object # s[m].object

(* A record of the log is at the offset it was given.                      *)
WellPlaced(s) ==
    \A k \in DOMAIN s : \A j \in DOMAIN s[k].log :
        /\ s[k].log[j] <= accepted
        /\ place[s[k].log[j]] + 1 = s[k].base + j

(* Record i is in the segment with object x and ends at offset o.          *)
RecordAt(s, x, i, o) ==
    \E k \in DOMAIN s : /\ s[k].object = x
                        /\ \E j \in DOMAIN s[k].log : s[k].log[j] = i /\ s[k].base + j = o

(* Record i is on disk.                                                    *)
OnDisk(s, i) ==
    \E k \in DOMAIN s : \E j \in DOMAIN s[k].log :
        s[k].log[j] = i /\ s[k].base + j <= s[k].synced

(* Head and tail are the ends of the log.                                  *)
EndsKnown ==
    /\ segs # <<>> => tailOffset = NextOffset(Active)
    /\ ~ truncation.running => segs # <<>> /\ headOffset = segs[1].base
    /\ tailOffset <= accepted

(* A truncation deletes from the old end.                                  *)
DoomedFirst ==
    /\ ~ truncation.running => truncation.doomed = {}
    /\ truncation.before <= tailOffset
    /\ \A x \in truncation.doomed : \E k \in DOMAIN segs : segs[k].object = x
    /\ \A k, m \in DOMAIN segs :
          k < m /\ segs[m].object \in truncation.doomed => segs[k].object \in truncation.doomed

(* Whoever waits for a barrier has its record in the segment it holds, or  *)
(* the segment was deleted.  An fsync covers what was there.               *)
WaiterHolds(s, w) ==
    w.pc # "idle" =>
        /\ w.object \in Objects
        /\ \/ RecordAt(s, w.object, w.record, w.through)
           \/ w.record \in retired /\ \A k \in DOMAIN s : s[k].object # w.object
        /\ w.pc = "fsync" =>
              \A k \in DOMAIN s : s[k].object = w.object => w.covered <= NextOffset(s[k])

WaitersHold == \A p \in Publishers : WaiterHolds(segs, pub[p])

(* A group commit claims no more than is on disk.                          *)
CommitsSynced ==
    \A k \in DOMAIN segs : commit[segs[k].object].through <= segs[k].synced

AckedOnDisk == \A i \in acked : i \in retired \/ OnDisk(segs, i)

LogInv ==
    /\ LogTypeOK /\ WellFormed(segs) /\ WellPlaced(segs) /\ EndsKnown /\ DoomedFirst
    /\ WaitersHold /\ CommitsSynced /\ AckedOnDisk

-----------------------------------------------------------------------------
(* Segments.                                                               *)

(* One element of a sequence is replaced.                                  *)
LEMMA OneReplaced ==
    ASSUME NEW S, NEW s \in Seq(S), NEW l \in DOMAIN s, NEW u \in S
    PROVE  LET t == [s EXCEPT ![l] = u]
           IN  /\ t \in Seq(S) /\ Len(t) = Len(s) /\ DOMAIN t = DOMAIN s /\ t[l] = u
               /\ \A k \in DOMAIN s : k # l => t[k] = s[k]
  OBVIOUS

(* The fields of a segment.                                                *)
LEMMA SegmentFields ==
    ASSUME NEW s \in Seq(LogSegment), NEW k \in DOMAIN s
    PROVE  /\ s[k] \in LogSegment
           /\ s[k].object \in Objects /\ s[k].base \in Nat /\ s[k].synced \in Nat
           /\ s[k].log \in Seq(Records) /\ Len(s[k].log) \in Nat
           /\ DOMAIN s[k].log = 1 .. Len(s[k].log)
           /\ NextOffset(s[k]) \in Nat /\ NextOffset(s[k]) = s[k].base + Len(s[k].log)
           /\ k \in Nat /\ k >= 1 /\ k <= Len(s) /\ Len(s) \in Nat
<1>1. s[k] \in LogSegment /\ k \in 1 .. Len(s) /\ Len(s) \in Nat
  OBVIOUS
<1>2. s[k].log \in Seq(Records) /\ s[k].base \in Nat
  BY <1>1 DEF LogSegment
<1> QED
  BY <1>1, <1>2 DEF LogSegment, NextOffset

(* What the invariant says of acknowledged records.                        *)
LEMMA AckedAreStored == LogInv => AckedSurvives
<1> SUFFICES ASSUME LogInv, NEW i \in acked PROVE i \in Stored \cup retired
  BY DEF AckedSurvives
<1>1. CASE OnDisk(segs, i)
  <2>1. PICK k \in DOMAIN segs : \E j \in DOMAIN segs[k].log : segs[k].log[j] = i
    BY <1>1 DEF OnDisk
  <2>2. i \in Records
    BY <2>1, SegmentFields DEF LogInv, WellFormed
  <2> QED
    BY <2>1, <2>2 DEF Stored
<1> QED
  BY <1>1 DEF LogInv, AckedOnDisk

(* What it says of sealed segments.                                        *)
LEMMA SealedAreSynced == LogInv => SealedDurable
<1> SUFFICES ASSUME LogInv, NEW k \in 1 .. Len(segs) - 1
             PROVE  segs[k].synced = NextOffset(segs[k])
  BY DEF SealedDurable
<1>1. WellFormed(segs) /\ segs \in Seq(LogSegment)
  BY DEF LogInv, WellFormed
<1>2. k \in DOMAIN segs /\ k < Len(segs)
  BY <1>1
<1> QED
  BY <1>1, <1>2 DEF WellFormed

(* What it says of the places of records.                                  *)
LEMMA PlacesAreUnique == LogInv => ReadsBack
<1> SUFFICES ASSUME LogInv, ~ truncation.running,
                    NEW k \in DOMAIN segs, NEW j \in DOMAIN segs[k].log,
                    NEW o, o = place[segs[k].log[j]]
             PROVE  /\ o = segs[k].base + j - 1 /\ headOffset <= o /\ o < tailOffset
                    /\ \A m \in DOMAIN segs :
                         segs[m].base <= o /\ o < NextOffset(segs[m]) => m = k
  BY DEF ReadsBack
<1>1. /\ LogTypeOK /\ WellFormed(segs) /\ segs \in Seq(LogSegment) /\ EndsKnown
      /\ WellPlaced(segs)
  BY DEF LogInv, WellFormed
<1>2. PICK l : l = Len(segs)
  BY Zenon
<1>3. /\ l \in DOMAIN segs /\ 1 \in DOMAIN segs /\ headOffset = segs[1].base
      /\ tailOffset = NextOffset(segs[l]) /\ DOMAIN segs = 1 .. l /\ l \in Nat
  BY <1>1, <1>2 DEF EndsKnown, Active
<1>4. \A m \in DOMAIN segs : /\ segs[m].base \in Nat /\ NextOffset(segs[m]) \in Nat
                            /\ segs[m].base <= NextOffset(segs[m])
  BY SMTT(30), <1>1, SegmentFields
<1>5. /\ Len(segs[k].log) \in Nat /\ j \in 1 .. Len(segs[k].log) /\ segs[k].log[j] \in Records
      /\ NextOffset(segs[k]) = segs[k].base + Len(segs[k].log)
  BY <1>1, SegmentFields
<1>6. o \in Nat /\ o + 1 = segs[k].base + j
  <2>1. place[segs[k].log[j]] + 1 = segs[k].base + j
    BY <1>1 DEF WellPlaced
  <2>2. place[segs[k].log[j]] \in Nat
    BY <1>1, <1>5 DEF LogTypeOK
  <2> QED
    BY <2>1, <2>2
<1>7. segs[k].base <= o /\ o < NextOffset(segs[k]) /\ o = segs[k].base + j - 1
  <2>1. \A a, n, b \in Nat : \A i \in 1 .. n :
           b + 1 = a + i => a <= b /\ b < a + n /\ b = a + i - 1
    OBVIOUS
  <2>2. PICK b, n : b = segs[k].base /\ n = Len(segs[k].log)
    BY Zenon
  <2>3. b \in Nat /\ n \in Nat /\ j \in 1 .. n /\ o \in Nat /\ o + 1 = b + j
    BY <1>4, <1>5, <1>6, <2>2
  <2>4. b <= o /\ o < b + n /\ o = b + j - 1
    BY <2>1, <2>3
  <2>5. NextOffset(segs[k]) = b + n
    BY <1>5, <2>2
  <2> QED
    BY <2>2, <2>4, <2>5
<1>8. headOffset <= o
  <2>1. k = 1 \/ 1 < k
    BY <1>3
  <2>2. 1 < k => NextOffset(segs[1]) <= segs[k].base
    BY <1>1, <1>3 DEF WellFormed
  <2> QED
    BY <1>3, <1>4, <1>6, <1>7, <2>1, <2>2
<1>9. o < tailOffset
  <2>1. k = l \/ k < l
    BY <1>3
  <2>2. k < l => NextOffset(segs[k]) <= segs[l].base
    BY <1>1, <1>3 DEF WellFormed
  <2> QED
    BY <1>3, <1>4, <1>6, <1>7, <2>1, <2>2
<1>10. ASSUME NEW m \in DOMAIN segs, segs[m].base <= o, o < NextOffset(segs[m]) PROVE m = k
  <2>1. k < m => NextOffset(segs[k]) <= segs[m].base
    BY <1>1 DEF WellFormed
  <2>2. m < k => NextOffset(segs[m]) <= segs[k].base
    BY <1>1 DEF WellFormed
  <2>3. ~ (k < m)
    BY <1>4, <1>6, <1>7, <1>10, <2>1
  <2>4. ~ (m < k)
    BY <1>4, <1>6, <1>7, <1>10, <2>2
  <2> QED
    BY <1>3, <2>3, <2>4
<1> QED
  BY <1>7, <1>8, <1>9, <1>10

(* The invariant holds of an empty log.                                    *)
LEMMA LogStarts ==
    ASSUME Init PROVE LogInv
<1>1. MaxObjects \in Nat /\ MaxObjects >= 1 /\ MaxRecords \in Nat
  BY SegmentLogAssumption
<1>2. PICK u : u = NewSegment(1, 0)
  OBVIOUS
<1>3. /\ u \in LogSegment /\ u.base = 0 /\ u.log = <<>> /\ u.synced = 0 /\ NextOffset(u) = 0
      /\ u.object = 1 /\ 1 \in Objects
  BY <1>1, <1>2 DEF NewSegment, LogSegment, NextOffset, Objects
<1>4. /\ segs \in Seq(LogSegment) /\ Len(segs) = 1 /\ DOMAIN segs = {1} /\ segs[1] = u
      /\ segs # <<>>
  BY <1>2, <1>3 DEF Init
<1>5. WellFormed(segs) /\ WellPlaced(segs)
  BY <1>3, <1>4 DEF WellFormed, WellPlaced
<1>6. LogTypeOK
  <2>1. /\ Fresh \in [through : Nat, leader : Publishers \cup {NoOne}]
        /\ Idle \in [pc : {"idle", "barrier", "fsync"}, object : Objects \cup {0},
                     through : Nat, covered : Nat, record : 0 .. MaxRecords]
        /\ NotTruncating \in [running : BOOLEAN, before : Nat, doomed : SUBSET Objects]
    BY <1>1 DEF Fresh, Idle, NotTruncating
  <2>2. /\ commit \in [Objects -> [through : Nat, leader : Publishers \cup {NoOne}]]
        /\ pub \in [Publishers -> [pc : {"idle", "barrier", "fsync"}, object : Objects \cup {0},
                                 through : Nat, covered : Nat, record : 0 .. MaxRecords]]
    BY <2>1 DEF Init
  <2>3. place \in [Records -> Nat] /\ accepted \in 0 .. MaxRecords
    BY <1>1 DEF Init
  <2>4. headOffset \in Nat /\ tailOffset \in Nat /\ syncErr \in BOOLEAN
    BY Zenon DEF Init
  <2>5. truncation \in [running : BOOLEAN, before : Nat, doomed : SUBSET Objects]
    BY <2>1 DEF Init
  <2> QED
    BY <2>2, <2>3, <2>4, <2>5 DEF LogTypeOK
<1>7. EndsKnown
  BY <1>3, <1>4 DEF EndsKnown, Init, Active, NotTruncating
<1>8. DoomedFirst
  BY DEF DoomedFirst, Init, NotTruncating
<1>9. WaitersHold /\ AckedOnDisk
  BY DEF WaitersHold, WaiterHolds, Init, Idle, AckedOnDisk
<1>10. CommitsSynced
  BY <1>3, <1>4 DEF CommitsSynced, Init, Fresh
<1> QED
  BY <1>5, <1>6, <1>7, <1>8, <1>9, <1>10 DEF LogInv

(* A step that changes nothing.                                            *)
LEMMA LogStutters ==
    ASSUME LogInv, UNCHANGED vars PROVE LogInv'
<1>1. LogTypeOK' /\ WellFormed(segs)' /\ WellPlaced(segs)'
  BY DEF vars, LogInv, LogTypeOK, WellFormed, WellPlaced
<1>2. EndsKnown' /\ DoomedFirst'
  BY DEF vars, LogInv, EndsKnown, DoomedFirst, Active
<1>3. WaitersHold' /\ CommitsSynced' /\ AckedOnDisk'
  BY DEF vars, LogInv, WaitersHold, WaiterHolds, RecordAt, CommitsSynced, AckedOnDisk, OnDisk
<1> QED
  BY <1>1, <1>2, <1>3 DEF LogInv

(* Offsets bound the number of segments.                                   *)
LEMMA FewSegments ==
    ASSUME LogTypeOK, WellFormed(segs), EndsKnown
    PROVE  Len(segs) \in 0 .. MaxRecords + 1
<1>1. segs \in Seq(LogSegment) /\ Len(segs) \in Nat
  BY DEF WellFormed
<1>2. CASE segs = <<>>
  BY <1>2, SegmentLogAssumption
<1>3. CASE segs # <<>>
  <2>1. Len(segs) \in DOMAIN segs
    BY <1>1, <1>3
  <2>2. /\ Active.base \in Nat /\ Len(Active.log) \in Nat
        /\ NextOffset(Active) = Active.base + Len(Active.log)
    BY <1>1, <2>1, SegmentFields DEF Active
  <2>3. Len(segs) <= Active.base + 1
    BY <2>1 DEF WellFormed, Active
  <2>4. tailOffset = NextOffset(Active) /\ tailOffset <= accepted /\ accepted \in 0 .. MaxRecords
    BY <1>3 DEF EndsKnown, LogTypeOK
  <2> QED
    BY <1>1, <2>2, <2>3, <2>4, SegmentLogAssumption
<1> QED
  BY <1>2, <1>3

(* A new object is one that nobody uses.                                   *)
LEMMA FreeObjectIsFree ==
    ASSUME FreeObjects # {}
    PROVE  /\ FreeObject \in Objects
           /\ \A k \in DOMAIN segs : segs[k].object # FreeObject
           /\ \A p \in Publishers : pub[p].object # FreeObject
<1>1. FreeObject \in FreeObjects
  BY DEF FreeObject
<1> QED
  BY <1>1 DEF FreeObjects

(* The same records in the same segments, synced at least as far.          *)
SameLog(s, t) ==
    /\ t \in Seq(LogSegment) /\ Len(t) = Len(s)
    /\ \A k \in DOMAIN s : /\ t[k].object = s[k].object /\ t[k].base = s[k].base
                           /\ t[k].log = s[k].log
                           /\ s[k].synced <= t[k].synced /\ t[k].synced <= NextOffset(s[k])

LEMMA SameLogWellFormed ==
    ASSUME NEW s, NEW t, WellFormed(s), SameLog(s, t)
    PROVE  /\ WellFormed(t) /\ DOMAIN t = DOMAIN s
           /\ \A k \in DOMAIN s : NextOffset(t[k]) = NextOffset(s[k])
           /\ WellPlaced(s) => WellPlaced(t)
           /\ \A x, i, o : RecordAt(s, x, i, o) => RecordAt(t, x, i, o)
           /\ \A i : OnDisk(s, i) => OnDisk(t, i)
<1>1. s \in Seq(LogSegment) /\ t \in Seq(LogSegment) /\ DOMAIN t = DOMAIN s /\ Len(t) = Len(s)
  BY DEF WellFormed, SameLog
<1>2. \A k \in DOMAIN s : NextOffset(t[k]) = NextOffset(s[k])
  BY DEF SameLog, NextOffset
<1>3. WellFormed(t)
  <2>1. ASSUME NEW k \in DOMAIN t
        PROVE  /\ k <= t[k].base + 1
               /\ t[k].base <= t[k].synced /\ t[k].synced <= NextOffset(t[k])
               /\ k < Len(t) => t[k].synced = NextOffset(t[k])
    <3>1. /\ s[k].base \in Nat /\ s[k].synced \in Nat /\ NextOffset(s[k]) \in Nat
          /\ t[k].synced \in Nat
      BY <1>1, SegmentFields
    <3>2. /\ k <= s[k].base + 1 /\ s[k].base <= s[k].synced
          /\ k < Len(s) => s[k].synced = NextOffset(s[k])
      BY <1>1 DEF WellFormed
    <3>3. /\ t[k].base = s[k].base /\ s[k].synced <= t[k].synced
          /\ t[k].synced <= NextOffset(s[k])
      BY <1>1 DEF SameLog
    <3> QED
      BY <1>1, <1>2, <3>1, <3>2, <3>3
  <2>2. ASSUME NEW k \in DOMAIN t, NEW m \in DOMAIN t, k < m
        PROVE  NextOffset(t[k]) <= t[m].base /\ t[k].object # t[m].object
    BY <1>1, <1>2, <2>2 DEF WellFormed, SameLog
  <2> QED
    BY <1>1, <2>1, <2>2 DEF WellFormed
<1>4. WellPlaced(s) => WellPlaced(t)
  BY <1>1 DEF WellPlaced, SameLog
<1>5. \A x, i, o : RecordAt(s, x, i, o) => RecordAt(t, x, i, o)
  BY <1>1 DEF RecordAt, SameLog
<1>6. ASSUME NEW i, OnDisk(s, i) PROVE OnDisk(t, i)
  <2>0. PICK k \in DOMAIN s : \E j \in DOMAIN s[k].log :
                                 s[k].log[j] = i /\ s[k].base + j <= s[k].synced
    BY <1>6 DEF OnDisk
  <2>1. PICK j \in DOMAIN s[k].log : s[k].log[j] = i /\ s[k].base + j <= s[k].synced
    BY <2>0
  <2>2. /\ s[k].base \in Nat /\ s[k].synced \in Nat /\ t[k].synced \in Nat /\ j \in Nat
    BY SMTT(30), <1>1, SegmentFields
  <2>3. t[k].log = s[k].log /\ t[k].base = s[k].base /\ s[k].synced <= t[k].synced
    BY DEF SameLog
  <2>4. t[k].base + j <= t[k].synced
    BY <2>1, <2>2, <2>3
  <2> QED
    BY <1>1, <2>1, <2>3, <2>4 DEF OnDisk
<1> QED
  BY <1>1, <1>2, <1>3, <1>4, <1>5, <1>6

(* Segment.Sync leaves the log as it is.                                   *)
LEMMA SyncedSameLog ==
    ASSUME NEW s, WellFormed(s), s # <<>>
    PROVE  /\ SameLog(s, Synced(s))
           /\ Synced(s)[Len(s)].synced = NextOffset(s[Len(s)])
<1>1. s \in Seq(LogSegment) /\ Len(s) \in DOMAIN s
  BY DEF WellFormed
<1>2. \A k \in DOMAIN s : s[k] \in LogSegment /\ NextOffset(s[k]) \in Nat /\ s[k].synced \in Nat
  BY <1>1, SegmentFields
<1> DEFINE last == [s[Len(s)] EXCEPT !.synced = NextOffset(s[Len(s)])]
<1>3. Synced(s) = [s EXCEPT ![Len(s)] = last]
  BY <1>1, <1>2 DEF Synced
<1>4. /\ last \in LogSegment /\ last.object = s[Len(s)].object /\ last.base = s[Len(s)].base
      /\ last.log = s[Len(s)].log /\ last.synced = NextOffset(s[Len(s)])
  BY Zenon, <1>1, <1>2 DEF LogSegment
<1> HIDE DEF last
<1>5. /\ Synced(s) \in Seq(LogSegment) /\ Len(Synced(s)) = Len(s)
      /\ Synced(s)[Len(s)] = last /\ \A k \in DOMAIN s : k # Len(s) => Synced(s)[k] = s[k]
  BY <1>1, <1>3, <1>4
<1> QED
  BY <1>1, <1>2, <1>4, <1>5 DEF SameLog, WellFormed

(* A new segment after a synced one.                                       *)
LEMMA RotatedWellFormed ==
    ASSUME NEW s, WellFormed(s), s # <<>>, Len(s[Len(s)].log) > 0,
           s[Len(s)].synced = NextOffset(s[Len(s)]),
           NEW x \in Objects, \A k \in DOMAIN s : s[k].object # x
    PROVE  LET n == NewSegment(x, NextOffset(s[Len(s)]))
               t == Append(s, n)
           IN  /\ WellFormed(t) /\ Len(t) = Len(s) + 1 /\ t[Len(t)] = n
               /\ n.object = x /\ n.base = NextOffset(s[Len(s)])
               /\ n.synced = n.base /\ NextOffset(n) = n.base
               /\ \A k \in DOMAIN s : k \in DOMAIN t /\ t[k] = s[k]
               /\ DOMAIN t = DOMAIN s \cup {Len(t)}
               /\ WellPlaced(s) => WellPlaced(t)
               /\ \A y, i, o : RecordAt(s, y, i, o) => RecordAt(t, y, i, o)
               /\ \A i : OnDisk(s, i) => OnDisk(t, i)
<1>a. PICK n : n = NewSegment(x, NextOffset(s[Len(s)]))
  OBVIOUS
<1>b. PICK t : t = Append(s, n)
  BY Zenon
<1>1. s \in Seq(LogSegment) /\ Len(s) \in DOMAIN s /\ Len(s) \in Nat /\ DOMAIN s = 1 .. Len(s)
  BY DEF WellFormed
<1> DEFINE l == Len(s)
<1>2. \A k \in DOMAIN s : /\ s[k].base \in Nat /\ NextOffset(s[k]) \in Nat
                         /\ NextOffset(s[k]) = s[k].base + Len(s[k].log)
                         /\ Len(s[k].log) \in Nat
  BY <1>1, SegmentFields
<1>3. /\ n \in LogSegment /\ n.object = x /\ n.base = NextOffset(s[l]) /\ n.log = <<>>
      /\ n.synced = n.base /\ NextOffset(n) = n.base /\ n.base \in Nat
  <2>1. NextOffset(s[l]) \in Nat
    BY <1>1, <1>2
  <2>2. /\ n \in LogSegment /\ n.object = x /\ n.base = NextOffset(s[l]) /\ n.log = <<>>
        /\ n.synced = n.base
    BY <2>1, <1>a DEF NewSegment, LogSegment
  <2>3. Len(n.log) = 0
    BY <2>2
  <2> QED
    BY <2>1, <2>2, <2>3 DEF NextOffset
<1>4. /\ t \in Seq(LogSegment) /\ Len(t) = l + 1 /\ t[l + 1] = n
      /\ \A k \in DOMAIN s : t[k] = s[k]
      /\ DOMAIN t = DOMAIN s \cup {l + 1} /\ DOMAIN t = 1 .. (l + 1)
  BY <1>1, <1>3, <1>b
<1>5. WellFormed(t)
  <2>1. ASSUME NEW k \in DOMAIN t
        PROVE  /\ k <= t[k].base + 1
               /\ t[k].base <= t[k].synced /\ t[k].synced <= NextOffset(t[k])
               /\ k < Len(t) => t[k].synced = NextOffset(t[k])
    <3>1. CASE k \in DOMAIN s
      <4>1. k = l \/ k < l
        BY <1>1, <3>1
      <4> QED
        BY <1>4, <3>1, <4>1 DEF WellFormed
    <3>2. CASE k = l + 1
      <4>1. l <= s[l].base + 1
        BY <1>1 DEF WellFormed
      <4>2. l + 1 <= NextOffset(s[l]) + 1
        BY <1>1, <1>2, <4>1
      <4> QED
        BY <1>1, <1>3, <1>4, <3>2, <4>2
    <3> QED
      BY <1>4, <3>1, <3>2
  <2>2. ASSUME NEW k \in DOMAIN t, NEW m \in DOMAIN t, k < m
        PROVE  NextOffset(t[k]) <= t[m].base /\ t[k].object # t[m].object
    <3>1. k \in DOMAIN s
      BY <1>1, <1>4, <2>2
    <3>2. CASE m \in DOMAIN s
      BY <1>4, <2>2, <3>1, <3>2 DEF WellFormed
    <3>3. CASE m = l + 1
      <4>1. NextOffset(s[k]) <= NextOffset(s[l])
        <5>1. k < l => NextOffset(s[k]) <= s[l].base
          BY <1>1, <3>1 DEF WellFormed
        <5>2. k = l \/ k < l
          BY <1>1, <3>1
        <5>3. /\ NextOffset(s[k]) \in Nat /\ s[l].base \in Nat /\ NextOffset(s[l]) \in Nat
              /\ s[l].base <= NextOffset(s[l])
          BY <1>1, <1>2, <3>1
        <5> QED
          BY <5>1, <5>2, <5>3
      <4> QED
        BY <1>3, <1>4, <3>1, <3>3, <4>1
    <3> QED
      BY <1>4, <3>2, <3>3
  <2> QED
    BY <1>4, <2>1, <2>2 DEF WellFormed
<1>6. WellPlaced(s) => WellPlaced(t)
  <2>1. DOMAIN n.log = {}
    BY <1>3
  <2> QED
    BY <1>4, <2>1 DEF WellPlaced
<1>7. \A y, i, o : RecordAt(s, y, i, o) => RecordAt(t, y, i, o)
  BY <1>4 DEF RecordAt
<1>8. \A i : OnDisk(s, i) => OnDisk(t, i)
  BY <1>4 DEF OnDisk
<1> QED
  BY <1>a, <1>b, <1>3, <1>4, <1>5, <1>6, <1>7, <1>8

(* A record at the end of the last segment: what changes.                  *)
LEMMA AppendedFields ==
    ASSUME NEW s \in Seq(LogSegment), s # <<>>, NEW i \in Records
    PROVE  LET l == Len(s)
               t == [s EXCEPT ![l].log = Append(@, i)]
           IN  /\ t \in Seq(LogSegment) /\ Len(t) = l /\ DOMAIN t = DOMAIN s
               /\ \A k \in DOMAIN s : k # l => t[k] = s[k]
               /\ t[l].object = s[l].object /\ t[l].base = s[l].base
               /\ t[l].synced = s[l].synced /\ t[l].log = Append(s[l].log, i)
<1>0. PICK l : l = Len(s)
  OBVIOUS
<1>1. l \in DOMAIN s
  BY <1>0
<1>2. s[l] \in LogSegment /\ s[l].log \in Seq(Records)
  BY <1>1, SegmentFields
<1>3. Append(s[l].log, i) \in Seq(Records)
  BY <1>2
<1>4. PICK u : u = [s[l] EXCEPT !.log = Append(s[l].log, i)]
  BY Zenon
<1>5. /\ u \in LogSegment /\ u.object = s[l].object /\ u.base = s[l].base
      /\ u.synced = s[l].synced /\ u.log = Append(s[l].log, i)
  BY Zenon, <1>2, <1>3, <1>4 DEF LogSegment
<1>6. [s EXCEPT ![Len(s)].log = Append(@, i)] = [s EXCEPT ![l] = u]
  BY <1>0, <1>1, <1>4
<1>7. LET t == [s EXCEPT ![l] = u]
      IN  /\ t \in Seq(LogSegment) /\ Len(t) = l /\ DOMAIN t = DOMAIN s /\ t[l] = u
          /\ \A k \in DOMAIN s : k # l => t[k] = s[k]
  BY <1>0, <1>1, <1>5, OneReplaced
<1> QED
  BY SMTT(30), <1>0, <1>5, <1>6, <1>7

LEMMA AppendedWellFormed ==
    ASSUME NEW s, WellFormed(s), s # <<>>, NEW i \in Records,
           NEW t \in Seq(LogSegment), Len(t) = Len(s),
           \A k \in DOMAIN s : k # Len(s) => t[k] = s[k],
           t[Len(s)].object = s[Len(s)].object, t[Len(s)].base = s[Len(s)].base,
           t[Len(s)].synced = s[Len(s)].synced, t[Len(s)].log = Append(s[Len(s)].log, i)
    PROVE  /\ WellFormed(t) /\ DOMAIN t = DOMAIN s
           /\ \A k \in DOMAIN s : /\ t[k].object = s[k].object /\ t[k].base = s[k].base
                                  /\ t[k].synced = s[k].synced
                                  /\ NextOffset(s[k]) <= NextOffset(t[k])
           /\ NextOffset(t[Len(s)]) = NextOffset(s[Len(s)]) + 1
           /\ \A y, r, o : RecordAt(s, y, r, o) => RecordAt(t, y, r, o)
           /\ \A r : OnDisk(s, r) => OnDisk(t, r)
           /\ RecordAt(t, s[Len(s)].object, i, NextOffset(s[Len(s)]) + 1)
<1>0. PICK l : l = Len(s)
  OBVIOUS
<1>1. /\ s \in Seq(LogSegment) /\ l \in DOMAIN s /\ l \in Nat /\ DOMAIN s = 1 .. l
      /\ DOMAIN t = DOMAIN s
  BY <1>0 DEF WellFormed
<1>2. \A k \in DOMAIN s : NextOffset(s[k]) \in Nat /\ s[k].synced \in Nat
  BY <1>1, SegmentFields
<1>3. PICK old, base : old = s[l].log /\ base = s[l].base
  BY Zenon
<1>4. /\ old \in Seq(Records) /\ Len(old) \in Nat /\ DOMAIN old = 1 .. Len(old)
      /\ base \in Nat /\ NextOffset(s[l]) = base + Len(old)
  BY <1>1, <1>3, SegmentFields
<1>5. /\ t[l].log = Append(old, i) /\ t[l].base = base
      /\ Len(Append(old, i)) = Len(old) + 1
      /\ DOMAIN Append(old, i) = 1 .. (Len(old) + 1)
      /\ \A j \in DOMAIN old : Append(old, i)[j] = old[j]
      /\ Append(old, i)[Len(old) + 1] = i
  BY <1>0, <1>3, <1>4
<1>6. NextOffset(t[l]) = NextOffset(s[l]) + 1
  <2>1. NextOffset(t[l]) = base + (Len(old) + 1)
    BY <1>5 DEF NextOffset
  <2>2. \A a, b \in Nat : a + (b + 1) = (a + b) + 1
    OBVIOUS
  <2> QED
    BY <1>4, <2>1, <2>2
<1>7. \A k \in DOMAIN s : /\ t[k].object = s[k].object /\ t[k].base = s[k].base
                         /\ t[k].synced = s[k].synced
  BY <1>0
<1>8. \A k \in DOMAIN s : NextOffset(s[k]) <= NextOffset(t[k])
  <2>1. \A n \in Nat : n <= n /\ n <= n + 1
    OBVIOUS
  <2> QED
    BY <1>0, <1>1, <1>2, <1>6, <2>1
<1>9. WellFormed(t)
  <2>1. ASSUME NEW k \in DOMAIN t
        PROVE  /\ k <= t[k].base + 1
               /\ t[k].base <= t[k].synced /\ t[k].synced <= NextOffset(t[k])
               /\ k < Len(t) => t[k].synced = NextOffset(t[k])
    <3>1. k # l => t[k] = s[k]
      BY <1>0, <1>1
    <3>2. k <= s[k].base + 1 /\ s[k].base <= s[k].synced /\ s[k].synced <= NextOffset(s[k])
      BY <1>1 DEF WellFormed
    <3>3. k # l /\ k < l => s[k].synced = NextOffset(s[k])
      BY <1>0, <1>1 DEF WellFormed
    <3>4. s[k].synced <= NextOffset(t[k])
      <4>1. NextOffset(t[k]) \in Nat /\ NextOffset(s[k]) \in Nat /\ s[k].synced \in Nat
        BY <1>1, <1>2, SegmentFields
      <4>2. NextOffset(s[k]) <= NextOffset(t[k])
        BY <1>1, <1>8
      <4> QED
        BY <3>2, <4>1, <4>2
    <3>5. k < l => k # l
      BY <1>1
    <3> QED
      BY <1>0, <1>1, <1>7, <3>1, <3>2, <3>3, <3>4, <3>5
  <2>2. ASSUME NEW k \in DOMAIN t, NEW m \in DOMAIN t, k < m
        PROVE  NextOffset(t[k]) <= t[m].base /\ t[k].object # t[m].object
    <3>1. k # l
      BY <1>1, <2>2
    <3>2. t[k] = s[k] /\ t[m].base = s[m].base /\ t[m].object = s[m].object
      BY <1>0, <1>1, <1>7, <3>1
    <3> QED
      BY <1>1, <2>2, <3>2 DEF WellFormed
  <2> QED
    BY <2>1, <2>2 DEF WellFormed
<1>10. \A k \in DOMAIN s : \A j \in DOMAIN s[k].log :
          j \in DOMAIN t[k].log /\ t[k].log[j] = s[k].log[j]
  <2>1. \A j \in DOMAIN old : j \in DOMAIN Append(old, i)
    BY <1>4, <1>5
  <2> QED
    BY SMTT(30), <1>0, <1>1, <1>3, <1>5, <2>1
<1>11. \A y, r, o : RecordAt(s, y, r, o) => RecordAt(t, y, r, o)
  BY <1>1, <1>7, <1>10 DEF RecordAt
<1>12. \A r : OnDisk(s, r) => OnDisk(t, r)
  BY <1>1, <1>7, <1>10 DEF OnDisk
<1>13. RecordAt(t, s[l].object, i, NextOffset(s[l]) + 1)
  <2>0. PICK j : j = Len(old) + 1
    OBVIOUS
  <2>1. j \in DOMAIN t[l].log /\ t[l].log[j] = i
    <3>1. Len(old) + 1 \in 1 .. (Len(old) + 1)
      BY <1>4
    <3> QED
      BY <1>5, <2>0, <3>1
  <2>2. t[l].base + j = NextOffset(s[l]) + 1
    <3>1. \A a, b \in Nat : a + (b + 1) = (a + b) + 1
      OBVIOUS
    <3> QED
      BY <1>4, <1>5, <2>0, <3>1
  <2> QED
    BY <1>1, <1>7, <2>1, <2>2 DEF RecordAt
<1> QED
  BY <1>0, <1>1, <1>6, <1>7, <1>8, <1>9, <1>11, <1>12, <1>13

-----------------------------------------------------------------------------
(* appendLocked, step by step: s is the log so far, c the group commits.   *)

Sound(s, c) ==
    /\ WellFormed(s) /\ WellPlaced(s) /\ s # <<>>
    /\ NextOffset(s[Len(s)]) = tailOffset /\ s[1].base = headOffset
    /\ \A p \in Publishers : WaiterHolds(s, pub[p])
    /\ \A k \in DOMAIN s : c[s[k].object].through <= s[k].synced
    /\ \A i \in acked : i \in retired \/ OnDisk(s, i)

(* A log that is not being truncated is sound.                             *)
LEMMA LogIsSound ==
    ASSUME LogInv, ~ truncation.running
    PROVE  Sound(segs, commit)
  BY DEF LogInv, Sound, EndsKnown, Active, WaitersHold, CommitsSynced, AckedOnDisk

(* A sync keeps it sound.                                                  *)
LEMMA SyncKeepsSound ==
    ASSUME LogTypeOK, NEW s, NEW t, Sound(s, commit), SameLog(s, t)
    PROVE  Sound(t, commit)
<1>1. /\ WellFormed(s) /\ WellPlaced(s) /\ s # <<>> /\ s \in Seq(LogSegment)
      /\ t \in Seq(LogSegment) /\ Len(t) = Len(s)
  BY DEF Sound, WellFormed, SameLog
<1>2. /\ WellFormed(t) /\ DOMAIN t = DOMAIN s
      /\ \A k \in DOMAIN s : NextOffset(t[k]) = NextOffset(s[k])
      /\ WellPlaced(t)
      /\ \A x, i, o : RecordAt(s, x, i, o) => RecordAt(t, x, i, o)
      /\ \A i : OnDisk(s, i) => OnDisk(t, i)
  BY <1>1, SameLogWellFormed
<1>3. \A k \in DOMAIN s : t[k].object = s[k].object /\ t[k].base = s[k].base
  BY DEF SameLog
<1>4. t # <<>> /\ NextOffset(t[Len(t)]) = tailOffset /\ t[1].base = headOffset
  <2>1. 1 \in DOMAIN s /\ Len(s) \in DOMAIN s
    BY <1>1
  <2> QED
    BY <1>1, <1>2, <1>3, <2>1 DEF Sound
<1>5. \A p \in Publishers : WaiterHolds(t, pub[p])
  BY SMTT(30), <1>2, <1>3 DEF Sound, WaiterHolds
<1>6. ASSUME NEW k \in DOMAIN t PROVE commit[t[k].object].through <= t[k].synced
  <2>1. /\ s[k].synced \in Nat /\ t[k].synced \in Nat /\ s[k].object \in Objects
    BY <1>1, <1>2, SegmentFields
  <2>2. commit[s[k].object].through \in Nat /\ commit[s[k].object].through <= s[k].synced
    BY <1>2, <2>1 DEF LogTypeOK, Sound
  <2>3. s[k].synced <= t[k].synced
    BY <1>2 DEF SameLog
  <2> QED
    BY SMTT(30), <1>2, <1>3, <2>1, <2>2, <2>3
<1>7. \A i \in acked : i \in retired \/ OnDisk(t, i)
  BY <1>2 DEF Sound
<1> QED
  BY <1>2, <1>4, <1>5, <1>6, <1>7 DEF Sound

(* So does a rotation.                                                     *)
LEMMA RotationKeepsSound ==
    ASSUME LogTypeOK, NEW s, Sound(s, commit), s[Len(s)].synced = NextOffset(s[Len(s)]),
           Len(s[Len(s)].log) > 0,
           NEW x \in Objects, \A k \in DOMAIN s : s[k].object # x,
           \A p \in Publishers : pub[p].object # x,
           NEW c, c = [commit EXCEPT ![x] = Fresh]
    PROVE  Sound(Append(s, NewSegment(x, tailOffset)), c)
<1>1. WellFormed(s) /\ WellPlaced(s) /\ s # <<>> /\ NextOffset(s[Len(s)]) = tailOffset
  BY DEF Sound
<1>2. PICK n : n = NewSegment(x, tailOffset)
  OBVIOUS
<1>a. PICK t : t = Append(s, n)
  BY Zenon
<1>3. /\ WellFormed(t) /\ Len(t) = Len(s) + 1 /\ t[Len(t)] = n
      /\ n.object = x /\ n.base = tailOffset
      /\ n.synced = n.base /\ NextOffset(n) = n.base
      /\ \A k \in DOMAIN s : k \in DOMAIN t /\ t[k] = s[k]
      /\ DOMAIN t = DOMAIN s \cup {Len(t)}
      /\ WellPlaced(t)
      /\ \A y, i, o : RecordAt(s, y, i, o) => RecordAt(t, y, i, o)
      /\ \A i : OnDisk(s, i) => OnDisk(t, i)
  BY <1>1, <1>2, <1>a, RotatedWellFormed
<1>4. 1 \in DOMAIN s /\ Len(t) \in DOMAIN t /\ t # <<>> /\ s \in Seq(LogSegment)
  BY SMTT(30), <1>1, <1>3 DEF WellFormed
<1>5. NextOffset(t[Len(t)]) = tailOffset /\ t[1].base = headOffset
  <2>1. t[1] = s[1] /\ s[1].base = headOffset
    BY <1>3, <1>4 DEF Sound
  <2> QED
    BY Zenon, <1>3, <2>1
<1>6. \A p \in Publishers : WaiterHolds(t, pub[p])
  BY <1>3 DEF Sound, WaiterHolds
<1>7. ASSUME NEW k \in DOMAIN t PROVE c[t[k].object].through <= t[k].synced
  <2>1. CASE k \in DOMAIN s
    <3>1. s[k].object # x /\ s[k].object \in Objects
      BY <1>4, <2>1, SegmentFields
    <3>2. c[s[k].object] = commit[s[k].object]
      BY <3>1 DEF LogTypeOK
    <3> QED
      BY <1>3, <2>1, <3>2 DEF Sound
  <2>2. CASE k = Len(t)
    <3>1. c[x].through = 0
      BY DEF LogTypeOK, Fresh
    <3>2. tailOffset >= 0
      BY DEF LogTypeOK
    <3> QED
      BY <1>3, <2>2, <3>1, <3>2
  <2> QED
    BY <1>3, <2>1, <2>2
<1>8. \A i \in acked : i \in retired \/ OnDisk(t, i)
  BY <1>3 DEF Sound
<1> QED
  BY <1>2, <1>a, <1>3, <1>4, <1>5, <1>6, <1>7, <1>8 DEF Sound

(* What appendLocked appends to.                                           *)
LEMMA OpenedSound ==
    ASSUME LogInv, AppendLocked
    PROVE  \E open : /\ Sound(open, commit')
                     /\ segs' = [open EXCEPT ![Len(open)].log = Append(@, accepted + 1)]
<1>0. LogTypeOK /\ WellFormed(segs) /\ EndsKnown /\ ~ truncation.running
  BY DEF LogInv, AppendLocked
<1>1. Sound(segs, commit)
  BY <1>0, LogIsSound
<1>2. PICK clean : clean = IF syncErr THEN Synced(segs) ELSE segs
  OBVIOUS
<1>3. PICK open : open = IF ShouldRotate THEN Rotated(clean) ELSE clean
  OBVIOUS
<1>4. /\ segs' = [open EXCEPT ![Len(open)].log = Append(@, accepted + 1)]
      /\ commit' = IF ShouldRotate THEN [commit EXCEPT ![FreeObject] = Fresh] ELSE commit
      /\ ShouldRotate => CanRotate
  BY <1>2, <1>3 DEF AppendLocked
<1>5. /\ Sound(clean, commit) /\ Len(clean) = Len(segs)
      /\ \A k \in DOMAIN clean : clean[k].object = segs[k].object /\ clean[k].log = segs[k].log
  <2>1. CASE syncErr
    <3>1. SameLog(segs, Synced(segs))
      BY <1>1, SyncedSameLog DEF Sound
    <3>2. Sound(Synced(segs), commit)
      BY <1>0, <1>1, <3>1, SyncKeepsSound
    <3>3. DOMAIN Synced(segs) = DOMAIN segs
      BY <1>0, <3>1, SameLogWellFormed
    <3> QED
      BY <1>2, <2>1, <3>1, <3>2, <3>3 DEF SameLog
  <2>2. CASE ~ syncErr
    BY <1>1, <1>2, <2>2
  <2> QED
    BY <2>1, <2>2
<1>6. CASE ~ ShouldRotate
  BY Zenon, <1>3, <1>4, <1>5, <1>6
<1>7. CASE ShouldRotate
  <2>0. PICK x : x = FreeObject
    OBVIOUS
  <2>1. /\ x \in Objects
        /\ \A k \in DOMAIN segs : segs[k].object # x
        /\ \A p \in Publishers : pub[p].object # x
    BY <1>7, <2>0, FreeObjectIsFree DEF AppendLocked
  <2>2. PICK sealed : sealed = Synced(clean)
    OBVIOUS
  <2>3. WellFormed(clean) /\ clean # <<>>
    BY <1>5 DEF Sound
  <2>4. SameLog(clean, sealed) /\ sealed[Len(clean)].synced = NextOffset(clean[Len(clean)])
    BY <2>2, <2>3, SyncedSameLog
  <2>5. /\ Sound(sealed, commit) /\ Len(sealed) = Len(clean) /\ DOMAIN sealed = DOMAIN clean
        /\ \A k \in DOMAIN clean : NextOffset(sealed[k]) = NextOffset(clean[k])
    BY <1>0, <1>5, <2>3, <2>4, SyncKeepsSound, SameLogWellFormed DEF SameLog
  <2>6. Len(clean) \in DOMAIN clean /\ DOMAIN clean = DOMAIN segs
    BY <1>0, <1>5, <2>3 DEF WellFormed
  <2>7. /\ sealed[Len(sealed)].synced = NextOffset(sealed[Len(sealed)])
        /\ Len(sealed[Len(sealed)].log) > 0
        /\ \A k \in DOMAIN sealed : sealed[k].object # x
    <3>1. \A k \in DOMAIN clean : sealed[k].object = clean[k].object /\ sealed[k].log = clean[k].log
      BY <2>4 DEF SameLog
    <3>2. Len(segs[Len(segs)].log) > 0
      BY <1>4, <1>7 DEF CanRotate, Active
    <3> QED
      BY <1>5, <2>1, <2>4, <2>5, <2>6, <3>1, <3>2
  <2>8. PICK rotated : rotated = Append(sealed, NewSegment(x, tailOffset))
    BY Zenon
  <2>9. PICK c : c = [commit EXCEPT ![x] = Fresh]
    BY Zenon
  <2>10. Sound(rotated, c)
    BY Zenon, <1>0, <2>1, <2>5, <2>7, <2>8, <2>9, RotationKeepsSound
  <2>11. open = rotated /\ commit' = c
    BY <1>3, <1>4, <1>7, <2>0, <2>2, <2>8, <2>9 DEF Rotated
  <2> QED
    BY Zenon, <1>4, <2>10, <2>11
<1> QED
  BY <1>6, <1>7

(* appendLocked leaves everything but the publisher as it should be.       *)
LEMMA AppendKeepsLog ==
    ASSUME LogInv, AppendLocked
    PROVE  /\ headOffset' \in Nat /\ tailOffset' \in Nat /\ syncErr' \in BOOLEAN
           /\ commit' \in [Objects -> [through : Nat, leader : Publishers \cup {NoOne}]]
           /\ UNCHANGED truncation /\ accepted' \in 0 .. MaxRecords /\ accepted' >= 1
           /\ place' \in [Records -> Nat]
           /\ WellFormed(segs') /\ WellPlaced(segs)' /\ EndsKnown' /\ DoomedFirst'
           /\ CommitsSynced' /\ AckedOnDisk'
           /\ \A p \in Publishers : WaiterHolds(segs', pub[p])
           /\ segs'[Len(segs')].object \in Objects
           /\ RecordAt(segs', segs'[Len(segs')].object, accepted', tailOffset')
<1>0. LogTypeOK /\ WellFormed(segs) /\ EndsKnown /\ ~ truncation.running /\ DoomedFirst
  BY DEF LogInv, AppendLocked
<1>1. PICK s : /\ Sound(s, commit')
               /\ segs' = [s EXCEPT ![Len(s)].log = Append(@, accepted + 1)]
  BY OpenedSound
<1>2. PICK i : i = accepted + 1
  OBVIOUS
<1>3. /\ i \in Records /\ accepted \in Nat /\ tailOffset \in Nat /\ headOffset \in Nat
      /\ accepted' = i /\ tailOffset' = tailOffset + 1 /\ headOffset' = headOffset
      /\ place' = [place EXCEPT ![i] = tailOffset]
      /\ UNCHANGED <<truncation, acked, retired>>
      /\ tailOffset' \in Nat /\ accepted' \in 0 .. MaxRecords /\ accepted' >= 1
      /\ place' \in [Records -> Nat] /\ syncErr' \in BOOLEAN
  <2>1. /\ accepted \in 0 .. MaxRecords /\ tailOffset \in Nat /\ headOffset \in Nat
        /\ place \in [Records -> Nat]
    BY <1>0 DEF LogTypeOK
  <2>2. /\ accepted < MaxRecords /\ accepted' = accepted + 1 /\ tailOffset' = tailOffset + 1
        /\ headOffset' = headOffset /\ place' = [place EXCEPT ![accepted + 1] = tailOffset]
        /\ truncation' = truncation /\ acked' = acked /\ retired' = retired
        /\ syncErr' = FALSE
    BY DEF AppendLocked
  <2>3. MaxRecords \in Nat
    BY SegmentLogAssumption
  <2>4. /\ i \in Records /\ accepted \in Nat /\ i \in 0 .. MaxRecords /\ i >= 1
        /\ tailOffset + 1 \in Nat
    BY <1>2, <2>1, <2>2, <2>3 DEF Records
  <2>5. /\ place' = [place EXCEPT ![i] = tailOffset] /\ place' \in [Records -> Nat]
    BY <1>2, <2>1, <2>2, <2>4
  <2> QED
    BY Zenon, <1>2, <2>1, <2>2, <2>4, <2>5
<1>4. /\ WellFormed(s) /\ WellPlaced(s) /\ s # <<>> /\ s \in Seq(LogSegment)
      /\ NextOffset(s[Len(s)]) = tailOffset /\ s[1].base = headOffset
      /\ \A p \in Publishers : WaiterHolds(s, pub[p])
      /\ \A k \in DOMAIN s : commit'[s[k].object].through <= s[k].synced
      /\ \A r \in acked : r \in retired \/ OnDisk(s, r)
  BY <1>1 DEF Sound, WellFormed
<1>5. PICK t : t = segs'
  OBVIOUS
<1>6. PICK l : l = Len(s)
  BY Zenon
<1>7. /\ t \in Seq(LogSegment) /\ Len(t) = l /\ DOMAIN t = DOMAIN s
      /\ \A k \in DOMAIN s : k # l => t[k] = s[k]
      /\ t[l].object = s[l].object /\ t[l].base = s[l].base
      /\ t[l].synced = s[l].synced /\ t[l].log = Append(s[l].log, i)
  <2>1. t = [s EXCEPT ![Len(s)].log = Append(@, i)]
    BY <1>1, <1>2, <1>5
  <2> QED
    BY SMTT(30), <1>3, <1>4, <1>6, <2>1, AppendedFields
<1>8. /\ WellFormed(t)
      /\ \A k \in DOMAIN s : /\ t[k].object = s[k].object /\ t[k].base = s[k].base
                             /\ t[k].synced = s[k].synced
                             /\ NextOffset(s[k]) <= NextOffset(t[k])
      /\ NextOffset(t[l]) = NextOffset(s[l]) + 1
      /\ \A y, r, o : RecordAt(s, y, r, o) => RecordAt(t, y, r, o)
      /\ \A r : OnDisk(s, r) => OnDisk(t, r)
      /\ RecordAt(t, s[l].object, i, NextOffset(s[l]) + 1)
  <2>1. /\ Len(t) = Len(s) /\ \A k \in DOMAIN s : k # Len(s) => t[k] = s[k]
        /\ t[Len(s)].object = s[Len(s)].object /\ t[Len(s)].base = s[Len(s)].base
        /\ t[Len(s)].synced = s[Len(s)].synced /\ t[Len(s)].log = Append(s[Len(s)].log, i)
    BY <1>6, <1>7
  <2>2. i \in Records /\ t \in Seq(LogSegment) /\ WellFormed(s) /\ s # <<>>
    BY <1>3, <1>4, <1>7
  <2>3. /\ WellFormed(t)
        /\ \A k \in DOMAIN s : /\ t[k].object = s[k].object /\ t[k].base = s[k].base
                               /\ t[k].synced = s[k].synced
                               /\ NextOffset(s[k]) <= NextOffset(t[k])
        /\ NextOffset(t[Len(s)]) = NextOffset(s[Len(s)]) + 1
        /\ \A y, r, o : RecordAt(s, y, r, o) => RecordAt(t, y, r, o)
        /\ \A r : OnDisk(s, r) => OnDisk(t, r)
        /\ RecordAt(t, s[Len(s)].object, i, NextOffset(s[Len(s)]) + 1)
    BY SMTT(30), <2>1, <2>2, AppendedWellFormed
  <2> QED
    BY <1>6, <2>3
<1>9. /\ l \in DOMAIN s /\ 1 \in DOMAIN s /\ t # <<>> /\ t[l].object \in Objects
  <2>1. l \in DOMAIN s /\ 1 \in DOMAIN s
    BY <1>4, <1>6
  <2> QED
    BY <1>7, <2>1, SegmentFields
<1>10. commit' \in [Objects -> [through : Nat, leader : Publishers \cup {NoOne}]]
  <2>1. /\ ShouldRotate => FreeObject \in Objects
        /\ Fresh \in [through : Nat, leader : Publishers \cup {NoOne}]
    BY FreeObjectIsFree DEF AppendLocked, Fresh
  <2> QED
    BY <1>0, <2>1 DEF AppendLocked, LogTypeOK
<1>11. WellPlaced(segs)'
  <2>1. ASSUME NEW k \in DOMAIN t, NEW j \in DOMAIN t[k].log
        PROVE  t[k].log[j] <= i /\ place'[t[k].log[j]] + 1 = t[k].base + j
    <3>1. CASE j \in DOMAIN s[k].log /\ t[k].log[j] = s[k].log[j]
      <4>1. s[k].log[j] <= accepted /\ place[s[k].log[j]] + 1 = s[k].base + j
        BY <1>4, <1>7, <3>1 DEF WellPlaced
      <4>2. s[k].log[j] \in Records
        BY <1>4, <1>7, <3>1, SegmentFields
      <4>3. s[k].log[j] <= i /\ s[k].log[j] # i
        BY <1>2, <1>3, <4>1, <4>2 DEF Records
      <4>4. place'[s[k].log[j]] = place[s[k].log[j]]
        BY <1>0, <1>3, <4>2, <4>3 DEF LogTypeOK
      <4> QED
        BY <1>7, <1>8, <3>1, <4>1, <4>3, <4>4
    <3>2. CASE ~ (j \in DOMAIN s[k].log /\ t[k].log[j] = s[k].log[j])
      <4>1. k = l
        BY <1>7, <3>2
      <4>2. PICK old : old = s[l].log
        OBVIOUS
      <4>3. /\ old \in Seq(Records) /\ Len(old) \in Nat /\ DOMAIN old = 1 .. Len(old)
            /\ s[l].base \in Nat /\ tailOffset = s[l].base + Len(old)
        BY <1>4, <1>6, <1>9, <4>2, SegmentFields
      <4>4. j = Len(old) + 1 /\ t[k].log[j] = i
        <5>1. /\ DOMAIN Append(old, i) = 1 .. (Len(old) + 1)
              /\ \A n \in DOMAIN old : Append(old, i)[n] = old[n]
              /\ Append(old, i)[Len(old) + 1] = i
          BY <4>3
        <5>2. t[k].log = Append(old, i)
          BY <1>7, <4>1, <4>2
        <5>3. j \in DOMAIN old \/ j = Len(old) + 1
          BY <4>3, <5>1, <5>2
        <5> QED
          BY <3>2, <4>1, <4>2, <5>1, <5>2, <5>3
      <4>5. place'[i] = tailOffset
        BY <1>0, <1>3 DEF LogTypeOK
      <4>6. tailOffset + 1 = s[l].base + (Len(old) + 1)
        BY <4>3
      <4>7. i <= i
        BY <1>2, <1>3
      <4> QED
        BY <1>7, <4>1, <4>4, <4>5, <4>6, <4>7
    <3> QED
      BY SMTT(30), <3>1, <3>2
  <2> QED
    BY <1>3, <1>5, <2>1 DEF WellPlaced
<1>12. EndsKnown'
  <2>1. NextOffset(t[l]) = tailOffset + 1
    BY <1>4, <1>6, <1>8
  <2>2. tailOffset + 1 <= accepted + 1
    BY <1>0, <1>3 DEF EndsKnown
  <2>3. t[1].base = headOffset
    BY <1>4, <1>8, <1>9
  <2> QED
    BY <1>2, <1>3, <1>5, <1>7, <1>9, <2>1, <2>2, <2>3 DEF EndsKnown, Active, NextOffset
<1>13. DoomedFirst'
  <2>1. truncation.doomed = {} /\ truncation.before <= tailOffset /\ truncation.before \in Nat
    BY <1>0 DEF DoomedFirst, LogTypeOK
  <2>2. truncation.before <= tailOffset + 1
    BY SMTT(30), <1>3, <2>1
  <2> QED
    BY <1>3, <2>1, <2>2 DEF DoomedFirst
<1>14. CommitsSynced'
  <2>1. \A k \in DOMAIN t : commit'[t[k].object].through <= t[k].synced
    BY <1>4, <1>7, <1>8
  <2> QED
    BY Zenon, <1>5, <2>1 DEF CommitsSynced
<1>15. AckedOnDisk'
  BY <1>3, <1>4, <1>5, <1>8 DEF AckedOnDisk
<1>16. ASSUME NEW p \in Publishers PROVE WaiterHolds(t, pub[p])
  <2>1. WaiterHolds(s, pub[p])
    BY <1>4
  <2>2. ASSUME pub[p].pc = "fsync", NEW k \in DOMAIN t, t[k].object = pub[p].object
        PROVE  pub[p].covered <= NextOffset(t[k])
    <3>1. pub[p].covered <= NextOffset(s[k])
      BY Zenon, <1>7, <1>8, <2>1, <2>2 DEF WaiterHolds
    <3>2. NextOffset(s[k]) \in Nat /\ NextOffset(t[k]) \in Nat
      <4>1. k \in DOMAIN s
        BY Zenon, <1>7
      <4> QED
        BY Zenon, <1>4, <1>7, <4>1, SegmentFields
    <3>3. pub[p].covered \in Nat /\ NextOffset(s[k]) <= NextOffset(t[k])
      BY <1>0, <1>7, <1>8 DEF LogTypeOK
    <3> QED
      BY SMTT(30), <3>1, <3>2, <3>3
  <2> QED
    BY Zenon, <1>7, <1>8, <2>1, <2>2 DEF WaiterHolds
<1>17. RecordAt(t, t[l].object, i, tailOffset')
  BY <1>3, <1>4, <1>6, <1>7, <1>8
<1> QED
  BY <1>3, <1>5, <1>7, <1>8, <1>9, <1>10, <1>11, <1>12, <1>13, <1>14, <1>15, <1>16, <1>17

-----------------------------------------------------------------------------
(* Appends.                                                                *)

LEMMA KeptByAppendBuffered ==
    ASSUME LogInv, AppendBuffered PROVE LogInv'
<1>1. AppendLocked /\ pub' = pub /\ retired' = retired
  BY DEF AppendBuffered, AppendLocked
<1>2. LogTypeOK
  BY DEF LogInv
<1>3. LogTypeOK'
  BY <1>1, <1>2, AppendKeepsLog DEF LogTypeOK
<1>4. WaitersHold'
  BY <1>1, AppendKeepsLog DEF WaitersHold, WaiterHolds
<1> QED
  BY <1>1, <1>3, <1>4, AppendKeepsLog DEF LogInv

LEMMA KeptByAppendDurable ==
    ASSUME LogInv, NEW p \in Publishers, AppendDurable(p) PROVE LogInv'
<1>1. AppendLocked /\ retired' = retired
  BY DEF AppendDurable, AppendLocked
<1>2. PICK w : w = [pc |-> "barrier", object |-> segs'[Len(segs')].object,
                   through |-> tailOffset', covered |-> 0, record |-> accepted']
  BY Zenon
<1>3. pub' = [pub EXCEPT ![p] = w]
  BY SMTT(30), <1>2 DEF AppendDurable
<1>4. /\ w.pc = "barrier" /\ w.object = segs'[Len(segs')].object
      /\ w.through = tailOffset' /\ w.record = accepted'
      /\ w \in [pc : {"idle", "barrier", "fsync"}, object : Objects \cup {0},
                through : Nat, covered : Nat, record : 0 .. MaxRecords]
  BY <1>1, <1>2, AppendKeepsLog
<1>5. LogTypeOK
  BY SMTT(30) DEF LogInv
<1>6. LogTypeOK'
  <2>1. pub' \in [Publishers -> [pc : {"idle", "barrier", "fsync"}, object : Objects \cup {0},
                              through : Nat, covered : Nat, record : 0 .. MaxRecords]]
    BY <1>3, <1>4, <1>5 DEF LogTypeOK
  <2> QED
    BY Zenon, <1>1, <1>5, <2>1, AppendKeepsLog DEF LogTypeOK
<1>7. WaitersHold'
  <2>1. WaiterHolds(segs', w)
    BY Zenon, <1>1, <1>4, AppendKeepsLog DEF WaiterHolds
  <2>2. \A q \in Publishers : pub'[q] = w \/ pub'[q] = pub[q]
    BY <1>3, <1>5 DEF LogTypeOK
  <2>3. ASSUME NEW q \in Publishers PROVE WaiterHolds(segs', pub'[q])
    BY <1>1, <2>1, <2>2, AppendKeepsLog
  <2> QED
    BY <1>1, <2>3 DEF WaitersHold, WaiterHolds
<1> QED
  BY <1>1, <1>6, <1>7, AppendKeepsLog DEF LogInv

-----------------------------------------------------------------------------
(* Syncs.                                                                  *)

(* A step that moves no record keeps what is known of the log.             *)
LEMMA SameLogKept ==
    ASSUME LogInv, SameLog(segs, segs'),
           UNCHANGED <<headOffset, tailOffset, truncation, accepted, place, acked, retired>>
    PROVE  /\ WellFormed(segs') /\ WellPlaced(segs)' /\ EndsKnown' /\ DoomedFirst'
           /\ AckedOnDisk' /\ DOMAIN segs' = DOMAIN segs
           /\ \A p \in Publishers : WaiterHolds(segs', pub[p])
           /\ \A k \in DOMAIN segs : NextOffset(segs'[k]) = NextOffset(segs[k])
<1>1. PICK t : t = segs'
  OBVIOUS
<1>2. /\ WellFormed(segs) /\ WellPlaced(segs) /\ SameLog(segs, t)
      /\ segs \in Seq(LogSegment) /\ t \in Seq(LogSegment)
  BY Zenon, <1>1 DEF LogInv, WellFormed, SameLog
<1>3. /\ WellFormed(t) /\ DOMAIN t = DOMAIN segs /\ WellPlaced(t)
      /\ \A k \in DOMAIN segs : NextOffset(t[k]) = NextOffset(segs[k])
      /\ \A x, i, o : RecordAt(segs, x, i, o) => RecordAt(t, x, i, o)
      /\ \A i : OnDisk(segs, i) => OnDisk(t, i)
  BY <1>2, SameLogWellFormed
<1>4. /\ Len(t) = Len(segs)
      /\ \A k \in DOMAIN segs : t[k].object = segs[k].object /\ t[k].base = segs[k].base
  BY SMTT(30), <1>2 DEF SameLog
<1>5. WellPlaced(segs)'
  BY <1>1, <1>3 DEF WellPlaced
<1>6. EndsKnown'
  <2>1. (t # <<>>) = (segs # <<>>)
    BY <1>2, <1>4
  <2>2. segs # <<>> => Len(segs) \in DOMAIN segs /\ 1 \in DOMAIN segs
    BY <1>2
  <2>3. t # <<>> => tailOffset = NextOffset(t[Len(t)])
    <3>1. EndsKnown
      BY DEF LogInv
    <3> QED
      BY <1>3, <1>4, <2>1, <2>2, <3>1 DEF EndsKnown, Active
  <2>4. ~ truncation.running => t # <<>> /\ headOffset = t[1].base
    <3>1. EndsKnown
      BY DEF LogInv
    <3> QED
      BY <1>4, <2>1, <2>2, <3>1 DEF EndsKnown
  <2>5. tailOffset <= accepted
    BY SMTT(30) DEF LogInv, EndsKnown
  <2> QED
    BY <1>1, <2>3, <2>4, <2>5 DEF EndsKnown, Active, NextOffset
<1>7. DoomedFirst'
  <2>1. DoomedFirst
    BY DEF LogInv
  <2> QED
    BY SMTT(30), <1>1, <1>3, <1>4, <2>1 DEF DoomedFirst
<1>8. AckedOnDisk'
  <2>1. AckedOnDisk
    BY DEF LogInv
  <2> QED
    BY <1>1, <1>3, <2>1 DEF AckedOnDisk
<1>9. ASSUME NEW p \in Publishers PROVE WaiterHolds(t, pub[p])
  <2>1. WaiterHolds(segs, pub[p])
    BY DEF LogInv, WaitersHold
  <2> QED
    BY Zenon, <1>3, <1>4, <2>1 DEF WaiterHolds
<1> QED
  BY <1>1, <1>3, <1>5, <1>6, <1>7, <1>8, <1>9

(* So does one that touches neither group commits nor publishers.          *)
LEMMA SameLogStep ==
    ASSUME LogInv, SameLog(segs, segs'), syncErr' \in BOOLEAN,
           UNCHANGED <<headOffset, tailOffset, commit, pub, truncation,
                       accepted, place, acked, retired>>
    PROVE  LogInv'
<1>1. LogTypeOK /\ CommitsSynced /\ WellFormed(segs) /\ segs \in Seq(LogSegment)
  BY DEF LogInv, WellFormed
<1>2. LogTypeOK'
  BY SMTT(30), <1>1 DEF LogTypeOK
<1>3. WaitersHold'
  <2>1. \A p \in Publishers : WaiterHolds(segs', pub[p])
    BY SameLogKept
  <2>2. pub' = pub /\ retired' = retired
    OBVIOUS
  <2> QED
    BY Zenon, <2>1, <2>2 DEF WaitersHold, WaiterHolds
<1>4. CommitsSynced'
  <2> SUFFICES ASSUME NEW k \in DOMAIN segs
               PROVE  commit[segs'[k].object].through <= segs'[k].synced
    BY SameLogKept DEF CommitsSynced
  <2>1. /\ segs'[k].object = segs[k].object /\ segs[k].synced <= segs'[k].synced
        /\ segs' \in Seq(LogSegment) /\ k \in DOMAIN segs'
    BY SameLogKept DEF SameLog
  <2>2. commit[segs[k].object].through <= segs[k].synced
    BY SMTT(30), <1>1 DEF CommitsSynced
  <2>3. segs[k].object \in Objects /\ segs[k].synced \in Nat
    BY <1>1, SegmentFields
  <2>4. segs'[k].synced \in Nat
    BY <2>1, SegmentFields
  <2>5. commit[segs[k].object].through \in Nat
    BY <1>1, <2>3 DEF LogTypeOK
  <2> QED
    BY <2>1, <2>2, <2>3, <2>4, <2>5
<1> QED
  BY <1>2, <1>3, <1>4, SameLogKept DEF LogInv

LEMMA KeptByExpire ==
    ASSUME LogInv, Expire PROVE LogInv'
<1>1. WellFormed(segs) /\ segs # <<>> /\ segs \in Seq(LogSegment)
  BY DEF LogInv, Expire, WellFormed
<1>2. PICK l : l = Len(segs)
  BY Zenon
<1>3. l \in DOMAIN segs
  BY <1>1, <1>2
<1>4. segs[l] \in LogSegment
  BY <1>1, <1>3
<1>5. PICK u : u = [segs[l] EXCEPT !.expired = TRUE]
  BY Zenon
<1>6. /\ u \in LogSegment /\ u.object = segs[l].object /\ u.base = segs[l].base
      /\ u.log = segs[l].log /\ u.synced = segs[l].synced
  BY Zenon, <1>4, <1>5 DEF LogSegment
<1>7. segs' = [segs EXCEPT ![l] = u]
  BY <1>2, <1>3, <1>5 DEF Expire
<1>8. /\ segs' \in Seq(LogSegment) /\ Len(segs') = Len(segs) /\ segs'[l] = u
      /\ \A k \in DOMAIN segs : k # l => segs'[k] = segs[k]
  BY <1>1, <1>3, <1>6, <1>7
<1>9. \A k \in DOMAIN segs : segs[k].synced \in Nat /\ segs[k].synced <= NextOffset(segs[k])
  BY <1>1, SegmentFields DEF WellFormed
<1>10. SameLog(segs, segs')
  BY <1>6, <1>8, <1>9 DEF SameLog
<1>11. syncErr' \in BOOLEAN
  BY DEF Expire, LogInv, LogTypeOK
<1> QED
  BY <1>10, <1>11, SameLogStep DEF Expire

LEMMA KeptBySync ==
    ASSUME LogInv, NEW ok \in BOOLEAN, Sync(ok) PROVE LogInv'
<1>1. WellFormed(segs) /\ segs # <<>> /\ segs \in Seq(LogSegment)
  BY DEF LogInv, Sync, EndsKnown, WellFormed
<1>2. \A k \in DOMAIN segs : segs[k].synced \in Nat /\ segs[k].synced <= NextOffset(segs[k])
  BY <1>1, SegmentFields DEF WellFormed
<1>3. SameLog(segs, segs)
  BY <1>1, <1>2 DEF SameLog
<1>4. SameLog(segs, segs')
  BY <1>1, <1>3, SyncedSameLog DEF Sync
<1> QED
  BY <1>4, SameLogStep DEF Sync

(* An fsync covers what was in the segment when it began, and the commit   *)
(* claims no more than that.                                               *)
LEMMA KeptByFsyncSucceeds ==
    ASSUME LogInv, NEW p \in Publishers, FsyncSucceeds(p) PROVE LogInv'
<1>1. /\ LogTypeOK /\ WellFormed(segs) /\ segs \in Seq(LogSegment) /\ CommitsSynced
      /\ WaiterHolds(segs, pub[p])
  BY DEF LogInv, WellFormed, WaitersHold
<1>2. PICK x : x = pub[p].object
  OBVIOUS
<1>3. PICK c : c = pub[p].covered
  OBVIOUS
<1>4. PICK old : old = commit[x]
  OBVIOUS
<1>5. /\ c \in Nat /\ x \in Objects /\ old.through \in Nat
      /\ \A k \in DOMAIN segs : segs[k].object = x => c <= NextOffset(segs[k])
  <2>1. pub[p].pc = "fsync"
    BY SMTT(30) DEF FsyncSucceeds
  <2>2. c \in Nat /\ x \in Objects
    BY <1>1, <1>2, <1>3, <2>1 DEF LogTypeOK, WaiterHolds
  <2>3. old.through \in Nat
    BY <1>1, <1>4, <2>2 DEF LogTypeOK
  <2> QED
    BY <1>1, <1>2, <1>3, <2>1, <2>2, <2>3 DEF WaiterHolds
<1>6. segs' = [k \in DOMAIN segs |->
                  IF segs[k].object = x /\ segs[k].synced < c
                  THEN [segs[k] EXCEPT !.synced = c] ELSE segs[k]]
  <2>1. \A k \in DOMAIN segs : k \in SegmentOf(p) <=> segs[k].object = x
    BY <1>2 DEF SegmentOf
  <2> QED
    BY <1>3, <2>1 DEF FsyncSucceeds
<1>7. ASSUME NEW k \in DOMAIN segs
      PROVE  /\ segs'[k] \in LogSegment
             /\ segs'[k].object = segs[k].object /\ segs'[k].base = segs[k].base
             /\ segs'[k].log = segs[k].log
             /\ segs[k].synced <= segs'[k].synced /\ segs'[k].synced <= NextOffset(segs[k])
             /\ segs[k].object = x => c <= segs'[k].synced
  <2>1. /\ segs[k] \in LogSegment /\ segs[k].synced \in Nat /\ NextOffset(segs[k]) \in Nat
        /\ segs[k].synced <= NextOffset(segs[k])
    BY <1>1, SegmentFields DEF WellFormed
  <2>2. CASE segs[k].object = x /\ segs[k].synced < c
    <3>1. segs'[k] = [segs[k] EXCEPT !.synced = c]
      BY <1>6, <2>2
    <3>2. /\ segs'[k] \in LogSegment /\ segs'[k].object = segs[k].object
          /\ segs'[k].base = segs[k].base /\ segs'[k].log = segs[k].log /\ segs'[k].synced = c
      BY <1>5, <2>1, <3>1 DEF LogSegment
    <3> QED
      BY <1>5, <2>1, <2>2, <3>2
  <2>3. CASE ~ (segs[k].object = x /\ segs[k].synced < c)
    <3>1. segs'[k] = segs[k]
      BY <1>6, <2>3
    <3> QED
      BY <1>5, <2>1, <2>3, <3>1
  <2> QED
    BY SMTT(30), <2>2, <2>3
<1>8. SameLog(segs, segs')
  <2>1. segs' \in Seq(LogSegment) /\ Len(segs') = Len(segs)
    <3>1. Len(segs) \in Nat /\ DOMAIN segs = 1 .. Len(segs)
      BY <1>1
    <3>2. segs' \in [1 .. Len(segs) -> LogSegment]
      BY <1>6, <1>7, <3>1
    <3> QED
      BY <3>1, <3>2
  <2> QED
    BY <1>7, <2>1 DEF SameLog
<1>9. UNCHANGED <<headOffset, tailOffset, truncation, accepted, place, acked, retired>>
  BY DEF FsyncSucceeds
<1>10. PICK new : new = [through |-> IF c > old.through THEN c ELSE old.through,
                         leader |-> NoOne]
  BY Zenon
<1>11. /\ new \in [through : Nat, leader : Publishers \cup {NoOne}]
       /\ new.through = c \/ new.through = old.through
  BY <1>5, <1>10
<1>12. commit' = [commit EXCEPT ![x] = new]
  BY <1>1, <1>2, <1>3, <1>4, <1>5, <1>10 DEF FsyncSucceeds, LogTypeOK
<1>13. pub' = [pub EXCEPT ![p].pc = "barrier"]
  BY DEF FsyncSucceeds
<1>14. LogTypeOK'
  <2>1. commit' \in [Objects -> [through : Nat, leader : Publishers \cup {NoOne}]]
    BY <1>1, <1>5, <1>11, <1>12 DEF LogTypeOK
  <2>2. pub' \in [Publishers -> [pc : {"idle", "barrier", "fsync"}, object : Objects \cup {0},
                              through : Nat, covered : Nat, record : 0 .. MaxRecords]]
    BY ZenonT(30), <1>1, <1>13 DEF LogTypeOK
  <2>3. syncErr' = syncErr
    BY DEF FsyncSucceeds
  <2> QED
    BY <1>1, <1>9, <2>1, <2>2, <2>3 DEF LogTypeOK
<1>15. WaitersHold'
  <2> SUFFICES ASSUME NEW q \in Publishers PROVE WaiterHolds(segs, pub[q])'
    BY DEF WaitersHold
  <2>1. WaiterHolds(segs', pub[q])
    BY Zenon, <1>8, <1>9, SameLogKept
  <2>2. /\ pub'[q].object = pub[q].object /\ pub'[q].record = pub[q].record
        /\ pub'[q].through = pub[q].through /\ pub'[q].covered = pub[q].covered
        /\ q # p => pub'[q].pc = pub[q].pc
        /\ pub'[p].pc = "barrier" /\ pub[p].pc = "fsync"
    BY <1>1, <1>13 DEF LogTypeOK, FsyncSucceeds
  <2> QED
    BY <1>9, <2>1, <2>2 DEF WaiterHolds
<1>16. CommitsSynced'
  <2> SUFFICES ASSUME NEW k \in DOMAIN segs
               PROVE  commit'[segs'[k].object].through <= segs'[k].synced
    BY Zenon, <1>8, <1>9, SameLogKept DEF CommitsSynced
  <2>1. /\ segs[k].synced <= segs'[k].synced
        /\ segs[k].object = x => c <= segs'[k].synced
        /\ segs'[k].object = segs[k].object
    BY SMTT(30), <1>7
  <2>2. commit[segs[k].object].through <= segs[k].synced
    BY SMTT(30), <1>1 DEF CommitsSynced
  <2>3. segs[k].object \in Objects /\ segs[k].synced \in Nat
    BY Zenon, <1>1, SegmentFields
  <2>4. segs'[k].synced \in Nat
    BY <1>7 DEF LogSegment
  <2>5. commit[segs[k].object].through \in Nat
    BY <1>1, <2>3 DEF LogTypeOK
  <2>6. CASE segs[k].object = x
    <3>1. commit'[x] = new
      BY <1>1, <1>5, <1>12 DEF LogTypeOK
    <3>2. old.through <= segs'[k].synced
      BY <1>4, <2>1, <2>2, <2>3, <2>4, <2>5, <2>6
    <3> QED
      BY <1>11, <2>1, <2>6, <3>1, <3>2
  <2>7. CASE segs[k].object # x
    <3>1. commit'[segs[k].object] = commit[segs[k].object]
      BY <1>1, <1>12, <2>3, <2>7 DEF LogTypeOK
    <3> QED
      BY <2>1, <2>2, <2>3, <2>4, <2>5, <3>1
  <2> QED
    BY SMTT(30), <2>6, <2>7
<1> QED
  BY SMTT(30), <1>8, <1>9, <1>14, <1>15, <1>16, SameLogKept DEF LogInv
=============================================================================
