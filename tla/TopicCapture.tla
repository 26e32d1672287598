---------------------------- MODULE TopicCapture ----------------------------
(***************************************************************************)
(* Capture of ordinary publishes into queues (queue/capture.go): a publish *)
(* hands one job per matching queue, and one for the forward to other      *)
(* nodes, to the lane of that queue; a worker per lane writes them to the  *)
(* queue store.  Enqueueing never blocks, and a stalled store must not     *)
(* hold up shutdown: Stop waits for the workers no longer than the drain   *)
(* timeout, and what a worker may still be using stays open.               *)
(*                                                                         *)
(* A worker inside the store is one that has taken a job and not finished  *)
(* it; nothing obliges it to finish.  The drop counter is the set of jobs  *)
(* it was raised for.                                                      *)
(***************************************************************************)
EXTENDS Naturals, Sequences, Functions

CONSTANTS
    Publishes,       \* how many publishes there are
    CapturedQueues,  \* the queues that match the topic
    LaneOf,          \* queue -> its lane (the hash of its name)
    LaneDepth        \* CaptureQueueDepth

ASSUME CaptureAssumption == Publishes \in Nat /\ "peers" \notin CapturedQueues

VARIABLES
    publisher,    \* publish -> jobs it has still to hand over, and where it is
    accepting,    \* publishes that hold closedMu for reading
    closed,       \* the dispatcher refuses jobs
    lanes,        \* lane -> jobs in its channel
    worker,       \* lane -> what its worker is doing
    stopper,      \* where Manager.Stop is
    resources,    \* the store, the cluster and the Raft coordinator: "open" or "closed"
    discarded,    \* jobs the drop counter was raised for
    failed,       \* jobs the failure counter was raised for
    logged,       \* queue -> publishes in its log
    forwarded     \* publishes whose forward was run

captureVars == <<publisher, accepting, closed, lanes, worker, stopper, resources, discarded, failed,
                 logged, forwarded>>

(***************************************************************************)
(* A job is a publish and its target; "peers" is the job with no target.   *)
(***************************************************************************)
CaptureTargets == CapturedQueues \cup {"peers"}
Lanes == {LaneOf[q] : q \in CapturedQueues} \cup {1}
Job(p, t) == [publish |-> p, target |-> t]

\* laneFor: the cluster forward rides the first lane.
LaneFor(job) == IF job.target = "peers" THEN 1 ELSE LaneOf[job.target]

Working(l) == worker[l].pc \in {"apply", "drainApply"}

(***************************************************************************)
(* PublishToMatchingQueues.  Resolving the targets may lose some of them,  *)
(* or fail; each loss is counted.                                          *)
(***************************************************************************)
PublishToMatchingQueues(p) ==
    /\ publisher[p].pc = "idle"
    /\ \E lost \in SUBSET CapturedQueues :
          /\ failed' = failed \cup {Job(p, q) : q \in lost}
          /\ publisher' = [publisher EXCEPT ![p] =
                 [pc |-> "next",
                  jobs |-> IF lost = CapturedQueues THEN {}
                           ELSE {Job(p, t) : t \in CaptureTargets \ lost}]]
    /\ UNCHANGED <<accepting, closed, lanes, worker, stopper, resources, discarded, logged,
                   forwarded>>

\* Mutant: the lock is not held while the job is sent.
EnqueueUnlocked(p) ==
    /\ publisher[p].pc = "next" /\ publisher[p].jobs # {}
    /\ publisher' = [publisher EXCEPT ![p].pc = IF closed THEN "refused" ELSE "send"]
    /\ UNCHANGED <<accepting, closed, lanes, worker, stopper, resources, discarded, failed, logged,
                   forwarded>>

\* enqueue: closedMu is held for reading from the check to the send.
Enqueue(p) ==
    /\ publisher[p].pc = "next" /\ publisher[p].jobs # {}
    /\ accepting' = accepting \cup {p}
    /\ publisher' = [publisher EXCEPT ![p].pc = IF closed THEN "refused" ELSE "send"]
    /\ UNCHANGED <<closed, lanes, worker, stopper, resources, discarded, failed, logged, forwarded>>

\* Targets are queues before the forward, in the order the store names them.
NextJob(p) == CHOOSE j \in publisher[p].jobs :
                  j.target = "peers" => publisher[p].jobs = {j}

Handed(p) == [publisher EXCEPT ![p] = [pc |-> "next", jobs |-> @.jobs \ {NextJob(p)}]]

\* The send of enqueue: a full lane drops the job.
EnqueueSend(p) ==
    /\ publisher[p].pc = "send"
    /\ IF Len(lanes[LaneFor(NextJob(p))]) < LaneDepth
       THEN /\ lanes' = [lanes EXCEPT ![LaneFor(NextJob(p))] = Append(@, NextJob(p))]
            /\ UNCHANGED discarded
       ELSE discarded' = discarded \cup {NextJob(p)} /\ UNCHANGED lanes
    /\ accepting' = accepting \ {p}
    /\ publisher' = Handed(p)
    /\ UNCHANGED <<closed, worker, stopper, resources, failed, logged, forwarded>>

EnqueueRefused(p) ==
    /\ publisher[p].pc = "refused"
    /\ discarded' = discarded \cup {NextJob(p)}
    /\ accepting' = accepting \ {p}
    /\ publisher' = Handed(p)
    /\ UNCHANGED <<closed, lanes, worker, stopper, resources, failed, logged, forwarded>>

(***************************************************************************)
(* The worker of a lane: run and drain.                                    *)
(***************************************************************************)
IdleWorker == [pc |-> "run", job |-> Job(0, "peers")]

Stopping == stopper \notin {"running", "closing"}

TakeJob(l, pc) ==
    /\ lanes[l] # <<>>
    /\ lanes' = [lanes EXCEPT ![l] = Tail(@)]
    /\ worker' = [worker EXCEPT ![l] = [pc |-> pc, job |-> Head(lanes[l])]]
    /\ UNCHANGED <<publisher, accepting, closed, stopper, resources, discarded, failed, logged,
                   forwarded>>

RunReceives(l) == worker[l].pc = "run" /\ TakeJob(l, "apply")

\* select takes either branch when both are ready.
RunStops(l) ==
    /\ worker[l].pc = "run" /\ Stopping
    /\ worker' = [worker EXCEPT ![l] = [@ EXCEPT !.pc = "drain"]]
    /\ UNCHANGED <<publisher, accepting, closed, lanes, stopper, resources, discarded, failed,
                   logged, forwarded>>

DrainReceives(l) == worker[l].pc = "drain" /\ TakeJob(l, "drainApply")

\* The deadline has passed: the job is counted as dropped.
DrainTimesOut(l) ==
    /\ worker[l].pc = "drain" /\ lanes[l] # <<>>
    /\ lanes' = [lanes EXCEPT ![l] = Tail(@)]
    /\ discarded' = discarded \cup {Head(lanes[l])}
    /\ UNCHANGED <<publisher, accepting, closed, worker, stopper, resources, failed, logged,
                   forwarded>>

DrainEnds(l) ==
    /\ worker[l].pc = "drain" /\ lanes[l] = <<>>
    /\ worker' = [worker EXCEPT ![l] = [@ EXCEPT !.pc = "gone"]]
    /\ UNCHANGED <<publisher, accepting, closed, lanes, stopper, resources, discarded, failed,
                   logged, forwarded>>

\* applyCaptureJob ends: the forward has run, or the append succeeded or failed.
ApplyCaptureJob(l) ==
    /\ Working(l)
    /\ \/ /\ worker[l].job.target = "peers"
          /\ forwarded' = forwarded \cup {worker[l].job.publish}
          /\ UNCHANGED <<failed, logged>>
       \/ /\ worker[l].job.target # "peers"
          /\ logged' = [logged EXCEPT ![worker[l].job.target] =
                             Append(@, worker[l].job.publish)]
          /\ UNCHANGED <<failed, forwarded>>
       \/ /\ worker[l].job.target # "peers"
          /\ failed' = failed \cup {worker[l].job}
          /\ UNCHANGED <<logged, forwarded>>
    /\ worker' = [worker EXCEPT ![l] =
                      [IdleWorker EXCEPT !.pc = IF worker[l].pc = "apply" THEN "run" ELSE "drain"]]
    /\ UNCHANGED <<publisher, accepting, closed, lanes, stopper, resources, discarded>>

(***************************************************************************)
(* Manager.Stop, which begins with captureDispatcher.Stop, and the release *)
(* of what the workers use.                                                *)
(***************************************************************************)
StopCapture ==
    /\ stopper = "running"
    /\ accepting = {}
    /\ closed' = TRUE
    /\ stopper' = "closing"
    /\ UNCHANGED <<publisher, accepting, lanes, worker, resources, discarded, failed, logged,
                   forwarded>>

SignalStop ==
    /\ stopper = "closing"
    /\ stopper' = "waiting"
    /\ UNCHANGED <<publisher, accepting, closed, lanes, worker, resources, discarded, failed,
                   logged, forwarded>>

\* The workers are done, or the timer fires first.
StopWaited ==
    /\ stopper = "waiting"
    /\ \/ (\A l \in Lanes : worker[l].pc = "gone") /\ stopper' = "quiesced"
       \/ stopper' = "timedOut"
    /\ UNCHANGED <<publisher, accepting, closed, lanes, worker, resources, discarded, failed,
                   logged, forwarded>>

SweepLanes(l) ==
    /\ stopper \in {"quiesced", "timedOut"} /\ lanes[l] # <<>>
    /\ lanes' = [lanes EXCEPT ![l] = Tail(@)]
    /\ discarded' = discarded \cup {Head(lanes[l])}
    /\ UNCHANGED <<publisher, accepting, closed, worker, stopper, resources, failed, logged,
                   forwarded>>

\* Mutant: Stop reports success whether or not the workers finished.
StopReturnsComplete ==
    /\ stopper \in {"quiesced", "timedOut"} /\ \A l \in Lanes : lanes[l] = <<>>
    /\ stopper' = "complete"
    /\ UNCHANGED <<publisher, accepting, closed, lanes, worker, resources, discarded, failed,
                   logged, forwarded>>

\* Stop returns nil, or ErrCaptureStillRunning.
StopReturns ==
    /\ stopper \in {"quiesced", "timedOut"} /\ \A l \in Lanes : lanes[l] = <<>>
    /\ stopper' = IF stopper = "quiesced" THEN "complete" ELSE "stillRunning"
    /\ UNCHANGED <<publisher, accepting, closed, lanes, worker, resources, discarded, failed,
                   logged, forwarded>>

\* releaseShutdownResources, from ShutdownComplete.
ReleaseShutdownResources ==
    /\ stopper \in {"complete", "stillRunning"}
    /\ stopper' = "exited"
    /\ resources' = IF stopper = "complete" THEN "closed" ELSE resources
    /\ UNCHANGED <<publisher, accepting, closed, lanes, worker, discarded, failed, logged,
                   forwarded>>

CaptureInit ==
    /\ publisher = [p \in 1..Publishes |-> [pc |-> "idle", jobs |-> {}]]
    /\ accepting = {}
    /\ closed = FALSE
    /\ lanes = [l \in Lanes |-> <<>>]
    /\ worker = [l \in Lanes |-> IdleWorker]
    /\ stopper = "running"
    /\ resources = "open"
    /\ discarded = {}
    /\ failed = {}
    /\ logged = [q \in CapturedQueues |-> <<>>]
    /\ forwarded = {}

CaptureNext ==
    \/ \E p \in 1..Publishes :
          PublishToMatchingQueues(p) \/ Enqueue(p) \/ EnqueueSend(p) \/ EnqueueRefused(p)
    \/ \E l \in Lanes :
          \/ RunReceives(l) \/ RunStops(l) \/ DrainReceives(l) \/ DrainTimesOut(l)
          \/ DrainEnds(l) \/ ApplyCaptureJob(l) \/ SweepLanes(l)
    \/ StopCapture \/ SignalStop \/ StopWaited \/ StopReturns \/ ReleaseShutdownResources

CaptureSpec == CaptureInit /\ [][CaptureNext]_captureVars

(***************************************************************************)
(* Properties.                                                             *)
(***************************************************************************)
JobsInHand == {worker[l].job : l \in {k \in Lanes : Working(k)}}
Queued == UNION {Range(lanes[l]) : l \in Lanes}
Ended == discarded \cup failed \cup {Job(p, "peers") : p \in forwarded} \cup
         UNION {{Job(p, q) : p \in Range(logged[q])} : q \in CapturedQueues}

\* Every job of a publish that has returned is written, counted as dropped or
\* failed, still queued or in a worker's hands, and once Stop has returned none
\* is left in a lane: a job accepted while Stop closes the dispatcher is never
\* lost without a count, and nothing is written twice.
CaptureAccounted ==
    /\ \A p \in 1..Publishes :
          publisher[p].pc = "next" /\ publisher[p].jobs = {} =>
              \A q \in CapturedQueues : Job(p, q) \in Ended \cup Queued \cup JobsInHand
    /\ stopper \in {"complete", "stillRunning", "exited"} => Queued = {}
    /\ \A q \in CapturedQueues : IsInjective(logged[q])

\* The queue store, the cluster and the coordinator are not released while a
\* worker is inside the store: ErrCaptureStillRunning keeps them open.
OpenWhileCapturing == resources = "closed" => \A l \in Lanes : worker[l].pc = "gone"
=============================================================================
