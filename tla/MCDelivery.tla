----------------------------- MODULE MCDelivery -----------------------------
(***************************************************************************)
(* What a queue owes its consumers in the end: a group settled by hand     *)
(* (ConsumerGroup) and a stream read with automatic commits                *)
(* (StreamDelivery).  A behaviour is one of a single part.                 *)
(***************************************************************************)
EXTENDS ConsumerGroup, StreamDelivery

VARIABLE part

\* Bounds of a stream's delivery: a reader of the API and a fault; one and a
\* truncation; a consumer that leaves and comes; a full schedule, a fault and a
\* restart.
StreamBounds ==
    LET Bounds(appends, truncates, faults, leaves, joins, full, pulls, stops) ==
            [appends |-> appends, truncates |-> truncates, faults |-> faults, leaves |-> leaves,
             joins |-> joins, full |-> full, pulls |-> pulls, stops |-> stops]
    IN  {Bounds(2, 0, 1, 0, 0, 0, 1, 0), Bounds(1, 1, 0, 0, 0, 0, 1, 0),
         Bounds(2, 0, 0, 1, 1, 1, 0, 0), Bounds(2, 0, 1, 0, 0, 1, 0, 1)}

DeliveryInit ==
    /\ part \in {"group", "stream"}
    /\ InitWith(Consumers) /\ StreamInit
    /\ part # "stream" => spare.truncates = 1

DeliveryNext ==
    /\ UNCHANGED part
    /\ \/ part = "group" /\ Work /\ UNCHANGED streamVars
       \/ part = "stream" /\ StreamNext /\ UNCHANGED vars

\* Fairness and StreamFairness, each of the behaviours of its part.
GroupIsFair ==
    /\ \A c \in Consumers : WF_vars(part = "group" /\ ClaimBatch(c))
    /\ \A o \in Offsets :
         /\ WF_vars(part = "group" /\ Lapse(o))
         /\ WF_vars(part = "group" /\ PreparePoisonTransfer(o))
         /\ WF_vars(part = "group" /\ \E outcome \in DLQOutcomes : MoveToDLQ(o, outcome))
         /\ SF_vars(part = "group" /\ MoveToDLQ(o, "appended"))
         /\ WF_vars(part = "group" /\ (FinishTransfer(o) \/ FinishPoisonTransfer(o)))

StreamIsFair ==
    /\ WF_streamVars(part = "stream" /\ EngineStep)
    /\ SF_streamVars(part = "stream" /\ Sweep)
    /\ \A w \in {Writer, Engine} :
         WF_streamVars(part = "stream" /\ (ScheduleSend(w) \/ ScheduleFull(w)))

DeliverySpec ==
    /\ DeliveryInit
    /\ [][DeliveryNext]_<<part, vars, streamVars>>
    /\ GroupIsFair
    /\ StreamIsFair
=============================================================================
