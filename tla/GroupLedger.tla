---------------------------- MODULE GroupLedger ----------------------------
(***************************************************************************)
(* What a classic consumer group promises the queue it reads, with owners, *)
(* leases, retries and dead-letter transfers left out: offsets are issued  *)
(* in order, every issued offset stays open until it has an outcome, an    *)
(* offset that was closed is never opened again, and the floor that        *)
(* retention truncates to stays below everything open.                     *)
(***************************************************************************)
EXTENDS Naturals

CONSTANT MaxOffset   \* bound: offsets ever issued

VARIABLES
    next,    \* first offset not issued yet
    floor,   \* everything below has an outcome
    base,    \* first offset still in the log
    open,    \* offsets some consumer has still to answer
    done     \* offsets that have an outcome

vars == <<next, floor, base, open, done>>

Init == next = 0 /\ floor = 0 /\ base = 0 /\ open = {} /\ done = {}

\* Move on: the offsets passed are handed out or passed over for good; open
\* offsets nobody can be handed any more may be closed on the way.
Issue ==
    /\ next' \in next .. MaxOffset
    /\ LET issued == next .. next' - 1
       IN  /\ open' \subseteq open \cup issued
           /\ done' = done \cup ((open \cup issued) \ open')
    /\ UNCHANGED <<floor, base>>

\* An outcome becomes known before its offset is closed.
Resolve ==
    /\ done \subseteq done' /\ done' \subseteq done \cup open
    /\ UNCHANGED <<next, floor, base, open>>

\* Close offsets and raise the floor, at most to the lowest one left open.
Retire ==
    /\ open' \subseteq open
    /\ done' = done \cup (open \ open')
    /\ floor' \in floor .. next
    /\ floor' = floor \/ \A o \in open' : floor' <= o
    /\ UNCHANGED <<next, base>>

Truncate ==
    /\ base' \in base .. floor
    /\ UNCHANGED <<next, floor, open, done>>

Next == Issue \/ Resolve \/ Retire \/ Truncate

Spec == Init /\ [][Next]_vars

----------------------------------------------------------------------------

TypeOK ==
    /\ next \in 0 .. MaxOffset /\ floor \in 0 .. next /\ base \in 0 .. floor
    /\ open \subseteq 0 .. MaxOffset /\ done \subseteq 0 .. MaxOffset

\* Nothing below the floor, and so nothing retention may remove, is open, and
\* everything issued is open or has an outcome.
Safe ==
    /\ \A o \in open : floor <= o /\ o < next
    /\ \A o \in 0 .. next - 1 : o \in open \cup done
============================================================================
