---------------------------- MODULE JobAllocation ----------------------------
(***************************************************************************)
(* What dispatch promises, without deadlines, locks, sweeps or             *)
(* availability: a job is offered to one worker at a time and to the same  *)
(* worker once, at most one worker ever takes it, and a worker works on    *)
(* one job at a time.                                                      *)
(***************************************************************************)
CONSTANTS Jobs, Workers

VARIABLES
    open,       \* open[j]: the worker holding j's unanswered offer (a set of at most one)
    tried,      \* tried[j]: every worker j was ever offered to
    holder,     \* holder[j]: the worker who took j (a set of at most one)
    working,    \* the jobs being worked on
    closed      \* the jobs nobody will be offered any more

vars == <<open, tried, holder, working, closed>>

Init ==
    /\ open    = [j \in Jobs |-> {}]
    /\ tried   = [j \in Jobs |-> {}]
    /\ holder  = [j \in Jobs |-> {}]
    /\ working = {}
    /\ closed  = {}

\* A new offer takes the place of one that ran out unanswered.
Offer(j, w) ==
    /\ j \notin closed
    /\ holder[j] = {}
    /\ w \notin tried[j]
    /\ open'  = [open EXCEPT ![j] = {w}]
    /\ tried' = [tried EXCEPT ![j] = @ \cup {w}]
    /\ UNCHANGED <<holder, working, closed>>

Retract(j) ==
    /\ open[j] # {}
    /\ open' = [open EXCEPT ![j] = {}]
    /\ UNCHANGED <<tried, holder, working, closed>>

Take(j, w) ==
    /\ open[j] = {w}
    /\ \A k \in working : w \notin holder[k]
    /\ holder'  = [holder EXCEPT ![j] = {w}]
    /\ working' = working \cup {j}
    /\ open'    = [open EXCEPT ![j] = {}]
    /\ UNCHANGED <<tried, closed>>

Finish(j) ==
    /\ j \in working
    /\ working' = working \ {j}
    /\ UNCHANGED <<open, tried, holder, closed>>

Close(j) ==
    /\ j \notin closed
    /\ holder[j] = {}
    /\ closed' = closed \cup {j}
    /\ open'   = [open EXCEPT ![j] = {}]
    /\ UNCHANGED <<tried, holder, working>>

Next ==
    \E j \in Jobs :
        \/ \E w \in Workers : Offer(j, w) \/ Take(j, w)
        \/ Retract(j)
        \/ Finish(j)
        \/ Close(j)

Spec == Init /\ [][Next]_vars
=============================================================================
