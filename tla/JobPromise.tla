----------------------------- MODULE JobPromise -----------------------------
(***************************************************************************)
(* What the job pipeline promises about each delivery of a job to an       *)
(* agent, without tables, transactions, heartbeats or goroutines: it is    *)
(* offered once, taken off the offer once, started at most once and only   *)
(* when the job was cleared, and the outcome is recorded once and stays.   *)
(***************************************************************************)
EXTENDS JobStatus

VARIABLES
    delivery,   \* stage and recorded outcome of each job and agent
    cleared     \* jobs that need no approval or have one

Stages == {"none", "offered", "taken", "started"}

Nothing == [stage |-> "none", recorded |-> NoStatus]

PromiseInit ==
    /\ delivery = [j \in Jobs |-> [a \in Agents |-> Nothing]]
    /\ cleared = {}

\* The moves of one delivery from d to e.
Offer(d, e) == d = Nothing /\ e = [d EXCEPT !.stage = "offered"]
Take(d, e) == d.stage = "offered" /\ e = [d EXCEPT !.stage = "taken"]
Start(d, e) == d.stage = "taken" /\ d.recorded = NoStatus /\ e = [d EXCEPT !.stage = "started"]
Record(d, e) ==
    /\ d.stage \in {"taken", "started"}
    /\ d.recorded = NoStatus
    /\ \E o \in Outcomes : e = [d EXCEPT !.recorded = o]

\* Each delivery stays or makes one move; a job once cleared stays so.
PromiseNext ==
    /\ cleared \subseteq cleared'
    /\ \A j \in Jobs, a \in Agents :
          LET d == delivery[j][a]
              e == delivery'[j][a]
          IN  \/ e = d
              \/ Offer(d, e)
              \/ Take(d, e)
              \/ j \in cleared /\ Start(d, e)
              \/ Record(d, e)

PromiseSpec == PromiseInit /\ [][PromiseNext]_<<delivery, cleared>>
=============================================================================
