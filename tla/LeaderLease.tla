------------------------------ MODULE LeaderLease ------------------------------
(***************************************************************************)
(* The compliance service's scheduler. Replicas contest a lease kept in a  *)
(* key with a time to live; the one that believes it holds it claims and   *)
(* runs the queued assessments, one at a time.                             *)
(*                                                                         *)
(* A tick of the elector is a read followed by a conditional write. The    *)
(* claim is one UPDATE whose subquery names a PENDING row: a second UPDATE *)
(* that named the same row waits for the first and then claims it again.   *)
(***************************************************************************)
EXTENDS Naturals, FiniteSets

CONSTANTS Replicas, Assessments,
          Ops,          \* which of "slow" and "crash" may happen
          MaxFaults     \* expiries under a live holder, crashes

VARIABLES key,      \* the holder in the leader key; "none": absent
          up,       \* replicas that run
          tick,     \* what the elector of each replica read, and whether the
                    \* key still has the revision it read
          leader,   \* isLeader
          row,      \* compliance_assessments.status
          poll,     \* what the poller of each replica is doing
          runs,     \* how often each assessment was started
          faults

vars == <<key, up, tick, leader, row, poll, runs, faults>>
lease == <<key, tick, leader>>
queue == <<row, poll, runs>>

Idle == [op |-> "idle"]

Init ==
    /\ key = "none"
    /\ up = Replicas
    /\ tick = [r \in Replicas |-> Idle]
    /\ leader = [r \in Replicas |-> FALSE]
    /\ row = [a \in Assessments |-> "none"]
    /\ poll = [r \in Replicas |-> Idle]
    /\ runs = [a \in Assessments |-> 0]
    /\ faults = 0

Fault == faults < MaxFaults /\ faults' = faults + 1
-----------------------------------------------------------------------------
(* Election.                                                                *)

Get(r) ==
    /\ r \in up /\ tick[r] = Idle
    /\ tick' = [tick EXCEPT ![r] = [op |-> "got", holder |-> key, same |-> TRUE]]
    /\ UNCHANGED <<key, up, leader, queue, faults>>

\* What the electors hold in hand once the key has another revision.
Stale(r) == [q \in Replicas |-> IF q = r \/ tick[q] = Idle THEN Idle
                                ELSE [tick[q] EXCEPT !.same = FALSE]]

PutSucceeds_Blind(t) == t.holder = "none" \/ t.same

\* Create needs the key to be absent, Update the revision that was read.
PutSucceeds(t) == IF t.holder = "none" THEN key = "none" ELSE t.same

Tick(r) ==
    /\ r \in up /\ tick[r].op = "got"
    /\ \/ /\ tick[r].holder \in {"none", r} /\ PutSucceeds(tick[r])
          /\ key' = r
          /\ leader' = [leader EXCEPT ![r] = TRUE]
          /\ tick' = Stale(r)
       \/ /\ ~(tick[r].holder \in {"none", r} /\ PutSucceeds(tick[r]))
          /\ leader' = [leader EXCEPT ![r] = FALSE]
          /\ tick' = [tick EXCEPT ![r] = Idle]
          /\ UNCHANGED key
    /\ UNCHANGED <<up, queue, faults>>

\* The time to live passes: under a holder that is gone, or under one whose
\* ticks are late or fail, which leaves isLeader as it was.
Expire ==
    /\ key # "none"
    /\ key' = "none"
    /\ tick' = [q \in Replicas |-> IF tick[q] = Idle THEN Idle ELSE [tick[q] EXCEPT !.same = FALSE]]
    /\ \/ key \notin up /\ UNCHANGED faults
       \/ key \in up /\ "slow" \in Ops /\ Fault
    /\ UNCHANGED <<up, leader, queue>>

Crash(r) ==
    /\ "crash" \in Ops /\ Fault
    /\ r \in up
    /\ up' = up \ {r}
    /\ tick' = [tick EXCEPT ![r] = Idle]
    /\ leader' = [leader EXCEPT ![r] = FALSE]
    /\ poll' = [poll EXCEPT ![r] = Idle]
    /\ UNCHANGED <<key, row, runs>>

Restart(r) ==
    /\ r \notin up
    /\ up' = up \cup {r}
    /\ UNCHANGED <<lease, queue, faults>>
-----------------------------------------------------------------------------
(* Assessments.                                                             *)

CreateAssessment(a) ==
    /\ row[a] = "none"
    /\ row' = [row EXCEPT ![a] = "PENDING"]
    /\ UNCHANGED <<lease, up, poll, runs, faults>>

MayPoll(r) == leader[r]

\* The poller's tick up to the subquery of the claim.
FindPending(r, a) ==
    /\ r \in up /\ poll[r] = Idle
    /\ MayPoll(r)
    /\ row[a] = "PENDING"
    /\ poll' = [poll EXCEPT ![r] = [op |-> "claim", a |-> a]]
    /\ UNCHANGED <<lease, up, row, runs, faults>>

\* WHERE id = the row found: its status is not looked at again.
ClaimNextPendingAssessment(r) ==
    /\ r \in up /\ poll[r].op = "claim"
    /\ LET a == poll[r].a
       IN  /\ row' = [row EXCEPT ![a] = "RUNNING"]
           /\ runs' = [runs EXCEPT ![a] = @ + 1]
           /\ poll' = [poll EXCEPT ![r] = [op |-> "run", a |-> a]]
    /\ UNCHANGED <<lease, up, faults>>

\* Completed, or failed with an error of the body.
FinishAssessment(r) ==
    /\ r \in up /\ poll[r].op = "run"
    /\ \E end \in {"COMPLETED", "FAILED"} : row' = [row EXCEPT ![poll[r].a] = end]
    /\ poll' = [poll EXCEPT ![r] = Idle]
    /\ UNCHANGED <<lease, up, runs, faults>>
-----------------------------------------------------------------------------
Elect(r) == Get(r) \/ Tick(r)
Poll(r) == (\E a \in Assessments : FindPending(r, a)) \/ ClaimNextPendingAssessment(r)
           \/ FinishAssessment(r)

Next ==
    \/ \E r \in Replicas : Elect(r) \/ Poll(r) \/ Crash(r) \/ Restart(r)
    \/ Expire
    \/ \E a \in Assessments : CreateAssessment(a)

Spec == Init /\ [][Next]_vars

-----------------------------------------------------------------------------

(* "only one becomes scheduler leader at a time", however their reads and   *)
(* writes of the key interleave.                                            *)
OneLeader == Cardinality({r \in up : leader[r]}) <= 1

(* AssessmentPoller: an assessment is claimed and run once.                 *)
AssessedOnce == \A a \in Assessments : runs[a] <= 1
=============================================================================
