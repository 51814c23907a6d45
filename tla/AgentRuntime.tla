---------------------------- MODULE AgentRuntime ----------------------------
(***************************************************************************)
(* The agent's half of the job pipeline (agent/internal/agent/manager.go): *)
(* the heartbeat loop, the queue of unreported results, the in-flight set  *)
(* and the execution slots. All of it is in memory; a restart loses it.    *)
(***************************************************************************)
EXTENDS Integers, Sequences, FiniteSets, JobStatus

CONSTANTS
    MaxParallel     \* maxParallelJobs: capacity of the jobSlots channel

ASSUME AgentAssumption == MaxParallel \in Nat \ {0}

VARIABLES
    phase,      \* the goroutine of each job: none, waiting for a slot, running
    queue,      \* pendingResults
    inHb,       \* length of the results copy of the heartbeat being sent; -1 when none is
    runs        \* how often runJob has been entered for a job (history)

agentVars == <<phase, queue, inHb, runs>>

Phases == {"none", "waiting", "running"}
Report == [job : Jobs, outcome : Outcomes]

AgentTypeOK ==
    /\ phase \in [Agents -> [Jobs -> Phases]]
    /\ queue \in [Agents -> Seq(Report)]
    /\ inHb \in [Agents -> Int]
    /\ runs \in [Agents -> [Jobs -> Nat]]

AgentInit ==
    /\ phase = [a \in Agents |-> [j \in Jobs |-> "none"]]
    /\ queue = [a \in Agents |-> <<>>]
    /\ inHb = [a \in Agents |-> -1]
    /\ runs = [a \in Agents |-> [j \in Jobs |-> 0]]

\* The jobs of the inFlight map, and the ones that hold an execution slot.
InFlight(a) == {j \in Jobs : phase[a][j] # "none"}
SlotHolders(a) == {j \in Jobs : phase[a][j] = "running"}

\* The results the heartbeat carries, as the receiver applies them: in order, so the
\* last report of a job counts.
Reported(a) ==
    [j \in Jobs |->
        LET at == {i \in 1..Len(queue[a]) : queue[a][i].job = j}
        IN  IF at = {} THEN NoStatus
            ELSE queue[a][CHOOSE i \in at : \A k \in at : k <= i].outcome]

\* sendHeartbeat copies the pending results and blocks in SendHeartbeat.
StartHeartbeat(a) ==
    /\ inHb[a] = -1
    /\ inHb' = [inHb EXCEPT ![a] = Len(queue[a])]
    /\ UNCHANGED <<phase, queue, runs>>

\* Results taken out of the queue before the send, and not put back.
DropOnError(a) ==
    /\ inHb[a] # -1
    /\ queue' = [queue EXCEPT ![a] = SubSeq(@, inHb[a] + 1, Len(@))]
    /\ inHb' = [inHb EXCEPT ![a] = -1]
    /\ UNCHANGED <<phase, runs>>

\* SendHeartbeat returned an error: everything stays queued for the next one.
HeartbeatError(a) ==
    /\ inHb[a] # -1
    /\ inHb' = [inHb EXCEPT ![a] = -1]
    /\ UNCHANGED <<phase, queue, runs>>

\* HeartbeatOK clearing the whole queue instead of the prefix it sent.
ClearWholeQueue(a, S, bad) ==
    /\ inHb[a] # -1
    /\ queue' = [queue EXCEPT ![a] = <<>>]
    /\ phase' = [phase EXCEPT ![a] = [j \in Jobs |->
                   IF j \in S \ bad /\ phase[a][j] = "none" THEN "waiting" ELSE phase[a][j]]]
    /\ inHb' = [inHb EXCEPT ![a] = -1]
    /\ UNCHANGED runs

\* A sequence of FAILED reports, one for each job of the set B in some order.
Rejections(B) ==
    {q \in [1..Cardinality(B) -> Report] :
        /\ \A i \in DOMAIN q : q[i].job \in B /\ q[i].outcome = "FAILED"
        /\ \A j \in B : \E i \in DOMAIN q : q[i].job = j}

\* A successful heartbeat whose response carries the jobs S: the reported prefix is dropped;
\* handleResponse refuses the jobs in bad (validateAndAuthorize) with a FAILED report and
\* starts a goroutine for every other job that is not in flight already.
HeartbeatOK(a, S, bad) ==
    /\ inHb[a] # -1
    /\ \E q \in Rejections(bad) :
          queue' = [queue EXCEPT ![a] = SubSeq(@, inHb[a] + 1, Len(@)) \o q]
    /\ phase' = [phase EXCEPT ![a] = [j \in Jobs |->
                   IF j \in S \ bad /\ phase[a][j] = "none" THEN "waiting" ELSE phase[a][j]]]
    /\ inHb' = [inHb EXCEPT ![a] = -1]
    /\ UNCHANGED runs

\* The goroutine of job j gets a slot and enters runJob.
AcquireSlot(a, j) ==
    /\ phase[a][j] = "waiting"
    /\ Cardinality(SlotHolders(a)) < MaxParallel
    /\ phase' = [phase EXCEPT ![a][j] = "running"]
    /\ runs' = [runs EXCEPT ![a][j] = @ + 1]
    /\ UNCHANGED <<queue, inHb>>

\* runJob returned: the result is appended, the heartbeat loop nudged, and the goroutine's
\* deferred calls give the slot back and delete the inFlight entry.
ReportResult(a, j, o) ==
    /\ phase[a][j] = "running"
    /\ queue' = [queue EXCEPT ![a] = Append(@, [job |-> j, outcome |-> o])]
    /\ phase' = [phase EXCEPT ![a][j] = "none"]
    /\ UNCHANGED <<inHb, runs>>

\* The agent process ends and starts again.
Restart(a) ==
    /\ phase' = [phase EXCEPT ![a] = [j \in Jobs |-> "none"]]
    /\ queue' = [queue EXCEPT ![a] = <<>>]
    /\ inHb' = [inHb EXCEPT ![a] = -1]
    /\ UNCHANGED runs
=============================================================================
