---------------------------- MODULE JobDispatch ----------------------------
(***************************************************************************)
(* The job pipeline: JobControl and AgentRuntime joined by heartbeats.     *)
(*                                                                         *)
(* Every heartbeat is a stream of its own with one request and at most one *)
(* response (grpc_client.go SendHeartbeat). The request may be lost, the   *)
(* handler may be slow, fail or outlive the agent's patience, and then the *)
(* agent sends the same results again while the old handler still runs.    *)
(***************************************************************************)
EXTENDS JobControl, AgentRuntime

CONSTANTS
    TargetSets, \* the sets of agents a job may be created for
    Gates,      \* the values of requires_approval a job may be created with
    Events,     \* the optional requests and faults an instance exercises
    NoHandler   \* the agent is not waiting for a response

ASSUME DispatchAssumption ==
    /\ TargetSets \subseteq SUBSET Agents
    /\ Gates \subseteq BOOLEAN
    /\ Events \subseteq {"cancel", "refuse", "restart", "signing", "sweep"}
    /\ NoHandler \notin Handlers

VARIABLES
    wait,       \* the handler whose response each agent is waiting for
    lost        \* the job, or its result, was lost with a response or a process (history)

vars == <<job, result, requires, creator, approver, held, cancelling, sweeping,
          pc, hAgent, hRes, hTodo, hCur, hAgg, hJob, hSel, hHeld,
          phase, queue, inHb, runs, wait, lost>>

TypeOK ==
    /\ ControlTypeOK
    /\ AgentTypeOK
    /\ wait \in [Agents -> Handlers \cup {NoHandler}]
    /\ lost \in [Jobs -> [Agents -> BOOLEAN]]

Init ==
    /\ ControlInit
    /\ AgentInit
    /\ wait = [a \in Agents |-> NoHandler]
    /\ lost = [j \in Jobs |-> [a \in Agents |-> FALSE]]

-----------------------------------------------------------------------------
\* The reports in agent a's queue, and the jobs they are about.
Reports(a) == {queue[a][i] : i \in 1..Len(queue[a])}
QueuedJobs(a) == {r.job : r \in Reports(a)}

LoseJobs(S, a) ==
    lost' = [j \in Jobs |-> IF j \in S THEN [lost[j] EXCEPT ![a] = TRUE] ELSE lost[j]]

\* The heartbeat reaches a handler.
SendHeartbeat(a, h) ==
    /\ StartHeartbeat(a)
    /\ Receive(h, a, Reported(a))
    /\ wait' = [wait EXCEPT ![a] = h]
    /\ UNCHANGED lost

\* SendHeartbeat returns an error while the handler is still at work: the connection broke.
\* (A heartbeat that never reaches a handler changes nothing on either side.)
HeartbeatFails(a) ==
    /\ HeartbeatError(a)
    /\ wait' = [wait EXCEPT ![a] = NoHandler]
    /\ UNCHANGED <<controlVars, lost>>

\* The response reaches the agent, which refuses the jobs in bad.
Deliver(h, bad) ==
    /\ Respond(h)
    /\ wait[hAgent[h]] = h
    /\ bad \subseteq hSel[h]
    /\ HeartbeatOK(hAgent[h], hSel[h], bad)
    /\ wait' = [wait EXCEPT ![hAgent[h]] = NoHandler]
    /\ UNCHANGED lost

\* Nobody waits for the response any more.
DropResponse(h) ==
    /\ Respond(h)
    /\ wait[hAgent[h]] # h
    /\ LoseJobs(hSel[h], hAgent[h])
    /\ UNCHANGED <<agentVars, wait>>

\* The handler ends without a response; an agent waiting for it gets an error.
Fail(h) ==
    /\ HandlerFail(h)
    /\ LoseJobs(IF pc[h] = "respond" THEN hSel[h] ELSE {}, hAgent[h])
    /\ IF wait[hAgent[h]] = h
       THEN HeartbeatError(hAgent[h]) /\ wait' = [wait EXCEPT ![hAgent[h]] = NoHandler]
       ELSE UNCHANGED <<agentVars, wait>>

AgentRestart(a) ==
    /\ "restart" \in Events
    /\ LoseJobs(InFlight(a) \cup QueuedJobs(a), a)
    /\ Restart(a)
    /\ wait' = [wait EXCEPT ![a] = NoHandler]
    /\ UNCHANGED controlVars

-----------------------------------------------------------------------------
linkVars == <<wait, lost>>

Request(j) ==
    \/ \E u \in Users, T \in TargetSets, gated \in Gates :
          CreateJob(j, u, T, gated) /\ UNCHANGED <<agentVars, linkVars>>
    \/ \E u \in Users : ApproveJob(j, u) /\ UNCHANGED <<agentVars, linkVars>>
    \/ "cancel" \in Events /\ CancelLoad(j) /\ UNCHANGED <<agentVars, linkVars>>
    \/ CancelCommit(j) /\ UNCHANGED <<agentVars, linkVars>>

\* A handler's steps towards its response.
HandlerStep(h) ==
    \/ FlushResults(h) /\ UNCHANGED <<agentVars, linkVars>>
    \/ \E j \in Jobs : RecomputeRows(h, j) /\ UNCHANGED <<agentVars, linkVars>>
    \/ RecomputeJob(h) /\ UNCHANGED <<agentVars, linkVars>>
    \/ CommitResults(h) /\ UNCHANGED <<agentVars, linkVars>>
    \/ \E B \in SUBSET Jobs : \E F \in IF "signing" \in Events THEN SUBSET B ELSE {{}} :
          SelectRound(h, B, F) /\ UNCHANGED <<agentVars, linkVars>>
    \/ MarkHeld(h) /\ UNCHANGED <<agentVars, linkVars>>
    \/ MarkDispatched(h) /\ UNCHANGED <<agentVars, linkVars>>
    \/ \E bad \in IF "refuse" \in Events THEN SUBSET Jobs ELSE {{}} : Deliver(h, bad)
    \/ DropResponse(h)

AgentStep(a) ==
    \/ \E h \in Handlers : SendHeartbeat(a, h)
    \/ HeartbeatFails(a)
    \/ AgentRestart(a)

\* The goroutine of job j on agent a.
JobStep(a, j) ==
    \/ AcquireSlot(a, j) /\ UNCHANGED <<controlVars, linkVars>>
    \/ \E o \in Outcomes : ReportResult(a, j, o) /\ UNCHANGED <<controlVars, linkVars>>

Clock ==
    \E j \in Jobs, a \in Agents : HoldExpires(j, a) /\ UNCHANGED <<agentVars, linkVars>>

Sweep ==
    \/ \E S \in SUBSET Jobs : "sweep" \in Events /\ SweepLoad(S) /\ UNCHANGED <<agentVars, linkVars>>
    \/ SweepCommit /\ UNCHANGED <<agentVars, linkVars>>
    \/ SweepFail /\ UNCHANGED <<agentVars, linkVars>>

Next ==
    \/ \E j \in Jobs : Request(j)
    \/ \E h \in Handlers : HandlerStep(h) \/ Fail(h)
    \/ \E a \in Agents : AgentStep(a)
    \/ \E a \in Agents, j \in Jobs : JobStep(a, j)
    \/ Clock
    \/ Sweep

Spec == Init /\ [][Next]_vars

\* Handlers keep going: every await of HeartbeatStream returns or raises. From some point on
\* they no longer raise (a failure that loses nothing may look like an empty response);
\* heartbeats may still be cut off on the agent's side for ever.
HandlerFairness ==
    /\ \A h \in Handlers : WF_vars(HandlerStep(h))
    /\ <>[][\A h \in Handlers : Fail(h) => HandlerStep(h)]_vars

\* Every active job grows old and is loaded by a sweep; a sweep gets the locks it waits for
\* and from some point on does not raise.
SweepFairness ==
    /\ \A j \in Jobs :
          SF_vars((\E S \in SUBSET Jobs : j \in S /\ SweepLoad(S)) /\ UNCHANGED <<agentVars, linkVars>>)
    /\ SF_vars(SweepCommit /\ UNCHANGED <<agentVars, linkVars>>)
    /\ <>[][SweepFail => SweepCommit]_vars

\* The heartbeat loop keeps sending: a timer ticks, and each heartbeat ends.
DeliveryFairness == \A a \in Agents : SF_vars(\E h \in Handlers : SendHeartbeat(a, h))

FairSpec == Spec /\ HandlerFairness

-----------------------------------------------------------------------------
(* Safety.                                                                 *)

\* A job is executed at most once per agent, whatever heartbeats are lost, repeated or
\* served concurrently (the conditional claim of mark_dispatched, agent_service.py).
AtMostOnce == \A a \in Agents, j \in Jobs : runs[a][j] <= 1

\* A job that requires approval runs nowhere before somebody other than its requester
\* has approved it (get_pending_jobs' gate and approve_job's four-eyes rule).
ApprovedBeforeRun ==
    \A a \in Agents, j \in Jobs :
        phase[a][j] # "none" /\ requires[j] => approver[j] \notin {NoUser, creator[j]}

\* A burst of jobs never runs more of them at once than the agent has slots (manager.go jobSlots).
SlotBound == \A a \in Agents : Cardinality(SlotHolders(a)) <= MaxParallel

\* The response h is about to send hands job j to agent a.
Responding(h, j, a) == pc[h] = "respond" /\ hAgent[h] = a /\ j \in hSel[h]

\* Somebody knows that job j was handed to agent a.
InCustody(j, a) ==
    \/ lost[j][a]
    \/ phase[a][j] \in {"waiting", "running"}
    \/ j \in QueuedJobs(a)
    \/ \E h \in Handlers : Responding(h, j, a)

\* A row that says RUNNING is in somebody's custody: a response on its way, the agent's
\* goroutine or its unreported results; unless a response or an agent process was lost,
\* which is what the timeout sweep is for.
NoSilentLoss ==
    \A j \in Jobs, a \in Agents :
        result[j][a] = "RUNNING" => InCustody(j, a)

\* The rows a job has.
Rows(j) == {a \in Agents : result[j][a] # ABSENT}

\* A job's verdict is backed by its rows, although two handlers may aggregate at once and
\* each sees the other's rows as they were: COMPLETED means every agent completed, FAILED
\* that some agent failed (recompute_job_status).
VerdictSound ==
    \A j \in Jobs :
        /\ job[j] = "COMPLETED" => \A a \in Rows(j) : result[j][a] = "COMPLETED"
        /\ job[j] = "FAILED" => \E a \in Rows(j) : result[j][a] = "FAILED"

\* Identical jobs are never active together, not even when a recompute that read its rows
\* before a sweep reopens the swept job after its successor was created (create_job's
\* duplicate check, migration 020's partial unique index).
OneActivePerKey == UniqueActive(job)

\* What an agent reported stays: no sweep, claim or late duplicate replaces it.
OutcomeKept ==
    [][\A j \in Jobs, a \in Agents :
          result[j][a] \in Outcomes => result'[j][a] = result[j][a]]_vars

\* A row never returns to the pool of pending work once it was handed out or closed.
RowsMoveForward ==
    [][\A j \in Jobs, a \in Agents :
          /\ result[j][a] \notin {ABSENT, "PENDING"} => result'[j][a] # "PENDING"
          /\ result[j][a] \in TerminalRowStatuses => result'[j][a] \in TerminalRowStatuses]_vars

-----------------------------------------------------------------------------
(* The inductive invariant behind the theorems of JobDispatchProofs.       *)

\* Somewhere - in the agent's queue, in a handler, in the row - the outcome of job j on
\* agent a is said to be o.
Says(j, a, o) ==
    \/ \E r \in Reports(a) : r.job = j /\ r.outcome = o
    \/ \E h \in Handlers : hAgent[h] = a /\ hRes[h][j] = o
    \/ result[j][a] = o

Unreported(j, a) == \A o \in Outcomes : ~Says(j, a, o)

\* A handler serves an agent exactly while it is at work, and carries results only until
\* they are committed.
HandlersInv ==
    \A h \in Handlers :
        /\ pc[h] # "idle" => hAgent[h] \in Agents
        /\ pc[h] \notin {"apply", "rows", "job", "commit"} => hRes[h] = NoResults
        /\ pc[h] = "job" => hCur[h] \in Jobs

\* An agent is in SendHeartbeat exactly while it waits for a handler, and that handler
\* serves it.
WaitInv ==
    \A a \in Agents :
        /\ wait[a] = NoHandler <=> inHb[a] = -1
        /\ wait[a] \in Handlers => pc[wait[a]] # "idle" /\ hAgent[wait[a]] = a
        /\ inHb[a] \in -1..Len(queue[a])

\* A job that was not claimed is nowhere near an agent.
UnclaimedInv ==
    \A j \in Jobs, a \in Agents :
        result[j][a] \in {ABSENT, "PENDING"} =>
            /\ phase[a][j] = "none" /\ runs[a][j] = 0
            /\ Unreported(j, a)
            /\ \A h \in Handlers : ~Responding(h, j, a)

\* A claimed job is in one response, and nobody has started or reported it.
ResponseInv ==
    \A j \in Jobs, a \in Agents, h \in Handlers :
        Responding(h, j, a) =>
            /\ phase[a][j] = "none" /\ runs[a][j] = 0
            /\ Unreported(j, a)
            /\ \A g \in Handlers : Responding(g, j, a) => g = h

\* A goroutine runs its job for the first time and has not reported.
GoroutineInv ==
    \A j \in Jobs, a \in Agents :
        /\ phase[a][j] = "waiting" => runs[a][j] = 0 /\ Unreported(j, a)
        /\ phase[a][j] = "running" => runs[a][j] = 1 /\ Unreported(j, a)
        /\ runs[a][j] <= 1

\* All that is said about a job's outcome on an agent agrees.
AgreeInv ==
    \A j \in Jobs, a \in Agents : \A o, p \in Outcomes :
        Says(j, a, o) /\ Says(j, a, p) => o = p

\* What was selected for an agent, sent or started has passed the approval gate.
ApprovalInv ==
    \A j \in Jobs :
        /\ approver[j] # NoUser => approver[j] # creator[j]
        /\ job[j] = ABSENT => approver[j] = NoUser /\ \A a \in Agents : result[j][a] = ABSENT
        /\ \A h \in Handlers : j \in hSel[h] =>
              job[j] # ABSENT /\ (requires[j] => approver[j] # NoUser)
        /\ \A a \in Agents : phase[a][j] # "none" =>
              job[j] # ABSENT /\ (requires[j] => approver[j] # NoUser)

IInv ==
    /\ TypeOK
    /\ HandlersInv
    /\ WaitInv
    /\ UnclaimedInv
    /\ ResponseInv
    /\ GoroutineInv
    /\ AgreeInv
    /\ ApprovalInv

\* The part of the invariant behind VerdictSound: the status h aggregated, or is about to
\* commit, is backed by the rows as h's transaction sees them.
Backed(h, j, s) ==
    /\ s = "COMPLETED" => Rows(j) # {} /\ \A a \in Rows(j) : RowSeen(h, j, a) = "COMPLETED"
    /\ s = "FAILED" => \E a \in Agents : RowSeen(h, j, a) = "FAILED"

VerdictInv ==
    /\ VerdictSound
    /\ \A j \in Jobs, a \in Agents : result[j][a] \notin {"CANCELLED", "SKIPPED"}
    /\ \A h \in Handlers :
          /\ pc[h] = "job" => Backed(h, hCur[h], hAgg[h])
          /\ pc[h] \notin {"rows", "job", "commit"} => hJob[h] = NoWrites
          /\ \A j \in Jobs : Backed(h, j, hJob[h][j])

\* The part behind NoSilentLoss: what the heartbeat in progress carries is in the hands of
\* its handler until it is in the rows.
CarriedInv ==
    \A a \in Agents : \A i \in 1..inHb[a] :
        LET h == wait[a]
            j == queue[a][i].job
        IN  IF pc[h] \in {"apply", "rows", "job", "commit"}
            THEN hRes[h][j] # NoStatus
            ELSE result[j][a] \in Outcomes

-----------------------------------------------------------------------------
(* Refinement.                                                             *)

\* The state of a delivery in the promise.
Stage(j, a) ==
    IF runs[a][j] > 0 THEN "started"
    ELSE IF result[j][a] = ABSENT THEN "none"
    ELSE IF result[j][a] = "PENDING" THEN "offered"
    ELSE "taken"

Delivery(j, a) ==
    [stage |-> Stage(j, a),
     recorded |-> IF result[j][a] \in Outcomes THEN result[j][a] ELSE NoStatus]

Promise ==
    INSTANCE JobPromise WITH
        delivery <- [j \in Jobs |-> [a \in Agents |-> Delivery(j, a)]],
        cleared <- {j \in Jobs : job[j] # ABSENT /\ (~requires[j] \/ approver[j] # NoUser)}

\* The pipeline keeps the promise: through concurrent handlers, retried heartbeats, lost
\* responses and sweeps every delivery makes only the promised moves.
KeepsPromise == Promise!PromiseSpec

-----------------------------------------------------------------------------
(* Liveness.                                                               *)

\* No job stays active for ever, so its dedup key is freed in the end: through its agents'
\* reports or, when they are lost or the aggregation missed them, through the sweep
\* (job_timeout.py), as long as the sweep goes on.
EveryJobEnds ==
    SweepFairness => \A j \in Jobs : job[j] \in ActiveStatuses ~> job[j] \notin ActiveStatuses

\* A queued report survives failed heartbeats and reaches its row (sendHeartbeat keeps the
\* queue until a heartbeat succeeded), swept or not, as long as the agent goes on sending.
\* Stated for instances without agent restarts.
ReportsArrive ==
    DeliveryFairness => \A a \in Agents, j \in Jobs : j \in QueuedJobs(a) ~> result[j][a] \in Outcomes

-----------------------------------------------------------------------------
(* What the code's comments say, refuted by the runs that check it.        *)

\* Concurrent recomputes converge: with no result being applied, a job all of whose rows are
\* terminal is not active (the comment in recompute_job_status).
RecomputeConverges ==
    \A j \in Jobs :
        (/\ \A h \in Handlers : hRes[h][j] = NoStatus
         /\ Rows(j) # {}
         /\ \A a \in Rows(j) : result[j][a] \in TerminalRowStatuses)
        => job[j] \notin ActiveStatuses

\* A cancelled QUEUED job is cancelled outright: no agent is handed it any more
\* (the docstring of cancel_run about DELETE /jobs/{id}).
CancelledStaysPut ==
    [][\A j \in Jobs, a \in Agents :
          job[j] = "CANCELLED" /\ result[j][a] = "PENDING" => result'[j][a] # "RUNNING"]_vars

\* A manual cancel is final (the comment in recompute_job_status).
CancelIsFinal == [][\A j \in Jobs : job[j] = "CANCELLED" => job'[j] = "CANCELLED"]_vars
=============================================================================
