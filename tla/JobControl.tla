----------------------------- MODULE JobControl -----------------------------
(***************************************************************************)
(* The control plane's half of the job pipeline: the jobs and job_results  *)
(* tables, the API requests that create, approve and cancel jobs, the      *)
(* heartbeat handlers that record results and hand out work, and the       *)
(* timeout sweep.                                                          *)
(*                                                                         *)
(* PostgreSQL runs at its default isolation level, READ COMMITTED          *)
(* (db.py build_engine sets no other): a transaction is split here at the  *)
(* statements whose reads are used later, its writes become visible at     *)
(* commit, and the rows it has updated stay locked until then.             *)
(***************************************************************************)
EXTENDS Integers, FiniteSets, JobStatus

CONSTANTS
    Users,      \* authenticated API users
    Handlers,   \* heartbeat handler coroutines that may be alive at once
    Keys,       \* values of dedup_key
    DedupKey,   \* dedup_key of each job: equal type, targets and parameters
    Window,     \* PENDING_JOBS_PER_HEARTBEAT
    NoUser,     \* approved_at IS NULL
    NoJob,      \* no job is being recomputed
    NoAgent     \* an idle handler serves no agent

ASSUME ControlAssumption ==
    /\ Window \in Nat \ {0}
    /\ IsFiniteSet(Jobs)
    /\ DedupKey \in [Jobs -> Keys]
    /\ NoUser \notin Users
    /\ NoJob \notin Jobs
    /\ NoAgent \notin Agents

VARIABLES
    job,        \* jobs.status
    result,     \* job_results.status of each job and agent
    requires,   \* jobs.requires_approval
    creator,    \* jobs.created_by_actor
    approver,   \* who set jobs.approved_at, NoUser before
    held,       \* job_results.held_until lies in the future
    cancelling, \* cancel requests that have loaded their job and not committed
    sweeping,   \* jobs the timeout sweep has loaded and not committed
    pc,         \* where each heartbeat handler is
    hAgent,     \* the agent whose heartbeat it serves
    hRes,       \* the job results of that heartbeat
    hTodo,      \* touched jobs that recompute_job_status has not seen yet
    hCur,       \* the job recompute_job_status is working on
    hAgg,       \* the status it derived from the rows it read
    hJob,       \* job statuses the session will write at commit
    hSel,       \* pending_jobs: selected and signed; after the claim, sent
    hHeld       \* held_ids: selected, signing failed

rowVars == <<job, result, requires, creator, approver, held>>
handlerVars == <<pc, hAgent, hRes, hTodo, hCur, hAgg, hJob, hSel, hHeld>>
controlVars == <<job, result, requires, creator, approver, held,
                 cancelling, sweeping,
                 pc, hAgent, hRes, hTodo, hCur, hAgg, hJob, hSel, hHeld>>

PCs == {"idle", "apply", "rows", "job", "commit", "select", "hold", "claim", "respond"}

\* The result maps a heartbeat may carry: at most one outcome per job.
ResultMaps == [Jobs -> Outcomes \cup {NoStatus}]
NoResults == [j \in Jobs |-> NoStatus]
NoWrites == [j \in Jobs |-> NoStatus]

ControlTypeOK ==
    /\ job \in [Jobs -> JobStatuses \cup {ABSENT}]
    /\ result \in [Jobs -> [Agents -> RowStatuses \cup {ABSENT}]]
    /\ requires \in [Jobs -> BOOLEAN]
    /\ creator \in [Jobs -> Users \cup {NoUser}]
    /\ approver \in [Jobs -> Users \cup {NoUser}]
    /\ held \in [Jobs -> [Agents -> BOOLEAN]]
    /\ cancelling \in SUBSET Jobs
    /\ sweeping \in SUBSET Jobs
    /\ pc \in [Handlers -> PCs]
    /\ hAgent \in [Handlers -> Agents \cup {NoAgent}]
    /\ hRes \in [Handlers -> ResultMaps]
    /\ hTodo \in [Handlers -> SUBSET Jobs]
    /\ hCur \in [Handlers -> Jobs \cup {NoJob}]
    /\ hAgg \in [Handlers -> JobStatuses \cup {NoStatus}]
    /\ hJob \in [Handlers -> [Jobs -> JobStatuses \cup {NoStatus}]]
    /\ hSel \in [Handlers -> SUBSET Jobs]
    /\ hHeld \in [Handlers -> SUBSET Jobs]

ControlInit ==
    /\ job = [j \in Jobs |-> ABSENT]
    /\ result = [j \in Jobs |-> [a \in Agents |-> ABSENT]]
    /\ requires = [j \in Jobs |-> FALSE]
    /\ creator = [j \in Jobs |-> NoUser]
    /\ approver = [j \in Jobs |-> NoUser]
    /\ held = [j \in Jobs |-> [a \in Agents |-> FALSE]]
    /\ cancelling = {}
    /\ sweeping = {}
    /\ pc = [h \in Handlers |-> "idle"]
    /\ hAgent = [h \in Handlers |-> NoAgent]
    /\ hRes = [h \in Handlers |-> NoResults]
    /\ hTodo = [h \in Handlers |-> {}]
    /\ hCur = [h \in Handlers |-> NoJob]
    /\ hAgg = [h \in Handlers |-> NoStatus]
    /\ hJob = [h \in Handlers |-> NoWrites]
    /\ hSel = [h \in Handlers |-> {}]
    /\ hHeld = [h \in Handlers |-> {}]

-----------------------------------------------------------------------------
(* API requests.                                                           *)

\* uq_jobs_dedup_key: the partial unique index over the active statuses.
UniqueActive(status) ==
    \A i, j \in Jobs :
        i # j /\ DedupKey[i] = DedupKey[j]
            => ~(status[i] \in ActiveStatuses /\ status[j] \in ActiveStatuses)

\* JobService.create_job by u for the agents T. The duplicate check and the unique
\* index together make the insert atomic: the loser of a race gets the same error.
CreateJob(j, u, T, gated) ==
    /\ job[j] = ABSENT
    /\ UniqueActive([job EXCEPT ![j] = "QUEUED"])
    /\ job' = [job EXCEPT ![j] = "QUEUED"]
    /\ result' = [result EXCEPT ![j] = [a \in Agents |-> IF a \in T THEN "PENDING" ELSE ABSENT]]
    /\ requires' = [requires EXCEPT ![j] = gated]
    /\ creator' = [creator EXCEPT ![j] = u]
    /\ UNCHANGED <<approver, held, cancelling, sweeping, handlerVars>>

\* approve_job without the four-eyes rule.
ApproveOwnJob(j, u) ==
    /\ job[j] # ABSENT
    /\ requires[j]
    /\ approver[j] = NoUser
    /\ approver' = [approver EXCEPT ![j] = u]
    /\ UNCHANGED <<job, result, requires, creator, held, cancelling, sweeping, handlerVars>>

\* JobService.approve_job: once, and never by the requester. The job's status is not
\* looked at. The signed claims it issues are best effort and leave the rows alone.
ApproveJob(j, u) ==
    /\ job[j] # ABSENT
    /\ requires[j]
    /\ approver[j] = NoUser
    /\ u # creator[j]
    /\ approver' = [approver EXCEPT ![j] = u]
    /\ UNCHANGED <<job, result, requires, creator, held, cancelling, sweeping, handlerVars>>

\* cancel_job, up to the check of the loaded status.
CancelLoad(j) ==
    /\ j \notin cancelling
    /\ job[j] \in Cancellable
    /\ cancelling' = cancelling \cup {j}
    /\ UNCHANGED <<rowVars, sweeping, handlerVars>>

\* cancel_job, the flush and commit: an UPDATE by primary key. The job's rows stay as they are.
CancelCommit(j) ==
    /\ j \in cancelling
    /\ job' = [job EXCEPT ![j] = "CANCELLED"]
    /\ cancelling' = cancelling \ {j}
    /\ UNCHANGED <<result, requires, creator, approver, held, sweeping, handlerVars>>

-----------------------------------------------------------------------------
(* Heartbeat handlers: applying the reported results.                      *)

\* Rows updated by h's open transaction.
Locks(h, j) == pc[h] \in {"rows", "job", "commit"} /\ hRes[h][j] # NoStatus

\* Some open transaction has updated the row of job j and agent a.
RowLocked(j, a) == \E h \in Handlers : hAgent[h] = a /\ Locks(h, j)

\* What h's transaction reads in the row of job j and agent a: its own write, or
\* the last committed value.
RowSeen(h, j, a) ==
    IF a = hAgent[h] /\ hRes[h][j] # NoStatus THEN hRes[h][j] ELSE result[j][a]

\* The jobs of the heartbeat's results that have a row for this agent.
Touched(h) == {j \in Jobs : hRes[h][j] # NoStatus /\ result[j][hAgent[h]] # ABSENT}

\* HeartbeatStream receives a heartbeat of agent a with the results R; the identity
\* gate and update_heartbeat's own row are behind it.
Receive(h, a, R) ==
    /\ pc[h] = "idle"
    /\ pc' = [pc EXCEPT ![h] = IF R = NoResults THEN "select" ELSE "apply"]
    /\ hAgent' = [hAgent EXCEPT ![h] = a]
    /\ hRes' = [hRes EXCEPT ![h] = R]
    /\ UNCHANGED <<rowVars, cancelling, sweeping, hTodo, hCur, hAgg, hJob, hSel, hHeld>>

\* _apply_job_results writes the rows; the flush of the first recompute locks them.
FlushResults(h) ==
    /\ pc[h] = "apply"
    /\ \A j \in Touched(h) : ~RowLocked(j, hAgent[h])
    /\ hTodo' = [hTodo EXCEPT ![h] = Touched(h)]
    /\ hRes' = [hRes EXCEPT ![h] =
                  [j \in Jobs |-> IF j \in Touched(h) THEN hRes[h][j] ELSE NoStatus]]
    /\ pc' = [pc EXCEPT ![h] = IF Touched(h) = {} THEN "select" ELSE "rows"]
    /\ UNCHANGED <<rowVars, cancelling, sweeping, hAgent, hCur, hAgg, hJob, hSel, hHeld>>

\* recompute_job_status(j), its SELECT of the job's rows.
RecomputeRows(h, j) ==
    /\ pc[h] = "rows"
    /\ j \in hTodo[h]
    /\ hCur' = [hCur EXCEPT ![h] = j]
    /\ hAgg' = [hAgg EXCEPT ![h] =
                  AggregateStatus({RowSeen(h, j, a) : a \in Agents} \ {ABSENT})]
    /\ hTodo' = [hTodo EXCEPT ![h] = @ \ {j}]
    /\ pc' = [pc EXCEPT ![h] = "job"]
    /\ UNCHANGED <<rowVars, cancelling, sweeping, hAgent, hRes, hJob, hSel, hHeld>>

\* recompute_job_status, its read of the job and the assignment of the new status. The
\* session writes the column only when the value differs from the one it loaded.
RecomputeJob(h) ==
    /\ pc[h] = "job"
    /\ hJob' = [hJob EXCEPT ![h][hCur[h]] =
                  IF job[hCur[h]] = "CANCELLED" \/ hAgg[h] = job[hCur[h]]
                  THEN NoStatus ELSE hAgg[h]]
    /\ pc' = [pc EXCEPT ![h] = IF hTodo[h] = {} THEN "commit" ELSE "rows"]
    /\ UNCHANGED <<rowVars, cancelling, sweeping, hAgent, hRes, hTodo, hCur, hAgg, hSel, hHeld>>

\* Every job status written back, also the ones that were never assigned.
BlindWrite(h) == [j \in Jobs |-> hJob[h][j]]

\* The jobs and rows as h's transaction leaves them.
JobsAfter(h) == [j \in Jobs |-> IF hJob[h][j] # NoStatus THEN hJob[h][j] ELSE job[j]]
RowsAfter(h) == [j \in Jobs |-> [a \in Agents |-> RowSeen(h, j, a)]]

\* The commit on a table without the unique index.
CommitWithoutIndex(h) ==
    /\ pc[h] = "commit"
    /\ job' = JobsAfter(h)
    /\ result' = RowsAfter(h)
    /\ pc' = [pc EXCEPT ![h] = "select"]
    /\ hRes' = [hRes EXCEPT ![h] = NoResults]
    /\ hCur' = [hCur EXCEPT ![h] = NoJob]
    /\ hAgg' = [hAgg EXCEPT ![h] = NoStatus]
    /\ hJob' = [hJob EXCEPT ![h] = NoWrites]
    /\ UNCHANGED <<requires, creator, approver, held, cancelling, sweeping,
                   hAgent, hTodo, hSel, hHeld>>

\* The commit of _apply_job_results. It fails, and the handler with it, when it would
\* give a dedup key a second active job: then only HandlerFail is left.
CommitResults(h) ==
    /\ pc[h] = "commit"
    /\ UniqueActive(JobsAfter(h))
    /\ job' = JobsAfter(h)
    /\ result' = RowsAfter(h)
    /\ pc' = [pc EXCEPT ![h] = "select"]
    /\ hRes' = [hRes EXCEPT ![h] = NoResults]
    /\ hCur' = [hCur EXCEPT ![h] = NoJob]
    /\ hAgg' = [hAgg EXCEPT ![h] = NoStatus]
    /\ hJob' = [hJob EXCEPT ![h] = NoWrites]
    /\ UNCHANGED <<requires, creator, approver, held, cancelling, sweeping,
                   hAgent, hTodo, hSel, hHeld>>

-----------------------------------------------------------------------------
(* Heartbeat handlers: handing out pending work.                           *)

\* The rows get_pending_jobs may return to agent a: the job's own status is no criterion.
Eligible(a) ==
    {j \in Jobs : /\ result[j][a] = "PENDING"
                  /\ ~held[j][a]
                  /\ ~requires[j] \/ approver[j] # NoUser}

\* One round of the handler's loop: select at most the rest of the window among the jobs
\* not seen in this heartbeat, sign each, keep the ones whose signing fails (F) apart;
\* another round only when this one held something back and the window is not full.
SelectRound(h, B, F) ==
    LET open == Eligible(hAgent[h]) \ (hSel[h] \cup hHeld[h])
        room == Window - Cardinality(hSel[h])
    IN  /\ pc[h] = "select"
        /\ B \subseteq open
        /\ Cardinality(B) = IF Cardinality(open) < room THEN Cardinality(open) ELSE room
        /\ F \subseteq B
        /\ hSel' = [hSel EXCEPT ![h] = @ \cup (B \ F)]
        /\ hHeld' = [hHeld EXCEPT ![h] = @ \cup F]
        /\ pc' = [pc EXCEPT ![h] =
                    IF F # {} /\ Cardinality(hSel[h] \cup (B \ F)) < Window THEN "select"
                    ELSE IF hHeld[h] \cup F # {} THEN "hold" ELSE "claim"]
        /\ UNCHANGED <<rowVars, cancelling, sweeping, hAgent, hRes, hTodo, hCur, hAgg, hJob>>

\* mark_held: the jobs that could not be signed are skipped for HELD_JOB_SECONDS. The
\* UPDATE waits for open transactions on the rows.
MarkHeld(h) ==
    /\ pc[h] = "hold"
    /\ \A j \in hHeld[h] : ~RowLocked(j, hAgent[h])
    /\ held' = [j \in Jobs |-> [a \in Agents |->
                  held[j][a] \/ (a = hAgent[h] /\ j \in hHeld[h])]]
    /\ hHeld' = [hHeld EXCEPT ![h] = {}]
    /\ pc' = [pc EXCEPT ![h] = "claim"]
    /\ UNCHANGED <<job, result, requires, creator, approver, cancelling, sweeping,
                   hAgent, hRes, hTodo, hCur, hAgg, hJob, hSel>>

\* mark_dispatched whose UPDATE is never committed: the jobs are sent, their rows stay PENDING.
SendUnclaimed(h) ==
    /\ pc[h] = "claim"
    /\ pc' = [pc EXCEPT ![h] = "respond"]
    /\ UNCHANGED <<rowVars, cancelling, sweeping, hAgent, hRes, hTodo, hCur, hAgg, hJob, hSel, hHeld>>

\* mark_dispatched: claim the selected rows that are still PENDING, move their jobs to
\* RUNNING, send what was claimed. The UPDATE waits for locked rows and looks again.
MarkDispatched(h) ==
    LET a == hAgent[h]
        claimed == {j \in hSel[h] : result[j][a] = "PENDING"}
    IN  /\ pc[h] = "claim"
        /\ \A j \in claimed : ~RowLocked(j, a)
        /\ result' = [j \in Jobs |-> IF j \in claimed
                                     THEN [result[j] EXCEPT ![a] = "RUNNING"] ELSE result[j]]
        /\ held' = [j \in Jobs |-> IF j \in claimed
                                   THEN [held[j] EXCEPT ![a] = FALSE] ELSE held[j]]
        /\ job' = [j \in Jobs |-> IF j \in claimed /\ job[j] \in Cancellable
                                  THEN "RUNNING" ELSE job[j]]
        /\ hSel' = [hSel EXCEPT ![h] = claimed]
        /\ pc' = [pc EXCEPT ![h] = "respond"]
        /\ UNCHANGED <<requires, creator, approver, cancelling, sweeping,
                       hAgent, hRes, hTodo, hCur, hAgg, hJob, hHeld>>

\* The handler is done: its response, if it got that far, is on the wire or lost.
Finish(h) ==
    /\ pc' = [pc EXCEPT ![h] = "idle"]
    /\ hAgent' = [hAgent EXCEPT ![h] = NoAgent]
    /\ hRes' = [hRes EXCEPT ![h] = NoResults]
    /\ hTodo' = [hTodo EXCEPT ![h] = {}]
    /\ hCur' = [hCur EXCEPT ![h] = NoJob]
    /\ hAgg' = [hAgg EXCEPT ![h] = NoStatus]
    /\ hJob' = [hJob EXCEPT ![h] = NoWrites]
    /\ hSel' = [hSel EXCEPT ![h] = {}]
    /\ hHeld' = [hHeld EXCEPT ![h] = {}]
    /\ UNCHANGED <<rowVars, cancelling, sweeping>>

\* yield: the response carries the claimed jobs.
Respond(h) == pc[h] = "respond" /\ Finish(h)

\* Any exception (swallowed at the end of HeartbeatStream), a dropped stream or the end of
\* the process: the open transaction rolls back, nothing is answered.
HandlerFail(h) == pc[h] # "idle" /\ Finish(h)

-----------------------------------------------------------------------------
(* Time and the timeout sweep.                                             *)

\* HELD_JOB_SECONDS have passed since the hold was set.
HoldExpires(j, a) ==
    /\ held[j][a]
    /\ held' = [held EXCEPT ![j][a] = FALSE]
    /\ UNCHANGED <<job, result, requires, creator, approver, cancelling, sweeping, handlerVars>>

\* _sweep looking for jobs that were never picked up only.
SweepWaitingOnly(S) ==
    /\ sweeping = {}
    /\ S # {}
    /\ \A j \in S : job[j] \in Cancellable
    /\ sweeping' = S
    /\ UNCHANGED <<rowVars, cancelling, handlerVars>>

\* JobTimeoutWorker._sweep, its SELECT of the stale jobs: S are the active jobs that are
\* older than fleet.job_stale_timeout_minutes; how old a job is is left open.
SweepLoad(S) ==
    /\ sweeping = {}
    /\ S # {}
    /\ \A j \in S : job[j] \in ActiveStatuses
    /\ sweeping' = S
    /\ UNCHANGED <<rowVars, cancelling, handlerVars>>

\* _sweep marking every row of a swept job, not only the PENDING and RUNNING ones.
SweepEveryRow ==
    /\ sweeping # {}
    /\ job' = [j \in Jobs |-> IF j \in sweeping THEN "TIMEOUT" ELSE job[j]]
    /\ result' = [j \in Jobs |-> [a \in Agents |->
                    IF j \in sweeping /\ result[j][a] # ABSENT
                    THEN "TIMEOUT" ELSE result[j][a]]]
    /\ sweeping' = {}
    /\ UNCHANGED <<requires, creator, approver, held, cancelling, handlerVars>>

\* _sweep, its updates and commit: the loaded jobs become TIMEOUT whatever they are by now,
\* their PENDING and RUNNING rows too. An UPDATE of a row waits for its lock.
SweepCommit ==
    /\ sweeping # {}
    /\ \A j \in sweeping, a \in Agents :
          result[j][a] \in {"PENDING", "RUNNING"} => ~RowLocked(j, a)
    /\ job' = [j \in Jobs |-> IF j \in sweeping THEN "TIMEOUT" ELSE job[j]]
    /\ result' = [j \in Jobs |-> [a \in Agents |->
                    IF j \in sweeping /\ result[j][a] \in {"PENDING", "RUNNING"}
                    THEN "TIMEOUT" ELSE result[j][a]]]
    /\ sweeping' = {}
    /\ UNCHANGED <<requires, creator, approver, held, cancelling, handlerVars>>

\* The sweep raises (a lost connection, a restart of the process) and rolls back.
SweepFail ==
    /\ sweeping # {}
    /\ sweeping' = {}
    /\ UNCHANGED <<rowVars, cancelling, handlerVars>>
=============================================================================
