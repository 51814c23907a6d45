----------------------------- MODULE JobStatus -----------------------------
(***************************************************************************)
(* The status values of the jobs and job_results tables and the pure rule  *)
(* that derives a job's status from the statuses of its per-agent rows.    *)
(***************************************************************************)
CONSTANTS
    Jobs,       \* identities of the jobs that may be created
    Agents      \* registered agents

\* Values of the jobstatus enum (models/job.py, class JobStatus).
JobStatuses == {"QUEUED", "SCHEDULED", "PENDING", "RUNNING",
                "COMPLETED", "FAILED", "TIMEOUT", "CANCELLED"}

\* Statuses the dedup index and the timeout sweep call active / non-terminal.
ActiveStatuses == {"QUEUED", "SCHEDULED", "PENDING", "RUNNING"}

\* Statuses from which DELETE /jobs/{id} accepts a cancellation.
Cancellable == {"QUEUED", "SCHEDULED"}

\* Statuses of one job_results row.
RowStatuses == {"PENDING", "RUNNING", "COMPLETED", "FAILED", "TIMEOUT",
                "CANCELLED", "SKIPPED"}

TerminalRowStatuses == {"COMPLETED", "FAILED", "TIMEOUT", "CANCELLED", "SKIPPED"}

\* What an agent may report for a job it ran or refused: exit code 0 or not.
Outcomes == {"COMPLETED", "FAILED"}

\* A job or a row that has not been created; and "no status computed".
ABSENT == "ABSENT"
NoStatus == "NONE"

\* recompute_job_status without the failure priority: a success among the rows wins.
AnySuccessWins(S) ==
    IF S = {} THEN NoStatus
    ELSE IF S \subseteq TerminalRowStatuses
         THEN IF "COMPLETED" \in S THEN "COMPLETED" ELSE "FAILED"
         ELSE IF S \cap TerminalRowStatuses # {} THEN "RUNNING" ELSE NoStatus

\* The status recompute_job_status derives from the set S of its rows' statuses;
\* NoStatus when it leaves the job alone.
AggregateStatus(S) ==
    IF S = {} THEN NoStatus
    ELSE IF S \subseteq TerminalRowStatuses
         THEN IF "FAILED" \in S THEN "FAILED"
              ELSE IF "TIMEOUT" \in S THEN "TIMEOUT"
              ELSE IF "CANCELLED" \in S THEN "CANCELLED"
              ELSE "COMPLETED"
         ELSE IF S \cap TerminalRowStatuses # {} THEN "RUNNING" ELSE NoStatus
=============================================================================
