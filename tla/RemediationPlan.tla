-------------------------- MODULE RemediationPlan --------------------------
(***************************************************************************)
(* Remediation plans: the plan workflow on top of jobs, the maintenance    *)
(* window scheduler, the AUTOMATIC loop, and verification.  A request or   *)
(* a worker's pass over one plan is a session: it loads the plan, decides, *)
(* creates a job (create_job commits) and links it in a second commit.     *)
(* Sessions interleave; agents report, jobs are cancelled and swept, and   *)
(* the compliance engine evaluates the rule at any time.                   *)
(*                                                                         *)
(* All plans of an instance treat the same rule on the same agents and the *)
(* same drift event.  The agents' results are the job's outcome and        *)
(* whether at least one of them completed.                                 *)
(***************************************************************************)
EXTENDS Integers, Sequences, FiniteSets

CONSTANTS
    Plans,        \* rows of remediation_plans
    Sessions,     \* concurrent requests and worker passes
    Kinds,        \* the kinds of session that run
    Modes,        \* remediation modes of the enabled policies that cover the rule
    Windowed,     \* plans with a maintenance window (not emergency)
    InScope,      \* plans whose agents match the window's scope
    Verifiable,   \* plans with a rule on some action
    Cap,          \* auto_remediation_max_plans_per_day
    MaxJobs, MaxDay, MaxCrash, MaxEvals, \* bounds on the history
    Reports       \* which reports are unusual: "early" before the job is linked, "late" after
                  \* its timeout, "repeat" of one already stored

VARIABLES
    plan,     \* the plans: status, trigger, day of creation, who approved
    jobs,     \* COMPLIANCE_REMEDIATE jobs in order of creation; since is the latest evaluation
              \* after completed_at, real (history) the latest after the last change of status
    drift,    \* status of the drift event
    verdict,  \* latest evaluation of the rule, and whether it ever failed
    open,     \* the maintenance window is open
    day,
    sess,     \* what each session is doing
    sweep,    \* jobs a timeout sweep has marked and not yet carried over
    crashes

vars == <<plan, jobs, drift, verdict, open, day, sess, sweep, crashes>>

OpenDrift == {"OPEN", "ACKNOWLEDGED", "IN_REMEDIATION"}
Ended == {"COMPLETED", "FAILED", "TIMEOUT", "CANCELLED"}

IdleSession == [kind |-> "none", plan |-> CHOOSE p \in Plans : TRUE, pc |-> "idle", job |-> 0]

Init ==
    /\ plan = [p \in Plans |-> [status |-> "NONE", auto |-> FALSE, day |-> 0, by |-> "none"]]
    /\ jobs = << >>
    /\ drift = "OPEN"
    /\ verdict = [last |-> "FAIL", failed |-> TRUE, count |-> 0]
    /\ open \in BOOLEAN
    /\ day = 0
    /\ sess = [s \in Sessions |-> IdleSession]
    /\ sweep = {}
    /\ crashes = 0

------------------------------------------------------------------------------
(* Links, latest jobs and the carry-over from job to plan.                 *)

Linked(js, p) == {j \in DOMAIN js : js[j].plan = p /\ js[j].linked}
\* ORDER BY Job.created_at DESC over the plan's links; 0 when there is none.
LatestLink(js, p) == IF Linked(js, p) = {} THEN 0
                     ELSE CHOOSE j \in Linked(js, p) : \A i \in Linked(js, p) : i <= j
LatestApply(js, p) == LET A == {j \in Linked(js, p) : js[j].op = "APPLY"} IN
                      IF A = {} THEN 0 ELSE CHOOSE j \in A : \A i \in A : i <= j

\* create_job's dedup key is the type, the targets and the parameters: plan and operation.
Duplicate(p, op) == \E j \in DOMAIN jobs :
    jobs[j].plan = p /\ jobs[j].op = op /\ jobs[j].status = "ACTIVE"

\* The plan status that an ended job leads to: only the plan's latest job counts, and a dry
\* run never does.
SyncStatus(js, j) ==
    IF js[j].op = "DRY_RUN" \/ LatestLink(js, js[j].plan) # j THEN plan[js[j].plan].status
    ELSE IF js[j].status # "COMPLETED" THEN "FAILED"
    ELSE IF js[j].op = "ROLLBACK" THEN "ROLLED_BACK"
    ELSE IF js[j].plan \in Verifiable THEN "VERIFYING" ELSE "COMPLETED"

\* Mutant: the drift event is left IN_REMEDIATION.
RevertNothing == drift

RevertDrift == IF drift = "IN_REMEDIATION" THEN "OPEN" ELSE drift

\* _sync_remediation_plan for job j of js.
Sync(js, j) ==
    LET p == js[j].plan IN
    /\ plan' = [plan EXCEPT ![p].status = SyncStatus(js, j)]
    /\ drift' = IF /\ js[j].op # "DRY_RUN" /\ LatestLink(js, p) = j
                   /\ js[j].op = "ROLLBACK" \/ js[j].status # "COMPLETED"
                THEN RevertDrift ELSE drift

------------------------------------------------------------------------------
(* Sessions: loading.                                                      *)

Begin(s, k, p) == /\ sess[s] = IdleSession /\ k \in Kinds
                  /\ sess' = [sess EXCEPT ![s] = [kind |-> k, plan |-> p, pc |-> "decide", job |-> 0]]
                  /\ UNCHANGED <<plan, jobs, drift, verdict, open, day, sweep, crashes>>
Finish(s) == sess' = [sess EXCEPT ![s] = IdleSession]
At(s, k) == sess[s].kind = k /\ sess[s].pc = "decide"
Goto(s, pc) == sess' = [sess EXCEPT ![s].pc = pc]
SetStatus(p, st) == plan' = [plan EXCEPT ![p].status = st]

SubmitLoad(s, p) == plan[p].status = "DRAFT" /\ Begin(s, "submit", p)
\* approve refuses the plan's own creator; the approver here is someone else.
ApproveLoad(s, p) == plan[p].status = "PENDING_APPROVAL" /\ Begin(s, "approve", p)
DryRunLoad(s, p) == plan[p].status # "NONE" /\ Begin(s, "dry_run", p)
RollbackLoad(s, p) == plan[p].status \in {"COMPLETED", "FAILED"} /\ Begin(s, "rollback", p)
\* _tick: APPROVED plans with a window.
SchedulerLoad(s, p) == plan[p].status = "APPROVED" /\ p \in Windowed /\ Begin(s, "scheduler", p)
\* _resolve_pending_dry_runs: AUTOMATIC plans in DRAFT.
AutoLoad(s, p) == plan[p].status = "DRAFT" /\ plan[p].auto /\ Begin(s, "auto", p)
VerifyLoad(s, p) == plan[p].status = "VERIFYING" /\ Begin(s, "verify", p)

Today == {q \in Plans : plan[q].status # "NONE" /\ plan[q].auto /\ plan[q].day = day}

\* _trigger_new_automatic_plans: the daily cap, the candidates, the attempts of today, and
\* eligible_for_automatic with its open window and no plan at work on this agent and rule.
\* The candidate query keeps the FAIL rows before it takes the latest of each pair.
AutoEligible == /\ "AUTOMATIC" \in Modes /\ verdict.failed /\ open
                /\ Cardinality(Today) < Cap /\ Today = {}
                /\ ~\E q \in Plans : plan[q].status \in {"EXECUTING", "VERIFYING"}

TriggerLoad(s) == AutoEligible /\ Begin(s, "trigger", IdleSession.plan)

------------------------------------------------------------------------------
(* Sessions: deciding and committing.                                      *)

\* create_plan: refused when only MONITOR policies cover the rule.
CreatePlan(p) ==
    /\ "create" \in Kinds /\ plan[p].status = "NONE"
    /\ ~(Modes # {} /\ Modes \subseteq {"MONITOR"})
    /\ plan' = [plan EXCEPT ![p] = [status |-> "DRAFT", auto |-> FALSE, day |-> day, by |-> "none"]]
    /\ UNCHANGED <<jobs, drift, verdict, open, day, sess, sweep, crashes>>

FreshAuto == {q \in Windowed \cap InScope : plan[q].status = "NONE"}

\* _create_automatic_plan: the plan first, then its mandatory dry run.
TriggerCommit(s) ==
    /\ At(s, "trigger")
    /\ \/ \E q \in FreshAuto :
            /\ plan' = [plan EXCEPT ![q] = [status |-> "DRAFT", auto |-> TRUE, day |-> day, by |-> "none"]]
            /\ sess' = [sess EXCEPT ![s].pc = "job", ![s].plan = q]
       \/ FreshAuto = {} /\ Finish(s) /\ UNCHANGED plan
    /\ UNCHANGED <<jobs, drift, verdict, open, day, sweep, crashes>>

SubmitCommit(s) ==
    /\ At(s, "submit")
    /\ SetStatus(sess[s].plan, "PENDING_APPROVAL") /\ Finish(s)
    /\ UNCHANGED <<jobs, drift, verdict, open, day, sweep, crashes>>

DryRunPassed(j) == jobs[j].status = "COMPLETED"

\* The grace period outlasts a dispatch that is still going on.
Dispatching(p) == \E t \in Sessions : sess[t].kind = "trigger" /\ sess[t].plan = p /\ sess[t].pc # "decide"

\* A dry run that passed submits the plan and goes on to approve it; one that failed, or was
\* never dispatched within the grace period, fails the plan.
AutoDecide(s) ==
    LET p == sess[s].plan
        j == LatestLink(jobs, p)
        dry == j # 0 /\ jobs[j].op = "DRY_RUN" IN
    /\ At(s, "auto")
    /\ IF dry /\ DryRunPassed(j)
       THEN SetStatus(p, "PENDING_APPROVAL") /\ Goto(s, "approve")
       ELSE /\ Finish(s)
            /\ \/ dry /\ jobs[j].status = "ACTIVE" /\ UNCHANGED plan
               \/ dry /\ jobs[j].status \in Ended \ {"COMPLETED"} /\ SetStatus(p, "FAILED")
               \/ ~dry /\ (IF Dispatching(p) THEN UNCHANGED plan ELSE SetStatus(p, "FAILED"))
    /\ UNCHANGED <<jobs, drift, verdict, open, day, sweep, crashes>>

\* approve: dispatch now, or wait for the window as APPROVED.
ApproveDecide(s) ==
    LET p == sess[s].plan
        by == IF sess[s].kind = "auto" THEN "system" ELSE "human" IN
    /\ At(s, "approve") \/ (sess[s].kind = "auto" /\ sess[s].pc = "approve")
    /\ IF p \notin Windowed \/ open
       THEN Goto(s, "job") /\ plan' = [plan EXCEPT ![p].by = by]
       ELSE Finish(s) /\ plan' = [plan EXCEPT ![p].status = "APPROVED", ![p].by = by]
    /\ UNCHANGED <<jobs, drift, verdict, open, day, sweep, crashes>>

SchedulerDecide(s) ==
    /\ At(s, "scheduler")
    /\ IF open /\ sess[s].plan \in InScope THEN Goto(s, "job") ELSE Finish(s)
    /\ UNCHANGED <<plan, jobs, drift, verdict, open, day, sweep, crashes>>

DryRunDecide(s) ==
    /\ At(s, "dry_run") /\ Goto(s, "job")
    /\ UNCHANGED <<plan, jobs, drift, verdict, open, day, sweep, crashes>>

\* rollback: the latest APPLY job must have completed on some agent.
RollbackDecide(s) ==
    LET j == LatestApply(jobs, sess[s].plan) IN
    /\ At(s, "rollback")
    /\ IF j # 0 /\ jobs[j].done THEN Goto(s, "job") ELSE Finish(s)
    /\ UNCHANGED <<plan, jobs, drift, verdict, open, day, sweep, crashes>>

Op(k) == CASE k = "rollback" -> "ROLLBACK"
           [] k \in {"dry_run", "trigger"} -> "DRY_RUN"
           [] OTHER -> "APPLY"

\* create_job commits the job; an active duplicate is refused and ends the session.
CreateJob(s) ==
    LET p == sess[s].plan
        op == Op(sess[s].kind) IN
    /\ sess[s].pc = "job" /\ Len(jobs) < MaxJobs
    /\ IF Duplicate(p, op) THEN Finish(s) /\ UNCHANGED jobs
       ELSE /\ jobs' = Append(jobs, [plan |-> p, op |-> op, status |-> "ACTIVE",
                                     linked |-> FALSE, done |-> FALSE, since |-> "none", real |-> "none"])
            /\ sess' = [sess EXCEPT ![s].pc = "link", ![s].job = Len(jobs) + 1]
    /\ UNCHANGED <<plan, drift, verdict, open, day, sweep, crashes>>

\* The link, the status and the drift event, in one commit.
LinkJob(s) ==
    LET p == sess[s].plan
        op == Op(sess[s].kind) IN
    /\ sess[s].pc = "link"
    /\ jobs' = [jobs EXCEPT ![sess[s].job].linked = TRUE]
    /\ IF op = "DRY_RUN" THEN UNCHANGED plan ELSE SetStatus(p, "EXECUTING")
    /\ drift' = IF op = "APPLY" /\ drift \in OpenDrift THEN "IN_REMEDIATION" ELSE drift
    /\ Finish(s)
    /\ UNCHANGED <<verdict, open, day, sweep, crashes>>

\* Mutant: the latest evaluation counts although it is older than the job.
VerdictSinceAny(j) == verdict.last

\* The latest evaluation after the APPLY job completed.
VerdictSince(j) == jobs[j].since

\* _verify_plan: all PASS, a FAIL, or too long without a verdict; a newer job that is not an
\* APPLY ends the pass.
VerifyDecide(s) ==
    LET p == sess[s].plan
        j == LatestLink(jobs, p) IN
    /\ At(s, "verify") /\ Finish(s)
    /\ \/ /\ j = 0 \/ jobs[j].op # "APPLY"
          /\ UNCHANGED <<plan, drift>>
       \/ /\ j # 0 /\ jobs[j].op = "APPLY"
          /\ \/ /\ VerdictSince(j) = "PASS"
                /\ SetStatus(p, "COMPLETED")
                /\ drift' = IF drift \in OpenDrift THEN "RESOLVED" ELSE drift
             \/ /\ VerdictSince(j) # "PASS"
                /\ SetStatus(p, "FAILED") /\ drift' = RevertDrift
             \/ /\ VerdictSince(j) = "none"
                /\ UNCHANGED <<plan, drift>>
    /\ UNCHANGED <<jobs, verdict, open, day, sweep, crashes>>

------------------------------------------------------------------------------
(* Agents, the sweep, operators and the world.                             *)

\* A heartbeat brings the last missing result (or one already seen):
\* recompute_job_status and the carry-over are one transaction.  A cancelled job stays so.
\* completed_at is set once, by the sweep or by the first report.
Report(j, ok, done) ==
    LET js == [jobs EXCEPT ![j].status = IF ok THEN "COMPLETED" ELSE "FAILED", ![j].done = done] IN
    /\ ok => done
    /\ jobs[j].linked \/ "early" \in Reports
    /\ \/ jobs[j].status = "ACTIVE"
       \/ jobs[j].status = "TIMEOUT" /\ "late" \in Reports
       \/ "repeat" \in Reports /\ js[j].status = jobs[j].status /\ done = jobs[j].done
    /\ jobs' = [js EXCEPT ![j].real = IF js[j].status = jobs[j].status THEN @ ELSE "none"]
    /\ Sync(js, j)
    /\ UNCHANGED <<verdict, open, day, sess, sweep, crashes>>

\* DELETE /jobs/{id}: status and carry-over in one transaction.
CancelJob(j) ==
    LET js == [jobs EXCEPT ![j].status = "CANCELLED"] IN
    /\ jobs[j].status = "ACTIVE" /\ (jobs[j].linked \/ "early" \in Reports)
    /\ jobs' = js /\ Sync(js, j)
    /\ UNCHANGED <<verdict, open, day, sess, sweep, crashes>>

\* JobTimeoutWorker: the timeouts are committed first, ...
SweepMark(j) ==
    /\ jobs[j].status = "ACTIVE" /\ (jobs[j].linked \/ "early" \in Reports)
    /\ jobs' = [jobs EXCEPT ![j].status = "TIMEOUT"]
    /\ sweep' = sweep \cup {j}
    /\ UNCHANGED <<plan, drift, verdict, open, day, sess, crashes>>

\* Mutant: the timeouts are not carried over.
SweepSyncNothing(j) ==
    /\ j \in sweep
    /\ sweep' = sweep \ {j}
    /\ UNCHANGED <<plan, drift, jobs, verdict, open, day, sess, crashes>>

\* ... and carried over to the plans in a second transaction.  The job may have been
\* reported in between: the session holds the object it marked.
SweepSync(j) ==
    /\ j \in sweep
    /\ sweep' = sweep \ {j}
    /\ Sync([jobs EXCEPT ![j].status = "TIMEOUT"], j)
    /\ UNCHANGED <<jobs, verdict, open, day, sess, crashes>>

\* The compliance engine stores an evaluation; it is fresh for every job that has ended.
Evaluate(r) ==
    /\ verdict.count < MaxEvals
    /\ verdict' = [last |-> r, failed |-> verdict.failed \/ r = "FAIL", count |-> verdict.count + 1]
    /\ jobs' = [j \in DOMAIN jobs |-> IF jobs[j].status \in Ended \ {"CANCELLED"}
                                      THEN [jobs[j] EXCEPT !.since = r, !.real = r] ELSE jobs[j]]
    /\ UNCHANGED <<plan, drift, open, day, sess, sweep, crashes>>

\* acknowledge, suppress and resolve on the drift event.
OperatorDrift(st) ==
    /\ "drift" \in Kinds /\ drift \in OpenDrift /\ st # drift
    /\ drift' = st
    /\ UNCHANGED <<plan, jobs, verdict, open, day, sess, sweep, crashes>>

WindowToggle == /\ Windowed # {} /\ open' = ~open
                /\ UNCHANGED <<plan, jobs, drift, verdict, day, sess, sweep, crashes>>

NextDay == /\ day < MaxDay /\ day' = day + 1
           /\ \A s \in Sessions : sess[s] = IdleSession
           /\ UNCHANGED <<plan, jobs, drift, verdict, open, sess, sweep, crashes>>

\* A replica restarts: its session, or the sweep's second half, is gone.
Crash(s) == /\ crashes < MaxCrash /\ crashes' = crashes + 1
            /\ \/ sess[s] # IdleSession /\ Finish(s) /\ UNCHANGED sweep
               \/ sweep # {} /\ sweep' = {} /\ UNCHANGED sess
            /\ UNCHANGED <<plan, jobs, drift, verdict, open, day>>

Load(s, p) == \/ SubmitLoad(s, p) \/ ApproveLoad(s, p) \/ DryRunLoad(s, p) \/ RollbackLoad(s, p)
              \/ SchedulerLoad(s, p) \/ AutoLoad(s, p) \/ VerifyLoad(s, p)

Step(s) == \/ TriggerCommit(s) \/ SubmitCommit(s) \/ AutoDecide(s) \/ ApproveDecide(s)
           \/ SchedulerDecide(s) \/ DryRunDecide(s) \/ RollbackDecide(s) \/ VerifyDecide(s)
           \/ CreateJob(s) \/ LinkJob(s)

Next ==
    \/ \E p \in Plans : CreatePlan(p)
    \/ \E s \in Sessions, p \in Plans : Load(s, p)
    \/ \E s \in Sessions : TriggerLoad(s) \/ Step(s) \/ Crash(s)
    \/ \E j \in DOMAIN jobs : \/ \E ok, done \in BOOLEAN : Report(j, ok, done)
                              \/ CancelJob(j) \/ SweepMark(j) \/ SweepSync(j)
    \/ \E r \in {"PASS", "FAIL"} : Evaluate(r)
    \/ \E st \in {"ACKNOWLEDGED", "SUPPRESSED", "RESOLVED"} : OperatorDrift(st)
    \/ WindowToggle \/ NextDay

Spec == Init /\ [][Next]_vars

\* The workers tick for ever: a loaded plan is worked on, a DRAFT of the autopilot is looked
\* at again, stale jobs are swept.  Operators, agents and windows owe nothing.
Fairness ==
    /\ \A s \in Sessions : WF_vars(Step(s))
    /\ \A p \in Plans : SF_vars(\E s \in Sessions : AutoLoad(s, p))
    /\ \A p \in Plans : SF_vars(\E s \in Sessions : VerifyLoad(s, p))
    /\ \A j \in 1..MaxJobs : WF_vars(j \in DOMAIN jobs /\ SweepMark(j))
    /\ \A j \in 1..MaxJobs : WF_vars(j \in DOMAIN jobs /\ SweepSync(j))

------------------------------------------------------------------------------
(* Properties.                                                             *)

\* A drift event is IN_REMEDIATION only while a plan is at work on it.
DriftHasPlan ==
    drift = "IN_REMEDIATION" => \E p \in Plans : plan[p].status \in {"EXECUTING", "VERIFYING"}

\* COMPLETED means checked: verification completes a plan only when the rule passed in an
\* evaluation that came after the APPLY job really ended.
Completes ==
    \A p \in Plans : plan[p].status = "VERIFYING" /\ plan'[p].status = "COMPLETED" =>
        jobs[LatestLink(jobs, p)].real = "PASS"

\* An executing plan comes to an end even if its agents never answer.
ExecutionEnds == \A p \in Plans : plan[p].status = "EXECUTING" ~> plan[p].status # "EXECUTING"

============================================================================
