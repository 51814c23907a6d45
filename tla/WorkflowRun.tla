---------------------------- MODULE WorkflowRun ----------------------------
(***************************************************************************)
(* One published workflow version and its runs: the rows of workflow_runs  *)
(* and workflow_step_runs, the jobs the steps become, and the database     *)
(* sessions that move them: API requests (start, approve, reject, cancel)  *)
(* and ticks of the workflow runner, any number of them at once.           *)
(*                                                                         *)
(* A session reads its rows once and keeps them (SQLAlchemy's identity     *)
(* map: expire_on_commit=False, a later SELECT does not overwrite loaded   *)
(* attributes); at a commit it writes the columns it has changed.  Every   *)
(* create_job and create_alert commits, so one advance_run is several      *)
(* transactions, and other sessions and crashes fall between them.         *)
(***************************************************************************)
EXTENDS Integers, Sequences, FiniteSets

CONSTANTS
    Runs,       \* ids of runs, 1..n; a tick visits its runs in this order
    Order,      \* graph.steps: the steps in the order the YAML lists them
    Kind,       \* the normalized type of each step
    Edges,      \* graph.edges, records [from, to, on]
    Disabled,   \* steps with disabled: true
    Sessions,   \* database sessions that may be open at once
    Users,      \* authenticated users
    Publisher,  \* published_by of the version
    MaxJobs,    \* bound: jobs one step may get
    Events      \* which of the optional events happen

Steps == {Order[i] : i \in 1..Len(Order)}

JobKinds == {"command", "ansible"}

VARIABLES
    run,      \* workflow_runs.status, NONE before the row exists
    dry,      \* workflow_runs.is_dry_run
    starter,  \* workflow_runs.triggered_by
    step,     \* workflow_step_runs: status and job_id (0: NULL) of each step
    jobs,     \* the jobs created for each step, oldest first, by their status
    alert,    \* an ACTIVE alert of a notification step exists
    approver, \* history: the user whose approve_step committed last
    sess      \* the sessions: where they are and what they have loaded

vars == <<run, dry, starter, step, jobs, alert, approver, sess>>

Ended == {"SUCCEEDED", "FAILED", "CANCELLED"}

Live == {"GATED", "QUEUED", "RUNNING"}

NoUser == "nobody"
Fresh == [x \in Steps |-> [st |-> "PENDING", job |-> 0]]
Closed == [pc |-> "idle", run |-> 0, todo |-> {}, seen |-> "NONE", base |-> Fresh,
           mem |-> Fresh, at |-> 0, blocked |-> FALSE, who |-> NoUser, gate |-> Order[1]]

Init ==
    /\ run = [r \in Runs |-> "NONE"]
    /\ dry = [r \in Runs |-> FALSE]
    /\ starter = [r \in Runs |-> NoUser]
    /\ step = [r \in Runs |-> Fresh]
    /\ jobs = [r \in Runs |-> [x \in Steps |-> << >>]]
    /\ alert = [r \in Runs |-> [x \in Steps |-> FALSE]]
    /\ approver = [r \in Runs |-> [x \in Steps |-> NoUser]]
    /\ sess = [s \in Sessions |-> Closed]

------------------------------------------------------------------------------
\* What a commit writes: the columns this session has changed since it read them.
Written(rows, base, mem) ==
    [x \in Steps |->
        [st  |-> IF mem[x].st # base[x].st THEN mem[x].st ELSE rows[x].st,
         job |-> IF mem[x].job # base[x].job THEN mem[x].job ELSE rows[x].job]]

\* Mutant: the dedup key is only held by a job an agent runs.
OccupiedRunning(r, x) == \E n \in 1..Len(jobs[r][x]) : jobs[r][x][n] = "RUNNING"

\* Whether some job of the step occupies its dedup_key, which names run and step.
Occupied(r, x) == \E n \in 1..Len(jobs[r][x]) : jobs[r][x][n] \in Live

Here(s) == Order[sess[s].at]

\* The walk of the session goes on at the next step with the given rows in memory.
Onward(s, mem) == [sess EXCEPT ![s].mem = mem, ![s].at = @ + 1]

\* The session ends: its transaction is rolled back, or has nothing left to write.
Close(s) == sess' = [sess EXCEPT ![s] = Closed]

------------------------------------------------------------------------------
(* Requests that open a session.                                           *)

\* start_run: the run and its PENDING steps are committed, then the request
\* advances the run itself unless it is a dry run.
StartRun(s, r, u, d) ==
    /\ sess[s].pc = "idle"
    /\ run[r] = "NONE"
    /\ d => "dry" \in Events
    /\ run' = [run EXCEPT ![r] = "RUNNING"]
    /\ dry' = [dry EXCEPT ![r] = d]
    /\ starter' = [starter EXCEPT ![r] = u]
    /\ sess' = IF d THEN sess
               ELSE [sess EXCEPT ![s] = [Closed EXCEPT !.pc = "sync", !.run = r,
                                                       !.seen = "RUNNING"]]
    /\ UNCHANGED <<step, jobs, alert, approver>>

\* WorkflowRunnerWorker._tick loads every RUNNING run into one session.
TickLoad(s) ==
    /\ sess[s].pc = "idle"
    /\ \E r \in Runs : run[r] = "RUNNING"
    /\ sess' = [sess EXCEPT ![s] = [Closed EXCEPT !.pc = "next",
                    !.todo = {r \in Runs : run[r] = "RUNNING"}]]
    /\ UNCHANGED <<run, dry, starter, step, jobs, alert, approver>>

\* ... and calls advance_run on each in turn, which reads the run's steps now and
\* trusts the status the tick read.
AdvanceLoad(s) ==
    /\ sess[s].pc = "next"
    /\ LET r == CHOOSE i \in sess[s].todo : \A j \in sess[s].todo : i <= j
       IN  sess' = [sess EXCEPT ![s].pc = "sync", ![s].run = r, ![s].todo = @ \ {r},
                                ![s].seen = "RUNNING", ![s].base = step[r],
                                ![s].mem = step[r], ![s].blocked = FALSE]
    /\ UNCHANGED <<run, dry, starter, step, jobs, alert, approver>>

\* The shared beginning of approve_step and reject_step, and cancel_run: load the run and
\* its steps, refuse, or go on with what was read.
Load(s, r, x, u, what) ==
    /\ sess[s].pc = "idle"
    /\ run[r] # "NONE"
    /\ sess' = [sess EXCEPT ![s] = [Closed EXCEPT !.pc = what, !.run = r, !.seen = run[r],
                    !.base = step[r], !.mem = step[r], !.gate = x, !.who = u]]
    /\ UNCHANGED <<run, dry, starter, step, jobs, alert, approver>>

\* Mutant: whoever started the run may clear its gates.
MayApproveOwn(u, r) == u # Publisher

\* The four-eyes rule: neither who started the run nor who published the version.
MayApprove(u, r) == u # starter[r] /\ u # Publisher

ApproveLoad(s, r, x, u) ==
    /\ step[r][x].st = "WAITING_APPROVAL"
    /\ MayApprove(u, r)
    /\ Load(s, r, x, u, "approve")

RejectLoad(s, r, x, u) ==
    /\ "reject" \in Events
    /\ step[r][x].st = "WAITING_APPROVAL"
    /\ Load(s, r, x, u, "reject")

CancelLoad(s, r, u) ==
    /\ "cancel" \in Events
    /\ run[r] \notin Ended
    /\ Load(s, r, Order[1], u, "cancel")

------------------------------------------------------------------------------
(* advance_run, part 1: RUNNING steps whose job or wait is over.           *)

\* What section 1 makes of one step row: the verdict of its linked job, or what the poll of
\* a wait says.
Synced(r, x, row, poll) ==
    CASE row.st # "RUNNING"                                         -> row.st
      [] row.st = "RUNNING" /\ row.job = 0                          ->
             IF Kind[x] = "wait" THEN poll[x] ELSE "RUNNING"
      [] row.st = "RUNNING" /\ row.job # 0 /\ jobs[r][x][row.job] \in Live       -> "RUNNING"
      [] row.st = "RUNNING" /\ row.job # 0 /\ jobs[r][x][row.job] = "COMPLETED" -> "SUCCEEDED"
      [] OTHER                                                      -> "FAILED"

\* A wait whose numbers int() refuses ("badwait"): each poll of it raises.
PollRaises(s) == \E x \in Steps : Kind[x] = "badwait" /\ sess[s].mem[x].st = "RUNNING"

Sync(s) ==
    /\ sess[s].pc = "sync" /\ ~PollRaises(s)
    /\ \E poll \in [{x \in Steps : Kind[x] = "wait"} -> {"RUNNING", "SUCCEEDED", "FAILED"}] :
          sess' = [sess EXCEPT ![s].pc = "walk", ![s].at = 1,
                     ![s].mem = [x \in Steps |->
                        [@[x] EXCEPT !.st = Synced(sess[s].run, x, sess[s].mem[x], poll)]]]
    /\ UNCHANGED <<run, dry, starter, step, jobs, alert, approver>>

\* Nothing around the poll catches the ValueError or TypeError: the tick, with the runs that
\* are left in it, or the request ends here, and so does the next one.
SyncRaises(s) ==
    /\ sess[s].pc = "sync" /\ PollRaises(s)
    /\ Close(s)
    /\ UNCHANGED <<run, dry, starter, step, jobs, alert, approver>>

------------------------------------------------------------------------------
(* advance_run, part 2: the pass over graph.steps.                         *)

Incoming(x) == {e \in Edges : e.to = x}

\* Mutant: a skipped predecessor is waited for.
PredsDoneNoSkip(mem, x) == \A e \in Incoming(x) : mem[e.from].st \in {"SUCCEEDED", "FAILED"}

PredsDone(mem, x) ==
    \A e \in Incoming(x) : mem[e.from].st \in {"SUCCEEDED", "FAILED", "SKIPPED"}

Matches(mem, e) ==
    \/ e.on = "always"
    \/ e.on = "success" /\ mem[e.from].st = "SUCCEEDED"
    \/ e.on = "failure" /\ mem[e.from].st = "FAILED"

Ready(mem, x) == Incoming(x) = {} \/ \E e \in Incoming(x) : Matches(mem, e)

\* A PENDING step whose predecessors have ended is taken up now; any other is passed over.
Due(mem, x) == mem[x].st = "PENDING" /\ PredsDone(mem, x)

Walking(s) == sess[s].pc = "walk" /\ sess[s].at <= Len(Order)

PassOver(s) ==
    /\ Walking(s)
    /\ ~Due(sess[s].mem, Here(s))
    /\ sess' = Onward(s, sess[s].mem)
    /\ UNCHANGED <<run, dry, starter, step, jobs, alert, approver>>

\* What taking up a ready step means for its kind: the statuses an inline step may get.
InlineOutcomes(k) ==
    CASE k \in {"start", "end"}            -> {"SUCCEEDED"}
      [] k \in {"endfail", "broken"}       -> {"FAILED"}
      [] k \in {"condition", "webhook"}    -> {"SUCCEEDED", "FAILED"}
      [] k = "approval"                    -> {"WAITING_APPROVAL"}
      [] k \in {"wait", "badwait"}         -> {"RUNNING"}
      [] OTHER                             -> {}

\* Steps decided in memory: skipped ones, and the kinds that create no row of their own.
\* "broken" is a step whose configuration the compilers refuse (WorkflowRunError).
DecideStep(s) ==
    /\ Walking(s)
    /\ Due(sess[s].mem, Here(s))
    /\ \E v \in IF Ready(sess[s].mem, Here(s)) /\ Here(s) \notin Disabled
                THEN InlineOutcomes(Kind[Here(s)]) ELSE {"SKIPPED"} :
          sess' = [Onward(s, [sess[s].mem EXCEPT ![Here(s)].st = v])
                     EXCEPT ![s].blocked = @ \/ v = "WAITING_APPROVAL"]
    /\ UNCHANGED <<run, dry, starter, step, jobs, alert, approver>>

\* A ready step that reaches outside the session.
Dispatching(s, kinds) ==
    /\ Walking(s)
    /\ Due(sess[s].mem, Here(s))
    /\ Ready(sess[s].mem, Here(s))
    /\ Here(s) \notin Disabled
    /\ Kind[Here(s)] \in kinds

\* The commit in the middle of the walk: everything changed so far is written.
CommitRows(s) ==
    /\ step' = [step EXCEPT ![sess[s].run] = Written(@, sess[s].base, sess[s].mem)]

\* _dispatch_notification: AlertService.create_alert refuses a second ACTIVE alert of the
\* same run and step, and otherwise commits the alert before the step is marked.
Notify(s) ==
    LET r == sess[s].run  x == Here(s) IN
    /\ Dispatching(s, {"notification"})
    /\ IF alert[r][x]
       THEN /\ sess' = Onward(s, [sess[s].mem EXCEPT ![x].st = "FAILED"])
            /\ UNCHANGED <<step, alert>>
       ELSE /\ alert' = [alert EXCEPT ![r][x] = TRUE]
            /\ CommitRows(s)
            /\ sess' = [Onward(s, [sess[s].mem EXCEPT ![x].st = "SUCCEEDED"])
                          EXCEPT ![s].base = sess[s].mem]
    /\ UNCHANGED <<run, dry, starter, jobs, approver>>

\* create_job looks for an active job with the step's dedup_key; finding one is a
\* ValueError, which fails the step.
FindDuplicate(s) ==
    /\ Dispatching(s, JobKinds)
    /\ sess' = IF Occupied(sess[s].run, Here(s))
               THEN Onward(s, [sess[s].mem EXCEPT ![Here(s)].st = "FAILED"])
               ELSE [sess EXCEPT ![s].pc = "insert"]
    /\ UNCHANGED <<run, dry, starter, step, jobs, alert, approver>>

\* create_job inserts and commits, and with it the rows changed so far.  The partial unique
\* index refuses a second active job: that IntegrityError surfaces at the flush, outside the
\* handler around the commit, and nothing up to the tick or the request catches it.
\* A playbook job is gated whatever the caller asks for; a command passes skip_approval_gate.
InsertJob(s) ==
    LET r == sess[s].run  x == Here(s) IN
    /\ sess[s].pc = "insert"
    /\ Len(jobs[r][x]) < MaxJobs
    /\ IF Occupied(r, x)
       THEN Close(s) /\ UNCHANGED <<step, jobs>>
       ELSE /\ jobs' = [jobs EXCEPT ![r][x] =
                          Append(@, IF Kind[x] = "ansible" THEN "GATED" ELSE "QUEUED")]
            /\ CommitRows(s)
            /\ sess' = [Onward(s, [sess[s].mem EXCEPT
                              ![x] = [st |-> "RUNNING", job |-> Len(jobs[r][x]) + 1]])
                          EXCEPT ![s].base = sess[s].mem, ![s].pc = "walk"]
    /\ UNCHANGED <<run, dry, starter, alert, approver>>

\* A step whose dispatch raises what advance_run does not catch: a StorageError, which is an
\* HTTPException, for a playbook whose stored content is gone, or a TypeError from int(...) of
\* a list.  (A playbook that is gone itself is a ValueError: kind "broken".)  The tick, with
\* the runs that are left in it, or the request ends here, and so does the next one.
DispatchRaises(s) ==
    /\ Dispatching(s, {"gone"})
    /\ Close(s)
    /\ UNCHANGED <<run, dry, starter, step, jobs, alert, approver>>

\* advance_run, part 3: the status of the run, from the rows in memory.
RunVerdict(mem, blocked, seen) ==
    CASE blocked -> "WAITING_APPROVAL"
      [] ~blocked /\ \E x \in Steps : mem[x].st \in {"PENDING", "RUNNING", "WAITING_APPROVAL"}
                 -> seen
      [] OTHER   -> IF \E x \in Steps : mem[x].st = "FAILED" THEN "FAILED" ELSE "SUCCEEDED"

FinishAdvance(s) ==
    LET r == sess[s].run
        v == RunVerdict(sess[s].mem, sess[s].blocked, sess[s].seen)
    IN  /\ sess[s].pc = "walk" /\ sess[s].at > Len(Order)
        /\ run' = IF v = sess[s].seen THEN run ELSE [run EXCEPT ![r] = v]
        /\ CommitRows(s)
        /\ sess' = [sess EXCEPT ![s] = IF @.todo = {} THEN Closed
                       ELSE [Closed EXCEPT !.pc = "next", !.todo = sess[s].todo]]
        /\ UNCHANGED <<dry, starter, jobs, alert, approver>>

------------------------------------------------------------------------------
(* The commits of approve_step, reject_step and cancel_run.                *)

\* approve_step: the gate SUCCEEDED, the run RUNNING, committed; the request then advances
\* the run on the rows it has already loaded.
ApproveCommit(s) ==
    LET r == sess[s].run  x == sess[s].gate
        mem == [sess[s].mem EXCEPT ![x].st = "SUCCEEDED"]
    IN  /\ sess[s].pc = "approve"
        /\ run' = IF sess[s].seen = "RUNNING" THEN run ELSE [run EXCEPT ![r] = "RUNNING"]
        /\ step' = [step EXCEPT ![r] = Written(@, sess[s].base, mem)]
        /\ approver' = [approver EXCEPT ![r][x] = sess[s].who]
        /\ sess' = [sess EXCEPT ![s].pc = "sync", ![s].base = mem, ![s].mem = mem,
                                ![s].seen = "RUNNING"]
        /\ UNCHANGED <<dry, starter, jobs, alert>>

\* reject_step: the gate FAILED, what was open SKIPPED, the run FAILED.
RejectCommit(s) ==
    LET r == sess[s].run
        mem == [x \in Steps |->
                  [sess[s].mem[x] EXCEPT !.st =
                      IF x = sess[s].gate THEN "FAILED"
                      ELSE IF @ \in {"PENDING", "WAITING_APPROVAL"} THEN "SKIPPED" ELSE @]]
    IN  /\ sess[s].pc = "reject"
        /\ run' = IF sess[s].seen = "FAILED" THEN run ELSE [run EXCEPT ![r] = "FAILED"]
        /\ step' = [step EXCEPT ![r] = Written(@, sess[s].base, mem)]
        /\ Close(s)
        /\ UNCHANGED <<dry, starter, jobs, alert, approver>>

\* cancel_run: open steps CANCELLED, their waiting jobs too, the run CANCELLED.
CancelCommit(s) ==
    LET r == sess[s].run
        open == {x \in Steps : sess[s].mem[x].st \in {"PENDING", "WAITING_APPROVAL", "RUNNING"}}
        mem == [x \in Steps |-> IF x \in open THEN [sess[s].mem[x] EXCEPT !.st = "CANCELLED"]
                                ELSE sess[s].mem[x]]
        Cancelled(x, n) == x \in open /\ sess[s].mem[x].st = "RUNNING" /\ mem[x].job = n
                           /\ jobs[r][x][n] \in {"GATED", "QUEUED"}
    IN  /\ sess[s].pc = "cancel"
        /\ run' = [run EXCEPT ![r] = "CANCELLED"]
        /\ step' = [step EXCEPT ![r] = Written(@, sess[s].base, mem)]
        /\ jobs' = [jobs EXCEPT ![r] = [x \in Steps |-> [n \in 1..Len(jobs[r][x]) |->
                        IF Cancelled(x, n) THEN "CANCELLED" ELSE jobs[r][x][n]]]]
        /\ Close(s)
        /\ UNCHANGED <<dry, starter, alert, approver>>

------------------------------------------------------------------------------
(* The surroundings: the job pipeline, and sessions that die.              *)

JobStep(r, x, n, from, to) ==
    /\ n \in 1..Len(jobs[r][x])
    /\ jobs[r][x][n] = from
    /\ jobs' = [jobs EXCEPT ![r][x][n] = to]
    /\ UNCHANGED <<run, dry, starter, step, alert, approver, sess>>

\* An operator approves the job itself, in the jobs API.
JobApprove(r, x, n) == "jobGate" \in Events /\ JobStep(r, x, n, "GATED", "QUEUED")

\* The job is claimed by an agent, then ends (a timeout counts as a failure here).
JobRuns(r, x, n) == JobStep(r, x, n, "QUEUED", "RUNNING")
JobEnds(r, x, n) == \E v \in {"COMPLETED", "FAILED"} : JobStep(r, x, n, "RUNNING", v)

\* A session dies with what it has not committed: a restart, or a database error.
Crash(s) ==
    /\ "crash" \in Events
    /\ sess[s].pc # "idle"
    /\ Close(s)
    /\ UNCHANGED <<run, dry, starter, step, jobs, alert, approver>>

Advance(s) ==
    \/ AdvanceLoad(s)
    \/ Sync(s) \/ SyncRaises(s)
    \/ PassOver(s)
    \/ DecideStep(s)
    \/ Notify(s)
    \/ FindDuplicate(s)
    \/ InsertJob(s)
    \/ DispatchRaises(s)
    \/ FinishAdvance(s)
    \/ ApproveCommit(s)
    \/ RejectCommit(s)
    \/ CancelCommit(s)

Request(s) ==
    \E r \in Runs :
        \/ \E u \in Users, d \in BOOLEAN : StartRun(s, r, u, d)
        \/ \E x \in Steps, u \in Users : ApproveLoad(s, r, x, u)
        \/ \E x \in Steps, u \in Users : RejectLoad(s, r, x, u)
        \/ \E u \in Users : CancelLoad(s, r, u)

JobMoves ==
    \E r \in Runs, x \in Steps, n \in 1..MaxJobs :
        \/ JobApprove(r, x, n)
        \/ JobRuns(r, x, n)
        \/ JobEnds(r, x, n)

Next ==
    \/ \E s \in Sessions : TickLoad(s) \/ Advance(s) \/ Request(s) \/ Crash(s)
    \/ JobMoves

Spec == Init /\ [][Next]_vars

OfKind(kinds) == {x \in Steps : Kind[x] \in kinds}

\* Fairness.  The runner ticks every five seconds and an open session goes on; a job an
\* agent has, or may take, ends (the pipeline's timeout sweep sees to it); somebody answers
\* a gate in the end, possibly only after many ticks.  Nobody is bound to approve a job.
Fairness ==
    /\ \A s \in Sessions : WF_vars(Advance(s)) /\ SF_vars(TickLoad(s))
    /\ \A r \in Runs, x \in OfKind(JobKinds), n \in 1..MaxJobs :
          WF_vars(JobRuns(r, x, n) \/ JobEnds(r, x, n))
    /\ \A r \in Runs, x \in OfKind({"approval"}) :
          SF_vars(\E s \in Sessions, u \in Users : ApproveLoad(s, r, x, u))
    /\ \A r \in Runs, x \in OfKind({"wait"}) :
          SF_vars(\E s \in Sessions : Sync(s) /\ sess[s].run = r
                                     /\ sess'[s].mem[x].st # "RUNNING")

------------------------------------------------------------------------------

\* Every way into S leads through the gate g: none of its steps is an entry point, and every edge into
\* one is a success edge out of g, or comes from S and asks for an outcome.  (An "always" edge asks
\* for none: advance_run follows it out of a step that was skipped.)
Guarded(S, g) ==
    \A x \in S :
        /\ Incoming(x) # {}
        /\ \A e \in Incoming(x) :
              \/ e.from = g /\ e.on = "success"
              \/ e.from \in S /\ e.on # "always"

\* The steps behind the gate g.
Past(g) == UNION {S \in SUBSET Steps : Guarded(S, g)}

\* No host is touched before its gate is cleared by somebody entitled to: a job of a step
\* behind an approval step exists only once another user than the run's starter and the
\* version's publisher has approved that step, whatever sessions overlap or die.
GateHeld ==
    \A r \in Runs, g \in Steps, x \in Steps :
        (Kind[g] = "approval" /\ x \in Past(g) /\ jobs[r][x] # << >>)
            => approver[r][g] \notin {NoUser, starter[r], Publisher}

\* However often a step is dispatched, at most one of its jobs is live: two advances of the
\* same run at once, or one repeated after a crash, never run a step twice side by side.
OneLiveJob ==
    \A r \in Runs, x \in Steps :
        Cardinality({n \in 1..Len(jobs[r][x]) : jobs[r][x][n] \in Live}) <= 1

\* A run with a step left at which every tick raises, the one it is at or one to come.
Wedged(r) ==
    \E x \in Steps :
        \/ Kind[x] = "badwait" /\ step[r][x].st = "RUNNING"
        \/ Kind[x] = "gone" /\ step[r][x].st = "PENDING"

\* Every run ends: it is not left RUNNING, nor waiting for an approval that has been given,
\* unless some run, itself or one the tick visits before it, is wedged.
EveryRunEnds ==
    \A r \in Runs : run[r] # "NONE" ~> (run[r] \in Ended \/ \E q \in Runs : Wedged(q))

============================================================================
