-------------------------- MODULE WorkflowCatalog --------------------------
(***************************************************************************)
(* One workflow, its versions and its schedule: WorkflowService's create,  *)
(* edit, publish and metadata requests, and the scheduler workers of       *)
(* several API replicas.  A request reads its rows, decides, and commits   *)
(* the columns it changed; other requests fall in between.                 *)
(***************************************************************************)
EXTENDS Integers, FiniteSets

CONSTANTS
    MaxVersion, \* bound: versions of the workflow
    Contents,   \* YAML texts that compile
    Unfit,      \* those among them that validate_step_inputs refuses
    Sessions,   \* API requests under way at once
    Replicas,   \* scheduler workers
    MaxTime,    \* bound: clock
    Events      \* "meta": the schedule is edited while it runs

VARIABLES
    version, \* workflow_versions: status and content by number; NONE: no row
    current, \* workflows.current_version_id, 0: NULL
    nextRun, \* workflows.next_run_at, MaxTime + 1: NULL
    now,     \* the clock
    req,     \* the requests under way, with the rows they have read
    rep,     \* the scheduler workers, with the rows they have read
    fired    \* history: runs started for each due time

vars == <<version, current, nextRun, now, req, rep, fired>>

Numbers == 1..MaxVersion
Never == MaxTime + 1

Blank == CHOOSE c \in Contents \ Unfit : TRUE
NoRows == [v \in Numbers |-> [status |-> "NONE", content |-> Blank]]
Idle == [pc |-> "idle", v |-> 0, base |-> NoRows, cur |-> 0, text |-> Blank, next |-> 0]

Init ==
    /\ version = [NoRows EXCEPT ![1].status = "DRAFT"]
    /\ current = 0
    /\ nextRun = 1
    /\ now = 0
    /\ req = [s \in Sessions |-> Idle]
    /\ rep = [w \in Replicas |-> [pc |-> "idle", seen |-> 0, cur |-> 0]]
    /\ fired = [t \in 0..MaxTime |-> 0]

Schedule == <<nextRun, now, rep, fired>>

\* A request that has read its rows; what it read stays with it.
Begin(s, pc, v, c) ==
    /\ req[s].pc = "idle"
    /\ req' = [req EXCEPT ![s] = [pc |-> pc, v |-> v, base |-> version, cur |-> current,
                                  text |-> c, next |-> now + 1]]
    /\ UNCHANGED <<version, current, nextRun, now, rep, fired>>

Done(s) == req' = [req EXCEPT ![s] = Idle]

------------------------------------------------------------------------------
(* WorkflowService.                                                        *)

\* create_version: the next number is the largest plus one ...
CreateLoad(s, c) ==
    \E v \in Numbers :
        /\ version[v].status = "NONE"
        /\ \A w \in Numbers : w < v => version[w].status # "NONE"
        /\ Begin(s, "create", v, c)

\* ... and uq_workflow_versions_workflow_version refuses it if somebody was faster.
CreateCommit(s) ==
    LET v == req[s].v IN
    /\ req[s].pc = "create"
    /\ version' = IF version[v].status = "NONE"
                  THEN [version EXCEPT ![v] = [status |-> "DRAFT", content |-> req[s].text]]
                  ELSE version
    /\ Done(s)
    /\ UNCHANGED <<current, Schedule>>

\* update_draft: the version is a DRAFT and its hash is the one the editor started from
\* (known), or the client sent none; the new text compiles, whatever its inputs.
EditLoad(s, v, known, c) ==
    /\ version[v].status = "DRAFT"
    /\ known = version[v].content
    /\ c # known
    /\ Begin(s, "edit", v, c)

\* Only the content columns are written.
EditCommit(s) ==
    LET v == req[s].v IN
    /\ req[s].pc = "edit"
    /\ version' = [version EXCEPT ![v].content = req[s].text]
    /\ Done(s)
    /\ UNCHANGED <<current, Schedule>>

\* publish_version: a DRAFT whose stored text compiles and whose inputs are fit.
PublishLoad(s, v) ==
    /\ version[v].status = "DRAFT"
    /\ version[v].content \notin Unfit
    /\ Begin(s, "publish", v, version[v].content)

\* The version it read as current is archived, this one published and made current.
PublishCommit(s) ==
    LET v == req[s].v  old == req[s].cur IN
    /\ req[s].pc = "publish"
    /\ version' = [w \in Numbers |->
          IF w = v THEN [version[w] EXCEPT !.status = "PUBLISHED"]
          ELSE IF w = old /\ req[s].base[w].status = "PUBLISHED"
               THEN [version[w] EXCEPT !.status = "ARCHIVED"] ELSE version[w]]
    /\ current' = v
    /\ Done(s)
    /\ UNCHANGED Schedule

\* update_metadata with trigger_type or cron_expr: next_run_at is computed anew from the
\* clock, or cleared when the trigger is manual.
MetaLoad(s) == "meta" \in Events /\ Begin(s, "meta", 0, Blank)

MetaCommit(s) ==
    /\ req[s].pc = "meta"
    /\ nextRun' \in {req[s].next, Never}
    /\ Done(s)
    /\ UNCHANGED <<version, current, now, rep, fired>>

------------------------------------------------------------------------------
(* WorkflowSchedulerWorker.                                                *)

\* The tick selects the workflow if it is due and has a current version.
TickLoad(w) ==
    /\ rep[w].pc = "idle"
    /\ nextRun <= now
    /\ current # 0
    /\ rep' = [rep EXCEPT ![w] = [pc |-> "claim", seen |-> nextRun, cur |-> current]]
    /\ UNCHANGED <<version, current, nextRun, now, req, fired>>

\* Mutant: the claim does not compare next_run_at.
ClaimAnyway(w) ==
    /\ rep[w].pc = "claim"
    /\ nextRun' = now + 1
    /\ rep' = [rep EXCEPT ![w].pc = "start"]
    /\ UNCHANGED <<version, current, now, req, fired>>

\* The claim: UPDATE ... WHERE next_run_at = the value seen, committed before the run.
Claim(w) ==
    /\ rep[w].pc = "claim"
    /\ nextRun' = IF nextRun = rep[w].seen THEN now + 1 ELSE nextRun
    /\ rep' = [rep EXCEPT ![w].pc = IF nextRun = rep[w].seen THEN "start" ELSE "idle"]
    /\ UNCHANGED <<version, current, now, req, fired>>

\* start_run on the workflow the session has loaded: the current version it read must still
\* be PUBLISHED, and its inputs fit; otherwise this firing is logged and lost.
StartScheduled(w) ==
    /\ rep[w].pc = "start"
    /\ fired' = IF /\ version[rep[w].cur].status = "PUBLISHED"
                   /\ version[rep[w].cur].content \notin Unfit
                THEN [fired EXCEPT ![rep[w].seen] = @ + 1] ELSE fired
    /\ rep' = [rep EXCEPT ![w] = [pc |-> "idle", seen |-> 0, cur |-> 0]]
    /\ UNCHANGED <<version, current, nextRun, now, req>>

\* A replica restarts; what it had claimed is not started.
ReplicaCrash(w) ==
    /\ rep[w].pc # "idle"
    /\ rep' = [rep EXCEPT ![w] = [pc |-> "idle", seen |-> 0, cur |-> 0]]
    /\ UNCHANGED <<version, current, nextRun, now, req, fired>>

ClockTick ==
    /\ now < MaxTime
    /\ now' = now + 1
    /\ UNCHANGED <<version, current, nextRun, req, rep, fired>>

Request(s) ==
    \/ \E c \in Contents : CreateLoad(s, c)
    \/ \E v \in Numbers, k, c \in Contents : EditLoad(s, v, k, c)
    \/ \E v \in Numbers : PublishLoad(s, v)
    \/ MetaLoad(s)
    \/ CreateCommit(s)
    \/ EditCommit(s)
    \/ PublishCommit(s)
    \/ MetaCommit(s)

Next ==
    \/ \E s \in Sessions : Request(s)
    \/ \E w \in Replicas : TickLoad(w) \/ Claim(w) \/ StartScheduled(w) \/ ReplicaCrash(w)
    \/ ClockTick

Spec == Init /\ [][Next]_vars

------------------------------------------------------------------------------

\* Whatever publishes overlap, the version a run would be started from is PUBLISHED: the
\* pointer never names a draft or a version that somebody else's publish archived.
CurrentIsPublished == current # 0 => version[current].status = "PUBLISHED"

\* However many replicas tick, crash and race for the claim, a due time starts at most one
\* run.
FiredOnce == \A t \in DOMAIN fired : fired[t] <= 1

\* No run starts before its time, even while the schedule is edited under the scheduler.
NeverEarly == \A t \in DOMAIN fired : fired[t] > 0 => t <= now

============================================================================
