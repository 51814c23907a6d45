----------------------------- MODULE MCProgress -----------------------------
(***************************************************************************)
(* What has to happen in the end, component by component, on small         *)
(* instances.  The components share no state: `part' says which of them    *)
(* moves in a behaviour, the others stay in their initial state.  Each     *)
(* property takes the fairness of its own component as its hypothesis.     *)
(***************************************************************************)
EXTENDS Naturals, Sequences, TLC

VARIABLES part,
          run, dry, starter, step, stepJobs, notice, approver, wfSess,
          plan, planJobs, planDrift, evaluation, window, day, planSess, sweep, planCrashes,
          token, row, cert, host, idReq, redis, caUp, acked, late, idFaults,
          deps, polRow, polAgent, wire, applied, losses, restarts, rolled,
          queue, pushed, refused, inbox, claimed, buffer, batch, stored, failures, given,
          sig, inc, order, alert, incSess, mail, clock, incCrashes,
          alive, fresh, status, beat, swept, event, offline, outages, lateBeats,
          facts, want, net, snapshot, base, open, verdict, exc, waiver, ingest, changes, netLosses,
          ver, verTxn, events, sent, inScope, eff, pass, passLosses

wfVars    == <<run, dry, starter, step, stepJobs, notice, approver, wfSess>>
planVars  == <<plan, planJobs, planDrift, evaluation, window, day, planSess, sweep, planCrashes>>
idVars    == <<token, row, cert, host, idReq, redis, caUp, acked, late, idFaults>>
rollVars  == <<deps, polRow, polAgent, wire, applied, losses, restarts, rolled>>
pipeVars  == <<queue, pushed, refused, inbox, claimed, buffer, batch, stored, failures, given>>
incVars   == <<sig, inc, order, alert, incSess, mail, clock, incCrashes>>
liveVars  == <<alive, fresh, status, beat, swept, event, offline, outages, lateBeats>>
driftVars == <<facts, want, net, snapshot, base, open, verdict, exc, waiver, ingest, changes, netLosses>>
baseVars  == <<ver, verTxn, events, sent, inScope, eff, pass, passLosses>>

vars == <<part, wfVars, planVars, idVars, rollVars, pipeVars, incVars, liveVars, driftVars, baseVars>>

-----------------------------------------------------------------------------
(* The settings. *)

Edge(a, b, c) == [from |-> a, to |-> b, on |-> c]

\* A run through inline steps, a wait, jobs and a gate, with a clean-up branch, and a branch
\* that ends in a wait whose configuration cannot be read.
Graph ==
    <<"start", "check", "mail", "hook", "pause", "hang", "off", "work", "gate", "deploy", "bad",
      "end">>
GraphKind ==
    "start" :> "start" @@ "check" :> "condition" @@ "mail" :> "notification"
    @@ "hook" :> "webhook" @@ "pause" :> "wait" @@ "hang" :> "badwait" @@ "off" :> "command"
    @@ "work" :> "command" @@ "gate" :> "approval" @@ "deploy" :> "command"
    @@ "bad" :> "broken" @@ "end" :> "end"
GraphEdges ==
    {Edge("start", "check", "always"), Edge("check", "mail", "success"),
     Edge("check", "bad", "failure"), Edge("mail", "hook", "always"),
     Edge("hook", "pause", "success"), Edge("hook", "hang", "failure"),
     Edge("pause", "off", "always"), Edge("off", "work", "always"),
     Edge("work", "gate", "success"), Edge("work", "bad", "failure"),
     Edge("gate", "deploy", "success"), Edge("deploy", "end", "always")}

Wf == INSTANCE WorkflowRun WITH
    Runs <- {1}, Order <- Graph, Kind <- GraphKind, Edges <- GraphEdges, Disabled <- {"off"},
    Sessions <- {"s1"}, Users <- {"ann", "bob"}, Publisher <- "eve", MaxJobs <- 2,
    Events <- {"cancel", "reject"},
    jobs <- stepJobs, alert <- notice, sess <- wfSess

Rem == INSTANCE RemediationPlan WITH
    Plans <- {"p1"}, Sessions <- {"s1"},
    Kinds <- {"create", "submit", "approve", "rollback", "verify", "scheduler"}, Modes <- {"AUTOMATIC"},
    Windowed <- {"p1"}, InScope <- {"p1"}, Verifiable <- {"p1"}, Cap <- 3,
    MaxJobs <- 3, MaxDay <- 0, MaxCrash <- 0, MaxEvals <- 1, Reports <- {"repeat"},
    jobs <- planJobs, drift <- planDrift, verdict <- evaluation, open <- window, sess <- planSess,
    crashes <- planCrashes

\* Two machines that enroll at once.
Id == INSTANCE AgentIdentity WITH
    Hosts <- {"h1", "h2"}, Tokens <- {"t1", "t2", "t3"}, SameName <- FALSE, Serial <- FALSE,
    Faults <- {"token"}, MaxFaults <- 1, MaxRows <- 2, MaxCerts <- 2,
    req <- idReq, faults <- idFaults

Roll == INSTANCE PolicyRollout WITH
    Policies <- {"p", "q"}, Seeded <- {}, MaxVersion <- 2, MaxDeploy <- 2, MaxLoss <- 1, MaxRestart <- 1,
    MaxRollback <- 0, Window <- 2, Faults <- {"health", "overlap", "older"},
    row <- polRow, agent <- polAgent

Pipe == INSTANCE EventPipe WITH
    Events <- {"e1", "e2", "e3", "e4"}, Critical <- {"e1", "e2", "e3"}, Low <- {"e4"},
    Workers <- {"w1"}, Capacity <- 2, MaxBatch <- 2, BufferMax <- 1, Ops <- {"redisdown", "trim"}, MaxFailures <- 1,
    rows <- stored

Inc == INSTANCE IncidentFlow WITH
    Types <- {"cpu"}, Groups <- {"g1", "g2"}, Sessions <- {"s1", "s2"},
    Kinds <- {"open", "operator", "sweep", "suppress"}, SweepLimit <- 1, MaxIncidents <- 2,
    MaxClock <- 1, MaxCrash <- 0,
    sess <- incSess, crashes <- incCrashes

Live == INSTANCE AgentLiveness WITH
    Agents <- {"a1"}, Ops <- {"lost", "operator"}, Prompt <- FALSE, MaxOutages <- 2, MaxLate <- 2,
    alert <- offline, late <- lateBeats

Drift == INSTANCE DriftWatch WITH
    Agents <- {"a1", "a2"}, Engines <- {"g1"}, Users <- {}, Excs <- {}, Sessions <- {},
    Values <- {"good", "bad"}, Scopes <- {}, Selected <- {}, Ops <- {"resolve"}, Serial <- TRUE,
    MaxChanges <- 2, MaxLosses <- 1,
    host <- facts, stored <- snapshot, txn <- waiver, work <- ingest, losses <- netLosses

Base == INSTANCE BaselineFlow WITH
    Users <- {"u1", "u2"}, Agents <- {"a1", "a2"}, Sessions <- {"s1"}, Threads <- {"t1"}, Ops <- {},
    Serial <- TRUE, MaxVersions <- 2, MaxPublishes <- 3, MaxLosses <- 1,
    txn <- verTxn, work <- pass, losses <- passLosses

-----------------------------------------------------------------------------

Init ==
    /\ part \in {"workflow", "remediation", "identity", "rollout", "events", "incidents", "liveness",
                 "drift", "baselines"}
    /\ Wf!Init /\ Rem!Init /\ Id!Init /\ Roll!Init /\ Pipe!Init /\ Inc!Init /\ Live!Init /\ Drift!Init
    /\ Base!Init /\ (part # "baselines" => ver[1].by = "u1")
    /\ (part # "remediation" => ~window)

Next ==
    \/ /\ part = "workflow" /\ Wf!Next
       /\ UNCHANGED <<part, planVars, idVars, rollVars, pipeVars, incVars, liveVars, driftVars, baseVars>>
    \/ /\ part = "remediation" /\ Rem!Next
       /\ UNCHANGED <<part, wfVars, idVars, rollVars, pipeVars, incVars, liveVars, driftVars, baseVars>>
    \/ /\ part = "identity" /\ Id!Enrolling
       /\ UNCHANGED <<part, wfVars, planVars, rollVars, pipeVars, incVars, liveVars, driftVars, baseVars>>
    \/ /\ part = "rollout" /\ Roll!Next
       /\ UNCHANGED <<part, wfVars, planVars, idVars, pipeVars, incVars, liveVars, driftVars, baseVars>>
    \/ /\ part = "events" /\ Pipe!Next
       /\ UNCHANGED <<part, wfVars, planVars, idVars, rollVars, incVars, liveVars, driftVars, baseVars>>
    \/ /\ part = "incidents" /\ Inc!Next
       /\ UNCHANGED <<part, wfVars, planVars, idVars, rollVars, pipeVars, liveVars, driftVars, baseVars>>
    \/ /\ part = "liveness" /\ Live!Next
       /\ UNCHANGED <<part, wfVars, planVars, idVars, rollVars, pipeVars, incVars, driftVars, baseVars>>
    \/ /\ part = "drift" /\ Drift!Next
       /\ UNCHANGED <<part, wfVars, planVars, idVars, rollVars, pipeVars, incVars, liveVars, baseVars>>
    \/ /\ part = "baselines" /\ Base!Next
       /\ UNCHANGED <<part, wfVars, planVars, idVars, rollVars, pipeVars, incVars, liveVars, driftVars>>

Spec == Init /\ [][Next]_vars

-----------------------------------------------------------------------------

\* A workflow run comes to an end, through inline steps, answered gates and jobs that
\* fail, unless it comes to a step at which every tick raises (advance_run,
\* _wait_for_agent_satisfied, WorkflowRunnerWorker).
EveryRunEnds == part = "workflow" => (Wf!Fairness => Wf!EveryRunEnds)

\* A remediation plan does not stay EXECUTING, even if its agents never answer
\* (job_timeout.py and apply_job_result).
ExecutionEnds == part = "remediation" => (Rem!Fairness => Rem!ExecutionEnds)

\* Machines that keep trying to enroll all end up with a certificate although tokens are
\* taken by others or die under them (register_agent).
EnrollsEventually == part = "identity" => (Id!Fairness => Id!EnrollsEventually)

\* Every policy deployment is settled in the end, through losses, restarts and deployments
\* of other versions over it (get_desired_policy, _apply_policy_report).
DeploymentSettles == part = "rollout" => (Roll!Fairness => Roll!DeploymentSettles)

\* A CRITICAL event the agent's queue accepted reaches the events table although inserts
\* fail, unless it is one too many for its batch or for twice the server's buffer
\* (flushIfDue, EventRepository).
CriticalStored == part = "events" => (Pipe!Fairness => Pipe!CriticalStored)

\* An incident all of whose signals are resolved or suppressed and quiet does not stay open
\* among the least recently updated ones (maybe_auto_resolve and its sweeper).
QuietIncidentEnds == part = "incidents" => (Inc!Fairness => Inc!QuietIncidentEnds)

\* A host that stays up ends up ACTIVE although a sweep may mark it while its heartbeat is
\* handled (HeartbeatMonitorWorker).
LiveIsActive == part = "liveness" => (Live!Fairness => Live!LiveIsActive)

\* When hosts stop changing, the server has their facts and reports those that fail the
\* rule, although answers are lost and snapshots overtake each other (resyncDomains, ingest.go).
SyncConverges == part = "drift" => (Drift!Fairness => Drift!SyncConverges /\ Drift!FailureShows)

\* When publications end, every agent's effective baseline is that of the live version,
\* although passes fail half way and events are delivered again (resolver.go).
EffectiveConverges == part = "baselines" => (Base!Fairness => Base!EffectiveConverges)
=============================================================================
