---------------------------- MODULE MCAutomation ----------------------------
(***************************************************************************)
(* Safety of the automation on small instances: workflow runs, the catalog *)
(* and schedule they are started from, and remediation plans.  These       *)
(* components share no state: `part' says which of them moves in a         *)
(* behaviour, and in which setting; the variables of the others stay at 0, *)
(* those of the run with a gate as they are before it starts.              *)
(***************************************************************************)
EXTENDS WorkflowRun, TLC

VARIABLES part,
          playRun, playDry, playStarter, playStep, playJobs, notice, playApprover, playSess,
          version, current, nextRun, now, req, rep, fired,
          plan, planJobs, drift, verdict, open, day, planSess, sweep, crashes

playVars == <<playRun, playDry, playStarter, playStep, playJobs, notice, playApprover, playSess>>
catVars  == <<version, current, nextRun, now, req, rep, fired>>
planVars == <<plan, planJobs, drift, verdict, open, day, planSess, sweep, crashes>>
automationVars == <<vars, playVars, catVars, planVars>>

-----------------------------------------------------------------------------
(* The settings. *)

Edge(a, b, c) == [from |-> a, to |-> b, on |-> c]

\* The run with a gate before a job: two users, two sessions that may die (Platform.cfg).
GateOrder == <<"gate", "deploy">>
GateKind  == "gate" :> "approval" @@ "deploy" :> "command"
GateEdges == {Edge("gate", "deploy", "success")}

\* A message, then a playbook, or one whose stored file is gone; runs are also cancelled.
Play == INSTANCE WorkflowRun WITH
    Runs <- {1}, Order <- <<"check", "mail", "play", "lost">>,
    Kind <- "check" :> "condition" @@ "mail" :> "notification" @@ "play" :> "ansible" @@ "lost" :> "gone",
    Edges <- {Edge("check", "mail", "success"), Edge("mail", "play", "success"),
              Edge("check", "lost", "failure")},
    Disabled <- {}, Sessions <- {"s1", "s2"}, Users <- {"ann"}, Publisher <- "eve", MaxJobs <- 2,
    Events <- {"crash", "cancel", "dry", "jobGate"},
    run <- playRun, dry <- playDry, starter <- playStarter, step <- playStep, jobs <- playJobs,
    alert <- notice, approver <- playApprover, sess <- playSess

\* Two replicas of the scheduler, while versions are edited and published.
Sched == INSTANCE WorkflowCatalog WITH
    MaxVersion <- 2, Contents <- {"a", "x"}, Unfit <- {"x"}, Sessions <- {"s1"},
    Replicas <- {"w1", "w2"}, MaxTime <- 3, Events <- {}

\* The schedule and its versions edited by two users while a replica works on them.
Meta == INSTANCE WorkflowCatalog WITH
    MaxVersion <- 2, Contents <- {"a", "x"}, Unfit <- {"x"}, Sessions <- {"s1", "s2"},
    Replicas <- {"w1"}, MaxTime <- 2, Events <- {"meta"}

\* Two plans for one drift event, dispatched by people.
Hand == INSTANCE RemediationPlan WITH
    Plans <- {"p1", "p2"}, Sessions <- {"s1"},
    Kinds <- {"create", "submit", "approve", "rollback", "verify"}, Modes <- {"AUTOMATIC"},
    Windowed <- {}, InScope <- {"p1", "p2"}, Verifiable <- {"p1", "p2"}, Cap <- 3,
    MaxJobs <- 3, MaxDay <- 0, MaxCrash <- 0, MaxEvals <- 1, Reports <- {},
    jobs <- planJobs, sess <- planSess

\* The autopilot over two days.
Auto == INSTANCE RemediationPlan WITH
    Plans <- {"p1", "p2"}, Sessions <- {"s1"}, Kinds <- {"trigger", "auto", "verify"},
    Modes <- {"AUTOMATIC"}, Windowed <- {"p1", "p2"}, InScope <- {"p1", "p2"},
    Verifiable <- {"p1", "p2"}, Cap <- 3,
    MaxJobs <- 4, MaxDay <- 1, MaxCrash <- 1, MaxEvals <- 1, Reports <- {},
    jobs <- planJobs, sess <- planSess

\* Two passes of the autopilot over one plan at once.
Twice == INSTANCE RemediationPlan WITH
    Plans <- {"p1"}, Sessions <- {"s1", "s2"}, Kinds <- {"trigger", "auto", "verify"},
    Modes <- {"AUTOMATIC"}, Windowed <- {"p1"}, InScope <- {"p1"}, Verifiable <- {"p1"}, Cap <- 3,
    MaxJobs <- 2, MaxDay <- 0, MaxCrash <- 0, MaxEvals <- 1, Reports <- {},
    jobs <- planJobs, sess <- planSess

\* One plan through every operation: windows, dry runs, the scheduler, repeated reports.
Every == INSTANCE RemediationPlan WITH
    Plans <- {"p1"}, Sessions <- {"s1"},
    Kinds <- {"create", "submit", "approve", "rollback", "verify", "drift", "dry_run", "scheduler"},
    Modes <- {"AUTOMATIC"}, Windowed <- {"p1"}, InScope <- {"p1"}, Verifiable <- {"p1"}, Cap <- 3,
    MaxJobs <- 2, MaxDay <- 0, MaxCrash <- 0, MaxEvals <- 1, Reports <- {"repeat"},
    jobs <- planJobs, sess <- planSess

-----------------------------------------------------------------------------

NoPlay == playRun = 0 /\ playDry = 0 /\ playStarter = 0 /\ playStep = 0 /\ playJobs = 0 /\ notice = 0
          /\ playApprover = 0 /\ playSess = 0
NoCat  == version = 0 /\ current = 0 /\ nextRun = 0 /\ now = 0 /\ req = 0 /\ rep = 0 /\ fired = 0
NoPlan == plan = 0 /\ planJobs = 0 /\ drift = 0 /\ verdict = 0 /\ open = 0 /\ day = 0 /\ planSess = 0
          /\ sweep = 0 /\ crashes = 0

AutomationIdle == Init /\ NoPlay /\ NoCat /\ NoPlan

AutomationInit ==
    /\ Init
    /\ \/ part = "gate" /\ NoPlay /\ NoCat /\ NoPlan
       \/ part = "play" /\ Play!Init /\ NoCat /\ NoPlan
       \/ part = "schedule" /\ Sched!Init /\ NoPlay /\ NoPlan
       \/ part = "edit" /\ Meta!Init /\ NoPlay /\ NoPlan
       \/ part = "hand" /\ Hand!Init /\ NoPlay /\ NoCat
       \/ part = "auto" /\ Auto!Init /\ NoPlay /\ NoCat
       \/ part = "twice" /\ Twice!Init /\ NoPlay /\ NoCat
       \/ part = "every" /\ Every!Init /\ NoPlay /\ NoCat

AutomationNext ==
    \/ part = "gate" /\ Next /\ UNCHANGED <<playVars, catVars, planVars>>
    \/ part = "play" /\ Play!Next /\ UNCHANGED <<vars, catVars, planVars>>
    \/ part = "schedule" /\ Sched!Next /\ UNCHANGED <<vars, playVars, planVars>>
    \/ part = "edit" /\ Meta!Next /\ UNCHANGED <<vars, playVars, planVars>>
    \/ part = "hand" /\ Hand!Next /\ UNCHANGED <<vars, playVars, catVars>>
    \/ part = "auto" /\ Auto!Next /\ UNCHANGED <<vars, playVars, catVars>>
    \/ part = "twice" /\ Twice!Next /\ UNCHANGED <<vars, playVars, catVars>>
    \/ part = "every" /\ Every!Next /\ UNCHANGED <<vars, playVars, catVars>>

-----------------------------------------------------------------------------

\* A due time starts at most one run, however many replicas of the scheduler see it
\* (WorkflowSchedulerWorker's conditional claim); while the schedule and the versions are
\* edited, no run starts before its time or from a version that is not published; and two
\* advances of a run with a playbook, cancelled or not, start no step twice (advance_run).
StartsOnce ==
    /\ part = "schedule" => Sched!FiredOnce
    /\ part = "edit" => Meta!NeverEarly /\ Meta!CurrentIsPublished
    /\ part = "play" => Play!OneLiveJob

\* A drift event is IN_REMEDIATION only while one of its plans is at work
\* (dispatch_plan, apply_job_result, verification).
DriftHasPlan == part = "hand" => Hand!DriftHasPlan

\* Verification completes a plan only when the rule passed in an evaluation that came after
\* the job really ended (RemediationVerificationWorker).
CompletedIsVerified ==
    [][/\ part = "auto" => Auto!Completes
       /\ part = "twice" => Twice!Completes
       /\ part = "every" => Every!Completes]_<<part, automationVars>>
=============================================================================
