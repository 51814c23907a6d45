--------------------------- MODULE PolicyRollout ---------------------------
(***************************************************************************)
(* Rolling agent policies out to one agent: deploy stamps the desired      *)
(* version and opens a deployment, the heartbeat handler stores the        *)
(* agent's report and offers the newest unsettled deployment, the agent    *)
(* verifies, applies and reports with its next heartbeat.  Heartbeats and  *)
(* answers get lost, the agent restarts, and deployments overlap.          *)
(*                                                                         *)
(* A version is a policy and a number.  The versions deployed here are     *)
(* published; all but the seeded ones carry a valid signature.             *)
(***************************************************************************)
EXTENDS Integers, Sequences, FiniteSets

CONSTANTS
    Policies,     \* agent policies
    Seeded,       \* policies whose first version the schema migration inserts as published,
                  \* with an empty signature
    MaxVersion,   \* bound: version numbers
    MaxDeploy,    \* bound: deployments of the agent
    MaxLoss,      \* bound: lost heartbeats and answers
    MaxRestart,   \* bound: restarts of the agent
    MaxRollback,  \* bound: rollback requests
    Window,       \* deployments a report is looked up in (5 in the code)
    Faults        \* "health": the health check may fail; "overlap": a policy is deployed while
                  \* another deployment is unsettled; "older": not the highest number so far

VARIABLES
    deps,     \* agent_policy_deployments in order of started_at
    row,      \* the policy columns of the agent's row
    agent,    \* base: the verifier's version; stored: policy.meta; running: what the collectors
              \* follow; report: the report waiting for a heartbeat
    wire,     \* the heartbeat under way
    applied,  \* history: versions the agent has committed
    losses, restarts,
    rolled    \* history: rollback requests for a published version, and those that opened one

vars == <<deps, row, agent, wire, applied, losses, restarts, rolled>>

Versions == Policies \X (1..MaxVersion)
NoVersion == <<"none", 0>>
Number(v) == v[2]
Signed(v) == ~(v[1] \in Seeded /\ Number(v) = 1)
Unsettled == {"pending", "delivered"}
NoReport == [dep |-> 0, ver |-> NoVersion, result |-> "none"]
Quiet == [at |-> "agent", report |-> NoReport, offer |-> 0]

Init ==
    /\ deps = << >>
    /\ row = [desired |-> NoVersion, current |-> NoVersion, status |-> "idle"]
    /\ agent = [base |-> 0, stored |-> NoVersion, running |-> NoVersion, report |-> NoReport]
    /\ wire = Quiet
    /\ applied = {}
    /\ losses = 0 /\ restarts = 0
    /\ rolled = [asked |-> 0, opened |-> 0]

------------------------------------------------------------------------------
(* The control plane.                                                      *)

Open(ds) == {d \in DOMAIN ds : ds[d].status \in Unsettled}
Highest(S) == CHOOSE d \in S : \A e \in S : e <= d

\* deploy: the version of the policy's current pointer, one deployment for the agent, and the
\* desired stamp, in one transaction.  Deployments already open stay as they are.
Deploy(v) ==
    /\ Len(deps) < MaxDeploy
    /\ "overlap" \in Faults \/ Open(deps) = {}
    /\ "older" \in Faults \/ \A d \in DOMAIN deps : Number(deps[d].ver) < Number(v)
    /\ deps' = Append(deps, [ver |-> v, status |-> "pending"])
    /\ row' = [row EXCEPT !.desired = v, !.status = "pending"]
    /\ UNCHANGED <<agent, wire, applied, losses, restarts, rolled>>

\* rollback: scalar_one_or_none is asked of the coroutine before it is awaited, so the
\* request fails whenever the agent has a desired version; without one it answers 404.
Rollback(v) ==
    /\ rolled.asked < MaxRollback
    /\ row.desired # NoVersion /\ v[1] = row.desired[1]
    /\ rolled' = [rolled EXCEPT !.asked = @ + 1]
    /\ UNCHANGED <<deps, row, agent, wire, applied, losses, restarts>>

\* The agent sends a heartbeat with its waiting report.
Heartbeat ==
    /\ wire.at = "agent" /\ wire.offer = 0
    /\ wire' = [at |-> "report", report |-> agent.report, offer |-> 0]
    /\ UNCHANGED <<deps, row, agent, applied, losses, restarts, rolled>>

\* The deployment a report is about: the one it names when that is among the latest, otherwise
\* the newest of them that was delivered; 0 when there is none.
Target(r) ==
    LET latest == {d \in DOMAIN deps : d > Len(deps) - Window}
        delivered == {d \in latest : deps[d].status = "delivered"} IN
    IF r.dep \in latest THEN r.dep
    ELSE IF delivered = {} THEN 0 ELSE Highest(delivered)

\* An "applied" report: the target and the open deployments of the same version are applied.
ReportApplied(r) ==
    LET t == Target(r) IN
    /\ deps' = [d \in DOMAIN deps |->
                  IF d = t \/ (deps[d].ver = deps[t].ver /\ deps[d].status \in Unsettled)
                  THEN [deps[d] EXCEPT !.status = "applied"] ELSE deps[d]]
    /\ row' = [row EXCEPT !.current = deps[t].ver, !.status = "idle"]

\* A "failed" report freezes desired at the last version that was applied.
ReportFailed(r) ==
    /\ deps' = [deps EXCEPT ![Target(r)].status = "failed"]
    /\ row' = [row EXCEPT !.status = "failed", !.desired = row.current]

\* _apply_policy_report, with a commit of its own.
StoreReport ==
    /\ wire.at = "report"
    /\ wire' = [wire EXCEPT !.at = "offer"]
    /\ LET r == wire.report IN
       \/ (r.result = "none" \/ Target(r) = 0) /\ UNCHANGED <<deps, row>>
       \/ r.result = "applied" /\ Target(r) # 0 /\ ReportApplied(r)
       \/ r.result = "failed" /\ Target(r) # 0 /\ ReportFailed(r)
    /\ UNCHANGED <<agent, applied, losses, restarts, rolled>>

\* Mutant: a deployment is offered once.
OfferEnvelopeOnce ==
    /\ wire.at = "offer"
    /\ LET P == {d \in DOMAIN deps : deps[d].status = "pending"} IN
       \/ /\ P = {}
          /\ wire' = [wire EXCEPT !.at = "answer"] /\ UNCHANGED <<deps, row>>
       \/ /\ P # {}
          /\ wire' = [wire EXCEPT !.at = "answer", !.offer = Highest(P)]
          /\ deps' = [deps EXCEPT ![Highest(P)].status = "delivered"]
          /\ row' = [row EXCEPT !.status = "syncing"]
    /\ UNCHANGED <<agent, applied, losses, restarts, rolled>>

\* _pending_policy_envelope: the newest unsettled deployment, delivered before or not; none
\* when that one's version carries no signature.
OfferEnvelope ==
    /\ wire.at = "offer"
    /\ LET d == Highest(Open(deps))
           ready == Open(deps) # {} /\ Signed(deps[d].ver) IN
       \/ ~ready /\ wire' = [wire EXCEPT !.at = "answer"] /\ UNCHANGED <<deps, row>>
       \/ /\ ready
          /\ wire' = [wire EXCEPT !.at = "answer", !.offer = d]
          /\ deps' = [deps EXCEPT ![d].status = "delivered"]
          /\ row' = [row EXCEPT !.status = "syncing"]
    /\ UNCHANGED <<agent, applied, losses, restarts, rolled>>

------------------------------------------------------------------------------
(* The agent.                                                              *)

\* Verifier.Check: the number is compared with the one stored when the agent started.
Check(v) == CASE Number(v) < agent.base -> "downgrade"
              [] Number(v) = agent.base -> "duplicate"
              [] OTHER -> "ok"

Report(v, result) == [dep |-> wire.offer, ver |-> v, result |-> result]

\* Mutant: the report goes out before the document is committed.
ApplyUncommitted(v) ==
    /\ agent' = [agent EXCEPT !.report = Report(v, "applied")]
    /\ UNCHANGED applied

\* Applier.Apply: the collectors follow the candidate first; a health check that fails leaves
\* the store, a commit writes it.
ApplyPolicy(v) ==
    \/ /\ agent' = [agent EXCEPT !.stored = v, !.running = v, !.report = Report(v, "applied")]
       /\ applied' = applied \cup {v}
    \/ /\ "health" \in Faults
       /\ agent' = [agent EXCEPT !.running = v, !.report = Report(v, "failed")]
       /\ UNCHANGED applied

\* handleResponse: the report that was sent is cleared, the envelope is handled.
HandleResponse ==
    /\ wire.at = "answer"
    /\ wire' = Quiet
    /\ \/ /\ wire.offer = 0
          /\ agent' = [agent EXCEPT !.report = NoReport] /\ UNCHANGED applied
       \/ /\ wire.offer # 0
          /\ LET v == deps[wire.offer].ver IN
             \/ Check(v) = "ok" /\ ApplyPolicy(v)
             \/ /\ Check(v) = "duplicate"
                /\ agent' = [agent EXCEPT !.report = Report(v, "applied")] /\ UNCHANGED applied
             \/ /\ Check(v) = "downgrade"
                /\ agent' = [agent EXCEPT !.report = Report(v, "failed")] /\ UNCHANGED applied
    /\ UNCHANGED <<deps, row, losses, restarts, rolled>>

\* A heartbeat that does not arrive, or whose answer does not: the report stays queued.
Lose ==
    /\ losses < MaxLoss /\ wire.at \in {"report", "answer"}
    /\ wire' = Quiet /\ losses' = losses + 1
    /\ UNCHANGED <<deps, row, agent, applied, restarts, rolled>>

\* The agent starts again: the verifier reads the stored number, the collectors are the
\* configured ones, and the queued report is gone.
Restart ==
    /\ restarts < MaxRestart /\ wire.at \in {"agent", "answer"}
    /\ agent' = [agent EXCEPT !.base = Number(agent.stored), !.running = NoVersion, !.report = NoReport]
    /\ wire' = Quiet /\ restarts' = restarts + 1
    /\ UNCHANGED <<deps, row, applied, losses, rolled>>

Next == \/ \E v \in Versions : Deploy(v) \/ Rollback(v)
        \/ Heartbeat \/ StoreReport \/ OfferEnvelope \/ HandleResponse
        \/ Lose \/ Restart

Spec == Init /\ [][Next]_vars
\* Heartbeats go on forever and the handler finishes the ones it receives.
Fairness == /\ WF_vars(Heartbeat) /\ WF_vars(StoreReport) /\ WF_vars(OfferEnvelope)
            /\ WF_vars(HandleResponse)

------------------------------------------------------------------------------
(* Properties.                                                             *)

\* A deployment marked applied was committed by the agent, whatever was lost or repeated.
AppliedIsReal == \A d \in DOMAIN deps : deps[d].status = "applied" => deps[d].ver \in applied

\* Every deployment is settled in the end, through losses, restarts and overlaps.
DeploymentSettles == \A d \in 1..MaxDeploy :
    (d \in Open(deps)) ~> (d \notin Open(deps))

=============================================================================
