--------------------- MODULE PolicyRolloutProofs ---------------------
(***************************************************************************)
(* Agent policies on their way to one agent: what the control plane        *)
(* records as applied has been committed by the agent, for any number of   *)
(* policies, versions, lost heartbeats, restarts and rollback requests.    *)
(***************************************************************************)
EXTENDS PolicyRollout, WellFoundedInduction, TLAPS

\* Version numbers grow from deployment to deployment.  A report finds the deployment it names:
\* either there are no more deployments than it is looked up in, or a policy is deployed when the
\* deployment before it is settled (the code looks a report up in the last five).
RolloutAssumption ==
    /\ MaxVersion \in Nat /\ MaxDeploy \in Nat /\ Window \in Nat
    /\ "older" \notin Faults
    /\ MaxDeploy <= Window \/ ("overlap" \notin Faults /\ Window >= 2)

Deployments == [ver : Versions, status : {"pending", "delivered", "applied", "failed"}]

\* The agent has committed the version an "applied" report is about.
ReportOK(r) ==
    r.result # "none" => /\ r.dep \in DOMAIN deps
                         /\ r.result = "applied" => deps[r.dep].ver \in applied

\* Deployments that do not overlap: the report that waits is about the last one, or about the one
\* before it while the last is open.
Alone ==
    /\ Open(deps) \subseteq {Len(deps)}
    /\ wire.offer # 0 => wire.offer = Len(deps) /\ Len(deps) \in Open(deps)
    /\ agent.report.result # "none" =>
         /\ agent.report.dep \in {Len(deps), Len(deps) - 1}
         /\ Len(deps) \notin Open(deps) => agent.report.dep = Len(deps)

Growing == \A d, e \in DOMAIN deps : d < e => Number(deps[d].ver) < Number(deps[e].ver)

\* What the agent has stored, and what its verifier compares with, came from a deployment.
AgentOK ==
    /\ DOMAIN agent = {"base", "stored", "running", "report"}
    /\ applied \subseteq {deps[d].ver : d \in DOMAIN deps}
    /\ agent.stored \in applied \cup {NoVersion}
    /\ agent.base = 0 \/ \E u \in applied : Number(u) = agent.base

WireOK ==
    /\ DOMAIN wire = {"at", "report", "offer"}
    /\ wire.offer \in {0} \cup DOMAIN deps
    /\ wire.offer # 0 => wire.at = "answer"
    /\ wire.at = "report" => wire.report = agent.report

RolloutInv ==
    /\ deps \in Seq(Deployments) /\ Len(deps) <= MaxDeploy
    /\ Growing
    /\ AgentOK
    /\ WireOK
    /\ ReportOK(agent.report)
    /\ "overlap" \notin Faults => Alone
    /\ AppliedIsReal

-----------------------------------------------------------------------------

LEMMA NewestIndex ==
    ASSUME NEW n \in Nat, NEW S \in SUBSET (1..n), S # {}
    PROVE  Highest(S) \in S
<1> DEFINE T == {n - d : d \in S}
<1>1. T \subseteq Nat /\ T # {}
    OBVIOUS
<1>2. PICK x \in T : \A y \in T : ~(<<y, x>> \in OpToRel(<, Nat))
    BY <1>1, NatLessThanWellFounded, WFMin
<1>3. \A y \in T : ~(y < x)
    BY <1>1, <1>2 DEF OpToRel
<1>4. PICK d \in S : x = n - d
    OBVIOUS
<1>5. ASSUME NEW e \in S PROVE e <= d
  <2>1. n - e \in T
      OBVIOUS
  <2>2. ~(n - e < n - d)
      BY <1>3, <1>4, <2>1
  <2> QED
      BY <2>2
<1>6. \E m \in S : \A e \in S : e <= m
    BY <1>5
<1> QED
    BY <1>6 DEF Highest

LEMMA RolloutInit == RolloutAssumption /\ Init => RolloutInv
<1> SUFFICES ASSUME RolloutAssumption, Init PROVE RolloutInv
    OBVIOUS
<1>1. deps = << >> /\ deps \in Seq(Deployments) /\ Len(deps) = 0 /\ DOMAIN deps = {} /\ applied = {}
    BY DEF Init
<1>2. /\ DOMAIN agent = {"base", "stored", "running", "report"} /\ agent.base = 0
      /\ agent.stored = NoVersion /\ agent.report = NoReport
    BY DEF Init
<1>3. DOMAIN wire = {"at", "report", "offer"} /\ wire.at = "agent" /\ wire.offer = 0
    BY DEF Init, Quiet
<1>4. agent.report.result = "none"
    BY <1>2 DEF NoReport
<1>5. Alone
    BY <1>1, <1>3, <1>4 DEF Alone, Open
<1> QED
    BY <1>1, <1>2, <1>3, <1>4, <1>5
    DEF RolloutInv, Growing, AgentOK, WireOK, ReportOK, AppliedIsReal, RolloutAssumption

\* The rows and the numbers they carry.
LEMMA DeploymentRows ==
    ASSUME RolloutAssumption, RolloutInv
    PROVE  /\ Len(deps) \in Nat /\ DOMAIN deps = 1..Len(deps)
           /\ \A d \in DOMAIN deps :
                /\ deps[d] \in Deployments /\ DOMAIN deps[d] = {"ver", "status"}
                /\ deps[d].ver \in Versions
                /\ deps[d].status \in {"pending", "delivered", "applied", "failed"}
                /\ Number(deps[d].ver) \in Nat \ {0}
<1>1. Len(deps) \in Nat /\ DOMAIN deps = 1..Len(deps) /\ \A d \in DOMAIN deps : deps[d] \in Deployments
    BY DEF RolloutInv
<1>2. ASSUME NEW w \in Deployments
      PROVE  /\ DOMAIN w = {"ver", "status"} /\ w.ver \in Versions
             /\ w.status \in {"pending", "delivered", "applied", "failed"}
    BY DEF Deployments
<1>3. ASSUME NEW v \in Versions PROVE Number(v) \in Nat \ {0}
    BY DEF Versions, Number, RolloutAssumption
<1> QED
    BY <1>1, <1>2, <1>3

\* A number stands for one version among those deployed.
LEMMA OneNumberOneVersion ==
    ASSUME RolloutAssumption, RolloutInv, NEW d \in DOMAIN deps, NEW e \in DOMAIN deps,
           Number(deps[d].ver) = Number(deps[e].ver)
    PROVE  d = e
<1>1. d \in Nat /\ e \in Nat /\ Number(deps[d].ver) \in Nat /\ Number(deps[e].ver) \in Nat
    BY DeploymentRows
<1>2. (d < e \/ e < d) => Number(deps[d].ver) # Number(deps[e].ver)
    BY <1>1 DEF RolloutInv, Growing
<1> QED
    BY <1>1, <1>2

\* _apply_policy_report finds the deployment the agent's report is about.
LEMMA ReportFindsItsOwn ==
    ASSUME RolloutAssumption, RolloutInv, agent.report.result # "none"
    PROVE  /\ Target(agent.report) = agent.report.dep
           /\ agent.report.dep \in DOMAIN deps
<1>1. agent.report.dep \in DOMAIN deps /\ DOMAIN deps = 1..Len(deps) /\ Len(deps) \in Nat
    BY DeploymentRows DEF RolloutInv, ReportOK
<1>2. agent.report.dep > Len(deps) - Window
  <2>1. CASE MaxDeploy <= Window
      BY <1>1, <2>1 DEF RolloutInv, RolloutAssumption
  <2>2. CASE "overlap" \notin Faults /\ Window >= 2
      BY <1>1, <2>2 DEF RolloutInv, RolloutAssumption, Alone
  <2> QED
      BY <2>1, <2>2 DEF RolloutAssumption
<1> QED
    BY <1>1, <1>2 DEF Target

-----------------------------------------------------------------------------
(* The control plane.                                                       *)

LEMMA DeployKeeps ==
    ASSUME RolloutAssumption, RolloutInv, NEW v \in Versions, Deploy(v)
    PROVE  RolloutInv'
<1> DEFINE n == Len(deps) + 1
<1>0. Len(deps) \in Nat /\ DOMAIN deps = 1..Len(deps)
    BY DeploymentRows
<1>1. PICK new : new = [ver |-> v, status |-> "pending"]
    OBVIOUS
<1>2. new \in Deployments /\ new.ver = v /\ new.status = "pending"
    BY <1>1 DEF Deployments
<1>3. deps' = Append(deps, new) /\ UNCHANGED <<agent, wire, applied>> /\ Len(deps) < MaxDeploy
    BY <1>1 DEF Deploy
<1>4. deps \in Seq(Deployments)
    BY DEF RolloutInv
<1>5. /\ deps' \in Seq(Deployments) /\ Len(deps') = n /\ DOMAIN deps' = 1..n
      /\ deps'[n] = new /\ \A d \in DOMAIN deps : deps'[d] = deps[d]
    BY <1>0, <1>2, <1>3, <1>4
<1>6. DOMAIN deps' = DOMAIN deps \cup {n} /\ n \notin DOMAIN deps /\ n <= MaxDeploy
    BY <1>0, <1>3, <1>5 DEF RolloutAssumption
<1>7. Growing'
  <2>1. \A d \in DOMAIN deps : Number(deps[d].ver) < Number(v)
      BY DEF Deploy, RolloutAssumption
  <2>2. \A d, e \in DOMAIN deps : d < e => Number(deps[d].ver) < Number(deps[e].ver)
      BY DEF RolloutInv, Growing
  <2>3. \A d \in DOMAIN deps : d < n /\ ~(n < d)
      BY <1>0
  <2>4. ~(n < n)
      BY <1>0
  <2> QED
      BY <1>2, <1>5, <1>6, <2>1, <2>2, <2>3, <2>4 DEF Growing, Number
<1>8. AgentOK' /\ WireOK' /\ ReportOK(agent.report)'
    BY <1>3, <1>5, <1>6 DEF RolloutInv, AgentOK, WireOK, ReportOK, NoVersion, Number
<1>9. AppliedIsReal'
    BY <1>2, <1>3, <1>5, <1>6 DEF RolloutInv, AppliedIsReal
<1>10. ASSUME "overlap" \notin Faults PROVE Alone'
  <2>1. Open(deps) = {}
      BY <1>10 DEF Deploy
  <2>2. Open(deps)' = {n}
      BY <1>2, <1>5, <1>6, <2>1 DEF Open, Unsettled
  <2>3. wire.offer = 0 /\ (agent.report.result # "none" => agent.report.dep = Len(deps))
      BY <1>10, <2>1 DEF RolloutInv, Alone
  <2>4. agent.report.result # "none" => agent.report.dep = n - 1
      BY <1>0, <2>3
  <2> QED
      BY <1>3, <1>5, <2>2, <2>3, <2>4 DEF Alone
<1> QED
    BY <1>5, <1>6, <1>7, <1>8, <1>9, <1>10 DEF RolloutInv

\* Steps that only change the status of deployments.
LEMMA StatusMoves ==
    ASSUME RolloutAssumption, RolloutInv, deps' \in Seq(Deployments), DOMAIN deps' = DOMAIN deps,
           \A d \in DOMAIN deps : deps'[d].ver = deps[d].ver
    PROVE  Len(deps') = Len(deps) /\ Len(deps') <= MaxDeploy /\ Growing'
<1>1. Len(deps) \in Nat /\ DOMAIN deps = 1..Len(deps) /\ Len(deps') \in Nat /\ DOMAIN deps' = 1..Len(deps')
    BY DeploymentRows
<1>2. Len(deps') = Len(deps)
    BY <1>1
<1>3. Len(deps) <= MaxDeploy /\ Growing
    BY DEF RolloutInv
<1> QED
    BY <1>2, <1>3 DEF Growing, Number

\* A report settles the deployment it is about and no other one.
LEMMA ReportSettles ==
    ASSUME RolloutAssumption, RolloutInv, NEW t, t = agent.report.dep, agent.report.result # "none",
           NEW st \in {"applied", "failed"}, st = "applied" => deps[t].ver \in applied,
           deps' \in Seq(Deployments), DOMAIN deps' = DOMAIN deps,
           \A d \in DOMAIN deps : deps'[d].ver = deps[d].ver,
           \A d \in DOMAIN deps : deps'[d].status = IF d = t THEN st ELSE deps[d].status,
           wire.at = "report", wire' = [wire EXCEPT !.at = "offer"], UNCHANGED <<agent, applied>>
    PROVE  RolloutInv'
<1>1. Len(deps') = Len(deps) /\ Len(deps') <= MaxDeploy /\ Growing'
    BY StatusMoves
<1>2. wire.offer = 0 /\ DOMAIN wire = {"at", "report", "offer"}
    BY DEF RolloutInv, WireOK
<1>3. wire'.offer = 0 /\ wire'.at = "offer" /\ DOMAIN wire' = {"at", "report", "offer"}
    BY <1>2
<1>4. AgentOK' /\ WireOK' /\ ReportOK(agent.report)'
    BY <1>3 DEF RolloutInv, AgentOK, WireOK, ReportOK, NoVersion, Number
<1>5. AppliedIsReal'
    BY DEF RolloutInv, AppliedIsReal
<1>6. Open(deps)' = Open(deps) \ {t}
    BY DEF Open, Unsettled
<1>7. ASSUME "overlap" \notin Faults PROVE Alone'
    BY <1>1, <1>3, <1>6, <1>7 DEF RolloutInv, Alone
<1> QED
    BY <1>1, <1>4, <1>5, <1>7 DEF RolloutInv

LEMMA StoreReportKeeps ==
    ASSUME RolloutAssumption, RolloutInv, StoreReport
    PROVE  RolloutInv'
<1> DEFINE r == agent.report
<1>0. /\ wire.at = "report" /\ wire.report = r /\ wire' = [wire EXCEPT !.at = "offer"]
      /\ UNCHANGED <<agent, applied>>
    BY DEF StoreReport, RolloutInv, WireOK
<1>1. CASE UNCHANGED deps
  <2>1. DOMAIN wire = {"at", "report", "offer"} /\ wire.offer = 0
      BY <1>0 DEF RolloutInv, WireOK
  <2>2. DOMAIN wire' = {"at", "report", "offer"} /\ wire'.offer = 0 /\ wire'.at = "offer"
      BY <1>0, <2>1
  <2> QED
      BY <1>0, <1>1, <2>1, <2>2
      DEF RolloutInv, Growing, AgentOK, WireOK, ReportOK, Alone, AppliedIsReal, Open, Number
<1>2. ASSUME r.result = "applied", ReportApplied(r) PROVE RolloutInv'
  <2>1. PICK t : t = r.dep
      OBVIOUS
  <2>2. t \in DOMAIN deps /\ Target(r) = t /\ deps[t].ver \in applied
      BY <1>2, <2>1, ReportFindsItsOwn DEF RolloutInv, ReportOK
  <2>3. \A d \in DOMAIN deps : deps[d].ver = deps[t].ver => d = t
      BY <2>2, OneNumberOneVersion
  <2>4. deps' = [d \in DOMAIN deps |-> IF d = t THEN [deps[d] EXCEPT !.status = "applied"] ELSE deps[d]]
      BY <1>2, <2>2, <2>3 DEF ReportApplied
  <2>5. ASSUME NEW d \in DOMAIN deps
        PROVE  /\ deps'[d] \in Deployments /\ deps'[d].ver = deps[d].ver
               /\ deps'[d].status = IF d = t THEN "applied" ELSE deps[d].status
    <3>1. deps[d] \in Deployments /\ DOMAIN deps[d] = {"ver", "status"} /\ deps[d].ver \in Versions
        BY DeploymentRows
    <3> QED
        BY <2>4, <3>1 DEF Deployments
  <2>6. deps' \in Seq(Deployments) /\ DOMAIN deps' = DOMAIN deps
    <3>1. Len(deps) \in Nat /\ DOMAIN deps = 1..Len(deps)
        BY DeploymentRows
    <3>2. deps' \in [1..Len(deps) -> Deployments]
        BY <2>4, <2>5, <3>1
    <3> QED
        BY <3>1, <3>2
  <2> QED
      BY <1>0, <1>2, <2>1, <2>2, <2>5, <2>6, ReportSettles
<1>3. ASSUME r.result = "failed", ReportFailed(r) PROVE RolloutInv'
  <2>1. PICK t : t = r.dep
      OBVIOUS
  <2>2. t \in DOMAIN deps /\ Target(r) = t
      BY <1>3, <2>1, ReportFindsItsOwn
  <2>3. deps[t] \in Deployments /\ DOMAIN deps[t] = {"ver", "status"} /\ deps[t].ver \in Versions
      BY <2>2, DeploymentRows
  <2>4. PICK new : new = [deps[t] EXCEPT !.status = "failed"]
      OBVIOUS
  <2>5. new \in Deployments /\ new.ver = deps[t].ver /\ new.status = "failed"
      BY <2>3, <2>4 DEF Deployments
  <2>6. deps' = [deps EXCEPT ![t] = new]
      BY <1>3, <2>2, <2>4 DEF ReportFailed
  <2>7. deps \in Seq(Deployments)
      BY DEF RolloutInv
  <2>8. /\ deps' \in Seq(Deployments) /\ DOMAIN deps' = DOMAIN deps
        /\ deps'[t] = new /\ \A d \in DOMAIN deps \ {t} : deps'[d] = deps[d]
      BY <2>2, <2>5, <2>6, <2>7
  <2>9. \A d \in DOMAIN deps : /\ deps'[d].ver = deps[d].ver
                               /\ deps'[d].status = IF d = t THEN "failed" ELSE deps[d].status
      BY <2>5, <2>8
  <2> QED
      BY <1>0, <1>3, <2>1, <2>8, <2>9, ReportSettles
<1> QED
    BY <1>0, <1>1, <1>2, <1>3 DEF StoreReport

LEMMA OfferKeeps ==
    ASSUME RolloutAssumption, RolloutInv, OfferEnvelope
    PROVE  RolloutInv'
<1>0. /\ DOMAIN wire = {"at", "report", "offer"} /\ wire.at = "offer" /\ wire.offer = 0
      /\ UNCHANGED <<agent, applied>>
    BY DEF OfferEnvelope, RolloutInv, WireOK
<1>1. CASE wire' = [wire EXCEPT !.at = "answer"] /\ UNCHANGED deps
  <2>1. DOMAIN wire' = {"at", "report", "offer"} /\ wire'.offer = 0 /\ wire'.at = "answer"
      BY <1>0, <1>1
  <2> QED
      BY <1>0, <1>1, <2>1
      DEF RolloutInv, Growing, AgentOK, WireOK, ReportOK, Alone, AppliedIsReal, Open, Number
<1>2. ASSUME Open(deps) # {}, NEW t, t = Highest(Open(deps)),
             wire' = [wire EXCEPT !.at = "answer", !.offer = t],
             deps' = [deps EXCEPT ![t].status = "delivered"]
      PROVE  RolloutInv'
  <2>1. Len(deps) \in Nat /\ Open(deps) \in SUBSET (1..Len(deps))
      BY DeploymentRows DEF Open
  <2>2. t \in Open(deps) /\ t \in DOMAIN deps /\ t # 0
    <3>1. t \in Open(deps)
        BY <1>2, <2>1, NewestIndex
    <3> QED
        BY <2>1, <3>1 DEF Open
  <2>3. deps[t] \in Deployments /\ DOMAIN deps[t] = {"ver", "status"} /\ deps[t].ver \in Versions
      BY <2>2, DeploymentRows
  <2>4. PICK new : new = [deps[t] EXCEPT !.status = "delivered"]
      OBVIOUS
  <2>5. new \in Deployments /\ new.ver = deps[t].ver /\ new.status = "delivered"
      BY <2>3, <2>4 DEF Deployments
  <2>6. deps \in Seq(Deployments) /\ deps' = [deps EXCEPT ![t] = new]
      BY <1>2, <2>4 DEF RolloutInv
  <2>7. /\ deps' \in Seq(Deployments) /\ DOMAIN deps' = DOMAIN deps
        /\ deps'[t] = new /\ \A d \in DOMAIN deps \ {t} : deps'[d] = deps[d]
      BY <2>2, <2>5, <2>6
  <2>8. \A d \in DOMAIN deps : deps'[d].ver = deps[d].ver
      BY <2>5, <2>7
  <2>9. Len(deps') = Len(deps) /\ Len(deps') <= MaxDeploy /\ Growing'
      BY <2>7, <2>8, StatusMoves
  <2>10. DOMAIN wire' = {"at", "report", "offer"} /\ wire'.offer = t /\ wire'.at = "answer"
      BY <1>0, <1>2
  <2>11. AgentOK' /\ WireOK' /\ ReportOK(agent.report)'
      BY <1>0, <2>2, <2>7, <2>8, <2>10 DEF RolloutInv, AgentOK, WireOK, ReportOK, NoVersion, Number
  <2>12. AppliedIsReal'
      BY <1>0, <2>5, <2>7 DEF RolloutInv, AppliedIsReal
  <2>13. Open(deps)' = Open(deps)
      BY <2>2, <2>5, <2>7 DEF Open, Unsettled
  <2>14. ASSUME "overlap" \notin Faults PROVE Alone'
      BY <1>0, <2>2, <2>9, <2>10, <2>13, <2>14 DEF RolloutInv, Alone
  <2> QED
      BY <2>7, <2>9, <2>11, <2>12, <2>14 DEF RolloutInv
<1> QED
    BY <1>1, <1>2 DEF OfferEnvelope

-----------------------------------------------------------------------------
(* The agent.                                                               *)

\* Steps in which no deployment changes: the parts of the invariant about the agent decide.
LEMMA AgentMoves ==
    ASSUME RolloutInv, UNCHANGED deps, applied \subseteq applied', AgentOK', WireOK',
           ReportOK(agent.report)', "overlap" \notin Faults => Alone'
    PROVE  RolloutInv'
BY DEF RolloutInv, Growing, AppliedIsReal, Number

LEMMA HandleResponseKeeps ==
    ASSUME RolloutAssumption, RolloutInv, HandleResponse
    PROVE  RolloutInv'
<1>0. /\ UNCHANGED deps /\ wire' = Quiet /\ DOMAIN agent = {"base", "stored", "running", "report"}
      /\ wire.offer \in {0} \cup DOMAIN deps /\ Len(deps) \in Nat
    BY DeploymentRows DEF HandleResponse, RolloutInv, WireOK, AgentOK
<1>1. WireOK'
    BY <1>0 DEF WireOK, Quiet
<1>2. wire'.offer = 0
    BY <1>0 DEF Quiet
<1>3. ASSUME NEW r, agent' = [agent EXCEPT !.report = r], UNCHANGED applied,
             r.result # "none" => /\ r.dep = wire.offer /\ wire.offer # 0
                                  /\ r.result = "applied" => deps[r.dep].ver \in applied
      PROVE  RolloutInv'
  <2>1. /\ agent'.report = r /\ agent'.base = agent.base /\ agent'.stored = agent.stored
        /\ DOMAIN agent' = {"base", "stored", "running", "report"}
      BY <1>0, <1>3
  <2>2. AgentOK' /\ ReportOK(agent.report)'
      BY <1>0, <1>3, <2>1 DEF RolloutInv, AgentOK, ReportOK, NoVersion, Number
  <2>3. ASSUME "overlap" \notin Faults PROVE Alone'
      BY <1>0, <1>2, <1>3, <2>1, <2>3 DEF RolloutInv, Alone, Open
  <2> QED
      BY <1>0, <1>1, <1>3, <2>2, <2>3, AgentMoves
<1>4. ASSUME NEW v, v = deps[wire.offer].ver, wire.offer # 0, NEW res \in {"applied", "failed"},
             agent' = [agent EXCEPT !.report = Report(v, res)], UNCHANGED applied,
             res = "applied" => v \in applied
      PROVE  RolloutInv'
  <2>1. PICK r : r = Report(v, res)
      OBVIOUS
  <2>2. r.dep = wire.offer /\ r.result = res
      BY <2>1 DEF Report
  <2> QED
      BY <1>3, <1>4, <2>1, <2>2
<1>5. CASE wire.offer = 0
  <2>1. NoReport.result = "none"
      BY DEF NoReport
  <2> QED
      BY <1>3, <1>5, <2>1 DEF HandleResponse
<1>6. CASE wire.offer # 0
  <2>0. PICK v : v = deps[wire.offer].ver
      OBVIOUS
  <2>1. wire.offer \in DOMAIN deps /\ Number(v) \in Nat \ {0}
      BY <1>0, <1>6, <2>0, DeploymentRows
  <2>2. CASE Check(v) = "downgrade" /\ agent' = [agent EXCEPT !.report = Report(v, "failed")]
             /\ UNCHANGED applied
      BY <1>4, <1>6, <2>0, <2>2
  <2>3. CASE Check(v) = "duplicate" /\ agent' = [agent EXCEPT !.report = Report(v, "applied")]
             /\ UNCHANGED applied
    <3>1. Number(v) = agent.base
        BY <2>3 DEF Check
    <3>2. PICK u \in applied : Number(u) = agent.base
        BY <2>1, <3>1 DEF RolloutInv, AgentOK
    <3>3. PICK e \in DOMAIN deps : u = deps[e].ver
        BY DEF RolloutInv, AgentOK
    <3>4. e = wire.offer
        BY <2>0, <2>1, <3>1, <3>2, <3>3, OneNumberOneVersion
    <3>5. v \in applied
        BY <2>0, <3>2, <3>3, <3>4
    <3> QED
        BY <1>4, <1>6, <2>0, <2>3, <3>5
  <2>4. CASE ApplyPolicy(v)
    <3>0. PICK r, g : r = Report(v, "applied") /\ g = Report(v, "failed")
        OBVIOUS
    <3>1. r.dep = wire.offer /\ r.result = "applied" /\ g.dep = wire.offer /\ g.result = "failed"
        BY <3>0 DEF Report
    <3>2. CASE agent' = [agent EXCEPT !.stored = v, !.running = v, !.report = r] /\ applied' = applied \cup {v}
      <4>1. /\ agent'.report = r /\ agent'.base = agent.base /\ agent'.stored = v
            /\ DOMAIN agent' = {"base", "stored", "running", "report"}
          BY <1>0, <3>2
      <4>2. AgentOK' /\ ReportOK(agent.report)'
          BY <1>0, <2>0, <2>1, <3>1, <3>2, <4>1 DEF RolloutInv, AgentOK, ReportOK, Number
      <4>3. ASSUME "overlap" \notin Faults PROVE Alone'
          BY <1>0, <1>2, <1>6, <3>1, <4>1, <4>3 DEF RolloutInv, Alone, Open
      <4> QED
          BY <1>0, <1>1, <3>2, <4>2, <4>3, AgentMoves
    <3>3. CASE agent' = [agent EXCEPT !.running = v, !.report = g] /\ UNCHANGED applied
      <4>1. /\ agent'.report = g /\ agent'.base = agent.base /\ agent'.stored = agent.stored
            /\ DOMAIN agent' = {"base", "stored", "running", "report"}
          BY <1>0, <3>3
      <4>2. AgentOK' /\ ReportOK(agent.report)'
          BY <1>0, <2>1, <3>1, <3>3, <4>1 DEF RolloutInv, AgentOK, ReportOK, NoVersion, Number
      <4>3. ASSUME "overlap" \notin Faults PROVE Alone'
          BY <1>0, <1>2, <1>6, <3>1, <4>1, <4>3 DEF RolloutInv, Alone, Open
      <4> QED
          BY <1>0, <1>1, <3>3, <4>2, <4>3, AgentMoves
    <3> QED
        BY <2>4, <3>0, <3>2, <3>3 DEF ApplyPolicy
  <2> QED
      BY <1>6, <2>0, <2>2, <2>3, <2>4 DEF HandleResponse
<1> QED
    BY <1>5, <1>6

LEMMA RestartKeeps ==
    ASSUME RolloutAssumption, RolloutInv, Restart
    PROVE  RolloutInv'
<1>0. UNCHANGED <<deps, applied>> /\ wire' = Quiet /\ DOMAIN agent = {"base", "stored", "running", "report"}
    BY DEF Restart, RolloutInv, AgentOK
<1>1. /\ DOMAIN agent' = {"base", "stored", "running", "report"} /\ agent'.stored = agent.stored
      /\ agent'.base = Number(agent.stored) /\ agent'.report = NoReport
    BY <1>0 DEF Restart
<1>2. agent'.report.result = "none" /\ wire'.offer = 0 /\ wire'.at = "agent"
      /\ DOMAIN wire' = {"at", "report", "offer"}
    BY <1>0, <1>1 DEF NoReport, Quiet
<1>3. Number(NoVersion) = 0
    BY DEF Number, NoVersion
<1>4. AgentOK'
    BY <1>0, <1>1, <1>3 DEF RolloutInv, AgentOK, NoVersion, Number
<1>5. WireOK' /\ ReportOK(agent.report)' /\ ("overlap" \notin Faults => Alone')
    BY <1>0, <1>2 DEF RolloutInv, WireOK, ReportOK, Alone, Open
<1> QED
    BY <1>0, <1>4, <1>5, AgentMoves

LEMMA WireMoves ==
    ASSUME RolloutInv, UNCHANGED <<deps, agent, applied>>, DOMAIN wire' = {"at", "report", "offer"},
           wire'.offer = 0, wire'.at = "report" => wire'.report = agent.report
    PROVE  RolloutInv'
<1>1. AgentOK' /\ WireOK' /\ ReportOK(agent.report)'
    BY DEF RolloutInv, AgentOK, WireOK, ReportOK, NoVersion, Number
<1>2. "overlap" \notin Faults => Alone'
    BY DEF RolloutInv, Alone, Open
<1> QED
    BY <1>1, <1>2, AgentMoves

LEMMA RolloutNext == RolloutAssumption /\ RolloutInv /\ [Next]_vars => RolloutInv'
<1> SUFFICES ASSUME RolloutAssumption, RolloutInv, [Next]_vars PROVE RolloutInv'
    OBVIOUS
<1>1. CASE Heartbeat
  <2>1. wire' = [at |-> "report", report |-> agent.report, offer |-> 0] /\ UNCHANGED <<deps, agent, applied>>
      BY <1>1 DEF Heartbeat
  <2>2. DOMAIN wire' = {"at", "report", "offer"} /\ wire'.offer = 0 /\ wire'.report = agent.report
      BY <2>1
  <2> QED
      BY <2>1, <2>2, WireMoves
<1>2. CASE Lose
  <2>1. wire' = Quiet /\ UNCHANGED <<deps, agent, applied>>
      BY <1>2 DEF Lose
  <2>2. DOMAIN wire' = {"at", "report", "offer"} /\ wire'.offer = 0 /\ wire'.at = "agent"
      BY <2>1 DEF Quiet
  <2> QED
      BY <2>1, <2>2, WireMoves
<1>3. CASE UNCHANGED <<deps, agent, wire, applied>>
    BY <1>3 DEF RolloutInv, Growing, AgentOK, WireOK, ReportOK, Alone, AppliedIsReal, Open,
                Number, NoVersion
<1>4. ASSUME NEW v \in Versions, Rollback(v) PROVE RolloutInv'
    BY <1>3, <1>4 DEF Rollback
<1>5. CASE UNCHANGED vars
    BY <1>3, <1>5 DEF vars
<1> QED
    BY <1>1, <1>2, <1>4, <1>5, DeployKeeps, StoreReportKeeps, OfferKeeps, HandleResponseKeeps, RestartKeeps
    DEF Next

\* A deployment the control plane records as applied was committed by the agent: through lost
\* heartbeats and answers, reports sent twice, restarts that forget a report, failed health checks
\* and duplicates the verifier refuses, no report is credited to another deployment.
THEOREM AppliedWasCommitted ==
    ASSUME RolloutAssumption
    PROVE  Spec => []AppliedIsReal
<1>1. RolloutInv => AppliedIsReal
    BY DEF RolloutInv
<1>2. Init => RolloutInv
    BY RolloutInit
<1>3. RolloutInv /\ [Next]_vars => RolloutInv'
    BY RolloutNext
<1> QED
    BY <1>1, <1>2, <1>3, PTL DEF Spec

=====================================================================
