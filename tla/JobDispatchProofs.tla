------------------------- MODULE JobDispatchProofs -------------------------
(***************************************************************************)
(* Theorems about the job pipeline, for every set of jobs, agents, users   *)
(* and handlers, every window and every number of slots.                   *)
(***************************************************************************)
EXTENDS JobDispatch, TLAPS, FiniteSetTheorems, SequenceTheorems,
        WellFoundedInduction

\* A nonempty set of positions in a sequence has a largest one (the CHOOSE of Reported is defined).
LEMMA LargestIndex ==
    ASSUME NEW n \in Nat, NEW S \in SUBSET (1..n), S # {}
    PROVE  \E i \in S : \A k \in S : k <= i
<1> DEFINE T == {n - i : i \in S}
           R == OpToRel(<, Nat)
<1>1. T \subseteq Nat /\ T # {}
    <2>1. PICK i \in S : TRUE
        OBVIOUS
    <2>2. n - i \in T
        OBVIOUS
    <2> QED
        BY <2>2
<1>2. IsWellFoundedOn(R, Nat)
    BY NatLessThanWellFounded
<1>3. PICK x \in T : \A y \in T : ~(<<y, x>> \in R)
    BY <1>1, <1>2, WFMin
<1>4. \A y \in T : ~(y < x)
    BY <1>1, <1>3 DEF OpToRel
<1>5. PICK i \in S : x = n - i
    OBVIOUS
<1>6. ASSUME NEW k \in S
      PROVE  k <= i
    BY <1>4, <1>5
<1> QED
    BY <1>6

\* recompute_job_status derives a job status or nothing.
LEMMA AggregateType ==
    ASSUME NEW S
    PROVE  AggregateStatus(S) \in JobStatuses \cup {NoStatus}
BY DEF AggregateStatus, JobStatuses, NoStatus, TerminalRowStatuses

-----------------------------------------------------------------------------
(* Type correctness, one lemma per operation of the control plane.         *)

\* create_job keeps the types.
LEMMA CreateType ==
    ASSUME ControlTypeOK, NEW j \in Jobs, NEW u \in Users, NEW T \in SUBSET Agents,
           NEW g \in BOOLEAN, CreateJob(j, u, T, g)
    PROVE  ControlTypeOK'
BY DEF ControlTypeOK, CreateJob, handlerVars, JobStatuses, RowStatuses

\* approve_job keeps the types.
LEMMA ApproveType ==
    ASSUME ControlTypeOK, NEW j \in Jobs, NEW u \in Users, ApproveJob(j, u)
    PROVE  ControlTypeOK'
BY DEF ControlTypeOK, ApproveJob, handlerVars

\* The load of cancel_job keeps the types.
LEMMA CancelLoadType ==
    ASSUME ControlTypeOK, NEW j \in Jobs, CancelLoad(j)
    PROVE  ControlTypeOK'
BY DEF ControlTypeOK, CancelLoad, handlerVars, rowVars

\* The commit of cancel_job keeps the types.
LEMMA CancelCommitType ==
    ASSUME ControlTypeOK, NEW j \in Jobs, CancelCommit(j)
    PROVE  ControlTypeOK'
BY DEF ControlTypeOK, CancelCommit, handlerVars, JobStatuses

\* A heartbeat that arrives keeps the types.
LEMMA ReceiveType ==
    ASSUME ControlTypeOK, NEW h \in Handlers, NEW a \in Agents, NEW R \in ResultMaps, Receive(h, a, R)
    PROVE  ControlTypeOK'
BY DEF ControlTypeOK, Receive, rowVars, PCs

\* The flush of the reported rows keeps the types.
LEMMA FlushType ==
    ASSUME ControlTypeOK, NEW h \in Handlers, FlushResults(h)
    PROVE  ControlTypeOK'
<1>1. Touched(h) \subseteq Jobs
    BY DEF Touched
<1>2. [j \in Jobs |-> IF j \in Touched(h) THEN hRes[h][j] ELSE NoStatus] \in ResultMaps
    BY DEF ControlTypeOK, ResultMaps
<1> QED
    BY <1>1, <1>2 DEF ControlTypeOK, FlushResults, rowVars, PCs

\* The read of a job's rows keeps the types.
LEMMA RecomputeRowsType ==
    ASSUME ControlTypeOK, NEW h \in Handlers, NEW j \in Jobs, RecomputeRows(h, j)
    PROVE  ControlTypeOK'
BY AggregateType DEF ControlTypeOK, RecomputeRows, rowVars, PCs

\* The assignment of the derived status keeps the types.
LEMMA RecomputeJobType ==
    ASSUME ControlTypeOK, NEW h \in Handlers, RecomputeJob(h)
    PROVE  ControlTypeOK'
BY DEF ControlTypeOK, RecomputeJob, rowVars, PCs

\* The commit of _apply_job_results keeps the types.
LEMMA CommitType ==
    ASSUME ControlTypeOK, NEW h \in Handlers, CommitResults(h)
    PROVE  ControlTypeOK'
<1>1. JobsAfter(h) \in [Jobs -> JobStatuses \cup {ABSENT}]
    BY DEF ControlTypeOK, JobsAfter
<1>2. RowsAfter(h) \in [Jobs -> [Agents -> RowStatuses \cup {ABSENT}]]
    BY DEF ControlTypeOK, RowsAfter, RowSeen, ResultMaps, Outcomes, RowStatuses
<1> QED
    BY <1>1, <1>2 DEF ControlTypeOK, CommitResults, PCs, ResultMaps, NoResults, NoWrites

\* A round of selecting and signing keeps the types.
LEMMA SelectType ==
    ASSUME ControlTypeOK, NEW h \in Handlers, NEW B \in SUBSET Jobs, NEW F \in SUBSET B,
           SelectRound(h, B, F)
    PROVE  ControlTypeOK'
BY DEF ControlTypeOK, SelectRound, rowVars, PCs

\* mark_held keeps the types.
LEMMA HoldType ==
    ASSUME ControlTypeOK, NEW h \in Handlers, MarkHeld(h)
    PROVE  ControlTypeOK'
BY DEF ControlTypeOK, MarkHeld, PCs

\* mark_dispatched keeps the types.
LEMMA DispatchType ==
    ASSUME ControlTypeOK, NEW h \in Handlers, MarkDispatched(h)
    PROVE  ControlTypeOK'
BY DEF ControlTypeOK, MarkDispatched, PCs, JobStatuses, RowStatuses

\* The end of a handler keeps the types.
LEMMA FinishType ==
    ASSUME ControlTypeOK, NEW h \in Handlers, Finish(h)
    PROVE  ControlTypeOK'
BY DEF ControlTypeOK, Finish, PCs, rowVars, ResultMaps, NoResults, NoWrites

\* An expiring hold keeps the types.
LEMMA HoldExpiresType ==
    ASSUME ControlTypeOK, NEW j \in Jobs, NEW a \in Agents, HoldExpires(j, a)
    PROVE  ControlTypeOK'
BY DEF ControlTypeOK, HoldExpires, handlerVars

\* The sweep's SELECT keeps the types.
LEMMA SweepLoadType ==
    ASSUME ControlTypeOK, NEW S \in SUBSET Jobs, SweepLoad(S)
    PROVE  ControlTypeOK'
BY DEF ControlTypeOK, SweepLoad, rowVars, handlerVars

\* The sweep's commit keeps the types.
LEMMA SweepCommitType ==
    ASSUME ControlTypeOK, SweepCommit
    PROVE  ControlTypeOK'
BY DEF ControlTypeOK, SweepCommit, handlerVars, JobStatuses, RowStatuses

\* A sweep that rolls back keeps the types.
LEMMA SweepFailType ==
    ASSUME ControlTypeOK, SweepFail
    PROVE  ControlTypeOK'
BY DEF ControlTypeOK, SweepFail, rowVars, handlerVars

-----------------------------------------------------------------------------
(* Steps that start no job on an agent, add nothing  to what is said or sent, *)
(* and give no claimed row back, keep the invariants about custody.        *)

CustodyInv == UnclaimedInv /\ ResponseInv /\ GoroutineInv /\ AgreeInv

\* Such a step keeps all four custody invariants.
LEMMA ControlFrame ==
    ASSUME CustodyInv,
           UNCHANGED runs,
           \A j \in Jobs, a \in Agents : phase'[a][j] \in {phase[a][j], "none"},
           \A j \in Jobs, a \in Agents : \A o \in Outcomes : Says(j, a, o)' => Says(j, a, o),
           \A j \in Jobs, a \in Agents, h \in Handlers : Responding(h, j, a)' => Responding(h, j, a),
           \A j \in Jobs, a \in Agents :
              result'[j][a] \in {ABSENT, "PENDING"} => result[j][a] \in {ABSENT, "PENDING"}
    PROVE  CustodyInv'
<1>1. \A j \in Jobs, a \in Agents : Unreported(j, a) => Unreported(j, a)'
    BY DEF Unreported
<1>2. UnclaimedInv'
    BY <1>1 DEF CustodyInv, UnclaimedInv
<1>3. ResponseInv'
    BY <1>1 DEF CustodyInv, ResponseInv
<1>4. GoroutineInv'
    BY <1>1 DEF CustodyInv, GoroutineInv
<1>5. AgreeInv'
    BY DEF CustodyInv, AgreeInv
<1> QED
    BY <1>2, <1>3, <1>4, <1>5 DEF CustodyInv

\* What is said depends on the queue, the handlers' results and the rows.
LEMMA SaysFrame ==
    ASSUME UNCHANGED queue,
           \A h \in Handlers, a \in Agents, j \in Jobs : \A o \in Outcomes :
              hAgent'[h] = a /\ hRes'[h][j] = o =>
                 \/ hAgent[h] = a /\ hRes[h][j] = o
                 \/ \E r \in Reports(a) : r.job = j /\ r.outcome = o,
           \A a \in Agents, j \in Jobs : \A o \in Outcomes :
              result'[j][a] = o => Says(j, a, o)
    PROVE  \A j \in Jobs, a \in Agents : \A o \in Outcomes : Says(j, a, o)' => Says(j, a, o)
BY DEF Says, Reports

\* The markers for nothing are no outcomes an agent could report.
LEMMA NoOutcome == NoStatus \notin Outcomes /\ ABSENT \notin Outcomes /\ NoStatus # ABSENT
BY DEF NoStatus, ABSENT, Outcomes

-----------------------------------------------------------------------------
(* The API requests.                                                       *)

\* create_job keeps the invariant: the rows it makes were absent.
LEMMA CreateStep ==
    ASSUME IInv, NEW j \in Jobs, NEW u \in Users, NEW T \in SUBSET Agents, NEW g \in BOOLEAN,
           CreateJob(j, u, T, g), UNCHANGED <<agentVars, linkVars>>
    PROVE  IInv'
<1>1. TypeOK'
    BY CreateType DEF IInv, TypeOK, AgentTypeOK, agentVars, linkVars
<1>2. HandlersInv' /\ WaitInv'
    BY DEF IInv, HandlersInv, WaitInv, CreateJob, handlerVars, agentVars, linkVars
<1>3. \A i \in Jobs, a \in Agents :
         result'[i][a] # result[i][a] => result[i][a] = ABSENT /\ result'[i][a] = "PENDING"
    BY DEF IInv, TypeOK, ControlTypeOK, ApprovalInv, CreateJob
<1>4. \A i \in Jobs, a \in Agents : \A o \in Outcomes : Says(i, a, o)' => Says(i, a, o)
    BY <1>3, SaysFrame DEF Says, CreateJob, handlerVars, agentVars, Outcomes
<1>5. CustodyInv'
    BY <1>3, <1>4, ControlFrame DEF IInv, CustodyInv, Responding, CreateJob, handlerVars, agentVars
<1>6. ApprovalInv'
    BY DEF IInv, TypeOK, ControlTypeOK, ApprovalInv, CreateJob, handlerVars, agentVars, ABSENT
<1> QED
    BY <1>1, <1>2, <1>5, <1>6 DEF IInv, CustodyInv

\* approve_job keeps the invariant: the approver is not the requester.
LEMMA ApproveStep ==
    ASSUME IInv, NEW j \in Jobs, NEW u \in Users, ApproveJob(j, u), UNCHANGED <<agentVars, linkVars>>
    PROVE  IInv'
<1>1. TypeOK'
    BY ApproveType DEF IInv, TypeOK, AgentTypeOK, agentVars, linkVars
<1>2. HandlersInv' /\ WaitInv'
    BY DEF IInv, HandlersInv, WaitInv, ApproveJob, handlerVars, agentVars, linkVars
<1>3. CustodyInv'
    BY SaysFrame, ControlFrame DEF IInv, CustodyInv, Responding, Says, ApproveJob, handlerVars, agentVars
<1>4. ApprovalInv'
    BY DEF IInv, TypeOK, ControlTypeOK, ApprovalInv, ApproveJob, handlerVars, agentVars
<1> QED
    BY <1>1, <1>2, <1>3, <1>4 DEF IInv, CustodyInv

\* The load of cancel_job keeps the invariant.
LEMMA CancelLoadStep ==
    ASSUME IInv, NEW j \in Jobs, CancelLoad(j), UNCHANGED <<agentVars, linkVars>>
    PROVE  IInv'
<1>1. TypeOK'
    BY CancelLoadType DEF IInv, TypeOK, AgentTypeOK, agentVars, linkVars
<1>2. HandlersInv' /\ WaitInv' /\ ApprovalInv'
    BY DEF IInv, HandlersInv, WaitInv, ApprovalInv, CancelLoad, rowVars, handlerVars, agentVars, linkVars
<1>3. CustodyInv'
    BY SaysFrame, ControlFrame DEF IInv, CustodyInv, Responding, Says, CancelLoad, rowVars, handlerVars, agentVars
<1> QED
    BY <1>1, <1>2, <1>3 DEF IInv, CustodyInv

\* The commit of cancel_job keeps the invariant: it leaves the rows alone.
LEMMA CancelCommitStep ==
    ASSUME IInv, NEW j \in Jobs, CancelCommit(j), UNCHANGED <<agentVars, linkVars>>
    PROVE  IInv'
<1>1. TypeOK'
    BY CancelCommitType DEF IInv, TypeOK, AgentTypeOK, agentVars, linkVars
<1>2. HandlersInv' /\ WaitInv'
    BY DEF IInv, HandlersInv, WaitInv, CancelCommit, handlerVars, agentVars, linkVars
<1>3. ApprovalInv'
    BY DEF IInv, TypeOK, ControlTypeOK, ApprovalInv, CancelCommit, handlerVars, agentVars, ABSENT
<1>4. CustodyInv'
    BY SaysFrame, ControlFrame DEF IInv, CustodyInv, Responding, Says, CancelCommit, handlerVars, agentVars
<1> QED
    BY <1>1, <1>2, <1>3, <1>4 DEF IInv, CustodyInv

-----------------------------------------------------------------------------
(* Heartbeats that begin, and the handler's way to the commit.             *)

\* The last report of a job is one of the reports.
LEMMA ReportedFacts ==
    ASSUME TypeOK, NEW a \in Agents
    PROVE  /\ Reported(a) \in ResultMaps
           /\ \A j \in Jobs : \A o \in Outcomes :
                 Reported(a)[j] = o => \E r \in Reports(a) : r.job = j /\ r.outcome = o
           /\ \A i \in 1..Len(queue[a]) : Reported(a)[queue[a][i].job] \in Outcomes
<1> DEFINE at(j) == {i \in 1..Len(queue[a]) : queue[a][i].job = j}
           last(j) == CHOOSE i \in at(j) : \A k \in at(j) : k <= i
<1>1. queue[a] \in Seq(Report)
    BY DEF TypeOK, AgentTypeOK
<1>2. ASSUME NEW j \in Jobs, at(j) # {}
      PROVE  /\ last(j) \in at(j)
             /\ queue[a][last(j)] \in Report
             /\ queue[a][last(j)].job = j
             /\ queue[a][last(j)].outcome \in Outcomes
    <2>1. \E i \in at(j) : \A k \in at(j) : k <= i
        <3>1. Len(queue[a]) \in Nat /\ at(j) \in SUBSET (1..Len(queue[a]))
            BY <1>1
        <3> HIDE DEF at
        <3> QED
            BY <1>2, <3>1, LargestIndex
    <2>2. last(j) \in at(j)
        BY <2>1
    <2>3. last(j) \in 1..Len(queue[a]) /\ queue[a][last(j)].job = j
        BY <2>2
    <2> HIDE DEF last
    <2>4. queue[a][last(j)] \in Report
        BY <1>1, <2>3
    <2>5. queue[a][last(j)].outcome \in Outcomes
        BY <2>4 DEF Report
    <2> QED
        BY <2>2, <2>3, <2>4, <2>5
<1>3. \A j \in Jobs : Reported(a)[j] = IF at(j) = {} THEN NoStatus ELSE queue[a][last(j)].outcome
    BY DEF Reported
<1>4. Reported(a) \in ResultMaps
    BY <1>2 DEF Reported, ResultMaps
<1>5. ASSUME NEW j \in Jobs, NEW o \in Outcomes, Reported(a)[j] = o
      PROVE  \E r \in Reports(a) : r.job = j /\ r.outcome = o
    <2>1. at(j) # {}
        BY <1>3, <1>5, NoOutcome
    <2>2. last(j) \in 1..Len(queue[a]) /\ queue[a][last(j)].job = j
        BY <1>2, <2>1
    <2>3. queue[a][last(j)].outcome = o
        BY <1>3, <1>5, <2>1
    <2>4. queue[a][last(j)] \in Reports(a)
        BY <2>2 DEF Reports
    <2> HIDE DEF last
    <2> QED
        BY <2>2, <2>3, <2>4
<1>6. ASSUME NEW i \in 1..Len(queue[a])
      PROVE  Reported(a)[queue[a][i].job] \in Outcomes
    <2>0. queue[a][i] \in Report
        BY <1>1
    <2>1. queue[a][i].job \in Jobs /\ i \in at(queue[a][i].job)
        BY <2>0 DEF Report
    <2> HIDE DEF at, last
    <2> QED
        BY <1>2, <1>3, <2>1
<1> QED
    BY <1>4, <1>5, <1>6

\* A heartbeat copies into the handler what the agent's queue already says.
LEMMA SendStep ==
    ASSUME IInv, NEW a \in Agents, NEW h \in Handlers, SendHeartbeat(a, h)
    PROVE  IInv'
<1>1. /\ Reported(a) \in ResultMaps
      /\ \A j \in Jobs : \A o \in Outcomes :
            Reported(a)[j] = o => \E r \in Reports(a) : r.job = j /\ r.outcome = o
    BY ReportedFacts DEF IInv
<1>2. Receive(h, a, Reported(a)) /\ StartHeartbeat(a)
    BY DEF SendHeartbeat
<1>3. TypeOK'
    <2>1. ControlTypeOK'
        BY <1>1, <1>2, ReceiveType DEF IInv, TypeOK
    <2>2. AgentTypeOK'
        BY <1>2 DEF IInv, TypeOK, AgentTypeOK, StartHeartbeat
    <2> QED
        BY <2>1, <2>2 DEF IInv, TypeOK, SendHeartbeat
<1>4. HandlersInv'
    BY <1>2 DEF IInv, TypeOK, ControlTypeOK, HandlersInv, Receive
<1>5. WaitInv'
    <2>1. Len(queue[a]) \in Nat
        BY DEF IInv, TypeOK, AgentTypeOK
    <2>2. wait[a] = NoHandler
        BY <1>2 DEF IInv, WaitInv, StartHeartbeat
    <2>3. \A b \in Agents : wait[b] # h
        BY <1>2, DispatchAssumption DEF IInv, WaitInv, Receive
    <2> QED
        BY <1>2, <2>1, <2>2, <2>3, DispatchAssumption
        DEF IInv, TypeOK, ControlTypeOK, AgentTypeOK, WaitInv, Receive, StartHeartbeat, SendHeartbeat
<1>6. \A j \in Jobs, b \in Agents : \A o \in Outcomes : Says(j, b, o)' => Says(j, b, o)
    <2>1. \A g \in Handlers, b \in Agents, j \in Jobs : \A o \in Outcomes :
              hAgent'[g] = b /\ hRes'[g][j] = o =>
                 \/ hAgent[g] = b /\ hRes[g][j] = o
                 \/ \E r \in Reports(b) : r.job = j /\ r.outcome = o
        <3>1. hAgent' = [hAgent EXCEPT ![h] = a] /\ hRes' = [hRes EXCEPT ![h] = Reported(a)]
            BY <1>2 DEF Receive
        <3>2. hAgent'[h] = a /\ hRes'[h] = Reported(a)
            BY <3>1 DEF IInv, TypeOK, ControlTypeOK
        <3>3. \A g \in Handlers \ {h} : hAgent'[g] = hAgent[g] /\ hRes'[g] = hRes[g]
            BY <3>1 DEF IInv, TypeOK, ControlTypeOK
        <3> QED
            BY <1>1, <3>2, <3>3
    <2>2. UNCHANGED <<queue, result>>
        BY <1>2 DEF Receive, StartHeartbeat, rowVars
    <2> QED
        BY <2>1, <2>2, SaysFrame DEF Says
<1>7. CustodyInv'
    BY <1>2, <1>6, ControlFrame
    DEF IInv, TypeOK, ControlTypeOK, CustodyInv, Responding, Receive, StartHeartbeat, rowVars
<1>8. ApprovalInv'
    BY <1>2 DEF IInv, ApprovalInv, Receive, StartHeartbeat, rowVars
<1> QED
    BY <1>3, <1>4, <1>5, <1>7, <1>8 DEF IInv, CustodyInv

\* The flush keeps the invariant: it only forgets results without a row.
LEMMA FlushStep ==
    ASSUME IInv, NEW h \in Handlers, FlushResults(h), UNCHANGED <<agentVars, linkVars>>
    PROVE  IInv'
<1>1. TypeOK'
    BY FlushType DEF IInv, TypeOK, AgentTypeOK, agentVars, linkVars
<1>2. HandlersInv'
    <2>1. Touched(h) = {} =>
             [j \in Jobs |-> IF j \in Touched(h) THEN hRes[h][j] ELSE NoStatus] = NoResults
        BY DEF NoResults
    <2> QED
        BY <2>1 DEF IInv, TypeOK, ControlTypeOK, HandlersInv, FlushResults
<1>3. WaitInv'
    BY DEF IInv, TypeOK, ControlTypeOK, WaitInv, FlushResults, agentVars, linkVars
<1>4. \A j \in Jobs, a \in Agents : \A o \in Outcomes : Says(j, a, o)' => Says(j, a, o)
    BY SaysFrame, NoOutcome
    DEF IInv, TypeOK, ControlTypeOK, Says, FlushResults, agentVars, rowVars
<1>5. CustodyInv'
    BY <1>4, ControlFrame
    DEF IInv, TypeOK, ControlTypeOK, CustodyInv, Responding, FlushResults, agentVars, rowVars
<1>6. ApprovalInv'
    BY DEF IInv, ApprovalInv, FlushResults, agentVars, rowVars
<1> QED
    BY <1>1, <1>2, <1>3, <1>5, <1>6 DEF IInv, CustodyInv

\* The read of a job's rows keeps the invariant.
LEMMA RecomputeRowsStep ==
    ASSUME IInv, NEW h \in Handlers, NEW j \in Jobs, RecomputeRows(h, j),
           UNCHANGED <<agentVars, linkVars>>
    PROVE  IInv'
<1>1. TypeOK'
    BY RecomputeRowsType DEF IInv, TypeOK, AgentTypeOK, agentVars, linkVars
<1>2. HandlersInv' /\ WaitInv'
    BY DEF IInv, TypeOK, ControlTypeOK, HandlersInv, WaitInv, RecomputeRows, agentVars, linkVars
<1>3. CustodyInv'
    BY SaysFrame, ControlFrame
    DEF IInv, TypeOK, ControlTypeOK, CustodyInv, Responding, Says, RecomputeRows, agentVars, rowVars
<1>4. ApprovalInv'
    BY DEF IInv, ApprovalInv, RecomputeRows, agentVars, rowVars
<1> QED
    BY <1>1, <1>2, <1>3, <1>4 DEF IInv, CustodyInv

\* The assignment of the derived status keeps the invariant.
LEMMA RecomputeJobStep ==
    ASSUME IInv, NEW h \in Handlers, RecomputeJob(h), UNCHANGED <<agentVars, linkVars>>
    PROVE  IInv'
<1>1. TypeOK'
    BY RecomputeJobType DEF IInv, TypeOK, AgentTypeOK, agentVars, linkVars
<1>2. HandlersInv' /\ WaitInv'
    BY DEF IInv, TypeOK, ControlTypeOK, HandlersInv, WaitInv, RecomputeJob, agentVars, linkVars
<1>3. CustodyInv'
    <2>1. \A j \in Jobs, a \in Agents, g \in Handlers : Responding(g, j, a)' => Responding(g, j, a)
        BY DEF IInv, TypeOK, ControlTypeOK, Responding, RecomputeJob
    <2>2. UNCHANGED <<result, hAgent, hRes, agentVars>>
        BY DEF RecomputeJob, rowVars
    <2> QED
        BY <2>1, <2>2, SaysFrame, ControlFrame DEF IInv, CustodyInv, Says, agentVars
<1>4. ApprovalInv'
    BY DEF IInv, ApprovalInv, RecomputeJob, agentVars, rowVars
<1> QED
    BY <1>1, <1>2, <1>3, <1>4 DEF IInv, CustodyInv

\* The commit turns what the handler carried into what the rows say.
LEMMA CommitStep ==
    ASSUME IInv, NEW h \in Handlers, CommitResults(h), UNCHANGED <<agentVars, linkVars>>
    PROVE  IInv'
<1>1. TypeOK'
    BY CommitType DEF IInv, TypeOK, AgentTypeOK, agentVars, linkVars
<1>2. HandlersInv' /\ WaitInv'
    BY DEF IInv, TypeOK, ControlTypeOK, HandlersInv, WaitInv, CommitResults, agentVars, linkVars
<1>3. hAgent' = hAgent /\ hRes'[h] = NoResults /\ \A g \in Handlers \ {h} : hRes'[g] = hRes[g]
    BY DEF IInv, TypeOK, ControlTypeOK, CommitResults
<1>4. \A j \in Jobs, a \in Agents :
         \/ result'[j][a] = result[j][a]
         \/ /\ hAgent[h] = a /\ hRes[h][j] \in Outcomes
            /\ result'[j][a] = hRes[h][j]
    BY DEF IInv, TypeOK, ControlTypeOK, ResultMaps, CommitResults, RowsAfter, RowSeen
<1>5. \A j \in Jobs, a \in Agents : \A o \in Outcomes : Says(j, a, o)' => Says(j, a, o)
    <2>1. UNCHANGED queue
        BY DEF agentVars
    <2>2. \A g \in Handlers, a \in Agents, j \in Jobs : \A o \in Outcomes :
             hAgent'[g] = a /\ hRes'[g][j] = o => hAgent[g] = a /\ hRes[g][j] = o
        BY <1>3, NoOutcome DEF NoResults
    <2>3. \A a \in Agents, j \in Jobs : \A o \in Outcomes : result'[j][a] = o => Says(j, a, o)
        BY <1>4 DEF Says
    <2> QED
        BY <2>1, <2>2, <2>3, SaysFrame
<1>6. \A j \in Jobs, a \in Agents :
         result'[j][a] \in {ABSENT, "PENDING"} => result[j][a] \in {ABSENT, "PENDING"}
    BY <1>4 DEF ABSENT, Outcomes
<1>7. CustodyInv'
    BY <1>5, <1>6, ControlFrame
    DEF IInv, TypeOK, ControlTypeOK, CustodyInv, Responding, CommitResults, agentVars
<1>8. ApprovalInv'
    <2>1. \A j \in Jobs : job'[j] = ABSENT <=> job[j] = ABSENT /\ hJob[h][j] = NoStatus
        <3>1. \A j \in Jobs : job'[j] = IF hJob[h][j] # NoStatus THEN hJob[h][j] ELSE job[j]
            BY DEF CommitResults, JobsAfter
        <3>2. \A j \in Jobs : hJob[h][j] \in JobStatuses \cup {NoStatus}
            BY DEF IInv, TypeOK, ControlTypeOK
        <3>3. ABSENT \notin JobStatuses \cup {NoStatus}
            BY DEF JobStatuses, ABSENT, NoStatus
        <3> QED
            BY <3>1, <3>2, <3>3
    <2>2. \A j \in Jobs : job[j] # ABSENT => job'[j] # ABSENT
        BY <2>1
    <2>3. \A j \in Jobs, a \in Agents : result[j][a] = ABSENT => result'[j][a] = ABSENT
        BY <1>4 DEF IInv, UnclaimedInv, Unreported, Says
    <2> QED
        BY <2>1, <2>2, <2>3 DEF IInv, ApprovalInv, CommitResults, agentVars
<1> QED
    BY <1>1, <1>2, <1>7, <1>8 DEF IInv, CustodyInv

-----------------------------------------------------------------------------
(* Handing out pending work.                                               *)

\* A selected job has a PENDING row, so it exists and has passed the approval gate.
LEMMA SelectStep ==
    ASSUME IInv, NEW h \in Handlers, NEW B \in SUBSET Jobs, NEW F \in SUBSET B,
           SelectRound(h, B, F), UNCHANGED <<agentVars, linkVars>>
    PROVE  IInv'
<1>1. TypeOK'
    BY SelectType DEF IInv, TypeOK, AgentTypeOK, agentVars, linkVars
<1>2. pc[h] = "select" /\ hAgent[h] \in Agents
    BY DEF IInv, HandlersInv, SelectRound
<1>3. pc'[h] \in {"select", "hold", "claim"} /\ \A g \in Handlers \ {h} : pc'[g] = pc[g]
    BY DEF IInv, TypeOK, ControlTypeOK, SelectRound
<1>4. hSel'[h] \subseteq hSel[h] \cup Eligible(hAgent[h]) /\ \A g \in Handlers \ {h} : hSel'[g] = hSel[g]
    BY DEF IInv, TypeOK, ControlTypeOK, SelectRound
<1>5. UNCHANGED <<rowVars, hAgent, hRes, hCur, agentVars, linkVars>>
    BY DEF SelectRound
<1>6. HandlersInv' /\ WaitInv'
    BY <1>2, <1>3, <1>5 DEF IInv, HandlersInv, WaitInv, agentVars, linkVars
<1>7. \A j \in Jobs, a \in Agents, g \in Handlers : Responding(g, j, a)' => Responding(g, j, a)
    BY <1>3, <1>4, <1>5 DEF Responding
<1>8. CustodyInv'
    BY <1>5, <1>7, SaysFrame, ControlFrame DEF IInv, CustodyInv, Says, rowVars, agentVars
<1>9. ApprovalInv'
    <2>1. \A j \in Eligible(hAgent[h]) : job[j] # ABSENT /\ (requires[j] => approver[j] # NoUser)
        BY <1>2 DEF IInv, ApprovalInv, Eligible, ABSENT
    <2> QED
        BY <1>4, <1>5, <2>1 DEF IInv, ApprovalInv, rowVars, agentVars
<1> QED
    BY <1>1, <1>6, <1>8, <1>9 DEF IInv, CustodyInv

\* mark_held keeps the invariant.
LEMMA HoldStep ==
    ASSUME IInv, NEW h \in Handlers, MarkHeld(h), UNCHANGED <<agentVars, linkVars>>
    PROVE  IInv'
<1>1. TypeOK'
    BY HoldType DEF IInv, TypeOK, AgentTypeOK, agentVars, linkVars
<1>2. HandlersInv' /\ WaitInv'
    BY DEF IInv, TypeOK, ControlTypeOK, HandlersInv, WaitInv, MarkHeld, agentVars, linkVars
<1>3. CustodyInv'
    BY SaysFrame, ControlFrame
    DEF IInv, TypeOK, ControlTypeOK, CustodyInv, Responding, Says, MarkHeld, agentVars
<1>4. ApprovalInv'
    BY DEF IInv, ApprovalInv, MarkHeld, agentVars
<1> QED
    BY <1>1, <1>2, <1>3, <1>4 DEF IInv, CustodyInv

\* The claim: only rows that were PENDING go into the response, so no other response,
\* goroutine or report knows the job.
LEMMA DispatchStep ==
    ASSUME IInv, NEW h \in Handlers, MarkDispatched(h), UNCHANGED <<agentVars, linkVars>>
    PROVE  IInv'
<1> DEFINE c == hAgent[h]
           claimed == {j \in hSel[h] : result[j][c] = "PENDING"}
<1>1. TypeOK'
    BY DispatchType DEF IInv, TypeOK, AgentTypeOK, agentVars, linkVars
<1>2. pc[h] = "claim" /\ c \in Agents /\ claimed \subseteq Jobs
    BY DEF IInv, TypeOK, ControlTypeOK, HandlersInv, MarkDispatched
<1>3. pc'[h] = "respond" /\ \A g \in Handlers \ {h} : pc'[g] = pc[g]
    BY DEF IInv, TypeOK, ControlTypeOK, MarkDispatched
<1>4. hSel'[h] = claimed /\ \A g \in Handlers \ {h} : hSel'[g] = hSel[g]
    BY DEF IInv, TypeOK, ControlTypeOK, MarkDispatched
<1>5. UNCHANGED <<requires, creator, approver, hAgent, hRes, hCur, agentVars, linkVars>>
    BY DEF MarkDispatched
<1>6. \A j \in Jobs, a \in Agents :
         result'[j][a] = IF a = c /\ j \in claimed THEN "RUNNING" ELSE result[j][a]
    BY <1>2 DEF IInv, TypeOK, ControlTypeOK, MarkDispatched
<1>7. \A j \in Jobs : job'[j] = ABSENT <=> job[j] = ABSENT
    BY DEF IInv, TypeOK, ControlTypeOK, MarkDispatched, Cancellable, ABSENT
<1> HIDE DEF claimed
<1>8. HandlersInv' /\ WaitInv'
    BY <1>2, <1>3, <1>5 DEF IInv, HandlersInv, WaitInv, agentVars, linkVars
<1>9. \A j \in claimed : result[j][c] = "PENDING" /\ j \in hSel[h]
    BY DEF claimed
<1>10. \A j \in Jobs, a \in Agents : \A o \in Outcomes : Says(j, a, o)' => Says(j, a, o)
    BY <1>5, <1>6, SaysFrame DEF Says, Outcomes, agentVars
<1>11. \A j \in Jobs, a \in Agents : Unreported(j, a) => Unreported(j, a)'
    BY <1>10 DEF Unreported
<1>12. \A j \in Jobs, a \in Agents, g \in Handlers :
          Responding(g, j, a)' => Responding(g, j, a) \/ (g = h /\ a = c /\ j \in claimed)
    BY <1>3, <1>4, <1>5 DEF Responding
<1>13. UnclaimedInv'
    BY <1>5, <1>6, <1>11, <1>12 DEF IInv, UnclaimedInv, ABSENT, agentVars
<1>14. ResponseInv'
    <2>1. SUFFICES ASSUME NEW j \in Jobs, NEW a \in Agents, NEW g \in Handlers, Responding(g, j, a)'
                   PROVE  /\ phase[a][j] = "none" /\ runs[a][j] = 0
                          /\ Unreported(j, a)
                          /\ \A f \in Handlers : Responding(f, j, a)' => f = g
        BY <1>5, <1>11 DEF ResponseInv, agentVars
    <2>2. CASE a = c /\ j \in claimed
        <3>1. result[j][a] = "PENDING"
            BY <1>9, <2>2
        <3>2. \A f \in Handlers : ~Responding(f, j, a)
            BY <3>1 DEF IInv, UnclaimedInv
        <3> QED
            BY <1>12, <2>1, <3>1, <3>2 DEF IInv, UnclaimedInv
    <2>3. CASE ~(a = c /\ j \in claimed)
        BY <1>12, <2>1, <2>3 DEF IInv, ResponseInv
    <2> QED
        BY <2>2, <2>3
<1>15. GoroutineInv'
    BY <1>5, <1>11 DEF IInv, GoroutineInv, agentVars
<1>16. AgreeInv'
    BY <1>10 DEF IInv, AgreeInv
<1>17. ApprovalInv'
    <2>1. \A j \in Jobs, a \in Agents : result[j][a] = ABSENT => result'[j][a] = ABSENT
        BY <1>6, <1>9 DEF ABSENT
    <2>2. \A g \in Handlers : hSel'[g] \subseteq hSel[g]
        BY <1>4, <1>9
    <2> QED
        BY <1>5, <1>7, <2>1, <2>2 DEF IInv, ApprovalInv, agentVars
<1> QED
    BY <1>1, <1>8, <1>13, <1>14, <1>15, <1>16, <1>17 DEF IInv

-----------------------------------------------------------------------------
(* The end of a handler, and the agent's side.                             *)

\* What Finish leaves: an idle handler that serves nobody and carries nothing.
LEMMA FinishFacts ==
    ASSUME IInv, NEW h \in Handlers, Finish(h)
    PROVE  /\ ControlTypeOK'
           /\ HandlersInv'
           /\ UNCHANGED rowVars
           /\ pc'[h] = "idle" /\ hRes'[h] = NoResults /\ hSel'[h] = {}
           /\ \A g \in Handlers \ {h} :
                 /\ pc'[g] = pc[g] /\ hAgent'[g] = hAgent[g]
                 /\ hRes'[g] = hRes[g] /\ hSel'[g] = hSel[g]
           /\ \A j \in Jobs, a \in Agents, g \in Handlers :
                 Responding(g, j, a)' => g # h /\ Responding(g, j, a)
<1>1. ControlTypeOK'
    BY FinishType DEF IInv, TypeOK
<1>2. /\ pc'[h] = "idle" /\ hRes'[h] = NoResults /\ hSel'[h] = {}
      /\ \A g \in Handlers \ {h} :
            /\ pc'[g] = pc[g] /\ hAgent'[g] = hAgent[g] /\ hCur'[g] = hCur[g]
            /\ hRes'[g] = hRes[g] /\ hSel'[g] = hSel[g]
    BY DEF IInv, TypeOK, ControlTypeOK, Finish
<1>3. HandlersInv'
    BY <1>2 DEF IInv, HandlersInv
<1>4. \A j \in Jobs, a \in Agents, g \in Handlers :
         Responding(g, j, a)' => g # h /\ Responding(g, j, a)
    BY <1>2 DEF Responding
<1> QED
    BY <1>1, <1>2, <1>3, <1>4 DEF Finish

\* A handler that ends says nothing new.
LEMMA FinishSays ==
    ASSUME IInv, NEW h \in Handlers, Finish(h), UNCHANGED queue
    PROVE  \A j \in Jobs, a \in Agents : \A o \in Outcomes : Says(j, a, o)' => Says(j, a, o)
<1>1. \A g \in Handlers, a \in Agents, j \in Jobs : \A o \in Outcomes :
         hAgent'[g] = a /\ hRes'[g][j] = o => hAgent[g] = a /\ hRes[g][j] = o
    BY FinishFacts, NoOutcome DEF NoResults
<1>2. \A a \in Agents, j \in Jobs : \A o \in Outcomes : result'[j][a] = o => Says(j, a, o)
    BY FinishFacts DEF Says, rowVars
<1> QED
    BY <1>1, <1>2, SaysFrame

\* The history of losses keeps its type.
LEMMA LoseType ==
    ASSUME TypeOK, NEW S, NEW a \in Agents, LoseJobs(S, a)
    PROVE  lost' \in [Jobs -> [Agents -> BOOLEAN]]
BY DEF TypeOK, LoseJobs

\* A response nobody waits for keeps the invariant.
LEMMA DropStep ==
    ASSUME IInv, NEW h \in Handlers, DropResponse(h)
    PROVE  IInv'
<1>1. Finish(h) /\ UNCHANGED <<agentVars, wait>> /\ wait[hAgent[h]] # h /\ pc[h] = "respond"
    BY DEF DropResponse, Respond
<1>2. hAgent[h] \in Agents
    BY <1>1 DEF IInv, HandlersInv
<1>3. TypeOK'
    BY <1>1, <1>2, FinishFacts, LoseType DEF IInv, TypeOK, AgentTypeOK, DropResponse, agentVars
<1>4. HandlersInv' /\ UNCHANGED rowVars
    BY <1>1, FinishFacts
<1>5. WaitInv'
    <2>1. \A a \in Agents : wait[a] # h
        BY <1>1, DispatchAssumption DEF IInv, WaitInv
    <2> QED
        BY <1>1, <2>1, FinishFacts DEF IInv, TypeOK, WaitInv, agentVars
<1>6. CustodyInv'
    BY <1>1, <1>4, FinishFacts, FinishSays, ControlFrame DEF IInv, CustodyInv, agentVars, rowVars
<1>7. ApprovalInv'
    BY <1>1, FinishFacts DEF IInv, ApprovalInv, agentVars, rowVars
<1> QED
    BY <1>3, <1>4, <1>5, <1>6, <1>7 DEF IInv, CustodyInv

\* A handler that fails keeps the invariant: its rows roll back, its claims stay claimed.
LEMMA FailStep ==
    ASSUME IInv, NEW h \in Handlers, Fail(h)
    PROVE  IInv'
<1>1. Finish(h) /\ pc[h] # "idle" /\ UNCHANGED <<phase, queue, runs>>
    BY DEF Fail, HandlerFail, HeartbeatError, agentVars
<1>2. hAgent[h] \in Agents
    BY <1>1 DEF IInv, HandlersInv
<1>3. \/ wait[hAgent[h]] # h /\ UNCHANGED <<inHb, wait>>
      \/ /\ wait[hAgent[h]] = h
         /\ inHb' = [inHb EXCEPT ![hAgent[h]] = -1]
         /\ wait' = [wait EXCEPT ![hAgent[h]] = NoHandler]
    BY DEF Fail, HeartbeatError, agentVars
<1>4. TypeOK'
    <2>1. lost' \in [Jobs -> [Agents -> BOOLEAN]]
        BY <1>2, LoseType DEF IInv, Fail
    <2>2. ControlTypeOK'
        BY <1>1, FinishFacts
    <2>3. AgentTypeOK' /\ wait' \in [Agents -> Handlers \cup {NoHandler}]
        <3>1. inHb' \in [Agents -> Int]
            BY <1>3 DEF IInv, TypeOK, AgentTypeOK
        <3>2. wait' \in [Agents -> Handlers \cup {NoHandler}]
            BY <1>3 DEF IInv, TypeOK
        <3> QED
            BY <1>1, <3>1, <3>2 DEF IInv, TypeOK, AgentTypeOK
    <2> QED
        BY <2>1, <2>2, <2>3 DEF TypeOK
<1>5. HandlersInv' /\ UNCHANGED rowVars
    BY <1>1, FinishFacts
<1>6. WaitInv'
    <2>1. \A a \in Agents : a # hAgent[h] => wait[a] # h
        BY DispatchAssumption DEF IInv, WaitInv
    <2>2. \A a \in Agents : Len(queue[a]) \in Nat
        BY DEF IInv, TypeOK, AgentTypeOK
    <2>3. \A a \in Agents :
             \/ wait'[a] = NoHandler /\ inHb'[a] = -1
             \/ wait'[a] = wait[a] /\ inHb'[a] = inHb[a] /\ wait[a] # h
        BY <1>2, <1>3, <2>1 DEF IInv, TypeOK, AgentTypeOK
    <2> QED
        BY <1>1, <2>2, <2>3, FinishFacts, DispatchAssumption DEF IInv, TypeOK, WaitInv
<1>7. CustodyInv'
    BY <1>1, <1>5, FinishFacts, FinishSays, ControlFrame DEF IInv, CustodyInv, rowVars
<1>8. ApprovalInv'
    BY <1>1, FinishFacts DEF IInv, ApprovalInv, rowVars
<1> QED
    BY <1>4, <1>5, <1>6, <1>7, <1>8 DEF IInv, CustodyInv

\* A heartbeat cut off on the agent's side keeps the invariant.
LEMMA HeartbeatFailsStep ==
    ASSUME IInv, NEW a \in Agents, HeartbeatFails(a)
    PROVE  IInv'
<1>1. UNCHANGED <<controlVars, phase, queue, runs, lost>>
    BY DEF HeartbeatFails, HeartbeatError
<1>2. inHb' = [inHb EXCEPT ![a] = -1] /\ wait' = [wait EXCEPT ![a] = NoHandler]
    BY DEF HeartbeatFails, HeartbeatError
<1>3. TypeOK'
    BY <1>1, <1>2 DEF IInv, TypeOK, ControlTypeOK, AgentTypeOK, controlVars
<1>4. HandlersInv' /\ ApprovalInv'
    BY <1>1 DEF IInv, HandlersInv, ApprovalInv, controlVars
<1>5. WaitInv'
    <2>1. \A b \in Agents : Len(queue[b]) \in Nat
        BY DEF IInv, TypeOK, AgentTypeOK
    <2> QED
        BY <1>1, <1>2, <2>1, DispatchAssumption
        DEF IInv, TypeOK, AgentTypeOK, WaitInv, controlVars
<1>6. CustodyInv'
    BY <1>1, SaysFrame, ControlFrame DEF IInv, CustodyInv, Says, Responding, controlVars
<1> QED
    BY <1>3, <1>4, <1>5, <1>6 DEF IInv, CustodyInv

\* An agent restart keeps the invariant: what is lost is never handed out again.
LEMMA RestartStep ==
    ASSUME IInv, NEW a \in Agents, AgentRestart(a)
    PROVE  IInv'
<1>1. UNCHANGED <<controlVars, runs>>
    BY DEF AgentRestart, Restart
<1>2. /\ queue' = [queue EXCEPT ![a] = <<>>]
      /\ inHb' = [inHb EXCEPT ![a] = -1]
      /\ wait' = [wait EXCEPT ![a] = NoHandler]
      /\ phase' = [phase EXCEPT ![a] = [j \in Jobs |-> "none"]]
    BY DEF AgentRestart, Restart
<1>3. TypeOK'
    <2>1. lost' \in [Jobs -> [Agents -> BOOLEAN]]
        BY LoseType DEF IInv, AgentRestart
    <2>2. ControlTypeOK'
        BY <1>1 DEF IInv, TypeOK, ControlTypeOK, controlVars
    <2>3. AgentTypeOK'
        BY <1>1, <1>2 DEF IInv, TypeOK, AgentTypeOK, Phases
    <2> QED
        BY <1>2, <2>1, <2>2, <2>3 DEF IInv, TypeOK
<1>4. \A b \in Agents, j \in Jobs : phase'[b][j] \in {phase[b][j], "none"}
    BY <1>2 DEF IInv, TypeOK, AgentTypeOK
<1>5. queue'[a] = <<>> /\ \A b \in Agents \ {a} : queue'[b] = queue[b]
    BY <1>2 DEF IInv, TypeOK, AgentTypeOK
<1>6. HandlersInv' /\ ApprovalInv'
    BY <1>1, <1>4 DEF IInv, HandlersInv, ApprovalInv, controlVars
<1>7. WaitInv'
    BY <1>1, <1>2, <1>5, DispatchAssumption
    DEF IInv, TypeOK, AgentTypeOK, WaitInv, controlVars
<1>8. \A j \in Jobs, b \in Agents : \A o \in Outcomes : Says(j, b, o)' => Says(j, b, o)
    <2>1. \A b \in Agents : Reports(b)' \subseteq Reports(b)
        BY <1>5 DEF Reports
    <2> QED
        BY <1>1, <2>1 DEF Says, controlVars
<1>9. CustodyInv'
    BY <1>1, <1>4, <1>8, ControlFrame DEF IInv, CustodyInv, Responding, controlVars
<1> QED
    BY <1>3, <1>6, <1>7, <1>9 DEF IInv, CustodyInv

\* Sequences: the unsent rest of a queue followed by new reports.
LEMMA QueueRest ==
    ASSUME NEW s \in Seq(Report), NEW m \in 0..Len(s), NEW n \in Nat, NEW q \in [1..n -> Report],
           NEW t, t = SubSeq(s, m + 1, Len(s)) \o q
    PROVE  /\ t \in Seq(Report)
           /\ \A i \in 1..Len(t) :
                 \/ \E k \in 1..Len(s) : t[i] = s[k]
                 \/ \E k \in 1..n : t[i] = q[k]
<1> DEFINE r == SubSeq(s, m + 1, Len(s))
<1>1. q \in Seq(Report) /\ Len(q) = n
    OBVIOUS
<1>2. r \in Seq(Report) /\ Len(r) = Len(s) - m /\ \A i \in 1..Len(r) : r[i] = s[m + i]
    OBVIOUS
<1>3. t = r \o q
    OBVIOUS
<1> HIDE DEF r
<1>4. /\ t \in Seq(Report) /\ Len(t) = Len(r) + n
      /\ \A i \in 1..Len(t) : t[i] = IF i <= Len(r) THEN r[i] ELSE q[i - Len(r)]
    <2>1. /\ r \o q \in Seq(Report) /\ Len(r \o q) = Len(r) + Len(q)
          /\ \A i \in 1..(Len(r) + Len(q)) : (r \o q)[i] = IF i <= Len(r) THEN r[i] ELSE q[i - Len(r)]
        BY <1>1, <1>2, ConcatProperties, Zenon
    <2> QED
        BY <1>1, <1>3, <2>1, Zenon
<1>5. ASSUME NEW i \in 1..Len(t)
      PROVE  \/ \E k \in 1..Len(s) : t[i] = s[k]
             \/ \E k \in 1..n : t[i] = q[k]
    <2>1. CASE i <= Len(r)
        <3>1. t[i] = s[m + i] /\ m + i \in 1..Len(s)
            BY <1>2, <1>4, <2>1
        <3> QED
            BY <3>1
    <2>2. CASE ~(i <= Len(r))
        <3>1. t[i] = q[i - Len(r)] /\ i - Len(r) \in 1..n
            BY <1>2, <1>4, <2>2
        <3> QED
            BY <3>1
    <2> QED
        BY <2>1, <2>2
<1> QED
    BY <1>4, <1>5

\* The response arrives: its jobs, which nobody else knew, get a goroutine or a FAILED report.
LEMMA DeliverStep ==
    ASSUME IInv, NEW h \in Handlers, NEW bad \in SUBSET Jobs, Deliver(h, bad)
    PROVE  IInv'
<1> DEFINE c == hAgent[h]
           S == hSel[h]
<1>1. Finish(h) /\ pc[h] = "respond" /\ wait[c] = h /\ bad \subseteq S /\ UNCHANGED <<runs, lost>>
    BY DEF Deliver, Respond, HeartbeatOK
<1>2. c \in Agents /\ S \subseteq Jobs
    BY <1>1 DEF IInv, TypeOK, ControlTypeOK, HandlersInv
<1>3. PICK q \in Rejections(bad) :
         queue' = [queue EXCEPT ![c] = SubSeq(@, inHb[c] + 1, Len(@)) \o q]
    BY DEF Deliver, HeartbeatOK
<1>4. /\ inHb' = [inHb EXCEPT ![c] = -1]
      /\ wait' = [wait EXCEPT ![c] = NoHandler]
      /\ phase' = [phase EXCEPT ![c] = [j \in Jobs |->
                     IF j \in S \ bad /\ phase[c][j] = "none" THEN "waiting" ELSE phase[c][j]]]
    BY DEF Deliver, HeartbeatOK
<1>5. Cardinality(bad) \in Nat
    BY ControlAssumption, FS_Subset, FS_CardinalityType
<1>6. /\ q \in [1..Cardinality(bad) -> Report]
      /\ \A i \in 1..Cardinality(bad) : q[i].job \in bad /\ q[i].outcome = "FAILED"
    BY DEF Rejections
<1>7. queue[c] \in Seq(Report) /\ inHb[c] \in 0..Len(queue[c])
    BY <1>1, <1>2, DispatchAssumption DEF IInv, TypeOK, AgentTypeOK, WaitInv
<1>8. /\ queue'[c] \in Seq(Report)
      /\ \A i \in 1..Len(queue'[c]) :
            \/ \E k \in 1..Len(queue[c]) : queue'[c][i] = queue[c][k]
            \/ \E k \in 1..Cardinality(bad) : queue'[c][i] = q[k]
    <2>1. queue'[c] = SubSeq(queue[c], inHb[c] + 1, Len(queue[c])) \o q
        BY <1>2, <1>3 DEF IInv, TypeOK, AgentTypeOK
    <2> QED
        <3> HIDE DEF c
        <3>1. PICK s : s = queue[c]
            OBVIOUS
        <3>2. PICK m : m = inHb[c]
            OBVIOUS
        <3>3. PICK n : n = Cardinality(bad)
            OBVIOUS
        <3>4. PICK t : t = queue'[c]
            OBVIOUS
        <3>5. /\ s \in Seq(Report) /\ m \in 0..Len(s) /\ n \in Nat /\ q \in [1..n -> Report]
              /\ t = SubSeq(s, m + 1, Len(s)) \o q
            BY <1>5, <1>6, <1>7, <2>1, <3>1, <3>2, <3>3, <3>4
        <3>6. t \in Seq(Report)
            BY <3>5, QueueRest
        <3>7. \A i \in 1..Len(t) :
                 \/ \E k \in 1..Len(s) : t[i] = s[k]
                 \/ \E k \in 1..n : t[i] = q[k]
            BY <3>5, QueueRest
        <3> QED
            BY <3>1, <3>3, <3>4, <3>6, <3>7
<1>9. queue' = [queue EXCEPT ![c] = queue'[c]] /\ \A a \in Agents \ {c} : queue'[a] = queue[a]
    BY <1>2, <1>3 DEF IInv, TypeOK, AgentTypeOK
<1>10. TypeOK'
    <2>1. ControlTypeOK'
        BY <1>1, FinishFacts
    <2>2. queue' \in [Agents -> Seq(Report)]
        BY <1>8, <1>9 DEF IInv, TypeOK, AgentTypeOK
    <2>3. phase' \in [Agents -> [Jobs -> Phases]]
        BY <1>2, <1>4 DEF IInv, TypeOK, AgentTypeOK, Phases
    <2> QED
        BY <1>1, <1>2, <1>4, <2>1, <2>2, <2>3 DEF IInv, TypeOK, AgentTypeOK
<1>11. HandlersInv' /\ UNCHANGED rowVars
    BY <1>1, FinishFacts
<1>12. WaitInv'
    <2>1. \A a \in Agents \ {c} : wait[a] # h
        BY DispatchAssumption DEF IInv, WaitInv
    <2>2. \A a \in Agents : Len(queue'[a]) \in Nat
        BY <1>10 DEF TypeOK, AgentTypeOK
    <2>3. wait'[c] = NoHandler /\ inHb'[c] = -1
        BY <1>2, <1>4 DEF IInv, TypeOK, AgentTypeOK
    <2>4. \A a \in Agents \ {c} : wait'[a] = wait[a] /\ inHb'[a] = inHb[a]
        BY <1>4 DEF IInv, TypeOK, AgentTypeOK
    <2> QED
        BY <1>1, <1>9, <2>1, <2>2, <2>3, <2>4, FinishFacts, DispatchAssumption
        DEF IInv, TypeOK, WaitInv
<1>13. \A j \in S :
          /\ phase[c][j] = "none" /\ runs[c][j] = 0 /\ Unreported(j, c)
          /\ result[j][c] \notin {ABSENT, "PENDING"}
          /\ \A g \in Handlers : Responding(g, j, c) => g = h
    BY <1>1, <1>2 DEF IInv, ResponseInv, UnclaimedInv, Responding
<1>14. \A a \in Agents : \A r \in Reports(a)' :
          r \in Reports(a) \/ (a = c /\ r.job \in bad /\ r.outcome = "FAILED")
    BY <1>6, <1>8, <1>9 DEF Reports
<1>15. \A j \in Jobs, a \in Agents : \A o \in Outcomes :
          Says(j, a, o)' => Says(j, a, o) \/ (a = c /\ j \in bad /\ o = "FAILED")
    <2>1. \A g \in Handlers, a \in Agents, j \in Jobs : \A o \in Outcomes :
             hAgent'[g] = a /\ hRes'[g][j] = o => hAgent[g] = a /\ hRes[g][j] = o
        BY <1>1, FinishFacts, NoOutcome DEF NoResults
    <2> QED
        BY <1>11, <1>14, <2>1 DEF Says, rowVars
<1>16. \A j \in Jobs, a \in Agents :
          Unreported(j, a) /\ ~(a = c /\ j \in bad) => Unreported(j, a)'
    BY <1>15 DEF Unreported
<1>17. \A j \in Jobs, a \in Agents :
          phase'[a][j] = IF a = c /\ j \in S \ bad THEN "waiting" ELSE phase[a][j]
    BY <1>2, <1>4, <1>13 DEF IInv, TypeOK, AgentTypeOK
<1>18. \A j \in Jobs, a \in Agents, g \in Handlers :
          Responding(g, j, a)' => Responding(g, j, a) /\ ~(a = c /\ j \in S)
    BY <1>1, <1>13, FinishFacts
<1> HIDE DEF c, S
<1>19. UnclaimedInv'
    BY <1>1, <1>11, <1>13, <1>16, <1>17, <1>18 DEF IInv, UnclaimedInv, rowVars
<1>20. ResponseInv'
    BY <1>1, <1>16, <1>17, <1>18 DEF IInv, ResponseInv
<1>21. GoroutineInv'
    BY <1>1, <1>13, <1>16, <1>17 DEF IInv, GoroutineInv
<1>22. AgreeInv'
    BY <1>1, <1>13, <1>15 DEF IInv, AgreeInv, Unreported
<1>23. ApprovalInv'
    BY <1>1, <1>11, <1>17, FinishFacts DEF IInv, ApprovalInv, rowVars, S
<1> QED
    BY <1>10, <1>11, <1>12, <1>19, <1>20, <1>21, <1>22, <1>23 DEF IInv

\* A goroutine that gets its slot runs the job for the first time.
LEMMA AcquireStep ==
    ASSUME IInv, NEW a \in Agents, NEW j \in Jobs, AcquireSlot(a, j), UNCHANGED <<controlVars, linkVars>>
    PROVE  IInv'
<1>1. phase[a][j] = "waiting" /\ UNCHANGED <<queue, inHb, wait, lost>>
    BY DEF AcquireSlot, linkVars
<1>2. /\ phase'[a][j] = "running" /\ runs'[a][j] = runs[a][j] + 1
      /\ \A b \in Agents, i \in Jobs :
            <<b, i>> # <<a, j>> => phase'[b][i] = phase[b][i] /\ runs'[b][i] = runs[b][i]
    BY DEF IInv, TypeOK, AgentTypeOK, AcquireSlot
<1>3. TypeOK'
    <2>1. ControlTypeOK'
        BY DEF IInv, TypeOK, ControlTypeOK, controlVars
    <2>2. AgentTypeOK'
        BY DEF IInv, TypeOK, AgentTypeOK, AcquireSlot, Phases
    <2> QED
        BY <1>1, <2>1, <2>2 DEF IInv, TypeOK
<1>4. HandlersInv' /\ WaitInv'
    BY <1>1 DEF IInv, HandlersInv, WaitInv, controlVars
<1>5. \A b \in Agents, i \in Jobs : Unreported(i, b)' <=> Unreported(i, b)
    BY <1>1 DEF Unreported, Says, Reports, controlVars
<1>6. \A b \in Agents, i \in Jobs, h \in Handlers : Responding(h, i, b)' <=> Responding(h, i, b)
    BY DEF Responding, controlVars
<1>7. UnclaimedInv' /\ ResponseInv'
    BY <1>1, <1>2, <1>5, <1>6 DEF IInv, UnclaimedInv, ResponseInv, controlVars
<1>8. GoroutineInv'
    BY <1>1, <1>2, <1>5 DEF IInv, GoroutineInv
<1>9. AgreeInv'
    BY <1>1 DEF IInv, AgreeInv, Says, Reports, controlVars
<1>10. ApprovalInv'
    BY <1>1, <1>2 DEF IInv, ApprovalInv, controlVars
<1> QED
    BY <1>3, <1>4, <1>7, <1>8, <1>9, <1>10 DEF IInv

\* A finished goroutine adds the first and only report of its job.
LEMMA ReportStep ==
    ASSUME IInv, NEW a \in Agents, NEW j \in Jobs, NEW o \in Outcomes, ReportResult(a, j, o),
           UNCHANGED <<controlVars, linkVars>>
    PROVE  IInv'
<1>1. phase[a][j] = "running" /\ UNCHANGED <<inHb, runs, wait, lost>>
    BY DEF ReportResult, linkVars
<1>2. /\ phase'[a][j] = "none"
      /\ \A b \in Agents, i \in Jobs : <<b, i>> # <<a, j>> => phase'[b][i] = phase[b][i]
    BY DEF IInv, TypeOK, AgentTypeOK, ReportResult
<1>3. queue[a] \in Seq(Report) /\ [job |-> j, outcome |-> o] \in Report
    BY DEF IInv, TypeOK, AgentTypeOK, Report
<1>4. queue'[a] = Append(queue[a], [job |-> j, outcome |-> o])
      /\ \A b \in Agents \ {a} : queue'[b] = queue[b]
    BY DEF IInv, TypeOK, AgentTypeOK, ReportResult
<1>5. /\ Len(queue[a]) \in Nat /\ Len(queue'[a]) = Len(queue[a]) + 1
      /\ \A i \in 1..Len(queue'[a]) :
            queue'[a][i] = IF i <= Len(queue[a]) THEN queue[a][i] ELSE [job |-> j, outcome |-> o]
    BY <1>3, <1>4, AppendProperties
<1>6. TypeOK'
    <2>1. ControlTypeOK'
        BY DEF IInv, TypeOK, ControlTypeOK, controlVars
    <2>2. queue' \in [Agents -> Seq(Report)]
        BY <1>3 DEF IInv, TypeOK, AgentTypeOK, ReportResult
    <2>3. phase' \in [Agents -> [Jobs -> Phases]]
        BY DEF IInv, TypeOK, AgentTypeOK, ReportResult, Phases
    <2> QED
        BY <1>1, <2>1, <2>2, <2>3 DEF IInv, TypeOK, AgentTypeOK
<1>7. HandlersInv'
    BY DEF IInv, HandlersInv, controlVars
<1>8. WaitInv'
    <2>1. \A b \in Agents : Len(queue'[b]) \in Nat /\ Len(queue'[b]) >= Len(queue[b])
        <3>1. \A b \in Agents \ {a} : queue'[b] = queue[b] /\ Len(queue[b]) \in Nat
            BY <1>4 DEF IInv, TypeOK, AgentTypeOK
        <3>2. \A n \in Nat : n + 1 \in Nat /\ n + 1 >= n /\ n >= n
            OBVIOUS
        <3>3. Len(queue'[a]) \in Nat /\ Len(queue'[a]) >= Len(queue[a])
            BY <1>5
        <3>4. \A b \in Agents \ {a} : Len(queue'[b]) \in Nat /\ Len(queue'[b]) >= Len(queue[b])
            BY <3>1, <3>2
        <3> QED
            BY <3>3, <3>4
    <2>2. \A b \in Agents : Len(queue[b]) \in Nat
        BY DEF IInv, TypeOK, AgentTypeOK
    <2> QED
        BY <1>1, <2>1, <2>2 DEF IInv, TypeOK, AgentTypeOK, WaitInv, controlVars
<1>9. \A i \in Jobs, b \in Agents : \A p \in Outcomes :
         Says(i, b, p)' => Says(i, b, p) \/ (b = a /\ i = j /\ p = o)
    <2>1. \A b \in Agents : \A r \in Reports(b)' :
             r \in Reports(b) \/ (b = a /\ r = [job |-> j, outcome |-> o])
        <3>1. \A b \in Agents \ {a} : Reports(b)' = Reports(b)
            BY <1>4 DEF Reports
        <3>2. \A r \in Reports(a)' : r \in Reports(a) \/ r = [job |-> j, outcome |-> o]
            BY <1>3, <1>5 DEF Reports
        <3> QED
            BY <3>1, <3>2
    <2> QED
        BY <2>1 DEF Says, controlVars
<1>10. \A i \in Jobs, b \in Agents : Unreported(i, b) /\ <<b, i>> # <<a, j>> => Unreported(i, b)'
    BY <1>9 DEF Unreported
<1>11. \A b \in Agents, i \in Jobs, h \in Handlers : Responding(h, i, b)' <=> Responding(h, i, b)
    BY DEF Responding, controlVars
<1>12. UnclaimedInv' /\ ResponseInv'
    BY <1>1, <1>2, <1>10, <1>11 DEF IInv, UnclaimedInv, ResponseInv, controlVars
<1>13. GoroutineInv'
    BY <1>1, <1>2, <1>10 DEF IInv, GoroutineInv
<1>14. AgreeInv'
    BY <1>1, <1>9 DEF IInv, AgreeInv, GoroutineInv, Unreported
<1>15. ApprovalInv'
    BY <1>1, <1>2 DEF IInv, ApprovalInv, controlVars
<1> QED
    BY <1>6, <1>7, <1>8, <1>12, <1>13, <1>14, <1>15 DEF IInv

-----------------------------------------------------------------------------
(* Time and the sweep.                                                     *)

\* An expiring hold keeps the invariant.
LEMMA HoldExpiresStep ==
    ASSUME IInv, NEW j \in Jobs, NEW a \in Agents, HoldExpires(j, a), UNCHANGED <<agentVars, linkVars>>
    PROVE  IInv'
<1>1. TypeOK'
    BY HoldExpiresType DEF IInv, TypeOK, AgentTypeOK, agentVars, linkVars
<1>2. HandlersInv' /\ WaitInv' /\ ApprovalInv'
    BY DEF IInv, HandlersInv, WaitInv, ApprovalInv, HoldExpires, handlerVars, agentVars, linkVars
<1>3. CustodyInv'
    BY SaysFrame, ControlFrame
    DEF IInv, CustodyInv, Responding, Says, HoldExpires, handlerVars, agentVars
<1> QED
    BY <1>1, <1>2, <1>3 DEF IInv, CustodyInv

\* The sweep's SELECT keeps the invariant.
LEMMA SweepLoadStep ==
    ASSUME IInv, NEW S \in SUBSET Jobs, SweepLoad(S), UNCHANGED <<agentVars, linkVars>>
    PROVE  IInv'
<1>1. TypeOK'
    BY SweepLoadType DEF IInv, TypeOK, AgentTypeOK, agentVars, linkVars
<1>2. HandlersInv' /\ WaitInv' /\ ApprovalInv'
    BY DEF IInv, HandlersInv, WaitInv, ApprovalInv, SweepLoad, rowVars, handlerVars, agentVars, linkVars
<1>3. CustodyInv'
    BY SaysFrame, ControlFrame
    DEF IInv, CustodyInv, Responding, Says, SweepLoad, rowVars, handlerVars, agentVars
<1> QED
    BY <1>1, <1>2, <1>3 DEF IInv, CustodyInv

\* The sweep only closes rows that are PENDING or RUNNING.
LEMMA SweepCommitStep ==
    ASSUME IInv, SweepCommit, UNCHANGED <<agentVars, linkVars>>
    PROVE  IInv'
<1>1. TypeOK'
    BY SweepCommitType DEF IInv, TypeOK, AgentTypeOK, agentVars, linkVars
<1>2. HandlersInv' /\ WaitInv'
    BY DEF IInv, HandlersInv, WaitInv, SweepCommit, handlerVars, agentVars, linkVars
<1>3. \A j \in Jobs, a \in Agents :
         \/ result'[j][a] = result[j][a]
         \/ result[j][a] \in {"PENDING", "RUNNING"} /\ result'[j][a] = "TIMEOUT"
    BY DEF SweepCommit
<1>4. \A j \in Jobs, a \in Agents : \A o \in Outcomes : Says(j, a, o)' => Says(j, a, o)
    BY <1>3, SaysFrame DEF Says, SweepCommit, handlerVars, agentVars, Outcomes
<1>5. CustodyInv'
    BY <1>3, <1>4, ControlFrame
    DEF IInv, CustodyInv, Responding, SweepCommit, handlerVars, agentVars, ABSENT
<1>6. ApprovalInv'
    <2>1. \A j \in Jobs : job'[j] = ABSENT => job[j] = ABSENT
        BY DEF SweepCommit, ABSENT
    <2>2. \A j \in Jobs : job[j] # ABSENT => job'[j] # ABSENT
        BY DEF SweepCommit, ABSENT
    <2> QED
        BY <1>3, <2>1, <2>2
        DEF IInv, ApprovalInv, SweepCommit, handlerVars, agentVars, ABSENT
<1> QED
    BY <1>1, <1>2, <1>5, <1>6 DEF IInv, CustodyInv

\* A sweep that rolls back keeps the invariant.
LEMMA SweepFailStep ==
    ASSUME IInv, SweepFail, UNCHANGED <<agentVars, linkVars>>
    PROVE  IInv'
<1>1. TypeOK'
    BY SweepFailType DEF IInv, TypeOK, AgentTypeOK, agentVars, linkVars
<1>2. HandlersInv' /\ WaitInv' /\ ApprovalInv'
    BY DEF IInv, HandlersInv, WaitInv, ApprovalInv, SweepFail, rowVars, handlerVars, agentVars, linkVars
<1>3. CustodyInv'
    BY SaysFrame, ControlFrame
    DEF IInv, CustodyInv, Responding, Says, SweepFail, rowVars, handlerVars, agentVars
<1> QED
    BY <1>1, <1>2, <1>3 DEF IInv, CustodyInv

-----------------------------------------------------------------------------
(* The inductive invariant.                                                *)

\* The empty tables and idle agents satisfy the invariant.
LEMMA InitInv == Init => IInv
<1> SUFFICES ASSUME Init PROVE IInv
    OBVIOUS
<1>1. ControlTypeOK
    BY DEF Init, ControlInit, ControlTypeOK, PCs, ResultMaps, NoResults, NoWrites
<1>2. AgentTypeOK
    BY DEF Init, AgentInit, AgentTypeOK, Phases
<1>3. TypeOK
    BY <1>1, <1>2 DEF Init, TypeOK
<1>4. HandlersInv /\ ApprovalInv
    BY DEF Init, ControlInit, AgentInit, HandlersInv, ApprovalInv
<1>5. WaitInv
    BY DispatchAssumption DEF Init, ControlInit, AgentInit, WaitInv
<1>6. \A j \in Jobs, a \in Agents : Unreported(j, a)
    BY NoOutcome DEF Init, ControlInit, AgentInit, Unreported, Says, Reports, NoResults
<1>7. \A j \in Jobs, a \in Agents, h \in Handlers : ~Responding(h, j, a)
    BY DEF Init, ControlInit, Responding
<1>8. UnclaimedInv /\ ResponseInv /\ GoroutineInv /\ AgreeInv
    BY <1>6, <1>7
    DEF Init, AgentInit, UnclaimedInv, ResponseInv, GoroutineInv, AgreeInv, Unreported
<1> QED
    BY <1>3, <1>4, <1>5, <1>8 DEF IInv

\* A stuttering step keeps the invariant.
LEMMA StutterInv == IInv /\ UNCHANGED vars => IInv'
<1> SUFFICES ASSUME IInv, UNCHANGED vars PROVE IInv'
    OBVIOUS
<1> USE DEF vars
<1>1. TypeOK'
    BY DEF IInv, TypeOK, ControlTypeOK, AgentTypeOK
<1>2. HandlersInv' /\ WaitInv' /\ ApprovalInv'
    BY DEF IInv, HandlersInv, WaitInv, ApprovalInv
<1>3. CustodyInv'
    BY SaysFrame, ControlFrame DEF IInv, CustodyInv, Responding, Says
<1> QED
    BY <1>1, <1>2, <1>3 DEF IInv, CustodyInv

\* Every step keeps the invariant, one case per action.
LEMMA NextInv == IInv /\ [Next]_vars => IInv'
<1> SUFFICES ASSUME IInv, [Next]_vars PROVE IInv'
    OBVIOUS
<1>1. ASSUME NEW j \in Jobs, Request(j)
      PROVE  IInv'
    BY <1>1, CreateStep, ApproveStep, CancelLoadStep, CancelCommitStep, DispatchAssumption DEF Request
<1>2. ASSUME NEW h \in Handlers, HandlerStep(h)
      PROVE  IInv'
    <2>1. ASSUME NEW B \in SUBSET Jobs, NEW F \in IF "signing" \in Events THEN SUBSET B ELSE {{}},
                 SelectRound(h, B, F), UNCHANGED <<agentVars, linkVars>>
          PROVE  IInv'
        BY <2>1, SelectStep
    <2>2. ASSUME NEW bad \in IF "refuse" \in Events THEN SUBSET Jobs ELSE {{}}, Deliver(h, bad)
          PROVE  IInv'
        BY <2>2, DeliverStep
    <2> QED
        BY <1>2, <2>1, <2>2, FlushStep, RecomputeRowsStep, RecomputeJobStep, CommitStep, HoldStep,
           DispatchStep, DropStep
        DEF HandlerStep
<1>3. ASSUME NEW h \in Handlers, Fail(h)
      PROVE  IInv'
    BY <1>3, FailStep
<1>4. ASSUME NEW a \in Agents, AgentStep(a)
      PROVE  IInv'
    BY <1>4, SendStep, HeartbeatFailsStep, RestartStep DEF AgentStep
<1>5. ASSUME NEW a \in Agents, NEW j \in Jobs, JobStep(a, j)
      PROVE  IInv'
    BY <1>5, AcquireStep, ReportStep DEF JobStep
<1>6. CASE Clock
    BY <1>6, HoldExpiresStep DEF Clock
<1>7. CASE Sweep
    BY <1>7, SweepLoadStep, SweepCommitStep, SweepFailStep DEF Sweep
<1>8. CASE UNCHANGED vars
    BY <1>8, StutterInv
<1> QED
    BY <1>1, <1>2, <1>3, <1>4, <1>5, <1>6, <1>7, <1>8 DEF Next

\* Every reachable state of the pipeline satisfies the inductive invariant.
THEOREM Invariance == Spec => []IInv
BY InitInv, NextInv, PTL DEF Spec

\* Every variable of the control plane, the agents and the link keeps its type.
THEOREM TypeCorrect == Spec => []TypeOK
<1>1. IInv => TypeOK
    BY DEF IInv
<1> QED
    BY <1>1, Invariance, PTL

\* No agent enters runJob twice for one job, however many heartbeats are lost, repeated or
\* served by concurrent handlers: the conditional claim hands a row out once.
THEOREM ExecutedAtMostOnce == Spec => []AtMostOnce
<1>1. IInv => AtMostOnce
    BY DEF IInv, GoroutineInv, AtMostOnce
<1> QED
    BY <1>1, Invariance, PTL

\* A job that requires approval has a goroutine on no agent before a user other than its
\* requester approved it: the gate of get_pending_jobs holds through every interleaving.
THEOREM GateHolds == Spec => []ApprovedBeforeRun
<1>1. IInv => ApprovedBeforeRun
    BY DEF IInv, ApprovalInv, ApprovedBeforeRun
<1> QED
    BY <1>1, Invariance, PTL

-----------------------------------------------------------------------------
(* What one step does to a delivery, and the action properties.            *)

\* The moves of a row from r to s: created, claimed, swept, or recorded once.
RowMove(r, s) ==
    \/ s = r
    \/ r = ABSENT /\ s = "PENDING"
    \/ r = "PENDING" /\ s = "RUNNING"
    \/ r \in {"PENDING", "RUNNING"} /\ s = "TIMEOUT"
    \/ r \notin Outcomes \cup {ABSENT, "PENDING"} /\ s \in Outcomes

\* Creation makes PENDING rows out of none.
LEMMA CreateMove ==
    ASSUME IInv, NEW i \in Jobs, NEW u \in Users, NEW T \in SUBSET Agents, NEW g \in BOOLEAN,
           CreateJob(i, u, T, g), NEW j \in Jobs, NEW a \in Agents
    PROVE  RowMove(result[j][a], result'[j][a])
BY DEF IInv, TypeOK, ControlTypeOK, ApprovalInv, CreateJob, RowMove

\* A commit records an outcome on a claimed row, and never replaces one: what the handler
\* carries and what the row says agree.
LEMMA CommitMove ==
    ASSUME IInv, NEW h \in Handlers, CommitResults(h), NEW j \in Jobs, NEW a \in Agents
    PROVE  RowMove(result[j][a], result'[j][a])
<1>1. \/ result'[j][a] = result[j][a]
      \/ hAgent[h] = a /\ hRes[h][j] \in Outcomes /\ result'[j][a] = hRes[h][j]
    BY DEF IInv, TypeOK, ControlTypeOK, ResultMaps, CommitResults, RowsAfter, RowSeen
<1>2. CASE hAgent[h] = a /\ hRes[h][j] \in Outcomes /\ result'[j][a] = hRes[h][j]
    <2>1. Says(j, a, hRes[h][j])
        BY <1>2 DEF Says
    <2>2. result[j][a] \notin {ABSENT, "PENDING"}
        BY <1>2, <2>1 DEF IInv, UnclaimedInv, Unreported
    <2>3. result[j][a] \in Outcomes => result[j][a] = hRes[h][j]
        <3>1. result[j][a] \in Outcomes => Says(j, a, result[j][a])
            BY DEF Says
        <3> QED
            BY <1>2, <2>1, <3>1 DEF IInv, AgreeInv
    <2> QED
        BY <1>2, <2>2, <2>3 DEF RowMove
<1> QED
    BY <1>1, <1>2 DEF RowMove

\* The claim moves rows from PENDING to RUNNING only.
LEMMA DispatchMove ==
    ASSUME IInv, NEW h \in Handlers, MarkDispatched(h), NEW j \in Jobs, NEW a \in Agents
    PROVE  RowMove(result[j][a], result'[j][a])
BY DEF IInv, TypeOK, ControlTypeOK, MarkDispatched, RowMove

\* The sweep closes PENDING and RUNNING rows only.
LEMMA SweepMove ==
    ASSUME SweepCommit, NEW j \in Jobs, NEW a \in Agents
    PROVE  RowMove(result[j][a], result'[j][a])
BY DEF SweepCommit, RowMove

\* A step moves the row, or starts a waiting goroutine, never both.
DeliveryMove(j, a) ==
    \/ RowMove(result[j][a], result'[j][a]) /\ runs'[a][j] = runs[a][j]
    \/ /\ result'[j][a] = result[j][a]
       /\ phase[a][j] = "waiting" /\ runs'[a][j] = runs[a][j] + 1

\* Every step of the pipeline makes one of these moves with every delivery.
LEMMA EveryMove ==
    ASSUME IInv, [Next]_vars, NEW j \in Jobs, NEW a \in Agents
    PROVE  DeliveryMove(j, a)
<1>0. UNCHANGED <<result, runs>> => DeliveryMove(j, a)
    BY DEF RowMove, DeliveryMove
<1>1. ASSUME NEW i \in Jobs, Request(i)
      PROVE  DeliveryMove(j, a)
    <2>1. ASSUME NEW u \in Users, NEW T \in TargetSets, NEW g \in Gates,
                 CreateJob(i, u, T, g), UNCHANGED <<agentVars, linkVars>>
          PROVE  DeliveryMove(j, a)
        BY <2>1, CreateMove, DispatchAssumption DEF agentVars, DeliveryMove
    <2> QED
        BY <1>0, <1>1, <2>1 DEF Request, ApproveJob, CancelLoad, CancelCommit, rowVars, agentVars
<1>2. ASSUME NEW h \in Handlers, HandlerStep(h)
      PROVE  DeliveryMove(j, a)
    <2>1. CASE CommitResults(h) /\ UNCHANGED <<agentVars, linkVars>>
        BY <2>1, CommitMove DEF agentVars, DeliveryMove
    <2>2. CASE MarkDispatched(h) /\ UNCHANGED <<agentVars, linkVars>>
        BY <2>2, DispatchMove DEF agentVars, DeliveryMove
    <2>3. ASSUME NEW bad, Deliver(h, bad)
          PROVE  DeliveryMove(j, a)
        BY <1>0, <2>3 DEF Deliver, Respond, Finish, HeartbeatOK, rowVars
    <2>4. ASSUME NEW B, NEW F, SelectRound(h, B, F), UNCHANGED <<agentVars, linkVars>>
          PROVE  DeliveryMove(j, a)
        BY <1>0, <2>4 DEF SelectRound, rowVars, agentVars
    <2>5. CASE \/ FlushResults(h) /\ UNCHANGED <<agentVars, linkVars>>
               \/ \E i \in Jobs : RecomputeRows(h, i) /\ UNCHANGED <<agentVars, linkVars>>
               \/ RecomputeJob(h) /\ UNCHANGED <<agentVars, linkVars>>
               \/ MarkHeld(h) /\ UNCHANGED <<agentVars, linkVars>>
        BY <1>0, <2>5 DEF FlushResults, RecomputeRows, RecomputeJob, MarkHeld, rowVars, agentVars
    <2>6. CASE DropResponse(h)
        BY <1>0, <2>6 DEF DropResponse, Respond, Finish, rowVars, agentVars
    <2> QED
        BY <1>2, <2>1, <2>2, <2>3, <2>4, <2>5, <2>6 DEF HandlerStep
<1>3. ASSUME NEW h \in Handlers, Fail(h)
      PROVE  DeliveryMove(j, a)
    <2>1. UNCHANGED <<result, runs>>
        BY <1>3 DEF Fail, HandlerFail, Finish, HeartbeatError, rowVars, agentVars
    <2> QED
        BY <1>0, <2>1
<1>4. ASSUME NEW b \in Agents, AgentStep(b)
      PROVE  DeliveryMove(j, a)
    <2>1. UNCHANGED <<result, runs>>
        BY <1>4 DEF AgentStep, SendHeartbeat, StartHeartbeat, Receive, HeartbeatFails, HeartbeatError,
                    AgentRestart, Restart, rowVars, controlVars
    <2> QED
        BY <1>0, <2>1
<1>5. ASSUME NEW b \in Agents, NEW i \in Jobs, JobStep(b, i)
      PROVE  DeliveryMove(j, a)
    <2>1. CASE AcquireSlot(b, i) /\ UNCHANGED <<controlVars, linkVars>>
        <3>1. result' = result
            BY <2>1 DEF controlVars
        <3>2. CASE b = a /\ i = j
            <4>1. phase[a][j] = "waiting" /\ runs'[a][j] = runs[a][j] + 1
                BY <2>1, <3>2 DEF IInv, TypeOK, AgentTypeOK, AcquireSlot
            <4> QED
                BY <3>1, <4>1 DEF DeliveryMove
        <3>3. CASE ~(b = a /\ i = j)
            <4>1. runs'[a][j] = runs[a][j]
                BY <2>1, <3>3 DEF IInv, TypeOK, AgentTypeOK, AcquireSlot
            <4> QED
                BY <3>1, <4>1 DEF RowMove, DeliveryMove
        <3> QED
            BY <3>2, <3>3
    <2>2. CASE \E o \in Outcomes : ReportResult(b, i, o) /\ UNCHANGED <<controlVars, linkVars>>
        BY <1>0, <2>2 DEF ReportResult, controlVars
    <2> QED
        BY <1>5, <2>1, <2>2 DEF JobStep
<1>6. CASE Clock
    <2>1. UNCHANGED <<result, runs>>
        BY <1>6 DEF Clock, HoldExpires, agentVars
    <2> QED
        BY <1>0, <2>1
<1>7. CASE Sweep
    <2>1. CASE SweepCommit /\ UNCHANGED <<agentVars, linkVars>>
        <3>1. RowMove(result[j][a], result'[j][a])
            BY <2>1, SweepMove
        <3>2. runs' = runs
            BY <2>1 DEF agentVars
        <3> QED
            BY <3>1, <3>2 DEF DeliveryMove
    <2> QED
        BY <1>0, <1>7, <2>1 DEF Sweep, SweepLoad, SweepFail, rowVars, agentVars
<1>8. CASE UNCHANGED vars
    BY <1>0, <1>8 DEF vars
<1> QED
    BY <1>1, <1>2, <1>3, <1>4, <1>5, <1>6, <1>7, <1>8 DEF Next

\* An outcome recorded in a row stays what it is: no sweep, claim or late duplicate of the
\* report replaces it.
THEOREM OutcomesKept == Spec => OutcomeKept
<1>1. IInv /\ [Next]_vars =>
         [\A j \in Jobs, a \in Agents :
             result[j][a] \in Outcomes => result'[j][a] = result[j][a]]_vars
    BY EveryMove DEF DeliveryMove, RowMove, ABSENT, Outcomes
<1> QED
    BY <1>1, Invariance, PTL DEF Spec, OutcomeKept

\* A row that was handed out or closed never becomes PENDING again, and a terminal row
\* stays terminal.
THEOREM RowsForward == Spec => RowsMoveForward
<1>1. IInv /\ [Next]_vars =>
         [\A j \in Jobs, a \in Agents :
             /\ result[j][a] \notin {ABSENT, "PENDING"} => result'[j][a] # "PENDING"
             /\ result[j][a] \in TerminalRowStatuses => result'[j][a] \in TerminalRowStatuses]_vars
    BY EveryMove DEF DeliveryMove, RowMove, ABSENT, Outcomes, TerminalRowStatuses
<1> QED
    BY <1>1, Invariance, PTL DEF Spec, RowsMoveForward

-----------------------------------------------------------------------------
(* The execution slots.                                                    *)

\* A goroutine comes to run only through AcquireSlot.
LEMMA RunningMove ==
    ASSUME IInv, [Next]_vars,
           \A b \in Agents, i \in Jobs : ~AcquireSlot(b, i),
           NEW a \in Agents, NEW j \in Jobs, phase'[a][j] = "running"
    PROVE  phase[a][j] = "running"
<1>0. phase' = phase => phase[a][j] = "running"
    OBVIOUS
<1>1. ASSUME NEW i \in Jobs, Request(i)
      PROVE  phase' = phase
    BY <1>1 DEF Request, agentVars
<1>2. ASSUME NEW h \in Handlers, HandlerStep(h)
      PROVE  phase' = phase \/ \E bad : Deliver(h, bad)
    BY <1>2 DEF HandlerStep, DropResponse, agentVars
<1>3. ASSUME NEW h \in Handlers, NEW bad, Deliver(h, bad)
      PROVE  phase[a][j] = "running"
    BY <1>3 DEF IInv, TypeOK, AgentTypeOK, Deliver, HeartbeatOK
<1>4. ASSUME NEW h \in Handlers, Fail(h)
      PROVE  phase' = phase
    BY <1>4 DEF Fail, HeartbeatError, agentVars
<1>5. ASSUME NEW b \in Agents, AgentStep(b)
      PROVE  phase[a][j] = "running"
    <2>1. phase' = phase \/ AgentRestart(b)
        BY <1>5 DEF AgentStep, SendHeartbeat, StartHeartbeat, HeartbeatFails, HeartbeatError
    <2>2. AgentRestart(b) => phase[a][j] = "running"
        BY DEF IInv, TypeOK, AgentTypeOK, AgentRestart, Restart
    <2> QED
        BY <1>0, <2>1, <2>2
<1>6. ASSUME NEW b \in Agents, NEW i \in Jobs, JobStep(b, i)
      PROVE  phase[a][j] = "running"
    <2>1. PICK o : ReportResult(b, i, o)
        BY <1>6 DEF JobStep
    <2>2. phase' = [phase EXCEPT ![b][i] = "none"]
        BY <2>1 DEF ReportResult
    <2> QED
        BY <2>2 DEF IInv, TypeOK, AgentTypeOK
<1>7. Clock \/ Sweep \/ UNCHANGED vars => phase' = phase
    BY DEF Clock, Sweep, vars, agentVars
<1> QED
    BY <1>0, <1>1, <1>2, <1>3, <1>4, <1>5, <1>6, <1>7 DEF Next

\* An agent never executes more jobs at once than it has slots, whatever the window hands
\* it in a burst of heartbeats.
THEOREM SlotsSuffice == Spec => []SlotBound
<1>1. Init => SlotBound
    <2> SUFFICES ASSUME Init, NEW a \in Agents PROVE Cardinality(SlotHolders(a)) <= MaxParallel
        BY DEF SlotBound
    <2>1. SlotHolders(a) = {}
        BY DEF Init, AgentInit, SlotHolders
    <2> QED
        BY <2>1, FS_EmptySet, AgentAssumption
<1>2. IInv /\ SlotBound /\ [Next]_vars => SlotBound'
    <2> SUFFICES ASSUME IInv, SlotBound, [Next]_vars, NEW a \in Agents
                 PROVE  Cardinality(SlotHolders(a)') <= MaxParallel
        BY DEF SlotBound
    <2>1. IsFiniteSet(SlotHolders(a)) /\ Cardinality(SlotHolders(a)) \in Nat
        BY ControlAssumption, FS_Subset, FS_CardinalityType DEF SlotHolders
    <2>2. Cardinality(SlotHolders(a)) <= MaxParallel
        BY DEF SlotBound
    <2>3. CASE SlotHolders(a)' \subseteq SlotHolders(a)
        BY <2>1, <2>2, <2>3, FS_Subset, FS_CardinalityType, AgentAssumption
    <2>4. ASSUME NEW b \in Agents, NEW i \in Jobs, AcquireSlot(b, i)
          PROVE  Cardinality(SlotHolders(a)') <= MaxParallel
        <3>1. CASE b = a
            <4>1. Cardinality(SlotHolders(a)) < MaxParallel
                BY <2>4, <3>1 DEF AcquireSlot
            <4>2. SlotHolders(a)' = SlotHolders(a) \cup {i}
                BY <2>4, <3>1 DEF IInv, TypeOK, AgentTypeOK, AcquireSlot, SlotHolders
            <4>3. Cardinality(SlotHolders(a)') \in Nat
                  /\ Cardinality(SlotHolders(a)') <= Cardinality(SlotHolders(a)) + 1
                BY <2>1, <4>2, FS_AddElement
            <4> QED
                BY <2>1, <4>1, <4>3, AgentAssumption
        <3>2. CASE b # a
            <4>1. SlotHolders(a)' = SlotHolders(a)
                BY <2>4, <3>2 DEF IInv, TypeOK, AgentTypeOK, AcquireSlot, SlotHolders
            <4> QED
                BY <2>2, <4>1
        <3> QED
            BY <3>1, <3>2
    <2>5. CASE \A b \in Agents, i \in Jobs : ~AcquireSlot(b, i)
        <3>1. SlotHolders(a)' \subseteq SlotHolders(a)
            BY <2>5, RunningMove DEF SlotHolders
        <3> QED
            BY <2>3, <3>1
    <2> QED
        BY <2>4, <2>5
<1> QED
    BY <1>1, <1>2, Invariance, PTL DEF Spec

-----------------------------------------------------------------------------
(* Refinement of the promise.                                              *)

\* An existing job keeps existing, its gate does not change, and an approval stays.
JobKept(j) ==
    /\ job'[j] # ABSENT
    /\ requires'[j] = requires[j]
    /\ approver[j] # NoUser => approver'[j] # NoUser

\* Every step keeps the jobs there are.
LEMMA JobsKept ==
    ASSUME IInv, [Next]_vars, NEW j \in Jobs, job[j] # ABSENT
    PROVE  JobKept(j)
<1>0. UNCHANGED <<job, requires, approver>> => JobKept(j)
    BY DEF JobKept
<1>1. ASSUME NEW i \in Jobs, Request(i)
      PROVE  JobKept(j)
    BY <1>1, ControlAssumption
    DEF IInv, TypeOK, ControlTypeOK, Request, CreateJob, ApproveJob, CancelLoad, CancelCommit, rowVars, ABSENT,
        JobKept
<1>2. ASSUME NEW h \in Handlers, CommitResults(h)
      PROVE  JobKept(j)
    <2>1. job'[j] = IF hJob[h][j] # NoStatus THEN hJob[h][j] ELSE job[j]
        BY <1>2 DEF CommitResults, JobsAfter
    <2>2. hJob[h][j] \in JobStatuses \cup {NoStatus}
        BY DEF IInv, TypeOK, ControlTypeOK
    <2>3. ABSENT \notin JobStatuses
        BY DEF JobStatuses, ABSENT
    <2> QED
        BY <1>2, <2>1, <2>2, <2>3 DEF CommitResults, JobKept
<1>3. ASSUME NEW h \in Handlers, MarkDispatched(h)
      PROVE  JobKept(j)
    BY <1>3 DEF MarkDispatched, ABSENT, JobKept
<1>4. ASSUME NEW h \in Handlers, HandlerStep(h)
      PROVE  CommitResults(h) \/ MarkDispatched(h) \/ UNCHANGED <<job, requires, approver>>
    BY <1>4 DEF HandlerStep, FlushResults, RecomputeRows, RecomputeJob, SelectRound, MarkHeld,
                Deliver, DropResponse, Respond, Finish, rowVars
<1>5. ASSUME NEW h \in Handlers, Fail(h)
      PROVE  UNCHANGED <<job, requires, approver>>
    BY <1>5 DEF Fail, HandlerFail, Finish, rowVars
<1>6. ASSUME NEW a \in Agents, AgentStep(a)
      PROVE  UNCHANGED <<job, requires, approver>>
    BY <1>6 DEF AgentStep, SendHeartbeat, Receive, HeartbeatFails, AgentRestart, rowVars, controlVars
<1>7. ASSUME NEW a \in Agents, NEW i \in Jobs, JobStep(a, i)
      PROVE  UNCHANGED <<job, requires, approver>>
    BY <1>7 DEF JobStep, controlVars
<1>8. Clock \/ UNCHANGED vars => UNCHANGED <<job, requires, approver>>
    BY DEF Clock, HoldExpires, vars
<1>9. CASE Sweep
    <2>1. CASE SweepCommit
        BY <2>1 DEF SweepCommit, ABSENT, JobKept
    <2>2. SweepCommit \/ UNCHANGED <<job, requires, approver>>
        BY <1>9 DEF Sweep, SweepLoad, SweepFail, rowVars
    <2> QED
        BY <1>0, <2>1, <2>2
<1> QED
    BY <1>0, <1>1, <1>2, <1>3, <1>4, <1>5, <1>6, <1>7, <1>8, <1>9 DEF Next

\* The abstract delivery makes a promised move with every row move and every start.
LEMMA DeliveryRefines ==
    ASSUME IInv, [Next]_vars, NEW j \in Jobs, NEW a \in Agents, NEW d, NEW e,
           d = Delivery(j, a), e = Delivery(j, a)'
    PROVE  \/ e = d
           \/ Promise!Offer(d, e)
           \/ Promise!Take(d, e)
           \/ job[j] # ABSENT /\ (~requires[j] \/ approver[j] # NoUser) /\ Promise!Start(d, e)
           \/ Promise!Record(d, e)
<1> USE DEF Delivery, Stage, Promise!Offer, Promise!Take, Promise!Start, Promise!Record,
            Promise!Nothing, Promise!NoStatus, Promise!Outcomes, NoStatus, Outcomes, ABSENT
<1>1. runs[a][j] \in {0, 1}
    BY DEF IInv, TypeOK, AgentTypeOK, GoroutineInv
<1>2. CASE RowMove(result[j][a], result'[j][a]) /\ runs'[a][j] = runs[a][j]
    <2>1. result[j][a] \in {ABSENT, "PENDING"} => runs[a][j] = 0
        BY DEF IInv, UnclaimedInv
    <2>2. CASE result'[j][a] = result[j][a]
        BY <1>2, <2>2
    <2>3. CASE result[j][a] = ABSENT /\ result'[j][a] = "PENDING"
        BY <1>2, <2>1, <2>3
    <2>4. CASE result[j][a] = "PENDING" /\ result'[j][a] \in {"RUNNING", "TIMEOUT"}
        BY <1>2, <2>1, <2>4
    <2>5. CASE result[j][a] = "RUNNING" /\ result'[j][a] = "TIMEOUT"
        BY <1>1, <1>2, <2>5
    <2>6. CASE result[j][a] \notin Outcomes \cup {ABSENT, "PENDING"} /\ result'[j][a] \in Outcomes
        BY <1>1, <1>2, <2>6
    <2> QED
        BY <1>2, <2>2, <2>3, <2>4, <2>5, <2>6 DEF RowMove
<1>3. CASE /\ result'[j][a] = result[j][a]
           /\ phase[a][j] = "waiting" /\ runs'[a][j] = runs[a][j] + 1
    <2>1. /\ runs[a][j] = 0 /\ Unreported(j, a)
          /\ result[j][a] \notin {ABSENT, "PENDING"}
          /\ job[j] # ABSENT /\ (requires[j] => approver[j] # NoUser)
        BY <1>3 DEF IInv, GoroutineInv, UnclaimedInv, ApprovalInv
    <2>2. result[j][a] \notin Outcomes
        BY <2>1 DEF Unreported, Says
    <2>3. Promise!Start(d, e)
        BY <1>3, <2>1, <2>2
    <2> QED
        BY <2>1, <2>3
<1> QED
    BY <1>2, <1>3, EveryMove DEF DeliveryMove

\* The pipeline implements its promise: for every fleet, window and number of handlers each
\* delivery is offered, taken, started and recorded at most once, in this order, and started
\* only when its job is cleared.
THEOREM PromiseKept == Spec => KeepsPromise
<1> DEFINE D == [j \in Jobs |-> [a \in Agents |-> Delivery(j, a)]]
           C == {j \in Jobs : job[j] # ABSENT /\ (~requires[j] \/ approver[j] # NoUser)}
<1>1. Init => Promise!PromiseInit
    BY DEF Init, ControlInit, AgentInit, Promise!PromiseInit, Promise!Nothing, Promise!NoStatus,
           Delivery, Stage, NoStatus, ABSENT, Outcomes
<1>2. IInv /\ [Next]_vars => [Promise!PromiseNext]_<<D, C>>
    <2> SUFFICES ASSUME IInv, [Next]_vars PROVE Promise!PromiseNext
        OBVIOUS
    <2>1. C \subseteq C'
        BY JobsKept DEF JobKept
    <2>2. ASSUME NEW j \in Jobs, NEW a \in Agents
          PROVE  \/ D'[j][a] = D[j][a]
                 \/ Promise!Offer(D[j][a], D'[j][a])
                 \/ Promise!Take(D[j][a], D'[j][a])
                 \/ j \in C /\ Promise!Start(D[j][a], D'[j][a])
                 \/ Promise!Record(D[j][a], D'[j][a])
        <3>1. D[j][a] = Delivery(j, a) /\ D'[j][a] = Delivery(j, a)'
            OBVIOUS
        <3>2. job[j] # ABSENT /\ (~requires[j] \/ approver[j] # NoUser) => j \in C
            OBVIOUS
        <3> HIDE DEF D, C
        <3> QED
            BY <3>1, <3>2, DeliveryRefines
    <2> QED
        BY <2>1, <2>2 DEF Promise!PromiseNext
<1> QED
    BY <1>1, <1>2, Invariance, PTL DEF Spec, KeepsPromise, Promise!PromiseSpec
=============================================================================
