------------------------- MODULE JobOutcomeProofs -------------------------
(***************************************************************************)
(* What the job pipeline says in the end about a job, for every set of     *)
(* jobs, agents, users and handlers: identical jobs are not active         *)
(* together, a verdict is backed by the rows, and no RUNNING row is left   *)
(* without somebody who knows of it.                                       *)
(***************************************************************************)
EXTENDS JobDispatchProofs

-----------------------------------------------------------------------------
(* The dedup key.                                                          *)

\* Dropping jobs from the active statuses never gives a key a second active job.
LEMMA FewerActive ==
    ASSUME OneActivePerKey, \A j \in Jobs : job'[j] \in ActiveStatuses => job[j] \in ActiveStatuses
    PROVE  OneActivePerKey'
BY DEF OneActivePerKey, UniqueActive

\* Only create_job and the commit of a recompute make a job active, and both pass the index.
LEMMA ActiveKept ==
    ASSUME IInv, OneActivePerKey, [Next]_vars
    PROVE  OneActivePerKey'
<1>0. job' = job => OneActivePerKey'
    BY FewerActive
<1>1. ASSUME NEW j \in Jobs, Request(j)
      PROVE  OneActivePerKey'
    <2>1. ASSUME NEW u \in Users, NEW T \in TargetSets, NEW g \in Gates, CreateJob(j, u, T, g)
          PROVE  OneActivePerKey'
        BY <2>1 DEF CreateJob, OneActivePerKey, UniqueActive
    <2>2. CASE CancelCommit(j)
        <3>1. \A i \in Jobs : job'[i] \in ActiveStatuses => job[i] \in ActiveStatuses
            BY <2>2 DEF CancelCommit, ActiveStatuses, IInv, TypeOK, ControlTypeOK
        <3> QED
            BY <3>1, FewerActive
    <2> QED
        BY <1>0, <1>1, <2>1, <2>2 DEF Request, ApproveJob, CancelLoad, rowVars
<1>2. ASSUME NEW h \in Handlers, CommitResults(h)
      PROVE  OneActivePerKey'
    BY <1>2 DEF CommitResults, OneActivePerKey, UniqueActive
<1>3. ASSUME NEW h \in Handlers, MarkDispatched(h)
      PROVE  OneActivePerKey'
    <2>1. \A i \in Jobs : job'[i] \in ActiveStatuses => job[i] \in ActiveStatuses
        BY <1>3 DEF MarkDispatched, Cancellable, ActiveStatuses
    <2> QED
        BY <2>1, FewerActive
<1>4. ASSUME NEW h \in Handlers, HandlerStep(h)
      PROVE  CommitResults(h) \/ MarkDispatched(h) \/ job' = job
    BY <1>4 DEF HandlerStep, FlushResults, RecomputeRows, RecomputeJob, SelectRound, MarkHeld,
                Deliver, DropResponse, Respond, Finish, rowVars
<1>5. ASSUME NEW h \in Handlers, Fail(h)
      PROVE  job' = job
    BY <1>5 DEF Fail, HandlerFail, Finish, rowVars
<1>6. ASSUME NEW a \in Agents, AgentStep(a)
      PROVE  job' = job
    BY <1>6 DEF AgentStep, SendHeartbeat, Receive, HeartbeatFails, AgentRestart, rowVars, controlVars
<1>7. ASSUME NEW a \in Agents, NEW j \in Jobs, JobStep(a, j)
      PROVE  job' = job
    BY <1>7 DEF JobStep, controlVars
<1>8. Clock \/ UNCHANGED vars => job' = job
    BY DEF Clock, HoldExpires, vars
<1>9. CASE Sweep
    <2>1. SweepCommit \/ job' = job
        BY <1>9 DEF Sweep, SweepLoad, SweepFail, rowVars
    <2>2. CASE SweepCommit
        <3>1. \A i \in Jobs : job'[i] \in ActiveStatuses => job[i] \in ActiveStatuses
            BY <2>2 DEF SweepCommit, ActiveStatuses
        <3> QED
            BY <3>1, FewerActive
    <2> QED
        BY <1>0, <2>1, <2>2
<1> QED
    BY <1>0, <1>1, <1>2, <1>3, <1>4, <1>5, <1>6, <1>7, <1>8, <1>9 DEF Next

\* Identical jobs are never active together: neither a race of two requests nor a recompute
\* that comes after a sweep and a successor gets past create_job's check and the unique index.
THEOREM KeyHasOneActive == Spec => []OneActivePerKey
<1>1. Init => OneActivePerKey
    BY DEF Init, ControlInit, OneActivePerKey, UniqueActive, ActiveStatuses, ABSENT
<1>2. IInv /\ OneActivePerKey /\ [Next]_vars => OneActivePerKey'
    BY ActiveKept
<1> QED
    BY <1>1, <1>2, Invariance, PTL DEF Spec

-----------------------------------------------------------------------------
(* The verdict.                                                            *)

\* A job that exists gets no further rows, and loses none.
LEMMA RowsFixed ==
    ASSUME IInv, [Next]_vars, NEW j \in Jobs, job[j] # ABSENT
    PROVE  Rows(j)' = Rows(j)
<1> SUFFICES ASSUME NEW a \in Agents
             PROVE  result[j][a] = ABSENT <=> result'[j][a] = ABSENT
    BY DEF Rows
<1>1. RowMove(result[j][a], result'[j][a])
    BY EveryMove DEF DeliveryMove, RowMove
<1>2. result'[j] = result[j] \/ result'[j][a] # "PENDING" \/ result[j][a] = "PENDING"
    <2>1. ASSUME NEW i \in Jobs, Request(i)
          PROVE  result'[j] = result[j]
        BY <2>1 DEF Request, CreateJob, ApproveJob, CancelLoad, CancelCommit, rowVars, IInv, TypeOK, ControlTypeOK
    <2>2. ASSUME NEW h \in Handlers, CommitResults(h)
          PROVE  result'[j][a] # "PENDING" \/ result[j][a] = "PENDING"
        <3>1. result'[j][a] = RowSeen(h, j, a)
            BY <2>2 DEF CommitResults, RowsAfter
        <3>2. hRes[h][j] \in Outcomes \cup {NoStatus}
            BY DEF IInv, TypeOK, ControlTypeOK, ResultMaps
        <3> QED
            BY <3>1, <3>2 DEF RowSeen, Outcomes
    <2>3. ASSUME NEW h \in Handlers, MarkDispatched(h)
          PROVE  result'[j][a] # "PENDING" \/ result[j][a] = "PENDING"
        <3>1. result'[j][a] \in {"RUNNING", result[j][a]}
            BY <2>3 DEF MarkDispatched, IInv, TypeOK, ControlTypeOK
        <3> QED
            BY <3>1
    <2>4. ASSUME NEW h \in Handlers, HandlerStep(h)
          PROVE  CommitResults(h) \/ MarkDispatched(h) \/ result' = result
        BY <2>4 DEF HandlerStep, FlushResults, RecomputeRows, RecomputeJob, SelectRound, MarkHeld,
                    Deliver, DropResponse, Respond, Finish, rowVars
    <2>5. ASSUME NEW h \in Handlers, Fail(h)
          PROVE  result' = result
        BY <2>5 DEF Fail, HandlerFail, Finish, rowVars
    <2>6. ASSUME NEW b \in Agents, AgentStep(b)
          PROVE  result' = result
        BY <2>6 DEF AgentStep, SendHeartbeat, Receive, HeartbeatFails, AgentRestart, rowVars, controlVars
    <2>7. ASSUME NEW b \in Agents, NEW i \in Jobs, JobStep(b, i)
          PROVE  result' = result
        BY <2>7 DEF JobStep, controlVars
    <2>8. Clock \/ UNCHANGED vars => result' = result
        BY DEF Clock, HoldExpires, vars
    <2>9. Sweep => result'[j][a] # "PENDING" \/ result[j][a] = "PENDING" \/ result' = result
        BY DEF Sweep, SweepLoad, SweepCommit, SweepFail, rowVars
    <2> QED
        BY <2>1, <2>2, <2>3, <2>4, <2>5, <2>6, <2>7, <2>8, <2>9 DEF Next
<1> QED
    BY <1>1, <1>2 DEF RowMove, ABSENT, Outcomes

\* A step leaves the transaction of handler h as it is, finds h outside of one, or ends it.
SameTxn(h) ==
    /\ pc'[h] = pc[h] /\ hAgent'[h] = hAgent[h] /\ hRes'[h] = hRes[h]
    /\ hCur'[h] = hCur[h] /\ hAgg'[h] = hAgg[h] /\ hJob'[h] = hJob[h]
NoTxn(h) == pc[h] \notin {"rows", "job", "commit"} /\ pc'[h] # "job" /\ hJob'[h] = hJob[h]
TxnEnds(h) == pc'[h] \in {"idle", "select"} /\ hJob'[h] = NoWrites

\* Apart from the two halves of a recompute, these are all the steps there are.
LEMMA TxnMoves ==
    ASSUME IInv, [Next]_vars, NEW h \in Handlers
    PROVE  \/ SameTxn(h) \/ NoTxn(h) \/ TxnEnds(h)
           \/ \E j \in Jobs : RecomputeRows(h, j)
           \/ RecomputeJob(h)
<1> USE DEF IInv, TypeOK, ControlTypeOK
<1>0. UNCHANGED handlerVars => SameTxn(h)
    BY DEF handlerVars, SameTxn
<1>1. ASSUME NEW j \in Jobs, Request(j)
      PROVE  UNCHANGED handlerVars
    BY <1>1 DEF Request, CreateJob, ApproveJob, CancelLoad, CancelCommit
<1>2. ASSUME NEW g \in Handlers, HandlerStep(g), g # h
      PROVE  SameTxn(h)
    BY <1>2 DEF HandlerStep, FlushResults, RecomputeRows, RecomputeJob, CommitResults, SelectRound, MarkHeld,
                MarkDispatched, Deliver, DropResponse, Respond, Finish, SameTxn
<1>3. ASSUME HandlerStep(h), ~RecomputeJob(h), \A j \in Jobs : ~RecomputeRows(h, j)
      PROVE  NoTxn(h) \/ TxnEnds(h)
    <2>1. CASE FlushResults(h) \/ MarkHeld(h) \/ MarkDispatched(h)
        BY <2>1 DEF FlushResults, MarkHeld, MarkDispatched, NoTxn
    <2>2. ASSUME NEW B, NEW F, SelectRound(h, B, F)
          PROVE  NoTxn(h)
        BY <2>2 DEF SelectRound, NoTxn
    <2>3. CASE CommitResults(h)
        BY <2>3 DEF CommitResults, TxnEnds
    <2>4. CASE Respond(h)
        BY <2>4 DEF Respond, Finish, TxnEnds
    <2> QED
        BY <1>3, <2>1, <2>2, <2>3, <2>4 DEF HandlerStep, Deliver, DropResponse
<1>4. ASSUME NEW g \in Handlers, Fail(g)
      PROVE  SameTxn(h) \/ TxnEnds(h)
    BY <1>4 DEF Fail, HandlerFail, Finish, SameTxn, TxnEnds
<1>5. ASSUME NEW a \in Agents, AgentStep(a)
      PROVE  SameTxn(h) \/ NoTxn(h)
    <2>1. ASSUME NEW g \in Handlers, SendHeartbeat(a, g)
          PROVE  SameTxn(h) \/ NoTxn(h)
        BY <2>1 DEF SendHeartbeat, Receive, SameTxn, NoTxn
    <2> QED
        BY <1>0, <1>5, <2>1 DEF AgentStep, HeartbeatFails, AgentRestart, controlVars, handlerVars
<1>6. ASSUME NEW a \in Agents, NEW j \in Jobs, JobStep(a, j)
      PROVE  UNCHANGED handlerVars
    BY <1>6 DEF JobStep, controlVars, handlerVars
<1>7. Clock \/ Sweep \/ UNCHANGED vars => UNCHANGED handlerVars
    BY DEF Clock, HoldExpires, Sweep, SweepLoad, SweepCommit, SweepFail, handlerVars, vars
<1> QED
    BY <1>0, <1>1, <1>2, <1>3, <1>4, <1>5, <1>6, <1>7 DEF Next

\* What a handler carries for a job is about a row that exists.
LEMMA CarriedHasRow ==
    ASSUME IInv, NEW h \in Handlers, NEW j \in Jobs, NEW a \in Agents, RowSeen(h, j, a) # ABSENT
    PROVE  result[j][a] # ABSENT
<1>1. CASE a = hAgent[h] /\ hRes[h][j] # NoStatus
    <2>1. hRes[h][j] \in Outcomes
        BY <1>1 DEF IInv, TypeOK, ControlTypeOK, ResultMaps
    <2>2. Says(j, a, hRes[h][j])
        BY <1>1 DEF Says
    <2> QED
        BY <2>1, <2>2 DEF IInv, UnclaimedInv, Unreported
<1>2. CASE ~(a = hAgent[h] /\ hRes[h][j] # NoStatus)
    BY <1>2 DEF RowSeen
<1> QED
    BY <1>1, <1>2

\* A backed status stays backed while the transaction is open: rows with an outcome keep it.
LEMMA BackedKept ==
    ASSUME IInv, [Next]_vars, NEW h \in Handlers, NEW j \in Jobs, NEW s, Backed(h, j, s),
           hAgent'[h] = hAgent[h], hRes'[h] = hRes[h]
    PROVE  Backed(h, j, s)'
<1>1. ASSUME NEW a \in Agents, RowSeen(h, j, a) \in Outcomes
      PROVE  RowSeen(h, j, a)' = RowSeen(h, j, a)
    <2>1. result[j][a] \in Outcomes => result'[j][a] = result[j][a]
        BY EveryMove DEF DeliveryMove, RowMove, ABSENT, Outcomes
    <2> QED
        BY <1>1, <2>1 DEF RowSeen
<1>2. job[j] # ABSENT => Rows(j)' = Rows(j)
    BY RowsFixed
<1>3. \A a \in Agents : result[j][a] # ABSENT => job[j] # ABSENT
    BY DEF IInv, ApprovalInv
<1>4. CASE s = "COMPLETED"
    <2>1. Rows(j)' = Rows(j) /\ Rows(j) # {}
        BY <1>2, <1>3, <1>4 DEF Backed, Rows
    <2>2. \A a \in Rows(j) : RowSeen(h, j, a)' = "COMPLETED"
        BY <1>1, <1>4 DEF Backed, Rows, Outcomes
    <2> QED
        BY <1>4, <2>1, <2>2 DEF Backed
<1>5. CASE s = "FAILED"
    <2>1. \E a \in Agents : RowSeen(h, j, a)' = "FAILED"
        BY <1>1, <1>5 DEF Backed, Outcomes
    <2> QED
        BY <1>5, <2>1 DEF Backed
<1> QED
    BY <1>4, <1>5 DEF Backed

\* What recompute_job_status derives from the rows it reads is backed by them.
LEMMA AggregateBacked ==
    ASSUME IInv, VerdictInv, NEW h \in Handlers, NEW j \in Jobs
    PROVE  Backed(h, j, AggregateStatus({RowSeen(h, j, a) : a \in Agents} \ {ABSENT}))
<1> DEFINE S == {RowSeen(h, j, a) : a \in Agents} \ {ABSENT}
<1>1. \A a \in Agents : RowSeen(h, j, a) \in {"PENDING", "RUNNING", "COMPLETED", "FAILED", "TIMEOUT", ABSENT}
    <2>1. \A a \in Agents : result[j][a] \in (RowStatuses \cup {ABSENT}) \ {"CANCELLED", "SKIPPED"}
        BY DEF IInv, TypeOK, ControlTypeOK, VerdictInv, ABSENT
    <2>2. hRes[h][j] \in Outcomes \cup {NoStatus}
        BY DEF IInv, TypeOK, ControlTypeOK, ResultMaps
    <2> QED
        BY <2>1, <2>2 DEF RowSeen, Outcomes, RowStatuses
<1>2. CASE AggregateStatus(S) = "COMPLETED"
    <2>1. S # {} /\ S \subseteq TerminalRowStatuses /\ "FAILED" \notin S /\ "TIMEOUT" \notin S
        BY <1>2 DEF AggregateStatus, NoStatus
    <2>2. \A a \in Agents : RowSeen(h, j, a) # ABSENT => RowSeen(h, j, a) = "COMPLETED"
        <3>1. \A a \in Agents : RowSeen(h, j, a) # ABSENT => RowSeen(h, j, a) \in S
            OBVIOUS
        <3> QED
            BY <1>1, <2>1, <3>1 DEF TerminalRowStatuses
    <2>3. Rows(j) # {}
        <3>1. PICK a \in Agents : RowSeen(h, j, a) # ABSENT
            BY <2>1
        <3> QED
            BY <3>1, CarriedHasRow DEF Rows
    <2>4. \A a \in Rows(j) : RowSeen(h, j, a) # ABSENT
        BY NoOutcome DEF Rows, RowSeen, IInv, TypeOK, ControlTypeOK, ResultMaps
    <2>5. Rows(j) \subseteq Agents
        BY DEF Rows
    <2> QED
        BY <1>2, <2>2, <2>3, <2>4, <2>5 DEF Backed
<1>3. CASE AggregateStatus(S) = "FAILED"
    <2>1. "FAILED" \in S
        BY <1>3 DEF AggregateStatus, NoStatus
    <2> QED
        BY <1>3, <2>1 DEF Backed
<1> QED
    BY <1>2, <1>3 DEF Backed

\* A verdict is only given by the commit of a recompute.
LEMMA VerdictMoves ==
    ASSUME IInv, [Next]_vars, NEW j \in Jobs
    PROVE  \/ job'[j] = job[j]
           \/ job'[j] \notin Outcomes
           \/ \E h \in Handlers : CommitResults(h) /\ job'[j] = hJob[h][j]
<1>1. ASSUME NEW i \in Jobs, Request(i)
      PROVE  job'[j] = job[j] \/ job'[j] \notin Outcomes
    BY <1>1 DEF Request, CreateJob, ApproveJob, CancelLoad, CancelCommit, rowVars, Outcomes, IInv, TypeOK,
                ControlTypeOK
<1>2. ASSUME NEW h \in Handlers, CommitResults(h)
      PROVE  job'[j] = job[j] \/ job'[j] = hJob[h][j]
    BY <1>2 DEF CommitResults, JobsAfter
<1>3. ASSUME NEW h \in Handlers, MarkDispatched(h)
      PROVE  job'[j] = job[j] \/ job'[j] \notin Outcomes
    BY <1>3 DEF MarkDispatched, Outcomes
<1>4. ASSUME NEW h \in Handlers, HandlerStep(h)
      PROVE  CommitResults(h) \/ MarkDispatched(h) \/ job' = job
    BY <1>4 DEF HandlerStep, FlushResults, RecomputeRows, RecomputeJob, SelectRound, MarkHeld,
                Deliver, DropResponse, Respond, Finish, rowVars
<1>5. ASSUME NEW h \in Handlers, Fail(h)
      PROVE  job' = job
    BY <1>5 DEF Fail, HandlerFail, Finish, rowVars
<1>6. ASSUME NEW a \in Agents, AgentStep(a)
      PROVE  job' = job
    BY <1>6 DEF AgentStep, SendHeartbeat, Receive, HeartbeatFails, AgentRestart, rowVars, controlVars
<1>7. ASSUME NEW a \in Agents, NEW i \in Jobs, JobStep(a, i)
      PROVE  job' = job
    BY <1>7 DEF JobStep, controlVars
<1>8. Clock \/ UNCHANGED vars => job' = job
    BY DEF Clock, HoldExpires, vars
<1>9. Sweep => job'[j] = job[j] \/ job'[j] \notin Outcomes
    BY DEF Sweep, SweepLoad, SweepCommit, SweepFail, rowVars, Outcomes
<1> QED
    BY <1>1, <1>2, <1>3, <1>4, <1>5, <1>6, <1>7, <1>8, <1>9 DEF Next

\* A verdict that was given stays backed, and the one a commit gives was backed before.
LEMMA VerdictKept ==
    ASSUME IInv, VerdictInv, [Next]_vars
    PROVE  VerdictSound'
<1> SUFFICES ASSUME NEW j \in Jobs
             PROVE  /\ job'[j] = "COMPLETED" => \A a \in Rows(j)' : result'[j][a] = "COMPLETED"
                    /\ job'[j] = "FAILED" => \E a \in Rows(j)' : result'[j][a] = "FAILED"
    BY DEF VerdictSound
<1>1. \A a \in Agents : result[j][a] \in Outcomes => result'[j][a] = result[j][a]
    BY EveryMove DEF DeliveryMove, RowMove, ABSENT, Outcomes
<1>2. CASE job'[j] = job[j]
    <2>1. job'[j] \in Outcomes => Rows(j)' = Rows(j)
        BY <1>2, RowsFixed, NoOutcome
    <2> QED
        BY <1>1, <1>2, <2>1 DEF VerdictInv, VerdictSound, Rows, Outcomes
<1>3. ASSUME NEW h \in Handlers, CommitResults(h), job'[j] = hJob[h][j]
      PROVE  /\ job'[j] = "COMPLETED" => \A a \in Rows(j)' : result'[j][a] = "COMPLETED"
             /\ job'[j] = "FAILED" => \E a \in Rows(j)' : result'[j][a] = "FAILED"
    <2>1. Backed(h, j, job'[j])
        BY <1>3 DEF VerdictInv
    <2>2. \A a \in Agents : result'[j][a] = RowSeen(h, j, a)
        BY <1>3 DEF CommitResults, RowsAfter
    <2>3. \A a \in Agents : a \in Rows(j)' => a \in Rows(j)
        BY <2>2, CarriedHasRow DEF Rows
    <2>4. CASE job'[j] = "COMPLETED"
        BY <2>1, <2>2, <2>3, <2>4 DEF Backed, Rows
    <2>5. CASE job'[j] = "FAILED"
        <3>1. PICK a \in Agents : result'[j][a] = "FAILED"
            BY <2>1, <2>2, <2>5 DEF Backed
        <3>2. a \in Rows(j)'
            BY <3>1 DEF Rows, ABSENT
        <3> QED
            BY <2>5, <3>1, <3>2
    <2> QED
        BY <2>4, <2>5
<1>4. CASE job'[j] \notin Outcomes
    BY <1>4 DEF Outcomes
<1> QED
    BY <1>2, <1>3, <1>4, VerdictMoves

\* Every step keeps what the verdicts rest on.
LEMMA VerdictInvKept ==
    ASSUME IInv, VerdictInv, [Next]_vars
    PROVE  VerdictInv'
<1>1. VerdictSound'
    BY VerdictKept
<1>2. \A j \in Jobs, a \in Agents : result'[j][a] \notin {"CANCELLED", "SKIPPED"}
    BY EveryMove DEF DeliveryMove, RowMove, Outcomes, VerdictInv
<1>3. ASSUME NEW h \in Handlers
      PROVE  /\ pc'[h] = "job" => Backed(h, hCur[h], hAgg[h])'
             /\ pc'[h] \notin {"rows", "job", "commit"} => hJob'[h] = NoWrites
             /\ \A j \in Jobs : Backed(h, j, hJob[h][j])'
    <2>0. \A j \in Jobs : Backed(h, j, NoStatus)'
        BY DEF Backed, NoStatus
    <2>1. CASE SameTxn(h)
        <3>1. \A j \in Jobs : Backed(h, j, hJob[h][j])'
            BY <2>1, BackedKept DEF SameTxn, VerdictInv
        <3>2. pc[h] = "job" => hCur[h] \in Jobs
            BY DEF IInv, HandlersInv
        <3>3. pc'[h] = "job" => Backed(h, hCur[h], hAgg[h])'
            BY <2>1, <3>2, BackedKept DEF SameTxn, VerdictInv
        <3> QED
            BY <2>1, <3>1, <3>3 DEF SameTxn, VerdictInv
    <2>2. CASE NoTxn(h)
        <3>1. hJob'[h] = NoWrites
            BY <2>2 DEF NoTxn, VerdictInv
        <3> QED
            BY <2>0, <2>2, <3>1 DEF NoTxn, NoWrites
    <2>3. CASE TxnEnds(h)
        BY <2>0, <2>3 DEF TxnEnds, NoWrites
    <2>4. ASSUME NEW i \in Jobs, RecomputeRows(h, i)
          PROVE  /\ pc'[h] = "job" => Backed(h, hCur[h], hAgg[h])'
                 /\ pc'[h] \notin {"rows", "job", "commit"} => hJob'[h] = NoWrites
                 /\ \A j \in Jobs : Backed(h, j, hJob[h][j])'
        <3> DEFINE agg == AggregateStatus({RowSeen(h, i, a) : a \in Agents} \ {ABSENT})
        <3>1. /\ hAgent'[h] = hAgent[h] /\ hRes'[h] = hRes[h] /\ hJob'[h] = hJob[h]
              /\ hCur'[h] = i /\ hAgg'[h] = agg /\ pc'[h] = "job"
            BY <2>4 DEF RecomputeRows, IInv, TypeOK, ControlTypeOK
        <3>2. Backed(h, i, agg)
            BY AggregateBacked
        <3> HIDE DEF agg
        <3>3. ASSUME NEW s, Backed(h, i, s)
              PROVE  Backed(h, i, s)'
            BY <3>1, <3>3, BackedKept
        <3>4. \A j \in Jobs : Backed(h, j, hJob[h][j])'
            BY <3>1, BackedKept DEF VerdictInv
        <3>5. Backed(h, hCur[h], hAgg[h])'
            BY <3>1, <3>2, <3>3 DEF Backed
        <3> QED
            BY <3>1, <3>4, <3>5
    <2>5. CASE RecomputeJob(h)
        <3>1. /\ hAgent'[h] = hAgent[h] /\ hRes'[h] = hRes[h]
              /\ pc'[h] \in {"commit", "rows"} /\ pc[h] = "job" /\ hCur[h] \in Jobs
            BY <2>5 DEF RecomputeJob, IInv, TypeOK, ControlTypeOK, HandlersInv
        <3>2. \A j \in Jobs : hJob'[h][j] = IF j # hCur[h] THEN hJob[h][j]
                                           ELSE IF job[j] = "CANCELLED" \/ hAgg[h] = job[j]
                                                THEN NoStatus ELSE hAgg[h]
            BY <2>5, <3>1 DEF RecomputeJob, IInv, TypeOK, ControlTypeOK
        <3>3. \A j \in Jobs : Backed(h, j, hJob'[h][j])
            BY <3>1, <3>2 DEF VerdictInv, Backed, NoStatus
        <3>4. \A j \in Jobs : Backed(h, j, hJob[h][j])'
            BY <3>1, <3>3, BackedKept
        <3> QED
            BY <3>1, <3>4
    <2> QED
        BY <2>1, <2>2, <2>3, <2>4, <2>5, TxnMoves
<1> QED
    BY <1>1, <1>2, <1>3 DEF VerdictInv

\* A job is COMPLETED only when all its agents completed it and FAILED only when one of them
\* failed, for every number of agents that report at once: an aggregate that was computed
\* from another handler's old rows never claims more than the rows bear out.
THEOREM VerdictsBacked == Spec => []VerdictSound
<1>1. Init => VerdictInv
    BY DEF Init, ControlInit, VerdictInv, VerdictSound, Backed, NoWrites, NoStatus, ABSENT
<1>2. IInv /\ VerdictInv /\ [Next]_vars => VerdictInv'
    BY VerdictInvKept
<1>3. VerdictInv => VerdictSound
    BY DEF VerdictInv
<1> QED
    BY <1>1, <1>2, <1>3, Invariance, PTL DEF Spec

-----------------------------------------------------------------------------
(* Custody of what was handed out.                                         *)

\* The stations of a handler that still carries the results of its heartbeat.
Carrying == {"apply", "rows", "job", "commit"}

\* What one step does to the results a handler carries.
LEMMA CarryMoves ==
    ASSUME IInv, [Next]_vars, NEW h \in Handlers
    PROVE  \/ (pc'[h] \in Carrying <=> pc[h] \in Carrying) /\ hRes'[h] = hRes[h]
           \/ FlushResults(h) \/ CommitResults(h)
           \/ pc[h] = "idle" \/ pc'[h] = "idle"
<1> USE DEF IInv, TypeOK, ControlTypeOK, Carrying
<1> DEFINE Same == (pc'[h] \in Carrying <=> pc[h] \in Carrying) /\ hRes'[h] = hRes[h]
<1>0. UNCHANGED handlerVars => Same
    BY DEF handlerVars
<1>1. ASSUME NEW j \in Jobs, Request(j)
      PROVE  UNCHANGED handlerVars
    BY <1>1 DEF Request, CreateJob, ApproveJob, CancelLoad, CancelCommit
<1>2. ASSUME NEW g \in Handlers, HandlerStep(g), g # h
      PROVE  Same
    BY <1>2 DEF HandlerStep, FlushResults, RecomputeRows, RecomputeJob, CommitResults, SelectRound, MarkHeld,
                MarkDispatched, Deliver, DropResponse, Respond, Finish
<1>3. ASSUME HandlerStep(h), ~FlushResults(h), ~CommitResults(h)
      PROVE  Same \/ pc'[h] = "idle"
    <2>1. CASE (\E j \in Jobs : RecomputeRows(h, j)) \/ RecomputeJob(h)
        BY <2>1 DEF RecomputeRows, RecomputeJob
    <2>2. CASE MarkHeld(h) \/ MarkDispatched(h)
        BY <2>2 DEF MarkHeld, MarkDispatched
    <2>3. ASSUME NEW B, NEW F, SelectRound(h, B, F)
          PROVE  Same
        BY <2>3 DEF SelectRound
    <2>4. CASE Respond(h)
        BY <2>4 DEF Respond, Finish
    <2> QED
        BY <1>3, <2>1, <2>2, <2>3, <2>4 DEF HandlerStep, Deliver, DropResponse
<1>4. ASSUME NEW g \in Handlers, Fail(g)
      PROVE  Same \/ pc'[h] = "idle"
    BY <1>4 DEF Fail, HandlerFail, Finish
<1>5. ASSUME NEW a \in Agents, AgentStep(a)
      PROVE  Same \/ pc[h] = "idle"
    <2>1. ASSUME NEW g \in Handlers, SendHeartbeat(a, g)
          PROVE  Same \/ pc[h] = "idle"
        BY <2>1 DEF SendHeartbeat, Receive
    <2> QED
        BY <1>0, <1>5, <2>1 DEF AgentStep, HeartbeatFails, AgentRestart, controlVars, handlerVars
<1>6. ASSUME NEW a \in Agents, NEW j \in Jobs, JobStep(a, j)
      PROVE  UNCHANGED handlerVars
    BY <1>6 DEF JobStep, controlVars, handlerVars
<1>7. Clock \/ Sweep \/ UNCHANGED vars => UNCHANGED handlerVars
    BY DEF Clock, HoldExpires, Sweep, SweepLoad, SweepCommit, SweepFail, handlerVars, vars
<1> QED
    BY <1>0, <1>1, <1>2, <1>3, <1>4, <1>5, <1>6, <1>7 DEF Next

\* What one step does to the heartbeat an agent is in.
LEMMA BeatMoves ==
    ASSUME IInv, [Next]_vars, NEW a \in Agents
    PROVE  \/ /\ wait'[a] = wait[a] /\ inHb'[a] = inHb[a]
              /\ \A i \in 1..inHb[a] : queue'[a][i] = queue[a][i]
           \/ \E h \in Handlers : SendHeartbeat(a, h)
           \/ inHb'[a] = -1
<1> USE DEF IInv, TypeOK, AgentTypeOK
<1> DEFINE Same == /\ wait'[a] = wait[a] /\ inHb'[a] = inHb[a]
                   /\ \A i \in 1..inHb[a] : queue'[a][i] = queue[a][i]
<1>0. UNCHANGED <<queue, inHb, wait>> => Same
    OBVIOUS
<1>1. ASSUME NEW j \in Jobs, Request(j)
      PROVE  Same
    BY <1>0, <1>1 DEF Request, agentVars, linkVars
<1>2. ASSUME NEW h \in Handlers, HandlerStep(h)
      PROVE  Same \/ inHb'[a] = -1
    <2>1. ASSUME NEW bad, Deliver(h, bad)
          PROVE  Same \/ inHb'[a] = -1
        BY <2>1 DEF Deliver, HeartbeatOK
    <2> QED
        BY <1>0, <1>2, <2>1 DEF HandlerStep, DropResponse, agentVars, linkVars
<1>3. ASSUME NEW h \in Handlers, Fail(h)
      PROVE  Same \/ inHb'[a] = -1
    BY <1>3 DEF Fail, HeartbeatError, agentVars
<1>4. ASSUME NEW b \in Agents, AgentStep(b)
      PROVE  Same \/ inHb'[a] = -1 \/ \E h \in Handlers : SendHeartbeat(a, h)
    <2>1. ASSUME NEW h \in Handlers, SendHeartbeat(b, h), b # a
          PROVE  Same
        BY <2>1 DEF SendHeartbeat, StartHeartbeat
    <2>2. CASE HeartbeatFails(b)
        BY <2>2 DEF HeartbeatFails, HeartbeatError
    <2>3. CASE AgentRestart(b)
        BY <2>3 DEF AgentRestart, Restart
    <2> QED
        BY <1>4, <2>1, <2>2, <2>3 DEF AgentStep
<1>5. ASSUME NEW b \in Agents, NEW j \in Jobs, JobStep(b, j)
      PROVE  Same
    <2>1. CASE AcquireSlot(b, j) /\ UNCHANGED linkVars
        BY <1>0, <2>1 DEF AcquireSlot, linkVars
    <2>2. ASSUME NEW o \in Outcomes, ReportResult(b, j, o), UNCHANGED linkVars
          PROVE  Same
        <3>1. UNCHANGED <<inHb, wait>>
            BY <2>2 DEF ReportResult, linkVars
        <3>2. inHb[a] \in -1..Len(queue[a]) /\ queue[a] \in Seq(Report) /\ Len(queue[a]) \in Nat
            BY DEF WaitInv
        <3>3. CASE b = a
            <4>1. queue'[a] = Append(queue[a], [job |-> j, outcome |-> o])
                BY <2>2, <3>3 DEF ReportResult
            <4>2. [job |-> j, outcome |-> o] \in Report
                BY DEF Report
            <4>3. \A i \in 1..Len(queue[a]) : queue'[a][i] = queue[a][i]
                BY <3>2, <4>1, <4>2, AppendProperties
            <4>4. \A i \in 1..inHb[a] : i \in 1..Len(queue[a])
                BY <3>2
            <4> QED
                BY <3>1, <4>3, <4>4
        <3>4. CASE b # a
            BY <2>2, <3>1, <3>4 DEF ReportResult
        <3> QED
            BY <3>3, <3>4
    <2> QED
        BY <1>5, <2>1, <2>2 DEF JobStep
<1>6. Clock \/ Sweep \/ UNCHANGED vars => Same
    BY <1>0 DEF Clock, Sweep, vars, agentVars, linkVars
<1> QED
    BY <1>1, <1>2, <1>3, <1>4, <1>5, <1>6 DEF Next

\* Every step keeps the results of a heartbeat in its handler's hands or in the rows.
LEMMA CarriedKept ==
    ASSUME IInv, IInv', CarriedInv, [Next]_vars
    PROVE  CarriedInv'
<1> SUFFICES ASSUME NEW a \in Agents, NEW i \in 1..inHb'[a]
             PROVE  IF pc'[wait'[a]] \in Carrying
                    THEN hRes'[wait'[a]][queue'[a][i].job] # NoStatus
                    ELSE result'[queue'[a][i].job][a] \in Outcomes
    BY DEF CarriedInv, Carrying
<1>1. CASE /\ wait'[a] = wait[a] /\ inHb'[a] = inHb[a]
           /\ \A k \in 1..inHb[a] : queue'[a][k] = queue[a][k]
    <2> DEFINE h == wait[a]
               j == queue[a][i].job
    <2>1. inHb[a] \in -1..Len(queue[a]) /\ i \in 1..Len(queue[a]) /\ inHb[a] # -1
        BY <1>1 DEF IInv, TypeOK, AgentTypeOK, WaitInv
    <2>2. h \in Handlers /\ hAgent[h] = a /\ pc[h] # "idle" /\ pc'[h] # "idle"
        BY <1>1, <2>1 DEF IInv, TypeOK, WaitInv
    <2>3. queue[a][i] \in Report /\ queue'[a][i] = queue[a][i]
        BY <1>1, <2>1 DEF IInv, TypeOK, AgentTypeOK
    <2>4. j \in Jobs
        BY <2>3 DEF Report
    <2>5. /\ pc[h] \in Carrying => hRes[h][j] # NoStatus
          /\ pc[h] \notin Carrying => result[j][a] \in Outcomes
        BY <1>1 DEF CarriedInv, Carrying
    <2>6. hRes[h][j] \in Outcomes \cup {NoStatus}
        BY <2>2, <2>4 DEF IInv, TypeOK, ControlTypeOK, ResultMaps
    <2>7. result[j][a] \in Outcomes => result'[j][a] \in Outcomes
        BY <2>4, EveryMove DEF DeliveryMove, RowMove, ABSENT, Outcomes
    <2> SUFFICES IF pc'[h] \in Carrying THEN hRes'[h][j] # NoStatus ELSE result'[j][a] \in Outcomes
        BY <1>1, <2>3
    <2> HIDE DEF h, j
    <2>8. CASE (pc'[h] \in Carrying <=> pc[h] \in Carrying) /\ hRes'[h] = hRes[h]
        BY <2>5, <2>7, <2>8
    <2>9. CASE FlushResults(h)
        <3>1. pc[h] = "apply" /\ hRes[h][j] \in Outcomes
            BY <2>5, <2>6, <2>9 DEF FlushResults, Carrying
        <3>2. Says(j, a, hRes[h][j])
            BY <2>2 DEF Says
        <3>3. result[j][a] # ABSENT
            BY <2>4, <3>1, <3>2 DEF IInv, UnclaimedInv, Unreported
        <3>4. j \in Touched(h)
            BY <2>2, <2>4, <3>1, <3>3, NoOutcome DEF Touched
        <3>5. pc'[h] = "rows" /\ hRes'[h][j] = hRes[h][j]
            BY <2>2, <2>4, <2>9, <3>4 DEF FlushResults, IInv, TypeOK, ControlTypeOK
        <3> QED
            BY <3>1, <3>5, NoOutcome DEF Carrying
    <2>10. CASE CommitResults(h)
        <3>1. hRes[h][j] \in Outcomes
            BY <2>5, <2>6, <2>10 DEF CommitResults, Carrying
        <3>2. result'[j][a] = hRes[h][j]
            BY <2>2, <2>4, <2>10, <3>1, NoOutcome DEF CommitResults, RowsAfter, RowSeen
        <3>3. pc'[h] = "select"
            BY <2>2, <2>10 DEF CommitResults, IInv, TypeOK, ControlTypeOK
        <3> QED
            BY <3>1, <3>2, <3>3 DEF Carrying
    <2> QED
        BY <2>2, <2>8, <2>9, <2>10, CarryMoves
<1>2. ASSUME NEW h \in Handlers, SendHeartbeat(a, h)
      PROVE  pc'[wait'[a]] \in Carrying /\ hRes'[wait'[a]][queue'[a][i].job] # NoStatus
    <2>1. Receive(h, a, Reported(a)) /\ StartHeartbeat(a) /\ wait'[a] = h
        BY <1>2 DEF SendHeartbeat, IInv, TypeOK
    <2>2. i \in 1..Len(queue[a]) /\ queue' = queue
        BY <2>1 DEF StartHeartbeat, IInv, TypeOK, AgentTypeOK
    <2>3. Reported(a)[queue[a][i].job] \in Outcomes
        BY <2>2, ReportedFacts DEF IInv
    <2>4. queue[a][i].job \in Jobs
        <3>1. queue[a][i] \in Report
            BY <2>2 DEF IInv, TypeOK, AgentTypeOK
        <3> QED
            BY <3>1 DEF Report
    <2>5. Reported(a) # NoResults
        BY <2>3, <2>4, NoOutcome DEF NoResults
    <2>6. pc'[h] = "apply" /\ hRes'[h] = Reported(a)
        BY <2>1, <2>5 DEF Receive, IInv, TypeOK, ControlTypeOK
    <2> QED
        BY <2>1, <2>2, <2>3, <2>6, NoOutcome DEF Carrying
<1>3. inHb'[a] # -1
    OBVIOUS
<1> QED
    BY <1>1, <1>2, <1>3, BeatMoves

\* A row becomes RUNNING only in mark_dispatched, and then its response carries the job.
LEMMA ClaimedIsResponding ==
    ASSUME IInv, [Next]_vars, NEW j \in Jobs, NEW a \in Agents,
           result[j][a] # "RUNNING", result'[j][a] = "RUNNING"
    PROVE  \E h \in Handlers : Responding(h, j, a)'
<1>1. ASSUME NEW i \in Jobs, Request(i)
      PROVE  FALSE
    <2>1. ASSUME NEW u, NEW T, NEW g, CreateJob(i, u, T, g)
          PROVE  result'[j][a] \in {"PENDING", ABSENT, result[j][a]}
        BY <2>1 DEF CreateJob, IInv, TypeOK, ControlTypeOK
    <2> QED
        BY <1>1, <2>1 DEF Request, ApproveJob, CancelLoad, CancelCommit, rowVars, ABSENT
<1>2. ASSUME NEW h \in Handlers, CommitResults(h)
      PROVE  FALSE
    <2>1. result'[j][a] = RowSeen(h, j, a)
        BY <1>2 DEF CommitResults, RowsAfter
    <2>2. hRes[h][j] \in Outcomes \cup {NoStatus}
        BY DEF IInv, TypeOK, ControlTypeOK, ResultMaps
    <2> QED
        BY <2>1, <2>2 DEF RowSeen, Outcomes
<1>3. ASSUME NEW h \in Handlers, MarkDispatched(h)
      PROVE  Responding(h, j, a)'
    <2>1. hAgent[h] = a /\ j \in hSel[h] /\ result[j][a] = "PENDING"
        BY <1>3 DEF MarkDispatched, IInv, TypeOK, ControlTypeOK
    <2>2. pc'[h] = "respond" /\ hAgent' = hAgent /\ j \in hSel'[h]
        BY <1>3, <2>1 DEF MarkDispatched, IInv, TypeOK, ControlTypeOK
    <2> QED
        BY <2>1, <2>2 DEF Responding
<1>4. ASSUME NEW h \in Handlers, HandlerStep(h)
      PROVE  CommitResults(h) \/ MarkDispatched(h) \/ result' = result
    BY <1>4 DEF HandlerStep, FlushResults, RecomputeRows, RecomputeJob, SelectRound, MarkHeld,
                Deliver, DropResponse, Respond, Finish, rowVars
<1>5. ASSUME NEW h \in Handlers, Fail(h)
      PROVE  result' = result
    BY <1>5 DEF Fail, HandlerFail, Finish, rowVars
<1>6. ASSUME NEW b \in Agents, AgentStep(b)
      PROVE  result' = result
    BY <1>6 DEF AgentStep, SendHeartbeat, Receive, HeartbeatFails, AgentRestart, rowVars, controlVars
<1>7. ASSUME NEW b \in Agents, NEW i \in Jobs, JobStep(b, i)
      PROVE  result' = result
    BY <1>7 DEF JobStep, controlVars
<1>8. Clock \/ UNCHANGED vars => result' = result
    BY DEF Clock, HoldExpires, vars
<1>9. ~Sweep \/ result' = result
    BY DEF Sweep, SweepLoad, SweepCommit, SweepFail, rowVars
<1> QED
    BY <1>1, <1>2, <1>3, <1>4, <1>5, <1>6, <1>7, <1>8, <1>9 DEF Next

\* The sequence t contains what s has after its first m elements.
HoldsRest(s, m, t) == \A k \in 1..Len(s) : k <= m \/ \E i \in 1..Len(t) : t[i] = s[k]

\* Sequences: the unsent rest of a queue and the new reports are all in the queue that results.
LEMMA QueueKeeps ==
    ASSUME NEW s \in Seq(Report), NEW m \in 0..Len(s), NEW n \in Nat, NEW q \in [1..n -> Report],
           NEW t, t = SubSeq(s, m + 1, Len(s)) \o q
    PROVE  HoldsRest(s, m, t) /\ HoldsRest(q, 0, t)
<1> DEFINE r == SubSeq(s, m + 1, Len(s))
<1>1. q \in Seq(Report) /\ Len(q) = n
    OBVIOUS
<1>2. r \in Seq(Report) /\ Len(r) = Len(s) - m /\ \A i \in 1..Len(r) : r[i] = s[m + i]
    OBVIOUS
<1>3. t = r \o q
    OBVIOUS
<1> HIDE DEF r
<1>4. /\ Len(t) = Len(r) + n
      /\ \A i \in 1..Len(t) : t[i] = IF i <= Len(r) THEN r[i] ELSE q[i - Len(r)]
    <2>1. /\ Len(r \o q) = Len(r) + Len(q)
          /\ \A i \in 1..(Len(r) + Len(q)) : (r \o q)[i] = IF i <= Len(r) THEN r[i] ELSE q[i - Len(r)]
        BY <1>1, <1>2, ConcatProperties, Zenon
    <2> QED
        BY <1>1, <1>3, <2>1, Zenon
<1>5. ASSUME NEW k \in 1..Len(s), ~(k <= m)
      PROVE  \E i \in 1..Len(t) : t[i] = s[k]
    <2>1. PICK d \in 1..Len(r) : m + d = k
        <3>1. k - m \in 1..Len(r) /\ m + (k - m) = k
            BY <1>2, <1>5
        <3> QED
            BY <3>1
    <2>2. d \in 1..Len(t) /\ d <= Len(r)
        BY <1>2, <1>4
    <2>3. t[d] = s[k]
        BY <1>2, <1>4, <2>1, <2>2
    <2> QED
        BY <2>2, <2>3
<1>6. ASSUME NEW k \in 1..n
      PROVE  \E i \in 1..Len(t) : t[i] = q[k]
    <2>1. Len(r) + k \in 1..Len(t) /\ ~(Len(r) + k <= Len(r)) /\ (Len(r) + k) - Len(r) = k
        BY <1>2, <1>4
    <2>2. t[Len(r) + k] = q[k]
        BY <1>4, <2>1
    <2> QED
        BY <2>1, <2>2
<1> QED
    BY <1>1, <1>5, <1>6 DEF HoldsRest

\* A step that changes neither the agent nor a response on its way keeps custody.
LEMMA CustodyFrame ==
    ASSUME NEW j \in Jobs, NEW a \in Agents, InCustody(j, a),
           phase'[a] = phase[a], queue'[a] = queue[a], lost[j][a] => lost'[j][a],
           \A h \in Handlers : Responding(h, j, a) => Responding(h, j, a)'
    PROVE  InCustody(j, a)'
BY DEF InCustody, QueuedJobs, Reports

\* A handler that has not answered yet touches no response.
LEMMA HandlerCustody ==
    ASSUME IInv, NEW j \in Jobs, NEW a \in Agents, InCustody(j, a), NEW g \in Handlers,
           pc[g] # "respond", UNCHANGED <<agentVars, linkVars>>,
           \A h \in Handlers \ {g} : pc'[h] = pc[h] /\ hAgent'[h] = hAgent[h] /\ hSel'[h] = hSel[h]
    PROVE  InCustody(j, a)'
<1>1. \A h \in Handlers : Responding(h, j, a) => Responding(h, j, a)'
    BY DEF Responding
<1> QED
    BY <1>1, CustodyFrame DEF agentVars, linkVars

\* LoseJobs forgets no loss, and records the ones it is given.
LEMMA LoseFacts ==
    ASSUME TypeOK, NEW S, NEW b \in Agents, LoseJobs(S, b), NEW j \in Jobs, NEW a \in Agents
    PROVE  /\ lost[j][a] => lost'[j][a]
           /\ j \in S /\ a = b => lost'[j][a]
BY DEF LoseJobs, TypeOK

\* The response passes custody on: to a goroutine or to a FAILED report. The reports that
\* leave the queue are about rows that have their outcome.
LEMMA DeliverCustody ==
    ASSUME IInv, CarriedInv, NEW h \in Handlers, NEW bad \in SUBSET Jobs, Deliver(h, bad),
           NEW j \in Jobs, NEW a \in Agents, InCustody(j, a), result[j][a] = "RUNNING"
    PROVE  InCustody(j, a)'
<1> DEFINE c == hAgent[h]
<1>1. /\ Finish(h) /\ pc[h] = "respond" /\ wait[c] = h /\ bad \subseteq hSel[h] /\ lost' = lost
      /\ c \in Agents /\ hSel[h] \subseteq Jobs
    BY DEF Deliver, Respond, IInv, TypeOK, ControlTypeOK, HandlersInv
<1>2. PICK q \in Rejections(bad) :
         queue' = [queue EXCEPT ![c] = SubSeq(@, inHb[c] + 1, Len(@)) \o q]
    BY DEF Deliver, HeartbeatOK
<1>3. phase' = [phase EXCEPT ![c] = [i \in Jobs |->
                     IF i \in hSel[h] \ bad /\ phase[c][i] = "none" THEN "waiting" ELSE phase[c][i]]]
    BY DEF Deliver, HeartbeatOK
<1>4. ASSUME NEW g \in Handlers, g # h, Responding(g, j, a)
      PROVE  Responding(g, j, a)'
    BY <1>1, <1>4, FinishFacts DEF Responding
<1>5. CASE a # c
    <2>1. phase'[a] = phase[a] /\ queue'[a] = queue[a]
        BY <1>1, <1>2, <1>3, <1>5 DEF IInv, TypeOK, AgentTypeOK
    <2>2. ~Responding(h, j, a)
        BY <1>5 DEF Responding
    <2> QED
        BY <1>1, <1>4, <2>1, <2>2, CustodyFrame
<1>6. CASE a = c
    <2>1. phase'[a][j] = IF j \in hSel[h] \ bad /\ phase[a][j] = "none" THEN "waiting" ELSE phase[a][j]
        BY <1>1, <1>3, <1>6 DEF IInv, TypeOK, AgentTypeOK
    <2>2. /\ queue[a] \in Seq(Report) /\ inHb[a] \in 0..Len(queue[a]) /\ Cardinality(bad) \in Nat
          /\ q \in [1..Cardinality(bad) -> Report]
          /\ \A i \in bad : \E k \in 1..Cardinality(bad) : q[k].job = i
          /\ queue'[a] = SubSeq(queue[a], inHb[a] + 1, Len(queue[a])) \o q
        <3>1. queue[a] \in Seq(Report) /\ inHb[a] \in 0..Len(queue[a])
            BY <1>1, <1>6, DispatchAssumption DEF IInv, TypeOK, AgentTypeOK, WaitInv
        <3>2. Cardinality(bad) \in Nat
            BY ControlAssumption, FS_Subset, FS_CardinalityType
        <3>3. /\ q \in [1..Cardinality(bad) -> Report]
              /\ \A i \in bad : \E k \in 1..Cardinality(bad) : q[k].job = i
            BY DEF Rejections
        <3>4. queue'[a] = SubSeq(queue[a], inHb[a] + 1, Len(queue[a])) \o q
            BY <1>1, <1>2, <1>6 DEF IInv, TypeOK, AgentTypeOK
        <3> QED
            BY <3>1, <3>2, <3>3, <3>4
    <2>3. /\ \A k \in 1..Len(queue[a]) : k <= inHb[a] \/ \E i \in 1..Len(queue'[a]) : queue'[a][i] = queue[a][k]
          /\ \A k \in 1..Cardinality(bad) : \E i \in 1..Len(queue'[a]) : queue'[a][i] = q[k]
        <3>1. PICK s : s = queue[a]
            OBVIOUS
        <3>2. PICK m : m = inHb[a]
            OBVIOUS
        <3>3. PICK n : n = Cardinality(bad)
            OBVIOUS
        <3>4. PICK t : t = queue'[a]
            OBVIOUS
        <3>5. /\ s \in Seq(Report) /\ m \in 0..Len(s) /\ n \in Nat /\ q \in [1..n -> Report]
              /\ t = SubSeq(s, m + 1, Len(s)) \o q
            BY <2>2, <3>1, <3>2, <3>3, <3>4
        <3>6. HoldsRest(s, m, t) /\ HoldsRest(q, 0, t)
            BY <3>5, QueueKeeps
        <3>7. Len(q) = n /\ \A k \in 1..n : ~(k <= 0)
            BY <3>5
        <3> QED
            BY <3>1, <3>2, <3>3, <3>4, <3>6, <3>7 DEF HoldsRest
    <2>4. CASE lost[j][a]
        BY <1>1, <2>4 DEF InCustody
    <2>5. CASE phase[a][j] \in {"waiting", "running"}
        BY <2>1, <2>5 DEF InCustody
    <2>6. CASE j \in QueuedJobs(a)
        <3>1. PICK k \in 1..Len(queue[a]) : queue[a][k].job = j
            BY <2>6 DEF QueuedJobs, Reports
        <3>2. ~(k <= inHb[a])
            <4>1. k <= inHb[a] => k \in 1..inHb[a]
                BY <2>2
            <4>2. k \in 1..inHb[a] => result[j][a] \in Outcomes
                BY <1>1, <1>6, <3>1 DEF CarriedInv
            <4> QED
                BY <4>1, <4>2 DEF Outcomes
        <3>3. PICK i \in 1..Len(queue'[a]) : queue'[a][i].job = j
            BY <2>3, <3>1, <3>2
        <3> QED
            BY <3>3 DEF InCustody, QueuedJobs, Reports
    <2>7. CASE Responding(h, j, a)
        <3>1. j \in hSel[h] /\ phase[a][j] = "none"
            BY <2>7 DEF IInv, ResponseInv, Responding
        <3>2. CASE j \in bad
            <4>1. PICK k \in 1..Cardinality(bad) : q[k].job = j
                BY <2>2, <3>2
            <4>2. PICK i \in 1..Len(queue'[a]) : queue'[a][i].job = j
                BY <2>3, <4>1
            <4> QED
                BY <4>2 DEF InCustody, QueuedJobs, Reports
        <3>3. CASE j \notin bad
            BY <2>1, <3>1, <3>3 DEF InCustody
        <3> QED
            BY <3>2, <3>3
    <2>8. ASSUME NEW g \in Handlers, g # h, Responding(g, j, a)
          PROVE  InCustody(j, a)'
        BY <1>4, <2>8 DEF InCustody
    <2> QED
        BY <2>4, <2>5, <2>6, <2>7, <2>8 DEF InCustody
<1> QED
    BY <1>5, <1>6

\* A handler that ends without delivering records the loss of what it had to hand out.
LEMMA EndCustody ==
    ASSUME IInv, NEW h \in Handlers, Finish(h), NEW S, LoseJobs(S, hAgent[h]), pc[h] # "idle",
           pc[h] = "respond" => S = hSel[h], UNCHANGED <<phase, queue>>,
           NEW j \in Jobs, NEW a \in Agents, InCustody(j, a)
    PROVE  InCustody(j, a)'
<1>1. hAgent[h] \in Agents
    BY DEF IInv, HandlersInv
<1>2. lost[j][a] => lost'[j][a]
    BY <1>1, LoseFacts DEF IInv
<1>3. CASE Responding(h, j, a)
    <2>1. lost'[j][a]
        BY <1>1, <1>3, LoseFacts DEF IInv, Responding
    <2> QED
        BY <2>1 DEF InCustody
<1>4. CASE ~Responding(h, j, a)
    <2>1. \A g \in Handlers : Responding(g, j, a) => Responding(g, j, a)'
        BY <1>4, FinishFacts DEF Responding
    <2> QED
        BY <1>2, <2>1, CustodyFrame
<1> QED
    BY <1>3, <1>4

\* A goroutine keeps custody when it gets its slot, and passes it to the queue when it ends.
LEMMA GoroutineCustody ==
    ASSUME IInv, NEW b \in Agents, NEW i \in Jobs, JobStep(b, i),
           NEW j \in Jobs, NEW a \in Agents, InCustody(j, a)
    PROVE  InCustody(j, a)'
<1>0. UNCHANGED <<controlVars, lost>>
    BY DEF JobStep, linkVars
<1>1. \A h \in Handlers : Responding(h, j, a) => Responding(h, j, a)'
    BY <1>0 DEF Responding, controlVars
<1>2. CASE AcquireSlot(b, i)
    <2>1. /\ phase'[a][j] = phase[a][j] \/ phase'[a][j] = "running"
          /\ queue' = queue
        BY <1>2 DEF AcquireSlot, IInv, TypeOK, AgentTypeOK
    <2> QED
        BY <1>0, <1>1, <2>1 DEF InCustody, QueuedJobs, Reports
<1>3. ASSUME NEW o \in Outcomes, ReportResult(b, i, o)
      PROVE  InCustody(j, a)'
    <2>1. phase'[a][j] = phase[a][j] \/ (a = b /\ j = i)
        BY <1>3 DEF ReportResult, IInv, TypeOK, AgentTypeOK
    <2>2. CASE a # b
        <3>1. queue'[a] = queue[a]
            BY <1>3, <2>2 DEF ReportResult, IInv, TypeOK, AgentTypeOK
        <3> QED
            BY <1>0, <1>1, <2>1, <2>2, <3>1 DEF InCustody, QueuedJobs, Reports
    <2>3. CASE a = b
        <3> DEFINE r == [job |-> i, outcome |-> o]
        <3>1. queue[a] \in Seq(Report) /\ r \in Report /\ queue'[a] = Append(queue[a], r)
            BY <1>3, <2>3 DEF ReportResult, IInv, TypeOK, AgentTypeOK, Report
        <3>2. /\ Len(queue[a]) \in Nat /\ Len(queue'[a]) = Len(queue[a]) + 1
              /\ \A k \in 1..Len(queue[a]) : queue'[a][k] = queue[a][k]
              /\ queue'[a][Len(queue[a]) + 1] = r
            BY <3>1, AppendProperties
        <3>3. \A k \in 1..Len(queue[a]) : k \in 1..Len(queue'[a])
            BY <3>2
        <3>4. Reports(a) \subseteq Reports(a)'
            BY <3>2, <3>3 DEF Reports
        <3>5. r \in Reports(a)'
            <4>1. Len(queue[a]) + 1 \in 1..Len(queue'[a])
                BY <3>2
            <4> QED
                BY <3>2, <4>1 DEF Reports
        <3>6. i \in QueuedJobs(a)' /\ QueuedJobs(a) \subseteq QueuedJobs(a)'
            BY <3>4, <3>5 DEF QueuedJobs
        <3> QED
            BY <1>0, <1>1, <2>1, <3>6 DEF InCustody
    <2> QED
        BY <2>2, <2>3
<1> QED
    BY <1>2, <1>3 DEF JobStep

\* Every step keeps a RUNNING row in custody.
LEMMA CustodyKept ==
    ASSUME IInv, CarriedInv, [Next]_vars, NEW j \in Jobs, NEW a \in Agents,
           InCustody(j, a), result[j][a] = "RUNNING"
    PROVE  InCustody(j, a)'
<1> USE DEF IInv, TypeOK, ControlTypeOK
<1>0. UNCHANGED <<phase, queue, lost, pc, hAgent, hSel>> => InCustody(j, a)'
    BY CustodyFrame DEF Responding
<1>1. ASSUME NEW i \in Jobs, Request(i)
      PROVE  UNCHANGED <<phase, queue, lost, pc, hAgent, hSel>>
    BY <1>1 DEF Request, CreateJob, ApproveJob, CancelLoad, CancelCommit, handlerVars, agentVars, linkVars
<1>2. ASSUME NEW h \in Handlers, HandlerStep(h)
      PROVE  InCustody(j, a)'
    <2>1. ASSUME FlushResults(h) \/ (\E i \in Jobs : RecomputeRows(h, i)) \/ RecomputeJob(h)
                 \/ CommitResults(h) \/ MarkHeld(h) \/ MarkDispatched(h),
                 UNCHANGED <<agentVars, linkVars>>
          PROVE  InCustody(j, a)'
        <3>1. /\ pc[h] # "respond"
              /\ \A g \in Handlers \ {h} : pc'[g] = pc[g] /\ hAgent'[g] = hAgent[g] /\ hSel'[g] = hSel[g]
            BY <2>1 DEF FlushResults, RecomputeRows, RecomputeJob, CommitResults, MarkHeld, MarkDispatched
        <3> QED
            BY <2>1, <3>1, HandlerCustody
    <2>2. ASSUME NEW B, NEW F, SelectRound(h, B, F), UNCHANGED <<agentVars, linkVars>>
          PROVE  InCustody(j, a)'
        <3>1. /\ pc[h] # "respond"
              /\ \A g \in Handlers \ {h} : pc'[g] = pc[g] /\ hAgent'[g] = hAgent[g] /\ hSel'[g] = hSel[g]
            BY <2>2 DEF SelectRound
        <3> QED
            BY <2>2, <3>1, HandlerCustody
    <2>3. ASSUME NEW bad \in IF "refuse" \in Events THEN SUBSET Jobs ELSE {{}}, Deliver(h, bad)
          PROVE  InCustody(j, a)'
        BY <2>3, DeliverCustody
    <2>4. CASE DropResponse(h)
        BY <2>4, EndCustody DEF DropResponse, Respond, agentVars
    <2> QED
        BY <1>2, <2>1, <2>2, <2>3, <2>4 DEF HandlerStep
<1>3. ASSUME NEW h \in Handlers, Fail(h)
      PROVE  InCustody(j, a)'
    <2>1. UNCHANGED <<phase, queue>> /\ Finish(h) /\ pc[h] # "idle"
          /\ LoseJobs(IF pc[h] = "respond" THEN hSel[h] ELSE {}, hAgent[h])
        BY <1>3 DEF Fail, HandlerFail, HeartbeatError, agentVars
    <2> QED
        BY <2>1, EndCustody
<1>4. ASSUME NEW b \in Agents, AgentStep(b)
      PROVE  InCustody(j, a)'
    <2>1. ASSUME NEW h \in Handlers, SendHeartbeat(b, h)
          PROVE  InCustody(j, a)'
        <3>1. UNCHANGED <<phase, queue, lost>>
            BY <2>1 DEF SendHeartbeat, StartHeartbeat
        <3>2. \A g \in Handlers : Responding(g, j, a) => Responding(g, j, a)'
            BY <2>1 DEF SendHeartbeat, Receive, Responding
        <3> QED
            BY <3>1, <3>2, CustodyFrame
    <2>2. CASE HeartbeatFails(b)
        BY <1>0, <2>2 DEF HeartbeatFails, HeartbeatError, controlVars
    <2>3. CASE AgentRestart(b)
        <3>1. LoseJobs(InFlight(b) \cup QueuedJobs(b), b) /\ UNCHANGED controlVars
            BY <2>3 DEF AgentRestart
        <3>2. /\ lost[j][a] => lost'[j][a]
              /\ a = b /\ j \in InFlight(b) \cup QueuedJobs(b) => lost'[j][a]
            BY <3>1, LoseFacts
        <3>3. \A g \in Handlers : Responding(g, j, a) => Responding(g, j, a)'
            BY <3>1 DEF controlVars, Responding
        <3>4. CASE a = b
            BY <3>2, <3>3, <3>4 DEF InCustody, InFlight
        <3>5. CASE a # b
            <4>1. phase'[a] = phase[a] /\ queue'[a] = queue[a]
                BY <2>3, <3>5 DEF AgentRestart, Restart, AgentTypeOK
            <4> QED
                BY <3>2, <3>3, <4>1, CustodyFrame
        <3> QED
            BY <3>4, <3>5
    <2> QED
        BY <1>4, <2>1, <2>2, <2>3 DEF AgentStep
<1>5. ASSUME NEW b \in Agents, NEW i \in Jobs, JobStep(b, i)
      PROVE  InCustody(j, a)'
    BY <1>5, GoroutineCustody
<1>6. Clock \/ Sweep \/ UNCHANGED vars => UNCHANGED <<phase, queue, lost, pc, hAgent, hSel>>
    BY DEF Clock, HoldExpires, Sweep, SweepLoad, SweepCommit, SweepFail, handlerVars, agentVars, linkVars, vars
<1> QED
    BY <1>0, <1>1, <1>2, <1>3, <1>4, <1>5, <1>6 DEF Next

\* No work is lost in silence: a RUNNING row is in a response on its way, with a goroutine or
\* in a queue of unreported results, or a response or an agent process was lost, whatever
\* heartbeats fail, repeat or overtake each other.
THEOREM NothingLostSilently == Spec => []NoSilentLoss
<1>1. Init => CarriedInv /\ NoSilentLoss
    BY DEF Init, ControlInit, AgentInit, CarriedInv, NoSilentLoss, ABSENT
<1>2. IInv /\ CarriedInv /\ NoSilentLoss /\ [Next]_vars => CarriedInv' /\ NoSilentLoss'
    <2> SUFFICES ASSUME IInv, CarriedInv, NoSilentLoss, [Next]_vars PROVE CarriedInv' /\ NoSilentLoss'
        OBVIOUS
    <2>1. CarriedInv'
        BY NextInv, CarriedKept
    <2>2. ASSUME NEW j \in Jobs, NEW a \in Agents, result'[j][a] = "RUNNING"
          PROVE  InCustody(j, a)'
        <3>1. CASE result[j][a] = "RUNNING"
            BY <3>1, CustodyKept DEF NoSilentLoss
        <3>2. CASE result[j][a] # "RUNNING"
            BY <2>2, <3>2, ClaimedIsResponding DEF InCustody
        <3> QED
            BY <3>1, <3>2
    <2> QED
        BY <2>1, <2>2 DEF NoSilentLoss
<1> QED
    BY <1>1, <1>2, Invariance, PTL DEF Spec
=============================================================================
