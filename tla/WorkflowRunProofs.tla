------------------------ MODULE WorkflowRunProofs ------------------------
(***************************************************************************)
(* Two promises of the workflow engine, for every graph, any number of     *)
(* runs, steps, users and sessions, and whatever overlaps or dies: a gate  *)
(* holds, and a step never has two live jobs.                              *)
(***************************************************************************)
EXTENDS WorkflowRun, TLAPS, FiniteSetTheorems, SequenceTheorems, WellFoundedInduction

\* Run ids are numbers, a user has a name, and the steps form a list.
EngineAssumption ==
    /\ Runs \subseteq Nat
    /\ NoUser \notin Users
    /\ Len(Order) \in Nat

Statuses == {"PENDING", "RUNNING", "WAITING_APPROVAL", "SUCCEEDED", "FAILED", "SKIPPED", "CANCELLED"}
JobStatuses == Live \cup {"COMPLETED", "FAILED", "CANCELLED"}
Row  == [st : Statuses, job : Nat]
Rows == [Steps -> Row]

Fields == {"pc", "run", "todo", "seen", "base", "mem", "at", "blocked", "who", "gate"}

\* Statuses a step has or gets without ever having been taken up.
Untouched == {"PENDING", "SKIPPED", "CANCELLED"}

Cleared(r, g) == approver[r][g] \notin {NoUser, starter[r], Publisher}

\* Every gate the step x lies behind is cleared.
Earned(r, x) == \A g \in Steps : Kind[g] = "approval" /\ x \in Past(g) => Cleared(r, g)

\* A step has been taken up only behind cleared gates, and a gate succeeds only by being cleared.
RowOK(r, x, st) ==
    /\ st \notin Untouched => Earned(r, x)
    /\ Kind[x] = "approval" => st # "RUNNING" /\ (st = "SUCCEEDED" => Cleared(r, x))

RowsOK(r, rows) == rows \in Rows /\ \A x \in Steps : RowOK(r, x, rows[x].st)

Started(r) == r \in Runs /\ run[r] # "NONE"

\* What an open session has read, and what it has checked on the way to where it is, still holds.
SessionOK(e) ==
    /\ DOMAIN e = Fields
    /\ e.pc \in {"idle", "next", "sync", "walk", "insert", "approve", "reject", "cancel"}
    /\ \A r \in e.todo : Started(r)
    /\ e.pc = "next" => e.todo # {}
    /\ e.pc \notin {"idle", "next"} => Started(e.run) /\ RowsOK(e.run, e.mem)
    /\ e.pc \in {"walk", "insert"} => e.at \in Nat \ {0}
    /\ e.pc = "insert" => /\ e.at <= Len(Order) /\ Kind[Order[e.at]] \in JobKinds
                          /\ Ready(e.mem, Order[e.at])
    /\ e.pc \in {"approve", "reject"} => e.gate \in Steps /\ e.mem[e.gate].st = "WAITING_APPROVAL"
    /\ e.pc = "approve" => e.who \notin {NoUser, starter[e.run], Publisher}

SessionsOK == DOMAIN sess = Sessions /\ \A s \in Sessions : SessionOK(sess[s])

StoreTypeOK ==
    /\ DOMAIN run = Runs
    /\ DOMAIN starter = Runs
    /\ DOMAIN step = Runs
    /\ DOMAIN approver = Runs /\ \A r \in Runs : DOMAIN approver[r] = Steps
    /\ jobs \in [Runs -> [Steps -> Seq(JobStatuses)]]

StepsOK == \A r \in Runs : RowsOK(r, step[r])

JobsOK == \A r \in Runs, x \in Steps : jobs[r][x] # << >> => Earned(r, x)

ApproversOK == \A r \in Runs, x \in Steps : approver[r][x] # NoUser => run[r] # "NONE"

\* The partial unique index on dedup_key.
KeyIndex ==
    \A r \in Runs, x \in Steps : \A n, m \in 1..Len(jobs[r][x]) :
        jobs[r][x][n] \in Live /\ jobs[r][x][m] \in Live => n = m

StoreOK == StoreTypeOK /\ StepsOK /\ JobsOK /\ ApproversOK /\ KeyIndex

EngineInv == StoreOK /\ SessionsOK

-----------------------------------------------------------------------------
(* Gates and the steps behind them.                                         *)

\* What a gate holds back, it holds back together.
LEMMA PastIsGuarded ==
    ASSUME NEW g, NEW x \in Past(g), NEW e \in Incoming(x)
    PROVE  \/ e.from = g /\ e.on = "success"
           \/ e.from \in Past(g) /\ e.on # "always"
<1>1. PICK S \in SUBSET Steps : Guarded(S, g) /\ x \in S
    BY DEF Past
<1>2. \/ e.from = g /\ e.on = "success"
      \/ e.from \in S /\ e.on # "always"
    BY <1>1 DEF Guarded
<1>3. S \subseteq Past(g)
    BY <1>1 DEF Past
<1> QED
    BY <1>2, <1>3

LEMMA PastIsEntered ==
    ASSUME NEW g, NEW x \in Past(g)
    PROVE  x \in Steps /\ Incoming(x) # {}
BY DEF Past, Guarded

\* advance_run finds a step ready only when every gate it lies behind is cleared: a match out of the
\* gate or out of a step behind it says so.
LEMMA ReadyIsEarned ==
    ASSUME NEW r, NEW mem, RowsOK(r, mem), NEW x \in Steps, Ready(mem, x)
    PROVE  Earned(r, x)
<1> SUFFICES ASSUME NEW g \in Steps, Kind[g] = "approval", x \in Past(g) PROVE Cleared(r, g)
    BY DEF Earned
<1>1. PICK e \in Incoming(x) : Matches(mem, e)
    BY PastIsEntered DEF Ready
<1>2. CASE e.from = g /\ e.on = "success"
    BY <1>1, <1>2 DEF Matches, RowsOK, RowOK
<1>3. CASE e.from \in Past(g) /\ e.on # "always"
  <2>1. e.from \in Steps
      BY <1>3, PastIsEntered
  <2>2. mem[e.from].st \notin Untouched
      BY <1>1, <1>3 DEF Matches, Untouched
  <2>3. Earned(r, e.from)
      BY <2>1, <2>2 DEF RowsOK, RowOK
  <2> QED
      BY <1>3, <2>3 DEF Earned
<1> QED
    BY <1>2, <1>3, PastIsGuarded

-----------------------------------------------------------------------------
(* What stays true of rows and sessions while others commit.                *)

\* Runs stay started by whoever started them, and gates stay cleared.
Growth ==
    \A r \in Runs :
        /\ run[r] # "NONE" => run'[r] # "NONE" /\ starter'[r] = starter[r]
        /\ \A g \in Steps : Cleared(r, g) => Cleared(r, g)'

LEMMA RowStays ==
    ASSUME Growth, NEW r \in Runs, NEW x \in Steps, NEW st, RowOK(r, x, st)
    PROVE  RowOK(r, x, st)'
<1>1. Earned(r, x) => Earned(r, x)'
    BY DEF Growth, Earned
<1> QED
    BY <1>1 DEF Growth, RowOK

LEMMA RowsStay ==
    ASSUME Growth, NEW r \in Runs, NEW rows, RowsOK(r, rows)
    PROVE  RowsOK(r, rows)'
<1>1. rows \in Rows /\ \A x \in Steps : RowOK(r, x, rows[x].st)
    BY DEF RowsOK
<1>2. ASSUME NEW x \in Steps PROVE RowOK(r, x, rows[x].st)'
  <2>1. PICK st : st = rows[x].st
      OBVIOUS
  <2>2. RowOK(r, x, st)
      BY <1>1, <2>1
  <2>3. RowOK(r, x, st)'
      BY <2>2, RowStays
  <2> QED
      BY <2>1, <2>3
<1> QED
    BY <1>1, <1>2 DEF RowsOK

LEMMA SessionStays ==
    ASSUME Growth, NEW e, SessionOK(e)
    PROVE  SessionOK(e)'
<1>1. \A r : Started(r) => Started(r)'
    BY DEF Growth, Started
<1>2. ASSUME e.pc \notin {"idle", "next"}
      PROVE  Started(e.run)' /\ RowsOK(e.run, e.mem)' /\ starter'[e.run] = starter[e.run]
  <2>1. Started(e.run) /\ RowsOK(e.run, e.mem) /\ e.run \in Runs
      BY <1>2 DEF SessionOK, Started
  <2>2. starter'[e.run] = starter[e.run]
      BY <2>1 DEF Growth, Started
  <2>3. RowsOK(e.run, e.mem)'
      BY <2>1, RowsStay
  <2> QED
      BY <1>1, <2>1, <2>2, <2>3
<1> QED
    BY <1>1, <1>2 DEF SessionOK

\* One session moves on to f; the others are where they were.
LEMMA SessionStep ==
    ASSUME SessionsOK, Growth, NEW s \in Sessions, NEW f, sess'[s] = f,
           DOMAIN sess' = Sessions, \A q \in Sessions \ {s} : sess'[q] = sess[q],
           SessionOK(f)'
    PROVE  SessionsOK'
<1>1. ASSUME NEW q \in Sessions PROVE SessionOK(sess[q])'
  <2>1. PICK e : e = sess'[q]
      OBVIOUS
  <2>2. SessionOK(e)'
      <3>1. CASE q = s
          BY <2>1, <3>1
      <3>2. CASE q # s
        <4>1. SessionOK(e)
            BY <2>1, <3>2 DEF SessionsOK
        <4> QED
            BY <4>1, SessionStays
      <3> QED
          BY <3>1, <3>2
  <2> QED
      BY <2>1, <2>2
<1> QED
    BY <1>1 DEF SessionsOK

LEMMA ClosedIsOK == SessionOK(Closed)
<1>1. DOMAIN Closed = Fields /\ Closed.pc = "idle" /\ Closed.todo = {}
    BY DEF Closed, Fields
<1> QED
    BY <1>1 DEF SessionOK

\* A step that leaves the tables alone.
LEMMA StoreStays ==
    ASSUME StoreOK, UNCHANGED <<run, starter, step, jobs, approver>>
    PROVE  StoreOK' /\ Growth
<1>1. Growth
    BY DEF Growth, Cleared
<1>2. StoreTypeOK' /\ ApproversOK' /\ KeyIndex'
    BY DEF StoreOK, StoreTypeOK, ApproversOK, KeyIndex
<1>3. StepsOK'
    BY DEF StoreOK, StepsOK, RowsOK, RowOK, Earned, Cleared
<1>4. JobsOK'
    BY DEF StoreOK, JobsOK, Earned, Cleared
<1> QED
    BY <1>1, <1>2, <1>3, <1>4 DEF StoreOK

LEMMA SessionAlone ==
    ASSUME EngineInv, UNCHANGED <<run, starter, step, jobs, approver>>,
           NEW s \in Sessions, NEW f, sess'[s] = f, DOMAIN sess' = Sessions,
           \A q \in Sessions \ {s} : sess'[q] = sess[q], SessionOK(f)
    PROVE  EngineInv'
<1>1. StoreOK' /\ Growth
    BY StoreStays DEF EngineInv
<1>2. SessionOK(f)'
    BY <1>1, SessionStays
<1>3. SessionsOK'
    BY <1>1, <1>2, SessionStep DEF EngineInv
<1> QED
    BY <1>1, <1>3 DEF EngineInv

\* The session ends in a step that leaves the rest of the invariant true.
LEMMA SessionCloses ==
    ASSUME EngineInv, Growth, StoreOK', NEW s \in Sessions, Close(s)
    PROVE  EngineInv'
<1>1. PICK f : f = Closed
    OBVIOUS
<1>2. DOMAIN sess' = Sessions /\ sess'[s] = f /\ \A q \in Sessions \ {s} : sess'[q] = sess[q]
    BY <1>1 DEF Close, EngineInv, SessionsOK
<1>3. SessionOK(f)'
    BY <1>1, ClosedIsOK, SessionStays
<1>4. SessionsOK'
    BY <1>2, <1>3, SessionStep DEF EngineInv
<1> QED
    BY <1>4 DEF EngineInv

LEMMA Quits ==
    ASSUME EngineInv, UNCHANGED <<run, starter, step, jobs, approver>>, NEW s \in Sessions, Close(s)
    PROVE  EngineInv'
<1>1. StoreOK' /\ Growth
    BY StoreStays DEF EngineInv
<1> QED
    BY <1>1, SessionCloses

-----------------------------------------------------------------------------
(* Rows in memory and rows committed.                                       *)

LEMMA WrittenShape ==
    ASSUME NEW rows \in Rows, NEW base, NEW mem \in Rows
    PROVE  /\ Written(rows, base, mem) \in Rows
           /\ \A x \in Steps : \/ Written(rows, base, mem)[x].st = mem[x].st
                               \/ Written(rows, base, mem)[x].st = rows[x].st
<1>1. \A x \in Steps : mem[x] \in Row /\ rows[x] \in Row
    BY DEF Rows
<1>2. \A x \in Steps : mem[x].st \in Statuses /\ mem[x].job \in Nat
                       /\ rows[x].st \in Statuses /\ rows[x].job \in Nat
    BY <1>1 DEF Row
<1>3. Written(rows, base, mem) \in Rows
    BY <1>2 DEF Written, Rows, Row
<1>4. \A x \in Steps : \/ Written(rows, base, mem)[x].st = mem[x].st
                        \/ Written(rows, base, mem)[x].st = rows[x].st
    BY DEF Written
<1> QED
    BY <1>3, <1>4

\* One step gets a status in memory.
LEMMA RowSet ==
    ASSUME NEW r, NEW mem, RowsOK(r, mem), NEW x \in Steps, NEW v \in Statuses, RowOK(r, x, v)
    PROVE  RowsOK(r, [mem EXCEPT ![x].st = v])
<1> DEFINE new == [mem EXCEPT ![x].st = v]
<1>1. mem \in Rows /\ \A y \in Steps : mem[y] \in Row
    BY DEF RowsOK, Rows
<1>2. [mem[x] EXCEPT !.st = v] \in Row /\ [mem[x] EXCEPT !.st = v].st = v
    BY <1>1 DEF Row
<1>3. new = [mem EXCEPT ![x] = [mem[x] EXCEPT !.st = v]]
    OBVIOUS
<1>4. new \in Rows /\ new[x].st = v /\ \A y \in Steps \ {x} : new[y] = mem[y]
    BY <1>1, <1>2, <1>3 DEF Rows
<1> HIDE DEF new
<1>5. \A y \in Steps : RowOK(r, y, new[y].st)
    BY <1>4 DEF RowsOK
<1>6. RowsOK(r, new)
    BY <1>4, <1>5 DEF RowsOK
<1> QED
    BY <1>6 DEF new

\* A commit of rows of run r.
LEMMA StepsWritten ==
    ASSUME StoreOK, Growth, NEW r \in Runs, NEW new, RowsOK(r, new)', step' = [step EXCEPT ![r] = new]
    PROVE  StepsOK' /\ DOMAIN step' = Runs
<1>1. DOMAIN step = Runs
    BY DEF StoreOK, StoreTypeOK
<1>2. ASSUME NEW q \in Runs PROVE RowsOK(q, step[q])'
  <2>1. PICK rows : rows = step'[q]
      OBVIOUS
  <2>2. CASE q = r
    <3>1. rows = new
        BY <1>1, <2>1, <2>2
    <3> QED
        BY <3>1, <2>1, <2>2
  <2>3. CASE q # r
    <3>1. rows = step[q]
        BY <1>1, <2>1, <2>3
    <3>2. RowsOK(q, rows)
        BY <3>1 DEF StoreOK, StepsOK
    <3>3. RowsOK(q, rows)'
        BY <3>2, RowsStay
    <3> QED
        BY <3>3, <2>1
  <2> QED
      BY <2>2, <2>3
<1> QED
    BY <1>1, <1>2 DEF StepsOK

LEMMA StepsKeep ==
    ASSUME StoreOK, Growth, UNCHANGED step
    PROVE  StepsOK'
<1> SUFFICES ASSUME NEW q \in Runs PROVE RowsOK(q, step[q])'
    BY DEF StepsOK
<1>1. PICK rows : rows = step[q]
    OBVIOUS
<1>2. RowsOK(q, rows)'
    BY <1>1, RowsStay DEF StoreOK, StepsOK
<1> QED
    BY <1>1, <1>2

LEMMA JobsKeep ==
    ASSUME StoreOK, Growth, UNCHANGED jobs
    PROVE  JobsOK' /\ KeyIndex' /\ jobs' \in [Runs -> [Steps -> Seq(JobStatuses)]]
<1>1. \A r \in Runs, x \in Steps : Earned(r, x) => Earned(r, x)'
    BY DEF Growth, Earned
<1>2. JobsOK'
    BY <1>1 DEF StoreOK, JobsOK
<1> QED
    BY <1>2 DEF StoreOK, StoreTypeOK, KeyIndex

-----------------------------------------------------------------------------
(* Requests and ticks that open a session.                                  *)

LEMMA StartRunKeeps ==
    ASSUME EngineInv, NEW s \in Sessions, NEW r \in Runs, NEW u \in Users, NEW d \in BOOLEAN,
           StartRun(s, r, u, d)
    PROVE  EngineInv'
<1>1. DOMAIN run = Runs /\ DOMAIN starter = Runs /\ run[r] = "NONE" /\ UNCHANGED <<step, jobs, approver>>
    BY DEF EngineInv, StoreOK, StoreTypeOK, StartRun
<1>2. /\ DOMAIN run' = Runs /\ run'[r] = "RUNNING" /\ \A q \in Runs \ {r} : run'[q] = run[q]
      /\ DOMAIN starter' = Runs /\ \A q \in Runs \ {r} : starter'[q] = starter[q]
    BY <1>1 DEF StartRun
<1>3. \A g \in Steps : ~Cleared(r, g)
    BY <1>1 DEF EngineInv, StoreOK, ApproversOK, Cleared
<1>4. Growth
    BY <1>1, <1>2, <1>3 DEF Growth, Cleared
<1>5. StoreTypeOK' /\ ApproversOK'
    BY <1>1, <1>2 DEF EngineInv, StoreOK, StoreTypeOK, ApproversOK
<1>6. JobsOK' /\ KeyIndex'
    BY <1>1, <1>4, JobsKeep DEF EngineInv
<1>7. StepsOK'
    BY <1>1, <1>4, StepsKeep DEF EngineInv
<1>8. StoreOK'
    BY <1>5, <1>6, <1>7 DEF StoreOK
<1>9. SessionsOK'
  <2>1. CASE sess' = sess
    <3>1. PICK f : f = sess[s]
        OBVIOUS
    <3>2. SessionOK(f)'
        BY <1>4, <3>1, SessionStays DEF EngineInv, SessionsOK
    <3>3. DOMAIN sess' = Sessions /\ sess'[s] = f /\ \A q \in Sessions \ {s} : sess'[q] = sess[q]
        BY <2>1, <3>1 DEF EngineInv, SessionsOK
    <3> QED
        BY <1>4, <3>2, <3>3, SessionStep DEF EngineInv
  <2>2. CASE sess' = [sess EXCEPT ![s] = [Closed EXCEPT !.pc = "sync", !.run = r, !.seen = "RUNNING"]]
    <3>1. PICK f : f = [Closed EXCEPT !.pc = "sync", !.run = r, !.seen = "RUNNING"]
        OBVIOUS
    <3>2. DOMAIN sess' = Sessions /\ sess'[s] = f /\ \A q \in Sessions \ {s} : sess'[q] = sess[q]
        BY <2>2, <3>1 DEF EngineInv, SessionsOK
    <3>3. DOMAIN f = Fields /\ f.pc = "sync" /\ f.run = r /\ f.todo = {} /\ f.mem = Fresh
        BY <3>1 DEF Closed, Fields
    <3>4. Fresh \in Rows /\ \A x \in Steps : Fresh[x].st = "PENDING"
        BY DEF Fresh, Rows, Row, Statuses
    <3>5. RowsOK(r, Fresh)'
        BY <3>4 DEF RowsOK, RowOK, Untouched
    <3>6. Started(r)'
        BY <1>2 DEF Started
    <3>7. SessionOK(f)'
        BY <3>3, <3>5, <3>6 DEF SessionOK
    <3> QED
        BY <1>4, <3>2, <3>7, SessionStep DEF EngineInv
  <2> QED
      BY <2>1, <2>2 DEF StartRun
<1> QED
    BY <1>8, <1>9 DEF EngineInv

LEMMA TickLoadKeeps ==
    ASSUME EngineInv, NEW s \in Sessions, TickLoad(s)
    PROVE  EngineInv'
<1>1. PICK T : T = {r \in Runs : run[r] = "RUNNING"}
    OBVIOUS
<1>2. PICK f : f = [Closed EXCEPT !.pc = "next", !.todo = T]
    OBVIOUS
<1>3. DOMAIN sess' = Sessions /\ sess'[s] = f /\ \A q \in Sessions \ {s} : sess'[q] = sess[q]
    BY <1>1, <1>2 DEF TickLoad, EngineInv, SessionsOK
<1>4. DOMAIN f = Fields /\ f.pc = "next" /\ f.todo = T
    BY <1>2 DEF Closed, Fields
<1>5. T # {} /\ \A r \in T : Started(r)
    BY <1>1 DEF TickLoad, Started
<1>6. SessionOK(f)
    BY <1>4, <1>5 DEF SessionOK
<1>7. UNCHANGED <<run, starter, step, jobs, approver>>
    BY DEF TickLoad
<1> QED
    BY <1>3, <1>6, <1>7, SessionAlone

\* A set of run ids has a first one.
LEMMA FirstRun ==
    ASSUME NEW T \in SUBSET Nat, T # {}
    PROVE  \E i \in T : \A j \in T : i <= j
<1>1. IsWellFoundedOn(OpToRel(<, Nat), Nat)
    BY NatLessThanWellFounded
<1>2. PICK i \in T : \A j \in T : ~(<<j, i>> \in OpToRel(<, Nat))
    BY <1>1, WFMin
<1>3. \A j \in T : ~(j < i)
    BY <1>2 DEF OpToRel
<1> QED
    BY <1>3

LEMMA AdvanceLoadKeeps ==
    ASSUME EngineAssumption, EngineInv, NEW s \in Sessions, AdvanceLoad(s)
    PROVE  EngineInv'
<1>1. PICK e : e = sess[s]
    OBVIOUS
<1>2. SessionOK(e) /\ DOMAIN e = Fields /\ e.pc = "next" /\ DOMAIN sess = Sessions
    BY <1>1 DEF EngineInv, SessionsOK, SessionOK, AdvanceLoad
<1>3. e.todo # {} /\ e.todo \subseteq Runs /\ \A q \in e.todo : Started(q)
    BY <1>2 DEF SessionOK, Started
<1>4. PICK r : r = CHOOSE i \in e.todo : \A j \in e.todo : i <= j
    OBVIOUS
<1>5. r \in e.todo
  <2>1. e.todo \in SUBSET Nat
      BY <1>3 DEF EngineAssumption
  <2>2. \E i \in e.todo : \A j \in e.todo : i <= j
      BY <1>3, <2>1, FirstRun
  <2> QED
      BY <1>4, <2>2
<1>6. PICK f : f = sess'[s]
    OBVIOUS
<1>7. DOMAIN sess' = Sessions /\ \A q \in Sessions \ {s} : sess'[q] = sess[q]
    BY <1>2 DEF AdvanceLoad
<1>8. /\ DOMAIN f = Fields /\ f.pc = "sync" /\ f.run = r /\ f.todo = e.todo \ {r}
      /\ f.mem = step[r]
    BY <1>1, <1>2, <1>4, <1>6 DEF AdvanceLoad, Fields
<1>9. RowsOK(r, step[r]) /\ Started(r)
    BY <1>3, <1>5 DEF EngineInv, StoreOK, StepsOK
<1>10. SessionOK(f)
    BY <1>3, <1>8, <1>9 DEF SessionOK
<1>11. UNCHANGED <<run, starter, step, jobs, approver>>
    BY DEF AdvanceLoad
<1> QED
    BY <1>6, <1>7, <1>10, <1>11, SessionAlone

\* approve, reject and cancel go on with the rows they have read.
LEMMA LoadKeeps ==
    ASSUME EngineInv, NEW s \in Sessions, NEW r \in Runs, NEW x, NEW u,
           NEW what \in {"approve", "reject", "cancel"}, Load(s, r, x, u, what),
           what # "cancel" => x \in Steps /\ step[r][x].st = "WAITING_APPROVAL",
           what = "approve" => u \notin {NoUser, starter[r], Publisher}
    PROVE  EngineInv'
<1>1. PICK f : f = [Closed EXCEPT !.pc = what, !.run = r, !.seen = run[r],
                                  !.base = step[r], !.mem = step[r], !.gate = x, !.who = u]
    OBVIOUS
<1>2. DOMAIN sess' = Sessions /\ sess'[s] = f /\ \A q \in Sessions \ {s} : sess'[q] = sess[q]
    BY <1>1 DEF Load, EngineInv, SessionsOK
<1>3. /\ DOMAIN f = Fields /\ f.pc = what /\ f.run = r /\ f.todo = {} /\ f.mem = step[r]
      /\ f.gate = x /\ f.who = u
    BY <1>1 DEF Closed, Fields
<1>4. RowsOK(r, step[r]) /\ Started(r)
    BY DEF EngineInv, StoreOK, StepsOK, Started, Load
<1>5. SessionOK(f)
    BY <1>3, <1>4 DEF SessionOK
<1>6. UNCHANGED <<run, starter, step, jobs, approver>>
    BY DEF Load
<1> QED
    BY <1>2, <1>5, <1>6, SessionAlone

LEMMA RequestKeeps ==
    ASSUME EngineAssumption, EngineInv, NEW s \in Sessions, Request(s)
    PROVE  EngineInv'
<1>1. PICK r \in Runs :
        \/ \E u \in Users, d \in BOOLEAN : StartRun(s, r, u, d)
        \/ \E x \in Steps, u \in Users : ApproveLoad(s, r, x, u)
        \/ \E x \in Steps, u \in Users : RejectLoad(s, r, x, u)
        \/ \E u \in Users : CancelLoad(s, r, u)
    BY DEF Request
<1>2. ASSUME NEW u \in Users, NEW d \in BOOLEAN, StartRun(s, r, u, d) PROVE EngineInv'
    BY <1>2, StartRunKeeps
<1>3. ASSUME NEW x \in Steps, NEW u \in Users, ApproveLoad(s, r, x, u) PROVE EngineInv'
  <2>1. u \notin {NoUser, starter[r], Publisher} /\ step[r][x].st = "WAITING_APPROVAL"
      BY <1>3 DEF ApproveLoad, MayApprove, EngineAssumption
  <2>2. Load(s, r, x, u, "approve")
      BY <1>3 DEF ApproveLoad
  <2> QED
      BY <2>1, <2>2, LoadKeeps
<1>4. ASSUME NEW x \in Steps, NEW u \in Users, RejectLoad(s, r, x, u) PROVE EngineInv'
  <2>1. step[r][x].st = "WAITING_APPROVAL" /\ Load(s, r, x, u, "reject")
      BY <1>4 DEF RejectLoad
  <2> QED
      BY <2>1, LoadKeeps
<1>5. ASSUME NEW u \in Users, CancelLoad(s, r, u) PROVE EngineInv'
  <2>1. Load(s, r, Order[1], u, "cancel")
      BY <1>5 DEF CancelLoad
  <2> QED
      BY <2>1, LoadKeeps
<1> QED
    BY <1>1, <1>2, <1>3, <1>4, <1>5

-----------------------------------------------------------------------------
(* advance_run.                                                             *)

LEMMA SessionRead ==
    ASSUME EngineInv, NEW s \in Sessions
    PROVE  SessionOK(sess[s]) /\ DOMAIN sess[s] = Fields /\ DOMAIN sess = Sessions
BY DEF EngineInv, SessionsOK, SessionOK

LEMMA SyncKeeps ==
    ASSUME EngineInv, NEW s \in Sessions, Sync(s)
    PROVE  EngineInv'
<1>1. PICK e : e = sess[s]
    OBVIOUS
<1>2. SessionOK(e) /\ DOMAIN e = Fields /\ e.pc = "sync" /\ DOMAIN sess = Sessions
    BY <1>1, SessionRead DEF Sync
<1>3. Started(e.run) /\ RowsOK(e.run, e.mem)
    BY <1>2 DEF SessionOK
<1>4. PICK poll \in [{x \in Steps : Kind[x] = "wait"} -> {"RUNNING", "SUCCEEDED", "FAILED"}] :
        sess' = [sess EXCEPT ![s].pc = "walk", ![s].at = 1,
                   ![s].mem = [x \in Steps |->
                      [@[x] EXCEPT !.st = Synced(sess[s].run, x, sess[s].mem[x], poll)]]]
    BY DEF Sync
<1>5. PICK mem : mem = [x \in Steps |-> [e.mem[x] EXCEPT !.st = Synced(e.run, x, e.mem[x], poll)]]
    OBVIOUS
<1>6. ASSUME NEW x \in Steps
      PROVE  mem[x] \in Row /\ RowOK(e.run, x, mem[x].st)
  <2>1. PICK row : row = e.mem[x]
      OBVIOUS
  <2>2. row \in Row /\ RowOK(e.run, x, row.st)
      BY <1>3, <2>1 DEF RowsOK, Rows
  <2>3. PICK v : v = Synced(e.run, x, row, poll)
      OBVIOUS
  <2>4. row.st # "RUNNING" => v = row.st
      BY <2>3 DEF Synced
  <2>5. row.st = "RUNNING" => v \in {"RUNNING", "SUCCEEDED", "FAILED"}
      BY <2>3 DEF Synced
  <2>6. row.st \in Statuses
      BY <2>2 DEF Row
  <2>7. v \in Statuses
      BY <2>4, <2>5, <2>6 DEF Statuses
  <2>8. mem[x] = [row EXCEPT !.st = v]
      BY <1>5, <2>1, <2>3
  <2>9. mem[x] \in Row /\ mem[x].st = v
      BY <2>2, <2>7, <2>8 DEF Row
  <2>10. RowOK(e.run, x, v)
      BY <2>2, <2>4, <2>5 DEF RowOK, Untouched
  <2> QED
      BY <2>9, <2>10
<1>7. mem \in Rows
    BY <1>5, <1>6 DEF Rows
<1>8. RowsOK(e.run, mem)
    BY <1>6, <1>7 DEF RowsOK
<1>9. PICK f : f = sess'[s]
    OBVIOUS
<1>10. DOMAIN sess' = Sessions /\ \A q \in Sessions \ {s} : sess'[q] = sess[q]
    BY <1>2, <1>4
<1>11. /\ DOMAIN f = Fields /\ f.pc = "walk" /\ f.run = e.run /\ f.todo = e.todo
       /\ f.at = 1 /\ f.mem = mem
    BY <1>1, <1>2, <1>4, <1>5, <1>9 DEF Fields
<1>12. SessionOK(f)
    BY <1>2, <1>3, <1>8, <1>11 DEF SessionOK
<1>13. UNCHANGED <<run, starter, step, jobs, approver>>
    BY DEF Sync
<1> QED
    BY <1>9, <1>10, <1>12, <1>13, SessionAlone

\* The walk goes on at the next step with rows that are in order.
LEMMA Walks ==
    ASSUME NEW e, NEW f, SessionOK(e), e.pc \in {"walk", "insert"}, DOMAIN f = Fields, f.pc = "walk",
           f.run = e.run, f.todo = e.todo, f.at = e.at + 1, RowsOK(e.run, f.mem)
    PROVE  SessionOK(f)
<1>1. e.at \in Nat \ {0} /\ Started(e.run) /\ \A r \in e.todo : Started(r)
    BY DEF SessionOK
<1>2. f.at \in Nat \ {0}
    BY <1>1
<1> QED
    BY <1>1, <1>2 DEF SessionOK

LEMMA HereIsAStep ==
    ASSUME EngineAssumption, EngineInv, NEW s \in Sessions, Walking(s)
    PROVE  /\ Here(s) \in Steps /\ sess[s].pc = "walk" /\ Started(sess[s].run)
           /\ RowsOK(sess[s].run, sess[s].mem)
<1>1. SessionOK(sess[s]) /\ sess[s].pc = "walk" /\ sess[s].at <= Len(Order)
    BY SessionRead DEF Walking
<1>2. sess[s].at \in Nat \ {0} /\ Started(sess[s].run) /\ RowsOK(sess[s].run, sess[s].mem)
    BY <1>1 DEF SessionOK
<1>3. sess[s].at \in 1..Len(Order)
    BY <1>1, <1>2 DEF EngineAssumption
<1> QED
    BY <1>1, <1>2, <1>3 DEF Here, Steps

LEMMA PassOverKeeps ==
    ASSUME EngineAssumption, EngineInv, NEW s \in Sessions, PassOver(s)
    PROVE  EngineInv'
<1>1. PICK e : e = sess[s]
    OBVIOUS
<1>2. SessionOK(e) /\ DOMAIN e = Fields /\ e.pc = "walk" /\ DOMAIN sess = Sessions /\ RowsOK(e.run, e.mem)
    BY <1>1, SessionRead, HereIsAStep DEF PassOver
<1>3. PICK f : f = sess'[s]
    OBVIOUS
<1>4. DOMAIN sess' = Sessions /\ \A q \in Sessions \ {s} : sess'[q] = sess[q]
    BY <1>2 DEF PassOver, Onward
<1>5. /\ DOMAIN f = Fields /\ f.pc = "walk" /\ f.run = e.run /\ f.todo = e.todo
      /\ f.at = e.at + 1 /\ f.mem = e.mem
    BY <1>1, <1>2, <1>3 DEF PassOver, Onward, Fields
<1>6. SessionOK(f)
    BY <1>2, <1>5, Walks
<1>7. UNCHANGED <<run, starter, step, jobs, approver>>
    BY DEF PassOver
<1> QED
    BY <1>3, <1>4, <1>6, <1>7, SessionAlone

LEMMA DecideStepKeeps ==
    ASSUME EngineAssumption, EngineInv, NEW s \in Sessions, DecideStep(s)
    PROVE  EngineInv'
<1>1. PICK e, x : e = sess[s] /\ x = Here(s)
    OBVIOUS
<1>2. SessionOK(e) /\ DOMAIN e = Fields /\ e.pc = "walk" /\ DOMAIN sess = Sessions
    BY <1>1, SessionRead, HereIsAStep DEF DecideStep
<1>3. RowsOK(e.run, e.mem) /\ x \in Steps
    BY <1>1, HereIsAStep DEF DecideStep
<1>4. PICK v \in IF Ready(sess[s].mem, Here(s)) /\ Here(s) \notin Disabled
                 THEN InlineOutcomes(Kind[Here(s)]) ELSE {"SKIPPED"} :
        sess' = [Onward(s, [sess[s].mem EXCEPT ![Here(s)].st = v])
                   EXCEPT ![s].blocked = @ \/ v = "WAITING_APPROVAL"]
    BY DEF DecideStep
<1>5. \/ v = "SKIPPED"
      \/ Ready(e.mem, x) /\ v \in InlineOutcomes(Kind[x])
    BY <1>1, <1>4
<1>6. v \in Statuses /\ RowOK(e.run, x, v)
  <2>1. CASE v = "SKIPPED"
      BY <2>1 DEF RowOK, Untouched, Statuses
  <2>2. CASE Ready(e.mem, x) /\ v \in InlineOutcomes(Kind[x])
    <3>1. Earned(e.run, x)
        BY <1>3, <2>2, ReadyIsEarned
    <3>2. PICK k : k = Kind[x]
        OBVIOUS
    <3>3. v \in {"SUCCEEDED", "FAILED", "WAITING_APPROVAL", "RUNNING"}
        BY <2>2, <3>2 DEF InlineOutcomes
    <3>4. k = "approval" => v = "WAITING_APPROVAL"
        BY <2>2, <3>2 DEF InlineOutcomes
    <3> QED
        BY <3>1, <3>2, <3>3, <3>4 DEF RowOK, Statuses
  <2> QED
      BY <1>5, <2>1, <2>2
<1>7. PICK mem : mem = [e.mem EXCEPT ![x].st = v]
    OBVIOUS
<1>8. RowsOK(e.run, mem)
    BY <1>3, <1>6, <1>7, RowSet
<1>9. PICK k : k = (sess[s].blocked \/ v = "WAITING_APPROVAL")
    OBVIOUS
<1>10. PICK t : t = [sess EXCEPT ![s].mem = mem, ![s].at = @ + 1]
    OBVIOUS
<1>11. /\ DOMAIN t = Sessions /\ \A q \in Sessions \ {s} : t[q] = sess[q]
       /\ DOMAIN t[s] = Fields /\ t[s].pc = "walk" /\ t[s].run = e.run /\ t[s].todo = e.todo
       /\ t[s].at = e.at + 1 /\ t[s].mem = mem /\ t[s].blocked = sess[s].blocked
    BY <1>1, <1>2, <1>10 DEF Fields
<1>12. sess' = [t EXCEPT ![s].blocked = k]
  <2>1. t = Onward(s, [sess[s].mem EXCEPT ![Here(s)].st = v])
      BY <1>1, <1>7, <1>10 DEF Onward
  <2>2. sess' = [t EXCEPT ![s].blocked = (t[s].blocked \/ v = "WAITING_APPROVAL")]
      BY <1>4, <2>1
  <2> QED
      BY <1>9, <1>11, <2>2
<1>13. PICK f : f = sess'[s]
    OBVIOUS
<1>14. /\ DOMAIN sess' = Sessions /\ \A q \in Sessions \ {s} : sess'[q] = sess[q]
       /\ DOMAIN f = Fields /\ f.pc = "walk" /\ f.run = e.run /\ f.todo = e.todo
       /\ f.at = e.at + 1 /\ f.mem = mem
    BY <1>11, <1>12, <1>13 DEF Fields
<1>15. SessionOK(f)
    BY <1>2, <1>8, <1>14, Walks
<1>16. UNCHANGED <<run, starter, step, jobs, approver>>
    BY DEF DecideStep
<1> QED
    BY <1>13, <1>14, <1>15, <1>16, SessionAlone

\* A commit of what the session has in memory, whatever it has changed since it read.
LEMMA CommitKeepsSteps ==
    ASSUME StoreOK, Growth, NEW r \in Runs, NEW base, NEW mem, RowsOK(r, mem)',
           step' = [step EXCEPT ![r] = Written(@, base, mem)]
    PROVE  StepsOK' /\ DOMAIN step' = Runs
<1>1. PICK rows, new : rows = step[r] /\ new = Written(rows, base, mem)
    OBVIOUS
<1>2. RowsOK(r, rows)'
    BY <1>1, RowsStay DEF StoreOK, StepsOK
<1>3. RowsOK(r, new)'
  <2>1. /\ rows \in Rows /\ \A x \in Steps : RowOK(r, x, rows[x].st)'
        /\ mem \in Rows /\ \A x \in Steps : RowOK(r, x, mem[x].st)'
      BY <1>2 DEF RowsOK
  <2>2. new \in Rows /\ \A x \in Steps : new[x].st = mem[x].st \/ new[x].st = rows[x].st
      BY <1>1, <2>1, WrittenShape
  <2>3. ASSUME NEW x \in Steps PROVE RowOK(r, x, new[x].st)'
    <3>1. PICK a, b, c : a = new[x].st /\ b = mem[x].st /\ c = rows[x].st
        OBVIOUS
    <3>2. RowOK(r, x, b)' /\ RowOK(r, x, c)'
        BY <2>1, <3>1
    <3>3. RowOK(r, x, a)'
        BY <2>2, <3>1, <3>2
    <3> QED
        BY <3>1, <3>3
  <2> QED
      BY <2>2, <2>3 DEF RowsOK
<1>4. step' = [step EXCEPT ![r] = new]
    BY <1>1
<1> QED
    BY <1>3, <1>4, StepsWritten

LEMMA NotifyKeeps ==
    ASSUME EngineAssumption, EngineInv, NEW s \in Sessions, Notify(s)
    PROVE  EngineInv'
<1>1. PICK e, x : e = sess[s] /\ x = Here(s)
    OBVIOUS
<1>2. Walking(s) /\ Ready(e.mem, x) /\ Kind[x] = "notification"
    BY <1>1 DEF Notify, Dispatching
<1>3. SessionOK(e) /\ DOMAIN e = Fields /\ e.pc = "walk" /\ DOMAIN sess = Sessions
    BY <1>1, <1>2, SessionRead, HereIsAStep
<1>4. RowsOK(e.run, e.mem) /\ x \in Steps /\ e.run \in Runs
    BY <1>1, <1>2, HereIsAStep DEF Started
<1>5. ASSUME NEW v \in {"SUCCEEDED", "FAILED"} PROVE RowsOK(e.run, [e.mem EXCEPT ![x].st = v])
  <2>1. v \in Statuses /\ RowOK(e.run, x, v)
      BY <1>2, <1>4, ReadyIsEarned DEF RowOK, Statuses
  <2> QED
      BY <1>4, <2>1, RowSet
<1>6. PICK f : f = sess'[s]
    OBVIOUS
<1>7. UNCHANGED <<run, starter, jobs, approver>>
    BY DEF Notify
<1>8. /\ DOMAIN sess' = Sessions /\ \A q \in Sessions \ {s} : sess'[q] = sess[q]
      /\ DOMAIN f = Fields /\ f.pc = "walk" /\ f.run = e.run /\ f.todo = e.todo /\ f.at = e.at + 1
      /\ \E v \in {"SUCCEEDED", "FAILED"} : f.mem = [e.mem EXCEPT ![x].st = v]
  <2>1. CASE alert[sess[s].run][Here(s)]
    <3>1. sess' = Onward(s, [e.mem EXCEPT ![x].st = "FAILED"])
        BY <1>1, <2>1 DEF Notify
    <3> QED
        BY <1>1, <1>3, <1>6, <3>1 DEF Onward, Fields
  <2>2. CASE ~alert[sess[s].run][Here(s)]
    <3>1. sess' = [Onward(s, [e.mem EXCEPT ![x].st = "SUCCEEDED"]) EXCEPT ![s].base = e.mem]
        BY <1>1, <2>2 DEF Notify
    <3> QED
        BY <1>1, <1>3, <1>6, <3>1 DEF Onward, Fields
  <2> QED
      BY <2>1, <2>2
<1>9. SessionOK(f)
    BY <1>3, <1>5, <1>8, Walks
<1>10. Growth
    BY <1>7 DEF Growth, Cleared
<1>11. StepsOK' /\ DOMAIN step' = Runs
  <2>1. CASE UNCHANGED step
      BY <1>10, <2>1, StepsKeep DEF EngineInv, StoreOK, StoreTypeOK
  <2>2. CASE CommitRows(s)
    <3>1. PICK r, mem, base : r = e.run /\ mem = e.mem /\ base = e.base
        OBVIOUS
    <3>2. RowsOK(r, mem)' /\ r \in Runs
        BY <1>4, <1>10, <3>1, RowsStay
    <3>3. step' = [step EXCEPT ![r] = Written(@, base, mem)]
        BY <1>1, <2>2, <3>1 DEF CommitRows
    <3> QED
        BY <1>10, <3>2, <3>3, CommitKeepsSteps DEF EngineInv
  <2> QED
      BY <2>1, <2>2 DEF Notify
<1>12. JobsOK' /\ KeyIndex'
    BY <1>7, <1>10, JobsKeep DEF EngineInv
<1>13. StoreTypeOK' /\ ApproversOK'
    BY <1>7, <1>11 DEF EngineInv, StoreOK, StoreTypeOK, ApproversOK
<1>14. SessionOK(f)'
    BY <1>9, <1>10, SessionStays
<1>15. SessionsOK'
    BY <1>6, <1>8, <1>10, <1>14, SessionStep DEF EngineInv
<1> QED
    BY <1>11, <1>12, <1>13, <1>15 DEF EngineInv, StoreOK

LEMMA FindDuplicateKeeps ==
    ASSUME EngineAssumption, EngineInv, NEW s \in Sessions, FindDuplicate(s)
    PROVE  EngineInv'
<1>1. PICK e, x : e = sess[s] /\ x = Here(s)
    OBVIOUS
<1>2. Walking(s) /\ Ready(e.mem, x) /\ Kind[x] \in JobKinds
    BY <1>1 DEF FindDuplicate, Dispatching
<1>3. SessionOK(e) /\ DOMAIN e = Fields /\ e.pc = "walk" /\ DOMAIN sess = Sessions
    BY <1>1, <1>2, SessionRead, HereIsAStep
<1>4. RowsOK(e.run, e.mem) /\ x \in Steps /\ Started(e.run)
    BY <1>1, <1>2, HereIsAStep
<1>5. UNCHANGED <<run, starter, step, jobs, approver>>
    BY DEF FindDuplicate
<1>6. PICK f : f = sess'[s]
    OBVIOUS
<1>7. CASE sess' = Onward(s, [sess[s].mem EXCEPT ![Here(s)].st = "FAILED"])
  <2>1. "FAILED" \in Statuses /\ RowOK(e.run, x, "FAILED")
      BY <1>2, <1>4, ReadyIsEarned DEF RowOK, Statuses
  <2>2. RowsOK(e.run, [e.mem EXCEPT ![x].st = "FAILED"])
      BY <1>4, <2>1, RowSet
  <2>3. /\ DOMAIN sess' = Sessions /\ \A q \in Sessions \ {s} : sess'[q] = sess[q]
        /\ DOMAIN f = Fields /\ f.pc = "walk" /\ f.run = e.run /\ f.todo = e.todo /\ f.at = e.at + 1
        /\ f.mem = [e.mem EXCEPT ![x].st = "FAILED"]
      BY <1>1, <1>3, <1>6, <1>7 DEF Onward, Fields
  <2>4. SessionOK(f)
      BY <1>3, <2>2, <2>3, Walks
  <2> QED
      BY <1>5, <1>6, <2>3, <2>4, SessionAlone
<1>8. CASE sess' = [sess EXCEPT ![s].pc = "insert"]
  <2>1. /\ DOMAIN sess' = Sessions /\ \A q \in Sessions \ {s} : sess'[q] = sess[q]
        /\ DOMAIN f = Fields /\ f.pc = "insert" /\ f.run = e.run /\ f.todo = e.todo /\ f.at = e.at
        /\ f.mem = e.mem
      BY <1>1, <1>3, <1>6, <1>8 DEF Fields
  <2>2. e.at <= Len(Order) /\ x = Order[e.at] /\ e.at \in Nat \ {0} /\ \A r \in e.todo : Started(r)
      BY <1>1, <1>2, <1>3 DEF Walking, Here, SessionOK
  <2>3. SessionOK(f)
      BY <1>2, <1>4, <2>1, <2>2 DEF SessionOK
  <2> QED
      BY <1>5, <1>6, <2>1, <2>3, SessionAlone
<1> QED
    BY <1>7, <1>8 DEF FindDuplicate

-----------------------------------------------------------------------------
(* Jobs.                                                                    *)

LEMMA JobsTyped ==
    ASSUME StoreOK, NEW r \in Runs, NEW x \in Steps
    PROVE  jobs[r][x] \in Seq(JobStatuses) /\ Len(jobs[r][x]) \in Nat
BY DEF StoreOK, StoreTypeOK

\* Jobs change status and none comes to life.
LEMMA JobsMove ==
    ASSUME StoreOK, Growth, jobs' \in [Runs -> [Steps -> Seq(JobStatuses)]],
           \A r \in Runs, x \in Steps :
              /\ Len(jobs'[r][x]) = Len(jobs[r][x])
              /\ \A n \in 1..Len(jobs[r][x]) : jobs'[r][x][n] \in Live => jobs[r][x][n] \in Live
    PROVE  JobsOK' /\ KeyIndex'
<1>1. \A r \in Runs, x \in Steps : Earned(r, x) => Earned(r, x)'
    BY DEF Growth, Earned
<1>2. ASSUME NEW r \in Runs, NEW x \in Steps, jobs'[r][x] # << >>
      PROVE  jobs[r][x] # << >>
  <2>1. PICK a, b : a = jobs[r][x] /\ b = jobs'[r][x]
      OBVIOUS
  <2>2. b \in Seq(JobStatuses) /\ a \in Seq(JobStatuses) /\ Len(b) = Len(a) /\ b # << >>
      BY <1>2, <2>1, JobsTyped
  <2>3. Len(b) # 0
      BY <2>2, EmptySeq
  <2> QED
      BY <2>1, <2>2, <2>3
<1>3. JobsOK'
    BY <1>1, <1>2 DEF StoreOK, JobsOK
<1>4. KeyIndex'
    BY DEF StoreOK, KeyIndex
<1> QED
    BY <1>3, <1>4

\* A job enters an empty slot of the index.
LEMMA JobsGrow ==
    ASSUME StoreOK, Growth, NEW r \in Runs, NEW x \in Steps, Earned(r, x), ~Occupied(r, x),
           NEW v \in Live, jobs' = [jobs EXCEPT ![r][x] = Append(@, v)]
    PROVE  JobsOK' /\ KeyIndex' /\ jobs' \in [Runs -> [Steps -> Seq(JobStatuses)]]
<1>1. PICK a : a = jobs[r][x]
    OBVIOUS
<1>2. a \in Seq(JobStatuses) /\ Len(a) \in Nat /\ v \in JobStatuses
    BY <1>1, JobsTyped DEF JobStatuses
<1>3. PICK b : b = Append(a, v)
    OBVIOUS
<1>4. b \in Seq(JobStatuses) /\ Len(b) = Len(a) + 1 /\ b[Len(a) + 1] = v
    BY <1>2, <1>3
<1>5. \A n \in 1..Len(a) : b[n] = a[n]
    BY <1>2, <1>3
<1>6. jobs \in [Runs -> [Steps -> Seq(JobStatuses)]]
    BY DEF StoreOK, StoreTypeOK
<1>7. /\ jobs' \in [Runs -> [Steps -> Seq(JobStatuses)]] /\ jobs'[r][x] = b
      /\ \A q \in Runs, y \in Steps : q # r \/ y # x => jobs'[q][y] = jobs[q][y]
    BY <1>1, <1>3, <1>4, <1>6
<1>8. \A q \in Runs, y \in Steps : Earned(q, y) => Earned(q, y)'
    BY DEF Growth, Earned
<1>9. JobsOK'
    BY <1>7, <1>8 DEF StoreOK, JobsOK
<1>10. \A n \in 1..Len(a) : a[n] \notin Live
    BY <1>1 DEF Occupied
<1>11. ASSUME NEW n \in 1..Len(b), NEW m \in 1..Len(b), b[n] \in Live, b[m] \in Live
       PROVE  n = m
    BY <1>2, <1>4, <1>5, <1>10, <1>11
<1>12. KeyIndex'
  <2> SUFFICES ASSUME NEW q \in Runs, NEW y \in Steps, NEW n \in 1..Len(jobs'[q][y]),
                      NEW m \in 1..Len(jobs'[q][y]), jobs'[q][y][n] \in Live, jobs'[q][y][m] \in Live
               PROVE  n = m
      BY DEF KeyIndex
  <2>1. CASE q = r /\ y = x
      BY <2>1, <1>7, <1>11
  <2>2. CASE q # r \/ y # x
      BY <2>2, <1>7 DEF StoreOK, KeyIndex
  <2> QED
      BY <2>1, <2>2
<1> QED
    BY <1>7, <1>9, <1>12

LEMMA InsertJobKeeps ==
    ASSUME EngineAssumption, EngineInv, NEW s \in Sessions, InsertJob(s)
    PROVE  EngineInv'
<1>1. PICK e, r, x : e = sess[s] /\ r = sess[s].run /\ x = Here(s)
    OBVIOUS
<1>2. SessionOK(e) /\ DOMAIN e = Fields /\ e.pc = "insert" /\ DOMAIN sess = Sessions
    BY <1>1, SessionRead DEF InsertJob
<1>3. /\ r = e.run /\ r \in Runs /\ RowsOK(r, e.mem) /\ e.at \in 1..Len(Order) /\ x = Order[e.at]
      /\ Kind[x] \in JobKinds /\ Ready(e.mem, x)
    BY <1>1, <1>2 DEF SessionOK, Started, Here, EngineAssumption
<1>4. x \in Steps
    BY <1>3 DEF Steps
<1>5. Earned(r, x)
    BY <1>3, <1>4, ReadyIsEarned
<1>6. UNCHANGED <<run, starter, approver>>
    BY DEF InsertJob
<1>7. CASE Occupied(r, x)
  <2>1. Close(s) /\ UNCHANGED <<step, jobs>>
      BY <1>1, <1>7 DEF InsertJob
  <2> QED
      BY <1>6, <2>1, Quits
<1>8. CASE ~Occupied(r, x)
  <2>1. PICK v, n : v = (IF Kind[x] = "ansible" THEN "GATED" ELSE "QUEUED") /\ n = Len(jobs[r][x]) + 1
      OBVIOUS
  <2>2. v \in Live /\ n \in Nat
      BY <2>1, <1>3, <1>4, JobsTyped DEF Live, EngineInv
  <2>3. jobs' = [jobs EXCEPT ![r][x] = Append(@, v)] /\ CommitRows(s)
      BY <1>1, <1>8, <2>1 DEF InsertJob
  <2>4. Growth
      BY <1>6 DEF Growth, Cleared
  <2>5. JobsOK' /\ KeyIndex' /\ jobs' \in [Runs -> [Steps -> Seq(JobStatuses)]]
      BY <1>3, <1>4, <1>5, <1>8, <2>2, <2>3, <2>4, JobsGrow DEF EngineInv
  <2>6. StepsOK' /\ DOMAIN step' = Runs
    <3>1. PICK mem, base : mem = e.mem /\ base = e.base
        OBVIOUS
    <3>2. RowsOK(r, mem)'
        BY <1>3, <2>4, <3>1, RowsStay
    <3>3. step' = [step EXCEPT ![r] = Written(@, base, mem)]
        BY <1>1, <2>3, <3>1 DEF CommitRows
    <3> QED
        BY <1>3, <2>4, <3>2, <3>3, CommitKeepsSteps DEF EngineInv
  <2>7. StoreTypeOK' /\ ApproversOK'
      BY <1>6, <2>5, <2>6 DEF EngineInv, StoreOK, StoreTypeOK, ApproversOK
  <2>8. PICK mem : mem = [e.mem EXCEPT ![x] = [st |-> "RUNNING", job |-> n]]
      OBVIOUS
  <2>9. RowsOK(r, mem)
    <3>1. [st |-> "RUNNING", job |-> n] \in Row
        BY <2>2 DEF Row, Statuses
    <3>2. mem \in Rows /\ mem[x].st = "RUNNING" /\ \A y \in Steps \ {x} : mem[y] = e.mem[y]
        BY <1>3, <1>4, <2>8, <3>1 DEF RowsOK, Rows
    <3>3. RowOK(r, x, "RUNNING")
        BY <1>3, <1>5 DEF RowOK, JobKinds
    <3>4. \A y \in Steps : RowOK(r, y, mem[y].st)
        BY <1>3, <3>2, <3>3 DEF RowsOK
    <3> QED
        BY <3>2, <3>4 DEF RowsOK
  <2>10. PICK f : f = sess'[s]
      OBVIOUS
  <2>11. sess' = [Onward(s, mem) EXCEPT ![s].base = sess[s].mem, ![s].pc = "walk"]
      BY <1>1, <1>8, <2>1, <2>8 DEF InsertJob
  <2>12. /\ DOMAIN sess' = Sessions /\ \A q \in Sessions \ {s} : sess'[q] = sess[q]
         /\ DOMAIN f = Fields /\ f.pc = "walk" /\ f.run = e.run /\ f.todo = e.todo /\ f.at = e.at + 1
         /\ f.mem = mem
      BY <1>1, <1>2, <2>10, <2>11 DEF Onward, Fields
  <2>13. SessionOK(f)
      BY <1>2, <1>3, <2>9, <2>12, Walks
  <2>14. SessionOK(f)'
      BY <2>4, <2>13, SessionStays
  <2>15. SessionsOK'
      BY <2>4, <2>10, <2>12, <2>14, SessionStep DEF EngineInv
  <2> QED
      BY <2>5, <2>6, <2>7, <2>15 DEF EngineInv, StoreOK
<1> QED
    BY <1>7, <1>8

-----------------------------------------------------------------------------
(* The commits that move a run.                                             *)

LEMMA VerdictValue ==
    ASSUME NEW mem, NEW b, NEW seen
    PROVE  RunVerdict(mem, b, seen) \in {"WAITING_APPROVAL", seen, "FAILED", "SUCCEEDED"}
BY DEF RunVerdict

\* The status of a started run becomes another one, and nothing else of it changes hands.
LEMMA RunMoves ==
    ASSUME StoreOK, NEW r \in Runs, NEW v, v # "NONE",
           run' = run \/ run' = [run EXCEPT ![r] = v], UNCHANGED <<starter, approver>>
    PROVE  Growth /\ DOMAIN run' = Runs /\ ApproversOK'
<1>1. DOMAIN run = Runs
    BY DEF StoreOK, StoreTypeOK
<1>2. DOMAIN run' = Runs /\ \A q \in Runs : run'[q] = run[q] \/ run'[q] = v
    BY <1>1
<1>3. Growth
    BY <1>2 DEF Growth, Cleared
<1>4. ApproversOK'
    BY <1>2 DEF StoreOK, ApproversOK
<1> QED
    BY <1>2, <1>3, <1>4

LEMMA FinishAdvanceKeeps ==
    ASSUME EngineInv, NEW s \in Sessions, FinishAdvance(s)
    PROVE  EngineInv'
<1>1. PICK e, r, mem, base : e = sess[s] /\ r = sess[s].run /\ mem = sess[s].mem /\ base = sess[s].base
    OBVIOUS
<1>2. SessionOK(e) /\ DOMAIN e = Fields /\ e.pc = "walk" /\ DOMAIN sess = Sessions
    BY <1>1, SessionRead DEF FinishAdvance
<1>3. r \in Runs /\ RowsOK(r, mem) /\ \A q \in e.todo : Started(q)
    BY <1>1, <1>2 DEF SessionOK, Started
<1>4. PICK v : v = RunVerdict(sess[s].mem, sess[s].blocked, sess[s].seen)
    OBVIOUS
<1>5. v \in {"WAITING_APPROVAL", sess[s].seen, "FAILED", "SUCCEEDED"}
    BY <1>4, VerdictValue
<1>6. /\ run' = IF v = sess[s].seen THEN run ELSE [run EXCEPT ![r] = v]
      /\ UNCHANGED <<starter, approver, jobs>>
      /\ step' = [step EXCEPT ![r] = Written(@, base, mem)]
    BY <1>1, <1>4 DEF FinishAdvance, CommitRows
<1>7. Growth /\ DOMAIN run' = Runs /\ ApproversOK'
  <2>1. PICK w \in {"WAITING_APPROVAL", "FAILED", "SUCCEEDED"} : run' = run \/ run' = [run EXCEPT ![r] = w]
      BY <1>5, <1>6
  <2> QED
      BY <1>3, <1>6, <2>1, RunMoves DEF EngineInv
<1>8. RowsOK(r, mem)'
    BY <1>3, <1>7, RowsStay
<1>9. StepsOK' /\ DOMAIN step' = Runs
    BY <1>3, <1>6, <1>7, <1>8, CommitKeepsSteps DEF EngineInv
<1>10. JobsOK' /\ KeyIndex'
    BY <1>6, <1>7, JobsKeep DEF EngineInv
<1>11. StoreOK'
    BY <1>6, <1>7, <1>9, <1>10 DEF EngineInv, StoreOK, StoreTypeOK
<1>12. PICK T : T = sess[s].todo
    OBVIOUS
<1>13. CASE T = {}
  <2>1. Close(s)
      BY <1>12, <1>13 DEF FinishAdvance, Close
  <2> QED
      BY <1>7, <1>11, <2>1, SessionCloses
<1>14. CASE T # {}
  <2>1. PICK f : f = [Closed EXCEPT !.pc = "next", !.todo = T]
      OBVIOUS
  <2>2. sess' = [sess EXCEPT ![s] = f]
      BY <1>12, <1>14, <2>1 DEF FinishAdvance
  <2>3. DOMAIN sess' = Sessions /\ sess'[s] = f /\ \A q \in Sessions \ {s} : sess'[q] = sess[q]
      BY <1>2, <2>2
  <2>4. DOMAIN f = Fields /\ f.pc = "next" /\ f.todo = T
      BY <2>1 DEF Closed, Fields
  <2>5. SessionOK(f)
      BY <1>1, <1>3, <1>12, <1>14, <2>4 DEF SessionOK
  <2>6. SessionOK(f)'
      BY <1>7, <2>5, SessionStays
  <2>7. SessionsOK'
      BY <1>7, <2>3, <2>6, SessionStep DEF EngineInv
  <2> QED
      BY <1>11, <2>7 DEF EngineInv
<1> QED
    BY <1>13, <1>14

\* The approval: the gate is cleared in the step that writes SUCCEEDED.
LEMMA ApproveCommitKeeps ==
    ASSUME EngineInv, NEW s \in Sessions, ApproveCommit(s)
    PROVE  EngineInv'
<1>1. PICK e, r, x, u, base : /\ e = sess[s] /\ r = sess[s].run /\ x = sess[s].gate
                              /\ u = sess[s].who /\ base = sess[s].base
    OBVIOUS
<1>2. SessionOK(e) /\ DOMAIN e = Fields /\ e.pc = "approve" /\ DOMAIN sess = Sessions
    BY <1>1, SessionRead DEF ApproveCommit
<1>3. /\ r \in Runs /\ run[r] # "NONE" /\ RowsOK(r, e.mem) /\ \A q \in e.todo : Started(q)
      /\ x \in Steps /\ e.mem[x].st = "WAITING_APPROVAL" /\ u \notin {NoUser, starter[r], Publisher}
    BY <1>1, <1>2 DEF SessionOK, Started
<1>4. PICK mem : mem = [e.mem EXCEPT ![x].st = "SUCCEEDED"]
    OBVIOUS
<1>5. /\ run' = IF sess[s].seen = "RUNNING" THEN run ELSE [run EXCEPT ![r] = "RUNNING"]
      /\ step' = [step EXCEPT ![r] = Written(@, base, mem)]
      /\ approver' = [approver EXCEPT ![r][x] = u]
      /\ UNCHANGED <<starter, jobs>>
      /\ sess' = [sess EXCEPT ![s].pc = "sync", ![s].base = mem, ![s].mem = mem, ![s].seen = "RUNNING"]
    BY <1>1, <1>4 DEF ApproveCommit
<1>6. /\ DOMAIN approver = Runs /\ \A q \in Runs : DOMAIN approver[q] = Steps
      /\ DOMAIN run = Runs
    BY DEF EngineInv, StoreOK, StoreTypeOK
<1>7. /\ DOMAIN approver' = Runs /\ \A q \in Runs : DOMAIN approver'[q] = Steps
      /\ approver'[r][x] = u
      /\ \A q \in Runs, y \in Steps : q # r \/ y # x => approver'[q][y] = approver[q][y]
    BY <1>3, <1>5, <1>6
<1>8. DOMAIN run' = Runs /\ \A q \in Runs : run'[q] = run[q] \/ run'[q] = "RUNNING"
    BY <1>5, <1>6
<1>9. Growth
    BY <1>3, <1>5, <1>7, <1>8 DEF Growth, Cleared
<1>10. ApproversOK'
    BY <1>3, <1>7, <1>8 DEF EngineInv, StoreOK, ApproversOK
<1>11. RowsOK(r, mem)'
  <2>1. RowsOK(r, e.mem)'
    <3>1. PICK m : m = e.mem
        OBVIOUS
    <3> QED
        BY <1>3, <1>9, <3>1, RowsStay
  <2>2. Earned(r, x)
      BY <1>3 DEF RowsOK, RowOK, Untouched
  <2>3. Earned(r, x)'
      BY <1>3, <1>9, <2>2 DEF Growth, Earned
  <2>4. Cleared(r, x)'
      BY <1>3, <1>5, <1>7 DEF Cleared
  <2>5. RowOK(r, x, "SUCCEEDED")' /\ "SUCCEEDED" \in Statuses
      BY <2>3, <2>4 DEF RowOK, Statuses
  <2>6. PICK m : m = e.mem
      OBVIOUS
  <2>7. RowsOK(r, m)'
      BY <2>1, <2>6
  <2>8. m \in Rows /\ \A y \in Steps : RowOK(r, y, m[y].st)'
      BY <2>7 DEF RowsOK
  <2>9. mem \in Rows /\ mem[x].st = "SUCCEEDED" /\ \A y \in Steps \ {x} : mem[y] = m[y]
    <3>1. m[x] \in Row
        BY <1>3, <2>8 DEF Rows
    <3>2. [m[x] EXCEPT !.st = "SUCCEEDED"] \in Row /\ [m[x] EXCEPT !.st = "SUCCEEDED"].st = "SUCCEEDED"
        BY <2>5, <3>1 DEF Row
    <3>3. mem = [m EXCEPT ![x] = [m[x] EXCEPT !.st = "SUCCEEDED"]]
        BY <1>4, <2>6
    <3> QED
        BY <1>3, <2>8, <3>2, <3>3 DEF Rows
  <2>10. ASSUME NEW y \in Steps PROVE RowOK(r, y, mem[y].st)'
    <3>1. CASE y = x
        BY <2>5, <2>9, <3>1
    <3>2. CASE y # x
      <4>1. PICK st : st = m[y].st
          OBVIOUS
      <4>2. RowOK(r, y, st)'
          BY <2>8, <4>1
      <4>3. mem[y].st = st
          BY <2>9, <3>2, <4>1
      <4> QED
          BY <4>2, <4>3
    <3> QED
        BY <3>1, <3>2
  <2> QED
      BY <2>9, <2>10 DEF RowsOK
<1>12. StepsOK' /\ DOMAIN step' = Runs
    BY <1>3, <1>5, <1>9, <1>11, CommitKeepsSteps DEF EngineInv
<1>13. JobsOK' /\ KeyIndex'
    BY <1>5, <1>9, JobsKeep DEF EngineInv
<1>14. StoreTypeOK'
    BY <1>5, <1>7, <1>8, <1>12 DEF EngineInv, StoreOK, StoreTypeOK
<1>15. PICK f : f = sess'[s]
    OBVIOUS
<1>16. /\ DOMAIN sess' = Sessions /\ \A q \in Sessions \ {s} : sess'[q] = sess[q]
       /\ DOMAIN f = Fields /\ f.pc = "sync" /\ f.run = r /\ f.todo = e.todo /\ f.mem = mem
    BY <1>1, <1>2, <1>5, <1>15 DEF Fields
<1>17. SessionOK(f)'
  <2>1. Started(r)' /\ \A q \in e.todo : Started(q)'
      BY <1>3, <1>8 DEF Started
  <2> QED
      BY <1>11, <1>16, <2>1 DEF SessionOK
<1>18. SessionsOK'
    BY <1>9, <1>15, <1>16, <1>17, SessionStep DEF EngineInv
<1> QED
    BY <1>10, <1>12, <1>13, <1>14, <1>18 DEF EngineInv, StoreOK

LEMMA RejectCommitKeeps ==
    ASSUME EngineInv, NEW s \in Sessions, RejectCommit(s)
    PROVE  EngineInv'
<1>1. PICK e, r, base : e = sess[s] /\ r = sess[s].run /\ base = sess[s].base
    OBVIOUS
<1>2. SessionOK(e) /\ e.pc = "reject"
    BY <1>1, SessionRead DEF RejectCommit
<1>3. /\ r \in Runs /\ RowsOK(r, e.mem)
      /\ e.gate \in Steps /\ e.mem[e.gate].st = "WAITING_APPROVAL"
    BY <1>1, <1>2 DEF SessionOK, Started
<1>4. PICK mem : mem = [x \in Steps |->
                  [e.mem[x] EXCEPT !.st =
                      IF x = e.gate THEN "FAILED"
                      ELSE IF @ \in {"PENDING", "WAITING_APPROVAL"} THEN "SKIPPED" ELSE @]]
    OBVIOUS
<1>5. /\ run' = IF sess[s].seen = "FAILED" THEN run ELSE [run EXCEPT ![r] = "FAILED"]
      /\ step' = [step EXCEPT ![r] = Written(@, base, mem)]
      /\ Close(s) /\ UNCHANGED <<starter, jobs, approver>>
    BY <1>1, <1>4 DEF RejectCommit
<1>6. ASSUME NEW x \in Steps PROVE mem[x] \in Row /\ RowOK(r, x, mem[x].st)
  <2>1. PICK row : row = e.mem[x]
      OBVIOUS
  <2>2. row \in Row /\ RowOK(r, x, row.st) /\ row.st \in Statuses
    <3>1. row \in Row /\ RowOK(r, x, row.st)
        BY <1>3, <2>1 DEF RowsOK, Rows
    <3> QED
        BY <3>1 DEF Row
  <2>3. PICK v : v = IF x = e.gate THEN "FAILED"
                     ELSE IF row.st \in {"PENDING", "WAITING_APPROVAL"} THEN "SKIPPED" ELSE row.st
      OBVIOUS
  <2>4. v \in Statuses
      BY <2>2, <2>3 DEF Statuses
  <2>5. mem[x] = [row EXCEPT !.st = v]
      BY <1>4, <2>1, <2>3
  <2>6. mem[x] \in Row /\ mem[x].st = v
      BY <2>2, <2>4, <2>5 DEF Row
  <2>7. RowOK(r, x, v)
      BY <1>3, <2>1, <2>2, <2>3 DEF RowOK, Untouched
  <2> QED
      BY <2>6, <2>7
<1>7. RowsOK(r, mem)
    BY <1>4, <1>6 DEF RowsOK, Rows
<1>8. Growth /\ DOMAIN run' = Runs /\ ApproversOK'
    BY <1>3, <1>5, RunMoves DEF EngineInv
<1>9. RowsOK(r, mem)'
    BY <1>3, <1>7, <1>8, RowsStay
<1>10. StepsOK' /\ DOMAIN step' = Runs
    BY <1>3, <1>5, <1>8, <1>9, CommitKeepsSteps DEF EngineInv
<1>11. JobsOK' /\ KeyIndex'
    BY <1>5, <1>8, JobsKeep DEF EngineInv
<1>12. StoreOK'
    BY <1>5, <1>8, <1>10, <1>11 DEF EngineInv, StoreOK, StoreTypeOK
<1> QED
    BY <1>5, <1>8, <1>12, SessionCloses

LEMMA CancelCommitKeeps ==
    ASSUME EngineInv, NEW s \in Sessions, CancelCommit(s)
    PROVE  EngineInv'
<1>1. PICK e, r, base : e = sess[s] /\ r = sess[s].run /\ base = sess[s].base
    OBVIOUS
<1>2. SessionOK(e) /\ e.pc = "cancel"
    BY <1>1, SessionRead DEF CancelCommit
<1>3. r \in Runs /\ RowsOK(r, e.mem)
    BY <1>1, <1>2 DEF SessionOK, Started
<1>4. PICK open : open = {x \in Steps : e.mem[x].st \in {"PENDING", "WAITING_APPROVAL", "RUNNING"}}
    OBVIOUS
<1>5. PICK mem : mem = [x \in Steps |-> IF x \in open THEN [e.mem[x] EXCEPT !.st = "CANCELLED"]
                                        ELSE e.mem[x]]
    OBVIOUS
<1>6. /\ run' = [run EXCEPT ![r] = "CANCELLED"]
      /\ step' = [step EXCEPT ![r] = Written(@, base, mem)]
      /\ Close(s) /\ UNCHANGED <<starter, approver>>
    BY <1>1, <1>4, <1>5 DEF CancelCommit
<1>7. ASSUME NEW x \in Steps PROVE mem[x] \in Row /\ RowOK(r, x, mem[x].st)
  <2>1. e.mem[x] \in Row /\ RowOK(r, x, e.mem[x].st)
      BY <1>3 DEF RowsOK, Rows
  <2>2. CASE x \notin open
      BY <1>5, <2>1, <2>2
  <2>3. CASE x \in open
    <3>1. PICK row : row = e.mem[x]
        OBVIOUS
    <3>2. mem[x] = [row EXCEPT !.st = "CANCELLED"]
        BY <1>5, <2>3, <3>1
    <3>3. mem[x] \in Row /\ mem[x].st = "CANCELLED"
        BY <2>1, <3>1, <3>2 DEF Row, Statuses
    <3> QED
        BY <3>3 DEF RowOK, Untouched
  <2> QED
      BY <2>2, <2>3
<1>8. RowsOK(r, mem)
    BY <1>5, <1>7 DEF RowsOK, Rows
<1>9. Growth /\ DOMAIN run' = Runs /\ ApproversOK'
    BY <1>3, <1>6, RunMoves DEF EngineInv
<1>10. RowsOK(r, mem)'
    BY <1>3, <1>8, <1>9, RowsStay
<1>11. StepsOK' /\ DOMAIN step' = Runs
    BY <1>3, <1>6, <1>9, <1>10, CommitKeepsSteps DEF EngineInv
<1>12. PICK C : C = {p \in Steps \X Nat : /\ p[1] \in open /\ e.mem[p[1]].st = "RUNNING" /\ mem[p[1]].job = p[2]
                                         /\ jobs[r][p[1]][p[2]] \in {"GATED", "QUEUED"}}
    OBVIOUS
<1>13. jobs' = [jobs EXCEPT ![r] = [x \in Steps |-> [n \in 1..Len(jobs[r][x]) |->
                    IF <<x, n>> \in C THEN "CANCELLED" ELSE jobs[r][x][n]]]]
  <2>1. jobs' = [jobs EXCEPT ![r] = [x \in Steps |-> [n \in 1..Len(jobs[r][x]) |->
                    IF /\ x \in open /\ e.mem[x].st = "RUNNING" /\ mem[x].job = n
                       /\ jobs[r][x][n] \in {"GATED", "QUEUED"}
                    THEN "CANCELLED" ELSE jobs[r][x][n]]]]
      BY <1>1, <1>4, <1>5 DEF CancelCommit
  <2>2. \A x \in Steps : \A n \in 1..Len(jobs[r][x]) :
           <<x, n>> \in C <=> /\ x \in open /\ e.mem[x].st = "RUNNING" /\ mem[x].job = n
                             /\ jobs[r][x][n] \in {"GATED", "QUEUED"}
      BY <1>12
  <2> QED
      BY <2>1, <2>2
<1>14. /\ jobs' \in [Runs -> [Steps -> Seq(JobStatuses)]]
       /\ \A q \in Runs, x \in Steps :
              /\ Len(jobs'[q][x]) = Len(jobs[q][x])
              /\ \A n \in 1..Len(jobs[q][x]) : jobs'[q][x][n] \in Live => jobs[q][x][n] \in Live
  <2>1. jobs \in [Runs -> [Steps -> Seq(JobStatuses)]]
      BY DEF EngineInv, StoreOK, StoreTypeOK
  <2>2. ASSUME NEW x \in Steps
        PROVE  /\ jobs'[r][x] \in Seq(JobStatuses) /\ Len(jobs'[r][x]) = Len(jobs[r][x])
               /\ \A n \in 1..Len(jobs[r][x]) : jobs'[r][x][n] \in Live => jobs[r][x][n] \in Live
    <3>1. PICK a : a = jobs[r][x]
        OBVIOUS
    <3>2. a \in Seq(JobStatuses) /\ Len(a) \in Nat
        BY <1>3, <2>1, <3>1
    <3>3. PICK b : b = [n \in 1..Len(a) |-> IF <<x, n>> \in C THEN "CANCELLED" ELSE a[n]]
        OBVIOUS
    <3>4. "CANCELLED" \in JobStatuses /\ "CANCELLED" \notin Live
        BY DEF JobStatuses, Live
    <3>5. b \in Seq(JobStatuses) /\ Len(b) = Len(a)
        BY <3>2, <3>3, <3>4
    <3>6. \A n \in 1..Len(a) : b[n] \in Live => a[n] \in Live
        BY <3>3, <3>4
    <3>7. jobs'[r][x] = b
        BY <1>3, <1>13, <2>1, <3>1, <3>3
    <3> QED
        BY <3>1, <3>5, <3>6, <3>7
  <2>3. \A q \in Runs \ {r} : jobs'[q] = jobs[q]
      BY <1>13, <2>1
  <2>4. DOMAIN jobs'[r] = Steps /\ jobs'[r] = [x \in Steps |-> jobs'[r][x]]
      BY <1>3, <1>13, <2>1
  <2>5. jobs'[r] \in [Steps -> Seq(JobStatuses)]
      BY <2>2, <2>4
  <2>6. jobs' \in [Runs -> [Steps -> Seq(JobStatuses)]]
    <3>1. PICK row : row = jobs'[r]
        OBVIOUS
    <3>2. jobs' = [jobs EXCEPT ![r] = row]
        BY <1>3, <1>13, <2>1, <3>1
    <3> QED
        BY <2>1, <2>5, <3>1, <3>2
  <2> QED
      BY <2>2, <2>3, <2>6
<1>15. JobsOK' /\ KeyIndex'
    BY <1>9, <1>14, JobsMove DEF EngineInv
<1>16. StoreOK'
    BY <1>6, <1>9, <1>11, <1>14, <1>15 DEF EngineInv, StoreOK, StoreTypeOK
<1> QED
    BY <1>6, <1>9, <1>16, SessionCloses

-----------------------------------------------------------------------------
(* The job pipeline, and all steps together.                                *)

\* A job that moves was live before.
LEMMA JobStepKeeps ==
    ASSUME EngineInv, NEW r \in Runs, NEW x \in Steps, NEW n, NEW from \in Live, NEW to \in JobStatuses,
           JobStep(r, x, n, from, to)
    PROVE  EngineInv'
<1>1. UNCHANGED <<run, starter, step, approver, sess>>
    BY DEF JobStep
<1>2. Growth
    BY <1>1 DEF Growth, Cleared
<1>3. jobs \in [Runs -> [Steps -> Seq(JobStatuses)]]
    BY DEF EngineInv, StoreOK, StoreTypeOK
<1>4. PICK a : a = jobs[r][x]
    OBVIOUS
<1>5. a \in Seq(JobStatuses) /\ Len(a) \in Nat /\ n \in 1..Len(a) /\ a[n] = from
    BY <1>3, <1>4 DEF JobStep
<1>6. PICK b : b = [a EXCEPT ![n] = to]
    OBVIOUS
<1>7. b \in Seq(JobStatuses) /\ Len(b) = Len(a)
    BY <1>5, <1>6
<1>8. \A m \in 1..Len(a) : b[m] \in Live => a[m] \in Live
    BY <1>5, <1>6
<1>9. jobs' = [jobs EXCEPT ![r][x] = b]
    BY <1>4, <1>6 DEF JobStep
<1>10. /\ jobs' \in [Runs -> [Steps -> Seq(JobStatuses)]] /\ jobs'[r][x] = b
       /\ \A q \in Runs, y \in Steps : q # r \/ y # x => jobs'[q][y] = jobs[q][y]
    BY <1>3, <1>7, <1>9
<1>11. \A q \in Runs, y \in Steps :
          /\ Len(jobs'[q][y]) = Len(jobs[q][y])
          /\ \A m \in 1..Len(jobs[q][y]) : jobs'[q][y][m] \in Live => jobs[q][y][m] \in Live
  <2> SUFFICES ASSUME NEW q \in Runs, NEW y \in Steps
               PROVE  /\ Len(jobs'[q][y]) = Len(jobs[q][y])
                      /\ \A m \in 1..Len(jobs[q][y]) : jobs'[q][y][m] \in Live => jobs[q][y][m] \in Live
      OBVIOUS
  <2>1. CASE q = r /\ y = x
      BY <1>4, <1>7, <1>8, <1>10, <2>1
  <2>2. CASE q # r \/ y # x
      BY <1>10, <2>2
  <2> QED
      BY <2>1, <2>2
<1>12. JobsOK' /\ KeyIndex'
    BY <1>2, <1>10, <1>11, JobsMove DEF EngineInv
<1>13. StepsOK'
    BY <1>1, <1>2, StepsKeep DEF EngineInv
<1>14. StoreOK'
    BY <1>1, <1>10, <1>12, <1>13 DEF EngineInv, StoreOK, StoreTypeOK, ApproversOK
<1>15. SessionsOK'
  <2>1. ASSUME NEW q \in Sessions PROVE SessionOK(sess[q])'
    <3>1. PICK e : e = sess[q]
        OBVIOUS
    <3>2. SessionOK(e)'
        BY <1>2, <3>1, SessionStays DEF EngineInv, SessionsOK
    <3> QED
        BY <1>1, <3>1, <3>2
  <2> QED
      BY <1>1, <2>1 DEF EngineInv, SessionsOK
<1> QED
    BY <1>14, <1>15 DEF EngineInv

LEMMA JobMovesKeep ==
    ASSUME EngineInv, JobMoves
    PROVE  EngineInv'
<1>1. PICK r \in Runs, x \in Steps, n \in 1..MaxJobs :
        JobApprove(r, x, n) \/ JobRuns(r, x, n) \/ JobEnds(r, x, n)
    BY DEF JobMoves
<1>2. PICK from \in Live, to \in JobStatuses : JobStep(r, x, n, from, to)
    BY <1>1 DEF JobApprove, JobRuns, JobEnds, Live, JobStatuses
<1> QED
    BY <1>2, JobStepKeeps

LEMMA AdvanceKeeps ==
    ASSUME EngineAssumption, EngineInv, NEW s \in Sessions, Advance(s)
    PROVE  EngineInv'
<1>1. CASE DispatchRaises(s) \/ SyncRaises(s)
    BY <1>1, Quits DEF DispatchRaises, SyncRaises
<1> QED
    BY <1>1, AdvanceLoadKeeps, SyncKeeps, PassOverKeeps, DecideStepKeeps, NotifyKeeps, FindDuplicateKeeps,
       InsertJobKeeps, FinishAdvanceKeeps, ApproveCommitKeeps, RejectCommitKeeps, CancelCommitKeeps
       DEF Advance

LEMMA EngineInit == Init => EngineInv
<1> SUFFICES ASSUME Init PROVE EngineInv
    OBVIOUS
<1>1. StoreTypeOK
    BY DEF Init, StoreTypeOK
<1>2. StepsOK
  <2>1. Fresh \in Rows /\ \A x \in Steps : Fresh[x].st = "PENDING"
      BY DEF Fresh, Rows, Row, Statuses
  <2>2. \A r \in Runs : RowsOK(r, Fresh)
      BY <2>1 DEF RowsOK, RowOK, Untouched
  <2>3. \A r \in Runs : step[r] = Fresh
      BY DEF Init
  <2> QED
      BY <2>2, <2>3 DEF StepsOK
<1>3. JobsOK /\ KeyIndex
  <2>1. \A r \in Runs, x \in Steps : jobs[r][x] = << >>
      BY DEF Init
  <2> QED
      BY <2>1 DEF JobsOK, KeyIndex
<1>4. ApproversOK
    BY DEF Init, ApproversOK
<1>5. SessionsOK
    BY ClosedIsOK DEF Init, SessionsOK
<1> QED
    BY <1>1, <1>2, <1>3, <1>4, <1>5 DEF EngineInv, StoreOK

LEMMA EngineNext == EngineAssumption /\ EngineInv /\ [Next]_vars => EngineInv'
<1> SUFFICES ASSUME EngineAssumption, EngineInv, [Next]_vars PROVE EngineInv'
    OBVIOUS
<1>1. CASE UNCHANGED vars
  <2>1. UNCHANGED <<run, starter, step, jobs, approver, sess>>
      BY <1>1 DEF vars
  <2>2. StoreOK' /\ Growth
      BY <2>1, StoreStays DEF EngineInv
  <2>3. ASSUME NEW q \in Sessions PROVE SessionOK(sess[q])'
    <3>1. PICK e : e = sess[q]
        OBVIOUS
    <3>2. SessionOK(e)'
        BY <2>2, <3>1, SessionStays DEF EngineInv, SessionsOK
    <3> QED
        BY <2>1, <3>1, <3>2
  <2> QED
      BY <2>1, <2>2, <2>3 DEF EngineInv, SessionsOK
<1>2. CASE JobMoves
    BY <1>2, JobMovesKeep
<1>3. ASSUME NEW s \in Sessions, Crash(s) PROVE EngineInv'
    BY <1>3, Quits DEF Crash
<1>4. ASSUME NEW s \in Sessions, TickLoad(s) \/ Advance(s) \/ Request(s) PROVE EngineInv'
    BY <1>4, TickLoadKeeps, AdvanceKeeps, RequestKeeps
<1> QED
    BY <1>1, <1>2, <1>3, <1>4 DEF Next

\* In every reachable state of the workflow engine the tables and what the open sessions remember of
\* them are in order: no step behind a gate has been taken up before the gate was cleared.
THEOREM EngineInvariance ==
    ASSUME EngineAssumption
    PROVE  Spec => []EngineInv
<1>1. Init => EngineInv
    BY EngineInit
<1>2. EngineInv /\ [Next]_vars => EngineInv'
    BY EngineNext
<1> QED
    BY <1>1, <1>2, PTL DEF Spec

\* No step behind an approval step becomes a job before somebody else than the run's starter and the
\* version's publisher has approved it: for every graph, whatever requests and ticks of advance_run
\* work on rows they read before others committed, and wherever they die.
THEOREM GatesHold ==
    ASSUME EngineAssumption
    PROVE  Spec => []GateHeld
<1>1. EngineInv => GateHeld
    BY DEF EngineInv, StoreOK, JobsOK, Earned, Cleared, GateHeld
<1> QED
    BY <1>1, EngineInvariance, PTL

\* A step never has two live jobs, whichever advances of the run overlap (create_job's look-up is
\* stale when it inserts; the partial unique index on dedup_key decides).
THEOREM StepsRunOnce ==
    ASSUME EngineAssumption
    PROVE  Spec => []OneLiveJob
<1>1. ASSUME EngineInv, NEW r \in Runs, NEW x \in Steps
      PROVE  Cardinality({n \in 1..Len(jobs[r][x]) : jobs[r][x][n] \in Live}) <= 1
  <2>1. PICK L : L = {n \in 1..Len(jobs[r][x]) : jobs[r][x][n] \in Live}
      OBVIOUS
  <2>2. Cardinality(L) <= 1
    <3>1. CASE L = {}
        BY <3>1, FS_EmptySet
    <3>2. CASE L # {}
      <4>1. PICK n : n \in L
          BY <3>2
      <4>2. L = {n}
          BY <1>1, <2>1, <4>1 DEF EngineInv, StoreOK, KeyIndex
      <4> QED
          BY <4>2, FS_Singleton
    <3> QED
        BY <3>1, <3>2
  <2> QED
      BY <2>1, <2>2
<1>2. EngineInv => OneLiveJob
    BY <1>1 DEF OneLiveJob
<1> QED
    BY <1>2, EngineInvariance, PTL

=============================================================================
