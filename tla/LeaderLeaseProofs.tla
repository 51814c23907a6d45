------------------------ MODULE LeaderLeaseProofs ------------------------
(***************************************************************************)
(* Theorems about the scheduler's leader lease, for every number of        *)
(* replicas and assessments and any crashes: what holds as long as no live *)
(* holder lets its lease run out, and what holds when one may.             *)
(***************************************************************************)
EXTENDS LeaderLease, TLAPS, FiniteSetTheorems

\* The name for an absent key is nobody's, and ticks come before the time to live is over.
\* (With "slow" in Ops a live holder may be late; then LeaderIsUnique fails.)
PunctualAssumption == "none" \notin Replicas /\ "slow" \notin Ops

Got == [op : {"got"}, holder : Replicas \cup {"none"}, same : BOOLEAN]
Busy == [op : {"claim", "run"}, a : Assessments]

LeaseTypeOK ==
    /\ key \in Replicas \cup {"none"}
    /\ up \subseteq Replicas
    /\ tick \in [Replicas -> {Idle} \cup Got]
    /\ leader \in [Replicas -> BOOLEAN]
    /\ row \in [Assessments -> {"none", "PENDING", "RUNNING", "COMPLETED", "FAILED"}]
    /\ poll \in [Replicas -> {Idle} \cup Busy]
    /\ runs \in [Assessments -> Nat]

\* A replica that believes it leads runs and holds the key, and what its elector has read since says
\* so; a reader whose revision is still the key's has read the key.
HolderInv ==
    \A r \in Replicas :
        /\ leader[r] => r \in up /\ key = r
        /\ leader[r] /\ tick[r].op = "got" => tick[r].holder = r /\ tick[r].same
        /\ tick[r].op = "got" /\ tick[r].same => key = tick[r].holder
        /\ tick[r].op = "got" => r \in up
        /\ poll[r].op # "idle" => leader[r]

\* Only the leader's poller is at work, and its row is where the poller thinks it is.
QueueInv ==
    /\ \A r \in Replicas :
          /\ poll[r].op = "claim" => row[poll[r].a] = "PENDING"
          /\ poll[r].op = "run" => row[poll[r].a] = "RUNNING"
    /\ \A a \in Assessments :
          /\ row[a] \in {"none", "PENDING"} => runs[a] = 0
          /\ runs[a] <= 1

LeaseInv == LeaseTypeOK /\ HolderInv /\ QueueInv

-----------------------------------------------------------------------------

\* A record an elector holds is told from the empty one by its op.
LEMMA TickShape ==
    ASSUME LeaseTypeOK, NEW r \in Replicas
    PROVE  /\ tick[r] = Idle <=> tick[r].op = "idle"
           /\ tick[r] # Idle => /\ tick[r].op = "got" /\ tick[r].holder \in Replicas \cup {"none"}
                                /\ tick[r].same \in BOOLEAN
                                /\ [tick[r] EXCEPT !.same = FALSE] \in Got
                                /\ [tick[r] EXCEPT !.same = FALSE].same = FALSE
                                /\ [tick[r] EXCEPT !.same = FALSE].op = "got"
                                /\ [tick[r] EXCEPT !.same = FALSE].holder = tick[r].holder
           /\ poll[r] = Idle <=> poll[r].op = "idle"
           /\ poll[r] # Idle => poll[r].op \in {"claim", "run"} /\ poll[r].a \in Assessments
<1>1. Idle.op = "idle"
    BY DEF Idle
<1>2. tick[r] \in {Idle} \cup Got /\ poll[r] \in {Idle} \cup Busy
    BY DEF LeaseTypeOK
<1>3. \A t \in Got : t.op = "got" /\ t.holder \in Replicas \cup {"none"} /\ t.same \in BOOLEAN
    BY DEF Got
<1>4. ASSUME NEW t \in Got
      PROVE  /\ [t EXCEPT !.same = FALSE] \in Got
             /\ [t EXCEPT !.same = FALSE].same = FALSE
             /\ [t EXCEPT !.same = FALSE].op = "got"
             /\ [t EXCEPT !.same = FALSE].holder = t.holder
    BY DEF Got
<1>5. \A p \in Busy : p.op \in {"claim", "run"} /\ p.a \in Assessments
    BY DEF Busy
<1>6. poll[r] = Idle <=> poll[r].op = "idle"
    BY <1>1, <1>2, <1>5
<1>7. poll[r] # Idle => poll[r].op \in {"claim", "run"} /\ poll[r].a \in Assessments
    BY <1>2, <1>5
<1>8. tick[r] = Idle <=> tick[r].op = "idle"
    BY <1>1, <1>2, <1>3
<1>9. ASSUME tick[r] # Idle
      PROVE  /\ tick[r].op = "got" /\ tick[r].holder \in Replicas \cup {"none"}
             /\ tick[r].same \in BOOLEAN
             /\ [tick[r] EXCEPT !.same = FALSE] \in Got
             /\ [tick[r] EXCEPT !.same = FALSE].same = FALSE
             /\ [tick[r] EXCEPT !.same = FALSE].op = "got"
             /\ [tick[r] EXCEPT !.same = FALSE].holder = tick[r].holder
    <2>1. tick[r] \in Got
        BY <1>2, <1>9
    <2> QED
        BY <1>3, <1>4, <2>1
<1> QED
    BY <1>6, <1>7, <1>8, <1>9

\* A read keeps the invariant: it copies the key as it is.
LEMMA GetStep ==
    ASSUME PunctualAssumption, LeaseInv, NEW r \in Replicas, Get(r)
    PROVE  LeaseInv'
<1>1. tick' = [tick EXCEPT ![r] = [op |-> "got", holder |-> key, same |-> TRUE]]
      /\ r \in up /\ UNCHANGED <<key, up, leader, row, poll, runs>>
    BY DEF Get, queue
<1>2. [op |-> "got", holder |-> key, same |-> TRUE] \in Got
    BY DEF LeaseInv, LeaseTypeOK, Got
<1>3. LeaseTypeOK'
    BY <1>1, <1>2 DEF LeaseInv, LeaseTypeOK
<1>4. HolderInv'
    <2>1. \A q \in Replicas : q # r => tick'[q] = tick[q]
        BY <1>1 DEF LeaseInv, LeaseTypeOK
    <2>2. tick'[r].op = "got" /\ tick'[r].holder = key /\ tick'[r].same
        BY <1>1 DEF LeaseInv, LeaseTypeOK
    <2> QED
        BY <1>1, <2>1, <2>2 DEF LeaseInv, HolderInv
<1>5. QueueInv'
    BY <1>1 DEF LeaseInv, QueueInv
<1> QED
    BY <1>3, <1>4, <1>5 DEF LeaseInv

\* A write that succeeds finds no other leader: the key was absent or the writer's own.
LEMMA WonStep ==
    ASSUME PunctualAssumption, LeaseInv, NEW r \in Replicas, r \in up, tick[r].op = "got",
           tick[r].holder \in {"none", r}, PutSucceeds(tick[r]),
           key' = r, leader' = [leader EXCEPT ![r] = TRUE], tick' = Stale(r),
           UNCHANGED <<up, row, poll, runs>>
    PROVE  LeaseInv'
<1>1. key \in {"none", r}
    BY DEF PutSucceeds, LeaseInv, HolderInv
<1>2. \A q \in Replicas : leader[q] => q = r
    BY <1>1 DEF PunctualAssumption, LeaseInv, HolderInv
<1>3. \A q \in Replicas : tick'[q] = IF q = r \/ tick[q] = Idle THEN Idle ELSE [tick[q] EXCEPT !.same = FALSE]
    BY DEF Stale
<1>4. LeaseTypeOK'
    <2>1. \A q \in Replicas : tick'[q] \in {Idle} \cup Got
        BY <1>3, TickShape DEF LeaseInv
    <2>2. tick' \in [Replicas -> {Idle} \cup Got]
        BY <2>1 DEF Stale
    <2> QED
        BY <2>2 DEF LeaseInv, LeaseTypeOK
<1>5. HolderInv'
    <2> SUFFICES ASSUME NEW q \in Replicas
                 PROVE  /\ leader'[q] => q \in up' /\ key' = q
                        /\ leader'[q] /\ tick'[q].op = "got" => tick'[q].holder = q /\ tick'[q].same
                        /\ tick'[q].op = "got" /\ tick'[q].same => key' = tick'[q].holder
                        /\ tick'[q].op = "got" => q \in up'
                        /\ poll'[q].op # "idle" => leader'[q]
        BY DEF HolderInv
    <2>1. leader'[q] = (leader[q] \/ q = r)
        BY DEF LeaseInv, LeaseTypeOK
    <2>2. CASE q = r
        <3>1. tick'[q] = Idle
            BY <1>3, <2>2
        <3>2. tick'[q].op = "idle"
            BY <3>1 DEF Idle
        <3> QED
            BY <2>1, <2>2, <3>2
    <2>3. CASE q # r
        <3>1. ~leader'[q]
            BY <1>2, <2>1, <2>3
        <3>2. tick'[q].op = "got" => tick[q].op = "got" /\ ~tick'[q].same
            BY <1>3, <2>3, TickShape DEF LeaseInv, Idle
        <3> QED
            BY <2>1, <3>1, <3>2 DEF LeaseInv, HolderInv
    <2> QED
        BY <2>2, <2>3
<1>6. QueueInv'
    BY DEF LeaseInv, QueueInv
<1> QED
    BY <1>4, <1>5, <1>6 DEF LeaseInv

\* A write that fails, or is not tried, was not the leader's.
LEMMA LostStep ==
    ASSUME PunctualAssumption, LeaseInv, NEW r \in Replicas, tick[r].op = "got",
           ~(tick[r].holder \in {"none", r} /\ PutSucceeds(tick[r])),
           leader' = [leader EXCEPT ![r] = FALSE], tick' = [tick EXCEPT ![r] = Idle],
           UNCHANGED <<key, up, row, poll, runs>>
    PROVE  LeaseInv'
<1>1. ~leader[r]
    BY DEF PutSucceeds, PunctualAssumption, LeaseInv, HolderInv
<1>2. leader' = leader
    BY <1>1 DEF LeaseInv, LeaseTypeOK
<1>3. LeaseTypeOK'
    BY DEF LeaseInv, LeaseTypeOK
<1>4. \A q \in Replicas : tick'[q] = tick[q] \/ tick'[q].op = "idle"
    BY DEF LeaseInv, LeaseTypeOK, Idle
<1>5. HolderInv' /\ QueueInv'
    BY <1>2, <1>4 DEF LeaseInv, HolderInv, QueueInv
<1> QED
    BY <1>3, <1>5 DEF LeaseInv

\* The key expires only under a holder that is gone, and a leader is not.
LEMMA ExpireStep ==
    ASSUME PunctualAssumption, LeaseInv, Expire
    PROVE  LeaseInv'
<1>1. key \notin up /\ key' = "none" /\ UNCHANGED <<up, leader, row, poll, runs>>
    BY DEF Expire, PunctualAssumption, queue
<1>2. \A q \in Replicas : ~leader[q]
    BY <1>1 DEF LeaseInv, HolderInv
<1>3. tick' = [q \in Replicas |-> IF tick[q] = Idle THEN Idle ELSE [tick[q] EXCEPT !.same = FALSE]]
    BY DEF Expire
<1>4. LeaseTypeOK'
    <2>1. \A q \in Replicas : tick'[q] \in {Idle} \cup Got
        BY <1>3, TickShape DEF LeaseInv
    <2>2. tick' \in [Replicas -> {Idle} \cup Got]
        BY <1>3, <2>1
    <2> QED
        BY <1>1, <2>2 DEF LeaseInv, LeaseTypeOK
<1>5. \A q \in Replicas : tick'[q].op = "got" => tick[q].op = "got" /\ ~tick'[q].same
    BY <1>3, TickShape DEF LeaseInv, Idle
<1>6. HolderInv' /\ QueueInv'
    BY <1>1, <1>2, <1>5 DEF LeaseInv, HolderInv, QueueInv
<1> QED
    BY <1>4, <1>6 DEF LeaseInv

\* A crash forgets what the replica believed; the key stays until it expires.
LEMMA CrashStep ==
    ASSUME PunctualAssumption, LeaseInv, NEW r \in Replicas, Crash(r)
    PROVE  LeaseInv'
<1>1. /\ up' = up \ {r} /\ tick' = [tick EXCEPT ![r] = Idle]
      /\ leader' = [leader EXCEPT ![r] = FALSE] /\ poll' = [poll EXCEPT ![r] = Idle]
      /\ UNCHANGED <<key, row, runs>>
    BY DEF Crash
<1>2. LeaseTypeOK'
    BY <1>1 DEF LeaseInv, LeaseTypeOK
<1>3. /\ tick'[r].op = "idle" /\ ~leader'[r] /\ poll'[r].op = "idle"
      /\ \A q \in Replicas : q # r => tick'[q] = tick[q] /\ leader'[q] = leader[q] /\ poll'[q] = poll[q]
    BY <1>1 DEF LeaseInv, LeaseTypeOK, Idle
<1>4. HolderInv'
    BY <1>1, <1>3 DEF LeaseInv, HolderInv
<1>5. QueueInv'
    BY <1>1, <1>3 DEF LeaseInv, QueueInv
<1> QED
    BY <1>2, <1>4, <1>5 DEF LeaseInv

\* The poller that found a row is the leader's, and only it is at work.
LEMMA PollStep ==
    ASSUME PunctualAssumption, LeaseInv, NEW r \in Replicas, Poll(r)
    PROVE  LeaseInv'
<1>0. \A q \in Replicas : poll[q].op # "idle" /\ leader[r] => q = r
    BY DEF LeaseInv, HolderInv
<1>1. ASSUME NEW a \in Assessments, FindPending(r, a)
      PROVE  LeaseInv'
    <2>1. /\ leader[r] /\ row[a] = "PENDING" /\ UNCHANGED <<key, tick, leader, up, row, runs>>
          /\ poll' = [poll EXCEPT ![r] = [op |-> "claim", a |-> a]]
        BY <1>1 DEF FindPending, MayPoll, lease
    <2>2. [op |-> "claim", a |-> a] \in Busy
        BY DEF Busy
    <2>3. LeaseTypeOK'
        BY <2>1, <2>2 DEF LeaseInv, LeaseTypeOK
    <2>4. /\ poll'[r].op = "claim" /\ poll'[r].a = a
          /\ \A q \in Replicas : q # r => poll'[q] = poll[q]
        BY <2>1 DEF LeaseInv, LeaseTypeOK
    <2>5. HolderInv'
        BY <2>1, <2>4 DEF LeaseInv, HolderInv
    <2>6. QueueInv'
        BY <2>1, <2>4 DEF LeaseInv, QueueInv
    <2> QED
        BY <2>3, <2>5, <2>6 DEF LeaseInv
<1>2. CASE ClaimNextPendingAssessment(r)
    <2> DEFINE a == poll[r].a
    <2>1. /\ poll[r].op = "claim" /\ UNCHANGED <<key, tick, leader, up>>
          /\ row' = [row EXCEPT ![a] = "RUNNING"] /\ runs' = [runs EXCEPT ![a] = @ + 1]
          /\ poll' = [poll EXCEPT ![r] = [op |-> "run", a |-> a]]
        BY <1>2 DEF ClaimNextPendingAssessment, lease
    <2>2. a \in Assessments /\ leader[r] /\ row[a] = "PENDING" /\ runs[a] = 0
        BY <2>1, TickShape DEF LeaseInv, HolderInv, QueueInv, Idle
    <2> HIDE DEF a
    <2>3. [op |-> "run", a |-> a] \in Busy
        BY <2>2 DEF Busy
    <2>4. LeaseTypeOK'
        BY <2>1, <2>2, <2>3 DEF LeaseInv, LeaseTypeOK
    <2>5. /\ poll'[r].op = "run" /\ poll'[r].a = a
          /\ \A q \in Replicas : q # r => poll'[q] = poll[q] /\ poll[q].op = "idle"
        BY <1>0, <2>1, <2>2 DEF LeaseInv, LeaseTypeOK
    <2>6. HolderInv'
        BY <2>1, <2>2, <2>5 DEF LeaseInv, HolderInv
    <2>7. /\ row'[a] = "RUNNING" /\ runs'[a] = 1
          /\ \A b \in Assessments : b # a => row'[b] = row[b] /\ runs'[b] = runs[b]
        BY <2>1, <2>2 DEF LeaseInv, LeaseTypeOK
    <2>8. QueueInv'
        BY <2>5, <2>7 DEF LeaseInv, QueueInv
    <2> QED
        BY <2>4, <2>6, <2>8 DEF LeaseInv
<1>3. CASE FinishAssessment(r)
    <2>1. PICK end \in {"COMPLETED", "FAILED"} : row' = [row EXCEPT ![poll[r].a] = end]
        BY <1>3 DEF FinishAssessment
    <2>2. poll[r].op = "run" /\ poll' = [poll EXCEPT ![r] = Idle] /\ UNCHANGED <<key, tick, leader, up, runs>>
        BY <1>3 DEF FinishAssessment, lease
    <2>3. leader[r]
        BY <2>2 DEF LeaseInv, HolderInv
    <2>4. LeaseTypeOK'
        BY <2>1, <2>2 DEF LeaseInv, LeaseTypeOK
    <2>5. /\ poll'[r].op = "idle"
          /\ \A q \in Replicas : q # r => poll'[q] = poll[q] /\ poll[q].op = "idle"
        BY <1>0, <2>2, <2>3 DEF LeaseInv, LeaseTypeOK, Idle
    <2>6. \A b \in Assessments : row'[b] \in {row[b], "COMPLETED", "FAILED"}
        BY <2>1 DEF LeaseInv, LeaseTypeOK
    <2>7. HolderInv'
        BY <2>2, <2>5 DEF LeaseInv, HolderInv
    <2>8. QueueInv'
        BY <2>2, <2>5, <2>6 DEF LeaseInv, QueueInv
    <2> QED
        BY <2>4, <2>7, <2>8 DEF LeaseInv
<1> QED
    BY <1>1, <1>2, <1>3 DEF Poll

\* Every step keeps the invariant.
LEMMA LeaseNext ==
    ASSUME PunctualAssumption, LeaseInv, [Next]_vars
    PROVE  LeaseInv'
<1>1. ASSUME NEW r \in Replicas, Tick(r)
      PROVE  LeaseInv'
    BY <1>1, WonStep, LostStep DEF Tick, queue
<1>2. ASSUME NEW r \in Replicas, Restart(r)
      PROVE  LeaseInv'
    BY <1>2 DEF Restart, lease, queue, LeaseInv, LeaseTypeOK, HolderInv, QueueInv
<1>3. ASSUME NEW a \in Assessments, CreateAssessment(a)
      PROVE  LeaseInv'
    <2>1. /\ row[a] = "none" /\ row' = [row EXCEPT ![a] = "PENDING"]
          /\ UNCHANGED <<key, tick, leader, up, poll, runs>>
        BY <1>3 DEF CreateAssessment, lease
    <2>2. LeaseTypeOK' /\ HolderInv'
        BY <2>1 DEF LeaseInv, LeaseTypeOK, HolderInv
    <2>3. row'[a] = "PENDING" /\ \A b \in Assessments : b # a => row'[b] = row[b]
        BY <2>1 DEF LeaseInv, LeaseTypeOK
    <2>4. \A r \in Replicas : poll[r].op \in {"claim", "run"} => poll[r].a \in Assessments /\ poll[r].a # a
        BY <2>1, TickShape DEF LeaseInv, QueueInv, Idle
    <2>5. QueueInv'
        BY <2>1, <2>3, <2>4 DEF LeaseInv, QueueInv
    <2> QED
        BY <2>2, <2>5 DEF LeaseInv
<1>4. CASE UNCHANGED vars
    BY <1>4 DEF vars, LeaseInv, LeaseTypeOK, HolderInv, QueueInv
<1> QED
    BY <1>1, <1>2, <1>3, <1>4, GetStep, ExpireStep, CrashStep, PollStep DEF Next, Elect

\* The invariant holds in every reachable state.
THEOREM LeaseInvariance ==
    ASSUME PunctualAssumption PROVE Spec => []LeaseInv
<1>1. Init => LeaseInv
    BY DEF Init, LeaseInv, LeaseTypeOK, HolderInv, QueueInv, Idle
<1>2. LeaseInv /\ [Next]_vars => LeaseInv'
    BY LeaseNext
<1> QED
    BY <1>1, <1>2, PTL DEF Spec

\* Two replicas are never leader at once, for any number of them and however their reads and
\* writes of the key, their crashes and the expiry of a dead holder's key interleave.
THEOREM LeaderIsUnique ==
    ASSUME PunctualAssumption PROVE Spec => []OneLeader
<1>1. LeaseInv => OneLeader
    <2> SUFFICES ASSUME LeaseInv PROVE OneLeader
        OBVIOUS
    <2>1. {r \in up : leader[r]} \subseteq {key}
        BY DEF LeaseInv, LeaseTypeOK, HolderInv
    <2>2. IsFiniteSet({key}) /\ Cardinality({key}) = 1
        BY FS_Singleton
    <2> QED
        BY <2>1, <2>2, FS_Subset, FS_CardinalityType DEF OneLeader
<1> QED
    BY <1>1, LeaseInvariance, PTL

-----------------------------------------------------------------------------
(* Late leaders.  From here on nothing is assumed about the constants.      *)

\* No replica believes it leads while another one has an assessment in hand.
AloneAtWork == \A q, r \in Replicas : poll[q] # Idle /\ leader[r] => q = r

OneBusy == \A q, r \in Replicas : poll[q] # Idle /\ poll[r] # Idle => q = r

WorkInv == LeaseTypeOK /\ QueueInv /\ OneBusy

LEMMA StaleShape ==
    ASSUME LeaseTypeOK, NEW r
    PROVE  Stale(r) \in [Replicas -> {Idle} \cup Got]
<1>1. ASSUME NEW q \in Replicas PROVE [tick[q] EXCEPT !.same = FALSE] \in Got \/ tick[q] = Idle
    BY TickShape
<1> QED
    BY <1>1 DEF Stale

\* Electing leaves the assessments alone, except that a replica that dies drops its own.
LEMMA ElectionKeepsWork ==
    ASSUME WorkInv, NEW r \in Replicas, Elect(r) \/ Crash(r) \/ Restart(r)
    PROVE  WorkInv'
<1>1. CASE Get(r)
  <2>1. /\ tick' = [tick EXCEPT ![r] = [op |-> "got", holder |-> key, same |-> TRUE]]
        /\ UNCHANGED <<key, up, leader, row, poll, runs>>
      BY <1>1 DEF Get, queue
  <2>2. [op |-> "got", holder |-> key, same |-> TRUE] \in Got
      BY DEF WorkInv, LeaseTypeOK, Got
  <2> QED
      BY <2>1, <2>2 DEF WorkInv, LeaseTypeOK, QueueInv, OneBusy
<1>2. CASE Tick(r)
  <2>1. /\ key' \in {key, r} /\ UNCHANGED <<up, row, poll, runs>>
        /\ \E b \in BOOLEAN : leader' = [leader EXCEPT ![r] = b]
        /\ tick' = Stale(r) \/ tick' = [tick EXCEPT ![r] = Idle]
      BY <1>2 DEF Tick, queue
  <2>2. tick' \in [Replicas -> {Idle} \cup Got]
      BY <2>1, StaleShape DEF WorkInv, LeaseTypeOK
  <2> QED
      BY <2>1, <2>2 DEF WorkInv, LeaseTypeOK, QueueInv, OneBusy
<1>3. CASE Crash(r)
  <2>1. /\ up' = up \ {r} /\ tick' = [tick EXCEPT ![r] = Idle]
        /\ leader' = [leader EXCEPT ![r] = FALSE] /\ poll' = [poll EXCEPT ![r] = Idle]
        /\ UNCHANGED <<key, row, runs>>
      BY <1>3 DEF Crash
  <2>2. LeaseTypeOK'
      BY <2>1 DEF WorkInv, LeaseTypeOK
  <2>3. poll'[r] = Idle /\ \A q \in Replicas : q # r => poll'[q] = poll[q]
      BY <2>1 DEF WorkInv, LeaseTypeOK
  <2>4. QueueInv' /\ OneBusy'
      BY <2>1, <2>3 DEF WorkInv, QueueInv, OneBusy, Idle
  <2> QED
      BY <2>2, <2>4 DEF WorkInv
<1>4. CASE Restart(r)
    BY <1>4 DEF Restart, lease, queue, WorkInv, LeaseTypeOK, QueueInv, OneBusy
<1> QED
    BY <1>1, <1>2, <1>3, <1>4 DEF Elect

LEMMA ExpiryKeepsWork ==
    ASSUME WorkInv, Expire
    PROVE  WorkInv'
<1>1. key' = "none" /\ UNCHANGED <<up, leader, row, poll, runs>>
    BY DEF Expire, queue
<1>2. tick' = [q \in Replicas |-> IF tick[q] = Idle THEN Idle ELSE [tick[q] EXCEPT !.same = FALSE]]
    BY DEF Expire
<1>3. \A q \in Replicas : tick'[q] \in {Idle} \cup Got
    BY <1>2, TickShape DEF WorkInv
<1>4. tick' \in [Replicas -> {Idle} \cup Got]
    BY <1>2, <1>3
<1> QED
    BY <1>1, <1>4 DEF WorkInv, LeaseTypeOK, QueueInv, OneBusy

\* A poller that looks for work is a leader's, so that no other one has any.
LEMMA FindKeepsWork ==
    ASSUME WorkInv, AloneAtWork, NEW r \in Replicas, NEW b \in Assessments, FindPending(r, b)
    PROVE  WorkInv'
<1>1. /\ leader[r] /\ poll[r] = Idle /\ row[b] = "PENDING"
      /\ poll' = [poll EXCEPT ![r] = [op |-> "claim", a |-> b]]
      /\ UNCHANGED <<key, tick, leader, up, row, runs>>
    BY DEF FindPending, MayPoll, lease
<1>2. [op |-> "claim", a |-> b] \in Busy
    BY DEF Busy
<1>3. LeaseTypeOK'
    BY <1>1, <1>2 DEF WorkInv, LeaseTypeOK
<1>4. /\ poll'[r].op = "claim" /\ poll'[r].a = b
      /\ \A q \in Replicas : q # r => poll'[q] = poll[q] /\ poll[q] = Idle
    BY <1>1 DEF WorkInv, LeaseTypeOK, AloneAtWork
<1>5. QueueInv' /\ OneBusy'
    BY <1>1, <1>4 DEF WorkInv, QueueInv, OneBusy, Idle
<1> QED
    BY <1>3, <1>5 DEF WorkInv

\* The row a poller found is still PENDING when it claims it, though nothing looks again.
LEMMA ClaimKeepsWork ==
    ASSUME WorkInv, NEW r \in Replicas, ClaimNextPendingAssessment(r)
    PROVE  WorkInv'
<1>1. PICK b : b = poll[r].a
    OBVIOUS
<1>2. /\ poll[r].op = "claim" /\ UNCHANGED <<key, tick, leader, up>>
      /\ row' = [row EXCEPT ![b] = "RUNNING"] /\ runs' = [runs EXCEPT ![b] = @ + 1]
      /\ poll' = [poll EXCEPT ![r] = [op |-> "run", a |-> b]]
    BY <1>1 DEF ClaimNextPendingAssessment, lease
<1>3. b \in Assessments /\ poll[r] # Idle /\ row[b] = "PENDING" /\ runs[b] = 0
    BY <1>1, <1>2, TickShape DEF WorkInv, QueueInv, Idle
<1>4. [op |-> "run", a |-> b] \in Busy
    BY <1>3 DEF Busy
<1>5. LeaseTypeOK'
    BY <1>2, <1>3, <1>4 DEF WorkInv, LeaseTypeOK
<1>6. /\ poll'[r].op = "run" /\ poll'[r].a = b
      /\ \A q \in Replicas : q # r => poll'[q] = poll[q] /\ poll[q] = Idle
    BY <1>2, <1>3 DEF WorkInv, LeaseTypeOK, OneBusy
<1>7. /\ row'[b] = "RUNNING" /\ runs'[b] = 1
      /\ \A c \in Assessments : c # b => row'[c] = row[c] /\ runs'[c] = runs[c]
    BY <1>2, <1>3 DEF WorkInv, LeaseTypeOK
<1>8. QueueInv' /\ OneBusy'
    BY <1>6, <1>7 DEF WorkInv, QueueInv, OneBusy, Idle
<1> QED
    BY <1>5, <1>8 DEF WorkInv

LEMMA FinishKeepsWork ==
    ASSUME WorkInv, NEW r \in Replicas, FinishAssessment(r)
    PROVE  WorkInv'
<1>1. PICK end \in {"COMPLETED", "FAILED"} : row' = [row EXCEPT ![poll[r].a] = end]
    BY DEF FinishAssessment
<1>2. /\ poll[r].op = "run" /\ poll' = [poll EXCEPT ![r] = Idle]
      /\ UNCHANGED <<key, tick, leader, up, runs>>
    BY DEF FinishAssessment, lease
<1>3. LeaseTypeOK'
    BY <1>1, <1>2 DEF WorkInv, LeaseTypeOK
<1>4. poll[r] # Idle
    BY <1>2 DEF Idle
<1>5. \A q \in Replicas : poll'[q] = Idle
    BY <1>2, <1>4 DEF WorkInv, LeaseTypeOK, OneBusy
<1>6. \A c \in Assessments : row'[c] \in {row[c], "COMPLETED", "FAILED"}
    BY <1>1 DEF WorkInv, LeaseTypeOK
<1>7. QueueInv' /\ OneBusy'
    BY <1>2, <1>5, <1>6 DEF WorkInv, QueueInv, OneBusy, Idle
<1> QED
    BY <1>3, <1>7 DEF WorkInv

LEMMA CreationKeepsWork ==
    ASSUME WorkInv, NEW b \in Assessments, CreateAssessment(b)
    PROVE  WorkInv'
<1>1. /\ row[b] = "none" /\ row' = [row EXCEPT ![b] = "PENDING"]
      /\ UNCHANGED <<key, tick, leader, up, poll, runs>>
    BY DEF CreateAssessment, lease
<1>2. LeaseTypeOK' /\ OneBusy'
    BY <1>1 DEF WorkInv, LeaseTypeOK, OneBusy
<1>3. row'[b] = "PENDING" /\ \A c \in Assessments : c # b => row'[c] = row[c]
    BY <1>1 DEF WorkInv, LeaseTypeOK
<1>4. \A r \in Replicas : poll[r].op \in {"claim", "run"} => poll[r].a \in Assessments /\ poll[r].a # b
    BY <1>1, TickShape DEF WorkInv, QueueInv, Idle
<1>5. QueueInv'
    BY <1>1, <1>3, <1>4 DEF WorkInv, QueueInv
<1> QED
    BY <1>2, <1>5 DEF WorkInv

LEMMA WorkNext ==
    ASSUME WorkInv, AloneAtWork, [Next]_vars
    PROVE  WorkInv'
<1>1. CASE UNCHANGED vars
    BY <1>1 DEF vars, WorkInv, LeaseTypeOK, QueueInv, OneBusy
<1> QED
    BY <1>1, ElectionKeepsWork, ExpiryKeepsWork, FindKeepsWork, ClaimKeepsWork, FinishKeepsWork,
       CreationKeepsWork DEF Next, Poll

\* Leaders may be late, and several at once: as long as none believes it leads while another
\* one has an assessment in hand, no assessment is started twice, although the claim does not
\* look at the row's status again.
THEOREM AssessmentsRunOnce == Spec /\ []AloneAtWork => []AssessedOnce
<1>1. Init => WorkInv
    BY DEF Init, WorkInv, LeaseTypeOK, QueueInv, OneBusy, Idle
<1>2. WorkInv /\ AloneAtWork /\ [Next]_vars => WorkInv'
    BY WorkNext
<1>3. WorkInv => AssessedOnce
    BY DEF WorkInv, QueueInv, AssessedOnce
<1> QED
    BY <1>1, <1>2, <1>3, PTL DEF Spec

\* So it is when live holders renew their lease in time.
THEOREM PunctualLeadersRunOnce ==
    ASSUME PunctualAssumption PROVE Spec => []AssessedOnce
<1>1. LeaseInv => AloneAtWork
  <2> SUFFICES ASSUME LeaseInv, NEW q \in Replicas, NEW r \in Replicas, poll[q] # Idle, leader[r]
               PROVE  q = r
      BY DEF AloneAtWork
  <2>1. poll[q].op # "idle"
      BY TickShape DEF LeaseInv
  <2> QED
      BY <2>1 DEF LeaseInv, HolderInv
<1> QED
    BY <1>1, LeaseInvariance, AssessmentsRunOnce, PTL
=============================================================================
