----------------------- MODULE ControlPlaneProofs -----------------------
(***************************************************************************)
(* What operators change through the API while workers and other requests  *)
(* act on it: the keys that sign jobs, agent policies, workflows with      *)
(* their schedule, remediation plans, policy sets and the content they are *)
(* made of.  Each change reads first and writes later.                     *)
(***************************************************************************)
EXTENDS PolicyCatalog, Sequences, SequenceTheorems, FiniteSetTheorems, WellFoundedInduction, TLAPS

CONSTANTS Procs, Agents, MaxKeys, Serial, Runbook, Playbook, Required, Faults, MaxFaults

VARIABLES meta, file, keys, legacy, req, ready, cache, agent, flight, rejected, unsigned, faults

Keys == INSTANCE KeyRing

CONSTANTS Contents, Unfit, Replicas, MaxTime, Events

VARIABLES version, current, nextRun, now, edit, rep, fired

Flow == INSTANCE WorkflowCatalog WITH req <- edit

CONSTANTS Plans, Operations, Modes, Windowed, InScope, Verifiable, Cap, MaxJobs, MaxDay, MaxCrash, MaxEvals, Reports

VARIABLES plan, jobs, drift, verdict, open, day, pass, sweep, crashes

Rem == INSTANCE RemediationPlan WITH Kinds <- Operations, sess <- pass

CONSTANTS Rules, Curated, Cis, Minor, Overrides, Slugs, Ops, MaxSets, MaxAssignments, MaxImports, MaxBoots, Workers

VARIABLES sets, cat, assigned, txn, job, release, booting

Sets == INSTANCE PolicySets WITH asg <- assigned

\* A first version fits.
VersionAssumption == MaxVersion \in Nat \ {0}

-----------------------------------------------------------------------------
(* Signing keys: a registered version has its file.                        *)

States == {"none", "VERIFY_ONLY", "ACTIVE", "RETIRED"}

\* Where an operation may stand.
Making     == {"stage", "rotate", "boot"}
Activating == {"rotate", "boot", "activate"}

KeyOperation ==
    [op : {"idle"}, at : {"idle"}, v : Keys!Versions, seen : [Keys!Versions -> States]]
    \cup [op : Making, at : {"create", "created"}, v : Keys!Versions, seen : [Keys!Versions -> States]]
    \cup [op : Activating, at : {"activate", "activated"}, v : Keys!Versions, seen : [Keys!Versions -> States]]
    \cup [op : {"retire"}, at : {"retire", "retired"}, v : Keys!Versions, seen : [Keys!Versions -> States]]

KeyTypeOK ==
    /\ meta \in [Keys!Versions -> States]
    /\ file \in [Keys!Versions -> Nat]
    /\ keys \in Nat
    /\ req \in [Procs -> KeyOperation]

\* Whatever an operation has read and may write back, the files are there.
FileInv ==
    /\ \A v \in Keys!Versions : meta[v] # "none" => file[v] # 0
    /\ \A p \in Procs : req[p].at \in {"created", "activated", "retired"} =>
          /\ file[req[p].v] # 0
          /\ \A v \in Keys!Versions : req[p].seen[v] # "none" => file[v] # 0

\* One operation's progress: what it was, what it becomes.
LEMMA KeyIdle ==
    ASSUME VersionAssumption
    PROVE  /\ Keys!Idle \in KeyOperation
           /\ Keys!Idle.op = "idle" /\ Keys!Idle.at = "idle" /\ Keys!Idle.v = 1
           /\ 1 \in Keys!Versions
BY DEF VersionAssumption, Keys!Idle, KeyOperation, Keys!Versions, States

LEMMA KeyFields ==
    ASSUME NEW r \in KeyOperation
    PROVE  /\ r.v \in Keys!Versions /\ r.seen \in [Keys!Versions -> States]
           /\ r.at \in {"idle", "create", "created", "activate", "activated", "retire", "retired"}
           /\ r.op = "idle" <=> r.at = "idle"
           /\ r.at \in {"create", "created"} => r.op \in Making
           /\ r.at \in {"activate", "activated"} => r.op \in Activating
           /\ r.at \in {"retire", "retired"} => r.op = "retire"
BY DEF KeyOperation, Making, Activating

\* The next stage of an operation.
LEMMA KeyStage ==
    ASSUME NEW r \in KeyOperation, NEW m \in [Keys!Versions -> States]
    PROVE  /\ r.at = "create" => [r EXCEPT !.at = "created", !.seen = m] \in KeyOperation
           /\ r.at = "created" /\ r.op # "stage" => [r EXCEPT !.at = "activate"] \in KeyOperation
           /\ r.at = "activate" => [r EXCEPT !.at = "activated", !.seen = m] \in KeyOperation
           /\ r.at = "retire" => [r EXCEPT !.at = "retired", !.seen = m] \in KeyOperation
BY DEF KeyOperation, Making, Activating

\* An operation that begins.
LEMMA KeyBegin ==
    ASSUME VersionAssumption, NEW v \in Keys!Versions, NEW op, NEW at,
           \/ op \in Making /\ at = "create"
           \/ op = "activate" /\ at = "activate"
           \/ op = "retire" /\ at = "retire"
    PROVE  [Keys!Idle EXCEPT !.op = op, !.at = at, !.v = v] \in KeyOperation
BY DEF VersionAssumption, Keys!Idle, KeyOperation, Keys!Versions, States, Making, Activating

\* What one step does to the metadata, the files and the operations.  Either process p begins an
\* operation, or it goes on with the one it has, or neither changes.
KeyStarts(p, r) ==
    /\ Keys!Quiet(p) /\ req' = [req EXCEPT ![p] = r]
    /\ r \in KeyOperation /\ r.at \in {"create", "activate", "retire"}
    /\ UNCHANGED <<meta, file, keys>>

KeyReads(p, r) ==
    /\ req' = [req EXCEPT ![p] = r] /\ r \in KeyOperation
    /\ r.v = req[p].v /\ r.op = req[p].op /\ r.seen = meta
    /\ \/ /\ req[p].at = "create" /\ r.at = "created" /\ meta[r.v] = "none"
          /\ file' = [file EXCEPT ![r.v] = keys + 1] /\ keys' = keys + 1
       \/ /\ req[p].at = "activate" /\ r.at = "activated" /\ meta[r.v] # "none" /\ UNCHANGED <<file, keys>>
       \/ /\ req[p].at = "retire" /\ r.at = "retired" /\ meta[r.v] # "none" /\ UNCHANGED <<file, keys>>
    /\ UNCHANGED meta

KeyWrites(p, r) ==
    /\ req' = [req EXCEPT ![p] = r] /\ r \in KeyOperation
    /\ \/ /\ req[p].at = "created" /\ meta' = [req[p].seen EXCEPT ![req[p].v] = "VERIFY_ONLY"]
          /\ r = Keys!Idle \/ (r.at = "activate" /\ r.v = req[p].v /\ r.op = req[p].op)
       \/ /\ req[p].at = "activated" /\ meta' = Keys!Activated(req[p].seen, req[p].v)
          /\ r = Keys!Idle
       \/ /\ req[p].at = "retired" /\ meta' = [req[p].seen EXCEPT ![req[p].v] = "RETIRED"]
          /\ r = Keys!Idle
    /\ UNCHANGED <<file, keys>>

KeyGivesUp(p) == req' = [req EXCEPT ![p] = Keys!Idle] /\ UNCHANGED <<meta, file, keys>>

KeyMove == \/ \E p \in Procs, r \in KeyOperation : KeyStarts(p, r) \/ KeyReads(p, r) \/ KeyWrites(p, r)
           \/ \E p \in Procs : KeyGivesUp(p)
           \/ UNCHANGED <<meta, file, keys, req>>

LEMMA KeyMoves ==
    ASSUME VersionAssumption, KeyTypeOK, [Keys!Next]_(Keys!vars)
    PROVE  KeyMove
<1>0. \A p \in Procs : req[p] \in KeyOperation
    BY DEF KeyTypeOK
<1>1. ASSUME NEW p \in Procs, Keys!CreateRead(p) PROVE KeyMove
  <2>1. PICK r : r = [req[p] EXCEPT !.at = "created", !.seen = meta]
      OBVIOUS
  <2>2. r \in KeyOperation
      BY <1>0, <1>1, <2>1, KeyStage DEF Keys!CreateRead, KeyTypeOK
  <2>3. r.at = "created" /\ r.v = req[p].v /\ r.op = req[p].op /\ r.seen = meta
      BY <1>0, <2>1 DEF KeyOperation
  <2>4. req' = [req EXCEPT ![p] = r]
      BY <1>1, <2>1 DEF Keys!CreateRead, KeyTypeOK
  <2>5. KeyReads(p, r)
      BY <1>1, <2>2, <2>3, <2>4 DEF Keys!CreateRead, KeyReads
  <2> QED
      BY <2>2, <2>5 DEF KeyMove
<1>2. ASSUME NEW p \in Procs, Keys!ActivateRead(p) PROVE KeyMove
  <2>1. PICK r : r = [req[p] EXCEPT !.at = "activated", !.seen = meta]
      OBVIOUS
  <2>2. r \in KeyOperation
      BY <1>0, <1>2, <2>1, KeyStage DEF Keys!ActivateRead, KeyTypeOK
  <2>3. r.at = "activated" /\ r.v = req[p].v /\ r.op = req[p].op /\ r.seen = meta
      BY <1>0, <2>1 DEF KeyOperation
  <2>4. req' = [req EXCEPT ![p] = r]
      BY <1>2, <2>1 DEF Keys!ActivateRead, KeyTypeOK
  <2>5. KeyReads(p, r)
      BY <1>2, <2>2, <2>3, <2>4 DEF Keys!ActivateRead, KeyReads
  <2> QED
      BY <2>2, <2>5 DEF KeyMove
<1>3. ASSUME NEW p \in Procs, Keys!RetireRead(p) PROVE KeyMove
  <2>1. PICK r : r = [req[p] EXCEPT !.at = "retired", !.seen = meta]
      OBVIOUS
  <2>2. r \in KeyOperation
      BY <1>0, <1>3, <2>1, KeyStage DEF Keys!RetireRead, KeyTypeOK
  <2>3. r.at = "retired" /\ r.v = req[p].v /\ r.op = req[p].op /\ r.seen = meta
      BY <1>0, <2>1 DEF KeyOperation
  <2>4. req' = [req EXCEPT ![p] = r]
      BY <1>3, <2>1 DEF Keys!RetireRead, KeyTypeOK
  <2>5. KeyReads(p, r)
      BY <1>3, <2>2, <2>3, <2>4 DEF Keys!RetireRead, KeyReads
  <2> QED
      BY <2>2, <2>5 DEF KeyMove
<1>4. ASSUME NEW p \in Procs, Keys!CreateWrite(p) PROVE KeyMove
  <2>1. PICK r : r = IF req[p].op = "stage" THEN Keys!Idle ELSE [req[p] EXCEPT !.at = "activate"]
      OBVIOUS
  <2>2. r \in KeyOperation
      BY <1>0, <1>4, <2>1, KeyStage, KeyIdle DEF Keys!CreateWrite, KeyTypeOK
  <2>3. r = Keys!Idle \/ (r.at = "activate" /\ r.v = req[p].v /\ r.op = req[p].op)
      BY <1>0, <2>1 DEF KeyOperation
  <2>4. req' = [req EXCEPT ![p] = r]
      BY <1>4, <2>1 DEF Keys!CreateWrite, KeyTypeOK
  <2>5. KeyWrites(p, r)
      BY <1>4, <2>2, <2>3, <2>4 DEF Keys!CreateWrite, KeyWrites
  <2> QED
      BY <2>2, <2>5 DEF KeyMove
<1>5. ASSUME NEW p \in Procs, Keys!ActivateWrite(p) \/ Keys!RetireWrite(p) PROVE KeyMove
  <2>1. KeyWrites(p, Keys!Idle)
      BY <1>5, KeyIdle DEF Keys!ActivateWrite, Keys!RetireWrite, KeyWrites
  <2> QED
      BY <2>1, KeyIdle DEF KeyMove
<1>6. ASSUME NEW p \in Procs, Keys!CreateDuplicate(p) \/ Keys!VersionGone(p) \/ Keys!Crash(p) PROVE KeyMove
  <2>1. KeyGivesUp(p)
      BY <1>6 DEF Keys!CreateDuplicate, Keys!VersionGone, Keys!Crash, KeyGivesUp
  <2> QED
      BY <2>1 DEF KeyMove
<1>7. ASSUME NEW p \in Procs, NEW op, NEW at, NEW v \in Keys!Versions,
             Keys!Begin(p, op, at, v), Keys!Quiet(p), UNCHANGED <<meta, file, keys>>,
             \/ op \in Making /\ at = "create"
             \/ op = "activate" /\ at = "activate"
             \/ op = "retire" /\ at = "retire"
      PROVE  KeyMove
  <2>1. PICK r : r = [Keys!Idle EXCEPT !.op = op, !.at = at, !.v = v]
      OBVIOUS
  <2>2. r \in KeyOperation
      BY <1>7, <2>1, KeyBegin
  <2>3. r.at = at
      BY <2>1 DEF Keys!Idle
  <2>4. KeyStarts(p, r)
      BY <1>7, <2>1, <2>2, <2>3 DEF Keys!Begin, KeyStarts
  <2> QED
      BY <2>2, <2>4 DEF KeyMove
<1>8. ASSUME NEW p \in Procs, Keys!Stage(p) \/ Keys!Rotate(p) \/ Keys!BootFirst(p) PROVE KeyMove
    BY <1>7, <1>8, KeyIdle DEF Keys!Stage, Keys!Rotate, Keys!BootFirst, Making
<1>9. ASSUME NEW p \in Procs, NEW v \in Keys!Versions, Keys!AskActivate(p, v) \/ Keys!AskRetire(p, v) PROVE KeyMove
    BY <1>7, <1>9 DEF Keys!AskActivate, Keys!AskRetire
<1>10. ASSUME UNCHANGED <<meta, file, keys, req>> PROVE KeyMove
    BY <1>10 DEF KeyMove
<1>11. ASSUME NEW p \in Procs, \/ Keys!BootReady(p) \/ Keys!BootRetry(p)
                               \/ \E a \in Agents : Keys!SignJob(p, a) \/ Keys!SendPlain(p, a) \/ Keys!Install(p, a)
       PROVE KeyMove
    BY <1>10, <1>11 DEF Keys!BootReady, Keys!BootRetry, Keys!SignJob, Keys!SendPlain, Keys!Install
<1>12. ASSUME Keys!Delivery \/ Keys!KeyFile \/ UNCHANGED Keys!vars PROVE KeyMove
    BY <1>10, <1>12 DEF Keys!Delivery, Keys!Deliver, Keys!KeyFile, Keys!vars
<1> QED
    BY <1>1, <1>2, <1>3, <1>4, <1>5, <1>6, <1>8, <1>9, <1>11, <1>12
       DEF Keys!Next, Keys!Step, Keys!Boot, Keys!Operator

LEMMA KeyTypeKept ==
    ASSUME VersionAssumption, KeyTypeOK, KeyMove
    PROVE  KeyTypeOK'
<1>0. \A p \in Procs : req[p] \in KeyOperation
    BY DEF KeyTypeOK
<1>1. ASSUME NEW p \in Procs, NEW r \in KeyOperation, KeyStarts(p, r) PROVE KeyTypeOK'
    BY <1>1 DEF KeyStarts, KeyTypeOK
<1>2. ASSUME NEW p \in Procs, NEW r \in KeyOperation, KeyReads(p, r) PROVE KeyTypeOK'
  <2>1. r.v \in Keys!Versions
      BY KeyFields
  <2>2. file' \in [Keys!Versions -> Nat] /\ keys' \in Nat
      BY <1>2, <2>1 DEF KeyReads, KeyTypeOK
  <2> QED
      BY <1>2, <2>2 DEF KeyReads, KeyTypeOK
<1>3. ASSUME NEW p \in Procs, NEW r \in KeyOperation, KeyWrites(p, r) PROVE KeyTypeOK'
  <2>1. req[p].seen \in [Keys!Versions -> States] /\ req[p].v \in Keys!Versions
      BY <1>0, KeyFields
  <2>2. Keys!Activated(req[p].seen, req[p].v) \in [Keys!Versions -> States]
      BY <2>1 DEF Keys!Activated, States
  <2>3. meta' \in [Keys!Versions -> States]
      BY <1>3, <2>1, <2>2 DEF KeyWrites, States
  <2> QED
      BY <1>3, <2>3 DEF KeyWrites, KeyTypeOK
<1>4. ASSUME NEW p \in Procs, KeyGivesUp(p) PROVE KeyTypeOK'
    BY <1>4, KeyIdle DEF KeyGivesUp, KeyTypeOK
<1> QED
    BY <1>1, <1>2, <1>3, <1>4 DEF KeyMove, KeyTypeOK

LEMMA FilesKept ==
    ASSUME VersionAssumption, KeyTypeOK, FileInv, KeyMove
    PROVE  FileInv'
<1>0. \A p \in Procs : req[p] \in KeyOperation
    BY DEF KeyTypeOK
<1>1. ASSUME NEW p \in Procs, NEW r \in KeyOperation, KeyStarts(p, r) PROVE FileInv'
    BY <1>1 DEF KeyStarts, KeyTypeOK, FileInv
<1>2. ASSUME NEW p \in Procs, NEW r \in KeyOperation, KeyReads(p, r) PROVE FileInv'
  <2>1. r.v \in Keys!Versions
      BY KeyFields
  <2>2. file' = file \/ file' = [file EXCEPT ![r.v] = keys + 1]
      BY <1>2 DEF KeyReads
  <2>3. \A v \in Keys!Versions : file[v] # 0 => file'[v] # 0
      BY <2>1, <2>2 DEF KeyTypeOK
  <2>4. file'[r.v] # 0
      BY <1>2, <2>1 DEF KeyReads, KeyTypeOK, FileInv
  <2>5. req' = [req EXCEPT ![p] = r] /\ r.seen = meta /\ meta' = meta
      BY <1>2 DEF KeyReads
  <2>6. req'[p] = r /\ \A q \in Procs : q # p => req'[q] = req[q]
      BY <2>5 DEF KeyTypeOK
  <2>7. \A v \in Keys!Versions : r.seen[v] # "none" => file'[v] # 0
      BY <2>3, <2>5 DEF FileInv
  <2>8. \A q \in Procs : req[q].v \in Keys!Versions
      BY <1>0, KeyFields
  <2> QED
      BY <2>3, <2>4, <2>5, <2>6, <2>7, <2>8 DEF FileInv
<1>3. ASSUME NEW p \in Procs, NEW r \in KeyOperation, KeyWrites(p, r) PROVE FileInv'
  <2>1. req[p].seen \in [Keys!Versions -> States] /\ req[p].v \in Keys!Versions
      BY <1>0, KeyFields
  <2>2. file[req[p].v] # 0 /\ \A v \in Keys!Versions : req[p].seen[v] # "none" => file[v] # 0
      BY <1>3 DEF KeyWrites, FileInv
  <2>3. \A v \in Keys!Versions : meta'[v] # "none" => file[v] # 0
      BY <1>3, <2>1, <2>2 DEF KeyWrites, Keys!Activated
  <2>4. req'[p].at \in {"idle", "activate"} /\ \A q \in Procs : q # p => req'[q] = req[q]
      BY <1>3, KeyIdle DEF KeyWrites, KeyTypeOK
  <2> QED
      BY <1>3, <2>3, <2>4 DEF KeyWrites, FileInv
<1>4. ASSUME NEW p \in Procs, KeyGivesUp(p) PROVE FileInv'
  <2>1. req'[p].at = "idle" /\ \A q \in Procs : q # p => req'[q] = req[q]
      BY <1>4, KeyIdle DEF KeyGivesUp, KeyTypeOK
  <2> QED
      BY <1>4, <2>1 DEF KeyGivesUp, FileInv
<1> QED
    BY <1>1, <1>2, <1>3, <1>4 DEF KeyMove, FileInv

LEMMA KeyInit ==
    ASSUME VersionAssumption, Keys!Init
    PROVE  KeyTypeOK /\ FileInv
BY KeyIdle DEF Keys!Init, Keys!NoKeys, KeyTypeOK, FileInv, States

\* Whatever key operations of several processes interleave, overwrite each other's metadata or die
\* half-way, a version that metadata.json lists has its key file: create writes the file first
\* and nothing removes one.
THEOREM KeysHaveFiles ==
    ASSUME VersionAssumption
    PROVE  Keys!Spec => []Keys!RegisteredHasKey
<1>1. KeyTypeOK /\ FileInv /\ [Keys!Next]_(Keys!vars) => KeyTypeOK' /\ FileInv'
    BY KeyMoves, KeyTypeKept, FilesKept
<1>2. FileInv => Keys!RegisteredHasKey
    BY DEF FileInv, Keys!RegisteredHasKey
<1> QED
    BY <1>1, <1>2, KeyInit, PTL DEF Keys!Spec

-----------------------------------------------------------------------------
(* Signing keys: with the runbook followed, no agent refuses a signed job.  *)

\* One operation at a time, by operators who follow the runbook.
RunbookAssumption == Serial /\ Runbook

\* Only one process is at work, what it has read is still what is there, and one version at
\* most is active.
SerialInv ==
    /\ \A p, q \in Procs : req[p].op # "idle" /\ req[q].op # "idle" => p = q
    /\ \A p \in Procs : /\ req[p].at \in {"created", "activated", "retired"} => req[p].seen = meta
                        /\ req[p].at = "created" => meta[req[p].v] = "none"
                        /\ req[p].at \in {"activated", "retired"} => meta[req[p].v] # "none"
    /\ \A v, w \in Keys!Versions : meta[v] = "ACTIVE" /\ meta[w] = "ACTIVE" => v = w

LEMMA SerialKept ==
    ASSUME VersionAssumption, RunbookAssumption, KeyTypeOK, SerialInv, KeyMove
    PROVE  SerialInv'
<1>0. \A p \in Procs : req[p] \in KeyOperation /\ req[p].v \in Keys!Versions /\ (req[p].op = "idle" <=> req[p].at = "idle")
    BY KeyFields DEF KeyTypeOK
<1>1. ASSUME NEW p \in Procs, NEW r \in KeyOperation, KeyStarts(p, r) PROVE SerialInv'
  <2>1. \A q \in Procs : req[q].op = "idle"
      BY <1>1 DEF KeyStarts, Keys!Quiet, RunbookAssumption
  <2>2. req'[p].at \in {"create", "activate", "retire"} /\ \A q \in Procs : q # p => req'[q] = req[q]
      BY <1>1 DEF KeyStarts, KeyTypeOK
  <2> QED
      BY <1>0, <1>1, <2>1, <2>2 DEF KeyStarts, SerialInv
<1>2. ASSUME NEW p \in Procs, NEW r \in KeyOperation, KeyReads(p, r) PROVE SerialInv'
  <2>1. \A q \in Procs : q # p => req[q].op = "idle"
      BY <1>0, <1>2 DEF KeyReads, SerialInv
  <2>2. req'[p] = r /\ \A q \in Procs : q # p => req'[q] = req[q]
      BY <1>2 DEF KeyReads, KeyTypeOK
  <2>3. /\ r.seen = meta' /\ meta' = meta /\ (r.at = "created" => meta[r.v] = "none")
        /\ r.at \in {"activated", "retired"} => meta[r.v] # "none"
      BY <1>2 DEF KeyReads
  <2> QED
      BY <1>0, <2>1, <2>2, <2>3 DEF SerialInv
<1>3. ASSUME NEW p \in Procs, NEW r \in KeyOperation, KeyWrites(p, r) PROVE SerialInv'
  <2>1. \A q \in Procs : q # p => req[q].op = "idle"
      BY <1>0, <1>3 DEF KeyWrites, SerialInv
  <2>2. req'[p].at \in {"idle", "activate"} /\ \A q \in Procs : q # p => req'[q] = req[q]
      BY <1>3, KeyIdle DEF KeyWrites, KeyTypeOK
  <2>3. req[p].seen = meta /\ req[p].v \in Keys!Versions
      BY <1>0, <1>3 DEF KeyWrites, SerialInv
  <2>4. \A v, w \in Keys!Versions : meta'[v] = "ACTIVE" /\ meta'[w] = "ACTIVE" => v = w
      BY <1>3, <2>3 DEF KeyWrites, Keys!Activated, KeyTypeOK, SerialInv
  <2> QED
      BY <1>0, <2>1, <2>2, <2>4 DEF SerialInv
<1>4. ASSUME NEW p \in Procs, KeyGivesUp(p) PROVE SerialInv'
  <2>1. req'[p] = Keys!Idle /\ \A q \in Procs : q # p => req'[q] = req[q]
      BY <1>4 DEF KeyGivesUp, KeyTypeOK
  <2> QED
      BY <1>4, <2>1, KeyIdle DEF KeyGivesUp, SerialInv
<1> QED
    BY <1>1, <1>2, <1>3, <1>4 DEF KeyMove, SerialInv

\* What a step does to one version when operations do not overlap: it is never forgotten, and the
\* key of a version that is there never changes.
LEMMA VersionsStay ==
    ASSUME VersionAssumption, RunbookAssumption, KeyTypeOK, SerialInv, KeyMove, NEW v \in Keys!Versions
    PROVE  /\ meta[v] # "none" => meta'[v] # "none" /\ file'[v] = file[v]
           /\ Keys!OnDisk(v)' = IF v = 1 THEN 1 ELSE file'[v]
<1>0. \A p \in Procs : req[p].v \in Keys!Versions
    BY KeyFields DEF KeyTypeOK
<1>1. ASSUME NEW p \in Procs, NEW r \in KeyOperation, KeyReads(p, r), meta[v] # "none"
      PROVE  meta'[v] # "none" /\ file'[v] = file[v]
    BY <1>0, <1>1 DEF KeyReads, KeyTypeOK
<1>2. ASSUME NEW p \in Procs, NEW r \in KeyOperation, KeyWrites(p, r), meta[v] # "none"
      PROVE  meta'[v] # "none" /\ file'[v] = file[v]
  <2>1. req[p].seen = meta /\ req[p].v \in Keys!Versions
      BY <1>0, <1>2 DEF KeyWrites, SerialInv
  <2> QED
      BY <1>2, <2>1 DEF KeyWrites, Keys!Activated, KeyTypeOK
<1>3. Keys!OnDisk(v)' = IF v = 1 THEN 1 ELSE file'[v]
    BY DEF Keys!OnDisk
<1> QED
    BY <1>1, <1>2, <1>3 DEF KeyMove, KeyStarts, KeyGivesUp

\* Every copy of a key, in a process or on an agent, is the one on disk.
CopyInv ==
    /\ cache \in [Procs -> [Keys!Versions -> Nat]]
    /\ DOMAIN agent = Agents
    /\ \A a \in Agents : /\ DOMAIN agent[a] = {"enrolled", "yaml", "pub"}
                         /\ agent[a].yaml \in [Keys!Versions -> Nat] /\ agent[a].pub \in {0, 1}
    /\ \A p \in Procs, v \in Keys!Versions :
          cache[p][v] # 0 => cache[p][v] = Keys!OnDisk(v) /\ meta[v] # "none"
    /\ \A a \in Agents, v \in Keys!Versions :
          agent[a].yaml[v] # 0 => agent[a].yaml[v] = Keys!OnDisk(v) /\ (v = 1 \/ meta[v] # "none")

LEMMA MaterialIsOnDisk ==
    ASSUME CopyInv, KeyTypeOK, NEW p \in Procs, NEW v \in Keys!Versions
    PROVE  Keys!Material(p, v) = Keys!OnDisk(v) /\ Keys!OnDisk(v) \in Nat
BY DEF CopyInv, KeyTypeOK, Keys!Material, Keys!OnDisk

\* What install.sh writes for agent a: the keys that are served, or the legacy one.
LEMMA InstallWrites ==
    ASSUME VersionAssumption, KeyTypeOK, FileInv, CopyInv,
           NEW p \in Procs, NEW a \in Agents, Keys!Install(p, a)
    PROVE  \E yaml \in [Keys!Versions -> Nat], pub \in {0, 1} :
              /\ agent' = [agent EXCEPT ![a] = [enrolled |-> TRUE, yaml |-> yaml, pub |-> pub]]
              /\ \A v \in Keys!Versions :
                    /\ yaml[v] # 0 => yaml[v] = Keys!OnDisk(v) /\ (v = 1 \/ meta[v] # "none")
                    /\ Keys!Servable(v) => yaml[v] # 0
<1>1. PICK served : served = [v \in Keys!Versions |-> IF Keys!Servable(v) THEN Keys!Material(p, v) ELSE 0]
    OBVIOUS
<1>2. PICK yaml : yaml = IF served = Keys!NoKeys THEN [Keys!NoKeys EXCEPT ![1] = 1] ELSE served
    OBVIOUS
<1>3. PICK pub : pub = IF yaml[1] # 0 THEN yaml[1] ELSE agent[a].pub
    OBVIOUS
<1>4. agent' = [agent EXCEPT ![a] = [enrolled |-> TRUE, yaml |-> yaml, pub |-> pub]]
  <2>1. agent' = [agent EXCEPT ![a] = [enrolled |-> TRUE, yaml |-> yaml,
                                      pub |-> IF yaml[1] # 0 THEN yaml[1] ELSE agent[a].pub]]
      BY <1>1, <1>2 DEF Keys!Install
  <2> QED
      BY <1>3, <2>1
<1>5. \A v \in Keys!Versions : served[v] = IF Keys!Servable(v) THEN Keys!OnDisk(v) ELSE 0
    BY <1>1, MaterialIsOnDisk
<1>6. \A v \in Keys!Versions : Keys!Servable(v) => meta[v] # "none" /\ Keys!OnDisk(v) # 0
    BY DEF Keys!Servable, Keys!Verifiable, FileInv, Keys!OnDisk
<1>7. served \in [Keys!Versions -> Nat]
    BY <1>1, MaterialIsOnDisk
<1>8. 1 \in Keys!Versions /\ Keys!OnDisk(1) = 1
    BY DEF VersionAssumption, Keys!Versions, Keys!OnDisk
<1>9. CASE served = Keys!NoKeys
  <2>1. yaml \in [Keys!Versions -> Nat] /\ \A v \in Keys!Versions : yaml[v] = IF v = 1 THEN 1 ELSE 0
      BY <1>2, <1>8, <1>9 DEF Keys!NoKeys
  <2>2. \A v \in Keys!Versions : ~Keys!Servable(v)
      BY <1>5, <1>6, <1>9 DEF Keys!NoKeys
  <2>3. pub \in {0, 1}
      BY <1>3, <1>8, <2>1 DEF CopyInv
  <2> QED
      BY <1>4, <1>8, <2>1, <2>2, <2>3
<1>10. CASE served # Keys!NoKeys
  <2>1. yaml = served
      BY <1>2, <1>10
  <2>2. pub \in {0, 1}
      BY <1>3, <1>5, <1>8, <2>1 DEF CopyInv
  <2> QED
      BY <1>4, <1>5, <1>6, <1>7, <2>1, <2>2
<1> QED
    BY <1>9, <1>10

\* A copy stays right as long as it stays.
LEMMA CopiesStay ==
    ASSUME VersionAssumption, RunbookAssumption, KeyTypeOK, SerialInv, CopyInv, KeyMove
    PROVE  /\ \A p \in Procs, v \in Keys!Versions :
                cache[p][v] # 0 => cache[p][v] = Keys!OnDisk(v)' /\ meta'[v] # "none"
           /\ \A a \in Agents, v \in Keys!Versions :
                agent[a].yaml[v] # 0 => agent[a].yaml[v] = Keys!OnDisk(v)' /\ (v = 1 \/ meta'[v] # "none")
BY VersionsStay DEF CopyInv, Keys!OnDisk

LEMMA CopyKept ==
    ASSUME VersionAssumption, RunbookAssumption, KeyTypeOK, SerialInv, FileInv, CopyInv, [Keys!Next]_(Keys!vars)
    PROVE  CopyInv'
<1>0. KeyMove
    BY KeyMoves
<1>1. CASE UNCHANGED <<cache, agent>>
    BY <1>0, <1>1, CopiesStay DEF CopyInv
<1>2. ASSUME NEW p \in Procs, Keys!Crash(p) PROVE CopyInv'
  <2>1. cache' = [cache EXCEPT ![p] = Keys!NoKeys] /\ UNCHANGED agent
      BY <1>2 DEF Keys!Crash
  <2>2. cache' \in [Procs -> [Keys!Versions -> Nat]]
      BY <2>1 DEF CopyInv, Keys!NoKeys
  <2>3. \A q \in Procs, v \in Keys!Versions : cache'[q][v] # 0 => cache'[q][v] = cache[q][v]
      BY <2>1 DEF CopyInv, Keys!NoKeys
  <2> QED
      BY <1>0, <2>1, <2>2, <2>3, CopiesStay DEF CopyInv
<1>3. ASSUME NEW p \in Procs, NEW a \in Agents, Keys!SignJob(p, a) PROVE CopyInv'
  <2>1. PICK v : v = Keys!ActiveVersion(meta)
      OBVIOUS
  <2>2. v \in Keys!Versions /\ meta[v] = "ACTIVE"
      BY <1>3, <2>1 DEF Keys!SignJob, Keys!ActiveVersion, Keys!ActiveSet
  <2>3. cache' = [cache EXCEPT ![p][v] = Keys!OnDisk(v)] /\ UNCHANGED <<agent, meta, file>>
      BY <1>3, <2>1, <2>2, MaterialIsOnDisk DEF Keys!SignJob
  <2>4. Keys!OnDisk(v) \in Nat
      BY <2>2, MaterialIsOnDisk
  <2>5. cache' \in [Procs -> [Keys!Versions -> Nat]]
      BY <2>2, <2>3, <2>4 DEF CopyInv
  <2>6. \A q \in Procs, w \in Keys!Versions :
            cache'[q][w] = IF q = p /\ w = v THEN Keys!OnDisk(v) ELSE cache[q][w]
      BY <2>2, <2>3 DEF CopyInv
  <2> QED
      BY <2>2, <2>3, <2>5, <2>6 DEF CopyInv, Keys!OnDisk
<1>4. ASSUME NEW p \in Procs, NEW a \in Agents, Keys!Install(p, a) PROVE CopyInv'
  <2>1. PICK yaml \in [Keys!Versions -> Nat], pub \in {0, 1} :
              /\ agent' = [agent EXCEPT ![a] = [enrolled |-> TRUE, yaml |-> yaml, pub |-> pub]]
              /\ \A v \in Keys!Versions :
                    yaml[v] # 0 => yaml[v] = Keys!OnDisk(v) /\ (v = 1 \/ meta[v] # "none")
      BY <1>4, InstallWrites
  <2>2. PICK served : served = [v \in Keys!Versions |-> IF Keys!Servable(v) THEN Keys!Material(p, v) ELSE 0]
      OBVIOUS
  <2>3. PICK fresh : fresh = [v \in Keys!Versions |-> IF served[v] # 0 THEN served[v] ELSE cache[p][v]]
      OBVIOUS
  <2>4. cache' = [cache EXCEPT ![p] = fresh] /\ UNCHANGED <<meta, file>>
      BY <1>4, <2>2, <2>3 DEF Keys!Install
  <2>5. \A v \in Keys!Versions : served[v] # 0 => served[v] = Keys!OnDisk(v) /\ meta[v] # "none"
      BY <2>2, MaterialIsOnDisk DEF Keys!Servable, Keys!Verifiable
  <2>6. \A v \in Keys!Versions : served[v] \in Nat
      BY <2>2, MaterialIsOnDisk
  <2>7. fresh \in [Keys!Versions -> Nat]
      BY <2>3, <2>6 DEF CopyInv
  <2>8. \A v \in Keys!Versions : fresh[v] # 0 => fresh[v] = Keys!OnDisk(v) /\ meta[v] # "none"
      BY <2>3, <2>5 DEF CopyInv
  <2>9. \A v \in Keys!Versions : Keys!OnDisk(v)' = Keys!OnDisk(v)
      BY <2>4 DEF Keys!OnDisk
  <2>10. cache' \in [Procs -> [Keys!Versions -> Nat]] /\ cache'[p] = fresh
         /\ \A q \in Procs : q # p => cache'[q] = cache[q]
      BY <2>4, <2>7 DEF CopyInv
  <2>11. PICK new : new = [enrolled |-> TRUE, yaml |-> yaml, pub |-> pub]
      OBVIOUS
  <2>12. DOMAIN new = {"enrolled", "yaml", "pub"} /\ new.yaml = yaml /\ new.pub = pub
      BY <2>11
  <2>13. DOMAIN agent' = Agents /\ agent'[a] = new /\ \A b \in Agents : b # a => agent'[b] = agent[b]
      BY <2>1, <2>11 DEF CopyInv
  <2> QED
      BY <2>1, <2>4, <2>8, <2>9, <2>10, <2>12, <2>13 DEF CopyInv
<1>5. ASSUME NEW p \in Procs, Keys!Step(p) \/ Keys!Boot(p) \/ Keys!Operator(p) PROVE CopyInv'
    BY <1>1, <1>5 DEF Keys!Step, Keys!Boot, Keys!Operator, Keys!CreateRead, Keys!CreateDuplicate, Keys!CreateWrite,
       Keys!ActivateRead, Keys!ActivateWrite, Keys!RetireRead, Keys!RetireWrite, Keys!VersionGone,
       Keys!BootReady, Keys!BootFirst, Keys!BootRetry, Keys!Stage, Keys!Rotate, Keys!AskActivate, Keys!AskRetire,
       Keys!signing
<1>6. ASSUME \/ \E p \in Procs, a \in Agents : Keys!SendPlain(p, a)
             \/ Keys!Delivery \/ Keys!KeyFile \/ UNCHANGED Keys!vars
      PROVE  CopyInv'
    BY <1>1, <1>6 DEF Keys!SendPlain, Keys!Delivery, Keys!Deliver, Keys!KeyFile, Keys!vars, Keys!signing
<1> QED
    BY <1>2, <1>3, <1>4, <1>5, <1>6 DEF Keys!Next

\* Version 1 comes first: without it no process signs and no agent has been installed; and while
\* the first key is made, or replaced in one go, there is nobody to tell.
FirstInv ==
    /\ \A v \in Keys!Versions : meta[v] # "none" => meta[1] # "none"
    /\ \A a \in Agents : agent[a].enrolled => meta[1] # "none"
    /\ DOMAIN ready = Procs
    /\ \A p \in Procs :
          /\ ready[p] = "yes" => meta[1] # "none"
          /\ req[p].at \in {"create", "created"} /\ req[p].v # 1 => meta[1] # "none"
          /\ req[p].op = "boot" =>
                /\ req[p].v = 1 /\ \A a \in Agents : ~agent[a].enrolled
                /\ \A q \in Procs : ready[q] # "yes"
          /\ req[p].op = "rotate" => \A a \in Agents : ~agent[a].enrolled

\* Version 1 stays, and an operation that goes on stays what it was.
LEMMA FirstStays ==
    ASSUME VersionAssumption, RunbookAssumption, KeyTypeOK, SerialInv, FirstInv, KeyMove
    PROVE  /\ meta[1] # "none" => meta'[1] # "none"
           /\ \A v \in Keys!Versions : meta'[v] # "none" => meta'[1] # "none"
<1>1. 1 \in Keys!Versions
    BY KeyIdle
<1>2. \A p \in Procs : req[p].v \in Keys!Versions
    BY KeyFields DEF KeyTypeOK
<1>3. meta[1] # "none" => meta'[1] # "none"
    BY <1>1, VersionsStay
<1>4. ASSUME NEW p \in Procs, NEW r \in KeyOperation, KeyWrites(p, r), NEW v \in Keys!Versions, meta'[v] # "none"
      PROVE  meta'[1] # "none"
  <2>1. CASE meta[v] # "none"
      BY <1>3, <2>1 DEF FirstInv
  <2>2. CASE meta[v] = "none"
    <3>1. req[p].seen = meta
        BY <1>4 DEF KeyWrites, SerialInv
    <3>2. CASE req[p].at = "created"
      <4>1. meta' = [meta EXCEPT ![req[p].v] = "VERIFY_ONLY"]
          BY <1>4, <3>1, <3>2 DEF KeyWrites
      <4>2. v = req[p].v
          BY <1>2, <1>4, <2>2, <4>1 DEF KeyTypeOK
      <4> QED
          BY <1>1, <1>3, <1>4, <3>2, <4>2 DEF FirstInv
    <3>3. CASE req[p].at \in {"activated", "retired"}
      <4>1. v = req[p].v
          BY <1>2, <1>4, <2>2, <3>1, <3>3 DEF KeyWrites, KeyTypeOK, Keys!Activated
      <4> QED
          BY <2>2, <3>3, <4>1 DEF SerialInv
    <3> QED
        BY <1>4, <3>2, <3>3 DEF KeyWrites
  <2> QED
      BY <2>1, <2>2
<1>5. meta' = meta => \A v \in Keys!Versions : meta'[v] # "none" => meta'[1] # "none"
    BY DEF FirstInv
<1> QED
    BY <1>3, <1>4, <1>5 DEF KeyMove, KeyStarts, KeyReads, KeyGivesUp

\* The operation of p is over; a signer is up only if it was, or this was its start.
KeyEnds(p) ==
    /\ req'[p] = Keys!Idle /\ \A q \in Procs : q # p => req'[q] = req[q]
    /\ agent' = agent /\ DOMAIN ready' = Procs
    /\ \A q \in Procs : ready'[q] = "yes" /\ ready[q] # "yes" => meta'[1] # "none" /\ q = p /\ req[p].op # "idle"

LEMMA FirstKept ==
    ASSUME VersionAssumption, RunbookAssumption, KeyTypeOK, SerialInv, FileInv, CopyInv, FirstInv,
           [Keys!Next]_(Keys!vars)
    PROVE  FirstInv'
<1>0. KeyMove
    BY KeyMoves
<1>a. 1 \in Keys!Versions /\ \A p \in Procs : req[p].v \in Keys!Versions /\ (req[p].op = "idle" <=> req[p].at = "idle")
    BY KeyIdle, KeyFields DEF KeyTypeOK
<1>b. /\ meta[1] # "none" => meta'[1] # "none"
      /\ \A v \in Keys!Versions : meta'[v] # "none" => meta'[1] # "none"
    BY <1>0, FirstStays
<1>c. \/ meta[Keys!ActiveVersion(meta)] = "ACTIVE" /\ Keys!ActiveVersion(meta) \in Keys!Versions
      \/ Keys!ActiveVersion(meta) = 0
    BY DEF Keys!ActiveVersion, Keys!ActiveSet
\* Nothing an agent or a signer sees changes.
<1>1. ASSUME UNCHANGED <<agent, ready>>,
             \A p \in Procs :
                \/ req'[p] = req[p]
                \/ req'[p].op = "idle" /\ req'[p].at = "idle"
                \/ /\ req'[p].op = req[p].op /\ req'[p].v = req[p].v
                   /\ req'[p].at \in {"create", "created"} => req[p].at \in {"create", "created"}
      PROVE  FirstInv'
    BY <1>b, <1>1 DEF FirstInv
\* A process starts over, or its signer is not up.
<1>2. ASSUME NEW p \in Procs, KeyEnds(p) PROVE FirstInv'
  <2>1. \A q \in Procs : q # p /\ req[q].op = "boot" => req[p].op = "idle"
      BY DEF SerialInv
  <2> QED
      BY <1>b, <1>2, <2>1, KeyIdle DEF FirstInv, KeyEnds
\* An operation begins.
<1>3. ASSUME NEW p \in Procs, NEW op, NEW at, NEW v \in Keys!Versions, Keys!Begin(p, op, at, v),
             UNCHANGED <<meta, agent, ready>>,
             at = "create" /\ v # 1 => meta[1] # "none",
             at # "created",
             op = "boot" => v = 1 /\ meta[1] = "none",
             op = "rotate" => \A a \in Agents : ~agent[a].enrolled
      PROVE  FirstInv'
  <2>1. PICK r : r = [Keys!Idle EXCEPT !.op = op, !.at = at, !.v = v]
      OBVIOUS
  <2>2. r.op = op /\ r.at = at /\ r.v = v
      BY <2>1 DEF Keys!Idle
  <2>3. req'[p] = r /\ \A q \in Procs : q # p => req'[q] = req[q]
      BY <1>3, <2>1 DEF Keys!Begin, KeyTypeOK
  <2> QED
      BY <1>3, <2>2, <2>3 DEF FirstInv
<1>4. ASSUME NEW p \in Procs, Keys!CreateRead(p) \/ Keys!ActivateRead(p) \/ Keys!RetireRead(p) PROVE FirstInv'
  <2>1. PICK at : req' = [req EXCEPT ![p].at = at, ![p].seen = meta] /\ at # "create"
                  /\ (at = "created" => req[p].at = "create")
      BY <1>4 DEF Keys!CreateRead, Keys!ActivateRead, Keys!RetireRead
  <2>2. PICK r : r = [req[p] EXCEPT !.at = at, !.seen = meta]
      OBVIOUS
  <2>3. r.at = at /\ r.v = req[p].v /\ r.op = req[p].op
      BY <2>2 DEF KeyTypeOK, KeyOperation
  <2>4. req'[p] = r /\ \A q \in Procs : q # p => req'[q] = req[q]
      BY <2>1, <2>2 DEF KeyTypeOK
  <2>5. UNCHANGED <<agent, ready>>
      BY <1>4 DEF Keys!CreateRead, Keys!ActivateRead, Keys!RetireRead, Keys!signing
  <2> QED
      BY <1>1, <2>1, <2>3, <2>4, <2>5
<1>5. ASSUME NEW p \in Procs, Keys!CreateWrite(p) PROVE FirstInv'
  <2>1. PICK r : r = [req[p] EXCEPT !.at = "activate"]
      OBVIOUS
  <2>2. r.at = "activate" /\ r.v = req[p].v /\ r.op = req[p].op
      BY <2>1 DEF KeyTypeOK, KeyOperation
  <2>3. req' = [req EXCEPT ![p] = IF req[p].op = "stage" THEN Keys!Idle ELSE r] /\ UNCHANGED <<agent, ready>>
      BY <1>5, <2>1 DEF Keys!CreateWrite, Keys!signing
  <2>4. req'[p] \in {Keys!Idle, r} /\ \A q \in Procs : q # p => req'[q] = req[q]
      BY <2>3 DEF KeyTypeOK
  <2> QED
      BY <1>1, <2>2, <2>3, <2>4, KeyIdle
<1>6. ASSUME NEW p \in Procs, Keys!ActivateWrite(p) PROVE FirstInv'
  <2>1. meta' = Keys!Activated(req[p].seen, req[p].v) /\ req[p].at = "activated"
      BY <1>6 DEF Keys!ActivateWrite
  <2>2. req[p].op = "boot" => meta'[1] # "none"
      BY <1>a, <2>1 DEF FirstInv, Keys!Activated
  <2>3. /\ req'[p] = Keys!Idle /\ \A q \in Procs : q # p => req'[q] = req[q]
        /\ UNCHANGED agent
        /\ ready' = [ready EXCEPT ![p] = IF req[p].op = "boot" THEN "yes" ELSE @]
      BY <1>6 DEF Keys!ActivateWrite, KeyTypeOK
  <2>4. \A q \in Procs : ready'[q] = "yes" => ready[q] = "yes" \/ (q = p /\ req[p].op = "boot")
      BY <2>3 DEF FirstInv
  <2>5. DOMAIN ready' = Procs
      BY <2>3 DEF FirstInv
  <2>6. KeyEnds(p)
      BY <2>2, <2>3, <2>4, <2>5 DEF KeyEnds
  <2> QED
      BY <1>2, <2>6
<1>7. ASSUME NEW p \in Procs, \/ Keys!CreateDuplicate(p) \/ Keys!VersionGone(p) \/ Keys!RetireWrite(p) \/ Keys!Crash(p)
      PROVE  FirstInv'
  <2>1. /\ req'[p] = Keys!Idle /\ \A q \in Procs : q # p => req'[q] = req[q]
        /\ UNCHANGED agent
      BY <1>7 DEF Keys!CreateDuplicate, Keys!VersionGone, Keys!RetireWrite, Keys!Crash, Keys!signing, KeyTypeOK
  <2>2. DOMAIN ready' = Procs /\ \A q \in Procs : ready'[q] = "yes" => ready[q] = "yes"
      BY <1>7 DEF Keys!CreateDuplicate, Keys!VersionGone, Keys!RetireWrite, Keys!Crash, Keys!signing, FirstInv
  <2>3. KeyEnds(p)
      BY <2>1, <2>2 DEF KeyEnds
  <2> QED
      BY <1>2, <2>3
<1>8. ASSUME NEW p \in Procs, Keys!Stage(p) PROVE FirstInv'
    BY <1>3, <1>8, <1>c DEF Keys!Stage, Keys!NextVersion, FirstInv, Keys!signing
<1>9. ASSUME NEW p \in Procs, Keys!Rotate(p) PROVE FirstInv'
  <2>1. \A a \in Agents : ~agent[a].enrolled
      BY <1>9 DEF Keys!Rotate, Keys!Enrolled, RunbookAssumption
  <2> QED
      BY <1>3, <1>9, <1>c, <2>1 DEF Keys!Rotate, Keys!NextVersion, FirstInv, Keys!signing
<1>10. ASSUME NEW p \in Procs, NEW v \in Keys!Versions, Keys!AskActivate(p, v) \/ Keys!AskRetire(p, v) PROVE FirstInv'
    BY <1>3, <1>10 DEF Keys!AskActivate, Keys!AskRetire, Keys!signing
<1>11. ASSUME NEW p \in Procs, Keys!BootFirst(p) PROVE FirstInv'
    BY <1>3, <1>11, <1>a DEF Keys!BootFirst, Keys!signing
<1>12. ASSUME NEW p \in Procs, Keys!BootReady(p) \/ Keys!BootRetry(p) PROVE FirstInv'
  <2>1. DOMAIN ready' = Procs /\ UNCHANGED <<meta, req, agent>>
      BY <1>12 DEF Keys!BootReady, Keys!BootRetry, FirstInv
  <2>2. ASSUME NEW q \in Procs, ready'[q] = "yes", ready[q] # "yes"
        PROVE  meta[1] # "none" /\ \A z \in Procs : req[z].op = "idle"
      BY <1>12, <1>c, <2>2 DEF Keys!BootReady, Keys!BootRetry, Keys!Quiet, FirstInv, RunbookAssumption
  <2> QED
      BY <2>1, <2>2 DEF FirstInv
<1>13. ASSUME NEW p \in Procs, NEW a \in Agents, Keys!Install(p, a) PROVE FirstInv'
  <2>1. meta[1] # "none" /\ UNCHANGED <<meta, req, ready>>
      BY <1>13 DEF Keys!Install, FirstInv
  <2>2. \A q \in Procs : req[q].op \notin {"boot", "rotate"}
      BY <1>13 DEF Keys!Install, FirstInv, RunbookAssumption
  <2> QED
      BY <2>1, <2>2 DEF FirstInv
<1>14. ASSUME \/ \E p \in Procs, a \in Agents : Keys!SendPlain(p, a) \/ Keys!SignJob(p, a)
              \/ Keys!Delivery \/ Keys!KeyFile \/ UNCHANGED Keys!vars
       PROVE  FirstInv'
    BY <1>1, <1>14 DEF Keys!SendPlain, Keys!SignJob, Keys!Delivery, Keys!Deliver, Keys!KeyFile, Keys!vars, Keys!signing
<1> QED
    BY <1>4, <1>5, <1>6, <1>7, <1>8, <1>9, <1>10, <1>11, <1>12, <1>13, <1>14
       DEF Keys!Next, Keys!Step, Keys!Boot, Keys!Operator

\* Agent a has a key for version v.
Trusts(a, v) == Keys!Trusted(a)[v] # 0

\* Every installed agent has the key of the active version, and of the one about to be; a
\* version about to be retired signs nothing any more; and what is on its way was signed with a key
\* its agent has.
ServeInv ==
    /\ \A a \in Agents, v \in Keys!Versions : agent[a].enrolled /\ meta[v] = "ACTIVE" => Trusts(a, v)
    /\ \A p \in Procs :
          /\ req[p].op = "activate" => /\ meta[req[p].v] = "VERIFY_ONLY"
                                      /\ \A a \in Agents : agent[a].enrolled => Trusts(a, req[p].v)
          /\ req[p].op = "retire" => meta[req[p].v] # "ACTIVE" /\ \A e \in flight : e.v # req[p].v
    /\ \A e \in flight : /\ e.a \in Agents /\ e.v \in Keys!Versions /\ e.key = Keys!OnDisk(e.v)
                         /\ meta[e.v] \in {"ACTIVE", "VERIFY_ONLY"} /\ Trusts(e.a, e.v)
    /\ ~rejected

\* What an agent trusts is the key on disk.
LEMMA TrustIsRight ==
    ASSUME VersionAssumption, CopyInv, NEW a \in Agents, NEW v \in Keys!Versions, Trusts(a, v)
    PROVE  Keys!Trusted(a)[v] = Keys!OnDisk(v)
BY DEF CopyInv, Trusts, Keys!Trusted, Keys!OnDisk

LEMMA TrustStays ==
    ASSUME NEW a \in Agents, NEW v \in Keys!Versions, agent'[a] = agent[a]
    PROVE  Trusts(a, v)' <=> Trusts(a, v)
BY DEF Trusts, Keys!Trusted

\* A change of the metadata that keeps what agents rely on.
MetaKeeps ==
    /\ \A v \in Keys!Versions :
          /\ meta'[v] = "ACTIVE" => \A a \in Agents : agent[a].enrolled => Trusts(a, v)
          /\ meta[v] \in {"ACTIVE", "VERIFY_ONLY"} /\ meta'[v] \notin {"ACTIVE", "VERIFY_ONLY"} => \A e \in flight : e.v # v
    /\ \A p \in Procs : req'[p].op \in {"activate", "retire"} =>
          req'[p].op = req[p].op /\ req'[p].v = req[p].v /\ meta' = meta

LEMMA ServedStays ==
    ASSUME VersionAssumption, RunbookAssumption, KeyTypeOK, SerialInv, ServeInv, KeyMove, MetaKeeps,
           UNCHANGED <<agent, flight, rejected>>
    PROVE  ServeInv'
<1>1. \A a \in Agents, v \in Keys!Versions : Trusts(a, v)' <=> Trusts(a, v)
    BY TrustStays
<1>2. \A a \in Agents, v \in Keys!Versions : agent'[a].enrolled /\ meta'[v] = "ACTIVE" => Trusts(a, v)'
    BY <1>1 DEF MetaKeeps
<1>3. \A p \in Procs : req[p].v \in Keys!Versions
    BY KeyFields DEF KeyTypeOK
<1>4. \A p \in Procs : req'[p].op = "activate" =>
          meta'[req'[p].v] = "VERIFY_ONLY" /\ \A a \in Agents : agent'[a].enrolled => Trusts(a, req[p].v)'
  <2> SUFFICES ASSUME NEW p \in Procs, req'[p].op = "activate"
               PROVE  meta'[req'[p].v] = "VERIFY_ONLY" /\ \A a \in Agents : agent'[a].enrolled => Trusts(a, req[p].v)'
      OBVIOUS
  <2>1. req[p].op = "activate" /\ req'[p].v = req[p].v /\ meta' = meta
      BY DEF MetaKeeps
  <2> QED
      BY <1>3, <2>1, TrustStays DEF ServeInv, Trusts, Keys!Trusted
<1>5. \A p \in Procs : req'[p].op = "retire" => meta'[req'[p].v] # "ACTIVE" /\ \A e \in flight' : e.v # req'[p].v
    BY DEF MetaKeeps, ServeInv
<1>6. \A e \in flight' : /\ e.a \in Agents /\ e.v \in Keys!Versions /\ e.key = Keys!OnDisk(e.v)'
                        /\ meta'[e.v] \in {"ACTIVE", "VERIFY_ONLY"} /\ Trusts(e.a, e.v)'
  <2> SUFFICES ASSUME NEW e \in flight
               PROVE  /\ e.a \in Agents /\ e.v \in Keys!Versions /\ e.key = Keys!OnDisk(e.v)'
                      /\ meta'[e.v] \in {"ACTIVE", "VERIFY_ONLY"} /\ Trusts(e.a, e.v)'
      OBVIOUS
  <2>1. /\ e.a \in Agents /\ e.v \in Keys!Versions /\ e.key = Keys!OnDisk(e.v)
        /\ meta[e.v] \in {"ACTIVE", "VERIFY_ONLY"} /\ Trusts(e.a, e.v)
      BY DEF ServeInv
  <2>2. file'[e.v] = file[e.v]
      BY <2>1, VersionsStay
  <2>3. Keys!OnDisk(e.v)' = Keys!OnDisk(e.v)
      BY <2>2 DEF Keys!OnDisk
  <2>4. meta'[e.v] \in {"ACTIVE", "VERIFY_ONLY"}
      BY <2>1 DEF MetaKeeps
  <2>5. Trusts(e.a, e.v)'
      BY <1>1, <2>1 DEF Trusts, Keys!Trusted
  <2> QED
      BY <2>1, <2>3, <2>4, <2>5
<1> QED
    BY <1>2, <1>4, <1>5, <1>6 DEF ServeInv

LEMMA ServeKept ==
    ASSUME VersionAssumption, RunbookAssumption, KeyTypeOK, SerialInv, FileInv, CopyInv, FirstInv, ServeInv,
           [Keys!Next]_(Keys!vars)
    PROVE  ServeInv'
<1>0. KeyMove
    BY KeyMoves
<1>a. \A p \in Procs :
          /\ req[p] \in KeyOperation /\ req[p].v \in Keys!Versions /\ (req[p].op = "idle" <=> req[p].at = "idle")
          /\ req[p].at \in {"create", "created"} => req[p].op \in Making
          /\ req[p].at \in {"activate", "activated"} => req[p].op \in Activating
          /\ req[p].at \in {"retire", "retired"} => req[p].op = "retire"
    BY KeyFields DEF KeyTypeOK
\* The metadata stays, and so do operations that go on.
<1>1. ASSUME UNCHANGED <<meta, agent, flight, rejected>>,
             \A p \in Procs : req'[p].op \in {"activate", "retire"} => req'[p].op = req[p].op /\ req'[p].v = req[p].v
      PROVE  ServeInv'
  <2>1. MetaKeeps
      BY <1>1 DEF MetaKeeps, ServeInv
  <2> QED
      BY <1>0, <1>1, <2>1, ServedStays
<1>2. ASSUME NEW p \in Procs, Keys!CreateRead(p) \/ Keys!ActivateRead(p) \/ Keys!RetireRead(p) PROVE ServeInv'
  <2>1. PICK at : req' = [req EXCEPT ![p].at = at, ![p].seen = meta]
      BY <1>2 DEF Keys!CreateRead, Keys!ActivateRead, Keys!RetireRead
  <2>2. PICK r : r = [req[p] EXCEPT !.at = at, !.seen = meta]
      OBVIOUS
  <2>3. r.v = req[p].v /\ r.op = req[p].op
      BY <2>2 DEF KeyTypeOK, KeyOperation
  <2>4. req'[p] = r /\ \A q \in Procs : q # p => req'[q] = req[q]
      BY <2>1, <2>2 DEF KeyTypeOK
  <2>5. UNCHANGED <<meta, agent, flight, rejected>>
      BY <1>2 DEF Keys!CreateRead, Keys!ActivateRead, Keys!RetireRead, Keys!signing
  <2> QED
      BY <1>1, <2>3, <2>4, <2>5
<1>3. ASSUME NEW p \in Procs, Keys!CreateDuplicate(p) \/ Keys!VersionGone(p) \/ Keys!Crash(p) PROVE ServeInv'
  <2>1. /\ req'[p] = Keys!Idle /\ \A q \in Procs : q # p => req'[q] = req[q]
        /\ UNCHANGED <<meta, agent, flight, rejected>>
      BY <1>3 DEF Keys!CreateDuplicate, Keys!VersionGone, Keys!Crash, KeyTypeOK
  <2> QED
      BY <1>1, <2>1, KeyIdle
<1>4. ASSUME NEW p \in Procs, Keys!CreateWrite(p) PROVE ServeInv'
  <2>1. PICK r : r = [req[p] EXCEPT !.at = "activate"]
      OBVIOUS
  <2>2. r.op = req[p].op
      BY <2>1 DEF KeyTypeOK, KeyOperation
  <2>3. /\ req' = [req EXCEPT ![p] = IF req[p].op = "stage" THEN Keys!Idle ELSE r]
        /\ meta' = [req[p].seen EXCEPT ![req[p].v] = "VERIFY_ONLY"] /\ req[p].at = "created"
        /\ UNCHANGED <<agent, flight, rejected>>
      BY <1>4, <2>1 DEF Keys!CreateWrite, Keys!signing
  <2>4. req'[p] \in {Keys!Idle, r} /\ \A q \in Procs : q # p => req'[q] = req[q]
      BY <2>3 DEF KeyTypeOK
  <2>5. req[p].seen = meta /\ \A q \in Procs : q # p => req[q].op = "idle"
      BY <1>a, <2>3 DEF SerialInv
  <2>6. req'[p].op \notin {"activate", "retire"}
      BY <1>a, <2>2, <2>3, <2>4, KeyIdle DEF Making
  <2>7. \A v \in Keys!Versions : meta'[v] = IF v = req[p].v THEN "VERIFY_ONLY" ELSE meta[v]
      BY <1>a, <2>3, <2>5 DEF KeyTypeOK
  <2>8. MetaKeeps
      BY <2>4, <2>5, <2>6, <2>7 DEF MetaKeeps, ServeInv
  <2> QED
      BY <1>0, <2>3, <2>8, ServedStays
<1>5. ASSUME NEW p \in Procs, Keys!ActivateWrite(p) PROVE ServeInv'
  <2>1. /\ req'[p] = Keys!Idle /\ \A q \in Procs : q # p => req'[q] = req[q]
        /\ meta' = Keys!Activated(req[p].seen, req[p].v) /\ req[p].at = "activated"
        /\ UNCHANGED <<agent, flight, rejected>>
      BY <1>5 DEF Keys!ActivateWrite, KeyTypeOK
  <2>2. req[p].seen = meta /\ \A q \in Procs : q # p => req[q].op = "idle"
      BY <1>a, <2>1 DEF SerialInv
  <2>3. \A a \in Agents : agent[a].enrolled => Trusts(a, req[p].v)
    <3>1. req[p].op \in Activating
        BY <1>a, <2>1
    <3> QED
        BY <3>1 DEF Activating, ServeInv, FirstInv
  <2>4. \A v \in Keys!Versions :
            meta'[v] = IF v = req[p].v THEN "ACTIVE" ELSE IF meta[v] = "ACTIVE" THEN "VERIFY_ONLY" ELSE meta[v]
      BY <2>1, <2>2 DEF Keys!Activated
  <2>5. MetaKeeps
      BY <2>1, <2>2, <2>3, <2>4, KeyIdle DEF MetaKeeps, ServeInv
  <2> QED
      BY <1>0, <2>1, <2>5, ServedStays
<1>6. ASSUME NEW p \in Procs, Keys!RetireWrite(p) PROVE ServeInv'
  <2>1. /\ req'[p] = Keys!Idle /\ \A q \in Procs : q # p => req'[q] = req[q]
        /\ meta' = [req[p].seen EXCEPT ![req[p].v] = "RETIRED"] /\ req[p].at = "retired"
        /\ UNCHANGED <<agent, flight, rejected>>
      BY <1>6 DEF Keys!RetireWrite, Keys!signing, KeyTypeOK
  <2>2. req[p].seen = meta /\ \A q \in Procs : q # p => req[q].op = "idle"
      BY <1>a, <2>1 DEF SerialInv
  <2>3. \A e \in flight : e.v # req[p].v
      BY <1>a, <2>1 DEF ServeInv
  <2>4. \A v \in Keys!Versions : meta'[v] = IF v = req[p].v THEN "RETIRED" ELSE meta[v]
      BY <1>a, <2>1, <2>2 DEF KeyTypeOK
  <2>5. MetaKeeps
      BY <2>1, <2>2, <2>3, <2>4, KeyIdle DEF MetaKeeps, ServeInv
  <2> QED
      BY <1>0, <2>1, <2>5, ServedStays
\* An operation begins.
<1>7. ASSUME NEW p \in Procs, NEW op, NEW at, NEW v \in Keys!Versions, Keys!Begin(p, op, at, v),
             UNCHANGED <<meta, file, agent, flight, rejected>>,
             op = "activate" => meta[v] = "VERIFY_ONLY" /\ \A a \in Agents : agent[a].enrolled => Trusts(a, v),
             op = "retire" => meta[v] # "ACTIVE" /\ \A e \in flight : e.v # v
      PROVE  ServeInv'
  <2>1. PICK r : r = [Keys!Idle EXCEPT !.op = op, !.at = at, !.v = v]
      OBVIOUS
  <2>2. r.op = op /\ r.v = v
      BY <2>1 DEF Keys!Idle
  <2>3. req'[p] = r /\ \A q \in Procs : q # p => req'[q] = req[q]
      BY <1>7, <2>1 DEF Keys!Begin, KeyTypeOK
  <2>4. \A a \in Agents, w \in Keys!Versions : Trusts(a, w)' <=> Trusts(a, w)
      BY <1>7, TrustStays
  <2>5. \A w \in Keys!Versions : Keys!OnDisk(w)' = Keys!OnDisk(w)
      BY <1>7 DEF Keys!OnDisk
  <2>6. \A q \in Procs : req'[q].op = "activate" =>
            /\ req'[q].v \in Keys!Versions /\ meta'[req'[q].v] = "VERIFY_ONLY"
            /\ \A a \in Agents : agent'[a].enrolled => Keys!Trusted(a)[req'[q].v] # 0
      BY <1>a, <1>7, <2>2, <2>3 DEF ServeInv, Trusts
  <2>7. \A a \in Agents : Keys!Trusted(a)' = Keys!Trusted(a)
      BY <1>7 DEF Keys!Trusted
  <2>8. \A q \in Procs : req'[q].op = "retire" => meta'[req'[q].v] # "ACTIVE" /\ \A e \in flight' : e.v # req'[q].v
      BY <1>7, <2>2, <2>3 DEF ServeInv
  <2> QED
      BY <1>7, <2>4, <2>5, <2>6, <2>7, <2>8 DEF ServeInv, Trusts
<1>8. ASSUME NEW p \in Procs, Keys!Stage(p) \/ Keys!Rotate(p) \/ Keys!BootFirst(p) PROVE ServeInv'
    BY <1>7, <1>8, <1>a, KeyIdle DEF Keys!Stage, Keys!Rotate, Keys!BootFirst, Keys!signing
<1>9. ASSUME NEW p \in Procs, NEW v \in Keys!Versions, Keys!AskActivate(p, v) PROVE ServeInv'
  <2>1. meta[v] = "VERIFY_ONLY" /\ \A a \in Agents : agent[a].enrolled => Trusts(a, v)
      BY <1>9 DEF Keys!AskActivate, Keys!MayActivate, Keys!Enrolled, Trusts, RunbookAssumption
  <2> QED
      BY <1>7, <1>9, <2>1 DEF Keys!AskActivate, Keys!signing
<1>10. ASSUME NEW p \in Procs, NEW v \in Keys!Versions, Keys!AskRetire(p, v) PROVE ServeInv'
  <2>1. v # Keys!ActiveVersion(meta) /\ \A e \in flight : e.v # v
      BY <1>10 DEF Keys!AskRetire, Keys!MayRetire, RunbookAssumption
  <2>2. meta[v] # "ACTIVE"
      BY <2>1 DEF Keys!ActiveVersion, Keys!ActiveSet, SerialInv
  <2> QED
      BY <1>7, <1>10, <2>1, <2>2 DEF Keys!AskRetire, Keys!signing
<1>11. ASSUME \/ \E p \in Procs : Keys!BootReady(p) \/ Keys!BootRetry(p)
              \/ \E p \in Procs, a \in Agents : Keys!SendPlain(p, a)
              \/ Keys!KeyFile \/ UNCHANGED Keys!vars
       PROVE  ServeInv'
    BY <1>1, <1>11 DEF Keys!BootReady, Keys!BootRetry, Keys!SendPlain, Keys!KeyFile, Keys!vars, Keys!signing
<1>12. ASSUME NEW e \in flight, Keys!Deliver(e) PROVE ServeInv'
  <2>1. Keys!Trusted(e.a)[e.v] = e.key
      BY TrustIsRight DEF ServeInv
  <2>2. ~rejected' /\ flight' \subseteq flight /\ UNCHANGED <<meta, file, req, agent>>
      BY <1>12, <2>1 DEF Keys!Deliver, ServeInv
  <2>3. \A a \in Agents : Keys!Trusted(a)' = Keys!Trusted(a)
      BY <2>2 DEF Keys!Trusted
  <2>4. \A w \in Keys!Versions : Keys!OnDisk(w)' = Keys!OnDisk(w)
      BY <2>2 DEF Keys!OnDisk
  <2> QED
      BY <2>2, <2>3, <2>4 DEF ServeInv, Trusts
<1>13. ASSUME NEW p \in Procs, NEW a \in Agents, Keys!SignJob(p, a) PROVE ServeInv'
  <2>1. PICK v : v = Keys!ActiveVersion(meta)
      OBVIOUS
  <2>2. v \in Keys!Versions /\ meta[v] = "ACTIVE" /\ agent[a].enrolled
      BY <1>13, <2>1 DEF Keys!SignJob, Keys!ActiveVersion, Keys!ActiveSet
  <2>3. PICK e : e = [a |-> a, v |-> v, key |-> Keys!OnDisk(v)]
      OBVIOUS
  <2>4. flight' = {e} /\ UNCHANGED <<agent, meta, file, req, rejected>>
      BY <1>13, <2>1, <2>2, <2>3, MaterialIsOnDisk DEF Keys!SignJob, Keys!Envelope
  <2>5. e.a = a /\ e.v = v /\ e.key = Keys!OnDisk(v)
      BY <2>3
  <2>6. Trusts(a, v)
      BY <2>2 DEF ServeInv
  <2>7. \A q \in Procs : req[q].op = "retire" => req[q].v # v
      BY <2>2 DEF ServeInv
  <2>8. \A b \in Agents : Keys!Trusted(b)' = Keys!Trusted(b)
      BY <2>4 DEF Keys!Trusted
  <2>9. \A w \in Keys!Versions : Keys!OnDisk(w)' = Keys!OnDisk(w)
      BY <2>4 DEF Keys!OnDisk
  <2> QED
      BY <2>2, <2>4, <2>5, <2>6, <2>7, <2>8, <2>9 DEF ServeInv, Trusts
<1>14. ASSUME NEW p \in Procs, NEW a \in Agents, Keys!Install(p, a) PROVE ServeInv'
  <2>1. PICK yaml \in [Keys!Versions -> Nat], pub \in {0, 1} :
              /\ agent' = [agent EXCEPT ![a] = [enrolled |-> TRUE, yaml |-> yaml, pub |-> pub]]
              /\ \A v \in Keys!Versions : Keys!Servable(v) => yaml[v] # 0
      BY <1>14, InstallWrites
  <2>2. UNCHANGED <<meta, file, req, flight, rejected>>
      BY <1>14 DEF Keys!Install
  <2>3. PICK new : new = [enrolled |-> TRUE, yaml |-> yaml, pub |-> pub]
      OBVIOUS
  <2>4. new.yaml = yaml
      BY <2>3
  <2>5. agent'[a] = new /\ \A b \in Agents : b # a => agent'[b] = agent[b]
      BY <2>1, <2>3 DEF CopyInv
  <2>6. \A v \in Keys!Versions : meta[v] \in {"ACTIVE", "VERIFY_ONLY"} => Keys!Trusted(a)'[v] # 0
    <3>1. \A v \in Keys!Versions : meta[v] \in {"ACTIVE", "VERIFY_ONLY"} => yaml[v] # 0
        BY <2>1 DEF Keys!Servable, Keys!Verifiable
    <3> QED
        BY <2>4, <2>5, <3>1 DEF Keys!Trusted
  <2>7. \A b \in Agents : b # a => Keys!Trusted(b)' = Keys!Trusted(b)
      BY <2>5 DEF Keys!Trusted
  <2>8. \A w \in Keys!Versions : Keys!OnDisk(w)' = Keys!OnDisk(w)
      BY <2>2 DEF Keys!OnDisk
  <2>9. \A b \in Agents : b # a => agent'[b].enrolled = agent[b].enrolled
      BY <2>5
  <2> QED
      BY <1>a, <2>2, <2>6, <2>7, <2>8, <2>9 DEF ServeInv, Trusts
<1> QED
    BY <1>2, <1>3, <1>4, <1>5, <1>6, <1>8, <1>9, <1>10, <1>11, <1>12, <1>13, <1>14
       DEF Keys!Next, Keys!Step, Keys!Boot, Keys!Operator, Keys!Delivery

\* With operators who follow the rotation runbook one operation at a time, no agent refuses a job the
\* platform signed for it: whatever is rotated, re-installed, retired or dies half-way, what is
\* on its way was signed with a key its agent has (JobSigner against Verifier.Verify).
THEOREM SignedJobsRun ==
    ASSUME VersionAssumption, RunbookAssumption
    PROVE  Keys!Spec => []Keys!SignedJobsAccepted
<1> DEFINE RingInv == KeyTypeOK /\ FileInv /\ SerialInv /\ CopyInv /\ FirstInv /\ ServeInv
<1>1. Keys!Init => RingInv
  <2> SUFFICES ASSUME Keys!Init PROVE RingInv
      OBVIOUS
  <2>1. KeyTypeOK /\ FileInv
      BY KeyInit
  <2>2. /\ meta = [v \in Keys!Versions |-> "none"] /\ ready = [p \in Procs |-> "no"] /\ flight = {} /\ ~rejected
        /\ cache = [p \in Procs |-> Keys!NoKeys] /\ req = [p \in Procs |-> Keys!Idle]
      BY DEF Keys!Init
  <2>3. PICK new : new = [enrolled |-> FALSE, yaml |-> Keys!NoKeys, pub |-> 0]
      OBVIOUS
  <2>4. agent = [a \in Agents |-> new]
      BY <2>3 DEF Keys!Init
  <2>5. /\ DOMAIN new = {"enrolled", "yaml", "pub"} /\ ~new.enrolled /\ new.yaml = Keys!NoKeys /\ new.pub = 0
        /\ Keys!NoKeys \in [Keys!Versions -> Nat] /\ \A v \in Keys!Versions : Keys!NoKeys[v] = 0
      BY <2>3 DEF Keys!NoKeys
  <2>6. SerialInv
      BY <2>2, KeyIdle DEF SerialInv
  <2>7. CopyInv
      BY <2>2, <2>4, <2>5 DEF CopyInv
  <2>8. FirstInv
      BY <2>2, <2>4, <2>5, KeyIdle DEF FirstInv
  <2>9. ServeInv
      BY <2>2, <2>4, <2>5, KeyIdle DEF ServeInv
  <2> QED
      BY <2>1, <2>6, <2>7, <2>8, <2>9
<1>2. RingInv /\ [Keys!Next]_(Keys!vars) => RingInv'
    BY KeyMoves, KeyTypeKept, FilesKept, SerialKept, CopyKept, FirstKept, ServeKept
<1>3. RingInv => Keys!SignedJobsAccepted
    BY DEF ServeInv, Keys!SignedJobsAccepted
<1> QED
    BY <1>1, <1>2, <1>3, PTL DEF Keys!Spec

\* With JOB_SIGNING_REQUIRED no privileged job leaves without an envelope: while the key file is
\* gone, the signer has not started or no version is ACTIVE, maybe_attach_envelope holds the job.
THEOREM NothingLeavesUnsigned == Keys!Spec => []Keys!NoDowngrade
<1>1. Keys!Init => Keys!NoDowngrade
    BY DEF Keys!Init, Keys!NoDowngrade
<1>2. ASSUME Keys!NoDowngrade, [Keys!Next]_(Keys!vars) PROVE Keys!NoDowngrade'
  <2>1. ASSUME NEW p \in Procs, NEW a \in Agents, Keys!SendPlain(p, a) PROVE ~Required
      BY <2>1 DEF Keys!SendPlain, Keys!MaySendPlain
  <2>2. CASE Required
    <3>1. ASSUME Keys!Next PROVE UNCHANGED unsigned
        BY <2>1, <2>2, <3>1
           DEF Keys!Next, Keys!Step, Keys!Boot, Keys!Operator, Keys!Delivery, Keys!signing,
               Keys!CreateRead, Keys!CreateDuplicate, Keys!CreateWrite, Keys!ActivateRead,
               Keys!ActivateWrite, Keys!RetireRead, Keys!RetireWrite, Keys!VersionGone,
               Keys!BootReady, Keys!BootFirst, Keys!BootRetry, Keys!Stage, Keys!Rotate,
               Keys!AskActivate, Keys!AskRetire, Keys!Crash, Keys!SignJob, Keys!Install,
               Keys!Deliver, Keys!KeyFile
    <3> QED
        BY <1>2, <3>1 DEF Keys!vars, Keys!NoDowngrade
  <2>3. CASE ~Required
      BY <2>3 DEF Keys!NoDowngrade
  <2> QED
      BY <2>2, <2>3
<1> QED
    BY <1>1, <1>2, PTL DEF Keys!Spec

-----------------------------------------------------------------------------
(* Agent policies.                                                         *)

\* There is a document, and "idle" is no request.
CatalogAssumption == Docs # {} /\ "idle" \notin Kinds

Texts == Docs \cup {NoDoc}
PolicyRow  == [status : {"none", "draft", "active", "archived"}, cur : 0..MaxVersion]
VersionRow == [status : {"none", "draft", "published"}, doc : Texts, hash : Texts, sig : Texts]

\* What a request under way has read, as far as it matters.
RequestOK(x) ==
    x.kind # "idle" => /\ x.p \in Policies /\ x.q \in Policies /\ x.n \in Numbers /\ x.doc \in Texts
                       /\ x.row \in VersionRow

CatalogTypeOK ==
    /\ pol \in [Policies -> PolicyRow]
    /\ ver \in [Policies -> [Numbers -> VersionRow]]
    /\ DOMAIN asg = Policies
    /\ DOMAIN sess = Sessions /\ \A s \in Sessions : RequestOK(sess[s])

\* The rows a step writes.
LEMMA CatalogRows ==
    ASSUME VersionAssumption, NEW d \in Texts
    PROVE  /\ Draft(d) \in VersionRow /\ Draft(d).status = "draft"
           /\ Draft(d).doc = d /\ Draft(d).hash = d
           /\ NoVersionRow \in VersionRow /\ NoVersionRow.status = "none"
           /\ NoPolicy \in PolicyRow /\ NoPolicy.status = "none" /\ NoPolicy.cur = 0
           /\ [status |-> "draft", cur |-> 0] \in PolicyRow
           /\ 1 \in Numbers
BY DEF Draft, NoVersionRow, NoPolicy, Numbers, Texts, VersionRow, PolicyRow, VersionAssumption

\* The current version is one that was published.
CatalogInv == CatalogTypeOK /\ CurrentIsPublished

\* Row n of policy q changes, and the row of policy p.
LEMMA RowWritten ==
    ASSUME CatalogInv, NEW p \in Policies, NEW q \in Policies, NEW n \in Numbers,
           NEW r \in VersionRow, NEW b \in PolicyRow,
           ver' = [ver EXCEPT ![q][n] = r], pol' = [pol EXCEPT ![p] = b],
           \A z \in Policies : z # p /\ z \in astray => z \in astray',
           (p = q /\ b.cur = 0) \/ (ver[q][n].status = "published" => r.status = "published"),
           p \notin astray' /\ b.cur # 0 =>
              \/ p = q /\ b.cur = n /\ r.status = "published"
              \/ b.cur = pol[p].cur /\ p \notin astray
    PROVE  /\ pol' \in [Policies -> PolicyRow] /\ ver' \in [Policies -> [Numbers -> VersionRow]]
           /\ CurrentIsPublished'
<1>1. pol' \in [Policies -> PolicyRow] /\ ver' \in [Policies -> [Numbers -> VersionRow]]
    BY DEF CatalogInv, CatalogTypeOK
<1>2. /\ pol'[p] = b /\ \A z \in Policies : z # p => pol'[z] = pol[z]
      /\ \A z \in Policies, m \in Numbers : ver'[z][m] = IF z = q /\ m = n THEN r ELSE ver[z][m]
    BY DEF CatalogInv, CatalogTypeOK
<1>3. \A z \in Policies : pol[z].cur \in 0..MaxVersion /\ b.cur \in 0..MaxVersion
    BY DEF CatalogInv, CatalogTypeOK, PolicyRow
<1>4. ASSUME NEW z \in Policies, z \notin astray', pol'[z].cur # 0
      PROVE  ver'[z][pol'[z].cur].status = "published"
  <2>1. pol'[z].cur \in Numbers
      BY <1>2, <1>3, <1>4 DEF Numbers
  <2>2. CASE z # p
    <3>1. pol'[z] = pol[z] /\ ver[z][pol[z].cur].status = "published"
        BY <1>2, <1>4, <2>2 DEF CatalogInv, CurrentIsPublished
    <3> QED
        BY <1>2, <2>1, <2>2, <3>1
  <2>3. CASE z = p /\ p = q /\ b.cur = n /\ r.status = "published"
      BY <1>2, <2>1, <2>3
  <2>4. CASE z = p /\ b.cur = pol[p].cur /\ p \notin astray
    <3>1. ver[z][b.cur].status = "published" /\ b.cur # 0
        BY <1>2, <1>4, <2>4 DEF CatalogInv, CurrentIsPublished
    <3> QED
        BY <1>2, <2>1, <2>4, <3>1
  <2> QED
      BY <1>2, <1>4, <2>2, <2>3, <2>4
<1> QED
    BY <1>1, <1>4 DEF CurrentIsPublished

\* A request begins or ends.
LEMMA SessionBegins ==
    ASSUME CatalogAssumption, CatalogTypeOK, NEW s \in Sessions, NEW k, NEW p \in Policies, NEW q \in Policies,
           NEW n \in Numbers, NEW d \in Texts, Begin(s, k, p, q, n, d)
    PROVE  \E x : /\ x.kind = k /\ x.p = p /\ x.q = q /\ x.n = n /\ x.doc = d /\ x.row = ver[q][n]
                  /\ RequestOK(x) /\ DOMAIN sess' = Sessions
                  /\ sess'[s] = x /\ \A z \in Sessions : z # s => sess'[z] = sess[z]
<1>1. PICK x : x = [kind |-> k, p |-> p, q |-> q, n |-> n, doc |-> d, saw |-> pol[p], row |-> ver[q][n], busy |-> asg[p]]
    OBVIOUS
<1>2. x.kind = k /\ x.p = p /\ x.q = q /\ x.n = n /\ x.doc = d /\ x.row = ver[q][n]
    BY <1>1
<1>3. RequestOK(x)
    BY <1>2 DEF RequestOK, CatalogTypeOK
<1>4. sess' = [sess EXCEPT ![s] = x]
    BY <1>1 DEF Begin
<1> QED
    BY <1>2, <1>3, <1>4 DEF CatalogTypeOK

LEMMA SessionEnds ==
    ASSUME CatalogTypeOK, NEW s \in Sessions, Finish(s)
    PROVE  /\ DOMAIN sess' = Sessions /\ sess'[s].kind = "idle" /\ \A z \in Sessions : z # s => sess'[z] = sess[z]
           /\ \A z \in Sessions : RequestOK(sess'[z])
BY DEF Finish, IdleSession, CatalogTypeOK, RequestOK

LEMMA CatalogNext ==
    ASSUME VersionAssumption, CatalogAssumption, CatalogInv, [Next]_vars
    PROVE  CatalogInv'
<1>0. Docs \subseteq Texts /\ NoDoc \in Texts
    BY DEF Texts
<1>1. ASSUME NEW p \in Policies, NEW d \in Docs, CreatePolicy(p, d) PROVE CatalogInv'
  <2>1. /\ ver' = [ver EXCEPT ![p][1] = Draft(d)]
        /\ pol' = [pol EXCEPT ![p] = [status |-> "draft", cur |-> 0]]
        /\ UNCHANGED <<asg, sess, astray>>
      BY <1>1 DEF CreatePolicy
  <2> QED
      BY <1>0, <2>1, CatalogRows, RowWritten DEF CatalogInv, CatalogTypeOK
<1>2. ASSUME NEW t \in Policies, NEW p \in Policies, NEW e \in Docs, FromTemplate(t, p, e) PROVE CatalogInv'
  <2>1. PICK n : n = IF pol[t].cur = 0 THEN 1 ELSE pol[t].cur
      OBVIOUS
  <2>2. PICK d : d = IF ver[t][n].status = "none" THEN e ELSE ver[t][n].doc
      OBVIOUS
  <2>3. n \in Numbers
      BY <2>1, CatalogRows, <1>0 DEF CatalogInv, CatalogTypeOK, PolicyRow, Numbers, VersionAssumption
  <2>4. d \in Texts
      BY <1>0, <2>2, <2>3 DEF CatalogInv, CatalogTypeOK, VersionRow
  <2>5. /\ ver' = [ver EXCEPT ![p][1] = Draft(d)]
        /\ pol' = [pol EXCEPT ![p] = [status |-> "draft", cur |-> 0]]
        /\ UNCHANGED <<asg, sess, astray>>
      BY <1>2, <2>1, <2>2 DEF FromTemplate
  <2> QED
      BY <2>4, <2>5, CatalogRows, RowWritten DEF CatalogInv, CatalogTypeOK
<1>3. ASSUME NEW s \in Sessions, NEW k, NEW p \in Policies, NEW q \in Policies, NEW n \in Numbers, NEW d \in Texts,
             Begin(s, k, p, q, n, d)
      PROVE  CatalogInv'
  <2>1. UNCHANGED <<pol, ver, asg, astray>>
      BY <1>3 DEF Begin
  <2>2. DOMAIN sess' = Sessions /\ \A z \in Sessions : RequestOK(sess'[z])
      BY <1>3, SessionBegins DEF CatalogInv, CatalogTypeOK
  <2> QED
      BY <2>1, <2>2 DEF CatalogInv, CatalogTypeOK, CurrentIsPublished
<1>4. ASSUME NEW s \in Sessions, NEW p \in Policies, NEW d \in Docs, UpdateLoad(s, p, d) \/ VersionLoad(s, p, d)
      PROVE  CatalogInv'
    BY <1>0, <1>3, <1>4, CatalogRows DEF UpdateLoad, VersionLoad
<1>5. ASSUME NEW s \in Sessions, NEW p \in Policies, NEW q \in Policies, NEW n \in Numbers, PublishLoad(s, p, q, n)
      PROVE  CatalogInv'
    BY <1>0, <1>3, <1>5 DEF PublishLoad
<1>6. ASSUME NEW s \in Sessions, NEW p \in Policies, DeleteLoad(s, p) PROVE CatalogInv'
    BY <1>0, <1>3, <1>6, CatalogRows DEF DeleteLoad
<1>7. ASSUME NEW p \in Policies, CreateAssignment(p) \/ DeleteAssignment(p) PROVE CatalogInv'
    BY <1>7 DEF CreateAssignment, DeleteAssignment, CatalogInv, CatalogTypeOK, CurrentIsPublished
\* A request ends without writing.
<1>8. ASSUME NEW s \in Sessions, Finish(s), UNCHANGED <<pol, ver, astray>>, DOMAIN asg' = DOMAIN asg PROVE CatalogInv'
    BY <1>8, SessionEnds DEF CatalogInv, CatalogTypeOK, CurrentIsPublished
\* It ends and has written row n of policy q, and the row of policy p.
<1>9. ASSUME NEW s \in Sessions, Finish(s), UNCHANGED asg,
             NEW p \in Policies, NEW q \in Policies, NEW n \in Numbers,
             NEW r \in VersionRow, NEW b \in PolicyRow,
             ver' = [ver EXCEPT ![q][n] = r], pol' = [pol EXCEPT ![p] = b],
             \A z \in Policies : z # p /\ z \in astray => z \in astray',
             (p = q /\ b.cur = 0) \/ (ver[q][n].status = "published" => r.status = "published"),
             p \notin astray' /\ b.cur # 0 =>
                \/ p = q /\ b.cur = n /\ r.status = "published"
                \/ b.cur = pol[p].cur /\ p \notin astray
      PROVE  CatalogInv'
  <2>1. /\ pol' \in [Policies -> PolicyRow] /\ ver' \in [Policies -> [Numbers -> VersionRow]]
        /\ CurrentIsPublished'
      BY <1>9, RowWritten
  <2>2. DOMAIN sess' = Sessions /\ \A z \in Sessions : RequestOK(sess'[z])
      BY <1>9, SessionEnds DEF CatalogInv
  <2> QED
      BY <1>9, <2>1, <2>2 DEF CatalogInv, CatalogTypeOK
<1>10. ASSUME NEW s \in Sessions, UpdateCommit(s) PROVE CatalogInv'
  <2>1. PICK x : x = sess[s]
      OBVIOUS
  <2>2. x.kind = "update" /\ Finish(s) /\ UNCHANGED <<pol, asg, astray>>
      BY <1>10, <2>1 DEF UpdateCommit
  <2>3. x.p \in Policies /\ x.doc \in Texts /\ 1 \in Numbers
      BY <2>1, <2>2, CatalogRows, <1>0 DEF CatalogInv, CatalogTypeOK, RequestOK
  <2>4. CASE ver' = ver
      BY <1>8, <2>2, <2>4
  <2>5. CASE ver' = [ver EXCEPT ![x.p][1].doc = x.doc, ![x.p][1].hash = x.doc]
    <3>1. PICK r : r = [ver[x.p][1] EXCEPT !.doc = x.doc, !.hash = x.doc]
        OBVIOUS
    <3>2. ver[x.p][1] \in VersionRow
        BY <2>3 DEF CatalogInv, CatalogTypeOK
    <3>3. r \in VersionRow /\ r.status = ver[x.p][1].status
        BY <2>3, <3>1, <3>2 DEF VersionRow
    <3>4. ver' = [ver EXCEPT ![x.p][1] = r]
        BY <2>3, <2>5, <3>1 DEF CatalogInv, CatalogTypeOK
    <3>5. pol[x.p] \in PolicyRow /\ pol' = [pol EXCEPT ![x.p] = pol[x.p]]
        BY <2>2, <2>3 DEF CatalogInv, CatalogTypeOK
    <3> QED
        BY <1>9, <2>2, <2>3, <3>3, <3>4, <3>5
  <2> QED
      BY <1>10, <2>1, <2>4, <2>5 DEF UpdateCommit
<1>11. ASSUME NEW s \in Sessions, VersionCommit(s) PROVE CatalogInv'
  <2>1. PICK x : x = sess[s]
      OBVIOUS
  <2>2. x.kind = "version" /\ Finish(s) /\ UNCHANGED <<pol, asg, astray>>
      BY <1>11, <2>1 DEF VersionCommit
  <2>3. x.p \in Policies /\ x.n \in Numbers /\ x.doc \in Texts
      BY <2>1, <2>2 DEF CatalogInv, CatalogTypeOK, RequestOK
  <2>4. CASE ver' = ver
      BY <1>8, <2>2, <2>4
  <2>5. CASE ver[x.p][x.n].status = "none" /\ ver' = [ver EXCEPT ![x.p][x.n] = Draft(x.doc)]
    <3>1. pol[x.p] \in PolicyRow /\ pol' = [pol EXCEPT ![x.p] = pol[x.p]]
        BY <2>2, <2>3 DEF CatalogInv, CatalogTypeOK
    <3>2. Draft(x.doc) \in VersionRow
        BY <2>3, CatalogRows
    <3> QED
        BY <1>9, <2>2, <2>3, <2>5, <3>1, <3>2
  <2> QED
      BY <1>11, <2>1, <2>4, <2>5 DEF VersionCommit
<1>12. ASSUME NEW s \in Sessions, PublishCommit(s) PROVE CatalogInv'
  <2>1. PICK x : x = sess[s]
      OBVIOUS
  <2>2. x.kind = "publish" /\ Finish(s) /\ UNCHANGED asg
      BY <1>12, <2>1 DEF PublishCommit
  <2>3. x.p \in Policies /\ x.q \in Policies /\ x.n \in Numbers /\ x.row \in VersionRow
      BY <2>1, <2>2 DEF CatalogInv, CatalogTypeOK, RequestOK
  <2>4. CASE UNCHANGED <<ver, pol, astray>>
      BY <1>8, <2>2, <2>4
  <2>5. CASE ~UNCHANGED <<ver, pol, astray>>
    <3>1. PICK st : st = IF x.saw.status = "active" THEN pol[x.p].status ELSE "active"
        OBVIOUS
    <3>2. PICK b : b = [pol[x.p] EXCEPT !.cur = x.n, !.status = st]
        OBVIOUS
    <3>3. PICK r : r = [ver[x.q][x.n] EXCEPT !.status = "published", !.sig = x.row.doc]
        OBVIOUS
    <3>4. pol[x.p] \in PolicyRow /\ ver[x.q][x.n] \in VersionRow /\ x.row.doc \in Texts
        BY <2>3 DEF CatalogInv, CatalogTypeOK, VersionRow
    <3>5. st \in {"none", "draft", "active", "archived"} /\ x.n \in 0..MaxVersion
        BY <2>3, <3>1, <3>4 DEF PolicyRow, Numbers
    <3>6. b \in PolicyRow /\ b.cur = x.n
        BY <3>2, <3>4, <3>5 DEF PolicyRow
    <3>7. r \in VersionRow /\ r.status = "published"
        BY <3>3, <3>4 DEF VersionRow
    <3>8. /\ ver' = [ver EXCEPT ![x.q][x.n].status = "published", ![x.q][x.n].sig = x.row.doc]
          /\ pol' = [pol EXCEPT ![x.p].cur = x.n, ![x.p].status = IF x.saw.status = "active" THEN @ ELSE "active"]
          /\ astray' = IF x.q = x.p THEN astray \ {x.p} ELSE astray \cup {x.p}
        BY <1>12, <2>1, <2>3, <2>5 DEF PublishCommit, Astray
    <3>9. ver' = [ver EXCEPT ![x.q][x.n] = r]
        BY <2>3, <3>3, <3>8 DEF CatalogInv, CatalogTypeOK
    <3>10. pol' = [pol EXCEPT ![x.p] = b]
        BY <2>3, <3>1, <3>2, <3>4, <3>8 DEF CatalogInv, CatalogTypeOK, PolicyRow
    <3>11. PICK p \in Policies, q \in Policies, n \in Numbers : p = x.p /\ q = x.q /\ n = x.n
        BY <2>3
    <3>12. ver' = [ver EXCEPT ![q][n] = r] /\ pol' = [pol EXCEPT ![p] = b]
        BY <3>9, <3>10, <3>11
    <3>13. /\ b \in PolicyRow /\ r \in VersionRow /\ b.cur = n /\ r.status = "published"
           /\ astray' = IF q = p THEN astray \ {p} ELSE astray \cup {p}
        BY <3>6, <3>7, <3>8, <3>11
    <3>14. pol' \in [Policies -> PolicyRow] /\ ver' \in [Policies -> [Numbers -> VersionRow]]
        BY <3>12, <3>13 DEF CatalogInv, CatalogTypeOK
    <3>15. /\ pol'[p] = b /\ \A z \in Policies : z # p => pol'[z] = pol[z]
           /\ \A z \in Policies, m \in Numbers : ver'[z][m] = IF z = q /\ m = n THEN r ELSE ver[z][m]
        BY <3>12 DEF CatalogInv, CatalogTypeOK
    <3>16. ASSUME NEW z \in Policies, z \notin astray', pol'[z].cur # 0
           PROVE  ver'[z][pol'[z].cur].status = "published"
      <4>1. CASE z = p
        <5>1. q = p /\ pol'[z].cur = n
            BY <3>13, <3>15, <3>16, <4>1
        <5>2. ver'[z][n] = r
            BY <3>15, <4>1, <5>1
        <5> QED
            BY <3>13, <5>1, <5>2
      <4>2. CASE z # p
        <5>1. PICK m : m = pol[z].cur
            OBVIOUS
        <5>2. pol'[z].cur = m /\ z \notin astray /\ m # 0
            BY <3>13, <3>15, <3>16, <4>2, <5>1
        <5>3. m \in Numbers /\ ver[z][m].status = "published"
            BY <5>1, <5>2 DEF CatalogInv, CatalogTypeOK, PolicyRow, CurrentIsPublished, Numbers
        <5>4. ver'[z][m] = IF z = q /\ m = n THEN r ELSE ver[z][m]
            BY <3>15, <5>3
        <5> QED
            BY <3>13, <5>2, <5>3, <5>4
      <4> QED
          BY <4>1, <4>2
    <3>17. CurrentIsPublished'
        BY <3>16 DEF CurrentIsPublished
    <3>18. DOMAIN sess' = Sessions /\ \A z \in Sessions : RequestOK(sess'[z])
        BY <2>2, SessionEnds DEF CatalogInv
    <3> QED
        BY <2>2, <3>14, <3>17, <3>18 DEF CatalogInv, CatalogTypeOK
  <2> QED
      BY <2>4, <2>5
<1>13. ASSUME NEW s \in Sessions, DeleteCommit(s) PROVE CatalogInv'
  <2>1. PICK x : x = sess[s]
      OBVIOUS
  <2>2. x.kind = "delete" /\ Finish(s) /\ UNCHANGED astray
      BY <1>13, <2>1 DEF DeleteCommit
  <2>3. x.p \in Policies /\ x.n \in Numbers
      BY <2>1, <2>2 DEF CatalogInv, CatalogTypeOK, RequestOK
  <2>4. CASE UNCHANGED <<pol, ver, asg>>
      BY <1>8, <2>2, <2>4
  <2>5. CASE pol' = [pol EXCEPT ![x.p].status = "archived"] /\ UNCHANGED <<ver, asg>>
    <3>1. PICK b : b = [pol[x.p] EXCEPT !.status = "archived"]
        OBVIOUS
    <3>2. pol[x.p] \in PolicyRow /\ ver[x.p][x.n] \in VersionRow
        BY <2>3 DEF CatalogInv, CatalogTypeOK
    <3>3. b \in PolicyRow /\ b.cur = pol[x.p].cur
        BY <3>1, <3>2 DEF PolicyRow
    <3>4. PICK r : r = ver[x.p][x.n]
        OBVIOUS
    <3>5. /\ pol' = [pol EXCEPT ![x.p] = b] /\ ver' = [ver EXCEPT ![x.p][x.n] = r] /\ UNCHANGED asg
          /\ r \in VersionRow
        BY <2>3, <2>5, <3>1, <3>2, <3>4 DEF CatalogInv, CatalogTypeOK
    <3> QED
        BY <1>9, <2>2, <2>3, <3>3, <3>4, <3>5
  <2>6. CASE /\ pol' = [pol EXCEPT ![x.p] = NoPolicy]
             /\ ver' = [ver EXCEPT ![x.p] = [n \in Numbers |-> NoVersionRow]]
             /\ asg' = [asg EXCEPT ![x.p] = FALSE]
    <3>1. PICK none : none = [n \in Numbers |-> NoVersionRow]
        OBVIOUS
    <3>2. none \in [Numbers -> VersionRow] /\ NoPolicy \in PolicyRow /\ NoPolicy.cur = 0
        BY <3>1, <1>0, CatalogRows
    <3>3. /\ pol' \in [Policies -> PolicyRow] /\ ver' \in [Policies -> [Numbers -> VersionRow]]
          /\ pol'[x.p].cur = 0
          /\ \A q \in Policies : q # x.p => pol'[q] = pol[q] /\ ver'[q] = ver[q]
        BY <2>3, <2>6, <3>1, <3>2 DEF CatalogInv, CatalogTypeOK
    <3>4. CurrentIsPublished'
        BY <2>2, <3>3 DEF CatalogInv, CurrentIsPublished
    <3>5. DOMAIN sess' = Sessions /\ \A z \in Sessions : RequestOK(sess'[z])
        BY <2>2, SessionEnds DEF CatalogInv
    <3> QED
        BY <2>6, <3>3, <3>4, <3>5 DEF CatalogInv, CatalogTypeOK
  <2> QED
      BY <1>13, <2>1, <2>4, <2>5, <2>6 DEF DeleteCommit
<1>14. CASE UNCHANGED vars
    BY <1>14 DEF vars, CatalogInv, CatalogTypeOK, CurrentIsPublished
<1> QED
    BY <1>1, <1>2, <1>4, <1>5, <1>6, <1>7, <1>10, <1>11, <1>12, <1>13, <1>14 DEF Next

LEMMA CatalogInit ==
    ASSUME VersionAssumption, CatalogAssumption, Init
    PROVE  CatalogInv
<1>1. PICK d : d = CHOOSE e \in Docs : TRUE
    OBVIOUS
<1>2. d \in Texts
    BY <1>1 DEF CatalogAssumption, Texts
<1>3. PICK r : r = [Draft(d) EXCEPT !.status = "published"]
    OBVIOUS
<1>4. r \in VersionRow /\ r.status = "published"
    BY <1>2, <1>3 DEF Draft, VersionRow, Texts
<1>5. pol \in [Policies -> PolicyRow]
    BY CatalogRows DEF Init, PolicyRow, VersionAssumption, NoPolicy
<1>6. ver \in [Policies -> [Numbers -> VersionRow]]
    BY <1>1, <1>2, <1>3, <1>4, CatalogRows DEF Init
<1>7. DOMAIN asg = Policies /\ DOMAIN sess = Sessions /\ \A s \in Sessions : RequestOK(sess[s])
    BY DEF Init, RequestOK, IdleSession
<1>8. CurrentIsPublished
    BY <1>1, <1>3, <1>4, CatalogRows DEF Init, CurrentIsPublished, NoPolicy, Numbers, VersionAssumption
<1> QED
    BY <1>5, <1>6, <1>7, <1>8 DEF CatalogInv, CatalogTypeOK

\* However the requests on policies cross -- publishing against a new version, an edit or a
\* deletion --, the current version of a policy is one of its own that was published, unless the
\* request that published it last named a version of another policy (publish_version,
\* get_version, create_version, delete_policy).
THEOREM CurrentPublished ==
    ASSUME VersionAssumption, CatalogAssumption
    PROVE  Spec => []CurrentIsPublished
<1>1. CatalogInv /\ [Next]_vars => CatalogInv'
    BY CatalogNext
<1>2. CatalogInv => CurrentIsPublished
    BY DEF CatalogInv
<1> QED
    BY <1>1, <1>2, CatalogInit, PTL DEF Spec

\* One request at a time.
OneRequest == \A s, t \in Sessions : s = t

\* Every row has the hash of its document, and the signature of it once it was published.
RowSound(p, n, r) ==
    /\ r.hash = r.doc
    /\ r.status = "published" /\ ~(p \in Seeded /\ n = 1) => r.sig = r.doc

\* What a request under way has read about the row it will write still holds.
RequestSound(x) ==
    /\ x.kind = "publish" => /\ pol[x.p].status # "none" /\ pol[x.q].status # "none"
                             /\ ver[x.q][x.n] = x.row /\ x.row.status = "draft"
    /\ x.kind = "update" => pol[x.p].status # "none" /\ ver[x.p][1].status = "draft"

SignatureInv ==
    /\ CatalogInv
    /\ \A p \in Policies, n \in Numbers : RowSound(p, n, ver[p][n])
    /\ \A s \in Sessions : RequestSound(sess[s])

\* One row is written, by the one request, which ends, or of a policy that was not there.
LEMMA RowSigned ==
    ASSUME VersionAssumption, OneRequest, SignatureInv, NEW p \in Policies, NEW n \in Numbers, NEW r \in VersionRow,
           NEW b \in PolicyRow, RowSound(p, n, r),
           ver' = [ver EXCEPT ![p][n] = r], pol' = [pol EXCEPT ![p] = b],
           \/ \E s \in Sessions : Finish(s)
           \/ UNCHANGED sess /\ pol[p].status = "none"
    PROVE  /\ \A q \in Policies, m \in Numbers : RowSound(q, m, ver'[q][m])
           /\ (\A s \in Sessions : RequestSound(sess[s]))'
<1>1. \A q \in Policies, m \in Numbers : ver'[q][m] = IF q = p /\ m = n THEN r ELSE ver[q][m]
    BY DEF SignatureInv, CatalogInv, CatalogTypeOK
<1>2. \A q \in Policies, m \in Numbers : RowSound(q, m, ver'[q][m])
    BY <1>1 DEF SignatureInv
<1>3. CASE \E s \in Sessions : Finish(s)
  <2>1. \A s \in Sessions : sess'[s].kind = "idle"
      BY <1>3, SessionEnds DEF OneRequest, SignatureInv, CatalogInv
  <2> QED
      BY <1>2, <2>1 DEF RequestSound
<1>4. CASE UNCHANGED sess /\ pol[p].status = "none"
  <2>1. \A s \in Sessions : sess[s].kind # "idle" => sess[s].p \in Policies /\ sess[s].q \in Policies /\ sess[s].n \in Numbers
      BY DEF SignatureInv, CatalogInv, CatalogTypeOK, RequestOK
  <2>2. ASSUME NEW s \in Sessions, sess[s].kind \in {"publish", "update"}
        PROVE  /\ sess[s].p \in Policies /\ sess[s].n \in Numbers
               /\ pol'[sess[s].p] = pol[sess[s].p] /\ ver'[sess[s].p] = ver[sess[s].p]
               /\ sess[s].kind = "publish" => /\ pol'[sess[s].q] = pol[sess[s].q]
                                              /\ ver'[sess[s].q] = ver[sess[s].q]
    <3>1. sess[s].p # p /\ (sess[s].kind = "publish" => sess[s].q # p)
        BY <1>4, <2>2 DEF SignatureInv, RequestSound
    <3> QED
        BY <2>1, <2>2, <3>1 DEF SignatureInv, CatalogInv, CatalogTypeOK
  <2> QED
      BY <1>2, <1>4, <2>2 DEF SignatureInv, RequestSound
<1> QED
    BY <1>3, <1>4

LEMMA SignatureNext ==
    ASSUME VersionAssumption, CatalogAssumption, OneRequest, SignatureInv, [Next]_vars
    PROVE  SignatureInv'
<1>0. CatalogInv' /\ Docs \subseteq Texts /\ NoDoc \in Texts
    BY CatalogNext DEF SignatureInv, Texts
<1>1. \A s \in Sessions : sess[s].kind # "idle" =>
          /\ sess[s].p \in Policies /\ sess[s].q \in Policies /\ sess[s].n \in Numbers /\ sess[s].doc \in Texts
          /\ sess[s].row \in VersionRow
    BY DEF SignatureInv, CatalogInv, CatalogTypeOK, RequestOK
<1>2. 1 \in Numbers /\ \A p \in Policies : pol[p] \in PolicyRow /\ \A n \in Numbers : ver[p][n] \in VersionRow
    BY CatalogRows, <1>0 DEF SignatureInv, CatalogInv, CatalogTypeOK
\* A request ends that wrote no row.
<1>3. ASSUME NEW s \in Sessions, Finish(s), UNCHANGED ver PROVE SignatureInv'
  <2>1. \A t \in Sessions : sess'[t].kind = "idle"
      BY <1>3, SessionEnds DEF OneRequest, SignatureInv, CatalogInv
  <2> QED
      BY <1>0, <1>3, <2>1 DEF SignatureInv, RequestSound
\* A draft is written.
<1>4. ASSUME NEW p \in Policies, NEW n \in Numbers, NEW d \in Texts, NEW b \in PolicyRow,
             ver' = [ver EXCEPT ![p][n] = Draft(d)], pol' = [pol EXCEPT ![p] = b],
             (\E s \in Sessions : Finish(s)) \/ (UNCHANGED sess /\ pol[p].status = "none")
      PROVE  SignatureInv'
  <2>1. Draft(d) \in VersionRow /\ RowSound(p, n, Draft(d))
      BY CatalogRows DEF RowSound
  <2> QED
      BY <1>0, <1>4, <2>1, RowSigned DEF SignatureInv
<1>5. ASSUME NEW p \in Policies, NEW d \in Docs, CreatePolicy(p, d) PROVE SignatureInv'
    BY <1>0, <1>2, <1>4, <1>5, CatalogRows DEF CreatePolicy, Exists
<1>6. ASSUME NEW t \in Policies, NEW p \in Policies, NEW e \in Docs, FromTemplate(t, p, e) PROVE SignatureInv'
  <2>1. PICK n : n = IF pol[t].cur = 0 THEN 1 ELSE pol[t].cur
      OBVIOUS
  <2>2. PICK d : d = IF ver[t][n].status = "none" THEN e ELSE ver[t][n].doc
      OBVIOUS
  <2>3. d \in Texts
      BY <1>0, <1>2, <2>1, <2>2 DEF PolicyRow, VersionRow, Numbers
  <2> QED
      BY <1>2, <1>4, <1>6, <2>1, <2>2, <2>3, CatalogRows DEF FromTemplate, Exists
<1>7. ASSUME NEW s \in Sessions, NEW k, NEW p \in Policies, NEW q \in Policies, NEW n \in Numbers, NEW d \in Texts,
             Begin(s, k, p, q, n, d),
             k = "publish" => pol[p].status # "none" /\ pol[q].status # "none" /\ ver[q][n].status = "draft",
             k = "update" => pol[p].status # "none" /\ ver[p][1].status = "draft"
      PROVE  SignatureInv'
  <2>1. PICK x : /\ x.kind = k /\ x.p = p /\ x.q = q /\ x.n = n /\ x.row = ver[q][n]
                 /\ sess'[s] = x /\ \A z \in Sessions : z # s => sess'[z] = sess[z]
      BY <1>7, SessionBegins DEF SignatureInv, CatalogInv
  <2>2. UNCHANGED <<pol, ver>>
      BY <1>7 DEF Begin
  <2> QED
      BY <1>0, <1>7, <2>1, <2>2 DEF SignatureInv, RequestSound
<1>8. ASSUME NEW s \in Sessions, NEW p \in Policies, NEW d \in Docs, UpdateLoad(s, p, d) PROVE SignatureInv'
    BY <1>0, <1>2, <1>7, <1>8 DEF UpdateLoad
<1>9. ASSUME NEW s \in Sessions, NEW p \in Policies, NEW d \in Docs, VersionLoad(s, p, d) PROVE SignatureInv'
    BY <1>0, <1>7, <1>9 DEF VersionLoad
<1>10. ASSUME NEW s \in Sessions, NEW p \in Policies, NEW q \in Policies, NEW n \in Numbers, PublishLoad(s, p, q, n)
       PROVE  SignatureInv'
    BY <1>0, <1>7, <1>10 DEF PublishLoad, Exists
<1>11. ASSUME NEW s \in Sessions, NEW p \in Policies, DeleteLoad(s, p) PROVE SignatureInv'
    BY <1>0, <1>2, <1>7, <1>11 DEF DeleteLoad
<1>12. ASSUME NEW p \in Policies, CreateAssignment(p) \/ DeleteAssignment(p) PROVE SignatureInv'
    BY <1>0, <1>12 DEF CreateAssignment, DeleteAssignment, SignatureInv, RequestSound
<1>13. ASSUME NEW s \in Sessions, UpdateCommit(s) PROVE SignatureInv'
  <2>1. PICK x : x = sess[s]
      OBVIOUS
  <2>2. x.kind = "update" /\ Finish(s) /\ UNCHANGED pol
      BY <1>13, <2>1 DEF UpdateCommit
  <2>3. x.p \in Policies /\ x.doc \in Texts /\ pol[x.p].status # "none" /\ ver[x.p][1].status = "draft"
      BY <1>1, <2>1, <2>2 DEF SignatureInv, RequestSound
  <2>4. ver' = [ver EXCEPT ![x.p][1].doc = x.doc, ![x.p][1].hash = x.doc]
      BY <1>13, <2>1, <2>3 DEF UpdateCommit, Exists
  <2>5. PICK r : r = [ver[x.p][1] EXCEPT !.doc = x.doc, !.hash = x.doc]
      OBVIOUS
  <2>6. r \in VersionRow /\ r.status = "draft" /\ r.doc = x.doc /\ r.hash = x.doc
    <3>1. ver[x.p][1] \in VersionRow
        BY <1>2, <2>3
    <3> QED
        BY <2>3, <2>5, <3>1 DEF VersionRow
  <2>7. ver' = [ver EXCEPT ![x.p][1] = r]
      BY <1>2, <2>3, <2>4, <2>5 DEF SignatureInv, CatalogInv, CatalogTypeOK
  <2>8. PICK b : b = pol[x.p]
      OBVIOUS
  <2>9. b \in PolicyRow /\ pol' = [pol EXCEPT ![x.p] = b]
      BY <1>2, <2>2, <2>3, <2>8 DEF SignatureInv, CatalogInv, CatalogTypeOK
  <2>10. RowSound(x.p, 1, r)
      BY <2>6 DEF RowSound
  <2> QED
      BY <1>0, <1>2, <2>2, <2>3, <2>6, <2>7, <2>9, <2>10, RowSigned DEF SignatureInv
<1>14. ASSUME NEW s \in Sessions, VersionCommit(s) PROVE SignatureInv'
  <2>1. PICK x : x = sess[s]
      OBVIOUS
  <2>2. x.kind = "version" /\ Finish(s) /\ UNCHANGED pol
      BY <1>14, <2>1 DEF VersionCommit
  <2>3. x.p \in Policies /\ x.n \in Numbers /\ x.doc \in Texts
      BY <1>1, <2>1, <2>2
  <2>4. CASE UNCHANGED ver
      BY <1>3, <2>2, <2>4
  <2>5. CASE ver' = [ver EXCEPT ![x.p][x.n] = Draft(x.doc)]
    <3>1. PICK b : b = pol[x.p]
        OBVIOUS
    <3>2. b \in PolicyRow /\ pol' = [pol EXCEPT ![x.p] = b]
        BY <1>2, <2>2, <2>3, <3>1 DEF SignatureInv, CatalogInv, CatalogTypeOK
    <3> QED
        BY <1>4, <2>2, <2>3, <2>5, <3>2
  <2> QED
      BY <1>14, <2>1, <2>4, <2>5 DEF VersionCommit
<1>15. ASSUME NEW s \in Sessions, PublishCommit(s) PROVE SignatureInv'
  <2>1. PICK x : x = sess[s]
      OBVIOUS
  <2>2. x.kind = "publish" /\ Finish(s)
      BY <1>15, <2>1 DEF PublishCommit
  <2>3. /\ x.p \in Policies /\ x.q \in Policies /\ x.n \in Numbers /\ x.row \in VersionRow
        /\ pol[x.p].status # "none" /\ pol[x.q].status # "none" /\ ver[x.q][x.n] = x.row
      BY <1>1, <2>1, <2>2 DEF SignatureInv, RequestSound
  <2>4. /\ ver' = [ver EXCEPT ![x.q][x.n].status = "published", ![x.q][x.n].sig = x.row.doc]
        /\ \E b : pol' = [pol EXCEPT ![x.p] = b]
      BY <1>15, <2>1, <2>3 DEF PublishCommit, Exists
  <2>5. PICK r : r = [x.row EXCEPT !.status = "published", !.sig = x.row.doc]
      OBVIOUS
  <2>6. r.doc = x.row.doc /\ r.hash = x.row.hash /\ r.sig = x.row.doc
      BY <2>3, <2>5 DEF VersionRow
  <2>7. ver' = [ver EXCEPT ![x.q][x.n] = r]
      BY <2>3, <2>4, <2>5 DEF SignatureInv, CatalogInv, CatalogTypeOK
  <2>8. RowSound(x.q, x.n, r)
      BY <2>3, <2>6 DEF RowSound, SignatureInv
  <2>9. \A q \in Policies, m \in Numbers : ver'[q][m] = IF q = x.q /\ m = x.n THEN r ELSE ver[q][m]
      BY <2>3, <2>7 DEF SignatureInv, CatalogInv, CatalogTypeOK
  <2>10. \A t \in Sessions : sess'[t].kind = "idle"
      BY <2>2, SessionEnds DEF OneRequest, SignatureInv, CatalogInv
  <2> QED
      BY <1>0, <2>8, <2>9, <2>10 DEF SignatureInv, RequestSound
<1>16. ASSUME NEW s \in Sessions, DeleteCommit(s) PROVE SignatureInv'
  <2>1. PICK x : x = sess[s]
      OBVIOUS
  <2>2. x.kind = "delete" /\ Finish(s)
      BY <1>16, <2>1 DEF DeleteCommit
  <2>3. x.p \in Policies
      BY <1>1, <2>1, <2>2
  <2>4. CASE UNCHANGED ver
      BY <1>3, <2>2, <2>4
  <2>5. CASE ver' = [ver EXCEPT ![x.p] = [n \in Numbers |-> NoVersionRow]]
    <3>1. \A q \in Policies, m \in Numbers : ver'[q][m] = IF q = x.p THEN NoVersionRow ELSE ver[q][m]
        BY <2>3, <2>5 DEF SignatureInv, CatalogInv, CatalogTypeOK
    <3>2. \A q \in Policies, m \in Numbers : RowSound(q, m, NoVersionRow)
        BY DEF RowSound, NoVersionRow
    <3>3. \A t \in Sessions : sess'[t].kind = "idle"
        BY <2>2, SessionEnds DEF OneRequest, SignatureInv, CatalogInv
    <3> QED
        BY <1>0, <3>1, <3>2, <3>3 DEF SignatureInv, RequestSound
  <2> QED
      BY <1>16, <2>1, <2>4, <2>5 DEF DeleteCommit
<1>17. CASE UNCHANGED vars
    BY <1>0, <1>17 DEF vars, SignatureInv, RequestSound
<1> QED
    BY <1>5, <1>6, <1>8, <1>9, <1>10, <1>11, <1>12, <1>13, <1>14, <1>15, <1>16, <1>17 DEF Next

LEMMA SignatureInit ==
    ASSUME VersionAssumption, CatalogAssumption, Init
    PROVE  SignatureInv
<1>1. CatalogInv
    BY CatalogInit
<1>2. PICK d : d = CHOOSE e \in Docs : TRUE
    OBVIOUS
<1>3. d \in Texts
    BY <1>2 DEF CatalogAssumption, Texts
<1>4. PICK r : r = [Draft(d) EXCEPT !.status = "published"]
    OBVIOUS
<1>5. r.hash = r.doc
    BY <1>4 DEF Draft
<1>6. \A p \in Policies, n \in Numbers : ver[p][n] = IF p \in Seeded /\ n = 1 THEN r ELSE NoVersionRow
    BY <1>2, <1>4 DEF Init
<1>7. \A p \in Policies, n \in Numbers : RowSound(p, n, ver[p][n])
    BY <1>5, <1>6 DEF RowSound, NoVersionRow
<1> QED
    BY <1>1, <1>7 DEF SignatureInv, Init, RequestSound, IdleSession

\* While requests on policies come one at a time, what the agent verifies about a published
\* version holds: its signature and its hash are those of the document it is sent
\* (publish_version, update_policy; two requests that cross can break it).
THEOREM SignedAsPublished ==
    ASSUME VersionAssumption, CatalogAssumption, OneRequest
    PROVE  Spec => []PublishedVerifies
<1>1. SignatureInv /\ [Next]_vars => SignatureInv'
    BY SignatureNext
<1>2. SignatureInv => PublishedVerifies
    BY DEF SignatureInv, RowSound, PublishedVerifies
<1> QED
    BY <1>1, <1>2, SignatureInit, PTL DEF Spec

-----------------------------------------------------------------------------
(* Workflows and their schedule.                                           *)

TimeAssumption == MaxTime \in Nat

WorkflowText == Contents \cup {Flow!Blank}
WorkflowRow  == [status : {"NONE", "DRAFT", "PUBLISHED", "ARCHIVED"}, content : WorkflowText]
ReplicaState == [pc : {"idle", "claim", "start"}, seen : Nat, cur : Nat]

\* What a request of the API has read, as far as it matters.
EditOK(x) ==
    /\ x.pc \in {"create", "edit", "publish"} => x.v \in Flow!Numbers /\ x.text \in WorkflowText
    /\ x.pc = "meta" => "meta" \in Events /\ x.next \in Nat

\* A scheduler worker has seen a time that has come, a run was started for such times only, and
\* the current version is a published one.
FlowInv ==
    /\ version \in [Flow!Numbers -> WorkflowRow] /\ current \in {0} \cup Flow!Numbers
    /\ now \in Nat /\ nextRun \in Nat
    /\ DOMAIN edit = Sessions /\ \A s \in Sessions : EditOK(edit[s])
    /\ rep \in [Replicas -> ReplicaState]
    /\ \A w \in Replicas : rep[w].pc # "idle" => rep[w].seen <= now
    /\ fired \in [0..MaxTime -> Nat]
    /\ Flow!NeverEarly
    /\ Flow!CurrentIsPublished

\* The versions and the requests: a request begins, or ends having written at most one row's
\* content, a row that was not there, or a publication.
LEMMA FlowTimes ==
    ASSUME TimeAssumption
    PROVE  Flow!Never \in Nat
BY DEF TimeAssumption, Flow!Never

LEMMA FlowBegins ==
    ASSUME FlowInv, NEW s \in Sessions, NEW pc, NEW v, NEW c, Flow!Begin(s, pc, v, c),
           pc \in {"create", "edit", "publish"} => v \in Flow!Numbers /\ c \in WorkflowText,
           pc = "meta" => "meta" \in Events
    PROVE  FlowInv'
<1>1. PICK x : x = [pc |-> pc, v |-> v, base |-> version, cur |-> current, text |-> c, next |-> now + 1]
    OBVIOUS
<1>2. EditOK(x)
    BY <1>1 DEF EditOK, FlowInv
<1>3. edit' = [edit EXCEPT ![s] = x] /\ UNCHANGED <<version, current, nextRun, now, rep, fired>>
    BY <1>1 DEF Flow!Begin
<1> QED
    BY <1>2, <1>3 DEF FlowInv, Flow!NeverEarly, Flow!CurrentIsPublished

LEMMA FlowEnds ==
    ASSUME FlowInv, NEW s \in Sessions, Flow!Done(s)
    PROVE  DOMAIN edit' = Sessions /\ \A t \in Sessions : EditOK(edit'[t])
BY DEF FlowInv, Flow!Done, Flow!Idle, EditOK

LEMMA FlowNext ==
    ASSUME VersionAssumption, TimeAssumption, FlowInv, [Flow!Next]_(Flow!vars)
    PROVE  FlowInv'
<1>0. Contents \subseteq WorkflowText /\ Flow!Blank \in WorkflowText
    BY DEF WorkflowText
<1>1. ASSUME NEW s \in Sessions, NEW c \in Contents, Flow!CreateLoad(s, c) PROVE FlowInv'
    BY <1>0, <1>1, FlowBegins DEF Flow!CreateLoad
<1>2. ASSUME NEW s \in Sessions, NEW v \in Flow!Numbers, NEW k \in Contents, NEW c \in Contents, Flow!EditLoad(s, v, k, c)
      PROVE  FlowInv'
    BY <1>0, <1>2, FlowBegins DEF Flow!EditLoad
<1>3. ASSUME NEW s \in Sessions, NEW v \in Flow!Numbers, Flow!PublishLoad(s, v) PROVE FlowInv'
  <2>1. version[v].content \in WorkflowText
      BY DEF FlowInv, WorkflowRow
  <2> QED
      BY <1>3, <2>1, FlowBegins DEF Flow!PublishLoad
<1>4. ASSUME NEW s \in Sessions, Flow!MetaLoad(s) PROVE FlowInv'
    BY <1>4, FlowBegins DEF Flow!MetaLoad
\* A request ends that wrote no more than versions and the pointer.
<1>5. ASSUME NEW s \in Sessions, Flow!Done(s), UNCHANGED Flow!Schedule,
             version' \in [Flow!Numbers -> WorkflowRow], current' \in {0} \cup Flow!Numbers, Flow!CurrentIsPublished'
      PROVE  FlowInv'
    BY <1>5, FlowEnds DEF FlowInv, Flow!Schedule, Flow!NeverEarly
<1>6. ASSUME NEW s \in Sessions, Flow!CreateCommit(s) PROVE FlowInv'
  <2>1. PICK x : x = edit[s]
      OBVIOUS
  <2>2. x.v \in Flow!Numbers /\ x.text \in WorkflowText
      BY <1>6, <2>1 DEF Flow!CreateCommit, FlowInv, EditOK
  <2>3. PICK r : r = [status |-> "DRAFT", content |-> x.text]
      OBVIOUS
  <2>4. r \in WorkflowRow
      BY <2>2, <2>3 DEF WorkflowRow
  <2>5. version' = IF version[x.v].status = "NONE" THEN [version EXCEPT ![x.v] = r] ELSE version
      BY <1>6, <2>1, <2>3 DEF Flow!CreateCommit
  <2>6. version' \in [Flow!Numbers -> WorkflowRow]
      BY <2>2, <2>4, <2>5 DEF FlowInv
  <2>7. \A w \in Flow!Numbers : version[w].status = "PUBLISHED" => version'[w] = version[w]
      BY <2>2, <2>5 DEF FlowInv
  <2>8. current' = current /\ (current # 0 => current \in Flow!Numbers)
      BY <1>6 DEF Flow!CreateCommit, FlowInv
  <2> QED
      BY <1>5, <1>6, <2>6, <2>7, <2>8 DEF Flow!CreateCommit, FlowInv, Flow!CurrentIsPublished
<1>7. ASSUME NEW s \in Sessions, Flow!EditCommit(s) PROVE FlowInv'
  <2>1. PICK x : x = edit[s]
      OBVIOUS
  <2>2. x.v \in Flow!Numbers /\ x.text \in WorkflowText
      BY <1>7, <2>1 DEF Flow!EditCommit, FlowInv, EditOK
  <2>3. PICK r : r = [version[x.v] EXCEPT !.content = x.text]
      OBVIOUS
  <2>4. r \in WorkflowRow /\ r.status = version[x.v].status
      BY <2>2, <2>3 DEF FlowInv, WorkflowRow
  <2>5. version' = [version EXCEPT ![x.v] = r]
      BY <1>7, <2>1, <2>2, <2>3 DEF Flow!EditCommit, FlowInv
  <2>6. version' \in [Flow!Numbers -> WorkflowRow]
      BY <2>2, <2>4, <2>5 DEF FlowInv
  <2>7. \A w \in Flow!Numbers : version'[w].status = version[w].status
      BY <2>2, <2>4, <2>5 DEF FlowInv
  <2>8. current # 0 => current \in Flow!Numbers
      BY DEF FlowInv
  <2> QED
      BY <1>5, <1>7, <2>6, <2>7, <2>8 DEF Flow!EditCommit, FlowInv, Flow!CurrentIsPublished
<1>8. ASSUME NEW s \in Sessions, Flow!PublishCommit(s) PROVE FlowInv'
  <2>1. PICK x : x = edit[s]
      OBVIOUS
  <2>2. x.v \in Flow!Numbers
      BY <1>8, <2>1 DEF Flow!PublishCommit, FlowInv, EditOK
  <2>3. \A w \in Flow!Numbers : version[w] \in WorkflowRow
      BY DEF FlowInv
  <2>4. \A w \in Flow!Numbers : /\ [version[w] EXCEPT !.status = "PUBLISHED"] \in WorkflowRow
                                /\ [version[w] EXCEPT !.status = "PUBLISHED"].status = "PUBLISHED"
                                /\ [version[w] EXCEPT !.status = "ARCHIVED"] \in WorkflowRow
      BY <2>3 DEF WorkflowRow
  <2>5. version' \in [Flow!Numbers -> WorkflowRow] /\ version'[x.v].status = "PUBLISHED"
      BY <1>8, <2>1, <2>2, <2>3, <2>4 DEF Flow!PublishCommit
  <2>6. current' = x.v
      BY <1>8, <2>1 DEF Flow!PublishCommit
  <2> QED
      BY <1>5, <1>8, <2>2, <2>5, <2>6 DEF Flow!PublishCommit, Flow!CurrentIsPublished
<1>9. ASSUME NEW s \in Sessions, Flow!MetaCommit(s) PROVE FlowInv'
  <2>1. nextRun' \in Nat
      BY <1>9, FlowTimes DEF Flow!MetaCommit, FlowInv, EditOK
  <2> QED
      BY <1>9, <2>1, FlowEnds DEF Flow!MetaCommit, FlowInv, Flow!NeverEarly, Flow!CurrentIsPublished
\* A scheduler worker moves, or the clock.
<1>10. ASSUME NEW w \in Replicas, NEW r \in ReplicaState, rep' = [rep EXCEPT ![w] = r],
              r.pc # "idle" => r.seen <= now, UNCHANGED <<version, current, now, edit>>, nextRun' \in Nat,
              fired' = fired \/ (rep[w].pc # "idle" /\ fired' = [fired EXCEPT ![rep[w].seen] = @ + 1])
       PROVE  FlowInv'
  <2>1. rep' \in [Replicas -> ReplicaState] /\ \A z \in Replicas : rep'[z].pc # "idle" => rep'[z].seen <= now'
      BY <1>10 DEF FlowInv
  <2>2. fired' \in [0..MaxTime -> Nat]
      BY <1>10 DEF FlowInv
  <2>3. \A t \in 0..MaxTime : fired'[t] > 0 => t <= now
      BY <1>10 DEF FlowInv, Flow!NeverEarly
  <2> QED
      BY <1>10, <2>1, <2>2, <2>3 DEF FlowInv, Flow!NeverEarly, Flow!CurrentIsPublished
<1>11. ASSUME NEW w \in Replicas, Flow!TickLoad(w) PROVE FlowInv'
  <2>1. PICK r : r = [pc |-> "claim", seen |-> nextRun, cur |-> current]
      OBVIOUS
  <2>2. r \in ReplicaState /\ r.seen <= now
      BY <1>11, <2>1 DEF Flow!TickLoad, Flow!Numbers, FlowInv, ReplicaState
  <2> QED
      BY <1>10, <1>11, <2>1, <2>2 DEF Flow!TickLoad, FlowInv
<1>12. ASSUME NEW w \in Replicas, Flow!Claim(w) PROVE FlowInv'
  <2>1. PICK r : r = [rep[w] EXCEPT !.pc = IF nextRun = rep[w].seen THEN "start" ELSE "idle"]
      OBVIOUS
  <2>2. rep[w] \in ReplicaState /\ rep[w].seen <= now
      BY <1>12 DEF Flow!Claim, FlowInv
  <2>3. r \in ReplicaState /\ r.seen <= now
      BY <2>1, <2>2 DEF ReplicaState
  <2>4. /\ rep' = [rep EXCEPT ![w] = r]
        /\ nextRun' \in Nat /\ UNCHANGED <<version, current, now, edit, fired>>
      BY <1>12, <2>1, <2>2 DEF Flow!Claim, FlowInv
  <2> QED
      BY <1>10, <2>3, <2>4
<1>13. ASSUME NEW w \in Replicas, Flow!StartScheduled(w) \/ Flow!ReplicaCrash(w) PROVE FlowInv'
  <2>1. PICK r : r = [pc |-> "idle", seen |-> 0, cur |-> 0]
      OBVIOUS
  <2>2. r \in ReplicaState /\ r.pc = "idle"
      BY <2>1 DEF ReplicaState
  <2> QED
      BY <1>10, <1>13, <2>1, <2>2 DEF Flow!StartScheduled, Flow!ReplicaCrash, FlowInv
<1>14. CASE Flow!ClockTick
  <2>1. \A n \in Nat : n <= now => n <= now + 1
      BY DEF FlowInv
  <2>2. \A w \in Replicas : rep[w].seen \in Nat
      BY DEF FlowInv, ReplicaState
  <2> QED
      BY <1>14, <2>1, <2>2 DEF Flow!ClockTick, FlowInv, Flow!NeverEarly, Flow!CurrentIsPublished
<1>15. CASE UNCHANGED Flow!vars
    BY <1>15 DEF Flow!vars, FlowInv, Flow!NeverEarly, Flow!CurrentIsPublished
<1> QED
    BY <1>1, <1>2, <1>3, <1>4, <1>6, <1>7, <1>8, <1>9, <1>11, <1>12, <1>13, <1>14, <1>15 DEF Flow!Next, Flow!Request

LEMMA FlowInit ==
    ASSUME VersionAssumption, TimeAssumption, Flow!Init
    PROVE  FlowInv
<1>1. PICK r : r = [status |-> "NONE", content |-> Flow!Blank]
    OBVIOUS
<1>2. PICK d : d = [r EXCEPT !.status = "DRAFT"]
    OBVIOUS
<1>3. r \in WorkflowRow /\ d \in WorkflowRow
    BY <1>1, <1>2 DEF WorkflowRow, WorkflowText
<1>4. \A n \in Flow!Numbers : version[n] = IF n = 1 THEN d ELSE r
    BY <1>1, <1>2 DEF Flow!Init, Flow!NoRows
<1>5. version \in [Flow!Numbers -> WorkflowRow]
    BY <1>3, <1>4 DEF Flow!Init, Flow!NoRows
<1>6. PICK x : x = Flow!Idle
    OBVIOUS
<1>7. EditOK(x)
    BY <1>6 DEF EditOK, Flow!Idle
<1>8. DOMAIN edit = Sessions /\ \A s \in Sessions : EditOK(edit[s])
    BY <1>6, <1>7 DEF Flow!Init
<1>9. rep \in [Replicas -> ReplicaState] /\ \A w \in Replicas : rep[w].pc = "idle"
    BY DEF Flow!Init, ReplicaState
<1>10. fired \in [0..MaxTime -> Nat] /\ \A t \in 0..MaxTime : fired[t] = 0
    BY DEF Flow!Init
<1> QED
    BY <1>5, <1>8, <1>9, <1>10 DEF Flow!Init, FlowInv, Flow!NeverEarly, Flow!CurrentIsPublished

\* Whatever the requests and the workers do in between, a run was started only for times that
\* had come: also while the schedule is edited, a replica restarts or two of them race
\* (WorkflowSchedulerWorker, update_metadata).
THEOREM RunsAreNotEarly ==
    ASSUME VersionAssumption, TimeAssumption
    PROVE  Flow!Spec => []Flow!NeverEarly
<1>1. FlowInv /\ [Flow!Next]_(Flow!vars) => FlowInv'
    BY FlowNext
<1>2. FlowInv => Flow!NeverEarly
    BY DEF FlowInv
<1> QED
    BY <1>1, <1>2, FlowInit, PTL DEF Flow!Spec

\* Whatever publishes, edits and new versions overlap, the version runs are started from is
\* published: the pointer names no draft, and no version another publish archived
\* (publish_version, create_version, update_draft).
THEOREM CurrentVersionPublished ==
    ASSUME VersionAssumption, TimeAssumption
    PROVE  Flow!Spec => []Flow!CurrentIsPublished
<1>1. FlowInv /\ [Flow!Next]_(Flow!vars) => FlowInv'
    BY FlowNext
<1>2. FlowInv => Flow!CurrentIsPublished
    BY DEF FlowInv
<1> QED
    BY <1>1, <1>2, FlowInit, PTL DEF Flow!Spec

\* A claim moves the due time past every time claimed before: what has been started, and what
\* a worker is about to start, lies before it, and no two workers are about to start the same.
OnceInv ==
    /\ FlowInv
    /\ \A w \in Replicas : rep[w].pc = "start" => rep[w].seen < nextRun
    /\ \A w, z \in Replicas : w # z /\ rep[w].pc = "start" /\ rep[z].pc = "start" => rep[w].seen # rep[z].seen
    /\ \A t \in 0..MaxTime : fired[t] > 0 =>
          t < nextRun /\ fired[t] = 1 /\ \A w \in Replicas : rep[w].pc = "start" => rep[w].seen # t

LEMMA OnceNext ==
    ASSUME VersionAssumption, TimeAssumption, "meta" \notin Events, OnceInv, [Flow!Next]_(Flow!vars)
    PROVE  OnceInv'
<1>1. FlowInv'
    BY FlowNext DEF OnceInv
<1>2. ASSUME NEW w \in Replicas, Flow!TickLoad(w) PROVE OnceInv'
  <2>1. PICK r : r = [pc |-> "claim", seen |-> nextRun, cur |-> current]
      OBVIOUS
  <2>2. \A z \in Replicas : rep'[z].pc = "start" => rep[z].pc = "start" /\ rep'[z].seen = rep[z].seen
      BY <1>2, <2>1 DEF Flow!TickLoad, OnceInv, FlowInv
  <2> QED
      BY <1>1, <1>2, <2>2 DEF Flow!TickLoad, OnceInv
<1>3. ASSUME NEW w \in Replicas, Flow!Claim(w) PROVE OnceInv'
  <2>1. PICK r : r = [rep[w] EXCEPT !.pc = IF nextRun = rep[w].seen THEN "start" ELSE "idle"]
      OBVIOUS
  <2>2. rep[w] \in ReplicaState /\ rep[w].seen <= now /\ now \in Nat /\ nextRun \in Nat
      BY <1>3 DEF Flow!Claim, OnceInv, FlowInv
  <2>3. r.pc = (IF nextRun = rep[w].seen THEN "start" ELSE "idle") /\ r.seen = rep[w].seen
      BY <2>1, <2>2 DEF ReplicaState
  <2>4. rep'[w] = r /\ \A z \in Replicas : z # w => rep'[z] = rep[z]
      BY <1>3, <2>1 DEF Flow!Claim, OnceInv, FlowInv
  <2>5. CASE nextRun = rep[w].seen
    <3>1. nextRun' = now + 1 /\ fired' = fired /\ nextRun <= now
        BY <1>3, <2>2, <2>5 DEF Flow!Claim
    <3>2. \A z \in Replicas : rep[z].seen \in Nat
        BY DEF OnceInv, FlowInv, ReplicaState
    <3>3. \A z \in Replicas : rep'[z].pc = "start" => rep'[z].seen < nextRun'
        BY <2>2, <2>3, <2>4, <3>1, <3>2 DEF OnceInv
    <3>4. \A z \in Replicas : z # w /\ rep'[z].pc = "start" => rep'[z].seen < nextRun
        BY <2>4 DEF OnceInv
    <3>5. \A y, z \in Replicas : y # z /\ rep'[y].pc = "start" /\ rep'[z].pc = "start" => rep'[y].seen # rep'[z].seen
        BY <2>2, <2>3, <2>4, <2>5, <3>2, <3>4 DEF OnceInv
    <3>6. \A t \in 0..MaxTime : fired[t] > 0 => t < nextRun /\ t < nextRun'
        BY <2>2, <3>1 DEF OnceInv
    <3>7. \A t \in 0..MaxTime : fired[t] > 0 => \A z \in Replicas : rep'[z].pc = "start" => rep'[z].seen # t
        BY <2>2, <2>3, <2>4, <2>5, <3>6 DEF OnceInv
    <3> QED
        BY <1>1, <3>1, <3>3, <3>5, <3>6, <3>7 DEF OnceInv
  <2>6. CASE nextRun # rep[w].seen
    <3>1. nextRun' = nextRun /\ fired' = fired /\ r.pc = "idle"
        BY <1>3, <2>3, <2>6 DEF Flow!Claim
    <3> QED
        BY <1>1, <2>4, <3>1 DEF OnceInv
  <2> QED
      BY <2>5, <2>6
<1>4. ASSUME NEW w \in Replicas, Flow!StartScheduled(w) \/ Flow!ReplicaCrash(w) PROVE OnceInv'
  <2>1. PICK r : r = [pc |-> "idle", seen |-> 0, cur |-> 0]
      OBVIOUS
  <2>2. UNCHANGED nextRun /\ rep'[w].pc = "idle" /\ \A z \in Replicas : z # w => rep'[z] = rep[z]
      BY <1>4, <2>1 DEF Flow!StartScheduled, Flow!ReplicaCrash, OnceInv, FlowInv
  <2>3. CASE fired' = fired
      BY <1>1, <2>2, <2>3 DEF OnceInv
  <2>4. CASE rep[w].pc = "start" /\ fired' = [fired EXCEPT ![rep[w].seen] = @ + 1]
    <3>1. \A t \in 0..MaxTime : fired'[t] = IF t = rep[w].seen THEN fired[t] + 1 ELSE fired[t]
        BY <2>4 DEF OnceInv, FlowInv
    <3>2. \A t \in 0..MaxTime : fired[t] \in Nat /\ (t = rep[w].seen => fired[t] = 0 /\ t < nextRun)
        BY <2>4 DEF OnceInv, FlowInv
    <3>3. \A t \in 0..MaxTime : fired'[t] > 0 =>
              t < nextRun' /\ fired'[t] = 1 /\ \A z \in Replicas : rep'[z].pc = "start" => rep'[z].seen # t
        BY <2>2, <2>4, <3>1, <3>2 DEF OnceInv
    <3> QED
        BY <1>1, <2>2, <3>3 DEF OnceInv
  <2> QED
      BY <1>4, <2>3, <2>4 DEF Flow!StartScheduled, Flow!ReplicaCrash
<1>5. ASSUME UNCHANGED <<nextRun, rep, fired>> PROVE OnceInv'
    BY <1>1, <1>5 DEF OnceInv
<1>6. ASSUME NEW s \in Sessions, Flow!Request(s) PROVE OnceInv'
  <2>1. ~Flow!MetaCommit(s)
      BY DEF Flow!MetaCommit, OnceInv, FlowInv, EditOK
  <2> QED
      BY <1>5, <1>6, <2>1 DEF Flow!Request, Flow!CreateLoad, Flow!EditLoad, Flow!PublishLoad, Flow!MetaLoad, Flow!Begin,
                              Flow!CreateCommit, Flow!EditCommit, Flow!PublishCommit, Flow!Schedule
<1> QED
    BY <1>2, <1>3, <1>4, <1>5, <1>6 DEF Flow!Next, Flow!ClockTick, Flow!vars

\* A due time starts at most one run, however many replicas of the scheduler see it, race for
\* the claim and restart, as long as nobody edits the schedule meanwhile
\* (WorkflowSchedulerWorker's claim).
THEOREM DueTimeStartsOneRun ==
    ASSUME VersionAssumption, TimeAssumption, "meta" \notin Events
    PROVE  Flow!Spec => []Flow!FiredOnce
<1>1. ASSUME Flow!Init PROVE OnceInv
  <2>1. FlowInv
      BY <1>1, FlowInit
  <2> QED
      BY <1>1, <2>1 DEF OnceInv, Flow!Init
<1>2. OnceInv /\ [Flow!Next]_(Flow!vars) => OnceInv'
    BY OnceNext
<1>3. ASSUME OnceInv PROVE Flow!FiredOnce
  <2>1. fired \in [0..MaxTime -> Nat] /\ \A t \in 0..MaxTime : fired[t] > 0 => fired[t] = 1
      BY <1>3 DEF OnceInv, FlowInv
  <2> QED
      BY <2>1 DEF Flow!FiredOnce
<1> QED
    BY <1>1, <1>2, <1>3, PTL DEF Flow!Spec

-----------------------------------------------------------------------------
(* Remediation plans: the drift event and the verification.                *)

\* A plan with a window is a plan.
WindowAssumption == Windowed \subseteq Plans

JobOp     == {"APPLY", "ROLLBACK", "DRY_RUN"}
JobState  == {"ACTIVE"} \cup Rem!Ended
Judgement == {"none", "PASS", "FAIL"}
PlanJob   == [plan : Plans, op : JobOp, status : JobState, linked : BOOLEAN, done : BOOLEAN,
              since : Judgement, real : Judgement]

\* What a session has decided: its plan, and the job it still has to link.
PassOK(x, js) ==
    /\ DOMAIN x = {"kind", "plan", "pc", "job"}
    /\ x.kind # "none" /\ ~(x.kind = "trigger" /\ x.pc = "decide") => x.plan \in Plans
    /\ x.pc # "idle" => x.kind # "none"
    /\ x.pc = "link" => x.job \in 1..Len(js) /\ js[x.job].plan = x.plan /\ js[x.job].op = Rem!Op(x.kind)

PlanTypeOK ==
    /\ DOMAIN plan = Plans /\ \A p \in Plans : DOMAIN plan[p] = {"status", "auto", "day", "by"}
    /\ jobs \in Seq(PlanJob)
    /\ DOMAIN pass = Sessions /\ \A s \in Sessions : PassOK(pass[s], jobs)

\* A set of numbers that do not exceed n has a largest.
LEMMA Largest ==
    ASSUME NEW n \in Nat, NEW S, S \subseteq 0..n, S # {}
    PROVE  \E m \in S : \A i \in S : i <= m
<1>1. PICK R : R = {ss \in Nat \X Nat : ss[1] < ss[2]}
    OBVIOUS
<1>2. IsWellFoundedOn(R, Nat)
    BY <1>1, NatLessThanWellFounded DEF OpToRel
<1>3. PICK T : T = {n - i : i \in S}
    OBVIOUS
<1>4. \A i \in S : n - i \in Nat
    OBVIOUS
<1>5. T \subseteq Nat /\ T # {}
    BY <1>3, <1>4
<1>6. PICK x \in T : \A y \in T : ~(<<y, x>> \in R)
    BY <1>2, <1>5, WFMin
<1>7. \A y \in T : ~(y < x)
    BY <1>1, <1>5, <1>6
<1>8. PICK m \in S : x = n - m
    BY <1>3
<1>9. \A i \in S : n - i \in T
    BY <1>3
<1> QED
    BY <1>7, <1>8, <1>9

\* The latest link of a plan is one of its links.
LEMMA LatestIsLinked ==
    ASSUME NEW js, DOMAIN js = 1..Len(js), Len(js) \in Nat, NEW p, NEW j \in DOMAIN js, Rem!LatestLink(js, p) = j
    PROVE  js[j].plan = p /\ js[j].linked
<1>1. PICK S : S = Rem!Linked(js, p)
    OBVIOUS
<1>2. S # {}
    BY <1>1 DEF Rem!LatestLink
<1>3. S \subseteq 0..Len(js)
    BY <1>1 DEF Rem!Linked
<1>4. \E m \in S : \A i \in S : i <= m
    BY <1>2, <1>3, Largest
<1>5. j = CHOOSE m \in S : \A i \in S : i <= m
    BY <1>1, <1>2 DEF Rem!LatestLink
<1>6. j \in S
    BY <1>4, <1>5
<1> QED
    BY <1>1, <1>6 DEF Rem!Linked

LEMMA JobFields ==
    ASSUME NEW x \in PlanJob
    PROVE  /\ x.plan \in Plans /\ x.op \in JobOp /\ x.status \in JobState
           /\ x.since \in Judgement /\ x.real \in Judgement
BY DEF PlanJob

\* The status of one plan changes.
LEMMA StatusSet ==
    ASSUME PlanTypeOK, NEW p \in Plans, NEW st, Rem!SetStatus(p, st)
    PROVE  /\ DOMAIN plan' = Plans /\ \A q \in Plans : DOMAIN plan'[q] = {"status", "auto", "day", "by"}
           /\ plan'[p].status = st /\ \A q \in Plans : q # p => plan'[q] = plan[q]
BY DEF PlanTypeOK, Rem!SetStatus

\* One job changes.
LEMMA JobSet ==
    ASSUME PlanTypeOK, NEW j \in 1..Len(jobs), NEW r \in PlanJob, jobs' = [jobs EXCEPT ![j] = r]
    PROVE  /\ jobs' \in Seq(PlanJob) /\ Len(jobs') = Len(jobs)
           /\ jobs'[j] = r /\ \A i \in 1..Len(jobs) : i # j => jobs'[i] = jobs[i]
BY ExceptSeq DEF PlanTypeOK

\* Jobs are never taken away, and keep their plan and operation.
JobsGrow ==
    /\ jobs' \in Seq(PlanJob) /\ Len(jobs) <= Len(jobs')
    /\ \A j \in 1..Len(jobs) : jobs'[j].plan = jobs[j].plan /\ jobs'[j].op = jobs[j].op

PlansOK == DOMAIN plan = Plans /\ \A p \in Plans : DOMAIN plan[p] = {"status", "auto", "day", "by"}

LEMMA PassKept ==
    ASSUME PlanTypeOK, JobsGrow, NEW x, PassOK(x, jobs)
    PROVE  PassOK(x, jobs')
<1>1. Len(jobs) \in Nat /\ Len(jobs') \in Nat
    BY DEF PlanTypeOK, JobsGrow
<1>2. 1..Len(jobs) \subseteq 1..Len(jobs')
    BY <1>1 DEF JobsGrow
<1> QED
    BY <1>2 DEF PassOK, JobsGrow

\* What a session does to itself: it begins, goes on, or ends.
LEMMA PassBegins ==
    ASSUME PlanTypeOK, NEW s \in Sessions, NEW k, NEW p, Rem!Begin(s, k, p), k # "none", k # "trigger" => p \in Plans
    PROVE  /\ PlanTypeOK'
           /\ pass'[s].kind = k /\ pass'[s].plan = p /\ pass'[s].pc = "decide"
           /\ \A t \in Sessions : t # s => pass'[t] = pass[t]
           /\ UNCHANGED <<plan, jobs, drift>>
<1>1. PICK x : x = [kind |-> k, plan |-> p, pc |-> "decide", job |-> 0]
    OBVIOUS
<1>2. PassOK(x, jobs)
    BY <1>1 DEF PassOK
<1>3. pass' = [pass EXCEPT ![s] = x] /\ UNCHANGED <<plan, jobs, drift>>
    BY <1>1 DEF Rem!Begin
<1> QED
    BY <1>1, <1>2, <1>3 DEF PlanTypeOK

LEMMA PassEnds ==
    ASSUME PlanTypeOK, PlansOK', JobsGrow, NEW s \in Sessions, Rem!Finish(s)
    PROVE  /\ PlanTypeOK'
           /\ pass'[s].kind = "none" /\ pass'[s].pc = "idle"
           /\ \A t \in Sessions : t # s => pass'[t] = pass[t]
<1>1. PICK x : x = Rem!IdleSession
    OBVIOUS
<1>2. PassOK(x, jobs') /\ x.kind = "none" /\ x.pc = "idle"
    BY <1>1 DEF PassOK, Rem!IdleSession
<1>3. pass' = [pass EXCEPT ![s] = x]
    BY <1>1 DEF Rem!Finish
<1>4. \A t \in Sessions : PassOK(pass[t], jobs')
    BY PassKept DEF PlanTypeOK
<1> QED
    BY <1>2, <1>3, <1>4 DEF PlanTypeOK, PlansOK, JobsGrow

LEMMA PassGoes ==
    ASSUME PlanTypeOK, PlansOK', UNCHANGED jobs, NEW s \in Sessions, NEW pc, Rem!Goto(s, pc), pc \notin {"link", "decide"},
           pass[s].plan \in Plans, pass[s].kind # "none"
    PROVE  /\ PlanTypeOK'
           /\ pass'[s].kind = pass[s].kind /\ pass'[s].plan = pass[s].plan /\ pass'[s].pc = pc
           /\ \A t \in Sessions : t # s => pass'[t] = pass[t]
<1>1. PICK x : x = [pass[s] EXCEPT !.pc = pc]
    OBVIOUS
<1>2. x.kind = pass[s].kind /\ x.plan = pass[s].plan /\ x.pc = pc /\ PassOK(x, jobs)
    BY <1>1 DEF PlanTypeOK, PassOK
<1>3. pass' = [pass EXCEPT ![s] = x]
    BY <1>1 DEF Rem!Goto
<1> QED
    BY <1>2, <1>3 DEF PlanTypeOK, PlansOK

\* Nothing of the sessions changes.
LEMMA PassStays ==
    ASSUME PlanTypeOK, PlansOK', JobsGrow, UNCHANGED pass
    PROVE  PlanTypeOK'
BY PassKept DEF PlanTypeOK, PlansOK, JobsGrow

\* The end of job j reaches its plan, and may free the drift event.
Carried(j) ==
    /\ \A q \in Plans : q # jobs[j].plan => plan'[q] = plan[q]
    /\ \/ plan'[jobs[j].plan].status = plan[jobs[j].plan].status /\ UNCHANGED drift
       \/ /\ jobs[j].linked /\ jobs[j].op # "DRY_RUN"
          /\ \/ plan'[jobs[j].plan].status \in {"ROLLED_BACK", "FAILED"} /\ drift' # "IN_REMEDIATION"
             \/ plan'[jobs[j].plan].status = "VERIFYING" /\ jobs[j].plan \in Verifiable /\ UNCHANGED drift
             \/ plan'[jobs[j].plan].status = "COMPLETED" /\ jobs[j].plan \notin Verifiable /\ UNCHANGED drift

LEMMA SyncCarries ==
    ASSUME PlanTypeOK, NEW j \in 1..Len(jobs), NEW js, DOMAIN js = 1..Len(jobs), Len(js) = Len(jobs),
           js[j].plan = jobs[j].plan, js[j].op = jobs[j].op, js[j].linked => jobs[j].linked, Rem!Sync(js, j)
    PROVE  PlansOK' /\ Carried(j)
<1>1. PICK p : p = jobs[j].plan
    OBVIOUS
<1>2. PICK st : st = Rem!SyncStatus(js, j)
    OBVIOUS
<1>3. p \in Plans /\ jobs[j].op \in JobOp /\ Len(jobs) \in Nat
    BY <1>1, JobFields DEF PlanTypeOK
<1>4. Rem!SetStatus(p, st)
    BY <1>1, <1>2 DEF Rem!Sync, Rem!SetStatus
<1>5. PlansOK' /\ plan'[p].status = st /\ \A q \in Plans : q # p => plan'[q] = plan[q]
    BY <1>3, <1>4, StatusSet DEF PlansOK
<1>6. CASE js[j].op = "DRY_RUN" \/ Rem!LatestLink(js, p) # j
  <2>1. st = plan[p].status
      BY <1>1, <1>2, <1>6 DEF Rem!SyncStatus
  <2>2. drift' = drift
      BY <1>1, <1>6 DEF Rem!Sync
  <2> QED
      BY <1>1, <1>5, <2>1, <2>2 DEF Carried
<1>7. CASE js[j].op # "DRY_RUN" /\ Rem!LatestLink(js, p) = j
  <2>1. jobs[j].linked /\ jobs[j].op # "DRY_RUN"
      BY <1>1, <1>3, <1>7, LatestIsLinked
  <2>2. drift' = IF js[j].op = "ROLLBACK" \/ js[j].status # "COMPLETED" THEN Rem!RevertDrift ELSE drift
      BY <1>1, <1>7 DEF Rem!Sync
  <2>3. Rem!RevertDrift # "IN_REMEDIATION"
      BY DEF Rem!RevertDrift
  <2>4. st = IF js[j].status # "COMPLETED" THEN "FAILED"
             ELSE IF js[j].op = "ROLLBACK" THEN "ROLLED_BACK"
             ELSE IF p \in Verifiable THEN "VERIFYING" ELSE "COMPLETED"
      BY <1>1, <1>2, <1>7 DEF Rem!SyncStatus
  <2>5. CASE js[j].op = "ROLLBACK" \/ js[j].status # "COMPLETED"
    <3>1. st \in {"ROLLED_BACK", "FAILED"}
        BY <2>4, <2>5
    <3> QED
        BY <1>1, <1>5, <2>1, <2>2, <2>3, <2>5, <3>1 DEF Carried
  <2>6. CASE js[j].op # "ROLLBACK" /\ js[j].status = "COMPLETED"
    <3>1. st = IF p \in Verifiable THEN "VERIFYING" ELSE "COMPLETED"
        BY <2>4, <2>6
    <3> QED
        BY <1>1, <1>5, <2>1, <2>2, <2>6, <3>1 DEF Carried
  <2> QED
      BY <2>5, <2>6
<1> QED
    BY <1>6, <1>7


\* Job j becomes r, after its end as z was carried over to its plan.
LEMMA JobEnds ==
    ASSUME PlanTypeOK, NEW j \in 1..Len(jobs), NEW z \in PlanJob, NEW r \in PlanJob,
           z.plan = jobs[j].plan, z.op = jobs[j].op, z.linked => jobs[j].linked,
           r.plan = jobs[j].plan, r.op = jobs[j].op,
           NEW js, js = [jobs EXCEPT ![j] = z], Rem!Sync(js, j), jobs' = [jobs EXCEPT ![j] = r], UNCHANGED pass
    PROVE  /\ PlanTypeOK' /\ JobsGrow /\ Carried(j)
           /\ Len(jobs') = Len(jobs) /\ jobs'[j] = r /\ \A i \in 1..Len(jobs) : i # j => jobs'[i] = jobs[i]
<1>1. Len(jobs) \in Nat
    BY DEF PlanTypeOK
<1>2. DOMAIN js = 1..Len(jobs) /\ Len(js) = Len(jobs) /\ js[j] = z
    BY ExceptSeq DEF PlanTypeOK
<1>3. PlansOK' /\ Carried(j)
    BY <1>2, SyncCarries
<1>4. jobs' \in Seq(PlanJob) /\ Len(jobs') = Len(jobs) /\ jobs'[j] = r /\ \A i \in 1..Len(jobs) : i # j => jobs'[i] = jobs[i]
    BY JobSet
<1>5. JobsGrow
    BY <1>1, <1>4 DEF JobsGrow
<1>6. PlanTypeOK'
    BY <1>3, <1>5, PassStays
<1> QED
    BY <1>3, <1>4, <1>5, <1>6

LEMMA JobsSame ==
    ASSUME PlanTypeOK, UNCHANGED jobs
    PROVE  JobsGrow
BY DEF PlanTypeOK, JobsGrow

\* The moves of the agents, the sweep and the operators on a job.
LEMMA ReportMoves ==
    ASSUME PlanTypeOK, NEW j \in 1..Len(jobs), NEW ok \in BOOLEAN, NEW done \in BOOLEAN, Rem!Report(j, ok, done)
    PROVE  /\ PlanTypeOK' /\ JobsGrow /\ Carried(j)
           /\ Len(jobs') = Len(jobs) /\ \A i \in 1..Len(jobs) : i # j => jobs'[i] = jobs[i]
           /\ jobs'[j].linked => jobs[j].linked
           /\ jobs'[j].status \in {"COMPLETED", "FAILED"} /\ jobs'[j].since = jobs[j].since
           /\ \/ jobs[j].status = "ACTIVE" /\ jobs'[j].real = "none"
              \/ "late" \in Reports
              \/ jobs'[j].status = jobs[j].status /\ jobs'[j].real = jobs[j].real
<1>1. jobs[j] \in PlanJob /\ Len(jobs) \in Nat /\ DOMAIN jobs = 1..Len(jobs)
    BY DEF PlanTypeOK
<1>2. PICK x : x = jobs[j]
    OBVIOUS
<1>3. PICK st : st = IF ok THEN "COMPLETED" ELSE "FAILED"
    OBVIOUS
<1>4. PICK z : z = [x EXCEPT !.status = st, !.done = done]
    OBVIOUS
<1>5. st \in JobState /\ st \in {"COMPLETED", "FAILED"}
    BY <1>3 DEF JobState, Rem!Ended
<1>6. z \in PlanJob /\ z.plan = x.plan /\ z.op = x.op /\ z.linked = x.linked /\ z.status = st /\ z.since = x.since /\ z.real = x.real
    BY <1>1, <1>2, <1>4, <1>5 DEF PlanJob
<1>7. PICK v : v = IF st = x.status THEN x.real ELSE "none"
    OBVIOUS
<1>8. PICK r : r = [z EXCEPT !.real = v]
    OBVIOUS
<1>9. r \in PlanJob /\ r.plan = x.plan /\ r.op = x.op /\ r.linked = x.linked /\ r.status = st /\ r.since = x.since /\ r.real = v
    <2>1. v \in Judgement
        BY <1>1, <1>2, <1>7, JobFields DEF Judgement
    <2> QED
        BY <1>6, <1>8, <2>1 DEF PlanJob
<1>10. PICK js : js = [jobs EXCEPT ![j].status = IF ok THEN "COMPLETED" ELSE "FAILED", ![j].done = done]
    OBVIOUS
<1>11. js = [jobs EXCEPT ![j] = z]
    BY <1>1, <1>2, <1>3, <1>4, <1>10
<1>12. js[j] = z
    BY <1>1, <1>11
<1>13. Rem!Sync(js, j) /\ UNCHANGED pass /\ jobs' = [js EXCEPT ![j].real = IF js[j].status = jobs[j].status THEN @ ELSE "none"]
    BY <1>10 DEF Rem!Report
<1>14. jobs' = [jobs EXCEPT ![j] = r]
    BY <1>1, <1>2, <1>6, <1>7, <1>8, <1>11, <1>12, <1>13
<1>15. /\ PlanTypeOK' /\ JobsGrow /\ Carried(j)
       /\ Len(jobs') = Len(jobs) /\ jobs'[j] = r /\ \A i \in 1..Len(jobs) : i # j => jobs'[i] = jobs[i]
  <2>1. z \in PlanJob /\ z.plan = jobs[j].plan /\ z.op = jobs[j].op /\ (z.linked => jobs[j].linked)
      BY <1>2, <1>6
  <2>2. r \in PlanJob /\ r.plan = jobs[j].plan /\ r.op = jobs[j].op
      BY <1>2, <1>9
  <2>3. Rem!Sync(js, j) /\ UNCHANGED pass
      BY <1>13
  <2> QED
      BY <2>1, <2>2, <2>3, <1>11, <1>14, JobEnds
<1>16. \/ jobs[j].status = "ACTIVE"
       \/ "late" \in Reports
       \/ js[j].status = jobs[j].status
    BY <1>10 DEF Rem!Report
<1> QED
    BY <1>2, <1>5, <1>6, <1>7, <1>9, <1>12, <1>15, <1>16

LEMMA CancelMoves ==
    ASSUME PlanTypeOK, NEW j \in 1..Len(jobs), Rem!CancelJob(j)
    PROVE  /\ PlanTypeOK' /\ JobsGrow /\ Carried(j)
           /\ Len(jobs') = Len(jobs) /\ \A i \in 1..Len(jobs) : i # j => jobs'[i] = jobs[i]
           /\ jobs'[j].linked => jobs[j].linked
           /\ jobs'[j].status = "CANCELLED" /\ jobs'[j].since = jobs[j].since /\ jobs'[j].real = jobs[j].real
<1>1. jobs[j] \in PlanJob /\ Len(jobs) \in Nat /\ DOMAIN jobs = 1..Len(jobs)
    BY DEF PlanTypeOK
<1>2. PICK x : x = jobs[j]
    OBVIOUS
<1>3. PICK z : z = [x EXCEPT !.status = "CANCELLED"]
    OBVIOUS
<1>4. /\ z \in PlanJob /\ z.plan = x.plan /\ z.op = x.op /\ z.linked = x.linked
      /\ z.status = "CANCELLED" /\ z.since = x.since /\ z.real = x.real
    BY <1>1, <1>2, <1>3 DEF PlanJob, JobState, Rem!Ended
<1>5. PICK js : js = [jobs EXCEPT ![j].status = "CANCELLED"]
    OBVIOUS
<1>6. js = [jobs EXCEPT ![j] = z]
    BY <1>1, <1>2, <1>3, <1>5
<1>7. Rem!Sync(js, j) /\ UNCHANGED pass /\ jobs' = [jobs EXCEPT ![j] = z]
    BY <1>5, <1>6 DEF Rem!CancelJob
<1>8. /\ PlanTypeOK' /\ JobsGrow /\ Carried(j)
      /\ Len(jobs') = Len(jobs) /\ jobs'[j] = z /\ \A i \in 1..Len(jobs) : i # j => jobs'[i] = jobs[i]
    BY <1>2, <1>4, <1>6, <1>7, JobEnds
<1> QED
    BY <1>2, <1>4, <1>8

LEMMA SweepMarkMoves ==
    ASSUME PlanTypeOK, NEW j \in 1..Len(jobs), Rem!SweepMark(j)
    PROVE  /\ PlanTypeOK' /\ JobsGrow /\ UNCHANGED <<plan, drift, pass>>
           /\ Len(jobs') = Len(jobs) /\ \A i \in 1..Len(jobs) : i # j => jobs'[i] = jobs[i]
           /\ jobs'[j].linked => jobs[j].linked
           /\ jobs'[j].status = "TIMEOUT" /\ jobs'[j].since = jobs[j].since /\ jobs'[j].real = jobs[j].real
<1>1. jobs[j] \in PlanJob /\ Len(jobs) \in Nat /\ DOMAIN jobs = 1..Len(jobs)
    BY DEF PlanTypeOK
<1>2. PICK x : x = jobs[j]
    OBVIOUS
<1>3. PICK z : z = [x EXCEPT !.status = "TIMEOUT"]
    OBVIOUS
<1>4. /\ z \in PlanJob /\ z.plan = x.plan /\ z.op = x.op /\ z.linked = x.linked
      /\ z.status = "TIMEOUT" /\ z.since = x.since /\ z.real = x.real
    BY <1>1, <1>2, <1>3 DEF PlanJob, JobState, Rem!Ended
<1>5. jobs' = [jobs EXCEPT ![j] = z] /\ UNCHANGED <<plan, drift, pass>>
    BY <1>1, <1>2, <1>3 DEF Rem!SweepMark
<1>6. jobs' \in Seq(PlanJob) /\ Len(jobs') = Len(jobs) /\ jobs'[j] = z /\ \A i \in 1..Len(jobs) : i # j => jobs'[i] = jobs[i]
    BY <1>4, <1>5, JobSet
<1>7. JobsGrow
    BY <1>1, <1>2, <1>4, <1>6 DEF JobsGrow
<1>8. PlanTypeOK'
    BY <1>5, <1>7, PassStays DEF PlanTypeOK, PlansOK
<1> QED
    BY <1>2, <1>4, <1>5, <1>6, <1>7, <1>8

LEMMA SweepSyncMoves ==
    ASSUME PlanTypeOK, NEW j \in 1..Len(jobs), Rem!SweepSync(j)
    PROVE  PlanTypeOK' /\ Carried(j) /\ UNCHANGED <<jobs, pass>>
<1>1. jobs[j] \in PlanJob /\ Len(jobs) \in Nat /\ DOMAIN jobs = 1..Len(jobs)
    BY DEF PlanTypeOK
<1>2. PICK x : x = jobs[j]
    OBVIOUS
<1>3. PICK z : z = [x EXCEPT !.status = "TIMEOUT"]
    OBVIOUS
<1>4. z \in PlanJob /\ z.plan = x.plan /\ z.op = x.op /\ z.linked = x.linked
    BY <1>1, <1>2, <1>3 DEF PlanJob, JobState, Rem!Ended
<1>5. PICK js : js = [jobs EXCEPT ![j].status = "TIMEOUT"]
    OBVIOUS
<1>6. js = [jobs EXCEPT ![j] = z]
    BY <1>1, <1>2, <1>3, <1>5
<1>7. DOMAIN js = 1..Len(jobs) /\ Len(js) = Len(jobs) /\ js[j] = z
    BY <1>4, <1>6, ExceptSeq DEF PlanTypeOK
<1>8. Rem!Sync(js, j) /\ UNCHANGED <<jobs, pass>>
    BY <1>5 DEF Rem!SweepSync
<1>9. PlansOK' /\ Carried(j)
    BY <1>2, <1>4, <1>7, <1>8, SyncCarries
<1> QED
    BY <1>8, <1>9, JobsSame, PassStays

\* An evaluation is stored with every job that has ended.
LEMMA EvaluateMoves ==
    ASSUME PlanTypeOK, NEW v \in {"PASS", "FAIL"}, Rem!Evaluate(v)
    PROVE  /\ PlanTypeOK' /\ UNCHANGED <<plan, drift, pass>>
           /\ Len(jobs') = Len(jobs)
           /\ \A j \in 1..Len(jobs) :
                 /\ jobs'[j].plan = jobs[j].plan /\ jobs'[j].op = jobs[j].op /\ jobs'[j].linked = jobs[j].linked
                 /\ jobs'[j].status = jobs[j].status
                 /\ \/ jobs'[j] = jobs[j]
                    \/ jobs[j].status # "ACTIVE" /\ jobs'[j].since = v /\ jobs'[j].real = v
<1>1. Len(jobs) \in Nat /\ DOMAIN jobs = 1..Len(jobs) /\ \A j \in 1..Len(jobs) : jobs[j] \in PlanJob
    BY DEF PlanTypeOK
<1>2. jobs' = [j \in 1..Len(jobs) |-> IF jobs[j].status \in Rem!Ended \ {"CANCELLED"}
                                      THEN [jobs[j] EXCEPT !.since = v, !.real = v] ELSE jobs[j]]
    BY <1>1 DEF Rem!Evaluate
<1>3. ASSUME NEW j \in 1..Len(jobs)
      PROVE  /\ jobs'[j] \in PlanJob
             /\ jobs'[j].plan = jobs[j].plan /\ jobs'[j].op = jobs[j].op /\ jobs'[j].linked = jobs[j].linked
             /\ jobs'[j].status = jobs[j].status
             /\ \/ jobs'[j] = jobs[j]
                \/ jobs[j].status # "ACTIVE" /\ jobs'[j].since = v /\ jobs'[j].real = v
  <2>1. PICK x : x = jobs[j]
      OBVIOUS
  <2>2. x \in PlanJob
      BY <1>1, <2>1
  <2>3. CASE x.status \in Rem!Ended \ {"CANCELLED"}
    <3>1. PICK y : y = [x EXCEPT !.since = v, !.real = v]
        OBVIOUS
    <3>2. /\ y \in PlanJob /\ y.plan = x.plan /\ y.op = x.op /\ y.linked = x.linked /\ y.status = x.status
          /\ y.since = v /\ y.real = v
        BY <2>2, <3>1 DEF PlanJob, Judgement
    <3>3. jobs'[j] = y
        BY <1>2, <2>1, <2>3, <3>1
    <3> QED
        BY <2>1, <2>3, <3>2, <3>3 DEF Rem!Ended
  <2>4. CASE x.status \notin Rem!Ended \ {"CANCELLED"}
      BY <1>2, <2>1, <2>2, <2>4
  <2> QED
      BY <2>3, <2>4
<1>4. jobs' \in [1..Len(jobs) -> PlanJob]
    BY <1>2, <1>3
<1>5. jobs' \in Seq(PlanJob) /\ Len(jobs') = Len(jobs)
    BY <1>1, <1>4
<1>6. UNCHANGED <<plan, drift, pass>>
    BY DEF Rem!Evaluate
<1>7. JobsGrow
    BY <1>1, <1>3, <1>5 DEF JobsGrow
<1>8. PlanTypeOK'
    BY <1>6, <1>7, PassStays DEF PlanTypeOK, PlansOK
<1> QED
    BY <1>3, <1>5, <1>6, <1>8

\* A session creates its job, ...
LEMMA CreateJobMoves ==
    ASSUME PlanTypeOK, NEW s \in Sessions, Rem!CreateJob(s)
    PROVE  /\ PlanTypeOK' /\ UNCHANGED <<plan, drift>>
           /\ pass'[s].pc \in {"idle", "link"} /\ \A t \in Sessions : t # s => pass'[t] = pass[t]
           /\ \/ jobs' = jobs
              \/ /\ Len(jobs') = Len(jobs) + 1 /\ \A j \in 1..Len(jobs) : jobs'[j] = jobs[j]
                 /\ ~jobs'[Len(jobs')].linked /\ jobs'[Len(jobs')].status = "ACTIVE"
                 /\ jobs'[Len(jobs')].since = "none" /\ jobs'[Len(jobs')].real = "none"
<1>0. Len(jobs) \in Nat /\ PlansOK' /\ UNCHANGED <<plan, drift>>
    BY DEF PlanTypeOK, PlansOK, Rem!CreateJob
<1>1. CASE Rem!Finish(s) /\ UNCHANGED jobs
    BY <1>0, <1>1, JobsSame, PassEnds
<1>2. CASE ~(Rem!Finish(s) /\ UNCHANGED jobs)
  <2>1. PICK p : p = pass[s].plan
      OBVIOUS
  <2>2. PICK op : op = Rem!Op(pass[s].kind)
      OBVIOUS
  <2>3. PICK x : x = [plan |-> p, op |-> op, status |-> "ACTIVE", linked |-> FALSE, done |-> FALSE,
                      since |-> "none", real |-> "none"]
      OBVIOUS
  <2>4. PICK y : y = [pass[s] EXCEPT !.pc = "link", !.job = Len(jobs) + 1]
      OBVIOUS
  <2>5. jobs' = Append(jobs, x) /\ pass' = [pass EXCEPT ![s] = y] /\ pass[s].pc = "job"
      BY <1>2, <2>1, <2>2, <2>3, <2>4 DEF Rem!CreateJob, PlanTypeOK
  <2>6. p \in Plans /\ op \in JobOp
      BY <2>1, <2>2, <2>5 DEF PlanTypeOK, PassOK, Rem!Op, JobOp
  <2>7. x \in PlanJob /\ x.plan = p /\ x.op = op /\ ~x.linked /\ x.status = "ACTIVE" /\ x.since = "none" /\ x.real = "none"
      BY <2>3, <2>6 DEF PlanJob, JobState, Judgement
  <2>8. /\ jobs' \in Seq(PlanJob) /\ Len(jobs') = Len(jobs) + 1 /\ jobs'[Len(jobs) + 1] = x
        /\ \A j \in 1..Len(jobs) : jobs'[j] = jobs[j]
      BY <2>5, <2>7, AppendProperties DEF PlanTypeOK
  <2>9. JobsGrow
      BY <1>0, <2>8 DEF JobsGrow
  <2>10. y.kind = pass[s].kind /\ y.plan = p /\ y.pc = "link" /\ y.job = Len(jobs) + 1 /\ DOMAIN y = {"kind", "plan", "pc", "job"}
      BY <2>1, <2>4 DEF PlanTypeOK, PassOK
  <2>11. PassOK(y, jobs')
      BY <1>0, <2>2, <2>5, <2>6, <2>7, <2>8, <2>10 DEF PassOK, PlanTypeOK
  <2>12. \A t \in Sessions : PassOK(pass[t], jobs')
      BY <2>9, PassKept DEF PlanTypeOK
  <2> QED
      BY <1>0, <2>5, <2>7, <2>8, <2>10, <2>11, <2>12 DEF PlanTypeOK, PlansOK
<1> QED
    BY <1>1, <1>2

\* ... and links it.
LEMMA LinkJobMoves ==
    ASSUME PlanTypeOK, NEW s \in Sessions, Rem!LinkJob(s)
    PROVE  /\ PlanTypeOK' /\ pass'[s].pc = "idle" /\ pass'[s].kind = "none"
           /\ \A t \in Sessions : t # s => pass'[t] = pass[t]
           /\ Len(jobs') = Len(jobs)
           /\ \A j \in 1..Len(jobs) :
                 /\ jobs'[j].plan = jobs[j].plan /\ jobs'[j].op = jobs[j].op /\ jobs'[j].status = jobs[j].status
                 /\ jobs'[j].since = jobs[j].since /\ jobs'[j].real = jobs[j].real
                 /\ jobs'[j].linked => jobs[j].linked \/ jobs[j].op = "DRY_RUN" \/ plan'[jobs[j].plan].status = "EXECUTING"
           /\ \/ UNCHANGED <<plan, drift>>
              \/ /\ pass[s].kind \notin {"none", "trigger", "dry_run"} /\ pass[s].plan \in Plans
                 /\ plan'[pass[s].plan].status = "EXECUTING"
                 /\ \A q \in Plans : q # pass[s].plan => plan'[q] = plan[q]
<1>1. PICK j : j = pass[s].job
    OBVIOUS
<1>2. PICK p : p = pass[s].plan
    OBVIOUS
<1>3. /\ p \in Plans /\ j \in 1..Len(jobs) /\ jobs[j].plan = p /\ jobs[j].op = Rem!Op(pass[s].kind)
      /\ Len(jobs) \in Nat /\ jobs[j] \in PlanJob
    BY <1>1, <1>2 DEF Rem!LinkJob, PlanTypeOK, PassOK
<1>4. PICK x : x = jobs[j]
    OBVIOUS
<1>5. PICK r : r = [x EXCEPT !.linked = TRUE]
    OBVIOUS
<1>6. r \in PlanJob /\ r.plan = x.plan /\ r.op = x.op /\ r.status = x.status /\ r.since = x.since /\ r.real = x.real
    BY <1>3, <1>4, <1>5 DEF PlanJob
<1>7. jobs' = [jobs EXCEPT ![j] = r] /\ Rem!Finish(s)
    BY <1>1, <1>3, <1>4, <1>5 DEF Rem!LinkJob, PlanTypeOK
<1>8. jobs' \in Seq(PlanJob) /\ Len(jobs') = Len(jobs) /\ jobs'[j] = r /\ \A i \in 1..Len(jobs) : i # j => jobs'[i] = jobs[i]
    BY <1>3, <1>6, <1>7, JobSet
<1>9. JobsGrow
    BY <1>3, <1>4, <1>6, <1>8 DEF JobsGrow
<1>10. CASE jobs[j].op = "DRY_RUN"
  <2>1. UNCHANGED <<plan, drift>>
      BY <1>3, <1>10 DEF Rem!LinkJob
  <2>2. PlansOK'
      BY <2>1 DEF PlanTypeOK, PlansOK
  <2>3. PlanTypeOK' /\ pass'[s].pc = "idle" /\ pass'[s].kind = "none" /\ \A t \in Sessions : t # s => pass'[t] = pass[t]
      BY <1>7, <1>9, <2>2, PassEnds
  <2> QED
      BY <1>4, <1>6, <1>8, <1>10, <2>1, <2>3
<1>11. CASE jobs[j].op # "DRY_RUN"
  <2>4. pass[s].kind \notin {"none", "trigger", "dry_run"}
      BY <1>3, <1>11 DEF Rem!Op, Rem!LinkJob, PlanTypeOK, PassOK
  <2>1. Rem!SetStatus(p, "EXECUTING")
      BY <1>2, <1>3, <1>11 DEF Rem!LinkJob
  <2>2. PlansOK' /\ plan'[p].status = "EXECUTING" /\ \A q \in Plans : q # p => plan'[q] = plan[q]
      BY <1>3, <2>1, StatusSet DEF PlansOK
  <2>3. PlanTypeOK' /\ pass'[s].pc = "idle" /\ pass'[s].kind = "none" /\ \A t \in Sessions : t # s => pass'[t] = pass[t]
      BY <1>7, <1>9, <2>2, PassEnds
  <2> QED
      BY <1>2, <1>3, <1>4, <1>6, <1>8, <2>2, <2>3, <2>4
<1> QED
    BY <1>10, <1>11

\* What a decision does to one plan, and to the session that takes it.
Becomes(p, st) == plan'[p].status = st /\ \A q \in Plans : q # p => plan'[q] = plan[q]
Ended(s) == pass'[s].kind = "none" /\ pass'[s].pc = "idle" /\ \A t \in Sessions : t # s => pass'[t] = pass[t]
Goes(s, pc) ==
    /\ pass'[s].kind = pass[s].kind /\ pass'[s].plan = pass[s].plan /\ pass'[s].pc = pc
    /\ \A t \in Sessions : t # s => pass'[t] = pass[t]

LEMMA CreatePlanMoves ==
    ASSUME PlanTypeOK, NEW p \in Plans, Rem!CreatePlan(p)
    PROVE  PlanTypeOK' /\ plan[p].status = "NONE" /\ Becomes(p, "DRAFT") /\ UNCHANGED <<jobs, drift, pass>>
<1>1. PICK r : r = [status |-> "DRAFT", auto |-> FALSE, day |-> day, by |-> "none"]
    OBVIOUS
<1>2. r.status = "DRAFT" /\ DOMAIN r = {"status", "auto", "day", "by"}
    BY <1>1
<1>3. plan' = [plan EXCEPT ![p] = r] /\ plan[p].status = "NONE" /\ UNCHANGED <<jobs, drift, pass>>
    BY <1>1 DEF Rem!CreatePlan
<1>4. PlansOK' /\ Becomes(p, "DRAFT")
    BY <1>2, <1>3 DEF PlanTypeOK, PlansOK, Becomes
<1> QED
    BY <1>3, <1>4, JobsSame, PassStays

LEMMA TriggerMoves ==
    ASSUME WindowAssumption, PlanTypeOK, NEW s \in Sessions, Rem!TriggerCommit(s)
    PROVE  /\ PlanTypeOK' /\ UNCHANGED <<jobs, drift>>
           /\ \/ UNCHANGED plan /\ Ended(s)
              \/ /\ \E q \in Plans : plan[q].status = "NONE" /\ Becomes(q, "DRAFT")
                 /\ pass'[s].kind = "trigger" /\ pass'[s].pc = "job" /\ \A t \in Sessions : t # s => pass'[t] = pass[t]
<1>1. CASE Rem!Finish(s) /\ UNCHANGED plan
  <2>1. PlansOK' /\ JobsGrow /\ UNCHANGED <<jobs, drift>>
      BY <1>1, JobsSame DEF PlanTypeOK, PlansOK, Rem!TriggerCommit
  <2> QED
      BY <1>1, <2>1, PassEnds DEF Ended
<1>2. CASE ~(Rem!Finish(s) /\ UNCHANGED plan)
  <2>1. PICK q \in Rem!FreshAuto :
            /\ plan' = [plan EXCEPT ![q] = [status |-> "DRAFT", auto |-> TRUE, day |-> day, by |-> "none"]]
            /\ pass' = [pass EXCEPT ![s].pc = "job", ![s].plan = q]
      BY <1>2 DEF Rem!TriggerCommit
  <2>2. q \in Plans /\ plan[q].status = "NONE" /\ UNCHANGED <<jobs, drift>> /\ pass[s].kind = "trigger"
      BY DEF Rem!FreshAuto, WindowAssumption, Rem!TriggerCommit, Rem!At
  <2>3. PICK r : r = [status |-> "DRAFT", auto |-> TRUE, day |-> day, by |-> "none"]
      OBVIOUS
  <2>4. r.status = "DRAFT" /\ DOMAIN r = {"status", "auto", "day", "by"}
      BY <2>3
  <2>5. PlansOK' /\ Becomes(q, "DRAFT")
      BY <2>1, <2>2, <2>3, <2>4 DEF PlanTypeOK, PlansOK, Becomes
  <2>6. PICK x : x = [pass[s] EXCEPT !.pc = "job", !.plan = q]
      OBVIOUS
  <2>7. x.kind = "trigger" /\ x.pc = "job" /\ x.plan = q /\ PassOK(x, jobs)
      BY <2>2, <2>6 DEF PlanTypeOK, PassOK
  <2>8. pass' = [pass EXCEPT ![s] = x]
      BY <2>1, <2>6 DEF PlanTypeOK
  <2> QED
      BY <2>2, <2>5, <2>7, <2>8 DEF PlanTypeOK, PlansOK
<1> QED
    BY <1>1, <1>2

LEMMA SubmitMoves ==
    ASSUME PlanTypeOK, NEW s \in Sessions, Rem!SubmitCommit(s)
    PROVE  /\ PlanTypeOK' /\ UNCHANGED <<jobs, drift>> /\ Ended(s)
           /\ pass[s].kind = "submit" /\ pass[s].pc = "decide" /\ pass[s].plan \in Plans
           /\ Becomes(pass[s].plan, "PENDING_APPROVAL")
<1>1. /\ pass[s].kind = "submit" /\ pass[s].pc = "decide" /\ pass[s].plan \in Plans
      /\ UNCHANGED <<jobs, drift>> /\ Rem!Finish(s) /\ Rem!SetStatus(pass[s].plan, "PENDING_APPROVAL")
    BY DEF Rem!SubmitCommit, Rem!At, PlanTypeOK, PassOK
<1>2. PlansOK' /\ Becomes(pass[s].plan, "PENDING_APPROVAL")
    BY <1>1, StatusSet DEF PlansOK, Becomes
<1> QED
    BY <1>1, <1>2, JobsSame, PassEnds DEF Ended

LEMMA AutoMoves ==
    ASSUME PlanTypeOK, NEW s \in Sessions, Rem!AutoDecide(s)
    PROVE  /\ PlanTypeOK' /\ UNCHANGED <<jobs, drift>>
           /\ pass[s].kind = "auto" /\ pass[s].pc = "decide" /\ pass[s].plan \in Plans
           /\ \/ Becomes(pass[s].plan, "PENDING_APPROVAL") /\ Goes(s, "approve")
              \/ (UNCHANGED plan \/ Becomes(pass[s].plan, "FAILED")) /\ Ended(s)
<1>1. pass[s].kind = "auto" /\ pass[s].pc = "decide" /\ pass[s].plan \in Plans /\ UNCHANGED <<jobs, drift>>
    BY DEF Rem!AutoDecide, Rem!At, PlanTypeOK, PassOK
<1>2. CASE Rem!SetStatus(pass[s].plan, "PENDING_APPROVAL") /\ Rem!Goto(s, "approve")
  <2>1. PlansOK' /\ Becomes(pass[s].plan, "PENDING_APPROVAL")
      BY <1>1, <1>2, StatusSet DEF PlansOK, Becomes
  <2> QED
      BY <1>1, <1>2, <2>1, PassGoes DEF Goes
<1>3. CASE (UNCHANGED plan \/ Rem!SetStatus(pass[s].plan, "FAILED")) /\ Rem!Finish(s)
  <2>1. PlansOK' /\ (UNCHANGED plan \/ Becomes(pass[s].plan, "FAILED"))
      BY <1>1, <1>3, StatusSet DEF PlansOK, Becomes, PlanTypeOK
  <2> QED
      BY <1>1, <1>3, <2>1, JobsSame, PassEnds DEF Ended
<1> QED
    BY <1>2, <1>3 DEF Rem!AutoDecide

LEMMA ApproveMoves ==
    ASSUME PlanTypeOK, NEW s \in Sessions, Rem!ApproveDecide(s)
    PROVE  /\ PlanTypeOK' /\ UNCHANGED <<jobs, drift>>
           /\ pass[s].plan \in Plans
           /\ (pass[s].kind = "approve" /\ pass[s].pc = "decide") \/ (pass[s].kind = "auto" /\ pass[s].pc = "approve")
           /\ \/ Becomes(pass[s].plan, plan[pass[s].plan].status) /\ Goes(s, "job")
              \/ Becomes(pass[s].plan, "APPROVED") /\ Ended(s)
<1>1. /\ pass[s].plan \in Plans /\ UNCHANGED <<jobs, drift>> /\ pass[s].kind # "none"
      /\ (pass[s].kind = "approve" /\ pass[s].pc = "decide") \/ (pass[s].kind = "auto" /\ pass[s].pc = "approve")
    BY DEF Rem!ApproveDecide, Rem!At, PlanTypeOK, PassOK
<1>2. PICK p : p = pass[s].plan
    OBVIOUS
<1>3. PICK by : by = IF pass[s].kind = "auto" THEN "system" ELSE "human"
    OBVIOUS
<1>4. CASE Rem!Goto(s, "job") /\ plan' = [plan EXCEPT ![p].by = by]
  <2>1. PICK r : r = [plan[p] EXCEPT !.by = by]
      OBVIOUS
  <2>2. r.status = plan[p].status /\ DOMAIN r = {"status", "auto", "day", "by"}
      BY <1>1, <1>2, <2>1 DEF PlanTypeOK
  <2>3. PlansOK' /\ Becomes(p, plan[p].status)
      BY <1>1, <1>2, <1>4, <2>1, <2>2 DEF PlanTypeOK, PlansOK, Becomes
  <2> QED
      BY <1>1, <1>2, <1>4, <2>3, PassGoes DEF Goes
<1>5. CASE Rem!Finish(s) /\ plan' = [plan EXCEPT ![p].status = "APPROVED", ![p].by = by]
  <2>1. PICK r : r = [plan[p] EXCEPT !.status = "APPROVED", !.by = by]
      OBVIOUS
  <2>2. r.status = "APPROVED" /\ DOMAIN r = {"status", "auto", "day", "by"}
      BY <1>1, <1>2, <2>1 DEF PlanTypeOK
  <2>3. PlansOK' /\ Becomes(p, "APPROVED")
      BY <1>1, <1>2, <1>5, <2>1, <2>2 DEF PlanTypeOK, PlansOK, Becomes
  <2> QED
      BY <1>1, <1>2, <1>5, <2>3, JobsSame, PassEnds DEF Ended
<1> QED
    BY <1>2, <1>3, <1>4, <1>5 DEF Rem!ApproveDecide

LEMMA DecideMoves ==
    ASSUME PlanTypeOK, NEW s \in Sessions,
           Rem!SchedulerDecide(s) \/ Rem!DryRunDecide(s) \/ Rem!RollbackDecide(s)
    PROVE  PlanTypeOK' /\ UNCHANGED <<plan, jobs, drift>> /\ (Goes(s, "job") \/ Ended(s))
<1>1. /\ UNCHANGED <<plan, jobs, drift>> /\ (Rem!Goto(s, "job") \/ Rem!Finish(s))
      /\ pass[s].kind # "none" /\ pass[s].plan \in Plans
    BY DEF Rem!SchedulerDecide, Rem!DryRunDecide, Rem!RollbackDecide, Rem!At, PlanTypeOK, PassOK
<1>2. PlansOK'
    BY <1>1 DEF PlanTypeOK, PlansOK
<1> QED
    BY <1>1, <1>2, PassGoes, PassEnds, JobsSame DEF Goes, Ended

LEMMA VerifyMoves ==
    ASSUME PlanTypeOK, NEW s \in Sessions, Rem!VerifyDecide(s)
    PROVE  /\ PlanTypeOK' /\ UNCHANGED jobs /\ Ended(s) /\ pass[s].plan \in Plans
           /\ \/ UNCHANGED <<plan, drift>>
              \/ /\ Becomes(pass[s].plan, "COMPLETED") /\ drift' # "IN_REMEDIATION"
                 /\ jobs[Rem!LatestLink(jobs, pass[s].plan)].since = "PASS"
                 /\ Rem!LatestLink(jobs, pass[s].plan) # 0
              \/ Becomes(pass[s].plan, "FAILED") /\ drift' # "IN_REMEDIATION"
<1>1. pass[s].plan \in Plans /\ UNCHANGED jobs /\ Rem!Finish(s)
    BY DEF Rem!VerifyDecide, Rem!At, PlanTypeOK, PassOK
<1>2. /\ PlansOK'
      /\ \/ UNCHANGED <<plan, drift>>
         \/ /\ Becomes(pass[s].plan, "COMPLETED") /\ drift' # "IN_REMEDIATION"
            /\ jobs[Rem!LatestLink(jobs, pass[s].plan)].since = "PASS"
            /\ Rem!LatestLink(jobs, pass[s].plan) # 0
         \/ Becomes(pass[s].plan, "FAILED") /\ drift' # "IN_REMEDIATION"
  <2>1. PICK p : p = pass[s].plan
      OBVIOUS
  <2>2. PICK j : j = Rem!LatestLink(jobs, p)
      OBVIOUS
  <2>3. CASE UNCHANGED <<plan, drift>>
      BY <2>3 DEF PlanTypeOK, PlansOK
  <2>4. CASE /\ j # 0 /\ jobs[j].since = "PASS" /\ Rem!SetStatus(p, "COMPLETED")
             /\ drift' = IF drift \in Rem!OpenDrift THEN "RESOLVED" ELSE drift
    <3>1. drift' # "IN_REMEDIATION"
        BY <2>4 DEF Rem!OpenDrift
    <3> QED
        BY <1>1, <2>1, <2>2, <2>4, <3>1, StatusSet DEF PlansOK, Becomes
  <2>5. CASE Rem!SetStatus(p, "FAILED") /\ drift' = Rem!RevertDrift
    <3>1. drift' # "IN_REMEDIATION"
        BY <2>5 DEF Rem!RevertDrift
    <3> QED
        BY <1>1, <2>1, <2>5, <3>1, StatusSet DEF PlansOK, Becomes
  <2> QED
      BY <2>1, <2>2, <2>3, <2>4, <2>5 DEF Rem!VerifyDecide, Rem!VerdictSince
<1> QED
    BY <1>1, <1>2, JobsSame, PassEnds DEF Ended

LEMMA LoadMoves ==
    ASSUME PlanTypeOK, NEW s \in Sessions, NEW p \in Plans, Rem!Load(s, p)
    PROVE  /\ PlanTypeOK' /\ UNCHANGED <<plan, jobs, drift>> /\ \A t \in Sessions : t # s => pass'[t] = pass[t]
           /\ pass'[s].pc = "decide" /\ pass'[s].plan = p
           /\ pass'[s].kind \in {"submit", "auto"} => plan[p].status = "DRAFT"
           /\ pass'[s].kind = "approve" => plan[p].status = "PENDING_APPROVAL"
BY PassBegins DEF Rem!Load, Rem!SubmitLoad, Rem!ApproveLoad, Rem!DryRunLoad, Rem!RollbackLoad, Rem!SchedulerLoad,
                  Rem!AutoLoad, Rem!VerifyLoad

LEMMA TriggerLoadMoves ==
    ASSUME PlanTypeOK, NEW s \in Sessions, Rem!TriggerLoad(s)
    PROVE  /\ PlanTypeOK' /\ UNCHANGED <<plan, jobs, drift>> /\ \A t \in Sessions : t # s => pass'[t] = pass[t]
           /\ pass'[s].kind = "trigger"
BY PassBegins DEF Rem!TriggerLoad

LEMMA CrashMoves ==
    ASSUME PlanTypeOK, NEW s \in Sessions, Rem!Crash(s)
    PROVE  PlanTypeOK' /\ UNCHANGED <<plan, jobs, drift>> /\ (Ended(s) \/ UNCHANGED pass)
<1>1. UNCHANGED <<plan, jobs, drift>> /\ (Rem!Finish(s) \/ UNCHANGED pass)
    BY DEF Rem!Crash
<1>2. PlansOK' /\ JobsGrow
    BY <1>1, JobsSame DEF PlanTypeOK, PlansOK
<1> QED
    BY <1>1, <1>2, PassEnds, PassStays DEF Ended

LEMMA WorldMoves ==
    ASSUME PlanTypeOK, (\E st \in {"ACKNOWLEDGED", "SUPPRESSED", "RESOLVED"} : Rem!OperatorDrift(st)) \/ Rem!WindowToggle
                       \/ Rem!NextDay \/ UNCHANGED Rem!vars
    PROVE  PlanTypeOK' /\ UNCHANGED <<plan, jobs, pass>> /\ (UNCHANGED drift \/ drift' # "IN_REMEDIATION")
<1>1. UNCHANGED <<plan, jobs, pass>> /\ (UNCHANGED drift \/ drift' # "IN_REMEDIATION")
    BY DEF Rem!OperatorDrift, Rem!WindowToggle, Rem!NextDay, Rem!vars
<1> QED
    BY <1>1 DEF PlanTypeOK

-----------------------------------------------------------------------------
(* The drift event.                                                        *)

\* A plan at work, and one on which nothing was applied yet.
AtWork == {"EXECUTING", "VERIFYING"}
Early  == {"NONE", "DRAFT", "PENDING_APPROVAL", "APPROVED"}

\* A session that may write the status of its plan; no two of them have the same plan.
Writes(s) == pass[s].kind \notin {"none", "trigger", "dry_run"}
Apart == \A s, t \in Sessions : Writes(s) /\ Writes(t) /\ pass[s].plan = pass[t].plan => s = t

\* A plan without rules, which nobody verifies when its job has completed.
Unchecked(p) == p \notin Verifiable /\ plan[p].status = "COMPLETED"

\* Who keeps the drift event.
WorkedOn == drift = "IN_REMEDIATION" => \E p \in Plans : plan[p].status \in AtWork \/ Unchecked(p)

\* A session decides on what it has read.
StageOK(x, pl) ==
    /\ x.kind \in {"submit", "auto"} /\ x.pc = "decide" => pl[x.plan].status = "DRAFT"
    /\ (x.kind = "auto" /\ x.pc = "approve") \/ (x.kind = "approve" /\ x.pc = "decide")
          => pl[x.plan].status = "PENDING_APPROVAL"

\* Only dry runs are linked to a plan on which nothing was applied yet.
LinksOK == \A j \in 1..Len(jobs) : jobs[j].linked /\ jobs[j].op # "DRY_RUN" => plan[jobs[j].plan].status \notin Early

DriftInv == PlanTypeOK /\ LinksOK /\ (\A s \in Sessions : StageOK(pass[s], plan)) /\ WorkedOn

\* A step of a session that leaves the jobs alone.
LEMMA DriftDecides ==
    ASSUME Apart, DriftInv, PlanTypeOK', NEW s \in Sessions, UNCHANGED jobs, StageOK(pass'[s], plan'),
           \A t \in Sessions : t # s => pass'[t] = pass[t],
           \A q \in Plans : \/ plan'[q] = plan[q]
                            \/ plan[q].status = "NONE"
                            \/ Writes(s) /\ pass[s].plan = q,
           \A q \in Plans : plan'[q].status \in Early => plan[q].status \in Early,
           drift' = "IN_REMEDIATION" =>
               /\ drift = "IN_REMEDIATION"
               /\ \A q \in Plans : plan[q].status \in AtWork \cup {"COMPLETED"} => plan'[q].status = plan[q].status
    PROVE  DriftInv'
<1>1. \A j \in 1..Len(jobs) : jobs[j].plan \in Plans
    BY JobFields DEF DriftInv, PlanTypeOK
<1>2. LinksOK'
    BY <1>1 DEF DriftInv, LinksOK
<1>3. ASSUME NEW t \in Sessions PROVE StageOK(pass'[t], plan')
  <2>1. StageOK(pass[t], plan) /\ PassOK(pass[t], jobs)
      BY DEF DriftInv, PlanTypeOK
  <2>2. CASE t # s /\ Writes(t)
    <3>1. pass'[t] = pass[t] /\ pass[t].plan \in Plans
        BY <2>1, <2>2 DEF PassOK, Writes
    <3>2. plan'[pass[t].plan] = plan[pass[t].plan] \/ plan[pass[t].plan].status = "NONE"
        BY <2>2, <3>1 DEF Apart
    <3> QED
        BY <2>1, <3>1, <3>2 DEF StageOK
  <2>3. CASE t # s /\ ~Writes(t)
      BY <2>3 DEF StageOK, Writes
  <2> QED
      BY <2>2, <2>3
<1>4. WorkedOn'
    BY DEF DriftInv, WorkedOn, AtWork, Unchecked
<1> QED
    BY <1>2, <1>3, <1>4 DEF DriftInv

\* The end of a job is carried over.
LEMMA DriftCarried ==
    ASSUME DriftInv, PlanTypeOK', UNCHANGED pass, NEW j \in 1..Len(jobs), Carried(j),
           Len(jobs') = Len(jobs),
           \A i \in 1..Len(jobs) : jobs'[i].plan = jobs[i].plan /\ jobs'[i].op = jobs[i].op /\ (jobs'[i].linked => jobs[i].linked)
    PROVE  DriftInv'
<1>1. \A i \in 1..Len(jobs) : jobs[i].plan \in Plans
    BY JobFields DEF DriftInv, PlanTypeOK
<1>2. \A q \in Plans : \/ plan'[q].status = plan[q].status
                       \/ plan[q].status \notin Early /\ plan'[q].status \notin Early
    BY <1>1 DEF Carried, DriftInv, LinksOK, Early
<1>3. LinksOK'
    BY <1>1, <1>2 DEF DriftInv, LinksOK
<1>4. ASSUME NEW t \in Sessions PROVE StageOK(pass'[t], plan')
  <2>1. StageOK(pass[t], plan) /\ PassOK(pass[t], jobs)
      BY DEF DriftInv, PlanTypeOK
  <2> QED
      BY <1>2, <2>1 DEF StageOK, PassOK, Early
<1>5. WorkedOn'
    BY <1>1 DEF Carried, DriftInv, WorkedOn, AtWork, Unchecked
<1> QED
    BY <1>3, <1>4, <1>5 DEF DriftInv

LEMMA DriftNext ==
    ASSUME WindowAssumption, Apart, DriftInv, [Rem!Next]_(Rem!vars)
    PROVE  DriftInv'
<1>0. PlanTypeOK /\ DOMAIN jobs = 1..Len(jobs) /\ Len(jobs) \in Nat
    BY DEF DriftInv, PlanTypeOK
<1>1. ASSUME NEW p \in Plans, Rem!CreatePlan(p) PROVE DriftInv'
  <2>1. PlanTypeOK' /\ plan[p].status = "NONE" /\ Becomes(p, "DRAFT") /\ UNCHANGED <<jobs, drift, pass>>
      BY <1>0, <1>1, CreatePlanMoves
  <2>2. \A j \in 1..Len(jobs) : jobs[j].plan \in Plans
      BY <1>0, JobFields DEF PlanTypeOK
  <2>3. LinksOK'
      BY <2>1, <2>2 DEF DriftInv, LinksOK, Becomes, Early
  <2>4. \A t \in Sessions : StageOK(pass'[t], plan')
    <3>1. \A t \in Sessions : StageOK(pass[t], plan) /\ PassOK(pass[t], jobs)
        BY <1>0 DEF DriftInv, PlanTypeOK
    <3> QED
        BY <2>1, <3>1 DEF StageOK, PassOK, Becomes
  <2>5. WorkedOn'
      BY <2>1 DEF DriftInv, WorkedOn, AtWork, Unchecked, Becomes
  <2> QED
      BY <2>1, <2>3, <2>4, <2>5 DEF DriftInv
<1>2. ASSUME NEW s \in Sessions, NEW p \in Plans, Rem!Load(s, p) PROVE DriftInv'
  <2>1. StageOK(pass'[s], plan')
      BY <1>0, <1>2, LoadMoves DEF StageOK
  <2> QED
      BY <1>0, <1>2, <2>1, LoadMoves, DriftDecides
<1>3. ASSUME NEW s \in Sessions, Rem!TriggerLoad(s) PROVE DriftInv'
  <2>1. StageOK(pass'[s], plan')
      BY <1>0, <1>3, TriggerLoadMoves DEF StageOK
  <2> QED
      BY <1>0, <1>3, <2>1, TriggerLoadMoves, DriftDecides
<1>4. ASSUME NEW s \in Sessions, Rem!TriggerCommit(s) PROVE DriftInv'
  <2>1. StageOK(pass'[s], plan')
      BY <1>0, <1>4, TriggerMoves DEF StageOK, Ended
  <2>2. \A q \in Plans : /\ plan'[q].status \in Early => plan[q].status \in Early
                         /\ plan[q].status \in AtWork \cup {"COMPLETED"} => plan'[q].status = plan[q].status
                         /\ plan'[q] = plan[q] \/ plan[q].status = "NONE" \/ (Writes(s) /\ pass[s].plan = q)
      BY <1>0, <1>4, TriggerMoves DEF Becomes, Early, AtWork
  <2>4. PlanTypeOK' /\ UNCHANGED <<jobs, drift>> /\ \A t \in Sessions : t # s => pass'[t] = pass[t]
      BY <1>0, <1>4, TriggerMoves DEF Ended, Goes
  <2> QED
      BY <2>1, <2>2, <2>4, DriftDecides
<1>5. ASSUME NEW s \in Sessions, Rem!SubmitCommit(s) PROVE DriftInv'
  <2>1. plan[pass[s].plan].status = "DRAFT"
      BY <1>0, <1>5, SubmitMoves DEF DriftInv, StageOK
  <2>2. StageOK(pass'[s], plan')
      BY <1>0, <1>5, SubmitMoves DEF StageOK, Ended
  <2>3. \A q \in Plans : /\ plan'[q].status \in Early => plan[q].status \in Early
                         /\ plan[q].status \in AtWork \cup {"COMPLETED"} => plan'[q].status = plan[q].status
                         /\ plan'[q] = plan[q] \/ plan[q].status = "NONE" \/ (Writes(s) /\ pass[s].plan = q)
      BY <1>0, <1>5, <2>1, SubmitMoves DEF Becomes, Early, AtWork, Writes
  <2>4. PlanTypeOK' /\ UNCHANGED <<jobs, drift>> /\ \A t \in Sessions : t # s => pass'[t] = pass[t]
      BY <1>0, <1>5, SubmitMoves DEF Ended, Goes
  <2> QED
      BY <2>2, <2>3, <2>4, DriftDecides
<1>6. ASSUME NEW s \in Sessions, Rem!AutoDecide(s) PROVE DriftInv'
  <2>1. plan[pass[s].plan].status = "DRAFT"
      BY <1>0, <1>6, AutoMoves DEF DriftInv, StageOK
  <2>2. StageOK(pass'[s], plan')
      BY <1>0, <1>6, AutoMoves DEF StageOK, Ended, Goes, Becomes
  <2>3. \A q \in Plans : /\ plan'[q].status \in Early => plan[q].status \in Early
                         /\ plan[q].status \in AtWork \cup {"COMPLETED"} => plan'[q].status = plan[q].status
                         /\ plan'[q] = plan[q] \/ plan[q].status = "NONE" \/ (Writes(s) /\ pass[s].plan = q)
      BY <1>0, <1>6, <2>1, AutoMoves DEF Becomes, Early, AtWork, Writes
  <2>4. PlanTypeOK' /\ UNCHANGED <<jobs, drift>> /\ \A t \in Sessions : t # s => pass'[t] = pass[t]
      BY <1>0, <1>6, AutoMoves DEF Ended, Goes
  <2> QED
      BY <2>2, <2>3, <2>4, DriftDecides
<1>7. ASSUME NEW s \in Sessions, Rem!ApproveDecide(s) PROVE DriftInv'
  <2>1. plan[pass[s].plan].status = "PENDING_APPROVAL"
      BY <1>0, <1>7, ApproveMoves DEF DriftInv, StageOK
  <2>2. StageOK(pass'[s], plan')
      BY <1>0, <1>7, ApproveMoves DEF StageOK, Ended, Goes
  <2>3. \A q \in Plans : /\ plan'[q].status \in Early => plan[q].status \in Early
                         /\ plan[q].status \in AtWork \cup {"COMPLETED"} => plan'[q].status = plan[q].status
                         /\ plan'[q] = plan[q] \/ plan[q].status = "NONE" \/ (Writes(s) /\ pass[s].plan = q)
      BY <1>0, <1>7, <2>1, ApproveMoves DEF Becomes, Early, AtWork, Writes
  <2>4. PlanTypeOK' /\ UNCHANGED <<jobs, drift>> /\ \A t \in Sessions : t # s => pass'[t] = pass[t]
      BY <1>0, <1>7, ApproveMoves DEF Ended, Goes
  <2> QED
      BY <2>2, <2>3, <2>4, DriftDecides
<1>8. ASSUME NEW s \in Sessions, Rem!SchedulerDecide(s) \/ Rem!DryRunDecide(s) \/ Rem!RollbackDecide(s) PROVE DriftInv'
  <2>1. StageOK(pass'[s], plan')
      BY <1>0, <1>8, DecideMoves DEF StageOK, Ended, Goes
  <2>4. PlanTypeOK' /\ UNCHANGED <<plan, jobs, drift>> /\ \A t \in Sessions : t # s => pass'[t] = pass[t]
      BY <1>0, <1>8, DecideMoves DEF Ended, Goes
  <2> QED
      BY <2>1, <2>4, DriftDecides
<1>9. ASSUME NEW s \in Sessions, Rem!VerifyDecide(s) PROVE DriftInv'
  <2>1. StageOK(pass'[s], plan')
      BY <1>0, <1>9, VerifyMoves DEF StageOK, Ended
  <2>2. \A q \in Plans : /\ plan'[q].status \in Early => plan[q].status \in Early
                         /\ plan'[q] = plan[q] \/ (Writes(s) /\ pass[s].plan = q)
      BY <1>0, <1>9, VerifyMoves DEF Becomes, Early, Writes, Rem!VerifyDecide, Rem!At
  <2>3. drift' = "IN_REMEDIATION" => UNCHANGED <<plan, drift>>
      BY <1>0, <1>9, VerifyMoves
  <2>4. PlanTypeOK' /\ UNCHANGED jobs /\ \A t \in Sessions : t # s => pass'[t] = pass[t]
      BY <1>0, <1>9, VerifyMoves DEF Ended
  <2> QED
      BY <2>1, <2>2, <2>3, <2>4, DriftDecides
<1>10. ASSUME NEW s \in Sessions, Rem!CreateJob(s) PROVE DriftInv'
  <2>1. /\ PlanTypeOK' /\ UNCHANGED <<plan, drift>> /\ pass'[s].pc \in {"idle", "link"}
        /\ \A t \in Sessions : t # s => pass'[t] = pass[t]
        /\ \/ jobs' = jobs
           \/ /\ Len(jobs') = Len(jobs) + 1 /\ \A j \in 1..Len(jobs) : jobs'[j] = jobs[j]
              /\ ~jobs'[Len(jobs')].linked
      BY <1>0, <1>10, CreateJobMoves
  <2>2. LinksOK'
      BY <1>0, <2>1 DEF DriftInv, LinksOK
  <2>3. \A t \in Sessions : StageOK(pass'[t], plan')
      BY <1>0, <2>1 DEF StageOK, DriftInv
  <2> QED
      BY <2>1, <2>2, <2>3 DEF DriftInv, WorkedOn, AtWork, Unchecked
<1>11. ASSUME NEW s \in Sessions, Rem!LinkJob(s) PROVE DriftInv'
  <2>1. /\ PlanTypeOK' /\ pass'[s].pc = "idle" /\ pass'[s].kind = "none"
        /\ Len(jobs') = Len(jobs)
        /\ \A j \in 1..Len(jobs) :
              /\ jobs'[j].plan = jobs[j].plan /\ jobs'[j].op = jobs[j].op
              /\ jobs'[j].linked => jobs[j].linked \/ jobs[j].op = "DRY_RUN" \/ plan'[jobs[j].plan].status = "EXECUTING"
        /\ \A t \in Sessions : t # s => pass'[t] = pass[t]
        /\ \/ UNCHANGED <<plan, drift>>
           \/ /\ Writes(s) /\ pass[s].plan \in Plans /\ plan'[pass[s].plan].status = "EXECUTING"
              /\ \A q \in Plans : q # pass[s].plan => plan'[q] = plan[q]
      BY <1>0, <1>11, LinkJobMoves DEF Writes
  <2>2. \A j \in 1..Len(jobs) : jobs[j].plan \in Plans
      BY <1>0, JobFields DEF PlanTypeOK
  <2>3. LinksOK'
      BY <2>1, <2>2 DEF DriftInv, LinksOK, Early
  <2>4. ASSUME NEW t \in Sessions PROVE StageOK(pass'[t], plan')
    <3>1. StageOK(pass[t], plan) /\ PassOK(pass[t], jobs)
        BY DEF DriftInv, PlanTypeOK
    <3>2. CASE t = s
        BY <2>1, <3>2 DEF StageOK
    <3>3. CASE t # s /\ Writes(t)
        BY <2>1, <3>1, <3>3 DEF StageOK, Apart, PassOK, Writes
    <3>4. CASE t # s /\ ~Writes(t)
        BY <2>1, <3>4 DEF StageOK, Writes
    <3> QED
        BY <3>2, <3>3, <3>4
  <2>5. WorkedOn'
      BY <2>1 DEF DriftInv, WorkedOn, AtWork, Unchecked
  <2> QED
      BY <2>1, <2>3, <2>4, <2>5 DEF DriftInv
<1>12. ASSUME NEW j \in 1..Len(jobs), NEW ok \in BOOLEAN, NEW done \in BOOLEAN, Rem!Report(j, ok, done) PROVE DriftInv'
  <2>1. /\ PlanTypeOK' /\ JobsGrow /\ Carried(j) /\ Len(jobs') = Len(jobs)
        /\ \A i \in 1..Len(jobs) : jobs'[i].linked => jobs[i].linked
      BY <1>0, <1>12, ReportMoves
  <2>2. UNCHANGED pass
      BY <1>12 DEF Rem!Report
  <2> QED
      BY <2>1, <2>2, DriftCarried DEF JobsGrow
<1>13. ASSUME NEW j \in 1..Len(jobs), Rem!CancelJob(j) PROVE DriftInv'
  <2>1. /\ PlanTypeOK' /\ JobsGrow /\ Carried(j) /\ Len(jobs') = Len(jobs)
        /\ \A i \in 1..Len(jobs) : jobs'[i].linked => jobs[i].linked
      BY <1>0, <1>13, CancelMoves
  <2>2. UNCHANGED pass
      BY <1>13 DEF Rem!CancelJob
  <2> QED
      BY <2>1, <2>2, DriftCarried DEF JobsGrow
<1>14. ASSUME NEW j \in 1..Len(jobs), Rem!SweepMark(j) PROVE DriftInv'
  <2>1. /\ PlanTypeOK' /\ JobsGrow /\ UNCHANGED <<plan, drift, pass>> /\ Len(jobs') = Len(jobs)
        /\ \A i \in 1..Len(jobs) : jobs'[i].linked => jobs[i].linked
      BY <1>0, <1>14, SweepMarkMoves
  <2>2. LinksOK'
      BY <2>1 DEF DriftInv, LinksOK, JobsGrow
  <2> QED
      BY <2>1, <2>2 DEF DriftInv, WorkedOn, AtWork, Unchecked
<1>15. ASSUME NEW j \in 1..Len(jobs), Rem!SweepSync(j) PROVE DriftInv'
  <2>1. PlanTypeOK' /\ Carried(j) /\ UNCHANGED <<jobs, pass>>
      BY <1>0, <1>15, SweepSyncMoves
  <2> QED
      BY <2>1, DriftCarried
<1>16. ASSUME NEW v \in {"PASS", "FAIL"}, Rem!Evaluate(v) PROVE DriftInv'
  <2>1. /\ PlanTypeOK' /\ UNCHANGED <<plan, drift, pass>> /\ Len(jobs') = Len(jobs)
        /\ \A j \in 1..Len(jobs) :
              jobs'[j].plan = jobs[j].plan /\ jobs'[j].op = jobs[j].op /\ (jobs'[j].linked => jobs[j].linked)
      BY <1>0, <1>16, EvaluateMoves
  <2>2. LinksOK'
      BY <2>1 DEF DriftInv, LinksOK
  <2> QED
      BY <2>1, <2>2 DEF DriftInv, WorkedOn, AtWork, Unchecked
<1>17. ASSUME NEW s \in Sessions, Rem!Crash(s) PROVE DriftInv'
  <2>1. /\ PlanTypeOK' /\ UNCHANGED <<plan, jobs, drift>> /\ (Ended(s) \/ UNCHANGED pass)
        /\ \A t \in Sessions : t # s => pass'[t] = pass[t]
      BY <1>0, <1>17, CrashMoves DEF Ended
  <2>2. StageOK(pass'[s], plan')
      BY <2>1 DEF StageOK, Ended, DriftInv
  <2> QED
      BY <2>1, <2>2, DriftDecides
<1>18. CASE (\E st \in {"ACKNOWLEDGED", "SUPPRESSED", "RESOLVED"} : Rem!OperatorDrift(st)) \/ Rem!WindowToggle
            \/ Rem!NextDay \/ UNCHANGED Rem!vars
  <2>1. PlanTypeOK' /\ UNCHANGED <<plan, jobs, pass>> /\ (UNCHANGED drift \/ drift' # "IN_REMEDIATION")
      BY <1>0, <1>18, WorldMoves
  <2> QED
      BY <2>1 DEF DriftInv, LinksOK, WorkedOn, Unchecked
<1> QED
    BY <1>0, <1>1, <1>2, <1>3, <1>4, <1>5, <1>6, <1>7, <1>8, <1>9, <1>10, <1>11, <1>12, <1>13, <1>14, <1>15, <1>16, <1>17,
       <1>18 DEF Rem!Next, Rem!Step

LEMMA PlanInit ==
    ASSUME Rem!Init
    PROVE  PlanTypeOK /\ jobs = << >> /\ (\A p \in Plans : plan[p].status = "NONE") /\ drift = "OPEN"
           /\ \A s \in Sessions : pass[s].kind = "none" /\ pass[s].pc = "idle"
<1>1. PICK r : r = [status |-> "NONE", auto |-> FALSE, day |-> 0, by |-> "none"]
    OBVIOUS
<1>2. plan = [p \in Plans |-> r] /\ r.status = "NONE" /\ DOMAIN r = {"status", "auto", "day", "by"}
    BY <1>1 DEF Rem!Init
<1>3. PICK x : x = Rem!IdleSession
    OBVIOUS
<1>4. x.kind = "none" /\ x.pc = "idle" /\ PassOK(x, jobs)
    BY <1>3 DEF Rem!IdleSession, PassOK
<1>5. pass = [s \in Sessions |-> x]
    BY <1>3 DEF Rem!Init
<1>6. jobs = << >> /\ drift = "OPEN" /\ jobs \in Seq(PlanJob)
    BY DEF Rem!Init
<1> QED
    BY <1>2, <1>4, <1>5, <1>6 DEF PlanTypeOK

\* A drift event is IN_REMEDIATION only while a plan is executed or verified, or after a plan
\* without rules completed: for any number of plans that share the event, requests and worker
\* passes interleaved between their reads, jobs and commits, operators on the event, agents that
\* report late or twice, cancels, sweeps and replicas that die -- as long as no two sessions
\* that write the status have the same plan in hand (dispatch_plan, apply_job_result,
\* JobTimeoutWorker and the verification worker; nothing in the code keeps two requests apart).
THEOREM DriftIsWorkedOn ==
    ASSUME WindowAssumption
    PROVE  Rem!Spec /\ []Apart => []WorkedOn
<1>1. ASSUME Rem!Init PROVE DriftInv
    BY <1>1, PlanInit DEF DriftInv, LinksOK, StageOK, WorkedOn
<1>2. DriftInv /\ Apart /\ [Rem!Next]_(Rem!vars) => DriftInv'
    BY DriftNext
<1>3. DriftInv => WorkedOn
    BY DEF DriftInv
<1> QED
    BY <1>1, <1>2, <1>3, PTL DEF Rem!Spec

\* With rules on every plan, somebody is at work.
COROLLARY DriftHasWorker ==
    ASSUME WindowAssumption, Plans \subseteq Verifiable
    PROVE  Rem!Spec /\ []Apart => []Rem!DriftHasPlan
<1>1. WorkedOn => Rem!DriftHasPlan
    BY DEF WorkedOn, Unchecked, AtWork, Rem!DriftHasPlan
<1> QED
    BY <1>1, DriftIsWorkedOn, PTL

-----------------------------------------------------------------------------
(* Verification.                                                           *)

\* What is kept of a job's last evaluation is one that came after it really ended, and only a
\* plan with a rule is being verified.
CheckInv ==
    /\ PlanTypeOK
    /\ \A p \in Plans : plan[p].status = "VERIFYING" => p \in Verifiable
    /\ \A j \in 1..Len(jobs) : jobs[j].real = jobs[j].since /\ (jobs[j].status = "ACTIVE" => jobs[j].since = "none")

LEMMA LatestIsJob ==
    ASSUME PlanTypeOK, NEW p
    PROVE  Rem!LatestLink(jobs, p) \in {0} \cup 1..Len(jobs)
<1>1. PICK S : S = Rem!Linked(jobs, p)
    OBVIOUS
<1>2. S \subseteq 1..Len(jobs) /\ S \subseteq 0..Len(jobs) /\ Len(jobs) \in Nat
    BY <1>1 DEF Rem!Linked, PlanTypeOK
<1>3. CASE S = {}
    BY <1>1, <1>3 DEF Rem!LatestLink
<1>4. CASE S # {}
  <2>1. \E m \in S : \A i \in S : i <= m
      BY <1>2, <1>4, Largest
  <2>2. Rem!LatestLink(jobs, p) = CHOOSE m \in S : \A i \in S : i <= m
      BY <1>1, <1>4 DEF Rem!LatestLink
  <2> QED
      BY <1>2, <2>1, <2>2
<1> QED
    BY <1>3, <1>4

\* A step that only moves plans and sessions, and makes no plan VERIFYING or COMPLETED.
LEMMA CheckQuiet ==
    ASSUME CheckInv, PlanTypeOK', UNCHANGED jobs,
           \A q \in Plans : plan'[q].status = plan[q].status \/ plan'[q].status \notin {"VERIFYING", "COMPLETED"}
    PROVE  CheckInv' /\ Rem!Completes
BY DEF CheckInv, Rem!Completes

\* The end of a job that is carried over completes no plan that is being verified.
LEMMA CheckCarried ==
    ASSUME CheckInv, PlanTypeOK', NEW j \in 1..Len(jobs), Carried(j), Len(jobs') = Len(jobs),
           \A i \in 1..Len(jobs) : jobs'[i].real = jobs'[i].since /\ (jobs'[i].status = "ACTIVE" => jobs'[i].since = "none")
    PROVE  CheckInv' /\ Rem!Completes
<1>1. jobs[j].plan \in Plans
    BY JobFields DEF CheckInv, PlanTypeOK
<1> QED
    BY <1>1 DEF CheckInv, Rem!Completes, Carried

LEMMA CheckNext ==
    ASSUME WindowAssumption, "late" \notin Reports, CheckInv, [Rem!Next]_(Rem!vars)
    PROVE  CheckInv' /\ (Rem!Completes \/ UNCHANGED Rem!vars)
<1>0. PlanTypeOK /\ DOMAIN jobs = 1..Len(jobs) /\ Len(jobs) \in Nat
    BY DEF CheckInv, PlanTypeOK
<1>1. ASSUME NEW p \in Plans, Rem!CreatePlan(p) PROVE CheckInv' /\ Rem!Completes
    BY <1>0, <1>1, CreatePlanMoves, CheckQuiet DEF Becomes
<1>2. ASSUME NEW s \in Sessions, NEW p \in Plans, Rem!Load(s, p) PROVE CheckInv' /\ Rem!Completes
    BY <1>0, <1>2, LoadMoves, CheckQuiet
<1>3. ASSUME NEW s \in Sessions, Rem!TriggerLoad(s) PROVE CheckInv' /\ Rem!Completes
    BY <1>0, <1>3, TriggerLoadMoves, CheckQuiet
<1>4. ASSUME NEW s \in Sessions, Rem!TriggerCommit(s) PROVE CheckInv' /\ Rem!Completes
    BY <1>0, <1>4, TriggerMoves, CheckQuiet DEF Becomes
<1>5. ASSUME NEW s \in Sessions, Rem!SubmitCommit(s) PROVE CheckInv' /\ Rem!Completes
    BY <1>0, <1>5, SubmitMoves, CheckQuiet DEF Becomes
<1>6. ASSUME NEW s \in Sessions, Rem!AutoDecide(s) PROVE CheckInv' /\ Rem!Completes
    BY <1>0, <1>6, AutoMoves, CheckQuiet DEF Becomes
<1>7. ASSUME NEW s \in Sessions, Rem!ApproveDecide(s) PROVE CheckInv' /\ Rem!Completes
    BY <1>0, <1>7, ApproveMoves, CheckQuiet DEF Becomes
<1>8. ASSUME NEW s \in Sessions, Rem!SchedulerDecide(s) \/ Rem!DryRunDecide(s) \/ Rem!RollbackDecide(s)
      PROVE  CheckInv' /\ Rem!Completes
    BY <1>0, <1>8, DecideMoves, CheckQuiet
\* The one step that completes a plan.
<1>9. ASSUME NEW s \in Sessions, Rem!VerifyDecide(s) PROVE CheckInv' /\ Rem!Completes
  <2>1. PICK p : p = pass[s].plan
      OBVIOUS
  <2>2. PICK j : j = Rem!LatestLink(jobs, p)
      OBVIOUS
  <2>3. /\ PlanTypeOK' /\ UNCHANGED jobs /\ p \in Plans
        /\ \/ UNCHANGED plan
           \/ Becomes(p, "COMPLETED") /\ jobs[j].since = "PASS" /\ j # 0
           \/ Becomes(p, "FAILED")
      BY <1>0, <1>9, <2>1, <2>2, VerifyMoves
  <2>4. CASE Becomes(p, "COMPLETED") /\ jobs[j].since = "PASS" /\ j # 0
    <3>1. jobs[j].real = "PASS"
        BY <1>0, <2>2, <2>4, LatestIsJob DEF CheckInv
    <3>2. CheckInv'
        BY <2>3, <2>4 DEF CheckInv, Becomes
    <3>3. Rem!Completes
        BY <2>2, <2>4, <3>1 DEF Rem!Completes, Becomes
    <3> QED
        BY <3>2, <3>3
  <2> QED
      BY <2>3, <2>4, CheckQuiet DEF Becomes
<1>10. ASSUME NEW s \in Sessions, Rem!CreateJob(s) PROVE CheckInv' /\ Rem!Completes
  <2>1. /\ PlanTypeOK' /\ UNCHANGED plan
        /\ \/ jobs' = jobs
           \/ /\ Len(jobs') = Len(jobs) + 1 /\ \A j \in 1..Len(jobs) : jobs'[j] = jobs[j]
              /\ jobs'[Len(jobs')].since = "none" /\ jobs'[Len(jobs')].real = "none"
      BY <1>0, <1>10, CreateJobMoves
  <2> QED
      BY <1>0, <2>1 DEF CheckInv, Rem!Completes
<1>11. ASSUME NEW s \in Sessions, Rem!LinkJob(s) PROVE CheckInv' /\ Rem!Completes
  <2>1. /\ PlanTypeOK' /\ Len(jobs') = Len(jobs)
        /\ \A j \in 1..Len(jobs) :
              jobs'[j].status = jobs[j].status /\ jobs'[j].since = jobs[j].since /\ jobs'[j].real = jobs[j].real
        /\ \/ UNCHANGED plan
           \/ \E p \in Plans : plan'[p].status = "EXECUTING" /\ \A q \in Plans : q # p => plan'[q] = plan[q]
      BY <1>0, <1>11, LinkJobMoves
  <2> QED
      BY <2>1 DEF CheckInv, Rem!Completes
<1>12. ASSUME NEW j \in 1..Len(jobs), NEW ok \in BOOLEAN, NEW done \in BOOLEAN, Rem!Report(j, ok, done)
       PROVE  CheckInv' /\ Rem!Completes
  <2>1. /\ PlanTypeOK' /\ Carried(j) /\ Len(jobs') = Len(jobs) /\ \A i \in 1..Len(jobs) : i # j => jobs'[i] = jobs[i]
        /\ jobs'[j].status \in {"COMPLETED", "FAILED"} /\ jobs'[j].since = jobs[j].since
        /\ \/ jobs[j].status = "ACTIVE" /\ jobs'[j].real = "none"
           \/ jobs'[j].status = jobs[j].status /\ jobs'[j].real = jobs[j].real
      BY <1>0, <1>12, ReportMoves
  <2>2. \A i \in 1..Len(jobs) : jobs'[i].real = jobs'[i].since /\ (jobs'[i].status = "ACTIVE" => jobs'[i].since = "none")
      BY <2>1 DEF CheckInv
  <2> QED
      BY <2>1, <2>2, CheckCarried
<1>13. ASSUME NEW j \in 1..Len(jobs), Rem!CancelJob(j) PROVE CheckInv' /\ Rem!Completes
  <2>1. /\ PlanTypeOK' /\ Carried(j) /\ Len(jobs') = Len(jobs) /\ \A i \in 1..Len(jobs) : i # j => jobs'[i] = jobs[i]
        /\ jobs'[j].status = "CANCELLED" /\ jobs'[j].since = jobs[j].since /\ jobs'[j].real = jobs[j].real
      BY <1>0, <1>13, CancelMoves
  <2>2. \A i \in 1..Len(jobs) : jobs'[i].real = jobs'[i].since /\ (jobs'[i].status = "ACTIVE" => jobs'[i].since = "none")
      BY <2>1 DEF CheckInv
  <2> QED
      BY <2>1, <2>2, CheckCarried
<1>14. ASSUME NEW j \in 1..Len(jobs), Rem!SweepMark(j) PROVE CheckInv' /\ Rem!Completes
  <2>1. /\ PlanTypeOK' /\ UNCHANGED plan /\ Len(jobs') = Len(jobs) /\ \A i \in 1..Len(jobs) : i # j => jobs'[i] = jobs[i]
        /\ jobs'[j].status = "TIMEOUT" /\ jobs'[j].since = jobs[j].since /\ jobs'[j].real = jobs[j].real
      BY <1>0, <1>14, SweepMarkMoves
  <2> QED
      BY <2>1 DEF CheckInv, Rem!Completes
<1>15. ASSUME NEW j \in 1..Len(jobs), Rem!SweepSync(j) PROVE CheckInv' /\ Rem!Completes
  <2>1. PlanTypeOK' /\ Carried(j) /\ UNCHANGED jobs
      BY <1>0, <1>15, SweepSyncMoves
  <2>2. \A i \in 1..Len(jobs) : jobs'[i].real = jobs'[i].since /\ (jobs'[i].status = "ACTIVE" => jobs'[i].since = "none")
      BY <2>1 DEF CheckInv
  <2> QED
      BY <2>1, <2>2, CheckCarried
<1>16. ASSUME NEW v \in {"PASS", "FAIL"}, Rem!Evaluate(v) PROVE CheckInv' /\ Rem!Completes
  <2>1. /\ PlanTypeOK' /\ UNCHANGED plan /\ Len(jobs') = Len(jobs)
        /\ \A j \in 1..Len(jobs) :
              /\ jobs'[j].status = jobs[j].status
              /\ \/ jobs'[j] = jobs[j]
                 \/ jobs[j].status # "ACTIVE" /\ jobs'[j].since = v /\ jobs'[j].real = v
      BY <1>0, <1>16, EvaluateMoves
  <2> QED
      BY <2>1 DEF CheckInv, Rem!Completes
<1>17. ASSUME NEW s \in Sessions, Rem!Crash(s) PROVE CheckInv' /\ Rem!Completes
    BY <1>0, <1>17, CrashMoves, CheckQuiet
<1>18. CASE (\E st \in {"ACKNOWLEDGED", "SUPPRESSED", "RESOLVED"} : Rem!OperatorDrift(st)) \/ Rem!WindowToggle
            \/ Rem!NextDay \/ UNCHANGED Rem!vars
    BY <1>0, <1>18, WorldMoves, CheckQuiet
<1> QED
    BY <1>0, <1>1, <1>2, <1>3, <1>4, <1>5, <1>6, <1>7, <1>8, <1>9, <1>10, <1>11, <1>12, <1>13, <1>14, <1>15, <1>16, <1>17,
       <1>18 DEF Rem!Next, Rem!Step

\* COMPLETED means checked: verification completes a plan only when the rule passed in an
\* evaluation that came after its APPLY job really ended -- for any number of plans, passes and
\* replicas that die, as long as no agent reports after its job timed out
\* (RemediationVerificationWorker).
THEOREM CompletionIsVerified ==
    ASSUME WindowAssumption, "late" \notin Reports
    PROVE  Rem!Spec => [][Rem!Completes]_(Rem!vars)
<1>1. ASSUME Rem!Init PROVE CheckInv
    BY <1>1, PlanInit DEF CheckInv
<1>2. CheckInv /\ [Rem!Next]_(Rem!vars) => CheckInv' /\ [Rem!Completes]_(Rem!vars)
    BY CheckNext
<1> QED
    BY <1>1, <1>2, PTL DEF Rem!Spec

-----------------------------------------------------------------------------
(* Policy sets: lineages, and the rule catalogue.                          *)

\* A sequence, whatever its elements.
IsSequence(s) == \E S : s \in Seq(S)

LEMMA Appended ==
    ASSUME NEW s, IsSequence(s), NEW e
    PROVE  /\ IsSequence(Append(s, e)) /\ Len(s) \in Nat /\ Len(Append(s, e)) = Len(s) + 1
           /\ Append(s, e)[Len(s) + 1] = e
           /\ \A i \in 1..Len(s) : Append(s, e)[i] = s[i]
<1>1. PICK S : s \in Seq(S)
    BY DEF IsSequence
<1>2. PICK T : T = S \cup {e}
    OBVIOUS
<1>3. s \in Seq(T) /\ e \in T
    BY <1>1, <1>2
<1>4. Append(s, e) \in Seq(T)
    BY <1>3, AppendProperties
<1> QED
    BY <1>3, <1>4, AppendProperties DEF IsSequence

LEMMA Rewritten ==
    ASSUME NEW s, IsSequence(s), NEW t, DOMAIN t = 1..Len(s), t = [i \in DOMAIN t |-> t[i]]
    PROVE  IsSequence(t) /\ Len(t) = Len(s) /\ Len(s) \in Nat /\ DOMAIN s = 1..Len(s)
<1>1. Len(s) \in Nat /\ DOMAIN s = 1..Len(s)
    BY DEF IsSequence
<1>2. PICK S : S = {t[i] : i \in 1..Len(s)}
    OBVIOUS
<1>3. t \in [1..Len(s) -> S]
    BY <1>2
<1>4. t \in Seq(S) /\ Len(t) = Len(s)
    BY <1>1, <1>3
<1> QED
    BY <1>1, <1>4 DEF IsSequence

SetFields == {"slug", "status", "ver", "parent", "rules", "mode", "origin"}

\* A set with a parent has the parent's slug with the next number.
Follows(x, ss) ==
    /\ DOMAIN x = SetFields
    /\ x.parent # 0 => /\ x.parent \in 1..Len(ss)
                       /\ x.slug = Append(ss[x.parent].slug, <<"v", ss[x.parent].ver + 1>>)
                       /\ x.ver = ss[x.parent].ver + 1

LineInv ==
    /\ IsSequence(sets)
    /\ \A i \in 1..Len(sets) : Follows(sets[i], sets)
    /\ \A i, j \in 1..Len(sets) : sets[i].slug = sets[j].slug => i = j
    /\ DOMAIN txn = Sessions
    /\ \A s \in Sessions : txn[s].op = "create" => Follows(txn[s].set, sets)

\* Sets are added and edited, but keep name, number and parent.
SetsKeep ==
    /\ IsSequence(sets') /\ Len(sets) \in Nat /\ Len(sets') \in {Len(sets), Len(sets) + 1}
    /\ \A i \in 1..Len(sets) : /\ DOMAIN sets'[i] = SetFields
                               /\ sets'[i].slug = sets[i].slug /\ sets'[i].ver = sets[i].ver
                               /\ sets'[i].parent = sets[i].parent

SetsMove ==
    /\ SetsKeep
    /\ Len(sets') = Len(sets) + 1 =>
          LET new == sets'[Len(sets) + 1] IN new.slug \notin Sets!Taken /\ Follows(new, sets)

\* What no set is changed by.
LEMMA SetsSame ==
    ASSUME LineInv, sets' = sets
    PROVE  SetsMove
BY DEF LineInv, SetsMove, SetsKeep, Follows, IsSequence

\* A set that is appended under a name that is free.
LEMMA SetAdded ==
    ASSUME LineInv, NEW x, x.slug \notin Sets!Taken, Follows(x, sets), sets' = Append(sets, x)
    PROVE  SetsMove
BY Appended DEF LineInv, SetsMove, SetsKeep, Follows

\* Sets that are edited in place.
LEMMA SetsEdited ==
    ASSUME LineInv, DOMAIN sets' = 1..Len(sets), sets' = [i \in DOMAIN sets' |-> sets'[i]],
           \A i \in 1..Len(sets) : /\ DOMAIN sets'[i] = SetFields
                                   /\ sets'[i].slug = sets[i].slug /\ sets'[i].ver = sets[i].ver
                                   /\ sets'[i].parent = sets[i].parent
    PROVE  SetsMove
<1>1. IsSequence(sets)
    BY DEF LineInv
<1>2. PICK t : t = sets'
    OBVIOUS
<1>3. IsSequence(t) /\ Len(t) = Len(sets) /\ Len(sets) \in Nat
    BY <1>1, <1>2, Rewritten
<1>4. IsSequence(sets')
    BY <1>2, <1>3 DEF IsSequence
<1>5. Len(t) # Len(sets) + 1
    BY ONLY <1>3
<1>6. Len(sets') = Len(sets) /\ Len(sets') # Len(sets) + 1
    BY ONLY <1>2, <1>3, <1>5
<1> QED
    BY <1>3, <1>4, <1>6 DEF SetsMove, SetsKeep

LEMMA RowEdited ==
    ASSUME LineInv, NEW i, NEW r, sets' = [sets EXCEPT ![i] = r],
           i \in 1..Len(sets) => /\ DOMAIN r = SetFields /\ r.slug = sets[i].slug /\ r.ver = sets[i].ver
                                 /\ r.parent = sets[i].parent
    PROVE  SetsMove
<1>1. DOMAIN sets = 1..Len(sets) /\ sets = [j \in DOMAIN sets |-> sets[j]]
    BY DEF LineInv, IsSequence
<1>2. \A j \in 1..Len(sets) : sets'[j] = IF j = i THEN r ELSE sets[j]
    BY <1>1
<1>3. DOMAIN sets' = 1..Len(sets) /\ sets' = [j \in DOMAIN sets' |-> sets'[j]]
    BY <1>1
<1>4. \A j \in 1..Len(sets) : DOMAIN sets[j] = SetFields
    BY DEF LineInv, Follows
<1> QED
    BY <1>2, <1>3, <1>4, SetsEdited

LEMMA NewFields ==
    ASSUME NEW slug, NEW status, NEW num, NEW parent, NEW rules, NEW origin
    PROVE  LET x == Sets!NewSet(slug, status, num, parent, rules, origin) IN
           DOMAIN x = SetFields /\ x.slug = slug /\ x.ver = num /\ x.parent = parent
BY DEF Sets!NewSet, SetFields

\* What the transactions become in a step: nothing new, or one that follows from what is there.
TxnMove ==
    /\ DOMAIN txn' = Sessions
    /\ \A s \in Sessions : \/ txn'[s] = txn[s]
                           \/ txn'[s].op # "create"
                           \/ Follows(txn'[s].set, sets)

LEMMA TxnOpened ==
    ASSUME LineInv, NEW s \in Sessions, NEW t, Sets!Open(s, t), t.op = "create" => Follows(t.set, sets)
    PROVE  TxnMove /\ SetsMove
<1>1. TxnMove /\ sets' = sets
    BY DEF LineInv, TxnMove, Sets!Open
<1> QED
    BY <1>1, SetsSame

LEMMA TxnClosed ==
    ASSUME LineInv, NEW s \in Sessions, Sets!Close(s)
    PROVE  TxnMove
BY DEF LineInv, TxnMove, Sets!Close, Sets!Idle

LEMMA TxnSame ==
    ASSUME LineInv, UNCHANGED txn
    PROVE  TxnMove
BY DEF LineInv, TxnMove

\* A request that opens.
LEMMA RequestOpens ==
    ASSUME LineInv, NEW s \in Sessions, Sets!Request(s)
    PROVE  TxnMove /\ SetsMove
<1>1. ASSUME NEW slug, NEW rules, NEW origin, NEW assign, Sets!Open(s, Sets!Creation(slug, 1, 0, rules, origin, assign))
      PROVE  TxnMove /\ SetsMove
  <2>1. PICK x : x = Sets!NewSet(slug, "DRAFT", 1, 0, rules, origin)
      OBVIOUS
  <2>2. Follows(x, sets)
      BY <2>1, NewFields DEF Follows
  <2>3. PICK t : t = Sets!Creation(slug, 1, 0, rules, origin, assign)
      OBVIOUS
  <2>4. t.set = x
      BY <2>1, <2>3 DEF Sets!Creation
  <2> QED
      BY <1>1, <2>2, <2>3, <2>4, TxnOpened
<1>2. ASSUME NEW i \in Sets!Ids, Sets!NewVersion(s, i) PROVE TxnMove /\ SetsMove
  <2>1. PICK slug, num : slug = Append(sets[i].slug, <<"v", sets[i].ver + 1>>) /\ num = sets[i].ver + 1
      OBVIOUS
  <2>2. PICK x : x = Sets!NewSet(slug, "DRAFT", num, i, Sets!NoRules, "api")
      OBVIOUS
  <2>3. /\ DOMAIN x = SetFields /\ x.slug = Append(sets[i].slug, <<"v", sets[i].ver + 1>>)
        /\ x.ver = sets[i].ver + 1 /\ x.parent = i
      BY <2>1, <2>2 DEF Sets!NewSet, SetFields
  <2>7. Follows(x, sets)
      BY <2>3 DEF Follows, Sets!Ids
  <2>4. PICK t : t = Sets!Creation(slug, num, i, Sets!NoRules, "api", FALSE)
      OBVIOUS
  <2>5. t.set = x
      BY <2>2, <2>4 DEF Sets!Creation
  <2>6. Sets!Open(s, t)
      BY <1>2, <2>1, <2>4 DEF Sets!NewVersion
  <2> QED
      BY <2>5, <2>6, <2>7, TxnOpened
<1>3. ASSUME NEW slug, Sets!CreateDraft(s, <<slug>>) \/ Sets!ImportProfile(s, <<slug>>) PROVE TxnMove /\ SetsMove
    BY <1>1, <1>3 DEF Sets!CreateDraft, Sets!ImportProfile
<1>4. ASSUME NEW t, NEW unmapped, NEW assign, Sets!FromTemplate(s, t, unmapped, assign) PROVE TxnMove /\ SetsMove
    BY <1>1, <1>4 DEF Sets!FromTemplate
<1>5. ASSUME NEW i, Sets!Publish(s, i) \/ Sets!Archive(s, i) PROVE TxnMove /\ SetsMove
    BY <1>5, TxnOpened DEF Sets!Publish, Sets!Archive
<1>6. ASSUME NEW i, NEW r, Sets!RemoveRule(s, i, r) PROVE TxnMove /\ SetsMove
    BY <1>6, TxnOpened DEF Sets!RemoveRule
<1>7. ASSUME NEW i, NEW r, NEW sev, Sets!AddRule(s, i, r, sev) PROVE TxnMove /\ SetsMove
    BY <1>7, TxnOpened DEF Sets!AddRule
<1> QED
    BY <1>2, <1>3, <1>4, <1>5, <1>6, <1>7 DEF Sets!Request

\* A set inserted by create_draft_with_rules.
LEMMA CreateLands ==
    ASSUME LineInv, NEW s \in Sessions, Sets!CreateCommit(s)
    PROVE  SetsMove
<1>1. PICK new : new = txn[s].set
    OBVIOUS
<1>2. Follows(new, sets)
    BY <1>1 DEF Sets!CreateCommit, LineInv
<1>3. CASE new.slug \in Sets!Taken
    BY <1>1, <1>3, SetsSame DEF Sets!CreateCommit
<1>4. CASE new.slug \notin Sets!Taken
  <2>1. PICK x : x = IF new.parent = 0 THEN new ELSE [new EXCEPT !.rules = Sets!Cloned(new.parent)]
      OBVIOUS
  <2>2. DOMAIN x = SetFields /\ x.slug = new.slug /\ x.parent = new.parent /\ x.ver = new.ver
      BY <1>2, <2>1 DEF Follows, SetFields
  <2>3. Follows(x, sets)
      BY <1>2, <2>2 DEF Follows
  <2>4. sets' = Append(sets, x)
      BY <1>1, <1>4, <2>1 DEF Sets!CreateCommit
  <2> QED
      BY <1>4, <2>2, <2>3, <2>4, SetAdded
<1> QED
    BY <1>3, <1>4

LEMMA OneEdited ==
    ASSUME LineInv, NEW i, NEW f \in {"status", "rules", "mode"}, NEW v,
           sets' = [sets EXCEPT ![i] = [sets[i] EXCEPT ![f] = v]]
    PROVE  SetsMove
<1>1. PICK r : r = [sets[i] EXCEPT ![f] = v]
    OBVIOUS
<1>2. i \in 1..Len(sets) => DOMAIN r = SetFields /\ r.slug = sets[i].slug /\ r.ver = sets[i].ver /\ r.parent = sets[i].parent
    BY <1>1 DEF LineInv, Follows, SetFields
<1> QED
    BY <1>1, <1>2, RowEdited

\* Requests that edit a set.
LEMMA EditsLand ==
    ASSUME LineInv, NEW s \in Sessions, Sets!AddCommit(s) \/ Sets!RemoveCommit(s) \/ Sets!StatusCommit(s)
    PROVE  SetsMove
<1>1. CASE Sets!AddCommit(s)
    BY <1>1, OneEdited, SetsSame DEF Sets!AddCommit
<1>2. CASE Sets!RemoveCommit(s)
    BY <1>2, OneEdited DEF Sets!RemoveCommit
<1>3. CASE Sets!StatusCommit(s)
    BY <1>3, OneEdited DEF Sets!StatusCommit
<1> QED
    BY <1>1, <1>2, <1>3

\* All sets keep their places, and those that are touched get other rules.
LEMMA RulesRewritten ==
    ASSUME LineInv, NEW f, sets' = [i \in Sets!Ids |-> f[i]],
           \A i \in Sets!Ids : \/ f[i] = sets[i]
                               \/ \E rules : f[i] = [sets[i] EXCEPT !.rules = rules]
    PROVE  SetsMove
<1>1. \A i \in 1..Len(sets) : sets'[i] = f[i]
    BY DEF Sets!Ids
<1>2. DOMAIN sets' = 1..Len(sets) /\ sets' = [i \in DOMAIN sets' |-> sets'[i]]
    BY DEF Sets!Ids
<1>3. \A i \in 1..Len(sets) : /\ DOMAIN f[i] = SetFields /\ f[i].slug = sets[i].slug /\ f[i].ver = sets[i].ver
                              /\ f[i].parent = sets[i].parent
    BY DEF LineInv, Follows, SetFields, Sets!Ids
<1> QED
    BY <1>1, <1>2, <1>3, SetsEdited

LEMMA SetPlanted ==
    ASSUME LineInv, NEW slug, NEW rules, NEW origin, \A i \in Sets!Ids : sets[i].slug # slug,
           sets' = Append(sets, Sets!NewSet(slug, "PUBLISHED", 1, 0, rules, origin))
    PROVE  SetsMove
<1>1. PICK x : x = Sets!NewSet(slug, "PUBLISHED", 1, 0, rules, origin)
    OBVIOUS
<1>2. DOMAIN x = SetFields /\ x.slug = slug /\ x.parent = 0
    BY <1>1 DEF Sets!NewSet, SetFields
<1>3. x.slug \notin Sets!Taken
    BY <1>2 DEF Sets!Taken
<1> QED
    BY <1>1, <1>2, <1>3, SetAdded DEF Follows

\* The start-up load makes or extends the baseline set.
LEMMA LoadLands ==
    ASSUME LineInv, NEW s \in Sessions, Sets!LoadCommit(s)
    PROVE  SetsMove
<1>1. CASE sets' = sets
    BY <1>1, SetsSame
<1>2. CASE sets' = Sets!EnsurePolicySet /\ Sets!CuratedId = {}
    BY <1>2, SetPlanted DEF Sets!EnsurePolicySet, Sets!CuratedId
<1>3. CASE sets' = Sets!EnsurePolicySet /\ Sets!CuratedId # {}
  <2>1. PICK f : f = [i \in Sets!Ids |-> IF i \notin Sets!CuratedId THEN sets[i]
                        ELSE [sets[i] EXCEPT !.rules = [r \in DOMAIN @ \cup Curated |->
                                IF r \in DOMAIN @ THEN @[r] ELSE "none"]]]
      OBVIOUS
  <2>2. sets' = [i \in Sets!Ids |-> f[i]]
      BY <1>3, <2>1 DEF Sets!EnsurePolicySet
  <2>3. \A i \in Sets!Ids : f[i] = sets[i] \/ \E rules : f[i] = [sets[i] EXCEPT !.rules = rules]
      BY <2>1
  <2> QED
      BY <2>2, <2>3, RulesRewritten
<1> QED
    BY <1>1, <1>2, <1>3 DEF Sets!LoadCommit

\* The import makes or rewrites the profile's set.
LEMMA ImportLands ==
    ASSUME LineInv, Sets!ImportWrite
    PROVE  SetsMove
<1>1. CASE sets' = sets
    BY <1>1, SetsSame
<1>2. CASE sets' = Sets!ProfileSet /\ Sets!ProfileId = {}
    BY <1>2, SetPlanted DEF Sets!ProfileSet, Sets!ProfileId
<1>3. CASE sets' = Sets!ProfileSet /\ Sets!ProfileId # {}
  <2>1. PICK chosen : chosen = [r \in job.chosen \cap job.rules |-> "none"]
      OBVIOUS
  <2>2. PICK f : f = [i \in Sets!Ids |-> IF i \in Sets!ProfileId THEN [sets[i] EXCEPT !.rules = chosen] ELSE sets[i]]
      OBVIOUS
  <2>3. sets' = [i \in Sets!Ids |-> f[i]]
      BY <1>3, <2>1, <2>2 DEF Sets!ProfileSet
  <2>4. \A i \in Sets!Ids : f[i] = sets[i] \/ \E rules : f[i] = [sets[i] EXCEPT !.rules = rules]
      BY <2>2
  <2> QED
      BY <2>3, <2>4, RulesRewritten
<1> QED
    BY <1>1, <1>2, <1>3 DEF Sets!ImportWrite

LEMMA SetsNext ==
    ASSUME LineInv, [Sets!Next]_(Sets!vars)
    PROVE  SetsMove /\ TxnMove
<1>1. ASSUME NEW s \in Sessions, Sets!Commit(s) PROVE SetsMove /\ TxnMove
  <2>1. Sets!Close(s)
      BY <1>1 DEF Sets!Commit, Sets!CreateCommit, Sets!AddCommit, Sets!RemoveCommit, Sets!StatusCommit, Sets!LoadCommit
  <2> QED
      BY <1>1, <2>1, TxnClosed, CreateLands, EditsLand, LoadLands DEF Sets!Commit
<1>2. ASSUME NEW s \in Sessions, Sets!LoadRead(s) PROVE SetsMove /\ TxnMove
  <2>1. DOMAIN txn' = Sessions /\ \A o \in Sessions : txn'[o] = txn[o] \/ txn'[o].op # "create"
      BY <1>2 DEF Sets!LoadRead, LineInv, Sets!Idle
  <2>2. sets' = sets
      BY <1>2 DEF Sets!LoadRead
  <2> QED
      BY <2>1, <2>2, SetsSame DEF TxnMove
<1>3. ASSUME NEW i \in Sets!Ids, NEW mode, Sets!SetRemediation(i, mode) PROVE SetsMove /\ TxnMove
    BY <1>3, OneEdited, TxnSame DEF Sets!SetRemediation
<1>4. CASE Sets!ImportWrite
    BY <1>4, ImportLands, TxnSame DEF Sets!ImportWrite
<1>5. CASE UNCHANGED <<sets, txn>>
    BY <1>5, SetsSame, TxnSame
<1> QED
    BY <1>1, <1>2, <1>3, <1>4, <1>5, RequestOpens
       DEF Sets!Next, Sets!vars, Sets!Assign, Sets!Boot, Sets!QueueImport, Sets!ImportStep, Sets!StartImport,
           Sets!FetchFails, Sets!ImportRead, Sets!FinishImport, Sets!ImportCrash, Sets!CancelImport, Sets!SweepImport,
           Sets!ImportOnly

\* What follows from a set goes on to.
LEMMA FollowsStays ==
    ASSUME SetsKeep, NEW x, Follows(x, sets)
    PROVE  Follows(x, sets')
<1>1. x.parent \in 1..Len(sets) => x.parent \in 1..Len(sets')
    BY DEF SetsKeep
<1> QED
    BY <1>1 DEF SetsKeep, Follows

LEMMA LineNext ==
    ASSUME LineInv, [Sets!Next]_(Sets!vars)
    PROVE  LineInv'
<1>1. SetsMove /\ TxnMove
    BY SetsNext
<1>2. SetsKeep
    BY <1>1 DEF SetsMove
<1>3. Len(sets) \in Nat /\ Len(sets') \in {Len(sets), Len(sets) + 1}
    BY <1>2 DEF SetsKeep
<1>4. \A i \in 1..Len(sets') : i \in 1..Len(sets) \/ (i = Len(sets) + 1 /\ Len(sets') = Len(sets) + 1)
    BY <1>3
<1>5. \A i \in 1..Len(sets) : Follows(sets'[i], sets)
    BY <1>2 DEF LineInv, SetsKeep, Follows
<1>6. Len(sets') = Len(sets) + 1 => Follows(sets'[Len(sets) + 1], sets) /\ sets'[Len(sets) + 1].slug \notin Sets!Taken
    BY <1>1 DEF SetsMove
<1>7. \A i \in 1..Len(sets') : Follows(sets'[i], sets')
    BY <1>2, <1>4, <1>5, <1>6, FollowsStays
<1>8. \A i \in 1..Len(sets) : sets'[i].slug = sets[i].slug /\ sets'[i].slug \in Sets!Taken
    BY <1>2 DEF SetsKeep, Sets!Taken, Sets!Ids
<1>9. \A i, j \in 1..Len(sets') : sets'[i].slug = sets'[j].slug => i = j
    BY <1>4, <1>6, <1>8 DEF LineInv
<1>10. \A s \in Sessions : txn'[s].op = "create" => Follows(txn'[s].set, sets)
    BY <1>1 DEF TxnMove, LineInv
<1>11. \A s \in Sessions : txn'[s].op = "create" => Follows(txn'[s].set, sets')
    BY <1>2, <1>10, FollowsStays
<1> QED
    BY <1>1, <1>2, <1>7, <1>9, <1>11 DEF LineInv, TxnMove, SetsKeep

\* However editors clone, publish and archive at once, and whatever the start-up load and
\* imports add meanwhile, a version of a policy set has one successor, and it has the next
\* number: the slug of a clone is made of its parent's and its number, and slugs are unique
\* (create_new_version, create_draft_with_rules).
THEOREM SuccessorsAreUnique == Sets!Spec => []Sets!OneSuccessor
<1>1. Sets!Init => LineInv
    BY DEF Sets!Init, LineInv, IsSequence, Sets!Idle
<1>2. LineInv /\ [Sets!Next]_(Sets!vars) => LineInv'
    BY LineNext
<1>3. ASSUME LineInv PROVE Sets!OneSuccessor
  <2>1. SUFFICES ASSUME NEW i \in 1..Len(sets), NEW j \in 1..Len(sets), sets[i].parent # 0
                 PROVE  /\ sets[i].parent = sets[j].parent => i = j
                        /\ sets[i].ver = sets[sets[i].parent].ver + 1
      BY DEF Sets!OneSuccessor, Sets!Ids
  <2>2. Follows(sets[i], sets) /\ Follows(sets[j], sets)
      BY <1>3 DEF LineInv
  <2>3. sets[i].parent = sets[j].parent => sets[i].slug = sets[j].slug
      BY <2>1, <2>2 DEF Follows
  <2> QED
      BY <1>3, <2>1, <2>2, <2>3 DEF LineInv, Follows
<1> QED
    BY <1>1, <1>2, <1>3, PTL DEF Sets!Spec

CatInv ==
    /\ DOMAIN cat = Rules /\ release \in Nat
    /\ \A r \in Rules : cat[r].release \in Nat /\ cat[r].release <= release

LEMMA CatNext ==
    ASSUME CatInv, [Sets!Next]_(Sets!vars)
    PROVE  CatInv' /\ Sets!KeepsCurated
<1>1. ASSUME NEW s \in Sessions, Sets!LoadCommit(s), cat' = Sets!Loaded PROVE CatInv' /\ Sets!KeepsCurated
  <2>1. \A r \in Rules : cat'[r] = IF r \in Curated THEN [check |-> "CEL", release |-> release] ELSE cat[r]
      BY <1>1 DEF Sets!Loaded
  <2>2. DOMAIN cat' = Rules /\ release' = release
      BY <1>1 DEF Sets!Loaded, Sets!LoadCommit
  <2> QED
      BY <2>1, <2>2 DEF CatInv, Sets!KeepsCurated
<1>2. ASSUME Sets!ImportWrite, cat' = [r \in Rules |-> Sets!Imported(r)] PROVE CatInv' /\ Sets!KeepsCurated
  <2>1. \A r \in Rules : \/ cat'[r] = cat[r]
                         \/ cat[r].check = "none" /\ cat'[r] = [check |-> "UNMAPPED", release |-> 0]
      BY <1>2 DEF Sets!Imported, Sets!Known
  <2>2. DOMAIN cat' = Rules /\ release' = release
      BY <1>2 DEF Sets!ImportWrite
  <2> QED
      BY <2>1, <2>2 DEF CatInv, Sets!KeepsCurated
<1>3. CASE Sets!Boot
    BY <1>3 DEF Sets!Boot, CatInv, Sets!KeepsCurated
<1>4. CASE UNCHANGED <<cat, release>>
    BY <1>4 DEF CatInv, Sets!KeepsCurated
<1>5. ASSUME NEW s \in Sessions, Sets!Request(s) PROVE UNCHANGED <<cat, release>>
    BY <1>5 DEF Sets!Request, Sets!CreateDraft, Sets!ImportProfile, Sets!FromTemplate, Sets!NewVersion, Sets!Publish,
                Sets!Archive, Sets!RemoveRule, Sets!AddRule, Sets!Open
<1>6. ASSUME NEW s \in Sessions, Sets!Commit(s), ~Sets!LoadCommit(s) PROVE UNCHANGED <<cat, release>>
    BY <1>6 DEF Sets!Commit, Sets!CreateCommit, Sets!AddCommit, Sets!RemoveCommit, Sets!StatusCommit
<1>7. ASSUME NEW s \in Sessions, Sets!LoadCommit(s) PROVE UNCHANGED release /\ (cat' = cat \/ cat' = Sets!Loaded)
    BY <1>7 DEF Sets!LoadCommit
<1>8. ASSUME Sets!ImportWrite PROVE UNCHANGED release /\ (cat' = cat \/ cat' = [r \in Rules |-> Sets!Imported(r)])
    BY <1>8 DEF Sets!ImportWrite
<1>9. ASSUME NEW s \in Sessions, Sets!Commit(s) PROVE CatInv' /\ Sets!KeepsCurated
    BY <1>1, <1>4, <1>6, <1>7, <1>9
<1>10. ASSUME Sets!ImportWrite PROVE CatInv' /\ Sets!KeepsCurated
    BY <1>2, <1>4, <1>8, <1>10
<1> QED
    BY <1>3, <1>4, <1>5, <1>9, <1>10
       DEF Sets!Next, Sets!vars, Sets!LoadRead, Sets!Assign, Sets!SetRemediation, Sets!QueueImport, Sets!ImportStep,
           Sets!StartImport, Sets!FetchFails, Sets!ImportRead, Sets!FinishImport, Sets!ImportCrash, Sets!CancelImport,
           Sets!SweepImport, Sets!ImportOnly

\* "A hand-curated CEL mapping must survive a re-import untouched": no import takes a curated
\* check away, and no start-up load puts older content in its place, whatever runs between their
\* look-ups and their commit (import_datastream, load_all).
THEOREM CuratedIsKept == Sets!Spec => [][Sets!KeepsCurated]_(Sets!vars)
<1>1. Sets!Init => CatInv
    BY DEF Sets!Init, CatInv, Sets!Absent
<1>2. CatInv /\ [Sets!Next]_(Sets!vars) => CatInv' /\ [Sets!KeepsCurated]_(Sets!vars)
    BY CatNext
<1> QED
    BY <1>1, <1>2, PTL DEF Sets!Spec

-----------------------------------------------------------------------------
(* What start-ups leave behind.                                            *)

\* Any number of workers and sessions; the bounds are numbers, and curated rules are rules.
BootAssumption ==
    /\ IsFiniteSet(Sessions) /\ Workers \in Nat \ {0} /\ MaxSets \in Nat
    /\ Curated \subseteq Rules

\* Nobody gave the baseline a second GLOBAL assignment (POST /policy-assignments allows it, and
\* scalar_one_or_none then raises).
Single == \A i \in Sets!CuratedId : assigned[i] <= 1

\* What the start-up load is for.
Effect ==
    /\ \A r \in Curated : cat[r] = [check |-> "CEL", release |-> release]
    /\ Sets!CuratedId \cap Sets!Live # {}

Loading == {s \in Sessions : txn[s].op = "load"}

\* Before the first load has taken effect no worker serves requests.
Fresh ==
    /\ \A s \in Sessions : txn[s].op \in {"idle", "load"}
    /\ job.at = "none"
    /\ release = 0 \/ booting + Cardinality(Loading) = Workers

\* A load finds at its commit what it read, or another has taken effect; and after a start-up
\* somebody has still to load, or one has taken effect.
BootInv ==
    /\ LineInv /\ CatInv
    /\ Len(sets) <= MaxSets
    /\ assigned \in [1..MaxSets -> Nat]
    /\ booting \in Nat /\ (release = 0 => booting = 0)
    /\ \A s \in Sessions : txn[s].op = "load" =>
          \/ Effect
          \/ txn[s].known \cap Curated = Sets!Known \cap Curated /\ txn[s].made = Sets!CuratedId
    /\ release > 0 => Effect \/ booting > 0 \/ \E s \in Sessions : txn[s].op = "load"
    /\ Sets!CuratedId # {} => Curated \subseteq Sets!Known
    /\ Sets!CuratedId = {} => Fresh

LEMMA SetsCardinality == \A S : Sets!Cardinality(S) = Cardinality(S)
BY DEF Sets!Cardinality, Cardinality

\* Whoever serves requests has the baseline.
LEMMA UpHasBaseline ==
    ASSUME BootAssumption, BootInv, Sets!Up
    PROVE  Sets!CuratedId # {}
<1>1. release > 0 /\ booting + Cardinality(Loading) < Workers
    BY SetsCardinality DEF Sets!Up, Loading
<1>2. Cardinality(Loading) \in Nat
    BY FS_Subset, FS_CardinalityType DEF BootAssumption, Loading
<1> QED
    BY <1>1, <1>2 DEF BootInv, Fresh, CatInv, BootAssumption

\* A step of anything but a load. It leaves the rules that are known, the loads under way and
\* the assignments that exist, and while nobody serves requests it changes next to nothing.
Harmless ==
    /\ SetsMove /\ Len(sets') <= MaxSets
    /\ UNCHANGED <<release, booting>>
    /\ DOMAIN cat' = Rules /\ \A r \in Sets!Known : cat'[r] = cat[r]
    /\ assigned' \in [1..MaxSets -> Nat]
    /\ \A i \in 1..MaxSets : assigned[i] > 0 => assigned'[i] > 0
    /\ \A s \in Sessions : txn'[s] = txn[s] \/ (txn[s].op # "load" /\ txn'[s].op # "load")
    /\ Sets!CuratedId = {} => /\ UNCHANGED <<cat, txn>> /\ job'.at = job.at
                              /\ Len(sets') = Len(sets)

\* The baseline stays what it is, for its name is taken.
LEMMA BaselineStays ==
    ASSUME SetsMove, Sets!CuratedId # {} \/ Len(sets') = Len(sets)
    PROVE  Sets!CuratedId' = Sets!CuratedId
<1>1. /\ Len(sets) \in Nat /\ Len(sets') \in {Len(sets), Len(sets) + 1}
      /\ \A i \in 1..Len(sets) : sets'[i].slug = sets[i].slug
    BY DEF SetsMove, SetsKeep
<1>2. Sets!CuratedId # {} /\ Len(sets') = Len(sets) + 1 => sets'[Len(sets) + 1].slug # Sets!CuratedSlug
    BY DEF SetsMove, Sets!Taken, Sets!CuratedId
<1>3. \A i \in 1..Len(sets') : i \in 1..Len(sets) \/ (i = Len(sets) + 1 /\ Len(sets') = Len(sets) + 1)
    BY <1>1
<1>4. \A i \in 1..Len(sets) : i \in 1..Len(sets')
    BY <1>1
<1> QED
    BY <1>1, <1>2, <1>3, <1>4 DEF Sets!CuratedId, Sets!Ids

LEMMA HarmlessStep ==
    ASSUME BootAssumption, BootInv, LineInv', CatInv', Harmless
    PROVE  BootInv'
<1>1. Sets!CuratedId' = Sets!CuratedId
    BY BaselineStays DEF Harmless
<1>2. \A i \in Sets!CuratedId : i \in 1..MaxSets /\ i \in 1..Len(sets) /\ i \in 1..Len(sets')
    BY DEF Harmless, SetsMove, SetsKeep, Sets!CuratedId, Sets!Ids, BootInv, BootAssumption
<1>3. Effect => Effect'
  <2>1. (\A r \in Curated : cat[r] = [check |-> "CEL", release |-> release]) =>
            \A r \in Curated : r \in Sets!Known
      BY DEF Sets!Known, BootAssumption
  <2>2. (\A r \in Curated : cat[r] = [check |-> "CEL", release |-> release]) =>
            \A r \in Curated : cat'[r] = [check |-> "CEL", release |-> release']
      BY <2>1 DEF Harmless
  <2>3. \A i \in Sets!CuratedId : assigned[i] > 0 => assigned'[i] > 0
      BY <1>2 DEF Harmless
  <2>4. Sets!CuratedId \cap Sets!Live # {} => Sets!CuratedId' \cap Sets!Live' # {}
      BY <1>1, <1>2, <2>3 DEF Sets!Live, Sets!Ids
  <2> QED
      BY <2>2, <2>4 DEF Effect
<1>4. \A s \in Sessions : txn'[s].op = "load" => txn'[s] = txn[s]
    BY DEF Harmless
<1>5. Sets!Known \subseteq Sets!Known'
    BY DEF Harmless, Sets!Known
<1>6. Sets!CuratedId # {} => Curated \subseteq Sets!Known /\ Curated \subseteq Sets!Known'
    BY <1>5 DEF BootInv
<1>7. Sets!CuratedId = {} => Sets!Known' = Sets!Known
    BY DEF Harmless, Sets!Known
<1>8. Sets!Known' \cap Curated = Sets!Known \cap Curated
    BY <1>6, <1>7
<1>9. \A s \in Sessions : txn'[s].op = "load" =>
          Effect' \/ (txn'[s].known \cap Curated = Sets!Known' \cap Curated /\ txn'[s].made = Sets!CuratedId')
    BY <1>1, <1>3, <1>4, <1>8 DEF BootInv
<1>10. (\E s \in Sessions : txn[s].op = "load") => \E s \in Sessions : txn'[s].op = "load"
    BY DEF Harmless
<1>11. release' > 0 => Effect' \/ booting' > 0 \/ \E s \in Sessions : txn'[s].op = "load"
    BY <1>3, <1>10 DEF BootInv, Harmless
<1>12. Sets!CuratedId' = {} => Fresh'
  <2>1. SUFFICES ASSUME Sets!CuratedId = {} PROVE Fresh'
      BY <1>1
  <2>2. Fresh /\ UNCHANGED <<txn, release, booting>> /\ job'.at = job.at
      BY <2>1 DEF BootInv, Harmless
  <2> QED
      BY <2>2 DEF Fresh, Loading
<1>13. Sets!CuratedId' # {} => Curated \subseteq Sets!Known'
    BY <1>1, <1>6
<1> QED
    BY <1>9, <1>11, <1>12, <1>13 DEF BootInv, Harmless

\* An edit of one set leaves the number of sets.
LEMMA EditKeepsLength ==
    ASSUME BootInv, sets' = sets \/ \E i, r : sets' = [sets EXCEPT ![i] = r]
    PROVE  Len(sets') = Len(sets)
<1>1. \A i, r : LET t == [sets EXCEPT ![i] = r] IN DOMAIN t = DOMAIN sets /\ t = [j \in DOMAIN t |-> t[j]]
    OBVIOUS
<1>2. \A i, r : Len([sets EXCEPT ![i] = r]) = Len(sets)
    BY <1>1, Rewritten DEF BootInv, LineInv, IsSequence
<1> QED
    BY <1>2

\* A request opens a transaction that is not a load.
LEMMA RequestTxn ==
    ASSUME NEW s \in Sessions, Sets!Request(s)
    PROVE  \E t : Sets!Open(s, t) /\ t.op # "load"
<1>1. ASSUME NEW slug, NEW num, NEW parent, NEW rules, NEW origin, NEW assign
      PROVE  Sets!Creation(slug, num, parent, rules, origin, assign).op # "load"
    BY DEF Sets!Creation
<1>2. ASSUME NEW slug, Sets!CreateDraft(s, slug) \/ Sets!ImportProfile(s, slug) PROVE \E t : Sets!Open(s, t) /\ t.op # "load"
    BY <1>1, <1>2 DEF Sets!CreateDraft, Sets!ImportProfile
<1>3. ASSUME NEW x, NEW unmapped, NEW assign, Sets!FromTemplate(s, x, unmapped, assign) PROVE \E t : Sets!Open(s, t) /\ t.op # "load"
    BY <1>1, <1>3 DEF Sets!FromTemplate
<1>4. ASSUME NEW i, Sets!NewVersion(s, i) PROVE \E t : Sets!Open(s, t) /\ t.op # "load"
    BY <1>1, <1>4 DEF Sets!NewVersion
<1>5. ASSUME NEW i, Sets!Publish(s, i) \/ Sets!Archive(s, i) PROVE \E t : Sets!Open(s, t) /\ t.op # "load"
    BY <1>5 DEF Sets!Publish, Sets!Archive
<1>6. ASSUME NEW i, NEW r, Sets!RemoveRule(s, i, r) PROVE \E t : Sets!Open(s, t) /\ t.op # "load"
    BY <1>6 DEF Sets!RemoveRule
<1>7. ASSUME NEW i, NEW r, NEW sev, Sets!AddRule(s, i, r, sev) PROVE \E t : Sets!Open(s, t) /\ t.op # "load"
    BY <1>7 DEF Sets!AddRule
<1> QED
    BY <1>2, <1>3, <1>4, <1>5, <1>6, <1>7 DEF Sets!Request

\* Requests, imports and assignments are harmless.
LEMMA OtherSteps ==
    ASSUME BootAssumption, BootInv, [Sets!Next]_(Sets!vars),
           ~Sets!Boot, \A s \in Sessions : ~Sets!LoadRead(s) /\ ~Sets!LoadCommit(s)
    PROVE  Harmless
<1>0. SetsMove /\ DOMAIN txn = Sessions /\ Len(sets) \in Nat /\ Len(sets) <= MaxSets /\ DOMAIN cat = Rules
      /\ Len(sets') \in {Len(sets), Len(sets) + 1} /\ assigned \in [1..MaxSets -> Nat]
    BY SetsNext DEF BootInv, CatInv, LineInv, SetsMove, SetsKeep
<1>1. ASSUME NEW s \in Sessions, Sets!CreateCommit(s) PROVE Harmless
  <2>1. Len(sets') <= MaxSets
      BY <1>0, <1>1 DEF Sets!CreateCommit, BootAssumption
  <2>2. assigned' = assigned \/ assigned' = [assigned EXCEPT ![Len(sets) + 1] = 1]
      BY <1>1 DEF Sets!CreateCommit
  <2>3. PICK f : f = [assigned EXCEPT ![Len(sets) + 1] = 1]
      OBVIOUS
  <2>4. f \in [1..MaxSets -> Nat] /\ \A i \in 1..MaxSets : f[i] = assigned[i] \/ f[i] = 1
      BY <1>0, <2>3
  <2>5. assigned' \in [1..MaxSets -> Nat] /\ \A i \in 1..MaxSets : assigned[i] > 0 => assigned'[i] > 0
    <3>1. CASE assigned' = assigned
        BY <1>0, <3>1
    <3>2. CASE assigned' = f
        BY <2>4, <3>2
    <3> QED
        BY <2>2, <2>3, <3>1, <3>2
  <2>6. \A o \in Sessions : txn'[o] = txn[o] \/ (txn[o].op # "load" /\ txn'[o].op # "load")
      BY <1>0, <1>1 DEF Sets!CreateCommit, Sets!Close, Sets!Idle
  <2>7. UNCHANGED <<cat, release, booting, job>> /\ txn[s].op = "create"
      BY <1>1 DEF Sets!CreateCommit
  <2>8. Sets!CuratedId # {}
      BY <2>7 DEF BootInv, Fresh
  <2> QED
      BY <1>0, <2>1, <2>5, <2>6, <2>7, <2>8 DEF Harmless
<1>2. ASSUME NEW s \in Sessions, Sets!AddCommit(s) \/ Sets!RemoveCommit(s) \/ Sets!StatusCommit(s) PROVE Harmless
  <2>1. \A o \in Sessions : txn'[o] = txn[o] \/ (txn[o].op # "load" /\ txn'[o].op # "load")
      BY <1>0, <1>2 DEF Sets!AddCommit, Sets!RemoveCommit, Sets!StatusCommit, Sets!Close, Sets!Idle
  <2>2. UNCHANGED <<cat, release, booting, assigned, job>> /\ txn[s].op \notin {"idle", "load"}
      BY <1>2 DEF Sets!AddCommit, Sets!RemoveCommit, Sets!StatusCommit
  <2>3. sets' = sets \/ \E i, r : sets' = [sets EXCEPT ![i] = r]
      BY <1>2 DEF Sets!AddCommit, Sets!RemoveCommit, Sets!StatusCommit
  <2>4. Len(sets') = Len(sets)
      BY <2>3, EditKeepsLength
  <2>5. Sets!CuratedId # {}
      BY <2>2 DEF BootInv, Fresh
  <2> QED
      BY <1>0, <2>1, <2>2, <2>4, <2>5 DEF Harmless
<1>3. ASSUME NEW s \in Sessions, Sets!Request(s) PROVE Harmless
  <2>1. PICK t : Sets!Open(s, t) /\ t.op # "load"
      BY <1>3, RequestTxn
  <2>2. Sets!Up /\ txn[s].op = "idle" /\ txn' = [txn EXCEPT ![s] = t] /\ UNCHANGED <<sets, cat, assigned, job, release, booting>>
      BY <2>1 DEF Sets!Open, Sets!Idle
  <2>3. Sets!CuratedId # {}
      BY <2>2, UpHasBaseline
  <2>4. \A o \in Sessions : txn'[o] = txn[o] \/ (txn[o].op # "load" /\ txn'[o].op # "load")
      BY <1>0, <2>1, <2>2
  <2> QED
      BY <1>0, <2>2, <2>3, <2>4 DEF Harmless
<1>4. ASSUME NEW i, NEW mode, Sets!SetRemediation(i, mode) PROVE Harmless
  <2>1. \E r : sets' = [sets EXCEPT ![i] = r]
      BY <1>4 DEF Sets!SetRemediation
  <2>2. Len(sets') = Len(sets)
      BY <2>1, EditKeepsLength
  <2> QED
      BY <1>0, <1>4, <2>2 DEF Harmless, Sets!SetRemediation
<1>5. ASSUME NEW i \in Sets!Ids, Sets!Assign(i) PROVE Harmless
  <2>1. assigned' = [assigned EXCEPT ![i] = assigned[i] + 1] /\ i \in 1..MaxSets
      BY <1>0, <1>5 DEF Sets!Assign, Sets!Ids, BootAssumption
  <2>2. /\ assigned' \in [1..MaxSets -> Nat]
        /\ \A j \in 1..MaxSets : assigned[j] > 0 => assigned'[j] > 0
      BY <1>0, <2>1
  <2> QED
      BY <1>0, <1>5, <2>2 DEF Sets!Assign, Harmless
<1>6. ASSUME Sets!ImportWrite PROVE Harmless
  <2>1. UNCHANGED <<assigned, txn, release, booting>> /\ job.at = "write"
      BY <1>6 DEF Sets!ImportWrite
  <2>2. Sets!CuratedId # {}
      BY <2>1 DEF BootInv, Fresh
  <2>3. cat' = cat \/ cat' = [r \in Rules |-> Sets!Imported(r)]
      BY <1>6 DEF Sets!ImportWrite
  <2>4. DOMAIN cat' = Rules /\ \A r \in Sets!Known : cat'[r] = cat[r]
      BY <1>0, <2>3 DEF Sets!Imported, Sets!Known
  <2>5. Len(sets') <= MaxSets
    <3>1. CASE sets' = sets
        BY <1>0, <3>1
    <3>2. CASE sets' = Sets!ProfileSet /\ Sets!ProfileId # {}
      <4>1. DOMAIN sets' = 1..Len(sets)
          BY <3>2 DEF Sets!ProfileSet, Sets!Ids
      <4>2. DOMAIN sets' = 1..Len(sets')
          BY <1>0 DEF SetsMove, SetsKeep, IsSequence
      <4>3. Len(sets') = Len(sets) + 1 => Len(sets) + 1 \in DOMAIN sets'
          BY <1>0, <4>2
      <4>4. Len(sets) + 1 \notin 1..Len(sets)
          BY <1>0
      <4> QED
          BY <1>0, <4>1, <4>3, <4>4
    <3>3. CASE Sets!ProfileId = {} /\ Len(sets) < MaxSets
        BY <1>0, <3>3 DEF BootAssumption
    <3> QED
        BY <1>6, <3>1, <3>2, <3>3 DEF Sets!ImportWrite
  <2> QED
      BY <1>0, <2>1, <2>2, <2>4, <2>5 DEF Harmless
<1>7. ASSUME Sets!QueueImport PROVE Harmless
  <2>1. Sets!Up /\ UNCHANGED <<sets, cat, assigned, txn, release, booting>>
      BY <1>7 DEF Sets!QueueImport
  <2> QED
      BY <1>0, <2>1, UpHasBaseline DEF Harmless
<1>8. ASSUME Sets!StartImport \/ Sets!FetchFails \/ Sets!ImportRead \/ Sets!FinishImport \/ Sets!ImportCrash PROVE Harmless
  <2>1. UNCHANGED <<sets, cat, assigned, txn, release, booting>> /\ job.at # "none"
      BY <1>8 DEF Sets!StartImport, Sets!FetchFails, Sets!ImportRead, Sets!FinishImport, Sets!ImportCrash, Sets!ImportOnly
  <2> QED
      BY <1>0, <2>1 DEF Harmless, BootInv, Fresh
<1>9. ASSUME Sets!CancelImport \/ Sets!SweepImport PROVE Harmless
  <2>1. UNCHANGED <<sets, cat, assigned, txn, release, booting>> /\ \E st : job' = [job EXCEPT !.status = st]
      BY <1>9 DEF Sets!CancelImport, Sets!SweepImport, Sets!ImportOnly
  <2>2. job'.at = job.at
      BY <2>1
  <2> QED
      BY <1>0, <2>1, <2>2 DEF Harmless
<1>10. CASE UNCHANGED Sets!vars
    BY <1>0, <1>10 DEF Harmless, Sets!vars
<1> QED
    BY <1>1, <1>2, <1>3, <1>4, <1>5, <1>6, <1>7, <1>8, <1>9, <1>10 DEF Sets!Next, Sets!Commit, Sets!ImportStep

LEMMA BootNext ==
    ASSUME BootAssumption, Single, BootInv, [Sets!Next]_(Sets!vars)
    PROVE  BootInv'
<1>1. LineInv' /\ CatInv'
    BY LineNext, CatNext DEF BootInv
<1>2. DOMAIN txn = Sessions /\ DOMAIN txn' = Sessions
    BY <1>1 DEF BootInv, LineInv
\* A start-up: every worker has still to load.
<1>3. ASSUME Sets!Boot PROVE BootInv'
  <2>1. booting' = Workers /\ booting' \in Nat /\ booting' > 0 /\ \A s \in Sessions : txn'[s].op # "load"
      BY <1>3 DEF Sets!Boot, BootAssumption
  <2>2. UNCHANGED <<sets, cat, assigned, txn, job>> /\ release' = release + 1
      BY <1>3 DEF Sets!Boot
  <2>3. Loading' = {}
      BY <2>1 DEF Loading
  <2>4. Sets!CuratedId' = {} => Fresh'
      BY <2>1, <2>2, <2>3, FS_EmptySet DEF BootInv, Fresh, Sets!CuratedId, Sets!Ids
  <2>5. Sets!CuratedId' # {} => Curated \subseteq Sets!Known'
      BY <2>2 DEF BootInv, Sets!CuratedId, Sets!Ids, Sets!Known
  <2>6. release' # 0
      BY <2>2 DEF BootInv, CatInv
  <2> QED
      BY <1>1, <2>1, <2>2, <2>4, <2>5, <2>6 DEF BootInv
\* A load that begins: with one assignment it does begin.
<1>4. ASSUME NEW s \in Sessions, Sets!LoadRead(s) PROVE BootInv'
  <2>1. ~\E i \in Sets!CuratedId : assigned[i] > 1
    <3>1. \A i \in Sets!CuratedId : i \in 1..MaxSets
        BY DEF Sets!CuratedId, Sets!Ids, BootInv, LineInv, IsSequence, BootAssumption
    <3>2. \A i \in 1..MaxSets : assigned[i] \in Nat
        BY DEF BootInv
    <3> QED
        BY <3>1, <3>2 DEF Single
  <2>2. txn' = [txn EXCEPT ![s] = [op |-> "load", known |-> Sets!Known, made |-> Sets!CuratedId]]
      BY <1>4, <2>1 DEF Sets!LoadRead
  <2>3. txn'[s].op = "load" /\ txn'[s].known = Sets!Known /\ txn'[s].made = Sets!CuratedId
      BY <1>2, <2>2
  <2>4. \A o \in Sessions : o # s => txn'[o] = txn[o]
      BY <1>2, <2>2
  <2>5. UNCHANGED <<sets, cat, assigned, job, release>> /\ booting' \in Nat /\ booting > 0 /\ booting' = booting - 1
        /\ txn[s].op = "idle"
      BY <1>4 DEF Sets!LoadRead, BootInv, Sets!Idle
  <2>6. Sets!Known' = Sets!Known /\ Sets!CuratedId' = Sets!CuratedId /\ (Effect => Effect')
      BY <2>5 DEF Sets!Known, Sets!CuratedId, Sets!Ids, Effect, Sets!Live
  <2>7. \A o \in Sessions : txn'[o].op = "load" =>
            Effect' \/ (txn'[o].known \cap Curated = Sets!Known' \cap Curated /\ txn'[o].made = Sets!CuratedId')
      BY <2>3, <2>4, <2>6 DEF BootInv
  <2>8. Sets!CuratedId' = {} => Fresh'
    <3>1. SUFFICES ASSUME Sets!CuratedId = {} PROVE Fresh'
        BY <2>6
    <3>2. Fresh /\ release > 0 /\ booting + Cardinality(Loading) = Workers
        BY <2>5, <3>1 DEF BootInv, Fresh, CatInv
    <3>3. Loading' = Loading \cup {s} /\ s \notin Loading
        BY <2>3, <2>4, <2>5 DEF Loading
    <3>4. IsFiniteSet(Loading) /\ Cardinality(Loading) \in Nat
        BY FS_Subset, FS_CardinalityType DEF BootAssumption, Loading
    <3>5. Cardinality(Loading \cup {s}) = Cardinality(Loading) + 1
        BY <3>3, <3>4, FS_AddElement
    <3>6. booting' + Cardinality(Loading') = Workers
      <4>1. Cardinality(Loading') = Cardinality(Loading) + 1 /\ booting \in Nat /\ Workers \in Nat
          BY <3>3, <3>5 DEF BootInv, BootAssumption
      <4> QED
          BY <2>5, <3>2, <3>4, <4>1
    <3> QED
        BY <2>3, <2>4, <2>5, <3>2, <3>6 DEF Fresh
  <2>9. release' = 0 => booting' = 0
      BY <2>5 DEF BootInv
  <2>10. Sets!CuratedId' # {} => Curated \subseteq Sets!Known'
      BY <2>6 DEF BootInv
  <2> QED
      BY <1>1, <2>3, <2>5, <2>7, <2>8, <2>9, <2>10 DEF BootInv
\* A load that commits takes effect, unless another has.
<1>5. ASSUME NEW s \in Sessions, Sets!LoadCommit(s) PROVE BootInv'
  <2>1. txn'[s].op = "idle" /\ \A o \in Sessions : o # s => txn'[o] = txn[o]
      BY <1>2, <1>5 DEF Sets!LoadCommit, Sets!Close, Sets!Idle
  <2>2. UNCHANGED <<job, release, booting>>
      BY <1>5 DEF Sets!LoadCommit
  <2>3. Effect => Sets!CuratedId # {} /\ Curated \subseteq Sets!Known
      BY DEF Effect, Sets!Known, BootAssumption
  <2>4. CASE txn[s].known \cap Curated # Sets!Known \cap Curated \/ txn[s].made # Sets!CuratedId
    <3>1. Effect /\ UNCHANGED <<sets, cat, assigned>>
        BY <1>5, <2>4 DEF Sets!LoadCommit, BootInv
    <3>2. Effect' /\ Sets!CuratedId' = Sets!CuratedId /\ Sets!Known' = Sets!Known
        BY <2>2, <3>1 DEF Effect, Sets!CuratedId, Sets!Ids, Sets!Live, Sets!Known
    <3> QED
        BY <1>1, <2>2, <2>3, <3>1, <3>2 DEF BootInv
  <2>5. CASE ~(txn[s].known \cap Curated # Sets!Known \cap Curated \/ txn[s].made # Sets!CuratedId)
    <3>1. /\ Sets!CuratedId = {} => Len(sets) < MaxSets
          /\ cat' = Sets!Loaded /\ sets' = Sets!EnsurePolicySet
          /\ \E i \in IF Sets!CuratedId = {} THEN {Len(sets) + 1} ELSE Sets!CuratedId :
                assigned' = Sets!EnsureAssignment(i)
        BY <1>5, <2>5 DEF Sets!LoadCommit
    <3>2. IsSequence(sets) /\ Len(sets) \in Nat /\ Len(sets) <= MaxSets /\ MaxSets \in Nat
        BY DEF BootInv, LineInv, IsSequence, BootAssumption
    <3>3. SetsKeep
        BY SetsNext DEF BootInv, SetsMove
    <3>4. /\ Sets!CuratedId = {} => /\ Len(sets') = Len(sets) + 1 /\ sets'[Len(sets) + 1].slug = Sets!CuratedSlug
          /\ Sets!CuratedId # {} => Len(sets') = Len(sets)
      <4>1. PICK x : x = Sets!NewSet(Sets!CuratedSlug, "PUBLISHED", 1, 0, [r \in Curated |-> "none"], "curated")
          OBVIOUS
      <4>2. x.slug = Sets!CuratedSlug
          BY <4>1 DEF Sets!NewSet
      <4>3. Sets!CuratedId = {} => sets' = Append(sets, x)
          BY <3>1, <4>1 DEF Sets!EnsurePolicySet
      <4>4. Sets!CuratedId # {} => DOMAIN sets' = 1..Len(sets)
          BY <3>1 DEF Sets!EnsurePolicySet, Sets!Ids
      <4>5. DOMAIN sets' = 1..Len(sets')
          BY <3>3 DEF SetsKeep, IsSequence
      <4>7. Len(sets') = Len(sets) + 1 => Len(sets) + 1 \in DOMAIN sets'
          BY <3>2, <4>5
      <4>8. Len(sets) + 1 \notin 1..Len(sets)
          BY <3>2
      <4>6. Sets!CuratedId # {} => Len(sets') = Len(sets)
          BY <3>3, <4>4, <4>7, <4>8 DEF SetsKeep
      <4> QED
          BY <3>2, <4>2, <4>3, <4>6, Appended
    <3>5. \A i \in Sets!CuratedId : i \in 1..Len(sets) /\ i \in 1..MaxSets /\ sets'[i].slug = Sets!CuratedSlug
        BY <3>2, <3>3 DEF Sets!CuratedId, Sets!Ids, SetsKeep
    <3>6. PICK i \in 1..MaxSets : i \in 1..Len(sets') /\ sets'[i].slug = Sets!CuratedSlug
                                  /\ assigned' = Sets!EnsureAssignment(i)
        BY <3>1, <3>2, <3>4, <3>5
    <3>7. assigned' \in [1..MaxSets -> Nat] /\ assigned'[i] > 0
        BY <3>6 DEF BootInv, Sets!EnsureAssignment
    <3>8. \A r \in Curated : cat'[r] = [check |-> "CEL", release |-> release']
        BY <2>2, <3>1 DEF Sets!Loaded, BootAssumption
    <3>9. Effect'
        BY <3>6, <3>7, <3>8 DEF Effect, Sets!CuratedId, Sets!Ids, Sets!Live
    <3>10. Len(sets') <= MaxSets
        BY <3>1, <3>2, <3>4
    <3>11. Sets!CuratedId' # {} /\ Curated \subseteq Sets!Known'
        BY <1>1, <3>8, <3>9 DEF Effect, Sets!Known, BootAssumption, CatInv
    <3> QED
        BY <1>1, <2>2, <3>7, <3>9, <3>10, <3>11 DEF BootInv
  <2> QED
      BY <2>4, <2>5
<1>6. CASE ~Sets!Boot /\ \A s \in Sessions : ~Sets!LoadRead(s) /\ ~Sets!LoadCommit(s)
    BY <1>1, <1>6, OtherSteps, HarmlessStep
<1> QED
    BY <1>3, <1>4, <1>5, <1>6

\* "A content fix in the YAML must actually take effect on the next load": when every worker of
\* a start-up has loaded, the catalogue holds the content of that release and the baseline set
\* is assigned. Any number of workers race; the workers that are up serve editors and run
\* imports meanwhile, which may take any name and assign any set -- as long as nobody gives the
\* baseline itself a second GLOBAL assignment (load_all, _ensure_policy_set,
\* _ensure_global_assignment).
THEOREM ContentTakesEffect ==
    ASSUME BootAssumption
    PROVE  Sets!Spec /\ []Single => []Sets!CuratedTakesEffect
<1>1. ASSUME Sets!Init PROVE BootInv
  <2>1. LineInv /\ CatInv
      BY <1>1 DEF Sets!Init, LineInv, CatInv, IsSequence, Sets!Idle, Sets!Absent
  <2>2. sets = <<>> /\ Len(sets) = 0
      BY <1>1 DEF Sets!Init
  <2>3. Sets!CuratedId = {}
      BY <2>2 DEF Sets!CuratedId, Sets!Ids
  <2>4. assigned \in [1..MaxSets -> Nat]
      BY <1>1 DEF Sets!Init
  <2>5. /\ \A s \in Sessions : txn[s].op = "idle"
        /\ job.at = "none" /\ release = 0 /\ booting = 0
      BY <1>1 DEF Sets!Init, Sets!Idle
  <2> QED
      BY <2>1, <2>2, <2>3, <2>4, <2>5 DEF BootInv, Fresh, BootAssumption
<1>2. BootInv /\ Single /\ [Sets!Next]_(Sets!vars) => BootInv'
    BY BootNext
<1>3. BootInv => Sets!CuratedTakesEffect
    BY DEF BootInv, Effect, Sets!CuratedTakesEffect
<1> QED
    BY <1>1, <1>2, <1>3, PTL DEF Sets!Spec

=============================================================================
