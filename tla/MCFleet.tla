------------------------------ MODULE MCFleet ------------------------------
(***************************************************************************)
(* Safety of what the platform concludes about the fleet, on small         *)
(* instances: incidents, events, the scheduler's leader, policy sets with  *)
(* their content, drift exceptions and baselines.  These components share  *)
(* no state: `part' says which of them moves in a behaviour, and in which  *)
(* setting; the variables of the others stay at 0, those of the incidents  *)
(* as they are before the first.                                           *)
(***************************************************************************)
EXTENDS IncidentFlow

VARIABLES part,
          key, up, tick, leader, row, poll, runs, faults,
          sets, cat, asg, setTxn, job, release, booting,
          facts, want, net, snapshot, base, open, verdict, exc, waiver, ingest, changes, netLosses,
          queue, pushed, refused, inbox, claimed, buffer, batch, stored, failures, given,
          ver, verTxn, events, sent, inScope, eff, pass, passLosses

leaseVars == <<key, up, tick, leader, row, poll, runs, faults>>
setVars   == <<sets, cat, asg, setTxn, job, release, booting>>
driftVars == <<facts, want, net, snapshot, base, open, verdict, exc, waiver, ingest, changes, netLosses>>
pipeVars  == <<queue, pushed, refused, inbox, claimed, buffer, batch, stored, failures, given>>
baseVars  == <<ver, verTxn, events, sent, inScope, eff, pass, passLosses>>
fleetVars == <<vars, leaseVars, setVars, driftVars, pipeVars, baseVars>>

-----------------------------------------------------------------------------
(* The settings. *)

\* Three replicas, two of which may die at any point.
Lease == INSTANCE LeaderLease WITH
    Replicas <- {"r1", "r2", "r3"}, Assessments <- {"a1"}, Ops <- {"crash"}, MaxFaults <- 2

\* Two editors of one lineage of policy sets.
Race == INSTANCE PolicySets WITH
    Sessions <- {"s1", "s2"}, Rules <- {"x", "y"}, Curated <- {"x"}, Cis <- {"x", "y"}, Minor <- {"y"},
    Overrides <- {"none", "CRITICAL"}, Slugs <- {"mine"}, Serial <- FALSE,
    Ops <- {"create", "profile", "version", "add", "remove", "publish", "archive"},
    MaxSets <- 3, MaxAssignments <- 1, MaxImports <- 0, MaxBoots <- 1, Workers <- 1, txn <- setTxn

\* Three start-ups of two workers each, while sets are edited.
Boot == INSTANCE PolicySets WITH
    Sessions <- {"s1", "s2"}, Rules <- {"x", "y"}, Curated <- {"x"}, Cis <- {"x", "y"}, Minor <- {"y"},
    Overrides <- {"none"}, Slugs <- {"mine"}, Serial <- FALSE,
    Ops <- {"create", "add", "publish", "archive", "assign", "mode"},
    MaxSets <- 2, MaxAssignments <- 1, MaxImports <- 0, MaxBoots <- 3, Workers <- 2, txn <- setTxn

\* Imports that are cancelled or die, between start-ups that ship new content.
Import == INSTANCE PolicySets WITH
    Sessions <- {"s1"}, Rules <- {"x", "y"}, Curated <- {"x"}, Cis <- {"x", "y"}, Minor <- {"y"},
    Overrides <- {"none"}, Slugs <- {"profile"}, Serial <- FALSE,
    Ops <- {"create", "template", "unmapped", "import", "crash", "cancel"},
    MaxSets <- 2, MaxAssignments <- 1, MaxImports <- 2, MaxBoots <- 2, Workers <- 1, txn <- setTxn

\* Exceptions that are asked for, approved, revoked and that expire.
Waive == INSTANCE DriftWatch WITH
    Agents <- {"a1"}, Engines <- {"g1"}, Users <- {"u1", "u2"}, Excs <- {"e1"}, Sessions <- {"s1", "s2"},
    Values <- {"good", "bad"}, Scopes <- {"a1", "fleet"}, Selected <- {}, Ops <- {"baseline"}, Serial <- FALSE,
    MaxChanges <- 1, MaxLosses <- 0,
    host <- facts, stored <- snapshot, txn <- waiver, work <- ingest, losses <- netLosses

\* Two workers that are both given an event, with a stream that is trimmed and may be away.
Pipe == INSTANCE EventPipe WITH
    Events <- {"e1", "e2", "e3"}, Critical <- {"e1"}, Low <- {"e3"}, Workers <- {"w1", "w2"},
    Capacity <- 2, MaxBatch <- 1, BufferMax <- 2, Ops <- {"unsent", "trim", "stop"}, MaxFailures <- 1,
    rows <- stored

\* Two sessions on two versions of a baseline.
Author == INSTANCE BaselineFlow WITH
    Users <- {"u1", "u2"}, Agents <- {}, Sessions <- {"s1", "s2"}, Threads <- {}, Ops <- {},
    Serial <- FALSE, MaxVersions <- 2, MaxPublishes <- 3, MaxLosses <- 0,
    txn <- verTxn, work <- pass, losses <- passLosses

\* One request at a time, while engines die, restart and lose messages.
Engine == INSTANCE BaselineFlow WITH
    Users <- {"u1", "u2"}, Agents <- {"a1"}, Sessions <- {"s1"}, Threads <- {"t1"},
    Ops <- {"crash", "drop", "move", "restart"}, Serial <- TRUE, MaxVersions <- 2, MaxPublishes <- 3,
    MaxLosses <- 1, txn <- verTxn, work <- pass, losses <- passLosses

-----------------------------------------------------------------------------

NoLease == key = 0 /\ up = 0 /\ tick = 0 /\ leader = 0 /\ row = 0 /\ poll = 0 /\ runs = 0 /\ faults = 0
NoSets  == sets = 0 /\ cat = 0 /\ asg = 0 /\ setTxn = 0 /\ job = 0 /\ release = 0 /\ booting = 0
NoDrift == facts = 0 /\ want = 0 /\ net = 0 /\ snapshot = 0 /\ base = 0 /\ open = 0 /\ verdict = 0
           /\ exc = 0 /\ waiver = 0 /\ ingest = 0 /\ changes = 0 /\ netLosses = 0
NoPipe  == queue = 0 /\ pushed = 0 /\ refused = 0 /\ inbox = 0 /\ claimed = 0 /\ buffer = 0 /\ batch = 0
           /\ stored = 0 /\ failures = 0 /\ given = 0
NoBase  == ver = 0 /\ verTxn = 0 /\ events = 0 /\ sent = 0 /\ inScope = 0 /\ eff = 0 /\ pass = 0
           /\ passLosses = 0

FleetIdle == Init /\ NoLease /\ NoSets /\ NoDrift /\ NoPipe /\ NoBase

FleetInit ==
    /\ Init
    /\ \/ part = "incidents" /\ NoLease /\ NoSets /\ NoDrift /\ NoPipe /\ NoBase
       \/ part = "lease" /\ Lease!Init /\ NoSets /\ NoDrift /\ NoPipe /\ NoBase
       \/ part = "sets" /\ Race!Init /\ NoLease /\ NoDrift /\ NoPipe /\ NoBase
       \/ part = "boots" /\ Boot!Init /\ NoLease /\ NoDrift /\ NoPipe /\ NoBase
       \/ part = "imports" /\ Import!Init /\ NoLease /\ NoDrift /\ NoPipe /\ NoBase
       \/ part = "waivers" /\ Waive!Init /\ NoLease /\ NoSets /\ NoPipe /\ NoBase
       \/ part = "events" /\ Pipe!Init /\ NoLease /\ NoSets /\ NoDrift /\ NoBase
       \/ part = "authors" /\ Author!Init /\ NoLease /\ NoSets /\ NoDrift /\ NoPipe
       \/ part = "engine" /\ Engine!Init /\ NoLease /\ NoSets /\ NoDrift /\ NoPipe

FleetNext ==
    \/ /\ part = "incidents" /\ Next
       /\ UNCHANGED <<leaseVars, setVars, driftVars, pipeVars, baseVars>>
    \/ /\ part = "lease" /\ Lease!Next
       /\ UNCHANGED <<vars, setVars, driftVars, pipeVars, baseVars>>
    \/ /\ \/ part = "sets" /\ Race!Next
          \/ part = "boots" /\ Boot!Next
          \/ part = "imports" /\ Import!Next
       /\ UNCHANGED <<vars, leaseVars, driftVars, pipeVars, baseVars>>
    \/ /\ part = "waivers" /\ Waive!Next
       /\ UNCHANGED <<vars, leaseVars, setVars, pipeVars, baseVars>>
    \/ /\ part = "events" /\ Pipe!Next
       /\ UNCHANGED <<vars, leaseVars, setVars, driftVars, baseVars>>
    \/ /\ \/ part = "authors" /\ Author!Next
          \/ part = "engine" /\ Engine!Next
       /\ UNCHANGED <<vars, leaseVars, setVars, driftVars, pipeVars>>

-----------------------------------------------------------------------------

\* Two replicas of the scheduler are never leader at once, however their reads and writes of
\* the key interleave and whoever dies, and no assessment is run twice (leader.go,
\* AssessmentPoller).
OneLeader == part = "lease" => Lease!OneLeader /\ Lease!AssessedOnce

\* A version of a policy set has one successor, with the next number, whichever editors clone
\* it at once (create_new_version).
OneSuccessor == part = "sets" => Race!OneSuccessor

\* When all workers have started, the catalogue holds the shipped content and the baseline
\* set is assigned, whatever was edited meanwhile (curated_rules_loader).
CuratedTakesEffect == part = "boots" => Boot!CuratedTakesEffect

\* An import never replaces a curated check, whatever ran between its look-ups and its commit
\* (import_datastream).
CuratedSurvives == [][part = "imports" => Import!KeepsCurated]_<<part, fleetVars>>

\* No exception and no baseline version is in force on the word of one user, however
\* requests interleave (approve of both).
FourEyes ==
    /\ part = "waivers" => Waive!FourEyes
    /\ part = "authors" => Author!FourEyes
    /\ part = "engine" => Engine!FourEyes

\* An event is stored once, whichever workers receive it and however often the agent sends
\* it (ReportEvents' dedup key).
StoredOnce == part = "events" => Pipe!StoredOnce
=============================================================================
