------------------------------ MODULE MCControl ------------------------------
(***************************************************************************)
(* Safety of what ties platform and agents together, on small instances:   *)
(* the identity of an agent, the keys that sign its jobs and the policies  *)
(* it is given.  These components share no state: `part' says which of     *)
(* them moves in a behaviour, and in which setting; the variables of the   *)
(* others stay at 0.                                                       *)
(***************************************************************************)
EXTENDS Integers, Sequences

VARIABLES part,
          token, idRow, cert, host, idReq, redis, caUp, acked, late, idFaults,
          meta, file, keys, legacy, keyReq, ready, cache, keyAgent, flight, rejected, unsigned, keyFaults,
          deps, row, agent, wire, applied, losses, restarts, rolled

idVars   == <<token, idRow, cert, host, idReq, redis, caUp, acked, late, idFaults>>
keyVars  == <<meta, file, keys, legacy, keyReq, ready, cache, keyAgent, flight, rejected, unsigned, keyFaults>>
rollVars == <<deps, row, agent, wire, applied, losses, restarts, rolled>>

-----------------------------------------------------------------------------
(* The settings. *)

\* One machine over its whole life; everything may fail.
Life == INSTANCE AgentIdentity WITH
    Hosts <- {"h1"}, Tokens <- {"t1", "t2"}, SameName <- FALSE, Serial <- FALSE,
    Faults <- {"ca", "redis", "reply", "token", "crash"}, MaxFaults <- 2, MaxRows <- 1, MaxCerts <- 3,
    row <- idRow, req <- idReq, faults <- idFaults

\* Operators who follow the rotation runbook.
Ops == INSTANCE KeyRing WITH
    Procs <- {"p1", "p2"}, Agents <- {"a1", "a2"}, MaxVersion <- 3, MaxKeys <- 4,
    Serial <- TRUE, Runbook <- TRUE, Playbook <- TRUE, Required <- TRUE,
    Faults <- {"file"}, MaxFaults <- 1, req <- keyReq, agent <- keyAgent,
    faults <- keyFaults

\* Two processes whose key operations interleave, one of which may die.
Race == INSTANCE KeyRing WITH
    Procs <- {"p1", "p2"}, Agents <- {}, MaxVersion <- 2, MaxKeys <- 3,
    Serial <- FALSE, Runbook <- FALSE, Playbook <- FALSE, Required <- FALSE,
    Faults <- {"crash", "file"}, MaxFaults <- 1, req <- keyReq, agent <- keyAgent,
    faults <- keyFaults

\* A platform whose jobs need no signature, until its signer is up.
Plain == INSTANCE KeyRing WITH
    Procs <- {"p1"}, Agents <- {"a1"}, MaxVersion <- 2, MaxKeys <- 2,
    Serial <- TRUE, Runbook <- TRUE, Playbook <- TRUE, Required <- FALSE,
    Faults <- {"file"}, MaxFaults <- 1, req <- keyReq, agent <- keyAgent,
    faults <- keyFaults

\* Three versions of a policy rolled out over each other.
Roll == INSTANCE PolicyRollout WITH
    Policies <- {"p"}, Seeded <- {}, MaxVersion <- 3, MaxDeploy <- 3, MaxLoss <- 2, MaxRestart <- 1,
    MaxRollback <- 1, Window <- 3, Faults <- {"health", "overlap"}

-----------------------------------------------------------------------------

NoId ==
    /\ token = 0 /\ idRow = 0 /\ cert = 0 /\ host = 0 /\ idReq = 0 /\ redis = 0
    /\ caUp = 0 /\ acked = 0 /\ late = 0 /\ idFaults = 0
NoKey ==
    /\ meta = 0 /\ file = 0 /\ keys = 0 /\ legacy = 0 /\ keyReq = 0 /\ ready = 0
    /\ cache = 0 /\ keyAgent = 0 /\ flight = 0 /\ rejected = 0 /\ unsigned = 0 /\ keyFaults = 0
NoRoll ==
    /\ deps = 0 /\ row = 0 /\ agent = 0 /\ wire = 0 /\ applied = 0 /\ losses = 0
    /\ restarts = 0 /\ rolled = 0
ControlIdle == NoId /\ NoKey /\ NoRoll

ControlInit ==
    \/ part = "life" /\ Life!Init /\ NoKey /\ NoRoll
    \/ part = "runbook" /\ Ops!Init /\ NoId /\ NoRoll
    \/ part = "race" /\ Race!Init /\ NoId /\ NoRoll
    \/ part = "plain" /\ Plain!Init /\ NoId /\ NoRoll
    \/ part = "roll" /\ Roll!Init /\ NoId /\ NoKey

ControlNext ==
    \/ part = "life" /\ Life!Next /\ UNCHANGED <<keyVars, rollVars>>
    \/ part = "runbook" /\ Ops!Next /\ UNCHANGED <<idVars, rollVars>>
    \/ part = "race" /\ Race!Next /\ UNCHANGED <<idVars, rollVars>>
    \/ part = "plain" /\ Plain!Next /\ UNCHANGED <<idVars, rollVars>>
    \/ part = "roll" /\ Roll!Next /\ UNCHANGED <<idVars, keyVars>>

-----------------------------------------------------------------------------

\* An RPC begun after its agent's revocation was stored does not pass the gate, whatever
\* certificate the agent has or gets, unless Redis failed for the deny-list look-up and
\* answered the serial check of that same call (_authenticate_agent).
RevokedIsRefused == part = "life" => Life!RevokedIsRefused

\* The keys serve: with the runbook followed, no agent refuses a job the platform signed for
\* it, whatever rotation is under way (JobSigner and Verifier.Verify), and none leaves unsigned
\* when a signature is required (build_job_envelope); and whoever dies or overwrites whose
\* metadata, a registered version has its key file (KeyManager.create).
KeysServe ==
    /\ part = "runbook" => Ops!SignedJobsAccepted /\ Ops!NoDowngrade
    /\ part = "plain" => Plain!SignedJobsAccepted
    /\ part = "race" => Race!RegisteredHasKey

\* A deployment the database shows as applied was committed by the agent, whatever was lost,
\* repeated or rolled back meanwhile (_apply_policy_report, agent.go).
AppliedIsReal == part = "roll" => Roll!AppliedIsReal
=============================================================================
