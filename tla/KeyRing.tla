------------------------------- MODULE KeyRing -------------------------------
(***************************************************************************)
(* The key that signs privileged jobs: KeyManager's versions in            *)
(* metadata.json, the admin endpoints that stage, activate, retire and     *)
(* rotate them, the signer every process builds on first use, and the      *)
(* agents, which learn the public keys when they are installed.            *)
(*                                                                         *)
(* KeyManager reads the metadata, changes its copy and replaces the file.  *)
(* Its lock belongs to one object and the API runs as several processes,   *)
(* so steps of two processes interleave between the read and the write.    *)
(***************************************************************************)
EXTENDS Naturals, FiniteSets

CONSTANTS Procs,      \* processes of the control plane
          Agents,
          MaxVersion,
          MaxKeys,    \* generated keys
          Serial,     \* whether key operations run one at a time
          Runbook,    \* whether operators follow JOB_SIGNING_ROTATION.md
          Playbook,   \* whether something besides install.sh writes agent.yaml
          Required,   \* JOB_SIGNING_REQUIRED
          Faults, MaxFaults

VARIABLES meta,      \* metadata.json: the state of each version
          file,      \* the key in each version's file; 0: no file
          keys,      \* keys generated so far; key 1 is the legacy one
          legacy,    \* whether the legacy key file is readable
          req,       \* the key operation each process has under way
          ready,     \* each process's signer: "no", "yes" or "failed"
          cache,     \* key material each process has loaded
          agent,     \* [enrolled, yaml, pub]: signing_pub_keys and signing_pub.b64
          flight,    \* envelopes on their way
          rejected,  \* an agent refused an envelope
          unsigned,  \* a privileged job left without an envelope
          faults

vars == <<meta, file, keys, legacy, req, ready, cache, agent, flight, rejected, unsigned, faults>>
signing == <<ready, cache, agent, flight, rejected, unsigned>>

Versions == 1..MaxVersion
NoKeys   == [v \in Versions |-> 0]
Idle     == [op |-> "idle", at |-> "idle", v |-> 1, seen |-> [v \in Versions |-> "none"]]

Init ==
    /\ meta = [v \in Versions |-> "none"]
    /\ file = NoKeys
    /\ keys = 1
    /\ legacy = TRUE
    /\ req = [p \in Procs |-> Idle]
    /\ ready = [p \in Procs |-> "no"]
    /\ cache = [p \in Procs |-> NoKeys]
    /\ agent = [a \in Agents |-> [enrolled |-> FALSE, yaml |-> NoKeys, pub |-> 0]]
    /\ flight = {}
    /\ rejected = FALSE
    /\ unsigned = FALSE
    /\ faults = 0

-----------------------------------------------------------------------------
(* KeyManager. *)

ActiveSet(m) == {v \in Versions : m[v] = "ACTIVE"}

\* active_version; 0 when there is none.
ActiveVersion(m) == IF ActiveSet(m) = {} THEN 0 ELSE CHOOSE v \in ActiveSet(m) : TRUE

Verifiable(v) == meta[v] \in {"ACTIVE", "VERIFY_ONLY"}

Quiet(p) == req[p].op = "idle" /\ (Serial => \A q \in Procs : req[q].op = "idle")

Begin(p, op, at, v) == req' = [req EXCEPT ![p] = [Idle EXCEPT !.op = op, !.at = at, !.v = v]]

\* rotate and stage: one above the active version.
NextVersion == ActiveVersion(meta) + 1

\* create reads the metadata, refuses a version it lists, and writes the key file.
CreateRead(p) ==
    LET r == req[p] IN
    /\ r.at = "create" /\ meta[r.v] = "none" /\ keys < MaxKeys
    /\ req' = [req EXCEPT ![p].at = "created", ![p].seen = meta]
    /\ keys' = keys + 1
    /\ file' = [file EXCEPT ![r.v] = keys + 1]
    /\ UNCHANGED <<meta, legacy, signing, faults>>

\* KMSError_Duplicate: the request fails, and so does a signer that was starting.
CreateDuplicate(p) ==
    LET r == req[p] IN
    /\ r.at = "create" /\ meta[r.v] # "none"
    /\ req' = [req EXCEPT ![p] = Idle]
    /\ ready' = [ready EXCEPT ![p] = IF r.op = "boot" THEN "failed" ELSE @]
    /\ UNCHANGED <<meta, file, keys, legacy, cache, agent, flight, rejected, unsigned, faults>>

CreateWrite(p) ==
    LET r == req[p] IN
    /\ r.at = "created"
    /\ meta' = [r.seen EXCEPT ![r.v] = "VERIFY_ONLY"]
    /\ req' = [req EXCEPT ![p] = IF r.op = "stage" THEN Idle ELSE [@ EXCEPT !.at = "activate"]]
    /\ UNCHANGED <<file, keys, legacy, signing, faults>>

ActivateRead(p) ==
    /\ req[p].at = "activate" /\ meta[req[p].v] # "none"
    /\ req' = [req EXCEPT ![p].at = "activated", ![p].seen = meta]
    /\ UNCHANGED <<meta, file, keys, legacy, signing, faults>>

\* The old ACTIVE version demotes.
Activated(m, v) == [w \in Versions |-> IF w = v THEN "ACTIVE" ELSE IF m[w] = "ACTIVE" THEN "VERIFY_ONLY" ELSE m[w]]

ActivateWrite(p) ==
    LET r == req[p] IN
    /\ r.at = "activated"
    /\ meta' = Activated(r.seen, r.v)
    /\ req' = [req EXCEPT ![p] = Idle]
    /\ ready' = [ready EXCEPT ![p] = IF r.op = "boot" THEN "yes" ELSE @]
    /\ UNCHANGED <<file, keys, legacy, cache, agent, flight, rejected, unsigned, faults>>

RetireRead(p) ==
    /\ req[p].at = "retire" /\ meta[req[p].v] # "none"
    /\ req' = [req EXCEPT ![p].at = "retired", ![p].seen = meta]
    /\ UNCHANGED <<meta, file, keys, legacy, signing, faults>>

RetireWrite(p) ==
    LET r == req[p] IN
    /\ r.at = "retired"
    /\ meta' = [r.seen EXCEPT ![r.v] = "RETIRED"]
    /\ req' = [req EXCEPT ![p] = Idle]
    /\ UNCHANGED <<file, keys, legacy, signing, faults>>

\* KeyNotFound: another process's write has taken the version away.
VersionGone(p) ==
    /\ req[p].at \in {"activate", "retire"} /\ meta[req[p].v] = "none"
    /\ req' = [req EXCEPT ![p] = Idle]
    /\ ready' = [ready EXCEPT ![p] = IF req[p].op = "boot" THEN "failed" ELSE @]
    /\ UNCHANGED <<meta, file, keys, legacy, cache, agent, flight, rejected, unsigned, faults>>

-----------------------------------------------------------------------------
(* Agents' trust. *)

\* initVerifier: version 1 falls back to signing_pub.b64.
Trusted(a) == [v \in Versions |-> IF v = 1 /\ agent[a].yaml[1] = 0 THEN agent[a].pub ELSE agent[a].yaml[v]]

Enrolled == {a \in Agents : agent[a].enrolled}

-----------------------------------------------------------------------------
(* The admin endpoints. *)

\* stage_kms_key_version.
Stage(p) ==
    LET v == NextVersion IN
    /\ Quiet(p) /\ v \in Versions
    /\ Begin(p, "stage", "create", v)
    /\ UNCHANGED <<meta, file, keys, legacy, signing, faults>>

\* rotate_kms_key; the runbook keeps it for a platform without agents.
Rotate(p) ==
    LET v == NextVersion IN
    /\ Quiet(p) /\ v \in Versions
    /\ Runbook => Enrolled = {}
    /\ Begin(p, "rotate", "create", v)
    /\ UNCHANGED <<meta, file, keys, legacy, signing, faults>>

\* Mutant: the version is activated before the agents have it.
MayActivate_Early(v) == meta[v] = "VERIFY_ONLY"

\* rotate-job-signing-key.sh activate: the newest VERIFY_ONLY version, once
\* every agent lists it.
MayActivate(v) ==
    /\ meta[v] = "VERIFY_ONLY" /\ \A w \in Versions : meta[w] = "VERIFY_ONLY" => w <= v
    /\ \A a \in Enrolled : Trusted(a)[v] # 0

\* set_kms_key_version_state with ACTIVE.
AskActivate(p, v) ==
    /\ Quiet(p) /\ meta[v] # "none"
    /\ Runbook => MayActivate(v)
    /\ Begin(p, "activate", "activate", v)
    /\ UNCHANGED <<meta, file, keys, legacy, signing, faults>>

\* Step 7 of the runbook: the old version, once every agent accepts the new one
\* and no job signed with the old one is on its way.
MayRetire(v) ==
    /\ ActiveVersion(meta) # 0
    /\ v < ActiveVersion(meta) \/ meta[v] = "VERIFY_ONLY"
    /\ \A a \in Enrolled : Trusted(a)[ActiveVersion(meta)] # 0
    /\ \A e \in flight : e.v # v

\* set_kms_key_version_state with RETIRED: refused for the version found active.
AskRetire(p, v) ==
    /\ Quiet(p) /\ meta[v] # "none"
    /\ v # ActiveVersion(meta)
    /\ Runbook => MayRetire(v)
    /\ Begin(p, "retire", "retire", v)
    /\ UNCHANGED <<meta, file, keys, legacy, signing, faults>>

-----------------------------------------------------------------------------
(* Signing and distribution. *)

\* _get_signer with a version registered: the signer is built at once.
BootReady(p) ==
    /\ ready[p] = "no" /\ Quiet(p) /\ legacy
    /\ ActiveVersion(meta) # 0 \/ meta[1] # "none"
    /\ ready' = [ready EXCEPT ![p] = "yes"]
    /\ UNCHANGED <<meta, file, keys, legacy, req, cache, agent, flight, rejected, unsigned, faults>>

\* _bootstrap_versioned_key: version 1 from the legacy file.
BootFirst(p) ==
    /\ ready[p] = "no" /\ Quiet(p) /\ legacy
    /\ ActiveVersion(meta) = 0 /\ meta[1] = "none"
    /\ Begin(p, "boot", "create", 1)
    /\ UNCHANGED <<meta, file, keys, legacy, signing, faults>>

\* _SIGNER_RETRY_SECONDS have passed.
BootRetry(p) ==
    /\ ready[p] = "failed"
    /\ ready' = [ready EXCEPT ![p] = "no"]
    /\ UNCHANGED <<meta, file, keys, legacy, req, cache, agent, flight, rejected, unsigned, faults>>

\* _path_for: version 1 is always the legacy file.
OnDisk(v) == IF v = 1 THEN 1 ELSE file[v]

\* FileSigningProvider: cached material, else the file.
Material(p, v) == IF cache[p][v] # 0 THEN cache[p][v] ELSE OnDisk(v)

\* JobSigner.sign: the envelope carries the version that signed it.
Envelope(a, v, k) == [a |-> a, v |-> v, key |-> k]

\* signing_required: whether a job that cannot be signed is sent as it is.
MaySendPlain == ~Required

\* maybe_attach_envelope with the ACTIVE version.
SignJob(p, a) ==
    LET v == ActiveVersion(meta) IN
    /\ req[p].op = "idle" /\ ready[p] = "yes" /\ legacy /\ v # 0 /\ agent[a].enrolled
    /\ flight = {}
    /\ flight' = {Envelope(a, v, Material(p, v))}
    /\ cache' = [cache EXCEPT ![p][v] = Material(p, v)]
    /\ UNCHANGED <<meta, file, keys, legacy, req, ready, agent, rejected, unsigned, faults>>

\* No usable signer, or no key file: the job is held, or sent without an envelope.
SendPlain(p, a) ==
    /\ req[p].op = "idle" /\ agent[a].enrolled
    /\ ready[p] = "failed" \/ ~legacy
    /\ MaySendPlain
    /\ unsigned' = TRUE
    /\ UNCHANGED <<meta, file, keys, legacy, req, ready, cache, agent, flight, rejected, faults>>

\* Verifier.Verify against the keys the agent was installed with.
Deliver(e) ==
    /\ flight' = flight \ {e}
    /\ rejected' = (rejected \/ Trusted(e.a)[e.v] # e.key)
    /\ UNCHANGED <<meta, file, keys, legacy, req, ready, cache, agent, unsigned, faults>>

\* public_keys: ACTIVE and VERIFY_ONLY.
Servable(v) == Verifiable(v)

\* GET /agent/signing-keys and what the installer makes of it.  install.sh only
\* gets there when /agents/register accepts the host name, which it does once.
Install(p, a) ==
    LET served == [v \in Versions |-> IF Servable(v) THEN Material(p, v) ELSE 0]
        yaml   == IF served = NoKeys THEN [NoKeys EXCEPT ![1] = 1] ELSE served
    IN
    /\ req[p].op = "idle" /\ ready[p] = "yes"
    /\ Playbook \/ ~agent[a].enrolled
    /\ Runbook => \A q \in Procs : req[q].op # "rotate"
    /\ agent' = [agent EXCEPT ![a] =
          [enrolled |-> TRUE, yaml |-> yaml, pub |-> IF yaml[1] # 0 THEN yaml[1] ELSE @.pub]]
    /\ cache' = [cache EXCEPT ![p] = [v \in Versions |-> IF served[v] # 0 THEN served[v] ELSE @[v]]]
    /\ UNCHANGED <<meta, file, keys, legacy, req, ready, flight, rejected, unsigned, faults>>

-----------------------------------------------------------------------------
(* Faults. *)

\* A process dies between two steps.
Crash(p) ==
    /\ "crash" \in Faults /\ faults < MaxFaults /\ faults' = faults + 1
    /\ req' = [req EXCEPT ![p] = Idle]
    /\ ready' = [ready EXCEPT ![p] = "no"]
    /\ cache' = [cache EXCEPT ![p] = NoKeys]
    /\ UNCHANGED <<meta, file, keys, legacy, agent, flight, rejected, unsigned>>

\* The legacy key file is unreadable for a while.
KeyFile ==
    /\ \/ legacy /\ "file" \in Faults /\ faults < MaxFaults /\ legacy' = FALSE /\ faults' = faults + 1
       \/ ~legacy /\ legacy' = TRUE /\ UNCHANGED faults
    /\ UNCHANGED <<meta, file, keys, req, signing>>

-----------------------------------------------------------------------------

Step(p) ==
    \/ CreateRead(p) \/ CreateDuplicate(p) \/ CreateWrite(p) \/ ActivateRead(p) \/ ActivateWrite(p)
    \/ RetireRead(p) \/ RetireWrite(p) \/ VersionGone(p)

Boot(p) == BootReady(p) \/ BootFirst(p) \/ BootRetry(p)

Delivery == \E e \in flight : Deliver(e)

Operator(p) == Stage(p) \/ Rotate(p) \/ \E v \in Versions : AskActivate(p, v) \/ AskRetire(p, v)

Next ==
    \/ \E p \in Procs : Step(p) \/ Boot(p) \/ Operator(p) \/ Crash(p)
    \/ \E p \in Procs, a \in Agents : SignJob(p, a) \/ SendPlain(p, a) \/ Install(p, a)
    \/ Delivery \/ KeyFile

Spec == Init /\ [][Next]_vars

-----------------------------------------------------------------------------

\* A version that is registered has its key file: create writes the key before the
\* metadata, and nothing removes a key.
RegisteredHasKey == \A v \in Versions : meta[v] # "none" => file[v] # 0

\* An agent never refuses a job the platform signed for it, whatever rotation
\* is under way.
SignedJobsAccepted == ~rejected

\* With JOB_SIGNING_REQUIRED no privileged job leaves unsigned, whether the key
\* file is gone, the signer failed to start or no version is ACTIVE.
NoDowngrade == Required => ~unsigned
=============================================================================
