------------------------------ MODULE DriftWatch ------------------------------
(***************************************************************************)
(* How a deviation on a host becomes an incident, and how an exception     *)
(* waives it. Agents report a hash of each inventory domain with every     *)
(* heartbeat and send the facts themselves only when the server found the  *)
(* hash different from its latest snapshot; the facts travel over          *)
(* JetStream to the compliance engine, which records drift, a snapshot and *)
(* a verdict in one transaction. Exceptions are requested, approved by     *)
(* another user, revoked, and expire.                                      *)
(*                                                                         *)
(* One domain and one rule on it. A host's facts are a member of Values;   *)
(* the rule wants "good", the effective baseline wants `base'.             *)
(***************************************************************************)
EXTENDS Naturals, FiniteSets

CONSTANTS Agents,
          Engines,     \* replicas of the compliance service
          Users, Excs, Sessions,
          Values,
          Scopes,      \* what callers ask exceptions for: agents, "fleet", "selector"
          Selected,    \* agents the selector matches
          Ops,
          Serial,      \* whether approvals and revocations run one at a time
          MaxChanges,  \* changes of hosts and of the baseline
          MaxLosses    \* responses, deliveries and attempts that fail

VARIABLES host,     \* the facts on each host
          want,     \* the agent was asked for its facts (resyncDomains)
          net,      \* snapshots in the stream, until acknowledged
          stored,   \* the latest inventory snapshot; "none": none yet
          base,     \* what the effective baseline expects
          open,     \* open drift_events rows of each agent and comparison
          verdict,  \* the latest rule evaluation; "WAIVED": FAIL with exception_id
          exc,      \* compliance_exceptions
          txn,      \* the approval or revocation each session has under way
          work,     \* the snapshot each engine is ingesting
          changes, losses

vars == <<host, want, net, stored, base, open, verdict, exc, txn, work, changes, losses>>
waivers == <<exc, txn>>
ingest == <<net, stored, open, verdict, work>>

Compared == {"BASELINE", "PREVIOUS_SNAPSHOT"}
Idle     == [op |-> "idle"]
NoExc    == [status |-> "none", by |-> "none", ok |-> "none", scope |-> "fleet", past |-> FALSE]

Init ==
    /\ host = [a \in Agents |-> "good"]
    /\ want = [a \in Agents |-> FALSE]
    /\ net = {}
    /\ stored = [a \in Agents |-> "none"]
    /\ base = "good"
    /\ open = [a \in Agents |-> [c \in Compared |-> 0]]
    /\ verdict = [a \in Agents |-> "none"]
    /\ exc = [e \in Excs |-> NoExc]
    /\ txn = [s \in Sessions |-> Idle]
    /\ work = [g \in Engines |-> Idle]
    /\ changes = 0
    /\ losses = 0

Lose == losses < MaxLosses /\ losses' = losses + 1
-----------------------------------------------------------------------------
(* Delta synchronisation.                                                   *)

HostChanges(a) ==
    /\ changes < MaxChanges /\ changes' = changes + 1
    /\ \E v \in Values \ {host[a]} : host' = [host EXCEPT ![a] = v]
    /\ UNCHANGED <<want, base, losses, waivers, ingest>>

\* A published baseline reaches baseline_effective (RecomputeAll).
BaselineChanges ==
    /\ "baseline" \in Ops
    /\ changes < MaxChanges /\ changes' = changes + 1
    /\ base' \in Values \ {base}
    /\ UNCHANGED <<host, want, losses, waivers, ingest>>

DiffDomainHashes_Missing(a) == stored[a] = "none"
DiffDomainHashes(a) == stored[a] # host[a]

PublishDomainSnapshots(a) == IF want[a] THEN net \cup {[a |-> a, v |-> host[a]]} ELSE net

Heartbeat(a) ==
    /\ net' = PublishDomainSnapshots(a)
    /\ want' = [want EXCEPT ![a] = DiffDomainHashes(a)]
    /\ UNCHANGED <<host, stored, base, open, verdict, work, changes, losses, waivers>>

\* The server handled the heartbeat and the agent never saw the answer.
HeartbeatLost(a) ==
    /\ Lose
    /\ net' = PublishDomainSnapshots(a)
    /\ UNCHANGED <<host, want, stored, base, open, verdict, work, changes, waivers>>
-----------------------------------------------------------------------------
(* Ingest.                                                                  *)

Deviates(m, prev, c) ==
    IF c = "BASELINE" THEN m.v # base ELSE prev \notin {"none", m.v}

\* LatestSnapshotHash and IncrementDriftOccurrence: what this transaction finds.
IngestRead(g, m) ==
    /\ work[g] = Idle
    /\ work' = [work EXCEPT ![g] =
         [op |-> "ingest", m |-> m, prev |-> stored[m.a],
          insert |-> {c \in Compared : Deviates(m, stored[m.a], c) /\ open[m.a][c] = 0}]]
    /\ UNCHANGED <<host, want, net, stored, base, open, verdict, changes, losses, waivers>>

Active(e)    == exc[e].status = "ACTIVE" /\ ~exc[e].past
Covers(e, a) == exc[e].scope \in {a, "fleet"} \/ (exc[e].scope = "selector" /\ a \in Selected)
Waived(a)    == \E e \in Excs : Active(e) /\ Covers(e, a)

Evaluate(a, v) == IF v = "good" THEN "PASS" ELSE IF Waived(a) THEN "WAIVED" ELSE "FAIL"

InsertDrift(w) == w.insert

IngestCommit(g) ==
    /\ work[g].op = "ingest"
    /\ LET w == work[g]  a == w.m.a
       IN  /\ open' = [open EXCEPT ![a] = [c \in Compared |->
                         IF c \in InsertDrift(w) THEN @[c] + 1 ELSE @[c]]]
           /\ stored' = IF w.prev = w.m.v THEN stored ELSE [stored EXCEPT ![a] = w.m.v]
           /\ verdict' = [verdict EXCEPT ![a] = Evaluate(a, w.m.v)]
           /\ net' = net \ {w.m}
    /\ work' = [work EXCEPT ![g] = Idle]
    /\ UNCHANGED <<host, want, base, changes, losses, waivers>>

\* The transaction fails: delivered again, or dropped after MaxDeliver attempts.
IngestFails(g) ==
    /\ work[g].op = "ingest"
    /\ Lose
    /\ net' \in {net, net \ {work[g].m}}
    /\ work' = [work EXCEPT ![g] = Idle]
    /\ UNCHANGED <<host, want, stored, base, open, verdict, changes, waivers>>

\* An operator closes one drift event.
Resolve(a, c) ==
    /\ "resolve" \in Ops
    /\ open[a][c] > 0
    /\ open' = [open EXCEPT ![a][c] = @ - 1]
    /\ UNCHANGED <<host, want, net, stored, base, verdict, work, changes, losses, waivers>>
-----------------------------------------------------------------------------
(* Exceptions.                                                              *)

Begin(s, t) ==
    /\ txn[s] = Idle
    /\ Serial => \A o \in Sessions : txn[o] = Idle
    /\ txn' = [txn EXCEPT ![s] = t]
    /\ UNCHANGED <<host, want, base, exc, changes, losses, ingest>>

Create(e, u, scope) ==
    /\ exc[e] = NoExc
    /\ exc' = [exc EXCEPT ![e] = [NoExc EXCEPT !.status = "PENDING", !.by = u, !.scope = scope]]
    /\ UNCHANGED <<host, want, base, txn, changes, losses, ingest>>

Approve_Own(s, e, u) ==
    /\ exc[e].status = "PENDING"
    /\ ~exc[e].past
    /\ Begin(s, [op |-> "approve", e |-> e, u |-> u])

Approve(s, e, u) ==
    /\ exc[e].status = "PENDING"
    /\ ~exc[e].past
    /\ u # exc[e].by
    /\ Begin(s, [op |-> "approve", e |-> e, u |-> u])

\* By domain, for one agent or the fleet; a selector is not resolved here.
CloseCoveredDrift(e) ==
    [a \in Agents |-> IF exc[e].scope \in {a, "fleet"} THEN [c \in Compared |-> 0] ELSE open[a]]

ApproveCommit(s) ==
    /\ txn[s].op = "approve"
    /\ LET e == txn[s].e
       IN  /\ exc' = [exc EXCEPT ![e].status = "ACTIVE", ![e].ok = txn[s].u]
           /\ open' = CloseCoveredDrift(e)
    /\ txn' = [txn EXCEPT ![s] = Idle]
    /\ UNCHANGED <<host, want, net, stored, base, verdict, work, changes, losses>>

Revoke(s, e) ==
    /\ exc[e].status \in {"PENDING", "ACTIVE"}
    /\ Begin(s, [op |-> "revoke", e |-> e])

RevokeCommit(s) ==
    /\ txn[s].op = "revoke"
    /\ exc' = [exc EXCEPT ![txn[s].e].status = "REVOKED"]
    /\ txn' = [txn EXCEPT ![s] = Idle]
    /\ UNCHANGED <<host, want, base, changes, losses, ingest>>

\* expires_at passes.
TimePasses(e) ==
    /\ exc[e].status # "none" /\ ~exc[e].past
    /\ exc' = [exc EXCEPT ![e].past = TRUE]
    /\ UNCHANGED <<host, want, base, txn, changes, losses, ingest>>

\* One UPDATE of the elected leader.
ExpirePendingExceptions ==
    /\ \E e \in Excs : exc[e].status = "ACTIVE" /\ exc[e].past
    /\ exc' = [e \in Excs |-> IF exc[e].status = "ACTIVE" /\ exc[e].past
                              THEN [exc[e] EXCEPT !.status = "EXPIRED"] ELSE exc[e]]
    /\ UNCHANGED <<host, want, base, txn, changes, losses, ingest>>
-----------------------------------------------------------------------------
Ingest(g) == (\E m \in net : IngestRead(g, m)) \/ IngestCommit(g)

Next ==
    \/ \E a \in Agents :
         \/ HostChanges(a) \/ Heartbeat(a) \/ HeartbeatLost(a)
         \/ \E c \in Compared : Resolve(a, c)
    \/ BaselineChanges
    \/ \E g \in Engines : Ingest(g) \/ IngestFails(g)
    \/ \E e \in Excs :
         \/ TimePasses(e)
         \/ \E u \in Users, scope \in Scopes : Create(e, u, scope)
         \/ \E s \in Sessions : Revoke(s, e) \/ \E u \in Users : Approve(s, e, u)
    \/ \E s \in Sessions : ApproveCommit(s) \/ RevokeCommit(s)
    \/ ExpirePendingExceptions

Spec == Init /\ [][Next]_vars

\* Agents keep sending heartbeats, the engines keep consuming, and the leader's loop runs.
Fairness ==
    /\ \A a \in Agents : WF_vars(Heartbeat(a))
    /\ \A g \in Engines : WF_vars(Ingest(g))
    /\ WF_vars(ExpirePendingExceptions)

FairSpec == Spec /\ Fairness
-----------------------------------------------------------------------------

(* approve: "Requester cannot approve their own exception": nothing is      *)
(* waived on the word of one user, however requests interleave.             *)
FourEyes == \A e \in Excs : exc[e].status \in {"ACTIVE", "EXPIRED"} => exc[e].ok \notin {"none", exc[e].by}

(* Hosts change finitely often: with lost answers, failed deliveries and    *)
(* snapshots that overtake each other, the server ends up with the facts on *)
(* the host.                                                                *)
SyncConverges == <>[](\A a \in Agents : stored[a] = host[a])

(* A host that keeps failing the rule ends up reported as failing it, waived *)
(* or not, and never as passing (evaluateAndRecord).                        *)
FailureShows ==
    <>[](\A a \in Agents : host[a] # "good" => verdict[a] \in {"FAIL", "WAIVED"})

(* storage.ExpirePendingExceptions: "After expiration -> EXCEPTION EXPIRED  *)
(* -> RULE FAIL".  The code evaluates a rule only when the host sends the   *)
(* domain again, and a host that has not changed sends nothing.             *)
ExpiryFails ==
    <>[](\A e \in Excs, a \in Agents :
            exc[e].status = "EXPIRED" /\ Covers(e, a) /\ ~Waived(a) /\ host[a] # "good"
                => verdict[a] = "FAIL")
=============================================================================
