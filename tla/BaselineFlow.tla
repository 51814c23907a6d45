------------------------------ MODULE BaselineFlow ------------------------------
(***************************************************************************)
(* One baseline from draft to the fleet. Versions are written, submitted,  *)
(* approved by someone else, published and rolled back by requests that    *)
(* check a row they loaded and commit later; each publication sends an     *)
(* event, and the compliance engine answers it by rewriting the effective  *)
(* baseline of every agent, one row after another, from the list of        *)
(* published versions it read first. A starting engine fills in missing    *)
(* rows while its consumer already runs.                                   *)
(***************************************************************************)
EXTENDS Naturals, Sequences, FiniteSets

CONSTANTS Users, Sessions, Agents,
          Threads,      \* consumers and start-up passes of the compliance engine
          Ops,          \* which of "move", "restart", "crash", "drop" may happen
          Serial,       \* whether requests run one at a time
          MaxVersions, MaxPublishes,
          MaxLosses     \* recomputations that fail

VARIABLES ver,      \* baseline_versions, by number
          txn,      \* the request each session has under way
          events,   \* COMPLIANCE_BASELINE_PUBLISHED messages not acknowledged
          sent,     \* publications and rollbacks committed
          inScope,  \* whether the agent's attributes match the scope selector
          eff,      \* baseline_effective, as the versions merged; {}: no row
          work,     \* the pass over the agents each thread is making
          losses

vars == <<ver, txn, events, sent, inScope, eff, work, losses>>
store == <<ver, txn, sent>>
engine == <<eff, work>>

Idle == [op |-> "idle"]
NoRow == {}

Init ==
    /\ \E u \in Users : ver = <<[status |-> "DRAFT", by |-> u, ok |-> "none"]>>
    /\ txn = [s \in Sessions |-> Idle]
    /\ events = {}
    /\ sent = 0
    /\ inScope = [a \in Agents |-> TRUE]
    /\ eff = [a \in Agents |-> NoRow]
    /\ work = [t \in Threads |-> Idle]
    /\ losses = 0

Published == {v \in DOMAIN ver : ver[v].status = "PUBLISHED"}
-----------------------------------------------------------------------------
(* Requests.                                                                *)

\* max(version) + 1; the unique constraint lets one of two equal numbers in.
CreateVersion(u) ==
    /\ Len(ver) < MaxVersions
    /\ ver' = Append(ver, [status |-> "DRAFT", by |-> u, ok |-> "none"])
    /\ UNCHANGED <<txn, events, sent, inScope, engine, losses>>

Begin(s, t) ==
    /\ txn[s] = Idle
    /\ Serial => \A o \in Sessions : txn[o] = Idle
    /\ txn' = [txn EXCEPT ![s] = t]
    /\ UNCHANGED <<ver, events, sent, inScope, engine, losses>>

Submit(s, v) ==
    /\ ver[v].status = "DRAFT"
    /\ Begin(s, [op |-> "submit", v |-> v])

Approve(s, v, u) ==
    /\ ver[v].status = "PENDING_APPROVAL"
    /\ u # ver[v].by
    /\ Begin(s, [op |-> "approve", v |-> v, u |-> u])

\* scalar_one_or_none: the request fails when two versions are PUBLISHED.
CurrentVersion(s, v) ==
    /\ sent < MaxPublishes
    /\ Cardinality(Published) <= 1
    /\ Begin(s, [op |-> "publish", v |-> v, current |-> Published])

Publish(s, v) ==
    /\ ver[v].status = "APPROVED"
    /\ CurrentVersion(s, v)

Rollback(s, v) ==
    /\ ver[v].status = "DEPRECATED"
    /\ CurrentVersion(s, v)

SubmitCommit(s) ==
    /\ txn[s].op = "submit"
    /\ ver' = [ver EXCEPT ![txn[s].v].status = "PENDING_APPROVAL"]
    /\ txn' = [txn EXCEPT ![s] = Idle]
    /\ UNCHANGED <<events, sent, inScope, engine, losses>>

ApproveCommit(s) ==
    /\ txn[s].op = "approve"
    /\ ver' = [ver EXCEPT ![txn[s].v].status = "APPROVED", ![txn[s].v].ok = txn[s].u]
    /\ txn' = [txn EXCEPT ![s] = Idle]
    /\ UNCHANGED <<events, sent, inScope, engine, losses>>

\* The version found PUBLISHED is deprecated, the target published.
Promoted(t) ==
    [i \in DOMAIN ver |-> [ver[i] EXCEPT !.status =
        IF i = t.v THEN "PUBLISHED" ELSE IF i \in t.current THEN "DEPRECATED" ELSE @]]

PublishCommit(s) ==
    /\ txn[s].op = "publish"
    /\ sent < MaxPublishes
    /\ sent' = sent + 1
    /\ ver' = Promoted(txn[s])
    /\ txn' = [txn EXCEPT ![s] = [op |-> "notify", n |-> sent + 1]]
    /\ UNCHANGED <<events, inScope, engine, losses>>

Notify(s) ==
    /\ txn[s].op = "notify"
    /\ events' = events \cup {txn[s].n}
    /\ txn' = [txn EXCEPT ![s] = Idle]
    /\ UNCHANGED <<ver, sent, inScope, engine, losses>>

\* The process stops, or the publish to NATS fails, after the commit.
NotifyLost(s) ==
    /\ "crash" \in Ops
    /\ txn[s].op = "notify"
    /\ txn' = [txn EXCEPT ![s] = Idle]
    /\ UNCHANGED <<ver, events, sent, inScope, engine, losses>>
-----------------------------------------------------------------------------
(* The compliance engine.                                                   *)

\* Role, environment or category of an agent is changed, once at most.
Move(a) ==
    /\ "move" \in Ops
    /\ inScope[a]
    /\ inScope' = [inScope EXCEPT ![a] = FALSE]
    /\ UNCHANGED <<store, events, engine, losses>>

\* What one agent's row becomes; 0: an empty merged state.
EffectiveFor(a, published) ==
    IF inScope[a] /\ published # {} THEN published ELSE {0}

RecomputeAll(t, n) ==
    /\ work[t] = Idle
    /\ work' = [work EXCEPT ![t] = [op |-> "all", n |-> n, pub |-> Published, todo |-> Agents]]
    /\ UNCHANGED <<store, events, inScope, eff, losses>>

\* Agents that have a row when the pass comes to them are left alone.
ReconcileOnStartup(t) ==
    /\ "restart" \in Ops
    /\ work[t] = Idle
    /\ Published # {}
    /\ \E a \in Agents : eff[a] = NoRow
    /\ work' = [work EXCEPT ![t] = [op |-> "missing", pub |-> Published, todo |-> Agents]]
    /\ UNCHANGED <<store, events, inScope, eff, losses>>

GetBaselineEffective(t, a) ==
    /\ work[t].op = "missing"
    /\ a \in work[t].todo
    /\ work' = [work EXCEPT ![t] =
         IF eff[a] # NoRow THEN [@ EXCEPT !.todo = @ \ {a}]
         ELSE [op |-> "upsert", pub |-> @.pub, todo |-> @.todo, a |-> a]]
    /\ UNCHANGED <<store, events, inScope, eff, losses>>

UpsertBaselineEffective_First(t, a) ==
    /\ \/ work[t].op = "all" /\ a \in work[t].todo
       \/ work[t].op = "upsert" /\ a = work[t].a
    /\ eff' = [eff EXCEPT ![a] = IF @ = NoRow THEN EffectiveFor(a, work[t].pub) ELSE @]

UpsertBaselineEffective(t, a) ==
    /\ \/ work[t].op = "all" /\ a \in work[t].todo
       \/ work[t].op = "upsert" /\ a = work[t].a
    /\ eff' = [eff EXCEPT ![a] = EffectiveFor(a, work[t].pub)]

RecomputeAgent(t, a) ==
    /\ UpsertBaselineEffective(t, a)
    /\ work' = [work EXCEPT ![t] =
         IF @.op = "all" THEN [@ EXCEPT !.todo = @ \ {a}]
         ELSE [op |-> "missing", pub |-> @.pub, todo |-> @.todo \ {a}]]
    /\ UNCHANGED <<store, events, inScope, losses>>

\* The pass is complete; the event that started it is acknowledged.
Finish(t) ==
    /\ work[t].op \in {"all", "missing"}
    /\ work[t].todo = {}
    /\ events' = IF work[t].op = "all" THEN events \ {work[t].n} ELSE events
    /\ work' = [work EXCEPT ![t] = Idle]
    /\ UNCHANGED <<store, inScope, eff, losses>>

\* The pass stops half way; an event is delivered again, five times at most.
Fail(t) ==
    /\ losses < MaxLosses /\ losses' = losses + 1
    /\ work[t] # Idle
    /\ \/ UNCHANGED events
       \/ "drop" \in Ops /\ work[t].op = "all" /\ events' = events \ {work[t].n}
    /\ work' = [work EXCEPT ![t] = Idle]
    /\ UNCHANGED <<store, inScope, eff>>
-----------------------------------------------------------------------------
Commit(s) == SubmitCommit(s) \/ ApproveCommit(s) \/ PublishCommit(s) \/ Notify(s)

Engine(t) ==
    \/ \E n \in events : RecomputeAll(t, n)
    \/ \E a \in Agents : GetBaselineEffective(t, a) \/ RecomputeAgent(t, a)
    \/ Finish(t)

Next ==
    \/ \E u \in Users : CreateVersion(u)
    \/ \E s \in Sessions, v \in DOMAIN ver :
         \/ Submit(s, v) \/ Publish(s, v) \/ Rollback(s, v)
         \/ \E u \in Users : Approve(s, v, u)
    \/ \E s \in Sessions : Commit(s) \/ NotifyLost(s)
    \/ \E a \in Agents : Move(a)
    \/ \E t \in Threads : Engine(t) \/ ReconcileOnStartup(t) \/ Fail(t)

Spec == Init /\ [][Next]_vars

\* Requests finish, and the consumers keep running.
Fairness ==
    /\ \A s \in Sessions : WF_vars(Commit(s))
    /\ \A t \in Threads : WF_vars(Engine(t))
-----------------------------------------------------------------------------

(* approve: "Author cannot approve their own baseline version": nothing     *)
(* becomes or was live on the word of one user.                             *)
FourEyes ==
    \A v \in DOMAIN ver : ver[v].status \in {"APPROVED", "PUBLISHED", "DEPRECATED"}
                          => ver[v].ok \notin {"none", ver[v].by}

(* "fleet-wide invalidation": when publications end, every agent's row is   *)
(* what its attributes and the live version say, with passes that fail half *)
(* way and events delivered again.                                          *)
EffectiveConverges ==
    <>[](Published # {} => \A a \in Agents : eff[a] = EffectiveFor(a, Published))
=============================================================================
