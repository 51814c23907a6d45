--------------------------- MODULE IncidentFlow ---------------------------
(***************************************************************************)
(* Signals, incidents and their alerts.  Detections upsert a signal,       *)
(* recoveries and operators resolve it; the correlation worker turns       *)
(* signals into candidates and each candidate opens an incident or joins   *)
(* the open one of its group; operators and a sweeper move incidents       *)
(* through their lifecycle; opening one raises an alert and resolving it   *)
(* resolves that alert.                                                    *)
(*                                                                         *)
(* Every request, message handler and pass of the sweeper is a session     *)
(* that reads, decides and commits, and sessions interleave: the handlers  *)
(* are coroutines with one database session each, and operators and        *)
(* replicas run beside them.  One host: all signals of an instance are its *)
(* signals, and all its groups (rules) share the incident type, so they    *)
(* share the alert key (agent_id, alert_type).                             *)
(***************************************************************************)
EXTENDS Integers, Sequences, FiniteSets

CONSTANTS
    Types,      \* signal types of the host; one row of signals each
    Groups,     \* group keys: one per correlation rule
    Sessions,   \* concurrent requests and handlers
    Kinds,      \* the kinds of session that run
    SweepLimit, \* _SWEEP_BATCH: incidents one pass of the sweeper looks at
    MaxIncidents, MaxClock, MaxCrash \* bounds on the history

VARIABLES
    sig,     \* signals: status, last_seen, and whether the quiet period has passed since
    inc,     \* incidents in order of creation: group, status, linked signals
    order,   \* their indices by updated_at, least recent first
    alert,   \* alerts: status, incident_id (0 is NULL); of is the incident it was raised for
    sess,    \* what each session is doing
    mail,    \* SIGNAL_RESOLVED messages on the bus
    clock,
    crashes

vars == <<sig, inc, order, alert, sess, mail, clock, crashes>>

OpenStatuses == {"OPEN", "ACKNOWLEDGED", "IN_PROGRESS"}

\* lifecycle.TRANSITIONS.
Transitions == {<<"OPEN", "ACKNOWLEDGED">>, <<"OPEN", "IN_PROGRESS">>, <<"OPEN", "RESOLVED">>,
                <<"ACKNOWLEDGED", "IN_PROGRESS">>, <<"ACKNOWLEDGED", "RESOLVED">>,
                <<"IN_PROGRESS", "RESOLVED">>, <<"RESOLVED", "CLOSED">>, <<"RESOLVED", "OPEN">>}

IdleSession == [kind |-> "none", pc |-> "idle", inc |-> 0, group |-> CHOOSE g \in Groups : TRUE,
                types |-> {}, target |-> "OPEN", stamp |-> 0, todo |-> {}]

Init ==
    /\ sig = [t \in Types |-> [status |-> "NONE", last |-> 0, quiet |-> FALSE]]
    /\ inc = << >> /\ order = << >> /\ alert = << >>
    /\ sess = [s \in Sessions |-> IdleSession]
    /\ mail = {} /\ clock = 0 /\ crashes = 0

Idle(s, k) == sess[s].pc = "idle" /\ k \in Kinds
At(s, k, pc) == sess[s].kind = k /\ sess[s].pc = pc
End(s) == sess' = [sess EXCEPT ![s] = IdleSession]

IsOpen(i) == inc[i].status \in OpenStatuses

OpenOf(g) == {i \in DOMAIN inc : inc[i].group = g /\ inc[i].status \in OpenStatuses}

\* Mutant: there is no uq_incident_open_group.
BreaksIndexNever(i, status) == FALSE

\* uq_incident_open_group (migration 049): writing this status to incident i would give its
\* group a second open incident, and the database refuses it.
BreaksIndex(i, status) ==
    status \in OpenStatuses /\ OpenOf(inc[i].group) \ {i} # {}

------------------------------------------------------------------------------
(* Signals.                                                                *)

\* upsert_signal: one INSERT ... ON CONFLICT DO UPDATE that opens the row whatever it was.
UpsertSignal(t) ==
    /\ clock < MaxClock
    /\ clock' = clock + 1
    /\ sig' = [sig EXCEPT ![t] = [status |-> "OPEN", last |-> clock + 1, quiet |-> FALSE]]
    /\ UNCHANGED <<inc, order, alert, sess, mail, crashes>>

\* INCIDENT_AUTO_RESOLVE_QUIET_SEC pass without an occurrence.
Quieten(t) ==
    /\ sig[t].status # "NONE" /\ ~sig[t].quiet
    /\ sig' = [sig EXCEPT ![t].quiet = TRUE]
    /\ UNCHANGED <<inc, order, alert, sess, mail, clock, crashes>>

\* A host.heartbeat.ok stamped now begins its way to resolve_by_fingerprint.
RecoveryEmit(s, t) ==
    /\ Idle(s, "recovery") /\ sig[t].status # "NONE"
    /\ sess' = [sess EXCEPT ![s] = [IdleSession EXCEPT !.kind = "recovery", !.pc = "load",
                                                       !.types = {t}, !.stamp = clock]]
    /\ UNCHANGED <<sig, inc, order, alert, mail, clock, crashes>>

\* The SELECT ... status = 'OPEN', and the recovery older than last_seen that is ignored.
RecoveryLoad(s) ==
    /\ At(s, "recovery", "load")
    /\ \E t \in sess[s].types :
          sess' = [sess EXCEPT ![s] = IF sig[t].status = "OPEN" /\ sess[s].stamp >= sig[t].last
                                      THEN [@ EXCEPT !.pc = "commit"] ELSE IdleSession]
    /\ UNCHANGED <<sig, inc, order, alert, mail, clock, crashes>>

\* UPDATE ... WHERE id = row.id, the commit and SIGNAL_RESOLVED.
RecoveryCommit(s) ==
    /\ At(s, "recovery", "commit")
    /\ \E t \in sess[s].types : /\ sig' = [sig EXCEPT ![t].status = "RESOLVED"]
                                /\ mail' = mail \cup {t}
    /\ End(s)
    /\ UNCHANGED <<inc, order, alert, clock, crashes>>

\* POST /signals/{id}/resolve: the status is flushed and SIGNAL_RESOLVED published; the request
\* commits when it ends.
ResolveSignal(s, t) ==
    /\ Idle(s, "signal") /\ sig[t].status # "NONE"
    /\ mail' = mail \cup {t}
    /\ sess' = [sess EXCEPT ![s] = [IdleSession EXCEPT !.kind = "signal", !.pc = "commit", !.types = {t}]]
    /\ UNCHANGED <<sig, inc, order, alert, clock, crashes>>

ResolveSignalCommit(s) ==
    /\ At(s, "signal", "commit")
    /\ sig' = [t \in Types |-> IF t \in sess[s].types THEN [sig[t] EXCEPT !.status = "RESOLVED"] ELSE sig[t]]
    /\ End(s)
    /\ UNCHANGED <<inc, order, alert, mail, clock, crashes>>

\* POST /signals/{id}/suppress.
SuppressSignal(t) ==
    /\ "suppress" \in Kinds /\ sig[t].status # "NONE"
    /\ sig' = [sig EXCEPT ![t].status = "SUPPRESSED"]
    /\ UNCHANGED <<inc, order, alert, sess, mail, clock, crashes>>

------------------------------------------------------------------------------
(* Opening incidents.                                                      *)

\* open_from_candidate: the member signals that are not RESOLVED, then the group's open incident.
\* The set_nx lock in front is taken and its answer ignored.
OpenLoad(s, g, members) ==
    /\ Idle(s, "open")
    /\ \E t \in members : sig[t].status # "NONE"
    /\ OpenOf(g) = {} => Len(inc) < MaxIncidents
    /\ LET rows == {t \in members : sig[t].status \notin {"NONE", "RESOLVED"}} IN
       sess' = [sess EXCEPT ![s] = [IdleSession EXCEPT
                  !.kind = "open", !.group = g, !.types = rows,
                  !.pc = IF OpenOf(g) = {} THEN "insert" ELSE "attach",
                  !.inc = IF OpenOf(g) = {} THEN 0 ELSE CHOOSE i \in OpenOf(g) : TRUE]]
    /\ UNCHANGED <<sig, inc, order, alert, mail, clock, crashes>>

\* _attach_to_existing: links ON CONFLICT DO NOTHING, timeline, commit.
AttachToExisting(s) ==
    /\ At(s, "open", "attach")
    /\ inc' = [inc EXCEPT ![sess[s].inc].links = @ \cup sess[s].types]
    /\ End(s)
    /\ UNCHANGED <<sig, order, alert, mail, clock, crashes>>

\* The INSERT is refused by uq_incident_open_group: attach to the incident that won.
OpenLost(s) ==
    /\ At(s, "open", "insert") /\ OpenOf(sess[s].group) # {}
    /\ sess' = [sess EXCEPT ![s].pc = "attach", ![s].inc = CHOOSE i \in OpenOf(sess[s].group) : TRUE]
    /\ UNCHANGED <<sig, inc, order, alert, mail, clock, crashes>>

\* ON CONFLICT DO NOTHING on uq_alerts_active_agent_type: no second ACTIVE alert of the key.
RaiseAlert(i) ==
    IF \E a \in DOMAIN alert : alert[a].status = "ACTIVE" THEN alert
    ELSE Append(alert, [status |-> "ACTIVE", inc |-> 0, of |-> i])

\* The INSERT succeeds.  create_alert, a few lines below, commits the incident, its links and
\* the alert before the alert knows the incident.
OpenInsert(s) ==
    /\ At(s, "open", "insert") /\ OpenOf(sess[s].group) = {} /\ Len(inc) < MaxIncidents
    /\ inc' = Append(inc, [group |-> sess[s].group, status |-> "OPEN", links |-> sess[s].types])
    /\ order' = Append(order, Len(inc) + 1)
    /\ alert' = RaiseAlert(Len(inc) + 1)
    /\ IF alert' = alert THEN End(s)
       ELSE sess' = [sess EXCEPT ![s].pc = "link", ![s].inc = Len(inc) + 1]
    /\ UNCHANGED <<sig, mail, clock, crashes>>

\* alert.incident_id = incident.id and the second commit.
LinkAlert(s) ==
    /\ At(s, "open", "link")
    /\ alert' = [a \in DOMAIN alert |-> IF alert[a].of = sess[s].inc
                                        THEN [alert[a] EXCEPT !.inc = sess[s].inc] ELSE alert[a]]
    /\ End(s)
    /\ UNCHANGED <<sig, inc, order, mail, clock, crashes>>

------------------------------------------------------------------------------
(* The lifecycle.                                                          *)

\* ack, resolve or reopen loads the incident and checks the transition.
TransitionLoad(s, i, target) ==
    /\ Idle(s, "operator") /\ i \in DOMAIN inc
    /\ <<inc[i].status, target>> \in Transitions
    /\ sess' = [sess EXCEPT ![s] = [IdleSession EXCEPT !.kind = "operator", !.pc = "commit",
                                                       !.inc = i, !.target = target]]
    /\ UNCHANGED <<sig, inc, order, alert, mail, clock, crashes>>

\* _transition to RESOLVED resolves the alerts that carry the incident's id.
AlertsAfter(i, target) ==
    [a \in DOMAIN alert |-> IF target = "RESOLVED" /\ alert[a].inc = i
                            THEN [alert[a] EXCEPT !.status = "RESOLVED"] ELSE alert[a]]

\* _transition sets updated_at.
Touch(i) == order' = Append(SelectSeq(order, LAMBDA j : j # i), i)

\* The commit of _transition; the unique index may refuse it.
TransitionCommit(s) ==
    /\ At(s, "operator", "commit")
    /\ IF BreaksIndex(sess[s].inc, sess[s].target) THEN UNCHANGED <<inc, order, alert>>
       ELSE /\ inc' = [inc EXCEPT ![sess[s].inc].status = sess[s].target]
            /\ Touch(sess[s].inc)
            /\ alert' = AlertsAfter(sess[s].inc, sess[s].target)
    /\ End(s)
    /\ UNCHANGED <<sig, mail, clock, crashes>>

\* The gate of maybe_auto_resolve.
AllQuiet(i) ==
    /\ inc[i].links # {}
    /\ \A t \in inc[i].links : sig[t].status \in {"RESOLVED", "SUPPRESSED"} /\ sig[t].quiet

Earlier(j, i) == \E m, n \in DOMAIN order : m < n /\ order[m] = j /\ order[n] = i

\* Mutant: ORDER BY updated_at DESC.
Swept_Newest ==
    {i \in DOMAIN inc : /\ IsOpen(i)
                        /\ Cardinality({j \in DOMAIN inc : IsOpen(j) /\ Earlier(i, j)}) < SweepLimit}

\* ORDER BY updated_at LIMIT _SWEEP_BATCH, of the open incidents.
Swept ==
    {i \in DOMAIN inc : /\ IsOpen(i)
                        /\ Cardinality({j \in DOMAIN inc : IsOpen(j) /\ Earlier(j, i)}) < SweepLimit}

\* _sweep loads the incidents of this pass; their statuses stay as they are read now.
SweepLoad(s) ==
    /\ Idle(s, "sweep") /\ Swept # {}
    /\ sess' = [sess EXCEPT ![s] = [IdleSession EXCEPT !.kind = "sweep", !.pc = "pass", !.todo = Swept]]
    /\ UNCHANGED <<sig, inc, order, alert, mail, clock, crashes>>

\* The pass goes on with the rest, or is over.
GoOn(s, rest) ==
    sess' = [sess EXCEPT ![s] = IF rest = {} THEN IdleSession
                                ELSE [IdleSession EXCEPT !.kind = "sweep", !.pc = "pass", !.todo = rest]]

\* maybe_auto_resolve of the next one reads its links and its signals.
AutoLoad(s, i) ==
    /\ At(s, "sweep", "pass") /\ i \in sess[s].todo
    /\ IF AllQuiet(i)
       THEN sess' = [sess EXCEPT ![s].pc = "commit", ![s].inc = i, ![s].todo = @ \ {i}]
       ELSE GoOn(s, sess[s].todo \ {i})
    /\ UNCHANGED <<sig, inc, order, alert, mail, clock, crashes>>

\* The watcher handles SIGNAL_RESOLVED for one of the signal's incidents, or finds nothing to do.
Watch(s, t) ==
    /\ Idle(s, "sweep") /\ t \in mail
    /\ mail' = mail \ {t}
    /\ LET due == {i \in DOMAIN inc : t \in inc[i].links /\ inc[i].status \in OpenStatuses /\ AllQuiet(i)} IN
       IF due = {} THEN UNCHANGED sess
       ELSE \E i \in due : sess' = [sess EXCEPT ![s] = [IdleSession EXCEPT !.kind = "sweep", !.pc = "commit", !.inc = i]]
    /\ UNCHANGED <<sig, inc, order, alert, clock, crashes>>

\* _transition to RESOLVED with the status maybe_auto_resolve has loaded.
AutoCommit(s) ==
    /\ At(s, "sweep", "commit")
    /\ inc' = [inc EXCEPT ![sess[s].inc].status = "RESOLVED"]
    /\ Touch(sess[s].inc)
    /\ alert' = AlertsAfter(sess[s].inc, "RESOLVED")
    /\ GoOn(s, sess[s].todo)
    /\ UNCHANGED <<sig, mail, clock, crashes>>

\* The process dies: the session's open transaction is rolled back.
Crash(s) ==
    /\ crashes < MaxCrash /\ sess[s].pc # "idle"
    /\ crashes' = crashes + 1
    /\ End(s)
    /\ UNCHANGED <<sig, inc, order, alert, mail, clock>>

\* NATS core delivers at most once.
LoseMail(t) ==
    /\ t \in mail /\ mail' = mail \ {t}
    /\ UNCHANGED <<sig, inc, order, alert, sess, clock, crashes>>

Next ==
    \/ \E t \in Types : UpsertSignal(t) \/ Quieten(t) \/ SuppressSignal(t) \/ LoseMail(t)
    \/ \E s \in Sessions :
          \/ \E t \in Types : RecoveryEmit(s, t) \/ ResolveSignal(s, t) \/ Watch(s, t)
          \/ RecoveryLoad(s) \/ RecoveryCommit(s) \/ ResolveSignalCommit(s)
          \/ \E g \in Groups, m \in (SUBSET Types) \ {{}} : OpenLoad(s, g, m)
          \/ AttachToExisting(s) \/ OpenLost(s) \/ OpenInsert(s) \/ LinkAlert(s)
          \/ \E i \in 1..MaxIncidents, target \in {"ACKNOWLEDGED", "RESOLVED", "OPEN"} : TransitionLoad(s, i, target)
          \/ SweepLoad(s) \/ \E i \in 1..MaxIncidents : AutoLoad(s, i)
          \/ TransitionCommit(s) \/ AutoCommit(s) \/ Crash(s)

Spec == Init /\ [][Next]_vars

\* Started handlers finish, and a pass of the sweeper begins each minute.
Fairness ==
    /\ \A s \in Sessions : WF_vars(AttachToExisting(s) \/ OpenLost(s) \/ OpenInsert(s) \/ LinkAlert(s)
                                   \/ RecoveryLoad(s) \/ RecoveryCommit(s) \/ ResolveSignalCommit(s)
                                   \/ TransitionCommit(s) \/ AutoCommit(s)
                                   \/ \E i \in 1..MaxIncidents : AutoLoad(s, i))
    /\ SF_vars(\E s \in Sessions : SweepLoad(s))

------------------------------------------------------------------------------

\* A group has one open incident, whatever candidates, reopenings and stale acknowledgements
\* race for it.
OneOpenPerGroup == \A g \in Groups : Cardinality(OpenOf(g)) <= 1

\* One of the SweepLimit least recently updated open incidents, all of whose linked signals
\* are resolved and quiet.
QuietInReach(i) ==
    /\ i \in DOMAIN inc /\ IsOpen(i) /\ AllQuiet(i)
    /\ Cardinality({j \in DOMAIN inc : IsOpen(j) /\ Earlier(j, i)}) < SweepLimit

\* Such an incident is resolved, or something moved: a signal came back, or an operator
\* updated it and others are ahead of it now.
QuietIncidentEnds == \A i \in 1..MaxIncidents : QuietInReach(i) ~> ~QuietInReach(i)

============================================================================
