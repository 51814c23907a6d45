------------------------------ MODULE AgentLiveness ------------------------------
(***************************************************************************)
(* Whether an agent is alive, as the platform sees it. Heartbeats make an  *)
(* agent ACTIVE and close its offline alert when it was not; a sweep marks *)
(* agents whose last heartbeat is too old INACTIVE and publishes an event  *)
(* on plain NATS, from which another worker makes an alert. All of them    *)
(* read first and write later.                                             *)
(***************************************************************************)
EXTENDS Naturals

CONSTANTS Agents,
          Ops,         \* which of "lost" (events) and "operator" may happen
          Prompt,      \* whether an event is handled before the next heartbeat
          MaxOutages,  \* how often hosts go down
          MaxLate      \* heartbeats of live hosts that come after the timeout

VARIABLES alive,    \* the host is up and sends heartbeats
          fresh,    \* last_heartbeat is younger than the timeout
          status,   \* agents.status
          beat,     \* the heartbeat being handled, and the status it loaded
          swept,    \* agents the running sweep selected
          event,    \* lokilinux.agent.unhealthy messages under way
          alert,    \* the latest AGENT_OFFLINE alert
          outages, late

vars == <<alive, fresh, status, beat, swept, event, alert, outages, late>>
bounds == <<outages, late>>

Init ==
    /\ alive = [a \in Agents |-> TRUE]
    /\ fresh = [a \in Agents |-> TRUE]
    /\ status = [a \in Agents |-> "ACTIVE"]
    /\ beat = [a \in Agents |-> "none"]
    /\ swept = {}
    /\ event = [a \in Agents |-> FALSE]
    /\ alert = [a \in Agents |-> "none"]
    /\ outages = 0
    /\ late = 0
-----------------------------------------------------------------------------
(* Hosts and time.                                                          *)

GoesDown(a) ==
    /\ alive[a] /\ outages < MaxOutages
    /\ alive' = [alive EXCEPT ![a] = FALSE]
    /\ outages' = outages + 1
    /\ UNCHANGED <<fresh, status, beat, swept, event, alert, late>>

ComesBack(a) ==
    /\ ~alive[a]
    /\ alive' = [alive EXCEPT ![a] = TRUE]
    /\ UNCHANGED <<fresh, status, beat, swept, event, alert, bounds>>

TimePasses(a) ==
    /\ fresh[a]
    /\ fresh' = [fresh EXCEPT ![a] = FALSE]
    /\ \/ ~alive[a] /\ beat[a] = "none" /\ UNCHANGED late
       \/ alive[a] /\ late < MaxLate /\ late' = late + 1
    /\ UNCHANGED <<alive, status, beat, swept, event, alert, outages>>
-----------------------------------------------------------------------------
(* Heartbeats.                                                              *)

HeartbeatLoad(a) ==
    /\ alive[a] /\ beat[a] = "none"
    /\ Prompt => ~event[a]
    /\ beat' = [beat EXCEPT ![a] = status[a]]
    /\ UNCHANGED <<alive, fresh, status, swept, event, alert, bounds>>

ResolveAgentOfflineAlerts(a) ==
    IF alert[a] = "ACTIVE" THEN [alert EXCEPT ![a] = "RESOLVED"] ELSE alert

UpdateHeartbeat_Keeps(a) == fresh' = [fresh EXCEPT ![a] = TRUE] /\ UNCHANGED <<status, alert>>

\* An assignment of the value that was loaded is no column of the UPDATE.
UpdateHeartbeat(a) ==
    /\ fresh' = [fresh EXCEPT ![a] = TRUE]
    /\ \/ beat[a] = "ACTIVE" /\ UNCHANGED <<status, alert>>
       \/ /\ beat[a] # "ACTIVE"
          /\ status' = [status EXCEPT ![a] = "ACTIVE"]
          /\ alert' = ResolveAgentOfflineAlerts(a)

HeartbeatCommit(a) ==
    /\ beat[a] # "none"
    /\ UpdateHeartbeat(a)
    /\ beat' = [beat EXCEPT ![a] = "none"]
    /\ UNCHANGED <<alive, swept, event, bounds>>
-----------------------------------------------------------------------------
(* The sweep and the alert worker.                                          *)

Stale(a) == status[a] = "ACTIVE" /\ ~fresh[a]

SweepSelect ==
    /\ swept = {}
    /\ \E a \in Agents : Stale(a)
    /\ swept' = {a \in Agents : Stale(a)}
    /\ UNCHANGED <<alive, fresh, status, beat, event, alert, bounds>>

\* mark_inactive, then the event; a failed publish is logged and passed over.
SweepMark(a) ==
    /\ a \in swept
    /\ swept' = swept \ {a}
    /\ status' = [status EXCEPT ![a] = "INACTIVE"]
    /\ \/ event' = [event EXCEPT ![a] = TRUE]
       \/ "lost" \in Ops /\ UNCHANGED event
    /\ UNCHANGED <<alive, fresh, beat, alert, bounds>>

\* ON CONFLICT DO NOTHING on an ACTIVE alert of the same type.
CreateAlert(a) == IF alert[a] = "ACTIVE" THEN alert ELSE [alert EXCEPT ![a] = "ACTIVE"]

HandleUnhealthy(a) ==
    /\ event[a]
    /\ event' = [event EXCEPT ![a] = FALSE]
    /\ alert' = CreateAlert(a)
    /\ UNCHANGED <<alive, fresh, status, beat, swept, bounds>>

\* An operator acknowledges the alert, or closes it once the agent is back.
Operator(a) ==
    /\ "operator" \in Ops
    /\ alert[a] = "ACTIVE"
    /\ \/ alert' = [alert EXCEPT ![a] = "ACKNOWLEDGED"]
       \/ status[a] = "ACTIVE" /\ alert' = [alert EXCEPT ![a] = "RESOLVED"]
    /\ UNCHANGED <<alive, fresh, status, beat, swept, event, bounds>>
-----------------------------------------------------------------------------
Next ==
    \/ \E a \in Agents :
         \/ GoesDown(a) \/ ComesBack(a) \/ TimePasses(a)
         \/ HeartbeatLoad(a) \/ HeartbeatCommit(a)
         \/ SweepMark(a) \/ HandleUnhealthy(a) \/ Operator(a)
    \/ SweepSelect

Spec == Init /\ [][Next]_vars

\* Live hosts send heartbeats, time passes, and the two workers run.
Fairness ==
    /\ WF_vars(SweepSelect)
    /\ \A a \in Agents :
         /\ WF_vars(HeartbeatLoad(a)) /\ WF_vars(HeartbeatCommit(a))
         /\ WF_vars(~alive[a] /\ TimePasses(a))
         /\ WF_vars(SweepMark(a)) /\ WF_vars(HandleUnhealthy(a))
-----------------------------------------------------------------------------
(* A host that stays up ends up ACTIVE, although heartbeats come late and a *)
(* sweep marks the agent while one of them is being handled.                *)
LiveIsActive == \A a \in Agents : <>[]alive[a] => <>[](status[a] = "ACTIVE")

=============================================================================
