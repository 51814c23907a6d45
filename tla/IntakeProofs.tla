---------------------------- MODULE IntakeProofs ----------------------------
(***************************************************************************)
(* What agents report: a group of signals has one open incident, for any   *)
(* number of groups, signals, incidents and sessions, whatever candidates, *)
(* operators, sweeps and crashes interleave; and an event is stored once,  *)
(* for any number of events, processors, failures and sizes of the queue,  *)
(* the batch and the buffer.                                               *)
(***************************************************************************)
EXTENDS IncidentFlow, TLAPS, FiniteSetTheorems, SequenceTheorems

CONSTANTS Events, Critical, Low, Workers, Capacity, MaxBatch, BufferMax, Ops, MaxFailures

VARIABLES queue, pushed, refused, inbox, claimed, buffer, batch, stored, failures, given

Pipe == INSTANCE EventPipe WITH rows <- stored

Statuses == OpenStatuses \cup {"RESOLVED", "CLOSED"}

Incident == [group : Groups, status : Statuses, links : SUBSET Types]

Session == [kind : {"none", "recovery", "signal", "open", "operator", "sweep"},
            pc : {"idle", "load", "commit", "insert", "attach", "link", "pass"},
            inc : Nat, group : Groups \cup {IdleSession.group}, types : SUBSET Types,
            target : Statuses, stamp : Nat, todo : SUBSET Nat]

IncidentTypeOK ==
    /\ inc \in Seq(Incident)
    /\ sess \in [Sessions -> Session]
    /\ clock \in Nat

\* A session that will insert has a group, and one that will write an incident has one of the
\* first n; so has the list of a pass of the sweeper.
Aims(e, n) ==
    /\ e.pc = "insert" => e.group \in Groups
    /\ e.pc = "attach" \/ (e.pc = "commit" /\ e.kind \in {"operator", "sweep"}) => e.inc \in 1..n
    /\ e.todo \subseteq 1..n

SessionsAim == \A s \in Sessions : Aims(sess[s], Len(inc))

Open(i) == inc[i].status \in OpenStatuses

\* uq_incident_open_group, read as what the table then always satisfies.
GroupIndex ==
    \A i, k \in DOMAIN inc : inc[i].group = inc[k].group /\ Open(i) /\ Open(k) => i = k

IncidentInv == IncidentTypeOK /\ SessionsAim /\ GroupIndex

-----------------------------------------------------------------------------
(* Sessions.                                                                *)

LEMMA IdleShape ==
    /\ IdleSession \in Session /\ IdleSession.pc = "idle" /\ IdleSession.stamp \in Nat
    /\ IdleSession.todo = {}
<1>1. IdleSession.pc = "idle" /\ IdleSession.stamp = 0 /\ IdleSession.todo = {}
    BY DEF IdleSession
<1>2. PICK g : g = (CHOOSE x \in Groups : TRUE)
    OBVIOUS
<1>3. IdleSession = [kind |-> "none", pc |-> "idle", inc |-> 0, group |-> g,
                     types |-> {}, target |-> "OPEN", stamp |-> 0, todo |-> {}]
    BY <1>2 DEF IdleSession
<1>4. IdleSession.group = g
    BY <1>3
<1>5. "OPEN" \in Statuses
    BY DEF Statuses, OpenStatuses
<1> QED
    BY <1>1, <1>3, <1>4, <1>5 DEF Session

\* What a step leaves when one session moves to e and no incident disappears.
LEMMA SessionMoves ==
    ASSUME IncidentTypeOK, SessionsAim, NEW s \in Sessions, NEW e \in Session,
           sess' = [sess EXCEPT ![s] = e],
           inc' \in Seq(Incident), Len(inc) <= Len(inc'), Aims(e, Len(inc'))
    PROVE  sess' \in [Sessions -> Session] /\ SessionsAim'
<1>1. sess' \in [Sessions -> Session]
    BY DEF IncidentTypeOK
<1>2. Len(inc) \in Nat /\ Len(inc') \in Nat
    BY DEF IncidentTypeOK
<1>3. ASSUME NEW q \in Sessions PROVE Aims(sess'[q], Len(inc'))
  <2>1. CASE q = s
    <3>1. sess'[q] = e
        BY <2>1 DEF IncidentTypeOK
    <3> QED
        BY <3>1
  <2>2. CASE q # s
    <3>1. sess'[q] = sess[q]
        BY <2>2 DEF IncidentTypeOK
    <3>2. Aims(sess[q], Len(inc))
        BY DEF SessionsAim
    <3> QED
        BY <3>1, <3>2, <1>2 DEF Aims
  <2> QED
    BY <2>1, <2>2
<1>4. SessionsAim'
    BY <1>3 DEF SessionsAim
<1> QED
    BY <1>1, <1>4

\* A step of one session that leaves the incidents alone.
LEMMA SessionOnly ==
    ASSUME IncidentInv, NEW s \in Sessions, NEW e \in Session, Aims(e, Len(inc)),
           sess' = [sess EXCEPT ![s] = e], UNCHANGED inc, clock' = clock
    PROVE  IncidentInv'
<1>1. inc' \in Seq(Incident) /\ Len(inc) <= Len(inc') /\ Aims(e, Len(inc'))
    BY DEF IncidentInv, IncidentTypeOK
<1>2. sess' \in [Sessions -> Session] /\ SessionsAim'
    BY <1>1, SessionMoves DEF IncidentInv
<1>3. GroupIndex'
    BY DEF IncidentInv, GroupIndex, Open
<1> QED
    BY <1>1, <1>2, <1>3 DEF IncidentInv, IncidentTypeOK

\* A step that moves its session to e and rewrites incidents without opening one of them.
LEMMA SessionWrites ==
    ASSUME IncidentInv, NEW s \in Sessions, NEW e \in Session, sess' = [sess EXCEPT ![s] = e],
           clock' = clock, inc' \in Seq(Incident), Len(inc) <= Len(inc'), Aims(e, Len(inc')),
           GroupIndex'
    PROVE  IncidentInv'
<1>1. sess' \in [Sessions -> Session] /\ SessionsAim'
    BY SessionMoves DEF IncidentInv
<1> QED
    BY <1>1 DEF IncidentInv, IncidentTypeOK

LEMMA SessionEnds ==
    ASSUME IncidentInv, NEW s \in Sessions, End(s), clock' = clock,
           inc' \in Seq(Incident), Len(inc) <= Len(inc'), GroupIndex'
    PROVE  IncidentInv'
<1>1. Aims(IdleSession, Len(inc'))
    BY IdleShape DEF Aims
<1> QED
    BY <1>1, IdleShape, SessionWrites DEF End

LEMMA SessionQuits ==
    ASSUME IncidentInv, NEW s \in Sessions, End(s), clock' = clock, UNCHANGED inc
    PROVE  IncidentInv'
<1>1. Aims(IdleSession, Len(inc))
    BY IdleShape DEF Aims
<1> QED
    BY <1>1, IdleShape, SessionOnly DEF End

\* Incidents and sessions as they are.
LEMMA NothingMoves ==
    ASSUME IncidentInv, UNCHANGED <<inc, sess>>, clock' \in Nat
    PROVE  IncidentInv'
BY DEF IncidentInv, IncidentTypeOK, SessionsAim, GroupIndex, Open

-----------------------------------------------------------------------------
(* Incidents.                                                               *)

LEMMA OpenOfGroup ==
    ASSUME IncidentTypeOK, NEW g
    PROVE  OpenOf(g) \subseteq 1..Len(inc)
BY DEF OpenOf, IncidentTypeOK

\* The new incident is the group's only open one.
LEMMA InsertKeepsIndex ==
    ASSUME IncidentInv, NEW g \in Groups, NEW L \in SUBSET Types, OpenOf(g) = {},
           inc' = Append(inc, [group |-> g, status |-> "OPEN", links |-> L])
    PROVE  /\ inc' \in Seq(Incident) /\ Len(inc') = Len(inc) + 1
           /\ GroupIndex'
<1> DEFINE new == [group |-> g, status |-> "OPEN", links |-> L]
<1>1. new \in Incident
    BY DEF Incident, Statuses, OpenStatuses
<1>2. inc \in Seq(Incident) /\ Len(inc) \in Nat /\ DOMAIN inc = 1..Len(inc)
    BY DEF IncidentInv, IncidentTypeOK
<1>3. inc' \in Seq(Incident) /\ Len(inc') = Len(inc) + 1 /\ DOMAIN inc' = 1..(Len(inc) + 1)
    BY <1>1, <1>2
<1>4. inc'[Len(inc) + 1] = new /\ \A i \in 1..Len(inc) : inc'[i] = inc[i]
    BY <1>1, <1>2
<1>5. new.group = g
    OBVIOUS
<1>6. \A i \in 1..Len(inc) : inc[i].group = g => ~Open(i)
    BY <1>2 DEF OpenOf, Open
<1>7. ASSUME NEW i \in DOMAIN inc', NEW k \in DOMAIN inc',
             inc'[i].group = inc'[k].group, inc'[i].status \in OpenStatuses,
             inc'[k].status \in OpenStatuses
      PROVE  i = k
  <2> HIDE DEF new
  <2>1. CASE i \in 1..Len(inc) /\ k \in 1..Len(inc)
      BY <2>1, <1>2, <1>4, <1>7 DEF IncidentInv, GroupIndex, Open
  <2>2. CASE i = Len(inc) + 1 /\ k \in 1..Len(inc)
      BY <2>2, <1>4, <1>5, <1>6, <1>7 DEF Open
  <2>3. CASE k = Len(inc) + 1 /\ i \in 1..Len(inc)
      BY <2>3, <1>4, <1>5, <1>6, <1>7 DEF Open
  <2> QED
      BY <2>1, <2>2, <2>3, <1>2, <1>3
<1>8. GroupIndex'
    BY <1>7 DEF GroupIndex, Open
<1> QED
    BY <1>3, <1>8

\* A rewrite that keeps every group and opens at most incident n, whose group has no other open one.
LEMMA RewriteKeepsIndex ==
    ASSUME IncidentInv, NEW n \in DOMAIN inc, NEW row \in Incident,
           inc' = [inc EXCEPT ![n] = row], row.group = inc[n].group,
           row.status \in OpenStatuses => Open(n) \/ OpenOf(inc[n].group) \ {n} = {}
    PROVE  /\ inc' \in Seq(Incident) /\ Len(inc') = Len(inc)
           /\ GroupIndex'
<1>1. inc \in Seq(Incident) /\ Len(inc) \in Nat /\ DOMAIN inc = 1..Len(inc)
    BY DEF IncidentInv, IncidentTypeOK
<1>2. inc' \in Seq(Incident) /\ Len(inc') = Len(inc) /\ DOMAIN inc' = DOMAIN inc
    BY <1>1
<1>3. inc'[n] = row /\ \A i \in DOMAIN inc : i # n => inc'[i] = inc[i]
    BY <1>1
<1>4. ASSUME row.status \in OpenStatuses, NEW k \in DOMAIN inc, k # n,
             inc[k].group = inc[n].group
      PROVE  ~Open(k)
    BY <1>4 DEF IncidentInv, GroupIndex, Open, OpenOf
<1>5. ASSUME NEW i \in DOMAIN inc', NEW k \in DOMAIN inc',
             inc'[i].group = inc'[k].group, inc'[i].status \in OpenStatuses,
             inc'[k].status \in OpenStatuses
      PROVE  i = k
  <2>1. CASE i # n /\ k # n
      BY <2>1, <1>2, <1>3, <1>5 DEF IncidentInv, GroupIndex, Open
  <2>2. CASE i = n /\ k # n
      BY <2>2, <1>2, <1>3, <1>4, <1>5 DEF Open
  <2>3. CASE i # n /\ k = n
      BY <2>3, <1>2, <1>3, <1>4, <1>5 DEF Open
  <2> QED
      BY <2>1, <2>2, <2>3
<1>6. GroupIndex'
    BY <1>5 DEF GroupIndex, Open
<1> QED
    BY <1>2, <1>6

-----------------------------------------------------------------------------
(* The steps.                                                               *)

LEMMA SessionFields ==
    ASSUME IncidentInv, NEW s \in Sessions
    PROVE  /\ sess[s] \in Session /\ Aims(sess[s], Len(inc))
           /\ sess[s].types \in SUBSET Types /\ sess[s].target \in Statuses
BY DEF IncidentInv, IncidentTypeOK, SessionsAim, Session

LEMMA SessionTurns ==
    ASSUME NEW r \in Session, NEW n \in Nat, NEW at \in {"attach", "link"}
    PROVE  /\ [r EXCEPT !.pc = at, !.inc = n] \in Session
           /\ [r EXCEPT !.pc = at, !.inc = n].pc = at
           /\ [r EXCEPT !.pc = at, !.inc = n].inc = n
           /\ [r EXCEPT !.pc = at, !.inc = n].todo = r.todo
BY DEF Session

LEMMA RecoveryEmitKeeps ==
    ASSUME IncidentInv, NEW s \in Sessions, NEW t \in Types, RecoveryEmit(s, t)
    PROVE  IncidentInv'
<1> DEFINE e == [IdleSession EXCEPT !.kind = "recovery", !.pc = "load", !.types = {t}, !.stamp = clock]
<1>1. clock \in Nat
    BY DEF IncidentInv, IncidentTypeOK
<1>2. e \in Session /\ e.pc = "load" /\ e.todo = {}
    BY <1>1, IdleShape DEF Session
<1>3. Aims(e, Len(inc))
    BY <1>2 DEF Aims
<1>4. sess' = [sess EXCEPT ![s] = e] /\ UNCHANGED inc /\ clock' = clock
    BY DEF RecoveryEmit
<1> QED
    BY <1>2, <1>3, <1>4, SessionOnly

LEMMA RecoveryLoadKeeps ==
    ASSUME IncidentInv, NEW s \in Sessions, RecoveryLoad(s)
    PROVE  IncidentInv'
<1> DEFINE e == [sess[s] EXCEPT !.pc = "commit"]
<1>1. sess[s] \in Session /\ sess[s].kind = "recovery" /\ sess[s].todo \subseteq 1..Len(inc)
    BY SessionFields DEF RecoveryLoad, At, Aims
<1>2. e \in Session /\ e.pc = "commit" /\ e.kind = "recovery" /\ e.todo \subseteq 1..Len(inc)
    BY <1>1 DEF Session
<1>3. Aims(e, Len(inc))
    BY <1>2 DEF Aims
<1>4. sess \in [Sessions -> Session] /\ UNCHANGED inc /\ clock' = clock
    BY DEF RecoveryLoad, IncidentInv, IncidentTypeOK
<1>5. sess' = [sess EXCEPT ![s] = e] \/ End(s)
    BY DEF RecoveryLoad, End
<1>6. CASE sess' = [sess EXCEPT ![s] = e]
    BY <1>2, <1>3, <1>4, <1>6, SessionOnly
<1>7. CASE End(s)
    BY <1>4, <1>7, SessionQuits
<1> QED
    BY <1>5, <1>6, <1>7

LEMMA ResolveSignalKeeps ==
    ASSUME IncidentInv, NEW s \in Sessions, NEW t \in Types, ResolveSignal(s, t)
    PROVE  IncidentInv'
<1> DEFINE e == [IdleSession EXCEPT !.kind = "signal", !.pc = "commit", !.types = {t}]
<1>1. e \in Session /\ e.pc = "commit" /\ e.kind = "signal" /\ e.todo = {}
    BY IdleShape DEF Session
<1>2. Aims(e, Len(inc))
    BY <1>1 DEF Aims
<1>3. sess' = [sess EXCEPT ![s] = e] /\ UNCHANGED inc /\ clock' = clock
    BY DEF ResolveSignal
<1> QED
    BY <1>1, <1>2, <1>3, SessionOnly

LEMMA OpenLoadKeeps ==
    ASSUME IncidentInv, NEW s \in Sessions, NEW g \in Groups, NEW m \in SUBSET Types,
           OpenLoad(s, g, m)
    PROVE  IncidentInv'
<1> DEFINE rows == {t \in m : sig[t].status \notin {"NONE", "RESOLVED"}}
           at == IF OpenOf(g) = {} THEN "insert" ELSE "attach"
           n == IF OpenOf(g) = {} THEN 0 ELSE CHOOSE i \in OpenOf(g) : TRUE
           e == [IdleSession EXCEPT !.kind = "open", !.group = g, !.types = rows, !.pc = at, !.inc = n]
<1>1. sess' = [sess EXCEPT ![s] = e] /\ UNCHANGED inc /\ clock' = clock
    BY DEF OpenLoad
<1>2. rows \in SUBSET Types
    OBVIOUS
<1>3. OpenOf(g) \subseteq 1..Len(inc) /\ Len(inc) \in Nat
    BY OpenOfGroup DEF IncidentInv, IncidentTypeOK
<1>4. OpenOf(g) # {} => n \in 1..Len(inc)
    BY <1>3
<1>5. at \in {"insert", "attach"} /\ n \in Nat /\ (at = "attach" => n \in 1..Len(inc))
    BY <1>3, <1>4
<1> HIDE DEF rows, at, n
<1>6. e \in Session /\ e.pc = at /\ e.group = g /\ e.inc = n /\ e.todo = {}
    BY <1>2, <1>5, IdleShape DEF Session
<1>7. Aims(e, Len(inc))
    BY <1>5, <1>6 DEF Aims
<1> QED
    BY <1>1, <1>6, <1>7, SessionOnly

LEMMA AttachKeeps ==
    ASSUME IncidentInv, NEW s \in Sessions, AttachToExisting(s)
    PROVE  IncidentInv'
<1>1. PICK n : n = sess[s].inc
    OBVIOUS
<1>2. PICK L : L = sess[s].types
    OBVIOUS
<1>3. sess[s].pc = "attach" /\ L \in SUBSET Types /\ n \in 1..Len(inc)
    BY <1>1, <1>2, SessionFields DEF AttachToExisting, At, Aims
<1>4. inc \in Seq(Incident) /\ n \in DOMAIN inc /\ inc[n] \in Incident
    BY <1>3 DEF IncidentInv, IncidentTypeOK
<1>5. PICK row : row = [inc[n] EXCEPT !.links = @ \cup L]
    OBVIOUS
<1>6. row \in Incident /\ row.group = inc[n].group /\ row.status = inc[n].status
    BY <1>3, <1>4, <1>5 DEF Incident
<1>7. inc' = [inc EXCEPT ![n] = row]
    BY <1>1, <1>2, <1>5 DEF AttachToExisting
<1>8. inc' \in Seq(Incident) /\ Len(inc') = Len(inc) /\ GroupIndex'
    BY <1>4, <1>6, <1>7, RewriteKeepsIndex DEF Open
<1>9. End(s) /\ clock' = clock /\ Len(inc) <= Len(inc')
    BY <1>4, <1>8 DEF AttachToExisting
<1> QED
    BY <1>8, <1>9, SessionEnds

LEMMA OpenLostKeeps ==
    ASSUME IncidentInv, NEW s \in Sessions, OpenLost(s)
    PROVE  IncidentInv'
<1>1. PICK n : n = (CHOOSE i \in OpenOf(sess[s].group) : TRUE)
    OBVIOUS
<1>2. OpenOf(sess[s].group) \subseteq 1..Len(inc) /\ Len(inc) \in Nat
    BY OpenOfGroup DEF IncidentInv, IncidentTypeOK
<1>3. n \in 1..Len(inc)
    BY <1>1, <1>2 DEF OpenLost
<1>4. /\ sess[s] \in Session /\ sess \in [Sessions -> Session]
      /\ sess[s].todo \subseteq 1..Len(inc)
    BY SessionFields DEF IncidentInv, IncidentTypeOK, Aims
<1>5. PICK e : e = [sess[s] EXCEPT !.pc = "attach", !.inc = n]
    OBVIOUS
<1>6. e \in Session /\ e.pc = "attach" /\ e.inc = n /\ e.todo = sess[s].todo
  <2>1. n \in Nat
      BY <1>2, <1>3
  <2> QED
      BY <2>1, <1>4, <1>5, SessionTurns
<1>7. Aims(e, Len(inc))
    BY <1>3, <1>4, <1>6 DEF Aims
<1>8. sess' = [sess EXCEPT ![s] = e] /\ UNCHANGED inc /\ clock' = clock
    BY <1>1, <1>4, <1>5 DEF OpenLost
<1> QED
    BY <1>6, <1>7, <1>8, SessionOnly

LEMMA OpenInsertKeeps ==
    ASSUME IncidentInv, NEW s \in Sessions, OpenInsert(s)
    PROVE  IncidentInv'
<1>1. PICK g, L : g = sess[s].group /\ L = sess[s].types
    OBVIOUS
<1>2. sess[s].pc = "insert" /\ OpenOf(g) = {} /\ g \in Groups /\ L \in SUBSET Types
    BY <1>1, SessionFields DEF OpenInsert, At, Aims
<1>3. inc' = Append(inc, [group |-> g, status |-> "OPEN", links |-> L])
    BY <1>1 DEF OpenInsert
<1>4. inc' \in Seq(Incident) /\ Len(inc') = Len(inc) + 1 /\ GroupIndex'
    BY <1>2, <1>3, InsertKeepsIndex
<1>5. Len(inc) \in Nat /\ sess \in [Sessions -> Session] /\ sess[s] \in Session /\ clock' = clock
    BY DEF IncidentInv, IncidentTypeOK, OpenInsert
<1>6. Len(inc) <= Len(inc')
    BY <1>4, <1>5
<1>7. PICK e : e = [sess[s] EXCEPT !.pc = "link", !.inc = Len(inc) + 1]
    OBVIOUS
<1>8. e \in Session /\ e.pc = "link" /\ e.todo = sess[s].todo
  <2>1. Len(inc) + 1 \in Nat
      BY <1>5
  <2> QED
      BY <1>5, <1>7, <2>1, SessionTurns
<1>9. Aims(e, Len(inc'))
  <2>1. sess[s].todo \subseteq 1..Len(inc)
      BY SessionFields DEF Aims
  <2> QED
      BY <1>5, <1>6, <1>4, <1>8, <2>1 DEF Aims
<1>10. End(s) \/ sess' = [sess EXCEPT ![s] = e]
    BY <1>5, <1>7 DEF OpenInsert
<1>11. CASE End(s)
    BY <1>4, <1>5, <1>6, <1>11, SessionEnds
<1>12. CASE sess' = [sess EXCEPT ![s] = e]
  <2>1. sess' \in [Sessions -> Session] /\ SessionsAim'
      BY <1>4, <1>6, <1>8, <1>9, <1>12, SessionMoves DEF IncidentInv
  <2> QED
      BY <1>4, <1>5, <2>1 DEF IncidentInv, IncidentTypeOK
<1> QED
    BY <1>10, <1>11, <1>12

LEMMA TransitionLoadKeeps ==
    ASSUME IncidentInv, NEW s \in Sessions, NEW i \in 1..MaxIncidents,
           NEW target \in {"ACKNOWLEDGED", "RESOLVED", "OPEN"}, TransitionLoad(s, i, target)
    PROVE  IncidentInv'
<1>1. PICK e : e = [IdleSession EXCEPT !.kind = "operator", !.pc = "commit", !.inc = i, !.target = target]
    OBVIOUS
<1>2. i \in 1..Len(inc) /\ i \in Nat /\ target \in Statuses
    BY DEF TransitionLoad, IncidentInv, IncidentTypeOK, Statuses, OpenStatuses
<1>3. e \in Session /\ e.inc = i /\ e.pc = "commit" /\ e.todo = {}
    BY <1>1, <1>2, IdleShape DEF Session
<1>4. Aims(e, Len(inc))
    BY <1>2, <1>3 DEF Aims
<1>5. sess' = [sess EXCEPT ![s] = e] /\ UNCHANGED inc /\ clock' = clock
    BY <1>1 DEF TransitionLoad
<1> QED
    BY <1>3, <1>4, <1>5, SessionOnly

LEMMA SweepKeeps ==
    ASSUME IncidentInv, NEW s \in Sessions, NEW i \in DOMAIN inc,
           sess' = [sess EXCEPT ![s] = [IdleSession EXCEPT !.kind = "sweep", !.pc = "commit", !.inc = i]],
           UNCHANGED inc, clock' = clock
    PROVE  IncidentInv'
<1>1. PICK e : e = [IdleSession EXCEPT !.kind = "sweep", !.pc = "commit", !.inc = i]
    OBVIOUS
<1>2. i \in 1..Len(inc) /\ i \in Nat
    BY DEF IncidentInv, IncidentTypeOK
<1>3. e \in Session /\ e.inc = i /\ e.pc = "commit" /\ e.todo = {}
    BY <1>1, <1>2, IdleShape DEF Session
<1>4. Aims(e, Len(inc))
    BY <1>2, <1>3 DEF Aims
<1> QED
    BY <1>1, <1>3, <1>4, SessionOnly

LEMMA WatchKeeps ==
    ASSUME IncidentInv, NEW s \in Sessions, NEW t \in Types, Watch(s, t)
    PROVE  IncidentInv'
<1>1. UNCHANGED inc /\ clock' = clock
    BY DEF Watch
<1>2. \/ UNCHANGED sess
      \/ \E i \in DOMAIN inc :
            sess' = [sess EXCEPT ![s] = [IdleSession EXCEPT !.kind = "sweep", !.pc = "commit", !.inc = i]]
    BY DEF Watch
<1>3. CASE UNCHANGED sess
  <2>1. clock' \in Nat
      BY <1>1 DEF IncidentInv, IncidentTypeOK
  <2> QED
      BY <1>1, <1>3, <2>1, NothingMoves
<1>4. CASE \E i \in DOMAIN inc :
            sess' = [sess EXCEPT ![s] = [IdleSession EXCEPT !.kind = "sweep", !.pc = "commit", !.inc = i]]
    BY <1>1, <1>4, SweepKeeps
<1> QED
    BY <1>2, <1>3, <1>4

\* The commit writes one status; the index refuses the one that would break it.
LEMMA StatusWritten ==
    ASSUME IncidentInv, NEW s \in Sessions, NEW n \in 1..Len(inc), NEW v \in Statuses,
           ~BreaksIndex(n, v), inc' = [inc EXCEPT ![n].status = v], clock' = clock,
           NEW e \in Session, Aims(e, Len(inc)), sess' = [sess EXCEPT ![s] = e]
    PROVE  IncidentInv'
<1>1. inc \in Seq(Incident) /\ n \in DOMAIN inc /\ inc[n] \in Incident
    BY DEF IncidentInv, IncidentTypeOK
<1>2. PICK row : row = [inc[n] EXCEPT !.status = v]
    OBVIOUS
<1>3. row \in Incident /\ row.group = inc[n].group /\ row.status = v
    BY <1>1, <1>2 DEF Incident
<1>4. inc' = [inc EXCEPT ![n] = row]
    BY <1>2
<1>5. row.status \in OpenStatuses => OpenOf(inc[n].group) \ {n} = {}
    BY <1>3 DEF BreaksIndex
<1>6. inc' \in Seq(Incident) /\ Len(inc') = Len(inc) /\ GroupIndex'
    BY <1>1, <1>3, <1>4, <1>5, RewriteKeepsIndex
<1>7. Len(inc) <= Len(inc') /\ Aims(e, Len(inc'))
    BY <1>1, <1>6
<1> QED
    BY <1>6, <1>7, SessionWrites

LEMMA TransitionCommitKeeps ==
    ASSUME IncidentInv, NEW s \in Sessions, TransitionCommit(s)
    PROVE  IncidentInv'
<1>1. PICK n, v : n = sess[s].inc /\ v = sess[s].target
    OBVIOUS
<1>2. End(s) /\ clock' = clock
    BY DEF TransitionCommit
<1>3. n \in 1..Len(inc) /\ v \in Statuses
    BY <1>1, SessionFields DEF TransitionCommit, At, Aims
<1>4. CASE BreaksIndex(n, v)
    BY <1>1, <1>2, <1>4, SessionQuits DEF TransitionCommit
<1>5. CASE ~BreaksIndex(n, v)
  <2>1. inc' = [inc EXCEPT ![n].status = v]
      BY <1>1, <1>5 DEF TransitionCommit
  <2>2. Aims(IdleSession, Len(inc))
      BY IdleShape DEF Aims
  <2> QED
      BY <1>2, <1>3, <1>5, <2>1, <2>2, IdleShape, StatusWritten DEF End
<1> QED
    BY <1>4, <1>5

\* A pass goes on: idle, or with the rest of its list.
LEMMA PassGoesOn ==
    ASSUME IncidentInv, NEW s \in Sessions, NEW rest \in SUBSET (1..Len(inc)), GoOn(s, rest)
    PROVE  \E e \in Session : Aims(e, Len(inc)) /\ sess' = [sess EXCEPT ![s] = e]
<1>1. rest \in SUBSET Nat
    BY DEF IncidentInv, IncidentTypeOK
<1>2. PICK e : e = IF rest = {} THEN IdleSession
                   ELSE [IdleSession EXCEPT !.kind = "sweep", !.pc = "pass", !.todo = rest]
    OBVIOUS
<1>3. CASE rest = {}
  <2>1. e \in Session /\ Aims(e, Len(inc))
      BY <1>2, <1>3, IdleShape DEF Aims
  <2> QED
      BY <1>2, <2>1 DEF GoOn
<1>4. CASE rest # {}
  <2>1. e \in Session /\ e.pc = "pass" /\ e.todo = rest
      BY <1>1, <1>2, <1>4, IdleShape DEF Session
  <2>2. Aims(e, Len(inc))
      BY <2>1 DEF Aims
  <2> QED
      BY <1>2, <2>1, <2>2 DEF GoOn
<1> QED
    BY <1>3, <1>4

LEMMA SweepLoadKeeps ==
    ASSUME IncidentInv, NEW s \in Sessions, SweepLoad(s)
    PROVE  IncidentInv'
<1>1. PICK T : T = Swept
    OBVIOUS
<1>2. T \in SUBSET (1..Len(inc)) /\ T # {}
  <2>1. DOMAIN inc = 1..Len(inc)
      BY DEF IncidentInv, IncidentTypeOK
  <2>2. Swept \subseteq DOMAIN inc
      BY DEF Swept
  <2> QED
      BY <1>1, <2>1, <2>2 DEF SweepLoad
<1>3. GoOn(s, T) /\ UNCHANGED inc /\ clock' = clock
    BY <1>1, <1>2 DEF SweepLoad, GoOn
<1> QED
    BY <1>2, <1>3, PassGoesOn, SessionOnly

LEMMA AutoLoadKeeps ==
    ASSUME IncidentInv, NEW s \in Sessions, NEW i, AutoLoad(s, i)
    PROVE  IncidentInv'
<1>1. PICK T : T = sess[s].todo
    OBVIOUS
<1>2. i \in T /\ T \ {i} \in SUBSET (1..Len(inc)) /\ i \in 1..Len(inc) /\ i \in Nat
    BY <1>1, SessionFields DEF AutoLoad, Aims
<1>3. UNCHANGED inc /\ clock' = clock
    BY DEF AutoLoad
<1>4. CASE AllQuiet(i)
  <2>1. PICK e : e = [sess[s] EXCEPT !.pc = "commit", !.inc = i, !.todo = T \ {i}]
      OBVIOUS
  <2>2. sess[s] \in Session /\ T \ {i} \in SUBSET Nat
      BY <1>1, <1>2, SessionFields DEF Session
  <2>3. e \in Session /\ e.pc = "commit" /\ e.inc = i /\ e.todo = T \ {i}
      BY <1>2, <2>1, <2>2 DEF Session
  <2>4. Aims(e, Len(inc))
      BY <1>2, <2>3 DEF Aims
  <2>5. sess' = [sess EXCEPT ![s] = e]
      BY <1>1, <1>4, <2>1 DEF AutoLoad
  <2> QED
      BY <1>3, <2>3, <2>4, <2>5, SessionOnly
<1>5. CASE ~AllQuiet(i)
  <2>1. GoOn(s, T \ {i})
      BY <1>1, <1>5 DEF AutoLoad
  <2> QED
      BY <1>2, <1>3, <2>1, PassGoesOn, SessionOnly
<1> QED
    BY <1>4, <1>5

LEMMA AutoCommitKeeps ==
    ASSUME IncidentInv, NEW s \in Sessions, AutoCommit(s)
    PROVE  IncidentInv'
<1>1. PICK n, T : n = sess[s].inc /\ T = sess[s].todo
    OBVIOUS
<1>2. n \in 1..Len(inc) /\ T \in SUBSET (1..Len(inc))
    BY <1>1, SessionFields DEF AutoCommit, At, Aims
<1>3. "RESOLVED" \in Statuses /\ ~BreaksIndex(n, "RESOLVED")
    BY DEF Statuses, BreaksIndex, OpenStatuses
<1>4. inc' = [inc EXCEPT ![n].status = "RESOLVED"] /\ GoOn(s, T) /\ clock' = clock
    BY <1>1 DEF AutoCommit
<1>5. PICK e \in Session : Aims(e, Len(inc)) /\ sess' = [sess EXCEPT ![s] = e]
    BY <1>2, <1>4, PassGoesOn
<1> QED
    BY <1>2, <1>3, <1>4, <1>5, StatusWritten

-----------------------------------------------------------------------------
(* The theorems.                                                            *)

LEMMA IncidentInit == Init => IncidentInv
<1> SUFFICES ASSUME Init PROVE IncidentInv
    OBVIOUS
<1>1. inc = << >> /\ clock = 0 /\ sess = [s \in Sessions |-> IdleSession]
    BY DEF Init
<1>2. IncidentTypeOK
    BY <1>1, IdleShape DEF IncidentTypeOK
<1>3. SessionsAim
    BY <1>1, IdleShape DEF SessionsAim, Aims
<1>4. GroupIndex
    BY <1>1 DEF GroupIndex
<1> QED
    BY <1>2, <1>3, <1>4 DEF IncidentInv

LEMMA IncidentNext == IncidentInv /\ [Next]_vars => IncidentInv'
<1> SUFFICES ASSUME IncidentInv, [Next]_vars PROVE IncidentInv'
    OBVIOUS
<1>0. clock \in Nat /\ clock + 1 \in Nat
    BY DEF IncidentInv, IncidentTypeOK
<1>1. CASE UNCHANGED vars
    BY <1>0, <1>1, NothingMoves DEF vars
<1>2. ASSUME NEW t \in Types, UpsertSignal(t) \/ Quieten(t) \/ SuppressSignal(t) \/ LoseMail(t)
      PROVE  IncidentInv'
    BY <1>0, <1>2, NothingMoves DEF UpsertSignal, Quieten, SuppressSignal, LoseMail
<1>3. ASSUME NEW s \in Sessions, NEW t \in Types, RecoveryEmit(s, t) \/ ResolveSignal(s, t) \/ Watch(s, t)
      PROVE  IncidentInv'
    BY <1>3, RecoveryEmitKeeps, ResolveSignalKeeps, WatchKeeps
<1>4. ASSUME NEW s \in Sessions, RecoveryLoad(s)
      PROVE  IncidentInv'
    BY <1>4, RecoveryLoadKeeps
<1>5. ASSUME NEW s \in Sessions, RecoveryCommit(s) \/ ResolveSignalCommit(s) \/ LinkAlert(s) \/ Crash(s)
      PROVE  IncidentInv'
    BY <1>5, SessionQuits DEF RecoveryCommit, ResolveSignalCommit, LinkAlert, Crash
<1>6. ASSUME NEW s \in Sessions, NEW g \in Groups, NEW m \in (SUBSET Types) \ {{}}, OpenLoad(s, g, m)
      PROVE  IncidentInv'
    BY <1>6, OpenLoadKeeps
<1>7. ASSUME NEW s \in Sessions, AttachToExisting(s) \/ OpenLost(s) \/ OpenInsert(s)
      PROVE  IncidentInv'
    BY <1>7, AttachKeeps, OpenLostKeeps, OpenInsertKeeps
<1>8. ASSUME NEW s \in Sessions, NEW i \in 1..MaxIncidents,
             NEW target \in {"ACKNOWLEDGED", "RESOLVED", "OPEN"}, TransitionLoad(s, i, target)
      PROVE  IncidentInv'
    BY <1>8, TransitionLoadKeeps
<1>9. ASSUME NEW s \in Sessions, SweepLoad(s) \/ \E i \in 1..MaxIncidents : AutoLoad(s, i)
      PROVE  IncidentInv'
    BY <1>9, SweepLoadKeeps, AutoLoadKeeps
<1>10. ASSUME NEW s \in Sessions, TransitionCommit(s) \/ AutoCommit(s)
      PROVE  IncidentInv'
    BY <1>10, TransitionCommitKeeps, AutoCommitKeeps
<1>11. CASE Next
  <2>1. CASE \E t \in Types : UpsertSignal(t) \/ Quieten(t) \/ SuppressSignal(t) \/ LoseMail(t)
      BY <2>1, <1>2
  <2>2. CASE ~\E t \in Types : UpsertSignal(t) \/ Quieten(t) \/ SuppressSignal(t) \/ LoseMail(t)
    <3>1. PICK s \in Sessions :
            \/ \E t \in Types : RecoveryEmit(s, t) \/ ResolveSignal(s, t) \/ Watch(s, t)
            \/ RecoveryLoad(s) \/ RecoveryCommit(s) \/ ResolveSignalCommit(s)
            \/ \E g \in Groups, m \in (SUBSET Types) \ {{}} : OpenLoad(s, g, m)
            \/ AttachToExisting(s) \/ OpenLost(s) \/ OpenInsert(s) \/ LinkAlert(s)
            \/ \E i \in 1..MaxIncidents, target \in {"ACKNOWLEDGED", "RESOLVED", "OPEN"} :
                  TransitionLoad(s, i, target)
            \/ SweepLoad(s) \/ \E i \in 1..MaxIncidents : AutoLoad(s, i)
            \/ TransitionCommit(s) \/ AutoCommit(s) \/ Crash(s)
        BY <1>11, <2>2, Zenon DEF Next
    <3>2. CASE \/ \E t \in Types : RecoveryEmit(s, t) \/ ResolveSignal(s, t) \/ Watch(s, t)
               \/ RecoveryLoad(s) \/ RecoveryCommit(s) \/ ResolveSignalCommit(s)
               \/ LinkAlert(s) \/ Crash(s)
        BY <3>2, <1>3, <1>4, <1>5
    <3>3. CASE \/ \E g \in Groups, m \in (SUBSET Types) \ {{}} : OpenLoad(s, g, m)
               \/ AttachToExisting(s) \/ OpenLost(s) \/ OpenInsert(s)
        BY <3>3, <1>6, <1>7
    <3>4. CASE \/ \E i \in 1..MaxIncidents, target \in {"ACKNOWLEDGED", "RESOLVED", "OPEN"} :
                     TransitionLoad(s, i, target)
               \/ SweepLoad(s) \/ \E i \in 1..MaxIncidents : AutoLoad(s, i)
               \/ TransitionCommit(s) \/ AutoCommit(s)
        BY <3>4, <1>8, <1>9, <1>10
    <3> QED
        BY <3>1, <3>2, <3>3, <3>4
  <2> QED
      BY <2>1, <2>2
<1> QED
    BY <1>1, <1>11

\* Every incident a waiting request will write exists, and the index holds, in every reachable state
\* of the correlation engine, the incident API and the sweeper.
THEOREM IncidentInvariance == Spec => []IncidentInv
<1>1. Init => IncidentInv
    BY IncidentInit
<1>2. IncidentInv /\ [Next]_vars => IncidentInv'
    BY IncidentNext
<1> QED
    BY <1>1, <1>2, PTL DEF Spec

LEMMA AtMostOneOpen == IncidentInv => OneOpenPerGroup
<1> SUFFICES ASSUME IncidentInv, NEW g \in Groups PROVE Cardinality(OpenOf(g)) <= 1
    BY DEF OneOpenPerGroup
<1>1. CASE OpenOf(g) = {}
    BY <1>1, FS_EmptySet
<1>2. CASE OpenOf(g) # {}
  <2>1. PICK i : i \in OpenOf(g)
      BY <1>2
  <2>2. OpenOf(g) = {i}
      BY <2>1 DEF OpenOf, IncidentInv, GroupIndex, Open
  <2> QED
      BY <2>2, FS_Singleton
<1> QED
    BY <1>1, <1>2

\* A group never has two open incidents: open_from_candidate, the lifecycle requests and the sweeper,
\* each reading before it writes, cannot get a second one past uq_incident_open_group.
THEOREM GroupsStaySingle == Spec => []OneOpenPerGroup
BY IncidentInvariance, AtMostOneOpen, PTL

-----------------------------------------------------------------------------
(* Events: stored once.                                                    *)

\* The ranks of a finite set of numbers are the numbers up to its size.
LEMMA Ranks ==
    ASSUME NEW K, K \subseteq Nat, IsFiniteSet(K), NEW n \in 1..Cardinality(K)
    PROVE  \E k \in K : Cardinality({j \in K : j < k}) = n - 1
<1> DEFINE R(k) == Cardinality({j \in K : j < k})
<1>1. \A k \in K : IsFiniteSet({j \in K : j < k}) /\ R(k) \in Nat /\ R(k) < Cardinality(K)
  <2> SUFFICES ASSUME NEW k \in K PROVE IsFiniteSet({j \in K : j < k}) /\ R(k) \in Nat /\ R(k) < Cardinality(K)
      OBVIOUS
  <2>1. {j \in K : j < k} \subseteq K /\ {j \in K : j < k} # K
      OBVIOUS
  <2>2. IsFiniteSet({j \in K : j < k}) /\ Cardinality({j \in K : j < k}) <= Cardinality(K)
        /\ Cardinality({j \in K : j < k}) # Cardinality(K)
      BY <2>1, FS_Subset
  <2>3. Cardinality(K) \in Nat /\ R(k) \in Nat
      BY <2>2, FS_CardinalityType
  <2> QED
      BY <2>2, <2>3
<1>2. ASSUME NEW k \in K, NEW l \in K, k < l PROVE R(k) < R(l)
  <2>3. \A j \in K : j < k => j < l
      BY <1>2
  <2>4. k \in {j \in K : j < l} /\ k \notin {j \in K : j < k}
      BY <1>2
  <2>1. {j \in K : j < k} \subseteq {j \in K : j < l} /\ {j \in K : j < k} # {j \in K : j < l}
      BY <2>3, <2>4
  <2>2. Cardinality({j \in K : j < k}) <= Cardinality({j \in K : j < l})
        /\ Cardinality({j \in K : j < k}) # Cardinality({j \in K : j < l})
      BY <1>1, <2>1, FS_Subset
  <2> QED
      BY <1>1, <2>2
<1>3. PICK f : f = [k \in K |-> R(k)]
    OBVIOUS
<1>4. PICK T : T = {R(k) : k \in K}
    OBVIOUS
<1>5. f \in [K -> T] /\ \A t \in T : \E k \in K : f[k] = t
    BY <1>3, <1>4
<1>6. \A k, l \in K : f[k] = f[l] => k = l
  <2> SUFFICES ASSUME NEW k \in K, NEW l \in K, f[k] = f[l] PROVE k = l
      OBVIOUS
  <2>1. k \in Nat /\ l \in Nat /\ R(k) = R(l) /\ R(k) \in Nat
      BY <1>1, <1>3
  <2>2. ~(k < l) /\ ~(l < k)
      BY <1>2, <2>1
  <2> QED
      BY <2>1, <2>2
<1>7. f \in Bijection(K, T)
    BY <1>3, <1>5, <1>6 DEF Bijection, Injection, Surjection, IsInjective
<1>8. IsFiniteSet(T) /\ Cardinality(T) = Cardinality(K)
    BY <1>7, FS_Bijection DEF ExistsBijection
<1>9. Cardinality(K) \in Nat
    BY FS_CardinalityType
<1>14. PICK c : c = Cardinality(K) - 1
    OBVIOUS
<1>15. c \in Int /\ c >= 0 /\ c - 0 + 1 = Cardinality(K)
    BY <1>9, <1>14
<1>10. IsFiniteSet(0..c) /\ Cardinality(0..c) = Cardinality(K)
    BY <1>15, FS_Interval
<1>16. \A k \in K : R(k) \in 0..c
    BY <1>1, <1>9, <1>15
<1>11. T \subseteq 0..c
    BY <1>4, <1>16
<1>12. T = 0..c
    BY <1>8, <1>10, <1>11, FS_Subset
<1>13. n - 1 \in T
    BY <1>9, <1>12, <1>15
<1> QED
    BY <1>4, <1>13

LEMMA SameCardinality == \A S : Pipe!Cardinality(S) = Cardinality(S)
BY DEF Pipe!Cardinality, Cardinality, Pipe!IsFiniteSet, IsFiniteSet

Distinct(s) == \A i, j \in 1..Len(s) : s[i] = s[j] => i = j

\* t keeps elements of s and doubles none.
PartOf(t, s) ==
    /\ t \in Seq(Events)
    /\ \A i \in 1..Len(t) : \E j \in 1..Len(s) : t[i] = s[j]
    /\ Distinct(s) => Distinct(t)

LEMMA Dropped ==
    ASSUME NEW s \in Seq(Events), NEW I
    PROVE  PartOf(Pipe!Drop(s, I), s)
<1>1. PICK K : K = DOMAIN s \ I
    OBVIOUS
<1>2. PICK c : c = Cardinality(K)
    OBVIOUS
<1>3. Len(s) \in Nat /\ DOMAIN s = 1..Len(s) /\ IsFiniteSet(1..Len(s))
    BY FS_Interval
<1>4. K \subseteq 1..Len(s) /\ K \subseteq Nat /\ IsFiniteSet(K) /\ c \in Nat
    BY <1>1, <1>2, <1>3, FS_Subset, FS_CardinalityType
<1>5. PICK p : p = [n \in 1..c |-> CHOOSE k \in K : Pipe!Cardinality({j \in K : j < k}) = n - 1]
    OBVIOUS
<1>6. \A n \in 1..c : p[n] \in K /\ Pipe!Cardinality({j \in K : j < p[n]}) = n - 1
  <2> SUFFICES ASSUME NEW n \in 1..c PROVE p[n] \in K /\ Pipe!Cardinality({j \in K : j < p[n]}) = n - 1
      OBVIOUS
  <2>1. \E k \in K : Cardinality({j \in K : j < k}) = n - 1
      BY <1>2, <1>4, Ranks
  <2>2. \E k \in K : Pipe!Cardinality({j \in K : j < k}) = n - 1
      BY <2>1, SameCardinality
  <2> QED
      BY <1>5, <2>2
<1>7. \A m, n \in 1..c : p[m] = p[n] => m = n
  <2> SUFFICES ASSUME NEW m \in 1..c, NEW n \in 1..c, p[m] = p[n] PROVE m = n
      OBVIOUS
  <2>1. m - 1 = n - 1
      BY <1>6
  <2> QED
      BY <1>4, <2>1
<1>8. PICK t : t = Pipe!Drop(s, I)
    OBVIOUS
<1>9. t = [n \in 1..c |-> s[p[n]]]
  <2>1. t = [n \in 1..Pipe!Cardinality(K) |-> s[CHOOSE k \in K : Pipe!Cardinality({j \in K : j < k}) = n - 1]]
      BY <1>1, <1>8 DEF Pipe!Drop
  <2>2. Pipe!Cardinality(K) = c
      BY <1>2, SameCardinality
  <2> QED
      BY <1>5, <2>1, <2>2
<1>10. t \in [1..c -> Events]
  <2>2. \A i \in 1..Len(s) : s[i] \in Events
      OBVIOUS
  <2>1. \A n \in 1..c : s[p[n]] \in Events
      BY <1>4, <1>6, <2>2
  <2> QED
      BY <1>9, <2>1
<1>11. t \in Seq(Events) /\ Len(t) = c
    BY <1>4, <1>10
<1>12. \A i \in 1..Len(t) : \E j \in 1..Len(s) : t[i] = s[j]
    BY <1>4, <1>6, <1>9, <1>11
<1>13. ASSUME Distinct(s), NEW i \in 1..Len(t), NEW j \in 1..Len(t), t[i] = t[j] PROVE i = j
  <2>1. s[p[i]] = s[p[j]] /\ p[i] \in 1..Len(s) /\ p[j] \in 1..Len(s)
      BY <1>4, <1>6, <1>9, <1>11, <1>13
  <2> QED
      BY <1>7, <1>11, <1>13, <2>1 DEF Distinct
<1> QED
    BY <1>8, <1>11, <1>12, <1>13 DEF PartOf, Distinct

LEMMA CutPart ==
    ASSUME NEW s \in Seq(Events), NEW m \in Nat
    PROVE  PartOf(SubSeq(s, m + 1, Len(s)), s)
<1>1. PICK n : n = Len(s)
    OBVIOUS
<1>2. n \in Nat /\ m + 1 \in Int /\ n \in Int /\ \A i \in (m + 1)..n : s[i] \in Events
    BY <1>1
<1>3. PICK t : t = SubSeq(s, m + 1, n)
    OBVIOUS
<1>4. /\ t \in Seq(Events)
      /\ Len(t) = IF m + 1 <= n THEN n - (m + 1) + 1 ELSE 0
      /\ \A i \in 1..(n - (m + 1) + 1) : t[i] = s[m + 1 + i - 1]
    BY <1>2, <1>3, SubSeqProperties
<1>5. \A i \in 1..Len(t) : m + i \in 1..n /\ t[i] = s[m + i]
  <2> SUFFICES ASSUME NEW i \in 1..Len(t) PROVE m + i \in 1..n /\ t[i] = s[m + i]
      OBVIOUS
  <2>1. m + 1 <= n /\ i \in 1..(n - (m + 1) + 1) /\ m + 1 + i - 1 = m + i
      BY <1>2, <1>4
  <2> QED
      BY <1>2, <1>4, <2>1
<1>6. ASSUME Distinct(s), NEW i \in 1..Len(t), NEW j \in 1..Len(t), t[i] = t[j] PROVE i = j
  <2>1. m + i = m + j
      BY <1>1, <1>5, <1>6 DEF Distinct
  <2> QED
      BY <1>2, <2>1
<1>7. \A i \in 1..Len(t) : \E j \in 1..Len(s) : t[i] = s[j]
    BY <1>1, <1>5
<1> QED
    BY <1>1, <1>3, <1>4, <1>6, <1>7 DEF PartOf, Distinct

\* What a buffer sheds to stay bounded, it sheds from what it held.
LEMMA BoundedPart ==
    ASSUME BufferMax \in Nat, NEW s \in Seq(Events)
    PROVE  PartOf(Pipe!Bounded(s), s)
<1>1. PartOf(s, s)
    BY DEF PartOf
<1>2. \E I : Pipe!EnforceCap(s) =
          SubSeq(Pipe!Drop(s, I), (IF Len(Pipe!Drop(s, I)) > 2 * BufferMax THEN Len(Pipe!Drop(s, I)) - 2 * BufferMax ELSE 0) + 1,
                 Len(Pipe!Drop(s, I)))
    BY DEF Pipe!EnforceCap, Pipe!First
<1>3. PICK I, t : t = Pipe!Drop(s, I) /\ Pipe!EnforceCap(s) =
          SubSeq(t, (IF Len(t) > 2 * BufferMax THEN Len(t) - 2 * BufferMax ELSE 0) + 1, Len(t))
    BY <1>2
<1>4. PartOf(t, s) /\ t \in Seq(Events)
    BY <1>3, Dropped DEF PartOf
<1>5. PICK m : m = IF Len(t) > 2 * BufferMax THEN Len(t) - 2 * BufferMax ELSE 0
    OBVIOUS
<1>6. m \in Nat
    BY <1>4, <1>5
<1>7. PICK u : u = SubSeq(t, m + 1, Len(t))
    OBVIOUS
<1>8. PartOf(u, t)
    BY <1>4, <1>6, <1>7, CutPart
<1>9. PartOf(u, s)
    BY <1>4, <1>8 DEF PartOf
<1>10. Pipe!EnforceCap(s) = u
    BY <1>3, <1>5, <1>7
<1> QED
    BY <1>1, <1>9, <1>10 DEF Pipe!Bounded

Holds(s, e) == \E i \in 1..Len(s) : s[i] = e

\* Event e is in one place at most: unclaimed, or in one row of one buffer, or of one batch under
\* way, or in the table.
OnceFor(e) ==
    /\ stored[e] \in {0, 1}
    /\ stored[e] = 1 => e \in claimed
    /\ \A w \in Workers : Holds(buffer[w], e) => e \in claimed /\ stored[e] = 0
    /\ \A w \in Workers : \A b \in batch[w] : Holds(b, e) => e \in claimed /\ stored[e] = 0
    /\ \A v, w \in Workers : Holds(buffer[v], e) /\ Holds(buffer[w], e) => v = w
    /\ \A v, w \in Workers : \A b \in batch[v], c \in batch[w] : Holds(b, e) /\ Holds(c, e) => v = w /\ b = c
    /\ \A v, w \in Workers : \A b \in batch[w] : ~(Holds(buffer[v], e) /\ Holds(b, e))

PlaceInv ==
    /\ DOMAIN buffer = Workers /\ DOMAIN batch = Workers /\ DOMAIN stored = Events
    /\ \A w \in Workers : buffer[w] \in Seq(Events) /\ Distinct(buffer[w])
    /\ \A w \in Workers : \A b \in batch[w] : b \in Seq(Events) /\ Distinct(b)
    /\ \A e \in Events : OnceFor(e)

LEMMA PartHolds ==
    ASSUME NEW s, NEW t, PartOf(t, s), NEW e, Holds(t, e)
    PROVE  Holds(s, e)
BY DEF PartOf, Holds

LEMMA EmptyRow ==
    /\ <<>> \in Seq(Events) /\ Distinct(<<>>)
    /\ \A e : ~Holds(<<>>, e)
BY DEF Distinct, Holds

\* A new row.
LEMMA RowAdded ==
    ASSUME NEW s \in Seq(Events), NEW e \in Events, Distinct(s), ~Holds(s, e)
    PROVE  /\ Append(s, e) \in Seq(Events) /\ Distinct(Append(s, e))
           /\ \A x : Holds(Append(s, e), x) => x = e \/ Holds(s, x)
<1>1. PICK t : t = Append(s, e)
    OBVIOUS
<1>2. /\ t \in Seq(Events) /\ Len(t) = Len(s) + 1 /\ Len(s) \in Nat
      /\ t[Len(s) + 1] = e /\ \A i \in 1..Len(s) : t[i] = s[i]
    BY <1>1, AppendProperties
<1>3. \A i \in 1..Len(t) : i = Len(s) + 1 \/ i \in 1..Len(s)
    BY <1>2
<1>4. Distinct(t)
    BY <1>2, <1>3 DEF Distinct, Holds
<1>5. \A x : Holds(t, x) => x = e \/ Holds(s, x)
    BY <1>2, <1>3 DEF Holds
<1> QED
    BY <1>1, <1>2, <1>4, <1>5

\* A batch put back in front of the buffer.
LEMMA RowsJoined ==
    ASSUME NEW s \in Seq(Events), NEW t \in Seq(Events), Distinct(s), Distinct(t),
           \A e \in Events : ~(Holds(s, e) /\ Holds(t, e))
    PROVE  /\ s \o t \in Seq(Events) /\ Distinct(s \o t)
           /\ \A x : Holds(s \o t, x) => Holds(s, x) \/ Holds(t, x)
<1>1. PICK u : u = s \o t
    OBVIOUS
<1>2. PICK m, n : m = Len(s) /\ n = Len(t)
    OBVIOUS
<1>3. /\ u \in Seq(Events) /\ Len(u) = m + n /\ m \in Nat /\ n \in Nat
      /\ \A i \in 1..(m + n) : u[i] = IF i <= m THEN s[i] ELSE t[i - m]
    BY <1>1, <1>2, ConcatProperties
<1>4. \A i \in 1..(m + n) : \/ i \in 1..m /\ u[i] = s[i]
                            \/ i > m /\ i - m \in 1..n /\ u[i] = t[i - m]
    BY <1>3
<1>5. \A i \in 1..m : s[i] \in Events
    BY <1>2
<1>6. \A i \in 1..m, j \in 1..n : s[i] # t[j]
    BY <1>2, <1>5 DEF Holds
<1>7. ASSUME NEW i \in 1..Len(u), NEW j \in 1..Len(u), u[i] = u[j] PROVE i = j
  <2>1. i \in 1..(m + n) /\ j \in 1..(m + n)
      BY <1>3
  <2>2. CASE i \in 1..m /\ u[i] = s[i] /\ j \in 1..m /\ u[j] = s[j]
      BY <1>2, <1>7, <2>2 DEF Distinct
  <2>3. CASE i > m /\ i - m \in 1..n /\ u[i] = t[i - m] /\ j > m /\ j - m \in 1..n /\ u[j] = t[j - m]
    <3>1. i - m = j - m
        BY <1>2, <1>7, <2>3 DEF Distinct
    <3> QED
        BY <1>3, <2>1, <3>1
  <2> QED
      BY <1>4, <1>6, <1>7, <2>1, <2>2, <2>3
<1>8. \A x : Holds(u, x) => Holds(s, x) \/ Holds(t, x)
    BY <1>2, <1>3, <1>4 DEF Holds
<1> QED
    BY <1>1, <1>3, <1>7, <1>8 DEF Distinct

\* "redisdown" is an outage of Redis while a worker asks whether an event is new.
PipeAssumption == BufferMax \in Nat /\ "redisdown" \notin Ops

LEMMA PlacesSame ==
    ASSUME PlaceInv, UNCHANGED <<claimed, buffer, batch, stored>>
    PROVE  PlaceInv'
BY DEF PlaceInv, OnceFor

\* A worker takes an event that is new.
LEMMA EventTaken ==
    ASSUME PipeAssumption, PlaceInv, NEW w \in Workers, NEW e \in Events, Pipe!HandleRaw(w, e)
    PROVE  PlaceInv'
<1>1. CASE UNCHANGED <<claimed, buffer>>
    BY <1>1, PlacesSame DEF Pipe!HandleRaw
<1>2. CASE e \notin claimed /\ claimed' = claimed \cup {e}
           /\ buffer' = [buffer EXCEPT ![w] = Pipe!Bounded(Append(@, e))]
  <2>1. PICK t : t = Pipe!Bounded(Append(buffer[w], e))
      OBVIOUS
  <2>2. buffer[w] \in Seq(Events) /\ Distinct(buffer[w]) /\ ~Holds(buffer[w], e)
      BY <1>2 DEF PlaceInv, OnceFor
  <2>3. /\ Append(buffer[w], e) \in Seq(Events) /\ Distinct(Append(buffer[w], e))
        /\ \A x : Holds(Append(buffer[w], e), x) => x = e \/ Holds(buffer[w], x)
      BY <2>2, RowAdded
  <2>4. PartOf(t, Append(buffer[w], e))
      BY <2>1, <2>3, BoundedPart DEF PipeAssumption
  <2>5. t \in Seq(Events) /\ Distinct(t) /\ \A x : Holds(t, x) => x = e \/ Holds(buffer[w], x)
      BY <2>3, <2>4, PartHolds DEF PartOf
  <2>6. /\ DOMAIN buffer' = Workers /\ buffer'[w] = t /\ \A v \in Workers : v # w => buffer'[v] = buffer[v]
        /\ UNCHANGED <<batch, stored>>
      BY <1>2, <2>1 DEF Pipe!HandleRaw, Pipe!agent, PlaceInv
  <2>7. ASSUME NEW x \in Events PROVE OnceFor(x)'
    <3>1. OnceFor(x)
        BY DEF PlaceInv
    <3>2. x # e => \A v \in Workers : Holds(buffer'[v], x) => Holds(buffer[v], x)
        BY <2>5, <2>6
    <3>3. CASE x = e
      <4>1. \A v \in Workers : Holds(buffer'[v], e) => v = w
          BY <1>2, <2>6, <3>1, <3>3 DEF OnceFor
      <4>2. stored'[e] = 0 /\ e \in claimed' /\ \A v \in Workers : \A b \in batch'[v] : ~Holds(b, e)
          BY <1>2, <2>6, <3>1, <3>3 DEF OnceFor
      <4> QED
          BY <3>3, <4>1, <4>2 DEF OnceFor
    <3>4. CASE x # e
        BY <1>2, <2>6, <3>1, <3>2, <3>4 DEF OnceFor
    <3> QED
        BY <3>3, <3>4
  <2> QED
      BY <2>5, <2>6, <2>7 DEF PlaceInv
<1> QED
    BY <1>1, <1>2 DEF Pipe!HandleRaw, Pipe!Fresh, PipeAssumption

\* The buffer's rows become a batch; a batch that is stopped is gone.
LEMMA BatchMade ==
    ASSUME PlaceInv, NEW w \in Workers, NEW gone,
           batch' = [batch EXCEPT ![w] = (@ \ gone) \cup ({buffer[w]} \ {<<>>})],
           buffer' = [buffer EXCEPT ![w] = <<>>], UNCHANGED <<claimed, stored>>
    PROVE  PlaceInv'
<1>1. /\ DOMAIN buffer' = Workers /\ DOMAIN batch' = Workers
      /\ buffer'[w] = <<>> /\ \A v \in Workers : v # w => buffer'[v] = buffer[v] /\ batch'[v] = batch[v]
      /\ \A b \in batch'[w] : b \in batch[w] \/ b = buffer[w]
    BY DEF PlaceInv
<1>2. ASSUME NEW e \in Events PROVE OnceFor(e)'
  <2>1. OnceFor(e)
      BY DEF PlaceInv
  <2>2. \A v \in Workers : Holds(buffer'[v], e) => v # w /\ Holds(buffer[v], e)
      BY <1>1, EmptyRow
  <2>3. \A v \in Workers : \A b \in batch'[v] : \/ b \in batch[v]
                                                \/ v = w /\ b = buffer[w]
      BY <1>1
  <2>4. /\ \A v \in Workers : Holds(buffer'[v], e) => e \in claimed /\ stored[e] = 0
        /\ \A v \in Workers : \A b \in batch'[v] : Holds(b, e) => e \in claimed /\ stored[e] = 0
      BY <2>1, <2>2, <2>3 DEF OnceFor
  <2>5. \A u, v \in Workers : Holds(buffer'[u], e) /\ Holds(buffer'[v], e) => u = v
      BY <2>1, <2>2 DEF OnceFor
  <2>6. \A u, v \in Workers : \A b \in batch'[u], c \in batch'[v] : Holds(b, e) /\ Holds(c, e) => u = v /\ b = c
      BY <2>1, <2>3 DEF OnceFor
  <2>7. \A u, v \in Workers : \A b \in batch'[v] : ~(Holds(buffer'[u], e) /\ Holds(b, e))
      BY <2>1, <2>2, <2>3 DEF OnceFor
  <2> QED
      BY <2>1, <2>4, <2>5, <2>6, <2>7 DEF OnceFor
<1>3. \A v \in Workers : buffer'[v] \in Seq(Events) /\ Distinct(buffer'[v])
    BY <1>1, EmptyRow DEF PlaceInv
<1>4. \A v \in Workers : \A b \in batch'[v] : b \in Seq(Events) /\ Distinct(b)
    BY <1>1 DEF PlaceInv
<1> QED
    BY <1>1, <1>2, <1>3, <1>4 DEF PlaceInv

\* How often a row is in a batch.
LEMMA RowsOf ==
    ASSUME NEW b \in Seq(Events), Distinct(b), NEW e
    PROVE  Cardinality({i \in DOMAIN b : b[i] = e}) = IF Holds(b, e) THEN 1 ELSE 0
<1>1. DOMAIN b = 1..Len(b)
    OBVIOUS
<1>2. ASSUME Holds(b, e) PROVE Cardinality({i \in DOMAIN b : b[i] = e}) = 1
  <2>1. PICK k \in 1..Len(b) : b[k] = e
      BY <1>2 DEF Holds
  <2>2. {i \in DOMAIN b : b[i] = e} = {k}
      BY <1>1, <2>1 DEF Distinct
  <2> QED
      BY <2>2, FS_Singleton
<1>3. ASSUME ~Holds(b, e) PROVE Cardinality({i \in DOMAIN b : b[i] = e}) = 0
  <2>1. {i \in DOMAIN b : b[i] = e} = {}
      BY <1>1, <1>3 DEF Holds
  <2> QED
      BY <2>1, FS_EmptySet
<1> QED
    BY <1>2, <1>3

\* A batch reaches the table.
LEMMA BatchStored ==
    ASSUME PlaceInv, NEW w \in Workers, NEW b \in batch[w], Pipe!InsertDone(w, b)
    PROVE  PlaceInv'
<1>1. /\ DOMAIN batch' = Workers /\ UNCHANGED <<buffer, claimed>>
      /\ \A v \in Workers : \A c \in batch'[v] : c \in batch[v] /\ ~(v = w /\ c = b)
    BY DEF Pipe!InsertDone, Pipe!agent, PlaceInv
<1>2. b \in Seq(Events) /\ Distinct(b)
    BY DEF PlaceInv
<1>3. \A e \in Events : stored'[e] = stored[e] + (IF Holds(b, e) THEN 1 ELSE 0)
    BY <1>2, RowsOf, SameCardinality DEF Pipe!InsertDone
<1>4. DOMAIN stored' = Events
    BY DEF Pipe!InsertDone
<1>5. ASSUME NEW e \in Events PROVE OnceFor(e)'
  <2>1. OnceFor(e)
      BY DEF PlaceInv
  <2>2. CASE Holds(b, e)
    <3>1. stored'[e] = 1 /\ e \in claimed
        BY <1>3, <2>1, <2>2 DEF OnceFor
    <3>2. \A v \in Workers : ~Holds(buffer[v], e) /\ \A c \in batch'[v] : ~Holds(c, e)
        BY <1>1, <2>1, <2>2 DEF OnceFor
    <3> QED
        BY <1>1, <3>1, <3>2 DEF OnceFor
  <2>3. CASE ~Holds(b, e)
    <3>1. stored'[e] = stored[e]
        BY <1>3, <2>1, <2>3 DEF OnceFor
    <3> QED
        BY <1>1, <2>1, <3>1 DEF OnceFor
  <2> QED
      BY <2>2, <2>3
<1> QED
    BY <1>1, <1>4, <1>5 DEF PlaceInv

\* A batch goes back into the buffer.
LEMMA BatchReturned ==
    ASSUME PipeAssumption, PlaceInv, NEW w \in Workers, NEW b \in batch[w], Pipe!InsertFails(w, b)
    PROVE  PlaceInv'
<1>1. PICK t : t = Pipe!Requeue(w, b)
    OBVIOUS
<1>2. /\ b \in Seq(Events) /\ Distinct(b) /\ buffer[w] \in Seq(Events) /\ Distinct(buffer[w])
      /\ \A e \in Events : ~(Holds(b, e) /\ Holds(buffer[w], e))
    BY DEF PlaceInv, OnceFor
<1>3. /\ b \o buffer[w] \in Seq(Events) /\ Distinct(b \o buffer[w])
      /\ \A x : Holds(b \o buffer[w], x) => Holds(b, x) \/ Holds(buffer[w], x)
    BY <1>2, RowsJoined
<1>4. PartOf(t, b \o buffer[w])
    BY <1>1, <1>3, BoundedPart DEF Pipe!Requeue, PipeAssumption
<1>5. t \in Seq(Events) /\ Distinct(t) /\ \A x : Holds(t, x) => Holds(b, x) \/ Holds(buffer[w], x)
    BY <1>3, <1>4, PartHolds DEF PartOf
<1>6. /\ DOMAIN buffer' = Workers /\ DOMAIN batch' = Workers /\ UNCHANGED <<claimed, stored>>
      /\ buffer'[w] = t /\ \A v \in Workers : v # w => buffer'[v] = buffer[v]
      /\ \A v \in Workers : \A c \in batch'[v] : c \in batch[v] /\ ~(v = w /\ c = b)
    BY <1>1 DEF Pipe!InsertFails, Pipe!agent, PlaceInv
<1>7. ASSUME NEW e \in Events PROVE OnceFor(e)'
  <2>1. OnceFor(e)
      BY DEF PlaceInv
  <2>2. \A v \in Workers : Holds(buffer'[v], e) => Holds(buffer[v], e) \/ (v = w /\ Holds(b, e))
      BY <1>5, <1>6
  <2>3. \A v \in Workers : Holds(buffer'[v], e) => e \in claimed /\ stored[e] = 0
      BY <2>1, <2>2 DEF OnceFor
  <2>4. \A u, v \in Workers : Holds(buffer'[u], e) /\ Holds(buffer'[v], e) => u = v
      BY <2>1, <2>2 DEF OnceFor
  <2>5. \A u, v \in Workers : \A c \in batch'[v] : ~(Holds(buffer'[u], e) /\ Holds(c, e))
      BY <1>6, <2>1, <2>2 DEF OnceFor
  <2> QED
      BY <1>6, <2>1, <2>3, <2>4, <2>5 DEF OnceFor
<1> QED
    BY <1>5, <1>6, <1>7 DEF PlaceInv

\* "Redelivery/retransmission idempotent end-to-end": as long as Redis answers, an event is in the
\* table once at most, however many workers receive it, whatever the agent sends again,
\* whichever inserts fail, however often a buffer overflows and whenever a worker is stopped
\* (ReportEvents' dedup key, EventProcessor, EventRepository).
THEOREM EventsAreStoredOnce ==
    ASSUME PipeAssumption
    PROVE  Pipe!Spec => []Pipe!StoredOnce
<1>1. ASSUME Pipe!Init PROVE PlaceInv
  <2>1. \A w \in Workers : buffer[w] = <<>> /\ batch[w] = {}
      BY <1>1 DEF Pipe!Init
  <2>2. \A e \in Events : OnceFor(e)
      BY <1>1, <2>1, EmptyRow DEF Pipe!Init, OnceFor
  <2> QED
      BY <1>1, <2>1, <2>2, EmptyRow DEF Pipe!Init, PlaceInv
<1>2. ASSUME PlaceInv, [Pipe!Next]_(Pipe!vars) PROVE PlaceInv'
  <2>1. ASSUME NEW w \in Workers, Pipe!RepositoryFlush(w) PROVE PlaceInv'
    <3>1. batch' = [batch EXCEPT ![w] = (@ \ {}) \cup ({buffer[w]} \ {<<>>})]
        BY <2>1 DEF Pipe!RepositoryFlush
    <3> QED
        BY <1>2, <2>1, <3>1, BatchMade DEF Pipe!RepositoryFlush, Pipe!agent
  <2>2. ASSUME NEW w \in Workers, NEW b \in batch[w], Pipe!StopWorker(w, b) PROVE PlaceInv'
      BY <1>2, <2>2, BatchMade DEF Pipe!StopWorker, Pipe!agent
  <2>3. CASE UNCHANGED <<claimed, buffer, batch, stored>>
      BY <1>2, <2>3, PlacesSame
  <2> QED
      BY <1>2, <2>1, <2>2, <2>3, EventTaken, BatchStored, BatchReturned
         DEF Pipe!Next, Pipe!Work, Pipe!vars, Pipe!Push, Pipe!Flush, Pipe!FlushFails, Pipe!server
<1>3. PlaceInv => Pipe!StoredOnce
    BY DEF PlaceInv, OnceFor, Pipe!StoredOnce
<1> QED
    BY <1>1, <1>2, <1>3, PTL DEF Pipe!Spec

=============================================================================
