----------------------------- MODULE ApiProofs -----------------------------
(***************************************************************************)
(* What the API lets in and out: which agents pass the gate and whose word *)
(* counts for an exception or a baseline, which workflow steps and policy  *)
(* documents it stores, and what its lists return.  Components that share  *)
(* no state, each of them an instance.                                     *)
(***************************************************************************)
EXTENDS Integers, Sequences, FiniteSets, FiniteSetTheorems, TLAPS

CONSTANTS Hosts, Tokens, SameName, Faults, OneByOne, MaxFaults, MaxRows, MaxCerts,
          Agents, Engines, Users, Excs, Sessions, Values, Scopes, Selected, Ops, Serial,
          MaxChanges, MaxLosses, Threads, MaxVersions, MaxPublishes

VARIABLES token, row, cert, host, req, redis, caUp, acked, late, faults

Id == INSTANCE AgentIdentity WITH Serial <- OneByOne

VARIABLES facts, want, net, stored, base, open, verdict, exc, txn, work, changes, losses

Drift == INSTANCE DriftWatch WITH host <- facts

VARIABLES ver, request, events, sent, inScope, eff, pass, failed

Baseline == INSTANCE BaselineFlow WITH txn <- request, work <- pass, losses <- failed

\* The name for "nobody yet" is no user's.
UsersAssumption == "none" \notin Users

-----------------------------------------------------------------------------
(* Revocation.                                                              *)

\* What was stored is on the deny-list, so it has cleared no call that began later, and no
\* call has got past the gate that should not have.
HeardInv ==
    /\ host = [h \in Hosts |-> host[h]]
    /\ \A h \in Hosts : /\ DOMAIN host[h] = {"id", "key", "cert", "link", "rpc"}
                        /\ host[h].rpc.at = "heard" => ~host[h].rpc.after
DenyInv ==
    /\ DOMAIN redis = {"up", "denied", "bad", "limited"}
    /\ acked \subseteq redis.denied
    /\ Id!RevokedIsRefused
    /\ HeardInv

LEMMA DenyInit == Id!Init => DenyInv
BY DEF Id!Init, Id!NoCall, HeardInv, DenyInv, Id!RevokedIsRefused

\* Nothing takes an entry off the deny-list.
LEMMA DenyStays ==
    ASSUME DenyInv, DOMAIN redis' = DOMAIN redis, redis.denied \subseteq redis'.denied,
           acked' = acked, late' => late, HeardInv'
    PROVE  DenyInv'
BY DEF DenyInv, Id!RevokedIsRefused

\* A step that ends calls and changes files leaves the other calls as they are.
LEMMA CallsStay ==
    ASSUME HeardInv, NEW g \in Hosts, NEW files, host' = [host EXCEPT ![g] = files],
           DOMAIN files = {"id", "key", "cert", "link", "rpc"},
           files.rpc \in {host[g].rpc, Id!NoCall}
    PROVE  HeardInv'
<1>1. \A h \in Hosts : host'[h] = IF h = g THEN files ELSE host[h]
    BY DEF HeardInv
<1>2. host' = [h \in Hosts |-> host'[h]]
    BY DEF HeardInv
<1>3. Id!NoCall.at # "heard"
    BY DEF Id!NoCall
<1> QED
    BY <1>1, <1>2, <1>3 DEF HeardInv

LEMMA CallEnds ==
    ASSUME HeardInv, NEW g \in Hosts, host' = [host EXCEPT ![g].rpc = Id!NoCall]
    PROVE  HeardInv'
<1> DEFINE files == [host[g] EXCEPT !.rpc = Id!NoCall]
<1>1. host' = [host EXCEPT ![g] = files]
    OBVIOUS
<1>2. files.rpc = Id!NoCall /\ DOMAIN files = {"id", "key", "cert", "link", "rpc"}
    BY DEF HeardInv
<1> QED
    BY <1>1, <1>2, CallsStay

\* Who was heard and let through began before the revocation; who was not heard has an answer
\* to the serial check.
LEMMA PassingIsRight ==
    ASSUME DenyInv, NEW h \in Hosts, Id!Passes(h)
    PROVE  ~Id!Wrong(h)
BY DEF DenyInv, HeardInv, Id!Passes, Id!Wrong, Id!NotRevoked

LEMMA DenyNext == DenyInv /\ [Id!Next]_(Id!vars) => DenyInv'
<1> SUFFICES ASSUME DenyInv, [Id!Next]_(Id!vars) PROVE DenyInv'
    OBVIOUS
<1>0. "denied" \in DOMAIN redis /\ HeardInv
    BY DEF DenyInv
<1>1. CASE UNCHANGED <<redis, acked, late, host>>
  <2>1. HeardInv'
      BY <1>0, <1>1 DEF HeardInv
  <2> QED
      BY <1>1, <2>1, DenyStays
<1>2. ASSUME NEW h \in Hosts, Id!Heartbeat(h) PROVE DenyInv'
  <2>1. (late' => late) /\ UNCHANGED <<redis, acked>>
      BY <1>2, PassingIsRight, Zenon DEF Id!Heartbeat
  <2>2. HeardInv'
      BY <1>0, <1>2, CallEnds DEF Id!Heartbeat
  <2> QED
      BY <2>1, <2>2, DenyStays
<1>3. ASSUME NEW h \in Hosts, Id!Renew(h) PROVE DenyInv'
  <2>1. (late' => late) /\ acked' = acked
      BY <1>3, PassingIsRight, Zenon DEF Id!Renew
  <2>2. DOMAIN redis' = DOMAIN redis /\ redis.denied \subseteq redis'.denied
      BY <1>0, <1>3 DEF Id!Renew
  <2>3. HeardInv'
      BY <1>0, <1>3, CallEnds DEF Id!Renew
  <2> QED
      BY <2>1, <2>2, <2>3, DenyStays
<1>4. ASSUME NEW h \in Hosts, Id!AskDenyList(h) PROVE DenyInv'
  <2>1. UNCHANGED <<redis, acked, late>>
      BY <1>4 DEF Id!AskDenyList
  <2>2. PICK call : /\ host' = [host EXCEPT ![h].rpc = call]
                    /\ call.at = "heard" => ~call.after
    <3>1. PICK i : i = Id!CommonName(host[h].link)
        OBVIOUS
    <3>2. ASSUME NEW a, host' = [host EXCEPT ![h].rpc = [at |-> a, after |-> i \in acked]],
                 a = "heard" => ~Id!Denied(i) /\ redis.up
          PROVE  \E call : /\ host' = [host EXCEPT ![h].rpc = call]
                           /\ call.at = "heard" => ~call.after
      <4>1. [at |-> a, after |-> i \in acked].at = a
          OBVIOUS
      <4>2. a = "heard" => i \notin acked
          BY <3>2 DEF Id!Denied, DenyInv
      <4>3. a = "heard" => ~[at |-> a, after |-> i \in acked].after
          BY <4>2
      <4> QED
          BY <3>2, <4>1, <4>3
    <3>3. \E a : /\ host' = [host EXCEPT ![h].rpc = [at |-> a, after |-> i \in acked]]
                 /\ a = "heard" => ~Id!Denied(i) /\ redis.up
      <4>1. "unheard" # "heard"
          OBVIOUS
      <4> QED
          BY <1>4, <3>1, <4>1, Zenon DEF Id!AskDenyList
    <3> QED
        BY <3>2, <3>3
  <2>3. \A g \in Hosts : host'[g] = IF g = h THEN [host[h] EXCEPT !.rpc = call] ELSE host[g]
      BY <1>0, <2>2 DEF HeardInv
  <2>4. host' = [g \in Hosts |-> host'[g]]
      BY <1>0, <2>2 DEF HeardInv
  <2>5. HeardInv'
      BY <1>0, <2>2, <2>3, <2>4 DEF HeardInv
  <2> QED
      BY <2>1, <2>5, DenyStays
<1>5. ASSUME NEW h \in Hosts, Id!Refused(h) \/ Id!Crash(h) PROVE DenyInv'
  <2>1. UNCHANGED <<redis, acked, late>> /\ host' = Id!Closed(h)
      BY <1>5 DEF Id!Refused, Id!Crash
  <2>2. PICK files : files = [[host[h] EXCEPT !.link = 0] EXCEPT !.rpc = Id!NoCall]
      OBVIOUS
  <2>3. host' = [host EXCEPT ![h] = files]
      BY <1>0, <2>1, <2>2 DEF Id!Closed, HeardInv
  <2>4. DOMAIN files = {"id", "key", "cert", "link", "rpc"} /\ files.rpc = Id!NoCall
      BY <1>0, <2>2 DEF HeardInv
  <2>5. HeardInv'
      BY <1>0, <2>3, <2>4, CallsStay
  <2> QED
      BY <2>1, <2>5, DenyStays
<1>6. ASSUME NEW h \in Hosts, Id!WriteCert(h) PROVE DenyInv'
  <2>1. UNCHANGED <<redis, acked, late>>
      BY <1>6 DEF Id!WriteCert
  <2>2. PICK files : files = [[[host[h] EXCEPT !.cert = req[h].serial] EXCEPT !.link = 0] EXCEPT !.rpc = Id!NoCall]
      OBVIOUS
  <2>3. host' = [host EXCEPT ![h] = files]
      BY <1>0, <1>6, <2>2 DEF Id!WriteCert, HeardInv
  <2>4. DOMAIN files = {"id", "key", "cert", "link", "rpc"} /\ files.rpc = Id!NoCall
      BY <1>0, <2>2 DEF HeardInv
  <2>5. HeardInv'
      BY <1>0, <2>3, <2>4, CallsStay
  <2> QED
      BY <2>1, <2>5, DenyStays
<1>7. ASSUME NEW h \in Hosts, Id!Connect(h) \/ Id!WriteKey(h) PROVE DenyInv'
  <2>1. UNCHANGED <<redis, acked, late>>
      BY <1>7 DEF Id!Connect, Id!WriteKey
  <2>2. PICK files : files \in {[host[h] EXCEPT !.link = host[h].cert], [host[h] EXCEPT !.key = req[h].serial]}
                     /\ host' = [host EXCEPT ![h] = files]
      BY <1>7 DEF Id!Connect, Id!WriteKey
  <2>3. DOMAIN files = {"id", "key", "cert", "link", "rpc"} /\ files.rpc = host[h].rpc
      BY <1>0, <2>2 DEF HeardInv
  <2>4. HeardInv'
      BY <1>0, <2>2, <2>3, CallsStay
  <2> QED
      BY <2>1, <2>4, DenyStays
<1>8. ASSUME NEW h \in Hosts, Id!SignCert(h) \/ Id!SignFails(h) PROVE DenyInv'
  <2>1. UNCHANGED <<redis, acked, late>>
      BY <1>8 DEF Id!SignCert, Id!SignFails
  <2>2. CASE host' = host
      BY <1>1, <2>1, <2>2
  <2>3. ASSUME NEW i, NEW n, host' = [host EXCEPT ![h] = Id!Files(i, n)] PROVE DenyInv'
    <3>1. DOMAIN Id!Files(i, n) = {"id", "key", "cert", "link", "rpc"} /\ Id!Files(i, n).rpc = Id!NoCall
        BY DEF Id!Files
    <3>2. HeardInv'
        BY <1>0, <2>3, <3>1, CallsStay
    <3> QED
        BY <2>1, <3>2, DenyStays
  <2> QED
      BY <1>8, <2>2, <2>3 DEF Id!SignCert, Id!SignFails
<1>9. ASSUME NEW i, Id!MarkExpires(i) PROVE DenyInv'
  <2>1. HeardInv'
      BY <1>0, <1>9 DEF Id!MarkExpires, HeardInv
  <2> QED
      BY <1>0, <1>9, <2>1, DenyStays DEF Id!MarkExpires, DenyInv
<1>10. ASSUME NEW s, Id!RevokeCert(s) \/ Id!UnrevokeCert(s) PROVE DenyInv'
  <2>1. HeardInv'
      BY <1>0, <1>10 DEF Id!RevokeCert, Id!UnrevokeCert, HeardInv
  <2> QED
      BY <1>0, <1>10, <2>1, DenyStays DEF Id!RevokeCert, Id!UnrevokeCert, DenyInv
<1>11. ASSUME Id!Outage \/ Id!Repair PROVE DenyInv'
  <2>1. HeardInv'
      BY <1>0, <1>11 DEF Id!Outage, Id!Repair, HeardInv
  <2> QED
      BY <1>0, <1>11, <2>1, DenyStays DEF Id!Outage, Id!Repair, DenyInv
<1>12. ASSUME NEW i, Id!RevokeAgent(i) PROVE DenyInv'
  <2>0. HeardInv'
      BY <1>0, <1>12 DEF Id!RevokeAgent, HeardInv
  <2>1. CASE redis.up
    <3>1. redis' = [redis EXCEPT !.denied = @ \cup {i}] /\ acked' = acked \cup {i} /\ late' = late
        BY <1>12, <2>1 DEF Id!RevokeAgent, Id!Deny
    <3> QED
        BY <1>0, <2>0, <3>1 DEF DenyInv, Id!RevokedIsRefused
  <2>2. CASE ~redis.up
    <3>1. UNCHANGED <<redis, acked, late>>
        BY <1>12, <2>2 DEF Id!RevokeAgent, Id!Deny
    <3> QED
        BY <2>0, <3>1, DenyStays
  <2> QED
      BY <2>1, <2>2
<1>13. CASE Id!Registration
    BY <1>1, <1>8, <1>13 DEF Id!Registration, Id!IssueToken, Id!EndToken, Id!Register, Id!LookupNew,
                             Id!LookupTaken, Id!CommitAgent
<1>14. CASE Id!Operation
  <2>1. ASSUME NEW h \in Hosts, \E k \in Tokens : Id!Reenroll(h, k) PROVE DenyInv'
      BY <1>1, <2>1 DEF Id!Reenroll
  <2> QED
      BY <1>2, <1>3, <1>4, <1>5, <1>6, <1>7, <1>14, <2>1 DEF Id!Operation
<1>15. CASE Id!Administration
  <2>1. ASSUME NEW s, Id!Age(s) PROVE DenyInv'
      BY <1>1, <2>1 DEF Id!Age
  <2> QED
      BY <1>9, <1>10, <1>11, <1>12, <1>15, <2>1 DEF Id!Administration
<1>16. CASE UNCHANGED Id!vars
    BY <1>1, <1>16 DEF Id!vars
<1> QED
    BY <1>13, <1>14, <1>15, <1>16 DEF Id!Next

\* An RPC that begins after its agent's revocation was stored does not pass _authenticate_agent,
\* whatever certificate the agent holds, renews to or re-enrolls for, unless Redis left the
\* deny-list look-up of that call unanswered and answered its serial check.
THEOREM RevocationHolds == Id!Init /\ [][Id!Next]_(Id!vars) => []Id!RevokedIsRefused
<1>1. DenyInv => Id!RevokedIsRefused
    BY DEF DenyInv
<1> QED
    BY <1>1, DenyInit, DenyNext, PTL

-----------------------------------------------------------------------------
(* Exceptions.                                                              *)

\* The exception e exists, and u is somebody else than who asked for it.
Another(e, u) == exc[e].status # "none" /\ u \notin {"none", exc[e].by}

\* The second conjunct outlives other requests: who asked for an exception never changes.
WaiverInv ==
    /\ DOMAIN exc = Excs /\ \A e \in Excs : DOMAIN exc[e] = {"status", "by", "ok", "scope", "past"}
    /\ DOMAIN txn = Sessions
    /\ \A s \in Sessions : /\ txn[s].op = "approve" => txn[s].e \in Excs /\ Another(txn[s].e, txn[s].u)
                           /\ txn[s].op = "revoke" => txn[s].e \in Excs
    /\ Drift!FourEyes

LEMMA WaiverInit == Drift!Init => WaiverInv
<1> SUFFICES ASSUME Drift!Init PROVE WaiverInv
    OBVIOUS
<1>1. \A e \in Excs : exc[e] = Drift!NoExc
    BY DEF Drift!Init
<1>2. Drift!NoExc.status = "none" /\ DOMAIN Drift!NoExc = {"status", "by", "ok", "scope", "past"}
    BY DEF Drift!NoExc
<1>3. \A s \in Sessions : txn[s].op = "idle"
    BY DEF Drift!Init, Drift!Idle
<1> QED
    BY <1>1, <1>2, <1>3 DEF Drift!Init, WaiverInv, Drift!FourEyes

\* Requests that change no exception.
LEMMA TxnMoves ==
    ASSUME WaiverInv, UNCHANGED exc, NEW s \in Sessions, NEW t, txn' = [txn EXCEPT ![s] = t],
           t.op = "approve" => t.e \in Excs /\ Another(t.e, t.u),
           t.op = "revoke" => t.e \in Excs
    PROVE  WaiverInv'
<1>1. DOMAIN txn' = Sessions /\ txn'[s] = t /\ \A q \in Sessions \ {s} : txn'[q] = txn[q]
    BY DEF WaiverInv
<1> QED
    BY <1>1 DEF WaiverInv, Another, Drift!FourEyes

\* Exceptions whose row changes without a new requester, and with it the requests under way.
LEMMA ExcMoves ==
    ASSUME WaiverInv, DOMAIN exc' = Excs,
           \A e \in Excs : /\ DOMAIN exc'[e] = {"status", "by", "ok", "scope", "past"}
                           /\ exc[e].status # "none" => exc'[e].status # "none" /\ exc'[e].by = exc[e].by,
           Drift!FourEyes', DOMAIN txn' = Sessions,
           \A q \in Sessions : txn'[q] = txn[q] \/ txn'[q].op = "idle"
    PROVE  WaiverInv'
<1>1. ASSUME NEW q \in Sessions
      PROVE  /\ txn'[q].op = "approve" => txn'[q].e \in Excs /\ Another(txn[q].e, txn[q].u)'
             /\ txn'[q].op = "revoke" => txn'[q].e \in Excs
  <2>1. PICK e, u : e = txn[q].e /\ u = txn[q].u
      OBVIOUS
  <2>2. /\ txn[q].op = "approve" => e \in Excs /\ Another(e, u)
        /\ txn[q].op = "revoke" => e \in Excs
      BY <2>1 DEF WaiverInv
  <2>3. ASSUME e \in Excs, Another(e, u)
        PROVE  Another(e, u)'
      BY <2>3 DEF Another
  <2> QED
      BY <2>1, <2>2, <2>3
<1> QED
    BY <1>1 DEF WaiverInv, Another

LEMMA WaiverNext == UsersAssumption /\ WaiverInv /\ [Drift!Next]_(Drift!vars) => WaiverInv'
<1> SUFFICES ASSUME UsersAssumption, WaiverInv, [Drift!Next]_(Drift!vars) PROVE WaiverInv'
    OBVIOUS
<1>0. /\ DOMAIN exc = Excs /\ \A e \in Excs : DOMAIN exc[e] = {"status", "by", "ok", "scope", "past"}
      /\ DOMAIN txn = Sessions /\ Drift!FourEyes /\ Drift!Idle.op = "idle"
    BY DEF WaiverInv, Drift!Idle
<1>1. CASE UNCHANGED <<exc, txn>>
    BY <1>1 DEF WaiverInv, Another, Drift!FourEyes
<1>2. ASSUME NEW s \in Sessions, NEW e \in Excs, NEW u \in Users, Drift!Approve(s, e, u) PROVE WaiverInv'
  <2>1. PICK t : t = [op |-> "approve", e |-> e, u |-> u]
      OBVIOUS
  <2>2. t.op = "approve" /\ t.e = e /\ t.u = u
      BY <2>1
  <2>3. txn' = [txn EXCEPT ![s] = t] /\ UNCHANGED exc
      BY <1>2, <2>1 DEF Drift!Approve, Drift!Begin
  <2>4. Another(e, u)
      BY <1>2 DEF Drift!Approve, Another, UsersAssumption
  <2> QED
      BY <2>2, <2>3, <2>4, TxnMoves
<1>3. ASSUME NEW s \in Sessions, NEW e \in Excs, Drift!Revoke(s, e) PROVE WaiverInv'
  <2>1. PICK t : t = [op |-> "revoke", e |-> e]
      OBVIOUS
  <2>2. t.op = "revoke" /\ t.e = e
      BY <2>1
  <2>3. txn' = [txn EXCEPT ![s] = t] /\ UNCHANGED exc
      BY <1>3, <2>1 DEF Drift!Revoke, Drift!Begin
  <2> QED
      BY <2>2, <2>3, TxnMoves
<1>4. ASSUME NEW e \in Excs, NEW u \in Users, NEW scope, Drift!Create(e, u, scope) PROVE WaiverInv'
  <2>1. PICK new : new = [Drift!NoExc EXCEPT !.status = "PENDING", !.by = u, !.scope = scope]
      OBVIOUS
  <2>2. new.status = "PENDING" /\ DOMAIN new = {"status", "by", "ok", "scope", "past"}
      BY <2>1 DEF Drift!NoExc
  <2>3. exc' = [exc EXCEPT ![e] = new] /\ UNCHANGED txn /\ exc[e] = Drift!NoExc
      BY <1>4, <2>1 DEF Drift!Create
  <2>4. exc[e].status = "none"
      BY <2>3 DEF Drift!NoExc
  <2>5. DOMAIN exc' = Excs /\ exc'[e] = new /\ \A x \in Excs \ {e} : exc'[x] = exc[x]
      BY <1>0, <2>3
  <2>6. Drift!FourEyes'
      BY <1>0, <2>2, <2>5 DEF Drift!FourEyes
  <2> QED
      BY <1>0, <2>2, <2>3, <2>4, <2>5, <2>6, ExcMoves
<1>5. ASSUME NEW s \in Sessions, Drift!ApproveCommit(s) PROVE WaiverInv'
  <2>1. PICK e, u : e = txn[s].e /\ u = txn[s].u
      OBVIOUS
  <2>2. e \in Excs /\ Another(e, u)
      BY <1>5, <2>1 DEF Drift!ApproveCommit, WaiverInv
  <2>3. exc' = [exc EXCEPT ![e].status = "ACTIVE", ![e].ok = u] /\ txn' = [txn EXCEPT ![s] = Drift!Idle]
      BY <1>5, <2>1 DEF Drift!ApproveCommit
  <2>4. /\ DOMAIN exc' = Excs /\ \A x \in Excs \ {e} : exc'[x] = exc[x]
        /\ DOMAIN exc'[e] = {"status", "by", "ok", "scope", "past"}
        /\ exc'[e].status = "ACTIVE" /\ exc'[e].ok = u /\ exc'[e].by = exc[e].by
      BY <1>0, <2>2, <2>3
  <2>5. Drift!FourEyes'
      BY <1>0, <2>2, <2>4 DEF Drift!FourEyes, Another
  <2>6. DOMAIN txn' = Sessions /\ \A q \in Sessions : txn'[q] = txn[q] \/ txn'[q].op = "idle"
      BY <1>0, <2>3
  <2> QED
      BY <1>0, <2>2, <2>4, <2>5, <2>6, ExcMoves DEF Another
<1>6. ASSUME NEW s \in Sessions, Drift!RevokeCommit(s) PROVE WaiverInv'
  <2>1. PICK e : e = txn[s].e
      OBVIOUS
  <2>2. e \in Excs
      BY <1>6, <2>1 DEF Drift!RevokeCommit, WaiverInv
  <2>3. exc' = [exc EXCEPT ![e].status = "REVOKED"] /\ txn' = [txn EXCEPT ![s] = Drift!Idle]
      BY <1>6, <2>1 DEF Drift!RevokeCommit
  <2>4. /\ DOMAIN exc' = Excs /\ \A x \in Excs \ {e} : exc'[x] = exc[x]
        /\ DOMAIN exc'[e] = {"status", "by", "ok", "scope", "past"}
        /\ exc'[e].status = "REVOKED" /\ exc'[e].by = exc[e].by
      BY <1>0, <2>2, <2>3
  <2>5. Drift!FourEyes'
      BY <1>0, <2>4 DEF Drift!FourEyes
  <2>6. DOMAIN txn' = Sessions /\ \A q \in Sessions : txn'[q] = txn[q] \/ txn'[q].op = "idle"
      BY <1>0, <2>3
  <2> QED
      BY <1>0, <2>4, <2>5, <2>6, ExcMoves
<1>7. ASSUME NEW e \in Excs, Drift!TimePasses(e) PROVE WaiverInv'
  <2>1. exc' = [exc EXCEPT ![e].past = TRUE] /\ UNCHANGED txn
      BY <1>7 DEF Drift!TimePasses
  <2>2. /\ DOMAIN exc' = Excs /\ \A x \in Excs \ {e} : exc'[x] = exc[x]
        /\ DOMAIN exc'[e] = {"status", "by", "ok", "scope", "past"}
        /\ exc'[e].status = exc[e].status /\ exc'[e].by = exc[e].by /\ exc'[e].ok = exc[e].ok
      BY <1>0, <2>1
  <2>3. Drift!FourEyes'
      BY <1>0, <2>2 DEF Drift!FourEyes
  <2> QED
      BY <1>0, <2>1, <2>2, <2>3, ExcMoves
<1>8. CASE Drift!ExpirePendingExceptions
  <2>1. /\ exc' = [e \in Excs |-> IF exc[e].status = "ACTIVE" /\ exc[e].past
                                THEN [exc[e] EXCEPT !.status = "EXPIRED"] ELSE exc[e]]
        /\ UNCHANGED txn
      BY <1>8 DEF Drift!ExpirePendingExceptions
  <2>2. DOMAIN exc' = Excs
      BY <2>1
  <2>3. ASSUME NEW e \in Excs
        PROVE  \/ exc'[e] = exc[e]
               \/ /\ exc[e].status = "ACTIVE" /\ exc'[e].status = "EXPIRED"
                  /\ DOMAIN exc'[e] = {"status", "by", "ok", "scope", "past"}
                  /\ exc'[e].by = exc[e].by /\ exc'[e].ok = exc[e].ok
    <3>1. \/ exc'[e] = exc[e]
          \/ exc[e].status = "ACTIVE" /\ exc'[e] = [exc[e] EXCEPT !.status = "EXPIRED"]
        BY <2>1
    <3> QED
        BY <1>0, <3>1
  <2>4. Drift!FourEyes'
      BY <1>0, <2>3 DEF Drift!FourEyes
  <2> QED
      BY <1>0, <2>1, <2>2, <2>3, <2>4, ExcMoves
<1>9. CASE \/ \E a \in Agents : \/ Drift!HostChanges(a) \/ Drift!Heartbeat(a) \/ Drift!HeartbeatLost(a)
                               \/ \E c \in Drift!Compared : Drift!Resolve(a, c)
           \/ Drift!BaselineChanges
           \/ \E g \in Engines : Drift!Ingest(g) \/ Drift!IngestFails(g)
    BY <1>1, <1>9 DEF Drift!HostChanges, Drift!Heartbeat, Drift!HeartbeatLost, Drift!Resolve,
                      Drift!BaselineChanges, Drift!Ingest, Drift!IngestRead, Drift!IngestCommit,
                      Drift!IngestFails, Drift!waivers
<1>10. CASE UNCHANGED Drift!vars
    BY <1>1, <1>10 DEF Drift!vars
<1> QED
    BY <1>2, <1>3, <1>4, <1>5, <1>6, <1>7, <1>8, <1>9, <1>10 DEF Drift!Next

\* No exception is or was in force on the word of the user who asked for it: the check of approve is
\* made on a row that may change before the commit, and still holds of what is committed.
THEOREM WaiversNeedTwo ==
    ASSUME UsersAssumption
    PROVE  Drift!Spec => []Drift!FourEyes
<1>1. WaiverInv => Drift!FourEyes
    BY DEF WaiverInv
<1>2. WaiverInv /\ [Drift!Next]_(Drift!vars) => WaiverInv'
    BY WaiverNext
<1> QED
    BY <1>1, <1>2, WaiverInit, PTL DEF Drift!Spec

-----------------------------------------------------------------------------
(* Baseline versions.                                                       *)

Statuses == {"DRAFT", "PENDING_APPROVAL", "APPROVED", "PUBLISHED", "DEPRECATED"}

Versions == [status : Statuses, by : Users, ok : Users \cup {"none"}]

\* Somebody else than the author has approved the version i.
Sound(i) == ver[i].ok \notin {"none", ver[i].by}

\* What a request found before it commits is still true of the rows it will write.
RequestOK(r) ==
    /\ r.op \in {"submit", "approve", "publish"} => r.v \in DOMAIN ver
    /\ r.op = "approve" => r.u \in Users /\ r.u # ver[r.v].by
    /\ r.op = "publish" => Sound(r.v) /\ \A i \in r.current : i \in DOMAIN ver /\ Sound(i)

VersionInv ==
    /\ ver \in Seq(Versions)
    /\ DOMAIN request = Sessions
    /\ \A s \in Sessions : RequestOK(request[s])
    /\ Baseline!FourEyes

\* Rows are added and rewritten; who wrote a version stays, and so does a sound approval.
Keeps ==
    /\ DOMAIN ver \subseteq DOMAIN ver'
    /\ \A i \in DOMAIN ver : ver'[i].by = ver[i].by /\ (Sound(i) => Sound(i)')

LEMMA KeepsRequests ==
    ASSUME Keeps, NEW r, RequestOK(r)
    PROVE  RequestOK(r)'
BY DEF Keeps, RequestOK

LEMMA VersionInit == Baseline!Init => VersionInv
<1> SUFFICES ASSUME Baseline!Init PROVE VersionInv
    OBVIOUS
<1>1. PICK u \in Users : ver = <<[status |-> "DRAFT", by |-> u, ok |-> "none"]>>
    BY DEF Baseline!Init
<1>2. [status |-> "DRAFT", by |-> u, ok |-> "none"] \in Versions
    BY DEF Versions, Statuses
<1>3. ver \in Seq(Versions) /\ DOMAIN ver = {1} /\ ver[1].status = "DRAFT"
    BY <1>1, <1>2
<1>4. DOMAIN request = Sessions /\ \A s \in Sessions : request[s].op = "idle"
    BY DEF Baseline!Init, Baseline!Idle
<1> QED
    BY <1>3, <1>4 DEF VersionInv, RequestOK, Baseline!FourEyes

\* Requests that begin or end without a write.
LEMMA RequestMoves ==
    ASSUME VersionInv, UNCHANGED ver, NEW s \in Sessions, NEW r, RequestOK(r),
           request' = [request EXCEPT ![s] = r]
    PROVE  VersionInv'
<1>1. DOMAIN request' = Sessions /\ request'[s] = r /\ \A q \in Sessions \ {s} : request'[q] = request[q]
    BY DEF VersionInv
<1> QED
    BY <1>1 DEF VersionInv, RequestOK, Sound, Baseline!FourEyes

\* Requests that write: the others keep what they read.
LEMMA RowsMove ==
    ASSUME VersionInv, ver' \in Seq(Versions), Baseline!FourEyes', Keeps, DOMAIN request' = Sessions,
           \A q \in Sessions : request'[q] = request[q] \/ request'[q].op \in {"idle", "notify"}
    PROVE  VersionInv'
<1>1. ASSUME NEW q \in Sessions PROVE RequestOK(request[q])'
  <2>1. CASE request'[q] = request[q]
    <3>1. PICK r : r = request[q]
        OBVIOUS
    <3>2. RequestOK(r)'
        BY <3>1, KeepsRequests DEF VersionInv
    <3> QED
        BY <2>1, <3>1, <3>2 DEF RequestOK
  <2>2. CASE request'[q].op \in {"idle", "notify"}
      BY <2>2 DEF RequestOK
  <2> QED
      BY <2>1, <2>2
<1> QED
    BY <1>1 DEF VersionInv

LEMMA VersionNext == UsersAssumption /\ VersionInv /\ [Baseline!Next]_(Baseline!vars) => VersionInv'
<1> SUFFICES ASSUME UsersAssumption, VersionInv, [Baseline!Next]_(Baseline!vars) PROVE VersionInv'
    OBVIOUS
<1>0. /\ ver \in Seq(Versions) /\ DOMAIN request = Sessions /\ \A s \in Sessions : RequestOK(request[s])
      /\ Baseline!FourEyes /\ Baseline!Idle.op = "idle"
    BY DEF VersionInv, Baseline!Idle
<1>i. /\ DOMAIN ver = 1..Len(ver) /\ Len(ver) \in Nat
      /\ \A i \in DOMAIN ver : /\ ver[i] \in Versions /\ DOMAIN ver[i] = {"status", "by", "ok"}
                               /\ ver[i].status \in Statuses
                               /\ ver[i].by \in Users /\ ver[i].ok \in Users \cup {"none"}
  <2>1. DOMAIN ver = 1..Len(ver) /\ Len(ver) \in Nat /\ \A i \in DOMAIN ver : ver[i] \in Versions
      BY <1>0
  <2>2. ASSUME NEW w \in Versions
        PROVE  /\ DOMAIN w = {"status", "by", "ok"} /\ w.status \in Statuses
               /\ w.by \in Users /\ w.ok \in Users \cup {"none"}
      BY DEF Versions
  <2> QED
      BY <2>1, <2>2
<1>1. CASE UNCHANGED <<ver, request>>
    BY <1>1 DEF VersionInv, RequestOK, Sound, Baseline!FourEyes
<1>2. ASSUME NEW u \in Users, Baseline!CreateVersion(u) PROVE VersionInv'
  <2>1. PICK new : new = [status |-> "DRAFT", by |-> u, ok |-> "none"]
      OBVIOUS
  <2>2. new \in Versions /\ new.status = "DRAFT"
      BY <2>1 DEF Versions, Statuses
  <2>3. ver' = Append(ver, new) /\ UNCHANGED request
      BY <1>2, <2>1 DEF Baseline!CreateVersion
  <2>4. /\ ver' \in Seq(Versions) /\ DOMAIN ver' = 1..(Len(ver) + 1)
        /\ ver'[Len(ver) + 1] = new /\ \A i \in DOMAIN ver : ver'[i] = ver[i]
      BY <1>0, <1>i, <2>2, <2>3
  <2>5. DOMAIN ver \subseteq DOMAIN ver' /\ \A i \in DOMAIN ver' : i \in DOMAIN ver \/ i = Len(ver) + 1
      BY <1>i, <2>4
  <2>6. Keeps
      BY <2>4, <2>5 DEF Keeps, Sound
  <2>7. Baseline!FourEyes'
      BY <1>0, <2>2, <2>4, <2>5 DEF Baseline!FourEyes
  <2> QED
      BY <1>0, <2>3, <2>4, <2>6, <2>7, RowsMove
<1>3. ASSUME NEW s \in Sessions, NEW v \in DOMAIN ver, Baseline!Submit(s, v) PROVE VersionInv'
  <2>1. PICK r : r = [op |-> "submit", v |-> v]
      OBVIOUS
  <2>2. RequestOK(r)
      BY <2>1 DEF RequestOK
  <2>3. request' = [request EXCEPT ![s] = r] /\ UNCHANGED ver
      BY <1>3, <2>1 DEF Baseline!Submit, Baseline!Begin
  <2> QED
      BY <2>2, <2>3, RequestMoves
<1>4. ASSUME NEW s \in Sessions, NEW v \in DOMAIN ver, NEW u \in Users, Baseline!Approve(s, v, u)
      PROVE  VersionInv'
  <2>1. PICK r : r = [op |-> "approve", v |-> v, u |-> u]
      OBVIOUS
  <2>2. RequestOK(r)
      BY <1>4, <2>1 DEF RequestOK, Baseline!Approve
  <2>3. request' = [request EXCEPT ![s] = r] /\ UNCHANGED ver
      BY <1>4, <2>1 DEF Baseline!Approve, Baseline!Begin
  <2> QED
      BY <2>2, <2>3, RequestMoves
<1>5. ASSUME NEW s \in Sessions, NEW v \in DOMAIN ver, Baseline!Publish(s, v) \/ Baseline!Rollback(s, v)
      PROVE  VersionInv'
  <2>1. PICK r : r = [op |-> "publish", v |-> v, current |-> Baseline!Published]
      OBVIOUS
  <2>2. r.op = "publish" /\ r.v = v /\ r.current = Baseline!Published
      BY <2>1
  <2>3. Sound(v)
      BY <1>0, <1>5 DEF Sound, Baseline!FourEyes, Baseline!Publish, Baseline!Rollback
  <2>4. \A i \in Baseline!Published : i \in DOMAIN ver /\ Sound(i)
      BY <1>0 DEF Sound, Baseline!FourEyes, Baseline!Published
  <2>5. RequestOK(r)
      BY <2>2, <2>3, <2>4 DEF RequestOK
  <2>6. request' = [request EXCEPT ![s] = r] /\ UNCHANGED ver
      BY <1>5, <2>1 DEF Baseline!Publish, Baseline!Rollback, Baseline!CurrentVersion, Baseline!Begin
  <2> QED
      BY <2>5, <2>6, RequestMoves
<1>6. ASSUME NEW s \in Sessions, Baseline!SubmitCommit(s) PROVE VersionInv'
  <2>1. PICK v : v = request[s].v
      OBVIOUS
  <2>2. v \in DOMAIN ver
      BY <1>0, <1>6, <2>1 DEF RequestOK, Baseline!SubmitCommit
  <2>3. PICK new : new = [ver[v] EXCEPT !.status = "PENDING_APPROVAL"]
      OBVIOUS
  <2>4. new.status = "PENDING_APPROVAL" /\ new.by = ver[v].by /\ new.ok = ver[v].ok
      BY <1>i, <2>2, <2>3
  <2>n. new \in Versions
      BY <1>i, <2>2, <2>3 DEF Versions, Statuses
  <2>5. ver' = [ver EXCEPT ![v] = new] /\ request' = [request EXCEPT ![s] = Baseline!Idle]
      BY <1>6, <2>1, <2>3 DEF Baseline!SubmitCommit
  <2>6. /\ ver' \in Seq(Versions) /\ DOMAIN ver' = DOMAIN ver
        /\ ver'[v] = new /\ \A i \in DOMAIN ver \ {v} : ver'[i] = ver[i]
      BY <1>0, <2>2, <2>n, <2>5
  <2>7. Keeps
      BY <2>4, <2>6 DEF Keeps, Sound
  <2>8. Baseline!FourEyes'
      BY <1>0, <2>4, <2>6 DEF Baseline!FourEyes
  <2>9. DOMAIN request' = Sessions /\ \A q \in Sessions : request'[q] = request[q] \/ request'[q].op = "idle"
      BY <1>0, <2>5
  <2> QED
      BY <2>6, <2>7, <2>8, <2>9, RowsMove
<1>7. ASSUME NEW s \in Sessions, Baseline!ApproveCommit(s) PROVE VersionInv'
  <2>1. PICK v, u : v = request[s].v /\ u = request[s].u
      OBVIOUS
  <2>2. v \in DOMAIN ver /\ u \in Users /\ u # ver[v].by
      BY <1>0, <1>7, <2>1 DEF RequestOK, Baseline!ApproveCommit
  <2>3. PICK new : new = [ver[v] EXCEPT !.status = "APPROVED", !.ok = u]
      OBVIOUS
  <2>4. new.status = "APPROVED" /\ new.by = ver[v].by /\ new.ok = u
      BY <1>i, <2>2, <2>3
  <2>n. new \in Versions
      BY <1>i, <2>2, <2>3 DEF Versions, Statuses
  <2>5. ver' = [ver EXCEPT ![v] = new] /\ request' = [request EXCEPT ![s] = Baseline!Idle]
      BY <1>7, <2>1, <2>3 DEF Baseline!ApproveCommit
  <2>6. /\ ver' \in Seq(Versions) /\ DOMAIN ver' = DOMAIN ver
        /\ ver'[v] = new /\ \A i \in DOMAIN ver \ {v} : ver'[i] = ver[i]
      BY <1>0, <2>2, <2>n, <2>5
  <2>7. Keeps
      BY <2>2, <2>4, <2>6 DEF Keeps, Sound, UsersAssumption
  <2>8. Baseline!FourEyes'
      BY <1>0, <2>2, <2>4, <2>6 DEF Baseline!FourEyes, UsersAssumption
  <2>9. DOMAIN request' = Sessions /\ \A q \in Sessions : request'[q] = request[q] \/ request'[q].op = "idle"
      BY <1>0, <2>5
  <2> QED
      BY <2>6, <2>7, <2>8, <2>9, RowsMove
<1>8. ASSUME NEW s \in Sessions, Baseline!PublishCommit(s) PROVE VersionInv'
  <2>1. PICK r, n : r = request[s] /\ n = [op |-> "notify", n |-> sent + 1]
      OBVIOUS
  <2>2. /\ r.v \in DOMAIN ver /\ Sound(r.v) /\ \A i \in r.current : i \in DOMAIN ver /\ Sound(i)
        /\ n.op = "notify"
      BY <1>0, <1>8, <2>1 DEF RequestOK, Baseline!PublishCommit
  <2>3. ver' = Baseline!Promoted(r) /\ request' = [request EXCEPT ![s] = n]
      BY <1>8, <2>1 DEF Baseline!PublishCommit
  <2>4. DOMAIN ver' = DOMAIN ver
      BY <2>3 DEF Baseline!Promoted
  <2>5. ASSUME NEW i \in DOMAIN ver
        PROVE  /\ ver'[i] \in Versions /\ ver'[i].by = ver[i].by /\ ver'[i].ok = ver[i].ok
               /\ ver'[i].status = ver[i].status \/ Sound(i)
    <3>1. PICK st : st = IF i = r.v THEN "PUBLISHED" ELSE IF i \in r.current THEN "DEPRECATED"
                         ELSE ver[i].status
        OBVIOUS
    <3>2. ver'[i] = [ver[i] EXCEPT !.status = st]
        BY <2>3, <3>1 DEF Baseline!Promoted
    <3>3. st \in Statuses /\ (st = ver[i].status \/ Sound(i))
        BY <1>i, <2>2, <3>1 DEF Statuses
    <3>4. ver'[i].by = ver[i].by /\ ver'[i].ok = ver[i].ok /\ ver'[i].status = st
        BY <1>i, <3>2
    <3>5. ver'[i] \in Versions
        BY <1>i, <3>2, <3>3 DEF Versions
    <3> QED
        BY <3>3, <3>4, <3>5
  <2>6. ver' \in Seq(Versions)
    <3>1. ver' \in [1..Len(ver) -> Versions]
        BY <1>i, <2>3, <2>4, <2>5 DEF Baseline!Promoted
    <3> QED
        BY <1>i, <3>1
  <2>7. Keeps
      BY <2>4, <2>5 DEF Keeps, Sound
  <2>8. Baseline!FourEyes'
      BY <1>0, <2>4, <2>5 DEF Baseline!FourEyes, Sound
  <2>9. DOMAIN request' = Sessions /\ \A q \in Sessions : request'[q] = request[q] \/ request'[q].op = "notify"
      BY <1>0, <2>2, <2>3
  <2> QED
      BY <2>6, <2>7, <2>8, <2>9, RowsMove
<1>9. ASSUME NEW s \in Sessions, Baseline!Notify(s) \/ Baseline!NotifyLost(s) PROVE VersionInv'
  <2>1. RequestOK(Baseline!Idle)
      BY <1>0 DEF RequestOK
  <2> QED
      BY <1>9, <2>1, RequestMoves DEF Baseline!Notify, Baseline!NotifyLost
<1>10. CASE \/ \E a \in Agents : Baseline!Move(a)
            \/ \E t \in Threads : Baseline!Engine(t) \/ Baseline!ReconcileOnStartup(t) \/ Baseline!Fail(t)
    BY <1>1, <1>10 DEF Baseline!Move, Baseline!Engine, Baseline!ReconcileOnStartup, Baseline!Fail,
                       Baseline!RecomputeAll, Baseline!GetBaselineEffective, Baseline!RecomputeAgent,
                       Baseline!Finish, Baseline!store
<1>11. CASE UNCHANGED Baseline!vars
    BY <1>1, <1>11 DEF Baseline!vars
<1> QED
    BY <1>2, <1>3, <1>4, <1>5, <1>6, <1>7, <1>8, <1>9, <1>10, <1>11 DEF Baseline!Next, Baseline!Commit

\* No baseline version is approved, published or was published on the word of its author: a publish
\* or a rollback may commit over a row that other requests have changed since it was checked, and
\* what it makes live has still been approved by a second user.
THEOREM VersionsNeedTwo ==
    ASSUME UsersAssumption
    PROVE  Baseline!Spec => []Baseline!FourEyes
<1>1. VersionInv => Baseline!FourEyes
    BY DEF VersionInv
<1>2. VersionInv /\ [Baseline!Next]_(Baseline!vars) => VersionInv'
    BY VersionNext
<1> QED
    BY <1>1, <1>2, VersionInit, PTL DEF Baseline!Spec

CONSTANTS Ids, Times, Others, Limit, MaxCached

VARIABLES listing, rowset, now, cached, cursor, returned, again, start, walk

Pages == INSTANCE CursorPaging WITH table <- rowset, seen <- returned

CONSTANT Types

VARIABLES cfg, native, reached

Config == INSTANCE StepConfig WITH stage <- reached

CONSTANTS Collectors, Unknown

VARIABLES doc, handled

Document == INSTANCE PolicyDocument WITH stage <- handled

-----------------------------------------------------------------------------
(* List endpoints: a row that stays is returned once, page by page.         *)

\* Ids and timestamps are ordered, the tables are finite, a page holds a row.
PageAssumption ==
    /\ Ids \subseteq Int /\ IsFiniteSet(Ids)
    /\ Times \subseteq Int
    /\ Limit \in Nat \ {0}

\* Row a comes after row b in a listing by time and id.
Below(a, b) == a.ts < b.ts \/ (a.ts = b.ts /\ a.id < b.id)

LEMMA KeysetOrder ==
    ASSUME NEW a, NEW b
    PROVE  Pages!After(<<"ts", "id">>, a, b) <=> Below(a, b)
<1> DEFINE cols == <<"ts", "id">>
<1>1. Len(cols) = 2 /\ cols[1] = "ts" /\ cols[2] = "id" /\ 1..Len(cols) = {1, 2}
    OBVIOUS
<1>2. Pages!After(cols, a, b) <=>
        \E i \in {1, 2} : a[cols[i]] < b[cols[i]] /\ \A j \in 1..(i - 1) : a[cols[j]] = b[cols[j]]
    BY <1>1 DEF Pages!After
<1>3. 1..(1 - 1) = {} /\ 1..(2 - 1) = {1}
    OBVIOUS
<1> HIDE DEF cols
<1>4. Pages!After(cols, a, b) <=>
        \/ a[cols[1]] < b[cols[1]] /\ \A j \in 1..(1 - 1) : a[cols[j]] = b[cols[j]]
        \/ a[cols[2]] < b[cols[2]] /\ \A j \in 1..(2 - 1) : a[cols[j]] = b[cols[j]]
    BY <1>2
<1>5. Pages!After(cols, a, b) <=>
        a[cols[1]] < b[cols[1]] \/ (a[cols[2]] < b[cols[2]] /\ a[cols[1]] = b[cols[1]])
    BY <1>3, <1>4
<1>6. Pages!After(cols, a, b) <=> a["ts"] < b["ts"] \/ (a["id"] < b["id"] /\ a["ts"] = b["ts"])
    BY <1>1, <1>5
<1> QED
    BY <1>6 DEF Below, cols

LEMMA BelowIsOrder ==
    ASSUME PageAssumption, NEW a \in Pages!Row, NEW b \in Pages!Row, NEW c \in Pages!Row
    PROVE  /\ Below(a, b) /\ Below(b, c) => Below(a, c)
           /\ Below(a, b) /\ ~Below(c, b) => ~Below(c, a)
           /\ ~Below(a, b) /\ a.id # b.id => Below(b, a)
           /\ a.id = c.id /\ a.ts >= c.ts /\ Below(a, b) => Below(c, b)
<1>1. a.id \in Int /\ b.id \in Int /\ c.id \in Int /\ a.ts \in Int /\ b.ts \in Int /\ c.ts \in Int
    BY DEF PageAssumption, Pages!Row
<1> QED
    BY <1>1 DEF Below

LEMMA PagesCardinality == \A S : Pages!Cardinality(S) = Cardinality(S)
BY DEF Pages!Cardinality, Cardinality

\* Ids are unique.
Keyed(T) == \A a, b \in T : a.id = b.id => a = b

\* Row r follows cursor c.
Follows(r, c) == c = << >> \/ Below(r, c[1])

\* The rows a request may return: those of the table and those of the cached pages.
Live == rowset \cup UNION {e.rows : e \in cached}

\* A page, of whatever moment: its rows are those that follow its cursor up to the next one,
\* and none of those that have been there all the time is missing.
GoodPage(e) ==
    /\ e.rows \subseteq Pages!Row
    /\ e.next # << >> => e.next[1] \in e.rows
    /\ \A q \in e.rows : Follows(q, e.at) /\ (e.next # << >> => ~Below(q, e.next[1]))
    /\ \A r \in start : Follows(r, e.at) => r \in e.rows \/ (e.next # << >> /\ Below(r, e.next[1]))

\* A row that was there all the time has been returned or is still ahead, and a row that was
\* returned is not ahead any more, also under a newer timestamp.
PageOK ==
    /\ rowset \subseteq Pages!Row /\ IsFiniteSet(rowset) /\ Keyed(Live)
    /\ start \subseteq rowset /\ returned \subseteq Pages!Row
    /\ cursor # << >> => cursor[1] \in Pages!Row
    /\ \A e \in cached : GoodPage(e)
    /\ listing.moves => cached = {}
    /\ start \subseteq returned \cup (IF walk = "over" THEN {} ELSE {r \in start : Follows(r, cursor)})
    /\ walk # "over" => \A r \in returned : ~Follows(r, cursor)
    /\ \A r \in returned, q \in Live : q.id = r.id => q.ts >= r.ts
    /\ ~again

PageInv == listing \in Pages!Exact => PageOK

LEMMA ExactKey ==
    ASSUME NEW l \in Pages!Exact
    PROVE  l.sort = <<"ts", "id">> /\ l.key = <<"ts", "id">> /\ (l.moves => ~l.cache)
BY DEF Pages!Exact, Pages!Keyset, Pages!ListJobs, Pages!ListAlerts, Pages!ListServers, Pages!ListIncidents,
       Pages!ListEvents, Pages!ListDriftEvents, Pages!ListExceptions, Pages!ListAssessments, Pages!ListRules,
       Pages!ListPolicySets, Pages!ListReports, Pages!ListBaselines, Pages!ListRemediationPlans, Pages!ListSignals

LEMMA PageInit ==
    ASSUME PageAssumption, Pages!Init, listing \in Pages!Exact
    PROVE  PageOK
<1>1. /\ rowset \subseteq Pages!Row /\ Keyed(rowset) /\ start = rowset /\ cursor = << >>
      /\ cached = {} /\ returned = {} /\ again = FALSE
    BY DEF Pages!Init, Keyed
<1>2. IsFiniteSet(rowset)
  <2> DEFINE f == [r \in rowset |-> r.id]
  <2>1. f \in [rowset -> Ids]
      BY <1>1 DEF Pages!Row
  <2>2. \A a, b \in rowset : f[a] = f[b] => a = b
      BY <1>1 DEF Keyed
  <2>3. f \in Injection(rowset, Ids)
      BY <2>1, <2>2 DEF Injection, IsInjective
  <2> QED
      BY <2>3, FS_Injection DEF PageAssumption
<1>3. walk # "over"
    BY DEF Pages!Init
<1>4. Live = rowset
    BY <1>1 DEF Live
<1> QED
    BY <1>1, <1>2, <1>3, <1>4 DEF PageOK, Follows

\* What the database returns is a good page, with rows of the table.
LEMMA DatabasePage ==
    ASSUME PageAssumption, listing \in Pages!Exact, PageOK, NEW c, NEW e \in Pages!Pages(c)
    PROVE  e.at = c /\ e.rows \subseteq rowset /\ GoodPage(e)
<1> DEFINE R == {r \in rowset : Follows(r, c)}
<1>1. Pages!Remaining(rowset, c) = R
  <2>1. listing.key = <<"ts", "id">>
      BY ExactKey
  <2> QED
      BY <2>1, KeysetOrder DEF Pages!Remaining, Follows
<1>2. R \subseteq rowset /\ IsFiniteSet(R) /\ Cardinality(R) \in Nat
    BY FS_Subset, FS_CardinalityType DEF PageOK
<1>3. CASE Cardinality(R) > Limit
  <2>1. \E P \in Pages!FirstRows(R, Limit) : \E last \in P :
          (\A r \in P : ~Pages!After(listing.sort, r, last)) /\ e = [at |-> c, rows |-> P, next |-> <<last>>]
      BY <1>1, <1>3, PagesCardinality DEF Pages!Pages
  <2>2. PICK P \in Pages!FirstRows(R, Limit) : \E last \in P :
          (\A r \in P : ~Pages!After(listing.sort, r, last)) /\ e = [at |-> c, rows |-> P, next |-> <<last>>]
      BY <2>1
  <2>3. PICK last \in P :
          (\A r \in P : ~Pages!After(listing.sort, r, last)) /\ e = [at |-> c, rows |-> P, next |-> <<last>>]
      BY <2>2
  <2>4. /\ P \subseteq R
        /\ \A r \in P, q \in R \ P : ~Below(r, q)
      BY <2>3, KeysetOrder, ExactKey DEF Pages!FirstRows
  <2>5. last \in P /\ \A r \in P : ~Below(r, last)
      BY <2>3, KeysetOrder, ExactKey
  <2>6. e.at = c /\ e.rows = P /\ e.next # << >> /\ e.next[1] = last
      BY <2>3
  <2>7. \A q \in R \ P : Below(q, last)
    <3> SUFFICES ASSUME NEW q \in R \ P PROVE Below(q, last)
        OBVIOUS
    <3>1. q \in Pages!Row /\ last \in Pages!Row /\ q.id # last.id
        BY <1>2, <2>4, <2>5 DEF PageOK, Keyed, Live
    <3> QED
        BY <2>4, <2>5, <3>1, BelowIsOrder
  <2> QED
      BY <1>2, <2>4, <2>5, <2>6, <2>7 DEF GoodPage, PageOK
<1>4. CASE ~(Cardinality(R) > Limit)
  <2>1. e.at = c /\ e.rows = R /\ e.next = << >>
      BY <1>1, <1>4, PagesCardinality DEF Pages!Pages
  <2> QED
      BY <1>2, <2>1 DEF GoodPage, PageOK
<1> QED
    BY <1>3, <1>4

\* A page that is stored adds no row to those a request may return.
LEMMA StoreKeeps ==
    ASSUME listing \in Pages!Exact, PageOK, NEW e, GoodPage(e), e.rows \subseteq Live, Pages!Store(e),
           UNCHANGED <<listing, rowset, start>>
    PROVE  /\ Live' \subseteq Live /\ \A f \in cached' : GoodPage(f)'
           /\ listing'.moves => cached' = {}
<1>1. cached' \subseteq cached \cup {e} /\ (cached' # cached => listing.cache)
    BY DEF Pages!Store
<1>2. Live' \subseteq Live
    BY <1>1 DEF Live
<1>3. \A f \in cached' : GoodPage(f)'
    BY <1>1 DEF GoodPage, PageOK
<1> QED
    BY <1>1, <1>2, <1>3, ExactKey DEF PageOK

LEMMA FetchKeeps ==
    ASSUME PageAssumption, listing \in Pages!Exact, PageOK, Pages!FetchPage
    PROVE  PageOK'
<1>1. PICK e \in Pages!Answers(cursor) :
        /\ Pages!Store(e)
        /\ again' = (again \/ \E r \in e.rows, q \in returned : r.id = q.id)
        /\ returned' = returned \cup e.rows
        /\ cursor' = e.next
        /\ walk' = IF e.next = << >> THEN "over" ELSE "open"
    BY DEF Pages!FetchPage
<1>2. walk = "open" /\ UNCHANGED <<listing, rowset, start>>
    BY DEF Pages!FetchPage
<1>3. e.at = cursor /\ e.rows \subseteq Live /\ GoodPage(e)
    BY <1>1, DatabasePage DEF Pages!Answers, Live, PageOK
<1>4. /\ Live' \subseteq Live /\ \A f \in cached' : GoodPage(f)'
      /\ listing'.moves => cached' = {}
    BY <1>1, <1>2, <1>3, StoreKeeps
<1>5. e.rows \subseteq Pages!Row /\ returned' \subseteq Pages!Row
    BY <1>1, <1>3 DEF GoodPage, PageOK
<1>6. \A q \in e.rows, r \in returned : q.id # r.id
  <2> SUFFICES ASSUME NEW q \in e.rows, NEW r \in returned, q.id = r.id PROVE FALSE
      OBVIOUS
  <2>1. q.ts >= r.ts /\ Follows(q, cursor) /\ ~Follows(r, cursor)
      BY <1>2, <1>3 DEF PageOK, GoodPage
  <2>2. cursor # << >> /\ Below(q, cursor[1]) /\ ~Below(r, cursor[1])
      BY <2>1 DEF Follows
  <2>3. q \in Pages!Row /\ r \in Pages!Row /\ cursor[1] \in Pages!Row
      BY <1>5, <2>2 DEF PageOK
  <2> QED
      BY <2>1, <2>2, <2>3, BelowIsOrder
<1>7. ~again'
    BY <1>1, <1>6 DEF PageOK
<1>8. start' \subseteq returned' \cup (IF walk' = "over" THEN {} ELSE {r \in start' : Follows(r, cursor')})
    BY <1>1, <1>2, <1>3 DEF PageOK, GoodPage, Follows
<1>9. ASSUME walk' # "over", NEW r \in returned' PROVE ~Follows(r, cursor')
  <2>1. cursor' # << >> /\ cursor' = e.next /\ cursor'[1] \in e.rows
      BY <1>1, <1>3, <1>9 DEF GoodPage
  <2>2. CASE r \in e.rows
      BY <1>3, <2>1, <2>2 DEF GoodPage, Follows
  <2>3. CASE r \in returned
    <3>1. Follows(cursor'[1], cursor) /\ ~Follows(r, cursor)
        BY <1>2, <1>3, <2>1, <2>3 DEF GoodPage, PageOK
    <3>2. cursor # << >> /\ Below(cursor'[1], cursor[1]) /\ ~Below(r, cursor[1])
        BY <3>1 DEF Follows
    <3>3. cursor'[1] \in Pages!Row /\ cursor[1] \in Pages!Row /\ r \in Pages!Row
        BY <1>5, <2>1, <2>3, <3>2 DEF PageOK
    <3>4. ~Below(r, cursor'[1])
        BY <3>2, <3>3, BelowIsOrder
    <3> QED
        BY <2>1, <3>4 DEF Follows
  <2> QED
      BY <1>1, <1>9, <2>2, <2>3
<1>10. ASSUME NEW r \in returned', NEW q \in Live', q.id = r.id PROVE q.ts >= r.ts
  <2>1. CASE r \in returned
      BY <1>4, <1>10, <2>1 DEF PageOK
  <2>2. CASE r \in e.rows
    <3>1. q = r /\ r \in Pages!Row
        BY <1>3, <1>4, <1>5, <1>10, <2>2 DEF PageOK, Keyed
    <3>2. r.ts \in Int
        BY <3>1 DEF Pages!Row, PageAssumption
    <3> QED
        BY <3>1, <3>2
  <2> QED
      BY <1>1, <1>10, <2>1, <2>2
<1>11. rowset' \subseteq Pages!Row /\ IsFiniteSet(rowset') /\ start' \subseteq rowset'
    BY <1>2 DEF PageOK
<1>12. \A a, b \in Live' : a.id = b.id => a = b
    BY <1>4 DEF PageOK, Keyed
<1>13. cursor' # << >> => cursor'[1] \in Pages!Row
    BY <1>1, <1>3, <1>5 DEF GoodPage
<1> QED
    BY <1>4, <1>5, <1>7, <1>8, <1>9, <1>10, <1>11, <1>12, <1>13 DEF PageOK, Keyed

\* Another client's request, and a page that leaves the cache.
LEMMA CacheKeeps ==
    ASSUME PageAssumption, listing \in Pages!Exact, PageOK,
           Pages!ForgetPage \/ (\E c : Pages!ReadElsewhere(c))
    PROVE  PageOK'
<1>1. UNCHANGED <<listing, rowset, start, cursor, returned, again, walk>>
    BY DEF Pages!ForgetPage, Pages!ReadElsewhere
<1>2. Live' \subseteq Live /\ (\A f \in cached' : GoodPage(f)') /\ (listing'.moves => cached' = {})
  <2>1. CASE Pages!ForgetPage
    <3>1. cached' \subseteq cached
        BY <2>1 DEF Pages!ForgetPage
    <3> QED
        BY <1>1, <3>1 DEF Live, GoodPage, PageOK
  <2>2. CASE \E c : Pages!ReadElsewhere(c)
    <3>1. PICK c : Pages!ReadElsewhere(c)
        BY <2>2
    <3>2. PICK e \in Pages!Pages(c) : Pages!Store(e)
        BY <3>1 DEF Pages!ReadElsewhere
    <3>3. e.rows \subseteq Live /\ GoodPage(e)
        BY <3>2, DatabasePage DEF Live
    <3> QED
        BY <1>1, <3>2, <3>3, StoreKeeps
  <2> QED
      BY <2>1, <2>2
<1>3. \A a, b \in Live' : a.id = b.id => a = b
    BY <1>2 DEF PageOK, Keyed
<1> QED
    BY <1>1, <1>2, <1>3 DEF PageOK, Keyed

\* Rows that stay stay ahead, whatever else the table gains or loses.
LEMMA TableKeeps ==
    ASSUME PageOK, rowset' \subseteq Pages!Row, IsFiniteSet(rowset'), \A a, b \in Live' : a.id = b.id => a = b,
           start' \subseteq start, start' \subseteq rowset', UNCHANGED <<listing, cached, cursor, returned, again, walk>>,
           \A r \in returned, q \in Live' : q.id = r.id => q.ts >= r.ts
    PROVE  PageOK'
<1>1. \A e \in cached' : GoodPage(e)'
    BY DEF PageOK, GoodPage
<1> QED
    BY <1>1 DEF PageOK, Keyed

LEMMA InsertKeeps ==
    ASSUME PageAssumption, PageOK, Pages!InsertRow
    PROVE  PageOK'
<1>1. PICK r \in Pages!Row : (\A q \in Pages!Known : q.id # r.id) /\ rowset' = rowset \cup {r}
    BY DEF Pages!InsertRow
<1>2. UNCHANGED <<listing, cached, cursor, returned, again, start, walk>>
    BY DEF Pages!InsertRow
<1>3. IsFiniteSet(rowset')
    BY <1>1, FS_AddElement DEF PageOK
<1>4. Live' = Live \cup {r} /\ \A q \in Live \cup returned : q.id # r.id
    BY <1>1, <1>2 DEF Live, Pages!Known
<1>5. \A a, b \in Live' : a.id = b.id => a = b
    BY <1>4 DEF Keyed, PageOK
<1>6. \A s \in returned, q \in Live' : q.id = s.id => q.ts >= s.ts
    BY <1>4 DEF PageOK
<1> QED
    BY <1>1, <1>2, <1>3, <1>5, <1>6, TableKeeps DEF PageOK

LEMMA DeleteKeeps ==
    ASSUME PageOK, Pages!DeleteRow
    PROVE  PageOK'
<1>1. PICK r \in rowset : rowset' = rowset \ {r} /\ start' = start \ {r}
    BY DEF Pages!DeleteRow
<1>2. UNCHANGED <<listing, cached, cursor, returned, again, walk>>
    BY DEF Pages!DeleteRow
<1>3. IsFiniteSet(rowset')
    BY <1>1, FS_Subset DEF PageOK
<1>4. Live' \subseteq Live
    BY <1>1, <1>2 DEF Live
<1>5. \A a, b \in Live' : a.id = b.id => a = b
    BY <1>4 DEF Keyed, PageOK
<1> QED
    BY <1>1, <1>2, <1>3, <1>4, <1>5, TableKeeps DEF PageOK

LEMMA TouchKeeps ==
    ASSUME PageAssumption, PageOK, Pages!TouchRow
    PROVE  PageOK'
<1>1. PICK r \in rowset, t \in Times :
        /\ t > r.ts
        /\ rowset' = (rowset \ {r}) \cup {[r EXCEPT !.ts = t]} /\ start' = start \ {r}
    BY DEF Pages!TouchRow
<1>2. UNCHANGED <<listing, cached, cursor, returned, again, walk>> /\ cached = {}
    BY DEF Pages!TouchRow, PageOK
<1>3. PICK m : m = [r EXCEPT !.ts = t]
    OBVIOUS
<1>4. r \in Pages!Row /\ m \in Pages!Row /\ m.id = r.id /\ m.ts = t
    BY <1>1, <1>3 DEF PageOK, Pages!Row
<1>5. IsFiniteSet(rowset')
  <2>1. IsFiniteSet(rowset \ {r})
      BY FS_Subset DEF PageOK
  <2> QED
      BY <1>1, <2>1, FS_AddElement
<1>6. Live = rowset /\ Live' = (rowset \ {r}) \cup {m}
    BY <1>1, <1>2, <1>3 DEF Live
<1>7. \A a, b \in Live' : a.id = b.id => a = b
    BY <1>1, <1>4, <1>6 DEF Keyed, PageOK
<1>8. ASSUME NEW s \in returned, NEW q \in Live', q.id = s.id PROVE q.ts >= s.ts
  <2>1. CASE q # m
      BY <1>6, <1>8, <2>1 DEF PageOK
  <2>2. CASE q = m
    <3>1. r.ts >= s.ts /\ s \in Pages!Row
        BY <1>1, <1>4, <1>6, <1>8, <2>2 DEF PageOK
    <3>2. r.ts \in Int /\ s.ts \in Int /\ t \in Int
        BY <1>1, <1>4, <3>1 DEF Pages!Row, PageAssumption
    <3> QED
        BY <1>1, <1>4, <2>2, <3>1, <3>2
  <2> QED
      BY <2>1, <2>2
<1>9. rowset' \subseteq Pages!Row /\ start' \subseteq start /\ start' \subseteq rowset'
    BY <1>1, <1>3, <1>4 DEF PageOK
<1> QED
    BY <1>2, <1>5, <1>7, <1>8, <1>9, TableKeeps

\* Reading page after page returns every row that was there all the time, and none twice: no
\* tie, no insertion, deletion or update between two requests hides or repeats one, for any
\* table and page size, where the cursor has the columns the list is sorted by
\* (paginate_keyset).  Where pages are cached (list_jobs, list_servers), a row counts that was
\* there a TTL before the first request.
THEOREM PagesLoseNothing ==
    ASSUME PageAssumption
    PROVE  Pages!Spec => []Pages!NothingLost
<1>1. Pages!Init => PageInv
    BY PageInit DEF PageInv
<1>2. PageInv /\ [Pages!Next]_(Pages!vars) => PageInv'
  <2> SUFFICES ASSUME PageInv, [Pages!Next]_(Pages!vars), listing' \in Pages!Exact' PROVE PageOK'
      BY DEF PageInv
  <2>1. listing' = listing
      BY DEF Pages!Next, Pages!vars, Pages!BeginWalk, Pages!FetchPage, Pages!ForgetPage, Pages!InsertRow,
             Pages!DeleteRow, Pages!TouchRow, Pages!ReadElsewhere
  <2>2. listing \in Pages!Exact /\ PageOK
      BY <2>1 DEF PageInv
  <2>3. CASE UNCHANGED Pages!vars \/ Pages!BeginWalk
    <3>1. /\ UNCHANGED <<listing, rowset, cached, cursor, returned, again, start>>
          /\ walk' = "over" <=> walk = "over"
        BY <2>3 DEF Pages!vars, Pages!BeginWalk
    <3> QED
        BY <2>2, <3>1 DEF PageOK, GoodPage, Keyed, Live
  <2> QED
      BY <2>2, <2>3, FetchKeeps, CacheKeeps, InsertKeeps, DeleteKeeps, TouchKeeps DEF Pages!Next
<1>3. PageInv => Pages!NothingLost
    BY DEF PageInv, PageOK, Pages!NothingLost
<1> QED
    BY <1>1, <1>2, <1>3, PTL DEF Pages!Spec

-----------------------------------------------------------------------------
(* Workflow steps: what was published can be dispatched.                   *)

\* The node types with fields of their own.
TypesAssumption ==
    Types \subseteq {"service", "system", "file", "package", "check", "wait", "ansible", "command", "webhook"}

\* What has passed the compiler and the walk over the inputs stays what it was.
StepInv ==
    /\ cfg.type \in Types
    /\ reached \in {"published", "reached"} => Config!ConfigValid(cfg) /\ Config!InputsValid(cfg)
    /\ Config!PublishedDispatches

\* The fields the compilers need are among those _validate_step_configs asks for.
LEMMA NeededIsChecked ==
    ASSUME NEW c, TypesAssumption, c.type \in Types, Config!ConfigValid(c), ~Config!Unasked(c)
    PROVE  Config!Needed(c) \subseteq c.keys
<1>1. Config!Checked(c) \subseteq c.keys
    BY DEF Config!ConfigValid
<1>2. CASE c.type = "service"
    BY <1>1, <1>2 DEF Config!Needed, Config!Checked
<1>3. CASE c.type = "system"
    BY <1>1, <1>3 DEF Config!Needed, Config!Checked
<1>4. CASE c.type = "file"
  <2>1. Config!Action(c) = "chmod" => "mode" \in c.keys
      BY <1>4 DEF Config!Unasked
  <2> QED
      BY <1>1, <1>4, <2>1 DEF Config!Needed, Config!Checked
<1>5. CASE c.type = "package"
    BY <1>1, <1>5 DEF Config!Needed, Config!Checked
<1>6. CASE c.type = "check"
    BY <1>1, <1>6 DEF Config!Needed
<1>7. CASE c.type = "wait"
    BY <1>7 DEF Config!Needed
<1>8. CASE c.type \in {"ansible", "command", "webhook"}
    BY <1>8 DEF Config!Unasked
<1> QED
    BY <1>2, <1>3, <1>4, <1>5, <1>6, <1>7, <1>8 DEF TypesAssumption

\* The run refuses, or stumbles over, only what the validation did not look at.
LEMMA CompilerAgrees ==
    ASSUME NEW c, TypesAssumption, c.type \in Types, Config!ConfigValid(c), Config!InputsValid(c),
           Config!CompileRefuses(c) \/ Config!Escapes(c)
    PROVE  Config!Unasked(c)
<1>1. Config!Action(c) \in Config!Actions[c.type]
    BY DEF Config!ConfigValid
<1>2. ~(Config!HostGiven(c) /\ ~c.hostOk)
    BY DEF Config!InputsValid
<1>3. CASE Config!CompileRefuses(c)
    BY <1>1, <1>2, <1>3, NeededIsChecked DEF Config!CompileRefuses, Config!Unasked
<1>4. CASE Config!Escapes(c)
  <2>1. c.bad # Config!Good
      BY <1>4 DEF Config!Escapes, Config!Good
  <2> QED
      BY <2>1 DEF Config!Unasked
<1> QED
    BY <1>3, <1>4

\* "the same fields _dispatch_step/_require enforce at runtime, caught here instead so a broken
\* step never reaches an actual run" holds of every configuration, whichever agents the run
\* meets, that has none of the faults Unasked lists: a published step that fails or raises when
\* it is reached has one of them (_validate_step_configs, _dispatch_step).
THEOREM PublishedStepsDispatch ==
    ASSUME TypesAssumption
    PROVE  Config!Spec => []Config!PublishedDispatches
<1>1. Config!Init => StepInv
  <2>1. ASSUME NEW c \in Config!Configs PROVE c.type \in Types
    <3>1. PICK d \in Config!Shapes :
                c \in [type : {d.type}, action : {d.action}, keys : {d.keys},
                       hostOk : {TRUE, ~Config!HostGiven(d)}, namesOk : {TRUE, ~Config!NamesGiven(d)},
                       bad : {Config!Good} \cup Config!Misfits(d)]
        BY <2>1 DEF Config!Configs
    <3>2. c.type = d.type
        BY <3>1
    <3>3. d.type \in Types
        BY <3>1 DEF Config!Shapes
    <3> QED
        BY <3>2, <3>3
  <2> QED
      BY <2>1 DEF Config!Init, StepInv, Config!PublishedDispatches
<1>2. ASSUME StepInv, [Config!Next]_(Config!vars) PROVE StepInv'
  <2>1. ASSUME Config!Publish PROVE StepInv'
    <3>1. UNCHANGED cfg /\ reached' \in {"published", "refused"}
          /\ (reached' = "published" => Config!ConfigValid(cfg) /\ Config!InputsValid(cfg))
        BY <2>1 DEF Config!Publish
    <3>2. (Config!ConfigValid(cfg) /\ Config!InputsValid(cfg))' <=> Config!ConfigValid(cfg) /\ Config!InputsValid(cfg)
        BY <3>1
    <3> QED
        BY <1>2, <3>1, <3>2 DEF StepInv, Config!PublishedDispatches
  <2>2. ASSUME Config!Start PROVE StepInv'
      BY <1>2, <2>2 DEF Config!Start, StepInv, Config!PublishedDispatches
  <2>3. ASSUME Config!Dispatch PROVE StepInv'
    <3>1. UNCHANGED cfg /\ reached' \in {"failed", "wedged", "waiting", "native", "job"}
        BY <2>3 DEF Config!Dispatch
    <3>2. Config!ConfigValid(cfg) /\ Config!InputsValid(cfg) /\ cfg.type \in Types
        BY <1>2, <2>3 DEF StepInv, Config!Dispatch
    <3>3. CASE cfg.type = "wait"
      <4>1. Config!Action(cfg) \in Config!Actions["wait"] /\ Config!Actions["wait"] = {"agent", "duration"}
          BY <3>2, <3>3 DEF Config!ConfigValid, Config!Actions
      <4>2. reached' = "waiting"
          BY <2>3, <3>3, <4>1 DEF Config!Dispatch
      <4> QED
          BY <1>2, <3>1, <4>2 DEF StepInv, Config!PublishedDispatches
    <3>4. CASE cfg.type # "wait"
      <4>1. reached' \in {"failed", "wedged"} => Config!CompileRefuses(cfg) \/ Config!Escapes(cfg)
          BY <2>3, <3>4 DEF Config!Dispatch
      <4>2. reached' \in {"failed", "wedged"} => Config!Unasked(cfg)
          BY <3>2, <4>1, CompilerAgrees
      <4>3. Config!Unasked(cfg) => Config!Unasked(cfg)'
          BY <3>1 DEF Config!Unasked
      <4> QED
          BY <1>2, <3>1, <4>2, <4>3 DEF StepInv, Config!PublishedDispatches
    <3> QED
        BY <3>3, <3>4
  <2>4. ASSUME Config!PollRaises PROVE StepInv'
    <3>1. UNCHANGED cfg /\ reached' = "wedged" /\ cfg.bad # Config!Good
        BY <2>4 DEF Config!PollRaises
    <3>2. Config!Unasked(cfg)'
        BY <3>1 DEF Config!Unasked, Config!Good
    <3> QED
        BY <1>2, <3>1, <3>2 DEF StepInv, Config!PublishedDispatches
  <2>5. ASSUME Config!Upgrade PROVE StepInv'
      BY <1>2, <2>5 DEF Config!Upgrade, StepInv, Config!PublishedDispatches
  <2>6. ASSUME UNCHANGED Config!vars PROVE StepInv'
      BY <1>2, <2>6 DEF Config!vars, StepInv, Config!PublishedDispatches
  <2> QED
      BY <1>2, <2>1, <2>2, <2>3, <2>4, <2>5, <2>6 DEF Config!Next
<1>3. StepInv => Config!PublishedDispatches
    BY DEF StepInv
<1> QED
    BY <1>1, <1>2, <1>3, PTL DEF Config!Spec

-----------------------------------------------------------------------------
(* Policy documents: what is stored is accepted.                           *)

\* The unknown collector is unknown.
DocumentAssumption == Unknown \notin Collectors

DocumentInv ==
    /\ handled = "draft" => doc \in Document!Documents
    /\ handled = "stored" => (Document!ParseAccepts(doc) <=> ~Document!OnlyParserRefuses(doc))
    /\ Document!StoredIsAccepted

\* Parse accepts a document validate has accepted and normalised, but for what it alone refuses.
LEMMA ValidatedParses ==
    ASSUME DocumentAssumption, NEW d \in Document!Documents, ~Document!Refused(d)
    PROVE  LET n == Document!Normalized(d)
           IN  Document!ParseAccepts(n) <=> ~Document!OnlyParserRefuses(n)
<1> DEFINE n == Document!Normalized(d)
<1>1. /\ d.header /\ ~d.spec /\ d.reserved \in {"absent", "empty", "falsy", "list"}
      /\ Unknown \notin DOMAIN d.collectors
      /\ \A c \in DOMAIN d.collectors : d.collectors[c] # "bad"
    BY DEF Document!Documents, Document!Refused
<1>2. /\ n.top = d.top /\ n.meta = d.meta /\ n.header = d.header /\ n.spec = d.spec
      /\ n.reserved = (IF d.reserved = "empty" THEN "absent" ELSE d.reserved)
      /\ n.collectors = [c \in Collectors \cup DOMAIN d.collectors |->
                            IF c \in DOMAIN d.collectors THEN d.collectors[c] ELSE "off"]
    BY DEF Document!Normalized, Document!Documents
<1>3. DOMAIN n.collectors = Collectors \cup DOMAIN d.collectors
      /\ \A c \in DOMAIN n.collectors : n.collectors[c] # "bad"
    BY <1>1, <1>2
<1>4. n.reserved \in {"absent", "empty"} <=> n.reserved \notin {"falsy", "list"}
    BY <1>1, <1>2
<1> HIDE DEF n
<1>5. Document!ParseAccepts(n) <=> ~Document!OnlyParserRefuses(n)
    BY <1>1, <1>2, <1>3, <1>4 DEF Document!ParseAccepts, Document!OnlyParserRefuses, DocumentAssumption
<1> QED
    BY <1>5 DEF n

\* Of the documents the control plane stores the agent's strict parser rejects exactly those
\* with unknown keys outside spec or a reserved section that is no mapping of values it takes for
\* empty, for any set of collectors and every combination of flags, sections and keys (validate and policy.Parse).
THEOREM StoredParses ==
    ASSUME DocumentAssumption
    PROVE  Document!Spec => []Document!StoredIsAccepted
<1>1. Document!Init => DocumentInv
    BY DEF Document!Init, DocumentInv, Document!StoredIsAccepted
<1>2. ASSUME DocumentInv, [Document!Next]_(Document!vars) PROVE DocumentInv'
  <2>1. ASSUME Document!Compile PROVE DocumentInv'
      BY <1>2, <2>1, ValidatedParses DEF Document!Compile, DocumentInv, Document!StoredIsAccepted
  <2>2. ASSUME Document!AgentParse PROVE DocumentInv'
      BY <1>2, <2>2 DEF Document!AgentParse, DocumentInv, Document!StoredIsAccepted,
                        Document!ParseAccepts, Document!OnlyParserRefuses
  <2>3. ASSUME UNCHANGED Document!vars PROVE DocumentInv'
      BY <1>2, <2>3 DEF Document!vars, DocumentInv, Document!StoredIsAccepted,
                        Document!ParseAccepts, Document!OnlyParserRefuses
  <2> QED
      BY <1>2, <2>1, <2>2, <2>3 DEF Document!Next
<1>3. DocumentInv => Document!StoredIsAccepted
    BY DEF DocumentInv
<1> QED
    BY <1>1, <1>2, <1>3, PTL DEF Document!Spec

=============================================================================
