---------------------------- MODULE AgentIdentity ----------------------------
(***************************************************************************)
(* How a host gets, keeps and loses its identity: enrollment tokens,       *)
(* POST /agents/register, the certificate the isolated CA signer issues,   *)
(* the gate every agent RPC passes, certificate renewal on both sides, and *)
(* the two revocation lists kept in Redis.                                 *)
(*                                                                         *)
(* A registration is four steps of one request: the token is read, the     *)
(* host name is looked up, one commit stores the agent and the token's use *)
(* (the session does not autoflush), and only then is the certificate      *)
(* signed and the answer sent.  Other requests run between them.           *)
(***************************************************************************)
EXTENDS Naturals, FiniteSets, Sequences

CONSTANTS Hosts,      \* the machines
          Tokens,     \* the enrollment tokens, all single-use
          SameName,   \* whether the machines report the same host name
          Faults,     \* what may go wrong: "ca", "redis", "reply", "crash", "token"
          Serial,     \* whether registrations run one at a time
          MaxFaults, MaxRows, MaxCerts

VARIABLES token,    \* EnrollmentToken rows; regs counts the agents it admitted
          row,      \* Agent rows, in order; the position is the agent_id
          cert,     \* issued certificates, in order; the position is the serial
          host,     \* files of each machine, the certificate of its open connection and the
                    \* RPC that is at the gate with it
          req,      \* the request or renewal each machine has under way
          redis,    \* [up, denied, bad, limited]: deny-list, revoked serials, renewal marks
          caUp,
          acked,    \* agent ids whose revocation reached Redis
          late,     \* an RPC of such an agent passed the gate that should not have
          faults

vars == <<token, row, cert, host, req, redis, caUp, acked, late, faults>>

Name(h) == IF SameName THEN "host" ELSE h
Idle    == [at |-> "idle", tok |-> "none", id |-> 0, serial |-> 0]

\* No RPC is at the gate.  One that is has "heard" from the deny-list or not, and
\* began before or after the revocation of its agent was stored.
NoCall  == [at |-> "none", after |-> FALSE]

Init ==
    /\ token = [k \in Tokens |-> [state |-> "none", used |-> FALSE, regs |-> 0]]
    /\ row = << >>
    /\ cert = << >>
    /\ host = [h \in Hosts |-> [id |-> 0, key |-> 0, cert |-> 0, link |-> 0, rpc |-> NoCall]]
    /\ req = [h \in Hosts |-> Idle]
    /\ redis = [up |-> TRUE, denied |-> {}, bad |-> {}, limited |-> {}]
    /\ caUp = TRUE
    /\ acked = {}
    /\ late = FALSE
    /\ faults = 0

Fault(f) == f \in Faults /\ faults < MaxFaults /\ faults' = faults + 1

-----------------------------------------------------------------------------
(* Enrollment tokens. *)

IssueToken(k) ==
    /\ token[k].state = "none"
    /\ token' = [token EXCEPT ![k].state = "live"]
    /\ UNCHANGED <<row, cert, host, req, redis, caUp, acked, late, faults>>

\* revoke_enrollment_token, or the expiry passes.
EndToken(k) ==
    /\ Fault("token")
    /\ token[k].state = "live"
    /\ token' = [token EXCEPT ![k].state = "dead"]
    /\ UNCHANGED <<row, cert, host, req, redis, caUp, acked, late>>

\* The checks of validate_enrollment_token, expiry and revocation as one.
Valid(k) == token[k].state = "live" /\ ~token[k].used

-----------------------------------------------------------------------------
(* Registration. *)

Quiet == ~Serial \/ \A h \in Hosts : req[h].at \notin {"checked", "commit", "sign"}

\* The dependency validates the token and marks it used in the request's own
\* session.  The installer registers a machine that has no certificate.
Register(h, k) ==
    /\ req[h].at = "idle" /\ host[h].cert = 0 /\ Quiet
    /\ Valid(k)
    /\ req' = [req EXCEPT ![h] = [Idle EXCEPT !.at = "checked", !.tok = k]]
    /\ UNCHANGED <<token, row, cert, host, redis, caUp, acked, late, faults>>

\* Mutant: any agent counts as the one with the name.
Known_Any(n) == 1..Len(row)

Known(n) == {i \in 1..Len(row) : row[i].name = n}

\* No agent has the host name.
LookupNew(h) ==
    /\ req[h].at = "checked" /\ Len(row) < MaxRows
    /\ Known(Name(h)) = {}
    /\ req' = [req EXCEPT ![h].at = "commit"]
    /\ UNCHANGED <<token, row, cert, host, redis, caUp, acked, late, faults>>

\* The host name is taken and the installer has no certificate to show: 409,
\* and the rollback leaves the token unused.
LookupTaken(h) ==
    /\ req[h].at = "checked"
    /\ Known(Name(h)) # {}
    /\ req' = [req EXCEPT ![h] = Idle]
    /\ UNCHANGED <<token, row, cert, host, redis, caUp, acked, late, faults>>

\* _verify_reenrollment_proof: the certificate is the agent's own and in date.
Proves(s, n) == cert[s].id \in Known(n) /\ cert[s].life # "expired"

\* Mutant: the check fails open.
NotRevoked_Open(s) == s \notin redis.bad

\* assert_not_revoked, failing closed: a Redis outage refuses.
NotRevoked(s) == redis.up /\ s \notin redis.bad

\* Re-enrollment: the caller shows the agent's current certificate, whose
\* serial must not be revoked.
Reenroll(h, k) ==
    LET s == host[h].cert IN
    /\ req[h].at = "idle" /\ s # 0 /\ Quiet
    /\ Valid(k)
    /\ Proves(s, Name(h)) /\ NotRevoked(s)
    /\ req' = [req EXCEPT ![h] = [Idle EXCEPT !.at = "commit", !.tok = k, !.id = cert[s].id]]
    /\ UNCHANGED <<token, row, cert, host, redis, caUp, acked, late, faults>>

\* Agent row and token in one commit.
CommitAgent(h) ==
    LET r == req[h] IN
    /\ r.at = "commit"
    /\ token' = [token EXCEPT ![r.tok].used = TRUE, ![r.tok].regs = @ + 1]
    /\ \/ /\ r.id = 0
          /\ row' = Append(row, [name |-> Name(h), status |-> "PENDING"])
          /\ req' = [req EXCEPT ![h].at = "sign", ![h].id = Len(row) + 1]
       \/ /\ r.id # 0
          /\ row' = [row EXCEPT ![r.id].status = "PENDING"]
          /\ req' = [req EXCEPT ![h].at = "sign"]
    /\ UNCHANGED <<cert, host, redis, caUp, acked, late, faults>>

\* ca_signer_service.sign: the identity is the common name, the serial is new.
Signed(i) == [id |-> i, life |-> "fresh"]

\* The installer's files, before the agent runs.
Files(i, s) == [id |-> i, key |-> s, cert |-> s, link |-> 0, rpc |-> NoCall]

\* The signer answers, and the installer writes both files.
SignCert(h) ==
    LET r == req[h] IN
    /\ r.at = "sign" /\ caUp /\ Len(cert) < MaxCerts
    /\ cert' = Append(cert, Signed(r.id))
    /\ host' = [host EXCEPT ![h] = Files(r.id, Len(cert) + 1)]
    /\ req' = [req EXCEPT ![h] = Idle]
    /\ UNCHANGED <<token, row, redis, caUp, acked, late, faults>>

\* CASignerError: the answer has an agent_id and empty certificates, which the
\* installer writes.  Or the answer never reaches the installer.
SignFails(h) ==
    /\ req[h].at = "sign"
    /\ \/ ~caUp /\ host' = [host EXCEPT ![h] = Files(req[h].id, 0)]
                /\ UNCHANGED faults
       \/ Fault("reply") /\ UNCHANGED host
    /\ req' = [req EXCEPT ![h] = Idle]
    /\ UNCHANGED <<token, row, cert, redis, caUp, acked, late>>

-----------------------------------------------------------------------------
(* The agent's connection and the gate of its RPCs. *)

\* dial: the key pair must load and the certificate be in date.
Usable(h) == host[h].cert # 0 /\ host[h].key = host[h].cert /\ cert[host[h].cert].life # "expired"

Connect(h) ==
    /\ host[h].link = 0 /\ Usable(h)
    /\ host' = [host EXCEPT ![h].link = host[h].cert]
    /\ UNCHANGED <<token, row, cert, req, redis, caUp, acked, late, faults>>

\* The connection is closed, with what was under way on it.
Closed(h) == [host EXCEPT ![h].link = 0, ![h].rpc = NoCall]

\* The identity the handshake proved, and what the deny-list says of it.
CommonName(s) == cert[s].id
Denied(i)     == redis.up /\ i \in redis.denied

\* _authenticate_agent asks the deny-list first.  get_cached makes None of every
\* error, so an unreachable Redis, or one command that failed, is not noticed.
AskDenyList(h) ==
    LET i == CommonName(host[h].link)
        Asked(a) == host' = [host EXCEPT ![h].rpc = [at |-> a, after |-> i \in acked]]
    IN
    /\ host[h].link # 0 /\ host[h].rpc.at = "none"
    /\ \/ redis.up /\ ~Denied(i) /\ Asked("heard") /\ UNCHANGED faults
       \/ redis.up /\ Fault("redis") /\ Asked("unheard")
       \/ ~redis.up /\ Asked("unheard") /\ UNCHANGED faults
    /\ UNCHANGED <<token, row, cert, req, redis, caUp, acked, late>>

\* Then it asks for the serial, an await of its own.
Passes(h) == host[h].rpc.at # "none" /\ NotRevoked(host[h].link)

\* It began after the revocation, and either the deny-list answered it or the
\* serial check did not: nothing excuses that it passes.
Wrong(h) == host[h].rpc.after /\ (host[h].rpc.at = "heard" \/ ~redis.up)

Heartbeat(h) ==
    /\ Passes(h)
    /\ row' = [row EXCEPT ![CommonName(host[h].link)].status = "ACTIVE"]
    /\ late' = (late \/ Wrong(h))
    /\ host' = [host EXCEPT ![h].rpc = NoCall]
    /\ UNCHANGED <<token, cert, req, redis, caUp, acked, faults>>

\* The gate aborts the call: the deny-list has the agent, the serial is revoked,
\* or the serial check has no answer.
Refused(h) ==
    LET s == host[h].link IN
    /\ s # 0
    /\ \/ host[h].rpc.at = "none" /\ Denied(CommonName(s)) /\ UNCHANGED faults
       \/ host[h].rpc.at # "none" /\ ~NotRevoked(s) /\ UNCHANGED faults
       \/ host[h].rpc.at # "none" /\ redis.up /\ Fault("redis")
    /\ host' = Closed(h)
    /\ UNCHANGED <<token, row, cert, req, redis, caUp, acked, late>>

-----------------------------------------------------------------------------
(* Renewal: RenewCertificate on the server, maybeRenewCertificate on the agent. *)

\* A successful heartbeat finds the certificate near its end.  The reply may be
\* lost; the hour's mark is set either way.
Renew(h) ==
    LET s == host[h].link IN
    /\ req[h].at = "idle" /\ Passes(h) /\ cert[s].life = "due" /\ s = host[h].cert
    /\ late' = (late \/ Wrong(h))
    /\ host' = [host EXCEPT ![h].rpc = NoCall]
    /\ cert[s].id \notin redis.limited
    /\ caUp /\ Len(cert) < MaxCerts
    /\ cert' = Append(cert, Signed(cert[s].id))
    /\ redis' = [redis EXCEPT !.limited = @ \cup {cert[s].id}]
    /\ \/ req' = [req EXCEPT ![h] = [Idle EXCEPT !.at = "key", !.serial = Len(cert) + 1]] /\ UNCHANGED faults
       \/ Fault("reply") /\ UNCHANGED req
    /\ UNCHANGED <<token, row, caUp, acked>>

WriteKey(h) ==
    /\ req[h].at = "key"
    /\ host' = [host EXCEPT ![h].key = req[h].serial]
    /\ req' = [req EXCEPT ![h].at = "cert"]
    /\ UNCHANGED <<token, row, cert, redis, caUp, acked, late, faults>>

\* The second file, then Reconnect closes the old connection.
WriteCert(h) ==
    /\ req[h].at = "cert"
    /\ host' = [host EXCEPT ![h].cert = req[h].serial, ![h].link = 0, ![h].rpc = NoCall]
    /\ req' = [req EXCEPT ![h] = Idle]
    /\ UNCHANGED <<token, row, cert, redis, caUp, acked, late, faults>>

\* The agent dies, whatever it was writing, and starts again.
Crash(h) ==
    /\ Fault("crash")
    /\ req[h].at \in {"key", "cert"} \/ host[h].link # 0
    /\ req' = [req EXCEPT ![h] = IF @.at \in {"key", "cert"} THEN Idle ELSE @]
    /\ host' = Closed(h)
    /\ UNCHANGED <<token, row, cert, redis, caUp, acked, late>>

\* A certificate ages; the renewal window of seven days is long enough for the
\* agent's retries, so a certificate in use is not let expire under it.
Age(s) ==
    /\ \/ cert[s].life = "fresh" /\ cert' = [cert EXCEPT ![s].life = "due"]
       \/ /\ cert[s].life = "due" /\ \A h \in Hosts : s \notin {host[h].cert, req[h].serial}
          /\ cert' = [cert EXCEPT ![s].life = "expired"]
    /\ UNCHANGED <<token, row, host, req, redis, caUp, acked, late, faults>>

\* The hour of the renewal mark is over.
MarkExpires(i) ==
    /\ i \in redis.limited
    /\ redis' = [redis EXCEPT !.limited = @ \ {i}]
    /\ UNCHANGED <<token, row, cert, host, req, caUp, acked, late, faults>>

-----------------------------------------------------------------------------
(* Administration and outages. *)

\* set_cached swallows a Redis error.
Deny(i) == IF redis.up THEN [redis EXCEPT !.denied = @ \cup {i}] ELSE redis

\* POST /agents/{id}/revoke: the answer is "revoked" whether the flag was stored
\* or not; the history keeps the revocations that were.
RevokeAgent(i) ==
    /\ i \notin acked
    /\ redis' = Deny(i)
    /\ acked' = IF redis.up THEN acked \cup {i} ELSE acked
    /\ UNCHANGED <<token, row, cert, host, req, caUp, late, faults>>

\* POST /admin/certificates/{serial}/revoke: a Redis error reaches the caller.
RevokeCert(s) ==
    /\ redis.up /\ s \notin redis.bad
    /\ redis' = [redis EXCEPT !.bad = @ \cup {s}]
    /\ UNCHANGED <<token, row, cert, host, req, caUp, acked, late, faults>>

UnrevokeCert(s) ==
    /\ redis.up /\ s \in redis.bad
    /\ redis' = [redis EXCEPT !.bad = @ \ {s}]
    /\ UNCHANGED <<token, row, cert, host, req, caUp, acked, late, faults>>

Outage ==
    /\ \/ redis.up /\ Fault("redis") /\ redis' = [redis EXCEPT !.up = FALSE] /\ UNCHANGED caUp
       \/ caUp /\ Fault("ca") /\ caUp' = FALSE /\ UNCHANGED redis
    /\ UNCHANGED <<token, row, cert, host, req, acked, late>>

Repair ==
    /\ \/ ~redis.up /\ redis' = [redis EXCEPT !.up = TRUE] /\ UNCHANGED caUp
       \/ ~caUp /\ caUp' = TRUE /\ UNCHANGED redis
    /\ UNCHANGED <<token, row, cert, host, req, acked, late, faults>>

-----------------------------------------------------------------------------

Registration ==
    \/ \E k \in Tokens : IssueToken(k) \/ EndToken(k)
    \/ \E h \in Hosts :
          \/ \E k \in Tokens : Register(h, k)
          \/ LookupNew(h) \/ LookupTaken(h) \/ CommitAgent(h) \/ SignCert(h) \/ SignFails(h)

Operation ==
    \E h \in Hosts : \/ Connect(h) \/ AskDenyList(h) \/ Heartbeat(h) \/ Refused(h) \/ Crash(h)
                     \/ Renew(h) \/ WriteKey(h) \/ WriteCert(h)
                     \/ \E k \in Tokens : Reenroll(h, k)

Administration ==
    \/ \E s \in 1..Len(cert) : Age(s) \/ RevokeCert(s) \/ UnrevokeCert(s)
    \/ \E i \in 1..Len(row) : MarkExpires(i) \/ RevokeAgent(i)
    \/ Outage \/ Repair

Next == Registration \/ Operation \/ Administration

\* Every request and every agent runs to its end, tokens are issued, and
\* outages are repaired.
Fairness ==
    /\ \A h \in Hosts :
          /\ SF_vars(\E k \in Tokens : Register(h, k))
          /\ WF_vars(LookupNew(h) \/ LookupTaken(h))
          /\ WF_vars(CommitAgent(h)) /\ SF_vars(SignCert(h)) /\ WF_vars(SignFails(h))
    /\ \A k \in Tokens : WF_vars(IssueToken(k))
    /\ WF_vars(Repair)

\* Enrollment alone, with the outages that matter to it.
Enrolling == Registration \/ Outage \/ Repair

-----------------------------------------------------------------------------

\* An RPC that begins after its agent's revocation was stored does not pass the gate,
\* whatever certificate the agent holds, renews to or re-enrolls for, unless Redis left the
\* deny-list look-up unanswered and answered the serial check of the same call; an outage
\* that lasts refuses (_authenticate_agent, get_cached, assert_not_revoked).
RevokedIsRefused == ~late

\* Every machine that keeps trying to enroll ends up with a certificate.
EnrollsEventually == \A h \in Hosts : <>(host[h].cert # 0)
=============================================================================
