----------------------------- MODULE MCPlatform -----------------------------
(***************************************************************************)
(* The safety settings of MCAutomation and MCControl, checked in one run:  *)
(* the components of the two share no state, and `part' names the one that *)
(* moves.                                                                  *)
(***************************************************************************)
EXTENDS MCAutomation

VARIABLES token, idRow, cert, host, idReq, redis, caUp, acked, late, idFaults,
          meta, file, keys, legacy, keyReq, ready, cache, keyAgent, flight, rejected, unsigned, keyFaults,
          deps, row, agent, wire, applied, losses, restarts, rolled

controlVars ==
    <<token, idRow, cert, host, idReq, redis, caUp, acked, late, idFaults,
      meta, file, keys, legacy, keyReq, ready, cache, keyAgent, flight, rejected, unsigned, keyFaults,
      deps, row, agent, wire, applied, losses, restarts, rolled>>

Control == INSTANCE MCControl

PlatformInit ==
    \/ AutomationInit /\ Control!ControlIdle
    \/ AutomationIdle /\ Control!ControlInit

PlatformNext ==
    \/ AutomationNext /\ UNCHANGED <<part, controlVars>>
    \/ Control!ControlNext /\ UNCHANGED <<part, automationVars>>

PlatformSpec == PlatformInit /\ [][PlatformNext]_<<part, automationVars, controlVars>>

-----------------------------------------------------------------------------

\* An RPC begun after its agent's revocation was stored does not pass the gate, unless Redis
\* failed for one look-up and answered the other of that same call (_authenticate_agent).
RevokedIsRefused == Control!RevokedIsRefused

\* Signed jobs are accepted while operators rotate keys by the runbook, none leaves unsigned
\* when a signature is required, and a registered version has its key file (KeyManager).
KeysServe == Control!KeysServe

\* A deployment shown as applied was committed by the agent (_apply_policy_report).
AppliedIsReal == Control!AppliedIsReal
=============================================================================
