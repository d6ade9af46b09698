---------------------------- MODULE MCAgentPump ----------------------------
(* Instances of AgentPump for TLC.                                         *)
EXTENDS AgentPump, MCParams

PumpParams == OnePayload \cup AllScopes(NonString)

=============================================================================
