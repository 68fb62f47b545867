--------------------------- MODULE MCAgentMonitor ---------------------------
(***************************************************************************)
(* AgentMonitor on small instances.                                        *)
(***************************************************************************)
EXTENDS AgentMonitor
=============================================================================
