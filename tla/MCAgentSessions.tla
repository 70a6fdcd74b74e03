---------------------------- MODULE MCAgentSessions ----------------------------
(***************************************************************************)
(* AgentSessions on small instances.                                       *)
(*   AgentSessions.cfg  one session, two callers, one chat model that gets *)
(*                      in the way, one restart                            *)
(*   AgentDrain.cfg     one caller, and the session's runtime ends         *)
(***************************************************************************)
EXTENDS AgentSessions
===============================================================================
