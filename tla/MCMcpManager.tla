---------------------------- MODULE MCMcpManager ----------------------------
(* McpManager on small sets of servers, callers and sessions. *)
EXTENDS McpManager
=============================================================================
