--------------------------- MODULE MCAgentService ---------------------------
(* AgentService with one tool of each kind in the hands of the model. *)
EXTENDS AgentService

MCNames == {"query_alarm_events", ExportTool, "no_such_tool"}
MCPermissions == DefaultRunPermissions
=============================================================================
