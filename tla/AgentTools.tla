----------------------------- MODULE AgentTools -----------------------------
(***************************************************************************)
(* The tools of the Agent (server-agent/app/tools): which there are, in    *)
(* which order they are registered, which permission lists them, how an    *)
(* invocation can end, and what the export tool makes of its input.  Pure  *)
(* definitions, used by both runtimes.                                     *)
(***************************************************************************)
EXTENDS Naturals, Sequences

---------------------------------------------------------------------------
(* The handlers that ask nobody: six only reshape their input, the export tool *)
(* only prepares a plan.                                                       *)

LocalTools ==
    {"suggest_next_queries", "build_evidence_pack",
     "remember_analysis_preference", "build_report_outline",
     "generate_table_from_observations", "validate_report_completeness"}

ExportTool == "create_export_report"

---------------------------------------------------------------------------
(* The registry: <<tool, permission>> in the order of registration. *)

RegistryHead == <<
    <<"query_monitoring_trend", "monitoring:read">>,
    <<"query_pipe_segment_context", "pipeline:read">>,
    <<"query_equipment_status", "equipment:read">>,
    <<"query_related_tasks", "task:read">>,
    <<"search_similar_cases", "case:read">>,
    <<"resolve_area_scope", "pipeline:read">>,
    <<"query_area_data_catalog", "monitoring:read">>,
    <<"query_area_operational_overview", "monitoring:read">>,
    <<"resolve_operational_scope", "pipeline:read">>,
    <<"query_monitoring_aggregate", "monitoring:read">>,
    <<"query_monitoring_history", "monitoring:read">>,
    <<"query_area_monitoring_summary", "monitoring:read">>,
    <<"query_area_alarm_summary", "alarm:read">>,
    <<"find_recent_anomalies", "monitoring:read">>,
    <<"find_top_risk_segments", "monitoring:read">> >>

RegistryMiddle == <<
    <<"query_alarm_events", "alarm:read">>,
    <<"find_unclosed_alarms", "alarm:read">>,
    <<"find_stale_inspections", "inspection:read">>,
    <<"query_area_task_summary", "task:read">>,
    <<"trace_operation_chain", "operations:read">>,
    <<"query_inspection_history", "inspection:read">>,
    <<"resolve_asset_scope", "pipeline:read">>,
    <<"query_area_asset_summary", "equipment:read">>,
    <<"query_asset_relationships", "pipeline:read">>,
    <<"query_maintenance_history", "maintenance:read">>,
    <<"query_topology_impact", "pipeline:read">>,
    <<"query_emergency_plan", "emergency:read">>,
    <<"query_case_library", "case:read">>,
    <<"query_sop_by_scenario", "case:read">>,
    <<"query_operation_logs", "log:read">>,
    <<"query_report_inventory", "report:read">> >>

RegistryTail == <<
    <<"suggest_next_queries", "monitoring:read">>,
    <<"build_evidence_pack", "report:read">>,
    <<"remember_analysis_preference", "report:read">>,
    <<"build_report_outline", "report:read">>,
    <<"generate_table_from_observations", "report:read">>,
    <<"validate_report_completeness", "report:read">>,
    <<ExportTool, "report:write">> >>

\* Mutant of Registry: the export tool is registered before the local tools.
Registry_exportEarly ==
    RegistryHead \o <<<<ExportTool, "report:write">>>> \o RegistryMiddle
    \o SelectSeq(RegistryTail, LAMBDA entry : entry[1] # ExportTool)

\* build_business_registry.
Registry == RegistryHead \o RegistryMiddle \o RegistryTail

RegisteredTools == {Registry[i][1] : i \in DOMAIN Registry}

\* _invoke: every other tool is one GET on the web server.
RemoteTools == RegisteredTools \ (LocalTools \cup {ExportTool})

\* The permissions every endpoint passes to the runtime.
DefaultRunPermissions ==
    {"monitoring:read", "pipeline:read", "knowledge:read", "equipment:read",
     "task:read", "case:read", "alarm:read", "inspection:read",
     "maintenance:read", "emergency:read", "log:read", "operations:read",
     "report:read", "report:write"}

\* ToolRegistry.available_tools: the tools a caller may be shown, by their place
\* in the order of registration.
AvailableTools(permissions) == {i \in DOMAIN Registry : Registry[i][2] \in permissions}

---------------------------------------------------------------------------
(* Invocations *)

\* ToolRegistry.invoke looks the name up and gives the handler eight seconds.
\* It raises for an unknown name and for a handler that is late or raises, as a
\* remote one does on any HTTP or JSON error.
MayRaise(tool) == tool \notin RegisteredTools \/ tool \in RemoteTools

MayReturn(tool) == tool \in RegisteredTools

\* The formats an export can have, and the inputs worth telling apart.
ExportFormats == {"pdf", "excel", "txt", "md", "docx"}
FormatInputs == {"none", "excel", "word", "slides"}

\* _export_plan_from_payload: aliases are resolved, anything unknown is a pdf.
ExportFormat(input) ==
    CASE input = "markdown"        -> "md"
      [] input \in {"word", "doc"} -> "docx"
      [] input \in ExportFormats   -> input
      [] OTHER                     -> "pdf"

\* The export plan a returned result carries, "none" unless it is the export
\* tool's; the file itself is made after the run.
PlanOf(tool, input) == IF tool = ExportTool THEN ExportFormat(input) ELSE "none"

\* _extract_export_plan reads the events backwards: the latest plan counts.
LatestPlan(earlier, tool, input) ==
    IF PlanOf(tool, input) = "none" THEN earlier ELSE PlanOf(tool, input)
=============================================================================
