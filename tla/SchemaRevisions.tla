--------------------------- MODULE SchemaRevisions ---------------------------
(***************************************************************************)
(* backend/alembic/versions: every revision as the operations its          *)
(* upgrade() and its downgrade() run, in their order.  There is no 014:    *)
(* the down_revision of 015 is 013.                                        *)
(***************************************************************************)
EXTENDS SchemaOps

M001Fleet == <<Make("policies", {}, {"parent_policy_id"}),
               Make("agents", {}, {"scope", "cve_count", "ix_agents_scope"}),
               Add("agents", {"fk_agent_current_policy", "fk_agent_plugin_policy"},
                 {"policies"}), Make("packages", {"agents"}, {}), Make("cves", {}, {}),
               Make("package_vulnerabilities", {"cves"}, {})>>

M001Work == <<Make("jobs", {}, {"uq_jobs_dedup_key"}),
              Add("jobs", {"jobs_policy_id_fkey"}, {"policies"}),
              Make("job_results", {"agents", "jobs"}, {}),
              Make("agent_vulnerabilities", {"agents", "cves", "jobs"}, {}),
              Make("plugins", {}, {}), Make("plugin_installations", {"agents", "plugins"}, {}),
              Make("alert_rules", {}, {}),
              Make("alerts", {"agents", "alert_rules", "cves", "jobs", "policies"}, {})>>

M001Trail == <<Make("audit_logs", {}, {}), Make("policy_audit", {"policies"}, {}),
               Make("user_profiles", {}, {}), Make("role_assignments", {}, {}),
               Make("agent_health", {"agents"}, {}), Make("agent_metrics", {}, {}),
               Make("settings", {}, {})>>

M001 == [
    up   |-> M001Fleet \o M001Work \o M001Trail,
    down |-> <<Drop("settings"), Drop("agent_metrics"), Drop("agent_health"),
               Drop("role_assignments"), Drop("user_profiles"), Drop("policy_audit"),
               Drop("audit_logs"), Drop("alerts"), Drop("alert_rules"),
               Drop("plugin_installations"), Drop("plugins"), Drop("agent_vulnerabilities"),
               Drop("job_results"), Drop("jobs"), Drop("package_vulnerabilities"), Drop("cves"),
               Drop("packages"),
               Strip("agents", {"fk_agent_current_policy", "fk_agent_plugin_policy"}),
               Drop("agents"), Drop("policies")>>]

M002 == [
    up   |-> <<Add("agents", {"cve_last_scan"}, {}),
               Add("packages", {"source", "is_security_update", "installed_date"}, {}),
               Make("repositories", {"agents"}, {}), Make("update_policies", {}, {}),
               Make("update_jobs", {}, {"ix_update_job_scope", "ix_update_job_status"}),
               Make("update_job_results", {"agents", "update_jobs"}, {"ix_update_result_job_id",
                 "ix_update_result_agent_id"})>>,
    down |-> <<Drop("update_job_results"), Drop("update_jobs"), Drop("update_policies"),
               Drop("repositories"),
               Strip("packages", {"installed_date", "is_security_update", "source"}),
               Strip("agents", {"cve_last_scan"})>>]

M003 == [
    up   |-> <<Add("agents", {"fqdn", "system_users", "recent_logs"}, {})>>,
    down |-> <<Strip("agents", {"recent_logs", "system_users", "fqdn"})>>]

M004 == [
    up   |-> <<Add("agents", {"last_packages_checksum"}, {})>>,
    down |-> <<Strip("agents", {"last_packages_checksum"})>>]

M005 == [
    up   |-> <<Add("agents", {"disks", "network_interfaces", "block_devices"}, {})>>,
    down |-> <<Strip("agents", {"block_devices", "network_interfaces", "disks"})>>]

M006 == [
    up   |-> <<Add("agents", {"listening_ports"}, {})>>,
    down |-> <<Strip("agents", {"listening_ports"})>>]

M007 == [
    up   |-> <<Make("categories", {}, {}), Make("projects", {"categories"}, {}),
               Add("agents", {"category_id", "project_id"}, {"categories", "projects"})>>,
    down |-> <<Strip("agents", {"project_id", "category_id"}), Drop("projects"),
               Drop("categories")>>]

M008 == [
    up   |-> <<Strip("agents", {"ix_agents_scope", "scope"})>>,
    down |-> <<Add("agents", {"scope", "ix_agents_scope"}, {})>>]

M009 == [up |-> <<Make("playbooks", {}, {"content NOT NULL"})>>, down |-> <<Drop("playbooks")>>]

M010 == [
    up   |-> <<Make("playbook_templates", {"playbooks"}, {})>>,
    down |-> <<Drop("playbook_templates")>>]

M011 == [
    up   |-> <<Make("ansible_roles", {}, {"files NOT NULL"}), Add("playbooks", {"role_ids"}, {})>>,
    down |-> <<Strip("playbooks", {"role_ids"}), Drop("ansible_roles")>>]

M012 == [
    up   |-> <<Make("ansible_projects", {}, {}),
               Add("playbooks", {"project_id", "ix_playbooks_project_id"}, {"ansible_projects"})>>,
    down |-> <<Strip("playbooks", {"ix_playbooks_project_id", "project_id"}),
               Drop("ansible_projects")>>]

M013 == [
    up   |-> <<Add("agent_health", {"cpu_count", "memory_total_bytes", "memory_used_bytes",
                 "disk_total_bytes", "disk_used_bytes", "swap_usage", "swap_total_bytes",
                 "swap_used_bytes"}, {})>>,
    down |-> <<Strip("agent_health", {"swap_used_bytes", "swap_total_bytes", "swap_usage",
                 "disk_used_bytes", "disk_total_bytes", "memory_used_bytes", "memory_total_bytes",
                 "cpu_count"})>>]

M015Up == <<Make("baselines", {}, {}), Make("baseline_versions", {"baselines"}, {}),
            Make("baseline_approvals", {"baseline_versions"}, {}),
            Make("baseline_effective", {"agents"}, {}), Make("inventory_blobs", {}, {}),
            Make("inventory_snapshots", {"agents", "inventory_blobs"}, {}),
            Make("inventory_deltas", {}, {})>>

M015 == [
    up   |-> M015Up,
    down |-> <<Drop("inventory_deltas"), Drop("inventory_snapshots"), Drop("inventory_blobs"),
               Drop("baseline_effective"), Drop("baseline_approvals"), Drop("baseline_versions"),
               Drop("baselines")>>]

M016Up == <<Make("compliance_rules", {}, {}),
            Make("remediation_templates", {"compliance_rules"}, {}),
            Add("compliance_rules", {"fk_compliance_rules_remediation"},
              {"remediation_templates"})>>

M016UpMore == <<Make("policy_sets", {}, {}),
                Make("policy_set_rules", {"compliance_rules", "policy_sets"}, {}),
                Make("policy_assignments", {"policy_sets"}, {}),
                Make("rule_evaluations", {}, {}), Make("compliance_scores", {}, {})>>

M016 == [
    up   |-> M016Up \o M016UpMore,
    down |-> <<Drop("compliance_scores"), Drop("rule_evaluations"), Drop("policy_assignments"),
               Drop("policy_set_rules"), Drop("policy_sets"),
               Strip("compliance_rules", {"fk_compliance_rules_remediation"}),
               Drop("remediation_templates"), Drop("compliance_rules")>>]

M017 == [
    up   |-> <<Make("drift_events", {}, {"changed_by_user", "root_cause"}),
               Make("drift_details", {}, {}), Make("file_hashes", {"agents"}, {}),
               Make("file_changes", {}, {}), Make("file_integrity_ignores", {}, {})>>,
    down |-> <<Drop("file_integrity_ignores"), Drop("file_changes"), Drop("file_hashes"),
               Drop("drift_details"), Drop("drift_events")>>]

M018 == [
    up   |-> <<Make("maintenance_windows", {}, {}),
               Make("remediation_plans", {"maintenance_windows"}, {}),
               Make("remediation_actions", {"compliance_rules", "remediation_plans"}, {}),
               Make("remediation_jobs", {"jobs", "remediation_plans"}, {})>>,
    down |-> <<Drop("remediation_jobs"), Drop("remediation_actions"), Drop("remediation_plans"),
               Drop("maintenance_windows")>>]

M019 == [up |-> <<Make("compliance_reports", {}, {})>>, down |-> <<Drop("compliance_reports")>>]

M020 == [
    up   |-> <<Strip("jobs", {"uq_jobs_dedup_key"}),
               Add("jobs", {"uq_jobs_dedup_key active"}, {})>>,
    down |-> <<Strip("jobs", {"uq_jobs_dedup_key active"}),
               Add("jobs", {"uq_jobs_dedup_key"}, {})>>]

M021 == [
    up   |-> <<Add("agent_vulnerabilities", {"uq_agent_vuln_agent_cve_package"}, {})>>,
    down |-> <<Strip("agent_vulnerabilities", {"uq_agent_vuln_agent_cve_package"})>>]

\* Mutant of 022: the index is built before the duplicate alerts are resolved.
M022_IndexFirst == [
    up   |-> <<Add("alerts", {"uq_alerts_active_agent_type"}, {}), Clean("alerts repeat")>>,
    down |-> <<Strip("alerts", {"uq_alerts_active_agent_type"})>>]

M022 == [
    up   |-> <<Clean("alerts repeat"), Add("alerts", {"uq_alerts_active_agent_type"}, {})>>,
    down |-> <<Strip("alerts", {"uq_alerts_active_agent_type"})>>]

M023 == [
    up   |-> <<Add("policies", {"trigger_type", "cron_expr", "next_run_at", "last_run_at",
                 "actions", "execution", "severity", "tags", "ix_policies_next_run_at"}, {}),
               Add("jobs", {"ix_jobs_policy_id"}, {})>>,
    down |-> <<Strip("jobs", {"ix_jobs_policy_id"}),
               Strip("policies", {"ix_policies_next_run_at", "tags", "severity", "execution",
                 "actions", "last_run_at", "next_run_at", "cron_expr", "trigger_type"})>>]

M024 == [
    up   |-> <<Strip("jobs", {"jobs_policy_id_fkey"}),
               Add("jobs", {"jobs_policy_id_fkey"}, {"policies"})>>,
    down |-> <<Strip("jobs", {"jobs_policy_id_fkey"}),
               Add("jobs", {"jobs_policy_id_fkey"}, {"policies"})>>]

M025Up == <<Make("compliance_exceptions", {"agents", "compliance_rules"}, {}),
            Make("compliance_frameworks", {}, {}),
            Make("compliance_framework_versions", {"compliance_frameworks"}, {}),
            Make("compliance_controls", {"compliance_framework_versions"}, {}),
            Make("compliance_rule_mappings", {"compliance_controls", "compliance_rules"}, {}),
            Make("compliance_rule_resources", {"compliance_rules"}, {}),
            Make("compliance_assessments", {"policy_sets"}, {})>>

M025UpMore == <<Add("drift_events", {"status", "occurrences", "first_seen", "last_seen",
                  "correlation_key", "resolved_at", "suppressed_by",
                  "ix_drift_events_correlation"}, {}),
                Add("rule_evaluations", {"expected_value", "evidence_hash", "source",
                  "agent_version", "exception_id"}, {}),
                Add("file_changes", {"old_mode", "new_mode", "old_uid", "new_uid", "old_gid",
                  "new_gid"}, {}),
                Add("policy_sets", {"status", "published_at", "published_version",
                  "parent_policy_set_id"}, {})>>

M025 == [
    up   |-> M025Up \o M025UpMore,
    down |-> <<Strip("policy_sets", {"parent_policy_set_id", "published_version",
                 "published_at", "status"}),
               Strip("file_changes", {"new_gid", "old_gid", "new_uid", "old_uid", "new_mode",
                 "old_mode"}),
               Strip("rule_evaluations", {"exception_id", "agent_version", "source",
                 "evidence_hash", "expected_value"}),
               Strip("drift_events", {"ix_drift_events_correlation", "suppressed_by",
                 "resolved_at", "correlation_key", "last_seen", "first_seen", "occurrences",
                 "status"}), Drop("compliance_assessments"), Drop("compliance_rule_resources"),
               Drop("compliance_rule_mappings"), Drop("compliance_controls"),
               Drop("compliance_framework_versions"), Drop("compliance_frameworks"),
               Drop("compliance_exceptions")>>]

M026 == [
    up   |-> <<Add("remediation_templates", {"rollback_body"}, {})>>,
    down |-> <<Strip("remediation_templates", {"rollback_body"})>>]

M027 == [
    up   |-> <<Add("agent_vulnerabilities", {"fixed_version", "status", "accepted_risk_by",
                 "accepted_risk_reason", "accepted_risk_until", "remediation_plan_id",
                 "last_scan_at", "ix_agent_vuln_status_severity", "ix_agent_vuln_agent_status",
                 "ix_agent_vuln_cve_status", "ix_agent_vuln_discovered_at"},
                 {"remediation_plans"}),
               Add("cves", {"kev_date_added", "last_enriched_at", "enrichment_status",
                 "ix_cves_enrichment_pending"}, {})>>,
    down |-> <<Strip("cves", {"ix_cves_enrichment_pending", "enrichment_status",
                 "last_enriched_at", "kev_date_added"}),
               Strip("agent_vulnerabilities", {"ix_agent_vuln_discovered_at",
                 "ix_agent_vuln_cve_status", "ix_agent_vuln_agent_status",
                 "ix_agent_vuln_status_severity", "last_scan_at", "remediation_plan_id",
                 "accepted_risk_until", "accepted_risk_reason", "accepted_risk_by", "status",
                 "fixed_version"})>>]

M028Up == <<Make("workflows", {"policies"}, {}),
            Make("workflow_versions", {"workflows"}, {"yaml_source NOT NULL"}),
            Add("workflows", {"fk_workflows_current_version_id"}, {"workflow_versions"}),
            Make("workflow_runs", {"workflow_versions", "workflows"}, {}),
            Make("workflow_step_runs", {"jobs", "workflow_runs"}, {}),
            Make("workflow_audit", {"workflows"}, {})>>

M028 == [
    up   |-> M028Up,
    down |-> <<Drop("workflow_audit"), Drop("workflow_step_runs"), Drop("workflow_runs"),
               Strip("workflows", {"fk_workflows_current_version_id"}),
               Drop("workflow_versions"), Drop("workflows")>>]

M029 == [
    up   |-> <<Strip("agents", {"cve_count"})>>,
    down |-> <<Add("agents", {"cve_count"}, {})>>]

M030 == [up |-> <<Make("approval_claims", {"jobs"}, {})>>, down |-> <<Drop("approval_claims")>>]

M031 == [
    up   |-> <<Make("signals", {}, {}), Make("correlation_rules", {}, {})>>,
    down |-> <<Drop("correlation_rules"), Drop("signals")>>]

M032 == [
    up   |-> <<Make("incidents", {"correlation_rules", "signals"}, {}),
               Make("incident_signals", {"incidents", "signals"}, {}),
               Make("incident_timeline", {"incidents"}, {}),
               Add("alerts", {"incident_id"}, {"incidents"})>>,
    down |-> <<Strip("alerts", {"incident_id"}), Drop("incident_timeline"),
               Drop("incident_signals"), Drop("incidents")>>]

M033 == [
    up   |-> <<Make("topology_nodes", {"agents"}, {}),
               Make("topology_edges", {"topology_nodes"}, {})>>,
    down |-> <<Drop("topology_edges"), Drop("topology_nodes")>>]

M034 == [up |-> <<Make("runbooks", {"workflows"}, {})>>, down |-> <<Drop("runbooks")>>]

M035 == [
    up   |-> <<StripIf("drift_events", {"changed_by_user", "root_cause"})>>,
    down |-> <<Add("drift_events", {"changed_by_user", "root_cause"}, {})>>]

M036 == [
    up   |-> <<Add("compliance_rules", {"status", "ix_compliance_rules_active"}, {})>>,
    down |-> <<StripIf("compliance_rules", {"ix_compliance_rules_active"}),
               StripIf("compliance_rules", {"status"})>>]

M037 == [
    up   |-> <<Add("compliance_scores", {"weighted_score", "severity_breakdown",
                 "unknown_count"}, {})>>,
    down |-> <<Strip("compliance_scores", {"unknown_count", "severity_breakdown",
                 "weighted_score"})>>]

M038Up == <<Make("agent_policies", {}, {}),
            Make("agent_policy_versions", {"agent_policies"}, {}), Make("agent_groups", {}, {}),
            Make("agent_policy_assignments", {"agent_policies", "agent_policy_versions"}, {}),
            Make("agent_policy_deployments", {"agent_policy_assignments",
              "agent_policy_versions", "agents"}, {}),
            Make("enrollment_tokens", {"agent_groups"}, {}), Make("agent_policy_audit", {}, {}),
            Add("agents", {"desired_policy_version_id", "current_policy_version_id",
              "policy_status", "policy_last_error", "policy_updated_at"},
              {"agent_policy_versions"})>>

M038 == [
    up   |-> M038Up,
    down |-> <<Strip("agents", {"policy_updated_at", "policy_last_error", "policy_status",
                 "current_policy_version_id", "desired_policy_version_id"}),
               Drop("agent_policy_audit"), Drop("enrollment_tokens"),
               Drop("agent_policy_deployments"), Drop("agent_policy_assignments"),
               Drop("agent_groups"), Drop("agent_policy_versions"), Drop("agent_policies")>>]

M039 == [
    up   |-> <<Add("rule_evaluations", {"acknowledged_by", "acknowledged_at"}, {})>>,
    down |-> <<Strip("rule_evaluations", {"acknowledged_at", "acknowledged_by"})>>]

M040 == [
    up   |-> <<Add("compliance_frameworks", {"publisher", "description", "status"}, {})>>,
    down |-> <<Strip("compliance_frameworks", {"status", "description", "publisher"})>>]

M041 == [
    up   |-> <<Add("policy_sets", {"remediation"}, {})>>,
    down |-> <<Strip("policy_sets", {"remediation"})>>]

M042 == [up |-> << >>, down |-> << >>]

M043 == [
    up   |-> <<Add("agents", {"agent_group_id"}, {"agent_groups"})>>,
    down |-> <<Strip("agents", {"agent_group_id"})>>]

M044 == [up |-> <<Make("fim_scopes", {"agents"}, {})>>, down |-> <<Drop("fim_scopes")>>]

M045 == [up |-> <<Make("storage_objects", {}, {})>>, down |-> <<Drop("storage_objects")>>]

M046 == [
    up   |-> <<Add("compliance_reports", {"storage_object_id"}, {"storage_objects"})>>,
    down |-> <<Strip("compliance_reports", {"storage_object_id"})>>]

M047 == [
    up   |-> <<Strip("playbooks", {"content NOT NULL"}),
               Add("playbooks", {"content_object_id"}, {"storage_objects"}),
               Strip("ansible_roles", {"files NOT NULL"}),
               Add("ansible_roles", {"content_object_id", "file_count"}, {"storage_objects"})>>,
    down |-> <<Strip("ansible_roles", {"file_count", "content_object_id"}),
               Add("ansible_roles", {"files NOT NULL"}, {}),
               Strip("playbooks", {"content_object_id"}),
               Add("playbooks", {"content NOT NULL"}, {})>>]

M048 == [
    up   |-> <<Strip("workflow_versions", {"yaml_source NOT NULL"}),
               Add("workflow_versions", {"content_object_id"}, {"storage_objects"})>>,
    down |-> <<Strip("workflow_versions", {"content_object_id"}),
               Add("workflow_versions", {"yaml_source NOT NULL"}, {})>>]

M049 == [
    up   |-> <<Check("incidents repeat"), Add("incidents", {"uq_incident_open_group"}, {})>>,
    down |-> <<StripIf("incidents", {"uq_incident_open_group"})>>]

M050 == [
    up   |-> <<Add("workflow_versions", {"published_by"}, {})>>,
    down |-> <<Strip("workflow_versions", {"published_by"})>>]

M051 == [
    up   |-> <<Add("packages", {"source_package"}, {})>>,
    down |-> <<Strip("packages", {"source_package"})>>]

M052 == [
    up   |-> <<Add("agents", {"capabilities"}, {})>>,
    down |-> <<Strip("agents", {"capabilities"})>>]

M053 == [
    up   |-> <<Add("agents", {"snapshot_hmac_key", "snapshot_hmac_key_id",
                 "snapshot_hmac_prev_key", "snapshot_hmac_prev_key_id"}, {})>>,
    down |-> <<Strip("agents", {"snapshot_hmac_prev_key_id", "snapshot_hmac_prev_key",
                 "snapshot_hmac_key_id", "snapshot_hmac_key"})>>]

M054 == [
    up   |-> <<Add("remediation_plans", {"created_by_actor"}, {})>>,
    down |-> <<Strip("remediation_plans", {"created_by_actor"})>>]

M055 == [
    up   |-> <<Add("approval_claims", {"target_agent_id"}, {})>>,
    down |-> <<Strip("approval_claims", {"target_agent_id"})>>]

M056 == [
    up   |-> <<Add("workflow_versions", {"published_by_actor"}, {})>>,
    down |-> <<Strip("workflow_versions", {"published_by_actor"})>>]

M057 == [
    up   |-> <<Add("workflow_runs", {"triggered_by_actor"}, {})>>,
    down |-> <<Strip("workflow_runs", {"triggered_by_actor"})>>]

M058 == [
    up   |-> <<Add("alerts", {"acknowledged_by_actor"}, {})>>,
    down |-> <<Strip("alerts", {"acknowledged_by_actor"})>>]

M059 == [
    up   |-> <<Add("drift_events", {"acknowledged_by_actor"}, {})>>,
    down |-> <<Strip("drift_events", {"acknowledged_by_actor"})>>]

M060 == [
    up   |-> <<Add("rule_evaluations", {"acknowledged_by_actor"}, {})>>,
    down |-> <<Strip("rule_evaluations", {"acknowledged_by_actor"})>>]

M061 == [
    up   |-> <<Add("job_results", {"held_until"}, {})>>,
    down |-> <<Strip("job_results", {"held_until"})>>]

M062 == [
    up   |-> <<Drop("update_job_results"), Drop("update_jobs"), Drop("update_policies")>>,
    down |-> <<Make("update_policies", {}, {}),
               Make("update_jobs", {}, {"ix_update_job_scope", "ix_update_job_status"}),
               Make("update_job_results", {"agents", "update_jobs"}, {"ix_update_result_job_id",
                 "ix_update_result_agent_id"})>>]

M063 == [
    up   |-> <<DropIf("dsc_verifications"), DropIf("dsc_resource_states"),
               DropIf("dsc_resource_blobs"), DropIf("dsc_provider_status")>>,
    down |-> <<Refuse>>]

M064 == [up |-> <<Make("saved_views", {}, {})>>, down |-> <<Drop("saved_views")>>]

M065 == [
    up   |-> <<Strip("policies", {"parent_policy_id"})>>,
    down |-> <<Add("policies", {"parent_policy_id"}, {})>>]

M066 == [
    up   |-> <<Add("jobs", {"created_by_actor"}, {}),
               Add("baseline_versions", {"created_by_actor"}, {}),
               Add("compliance_exceptions", {"requested_by_actor"}, {})>>,
    down |-> <<Strip("compliance_exceptions", {"requested_by_actor"}),
               Strip("baseline_versions", {"created_by_actor"}),
               Strip("jobs", {"created_by_actor"})>>]

M067 == [up |-> <<Drop("repositories"), Drop("file_integrity_ignores")>>, down |-> <<Refuse>>]

Chain == <<M001, M002, M003, M004, M005, M006, M007, M008, M009, M010, M011, M012, M013, M015,
           M016, M017, M018, M019, M020, M021, M022, M023, M024, M025, M026, M027, M028, M029,
           M030, M031, M032, M033, M034, M035, M036, M037, M038, M039, M040, M041, M042, M043,
           M044, M045, M046, M047, M048, M049, M050, M051, M052, M053, M054, M055, M056, M057,
           M058, M059, M060, M061, M062, M063, M064, M065, M066, M067>>
=============================================================================
