------------------------------ MODULE OrmModels ------------------------------
(***************************************************************************)
(* The tables the ORM classes declare, file by file: the tables their      *)
(* foreign keys name and, of their columns and named constraints, those    *)
(* that some revision adds after the table was made.                       *)
(***************************************************************************)

Table(t, refs, names) == [t |-> t, refs |-> refs, names |-> names]

IncidentsModel == {Table("incidents", {"correlation_rules", "signals"}, {}),
                    Table("incident_signals", {"incidents", "signals"}, {}),
                    Table("incident_timeline", {"incidents"}, {})}

AgentModel == {Table("agents", {"agent_groups", "agent_policy_versions", "categories",
                  "policies", "projects"}, {"capabilities", "snapshot_hmac_key",
                  "snapshot_hmac_key_id", "snapshot_hmac_prev_key", "snapshot_hmac_prev_key_id",
                  "desired_policy_version_id", "current_policy_version_id", "policy_status",
                  "policy_last_error", "policy_updated_at", "fqdn", "system_users", "recent_logs",
                  "disks", "network_interfaces", "block_devices", "listening_ports",
                  "last_packages_checksum", "category_id", "project_id", "agent_group_id",
                  "cve_last_scan"}),
                Table("agent_health", {"agents"}, {"cpu_count", "memory_total_bytes",
                  "memory_used_bytes", "disk_total_bytes", "disk_used_bytes", "swap_usage",
                  "swap_total_bytes", "swap_used_bytes"}), Table("agent_metrics", {}, {})}

AgentPolicyModel == {Table("agent_policies", {}, {}),
                      Table("agent_policy_versions", {"agent_policies"}, {}),
                      Table("agent_groups", {}, {}),
                      Table("agent_policy_assignments", {"agent_policies",
                        "agent_policy_versions"}, {}),
                      Table("agent_policy_deployments", {"agent_policy_assignments",
                        "agent_policy_versions", "agents"}, {}),
                      Table("enrollment_tokens", {"agent_groups"}, {}),
                      Table("agent_policy_audit", {}, {})}

AlertModel == {Table("alert_rules", {}, {}),
                Table("alerts", {"agents", "alert_rules", "cves", "incidents", "jobs",
                  "policies"}, {"incident_id", "acknowledged_by_actor"})}

AnsibleProjectModel == {Table("ansible_projects", {}, {})}

AnsibleRoleModel == {Table("ansible_roles", {"storage_objects"}, {"content_object_id",
                        "file_count"})}

ApprovalModel == {Table("approval_claims", {"jobs"}, {"target_agent_id"})}

AuditModel == {Table("audit_logs", {}, {}), Table("user_profiles", {}, {}),
                Table("role_assignments", {}, {}), Table("settings", {}, {})}

BaselineModel == {Table("baselines", {}, {}),
                   Table("baseline_versions", {"baselines"}, {"created_by_actor"}),
                   Table("baseline_approvals", {"baseline_versions"}, {}),
                   Table("baseline_effective", {"agents"}, {})}

CategoryModel == {Table("categories", {}, {}), Table("projects", {"categories"}, {})}

ComplianceAssessmentModel == {Table("compliance_assessments", {"policy_sets"}, {})}

ComplianceExceptionModel == {Table("compliance_exceptions", {"agents", "compliance_rules"},
                                {"requested_by_actor"})}

ComplianceFrameworkModel == {Table("compliance_frameworks", {}, {"publisher", "description",
                                "status"}),
                              Table("compliance_framework_versions", {"compliance_frameworks"},
                                {}),
                              Table("compliance_controls", {"compliance_framework_versions"},
                                {}),
                              Table("compliance_rule_mappings", {"compliance_controls",
                                "compliance_rules"}, {})}

ComplianceReportModel == {Table("compliance_reports", {"storage_objects"}, {"storage_object_id"})}

ComplianceRuleModel == {Table("compliance_rules", {"remediation_templates"}, {"status"}),
                         Table("remediation_templates", {"compliance_rules"}, {"rollback_body"}),
                         Table("policy_sets", {}, {"status", "published_at",
                           "published_version", "parent_policy_set_id", "remediation"}),
                         Table("policy_set_rules", {"compliance_rules", "policy_sets"}, {}),
                         Table("policy_assignments", {"policy_sets"}, {})}

ComplianceRuleResourceModel == {Table("compliance_rule_resources", {"compliance_rules"}, {})}

CveModel == {Table("cves", {}, {"kev_date_added", "enrichment_status", "last_enriched_at"}),
              Table("packages", {"agents"}, {"source_package"}),
              Table("package_vulnerabilities", {"cves"}, {}),
              Table("agent_vulnerabilities", {"agents", "cves", "jobs", "remediation_plans"},
                {"fixed_version", "remediation_plan_id", "status", "accepted_risk_by",
                "accepted_risk_reason", "accepted_risk_until", "last_scan_at",
                "uq_agent_vuln_agent_cve_package"})}

DriftModel == {Table("drift_events", {}, {"acknowledged_by_actor", "status", "occurrences",
                  "first_seen", "last_seen", "correlation_key", "resolved_at", "suppressed_by"}),
                Table("drift_details", {}, {})}

FileIntegrityModel == {Table("file_hashes", {"agents"}, {}),
                        Table("file_changes", {}, {"old_mode", "new_mode", "old_uid", "new_uid",
                          "old_gid", "new_gid"}), Table("fim_scopes", {"agents"}, {})}

InventoryModel == {Table("inventory_blobs", {}, {}),
                    Table("inventory_snapshots", {"agents", "inventory_blobs"}, {}),
                    Table("inventory_deltas", {}, {})}

JobModel == {Table("jobs", {"policies"}, {"created_by_actor"}),
              Table("job_results", {"agents", "jobs"}, {"held_until"})}

PlaybookModel == {Table("playbooks", {"ansible_projects", "storage_objects"},
                     {"content_object_id", "role_ids", "project_id"})}

PlaybookTemplateModel == {Table("playbook_templates", {"playbooks"}, {})}

PluginModel == {Table("plugins", {}, {}),
                 Table("plugin_installations", {"agents", "plugins"}, {})}

PolicyModel == {Table("policies", {}, {"trigger_type", "cron_expr", "next_run_at",
                   "last_run_at", "actions", "execution", "severity", "tags"}),
                 Table("policy_audit", {"policies"}, {})}

RemediationModel == {Table("maintenance_windows", {}, {}),
                      Table("remediation_plans", {"maintenance_windows"}, {"created_by_actor"}),
                      Table("remediation_actions", {"compliance_rules", "remediation_plans"},
                        {}), Table("remediation_jobs", {"jobs", "remediation_plans"}, {})}

RuleEvaluationModel == {Table("rule_evaluations", {}, {"expected_value", "evidence_hash",
                           "source", "agent_version", "exception_id", "acknowledged_by",
                           "acknowledged_by_actor", "acknowledged_at"}),
                         Table("compliance_scores", {}, {})}

SavedViewModel == {Table("saved_views", {}, {})}

StorageObjectModel == {Table("storage_objects", {}, {})}

WorkflowModel == {Table("workflows", {"policies"}, {}),
                   Table("workflow_versions", {"storage_objects", "workflows"},
                     {"content_object_id", "published_by", "published_by_actor"}),
                   Table("workflow_runs", {"workflow_versions", "workflows"},
                     {"triggered_by_actor"}),
                   Table("workflow_step_runs", {"jobs", "workflow_runs"}, {}),
                   Table("workflow_audit", {"workflows"}, {})}

RunbooksModel == {Table("runbooks", {"workflows"}, {})}

SignalsModel == {Table("signals", {}, {}), Table("correlation_rules", {}, {})}

TopologyModel == {Table("topology_nodes", {"agents"}, {}),
                   Table("topology_edges", {"topology_nodes"}, {})}

Models == IncidentsModel \cup AgentModel \cup AgentPolicyModel \cup AlertModel \cup
          AnsibleProjectModel \cup AnsibleRoleModel \cup ApprovalModel \cup AuditModel \cup
          BaselineModel \cup CategoryModel \cup ComplianceAssessmentModel \cup
          ComplianceExceptionModel \cup ComplianceFrameworkModel \cup ComplianceReportModel \cup
          ComplianceRuleModel \cup ComplianceRuleResourceModel \cup CveModel \cup DriftModel
          \cup FileIntegrityModel \cup InventoryModel \cup JobModel \cup PlaybookModel \cup
          PlaybookTemplateModel \cup PluginModel \cup PolicyModel \cup RemediationModel \cup
          RuleEvaluationModel \cup SavedViewModel \cup StorageObjectModel \cup WorkflowModel
          \cup RunbooksModel \cup SignalsModel \cup TopologyModel
=============================================================================
