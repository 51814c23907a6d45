----------------------------- MODULE StepConfig -----------------------------
(***************************************************************************)
(* One workflow step from its YAML to its job: what the compiler checks    *)
(* when the version is published, what validate_step_inputs adds, and what *)
(* _dispatch_step and its compilers still refuse when the step is reached. *)
(* A configuration is its node type, its action (or check type, or wait    *)
(* mode), the set of keys that carry a value, whether the host and the     *)
(* package names in it are well formed, and the key, if any, whose value   *)
(* is not the number, id or address that the run takes it for.  Steps of   *)
(* the other types have no fields (start, end, approval), only optional    *)
(* ones (notification) or an expression the compiler parses (condition).   *)
(***************************************************************************)
EXTENDS Integers, FiniteSets

CONSTANT Types   \* node types considered

Actions == [service |-> {"start", "stop", "restart", "reload", "enable", "disable"},
            system  |-> {"reboot", "shutdown", "hostname", "timezone", "sysctl"},
            file    |-> {"create", "template", "delete", "copy", "chmod", "chown"},
            package |-> {"install", "update", "remove"},
            check   |-> {"command", "service", "port", "package", "file", "process", "os",
                         "disk", "network"},
            wait    |-> {"agent", "duration"},
            ansible |-> {"none"}, command |-> {"none"}, webhook |-> {"none"}]

Keys == [service |-> {"name"}, system |-> {"key", "value", "delay_seconds"},
         file    |-> {"path", "source", "mode", "owner", "group"}, package |-> {"packages"},
         check   |-> {"command", "service", "name", "port", "path", "distro", "min_free_gb",
                      "host", "state", "expect_exit_code"},
         wait    |-> {"seconds", "timeout_seconds", "min_heartbeats"},
         ansible |-> {"playbook_id", "extra_vars"}, command |-> {"command"},
         webhook |-> {"url", "headers"}]

\* Actions a document may ask for that no version of the code carries out.
Unsupported(t) == IF Actions[t] = {"none"} THEN {} ELSE {"bogus", "downgrade", "condition"}

\* The action an absent one stands for; service, system and file have none.
Default(t) == IF t = "package" THEN "install" ELSE IF t = "check" THEN "command"
              ELSE IF t = "wait" THEN "agent" ELSE "none"

Action(c) == IF c.action = "none" THEN Default(c.type) ELSE c.action

\* The keys whose values must be of a kind when the run uses them: numbers (int), the id of a
\* playbook (UUID and a look-up), the address of a webhook (assert_safe_url), mappings
\* (extra_vars, headers), and the word for a file's state (a list is no key of a table).
Converted(c) == c.keys \cap
    CASE c.type = "check"  -> {"expect_exit_code"} \cup (CASE Action(c) = "port" -> {"port"}
                                                          [] Action(c) = "disk" -> {"min_free_gb"}
                                                          [] Action(c) = "file" -> {"state"}
                                                          [] OTHER -> {})
      [] c.type = "system" -> IF Action(c) \in {"reboot", "shutdown"} THEN {"delay_seconds"} ELSE {}
      [] c.type = "wait"   -> IF Action(c) = "duration" THEN {"seconds"}
                              ELSE {"timeout_seconds", "min_heartbeats"}
      [] c.type \in {"ansible", "webhook"} -> Keys[c.type]
      [] OTHER -> {}

\* The package names, and the host probed: a port check without a host probes localhost, a
\* network check without one has nothing to check.
NamesGiven(c) == (c.type = "package" /\ "packages" \in c.keys)
                 \/ (c.type = "check" /\ Action(c) = "package" /\ "name" \in c.keys)
HostGiven(c) == c.type = "check" /\ Action(c) \in {"port", "network"} /\ "host" \in c.keys

\* At most one value is not of its kind: `bad' is its key, and whether it is text (that is no
\* number, no mapping, no playbook's id, no public address) or a list.
Good == <<"none", "good">>
Misfits(c) == (Converted(c) \X {"text", "list"}) \ {<<"state", "text">>}

Shapes == UNION {[type : {t}, action : Actions[t] \cup Unsupported(t) \cup {"none"},
                  keys : SUBSET Keys[t]] : t \in Types}

Configs == UNION {[type : {c.type}, action : {c.action}, keys : {c.keys},
                   hostOk : {TRUE, ~HostGiven(c)}, namesOk : {TRUE, ~NamesGiven(c)},
                   bad : {Good} \cup Misfits(c)] : c \in Shapes}

VARIABLES
    cfg,    \* the step's configuration
    native, \* every target agent has the native modules
    stage   \* draft, refused, published, barred, then job, native, waiting, failed or wedged

vars == <<cfg, native, stage>>

------------------------------------------------------------------------------
\* The keys _validate_step_configs asks for.
Checked(c) ==
    CASE c.type = "service" -> {"name"}
      [] c.type = "system"  -> IF Action(c) \in {"hostname", "timezone"} THEN {"value"}
                               ELSE IF Action(c) = "sysctl" THEN {"key", "value"} ELSE {}
      [] c.type = "file"    -> {"path"} \cup IF Action(c) = "copy" THEN {"source"} ELSE {}
      [] c.type = "package" -> IF Action(c) = "remove" THEN {"packages"} ELSE {}
      [] c.type = "check"   ->
            CASE Action(c) = "command" -> {"command"}  [] Action(c) = "service" -> {"service"}
              [] Action(c) \in {"process", "package"} -> {"name"}
              [] Action(c) = "port" -> {"port"}        [] Action(c) = "file" -> {"path"}
              [] Action(c) = "os" -> {"distro"}        [] Action(c) = "disk" -> {"min_free_gb"}
              [] Action(c) = "network" -> {"host"}     [] OTHER -> {}
      [] OTHER -> {}

\* _validate_step_configs: the action is known and the fields it needs are there.
ConfigValid(c) == Action(c) \in Actions[c.type] /\ Checked(c) \subseteq c.keys


\* validate_step_inputs: the package names and the probed host are well formed.
InputsValid(c) == (NamesGiven(c) => c.namesOk) /\ (HostGiven(c) => c.hostOk)

\* The keys the runtime compilers need (_require and the explicit tests).
Needed(c) ==
    CASE c.type = "service" -> {"name"}
      [] c.type = "system"  -> IF Action(c) \in {"hostname", "timezone"} THEN {"value"}
                               ELSE IF Action(c) = "sysctl" THEN {"key", "value"} ELSE {}
      [] c.type = "file"    -> {"path"} \cup (CASE Action(c) = "copy" -> {"source"}
                                                [] Action(c) = "chmod" -> {"mode"}
                                                [] OTHER -> {})
      [] c.type = "package" -> IF Action(c) = "remove" THEN {"packages"} ELSE {}
      [] c.type = "check"   -> Checked(c)
      [] c.type = "ansible" -> {"playbook_id"}
      [] c.type = "command" -> {"command"}
      [] c.type = "webhook" -> {"url"}
      [] OTHER -> {}

\* What raises something else than the errors advance_run turns into a FAILED step
\* (WorkflowRunError, ValueError; _dispatch_webhook adds httpx.HTTPError): int() of a list that
\* _require has not made text of, the look-up of a state, what is no mapping.
Escapes(c) ==
    \/ c.bad \in {"expect_exit_code", "delay_seconds", "state"} \X {"list"}
    \/ c.bad[1] \in {"extra_vars", "headers"}

\* _compile_check, _compile_service, _compile_system, _compile_file and
\* _compile_package_remove: a shell line, or WorkflowRunError; _dispatch_step and
\* _dispatch_webhook for the types that compile to nothing.
CompileRefuses(c) ==
    \/ Action(c) \notin Actions[c.type]
    \/ ~(Needed(c) \subseteq c.keys)
    \/ c.type = "file" /\ Action(c) = "chown" /\ c.keys \cap {"owner", "group"} = {}
    \/ HostGiven(c) /\ ~c.hostOk
    \/ c.bad # Good /\ ~Escapes(c)

\* Steps whose job the agent runs with a module of its own, nothing being compiled: package
\* installs always, the others when all targets are recent enough.
GoesNative(c) ==
    \/ c.type = "package" /\ Action(c) \in {"install", "update"}
    \/ native /\ c.type \in {"service", "file"}
    \/ native /\ c.type = "system" /\ Action(c) \in {"reboot", "shutdown"}

------------------------------------------------------------------------------
Init == cfg \in Configs /\ native \in BOOLEAN /\ stage = "draft"

\* publish_version: compile, then the input walk.
Publish ==
    /\ stage = "draft"
    /\ stage' = IF ConfigValid(cfg) /\ InputsValid(cfg) THEN "published" ELSE "refused"
    /\ UNCHANGED <<cfg, native>>

\* start_run repeats the input walk, for versions published before the walk existed.
Start ==
    /\ stage = "published"
    /\ stage' = IF InputsValid(cfg) THEN "reached" ELSE "barred"
    /\ UNCHANGED <<cfg, native>>

\* The step becomes ready: a wait is polled, everything else is dispatched.  An exception that
\* escapes leaves advance_run, and does so again at every tick.
Dispatch ==
    /\ stage = "reached"
    /\ stage' = CASE cfg.type = "wait" -> IF Action(cfg) = "condition" THEN "failed" ELSE "waiting"
                  [] cfg.type # "wait" /\ GoesNative(cfg) -> "native"
                  [] cfg.type # "wait" /\ ~GoesNative(cfg) /\ CompileRefuses(cfg) -> "failed"
                  [] cfg.type # "wait" /\ ~GoesNative(cfg) /\ ~CompileRefuses(cfg) /\ Escapes(cfg) -> "wedged"
                  [] OTHER -> "job"
    /\ UNCHANGED <<cfg, native>>

\* _wait_for_agent_satisfied converts the numbers of a wait at every poll, outside any try.
PollRaises ==
    /\ stage = "waiting" /\ cfg.bad # Good
    /\ stage' = "wedged"
    /\ UNCHANGED <<cfg, native>>

\* The agents of the targets are upgraded or replaced by older ones in the meantime.
Upgrade ==
    /\ stage \in {"published", "reached"}
    /\ native' = ~native
    /\ UNCHANGED <<cfg, stage>>

Next == Publish \/ Start \/ Dispatch \/ PollRaises \/ Upgrade

Spec == Init /\ [][Next]_vars

------------------------------------------------------------------------------
\* What publication does not ask about: the fields of chmod, of chown, and of the node types
\* _validate_step_configs knows nothing of, and what it only wants to be there.
Unasked(c) ==
    \/ c.type = "file" /\ Action(c) = "chmod" /\ "mode" \notin c.keys
    \/ c.type = "file" /\ Action(c) = "chown" /\ c.keys \cap {"owner", "group"} = {}
    \/ c.type \in {"ansible", "command", "webhook"} /\ ~(Needed(c) \subseteq c.keys)
    \/ c.bad # Good

\* Everything else that was published can be dispatched, whichever agents the run meets: a step
\* that fails or raises when it is reached (_dispatch_step, _compile_check and its siblings,
\* _wait_for_agent_satisfied) has one of the faults publication does not look for.
PublishedDispatches == stage \in {"failed", "wedged"} => Unasked(cfg)

\* _validate_step_configs of service, system, file, package, check and wait steps: "the same
\* fields _dispatch_step/_require enforce at runtime, caught here instead so a broken step
\* never reaches an actual run" (workflow_compiler.py:262-265).
BrokenStepNeverRuns == stage \notin {"failed", "wedged"}

============================================================================
