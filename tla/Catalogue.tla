------------------------------ MODULE Catalogue ------------------------------
(***************************************************************************)
(* The modules the CLI registers, what each says of its rules, and how the *)
(* host routes `chaffra explain`.                                          *)
(***************************************************************************)
EXTENDS Integers, SequencesExt, TLC

Dead == INSTANCE DeadCode
Metrics == INSTANCE Complexity
Security == INSTANCE SecurityScan
Handlers == INSTANCE Frameworks
Audit == INSTANCE Reviews
Quality == INSTANCE AiQuality
Models == INSTANCE LlmDefense
Cicd == INSTANCE CicdScan
Clones == INSTANCE CloneDetection
Arch == INSTANCE ImportGraph

\* The engine describes its outcomes as rules; none of them can be suppressed.
AUTOFIX_RULES == [r \in {"fix-applied", "fix-skipped"} |-> "info"] @@ ("fix-conflict" :> "warning")
describe_autofix == [id |-> "autofix", rules |-> [r \in DOMAIN AUTOFIX_RULES |-> "info"]]
explain_autofix(rule_id) ==
    IF rule_id \notin DOMAIN AUTOFIX_RULES THEN <<>>
    ELSE <<[rule_id |-> rule_id, default_severity |-> AUTOFIX_RULES[rule_id], suppression |-> FALSE]>>

\* The last two are described and never reported.
TELEMETRY_RULES == [r \in {"backend-status", "metric-summary", "finding-churn", "sampling-status"} |-> "info"]
describe_telemetry == [id |-> "telemetry", rules |-> TELEMETRY_RULES]
explain_telemetry(rule_id) ==
    IF rule_id \notin DOMAIN TELEMETRY_RULES THEN <<>>
    ELSE <<[rule_id |-> rule_id, default_severity |-> TELEMETRY_RULES[rule_id], suppression |-> TRUE]>>

\* In the order of registration.
build_module_host ==
    <<Dead!describe, Metrics!describe, Security!describe, Handlers!describe, Audit!describe,
      Metrics!describe_hotspot, describe_autofix, Quality!describe, Models!describe, Cicd!describe,
      describe_telemetry, Clones!describe, Arch!describe>>

ModuleExplains(module_id, rule_id) ==
    CASE module_id = "dead-code" -> Dead!explain(rule_id)
      [] module_id = "complexity" -> Metrics!explain(rule_id)
      [] module_id = "security" -> Security!explain(rule_id)
      [] module_id = "frameworks" -> Handlers!explain(rule_id)
      [] module_id = "audit" -> Audit!explain(rule_id)
      [] module_id = "hotspot" -> Metrics!explain_hotspot(rule_id)
      [] module_id = "autofix" -> explain_autofix(rule_id)
      [] module_id = "ai-quality" -> Quality!explain(rule_id)
      [] module_id = "llm-defense" -> Models!explain(rule_id)
      [] module_id = "cicd-security" -> Cicd!explain(rule_id)
      [] module_id = "telemetry" -> explain_telemetry(rule_id)
      [] module_id = "duplication" -> Clones!explain(rule_id)
      [] module_id = "architecture" -> Arch!explain(rule_id)

ModuleIds == {build_module_host[i].id : i \in DOMAIN build_module_host}

\* The modules whose explanation a bare rule id may bring: the host asks them in
\* the order of a hash map and takes the first that knows it.
Explainers(rule_id) == {id \in ModuleIds : ModuleExplains(id, rule_id) # <<>>}

describes(module_id) == CHOOSE d \in ToSet(build_module_host) : d.id = module_id
=============================================================================
