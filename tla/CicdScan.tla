------------------------------- MODULE CicdScan -------------------------------
(***************************************************************************)
(* The module that reads workflows, pipelines, container and service       *)
(* files.  A text is a sequence of lines; a YAML file has its parsed value *)
(* besides (doc) and in each line the set of the words a search would find *)
(* there.  A string carries, as its traits, which of the tests on strings  *)
(* it passes.  A path is a record with what detection looks at.            *)
(***************************************************************************)
EXTENDS Integers, SequencesExt, FiniteSetsExt, TLC

RULES ==
    [r \in {"actions-dangerous-trigger", "actions-script-injection", "gitlab-literal-secret",
            "dockerfile-secrets-in-layer", "compose-privileged", "compose-host-mount"} |-> "error"]
    @@ [r \in {"actions-unpinned-action", "actions-excessive-permissions", "gitlab-mutable-image",
               "gitlab-unpinned-include", "dockerfile-run-as-root", "dockerfile-remote-add",
               "dockerfile-unpinned-base", "compose-host-network", "systemd-root-execution"} |-> "warning"]
    @@ [r \in {"gitlab-insecure-runner", "systemd-missing-hardening"} |-> "info"]

\* The order of the tests decides: a file of .github/workflows is a workflow
\* whatever its name.
detect_file_type(path) ==
    IF path.in_workflows /\ path.yaml THEN "GitHubActions"
    ELSE CASE path.name = ".gitlab-ci" /\ path.yaml -> "GitLabCi"
           [] path.name = "compose" /\ path.yaml -> "DockerCompose"
           [] path.name = "dockerfile" \/ path.ext = "dockerfile" -> "Dockerfile"
           [] path.ext = "service" -> "Systemd"
           [] OTHER -> "Unknown"

\* One finding of a rule at a line.
Found(rule, line) == [rule_id |-> rule, start_line |-> line]

-----------------------------------------------------------------------------
(* Dockerfiles.  A line is blank (or a comment), or a sequence of words that *)
(* may end in a backslash (more); a word is a text and its traits.           *)

\* A bug that numbers the directives instead of the lines.
parse_directives_Counted(lines) ==
    LET Ended(s) == IF s.words = <<>> THEN s.done ELSE Append(s.done, [words |-> s.words, line |-> Len(s.done) + 1])
        Read(s, i) ==
            LET grown == [s EXCEPT !.words = @ \o lines[i].words]
            IN  CASE lines[i].blank -> [words |-> <<>>, done |-> Ended(s)]
                  [] ~lines[i].blank /\ lines[i].more -> grown
                  [] OTHER -> [words |-> <<>>, done |-> Ended(grown)]
    IN  Ended(FoldLeft(Read, [words |-> <<>>, done |-> <<>>], [i \in DOMAIN lines |-> i]))

\* A directive stands at the line it begins on.  A comment inside a continued
\* directive ends it, and what follows is read as one of its own.
parse_directives(lines) ==
    LET Ended(s) == IF s.words = <<>> THEN s.done ELSE Append(s.done, [words |-> s.words, line |-> s.line])
        Read(s, i) ==
            LET grown == [s EXCEPT !.words = @ \o lines[i].words,
                                   !.line = IF s.words = <<>> THEN i ELSE @]
            IN  CASE lines[i].blank -> [s EXCEPT !.words = <<>>, !.done = Ended(s)]
                  [] ~lines[i].blank /\ lines[i].more -> grown
                  [] OTHER -> [grown EXCEPT !.words = <<>>, !.done = Ended(grown)]
    IN  Ended(FoldLeft(Read, [words |-> <<>>, line |-> 0, done |-> <<>>], [i \in DOMAIN lines |-> i]))

Instruction(d) == d.words[1].text
Argument(d) == IF Len(d.words) > 1 THEN d.words[2].traits ELSE {}

check_unpinned_base(directives) ==
    {Found("dockerfile-unpinned-base", d.line) :
        d \in {d \in ToSet(directives) : Instruction(d) = "FROM" /\ "mutable" \in Argument(d)}}

\* Any USER of the last stage that is not root will do, also one before it is
\* set back to root.
check_run_as_root(directives) ==
    LET stages == {i \in DOMAIN directives : Instruction(directives[i]) = "FROM"}
        last == Max(stages)
    IN  IF \/ stages = {}
           \/ \E i \in last..Len(directives) :
                 Instruction(directives[i]) = "USER" /\ "root" \notin Argument(directives[i])
        THEN {} ELSE {Found("dockerfile-run-as-root", directives[last].line)}

check_remote_add(directives) ==
    {Found("dockerfile-remote-add", d.line) :
        d \in {d \in ToSet(directives) : /\ Instruction(d) = "ADD"
                                         /\ \E w \in ToSet(Tail(d.words)) : "url" \in w.traits}}

\* Of several pairs only the first is looked at.
check_secrets_in_layer(directives) ==
    {Found("dockerfile-secrets-in-layer", d.line) :
        d \in {d \in ToSet(directives) : /\ Instruction(d) \in {"ENV", "ARG"}
                                         /\ "secret_name" \in Argument(d) /\ "literal" \in Argument(d)}}

analyze_dockerfile(lines) ==
    LET directives == parse_directives(lines)
    IN  check_unpinned_base(directives) \cup check_run_as_root(directives)
        \cup check_remote_add(directives) \cup check_secrets_in_layer(directives)

-----------------------------------------------------------------------------
(* systemd units.  A line is a pair of key and value, or neither; its words  *)
(* are searched for the section.                                             *)

HARDENING_DIRECTIVES == {"ProtectSystem", "ProtectHome", "NoNewPrivileges", "PrivateTmp"}

\* The first line with a word, and the first line of all without one.
find_line_number(lines, word) ==
    LET at == {i \in DOMAIN lines : word \in lines[i].words} IN IF at = {} THEN 1 ELSE Min(at)

\* The first User= decides, and the section is found in a comment as well.
analyze_systemd(lines) ==
    LET users == {i \in DOMAIN lines : lines[i].key = "User"}
        at == find_line_number(lines, "[Service]")
        missing == HARDENING_DIRECTIVES \ {lines[i].key : i \in DOMAIN lines}
    IN  IF \A i \in DOMAIN lines : "[Service]" \notin lines[i].words THEN {}
        ELSE (IF users = {} THEN {Found("systemd-root-execution", at)}
              ELSE IF "root" \in lines[Min(users)].traits THEN {Found("systemd-root-execution", Min(users))}
              ELSE {})
             \cup (IF missing = {} THEN {} ELSE {Found("systemd-missing-hardening", at)})

-----------------------------------------------------------------------------
(* YAML.  A value is a string, a flag, a sequence, a mapping or none.        *)

Null == [is |-> "none"]
At(value, key) == IF value.is = "map" /\ key \in DOMAIN value.at THEN value.at[key] ELSE Null
Entries(value) == IF value.is = "map" THEN DOMAIN value.at ELSE {}
Items(value) == IF value.is = "seq" THEN ToSet(value.items) ELSE {}
IsText(value, text) == value.is = "string" /\ value.text = text
Has(value, trait) == value.is = "string" /\ trait \in value.traits

\* The word after the place where the name of the service first appears.
find_line_for_service(lines, service, word) ==
    LET from == {i \in DOMAIN lines : service \in lines[i].words}
        after == {i \in DOMAIN lines : word \in lines[i].words /\ (from = {} \/ i >= Min(from))}
    IN  IF after # {} THEN Min(after) ELSE find_line_number(lines, word)

\* A mount in the long form counts if it binds.
HostPath(volume) ==
    CASE volume.is = "string" -> volume
      [] volume.is = "map" /\ IsText(At(volume, "type"), "bind") -> At(volume, "source")
      [] OTHER -> Null

analyze_compose(lines, doc) ==
    UNION {LET service == At(At(doc, "services"), name)
               paths == {p \in {HostPath(v) : v \in Items(At(service, "volumes"))} : Has(p, "sensitive")}
           IN  {Found("compose-privileged", find_line_for_service(lines, name, "privileged")) :
                    v \in {v \in {At(service, "privileged")} : v = [is |-> "bool", on |-> TRUE]}}
               \cup {Found("compose-host-network", find_line_for_service(lines, name, "network_mode")) :
                    v \in {v \in {At(service, "network_mode")} : IsText(v, "host")}}
               \cup {Found("compose-host-mount", find_line_for_service(lines, name, p.text)) : p \in paths} :
           name \in Entries(At(doc, "services"))}

has_trigger(on, trigger) ==
    \/ IsText(on, trigger)
    \/ \E v \in Items(on) : IsText(v, trigger)
    \/ trigger \in Entries(on)

\* The key on is read by the parser as the flag true.
check_dangerous_triggers(lines, doc) ==
    LET on == IF At(doc, "on") # Null THEN At(doc, "on") ELSE At(doc, "true")
        risky == {t \in {"pull_request_target", "workflow_run"} : has_trigger(on, t)}
        named == IF "pull_request_target" \in risky THEN "pull_request_target" ELSE "workflow_run"
    IN  IF risky = {} \/ \A i \in DOMAIN lines : "actions/checkout" \notin lines[i].words THEN {}
        ELSE {Found("actions-dangerous-trigger", find_line_number(lines, named))}

check_permissions_value(lines, perms) ==
    CASE IsText(perms, "write-all") ->
             {Found("actions-excessive-permissions", find_line_number(lines, "write-all"))}
      [] Cardinality({k \in Entries(perms) : IsText(perms.at[k], "write")}) >= 3 ->
             {Found("actions-excessive-permissions", find_line_number(lines, "permissions"))}
      [] OTHER -> {}

check_permissions(lines, doc) ==
    UNION {check_permissions_value(lines, At(scope, "permissions")) :
              scope \in {doc} \cup {At(At(doc, "jobs"), j) : j \in Entries(At(doc, "jobs"))}}

\* Everything but a container, a local action or a full commit hash is mutable.
check_unpinned_action(lines, uses) ==
    IF uses.is = "string" /\ uses.traits \cap {"docker", "local", "sha"} = {}
    THEN {Found("actions-unpinned-action", find_line_number(lines, uses.text))} ELSE {}

\* A script is a sequence of the expressions in it, each with the contexts it
\* names in the order of the table: the first is reported.
check_script_injection(lines, run) ==
    IF run.is # "string" THEN {}
    ELSE {Found("actions-script-injection", find_line_number(lines, run.contexts[i][1])) :
             i \in {i \in DOMAIN run.contexts : run.contexts[i] # <<>>}}

analyze_github_actions(lines, doc) ==
    LET steps == UNION {Items(At(At(At(doc, "jobs"), j), "steps")) : j \in Entries(At(doc, "jobs"))}
    IN  check_dangerous_triggers(lines, doc) \cup check_permissions(lines, doc)
        \cup UNION {check_unpinned_action(lines, At(s, "uses")) \cup check_script_injection(lines, At(s, "run")) :
                       s \in steps}

is_gitlab_keyword(name) ==
    name \in {".hidden", "image", "services", "stages", "variables", "include", "default", "workflow",
              "before_script", "after_script", "cache", "pages", "trigger", "rules", "artifacts", "needs",
              "extends", "retry", "interruptible", "timeout", "resource_group", "environment", "release",
              "secrets", "id_tokens", "when", "allow_failure", "parallel", "dependencies"}

\* A remote include given as a string is reported even if it is pinned.
check_includes(lines, doc) ==
    LET include == At(doc, "include")
        all == IF include.is = "seq" THEN Items(include) ELSE {include}
        loose == {v \in all : Has(v, "url")}
                 \cup {v \in {At(m, "remote") : m \in all} : v.is = "string" /\ "pinned" \notin v.traits}
    IN  {Found("gitlab-unpinned-include", find_line_number(lines, v.text)) : v \in loose}

check_image(lines, image) ==
    {Found("gitlab-mutable-image", find_line_number(lines, v.text)) :
        v \in {v \in {IF image.is = "map" THEN At(image, "name") ELSE image} : Has(v, "mutable")}}

looks_like_secret(name, value) == name \in {"TOKEN", "PASSWORD"} /\ Has(value, "literal")

check_variables(lines, vars) ==
    {Found("gitlab-literal-secret", find_line_number(lines, vars.at[k].text)) :
        k \in {k \in Entries(vars) : looks_like_secret(k, vars.at[k])}}

check_runner_tags(lines, job, name) ==
    LET tags == At(job, "tags")
    IN  CASE tags = Null -> {Found("gitlab-insecure-runner", find_line_number(lines, name))}
          [] tags = [is |-> "seq", items |-> <<>>] -> {Found("gitlab-insecure-runner", find_line_number(lines, "tags"))}
          [] OTHER -> {}

analyze_gitlab_ci(lines, doc) ==
    check_includes(lines, doc)
    \cup check_image(lines, At(doc, "image")) \cup check_variables(lines, At(doc, "variables"))
    \cup UNION {check_image(lines, At(doc.at[j], "image"))
                \cup check_variables(lines, At(doc.at[j], "variables"))
                \cup check_runner_tags(lines, doc.at[j], j) :
                   j \in {j \in Entries(doc) : ~is_gitlab_keyword(j) /\ doc.at[j].is = "map"}}

-----------------------------------------------------------------------------
(* The module *)

Broken == [is |-> "error"]

\* A YAML file that cannot be parsed fails the analysis of every file.
analyze(files) ==
    LET type == [i \in DOMAIN files |-> detect_file_type(files[i].path)]
        FindingsOf(f, t) ==
            CASE t = "GitHubActions" -> analyze_github_actions(f.lines, f.doc)
              [] t = "GitLabCi" -> analyze_gitlab_ci(f.lines, f.doc)
              [] t = "DockerCompose" -> analyze_compose(f.lines, f.doc)
              [] t = "Dockerfile" -> analyze_dockerfile(f.lines)
              [] t = "Systemd" -> analyze_systemd(f.lines)
              [] t = "Unknown" -> {}
    IN  IF \E i \in DOMAIN files : type[i] \in {"GitHubActions", "GitLabCi", "DockerCompose"} /\ files[i].doc = Broken
        THEN [failed |-> TRUE]
        ELSE [failed |-> FALSE,
              findings |-> [i \in DOMAIN files |-> FindingsOf(files[i], type[i])],
              files_analyzed |-> Cardinality({i \in DOMAIN files : type[i] # "Unknown"})]

\* A finding with an action is reported as fixed, with the edits of the action.
fix(findings, dry_run) ==
    [i \in DOMAIN findings |->
        LET actions == findings[i].actions
        IN  [rule_id |-> findings[i].rule_id, applied |-> actions # <<>> /\ ~dry_run,
             edits |-> IF actions = <<>> THEN <<>> ELSE actions[1].edits]]

-----------------------------------------------------------------------------
(* The rules *)

describe == [id |-> "cicd-security", rules |-> RULES]

\* Nothing for a rule of another module.
explain(rule_id) ==
    IF rule_id \notin DOMAIN RULES THEN <<>>
    ELSE <<[rule_id |-> rule_id, default_severity |-> RULES[rule_id], suppression |-> TRUE]>>
=============================================================================
