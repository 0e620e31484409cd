------------------------------ MODULE LlmDefense ------------------------------
(***************************************************************************)
(* The llm-defense module: code around language models.  A line is a       *)
(* record: the words it contains (says), what it begins with where that    *)
(* matters (begins), whether it is no more than a closing bracket, and for *)
(* an assignment the words left and right of its first equals sign and the *)
(* name it gives a value (target, none after a := set apart).  Findings of *)
(* one rule on one line are one here.                                      *)
(***************************************************************************)
EXTENDS SyntaxSymbols, FiniteSetsExt, TLC

LOCAL Comments == INSTANCE Suppressions

RULES ==
    [r \in {"unsafe-tool-use", "prompt-injection-exposure", "missing-output-validation",
            "unguarded-agent-loop"} |-> "error"]
    @@ [r \in {"missing-rate-limit", "excessive-tool-permissions"} |-> "warning"]

LLM_IMPORTS ==
    [Python |-> {<<"openai">>, <<"anthropic">>, <<"langchain">>, <<"llama_index">>, <<"transformers">>,
                 <<"cohere">>, <<"google", "generativeai">>, <<"vertexai">>, <<"litellm">>, <<"autogen">>,
                 <<"crewai">>},
     Go |-> {<<"github.com", "sashabaranov", "go-openai">>, <<"github.com", "anthropics", "anthropic-sdk-go">>,
             <<"github.com", "tmc", "langchaingo">>}]

UNSAFE_TOOL_PATTERNS ==
    {"subprocess", "os.system", "exec.Command", "os.exec", "eval(", "exec(", "shell=True", "os.popen",
     "commands.getoutput"}

\* Formatted strings and concatenations.
PROMPT_INJECTION_PATTERNS == {"f\"", "f'", ".format(", "% ", "+ user", "+ input", "+ query", "+ request"}

PROMPT_CONTEXT_KEYWORDS ==
    {"prompt", "system_prompt", "user_prompt", "message", "messages", "instruction", "system_message",
     "human_message", "template"}

DANGEROUS_OUTPUT_CONTEXTS ==
    {"execute(", "cursor.execute", "db.execute", "innerHTML", "dangerouslySetInnerHTML", "os.system(",
     "subprocess.run(", "subprocess.call(", "exec.Command(", "Exec("}

RATE_LIMIT_PATTERNS ==
    {"rate_limit", "ratelimit", "throttle", "limiter", "semaphore", "time.sleep", "time.Sleep", "backoff",
     "retry", "RateLimiter", "TokenBucket", "LeakyBucket"}

AGENT_LOOP_PATTERNS == {"while True", "while true", "for {", "loop {"}

LOOP_GUARD_PATTERNS ==
    {"max_iterations", "max_steps", "max_turns", "iteration_limit", "step_limit", "timeout", "max_loops",
     "break", "counter", "attempts", "max_retries"}

Found(rule, line) == [rule_id |-> rule, start_line |-> line]
Says(line, words) == line.says \cap words # {}
Around(lines, first, last) == {i \in DOMAIN lines : first <= i /\ i <= last}

-----------------------------------------------------------------------------
(* Which files are looked at *)

has_llm_imports(imports, lang) ==
    \E imp \in ToSet(imports), p \in LLM_IMPORTS[lang] :
        \/ \E k \in 1..(Len(imp.path) - Len(p) + 1) : SubSeq(imp.path, k, k + Len(p) - 1) = p
        \/ \E n \in imp.names : p = <<n>>

has_llm_indicators(lines) ==
    \E l \in ToSet(lines) : Says(l, {"openai", "anthropic", "langchain", "llm", "chat_completion",
                                     "chatcompletion", "completion.create", "generate_content"})

-----------------------------------------------------------------------------
(* Tools *)

\* A definition goes on for twenty-one lines after it began, or to a line that
\* only closes a bracket; the line that ends it still counts.
detect_unsafe_tool_use(lines) ==
    LET Read(s, i) ==
            LET opens == "tool" \in lines[i].says /\ Says(lines[i], {"def", "function", "{", "dict", "="})
                start == IF opens THEN i ELSE s.start
                inside == opens \/ s.inside
            IN  [start |-> start,
                 inside |-> inside /\ i - start <= 20 /\ ~lines[i].closes,
                 found |-> IF inside /\ Says(lines[i], UNSAFE_TOOL_PATTERNS)
                           THEN s.found \cup {Found("unsafe-tool-use", i)} ELSE s.found]
    IN  FoldLeft(Read, [start |-> 0, inside |-> FALSE, found |-> {}], [i \in DOMAIN lines |-> i]).found

is_in_tool_context(lines, i) ==
    \E k \in Around(lines, i - 10, i - 1) : Says(lines[k], {"tool", "function_call", "plugin"})

detect_excessive_tool_permissions(lines) ==
    {Found("excessive-tool-permissions", i) :
        i \in {i \in DOMAIN lines : /\ Says(lines[i], {"permission", "access", "scope"})
                                    /\ Says(lines[i], {"write", "delete", "execute"})
                                    /\ "read" \in lines[i].says
                                    /\ "tool" \in lines[i].says \/ is_in_tool_context(lines, i)}}

-----------------------------------------------------------------------------
(* Prompts and answers *)

has_user_input_indicator(line) == Says(line, {"user", "input", "query", "request", "body", "param", "arg"})

detect_prompt_injection(lines) ==
    {Found("prompt-injection-exposure", i) :
        i \in {i \in DOMAIN lines : /\ Says(lines[i], PROMPT_CONTEXT_KEYWORDS)
                                    /\ Says(lines[i], PROMPT_INJECTION_PATTERNS)
                                    /\ has_user_input_indicator(lines[i])}}

\* The name must speak of an answer and the right side of a model.
find_llm_response_vars(lines) ==
    {l.target : l \in {l \in ToSet(lines) :
        /\ l.target # ""
        /\ l.lhs \cap {"completion", "response", "result", "output", "generated", "chat_response",
                       "llm_output", "ai_response"} # {}
        /\ l.rhs \cap {"client.messages.create", "openai.chat.completions.create", "chat.completions.create",
                       "completions.create", "messages.create", "chain.invoke", "llm.generate",
                       "model.predict", "chatcompletion.create", "generate_content"} # {}}}

\* A use anywhere in the file, also before the answer is there.
detect_missing_output_validation(lines) ==
    {Found("missing-output-validation", i) :
        i \in {i \in DOMAIN lines : /\ Says(lines[i], DANGEROUS_OUTPUT_CONTEXTS)
                                    /\ Says(lines[i], find_llm_response_vars(lines))}}

has_llm_api_call_patterns(lines) ==
    \E l \in ToSet(lines) :
        Says(l, {"openai.ChatCompletion", "client.chat.completions", "client.completions",
                 "client.messages.create", "anthropic.Anthropic", "completions.create(", "messages.create(",
                 "ChatCompletion.create(", "generate_content(", "ChatOpenAI", "chat.completions.create"})

\* The first line of all when no line has one of the words.
find_first_llm_call_line(lines) ==
    LET calls == {i \in DOMAIN lines :
                     Says(lines[i], {"create(", "generate(", "complete(", "chat(", "ChatCompletion", "messages.create"})}
    IN  IF calls = {} THEN 1 ELSE Min(calls)

detect_missing_rate_limit(lines) ==
    IF has_llm_api_call_patterns(lines) /\ ~ \E l \in ToSet(lines) : Says(l, RATE_LIMIT_PATTERNS)
    THEN {Found("missing-rate-limit", find_first_llm_call_line(lines))} ELSE {}

-----------------------------------------------------------------------------
(* Loops *)

is_in_agent_context(lines, i) ==
    \E k \in Around(lines, i - 15, i + 14) :
        Says(lines[k], {"agent", "llm", "openai", "anthropic", "chat", "completion", "step"})

\* A guard is looked for on thirty lines, whether they are of the loop or not.
check_loop_guards(lines, i) == \E k \in Around(lines, i, i + 29) : Says(lines[k], LOOP_GUARD_PATTERNS)

detect_unguarded_agent_loop(lines) ==
    {Found("unguarded-agent-loop", i) :
        i \in {i \in DOMAIN lines : /\ lines[i].begins \in AGENT_LOOP_PATTERNS
                                    /\ is_in_agent_context(lines, i)
                                    /\ ~check_loop_guards(lines, i)}}

-----------------------------------------------------------------------------
(* The module *)

FindingsOf(file) ==
    LET found == detect_unsafe_tool_use(file.lines) \cup detect_prompt_injection(file.lines)
                 \cup detect_missing_output_validation(file.lines) \cup detect_missing_rate_limit(file.lines)
                 \cup detect_excessive_tool_permissions(file.lines) \cup detect_unguarded_agent_loop(file.lines)
        source == [i \in DOMAIN file.lines |-> file.lines[i].chars]
    IN  IF /\ file.lang \in {"Go", "Python"}
           /\ has_llm_imports(extract_imports(file.tree, file.lang), file.lang) \/ has_llm_indicators(file.lines)
        THEN {f \in found : ~Comments!is_line_suppressed(source, f.start_line, f.rule_id, file.lang)}
        ELSE {}

analyze(files) == [i \in DOMAIN files |-> FindingsOf(files[i])]

\* The first action of a finding, reported as applied without being written.
fix(findings, dry_run) ==
    [i \in DOMAIN findings |->
        LET actions == findings[i].actions
        IN  [rule_id |-> findings[i].rule_id, applied |-> actions # <<>> /\ ~dry_run,
             edits |-> IF actions = <<>> THEN <<>> ELSE actions[1].edits]]

-----------------------------------------------------------------------------
(* The rules *)

describe == [id |-> "llm-defense", rules |-> RULES]

\* Nothing for a rule of another module.
explain(rule_id) ==
    IF rule_id \notin DOMAIN RULES THEN <<>>
    ELSE <<[rule_id |-> rule_id, default_severity |-> RULES[rule_id], suppression |-> TRUE]>>
=============================================================================
