----------------------------- MODULE SecurityScan -----------------------------
(***************************************************************************)
(* The security module: flows from where data enters to where it is used,  *)
(* secrets, and dependencies with known flaws.  The words of a line are    *)
(* abstracted to what the patterns tell apart: the place in PATTERNS of    *)
(* those that match, and for every quoted string its length, its entropy   *)
(* in tenths and its shape.                                                *)
(***************************************************************************)
EXTENDS Languages, Integers, FiniteSets, TLC

-----------------------------------------------------------------------------
(* Flows, within one function, from SOURCES to SINKS.  A name is a tuple of  *)
(* letters, for one name may lie inside another.  A line is a record: the    *)
(* parts left of its first operator (lhs, <<>> for one that is no            *)
(* identifier), the operator (op, none if there is no equals sign), the      *)
(* names right of it (rhs), all its names, and the patterns it contains.  A   *)
(* tree is the sequence of its nodes in the order in which it is walked.     *)
(* The descriptions of sources and sinks only word the message.              *)

SOURCES ==
    [Go |-> {"r.URL", "r.Body", "r.FormValue", "r.Header", "r.PostForm", "Request", "Query"},
     Python |-> {"request.args", "request.form", "request.data", "request.json", "request.headers",
                 "request.GET", "request.POST", "input(", "sys.argv"}]

SINKS ==
    [Go |-> ("db.Query" :> "sql-injection") @@ ("db.Exec" :> "sql-injection") @@ ("db.QueryRow" :> "sql-injection")
            @@ ("exec.Command" :> "command-injection")
            @@ ("fmt.Fprintf" :> "xss") @@ ("w.Write" :> "xss")
            @@ ("http.Get" :> "ssrf") @@ ("http.Post" :> "ssrf")
            @@ ("os.Open" :> "path-traversal") @@ ("os.ReadFile" :> "path-traversal")
            @@ ("ioutil.ReadFile" :> "path-traversal")
            @@ ("json.Unmarshal" :> "unsafe-deserialization") @@ ("yaml.Unmarshal" :> "unsafe-deserialization"),
     Python |-> ("cursor.execute" :> "sql-injection") @@ ("execute(" :> "sql-injection") @@ ("raw(" :> "sql-injection")
            @@ ("os.system" :> "command-injection") @@ ("subprocess.call" :> "command-injection")
            @@ ("subprocess.run" :> "command-injection") @@ ("subprocess.Popen" :> "command-injection")
            @@ ("render_template_string" :> "xss") @@ ("Markup(" :> "xss")
            @@ ("requests.get" :> "ssrf") @@ ("requests.post" :> "ssrf") @@ ("urllib.request.urlopen" :> "ssrf")
            @@ ("open(" :> "path-traversal") @@ ("os.path.join" :> "path-traversal")
            @@ ("pickle.loads" :> "unsafe-deserialization") @@ ("pickle.load" :> "unsafe-deserialization")
            @@ ("yaml.load" :> "unsafe-deserialization") @@ ("marshal.loads" :> "unsafe-deserialization")]

\* One name occurs in another, as a substring.
Within(name, other) ==
    \E k \in 1..(Len(other) - Len(name) + 1) : SubSeq(other, k, k + Len(name) - 1) = name

\* In Go a comparison with == passes for an assignment, for only what precedes
\* its first equals sign is looked at.
Assigns(line, lang) ==
    line.op \in (IF lang = "Go" THEN {":=", "=", "=="} ELSE IF lang = "Python" THEN {":=", "="} ELSE {})

\* A bug that only takes the first of several names.
extract_assigned_vars_First(line, lang) ==
    IF Assigns(line, lang) /\ line.lhs # <<>> THEN {line.lhs[1]} \ {<<>>} ELSE {}

\* A part of the left side that is more than an identifier (a declaration with
\* its type, an augmented assignment) assigns nothing.
extract_assigned_vars(line, lang) ==
    IF Assigns(line, lang) THEN ToSet(line.lhs) \ {<<>>} ELSE {}

propagate_taint(line, lang, tainted) ==
    IF \E v \in tainted, w \in line.rhs : Within(v, w)
    THEN tainted \cup extract_assigned_vars(line, lang)
    ELSE tainted

\* The first six lines of the function name the request.
check_parameter_taint(lines, lang, tainted) ==
    LET header == {lines[i] : i \in 1..(IF Len(lines) > 6 THEN 6 ELSE Len(lines))}
        given == UNION {l.requests : l \in header}
    IN  CASE lang = "Go" /\ given # {} ->
                 LET known == given \cap {<<"r">>, <<"r", "e", "q">>, <<"r", "e", "q", "u", "e", "s", "t">>}
                 IN  tainted \cup (IF known = {} THEN {<<"r">>} ELSE known)
          [] lang = "Python" /\ given # {} -> tainted \cup {<<"r", "e", "q", "u", "e", "s", "t">>}
          [] OTHER -> tainted

\* What a line makes of the tainted names: first its own source, then those it uses.
ReadLine(line, lang, tainted) ==
    propagate_taint(line, lang,
        IF line.patterns \cap SOURCES[lang] = {} THEN tainted
        ELSE tainted \cup extract_assigned_vars(line, lang))

\* The tainted names after each line.
TaintAlong(lines, lang) ==
    LET along[i \in 0..Len(lines)] ==
            IF i = 0 THEN {} ELSE ReadLine(lines[i], lang, along[i - 1])
    IN  along

\* The parameters come last, and taint only the lines that name them.
Tainted(lines, lang) == check_parameter_taint(lines, lang, TaintAlong(lines, lang)[Len(lines)])

\* A finding for every sink a line contains, wherever in the function it is.
analyze_function_taint(node, lines, lang) ==
    LET own == SubSeq(lines, node.row, node.last)
        tainted == Tainted(own, lang)
    IN  FlattenSeq([i \in DOMAIN own |->
            LET reached == SetToSeq({p \in own[i].patterns \cap DOMAIN SINKS[lang] : own[i].names \cap tainted # {}})
            IN  [k \in DOMAIN reached |->
                    [rule_id |-> SINKS[lang][reached[k]], sink |-> reached[k], start_line |-> node.row + i - 1]]])

FunctionKinds == {"function_declaration", "method_declaration", "function_definition", "func_literal", "lambda"}

\* A function inside another is analysed by itself and as part of the other.
analyze_node_for_taint(node, lines, lang) ==
    IF node.kind \in FunctionKinds THEN analyze_function_taint(node, lines, lang) ELSE <<>>

analyze_file(file) ==
    IF file.lang \in {"Go", "Python"}
    THEN FlattenSeq([i \in DOMAIN file.nodes |-> analyze_node_for_taint(file.nodes[i], file.lines, file.lang)])
    ELSE <<>>

-----------------------------------------------------------------------------
(* The rules *)

RULES ==
    [r \in {"sql-injection", "command-injection", "xss", "ssrf", "path-traversal",
            "unsafe-deserialization", "hardcoded-secret"} |-> "error"]
    @@ [r \in {"high-entropy-string", "vulnerable-dependency"} |-> "warning"]

is_sast_rule(rule) == rule \in {SINKS["Go"][p] : p \in DOMAIN SINKS["Go"]}
is_secret_rule(rule) == rule \in {"hardcoded-secret", "high-entropy-string"}

-----------------------------------------------------------------------------
(* Secrets *)

\* Patterns of one service each, and the generic two after them.
PATTERNS ==
    <<"AWS Access Key ID", "AWS Secret Access Key", "GCP Service Account Key", "GCP API Key",
      "Azure Storage Account Key", "GitHub Personal Access Token", "GitHub OAuth Access Token",
      "Slack Bot Token", "Slack Webhook URL", "Private Key (PEM)", "Stripe Secret Key",
      "Stripe Publishable Key", "SendGrid API Key", "Twilio Account SID", "Heroku API Key",
      "JSON Web Token", "Generic API Key", "Generic Secret/Token">>

looks_like_non_secret(string) == string.shape \in {"url", "path", "sentence", "sql", "format"}

HighEntropy(string) ==
    /\ string.length \in 16..256
    /\ ~looks_like_non_secret(string)
    /\ string.entropy >= 45

\* The first pattern of a line is reported, and of a line without one the first
\* string of high entropy; a line that begins as a comment is passed over.
scan_secrets(file) ==
    LET lines == {i \in DOMAIN file.lines : ~file.lines[i].doc}
        matched == {i \in lines : file.lines[i].secrets # {}}
        entropic == {i \in lines \ matched :
                        \E k \in DOMAIN file.lines[i].strings : HighEntropy(file.lines[i].strings[k])}
        First(i) == PATTERNS[CHOOSE p \in file.lines[i].secrets : \A q \in file.lines[i].secrets : p <= q]
        Found(rule, name, i) == [rule_id |-> rule, name |-> name, start_line |-> i]
    IN  IF file.is_test \/ file.binary THEN <<>>
        ELSE LET a == SetToSortSeq(matched, <)
                 b == SetToSortSeq(entropic, <)
             IN  [k \in DOMAIN a |-> Found("hardcoded-secret", First(a[k]), a[k])]
                 \o [k \in DOMAIN b |-> Found("high-entropy-string", "", b[k])]

-----------------------------------------------------------------------------
(* Dependencies.  A version is a sequence of numbers, what follows the      *)
(* digits of a part cut off: 2.3.2-rc1 is 2.3.2.                            *)

\* The advisories, by package: the first version that is not affected.
KNOWN_VULNS ==
    [django |-> <<3, 2, 25>>, flask |-> <<2, 3, 2>>, requests |-> <<2, 31, 0>>, urllib3 |-> <<2, 0, 7>>,
     pyyaml |-> <<6, 0, 1>>, pillow |-> <<10, 2, 0>>, cryptography |-> <<42, 0, 0>>,
     express |-> <<4, 19, 2>>, jsonwebtoken |-> <<9, 0, 0>>, axios |-> <<1, 6, 0>>,
     tokio |-> <<1, 24, 2>>, hyper |-> <<0, 14, 27>>]
    @@ ("golang.org/x/net" :> <<0, 23, 0>>) @@ ("golang.org/x/crypto" :> <<0, 17, 0>>)
    @@ ("google.golang.org/grpc" :> <<1, 56, 3>>) @@ ("github.com/gin-gonic/gin" :> <<1, 9, 1>>)

Part(version, i) == IF i \in DOMAIN version THEN version[i] ELSE 0

compare_versions(a, b) ==
    LET differ == {i \in 1..(Len(a) + Len(b)) : Part(a, i) # Part(b, i)}
    IN  IF differ = {} THEN 0
        ELSE LET i == CHOOSE i \in differ : \A k \in differ : i <= k
             IN  IF Part(a, i) < Part(b, i) THEN -1 ELSE 1

\* Every range begins at 0.
matches_vulnerable_dep(dep) ==
    dep.name \in DOMAIN KNOWN_VULNS /\ compare_versions(dep.version, KNOWN_VULNS[dep.name]) < 0

\* A manifest line is a record with its kind and, where it has them, a name and
\* a version.  A parser is a state (open: the block it is in or the package a
\* version is waited for) and the dependencies so far.
Dep(line, name, version) == [name |-> name, version |-> version, line |-> line]
Add(state, dep) == [state EXCEPT !.deps = Append(@, dep)]

parse_go_mod(state, line, i) ==
    CASE line.kind = "require(" -> [state EXCEPT !.open = "("]
      [] line.kind = ")" -> [state EXCEPT !.open = ""]
      [] line.kind = "indented" /\ state.open = "(" -> Add(state, Dep(i, line.name, line.version))
      [] line.kind = "require" /\ state.open = "" -> Add(state, Dep(i, line.name, line.version))
      [] OTHER -> state

\* Only versions pinned with == are read.
parse_requirements_txt(state, line, i) ==
    IF line.kind = "pinned" THEN Add(state, Dep(i, line.name, line.version)) ELSE state

\* The line is that of the package's header, and a version outside of a package
\* (that of the file) is nobody's.
parse_cargo_lock(state, line, i) ==
    CASE line.kind = "[[package]]" -> [state EXCEPT !.open = "", !.line = i]
      [] line.kind = "name" -> [state EXCEPT !.open = line.name]
      [] line.kind = "version" /\ state.open # "" ->
             [Add(state, Dep(state.line, state.open, line.version)) EXCEPT !.open = ""]
      [] OTHER -> state

\* A package inside another is known by the last part of its path.
parse_package_lock_json(state, line, i) ==
    CASE line.kind = "node_modules" -> [state EXCEPT !.open = line.name, !.line = i]
      [] line.kind = "version" /\ state.open # "" ->
             [Add(state, Dep(state.line, state.open, line.version)) EXCEPT !.open = ""]
      [] OTHER -> state

parse_manifest(file) ==
    LET Read(state, i) ==
            CASE file.base = "go.mod" -> parse_go_mod(state, file.lines[i], i)
              [] file.base = "requirements.txt" -> parse_requirements_txt(state, file.lines[i], i)
              [] file.base = "Cargo.lock" -> parse_cargo_lock(state, file.lines[i], i)
              [] file.base = "package-lock.json" -> parse_package_lock_json(state, file.lines[i], i)
              [] OTHER -> state
    IN  FoldLeft(Read, [open |-> "", line |-> 0, deps |-> <<>>], [i \in DOMAIN file.lines |-> i]).deps

scan_manifest(file) ==
    LET flawed == SelectSeq(parse_manifest(file), matches_vulnerable_dep)
    IN  [k \in DOMAIN flawed |->
            [rule_id |-> "vulnerable-dependency", name |-> flawed[k].name, start_line |-> flawed[k].line]]

-----------------------------------------------------------------------------
(* The module *)

\* A file counts once for its flows, once for its secrets unless it had flows,
\* and once more for its dependencies.
analyze(files) ==
    LET Found(f) == [sast |-> analyze_file(f), secrets |-> scan_secrets(f), deps |-> scan_manifest(f)]
        Count(f) == LET found == Found(f)
                    IN  (IF found.sast # <<>> \/ found.secrets # <<>> THEN 1 ELSE 0)
                        + (IF found.deps # <<>> THEN 1 ELSE 0)
    IN  [findings |-> FlattenSeq([i \in DOMAIN files |->
                          Found(files[i]).sast \o Found(files[i]).secrets \o Found(files[i]).deps]),
         files_analyzed |-> FoldLeft(LAMBDA n, f : n + Count(f), 0, files)]

\* None of the findings is ever fixed.
fix(findings) == [k \in DOMAIN findings |-> [rule_id |-> findings[k].rule_id, applied |-> FALSE, edits |-> <<>>]]

-----------------------------------------------------------------------------
(* Their description *)

describe == [id |-> "security", rules |-> RULES]

\* Nothing for a rule of another module.
explain(rule_id) ==
    IF rule_id \notin DOMAIN RULES THEN <<>>
    ELSE <<[rule_id |-> rule_id, default_severity |-> RULES[rule_id], suppression |-> TRUE]>>
=============================================================================
