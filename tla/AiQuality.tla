------------------------------- MODULE AiQuality -------------------------------
(***************************************************************************)
(* The ai-quality module: what generated code promises and does not keep.  *)
(* A file has a tree for its symbols and lines for the rest.  A line is a  *)
(* record: its kind ("blank", "comment" or "code"), the words it contains  *)
(* (says), the names called on it outside of quotes (calls), those called  *)
(* with a capital after a dot (methods), the decorators it applies, and    *)
(* whether it opens a definition (defines), is no more than the frame of   *)
(* one (frame), a placeholder, or a condition that never holds (never).    *)
(* A name stands for every name that contains it.                          *)
(***************************************************************************)
EXTENDS SyntaxSymbols, FiniteSetsExt, TLC

LOCAL Comments == INSTANCE Suppressions

RULES ==
    [r \in {"phantom-api-call", "phantom-security-call", "disabled-control"} |-> "error"]
    @@ [r \in {"missing-decorator", "unfinished-stub", "impossible-dependency-version"} |-> "warning"]
    @@ [r \in {"inconsistent-error-handling"} |-> "info"]

GO_STDLIB_PACKAGES ==
    {"fmt", "os", "io", "net", "http", "json", "log", "sync", "context", "time", "strings", "strconv",
     "bytes", "errors", "path", "filepath", "bufio", "crypto", "encoding", "reflect", "testing", "regexp",
     "sort", "math", "database", "sql", "html", "template", "flag"}

PYTHON_BUILTINS ==
    {"print", "len", "range", "int", "str", "float", "list", "dict", "set", "tuple", "bool", "type",
     "isinstance", "issubclass", "hasattr", "getattr", "setattr", "delattr", "open", "input", "super",
     "map", "filter", "zip", "enumerate", "sorted", "reversed", "min", "max", "sum", "abs", "round", "any",
     "all", "next", "iter", "hash", "id", "repr", "format", "chr", "ord", "hex", "oct", "bin", "pow",
     "divmod", "complex", "bytes", "bytearray", "memoryview", "object", "staticmethod", "classmethod",
     "property", "Exception", "ValueError", "TypeError", "KeyError", "IndexError", "AttributeError",
     "RuntimeError", "OSError", "IOError", "FileNotFoundError", "NotImplementedError", "StopIteration",
     "True", "False", "None"}

PHANTOM_SECURITY_PATTERNS ==
    {"validate_token", "verify_auth", "check_permissions", "sanitize_input", "encrypt_data", "decrypt_data",
     "verify_signature", "check_csrf", "validate_session", "authenticate_user", "authorize_request",
     "verify_certificate", "validate_credentials"}

SECURITY_DECORATORS_PYTHON ==
    {"login_required", "permission_required", "requires_auth", "csrf_protect", "rate_limit",
     "require_http_methods", "requires_permission", "authenticated"}

SECURITY_COMMENT_GO ==
    {"// requires authentication", "// requires authorization", "// must be authenticated",
     "// auth required", "// protected endpoint", "// requires permission"}

common_methods ==
    {"append", "extend", "insert", "remove", "pop", "clear", "copy", "get", "keys", "values", "items",
     "update", "join", "split", "strip", "lower", "upper", "replace", "find", "startswith", "endswith",
     "encode", "decode", "read", "write", "close", "flush", "Error", "String", "Len", "Close", "Read",
     "Write", "self", "cls"}

Found(rule, line) == [rule_id |-> rule, start_line |-> line]

\* The last of two line numbers that exists.
Upto(lines, i) == IF i < Len(lines) THEN i ELSE Len(lines)

-----------------------------------------------------------------------------
(* Calls to what does not exist *)

import_local_name(imp) == IF imp.alias # "" THEN imp.alias ELSE Last(imp.path)

build_known_set(defined, imported) ==
    defined \cup imported \cup GO_STDLIB_PACKAGES \cup PYTHON_BUILTINS \cup common_methods

is_security_related(name) ==
    name \in PHANTOM_SECURITY_PATTERNS \cup {"auth", "csrf", "sanitiz", "encrypt", "decrypt", "verify_sig"}

SingleLetters == {"a", "i", "r", "w", "x"}

\* A call of the name anywhere in the file, not only where it is referred to.
is_function_call(name, lines) == \E l \in ToSet(lines) : l.kind # "comment" /\ name \in l.calls

is_likely_method_call(name, lines, lang) ==
    CASE lang = "Go" -> \E l \in ToSet(lines) : name \in l.methods
      [] lang = "Python" -> name \in {"self", "cls"}

detect_phantom_api_calls(file, refs, known) ==
    {Found("phantom-api-call", r.line) :
        r \in {r \in refs : /\ r.name \notin known \cup SingleLetters
                            /\ ~is_security_related(r.name)
                            /\ ~is_likely_method_call(r.name, file.lines, file.lang)
                            /\ is_function_call(r.name, file.lines)}}

detect_phantom_security_calls(file, refs, known) ==
    {Found("phantom-security-call", r.line) :
        r \in {r \in refs : /\ r.name \notin known
                            /\ is_security_related(r.name)
                            /\ is_function_call(r.name, file.lines)}}

-----------------------------------------------------------------------------
(* Promises in comments *)

\* The first of the next nine lines of code that applies the decorator or opens
\* a definition decides.
check_decorator_applied(lines, i, decorator) ==
    LET ends == {k \in (i + 1)..Upto(lines, i + 9) :
                    lines[k].kind = "code" /\ (decorator \in lines[k].decorates \/ lines[k].defines)}
    IN  ends # {} /\ decorator \in lines[Min(ends)].decorates

\* The first of the next fourteen lines that names a guard, or opens a function
\* that is not right below.
check_go_middleware_applied(lines, i) ==
    LET Guards(k) == lines[k].says \cap {"middleware", "auth", "wrap"} # {}
        ends == {k \in (i + 1)..Upto(lines, i + 14) : Guards(k) \/ (lines[k].defines /\ k > i + 1)}
    IN  ends # {} /\ Guards(Min(ends))

detect_missing_decorators(file) ==
    LET Promised(i) ==
            CASE file.lang = "Python" /\ file.lines[i].kind = "comment" ->
                     \E d \in SECURITY_DECORATORS_PYTHON \cap file.lines[i].says :
                         ~check_decorator_applied(file.lines, i, d)
              [] file.lang = "Go" ->
                     /\ SECURITY_COMMENT_GO \cap file.lines[i].says # {}
                     /\ ~check_go_middleware_applied(file.lines, i)
              [] OTHER -> FALSE
    IN  {Found("missing-decorator", i) : i \in {i \in DOMAIN file.lines : Promised(i)}}

-----------------------------------------------------------------------------
(* Stubs, disabled controls, mixed styles *)

\* Without its frame a body has nothing but placeholders.
is_stub_body(body) == \A l \in ToSet(body) : l.kind = "blank" \/ l.frame \/ l.placeholder

\* The lines after the first are the body: a function on one line has none.
detect_unfinished_stubs(file, syms) ==
    {Found("unfinished-stub", s.start_line) :
        s \in {s \in ToSet(syms) : /\ s.kind = "function"
                                   /\ s.end_line <= Len(file.lines)
                                   /\ is_stub_body(SubSeq(file.lines, s.start_line + 1, s.end_line))}}

looks_like_disabled_security_check(line) ==
    /\ "(" \in line.says
    /\ line.says \cap {"auth", "csrf", "token", "permission", "sanitiz", "validate", "verify"} # {}

line_contains_security_keyword(line) ==
    line.says \cap {"auth", "csrf", "token", "permission", "sanitize", "validate"} # {}

detect_disabled_controls(file) ==
    LET lines == file.lines
        Disabled(i) ==
            \/ lines[i].kind = "comment" /\ looks_like_disabled_security_check(lines[i])
            \/ lines[i].never /\ \E k \in i..Upto(lines, i + 4) : line_contains_security_keyword(lines[k])
    IN  {Found("disabled-control", i) : i \in {i \in DOMAIN lines : Disabled(i)}}

\* A finding about the whole file stands at its first line.
detect_inconsistent_error_handling(file) ==
    LET said == UNION {l.says : l \in ToSet(file.lines)}
        mixed == CASE file.lang = "Go" -> "if err != nil" \in said /\ said \cap {"panic(", "log.Fatal"} # {}
                   [] file.lang = "Python" -> {"try:", "except:", "except E:"} \subseteq said
    IN  IF mixed THEN {Found("inconsistent-error-handling", 1)} ELSE {}

-----------------------------------------------------------------------------
(* Versions nobody has released.  A requirement is a sequence of bounds, each *)
(* an operator, a major number and whether a minor one follows.             *)

Covers(op, other) == op = other \/ <<op, other>> \in {<<"<=", "<">>, <<">=", ">">>}

\* Of the bounds with an operator the first is read, and it is a number only up
\* to a dot or the end of the line.
check_python_requirement(bounds) ==
    \/ \E i \in DOMAIN bounds :
           /\ bounds[i].major >= 90
           /\ bounds[i].dotted \/ i = Len(bounds)
           /\ \A k \in 1..(i - 1) : ~Covers(bounds[k].op, bounds[i].op)
    \/ /\ Len(bounds) >= 2
       /\ bounds[1].op \in {">=", ">"} /\ bounds[2].op \in {"<=", "<"}
       /\ bounds[1].major > bounds[2].major

check_go_module_version(bounds) == \E b \in ToSet(bounds) : b.major >= 90

detect_impossible_dependency_versions(file) ==
    LET Impossible(line) ==
            CASE file.base = "requirements.txt" -> line.kind = "code" /\ check_python_requirement(line.bounds)
              [] file.base = "go.mod" -> check_go_module_version(line.bounds)
              [] OTHER -> FALSE
    IN  {Found("impossible-dependency-version", i) : i \in {i \in DOMAIN file.lines : Impossible(file.lines[i])}}

-----------------------------------------------------------------------------
(* The module *)

\* What one file defines or imports is known in all of them.  A finding in a
\* manifest cannot be suppressed.
analyze(files) ==
    LET read == {f \in ToSet(files) : f.lang \in {"Go", "Python"}}
        defined == UNION {{s.name : s \in ToSet(extract_symbols(f.tree, f.lang))} : f \in read}
        imports == UNION {ToSet(extract_imports(f.tree, f.lang)) : f \in read}
        known == build_known_set(defined, {import_local_name(i) : i \in imports} \cup UNION {i.names : i \in imports})
        InCode(f) ==
            LET syms == extract_symbols(f.tree, f.lang)
                refs == extract_references(f.tree, f.lang)
                found == detect_phantom_api_calls(f, refs, known) \cup detect_phantom_security_calls(f, refs, known)
                         \cup detect_missing_decorators(f) \cup detect_unfinished_stubs(f, syms)
                         \cup detect_disabled_controls(f) \cup detect_inconsistent_error_handling(f)
                source == [i \in DOMAIN f.lines |-> f.lines[i].chars]
            IN  {d \in found : ~Comments!is_line_suppressed(source, d.start_line, d.rule_id, f.lang)}
    IN  [i \in DOMAIN files |->
            (IF files[i] \in read THEN InCode(files[i]) ELSE {}) \cup detect_impossible_dependency_versions(files[i])]

\* The first action of a finding, reported as applied without being written.
fix(findings, dry_run) ==
    [i \in DOMAIN findings |->
        LET actions == findings[i].actions
        IN  [rule_id |-> findings[i].rule_id, applied |-> actions # <<>> /\ ~dry_run,
             edits |-> IF actions = <<>> THEN <<>> ELSE actions[1].edits]]

-----------------------------------------------------------------------------
(* The rules *)

describe == [id |-> "ai-quality", rules |-> RULES]

\* Nothing for a rule of another module.
explain(rule_id) ==
    IF rule_id \notin DOMAIN RULES THEN <<>>
    ELSE <<[rule_id |-> rule_id, default_severity |-> RULES[rule_id], suppression |-> TRUE]>>
=============================================================================
