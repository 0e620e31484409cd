------------------------------- MODULE DeadCode -------------------------------
(***************************************************************************)
(* The dead-code module, from the graph on: a file of it is a record with  *)
(* its path (file), the last part of that (base), its language, and what   *)
(* was read off it: symbols, imports, names referred to, suppressions.     *)
(***************************************************************************)
EXTENDS Suppressions, FiniteSets

\* analyze reads the Go and Python files and no other.
detect_language(file) == IF file.lang \in {"Go", "Python"} THEN file.lang ELSE "none"

\* Symbols are told apart by file and name.
Symbols(nodes) == UNION {{[file |-> f.file, name |-> s.name] : s \in ToSet(f.symbols)} : f \in nodes}

\* Names that begin with Test or Benchmark, and with test_.
TestNames == [Go |-> {"TestA", "BenchmarkA"}, Python |-> {"test_a"}]

is_entry_point(sym, lang, base) ==
    CASE lang = "Go" -> \/ sym.name \in {"main", "init"} \cup TestNames.Go
                        \/ sym.exported /\ sym.kind \in {"function", "type"}
      [] lang = "Python" -> base = "__init__.py" \/ sym.name \in TestNames.Python \/ sym.exported
      [] OTHER -> TRUE

is_entry_file(base) == base \in {"main.go", "__init__.py", "__main__.py"}

SeedEntryPoints(nodes) ==
    UNION {{[file |-> f.file, name |-> s.name] : s \in {t \in ToSet(f.symbols) :
               is_entry_point(t, f.lang, f.base)}} : f \in nodes}

\* A symbol keeps alive whatever its file refers to, in every file.
KeptAlive(nodes, key) ==
    {k \in Symbols(nodes) : \E f \in nodes : f.file = key.file /\ k.name \in f.refs}

\* One symbol of the work list.
TraceStep(nodes, t) ==
    LET key == CHOOSE k \in t.work : TRUE
        new == KeptAlive(nodes, key) \ t.alive
    IN  IF t.work = {} THEN t ELSE [alive |-> t.alive \cup new, work |-> (t.work \ {key}) \cup new]

\* A bug that looks one step ahead only.
compute_alive_symbols_OneStep(nodes) ==
    SeedEntryPoints(nodes) \cup UNION {KeptAlive(nodes, k) : k \in SeedEntryPoints(nodes)}

\* The states of the loop.  Every symbol is taken from the list once at most.
Trace(nodes) ==
    LET seeds == SeedEntryPoints(nodes)
        trace[i \in 0..Cardinality(Symbols(nodes))] ==
            IF i = 0 THEN [alive |-> seeds, work |-> seeds] ELSE TraceStep(nodes, trace[i - 1])
    IN  trace

compute_alive_symbols(nodes) == Trace(nodes)[Cardinality(Symbols(nodes))].alive

is_directly_referenced(name, nodes, defining) ==
    \E f \in nodes : f.file # defining /\ name \in f.refs

Report(rule, file, line, last, fixable, confidence) ==
    [rule_id |-> rule, file |-> file, start_line |-> line, end_line |-> last,
     auto_fixable |-> fixable, confidence |-> confidence]

UnusedSymbols(nodes, f, alive) ==
    {Report(IF s.kind = "function" THEN "unused-function" ELSE "unused-type",
            f.file, s.start_line, s.end_line, TRUE,
            IF is_directly_referenced(s.name, nodes, f.file) THEN 8 ELSE 10) :
        s \in {t \in ToSet(f.symbols) :
                  /\ [file |-> f.file, name |-> t.name] \notin alive
                  /\ t.kind \in {"function", "type"}
                  /\ ~is_suppressed(f.suppressions, t.start_line,
                                    IF t.kind = "function" THEN "unused-function" ELSE "unused-type")}}

\* What an import is used by: the names it lists, for Python, or else its alias
\* or the last part of its path.
ImportUsed(f, imp) ==
    IF f.lang = "Python" /\ imp.names # {} THEN imp.names \cap f.refs # {}
    ELSE (IF imp.alias = "" THEN Last(imp.path) ELSE imp.alias) \in f.refs

UnusedImports(f) ==
    {Report("unused-import", f.file, imp.line, imp.line, TRUE, 10) :
        imp \in {i \in f.imports : /\ ~ImportUsed(f, i)
                                   /\ ~is_suppressed(f.suppressions, i.line, "unused-import")}}

UnusedFiles(f, alive) ==
    IF /\ f.symbols # <<>>
       /\ \A s \in ToSet(f.symbols) : [file |-> f.file, name |-> s.name] \notin alive
       /\ ~is_entry_file(f.base)
       /\ ~is_suppressed(f.suppressions, 1, "unused-file")
    THEN {Report("unused-file", f.file, 1, 1, FALSE, 8)} ELSE {}

\* A suppression is stale when no finding is left next to it; the findings it
\* suppresses are not left, and which rules it names does not matter.
StaleSuppressions(f, findings) ==
    {Report("stale-suppression", f.file, s.line, s.line, TRUE, 10) :
        s \in {t \in f.suppressions :
                  ~ \E found \in findings : /\ found.file = f.file
                                            /\ found.start_line \in {t.line, t.line + 1}}}

\* The files are those of the graph, parsed.
analyze(nodes) ==
    LET alive == compute_alive_symbols(nodes)
        dead == UNION {UnusedSymbols(nodes, f, alive) \cup UnusedImports(f) \cup UnusedFiles(f, alive) :
                          f \in nodes}
    IN  dead \cup UNION {StaleSuppressions(f, dead) : f \in nodes}

\* The module's own fix: the first action of a finding, unless it is a dry run.
fix(findings, dry_run) ==
    {[finding |-> f, applied |-> f.auto_fixable /\ ~dry_run] : f \in findings}

-----------------------------------------------------------------------------
(* The rules *)

RULES ==
    [r \in {"unused-function", "unused-type", "unused-import", "unused-file", "stale-suppression"} |->
        IF r \in {"unused-file", "stale-suppression"} THEN "info" ELSE "warning"]

\* Every rule is described as a warning.
describe == [id |-> "dead-code", rules |-> [r \in DOMAIN RULES |-> "warning"]]

\* Nothing for a rule of another module; a stale comment cannot be suppressed.
explain(rule_id) ==
    IF rule_id \notin DOMAIN RULES THEN <<>>
    ELSE <<[rule_id |-> rule_id, default_severity |-> RULES[rule_id], suppression |-> rule_id # "stale-suppression"]>>
=============================================================================
