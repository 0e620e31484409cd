----------------------------- MODULE TreeAnalyses -----------------------------
(***************************************************************************)
(* The analyses that walk trees, graphs and lines: what each answers on    *)
(* its input, and what the answer should be.                               *)
(***************************************************************************)
EXTENDS AnalysisInputs

Syntax == INSTANCE SyntaxSymbols
Clones == INSTANCE CloneDetection
Metrics == INSTANCE Complexity
Cicd == INSTANCE CicdScan
Quality == INSTANCE AiQuality
Models == INSTANCE LlmDefense
Handlers == INSTANCE Frameworks
Rules == INSTANCE Catalogue
Former == INSTANCE Migration
Monorepo == INSTANCE Workspaces

\* What the graph and the list of suppressions hold for a file.  A file has a
\* path, the last part of it (base), its language by extension, the tree and the
\* lines of its source.
Parsed(file) ==
    [file |-> file.file, base |-> file.base, lang |-> Dead!detect_language(file),
     symbols |-> Syntax!extract_symbols(file.tree, file.lang),
     imports |-> ToSet(Syntax!extract_imports(file.tree, file.lang)),
     refs |-> {r.name : r \in Syntax!extract_references(file.tree, file.lang)},
     suppressions |-> Comments!scan_suppressions(file.source, file.lang)]

ParsedNodes(files) == {Parsed(f) : f \in {g \in files : Dead!detect_language(g) # "none"}}

\* What complexity, health and hotspots say of the files.
Measured(files, commits, limits) ==
    [findings |-> Metrics!analyze(files, limits.cyclomatic, limits.cognitive, limits.score),
     health |-> Metrics!analyze_project_health(files, limits.cyclomatic, limits.cognitive),
     hotspots |-> Metrics!analyze_hotspots(files, commits, limits.hotspot, limits.target)]

\* What a module that looks for patterns finds in a file.
Scanned(module, file) ==
    LET found == CASE module = "security" -> ToSet(Security!analyze(<<file>>).findings)
                   [] module = "cicd-security" -> Cicd!analyze(<<file>>).findings[1]
                   [] module = "ai-quality" -> Quality!analyze(<<file>>)[1]
                   [] module = "llm-defense" -> Models!analyze(<<file>>)[1]
                   [] module = "frameworks" -> Handlers!analyze(<<file>>).findings[1]
    IN  {[rule_id |-> f.rule_id, start_line |-> f.start_line] : f \in found}

\* The workspaces of a repository, and of each the members changed with a file.
WorkspacesFound(root) ==
    LET found == Monorepo!detect_workspaces(root)
    IN  [found |-> found, changed |-> [i \in DOMAIN found |->
            [m \in ToSet(found[i].members) |-> Monorepo!changed_workspaces(found[i], {Append(m.path, <<"f">>)})]]]

TreeAnswers(k, in) ==
    CASE k = "cycles" -> Graph!tarjan_scc(in.adj, in.order)
      [] k = "clones" -> Clones!analyze(in.files, in.min_tokens, in.mode, in.max_families)
      [] k = "trees" -> [plain |-> Measured(in.plain, in.commits, in.limits),
                           deeper |-> Measured(in.deeper, in.commits, in.limits)]
      [] k = "scans" ->
             LET found == [f \in {in.file} \cup Range(in.without) |-> Scanned(in.module, f)]
             IN  [whole |-> found[in.file], without |-> [i \in DOMAIN in.without |-> found[in.without[i]]]]
      [] k = "migrations" -> Former!cmd_migrate(in.tool, in.dir, in.write)
      [] k = "workspaces" -> WorkspacesFound(in.root)
      [] k = "files" ->
             [sources |-> Monorepo!discover_and_read_files(in.files, in.ignore_files, in.config),
              pipelines |-> Monorepo!discover_all_files(in.files, in.config)]

-----------------------------------------------------------------------------
(* Import graph *)

\* The nodes reached from v by one edge or more.
RECURSIVE Reached(_, _)
Reached(adj, from) ==
    LET more == from \cup UNION {{adj[w][i] : i \in DOMAIN adj[w]} : w \in from}
    IN  IF more = from THEN from ELSE Reached(adj, more)

\* The cycles reported are the sets of files that import one another, directly
\* or not, each of them once and whole, in whatever order the maps are walked.
CyclesAreMutualReach ==
    Answered("cycles") =>
        LET reach == [v \in DOMAIN input.adj |-> Reached(input.adj, {v})]
            classes == {{w \in DOMAIN input.adj : w \in reach[v] /\ v \in reach[w]} : v \in DOMAIN input.adj}
            reported == [i \in DOMAIN output |-> {output[i][k] : k \in DOMAIN output[i]}]
        IN  /\ {reported[i] : i \in DOMAIN reported} = {c \in classes : Cardinality(c) > 1}
            /\ \A i, j \in DOMAIN reported : i # j => reported[i] # reported[j]

-----------------------------------------------------------------------------
(* Clones *)

\* Every stretch of min_tokens tokens that appears again at a place that does not
\* overlap it lies in a reported location, every location begins and ends in such
\* a stretch or in what extends it, no two families share a line, and every pair
\* found is counted once.
ClonesAreCompleteAndApart ==
    Answered("clones") =>
        LET n == input.min_tokens
            toks == [f \in DOMAIN input.files |->
                        Clones!tokenize(input.files[f].source, input.files[f].lang, input.mode)]
            places == UNION {{f} \X (1..(Len(toks[f]) - n + 1)) : f \in DOMAIN toks}
            Again(p) == \E q \in places : /\ q[1] # p[1] \/ q[2] >= p[2] + n \/ p[2] >= q[2] + n
                                          /\ Clones!Texts(toks[q[1]], q[2], n) = Clones!Texts(toks[p[1]], p[2], n)
            repeated == {p \in places : Again(p)}
            locations == UNION {r.family.occurrences : r \in output.findings}
            Within(p, o) == /\ o[1] = input.files[p[1]].file /\ o[2] <= toks[p[1]][p[2]].line
                            /\ toks[p[1]][p[2] + n - 1].line <= o[3]
        IN  /\ \A p \in repeated : \E o \in locations : Within(p, o)
            /\ \A o \in locations : \E p \in repeated : Within(p, o) /\ toks[p[1]][p[2]].line = o[2]
            /\ \A r, s \in output.findings : r # s =>
                   \A a \in r.family.occurrences, b \in s.family.occurrences : ~Clones!Overlap(a, b)
            /\ output.raw_clone_pairs = output.collapsed_matches + output.clone_families

-----------------------------------------------------------------------------
(* Metrics and verdicts *)

\* Putting a statement under one more condition never raises the score of the
\* project, and takes away no finding: every function found too complex stays
\* one, and a file that was to be refactored still is.  The same holds for the
\* verdict of an audit, which reports no finding of a baseline that can be read as
\* a new one; and the impact report accounts for every finding of both snapshots.
WorseIsNeverRatedBetter ==
    /\ Answered("trees") =>
        /\ output.deeper.health.score <= output.plain.health.score
        /\ ToSet(output.plain.findings) \subseteq ToSet(output.deeper.findings)
        /\ \A h \in ToSet(output.plain.hotspots) : \E d \in ToSet(output.deeper.hotspots) :
               d.file = h.file /\ (h.rule_id = "refactoring-target" => d.rule_id = "refactoring-target")
    /\ MoreIsNeverRatedBetter
    /\ Answered("gates") /\ ~output.plain.failed /\ input.stored.readable =>
        LET rate == output.impact.report.catch_rate
        IN  /\ {Gates!from_finding(f) : f \in ToSet(output.plain.report.new_findings)}
                    \cap ToSet(input.stored.findings) = {}
            /\ rate.fixed + rate.persisted = Len(input.stored.findings)
            /\ rate.introduced + rate.persisted = Len(input.findings)

-----------------------------------------------------------------------------
(* Patterns *)

\* A finding stands on a line without which it would not be there, though a few
\* are about the whole file; and asking for its rule by the bare name brings the
\* explanation of the module that reported it, whatever module is asked first.
FindingsNameTheirCause ==
    Answered("scans") =>
        \A f \in output.whole :
            /\ f.rule_id \in DOMAIN Rules!describes(input.module).rules
            /\ Rules!Explainers(f.rule_id) = {input.module}
            /\ \/ f.rule_id \in {"inconsistent-error-handling", "missing-rate-limit"} /\ f.start_line \in DOMAIN input.without
               \/ f.start_line \in DOMAIN input.without /\ f \notin output.without[f.start_line]

-----------------------------------------------------------------------------
(* Files of other tools *)

\* A list in the configuration of another tool, or in a workspace manifest, is
\* carried over in its order and with nothing else in it: whole, but for a list of
\* golangci-lint, which ends at a comment.  The configuration it becomes loads
\* exactly when nothing was set twice and no text breaks the quotes it is put in
\* as it is, and then reads back the same lists, if no text holds a backslash; a
\* configuration that exists is left alone. A member is known as
\* changed by a change in it. A source is analysed unless the configuration or an
\* ignore file names it or a directory above it, whatever the walk meets first.
ListsAreCarriedOver ==
    /\ Answered("migrations") =>
        LET toml == output.shown.toml
            Read(section, key) == SelectSeq(Former!Loaded(toml), LAMBDA e : e.section = section /\ e.key = key)
        IN  /\ output.shown.failed = ~input.found
            /\ ".chaffra.toml" \in DOMAIN input.dir \/ ~input.write => output.dir = input.dir
            /\ ~output.shown.failed =>
                   /\ Former!Loads(toml) = input.loads
                   /\ input.loads => \A l \in input.lists :
                          [i \in DOMAIN Read(l[1], l[2]) |-> Read(l[1], l[2])[i].value] =
                              (IF l[3] = <<>> THEN <<>> ELSE <<l[3]>>)
    /\ Answered("workspaces") =>
        /\ {m.path : m \in UNION {ToSet(output.found[i].members) : i \in DOMAIN output.found}} = input.members
        /\ \A i \in DOMAIN output.found : \A m \in ToSet(output.found[i].members) :
               m \in ToSet(output.changed[i][m])
    /\ Answered("files") =>
        LET listed == input.config \cup
                UNION {{input.ignore_files[n][i].pattern : i \in {i \in DOMAIN input.ignore_files[n] :
                            input.ignore_files[n][i].is = "pattern"}} : n \in DOMAIN input.ignore_files}
            Above(f) == {SubSeq(f.path, 1, i) : i \in 1..(Len(f.path) - 1)}
            Named(path, patterns) == \E p \in patterns :
                \/ p.is = "plain" /\ p.path = path
                \/ p.is = "below" /\ IsPrefix(p.path, path)
            Ignored(f) == \/ \E path \in Above(f) \cup {f.path} : Named(path, listed)
                          \/ \E p \in listed : p.is = "ext" /\ p.ext = f.ext
            Ours(f) == f.ext \in {"go", "py"} /\ f.readable /\ ~ \E d \in Above(f) : Last(d) = <<"vendor">>
        IN  /\ output.sources = {f \in input.files : Ours(f) /\ ~Ignored(f)}
            /\ output.pipelines =
                   {f \in input.files : /\ f.cicd /\ <<".", "cache">> \notin ToSet(f.path)
                                        /\ ~ \E path \in Above(f) : Named(path, {p \in input.config : p.is = "plain"})}
=============================================================================
