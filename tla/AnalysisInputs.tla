---------------------------- MODULE AnalysisInputs ----------------------------
(***************************************************************************)
(* The analyses that keep no state, each run once on every input of a      *)
(* small set and compared with what its answer should be.  This module     *)
(* has the six whose answers are proved right: the scan for suppression    *)
(* comments, dead code, the fixes of the findings, the audit of a change,  *)
(* flows from sources to sinks, and zones.  The others walk trees and      *)
(* graphs, and TreeAnalyses has their answers.                             *)
(***************************************************************************)
EXTENDS FixEngine, FiniteSets

CONSTANTS
    Seeds,          \* for each kind of analysis, the beginnings of its inputs
    Grown(_, _),    \* the inputs of a kind that have a given beginning
    Nodes(_),       \* the files of the graph that the parser makes of some files
    Others(_, _),   \* the answers of the analyses of the other kinds
    None

VARIABLES kind, stage, input, output

vars == <<kind, stage, input, output>>

Comments == INSTANCE Suppressions
Dead == INSTANCE DeadCode
Gates == INSTANCE Reviews
Security == INSTANCE SecurityScan
Graph == INSTANCE ImportGraph

\* The names a request is known by.
RequestNames ==
    [Go |-> {<<"r">>, <<"r", "e", "q">>, <<"r", "e", "q", "u", "e", "s", "t">>},
     Python |-> {<<"r", "e", "q", "u", "e", "s", "t">>}]

\* The zone of a preset that may use no other.
Innermost == [layered |-> "domain", feature_sliced |-> "shared", clean |-> "entities"]

\* A source has lines of characters, is in a language the scan is told apart
\* for, and leaves no string of one line open.
ASSUME SourcesAreWellFormed ==
    "comments" \in DOMAIN Seeds =>
        \A seed \in Seeds["comments"] : \A in \in Grown("comments", seed) :
            /\ in.lang \in {"Go", "Python"}
            /\ in.source \in Seq(Seq(Comments!Characters))
            /\ Comments!WellFormed(in.source, in.lang)

\* A graph has finitely many files, each with a list of symbols, and no two
\* symbols of a file that have different names begin on the same line.
ASSUME GraphsAreWellFormed ==
    "dead" \in DOMAIN Seeds =>
        \A seed \in Seeds["dead"] : \A files \in Grown("dead", seed) : \A nodes \in {Nodes(files)} :
            /\ IsFiniteSet(nodes)
            /\ \A f \in nodes : f.symbols \in Seq(ToSet(f.symbols))
            /\ \A f, g \in nodes : f.file = g.file =>
                   \A s \in ToSet(f.symbols), t \in ToSet(g.symbols) :
                       s.start_line = t.start_line => s.name = t.name

\* A finding has lists of actions and edits; an edit replaces one line or more
\* by any lines.
ASSUME FindingsAreWellFormed ==
    "fixes" \in DOMAIN Seeds =>
        \A seed \in Seeds["fixes"] : \A in \in Grown("fixes", seed) :
            /\ in.content \in Seq(ToSet(in.content))
            /\ in.findings \in Seq(ToSet(in.findings))
            /\ \A finding \in ToSet(in.findings) :
                  /\ finding.actions \in Seq(ToSet(finding.actions))
                  /\ \A action \in ToSet(finding.actions) :
                        /\ action.edits \in Seq(ToSet(action.edits))
                        /\ \A e \in ToSet(action.edits) :
                              /\ e.start_line \in Nat \ {0} /\ e.end_line \in Nat
                              /\ e.start_line <= e.end_line
                              /\ e.new_text \in Seq(ToSet(e.new_text))

\* Findings come in lists, and a threshold is a number.
ASSUME ReviewsAreWellFormed ==
    "gates" \in DOMAIN Seeds =>
        \A seed \in Seeds["gates"] : \A in \in Grown("gates", seed) :
            /\ \A found \in {in.findings, in.others, in.complexity.findings} : found \in Seq(ToSet(found))
            /\ in.config.warn_threshold \in Nat /\ in.config.fail_threshold \in Nat

\* A file in a language with sources and sinks has lines, each with finitely many
\* patterns and with those names of the request that the code knows, and nodes
\* that lie within the file.
ASSUME CodeIsWellFormed ==
    "flows" \in DOMAIN Seeds =>
        \A seed \in Seeds["flows"] : \A in \in Grown("flows", seed) :
            /\ in.lang \in {"Go", "Python"}
            /\ in.lines \in Seq(ToSet(in.lines))
            /\ \A line \in ToSet(in.lines) :
                  /\ line.lhs \in Seq(ToSet(line.lhs))
                  /\ line.requests \subseteq RequestNames[in.lang]
                  /\ IsFiniteSet(line.patterns)
            /\ in.nodes \in Seq(ToSet(in.nodes))
            /\ \A n \in ToSet(in.nodes) :
                  /\ n.row \in 1..Len(in.lines) /\ n.last \in 1..Len(in.lines)
                  /\ n.row <= n.last

\* A project has a list of files with their imports, and is configured by the name
\* of a preset that has an innermost zone.
ASSUME ProjectsAreWellFormed ==
    "layers" \in DOMAIN Seeds =>
        \A seed \in Seeds["layers"] : \A in \in Grown("layers", seed) :
            /\ \E preset \in DOMAIN Innermost : in.entries = <<[kind |-> "preset", name |-> preset]>>
            /\ in.files \in Seq(ToSet(in.files))
            /\ \A file \in ToSet(in.files) : file.imports \in Seq(ToSet(file.imports))

Init ==
    /\ kind \in DOMAIN Seeds
    /\ stage = "begun"
    /\ input \in Seeds[kind]
    /\ output = None

Complete ==
    /\ stage = "begun" /\ stage' = "given"
    /\ input' \in Grown(kind, input)
    /\ UNCHANGED <<kind, output>>

\* The answer of one analysis.
Answer(k, result) ==
    /\ kind = k /\ stage = "given"
    /\ stage' = "answered"
    /\ output' = result
    /\ UNCHANGED <<kind, input>>

SuppressionAnswers == Answer("comments", Comments!scan_suppressions(input.source, input.lang))

DeadCodeAnswers == Answer("dead", Dead!analyze(Nodes(input)))

\* The fixes of the findings applied to one file.
FixAnswers ==
    LET results == orchestrate_fixes(input.findings, FALSE)
        written == apply_fixes_to_files([f \in {input.file} |-> input.content], results)
    IN  Answer("fixes", [results |-> results,
                         content |-> IF input.file \in DOMAIN written THEN written[input.file] ELSE input.content])

\* A change is audited, and so is the same change with more findings in it; the
\* findings stored as the baseline are also those of the earlier snapshot.
Audited(in, findings) ==
    Gates!cmd_audit([ok |-> TRUE, findings |-> findings], in.complexity, in.stored, in.config)
Snapshot(findings) == Gates!create_snapshot(findings, 1, <<>>, -1)

GateAnswers ==
    Answer("gates",
           [plain |-> Audited(input, input.findings), more |-> Audited(input, input.findings \o input.others),
            impact |-> Gates!cmd_impact(
                <<[ok |-> TRUE, findings |-> input.findings, files_analyzed |-> 1]>>, -1, FALSE,
                <<[readable |-> input.stored.readable, snapshot |-> Snapshot(input.stored.findings)]>>)])

FlowAnswers == Answer("flows", Security!analyze_file(input))

LayerAnswers == Answer("layers", Graph!analyze(input.files, input.entries))

OtherAnswers ==
    \E k \in DOMAIN Seeds \ {"comments", "dead", "fixes", "gates", "flows", "layers"} :
        Answer(k, Others(k, input))

Next ==
    \/ Complete \/ SuppressionAnswers \/ DeadCodeAnswers \/ FixAnswers \/ GateAnswers
    \/ FlowAnswers \/ LayerAnswers \/ OtherAnswers

Spec == Init /\ [][Next]_vars

Answered(k) == kind = k /\ stage = "answered"

-----------------------------------------------------------------------------
(* Suppressions and dead code *)

\* What the line-wise scan takes for a suppression is one that a lexer of the
\* whole file finds in a comment, and none is missed, whatever strings and comments
\* the file holds; unless a string in three quotes holds one of these (Python), or a
\* comment between /* and */ a quote, a backtick, a backslash or // (Go).
SuppressionsAreComments ==
    Answered("comments") /\ ~Comments!HoldsDelimiters(input.source, input.lang) =>
        {s.line : s \in output} = Comments!CommentLines(input.source, input.lang)

\* What is reported as unused and then removed is referred to by no file that
\* keeps a live symbol, over any number of files and references between them.
RemovalsLeaveNoDanglingUse ==
    Answered("dead") =>
        \A nodes \in {Nodes(input)} : \A f \in nodes :
            (\E s \in Dead!compute_alive_symbols(nodes) : s.file = f.file) =>
            \A g \in nodes : \A i \in DOMAIN g.symbols :
                g.symbols[i].name \in f.refs =>
                    ~ \E r \in output : /\ r.file = g.file /\ r.start_line = g.symbols[i].start_line
                                        /\ r.rule_id \in {"unused-function", "unused-type"}

\* deadcode/src/lib.rs: "A chaffra:ignore comment that no longer applies to any
\* finding".  A comment reported as stale suppresses nothing: without the
\* comments no finding of a rule it names would be reported next to it.
StaleCommentsSuppressNothing ==
    Answered("dead") =>
        \A nodes \in {Nodes(input)} :
            LET bare == Dead!analyze({[f EXCEPT !.suppressions = {}] : f \in nodes})
            IN  \A f \in nodes : \A s \in f.suppressions :
                    (\E r \in output : /\ r.rule_id = "stale-suppression"
                                       /\ r.file = f.file /\ r.start_line = s.line) =>
                    ~ \E d \in bare : /\ d.file = f.file
                                      /\ d.start_line \in {s.line, s.line + 1}
                                      /\ (s.rules = {} \/ d.rule_id \in s.rules)

-----------------------------------------------------------------------------
(* Fixes *)

\* The lines with every edit made at its place of the original, all at once.
EditedAtOnce(lines, edits) ==
    LET Begun(i) == {e \in edits : e.start_line = i}
        Covered(i) == \E e \in edits : i \in e.start_line..e.end_line
    IN  FlattenSeq([i \in DOMAIN lines |->
                       (IF Begun(i) = {} THEN <<>> ELSE (CHOOSE e \in Begun(i) : TRUE).new_text)
                       \o (IF Covered(i) THEN <<>> ELSE <<lines[i]>>)])

\* Editing from the bottom up gives what editing every place of the original at
\* once would: no applied fix moves, cuts or repeats the place of another.
EngineMatchesReference ==
    Answered("fixes") =>
        output.content = EditedAtOnce(input.content, AppliedEdits(output.results, input.file))

-----------------------------------------------------------------------------
(* Verdicts *)

Rank == [pass |-> 0, warn |-> 1, fail |-> 2]

\* More findings never improve the verdict of an audit, whatever the gate and the
\* thresholds, in this order or the other; and findings that all stand in a
\* baseline that can be read pass.
MoreIsNeverRatedBetter ==
    Answered("gates") /\ ~output.plain.failed =>
        LET all == ToSet(input.findings)
                   \cup (IF input.complexity.ok THEN ToSet(input.complexity.findings) ELSE {})
        IN  /\ Rank[output.plain.report.verdict] <= Rank[output.more.report.verdict]
            /\ input.config.gate_mode # "all" /\ input.stored.readable
                /\ {Gates!from_finding(f) : f \in all} \subseteq ToSet(input.stored.findings) =>
                   output.plain.report.verdict = "pass"

-----------------------------------------------------------------------------
(* Flows and zones *)

\* A name holds what came in when it is assigned on a line of some lines of the
\* function each of which has a source, or uses a name assigned on one of them
\* above it.
Held(fn) ==
    LET line == input.lines
        signs == [Go |-> {":=", "=", "=="}, Python |-> {":=", "="}]
        Assigned(i) == IF line[i].op \in signs[input.lang] THEN ToSet(line[i].lhs) \ {<<>>} ELSE {}
        HasSource(i) == line[i].patterns \cap Security!SOURCES[input.lang] # {}
        Uses(i, v) == \E w \in line[i].rhs : Security!Within(v, w)
    IN  UNION {UNION {Assigned(i) : i \in L} :
            L \in {L \in SUBSET (fn[1]..fn[2]) :
                \A i \in L : HasSource(i) \/ \E j \in L : j < i /\ \E v \in Assigned(j) : Uses(i, v)}}

\* A sink is reported in a function exactly when a chain of assignments, each
\* below the one before, leads from a line with a source to a name on the line
\* of the sink, or the line names the request the function was given.
FlowsAreReported ==
    Answered("flows") =>
        LET line == input.lines
            functions == {<<n.row, n.last>> : n \in {n \in ToSet(input.nodes) : n.kind \in Security!FunctionKinds}}
            Given(fn) == UNION {line[i].requests : i \in {i \in fn[1]..fn[2] : i <= fn[1] + 5}}
            Sinks(i) == line[i].patterns \cap DOMAIN Security!SINKS[input.lang]
            IsReached(fn, i) == line[i].names \cap (Held(fn) \cup Given(fn)) # {}
        IN  ToSet(output) =
                UNION {UNION {{[rule_id |-> Security!SINKS[input.lang][p], sink |-> p, start_line |-> i] : p \in Sinks(i)} :
                                 i \in {i \in fn[1]..fn[2] : IsReached(fn, i)}} : fn \in functions}

\* When the zones of a preset have no violation and no file is outside them, the
\* innermost zone reaches no other zone, over any number of imports; the check of
\* the zones takes an import of a .tsx or .jsx file less often for one than the
\* search for cycles does, and there is none.
InnermostZoneIsClosed ==
    Answered("layers") /\ output.violations = {} =>
        LET graph == Graph!add_files(input.files)
            adj == Graph!build_adjacency(graph, Graph!PathOrder(input.files))
            preset == input.entries[1].name
            Zone(f) == Graph!file_zone(f, Graph!Presets[preset].zones)
            IsClosed(S) == \A f \in S : ToSet(adj[f]) \subseteq S
            Reaches(f, g) == \A S \in SUBSET DOMAIN graph : f \in S /\ IsClosed(S) => g \in S
        IN  (\A f \in DOMAIN graph : Zone(f) # "none" /\ Last(f) \notin {"tsx", "jsx"}) =>
                \A f, g \in DOMAIN graph :
                    Zone(f) = Innermost[preset] /\ Reaches(f, g) => Zone(g) = Innermost[preset]
=============================================================================
