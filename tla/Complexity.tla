------------------------------ MODULE Complexity ------------------------------
(***************************************************************************)
(* The complexity module, the health scores and the hotspots.  A node of a *)
(* syntax tree is a record with its kind, the name its parent knows it by  *)
(* (field), its children and its first and last line.  Averages are exact; *)
(* the code takes them as 64-bit floats.                                   *)
(***************************************************************************)
EXTENDS Languages, Integers, TLC

Sum(seq) == FoldLeft(LAMBDA a, b : a + b, 0, seq)
Greatest(seq, least) == FoldLeft(LAMBDA a, b : IF b > a THEN b ELSE a, least, seq)
Map(seq, Op(_)) == [i \in DOMAIN seq |-> Op(seq[i])]

FieldOf(node, field) == SelectSeq(node.children, LAMBDA c : c.field = field)

\* A short-circuit operator; every boolean_operator of Python is one.
IsShortCircuit(node, lang) ==
    IF lang = "Python" THEN node.kind = "boolean_operator"
    ELSE /\ node.kind = "binary_expression"
         /\ \E op \in ToSet(FieldOf(node, "operator")) : op.kind \in {"&&", "||"}

PathNodes == [Go |-> {"if_statement", "for_statement", "expression_case", "type_case", "default_case"},
              Python |-> {"if_statement", "elif_clause", "for_statement", "while_statement",
                          "except_clause", "with_statement"}]

RECURSIVE add_cyclomatic(_, _)
add_cyclomatic(node, lang) ==
    (IF node.kind \in PathNodes[lang] \/ IsShortCircuit(node, lang) THEN 1 ELSE 0)
    + Sum(Map(node.children, LAMBDA c : add_cyclomatic(c, lang)))

compute_cyclomatic(body, lang) == 1 + add_cyclomatic(body, lang)

NestingNodes == [Go |-> {"if_statement", "for_statement", "expression_switch_statement",
                         "type_switch_statement"},
                 Python |-> {"if_statement", "for_statement", "while_statement", "with_statement",
                             "except_clause"}]

RECURSIVE compute_max_nesting(_, _)
compute_max_nesting(node, current) ==
    Greatest(Map(node.children, LAMBDA c :
                 compute_max_nesting(c, IF c.kind \in NestingNodes.Go \cup NestingNodes.Python
                                        THEN current + 1 ELSE current)),
             current)

\* A bug that charges a nested statement for itself and not for what is in it.
RECURSIVE compute_cognitive_Flat(_, _, _)
compute_cognitive_Flat(node, nesting, lang) ==
    Sum(Map(node.children, LAMBDA c :
        IF c.kind \in NestingNodes[lang] THEN 1 + nesting
        ELSE (IF IsShortCircuit(c, lang) THEN 1 ELSE 0) + compute_cognitive_Flat(c, nesting, lang)))

\* An elif costs one wherever it is, and nests what is in it.
RECURSIVE compute_cognitive(_, _, _)
compute_cognitive(node, nesting, lang) ==
    Sum(Map(node.children, LAMBDA c :
        CASE c.kind \in NestingNodes[lang] -> 1 + nesting + compute_cognitive(c, nesting + 1, lang)
          [] lang = "Python" /\ c.kind = "elif_clause" -> 1 + compute_cognitive(c, nesting + 1, lang)
          [] IsShortCircuit(c, lang) -> 1 + compute_cognitive(c, nesting, lang)
          [] OTHER -> compute_cognitive(c, nesting, lang)))

\* A function without a name is skipped, one without a body costs the least.
FunctionMetrics(node, lang) ==
    LET body == FieldOf(node, "body")
    IN  IF FieldOf(node, "name") = <<>> THEN <<>>
        ELSE <<[start_line |-> node.row, end_line |-> node.last, lines |-> node.last - node.row + 1,
                cyclomatic |-> IF body = <<>> THEN 1 ELSE compute_cyclomatic(body[1], lang),
                cognitive |-> IF body = <<>> THEN 0 ELSE compute_cognitive(body[1], 0, lang),
                max_nesting |-> IF body = <<>> THEN 0 ELSE compute_max_nesting(body[1], 0)]>>

collect_go_functions(root) ==
    FlattenSeq(Map(root.children, LAMBDA c :
        IF c.kind \in {"function_declaration", "method_declaration"} THEN FunctionMetrics(c, "Go") ELSE <<>>))

\* Methods of a class are not functions of the file.
collect_python_functions(root) ==
    LET Own(c) == IF c.kind = "function_definition" THEN FunctionMetrics(c, "Python") ELSE <<>>
    IN  FlattenSeq(Map(root.children, LAMBDA c :
            IF c.kind = "decorated_definition" THEN FlattenSeq(Map(c.children, Own)) ELSE Own(c)))

\* The other languages with a grammar have no functions here.
compute_file_metrics(tree, lang) ==
    CASE lang = "Go" -> collect_go_functions(tree)
      [] lang = "Python" -> collect_python_functions(tree)
      [] OTHER -> <<>>

-----------------------------------------------------------------------------
(* Health *)

from_score(score) ==
    CASE score >= 90 -> "A" [] score >= 80 -> "B" [] score >= 70 -> "C" [] score >= 60 -> "D" [] OTHER -> "F"

Capped(n, most) == IF n > most THEN most ELSE n

\* Three points for every point the average is above the limit.
AveragePenalty(values, limit) ==
    LET excess == Sum(values) - limit * Len(values)
    IN  IF excess > 0 THEN Capped((3 * excess) \div Len(values), 30) ELSE 0

compute_file_health(metrics, max_cyclomatic, max_cognitive) ==
    LET max_lines == Greatest(Map(metrics, LAMBDA m : m.lines), 0)
        max_nesting == Greatest(Map(metrics, LAMBDA m : m.max_nesting), 0)
        penalty == AveragePenalty(Map(metrics, LAMBDA m : m.cyclomatic), max_cyclomatic)
                   + AveragePenalty(Map(metrics, LAMBDA m : m.cognitive), max_cognitive)
                   + (IF max_lines > 100 THEN Capped((max_lines - 100) \div 20, 20) ELSE 0)
                   + (IF max_nesting > 4 THEN Capped((max_nesting - 4) * 5, 20) ELSE 0)
    IN  IF metrics = <<>> \/ penalty <= 0 THEN 100 ELSE 100 - Capped(penalty, 100)

compute_project_health(scores) ==
    LET score == IF scores = <<>> THEN 100 ELSE Sum(scores) \div Len(scores)
    IN  [score |-> score, grade |-> from_score(score), total_files |-> Len(scores)]

\* Only Go and Python files are read; a file is a record with lang and tree.
Scored(files) == SelectSeq(files, LAMBDA f : f.lang \in {"Go", "Python"})

analyze_project_health(files, max_cyclomatic, max_cognitive) ==
    compute_project_health(Map(Scored(files), LAMBDA f :
        compute_file_health(compute_file_metrics(f.tree, f.lang), max_cyclomatic, max_cognitive)))

\* The findings, by file: first those of its functions, then the one of its score.
analyze(files, max_cyclomatic, max_cognitive, min_score) ==
    FlattenSeq(Map(Scored(files), LAMBDA f :
        LET metrics == compute_file_metrics(f.tree, f.lang)
            Found(rule, line) == [rule_id |-> rule, file |-> f.file, start_line |-> line]
        IN  FlattenSeq(Map(metrics, LAMBDA m :
                (IF m.cyclomatic > max_cyclomatic THEN <<Found("high-cyclomatic", m.start_line)>> ELSE <<>>)
                \o (IF m.cognitive > max_cognitive THEN <<Found("high-cognitive", m.start_line)>> ELSE <<>>)))
            \o (IF compute_file_health(metrics, max_cyclomatic, max_cognitive) < min_score
                THEN <<Found("low-health-score", 1)>> ELSE <<>>)))

-----------------------------------------------------------------------------
(* Hotspots.  A score is a fraction <<numerator, denominator>>.             *)

AtLeast(score, n) == score[1] >= n * score[2]

hotspot_score(file, commits) ==
    LET metrics == compute_file_metrics(file.tree, file.lang)
    IN  IF metrics = <<>> THEN <<commits, 1>>
        ELSE <<commits * Sum(Map(metrics, LAMBDA m : m.cyclomatic)), Len(metrics)>>

\* Files nobody has committed are left out; the rest come by falling score.
compute_hotspots(files, commit_counts) ==
    SortSeq(Map(SelectSeq(files, LAMBDA f : f.file \in DOMAIN commit_counts /\ commit_counts[f.file] > 0),
                LAMBDA f : [file |-> f.file, score |-> hotspot_score(f, commit_counts[f.file])]),
            LAMBDA a, b : a.score[1] * b.score[2] > b.score[1] * a.score[2])

analyze_hotspots(files, commit_counts, hotspot_threshold, refactoring_threshold) ==
    FlattenSeq(Map(compute_hotspots(files, commit_counts), LAMBDA entry :
        CASE AtLeast(entry.score, refactoring_threshold) -> <<[rule_id |-> "refactoring-target", file |-> entry.file]>>
          [] ~AtLeast(entry.score, refactoring_threshold) /\ AtLeast(entry.score, hotspot_threshold) ->
                 <<[rule_id |-> "hotspot", file |-> entry.file]>>
          [] OTHER -> <<>>))

-----------------------------------------------------------------------------
(* The rules *)

RULES == [r \in {"high-cyclomatic", "high-cognitive", "low-health-score"} |-> "warning"]
HOTSPOT_RULES == ("hotspot" :> "warning") @@ ("refactoring-target" :> "error")

describe == [id |-> "complexity", rules |-> RULES]
describe_hotspot == [id |-> "hotspot", rules |-> HOTSPOT_RULES]

\* Nothing for a rule of another module.
explain(rule_id) ==
    IF rule_id \notin DOMAIN RULES THEN <<>>
    ELSE <<[rule_id |-> rule_id, default_severity |-> RULES[rule_id], suppression |-> TRUE]>>

explain_hotspot(rule_id) ==
    IF rule_id \notin DOMAIN HOTSPOT_RULES THEN <<>>
    ELSE <<[rule_id |-> rule_id, default_severity |-> HOTSPOT_RULES[rule_id], suppression |-> TRUE]>>
=============================================================================
