------------------------------ MODULE Migration ------------------------------
(***************************************************************************)
(* chaffra migrate: the configuration of another tool turned into entries  *)
(* [section, key, value] of a .chaffra.toml, in the order they are written.*)
(* JSON and TOML are functions from keys to values; the line-wise formats  *)
(* are sequences of trimmed lines.  A note is the key or name it is about. *)
(***************************************************************************)
EXTENDS Integers, SequencesExt, TLC

\* Nothing for an unknown name.
from_str_loose(name) ==
    CASE name \in {"knip", "jscpd", "ruff"} -> <<name>>
      [] name \in {"golangci-lint", "golangci"} -> <<"golangci-lint">>
      [] name \in {"import-linter", "importlinter"} -> <<"import-linter">>
      [] OTHER -> <<>>

default_config_file ==
    [knip |-> "knip.json", jscpd |-> ".jscpd.json", ruff |-> "ruff.toml"]
    @@ ("golangci-lint" :> ".golangci.yml") @@ ("import-linter" :> ".importlinter")

Entry(section, key, value) == <<[section |-> section, key |-> key, value |-> value]>>
ListEntry(section, key, items) == IF items = <<>> THEN <<>> ELSE Entry(section, key, items)
Rule(rule_id, severity) == Entry("rules", rule_id, severity)

Get(table, key, default) == IF key \in DOMAIN table THEN table[key] ELSE default
Migrated(toml, notes) == [failed |-> FALSE, toml |-> toml, notes |-> notes]
Failed(why) == [failed |-> TRUE, why |-> why]

\* Dependencies to ignore are ignored like files; a key with no counterpart is noted.
convert_knip(parsed) ==
    LET ignores == Get(parsed, "ignore", <<>>) \o Get(parsed, "ignoreDependencies", <<>>)
    IN  Migrated(ListEntry("project", "entry", Get(parsed, "entry", <<>>))
                 \o ListEntry("project", "ignore", ignores)
                 \o Rule("unused-function", "error") \o Rule("unused-import", "error") \o Rule("unused-file", "warn"),
                 DOMAIN parsed \ {"entry", "ignore", "project"})

\* Lines and tokens are both written as tokens.
convert_jscpd(parsed) ==
    LET Tokens(key, factor) ==
            IF key \in DOMAIN parsed THEN Entry("duplication", "min-tokens", parsed[key] * factor) ELSE <<>>
    IN  Migrated(ListEntry("project", "ignore", Get(parsed, "ignore", <<>>))
                 \o Tokens("minLines", 10) \o Tokens("minTokens", 1)
                 \o Entry("duplication", "mode", IF "formatsExts" \in DOMAIN parsed THEN "semantic" ELSE "mild"),
                 DOMAIN parsed \cap {"minLines", "threshold", "reporters"})

linter_to_rule ==
    <<<<"deadcode", "unused-function">>, <<"unused", "unused-function">>,
      <<"structcheck", "unused-type">>, <<"varcheck", "unused-type">>,
      <<"gocyclo", "high-cyclomatic">>, <<"cyclop", "high-cyclomatic">>, <<"gocognit", "high-cognitive">>,
      <<"dupl", "code-duplicate">>, <<"importorder", "import-boundary">> >>

\* For ListsAreCarriedOver: another key does not end a list.
ListUnder_Endless(lines, key) ==
    FoldLeft(LAMBDA list, line :
                 IF line.is = "key" /\ line.key = key THEN [list EXCEPT !.open = TRUE]
                 ELSE IF line.is = "item" /\ list.open THEN [list EXCEPT !.items = Append(@, line.text)] ELSE list,
             [open |-> FALSE, items |-> <<>>], lines).items

\* The items under a key; blank lines and bare dashes do not end the list, any
\* other line does, a comment as well.
ListUnder(lines, key) ==
    FoldLeft(LAMBDA list, line :
                 CASE line.is = "key" /\ line.key = key -> [list EXCEPT !.open = TRUE]
                   [] line.is = "item" ->
                          IF list.open THEN [list EXCEPT !.items = Append(@, line.text)] ELSE list
                   [] line.is \in {"blank", "dash"} -> list
                   [] OTHER -> [list EXCEPT !.open = FALSE],
             [open |-> FALSE, items |-> <<>>], lines).items

\* The last number given for one of the keys, wherever it stands.
LastNumber(lines, keys) ==
    LET given == SelectSeq(lines, LAMBDA l : l.is = "key" /\ l.key \in keys /\ l.number # <<>>)
    IN  IF given = <<>> THEN <<>> ELSE Last(given).number

convert_golangci_lint(lines) ==
    LET enabled_linters == ListUnder(lines, "enable")
        Limit(key, keys) ==
            LET number == LastNumber(lines, keys) IN IF number = <<>> THEN <<>> ELSE Entry("health", key, number[1])
    IN  Migrated(ListEntry("project", "ignore", ListUnder(lines, "skip-dirs"))
                 \o FlattenSeq([i \in DOMAIN linter_to_rule |->
                        IF linter_to_rule[i][1] \in ToSet(enabled_linters) THEN Rule(linter_to_rule[i][2], "error") ELSE <<>>])
                 \o Limit("max-cyclomatic", {"max-complexity", "min-complexity"})
                 \o Limit("max-cognitive", {"max-cognitive-complexity"})
                 \o Entry("framework", "go", <<>>),
                 ToSet(enabled_linters) \ {linter_to_rule[i][1] : i \in DOMAIN linter_to_rule})

\* A selector is a letter with the digits after it, like <<"F", 4, 0, 1>>.
convert_ruff(parsed) ==
    LET ruff_section == Get(Get(parsed, "tool", <<>>), "ruff", parsed)
        lint_section == Get(ruff_section, "lint", ruff_section)
        selected == ToSet(Get(lint_section, "select", <<>>))
        Selects(prefix) == \E s \in selected : IsPrefix(prefix, s)
        limit == Get(Get(lint_section, "mccabe", <<>>), "max-complexity", -1)
    IN  Migrated(ListEntry("project", "ignore", Get(ruff_section, "exclude", <<>>))
                 \o (IF <<"F">> \in selected \/ Selects(<<"F", 4>>)
                     THEN Rule("unused-import", "error") \o Rule("unused-function", "warn") ELSE <<>>)
                 \o (IF Selects(<<"C", 9>>) THEN Rule("high-cyclomatic", "warn") ELSE <<>>)
                 \o (IF limit # -1 THEN Entry("health", "max-cyclomatic", limit) ELSE <<>>)
                 \o Entry("framework", "python", <<>>),
                 {s[1] : s \in selected \cap {<<"E">>, <<"I">>}} \cup (DOMAIN ruff_section \cap {"line-length"}))

\* The sections with their pairs; a value is a sequence of lines, each of them the
\* parts between bars.  Pairs above the first header fall to the first section.
Contracts(lines) ==
    LET Closed(ini) == IF ini.section = <<>> THEN <<>> ELSE <<[section |-> ini.section[1], pairs |-> ini.pairs]>>
        Read(ini, line) ==
            CASE line.is = "section" ->
                     [done |-> ini.done \o Closed(ini), section |-> <<line.name>>,
                      pairs |-> IF ini.section = <<>> THEN ini.pairs ELSE <<>>]
              [] line.is = "pair" ->
                     [ini EXCEPT !.pairs = Append(@, [key |-> line.key, value |-> IF line.parts = <<>> THEN <<>> ELSE <<line.parts>>])]
              [] line.is = "more" /\ ini.pairs # <<>> ->
                     [ini EXCEPT !.pairs[Len(ini.pairs)].value = Append(@, line.parts)]
              [] OTHER -> ini
        last == FoldLeft(Read, [done |-> <<>>, section |-> <<>>, pairs |-> <<>>], lines)
    IN  last.done \o Closed(last)

\* The value of the first pair with a key, or none.
ValueOf(pairs, key) ==
    LET found == SelectSeq(pairs, LAMBDA p : p.key = key)
    IN  IF found = <<>> THEN <<>> ELSE <<found[1].value>>

\* A layer may import those below it; the last one has no rule, and neither has a
\* forbidden contract without both lists.  The sources are written as one text.
convert_import_linter(lines) ==
    LET contracts == SelectSeq(Contracts(lines), LAMBDA c : c.section.contract)
        TypeOf(c) == LET t == ValueOf(c.pairs, "type") IN IF t = <<>> THEN <<>> ELSE FlattenSeq(t[1])
        Listed(c, key) == LET v == ValueOf(c.pairs, key) IN IF v = <<>> THEN <<>> ELSE FlattenSeq(v[1])
        LayersOf(c) == IF TypeOf(c) = <<"layers">> THEN Listed(c, "layers") ELSE <<>>
        Zones(c) == [i \in DOMAIN LayersOf(c) |-> LayersOf(c)[i]]
        LayerRules(c) ==
            LET layers == LayersOf(c)
            IN  [i \in 1..(Len(layers) - 1) |->
                    [from |-> <<<<layers[i]>>>>, allow |-> SubSeq(layers, i + 1, Len(layers)), deny |-> <<>>]]
        DenyRules(c) ==
            LET source == ValueOf(c.pairs, "source_modules")
                denied == Listed(c, "forbidden_modules")
            IN  IF TypeOf(c) = <<"forbidden">> /\ source # <<>> /\ denied # <<>>
                THEN <<[from |-> source[1], allow |-> <<>>, deny |-> denied]>> ELSE <<>>
    IN  Migrated(ListEntry("boundaries", "zones", FlattenSeq([i \in DOMAIN contracts |-> Zones(contracts[i])]))
                 \o ListEntry("boundaries", "rules",
                              FlattenSeq([i \in DOMAIN contracts |-> LayerRules(contracts[i]) \o DenyRules(contracts[i])]))
                 \o Entry("framework", "python", <<>>),
                 {contracts[i].section.name : i \in {i \in DOMAIN contracts : TypeOf(contracts[i]) # <<"layers">>}})

Convert(tool, content) ==
    CASE tool = "knip" -> convert_knip(content)
      [] tool = "jscpd" -> convert_jscpd(content)
      [] tool = "golangci-lint" -> convert_golangci_lint(content)
      [] tool = "ruff" -> convert_ruff(content)
      [] tool = "import-linter" -> convert_import_linter(content)

\* The files of the directory are [readable, parses, content]; the line-wise
\* formats always parse.  Two tools may be configured in a shared file instead of
\* their own, knip under a key of it.
migrate(tool, dir) ==
    LET default == default_config_file[tool]
        alternative == CASE tool = "ruff" -> "pyproject.toml" [] tool = "knip" -> "package.json" [] OTHER -> default
        name == IF default \in DOMAIN dir THEN default ELSE alternative
        nested == name = "package.json"
    IN  IF name \notin DOMAIN dir THEN Failed("not found")
        ELSE IF ~dir[name].readable THEN Failed("read")
        ELSE IF ~dir[name].parses THEN Failed("parse")
        ELSE IF nested /\ "knip" \notin DOMAIN dir[name].content THEN Failed("not found")
        ELSE Convert(tool, IF nested THEN dir[name].content["knip"] ELSE dir[name].content)

\* What the command shows and leaves in the directory; an existing configuration
\* is not replaced.
cmd_migrate(tool_name, dir, write) ==
    LET tool == from_str_loose(tool_name)
        result == IF tool = <<>> THEN Failed("unsupported") ELSE migrate(tool[1], dir)
        writes == write /\ ~result.failed
    IN  IF writes /\ ".chaffra.toml" \in DOMAIN dir THEN [shown |-> Failed("exists"), dir |-> dir]
        ELSE [shown |-> result,
              dir |-> IF ~writes THEN dir
                      ELSE (".chaffra.toml" :> [readable |-> TRUE, parses |-> TRUE, content |-> result.toml]) @@ dir]

\* What is read of a text that was put between quotes as it is: nothing when it
\* holds a quote, or a backslash before a letter with which no escape begins; an
\* escape is read as the character it stands for.
ReadBack(text) ==
    CASE text \in {"\"gen\"", "src\\main"} -> <<>>
      [] text = "src\\test" -> <<"src\test">>
      [] OTHER -> <<text>>

\* The texts of an entry that come from the file of the other tool.
TextsOf(entry) ==
    CASE entry.section = "project" \/ entry.key = "zones" -> ToSet(entry.value)
      [] entry.section = "boundaries" /\ entry.key = "rules" ->
             UNION {ToSet(entry.value[k].allow) \cup ToSet(entry.value[k].deny)
                    \cup UNION {ToSet(part) : part \in ToSet(entry.value[k].from)} : k \in DOMAIN entry.value}
      [] OTHER -> {}

\* Whether the file that was written is TOML: no key twice in a section, no text
\* that breaks its quotes, none over more than one line.
Loads(toml) ==
    /\ \A i, j \in DOMAIN toml : i # j => toml[i].section # toml[j].section \/ toml[i].key # toml[j].key
    /\ \A i \in DOMAIN toml : \A text \in TextsOf(toml[i]) : ReadBack(text) # <<>>
    /\ \A i \in DOMAIN toml : toml[i].key = "rules" => \A k \in DOMAIN toml[i].value : Len(toml[i].value[k].from) <= 1

\* The lists of the project as they are read from a file that loads.
Loaded(toml) ==
    [i \in DOMAIN toml |->
        IF toml[i].section # "project" THEN toml[i]
        ELSE [toml[i] EXCEPT !.value = [k \in DOMAIN @ |-> ReadBack(@[k])[1]]]]
=============================================================================
