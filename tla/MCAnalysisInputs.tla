-------------------------- MODULE MCAnalysisInputs ---------------------------
(***************************************************************************)
(* Inputs of the analyses: small enough to enumerate, large enough that    *)
(* every rule, nesting and order appears.                                  *)
(***************************************************************************)
EXTENDS TreeAnalyses, FiniteSetsExt, TLC

Perms(S) == {s \in [1..Cardinality(S) -> S] : \A i, j \in DOMAIN s : i # j => s[i] # s[j]}
Arrangements(S) == UNION {Perms(T) : T \in SUBSET S}
SeqsUpTo(S, n) == UNION {[1..k -> S] : k \in 0..n}

\* Every graph of three files with every order of the edges, and of four files
\* with the edges in one order; the order of the files is the order of the map.
CycleSeeds == {<<3, a>> : a \in Arrangements({2, 3})} \cup {<<4, a>> : a \in SUBSET {2, 3, 4}}

CycleInputs(seed) ==
    IF seed[1] = 3
    THEN {[order |-> <<1, 2, 3>>, adj |-> (1 :> seed[2]) @@ (2 :> b) @@ (3 :> c)] :
             b \in Arrangements({1, 3}), c \in Arrangements({1, 2})}
    ELSE {[order |-> <<1, 2, 3, 4>>,
           adj |-> [v \in 1..4 |-> SetToSortSeq(<<seed[2], b, c, d>>[v], <)]] :
             b \in SUBSET {1, 3, 4}, c \in SUBSET {1, 2, 4}, d \in SUBSET {1, 2, 3}}

\* Three files of any zones of a preset, with any imports among them; a file is
\* imported by its path without the extension.
FileNames == <<"f", "g", "h">>
Dirs == [layered |-> {"ui", "service", "core", "db"}, feature_sliced |-> {"app", "modules", "lib"},
         clean |-> {"model", "usecase", "gateway", "web"}]

LayerSeeds == UNION {{p} \X [1..3 -> Dirs[p]] : p \in DOMAIN Dirs}

LayerInputs(seed) ==
    LET d == seed[2]
    IN  {[entries |-> <<[kind |-> "preset", name |-> seed[1]]>>,
          files |-> [i \in 1..3 |->
              [path |-> <<d[i], FileNames[i], "go">>,
               imports |-> [k \in DOMAIN im[i] |-> <<d[im[i][k]], FileNames[im[i][k]]>>]]]] :
            im \in {m \in [1..3 -> {<<>>, <<1>>, <<2>>, <<3>>, <<2, 3>>}] :
                       \A v \in 1..3 : \A k \in DOMAIN m[v] : m[v][k] # v}}

\* Two lines: three tokens, and three tokens before a comment with a mark.
Tokens == [Go |-> {<<"dq">>, <<"sq">>, <<"esc">>, <<"tick">>, <<"slash">>},
           Python |-> {<<"dq">>, <<"sq">>, <<"esc">>, <<"dq", "dq", "dq">>, <<"hash">>}]
\* In Go also comments that run over the lines, with strings around and in them.
LinesOf == [lang \in DOMAIN Tokens |->
    {FlattenSeq(s) : s \in SeqsUpTo(Tokens[lang], 3)} \cup
    (IF lang = "Go" THEN SeqsUpTo({"open", "close", "dq", "tick"}, 3) ELSE {})]
CommentOf == [Go |-> "slash", Python |-> "hash"]

CommentSeeds == UNION {{[lang |-> l, source |-> <<a>>] : a \in LinesOf[l]} : l \in DOMAIN Tokens}

CommentInputs(seed) ==
    LET both == {[seed EXCEPT !.source = Append(@, b \o <<CommentOf[seed.lang], "ignore">>)] :
                    b \in LinesOf[seed.lang]}
    IN  {in \in both : Comments!WellFormed(in.source, in.lang)}

\* Two files of two functions each, on lines 2 and 4, any calls among them, and
\* a suppression above either.  In Python a third statement may call as well.
Leaf(node_kind, text, initial, field, row) ==
    [kind |-> node_kind, text |-> text, initial |-> initial, field |-> field, children |-> <<>>,
     row |-> row, last |-> row]
Function == [Go |-> "function_declaration", Python |-> "function_definition"]
Name(lang, text) == Leaf("identifier", text, IF text = "Api" THEN "upper" ELSE IF lang = "Python" THEN "under" ELSE "lower", "name", 1)
CallsOn(row, names) ==
    LET seq == SetToSeq(names) IN [n \in DOMAIN seq |-> Leaf("identifier", seq[n], "lower", "", row)]

DefinitionOf(lang, name, row, calls) ==
    [kind |-> Function[lang], text |-> name, initial |-> "lower", field |-> "", row |-> row, last |-> row,
     children |-> <<Name(lang, name)>> \o CallsOn(row, calls)]

File(lang, name, first, second, calls, top, comment) ==
    [file |-> name, base |-> name, lang |-> lang,
     tree |-> [kind |-> "root", text |-> "", initial |-> "lower", field |-> "", row |-> 1, last |-> 5,
               children |-> <<DefinitionOf(lang, first, 2, calls[1]), DefinitionOf(lang, second, 4, calls[2])>>
                            \o CallsOn(5, top)],
     source |-> <<IF comment = "" THEN <<"c">> ELSE <<CommentOf[lang], comment>>, <<"c">>, <<"c">>, <<"c">>, <<"c">> >>]

DeadSeeds == {"Go", "Python"} \X [1..2 -> SUBSET {"a", "b"}] \X {{}, {"c"}}

DeadInputs(seed) ==
    LET l == seed[1]
    IN  {{File(l, "one", IF l = "Go" THEN "main" ELSE "test_a", "a", seed[2], seed[3], ""),
          File(l, "two", "b", "c", calls, {}, mark)} :
            calls \in [1..2 -> SUBSET {"a", "b", "c"}], mark \in {"", "ignore", "ignore_type"}}

\* A file of up to five lines and one of up to three, with a word or nothing on a
\* line; a word and a keyword of the language are told apart by the weak mode.
CloneSeeds == {"strict", "weak"} \X SeqsUpTo({<<>>, <<"x">>, <<"y">>}, 5)

CloneInputs(seed) ==
    {[files |-> <<[file |-> "f", lang |-> "Go", source |-> seed[2]], [file |-> "g", lang |-> "Go", source |-> s]>>,
      min_tokens |-> 2, mode |-> seed[1], max_families |-> 200] :
        s \in SeqsUpTo({<<"x">>, <<"y">>, <<"if">>}, 3)}

\* A function of two statements, of which the first holds others, and the same
\* function with one of its statements under an if.
Node(node_kind, field, children) == [kind |-> node_kind, field |-> field, children |-> children, row |-> 2, last |-> 9]
Blocks == [Go |-> {"if_statement", "expression_switch_statement"}, Python |-> {"if_statement", "with_statement"}]
Parts == [Go |-> "expression_case", Python |-> "elif_clause"]
Plain == Node("expression_statement", "", <<>>)
And == Node("&&", "operator", <<>>)
Choice == [Go |-> Node(Plain.kind, "", <<Node("binary_expression", "", <<Node("binary_expression", "", <<And>>), And>>)>>),
           Python |-> Node(Plain.kind, "", <<Node("boolean_operator", "", <<Node("boolean_operator", "", <<>>)>>)>>)]

Simple(lang) == {Plain, Choice[lang]} \cup {Node(k, "", <<s>>) : k \in Blocks[lang], s \in {Plain, Choice[lang]}}
Nested(lang) ==
    Simple(lang) \cup {Node(k, "", s) : k \in Blocks[lang], s \in Simple(lang) \X Simple(lang)}
                 \cup {Node(k, "", <<a, Node(Parts[lang], "", <<b>>)>>) :
                          k \in Blocks[lang], a \in Simple(lang), b \in Simple(lang)}

RECURSIVE Wrappings(_)
Wrappings(node) ==
    LET Put(i, c) == [node EXCEPT !.children[i] = c]
        Statements == UNION {Blocks[l] : l \in DOMAIN Blocks} \cup {Plain.kind}
    IN  UNION {(IF node.children[i].kind \in Statements
                THEN {Put(i, Node("if_statement", "", <<node.children[i]>>))} ELSE {})
               \cup {Put(i, c) : c \in Wrappings(node.children[i])} : i \in DOMAIN node.children}

TreeSeeds == UNION {{l} \X Nested(l) : l \in DOMAIN Blocks}

TreeInputs(seed) ==
    LET l == seed[1]
        FileOf(body) ==
            [file |-> "f", lang |-> l,
             tree |-> Node("root", "", <<Node(Function[l], "", <<Node("identifier", "name", <<>>), body>>)>>)]
        Other == [file |-> "g", lang |-> l,
                  tree |-> Node("root", "", <<Node(Function[l], "", <<Node("identifier", "name", <<>>)>>)>>)]
    IN  UNION {{[plain |-> <<FileOf(body), Other>>, deeper |-> <<FileOf(deeper), Other>>,
                 limits |-> [cyclomatic |-> 2, cognitive |-> 1, score |-> 95, hotspot |-> 3, target |-> 6],
                 commits |-> [f |-> 1, g |-> 2]] : deeper \in Wrappings(body)} :
               body \in {Node("block", "body", <<seed[2], s>>) : s \in Simple(l)}}

-----------------------------------------------------------------------------
(* Files for the modules that look for patterns, put together from pieces  *)
(* of one line each.  A piece is the line with, for a file that has one,   *)
(* what it adds to the tree or to the parsed value.                        *)

Branch(node_kind, field, row, last, children) ==
    [kind |-> node_kind, text |-> "", initial |-> "lower", field |-> field, children |-> children,
     row |-> row, last |-> last]

-----------------------------------------------------------------------------
(* Flows.  Names are e, i and the i, d that has i in it; the first line is   *)
(* the head of a function, and one line may hold a function of its own.      *)

I == <<"i">>
ID == <<"i", "d">>
E == <<"e">>
R == <<"r">>
Request == <<"r", "e", "q", "u", "e", "s", "t">>

FlowLine(lhs, op, rhs, names, patterns, requests) ==
    [lhs |-> lhs, op |-> op, rhs |-> rhs, names |-> names, patterns |-> patterns, requests |-> requests]
Assign(lhs, op, rhs) == FlowLine(lhs, op, rhs, ToSet(lhs) \cup rhs, {}, {})

FlowHeads ==
    [Go |-> {FlowLine(<<>>, "", {}, {R}, {"Request"}, {R}), FlowLine(<<>>, "", {}, {I}, {}, {})},
     Python |-> {FlowLine(<<>>, "", {}, {Request}, {}, {Request}), FlowLine(<<>>, "", {}, {I}, {}, {})}]

FlowPieces ==
    [Go |-> {FlowLine(<<I, E>>, ":=", {R}, {I, E, R}, {"r.FormValue"}, {}),
             FlowLine(<<ID>>, ":=", {R}, {ID, R}, {"r.URL", "Query"}, {}),
             Assign(<<E>>, ":=", {ID}), Assign(<<I>>, "=", {E}), Assign(<<E, ID>>, ":=", {I}), Assign(<<E>>, "!=", {I}),
             FlowLine(<<>>, "", {}, {ID}, {"db.Query", "Query"}, {}),
             FlowLine(<<>>, "", {}, {E, I}, {"exec.Command"}, {}),
             FlowLine(<<>>, "", {}, {R}, {"os.Open"}, {})},
     Python |-> {FlowLine(<<I>>, "=", {Request}, {I, Request}, {"request.args"}, {Request}),
                 Assign(<<E, ID>>, "=", {I}), Assign(<<I>>, "=", {ID}), Assign(<<E>>, "==", {I}),
                 FlowLine(<<>>, "", {}, {E}, {"os.system"}, {}),
                 FlowLine(<<>>, "", {}, {I}, {"open(", "render_template_string"}, {})}]

FlowSeeds == UNION {{l} \X FlowHeads[l] \X {0, 2, 3} : l \in DOMAIN FlowHeads}

\* The inner function is two lines long.
FlowInputs(seed) ==
    LET l == seed[1]
        Rows(node_kind, row, last) == [kind |-> node_kind, row |-> row, last |-> last]
        outer == Rows([Go |-> "method_declaration", Python |-> "function_definition"][l], 1, 4)
        inner == IF seed[3] = 0 THEN <<>>
                 ELSE <<Rows(IF l = "Go" THEN "func_literal" ELSE "lambda", seed[3], seed[3] + 1)>>
    IN  {[lang |-> l, lines |-> <<seed[2]>> \o body, nodes |-> <<Rows("root", 1, 4), outer>> \o inner] :
            body \in [1..3 -> FlowPieces[l]]}

-----------------------------------------------------------------------------
(* Code and manifests.  A piece of code is a line and the nodes it adds.     *)

CodeLine == [kind |-> "code", says |-> {}, calls |-> {}, methods |-> {}, decorates |-> {}, defines |-> FALSE,
             frame |-> FALSE, placeholder |-> FALSE, never |-> FALSE, bounds |-> <<>>, chars |-> <<"c">>,
             begins |-> "", closes |-> FALSE, lhs |-> {}, rhs |-> {}, target |-> "",
             node |-> ""]
Gap == [CodeLine EXCEPT !.kind = "blank"]
Says(words) == [CodeLine EXCEPT !.says = words]
Note(words) == [Says(words) EXCEPT !.kind = "comment"]
Calls(name) == [CodeLine EXCEPT !.calls = {name}, !.node = name]
Uses(op, major, dotted) == [op |-> op, major |-> major, dotted |-> dotted]
Bounded(bounds) == [CodeLine EXCEPT !.bounds = bounds]

Definition == [Go |-> [CodeLine EXCEPT !.defines = TRUE, !.frame = TRUE, !.says = {"func"}, !.node = "function"],
               Python |-> [CodeLine EXCEPT !.defines = TRUE, !.frame = TRUE, !.node = "function"]]
Placeholder == [CodeLine EXCEPT !.placeholder = TRUE]
Never == [CodeLine EXCEPT !.never = TRUE]
Ignore(comment) == [Note({}) EXCEPT !.chars = <<comment, "ignore">>]

QualityPieces ==
    [Python |-> {Definition.Python, Placeholder, Never, Calls("verify_auth"), Calls("save"), Calls("append"),
                 Note({"login_required", "auth"}), [CodeLine EXCEPT !.decorates = {"login_required"}],
                 Note({"(", "auth"}), Says({"try:"}), Says({"except:"}), Says({"except E:"}), Ignore("hash")},
     Go |-> {Definition.Go, Placeholder, [CodeLine EXCEPT !.frame = TRUE], Never, Calls("verify_auth"), Calls("save"),
             [Calls("Save") EXCEPT !.methods = {"Save"}], Note({"// auth required", "auth"}), Says({"wrap"}),
             Note({"(", "token"}), Says({"if err != nil"}), Says({"panic("}), Ignore("slash")}]

RequirementPieces ==
    {Bounded(<<Uses(">=", 3, TRUE), Uses("<", 2, TRUE)>>), Bounded(<<Uses("==", 99, FALSE)>>),
     Bounded(<<Uses(">=", 1, TRUE), Uses("<", 2, FALSE)>>), Gap}

LlmPieces ==
    {Says({"openai"}), Says({"tool", "="}), Says({"eval("}), [CodeLine EXCEPT !.closes = TRUE],
     Says({"prompt", "f\"", "user"}), Says({"permission", "write", "read"}),
     [Says({"response", "client.messages.create", "create("}) EXCEPT
        !.target = "response", !.lhs = {"response"}, !.rhs = {"client.messages.create"}],
     Says({"cursor.execute", "response"}), Says({"retry"}),
     [Says({"step"}) EXCEPT !.begins = "while True"], Says({"break"}), Ignore("hash")}

\* What the lines of a piece of code make of a tree: functions end before the
\* next one begins, and calls are identifiers of the file.
CodeTree(lines, lang) ==
    LET defs == {i \in DOMAIN lines : lines[i].node = "function"}
        Behind(i) == {k \in defs : k > i}
        End(i) == IF Behind(i) = {} THEN Len(lines) ELSE Min(Behind(i)) - 1
        FunctionKind == [Go |-> "function_declaration", Python |-> "function_definition"]
        NodesAt(i) ==
            CASE lines[i].node = "" -> <<>>
              [] i \in defs -> <<Branch(FunctionKind[lang], "", i, End(i), <<Leaf("identifier", "f", "lower", "name", i)>>)>>
              [] OTHER -> <<Leaf("identifier", lines[i].node, "lower", "", i)>>
    IN  Branch("root", "", 1, Len(lines), FlattenSeq([i \in DOMAIN lines |-> NodesAt(i)]))

CodeFile(lang, base, lines) ==
    [file |-> "f", base |-> base, lang |-> lang, lines |-> lines, tree |-> CodeTree(lines, lang)]

-----------------------------------------------------------------------------
(* Frameworks: handlers registered with a router, decorated or declared.     *)

Route == [CodeLine EXCEPT !.node = "route"]
RouteNodes(lang, i) ==
    IF lang = "Go"
    THEN Branch("call_expression", "", i, i,
                <<Branch("selector_expression", "function", i, i, <<Leaf("field_identifier", "GET", "upper", "field", i)>>),
                  Branch("argument_list", "arguments", i, i,
                         <<Leaf("string", "/", "lower", "", i), Leaf("identifier", "show", "lower", "", i)>>)>>)
    ELSE Branch("decorated_definition", "", i, i,
                <<Leaf("decorator", "get", "lower", "", i),
                  Branch("function_definition", "", i, i, <<Leaf("identifier", "show", "lower", "name", i)>>)>>)

Command == [CodeLine EXCEPT !.node = "command"]
CommandNodes(lang, i) ==
    IF lang = "Go"
    THEN Branch("composite_literal", "", i, i,
                <<Leaf("type", "cobra.Command", "lower", "type", i),
                  Branch("literal_value", "body", i, i,
                         <<Branch("keyed_element", "", i, i, <<Leaf("key", "Use", "upper", "", i), Leaf("string", "serve", "lower", "", i)>>),
                           Branch("keyed_element", "", i, i, <<Leaf("key", "Run", "upper", "", i), Leaf("func_literal", "", "lower", "", i)>>)>>)>>)
    ELSE Branch("call", "", i, i,
                <<Leaf("identifier", "path", "lower", "function", i),
                  Branch("argument_list", "arguments", i, i,
                         <<Leaf("string", "/", "lower", "", i), Leaf("identifier", "show", "lower", "", i)>>)>>)

FrameworkPieces ==
    [Go |-> {Says({"gin-gonic/gin"}), Says({"spf13/cobra"}), Route, Command, Gap},
     Python |-> {Says({"fastapi"}), Says({"flask", "django"}), Route, Command, Gap}]

FrameworkTree(lines, lang) ==
    Branch("root", "", 1, Len(lines), FlattenSeq([i \in DOMAIN lines |->
        CASE lines[i].node = "route" -> <<RouteNodes(lang, i)>>
          [] lines[i].node = "command" -> <<CommandNodes(lang, i)>>
          [] OTHER -> <<>>]))

-----------------------------------------------------------------------------
(* Secrets and manifests                                                     *)

SecurityLine == [doc |-> FALSE, secrets |-> {}, strings |-> <<>>, kind |-> "", name |-> "", version |-> <<>>]
Item(item_kind, name, version) == [SecurityLine EXCEPT !.kind = item_kind, !.name = name, !.version = version]
Quoted(entropy, shape) == [SecurityLine EXCEPT !.strings = <<[length |-> 20, entropy |-> entropy, shape |-> shape]>>]

SecurityPieces ==
    [code |-> {SecurityLine, [SecurityLine EXCEPT !.secrets = {17, 4}], Quoted(46, "word"), Quoted(46, "url"), Quoted(44, "word"),
               [SecurityLine EXCEPT !.secrets = {1}, !.doc = TRUE],
               [Quoted(45, "word") EXCEPT !.secrets = {18}]}]
    @@ ("go.mod" :> {Item("require(", "", <<>>), Item(")", "", <<>>), Item("indented", "golang.org/x/net", <<0, 22>>),
                     Item("require", "golang.org/x/net", <<0, 23, 0>>), Item("require", "github.com/gin-gonic/gin", <<1, 9, 0>>)})
    @@ ("Cargo.lock" :> {Item("[[package]]", "", <<>>), Item("name", "tokio", <<>>), Item("name", "serde", <<>>),
                         Item("version", "", <<1, 24, 1>>), Item("version", "", <<1, 25>>)})
    @@ ("requirements.txt" :> {Item("pinned", "django", <<3, 2, 24>>), Item("pinned", "django", <<3, 2, 25>>),
                               Item("loose", "flask", <<1>>), Item("pinned", "six", <<1>>)})
    @@ ("package-lock.json" :> {Item("node_modules", "axios", <<>>), Item("node_modules", "left-pad", <<>>),
                                Item("version", "", <<1, 5, 9>>), Item("version", "", <<1, 6, 0>>)})

SecurityFile(base, lines) ==
    [file |-> "f", base |-> base, lang |-> "none", lines |-> lines, nodes |-> <<>>,
     is_test |-> FALSE, binary |-> FALSE]

-----------------------------------------------------------------------------
(* Container and service files                                               *)

Word(text, traits) == [text |-> text, traits |-> traits]
Directive(words, more) == [blank |-> FALSE, more |-> more, words |-> words]
EmptyDirective == [blank |-> TRUE, more |-> FALSE, words |-> <<>>]

DockerPieces ==
    {Directive(<<Word("FROM", {}), Word("ubuntu", {"mutable"})>>, FALSE), Directive(<<Word("FROM", {}), Word("debian", {})>>, FALSE),
     Directive(<<Word("USER", {}), Word("root", {"root"})>>, FALSE), Directive(<<Word("USER", {}), Word("app", {})>>, FALSE),
     Directive(<<Word("ADD", {})>>, TRUE), Directive(<<Word("https", {"url"})>>, FALSE),
     Directive(<<Word("ENV", {}), Word("TOKEN=x", {"secret_name", "literal"})>>, FALSE)}

UnitLine(key, words, traits) == [key |-> key, words |-> words, traits |-> traits]
EmptyUnitLine == UnitLine("", {}, {})

UnitPieces ==
    {UnitLine("", {"[Service]"}, {}), UnitLine("User", {}, {"root"}), UnitLine("User", {}, {}), EmptyUnitLine}
    \cup {UnitLine(k, {}, {}) : k \in {"ProtectSystem", "ProtectHome", "NoNewPrivileges", "PrivateTmp"}}

-----------------------------------------------------------------------------
(* YAML.  A piece is a line and the entry it gives the value: the path of     *)
(* keys that leads to it and the value there.                                *)

Text(text, traits) == [is |-> "string", text |-> text, traits |-> traits]
Run(contexts) == [is |-> "string", text |-> "run", traits |-> {}, contexts |-> contexts]
List(items) == [is |-> "seq", items |-> items]
Mapping(at) == [is |-> "map", at |-> at]
Nothing == Mapping(<<>>)

Yaml(words, path, value) == [words |-> words, path |-> path, value |-> value]
EmptyYaml == Yaml({}, <<>>, Nothing)

ComposePieces ==
    {Yaml({"web"}, <<"services", "web">>, Nothing), Yaml({"db"}, <<"services", "db">>, Nothing),
     Yaml({"privileged"}, <<"services", "web", "privileged">>, [is |-> "bool", on |-> TRUE]),
     Yaml({"network_mode"}, <<"services", "db", "network_mode">>, Text("host", {})),
     Yaml({"volumes", "/"}, <<"services", "web", "volumes">>, List(<<Text("/", {"sensitive"})>>)),
     Yaml({"volumes", "/etc"}, <<"services", "db", "volumes">>,
          List(<<Mapping([type |-> Text("bind", {}), source |-> Text("/etc", {"sensitive"})])>>))}

WorkflowPieces ==
    {Yaml({"pull_request_target"}, <<"on">>, Text("pull_request_target", {})),
     Yaml({"workflow_run"}, <<"true">>, List(<<Text("workflow_run", {})>>)),
     Yaml({"permissions", "write-all"}, <<"permissions">>, Text("write-all", {})),
     Yaml({"permissions"}, <<"jobs", "build", "permissions">>,
          Mapping([contents |-> Text("write", {}), packages |-> Text("write", {}), checks |-> Text("write", {})])),
     Yaml({"actions/checkout", "actions/checkout@v4"}, <<"jobs", "build", "steps">>,
          List(<<Mapping([uses |-> Text("actions/checkout@v4", {})])>>)),
     Yaml({"head_ref"}, <<"jobs", "test", "steps">>, List(<<Mapping([run |-> Run(<<<<"head_ref">>>>)])>>)),
     EmptyYaml}

PipelinePieces ==
    {Yaml({"include", "https"}, <<"include">>, Text("https", {"url"})),
     Yaml({"include", "remote"}, <<"include">>, List(<<Mapping([remote |-> Text("remote", {})])>>)),
     Yaml({"image", "latest"}, <<"image">>, Text("latest", {"mutable"})),
     Yaml({"job"}, <<"job">>, Nothing),
     Yaml({"image", "ruby"}, <<"job", "image">>, Mapping([name |-> Text("ruby", {"mutable"})])),
     Yaml({"tags"}, <<"job", "tags">>, List(<<>>)),
     Yaml({"PASSWORD", "hunter"}, <<"variables", "PASSWORD">>, Text("hunter", {"literal"}))}

\* The value of a file: every piece puts its value at its path, and what it is
\* put into is a mapping.
RECURSIVE PutAt(_, _, _)
PutAt(value, path, new) ==
    IF path = <<>> THEN new
    ELSE LET old == IF path[1] \in DOMAIN value.at THEN value.at[path[1]] ELSE Nothing
         IN  Mapping((path[1] :> PutAt(old, Tail(path), new)) @@ value.at)

\* Services and jobs have lines of their own; what stands below one goes with it.
Headed == {<<"services", "web">>, <<"services", "db">>, <<"job">>}
Attached(lines, i) == \A h \in Headed : IsStrictPrefix(h, lines[i].path) => \E k \in DOMAIN lines : lines[k].path = h

DocOf(lines) ==
    FoldLeft(LAMBDA doc, i : IF lines[i].path = <<>> \/ ~Attached(lines, i) THEN doc ELSE PutAt(doc, lines[i].path, lines[i].value),
             Nothing, [i \in DOMAIN lines |-> i])

CicdPath(name, ext, yaml) == [in_workflows |-> name = "workflow", yaml |-> yaml, name |-> name, ext |-> ext]

-----------------------------------------------------------------------------
(* Configurations of other tools and workspace manifests, each with what it  *)
(* means: the lists it holds, by the place they are carried to.              *)

Wildcard == <<"*">>
Orders(S, n) == UNION {{s \in [1..k -> S] : \A i, j \in DOMAIN s : i # j => s[i] # s[j]} : k \in 0..n}

Readable(content) == [readable |-> TRUE, parses |-> TRUE, content |-> content]
Broken == {[readable |-> FALSE, parses |-> TRUE, content |-> <<>>], [readable |-> TRUE, parses |-> FALSE, content |-> <<>>]}

\* lists are <<section, key, items>>; loads is whether no setting is given twice
\* and no text breaks its quotes.
Migration(tool, dir, write, lists, loads) ==
    [tool |-> tool, dir |-> dir, write |-> write, lists |-> lists, loads |-> loads, found |-> TRUE]

\* Texts with a quote, with an escape and with a backslash before another letter.
QuotedText == "\"gen\""
EscapedText == "src\\test"
BackslashText == "src\\main"
Breaks(texts) == {QuotedText, BackslashText} \cap texts # {}
\* A list is compared unless a text in it holds a backslash.
CarriedOver(section, key, items) ==
    IF {EscapedText, BackslashText} \cap ToSet(items) # {} THEN {} ELSE {<<section, key, items>>}

-----------------------------------------------------------------------------
(* Migrations *)

GoLine(is, key, text, number) == [is |-> is, key |-> key, text |-> text, number |-> number]
GoKey(key) == GoLine("key", key, "", <<>>)
GoList(key, items, gap) ==
    <<GoKey(key)>> \o FlattenSeq([i \in DOMAIN items |-> <<GoLine("item", "", items[i], <<>>)>> \o gap])

Linters == {"deadcode", "unused", "gocyclo", "errcheck"}
SameRule == {"deadcode", "unused"}

GolangciInputs(enabled) ==
    LET UpTo(items, gap) ==
            IF gap # <<>> /\ gap[1].is = "comment" /\ items # <<>> THEN <<items[1]>> ELSE items
    IN  {Migration("golangci-lint",
                   (".golangci.yml" :> Readable(
                       GoList("skip-dirs", skipped, gap) \o GoList(between, <<"gocognit">>, <<>>)
                       \o GoList("enable", enabled, gap) \o <<GoLine("key", "min-complexity", "", limit)>>)),
                   FALSE,
                   CarriedOver("project", "ignore", UpTo(skipped, gap)),
                   ~(SameRule \subseteq ToSet(UpTo(enabled, gap))) /\ ~Breaks(ToSet(UpTo(skipped, gap)))) :
            skipped \in Orders({"vendor", QuotedText, EscapedText}, 2), between \in {"disable", "skip-dirs-use-default"},
            gap \in {<<>>} \cup {<<GoLine(is, "", "", <<>>)>> : is \in {"blank", "dash", "comment"}},
            limit \in {<<>>, <<7>>}}

JsonInputs(tool, file, keys) ==
    LET Of(given, list) == [k \in given |-> CASE k \in {"entry", "ignore", "ignoreDependencies"} -> list [] OTHER -> 3]
        Ignored(given, list) == IF "ignore" \in given THEN list ELSE <<>>
        Extra(given, list) == IF "ignoreDependencies" \in given THEN list ELSE <<>>
    IN  {Migration(tool, (file :> Readable(Of(given, list))), FALSE,
                   CarriedOver("project", "ignore", Ignored(given, list) \o Extra(given, list)),
                   /\ ~({"minLines", "minTokens"} \subseteq given)
                   /\ Breaks(ToSet(list)) => {"entry", "ignore", "ignoreDependencies"} \cap given = {}) :
            given \in SUBSET keys, list \in Orders({"x", "y"}, 2) \cup Orders({QuotedText, EscapedText, BackslashText}, 2)}

\* What the directory holds decides: nothing, a file that is broken, a file
\* without the section, a configuration that is there already.
DirInputs(tool) ==
    LET knip == [ignore |-> <<"x">>]
        whole == IF tool = "knip" THEN "package.json" ELSE "pyproject.toml"
        own == IF tool = "knip" THEN "knip.json" ELSE "ruff.toml"
        Missing(dir) == [Migration(tool, dir, TRUE, {}, TRUE) EXCEPT !.found = FALSE]
        section == IF tool = "knip" THEN [knip |-> knip] ELSE [tool |-> [ruff |-> [exclude |-> <<"x">>]]]
        there == IF tool = "knip" THEN knip ELSE [exclude |-> <<"x">>]
        Good(dir, write) == Migration(tool, dir, write, {<<"project", "ignore", <<"x">>>>}, TRUE)
    IN  {Missing(<<>>)} \cup {Missing((file :> b)) : file \in {own, whole}, b \in Broken}
        \cup {Missing((".chaffra.toml" :> Readable(<<>>)) @@ (own :> Readable(there)))}
        \cup {Good((own :> Readable(there)), write) : write \in BOOLEAN}
        \cup {Good((whole :> Readable(section)), write) : write \in BOOLEAN}

RuffInputs(selected) ==
    {Migration("ruff", ("ruff.toml" :> Readable(lint)), FALSE, {<<"project", "ignore", <<"x">>>>}, TRUE) :
        lint \in {[exclude |-> <<"x">>, select |-> selected],
                  [exclude |-> <<"x">>, lint |-> [select |-> selected, mccabe |-> ("max-complexity" :> 9)]]}}

IniLine(is, name, key, parts) ==
    [is |-> is, name |-> [contract |-> name # "top", name |-> name], key |-> key, parts |-> parts]
Pair(key, parts) == <<IniLine("pair", "top", key, parts)>>
Header(name) == <<IniLine("section", name, "", <<>>)>>

\* A value on one line between bars, or one part to a line.
Valued(key, parts, inline, gap) ==
    IF inline THEN Pair(key, parts)
    ELSE Pair(key, <<>>) \o FlattenSeq([i \in DOMAIN parts |-> <<IniLine("more", "top", "", <<parts[i]>>)>> \o gap])

ImportInputs(layers) ==
    LET Contract(inline, gap) == Header("one") \o Pair("type", <<"layers">>) \o Valued("layers", layers, inline, gap)
        Forbidden(sources, inline) ==
            Header("two") \o Pair("type", <<"forbidden">>) \o Valued("source_modules", sources, inline, <<>>)
            \o Valued("forbidden_modules", <<"p", "q">>, inline, <<>>)
        Below(i) == [from |-> <<<<layers[i]>>>>, allow |-> SubSeq(layers, i + 1, Len(layers)), deny |-> <<>>]
        Denied(sources, inline) ==
            <<[from |-> IF inline THEN <<sources>> ELSE [i \in DOMAIN sources |-> <<sources[i]>>],
               allow |-> <<>>, deny |-> <<"p", "q">>]>>
    IN  {Migration("import-linter",
                   (".importlinter" :> Readable(Header("top") \o Pair("root_package", <<"r">>)
                                            \o Contract(inline, gap) \o Forbidden(sources, inline))),
                   FALSE,
                   {<<"boundaries", "zones", layers>>,
                    <<"boundaries", "rules", [i \in 1..(Len(layers) - 1) |-> Below(i)] \o Denied(sources, inline)>>},
                   (inline \/ Len(sources) = 1) /\ ~Breaks(ToSet(layers \o sources))) :
            inline \in BOOLEAN, gap \in {<<>>, <<IniLine("blank", "top", "", <<>>)>>},
            sources \in {<<"p">>, <<"p", "s">>, <<QuotedText>>}}

MigrationSeeds ==
    ({"golangci-lint"} \X Orders(Linters, 2)) \cup ({"import-linter"} \X (Orders({"a", "b", QuotedText}, 3) \ {<<>>}))
    \cup ({"ruff"} \X Orders({<<"F">>, <<"F", 4, 0, 1>>, <<"C", 9, 0>>, <<"E">>}, 2))
    \cup {<<"json", <<>>>>, <<"dirs", <<>>>>}

MigrationInputs(seed) ==
    CASE seed[1] = "golangci-lint" -> GolangciInputs(seed[2])
      [] seed[1] = "import-linter" -> ImportInputs(seed[2])
      [] seed[1] = "ruff" -> RuffInputs(seed[2])
      [] seed[1] = "json" -> JsonInputs("jscpd", ".jscpd.json", {"ignore", "minLines", "minTokens", "threshold", "formatsExts"})
                             \cup JsonInputs("knip", "knip.json", {"entry", "ignore", "ignoreDependencies", "vite"})
      [] seed[1] = "dirs" -> DirInputs("knip") \cup DirInputs("ruff")

-----------------------------------------------------------------------------
(* Workspaces *)

A == <<"a">>
AB == <<"a", "b">>
C == <<"c">>
DirSets == SUBSET {<<A, C>>, <<A, AB>>, <<AB, C>>}

\* What a list of patterns stands for.
Meant(dirs, patterns) ==
    UNION {LET there == {d \in dirs : Len(d) = Len(p) /\ \A i \in DOMAIN p : p[i] \in {Wildcard, d[i]}}
           IN  IF there = {} THEN {p} ELSE there : p \in ToSet(patterns)}
Listing(files, dirs, members) == [root |-> [files |-> files, dirs |-> dirs], members |-> members]

PlainPaths == {<<A, C>>, <<AB>>, <<A, AB>>}
Patterns == {<<A, Wildcard>>, <<A, C>>, <<AB, C>>}
PathLine(is, path) == [is |-> is, path |-> path, projects |-> <<>>]
Interspersed(lines, gap) == FlattenSeq([i \in DOMAIN lines |-> <<lines[i]>> \o gap])

WorkspaceSeeds == {"go.work", "pnpm-workspace.yaml", "settings.gradle", "settings.gradle.kts"} \cup
                  {"Cargo.toml", "package.json", "pyproject.toml"}

\* A key of each manifest under which the patterns may stand.
KeysOf == ("Cargo.toml" :> {"members"}) @@ ("package.json" :> {"workspaces", "packages"})
          @@ ("pyproject.toml" :> {"chaffra", "poetry"})
Lines(is) == [is |-> is, path |-> <<>>, projects |-> <<>>]

WorkspaceInputs(name) ==
    LET gaps == {<<>>, <<Lines("comment")>>}
    IN  CASE name = "go.work" ->
                 {Listing((name :> ((<<Lines("other"), Lines("open")>>
                             \o Interspersed([i \in DOMAIN paths |-> PathLine("path", paths[i])], gap)
                             \o <<Lines("close"), PathLine("path", <<C>>)>>)
                             \o [i \in DOMAIN single |-> PathLine("use", single[i])])),
                          {}, ToSet(paths) \cup ToSet(single)) :
                     paths \in Orders(PlainPaths, 2), single \in Orders(PlainPaths, 1), gap \in gaps}
          [] name = "pnpm-workspace.yaml" ->
                 {Listing((name :> (<<PathLine("item", <<C>>), Lines("packages")>>
                             \o Interspersed([i \in DOMAIN patterns |-> PathLine("item", patterns[i])], gap)
                             \o <<Lines("key"), PathLine("item", <<C>>)>>)),
                          dirs, {IF p = <<A, Wildcard>> THEN <<A>> ELSE p : p \in Meant(dirs, patterns)}) :
                     patterns \in Orders(Patterns, 2), dirs \in DirSets, gap \in gaps}
          [] name \in {"settings.gradle", "settings.gradle.kts"} ->
                 {Listing((name :> (<<Lines("other")>> \o [i \in DOMAIN paths |->
                              [is |-> "include", path |-> <<>>, projects |-> paths[i]]])),
                          {}, UNION {ToSet(paths[i]) : i \in DOMAIN paths}) :
                     paths \in Orders(Orders(PlainPaths, 2) \ {<<>>}, 2)}
          [] OTHER ->
                 {Listing((name :> (key :> patterns)), dirs,
                          {IF name = "package.json" /\ p = <<A, Wildcard>> THEN <<A>> ELSE p : p \in Meant(dirs, patterns)}) :
                     key \in KeysOf[name], patterns \in Orders(Patterns, 2), dirs \in DirSets}

-----------------------------------------------------------------------------
(* Ignore files *)

Source(path, ext, readable) == [path |-> path, ext |-> ext, cicd |-> FALSE, readable |-> readable]
Pipeline(path) == [path |-> path, ext |-> "yml", cicd |-> TRUE, readable |-> TRUE]
Gen == <<"gen">>
MainGo == <<"main", ".go">>
ComposeYml == <<"compose", ".yml">>
FilesOfTree ==
    {Source(<<MainGo>>, "go", TRUE), Source(<<Gen, MainGo>>, "go", TRUE), Source(<<Gen, Gen, MainGo>>, "go", TRUE),
     Source(<<Gen, <<"x", ".py">>>>, "py", FALSE), Source(<<<<"vendor">>, MainGo>>, "go", TRUE),
     Source(<<<<"read", "me">>>>, "txt", TRUE), Pipeline(<<ComposeYml>>), Pipeline(<<Gen, ComposeYml>>),
     Pipeline(<<<<".", "github">>, ComposeYml>>), Pipeline(<<<<".", "cache">>, ComposeYml>>)}

Ignoring(is, path, ext) == [is |-> is, path |-> path, ext |-> ext]
IgnorePatterns ==
    {Ignoring("plain", <<Gen>>, ""), Ignoring("plain", <<Gen, Gen>>, ""), Ignoring("below", <<Gen>>, ""),
     Ignoring("ext", <<>>, "go"), Ignoring("slashed", <<Gen>>, "")}
IgnoreLines == {[is |-> is, pattern |-> p] : is \in {"pattern", "comment"}, p \in IgnorePatterns}

FileSeeds == {s \in SUBSET IgnorePatterns : Cardinality(s) <= 2}

FileInputs(config) ==
    {[files |-> FilesOfTree \ missing, config |-> config, ignore_files |-> ignore_files] :
        missing \in {m \in SUBSET FilesOfTree : Cardinality(m) <= 1},
        ignore_files \in {<<>>} \cup {(name :> <<l>>) : name \in {".gitignore", ".chafframeignore"}, l \in IgnoreLines}}

-----------------------------------------------------------------------------
(* Inputs of those modules, verdicts and fixes *)

\* Two or three lines of any pieces, with the same file without each of them.
Scans(module, pieces, gap, Build(_)) ==
    [module |-> module, file |-> Build(pieces),
     without |-> [i \in DOMAIN pieces |-> Build([pieces EXCEPT ![i] = gap])]]

ScanSeeds == UNION {
    {"ai-quality"} \X {"Go", "Python"}, {"llm-defense"} \X {"Python"}, {"frameworks"} \X {"Go", "Python"},
    {"security"} \X DOMAIN SecurityPieces, {"cicd-security"} \X {"docker", "unit", "compose", "workflow", "pipeline"},
    {"manifest"} \X {"requirements.txt", "go.mod"}}

YamlFile(name, lines) ==
    [path |-> CicdPath(name, "yml", TRUE), lines |-> lines, doc |-> DocOf(lines)]
YamlWellFormed(lines) ==
    /\ \A i, j \in DOMAIN lines : i # j /\ lines[i].path # <<>> => lines[i].path # lines[j].path
    /\ \A i \in DOMAIN lines : Attached(lines, i)

ScanInputsOf(seed) ==
    LET which == seed[2]
    IN  CASE seed[1] = "ai-quality" ->
                 {Scans("ai-quality", p, Gap, LAMBDA l : CodeFile(which, "f", l)) : p \in [1..3 -> QualityPieces[which]]}
          [] seed[1] = "manifest" ->
                 {Scans("ai-quality", p, Gap, LAMBDA l : CodeFile("none", which, l)) : p \in [1..2 -> RequirementPieces]}
          [] seed[1] = "llm-defense" ->
                 {Scans("llm-defense", p, Gap, LAMBDA l : CodeFile(which, "f", l)) : p \in [1..3 -> LlmPieces]}
          [] seed[1] = "frameworks" ->
                 {Scans("frameworks", p, Gap,
                        LAMBDA l : [lang |-> which, lines |-> l, tree |-> FrameworkTree(l, which)]) :
                     p \in [1..3 -> FrameworkPieces[which]]}
          [] seed[1] = "security" ->
                 {Scans("security", p, SecurityLine, LAMBDA l : SecurityFile(which, l)) :
                     p \in {q \in [1..3 -> SecurityPieces[which]] :
                               which = "Cargo.lock" => q[1].kind = "[[package]]"}}
          [] which = "docker" ->
                 {Scans("cicd-security", p, EmptyDirective,
                        LAMBDA l : [path |-> CicdPath("dockerfile", "", FALSE), lines |-> l]) : p \in [1..3 -> DockerPieces]}
          [] which = "unit" ->
                 {Scans("cicd-security", p, EmptyUnitLine,
                        LAMBDA l : [path |-> CicdPath("app", "service", FALSE), lines |-> l]) : p \in [1..3 -> UnitPieces]}
          [] OTHER ->
                 LET pieces == [compose |-> ComposePieces, workflow |-> WorkflowPieces, pipeline |-> PipelinePieces][which]
                     name == [compose |-> "compose", workflow |-> "workflow", pipeline |-> ".gitlab-ci"][which]
                 IN  {Scans("cicd-security", p, EmptyYaml, LAMBDA l : YamlFile(name, l)) :
                         p \in {q \in [1..3 -> pieces] : YamlWellFormed(q)}}

\* Up to two findings of three, and up to two in the baseline; two of them differ
\* only in the line.
Finding(rule, line) == [rule_id |-> rule, file |-> "f", start_line |-> line, message |-> "m"]
FindingsFound == {Finding("r", 1), Finding("r", 2), Finding("s", 1)}

GateSeeds == SeqsUpTo(FindingsFound, 2) \X BOOLEAN

GateInputs(seed) ==
    {[findings |-> seed[1], complexity |-> [ok |-> ok, findings |-> <<Finding("s", 1)>>], others |-> <<Finding("s", 2)>>,
      stored |-> [readable |-> seed[2], findings |-> b],
      config |-> [gate_mode |-> mode, warn_threshold |-> warn, fail_threshold |-> 2, baseline |-> "b", inside |-> warn < 2]] :
        b \in SeqsUpTo(FindingsFound, 2), ok \in BOOLEAN, mode \in {"new", "all", "unknown"}, warn \in 0..2}

\* One or two findings over a file of two or three lines; a finding has one fix,
\* which may be a suggestion only, or a fix and an alternative deletion. A fix
\* deletes lines or replaces them by two.
EditsMade == {e \in [file : {"f"}, start_line : 1..3, end_line : 1..3, new_text : {<<>>, <<"new", "newer">>}] :
                 e.start_line <= e.end_line}
FindingsToFix ==
    {<<[auto_fixable |-> fixable, edits |-> <<e>>]>> : e \in EditsMade, fixable \in BOOLEAN}
    \cup {<<[auto_fixable |-> TRUE, edits |-> <<e>>], [auto_fixable |-> TRUE, edits |-> <<d>>]>> :
             e \in EditsMade, d \in {d \in EditsMade : d.new_text = <<>>}}

FixSeeds == {<<1, 2>>, <<1, 2, 3>>} \X FindingsToFix

FixInputs(seed) ==
    {[file |-> "f", content |-> seed[1],
      findings |-> [i \in DOMAIN more |-> [rule_id |-> "r", actions |-> more[i]]]] :
        more \in {<<seed[2]>>} \cup {<<seed[2], second>> : second \in FindingsToFix}}

MCSeeds == [migrations |-> MigrationSeeds, workspaces |-> WorkspaceSeeds, files |-> FileSeeds,
            gates |-> GateSeeds, fixes |-> FixSeeds,
            clones |-> CloneSeeds, trees |-> TreeSeeds, cycles |-> CycleSeeds, layers |-> LayerSeeds,
            comments |-> CommentSeeds, dead |-> DeadSeeds, flows |-> FlowSeeds, scans |-> ScanSeeds]

MCGrown(k, seed) ==
    CASE k = "trees" -> TreeInputs(seed)
      [] k = "clones" -> CloneInputs(seed)
      [] k = "cycles" -> CycleInputs(seed)
      [] k = "layers" -> LayerInputs(seed)
      [] k = "comments" -> CommentInputs(seed)
      [] k = "dead" -> DeadInputs(seed)
      [] k = "flows" -> FlowInputs(seed)
      [] k = "scans" -> ScanInputsOf(seed)
      [] k = "gates" -> GateInputs(seed)
      [] k = "fixes" -> FixInputs(seed)
      [] k = "migrations" -> MigrationInputs(seed)
      [] k = "files" -> FileInputs(seed)
      [] k = "workspaces" -> WorkspaceInputs(seed)
=============================================================================
