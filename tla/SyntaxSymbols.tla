---------------------------- MODULE SyntaxSymbols ----------------------------
(***************************************************************************)
(* Symbols, imports and references read off a syntax tree (external: the   *)
(* tree-sitter grammars).  A node is a record with its kind, its text, the *)
(* class of the first letter of its text ("upper", "lower" or "under"),    *)
(* its children, its first and last line and, as `field`, the name its     *)
(* parent knows it by ("name", "alias" or "").  The text of a path is the  *)
(* sequence of its parts.                                                  *)
(***************************************************************************)
EXTENDS Languages, Integers

\* The children called `field`; grammars have at most one.
Field(node, field) == SelectSeq(node.children, LAMBDA c : c.field = field)

OfKind(nodes, kinds) == SelectSeq(nodes, LAMBDA n : n.kind \in kinds)

FlatMap(seq, Op(_)) == FlattenSeq([i \in DOMAIN seq |-> Op(seq[i])])

\* A declaration without a name is skipped.
SymbolOf(node, kind, exported) ==
    LET name == Field(node, "name")
    IN  IF name = <<>> THEN <<>>
        ELSE <<[name |-> name[1].text, kind |-> kind, exported |-> exported,
                start_line |-> node.row, end_line |-> node.last]>>

Capitalised(node) == Field(node, "name") # <<>> /\ Field(node, "name")[1].initial = "upper"
Underscored(node) == Field(node, "name") # <<>> /\ Field(node, "name")[1].initial = "under"

\* Top level only; the types of one declaration are its specs.
extract_go_symbols(root) ==
    FlatMap(root.children, LAMBDA child :
        CASE child.kind \in {"function_declaration", "method_declaration"} ->
                 SymbolOf(child, "function", Capitalised(child))
          [] child.kind = "type_declaration" ->
                 FlatMap(OfKind(child.children, {"type_spec"}),
                         LAMBDA spec : SymbolOf(spec, "type", Capitalised(spec)))
          [] OTHER -> <<>>)

PythonDefinition(node) ==
    CASE node.kind = "function_definition" -> SymbolOf(node, "function", ~Underscored(node))
      [] node.kind = "class_definition" -> SymbolOf(node, "type", ~Underscored(node))
      [] OTHER -> <<>>

\* A decorated definition has the lines of the definition, not of its decorators.
extract_python_symbols(root) ==
    FlatMap(root.children, LAMBDA child :
        IF child.kind = "decorated_definition" THEN FlatMap(child.children, PythonDefinition)
        ELSE PythonDefinition(child))

JsDeclaration(node, exported) ==
    CASE node.kind = "function_declaration" -> SymbolOf(node, "function", exported)
      [] node.kind = "class_declaration" -> SymbolOf(node, "type", exported)
      [] node.kind = "lexical_declaration" /\ exported ->
             FlatMap(OfKind(node.children, {"variable_declarator"}),
                     LAMBDA decl : SymbolOf(decl, "variable", TRUE))
      [] OTHER -> <<>>

\* Nested declarations count; what an export statement holds is not walked, and
\* an export statement is only seen from the root.
RECURSIVE walk_js_symbols(_)
walk_js_symbols(node) ==
    LET here == IF node.kind = "export_statement"
                THEN FlatMap(node.children, LAMBDA c : JsDeclaration(c, TRUE))
                ELSE JsDeclaration(node, FALSE)
        below == SelectSeq(node.children, LAMBDA c : c.kind # "export_statement")
    IN  here \o FlatMap(below, walk_js_symbols)

has_java_modifier(node, modifiers) ==
    \E m \in ToSet(OfKind(node.children, {"modifiers"})) :
        \E word \in ToSet(m.children) : word.text \in modifiers

RECURSIVE walk_java_symbols(_)
walk_java_symbols(node) ==
    LET exported == has_java_modifier(node, {"public", "protected"})
        here == CASE node.kind \in {"class_declaration", "interface_declaration", "enum_declaration"} ->
                         SymbolOf(node, "type", exported)
                  [] node.kind \in {"method_declaration", "constructor_declaration"} ->
                         SymbolOf(node, "function", exported)
                  [] OTHER -> <<>>
    IN  here \o FlatMap(node.children, walk_java_symbols)

extract_symbols(root, lang) ==
    CASE lang = "Go" -> extract_go_symbols(root)
      [] lang = "Python" -> extract_python_symbols(root)
      [] lang \in {"JavaScript", "TypeScript"} -> walk_js_symbols(root)
      [] lang = "Java" -> walk_java_symbols(root)
      [] OTHER -> <<>>

-----------------------------------------------------------------------------
(* Imports: [path, alias, names, line], the alias "" when there is none *)

Import(path, alias, names, line) ==
    IF path = <<>> THEN <<>> ELSE <<[path |-> path, alias |-> alias, names |-> names, line |-> line]>>

\* The text of the last child of one of the kinds.
TextOf(node, kinds, default) ==
    LET hits == OfKind(node.children, kinds) IN IF hits = <<>> THEN default ELSE Last(hits).text

\* The blank and the dot name of an import are no package identifiers.
extract_go_import_spec(spec) ==
    Import(TextOf(spec, {"interpreted_string_literal"}, <<>>), TextOf(spec, {"package_identifier"}, ""), {}, spec.row)

extract_go_imports(root) ==
    FlatMap(OfKind(root.children, {"import_declaration"}), LAMBDA decl :
        FlatMap(decl.children, LAMBDA part :
            CASE part.kind = "import_spec" -> extract_go_import_spec(part)
              [] part.kind = "import_spec_list" ->
                     FlatMap(OfKind(part.children, {"import_spec"}), extract_go_import_spec)
              [] OTHER -> <<>>))

\* from X import Y as Z: the name used is Z.
ImportedName(node) ==
    IF node.kind # "aliased_import" THEN node.text
    ELSE Last(OfKind(node.children, {"dotted_name", "identifier"})).text

\* The nodes before and after the word import.
FromImport(node) ==
    LET word == CHOOSE i \in DOMAIN node.children : node.children[i].kind = "import"
        before == [node EXCEPT !.children = SubSeq(@, 1, word - 1)]
        after == SubSeq(node.children, word + 1, Len(node.children))
        named == OfKind(after, {"aliased_import", "dotted_name", "identifier"})
    IN  Import(TextOf(before, {"dotted_name", "relative_import"}, <<>>), "",
               {ImportedName(n) : n \in ToSet(named)}, node.row)

PythonImport(stmt) ==
    FlatMap(stmt.children, LAMBDA part :
        CASE part.kind = "dotted_name" -> Import(part.text, "", {}, stmt.row)
          [] part.kind = "aliased_import" ->
                 Import(TextOf(part, {"dotted_name"}, <<>>), TextOf(part, {"identifier"}, ""), {}, stmt.row)
          [] OTHER -> <<>>)

extract_python_imports(root) ==
    FlatMap(root.children, LAMBDA child :
        CASE child.kind = "import_statement" -> PythonImport(child)
          [] child.kind = "import_from_statement" -> FromImport(child)
          [] OTHER -> <<>>)

\* Default and named imports; a namespace import names nothing.
ClauseNames(clause) ==
    FlatMap(clause.children, LAMBDA c :
        CASE c.kind = "identifier" -> <<c.text>>
          [] c.kind = "named_imports" ->
                 FlatMap(OfKind(c.children, {"import_specifier"}), LAMBDA s :
                     LET chosen == Field(s, "alias") \o Field(s, "name")
                     IN  IF chosen = <<>> THEN <<>> ELSE <<chosen[1].text>>)
          [] OTHER -> <<>>)

extract_js_imports(root) ==
    FlatMap(OfKind(root.children, {"import_statement"}), LAMBDA stmt :
        Import(TextOf(stmt, {"string", "string_fragment"}, <<>>), "",
               ToSet(FlatMap(OfKind(stmt.children, {"import_clause"}), ClauseNames)), stmt.row))

\* The text after the word import; the word static is not taken off.
extract_java_imports(root) ==
    FlatMap(OfKind(root.children, {"import_declaration"}), LAMBDA decl :
        Import(decl.text, "", {}, decl.row))

extract_imports(root, lang) ==
    CASE lang = "Go" -> extract_go_imports(root)
      [] lang = "Python" -> extract_python_imports(root)
      [] lang \in {"JavaScript", "TypeScript"} -> extract_js_imports(root)
      [] lang = "Java" -> extract_java_imports(root)
      [] OTHER -> <<>>

-----------------------------------------------------------------------------
(* References *)

ImportKinds == {"import_statement", "import_from_statement", "import_declaration",
                "import_spec", "import_spec_list"}

DefiningKinds ==
    [Go |-> {"function_declaration", "method_declaration", "type_spec"},
     Python |-> {"function_definition", "class_definition"},
     JavaScript |-> {"function_declaration", "class_declaration", "method_definition"},
     TypeScript |-> {"function_declaration", "class_declaration", "method_definition"},
     Java |-> {"method_declaration", "class_declaration", "interface_declaration"}]

\* The name a declaration gives is no reference.
is_definition_name(node, parent_kind, lang) ==
    lang \in DOMAIN DefiningKinds /\ parent_kind \in DefiningKinds[lang] /\ node.field = "name"

RECURSIVE collect_identifiers(_, _, _)
collect_identifiers(node, parent_kind, lang) ==
    IF node.kind \in ImportKinds THEN {}
    ELSE (IF /\ node.kind \in {"identifier", "type_identifier", "field_identifier"}
             /\ ~is_definition_name(node, parent_kind, lang)
          THEN {[name |-> node.text, line |-> node.row]} ELSE {})
         \cup UNION {collect_identifiers(c, node.kind, lang) : c \in ToSet(node.children)}

extract_references(root, lang) == collect_identifiers(root, "none", lang)
=============================================================================
