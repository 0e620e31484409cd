------------------------------ MODULE Languages ------------------------------
(***************************************************************************)
(* The languages of chaffra-core, their extensions and which of them can   *)
(* be parsed.  A path is the sequence of its components, with the          *)
(* extension last; tree-sitter makes a tree of any text.                   *)
(***************************************************************************)
EXTENDS Sequences, SequencesExt

Languages == {"Go", "Python", "Php", "Dart", "CSharp", "Rust", "JavaScript", "TypeScript", "Java"}

from_extension(ext) ==
    CASE ext = "go" -> "Go"
      [] ext = "py" -> "Python"
      [] ext = "php" -> "Php"
      [] ext = "dart" -> "Dart"
      [] ext = "cs" -> "CSharp"
      [] ext = "rs" -> "Rust"
      [] ext \in {"js", "jsx", "mjs", "cjs"} -> "JavaScript"
      [] ext \in {"ts", "tsx", "mts", "cts"} -> "TypeScript"
      [] ext = "java" -> "Java"
      [] OTHER -> "none"

has_tree_sitter_grammar(lang) == lang \in {"Go", "Python", "JavaScript", "TypeScript", "Java"}

\* Asking for a tree of any other language is an error.
Parses(lang) == lang \in Languages /\ has_tree_sitter_grammar(lang)

\* Lines of a file without a grammar: blank lines and lines that begin with //
\* or # are not code.
stub_parse(lines) ==
    [total_lines |-> Len(lines),
     code_lines |-> Len(SelectSeq(lines, LAMBDA l : l \notin {"blank", "comment"}))]

uses_slash_comments(lang) ==
    lang \in {"Go", "Rust", "JavaScript", "TypeScript", "Java", "CSharp", "Dart", "Php"}

uses_hash_comments(lang) == lang \in {"Python", "Php"}
=============================================================================
