---------------------------- MODULE MCFixCommand ----------------------------
(* Small instances of FixCommand for TLC. *)
EXTENDS FixCommand

\* In file a an import, and a class with a method in it (overlapping symbols),
\* and a function before the last line; in file b a function on the last lines.
MCOriginal == [f \in {"a", "b"} |-> IF f = "a" THEN <<1, 2, 3, 4, 5, 6, 7, 8>> ELSE <<11, 12, 13>>]
MCSymbols == {"import", "class", "method", "function", "tail"}
MCSymbolFile == [s \in MCSymbols |-> IF s = "tail" THEN "b" ELSE "a"]
MCSymbolLines ==
    [s \in MCSymbols |->
        CASE s = "import" -> {1}
          [] s = "class"  -> {3, 4}
          [] s = "method" -> {4}
          [] s = "function" -> {6, 7}
          [] s = "tail"   -> {12, 13}]
MCRuleOf ==
    [s \in MCSymbols |->
        CASE s = "import" -> "unused-import"
          [] s = "class"  -> "unused-type"
          [] OTHER        -> "unused-function"]
=============================================================================
