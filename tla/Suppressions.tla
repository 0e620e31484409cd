----------------------------- MODULE Suppressions -----------------------------
(***************************************************************************)
(* chaffra:ignore comments.  A source is a sequence of lines, a line a     *)
(* sequence of characters that matter: "dq" and "sq" quotes, "tick", "esc" *)
(* (a backslash), "slash" (the pair //), "open" and "close" (the pairs of  *)
(* a comment of Go that may run over lines), "hash", "c" (any other), and  *)
(* a mark: the words chaffra:ignore with what follows them up to the end   *)
(* of the line, split at the commas.  No two pairs share a character.      *)
(***************************************************************************)
EXTENDS Languages, Integers

Rest == [ignore |-> <<"">>, ignore_star |-> <<"*">>, ignore_type |-> <<"unused-type">>,
         ignore_function |-> <<"unused-function", "*">>]

IsMark(ch) == ch \in DOMAIN Rest

Characters == {"dq", "sq", "tick", "esc", "slash", "open", "close", "hash", "c"} \cup DOMAIN Rest

\* One character of a walk along a line.  A walk has a mode, whether the next
\* character is escaped, and the place just after the first return to code.
Walk(w, i, mode) ==
    [w EXCEPT !.mode = mode,
              !.closed = IF @ = 0 /\ w.mode \in {"raw", "ddd", "sss"} /\ mode = "code" THEN i ELSE @]

Escaped(w, ch, modes) == ch = "esc" /\ w.mode \in modes

\* update_multiline_state_backtick: what ch does in each mode.
BacktickMode(mode, ch) ==
    CASE mode = "code" /\ ch = "tick" -> "raw"
      [] mode = "code" /\ ch = "dq" -> "dq"
      [] mode = "code" /\ ch = "sq" -> "sq"
      [] mode = "code" /\ ch = "slash" -> "comment"
      [] mode = "raw" /\ ch = "tick" -> "code"
      [] mode = "dq" /\ ch = "dq" -> "code"
      [] mode = "sq" /\ ch = "sq" -> "code"
      [] OTHER -> mode

StepBacktick(line, w, i) ==
    IF w.skip > 0 THEN [w EXCEPT !.skip = @ - 1]
    ELSE IF Escaped(w, line[i], {"code", "dq", "sq"}) THEN [w EXCEPT !.skip = 1]
    ELSE Walk(w, i, BacktickMode(w.mode, line[i]))

\* update_multiline_state_triple_quote: three quotes in a row are one delimiter.
Triple(line, i, ch) == i + 2 <= Len(line) /\ \A k \in i..i + 2 : line[k] = ch

StepTripleQuote(line, w, i) ==
    LET delimiter(mode, ch) == w.mode \in {"code", mode} /\ Triple(line, i, ch)
        toggled(mode) == IF w.mode = "code" THEN mode ELSE "code"
    IN  IF w.skip > 0 THEN [w EXCEPT !.skip = @ - 1]
        ELSE IF Escaped(w, line[i], {"code", "dq", "sq"}) THEN [w EXCEPT !.skip = 1]
        ELSE IF delimiter("ddd", "dq") THEN [Walk(w, i + 2, toggled("ddd")) EXCEPT !.skip = 2]
        ELSE IF delimiter("sss", "sq") THEN [Walk(w, i + 2, toggled("sss")) EXCEPT !.skip = 2]
        ELSE IF w.mode \in {"code", "dq", "sq"} /\ line[i] \in {"dq", "sq"}
             THEN [w EXCEPT !.mode = IF @ = "code" THEN line[i] ELSE IF @ = line[i] THEN "code" ELSE @]
        ELSE IF w.mode = "code" /\ line[i] = "hash" THEN [w EXCEPT !.mode = "comment"]
        ELSE w

StepMultiline(line, lang, w, i) ==
    IF uses_slash_comments(lang) THEN StepBacktick(line, w, i) ELSE StepTripleQuote(line, w, i)

\* The states of that walk, after each character of the line.
MultilineWalk(line, lang, mode) ==
    LET walk[i \in 0..Len(line)] ==
            IF i = 0 THEN [mode |-> mode, skip |-> 0, closed |-> 0]
            ELSE StepMultiline(line, lang, walk[i - 1], i)
    IN  walk

\* The mode after the line, and where a string that was open before it closed.
update_multiline_state(line, lang, mode) ==
    LET end == MultilineWalk(line, lang, mode)[Len(line)]
    IN  [mode |-> IF end.mode \in {"raw", "ddd", "sss"} THEN end.mode ELSE "code",
         closed |-> IF mode = "code" THEN 0 ELSE end.closed]

\* A walk along the line alone, which knows single quotes, double quotes and
\* backticks, and none of the lines before.
QuoteStep(w, ch) ==
    IF w.skip > 0 THEN [w EXCEPT !.skip = 0]
    ELSE IF Escaped(w, ch, {"code", "dq", "sq"}) THEN [w EXCEPT !.skip = 1]
    ELSE IF w.mode = "code" /\ ch \in {"dq", "sq", "tick"} THEN [w EXCEPT !.mode = ch]
    ELSE IF w.mode = ch THEN [w EXCEPT !.mode = "code"]
    ELSE w

\* The states of that walk, after each character of the line.
QuoteWalk(line) ==
    LET walk[i \in 0..Len(line)] ==
            IF i = 0 THEN [mode |-> "code", skip |-> 0] ELSE QuoteStep(walk[i - 1], line[i])
    IN  walk

\* A bug that forgets that raw strings have quotes of their own.
is_inside_string_literal_NoTicks(line, pos) ==
    QuoteWalk([i \in DOMAIN line |-> IF line[i] = "tick" THEN "c" ELSE line[i]])[pos - 1].mode # "code"

is_inside_string_literal(line, pos) == QuoteWalk(line)[pos - 1].mode # "code"

\* The first marker of a comment outside strings decides; PHP has two kinds.
Marked(line, comment) ==
    LET starts == {i \in DOMAIN line : line[i] = comment /\ ~is_inside_string_literal(line, i)}
        marks == {k \in DOMAIN line : starts # {} /\ k > Min(starts) /\ IsMark(line[k])}
    IN  IF marks = {} THEN <<>> ELSE <<Rest[line[Min(marks)]]>>

find_suppression_in_line(line, lang) ==
    LET slashed == IF uses_slash_comments(lang) THEN Marked(line, "slash") ELSE <<>>
        hashed == IF uses_hash_comments(lang) THEN Marked(line, "hash") ELSE <<>>
    IN  slashed \o hashed

\* No rule, or a star alone, is every rule.
parse_suppression_rules(rest) == {r \in ToSet(rest) : r \notin {"", "*"}}

\* What the scan looks at in a line: where a string of the lines before goes on,
\* only what stands behind its end.
ScannedPart(line, lang, mode) ==
    LET closed == update_multiline_state(line, lang, mode).closed
    IN  IF mode = "code" THEN line
        ELSE IF closed = 0 THEN <<>>
        ELSE SubSeq(line, closed + 1, Len(line))

ScanLine(source, lang, acc, i) ==
    LET found == find_suppression_in_line(ScannedPart(source[i], lang, acc.mode), lang)
    IN  [mode |-> update_multiline_state(source[i], lang, acc.mode).mode,
         out |-> IF found = <<>> THEN acc.out
                 ELSE acc.out \cup {[line |-> i, rules |-> parse_suppression_rules(found[1])]}]

\* The suppressions of a source, each with its line and rules.
scan_suppressions(source, lang) ==
    LET scan[i \in 0..Len(source)] ==
            IF i = 0 THEN [mode |-> "code", out |-> {}] ELSE ScanLine(source, lang, scan[i - 1], i)
    IN  scan[Len(source)].out

\* A suppression is about its own line and the next.
is_suppressed(suppressions, line, rule) ==
    \E s \in suppressions : s.line \in {line, line - 1} /\ (s.rules = {} \/ rule \in s.rules)

is_line_suppressed(source, line, rule, lang) ==
    is_suppressed(scan_suppressions(source, lang), line, rule)

-----------------------------------------------------------------------------
(* Reference: one lexer over the whole source.  A comment is what a        *)
(* reader of the language calls one, whatever line the string before it    *)
(* began on; a mark counts in a comment of one line only.  A backslash in  *)
(* the code stands at the end of its line only, and a backtick is no part  *)
(* of the code in Python.                                                  *)

Quote == [ddd |-> "dq", sss |-> "sq"]

\* What the scan takes for something in a comment that runs over lines: it knows no such comment.
Delimiters == {"dq", "sq", "tick", "esc", "slash"}

HidesQuote(line, i, mode) == i < Len(line) /\ line[i + 1] = Quote[mode]

Lex(lang, line, w, i) ==
    LET here == line[i]
        triple == lang = "Python" /\ here \in {"dq", "sq"} /\ Triple(line, i, here)
        long == IF here = "dq" THEN "ddd" ELSE "sss"
        misplaced == \/ here = "esc" /\ i < Len(line)
                     \/ here = "tick" /\ lang = "Python"
    IN  IF w.skip > 0 THEN [w EXCEPT !.skip = @ - 1]
        ELSE CASE w.mode = "code" /\ misplaced -> [w EXCEPT !.mode = "malformed"]
               [] w.mode = "code" /\ triple -> [w EXCEPT !.mode = long, !.skip = 2]
               [] w.mode = "code" /\ ~triple /\ here \in {"dq", "sq"} -> [w EXCEPT !.mode = here]
               [] w.mode = "code" /\ here = "tick" /\ lang = "Go" -> [w EXCEPT !.mode = "raw"]
               [] w.mode = "code" /\ here = (IF lang = "Go" THEN "slash" ELSE "hash") ->
                      [w EXCEPT !.mode = "comment"]
               [] w.mode = "code" /\ here = "open" /\ lang = "Go" -> [w EXCEPT !.mode = "block"]
               [] w.mode = "block" /\ here = "close" -> [w EXCEPT !.mode = "code"]
               [] w.mode = "block" /\ here \in Delimiters -> [w EXCEPT !.inner = TRUE]
               [] w.mode \in {"dq", "sq"} /\ here = "esc" -> [w EXCEPT !.skip = 1]
               [] w.mode \in {"dq", "sq"} /\ here = w.mode -> [w EXCEPT !.mode = "code"]
               [] w.mode = "raw" /\ here = "tick" -> [w EXCEPT !.mode = "code"]
               [] w.mode \in {"ddd", "sss"} /\ here = "esc" ->
                      IF HidesQuote(line, i, w.mode) THEN [w EXCEPT !.skip = 1, !.inner = TRUE]
                      ELSE [w EXCEPT !.skip = 1]
               [] w.mode \in {"ddd", "sss"} /\ here = Quote[w.mode] ->
                      IF triple THEN [w EXCEPT !.mode = "code", !.skip = 2] ELSE [w EXCEPT !.inner = TRUE]
               [] w.mode = "comment" /\ IsMark(here) -> [w EXCEPT !.marked = TRUE]
               [] OTHER -> w

\* The states of the lexer along a line, and what it says of the whole of it:
\* the mode it leaves, whether a comment with a mark stands on it, and whether
\* a string in three quotes holds one of these, escaped or not, or a comment of
\* several lines a delimiter.
LexWalk(lang, line, mode) ==
    LET walk[i \in 0..Len(line)] ==
            IF i = 0 THEN [mode |-> mode, skip |-> 0, marked |-> FALSE, inner |-> FALSE]
            ELSE Lex(lang, line, walk[i - 1], i)
    IN  walk

LineLexed(lang, line, mode) ==
    LET end == LexWalk(lang, line, mode)[Len(line)]
    IN  [end EXCEPT !.mode = IF @ = "comment" THEN "code" ELSE @]

\* The modes between the lines, from the one before the first.
LineModes(source, lang) ==
    LET modes[i \in 0..Len(source)] ==
            IF i = 0 THEN "code" ELSE LineLexed(lang, source[i], modes[i - 1]).mode
    IN  modes

LineOf(source, lang, i) == LineLexed(lang, source[i], LineModes(source, lang)[i - 1])

CommentLines(source, lang) == {i \in DOMAIN source : LineOf(source, lang, i).marked}

HoldsDelimiters(source, lang) == \E i \in DOMAIN source : LineOf(source, lang, i).inner

\* No string of one line is left open, and nothing is misplaced in the code.
WellFormed(source, lang) ==
    \A i \in 0..Len(source) : LineModes(source, lang)[i] \in {"code", "raw", "block", "ddd", "sss"}
=============================================================================
