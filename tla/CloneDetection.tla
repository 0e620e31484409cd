---------------------------- MODULE CloneDetection ----------------------------
(***************************************************************************)
(* The duplication module.  A line of a source is a sequence of lexemes:   *)
(* words, numbers and operators as they are, the quotes "dq", "sq" and     *)
(* "tick", "esc" for a backslash, and "//", "#", "/*" and "*/".  The text  *)
(* of a token is a sequence of lexemes, of several for a string.           *)
(***************************************************************************)
EXTENDS Languages, Integers, FiniteSets, FiniteSetsExt, TLC

Quotes == {"dq", "sq", "tick"}
Numbers == {"1", "2", "3.5"}
Operators == {"(", ")", "{", "}", ",", ";", ".", ":", "=", "+", ":=", "==", "!=", "<=", ">=", "&&", "||",
              "+=", "-=", "*=", "/=", "++", "--", "->", "=>", "esc", "//", "#", "/*", "*/"} \cup Quotes

Keywords ==
    [Go |-> {"break", "case", "chan", "const", "continue", "default", "defer", "else", "fallthrough",
             "for", "func", "go", "goto", "if", "import", "interface", "map", "package", "range",
             "return", "select", "struct", "switch", "type", "var"},
     Python |-> {"False", "None", "True", "and", "as", "assert", "async", "await", "break", "class",
                 "continue", "def", "del", "elif", "else", "except", "finally", "for", "from", "global",
                 "if", "import", "in", "is", "lambda", "nonlocal", "not", "or", "pass", "raise",
                 "return", "try", "while", "with", "yield"},
     JavaScript |-> {"break", "case", "catch", "class", "const", "continue", "debugger", "default",
                     "delete", "do", "else", "export", "extends", "finally", "for", "function", "if",
                     "import", "in", "instanceof", "let", "new", "of", "return", "super", "switch",
                     "this", "throw", "try", "typeof", "var", "void", "while", "with", "yield", "async",
                     "await"},
     Java |-> {"abstract", "assert", "boolean", "break", "byte", "case", "catch", "char", "class",
               "const", "continue", "default", "do", "double", "else", "enum", "extends", "final",
               "finally", "float", "for", "goto", "if", "implements", "import", "instanceof", "int",
               "interface", "long", "native", "new", "package", "private", "protected", "public",
               "return", "short", "static", "strictfp", "super", "switch", "synchronized", "this",
               "throw", "throws", "transient", "try", "void", "volatile", "while"}]

is_keyword(word, lang) ==
    LET table == IF lang = "TypeScript" THEN "JavaScript" ELSE lang
    IN  table \in DOMAIN Keywords /\ word \in Keywords[table]

is_control_flow(word) ==
    word \in {"if", "else", "for", "while", "do", "switch", "case", "break", "continue", "return", "try",
              "catch", "finally", "throw", "elif", "except", "with", "select", "defer", "go", "range",
              "yield", "async", "await"}

-----------------------------------------------------------------------------
(* tokenizer.rs *)

\* Emit what has been gathered and go on as code.
Emitted(s, text) == [s EXCEPT !.tokens = Append(@, [text |-> text, line |-> s.line]), !.text = <<>>]

\* One lexeme.  `open` is the quote of a string that the line before left open:
\* the code after it is read as code, but no string begins in it.
Lexeme(s, lex, lang) ==
    CASE s.mode = "comment" -> s
      [] s.mode = "block" -> IF lex = "*/" THEN [s EXCEPT !.mode = "code"] ELSE s
      [] s.mode = "string" ->
             IF lex = s.open /\ Last(s.text) # "esc"
             THEN [Emitted(s, Append(s.text, lex)) EXCEPT !.mode = "code", !.open = "none"]
             ELSE [s EXCEPT !.text = Append(@, lex)]
      [] s.mode = "code" ->
             IF lex = "//" \/ (lex = "#" /\ lang = "Python" /\ s.open = "none")
             THEN [s EXCEPT !.mode = "comment"]
             ELSE IF lex = "/*" THEN [s EXCEPT !.mode = "block"]
             ELSE IF lex \in Quotes /\ s.open = "none"
             THEN [s EXCEPT !.mode = "string", !.open = lex, !.text = <<lex>>]
             ELSE Emitted(s, <<lex>>)

\* A string ends with its line; a backtick stays open.
LineEnd(s) ==
    LET closed == IF s.mode = "string" THEN Emitted(s, s.text) ELSE s
    IN  [closed EXCEPT !.line = @ + 1,
                       !.mode = IF @ = "block" THEN "block" ELSE "code",
                       !.open = IF @ = "tick" THEN "tick" ELSE "none"]

raw_tokenize(source, lang) ==
    FoldLeft(LAMBDA s, line : LineEnd(FoldLeft(LAMBDA t, lex : Lexeme(t, lex, lang), s, line)),
             [mode |-> "code", open |-> "none", text |-> <<>>, line |-> 1, tokens |-> <<>>],
             source).tokens

is_string_literal(text) == text[1] \in Quotes /\ Last(text) = text[1]
is_number_literal(text) == text[1] \in Numbers \cup {"."}
IsWord(text) == text[1] \notin Numbers \cup Operators

normalize(text, mode, lang) ==
    CASE mode = "strict" -> text
      [] mode # "strict" /\ is_string_literal(text) -> <<"$STR">>
      [] mode # "strict" /\ ~is_string_literal(text) /\ is_number_literal(text) -> <<"$NUM">>
      [] OTHER ->
             IF mode = "semantic" /\ is_control_flow(text[1]) THEN <<"$CTRL">>
             ELSE IF mode \in {"weak", "semantic"} /\ IsWord(text) /\ ~is_keyword(text[1], lang)
             THEN <<"$ID">> ELSE text

tokenize(source, lang, mode) ==
    LET raw == raw_tokenize(source, lang)
    IN  [i \in DOMAIN raw |-> [raw[i] EXCEPT !.text = normalize(@, mode, lang)]]

-----------------------------------------------------------------------------
(* lib.rs.  A fingerprint is the window itself: two windows with one hash   *)
(* are taken to be one.                                                     *)

Texts(tokens, start, n) == [k \in 1..n |-> tokens[start + k - 1].text]

\* How far the match of two windows goes on.
Extent(a, i, b, j, min_tokens) ==
    LET reach == {n \in min_tokens..Min({Len(a) - i + 1, Len(b) - j + 1}) :
                     Texts(a, i, n) = Texts(b, j, n)}
    IN  Max(reach)

Similarity == [strict |-> 100, mild |-> 95, weak |-> 85, semantic |-> 75]

\* A bug that lets a window match itself, moved by a token.
Apart_Never(f, i, g, j, min_tokens) == <<f, i>> # <<g, j>>

\* Two windows of one file do not overlap; each pair is taken once.
Apart(f, i, g, j, min_tokens) == f < g \/ (f = g /\ i + min_tokens <= j)

detect_clones(files, min_tokens, mode) ==
    LET windows == UNION {{f} \X (1..(Len(files[f].tokens) - min_tokens + 1)) : f \in DOMAIN files}
        Match(f, i, g, j) ==
            LET a == files[f].tokens
                b == files[g].tokens
                n == Extent(a, i, b, j, min_tokens)
            IN  [family |-> Texts(a, i, min_tokens), at |-> <<f, i, g, j>>, tokens |-> n,
                 ranges |-> {<<files[f].file, a[i].line, a[i + n - 1].line>>,
                             <<files[g].file, b[j].line, b[j + n - 1].line>>},
                 similarity |-> Similarity[mode]]
    IN  {Match(p[1][1], p[1][2], p[2][1], p[2][2]) :
            p \in {q \in windows \X windows :
                      /\ Apart(q[1][1], q[1][2], q[2][1], q[2][2], min_tokens)
                      /\ Texts(files[q[1][1]].tokens, q[1][2], min_tokens)
                         = Texts(files[q[2][1]].tokens, q[2][2], min_tokens)}}

\* Ranges <<file, first, last>> of one file that touch or overlap become one.
RECURSIVE coalesce(_)
coalesce(ranges) ==
    LET touching == {p \in ranges \X ranges : /\ p[1] # p[2] /\ p[1][1] = p[2][1]
                                              /\ p[1][2] <= p[2][2] /\ p[2][2] <= p[1][3] + 1}
    IN  IF touching = {} THEN ranges
        ELSE LET p == CHOOSE q \in touching : TRUE
             IN  coalesce((ranges \ {p[1], p[2]})
                          \cup {<<p[1][1], p[1][2], Max({p[1][3], p[2][3]})>>})

\* Pass 1: one family for every fingerprint.
Family(key, matches) ==
    [key |-> key, occurrences |-> coalesce(UNION {m.ranges : m \in matches}),
     min |-> Min({m.tokens : m \in matches}), max |-> Max({m.tokens : m \in matches}),
     similarity |-> Max({m.similarity : m \in matches}), pairs |-> Cardinality(matches)]

\* Pass 2: union-find over the families, by index.
RECURSIVE find(_, _)
find(parent, i) == IF parent[i] = i THEN i ELSE find(parent, parent[i])

union(parent, i, j) ==
    IF find(parent, i) = find(parent, j) THEN parent
    ELSE [parent EXCEPT ![find(parent, j)] = find(parent, i)]

Overlap(a, b) == a[1] = b[1] /\ a[2] <= b[3] /\ b[2] <= a[3]

Merged(families) ==
    [occurrences |-> coalesce(UNION {f.occurrences : f \in families}),
     min |-> Min({f.min : f \in families}), max |-> Max({f.max : f \in families}),
     similarity |-> Max({f.similarity : f \in families}),
     pairs |-> MapThenSumSet(LAMBDA f : f.pairs, families)]

merge_overlapping_families(families) ==
    LET seq == SetToSeq(families)
        pairs == SetToSeq({p \in (DOMAIN seq) \X (DOMAIN seq) :
                              /\ p[1] < p[2]
                              /\ \E a \in seq[p[1]].occurrences, b \in seq[p[2]].occurrences : Overlap(a, b)})
        parent == FoldLeft(LAMBDA par, p : union(par, p[1], p[2]), [i \in DOMAIN seq |-> i], pairs)
    IN  {Merged({seq[i] : i \in {k \in DOMAIN seq : find(parent, k) = root}}) :
            root \in {find(parent, i) : i \in DOMAIN seq}}

aggregate_families(raw) ==
    merge_overlapping_families(
        {Family(key, {m \in raw : m.family = key}) : key \in {m.family : m \in raw}})

\* Families beyond the limit are dropped, in the order of their hashes.  A
\* family with a place on line 1 counts as a function.
analyze(files, min_tokens, mode, max_families) ==
    LET lexed == [f \in DOMAIN files |-> [file |-> files[f].file,
                                          tokens |-> tokenize(files[f].source, files[f].lang, mode)]]
        raw == detect_clones(lexed, min_tokens, mode)
        families == aggregate_families(raw)
        kept == IF Cardinality(families) <= max_families THEN families
                ELSE CHOOSE k \in SUBSET families : Cardinality(k) = max_families
    IN  [findings |-> {[family |-> f, rule_id |-> IF \E o \in f.occurrences : o[2] = 1
                                                  THEN "duplicate-function" ELSE "duplicate-block"] :
                          f \in kept},
         raw_clone_pairs |-> Cardinality(raw),
         clone_families |-> Cardinality(families),
         reported_findings |-> Cardinality(kept),
         collapsed_matches |-> MapThenSumSet(LAMBDA f : f.pairs - 1, families),
         truncated_families |-> Cardinality(families) - Cardinality(kept)]

-----------------------------------------------------------------------------
(* The rules *)

RULES == [r \in {"duplicate-block", "duplicate-function"} |-> "warning"]

describe == [id |-> "duplication", rules |-> RULES]

\* Nothing for a rule of another module.
explain(rule_id) ==
    IF rule_id \notin DOMAIN RULES THEN <<>>
    ELSE <<[rule_id |-> rule_id, default_severity |-> RULES[rule_id], suppression |-> TRUE]>>
=============================================================================
