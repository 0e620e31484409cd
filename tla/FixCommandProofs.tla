--------------------------- MODULE FixCommandProofs ---------------------------
(***************************************************************************)
(* Proofs about FixCommand, for every tree, every set of overlapping dead  *)
(* symbols, every editor and every fault.                                  *)
(***************************************************************************)
EXTENDS FixCommand, FixEngineProofs

(***************************************************************************)
(* A symbol in a text of its file.                                         *)
(***************************************************************************)

\* The lines of a symbol fill the positions m..n of a text, and no others.
Block(text, s, m, n) ==
    /\ 1 <= m /\ m <= n /\ n <= Len(text)
    /\ Positions(text, s) = m..n
    /\ {text[i] : i \in m..n} = SymbolLines[s]

\* The ends of an interval of numbers.
LEMMA Ends ==
    ASSUME NEW m \in Nat, NEW n \in Nat, m <= n
    PROVE  Min(m..n) = m /\ Max(m..n) = n
<1>1. m \in m..n /\ \A y \in m..n : m <= y
  OBVIOUS
<1>2. n \in m..n /\ \A y \in m..n : n >= y
  OBVIOUS
<1>3. \A x \in m..n : (\A y \in m..n : x <= y) => x = m
  BY <1>1
<1>4. \A x \in m..n : (\A y \in m..n : x >= y) => x = n
  BY <1>2
<1>5. Min(m..n) = m
  BY <1>1, <1>3 DEF Min
<1>6. Max(m..n) = n
  BY <1>2, <1>4 DEF Max
<1>7. QED
  BY <1>5, <1>6

\* A non-empty set of numbers up to k has a greatest element.
LEMMA BoundedHasMaximum ==
    ASSUME NEW k \in Nat, NEW S, S \subseteq 1..k, S # {}
    PROVE  \E c \in S : \A b \in S : c >= b
<1> DEFINE gaps == {k - b : b \in S}
<1>0. \A b \in S : b \in Int /\ k - b \in Nat
  OBVIOUS
<1>1. gaps \subseteq Nat /\ gaps # {}
  BY <1>0
<1>2. PICK g \in gaps : \A h \in gaps : g <= h
  BY <1>1, NatHasMinimum
<1>3. PICK c \in S : g = k - c
  BY <1>2
<1>4. ASSUME NEW b \in S
      PROVE  c >= b
  <2>1. k - b \in gaps
    OBVIOUS
  <2>2. k - c <= k - b
    BY <1>2, <1>3, <2>1
  <2>3. QED
    BY <1>0, <2>2
<1>5. QED
  BY <1>4

LEMMA SymbolsHaveLines ==
    ASSUME NEW s \in Symbols
    PROVE  /\ SymbolFile[s] \in Files
           /\ SymbolLines[s] # {}
           /\ SymbolLines[s] \subseteq ToSet(Original[SymbolFile[s]])
           /\ SymbolLines[s] \cap EditorLines = {}
<1>1. PICK m \in DOMAIN Original[SymbolFile[s]], n \in DOMAIN Original[SymbolFile[s]] :
          m <= n /\ SymbolLines[s] = {Original[SymbolFile[s]][i] : i \in m..n}
  BY TreeAssumption
<1>2. SymbolFile[s] \in Files
  BY TreeAssumption
<1>3. DOMAIN Original[SymbolFile[s]] = 1..Len(Original[SymbolFile[s]])
  BY <1>2, TreeAssumption
<1>4. m \in m..n /\ m..n \subseteq DOMAIN Original[SymbolFile[s]]
  BY <1>1, <1>3
<1>5. SymbolLines[s] # {} /\ SymbolLines[s] \subseteq ToSet(Original[SymbolFile[s]])
  BY <1>1, <1>4 DEF ToSet
<1>6. ToSet(Original[SymbolFile[s]]) \cap EditorLines = {}
  BY <1>2, TreeAssumption
<1>7. QED
  BY <1>2, <1>5, <1>6

\* What is detected is a block.
LEMMA DetectedIsBlock ==
    ASSUME NEW s \in Symbols, NEW V, NEW text \in Seq(V), Detected(text, s)
    PROVE  \E m, n \in Nat : Block(text, s, m, n)
<1> DEFINE at == Positions(text, s)
<1>1. /\ {text[i] : i \in at} = SymbolLines[s]
      /\ at = Min(at)..Max(at)
  BY DEF Detected
<1>2. at # {} /\ at \subseteq 1..Len(text) /\ Len(text) \in Nat /\ at \subseteq Nat
  <2>1. at \subseteq 1..Len(text) /\ Len(text) \in Nat
    BY DEF Positions
  <2>2. at # {}
    BY <1>1, SymbolsHaveLines
  <2>3. QED
    BY <2>1, <2>2
<1> HIDE DEF at
<1>3. Min(at) \in at
  BY <1>2, NatHasMinimum DEF Min
<1>4. Max(at) \in at
  <2>1. \E c \in at : \A b \in at : c >= b
    BY <1>2, BoundedHasMaximum
  <2>2. QED
    BY <2>1 DEF Max
<1>5. PICK m \in Nat, n \in Nat : m = Min(at) /\ n = Max(at)
  BY <1>2, <1>3, <1>4
<1>6. m \in 1..Len(text) /\ n \in 1..Len(text) /\ n \in m..n
  BY <1>1, <1>2, <1>3, <1>4, <1>5
<1>7. at = m..n
  BY <1>1, <1>5
<1>8. Block(text, s, m, n)
  BY <1>1, <1>2, <1>6, <1>7 DEF Block, at
<1>9. QED
  BY <1>8

LEMMA BlockIsDetected ==
    ASSUME NEW s \in Symbols, NEW text, NEW m \in Nat, NEW n \in Nat, Block(text, s, m, n)
    PROVE  Detected(text, s)
BY Ends DEF Block, Detected

\* The order of the lines of a file: the editor's first, then those of the
\* original, each once.
Before(f) ==
    {pair \in Lines(f) \X Lines(f) :
        \/ pair[1] \in EditorLines /\ pair[1] # pair[2]
        \/ \E i, j \in DOMAIN Original[f] :
              i < j /\ pair[1] = Original[f][i] /\ pair[2] = Original[f][j]}

Ordered(f, text) == InOrder(text, Before(f))

LEMMA OrderedAtFirst ==
    ASSUME NEW f \in Files
    PROVE  /\ Original[f] \in Seq(Lines(f))
           /\ Ordered(f, Original[f])
<1>1. /\ Original[f] \in Seq(ToSet(Original[f]))
      /\ ToSet(Original[f]) = {Original[f][i] : i \in DOMAIN Original[f]}
  BY TreeAssumption DEF ToSet
<1>2. Original[f] \in Seq(Lines(f))
  BY <1>1 DEF Lines
<1>3. ASSUME NEW i \in DOMAIN Original[f], NEW j \in DOMAIN Original[f], i < j
      PROVE  <<Original[f][i], Original[f][j]>> \in Before(f)
  BY <1>1, <1>3 DEF Before, Lines
<1>4. QED
  BY <1>2, <1>3 DEF Ordered, InOrder

\* A line the editor puts at the top of a text that does not have it.
LEMMA OrderedAfterSaving ==
    ASSUME NEW f \in Files, NEW text \in Seq(Lines(f)), Ordered(f, text),
           NEW line \in EditorLines, line \notin ToSet(text)
    PROVE  /\ <<line>> \o text \in Seq(Lines(f))
           /\ Ordered(f, <<line>> \o text)
           /\ ToSet(<<line>> \o text) = {line} \cup ToSet(text)
<1> DEFINE new == <<line>> \o text
<1>1. line \in Lines(f)
  BY DEF Lines
<1>2. /\ new \in Seq(Lines(f))
      /\ Len(text) \in Nat /\ DOMAIN text = 1..Len(text)
      /\ Len(new) = Len(text) + 1 /\ DOMAIN new = 1..(Len(text) + 1)
      /\ new[1] = line
      /\ \A i \in 1..Len(text) : new[i + 1] = text[i]
  BY <1>1
<1> HIDE DEF new
<1>3. \A i \in DOMAIN new : i # 1 => i - 1 \in DOMAIN text /\ new[i] = text[i - 1]
  <2> TAKE i \in DOMAIN new
  <2>1. i # 1 => i - 1 \in 1..Len(text) /\ (i - 1) + 1 = i
    BY <1>2
  <2>2. QED
    BY <1>2, <2>1
<1>4. ASSUME NEW i \in DOMAIN new, NEW j \in DOMAIN new, i < j
      PROVE  <<new[i], new[j]>> \in Before(f)
  <2>1. j # 1 /\ j - 1 \in DOMAIN text /\ new[j] = text[j - 1] /\ new[j] \in Lines(f)
    BY <1>2, <1>3, <1>4
  <2>2. CASE i = 1
    <3>1. new[i] = line /\ line # new[j]
      BY <1>2, <2>1, <2>2 DEF ToSet
    <3>2. QED
      BY <1>1, <2>1, <3>1 DEF Before
  <2>3. CASE i # 1
    <3>1. i - 1 \in DOMAIN text /\ new[i] = text[i - 1]
      BY <1>3, <2>3
    <3>2. i - 1 < j - 1
      BY <1>2, <1>4
    <3>3. QED
      BY <2>1, <3>1, <3>2 DEF Ordered, InOrder
  <2>4. QED
    BY <2>2, <2>3
<1>5. ToSet(new) = {line} \cup ToSet(text)
  <2>1. \A i \in DOMAIN new : new[i] = line \/ new[i] \in ToSet(text)
    BY <1>2, <1>3 DEF ToSet
  <2>2. \A i \in DOMAIN text : text[i] \in ToSet(new)
    <3> TAKE i \in DOMAIN text
    <3>1. i + 1 \in DOMAIN new /\ new[i + 1] = text[i]
      BY <1>2
    <3>2. QED
      BY <3>1 DEF ToSet
  <2>3. line \in ToSet(new)
    BY <1>2 DEF ToSet
  <2>4. QED
    BY <2>1, <2>2, <2>3 DEF ToSet
<1>6. QED
  BY <1>2, <1>4, <1>5 DEF new, Ordered, InOrder

\* In a text that keeps the order, a symbol all of whose lines are there is
\* still in one block: nothing can have come between two of its lines.
LEMMA PresentIsDetected ==
    ASSUME NEW s \in Symbols, NEW text \in Seq(Lines(SymbolFile[s])),
           Ordered(SymbolFile[s], text), SymbolLines[s] \subseteq ToSet(text)
    PROVE  Detected(text, s)
<1> DEFINE f == SymbolFile[s]
           O == Original[f]
           at == Positions(text, s)
<1>1. f \in Files /\ SymbolLines[s] # {} /\ SymbolLines[s] \cap EditorLines = {}
  BY SymbolsHaveLines
<1>2. PICK m \in DOMAIN O, n \in DOMAIN O : m <= n /\ SymbolLines[s] = {O[i] : i \in m..n}
  BY TreeAssumption
<1>3. /\ DOMAIN O = 1..Len(O) /\ Len(O) \in Nat
      /\ \A i, j \in DOMAIN O : i # j => O[i] # O[j]
  BY <1>1, TreeAssumption
<1>4. at \subseteq 1..Len(text) /\ Len(text) \in Nat /\ DOMAIN text = 1..Len(text) /\ at # {}
  <2>1. Len(text) \in Nat /\ DOMAIN text = 1..Len(text)
    OBVIOUS
  <2>2. PICK line \in SymbolLines[s] : line \in ToSet(text)
    BY <1>1
  <2>3. PICK i \in DOMAIN text : text[i] = line
    BY <2>2 DEF ToSet
  <2>4. i \in at
    BY <2>2, <2>3 DEF Positions
  <2>5. QED
    BY <2>1, <2>4 DEF Positions
<1>d. m..n \subseteq DOMAIN O /\ m \in Nat /\ n \in Nat /\ DOMAIN O \subseteq Nat
  BY <1>3
<1> HIDE DEF f, O, at
<1>5. PICK first \in at : \A b \in at : first <= b
  <2>1. at \subseteq Nat
    BY <1>4
  <2>2. QED
    BY <1>4, <2>1, NatHasMinimum
<1>6. PICK last \in at : \A b \in at : last >= b
  BY <1>4, BoundedHasMaximum
<1>7. /\ first \in Nat /\ last \in Nat /\ 1 <= first /\ first <= last /\ last <= Len(text)
      /\ \A i \in at : i \in first..last
  BY <1>4, <1>5, <1>6
<1>8. \A i \in at : i \in DOMAIN text /\ text[i] \in SymbolLines[s]
  BY DEF at, Positions
<1>9. \A i, j \in DOMAIN text : i < j /\ text[i] \notin EditorLines =>
          \E p, q \in DOMAIN O : p < q /\ text[i] = O[p] /\ text[j] = O[q]
  <2> SUFFICES ASSUME NEW i \in DOMAIN text, NEW j \in DOMAIN text,
                      i < j, text[i] \notin EditorLines
               PROVE  \E p, q \in DOMAIN O : p < q /\ text[i] = O[p] /\ text[j] = O[q]
    OBVIOUS
  <2>1. <<text[i], text[j]>> \in Before(f)
    BY DEF Ordered, InOrder, f
  <2>2. QED
    BY <2>1 DEF Before, O
<1>10. ASSUME NEW i \in first..last
       PROVE  i \in at
  <2>1. CASE i = first \/ i = last
    BY <1>5, <1>6, <2>1
  <2>2. CASE i # first /\ i # last
    <3>1. first < i /\ i < last /\ i \in DOMAIN text /\ i \in Nat
      BY <1>4, <1>7, <2>2
    <3>2. text[first] \notin EditorLines
      BY <1>1, <1>5, <1>8
    <3>3. PICK p \in DOMAIN O, q \in DOMAIN O : p < q /\ text[first] = O[p] /\ text[i] = O[q]
      BY <1>5, <1>8, <1>9, <3>1, <3>2
    <3>4. PICK a \in m..n : text[first] = O[a]
      BY <1>2, <1>5, <1>8
    <3>5. p = a
      <4>1. a \in DOMAIN O
        BY <1>d
      <4>2. QED
        BY <1>3, <3>3, <3>4, <4>1
    <3>6. text[i] \notin EditorLines
      <4>1. O[q] \in ToSet(O)
        BY DEF ToSet
      <4>2. ToSet(O) \cap EditorLines = {}
        BY <1>1, TreeAssumption DEF O
      <4>3. QED
        BY <3>3, <4>1, <4>2
    <3>7. PICK u \in DOMAIN O, v \in DOMAIN O : u < v /\ text[i] = O[u] /\ text[last] = O[v]
      BY <1>6, <1>8, <1>9, <3>1, <3>6
    <3>8. PICK b \in m..n : text[last] = O[b]
      BY <1>2, <1>6, <1>8
    <3>9. u = q /\ v = b
      <4>1. b \in DOMAIN O
        BY <1>d
      <4>2. QED
        BY <1>3, <3>3, <3>7, <3>8, <4>1
    <3>10. q \in m..n
      BY <1>d, <3>3, <3>5, <3>7, <3>9
    <3>11. text[i] \in SymbolLines[s]
      BY <1>2, <3>3, <3>10
    <3>12. QED
      BY <3>1, <3>11 DEF at, Positions
  <2>3. QED
    BY <2>1, <2>2
<1>11. at = first..last
  BY <1>7, <1>10
<1>12. {text[i] : i \in at} = SymbolLines[s]
  BY DEF at, Positions, ToSet
<1>13. Block(text, s, first, last)
  BY <1>7, <1>11, <1>12 DEF Block, at
<1>14. QED
  BY <1>7, <1>13, BlockIsDetected

(***************************************************************************)
(* The findings of the command and the decisions of the engine.            *)
(***************************************************************************)

\* Findings of dead symbols, each with the one edit that deletes its lines.
Found(found) ==
    /\ DOMAIN found \subseteq Symbols
    /\ \A s \in DOMAIN found : \E m, n \in Nat :
          1 <= m /\ m <= n /\ found[s] = FindingOf(s, m..n)

TheEdit(finding) == finding.actions[1].edits[1]

LEMMA OneEditEach ==
    ASSUME NEW found, Found(found), NEW s \in DOMAIN found
    PROVE  /\ s \in Symbols
           /\ Fixable(found[s]) = {1}
           /\ FirstFixable(found[s]).edits = <<TheEdit(found[s])>>
           /\ DOMAIN found[s].actions[1].edits = {1}
           /\ TheEdit(found[s]).file = SymbolFile[s]
           /\ TheEdit(found[s]).start_line \in Nat \ {0}
           /\ TheEdit(found[s]).end_line \in Nat
           /\ TheEdit(found[s]).start_line <= TheEdit(found[s]).end_line
           /\ TheEdit(found[s]).new_text = <<>>
<1>1. PICK m \in Nat, n \in Nat : 1 <= m /\ m <= n /\ found[s] = FindingOf(s, m..n)
  BY DEF Found
<1>2. Min(m..n) = m /\ Max(m..n) = n
  BY <1>1, Ends
<1> DEFINE edit == [file |-> SymbolFile[s], start_line |-> m, end_line |-> n, new_text |-> <<>>]
<1>3. found[s] = [rule_id |-> RuleOf[s],
                  actions |-> <<[auto_fixable |-> TRUE, edits |-> <<edit>>]>>]
  BY <1>1, <1>2, Zenon DEF FindingOf
<1>4. edit.file = SymbolFile[s] /\ edit.start_line = m /\ edit.end_line = n /\ edit.new_text = <<>>
  OBVIOUS
<1> HIDE DEF edit
<1>5. /\ DOMAIN found[s].actions = {1} /\ found[s].actions[1].auto_fixable = TRUE
      /\ found[s].actions[1].edits = <<edit>>
  BY <1>3
<1>6. Fixable(found[s]) = {1}
  BY <1>5 DEF Fixable
<1>7. (CHOOSE a \in {1} : \A b \in {1} : a <= b) = 1
  OBVIOUS
<1>8. FirstFixable(found[s]) = found[s].actions[1]
  BY <1>6, <1>7, Zenon DEF FirstFixable
<1>9. TheEdit(found[s]) = edit
  BY <1>5 DEF TheEdit
<1>10. DOMAIN <<edit>> = {1}
  OBVIOUS
<1>11. QED
  BY <1>1, <1>4, <1>5, <1>6, <1>8, <1>9, <1>10 DEF Found

\* The engine on such findings: what conflicts is what overlaps another finding.
LEMMA Decisions ==
    ASSUME NEW found, Found(found), NEW dry \in BOOLEAN
    PROVE  /\ detect_conflicts(found) =
                 {s \in DOMAIN found : \E t \in DOMAIN found \ {s} :
                     edits_overlap(TheEdit(found[s]), TheEdit(found[t]))}
           /\ DOMAIN orchestrate_fixes(found, dry) = DOMAIN found
           /\ \A s \in DOMAIN found :
                 /\ orchestrate_fixes(found, dry)[s].edits = <<TheEdit(found[s])>>
                 /\ orchestrate_fixes(found, dry)[s].applied =
                        (~ dry /\ s \notin detect_conflicts(found))
<1>1. plan_edits(found) = {<<s, 1, 1>> : s \in DOMAIN found}
  BY OneEditEach DEF plan_edits
<1>2. \A s \in DOMAIN found : PlannedEdit(found, <<s, 1, 1>>) = TheEdit(found[s])
  BY DEF PlannedEdit, TheEdit
<1>3. detect_conflicts(found) =
          {s \in DOMAIN found : \E t \in DOMAIN found \ {s} :
              edits_overlap(TheEdit(found[s]), TheEdit(found[t]))}
  <2>1. ASSUME NEW s \in detect_conflicts(found)
        PROVE  s \in DOMAIN found /\ \E t \in DOMAIN found \ {s} :
                  edits_overlap(TheEdit(found[s]), TheEdit(found[t]))
    <3>1. s \in DOMAIN found /\ \E x, y \in plan_edits(found) :
              x[1] = s /\ x # y /\ edits_overlap(PlannedEdit(found, x), PlannedEdit(found, y))
      BY DEF detect_conflicts
    <3>2. PICK t \in DOMAIN found : /\ <<s, 1, 1>> # <<t, 1, 1>>
                                    /\ edits_overlap(PlannedEdit(found, <<s, 1, 1>>),
                                                     PlannedEdit(found, <<t, 1, 1>>))
      BY <1>1, <3>1
    <3>3. QED
      BY <1>2, <3>1, <3>2
  <2>2. ASSUME NEW s \in DOMAIN found, NEW t \in DOMAIN found \ {s},
               edits_overlap(TheEdit(found[s]), TheEdit(found[t]))
        PROVE  s \in detect_conflicts(found)
    <3> DEFINE x == <<s, 1, 1>>
               y == <<t, 1, 1>>
    <3>1. x \in plan_edits(found) /\ y \in plan_edits(found) /\ x[1] = s /\ x # y
      BY <1>1
    <3>2. edits_overlap(PlannedEdit(found, x), PlannedEdit(found, y))
      BY <1>2, <2>2
    <3> HIDE DEF x, y
    <3>3. QED
      BY <3>1, <3>2 DEF detect_conflicts
  <2>3. QED
    BY <2>1, <2>2
<1>4. DOMAIN orchestrate_fixes(found, dry) = DOMAIN found
  BY DEF orchestrate_fixes
<1>5. ASSUME NEW s \in DOMAIN found
      PROVE  /\ orchestrate_fixes(found, dry)[s].edits = <<TheEdit(found[s])>>
             /\ orchestrate_fixes(found, dry)[s].applied =
                        (~ dry /\ s \notin detect_conflicts(found))
  BY OneEditEach DEF orchestrate_fixes, FixResult
<1>6. QED
  BY <1>3, <1>4, <1>5

\* The findings of a file are the blocks of their symbols in a text of it.
FoundIn(found, text, f) ==
    \A s \in DOMAIN found : SymbolFile[s] = f =>
        Block(text, s, TheEdit(found[s]).start_line, TheEdit(found[s]).end_line)

\* The edits of a file are within a text of it.
Fits(found, text, f) ==
    \A s \in DOMAIN found : SymbolFile[s] = f => TheEdit(found[s]).end_line <= Len(text)

AppliedIn(decided, f) == {s \in DOMAIN decided : SymbolFile[s] = f /\ decided[s].applied}

\* The lines that the applied fixes of a file delete.
Gone(decided, f) == UNION {SymbolLines[s] : s \in AppliedIn(decided, f)}

\* In one text, two findings overlap exactly when their symbols share a line of it.
LEMMA OverlapIsASharedSymbolLine ==
    ASSUME NEW found, Found(found), NEW f, NEW V, NEW text \in Seq(V), FoundIn(found, text, f),
           NEW s \in DOMAIN found, SymbolFile[s] = f,
           NEW t \in DOMAIN found, SymbolFile[t] = f
    PROVE  edits_overlap(TheEdit(found[s]), TheEdit(found[t]))
               <=> SymbolLines[s] \cap SymbolLines[t] # {}
<1> DEFINE d == TheEdit(found[s])
           e == TheEdit(found[t])
<1>1. /\ d.start_line \in Int /\ d.end_line \in Int /\ d.start_line <= d.end_line /\ d.file = f
      /\ e.start_line \in Int /\ e.end_line \in Int /\ e.start_line <= e.end_line /\ e.file = f
  BY OneEditEach
<1>2. /\ Block(text, s, d.start_line, d.end_line)
      /\ Block(text, t, e.start_line, e.end_line)
  BY DEF FoundIn
<1> HIDE DEF d, e
<1>3. edits_overlap(d, e) <=> \E i \in Int : /\ i \in d.start_line..d.end_line
                                             /\ i \in e.start_line..e.end_line
  BY <1>1, OverlapIsASharedLine
<1>4. ASSUME NEW i \in Int, i \in d.start_line..d.end_line, i \in e.start_line..e.end_line
      PROVE  SymbolLines[s] \cap SymbolLines[t] # {}
  <2>1. text[i] \in SymbolLines[s] /\ text[i] \in SymbolLines[t]
    BY <1>2, <1>4 DEF Block, Positions
  <2>2. QED
    BY <2>1
<1>5. ASSUME NEW line \in SymbolLines[s], line \in SymbolLines[t]
      PROVE  \E i \in Int : /\ i \in d.start_line..d.end_line
                            /\ i \in e.start_line..e.end_line
  <2>1. PICK i \in d.start_line..d.end_line : text[i] = line
    BY <1>2 DEF Block
  <2>2. i \in Int /\ i \in DOMAIN text
    BY <1>1, <1>2 DEF Block
  <2>3. i \in Positions(text, t)
    BY <1>5, <2>1, <2>2 DEF Positions
  <2>4. i \in e.start_line..e.end_line
    BY <1>2, <2>3 DEF Block
  <2>5. QED
    BY <2>1, <2>2, <2>4
<1>6. QED
  BY <1>3, <1>4, <1>5 DEF d, e

LEMMA AppliedEditsAre ==
    ASSUME NEW found, Found(found), NEW dry \in BOOLEAN, NEW decided,
           decided = orchestrate_fixes(found, dry), NEW f
    PROVE  AppliedEdits(decided, f) = {TheEdit(found[s]) : s \in AppliedIn(decided, f)}
<1>1. DOMAIN decided = DOMAIN found
  BY Decisions
<1>2. \A s \in DOMAIN found : ToSet(decided[s].edits) = {TheEdit(found[s])}
  <2> TAKE s \in DOMAIN found
  <2>1. decided[s].edits = <<TheEdit(found[s])>>
    BY Decisions
  <2>2. QED
    BY <2>1 DEF ToSet
<1>3. \A s \in DOMAIN found : TheEdit(found[s]).file = SymbolFile[s]
  BY OneEditEach
<1>4. QED
  BY <1>1, <1>2, <1>3 DEF AppliedEdits, AppliedIn

\* What the command applies to a file are separate deletions within it.
LEMMA AppliedEditsAreSeparate ==
    ASSUME NEW found, Found(found), NEW dry \in BOOLEAN, NEW decided,
           decided = orchestrate_fixes(found, dry),
           NEW f, NEW text, Fits(found, text, f)
    PROVE  /\ Separate(AppliedEdits(decided, f), Len(text))
           /\ \A e \in AppliedEdits(decided, f) : e.new_text = <<>>
<1>1. AppliedEdits(decided, f) = {TheEdit(found[s]) : s \in AppliedIn(decided, f)}
  BY AppliedEditsAre
<1>2. AppliedIn(decided, f) \subseteq DOMAIN found
  BY Decisions DEF AppliedIn
<1>3. \A s \in AppliedIn(decided, f) :
          /\ TheEdit(found[s]).file = f
          /\ TheEdit(found[s]).start_line \in Nat \ {0}
          /\ TheEdit(found[s]).end_line \in Nat
          /\ TheEdit(found[s]).start_line <= TheEdit(found[s]).end_line
          /\ TheEdit(found[s]).new_text = <<>>
          /\ TheEdit(found[s]).end_line <= Len(text)
  <2> TAKE s \in AppliedIn(decided, f)
  <2>1. s \in DOMAIN found /\ SymbolFile[s] = f
    BY <1>2 DEF AppliedIn
  <2>2. TheEdit(found[s]).end_line <= Len(text)
    BY <2>1 DEF Fits
  <2>3. QED
    BY <2>1, <2>2, OneEditEach
<1>4. \A s, t \in AppliedIn(decided, f) : TheEdit(found[s]) # TheEdit(found[t]) =>
          ~ edits_overlap(TheEdit(found[s]), TheEdit(found[t]))
  <2> SUFFICES ASSUME NEW s \in AppliedIn(decided, f), NEW t \in AppliedIn(decided, f),
                      TheEdit(found[s]) # TheEdit(found[t])
               PROVE  ~ edits_overlap(TheEdit(found[s]), TheEdit(found[t]))
    OBVIOUS
  <2>1. s \in DOMAIN found /\ t \in DOMAIN found \ {s} /\ decided[s].applied
    BY <1>2 DEF AppliedIn
  <2>2. s \notin detect_conflicts(found)
    BY <2>1, Decisions
  <2>3. QED
    BY <2>1, <2>2, Decisions
<1>5. IsFiniteSet({TheEdit(found[s]) : s \in AppliedIn(decided, f)})
  <2>1. IsFiniteSet(AppliedIn(decided, f))
    BY <1>2, FS_Subset, TreeAssumption DEF Found
  <2> DEFINE T == {TheEdit(found[s]) : s \in AppliedIn(decided, f)}
             g == [s \in AppliedIn(decided, f) |-> TheEdit(found[s])]
  <2>2. g \in Surjection(AppliedIn(decided, f), T)
    BY DEF Surjection
  <2> HIDE DEF g, T
  <2>3. IsFiniteSet(T)
    BY <2>1, <2>2, FS_Surjection
  <2>4. QED
    BY <2>3 DEF T
<1>6. ASSUME NEW d \in AppliedEdits(decided, f), NEW e \in AppliedEdits(decided, f), d # e
      PROVE  d.end_line < e.start_line \/ e.end_line < d.start_line
  <2>1. ~ edits_overlap(d, e)
    BY <1>1, <1>4, <1>6
  <2>2. /\ d.file = f /\ d.start_line \in Nat /\ d.end_line \in Nat
        /\ e.file = f /\ e.start_line \in Nat /\ e.end_line \in Nat
    BY <1>1, <1>3
  <2>3. QED
    BY <2>1, <2>2 DEF edits_overlap
<1>7. QED
  BY <1>1, <1>3, <1>5, <1>6 DEF Separate, Ranged

\* The text that the command makes of one in which its findings are: without the
\* lines of the symbols it calls applied, and otherwise as it was.
LEMMA RepairedText ==
    ASSUME NEW found, Found(found), NEW dry \in BOOLEAN, NEW decided,
           decided = orchestrate_fixes(found, dry), NEW f \in Files,
           NEW text \in Seq(Lines(f)), Ordered(f, text), FoundIn(found, text, f),
           NEW new, new = apply_edits_to_content(text, AppliedEdits(decided, f))
    PROVE  /\ new \in Seq(Lines(f))
           /\ Ordered(f, new)
           /\ ToSet(new) = ToSet(text) \ Gone(decided, f)
<1> DEFINE E == AppliedEdits(decided, f)
<1>1. /\ Separate(E, Len(text))
      /\ \A e \in E : e.new_text = <<>>
  <2>1. Fits(found, text, f)
    BY DEF FoundIn, Block, Fits
  <2>2. QED
    BY <2>1, AppliedEditsAreSeparate
<1>2. \A e \in E : e.new_text \in Seq(Lines(f))
  <2>1. <<>> \in Seq(Lines(f))
    OBVIOUS
  <2>2. QED
    BY <1>1, <2>1, Zenon
<1>3. E = {TheEdit(found[s]) : s \in AppliedIn(decided, f)}
  BY AppliedEditsAre
<1> HIDE DEF E
<1>4. /\ apply_edits_to_content(text, E) \in Seq(Lines(f))
      /\ ToSet(apply_edits_to_content(text, E)) =
            {text[i] : i \in Uncovered(text, E)} \cup UNION {ToSet(e.new_text) : e \in E}
  BY <1>1, <1>2, EditsReplaceTheirLines
<1>5. InOrder(apply_edits_to_content(text, E), Before(f))
  BY <1>1, DeletionsKeepOrder DEF Ordered
<1>6. UNION {ToSet(e.new_text) : e \in E} = {}
  <2>1. ToSet(<<>>) = {}
    BY DEF ToSet
  <2>2. QED
    BY <1>1, <2>1
<1>7. \A s \in AppliedIn(decided, f) :
          Positions(text, s) = TheEdit(found[s]).start_line..TheEdit(found[s]).end_line
  <2>1. AppliedIn(decided, f) \subseteq DOMAIN found
    BY Decisions DEF AppliedIn
  <2>2. QED
    BY <2>1 DEF AppliedIn, FoundIn, Block
<1>8. \A s \in AppliedIn(decided, f) : /\ TheEdit(found[s]).start_line \in Nat
                                       /\ TheEdit(found[s]).end_line \in Nat
  <2>1. AppliedIn(decided, f) \subseteq DOMAIN found
    BY Decisions DEF AppliedIn
  <2>2. QED
    BY <2>1, OneEditEach
<1>9. \A i \in DOMAIN text : i \in Uncovered(text, E) <=> text[i] \notin Gone(decided, f)
  <2> TAKE i \in DOMAIN text
  <2>1. i \in Nat
    OBVIOUS
  <2>2. \A s \in AppliedIn(decided, f) :
            text[i] \in SymbolLines[s] <=> i \in Positions(text, s)
    BY DEF Positions
  <2>3. \A s \in AppliedIn(decided, f) :
            text[i] \in SymbolLines[s] <=> /\ TheEdit(found[s]).start_line <= i
                                           /\ i <= TheEdit(found[s]).end_line
    BY <1>7, <1>8, <2>1, <2>2
  <2>4. i \in Uncovered(text, E) <=>
            \A s \in AppliedIn(decided, f) : ~ /\ TheEdit(found[s]).start_line <= i
                                               /\ i <= TheEdit(found[s]).end_line
    BY <1>3 DEF Uncovered
  <2>5. QED
    BY <2>3, <2>4 DEF Gone
<1>10. {text[i] : i \in Uncovered(text, E)} = ToSet(text) \ Gone(decided, f)
  <2>1. Uncovered(text, E) \subseteq DOMAIN text
    BY DEF Uncovered
  <2>2. QED
    BY <1>9, <2>1 DEF ToSet
<1>11. new = apply_edits_to_content(text, E)
  BY DEF E
<1>12. QED
  BY <1>4, <1>5, <1>6, <1>10, <1>11 DEF Ordered

\* Edits that fit make a text of one, even where they are out of place.
LEMMA EditedIsText ==
    ASSUME NEW found, Found(found), NEW dry \in BOOLEAN, NEW decided,
           decided = orchestrate_fixes(found, dry), NEW f,
           NEW text \in Seq(Lines(f)), Fits(found, text, f)
    PROVE  apply_edits_to_content(text, AppliedEdits(decided, f)) \in Seq(Lines(f))
<1> DEFINE E == AppliedEdits(decided, f)
<1>1. /\ Separate(E, Len(text))
      /\ \A e \in E : e.new_text = <<>>
  BY AppliedEditsAreSeparate
<1>2. \A e \in E : e.new_text \in Seq(Lines(f))
  <2>1. <<>> \in Seq(Lines(f))
    OBVIOUS
  <2>2. QED
    BY <1>1, <2>1, Zenon
<1> HIDE DEF E
<1>3. apply_edits_to_content(text, E) \in Seq(Lines(f))
  BY <1>1, <1>2, EditsReplaceTheirLines
<1>4. QED
  BY <1>3 DEF E

\* What is skipped loses no line to what is applied.
LEMMA SkippedIsKept ==
    ASSUME NEW found, Found(found), NEW dry \in BOOLEAN, NEW decided,
           decided = orchestrate_fixes(found, dry),
           NEW f, NEW V, NEW text \in Seq(V), FoundIn(found, text, f),
           NEW s \in DOMAIN found, SymbolFile[s] = f, ~ decided[s].applied
    PROVE  SymbolLines[s] \cap Gone(decided, f) = {}
<1>1. AppliedIn(decided, f) \subseteq DOMAIN found /\ s \notin AppliedIn(decided, f)
  BY Decisions DEF AppliedIn
<1>2. ASSUME NEW t \in AppliedIn(decided, f)
      PROVE  SymbolLines[s] \cap SymbolLines[t] = {}
  <2>1. t \in DOMAIN found \ {s} /\ s \in DOMAIN found \ {t} /\ SymbolFile[t] = f /\ decided[t].applied
    BY <1>1 DEF AppliedIn
  <2>2. t \notin detect_conflicts(found)
    BY <2>1, Decisions
  <2>3. ~ edits_overlap(TheEdit(found[t]), TheEdit(found[s]))
    BY <2>1, <2>2, Decisions
  <2>4. SymbolLines[t] \cap SymbolLines[s] = {}
    BY <2>1, <2>3, OverlapIsASharedSymbolLine
  <2>5. QED
    BY <2>4
<1>3. QED
  BY <1>2 DEF Gone

\* What is skipped overlaps something else that is skipped.
OverlapsSkipped(decided, s) ==
    \E t \in DOMAIN decided \ {s} : /\ SymbolFile[t] = SymbolFile[s] /\ ~ decided[t].applied
                                    /\ SymbolLines[s] \cap SymbolLines[t] # {}

LEMMA SkippedOverlaps ==
    ASSUME NEW found, Found(found), NEW decided,
           decided = orchestrate_fixes(found, FALSE),
           NEW f, NEW V, NEW text \in Seq(V), FoundIn(found, text, f),
           NEW s \in DOMAIN found, SymbolFile[s] = f, ~ decided[s].applied
    PROVE  OverlapsSkipped(decided, s)
<1>1. s \in detect_conflicts(found)
  BY Decisions
<1>2. PICK t \in DOMAIN found \ {s} : edits_overlap(TheEdit(found[s]), TheEdit(found[t]))
  BY <1>1, Decisions
<1>3. edits_overlap(TheEdit(found[t]), TheEdit(found[s])) /\ SymbolFile[t] = f
  <2>1. TheEdit(found[t]).file = SymbolFile[t] /\ TheEdit(found[s]).file = SymbolFile[s]
    BY OneEditEach
  <2>2. QED
    BY <1>2, <2>1 DEF edits_overlap
<1>4. t \in detect_conflicts(found)
  BY <1>3, Decisions
<1>5. ~ decided[t].applied
  BY <1>4, Decisions
<1>6. SymbolLines[s] \cap SymbolLines[t] # {}
  BY <1>2, <1>3, OverlapIsASharedSymbolLine
<1>7. DOMAIN decided = DOMAIN found
  BY Decisions
<1>8. QED
  BY <1>3, <1>5, <1>6, <1>7 DEF OverlapsSkipped

(***************************************************************************)
(* What a text of a file must be, and what the command and the editor make *)
(* of it.                                                                  *)
(***************************************************************************)

Proper(f, text) == text \in Seq(Lines(f)) /\ Ordered(f, text)

\* Nothing is lost but whole symbols.
Intact(f, text) ==
    /\ Innocent(f) \subseteq ToSet(text)
    /\ \A s \in Symbols : SymbolFile[s] = f =>
          \A line \in SymbolLines[s] \ ToSet(text) :
              \E t \in Symbols : /\ SymbolFile[t] = f
                                 /\ line \in SymbolLines[t]
                                 /\ SymbolLines[t] \cap ToSet(text) = {}

\* What is called applied is gone, and what is called skipped is there.
AsReported(decided, f, text) ==
    \A s \in DOMAIN decided : SymbolFile[s] = f =>
        IF decided[s].applied THEN SymbolLines[s] \cap ToSet(text) = {}
        ELSE SymbolLines[s] \subseteq ToSet(text)

\* Every symbol that is there was found.
NoneUnfound(decided, f, text) ==
    \A s \in Symbols \ DOMAIN decided :
        SymbolFile[s] = f => ~ (SymbolLines[s] \subseteq ToSet(text))

\* The command keeps all of that, and makes the texts as it reports them.
LEMMA RepairIsSound ==
    ASSUME NEW found, Found(found), NEW dry \in BOOLEAN, NEW decided,
           decided = orchestrate_fixes(found, dry), NEW f \in Files,
           NEW text, Proper(f, text), FoundIn(found, text, f),
           NEW new, \/ new = apply_edits_to_content(text, AppliedEdits(decided, f))
                    \/ new = text /\ AppliedEdits(decided, f) = {}
    PROVE  /\ Proper(f, new)
           /\ Intact(f, text) => Intact(f, new)
           /\ AsReported(decided, f, new)
           /\ NoneUnfound(decided, f, text) => NoneUnfound(decided, f, new)
<1>1. text \in Seq(Lines(f)) /\ Ordered(f, text)
  BY DEF Proper
<1>2. DOMAIN decided = DOMAIN found /\ DOMAIN found \subseteq Symbols
  BY Decisions DEF Found
<1>3. Proper(f, new) /\ ToSet(new) = ToSet(text) \ Gone(decided, f)
  <2>1. CASE new = apply_edits_to_content(text, AppliedEdits(decided, f))
    BY <1>1, <2>1, RepairedText DEF Proper
  <2>2. CASE new = text /\ AppliedEdits(decided, f) = {}
    <3>1. AppliedIn(decided, f) = {}
      <4>1. AppliedEdits(decided, f) = {TheEdit(found[s]) : s \in AppliedIn(decided, f)}
        BY AppliedEditsAre
      <4>2. QED
        BY <2>2, <4>1
    <3>2. Gone(decided, f) = {}
      BY <3>1 DEF Gone
    <3>3. QED
      BY <2>2, <3>2
  <2>3. QED
    BY <2>1, <2>2
<1>4. \A s \in AppliedIn(decided, f) : /\ s \in Symbols /\ SymbolFile[s] = f
                                       /\ SymbolLines[s] \subseteq Gone(decided, f)
  BY <1>2 DEF AppliedIn, Gone
<1>5. ASSUME Intact(f, text)
      PROVE  Intact(f, new)
  <2>1. Innocent(f) \cap Gone(decided, f) = {}
    BY <1>2 DEF Innocent, Gone, AppliedIn
  <2>2. Innocent(f) \subseteq ToSet(new)
    BY <1>3, <1>5, <2>1 DEF Intact
  <2>3. ASSUME NEW s \in Symbols, SymbolFile[s] = f, NEW line \in SymbolLines[s] \ ToSet(new)
        PROVE  \E t \in Symbols : /\ SymbolFile[t] = f
                                  /\ line \in SymbolLines[t]
                                  /\ SymbolLines[t] \cap ToSet(new) = {}
    <3>1. CASE line \notin ToSet(text)
      <4>1. PICK t \in Symbols : /\ SymbolFile[t] = f
                                 /\ line \in SymbolLines[t]
                                 /\ SymbolLines[t] \cap ToSet(text) = {}
        BY <1>5, <2>3, <3>1 DEF Intact
      <4>2. QED
        BY <1>3, <4>1
    <3>2. CASE line \in ToSet(text)
      <4>1. line \in Gone(decided, f)
        BY <1>3, <3>2
      <4>2. PICK t \in AppliedIn(decided, f) : line \in SymbolLines[t]
        BY <4>1 DEF Gone
      <4>3. QED
        BY <1>3, <1>4, <4>2
    <3>3. QED
      BY <3>1, <3>2
  <2>4. QED
    BY <2>2, <2>3 DEF Intact
<1>6. AsReported(decided, f, new)
  <2> SUFFICES ASSUME NEW s \in DOMAIN decided, SymbolFile[s] = f
               PROVE  IF decided[s].applied THEN SymbolLines[s] \cap ToSet(new) = {}
                      ELSE SymbolLines[s] \subseteq ToSet(new)
    BY DEF AsReported
  <2>1. CASE decided[s].applied
    <3>1. s \in AppliedIn(decided, f)
      BY <2>1 DEF AppliedIn
    <3>2. QED
      BY <1>3, <1>4, <2>1, <3>1
  <2>2. CASE ~ decided[s].applied
    <3>1. SymbolLines[s] \cap Gone(decided, f) = {}
      BY <1>1, <1>2, <2>2, SkippedIsKept
    <3>2. SymbolLines[s] \subseteq ToSet(text)
      <4>1. Block(text, s, TheEdit(found[s]).start_line, TheEdit(found[s]).end_line)
        BY <1>2 DEF FoundIn
      <4>2. /\ TheEdit(found[s]).start_line \in Nat /\ TheEdit(found[s]).end_line \in Nat
        BY <1>2, OneEditEach
      <4>3. TheEdit(found[s]).start_line..TheEdit(found[s]).end_line \subseteq DOMAIN text
        BY <1>1, <4>1, <4>2 DEF Block
      <4>4. QED
        BY <4>1, <4>3 DEF Block, ToSet
    <3>3. QED
      BY <1>3, <2>2, <3>1, <3>2
  <2>3. QED
    BY <2>1, <2>2
<1>7. NoneUnfound(decided, f, text) => NoneUnfound(decided, f, new)
  BY <1>3 DEF NoneUnfound
<1>8. QED
  BY <1>3, <1>5, <1>6, <1>7

\* So does the editor, between two runs.
LEMMA SavingIsSound ==
    ASSUME NEW f \in Files, NEW text, Proper(f, text),
           NEW line \in EditorLines, line \notin ToSet(text), NEW decided, DOMAIN decided \subseteq Symbols,
           NEW new, new = <<line>> \o text
    PROVE  /\ Proper(f, new)
           /\ Intact(f, text) => Intact(f, new)
           /\ AsReported(decided, f, text) => AsReported(decided, f, new)
           /\ NoneUnfound(decided, f, text) => NoneUnfound(decided, f, new)
<1>1. text \in Seq(Lines(f)) /\ Ordered(f, text)
  BY DEF Proper
<1>2. Proper(f, new) /\ ToSet(new) = {line} \cup ToSet(text)
  BY <1>1, OrderedAfterSaving DEF Proper
<1>3. \A s \in Symbols : line \notin SymbolLines[s]
  BY SymbolsHaveLines
<1>4. Intact(f, text) => Intact(f, new)
  <2> SUFFICES ASSUME Intact(f, text)
               PROVE  Intact(f, new)
    OBVIOUS
  <2>1. Innocent(f) \subseteq ToSet(new)
    BY <1>2 DEF Intact
  <2>2. ASSUME NEW s \in Symbols, SymbolFile[s] = f, NEW gone \in SymbolLines[s] \ ToSet(new)
        PROVE  \E t \in Symbols : /\ SymbolFile[t] = f
                                  /\ gone \in SymbolLines[t]
                                  /\ SymbolLines[t] \cap ToSet(new) = {}
    <3>1. PICK t \in Symbols : /\ SymbolFile[t] = f
                               /\ gone \in SymbolLines[t]
                               /\ SymbolLines[t] \cap ToSet(text) = {}
      BY <1>2, <2>2 DEF Intact
    <3>2. QED
      BY <1>2, <1>3, <3>1
  <2>3. QED
    BY <2>1, <2>2 DEF Intact
<1>5. AsReported(decided, f, text) => AsReported(decided, f, new)
  BY <1>2, <1>3 DEF AsReported
<1>6. NoneUnfound(decided, f, text) => NoneUnfound(decided, f, new)
  BY <1>2, <1>3 DEF NoneUnfound
<1>7. QED
  BY <1>2, <1>4, <1>5, <1>6

\* A text that is whole is proper and intact; an empty one is proper, with no symbol.
LEMMA OriginalIsSound ==
    ASSUME NEW f \in Files
    PROVE  Proper(f, Original[f]) /\ Intact(f, Original[f])
<1>1. Proper(f, Original[f])
  BY OrderedAtFirst DEF Proper
<1>2. Intact(f, Original[f])
  BY SymbolsHaveLines DEF Intact, Innocent
<1>3. QED
  BY <1>1, <1>2

LEMMA EmptyIsProper ==
    ASSUME NEW f \in Files, NEW decided
    PROVE  Proper(f, <<>>) /\ NoneUnfound(decided, f, <<>>)
<1>1. <<>> \in Seq(Lines(f)) /\ DOMAIN <<>> = {} /\ ToSet(<<>>) = {}
  BY DEF ToSet
<1>2. Proper(f, <<>>)
  BY <1>1 DEF Proper, Ordered, InOrder
<1>3. NoneUnfound(decided, f, <<>>)
  BY <1>1, SymbolsHaveLines DEF NoneUnfound
<1>4. QED
  BY <1>2, <1>3

(***************************************************************************)
(* The inductive invariant.                                                *)
(***************************************************************************)

Repairing == pc \in {"write", "fill"}

\* The text a file has once the run is over.
Final(f) == IF Repairing /\ f \in DOMAIN new_contents THEN new_contents[f] ELSE disk[f]

TypeOK ==
    /\ pc \in {"idle", "analyse", "read", "write", "fill"}
    /\ dry_run \in BOOLEAN
    /\ disk = [f \in Files |-> disk[f]]
    /\ IF pc = "fill" THEN \E f \in DOMAIN new_contents : writing = {f} ELSE writing = {}
    /\ Repairing => DOMAIN new_contents \subseteq Files
    /\ outcome = "ok" => pc = "idle"
    /\ unread \subseteq Files

\* The findings and the decisions of a run, and what it means to be skipped.
Decided ==
    /\ Found(findings)
    /\ results = orchestrate_fixes(findings, dry_run)
    /\ ~ dry_run =>
          \A s \in DOMAIN results : ~ results[s].applied => OverlapsSkipped(results, s)

\* Until the files are read again, the findings are where the analyses saw them.
FoundInPlace ==
    pc = "read" => \A f \in Files : /\ Fits(findings, disk[f], f)
                                    /\ f \notin raced => FoundIn(findings, disk[f], f)

\* The files on disk and once the run is over: only where the editor raced with
\* it can a run have put lines out of order.
TextsAreProper ==
    \A f \in Files : /\ disk[f] \in Seq(Lines(f)) /\ Final(f) \in Seq(Lines(f))
                     /\ f \notin raced => Proper(f, disk[f]) /\ Proper(f, Final(f))

TextsAreIntact ==
    \A f \in Files \ (raced \cup damaged) :
        /\ f \notin writing => Intact(f, disk[f])
        /\ Intact(f, Final(f))

TextsAreAsReported ==
    Repairing \/ outcome = "ok" =>
        \A f \in Files \ (raced \cup unread) : AsReported(results, f, Final(f))

NothingIsUnfound ==
    (pc = "read" \/ Repairing \/ outcome = "ok") /\ rule = AnyRule =>
        \A f \in Files \ raced : /\ NoneUnfound(results, f, disk[f])
                                 /\ NoneUnfound(results, f, Final(f))

IInv ==
    /\ TypeOK /\ Decided /\ FoundInPlace /\ TextsAreProper
    /\ TextsAreIntact /\ TextsAreAsReported /\ NothingIsUnfound

LEMMA NothingFound ==
    ASSUME NEW dry
    PROVE  /\ DOMAIN NoFunction = {}
           /\ Found(NoFunction)
           /\ NoFunction = orchestrate_fixes(NoFunction, dry)
<1>1. DOMAIN NoFunction = {}
  BY DEF NoFunction
<1>2. QED
  BY <1>1 DEF NoFunction, Found, orchestrate_fixes

LEMMA InitSatisfies == Init => IInv
<1> SUFFICES ASSUME Init
             PROVE  IInv
  OBVIOUS
<1>1. /\ pc = "idle" /\ disk = Original /\ dry_run = FALSE /\ writing = {} /\ outcome = "none"
      /\ unread = {} /\ findings = NoFunction /\ results = NoFunction
  BY DEF Init
<1>2. ~ Repairing /\ \A f : Final(f) = disk[f]
  BY <1>1 DEF Repairing, Final
<1>3. TypeOK
  BY <1>1, <1>2, TreeAssumption DEF TypeOK
<1>4. Decided
  BY <1>1, NothingFound DEF Decided
<1>5. \A f \in Files : Proper(f, disk[f]) /\ Intact(f, disk[f])
  BY <1>1, OriginalIsSound
<1>6. QED
  BY <1>1, <1>2, <1>3, <1>4, <1>5
     DEF IInv, FoundInPlace, TextsAreProper, TextsAreIntact, TextsAreAsReported, NothingIsUnfound,
         Proper

LEMMA StartPreserves ==
    ASSUME IInv, NEW dry \in BOOLEAN, NEW filter, Start(dry, filter)
    PROVE  IInv'
<1>1. /\ pc' = "analyse" /\ dry_run' \in BOOLEAN /\ findings' = NoFunction /\ results' = NoFunction
      /\ outcome' = "none" /\ unread' = {} /\ pc = "idle"
      /\ disk' = disk /\ writing' = writing /\ raced' = raced /\ damaged' = damaged
  BY DEF Start
<1>2. ~ Repairing' /\ \A f : Final(f)' = disk[f]
  BY <1>1 DEF Repairing, Final
<1>3. ~ Repairing /\ \A f : Final(f) = disk[f]
  BY <1>1 DEF Repairing, Final
<1>4. TypeOK'
  BY <1>1, <1>2 DEF IInv, TypeOK
<1>5. Decided'
  BY <1>1, NothingFound DEF Decided
<1>6. TextsAreProper' /\ TextsAreIntact'
  BY <1>1, <1>2, <1>3 DEF IInv, TextsAreProper, TextsAreIntact
<1>7. FoundInPlace' /\ TextsAreAsReported' /\ NothingIsUnfound'
  BY <1>1, <1>2 DEF FoundInPlace, TextsAreAsReported, NothingIsUnfound
<1>8. QED
  BY <1>4, <1>5, <1>6, <1>7 DEF IInv

\* An error and a crash: the file that is being written counts as damaged.
LEMMA CutShortPreserves ==
    ASSUME IInv, AnalysisFails \/ WriteFails \/ Crash
    PROVE  IInv'
<1>1. /\ pc' = "idle" /\ outcome' = "error" /\ writing' = {}
      /\ disk' = disk /\ dry_run' = dry_run /\ rule' = rule /\ findings' = findings
      /\ results' = results /\ raced' = raced /\ unread' = unread
      /\ damaged' = damaged \cup writing
  <2>1. CASE AnalysisFails
    BY <2>1 DEF AnalysisFails, IInv, TypeOK, local, history
  <2>2. CASE WriteFails
    BY <2>2 DEF WriteFails, local
  <2>3. CASE Crash
    BY <2>3 DEF Crash, local
  <2>4. QED
    BY <2>1, <2>2, <2>3
<1>2. ~ Repairing' /\ \A f : Final(f)' = disk[f]
  BY <1>1 DEF Repairing, Final
<1>3. TypeOK'
  BY <1>1, <1>2 DEF IInv, TypeOK
<1>4. Decided'
  BY <1>1 DEF IInv, Decided
<1>5. TextsAreProper' /\ TextsAreIntact'
  BY <1>1, <1>2 DEF IInv, TextsAreProper, TextsAreIntact
<1>6. FoundInPlace' /\ TextsAreAsReported' /\ NothingIsUnfound'
  BY <1>1, <1>2 DEF FoundInPlace, TextsAreAsReported, NothingIsUnfound
<1>7. QED
  BY <1>3, <1>4, <1>5, <1>6 DEF IInv

LEMMA DonePreserves ==
    ASSUME IInv, Done
    PROVE  IInv'
<1>1. /\ pc = "write" /\ new_contents = NoFunction /\ pc' = "idle" /\ outcome' = "ok"
      /\ disk' = disk /\ dry_run' = dry_run /\ rule' = rule /\ findings' = findings
      /\ results' = results /\ writing' = writing /\ raced' = raced /\ unread' = unread
      /\ damaged' = damaged
  BY DEF Done, local, history
<1>2. ~ Repairing' /\ \A f : Final(f)' = disk[f]
  BY <1>1 DEF Repairing, Final
<1>3. Repairing /\ \A f : Final(f) = disk[f]
  BY <1>1 DEF Repairing, Final, NoFunction
<1>4. TypeOK'
  BY <1>1, <1>2 DEF IInv, TypeOK
<1>5. Decided'
  BY <1>1 DEF IInv, Decided
<1>6. TextsAreProper' /\ TextsAreIntact'
  BY <1>1, <1>2, <1>3 DEF IInv, TextsAreProper, TextsAreIntact
<1>7. FoundInPlace'
  BY <1>1 DEF FoundInPlace
<1>8. TextsAreAsReported' /\ NothingIsUnfound'
  BY <1>1, <1>2, <1>3 DEF IInv, TextsAreAsReported, NothingIsUnfound
<1>9. QED
  BY <1>4, <1>5, <1>6, <1>7, <1>8 DEF IInv

\* Truncating a file leaves what it is to become, and the others alone.
LEMMA TruncatePreserves ==
    ASSUME IInv, NEW f \in Files, Truncate(f)
    PROVE  IInv'
<1>1. /\ pc = "write" /\ f \in DOMAIN new_contents /\ disk' = [disk EXCEPT ![f] = <<>>]
      /\ writing' = {f} /\ pc' = "fill" /\ dry_run' = dry_run /\ rule' = rule
      /\ findings' = findings /\ results' = results /\ new_contents' = new_contents
      /\ outcome' = outcome /\ raced' = raced /\ unread' = unread /\ damaged' = damaged
  BY DEF Truncate, local, history
<1>2. /\ Repairing /\ Repairing' /\ outcome # "ok" /\ writing = {}
      /\ disk = [g \in Files |-> disk[g]]
  BY <1>1 DEF Repairing, IInv, TypeOK
<1>3. /\ disk' = [g \in Files |-> disk'[g]]
      /\ disk'[f] = <<>> /\ \A g \in Files \ {f} : disk'[g] = disk[g]
  BY <1>1, <1>2
<1>4. \A g \in Files : Final(g)' = Final(g)
  BY <1>1, <1>2, <1>3 DEF Final
<1>5. TypeOK'
  BY <1>1, <1>2, <1>3 DEF IInv, TypeOK
<1>6. Decided'
  BY <1>1 DEF IInv, Decided
<1>7. FoundInPlace'
  BY <1>1 DEF FoundInPlace
<1>8. TextsAreProper'
  <2>1. \A g \in Files : disk'[g] \in Seq(Lines(g)) /\ Final(g)' \in Seq(Lines(g))
    BY <1>3, <1>4, EmptyIsProper DEF IInv, TextsAreProper, Proper
  <2>2. \A g \in Files \ raced : Proper(g, disk'[g]) /\ Proper(g, Final(g)')
    BY <1>3, <1>4, EmptyIsProper DEF IInv, TextsAreProper
  <2>3. QED
    BY <1>1, <2>1, <2>2 DEF TextsAreProper
<1>9. TextsAreIntact'
  BY <1>1, <1>2, <1>3, <1>4 DEF IInv, TextsAreIntact
<1>10. TextsAreAsReported'
  BY <1>1, <1>2, <1>4 DEF IInv, TextsAreAsReported
<1>11. NothingIsUnfound'
  BY <1>1, <1>2, <1>3, <1>4, EmptyIsProper DEF IInv, NothingIsUnfound
<1>12. QED
  BY <1>5, <1>6, <1>7, <1>8, <1>9, <1>10, <1>11 DEF IInv

LEMMA FillPreserves ==
    ASSUME IInv, NEW f \in Files, Fill(f)
    PROVE  IInv'
<1>1. /\ pc = "fill" /\ f \in writing /\ disk' = [disk EXCEPT ![f] = new_contents[f]]
      /\ new_contents' = [g \in DOMAIN new_contents \ {f} |-> new_contents[g]]
      /\ writing' = {} /\ pc' = "write" /\ dry_run' = dry_run /\ rule' = rule
      /\ findings' = findings /\ results' = results
      /\ outcome' = outcome /\ raced' = raced /\ unread' = unread /\ damaged' = damaged
  BY DEF Fill, history
<1>2. /\ Repairing /\ Repairing' /\ outcome # "ok" /\ writing = {f} /\ f \in DOMAIN new_contents
      /\ disk = [g \in Files |-> disk[g]]
  BY <1>1 DEF Repairing, IInv, TypeOK
<1>3. /\ disk' = [g \in Files |-> disk'[g]]
      /\ disk'[f] = new_contents[f] /\ \A g \in Files \ {f} : disk'[g] = disk[g]
  BY <1>1, <1>2
<1>4. \A g \in Files : Final(g)' = Final(g)
  BY <1>1, <1>2, <1>3 DEF Final
<1>5. disk'[f] = Final(f)
  BY <1>2, <1>3 DEF Final
<1>6. TypeOK'
  BY <1>1, <1>2, <1>3 DEF IInv, TypeOK
<1>7. Decided'
  BY <1>1 DEF IInv, Decided
<1>8. FoundInPlace'
  BY <1>1 DEF FoundInPlace
<1>9. TextsAreProper'
  BY <1>1, <1>3, <1>4, <1>5 DEF IInv, TextsAreProper
<1>10. TextsAreIntact'
  BY <1>1, <1>2, <1>3, <1>4, <1>5 DEF IInv, TextsAreIntact
<1>11. TextsAreAsReported'
  BY <1>1, <1>2, <1>4 DEF IInv, TextsAreAsReported
<1>12. NothingIsUnfound'
  BY <1>1, <1>2, <1>3, <1>4, <1>5 DEF IInv, NothingIsUnfound
<1>13. QED
  BY <1>6, <1>7, <1>8, <1>9, <1>10, <1>11, <1>12 DEF IInv

\* What the analyses find, they find in place.
LEMMA AnalysePreserves ==
    ASSUME IInv, Analyse
    PROVE  IInv'
<1>1. /\ pc = "analyse"
      /\ findings' = [s \in {t \in Dead : rule \in {AnyRule, RuleOf[t]}} |->
                         FindingOf(s, Positions(disk[SymbolFile[s]], s))]
      /\ results' = orchestrate_fixes(findings', dry_run)
      /\ IF collect_fixable(findings') = {} \/ dry_run
         THEN pc' = "idle" /\ outcome' = "ok"
         ELSE pc' = "read" /\ outcome' = outcome
      /\ disk' = disk /\ dry_run' = dry_run /\ rule' = rule /\ writing' = writing
      /\ raced' = raced /\ unread' = unread /\ damaged' = damaged
  BY DEF Analyse, history
<1>2. /\ ~ Repairing /\ ~ Repairing' /\ outcome # "ok" /\ writing = {} /\ dry_run \in BOOLEAN
      /\ \A f : Final(f) = disk[f] /\ Final(f)' = disk[f]
  BY <1>1 DEF Repairing, IInv, TypeOK, Final
<1>3. \A f \in Files : disk[f] \in Seq(Lines(f)) /\ (f \notin raced => Proper(f, disk[f]))
  BY DEF IInv, TextsAreProper
<1>4. DOMAIN findings' \subseteq Symbols /\ \A s \in DOMAIN findings' : Detected(disk[SymbolFile[s]], s)
  BY <1>1 DEF Dead
<1>5. ASSUME NEW s \in DOMAIN findings'
      PROVE  \E m, n \in Nat : /\ Block(disk[SymbolFile[s]], s, m, n)
                               /\ findings'[s] = FindingOf(s, m..n)
                               /\ TheEdit(findings'[s]).start_line = m
                               /\ TheEdit(findings'[s]).end_line = n
  <2>1. s \in Symbols /\ SymbolFile[s] \in Files /\ Detected(disk[SymbolFile[s]], s)
    BY <1>4, SymbolsHaveLines
  <2>2. disk[SymbolFile[s]] \in Seq(Lines(SymbolFile[s]))
    BY <1>3, <2>1
  <2>3. PICK m \in Nat, n \in Nat : Block(disk[SymbolFile[s]], s, m, n)
    BY <2>1, <2>2, DetectedIsBlock
  <2>4. findings'[s] = FindingOf(s, m..n)
    BY <1>1, <2>3 DEF Block
  <2>5. Min(m..n) = m /\ Max(m..n) = n
    BY <2>3, Ends DEF Block
  <2>6. TheEdit(findings'[s]).start_line = m /\ TheEdit(findings'[s]).end_line = n
    BY <2>4, <2>5 DEF FindingOf, TheEdit
  <2>7. QED
    BY <2>3, <2>4, <2>6
<1>6. Found(findings')
  BY <1>4, <1>5 DEF Found, Block
<1>7. \A f : FoundIn(findings', disk[f], f) /\ Fits(findings', disk[f], f)
  BY <1>5 DEF FoundIn, Fits, Block
<1>8. DOMAIN results' = DOMAIN findings'
  BY <1>1, <1>2, <1>6, Decisions
<1>9. Decided'
  <2>1. ASSUME ~ dry_run, NEW s \in DOMAIN results', ~ results'[s].applied
        PROVE  OverlapsSkipped(results', s)
    <3>1. results' = orchestrate_fixes(findings', FALSE)
      BY <1>1, <1>2, <2>1
    <3>2. PICK f \in Files : SymbolFile[s] = f
      BY <1>4, <1>8, SymbolsHaveLines
    <3>3. PICK text \in Seq(Lines(f)) : text = disk[f]
      BY <1>3
    <3>4. FoundIn(findings', text, f) /\ s \in DOMAIN findings'
      BY <1>7, <1>8, <3>3
    <3>5. QED
      BY <1>6, <2>1, <3>1, <3>2, <3>4, SkippedOverlaps
  <2>2. QED
    BY <1>1, <1>6, <2>1 DEF Decided
<1>10. ASSUME NEW f \in Files \ raced
       PROVE  NoneUnfound(results', f, disk[f]) \/ rule # AnyRule
  <2>1. ASSUME rule = AnyRule, NEW s \in Symbols \ DOMAIN results', SymbolFile[s] = f,
               SymbolLines[s] \subseteq ToSet(disk[f])
        PROVE  FALSE
    <3>1. Detected(disk[f], s)
      BY <1>3, <2>1, PresentIsDetected DEF Proper
    <3>2. s \in Dead
      BY <2>1, <3>1 DEF Dead
    <3>3. s \in DOMAIN findings'
      BY <1>1, <2>1, <3>2
    <3>4. QED
      BY <1>8, <2>1, <3>3
  <2>2. QED
    BY <2>1 DEF NoneUnfound
<1>11. ASSUME NEW f \in Files \ raced, outcome' = "ok"
       PROVE  AsReported(results', f, disk[f])
  <2>1. dry_run \/ DOMAIN findings' = {}
    <3>1. collect_fixable(findings') = {} \/ dry_run
      BY <1>1, <1>2, <1>11
    <3>2. collect_fixable(findings') = DOMAIN findings'
      <4>1. \A s \in DOMAIN findings' : Fixable(findings'[s]) = {1}
        BY <1>6, OneEditEach
      <4>2. QED
        BY <4>1 DEF collect_fixable
    <3>3. QED
      BY <3>1, <3>2
  <2>2. AppliedEdits(results', f) = {}
    <3>1. AppliedIn(results', f) = {}
      BY <1>1, <1>2, <1>6, <1>8, <2>1, Decisions DEF AppliedIn
    <3>2. AppliedEdits(results', f) = {TheEdit(findings'[s]) : s \in AppliedIn(results', f)}
      BY <1>1, <1>2, <1>6, AppliedEditsAre
    <3>3. QED
      BY <3>1, <3>2
  <2>3. QED
    BY <1>1, <1>2, <1>3, <1>6, <1>7, <2>2, RepairIsSound
<1>12. TypeOK'
  BY <1>1, <1>2 DEF IInv, TypeOK
<1>13. FoundInPlace'
  BY <1>1, <1>7 DEF FoundInPlace
<1>14. TextsAreProper' /\ TextsAreIntact'
  BY <1>1, <1>2 DEF IInv, TextsAreProper, TextsAreIntact
<1>15. TextsAreAsReported'
  BY <1>1, <1>2, <1>11 DEF TextsAreAsReported
<1>16. NothingIsUnfound'
  BY <1>1, <1>2, <1>10 DEF NothingIsUnfound
<1>17. QED
  BY <1>9, <1>12, <1>13, <1>14, <1>15, <1>16 DEF IInv

\* The second read: what is in place is repaired, what is not stays as it is.
LEMMA ReadBackPreserves ==
    ASSUME IInv, ReadBack
    PROVE  IInv'
<1> DEFINE touched == {SymbolFile[s] : s \in DOMAIN findings}
           read == touched \ unread'
           edited(f) == apply_edits_to_content(disk[f], AppliedEdits(results, f))
<1>1. /\ pc = "read" /\ pc' = "write"
      /\ new_contents' = apply_fixes_to_files([f \in read |-> disk[f]], results)
      /\ disk' = disk /\ dry_run' = dry_run /\ rule' = rule /\ findings' = findings
      /\ results' = results /\ writing' = writing /\ outcome' = outcome
      /\ raced' = raced /\ damaged' = damaged
      /\ unread' \subseteq touched
  BY DEF ReadBack
<1>2. /\ DOMAIN new_contents' = {f \in read : AppliedEdits(results, f) # {}}
      /\ \A f \in DOMAIN new_contents' : new_contents'[f] = edited(f)
  BY <1>1 DEF apply_fixes_to_files
<1>3. /\ ~ Repairing /\ Repairing' /\ outcome # "ok" /\ writing = {} /\ dry_run \in BOOLEAN
      /\ \A f : Final(f) = disk[f]
      /\ \A f : Final(f)' = IF f \in DOMAIN new_contents' THEN edited(f) ELSE disk[f]
  BY <1>1, <1>2 DEF Repairing, IInv, TypeOK, Final
<1> HIDE DEF edited
<1>4. /\ Found(findings) /\ results = orchestrate_fixes(findings, dry_run)
      /\ touched \subseteq Files
  BY SymbolsHaveLines DEF IInv, Decided, Found
<1>5. \A f \in Files : /\ disk[f] \in Seq(Lines(f)) /\ Fits(findings, disk[f], f)
                       /\ f \notin raced => Proper(f, disk[f]) /\ FoundIn(findings, disk[f], f)
  BY <1>1 DEF IInv, TextsAreProper, FoundInPlace
<1>6. \A f \in Files : Final(f)' \in Seq(Lines(f))
  BY <1>3, <1>4, <1>5, EditedIsText DEF edited
<1>7. ASSUME NEW f \in Files \ raced, f \notin unread'
      PROVE  /\ Proper(f, Final(f)')
             /\ Intact(f, disk[f]) => Intact(f, Final(f)')
             /\ AsReported(results, f, Final(f)')
             /\ NoneUnfound(results, f, disk[f]) => NoneUnfound(results, f, Final(f)')
  <2>1. CASE f \in DOMAIN new_contents'
    <3>1. Final(f)' = apply_edits_to_content(disk[f], AppliedEdits(results, f))
      BY <1>3, <2>1 DEF edited
    <3>2. QED
      BY <1>3, <1>4, <1>5, <3>1, RepairIsSound
  <2>2. CASE f \notin DOMAIN new_contents'
    <3>1. Final(f)' = disk[f]
      BY <1>3, <2>2
    <3>2. AppliedEdits(results, f) = {}
      <4>1. CASE f \in touched
        BY <1>2, <1>7, <2>2, <4>1
      <4>2. CASE f \notin touched
        <5>1. AppliedIn(results, f) = {}
          BY <1>3, <1>4, <4>2, Decisions DEF AppliedIn
        <5>2. AppliedEdits(results, f) = {TheEdit(findings[s]) : s \in AppliedIn(results, f)}
          BY <1>3, <1>4, AppliedEditsAre
        <5>3. QED
          BY <5>1, <5>2
      <4>3. QED
        BY <4>1, <4>2
    <3>3. QED
      BY <1>3, <1>4, <1>5, <3>1, <3>2, RepairIsSound
  <2>3. QED
    BY <2>1, <2>2
<1>8. ASSUME NEW f \in Files, f \in unread'
      PROVE  Final(f)' = disk[f]
  BY <1>2, <1>3, <1>8
<1>9. TypeOK'
  BY <1>1, <1>2, <1>3, <1>4 DEF IInv, TypeOK
<1>10. Decided'
  BY <1>1 DEF IInv, Decided
<1>11. FoundInPlace'
  BY <1>1 DEF FoundInPlace
<1>12. TextsAreProper'
  BY <1>1, <1>5, <1>6, <1>7, <1>8 DEF TextsAreProper
<1>13. TextsAreIntact'
  BY <1>1, <1>3, <1>7, <1>8 DEF IInv, TextsAreIntact
<1>14. TextsAreAsReported'
  BY <1>1, <1>7 DEF TextsAreAsReported
<1>15. NothingIsUnfound'
  BY <1>1, <1>3, <1>7, <1>8 DEF IInv, NothingIsUnfound
<1>16. QED
  BY <1>9, <1>10, <1>11, <1>12, <1>13, <1>14, <1>15 DEF IInv

\* The editor: a file it saves between the analysis and the end of a run is raced.
LEMMA EditorPreserves ==
    ASSUME IInv, NEW f \in Files, NEW line \in EditorLines, EditorSaves(f, line)
    PROVE  IInv'
<1>1. /\ line \notin ToSet(disk[f]) /\ f \notin writing
      /\ disk' = [disk EXCEPT ![f] = <<line>> \o @]
      /\ raced' = IF pc \in {"idle", "analyse"} THEN raced ELSE raced \cup {f}
      /\ pc' = pc /\ dry_run' = dry_run /\ rule' = rule /\ findings' = findings
      /\ results' = results /\ new_contents' = new_contents
      /\ writing' = writing /\ outcome' = outcome /\ unread' = unread /\ damaged' = damaged
  BY DEF EditorSaves, local
<1> DEFINE new == <<line>> \o disk[f]
<1>2. /\ disk = [g \in Files |-> disk[g]] /\ dry_run \in BOOLEAN
      /\ Repairing' <=> Repairing
      /\ pc \in {"idle", "analyse", "read", "write", "fill"}
      /\ outcome = "ok" => pc = "idle"
  BY <1>1 DEF IInv, TypeOK, Repairing
<1>3. /\ disk' = [g \in Files |-> disk'[g]]
      /\ disk'[f] = new /\ \A g \in Files \ {f} : disk'[g] = disk[g]
  BY <1>1, <1>2
<1>4. /\ \A g \in Files \ {f} : Final(g)' = Final(g)
      /\ Final(f)' = IF Repairing /\ f \in DOMAIN new_contents THEN Final(f) ELSE new
      /\ ~ (Repairing /\ f \in DOMAIN new_contents) => Final(f) = disk[f]
  BY <1>1, <1>2, <1>3 DEF Final
<1>5. /\ disk[f] \in Seq(Lines(f)) /\ Final(f) \in Seq(Lines(f))
      /\ Found(findings) /\ results = orchestrate_fixes(findings, dry_run)
  BY DEF IInv, TextsAreProper, Decided
<1>6. /\ new \in Seq(Lines(f)) /\ Len(disk[f]) \in Nat /\ Len(new) = Len(disk[f]) + 1
  <2>1. line \in Lines(f)
    BY DEF Lines
  <2>2. QED
    BY <1>5, <2>1
<1>7. DOMAIN results \subseteq Symbols
  BY <1>2, <1>5, Decisions DEF Found
<1> HIDE DEF new
<1>8. f \notin raced' => /\ ~ Repairing /\ pc # "read" /\ f \notin raced /\ raced' = raced
  BY <1>1, <1>2 DEF Repairing
<1>9. ASSUME f \notin raced'
      PROVE  /\ Final(f)' = new /\ Final(f) = disk[f] /\ Proper(f, disk[f])
             /\ Proper(f, new)
             /\ Intact(f, disk[f]) => Intact(f, new)
             /\ AsReported(results, f, disk[f]) => AsReported(results, f, new)
             /\ NoneUnfound(results, f, disk[f]) => NoneUnfound(results, f, new)
  <2>1. Final(f)' = new /\ Final(f) = disk[f]
    BY <1>4, <1>8, <1>9
  <2>2. Proper(f, disk[f])
    BY <1>8, <1>9 DEF IInv, TextsAreProper
  <2>3. QED
    BY <1>1, <1>7, <2>1, <2>2, SavingIsSound DEF new
<1>10. \A g \in Files \ {f} : g \in raced' <=> g \in raced
  BY <1>1
<1>11. TypeOK'
  BY <1>1, <1>2, <1>3 DEF IInv, TypeOK
<1>12. Decided'
  <2>1. raced \subseteq raced'
    BY <1>1
  <2>2. QED
    BY <1>1, <2>1 DEF IInv, Decided
<1>13. FoundInPlace'
  <2>1. ASSUME pc = "read", NEW g \in Files
        PROVE  /\ Fits(findings, disk'[g], g)
               /\ g \notin raced' => FoundIn(findings, disk'[g], g)
    <3>1. CASE g = f
      <4>1. Fits(findings, disk[f], f) /\ f \in raced'
        BY <1>8, <2>1 DEF IInv, FoundInPlace
      <4>2. \A s \in DOMAIN findings : TheEdit(findings[s]).end_line \in Nat
        BY <1>5, OneEditEach
      <4>3. Fits(findings, new, f)
        BY <1>6, <4>1, <4>2 DEF Fits
      <4>4. QED
        BY <1>3, <3>1, <4>1, <4>3
    <3>2. CASE g # f
      BY <1>3, <1>10, <2>1, <3>2 DEF IInv, FoundInPlace
    <3>3. QED
      BY <3>1, <3>2
  <2>2. QED
    BY <1>1, <2>1 DEF FoundInPlace
<1>14. TextsAreProper'
  <2>1. ASSUME NEW g \in Files
        PROVE  /\ disk'[g] \in Seq(Lines(g)) /\ Final(g)' \in Seq(Lines(g))
               /\ g \notin raced' => Proper(g, disk'[g]) /\ Proper(g, Final(g)')
    <3>1. CASE g = f
      BY <1>3, <1>4, <1>5, <1>6, <1>9, <3>1
    <3>2. CASE g # f
      BY <1>3, <1>4, <1>10, <3>2 DEF IInv, TextsAreProper
    <3>3. QED
      BY <3>1, <3>2
  <2>2. QED
    BY <2>1 DEF TextsAreProper
<1>15. TextsAreIntact'
  <2>1. ASSUME NEW g \in Files \ (raced' \cup damaged)
        PROVE  /\ g \notin writing => Intact(g, disk'[g])
               /\ Intact(g, Final(g)')
    <3>1. CASE g = f
      <4>1. Intact(f, disk[f])
        BY <1>1, <1>8, <2>1, <3>1 DEF IInv, TextsAreIntact
      <4>2. QED
        BY <1>3, <1>9, <2>1, <3>1, <4>1
    <3>2. CASE g # f
      BY <1>3, <1>4, <1>10, <2>1, <3>2 DEF IInv, TextsAreIntact
    <3>3. QED
      BY <3>1, <3>2
  <2>2. QED
    BY <1>1, <2>1 DEF TextsAreIntact
<1>16. TextsAreAsReported'
  <2>1. ASSUME Repairing \/ outcome = "ok", NEW g \in Files \ (raced' \cup unread)
        PROVE  AsReported(results, g, Final(g)')
    <3>1. CASE g = f
      <4>1. AsReported(results, f, Final(f))
        BY <1>8, <2>1, <3>1 DEF IInv, TextsAreAsReported
      <4>2. QED
        BY <1>9, <2>1, <3>1, <4>1
    <3>2. CASE g # f
      BY <1>4, <1>10, <2>1, <3>2 DEF IInv, TextsAreAsReported
    <3>3. QED
      BY <3>1, <3>2
  <2>2. QED
    BY <1>1, <1>2, <2>1 DEF TextsAreAsReported
<1>17. NothingIsUnfound'
  <2>1. ASSUME pc = "read" \/ Repairing \/ outcome = "ok", rule = AnyRule, NEW g \in Files \ raced'
        PROVE  NoneUnfound(results, g, disk'[g]) /\ NoneUnfound(results, g, Final(g)')
    <3>1. CASE g = f
      <4>1. NoneUnfound(results, f, disk[f])
        BY <1>8, <2>1, <3>1 DEF IInv, NothingIsUnfound
      <4>2. QED
        BY <1>3, <1>9, <2>1, <3>1, <4>1
    <3>2. CASE g # f
      BY <1>3, <1>4, <1>10, <2>1, <3>2 DEF IInv, NothingIsUnfound
    <3>3. QED
      BY <3>1, <3>2
  <2>2. QED
    BY <1>1, <1>2, <2>1 DEF NothingIsUnfound
<1>18. QED
  BY <1>11, <1>12, <1>13, <1>14, <1>15, <1>16, <1>17 DEF IInv

LEMMA StutteringPreserves ==
    ASSUME IInv, UNCHANGED vars
    PROVE  IInv'
BY DEF vars, local, history, IInv, TypeOK, Decided, FoundInPlace, TextsAreProper, TextsAreIntact,
       TextsAreAsReported, NothingIsUnfound, Final, Repairing

\* The invariant holds whatever runs, editors and faults there are.
THEOREM InvariantHolds == Spec => []IInv
<1>1. Init => IInv
  BY InitSatisfies
<1>2. IInv /\ [Next]_vars => IInv'
  <2> SUFFICES ASSUME IInv, [Next]_vars
               PROVE  IInv'
    OBVIOUS
  <2>1. ASSUME NEW dry \in BOOLEAN, NEW filter \in RuleFilters, Start(dry, filter)
        PROVE  IInv'
    BY <2>1, StartPreserves
  <2>2. CASE Analyse
    BY <2>2, AnalysePreserves
  <2>3. CASE ReadBack
    BY <2>3, ReadBackPreserves
  <2>4. CASE Done
    BY <2>4, DonePreserves
  <2>5. CASE AnalysisFails \/ WriteFails \/ Crash
    BY <2>5, CutShortPreserves
  <2>6. ASSUME NEW f \in Files, Truncate(f)
        PROVE  IInv'
    BY <2>6, TruncatePreserves
  <2>7. ASSUME NEW f \in Files, Fill(f)
        PROVE  IInv'
    BY <2>7, FillPreserves
  <2>8. ASSUME NEW f \in Files, NEW line \in EditorLines, EditorSaves(f, line)
        PROVE  IInv'
    BY <2>8, EditorPreserves
  <2>9. CASE UNCHANGED vars
    BY <2>9, StutteringPreserves
  <2>10. QED
    BY <2>1, <2>2, <2>3, <2>4, <2>5, <2>6, <2>7, <2>8, <2>9 DEF Next
<1>3. QED
  BY <1>1, <1>2, PTL DEF Spec

\* No line outside the dead symbols is ever deleted from a file that the editor
\* did not race with and no run was cut short in writing.
THEOREM InnocentLinesAreKept == Spec => []InnocentLinesSurvive
<1>1. IInv => InnocentLinesSurvive
  BY DEF IInv, TextsAreIntact, Intact, InnocentLinesSurvive
<1>2. QED
  BY <1>1, InvariantHolds, PTL

\* A line of a symbol is missing only when a symbol it belongs to is gone whole.
THEOREM SymbolsAreDeletedWhole == Spec => []SymbolsGoWhole
<1>1. IInv => SymbolsGoWhole
  BY SymbolsHaveLines DEF IInv, TextsAreIntact, Intact, SymbolsGoWhole
<1>2. QED
  BY <1>1, InvariantHolds, PTL

\* After success, what is called applied is gone and what is called skipped is there.
THEOREM SuccessIsTruthful == Spec => []ReportIsTruthful
<1>1. ASSUME IInv, outcome = "ok", NEW s \in DOMAIN results, SymbolFile[s] \notin raced \cup unread
      PROVE  IF results[s].applied THEN SymbolLines[s] \cap ToSet(disk[SymbolFile[s]]) = {}
             ELSE SymbolLines[s] \cap ToSet(disk[SymbolFile[s]]) = SymbolLines[s]
  <2>1. DOMAIN results \subseteq Symbols /\ pc = "idle"
    BY <1>1, Decisions DEF IInv, TypeOK, Decided, Found
  <2>2. SymbolFile[s] \in Files /\ Final(SymbolFile[s]) = disk[SymbolFile[s]]
    BY <1>1, <2>1, SymbolsHaveLines DEF Final, Repairing
  <2>3. AsReported(results, SymbolFile[s], disk[SymbolFile[s]])
    BY <1>1, <2>2 DEF IInv, TextsAreAsReported
  <2>4. QED
    BY <1>1, <2>3 DEF AsReported
<1>2. IInv => ReportIsTruthful
  BY <1>1 DEF ReportIsTruthful
<1>3. QED
  BY <1>2, InvariantHolds, PTL

\* After a successful unfiltered run a dead symbol is left only if it overlaps
\* another that is left: a second run has nothing to apply.
THEOREM OneRunSuffices == Spec => []OneRunIsEnough
<1>1. ASSUME IInv, outcome = "ok", ~ dry_run, rule = AnyRule, raced \cup unread = {}, NEW s \in Dead
      PROVE  \E t \in Dead \ {s} :
                 SymbolFile[t] = SymbolFile[s] /\ SymbolLines[s] \cap SymbolLines[t] # {}
  <2>1. DOMAIN results \subseteq Symbols /\ pc = "idle" /\ s \in Symbols
    BY <1>1, Decisions DEF IInv, TypeOK, Decided, Found, Dead
  <2>2. \A f \in Files : Final(f) = disk[f]
    BY <2>1 DEF Final, Repairing
  <2>3. \A f \in Files : /\ AsReported(results, f, disk[f])
                         /\ NoneUnfound(results, f, disk[f])
                         /\ Proper(f, disk[f])
    BY <1>1, <2>2 DEF IInv, TextsAreAsReported, NothingIsUnfound, TextsAreProper
  <2>4. SymbolFile[s] \in Files /\ SymbolLines[s] # {}
    BY <2>1, SymbolsHaveLines
  <2>5. SymbolLines[s] \subseteq ToSet(disk[SymbolFile[s]])
    BY <1>1 DEF Dead, Detected, Positions, ToSet
  <2>6. s \in DOMAIN results
    BY <2>1, <2>3, <2>4, <2>5 DEF NoneUnfound
  <2>7. ~ results[s].applied
    BY <2>3, <2>4, <2>5, <2>6 DEF AsReported
  <2>8. PICK t \in DOMAIN results \ {s} : /\ SymbolFile[t] = SymbolFile[s] /\ ~ results[t].applied
                                          /\ SymbolLines[s] \cap SymbolLines[t] # {}
    BY <1>1, <2>6, <2>7 DEF IInv, Decided, OverlapsSkipped
  <2>9. SymbolLines[t] \subseteq ToSet(disk[SymbolFile[t]])
    BY <2>3, <2>4, <2>8 DEF AsReported
  <2>10. Detected(disk[SymbolFile[t]], t)
    BY <2>1, <2>3, <2>4, <2>8, <2>9, PresentIsDetected DEF Proper
  <2>11. QED
    BY <2>1, <2>8, <2>10 DEF Dead
<1>2. IInv => OneRunIsEnough
  BY <1>1 DEF OneRunIsEnough
<1>3. QED
  BY <1>2, InvariantHolds, PTL
=============================================================================
