--------------------------- MODULE FixEngineProofs ---------------------------
(* Proofs about FixEngine, for every list of findings. *)
EXTENDS FixEngine, FiniteSetTheorems, SequenceTheorems, WellFoundedInduction, TLAPS

\* Two edits overlap exactly when they share a line of the same file.
LEMMA OverlapIsASharedLine ==
    ASSUME NEW a, NEW b,
           a.start_line \in Int, a.end_line \in Int, a.start_line <= a.end_line,
           b.start_line \in Int, b.end_line \in Int, b.start_line <= b.end_line
    PROVE  edits_overlap(a, b) <=>
               /\ a.file = b.file
               /\ \E line \in Int : /\ line \in a.start_line..a.end_line
                                    /\ line \in b.start_line..b.end_line
<1>1. ASSUME edits_overlap(a, b)
      PROVE  \E line \in Int : /\ line \in a.start_line..a.end_line
                               /\ line \in b.start_line..b.end_line
  <2>1. CASE a.start_line <= b.start_line
    BY <1>1, <2>1 DEF edits_overlap
  <2>2. CASE b.start_line <= a.start_line
    BY <1>1, <2>2 DEF edits_overlap
  <2>3. QED
    BY <2>1, <2>2
<1>2. ASSUME a.file = b.file,
             NEW line \in Int, line \in a.start_line..a.end_line,
             line \in b.start_line..b.end_line
      PROVE  edits_overlap(a, b)
  BY <1>2 DEF edits_overlap
<1>3. QED
  BY <1>1, <1>2 DEF edits_overlap

\* A non-empty set of natural numbers has a least element.
LEMMA NatHasMinimum ==
    ASSUME NEW S, S \subseteq Nat, S # {}
    PROVE  \E c \in S : \A b \in S : c <= b
<1> DEFINE less == OpToRel(<, Nat)
<1>1. IsWellFoundedOn(less, Nat)
  BY NatLessThanWellFounded
<1>2. \A x, y \in Nat : x < y => <<x, y>> \in less
  BY DEF OpToRel
<1> HIDE DEF less
<1>3. PICK c \in S : \A b \in S : ~ (<<b, c>> \in less)
  BY <1>1, WFMin
<1>4. \A b \in S : ~ (b < c)
  BY <1>2, <1>3, Zenon
<1>5. c \in Nat /\ \A b \in S : b \in Nat
  OBVIOUS
<1>6. \A b \in S : c <= b
  BY <1>4, <1>5, SMT
<1>7. QED
  BY <1>6

\* The first fixable action of a finding is one of those that are planned.
LEMMA FirstFixableIsPlanned ==
    ASSUME NEW findings, NEW i \in DOMAIN findings,
           Fixable(findings[i]) \subseteq Nat, Fixable(findings[i]) # {},
           NEW k \in DOMAIN FirstFixable(findings[i]).edits
    PROVE  \E a \in Fixable(findings[i]) :
               /\ <<i, a, k>> \in plan_edits(findings)
               /\ PlannedEdit(findings, <<i, a, k>>) = FirstFixable(findings[i]).edits[k]
<1> DEFINE S == Fixable(findings[i])
           a == CHOOSE c \in S : \A b \in S : c <= b
<1>1. a \in S
  BY NatHasMinimum
<1>2. FirstFixable(findings[i]) = findings[i].actions[a]
  BY DEF FirstFixable
<1> HIDE DEF a
<1>3. <<i, a, k>> \in plan_edits(findings)
  BY <1>1, <1>2 DEF plan_edits
<1>4. QED
  BY <1>1, <1>2, <1>3 DEF PlannedEdit

\* A list of findings whose actions are numbered and whose edits have ranges.
WellFormed(findings) ==
    \A i \in DOMAIN findings :
        /\ Fixable(findings[i]) \subseteq Nat
        /\ \A a \in Fixable(findings[i]) : \A k \in DOMAIN findings[i].actions[a].edits :
              LET e == findings[i].actions[a].edits[k]
              IN  e.start_line \in Int /\ e.end_line \in Int /\ e.start_line <= e.end_line

\* What is applied never overlaps: two findings reported as applied share no
\* line of any file, however many findings, actions and edits there are.
THEOREM AppliedFindingsShareNoLine ==
    ASSUME NEW findings, WellFormed(findings), NEW dry_run,
           NEW i \in DOMAIN findings, NEW j \in DOMAIN findings, i # j,
           orchestrate_fixes(findings, dry_run)[i].applied = TRUE,
           orchestrate_fixes(findings, dry_run)[j].applied = TRUE,
           NEW k \in DOMAIN orchestrate_fixes(findings, dry_run)[i].edits,
           NEW l \in DOMAIN orchestrate_fixes(findings, dry_run)[j].edits,
           NEW line \in Int
    PROVE  LET d == orchestrate_fixes(findings, dry_run)[i].edits[k]
               e == orchestrate_fixes(findings, dry_run)[j].edits[l]
           IN  ~ /\ d.file = e.file
                 /\ line \in d.start_line..d.end_line
                 /\ line \in e.start_line..e.end_line
<1> DEFINE editsOf(n) == orchestrate_fixes(findings, dry_run)[n].edits
<1>a. /\ Fixable(findings[i]) # {}
      /\ i \notin detect_conflicts(findings)
      /\ editsOf(i) = FirstFixable(findings[i]).edits
  BY DEF orchestrate_fixes, FixResult
<1>b. /\ Fixable(findings[j]) # {}
      /\ editsOf(j) = FirstFixable(findings[j]).edits
  BY DEF orchestrate_fixes, FixResult
<1>c. k \in DOMAIN editsOf(i) /\ l \in DOMAIN editsOf(j)
  OBVIOUS
<1>d. Fixable(findings[i]) \subseteq Nat /\ Fixable(findings[j]) \subseteq Nat
  BY DEF WellFormed
<1> HIDE DEF editsOf
<1>1. PICK a \in Fixable(findings[i]) :
          /\ <<i, a, k>> \in plan_edits(findings)
          /\ PlannedEdit(findings, <<i, a, k>>) = FirstFixable(findings[i]).edits[k]
  BY <1>a, <1>c, <1>d, FirstFixableIsPlanned
<1>2. PICK b \in Fixable(findings[j]) :
          /\ <<j, b, l>> \in plan_edits(findings)
          /\ PlannedEdit(findings, <<j, b, l>>) = FirstFixable(findings[j]).edits[l]
  BY <1>b, <1>c, <1>d, FirstFixableIsPlanned
<1> DEFINE x == <<i, a, k>>
           y == <<j, b, l>>
           d == PlannedEdit(findings, x)
           e == PlannedEdit(findings, y)
<1>3. ~ edits_overlap(d, e)
  <2>1. x # y /\ x[1] = i
    OBVIOUS
  <2>2. QED
    BY <1>a, <1>1, <1>2, <2>1 DEF detect_conflicts
<1>4. /\ d.start_line \in Int /\ d.end_line \in Int /\ d.start_line <= d.end_line
      /\ e.start_line \in Int /\ e.end_line \in Int /\ e.start_line <= e.end_line
  <2>1. k \in DOMAIN findings[i].actions[a].edits /\ l \in DOMAIN findings[j].actions[b].edits
    BY <1>1, <1>2 DEF plan_edits
  <2>2. QED
    BY <2>1 DEF WellFormed, PlannedEdit
<1>5. /\ d = orchestrate_fixes(findings, dry_run)[i].edits[k]
      /\ e = orchestrate_fixes(findings, dry_run)[j].edits[l]
  BY <1>a, <1>b, <1>1, <1>2 DEF editsOf
<1> HIDE DEF d, e
<1>6. ~ /\ d.file = e.file
        /\ line \in d.start_line..d.end_line
        /\ line \in e.start_line..e.end_line
  BY <1>3, <1>4, OverlapIsASharedLine
<1>7. QED
  BY <1>5, <1>6

(***************************************************************************)
(* Editing a file.                                                         *)
(***************************************************************************)

\* What the proofs need of the edits of a file: finitely many, each with a range.
Ranged(edits) ==
    /\ IsFiniteSet(edits)
    /\ \A e \in edits : /\ e.start_line \in Nat \ {0} /\ e.end_line \in Nat
                        /\ e.start_line <= e.end_line

\* The topmost edit is one of them, and none begins above it.
LEMMA TopmostIsTop ==
    ASSUME NEW edits, Ranged(edits), NEW S \in SUBSET edits, S # {}
    PROVE  /\ Topmost(S) \in S
           /\ \A d \in S : Topmost(S).start_line <= d.start_line
<1> DEFINE starts == {e.start_line : e \in S}
<1>1. starts \subseteq Nat /\ starts # {}
  BY DEF Ranged
<1>2. PICK n \in starts : \A m \in starts : n <= m
  BY <1>1, NatHasMinimum
<1>3. \E e \in S : \A d \in S : e.start_line <= d.start_line
  BY <1>2
<1>4. QED
  BY <1>3 DEF Topmost

\* Induction over the natural numbers, for a set of them.
LEMMA EveryNumberFollows ==
    ASSUME NEW S, 0 \in S, \A n \in Nat : n \in S => n + 1 \in S
    PROVE  Nat \subseteq S
<1> DEFINE others == Nat \ S
<1> SUFFICES ASSUME others # {}
             PROVE  FALSE
  OBVIOUS
<1>1. PICK c \in others : \A b \in others : c <= b
  BY NatHasMinimum
<1>2. c # 0 /\ c \in Nat
  BY <1>1
<1>3. c - 1 \in Nat /\ ~ (c <= c - 1) /\ (c - 1) + 1 = c
  BY <1>2
<1>4. c - 1 \in S
  BY <1>1, <1>3
<1>5. QED
  BY <1>1, <1>3, <1>4

\* Induction over the edits, the topmost one last.
LEMMA EveryEditFollows ==
    ASSUME NEW edits, Ranged(edits), NEW good, {} \in good,
           \A S \in SUBSET edits : S # {} /\ S \ {Topmost(S)} \in good => S \in good
    PROVE  edits \in good
<1> DEFINE small == {n \in Nat : \A S \in SUBSET edits : Cardinality(S) = n => S \in good}
<1>1. \A S \in SUBSET edits : IsFiniteSet(S) /\ Cardinality(S) \in Nat
  BY FS_Subset, FS_CardinalityType DEF Ranged
<1>2. 0 \in small
  BY <1>1, FS_EmptySet
<1>3. ASSUME NEW n \in Nat, n \in small
      PROVE  n + 1 \in small
  <2>1. ASSUME NEW S \in SUBSET edits, Cardinality(S) = n + 1
        PROVE  S \in good
    <3>1. S # {}
      BY <2>1, FS_EmptySet
    <3>2. Topmost(S) \in S
      BY <3>1, TopmostIsTop
    <3>3. Cardinality(S \ {Topmost(S)}) = n
      BY <1>1, <2>1, <3>2, FS_RemoveElement
    <3>4. S \ {Topmost(S)} \in good
      BY <1>3, <3>3
    <3>5. QED
      BY <3>1, <3>4
  <2>2. QED
    BY <2>1
<1>4. Nat \subseteq small
  BY <1>2, <1>3, EveryNumberFollows
<1>5. QED
  BY <1>1, <1>4

\* The content after the edits of a set, by the recursion of the fold.
Edited(lines, folded, S) ==
    IF S = {} THEN lines ELSE apply_edit(folded[S \ {Topmost(S)}], Topmost(S))

\* The recursion has a solution: one edit after the other.
LEMMA EditsCanBeFolded ==
    ASSUME NEW lines, NEW edits, Ranged(edits)
    PROVE  \E folded : folded = [S \in SUBSET edits |-> Edited(lines, folded, S)]
<1> DEFINE Upto(n) == \E folded : /\ folded = [S \in SUBSET edits |-> folded[S]]
                                  /\ \A S \in SUBSET edits :
                                        Cardinality(S) <= n => folded[S] = Edited(lines, folded, S)
           reached == {n \in Nat : Upto(n)}
<1>1. \A S \in SUBSET edits : IsFiniteSet(S) /\ Cardinality(S) \in Nat /\ Cardinality(S) <= Cardinality(edits)
  BY FS_Subset, FS_CardinalityType DEF Ranged
<1>2. Upto(0)
  <2> DEFINE folded == [S \in SUBSET edits |-> lines]
  <2>1. \A S \in SUBSET edits : Cardinality(S) <= 0 => S = {}
    BY <1>1, FS_EmptySet
  <2>2. \A S \in SUBSET edits : Cardinality(S) <= 0 => folded[S] = Edited(lines, folded, S)
    BY <2>1 DEF Edited
  <2>3. folded = [S \in SUBSET edits |-> folded[S]]
    OBVIOUS
  <2> HIDE DEF folded
  <2>4. QED
    BY <2>2, <2>3
<1>3. ASSUME NEW n \in Nat, Upto(n)
      PROVE  Upto(n + 1)
  <2>1. PICK folded : /\ folded = [S \in SUBSET edits |-> folded[S]]
                      /\ \A S \in SUBSET edits :
                            Cardinality(S) <= n => folded[S] = Edited(lines, folded, S)
    BY <1>3
  <2> DEFINE next == [S \in SUBSET edits |->
                         IF Cardinality(S) <= n THEN folded[S] ELSE Edited(lines, folded, S)]
  <2>2. next = [S \in SUBSET edits |-> next[S]]
    OBVIOUS
  <2>3. ASSUME NEW S \in SUBSET edits, Cardinality(S) <= n + 1
        PROVE  next[S] = Edited(lines, next, S)
    <3>1. next[S] = Edited(lines, folded, S)
      BY <2>1
    <3>2. CASE S = {}
      BY <3>1, <3>2 DEF Edited
    <3>3. CASE S # {}
      <4> DEFINE rest == S \ {Topmost(S)}
      <4>1. Topmost(S) \in S
        BY <3>3, TopmostIsTop
      <4>2. Cardinality(rest) = Cardinality(S) - 1
        BY <1>1, <4>1, FS_RemoveElement
      <4>3. rest \in SUBSET edits /\ Cardinality(rest) <= n
        BY <1>1, <2>3, <4>2
      <4>4. next[rest] = folded[rest]
        BY <4>3
      <4> HIDE DEF next, rest
      <4>5. QED
        BY <3>1, <3>3, <4>4 DEF Edited, rest
    <3>4. QED
      BY <3>2, <3>3
  <2> HIDE DEF next
  <2>4. QED
    BY <2>2, <2>3
<1> HIDE DEF Upto
<1>4. Nat \subseteq reached
  <2>1. 0 \in reached
    BY <1>2
  <2>2. \A n \in Nat : n \in reached => n + 1 \in reached
    BY <1>3
  <2> HIDE DEF reached
  <2>3. QED
    BY <2>1, <2>2, EveryNumberFollows
<1>5. Upto(Cardinality(edits))
  BY <1>1, <1>4
<1>6. PICK folded : /\ folded = [S \in SUBSET edits |-> folded[S]]
                    /\ \A S \in SUBSET edits :
                          Cardinality(S) <= Cardinality(edits) => folded[S] = Edited(lines, folded, S)
  BY <1>5 DEF Upto
<1>7. folded = [S \in SUBSET edits |-> Edited(lines, folded, S)]
  BY <1>1, <1>6
<1>8. QED
  BY <1>7

\* apply_edits_to_content is what the recursion gives for all the edits.
IsFold(lines, edits, folded) ==
    /\ apply_edits_to_content(lines, edits) = folded[edits]
    /\ \A S \in SUBSET edits : folded[S] = Edited(lines, folded, S)

LEMMA EditsAreFolded ==
    ASSUME NEW lines, NEW edits, Ranged(edits)
    PROVE  \E folded : IsFold(lines, edits, folded)
<1> DEFINE solution == CHOOSE folded : folded = [S \in SUBSET edits |-> Edited(lines, folded, S)]
<1>1. solution = [S \in SUBSET edits |-> Edited(lines, solution, S)]
  BY EditsCanBeFolded
<1>2. apply_edits_to_content(lines, edits) = solution[edits]
  BY Zenon DEF apply_edits_to_content, MapThenFoldSet, Edited
<1>3. \A S \in SUBSET edits : solution[S] = Edited(lines, solution, S)
  BY <1>1
<1>4. QED
  BY <1>2, <1>3, Zenon DEF IsFold

\* Three sequences one after the other, and a part of a sequence, by their positions.
LEMMA Spliced ==
    ASSUME NEW V, NEW p \in Seq(V), NEW q \in Seq(V), NEW s \in Seq(V)
    PROVE  /\ (p \o q) \o s \in Seq(V)
           /\ Len((p \o q) \o s) = Len(p) + Len(q) + Len(s)
           /\ \A k \in 1..Len(p) : ((p \o q) \o s)[k] = p[k]
           /\ \A k \in 1..Len(q) : ((p \o q) \o s)[Len(p) + k] = q[k]
           /\ \A k \in 1..Len(s) : ((p \o q) \o s)[Len(p) + Len(q) + k] = s[k]
OBVIOUS

LEMMA Cut ==
    ASSUME NEW V, NEW r \in Seq(V), NEW m \in 1..(Len(r) + 1), NEW n \in 0..Len(r), m <= n + 1
    PROVE  /\ SubSeq(r, m, n) \in Seq(V)
           /\ Len(SubSeq(r, m, n)) = n + 1 - m
           /\ \A k \in 1..(n + 1 - m) : SubSeq(r, m, n)[k] = r[m - 1 + k]
OBVIOUS

\* The lines above an edit, its new text and the lines below it.
Split(V, r, e, d) ==
    \E top \in Seq(V), bottom \in Seq(V) :
        /\ d = (top \o e.new_text) \o bottom
        /\ Len(top) = e.start_line - 1
        /\ Len(bottom) = Len(r) - e.end_line
        /\ \A k \in 1..Len(top) : top[k] = r[k]
        /\ \A k \in 1..Len(bottom) : bottom[k] = r[e.end_line + k]

\* One edit splits a text that way.
LEMMA EditSplits ==
    ASSUME NEW V, NEW r \in Seq(V), NEW e,
           e.start_line \in Nat \ {0}, e.end_line \in Nat,
           e.start_line <= e.end_line, e.end_line <= Len(r), e.new_text \in Seq(V)
    PROVE  Split(V, r, e, apply_edit(r, e))
<1> DEFINE top == SubSeq(r, 1, e.start_line - 1)
           bottom == SubSeq(r, e.end_line + 1, Len(r))
<1>2. /\ top \in Seq(V) /\ Len(top) = e.start_line - 1
      /\ \A k \in 1..Len(top) : top[k] = r[k]
  OBVIOUS
<1>3. /\ bottom \in Seq(V) /\ Len(bottom) = Len(r) - e.end_line
      /\ \A k \in 1..Len(bottom) : bottom[k] = r[e.end_line + k]
  <2> DEFINE m == e.end_line + 1
             n == Len(r)
  <2>1. m \in 1..(Len(r) + 1) /\ n \in 0..Len(r) /\ m <= n + 1
    OBVIOUS
  <2>2. n + 1 - m = Len(r) - e.end_line /\ \A k \in Int : m - 1 + k = e.end_line + k
    OBVIOUS
  <2> HIDE DEF m, n
  <2>3. /\ SubSeq(r, m, n) \in Seq(V)
        /\ Len(SubSeq(r, m, n)) = n + 1 - m
        /\ \A k \in 1..(n + 1 - m) : SubSeq(r, m, n)[k] = r[m - 1 + k]
    BY <2>1
  <2>4. bottom = SubSeq(r, m, n)
    BY DEF m, n
  <2>5. Len(bottom) = Len(r) - e.end_line /\ bottom \in Seq(V)
    BY <2>2, <2>3, <2>4, Zenon
  <2>6. \A k \in 1..Len(bottom) : bottom[k] = r[m - 1 + k]
    BY <2>2, <2>3, <2>4, <2>5, Zenon
  <2>7. \A k \in 1..Len(bottom) : k \in Int
    OBVIOUS
  <2>8. QED
    BY <2>2, <2>5, <2>6, <2>7, Zenon
<1>4. apply_edit(r, e) = (top \o e.new_text) \o bottom
  <2>1. ~ (e.start_line > Len(r))
    OBVIOUS
  <2>2. QED
    BY <2>1, Zenon DEF apply_edit
<1>5. QED
  BY <1>2, <1>3, <1>4, Zenon DEF Split

\* A position beyond the n-th is one of the m that follow.
LEMMA Beyond ==
    ASSUME NEW n \in Nat, NEW m \in Nat, NEW i \in Int, n < i, i <= n + m
    PROVE  \E j \in 1..m : i = n + j
<1>1. i - n \in 1..m /\ i = n + (i - n)
  OBVIOUS
<1>2. QED
  BY <1>1

\* The lines of a text after the k-th.
After(x, k) == {x[i] : i \in (k + 1)..Len(x)}

\* What follows the k-th line of an edited text, k being above the edit.
LEMMA AfterSplice ==
    ASSUME NEW V, NEW top \in Seq(V), NEW text \in Seq(V), NEW bottom \in Seq(V),
           NEW k \in 0..Len(top)
    PROVE  After((top \o text) \o bottom, k) = After(top, k) \cup ToSet(text) \cup ToSet(bottom)
<1> DEFINE y == (top \o text) \o bottom
<1>1. /\ Len(top) \in Nat /\ Len(text) \in Nat /\ Len(bottom) \in Nat
      /\ DOMAIN text = 1..Len(text) /\ DOMAIN bottom = 1..Len(bottom)
  OBVIOUS
<1>2. /\ Len(y) = Len(top) + Len(text) + Len(bottom)
      /\ \A j \in 1..Len(top) : y[j] = top[j]
      /\ \A j \in 1..Len(text) : y[Len(top) + j] = text[j]
      /\ \A j \in 1..Len(bottom) : y[Len(top) + Len(text) + j] = bottom[j]
  BY Spliced
<1> HIDE DEF y
<1>3. ASSUME NEW i \in (k + 1)..Len(y)
      PROVE  y[i] \in After(top, k) \cup ToSet(text) \cup ToSet(bottom)
  <2>1. CASE i <= Len(top)
    BY <1>2, <2>1 DEF After
  <2>2. CASE i > Len(top) /\ i <= Len(top) + Len(text)
    <3>1. i \in Int
      OBVIOUS
    <3>2. PICK j \in 1..Len(text) : i = Len(top) + j
      BY <1>1, <2>2, <3>1, Beyond
    <3>3. QED
      BY <1>1, <1>2, <3>2 DEF ToSet
  <2>3. CASE i > Len(top) + Len(text)
    <3>1. PICK n \in Nat : n = Len(top) + Len(text)
      BY <1>1
    <3>2. i > n /\ i <= n + Len(bottom)
      BY <1>1, <1>2, <2>3, <3>1
    <3>3. PICK j \in 1..Len(bottom) : i = n + j
      BY <1>1, <3>2, Beyond
    <3>4. QED
      BY <1>1, <1>2, <3>1, <3>3 DEF ToSet
  <2>4. QED
    BY <1>1, <2>1, <2>2, <2>3
<1>4. ASSUME NEW j \in (k + 1)..Len(top)
      PROVE  top[j] \in After(y, k)
  <2>1. j \in (k + 1)..Len(y) /\ y[j] = top[j]
    BY <1>1, <1>2
  <2>2. QED
    BY <2>1 DEF After
<1>5. ASSUME NEW j \in 1..Len(text)
      PROVE  text[j] \in After(y, k)
  <2>1. Len(top) + j \in (k + 1)..Len(y) /\ y[Len(top) + j] = text[j]
    BY <1>1, <1>2
  <2>2. QED
    BY <2>1 DEF After
<1>6. ASSUME NEW j \in 1..Len(bottom)
      PROVE  bottom[j] \in After(y, k)
  <2>1. Len(top) + Len(text) + j \in (k + 1)..Len(y) /\ y[Len(top) + Len(text) + j] = bottom[j]
    BY <1>1, <1>2
  <2>2. QED
    BY <2>1 DEF After
<1>7. After(y, k) \subseteq After(top, k) \cup ToSet(text) \cup ToSet(bottom)
  BY <1>3 DEF After
<1>8. After(top, k) \subseteq After(y, k)
  BY <1>4 DEF After
<1>9. ToSet(text) \subseteq After(y, k) /\ ToSet(bottom) \subseteq After(y, k)
  BY <1>1, <1>5, <1>6 DEF ToSet
<1>10. QED
  BY <1>7, <1>8, <1>9 DEF y

\* A text whose lines, two by two, are in a relation; deleting lines keeps it.
InOrder(x, R) == \A i, j \in DOMAIN x : i < j => <<x[i], x[j]>> \in R

LEMMA DeletionKeepsOrder ==
    ASSUME NEW V, NEW r \in Seq(V), NEW e, NEW R, InOrder(r, R),
           e.start_line \in Nat \ {0}, e.end_line \in Nat,
           e.start_line <= e.end_line, e.end_line <= Len(r), e.new_text = <<>>
    PROVE  InOrder(apply_edit(r, e), R)
<1>0. e.new_text \in Seq(V)
  OBVIOUS
<1>1. PICK top \in Seq(V), bottom \in Seq(V) :
          /\ apply_edit(r, e) = (top \o e.new_text) \o bottom
          /\ Len(top) = e.start_line - 1
          /\ Len(bottom) = Len(r) - e.end_line
          /\ \A k \in 1..Len(top) : top[k] = r[k]
          /\ \A k \in 1..Len(bottom) : bottom[k] = r[e.end_line + k]
  <2>1. Split(V, r, e, apply_edit(r, e))
    BY <1>0, EditSplits
  <2>2. QED
    BY <2>1, Zenon DEF Split
<1> DEFINE y == apply_edit(r, e)
<1>2. y = top \o bottom
  <2>1. top \o <<>> = top
    OBVIOUS
  <2>2. QED
    BY <1>1, <2>1, Zenon
<1> HIDE DEF y
<1>3. /\ Len(top) \in Nat /\ Len(bottom) \in Nat /\ Len(r) \in Nat
      /\ DOMAIN y = 1..(Len(top) + Len(bottom)) /\ DOMAIN r = 1..Len(r)
      /\ \A k \in 1..Len(top) : y[k] = top[k]
      /\ \A k \in 1..Len(bottom) : y[Len(top) + k] = bottom[k]
  BY <1>2
<1>n. /\ Len(bottom) = Len(r) - e.end_line /\ Len(top) = e.start_line - 1
      /\ Len(top) \in Nat /\ Len(bottom) \in Nat /\ Len(r) \in Nat
      /\ Len(top) < e.end_line
      /\ \A i \in DOMAIN y : i \in Int /\ 1 <= i /\ i <= Len(top) + Len(bottom)
  BY <1>1, <1>3
<1> DEFINE old(i) == IF i <= Len(top) THEN i ELSE e.end_line + (i - Len(top))
<1>4. ASSUME NEW i \in DOMAIN y
      PROVE  old(i) \in DOMAIN r /\ y[i] = r[old(i)]
  <2>1. CASE i <= Len(top)
    BY <1>1, <1>3, <2>1
  <2>2. CASE i > Len(top)
    <3>1. PICK k \in 1..Len(bottom) : i = Len(top) + k
      BY <1>n, <2>2, Beyond
    <3>2. y[i] = r[e.end_line + k]
      BY <1>1, <1>3, <3>1
    <3>3. old(i) = e.end_line + k
      BY <1>3, <2>2, <3>1
    <3>4. e.end_line + k \in 1..Len(r)
      BY <1>n, <3>1
    <3>5. QED
      BY <1>3, <3>2, <3>3, <3>4
  <2>3. QED
    BY <1>3, <2>1, <2>2
<1>5. ASSUME NEW i \in DOMAIN y, NEW j \in DOMAIN y, i < j
      PROVE  old(i) < old(j)
  <2>1. CASE i <= Len(top) /\ j <= Len(top)
    BY <1>n, <1>5, <2>1
  <2>2. CASE i <= Len(top) /\ ~ (j <= Len(top))
    BY <1>n, <1>5, <2>2
  <2>3. CASE ~ (i <= Len(top)) /\ ~ (j <= Len(top))
    BY <1>n, <1>5, <2>3
  <2>4. QED
    BY <1>n, <1>5, <2>1, <2>2, <2>3
<1> HIDE DEF old
<1>6. QED
  BY <1>4, <1>5 DEF InOrder, y

(***************************************************************************)
(* All the edits of a file.                                                *)
(***************************************************************************)

\* Edits within n lines no two of which share a line: what detect_conflicts
\* leaves of the edits of a file of n lines.
Separate(edits, n) ==
    /\ Ranged(edits)
    /\ \A e \in edits : e.end_line <= n
    /\ \A d, e \in edits : d # e => d.end_line < e.start_line \/ e.end_line < d.start_line

\* The positions no edit covers.
Uncovered(lines, edits) ==
    {i \in DOMAIN lines : \A e \in edits : ~ (e.start_line <= i /\ i <= e.end_line)}

\* What is to follow the k-th line, k being above every edit of S.
Left(lines, S, k) ==
    {lines[i] : i \in {j \in Uncovered(lines, S) : k < j}} \cup UNION {ToSet(e.new_text) : e \in S}

\* A text edited by S: as it was down to its topmost edit, and below as it should be.
EditedBy(lines, S, x) ==
    \A k \in 0..Len(lines) : (\A e \in S : k < e.start_line) =>
        /\ k <= Len(x)
        /\ \A i \in 1..k : x[i] = lines[i]
        /\ After(x, k) = Left(lines, S, k)

\* The next edit up, the topmost of S, leaves the text edited by S.
LEMMA OneEditMore ==
    ASSUME NEW V, NEW lines \in Seq(V), NEW edits, Separate(edits, Len(lines)),
           \A e \in edits : e.new_text \in Seq(V),
           NEW S \in SUBSET edits, S # {},
           NEW x \in Seq(V), EditedBy(lines, S \ {Topmost(S)}, x)
    PROVE  /\ Topmost(S).end_line <= Len(x)
           /\ apply_edit(x, Topmost(S)) \in Seq(V)
           /\ EditedBy(lines, S, apply_edit(x, Topmost(S)))
<1> DEFINE rest == S \ {Topmost(S)}
<1>1. /\ Topmost(S) \in S
      /\ \A d \in S : Topmost(S).start_line <= d.start_line
  BY TopmostIsTop DEF Separate
<1>2. PICK t \in S : t = Topmost(S)
  BY <1>1
<1>3. /\ t.start_line \in Nat \ {0} /\ t.end_line \in Nat /\ t.start_line <= t.end_line
      /\ t.end_line <= Len(lines) /\ t.new_text \in Seq(V)
  BY DEF Separate, Ranged
<1>4. \A e \in rest : t.end_line < e.start_line
  <2>1. \A e \in rest : /\ e \in edits /\ t \in edits /\ e # t /\ t.start_line <= e.start_line
                        /\ e.start_line \in Nat /\ e.end_line \in Nat /\ e.start_line <= e.end_line
    BY <1>1, <1>2 DEF Separate, Ranged
  <2>2. \A e \in rest : t.end_line < e.start_line \/ e.end_line < t.start_line
    BY <2>1 DEF Separate
  <2>3. QED
    BY <1>3, <2>1, <2>2
<1>5. S = rest \cup {t}
  BY <1>1, <1>2
<1>6. EditedBy(lines, rest, x)
  OBVIOUS
<1> HIDE DEF rest
<1>7. t.end_line \in 0..Len(lines)
  BY <1>3
<1>8. /\ t.end_line <= Len(x)
      /\ \A i \in 1..t.end_line : x[i] = lines[i]
      /\ After(x, t.end_line) = Left(lines, rest, t.end_line)
  BY <1>4, <1>6, <1>7 DEF EditedBy
<1>9. Split(V, x, t, apply_edit(x, t))
  BY <1>3, <1>8, EditSplits
<1>10. PICK top \in Seq(V), bottom \in Seq(V) :
          /\ apply_edit(x, t) = (top \o t.new_text) \o bottom
          /\ Len(top) = t.start_line - 1
          /\ Len(bottom) = Len(x) - t.end_line
          /\ \A k \in 1..Len(top) : top[k] = x[k]
          /\ \A k \in 1..Len(bottom) : bottom[k] = x[t.end_line + k]
  BY <1>9, Zenon DEF Split
<1> DEFINE y == (top \o t.new_text) \o bottom
<1>11. /\ y \in Seq(V)
       /\ Len(y) = Len(top) + Len(t.new_text) + Len(bottom)
       /\ \A k \in 1..Len(top) : y[k] = top[k]
  BY <1>3, Spliced
<1>12. /\ Len(top) \in Nat /\ Len(t.new_text) \in Nat /\ Len(bottom) \in Nat
       /\ Len(x) \in Nat /\ Len(lines) \in Nat
       /\ DOMAIN bottom = 1..Len(bottom) /\ DOMAIN lines = 1..Len(lines)
       /\ Len(top) < t.end_line
  BY <1>3, <1>10
<1> HIDE DEF y
<1>13. ToSet(bottom) = Left(lines, rest, t.end_line)
  <2>1. ASSUME NEW i \in (t.end_line + 1)..Len(x)
        PROVE  x[i] \in ToSet(bottom)
    <3>1. i \in Int /\ t.end_line < i /\ i <= t.end_line + Len(bottom)
      BY <1>3, <1>10, <1>12
    <3>2. PICK n \in Nat : n = t.end_line
      BY <1>3
    <3>3. PICK j \in 1..Len(bottom) : i = n + j
      BY <1>12, <3>1, <3>2, Beyond
    <3>4. QED
      BY <1>10, <1>12, <3>2, <3>3 DEF ToSet
  <2>2. ASSUME NEW j \in 1..Len(bottom)
        PROVE  bottom[j] \in After(x, t.end_line)
    <3>1. t.end_line + j \in (t.end_line + 1)..Len(x)
      BY <1>3, <1>10, <1>12
    <3>2. bottom[j] = x[t.end_line + j]
      BY <1>10
    <3>3. QED
      BY <3>1, <3>2 DEF After
  <2>3. After(x, t.end_line) \subseteq ToSet(bottom)
    BY <2>1 DEF After
  <2>4. ToSet(bottom) \subseteq After(x, t.end_line)
    BY <1>12, <2>2 DEF ToSet
  <2>5. QED
    BY <1>8, <2>3, <2>4
<1>14. ASSUME NEW k \in 0..Len(lines), \A e \in S : k < e.start_line
       PROVE  /\ k <= Len(y)
              /\ \A i \in 1..k : y[i] = lines[i]
              /\ After(y, k) = Left(lines, S, k)
  <2>1. k < t.start_line /\ k \in 0..Len(top) /\ k \in Nat
    BY <1>3, <1>10, <1>12, <1>14
  <2>2. k <= Len(y)
    BY <1>11, <1>12, <2>1
  <2>3. ASSUME NEW i \in 1..k
        PROVE  y[i] = lines[i]
    <3>1. i \in 1..Len(top) /\ i \in 1..t.end_line
      BY <1>3, <1>12, <2>1
    <3>2. QED
      BY <1>8, <1>10, <1>11, <3>1
  <2>4. After(y, k) = After(top, k) \cup ToSet(t.new_text) \cup ToSet(bottom)
    BY <1>3, <2>1, AfterSplice DEF y
  <2>5. After(top, k) = {lines[i] : i \in (k + 1)..(t.start_line - 1)}
    <3>1. \A i \in (k + 1)..(t.start_line - 1) : i \in 1..Len(top) /\ i \in 1..t.end_line
      BY <1>3, <1>10, <2>1
    <3>2. \A i \in (k + 1)..(t.start_line - 1) : top[i] = lines[i]
      BY <1>8, <1>10, <3>1
    <3>3. QED
      BY <1>10, <3>2 DEF After
  <2>6. \A i \in Uncovered(lines, S) :
            k < i => \/ i \in (k + 1)..(t.start_line - 1)
                     \/ (i \in Uncovered(lines, rest) /\ t.end_line < i)
    <3> TAKE i \in Uncovered(lines, S)
    <3>1. i \in Nat /\ ~ (t.start_line <= i /\ i <= t.end_line) /\ i \in Uncovered(lines, rest)
      BY <1>5, <1>12 DEF Uncovered
    <3>2. QED
      BY <1>3, <2>1, <3>1
  <2>7. \A i \in (k + 1)..(t.start_line - 1) : i \in Uncovered(lines, S) /\ k < i
    <3> TAKE i \in (k + 1)..(t.start_line - 1)
    <3>1. i \in Nat /\ i \in DOMAIN lines /\ k < i /\ i < t.start_line
      BY <1>3, <1>12, <2>1
    <3>2. \A e \in S : e.start_line \in Nat /\ t.start_line <= e.start_line
      BY <1>1, <1>2 DEF Separate, Ranged
    <3>3. \A e \in S : ~ (e.start_line <= i)
      BY <1>3, <3>1, <3>2
    <3>4. QED
      BY <3>1, <3>3 DEF Uncovered
  <2>8. \A i \in Uncovered(lines, rest) : t.end_line < i => i \in Uncovered(lines, S) /\ k < i
    <3> TAKE i \in Uncovered(lines, rest)
    <3>1. i \in DOMAIN lines /\ i \in Nat /\ \A e \in rest : ~ (e.start_line <= i /\ i <= e.end_line)
      BY <1>12 DEF Uncovered
    <3>2. t.end_line < i => ~ (i <= t.end_line) /\ k < i
      BY <1>3, <2>1, <3>1
    <3>3. QED
      BY <1>5, <3>1, <3>2 DEF Uncovered
  <2>9. {lines[i] : i \in {j \in Uncovered(lines, S) : k < j}}
            = {lines[i] : i \in (k + 1)..(t.start_line - 1)}
                  \cup {lines[i] : i \in {j \in Uncovered(lines, rest) : t.end_line < j}}
    BY <2>6, <2>7, <2>8
  <2>10. UNION {ToSet(e.new_text) : e \in S}
            = ToSet(t.new_text) \cup UNION {ToSet(e.new_text) : e \in rest}
    BY <1>5
  <2>11. After(y, k) = Left(lines, S, k)
    BY <1>13, <2>4, <2>5, <2>9, <2>10 DEF Left
  <2>12. QED
    BY <2>2, <2>3, <2>11
<1>15. QED
  BY <1>2, <1>8, <1>10, <1>11, <1>14 DEF EditedBy, y

\* Applying the edits of a file, whatever their order in the findings, leaves
\* every line no edit covers, puts every new text in and removes the rest: an
\* edit never moves the lines a later one means.
THEOREM EditsReplaceTheirLines ==
    ASSUME NEW V, NEW lines \in Seq(V), NEW edits, Separate(edits, Len(lines)),
           \A e \in edits : e.new_text \in Seq(V)
    PROVE  /\ apply_edits_to_content(lines, edits) \in Seq(V)
           /\ ToSet(apply_edits_to_content(lines, edits)) =
                 {lines[i] : i \in Uncovered(lines, edits)}
                     \cup UNION {ToSet(e.new_text) : e \in edits}
<1>1. PICK folded : IsFold(lines, edits, folded)
  <2>1. Ranged(edits)
    BY DEF Separate
  <2>2. QED
    BY <2>1, EditsAreFolded
<1> DEFINE good == {S \in SUBSET edits : folded[S] \in Seq(V) /\ EditedBy(lines, S, folded[S])}
<1>2. {} \in good
  <2>1. folded[{}] = lines
    BY <1>1 DEF IsFold, Edited
  <2>2. \A k \in 0..Len(lines) : After(lines, k) = Left(lines, {}, k)
    <3> TAKE k \in 0..Len(lines)
    <3>1. {j \in Uncovered(lines, {}) : k < j} = (k + 1)..Len(lines)
      BY DEF Uncovered
    <3>2. QED
      BY <3>1 DEF After, Left
  <2>3. EditedBy(lines, {}, lines)
    BY <2>2 DEF EditedBy
  <2>4. QED
    BY <2>1, <2>3
<1>3. ASSUME NEW S \in SUBSET edits, S # {}, S \ {Topmost(S)} \in good
      PROVE  S \in good
  <2>1. folded[S] = apply_edit(folded[S \ {Topmost(S)}], Topmost(S))
    BY <1>1, <1>3 DEF IsFold, Edited
  <2>2. /\ folded[S \ {Topmost(S)}] \in Seq(V)
        /\ EditedBy(lines, S \ {Topmost(S)}, folded[S \ {Topmost(S)}])
    BY <1>3
  <2>3. folded[S] \in Seq(V) /\ EditedBy(lines, S, folded[S])
    BY <1>3, <2>1, <2>2, OneEditMore
  <2>4. QED
    BY <2>3
<1> HIDE DEF good
<1>4. edits \in good
  BY <1>2, <1>3, EveryEditFollows DEF Separate
<1>5. folded[edits] \in Seq(V) /\ EditedBy(lines, edits, folded[edits])
  BY <1>4 DEF good
<1>6. After(folded[edits], 0) = Left(lines, edits, 0)
  <2>1. 0 \in 0..Len(lines) /\ \A e \in edits : 0 < e.start_line
    BY DEF Separate, Ranged
  <2>2. QED
    BY <1>5, <2>1 DEF EditedBy
<1>7. After(folded[edits], 0) = ToSet(folded[edits])
  BY <1>5 DEF After, ToSet
<1>8. {j \in Uncovered(lines, edits) : 0 < j} = Uncovered(lines, edits)
  BY DEF Uncovered
<1>9. QED
  BY <1>1, <1>5, <1>6, <1>7, <1>8 DEF IsFold, Left

\* Deleting blocks of lines leaves the others in the order they had.
THEOREM DeletionsKeepOrder ==
    ASSUME NEW V, NEW lines \in Seq(V), NEW edits, Separate(edits, Len(lines)),
           \A e \in edits : e.new_text = <<>>,
           NEW R, InOrder(lines, R)
    PROVE  InOrder(apply_edits_to_content(lines, edits), R)
<1>1. PICK folded : IsFold(lines, edits, folded)
  <2>1. Ranged(edits)
    BY DEF Separate
  <2>2. QED
    BY <2>1, EditsAreFolded
<1> DEFINE good == {S \in SUBSET edits : /\ folded[S] \in Seq(V) /\ EditedBy(lines, S, folded[S])
                                         /\ InOrder(folded[S], R)}
<1>0. \A e \in edits : e.new_text \in Seq(V)
  <2>1. <<>> \in Seq(V)
    OBVIOUS
  <2>2. QED
    BY <2>1, Zenon
<1>2. {} \in good
  <2>1. folded[{}] = lines
    BY <1>1 DEF IsFold, Edited
  <2>2. \A k \in 0..Len(lines) : After(lines, k) = Left(lines, {}, k)
    <3> TAKE k \in 0..Len(lines)
    <3>1. {j \in Uncovered(lines, {}) : k < j} = (k + 1)..Len(lines)
      BY DEF Uncovered
    <3>2. QED
      BY <3>1 DEF After, Left
  <2>3. EditedBy(lines, {}, lines)
    BY <2>2 DEF EditedBy
  <2>4. QED
    BY <2>1, <2>3
<1>3. ASSUME NEW S \in SUBSET edits, S # {}, S \ {Topmost(S)} \in good
      PROVE  S \in good
  <2>1. folded[S] = apply_edit(folded[S \ {Topmost(S)}], Topmost(S))
    BY <1>1, <1>3 DEF IsFold, Edited
  <2>2. /\ folded[S \ {Topmost(S)}] \in Seq(V)
        /\ EditedBy(lines, S \ {Topmost(S)}, folded[S \ {Topmost(S)}])
        /\ InOrder(folded[S \ {Topmost(S)}], R)
    BY <1>3
  <2>3. /\ Topmost(S).end_line <= Len(folded[S \ {Topmost(S)}])
        /\ folded[S] \in Seq(V) /\ EditedBy(lines, S, folded[S])
    BY <1>0, <1>3, <2>1, <2>2, OneEditMore
  <2>4. Topmost(S) \in edits
    BY <1>3, TopmostIsTop DEF Separate
  <2>5. /\ Topmost(S).start_line \in Nat \ {0} /\ Topmost(S).end_line \in Nat
        /\ Topmost(S).start_line <= Topmost(S).end_line /\ Topmost(S).new_text = <<>>
    BY <2>4 DEF Separate, Ranged
  <2>6. InOrder(folded[S], R)
    BY <2>1, <2>2, <2>3, <2>5, DeletionKeepsOrder
  <2>7. QED
    BY <2>3, <2>6
<1> HIDE DEF good
<1>4. edits \in good
  BY <1>2, <1>3, EveryEditFollows DEF Separate
<1>5. QED
  BY <1>1, <1>4 DEF IsFold, good
=============================================================================
