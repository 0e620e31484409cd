------------------------------ MODULE TuiSession ------------------------------
(***************************************************************************)
(* A session of `chaffra tui`: the App of chaffra-tui (app.rs) and the     *)
(* event loop around it (run_tui in main.rs), which carries out each fix   *)
(* before it reads the next key.  The findings are computed once, before   *)
(* the session, and their line numbers are never refreshed.                *)
(*                                                                         *)
(* One action is one turn of the loop: a key is handled, then the queue is *)
(* drained.  Colours, texts of the status line and the copy key are left   *)
(* out.  So are the module filter, which no key changes, and the           *)
(* suppression key, whose action the loop drains without a case for it.    *)
(* Nobody else writes the files during a session.                          *)
(***************************************************************************)
EXTENDS FixEngineProofs, FiniteSets

CONSTANTS
    Original,       \* the lines of each file when the findings were computed
    Findings,       \* the sequence of findings: file, line, rule_id, severity, actions
    Before(_, _),   \* the order of the group labels
    Faults,         \* "read" and "write": a file may refuse to be read as text, or written
    MaxFixes        \* bound: the fixes of a session

Severities == {"error", "warning", "info"}

ASSUME SessionAssumption ==
  /\ IsFiniteSet(DOMAIN Findings)
  /\ DOMAIN Findings \subseteq Int
  /\ \A i \in DOMAIN Findings :
        /\ Findings[i].file \in DOMAIN Original
        /\ Findings[i].severity \in Severities

\* What a group can be named after: a file, a rule or a severity.
Labels == UNION {{Findings[i].file, Findings[i].rule_id, Findings[i].severity} :
                    i \in DOMAIN Findings}

\* The labels are strings, ordered as strings are.
ASSUME LabelAssumption ==
  \A x, y, z \in Labels :
     /\ ~ Before(x, x)
     /\ Before(x, y) /\ Before(y, z) => Before(x, z)
     /\ x # y => Before(x, y) \/ Before(y, x)

OnlyEdit(i) == Findings[i].actions[1].edits[1]

\* The lines of a file are distinct.  A fix is what chaffra-deadcode attaches,
\* the only analysis with fixes: one action with one edit that deletes lines of
\* the finding's file.
ASSUME FixesAssumption ==
  /\ \A f \in DOMAIN Original :
        /\ Original[f] \in Seq(ToSet(Original[f]))
        /\ \A m, n \in DOMAIN Original[f] : m # n => Original[f][m] # Original[f][n]
  /\ \A i \in DOMAIN Findings : Fixable(Findings[i]) # {} =>
        /\ Findings[i].actions = <<[auto_fixable |-> TRUE, edits |-> <<OnlyEdit(i)>>]>>
        /\ OnlyEdit(i).file = Findings[i].file
        /\ OnlyEdit(i).new_text = <<>>
        /\ OnlyEdit(i).end_line \in DOMAIN Original[OnlyEdit(i).file]
        /\ OnlyEdit(i).start_line \in 1..OnlyEdit(i).end_line

VARIABLES
    disk,       \* the lines of each file
    shown,      \* the severities the filter lets through
    group_by,
    selected,   \* counted from 0
    session,    \* "running", or how the loop was left: "quit" or "error"
    applied,    \* history: the findings reported as fixed, in order
    carried     \* history: those of them whose file was read, in order

view == <<shown, group_by, selected>>
vars == <<disk, view, session, applied, carried>>

Init ==
    /\ disk = Original
    /\ shown = Severities
    /\ group_by = "file"
    /\ selected = 0
    /\ session = "running"
    /\ applied = <<>>
    /\ carried = <<>>

visible_findings == {i \in DOMAIN Findings : Findings[i].severity \in shown}

visible_count == Cardinality(visible_findings)

GroupLabel(i) ==
    CASE group_by = "file"     -> Findings[i].file
      [] group_by = "rule"     -> Findings[i].rule_id
      [] group_by = "severity" -> Findings[i].severity

\* The rows as they are drawn: by group label, then in the order found.
DrawnBefore(i) ==
    {j \in visible_findings : \/ Before(GroupLabel(j), GroupLabel(i))
                              \/ GroupLabel(j) = GroupLabel(i) /\ j < i}

grouped_flat_findings ==
    [row \in 1..visible_count |->
        CHOOSE i \in visible_findings : Cardinality(DrawnBefore(i)) = row - 1]

\* Mutant: the row is looked up in the list without its groups.
SelectedFinding_Ungrouped ==
    LET flat == SetToSortSeq(visible_findings, LAMBDA i, j : i < j)
    IN  IF selected < Len(flat) THEN <<flat[selected + 1]>> ELSE <<>>

\* The finding an action is about, if a row is selected.
SelectedFinding ==
    LET flat == grouped_flat_findings
    IN  IF selected < Len(flat) THEN <<flat[selected + 1]>> ELSE <<>>

Select(row) ==
    /\ session = "running"
    /\ selected' = row
    /\ UNCHANGED <<disk, shown, group_by, session, applied, carried>>

move_up == selected > 0 /\ Select(selected - 1)
move_down == visible_count > 0 /\ selected < visible_count - 1 /\ Select(selected + 1)
move_to_top == Select(0)
move_to_bottom == visible_count > 0 /\ Select(visible_count - 1)

cycle_group ==
    /\ session = "running"
    /\ group_by' = CASE group_by = "file"     -> "rule"
                     [] group_by = "rule"     -> "severity"
                     [] group_by = "severity" -> "file"
    /\ selected' = 0
    /\ UNCHANGED <<disk, shown, session, applied, carried>>

\* Mutant: the selection stays on its row.
toggle_severity_KeepsRow(severity) ==
    /\ session = "running"
    /\ shown' = IF severity \in shown THEN shown \ {severity} ELSE shown \cup {severity}
    /\ UNCHANGED <<disk, group_by, selected, session, applied, carried>>

toggle_severity(severity) ==
    /\ session = "running"
    /\ shown' = IF severity \in shown THEN shown \ {severity} ELSE shown \cup {severity}
    /\ selected' = 0
    /\ UNCHANGED <<disk, group_by, session, applied, carried>>

\* The fix of the selected finding alone is decided by the engine and written.
\* A file that is not read (one that is not UTF-8, say, which the analysis took
\* as bytes) is passed over, and the fix is reported as applied all the same.  An
\* error of the write leaves the loop by way of `?`, with the file as it was or
\* already truncated.
apply_fix ==
    /\ session = "running"
    /\ Len(applied) < MaxFixes
    /\ \E i \in ToSet(SelectedFinding) :
       \E unread \in SUBSET (IF "read" \in Faults THEN DOMAIN disk ELSE {}) :
          LET results == orchestrate_fixes(<<Findings[i]>>, FALSE)
              files   == {e.file : e \in ToSet(results[1].edits)}
              written == apply_fixes_to_files([f \in files \ unread |-> disk[f]], results)
          IN  /\ Fixable(Findings[i]) # {}
              /\ results[1].applied
              /\ \/ /\ disk' = [f \in DOMAIN disk |->
                                  IF f \in DOMAIN written THEN written[f] ELSE disk[f]]
                    /\ applied' = Append(applied, i)
                    /\ carried' = IF files \cap unread = {} THEN Append(carried, i) ELSE carried
                    /\ UNCHANGED session
                 \/ /\ "write" \in Faults
                    /\ \E f \in DOMAIN written : disk' \in {disk, [disk EXCEPT ![f] = <<>>]}
                    /\ session' = "error"
                    /\ UNCHANGED <<applied, carried>>
    /\ UNCHANGED view

quit ==
    /\ session = "running"
    /\ session' = "quit"
    /\ UNCHANGED <<disk, view, applied, carried>>

Next ==
    \/ move_up \/ move_down \/ move_to_top \/ move_to_bottom
    \/ cycle_group \/ \E severity \in Severities : toggle_severity(severity)
    \/ apply_fix \/ quit

Spec == Init /\ [][Next]_vars

-----------------------------------------------------------------------------
(* Properties *)

\* However the filters and groups are changed, the selection is on a drawn row
\* (or at the top of an empty list), so a key always acts on what is seen.
SelectionIsVisible == selected = 0 \/ selected < visible_count

\* The fix key fixes the highlighted row and no other: the row drawn at the
\* selection, in the order of the groups, is the finding that is carried out.
HighlightedIsFixed ==
    [][\A i \in DOMAIN Findings :
          applied' = Append(applied, i) => /\ selected < visible_count
                                          /\ i = grouped_flat_findings[selected + 1]]_vars

\* The lines of a file, by number, that the fix of a finding deletes.
Covered(i, f) ==
    UNION {e.start_line..e.end_line :
              e \in {d \in UNION {ToSet(Findings[i].actions[a].edits) : a \in Fixable(Findings[i])} :
                        d.file = f}}

Cured(f) == UNION {Covered(carried[k], f) : k \in DOMAIN carried}

\* The pairs of lines of a text, by where they stand.
Orderly(text) == {<<text[p[1]], text[p[2]]>> :
                     p \in {q \in (DOMAIN text) \X (DOMAIN text) : q[1] < q[2]}}

\* The file holds the lines of no finding fixed and all the others, in order.  A
\* fix whose file was not read counts for nothing: it must leave the file alone.
Exact(f) ==
    /\ ToSet(disk[f]) = {Original[f][n] : n \in DOMAIN Original[f] \ Cured(f)}
    /\ InOrder(disk[f], Orderly(Original[f]))

\* The fixes of a file were made from its end towards its start, each above the
\* lines of all earlier ones.
BottomUp(f) ==
    \A k, l \in DOMAIN carried :
        k < l => \A m \in Covered(carried[k], f), n \in Covered(carried[l], f) : n < m

\* Fixes made from the bottom of each file upwards remove the lines of their
\* findings and nothing else, however they alternate between files and whatever
\* is filtered and grouped in between, until a write fails; and a fix whose file
\* cannot be read, though reported as applied, changes nothing, so it spoils
\* neither its file nor the fixes after it.
BottomUpFixesAreExact ==
    session # "error" => \A f \in DOMAIN disk : BottomUp(f) => Exact(f)

\* The key table (docs/api/tui.md:42) says of `f`: "Apply fix for selected
\* finding".  So after every fix the lines of the findings fixed are gone from
\* their files and all other lines are there.
EveryFixIsExact == \A f \in DOMAIN disk : Exact(f)

(***************************************************************************)
(* Proofs that the selection is visible and that a fix is of the row it is *)
(* on, for every list of findings, every order of labels and every tree.   *)
(***************************************************************************)

\* What the keys need of the number of rows.
LEMMA RowsAreCounted == visible_count \in Nat /\ IsFiniteSet(visible_findings)
<1>1. visible_findings \subseteq DOMAIN Findings
  BY DEF visible_findings
<1>2. IsFiniteSet(visible_findings)
  BY <1>1, SessionAssumption, FS_Subset
<1>3. QED
  BY <1>2, FS_CardinalityType DEF visible_count

\* The inductive invariant: the row is a number, and it is drawn.
SelectionInv == selected \in Nat /\ SelectionIsVisible

LEMMA SelectionInit == Init => SelectionInv
BY DEF Init, SelectionInv, SelectionIsVisible

LEMMA SelectionStep == SelectionInv /\ [Next]_vars => SelectionInv'
<1> SUFFICES ASSUME SelectionInv, [Next]_vars
             PROVE  SelectionInv'
  OBVIOUS
<1> USE DEF SelectionInv, SelectionIsVisible
<1>1. visible_count \in Nat
  BY RowsAreCounted
<1>2. ASSUME UNCHANGED shown
      PROVE  visible_count' = visible_count
  BY <1>2 DEF visible_count, visible_findings
<1>3. CASE move_up
  BY <1>1, <1>2, <1>3 DEF move_up, Select
<1>4. CASE move_down
  BY <1>1, <1>2, <1>4 DEF move_down, Select
<1>5. CASE move_to_top
  BY <1>5 DEF move_to_top, Select
<1>6. CASE move_to_bottom
  BY <1>1, <1>2, <1>6 DEF move_to_bottom, Select
<1>7. CASE cycle_group
  BY <1>7 DEF cycle_group
<1>8. CASE \E severity \in Severities : toggle_severity(severity)
  BY <1>8 DEF toggle_severity
<1>9. CASE apply_fix
  BY <1>2, <1>9 DEF apply_fix, view
<1>10. CASE quit
  BY <1>2, <1>10 DEF quit, view
<1>11. CASE UNCHANGED vars
  BY <1>2, <1>11 DEF vars, view
<1>12. QED
  BY <1>3, <1>4, <1>5, <1>6, <1>7, <1>8, <1>9, <1>10, <1>11 DEF Next

\* Whatever keys are pressed, the selection stays on a row that is drawn.
THEOREM SelectionStaysVisible == Spec => []SelectionIsVisible
<1>1. SelectionInv => SelectionIsVisible
  BY DEF SelectionInv
<1>2. QED
  BY <1>1, SelectionInit, SelectionStep, PTL DEF Spec

\* The order of the rows is strict and total, whatever they are grouped by.
LEMMA RowsAreOrdered ==
    ASSUME group_by \in {"file", "rule", "severity"},
           NEW i \in visible_findings, NEW j \in visible_findings
    PROVE  /\ i \notin DrawnBefore(i)
           /\ i \in DrawnBefore(j) => DrawnBefore(i) \subseteq DrawnBefore(j)
           /\ i # j => i \in DrawnBefore(j) \/ j \in DrawnBefore(i)
<1>1. visible_findings \subseteq DOMAIN Findings /\ visible_findings \subseteq Int
  BY SessionAssumption DEF visible_findings
<1>2. \A k \in visible_findings : k \in Int /\ GroupLabel(k) \in Labels
  BY <1>1 DEF GroupLabel, Labels
<1>3. i \notin DrawnBefore(i)
  BY <1>2, LabelAssumption DEF DrawnBefore
<1>4. ASSUME i \in DrawnBefore(j), NEW k \in DrawnBefore(i)
      PROVE  k \in DrawnBefore(j)
  <2>1. k \in visible_findings
    BY DEF DrawnBefore
  <2> DEFINE x == GroupLabel(k)
             y == GroupLabel(i)
             z == GroupLabel(j)
  <2>2. x \in Labels /\ y \in Labels /\ z \in Labels /\ k \in Int /\ i \in Int /\ j \in Int
    BY <1>2, <2>1
  <2>3. /\ Before(x, y) \/ (x = y /\ k < i)
        /\ Before(y, z) \/ (y = z /\ i < j)
    BY <1>4 DEF DrawnBefore
  <2>4. Before(x, y) /\ Before(y, z) => Before(x, z)
    BY <2>2, LabelAssumption
  <2>5. k < i /\ i < j => k < j
    BY <2>2
  <2>6. Before(x, z) \/ (x = z /\ k < j)
    <3> HIDE DEF x, y, z
    <3>1. QED
      BY <2>3, <2>4, <2>5
  <2>7. QED
    BY <2>1, <2>6 DEF DrawnBefore
<1>5. i # j => i \in DrawnBefore(j) \/ j \in DrawnBefore(i)
  <2>1. GroupLabel(i) # GroupLabel(j) =>
            Before(GroupLabel(i), GroupLabel(j)) \/ Before(GroupLabel(j), GroupLabel(i))
    BY <1>2, LabelAssumption
  <2>2. i # j => i < j \/ j < i
    BY <1>2
  <2>3. QED
    BY <2>1, <2>2, Zenon DEF DrawnBefore
<1>6. QED
  BY <1>3, <1>4, <1>5

\* Two findings are never drawn at the same place.
LEMMA RowsDiffer ==
    ASSUME group_by \in {"file", "rule", "severity"},
           NEW i \in visible_findings, NEW j \in visible_findings,
           i \in DrawnBefore(j)
    PROVE  Cardinality(DrawnBefore(i)) # Cardinality(DrawnBefore(j))
<1>1. DrawnBefore(i) \subseteq DrawnBefore(j) /\ i \notin DrawnBefore(i)
  BY RowsAreOrdered
<1>2. DrawnBefore(j) \subseteq visible_findings
  BY DEF DrawnBefore
<1>3. IsFiniteSet(DrawnBefore(j))
  BY <1>2, RowsAreCounted, FS_Subset
<1>4. QED
  BY <1>1, <1>3, FS_Subset

\* Every finding the filter lets through is drawn on a row, whatever the groups.
LEMMA VisibleFindingsAreDrawn ==
    ASSUME group_by \in {"file", "rule", "severity"}, NEW i \in visible_findings
    PROVE  \E row \in 1..visible_count : grouped_flat_findings[row] = i
<1> DEFINE row == Cardinality(DrawnBefore(i)) + 1
<1>1. visible_count \in Nat /\ IsFiniteSet(visible_findings)
  BY RowsAreCounted
<1>2. DrawnBefore(i) \subseteq visible_findings /\ DrawnBefore(i) # visible_findings
  BY RowsAreOrdered DEF DrawnBefore
<1>3. /\ Cardinality(DrawnBefore(i)) \in Nat
      /\ Cardinality(DrawnBefore(i)) <= visible_count
      /\ Cardinality(DrawnBefore(i)) # visible_count
  BY <1>1, <1>2, FS_Subset, FS_CardinalityType DEF visible_count
<1>4. row \in 1..visible_count /\ row - 1 = Cardinality(DrawnBefore(i))
  BY <1>1, <1>3
<1>5. \A j \in visible_findings : Cardinality(DrawnBefore(j)) = row - 1 => j = i
  BY <1>4, RowsAreOrdered, RowsDiffer
<1>6. grouped_flat_findings[row] = CHOOSE j \in visible_findings : Cardinality(DrawnBefore(j)) = row - 1
  BY <1>4 DEF grouped_flat_findings
<1>7. (CHOOSE j \in visible_findings : Cardinality(DrawnBefore(j)) = row - 1) = i
  BY <1>4, <1>5
<1>8. QED
  BY <1>4, <1>6, <1>7

\* Each key leaves a group and a list of findings that were fixed.
SessionInv ==
    /\ SelectionInv
    /\ group_by \in {"file", "rule", "severity"}
    /\ applied \in Seq(DOMAIN Findings)
LEMMA SelectedIsHighlighted ==
    ASSUME NEW i \in ToSet(SelectedFinding), selected \in Nat
    PROVE  /\ selected < visible_count
           /\ i = grouped_flat_findings[selected + 1]
<1>1. Len(grouped_flat_findings) = visible_count
  BY RowsAreCounted DEF grouped_flat_findings
<1>2. selected < visible_count
  BY <1>1 DEF SelectedFinding, ToSet
<1>3. SelectedFinding = <<grouped_flat_findings[selected + 1]>>
  BY <1>1, <1>2 DEF SelectedFinding
<1>4. QED
  BY <1>2, <1>3 DEF ToSet

\* Every row holds a finding that the filter lets through.
LEMMA RowsAreVisible ==
    ASSUME group_by \in {"file", "rule", "severity"}, NEW row \in 1..visible_count
    PROVE  grouped_flat_findings[row] \in visible_findings
<1> DEFINE rank == [i \in visible_findings |-> Cardinality(DrawnBefore(i)) + 1]
<1>1. visible_count \in Nat /\ IsFiniteSet(visible_findings)
  BY RowsAreCounted
<1>2. ASSUME NEW i \in visible_findings
      PROVE  rank[i] \in 1..visible_count
  <2>1. DrawnBefore(i) \subseteq visible_findings /\ DrawnBefore(i) # visible_findings
    BY RowsAreOrdered DEF DrawnBefore
  <2>2. /\ Cardinality(DrawnBefore(i)) \in Nat
        /\ Cardinality(DrawnBefore(i)) <= visible_count
        /\ Cardinality(DrawnBefore(i)) # visible_count
    BY <1>1, <2>1, FS_Subset, FS_CardinalityType DEF visible_count
  <2>3. QED
    BY <1>1, <2>2
<1>3. ASSUME NEW i \in visible_findings, NEW j \in visible_findings, rank[i] = rank[j]
      PROVE  i = j
  <2>1. Cardinality(DrawnBefore(i)) \in Int /\ Cardinality(DrawnBefore(j)) \in Int
    BY <1>1, FS_Subset, FS_CardinalityType DEF DrawnBefore
  <2>2. Cardinality(DrawnBefore(i)) = Cardinality(DrawnBefore(j))
    BY <1>3, <2>1
  <2>3. QED
    BY <2>2, RowsAreOrdered, RowsDiffer
<1>4. rank \in Injection(visible_findings, 1..visible_count)
  BY <1>2, <1>3 DEF Injection, IsInjective
<1>5. IsFiniteSet(1..visible_count) /\ Cardinality(1..visible_count) = visible_count
  BY <1>1, FS_Interval
<1>6. rank \in Surjection(visible_findings, 1..visible_count)
  BY <1>4, <1>5, FS_Injection DEF visible_count
<1>7. PICK i \in visible_findings : rank[i] = row
  BY <1>6 DEF Surjection
<1>8. Cardinality(DrawnBefore(i)) = row - 1
  BY <1>1, <1>7, FS_Subset, FS_CardinalityType DEF DrawnBefore
<1>9. QED
  BY <1>8 DEF grouped_flat_findings

LEMMA SessionInit == Init => SessionInv
BY SelectionInit, EmptySeq DEF Init, SessionInv

LEMMA SessionStep == SessionInv /\ [Next]_vars => SessionInv'
<1> SUFFICES ASSUME SessionInv, [Next]_vars
             PROVE  SessionInv'
  OBVIOUS
<1>1. SelectionInv'
  BY SelectionStep DEF SessionInv
<1>2. group_by' \in {"file", "rule", "severity"}
  BY DEF SessionInv, Next, vars, view, move_up, move_down, move_to_top, move_to_bottom, Select,
         cycle_group, toggle_severity, apply_fix, quit
<1>3. applied' \in Seq(DOMAIN Findings)
  <2>1. CASE apply_fix
    <3>1. UNCHANGED applied \/ \E i \in ToSet(SelectedFinding) : applied' = Append(applied, i)
      BY <2>1 DEF apply_fix
    <3>2. ASSUME NEW i \in ToSet(SelectedFinding)
          PROVE  i \in DOMAIN Findings
      <4>1. /\ selected \in Nat /\ selected < visible_count
            /\ i = grouped_flat_findings[selected + 1]
        BY SelectedIsHighlighted DEF SessionInv, SelectionInv
      <4>2. selected + 1 \in 1..visible_count
        BY <4>1, RowsAreCounted
      <4>3. QED
        BY <4>1, <4>2, RowsAreVisible DEF SessionInv, visible_findings
    <3>3. QED
      BY <3>1, <3>2, AppendProperties DEF SessionInv
  <2>2. CASE ~ apply_fix
    BY <2>2 DEF SessionInv, Next, vars, view, move_up, move_down, move_to_top, move_to_bottom,
                Select, cycle_group, toggle_severity, quit
  <2>3. QED
    BY <2>1, <2>2
<1>4. QED
  BY <1>1, <1>2, <1>3 DEF SessionInv

\* The finding a session fixes is the one on the selected row, whatever was
\* filtered and grouped before.
THEOREM HighlightedFindingIsFixed == Spec => HighlightedIsFixed
<1>1. SessionInv /\ [Next]_vars =>
        \A i \in DOMAIN Findings :
            applied' = Append(applied, i) => /\ selected < visible_count
                                            /\ i = grouped_flat_findings[selected + 1]
  <2> SUFFICES ASSUME SessionInv, [Next]_vars, NEW i \in DOMAIN Findings,
                      applied' = Append(applied, i)
               PROVE  /\ selected < visible_count
                      /\ i = grouped_flat_findings[selected + 1]
    OBVIOUS
  <2>1. applied' # applied
    BY AppendProperties DEF SessionInv
  <2>2. apply_fix
    BY <2>1 DEF Next, vars, view, move_up, move_down, move_to_top, move_to_bottom, Select,
                cycle_group, toggle_severity, quit
  <2>3. PICK j \in ToSet(SelectedFinding) : applied' \in {applied, Append(applied, j)}
    BY <2>2 DEF apply_fix
  <2>4. /\ selected \in Nat /\ selected < visible_count
        /\ j = grouped_flat_findings[selected + 1]
    BY SelectedIsHighlighted DEF SessionInv, SelectionInv
  <2>5. j \in DOMAIN Findings
    <3>1. selected + 1 \in 1..visible_count
      BY <2>4, RowsAreCounted
    <3>2. QED
      BY <2>4, <3>1, RowsAreVisible DEF SessionInv, visible_findings
  <2>6. i = j
    <3>1. Append(applied, i) = Append(applied, j)
      BY <2>1, <2>3
    <3>2. QED
      BY <2>5, <3>1, AppendInjective DEF SessionInv
  <2>7. QED
    BY <2>4, <2>6
<1>2. QED
  BY <1>1, SessionInit, SessionStep, PTL DEF Spec, HighlightedIsFixed

\* The rows are the findings the filter lets through, in every reachable state.
RowsShowTheFilteredFindings ==
    /\ \A i \in visible_findings : \E row \in 1..visible_count : grouped_flat_findings[row] = i
    /\ \A row \in 1..visible_count : grouped_flat_findings[row] \in visible_findings

\* However the filters and groups are changed, each finding that is let through is
\* on a row and each row holds such a finding: none is hidden, nothing else is drawn.
THEOREM RowsAreTheFilteredFindings == Spec => []RowsShowTheFilteredFindings
<1>1. SessionInv => RowsShowTheFilteredFindings
  BY VisibleFindingsAreDrawn, RowsAreVisible DEF SessionInv, RowsShowTheFilteredFindings
<1>2. QED
  BY <1>1, SessionInit, SessionStep, PTL DEF Spec

-----------------------------------------------------------------------------
(* Fixing from the bottom up *)

\* A finding that can be fixed has the one action, with the one edit.
LEMMA OneEditPerFix ==
    ASSUME NEW i \in DOMAIN Findings, Fixable(Findings[i]) # {}
    PROVE  /\ Fixable(Findings[i]) = {1}
           /\ Findings[i].actions[1].edits = <<OnlyEdit(i)>>
           /\ Ranged({OnlyEdit(i)})
           /\ OnlyEdit(i).file \in DOMAIN Original
           /\ OnlyEdit(i).end_line \in 1..Len(Original[OnlyEdit(i).file])
           /\ \A f : Covered(i, f) = IF f = OnlyEdit(i).file
                                     THEN OnlyEdit(i).start_line..OnlyEdit(i).end_line ELSE {}
<1> DEFINE e == OnlyEdit(i)
<1>1. Findings[i].actions = <<[auto_fixable |-> TRUE, edits |-> <<e>>]>>
  BY FixesAssumption
<1>2. /\ e.file \in DOMAIN Original
      /\ Original[e.file] \in Seq(ToSet(Original[e.file]))
      /\ e.end_line \in DOMAIN Original[e.file]
      /\ e.start_line \in 1..e.end_line
  BY FixesAssumption, SessionAssumption
<1>3. e.end_line \in 1..Len(Original[e.file])
  BY <1>2
<1> HIDE DEF e
<1>4. /\ Fixable(Findings[i]) = {1}
      /\ Findings[i].actions[1].edits = <<e>>
  BY <1>1 DEF Fixable
<1>5. Ranged({e})
  <2>1. Len(Original[e.file]) \in Nat
    BY <1>2
  <2>2. /\ e.start_line \in Nat \ {0} /\ e.end_line \in Nat
        /\ e.start_line <= e.end_line
    BY <1>2, <1>3, <2>1
  <2>3. QED
    BY <2>2, FS_Singleton DEF Ranged
<1>6. ToSet(<<e>>) = {e}
  BY DEF ToSet
<1>7. UNION {ToSet(Findings[i].actions[a].edits) : a \in Fixable(Findings[i])} = {e}
  BY <1>4, <1>6
<1>8. \A f : Covered(i, f) = IF f = e.file THEN e.start_line..e.end_line ELSE {}
  BY <1>7 DEF Covered
<1>9. QED
  BY <1>2, <1>3, <1>4, <1>5, <1>8 DEF e

\* The one edit of one file is applied as it is.
LEMMA OneEditIsApplied ==
    ASSUME NEW lines, NEW e, Ranged({e})
    PROVE  apply_edits_to_content(lines, {e}) = apply_edit(lines, e)
<1>1. PICK folded : IsFold(lines, {e}, folded)
  BY EditsAreFolded
<1>2. Topmost({e}) = e
  BY TopmostIsTop
<1>3. folded[{e}] = apply_edit(folded[{}], e)
  <2>1. {e} \ {e} = {} /\ {e} # {}
    OBVIOUS
  <2>2. QED
    BY <1>1, <1>2, <2>1 DEF IsFold, Edited
<1>4. folded[{}] = lines
  BY <1>1 DEF IsFold, Edited
<1>5. QED
  BY <1>1, <1>3, <1>4 DEF IsFold

\* What a fix does to the tree when it is carried out.
OneFileIsEdited(i, results, texts) ==
    LET file == OnlyEdit(i).file
    IN  /\ {e.file : e \in ToSet(results[1].edits)} = {file}
        /\ apply_fixes_to_files([f \in {file} |-> texts[f]], results) =
               [f \in {file} |-> apply_edit(texts[file], OnlyEdit(i))]

LEMMA FixOfOneFinding ==
    ASSUME NEW i \in DOMAIN Findings, Fixable(Findings[i]) # {},
           NEW results, results = orchestrate_fixes(<<Findings[i]>>, FALSE), results[1].applied,
           NEW texts
    PROVE  OneFileIsEdited(i, results, texts)
<1> DEFINE e == OnlyEdit(i)
           file == e.file
<1>1. /\ Fixable(Findings[i]) = {1}
      /\ Findings[i].actions[1].edits = <<e>>
      /\ Ranged({e})
  BY OneEditPerFix
<1> HIDE DEF e
<1>2. FirstFixable(Findings[i]).edits = <<e>>
  BY <1>1 DEF FirstFixable
<1>3. results[1].edits = <<e>> /\ DOMAIN results = {1}
  <2> DEFINE findings  == <<Findings[i]>>
             conflicts == detect_conflicts(findings)
  <2>1. DOMAIN findings = {1} /\ findings[1] = Findings[i]
    OBVIOUS
  <2> HIDE DEF findings, conflicts
  <2>2. results = [j \in {1} |->
                      IF Fixable(findings[j]) = {} THEN FixResult(FALSE, <<>>, "no auto-fix available")
                      ELSE IF j \in conflicts
                           THEN FixResult(FALSE, FirstFixable(findings[j]).edits, "overlapping edits")
                           ELSE FixResult(TRUE, FirstFixable(findings[j]).edits, "applied")]
    <3>1. results = orchestrate_fixes(findings, FALSE)
      BY DEF findings
    <3>2. QED
      BY <2>1, <3>1 DEF orchestrate_fixes, conflicts
  <2>3. Fixable(findings[1]) # {}
    BY <1>1, <2>1
  <2>4. results[1].edits = FirstFixable(findings[1]).edits /\ DOMAIN results = {1}
    <3> DEFINE edits == FirstFixable(findings[1]).edits
    <3>1. results[1] \in {FixResult(FALSE, edits, "overlapping edits"), FixResult(TRUE, edits, "applied")}
      BY <2>2, <2>3
    <3> HIDE DEF edits
    <3>2. \A decision, reason : FixResult(decision, edits, reason).edits = edits
      BY DEF FixResult
    <3>3. results[1].edits = edits
      BY <3>1, <3>2
    <3>4. QED
      BY <2>2, <3>3 DEF edits
  <2>5. QED
    BY <1>2, <2>1, <2>4
<1>4. ToSet(results[1].edits) = {e}
  <2>1. ToSet(<<e>>) = {e}
    BY DEF ToSet
  <2>2. QED
    BY <1>3, <2>1
<1>5. \A f : AppliedEdits(results, f) = IF f = file THEN {e} ELSE {}
  <2>1. UNION {ToSet(results[k].edits) : k \in {j \in DOMAIN results : results[j].applied}} = {e}
    BY <1>3, <1>4
  <2>2. QED
    BY <2>1 DEF AppliedEdits
<1>6. apply_edits_to_content(texts[file], {e}) = apply_edit(texts[file], e)
  BY <1>1, OneEditIsApplied
<1>7. apply_fixes_to_files([f \in {file} |-> texts[f]], results) = [f \in {file} |-> apply_edit(texts[file], e)]
  <2>1. {g \in DOMAIN [f \in {file} |-> texts[f]] : AppliedEdits(results, g) # {}} = {file}
    BY <1>5
  <2>2. AppliedEdits(results, file) = {e}
    BY <1>5
  <2>3. QED
    BY <1>6, <2>1, <2>2 DEF apply_fixes_to_files
<1>8. {d.file : d \in ToSet(results[1].edits)} = {file}
  BY <1>4
<1>9. QED
  BY <1>7, <1>8, Zenon DEF OneFileIsEdited, e

\* A text with the lines of another but those cured, in their order, and still
\* the same above all of those.
Remains(text, cured, rest) ==
    /\ rest \in Seq(ToSet(text))
    /\ ToSet(rest) = {text[n] : n \in DOMAIN text \ cured}
    /\ InOrder(rest, Orderly(text))
    /\ \A n \in DOMAIN text :
          (\A m \in cured : n < m) => n \in DOMAIN rest /\ rest[n] = text[n]

\* A deletion above all earlier ones deletes what it means to.
LEMMA DeletingAbove ==
    ASSUME NEW text, text \in Seq(ToSet(text)),
           \A m, n \in DOMAIN text : m # n => text[m] # text[n],
           NEW cured, cured \subseteq Int, NEW rest, Remains(text, cured, rest),
           NEW e, e.new_text = <<>>, e.end_line \in 1..Len(text), e.start_line \in 1..e.end_line,
           \A m \in cured : e.end_line < m
    PROVE  Remains(text, cured \cup (e.start_line..e.end_line), apply_edit(rest, e))
<1> DEFINE V == ToSet(text)
           deleted == e.start_line..e.end_line
           after == apply_edit(rest, e)
<1>1. /\ Len(text) \in Nat /\ DOMAIN text = 1..Len(text)
      /\ rest \in Seq(V) /\ Len(rest) \in Nat /\ DOMAIN rest = 1..Len(rest)
  BY DEF Remains
<1>2. /\ e.start_line \in Nat \ {0} /\ e.end_line \in Nat
      /\ e.start_line <= e.end_line /\ e.end_line <= Len(text)
  BY <1>1
<1>3. ASSUME NEW n \in 1..e.end_line
      PROVE  n \in DOMAIN text /\ n \in DOMAIN rest /\ rest[n] = text[n]
  <2>1. n \in DOMAIN text
    BY <1>1, <1>2
  <2>2. \A m \in cured : n < m
    BY <1>2
  <2>3. QED
    BY <2>1, <2>2 DEF Remains
<1>4. e.end_line <= Len(rest)
  BY <1>1, <1>2, <1>3
<1>5. Separate({e}, Len(rest)) /\ <<>> \in Seq(V)
  <2>1. Ranged({e})
    BY <1>2, FS_Singleton DEF Ranged
  <2>2. <<>> \in Seq(V)
    OBVIOUS
  <2>3. QED
    BY <1>4, <2>1, <2>2 DEF Separate
<1>6. after = apply_edits_to_content(rest, {e})
  BY <1>5, OneEditIsApplied DEF Separate
<1>7. /\ after \in Seq(V)
      /\ ToSet(after) = {rest[i] : i \in Uncovered(rest, {e})}
  <2>1. \A d \in {e} : d.new_text \in Seq(V)
    BY <1>5
  <2>2. /\ apply_edits_to_content(rest, {e}) \in Seq(V)
        /\ ToSet(apply_edits_to_content(rest, {e})) =
               {rest[i] : i \in Uncovered(rest, {e})} \cup UNION {ToSet(d.new_text) : d \in {e}}
    BY <1>1, <1>5, <2>1, EditsReplaceTheirLines
  <2>3. UNION {ToSet(d.new_text) : d \in {e}} = {}
    BY DEF ToSet
  <2> HIDE DEF after
  <2>4. QED
    BY <1>6, <2>2, <2>3
<1>8. Uncovered(rest, {e}) = DOMAIN rest \ deleted
  BY <1>1, <1>2 DEF Uncovered
<1>9. \A i, j \in DOMAIN rest : i # j => rest[i] # rest[j]
  <2>1. \A i, j \in DOMAIN rest : i < j => rest[i] # rest[j]
    BY DEF Remains, InOrder, Orderly
  <2>2. QED
    BY <1>1, <2>1
<1>10. {rest[i] : i \in DOMAIN rest \ deleted} = {text[n] : n \in DOMAIN text \ (cured \cup deleted)}
  <2>1. ASSUME NEW i \in DOMAIN rest \ deleted
        PROVE  \E n \in DOMAIN text \ (cured \cup deleted) : rest[i] = text[n]
    <3>1. rest[i] \in ToSet(rest)
      BY DEF ToSet
    <3>2. PICK n \in DOMAIN text \ cured : rest[i] = text[n]
      BY <3>1 DEF Remains
    <3>3. n \notin deleted
      BY <1>2, <1>3, <1>9, <3>2
    <3>4. QED
      BY <3>2, <3>3
  <2>2. ASSUME NEW n \in DOMAIN text \ (cured \cup deleted)
        PROVE  \E i \in DOMAIN rest \ deleted : rest[i] = text[n]
    <3>1. text[n] \in ToSet(rest)
      BY DEF Remains
    <3>2. PICK i \in DOMAIN rest : rest[i] = text[n]
      BY <3>1 DEF ToSet
    <3>3. i \notin deleted
      BY <1>2, <1>3, <3>2
    <3>4. QED
      BY <3>2, <3>3
  <2> HIDE DEF deleted
  <2>3. QED
    BY <2>1, <2>2
<1>11. InOrder(after, Orderly(text))
  BY <1>1, <1>2, <1>4, DeletionKeepsOrder DEF Remains
<1>12. ASSUME NEW n \in DOMAIN text, \A m \in cured \cup deleted : n < m
       PROVE  n \in DOMAIN after /\ after[n] = text[n]
  <2>1. n \in 1..(e.start_line - 1)
    BY <1>1, <1>2, <1>12
  <2>2. n \in DOMAIN rest /\ rest[n] = text[n]
    BY <1>2, <1>3, <2>1
  <2>3. PICK top \in Seq(V), bottom \in Seq(V) :
           /\ after = (top \o e.new_text) \o bottom
           /\ Len(top) = e.start_line - 1
           /\ \A k \in 1..Len(top) : top[k] = rest[k]
    <3>1. Split(V, rest, e, after)
      BY <1>1, <1>2, <1>4, <1>5, EditSplits
    <3> HIDE DEF after
    <3>2. QED
      BY <3>1 DEF Split
  <2> HIDE DEF after
  <2>4. n \in DOMAIN after /\ after[n] = top[n]
    BY <1>5, <2>1, <2>3
  <2>5. QED
    BY <2>1, <2>2, <2>3, <2>4
<1> HIDE DEF after, deleted
<1>13. Remains(text, cured \cup deleted, after)
  BY <1>7, <1>8, <1>10, <1>11, <1>12 DEF Remains
<1>14. QED
  BY <1>13 DEF after, deleted

\* The inductive invariant: as long as the fixes of a file went upwards, it is
\* its old text without what was cured, untouched above all of that.
CuredInv ==
    /\ DOMAIN disk = DOMAIN Original
    /\ carried \in Seq({i \in DOMAIN Findings : Fixable(Findings[i]) # {}})
    /\ session # "error" => \A f \in DOMAIN Original :
                               BottomUp(f) => Remains(Original[f], Cured(f), disk[f])

LEMMA CuredInit == Init => CuredInv
<1> SUFFICES ASSUME Init
             PROVE  CuredInv
  OBVIOUS
<1>1. disk = Original /\ carried = <<>>
  BY DEF Init
<1>2. ASSUME NEW f \in DOMAIN Original
      PROVE  Remains(Original[f], Cured(f), disk[f])
  <2> DEFINE text == Original[f]
  <2>1. text \in Seq(ToSet(text)) /\ DOMAIN text = 1..Len(text) /\ Len(text) \in Nat
    BY FixesAssumption
  <2>2. Cured(f) = {}
    BY <1>1 DEF Cured
  <2> HIDE DEF text
  <2>3. ToSet(text) = {text[n] : n \in DOMAIN text \ {}}
    BY DEF ToSet
  <2>4. InOrder(text, Orderly(text))
    <3>1. ASSUME NEW m \in DOMAIN text, NEW n \in DOMAIN text, m < n
          PROVE  <<text[m], text[n]>> \in Orderly(text)
      <4> DEFINE p == <<m, n>>
      <4>1. p \in (DOMAIN text) \X (DOMAIN text) /\ p[1] = m /\ p[2] = n
        OBVIOUS
      <4> HIDE DEF p
      <4>2. QED
        BY <3>1, <4>1 DEF Orderly
    <3>2. QED
      BY <3>1 DEF InOrder
  <2>5. Remains(text, {}, text)
    BY <2>1, <2>3, <2>4 DEF Remains
  <2>6. QED
    BY <1>1, <2>2, <2>5 DEF text
<1>3. QED
  BY <1>1, <1>2 DEF CuredInv

\* A fix carried out keeps what was fixed upwards exact.
LEMMA FixKeepsCured ==
    ASSUME CuredInv, session # "error", NEW i \in DOMAIN Findings, Fixable(Findings[i]) # {},
           NEW file, file = OnlyEdit(i).file,
           disk' = [f \in DOMAIN disk |-> IF f = file THEN apply_edit(disk[file], OnlyEdit(i)) ELSE disk[f]],
           carried' = Append(carried, i)
    PROVE  CuredInv'
<1> DEFINE e == OnlyEdit(i)
           fixable == {j \in DOMAIN Findings : Fixable(Findings[j]) # {}}
<1>1. /\ carried \in Seq(fixable) /\ i \in fixable
      /\ DOMAIN disk = DOMAIN Original
  BY DEF CuredInv
<1> HIDE DEF fixable
<1>2. /\ Len(carried) \in Nat /\ DOMAIN carried = 1..Len(carried)
      /\ DOMAIN carried' = 1..(Len(carried) + 1)
      /\ carried'[Len(carried) + 1] = i
      /\ \A k \in DOMAIN carried : carried'[k] = carried[k]
      /\ carried' \in Seq(fixable)
  BY <1>1
<1>3. ASSUME NEW f \in DOMAIN Original, BottomUp(f)'
      PROVE  Remains(Original[f], Cured(f)', disk'[f])
  <2>1. Cured(f)' = Cured(f) \cup Covered(i, f)
    BY <1>2 DEF Cured
  <2>2. BottomUp(f)
    BY <1>2, <1>3 DEF BottomUp
  <2>3. Remains(Original[f], Cured(f), disk[f])
    BY <2>2 DEF CuredInv
  <2>4. CASE f # file
    <3>1. Covered(i, f) = {}
      BY <2>4, OneEditPerFix
    <3>2. disk'[f] = disk[f]
      BY <1>1, <2>4
    <3>3. QED
      BY <2>1, <2>3, <3>1, <3>2
  <2>5. CASE f = file
    <3>1. Covered(i, f) = e.start_line..e.end_line
      BY <2>5, OneEditPerFix
    <3>2. disk'[f] = apply_edit(disk[f], e)
      BY <1>1, <2>5
    <3>3. /\ e.new_text = <<>>
          /\ e.end_line \in 1..Len(Original[f])
          /\ e.start_line \in 1..e.end_line
      BY <2>5, OneEditPerFix, FixesAssumption
    <3>4. /\ Original[f] \in Seq(ToSet(Original[f]))
          /\ \A m, n \in DOMAIN Original[f] : m # n => Original[f][m] # Original[f][n]
      BY FixesAssumption
    <3>5. Cured(f) \subseteq Int
      <4>1. ASSUME NEW j \in fixable
            PROVE  Covered(j, f) \subseteq Int
        <5>1. Ranged({OnlyEdit(j)})
          BY OneEditPerFix DEF fixable
        <5>2. OnlyEdit(j).start_line..OnlyEdit(j).end_line \subseteq Int
          BY <5>1 DEF Ranged
        <5>3. QED
          BY <5>2, OneEditPerFix DEF fixable
      <4>2. \A k \in DOMAIN carried : carried[k] \in fixable
        BY <1>1
      <4>3. QED
        BY <4>1, <4>2 DEF Cured
    <3>6. e.end_line \in Covered(i, f)
      <4>1. Len(Original[f]) \in Nat
        BY <3>4
      <4> HIDE DEF e
      <4>2. QED
        BY <3>1, <3>3, <4>1
    <3>7. \A m \in Cured(f) : e.end_line < m
      <4>1. ASSUME NEW k \in DOMAIN carried, NEW m \in Covered(carried[k], f)
            PROVE  e.end_line < m
        <5>1. k < Len(carried) + 1 /\ k \in DOMAIN carried' /\ Len(carried) + 1 \in DOMAIN carried'
          BY <1>2
        <5>2. m \in Covered(carried'[k], f) /\ e.end_line \in Covered(carried'[Len(carried) + 1], f)
          BY <1>2, <3>6, <4>1
        <5>3. \A a, b \in DOMAIN carried' :
                 a < b => \A x \in Covered(carried'[a], f), y \in Covered(carried'[b], f) : y < x
          BY <1>3 DEF BottomUp
        <5> HIDE DEF e
        <5>4. QED
          BY <5>1, <5>2, <5>3
      <4>2. QED
        BY <4>1 DEF Cured
    <3> HIDE DEF e
    <3>8. Remains(Original[f], Cured(f) \cup (e.start_line..e.end_line), apply_edit(disk[f], e))
      BY <2>3, <3>3, <3>4, <3>5, <3>7, DeletingAbove
    <3>9. QED
      BY <2>1, <3>1, <3>2, <3>8
  <2>6. QED
    BY <2>4, <2>5
<1>4. DOMAIN disk' = DOMAIN Original
  BY <1>1
<1>5. QED
  BY <1>2, <1>3, <1>4 DEF CuredInv, fixable

LEMMA CuredStep == SessionInv /\ CuredInv /\ [Next]_vars => CuredInv'
<1> SUFFICES ASSUME SessionInv, CuredInv, [Next]_vars
             PROVE  CuredInv'
  OBVIOUS
<1>1. CASE UNCHANGED <<disk, carried>> /\ (session' = "error" \/ session # "error" \/ UNCHANGED session)
  BY <1>1 DEF CuredInv, BottomUp, Cured
<1>2. CASE apply_fix
  <2>1. PICK i \in ToSet(SelectedFinding), unread \in SUBSET DOMAIN disk :
          LET results == orchestrate_fixes(<<Findings[i]>>, FALSE)
              files   == {e.file : e \in ToSet(results[1].edits)}
              written == apply_fixes_to_files([f \in files \ unread |-> disk[f]], results)
          IN  /\ Fixable(Findings[i]) # {}
              /\ results[1].applied
              /\ \/ /\ disk' = [f \in DOMAIN disk |->
                                  IF f \in DOMAIN written THEN written[f] ELSE disk[f]]
                    /\ applied' = Append(applied, i)
                    /\ carried' = IF files \cap unread = {} THEN Append(carried, i) ELSE carried
                    /\ UNCHANGED session
                 \/ /\ \E f \in DOMAIN written : disk' \in {disk, [disk EXCEPT ![f] = <<>>]}
                    /\ session' = "error"
                    /\ UNCHANGED <<applied, carried>>
    BY <1>2 DEF apply_fix
  <2>2. i \in DOMAIN Findings
    <3>1. /\ selected \in Nat /\ selected < visible_count
          /\ i = grouped_flat_findings[selected + 1]
      BY SelectedIsHighlighted DEF SessionInv, SelectionInv
    <3>2. selected + 1 \in 1..visible_count
      BY <3>1, RowsAreCounted
    <3>3. QED
      BY <3>1, <3>2, RowsAreVisible DEF SessionInv, visible_findings
  <2> DEFINE results == orchestrate_fixes(<<Findings[i]>>, FALSE)
             files   == {e.file : e \in ToSet(results[1].edits)}
             texts   == [f \in files \ unread |-> disk[f]]
             written == apply_fixes_to_files(texts, results)
             file    == OnlyEdit(i).file
  <2>3. Fixable(Findings[i]) # {} /\ results[1].applied /\ session # "error"
    BY <1>2, <2>1 DEF apply_fix
  <2>4. /\ files = {file}
        /\ apply_fixes_to_files([f \in {file} |-> disk[f]], results)
             = [f \in {file} |-> apply_edit(disk[file], OnlyEdit(i))]
    <3>1. results = orchestrate_fixes(<<Findings[i]>>, FALSE)
      OBVIOUS
    <3> HIDE DEF results
    <3>2. OneFileIsEdited(i, results, disk)
      BY <2>2, <2>3, <3>1, FixOfOneFinding
    <3>3. QED
      BY <3>2, Zenon DEF OneFileIsEdited
  <2>5. CASE /\ disk' = [f \in DOMAIN disk |-> IF f \in DOMAIN written THEN written[f] ELSE disk[f]]
             /\ carried' = IF files \cap unread = {} THEN Append(carried, i) ELSE carried
    <3> HIDE DEF results, files, file
    <3>1. CASE files \cap unread = {}
      <4>1. files \ unread = {file}
        BY <2>4, <3>1
      <4>2. written = [f \in {file} |-> apply_edit(disk[file], OnlyEdit(i))]
        BY <2>4, <4>1
      <4> HIDE DEF texts, written
      <4>3. disk' = [f \in DOMAIN disk |-> IF f = file THEN apply_edit(disk[file], OnlyEdit(i)) ELSE disk[f]]
        BY <2>5, <4>2
      <4>4. carried' = Append(carried, i)
        BY <2>5, <3>1
      <4>5. file = OnlyEdit(i).file
        BY DEF file
      <4>6. QED
        BY <2>2, <2>3, <4>3, <4>4, <4>5, FixKeepsCured
    <3>2. CASE files \cap unread # {}
      <4>1. files \ unread = {}
        BY <2>4, <3>2
      <4>2. DOMAIN texts = {}
        BY <4>1
      <4> HIDE DEF texts
      <4>3. DOMAIN written = {}
        BY <4>2 DEF apply_fixes_to_files
      <4> HIDE DEF written
      <4>4. DOMAIN disk' = DOMAIN disk /\ \A f \in DOMAIN disk : disk'[f] = disk[f]
        BY <2>5, <4>3
      <4>5. carried' = carried
        BY <2>5, <3>2
      <4>6. session # "error" /\ CuredInv
        BY <2>3
      <4>7. QED
        BY <4>4, <4>5, <4>6 DEF CuredInv, BottomUp, Cured
    <3>3. QED
      BY <3>1, <3>2
  <2>6. CASE /\ \E f \in DOMAIN written : disk' \in {disk, [disk EXCEPT ![f] = <<>>]}
             /\ session' = "error"
             /\ UNCHANGED carried
    <3> HIDE DEF written
    <3>1. DOMAIN disk' = DOMAIN disk
      BY <2>6
    <3>2. QED
      BY <2>6, <3>1 DEF CuredInv
  <2> HIDE DEF results, files, texts, written
  <2>7. QED
    BY <2>1, <2>5, <2>6 DEF results, files, texts, written
<1>3. QED
  BY <1>1, <1>2 DEF Next, vars, move_up, move_down, move_to_top, move_to_bottom, Select,
                    cycle_group, toggle_severity, quit

\* Fixing upwards is exact, for every tree and list of findings, however files,
\* filters and groups alternate, until a write fails.
THEOREM FixingUpwardsIsExact == Spec => []BottomUpFixesAreExact
<1>1. CuredInv => BottomUpFixesAreExact
  BY DEF CuredInv, BottomUpFixesAreExact, Remains, Exact
<1>2. QED
  BY <1>1, SessionInit, SessionStep, CuredInit, CuredStep, PTL DEF Spec
=============================================================================
