------------------------------ MODULE FixEngine ------------------------------
(***************************************************************************)
(* The autofix engine of chaffra-autofix: planning the edits of a list of  *)
(* findings, detecting conflicts (conflict.rs), deciding per finding       *)
(* (lib.rs) and editing the text of a file (engine.rs).                    *)
(*                                                                         *)
(* A file is the sequence of its lines, without their terminators.  An     *)
(* edit replaces the lines start_line..end_line of its file, counted from  *)
(* 1, by the lines of new_text; start_line <= end_line, as in every edit   *)
(* the analyses make.  A finding is a record with a rule_id and a sequence *)
(* of actions, each auto_fixable or not, with a sequence of edits.         *)
(***************************************************************************)
EXTENDS Integers, Sequences, SequencesExt

Fixable(finding) == {a \in DOMAIN finding.actions : finding.actions[a].auto_fixable}

\* A planned edit is its place: finding, action, position in the action.
\* Every fixable action is planned.
plan_edits(findings) ==
    UNION {UNION {{i} \X {a} \X DOMAIN findings[i].actions[a].edits :
                      a \in Fixable(findings[i])} :
              i \in DOMAIN findings}

PlannedEdit(findings, place) == findings[place[1]].actions[place[2]].edits[place[3]]

edits_overlap(a, b) ==
    /\ a.file = b.file
    /\ a.start_line <= b.end_line
    /\ b.start_line <= a.end_line

\* The findings with an edit that overlaps another planned edit.
detect_conflicts(findings) ==
    {i \in DOMAIN findings :
        \E x, y \in plan_edits(findings) :
            /\ x[1] = i
            /\ x # y
            /\ edits_overlap(PlannedEdit(findings, x), PlannedEdit(findings, y))}

collect_fixable(findings) == {i \in DOMAIN findings : Fixable(findings[i]) # {}}

\* Only the first fixable action is ever applied.
FirstFixable(finding) ==
    finding.actions[CHOOSE a \in Fixable(finding) : \A b \in Fixable(finding) : a <= b]

FixResult(applied, edits, reason) == [applied |-> applied, edits |-> edits, reason |-> reason]

orchestrate_fixes(findings, dry_run) ==
    LET conflicts == detect_conflicts(findings)
    IN  [i \in DOMAIN findings |->
            IF Fixable(findings[i]) = {} THEN FixResult(FALSE, <<>>, "no auto-fix available")
            ELSE LET edits == FirstFixable(findings[i]).edits
                 IN  IF i \in conflicts THEN FixResult(FALSE, edits, "overlapping edits")
                     ELSE IF dry_run THEN FixResult(FALSE, edits, "dry run")
                     ELSE FixResult(TRUE, edits, "applied")]

\* Mutant: the end of the range is taken as exclusive.
apply_edit_ExclusiveEnd(lines, edit) ==
    IF edit.start_line > Len(lines) THEN lines
    ELSE SubSeq(lines, 1, edit.start_line - 1)
             \o edit.new_text
             \o SubSeq(lines, edit.end_line, Len(lines))

\* Lines past the end are ignored; the range is cut at the end of the file.
apply_edit(lines, edit) ==
    IF edit.start_line > Len(lines) THEN lines
    ELSE SubSeq(lines, 1, edit.start_line - 1)
             \o edit.new_text
             \o SubSeq(lines, edit.end_line + 1, Len(lines))

Topmost(edits) == CHOOSE e \in edits : \A d \in edits : e.start_line <= d.start_line
Bottommost(edits) == CHOOSE e \in edits : \A d \in edits : e.start_line >= d.start_line

\* Mutant: applies from top to bottom.
apply_edits_to_content_TopDown(lines, edits) ==
    MapThenFoldSet(LAMBDA e, content : apply_edit(content, e), lines,
                   LAMBDA e : e, Bottommost, edits)

\* From the bottom up, the topmost last, so that an edit leaves the numbers of
\* the lines above it alone.
apply_edits_to_content(lines, edits) ==
    MapThenFoldSet(LAMBDA e, content : apply_edit(content, e), lines,
                   LAMBDA e : e, Topmost, edits)

\* Mutant: applies what was skipped as well.
AppliedEdits_All(results, file) ==
    {e \in UNION {ToSet(results[i].edits) : i \in DOMAIN results} : e.file = file}

AppliedEdits(results, file) ==
    {e \in UNION {ToSet(results[i].edits) : i \in {j \in DOMAIN results : results[j].applied}} :
        e.file = file}

\* Files that could not be read are left out, though their results say applied.
apply_fixes_to_files(file_contents, results) ==
    [f \in {g \in DOMAIN file_contents : AppliedEdits(results, g) # {}} |->
        apply_edits_to_content(file_contents[f], AppliedEdits(results, f))]
=============================================================================
