---------------------------- MODULE MCTuiSession ----------------------------
(* A small instance of TuiSession for TLC: two files of distinct lines, four *)
(* findings that delete a line or two, one inside another, and one without a *)
(* fix.                                                                      *)
EXTENDS TuiSession

MCOriginal == [a |-> <<"a1", "dead1", "a2", "dead2", "dead2b", "a3">>,
               b |-> <<"dead3", "b1", "b2">>]

Deletion(f, from, to) ==
    <<[auto_fixable |-> TRUE,
       edits |-> <<[file |-> f, start_line |-> from, end_line |-> to, new_text |-> <<>>]>>]>>

\* Dead code first, in the order of the files, then complexity.
MCFindings == <<
    [file |-> "b", line |-> 1, rule_id |-> "unused-import", severity |-> "warning",
     actions |-> Deletion("b", 1, 1)],
    [file |-> "a", line |-> 2, rule_id |-> "unused-import", severity |-> "warning",
     actions |-> Deletion("a", 2, 2)],
    [file |-> "a", line |-> 4, rule_id |-> "unused-type", severity |-> "warning",
     actions |-> Deletion("a", 4, 5)],
    [file |-> "a", line |-> 5, rule_id |-> "unused-function", severity |-> "warning",
     actions |-> Deletion("a", 5, 5)],
    [file |-> "a", line |-> 6, rule_id |-> "high-complexity", severity |-> "error",
     actions |-> <<>>]>>

MCLabels == <<"a", "b", "error", "high-complexity", "info", "unused-function", "unused-import",
              "unused-type", "warning">>

\* The alphabetical order of the labels.
MCBefore(x, y) == \E i, j \in DOMAIN MCLabels : i < j /\ MCLabels[i] = x /\ MCLabels[j] = y
=============================================================================
