------------------------------ MODULE FixCommand ------------------------------
(***************************************************************************)
(* `chaffra fix` (cmd_fix in main.rs) over a source tree that another      *)
(* program, the editor, may save into at any time.  The command analyses   *)
(* the files as it read them, decides with the fix engine, reads the files *)
(* again, edits what it read and writes the files one by one, each with    *)
(* fs::write: truncate, then write.  The first error ends the command with *)
(* the remaining files unwritten.                                          *)
(*                                                                         *)
(* Abstractions.  Lines are distinct values.  The analyses are external to *)
(* the engine and stand for dead-code detection: a symbol is dead code     *)
(* with the lines SymbolLines[s], and is found when its file holds all of  *)
(* those lines, in one block.  Reading a tree, here and at the second      *)
(* read, is one step.                                                      *)
(***************************************************************************)
EXTENDS FixEngine, FiniteSets

CONSTANTS
    Files,
    Original,       \* the lines of each file
    Symbols,        \* the dead symbols
    SymbolFile, SymbolLines, RuleOf,
    RuleFilters,    \* the --rule arguments in use, AnyRule when it is omitted
    EditorLines,    \* the lines an editor may insert
    Faults,         \* which of "analysis", "read", "open", "write", "crash" may happen
    AnyRule

Innocent(f) == ToSet(Original[f]) \ UNION {SymbolLines[s] : s \in Symbols}

\* The lines of a file are distinct, a symbol is a block of them, and the
\* editor has lines of its own.
ASSUME TreeAssumption ==
    /\ IsFiniteSet(Symbols)
    /\ SymbolFile \in [Symbols -> Files]
    /\ Original = [f \in Files |-> Original[f]]
    /\ \A f \in Files :
          /\ Original[f] \in Seq(ToSet(Original[f]))
          /\ \A i, j \in DOMAIN Original[f] : i # j => Original[f][i] # Original[f][j]
          /\ ToSet(Original[f]) \cap EditorLines = {}
    /\ \A s \in Symbols : \E m, n \in DOMAIN Original[SymbolFile[s]] :
          m <= n /\ SymbolLines[s] = {Original[SymbolFile[s]][i] : i \in m..n}

VARIABLES
    disk,           \* the lines of each file
    pc, dry_run, rule,
    findings,       \* by symbol
    results,        \* the FixResult of each finding
    new_contents,   \* what is still to be written, by file
    writing,        \* the file truncated and not yet written, or none
    outcome,        \* of the last run: "none", "ok" or "error"
    raced,          \* history: the files saved by the editor while a run was between
                    \* its analysis and its end
    unread,         \* history: the files the last run could not read again
    damaged         \* history: the files a run was writing when it was cut short

local == <<findings, results, new_contents>>
history == <<raced, unread, damaged>>
vars == <<disk, pc, dry_run, rule, local, writing, outcome, history>>

Lines(f) == ToSet(Original[f]) \cup EditorLines

NoFunction == [x \in {} |-> x]

\* The positions of a symbol's lines in a text of its file.
Positions(text, s) == {i \in DOMAIN text : text[i] \in SymbolLines[s]}

\* External: the analyses report a dead symbol with an edit that deletes it.
Detected(text, s) ==
    LET at == Positions(text, s)
    IN  /\ {text[i] : i \in at} = SymbolLines[s]
        /\ at = Min(at)..Max(at)

FindingOf(s, at) ==
    [rule_id |-> RuleOf[s],
     actions |-> <<[auto_fixable |-> TRUE,
                    edits |-> <<[file       |-> SymbolFile[s],
                                 start_line |-> Min(at),
                                 end_line   |-> Max(at),
                                 new_text   |-> <<>>]>>]>>]

\* The dead symbols as the tree is now.
Dead == {s \in Symbols : Detected(disk[SymbolFile[s]], s)}

Init ==
    /\ disk = Original
    /\ pc = "idle"
    /\ dry_run = FALSE
    /\ rule \in RuleFilters
    /\ findings = NoFunction
    /\ results = NoFunction
    /\ new_contents = NoFunction
    /\ writing = {}
    /\ outcome = "none"
    /\ raced = {}
    /\ unread = {}
    /\ damaged = {}

Start(dry, filter) ==
    /\ pc = "idle"
    /\ pc' = "analyse"
    /\ dry_run' = dry
    /\ rule' = filter
    /\ findings' = NoFunction
    /\ results' = NoFunction
    /\ new_contents' = NoFunction
    /\ outcome' = "none"
    /\ unread' = {}
    /\ UNCHANGED <<disk, writing, raced, damaged>>

\* Discovery, the analyses, the rule filter and the decisions of the engine.
Analyse ==
    /\ pc = "analyse"
    /\ findings' = [s \in {t \in Dead : rule \in {AnyRule, RuleOf[t]}} |->
                       FindingOf(s, Positions(disk[SymbolFile[s]], s))]
    /\ results' = orchestrate_fixes(findings', dry_run)
    /\ IF collect_fixable(findings') = {} \/ dry_run
       THEN pc' = "idle" /\ outcome' = "ok"
       ELSE pc' = "read" /\ UNCHANGED outcome
    /\ UNCHANGED <<disk, dry_run, rule, new_contents, writing, history>>

\* The `?` of the dead-code analysis ends the command before anything is touched.
AnalysisFails ==
    /\ "analysis" \in Faults
    /\ pc = "analyse"
    /\ pc' = "idle"
    /\ outcome' = "error"
    /\ UNCHANGED <<disk, dry_run, rule, local, writing, history>>

\* The files are read again, as they are now, and edited in memory.  One that
\* cannot be read is passed over in silence.
ReadBack ==
    /\ pc = "read"
    /\ unread' \in IF "read" \in Faults THEN SUBSET {SymbolFile[s] : s \in DOMAIN findings}
                                        ELSE {{}}
    /\ LET read == {SymbolFile[s] : s \in DOMAIN findings} \ unread'
       IN  new_contents' = apply_fixes_to_files([f \in read |-> disk[f]], results)
    /\ pc' = "write"
    /\ UNCHANGED <<disk, dry_run, rule, findings, results, writing, outcome, raced, damaged>>

\* fs::write truncates a file, the hash map choosing which is next.
Truncate(f) ==
    /\ pc = "write"
    /\ f \in DOMAIN new_contents
    /\ disk' = [disk EXCEPT ![f] = <<>>]
    /\ writing' = {f}
    /\ pc' = "fill"
    /\ UNCHANGED <<dry_run, rule, local, outcome, history>>

\* Mutant: returns after the first file.
Fill_StopsAtFirst(f) ==
    /\ pc = "fill"
    /\ f \in writing
    /\ disk' = [disk EXCEPT ![f] = new_contents[f]]
    /\ new_contents' = [g \in DOMAIN new_contents \ {f} |-> new_contents[g]]
    /\ writing' = {}
    /\ pc' = "idle"
    /\ outcome' = "ok"
    /\ UNCHANGED <<dry_run, rule, findings, results, history>>

\* Having truncated the file, fs::write writes it.
Fill(f) ==
    /\ pc = "fill"
    /\ f \in writing
    /\ disk' = [disk EXCEPT ![f] = new_contents[f]]
    /\ new_contents' = [g \in DOMAIN new_contents \ {f} |-> new_contents[g]]
    /\ writing' = {}
    /\ pc' = "write"
    /\ UNCHANGED <<dry_run, rule, findings, results, outcome, history>>

Done ==
    /\ pc = "write"
    /\ new_contents = NoFunction
    /\ pc' = "idle"
    /\ outcome' = "ok"
    /\ UNCHANGED <<disk, dry_run, rule, local, writing, history>>

\* An error, at the opening of a file or in the middle of writing it.
WriteFails ==
    /\ \/ "open" \in Faults /\ pc = "write" /\ new_contents # NoFunction
       \/ "write" \in Faults /\ pc = "fill"
    /\ pc' = "idle"
    /\ outcome' = "error"
    /\ damaged' = damaged \cup writing
    /\ writing' = {}
    /\ UNCHANGED <<disk, dry_run, rule, local, raced, unread>>

Crash ==
    /\ "crash" \in Faults
    /\ pc # "idle"
    /\ pc' = "idle"
    /\ outcome' = "error"
    /\ damaged' = damaged \cup writing
    /\ writing' = {}
    /\ UNCHANGED <<disk, dry_run, rule, local, raced, unread>>

\* The editor saves a file with a line of its own at the top, which moves every
\* other line; the moment between truncation and writing is left out.
EditorSaves(f, line) ==
    /\ \A g \in Files : line \notin ToSet(disk[g])
    /\ f \notin writing
    /\ disk' = [disk EXCEPT ![f] = <<line>> \o @]
    /\ raced' = IF pc \in {"idle", "analyse"} THEN raced ELSE raced \cup {f}
    /\ UNCHANGED <<pc, dry_run, rule, local, writing, outcome, unread, damaged>>

Next ==
    \/ \E dry \in BOOLEAN, filter \in RuleFilters : Start(dry, filter)
    \/ Analyse \/ AnalysisFails \/ ReadBack \/ Done \/ WriteFails \/ Crash
    \/ \E f \in Files : Truncate(f) \/ Fill(f)
    \/ \E f \in Files, line \in EditorLines : EditorSaves(f, line)

Spec == Init /\ [][Next]_vars

-----------------------------------------------------------------------------
(* Properties *)

\* No line outside the dead symbols is ever deleted from a file that no one
\* else saved between the analysis and the last write of a run, and that no run
\* was cut short in writing: a failed or killed run costs one file at most.
InnocentLinesSurvive ==
    \A f \in Files \ (raced \cup damaged \cup writing) : Innocent(f) \subseteq ToSet(disk[f])

\* A file under repair is either as it was or fixed, symbol by symbol: a line of
\* a symbol is missing only when a symbol it belongs to is gone altogether.
SymbolsGoWhole ==
    \A s \in Symbols : SymbolFile[s] \notin raced \cup damaged \cup writing =>
        LET text == ToSet(disk[SymbolFile[s]])
        IN  \A line \in SymbolLines[s] \ text :
                \E t \in Symbols : /\ SymbolFile[t] = SymbolFile[s]
                                   /\ line \in SymbolLines[t]
                                   /\ SymbolLines[t] \cap text = {}

\* When the command reports success, what it calls applied is gone and what it
\* calls skipped is still there, unless the editor was at the same file or the
\* file could not be read again: cmd_fix reports "applied" for such a file too.
ReportIsTruthful ==
    outcome = "ok" =>
        \A s \in DOMAIN results : SymbolFile[s] \notin raced \cup unread =>
            LET present == SymbolLines[s] \cap ToSet(disk[SymbolFile[s]])
            IN  IF results[s].applied THEN present = {} ELSE present = SymbolLines[s]

\* Of the symbols dead from the start, a successful unfiltered run leaves only
\* those that overlap another: a second run has nothing to apply to them.
OneRunIsEnough ==
    (outcome = "ok" /\ ~ dry_run /\ rule = AnyRule /\ raced \cup unread = {}) =>
        \A s \in Dead : \E t \in Dead \ {s} :
            SymbolFile[t] = SymbolFile[s] /\ SymbolLines[s] \cap SymbolLines[t] # {}
=============================================================================
