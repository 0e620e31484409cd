# chaffra in TLA+

chaffra is a code-analysis command line tool in Rust: analysis modules look for
dead code, duplication, complexity and so on; a fix engine edits the source
tree; a telemetry subsystem reports what runs found, under an audience that
decides who may see what; and a TUI, a git hook, an LSP and an MCP server, a
watch mode and a plugin host are ways into the same analyses. This directory
holds TLA+ models of these parts, the TLC configurations that check them on
small instances, and TLAPS proofs of the most important results. Two kinds of
model appear: state machines, where correctness depends on the order of things
(processes, threads, crashes, failing writes, long key sequences), and
operators over small inputs, for the analyses that keep no state and whose
correctness is an algorithm's.

Paths below are relative to the root of the repository;
`telemetry/collector.rs` is short for
`src/crates/chaffra-telemetry/src/collector.rs`, and so on.

Contents: [inventory](#1-inventory), [plan](#2-plan),
[modules](#3-modules), [runs](#4-runs), [proofs](#5-proofs),
[findings](#6-where-code-and-documentation-disagree),
[what the code does that a reader may not expect](#7-what-the-models-make-visible),
[what is not modelled](#8-what-is-not-modelled), [running](#9-running-it).

## 1. Inventory

For each component: the state it keeps, its operations, whom it talks to, what
is hard about it, and what makes it correct.

**Telemetry collector** (`telemetry/collector.rs`, `metrics.rs`,
`grpc_service.rs`). State: one mutex around metric definitions, data points,
spans, per-module durations, errors and finding counts, severity totals, the
fingerprints of the findings, and `untrusted_runtime`, the names that external
modules have submitted. Operations: some twenty `record_*`/`set_*`/`register_*`
methods, a trusted and an untrusted version of each that takes names from
outside, `snapshot`, `reset`, and `TelemetrySnapshot::project_for_audience`.
Shared through clones by the analysis, the gRPC service and the HTTP handlers.
Hard: the order of trusted and untrusted recordings under one name; what a
projection leaves inferable; projecting what was already projected. Correct:
restricted audiences never see external data, the user never sees operator
data, counters agree with the points recorded.

**Telemetry run** (`run_with_telemetry` in `cli/main.rs`, `telemetry/churn.rs`,
`sampling.rs`, `config.rs`). State: the file `.chaffra-telemetry-state.json`
(findings of the previous run) shared by every chaffra process started in the
directory; per process the merged configuration, a fresh collector, the current
and the previous findings. Operations: merge flags and file into an audience,
audit, analyse, load the state, decide whether to emit, flush, save. Hard:
two processes at once, crashes between two steps, failing flushes and saves,
off and failed runs in between. Correct: nothing is remembered as reported that
was not settled; churn is against a real earlier set; reporting settles; an
explicit `--telemetry off` leaves no trace.

**Telemetry audit log** (`telemetry/audit_log.rs`). State: an append-only file
of JSON lines. Operations: `append_event`, `read_log`. Hard: a line and its
newline are two writes to an unbuffered file; errors are dropped. Correct: what
was appended alone is read back in order, and stays.

**Fix engine** (`autofix/engine.rs`, `conflict.rs`, `lib.rs`). No state: from
findings to planned edits, conflicts, decisions, and edited text. Hard: ranges
that touch, nest, repeat or pass the end of the file; alternatives of one
finding; edits applied one after another to moving lines. Correct: what is
applied gives the text a simultaneous edit would, and no two applied findings
share a line.

**Fix command** (`cmd_fix` in `cli/main.rs`). State: the source tree on disk,
the findings with line numbers of the first reading. Operations: discover and
analyse, decide, read again, write file by file. Talks to the engine and the
analyses; shares the disk with editors. Hard: a save by an editor between the
two readings, a file that cannot be read again, the second of two writes
failing, death inside `fs::write`. Correct: only dead code is deleted, files
are not left half fixed, the report is true, one run is enough.

**Terminal UI** (`tui/app.rs`, `run_tui` in `cli/main.rs`). State: the findings
of the start, filters, grouping, selection, action queue; the disk.
Operations: one per key. Hard: long key sequences that change the rows under
the selection; fixes by line numbers that earlier fixes made stale. Correct:
keys act on the row that is highlighted; a fix removes what its finding names.

**Cache metrics** (`telemetry/cache_metrics.rs`): four relaxed atomics; `flush`
reads hits and misses and then again for the rate. Hard: the numbers of one
flush belong to no one moment. Correct: each was true at some moment of the
flush.

**Plugin host** (`plugin/host.rs`, `client.rs`, `config.rs`) and **module host**
(`core/module.rs`, `core/grpc.rs`): per external module a mutex around a cached
channel, the child or the container started for it, and a cached description;
per host the modules by id, and in the gRPC host a second mutex for each.
Operations: registration, analyze, explain, list, spawning, connection attempts
with growing pauses, `Drop`. Hard: a failed connection after a successful
start, a process that dies or falls mute behind a cached channel, two threads at
once, a `docker stop` that fails. Correct: nothing is started twice, nothing
docker stops outlives the host, calls return.

**Git hook** (`autofix/hooks.rs`): the file `.git/hooks/pre-commit`, maybe with
lines of the user's in it; install, uninstall, query. Hard: a failing step
after a succeeding one, two commands at once, one of which may read what the other
has just emptied. Correct: the user's lines stay.

**LSP server** (`cli/lsp.rs`): no memory of its own; publishes diagnostics per
open and save, answers hover. Hard: what the client shows is the last thing
published, and the server reads the disk when it handles a message. Correct:
the diagnostics of what was saved are what is shown; one answer per request.

**MCP server** (`mcp/server.rs`, `tools.rs`): an `initialized` flag; JSON-RPC
lines; four tools, one of which shows telemetry under an audience read from the
project at every call. Hard: input that is not text, and output that cannot be
written. Correct: one answer per request, none per notification;
operator data only where the project opts in.

**Watch mode** (`cli/watch.rs`): a debouncer's channel and the files. Hard: files
that change or go between the event and the reading; dead code depends on the
files of the batch. Correct: the last output about a file is about its last contents.

**Architecture** (`arch/scc.rs`, `arch/lib.rs`, `parse/graph.rs`): cycles by
Tarjan's algorithm; zones, presets and rules for imports between zones. Correct:
the cycles are the classes of mutual reachability; the innermost zone is closed.

**Dead code** (`deadcode/lib.rs`) with **parsing** (`parse/`): symbols, imports
and references of a syntax tree, the live symbols as a fixpoint from entry
points, five rules, suppression comments. Correct: what is removed is used by
nothing that stays; a suppression is what a comment says.

**Duplication** (`duplication/lib.rs`): tokens, windows, extension, families.
Correct: every repeated window lies in a family, families are apart.

**Complexity, health, hotspots** (`complexity/`, `health/`, `hotspot/`),
**audit verdict, impact** (`audit/`, `impact/`, `cli/main.rs`): numbers of trees and findings, a
gate and a comparison. Correct: worse code is never rated better.

**Pattern rules** (`security/`, `cicd-security/`, `ai-quality/`,
`llm-defense/`, `frameworks/`) and the **catalogue** of rules that `explain`
searches: line-wise rules, taint within a function. Correct: a finding stands
on a line that causes it; a chain of assignments from a source to a sink is
reported; `explain` answers for the module that reported.

**Monorepo, migration, discovery** (`monorepo/`, `migrate/`, `parse/discovery.rs`):
files of other tools, walked line by line, and which files are analysed at all.
Correct: lists are carried over whole; a file is analysed unless it is ignored.

**Telemetry backends and dashboard, management server, output formats, protocol
and types, coverage gate**: formatting, I/O and generated code (section 8).

Interaction. Every analysis command runs inside `run_with_telemetry`, which
owns a collector, writes the audit log, and reads and writes the state file;
`cmd_fix` and `run_tui` use the engine on what the analyses found. So
TelemetryRun takes the collector as private to a process (modelled by
TelemetryCollector) and the audit log as written once (modelled by AuditLog);
FixCommand and TuiSession extend FixEngine and call its operators;
WorkspaceServices composes the services that share a workspace, its user and its
files; AnalysisInputs and TreeAnalyses use the analyses, and FixEngine once more,
as functions.

The hazards of each component, at their lines, are listed in PROJECT.json with
the properties that cover them.

## 2. Plan

Done, in this order: TelemetryCollector; TelemetryRun with the abstract
specification ChangeReports; AuditLog; FixEngine; FixCommand; TuiSession; the
proofs of TelemetryCollector, TelemetryRun, FixEngine and TuiSession; PluginHost;
the services (GitHook, LspServer, McpServer, WatchLoop, ParseCache) and their
composition; the analyses and their common input run; WorkspaceServicesProofs;
the remaining collector properties and PluginHostProofs; the proofs of what
the fix engine's fold computes and of FixCommand over it, of both properties of
AuditLog, of the rows and the fixes of TuiSession, of the collector's counters
and of the commit hook; AnalysisProofs, for which the input run was split into
the six analyses that can be reasoned about (AnalysisInputs) and the others
(TreeAnalyses), and their operators rewritten without RECURSIVE. Every safety and
action property of the modules that keep state is now a theorem, and so are five
properties of the analyses and the part of a sixth that is about audits.

What is left, most important first:

- the other analyses (TreeAnalyses) are only model-checked, because they walk trees
  and call stacks (section 5, at the end); `strongconnect` is a recursive function
  already, so that Tarjan's algorithm is the one nearest to a proof;
- the extraction of symbols from Java and TypeScript in the depth of Go and
  Python;
- precedence and validation in `core/config.rs`, for which Migration and
  McpServer now have an external predicate.

## 3. Modules

Throughout: one action per method, handler or file operation; variables,
actions and operators keep the names of the source; a definition named
`X_Something` next to `X` is a plausible bug in `X`, used to show that a
property notices it; variables marked *history* are read by properties only.
Names, fingerprints, lines and texts are model values, numbers or members of
small sets; where one text may lie inside another it is a tuple of pieces.

### TelemetryCollector

`collector.rs`, `metrics.rs`, `grpc_service.rs`. Every method locks the mutex
for all of its body, so each is one atomic action and the threads calling them
are the disjuncts of `Next`: `InProcess` (the analyses and the command) and
`Ingress` (the three gRPC methods). `snapshot` and `project_for_audience` are
operators of the state; `View(audience)` is their composition, what a consumer
holds. A metric name is a model value or `<<module, key>>` for the formatted
`chaffra.module.<id>.<key>`. A point carries `src`, a history field: the code
keeps no provenance on a point, only the set `untrusted_runtime`, and the
properties ask whether that set is enough. `MaxCount` and `MaxPoints` bound the
counters and the stored points.

### TelemetryRun and ChangeReports

`run_with_telemetry` and what it calls. A process steps through `pc`: `Invoke`
(flags and file are merged, `resolve_audience`), `Audit`, `Analyse` or
`AnalysisFails`, `LoadState` with the sampling decision, `Flush`, `OpenState`
(the truncation by `fs::write`), `WriteState`. A failed run sends its report past
sampling (`FlushFailure`), saves nothing and settles nothing. `Crash` may happen at any step;
`Faults` selects crashes, refused flushes and failing saves; `reports` is the last
report the backends took. The state file
holds a finding set, or is absent, empty, or torn; two processes writing at
once leave one text over the tail of the other (`Overwrite`). A rate strictly
between 0 and 1 lets either decision happen. Hash collisions are left out: a
hash is its set.

`ChangeReports` is the abstract promise: a finding set may become the baseline
against which later runs stay silent only when it was settled, that is handed
to the backends or sampled out; the baseline may get lost, which repeats
reports and omits none. `Implements` is the refinement, with
`baseline <- load_state`: what a run would read from the file at this moment.

### AuditLog

`append_event` as its two writes, `WriteLine` and `WriteNewline`, to a file
opened with O_APPEND; `read_log` as the lines that parse, in the order they stand, up to
the first line that is not UTF-8, where the reading ends. `OpenFails`,
`WriteFails` and `Crash` are the faults, all silent as in the code; a write cut short
leaves a `Fragment`, or, cut inside a character of a user's name, a `Broken` one. TelemetryRun
decides *whether* an event is due, AuditLog *how* it arrives. `MaxRuns` bounds
the invocations. The log is one of the services of WorkspaceServices, and its
properties are proved with theirs.

### FixEngine

`plan_edits`, `detect_conflicts`, `orchestrate_fixes`, `apply_edits_to_content`
and `apply_fixes_to_files` as operators on functions from an index to a
finding, so that the same definitions serve a sequence of findings
(AnalysisInputs, TuiSession) and findings named by symbol (FixCommand). The edits of
a file are folded from the bottom up, the topmost last. Text is a sequence of lines; line terminators and the final newline are left out.

### FixCommand

`cmd_fix`: `Start`, `Analyse` (discovery, analyses, rule filter, engine),
`ReadBack`, then `Truncate`/`Fill` for each file in an arbitrary order (the code
iterates over a hash map), `Done`. `AnalysisFails`, `WriteFails`, `Crash` and
files that cannot be read again are the faults; `EditorSaves` is another
program inserting a line at any time, except between the truncation and the
write of that same file. External: what the analyses report (`Detected`,
`FindingOf`), modelled from the edits chaffra-deadcode attaches: a symbol is a
block of lines (`TreeAssumption`). Reading the
tree is one step.

### TuiSession

`App` and the loop of `run_tui`: one action per key, including carrying out
the queued fix, because the loop drains the queue before it reads the next key. A
fix whose file is not read as text leaves the file alone and is reported all the
same: `applied` is what is reported, `carried` what was carried out.
Rows are those that are drawn: filtered, grouped by file, rule or severity,
groups in the order of their labels, any strict total order (`LabelAssumption`);
a fix is one deletion of lines in the file of its finding, as the analyses attach
it (`FixesAssumption`). `MaxFixes` bounds the fixes of a session.


### PluginHost

One model of both hosts (`hostKind`): the trait host calls its modules
directly, the gRPC host takes a mutex per module first (`LockClient`). A call
steps through `client`, `channel` (the channel mutex), `start` (`SpawnCommand`,
`RunContainer`, `UseEndpoint` or `StartFails`), `connect` (one attempt per step)
and `rpc`. `procs` is what the operating system and Docker run: a process may
listen late or never, hold its port and stay mute, die at any time, and find its
port taken. Nothing in the code has a timeout, so whoever speaks to a mute process
waits (`Waits`) until it dies. `runtime` is the tokio runtime the callers are on:
none, one with workers, or one that lives on the caller's own thread (`"here"`),
where `block_on` waits on the thread that would have to connect; the gRPC host
without workers puts every call but registration there (`RuntimeOf`). Without any,
a channel outlives the runtime it was connected on, and its requests fail. `docker
stop` may fail (`Stop`, `unstopped`); the docker commands themselves are taken to
end. A channel is its port, because the transport reconnects by itself. `register` takes
`&mut self`, so nothing runs next to it; a module whose id is taken is dropped,
and with it its container. `explain` without a prefix asks the modules in any
order. `Hosts` names the kinds of host and runtime a behaviour may begin with.
`MaxAttempts`, `MaxProcs` and `MaxCalls` are bounds; the pauses between
attempts are time and left out.

### WorkspaceServices

`WorkspaceServices` composes six modules that each hold one service. They write
nothing in common, so a behaviour runs one of them (`service`) among its users.
The sixth is AuditLog, above.

- `LspServer`: `wire` is standard input. The editor saves, opens, requests and
  notifies; `ServerHandles` is one turn of the server's loop and reads the disk as it
  is then. A message whose answer cannot be written ends the loop
  (`WriteToEditorFails`, `lspUp`). Another program writes files through `OtherWrites`.
- `WatchLoop`: `Emit` is the end of the debouncer's quiet period, `Receive` takes
  a batch and keeps the files that exist, `Analyse` reads, analyses and prints.
  A batch is analysed as a tree of its own, so what is found in a file depends on
  what is read beside it (`Beside`; `company` remembers it). LspServer, which
  analyses one file alone, and WatchLoop see the same `disk` (EditorFiles).
- `McpServer`: one line per step; the telemetry tool loads the configuration
  anew, and the owner edits it between any two lines. A line that is not UTF-8
  (`ServerStops`) or an answer that cannot be written ends the loop (`mcpUp`).
- `GitHook`: each installer reads, opens and empties the file (`fs_write_open`),
  fills it (`fs_write_all`) and changes the mode in steps of their
  own, each of which may fail, the filling half way; what is written over a longer
  text shows its end (`Overlaid`), and what is written after the file was removed is
  written for nobody (`"unlinked"`). A text is a sequence of pieces, because
  uninstalling removes exactly the text of this version's script. The user's
  lines are told apart, so that their order is seen. `MaxPieces` bounds the hooks a
  command starts on.
- `ParseCache`: every load of a flush is a step; a record is one atomic addition.
  Nothing in the source calls this type yet; the threads are those its
  documentation names.

### The analyses

A behaviour picks a kind of analysis and the beginning of an input, completes the
input (`Complete`), and answers; the properties compare the answer with a
definition of what it should be. Inputs are built in two steps so that TLC never
holds one large set of them.

`AnalysisInputs` has the analyses whose answers are proved right: the scan for
suppression comments, dead code, the fixes of findings, the audit of a change, the
flows from sources to sinks, and the zones of the import graph. The set of inputs
(`Seeds`, `Grown`), the extraction of symbols from trees (`Nodes`) and the answers
of the other kinds (`Others`) are parameters, so that its theorems are about any
inputs with the shape its ASSUMEs name and depend on no RECURSIVE operator. `TreeAnalyses` extends it with the other analyses: it defines
what stands for `Nodes` (`ParsedNodes`) and `Others` (`TreeAnswers`), and states
their properties. `MCAnalysisInputs` holds the inputs of the run.

| module | source | represents a file as |
|---|---|---|
| ImportGraph | `arch/`, `parse/graph.rs` | paths and imports as tuples of names |
| Languages, SyntaxSymbols | `parse/parser.rs`, `parse/symbols.rs` | a tree of nodes with kind, text, field, rows |
| Suppressions | `parse/suppression.rs` | lines of tokens: quotes, escapes, comment signs, Go's block comments, marks |
| DeadCode | `deadcode/lib.rs` | the tree and the lines |
| CloneDetection | `duplication/` | lines of tokens |
| Complexity | `complexity/`, `health/`, `hotspot/` | the tree |
| SecurityScan | `security/` | per line its assignment, names and matching patterns |
| CicdScan | `cicd-security/` | the parsed value, and per line the words on it |
| AiQuality, LlmDefense, Frameworks | same names | the tree, and per line the words and calls on it |
| Catalogue | `core/grpc.rs`, every `describe` and `explain` | rules by module |
| Reviews | `audit/`, `impact/`, `cmd_audit` and `cmd_impact` | findings |
| Migration | `migrate/` | parsed values, or trimmed lines; texts that hold a quote, a backslash, an escape or a line end apart from others |
| Workspaces | `monorepo/`, `parse/discovery.rs` | parsed values; paths as tuples of names |

A regular expression is the membership of a pattern in what a line matches. The
parsers (tree-sitter, YAML, TOML, JSON) are external: a tree or a value is an
input. Averages are exact where the code has 64-bit floats, and fingerprints
do not collide.

## 4. Runs

"States" are distinct states found by TLC.

| run | states | what it shows |
|---|---|---|
| collector_privacy | 23 392 | views of restricted audiences contain nothing external; user-facing points are not lost; re-projection is stable; operator data is invisible to the user; ingress only hides its own names |
| collector_accounting | 96 960 | error counts match error points; severity totals never fall below the modules' counts |
| run_races | 199 598 | two processes with every fault: what is remembered was settled, churn is against a completely saved set, ChangeReports is implemented |
| run_settles | 17 060 | one process, an editing programmer: reporting settles; off leaves no trace |
| fix_command_races | 22 917 | cmd_fix with an editor, three rule filters and every fault |
| tui_keys | 73 284 | all key sequences with up to three fixes, reads and writes that fail |
| plugin_host | 578 452 | two threads on three modules: nothing is started twice, no container outlives the host unless docker would not stop it, every call returns unless a mute process or its own thread is what it waits for |
| workspace_services | 1 490 049 | the six services, each among its users; for the audit log two processes, four invocations and every fault: uncontended events are read, finished lines stay |
| analysis_inputs | 270 191 | every analysis on every input of its set |
| tui_selected_doc, stale_suppression_doc | | two claims of the documentation the code does not keep (section 6) |

Bounds, and why they are enough.

- *collector_privacy*: one module, one name of every class (operator, known
  user, summary-shaped, unclassified), and an external module that may send a
  known-user and a summary name, that is the two kinds a name-based filter would
  let through. Three stored points allow a trusted and an untrusted point under
  one name, and a module that is shown for a metric of its own and timed twice,
  with different durations: the case in which a timing could show through. The
  filters look at one name at a time, so more names repeat the same cases; the
  proofs remove the bound for all six properties.
- *collector_accounting*: two modules and two severities, counts to two, so that
  a module can report again with more and with less than before while the
  other keeps its count. Four points allow two errors with their durations.
  The proof removes these bounds.
- *run_races*: two processes are what one file needs to be read half-written and
  written over. One fingerprint gives two finding sets, changed and unchanged;
  a third process adds no new content of the file (it is a set, empty or torn).
  The rate of 50 makes both decisions possible; 0 and 100 are sub-cases. The
  processes are symmetric, and `Implements` is a safety property, so symmetry is
  sound. The proofs cover any number of processes, sets and rates.
- *run_settles*: one process, since two that overlap may overwrite each other's
  state for ever; two fingerprints, so that a set may change without its size
  changing. No faults: with crashes before every save reporting never settles,
  and should not. Failed runs and runs with telemetry off do happen.
- *fix_command_races*: two files, so that one write can succeed before another
  fails; overlapping symbols (a method in a class), a lone import, a tail;
  three rule filters, so that a filter may separate what overlaps; an editor
  saving one line. The proofs remove these bounds for all four properties.
- *tui_keys*: two files, three fixes in one of them, of which one lies inside
  another, and a finding without a fix; all three groupings order the rows
  differently. The proofs remove these bounds for all three properties.
- *plugin_host*: one module of each mode, the container and the server on
  configured ports and the command on any free one, so that a command can take
  the port of another. Two processes are a first start and a second one after
  the first failed or died; two attempts are a failing and a last one (each
  attempt behaves alike). Three calls let two threads contend and one call
  follow. Four of the six kinds of host and runtime: both hosts with workers, the
  gRPC host without a runtime, whose registrations have none and whose other calls
  block on their own thread, and the gRPC host on a runtime of that kind
  throughout. The trait host on these two runtimes meets nothing else. The proofs
  of the two safety properties cover them all.
- *workspace_services*: two files with clean and bad contents; two messages in
  flight, so that a save overtakes the handling of another; two batches waiting;
  two installers, and hooks of the user's of two pieces; commands start on at most four,
  that is on these two with the script after them, so that an install that appends a
  second time would be seen; a flush under way while the counters of each kind move; findings that
  differ with what is read beside a file. For
  the audit log, two processes produce every adjacency of two writes, and four
  invocations let a line be torn, joined, and followed by two good ones.
  The proofs remove these bounds for all eight properties.
- *analysis_inputs*: graphs of three files with every order of edges and of four
  with one; three files in any zones of three presets; two lines of up to three
  tokens for the suppressions, those of a Go block comment among them; two files of two functions with any calls; up to
  eight lines of tokens; trees of two statements nested two deep and every way
  to wrap one; functions of up to four lines with every kind of assignment; two
  or three lines of pieces for every scanner, each with the same file without
  each of its lines; lists with every kind of line between their items, and texts
  with a quote, a backslash and an escape, for the migrations; findings and baselines of two; edits over lines 1 to 3, in
  pairs, because conflicts are pairwise. A rule that needs more lines together than these
  does not exist in the source; a longer chain repeats a step the small one has.
  The proofs remove the bounds on lines, files, findings, edits and thresholds
  for the six analyses of AnalysisInputs.

Deadlock is checked except where the program really stops: a TUI session ends,
an input is answered once, the plugin host and the services use up their
bounds. FixCommand and TelemetryRun can always be started again, so
deadlock is checked there.

Fairness. Two properties need it.

- `ReportingSettles`: `WF_vars(Step(p))`, a started process keeps being scheduled
  until it exits. That is the operating system's promise and the code never
  waits for another process. `Step` leaves out starting, crashing and editing:
  nothing obliges anyone to start a run. The property has the form "if the tree
  stops changing for good, then from some point on no process reaches the flush".
- `CallsReturn`: `WF_vars(~Waits(c) /\ Steps(c))` for every calling thread. A thread that
  can take a step takes it, docker and the start of a command end, and a request to a
  process that is not mute is answered or refused. A call that waits for a mute
  process, or on the thread that would have to connect, owes nothing, and the property
  excepts it and the calls queued behind it on the same module. Nothing is assumed of
  the processes (they may never listen, fall silent or die) nor of the mutexes: the
  callers call finitely often, so weak fairness is enough for a thread waiting for one.

Some properties deserve a comment.

- `InnocentLinesSurvive` and `SymbolsGoWhole` except files saved by an editor
  between analysis and write (`raced`) and files whose write was cut short
  (`damaged`): for those nothing holds, and the properties say that nothing else
  is at risk. `ReportIsTruthful` also excepts files that could not be read again,
  which the code reports as applied.
- `SymbolsGoWhole` speaks of the lines of a symbol, not of the symbol alone: a
  method may go without its class, by a run whose filter leaves the class out, and
  then a line of the class is missing because a whole symbol it belongs to is.
- `OneRunIsEnough` leaves overlapping symbols out: both are skipped, in every run,
  so overlapping dead code is never removed automatically.
- `BaselineWasSettled` counts a refused flush as settled, as the code does.
  Delivery is not guaranteed: the error is dropped and the state saved. The reports of
  failed runs settle nothing, since such a run saves nothing.
- `CountersAgree` holds an inequality for the severities because a module
  reporting twice replaces its own count and adds to the severities.
- `StartedOncePerConnection` and `ContainersEndWithTheHost` except modules one of
  whose connect loops ran out (`exhausted`): those are started again and the
  earlier process is forgotten. They also except containers whose `docker stop` failed
  (`unstopped`): the result is discarded and nothing tries again.
- `RequestsAreAnsweredOnce` speaks of servers whose loop runs. What ends the loop of
  the MCP server costs the answer to the last line it took and no earlier one; what
  comes later is never read.
- `QuietMeansReported` is relative to the batch: what was printed about a file is what
  its contents give beside the files it was analysed with. When one of those changes
  later in a batch of its own, the first file is not looked at again, and what was
  printed about it may be what no analysis of the whole project would say.
- `FinishedLinesAreStable` does not say that a finished line is read: a fragment that
  is not UTF-8 hides everything after it, for good. It says that what one reader was
  given, later readers are given too.
- `ListsAreCarriedOver` says which migrations load: those in which nothing is set twice
  and no text breaks the quotes it is put between. A list of golangci-lint is carried over
  up to the first comment in it. Lists are compared as they are read back, where no
  text holds a backslash.
- `SavedMeansShown` speaks of files whose last change was a save the server has
  handled. A file opened clean publishes nothing, so what was shown of it before
  stays; that is not a state the property covers as synchronised (`unsynced`).
- `BottomUpFixesAreExact` takes "bottom up" by lines, not by the line a finding is
  reported at: each fix lies above all lines of the earlier ones. Fixing a
  method and then the class around it is not that, although the class begins
  higher up: the second fix then deletes a line below the class as well.
- `UserLinesSurvive` excepts what loses lines in the code (`spoiled`): a write that
  failed half way, two texts written into the file at once, and a command that read the
  file while another had emptied it. It is about the moments when nobody has the file
  open. It keeps lines, not line ends: uninstalling trims the end of the user's hook.
- `BottomUpFixesAreExact` counts the fixes that were carried out; those whose file could
  not be read leave it alone, and are reported as applied.
- `SuppressionsAreComments` is an equality, for Go and for Python. It leaves out
  Python files in which a string in three quotes holds one of its own quotes, and Go
  files in which a block comment holds a quote, a backtick, an escape or a comment sign
  (`HoldsDelimiters`), for which the scan and the language disagree (section 7). In the
  model no two comment signs share a character, as those of `/*/` do.
- `WorseIsNeverRatedBetter` has three parts: a statement put into a branch or a
  loop never improves the metrics, the rules or the health of a tree; more findings
  never improve the verdict of an audit (`MoreIsNeverRatedBetter`, a definition of
  its own because it is proved); and the report and the impact comparison account
  for each finding.
- `EngineMatchesReference` compares with `EditedAtOnce`, which makes every edit at its
  place of the original and so knows of no order.
- `FlowsAreReported` states reachability over assignments *below* one another: the code
  makes one pass, so what flows back around a loop is not reported. It knows of no
  pass: a name holds what came in when some set of lines explains it, each of which has
  a source or uses a name assigned above it in the set (`Held`).
- `InnermostZoneIsClosed` asks for projects in which every file is in a zone and none
  ends in `.tsx` or `.jsx`: the search for cycles takes these two extensions off a
  path before it compares, the check of the zones does not, and so there are edges that
  the check never sees. Reachability is by closed sets of files, not by paths.
- `FindingsNameTheirCause` removes one line at a time and leaves out the two rules
  about a whole file.

## 5. Proofs

All theorems are for every value of the constants that satisfies the named
assumptions (`NamesAssumption`, `EntriesAssumption`, `RunAssumption`,
`AuditAssumption`, `TreeAssumption`, `SessionAssumption`, `LabelAssumption`,
`FixesAssumption`, `LspAssumption`, `EditorFilesAssumption`, `HooksAssumption`,
`PluginAssumption`, and the six of AnalysisInputs), which TLC also evaluates in
the runs. What they say of the
code: names of metrics fall into classes that do not meet, some of which are
finite; the lines of a file can be told apart, and those of a dead symbol are one block;
labels are ordered; the fix of a finding is one deletion in its own file; a
user's line is not the script.

The six of AnalysisInputs say what an input is. `SourcesAreWellFormed`: a source
is in Go or Python, the two languages whose comments the dead-code module looks
at; it is one the language accepts in what matters here, that is, a string of
one line is closed on it, a backslash in the code ends its line, and Python has
no backtick; and the two ways to mislead the scan (`HoldsDelimiters`) are left to the
property, which names them. `GraphsAreWellFormed`: a parsed project has finitely many files, and
two symbols of a file with different names begin on different lines, as
formatters leave them; where they do not, the fix of one removes the line of the
other, which is how the code identifies a symbol's text. `FindingsAreWellFormed`:
an edit replaces one line or more, as every analysis that attaches one does.
`ReviewsAreWellFormed`: findings come in lists and thresholds are natural numbers
(`usize` in the code). `CodeIsWellFormed`: a file is in Go or Python, the languages that
have sources and sinks, its lines name the request by the names the code looks
for, and its functions begin and end within it. `ProjectsAreWellFormed`: a project is
a list of files with lists of imports and names a preset that has an innermost zone,
which `hexagonal` has not.

**TelemetryCollectorProofs.** `TypeCorrect` by one lemma for the in-process
methods and one for the ingress. `ProvenanceIsTracked`: the property is
inductive as it stands, because every untrusted method marks its names in the
same critical section in which it stores them, no trusted one clears marks,
and reset clears both. From it `ExternalDataStaysUnrestricted`
(`admit` and `admit_span` withhold marked names from restricted audiences) and
`UserKeepsInProcessPoints` follow state by state. `ReprojectionIsAlwaysStable`
needs types only: each part of a projection is idempotent, and projecting to
everything first changes nothing. `OperatorDataStaysInvisible` writes what the
user reads as a function of what the user is owed (`ReadsOf`), also from types
only; two states that agree on the one then agree on the other. For
`IngressAlwaysNarrows` each of the three gRPC methods marks its names and adds
entries under no others (`IngressMarks`), so an entry a restricted view holds
afterwards was there before, and was admitted before.

`CountersAlwaysAgree` is about sums over sets of names, which the model computes with a
fold. The provers cannot use an induction theorem here, so `EveryPartFollows` derives
induction over the parts of a finite set from well-founded choice, `TotalsExist`
builds the function the fold chooses, and from `TotalIsASum` follow the two facts the
steps need: totals add up (`TotalsAdd`), and a total with one term changed changes by
the difference (`TotalWithAnother`). A report adds all its counts to the severities and at
most that to its module, whose earlier count it replaces (`ReportsAreCovered`); a failed call
raises the error count by one and records a point with the new count (`CallsCountErrors`).

**TelemetryRunProofs.** `BaselineInv` strengthens the baseline property by the
place where it is decided: a process about to open or write the state file
holds a finding set that has been settled. Without that conjunct the step
`WriteState` could not be shown to preserve anything, since the file gets
whatever the process carries. For churn the analogous conjunct says that what
was loaded had been saved. `RunsKeepThePromise` maps each step to Settle,
Remember, Forget or a stutter of ChangeReports, using `BaselineInv`.
`OffInv` adds to the kill switch that the flag decides the audience.
`ChurnAccountsForBothRuns`: for finite sets new + unchanged is the current count
and resolved + unchanged the previous one.

**FixEngineProofs.** `AppliedFindingsShareNoLine`: two planned edits of
different findings that share a line overlap by `edits_overlap`
(`OverlapIsASharedLine`, arithmetic), so both findings are conflicting and
neither is applied. The step in between is that the edits a result lists are
those that were planned: `FirstFixable` exists (the least element of a non-empty
set of numbers, `NatHasMinimum`) and `plan_edits` contains its edits.

`EditsReplaceTheirLines` and `DeletionsKeepOrder` say what the fold over a file's edits
computes, for any disjoint edits in any order: a line stays exactly if no edit
covers it, every new text is there, and deletions leave the rest in order. The
induction is over the sets of edits, of which the topmost is applied last
(`EveryEditFollows`); its hypothesis (`EditedBy`) says that above the topmost edit made
so far the text is untouched, so that the next edit up still finds its lines
where they were (`OneEditMore`).

**FixCommandProofs.** One invariant, `IInv`, for all four properties. What a run
has decided is what the engine says of what it found (`Decided`); until the files are read
again the findings are where the analyses saw them, if no editor was at the
file (`FoundInPlace`). Of every file two texts are followed, the one on disk and the one it
has when the run is over (`Final`): both have the lines they should in the order of
the original (`TextsAreProper`), all innocent lines and only whole symbols missing
(`TextsAreIntact`), agree with the report (`TextsAreAsReported`), and hold no dead code that is
neither applied nor in conflict (`NothingIsUnfound`). Speaking of `Final` is what makes
it inductive: between the files of one run the disk is partly repaired, and the
report is true only of the end. A file being truncated is in `writing`; when the
run is cut short there it moves to `damaged`.

**TuiSession** (in the module itself). `SelectionStaysVisible`: the selection is a number and below the
number of drawn rows, or zero. Every key that can change the rows resets the
selection; the bounds of the moves do the rest. `RowsAreTheFilteredFindings` and
`HighlightedFindingIsFixed`: a row holds the finding with as many findings drawn
before it; counting these is an injection of a finite set into as many
numbers, hence onto (`RowsAreVisible`), so every row holds one finding and every
finding let through has its row. `FixingUpwardsIsExact`: the invariant
`CuredInv` says of a file fixed upwards that it is the original without the cured lines,
in order, *and untouched above all of them* (`Remains`). The last part, which the
property does not have, is where the next fix up will delete (`DeletingAbove`). A fix
whose file is not read leaves both sides as they are.

**AuditLog** (in WorkspaceServicesProofs). `FinishedLinesStayReadable`: the log only grows, a
line between two line ends stays between them, what is unreadable before it stays so,
and whatever ends the reading comes later; the n-th answer therefore stands at the
same place (`PlaceOf`), which is the one with n - 1 readable places before it
(`ReadableIsRead`). `UncontendedEventsAreAlwaysRead`: `Alternates` says that without
contention the log is the appended events, each with its line end, then at most one
unfinished write, whose process is the only one in the middle of an append. Its readable positions
are then the odd ones (`OddPositions`), in order.

**PluginHostProofs.** `HostInvariance` collects what the two theorems need. A thread
that starts or connects a module holds its mutex, and the module has no channel
(`LockInv`); a registration has the host to itself (`CallInv`); a dropped module
has no container (`HostInv`). The strengthening is `HeldInv`: short of a connect
loop that ran out, a process started for a module is *either* behind a channel
*or* being connected to by some thread, and if alive it is what the module holds
the handle of, or what docker would not stop. At the moment of a spawn the first two say that neither is the
case, so there is no earlier process whose handle the new one could overwrite:
`ModulesAreStartedOnce`. With `HostInv` it gives `NoContainerOutlivesTheHost`. Most
actions only move one call on, and are instances of two lemmas (`OneCallMoves`,
`QuietCallMoves`).

**AnalysisProofs.** What every answer is made of is one invariant (`AnswerInv`): an
answered input is one of its kind, and the output is what the operators give for
it. The properties then are facts about operators, for every input. Where the
code loops, the model has a function whose value depends on its value before;
`LoopExists` shows that such a function exists and has a value after each round, so that
the rounds can be reasoned about by induction over their numbers, which the proofs
take from the least number that fails (`EveryNumberFollows`).

- `RemovalsLeaveNothingDangling`. Each round of the trace either adds a symbol
  or changes nothing any more, and there are no more rounds with an addition than
  symbols, so after as many rounds as there are symbols it is closed
  (`TracingGoesOn`, `AliveIsClosed`): whatever a live file refers to is live. It is
  therefore not reported (`NoUseOfTheRemoved`), and since names begin on lines
  of their own, what is reported on its line is not something else.
- `FixesTakeTheirPlaces`. `BottomUpIsAtOnce` is the heart: the fold that edits from the
  bottom agrees with `EditedAtOnce`. The induction is over sets of edits with the
  topmost applied last, and its hypothesis splits the text at the topmost edit made
  so far: the lines above it are those of the original, the lines from it on are
  the concatenation of the parts from there on. One more edit changes one part
  and empties those it covers (`TopmostTakesItsPlace`, `OnePlaceMore`). What is applied
  to a file is finite and shares no line (`FinitelyManyApplied`, `AppliedAreApart`), by
  the argument of `AppliedFindingsShareNoLine`. This says of any text and any list of findings
  what `EditsReplaceTheirLines` left open, where a new text goes.
- `SuppressionsAreInComments`. In a Go block comment without delimiters neither walk of
  the code leaves the code, and both come out where the lexer does. The code walks a line twice, once to carry the state of
  strings over several lines and once to tell strings from comments on the line, and
  neither walk is the lexer of the language. Each is related to the lexer by a
  relation on their states that one character preserves: `WalksFollow` (the carried state
  is the lexer's at the end of each line; `FollowsInGo`, `FollowsInPython`),
  `WalksClose` (a string of the lines before closes for both at the same place), and
  `PartIsLexed` (from there on the walk of the line sees the same comment, although
  it takes three quotes for an empty string and one more). `LineIsScanned`
  puts them together for a line, and an induction over the lines for a source. A lexer
  that is lost stays lost (`LostForGood`), so a source that is well-formed at the
  end of its lines was well-formed at every character, which is what the relations need.
- `FlowsAreAlwaysReported`. The code adds names line by line, the property asks for a set
  of lines that explains a name. By induction over the lines, the names tainted after
  a line are those assigned on the lines so far that had an effect; these lines explain
  each other, and every set of lines that do so is one of theirs, for its first line
  without an effect would have had a source or used a tainted name (`ChainsAreFollowed`). `TaintIsHeld` carries this from the lines of a function
  to those of the file, `ParametersAreGiven` adds the names of the request, and
  `FunctionReports` and `NodeReports` go from names to findings.
- `InnermostZoneStaysClosed`. The rules of each of the three presets deny the innermost zone
  every other one and allow it none (`PresetsKeepInside`), so the first rule that matches,
  whichever it is, denies (`WhatIsDenied`). An edge of the graph is an import that may mean a file
  (`EdgesMayMean`), and one that leaves the innermost zone is therefore a violation
  (`LeavingViolates`). Without violations the files of that zone are closed under edges
  (`InnerIsClosed`), and what is reached from one of them lies in every closed set it
  lies in.
- `VerdictsOnlyGetWorse`. The verdict is a monotone function of the number of findings
  the gate counts (`VerdictIsOfACount`, `LargerIsNoBetter`); the places of the findings of a
  change map injectively into those of the larger one, keeping order, hence there are no fewer
  of any sort (`MoreAreCounted`). A readable baseline that holds everything leaves none
  to count.

**WorkspaceServicesProofs.** One invariant per service, which its own steps keep
and the steps of the others leave alone.

- Parse cache: `CacheInv`. `FlushedRatesAreOfTheFlush` is about what was pushed; the
  strengthening says the same of a flush under way (`LoadsAreInBounds`): each
  value loaded lies between the count when the flush began and the count now,
  and a counter loaded twice has not gone back. Pushing turns the one into the
  other.
- MCP server: `McpInv` types the lines and pairs the n-th answer with the n-th
  message taken that calls for one, while the loop runs, and leaves out the last when
  it has ended; `ToolsNeedOptIn` shows that a result with operator
  data was made while the configuration opted in.
- LSP server: `AnsweredOnce` adds that no id waits twice and that one that waits
  was not answered, without which an answer could come twice, and that only a loop
  that has ended leaves one unanswered. For
  `WhatWasSavedIsShown` each synchronised file is `UpToDate`: the findings of the
  disk are shown, or the save that will show them is on the wire, and whatever
  is opened after it carries the text of the disk.
- Watch mode: `WatchInv` says where a change is while it is not printed: with the
  debouncer, in a batch, or in the hands of the loop; where it is in none of them, what
  is printed is what the contents give beside the file's company.
- Commit hook: "the same lines" is a correspondence of positions that keeps
  values and order (`SameLines`); it passes on (`SameLinesPassOn`), and so the proof
  composes what reading, appending (`AppendingKeepsLines`) and removing the script
  (`CleaningKeepsLines`) do. `HookInv` adds to the property that a process about to
  write holds the user's lines, and no marker if it installs; a second installer
  that read before the first wrote therefore writes the same again, and short of a
  spoiled file two texts that meet in it begin alike. While someone has the file open
  only the processes' copies hold the lines.

Only model-checked.

- Liveness (`ReportingSettles`, `CallsReturn`), because fairness and ENABLED are
  out of the prover's reach.
- The properties of TreeAnalyses. `CyclesAreMutualReach`, `ClonesAreCompleteAndApart`,
  the part of `WorseIsNeverRatedBetter` about trees, `FindingsNameTheirCause`
  and `ListsAreCarriedOver` are about definitions that recur on trees, call stacks
  or nested values; in a module with RECURSIVE operators the prover has no SMT backend,
  and what they compute is shown by induction over data, which it cannot do. Tarjan's
  algorithm is a recursive function here, but on a node and all that the search
  knows; no proof of it was attempted. The impact part of `WorseIsNeverRatedBetter` sums with folds over
  functions of rules.
- `MoreIsNeverRatedBetter` is checked as a conjunct of `WorseIsNeverRatedBetter`.

## 6. Where code and documentation disagree

Two runs end in a counterexample.

- *tui_selected_doc*: `docs/api/tui.md:42` says `f` applies the "fix for selected
  finding"; after an earlier fix above it in the file, or when pressed twice, it
  removes other lines (`cli/main.rs:1139`).
- *stale_suppression_doc*: `deadcode/lib.rs:384` describes stale-suppression as "A
  chaffra:ignore comment that no longer applies to any finding"; the search at
  line 291 looks among the findings suppression has left over, so a comment
  that does its work is reported, with a fix that deletes it.

Others, without a run of their own:

- `docs/api/modules/telemetry.md:39` says the state is persisted "for non-audit runs
  that don't have an explicit baseline"; every successful run saves it
  (`cli/main.rs:1738`).
- A comment says "Each chaffra invocation is one event in the audit log"
  (`cli/main.rs:499`); two simultaneous invocations can leave one unreadable line
  (`telemetry/audit_log.rs:162`), which AuditLog shows as `contended`.
- `docs/api/modules/autofix.md:19` says "Fixes are applied atomically per file";
  `fs::write` truncates first (`cli/main.rs:1017`), FixCommand's `damaged`.
- The comment in `telemetry/collector.rs:147-148` describes the operator-only filter
  differently from the code below it.
- `docs/api/tui.md:43` documents the suppression key; the loop drops the action.
- `plugin/host.rs:75-79` promises to choose another port when one is lost and to wait
  up to 3.1 s; the loop keeps its port and waits 1.5 s in all.
- `explain` of the security, complexity, CI/CD, duplication, hotspot, frameworks and
  architecture rules prints a suppression comment; only dead-code, ai-quality
  and llm-defense look at suppressions.
- A comment in `complexity/lib.rs` says elif does not nest; the bodies of Python's
  elif and of Go's else-if do.
- `describe` and `explain` give different severities for circular dependencies,
  unused-file, stale-suppression and fix-conflict. Telemetry describes
  finding-churn and sampling-status, which nothing emits.

## 7. What the models make visible

Behaviour of the code that the properties except, or that a reader of the code
would not expect. None of it is claimed to be wrong by a line of the repository.

*Fixing and suppressing.* A fix of a file that cannot be read again is reported
as applied, by `fix` and in the TUI; files with CRLF come out with LF. A dead function that is suppressed
keeps its call of another dead one, which is removed. In a file without live
symbols the calls made by top-level statements do not count. Decorated Python
definitions are removed without their decorators. Imports by `from X import *`, `__future__`
and blank and blank or named Go imports count as unused. A triple-quoted Python string that holds one of its own
quotes, escaped or not, may be taken to end or to go on elsewhere than it does. The scan
does not know Go's block comments: an apostrophe or a backtick in one begins a string
for it, and a suppression after a backtick is missed. Python string that holds one of its own
quotes, escaped or not, may be taken to end or to go on elsewhere than it does.

*Architecture and duplication.* Rules and zones are walked in the order of a hash
map; an unknown preset means layered; a file outside all zones is a way around
the rules; the boundary check does not strip `.tsx` and `.jsx`. Adjacent clones
coalesce; extension past a window may overlap itself; `min-tokens = 0`
underflows; a limit on families keeps them in hash order.

*Metrics and gates.* Averages are truncated floats; trivial functions improve an
average; only top-level functions count. A finding's identity in a baseline
includes its line and message, so moved code is new; no command saves a
baseline; a missing or corrupt one counts as empty; `cmd_audit` drops the errors
of an analysis, and its verdict is not its exit code. More files count as a
regression of the impact report.

*Scanners.* One YAML file that does not parse ends the CI/CD analysis of all files.
The CI/CD walk ignores `.gitignore` and matches ignore patterns as substrings,
so `vendor/**` never matches. Rules that look up a line by its text name the
first line with it. Taint: request parameters are marked after propagation;
flows around a loop, typed and augmented assignments are missed; Go's `==`
passes for an assignment; functions inside functions are analysed twice. In a
Dockerfile a comment inside a continued directive splits it; of several pairs of
one ENV the first is checked. The first `User=` of a unit counts. A GitLab
include given as a string is reported even when pinned. Ai-quality: a function on
one line is a stub; a comment with "auth" guards a call. Llm-defense does not
track Go's `:=`; guards of a loop are looked for on 30 lines. Entry points that
frameworks finds are not consulted by dead-code.

*Files of other tools.* Migration of jscpd with both minLines and minTokens, and of
golangci with two linters of one rule, writes a key twice, and a forbidden
contract with several sources puts a line end into a string: the result is
rejected by every command afterwards. So is a text with a quote in it, or with a backslash
that begins no escape; one that begins an escape is read back as something
else. A comment on a line of its own inside a golangci list ends the list, and one at the end of an item's line becomes
part of the item. gocognit's limit becomes the cyclomatic one. Pairs above the first header
of an ini file fall to the first section. Migrated `[boundaries]`, `[rules]`,
`[duplication]` and `[audit]` are sections no command reads. `changed_workspaces`
compares prefixes of text, so `pkg/a` is changed with `pkg/ab/x` (only tests call
it); exclusions (`!pkg`) count as members. Ignore files: directories written
`gen/`, negations and indented comments are not understood, and a star crosses
slashes.

*Telemetry.* A failed run sends its report whatever the sampling says. An audit log
with a line that is not UTF-8 is shown up to that line, and later events are never
shown.

*Services.* A request with an id and the method `notifications/initialized` gets no
answer; the LSP server answers the notification form of a request method. One input line
that is not UTF-8 ends the MCP server. Watch mode analyses a batch as if it were the
project, so that a function used only outside the batch is called dead and what it
printed goes stale with the next batch; it names unreadable files among the clean ones,
prints nothing for deleted files and drops errors. Uninstalling another version's hook reports Uninstalled and
leaves it; a hook written and not made executable is AlreadyInstalled the next
time; line ends after the user's lines are lost, and so may the lines themselves be when
one command reads between the emptying and the filling of another. After a failed connection to a
container the second `docker run` finds the port taken and may overwrite the id, so the
first container is never stopped; nor is one whose `docker stop` fails; children are
never killed. Connections and requests have no timeout: a process that accepts and says nothing
holds the module's mutex, and with it every later call, until it dies; on a runtime without
workers `block_on` waits for the thread it stands on. `list` of the trait
host describes every module again. A rate pushed by the parse cache may be that
of no moment at which the other counters had the values pushed with it; nothing
calls it yet. A write that fails leaves the TUI in raw mode.

## 8. What is not modelled

- *Telemetry backends and dashboard, management server, output formats, protocol
  and types*: formatting and I/O, or read-only views of a projected snapshot; a
  backend that refuses is a fault of TelemetryRun.
- *Coverage gate and CI*: build tooling.
- *Configuration*: the parsers are external; `core/config.rs` appears where a
  model depends on what loads (Migration, McpServer) and in the audience
  precedence of TelemetryRun. Commands that only print what an analysis returns.
- *Extraction for Java and TypeScript* is as deep as the analyses need it;
  `**` of workspace globs only where nothing exists.
- *Inputs left out*: a Cargo.lock begins with its first `[[package]]`; YAML inputs
  are well-formed and repeat no key.
- Inside the modelled parts: timestamps, the wording of output, severity and
  confidence of findings, JSON itself, hash collisions, line terminators,
  drawing, percent-encoding of URIs.

## 9. Running it

    tlc -workers 2 -config TelemetryRunRaces.cfg MCTelemetryRun
    tlapm TelemetryRunProofs.tla

The configuration belonging to each run is listed in PROJECT.json. The longest
runs, plugin_host, collector_privacy and workspace_services, take one to three minutes each;
of the proofs, PluginHostProofs and WorkspaceServicesProofs take about two minutes and
AnalysisProofs between ten and twenty.
