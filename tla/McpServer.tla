----------------------------- MODULE McpServer ------------------------------
(***************************************************************************)
(* The MCP server of chaffra-mcp: one JSON-RPC message a line, answered    *)
(* before the next is read (server.rs), and the four tools behind          *)
(* tools/call (tools.rs), each of which reads the project's configuration  *)
(* anew while its owner may be editing it.                                 *)
(***************************************************************************)
EXTENDS Naturals, Sequences, FiniteSets

CONSTANTS McpIds, NoMcpId,
          MaxLines,  \* bound: lines sent and not yet read
          MaxRead    \* bound: lines sent in all

Audiences == {"off", "user-only", "operator-only", "on"}

\* .chaffra.toml: absent, not to be parsed, without a telemetry section, with an
\* audience, or with a value that is no audience.
Configs == {"absent", "malformed", "no section", "bad audience"} \cup Audiences

VARIABLES config,      \* the project's .chaffra.toml
          sources,     \* there are source files in the project
          lines,       \* input not read yet
          initialized, \* the server's flag
          mcpUp,       \* the server's loop still runs
          owed,        \* history: the ids of the messages taken that call for an answer
          sent,        \* lines sent so far
          written      \* history: the answers, each with the config at the time

mcpVars == <<config, sources, lines, initialized, mcpUp, owed, sent, written>>

Methods == {"initialize", "notifications/initialized", "tools/list", "tools/call", "shutdown", "other"}
\* What a line may hold that is no message: text that is no JSON-RPC, bytes that are not
\* UTF-8, or nothing.
NoMessages == {"garbage", "undecodable", "blank"}
Tools == {"chaffra/health", "chaffra/dead-code", "chaffra/explain", "chaffra/telemetry", "other", "none"}
Actions == {"status", "snapshot", "backends", "other"}

Line(method, id, tool, action, audience, path) ==
    [method |-> method, id |-> id, tool |-> tool, action |-> action, audience |-> audience, path |-> path]

(***************************************************************************)
(* The tools. A result is [error, data]; data is what kind of data it      *)
(* shows, "operator" for what only an operator audience may see.           *)
(***************************************************************************)

Failed == [error |-> TRUE, data |-> "message"]
Text(data) == [error |-> FALSE, data |-> data]

\* ChaffraConfig::load_from_dir: no file is the default, a malformed one an error.
Loads(c) == c # "malformed"

\* The audience of the telemetry section, user-only without one; an invalid one fails.
Audience(c) == IF c \in Audiences THEN c ELSE "user-only"
operator_enabled(a) == a \in {"operator-only", "on"}

\* The tools over the project's files: path, then configuration, then files, then rules.
execute_health(line, c) ==
    IF line.path = "bad" \/ ~Loads(c) THEN Failed
    ELSE IF ~sources THEN Text("message") ELSE Text("findings")

execute_dead_code(line, c) ==
    IF line.path = "bad" \/ ~Loads(c) THEN Failed
    ELSE IF ~sources THEN Text("message") ELSE Text("findings")

\* A rule that no module knows, or no rule_id at all, is an error of the tool.
execute_explain(line) == IF line.action = "other" THEN Failed ELSE Text("rule")

\* The body for a resolved audience: snapshots are projected, the rest is withheld.
execute_telemetry_with_config(action, a) ==
    CASE action = "snapshot" -> Text(IF operator_enabled(a) THEN "operator" ELSE "user")
      [] action \in {"status", "backends"} -> Text(IF operator_enabled(a) THEN "operator" ELSE "empty list")
      [] OTHER -> Failed

\* Mutant: an audience in the request widens the project's.
execute_telemetry_Widened(line, c) ==
    IF line.path = "bad" \/ ~Loads(c) \/ c = "bad audience" THEN Failed
    ELSE execute_telemetry_with_config(line.action, IF line.audience # "none" THEN line.audience ELSE Audience(c))

\* The audience comes from the file alone, whatever the request names.
execute_telemetry(line, c) ==
    IF line.path = "bad" \/ ~Loads(c) \/ c = "bad audience" THEN Failed
    ELSE execute_telemetry_with_config(line.action, Audience(c))

dispatch_tool(line, c) ==
    CASE line.tool = "chaffra/health" -> execute_health(line, c)
      [] line.tool = "chaffra/dead-code" -> execute_dead_code(line, c)
      [] line.tool = "chaffra/explain" -> execute_explain(line)
      [] line.tool = "chaffra/telemetry" -> execute_telemetry(line, c)
      [] OTHER -> Failed

(***************************************************************************)
(* The server.                                                             *)
(***************************************************************************)

Success(id, result) == <<[id |-> id, code |-> "ok", result |-> result, config |-> config]>>
Error(id, code) == <<[id |-> id, code |-> code, result |-> Failed, config |-> config]>>

handle_tools_call(line) ==
    IF line.tool = "none" THEN Error(line.id, "INTERNAL_ERROR")
    ELSE Success(line.id, dispatch_tool(line, config))

\* What the handler of a method makes, before notifications are told apart.
Response(line) ==
    CASE line.method \in {"initialize", "tools/list", "shutdown"} -> Success(line.id, Text("message"))
      [] line.method = "tools/call" -> handle_tools_call(line)
      [] line.method = "notifications/initialized" -> <<>>
      [] OTHER -> IF line.id = NoMcpId THEN <<>> ELSE Error(line.id, "METHOD_NOT_FOUND")

\* A line that does not parse is answered without an id; nothing with no id is, else.
handle_message(line) ==
    IF line.method = "garbage" THEN Error(NoMcpId, "PARSE_ERROR")
    ELSE IF line.id = NoMcpId THEN <<>> ELSE Response(line)

\* The client sends any method, with or without an id, in any order.
ClientSends ==
    /\ Len(lines) < MaxLines /\ sent < MaxRead
    /\ sent' = sent + 1
    /\ \E method \in Methods \cup NoMessages, id \in McpIds \cup {NoMcpId} :
       \E tool \in Tools, action \in Actions, audience \in {"none", "on"}, path \in {"ok", "bad"} :
          /\ id # NoMcpId => \A i \in DOMAIN lines : lines[i].id # id
          /\ method # "tools/call" => tool = "none"
          /\ tool \notin {"chaffra/telemetry", "chaffra/explain"} => action = "status"
          /\ tool # "chaffra/telemetry" => audience = "none"
          /\ tool \in {"none", "other", "chaffra/explain"} => path = "ok"
          /\ method \in NoMessages => id = NoMcpId
          /\ lines' = Append(lines, Line(method, id, tool, action, audience, path))
    /\ UNCHANGED <<config, sources, initialized, mcpUp, owed, written>>

OwnerEdits ==
    /\ config' \in Configs \ {config}
    /\ UNCHANGED <<sources, lines, initialized, mcpUp, owed, sent, written>>

\* What JSON-RPC owes: an answer to a request, under its id, and one without an id to
\* what cannot be read. (A request named like the notification is the exception here.)
CallsForAnswer(line) ==
    IF \/ line.method \in {"garbage", "undecodable"}
       \/ line.id # NoMcpId /\ line.method # "notifications/initialized"
    THEN <<line.id>> ELSE <<>>

\* What the loop writes for a line; blank lines are passed over.
ToWrite(line) == IF line.method = "blank" THEN <<>> ELSE handle_message(line)

\* One turn of the loop. An answer that cannot be written ends it.
ServerReads ==
    LET line == Head(lines) IN
    /\ mcpUp /\ lines # <<>> /\ line.method # "undecodable"
    /\ lines' = Tail(lines)
    /\ initialized' = (initialized \/ line.method = "initialize")
    /\ owed' = owed \o CallsForAnswer(line)
    /\ \/ written' = written \o ToWrite(line) /\ UNCHANGED mcpUp
       \/ ToWrite(line) # <<>> /\ mcpUp' = FALSE /\ UNCHANGED written
    /\ UNCHANGED <<config, sources, sent>>

\* A line that is not UTF-8 ends the loop, as a failing read does, without an answer;
\* nothing after it is read.
ServerStops ==
    LET line == Head(lines) IN
    /\ mcpUp /\ lines # <<>> /\ line.method = "undecodable"
    /\ lines' = Tail(lines)
    /\ owed' = owed \o CallsForAnswer(line)
    /\ mcpUp' = FALSE
    /\ UNCHANGED <<config, sources, initialized, sent, written>>

McpInit ==
    /\ config \in Configs /\ sources \in BOOLEAN
    /\ lines = <<>> /\ initialized = FALSE /\ mcpUp = TRUE
    /\ owed = <<>> /\ sent = 0 /\ written = <<>>

McpNext == ClientSends \/ OwnerEdits \/ ServerReads \/ ServerStops

(***************************************************************************)
(* Properties.                                                             *)
(***************************************************************************)

\* While the loop runs, the answers are those of the messages taken that call for one, in
\* their order: each request once under its id, before initialize and after shutdown too,
\* each line that does not parse once without one, notifications never. (Only a request
\* that bears the name of the initialized notification is left without an answer.) What
\* ends the loop, bytes that are not text or a failing write, costs exactly the answer to
\* the last line taken.
McpAnswersOnce ==
    LET answered == [i \in DOMAIN written |-> written[i].id] IN
    IF mcpUp THEN owed = answered ELSE \E id \in McpIds \cup {NoMcpId} : owed = Append(answered, id)

\* Operator data leaves the server only while the project's own file opts in, whatever
\* the requests ask for and however the file changes between them.
OperatorDataNeedsOptIn ==
    \A i \in DOMAIN written : written[i].result.data = "operator" => written[i].config \in {"operator-only", "on"}
=============================================================================
