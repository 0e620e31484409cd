----------------------------- MODULE ImportGraph -----------------------------
(***************************************************************************)
(* The import graph of chaffra-parse and the architecture module over it.  *)
(* A path is the sequence of its components, the extension last; an import *)
(* path is such a sequence, usually without an extension.  A hash map is   *)
(* given with the order in which it is iterated.                           *)
(***************************************************************************)
EXTENDS Languages, Integers, TLC

Extensions == {"go", "py", "js", "ts", "tsx", "jsx", "java"}

\* s.contains(t), component-wise.
PathContains(s, t) == \E i \in 0..Len(s) - Len(t) : SubSeq(s, i + 1, i + Len(t)) = t

Trimmed(path, extensions) == IF Last(path) \in extensions THEN Front(path) ELSE path

\* The nodes of the files that can be parsed; a path seen again replaces its node.
IsParsed(file) == Parses(from_extension(Last(file.path)))

add_files(files) ==
    LET At(path) == {i \in DOMAIN files : IsParsed(files[i]) /\ files[i].path = path}
    IN  [path \in {files[i].path : i \in {i \in DOMAIN files : IsParsed(files[i])}} |-> files[Max(At(path))]]

\* The order in which the map is walked.
PathOrder(files) ==
    FlattenSeq([i \in DOMAIN files |-> IF IsParsed(files[i]) THEN <<files[i].path>> ELSE <<>>])

\* Two files of which one may be meant by an import of the other; the extensions
\* are those that a comparison takes off a path.
MayMean(graph, f, i, t, extensions) ==
    /\ t # f
    /\ \/ PathContains(t, graph[f].imports[i])
       \/ PathContains(graph[f].imports[i], Trimmed(t, extensions))

-----------------------------------------------------------------------------
(* scc.rs *)

\* One edge for every import and every other file it may mean.
build_adjacency(graph, order) ==
    [f \in DOMAIN graph |->
        FlattenSeq([i \in DOMAIN graph[f].imports |->
            FlattenSeq([k \in DOMAIN order |->
                IF MayMean(graph, f, i, order[k], Extensions) THEN <<order[k]>> ELSE <<>>])])]

Unvisited == -1

\* A bug that counts an edge into a finished component as an edge back.
on_stack_Visited(st, w) == st.indices[w] # Unvisited

on_stack(st, w) == w \in ToSet(st.stack)

Lower(st, v, n) == IF n < st.lowlinks[v] THEN [st EXCEPT !.lowlinks[v] = n] ELSE st

\* Everything above v on the stack, and v, are one component.
PopComponent(st, v) ==
    LET at == CHOOSE i \in DOMAIN st.stack : st.stack[i] = v
    IN  [st EXCEPT !.stack = SubSeq(@, 1, at - 1),
                   !.sccs = Append(@, Reverse(SubSeq(st.stack, at, Len(st.stack))))]

\* What the search knows: the next index, the nodes on the stack, the index and
\* the lowlink of every node, and the components so far.
Searches(nodes) ==
    [index : Nat, stack : Seq(nodes), indices : [nodes -> Nat \cup {Unvisited}],
     lowlinks : [nodes -> Nat \cup {Unvisited}], sccs : Seq(Seq(nodes))]

Enter(st, v) ==
    [st EXCEPT !.index = @ + 1, !.stack = Append(@, v),
               !.indices[v] = st.index, !.lowlinks[v] = st.index]

Leave(st, v) == IF st.lowlinks[v] = st.indices[v] THEN PopComponent(st, v) ELSE st

strongconnect(adj) ==
    LET connect[v \in DOMAIN adj, st \in Searches(DOMAIN adj)] ==
            LET Neighbour(s, w) ==
                    IF s.indices[w] = Unvisited
                    THEN LET t == connect[w, s] IN Lower(t, v, t.lowlinks[w])
                    ELSE IF on_stack(s, w) THEN Lower(s, v, s.indices[w]) ELSE s
            IN  Leave(FoldLeft(Neighbour, Enter(st, v), adj[v]), v)
    IN  connect

tarjan_scc(adj, order) ==
    LET none == [v \in DOMAIN adj |-> Unvisited]
        start == [index |-> 0, stack |-> <<>>, indices |-> none, lowlinks |-> none, sccs |-> <<>>]
        Root(st, v) == IF st.indices[v] # Unvisited THEN st ELSE strongconnect(adj)[v, st]
    IN  SelectSeq(FoldLeft(Root, start, order).sccs, LAMBDA scc : Len(scc) > 1)

-----------------------------------------------------------------------------
(* lib.rs and presets.rs: zones, the first match decides *)

Zone(name, dirs) == [name |-> name, patterns |-> dirs]
Deny(from, to) == [from |-> from, to |-> to, allow |-> FALSE]

layered_config ==
    [zones |-> <<Zone("presentation", {"presentation", "api", "handler", "handlers",
                                       "controller", "controllers", "cmd", "ui"}),
                 Zone("application", {"application", "service", "services", "usecase", "usecases"}),
                 Zone("domain", {"domain", "model", "models", "entity", "entities", "core"}),
                 Zone("infrastructure", {"infrastructure", "infra", "db", "repository",
                                         "repositories", "adapter", "adapters", "external"})>>,
     rules |-> <<Deny("domain", "infrastructure"), Deny("domain", "presentation"),
                 Deny("domain", "application"), Deny("application", "presentation"),
                 Deny("infrastructure", "presentation"), Deny("presentation", "infrastructure")>>]

hexagonal_config ==
    [zones |-> <<Zone("core", {"core", "domain", "model", "models"}),
                 Zone("ports", {"port", "ports", "interface", "interfaces"}),
                 Zone("adapters", {"adapter", "adapters", "infrastructure", "infra",
                                   "driven", "driving"})>>,
     rules |-> <<Deny("core", "adapters"), Deny("ports", "adapters")>>]

feature_sliced_config ==
    [zones |-> <<Zone("app", {"app"}),
                 Zone("features", {"features", "feature", "modules"}),
                 Zone("shared", {"shared", "common", "lib", "pkg"})>>,
     rules |-> <<Deny("shared", "features"), Deny("shared", "app")>>]

clean_config ==
    [zones |-> <<Zone("entities", {"entity", "entities", "domain", "model", "models"}),
                 Zone("usecases", {"usecase", "usecases", "use_case", "application",
                                   "service", "services"}),
                 Zone("adapters", {"adapter", "adapters", "controller", "controllers",
                                   "presenter", "presenters", "gateway", "gateways"}),
                 Zone("frameworks", {"framework", "frameworks", "infrastructure", "infra",
                                     "db", "web", "external"})>>,
     rules |-> <<Deny("entities", "usecases"), Deny("entities", "adapters"),
                 Deny("entities", "frameworks"), Deny("usecases", "adapters"),
                 Deny("usecases", "frameworks"), Deny("adapters", "frameworks")>>]

Presets == [layered |-> layered_config, hexagonal |-> hexagonal_config,
            feature_sliced |-> feature_sliced_config, clean |-> clean_config]

FirstOr(seq, Test(_), default) ==
    IF \E i \in DOMAIN seq : Test(seq[i])
    THEN seq[CHOOSE i \in DOMAIN seq : Test(seq[i]) /\ \A k \in 1..i - 1 : ~Test(seq[k])]
    ELSE default

\* The entries of the module's configuration, in the order of its hash map:
\* kind "preset" with a name, "zone" with a name and directories, "deny" or
\* "allow" with the two zones.  An unknown preset, like no zone, is no
\* configuration.
OwnConfig(entries) ==
    LET zones == SelectSeq(entries, LAMBDA en : en.kind = "zone")
        rules == SelectSeq(entries, LAMBDA en : en.kind \in {"deny", "allow"})
    IN  IF zones = <<>> THEN <<>>
        ELSE <<[zones |-> [i \in DOMAIN zones |-> Zone(zones[i].name, zones[i].patterns)],
                rules |-> [i \in DOMAIN rules |-> [from |-> rules[i].from, to |-> rules[i].to,
                                                   allow |-> rules[i].kind = "allow"]]]>>

from_config_map(entries) ==
    IF \E i \in DOMAIN entries : entries[i].kind = "preset"
    THEN LET preset == FirstOr(entries, LAMBDA en : en.kind = "preset", <<>>).name
         IN  IF preset \in DOMAIN Presets THEN <<Presets[preset]>> ELSE <<>>
    ELSE OwnConfig(entries)

\* The pattern "dir/**" takes every file below dir.
file_zone(path, zones) ==
    FirstOr(zones, LAMBDA z : Len(path) > 1 /\ path[1] \in z.patterns, Zone("none", {})).name

\* A bug that asks about the zones the other way round.
is_dependency_allowed_Reversed(from, to, rules) ==
    FirstOr(rules, LAMBDA r : r.from = to /\ r.to \in {from, "*"}, [allow |-> TRUE]).allow

is_dependency_allowed(from, to, rules) ==
    FirstOr(rules, LAMBDA r : r.from = from /\ r.to \in {to, "*"}, [allow |-> TRUE]).allow

\* The boundary check does not take .tsx and .jsx off a path.
IsViolation(graph, config, f, i, t) ==
    /\ MayMean(graph, f, i, t, Extensions \ {"tsx", "jsx"})
    /\ LET from == file_zone(f, config.zones)
           to == file_zone(t, config.zones)
       IN  /\ "none" \notin {from, to} /\ from # to
           /\ ~is_dependency_allowed(from, to, config.rules)

BoundaryViolations(graph, config) ==
    UNION {UNION {{<<f, i, t>> : t \in {t \in DOMAIN graph : IsViolation(graph, config, f, i, t)}} :
                     i \in DOMAIN graph[f].imports} : f \in DOMAIN graph}

\* files: the analysed files with their imports, in the order of the map; one
\* finding for every violation and one for every cycle.
analyze(files, entries) ==
    LET graph == add_files(files)
        own == from_config_map(entries)
        config == IF own = <<>> THEN layered_config ELSE own[1]
        order == PathOrder(files)
    IN  [violations |-> BoundaryViolations(graph, config),
         cycles |-> tarjan_scc(build_adjacency(graph, order), order)]

-----------------------------------------------------------------------------
(* The rules *)

RULES == ("boundary-violation" :> "error") @@ ("circular-dependency" :> "warning")

\* Cycles are described as errors, and explained and reported as warnings.
describe == [id |-> "architecture", rules |-> [r \in DOMAIN RULES |-> "error"]]

\* Nothing for a rule of another module.
explain(rule_id) ==
    IF rule_id \notin DOMAIN RULES THEN <<>>
    ELSE <<[rule_id |-> rule_id, default_severity |-> RULES[rule_id], suppression |-> TRUE]>>
=============================================================================
