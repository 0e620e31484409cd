----------------------- MODULE WorkspaceServicesProofs ------------------------
(* What is proved of the services: of each, an invariant of its own that its  *)
(* steps keep, and that the steps of the others leave alone.                  *)
EXTENDS WorkspaceServices, FiniteSetTheorems, SequenceTheorems, WellFoundedInduction, TLAPS

-----------------------------------------------------------------------------
(* The parse cache *)

\* What a flush has loaded lies between the events before it began and those so
\* far, and a counter loaded twice has not gone back.
LoadsAreInBounds(loaded, before, now) ==
    /\ loaded \in Seq(Nat) /\ Len(loaded) <= 6
    /\ \A k \in DOMAIN loaded : FlushReads[k] \in Counters =>
           before[FlushReads[k]] <= loaded[k] /\ loaded[k] <= now[FlushReads[k]]
    /\ \A k \in {1, 2} : k + 2 \in DOMAIN loaded => loaded[k] <= loaded[k + 2]

CacheInv ==
    /\ calls \in [Counters -> Nat]
    /\ cache \in [Counters \cup {"size_bytes"} -> Nat]
    /\ \A c \in Counters : cache[c] = calls[c]
    /\ reads \in [Flushers -> Seq(Nat)]
    /\ begun \in [Flushers -> [Counters -> Nat]]
    /\ \A t \in Flushers : \A c \in Counters : begun[t][c] <= calls[c]
    /\ \A t \in Flushers : LoadsAreInBounds(reads[t], begun[t], calls)
    /\ pushed \in Seq([hits : Nat, misses : Nat, hit_rate : Nat \X Nat, size_bytes : Nat, evictions : Nat,
                       before : [Counters -> Nat], after : [Counters -> Nat]])
    /\ FlushedRatesAreOfTheFlush

LEMMA TheLoads ==
    /\ FlushReads[1] = "hits" /\ FlushReads[2] = "misses" /\ FlushReads[3] = "hits" /\ FlushReads[4] = "misses"
    /\ FlushReads[5] = "size_bytes" /\ FlushReads[6] = "evictions" /\ Len(FlushReads) = 6
    /\ \A k \in 1..6 : FlushReads[k] \in Counters \cup {"size_bytes"}
BY DEF FlushReads, Counters

\* One load more.
LEMMA LoadKeepsBounds ==
    ASSUME NEW loaded \in Seq(Nat), Len(loaded) < 6, NEW before \in [Counters -> Nat], NEW now \in [Counters -> Nat],
           LoadsAreInBounds(loaded, before, now), NEW x \in Nat,
           FlushReads[Len(loaded) + 1] \in Counters => x = now[FlushReads[Len(loaded) + 1]],
           \A c \in Counters : before[c] <= now[c]
    PROVE  LoadsAreInBounds(Append(loaded, x), IF loaded = <<>> THEN now ELSE before, now)
<1> DEFINE n == Len(loaded) + 1
           more == Append(loaded, x)
           first == IF loaded = <<>> THEN now ELSE before
<1>1. /\ more \in Seq(Nat) /\ Len(more) = n /\ n \in 1..6 /\ DOMAIN more = 1..n /\ more[n] = x
      /\ \A k \in 1..(n - 1) : more[k] = loaded[k]
  OBVIOUS
<1>2. /\ first \in [Counters -> Nat] /\ \A c \in Counters : first[c] <= now[c]
      /\ n # 1 => first = before
  OBVIOUS
<1> HIDE DEF more, first
<1>3. \A k \in 1..(n - 1) : FlushReads[k] \in Counters =>
          before[FlushReads[k]] <= loaded[k] /\ loaded[k] <= now[FlushReads[k]]
  BY DEF LoadsAreInBounds
<1>4. \A k \in 1..n : FlushReads[k] \in Counters =>
          first[FlushReads[k]] <= more[k] /\ more[k] <= now[FlushReads[k]]
  <2> TAKE k \in 1..n
  <2>1. CASE k = n
    BY <2>1, <1>1, <1>2
  <2>2. CASE k # n
    <3>1. n # 1 /\ k \in 1..(n - 1) /\ more[k] = loaded[k] /\ first = before
      BY <2>2, <1>1, <1>2
    <3> QED
      BY <3>1, <1>3
  <2> QED
    BY <2>1, <2>2
<1>5. \A k \in {1, 2} : k + 2 \in 1..n => more[k] <= more[k + 2]
  <2> SUFFICES ASSUME NEW k \in {1, 2}, k + 2 \in 1..n PROVE more[k] <= more[k + 2]
    OBVIOUS
  <2>1. CASE k + 2 = n
    <3>1. FlushReads[k] = FlushReads[k + 2] /\ FlushReads[k] \in Counters
      BY TheLoads DEF Counters
    <3>2. k \in 1..(n - 1) /\ more[k] = loaded[k] /\ loaded[k] <= now[FlushReads[k]] /\ x = now[FlushReads[k + 2]]
      BY <2>1, <3>1, <1>1, <1>3
    <3> QED
      BY <2>1, <3>1, <3>2, <1>1
  <2>2. CASE k + 2 # n
    <3>1. k + 2 \in 1..(n - 1) /\ k \in 1..(n - 1)
      BY <2>2, <1>1
    <3>2. k + 2 \in DOMAIN loaded /\ loaded[k] <= loaded[k + 2]
      BY <3>1 DEF LoadsAreInBounds
    <3> QED
      BY <3>1, <3>2, <1>1
  <2> QED
    BY <2>1, <2>2
<1>6. /\ more \in Seq(Nat) /\ Len(more) <= 6
      /\ \A k \in DOMAIN more : FlushReads[k] \in Counters =>
             first[FlushReads[k]] <= more[k] /\ more[k] <= now[FlushReads[k]]
      /\ \A k \in {1, 2} : k + 2 \in DOMAIN more => more[k] <= more[k + 2]
  BY <1>1, <1>4, <1>5
<1>7. LoadsAreInBounds(more, first, now)
  BY <1>6 DEF LoadsAreInBounds
<1> QED
  BY <1>7 DEF more, first

LEMMA CacheBegins == CacheInit => CacheInv
<1> SUFFICES ASSUME CacheInit PROVE CacheInv
  OBVIOUS
<1>1. /\ cache \in [Counters \cup {"size_bytes"} -> Nat] /\ calls \in [Counters -> Nat]
      /\ \A c \in Counters : cache[c] = calls[c]
  BY DEF CacheInit
<1>2. \A t \in Flushers : reads[t] = <<>> /\ begun[t] = calls
  BY DEF CacheInit
<1>3. \A t \in Flushers : LoadsAreInBounds(reads[t], begun[t], calls)
  <2>1. <<>> \in Seq(Nat) /\ Len(<<>>) = 0 /\ DOMAIN <<>> = {}
    OBVIOUS
  <2>2. \A k \in {1, 2} : k + 2 \notin {}
    OBVIOUS
  <2>3. LoadsAreInBounds(<<>>, calls, calls)
    BY <2>1, <2>2 DEF LoadsAreInBounds
  <2>4. QED
    BY <1>2, <2>3
<1>4. pushed = <<>> /\ FlushedRatesAreOfTheFlush
  BY DEF CacheInit, FlushedRatesAreOfTheFlush
<1>5. reads \in [Flushers -> Seq(Nat)] /\ begun \in [Flushers -> [Counters -> Nat]]
  BY <1>1 DEF CacheInit
<1>6. \A t \in Flushers : \A c \in Counters : begun[t][c] <= calls[c]
  BY <1>1, <1>2
<1>7. QED
  BY <1>1, <1>3, <1>4, <1>5, <1>6 DEF CacheInv

LEMMA CacheSteps == ASSUME CacheInv, [CacheNext]_cacheVars PROVE CacheInv'
<1>1. ASSUME NEW c \in Counters, Record(c) PROVE CacheInv'
  <2>1. cache' = [cache EXCEPT ![c] = @ + 1]
    BY <1>1 DEF Record, record_hit, record_miss, record_eviction, Raise
  <2>2. calls' = [calls EXCEPT ![c] = @ + 1] /\ UNCHANGED <<reads, begun, pushed>>
    BY <1>1 DEF Record
  <2>3. \A t \in Flushers : LoadsAreInBounds(reads[t], begun[t], calls')
    <3> TAKE t \in Flushers
    <3>1. \A d \in Counters : calls[d] <= calls'[d] /\ calls'[d] \in Nat /\ calls[d] \in Nat
      BY <2>2 DEF CacheInv
    <3>2. LoadsAreInBounds(reads[t], begun[t], calls) /\ begun[t] \in [Counters -> Nat]
      BY DEF CacheInv
    <3>3. \A k \in DOMAIN reads[t] : reads[t][k] \in Nat
      BY <3>2 DEF LoadsAreInBounds
    <3>4. \A k \in DOMAIN reads[t] : FlushReads[k] \in Counters =>
              begun[t][FlushReads[k]] <= reads[t][k] /\ reads[t][k] <= calls'[FlushReads[k]]
      <4> TAKE k \in DOMAIN reads[t]
      <4> HAVE FlushReads[k] \in Counters
      <4>1. begun[t][FlushReads[k]] <= reads[t][k] /\ reads[t][k] <= calls[FlushReads[k]]
        BY <3>2 DEF LoadsAreInBounds
      <4> QED
        BY <3>1, <3>3, <4>1
    <3> QED
      BY <3>2, <3>4 DEF LoadsAreInBounds
  <2>4. FlushedRatesAreOfTheFlush'
    BY <2>2 DEF CacheInv, FlushedRatesAreOfTheFlush
  <2>5. /\ calls' \in [Counters -> Nat]
        /\ cache' \in [Counters \cup {"size_bytes"} -> Nat]
        /\ \A d \in Counters : cache'[d] = calls'[d]
    BY <2>1, <2>2 DEF CacheInv, Counters
  <2>6. \A t \in Flushers : \A d \in Counters : begun[t][d] <= calls'[d]
    BY <2>2 DEF CacheInv
  <2> QED
    BY <2>2, <2>3, <2>4, <2>5, <2>6 DEF CacheInv
<1>2. ASSUME set_size_bytes(1) PROVE CacheInv'
  <2>1. cache' = [cache EXCEPT !["size_bytes"] = 1] /\ UNCHANGED <<calls, reads, begun, pushed>>
    BY <1>2 DEF set_size_bytes
  <2>2. /\ cache' \in [Counters \cup {"size_bytes"} -> Nat]
        /\ \A d \in Counters : cache'[d] = calls'[d]
    BY <2>1 DEF CacheInv, Counters
  <2> QED
    BY <2>1, <2>2 DEF CacheInv, FlushedRatesAreOfTheFlush
<1>3. ASSUME NEW t \in Flushers, Load(t) PROVE CacheInv'
  <2> DEFINE n == Len(reads[t]) + 1
             x == cache[FlushReads[n]]
  <2>1. /\ LoadsAreInBounds(reads[t], begun[t], calls)
        /\ reads[t] \in Seq(Nat) /\ begun[t] \in [Counters -> Nat] /\ calls \in [Counters -> Nat]
    BY DEF CacheInv
  <2>2. /\ Len(reads[t]) < 6
        /\ reads' = [reads EXCEPT ![t] = Append(@, x)]
        /\ begun' = IF reads[t] = <<>> THEN [begun EXCEPT ![t] = calls] ELSE begun
        /\ UNCHANGED <<cache, calls, pushed>>
    BY <1>3 DEF Load, FlushReads
  <2>3. /\ n \in 1..6 /\ FlushReads[n] \in Counters \cup {"size_bytes"}
        /\ cache \in [Counters \cup {"size_bytes"} -> Nat] /\ x \in Nat
    <3>1. n \in 1..6
      <4>1. Len(reads[t]) \in Nat
        BY <2>1
      <4>2. Len(reads[t]) < 6
        BY <2>2
      <4>3. QED
        BY <4>1, <4>2
    <3>2. FlushReads[n] \in Counters \cup {"size_bytes"}
      BY <3>1, TheLoads
    <3>3. cache \in [Counters \cup {"size_bytes"} -> Nat]
      BY DEF CacheInv
    <3> QED
      BY <3>1, <3>2, <3>3
  <2>4. LoadsAreInBounds(reads'[t], begun'[t], calls)
    BY <2>1, <2>2, <2>3, LoadKeepsBounds DEF CacheInv
  <2>5. \A u \in Flushers : LoadsAreInBounds(reads'[u], begun'[u], calls')
    BY <2>2, <2>4 DEF CacheInv
  <2>6. reads' \in [Flushers -> Seq(Nat)] /\ begun' \in [Flushers -> [Counters -> Nat]]
    BY <2>1, <2>2, <2>3 DEF CacheInv
  <2> QED
    BY <2>2, <2>5, <2>6 DEF CacheInv, FlushedRatesAreOfTheFlush
<1>4. ASSUME NEW t \in Flushers, Push(t) PROVE CacheInv'
  <2>0. PICK r, b : /\ r = reads[t]
                    /\ b = [hits |-> r[1], misses |-> r[2], hit_rate |-> <<r[3], r[3] + r[4]>>,
                            size_bytes |-> r[5], evictions |-> r[6], before |-> begun[t], after |-> calls]
    OBVIOUS
  <2>1. /\ LoadsAreInBounds(r, begun[t], calls) /\ Len(r) = 6
        /\ begun[t] \in [Counters -> Nat] /\ calls \in [Counters -> Nat]
    BY <1>4, <2>0 DEF CacheInv, Push, FlushReads
  <2>2. \A k \in 1..6 : r[k] \in Nat
    <3>1. r \in Seq(Nat)
      BY <2>1 DEF LoadsAreInBounds
    <3>2. \A k \in 1..Len(r) : r[k] \in Nat
      BY <3>1
    <3> QED
      BY <2>1, <3>2
  <2>3. /\ pushed' = Append(pushed, b)
        /\ reads' = [reads EXCEPT ![t] = <<>>]
        /\ UNCHANGED <<cache, calls, begun>>
    BY <1>4, <2>0 DEF Push
  <2>4. /\ b.before["hits"] <= b.hits /\ b.hits <= b.hit_rate[1] /\ b.hit_rate[1] <= b.after["hits"]
        /\ b.before["misses"] <= b.misses /\ b.misses <= b.hit_rate[2] - b.hit_rate[1]
        /\ b.hit_rate[2] - b.hit_rate[1] <= b.after["misses"]
        /\ b.before["evictions"] <= b.evictions /\ b.evictions <= b.after["evictions"]
    <3>1. \A k \in 1..6 : FlushReads[k] \in Counters =>
              begun[t][FlushReads[k]] <= r[k] /\ r[k] <= calls[FlushReads[k]]
      BY <2>1 DEF LoadsAreInBounds
    <3>2. {"hits", "misses", "evictions"} \subseteq Counters
      BY DEF Counters
    <3>3. /\ begun[t]["hits"] <= r[1] /\ r[3] <= calls["hits"]
          /\ begun[t]["misses"] <= r[2] /\ r[4] <= calls["misses"]
          /\ begun[t]["evictions"] <= r[6] /\ r[6] <= calls["evictions"]
      BY <3>1, <3>2, TheLoads
    <3>4. r[1] <= r[3] /\ r[2] <= r[4]
      <4>1. 3 \in DOMAIN r /\ 4 \in DOMAIN r
        BY <2>1 DEF LoadsAreInBounds
      <4>2. \A k \in {1, 2} : k + 2 \in DOMAIN r => r[k] <= r[k + 2]
        BY <2>1 DEF LoadsAreInBounds
      <4> QED
        BY <4>1, <4>2
    <3>6. /\ b.before = begun[t] /\ b.after = calls /\ b.hits = r[1] /\ b.misses = r[2] /\ b.evictions = r[6]
          /\ b.hit_rate[1] = r[3] /\ b.hit_rate[2] = r[3] + r[4]
      BY <2>0
    <3>7. b.hit_rate[2] - b.hit_rate[1] = r[4]
      BY <2>2, <3>6
    <3>8. /\ b.before["hits"] <= b.hits /\ b.hits <= b.hit_rate[1] /\ b.hit_rate[1] <= b.after["hits"]
      BY <3>3, <3>4, <3>6
    <3>9. b.before["misses"] <= b.misses /\ b.misses <= r[4] /\ r[4] <= b.after["misses"]
      BY <3>3, <3>4, <3>6
    <3>10. b.before["evictions"] <= b.evictions /\ b.evictions <= b.after["evictions"]
      BY <3>3, <3>6
    <3> QED
      BY <3>7, <3>8, <3>9, <3>10
  <2>5. b \in [hits : Nat, misses : Nat, hit_rate : Nat \X Nat, size_bytes : Nat, evictions : Nat,
               before : [Counters -> Nat], after : [Counters -> Nat]]
    BY <2>0, <2>1, <2>2
  <2>6. FlushedRatesAreOfTheFlush'
    <3>1. \A i \in DOMAIN pushed' : (i \in DOMAIN pushed /\ pushed'[i] = pushed[i]) \/ pushed'[i] = b
      <4> DEFINE Flushed == [hits : Nat, misses : Nat, hit_rate : Nat \X Nat, size_bytes : Nat, evictions : Nat,
                             before : [Counters -> Nat], after : [Counters -> Nat]]
      <4>1. pushed \in Seq(Flushed) /\ b \in Flushed /\ pushed' = Append(pushed, b)
        BY <2>3, <2>5 DEF CacheInv
      <4> HIDE DEF Flushed
      <4> QED
        BY <4>1
    <3> QED
      BY <2>4, <3>1 DEF CacheInv, FlushedRatesAreOfTheFlush
  <2>7. \A u \in Flushers : LoadsAreInBounds(reads'[u], begun'[u], calls')
    BY <2>1, <2>3 DEF CacheInv, LoadsAreInBounds
  <2> QED
    BY <2>1, <2>3, <2>5, <2>6, <2>7 DEF CacheInv
<1>5. ASSUME UNCHANGED cacheVars PROVE CacheInv'
  BY <1>5 DEF CacheInv, cacheVars, FlushedRatesAreOfTheFlush, LoadsAreInBounds
<1> QED
  BY <1>1, <1>2, <1>3, <1>4, <1>5 DEF CacheNext

\* Whichever service runs, the counters change by their own steps alone.
LEMMA CacheRuns == Init /\ [][Next]_vars => CacheInit /\ [][CacheNext]_cacheVars
<1>1. Init => CacheInit
  BY DEF Init
<1>2. [Next]_vars => [CacheNext]_cacheVars
  BY DEF Next, vars, LanguageServer, Watcher, Mcp, Hook, Cache, Audit
<1> QED
  BY <1>1, <1>2, PTL

\* FlushedRatesAreOfTheFlush: what a flush pushes was counted while it ran, and its
\* rate no earlier than the counters beside it, over any threads and calls.
THEOREM FlushesAreOfTheirTime == Spec => []FlushedRatesAreOfTheFlush
<1>1. CacheInv => FlushedRatesAreOfTheFlush
  BY DEF CacheInv
<1>2. CacheInit => CacheInv
  BY CacheBegins
<1>3. CacheInv /\ [CacheNext]_cacheVars => CacheInv'
  BY CacheSteps
<1> QED
  BY <1>1, <1>2, <1>3, CacheRuns, PTL DEF Spec

-----------------------------------------------------------------------------
(* The MCP server *)

McpLines == [method : Methods \cup NoMessages, id : McpIds \cup {NoMcpId}, tool : Tools, action : Actions,
             audience : {"none", "on"}, path : {"ok", "bad"}]

Results == [error : BOOLEAN, data : {"message", "findings", "rule", "user", "operator", "empty list"}]
Codes == {"ok", "PARSE_ERROR", "METHOD_NOT_FOUND", "INTERNAL_ERROR"}
McpAnswers == [id : McpIds \cup {NoMcpId}, code : Codes, result : Results, config : Configs]

OptedIn(answer) == answer.result.data = "operator" => answer.config \in {"operator-only", "on"}

\* What cannot be read, and a blank line, has no id.
McpInv ==
    /\ config \in Configs
    /\ lines \in Seq(McpLines)
    /\ \A i \in DOMAIN lines : lines[i].method \in NoMessages => lines[i].id = NoMcpId
    /\ written \in Seq(McpAnswers)
    /\ owed \in Seq(McpIds \cup {NoMcpId})
    /\ Len(owed) = IF mcpUp THEN Len(written) ELSE Len(written) + 1
    /\ \A i \in 1..Len(written) : owed[i] = written[i].id
    /\ OperatorDataNeedsOptIn

\* Whatever tool is called: its result is operator data only for an audience the
\* configuration itself gives.
LEMMA ToolsNeedOptIn ==
    ASSUME NEW line \in McpLines, NEW c \in Configs
    PROVE  /\ dispatch_tool(line, c) \in Results
           /\ dispatch_tool(line, c).data = "operator" => c \in {"operator-only", "on"}
<1>1. /\ execute_health(line, c) \in Results /\ execute_health(line, c).data # "operator"
      /\ execute_dead_code(line, c) \in Results /\ execute_dead_code(line, c).data # "operator"
  BY DEF execute_health, execute_dead_code, Failed, Text, Results
<1>2. execute_explain(line) \in Results /\ execute_explain(line).data # "operator"
  BY DEF execute_explain, Failed, Text, Results
<1>3. /\ execute_telemetry(line, c) \in Results
      /\ execute_telemetry(line, c).data = "operator" => c \in {"operator-only", "on"}
  <2>1. \A action, a : /\ execute_telemetry_with_config(action, a) \in Results
                       /\ execute_telemetry_with_config(action, a).data = "operator" => a \in {"operator-only", "on"}
    BY DEF execute_telemetry_with_config, operator_enabled, Failed, Text, Results
  <2>2. Audience(c) \in {"operator-only", "on"} => c \in {"operator-only", "on"}
    BY DEF Audience, Audiences
  <2> QED
    BY <2>1, <2>2 DEF execute_telemetry, Failed, Results
<1>4. Failed \in Results /\ Failed.data # "operator"
  BY DEF Failed, Results
<1> QED
  BY <1>1, <1>2, <1>3, <1>4 DEF dispatch_tool, McpLines, Tools

\* A line calls for an answer exactly when it gets one, which bears its id.
LEMMA OneAnswer ==
    ASSUME config \in Configs, NEW line \in McpLines,
           line.method \in NoMessages => line.id = NoMcpId, line.method # "undecodable"
    PROVE  \/ CallsForAnswer(line) = <<>> /\ ToWrite(line) = <<>>
           \/ \E a \in McpAnswers : /\ CallsForAnswer(line) = <<a.id>>
                                    /\ ToWrite(line) = <<a>> /\ OptedIn(a)
<1>1. \A id \in McpIds \cup {NoMcpId}, r \in Results : (r.data = "operator" => config \in {"operator-only", "on"}) =>
          \E a \in McpAnswers : a.id = id /\ Success(id, r) = <<a>> /\ OptedIn(a)
  <2> TAKE id \in McpIds \cup {NoMcpId}, r \in Results
  <2> HAVE r.data = "operator" => config \in {"operator-only", "on"}
  <2>1. [id |-> id, code |-> "ok", result |-> r, config |-> config] \in McpAnswers
    BY DEF McpAnswers, Codes
  <2> WITNESS [id |-> id, code |-> "ok", result |-> r, config |-> config] \in McpAnswers
  <2> QED
    BY DEF Success, OptedIn
<1>2. \A id \in McpIds \cup {NoMcpId}, code \in Codes :
          \E a \in McpAnswers : a.id = id /\ Error(id, code) = <<a>> /\ OptedIn(a)
  <2> TAKE id \in McpIds \cup {NoMcpId}, code \in Codes
  <2>1. [id |-> id, code |-> code, result |-> Failed, config |-> config] \in McpAnswers
    BY DEF McpAnswers, Failed, Results
  <2> WITNESS [id |-> id, code |-> code, result |-> Failed, config |-> config] \in McpAnswers
  <2> QED
    BY DEF Error, OptedIn, Failed
<1>3. CASE line.method = "blank"
  BY <1>3 DEF CallsForAnswer, ToWrite, NoMessages
<1>4. CASE line.method = "garbage"
  <2>1. line.id = NoMcpId /\ CallsForAnswer(line) = <<line.id>> /\ ToWrite(line) = Error(line.id, "PARSE_ERROR")
    BY <1>4 DEF CallsForAnswer, handle_message, ToWrite, NoMessages
  <2> QED
    BY <1>2, <1>4, <2>1 DEF Codes
<1>5. CASE line.method \in Methods
  <2>1. CASE line.id = NoMcpId
    BY <1>5, <2>1 DEF CallsForAnswer, handle_message, ToWrite, Methods
  <2>2. CASE line.id # NoMcpId /\ line.method = "notifications/initialized"
    BY <2>2 DEF CallsForAnswer, handle_message, ToWrite, Response
  <2>3. CASE line.id # NoMcpId /\ line.method # "notifications/initialized"
    <3>1. CallsForAnswer(line) = <<line.id>> /\ ToWrite(line) = Response(line)
          /\ line.id \in McpIds \cup {NoMcpId}
      BY <1>5, <2>3 DEF CallsForAnswer, handle_message, ToWrite, Methods, McpLines
    <3>2. CASE line.method \in {"initialize", "tools/list", "shutdown"}
      <4>1. Response(line) = Success(line.id, Text("message")) /\ Text("message") \in Results
            /\ Text("message").data # "operator"
        BY <3>2 DEF Response, Text, Results
      <4> QED
        BY <1>1, <3>1, <4>1
    <3>3. CASE line.method = "tools/call"
      <4>1. CASE line.tool = "none"
        <5>1. Response(line) = Error(line.id, "INTERNAL_ERROR")
          BY <3>3, <4>1 DEF Response, handle_tools_call
        <5> QED
          BY <1>2, <3>1, <5>1 DEF Codes
      <4>2. CASE line.tool # "none"
        <5>1. Response(line) = Success(line.id, dispatch_tool(line, config))
          BY <3>3, <4>2 DEF Response, handle_tools_call
        <5> QED
          BY <1>1, <3>1, <5>1, ToolsNeedOptIn
      <4> QED
        BY <4>1, <4>2
    <3>4. CASE line.method = "other"
      <4>1. Response(line) = Error(line.id, "METHOD_NOT_FOUND")
        BY <2>3, <3>4 DEF Response
      <4> QED
        BY <1>2, <3>1, <4>1 DEF Codes
    <3> QED
      BY <1>5, <2>3, <3>2, <3>3, <3>4 DEF Methods
  <2> QED
    BY <2>1, <2>2, <2>3
<1> QED
  BY <1>3, <1>4, <1>5 DEF McpLines, NoMessages

LEMMA McpBegins == McpInit => McpInv
BY DEF McpInit, McpInv, OperatorDataNeedsOptIn

LEMMA McpSteps == ASSUME McpInv, [McpNext]_mcpVars PROVE McpInv'
<1>1. ASSUME ClientSends PROVE McpInv'
  <2>1. PICK line \in McpLines : /\ lines' = Append(lines, line)
                                 /\ line.method \in NoMessages => line.id = NoMcpId
    BY <1>1 DEF ClientSends, Line, McpLines, NoMessages
  <2>2. lines' \in Seq(McpLines)
    BY <2>1 DEF McpInv
  <2>3. \A i \in DOMAIN lines' : (i \in DOMAIN lines /\ lines'[i] = lines[i]) \/ lines'[i] = line
    BY <2>1 DEF McpInv
  <2>4. UNCHANGED <<config, written, owed, mcpUp>>
    BY <1>1 DEF ClientSends
  <2> QED
    BY <2>1, <2>2, <2>3, <2>4 DEF McpInv, OperatorDataNeedsOptIn
<1>2. ASSUME OwnerEdits PROVE McpInv'
  BY <1>2 DEF OwnerEdits, McpInv, OperatorDataNeedsOptIn
<1>5. ASSUME lines # <<>>, lines' = Tail(lines), NEW line, line = Head(lines)
      PROVE  /\ line \in McpLines /\ (line.method \in NoMessages => line.id = NoMcpId)
             /\ lines' \in Seq(McpLines)
             /\ \A i \in DOMAIN lines' : lines'[i].method \in NoMessages => lines'[i].id = NoMcpId
  <2>1. line \in McpLines /\ (line.method \in NoMessages => line.id = NoMcpId)
    <3>1. lines \in Seq(McpLines) /\ 1 \in DOMAIN lines /\ line = lines[1]
      BY <1>5 DEF McpInv
    <3> QED
      BY <3>1 DEF McpInv
  <2>2. /\ lines' \in Seq(McpLines)
        /\ \A i \in DOMAIN lines' : i + 1 \in DOMAIN lines /\ lines'[i] = lines[i + 1]
    BY <1>5 DEF McpInv
  <2> QED
    BY <2>1, <2>2 DEF McpInv
\* The answer to the last line is lost with the loop.
<1>6. ASSUME written' = written, config' = config, mcpUp, mcpUp' = FALSE,
             NEW id \in McpIds \cup {NoMcpId}, owed' = Append(owed, id),
             lines' \in Seq(McpLines),
             \A i \in DOMAIN lines' : lines'[i].method \in NoMessages => lines'[i].id = NoMcpId
      PROVE  McpInv'
  <2>1. owed \in Seq(McpIds \cup {NoMcpId}) /\ Len(owed) = Len(written) /\ written \in Seq(McpAnswers)
    BY <1>6 DEF McpInv
  <2>2. /\ owed' \in Seq(McpIds \cup {NoMcpId}) /\ Len(owed') = Len(written') + 1
        /\ \A i \in 1..Len(written') : owed'[i] = owed[i]
    BY <1>6, <2>1
  <2> QED
    BY <1>6, <2>2 DEF McpInv, OperatorDataNeedsOptIn
<1>7. ASSUME ServerStops PROVE McpInv'
  <2>1. PICK line : line = Head(lines)
    OBVIOUS
  <2>2. /\ lines # <<>> /\ lines' = Tail(lines) /\ line.method = "undecodable" /\ mcpUp /\ mcpUp' = FALSE
        /\ owed' = owed \o CallsForAnswer(line) /\ UNCHANGED <<config, written>>
    BY <1>7, <2>1 DEF ServerStops
  <2>3. CallsForAnswer(line) = <<line.id>> /\ line.id \in McpIds \cup {NoMcpId}
    BY <1>5, <2>1, <2>2 DEF CallsForAnswer, McpLines
  <2>4. owed' = Append(owed, line.id)
    BY <2>2, <2>3 DEF McpInv
  <2> QED
    BY <1>5, <1>6, <2>1, <2>2, <2>3, <2>4
<1>3. ASSUME ServerReads PROVE McpInv'
  <2>0. PICK line : line = Head(lines)
    OBVIOUS
  <2>1. /\ line \in McpLines /\ (line.method \in NoMessages => line.id = NoMcpId)
        /\ line.method # "undecodable"
    BY <1>3, <1>5, <2>0 DEF ServerReads
  <2>2. lines' \in Seq(McpLines)
    BY <1>3, <1>5, <2>0 DEF ServerReads
  <2>3. \A i \in DOMAIN lines' : lines'[i].method \in NoMessages => lines'[i].id = NoMcpId
    BY <1>3, <1>5, <2>0 DEF ServerReads
  <2>4. /\ owed' = owed \o CallsForAnswer(line)
        /\ \/ written' = written \o ToWrite(line) /\ mcpUp' = mcpUp
           \/ ToWrite(line) # <<>> /\ mcpUp' = FALSE /\ written' = written
        /\ config' = config /\ mcpUp
    BY <1>3, <2>0 DEF ServerReads
  <2>5. written \in Seq(McpAnswers) /\ config \in Configs
    BY DEF McpInv
  <2>6. CASE CallsForAnswer(line) = <<>> /\ ToWrite(line) = <<>>
    <3>1. owed \in Seq(McpIds \cup {NoMcpId})
      BY DEF McpInv
    <3>2. owed' = owed /\ written' = written /\ mcpUp' = mcpUp
      BY <2>4, <2>5, <2>6, <3>1
    <3> QED
      BY <2>2, <2>3, <2>4, <3>2 DEF McpInv, OperatorDataNeedsOptIn
  <2>7. ASSUME NEW a \in McpAnswers, CallsForAnswer(line) = <<a.id>>, ToWrite(line) = <<a>>, OptedIn(a)
        PROVE  McpInv'
    <3>0. owed' = Append(owed, a.id) /\ a.id \in McpIds \cup {NoMcpId}
      BY <2>4, <2>7 DEF McpInv, McpAnswers
    <3>1. CASE written' = written \o <<a>> /\ mcpUp' = mcpUp
      <4>1. /\ written' \in Seq(McpAnswers) /\ Len(written') = Len(written) + 1
            /\ \A i \in 1..Len(written) : written'[i] = written[i]
            /\ written'[Len(written) + 1] = a
        BY <2>5, <2>7, <3>1
      <4>2. OperatorDataNeedsOptIn'
        BY <2>5, <2>7, <4>1 DEF OperatorDataNeedsOptIn, McpInv, OptedIn
      <4>3. /\ owed \in Seq(McpIds \cup {NoMcpId}) /\ Len(owed) = Len(written)
            /\ \A i \in 1..Len(written) : owed[i] = written[i].id
        BY <2>4 DEF McpInv
      <4>4. /\ owed' \in Seq(McpIds \cup {NoMcpId}) /\ Len(owed') = Len(written) + 1
            /\ \A i \in 1..Len(written) : owed'[i] = owed[i]
            /\ owed'[Len(written) + 1] = a.id
        BY <3>0, <4>3
      <4>5. \A i \in 1..Len(written') : owed'[i] = written'[i].id
        BY <2>5, <4>1, <4>3, <4>4
      <4> QED
        BY <2>2, <2>3, <2>4, <2>5, <3>1, <4>1, <4>2, <4>4, <4>5 DEF McpInv
    <3>2. CASE mcpUp' = FALSE /\ written' = written
      BY <1>6, <2>2, <2>3, <2>4, <3>0, <3>2
    <3> QED
      BY <2>4, <2>7, <3>1, <3>2
  <2> QED
    BY <2>1, <2>5, <2>6, <2>7, OneAnswer
<1>4. ASSUME UNCHANGED mcpVars PROVE McpInv'
  BY <1>4 DEF mcpVars, McpInv, OperatorDataNeedsOptIn
<1> QED
  BY <1>1, <1>2, <1>3, <1>4, <1>7 DEF McpNext

LEMMA McpRuns == Spec => [](McpAnswersOnce /\ OperatorDataNeedsOptIn)
<1>1. Init => McpInv
  BY McpBegins DEF Init
<1>2. McpInv /\ [Next]_vars => McpInv'
  <2>1. [Next]_vars => [McpNext]_mcpVars
    BY DEF Next, vars, LanguageServer, Watcher, Mcp, Hook, Cache, Audit
  <2> QED
    BY <2>1, McpSteps
<1>3. McpInv => McpAnswersOnce /\ OperatorDataNeedsOptIn
  <2> SUFFICES ASSUME McpInv PROVE McpAnswersOnce
    BY DEF McpInv
  <2> DEFINE answered == [i \in DOMAIN written |-> written[i].id]
  <2>1. /\ written \in Seq(McpAnswers) /\ Len(written) \in Nat /\ DOMAIN written = 1..Len(written)
        /\ owed \in Seq(McpIds \cup {NoMcpId})
        /\ \A i \in 1..Len(written) : owed[i] = written[i].id
    BY DEF McpInv
  <2>2. answered \in Seq(McpIds \cup {NoMcpId}) /\ Len(answered) = Len(written)
        /\ \A i \in 1..Len(written) : answered[i] = owed[i]
    <3>1. answered = [i \in 1..Len(written) |-> owed[i]]
      BY <2>1
    <3>2. \A i \in 1..Len(written) : owed[i] \in McpIds \cup {NoMcpId}
      <4>1. Len(owed) \in Nat /\ Len(written) <= Len(owed)
        BY <2>1 DEF McpInv
      <4> QED
        BY <2>1, <4>1
    <3> HIDE DEF answered
    <3> QED
      BY <2>1, <3>1, <3>2
  <2> HIDE DEF answered
  <2>3. CASE mcpUp
    <3>1. Len(owed) = Len(written)
      BY <2>3 DEF McpInv
    <3>2. owed = answered
      BY <2>1, <2>2, <3>1
    <3> QED
      BY <2>3, <3>2 DEF McpAnswersOnce, answered
  <2>4. CASE ~mcpUp
    <3>1. Len(owed) = Len(written) + 1
      BY <2>4 DEF McpInv
    <3>2. owed[Len(owed)] \in McpIds \cup {NoMcpId} /\ owed = Append(answered, owed[Len(owed)])
      BY <2>1, <2>2, <3>1
    <3> QED
      BY <2>4, <3>2 DEF McpAnswersOnce, answered
  <2> QED
    BY <2>3, <2>4
<1> QED
  BY <1>1, <1>2, <1>3, PTL DEF Spec

\* OperatorDataNeedsOptIn: whatever the requests ask for and however the project's
\* file changes between them, operator data is shown only as the file opts in.
THEOREM OperatorDataIsOptIn == Spec => []OperatorDataNeedsOptIn
BY McpRuns, PTL

-----------------------------------------------------------------------------
(* The language server *)

Messages == [method : Requests \cup Notices \cup {"didSave", "didOpen", "garbage", "headerless"}, id : Ids \cup {NoId},
             file : Files, text : Contents \cup {Missing}, params : {"ok", "bad"}]
Replies == [id : Ids, result : {"capabilities", "metrics", "null"}]

\* Requests bear an id, and nothing else does; only theirs are parameters that cannot
\* be read.  What is opened has a text.
WellSent(msg) ==
    /\ msg.id = NoId => msg.method \notin {"initialize", "shutdown", "hover"} /\ msg.params = "ok"
    /\ msg.id # NoId => msg.method \in Requests
    /\ msg.method = "didOpen" => msg.text \in Contents

LspTypes ==
    /\ disk \in [Files -> Contents \cup {Missing}]
    /\ wire \in Seq(Messages)
    /\ \A i \in DOMAIN wire : WellSent(wire[i])
    /\ shown \in [Files -> SUBSET Contents]

\* The requests read have a reply, all but the one whose answer was not written; no id is
\* on the wire twice, or again after it was read, and no two replies are to one request.
AnsweredOnce ==
    /\ \A id \in asked : lspUp => \E i \in DOMAIN replies : replies[i].id = id
    /\ \A id, other \in asked :
           \/ id = other
           \/ \E i \in DOMAIN replies : replies[i].id = id \/ replies[i].id = other

AskedOnce ==
    /\ \A i, j \in DOMAIN wire : wire[i].id = wire[j].id /\ wire[i].id # NoId => i = j
    /\ asked \subseteq Ids
    /\ \A i \in DOMAIN wire : wire[i].id \notin asked
    /\ replies \in Seq(Replies)
    /\ \A i, j \in DOMAIN replies : replies[i].id = replies[j].id => i = j
    /\ \A i \in DOMAIN replies : replies[i].id \in asked

Opens(msg, f) == msg.method = "didOpen" /\ msg.file = f
Saves(msg, f) == msg.method = "didSave" /\ msg.file = f

\* Either the findings of the disk are shown or the save that will bring them is on
\* the wire, and what was opened after that is what is on disk.
UpToDate(f) ==
    /\ disk[f] # Missing
    /\ \E k \in 0..Len(wire) :
           /\ IF k = 0 THEN shown[f] = FoundAlone(disk[f]) ELSE Saves(wire[k], f)
           /\ \A j \in (k + 1)..Len(wire) : Opens(wire[j], f) => wire[j].text = disk[f]

\* What the editor puts on the wire, and what of its files stays as it was.
Sends(msg) ==
    /\ WellSent(msg) /\ Send(msg)
    /\ msg.id # NoId => msg.id \notin asked /\ \A i \in DOMAIN wire : wire[i].id # msg.id
    /\ disk' \in [Files -> Contents \cup {Missing}]
    /\ \A g \in Files \ unsynced' :
           \/ g \notin unsynced /\ disk'[g] = disk[g] /\ (Opens(msg, g) => msg.text = disk[g])
           \/ Saves(msg, g) /\ disk'[g] # Missing
    /\ UNCHANGED <<shown, asked, replies, lspUp>>

LEMMA EditorSends ==
    ASSUME LspTypes, NEW f \in Files, EditorSaves(f) \/ EditorOpens(f) \/ EditorAsks(f) \/ EditorSendsElse(f)
    PROVE  \E msg \in Messages : Sends(msg)
<1>0. disk \in [Files -> Contents \cup {Missing}] /\ Missing \notin Contents /\ NoId \notin Ids
  BY EditorFilesAssumption, LspAssumption DEF LspTypes
<1>1. CASE EditorSaves(f)
  <2>1. PICK c \in Contents : /\ Send(Message("didSave", NoId, f, c, "ok"))
                              /\ disk' = [disk EXCEPT ![f] = c] /\ unsynced' = unsynced \ {f}
                              /\ UNCHANGED <<shown, asked, replies, lspUp>>
    BY <1>1 DEF EditorSaves
  <2>2. PICK msg : msg = Message("didSave", NoId, f, c, "ok")
    OBVIOUS
  <2>3. msg \in Messages /\ WellSent(msg) /\ msg.id = NoId /\ Saves(msg, f)
    BY <2>2 DEF Message, Messages, WellSent, Saves
  <2>4. disk' \in [Files -> Contents \cup {Missing}] /\ disk'[f] = c /\ c # Missing
        /\ \A g \in Files : g # f => disk'[g] = disk[g]
    BY <1>0, <2>1
  <2>5. ASSUME NEW g \in Files \ unsynced', g # f
        PROVE  g \notin unsynced /\ disk'[g] = disk[g] /\ ~Opens(msg, g)
    BY <2>1, <2>3, <2>4, <2>5 DEF Opens, Saves
  <2> QED
    BY <2>1, <2>2, <2>3, <2>4, <2>5 DEF Sends
<1>2. CASE EditorOpens(f)
  <2>1. PICK msg : msg = Message("didOpen", NoId, f, disk[f], "ok")
    OBVIOUS
  <2>2. disk[f] \in Contents /\ Send(msg) /\ UNCHANGED <<disk, unsynced, shown, asked, replies, lspUp>>
    BY <1>0, <1>2, <2>1 DEF EditorOpens
  <2>3. msg \in Messages /\ WellSent(msg) /\ msg.id = NoId /\ msg.file = f /\ msg.text = disk[f]
    BY <2>1, <2>2 DEF Message, Messages, WellSent
  <2> QED
    BY <1>0, <2>2, <2>3 DEF Sends, Opens
<1>3. CASE EditorAsks(f)
  <2>1. PICK id \in Ids, method \in Requests, params \in {"ok", "bad"} :
            /\ id \notin asked /\ \A i \in DOMAIN wire : wire[i].id # id
            /\ Send(Message(method, id, f, Missing, params))
            /\ UNCHANGED <<disk, unsynced, shown, asked, replies, lspUp>>
    BY <1>3 DEF EditorAsks
  <2>2. PICK msg : msg = Message(method, id, f, Missing, params)
    OBVIOUS
  <2>3. msg \in Messages /\ WellSent(msg) /\ msg.id = id /\ msg.method = method
    BY <1>0, <2>2 DEF Message, Messages, WellSent, Requests
  <2>4. \A g : ~Opens(msg, g)
    BY <2>3 DEF Opens, Requests
  <2> QED
    BY <1>0, <2>1, <2>2, <2>3, <2>4 DEF Sends
<1>4. CASE EditorSendsElse(f)
  <2>1. PICK method \in Notices \cup {"garbage", "headerless"} :
            Send(Message(method, NoId, f, Missing, "ok")) /\ UNCHANGED <<disk, unsynced, shown, asked, replies, lspUp>>
    BY <1>4 DEF EditorSendsElse
  <2>2. PICK msg : msg = Message(method, NoId, f, Missing, "ok")
    OBVIOUS
  <2>3. msg \in Messages /\ WellSent(msg) /\ msg.id = NoId /\ msg.method = method
    BY <1>0, <2>2 DEF Message, Messages, WellSent, Notices
  <2>4. \A g : ~Opens(msg, g)
    BY <2>3 DEF Opens, Notices
  <2> QED
    BY <1>0, <2>1, <2>2, <2>3, <2>4 DEF Sends
<1> QED
  BY <1>1, <1>2, <1>3, <1>4

LEMMA SendAppends ==
    ASSUME LspTypes, NEW msg \in Messages, Sends(msg)
    PROVE  /\ wire' \in Seq(Messages) /\ Len(wire') = Len(wire) + 1 /\ wire'[Len(wire) + 1] = msg
           /\ \A i \in 1..Len(wire) : wire'[i] = wire[i]
           /\ \A i \in 1..Len(wire') : i \in 1..Len(wire) \/ i = Len(wire) + 1
           /\ LspTypes'
<1>1. wire \in Seq(Messages) /\ wire' = Append(wire, msg)
  BY DEF LspTypes, Sends, Send
<1>2. /\ wire' \in Seq(Messages) /\ Len(wire') = Len(wire) + 1 /\ wire'[Len(wire) + 1] = msg
      /\ \A i \in 1..Len(wire) : wire'[i] = wire[i]
      /\ \A i \in 1..Len(wire') : i \in 1..Len(wire) \/ i = Len(wire) + 1
  BY <1>1
<1>3. \A i \in DOMAIN wire' : WellSent(wire'[i])
  <2>1. \A i \in 1..Len(wire) : WellSent(wire[i])
    BY <1>1 DEF LspTypes
  <2>2. WellSent(msg)
    BY DEF Sends
  <2> QED
    BY <1>2, <2>1, <2>2
<1>4. WellSent(msg)' = WellSent(msg)
  BY DEF WellSent
<1> QED
  BY <1>2, <1>3 DEF LspTypes, Sends

\* What is taken from the wire.
LEMMA TakeFromWire ==
    ASSUME LspTypes, wire # <<>>, wire' = Tail(wire)
    PROVE  /\ Head(wire) \in Messages /\ WellSent(Head(wire)) /\ 1 \in 1..Len(wire) /\ Head(wire) = wire[1]
           /\ wire' \in Seq(Messages) /\ Len(wire') = Len(wire) - 1
           /\ \A i \in 1..Len(wire') : i + 1 \in 1..Len(wire) /\ wire'[i] = wire[i + 1]
           /\ \A i \in DOMAIN wire' : WellSent(wire'[i])
<1>1. wire \in Seq(Messages) /\ \A i \in 1..Len(wire) : WellSent(wire[i])
  BY DEF LspTypes
<1>2. /\ 1 \in 1..Len(wire) /\ Head(wire) = wire[1] /\ wire[1] \in Messages
      /\ wire' \in Seq(Messages) /\ Len(wire') = Len(wire) - 1
      /\ \A i \in 1..Len(wire') : i + 1 \in 1..Len(wire) /\ wire'[i] = wire[i + 1]
  BY <1>1
<1> QED
  BY <1>1, <1>2

\* What a message makes the editor show: the findings of the text it is about.
LEMMA WhatIsPublished ==
    ASSUME LspTypes, NEW msg \in Messages, WellSent(msg)
    PROVE  /\ \A d \in Publishes(msg) : d \in SUBSET Contents
           /\ msg.method \notin {"didSave", "didOpen"} => Publishes(msg) = {}
           /\ msg.method = "didSave" /\ disk[msg.file] # Missing => Publishes(msg) = {FoundAlone(disk[msg.file])}
           /\ msg.method = "didOpen" => Publishes(msg) = {FoundAlone(msg.text)} \ {{}}
<1>1. /\ msg.file \in Files /\ disk[msg.file] \in Contents \cup {Missing}
      /\ \A c \in Contents : FoundAlone(c) \in SUBSET Contents
  BY EditorFilesAssumption DEF LspTypes, Messages, FoundAlone
<1>2. msg.method \in {"didSave", "didOpen"} => msg.params = "ok"
  BY DEF WellSent, Requests, Messages
<1>3. msg.method \notin {"didSave", "didOpen"} => Publishes(msg) = {}
  BY DEF Publishes
<1>4. ASSUME msg.method = "didSave"
      PROVE  Publishes(msg) = IF disk[msg.file] = Missing THEN {} ELSE {FoundAlone(disk[msg.file])}
  <2>1. Publishes(msg) = SavePublishes(msg.file)
    BY <1>2, <1>4 DEF Publishes
  <2> QED
    BY <2>1 DEF SavePublishes, Readable, analyze_file_for_diagnostics
<1>5. ASSUME msg.method = "didOpen" PROVE Publishes(msg) = {FoundAlone(msg.text)} \ {{}} /\ msg.text \in Contents
  BY <1>2, <1>5 DEF Publishes, OpenPublishes, analyze_file_for_diagnostics, WellSent
<1> QED
  BY <1>1, <1>3, <1>4, <1>5

\* The server takes a message and what it publishes is shown.
LEMMA HandlingIsTyped ==
    ASSUME LspTypes, ServerHandles
    PROVE  \E msg \in Messages :
               /\ WellSent(msg) /\ msg = Head(wire) /\ UNCHANGED <<disk, unsynced>>
               /\ shown' \in [Files -> SUBSET Contents]
               /\ \A f \in Files : f # msg.file \/ Publishes(msg) = {} => shown'[f] = shown[f]
               /\ \A d : Publishes(msg) = {d} => shown'[msg.file] = d
<1>1. PICK msg \in Messages : msg = Head(wire) /\ WellSent(msg)
  BY TakeFromWire DEF ServerHandles
<1>2. /\ shown' = IF Publishes(msg) = {} THEN shown
                  ELSE [shown EXCEPT ![msg.file] = CHOOSE d \in Publishes(msg) : TRUE]
      /\ UNCHANGED <<disk, unsynced>>
  BY <1>1 DEF ServerHandles
<1>3. shown \in [Files -> SUBSET Contents] /\ msg.file \in Files
  BY DEF LspTypes, Messages
<1>4. Publishes(msg) # {} => (CHOOSE d \in Publishes(msg) : TRUE) \in Publishes(msg)
  OBVIOUS
<1>5. Publishes(msg) # {} => (CHOOSE d \in Publishes(msg) : TRUE) \in SUBSET Contents
  BY <1>1, <1>4, WhatIsPublished
<1>6. shown' \in [Files -> SUBSET Contents]
  BY <1>2, <1>3, <1>5
<1>7. \A f \in Files : f # msg.file \/ Publishes(msg) = {} => shown'[f] = shown[f]
  BY <1>2, <1>3
<1>8. ASSUME NEW d, Publishes(msg) = {d} PROVE shown'[msg.file] = d
  <2>1. (CHOOSE x \in Publishes(msg) : TRUE) = d /\ Publishes(msg) # {}
    BY <1>4, <1>8
  <2> QED
    BY <1>2, <1>3, <2>1
<1> QED
  BY <1>1, <1>2, <1>6, <1>7, <1>8

LEMMA LspTypesKept == ASSUME LspTypes, [LspNext]_<<disk, lspVars>> PROVE LspTypes'
<1>1. ASSUME NEW f \in Files, EditorSaves(f) \/ EditorOpens(f) \/ EditorAsks(f) \/ EditorSendsElse(f) PROVE LspTypes'
  BY <1>1, EditorSends, SendAppends
<1>2. ASSUME NEW f \in Files, OtherWrites(f) PROVE LspTypes'
  BY <1>2 DEF OtherWrites, LspTypes, WellSent
<1>3. ASSUME ServerHandles PROVE LspTypes'
  <2>1. wire # <<>> /\ wire' = Tail(wire) /\ UNCHANGED disk
    BY <1>3 DEF ServerHandles
  <2>2. shown' \in [Files -> SUBSET Contents]
    BY <1>3, HandlingIsTyped
  <2> QED
    BY <2>1, <2>2, TakeFromWire DEF LspTypes, WellSent
<1>4. ASSUME ServerSkips \/ WriteToEditorFails PROVE LspTypes'
  <2>1. wire # <<>> /\ wire' = Tail(wire) /\ UNCHANGED <<disk, shown>>
    BY <1>4 DEF ServerSkips, WriteToEditorFails
  <2> QED
    BY <2>1, TakeFromWire DEF LspTypes, WellSent
<1>5. ASSUME UNCHANGED <<disk, lspVars>> PROVE LspTypes'
  BY <1>5 DEF lspVars, LspTypes, WellSent
<1> QED
  BY <1>1, <1>2, <1>3, <1>4, <1>5 DEF LspNext

\* A message is answered once, under its id, when it has one.
LEMMA AnswersToAMessage ==
    ASSUME NEW msg \in Messages, WellSent(msg)
    PROVE  /\ msg.id = NoId => Answers(msg) = <<>>
           /\ msg.id # NoId => \E r \in Replies : r.id = msg.id /\ Answers(msg) = <<r>>
<1>1. msg.id = NoId => Answers(msg) = <<>>
  BY DEF WellSent, Answers
<1>2. ASSUME msg.id # NoId PROVE \E r \in Replies : r.id = msg.id /\ Answers(msg) = <<r>>
  <2>1. Answers(msg) = <<[id |-> msg.id, result |-> Answer(msg)]>>
    BY <1>2 DEF WellSent, Requests, Answers
  <2>2. Answer(msg) \in {"capabilities", "metrics", "null"} /\ msg.id \in Ids
    BY <1>2 DEF Answer, Messages
  <2>3. [id |-> msg.id, result |-> Answer(msg)] \in Replies
    BY <2>2 DEF Replies
  <2> WITNESS [id |-> msg.id, result |-> Answer(msg)] \in Replies
  <2> QED
    BY <2>1
<1> QED
  BY <1>1, <1>2

LEMMA AnsweredOnceKept ==
    ASSUME LspTypes, AskedOnce, AnsweredOnce, [LspNext]_<<disk, lspVars>> PROVE (AskedOnce /\ AnsweredOnce)'
<1>0. NoId \notin Ids
  BY LspAssumption
<1>1. ASSUME NEW f \in Files, EditorSaves(f) \/ EditorOpens(f) \/ EditorAsks(f) \/ EditorSendsElse(f)
      PROVE  (AskedOnce /\ AnsweredOnce)'
  <2>1. PICK msg \in Messages : Sends(msg)
    BY <1>1, EditorSends
  <2>2. /\ msg.id # NoId => msg.id \notin asked /\ \A i \in DOMAIN wire : wire[i].id # msg.id
        /\ UNCHANGED <<asked, replies, lspUp>>
    BY <2>1 DEF Sends
  <2>3. /\ Len(wire') = Len(wire) + 1 /\ wire'[Len(wire) + 1] = msg /\ DOMAIN wire' = 1..Len(wire')
        /\ DOMAIN wire = 1..Len(wire)
        /\ \A i \in 1..Len(wire) : wire'[i] = wire[i]
        /\ \A i \in 1..Len(wire') : i \in 1..Len(wire) \/ i = Len(wire) + 1
    BY <2>1, SendAppends DEF LspTypes
  <2>4. \A i, j \in DOMAIN wire' : wire'[i].id = wire'[j].id /\ wire'[i].id # NoId => i = j
    BY <2>2, <2>3 DEF AskedOnce
  <2>5. \A i \in DOMAIN wire' : wire'[i].id \notin asked
    BY <1>0, <2>2, <2>3 DEF AskedOnce
  <2> QED
    BY <2>2, <2>4, <2>5 DEF AskedOnce, AnsweredOnce
<1>2. ASSUME NEW f \in Files, OtherWrites(f) PROVE (AskedOnce /\ AnsweredOnce)'
  BY <1>2 DEF OtherWrites, AskedOnce, AnsweredOnce
<1>3. ASSUME wire # <<>>, wire' = Tail(wire)
      PROVE  /\ \A i \in 1..Len(wire') : wire'[i].id = wire[1].id => wire[1].id = NoId
             /\ \A i, j \in DOMAIN wire' : wire'[i].id = wire'[j].id /\ wire'[i].id # NoId => i = j
             /\ \A i \in DOMAIN wire' : wire'[i].id \notin asked
  <2>1. /\ DOMAIN wire' = 1..Len(wire') /\ DOMAIN wire = 1..Len(wire) /\ Len(wire) \in Nat /\ 1 \in DOMAIN wire
        /\ \A i \in 1..Len(wire') : i + 1 \in 1..Len(wire) /\ wire'[i] = wire[i + 1]
    BY <1>3, TakeFromWire DEF LspTypes
  <2> QED
    BY <2>1 DEF AskedOnce
<1>4. ASSUME ServerHandles PROVE (AskedOnce /\ AnsweredOnce)'
  <2>1. PICK msg \in Messages : msg = Head(wire) /\ msg = wire[1] /\ WellSent(msg) /\ 1 \in DOMAIN wire
    BY <1>4, TakeFromWire DEF ServerHandles, LspTypes
  <2>2. /\ wire # <<>> /\ wire' = Tail(wire) /\ asked' = asked \cup ({msg.id} \ {NoId})
        /\ replies' = replies \o Answers(msg) /\ lspUp /\ lspUp' = lspUp
    BY <1>4, <2>1 DEF ServerHandles
  <2>3. replies \in Seq(Replies) /\ msg.id \in Ids \cup {NoId} /\ msg.id \notin asked
    BY <2>1 DEF AskedOnce, Messages
  <2>4. CASE msg.id = NoId
    <3>1. asked' = asked /\ replies' = replies
      BY <2>1, <2>2, <2>3, <2>4, AnswersToAMessage
    <3>2. /\ asked' \subseteq Ids /\ replies' \in Seq(Replies)
          /\ \A id \in asked' : \E i \in DOMAIN replies' : replies'[i].id = id
          /\ \A i \in DOMAIN replies' : replies'[i].id \in asked'
          /\ \A i, j \in DOMAIN replies' : replies'[i].id = replies'[j].id => i = j
      BY <2>2, <3>1 DEF AskedOnce, AnsweredOnce
    <3>3. \A i \in DOMAIN wire' : wire'[i].id \notin asked'
      BY <1>3, <2>2, <3>1
    <3> QED
      <4>1. AskedOnce'
        BY <1>3, <2>2, <3>2, <3>3 DEF AskedOnce
      <4>2. AnsweredOnce'
        BY <3>2 DEF AnsweredOnce
      <4> QED
        BY <4>1, <4>2
  <2>5. CASE msg.id # NoId
    <3>1. PICK r \in Replies : r.id = msg.id /\ Answers(msg) = <<r>>
      BY <2>1, <2>5, AnswersToAMessage
    <3>2. /\ replies' \in Seq(Replies) /\ Len(replies') = Len(replies) + 1
          /\ DOMAIN replies = 1..Len(replies) /\ DOMAIN replies' = 1..(Len(replies) + 1)
          /\ \A i \in 1..Len(replies) : replies'[i] = replies[i]
          /\ replies'[Len(replies) + 1] = r
      BY <2>2, <2>3, <3>1
    <3>3. asked' = asked \cup {msg.id} /\ asked' \subseteq Ids
      BY <2>2, <2>3, <2>5 DEF AskedOnce
    <3>4. \A i \in 1..Len(replies) : replies[i].id # msg.id
      BY <2>3, <3>2 DEF AskedOnce
    <3>5. \A i, j \in DOMAIN replies' : replies'[i].id = replies'[j].id => i = j
      BY <2>3, <3>1, <3>2, <3>4 DEF AskedOnce
    <3>6. \A id \in asked' : \E i \in DOMAIN replies' : replies'[i].id = id
      <4>1. \A id \in asked : \E i \in 1..Len(replies) : replies[i].id = id
        BY <2>2, <3>2 DEF AnsweredOnce
      <4>2. Len(replies) + 1 \in DOMAIN replies' /\ \A i \in 1..Len(replies) : i \in DOMAIN replies'
        BY <2>3, <3>2
      <4> QED
        BY <3>1, <3>2, <3>3, <4>1, <4>2
    <3>8. \A i \in DOMAIN replies' : replies'[i].id \in asked'
      BY <2>3, <3>1, <3>2, <3>3 DEF AskedOnce
    <3>7. \A i \in DOMAIN wire' : wire'[i].id \notin asked'
      BY <1>3, <2>1, <2>2, <2>5, <3>3, TakeFromWire
    <3> QED
      <4>1. AskedOnce'
        BY <1>3, <2>2, <3>2, <3>3, <3>5, <3>7, <3>8 DEF AskedOnce
      <4>2. AnsweredOnce'
        BY <3>6 DEF AnsweredOnce
      <4> QED
        BY <4>1, <4>2
  <2> QED
    BY <2>4, <2>5
<1>5. ASSUME ServerSkips PROVE (AskedOnce /\ AnsweredOnce)'
  BY <1>3, <1>5 DEF ServerSkips, AskedOnce, AnsweredOnce
\* The request whose answer is lost is the first to have none.
<1>7. ASSUME WriteToEditorFails PROVE (AskedOnce /\ AnsweredOnce)'
  <2>1. PICK msg \in Messages : msg = Head(wire) /\ msg = wire[1] /\ WellSent(msg) /\ 1 \in DOMAIN wire
    BY <1>7, TakeFromWire DEF WriteToEditorFails, LspTypes
  <2>2. /\ wire # <<>> /\ wire' = Tail(wire) /\ asked' = asked \cup ({msg.id} \ {NoId})
        /\ replies' = replies /\ lspUp /\ lspUp' = FALSE
    BY <1>7, <2>1 DEF WriteToEditorFails
  <2>3. asked' \subseteq Ids /\ \A i \in DOMAIN replies' : replies'[i].id \in asked'
    BY <2>1, <2>2 DEF AskedOnce, Messages
  <2>4. \A id \in asked : \E i \in DOMAIN replies : replies[i].id = id
    BY <2>2 DEF AnsweredOnce
  <2>5. \A id, other \in asked' : \/ id = other
                                 \/ \E i \in DOMAIN replies' : replies'[i].id = id \/ replies'[i].id = other
    BY <2>2, <2>4
  <2>6. \A i \in DOMAIN wire' : wire'[i].id \notin asked'
    <3>1. \A i \in DOMAIN wire' : i \in 1..Len(wire')
      BY <1>7, TakeFromWire DEF WriteToEditorFails, LspTypes
    <3> QED
      BY <1>3, <2>1, <2>2, <3>1
  <2> QED
    <3>1. AskedOnce'
      BY <1>3, <2>2, <2>3, <2>6 DEF AskedOnce
    <3>2. AnsweredOnce'
      BY <2>2, <2>5 DEF AnsweredOnce
    <3> QED
      BY <3>1, <3>2
<1>6. ASSUME UNCHANGED <<disk, lspVars>> PROVE (AskedOnce /\ AnsweredOnce)'
  BY <1>6 DEF lspVars, AskedOnce, AnsweredOnce
<1> QED
  BY <1>1, <1>2, <1>4, <1>5, <1>6, <1>7 DEF LspNext

LEMMA LspRunsAlone == [Next]_vars => [LspNext]_<<disk, lspVars>>
BY DEF Next, vars, LanguageServer, Watcher, WatchNext, Emit, Receive, Analyse, Mcp, Hook, Cache, Audit, LspNext, lspVars

LEMMA LspRuns == Spec => []LspAnswersOnce
<1>1. Init => LspTypes /\ AskedOnce /\ AnsweredOnce
  BY DEF Init, LspInit, LspTypes, AskedOnce, AnsweredOnce
<1>2. LspTypes /\ AskedOnce /\ AnsweredOnce /\ [Next]_vars => (LspTypes /\ AskedOnce /\ AnsweredOnce)'
  BY LspRunsAlone, LspTypesKept, AnsweredOnceKept
<1>3. AskedOnce /\ AnsweredOnce => LspAnswersOnce
  <2> SUFFICES ASSUME AskedOnce, AnsweredOnce PROVE LspAnswersOnce
    OBVIOUS
  <2>1. ASSUME NEW id \in asked
        PROVE  Cardinality(RepliesTo(id)) \in {0, 1} /\ (lspUp => Cardinality(RepliesTo(id)) = 1)
    <3>1. CASE \E i \in DOMAIN replies : replies[i].id = id
      <4>1. PICK k \in DOMAIN replies : replies[k].id = id
        BY <3>1
      <4>2. RepliesTo(id) = {k}
        BY <4>1 DEF AskedOnce, RepliesTo
      <4> QED
        BY <4>2, FS_Singleton
    <3>2. CASE ~ \E i \in DOMAIN replies : replies[i].id = id
      <4>1. RepliesTo(id) = {} /\ ~lspUp
        BY <3>2 DEF AnsweredOnce, RepliesTo
      <4> QED
        BY <4>1, FS_EmptySet
    <3> QED
      BY <3>1, <3>2
  <2>2. \A id, other \in asked : RepliesTo(id) = {} /\ RepliesTo(other) = {} => id = other
    BY DEF AnsweredOnce, RepliesTo
  <2> QED
    BY <2>1, <2>2 DEF LspAnswersOnce
<1> QED
  BY <1>1, <1>2, <1>3, PTL DEF Spec

\* RequestsAreAnsweredOnce: while it runs, either server answers every request it reads
\* exactly once and under its id, in whatever order they come and whatever files they are
\* about; what ends its loop costs one answer, the last.
THEOREM EveryRequestHasOneAnswer == Spec => []RequestsAreAnsweredOnce
BY LspRuns, McpRuns, PTL DEF RequestsAreAnsweredOnce

-----------------------------------------------------------------------------
(* What the editor and the watcher show *)

LEMMA ShownKept ==
    ASSUME LspTypes, lspUp => \A f \in Files \ unsynced : UpToDate(f), [LspNext]_<<disk, lspVars>>, lspUp'
    PROVE  (\A f \in Files \ unsynced : UpToDate(f))'
<1>0. wire \in Seq(Messages) /\ Len(wire) \in Nat
  BY DEF LspTypes
<1>8. ~ WriteToEditorFails /\ \A f \in Files \ unsynced : UpToDate(f)
  <2>1. ~ WriteToEditorFails
    BY DEF WriteToEditorFails
  <2>2. lspUp
    BY <2>1 DEF LspNext, EditorSaves, EditorOpens, EditorAsks, EditorSendsElse, OtherWrites, ServerHandles,
                ServerSkips, lspVars
  <2> QED
    BY <2>1, <2>2
<1>1. ASSUME NEW f \in Files, EditorSaves(f) \/ EditorOpens(f) \/ EditorAsks(f) \/ EditorSendsElse(f),
             NEW g \in Files \ unsynced'
      PROVE  UpToDate(g)'
  <2>1. PICK msg \in Messages : Sends(msg)
    BY <1>1, EditorSends
  <2>2. /\ Len(wire') = Len(wire) + 1 /\ wire'[Len(wire) + 1] = msg
        /\ \A i \in 1..Len(wire) : wire'[i] = wire[i]
    BY <2>1, SendAppends
  <2>3. CASE g \notin unsynced /\ disk'[g] = disk[g] /\ (Opens(msg, g) => msg.text = disk[g])
    <3>1. PICK k \in 0..Len(wire) :
              /\ IF k = 0 THEN shown[g] = FoundAlone(disk[g]) ELSE Saves(wire[k], g)
              /\ \A j \in (k + 1)..Len(wire) : Opens(wire[j], g) => wire[j].text = disk[g]
      BY <1>8, <2>3 DEF UpToDate
    <3>2. disk'[g] # Missing /\ shown' = shown
      BY <1>8, <2>1, <2>3 DEF UpToDate, Sends
    <3>3. k \in 0..Len(wire')
      BY <1>0, <2>2
    <3>4. IF k = 0 THEN shown'[g] = FoundAlone(disk'[g]) ELSE Saves(wire'[k], g)
      BY <1>0, <2>2, <2>3, <3>1, <3>2
    <3>5. ASSUME NEW j \in (k + 1)..Len(wire'), Opens(wire'[j], g) PROVE wire'[j].text = disk'[g]
      <4>1. CASE j = Len(wire) + 1
        BY <2>2, <2>3, <3>5, <4>1
      <4>2. CASE j \in (k + 1)..Len(wire)
        <5>1. wire'[j] = wire[j]
          BY <1>0, <2>2, <4>2
        <5> QED
          BY <2>3, <3>1, <3>5, <4>2, <5>1
      <4> QED
        BY <1>0, <2>2, <4>1, <4>2
    <3> QED
      BY <3>2, <3>3, <3>4, <3>5 DEF UpToDate, Saves, Opens
  <2>4. CASE Saves(msg, g) /\ disk'[g] # Missing
    <3>1. /\ Len(wire') \in 0..Len(wire') /\ Len(wire') # 0 /\ wire'[Len(wire')] = msg
          /\ (Len(wire') + 1)..Len(wire') = {}
      BY <1>0, <2>2
    <3> QED
      BY <2>4, <3>1 DEF UpToDate, Saves, Opens
  <2> QED
    BY <2>1, <2>3, <2>4 DEF Sends
<1>2. ASSUME NEW f \in Files, OtherWrites(f), NEW g \in Files \ unsynced' PROVE UpToDate(g)'
  <2>1. g # f /\ g \notin unsynced /\ UNCHANGED <<wire, shown>> /\ disk'[g] = disk[g]
    BY <1>2 DEF OtherWrites, LspTypes
  <2> QED
    BY <1>8, <2>1 DEF UpToDate, Saves, Opens
<1>3. ASSUME wire # <<>>, wire' = Tail(wire), UNCHANGED disk, NEW g \in Files, disk[g] # Missing,
             NEW k \in 0..Len(wire), k > 1, Saves(wire[k], g),
             \A j \in (k + 1)..Len(wire) : Opens(wire[j], g) => wire[j].text = disk[g]
      PROVE  UpToDate(g)'
  <2>1. /\ Len(wire') = Len(wire) - 1
        /\ \A i \in 1..Len(wire') : wire'[i] = wire[i + 1]
    BY <1>3, TakeFromWire
  <2>2. k - 1 \in 0..Len(wire') /\ k - 1 # 0 /\ wire'[k - 1] = wire[k]
    BY <1>0, <1>3, <2>1
  <2>3. ASSUME NEW j \in k..Len(wire'), Opens(wire'[j], g) PROVE wire'[j].text = disk'[g]
    <3>1. j + 1 \in (k + 1)..Len(wire) /\ wire'[j] = wire[j + 1]
      BY <1>0, <1>3, <2>1
    <3> QED
      BY <1>3, <2>3, <3>1
  <2>4. (k - 1) + 1 = k
    OBVIOUS
  <2>5. \A j \in ((k - 1) + 1)..Len(wire') : Opens(wire'[j], g) => wire'[j].text = disk'[g]
    BY <2>3, <2>4
  <2>6. Saves(wire'[k - 1], g) /\ disk'[g] # Missing
    BY <1>3, <2>2
  <2> QED
    BY <2>2, <2>5, <2>6, Zenon DEF UpToDate, Saves, Opens
\* Once the findings are shown, what is opened and on the wire shows the same.
<1>4. ASSUME wire # <<>>, wire' = Tail(wire), UNCHANGED disk, NEW g \in Files, disk[g] # Missing,
             \A j \in 2..Len(wire) : Opens(wire[j], g) => wire[j].text = disk[g],
             shown'[g] = FoundAlone(disk[g])
      PROVE  UpToDate(g)'
  <2>1. /\ Len(wire') = Len(wire) - 1
        /\ \A i \in 1..Len(wire') : wire'[i] = wire[i + 1]
    BY <1>4, TakeFromWire
  <2>2. ASSUME NEW j \in 1..Len(wire'), Opens(wire'[j], g) PROVE wire'[j].text = disk'[g]
    <3>1. j + 1 \in 2..Len(wire) /\ wire'[j] = wire[j + 1]
      BY <1>0, <2>1
    <3> QED
      BY <1>4, <2>2, <3>1
  <2>3. 0 \in 0..Len(wire') /\ 0 + 1 = 1
    BY <1>0, <1>4, <2>1
  <2> QED
    BY <1>4, <2>2, <2>3 DEF UpToDate, Saves, Opens
<1>5. ASSUME ServerHandles, NEW g \in Files \ unsynced' PROVE UpToDate(g)'
  <2>1. PICK msg \in Messages :
            /\ WellSent(msg) /\ msg = Head(wire) /\ UNCHANGED <<disk, unsynced>>
            /\ shown' \in [Files -> SUBSET Contents]
            /\ \A f \in Files : f # msg.file \/ Publishes(msg) = {} => shown'[f] = shown[f]
            /\ \A d : Publishes(msg) = {d} => shown'[msg.file] = d
    BY <1>5, HandlingIsTyped
  <2>2. wire # <<>> /\ wire' = Tail(wire) /\ msg = wire[1] /\ 1 \in 1..Len(wire)
    BY <1>5, <2>1, TakeFromWire DEF ServerHandles
  <2>3. PICK k \in 0..Len(wire) :
            /\ IF k = 0 THEN shown[g] = FoundAlone(disk[g]) ELSE Saves(wire[k], g)
            /\ \A j \in (k + 1)..Len(wire) : Opens(wire[j], g) => wire[j].text = disk[g]
    BY <1>8, <2>1 DEF UpToDate
  <2>4. disk[g] # Missing
    BY <1>8, <2>1 DEF UpToDate
  <2>5. CASE k > 1
    BY <1>3, <2>1, <2>2, <2>3, <2>4, <2>5
  <2>6. CASE k = 1
    <3>1. Publishes(msg) = {FoundAlone(disk[g])} /\ msg.file = g
      BY <2>1, <2>2, <2>3, <2>4, <2>6, WhatIsPublished DEF Saves
    <3>2. shown'[g] = FoundAlone(disk[g])
      BY <2>1, <3>1
    <3>3. k + 1 = 2
      BY <2>6
    <3> QED
      BY <1>4, <2>1, <2>2, <2>3, <2>4, <3>2, <3>3
  <2>7. CASE k = 0
    <3>1. shown[g] = FoundAlone(disk[g]) /\ (Opens(msg, g) => msg.text = disk[g])
      BY <2>2, <2>3, <2>7
    <3>2. shown'[g] = FoundAlone(disk[g])
      <4>1. CASE msg.file # g \/ msg.method \notin {"didSave", "didOpen"}
        BY <2>1, <3>1, <4>1, WhatIsPublished
      <4>2. CASE msg.file = g /\ msg.method = "didSave"
        BY <2>1, <2>4, <4>2, WhatIsPublished
      <4>3. CASE msg.file = g /\ msg.method = "didOpen"
        <5>1. Publishes(msg) = {FoundAlone(disk[g])} \ {{}}
          BY <2>1, <3>1, <4>3, WhatIsPublished DEF Opens
        <5>2. Publishes(msg) = {} \/ Publishes(msg) = {FoundAlone(disk[g])}
          BY <5>1
        <5> QED
          BY <2>1, <3>1, <4>3, <5>2
      <4> QED
        BY <4>1, <4>2, <4>3
    <3>3. \A j \in 2..Len(wire) : Opens(wire[j], g) => wire[j].text = disk[g]
      BY <1>0, <2>3, <2>7
    <3> QED
      BY <1>4, <2>1, <2>2, <2>4, <3>2, <3>3
  <2> QED
    BY <1>0, <2>5, <2>6, <2>7
<1>6. ASSUME ServerSkips, NEW g \in Files \ unsynced' PROVE UpToDate(g)'
  <2>1. /\ wire # <<>> /\ wire' = Tail(wire) /\ UNCHANGED <<disk, unsynced, shown>>
        /\ wire[1].method \in {"garbage", "headerless"}
    BY <1>6, TakeFromWire DEF ServerSkips
  <2>2. PICK k \in 0..Len(wire) :
            /\ IF k = 0 THEN shown[g] = FoundAlone(disk[g]) ELSE Saves(wire[k], g)
            /\ \A j \in (k + 1)..Len(wire) : Opens(wire[j], g) => wire[j].text = disk[g]
    BY <1>8, <2>1 DEF UpToDate
  <2>3. disk[g] # Missing /\ k # 1
    BY <1>8, <2>1, <2>2 DEF UpToDate, Saves
  <2>4. CASE k > 1
    BY <1>3, <2>1, <2>2, <2>3, <2>4
  <2>5. CASE k = 0
    <3>1. \A j \in 2..Len(wire) : Opens(wire[j], g) => wire[j].text = disk[g]
      BY <1>0, <2>2, <2>5
    <3>2. shown'[g] = FoundAlone(disk[g])
      BY <2>1, <2>2, <2>5
    <3> QED
      BY <1>4, <2>1, <2>3, <3>1, <3>2
  <2> QED
    BY <1>0, <2>3, <2>4, <2>5
<1>7. ASSUME UNCHANGED <<disk, lspVars>>, NEW g \in Files \ unsynced' PROVE UpToDate(g)'
  BY <1>7, <1>8 DEF lspVars, UpToDate, Saves, Opens
<1> QED
  BY <1>1, <1>2, <1>5, <1>6, <1>7, <1>8 DEF LspNext

\* SavedMeansShown: however saves, openings and other writers mix, a file whose last
\* change was a save is shown with the findings of what is on disk.
THEOREM WhatWasSavedIsShown == Spec => []SavedMeansShown
<1>1. Init => LspTypes /\ (lspUp => \A f \in Files \ unsynced : UpToDate(f))
  BY DEF Init, LspInit, LspTypes
<1>2. LspTypes /\ (lspUp => \A f \in Files \ unsynced : UpToDate(f)) /\ [Next]_vars
      => LspTypes' /\ (lspUp => \A f \in Files \ unsynced : UpToDate(f))'
  BY LspRunsAlone, LspTypesKept, ShownKept
<1>3. LspTypes /\ (lspUp => \A f \in Files \ unsynced : UpToDate(f)) => SavedMeansShown
  <2> SUFFICES ASSUME LspTypes, NEW f \in Files \ unsynced, UpToDate(f), \A i \in DOMAIN wire : wire[i].file # f
               PROVE  shown[f] = FoundAlone(disk[f])
    BY DEF SavedMeansShown
  <2>1. PICK k \in 0..Len(wire) : IF k = 0 THEN shown[f] = FoundAlone(disk[f]) ELSE Saves(wire[k], f)
    BY DEF UpToDate
  <2>2. k # 0 => k \in DOMAIN wire
    BY DEF LspTypes
  <2> QED
    BY <2>1, <2>2 DEF Saves
<1> QED
  BY <1>1, <1>2, <1>3, PTL DEF Spec

\* Every change of a source file is on its way to the watch loop or has been printed.
WatchInv ==
    /\ disk \in [Files -> Contents \cup {Missing}]
    /\ gathering \subseteq Files /\ changed \subseteq Files /\ batches \in Seq(SUBSET Files)
    /\ printed \in [Files -> SUBSET Contents]
    /\ touched \subseteq Files
    /\ service # "watch" => touched = {}
    /\ \A f \in touched \cap Sources :
           \/ f \in gathering \cup changed \/ \E i \in 1..Len(batches) : f \in batches[i]
           \/ disk[f] = Missing \/ printed[f] = Findings[disk[f]][company[f]]

Pending(f) == f \in gathering \cup changed \/ \E i \in 1..Len(batches) : f \in batches[i]

LEMMA WatchKept == ASSUME WatchInv, Next PROVE WatchInv'
<1>0. /\ disk \in [Files -> Contents \cup {Missing}] /\ batches \in Seq(SUBSET Files)
      /\ printed \in [Files -> SUBSET Contents] /\ touched \subseteq Files
      /\ \A c \in Contents : \A others \in SUBSET Contents : Findings[c][others] \in SUBSET Contents
      /\ \A f \in touched \cap Sources : Pending(f) \/ disk[f] = Missing \/ printed[f] = Findings[disk[f]][company[f]]
  BY EditorFilesAssumption DEF WatchInv, Pending
<1>1. ASSUME service # "watch" PROVE WatchInv'
  <2>1. UNCHANGED watchVars /\ service' = service
    BY <1>1 DEF Next, LanguageServer, Mcp, Hook, Cache, Audit
  <2>2. disk' \in [Files -> Contents \cup {Missing}]
    <3>1. CASE service = "lsp"
      <4>1. [LspNext]_<<disk, lspVars>>
        BY <3>1 DEF Next, LanguageServer
      <4>2. CASE UNCHANGED disk
        BY <1>0, <4>2
      <4>3. ASSUME NEW f \in Files, NEW c \in Contents \cup {Missing}, disk' = [disk EXCEPT ![f] = c]
            PROVE  disk' \in [Files -> Contents \cup {Missing}]
        BY <1>0, <4>3
      <4> QED
        BY <4>1, <4>2, <4>3 DEF LspNext, lspVars, EditorSaves, EditorOpens, EditorAsks, EditorSendsElse, OtherWrites,
            ServerHandles, ServerSkips, WriteToEditorFails
    <3>2. CASE service # "lsp"
      BY <1>0, <1>1, <3>2 DEF Next, Mcp, Hook, Cache, Audit
    <3> QED
      BY <3>1, <3>2
  <2> QED
    BY <1>1, <2>1, <2>2 DEF WatchInv, watchVars
<1>2. ASSUME service = "watch", NEW f \in Files, OtherWrites(f), Touch(f) PROVE WatchInv'
  <2>1. PICK c \in Contents \cup {Missing} : disk' = [disk EXCEPT ![f] = c]
    BY <1>2 DEF OtherWrites
  <2>2. /\ gathering' = gathering \cup {f} /\ touched' = touched \cup {f}
        /\ UNCHANGED <<batches, changed, printed, company>> /\ service' = service
    BY <1>2 DEF Touch, Next
  <2>3. disk' \in [Files -> Contents \cup {Missing}] /\ \A g \in Files : g # f => disk'[g] = disk[g]
    BY <1>0, <2>1
  <2>4. ASSUME NEW g \in touched' \cap Sources
        PROVE  \/ g \in gathering' \cup changed' \/ \E i \in 1..Len(batches') : g \in batches'[i]
               \/ disk'[g] = Missing \/ printed'[g] = Findings[disk'[g]][company'[g]]
    BY <1>0, <2>2, <2>3, <2>4 DEF Pending
  <2> QED
    BY <1>2, <2>2, <2>3, <2>4 DEF WatchInv
<1>3. ASSUME service = "watch", Emit PROVE WatchInv'
  <2>1. /\ batches' = Append(batches, gathering) /\ gathering' = {} /\ UNCHANGED <<disk, changed, printed, touched, company>>
    BY <1>3 DEF Emit
  <2>2. /\ batches' \in Seq(SUBSET Files) /\ Len(batches') = Len(batches) + 1
        /\ batches'[Len(batches) + 1] = gathering /\ Len(batches) + 1 \in 1..Len(batches')
        /\ \A i \in 1..Len(batches) : i \in 1..Len(batches') /\ batches'[i] = batches[i]
    BY <2>1 DEF WatchInv
  <2>3. ASSUME NEW g \in touched' \cap Sources
        PROVE  \/ g \in gathering' \cup changed' \/ \E i \in 1..Len(batches') : g \in batches'[i]
               \/ disk'[g] = Missing \/ printed'[g] = Findings[disk'[g]][company'[g]]
    BY <1>0, <2>1, <2>2, <2>3 DEF Pending
  <2> QED
    BY <1>3, <2>1, <2>2, <2>3 DEF WatchInv, Next
<1>4. ASSUME service = "watch", Receive PROVE WatchInv'
  <2>1. /\ changed = {} /\ batches # <<>> /\ changed' = extract_changed_paths(Head(batches))
        /\ batches' = Tail(batches) /\ UNCHANGED <<disk, gathering, printed, touched, company>>
    BY <1>4 DEF Receive
  <2>2. /\ batches' \in Seq(SUBSET Files) /\ Len(batches') = Len(batches) - 1 /\ Head(batches) = batches[1]
        /\ Head(batches) \subseteq Files
        /\ \A i \in 1..Len(batches) : i = 1 \/ (i - 1 \in 1..Len(batches') /\ batches'[i - 1] = batches[i])
    BY <1>0, <2>1
  <2>3. changed' \subseteq Files /\ \A g \in Head(batches) \cap Sources : disk[g] = Missing \/ g \in changed'
    BY <2>1, <2>2 DEF extract_changed_paths, is_source_file
  <2>4. ASSUME NEW g \in touched' \cap Sources
        PROVE  \/ g \in gathering' \cup changed' \/ \E i \in 1..Len(batches') : g \in batches'[i]
               \/ disk'[g] = Missing \/ printed'[g] = Findings[disk'[g]][company'[g]]
    <3>1. CASE \E i \in 1..Len(batches) : g \in batches[i]
      BY <2>1, <2>2, <2>3, <2>4, <3>1
    <3>2. CASE ~ \E i \in 1..Len(batches) : g \in batches[i]
      BY <1>0, <2>1, <2>4, <3>2 DEF Pending
    <3> QED
      BY <3>1, <3>2
  <2> QED
    BY <1>4, <2>1, <2>2, <2>3, <2>4 DEF WatchInv, Next
<1>5. ASSUME service = "watch", Analyse PROVE WatchInv'
  <2>1. /\ changed # {} /\ changed' = {} /\ printed' = run_analysis_on_changes(changed)
        /\ UNCHANGED <<disk, gathering, batches, touched>> /\ changed \subseteq Files
    BY <1>5 DEF Analyse, WatchInv
  <2> DEFINE files == StillThere(changed)
  <2>2. files \subseteq Files /\ \A g \in changed : disk[g] # Missing => g \in files
    BY <2>1 DEF StillThere
  <2>3. \A g \in files : /\ disk[g] \in Contents /\ Beside(g, files) \in SUBSET Contents
                          /\ printed'[g] = Findings[disk[g]][Beside(g, files)]
                          /\ company'[g] = Beside(g, files)
    <3>1. \A g \in files : g \in Files /\ disk[g] \in Contents
      BY <1>0, <2>2 DEF StillThere
    <3>2. \A g \in files : Beside(g, files) \in SUBSET Contents
      BY <3>1 DEF Beside
    <3>3. \A g \in files : printed'[g] = Findings[disk[g]][Beside(g, files)]
      BY <2>1, <3>1 DEF run_analysis_on_changes
    <3>4. \A g \in files : company'[g] = Beside(g, files)
      BY <1>5, <3>1 DEF Analyse
    <3> HIDE DEF files
    <3> QED
      BY <3>1, <3>2, <3>3, <3>4
  <2>4. ASSUME NEW g \in Files PROVE printed'[g] \in SUBSET Contents
    <3>1. printed'[g] \in {{}, printed[g]} \/ g \in files
      BY <2>1 DEF run_analysis_on_changes
    <3> HIDE DEF files
    <3> QED
      BY <1>0, <2>3, <3>1
  <2>5. /\ printed' \in [Files -> SUBSET Contents]
        /\ \A g \in Files \ changed : printed'[g] = printed[g] /\ company'[g] = company[g]
    <3>1. printed' = [g \in Files |-> printed'[g]]
      BY <2>1 DEF run_analysis_on_changes
    <3>2. \A g \in Files \ changed : printed'[g] = printed[g]
      BY <2>1 DEF run_analysis_on_changes, StillThere
    <3>3. \A g \in Files \ changed : company'[g] = company[g]
      BY <1>5 DEF Analyse, StillThere
    <3> QED
      BY <2>4, <3>1, <3>2, <3>3
  <2> HIDE DEF files
  <2>6. ASSUME NEW g \in touched' \cap Sources
        PROVE  \/ g \in gathering' \cup changed' \/ \E i \in 1..Len(batches') : g \in batches'[i]
               \/ disk'[g] = Missing \/ printed'[g] = Findings[disk'[g]][company'[g]]
    BY <1>0, <2>1, <2>2, <2>3, <2>5, <2>6 DEF Pending
  <2> QED
    BY <1>5, <2>1, <2>5, <2>6 DEF WatchInv, Next
<1> QED
  BY <1>1, <1>2, <1>3, <1>4, <1>5 DEF Next, Watcher, WatchNext

\* QuietMeansReported: once no event is under way, what was printed last about a
\* changed file is what its contents give beside the files analysed with it, over
\* any number of files and batches.
THEOREM QuietIsReported == Spec => []QuietMeansReported
<1>1. Init => WatchInv
  BY DEF Init, LspInit, WatchInit, WatchInv
<1>2. WatchInv /\ [Next]_vars => WatchInv'
  <2>1. ASSUME WatchInv, UNCHANGED vars PROVE WatchInv'
    BY <2>1 DEF vars, watchVars, WatchInv
  <2> QED
    BY <2>1, WatchKept
<1>3. WatchInv => QuietMeansReported
  BY DEF WatchInv, QuietMeansReported
<1> QED
  BY <1>1, <1>2, <1>3, PTL DEF Spec

-----------------------------------------------------------------------------
(* The commit hook *)

Pieces == UserLines \cup Own

\* Where a piece stands once the script is taken out.
Place(text, i) == Cardinality(OthersBefore(text, i)) + 1

\* A set of positions has a last one.
LEMMA LastPosition ==
    ASSUME NEW n \in Nat, NEW S, S \subseteq 1..n, S # {}
    PROVE  \E c \in S : \A b \in S : b <= c
<1> DEFINE Behind == {n - b : b \in S}
<1>1. Behind \subseteq Nat /\ Behind # {}
  <2>1. \A b \in S : n - b \in Nat
    OBVIOUS
  <2>2. PICK b \in S : TRUE
    OBVIOUS
  <2>3. n - b \in Behind
    OBVIOUS
  <2> QED
    BY <2>1, <2>3
<1> DEFINE less == OpToRel(<, Nat)
<1>2. IsWellFoundedOn(less, Nat)
  BY NatLessThanWellFounded
<1>3. \A x, y \in Nat : x < y => <<x, y>> \in less
  BY DEF OpToRel
<1> HIDE DEF less
<1>4. PICK d \in Behind : \A b \in Behind : ~ (<<b, d>> \in less)
  BY <1>1, <1>2, WFMin
<1>5. \A b \in Behind : ~ (b < d)
  BY <1>1, <1>3, <1>4, Zenon
<1>6. PICK c \in S : d = n - c
  BY <1>4
<1>7. \A b \in S : ~ (n - b < n - c)
  BY <1>5, <1>6
<1>8. QED
  BY <1>7

LEMMA OthersAreFinite ==
    ASSUME NEW text \in Seq(Pieces)
    PROVE  /\ IsFiniteSet(Others(text)) /\ Cardinality(Others(text)) \in Nat
           /\ Others(text) \subseteq 1..Len(text)
<1>1. Others(text) \subseteq 1..Len(text) /\ Len(text) \in Nat
  BY DEF Others
<1>2. IsFiniteSet(1..Len(text))
  BY <1>1, FS_Interval
<1>3. IsFiniteSet(Others(text))
  BY <1>1, <1>2, FS_Subset
<1>4. QED
  BY <1>1, <1>3, FS_CardinalityType

\* Pieces keep their order when the script is taken out.
LEMMA PlacesAreInOrder ==
    ASSUME NEW text \in Seq(Pieces), NEW i \in Others(text)
    PROVE  /\ Place(text, i) \in 1..Cardinality(Others(text))
           /\ \A k \in Others(text) : i < k => Place(text, i) < Place(text, k)
<1>1. /\ IsFiniteSet(Others(text)) /\ Cardinality(Others(text)) \in Nat
      /\ Others(text) \subseteq Nat
  BY OthersAreFinite
<1>2. OthersBefore(text, i) \subseteq Others(text) /\ i \notin OthersBefore(text, i)
  BY <1>1 DEF OthersBefore
<1>3. /\ IsFiniteSet(OthersBefore(text, i)) /\ Cardinality(OthersBefore(text, i)) \in Nat
      /\ Cardinality(OthersBefore(text, i)) <= Cardinality(Others(text))
      /\ Cardinality(OthersBefore(text, i)) # Cardinality(Others(text))
  BY <1>1, <1>2, FS_Subset, FS_CardinalityType
<1>4. ASSUME NEW k \in Others(text), i < k
      PROVE  Place(text, i) < Place(text, k)
  <2>1. OthersBefore(text, i) \subseteq OthersBefore(text, k) /\ i \in OthersBefore(text, k)
    BY <1>1, <1>4 DEF OthersBefore
  <2>2. IsFiniteSet(OthersBefore(text, k)) /\ Cardinality(OthersBefore(text, k)) \in Nat
    BY <1>1, FS_Subset, FS_CardinalityType DEF OthersBefore
  <2>3. /\ Cardinality(OthersBefore(text, i)) <= Cardinality(OthersBefore(text, k))
        /\ Cardinality(OthersBefore(text, i)) # Cardinality(OthersBefore(text, k))
    BY <1>2, <2>1, <2>2, FS_Subset
  <2> QED
    BY <1>3, <2>2, <2>3 DEF Place
<1> QED
  BY <1>1, <1>3, <1>4 DEF Place

\* Every place in the rest is that of one piece.
LEMMA PlacesAreTaken ==
    ASSUME NEW text \in Seq(Pieces), NEW k \in 1..Cardinality(Others(text))
    PROVE  \E i \in Others(text) : Place(text, i) = k
<1> DEFINE n == Cardinality(Others(text))
           place == [i \in Others(text) |-> Place(text, i)]
<1>1. IsFiniteSet(Others(text)) /\ n \in Nat /\ Others(text) \subseteq Nat
  BY OthersAreFinite
<1>2. \A i \in Others(text) : place[i] \in 1..n
  BY PlacesAreInOrder
<1>3. ASSUME NEW i \in Others(text), NEW j \in Others(text), place[i] = place[j]
      PROVE  i = j
  <2>1. place[i] \in Nat /\ place[j] \in Nat /\ i \in Nat /\ j \in Nat
    BY <1>1, <1>2
  <2>2. ~ (i < j) /\ ~ (j < i)
    BY <1>3, <2>1, PlacesAreInOrder
  <2> QED
    BY <2>1, <2>2
<1>4. place \in Injection(Others(text), 1..n)
  BY <1>2, <1>3 DEF Injection, IsInjective
<1>5. IsFiniteSet(1..n) /\ Cardinality(1..n) = n
  BY <1>1, FS_Interval
<1>6. place \in Surjection(Others(text), 1..n)
  BY <1>4, <1>5, FS_Injection
<1>7. PICK i \in Others(text) : place[i] = k
  BY <1>6 DEF Surjection
<1> QED
  BY <1>7

\* What is left without the script is every other piece, at its place.
LEMMA WithoutScript ==
    ASSUME NEW text \in Seq(Pieces)
    PROVE  /\ Without_script(text) \in Seq(Pieces)
           /\ Len(Without_script(text)) = Cardinality(Others(text))
           /\ \A i \in Others(text) : Without_script(text)[Place(text, i)] = text[i]
<1> DEFINE n == Cardinality(Others(text))
<1>1. n \in Nat /\ Others(text) \subseteq 1..Len(text)
  BY OthersAreFinite
<1>2. ASSUME NEW i \in Others(text)
      PROVE  Without_script(text)[Place(text, i)] = text[i]
  <2>1. Place(text, i) \in 1..n /\ Cardinality(OthersBefore(text, i)) = Place(text, i) - 1
    <3>1. Place(text, i) \in 1..n
      BY PlacesAreInOrder
    <3>2. Cardinality(OthersBefore(text, i)) \in Nat
      BY OthersAreFinite, FS_Subset, FS_CardinalityType DEF OthersBefore
    <3> QED
      BY <3>1, <3>2 DEF Place
  <2>2. \A j \in Others(text) : Cardinality(OthersBefore(text, j)) = Place(text, i) - 1 => j = i
    <3> SUFFICES ASSUME NEW j \in Others(text), Cardinality(OthersBefore(text, j)) = Place(text, i) - 1, j # i
                 PROVE  FALSE
      OBVIOUS
    <3>1. Place(text, j) = Place(text, i) /\ Place(text, i) \in Nat /\ i \in Nat /\ j \in Nat
      BY <1>1, <2>1 DEF Place
    <3>2. ~ (i < j) /\ ~ (j < i)
      BY <3>1, PlacesAreInOrder
    <3> QED
      BY <3>1, <3>2
  <2>3. (CHOOSE j \in Others(text) : Cardinality(OthersBefore(text, j)) = Place(text, i) - 1) = i
    BY <2>1, <2>2
  <2> QED
    BY <2>1, <2>3 DEF Without_script
<1>3. ASSUME NEW k \in 1..n PROVE Without_script(text)[k] \in Pieces
  <2>1. PICK i \in Others(text) : Place(text, i) = k
    BY PlacesAreTaken
  <2>2. Without_script(text)[k] = text[i]
    BY <1>2, <2>1
  <2> QED
    BY <1>1, <2>2
<1>4. DOMAIN Without_script(text) = 1..n
  BY DEF Without_script
<1>5. Without_script(text) = [k \in 1..n |-> Without_script(text)[k]]
  BY <1>4 DEF Without_script
<1>6. Without_script(text) \in [1..n -> Pieces]
  BY <1>3, <1>5
<1> QED
  BY <1>1, <1>2, <1>4, <1>6

\* The script is gone, and the user's lines are as they were.
LEMMA ScriptIsTakenOut ==
    ASSUME NEW text \in Seq(Pieces)
    PROVE  /\ SameLines(text, Without_script(text))
           /\ \A k \in DOMAIN Without_script(text) : Without_script(text)[k] # "script"
<1> DEFINE rest == Without_script(text)
           place == [i \in Lines(text) |-> Place(text, i)]
<1>1. /\ rest \in Seq(Pieces) /\ DOMAIN rest = 1..Cardinality(Others(text))
      /\ \A i \in Others(text) : rest[Place(text, i)] = text[i]
  BY WithoutScript
<1>2. Lines(text) \subseteq Others(text)
  BY DEF Lines, Others, Own
<1>3. \A i \in Others(text) : Place(text, i) \in DOMAIN rest
  BY <1>1, PlacesAreInOrder
<1> HIDE DEF rest
<1>4. place \in [Lines(text) -> Lines(rest)]
  BY <1>1, <1>2, <1>3 DEF Lines
<1>5. \A k \in DOMAIN rest : \E i \in Others(text) : Place(text, i) = k
  BY <1>1, PlacesAreTaken
<1>6. \A k \in Lines(rest) : \E i \in Lines(text) : place[i] = k
  BY <1>1, <1>2, <1>5 DEF Lines, Others
<1>7. \A i \in Lines(text) : rest[place[i]] = text[i]
  BY <1>1, <1>2
<1>8. \A i, j \in Lines(text) : i < j => place[i] < place[j]
  BY <1>2, PlacesAreInOrder
<1>9. \A k \in DOMAIN rest : rest[k] # "script"
  BY <1>1, <1>5 DEF Others
<1> QED
  BY <1>4, <1>6, <1>7, <1>8, <1>9 DEF SameLines, rest

\* Texts with the same lines at the same positions have the same lines.
LEMMA SameAtTheirPositions ==
    ASSUME NEW old, NEW new, Lines(old) = Lines(new), \A i \in Lines(old) : new[i] = old[i]
    PROVE  SameLines(old, new)
<1> DEFINE place == [i \in Lines(old) |-> i]
<1>1. /\ place \in [Lines(old) -> Lines(new)]
      /\ \A k \in Lines(new) : \E i \in Lines(old) : place[i] = k
      /\ \A i \in Lines(old) : new[place[i]] = old[i]
      /\ \A i, j \in Lines(old) : i < j => place[i] < place[j]
  OBVIOUS
<1> QED
  BY <1>1 DEF SameLines

\* Having the same lines passes on.
LEMMA SameLinesPassOn ==
    ASSUME NEW old, NEW new, NEW newest, SameLines(old, new), SameLines(new, newest)
    PROVE  SameLines(old, newest)
<1>1. PICK first \in [Lines(old) -> Lines(new)] :
          /\ \A k \in Lines(new) : \E i \in Lines(old) : first[i] = k
          /\ \A i \in Lines(old) : new[first[i]] = old[i]
          /\ \A i, j \in Lines(old) : i < j => first[i] < first[j]
  BY DEF SameLines
<1>2. PICK second \in [Lines(new) -> Lines(newest)] :
          /\ \A k \in Lines(newest) : \E i \in Lines(new) : second[i] = k
          /\ \A i \in Lines(new) : newest[second[i]] = new[i]
          /\ \A i, j \in Lines(new) : i < j => second[i] < second[j]
  BY DEF SameLines
<1> DEFINE place == [i \in Lines(old) |-> second[first[i]]]
<1>3. place \in [Lines(old) -> Lines(newest)]
  BY <1>1, <1>2
<1>4. \A k \in Lines(newest) : \E i \in Lines(old) : place[i] = k
  BY <1>1, <1>2
<1>5. \A i \in Lines(old) : newest[place[i]] = old[i]
  BY <1>1, <1>2
<1>6. \A i, j \in Lines(old) : i < j => place[i] < place[j]
  BY <1>1, <1>2
<1> QED
  BY <1>3, <1>4, <1>5, <1>6 DEF SameLines

\* Trimming the end of a text takes line ends only.
LEMMA TrimmingKeepsLines ==
    ASSUME NEW text \in Seq(Pieces)
    PROVE  /\ trim_end(text) \in Seq(Pieces) /\ Len(trim_end(text)) <= Len(text)
           /\ \A i \in DOMAIN trim_end(text) : trim_end(text)[i] = text[i]
           /\ \A i \in DOMAIN text : text[i] # "nl" => i \in DOMAIN trim_end(text)
           /\ Lines(trim_end(text)) = Lines(text)
           /\ SameLines(text, trim_end(text))
<1> DEFINE last == {i \in DOMAIN text : text[i] # "nl"}
           end == CHOOSE i \in last : \A j \in last : j <= i
           rest == trim_end(text)
<1>1. CASE last = {}
  <2>1. rest = <<>> /\ \A i \in DOMAIN text : text[i] = "nl"
    BY <1>1 DEF trim_end
  <2> HIDE DEF last, end, rest
  <2>2. Lines(text) = {} /\ Lines(rest) = {}
    <3>1. DOMAIN rest = {}
      BY <2>1
    <3> QED
      BY <2>1, <3>1, Zenon DEF Lines, Own
  <2>3. /\ rest \in Seq(Pieces) /\ Len(rest) <= Len(text)
        /\ \A i \in DOMAIN rest : rest[i] = text[i]
    BY <2>1
  <2>4. SameLines(text, rest)
    BY <2>2, SameAtTheirPositions
  <2> QED
    BY <2>1, <2>2, <2>3, <2>4 DEF rest
<1>2. CASE last # {}
  <2>0. Len(text) \in Nat /\ DOMAIN text = 1..Len(text)
    OBVIOUS
  <2>1. last \subseteq 1..Len(text)
    OBVIOUS
  <2>2. \E i \in last : \A j \in last : j <= i
    <3> HIDE DEF last
    <3> QED
      BY <1>2, <2>0, <2>1, LastPosition
  <2>3. end \in last /\ \A j \in last : j <= end
    <3> HIDE DEF last
    <3> QED
      BY <2>2
  <2>4. rest = SubSeq(text, 1, end)
    BY <1>2 DEF trim_end
  <2>5. end \in 1..Len(text) /\ \A j \in DOMAIN text : text[j] # "nl" => j <= end
    BY <2>1, <2>3
  <2> HIDE DEF end, last, rest
  <2>6. /\ rest \in Seq(Pieces) /\ Len(rest) = end /\ DOMAIN rest = 1..end
        /\ \A i \in 1..end : rest[i] = text[i]
    BY <2>4, <2>5
  <2>7. \A i \in DOMAIN text : text[i] # "nl" => i \in DOMAIN rest
    BY <2>5, <2>6
  <2>8. Lines(rest) = Lines(text)
    <3>1. \A i \in DOMAIN rest : i \in DOMAIN text /\ rest[i] = text[i]
      BY <2>0, <2>5, <2>6
    <3>2. \A i \in DOMAIN text : text[i] \notin Own => i \in DOMAIN rest
      BY <2>7 DEF Own
    <3> QED
      BY <3>1, <3>2 DEF Lines
  <2>9. \A i \in Lines(text) : rest[i] = text[i]
    BY <2>6, <2>8 DEF Lines
  <2>10. SameLines(text, rest)
    BY <2>8, <2>9, SameAtTheirPositions
  <2>11. Len(rest) <= Len(text) /\ \A i \in DOMAIN rest : rest[i] = text[i]
    BY <2>5, <2>6
  <2> QED
    BY <2>6, <2>7, <2>8, <2>10, <2>11 DEF rest
<1> QED
  BY <1>1, <1>2

\* Putting line ends and scripts after a text leaves its lines.
LEMMA AppendingKeepsLines ==
    ASSUME NEW text \in Seq(Pieces)
    PROVE  /\ Combined(text) \in Seq(Pieces) /\ SameLines(text, Combined(text))
           /\ ~HasMarker(text) => AtMostOnce(Combined(text))
<1> DEFINE new == Combined(text)
<1>1. /\ new \in Seq(Pieces) /\ Len(text) \in Nat /\ DOMAIN new = 1..(Len(text) + 2)
      /\ \A i \in 1..Len(text) : new[i] = text[i]
      /\ new[Len(text) + 1] = "nl" /\ new[Len(text) + 2] = "script"
  <2>1. "nl" \in Pieces /\ "script" \in Pieces
    BY DEF Pieces, Own
  <2>2. <<"nl", "script">> \in Seq(Pieces)
    BY <2>1
  <2> QED
    BY <2>2 DEF Combined
<1> HIDE DEF new
<1>2. Lines(text) = Lines(new)
  <2>1. \A i \in DOMAIN text : i \in DOMAIN new /\ new[i] = text[i]
    BY <1>1
  <2>2. \A i \in DOMAIN new : new[i] \notin Own => i \in DOMAIN text
    <3>1. new[Len(text) + 1] \in Own /\ new[Len(text) + 2] \in Own
      BY <1>1 DEF Own
    <3> QED
      BY <1>1, <3>1
  <2> QED
    BY <2>1, <2>2 DEF Lines
<1>3. \A i \in Lines(text) : new[i] = text[i]
  BY <1>1 DEF Lines
<1>4. SameLines(text, new)
  BY <1>2, <1>3, SameAtTheirPositions
<1>5. ASSUME ~HasMarker(text) PROVE AtMostOnce(new)
  <2>1. \A i \in 1..Len(text) : text[i] # "script"
    BY <1>5 DEF HasMarker, Contains
  <2>2. \A i \in DOMAIN new : new[i] = "script" => i = Len(text) + 2
    <3>1. "nl" # "script"
      OBVIOUS
    <3> QED
      BY <1>1, <2>1, <3>1
  <2> QED
    BY <2>2 DEF AtMostOnce
<1> QED
  BY <1>1, <1>4, <1>5 DEF new

\* Taking the script out leaves the lines, and nothing of the script.
LEMMA CleaningKeepsLines ==
    ASSUME NEW text \in Seq(Pieces)
    PROVE  /\ Cleaned(text) \in Seq(Pieces) /\ SameLines(text, Cleaned(text))
           /\ AtMostOnce(Cleaned(text))
<1> DEFINE rest == Without_script(text)
<1>1. /\ rest \in Seq(Pieces) /\ SameLines(text, rest)
      /\ \A k \in DOMAIN rest : rest[k] # "script"
  BY WithoutScript, ScriptIsTakenOut
<1> HIDE DEF rest
<1>2. /\ trim_end(rest) \in Seq(Pieces) /\ SameLines(rest, trim_end(rest))
      /\ Len(trim_end(rest)) <= Len(rest)
      /\ \A i \in DOMAIN trim_end(rest) : trim_end(rest)[i] = rest[i]
  BY <1>1, TrimmingKeepsLines
<1>3. SameLines(text, trim_end(rest))
  BY <1>1, <1>2, SameLinesPassOn
<1>4. \A i \in DOMAIN trim_end(rest) : i \in DOMAIN rest
  BY <1>1, <1>2
<1>5. AtMostOnce(trim_end(rest))
  BY <1>1, <1>2, <1>4 DEF AtMostOnce
<1> QED
  BY <1>2, <1>3, <1>5 DEF Cleaned, rest

\* A hook that is the script and line ends has no line of the user.
LEMMA PureHooksHaveNoLines ==
    ASSUME NEW text \in Seq(Pieces), trim(text) = <<"script">>
    PROVE  Lines(text) = {}
<1> DEFINE front == trim_end(text)
           back == Reverse(front)
           middle == trim_end(back)
<1>1. /\ front \in Seq(Pieces) /\ Lines(front) = Lines(text)
  BY TrimmingKeepsLines
<1> HIDE DEF front
<1>2. /\ back \in Seq(Pieces) /\ Len(back) = Len(front)
      /\ \A i \in 1..Len(front) : back[Len(front) - i + 1] = front[i]
  <2>1. \A i \in 1..Len(front) : Len(front) - i + 1 \in 1..Len(front)
    BY <1>1
  <2>2. back = [i \in 1..Len(front) |-> front[Len(front) - i + 1]]
    BY DEF Reverse
  <2>3. back \in [1..Len(front) -> Pieces]
    BY <1>1, <2>1, <2>2
  <2>4. back \in Seq(Pieces) /\ Len(back) = Len(front)
    BY <1>1, <2>3
  <2>5. \A i \in 1..Len(front) : Len(front) - (Len(front) - i + 1) + 1 = i
    BY <1>1
  <2> HIDE DEF back
  <2> QED
    BY <2>1, <2>2, <2>4, <2>5
<1> HIDE DEF back
<1>3. /\ middle \in Seq(Pieces) /\ Lines(middle) = Lines(back)
  BY <1>2, TrimmingKeepsLines
<1> HIDE DEF middle
<1>4. Reverse(middle) = <<"script">>
  BY DEF trim, middle, back, front
<1>5. Len(middle) = 1 /\ middle[1] = "script"
  <2>1. Reverse(middle) = [i \in 1..Len(middle) |-> middle[Len(middle) - i + 1]]
    BY DEF Reverse
  <2>2. DOMAIN Reverse(middle) = 1..Len(middle) /\ DOMAIN Reverse(middle) = 1..1
    BY <1>4, <2>1
  <2>3. Len(middle) = 1
    BY <1>3, <2>2
  <2>4. Reverse(middle)[1] = middle[1] /\ Reverse(middle)[1] = "script"
    BY <1>4, <2>1, <2>3
  <2> QED
    BY <2>3, <2>4
<1>6. Lines(middle) = {}
  <2>1. \A i \in DOMAIN middle : middle[i] = "script"
    BY <1>3, <1>5
  <2>2. "script" \in Own
    BY DEF Own
  <2> QED
    BY <2>1, <2>2, Zenon DEF Lines
<1>7. \A i \in Lines(front) : Len(front) - i + 1 \in Lines(back)
  BY <1>1, <1>2 DEF Lines
<1> QED
  BY <1>1, <1>3, <1>6, <1>7

HookResults == {"none", "error", "fresh", "append",
                "Installed", "AlreadyInstalled", "Uninstalled", "NotInstalled"}
HookJobs == [step : {"idle", "write", "fill", "unlinked", "chmod"},
             op : {"none", "install", "uninstall"}, read : Seq(Pieces), result : HookResults]
HookFiles == [text : Seq(Pieces), exec : BOOLEAN]

\* Who is about to write has read what the user last wrote; who installs has
\* seen no script.
ReadTheLines(work) ==
    work.step \in {"write", "fill"} =>
        /\ SameLines(users, work.read)
        /\ work.op # "uninstall" => ~HasMarker(work.read)
        /\ work.result = "fresh" => work.read = <<>>

\* A text with the user's lines, and the script at most once.
Kept(text) == SameLines(users, text) /\ AtMostOnce(text)

\* The lines are on disk, but for an emptied file that somebody is to fill.
OnDisk ==
    /\ hook = Absent => Lines(users) = {}
    /\ hook # Absent => Kept(hook.text) \/ Truncated

\* The lines of the user are on disk, and in the hands of every such process;
\* who fills a file has one.
HookInv ==
    /\ hook = Absent \/ hook \in HookFiles
    /\ job \in [Installers -> HookJobs]
    /\ users \in Seq(Pieces)
    /\ \A p \in Installers : job[p].step = "fill" => hook # Absent
    /\ ~spoiled => OnDisk /\ \A p \in Installers : ReadTheLines(job[p])

\* One process goes on.
LEMMA HookJob ==
    ASSUME HookInv, NEW p \in Installers, NEW after \in HookJobs,
           job' = [job EXCEPT ![p] = after], users' = users, spoiled => spoiled',
           hook' = Absent \/ hook' \in HookFiles, hook' = Absent => hook = Absent,
           after.step = "fill" => hook' # Absent,
           ~spoiled' => OnDisk' /\ ReadTheLines(after)
    PROVE  HookInv'
<1>1. /\ job' \in [Installers -> HookJobs]
      /\ \A q \in Installers : job'[q] = IF q = p THEN after ELSE job[q]
  BY DEF HookInv
<1>2. \A q \in Installers : job'[q].step = "fill" => hook' # Absent
  BY <1>1 DEF HookInv
<1>3. ~spoiled' => \A q \in Installers : ReadTheLines(job[q])'
  <2> SUFFICES ASSUME ~spoiled', NEW q \in Installers PROVE ReadTheLines(job[q])'
    OBVIOUS
  <2>1. ReadTheLines(after) /\ ReadTheLines(job[q])
    BY DEF HookInv
  <2> QED
    BY <1>1, <2>1 DEF ReadTheLines
<1> QED
  BY <1>1, <1>2, <1>3 DEF HookInv

\* The file keeps its text, and who goes on was not the one to fill it.
LEMMA DiskStays ==
    ASSUME HookInv, ~spoiled, NEW p \in Installers, NEW after \in HookJobs,
           job' = [job EXCEPT ![p] = after], users' = users, job[p].step # "fill",
           hook' = hook \/ (hook # Absent /\ hook' # Absent /\ hook'.text = hook.text)
    PROVE  OnDisk'
<1>1. \A q \in Installers : job[q].step = "fill" => job'[q] = job[q]
  BY DEF HookInv
<1>2. Truncated => Truncated'
  BY <1>1 DEF Truncated
<1> QED
  BY <1>2 DEF HookInv, OnDisk, Kept

\* The file has the user's lines.
LEMMA DiskIsKept ==
    ASSUME hook' # Absent, users' = users, Kept(hook'.text)
    PROVE  OnDisk'
BY DEF OnDisk, Kept

LEMMA FinishedJob ==
    ASSUME NEW result \in HookResults
    PROVE  /\ [NoJob EXCEPT !.result = result] \in HookJobs
           /\ [NoJob EXCEPT !.result = result].step = "idle"
           /\ ReadTheLines([NoJob EXCEPT !.result = result])
<1>1. <<>> \in Seq(Pieces)
  OBVIOUS
<1> QED
  BY <1>1 DEF NoJob, HookJobs, ReadTheLines

\* One process is done, and the file has its text still.
LEMMA HookDone ==
    ASSUME HookInv, NEW p \in Installers, NEW result \in HookResults,
           job' = Done(p, result), users' = users, spoiled => spoiled', job[p].step # "fill",
           hook' = hook \/ (hook # Absent /\ hook' \in HookFiles /\ hook' # Absent /\ hook'.text = hook.text)
    PROVE  HookInv'
<1> DEFINE after == [NoJob EXCEPT !.result = result]
<1>1. /\ after \in HookJobs /\ after.step = "idle" /\ ReadTheLines(after)
      /\ job' = [job EXCEPT ![p] = after]
  BY FinishedJob DEF Done
<1> HIDE DEF after
<1>2. ~spoiled' => OnDisk'
  BY <1>1, DiskStays
<1>3. (hook' = Absent \/ hook' \in HookFiles) /\ (hook' = Absent => hook = Absent)
  BY DEF HookInv
<1> QED
  BY <1>1, <1>2, <1>3, HookJob

LEMMA HookRead ==
    ASSUME HookInv, NEW p \in Installers, NEW op \in {"install", "uninstall"}, Read(p, op)
    PROVE  HookInv'
<1> DEFINE fresh == [step |-> "write", op |-> op, read |-> <<>>, result |-> "fresh"]
           append == [step |-> "write", op |-> op, read |-> hook.text, result |-> "append"]
<1>1. /\ UNCHANGED <<hook, users>> /\ job[p].step = "idle"
      /\ spoiled' = (spoiled \/ (Truncated /\ GoesOn(p)))
      /\ \/ \E result \in HookResults : job' = Done(p, result)
         \/ hook = Absent /\ op = "install" /\ job' = [job EXCEPT ![p] = fresh]
         \/ /\ hook # Absent /\ (op = "install" => ~HasMarker(hook.text))
            /\ job' = [job EXCEPT ![p] = append]
  BY DEF Read, HookResults
<1>2. job \in [Installers -> HookJobs] /\ job[p].step # "fill"
  BY <1>1 DEF HookInv
<1>3. CASE \E result \in HookResults : job' = Done(p, result)
  BY <1>1, <1>2, <1>3, HookDone
<1>4. CASE hook = Absent /\ op = "install" /\ job' = [job EXCEPT ![p] = fresh]
  <2>1. fresh \in HookJobs /\ fresh.step = "write" /\ ~HasMarker(<<>>)
    <3>1. <<>> \in Seq(Pieces)
      OBVIOUS
    <3> QED
      BY <3>1 DEF HookJobs, HookResults, HasMarker, Contains
  <2>2. ASSUME ~spoiled PROVE SameLines(users, <<>>)
    <3>1. Lines(users) = {}
      BY <1>4, <2>2 DEF HookInv, OnDisk
    <3>2. Lines(<<>>) = {}
      BY DEF Lines
    <3> QED
      BY <3>1, <3>2, SameAtTheirPositions
  <2>3. ~spoiled' => ReadTheLines(fresh)
    BY <1>1, <2>1, <2>2 DEF ReadTheLines
  <2> HIDE DEF fresh
  <2>4. ~spoiled' => OnDisk'
    BY <1>1, <1>2, <1>4, <2>1, DiskStays
  <2> QED
    BY <1>1, <1>4, <2>1, <2>3, <2>4, HookJob DEF HookInv
<1>5. CASE /\ hook # Absent /\ (op = "install" => ~HasMarker(hook.text))
           /\ job' = [job EXCEPT ![p] = append]
  <2>1. append \in HookJobs /\ append.step = "write"
    BY <1>5 DEF HookInv, HookJobs, HookResults, HookFiles
  <2>2. job'[p].step = "write"
    BY <1>2, <1>5
  <2>3. ~spoiled' => Kept(hook.text)
    BY <1>1, <1>5, <2>2 DEF GoesOn, HookInv, OnDisk
  <2>4. ~spoiled' => ReadTheLines(append)
    BY <1>5, <2>3 DEF ReadTheLines, Kept
  <2> HIDE DEF append
  <2>5. ~spoiled' => OnDisk'
    BY <1>1, <1>2, <1>5, <2>1, DiskStays
  <2> QED
    BY <1>1, <1>5, <2>1, <2>4, <2>5, HookJob DEF HookInv
<1> QED
  BY <1>1, <1>3, <1>4, <1>5

LEMMA WrittenHook ==
    ASSUME HookInv, NEW text \in Seq(Pieces)
    PROVE  /\ Written(text) \in HookFiles
           /\ Written(text).text = text /\ Written(text) # Absent
<1>1. Written(text) \in HookFiles /\ Written(text).text = text
  BY DEF Written, HookInv, HookFiles
<1> QED
  BY <1>1, HooksAssumption DEF HooksAssumption, Pieces, HookFiles

\* What a process is to write has the lines of what it read.
LEMMA NewTextKeepsLines ==
    ASSUME HookInv, NEW p \in Installers
    PROVE  /\ NewText(p) \in Seq(Pieces)
           /\ job[p].step = "fill" /\ ReadTheLines(job[p]) => Kept(NewText(p))
<1> DEFINE text == NewText(p)
<1>1. job[p] \in HookJobs /\ job[p].read \in Seq(Pieces)
  BY DEF HookInv, HookJobs
<1>2. CASE job[p].op = "uninstall"
  <2>1. text = Cleaned(job[p].read)
    BY <1>2 DEF NewText
  <2> HIDE DEF text
  <2>2. /\ text \in Seq(Pieces) /\ SameLines(job[p].read, text) /\ AtMostOnce(text)
    BY <1>1, <2>1, CleaningKeepsLines
  <2>3. job[p].step = "fill" /\ ReadTheLines(job[p]) => SameLines(users, job[p].read)
    BY DEF ReadTheLines
  <2> QED
    BY <2>2, <2>3, SameLinesPassOn DEF Kept, text
<1>3. CASE job[p].op # "uninstall" /\ job[p].result = "fresh"
  <2>1. text = <<"script">>
    BY <1>3 DEF NewText
  <2> HIDE DEF text
  <2>2. <<"script">> \in Seq(Pieces) /\ Lines(<<"script">>) = {} /\ AtMostOnce(<<"script">>)
    <3>1. "script" \in Pieces /\ "script" \in Own
      BY DEF Pieces, Own
    <3> QED
      BY <3>1 DEF Lines, AtMostOnce
  <2>3. job[p].step = "fill" /\ ReadTheLines(job[p]) => SameLines(users, <<>>)
    BY <1>3 DEF ReadTheLines
  <2>4. Lines(<<>>) = Lines(<<"script">>)
    BY <2>2 DEF Lines
  <2>5. SameLines(<<>>, <<"script">>)
    BY <2>2, <2>4, SameAtTheirPositions
  <2> QED
    BY <2>1, <2>2, <2>3, <2>5, SameLinesPassOn DEF Kept, text
<1>4. CASE job[p].op # "uninstall" /\ job[p].result # "fresh"
  <2>1. text = Combined(job[p].read)
    BY <1>4 DEF NewText
  <2> HIDE DEF text
  <2>2. /\ text \in Seq(Pieces) /\ SameLines(job[p].read, text)
        /\ ~HasMarker(job[p].read) => AtMostOnce(text)
    BY <1>1, <2>1, AppendingKeepsLines
  <2>3. job[p].step = "fill" /\ ReadTheLines(job[p]) =>
            SameLines(users, job[p].read) /\ ~HasMarker(job[p].read)
    BY <1>4 DEF ReadTheLines
  <2> QED
    BY <2>2, <2>3, SameLinesPassOn DEF Kept, text
<1> QED
  BY <1>2, <1>3, <1>4

\* A text over one that begins alike leaves one of the two; over nothing, itself.
LEMMA OverlaidTexts ==
    ASSUME NEW new \in Seq(Pieces), NEW old \in Seq(Pieces), NEW laid \in Overlaid(new, old)
    PROVE  /\ laid \in Seq(Pieces)
           /\ IsPrefix(new, old) \/ IsPrefix(old, new) => laid \in {new, old}
           /\ old = <<>> => laid = new
<1>1. CASE IsPrefix(new, old)
  <2>1. laid = old
    BY <1>1 DEF Overlaid
  <2>2. old = <<>> => new = <<>>
    BY <1>1 DEF IsPrefix
  <2> QED
    BY <2>1, <2>2
<1>2. CASE ~IsPrefix(new, old) /\ IsPrefix(old, new)
  BY <1>2 DEF Overlaid
<1>3. CASE ~IsPrefix(new, old) /\ ~IsPrefix(old, new)
  <2>1. PICK k \in 2..(Len(old) + 1) : laid = new \o SubSeq(old, k, Len(old))
    BY <1>3 DEF Overlaid
  <2>2. SubSeq(old, k, Len(old)) \in Seq(Pieces)
    BY <2>1
  <2>3. laid \in Seq(Pieces)
    BY <2>1, <2>2
  <2>4. old # <<>>
    BY <2>1
  <2> QED
    BY <1>3, <2>3, <2>4
<1> QED
  BY <1>1, <1>2, <1>3

\* Opened and emptied, the file is there for who is to fill it.
LEMMA HookIsOpened ==
    ASSUME HookInv, NEW p \in Installers, fs_write_open(p)
    PROVE  HookInv'
<1>1. /\ job[p].step = "write" /\ job[p] \in HookJobs /\ UNCHANGED <<users, spoiled>>
      /\ job \in [Installers -> HookJobs]
  BY DEF fs_write_open, HookInv
<1>2. CASE hook' = Written(<<>>) /\ job' = [job EXCEPT ![p].step = "fill"]
  <2> DEFINE after == [job[p] EXCEPT !.step = "fill"]
  <2>1. hook' \in HookFiles /\ hook'.text = <<>> /\ hook' # Absent
    <3>1. <<>> \in Seq(Pieces)
      OBVIOUS
    <3> QED
      BY <1>2, <3>1, WrittenHook
  <2>2. after \in HookJobs /\ after.step = "fill" /\ job' = [job EXCEPT ![p] = after]
    BY <1>1, <1>2 DEF HookJobs
  <2>3. ~spoiled => ReadTheLines(after)
    <3>1. ~spoiled => ReadTheLines(job[p])
      BY DEF HookInv
    <3>2. after.read = job[p].read /\ after.op = job[p].op /\ after.result = job[p].result
      BY <1>1 DEF HookJobs
    <3> QED
      BY <1>1, <3>1, <3>2 DEF ReadTheLines
  <2> HIDE DEF after
  <2>4. job'[p].step = "fill"
    BY <1>1, <2>2
  <2>5. Truncated'
    BY <2>1, <2>4 DEF Truncated
  <2>6. OnDisk'
    BY <2>1, <2>5 DEF OnDisk
  <2> QED
    BY <1>1, <2>1, <2>2, <2>3, <2>6, HookJob
<1>3. CASE hook' = hook /\ job' = Done(p, "error")
  BY <1>1, <1>3, HookDone DEF HookResults
<1> QED
  BY <1>2, <1>3 DEF fs_write_open

\* Filled with all of its text and nothing else, the file has the lines again.
LEMMA HookIsFilled ==
    ASSUME HookInv, NEW p \in Installers, fs_write_all(p)
    PROVE  HookInv'
<1> DEFINE all == NewText(p)
<1>1. /\ job[p] \in HookJobs /\ job \in [Installers -> HookJobs] /\ users' = users
      /\ job[p].step \in {"fill", "unlinked"}
  BY DEF fs_write_all, HookInv
<1>2. all \in Seq(Pieces) /\ (job[p].step = "fill" /\ ReadTheLines(job[p]) => Kept(all))
  BY NewTextKeepsLines
<1>3. PICK n \in 0..Len(all) :
        LET text == SubSeq(all, 1, n)
            alone == IsPrefix(text, hook.text) \/ IsPrefix(hook.text, text) IN
        /\ \/ /\ job[p].step = "fill"
              /\ \E laid \in Overlaid(text, hook.text) : hook' = Written(laid)
              /\ spoiled' = (spoiled \/ n < Len(all) \/ ~alone)
           \/ job[p].step = "unlinked" /\ UNCHANGED <<hook, spoiled>>
        /\ job' = IF n < Len(all) THEN Done(p, "error")
                  ELSE IF job[p].op = "install" THEN [job EXCEPT ![p].step = "chmod"]
                  ELSE Done(p, "Uninstalled")
  BY DEF fs_write_all
<1> HIDE DEF all
<1>4. PICK after \in HookJobs :
        /\ job' = [job EXCEPT ![p] = after] /\ after.step \in {"idle", "chmod"} /\ ReadTheLines(after)
  <2> DEFINE failed == [NoJob EXCEPT !.result = "error"]
             removed == [NoJob EXCEPT !.result = "Uninstalled"]
             next == [job[p] EXCEPT !.step = "chmod"]
  <2>1. /\ failed \in HookJobs /\ failed.step = "idle" /\ ReadTheLines(failed)
        /\ removed \in HookJobs /\ removed.step = "idle" /\ ReadTheLines(removed)
    BY FinishedJob DEF HookResults
  <2>2. next \in HookJobs /\ next.step = "chmod" /\ ReadTheLines(next)
    BY <1>1 DEF HookJobs, ReadTheLines
  <2>3. \/ job' = [job EXCEPT ![p] = failed] \/ job' = [job EXCEPT ![p] = removed]
        \/ job' = [job EXCEPT ![p] = next]
    BY <1>1, <1>3 DEF Done
  <2> HIDE DEF failed, removed, next
  <2> QED
    BY <2>1, <2>2, <2>3
<1> DEFINE text == SubSeq(all, 1, n)
           alone == IsPrefix(text, hook.text) \/ IsPrefix(hook.text, text)
<1>5. CASE job[p].step = "fill"
  <2>1. PICK laid \in Overlaid(text, hook.text) : hook' = Written(laid)
    BY <1>3, <1>5
  <2>2. spoiled' = (spoiled \/ n < Len(all) \/ ~alone)
    BY <1>3, <1>5
  <2>3. text \in Seq(Pieces) /\ (n = Len(all) => text = all)
    BY <1>2, <1>3
  <2>4. hook \in HookFiles /\ hook.text \in Seq(Pieces)
    BY <1>5 DEF HookInv, HookFiles
  <2> HIDE DEF text
  <2>5. /\ laid \in Seq(Pieces) /\ (alone => laid \in {text, hook.text})
        /\ (hook.text = <<>> => laid = text)
    BY <2>3, <2>4, OverlaidTexts
  <2>6. hook' \in HookFiles /\ hook'.text = laid /\ hook' # Absent
    BY <2>1, <2>5, WrittenHook
  <2>7. ASSUME ~spoiled' PROVE OnDisk'
    <3>1. ~spoiled /\ ~(n < Len(all)) /\ alone
      BY <2>2, <2>7
    <3>2. n = Len(all)
      BY <1>2, <1>3, <3>1
    <3>3. laid = all \/ (laid = hook.text /\ hook.text # <<>>)
      BY <2>3, <2>5, <3>1, <3>2
    <3>4. Kept(all) /\ (Kept(hook.text) \/ Truncated)
      BY <1>2, <1>5, <3>1 DEF HookInv, OnDisk
    <3>5. Kept(laid)
      BY <3>3, <3>4 DEF Truncated
    <3> QED
      BY <1>1, <2>6, <3>5, DiskIsKept
  <2>8. spoiled => spoiled'
    BY <2>2
  <2> QED
    BY <1>1, <1>4, <2>6, <2>7, <2>8, HookJob
<1>6. CASE job[p].step = "unlinked"
  <2>1. UNCHANGED <<hook, spoiled>> /\ job[p].step # "fill"
    BY <1>3, <1>6
  <2>2. ~spoiled => OnDisk'
    BY <1>1, <1>4, <2>1, DiskStays
  <2>3. (hook' = Absent \/ hook' \in HookFiles) /\ (hook' = Absent => hook = Absent)
    BY <2>1 DEF HookInv
  <2> QED
    BY <1>1, <1>4, <2>1, <2>2, <2>3, HookJob
<1> QED
  BY <1>1, <1>5, <1>6

\* Who removes the file has seen that it held nothing of the user's.
LEMMA HookIsRemoved ==
    ASSUME HookInv, NEW p \in Installers, uninstall_hook_remove(p)
    PROVE  HookInv'
<1>1. /\ job[p].step = "write" /\ job[p] \in HookJobs /\ job[p].read \in Seq(Pieces)
      /\ UNCHANGED <<users, spoiled>> /\ trim(job[p].read) = <<"script">>
      /\ job \in [Installers -> HookJobs]
  BY DEF uninstall_hook_remove, HookInv, HookJobs, Pure
<1>2. CASE hook' = hook /\ job' = Done(p, "error")
  BY <1>1, <1>2, HookDone DEF HookResults
<1>3. CASE /\ hook' = Absent
           /\ job' = [q \in Installers |->
                        IF job[q].step = "fill" THEN [job[q] EXCEPT !.step = "unlinked"]
                        ELSE Done(p, "Uninstalled")[q]]
  <2> DEFINE done == [NoJob EXCEPT !.result = "Uninstalled"]
  <2>1. done \in HookJobs /\ done.step = "idle" /\ ReadTheLines(done)
    BY FinishedJob DEF HookResults
  <2>2. \A q \in Installers : Done(p, "Uninstalled")[q] = IF q = p THEN done ELSE job[q]
    BY <1>1 DEF Done
  <2> HIDE DEF done
  <2>3. ASSUME NEW q \in Installers
        PROVE  /\ job'[q] \in HookJobs /\ job'[q].step # "fill"
               /\ ~spoiled => ReadTheLines(job'[q])
    <3>1. CASE job[q].step = "fill"
      <4>1. job'[q] = [job[q] EXCEPT !.step = "unlinked"] /\ job[q] \in HookJobs
        BY <1>1, <1>3, <3>1
      <4> QED
        BY <4>1 DEF HookJobs, ReadTheLines
    <3>2. CASE job[q].step # "fill" /\ q = p
      BY <1>3, <2>1, <2>2, <3>2
    <3>3. CASE job[q].step # "fill" /\ q # p
      <4>1. job'[q] = job[q]
        BY <1>3, <2>2, <3>3
      <4> QED
        BY <1>1, <3>3, <4>1 DEF HookInv
    <3> QED
      BY <3>1, <3>2, <3>3
  <2>4. job' \in [Installers -> HookJobs]
    BY <1>3, <2>3
  <2>5. ~spoiled => Lines(users) = {}
    <3>1. Lines(job[p].read) = {}
      BY <1>1, PureHooksHaveNoLines
    <3>2. ~spoiled => SameLines(users, job[p].read)
      BY <1>1 DEF HookInv, ReadTheLines
    <3> QED
      BY <3>1, <3>2 DEF SameLines
  <2>6. ~spoiled' => OnDisk'
    BY <1>1, <1>3, <2>5 DEF OnDisk
  <2>7. ~spoiled' => \A q \in Installers : ReadTheLines(job[q])'
    BY <1>1, <2>3 DEF ReadTheLines
  <2> QED
    BY <1>1, <1>3, <2>3, <2>4, <2>6, <2>7 DEF HookInv
<1> QED
  BY <1>2, <1>3 DEF uninstall_hook_remove

LEMMA HookIsMadeExecutable ==
    ASSUME HookInv, NEW p \in Installers, install_hook_chmod(p)
    PROVE  HookInv'
<1>1. UNCHANGED <<users, spoiled>> /\ job[p].step # "fill"
  BY DEF install_hook_chmod
<1>2. PICK result \in HookResults : job' = Done(p, result)
  BY DEF install_hook_chmod, HookResults
<1>3. CASE hook # Absent /\ hook' = [hook EXCEPT !.exec = TRUE]
  <2>1. hook' \in HookFiles /\ hook'.text = hook.text /\ hook' # Absent
    BY <1>3, HooksAssumption DEF HookInv, HooksAssumption, Pieces, HookFiles
  <2> QED
    BY <1>1, <1>2, <1>3, <2>1, HookDone DEF HookResults
<1>4. CASE hook' = hook
  BY <1>1, <1>2, <1>4, HookDone
<1> QED
  BY <1>3, <1>4 DEF install_hook_chmod

\* The user starts over, when no process is about to write.
LEMMA HookIsWritten ==
    ASSUME HookInv, UserWrites \/ OtherVersion
    PROVE  HookInv'
<1>1. /\ \A p \in Installers : job[p].step = "idle"
      /\ job' = job /\ spoiled' = FALSE
  BY DEF UserWrites, OtherVersion
<1>2. \A p \in Installers : ReadTheLines(job[p])' /\ job'[p].step # "fill"
  BY <1>1 DEF ReadTheLines
<1>3. CASE UserWrites
  <2>1. PICK text \in UserHooks, exec \in BOOLEAN : hook' = [text |-> text, exec |-> exec] /\ users' = text
    BY <1>3 DEF UserWrites
  <2>2. text \in Seq(UserLines \cup {"nl"}) /\ "script" \notin UserLines /\ text \in Seq(Pieces)
    <3>1. text \in Seq(UserLines \cup {"nl"}) /\ "script" \notin UserLines
      BY HooksAssumption DEF HooksAssumption, Own
    <3>2. UserLines \cup {"nl"} \subseteq Pieces
      BY DEF Pieces, Own
    <3> HIDE DEF Pieces
    <3>3. text \in Seq(Pieces)
      BY <3>1, <3>2
    <3> QED
      BY <3>1, <3>3
  <2>3. SameLines(text, text)
    BY SameAtTheirPositions
  <2>4. \A i \in DOMAIN text : text[i] # "script"
    <3>1. "script" \notin UserLines \cup {"nl"} /\ \A i \in DOMAIN text : text[i] \in UserLines \cup {"nl"}
      BY <2>2
    <3> QED
      BY <3>1
  <2>5. hook' \in HookFiles /\ hook'.text = text /\ hook' # Absent
    BY <2>1, <2>2, HooksAssumption DEF HooksAssumption, Pieces, HookFiles
  <2>6. OnDisk'
    BY <2>1, <2>3, <2>4, <2>5 DEF OnDisk, Kept, AtMostOnce
  <2> QED
    BY <1>1, <1>2, <2>1, <2>2, <2>5, <2>6 DEF HookInv
<1>4. CASE OtherVersion
  <2>1. hook' = [text |-> <<"old script">>, exec |-> TRUE] /\ users' = <<>>
    BY <1>4 DEF OtherVersion
  <2>2. /\ <<"old script">> \in Seq(Pieces) /\ <<>> \in Seq(Pieces)
        /\ Lines(<<"old script">>) = {} /\ Lines(<<>>) = {} /\ AtMostOnce(<<"old script">>)
    <3>1. "old script" \in Own /\ "old script" # "script" /\ <<>> \in Seq(Pieces) /\ Lines(<<>>) = {}
      BY DEF Own, Lines
    <3>2. ASSUME NEW piece \in Own, piece # "script"
          PROVE  <<piece>> \in Seq(Pieces) /\ Lines(<<piece>>) = {} /\ AtMostOnce(<<piece>>)
      <4>1. piece \in Pieces
        BY DEF Pieces
      <4>2. <<piece>> \in Seq(Pieces)
        BY <4>1
      <4>3. Len(<<piece>>) = 1 /\ <<piece>>[1] = piece
        OBVIOUS
      <4>4. \A i \in DOMAIN <<piece>> : <<piece>>[i] = piece
        BY <4>2, <4>3
      <4> QED
        BY <3>2, <4>2, <4>4 DEF Lines, AtMostOnce
    <3> QED
      BY <3>1, <3>2
  <2>3. SameLines(<<>>, <<"old script">>)
    BY <2>2, SameAtTheirPositions
  <2>4. hook' \in HookFiles /\ hook'.text = <<"old script">> /\ hook' # Absent
    <3>1. hook' \in HookFiles /\ hook'.text = <<"old script">>
      BY <2>1, <2>2 DEF HookFiles
    <3> QED
      BY <3>1, HooksAssumption DEF HooksAssumption, Pieces, HookFiles
  <2>5. OnDisk'
    BY <2>1, <2>2, <2>3, <2>4 DEF OnDisk, Kept
  <2> QED
    BY <1>1, <1>2, <2>1, <2>2, <2>4, <2>5 DEF HookInv
<1> QED
  BY <1>3, <1>4

LEMMA HookKept == ASSUME HookInv, Next PROVE HookInv'
<1>1. CASE UNCHANGED hookVars
  BY <1>1 DEF HookInv, hookVars, OnDisk, Kept, Truncated, ReadTheLines
<1>2. CASE HookNext
  BY <1>2, HookIsWritten, HookRead, HookIsOpened, HookIsFilled, HookIsMadeExecutable, HookIsRemoved
     DEF HookNext
<1> QED
  BY <1>1, <1>2 DEF Next, LanguageServer, Watcher, Mcp, Hook, Cache, Audit

\* UserLinesSurvive: when no command has the file open, the user's lines have
\* outlived them, in their order, and the script is there once, for any hooks,
\* processes and failures but a file filled half way or with two texts at once,
\* and a command that read what another had emptied.
THEOREM UserLinesAlwaysSurvive == Spec => []UserLinesSurvive
<1>1. Init => HookInv
  <2> SUFFICES ASSUME Init PROVE HookInv
    OBVIOUS
  <2>1. /\ hook = Absent /\ job = [p \in Installers |-> NoJob] /\ users = <<>> /\ ~spoiled
    BY DEF Init, HookInit
  <2>2. <<>> \in Seq(Pieces) /\ Lines(<<>>) = {}
    BY DEF Lines
  <2>3. NoJob \in HookJobs /\ NoJob.step = "idle" /\ ReadTheLines(NoJob)
    BY <2>2 DEF NoJob, HookJobs, HookResults, ReadTheLines
  <2>4. OnDisk
    BY <2>1, <2>2 DEF OnDisk
  <2> QED
    BY <2>1, <2>2, <2>3, <2>4 DEF HookInv
<1>2. HookInv /\ [Next]_vars => HookInv'
  <2>1. ASSUME HookInv, UNCHANGED vars PROVE HookInv'
    BY <2>1 DEF vars, hookVars, HookInv, OnDisk, Kept, Truncated, ReadTheLines
  <2> QED
    BY <2>1, HookKept
<1>3. HookInv => UserLinesSurvive
  BY DEF HookInv, OnDisk, Kept, Truncated, UserLinesSurvive
<1> QED
  BY <1>1, <1>2, <1>3, PTL DEF Spec

-----------------------------------------------------------------------------
(* The audit log *)

Tokens == Events \cup {Newline} \cup Parts

\* The log and what was appended are sequences, and who writes has an event.
AuditTypes ==
    /\ log \in Seq(Tokens)
    /\ pc \in [Procs -> {"idle", "line", "newline"}]
    /\ event \in [Procs -> Events \cup {NoEvent}]
    /\ \A p \in Procs : pc[p] # "idle" => event[p] \in Events
    /\ runs \in 0..MaxRuns
    /\ appended \in Seq(1..MaxRuns)
    /\ contended \in BOOLEAN

LEMMA TypeInit == AuditInit => AuditTypes
<1>1. <<>> \in Seq(Tokens) /\ <<>> \in Seq(1..MaxRuns)
  BY EmptySeq
<1>2. 0 \in 0..MaxRuns
  BY AuditAssumption
<1>3. QED
  BY <1>1, <1>2 DEF AuditInit, AuditTypes

LEMMA EventIsOwed ==
    ASSUME NEW audience \in AuditAudiences, maybe_audit_log_audience(audience) # NoEvent
    PROVE  maybe_audit_log_audience(audience) \in {"TelemetryEnabled", "TelemetryDisabled"}
BY AuditAssumption DEF maybe_audit_log_audience

LEMMA TypeStep == AuditTypes /\ [AuditNext]_auditVars => AuditTypes'
<1> SUFFICES ASSUME AuditTypes, [AuditNext]_auditVars
             PROVE  AuditTypes'
  OBVIOUS
<1> USE DEF AuditTypes
<1>1. ASSUME NEW p \in Procs, NEW audience \in AuditAudiences, Invoke(p, audience)
      PROVE  AuditTypes'
  <2> DEFINE e == [run |-> runs + 1, kind |-> maybe_audit_log_audience(audience)]
  <2>1. runs + 1 \in 1..MaxRuns /\ runs' \in 0..MaxRuns
    BY <1>1, AuditAssumption DEF Invoke
  <2>2. e \in Events
    BY <1>1, <2>1, EventIsOwed DEF Invoke, Events
  <2> HIDE DEF e
  <2>3. event' = [event EXCEPT ![p] = e] /\ pc' = [pc EXCEPT ![p] = "line"]
    BY <1>1 DEF Invoke, e
  <2>4. UNCHANGED <<log, appended, contended>>
    BY <1>1 DEF Invoke
  <2>5. QED
    BY <2>1, <2>2, <2>3, <2>4
<1>2. ASSUME NEW p \in Procs, WriteLine(p)
      PROVE  AuditTypes'
  <2>1. event[p] \in Tokens
    BY <1>2 DEF WriteLine, Tokens
  <2>2. log' \in Seq(Tokens)
    BY <1>2, <2>1, AppendProperties DEF WriteLine, AppendWrite
  <2>3. pc' \in [Procs -> {"idle", "line", "newline"}]
    BY <1>2 DEF WriteLine
  <2>4. contended' \in BOOLEAN
    BY <1>2 DEF WriteLine
  <2>5. QED
    BY <1>2, <2>2, <2>3, <2>4 DEF WriteLine
<1>3. ASSUME NEW p \in Procs, WriteNewline(p)
      PROVE  AuditTypes'
  <2>1. log' \in Seq(Tokens)
    BY <1>3, AppendProperties DEF WriteNewline, AppendWrite, Tokens
  <2>2. event[p].run \in 1..MaxRuns
    BY <1>3 DEF WriteNewline, Events
  <2>3. appended' \in Seq(1..MaxRuns)
    BY <1>3, <2>2, AppendProperties DEF WriteNewline
  <2>4. QED
    BY <1>3, <2>1, <2>3 DEF WriteNewline
<1>4. ASSUME NEW p \in Procs, OpenFails(p)
      PROVE  AuditTypes'
  BY <1>4 DEF OpenFails
<1>5. ASSUME NEW p \in Procs, WriteFails(p)
      PROVE  AuditTypes'
  <2>1. log' \in Seq(Tokens)
    <3>1. log' = log \/ \E token \in Tokens : log' = Append(log, token)
      BY <1>5 DEF WriteFails, AppendWrite, Tokens
    <3> QED
      BY <3>1, AppendProperties
  <2>2. contended' \in BOOLEAN
    BY <1>5 DEF WriteFails
  <2>3. QED
    BY <1>5, <2>1, <2>2 DEF WriteFails
<1>6. ASSUME NEW p \in Procs, Crash(p)
      PROVE  AuditTypes'
  BY <1>6 DEF Crash
<1>7. CASE UNCHANGED auditVars
  BY <1>7 DEF auditVars
<1>8. QED
  BY <1>1, <1>2, <1>3, <1>4, <1>5, <1>6, <1>7 DEF AuditNext

\* No step does anything to the log but append to it.
LEMMA LogOnlyGrows ==
    ASSUME AuditTypes, [AuditNext]_auditVars
    PROVE  /\ Len(log) <= Len(log')
           /\ \A i \in DOMAIN log : i \in DOMAIN log' /\ log'[i] = log[i]
<1>1. log' = log \/ \E token \in Tokens : log' = Append(log, token)
  <2>1. ASSUME NEW p \in Procs, WriteLine(p)
        PROVE  \E token \in Tokens : log' = Append(log, token)
    BY <2>1 DEF WriteLine, AppendWrite, AuditTypes, Tokens
  <2>2. ASSUME NEW p \in Procs, WriteNewline(p)
        PROVE  \E token \in Tokens : log' = Append(log, token)
    BY <2>2 DEF WriteNewline, AppendWrite, Tokens
  <2>3. ASSUME NEW p \in Procs, WriteFails(p)
        PROVE  log' = log \/ \E token \in Tokens : log' = Append(log, token)
    BY <2>3 DEF WriteFails, AppendWrite, Tokens, Parts
  <2>4. QED
    BY <2>1, <2>2, <2>3 DEF AuditNext, auditVars, Invoke, OpenFails, Crash
<1>2. CASE log' = log
  BY <1>2 DEF AuditTypes
<1>3. CASE \E token \in Tokens : log' = Append(log, token)
  <2>1. PICK token \in Tokens : log' = Append(log, token)
    BY <1>3
  <2>2. /\ Len(log') = Len(log) + 1
        /\ \A i \in 1..Len(log) : log'[i] = log[i]
        /\ log' \in Seq(Tokens)
    BY <2>1, AppendProperties DEF AuditTypes
  <2>3. QED
    BY <2>2 DEF AuditTypes
<1>4. QED
  BY <1>1, <1>2, <1>3

\* The reader's answer, one event for each readable position.
LEMMA ReadableIsFinite ==
    ASSUME log \in Seq(Tokens)
    PROVE  /\ IsFiniteSet(ReadablePlaces) /\ Cardinality(ReadablePlaces) \in Nat
           /\ ReadablePlaces \subseteq 1..Len(log) /\ ReadablePlaces \subseteq Nat
<1>1. ReadablePlaces \subseteq 1..Len(log) /\ Len(log) \in Nat
  BY DEF ReadablePlaces
<1>2. IsFiniteSet(1..Len(log))
  BY <1>1, FS_Interval
<1>3. ReadablePlaces \subseteq Nat
  BY <1>1
<1>4. IsFiniteSet(ReadablePlaces)
  BY <1>1, <1>2, FS_Subset
<1>5. QED
  BY <1>1, <1>3, <1>4, FS_CardinalityType

\* Two readable positions are read in their order.
LEMMA ReadInOrder ==
    ASSUME log \in Seq(Tokens), NEW i \in ReadablePlaces, NEW k \in ReadablePlaces, i < k
    PROVE  /\ Cardinality(ReadBefore(i)) \in Nat
           /\ Cardinality(ReadBefore(k)) \in Nat
           /\ Cardinality(ReadBefore(i)) < Cardinality(ReadBefore(k))
           /\ Cardinality(ReadBefore(k)) < Cardinality(ReadablePlaces)
<1>1. IsFiniteSet(ReadablePlaces) /\ ReadablePlaces \subseteq Nat /\ Cardinality(ReadablePlaces) \in Nat
  BY ReadableIsFinite
<1>2. /\ ReadBefore(k) \subseteq ReadablePlaces /\ k \notin ReadBefore(k)
      /\ ReadBefore(i) \subseteq ReadBefore(k)
      /\ i \in ReadBefore(k) /\ i \notin ReadBefore(i)
  <2>1. i \in Nat /\ k \in Nat
    BY <1>1
  <2>2. \A j \in ReadablePlaces : j < i => j < k
    <3>1. \A j \in Nat : j < i => j < k
      BY <2>1
    <3>2. QED
      BY <1>1, <3>1
  <2>3. ~ (k < k) /\ ~ (i < i)
    BY <2>1
  <2>4. QED
    BY <2>2, <2>3, Zenon DEF ReadBefore
<1>3. /\ IsFiniteSet(ReadBefore(k)) /\ Cardinality(ReadBefore(k)) <= Cardinality(ReadablePlaces)
      /\ Cardinality(ReadBefore(k)) # Cardinality(ReadablePlaces)
  BY <1>1, <1>2, FS_Subset
<1>4. /\ IsFiniteSet(ReadBefore(i)) /\ Cardinality(ReadBefore(i)) <= Cardinality(ReadBefore(k))
      /\ Cardinality(ReadBefore(i)) # Cardinality(ReadBefore(k))
  BY <1>2, <1>3, FS_Subset
<1>5. Cardinality(ReadBefore(k)) \in Nat /\ Cardinality(ReadBefore(i)) \in Nat
  BY <1>3, <1>4, FS_CardinalityType
<1>6. QED
  BY <1>1, <1>3, <1>4, <1>5

\* A readable position is in the answer, at the place its predecessors leave it.
LEMMA ReadableIsRead ==
    ASSUME log \in Seq(Tokens), NEW i \in ReadablePlaces
    PROVE  /\ Cardinality(ReadBefore(i)) + 1 \in 1..Cardinality(ReadablePlaces)
           /\ PlaceOf(Cardinality(ReadBefore(i)) + 1) = i
           /\ read_log[Cardinality(ReadBefore(i)) + 1] = log[i]
<1> DEFINE place == Cardinality(ReadBefore(i)) + 1
<1>1. IsFiniteSet(ReadablePlaces) /\ ReadablePlaces \subseteq Nat /\ Cardinality(ReadablePlaces) \in Nat
  BY ReadableIsFinite
<1>2. /\ ReadBefore(i) \subseteq ReadablePlaces /\ i \notin ReadBefore(i)
  BY <1>1 DEF ReadBefore
<1>3. /\ IsFiniteSet(ReadBefore(i)) /\ Cardinality(ReadBefore(i)) <= Cardinality(ReadablePlaces)
      /\ Cardinality(ReadBefore(i)) # Cardinality(ReadablePlaces)
  BY <1>1, <1>2, FS_Subset
<1>4. Cardinality(ReadBefore(i)) \in Nat
  BY <1>3, FS_CardinalityType
<1>5. place \in 1..Cardinality(ReadablePlaces)
  BY <1>1, <1>3, <1>4
<1>6. \A k \in ReadablePlaces : Cardinality(ReadBefore(k)) = place - 1 => k = i
  <2> SUFFICES ASSUME NEW k \in ReadablePlaces, Cardinality(ReadBefore(k)) = place - 1, k # i
               PROVE  FALSE
    OBVIOUS
  <2>1. k \in Int /\ i \in Int
    BY <1>1
  <2>2. CASE k < i
    BY <1>4, <2>2, ReadInOrder
  <2>3. CASE i < k
    BY <1>4, <2>3, ReadInOrder
  <2>4. QED
    BY <2>1, <2>2, <2>3
<1>7. PlaceOf(place) = i
  BY <1>4, <1>6 DEF PlaceOf
<1>8. QED
  BY <1>5, <1>7 DEF read_log

\* Whichever service runs, the log changes by its own steps alone.
LEMMA AuditRuns == Init /\ [][Next]_vars => AuditInit /\ [][AuditNext]_auditVars
<1>1. Init => AuditInit
  BY DEF Init
<1>2. [Next]_vars => [AuditNext]_auditVars
  BY DEF Next, vars, LanguageServer, Watcher, Mcp, Hook, Cache, Audit
<1> QED
  BY <1>1, <1>2, PTL

\* Every place of the answer is that of one readable position.
LEMMA PlacesAreReadable ==
    ASSUME log \in Seq(Tokens), NEW n \in 1..Cardinality(ReadablePlaces)
    PROVE  PlaceOf(n) \in ReadablePlaces /\ Cardinality(ReadBefore(PlaceOf(n))) = n - 1
<1> DEFINE m == Cardinality(ReadablePlaces)
           rank == [i \in ReadablePlaces |-> Cardinality(ReadBefore(i)) + 1]
<1>1. IsFiniteSet(ReadablePlaces) /\ ReadablePlaces \subseteq Nat /\ m \in Nat
  BY ReadableIsFinite
<1>2. rank \in [ReadablePlaces -> 1..m]
  BY ReadableIsRead
<1>3. \A i, k \in ReadablePlaces : i # k => rank[i] # rank[k]
  <2> SUFFICES ASSUME NEW i \in ReadablePlaces, NEW k \in ReadablePlaces, i # k
               PROVE  rank[i] # rank[k]
    OBVIOUS
  <2>1. (i < k \/ k < i) /\ Cardinality(ReadBefore(i)) \in Nat /\ Cardinality(ReadBefore(k)) \in Nat
    BY <1>1, ReadInOrder
  <2> QED
    BY <2>1, ReadInOrder
<1> HIDE DEF rank
<1>4. rank \in Injection(ReadablePlaces, 1..m)
  BY <1>2, <1>3, Zenon DEF Injection, IsInjective
<1>5. IsFiniteSet(1..m) /\ Cardinality(1..m) = m
  BY <1>1, FS_Interval
<1>6. rank \in Surjection(ReadablePlaces, 1..m)
  BY <1>1, <1>4, <1>5, FS_Injection
<1>7. PICK i \in ReadablePlaces : rank[i] = n
  <2>1. \A t \in 1..m : \E i \in ReadablePlaces : rank[i] = t
    BY <1>6, Zenon DEF Surjection
  <2> QED
    BY <2>1
<1>8. Cardinality(ReadBefore(i)) = n - 1
  <2>1. ReadBefore(i) \subseteq ReadablePlaces
    BY DEF ReadBefore
  <2>2. Cardinality(ReadBefore(i)) \in Nat
    BY <1>1, <2>1, FS_Subset, FS_CardinalityType
  <2>3. Cardinality(ReadBefore(i)) + 1 = n
    BY <1>7 DEF rank
  <2> QED
    BY <1>1, <2>2, <2>3
<1> QED
  BY <1>8 DEF PlaceOf

\* What is finished stays finished and is read at its place, by every later reader.
THEOREM FinishedLinesStayReadable == Spec => FinishedLinesAreStable
<1>1. AuditInit => AuditTypes
  BY TypeInit
<1>2. AuditTypes /\ [AuditNext]_auditVars => AuditTypes'
  BY TypeStep
<1>a. AuditTypes => \A i \in ReadablePlaces :
                        /\ Cardinality(ReadBefore(i)) + 1 \in 1..Cardinality(ReadablePlaces)
                        /\ read_log[Cardinality(ReadBefore(i)) + 1] = log[i]
  BY ReadableIsRead DEF AuditTypes
<1>b. AuditTypes' => (\A i \in ReadablePlaces :
                        /\ Cardinality(ReadBefore(i)) + 1 \in 1..Cardinality(ReadablePlaces)
                        /\ read_log[Cardinality(ReadBefore(i)) + 1] = log[i])'
  BY <1>a, PTL
<1>3. AuditTypes /\ AuditTypes' /\ [AuditNext]_auditVars =>
         \A n \in DOMAIN read_log :
            PlaceOf(n) < Len(log) => n \in DOMAIN read_log' /\ read_log'[n] = read_log[n]
  <2> SUFFICES ASSUME AuditTypes, AuditTypes', [AuditNext]_auditVars,
                      NEW n \in DOMAIN read_log, PlaceOf(n) < Len(log)
               PROVE  n \in DOMAIN read_log' /\ read_log'[n] = read_log[n]
    OBVIOUS
  <2>1. /\ n \in 1..Cardinality(ReadablePlaces) /\ Cardinality(ReadablePlaces) \in Nat
        /\ read_log[n] = log[PlaceOf(n)]
    BY ReadableIsFinite DEF read_log, AuditTypes
  <2>2. PICK i \in ReadablePlaces : i = PlaceOf(n) /\ Cardinality(ReadBefore(i)) = n - 1
    BY <2>1, PlacesAreReadable DEF AuditTypes
  <2>3. /\ Len(log) \in Nat /\ Len(log') \in Nat /\ Len(log) <= Len(log')
        /\ \A k \in 1..Len(log) : k \in 1..Len(log') /\ log'[k] = log[k]
        /\ DOMAIN log = 1..Len(log) /\ DOMAIN log' = 1..Len(log')
    BY LogOnlyGrows DEF AuditTypes
  <2>4. i \in 1..Len(log) /\ i < Len(log)
    BY <2>2, <2>3 DEF ReadablePlaces
  <2>5. ASSUME NEW k \in 1..i
        PROVE  k \in ReadablePlaces <=> k \in ReadablePlaces'
    <3>1. /\ k \in 1..Len(log) /\ k \in 1..Len(log') /\ log'[k] = log[k]
          /\ k < Len(log) /\ k < Len(log') /\ k + 1 \in 1..Len(log) /\ log'[k + 1] = log[k + 1]
          /\ k # 1 => k - 1 \in 1..Len(log) /\ log'[k - 1] = log[k - 1]
      BY <2>3, <2>4
    <3>2. StartsLine(k) <=> StartsLine(k)'
      BY <3>1 DEF StartsLine
    <3>3. EndsLine(k) <=> EndsLine(k)'
      BY <3>1 DEF EndsLine
    <3>4. (\A j \in 1..Len(log) : log[j] = Broken => k < j)
            <=> (\A j \in 1..Len(log') : log'[j] = Broken => k < j)
      <4>1. \A j \in 1..Len(log') : j \in 1..Len(log) \/ k < j
        BY <2>3, <3>1
      <4> QED
        BY <2>3, <4>1
    <3>5. k \in ReadablePlaces <=>
              /\ log[k] \notin {Newline} \cup Parts /\ StartsLine(k) /\ EndsLine(k)
              /\ \A j \in 1..Len(log) : log[j] = Broken => k < j
      BY <2>3, <3>1 DEF ReadablePlaces
    <3>6. k \in ReadablePlaces' <=>
              /\ log'[k] \notin {Newline} \cup Parts /\ StartsLine(k)' /\ EndsLine(k)'
              /\ \A j \in 1..Len(log') : log'[j] = Broken => k < j
      BY <2>3, <3>1 DEF ReadablePlaces
    <3> QED
      BY <3>1, <3>2, <3>3, <3>4, <3>5, <3>6
  <2>6. i \in ReadablePlaces'
    BY <2>2, <2>4, <2>5
  <2>7. ReadBefore(i)' = ReadBefore(i)
    <3>2. \A j : j < i /\ (j \in ReadablePlaces \/ j \in ReadablePlaces') => j \in 1..i
      <4>1. ReadablePlaces \subseteq 1..Len(log) /\ ReadablePlaces' \subseteq 1..Len(log')
        BY <2>3 DEF ReadablePlaces
      <4>2. \A j \in 1..Len(log) \cup 1..Len(log') : j < i => j \in 1..i
        BY <2>3, <2>4
      <4> QED
        BY <4>1, <4>2
    <3> QED
      BY <2>5, <3>2 DEF ReadBefore
  <2>8. /\ Cardinality(ReadBefore(i)) + 1 = n
        /\ n \in 1..Cardinality(ReadablePlaces') /\ read_log'[n] = log'[i]
    BY <1>b, <2>1, <2>2, <2>6, <2>7
  <2>9. DOMAIN read_log' = 1..Cardinality(ReadablePlaces') /\ log'[i] = log[i]
    BY <2>3, <2>4 DEF read_log
  <2> QED
    BY <2>1, <2>2, <2>8, <2>9
<1>4. QED
  BY <1>1, <1>2, <1>3, AuditRuns, PTL DEF Spec, FinishedLinesAreStable

\* While no append found an unfinished line, the log is the appended events, each
\* with its newline, then perhaps one event or fragment without; the process that
\* has still to write the newline is the one whose event is last.
Alternates ==
    LET m == Len(appended)
    IN  /\ Len(log) \in {2 * m, 2 * m + 1}
        /\ \A n \in 1..m : /\ log[2 * n] = Newline
                           /\ log[2 * n - 1] \in Events
                           /\ appended[n] = log[2 * n - 1].run
        /\ Len(log) = 2 * m + 1 => log[2 * m + 1] \in Events \cup Parts
        /\ \A p \in Procs : pc[p] = "newline" => /\ Len(log) = 2 * m + 1
                                                 /\ log[2 * m + 1] = event[p]
        /\ \A p, q \in Procs : pc[p] = "newline" /\ pc[q] = "newline" => p = q

LogInv == AuditTypes /\ (~ contended => Alternates)

LEMMA LogInit == AuditInit => LogInv
<1>1. ASSUME AuditInit
      PROVE  Alternates
  BY <1>1 DEF AuditInit, Alternates
<1>2. QED
  BY <1>1, TypeInit DEF LogInv

\* The line that is written next begins a pair.
LEMMA UncontendedWriteStartsALine ==
    ASSUME LogInv, ~ contended', NEW token \in Events \cup Parts,
           log' = Append(log, token), UNCHANGED appended,
           contended' = (contended \/ (log # <<>> /\ Last(log) # Newline))
    PROVE  /\ Alternates /\ Len(log) = 2 * Len(appended)
           /\ Len(log') = 2 * Len(appended') + 1
           /\ log'[2 * Len(appended') + 1] = token
           /\ \A n \in 1..Len(appended') : /\ log'[2 * n] = Newline
                                           /\ log'[2 * n - 1] \in Events
                                           /\ appended'[n] = log'[2 * n - 1].run
           /\ \A q \in Procs : pc[q] # "newline"
<1> DEFINE m == Len(appended)
<1>1. /\ Alternates /\ m \in Nat /\ log \in Seq(Tokens) /\ Len(log) \in Nat
  BY DEF LogInv, AuditTypes
<1>2. log = <<>> \/ log[Len(log)] = Newline
  BY <1>1 DEF Last
<1>3. Newline \notin Events \cup Parts
  BY AuditAssumption
<1>4. Len(log) = 2 * m
  <2>1. CASE log = <<>>
    BY <1>1, <2>1 DEF Alternates
  <2>2. CASE log[Len(log)] = Newline
    BY <1>1, <1>3, <2>2 DEF Alternates
  <2>3. QED
    BY <1>2, <2>1, <2>2
<1>5. token \in Tokens
  BY DEF Tokens
<1>6. /\ Len(log') = 2 * m + 1
      /\ log'[2 * m + 1] = token
      /\ \A i \in 1..(2 * m) : log'[i] = log[i]
  BY <1>1, <1>4, <1>5, AppendProperties
<1>7. \A n \in 1..m : 2 * n \in 1..(2 * m) /\ 2 * n - 1 \in 1..(2 * m)
  BY <1>1
<1>8. \A n \in 1..m : /\ log'[2 * n] = Newline
                      /\ log'[2 * n - 1] \in Events
                      /\ appended[n] = log'[2 * n - 1].run
  BY <1>1, <1>6, <1>7 DEF Alternates
<1>9. \A q \in Procs : pc[q] # "newline"
  BY <1>1, <1>4 DEF Alternates
<1>10. QED
  BY <1>1, <1>4, <1>6, <1>8, <1>9

LEMMA LogStep == LogInv /\ [AuditNext]_auditVars => LogInv'
<1> SUFFICES ASSUME LogInv, [AuditNext]_auditVars, ~ contended'
             PROVE  Alternates'
  BY TypeStep DEF LogInv
<1> USE DEF LogInv
<1>1. ASSUME NEW p \in Procs, NEW audience \in AuditAudiences, Invoke(p, audience)
      PROVE  Alternates'
  BY <1>1 DEF Invoke, Alternates, AuditTypes
<1>2. ASSUME NEW p \in Procs, WriteLine(p)
      PROVE  Alternates'
  <2>1. event[p] \in Events /\ UNCHANGED <<event, appended>>
    BY <1>2 DEF WriteLine, AuditTypes
  <2>2. /\ Len(log') = 2 * Len(appended') + 1
        /\ log'[2 * Len(appended') + 1] = event[p]
        /\ \A n \in 1..Len(appended') : /\ log'[2 * n] = Newline
                                        /\ log'[2 * n - 1] \in Events
                                        /\ appended'[n] = log'[2 * n - 1].run
        /\ \A q \in Procs : pc[q] # "newline"
    BY <1>2, <2>1, UncontendedWriteStartsALine DEF WriteLine, AppendWrite
  <2>3. \A q \in Procs : pc'[q] = "newline" => q = p
    BY <1>2, <2>2 DEF WriteLine, AuditTypes
  <2>4. QED
    BY <2>1, <2>2, <2>3 DEF Alternates
<1>3. ASSUME NEW p \in Procs, WriteNewline(p)
      PROVE  Alternates'
  <2> DEFINE m == Len(appended)
  <2>1. /\ Alternates /\ m \in Nat /\ pc[p] = "newline"
    BY <1>3 DEF WriteNewline, AuditTypes
  <2>2. Len(log) = 2 * m + 1 /\ log[2 * m + 1] = event[p] /\ event[p] \in Events
    BY <2>1 DEF Alternates, AuditTypes
  <2>3. event[p].run \in 1..MaxRuns
    BY <2>2 DEF Events
  <2>4. /\ Len(appended') = m + 1
        /\ appended'[m + 1] = event[p].run
        /\ \A n \in 1..m : appended'[n] = appended[n]
    BY <1>3, <2>3, AppendProperties DEF WriteNewline, AuditTypes
  <2>5. Newline \in Tokens
    BY DEF Tokens
  <2>6. /\ Len(log') = 2 * m + 2
        /\ log'[2 * m + 2] = Newline
        /\ \A i \in 1..(2 * m + 1) : log'[i] = log[i]
    <3>1. log \in Seq(Tokens) /\ log' = Append(log, Newline)
      BY <1>3 DEF WriteNewline, AppendWrite, AuditTypes
    <3>2. /\ Len(log') = Len(log) + 1
          /\ log'[Len(log) + 1] = Newline
          /\ \A i \in 1..Len(log) : log'[i] = log[i]
      BY <2>5, <3>1, AppendProperties
    <3>3. QED
      BY <2>1, <2>2, <3>2
  <2>7. ASSUME NEW n \in 1..(m + 1)
        PROVE  /\ log'[2 * n] = Newline
               /\ log'[2 * n - 1] \in Events
               /\ appended'[n] = log'[2 * n - 1].run
    <3>1. CASE n = m + 1
      <4>1. 2 * n = 2 * m + 2 /\ 2 * n - 1 = 2 * m + 1 /\ 2 * m + 1 \in 1..(2 * m + 1)
        BY <2>1, <3>1
      <4>2. QED
        BY <2>2, <2>4, <2>6, <3>1, <4>1
    <3>2. CASE n \in 1..m
      <4>1. 2 * n \in 1..(2 * m + 1) /\ 2 * n - 1 \in 1..(2 * m + 1)
        BY <2>1, <3>2
      <4>2. QED
        BY <2>1, <2>4, <2>6, <3>2, <4>1 DEF Alternates
    <3>3. QED
      BY <2>1, <3>1, <3>2
  <2>8. \A q \in Procs : pc'[q] # "newline"
    BY <1>3, <2>1 DEF WriteNewline, Alternates, AuditTypes
  <2>9. Len(log') = 2 * Len(appended') /\ Len(log') # 2 * Len(appended') + 1
    BY <2>1, <2>4, <2>6
  <2>10. QED
    BY <2>4, <2>7, <2>8, <2>9 DEF Alternates
<1>4. ASSUME NEW p \in Procs, OpenFails(p)
      PROVE  Alternates'
  BY <1>4 DEF OpenFails, Alternates, AuditTypes
<1>5. ASSUME NEW p \in Procs, WriteFails(p)
      PROVE  Alternates'
  <2>1. CASE UNCHANGED <<log, contended>>
    BY <1>5, <2>1 DEF WriteFails, Alternates, AuditTypes
  <2>2. CASE /\ \E part \in Parts : AppendWrite(part)
             /\ contended' = (contended \/ (log # <<>> /\ Last(log) # Newline))
    <3>0. PICK part \in Parts : AppendWrite(part)
      BY <2>2
    <3>1. /\ Len(log') = 2 * Len(appended') + 1
          /\ log'[2 * Len(appended') + 1] = part
          /\ \A n \in 1..Len(appended') : /\ log'[2 * n] = Newline
                                          /\ log'[2 * n - 1] \in Events
                                          /\ appended'[n] = log'[2 * n - 1].run
          /\ \A q \in Procs : pc[q] # "newline"
      BY <1>5, <2>2, <3>0, UncontendedWriteStartsALine DEF WriteFails, AppendWrite
    <3>2. \A q \in Procs : pc'[q] # "newline"
      BY <1>5, <3>1 DEF WriteFails, AuditTypes
    <3>3. QED
      BY <3>1, <3>2 DEF Alternates
  <2>3. QED
    BY <1>5, <2>1, <2>2 DEF WriteFails
<1>6. ASSUME NEW p \in Procs, Crash(p)
      PROVE  Alternates'
  BY <1>6 DEF Crash, Alternates, AuditTypes
<1>7. CASE UNCHANGED auditVars
  BY <1>7 DEF auditVars, Alternates
<1>8. QED
  BY <1>1, <1>2, <1>3, <1>4, <1>5, <1>6, <1>7 DEF AuditNext

\* There are n odd numbers below 2n + 1.
LEMMA OddPositions ==
    ASSUME NEW n \in Nat
    PROVE  /\ IsFiniteSet({2 * k - 1 : k \in 1..n})
           /\ Cardinality({2 * k - 1 : k \in 1..n}) = n
<1> DEFINE odd == {2 * k - 1 : k \in 1..n}
           f == [k \in 1..n |-> 2 * k - 1]
<1>1. f \in Bijection(1..n, odd)
  <2>1. f \in Surjection(1..n, odd)
    BY DEF Surjection
  <2>2. f \in Injection(1..n, odd)
    BY DEF Injection, IsInjective
  <2>3. QED
    BY <2>1, <2>2 DEF Bijection
<1>2. ExistsBijection(1..n, odd)
  BY <1>1 DEF ExistsBijection
<1>3. QED
  BY <1>2, FS_CountingElements, FS_NatBijection

\* In an alternating log the n-th appended event is the n-th that is read.
LEMMA AppendedIsRead ==
    ASSUME AuditTypes, Alternates, NEW n \in 1..Len(appended)
    PROVE  /\ Len(appended) <= Len(read_log)
           /\ read_log[n] = log[2 * n - 1]
<1> DEFINE m == Len(appended)
           odd(k) == {2 * i - 1 : i \in 1..k}
<1>1. m \in Nat /\ n \in Nat /\ n - 1 \in Nat /\ log \in Seq(Tokens) /\ Len(log) \in Nat
  BY DEF AuditTypes
<1>2. ASSUME NEW k \in 1..m
      PROVE  2 * k - 1 \in ReadablePlaces
  <2>1. /\ 2 * k - 1 \in DOMAIN log /\ 2 * k - 1 # Len(log)
        /\ log[2 * k] = Newline /\ log[2 * k - 1] \in Events
    BY <1>1 DEF Alternates
  <2>2. log[2 * k - 1] \notin {Newline} \cup Parts
    BY <2>1, AuditAssumption
  <2>0. \A j \in DOMAIN log : log[j] = Broken => 2 * k - 1 < j
    <3> SUFFICES ASSUME NEW j \in DOMAIN log, log[j] = Broken, ~(2 * k - 1 < j) PROVE FALSE
      OBVIOUS
    <3>1. j \in 1..(2 * k - 1) /\ k \in 1..m
      BY <1>1, <2>1
    <3>2. PICK a \in 1..m : j = 2 * a \/ j = 2 * a - 1
      <4> DEFINE a == (j + 1) \div 2
      <4>1. j \in Nat /\ 1 <= j /\ j <= 2 * k - 1 /\ k \in Nat /\ k <= m
        BY <1>1, <3>1
      <4>2. a \in Nat /\ 1 <= a /\ a <= k /\ (j = 2 * a \/ j = 2 * a - 1)
        BY <4>1
      <4>3. a \in 1..m
        BY <1>1, <4>1, <4>2
      <4> QED
        BY <4>2, <4>3
    <3>3. log[j] = Newline \/ log[j] \in Events
      BY <3>2 DEF Alternates
    <3> QED
      BY <3>3, AuditAssumption DEF Parts
  <2>3. StartsLine(2 * k - 1)
    <3>1. CASE k = 1
      BY <3>1 DEF StartsLine
    <3>2. CASE k # 1
      <4>1. k - 1 \in 1..m /\ 2 * (k - 1) = (2 * k - 1) - 1
        BY <1>1, <3>2
      <4>2. log[2 * (k - 1)] = Newline
        BY <4>1 DEF Alternates
      <4>3. QED
        BY <4>1, <4>2 DEF StartsLine
    <3>3. QED
      BY <3>1, <3>2
  <2>4. EndsLine(2 * k - 1)
    <3>1. (2 * k - 1) + 1 = 2 * k
      OBVIOUS
    <3>2. QED
      BY <2>1, <3>1 DEF EndsLine
  <2>5. QED
    BY <2>0, <2>1, <2>2, <2>3, <2>4 DEF ReadablePlaces
<1>3. ASSUME NEW j \in ReadablePlaces, j < 2 * n - 1
      PROVE  j \in odd(n - 1)
  <2>1. j \in 1..Len(log) /\ log[j] # Newline
    BY DEF ReadablePlaces, AuditTypes
  <2>2. PICK i \in 1..n : j = 2 * i \/ j = 2 * i - 1
    <3> DEFINE i == (j + 1) \div 2
    <3>1. j \in 1..(2 * n - 2)
      BY <1>1, <1>3, <2>1
    <3>2. i \in 1..n /\ (j = 2 * i \/ j = 2 * i - 1)
      BY <1>1, <3>1
    <3>3. QED
      BY <3>2
  <2>3. i \in 1..m
    BY <1>1
  <2>4. j = 2 * i - 1
    BY <2>1, <2>2, <2>3 DEF Alternates
  <2>5. i \in 1..(n - 1)
    BY <1>1, <1>3, <2>4
  <2>6. QED
    BY <2>4, <2>5
<1>4. ReadBefore(2 * n - 1) = odd(n - 1)
  <2>1. ASSUME NEW i \in 1..(n - 1)
        PROVE  2 * i - 1 \in ReadablePlaces /\ 2 * i - 1 < 2 * n - 1
    BY <1>1, <1>2
  <2>2. QED
    BY <1>3, <2>1 DEF ReadBefore
<1>5. Cardinality(ReadBefore(2 * n - 1)) = n - 1
  BY <1>1, <1>4, OddPositions
<1>6. read_log[n] = log[2 * n - 1]
  <2>1. 2 * n - 1 \in ReadablePlaces
    BY <1>2
  <2>2. read_log[Cardinality(ReadBefore(2 * n - 1)) + 1] = log[2 * n - 1]
    BY <1>1, <2>1, ReadableIsRead
  <2>3. QED
    BY <1>1, <1>5, <2>2
<1>7. m <= Cardinality(ReadablePlaces)
  <2>1. odd(m) \subseteq ReadablePlaces
    BY <1>2
  <2>2. Cardinality(odd(m)) = m
    BY <1>1, OddPositions
  <2>3. IsFiniteSet(ReadablePlaces)
    BY <1>1, ReadableIsFinite
  <2>4. QED
    BY <2>1, <2>2, <2>3, FS_Subset
<1>8. Len(read_log) = Cardinality(ReadablePlaces)
  BY <1>1, ReadableIsFinite DEF read_log
<1>9. QED
  BY <1>6, <1>7, <1>8

\* As long as no append found an unfinished line, whatever failed and whoever
\* crashed, the reader's answer begins with the appended events, in order.
THEOREM UncontendedEventsAreAlwaysRead == Spec => []UncontendedEventsAreRead
<1>1. LogInv => UncontendedEventsAreRead
  <2> SUFFICES ASSUME AuditTypes, Alternates
               PROVE  IsPrefix(appended, RunsOf(read_log))
    BY DEF LogInv, UncontendedEventsAreRead
  <2> DEFINE m == Len(appended)
             read == RunsOf(read_log)
  <2>1. /\ m \in Nat /\ appended \in Seq(1..MaxRuns) /\ log \in Seq(Tokens)
        /\ Cardinality(ReadablePlaces) \in Nat
    BY ReadableIsFinite DEF AuditTypes
  <2>2. DOMAIN read_log = 1..Cardinality(ReadablePlaces)
    BY DEF read_log
  <2>3. DOMAIN read = 1..Cardinality(ReadablePlaces) /\ Len(read) = Cardinality(ReadablePlaces)
    BY <2>1, <2>2 DEF RunsOf
  <2>4. Len(read_log) = Cardinality(ReadablePlaces)
    BY <2>1, <2>2 DEF read_log
  <2>5. m <= Cardinality(ReadablePlaces)
    <3>1. CASE m = 0
      BY <2>1, <3>1
    <3>2. CASE m # 0
      <4>1. 1 \in 1..m
        BY <2>1, <3>2
      <4>2. QED
        BY <2>4, <4>1, AppendedIsRead
    <3>3. QED
      BY <3>1, <3>2
  <2>6. ASSUME NEW n \in 1..m
        PROVE  read[n] = appended[n]
    <3>1. read_log[n] = log[2 * n - 1]
      BY AppendedIsRead
    <3>2. n \in DOMAIN read_log
      BY <2>1, <2>2, <2>5
    <3>3. appended[n] = log[2 * n - 1].run
      BY DEF Alternates
    <3>4. QED
      BY <3>1, <3>2, <3>3 DEF RunsOf
  <2> HIDE DEF read
  <2>7. SubSeq(appended, 1, m) = SubSeq(read, 1, m)
    <3>1. SubSeq(appended, 1, m) = [n \in 1..m |-> appended[n]]
      BY <2>1
    <3>2. SubSeq(read, 1, m) = [n \in 1..m |-> read[n]]
      BY <2>1
    <3>3. QED
      BY <2>6, <3>1, <3>2
  <2>8. QED
    BY <2>3, <2>5, <2>7 DEF IsPrefix, read
<1>2. QED
  BY <1>1, LogInit, LogStep, AuditRuns, PTL DEF Spec
=============================================================================
