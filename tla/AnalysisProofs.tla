---------------------------- MODULE AnalysisProofs ----------------------------
(* Proofs that the answers of six analyses are right, for every input. *)
EXTENDS AnalysisInputs, FixEngineProofs

(***************************************************************************)
(* Loops.  The definitions they are modelled by are functions that depend  *)
(* on their value before.                                                  *)
(***************************************************************************)

\* The states of a loop of n rounds, of which the i-th takes next[i].
IsLoop(walk, start, n, next) ==
    walk = [i \in 0..n |-> IF i = 0 THEN start ELSE next[i][walk[i - 1]]]

\* A loop of n rounds over states in V has a state after every round.
LEMMA LoopExists ==
    ASSUME NEW V, NEW start \in V, NEW n \in Nat, NEW next \in [1..n -> [V -> V]]
    PROVE  \E walk \in [0..n -> V] : IsLoop(walk, start, n, next)
<1> DEFINE Upto(m) == \E walk \in [0..n -> V] :
                          \A i \in 0..n : i <= m =>
                              walk[i] = IF i = 0 THEN start ELSE next[i][walk[i - 1]]
           reached == {m \in Nat : Upto(m)}
<1>1. 0 \in reached
  <2> DEFINE walk == [i \in 0..n |-> start]
  <2>1. walk \in [0..n -> V] /\ \A i \in 0..n : i <= 0 => walk[i] = start /\ i = 0
    OBVIOUS
  <2> HIDE DEF walk
  <2>2. \A i \in 0..n : i <= 0 => walk[i] = IF i = 0 THEN start ELSE next[i][walk[i - 1]]
    BY <2>1
  <2>3. Upto(0)
    BY <2>1, <2>2
  <2>4. QED
    BY <2>3
<1>2. ASSUME NEW m \in Nat, m \in reached
      PROVE  m + 1 \in reached
  <2>1. PICK walk \in [0..n -> V] :
            \A i \in 0..n : i <= m => walk[i] = IF i = 0 THEN start ELSE next[i][walk[i - 1]]
    BY <1>2
  <2>2. CASE m + 1 > n
    <3>1. \A i \in 0..n : i <= m
      BY <2>2
    <3>2. Upto(m + 1)
      BY <2>1, <3>1
    <3>3. QED
      BY <3>2
  <2>3. CASE m + 1 <= n
    <3> DEFINE more == [walk EXCEPT ![m + 1] = next[m + 1][walk[m]]]
    <3>1. m \in 0..n /\ m + 1 \in 1..n /\ m + 1 \in 0..n
      BY <2>3
    <3>2. next[m + 1] \in [V -> V] /\ walk[m] \in V
      BY <3>1
    <3>3. next[m + 1][walk[m]] \in V
      BY <3>2
    <3>4. more \in [0..n -> V]
      BY <3>3
    <3>5. /\ more[m + 1] = next[m + 1][walk[m]]
          /\ \A i \in 0..n : i <= m => more[i] = walk[i]
      BY <3>1
    <3> HIDE DEF more
    <3>6. ASSUME NEW i \in 0..n, i <= m + 1
          PROVE  more[i] = IF i = 0 THEN start ELSE next[i][more[i - 1]]
      <4>1. CASE i = m + 1
        <5>1. i # 0 /\ i - 1 = m /\ more[m] = walk[m]
          BY <3>1, <3>5, <4>1
        <5>2. QED
          BY <3>5, <4>1, <5>1
      <4>2. CASE i <= m /\ i # 0
        <5>1. i - 1 \in 0..n /\ i - 1 <= m
          BY <4>2
        <5>2. more[i - 1] = walk[i - 1] /\ more[i] = walk[i]
          BY <3>5, <4>2, <5>1
        <5>3. QED
          BY <2>1, <4>2, <5>2
      <4>3. CASE i = 0
        BY <2>1, <3>5, <4>3
      <4>4. QED
        BY <3>6, <4>1, <4>2, <4>3
    <3>7. Upto(m + 1)
      BY <3>4, <3>6
    <3>8. QED
      BY <3>7
  <2>4. QED
    BY <2>2, <2>3
<1> HIDE DEF reached
<1>3. n \in reached
  BY <1>1, <1>2, EveryNumberFollows
<1>4. PICK walk \in [0..n -> V] :
          \A i \in 0..n : i <= n => walk[i] = IF i = 0 THEN start ELSE next[i][walk[i - 1]]
  BY <1>3 DEF reached
<1>5. IsLoop(walk, start, n, next)
  BY <1>4 DEF IsLoop
<1>6. QED
  BY <1>5

(***************************************************************************)
(* Dead code.                                                              *)
(***************************************************************************)

\* The values of a function over a finite set, and the elements of a sequence,
\* are finitely many.
LEMMA FinitelyManyValues ==
    ASSUME NEW S, IsFiniteSet(S), NEW f, f = [x \in S |-> f[x]]
    PROVE  IsFiniteSet({f[x] : x \in S})
<1> DEFINE T == {f[x] : x \in S}
<1>1. f \in [S -> T]
  BY Zenon
<1>2. \A t \in T : \E x \in S : f[x] = t
  OBVIOUS
<1> HIDE DEF T
<1>3. f \in Surjection(S, T)
  BY <1>1, <1>2 DEF Surjection
<1>4. IsFiniteSet(T)
  BY <1>3, FS_Surjection
<1>5. QED
  BY <1>4 DEF T

\* A sequence has finitely many elements.
LEMMA FinitelyManyElements ==
    ASSUME NEW V, NEW seq \in Seq(V)
    PROVE  IsFiniteSet(ToSet(seq))
<1>1. Len(seq) \in Nat /\ DOMAIN seq = 1..Len(seq) /\ seq = [i \in DOMAIN seq |-> seq[i]]
  OBVIOUS
<1>2. IsFiniteSet(1..Len(seq))
  <2> DEFINE n == Len(seq)
  <2>1. 1 \in Int /\ n \in Int
    BY <1>1
  <2> HIDE DEF n
  <2>2. IsFiniteSet(1..n)
    BY <2>1, FS_Interval, Zenon
  <2>3. QED
    BY <2>2 DEF n
<1>3. IsFiniteSet({seq[i] : i \in DOMAIN seq})
  BY <1>1, <1>2, FinitelyManyValues
<1>4. QED
  BY <1>3 DEF ToSet

\* The graphs the proofs are about.
IsGraph(nodes) ==
    /\ IsFiniteSet(nodes)
    /\ \A f \in nodes : f.symbols \in Seq(ToSet(f.symbols))

\* A graph has finitely many symbols.
LEMMA SymbolsAreFinite ==
    ASSUME NEW nodes, IsGraph(nodes)
    PROVE  IsFiniteSet(Dead!Symbols(nodes))
<1> DEFINE Of(f) == {[file |-> f.file, name |-> s.name] : s \in ToSet(f.symbols)}
<1>1. ASSUME NEW f \in nodes
      PROVE  IsFiniteSet(Of(f))
  <2> DEFINE key == [s \in ToSet(f.symbols) |-> [file |-> f.file, name |-> s.name]]
  <2>1. IsFiniteSet(ToSet(f.symbols))
    BY FinitelyManyElements DEF IsGraph
  <2>2. key = [s \in ToSet(f.symbols) |-> key[s]]
    OBVIOUS
  <2>3. Of(f) = {key[s] : s \in ToSet(f.symbols)}
    OBVIOUS
  <2> HIDE DEF key, Of
  <2>4. QED
    BY <2>1, <2>2, <2>3, FinitelyManyValues
<1>2. IsFiniteSet({Of(f) : f \in nodes})
  <2> DEFINE of == [f \in nodes |-> Of(f)]
  <2>1. of = [f \in nodes |-> of[f]]
    OBVIOUS
  <2>2. IsFiniteSet(nodes)
    BY DEF IsGraph
  <2> HIDE DEF of
  <2>3. IsFiniteSet({of[f] : f \in nodes})
    BY <2>1, <2>2, FinitelyManyValues
  <2>4. QED
    BY <2>3 DEF of
<1>3. IsFiniteSet(UNION {Of(f) : f \in nodes})
  BY <1>1, <1>2, FS_UNION
<1>4. Dead!Symbols(nodes) = UNION {Of(f) : f \in nodes}
  BY DEF Dead!Symbols, ToSet, Dead!ToSet
<1>5. QED
  BY <1>3, <1>4

\* The loop takes a symbol of the list in every round; the symbols it has taken
\* keep alive only what it has found to be alive.
Tracing(nodes, t, i) ==
    /\ t.alive \in SUBSET Dead!Symbols(nodes)
    /\ t.work \in SUBSET t.alive
    /\ Dead!SeedEntryPoints(nodes) \subseteq t.alive
    /\ \A k \in t.alive \ t.work : Dead!KeptAlive(nodes, k) \subseteq t.alive
    /\ t.work # {} => Cardinality(t.alive \ t.work) >= i

\* What a symbol keeps alive is a symbol, and so are the entry points.
LEMMA SymbolsKeepSymbols ==
    ASSUME NEW nodes
    PROVE  /\ Dead!SeedEntryPoints(nodes) \subseteq Dead!Symbols(nodes)
           /\ \A k : Dead!KeptAlive(nodes, k) \subseteq Dead!Symbols(nodes)
BY DEF Dead!SeedEntryPoints, Dead!Symbols, Dead!KeptAlive

\* A round of the trace keeps what Tracing says of it.
LEMMA TracingGoesOn ==
    ASSUME NEW nodes, IsGraph(nodes), NEW i \in Nat,
           NEW t \in [alive : SUBSET Dead!Symbols(nodes), work : SUBSET Dead!Symbols(nodes)],
           Tracing(nodes, t, i)
    PROVE  /\ Dead!TraceStep(nodes, t) \in [alive : SUBSET Dead!Symbols(nodes), work : SUBSET Dead!Symbols(nodes)]
           /\ Tracing(nodes, Dead!TraceStep(nodes, t), i + 1)
<1>1. CASE t.work = {}
  BY <1>1 DEF Tracing, Dead!TraceStep
<1>2. CASE t.work # {}
  <2> DEFINE key == CHOOSE k \in t.work : TRUE
             new == Dead!KeptAlive(nodes, key) \ t.alive
             u == [alive |-> t.alive \cup new, work |-> (t.work \ {key}) \cup new]
  <2>1. key \in t.work
    BY <1>2
  <2>2. Dead!TraceStep(nodes, t) = u
    BY <1>2 DEF Dead!TraceStep
  <2> HIDE DEF key
  <2>3. new \subseteq Dead!Symbols(nodes) /\ new \cap t.alive = {}
    BY SymbolsKeepSymbols
  <2>4. Dead!KeptAlive(nodes, key) \subseteq t.alive \cup new
    OBVIOUS
  <2> HIDE DEF new
  <2>5. u.alive \ u.work = (t.alive \ t.work) \cup {key}
    BY <2>1, <2>3 DEF Tracing
  <2>6. \A k \in u.alive \ u.work : Dead!KeptAlive(nodes, k) \subseteq u.alive
    BY <2>4, <2>5 DEF Tracing
  <2>7. Cardinality(u.alive \ u.work) >= i + 1
    <3> DEFINE taken == t.alive \ t.work
    <3>1. IsFiniteSet(taken)
      BY SymbolsAreFinite, FS_Subset DEF Tracing
    <3>2. key \notin taken /\ Cardinality(taken) >= i
      BY <1>2, <2>1 DEF Tracing
    <3> HIDE DEF taken
    <3>3. Cardinality(taken \cup {key}) = Cardinality(taken) + 1 /\ Cardinality(taken) \in Nat
      BY <3>1, <3>2, FS_AddElement, FS_CardinalityType
    <3>4. QED
      BY <2>5, <3>2, <3>3 DEF taken
  <2>8. u.alive \in SUBSET Dead!Symbols(nodes) /\ u.work \in SUBSET u.alive
    BY <2>3 DEF Tracing
  <2>9. Dead!SeedEntryPoints(nodes) \subseteq u.alive
    BY DEF Tracing
  <2>10. Tracing(nodes, u, i + 1)
    BY <2>6, <2>7, <2>8, <2>9 DEF Tracing
  <2>11. QED
    BY <2>2, <2>8, <2>10
<1>3. QED
  BY <1>1, <1>2

\* What is found alive has the entry points in it, and whatever it keeps alive.
LEMMA AliveIsClosed ==
    ASSUME NEW nodes, IsGraph(nodes)
    PROVE  /\ Dead!SeedEntryPoints(nodes) \subseteq Dead!compute_alive_symbols(nodes)
           /\ Dead!compute_alive_symbols(nodes) \subseteq Dead!Symbols(nodes)
           /\ \A k \in Dead!compute_alive_symbols(nodes) :
                  Dead!KeptAlive(nodes, k) \subseteq Dead!compute_alive_symbols(nodes)
<1> DEFINE all == Dead!Symbols(nodes)
           n == Cardinality(all)
           V == [alive : SUBSET all, work : SUBSET all]
           seeds == Dead!SeedEntryPoints(nodes)
           start == [alive |-> seeds, work |-> seeds]
           Rounds(trace) == trace = [i \in 0..n |-> IF i = 0 THEN start ELSE Dead!TraceStep(nodes, trace[i - 1])]
           good == {t \in V : \E i \in Nat : Tracing(nodes, t, i)}
           next == [i \in 1..n |-> [t \in good |-> Dead!TraceStep(nodes, t)]]
<1>1. IsFiniteSet(all) /\ n \in Nat
  BY SymbolsAreFinite, FS_CardinalityType
<1>2. start \in V /\ Tracing(nodes, start, 0)
  <2>1. seeds \subseteq all /\ start \in V
    BY SymbolsKeepSymbols
  <2>2. IsFiniteSet({}) /\ Cardinality({}) = 0
    BY FS_EmptySet
  <2>3. start.alive \ start.work = {}
    OBVIOUS
  <2>4. QED
    BY <2>1, <2>2, <2>3 DEF Tracing
<1>3. \A t \in good : Dead!TraceStep(nodes, t) \in good
  BY TracingGoesOn
<1>4. start \in good /\ next \in [1..n -> [good -> good]]
  BY <1>2, <1>3
<1>5. \E trace : Rounds(trace)
  <2> HIDE DEF good, next, start, n
  <2>1. PICK trace \in [0..n -> good] : IsLoop(trace, start, n, next)
    BY <1>1, <1>4, LoopExists
  <2>2. \A i \in 0..n : i # 0 => next[i][trace[i - 1]] = Dead!TraceStep(nodes, trace[i - 1])
    BY <1>1 DEF next
  <2>3. Rounds(trace)
    BY <2>1, <2>2 DEF IsLoop
  <2>4. QED
    BY <2>3
<1> DEFINE trace == CHOOSE trace : Rounds(trace)
<1>6. Rounds(trace)
  BY <1>5
<1>7. Dead!compute_alive_symbols(nodes) = trace[n].alive
  <2>1. \A S : Dead!Cardinality(S) = Cardinality(S)
    BY DEF Dead!Cardinality, Cardinality
  <2>2. QED
    BY <2>1, Zenon DEF Dead!compute_alive_symbols, Dead!Trace
<1> HIDE DEF trace
<1>8. \A i \in Nat : i <= n => trace[i] \in V /\ Tracing(nodes, trace[i], i)
  <2> DEFINE reached == {i \in Nat : i <= n => trace[i] \in V /\ Tracing(nodes, trace[i], i)}
  <2> HIDE DEF start, V, n
  <2>1. 0 \in reached
    BY <1>1, <1>2, <1>6
  <2>2. ASSUME NEW i \in Nat, i \in reached
        PROVE  i + 1 \in reached
    <3>1. CASE i + 1 <= n
      <4>1. i + 1 \in 0..n /\ i + 1 # 0 /\ (i + 1) - 1 = i /\ i <= n
        BY <1>1, <3>1
      <4>2. trace[i + 1] = Dead!TraceStep(nodes, trace[i])
        BY <1>6, <4>1
      <4>3. trace[i] \in V /\ Tracing(nodes, trace[i], i)
        BY <2>2, <4>1
      <4>4. Dead!TraceStep(nodes, trace[i]) \in V /\ Tracing(nodes, Dead!TraceStep(nodes, trace[i]), i + 1)
        BY <4>3, TracingGoesOn DEF V
      <4>5. QED
        BY <4>2, <4>4
    <3>2. CASE ~ (i + 1 <= n)
      BY <3>2
    <3>3. QED
      BY <3>1, <3>2
  <2> HIDE DEF reached
  <2>3. Nat \subseteq reached
    BY <2>1, <2>2, EveryNumberFollows
  <2>4. QED
    BY <2>3 DEF reached
<1> DEFINE end == trace[n]
<1>9. end \in V /\ Tracing(nodes, end, n)
  BY <1>1, <1>8
<1> HIDE DEF end
<1>10. end.work = {}
  <2> SUFFICES ASSUME end.work # {}
               PROVE  FALSE
    OBVIOUS
  <2> DEFINE taken == end.alive \ end.work
  <2>1. taken \subseteq all /\ Cardinality(taken) >= n
    BY <1>9 DEF Tracing
  <2>2. taken # all
    BY <1>9 DEF Tracing
  <2> HIDE DEF taken
  <2>3. Cardinality(taken) <= n /\ Cardinality(taken) \in Nat /\ (Cardinality(taken) = n => taken = all)
    BY <1>1, <2>1, FS_Subset, FS_CardinalityType
  <2>4. QED
    BY <1>1, <2>1, <2>2, <2>3
<1>11. \A k \in end.alive : Dead!KeptAlive(nodes, k) \subseteq end.alive
  BY <1>9, <1>10 DEF Tracing
<1>12. QED
  BY <1>7, <1>9, <1>11 DEF Tracing, end

\* What the symbols of live files refer to is not reported as unused.
LEMMA NoUseOfTheRemoved ==
    ASSUME NEW nodes, IsGraph(nodes),
           \A f, g \in nodes : f.file = g.file =>
               \A s \in ToSet(f.symbols), t \in ToSet(g.symbols) :
                   s.start_line = t.start_line => s.name = t.name,
           NEW f \in nodes, NEW k \in Dead!compute_alive_symbols(nodes), k.file = f.file,
           NEW g \in nodes, NEW i \in DOMAIN g.symbols, g.symbols[i].name \in f.refs,
           NEW r \in Dead!analyze(nodes), r.file = g.file, r.start_line = g.symbols[i].start_line,
           r.rule_id \in {"unused-function", "unused-type"}
    PROVE  FALSE
<1> DEFINE alive == Dead!compute_alive_symbols(nodes)
           s == g.symbols[i]
<1>1. s \in ToSet(g.symbols)
  BY DEF ToSet
<1>2. [file |-> g.file, name |-> s.name] \in Dead!KeptAlive(nodes, k)
  <2> DEFINE key == [file |-> g.file, name |-> s.name]
  <2> DEFINE Of(h) == {[file |-> h.file, name |-> t.name] : t \in ToSet(h.symbols)}
  <2>1. Dead!Symbols(nodes) = UNION {Of(h) : h \in nodes}
    BY DEF Dead!Symbols, ToSet, Dead!ToSet
  <2> HIDE DEF s
  <2>2. key \in Of(g)
    BY <1>1
  <2> HIDE DEF Of
  <2>3. key \in Dead!Symbols(nodes)
    BY <2>1, <2>2
  <2>4. f.file = k.file /\ key.name \in f.refs
    BY DEF s
  <2> HIDE DEF key
  <2>5. QED
    BY <2>3, <2>4 DEF Dead!KeptAlive, key
<1>3. [file |-> g.file, name |-> s.name] \in alive
  BY <1>2, AliveIsClosed
<1> HIDE DEF alive
<1>4. PICK h \in nodes : r \in Dead!UnusedSymbols(nodes, h, alive)
  <2>1. \A h : \A dead : \A q \in Dead!StaleSuppressions(h, dead) : q.rule_id = "stale-suppression"
    BY DEF Dead!StaleSuppressions, Dead!Report
  <2>2. \A h : \A q \in Dead!UnusedImports(h) : q.rule_id = "unused-import"
    BY DEF Dead!UnusedImports, Dead!Report
  <2>3. \A h : \A q \in Dead!UnusedFiles(h, alive) : q.rule_id = "unused-file"
    BY DEF Dead!UnusedFiles, Dead!Report
  <2>4. \E h \in nodes : \/ r \in Dead!UnusedSymbols(nodes, h, alive) \/ r \in Dead!UnusedImports(h)
                         \/ r \in Dead!UnusedFiles(h, alive)
                         \/ \E dead : r \in Dead!StaleSuppressions(h, dead)
    <3> DEFINE found == UNION {Dead!UnusedSymbols(nodes, h, alive) \cup Dead!UnusedImports(h)
                                  \cup Dead!UnusedFiles(h, alive) : h \in nodes}
               stale == UNION {Dead!StaleSuppressions(h, found) : h \in nodes}
    <3>1. Dead!analyze(nodes) = found \cup stale
      BY Zenon DEF Dead!analyze, alive
    <3>2. CASE r \in found
      BY <3>2, Zenon
    <3>3. CASE r \in stale
      <4> HIDE DEF found
      <4>1. QED
        BY <3>3
    <3>4. QED
      BY <3>1, <3>2, <3>3
  <2>5. QED
    BY <2>1, <2>2, <2>3, <2>4
<1>5. PICK t \in ToSet(h.symbols) : /\ [file |-> h.file, name |-> t.name] \notin alive
                                    /\ r.file = h.file /\ r.start_line = t.start_line
  BY <1>4 DEF Dead!UnusedSymbols, Dead!Report, Dead!ToSet, ToSet
<1>6. t.name = s.name
  BY <1>1, <1>5
<1>7. QED
  BY <1>3, <1>5, <1>6

(***************************************************************************)
(* Fixes.                                                                  *)
(***************************************************************************)

\* Flattening is a loop over the parts.
LEMMA FlatteningIsALoop ==
    ASSUME NEW V, NEW n \in Nat, NEW parts \in [1..n -> Seq(V)]
    PROVE  \E flat \in [0..n -> Seq(V)] :
               /\ flat[0] = <<>>
               /\ \A i \in 1..n : flat[i] = flat[i - 1] \o parts[i]
               /\ FlattenSeq(parts) = flat[n]
<1> DEFINE next == [i \in 1..n |-> [s \in Seq(V) |-> s \o parts[i]]]
           IsFlat(f) == f = [i \in 1..n |-> IF i = 1 THEN parts[i] ELSE f[i - 1] \o parts[i]]
<1>1. <<>> \in Seq(V)
  OBVIOUS
<1>2. next \in [1..n -> [Seq(V) -> Seq(V)]]
  <2>1. \A i \in 1..n : \A s \in Seq(V) : s \o parts[i] \in Seq(V)
    OBVIOUS
  <2>2. QED
    BY <2>1
<1> HIDE DEF next
<1>3. PICK flat \in [0..n -> Seq(V)] : IsLoop(flat, <<>>, n, next)
  BY <1>1, <1>2, LoopExists
<1>4. flat[0] = <<>>
  BY <1>3 DEF IsLoop
<1>5. ASSUME NEW i \in 1..n
      PROVE  flat[i] = flat[i - 1] \o parts[i]
  <2>1. i \in 0..n /\ i # 0 /\ i - 1 \in 0..n
    OBVIOUS
  <2>2. flat[i] = next[i][flat[i - 1]] /\ flat[i - 1] \in Seq(V)
    BY <1>3, <2>1 DEF IsLoop
  <2>3. QED
    BY <2>2 DEF next
<1>50. \A i \in Nat : i + 1 \in 1..n => flat[i + 1] = flat[i] \o parts[i + 1]
  <2> SUFFICES ASSUME NEW i \in Nat, i + 1 \in 1..n
               PROVE  flat[i + 1] = flat[i] \o parts[i + 1]
    OBVIOUS
  <2> DEFINE j == i + 1
  <2>1. j \in 1..n /\ j - 1 = i
    OBVIOUS
  <2> HIDE DEF j
  <2>2. flat[j] = flat[i] \o parts[j]
    BY <1>5, <2>1
  <2>3. QED
    BY <2>2 DEF j
<1>6. parts \in Seq(Seq(V)) /\ Len(parts) = n
  OBVIOUS
<1>7. CASE n = 0
  <2>1. FlattenSeq(parts) = parts /\ parts = <<>>
    BY <1>6, <1>7 DEF FlattenSeq
  <2>2. QED
    BY <1>4, <1>5, <1>7, <2>1
<1>8. CASE n # 0
  <2> DEFINE short == [i \in 1..n |-> flat[i]]
             flatten == CHOOSE f : IsFlat(f)
  <2>1. IsFlat(short)
    <3>1. ASSUME NEW i \in 1..n
          PROVE  flat[i] = IF i = 1 THEN parts[i] ELSE short[i - 1] \o parts[i]
      <4>1. CASE i = 1
        <5>1. <<>> \o parts[1] = parts[1] /\ 0 + 1 \in 1..n /\ 0 + 1 = 1
          BY <4>1
        <5>2. flat[1] = flat[0] \o parts[1]
          BY <1>50, <5>1
        <5>3. QED
          BY <1>4, <4>1, <5>1, <5>2
      <4>2. CASE i # 1
        <5>1. i - 1 \in 1..n
          BY <4>2
        <5>2. QED
          BY <1>5, <4>2, <5>1
      <4>3. QED
        BY <4>1, <4>2
    <3>2. QED
      BY <3>1, Zenon
  <2>2. IsFlat(flatten)
    BY <2>1, Zenon
  <2>3. FlattenSeq(parts) = flatten[n]
    BY <1>6, <1>8, Zenon DEF FlattenSeq
  <2> HIDE DEF flatten
  <2> DEFINE same == {i \in Nat : i \in 1..n => flatten[i] = flat[i]}
  <2>4. 0 \in same
    OBVIOUS
  <2>5. ASSUME NEW i \in Nat, i \in same
        PROVE  i + 1 \in same
    <3> SUFFICES ASSUME i + 1 \in 1..n
                 PROVE  flatten[i + 1] = flat[i + 1]
      OBVIOUS
    <3>0. flat[i + 1] = flat[i] \o parts[i + 1]
      BY <1>50, Zenon
    <3>1. (i + 1) - 1 = i /\ flat[i + 1] = flat[i] \o parts[i + 1]
      BY <3>0
    <3>2. flatten[i + 1] = IF i + 1 = 1 THEN parts[i + 1] ELSE flatten[i] \o parts[i + 1]
      BY <2>2, <3>1
    <3>3. CASE i = 0
      <4>1. <<>> \o parts[1] = parts[1] /\ i + 1 = 1
        BY <3>3
      <4>2. QED
        BY <1>4, <3>1, <3>2, <3>3, <4>1
    <3>4. CASE i # 0
      <4>1. i \in 1..n /\ i + 1 # 1
        BY <3>4
      <4>2. flatten[i] = flat[i]
        BY <2>5, <4>1
      <4>3. QED
        BY <3>1, <3>2, <4>1, <4>2
    <3>5. QED
      BY <3>3, <3>4
  <2> HIDE DEF same
  <2>6. Nat \subseteq same
    BY <2>4, <2>5, EveryNumberFollows
  <2>7. flatten[n] = flat[n]
    BY <1>8, <2>6 DEF same
  <2>8. QED
    BY <1>4, <1>5, <2>3, <2>7
<1>9. QED
  BY <1>7, <1>8

\* Edits that share no line; some may begin or end behind the last line.
Apart(edits) ==
    /\ Ranged(edits)
    /\ \A d, e \in edits : d # e => d.end_line < e.start_line \/ e.end_line < d.start_line

\* What stands in the place of line i.
Begun(edits, i) == {e \in edits : e.start_line = i}
Covered(edits, i) == \E e \in edits : i \in e.start_line..e.end_line
Part(lines, edits, i) ==
    (IF Begun(edits, i) = {} THEN <<>> ELSE (CHOOSE e \in Begun(edits, i) : TRUE).new_text)
    \o (IF Covered(edits, i) THEN <<>> ELSE <<lines[i]>>)

\* What stands in the place of a line is a sequence of lines.
LEMMA PartsAreLines ==
    ASSUME NEW V, NEW lines \in Seq(V), NEW edits, \A e \in edits : e.new_text \in Seq(V),
           NEW i \in 1..Len(lines)
    PROVE  Part(lines, edits, i) \in Seq(V)
<1>1. <<>> \in Seq(V) /\ <<lines[i]>> \in Seq(V)
  OBVIOUS
<1>2. Begun(edits, i) # {} => (CHOOSE e \in Begun(edits, i) : TRUE).new_text \in Seq(V)
  BY DEF Begun
<1> DEFINE a == IF Begun(edits, i) = {} THEN <<>> ELSE (CHOOSE e \in Begun(edits, i) : TRUE).new_text
           b == IF Covered(edits, i) THEN <<>> ELSE <<lines[i]>>
<1>3. a \in Seq(V) /\ b \in Seq(V)
  BY <1>1, <1>2
<1>4. Part(lines, edits, i) = a \o b
  BY Zenon DEF Part
<1> HIDE DEF a, b
<1>5. QED
  BY <1>3, <1>4

\* Line i without the edit t, and with it as the topmost one.
TakesItsPlace(lines, S, t, i) ==
    /\ i <= t.end_line => Part(lines, S \ {t}, i) = <<lines[i]>>
    /\ i < t.start_line => Part(lines, S, i) = <<lines[i]>>
    /\ i = t.start_line => Part(lines, S, i) = t.new_text
    /\ t.start_line < i /\ i <= t.end_line => Part(lines, S, i) = <<>>
    /\ i > t.end_line => Part(lines, S, i) = Part(lines, S \ {t}, i)

\* What the topmost edit changes of the parts.
LEMMA TopmostTakesItsPlace ==
    ASSUME NEW V, NEW lines \in Seq(V), NEW edits, Apart(edits),
           \A e \in edits : e.new_text \in Seq(V),
           NEW S \in SUBSET edits, S # {}, NEW i \in 1..Len(lines)
    PROVE  TakesItsPlace(lines, S, Topmost(S), i)
<1> DEFINE t == Topmost(S)
           rest == S \ {t}
<1>1. t \in S /\ \A d \in S : t.start_line <= d.start_line
  BY TopmostIsTop DEF Apart
<1> HIDE DEF t
<1>2. /\ t.start_line \in Nat \ {0} /\ t.end_line \in Nat /\ t.start_line <= t.end_line /\ t.new_text \in Seq(V)
      /\ \A e \in rest : /\ e.start_line \in Nat /\ e.end_line \in Nat
                        /\ e.start_line <= e.end_line /\ t.end_line < e.start_line
  BY <1>1 DEF Apart, Ranged
<1>3. ASSUME i <= t.end_line
      PROVE  Begun(rest, i) = {} /\ ~Covered(rest, i)
  BY <1>2, <1>3 DEF Begun, Covered
<1>4. ASSUME i < t.start_line
      PROVE  Begun(S, i) = {} /\ ~Covered(S, i)
  BY <1>1, <1>2, <1>4 DEF Begun, Covered
<1>5. ASSUME i = t.start_line
      PROVE  Begun(S, i) = {t} /\ Covered(S, i)
  BY <1>1, <1>2, <1>5 DEF Begun, Covered
<1>6. ASSUME t.start_line < i, i <= t.end_line
      PROVE  Begun(S, i) = {} /\ Covered(S, i)
  BY <1>1, <1>2, <1>6 DEF Begun, Covered
<1>7. ASSUME i > t.end_line
      PROVE  Begun(S, i) = Begun(rest, i) /\ (Covered(S, i) <=> Covered(rest, i))
  BY <1>1, <1>2, <1>7 DEF Begun, Covered
<1>8. <<>> \o <<lines[i]>> = <<lines[i]>> /\ t.new_text \o <<>> = t.new_text /\ <<>> \o <<>> = <<>>
  BY <1>2
<1>9. i <= t.end_line => Part(lines, rest, i) = <<lines[i]>>
  BY <1>3, <1>8 DEF Part
<1>10. i < t.start_line => Part(lines, S, i) = <<lines[i]>>
  BY <1>4, <1>8 DEF Part
<1>11. i = t.start_line => Part(lines, S, i) = t.new_text
  <2>1. (CHOOSE e \in {t} : TRUE) = t
    OBVIOUS
  <2>2. QED
    BY <1>5, <1>8, <2>1 DEF Part
<1>12. t.start_line < i /\ i <= t.end_line => Part(lines, S, i) = <<>>
  BY <1>6, <1>8 DEF Part
<1>13. i > t.end_line => Part(lines, S, i) = Part(lines, rest, i)
  <2> SUFFICES ASSUME i > t.end_line
               PROVE  Part(lines, S, i) = Part(lines, rest, i)
    OBVIOUS
  <2>1. Begun(S, i) = Begun(rest, i)
    BY <1>7
  <2>2. (IF Covered(S, i) THEN <<>> ELSE <<lines[i]>>) = IF Covered(rest, i) THEN <<>> ELSE <<lines[i]>>
    BY <1>7
  <2> DEFINE Text(B) == IF B = {} THEN <<>> ELSE (CHOOSE e \in B : TRUE).new_text
             Line(E) == IF Covered(E, i) THEN <<>> ELSE <<lines[i]>>
  <2>3. \A E : Part(lines, E, i) = Text(Begun(E, i)) \o Line(E)
    BY Zenon DEF Part
  <2>4. Line(S) = Line(rest)
    BY <2>2
  <2> HIDE DEF rest, Text, Line
  <2>5. QED
    BY <2>1, <2>3, <2>4
<1>14. QED
  BY <1>9, <1>10, <1>11, <1>12, <1>13, Zenon DEF TakesItsPlace, t, rest

\* Facts about lines one after the other.
LEMMA OneLineMore ==
    ASSUME NEW V, NEW lines \in Seq(V), NEW k \in Nat, k + 1 \in 1..Len(lines)
    PROVE  /\ SubSeq(lines, 1, k) \in Seq(V) /\ SubSeq(lines, 1, k + 1) \in Seq(V)
           /\ SubSeq(lines, 1, k) \o <<lines[k + 1]>> = SubSeq(lines, 1, k + 1)
OBVIOUS

Continue(V, p, q, g, h) == \E tail \in Seq(V) : g = p \o tail /\ h = q \o tail

\* What two walks have in common grows with the tail they share.
LEMMA TailsGrow ==
    ASSUME NEW V, NEW p \in Seq(V), NEW q \in Seq(V), NEW tail \in Seq(V), NEW x \in Seq(V)
    PROVE  Continue(V, p, q, (p \o tail) \o x, (q \o tail) \o x)
<1>1. tail \o x \in Seq(V)
  OBVIOUS
<1>2. \A s \in Seq(V) : (s \o tail) \o x = s \o (tail \o x)
  <2> SUFFICES ASSUME NEW s \in Seq(V)
               PROVE  (s \o tail) \o x = s \o (tail \o x)
    OBVIOUS
  <2>1. QED
    OBVIOUS
<1>3. QED
  BY <1>1, <1>2, Zenon DEF Continue

\* The parts up to line k without and with an edit of the lines a..b, which is
\* above all others: they differ in what stands above their common tail.
Without(lines, b, k) == SubSeq(lines, 1, IF k <= b THEN k ELSE b)
With(lines, a, new, k) == IF k < a THEN SubSeq(lines, 1, k) ELSE SubSeq(lines, 1, a - 1) \o new

ShareTail(V, lines, a, b, new, k, g, h) ==
    \E tail \in Seq(V) : /\ g = Without(lines, b, k) \o tail
                         /\ h = With(lines, a, new, k) \o tail
                         /\ k <= b => tail = <<>>

\* Reading one line more keeps the common tail.
LEMMA OnePartMore ==
    ASSUME NEW V, NEW lines \in Seq(V), NEW a \in Nat \ {0}, NEW b \in Nat, a <= b, NEW new \in Seq(V),
           NEW k \in Nat, k + 1 <= Len(lines), NEW g, NEW h, ShareTail(V, lines, a, b, new, k, g, h),
           NEW x, NEW y,
           k + 1 <= b => x = <<lines[k + 1]>>,
           k + 1 < a => y = <<lines[k + 1]>>,
           k + 1 = a => y = new,
           a < k + 1 /\ k + 1 <= b => y = <<>>,
           k + 1 > b => y = x /\ y \in Seq(V)
    PROVE  ShareTail(V, lines, a, b, new, k + 1, g \o x, h \o y)
<1>1. PICK tail \in Seq(V) : /\ g = Without(lines, b, k) \o tail
                             /\ h = With(lines, a, new, k) \o tail
                             /\ k <= b => tail = <<>>
  BY DEF ShareTail
<1>2. /\ SubSeq(lines, 1, k) \in Seq(V) /\ SubSeq(lines, 1, k + 1) \in Seq(V)
      /\ SubSeq(lines, 1, k) \o <<lines[k + 1]>> = SubSeq(lines, 1, k + 1)
  <2>1. k + 1 \in 1..Len(lines)
    OBVIOUS
  <2>2. QED
    BY <2>1, OneLineMore
<1>3. CASE k + 1 <= b
  <2>1. Without(lines, b, k) = SubSeq(lines, 1, k) /\ Without(lines, b, k + 1) = SubSeq(lines, 1, k + 1)
    BY <1>3 DEF Without
  <2>2. tail = <<>> /\ x = <<lines[k + 1]>>
    BY <1>1, <1>3
  <2>3. g = SubSeq(lines, 1, k)
    BY <1>1, <1>2, <2>1, <2>2
  <2>4. g \o x = Without(lines, b, k + 1) \o <<>>
    BY <1>2, <2>1, <2>2, <2>3
  <2>5. h \o y = With(lines, a, new, k + 1) \o <<>>
    <3>1. CASE k + 1 < a
      <4>1. /\ With(lines, a, new, k) = SubSeq(lines, 1, k) /\ With(lines, a, new, k + 1) = SubSeq(lines, 1, k + 1)
            /\ y = <<lines[k + 1]>>
        BY <3>1 DEF With
      <4>2. QED
        BY <1>1, <1>2, <2>2, <4>1
    <3>2. CASE k + 1 = a
      <4>0. a - 1 = k /\ k < a /\ ~ (k + 1 < a)
        BY <3>2
      <4>1. /\ With(lines, a, new, k) = SubSeq(lines, 1, k)
            /\ With(lines, a, new, k + 1) = SubSeq(lines, 1, k) \o new
            /\ y = new
        BY <3>2, <4>0 DEF With
      <4>2. QED
        BY <1>1, <1>2, <2>2, <4>1
    <3>3. CASE a < k + 1
      <4>1. a - 1 \in 0..Len(lines)
        BY <3>3
      <4>2. SubSeq(lines, 1, a - 1) \in Seq(V)
        BY <4>1
      <4>3. /\ With(lines, a, new, k) = SubSeq(lines, 1, a - 1) \o new
            /\ With(lines, a, new, k + 1) = SubSeq(lines, 1, a - 1) \o new
            /\ y = <<>>
        BY <1>3, <3>3 DEF With
      <4>4. QED
        BY <1>1, <2>2, <4>2, <4>3
    <3>4. QED
      BY <3>1, <3>2, <3>3
  <2>6. <<>> \in Seq(V)
    OBVIOUS
  <2>7. QED
    BY <2>4, <2>5, <2>6 DEF ShareTail
<1>4. CASE k + 1 > b
  <2>1. Without(lines, b, k + 1) = Without(lines, b, k)
    BY <1>4 DEF Without
  <2>2. With(lines, a, new, k + 1) = With(lines, a, new, k)
    BY <1>4 DEF With
  <2>3. Without(lines, b, k) \in Seq(V)
    BY <1>4 DEF Without
  <2>4. With(lines, a, new, k) \in Seq(V)
    <3>1. a - 1 \in 0..Len(lines)
      BY <1>4
    <3>2. SubSeq(lines, 1, a - 1) \in Seq(V)
      BY <3>1
    <3>3. QED
      BY <1>2, <3>2 DEF With
  <2>5. y = x /\ x \in Seq(V) /\ ~ (k + 1 <= b)
    BY <1>4
  <2> DEFINE p == Without(lines, b, k)
             q == With(lines, a, new, k)
  <2>6. p \in Seq(V) /\ q \in Seq(V) /\ g = p \o tail /\ h = q \o tail
    BY <1>1, <2>3, <2>4
  <2> HIDE DEF p, q
  <2>7. Continue(V, p, q, (p \o tail) \o x, (q \o tail) \o x)
    BY <2>5, <2>6, TailsGrow
  <2>8. Continue(V, p, q, g \o x, h \o y)
    BY <2>5, <2>6, <2>7
  <2>9. Without(lines, b, k + 1) = p /\ With(lines, a, new, k + 1) = q
    BY <2>1, <2>2 DEF p, q
  <2>10. QED
    BY <2>5, <2>8, <2>9 DEF ShareTail, Continue
<1>5. QED
  BY <1>3, <1>4

\* Once every line is read, the walk with the edit is the other one, edited.
LEMMA TailIsKept ==
    ASSUME NEW V, NEW lines \in Seq(V), NEW t, t.start_line \in Nat \ {0}, t.end_line \in Nat,
           t.start_line <= t.end_line, t.new_text \in Seq(V), NEW g, NEW h,
           ShareTail(V, lines, t.start_line, t.end_line, t.new_text, Len(lines), g, h)
    PROVE  h = apply_edit(g, t)
<1> DEFINE n == Len(lines)
           a == t.start_line
           b == t.end_line
           new == t.new_text
<1>1. PICK tail \in Seq(V) : /\ g = Without(lines, b, n) \o tail
                             /\ h = With(lines, a, new, n) \o tail
                             /\ n <= b => tail = <<>>
  BY DEF ShareTail
<1>2. n \in Nat /\ n = Len(lines) /\ SubSeq(lines, 1, n) = lines
  OBVIOUS
<1> HIDE DEF n
<1>3. CASE n < a
  <2>1. Without(lines, b, n) = lines /\ With(lines, a, new, n) = lines /\ tail = <<>>
    BY <1>1, <1>2, <1>3 DEF Without, With
  <2>2. g = lines /\ h = lines
    BY <1>1, <2>1
  <2>3. QED
    BY <1>2, <1>3, <2>2 DEF apply_edit
<1>4. CASE a <= n /\ n <= b
  <2>1. SubSeq(lines, 1, a - 1) \in Seq(V)
    BY <1>2, <1>4
  <2>2. /\ Without(lines, b, n) = lines
        /\ With(lines, a, new, n) = SubSeq(lines, 1, a - 1) \o new
        /\ tail = <<>>
    <3>1. ~ (n < a)
      BY <1>2, <1>4
    <3>2. QED
      BY <1>1, <1>2, <1>4, <3>1, Zenon DEF Without, With
  <2>3. g = lines /\ h = SubSeq(lines, 1, a - 1) \o new
    BY <1>1, <2>1, <2>2
  <2>4. SubSeq(lines, b + 1, n) = <<>>
    BY <1>2, <1>4
  <2>5. apply_edit(lines, t) = SubSeq(lines, 1, a - 1) \o new
    <3>1. SubSeq(lines, 1, a - 1) \o new \in Seq(V)
      BY <2>1
    <3> DEFINE p == SubSeq(lines, 1, a - 1) \o new
    <3> HIDE DEF p
    <3>2. p \o <<>> = p
      BY <3>1 DEF p
    <3>3. ~ (a > n)
      BY <1>2, <1>4
    <3>4. apply_edit(lines, t) = p \o SubSeq(lines, b + 1, n)
      BY <1>2, <3>3, Zenon DEF apply_edit, p
    <3>5. QED
      BY <2>4, <3>2, <3>4 DEF p
  <2>6. QED
    BY <2>3, <2>5
<1>5. CASE b < n
  <2> DEFINE u == SubSeq(lines, 1, b)
  <2>1. Without(lines, b, n) = u /\ With(lines, a, new, n) = SubSeq(lines, 1, a - 1) \o new
    <3>1. ~ (n <= b) /\ ~ (n < a)
      BY <1>2, <1>5
    <3>2. QED
      BY <3>1, Zenon DEF Without, With
  <2>2. u \in Seq(V) /\ Len(u) = b /\ SubSeq(u, 1, a - 1) = SubSeq(lines, 1, a - 1)
    BY <1>2, <1>5
  <2> HIDE DEF u
  <2>3. g = u \o tail
    BY <1>1, <2>1
  <2>4. SubSeq(g, 1, a - 1) = SubSeq(u, 1, a - 1) /\ SubSeq(g, b + 1, Len(g)) = tail /\ ~ (a > Len(g))
    <3> HIDE DEF a, b
    <3>1. a \in Nat \ {0} /\ b \in Nat /\ a <= b
      BY DEF a, b
    <3>2. SubSeq(g, 1, a - 1) = SubSeq(u, 1, a - 1)
      BY <2>2, <2>3, <3>1
    <3>3. SubSeq(g, b + 1, Len(g)) = tail
      BY <2>2, <2>3, <3>1
    <3>4. Len(g) = b + Len(tail) /\ Len(tail) \in Nat
      BY <2>2, <2>3
    <3>5. QED
      BY <3>1, <3>2, <3>3, <3>4
  <2>5. apply_edit(g, t) = SubSeq(g, 1, a - 1) \o new \o SubSeq(g, b + 1, Len(g))
    BY <2>4 DEF apply_edit
  <2>6. QED
    BY <1>1, <2>1, <2>2, <2>4, <2>5
<1>6. QED
  BY <1>2, <1>3, <1>4, <1>5

\* The parts one after the other.
Flattened(V, lines, edits, flat) ==
    /\ flat[0] = <<>>
    /\ \A k \in Nat : k + 1 <= Len(lines) => flat[k + 1] = flat[k] \o Part(lines, edits, k + 1)
    /\ EditedAtOnce(lines, edits) = flat[Len(lines)]
    /\ EditedAtOnce(lines, edits) \in Seq(V)

\* EditedAtOnce is the end of such a walk.
LEMMA PartsAreFlattened ==
    ASSUME NEW V, NEW lines \in Seq(V), NEW edits, \A e \in edits : e.new_text \in Seq(V)
    PROVE  \E flat : Flattened(V, lines, edits, flat)
<1> DEFINE n == Len(lines)
           parts == [i \in 1..n |-> Part(lines, edits, i)]
<1>1. n \in Nat /\ DOMAIN lines = 1..n
  OBVIOUS
<1>2. EditedAtOnce(lines, edits) = FlattenSeq(parts)
  BY <1>1, Zenon DEF EditedAtOnce, Part, Begun, Covered
<1>3. parts \in [1..n -> Seq(V)] /\ \A i \in 1..n : parts[i] = Part(lines, edits, i)
  BY PartsAreLines
<1> HIDE DEF n, parts
<1>4. PICK flat \in [0..n -> Seq(V)] : /\ flat[0] = <<>>
                                       /\ \A i \in 1..n : flat[i] = flat[i - 1] \o parts[i]
                                       /\ FlattenSeq(parts) = flat[n]
  BY <1>1, <1>3, FlatteningIsALoop
<1>5. ASSUME NEW k \in Nat, k + 1 <= n
      PROVE  flat[k + 1] = flat[k] \o Part(lines, edits, k + 1)
  <2> DEFINE i == k + 1
  <2>1. i \in 1..n /\ i - 1 = k
    BY <1>1, <1>5
  <2> HIDE DEF i
  <2>2. flat[i] = flat[k] \o Part(lines, edits, i)
    BY <1>3, <1>4, <2>1
  <2>3. QED
    BY <2>2 DEF i
<1>6. flat[n] \in Seq(V)
  BY <1>1, <1>4
<1>7. Flattened(V, lines, edits, flat)
  BY <1>2, <1>4, <1>5, <1>6 DEF Flattened, n
<1>8. QED
  BY <1>7

\* The topmost edit, applied last, takes its place in what the others leave.
LEMMA OnePlaceMore ==
    ASSUME NEW V, NEW lines \in Seq(V), NEW edits, Apart(edits),
           \A e \in edits : e.new_text \in Seq(V),
           NEW S \in SUBSET edits, S # {}
    PROVE  EditedAtOnce(lines, S) = apply_edit(EditedAtOnce(lines, S \ {Topmost(S)}), Topmost(S))
<1> DEFINE t == Topmost(S)
           rest == S \ {t}
           n == Len(lines)
<1>1. /\ t \in S /\ t.start_line \in Nat \ {0} /\ t.end_line \in Nat /\ t.start_line <= t.end_line
      /\ t.new_text \in Seq(V)
  BY TopmostIsTop DEF Apart, Ranged
<1>2. PICK g : Flattened(V, lines, rest, g)
  BY PartsAreFlattened
<1>3. PICK h : Flattened(V, lines, S, h)
  BY PartsAreFlattened
<1>4. \A i \in 1..n : TakesItsPlace(lines, S, t, i)
  BY TopmostTakesItsPlace
<1>5. \A i \in 1..n : Part(lines, S, i) \in Seq(V)
  BY PartsAreLines
<1> HIDE DEF t, rest
<1> DEFINE Shared(k) == ShareTail(V, lines, t.start_line, t.end_line, t.new_text, k, g[k], h[k])
           shared == {k \in Nat : k <= n => Shared(k)}
<1>6. 0 \in shared
  <2>1. /\ Without(lines, t.end_line, 0) = <<>>
        /\ With(lines, t.start_line, t.new_text, 0) = <<>>
    <3>1. SubSeq(lines, 1, 0) = <<>> /\ 0 <= t.end_line /\ 0 < t.start_line
      BY <1>1
    <3>2. QED
      BY <3>1 DEF Without, With
  <2>2. g[0] = <<>> /\ h[0] = <<>>
    BY <1>2, <1>3 DEF Flattened
  <2>3. <<>> \in Seq(V) /\ <<>> \o <<>> = <<>>
    OBVIOUS
  <2>4. Shared(0)
    BY <2>1, <2>2, <2>3 DEF ShareTail
  <2>5. QED
    BY <2>4
<1>7. ASSUME NEW k \in Nat, k \in shared
      PROVE  k + 1 \in shared
  <2> SUFFICES ASSUME k + 1 <= n
               PROVE  Shared(k + 1)
    OBVIOUS
  <2> DEFINE x == Part(lines, rest, k + 1)
             y == Part(lines, S, k + 1)
  <2>1. k + 1 \in 1..n /\ k <= n
    OBVIOUS
  <2>2. g[k + 1] = g[k] \o x /\ h[k + 1] = h[k] \o y
    BY <1>2, <1>3 DEF Flattened
  <2>3. Shared(k)
    BY <1>7, <2>1
  <2>4. /\ k + 1 <= t.end_line => x = <<lines[k + 1]>>
        /\ k + 1 < t.start_line => y = <<lines[k + 1]>>
        /\ k + 1 = t.start_line => y = t.new_text
        /\ t.start_line < k + 1 /\ k + 1 <= t.end_line => y = <<>>
        /\ k + 1 > t.end_line => y = x /\ y \in Seq(V)
    BY <1>4, <1>5, <2>1 DEF TakesItsPlace, rest
  <2> HIDE DEF x, y
  <2>5. ShareTail(V, lines, t.start_line, t.end_line, t.new_text, k + 1, g[k] \o x, h[k] \o y)
    BY <1>1, <2>3, <2>4, OnePartMore
  <2>6. QED
    BY <2>2, <2>5
<1> HIDE DEF shared
<1>8. n \in shared
  <2>1. n \in Nat
    OBVIOUS
  <2>2. QED
    BY <1>6, <1>7, <2>1, EveryNumberFollows
<1>9. ShareTail(V, lines, t.start_line, t.end_line, t.new_text, Len(lines), g[n], h[n])
  BY <1>8 DEF shared
<1> HIDE DEF Shared
<1>10. h[n] = apply_edit(g[n], t)
  BY <1>1, <1>9, TailIsKept
<1>11. EditedAtOnce(lines, S) = h[n] /\ EditedAtOnce(lines, rest) = g[n]
  BY <1>2, <1>3 DEF Flattened
<1>12. QED
  BY <1>10, <1>11 DEF t, rest

\* Without an edit every line is a part.
LEMMA NothingIsEdited ==
    ASSUME NEW V, NEW lines \in Seq(V)
    PROVE  EditedAtOnce(lines, {}) = lines
<1> DEFINE n == Len(lines)
<1>1. PICK flat : Flattened(V, lines, {}, flat)
  BY PartsAreFlattened
<1>2. \A i \in 1..n : Part(lines, {}, i) = <<lines[i]>>
  <2> TAKE i \in 1..n
  <2>1. Begun({}, i) = {} /\ ~Covered({}, i)
    BY DEF Begun, Covered
  <2>2. <<>> \o <<lines[i]>> = <<lines[i]>>
    OBVIOUS
  <2>3. QED
    BY <2>1, <2>2 DEF Part
<1> DEFINE whole == {k \in Nat : k <= n => flat[k] = SubSeq(lines, 1, k)}
<1>3. 0 \in whole
  <2>1. flat[0] = <<>> /\ SubSeq(lines, 1, 0) = <<>>
    BY <1>1 DEF Flattened
  <2>2. QED
    BY <2>1
<1>4. ASSUME NEW k \in Nat, k \in whole
      PROVE  k + 1 \in whole
  <2> SUFFICES ASSUME k + 1 <= n
               PROVE  flat[k + 1] = SubSeq(lines, 1, k + 1)
    OBVIOUS
  <2>1. flat[k + 1] = flat[k] \o Part(lines, {}, k + 1)
    BY <1>1 DEF Flattened
  <2>2. k + 1 \in 1..n /\ flat[k] = SubSeq(lines, 1, k)
    BY <1>4
  <2>3. Part(lines, {}, k + 1) = <<lines[k + 1]>>
    BY <1>2, <2>2
  <2>4. SubSeq(lines, 1, k) \o <<lines[k + 1]>> = SubSeq(lines, 1, k + 1)
    BY <2>2, OneLineMore
  <2>5. QED
    BY <2>1, <2>2, <2>3, <2>4
<1> HIDE DEF whole
<1>5. n \in Nat
  OBVIOUS
<1>6. n \in whole
  BY <1>3, <1>4, <1>5, EveryNumberFollows
<1>7. flat[n] = SubSeq(lines, 1, n) /\ SubSeq(lines, 1, n) = lines
  BY <1>5, <1>6 DEF whole
<1>8. QED
  BY <1>1, <1>7 DEF Flattened

\* Edits that share no line, applied from the bottom up, give what editing all
\* of their places at once gives.
THEOREM BottomUpIsAtOnce ==
    ASSUME NEW V, NEW lines \in Seq(V), NEW edits, Apart(edits),
           \A e \in edits : e.new_text \in Seq(V)
    PROVE  apply_edits_to_content(lines, edits) = EditedAtOnce(lines, edits)
<1>1. Ranged(edits)
  BY DEF Apart
<1>2. PICK folded : IsFold(lines, edits, folded)
  BY <1>1, EditsAreFolded
<1> DEFINE good == {S \in SUBSET edits : folded[S] = EditedAtOnce(lines, S)}
<1>3. {} \in good
  <2>1. folded[{}] = lines
    BY <1>2 DEF IsFold, Edited
  <2>2. QED
    BY <2>1, NothingIsEdited
<1>4. ASSUME NEW S \in SUBSET edits, S # {}, S \ {Topmost(S)} \in good
      PROVE  S \in good
  <2>1. folded[S] = apply_edit(folded[S \ {Topmost(S)}], Topmost(S))
    BY <1>2, <1>4 DEF IsFold, Edited
  <2>2. folded[S \ {Topmost(S)}] = EditedAtOnce(lines, S \ {Topmost(S)})
    BY <1>4
  <2>3. EditedAtOnce(lines, S) = apply_edit(EditedAtOnce(lines, S \ {Topmost(S)}), Topmost(S))
    BY <1>4, OnePlaceMore
  <2>4. QED
    BY <2>1, <2>2, <2>3
<1> HIDE DEF good
<1>5. edits \in good
  BY <1>1, <1>3, <1>4, EveryEditFollows
<1>6. QED
  BY <1>2, <1>5 DEF good, IsFold

\* The findings the proofs are about.
AreFindings(findings) ==
    /\ findings \in Seq(ToSet(findings))
    /\ \A finding \in ToSet(findings) :
          /\ finding.actions \in Seq(ToSet(finding.actions))
          /\ \A action \in ToSet(finding.actions) :
                /\ action.edits \in Seq(ToSet(action.edits))
                /\ \A e \in ToSet(action.edits) :
                      /\ e.start_line \in Nat \ {0} /\ e.end_line \in Nat
                      /\ e.start_line <= e.end_line
                      /\ e.new_text \in Seq(ToSet(e.new_text))

\* The elements of a sequence are what stands at its places.
LEMMA ElementsOfASequence ==
    ASSUME NEW seq, seq \in Seq(ToSet(seq))
    PROVE  /\ DOMAIN seq \subseteq Nat
           /\ \A i \in DOMAIN seq : seq[i] \in ToSet(seq)
BY DEF ToSet

\* The place of an applied edit: its finding and its position in the first
\* fixable action.
IsAppliedAt(findings, e, i, k) ==
    /\ i \in DOMAIN findings
    /\ Fixable(findings[i]) # {}
    /\ i \notin detect_conflicts(findings)
    /\ k \in DOMAIN FirstFixable(findings[i]).edits
    /\ e = FirstFixable(findings[i]).edits[k]

IsPlannedAt(findings, e, i, a, k) ==
    <<i, a, k>> \in plan_edits(findings) /\ PlannedEdit(findings, <<i, a, k>>) = e

\* An applied edit is an edit of an action of one of the findings.
LEMMA AppliedEditsHavePlaces ==
    ASSUME NEW findings, NEW file, NEW e \in AppliedEdits(orchestrate_fixes(findings, FALSE), file)
    PROVE  /\ e.file = file
           /\ \E i, k : IsAppliedAt(findings, e, i, k)
<1> DEFINE results == orchestrate_fixes(findings, FALSE)
<1>1. PICK i \in {j \in DOMAIN results : results[j].applied} : e \in ToSet(results[i].edits)
  BY DEF AppliedEdits
<1>2. e.file = file
  BY DEF AppliedEdits
<1>3. DOMAIN results = DOMAIN findings
  BY DEF orchestrate_fixes
<1>4. i \in DOMAIN findings /\ results[i].applied
  BY <1>1, <1>3
<1>5. /\ Fixable(findings[i]) # {}
      /\ i \notin detect_conflicts(findings)
      /\ results[i].edits = FirstFixable(findings[i]).edits
  BY <1>4 DEF orchestrate_fixes, FixResult
<1> HIDE DEF results
<1>6. PICK k \in DOMAIN results[i].edits : e = results[i].edits[k]
  BY <1>1 DEF ToSet
<1>7. IsAppliedAt(findings, e, i, k)
  BY <1>4, <1>5, <1>6 DEF IsAppliedAt
<1>8. QED
  BY <1>2, <1>7

\* An applied edit is a planned one, of the same position.
LEMMA AppliedIsPlanned ==
    ASSUME NEW findings, AreFindings(findings), NEW e, NEW i, NEW k, IsAppliedAt(findings, e, i, k)
    PROVE  /\ \E a : IsPlannedAt(findings, e, i, a, k)
           /\ e.start_line \in Nat \ {0} /\ e.end_line \in Nat /\ e.start_line <= e.end_line
           /\ e.new_text \in Seq(ToSet(e.new_text))
<1>1. i \in DOMAIN findings /\ Fixable(findings[i]) # {}
  BY DEF IsAppliedAt
<1>2. findings[i] \in ToSet(findings)
  BY <1>1 DEF ToSet
<1>3. findings[i].actions \in Seq(ToSet(findings[i].actions))
  BY <1>2 DEF AreFindings
<1>4. Fixable(findings[i]) \subseteq Nat /\ Fixable(findings[i]) \subseteq DOMAIN findings[i].actions
  <2>1. DOMAIN findings[i].actions \subseteq Nat
    BY <1>3, ElementsOfASequence
  <2>2. QED
    BY <2>1 DEF Fixable
<1>5. PICK a \in Fixable(findings[i]) :
          /\ <<i, a, k>> \in plan_edits(findings)
          /\ PlannedEdit(findings, <<i, a, k>>) = FirstFixable(findings[i]).edits[k]
  BY <1>1, <1>4, FirstFixableIsPlanned DEF IsAppliedAt
<1> DEFINE action == findings[i].actions[a]
<1>6. action \in ToSet(findings[i].actions)
  BY <1>4, <1>5 DEF ToSet
<1>7. k \in DOMAIN action.edits /\ PlannedEdit(findings, <<i, a, k>>) = action.edits[k]
  BY <1>5 DEF plan_edits, PlannedEdit
<1>8. e = action.edits[k]
  BY <1>5, <1>7 DEF IsAppliedAt
<1> HIDE DEF action
<1>9. e \in ToSet(action.edits)
  BY <1>7, <1>8 DEF ToSet
<1>10. /\ e.start_line \in Nat \ {0} /\ e.end_line \in Nat /\ e.start_line <= e.end_line
       /\ e.new_text \in Seq(ToSet(e.new_text))
  BY <1>2, <1>6, <1>9 DEF AreFindings
<1>11. PlannedEdit(findings, <<i, a, k>>) = e
  BY <1>7, <1>8
<1>12. IsPlannedAt(findings, e, i, a, k)
  BY <1>5, <1>11 DEF IsPlannedAt
<1>13. QED
  BY <1>10, <1>12

\* The applied edits of a file are finitely many.
LEMMA FinitelyManyApplied ==
    ASSUME NEW findings, AreFindings(findings), NEW file
    PROVE  IsFiniteSet(AppliedEdits(orchestrate_fixes(findings, FALSE), file))
<1> DEFINE places == DOMAIN findings
           of == [i \in places |-> UNION {ToSet(findings[i].actions[a].edits) : a \in DOMAIN findings[i].actions}]
           all == {of[i] : i \in places}
<1>1. \A V : \A seq \in Seq(V) : IsFiniteSet(DOMAIN seq)
  <2> TAKE V
  <2> TAKE seq \in Seq(V)
  <2> DEFINE n == Len(seq)
  <2>1. DOMAIN seq = 1..n /\ 1 \in Int /\ n \in Int
    OBVIOUS
  <2> HIDE DEF n
  <2>2. IsFiniteSet(1..n)
    BY <2>1, FS_Interval, Zenon
  <2>3. QED
    BY <2>1, <2>2
<1>2. IsFiniteSet(places)
  BY <1>1 DEF AreFindings
<1>3. ASSUME NEW i \in places
      PROVE  IsFiniteSet(of[i])
  <2> DEFINE acts == DOMAIN findings[i].actions
             edits == [a \in acts |-> ToSet(findings[i].actions[a].edits)]
  <2>1. findings[i] \in ToSet(findings)
    BY DEF ToSet
  <2>2. findings[i].actions \in Seq(ToSet(findings[i].actions))
    BY <2>1 DEF AreFindings
  <2>3. IsFiniteSet(acts)
    BY <1>1, <2>2
  <2>4. \A a \in acts : IsFiniteSet(edits[a])
    <3> TAKE a \in acts
    <3>1. findings[i].actions[a] \in ToSet(findings[i].actions)
      BY DEF ToSet
    <3>2. findings[i].actions[a].edits \in Seq(ToSet(findings[i].actions[a].edits))
      BY <2>1, <3>1 DEF AreFindings
    <3>3. QED
      BY <3>2, FinitelyManyElements
  <2>5. edits = [a \in acts |-> edits[a]]
    OBVIOUS
  <2>6. of[i] = UNION {edits[a] : a \in acts}
    OBVIOUS
  <2> HIDE DEF acts, edits
  <2>7. IsFiniteSet({edits[a] : a \in acts})
    BY <2>3, <2>5, FinitelyManyValues
  <2>8. \A T \in {edits[a] : a \in acts} : IsFiniteSet(T)
    BY <2>4, Zenon
  <2>9. IsFiniteSet(UNION {edits[a] : a \in acts})
    BY <2>7, <2>8, FS_UNION, Zenon
  <2>10. QED
    BY <2>6, <2>9, Zenon
<1>4. of = [i \in places |-> of[i]]
  OBVIOUS
<1>5. AppliedEdits(orchestrate_fixes(findings, FALSE), file) \subseteq UNION all
  <2>1. ASSUME NEW e \in AppliedEdits(orchestrate_fixes(findings, FALSE), file)
        PROVE  e \in UNION all
    <3>1. PICK i, k : IsAppliedAt(findings, e, i, k)
      BY AppliedEditsHavePlaces
    <3>2. PICK a : IsPlannedAt(findings, e, i, a, k)
      BY <3>1, AppliedIsPlanned
    <3>3. a \in Fixable(findings[i]) /\ k \in DOMAIN findings[i].actions[a].edits
      BY <3>2 DEF plan_edits, IsPlannedAt
    <3>4. i \in places /\ e = findings[i].actions[a].edits[k]
      BY <3>1, <3>2 DEF PlannedEdit, IsAppliedAt, IsPlannedAt
    <3>5. a \in DOMAIN findings[i].actions
      BY <3>3 DEF Fixable
    <3>6. e \in ToSet(findings[i].actions[a].edits)
      BY <3>3, <3>4 DEF ToSet
    <3>7. e \in of[i]
      BY <3>4, <3>5, <3>6
    <3> HIDE DEF of
    <3>8. QED
      BY <3>4, <3>7
  <2>2. QED
    BY <2>1
<1> HIDE DEF of, places
<1>6. IsFiniteSet(all)
  BY <1>2, <1>4, FinitelyManyValues
<1>7. \A T \in all : IsFiniteSet(T)
  BY <1>3
<1> HIDE DEF all
<1>8. IsFiniteSet(UNION all)
  BY <1>6, <1>7, FS_UNION
<1>9. QED
  BY <1>5, <1>8, FS_Subset

\* What is applied to a file shares no line.
LEMMA AppliedAreApart ==
    ASSUME NEW findings, AreFindings(findings), NEW file
    PROVE  Apart(AppliedEdits(orchestrate_fixes(findings, FALSE), file))
<1> DEFINE edits == AppliedEdits(orchestrate_fixes(findings, FALSE), file)
<1>1. \A e \in edits : /\ e.start_line \in Nat \ {0} /\ e.end_line \in Nat
                      /\ e.start_line <= e.end_line
  BY AppliedEditsHavePlaces, AppliedIsPlanned
<1>2. ASSUME NEW d \in edits, NEW e \in edits, d # e
      PROVE  d.end_line < e.start_line \/ e.end_line < d.start_line
  <2>1. PICK i, k : IsAppliedAt(findings, d, i, k)
    BY AppliedEditsHavePlaces
  <2>2. PICK j, l : IsAppliedAt(findings, e, j, l)
    BY AppliedEditsHavePlaces
  <2>3. PICK a : IsPlannedAt(findings, d, i, a, k)
    BY <2>1, AppliedIsPlanned
  <2>4. PICK b : IsPlannedAt(findings, e, j, b, l)
    BY <2>2, AppliedIsPlanned
  <2> DEFINE x == <<i, a, k>>
             y == <<j, b, l>>
  <2>5. x # y /\ x[1] = i
    BY <1>2, <2>3, <2>4 DEF IsPlannedAt
  <2>6. i \in DOMAIN findings /\ i \notin detect_conflicts(findings)
    BY <2>1 DEF IsAppliedAt
  <2>7. x \in plan_edits(findings) /\ y \in plan_edits(findings)
        /\ PlannedEdit(findings, x) = d /\ PlannedEdit(findings, y) = e
    BY <2>3, <2>4 DEF IsPlannedAt
  <2> HIDE DEF x, y
  <2>8. ~edits_overlap(d, e)
    BY <2>5, <2>6, <2>7 DEF detect_conflicts
  <2>9. d.file = e.file
    BY AppliedEditsHavePlaces
  <2>10. /\ d.start_line \in Nat /\ d.end_line \in Nat /\ e.start_line \in Nat /\ e.end_line \in Nat
    BY <1>1
  <2> HIDE DEF edits
  <2>11. QED
    BY <2>8, <2>9, <2>10 DEF edits_overlap
<1> HIDE DEF edits
<1>3. IsFiniteSet(edits)
  BY FinitelyManyApplied DEF edits
<1>4. QED
  BY <1>1, <1>2, <1>3 DEF Apart, Ranged, edits

(***************************************************************************)
(* Suppression comments.                                                   *)
(***************************************************************************)

LexModes == {"code", "comment", "block", "dq", "sq", "raw", "ddd", "sss", "malformed"}
LexStates == [mode : LexModes, skip : 0..2, marked : BOOLEAN, inner : BOOLEAN]

\* The step of the lexer, mode by mode.
CommentSign(lang) == IF lang = "Go" THEN "slash" ELSE "hash"
Quotes == {"dq", "sq"}
LongOf(quote) == IF quote = "dq" THEN "ddd" ELSE "sss"
QuoteOf(mode) == Comments!Quote[mode]
Misplaced(lang, line, i) == (line[i] = "esc" /\ i < Len(line)) \/ (line[i] = "tick" /\ lang = "Python")
Tripled(lang, line, i) == lang = "Python" /\ line[i] \in Quotes /\ Comments!Triple(line, i, line[i])

LexInCode(lang, line, l, i) ==
    IF Misplaced(lang, line, i) THEN [l EXCEPT !.mode = "malformed"]
    ELSE IF Tripled(lang, line, i) THEN [l EXCEPT !.mode = LongOf(line[i]), !.skip = 2]
    ELSE IF line[i] \in Quotes THEN [l EXCEPT !.mode = line[i]]
    ELSE IF line[i] = "tick" /\ lang = "Go" THEN [l EXCEPT !.mode = "raw"]
    ELSE IF line[i] = CommentSign(lang) THEN [l EXCEPT !.mode = "comment"]
    ELSE IF line[i] = "open" /\ lang = "Go" THEN [l EXCEPT !.mode = "block"]
    ELSE l

LexInQuotes(line, l, i) ==
    IF line[i] = "esc" THEN [l EXCEPT !.skip = 1]
    ELSE IF line[i] = l.mode THEN [l EXCEPT !.mode = "code"]
    ELSE l

LexInLong(lang, line, l, i) ==
    IF line[i] = "esc"
    THEN IF Comments!HidesQuote(line, i, l.mode)
         THEN [l EXCEPT !.skip = 1, !.inner = TRUE] ELSE [l EXCEPT !.skip = 1]
    ELSE IF line[i] = QuoteOf(l.mode)
    THEN IF Tripled(lang, line, i) THEN [l EXCEPT !.mode = "code", !.skip = 2] ELSE [l EXCEPT !.inner = TRUE]
    ELSE l

LexInRaw(line, l, i) == IF line[i] = "tick" THEN [l EXCEPT !.mode = "code"] ELSE l

LexInBlock(line, l, i) ==
    IF line[i] = "close" THEN [l EXCEPT !.mode = "code"]
    ELSE IF line[i] \in Comments!Delimiters THEN [l EXCEPT !.inner = TRUE]
    ELSE l

LexInComment(line, l, i) == IF Comments!IsMark(line[i]) THEN [l EXCEPT !.marked = TRUE] ELSE l

LexByMode(lang, line, l, i) ==
    IF l.skip > 0 THEN [l EXCEPT !.skip = @ - 1]
    ELSE IF l.mode = "code" THEN LexInCode(lang, line, l, i)
    ELSE IF l.mode \in Quotes THEN LexInQuotes(line, l, i)
    ELSE IF l.mode \in {"ddd", "sss"} THEN LexInLong(lang, line, l, i)
    ELSE IF l.mode = "raw" THEN LexInRaw(line, l, i)
    ELSE IF l.mode = "block" THEN LexInBlock(line, l, i)
    ELSE IF l.mode = "comment" THEN LexInComment(line, l, i)
    ELSE l

\* The lexer mode by mode.
LEMMA LexIsByMode ==
    ASSUME NEW lang, NEW line, NEW i \in Nat, NEW l \in LexStates
    PROVE  Comments!Lex(lang, line, l, i) = LexByMode(lang, line, l, i)
<1>1. CASE l.skip > 0
  BY <1>1 DEF Comments!Lex, LexByMode
<1>2. CASE ~ (l.skip > 0) /\ l.mode = "code"
  <2>1. Comments!Lex(lang, line, l, i) = LexInCode(lang, line, l, i)
    <3>1. CASE Misplaced(lang, line, i)
      BY <1>2, <3>1 DEF Comments!Lex, LexInCode, Misplaced
    <3>2. CASE ~Misplaced(lang, line, i) /\ Tripled(lang, line, i)
      BY <1>2, <3>2 DEF Comments!Lex, LexInCode, Misplaced, Tripled, LongOf, Quotes
    <3>3. CASE ~Misplaced(lang, line, i) /\ ~Tripled(lang, line, i) /\ line[i] \in Quotes
      BY <1>2, <3>3 DEF Comments!Lex, LexInCode, Misplaced, Tripled, Quotes
    <3>4. CASE ~Misplaced(lang, line, i) /\ line[i] \notin Quotes
      BY <1>2, <3>4 DEF Comments!Lex, LexInCode, Misplaced, Tripled, Quotes, CommentSign
    <3>5. QED
      BY <3>1, <3>2, <3>3, <3>4
  <2>2. QED
    BY <1>2, <2>1 DEF LexByMode
<1>3. CASE ~ (l.skip > 0) /\ l.mode \in Quotes
  BY <1>3 DEF Comments!Lex, LexByMode, LexInQuotes, Quotes
<1>4. CASE ~ (l.skip > 0) /\ l.mode \in {"ddd", "sss"}
  <2>1. Comments!Lex(lang, line, l, i) = LexInLong(lang, line, l, i)
    <3>0. Comments!Quote[l.mode] = QuoteOf(l.mode) /\ QuoteOf(l.mode) \in Quotes
      BY <1>4 DEF Comments!Quote, QuoteOf, Quotes
    <3>1. CASE line[i] = "esc"
      BY <1>4, <3>0, <3>1 DEF Comments!Lex, LexInLong, Quotes
    <3>2. CASE line[i] = QuoteOf(l.mode)
      BY <1>4, <3>0, <3>2 DEF Comments!Lex, LexInLong, Tripled, Quotes
    <3>3. CASE line[i] # "esc" /\ line[i] # QuoteOf(l.mode)
      BY <1>4, <3>0, <3>3 DEF Comments!Lex, LexInLong
    <3>4. QED
      BY <3>1, <3>2, <3>3
  <2>2. QED
    BY <1>4, <2>1 DEF LexByMode, Quotes
<1>5. CASE ~ (l.skip > 0) /\ l.mode = "raw"
  BY <1>5 DEF Comments!Lex, LexByMode, LexInRaw, Quotes
<1>6. CASE ~ (l.skip > 0) /\ l.mode = "comment"
  BY <1>6 DEF Comments!Lex, LexByMode, LexInComment, Quotes
<1>7. CASE ~ (l.skip > 0) /\ l.mode = "malformed"
  BY <1>7 DEF Comments!Lex, LexByMode, Quotes
<1>8. CASE ~ (l.skip > 0) /\ l.mode = "block"
  <2>1. Comments!Lex(lang, line, l, i) = LexInBlock(line, l, i)
    <3>1. CASE line[i] = "close"
      BY <1>8, <3>1 DEF Comments!Lex, LexInBlock, Comments!Delimiters
    <3>2. CASE line[i] \in Comments!Delimiters
      BY <1>8, <3>2 DEF Comments!Lex, LexInBlock, Comments!Delimiters
    <3>3. CASE line[i] # "close" /\ line[i] \notin Comments!Delimiters
      BY <1>8, <3>3 DEF Comments!Lex, LexInBlock
    <3>4. QED
      BY <3>1, <3>2, <3>3
  <2>2. QED
    BY <1>8, <2>1 DEF LexByMode, Quotes
<1>9. QED
  BY <1>1, <1>2, <1>3, <1>4, <1>5, <1>6, <1>7, <1>8 DEF LexStates, LexModes, Quotes

QuoteStates == [mode : {"code", "dq", "sq", "tick"}, skip : 0..1]

\* Changes that keep the type of the states of the lexer.
LEMMA LexStatesChange ==
    ASSUME NEW l \in LexStates, NEW mode \in LexModes, NEW skip \in 0..2, NEW b \in BOOLEAN
    PROVE  /\ [l EXCEPT !.mode = mode] \in LexStates
           /\ [l EXCEPT !.skip = skip] \in LexStates
           /\ [l EXCEPT !.mode = mode, !.skip = skip] \in LexStates
           /\ [l EXCEPT !.marked = TRUE] \in LexStates
           /\ [l EXCEPT !.inner = TRUE] \in LexStates
           /\ [l EXCEPT !.skip = skip, !.inner = b] \in LexStates
BY DEF LexStates, LexModes

\* The lexer keeps the type of its states.
LEMMA LexStaysInItsStates ==
    ASSUME NEW lang, NEW line, NEW i \in Nat, NEW l \in LexStates
    PROVE  Comments!Lex(lang, line, l, i) \in LexStates
<1>0. l.mode \in LexModes /\ l.skip \in 0..2 /\ l.inner \in BOOLEAN
  BY DEF LexStates
<1>1. CASE l.skip > 0
  <2>1. l.skip - 1 \in 0..2
    BY <1>0, <1>1
  <2>2. [l EXCEPT !.skip = l.skip - 1] \in LexStates
    BY <2>1, LexStatesChange, TRUE \in BOOLEAN, <1>0, Zenon
  <2>3. QED
    BY <1>1, <2>2, LexIsByMode DEF LexByMode
<1>2. CASE ~ (l.skip > 0)
  <2>1. LexInCode(lang, line, l, i) \in LexStates
    <3>1. [l EXCEPT !.mode = "malformed"] \in LexStates /\ [l EXCEPT !.mode = "raw"] \in LexStates
          /\ [l EXCEPT !.mode = "comment"] \in LexStates /\ [l EXCEPT !.mode = "block"] \in LexStates
      BY <1>0, LexStatesChange, Zenon DEF LexModes
    <3>2. [l EXCEPT !.mode = LongOf(line[i]), !.skip = 2] \in LexStates
      <4>1. LongOf(line[i]) \in LexModes /\ 2 \in 0..2
        BY DEF LexModes, LongOf
      <4>2. QED
        BY <1>0, <4>1, LexStatesChange, Zenon
    <3>3. line[i] \in Quotes => [l EXCEPT !.mode = line[i]] \in LexStates
      <4>1. line[i] \in Quotes => line[i] \in LexModes
        BY DEF LexModes, Quotes
      <4>2. QED
        BY <1>0, <4>1, LexStatesChange, Zenon
    <3>4. QED
      BY <3>1, <3>2, <3>3 DEF LexInCode
  <2>2. LexInQuotes(line, l, i) \in LexStates
    <3>1. "code" \in LexModes /\ 1 \in 0..2
      BY DEF LexModes
    <3>2. QED
      BY <1>0, <3>1, LexStatesChange, Zenon DEF LexInQuotes
  <2>3. LexInLong(lang, line, l, i) \in LexStates
    <3>1. "code" \in LexModes /\ 1 \in 0..2 /\ 2 \in 0..2 /\ TRUE \in BOOLEAN
      BY DEF LexModes
    <3>2. [l EXCEPT !.skip = 1, !.inner = TRUE] \in LexStates /\ [l EXCEPT !.skip = 1] \in LexStates
      BY <1>0, <3>1, LexStatesChange, Zenon
    <3>3. [l EXCEPT !.mode = "code", !.skip = 2] \in LexStates /\ [l EXCEPT !.inner = TRUE] \in LexStates
      BY <1>0, <3>1, LexStatesChange, Zenon
    <3>4. QED
      BY <3>2, <3>3 DEF LexInLong
  <2>4. /\ LexInRaw(line, l, i) \in LexStates /\ LexInComment(line, l, i) \in LexStates
        /\ LexInBlock(line, l, i) \in LexStates
    <3>1. "code" \in LexModes
      BY DEF LexModes
    <3>2. QED
      BY <1>0, <3>1, LexStatesChange, Zenon DEF LexInRaw, LexInComment, LexInBlock
  <2>5. QED
    <3>1. LexByMode(lang, line, l, i) \in LexStates
      BY <1>2, <2>1, <2>2, <2>3, <2>4, Zenon DEF LexByMode
    <3>2. QED
      BY <3>1, LexIsByMode
<1>3. QED
  BY <1>1, <1>2

\* What the lexer has lost or found malformed stays so.
Lost(l) == l.mode = "malformed" \/ l.inner = TRUE

\* A lexer that is lost stays lost.
LEMMA LostForGood ==
    ASSUME NEW lang, NEW line, NEW i \in Nat, NEW l \in LexStates, Lost(l)
    PROVE  Lost(Comments!Lex(lang, line, l, i))
<1> DEFINE l1 == LexByMode(lang, line, l, i)
<1>0. l.mode \in LexModes
  BY DEF LexStates
<1>1. CASE l.mode = "malformed"
  <2>1. l1.mode = "malformed"
    BY <1>1 DEF LexByMode, LexStates, Quotes
  <2>2. QED
    BY <2>1, LexIsByMode DEF Lost
<1>2. CASE l.inner = TRUE
  <2>1. LexInCode(lang, line, l, i).inner = TRUE /\ LexInQuotes(line, l, i).inner = TRUE
    BY <1>2 DEF LexInCode, LexInQuotes, LexStates
  <2>2. LexInLong(lang, line, l, i).inner = TRUE /\ LexInRaw(line, l, i).inner = TRUE
        /\ LexInComment(line, l, i).inner = TRUE /\ LexInBlock(line, l, i).inner = TRUE
    BY <1>2 DEF LexInLong, LexInRaw, LexInComment, LexInBlock, LexStates
  <2>3. l1.inner = TRUE
    BY <1>2, <2>1, <2>2 DEF LexByMode, LexStates
  <2>4. QED
    BY <2>3, LexIsByMode DEF Lost
<1>3. QED
  BY <1>1, <1>2 DEF Lost

\* The scan of one line alone beside the lexer: the three quotes of a delimiter
\* open, close and open a string of one line, or close, open and close one.
Next1(line, k, ch) == k + 1 <= Len(line) /\ line[k + 1] = ch
Next2(line, k, ch) == k + 2 <= Len(line) /\ line[k + 1] = ch /\ line[k + 2] = ch

AlikeInCode(line, k, l, q) == l.mode = "code" /\ l.skip = 0 /\ q.mode = "code" /\ (q.skip = 0 \/ k = Len(line))
AlikeInQuotes(l, q) == l.mode \in Quotes /\ q.mode = l.mode /\ q.skip = l.skip
AlikeInRaw(l, q) == l.mode = "raw" /\ l.skip = 0 /\ q.mode = "tick" /\ q.skip = 0
AlikeInBlock(l, q) == l.mode = "block" /\ l.skip = 0 /\ q.mode = "code" /\ q.skip = 0
AlikeInLong(l, q) == l.mode \in {"ddd", "sss"} /\ q.mode = QuoteOf(l.mode) /\ q.skip = l.skip
Opening2(line, k, l, q) ==
    l.mode \in {"ddd", "sss"} /\ l.skip = 2 /\ q.mode = QuoteOf(l.mode) /\ q.skip = 0 /\ Next2(line, k, q.mode)
Opening1(line, k, l, q) ==
    l.mode \in {"ddd", "sss"} /\ l.skip = 1 /\ q.mode = "code" /\ q.skip = 0 /\ Next1(line, k, QuoteOf(l.mode))
Closing2(line, k, l, q) ==
    l.mode = "code" /\ l.skip = 2 /\ q.mode = "code" /\ q.skip = 0 /\ \E ch \in Quotes : Next2(line, k, ch)
Closing1(line, k, l, q) ==
    l.mode = "code" /\ l.skip = 1 /\ q.mode \in Quotes /\ q.skip = 0 /\ Next1(line, k, q.mode)

Alike(line, k, l, q) ==
    \/ Lost(l)
    \/ l.mode = "comment" /\ l.skip = 0
    \/ AlikeInCode(line, k, l, q)
    \/ AlikeInQuotes(l, q)
    \/ AlikeInRaw(l, q)
    \/ AlikeInBlock(l, q)
    \/ AlikeInLong(l, q)
    \/ Opening2(line, k, l, q)
    \/ Opening1(line, k, l, q)
    \/ Closing2(line, k, l, q)
    \/ Closing1(line, k, l, q)

\* Lexer and walk stay alike over one character.
LEMMA AlikeGoesOn ==
    ASSUME NEW lang \in {"Go", "Python"}, NEW line, Len(line) \in Nat,
           NEW k \in Nat, k + 1 <= Len(line),
           NEW l \in LexStates, NEW q \in QuoteStates, Alike(line, k, l, q)
    PROVE  Alike(line, k + 1, Comments!Lex(lang, line, l, k + 1), Comments!QuoteStep(q, line[k + 1]))
<1> DEFINE i == k + 1
           ch == line[i]
           l1 == LexByMode(lang, line, l, i)
           q1 == Comments!QuoteStep(q, ch)
<1> SUFFICES ASSUME ~Lost(l1)
             PROVE  Alike(line, i, l1, q1)
  BY LexIsByMode DEF Alike
<1>0. ~Lost(l)
  BY LostForGood, LexIsByMode
<1>q. /\ QuoteOf("ddd") = "dq" /\ QuoteOf("sss") = "sq"
      /\ k # Len(line) /\ i \in Nat
  BY DEF QuoteOf, Comments!Quote
<1>1. CASE l.mode = "comment" /\ l.skip = 0
  BY <1>1 DEF Alike, LexByMode, LexInComment, LexStates, Quotes
<1>2. CASE AlikeInCode(line, k, l, q)
  <2>1. l.mode = "code" /\ l.skip = 0 /\ q.mode = "code" /\ q.skip = 0
    BY <1>2, <1>q DEF AlikeInCode
  <2>2. l1 = LexInCode(lang, line, l, i)
    BY <2>1 DEF LexByMode
  <2>3. CASE Misplaced(lang, line, i)
    BY <2>2, <2>3 DEF LexInCode, Lost, LexStates
  <2>4. CASE ~Misplaced(lang, line, i) /\ ch = "esc"
    <3>1. i = Len(line)
      BY <2>4 DEF Misplaced
    <3>2. l1 = l
      BY <2>2, <2>4 DEF LexInCode, Tripled, Quotes, CommentSign
    <3>3. q1.mode = "code"
      BY <2>1, <2>4 DEF Comments!QuoteStep, Comments!Escaped, QuoteStates
    <3>4. AlikeInCode(line, i, l1, q1)
      BY <2>1, <3>1, <3>2, <3>3 DEF AlikeInCode
    <3>5. QED
      BY <3>4 DEF Alike
  <2>5. CASE Tripled(lang, line, i)
    <3>1. ch \in Quotes /\ Next2(line, i, ch) /\ ch # "esc" /\ ch # "tick"
      BY <2>5, <1>q DEF Tripled, Comments!Triple, Next2, Quotes
    <3>2. l1.mode = LongOf(ch) /\ l1.skip = 2
      BY <2>2, <2>5, <3>1 DEF LexInCode, LexStates, Misplaced
    <3>3. q1.mode = ch /\ q1.skip = 0
      BY <2>1, <3>1 DEF Comments!QuoteStep, Comments!Escaped, QuoteStates, Quotes
    <3>4. Opening2(line, i, l1, q1)
      BY <1>q, <3>1, <3>2, <3>3 DEF Opening2, LongOf, Quotes
    <3>5. QED
      BY <3>4 DEF Alike
  <2>6. CASE ~Misplaced(lang, line, i) /\ ~Tripled(lang, line, i) /\ ch \in Quotes
    <3>1. l1.mode = ch /\ l1.skip = 0
      BY <2>1, <2>2, <2>6 DEF LexInCode, LexStates
    <3>2. q1.mode = ch /\ q1.skip = 0
      BY <2>1, <2>6 DEF Comments!QuoteStep, Comments!Escaped, QuoteStates, Quotes
    <3>3. QED
      BY <2>6, <3>1, <3>2 DEF Alike, AlikeInQuotes
  <2>7. CASE ~Misplaced(lang, line, i) /\ ch = "tick"
    <3>1. l1.mode = "raw" /\ l1.skip = 0
      BY <2>1, <2>2, <2>7 DEF LexInCode, LexStates, Misplaced, Tripled, Quotes
    <3>2. q1.mode = "tick" /\ q1.skip = 0
      BY <2>1, <2>7 DEF Comments!QuoteStep, Comments!Escaped, QuoteStates
    <3>3. QED
      BY <3>1, <3>2 DEF Alike, AlikeInRaw
  <2>8. CASE ~Misplaced(lang, line, i) /\ ch \notin Quotes /\ ch # "esc" /\ ch # "tick"
    <3>1. l1.mode \in {"code", "comment", "block"} /\ l1.skip = 0
      BY <2>1, <2>2, <2>8 DEF LexInCode, LexStates, Tripled
    <3>2. q1 = q
      BY <2>1, <2>8 DEF Comments!QuoteStep, Comments!Escaped, QuoteStates, Quotes
    <3>3. QED
      BY <2>1, <3>1, <3>2 DEF Alike, AlikeInCode, AlikeInBlock
  <2>9. QED
    BY <2>3, <2>4, <2>5, <2>6, <2>7, <2>8
<1>3. CASE AlikeInQuotes(l, q)
  <2>1. AlikeInQuotes(l1, q1) \/ AlikeInCode(line, i, l1, q1)
    BY <1>3 DEF AlikeInQuotes, AlikeInCode, LexByMode, LexInQuotes, Comments!QuoteStep, Comments!Escaped,
                LexStates, QuoteStates, Quotes
  <2>2. QED
    BY <2>1 DEF Alike
<1>4. CASE AlikeInRaw(l, q)
  <2>1. AlikeInRaw(l1, q1) \/ AlikeInCode(line, i, l1, q1)
    BY <1>4 DEF AlikeInRaw, AlikeInCode, LexByMode, LexInRaw, Comments!QuoteStep, Comments!Escaped,
                LexStates, QuoteStates, Quotes
  <2>2. QED
    BY <2>1 DEF Alike
<1>5. CASE AlikeInLong(l, q)
  <2>0. l.mode \in {"ddd", "sss"} /\ q.mode = QuoteOf(l.mode) /\ q.skip = l.skip /\ QuoteOf(l.mode) \in Quotes
        /\ q.skip \in 0..1 /\ q.mode # "code"
    BY <1>5, <1>q DEF AlikeInLong, QuoteStates, Quotes
  <2>1. CASE l.skip > 0
    <3>1. l.skip = 1
      BY <2>0, <2>1
    <3>2. l1.mode = l.mode /\ l1.skip = 0
      BY <2>0, <3>1 DEF LexByMode, LexStates
    <3>3. q1.mode = q.mode /\ q1.skip = 0
      BY <2>0, <3>1 DEF Comments!QuoteStep, QuoteStates
    <3>4. QED
      BY <2>0, <3>2, <3>3 DEF Alike, AlikeInLong
  <2>2. CASE l.skip = 0 /\ ch = "esc"
    <3>1. l1.mode = l.mode /\ l1.skip = 1
      BY <2>0, <2>2 DEF LexByMode, LexInLong, LexStates, Quotes
    <3>2. q1.mode = q.mode /\ q1.skip = 1
      BY <2>0, <2>2 DEF Comments!QuoteStep, Comments!Escaped, QuoteStates, Quotes
    <3>3. QED
      BY <2>0, <3>1, <3>2 DEF Alike, AlikeInLong
  <2>3. CASE l.skip = 0 /\ ch = QuoteOf(l.mode)
    <3>1. ch # "esc"
      BY <2>0, <2>3 DEF Quotes
    <3>2. l1 = LexInLong(lang, line, l, i)
      BY <2>0, <2>3 DEF LexByMode, Quotes
    <3>3. Tripled(lang, line, i)
      BY <2>3, <3>1, <3>2 DEF LexInLong, LexStates, Lost
    <3>4. l1.mode = "code" /\ l1.skip = 2
      BY <2>3, <3>1, <3>2, <3>3 DEF LexInLong, LexStates
    <3>5. q1.mode = "code" /\ q1.skip = 0
      BY <2>0, <2>3, <3>1 DEF Comments!QuoteStep, Comments!Escaped, QuoteStates
    <3>6. \E c \in Quotes : Next2(line, i, c)
      BY <3>3, <1>q DEF Tripled, Comments!Triple, Next2, Quotes
    <3>7. QED
      BY <3>4, <3>5, <3>6 DEF Alike, Closing2
  <2>4. CASE l.skip = 0 /\ ch # "esc" /\ ch # QuoteOf(l.mode)
    <3>1. l1 = l
      BY <2>0, <2>4 DEF LexByMode, LexInLong, Quotes
    <3>2. q1 = q
      BY <2>0, <2>4 DEF Comments!QuoteStep, Comments!Escaped, QuoteStates
    <3>3. QED
      BY <1>5, <3>1, <3>2 DEF Alike
  <2>5. QED
    BY <2>1, <2>2, <2>3, <2>4 DEF LexStates
<1>6. CASE Opening2(line, k, l, q)
  <2>1. l1.mode = l.mode /\ l1.skip = 1
    BY <1>6 DEF Opening2, LexByMode, LexStates
  <2>2. ch = q.mode /\ ch \in Quotes /\ q.skip = 0 /\ Next1(line, i, QuoteOf(l.mode))
    BY <1>6, <1>q DEF Opening2, Next1, Next2, Quotes
  <2>3. q1.mode = "code" /\ q1.skip = 0
    BY <2>2 DEF Comments!QuoteStep, Comments!Escaped, QuoteStates, Quotes
  <2>4. QED
    BY <1>6, <2>1, <2>2, <2>3 DEF Alike, Opening1, Opening2
<1>7. CASE Opening1(line, k, l, q)
  <2>1. l1.mode = l.mode /\ l1.skip = 0
    BY <1>7 DEF Opening1, LexByMode, LexStates
  <2>2. ch = QuoteOf(l.mode) /\ ch \in Quotes /\ q.skip = 0 /\ q.mode = "code"
    BY <1>7, <1>q DEF Opening1, Next1, Quotes
  <2>3. q1.mode = ch /\ q1.skip = 0
    BY <2>2 DEF Comments!QuoteStep, Comments!Escaped, QuoteStates, Quotes
  <2>4. QED
    BY <1>7, <2>1, <2>2, <2>3 DEF Alike, Opening1, AlikeInLong
<1>8. CASE Closing2(line, k, l, q)
  <2>1. l1.mode = "code" /\ l1.skip = 1
    BY <1>8 DEF Closing2, LexByMode, LexStates
  <2>2. ch \in Quotes /\ Next1(line, i, ch) /\ q.mode = "code" /\ q.skip = 0
    BY <1>8, <1>q DEF Closing2, Next1, Next2, Quotes
  <2>3. q1.mode = ch /\ q1.skip = 0
    BY <2>2 DEF Comments!QuoteStep, Comments!Escaped, QuoteStates, Quotes
  <2>4. QED
    BY <2>1, <2>2, <2>3 DEF Alike, Closing1
<1>9. CASE Closing1(line, k, l, q)
  <2>1. l1.mode = "code" /\ l1.skip = 0
    BY <1>9 DEF Closing1, LexByMode, LexStates
  <2>2. ch = q.mode /\ ch \in Quotes /\ q.skip = 0
    BY <1>9, <1>q DEF Closing1, Next1, Quotes
  <2>3. q1.mode = "code" /\ q1.skip = 0
    BY <2>2 DEF Comments!QuoteStep, Comments!Escaped, QuoteStates, Quotes
  <2>4. QED
    BY <2>1, <2>2, <2>3 DEF Alike, AlikeInCode
<1>10. CASE AlikeInBlock(l, q)
  <2>1. l1 = LexInBlock(line, l, i)
    BY <1>10 DEF AlikeInBlock, LexByMode, Quotes
  <2>2. ch \notin Comments!Delimiters
    BY <2>1 DEF LexInBlock, Lost, LexStates, Comments!Delimiters
  <2>3. l1.mode \in {"block", "code"} /\ l1.skip = 0
    BY <1>10, <2>1, <2>2 DEF AlikeInBlock, LexInBlock, LexStates
  <2>4. q1 = q
    BY <1>10, <2>2 DEF AlikeInBlock, Comments!QuoteStep, Comments!Escaped, QuoteStates, Comments!Delimiters
  <2>5. QED
    BY <1>10, <2>3, <2>4 DEF Alike, AlikeInBlock, AlikeInCode
<1>11. QED
  BY <1>0, <1>1, <1>2, <1>3, <1>4, <1>5, <1>6, <1>7, <1>8, <1>9, <1>10 DEF Alike

\* A comment begins where the sign stands in the code, and goes on to the end.
LEMMA CommentsGoOn ==
    ASSUME NEW lang, NEW line, NEW i \in Nat, NEW l \in LexStates, l.mode = "comment", l.skip = 0
    PROVE  LET l1 == Comments!Lex(lang, line, l, i)
           IN  /\ l1.mode = "comment"
               /\ l1.marked = TRUE <=> l.marked = TRUE \/ Comments!IsMark(line[i])
<1>1. Comments!Lex(lang, line, l, i) = LexInComment(line, l, i)
  BY LexIsByMode DEF LexByMode, Quotes
<1>2. QED
  BY <1>1 DEF LexInComment, LexStates

\* A comment begins at the sign of the language where the lexer is in the code.
LEMMA CommentsBegin ==
    ASSUME NEW lang \in {"Go", "Python"}, NEW line, NEW i \in Nat, NEW l \in LexStates, ~Lost(l), l.mode # "comment"
    PROVE  LET l1 == Comments!Lex(lang, line, l, i)
           IN  /\ l1.mode = "comment" <=> l.mode = "code" /\ l.skip = 0 /\ line[i] = CommentSign(lang)
               /\ l1.marked = l.marked
<1> DEFINE l1 == LexByMode(lang, line, l, i)
<1>1. CASE l.skip > 0
  BY <1>1, LexIsByMode DEF LexByMode, LexStates
<1>2. CASE l.skip = 0 /\ l.mode = "code"
  <2>1. l1 = LexInCode(lang, line, l, i)
    BY <1>2 DEF LexByMode
  <2>2. /\ LexInCode(lang, line, l, i).mode = "comment" <=> line[i] = CommentSign(lang)
        /\ LexInCode(lang, line, l, i).marked = l.marked
    BY <1>2 DEF LexInCode, Misplaced, Tripled, CommentSign, Quotes, LongOf, LexStates
  <2>3. QED
    BY <1>2, <2>1, <2>2, LexIsByMode
<1>3. CASE l.skip = 0 /\ l.mode \in Quotes
  <2>1. l1 = LexInQuotes(line, l, i)
    BY <1>3 DEF LexByMode, Quotes
  <2>2. QED
    BY <1>3, <2>1, LexIsByMode DEF LexInQuotes, Quotes, LexStates
<1>4. CASE l.skip = 0 /\ l.mode \in {"ddd", "sss"}
  <2>1. l1 = LexInLong(lang, line, l, i)
    BY <1>4 DEF LexByMode, Quotes
  <2>2. QED
    <3>1. /\ LexInLong(lang, line, l, i).mode # "comment"
          /\ LexInLong(lang, line, l, i).marked = l.marked
      BY <1>4 DEF LexInLong, LexStates
    <3>2. QED
      BY <1>4, <2>1, <3>1, LexIsByMode
<1>5. CASE l.skip = 0 /\ l.mode = "raw"
  <2>1. l1 = LexInRaw(line, l, i)
    BY <1>5 DEF LexByMode, Quotes
  <2>2. QED
    BY <1>5, <2>1, LexIsByMode DEF LexInRaw, LexStates
<1>6. CASE l.skip = 0 /\ l.mode = "block"
  <2>1. l1 = LexInBlock(line, l, i)
    BY <1>6 DEF LexByMode, Quotes
  <2>2. QED
    BY <1>6, <2>1, LexIsByMode DEF LexInBlock, LexStates
<1>7. QED
  BY <1>1, <1>2, <1>3, <1>4, <1>5, <1>6 DEF LexStates, LexModes, Lost, Quotes

\* A comment of several lines begins in Go only.
LEMMA BlocksAreOfGo ==
    ASSUME NEW lang \in {"Go", "Python"}, NEW line, NEW i \in Nat, NEW l \in LexStates, l.mode # "block",
           Comments!Lex(lang, line, l, i).mode = "block"
    PROVE  lang = "Go"
<1> DEFINE l1 == LexByMode(lang, line, l, i)
<1>1. l1.mode = "block"
  BY LexIsByMode
<1>2. LexInQuotes(line, l, i).mode # "block" /\ LexInLong(lang, line, l, i).mode # "block"
      /\ LexInRaw(line, l, i).mode # "block" /\ LexInComment(line, l, i).mode # "block"
  BY DEF LexInQuotes, LexInLong, LexInRaw, LexInComment, LexStates
<1>3. l1 = LexInCode(lang, line, l, i)
  BY <1>1, <1>2 DEF LexByMode, LexStates
<1>4. LongOf(line[i]) # "block" /\ "block" \notin Quotes
  BY DEF LongOf, Quotes
<1>5. QED
  BY <1>1, <1>3, <1>4 DEF LexInCode, LexStates

\* In such a comment the sign of a comment loses the lexer.
LEMMA SignsInBlocks ==
    ASSUME NEW line, NEW i \in Nat, NEW l \in LexStates, l.mode = "block", l.skip = 0,
           line[i] = CommentSign("Go")
    PROVE  Lost(Comments!Lex("Go", line, l, i))
<1>1. Comments!Lex("Go", line, l, i) = LexInBlock(line, l, i)
  <2>1. LexByMode("Go", line, l, i) = LexInBlock(line, l, i)
    BY DEF LexByMode, Quotes
  <2>2. QED
    BY <2>1, LexIsByMode
<1>2. QED
  BY <1>1 DEF LexInBlock, Lost, LexStates, CommentSign, Comments!Delimiters

\* At such a sign the walk is outside strings exactly when the lexer is in the code.
LEMMA SignsAlike ==
    ASSUME NEW lang \in {"Go", "Python"}, NEW line, NEW k \in Nat, k + 1 <= Len(line), Len(line) \in Nat,
           NEW l \in LexStates, NEW q \in QuoteStates, Alike(line, k, l, q),
           ~Lost(l), l.mode \notin {"comment", "block"}, line[k + 1] = CommentSign(lang)
    PROVE  q.mode = "code" <=> l.mode = "code" /\ l.skip = 0
<1>1. line[k + 1] \notin Quotes
  BY DEF CommentSign, Quotes
<1>2. \A mode \in {"ddd", "sss"} : QuoteOf(mode) \in Quotes
  BY DEF QuoteOf, Comments!Quote, Quotes
<1>3. "code" \notin Quotes /\ "tick" # "code"
  BY DEF Quotes
<1>4. QED
  BY <1>1, <1>2, <1>3 DEF Alike, AlikeInCode, AlikeInQuotes, AlikeInRaw, AlikeInBlock, AlikeInLong, Opening2,
                          Opening1, Closing2, Closing1, Next1, Next2, Quotes

\* Where the scan of one line finds the sign of a comment, first.
Starts(lang, line, quotes, p) == line[p] = CommentSign(lang) /\ quotes[p - 1].mode = "code"
NoneStarts(lang, line, quotes, k) == \A p \in 1..k : ~Starts(lang, line, quotes, p)
MarkedBetween(line, p, k) == \E j \in (p + 1)..k : Comments!IsMark(line[j])
FirstStart(lang, line, quotes, p) ==
    Starts(lang, line, quotes, p) /\ \A o \in Nat : 0 < o /\ o < p => ~Starts(lang, line, quotes, o)

\* What the scan of one line has found when the lexer is in the state l.
FoundAlike(lang, line, quotes, k, l) ==
    \/ Lost(l)
    \/ /\ Alike(line, k, l, quotes[k])
       /\ l.mode = "block" => lang = "Go"
       /\ l.mode # "comment" => l.marked = FALSE /\ NoneStarts(lang, line, quotes, k)
       /\ l.mode = "comment" =>
              \E p \in 1..k : /\ FirstStart(lang, line, quotes, p)
                              /\ l.marked = TRUE <=> MarkedBetween(line, p, k)

\* One character further, the first start of a comment is still what the lexer saw.
LEMMA FoundGoesOn ==
    ASSUME NEW lang \in {"Go", "Python"}, NEW line, Len(line) \in Nat, NEW quotes,
           NEW k \in Nat, k + 1 <= Len(line), NEW l \in LexStates,
           quotes[k] \in QuoteStates, quotes[k + 1] = Comments!QuoteStep(quotes[k], line[k + 1]),
           FoundAlike(lang, line, quotes, k, l)
    PROVE  FoundAlike(lang, line, quotes, k + 1, Comments!Lex(lang, line, l, k + 1))
<1> DEFINE i == k + 1
           l1 == Comments!Lex(lang, line, l, i)
<1> SUFFICES ASSUME ~Lost(l1)
             PROVE  FoundAlike(lang, line, quotes, i, l1)
  BY DEF FoundAlike
<1>0. i \in Nat /\ i - 1 = k
  OBVIOUS
<1>1. ~Lost(l)
  BY <1>0, LostForGood
<1>2. Alike(line, k, l, quotes[k])
  BY <1>1 DEF FoundAlike
<1>3. Alike(line, i, l1, quotes[i])
  BY <1>2, AlikeGoesOn
<1>4. l1 \in LexStates
  BY <1>0, LexStaysInItsStates
<1>5. l1.mode = "block" => lang = "Go"
  <2>1. l.mode = "block" => lang = "Go"
    BY <1>1 DEF FoundAlike
  <2>2. QED
    BY <1>0, <2>1, BlocksAreOfGo
<1>6. CASE l.mode # "comment"
  <2>1. l.marked = FALSE /\ NoneStarts(lang, line, quotes, k)
    BY <1>1, <1>6 DEF FoundAlike
  <2>2. /\ l1.mode = "comment" <=> l.mode = "code" /\ l.skip = 0 /\ line[i] = CommentSign(lang)
        /\ l1.marked = l.marked
    BY <1>0, <1>1, <1>6, CommentsBegin
  <2>3. line[i] = CommentSign(lang) => (quotes[k].mode = "code" <=> l.mode = "code" /\ l.skip = 0)
    <3>1. l.mode = "block" => l.skip = 0 /\ lang = "Go"
      BY <1>1, <1>2 DEF FoundAlike, Alike, AlikeInCode, AlikeInQuotes, AlikeInRaw, AlikeInBlock, AlikeInLong,
                        Opening2, Opening1, Closing2, Closing1, Quotes
    <3>2. l.mode = "block" => line[i] # CommentSign(lang)
      BY <1>0, <3>1, SignsInBlocks
    <3>3. QED
      BY <1>1, <1>2, <1>6, <3>2, SignsAlike
  <2>4. Starts(lang, line, quotes, i) <=> l1.mode = "comment"
    BY <1>0, <2>2, <2>3 DEF Starts
  <2> HIDE DEF l1
  <2>5. CASE l1.mode = "comment"
    <3>1. FirstStart(lang, line, quotes, i)
      <4>1. \A o \in Nat : 0 < o /\ o < i => o \in 1..k
        OBVIOUS
      <4>2. QED
        BY <2>1, <2>4, <2>5, <4>1 DEF FirstStart, NoneStarts
    <3>2. ~MarkedBetween(line, i, i)
      BY <1>0 DEF MarkedBetween
    <3>3. i \in 1..i
      BY <1>0
    <3>4. QED
      BY <1>3, <1>5, <2>1, <2>2, <2>5, <3>1, <3>2, <3>3 DEF FoundAlike
  <2>6. CASE l1.mode # "comment"
    <3>1. NoneStarts(lang, line, quotes, i)
      <4>1. \A p \in 1..i : p \in 1..k \/ p = i
        OBVIOUS
      <4>2. QED
        BY <2>1, <2>4, <2>6, <4>1 DEF NoneStarts
    <3>2. QED
      BY <1>3, <1>5, <2>1, <2>2, <2>6, <3>1 DEF FoundAlike
  <2>7. QED
    BY <2>5, <2>6
<1>7. CASE l.mode = "comment"
  <2>1. PICK p \in 1..k : /\ FirstStart(lang, line, quotes, p)
                          /\ l.marked = TRUE <=> MarkedBetween(line, p, k)
    BY <1>1, <1>7 DEF FoundAlike
  <2>2. l.skip = 0
    BY <1>1, <1>2, <1>7 DEF Alike, AlikeInCode, AlikeInQuotes, AlikeInRaw, AlikeInBlock, AlikeInLong, Opening2,
                            Opening1, Closing2, Closing1, Quotes
  <2>3. l1.mode = "comment" /\ (l1.marked = TRUE <=> l.marked = TRUE \/ Comments!IsMark(line[i]))
    BY <1>0, <1>7, <2>2, CommentsGoOn
  <2>4. MarkedBetween(line, p, i) <=> MarkedBetween(line, p, k) \/ Comments!IsMark(line[i])
    <3>1. \A j \in (p + 1)..i : j \in (p + 1)..k \/ j = i
      OBVIOUS
    <3>2. \A j \in (p + 1)..k : j \in (p + 1)..i
      OBVIOUS
    <3>3. i \in (p + 1)..i
      OBVIOUS
    <3>4. QED
      BY <3>1, <3>2, <3>3 DEF MarkedBetween
  <2>5. p \in 1..i
    OBVIOUS
  <2> HIDE DEF l1
  <2>6. QED
    BY <1>3, <1>5, <2>1, <2>3, <2>4, <2>5 DEF FoundAlike
<1>8. QED
  BY <1>6, <1>7

\* What holds after every round of a loop.
LEMMA LoopStays ==
    ASSUME NEW V, NEW n \in Nat, NEW walk, walk[0] \in V,
           \A k \in Nat : k + 1 <= n /\ walk[k] \in V => walk[k + 1] \in V
    PROVE  \A k \in 0..n : walk[k] \in V
<1> DEFINE good == {k \in Nat : k <= n => walk[k] \in V}
<1>1. 0 \in good
  OBVIOUS
<1>2. ASSUME NEW k \in Nat, k \in good
      PROVE  k + 1 \in good
  BY <1>2
<1> HIDE DEF good
<1>3. Nat \subseteq good
  BY <1>1, <1>2, EveryNumberFollows
<1>4. QED
  BY <1>3 DEF good

QuoteStart == [mode |-> "code", skip |-> 0]

\* The walk along quotes keeps the type of its states.
LEMMA QuoteStaysInItsStates ==
    ASSUME NEW ch, NEW q \in QuoteStates
    PROVE  Comments!QuoteStep(q, ch) \in QuoteStates
BY DEF QuoteStates, Comments!QuoteStep, Comments!Escaped

IsQuoteWalk(line, walk) ==
    /\ walk[0] = QuoteStart
    /\ \A k \in Nat : k + 1 <= Len(line) => walk[k + 1] = Comments!QuoteStep(walk[k], line[k + 1])
    /\ \A k \in 0..Len(line) : walk[k] \in QuoteStates

\* QuoteWalk is a walk: it begins in the code and goes on by QuoteStep.
LEMMA QuotesAreWalked ==
    ASSUME NEW line, Len(line) \in Nat
    PROVE  IsQuoteWalk(line, Comments!QuoteWalk(line))
<1> DEFINE n == Len(line)
           Rounds(walk) == walk = [i \in 0..n |-> IF i = 0 THEN [mode |-> "code", skip |-> 0]
                                                  ELSE Comments!QuoteStep(walk[i - 1], line[i])]
           next == [i \in 1..n |-> [q \in QuoteStates |-> Comments!QuoteStep(q, line[i])]]
           walk == CHOOSE walk : Rounds(walk)
<1>1. QuoteStart \in QuoteStates /\ n \in Nat
  BY DEF QuoteStart, QuoteStates
<1>2. next \in [1..n -> [QuoteStates -> QuoteStates]]
  BY QuoteStaysInItsStates
<1>3. \A i \in 1..n : \A q \in QuoteStates : next[i][q] = Comments!QuoteStep(q, line[i])
  OBVIOUS
<1> HIDE DEF next, n
<1>4. PICK loop \in [0..n -> QuoteStates] : IsLoop(loop, QuoteStart, n, next)
  BY <1>1, <1>2, LoopExists
<1>5. Rounds(loop)
  <2>1. \A i \in 0..n : i # 0 => i \in 1..n /\ loop[i - 1] \in QuoteStates
    BY <1>1
  <2>2. \A i \in 0..n : i # 0 => next[i][loop[i - 1]] = Comments!QuoteStep(loop[i - 1], line[i])
    BY <1>3, <2>1
  <2>3. QED
    BY <1>4, <2>2 DEF IsLoop, QuoteStart
<1>6. Rounds(walk)
  BY <1>5
<1>7. Comments!QuoteWalk(line) = walk
  BY Zenon DEF Comments!QuoteWalk, n
<1> HIDE DEF walk
<1>8. walk[0] = QuoteStart
  BY <1>1, <1>6 DEF QuoteStart
<1>9. ASSUME NEW k \in Nat, k + 1 <= n
      PROVE  walk[k + 1] = Comments!QuoteStep(walk[k], line[k + 1])
  <2> DEFINE i == k + 1
  <2>1. i \in 0..n /\ i # 0 /\ i - 1 = k
    BY <1>1, <1>9
  <2> HIDE DEF i
  <2>2. walk[i] = Comments!QuoteStep(walk[k], line[i])
    BY <1>6, <2>1
  <2>3. QED
    BY <2>2 DEF i
<1>10. \A k \in 0..n : walk[k] \in QuoteStates
  <2>1. \A k \in Nat : k + 1 <= n /\ walk[k] \in QuoteStates => walk[k + 1] \in QuoteStates
    BY <1>9, QuoteStaysInItsStates
  <2>2. QED
    BY <1>1, <1>8, <2>1, LoopStays
<1>11. QED
  BY <1>7, <1>8, <1>9, <1>10 DEF IsQuoteWalk, n

\* The lexer of the whole source and the scan for strings of several lines are
\* walks along a line too.
ScanModes == {"code", "comment", "dq", "sq", "raw", "ddd", "sss"}
ScanStates == [mode : ScanModes, skip : 0..2, closed : Nat]

\* Changes that keep the type of the states of the scan.
LEMMA ScanStatesChange ==
    ASSUME NEW w \in ScanStates, NEW mode \in ScanModes, NEW skip \in 0..2, NEW closed \in Nat
    PROVE  /\ [w EXCEPT !.skip = skip] \in ScanStates
           /\ [w EXCEPT !.mode = mode] \in ScanStates
           /\ [w EXCEPT !.mode = mode, !.closed = closed] \in ScanStates
           /\ [[w EXCEPT !.mode = mode, !.closed = closed] EXCEPT !.skip = skip] \in ScanStates
BY DEF ScanStates, ScanModes

ClosedAt(w, i, mode) ==
    IF w.closed = 0 /\ w.mode \in {"raw", "ddd", "sss"} /\ mode = "code" THEN i ELSE w.closed

\* Where a walk notes the end of an open string.
LEMMA WalkCloses ==
    ASSUME NEW w \in ScanStates, NEW i \in Nat, NEW mode \in ScanModes
    PROVE  /\ Comments!Walk(w, i, mode) = [w EXCEPT !.mode = mode, !.closed = ClosedAt(w, i, mode)]
           /\ ClosedAt(w, i, mode) \in Nat
BY DEF Comments!Walk, ClosedAt, ScanStates

\* The scan for open strings keeps the type of its states.
LEMMA ScanStaysInItsStates ==
    ASSUME NEW lang, NEW line, NEW i \in Nat, NEW w \in ScanStates
    PROVE  Comments!StepMultiline(line, lang, w, i) \in ScanStates
<1>0. w.mode \in ScanModes /\ w.skip \in 0..2 /\ w.closed \in Nat /\ "code" \in ScanModes /\ 0 \in 0..2
  BY DEF ScanStates, ScanModes
<1>1. w.skip > 0 => [w EXCEPT !.skip = w.skip - 1] \in ScanStates
  <2>1. w.skip > 0 => w.skip - 1 \in 0..2
    BY <1>0
  <2>2. QED
    BY <1>0, <2>1, ScanStatesChange, Zenon
<1>2. [w EXCEPT !.skip = 1] \in ScanStates
  <2>1. 1 \in 0..2
    OBVIOUS
  <2>2. QED
    BY <1>0, <2>1, ScanStatesChange, Zenon
<1>3. ASSUME NEW mode \in ScanModes, NEW j \in Nat
      PROVE  /\ Comments!Walk(w, j, mode) \in ScanStates
             /\ [Comments!Walk(w, j, mode) EXCEPT !.skip = 2] \in ScanStates
  <2>1. /\ Comments!Walk(w, j, mode) = [w EXCEPT !.mode = mode, !.closed = ClosedAt(w, j, mode)]
        /\ ClosedAt(w, j, mode) \in Nat
    BY WalkCloses
  <2>2. PICK closed \in Nat : closed = ClosedAt(w, j, mode)
    BY <2>1
  <2>3. 2 \in 0..2
    OBVIOUS
  <2>4. /\ [w EXCEPT !.mode = mode, !.closed = closed] \in ScanStates
        /\ [[w EXCEPT !.mode = mode, !.closed = closed] EXCEPT !.skip = 2] \in ScanStates
    BY <2>3, ScanStatesChange, Zenon
  <2>5. QED
    BY <2>1, <2>2, <2>4, Zenon
<1>4. \A ch : Comments!BacktickMode(w.mode, ch) \in ScanModes
  BY <1>0 DEF Comments!BacktickMode, ScanModes
<1>5. Comments!StepBacktick(line, w, i) \in ScanStates
  BY <1>1, <1>2, <1>3, <1>4 DEF Comments!StepBacktick
<1>6. Comments!StepTripleQuote(line, w, i) \in ScanStates
  <2> DEFINE delimiter(mode, ch) == w.mode \in {"code", mode} /\ Comments!Triple(line, i, ch)
             toggled(mode) == IF w.mode = "code" THEN mode ELSE "code"
  <2>1. toggled("ddd") \in ScanModes /\ toggled("sss") \in ScanModes /\ i + 2 \in Nat
    BY DEF ScanModes
  <2>2. /\ [Comments!Walk(w, i + 2, toggled("ddd")) EXCEPT !.skip = 2] \in ScanStates
        /\ [Comments!Walk(w, i + 2, toggled("sss")) EXCEPT !.skip = 2] \in ScanStates
    BY <1>3, <2>1
  <2>3. line[i] \in {"dq", "sq"} =>
            [w EXCEPT !.mode = IF w.mode = "code" THEN line[i] ELSE IF w.mode = line[i] THEN "code" ELSE w.mode]
                \in ScanStates
    <3> DEFINE mode == IF w.mode = "code" THEN line[i] ELSE IF w.mode = line[i] THEN "code" ELSE w.mode
    <3>1. line[i] \in {"dq", "sq"} => mode \in ScanModes
      BY <1>0 DEF ScanModes
    <3> HIDE DEF mode
    <3>2. line[i] \in {"dq", "sq"} => [w EXCEPT !.mode = mode] \in ScanStates
      BY <1>0, <3>1, ScanStatesChange, Zenon
    <3>3. QED
      BY <3>2 DEF mode
  <2>4. [w EXCEPT !.mode = "comment"] \in ScanStates
    <3>1. "comment" \in ScanModes
      BY DEF ScanModes
    <3>2. QED
      BY <1>0, <3>1, ScanStatesChange, Zenon
  <2>5. QED
    BY <1>1, <1>2, <2>2, <2>3, <2>4, Zenon DEF Comments!StepTripleQuote
<1>7. QED
  BY <1>5, <1>6 DEF Comments!StepMultiline

LexStart(mode) == [mode |-> mode, skip |-> 0, marked |-> FALSE, inner |-> FALSE]

IsLexWalk(lang, line, mode, walk) ==
    /\ walk[0] = LexStart(mode)
    /\ \A k \in Nat : k + 1 <= Len(line) => walk[k + 1] = Comments!Lex(lang, line, walk[k], k + 1)
    /\ \A k \in 0..Len(line) : walk[k] \in LexStates

\* LexWalk is a walk of the lexer along the line.
LEMMA LinesAreLexed ==
    ASSUME NEW lang, NEW line, Len(line) \in Nat, NEW mode \in LexModes
    PROVE  IsLexWalk(lang, line, mode, Comments!LexWalk(lang, line, mode))
<1> DEFINE n == Len(line)
           Rounds(walk) == walk = [i \in 0..n |->
                    IF i = 0 THEN [mode |-> mode, skip |-> 0, marked |-> FALSE, inner |-> FALSE]
                                                  ELSE Comments!Lex(lang, line, walk[i - 1], i)]
           next == [i \in 1..n |-> [q \in LexStates |-> Comments!Lex(lang, line, q, i)]]
           walk == CHOOSE walk : Rounds(walk)
<1>1. LexStart(mode) \in LexStates /\ n \in Nat
  BY DEF LexStart, LexStates
<1>2. next \in [1..n -> [LexStates -> LexStates]]
  BY LexStaysInItsStates
<1>3. \A i \in 1..n : \A q \in LexStates : next[i][q] = Comments!Lex(lang, line, q, i)
  OBVIOUS
<1> HIDE DEF next, n
<1>4. PICK loop \in [0..n -> LexStates] : IsLoop(loop, LexStart(mode), n, next)
  BY <1>1, <1>2, LoopExists
<1>5. Rounds(loop)
  <2>1. \A i \in 0..n : i # 0 => i \in 1..n /\ loop[i - 1] \in LexStates
    BY <1>1
  <2>2. \A i \in 0..n : i # 0 => next[i][loop[i - 1]] = Comments!Lex(lang, line, loop[i - 1], i)
    BY <1>3, <2>1
  <2>3. QED
    BY <1>4, <2>2 DEF IsLoop, LexStart
<1>6. Rounds(walk)
  BY <1>5
<1>7. Comments!LexWalk(lang, line, mode) = walk
  BY Zenon DEF Comments!LexWalk, n
<1> HIDE DEF walk
<1>8. walk[0] = LexStart(mode)
  BY <1>1, <1>6 DEF LexStart
<1>9. ASSUME NEW k \in Nat, k + 1 <= n
      PROVE  walk[k + 1] = Comments!Lex(lang, line, walk[k], k + 1)
  <2> DEFINE i == k + 1
  <2>1. i \in 0..n /\ i # 0 /\ i - 1 = k
    BY <1>1, <1>9
  <2> HIDE DEF i
  <2>2. walk[i] = Comments!Lex(lang, line, walk[k], i)
    BY <1>6, <2>1
  <2>3. QED
    BY <2>2 DEF i
<1>10. \A k \in 0..n : walk[k] \in LexStates
  <2>1. \A k \in Nat : k + 1 <= n /\ walk[k] \in LexStates => walk[k + 1] \in LexStates
    BY <1>9, LexStaysInItsStates
  <2>2. QED
    BY <1>1, <1>8, <2>1, LoopStays
<1>11. QED
  BY <1>7, <1>8, <1>9, <1>10 DEF IsLexWalk, n

ScanStart(mode) == [mode |-> mode, skip |-> 0, closed |-> 0]

IsScanWalk(lang, line, mode, walk) ==
    /\ walk[0] = ScanStart(mode)
    /\ \A k \in Nat : k + 1 <= Len(line) => walk[k + 1] = Comments!StepMultiline(line, lang, walk[k], k + 1)
    /\ \A k \in 0..Len(line) : walk[k] \in ScanStates

\* MultilineWalk is a walk of the scan along the line.
LEMMA LinesAreScanned ==
    ASSUME NEW lang, NEW line, Len(line) \in Nat, NEW mode \in ScanModes
    PROVE  IsScanWalk(lang, line, mode, Comments!MultilineWalk(line, lang, mode))
<1> DEFINE n == Len(line)
           Rounds(walk) == walk = [i \in 0..n |-> IF i = 0 THEN [mode |-> mode, skip |-> 0, closed |-> 0]
                                                  ELSE Comments!StepMultiline(line, lang, walk[i - 1], i)]
           next == [i \in 1..n |-> [q \in ScanStates |-> Comments!StepMultiline(line, lang, q, i)]]
           walk == CHOOSE walk : Rounds(walk)
<1>1. ScanStart(mode) \in ScanStates /\ n \in Nat
  BY DEF ScanStart, ScanStates
<1>2. next \in [1..n -> [ScanStates -> ScanStates]]
  BY ScanStaysInItsStates
<1>3. \A i \in 1..n : \A q \in ScanStates : next[i][q] = Comments!StepMultiline(line, lang, q, i)
  OBVIOUS
<1> HIDE DEF next, n
<1>4. PICK loop \in [0..n -> ScanStates] : IsLoop(loop, ScanStart(mode), n, next)
  BY <1>1, <1>2, LoopExists
<1>5. Rounds(loop)
  <2>1. \A i \in 0..n : i # 0 => i \in 1..n /\ loop[i - 1] \in ScanStates
    BY <1>1
  <2>2. \A i \in 0..n : i # 0 => next[i][loop[i - 1]] = Comments!StepMultiline(line, lang, loop[i - 1], i)
    BY <1>3, <2>1
  <2>3. QED
    BY <1>4, <2>2 DEF IsLoop, ScanStart
<1>6. Rounds(walk)
  BY <1>5
<1>7. Comments!MultilineWalk(line, lang, mode) = walk
  BY Zenon DEF Comments!MultilineWalk, n
<1> HIDE DEF walk
<1>8. walk[0] = ScanStart(mode)
  BY <1>1, <1>6 DEF ScanStart
<1>9. ASSUME NEW k \in Nat, k + 1 <= n
      PROVE  walk[k + 1] = Comments!StepMultiline(line, lang, walk[k], k + 1)
  <2> DEFINE i == k + 1
  <2>1. i \in 0..n /\ i # 0 /\ i - 1 = k
    BY <1>1, <1>9
  <2> HIDE DEF i
  <2>2. walk[i] = Comments!StepMultiline(line, lang, walk[k], i)
    BY <1>6, <2>1
  <2>3. QED
    BY <2>2 DEF i
<1>10. \A k \in 0..n : walk[k] \in ScanStates
  <2>1. \A k \in Nat : k + 1 <= n /\ walk[k] \in ScanStates => walk[k + 1] \in ScanStates
    BY <1>9, ScanStaysInItsStates
  <2>2. QED
    BY <1>1, <1>8, <2>1, LoopStays
<1>11. QED
  BY <1>7, <1>8, <1>9, <1>10 DEF IsScanWalk, n

\* The scan for strings of several lines beside the lexer.  It does not know
\* that a backslash escapes in a string in three quotes; that matters only
\* where it hides such a quote.
Foreign(lang) == IF lang = "Go" THEN {"ddd", "sss"} ELSE {"raw", "block"}

\* The mode of the scan in a mode of the lexer: it knows no comments of several lines.
ScanModeOf(mode) == IF mode = "block" THEN "code" ELSE mode

Follows(lang, line, k, l, w) ==
    \/ Lost(l)
    \/ /\ l.mode \notin Foreign(lang)
       /\ w.mode = ScanModeOf(l.mode)
       /\ \/ k = Len(line)
          \/ w.skip = l.skip
          \/ l.mode \in {"ddd", "sss"} /\ l.skip = 1 /\ w.skip = 0 /\ line[k + 1] # QuoteOf(l.mode)

\* Where a string that was open before the line is closed.
Closes(line, mode, k, l, w) ==
    \/ Lost(l)
    \/ w.closed = 0 /\ l.mode = mode /\ l.marked = FALSE
    \/ /\ 0 < w.closed /\ k <= w.closed /\ w.closed <= Len(line)
       /\ l.mode = "code" /\ l.skip = w.closed - k /\ l.marked = FALSE
    \/ 0 < w.closed /\ w.closed < k

\* In Go the scan follows the lexer over one character.
LEMMA FollowsInGo ==
    ASSUME NEW line, Len(line) \in Nat, NEW k \in Nat, k + 1 <= Len(line),
           NEW l \in LexStates, NEW w \in ScanStates, Follows("Go", line, k, l, w)
    PROVE  Follows("Go", line, k + 1, Comments!Lex("Go", line, l, k + 1), Comments!StepBacktick(line, w, k + 1))
<1> DEFINE i == k + 1
           ch == line[i]
           l1 == LexByMode("Go", line, l, i)
           w1 == Comments!StepBacktick(line, w, i)
<1> SUFFICES ASSUME ~Lost(l1)
             PROVE  Follows("Go", line, i, l1, w1)
  BY LexIsByMode DEF Follows
<1>0. ~Lost(l)
  BY LostForGood, LexIsByMode
<1>1. /\ l.mode \notin {"ddd", "sss", "malformed"} /\ w.mode = ScanModeOf(l.mode) /\ w.skip = l.skip
      /\ l.mode \in LexModes
  BY <1>0 DEF Follows, Foreign, Lost, LexStates
<1>2. CASE l.skip > 0
  <2>1. l1.mode = l.mode /\ l1.skip = l.skip - 1
    BY <1>2 DEF LexByMode, LexStates
  <2>2. w1.mode = w.mode /\ w1.skip = w.skip - 1
    BY <1>1, <1>2 DEF Comments!StepBacktick, ScanStates
  <2>3. QED
    BY <1>1, <2>1, <2>2 DEF Follows, Foreign, ScanModeOf
<1>3. CASE l.skip = 0
  <2>0. l.skip = 0 /\ w.skip = 0 /\ ~ (l.skip > 0) /\ ~ (w.skip > 0)
    BY <1>1, <1>3
  <2>w. \A mode : /\ Comments!Walk(w, i, mode).mode = mode
                  /\ Comments!Walk(w, i, mode).skip = 0
    BY <2>0 DEF Comments!Walk, ScanStates
  <2>s. l.mode # "block" => w.mode = l.mode
    BY <1>1 DEF ScanModeOf
  <2>1. CASE l.mode = "code"
    <3>1. l1 = LexInCode("Go", line, l, i) /\ ~Tripled("Go", line, i)
      BY <2>0, <2>1 DEF LexByMode, Tripled
    <3>2. CASE Misplaced("Go", line, i)
      BY <3>1, <3>2 DEF LexInCode, Lost, LexStates
    <3>3. CASE ~Misplaced("Go", line, i) /\ ch = "esc"
      <4>1. i = Len(line)
        BY <3>3 DEF Misplaced
      <4>2. l1 = l
        BY <3>1, <3>3 DEF LexInCode, Quotes, CommentSign
      <4>3. w1.mode = "code"
        BY <2>s, <2>0, <2>1, <3>3 DEF Comments!StepBacktick, Comments!Escaped, ScanStates
      <4>4. QED
        BY <2>1, <4>1, <4>2, <4>3 DEF Follows, Foreign, ScanModeOf
    <3>4. CASE ~Misplaced("Go", line, i) /\ ch # "esc"
      <4>1. w1 = Comments!Walk(w, i, Comments!BacktickMode("code", ch))
        BY <2>s, <2>0, <2>1, <3>4 DEF Comments!StepBacktick, Comments!Escaped
      <4>2. w1.mode = Comments!BacktickMode("code", ch) /\ w1.skip = 0
        BY <2>w, <4>1
      <4>3. ScanModeOf(l1.mode) = Comments!BacktickMode("code", ch) /\ l1.skip = 0
        BY <2>0, <2>1, <3>1, <3>4 DEF LexInCode, LexStates, Quotes, CommentSign, Comments!BacktickMode, ScanModeOf
      <4>4. l1.mode \notin {"ddd", "sss"}
        BY <2>1, <3>1, <3>4 DEF LexInCode, LexStates, Quotes, CommentSign
      <4>5. QED
        BY <4>2, <4>3, <4>4 DEF Follows, Foreign, ScanModeOf
    <3>5. QED
      BY <3>2, <3>3, <3>4
  <2>2. CASE l.mode \in Quotes
    <3>1. l1 = LexInQuotes(line, l, i)
      BY <2>0, <2>2 DEF LexByMode, Quotes
    <3>2. CASE ch = "esc"
      <4>1. w1.mode = l.mode /\ w1.skip = 1
        BY <2>s, <2>0, <2>2, <3>2 DEF Comments!StepBacktick, Comments!Escaped, ScanStates, Quotes
      <4>2. l1.mode = l.mode /\ l1.skip = 1
        BY <3>1, <3>2 DEF LexInQuotes, LexStates
      <4>3. QED
        BY <1>1, <2>2, <4>1, <4>2 DEF Quotes, Follows, Foreign, ScanModeOf
    <3>3. CASE ch # "esc"
      <4>1. w1 = Comments!Walk(w, i, Comments!BacktickMode(l.mode, ch))
        BY <2>s, <2>0, <2>2, <3>3 DEF Comments!StepBacktick, Comments!Escaped, Quotes
      <4>2. w1.mode = Comments!BacktickMode(l.mode, ch) /\ w1.skip = 0
        BY <2>w, <4>1
      <4>3. l1.mode = Comments!BacktickMode(l.mode, ch) /\ l1.skip = 0 /\ l1.mode \in {"code", "dq", "sq"}
        BY <2>0, <2>2, <3>1, <3>3 DEF LexInQuotes, LexStates, Quotes, Comments!BacktickMode
      <4>4. QED
        BY <4>2, <4>3 DEF Follows, Foreign, ScanModeOf
    <3>4. QED
      BY <3>2, <3>3
  <2>3. CASE l.mode \in {"raw", "comment"}
    <3>1. w1 = Comments!Walk(w, i, Comments!BacktickMode(l.mode, ch))
      BY <2>s, <2>0, <2>3 DEF Comments!StepBacktick, Comments!Escaped
    <3>2. w1.mode = Comments!BacktickMode(l.mode, ch) /\ w1.skip = 0
      BY <2>w, <3>1
    <3>3. l1.mode = Comments!BacktickMode(l.mode, ch) /\ l1.skip = 0 /\ l1.mode \in {"code", "raw", "comment"}
      BY <2>0, <2>3 DEF LexByMode, LexInRaw, LexInComment, LexStates, Quotes, Comments!BacktickMode
    <3>4. QED
      BY <3>2, <3>3 DEF Follows, Foreign, ScanModeOf
  <2>4. CASE l.mode = "block"
    <3>1. l1 = LexInBlock(line, l, i)
      BY <2>0, <2>4 DEF LexByMode, Quotes
    <3>2. ch \notin Comments!Delimiters
      BY <3>1 DEF LexInBlock, Lost, LexStates, Comments!Delimiters
    <3>3. l1.mode \in {"block", "code"} /\ l1.skip = 0
      BY <2>0, <2>4, <3>1, <3>2 DEF LexInBlock, LexStates
    <3>4. w.mode = "code" /\ ch # "esc"
      BY <1>1, <2>4, <3>2 DEF ScanModeOf, Comments!Delimiters
    <3>5. w1 = Comments!Walk(w, i, Comments!BacktickMode("code", ch))
      BY <2>0, <3>4 DEF Comments!StepBacktick, Comments!Escaped
    <3>6. Comments!BacktickMode("code", ch) = "code"
      BY <3>2 DEF Comments!BacktickMode, Comments!Delimiters
    <3>7. w1.mode = "code" /\ w1.skip = 0
      BY <2>w, <3>5, <3>6
    <3>8. QED
      BY <3>3, <3>7 DEF Follows, Foreign, ScanModeOf
  <2>5. QED
    BY <1>1, <2>1, <2>2, <2>3, <2>4 DEF LexModes, Quotes
<1>4. QED
  BY <1>2, <1>3 DEF LexStates

\* In Python the scan follows the lexer over one character.
LEMMA FollowsInPython ==
    ASSUME NEW line, Len(line) \in Nat, NEW k \in Nat, k + 1 <= Len(line),
           NEW l \in LexStates, NEW w \in ScanStates, Follows("Python", line, k, l, w)
    PROVE  Follows("Python", line, k + 1, Comments!Lex("Python", line, l, k + 1),
                   Comments!StepTripleQuote(line, w, k + 1))
<1> DEFINE i == k + 1
           ch == line[i]
           l1 == LexByMode("Python", line, l, i)
           w1 == Comments!StepTripleQuote(line, w, i)
<1> SUFFICES ASSUME ~Lost(l1)
             PROVE  Follows("Python", line, i, l1, w1)
  BY LexIsByMode DEF Follows
<1>0. ~Lost(l)
  BY LostForGood, LexIsByMode
<1>1. /\ l.mode \notin {"raw", "block", "malformed"} /\ w.mode = l.mode /\ l.mode \in LexModes
      /\ \/ w.skip = l.skip
         \/ l.mode \in {"ddd", "sss"} /\ l.skip = 1 /\ w.skip = 0 /\ ch # QuoteOf(l.mode)
  BY <1>0 DEF Follows, Foreign, ScanModeOf, Lost, LexStates
<1>q. QuoteOf("ddd") = "dq" /\ QuoteOf("sss") = "sq" /\ i \in Nat
  BY DEF QuoteOf, Comments!Quote
<1>t. \A c : Comments!Triple(line, i, c) => ch = c
  BY <1>q DEF Comments!Triple
<1>w. \A mode : /\ [Comments!Walk(w, i + 2, mode) EXCEPT !.skip = 2].mode = mode
                /\ [Comments!Walk(w, i + 2, mode) EXCEPT !.skip = 2].skip = 2
  BY DEF Comments!Walk, ScanStates
<1>2. CASE l.skip > 0 /\ w.skip = l.skip
  <2>1. l1.mode = l.mode /\ l1.skip = l.skip - 1
    BY <1>2 DEF LexByMode, LexStates
  <2>2. w1.mode = w.mode /\ w1.skip = w.skip - 1
    BY <1>1, <1>2 DEF Comments!StepTripleQuote, ScanStates
  <2>3. QED
    BY <1>1, <1>2, <2>1, <2>2 DEF Follows, Foreign, ScanModeOf
<1>3. CASE l.mode \in {"ddd", "sss"} /\ l.skip = 1 /\ w.skip = 0 /\ ch # QuoteOf(l.mode)
  <2>1. l1.mode = l.mode /\ l1.skip = 0
    BY <1>3 DEF LexByMode, LexStates
  <2>2. w1 = w
    BY <1>1, <1>3, <1>q, <1>t DEF Comments!StepTripleQuote, Comments!Escaped
  <2>3. QED
    BY <1>1, <1>3, <2>1, <2>2 DEF Follows, Foreign, ScanModeOf
<1>4. CASE l.skip = 0 /\ w.skip = 0
  <2>0. l.skip = 0 /\ w.skip = 0 /\ ~ (l.skip > 0) /\ ~ (w.skip > 0)
    BY <1>4
  <2>1. CASE l.mode = "code"
    <3>1. l1 = LexInCode("Python", line, l, i)
      BY <2>0, <2>1 DEF LexByMode
    <3>2. CASE Misplaced("Python", line, i)
      BY <3>1, <3>2 DEF LexInCode, Lost, LexStates
    <3>3. CASE ~Misplaced("Python", line, i) /\ ch = "esc"
      <4>1. i = Len(line)
        BY <3>3 DEF Misplaced
      <4>2. l1 = l
        BY <3>1, <3>3 DEF LexInCode, Tripled, Quotes, CommentSign
      <4>3. w1.mode = "code"
        BY <1>1, <2>0, <2>1, <3>3 DEF Comments!StepTripleQuote, Comments!Escaped, ScanStates
      <4>4. QED
        BY <2>1, <4>1, <4>2, <4>3 DEF Follows, Foreign, ScanModeOf
    <3>4. CASE ~Misplaced("Python", line, i) /\ Tripled("Python", line, i)
      <4>1. ch \in Quotes /\ Comments!Triple(line, i, ch) /\ ch # "esc"
        BY <3>4 DEF Tripled, Quotes
      <4>2. l1.mode = LongOf(ch) /\ l1.skip = 2
        BY <3>1, <3>4 DEF LexInCode, LexStates
      <4>3. w1 = [Comments!Walk(w, i + 2, LongOf(ch)) EXCEPT !.skip = 2]
        <5>1. CASE ch = "dq"
          BY <1>1, <2>0, <2>1, <4>1, <5>1 DEF Comments!StepTripleQuote, Comments!Escaped, LongOf
        <5>2. CASE ch = "sq"
          <6>1. ~Comments!Triple(line, i, "dq")
            BY <1>t, <5>2
          <6>2. QED
            BY <1>1, <2>0, <2>1, <4>1, <5>2, <6>1 DEF Comments!StepTripleQuote, Comments!Escaped, LongOf
        <5>3. QED
          BY <4>1, <5>1, <5>2 DEF Quotes
      <4>4. w1.mode = LongOf(ch) /\ w1.skip = 2
        BY <1>w, <4>3, Zenon
      <4>5. QED
        BY <4>2, <4>4 DEF Follows, Foreign, ScanModeOf, LongOf
    <3>5. CASE ~Misplaced("Python", line, i) /\ ~Tripled("Python", line, i) /\ ch \in Quotes
      <4>1. ~Comments!Triple(line, i, "dq") /\ ~Comments!Triple(line, i, "sq") /\ ch # "esc"
        BY <1>t, <3>5 DEF Tripled, Quotes
      <4>2. l1.mode = ch /\ l1.skip = 0
        BY <2>0, <3>1, <3>5 DEF LexInCode, LexStates
      <4>3. w1.mode = ch /\ w1.skip = 0
        BY <1>1, <2>0, <2>1, <3>5, <4>1 DEF Comments!StepTripleQuote, Comments!Escaped, ScanStates, Quotes
      <4>4. QED
        BY <3>5, <4>2, <4>3 DEF Follows, Foreign, ScanModeOf, Quotes
    <3>6. CASE ~Misplaced("Python", line, i) /\ ch \notin Quotes /\ ch # "esc"
      <4>1. ~Comments!Triple(line, i, "dq") /\ ~Comments!Triple(line, i, "sq") /\ ~Tripled("Python", line, i)
        BY <1>t, <3>6 DEF Tripled, Quotes
      <4>2. l1.mode = (IF ch = "hash" THEN "comment" ELSE "code") /\ l1.skip = 0
        BY <2>0, <2>1, <3>1, <3>6, <4>1 DEF LexInCode, LexStates, CommentSign
      <4>3. w1.mode = (IF ch = "hash" THEN "comment" ELSE "code") /\ w1.skip = 0
        BY <1>1, <2>0, <2>1, <3>6, <4>1 DEF Comments!StepTripleQuote, Comments!Escaped, ScanStates, Quotes
      <4>4. QED
        BY <4>2, <4>3 DEF Follows, Foreign, ScanModeOf
    <3>7. QED
      BY <3>2, <3>3, <3>4, <3>5, <3>6
  <2>2. CASE l.mode \in Quotes
    <3>1. l1 = LexInQuotes(line, l, i)
      BY <2>0, <2>2 DEF LexByMode, Quotes
    <3>2. CASE ch = "esc"
      <4>1. w1.mode = l.mode /\ w1.skip = 1
        BY <1>1, <2>0, <2>2, <3>2 DEF Comments!StepTripleQuote, Comments!Escaped, ScanStates, Quotes
      <4>2. l1.mode = l.mode /\ l1.skip = 1
        BY <3>1, <3>2 DEF LexInQuotes, LexStates
      <4>3. QED
        BY <1>1, <4>1, <4>2 DEF Follows, Foreign, ScanModeOf
    <3>3. CASE ch # "esc"
      <4>1. w1.mode = (IF ch = l.mode THEN "code" ELSE l.mode) /\ w1.skip = 0
        BY <1>1, <2>0, <2>2, <3>3 DEF Comments!StepTripleQuote, Comments!Escaped, ScanStates, Quotes
      <4>2. l1.mode = (IF ch = l.mode THEN "code" ELSE l.mode) /\ l1.skip = 0
        BY <2>0, <3>1, <3>3 DEF LexInQuotes, LexStates
      <4>3. QED
        BY <1>1, <4>1, <4>2 DEF Follows, Foreign, ScanModeOf
    <3>4. QED
      BY <3>2, <3>3
  <2>3. CASE l.mode \in {"ddd", "sss"}
    <3>1. l1 = LexInLong("Python", line, l, i) /\ QuoteOf(l.mode) \in Quotes
      BY <1>q, <2>0, <2>3 DEF LexByMode, Quotes
    <3>2. CASE ch = "esc"
      <4>1. w1 = w
        <5>1. ~Comments!Triple(line, i, "dq") /\ ~Comments!Triple(line, i, "sq")
          BY <1>t, <3>2
        <5>2. QED
          BY <1>1, <2>0, <2>3, <3>2, <5>1 DEF Comments!StepTripleQuote, Comments!Escaped
      <4>2. ~Comments!HidesQuote(line, i, l.mode)
        BY <3>1, <3>2 DEF LexInLong, Lost, LexStates
      <4>3. l1.mode = l.mode /\ l1.skip = 1
        BY <3>1, <3>2, <4>2 DEF LexInLong, LexStates
      <4>4. i = Len(line) \/ line[i + 1] # QuoteOf(l.mode)
        BY <4>2 DEF Comments!HidesQuote, QuoteOf
      <4>5. QED
        BY <1>1, <2>0, <2>3, <4>1, <4>3, <4>4 DEF Follows, Foreign, ScanModeOf
    <3>3. CASE ch = QuoteOf(l.mode)
      <4>0. ch # "esc" /\ ch \in Quotes
        BY <3>1, <3>3 DEF Quotes
      <4>1. Tripled("Python", line, i)
        BY <3>1, <3>3, <4>0 DEF LexInLong, Lost, LexStates
      <4>2. l1.mode = "code" /\ l1.skip = 2
        BY <3>1, <3>3, <4>0, <4>1 DEF LexInLong, LexStates
      <4>3. w1 = [Comments!Walk(w, i + 2, "code") EXCEPT !.skip = 2]
        <5>1. Comments!Triple(line, i, ch)
          BY <4>1 DEF Tripled
        <5>2. CASE l.mode = "ddd"
          BY <1>1, <1>q, <2>0, <3>3, <4>0, <5>1, <5>2 DEF Comments!StepTripleQuote, Comments!Escaped
        <5>3. CASE l.mode = "sss"
          BY <1>1, <1>q, <2>0, <3>3, <4>0, <5>1, <5>3 DEF Comments!StepTripleQuote, Comments!Escaped
        <5>4. QED
          BY <2>3, <5>2, <5>3
      <4>4. w1.mode = "code" /\ w1.skip = 2
        BY <1>w, <4>3, Zenon
      <4>5. QED
        BY <4>2, <4>4 DEF Follows, Foreign, ScanModeOf
    <3>4. CASE ch # "esc" /\ ch # QuoteOf(l.mode)
      <4>1. l1 = l
        BY <3>1, <3>4 DEF LexInLong
      <4>2. w1 = w
        BY <1>1, <1>q, <1>t, <2>0, <2>3, <3>4 DEF Comments!StepTripleQuote, Comments!Escaped
      <4>3. QED
        BY <1>1, <2>0, <4>1, <4>2 DEF Follows, Foreign, ScanModeOf
    <3>5. QED
      BY <3>2, <3>3, <3>4
  <2>4. CASE l.mode = "comment"
    <3>1. l1.mode = "comment" /\ l1.skip = 0
      BY <2>0, <2>4 DEF LexByMode, LexInComment, LexStates, Quotes
    <3>2. w1 = w
      BY <1>1, <2>0, <2>4 DEF Comments!StepTripleQuote, Comments!Escaped
    <3>3. QED
      BY <1>1, <2>0, <2>4, <3>1, <3>2 DEF Follows, Foreign, ScanModeOf
  <2>5. QED
    BY <1>1, <2>1, <2>2, <2>3, <2>4 DEF LexModes, Quotes
<1>5. QED
  BY <1>1, <1>2, <1>3, <1>4 DEF LexStates

\* What was closed once stays closed there.
LEMMA ClosedStays ==
    ASSUME NEW lang, NEW line, NEW i \in Nat, NEW w \in ScanStates, w.closed # 0
    PROVE  Comments!StepMultiline(line, lang, w, i).closed = w.closed
<1>1. \A j : \A mode : /\ Comments!Walk(w, j, mode).closed = w.closed
                       /\ [Comments!Walk(w, j, mode) EXCEPT !.skip = 2].closed = w.closed
  BY DEF Comments!Walk, ScanStates
<1>2. Comments!StepBacktick(line, w, i).closed = w.closed
  BY <1>1 DEF Comments!StepBacktick, ScanStates
<1>3. Comments!StepTripleQuote(line, w, i).closed = w.closed
  BY <1>1 DEF Comments!StepTripleQuote, ScanStates
<1>4. QED
  BY <1>2, <1>3 DEF Comments!StepMultiline

\* In Go an open string closes for the scan where it closes for the lexer.
LEMMA ClosesInGo ==
    ASSUME NEW line, Len(line) \in Nat, NEW k \in Nat, k + 1 <= Len(line),
           NEW l \in LexStates, NEW w \in ScanStates, Follows("Go", line, k, l, w), ~Lost(l),
           w.closed = 0, l.mode = "raw", l.marked = FALSE
    PROVE  Closes(line, "raw", k + 1, Comments!Lex("Go", line, l, k + 1), Comments!StepBacktick(line, w, k + 1))
<1> DEFINE i == k + 1
           ch == line[i]
           l1 == LexByMode("Go", line, l, i)
           w1 == Comments!StepBacktick(line, w, i)
<1> SUFFICES Closes(line, "raw", i, l1, w1)
  BY LexIsByMode
<1>1. w.mode = "raw" /\ w.skip = l.skip
  BY DEF Follows, ScanModeOf
<1>2. CASE l.skip > 0
  <2>1. l1.mode = "raw" /\ l1.marked = FALSE
    BY <1>2 DEF LexByMode, LexStates
  <2>2. w1.closed = 0
    BY <1>1, <1>2 DEF Comments!StepBacktick, ScanStates
  <2>3. QED
    BY <2>1, <2>2 DEF Closes
<1>3. CASE l.skip = 0
  <2>1. w1 = Comments!Walk(w, i, Comments!BacktickMode("raw", ch)) /\ l1 = LexInRaw(line, l, i)
    BY <1>1, <1>3 DEF Comments!StepBacktick, Comments!Escaped, LexByMode, Quotes
  <2>2. CASE ch = "tick"
    <3>1. Comments!BacktickMode("raw", ch) = "code"
      BY <2>2 DEF Comments!BacktickMode
    <3>2. w1.closed = i
      BY <1>1, <2>1, <3>1 DEF Comments!Walk, ScanStates
    <3>3. l1.mode = "code" /\ l1.skip = 0 /\ l1.marked = FALSE
      BY <1>3, <2>1, <2>2 DEF LexInRaw, LexStates
    <3>4. i - i = 0 /\ 0 < i /\ i <= i /\ i <= Len(line)
      OBVIOUS
    <3> HIDE DEF i, l1, w1
    <3>5. QED
      BY <3>2, <3>3, <3>4 DEF Closes
  <2>3. CASE ch # "tick"
    <3>1. Comments!BacktickMode("raw", ch) = "raw"
      BY <2>3 DEF Comments!BacktickMode
    <3>2. w1.closed = 0
      BY <1>1, <2>1, <3>1 DEF Comments!Walk, ScanStates
    <3>3. l1 = l
      BY <2>1, <2>3 DEF LexInRaw
    <3>4. QED
      BY <3>2, <3>3 DEF Closes
  <2>4. QED
    BY <2>2, <2>3
<1>4. QED
  BY <1>2, <1>3 DEF LexStates

\* In Python an open string closes for the scan where it closes for the lexer.
LEMMA ClosesInPython ==
    ASSUME NEW line, Len(line) \in Nat, NEW k \in Nat, k + 1 <= Len(line), NEW mode \in {"ddd", "sss"},
           NEW l \in LexStates, NEW w \in ScanStates, Follows("Python", line, k, l, w), ~Lost(l),
           w.closed = 0, l.mode = mode, l.marked = FALSE
    PROVE  Closes(line, mode, k + 1, Comments!Lex("Python", line, l, k + 1),
                  Comments!StepTripleQuote(line, w, k + 1))
<1> DEFINE i == k + 1
           ch == line[i]
           l1 == LexByMode("Python", line, l, i)
           w1 == Comments!StepTripleQuote(line, w, i)
<1>e. Comments!Lex("Python", line, l, i) = l1
  BY LexIsByMode
<1>f. Lost(l1) => Closes(line, mode, i, l1, w1)
  BY Zenon DEF Closes
<1> SUFFICES ASSUME ~Lost(l1)
             PROVE  Closes(line, mode, i, l1, w1)
  BY <1>e, <1>f
<1>1. /\ w.mode = mode /\ l.skip \in 0..2
      /\ w.skip = l.skip \/ (l.skip = 1 /\ w.skip = 0 /\ ch # QuoteOf(mode))
  BY DEF Follows, ScanModeOf, LexStates
<1>q. QuoteOf("ddd") = "dq" /\ QuoteOf("sss") = "sq" /\ i \in Nat
  BY DEF QuoteOf, Comments!Quote
<1>t. \A c : Comments!Triple(line, i, c) => ch = c /\ i + 2 <= Len(line)
  BY <1>q DEF Comments!Triple
<1>2. CASE w.skip > 0
  <2>1. l1.mode = mode /\ l1.marked = FALSE
    BY <1>1, <1>2 DEF LexByMode, LexStates
  <2>2. w1.closed = 0
    BY <1>1, <1>2 DEF Comments!StepTripleQuote, ScanStates
  <2>3. QED
    BY <2>1, <2>2 DEF Closes
<1>3. CASE w.skip = 0 /\ ch # QuoteOf(mode)
  <2>1. ~ (w.skip > 0) /\ mode # "code" /\ mode \notin {"dq", "sq"}
    BY <1>3
  <2>2. w1 = w
    BY <1>1, <1>3, <1>q, <1>t, <2>1 DEF Comments!StepTripleQuote, Comments!Escaped
  <2>3. l1.mode = mode /\ l1.marked = FALSE
    <3>1. CASE l.skip > 0
      BY <3>1 DEF LexByMode, LexStates
    <3>2. CASE l.skip = 0
      <4>1. l1 = LexInLong("Python", line, l, i)
        BY <3>2 DEF LexByMode, Quotes
      <4>2. QED
        BY <1>3, <4>1 DEF LexInLong, LexStates
    <3>3. l.skip > 0 \/ l.skip = 0
      BY <1>1
    <3>4. QED
      BY <3>1, <3>2, <3>3, Zenon
  <2>4. QED
    BY <2>2, <2>3 DEF Closes
<1>4. CASE w.skip = 0 /\ ch = QuoteOf(mode)
  <2>0. l.skip = 0 /\ ~ (w.skip > 0) /\ ~ (l.skip > 0) /\ ch \in Quotes /\ ch # "esc"
    BY <1>1, <1>4, <1>q DEF Quotes
  <2>1. l1 = LexInLong("Python", line, l, i)
    BY <2>0 DEF LexByMode, Quotes
  <2>2. Tripled("Python", line, i)
    BY <1>4, <2>0, <2>1 DEF LexInLong, Lost, LexStates
  <2>3. l1.mode = "code" /\ l1.skip = 2 /\ l1.marked = FALSE
    BY <1>4, <2>0, <2>1, <2>2 DEF LexInLong, LexStates
  <2>4. Comments!Triple(line, i, ch) /\ i + 2 <= Len(line)
    BY <1>t, <2>2 DEF Tripled
  <2>5. w1 = [Comments!Walk(w, i + 2, "code") EXCEPT !.skip = 2]
    <3>1. CASE mode = "ddd"
      BY <1>1, <1>4, <1>q, <2>0, <2>4, <3>1 DEF Comments!StepTripleQuote, Comments!Escaped
    <3>2. CASE mode = "sss"
      BY <1>1, <1>4, <1>q, <2>0, <2>4, <3>2 DEF Comments!StepTripleQuote, Comments!Escaped
    <3>3. QED
      BY <3>1, <3>2
  <2>6. [Comments!Walk(w, i + 2, "code") EXCEPT !.skip = 2].closed = i + 2
    BY <1>1 DEF Comments!Walk, ScanStates
  <2>7. w1.closed = i + 2
    BY <2>5, <2>6, Zenon
  <2>8. (i + 2) - i = 2 /\ 0 < i + 2 /\ i <= i + 2 /\ i + 2 <= Len(line)
    BY <2>4
  <2> HIDE DEF i, l1, w1
  <2>9. QED
    BY <2>3, <2>7, <2>8 DEF Closes
<1>5. QED
  BY <1>1, <1>2, <1>3, <1>4 DEF ScanStates

\* The scan goes on as the lexer does, in both languages.
LEMMA ScanGoesOn ==
    ASSUME NEW lang \in {"Go", "Python"}, NEW line, Len(line) \in Nat, NEW k \in Nat, k + 1 <= Len(line),
           NEW l \in LexStates, NEW w \in ScanStates, NEW mode, Follows(lang, line, k, l, w)
    PROVE  /\ Follows(lang, line, k + 1, Comments!Lex(lang, line, l, k + 1),
                      Comments!StepMultiline(line, lang, w, k + 1))
           /\ mode \in {"raw", "ddd", "sss"} /\ Closes(line, mode, k, l, w) =>
                  Closes(line, mode, k + 1, Comments!Lex(lang, line, l, k + 1),
                         Comments!StepMultiline(line, lang, w, k + 1))
<1> DEFINE i == k + 1
           l1 == Comments!Lex(lang, line, l, i)
           w1 == Comments!StepMultiline(line, lang, w, i)
<1>0. i \in Nat
  OBVIOUS
<1>1. /\ lang = "Go" => w1 = Comments!StepBacktick(line, w, i)
      /\ lang = "Python" => w1 = Comments!StepTripleQuote(line, w, i)
  BY DEF Comments!StepMultiline, Comments!uses_slash_comments
<1>2. Follows(lang, line, i, l1, w1)
  BY <1>1, FollowsInGo, FollowsInPython
<1>3. ASSUME mode \in {"raw", "ddd", "sss"}, Closes(line, mode, k, l, w)
      PROVE  Closes(line, mode, i, l1, w1)
  <2>1. CASE Lost(l)
    <3>1. Lost(l1)
      BY <1>0, <2>1, LostForGood
    <3>2. QED
      BY <3>1 DEF Closes
  <2>2. CASE ~Lost(l) /\ w.closed = 0
    <3>1. l.mode = mode /\ l.marked = FALSE
      BY <1>3, <2>2 DEF Closes
    <3>2. l.mode \notin Foreign(lang)
      BY <2>2 DEF Follows
    <3>3. CASE lang = "Go"
      <4>1. mode = "raw"
        BY <1>3, <3>1, <3>2, <3>3 DEF Foreign
      <4>2. Closes(line, "raw", i, Comments!Lex("Go", line, l, i), Comments!StepBacktick(line, w, i))
        BY <2>2, <3>1, <3>3, <4>1, ClosesInGo
      <4>3. QED
        BY <1>1, <3>3, <4>1, <4>2
    <3>4. CASE lang = "Python"
      <4>1. mode \in {"ddd", "sss"}
        BY <1>3, <3>1, <3>2, <3>4 DEF Foreign
      <4>2. Closes(line, mode, i, Comments!Lex("Python", line, l, i), Comments!StepTripleQuote(line, w, i))
        BY <2>2, <3>1, <3>4, <4>1, ClosesInPython
      <4>3. QED
        BY <1>1, <3>4, <4>2
    <3>5. QED
      BY <3>3, <3>4
  <2>3. CASE ~Lost(l) /\ w.closed # 0
    <3>0. w.closed \in Nat
      BY DEF ScanStates
    <3>1. w1.closed = w.closed
      BY <1>0, <2>3, ClosedStays
    <3>2. CASE w.closed < k
      <4>1. 0 < w.closed /\ w.closed < i
        BY <2>3, <3>0, <3>2
      <4> HIDE DEF i, l1, w1
      <4>2. QED
        BY <3>1, <4>1 DEF Closes
    <3>3. CASE ~ (w.closed < k)
      <4>1. k <= w.closed /\ w.closed <= Len(line) /\ l.mode = "code" /\ l.skip = w.closed - k /\ l.marked = FALSE
        BY <1>3, <2>3, <3>0, <3>3 DEF Closes
      <4>2. CASE w.closed = k
        <5>1. 0 < w.closed /\ w.closed < i
          BY <2>3, <3>0, <4>2
        <5> HIDE DEF i, l1, w1
        <5>2. QED
          BY <3>1, <5>1 DEF Closes
      <4>3. CASE w.closed # k
        <5>1. l.skip > 0 /\ i <= w.closed /\ l.skip - 1 = w.closed - i /\ 0 < w.closed
          BY <3>0, <4>1, <4>3
        <5>2. l1 = [l EXCEPT !.skip = l.skip - 1]
          <6>1. LexByMode(lang, line, l, i) = [l EXCEPT !.skip = l.skip - 1]
            BY <5>1 DEF LexByMode
          <6>2. l1 = LexByMode(lang, line, l, i)
            BY <1>0, LexIsByMode
          <6>3. QED
            BY <6>1, <6>2, Zenon
        <5>3. l1.mode = "code" /\ l1.skip = w.closed - i /\ l1.marked = FALSE
          BY <4>1, <5>1, <5>2 DEF LexStates
        <5> HIDE DEF i, l1, w1
        <5>4. QED
          BY <3>1, <4>1, <5>1, <5>3 DEF Closes
      <4>4. QED
        BY <4>2, <4>3
    <3>4. QED
      BY <3>2, <3>3
  <2>4. QED
    BY <2>1, <2>2, <2>3
<1>4. QED
  BY <1>2, <1>3

\* The scan of one line, from a place where the lexer is in the code, finds a
\* marked comment exactly when the lexer does.
LEMMA NothingIsMarked ==
    ASSUME NEW line, NEW comment,
           \A i \in DOMAIN line : line[i] = comment => Comments!is_inside_string_literal(line, i)
    PROVE  Comments!Marked(line, comment) = <<>>
<1> DEFINE starts == {i \in DOMAIN line : line[i] = comment /\ ~Comments!is_inside_string_literal(line, i)}
           marks == {k \in DOMAIN line : starts # {} /\ k > Comments!Min(starts) /\ Comments!IsMark(line[k])}
<1>1. starts = {}
  OBVIOUS
<1>2. marks = {}
  BY <1>1
<1>3. QED
  BY <1>2, Zenon DEF Comments!Marked

\* The first of a set of numbers is its minimum.
LEMMA FirstIsMinimum ==
    ASSUME NEW S \in SUBSET Nat, NEW p \in S, \A s \in S : p <= s
    PROVE  Comments!Min(S) = p
<1>1. \E x \in S : \A y \in S : x <= y
  OBVIOUS
<1> DEFINE m == CHOOSE x \in S : \A y \in S : x <= y
<1>2. m \in S /\ \A y \in S : m <= y
  BY <1>1
<1>3. Comments!Min(S) = m
  BY Zenon DEF Comments!Min
<1> HIDE DEF m
<1>4. m <= p /\ p <= m /\ m \in Nat /\ p \in Nat
  BY <1>2
<1>5. QED
  BY <1>3, <1>4

\* On a line that begins in no string a mark is found exactly when the lexer sees
\* one in a comment.
LEMMA CommentIsFound ==
    ASSUME NEW lang \in {"Go", "Python"}, NEW V, NEW line \in Seq(V), NEW walk,
           \A k \in 0..Len(line) : walk[k] \in LexStates,
           walk[0].mode = "code" \/ (lang = "Go" /\ walk[0].mode = "block"),
           walk[0].skip = 0, walk[0].marked = FALSE,
           \A k \in Nat : k + 1 <= Len(line) => walk[k + 1] = Comments!Lex(lang, line, walk[k], k + 1),
           ~Lost(walk[Len(line)])
    PROVE  Comments!Marked(line, CommentSign(lang)) # <<>> <=> walk[Len(line)].marked = TRUE
<1> DEFINE n == Len(line)
           quotes == Comments!QuoteWalk(line)
           good == {k \in Nat : k <= n => FoundAlike(lang, line, quotes, k, walk[k])}
           comment == CommentSign(lang)
           end == walk[n]
<1>1. n \in Nat /\ DOMAIN line = 1..n
  OBVIOUS
<1>2. /\ quotes[0] = QuoteStart
      /\ \A k \in Nat : k + 1 <= n => quotes[k + 1] = Comments!QuoteStep(quotes[k], line[k + 1])
      /\ \A k \in 0..n : quotes[k] \in QuoteStates
  BY <1>1, QuotesAreWalked DEF IsQuoteWalk
<1> HIDE DEF quotes
<1>3. 0 \in good
  <2>1. Alike(line, 0, walk[0], quotes[0])
    BY <1>2 DEF Alike, AlikeInCode, AlikeInBlock, QuoteStart
  <2>2. NoneStarts(lang, line, quotes, 0)
    BY DEF NoneStarts
  <2>3. FoundAlike(lang, line, quotes, 0, walk[0])
    BY <2>1, <2>2 DEF FoundAlike
  <2>4. QED
    BY <2>3
<1>4. ASSUME NEW k \in Nat, k \in good
      PROVE  k + 1 \in good
  <2> SUFFICES ASSUME k + 1 <= n
               PROVE  FoundAlike(lang, line, quotes, k + 1, walk[k + 1])
    OBVIOUS
  <2>1. k \in 0..n /\ k <= n
    BY <1>1
  <2>2. FoundAlike(lang, line, quotes, k, walk[k]) /\ walk[k] \in LexStates /\ quotes[k] \in QuoteStates
    BY <1>2, <1>4, <2>1
  <2>3. quotes[k + 1] = Comments!QuoteStep(quotes[k], line[k + 1])
    BY <1>2
  <2>4. walk[k + 1] = Comments!Lex(lang, line, walk[k], k + 1)
    OBVIOUS
  <2> DEFINE l == walk[k]
  <2>5. FoundAlike(lang, line, quotes, k + 1, Comments!Lex(lang, line, l, k + 1))
    <3>1. l \in LexStates /\ FoundAlike(lang, line, quotes, k, l)
      BY <2>2
    <3> HIDE DEF l
    <3>2. QED
      BY <1>1, <2>2, <2>3, <3>1, FoundGoesOn
  <2>6. QED
    BY <2>4, <2>5
<1> HIDE DEF good
<1>5. n \in good
  BY <1>1, <1>3, <1>4, EveryNumberFollows
<1>6. FoundAlike(lang, line, quotes, n, end) /\ ~Lost(end)
  BY <1>1, <1>5 DEF good
<1> HIDE DEF end
<1>7. \A i \in 1..n : Starts(lang, line, quotes, i) <=>
                          line[i] = comment /\ ~Comments!is_inside_string_literal(line, i)
  BY DEF Starts, Comments!is_inside_string_literal, quotes
<1> HIDE DEF n, comment
<1>8. CASE end.mode # "comment"
  <2>1. end.marked = FALSE /\ NoneStarts(lang, line, quotes, n)
    BY <1>6, <1>8 DEF FoundAlike
  <2>2. \A i \in DOMAIN line : line[i] = comment => Comments!is_inside_string_literal(line, i)
    BY <1>1, <1>7, <2>1 DEF NoneStarts
  <2>3. Comments!Marked(line, comment) = <<>>
    BY <2>2, NothingIsMarked
  <2>4. QED
    BY <2>1, <2>3 DEF end, n, comment
<1>9. CASE end.mode = "comment"
  <2>1. PICK p \in 1..n : /\ FirstStart(lang, line, quotes, p)
                          /\ end.marked = TRUE <=> MarkedBetween(line, p, n)
    BY <1>6, <1>9 DEF FoundAlike
  <2> DEFINE starts == {i \in DOMAIN line : line[i] = comment /\ ~Comments!is_inside_string_literal(line, i)}
             marks == {k \in DOMAIN line : starts # {} /\ k > Comments!Min(starts) /\ Comments!IsMark(line[k])}
  <2>2. p \in starts /\ starts \subseteq Nat /\ \A s \in starts : p <= s
    <3>1. Starts(lang, line, quotes, p) /\ \A o \in Nat : 0 < o /\ o < p => ~Starts(lang, line, quotes, o)
      BY <2>1 DEF FirstStart
    <3>2. \A s \in starts : s \in 1..n /\ Starts(lang, line, quotes, s)
      BY <1>1, <1>7
    <3>3. p \in starts
      BY <1>1, <1>7, <3>1
    <3> HIDE DEF starts
    <3>4. \A s \in starts : s \in Nat /\ 0 < s
      BY <1>1, <3>2
    <3>5. \A s \in starts : ~ (s < p)
      BY <3>1, <3>2, <3>4
    <3>6. QED
      BY <1>1, <3>3, <3>4, <3>5
  <2>3. Comments!Min(starts) = p /\ starts # {}
    <3> HIDE DEF starts
    <3>1. QED
      BY <2>2, FirstIsMinimum
  <2>4. Comments!Marked(line, comment) =
            IF marks = {} THEN <<>> ELSE <<Comments!Rest[line[Comments!Min(marks)]]>>
    BY Zenon DEF Comments!Marked
  <2> HIDE DEF starts
  <2>5. marks # {} <=> MarkedBetween(line, p, n)
    <3>1. \A k : k \in marks <=> k \in 1..n /\ k > p /\ Comments!IsMark(line[k])
      BY <1>1, <2>3
    <3> HIDE DEF marks
    <3>2. \A k : k \in (p + 1)..n <=> k \in 1..n /\ k > p
      BY <1>1
    <3>3. QED
      BY <3>1, <3>2 DEF MarkedBetween
  <2> HIDE DEF marks
  <2>6. Comments!Marked(line, comment) # <<>> <=> marks # {}
    <3>1. \A x : <<x>> # <<>>
      OBVIOUS
    <3>2. QED
      BY <2>4, <3>1, Zenon
  <2>7. QED
    BY <2>1, <2>5, <2>6 DEF end, n, comment
<1>10. QED
  BY <1>8, <1>9

\* In Go and in Python there is one sign, and that is what is looked for.
LEMMA OneSign ==
    ASSUME NEW lang \in {"Go", "Python"}, NEW line
    PROVE  Comments!find_suppression_in_line(line, lang) # <<>> <=> Comments!Marked(line, CommentSign(lang)) # <<>>
<1> DEFINE found == Comments!Marked(line, CommentSign(lang))
<1>1. found = <<>> \/ \E x : found = <<x>>
  BY Zenon DEF Comments!Marked
<1>2. \/ Comments!find_suppression_in_line(line, lang) = found \o <<>>
      \/ Comments!find_suppression_in_line(line, lang) = <<>> \o found
  BY DEF Comments!find_suppression_in_line, Comments!uses_slash_comments, Comments!uses_hash_comments, CommentSign
<1> HIDE DEF found
<1>3. CASE found = <<>>
  <2>1. <<>> \o <<>> = <<>>
    OBVIOUS
  <2>2. QED
    BY <1>2, <1>3, <2>1 DEF found
<1>4. CASE \E x : found = <<x>>
  <2>1. PICK x : found = <<x>>
    BY <1>4
  <2>2. <<x>> \o <<>> = <<x>> /\ <<>> \o <<x>> = <<x>> /\ <<x>> # <<>>
    OBVIOUS
  <2>3. QED
    BY <1>2, <2>1, <2>2 DEF found
<1>5. QED
  BY <1>1, <1>3, <1>4

\* Three quotes, place by place.
LEMMA TripleByPlace ==
    ASSUME NEW line, NEW j \in Nat, NEW ch
    PROVE  Comments!Triple(line, j, ch) <=>
               j + 2 <= Len(line) /\ line[j] = ch /\ line[j + 1] = ch /\ line[j + 2] = ch
BY DEF Comments!Triple

\* The lexer does the same behind a place of the line as in what stands there.
LEMMA LexOfPart ==
    ASSUME NEW lang, NEW line, Len(line) \in Nat, NEW c \in 0..Len(line),
           NEW part, Len(part) = Len(line) - c, \A i \in 1..(Len(line) - c) : part[i] = line[c + i],
           NEW j \in Nat, 0 < j, c + j <= Len(line), NEW l \in LexStates
    PROVE  Comments!Lex(lang, part, l, j) = Comments!Lex(lang, line, l, c + j)
<1> DEFINE n == Len(line)
<1>1. n \in Nat /\ c \in Nat /\ c <= n
  OBVIOUS
<1>2. Len(part) = n - c /\ \A i \in 1..(n - c) : part[i] = line[c + i]
  OBVIOUS
<1>3. part[j] = line[c + j] /\ (j < Len(part) <=> c + j < n)
  BY <1>1, <1>2
<1>4. j < Len(part) => part[j + 1] = line[(c + j) + 1]
  <2>1. j < Len(part) => j + 1 \in 1..(n - c) /\ c + (j + 1) = (c + j) + 1
    BY <1>1, <1>2
  <2>2. QED
    BY <1>2, <2>1
<1>5. \A ch : Comments!Triple(part, j, ch) <=> Comments!Triple(line, c + j, ch)
  <2> TAKE ch
  <2>1. j + 2 <= Len(part) <=> (c + j) + 2 <= n
    BY <1>1, <1>2
  <2>2. j + 2 <= Len(part) =>
            /\ part[j] = line[c + j] /\ part[j + 1] = line[c + j + 1] /\ part[j + 2] = line[c + j + 2]
    <3> SUFFICES ASSUME j + 2 <= Len(part)
                 PROVE  /\ part[j] = line[c + j] /\ part[j + 1] = line[c + j + 1]
                        /\ part[j + 2] = line[c + j + 2]
      OBVIOUS
    <3> HIDE DEF n
    <3>0. j + 2 <= n - c
      BY <1>2
    <3>1. j + 2 \in 1..(n - c) /\ c + (j + 2) = c + j + 2 /\ j < Len(part)
      <4>1. j + 2 \in 1..(n - c)
        BY <1>1, <3>0
      <4>2. c + (j + 2) = c + j + 2
        BY <1>1
      <4>3. j < n - c
        BY <1>1, <3>0
      <4>4. QED
        BY <1>2, <4>1, <4>2, <4>3
    <3>2. part[j + 2] = line[c + (j + 2)]
      BY <1>2, <3>1
    <3>3. part[j + 2] = line[c + j + 2]
      BY <3>1, <3>2
    <3>4. QED
      BY <1>3, <1>4, <3>1, <3>3
  <2>3. Comments!Triple(part, j, ch) <=>
            j + 2 <= Len(part) /\ part[j] = ch /\ part[j + 1] = ch /\ part[j + 2] = ch
    BY TripleByPlace
  <2>4. Comments!Triple(line, c + j, ch) <=>
            c + j + 2 <= n /\ line[c + j] = ch /\ line[c + j + 1] = ch /\ line[c + j + 2] = ch
    <3>1. c + j \in Nat
      BY <1>1
    <3>2. QED
      BY <3>1, TripleByPlace, Zenon
  <2>5. QED
    BY <2>1, <2>2, <2>3, <2>4
<1> HIDE DEF n
<1>6. /\ Misplaced(lang, part, j) <=> Misplaced(lang, line, c + j)
      /\ Tripled(lang, part, j) <=> Tripled(lang, line, c + j)
      /\ \A mode : Comments!HidesQuote(part, j, mode) <=> Comments!HidesQuote(line, c + j, mode)
  BY <1>3, <1>4, <1>5 DEF Misplaced, Tripled, Comments!HidesQuote, n
<1>7. LexInCode(lang, part, l, j) = LexInCode(lang, line, l, c + j)
  BY <1>3, <1>6 DEF LexInCode
<1>8. LexInLong(lang, part, l, j) = LexInLong(lang, line, l, c + j)
  BY <1>3, <1>6 DEF LexInLong
<1>9. /\ LexInQuotes(part, l, j) = LexInQuotes(line, l, c + j)
      /\ LexInRaw(part, l, j) = LexInRaw(line, l, c + j)
      /\ LexInComment(part, l, j) = LexInComment(line, l, c + j)
      /\ LexInBlock(part, l, j) = LexInBlock(line, l, c + j)
  BY <1>3 DEF LexInQuotes, LexInRaw, LexInComment, LexInBlock
<1>10. LexByMode(lang, part, l, j) = LexByMode(lang, line, l, c + j)
  BY <1>7, <1>8, <1>9 DEF LexByMode
<1>11. c + j \in Nat
  BY <1>1
<1>12. QED
  BY <1>10, <1>11, LexIsByMode

\* A string that closes on a step closes no earlier than that step.
LEMMA ClosedIsAhead ==
    ASSUME NEW lang, NEW line, NEW i \in Nat, NEW w \in ScanStates, w.closed = 0
    PROVE  LET c == Comments!StepMultiline(line, lang, w, i).closed IN c = 0 \/ i <= c
<1>1. \A j \in {i, i + 2} : \A mode : /\ Comments!Walk(w, j, mode).closed \in {0, i, i + 2}
                                      /\ [Comments!Walk(w, j, mode) EXCEPT !.skip = 2].closed \in {0, i, i + 2}
  BY DEF Comments!Walk, ScanStates
<1>2. Comments!StepBacktick(line, w, i).closed \in {0, i, i + 2}
  BY <1>1 DEF Comments!StepBacktick, ScanStates
<1>3. Comments!StepTripleQuote(line, w, i).closed \in {0, i, i + 2}
  BY <1>1 DEF Comments!StepTripleQuote, ScanStates
<1>4. QED
  BY <1>2, <1>3 DEF Comments!StepMultiline

\* What is not lost at the end of a line was lost nowhere on it.
LEMMA NowhereLost ==
    ASSUME NEW lang, NEW line, Len(line) \in Nat, NEW mode, NEW walk, IsLexWalk(lang, line, mode, walk),
           ~Lost(walk[Len(line)])
    PROVE  \A k \in 0..Len(line) : ~Lost(walk[k])
<1> DEFINE n == Len(line)
<1>1. SUFFICES ASSUME NEW k \in 0..n, Lost(walk[k])
               PROVE  FALSE
  OBVIOUS
<1> DEFINE good == {d \in Nat : k + d <= n => Lost(walk[k + d])}
<1>2. n \in Nat /\ k \in Nat
  OBVIOUS
<1> HIDE DEF n
<1>3. 0 \in good
  <2>1. k + 0 = k
    BY <1>2
  <2>2. QED
    BY <1>1, <2>1
<1>4. ASSUME NEW d \in Nat, d \in good
      PROVE  d + 1 \in good
  <2> SUFFICES ASSUME k + (d + 1) <= n
               PROVE  Lost(walk[k + (d + 1)])
    OBVIOUS
  <2> DEFINE j == k + d
  <2>1. j \in Nat /\ j + 1 <= n /\ j \in 0..n /\ k + (d + 1) = j + 1 /\ j <= n
    BY <1>2
  <2>2. Lost(walk[j])
    BY <1>4, <2>1
  <2> HIDE DEF j
  <2>3. walk[j] \in LexStates /\ walk[j + 1] = Comments!Lex(lang, line, walk[j], j + 1)
    BY <2>1 DEF IsLexWalk, n
  <2>4. j + 1 \in Nat
    BY <2>1
  <2>5. Lost(Comments!Lex(lang, line, walk[j], j + 1))
    BY <2>2, <2>3, <2>4, LostForGood
  <2>6. QED
    BY <2>1, <2>3, <2>5
<1> HIDE DEF good
<1>5. Nat \subseteq good
  BY <1>3, <1>4, EveryNumberFollows
<1>6. n - k \in Nat /\ k + (n - k) = n
  BY <1>2
<1>7. n - k \in good
  BY <1>5, <1>6
<1>8. Lost(walk[n])
  BY <1>6, <1>7 DEF good
<1>9. QED
  BY <1>8 DEF n

LongModes(lang) == IF lang = "Go" THEN {"raw"} ELSE {"ddd", "sss"}

\* The modes between the lines of a well-formed source.
Between(lang) == {"code"} \cup LongModes(lang) \cup (IF lang = "Go" THEN {"block"} ELSE {})

\* Along a line the scan for strings of several lines goes with the lexer.
LEMMA WalksFollow ==
    ASSUME NEW lang \in {"Go", "Python"}, NEW line, Len(line) \in Nat, NEW mode \in Between(lang),
           NEW L, IsLexWalk(lang, line, mode, L), NEW W, IsScanWalk(lang, line, ScanModeOf(mode), W)
    PROVE  \A k \in 0..Len(line) : Follows(lang, line, k, L[k], W[k])
<1> DEFINE n == Len(line)
           good == {k \in Nat : k <= n => Follows(lang, line, k, L[k], W[k])}
<1>1. 0 \in good
  <2>1. L[0].mode = mode /\ W[0].mode = ScanModeOf(mode) /\ L[0].skip = 0 /\ W[0].skip = 0
    BY DEF IsLexWalk, IsScanWalk, LexStart, ScanStart
  <2>2. mode \notin Foreign(lang)
    BY DEF Foreign, LongModes, Between
  <2>3. QED
    BY <2>1, <2>2 DEF Follows
<1>2. ASSUME NEW k \in Nat, k \in good
      PROVE  k + 1 \in good
  <2> SUFFICES ASSUME k + 1 <= n
               PROVE  Follows(lang, line, k + 1, L[k + 1], W[k + 1])
    OBVIOUS
  <2> DEFINE l == L[k]
             w == W[k]
  <2>1. Follows(lang, line, k, l, w) /\ l \in LexStates /\ w \in ScanStates
    BY <1>2 DEF IsLexWalk, IsScanWalk
  <2>2. L[k + 1] = Comments!Lex(lang, line, l, k + 1) /\ W[k + 1] = Comments!StepMultiline(line, lang, w, k + 1)
    BY DEF IsLexWalk, IsScanWalk
  <2> HIDE DEF l, w
  <2>3. Follows(lang, line, k + 1, Comments!Lex(lang, line, l, k + 1), Comments!StepMultiline(line, lang, w, k + 1))
    BY <2>1, ScanGoesOn
  <2>4. QED
    BY <2>2, <2>3
<1> HIDE DEF good
<1>3. Nat \subseteq good
  BY <1>1, <1>2, EveryNumberFollows
<1>4. QED
  BY <1>3 DEF good

\* Where the scan says that the open string was closed, the lexer is in the
\* code, and has seen no comment yet.
ClosedBy(k, L, W) ==
    LET c == W[k].closed
    IN  0 < c /\ c <= k => L[c].mode = "code" /\ L[c].skip = 0 /\ L[c].marked = FALSE

\* That holds after every character of a line.
LEMMA WalksClose ==
    ASSUME NEW lang \in {"Go", "Python"}, NEW line, Len(line) \in Nat, NEW mode \in LongModes(lang),
           NEW L, IsLexWalk(lang, line, mode, L), NEW W, IsScanWalk(lang, line, mode, W),
           ~Lost(L[Len(line)])
    PROVE  \A k \in 0..Len(line) : Closes(line, mode, k, L[k], W[k]) /\ ClosedBy(k, L, W)
<1> DEFINE n == Len(line)
           good == {k \in Nat : k <= n => Closes(line, mode, k, L[k], W[k]) /\ ClosedBy(k, L, W)}
<1>0. mode \in {"raw", "ddd", "sss"}
  BY DEF LongModes
<1>1. 0 \in good
  <2>1. L[0].mode = mode /\ L[0].marked = FALSE /\ W[0].closed = 0
    BY DEF IsLexWalk, IsScanWalk, LexStart, ScanStart
  <2>2. QED
    BY <2>1 DEF Closes, ClosedBy
<1>2. ASSUME NEW k \in Nat, k \in good
      PROVE  k + 1 \in good
  <2> SUFFICES ASSUME k + 1 <= n
               PROVE  Closes(line, mode, k + 1, L[k + 1], W[k + 1]) /\ ClosedBy(k + 1, L, W)
    OBVIOUS
  <2> DEFINE l == L[k]
             w == W[k]
             l1 == L[k + 1]
             w1 == W[k + 1]
  <2>0. k \in 0..n /\ k + 1 \in 0..n
    OBVIOUS
  <2>1. l \in LexStates /\ w \in ScanStates /\ w1 \in ScanStates
    BY <2>0 DEF IsLexWalk, IsScanWalk
  <2>2. l1 = Comments!Lex(lang, line, l, k + 1) /\ w1 = Comments!StepMultiline(line, lang, w, k + 1)
    BY DEF IsLexWalk, IsScanWalk
  <2>3. Follows(lang, line, k, l, w)
    <3>1. mode \in Between(lang) /\ ScanModeOf(mode) = mode
      BY DEF Between, LongModes, ScanModeOf
    <3>2. QED
      BY <2>0, <3>1, WalksFollow
  <2>4. ~Lost(l1)
    BY <2>0, NowhereLost
  <2>5. Closes(line, mode, k, l, w) /\ ClosedBy(k, L, W)
    BY <1>2, <2>0
  <2>6. Closes(line, mode, k + 1, l1, w1)
    <3> HIDE DEF l, w, l1, w1
    <3>1. Closes(line, mode, k + 1, Comments!Lex(lang, line, l, k + 1), Comments!StepMultiline(line, lang, w, k + 1))
      BY <1>0, <2>1, <2>3, <2>5, ScanGoesOn
    <3>2. QED
      BY <2>2, <3>1
  <2> HIDE DEF l1
  <2>7. ClosedBy(k + 1, L, W)
    <3> DEFINE c == w1.closed
    <3> SUFFICES ASSUME 0 < c, c <= k + 1
                 PROVE  L[c].mode = "code" /\ L[c].skip = 0 /\ L[c].marked = FALSE
      BY DEF ClosedBy
    <3>1. c \in Nat
      BY <2>1 DEF ScanStates
    <3>2. CASE c = k + 1
      <4>1. l1.mode = "code" /\ l1.skip = c - (k + 1) /\ l1.marked = FALSE
        BY <2>4, <2>6, <3>1, <3>2 DEF Closes
      <4>2. c - (k + 1) = 0
        BY <3>2
      <4>3. QED
        BY <3>2, <4>1, <4>2 DEF l1
    <3>3. CASE c # k + 1
      <4>1. c <= k
        BY <3>1, <3>3
      <4>2. w.closed # 0
        <5> SUFFICES ASSUME w.closed = 0
                     PROVE  FALSE
          OBVIOUS
        <5> HIDE DEF w, w1
        <5>1. k + 1 \in Nat
          OBVIOUS
        <5>2. Comments!StepMultiline(line, lang, w, k + 1).closed = 0
              \/ k + 1 <= Comments!StepMultiline(line, lang, w, k + 1).closed
          BY <2>1, <5>1, ClosedIsAhead
        <5>3. c = 0 \/ k + 1 <= c
          BY <2>2, <5>2
        <5>4. QED
          BY <3>1, <4>1, <5>3
      <4>3. c = w.closed
        <5> HIDE DEF w
        <5>1. k + 1 \in Nat
          OBVIOUS
        <5>2. QED
          BY <2>1, <2>2, <4>2, <5>1, ClosedStays
      <4>4. QED
        BY <2>5, <4>1, <4>3 DEF ClosedBy
    <3>4. QED
      BY <3>2, <3>3
  <2>8. QED
    BY <2>6, <2>7 DEF l1
<1> HIDE DEF good
<1>3. Nat \subseteq good
  BY <1>1, <1>2, EveryNumberFollows
<1>4. QED
  BY <1>3 DEF good

\* The scan of the part of a line behind a place where the lexer is in the code
\* finds what the lexer finds on the line.
LEMMA PartIsLexed ==
    ASSUME NEW lang \in {"Go", "Python"}, NEW V, NEW line \in Seq(V), NEW mode, NEW L, IsLexWalk(lang, line, mode, L),
           NEW c \in 0..Len(line), L[c].mode = "code", L[c].skip = 0, L[c].marked = FALSE,
           ~Lost(L[Len(line)])
    PROVE  Comments!Marked(SubSeq(line, c + 1, Len(line)), CommentSign(lang)) # <<>> <=> L[Len(line)].marked = TRUE
<1> DEFINE n == Len(line)
           m == n - c
           part == SubSeq(line, c + 1, n)
           M == [j \in 0..m |-> L[c + j]]
<1>1. n \in Nat /\ c \in Nat /\ c <= n /\ m \in Nat
  OBVIOUS
<1>2. part \in Seq(V) /\ Len(part) = m /\ \A i \in 1..m : part[i] = line[c + i]
  OBVIOUS
<1>3. \A k \in 0..n : L[k] \in LexStates
  BY DEF IsLexWalk
<1>4. \A j \in 0..m : c + j \in 0..n
  BY <1>1
<1>5. \A k \in 0..m : M[k] = L[c + k] /\ M[k] \in LexStates
  BY <1>3, <1>4
<1>6. M[0].mode = "code" /\ M[0].skip = 0 /\ M[0].marked = FALSE
  <2>1. c + 0 = c /\ 0 \in 0..m
    BY <1>1
  <2>2. QED
    BY <1>5, <2>1
<1>7. M[m] = L[n]
  <2>1. c + m = n /\ m \in 0..m
    BY <1>1
  <2>2. QED
    BY <1>5, <2>1
<1>8. ASSUME NEW k \in Nat, k + 1 <= m
      PROVE  M[k + 1] = Comments!Lex(lang, part, M[k], k + 1)
  <2> DEFINE p == c + k
             j == k + 1
  <2> HIDE DEF M, n, m, part
  <2>1. p \in Nat /\ p + 1 <= n /\ c + (k + 1) = p + 1 /\ k \in 0..m /\ k + 1 \in 0..m
    BY <1>1, <1>8 DEF m
  <2>2. M[k] = L[p] /\ M[k + 1] = L[p + 1] /\ M[k] \in LexStates
    BY <1>5, <2>1
  <2>3. L[p + 1] = Comments!Lex(lang, line, L[p], p + 1)
    BY <2>1 DEF IsLexWalk, n
  <2>4. j \in Nat /\ 0 < j /\ c + j <= Len(line)
    BY <2>1 DEF n
  <2>5. Comments!Lex(lang, part, M[k], j) = Comments!Lex(lang, line, M[k], c + j)
    <3> DEFINE l == M[k]
    <3>1. l \in LexStates /\ Len(line) \in Nat /\ c \in 0..Len(line)
      BY <2>2
    <3>2. Len(part) = Len(line) - c /\ \A i \in 1..(Len(line) - c) : part[i] = line[c + i]
      BY <1>2 DEF m, n
    <3> HIDE DEF j, l
    <3>3. Comments!Lex(lang, part, l, j) = Comments!Lex(lang, line, l, c + j)
      BY <2>4, <3>1, <3>2, LexOfPart
    <3>4. QED
      BY <3>3 DEF l
  <2>6. QED
    BY <2>1, <2>2, <2>3, <2>5 DEF part, n
<1> HIDE DEF M, m, part
<1>9. Comments!Marked(part, CommentSign(lang)) # <<>> <=> M[m].marked = TRUE
  <2>1. \A k \in Nat : k + 1 <= Len(part) => M[k + 1] = Comments!Lex(lang, part, M[k], k + 1)
    BY <1>2, <1>8
  <2>2. \A k \in 0..Len(part) : M[k] \in LexStates
    BY <1>2, <1>5
  <2>3. ~Lost(M[Len(part)])
    BY <1>2, <1>7
  <2>4. QED
    BY <1>2, <1>6, <2>1, <2>2, <2>3, CommentIsFound
<1>10. QED
  BY <1>7, <1>9 DEF part

\* One line: the scan leaves it in its mode for the lexer's, and finds a suppression
\* where the lexer finds one in a comment.
LEMMA LineIsScanned ==
    ASSUME NEW lang \in {"Go", "Python"}, NEW V, NEW line \in Seq(V), NEW mode \in Between(lang),
           Comments!LineLexed(lang, line, mode).mode \in {"code", "raw", "block", "ddd", "sss"},
           Comments!LineLexed(lang, line, mode).inner = FALSE
    PROVE  LET lexed == Comments!LineLexed(lang, line, mode)
           IN  /\ lexed.mode \in Between(lang)
               /\ Comments!update_multiline_state(line, lang, ScanModeOf(mode)).mode = ScanModeOf(lexed.mode)
               /\ Comments!find_suppression_in_line(Comments!ScannedPart(line, lang, ScanModeOf(mode)), lang) # <<>>
                  <=> lexed.marked = TRUE
<1> DEFINE n == Len(line)
           L == Comments!LexWalk(lang, line, mode)
           before == ScanModeOf(mode)
           W == Comments!MultilineWalk(line, lang, before)
           l == L[n]
           w == W[n]
           lexed == Comments!LineLexed(lang, line, mode)
           state == Comments!update_multiline_state(line, lang, before)
           part == Comments!ScannedPart(line, lang, before)
<1>1. n \in Nat /\ n \in 0..n
  OBVIOUS
<1>2. IsLexWalk(lang, line, mode, L) /\ IsScanWalk(lang, line, before, W)
  <2>1. mode \in LexModes /\ before \in ScanModes
    BY DEF Between, LongModes, LexModes, ScanModes, ScanModeOf
  <2> HIDE DEF before
  <2>2. QED
    BY <2>1, LinesAreLexed, LinesAreScanned
<1>3. lexed = [l EXCEPT !.mode = IF @ = "comment" THEN "code" ELSE @]
  BY DEF Comments!LineLexed
<1>4. /\ state.mode = IF w.mode \in {"raw", "ddd", "sss"} THEN w.mode ELSE "code"
      /\ state.closed = IF before = "code" THEN 0 ELSE w.closed
  BY DEF Comments!update_multiline_state
<1>5. part = IF before = "code" THEN line ELSE IF state.closed = 0 THEN <<>> ELSE SubSeq(line, state.closed + 1, n)
  BY Zenon DEF Comments!ScannedPart
<1> HIDE DEF L, W, lexed, state, part, before
<1>6. l \in LexStates /\ w \in ScanStates
  BY <1>1, <1>2 DEF IsLexWalk, IsScanWalk
<1>7. /\ lexed.mode = (IF l.mode = "comment" THEN "code" ELSE l.mode)
      /\ lexed.inner = l.inner /\ lexed.marked = l.marked
  <2> HIDE DEF l
  <2>1. QED
    BY <1>3, <1>6 DEF LexStates
<1>8. l.mode \in {"code", "comment", "raw", "block", "ddd", "sss"} /\ ~Lost(l)
  <2>1. lexed.mode \in {"code", "raw", "block", "ddd", "sss"} /\ lexed.inner = FALSE
    BY DEF lexed
  <2>2. QED
    BY <1>7, <2>1 DEF Lost
<1>9. l.mode \notin Foreign(lang) /\ w.mode = ScanModeOf(l.mode)
  <2>1. Follows(lang, line, n, l, w)
    BY <1>1, <1>2, WalksFollow DEF before
  <2>2. QED
    BY <1>8, <2>1 DEF Follows
<1>10. lexed.mode \in Between(lang) /\ state.mode = ScanModeOf(lexed.mode)
  <2> HIDE DEF l, w
  <2>1. QED
    BY <1>4, <1>7, <1>8, <1>9 DEF Foreign, Between, LongModes, ScanModeOf
<1>11. Comments!Marked(part, CommentSign(lang)) # <<>> <=> l.marked = TRUE
  <2>1. CASE before = "code"
    <3>1. (L[0].mode = "code" \/ (lang = "Go" /\ L[0].mode = "block")) /\ L[0].skip = 0 /\ L[0].marked = FALSE
      BY <1>2, <2>1 DEF before, IsLexWalk, LexStart, ScanModeOf, Between, LongModes
    <3>2. part = line
      BY <1>5, <2>1
    <3>3. /\ \A k \in 0..Len(line) : L[k] \in LexStates
          /\ \A k \in Nat : k + 1 <= Len(line) => L[k + 1] = Comments!Lex(lang, line, L[k], k + 1)
      BY <1>2 DEF IsLexWalk
    <3>4. QED
      BY <1>8, <3>1, <3>2, <3>3, CommentIsFound
  <2>2. CASE before # "code"
    <3>1. mode \in LongModes(lang) /\ before = mode
      BY <2>2 DEF before, Between, ScanModeOf
    <3>2. Closes(line, mode, n, l, w) /\ ClosedBy(n, L, W)
      BY <1>1, <1>2, <1>8, <3>1, WalksClose
    <3>3. state.closed = w.closed
      BY <1>4, <2>2
    <3>4. CASE w.closed = 0
      <4>1. part = <<>>
        BY <1>5, <2>2, <3>3, <3>4
      <4>2. l.marked = FALSE
        BY <1>8, <3>2, <3>4 DEF Closes
      <4>3. \A i \in DOMAIN <<>> : <<>>[i] = CommentSign(lang) => Comments!is_inside_string_literal(<<>>, i)
        OBVIOUS
      <4>4. Comments!Marked(<<>>, CommentSign(lang)) = <<>>
        BY <4>3, NothingIsMarked
      <4>5. QED
        BY <4>1, <4>2, <4>4
    <3>5. CASE w.closed # 0
      <4> DEFINE c == w.closed
      <4>1. c \in Nat /\ 0 < c /\ c <= n
        <5>1. c \in Nat
          BY <1>6 DEF ScanStates
        <5>2. (0 < c /\ n <= c /\ c <= n) \/ (0 < c /\ c < n)
          BY <1>8, <3>2, <3>5 DEF Closes
        <5> HIDE DEF c, n
        <5>3. QED
          BY <1>1, <5>1, <5>2
      <4>2. L[c].mode = "code" /\ L[c].skip = 0 /\ L[c].marked = FALSE
        BY <3>2, <4>1 DEF ClosedBy
      <4>3. part = SubSeq(line, c + 1, n)
        BY <1>5, <2>2, <3>3, <3>5
      <4>4. c \in 0..Len(line)
        BY <4>1
      <4> HIDE DEF c
      <4>5. QED
        BY <1>2, <1>8, <4>2, <4>3, <4>4, PartIsLexed
    <3>6. QED
      BY <3>4, <3>5
  <2>3. QED
    BY <2>1, <2>2
<1>12. Comments!find_suppression_in_line(part, lang) # <<>> <=> lexed.marked = TRUE
  BY <1>7, <1>11, OneSign
<1>13. QED
  BY <1>10, <1>12 DEF lexed, state, part, before

\* What the lexer says of a line has the type of its states.
LEMMA LexedHasType ==
    ASSUME NEW lang, NEW line, Len(line) \in Nat, NEW mode \in LexModes
    PROVE  Comments!LineLexed(lang, line, mode) \in LexStates
<1> DEFINE L == Comments!LexWalk(lang, line, mode)
           l == L[Len(line)]
<1>1. l \in LexStates
  <2>1. IsLexWalk(lang, line, mode, L)
    BY LinesAreLexed
  <2> HIDE DEF L
  <2>2. QED
    BY <2>1 DEF IsLexWalk
<1>2. Comments!LineLexed(lang, line, mode) = [l EXCEPT !.mode = IF @ = "comment" THEN "code" ELSE @]
  BY DEF Comments!LineLexed
<1> HIDE DEF l
<1>3. QED
  BY <1>1, <1>2 DEF LexStates, LexModes

IsModes(source, lang, modes) ==
    /\ modes[0] = "code"
    /\ \A k \in Nat : k + 1 <= Len(source) =>
           modes[k + 1] = Comments!LineLexed(lang, source[k + 1], modes[k]).mode
    /\ \A k \in 0..Len(source) : modes[k] \in LexModes

\* LineModes is a loop over the lines of a source.
LEMMA SourceIsLexed ==
    ASSUME NEW lang, NEW V, NEW source \in Seq(Seq(V))
    PROVE  IsModes(source, lang, Comments!LineModes(source, lang))
<1> DEFINE n == Len(source)
           Rounds(modes) == modes = [i \in 0..n |-> IF i = 0 THEN "code"
                                                    ELSE Comments!LineLexed(lang, source[i], modes[i - 1]).mode]
           next == [i \in 1..n |-> [m \in LexModes |-> Comments!LineLexed(lang, source[i], m).mode]]
           modes == CHOOSE modes : Rounds(modes)
<1>1. "code" \in LexModes /\ n \in Nat /\ \A i \in 1..n : Len(source[i]) \in Nat
  BY DEF LexModes
<1>2. \A i \in 1..n : \A m \in LexModes : Comments!LineLexed(lang, source[i], m).mode \in LexModes
  <2> TAKE i \in 1..n
  <2> TAKE m \in LexModes
  <2>1. Comments!LineLexed(lang, source[i], m) \in LexStates
    BY <1>1, LexedHasType
  <2>2. QED
    BY <2>1 DEF LexStates
<1>3. next \in [1..n -> [LexModes -> LexModes]]
  BY <1>2
<1>4. \A i \in 1..n : \A m \in LexModes : next[i][m] = Comments!LineLexed(lang, source[i], m).mode
  OBVIOUS
<1> HIDE DEF next, n
<1>5. PICK loop \in [0..n -> LexModes] : IsLoop(loop, "code", n, next)
  BY <1>1, <1>3, LoopExists
<1>6. Rounds(loop)
  <2>1. \A i \in 0..n : i # 0 => i \in 1..n /\ loop[i - 1] \in LexModes
    BY <1>1
  <2>2. \A i \in 0..n : i # 0 => next[i][loop[i - 1]] = Comments!LineLexed(lang, source[i], loop[i - 1]).mode
    BY <1>4, <2>1
  <2>3. QED
    BY <1>5, <2>2 DEF IsLoop
<1>7. Rounds(modes)
  BY <1>6
<1>8. Comments!LineModes(source, lang) = modes
  BY Zenon DEF Comments!LineModes, n
<1> HIDE DEF modes
<1>9. modes[0] = "code"
  BY <1>1, <1>7
<1>10. ASSUME NEW k \in Nat, k + 1 <= n
       PROVE  modes[k + 1] = Comments!LineLexed(lang, source[k + 1], modes[k]).mode
  <2> DEFINE i == k + 1
  <2>1. i \in 0..n /\ i # 0 /\ i - 1 = k
    BY <1>1, <1>10
  <2> HIDE DEF i
  <2>2. modes[i] = Comments!LineLexed(lang, source[i], modes[k]).mode
    BY <1>7, <2>1
  <2>3. QED
    BY <2>2 DEF i
<1>11. \A k \in 0..n : modes[k] \in LexModes
  <2>1. \A k \in Nat : k + 1 <= n /\ modes[k] \in LexModes => modes[k + 1] \in LexModes
    <3> TAKE k \in Nat
    <3>1. k + 1 <= n => k + 1 \in 1..n
      BY <1>1
    <3>2. QED
      BY <1>2, <1>10, <3>1
  <2>2. QED
    BY <1>1, <1>9, <2>1, LoopStays
<1>12. QED
  BY <1>8, <1>9, <1>10, <1>11 DEF IsModes, n

\* What the scan holds after each line.
RulesOn(source, lang, i, mode) ==
    Comments!parse_suppression_rules(
        Comments!find_suppression_in_line(Comments!ScannedPart(source[i], lang, mode), lang)[1])

RulesFound(source, lang) == {RulesOn(source, lang, i, m) : i \in 1..Len(source), m \in ScanModes}

Found(source, lang) ==
    [mode : ScanModes, out : SUBSET {[line |-> i, rules |-> r] : i \in 1..Len(source), r \in RulesFound(source, lang)}]

\* The scan of one line keeps the type of what the scan holds.
LEMMA ScanHasType ==
    ASSUME NEW lang, NEW V, NEW source \in Seq(Seq(V)), NEW i \in 1..Len(source), NEW acc \in Found(source, lang)
    PROVE  Comments!ScanLine(source, lang, acc, i) \in Found(source, lang)
<1> DEFINE line == source[i]
           state == Comments!update_multiline_state(line, lang, acc.mode)
           found == Comments!find_suppression_in_line(Comments!ScannedPart(line, lang, acc.mode), lang)
           rules == Comments!parse_suppression_rules(found[1])
           out == IF found = <<>> THEN acc.out ELSE acc.out \cup {[line |-> i, rules |-> rules]}
<1>1. acc.mode \in ScanModes
      /\ acc.out \in SUBSET {[line |-> j, rules |-> r] : j \in 1..Len(source), r \in RulesFound(source, lang)}
  BY DEF Found
<1>2. rules \in RulesFound(source, lang)
  <2> DEFINE mode == acc.mode
  <2>1. rules = RulesOn(source, lang, i, mode)
    BY Zenon DEF RulesOn
  <2>2. mode \in ScanModes
    BY <1>1
  <2> HIDE DEF mode, rules
  <2>3. QED
    BY <2>1, <2>2 DEF RulesFound
<1>3. state.mode \in ScanModes
  <2> DEFINE W == Comments!MultilineWalk(line, lang, acc.mode)
             w == W[Len(line)]
  <2>1. Len(line) \in Nat
    OBVIOUS
  <2>2. IsScanWalk(lang, line, acc.mode, W)
    BY <1>1, <2>1, LinesAreScanned
  <2>3. w \in ScanStates
    <3> HIDE DEF W, line
    <3>1. QED
      BY <2>1, <2>2 DEF IsScanWalk
  <2>4. state.mode = IF w.mode \in {"raw", "ddd", "sss"} THEN w.mode ELSE "code"
    BY DEF Comments!update_multiline_state
  <2> HIDE DEF w, state
  <2>5. QED
    BY <2>3, <2>4 DEF ScanModes
<1>4. Comments!ScanLine(source, lang, acc, i) = [mode |-> state.mode, out |-> out]
  BY Zenon DEF Comments!ScanLine
<1> HIDE DEF state, found, rules
<1>5. out \in SUBSET {[line |-> j, rules |-> r] : j \in 1..Len(source), r \in RulesFound(source, lang)}
  BY <1>1, <1>2
<1> HIDE DEF out
<1>6. QED
  BY <1>3, <1>4, <1>5 DEF Found

ScanBegun == [mode |-> "code", out |-> {}]

IsScan(source, lang, scan) ==
    /\ scan[0] = ScanBegun
    /\ \A k \in Nat : k + 1 <= Len(source) => scan[k + 1] = Comments!ScanLine(source, lang, scan[k], k + 1)

\* scan_suppressions is a loop over the lines of a source.
LEMMA SourceIsScanned ==
    ASSUME NEW lang, NEW V, NEW source \in Seq(Seq(V))
    PROVE  \E scan : /\ IsScan(source, lang, scan)
                     /\ Comments!scan_suppressions(source, lang) = scan[Len(source)].out
<1> DEFINE n == Len(source)
           Rounds(scan) == scan = [i \in 0..n |-> IF i = 0 THEN [mode |-> "code", out |-> {}]
                                                  ELSE Comments!ScanLine(source, lang, scan[i - 1], i)]
           states == Found(source, lang)
           next == [i \in 1..n |-> [acc \in states |-> Comments!ScanLine(source, lang, acc, i)]]
           scan == CHOOSE scan : Rounds(scan)
<1>1. ScanBegun \in states /\ n \in Nat
  BY DEF ScanBegun, Found, ScanModes
<1>2. \A i \in 1..n : \A acc \in states : Comments!ScanLine(source, lang, acc, i) \in states
  BY ScanHasType
<1> HIDE DEF states
<1>3. next \in [1..n -> [states -> states]]
  BY <1>2
<1>4. \A i \in 1..n : \A acc \in states : next[i][acc] = Comments!ScanLine(source, lang, acc, i)
  OBVIOUS
<1> HIDE DEF next, n
<1>5. PICK loop \in [0..n -> states] : IsLoop(loop, ScanBegun, n, next)
  BY <1>1, <1>3, LoopExists
<1>6. Rounds(loop)
  <2>1. \A i \in 0..n : i # 0 => i \in 1..n /\ loop[i - 1] \in states
    BY <1>1
  <2>2. \A i \in 0..n : i # 0 => next[i][loop[i - 1]] = Comments!ScanLine(source, lang, loop[i - 1], i)
    BY <1>4, <2>1
  <2>3. QED
    BY <1>5, <2>2 DEF IsLoop, ScanBegun
<1>7. Rounds(scan)
  BY <1>6
<1>8. Comments!scan_suppressions(source, lang) = scan[n].out
  BY Zenon DEF Comments!scan_suppressions, n
<1> HIDE DEF scan
<1>9. scan[0] = ScanBegun
  BY <1>1, <1>7 DEF ScanBegun
<1>10. ASSUME NEW k \in Nat, k + 1 <= n
       PROVE  scan[k + 1] = Comments!ScanLine(source, lang, scan[k], k + 1)
  <2> DEFINE i == k + 1
  <2>1. i \in 0..n /\ i # 0 /\ i - 1 = k
    BY <1>1, <1>10
  <2> HIDE DEF i
  <2>2. scan[i] = Comments!ScanLine(source, lang, scan[k], i)
    BY <1>7, <2>1
  <2>3. QED
    BY <2>2 DEF i
<1>11. QED
  BY <1>8, <1>9, <1>10 DEF IsScan, n

\* The lines of a source on which the lexer has found a mark in a comment.
MarkedUpTo(source, lang, k) == {j \in 1..k : Comments!LineOf(source, lang, j).marked = TRUE}

\* On a well-formed source the scan finds the lines on which the lexer does.
LEMMA ScanFindsComments ==
    ASSUME NEW lang \in {"Go", "Python"}, NEW V, NEW source \in Seq(Seq(V)),
           Comments!WellFormed(source, lang), ~Comments!HoldsDelimiters(source, lang)
    PROVE  {s.line : s \in Comments!scan_suppressions(source, lang)} = Comments!CommentLines(source, lang)
<1> DEFINE n == Len(source)
           modes == Comments!LineModes(source, lang)
<1>1. n \in Nat /\ DOMAIN source = 1..n
  OBVIOUS
<1>2. IsModes(source, lang, modes)
  BY SourceIsLexed
<1>3. PICK scan : IsScan(source, lang, scan) /\ Comments!scan_suppressions(source, lang) = scan[n].out
  BY SourceIsScanned
<1>4. \A k \in 0..n : modes[k] \in {"code", "raw", "block", "ddd", "sss"}
  BY DEF Comments!WellFormed
<1>5. \A i \in 1..n : Comments!LineOf(source, lang, i) = Comments!LineLexed(lang, source[i], modes[i - 1])
  BY Zenon DEF Comments!LineOf
<1> HIDE DEF modes
<1>6. \A i \in 1..n : Comments!LineOf(source, lang, i) \in LexStates
  <2> TAKE i \in 1..n
  <2>1. Len(source[i]) \in Nat /\ i - 1 \in 0..n
    BY <1>1
  <2>2. modes[i - 1] \in LexModes
    BY <1>2, <2>1 DEF IsModes
  <2>3. QED
    BY <1>5, <2>1, <2>2, LexedHasType
<1>7. \A i \in 1..n : Comments!LineOf(source, lang, i).inner = FALSE
  BY <1>1, <1>6 DEF Comments!HoldsDelimiters, LexStates
<1> DEFINE Holds(k) == /\ scan[k].mode = ScanModeOf(modes[k]) /\ modes[k] \in Between(lang)
                       /\ {s.line : s \in scan[k].out} = MarkedUpTo(source, lang, k)
           good == {k \in Nat : k <= n => Holds(k)}
<1>8. 0 \in good
  <2>1. scan[0].mode = "code" /\ scan[0].out = {} /\ modes[0] = "code"
    BY <1>2, <1>3 DEF IsScan, ScanBegun, IsModes
  <2>2. MarkedUpTo(source, lang, 0) = {}
    BY DEF MarkedUpTo
  <2>3. QED
    BY <2>1, <2>2 DEF ScanModeOf, Between
<1>9. ASSUME NEW k \in Nat, k \in good
      PROVE  k + 1 \in good
  <2> SUFFICES ASSUME k + 1 <= n
               PROVE  Holds(k + 1)
    OBVIOUS
  <2> DEFINE i == k + 1
             line == source[i]
             mode == modes[k]
             before == ScanModeOf(mode)
             lexed == Comments!LineOf(source, lang, i)
             found == Comments!find_suppression_in_line(Comments!ScannedPart(line, lang, before), lang)
             rules == Comments!parse_suppression_rules(found[1])
  <2>1. i \in 1..n /\ i - 1 = k /\ k <= n /\ i \in 0..n
    BY <1>1
  <2>2. Holds(k)
    BY <1>9, <2>1
  <2>3. lexed = Comments!LineLexed(lang, line, mode)
    BY <1>5, <2>1
  <2>4. modes[i] = lexed.mode
    BY <1>2, <2>1, <2>3 DEF IsModes
  <2>5. lexed.mode \in {"code", "raw", "block", "ddd", "sss"} /\ lexed.inner = FALSE /\ lexed.marked \in BOOLEAN
    BY <1>4, <1>6, <1>7, <2>1, <2>4 DEF LexStates
  <2>6. line \in Seq(V) /\ mode \in Between(lang)
    BY <2>1, <2>2
  <2>7. /\ lexed.mode \in Between(lang)
        /\ Comments!update_multiline_state(line, lang, before).mode = ScanModeOf(lexed.mode)
        /\ found # <<>> <=> lexed.marked = TRUE
    <3> HIDE DEF line, mode, lexed, found
    <3>1. /\ Comments!LineLexed(lang, line, mode).mode \in {"code", "raw", "block", "ddd", "sss"}
          /\ Comments!LineLexed(lang, line, mode).inner = FALSE
      BY <2>3, <2>5
    <3>2. LET lx == Comments!LineLexed(lang, line, mode)
          IN  /\ lx.mode \in Between(lang)
              /\ Comments!update_multiline_state(line, lang, ScanModeOf(mode)).mode = ScanModeOf(lx.mode)
              /\ Comments!find_suppression_in_line(Comments!ScannedPart(line, lang, ScanModeOf(mode)), lang) # <<>>
                 <=> lx.marked = TRUE
      BY <2>6, <3>1, LineIsScanned
    <3>3. QED
      BY <2>3, <3>2 DEF found, before
  <2>8. scan[i] = Comments!ScanLine(source, lang, scan[k], i) /\ scan[k].mode = before
    BY <1>3, <2>1, <2>2 DEF IsScan
  <2>9. Comments!ScanLine(source, lang, scan[k], i) =
            [mode |-> Comments!update_multiline_state(line, lang, before).mode,
             out |-> IF found = <<>> THEN scan[k].out ELSE scan[k].out \cup {[line |-> i, rules |-> rules]}]
    BY <2>8, Zenon DEF Comments!ScanLine
  <2> HIDE DEF line, mode, before, lexed, found, rules
  <2>10. scan[i].mode = ScanModeOf(modes[i]) /\ modes[i] \in Between(lang)
    BY <2>4, <2>7, <2>8, <2>9
  <2>11. scan[i].out = IF lexed.marked = TRUE THEN scan[k].out \cup {[line |-> i, rules |-> rules]} ELSE scan[k].out
    <3> DEFINE out == IF found = <<>> THEN scan[k].out ELSE scan[k].out \cup {[line |-> i, rules |-> rules]}
    <3>1. scan[i].out = out
      <4>1. scan[i] = [mode |-> Comments!update_multiline_state(line, lang, before).mode, out |-> out]
        BY <2>8, <2>9, Zenon
      <4> HIDE DEF out
      <4>2. QED
        BY <4>1
    <3>2. QED
      BY <2>7, <3>1
  <2>12. MarkedUpTo(source, lang, i) = MarkedUpTo(source, lang, k) \cup (IF lexed.marked = TRUE THEN {i} ELSE {})
    <3>1. \A j : j \in 1..i <=> j \in 1..k \/ j = i
      BY <2>1
    <3>2. QED
      BY <3>1 DEF MarkedUpTo, lexed
  <2>13. {s.line : s \in scan[i].out} = MarkedUpTo(source, lang, i)
    <3>1. {s.line : s \in scan[k].out} = MarkedUpTo(source, lang, k)
      BY <2>2
    <3>2. [line |-> i, rules |-> rules].line = i
      OBVIOUS
    <3>3. \A S, r : r.line = i => {s.line : s \in S \cup {r}} = {s.line : s \in S} \cup {i}
      OBVIOUS
    <3>4. CASE lexed.marked = TRUE
      <4>1. scan[i].out = scan[k].out \cup {[line |-> i, rules |-> rules]}
        BY <2>11, <3>4
      <4>2. MarkedUpTo(source, lang, i) = MarkedUpTo(source, lang, k) \cup {i}
        BY <2>12, <3>4
      <4>3. {s.line : s \in scan[k].out \cup {[line |-> i, rules |-> rules]}} = {s.line : s \in scan[k].out} \cup {i}
        BY <3>2, <3>3, Zenon
      <4>4. QED
        BY <3>1, <4>1, <4>2, <4>3
    <3>5. CASE lexed.marked # TRUE
      BY <2>11, <2>12, <3>1, <3>5
    <3>6. QED
      BY <3>4, <3>5
  <2>14. QED
    BY <2>10, <2>13
<1> HIDE DEF good
<1>10. Nat \subseteq good
  BY <1>8, <1>9, EveryNumberFollows
<1>11. Holds(n)
  BY <1>1, <1>10 DEF good
<1>12. MarkedUpTo(source, lang, n) = Comments!CommentLines(source, lang)
  <2>1. \A i \in 1..n : Comments!LineOf(source, lang, i).marked \in BOOLEAN
    BY <1>6 DEF LexStates
  <2>2. QED
    BY <1>1, <2>1 DEF MarkedUpTo, Comments!CommentLines
<1>13. QED
  BY <1>3, <1>11, <1>12

(***************************************************************************)
(* Audits.                                                                 *)
(***************************************************************************)

\* The operators of the library, as the module Reviews sees them.
LEMMA SameLibrary ==
    /\ \A S : Gates!Cardinality(S) = Cardinality(S)
    /\ \A s : Gates!ToSet(s) = ToSet(s)
<1>1. \A S : Gates!Cardinality(S) = Cardinality(S)
  BY Zenon DEF Gates!Cardinality, Cardinality
<1>2. \A s : Gates!ToSet(s) = ToSet(s)
  BY DEF Gates!ToSet, ToSet
<1>3. QED
  BY <1>1, <1>2
\* The place that the i-th of the findings has when others stand before the last.
Moved(before, others, i) == IF i <= Len(before) THEN i ELSE i + Len(others)

Places(seq, P) == {i \in DOMAIN seq : seq[i] \in P}

\* Of more findings at least as many pass a test.
LEMMA MoreAreCounted ==
    ASSUME NEW V, NEW before \in Seq(V), NEW others \in Seq(V), NEW after \in Seq(V), NEW P
    PROVE  LET few == Cardinality(Places(before \o after, P))
               many == Cardinality(Places((before \o others) \o after, P))
           IN  few \in Nat /\ many \in Nat /\ few <= many
<1> DEFINE few == before \o after
           many == (before \o others) \o after
           S == Places(few, P)
           T == Places(many, P)
           f == [i \in S |-> Moved(before, others, i)]
<1>1. few \in Seq(V) /\ many \in Seq(V)
  OBVIOUS
<1>2. /\ Len(few) = Len(before) + Len(after)
      /\ Len(many) = Len(before) + Len(others) + Len(after)
  OBVIOUS
<1>3. \A i \in DOMAIN few : Moved(before, others, i) \in DOMAIN many /\ many[Moved(before, others, i)] = few[i]
  BY DEF Moved
<1>4. IsFiniteSet(S) /\ IsFiniteSet(T)
  <2>1. IsFiniteSet(DOMAIN few) /\ IsFiniteSet(DOMAIN many)
    <3> DEFINE m == Len(few)
               n == Len(many)
    <3>1. m \in Int /\ n \in Int /\ 1 \in Int /\ DOMAIN few = 1..m /\ DOMAIN many = 1..n
      BY <1>1
    <3> HIDE DEF m, n, few, many
    <3>2. QED
      BY <3>1, FS_Interval, Zenon
  <2>2. S \subseteq DOMAIN few /\ T \subseteq DOMAIN many
    BY DEF Places
  <2> HIDE DEF S, T, few, many
  <2>3. QED
    BY <2>1, <2>2, FS_Subset, Zenon
<1>5. f \in Injection(S, T)
  <2>1. \A i \in S : Moved(before, others, i) \in T
    BY <1>3 DEF Places
  <2>2. \A i, j \in S : Moved(before, others, i) = Moved(before, others, j) => i = j
    <3>1. \A i, j \in DOMAIN few : Moved(before, others, i) = Moved(before, others, j) => i = j
      <4>1. \A i \in DOMAIN few : i \in Nat /\ Len(before) \in Nat /\ Len(others) \in Nat
        BY <1>1
      <4> HIDE DEF few
      <4>2. QED
        BY <4>1 DEF Moved
    <3>2. QED
      BY <3>1 DEF Places
  <2> HIDE DEF S, T
  <2>3. f \in [S -> T] /\ \A i, j \in S : f[i] = f[j] => i = j
    BY <2>1, <2>2
  <2> HIDE DEF f
  <2>4. QED
    BY <2>3 DEF Injection, IsInjective
<1>6. Cardinality(S) <= Cardinality(T) /\ Cardinality(S) \in Nat /\ Cardinality(T) \in Nat
  <2> HIDE DEF S, T, f
  <2>1. Cardinality(S) <= Cardinality(T)
    BY <1>4, <1>5, FS_Injection
  <2>2. QED
    BY <1>4, <2>1, FS_CardinalityType
<1>7. QED
  BY <1>6

VerdictOf(config, n) ==
    IF config.fail_threshold > 0 /\ n >= config.fail_threshold THEN "fail"
    ELSE IF config.warn_threshold > 0 /\ n >= config.warn_threshold THEN "warn" ELSE "pass"

KnownIn(stored) == IF stored.readable THEN ToSet(stored.findings) ELSE {}

New(findings, stored) == {i \in DOMAIN findings : Gates!from_finding(findings[i]) \notin KnownIn(stored)}

\* What the verdict of an audit is made of.
LEMMA VerdictIsOfACount ==
    ASSUME NEW current, NEW stored, NEW config, config.inside
    PROVE  LET answer == Gates!analyze(current, stored, config)
           IN  /\ answer.failed = FALSE
               /\ answer.report.verdict =
                      VerdictOf(config, IF config.gate_mode = "all" THEN Len(current)
                                        ELSE Cardinality(New(current, stored)))
<1> DEFINE mode == Gates!from_str_loose(config.gate_mode)
           gate_mode == IF mode = <<>> THEN "new-only" ELSE mode[1]
           baseline == IF stored.readable THEN stored.findings ELSE <<>>
           report == Gates!compare_findings(current, baseline, gate_mode, config.warn_threshold, config.fail_threshold)
           answer == Gates!analyze(current, stored, config)
<1>1. answer.failed = FALSE /\ answer.report = report
  <2> HIDE DEF report
  <2>1. QED
    BY DEF Gates!analyze, report, baseline, gate_mode, mode
<1>2. gate_mode = "all" <=> config.gate_mode = "all"
  BY DEF Gates!from_str_loose
<1>3. Gates!ToSet(baseline) = KnownIn(stored)
  <2>1. ToSet(<<>>) = {}
    BY DEF ToSet
  <2>2. Gates!ToSet(baseline) = ToSet(baseline)
    BY SameLibrary
  <2>3. QED
    BY <2>1, <2>2 DEF KnownIn
<1>4. report.verdict =
          VerdictOf(config, IF gate_mode = "all" THEN Len(current) ELSE Cardinality(New(current, stored)))
  <2> HIDE DEF gate_mode, baseline
  <2> DEFINE fresh == {i \in DOMAIN current : Gates!from_finding(current[i]) \notin Gates!ToSet(baseline)}
             n == IF gate_mode = "all" THEN Len(current) ELSE Gates!Cardinality(fresh)
  <2>1. fresh = New(current, stored)
    BY <1>3 DEF New
  <2>2. report.verdict = IF config.fail_threshold > 0 /\ n >= config.fail_threshold THEN "fail"
                         ELSE IF config.warn_threshold > 0 /\ n >= config.warn_threshold THEN "warn" ELSE "pass"
    BY DEF Gates!compare_findings, Gates!Count
  <2>3. n = IF gate_mode = "all" THEN Len(current) ELSE Cardinality(New(current, stored))
    BY <2>1, SameLibrary, Zenon
  <2> HIDE DEF n, report
  <2>4. QED
    BY <2>2, <2>3 DEF VerdictOf
<1> HIDE DEF report, gate_mode, answer
<1>5. QED
  BY <1>1, <1>2, <1>4 DEF answer

\* A larger count is judged no better, and a count of zero passes.
LEMMA LargerIsNoBetter ==
    ASSUME NEW config, config.warn_threshold \in Nat, config.fail_threshold \in Nat,
           NEW m \in Nat, NEW n \in Nat, m <= n
    PROVE  /\ Rank[VerdictOf(config, m)] <= Rank[VerdictOf(config, n)]
           /\ VerdictOf(config, 0) = "pass"
BY DEF Rank, VerdictOf

\* What the audit of a change and of more finds.
LEMMA MoreIsJudged ==
    ASSUME NEW in, in.config.inside,
           \A found \in {in.findings, in.others, in.complexity.findings} : found \in Seq(ToSet(found)),
           in.config.warn_threshold \in Nat, in.config.fail_threshold \in Nat
    PROVE  LET all == ToSet(in.findings) \cup (IF in.complexity.ok THEN ToSet(in.complexity.findings) ELSE {})
               plain == Audited(in, in.findings)
               more == Audited(in, in.findings \o in.others)
           IN  /\ Rank[plain.report.verdict] <= Rank[more.report.verdict]
               /\ in.config.gate_mode # "all" /\ {Gates!from_finding(f) : f \in all} \subseteq KnownIn(in.stored) =>
                      plain.report.verdict = "pass"
<1> DEFINE before == in.findings
           others == in.others
           after == IF in.complexity.ok THEN in.complexity.findings ELSE <<>>
           V == (ToSet(before) \cup ToSet(others)) \cup ToSet(in.complexity.findings)
           few == before \o after
           many == (before \o others) \o after
           config == in.config
           stored == in.stored
           plain == Audited(in, before)
           more == Audited(in, before \o others)
           all == ToSet(before) \cup (IF in.complexity.ok THEN ToSet(in.complexity.findings) ELSE {})
           P == {f \in V : Gates!from_finding(f) \notin KnownIn(stored)}
           m == IF config.gate_mode = "all" THEN Len(few) ELSE Cardinality(New(few, stored))
           n == IF config.gate_mode = "all" THEN Len(many) ELSE Cardinality(New(many, stored))
<1>1. before \in Seq(V) /\ others \in Seq(V) /\ after \in Seq(V)
  <2>1. /\ before \in Seq(ToSet(before)) /\ others \in Seq(ToSet(others))
        /\ in.complexity.findings \in Seq(ToSet(in.complexity.findings))
    OBVIOUS
  <2>2. ToSet(before) \subseteq V /\ ToSet(others) \subseteq V /\ ToSet(in.complexity.findings) \subseteq V
    OBVIOUS
  <2>3. \A S : S \subseteq V => Seq(S) \subseteq Seq(V)
    OBVIOUS
  <2> HIDE DEF V
  <2>4. <<>> \in Seq(V)
    OBVIOUS
  <2>5. QED
    BY <2>1, <2>2, <2>3, <2>4
<1>2. plain = Gates!analyze(few, stored, config) /\ more = Gates!analyze(many, stored, config)
  BY DEF Audited, Gates!cmd_audit, Gates!FindingsOf
<1>3. plain.report.verdict = VerdictOf(config, m) /\ more.report.verdict = VerdictOf(config, n)
  <2> HIDE DEF few, many, plain, more, config, stored
  <2>1. config.inside
    BY DEF config
  <2>2. QED
    BY <1>2, <2>1, VerdictIsOfACount
<1> HIDE DEF V
<1>4. few \in Seq(V) /\ many \in Seq(V)
  BY <1>1
<1>5. New(few, stored) = Places(few, P) /\ New(many, stored) = Places(many, P)
  <2>1. \A s : s \in Seq(V) => New(s, stored) = Places(s, P)
    <3> TAKE s
    <3> HAVE s \in Seq(V)
    <3>1. \A i \in DOMAIN s : s[i] \in V
      OBVIOUS
    <3>2. QED
      BY <3>1 DEF New, Places
  <2> HIDE DEF few, many, P
  <2>2. QED
    BY <1>4, <2>1
<1>6. m \in Nat /\ n \in Nat /\ m <= n
  <2>1. Len(few) \in Nat /\ Len(many) \in Nat /\ Len(few) <= Len(many)
    <3> HIDE DEF before, others, after
    <3>1. QED
      BY <1>1
  <2>2. LET c == Cardinality(Places(few, P))
            d == Cardinality(Places(many, P))
        IN  c \in Nat /\ d \in Nat /\ c <= d
    <3> HIDE DEF before, others, after, P
    <3>1. QED
      BY <1>1, MoreAreCounted
  <2> HIDE DEF few, many, P
  <2>3. QED
    BY <1>5, <2>1, <2>2
<1>7. Rank[plain.report.verdict] <= Rank[more.report.verdict]
  <2> HIDE DEF m, n, plain, more
  <2>1. QED
    BY <1>3, <1>6, LargerIsNoBetter
<1>8. ASSUME config.gate_mode # "all", {Gates!from_finding(f) : f \in all} \subseteq KnownIn(stored)
      PROVE  plain.report.verdict = "pass"
  <2>1. \A i \in DOMAIN few : few[i] \in all
    <3>1. /\ \A i \in DOMAIN before : before[i] \in ToSet(before)
          /\ \A i \in DOMAIN after : after[i] \in all
      BY DEF ToSet
    <3>2. \A x \in ToSet(before) : x \in all
      OBVIOUS
    <3> HIDE DEF before, after
    <3>3. \A i \in DOMAIN few : few[i] = IF i <= Len(before) THEN before[i] ELSE after[i - Len(before)]
      BY <1>1
    <3>4. \A i \in DOMAIN few : IF i <= Len(before) THEN i \in DOMAIN before ELSE i - Len(before) \in DOMAIN after
      BY <1>1
    <3> HIDE DEF few, all
    <3>5. QED
      BY <3>1, <3>2, <3>3, <3>4
  <2>2. New(few, stored) = {}
    <3> HIDE DEF few, all
    <3>1. QED
      BY <1>8, <2>1 DEF New
  <2>3. m = 0
    <3> HIDE DEF few
    <3>1. QED
      BY <1>8, <2>2, FS_EmptySet
  <2> HIDE DEF m, plain
  <2>4. QED
    BY <1>3, <1>6, <2>3, LargerIsNoBetter
<1>9. QED
  BY <1>7, <1>8

(***************************************************************************)
(* Lists.                                                                  *)
(***************************************************************************)

\* The operators of the library, as the modules SecurityScan and ImportGraph see them.
LEMMA OneLibrary ==
    /\ \A s : Security!FlattenSeq(s) = FlattenSeq(s) /\ Graph!FlattenSeq(s) = FlattenSeq(s)
    /\ \A s : Security!ToSet(s) = ToSet(s) /\ Graph!ToSet(s) = ToSet(s)
    /\ \A S : Security!SetToSeq(S) = SetToSeq(S)
<1>1. \A s : Security!FlattenSeq(s) = FlattenSeq(s)
  BY Zenon DEF Security!FlattenSeq, FlattenSeq
<1>2. \A s : Graph!FlattenSeq(s) = FlattenSeq(s)
  BY Zenon DEF Graph!FlattenSeq, FlattenSeq
<1>3. \A s : Security!ToSet(s) = ToSet(s) /\ Graph!ToSet(s) = ToSet(s)
  BY DEF Security!ToSet, Graph!ToSet, ToSet
<1>4. \A S : Security!Cardinality(S) = Cardinality(S)
  BY Zenon DEF Security!Cardinality, Cardinality
<1>5. \A f : Security!IsInjective(f) = IsInjective(f)
  BY DEF Security!IsInjective, IsInjective
<1>6. \A S : Security!SetToSeq(S) = SetToSeq(S)
  BY <1>4, <1>5, Zenon DEF Security!SetToSeq, SetToSeq
<1>7. QED
  BY <1>1, <1>2, <1>3, <1>6

\* The elements of one sequence after another are those of both.
LEMMA ElementsOfBoth ==
    ASSUME NEW V, NEW s \in Seq(V), NEW t \in Seq(V)
    PROVE  ToSet(s \o t) = ToSet(s) \cup ToSet(t)
<1>1. /\ DOMAIN (s \o t) = 1..(Len(s) + Len(t)) /\ DOMAIN s = 1..Len(s) /\ DOMAIN t = 1..Len(t)
      /\ Len(s) \in Nat /\ Len(t) \in Nat
  OBVIOUS
<1>2. \A i \in 1..(Len(s) + Len(t)) : (s \o t)[i] = IF i <= Len(s) THEN s[i] ELSE t[i - Len(s)]
  OBVIOUS
<1>3. ASSUME NEW x \in ToSet(s \o t)
      PROVE  x \in ToSet(s) \cup ToSet(t)
  <2>1. PICK i \in 1..(Len(s) + Len(t)) : x = (s \o t)[i]
    BY <1>1, <1>3 DEF ToSet
  <2>2. CASE i <= Len(s)
    BY <1>1, <1>2, <2>1, <2>2 DEF ToSet
  <2>3. CASE i > Len(s)
    <3>1. i - Len(s) \in 1..Len(t)
      BY <1>1, <2>3
    <3>2. QED
      BY <1>1, <1>2, <2>1, <2>3, <3>1 DEF ToSet
  <2>4. QED
    BY <1>1, <2>2, <2>3
<1>4. ASSUME NEW x \in ToSet(s)
      PROVE  x \in ToSet(s \o t)
  <2>1. PICK i \in 1..Len(s) : x = s[i]
    BY <1>1, <1>4 DEF ToSet
  <2>2. i \in 1..(Len(s) + Len(t)) /\ (s \o t)[i] = x
    BY <1>1, <1>2, <2>1
  <2>3. QED
    BY <1>1, <2>2 DEF ToSet
<1>5. ASSUME NEW x \in ToSet(t)
      PROVE  x \in ToSet(s \o t)
  <2>1. PICK i \in 1..Len(t) : x = t[i]
    BY <1>1, <1>5 DEF ToSet
  <2> DEFINE k == Len(s) + i
  <2>2. k \in 1..(Len(s) + Len(t)) /\ ~(k <= Len(s)) /\ k - Len(s) = i
    BY <1>1, <2>1
  <2> HIDE DEF k
  <2>3. (s \o t)[k] = x
    BY <1>2, <2>1, <2>2
  <2>4. QED
    BY <1>1, <2>2, <2>3 DEF ToSet
<1>6. QED
  BY <1>3, <1>4, <1>5

\* The elements of a flattened list are those of its parts.
LEMMA FlattenedElements ==
    ASSUME NEW V, NEW n \in Nat, NEW parts \in [1..n -> Seq(V)]
    PROVE  ToSet(FlattenSeq(parts)) = UNION {ToSet(parts[i]) : i \in 1..n}
<1>1. PICK flat \in [0..n -> Seq(V)] :
          /\ flat[0] = <<>>
          /\ \A i \in 1..n : flat[i] = flat[i - 1] \o parts[i]
          /\ FlattenSeq(parts) = flat[n]
  BY FlatteningIsALoop
<1> DEFINE Upto(k) == UNION {ToSet(parts[i]) : i \in 1..k}
           reached == {k \in Nat : k <= n => ToSet(flat[k]) = Upto(k)}
<1>2. 0 \in reached
  <2>1. ToSet(flat[0]) = {} /\ Upto(0) = {}
    BY <1>1 DEF ToSet
  <2>2. QED
    BY <2>1
<1>3. ASSUME NEW k \in Nat, k \in reached
      PROVE  k + 1 \in reached
  <2> SUFFICES ASSUME k + 1 <= n
               PROVE  ToSet(flat[k + 1]) = Upto(k + 1)
    OBVIOUS
  <2>1. k + 1 \in 1..n /\ (k + 1) - 1 = k /\ k <= n /\ k \in 0..n
    OBVIOUS
  <2>2. flat[k + 1] = flat[k] \o parts[k + 1]
    BY <1>1, <2>1
  <2>3. flat[k] \in Seq(V) /\ parts[k + 1] \in Seq(V)
    BY <2>1
  <2>4. ToSet(flat[k + 1]) = ToSet(flat[k]) \cup ToSet(parts[k + 1])
    BY <2>2, <2>3, ElementsOfBoth
  <2>5. ToSet(flat[k]) = Upto(k)
    BY <1>3, <2>1
  <2>6. Upto(k + 1) = Upto(k) \cup ToSet(parts[k + 1])
    <3>1. 1..(k + 1) = 1..k \cup {k + 1}
      OBVIOUS
    <3>2. QED
      BY <3>1, Zenon
  <2>7. QED
    BY <2>4, <2>5, <2>6
<1> HIDE DEF reached
<1>4. Nat \subseteq reached
  BY <1>2, <1>3, EveryNumberFollows
<1>5. ToSet(flat[n]) = Upto(n)
  <2>1. n <= n /\ n \in reached
    BY <1>4
  <2>2. QED
    BY <2>1 DEF reached
<1>6. QED
  BY <1>1, <1>5

\* Flattening lists makes a list.
LEMMA FlattenedIsAList ==
    ASSUME NEW V, NEW n \in Nat, NEW parts \in [1..n -> Seq(V)]
    PROVE  FlattenSeq(parts) \in Seq(V)
<1>1. PICK flat \in [0..n -> Seq(V)] :
          /\ flat[0] = <<>>
          /\ \A i \in 1..n : flat[i] = flat[i - 1] \o parts[i]
          /\ FlattenSeq(parts) = flat[n]
  BY FlatteningIsALoop
<1>2. QED
  BY <1>1

\* A finite set is listed whole.
LEMMA SetIsListed ==
    ASSUME NEW S, IsFiniteSet(S)
    PROVE  SetToSeq(S) \in Seq(S) /\ ToSet(SetToSeq(S)) = S
<1> DEFINE n == Cardinality(S)
<1>1. n \in Nat /\ ExistsBijection(1..n, S)
  BY FS_CardinalityType
<1> HIDE DEF n
<1>2. \E f \in [1..n -> S] : IsInjective(f)
  BY <1>1 DEF ExistsBijection, Bijection, Injection, Surjection, IsInjective
<1>3. PICK f \in [1..n -> S] : f = SetToSeq(S) /\ IsInjective(f)
  BY <1>2 DEF SetToSeq, n
<1>4. f \in Injection(1..n, S)
  BY <1>3 DEF Injection, IsInjective
<1>5. Cardinality(1..n) = n
  <2>1. 1 \in Int /\ n \in Int
    BY <1>1
  <2>2. Cardinality(1..n) = IF 1 > n THEN 0 ELSE n - 1 + 1
    BY <2>1, FS_Interval, Zenon
  <2>3. QED
    BY <1>1, <2>2
<1>6. f \in Surjection(1..n, S)
  BY <1>4, <1>5, FS_Injection DEF n
<1>7. \A x \in S : \E i \in 1..n : f[i] = x
  BY <1>6 DEF Surjection
<1>8. ToSet(f) = S
  BY <1>7 DEF ToSet
<1>9. f \in Seq(S)
  BY <1>1
<1>10. QED
  BY <1>3, <1>8, <1>9

(***************************************************************************)
(* Zones.                                                                  *)
(***************************************************************************)

\* The zones of the presets that have an innermost one.
ZoneNames ==
    [layered |-> {"presentation", "application", "domain", "infrastructure"},
     feature_sliced |-> {"app", "features", "shared"},
     clean |-> {"entities", "usecases", "adapters", "frameworks"}]

IsAList(s) == Len(s) \in Nat /\ DOMAIN s = 1..Len(s)

\* A configuration that keeps one zone from using any other.
KeepsInside(config, names, inner) ==
    /\ IsAList(config.zones) /\ IsAList(config.rules)
    /\ \A i \in DOMAIN config.zones : config.zones[i].name \in names
    /\ \A i \in DOMAIN config.rules : config.rules[i].allow = FALSE
    /\ \A name \in names \ {inner} :
           \E i \in DOMAIN config.rules : config.rules[i].from = inner /\ config.rules[i].to = name

\* The presets keep their innermost zones from using any other.
LEMMA PresetsKeepInside ==
    \A preset \in DOMAIN Innermost :
        preset \in DOMAIN Graph!Presets
        /\ KeepsInside(Graph!Presets[preset], ZoneNames[preset], Innermost[preset])
<1>1. /\ DOMAIN Innermost = {"layered", "feature_sliced", "clean"}
      /\ Innermost["layered"] = "domain" /\ Innermost["feature_sliced"] = "shared" /\ Innermost["clean"] = "entities"
  BY DEF Innermost
<1>2. /\ DOMAIN Graph!Presets = {"layered", "hexagonal", "feature_sliced", "clean"}
      /\ Graph!Presets["layered"] = Graph!layered_config
      /\ Graph!Presets["feature_sliced"] = Graph!feature_sliced_config
      /\ Graph!Presets["clean"] = Graph!clean_config
  BY DEF Graph!Presets
<1>3. KeepsInside(Graph!layered_config, ZoneNames["layered"], "domain")
  BY DEF KeepsInside, IsAList, ZoneNames, Graph!layered_config, Graph!Zone, Graph!Deny
<1>4. KeepsInside(Graph!feature_sliced_config, ZoneNames["feature_sliced"], "shared")
  BY DEF KeepsInside, IsAList, ZoneNames, Graph!feature_sliced_config, Graph!Zone, Graph!Deny
<1>5. KeepsInside(Graph!clean_config, ZoneNames["clean"], "entities")
  BY DEF KeepsInside, IsAList, ZoneNames, Graph!clean_config, Graph!Zone, Graph!Deny
<1>6. QED
  BY <1>1, <1>2, <1>3, <1>4, <1>5

\* Of some places in a list one is the first.
LEMMA OneIsFirst ==
    ASSUME NEW S \in SUBSET Nat, S # {}
    PROVE  \E i \in S : \A k \in 1..i - 1 : k \notin S
<1>1. PICK i \in S : \A k \in S : i <= k
  BY NatHasMinimum
<1>2. \A k \in 1..i - 1 : ~(i <= k)
  BY <1>1
<1>3. QED
  BY <1>1, <1>2

\* Of some places in a list one is the last.
LEMMA OneIsLast ==
    ASSUME NEW n \in Nat, NEW S \in SUBSET 1..n, S # {}
    PROVE  Graph!Max(S) \in S
<1> DEFINE behind == {n - i : i \in S}
<1>1. behind \in SUBSET Nat /\ behind # {}
  <2>1. \A i \in S : n - i \in Nat
    OBVIOUS
  <2>2. QED
    BY <2>1
<1>2. PICK m \in behind : \A b \in behind : m <= b
  BY <1>1, NatHasMinimum
<1>3. PICK i \in S : m = n - i
  BY <1>2
<1>4. \A k \in S : n - i <= n - k
  BY <1>2, <1>3
<1>5. \A k \in S : i >= k
  BY <1>3, <1>4
<1>6. QED
  BY <1>5 DEF Graph!Max

\* A file is in one of the zones, or in none.
LEMMA FileHasAZone ==
    ASSUME NEW path, NEW zones, IsAList(zones)
    PROVE  Graph!file_zone(path, zones) \in {zones[i].name : i \in DOMAIN zones} \cup {"none"}
<1> DEFINE Takes(z) == Len(path) > 1 /\ path[1] \in z.patterns
           matching == {i \in DOMAIN zones : Takes(zones[i])}
           default == Graph!Zone("none", {})
           first == CHOOSE i \in DOMAIN zones : Takes(zones[i]) /\ \A k \in 1..i - 1 : ~Takes(zones[k])
<1>1. Graph!file_zone(path, zones) = (IF \E i \in DOMAIN zones : Takes(zones[i]) THEN zones[first] ELSE default).name
  BY Zenon DEF Graph!file_zone, Graph!FirstOr
<1>2. default.name = "none"
  BY DEF Graph!Zone
<1>3. CASE matching = {}
  BY <1>1, <1>2, <1>3
<1>4. CASE matching # {}
  <2>1. matching \in SUBSET Nat /\ \A i \in DOMAIN zones : \A k \in 1..i - 1 : k \in DOMAIN zones
    BY DEF IsAList
  <2>2. PICK i \in matching : \A k \in 1..i - 1 : k \notin matching
    BY <1>4, <2>1, OneIsFirst
  <2>3. \A k \in 1..i - 1 : ~Takes(zones[k])
    BY <2>1, <2>2
  <2>4. first \in DOMAIN zones
    BY <2>2, <2>3
  <2> HIDE DEF first
  <2>5. QED
    BY <1>1, <1>4, <2>4
<1>5. QED
  BY <1>3, <1>4

\* What every rule that matches denies is not allowed.
LEMMA WhatIsDenied ==
    ASSUME NEW rules, IsAList(rules), \A i \in DOMAIN rules : rules[i].allow = FALSE,
           NEW from, NEW to, \E i \in DOMAIN rules : rules[i].from = from /\ rules[i].to = to
    PROVE  ~Graph!is_dependency_allowed(from, to, rules)
<1> DEFINE Matches(r) == r.from = from /\ r.to \in {to, "*"}
           matching == {i \in DOMAIN rules : Matches(rules[i])}
           default == [allow |-> TRUE]
           first == CHOOSE i \in DOMAIN rules : Matches(rules[i]) /\ \A k \in 1..i - 1 : ~Matches(rules[k])
<1>1. Graph!is_dependency_allowed(from, to, rules) =
          (IF \E i \in DOMAIN rules : Matches(rules[i]) THEN rules[first] ELSE default).allow
  BY Zenon DEF Graph!is_dependency_allowed, Graph!FirstOr
<1>2. matching \in SUBSET Nat /\ \A i \in DOMAIN rules : \A k \in 1..i - 1 : k \in DOMAIN rules
  BY DEF IsAList
<1>3. matching # {}
  OBVIOUS
<1>4. PICK i \in matching : \A k \in 1..i - 1 : k \notin matching
  BY <1>2, <1>3, OneIsFirst
<1>5. \A k \in 1..i - 1 : ~Matches(rules[k])
  BY <1>2, <1>4
<1>6. first \in DOMAIN rules
  BY <1>4, <1>5
<1> HIDE DEF first
<1>7. rules[first].allow = FALSE
  BY <1>6
<1>8. QED
  BY <1>1, <1>3, <1>7

\* The one preset that is named is the configuration.
LEMMA PresetIsTaken ==
    ASSUME NEW preset \in DOMAIN Graph!Presets
    PROVE  Graph!from_config_map(<<[kind |-> "preset", name |-> preset]>>) = <<Graph!Presets[preset]>>
<1> DEFINE entry == [kind |-> "preset", name |-> preset]
           entries == <<entry>>
           first == CHOOSE i \in DOMAIN entries : entries[i].kind = "preset"
                                            /\ \A k \in 1..i - 1 : ~(entries[k].kind = "preset")
<1>1. DOMAIN entries = {1} /\ entries[1] = entry /\ entry.kind = "preset" /\ entry.name = preset
  OBVIOUS
<1> HIDE DEF entry, entries
<1>2. first = 1
  <2>1. \A k \in 1..1 - 1 : ~(entries[k].kind = "preset")
    OBVIOUS
  <2>2. QED
    BY <1>1, <2>1
<1>3. Graph!FirstOr(entries, LAMBDA en : en.kind = "preset", <<>>) = entries[first]
  BY <1>1, Zenon DEF Graph!FirstOr
<1> HIDE DEF first
<1>4. Graph!FirstOr(entries, LAMBDA en : en.kind = "preset", <<>>).name = preset
  BY <1>1, <1>2, <1>3
<1>5. Graph!from_config_map(entries) = <<Graph!Presets[preset]>>
  BY <1>1, <1>4, Zenon DEF Graph!from_config_map
<1>6. QED
  BY <1>5 DEF entries, entry

\* Every node of the graph is one of the files, and the map is walked over them.
LEMMA NodesAreFiles ==
    ASSUME NEW files, files \in Seq(ToSet(files))
    PROVE  LET graph == Graph!add_files(files)
               order == Graph!PathOrder(files)
           IN  /\ \A f \in DOMAIN graph : graph[f] \in ToSet(files)
               /\ order \in Seq(DOMAIN graph)
<1> DEFINE graph == Graph!add_files(files)
           order == Graph!PathOrder(files)
           n == Len(files)
           parsed == {i \in DOMAIN files : Graph!IsParsed(files[i])}
           At(path) == {i \in DOMAIN files : Graph!IsParsed(files[i]) /\ files[i].path = path}
<1>1. n \in Nat /\ DOMAIN files = 1..n
  OBVIOUS
<1>2. DOMAIN graph = {files[i].path : i \in parsed} /\ \A f \in DOMAIN graph : graph[f] = files[Graph!Max(At(f))]
  BY DEF Graph!add_files
<1> HIDE DEF graph, n
<1>3. ASSUME NEW f \in DOMAIN graph
      PROVE  graph[f] \in ToSet(files)
  <2>1. At(f) # {} /\ At(f) \in SUBSET 1..n
    BY <1>1, <1>2
  <2>2. Graph!Max(At(f)) \in At(f)
    BY <1>1, <2>1, OneIsLast
  <2>3. graph[f] = files[Graph!Max(At(f))] /\ Graph!Max(At(f)) \in DOMAIN files
    BY <1>2, <2>2
  <2>4. QED
    BY <2>3 DEF ToSet
<1>4. order \in Seq(DOMAIN graph)
  <2> DEFINE parts == [i \in 1..n |-> IF Graph!IsParsed(files[i]) THEN <<files[i].path>> ELSE <<>>]
  <2>1. order = FlattenSeq(parts)
    BY <1>1, OneLibrary DEF Graph!PathOrder
  <2>2. parts \in [1..n -> Seq(DOMAIN graph)]
    <3>1. ASSUME NEW i \in 1..n
          PROVE  (IF Graph!IsParsed(files[i]) THEN <<files[i].path>> ELSE <<>>) \in Seq(DOMAIN graph)
      <4>1. CASE Graph!IsParsed(files[i])
        <5>1. files[i].path \in DOMAIN graph
          BY <1>1, <1>2, <4>1
        <5>2. QED
          BY <4>1, <5>1
      <4>2. CASE ~Graph!IsParsed(files[i])
        BY <4>2
      <4>3. QED
        BY <4>1, <4>2
    <3>2. QED
      BY <3>1
  <2> HIDE DEF parts, order
  <2>3. FlattenSeq(parts) \in Seq(DOMAIN graph)
    BY <1>1, <2>2, FlattenedIsAList
  <2>4. QED
    BY <2>1, <2>3
<1>5. QED
  BY <1>3, <1>4 DEF graph

\* An edge leads to a file that an import may mean.
LEMMA EdgesMayMean ==
    ASSUME NEW graph, NEW order \in Seq(DOMAIN graph), NEW f \in DOMAIN graph,
           graph[f].imports \in Seq(ToSet(graph[f].imports)),
           NEW t \in ToSet(Graph!build_adjacency(graph, order)[f])
    PROVE  /\ t \in DOMAIN graph
           /\ \E i \in DOMAIN graph[f].imports : Graph!MayMean(graph, f, i, t, Graph!Extensions)
<1> DEFINE imports == graph[f].imports
           n == Len(imports)
           m == Len(order)
           Meant(i, k) == Graph!MayMean(graph, f, i, order[k], Graph!Extensions)
           Edges(i) == [k \in 1..m |-> IF Meant(i, k) THEN <<order[k]>> ELSE <<>>]
           all == [i \in 1..n |-> FlattenSeq(Edges(i))]
           V == DOMAIN graph
<1>1. /\ n \in Nat /\ DOMAIN imports = 1..n
      /\ m \in Nat /\ DOMAIN order = 1..m /\ \A k \in 1..m : order[k] \in V
  OBVIOUS
<1>2. Graph!build_adjacency(graph, order)[f] = FlattenSeq(all)
  BY <1>1, OneLibrary DEF Graph!build_adjacency
<1> HIDE DEF n, m, V
<1>3. ASSUME NEW i \in 1..n
      PROVE  Edges(i) \in [1..m -> Seq(V)]
  <2>1. ASSUME NEW k \in 1..m
        PROVE  (IF Meant(i, k) THEN <<order[k]>> ELSE <<>>) \in Seq(V)
    <3> DEFINE w == order[k]
    <3>1. w \in V
      BY <1>1
    <3> HIDE DEF w
    <3>2. <<w>> \in Seq(V) /\ <<>> \in Seq(V)
      BY <3>1
    <3>3. QED
      BY <3>2 DEF w
  <2>2. QED
    BY <2>1
<1>4. all \in [1..n -> Seq(V)]
  <2>1. ASSUME NEW i \in 1..n
        PROVE  FlattenSeq(Edges(i)) \in Seq(V)
    <3> HIDE DEF Edges
    <3>1. QED
      BY <1>1, <1>3, FlattenedIsAList
  <2> HIDE DEF Edges
  <2>2. QED
    BY <2>1
<1>50. \A k \in Nat : \A parts \in [1..k -> Seq(V)] : ToSet(FlattenSeq(parts)) = UNION {ToSet(parts[j]) : j \in 1..k}
  BY FlattenedElements
<1>5. ToSet(FlattenSeq(all)) = UNION {ToSet(all[i]) : i \in 1..n}
  <2> HIDE DEF all
  <2>1. QED
    BY <1>1, <1>4, <1>50, Zenon
<1>6. PICK i \in 1..n : t \in ToSet(FlattenSeq(Edges(i)))
  <2> HIDE DEF Edges
  <2>1. \A i \in 1..n : all[i] = FlattenSeq(Edges(i))
    OBVIOUS
  <2> HIDE DEF all
  <2>2. QED
    BY <1>2, <1>5, <2>1
<1>7. ToSet(FlattenSeq(Edges(i))) = UNION {ToSet(Edges(i)[k]) : k \in 1..m}
  <2>1. Edges(i) \in [1..m -> Seq(V)]
    BY <1>3
  <2> HIDE DEF Edges
  <2>2. QED
    BY <1>1, <1>50, <2>1, Zenon
<1>8. PICK k \in 1..m : t \in ToSet(IF Meant(i, k) THEN <<order[k]>> ELSE <<>>)
  BY <1>6, <1>7
<1>9. Meant(i, k) /\ t = order[k]
  <2> HIDE DEF Meant
  <2>1. CASE Meant(i, k)
    BY <1>8, <2>1 DEF ToSet
  <2>2. CASE ~Meant(i, k)
    BY <1>8, <2>2 DEF ToSet
  <2>3. QED
    BY <2>1, <2>2
<1>10. QED
  BY <1>1, <1>9 DEF V

\* An edge from a file of the innermost zone that leaves the zone is a violation.
LEMMA LeavingViolates ==
    ASSUME NEW graph, NEW config, NEW names, NEW inner, KeepsInside(config, names, inner),
           inner # "none",
           NEW f \in DOMAIN graph, NEW t \in DOMAIN graph, Last(t) \notin {"tsx", "jsx"},
           NEW i \in DOMAIN graph[f].imports, Graph!MayMean(graph, f, i, t, Graph!Extensions),
           Graph!file_zone(f, config.zones) = inner, Graph!file_zone(t, config.zones) # "none",
           Graph!file_zone(t, config.zones) # inner
    PROVE  Graph!BoundaryViolations(graph, config) # {}
<1> DEFINE to == Graph!file_zone(t, config.zones)
           fewer == Graph!Extensions \ {"tsx", "jsx"}
<1>1. to \in names
  BY FileHasAZone DEF KeepsInside
<1>2. ~Graph!is_dependency_allowed(inner, to, config.rules)
  <2>1. \E k \in DOMAIN config.rules : config.rules[k].from = inner /\ config.rules[k].to = to
    BY <1>1 DEF KeepsInside
  <2> HIDE DEF to
  <2>2. QED
    BY <2>1, WhatIsDenied DEF KeepsInside
<1>3. Graph!MayMean(graph, f, i, t, fewer)
  <2>1. \A s : Graph!Last(s) = Last(s)
    BY DEF Graph!Last, Last
  <2>2. Graph!Trimmed(t, fewer) = Graph!Trimmed(t, Graph!Extensions)
    BY <2>1 DEF Graph!Trimmed
  <2>3. QED
    BY <2>2, Zenon DEF Graph!MayMean
<1>4. Graph!IsViolation(graph, config, f, i, t)
  BY <1>2, <1>3, Zenon DEF Graph!IsViolation
<1>5. <<f, i, t>> \in Graph!BoundaryViolations(graph, config)
  <2> DEFINE Of(g, k) == {<<g, k, u>> : u \in {u \in DOMAIN graph : Graph!IsViolation(graph, config, g, k, u)}}
             From(g) == UNION {Of(g, k) : k \in DOMAIN graph[g].imports}
  <2>1. Graph!BoundaryViolations(graph, config) = UNION {From(g) : g \in DOMAIN graph}
    BY Zenon DEF Graph!BoundaryViolations
  <2>2. <<f, i, t>> \in Of(f, i)
    BY <1>4
  <2> HIDE DEF Of
  <2>3. <<f, i, t>> \in From(f)
    BY <2>2
  <2> HIDE DEF From
  <2>4. QED
    BY <2>1, <2>3
<1>6. QED
  BY <1>5

\* Without a violation the files of the innermost zone are closed under edges.
LEMMA InnerIsClosed ==
    ASSUME NEW files, files \in Seq(ToSet(files)), \A file \in ToSet(files) : file.imports \in Seq(ToSet(file.imports)),
           NEW config, NEW names, NEW inner, KeepsInside(config, names, inner), inner # "none",
           Graph!BoundaryViolations(Graph!add_files(files), config) = {},
           \A f \in DOMAIN Graph!add_files(files) :
               Graph!file_zone(f, config.zones) # "none" /\ Last(f) \notin {"tsx", "jsx"}
    PROVE  LET graph == Graph!add_files(files)
               adj == Graph!build_adjacency(graph, Graph!PathOrder(files))
               inside == {f \in DOMAIN graph : Graph!file_zone(f, config.zones) = inner}
           IN  \A f \in inside : ToSet(adj[f]) \subseteq inside
<1> DEFINE graph == Graph!add_files(files)
           order == Graph!PathOrder(files)
<1>1. (\A f \in DOMAIN graph : graph[f] \in ToSet(files)) /\ order \in Seq(DOMAIN graph)
  BY NodesAreFiles
<1>2. \A f \in DOMAIN graph : graph[f].imports \in Seq(ToSet(graph[f].imports))
  BY <1>1
<1>3. /\ Graph!BoundaryViolations(graph, config) = {}
      /\ \A f \in DOMAIN graph : Graph!file_zone(f, config.zones) # "none" /\ Last(f) \notin {"tsx", "jsx"}
  OBVIOUS
<1> HIDE DEF graph, order
<1> DEFINE adj == Graph!build_adjacency(graph, order)
           inside == {f \in DOMAIN graph : Graph!file_zone(f, config.zones) = inner}
<1>4. ASSUME NEW f \in inside, NEW t \in ToSet(adj[f])
      PROVE  t \in inside
  <2>1. t \in DOMAIN graph /\ \E i \in DOMAIN graph[f].imports : Graph!MayMean(graph, f, i, t, Graph!Extensions)
    BY <1>1, <1>2, EdgesMayMean
  <2>2. QED
    BY <1>3, <2>1, LeavingViolates
<1>5. QED
  BY <1>4 DEF graph, order

(***************************************************************************)
(* Flows.                                                                  *)
(***************************************************************************)

\* A name right of the operator of a line has the name v in it.
IsUsed(line, v) == \E w \in line.rhs : Security!Within(v, w)

HasSource(line, lang) == line.patterns \cap Security!SOURCES[lang] # {}

\* A line adds the names it assigns when it has a source or uses a tainted name.
LEMMA LineAddsItsNames ==
    ASSUME NEW line, NEW lang, NEW tainted
    PROVE  Security!ReadLine(line, lang, tainted) =
               IF HasSource(line, lang) \/ \E v \in tainted : IsUsed(line, v)
               THEN tainted \cup Security!extract_assigned_vars(line, lang) ELSE tainted
<1> DEFINE new == Security!extract_assigned_vars(line, lang)
           own == IF line.patterns \cap Security!SOURCES[lang] = {} THEN tainted ELSE tainted \cup new
           read == Security!ReadLine(line, lang, tainted)
<1>1. read = IF \E v \in own, w \in line.rhs : Security!Within(v, w) THEN own \cup new ELSE own
  BY Zenon DEF Security!ReadLine, Security!propagate_taint
<1>2. (\E v \in own, w \in line.rhs : Security!Within(v, w)) <=> \E v \in own : IsUsed(line, v)
  BY Zenon DEF IsUsed
<1> HIDE DEF read, new
<1>3. CASE HasSource(line, lang)
  <2>1. own = tainted \cup new
    BY <1>3 DEF HasSource
  <2> HIDE DEF own
  <2>2. read = tainted \cup new
    BY <1>1, <2>1
  <2>3. QED
    BY <1>3, <2>2 DEF read, new
<1>4. CASE ~HasSource(line, lang)
  <2>1. own = tainted
    BY <1>4 DEF HasSource
  <2> HIDE DEF own
  <2>2. read = IF \E v \in tainted : IsUsed(line, v) THEN tainted \cup new ELSE tainted
    BY <1>1, <1>2, <2>1
  <2>3. QED
    BY <1>4, <2>2 DEF read, new
<1>5. QED
  BY <1>3, <1>4

\* The names that the lines of a function assign.
NamesAssigned(own, lang) == UNION {Security!extract_assigned_vars(own[i], lang) : i \in 1..Len(own)}

IsTaintWalk(own, lang, walk) ==
    /\ walk[0] = {}
    /\ \A k \in Nat : k + 1 <= Len(own) => walk[k + 1] = Security!ReadLine(own[k + 1], lang, walk[k])
    /\ \A k \in 0..Len(own) : walk[k] \in SUBSET NamesAssigned(own, lang)

\* A line leaves names that are assigned.
LEMMA NamesStayAssigned ==
    ASSUME NEW own, NEW lang, NEW i \in 1..Len(own), NEW tainted \in SUBSET NamesAssigned(own, lang)
    PROVE  Security!ReadLine(own[i], lang, tainted) \in SUBSET NamesAssigned(own, lang)
<1> DEFINE new == Security!extract_assigned_vars(own[i], lang)
<1>1. new \subseteq NamesAssigned(own, lang)
  BY Zenon DEF NamesAssigned
<1>2. Security!ReadLine(own[i], lang, tainted) \in {tainted, tainted \cup new}
  BY LineAddsItsNames
<1> HIDE DEF new
<1>3. QED
  BY <1>1, <1>2

\* TaintAlong is a walk along the lines: it begins with no name and goes on by ReadLine.
LEMMA TaintIsWalked ==
    ASSUME NEW own, NEW lang, Len(own) \in Nat
    PROVE  IsTaintWalk(own, lang, Security!TaintAlong(own, lang))
<1> DEFINE n == Len(own)
           V == NamesAssigned(own, lang)
           Rounds(walk) == walk = [i \in 0..n |-> IF i = 0 THEN {} ELSE Security!ReadLine(own[i], lang, walk[i - 1])]
           next == [i \in 1..n |-> [s \in SUBSET V |-> Security!ReadLine(own[i], lang, s)]]
           walk == CHOOSE walk : Rounds(walk)
<1>1. {} \in SUBSET V /\ n \in Nat
  OBVIOUS
<1>2. next \in [1..n -> [SUBSET V -> SUBSET V]]
  <2>1. \A i \in 1..n : \A s \in SUBSET V : Security!ReadLine(own[i], lang, s) \in SUBSET V
    BY NamesStayAssigned
  <2> HIDE DEF V
  <2>2. QED
    BY <2>1
<1>3. \A i \in 1..n : \A s \in SUBSET V : next[i][s] = Security!ReadLine(own[i], lang, s)
  OBVIOUS
<1> HIDE DEF next, n, V
<1>4. PICK loop \in [0..n -> SUBSET V] : IsLoop(loop, {}, n, next)
  BY <1>1, <1>2, LoopExists
<1>5. Rounds(loop)
  <2>1. \A i \in 0..n : i # 0 => i \in 1..n /\ loop[i - 1] \in SUBSET V
    BY <1>1
  <2>2. \A i \in 0..n : i # 0 => next[i][loop[i - 1]] = Security!ReadLine(own[i], lang, loop[i - 1])
    BY <1>3, <2>1
  <2>3. QED
    BY <1>4, <2>2 DEF IsLoop
<1>6. Rounds(walk)
  BY <1>5
<1>7. Security!TaintAlong(own, lang) = walk
  BY Zenon DEF Security!TaintAlong, n
<1> HIDE DEF walk
<1>8. walk[0] = {}
  BY <1>1, <1>6
<1>9. ASSUME NEW k \in Nat, k + 1 <= n
      PROVE  walk[k + 1] = Security!ReadLine(own[k + 1], lang, walk[k])
  <2> DEFINE i == k + 1
  <2>1. i \in 0..n /\ i # 0 /\ i - 1 = k
    BY <1>1, <1>9
  <2> HIDE DEF i
  <2>2. walk[i] = Security!ReadLine(own[i], lang, walk[k])
    BY <1>6, <2>1
  <2>3. QED
    BY <2>2 DEF i
<1>10. \A k \in 0..n : walk[k] \in SUBSET V
  <2>1. \A k \in Nat : k + 1 <= n /\ walk[k] \in SUBSET V => walk[k + 1] \in SUBSET V
    <3> SUFFICES ASSUME NEW k \in Nat, k + 1 <= n, walk[k] \in SUBSET V
                 PROVE  walk[k + 1] \in SUBSET V
      OBVIOUS
    <3> DEFINE i == k + 1
    <3>1. i \in 1..n
      BY <1>1
    <3>2. \A s \in SUBSET V : Security!ReadLine(own[i], lang, s) \in SUBSET V
      BY <3>1, NamesStayAssigned DEF V, n
    <3>3. walk[i] = Security!ReadLine(own[i], lang, walk[k])
      BY <1>9
    <3> HIDE DEF i
    <3>4. walk[i] \in SUBSET V
      BY <3>2, <3>3, Zenon
    <3>5. QED
      BY <3>4 DEF i
  <2>2. QED
    BY <1>1, <1>8, <2>1, LoopStays
<1>11. QED
  BY <1>7, <1>8, <1>9, <1>10 DEF IsTaintWalk, n, V

\* Lines of which each has a source or uses a name assigned above it.
EachFollows(L, sources, assigned, uses) ==
    \A i \in L : i \in sources \/ \E j \in L : j < i /\ assigned[j] \cap uses[i] # {}

\* What such lines of a..b assign.
Followed(a, b, sources, assigned, uses) ==
    UNION {UNION {assigned[i] : i \in L} :
        L \in {L \in SUBSET (a..b) : EachFollows(L, sources, assigned, uses)}}

\* The names before a line and those after it.
LineByLine(t, a, b, sources, assigned, uses) ==
    /\ t[a - 1] = {}
    /\ \A i \in a..b : t[i] = IF i \in sources \/ t[i - 1] \cap uses[i] # {}
                             THEN t[i - 1] \cup assigned[i] ELSE t[i - 1]

\* What is tainted line by line is what is assigned on lines each of which follows
\* from the ones above it.
LEMMA ChainsAreFollowed ==
    ASSUME NEW a \in Nat \ {0}, NEW b \in Nat, a <= b, NEW V,
           NEW assigned \in [a..b -> SUBSET V], NEW uses \in [a..b -> SUBSET V], NEW sources \in SUBSET (a..b),
           NEW t, LineByLine(t, a, b, sources, assigned, uses)
    PROVE  t[b] = Followed(a, b, sources, assigned, uses)
<1> DEFINE read == {i \in a..b : i \in sources \/ t[i - 1] \cap uses[i] # {}}
           Upto(k) == {i \in read : i <= k}
           Names(L) == UNION {assigned[i] : i \in L}
           reached == {k \in Nat : k \in (a - 1)..b => t[k] = Names(Upto(k))}
<1>0. t[a - 1] = {} /\ \A i \in a..b : t[i] = IF i \in read THEN t[i - 1] \cup assigned[i] ELSE t[i - 1]
  BY DEF LineByLine
<1>1. t[a - 1] = Names(Upto(a - 1))
  <2>1. Upto(a - 1) = {}
    OBVIOUS
  <2> HIDE DEF Upto
  <2>2. Names({}) = {}
    OBVIOUS
  <2>3. QED
    BY <1>0, <2>1, <2>2
<1>2. ASSUME NEW k \in Nat, k + 1 \in a..b, t[k] = Names(Upto(k))
      PROVE  t[k + 1] = Names(Upto(k + 1))
  <2> DEFINE i == k + 1
  <2>1. i \in a..b /\ i - 1 = k
    BY <1>2
  <2>2. Upto(i) = IF i \in read THEN Upto(k) \cup {i} ELSE Upto(k)
    <3>1. \A j \in read : j <= i <=> j <= k \/ j = i
      OBVIOUS
    <3> HIDE DEF i, read
    <3>2. QED
      BY <3>1, <2>1
  <2>3. t[i] = IF i \in read THEN t[k] \cup assigned[i] ELSE t[k]
    <3> HIDE DEF i, read
    <3>1. QED
      BY <1>0, <2>1
  <2> HIDE DEF i, read, Upto
  <2>4. \A L : Names(L \cup {i}) = Names(L) \cup assigned[i]
    BY Zenon
  <2> HIDE DEF Names
  <2>5. t[i] = Names(Upto(i))
    BY <1>2, <2>2, <2>3, <2>4
  <2>6. QED
    BY <2>5 DEF i
<1>3. 0 \in reached
  <2>1. 0 \in (a - 1)..b => a - 1 = 0
    OBVIOUS
  <2> HIDE DEF Names, Upto
  <2>2. QED
    BY <1>1, <2>1
<1>4. ASSUME NEW k \in Nat, k \in reached
      PROVE  k + 1 \in reached
  <2> HIDE DEF Names, Upto
  <2> SUFFICES ASSUME k + 1 \in (a - 1)..b
               PROVE  t[k + 1] = Names(Upto(k + 1))
    OBVIOUS
  <2>1. CASE k + 1 = a - 1
    BY <1>1, <2>1
  <2>2. CASE k + 1 # a - 1
    <3>1. k + 1 \in a..b /\ k \in (a - 1)..b
      BY <2>2
    <3>2. QED
      BY <1>2, <1>4, <3>1
  <2>3. QED
    BY <2>1, <2>2
<1> HIDE DEF reached
<1>5. Nat \subseteq reached
  BY <1>3, <1>4, EveryNumberFollows
<1>6. \A k \in (a - 1)..b : t[k] = Names(Upto(k))
  <2>1. (a - 1)..b \subseteq Nat
    OBVIOUS
  <2> HIDE DEF Names, Upto
  <2>2. QED
    BY <1>5, <2>1 DEF reached
<1>7. t[b] = Names(read)
  <2>1. Upto(b) = read /\ b \in (a - 1)..b
    OBVIOUS
  <2> HIDE DEF Names, Upto, read
  <2>2. QED
    BY <1>6, <2>1
<1>8. EachFollows(read, sources, assigned, uses)
  <2> SUFFICES ASSUME NEW i \in read, i \notin sources
               PROVE  \E j \in read : j < i /\ assigned[j] \cap uses[i] # {}
    BY DEF EachFollows
  <2>1. i \in a..b /\ i - 1 \in (a - 1)..b
    OBVIOUS
  <2>2. PICK v : v \in t[i - 1] /\ v \in uses[i]
    OBVIOUS
  <2>3. v \in Names(Upto(i - 1))
    <3> HIDE DEF Names, Upto, read
    <3>1. QED
      BY <1>6, <2>1, <2>2
  <2>4. PICK j \in Upto(i - 1) : v \in assigned[j]
    BY <2>3
  <2>5. j \in read /\ j < i
    BY <2>1, <2>4
  <2>6. QED
    BY <2>2, <2>4, <2>5
<1>9. ASSUME NEW L \in SUBSET (a..b), EachFollows(L, sources, assigned, uses)
      PROVE  L \subseteq read
  <2> DEFINE others == L \ read
  <2> SUFFICES ASSUME others # {}
               PROVE  FALSE
    OBVIOUS
  <2>1. others \in SUBSET Nat
    <3>1. a..b \subseteq Nat
      OBVIOUS
    <3>2. QED
      BY <3>1
  <2>2. PICK i \in others : \A j \in others : i <= j
    BY <2>1, NatHasMinimum
  <2>3. i \in L /\ i \notin sources /\ i \in a..b
    OBVIOUS
  <2>4. PICK j \in L : j < i /\ assigned[j] \cap uses[i] # {}
    BY <1>9, <2>3 DEF EachFollows
  <2>5. j \in read /\ j <= i - 1
    BY <2>2, <2>3, <2>4
  <2>6. assigned[j] \subseteq t[i - 1]
    <3>1. j \in Upto(i - 1) /\ i - 1 \in (a - 1)..b
      BY <2>3, <2>5
    <3>2. assigned[j] \subseteq Names(Upto(i - 1))
      <4> HIDE DEF Upto
      <4>1. QED
        BY <3>1
    <3> HIDE DEF Names, Upto
    <3>3. QED
      BY <1>6, <3>1, <3>2
  <2>7. i \in read
    BY <2>3, <2>4, <2>6
  <2>8. QED
    BY <2>2, <2>7
<1>10. QED
  <2> DEFINE following == {L \in SUBSET (a..b) : EachFollows(L, sources, assigned, uses)}
  <2>1. read \in following /\ \A L \in following : L \subseteq read
    BY <1>8, <1>9
  <2> HIDE DEF following, read
  <2>2. UNION {Names(L) : L \in following} = Names(read)
    BY <2>1
  <2>3. QED
    BY <1>7, <2>2 DEF following, Followed

\* The names that lines of a..b assign of which each has a source, or uses a name
\* assigned above it.
HeldOn(lines, lang, a, b) ==
    UNION {UNION {Security!extract_assigned_vars(lines[i], lang) : i \in L} :
        L \in {L \in SUBSET (a..b) :
            \A i \in L : HasSource(lines[i], lang)
                         \/ \E j \in L : j < i /\ \E v \in Security!extract_assigned_vars(lines[j], lang) : IsUsed(lines[i], v)}}

\* The names that the first lines of a..b have of the request.
GivenOn(lines, a, b) == UNION {lines[i].requests : i \in {i \in a..b : i <= a + 5}}

\* The lines of a function are those of the file from its first to its last.
LEMMA OwnLines ==
    ASSUME NEW lines, lines \in Seq(ToSet(lines)), NEW a \in 1..Len(lines), NEW b \in 1..Len(lines), a <= b,
           NEW own, own = SubSeq(lines, a, b)
    PROVE  /\ Len(own) = b - a + 1 /\ DOMAIN own = 1..Len(own)
           /\ \A i \in a..b : i - a + 1 \in 1..Len(own) /\ own[i - a + 1] = lines[i]
           /\ \A k \in 1..Len(own) : a + k - 1 \in a..b /\ own[k] = lines[a + k - 1]
<1> DEFINE V == ToSet(lines)
           n == Len(lines)
<1>1. lines \in Seq(V) /\ n \in Nat /\ a \in 1..n /\ b \in 1..n
  OBVIOUS
<1> HIDE DEF V
<1>2. Len(own) = b - a + 1 /\ DOMAIN own = 1..Len(own)
  BY <1>1
<1>3. \A k \in 1..(b - a + 1) : own[k] = lines[a + k - 1]
  BY <1>1
<1>4. \A i \in a..b : i - a + 1 \in 1..(b - a + 1) /\ a + (i - a + 1) - 1 = i
  BY <1>1
<1>5. \A k \in 1..(b - a + 1) : a + k - 1 \in a..b
  BY <1>1
<1>6. ASSUME NEW i \in a..b
      PROVE  own[i - a + 1] = lines[i]
  <2> DEFINE k == i - a + 1
  <2>1. k \in 1..(b - a + 1) /\ a + k - 1 = i
    BY <1>4
  <2> HIDE DEF k
  <2>2. own[k] = lines[i]
    BY <1>3, <2>1
  <2>3. QED
    BY <2>2 DEF k
<1>7. QED
  BY <1>2, <1>3, <1>4, <1>5, <1>6

\* What is tainted after the last line of a function is what it holds.
LEMMA TaintIsHeld ==
    ASSUME NEW lines, lines \in Seq(ToSet(lines)), NEW lang,
           NEW a \in 1..Len(lines), NEW b \in 1..Len(lines), a <= b,
           NEW own, own = SubSeq(lines, a, b)
    PROVE  Security!TaintAlong(own, lang)[Len(own)] = HeldOn(lines, lang, a, b)
<1> DEFINE m == Len(own)
           V == NamesAssigned(own, lang)
           along == Security!TaintAlong(own, lang)
           Makes(i) == Security!extract_assigned_vars(lines[i], lang)
           assigned == [i \in a..b |-> Makes(i)]
           uses == [i \in a..b |-> {v \in V : IsUsed(lines[i], v)}]
           sources == {i \in a..b : HasSource(lines[i], lang)}
           t == [i \in (a - 1)..b |-> along[i - a + 1]]
<1>1. /\ m = b - a + 1 /\ m \in Nat /\ a \in Nat \ {0} /\ b \in Nat
      /\ \A i \in a..b : i - a + 1 \in 1..m /\ own[i - a + 1] = lines[i]
  <2>1. Len(lines) \in Nat
    OBVIOUS
  <2>2. a \in Nat \ {0} /\ b \in Nat
    BY <2>1
  <2>3. /\ m = b - a + 1
        /\ \A i \in a..b : i - a + 1 \in 1..m /\ own[i - a + 1] = lines[i]
    BY OwnLines
  <2> HIDE DEF m
  <2>4. m \in Nat
    BY <2>2, <2>3
  <2>5. QED
    BY <2>2, <2>3, <2>4
<1>2. /\ along[0] = {}
      /\ \A k \in Nat : k + 1 <= m => along[k + 1] = Security!ReadLine(own[k + 1], lang, along[k])
      /\ \A k \in 0..m : along[k] \in SUBSET V
  <2>1. Len(own) \in Nat
    BY <1>1
  <2>2. IsTaintWalk(own, lang, along)
    BY <2>1, TaintIsWalked, Zenon
  <2> HIDE DEF along
  <2>3. QED
    BY <2>2, Zenon DEF IsTaintWalk
<1>3. \A i \in a..b : Makes(i) \subseteq V
  <2>1. \A k \in 1..m : Security!extract_assigned_vars(own[k], lang) \subseteq V
    BY Zenon DEF NamesAssigned
  <2> HIDE DEF V, m
  <2>2. QED
    BY <1>1, <2>1
<1> HIDE DEF m, along, V
<1>4. t[a - 1] = {} /\ t[b] = along[m]
  <2>1. (a - 1) - a + 1 = 0 /\ a - 1 \in (a - 1)..b /\ b \in (a - 1)..b /\ b - a + 1 = m
    BY <1>1
  <2>2. QED
    BY <1>2, <2>1
<1>5. ASSUME NEW i \in a..b
      PROVE  t[i] = IF i \in sources \/ t[i - 1] \cap uses[i] # {} THEN t[i - 1] \cup assigned[i] ELSE t[i - 1]
  <2> DEFINE k == i - a
  <2>1. /\ k \in Nat /\ k + 1 <= m /\ i - a + 1 = k + 1 /\ (i - 1) - a + 1 = k
        /\ i \in (a - 1)..b /\ i - 1 \in (a - 1)..b /\ k \in 0..m
    BY <1>1
  <2> HIDE DEF k
  <2>2. own[k + 1] = lines[i]
    BY <1>1, <2>1
  <2>3. t[i] = along[k + 1] /\ t[i - 1] = along[k]
    BY <2>1
  <2> HIDE DEF t
  <2>4. t[i] = Security!ReadLine(lines[i], lang, t[i - 1])
    BY <1>2, <2>1, <2>2, <2>3
  <2>5. t[i] = IF HasSource(lines[i], lang) \/ \E v \in t[i - 1] : IsUsed(lines[i], v)
               THEN t[i - 1] \cup Makes(i) ELSE t[i - 1]
    BY <2>4, LineAddsItsNames
  <2>6. t[i - 1] \in SUBSET V
    BY <1>2, <2>1, <2>3
  <2>7. (\E v \in t[i - 1] : IsUsed(lines[i], v)) <=> t[i - 1] \cap uses[i] # {}
    BY <2>6
  <2>8. i \in sources <=> HasSource(lines[i], lang)
    OBVIOUS
  <2>9. assigned[i] = Makes(i)
    OBVIOUS
  <2> HIDE DEF assigned, uses, sources, Makes
  <2>10. QED
    BY <2>5, <2>7, <2>8, <2>9
<1>6. assigned \in [a..b -> SUBSET V] /\ uses \in [a..b -> SUBSET V] /\ sources \in SUBSET (a..b)
  BY <1>3
<1>7. \A L \in SUBSET (a..b) :
          EachFollows(L, sources, assigned, uses) <=>
              \A i \in L : HasSource(lines[i], lang) \/ \E j \in L : j < i /\ \E v \in Makes(j) : IsUsed(lines[i], v)
  <2> SUFFICES ASSUME NEW L \in SUBSET (a..b), NEW i \in L, NEW j \in L
               PROVE  /\ i \in sources <=> HasSource(lines[i], lang)
                      /\ assigned[j] \cap uses[i] # {} <=> \E v \in Makes(j) : IsUsed(lines[i], v)
    BY Zenon DEF EachFollows
  <2>1. Makes(j) \subseteq V /\ assigned[j] = Makes(j) /\ uses[i] = {v \in V : IsUsed(lines[i], v)}
    BY <1>3
  <2>2. QED
    BY <2>1
<1>8. t[b] = Followed(a, b, sources, assigned, uses)
  <2> HIDE DEF assigned, uses, sources, t
  <2>1. LineByLine(t, a, b, sources, assigned, uses)
    BY <1>4, <1>5, Zenon DEF LineByLine
  <2>2. a \in Nat \ {0} /\ b \in Nat /\ a <= b
    BY <1>1
  <2>3. \A U : \A f \in [a..b -> SUBSET U], u \in [a..b -> SUBSET U], s \in SUBSET (a..b) : \A w :
            LineByLine(w, a, b, s, f, u) => w[b] = Followed(a, b, s, f, u)
    BY <2>2, ChainsAreFollowed
  <2>4. QED
    BY <1>6, <2>1, <2>3
<1>9. \A L \in SUBSET (a..b) : UNION {assigned[i] : i \in L} = UNION {Makes(i) : i \in L}
  <2>1. \A i \in a..b : assigned[i] = Makes(i)
    OBVIOUS
  <2> HIDE DEF assigned, Makes
  <2>2. QED
    BY <2>1
<1>10. QED
  <2> DEFINE Follow(L) == \A i \in L : HasSource(lines[i], lang) \/ \E j \in L : j < i /\ \E v \in Makes(j) : IsUsed(lines[i], v)
             Names(L) == UNION {Makes(i) : i \in L}
  <2>1. HeldOn(lines, lang, a, b) = UNION {Names(L) : L \in {L \in SUBSET (a..b) : Follow(L)}}
    BY Zenon DEF HeldOn
  <2> HIDE DEF assigned, uses, sources, t
  <2>2. {L \in SUBSET (a..b) : EachFollows(L, sources, assigned, uses)} = {L \in SUBSET (a..b) : Follow(L)}
    BY <1>7, Zenon
  <2> HIDE DEF Follow, Makes
  <2>3. UNION {UNION {assigned[i] : i \in L} : L \in {L \in SUBSET (a..b) : Follow(L)}}
            = UNION {Names(L) : L \in {L \in SUBSET (a..b) : Follow(L)}}
    BY <1>9
  <2>4. QED
    BY <1>4, <1>8, <2>1, <2>2, <2>3 DEF along, m, Followed

\* The lines have no name of the request but those the code knows.
KnowsRequests(lines, lang) == \A line \in ToSet(lines) : line.requests \subseteq RequestNames[lang]

\* Each line has finitely many patterns.
HasFinitePatterns(lines) == \A line \in ToSet(lines) : IsFiniteSet(line.patterns)

\* The parameters add the names that the first six lines have of the request.
LEMMA ParametersAreGiven ==
    ASSUME NEW lines, lines \in Seq(ToSet(lines)), NEW lang \in {"Go", "Python"},
           KnowsRequests(lines, lang),
           NEW a \in 1..Len(lines), NEW b \in 1..Len(lines), a <= b,
           NEW tainted
    PROVE  Security!check_parameter_taint(SubSeq(lines, a, b), lang, tainted) = tainted \cup GivenOn(lines, a, b)
<1> DEFINE own == SubSeq(lines, a, b)
           m == Len(own)
           first == 1..(IF m > 6 THEN 6 ELSE m)
           header == {own[i] : i \in first}
           given == UNION {l.requests : l \in header}
           known == given \cap {<<"r">>, <<"r", "e", "q">>, <<"r", "e", "q", "u", "e", "s", "t">>}
           added == CASE lang = "Go" /\ given # {} -> tainted \cup (IF known = {} THEN {<<"r">>} ELSE known)
                      [] lang = "Python" /\ given # {} -> tainted \cup {<<"r", "e", "q", "u", "e", "s", "t">>}
                      [] OTHER -> tainted
<1>1. Security!check_parameter_taint(own, lang, tainted) = added
  BY Zenon DEF Security!check_parameter_taint
<1>2. /\ m = b - a + 1 /\ a \in Nat \ {0} /\ b \in Nat
      /\ \A i \in a..b : i - a + 1 \in 1..m /\ own[i - a + 1] = lines[i]
      /\ \A k \in 1..m : a + k - 1 \in a..b /\ own[k] = lines[a + k - 1]
  <2>1. a \in Nat \ {0} /\ b \in Nat
    OBVIOUS
  <2>2. QED
    BY <2>1, OwnLines
<1> HIDE DEF m, own
<1>3. given = GivenOn(lines, a, b)
  <2> DEFINE early == {i \in a..b : i <= a + 5}
  <2>1. header = {lines[i] : i \in early}
    <3>1. \A k \in first : a + k - 1 \in early /\ own[k] = lines[a + k - 1]
      BY <1>2
    <3>2. \A i \in early : i - a + 1 \in first /\ own[i - a + 1] = lines[i]
      BY <1>2
    <3> HIDE DEF first, early
    <3>3. ASSUME NEW x \in {lines[i] : i \in early}
          PROVE  x \in header
      <4>1. PICK i \in early : x = lines[i]
        OBVIOUS
      <4> DEFINE k == i - a + 1
      <4>2. k \in first /\ own[k] = x
        BY <3>2, <4>1
      <4> HIDE DEF k
      <4>3. QED
        BY <4>2
    <3>4. ASSUME NEW x \in header
          PROVE  x \in {lines[i] : i \in early}
      <4>1. PICK k \in first : x = own[k]
        OBVIOUS
      <4> DEFINE i == a + k - 1
      <4>2. i \in early /\ lines[i] = x
        BY <3>1, <4>1
      <4> HIDE DEF i
      <4>3. QED
        BY <4>2
    <3> HIDE DEF header
    <3>5. QED
      BY <3>3, <3>4
  <2>2. GivenOn(lines, a, b) = UNION {lines[i].requests : i \in early}
    BY DEF GivenOn
  <2> HIDE DEF early, header
  <2>3. QED
    BY <2>1, <2>2
<1>4. given \subseteq RequestNames[lang]
  <2>1. \A i \in a..b : lines[i] \in ToSet(lines)
    <3>1. a..b \subseteq DOMAIN lines
      OBVIOUS
    <3>2. QED
      BY <3>1 DEF ToSet
  <2>2. \A i \in a..b : lines[i].requests \subseteq RequestNames[lang]
    BY <2>1 DEF KnowsRequests
  <2>3. GivenOn(lines, a, b) \subseteq RequestNames[lang]
    BY <2>2 DEF GivenOn
  <2> HIDE DEF given
  <2>4. QED
    BY <1>3, <2>3
<1> HIDE DEF given
<1>5. added = tainted \cup given
  <2>1. CASE given = {}
    BY <2>1
  <2>2. CASE given # {} /\ lang = "Go"
    <3>1. known = given
      BY <1>4, <2>2 DEF RequestNames
    <3> HIDE DEF known
    <3>2. QED
      BY <2>2, <3>1
  <2>3. CASE given # {} /\ lang = "Python"
    <3> DEFINE request == <<"r", "e", "q", "u", "e", "s", "t">>
    <3>1. RequestNames["Python"] = {request}
      BY DEF RequestNames
    <3>2. added = tainted \cup {request}
      BY <2>3
    <3> HIDE DEF request, added
    <3>3. given = {request}
      BY <1>4, <2>3, <3>1
    <3>4. QED
      BY <3>2, <3>3
  <2>4. QED
    BY <2>1, <2>2, <2>3
<1>6. QED
  BY <1>1, <1>3, <1>5 DEF own

\* The sinks of a line, and what is reported of one.
SinksOf(line, lang) == line.patterns \cap DOMAIN Security!SINKS[lang]
Report(lang, p, i) == [rule_id |-> Security!SINKS[lang][p], sink |-> p, start_line |-> i]
Reports(lang) == {Report(lang, p, i) : p \in DOMAIN Security!SINKS[lang], i \in Nat}

\* What should be reported of the lines a..b of a function.
Expected(lines, lang, a, b) ==
    UNION {{Report(lang, p, i) : p \in SinksOf(lines[i], lang)} :
        i \in {i \in a..b : lines[i].names \cap (HeldOn(lines, lang, a, b) \cup GivenOn(lines, a, b)) # {}}}

\* Lines that flows are looked for in, and a node among them.
IsCode(lines, lang) ==
    /\ lines \in Seq(ToSet(lines)) /\ lang \in {"Go", "Python"}
    /\ KnowsRequests(lines, lang) /\ HasFinitePatterns(lines)

LiesIn(node, lines) == node.row \in 1..Len(lines) /\ node.last \in 1..Len(lines) /\ node.row <= node.last

\* A function reports its sinks that what it holds or was given leads to.
LEMMA FunctionReports ==
    ASSUME NEW lines, NEW lang, IsCode(lines, lang), NEW node, LiesIn(node, lines)
    PROVE  LET found == Security!analyze_function_taint(node, lines, lang)
           IN  found \in Seq(Reports(lang)) /\ ToSet(found) = Expected(lines, lang, node.row, node.last)
<1> DEFINE a == node.row
           b == node.last
           own == SubSeq(lines, a, b)
<1>0. /\ lines \in Seq(ToSet(lines)) /\ lang \in {"Go", "Python"}
      /\ KnowsRequests(lines, lang) /\ HasFinitePatterns(lines)
      /\ a \in 1..Len(lines) /\ b \in 1..Len(lines) /\ a <= b
      /\ own = SubSeq(lines, a, b) /\ node.row = a /\ node.last = b
  BY Zenon DEF IsCode, LiesIn
<1> HIDE DEF a, b, own
<1> USE <1>0
<1> DEFINE m == Len(own)
           tainted == Security!Tainted(own, lang)
           known == HeldOn(lines, lang, a, b) \cup GivenOn(lines, a, b)
           V == Reports(lang)
           Reached(i) == {p \in own[i].patterns \cap DOMAIN Security!SINKS[lang] : own[i].names \cap tainted # {}}
           listed(i) == SetToSeq(Reached(i))
           Of(i) == [k \in DOMAIN listed(i) |-> Report(lang, listed(i)[k], a + i - 1)]
           parts == [i \in 1..m |-> Of(i)]
           found == Security!analyze_function_taint(node, lines, lang)
<1>1. /\ m = b - a + 1 /\ DOMAIN own = 1..m /\ a \in Nat \ {0} /\ b \in Nat /\ m \in Nat
      /\ \A i \in a..b : i - a + 1 \in 1..m /\ own[i - a + 1] = lines[i]
      /\ \A k \in 1..m : a + k - 1 \in a..b /\ own[k] = lines[a + k - 1]
  <2>1. a \in Nat \ {0} /\ b \in Nat
    OBVIOUS
  <2>2. /\ m = b - a + 1 /\ DOMAIN own = 1..m
        /\ \A i \in a..b : i - a + 1 \in 1..m /\ own[i - a + 1] = lines[i]
        /\ \A k \in 1..m : a + k - 1 \in a..b /\ own[k] = lines[a + k - 1]
    <3> DEFINE IsPart(o) ==
                   /\ Len(o) = b - a + 1 /\ DOMAIN o = 1..Len(o)
                   /\ \A i \in a..b : i - a + 1 \in 1..Len(o) /\ o[i - a + 1] = lines[i]
                   /\ \A k \in 1..Len(o) : a + k - 1 \in a..b /\ o[k] = lines[a + k - 1]
    <3>1. \A o : o = SubSeq(lines, a, b) => IsPart(o)
      BY OwnLines, Zenon
    <3> HIDE DEF IsPart
    <3>2. IsPart(own)
      BY <3>1, Zenon
    <3>3. QED
      BY <3>2, Zenon DEF IsPart
  <2> HIDE DEF m
  <2>3. m \in Nat
    BY <2>1, <2>2
  <2>4. QED
    BY <2>1, <2>2, <2>3
<1>2. tainted = known
  <2>1. \A o : o = SubSeq(lines, a, b) => Security!TaintAlong(o, lang)[Len(o)] = HeldOn(lines, lang, a, b)
    BY TaintIsHeld
  <2>2. \A t : Security!check_parameter_taint(SubSeq(lines, a, b), lang, t) = t \cup GivenOn(lines, a, b)
    BY ParametersAreGiven
  <2>3. tainted = Security!check_parameter_taint(own, lang, Security!TaintAlong(own, lang)[Len(own)])
    BY Zenon DEF Security!Tainted
  <2> HIDE DEF tainted
  <2>4. QED
    BY <2>1, <2>2, <2>3
<1>3. found = FlattenSeq(parts)
  <2> DEFINE Raw(i) == LET reached == Security!SetToSeq(Reached(i))
                       IN  [k \in DOMAIN reached |->
                               [rule_id |-> Security!SINKS[lang][reached[k]], sink |-> reached[k], start_line |-> a + i - 1]]
  <2>1. \A i : Raw(i) = Of(i)
    BY OneLibrary, Zenon DEF Report
  <2>2. found = Security!FlattenSeq([i \in DOMAIN SubSeq(lines, node.row, node.last) |-> Raw(i)])
    BY Zenon DEF Security!analyze_function_taint
  <2> HIDE DEF Raw, Of
  <2>3. [i \in DOMAIN own |-> Raw(i)] = parts
    BY <1>1, <2>1
  <2>4. QED
    BY <2>2, <2>3, OneLibrary
<1> HIDE DEF found, m, tainted, known
<1>4. ASSUME NEW i \in 1..m
      PROVE  /\ Of(i) \in Seq(V)
             /\ ToSet(Of(i)) = {Report(lang, p, a + i - 1) : p \in Reached(i)}
  <2>1. IsFiniteSet(Reached(i))
    <3>1. own[i] \in ToSet(lines)
      <4>1. a..b \subseteq DOMAIN lines
        OBVIOUS
      <4>2. own[i] = lines[a + i - 1] /\ a + i - 1 \in DOMAIN lines
        BY <1>1, <4>1
      <4>3. QED
        BY <4>2 DEF ToSet
    <3>2. IsFiniteSet(own[i].patterns)
      BY <3>1 DEF HasFinitePatterns
    <3>3. Reached(i) \in SUBSET own[i].patterns
      OBVIOUS
    <3> HIDE DEF Reached
    <3>4. QED
      BY <3>2, <3>3, FS_Subset
  <2>2. Reached(i) \subseteq DOMAIN Security!SINKS[lang] /\ a + i - 1 \in Nat
    BY <1>1
  <2> HIDE DEF Reached
  <2>3. listed(i) \in Seq(Reached(i)) /\ ToSet(listed(i)) = Reached(i)
    BY <2>1, SetIsListed
  <2> HIDE DEF listed
  <2>4. \A k \in DOMAIN listed(i) : listed(i)[k] \in Reached(i)
    BY <2>3
  <2>5. \A p \in Reached(i) : Report(lang, p, a + i - 1) \in V
    <3> DEFINE l == a + i - 1
    <3>1. l \in Nat
      BY <2>2
    <3> HIDE DEF l
    <3>2. ASSUME NEW p \in Reached(i)
          PROVE  Report(lang, p, l) \in V
      <4>1. p \in DOMAIN Security!SINKS[lang]
        BY <2>2
      <4>2. QED
        BY <3>1, <4>1 DEF Reports, V
    <3>3. QED
      BY <3>2 DEF l
  <2>6. Of(i) \in Seq(V)
    <3>1. DOMAIN listed(i) = 1..Len(listed(i)) /\ Len(listed(i)) \in Nat
      BY <2>3
    <3>2. \A k \in DOMAIN listed(i) : Report(lang, listed(i)[k], a + i - 1) \in V
      BY <2>4, <2>5
    <3> HIDE DEF V
    <3>3. Of(i) \in [1..Len(listed(i)) -> V]
      BY <3>1, <3>2
    <3>4. \A n \in Nat : [1..n -> V] \subseteq Seq(V)
      OBVIOUS
    <3> HIDE DEF Of
    <3>5. QED
      BY <3>1, <3>3, <3>4
  <2>7. ToSet(Of(i)) = {Report(lang, p, a + i - 1) : p \in Reached(i)}
    <3>1. ToSet(Of(i)) = {Report(lang, listed(i)[k], a + i - 1) : k \in DOMAIN listed(i)}
      BY DEF ToSet
    <3>2. Reached(i) = {listed(i)[k] : k \in DOMAIN listed(i)}
      BY <2>3 DEF ToSet
    <3> HIDE DEF Of
    <3>3. QED
      BY <3>1, <3>2, Zenon
  <2>8. QED
    BY <2>6, <2>7
<1> HIDE DEF Of, V
<1>5. parts \in [1..m -> Seq(V)]
  BY <1>4
<1>6. ToSet(FlattenSeq(parts)) = UNION {ToSet(parts[i]) : i \in 1..m} /\ FlattenSeq(parts) \in Seq(V)
  <2> HIDE DEF parts
  <2>1. \A k \in Nat : \A p \in [1..k -> Seq(V)] :
            ToSet(FlattenSeq(p)) = UNION {ToSet(p[j]) : j \in 1..k} /\ FlattenSeq(p) \in Seq(V)
    BY FlattenedElements, FlattenedIsAList
  <2>2. QED
    BY <1>1, <1>5, <2>1, Zenon
<1>7. UNION {ToSet(parts[i]) : i \in 1..m} = Expected(lines, lang, a, b)
  <2> DEFINE At(i) == {Report(lang, p, i) : p \in SinksOf(lines[i], lang)}
             led == {i \in a..b : lines[i].names \cap known # {}}
  <2>1. Expected(lines, lang, a, b) = UNION {At(i) : i \in led}
    BY Zenon DEF Expected, known
  <2>2. \A k \in 1..m : ToSet(parts[k]) = IF a + k - 1 \in led THEN At(a + k - 1) ELSE {}
    <3> SUFFICES ASSUME NEW k \in 1..m
                 PROVE  ToSet(parts[k]) = IF a + k - 1 \in led THEN At(a + k - 1) ELSE {}
      OBVIOUS
    <3>1. own[k] = lines[a + k - 1] /\ a + k - 1 \in a..b
      BY <1>1
    <3>2. a + k - 1 \in led <=> lines[a + k - 1].names \cap known # {}
      BY <3>1
    <3>3. Reached(k) = IF a + k - 1 \in led THEN SinksOf(lines[a + k - 1], lang) ELSE {}
      <4> HIDE DEF led
      <4>1. QED
        BY <1>2, <3>1, <3>2 DEF SinksOf
    <3>4. ToSet(parts[k]) = {Report(lang, p, a + k - 1) : p \in Reached(k)}
      BY <1>4
    <3> HIDE DEF led, Reached, parts
    <3>5. QED
      BY <3>3, <3>4
  <2>3. \A i \in led : i - a + 1 \in 1..m /\ a + (i - a + 1) - 1 = i
    BY <1>1
  <2> HIDE DEF led, At, parts
  <2>4. ASSUME NEW i \in led
        PROVE  \E k \in 1..m : ToSet(parts[k]) = At(i)
    <3> DEFINE k == i - a + 1
    <3>1. k \in 1..m /\ a + k - 1 = i
      BY <2>3
    <3> HIDE DEF k
    <3>2. QED
      BY <2>2, <3>1
  <2>5. \A k \in 1..m : ToSet(parts[k]) = {} \/ \E i \in led : ToSet(parts[k]) = At(i)
    BY <2>2
  <2>6. UNION {ToSet(parts[k]) : k \in 1..m} = UNION {At(i) : i \in led}
    BY <2>4, <2>5
  <2>7. QED
    BY <2>1, <2>6
<1>8. QED
  BY <1>3, <1>6, <1>7 DEF V, found

\* What the property takes for held by a function is what its lines assign.
LEMMA HeldByLines ==
    ASSUME input.lang \in {"Go", "Python"}, NEW a, NEW b
    PROVE  Held(<<a, b>>) = HeldOn(input.lines, input.lang, a, b)
<1> DEFINE line == input.lines
           lang == input.lang
           signs == [Go |-> {":=", "=", "=="}, Python |-> {":=", "="}]
           Assigned(i) == IF line[i].op \in signs[lang] THEN ToSet(line[i].lhs) \ {<<>>} ELSE {}
           Makes(i) == Security!extract_assigned_vars(line[i], lang)
           Source(i) == line[i].patterns \cap Security!SOURCES[lang] # {}
           Uses(i, v) == \E w \in line[i].rhs : Security!Within(v, w)
           Chosen(L) == \A i \in L : Source(i) \/ \E j \in L : j < i /\ \E v \in Assigned(j) : Uses(i, v)
           Names(L) == UNION {Assigned(i) : i \in L}
<1>1. \A i : Assigned(i) = Makes(i)
  <2> SUFFICES ASSUME NEW i
               PROVE  Assigned(i) = Makes(i)
    OBVIOUS
  <2>1. Security!Assigns(line[i], lang) <=> line[i].op \in signs[lang]
    BY DEF Security!Assigns
  <2>2. Security!ToSet(line[i].lhs) = ToSet(line[i].lhs)
    BY OneLibrary
  <2> HIDE DEF line, lang, signs
  <2>3. QED
    BY <2>1, <2>2 DEF Security!extract_assigned_vars
<1>2. Held(<<a, b>>) = UNION {Names(L) : L \in {L \in SUBSET (a..b) : Chosen(L)}}
  <2>1. <<a, b>>[1] = a /\ <<a, b>>[2] = b
    OBVIOUS
  <2> DEFINE fn == <<a, b>>
  <2>2. fn[1] = a /\ fn[2] = b
    BY <2>1
  <2> HIDE DEF fn
  <2>3. Held(fn) = UNION {Names(L) : L \in {L \in SUBSET (fn[1]..fn[2]) : Chosen(L)}}
    BY Zenon DEF Held
  <2> HIDE DEF Names, Chosen
  <2>4. Held(fn) = UNION {Names(L) : L \in {L \in SUBSET (a..b) : Chosen(L)}}
    BY <2>2, <2>3
  <2>5. QED
    BY <2>4 DEF fn
<1> DEFINE Follow(L) == \A i \in L : HasSource(line[i], lang) \/ \E j \in L : j < i /\ \E v \in Makes(j) : IsUsed(line[i], v)
           All(L) == UNION {Makes(i) : i \in L}
<1>3. HeldOn(line, lang, a, b) = UNION {All(L) : L \in {L \in SUBSET (a..b) : Follow(L)}}
  BY Zenon DEF HeldOn
<1>4. \A L : Chosen(L) <=> Follow(L)
  <2> HIDE DEF Assigned, Makes
  <2>1. QED
    BY <1>1, Zenon DEF HasSource, IsUsed
<1>5. \A L : Names(L) = All(L)
  <2> HIDE DEF Assigned, Makes
  <2>1. QED
    BY <1>1, Zenon
<1> HIDE DEF Names, All, Chosen, Follow, line, lang
<1>6. {L \in SUBSET (a..b) : Chosen(L)} = {L \in SUBSET (a..b) : Follow(L)}
  BY <1>4, Zenon
<1>7. UNION {Names(L) : L \in {L \in SUBSET (a..b) : Follow(L)}} = UNION {All(L) : L \in {L \in SUBSET (a..b) : Follow(L)}}
  BY <1>5, Zenon
<1>8. QED
  BY <1>2, <1>3, <1>6, <1>7 DEF line, lang

\* A node is a function, and reports what its lines lead to, or reports nothing.
LEMMA NodeReports ==
    ASSUME NEW lines, NEW lang, IsCode(lines, lang), NEW node, LiesIn(node, lines)
    PROVE  LET found == Security!analyze_node_for_taint(node, lines, lang)
           IN  /\ found \in Seq(Reports(lang))
               /\ ToSet(found) = IF node.kind \in Security!FunctionKinds
                                 THEN Expected(lines, lang, node.row, node.last) ELSE {}
<1>1. CASE node.kind \in Security!FunctionKinds
  <2>1. LET found == Security!analyze_function_taint(node, lines, lang)
        IN  found \in Seq(Reports(lang)) /\ ToSet(found) = Expected(lines, lang, node.row, node.last)
    BY FunctionReports, Zenon
  <2>2. QED
    BY <1>1, <2>1, Zenon DEF Security!analyze_node_for_taint
<1>2. CASE node.kind \notin Security!FunctionKinds
  <2>1. Security!analyze_node_for_taint(node, lines, lang) = <<>>
    BY <1>2 DEF Security!analyze_node_for_taint
  <2>2. ToSet(<<>>) = {} /\ <<>> \in Seq(Reports(lang))
    BY DEF ToSet
  <2>3. QED
    BY <1>2, <2>1, <2>2
<1>3. QED
  BY <1>1, <1>2

(***************************************************************************)
(* Every answer.                                                           *)
(***************************************************************************)

\* The inputs of a kind, from every beginning.
InputsOf(k) == UNION {Grown(k, seed) : seed \in Seeds[k]}

\* What is given and what is answered, in every state.
AnswerInv ==
    /\ kind \in DOMAIN Seeds
    /\ stage \in {"begun", "given", "answered"}
    /\ stage = "begun" => input \in Seeds[kind]
    /\ stage # "begun" => input \in InputsOf(kind)
    /\ Answered("comments") => output = Comments!scan_suppressions(input.source, input.lang)
    /\ Answered("dead") => output = Dead!analyze(Nodes(input))
    /\ Answered("flows") => output = Security!analyze_file(input)
    /\ Answered("layers") => output = Graph!analyze(input.files, input.entries)
    /\ Answered("gates") =>
          /\ output.plain = Audited(input, input.findings)
          /\ output.more = Audited(input, input.findings \o input.others)
    /\ Answered("fixes") =>
          LET results == orchestrate_fixes(input.findings, FALSE)
              written == apply_fixes_to_files([f \in {input.file} |-> input.content], results)
          IN  output = [results |-> results,
                        content |-> IF input.file \in DOMAIN written THEN written[input.file] ELSE input.content]

\* Every answer is the one that the analysis gives on its input.
LEMMA AnswersAreGiven == Spec => []AnswerInv
<1>1. Init => AnswerInv
  BY DEF Init, AnswerInv, Answered
<1>2. AnswerInv /\ [Next]_vars => AnswerInv'
  <2> SUFFICES ASSUME AnswerInv, [Next]_vars
               PROVE  AnswerInv'
    OBVIOUS
  <2> USE DEF Answered
  <2>1. CASE Complete
    BY <2>1 DEF AnswerInv, Complete, InputsOf
  <2>2. CASE SuppressionAnswers
    BY <2>2 DEF AnswerInv, SuppressionAnswers, Answer
  <2>3. CASE DeadCodeAnswers
    BY <2>3 DEF AnswerInv, DeadCodeAnswers, Answer
  <2>4. CASE FixAnswers
    BY <2>4 DEF AnswerInv, FixAnswers, Answer
  <2>5. CASE GateAnswers
    BY <2>5 DEF AnswerInv, GateAnswers, Answer
  <2>6. CASE FlowAnswers
    BY <2>6 DEF AnswerInv, FlowAnswers, Answer
  <2>7. CASE LayerAnswers
    BY <2>7 DEF AnswerInv, LayerAnswers, Answer
  <2>8. CASE OtherAnswers
    BY <2>8 DEF AnswerInv, OtherAnswers, Answer
  <2>9. CASE UNCHANGED vars
    BY <2>9 DEF AnswerInv, vars
  <2>10. QED
    BY <2>1, <2>2, <2>3, <2>4, <2>5, <2>6, <2>7, <2>8, <2>9 DEF Next
<1>3. QED
  BY <1>1, <1>2, PTL DEF Spec

\* deadcode/src/lib.rs: what is reported as unused, and may be deleted, is not
\* referred to by a file that keeps a live symbol, for any graph.
THEOREM RemovalsLeaveNothingDangling == Spec => []RemovalsLeaveNoDanglingUse
<1>1. AnswerInv => RemovalsLeaveNoDanglingUse
  <2> SUFFICES ASSUME AnswerInv, Answered("dead"),
                      NEW f \in Nodes(input), NEW k \in Dead!compute_alive_symbols(Nodes(input)), k.file = f.file,
                      NEW g \in Nodes(input), NEW i \in DOMAIN g.symbols, g.symbols[i].name \in f.refs,
                      NEW r \in output, r.file = g.file, r.start_line = g.symbols[i].start_line,
                      r.rule_id \in {"unused-function", "unused-type"}
               PROVE  FALSE
    BY DEF RemovalsLeaveNoDanglingUse
  <2>1. "dead" \in DOMAIN Seeds /\ input \in InputsOf("dead") /\ output = Dead!analyze(Nodes(input))
    BY DEF AnswerInv, Answered
  <2>2. PICK seed \in Seeds["dead"] : input \in Grown("dead", seed)
    BY <2>1 DEF InputsOf
  <2> DEFINE nodes == Nodes(input)
  <2>3. /\ IsFiniteSet(nodes)
        /\ \A n \in nodes : n.symbols \in Seq(ToSet(n.symbols))
        /\ \A m, n \in nodes : m.file = n.file =>
               \A s \in ToSet(m.symbols), t \in ToSet(n.symbols) :
                   s.start_line = t.start_line => s.name = t.name
    BY <2>1, <2>2, GraphsAreWellFormed, Zenon
  <2>4. IsGraph(nodes)
    BY <2>3 DEF IsGraph
  <2>5. r \in Dead!analyze(nodes)
    BY <2>1
  <2> HIDE DEF nodes
  <2>6. QED
    BY <2>3, <2>4, <2>5, NoUseOfTheRemoved DEF nodes
<1>2. QED
  BY <1>1, AnswersAreGiven, PTL

\* autofix/src/engine.rs: the applied fixes leave in a file what editing every
\* place of the original at once would, whatever the findings and their order.
THEOREM FixesTakeTheirPlaces == Spec => []EngineMatchesReference
<1>1. AnswerInv => EngineMatchesReference
  <2> SUFFICES ASSUME AnswerInv, Answered("fixes")
               PROVE  output.content = EditedAtOnce(input.content, AppliedEdits(output.results, input.file))
    BY DEF EngineMatchesReference
  <2> DEFINE results == orchestrate_fixes(input.findings, FALSE)
             file == input.file
             lines == input.content
             edits == AppliedEdits(results, file)
             contents == [f \in {file} |-> lines]
             written == apply_fixes_to_files(contents, results)
             content == IF file \in DOMAIN written THEN written[file] ELSE lines
  <2>1. "fixes" \in DOMAIN Seeds /\ input \in InputsOf("fixes")
    BY DEF AnswerInv, Answered
  <2>2. output = [results |-> results, content |-> content]
    BY Zenon DEF AnswerInv
  <2>3. output.results = results /\ output.content = content
    <3> HIDE DEF results, content
    <3>1. QED
      BY <2>2
  <2>4. lines \in Seq(ToSet(lines)) /\ AreFindings(input.findings)
    BY <2>1, FindingsAreWellFormed, Zenon DEF AreFindings, InputsOf
  <2>5. Apart(edits)
    BY <2>4, AppliedAreApart
  <2> DEFINE V == ToSet(lines) \cup UNION {ToSet(e.new_text) : e \in edits}
  <2>6. \A e \in edits : e.new_text \in Seq(ToSet(e.new_text))
    BY <2>4, AppliedEditsHavePlaces, AppliedIsPlanned
  <2> HIDE DEF results, lines, edits
  <2>7. lines \in Seq(V) /\ \A e \in edits : e.new_text \in Seq(V)
    <3>1. \A S : S \subseteq V => Seq(S) \subseteq Seq(V)
      OBVIOUS
    <3>2. ToSet(lines) \subseteq V /\ \A e \in edits : ToSet(e.new_text) \subseteq V
      OBVIOUS
    <3> HIDE DEF V
    <3>3. QED
      BY <2>4, <2>6, <3>1, <3>2
  <2> HIDE DEF V
  <2>8. apply_edits_to_content(lines, edits) = EditedAtOnce(lines, edits)
    BY <2>5, <2>7, BottomUpIsAtOnce
  <2>9. content = EditedAtOnce(lines, edits)
    <3>1. DOMAIN contents = {file} /\ contents[file] = lines
      OBVIOUS
    <3> HIDE DEF contents, file
    <3>2. CASE edits = {}
      <4>1. file \notin DOMAIN written
        BY <3>2 DEF apply_fixes_to_files, edits
      <4>2. EditedAtOnce(lines, {}) = lines
        BY <2>7, NothingIsEdited
      <4>3. QED
        BY <3>2, <4>1, <4>2
    <3>3. CASE edits # {}
      <4>1. DOMAIN written = {g \in DOMAIN contents : AppliedEdits(results, g) # {}}
        BY DEF apply_fixes_to_files
      <4>2. file \in DOMAIN written
        BY <3>1, <3>3, <4>1 DEF edits
      <4>3. written[file] = apply_edits_to_content(contents[file], AppliedEdits(results, file))
        BY <4>1, <4>2 DEF apply_fixes_to_files
      <4> HIDE DEF written
      <4>4. QED
        BY <2>8, <3>1, <4>2, <4>3 DEF edits
    <3>4. QED
      BY <3>2, <3>3
  <2> HIDE DEF content
  <2>10. QED
    BY <2>3, <2>9 DEF edits, lines
<1>2. QED
  BY <1>1, AnswersAreGiven, PTL

\* What the scan takes for suppressions are the comments that a lexer of the
\* whole file finds: AnalysisInputs!SuppressionsAreComments.
THEOREM SuppressionsAreInComments == Spec => []SuppressionsAreComments
<1>1. AnswerInv => SuppressionsAreComments
  <2> SUFFICES ASSUME AnswerInv, Answered("comments"),
                      ~Comments!HoldsDelimiters(input.source, input.lang)
               PROVE  {s.line : s \in output} = Comments!CommentLines(input.source, input.lang)
    BY Zenon DEF SuppressionsAreComments
  <2> DEFINE source == input.source
             lang == input.lang
  <2>1. "comments" \in DOMAIN Seeds /\ input \in InputsOf("comments")
    BY DEF AnswerInv, Answered
  <2>2. output = Comments!scan_suppressions(source, lang)
    BY Zenon DEF AnswerInv
  <2>3. /\ lang \in {"Go", "Python"} /\ source \in Seq(Seq(Comments!Characters))
        /\ Comments!WellFormed(source, lang)
    BY <2>1, SourcesAreWellFormed, Zenon DEF InputsOf
  <2>4. ~Comments!HoldsDelimiters(source, lang)
    OBVIOUS
  <2> DEFINE V == Comments!Characters
  <2> HIDE DEF source, lang, V
  <2>5. source \in Seq(Seq(V))
    BY <2>3 DEF V
  <2>6. {s.line : s \in Comments!scan_suppressions(source, lang)} = Comments!CommentLines(source, lang)
    BY <2>3, <2>4, <2>5, ScanFindsComments
  <2>7. QED
    BY <2>2, <2>6 DEF source, lang
<1>2. QED
  BY <1>1, AnswersAreGiven, PTL

\* More findings never improve the verdict of an audit, and known ones pass:
\* AnalysisInputs!MoreIsNeverRatedBetter.
THEOREM VerdictsOnlyGetWorse == Spec => []MoreIsNeverRatedBetter
<1>1. AnswerInv => MoreIsNeverRatedBetter
  <2> DEFINE stored == input.stored
             all == ToSet(input.findings) \cup (IF input.complexity.ok THEN ToSet(input.complexity.findings) ELSE {})
             plain == Audited(input, input.findings)
             more == Audited(input, input.findings \o input.others)
  <2> SUFFICES ASSUME AnswerInv, Answered("gates"), ~output.plain.failed
               PROVE  /\ Rank[output.plain.report.verdict] <= Rank[output.more.report.verdict]
                      /\ input.config.gate_mode # "all" /\ stored.readable
                          /\ {Gates!from_finding(f) : f \in all} \subseteq ToSet(stored.findings) =>
                             output.plain.report.verdict = "pass"
    BY DEF MoreIsNeverRatedBetter
  <2>1. "gates" \in DOMAIN Seeds /\ input \in InputsOf("gates")
    BY DEF AnswerInv, Answered
  <2>2. output.plain = plain /\ output.more = more
    BY Zenon DEF AnswerInv
  <2>3. /\ \A found \in {input.findings, input.others, input.complexity.findings} : found \in Seq(ToSet(found))
        /\ input.config.warn_threshold \in Nat /\ input.config.fail_threshold \in Nat
    BY <2>1, ReviewsAreWellFormed, Zenon DEF InputsOf
  <2>4. input.config.inside
    <3>1. ~input.config.inside => plain = [failed |-> TRUE]
      BY DEF Audited, Gates!cmd_audit, Gates!analyze
    <3>2. ~plain.failed
      BY <2>2
    <3> HIDE DEF plain
    <3>3. QED
      BY <3>1, <3>2
  <2>5. LET lall == ToSet(input.findings) \cup (IF input.complexity.ok THEN ToSet(input.complexity.findings) ELSE {})
            lplain == Audited(input, input.findings)
            lmore == Audited(input, input.findings \o input.others)
        IN  /\ Rank[lplain.report.verdict] <= Rank[lmore.report.verdict]
            /\ input.config.gate_mode # "all" /\ {Gates!from_finding(f) : f \in lall} \subseteq KnownIn(input.stored) =>
                   lplain.report.verdict = "pass"
    BY <2>3, <2>4, MoreIsJudged, Zenon
  <2>6. stored.readable => KnownIn(stored) = ToSet(stored.findings)
    BY DEF KnownIn
  <2> HIDE DEF plain, more, all
  <2>7. QED
    BY <2>2, <2>5, <2>6 DEF plain, more, all
<1>2. QED
  BY <1>1, AnswersAreGiven, PTL

\* security/src/sast.rs: the flows reported of a file are those that lead from a
\* source to a sink, whatever its lines, functions and names:
\* AnalysisInputs!FlowsAreReported.
THEOREM FlowsAreAlwaysReported == Spec => []FlowsAreReported
<1>1. AnswerInv => FlowsAreReported
  <2> DEFINE lines == input.lines
             lang == input.lang
             nodes == input.nodes
             n == Len(nodes)
             kinds == Security!FunctionKinds
             functions == {<<d.row, d.last>> : d \in {d \in ToSet(nodes) : d.kind \in kinds}}
             Given(fn) == UNION {lines[i].requests : i \in {i \in fn[1]..fn[2] : i <= fn[1] + 5}}
             Sinks(i) == lines[i].patterns \cap DOMAIN Security!SINKS[lang]
             IsReached(fn, i) == lines[i].names \cap (Held(fn) \cup Given(fn)) # {}
             At(i) == {[rule_id |-> Security!SINKS[lang][p], sink |-> p, start_line |-> i] : p \in Sinks(i)}
             From(fn) == UNION {At(i) : i \in {i \in fn[1]..fn[2] : IsReached(fn, i)}}
  <2> SUFFICES ASSUME AnswerInv, Answered("flows")
               PROVE  ToSet(output) = UNION {From(fn) : fn \in functions}
    BY Zenon DEF FlowsAreReported
  <2>1. "flows" \in DOMAIN Seeds /\ input \in InputsOf("flows") /\ output = Security!analyze_file(input)
    BY Zenon DEF AnswerInv, Answered
  <2>2. /\ lang \in {"Go", "Python"}
        /\ lines \in Seq(ToSet(lines))
        /\ \A line \in ToSet(lines) : line.requests \subseteq RequestNames[lang] /\ IsFiniteSet(line.patterns)
        /\ nodes \in Seq(ToSet(nodes))
        /\ \A d \in ToSet(nodes) : d.row \in 1..Len(lines) /\ d.last \in 1..Len(lines) /\ d.row <= d.last
    BY <2>1, CodeIsWellFormed, Zenon DEF InputsOf
  <2> DEFINE Whole(a, b) == Expected(lines, lang, a, b)
             Of(d) == Security!analyze_node_for_taint(d, lines, lang)
             parts == [i \in 1..n |-> Of(nodes[i])]
             V == Reports(lang)
  <2>3. \A a, b : From(<<a, b>>) = Whole(a, b)
    <3> SUFFICES ASSUME NEW a, NEW b
                 PROVE  From(<<a, b>>) = Whole(a, b)
      OBVIOUS
    <3> DEFINE fn == <<a, b>>
               led == {i \in a..b : lines[i].names \cap (HeldOn(lines, lang, a, b) \cup GivenOn(lines, a, b)) # {}}
    <3>1. fn[1] = a /\ fn[2] = b
      OBVIOUS
    <3>2. Held(fn) = HeldOn(lines, lang, a, b)
      BY <2>2, HeldByLines
    <3> HIDE DEF fn
    <3>3. Given(fn) = GivenOn(lines, a, b)
      BY <3>1, Zenon DEF GivenOn
    <3>4. {i \in fn[1]..fn[2] : IsReached(fn, i)} = led
      <4> HIDE DEF Given
      <4>1. QED
        BY <3>1, <3>2, <3>3
    <3>5. \A i : At(i) = {Report(lang, p, i) : p \in SinksOf(lines[i], lang)}
      BY Zenon DEF Report, SinksOf
    <3>6. Whole(a, b) = UNION {{Report(lang, p, i) : p \in SinksOf(lines[i], lang)} : i \in led}
      BY Zenon DEF Expected
    <3> HIDE DEF At, led, IsReached
    <3>7. From(fn) = UNION {At(i) : i \in led}
      BY <3>4, Zenon
    <3>8. UNION {At(i) : i \in led} = UNION {{Report(lang, p, i) : p \in SinksOf(lines[i], lang)} : i \in led}
      BY <3>5, Zenon
    <3> HIDE DEF Whole, From
    <3>9. QED
      BY <3>6, <3>7, <3>8 DEF fn
  <2> HIDE DEF From
  <2>4. n \in Nat /\ DOMAIN nodes = 1..n /\ ToSet(nodes) = {nodes[i] : i \in 1..n}
    BY <2>2 DEF ToSet
  <2>5. output = FlattenSeq(parts)
    <3>1. output = Security!FlattenSeq([i \in DOMAIN nodes |-> Of(nodes[i])])
      BY <2>1, <2>2 DEF Security!analyze_file
    <3> HIDE DEF Of, n, nodes
    <3>2. QED
      BY <2>4, <3>1, OneLibrary
  <2>6. \A d \in ToSet(nodes) :
            Of(d) \in Seq(V) /\ ToSet(Of(d)) = IF d.kind \in kinds THEN Whole(d.row, d.last) ELSE {}
    <3>1. IsCode(lines, lang)
      BY <2>2 DEF IsCode, KnowsRequests, HasFinitePatterns
    <3>2. \A d \in ToSet(nodes) : LiesIn(d, lines)
      BY <2>2, Zenon DEF LiesIn
    <3> HIDE DEF lines, lang, nodes
    <3>3. QED
      BY <3>1, <3>2, NodeReports, Zenon
  <2> HIDE DEF Of, V, n, nodes, Whole, kinds, lines, lang
  <2>7. parts \in [1..n -> Seq(V)] /\ \A i \in 1..n : parts[i] = Of(nodes[i]) /\ nodes[i] \in ToSet(nodes)
    BY <2>4, <2>6
  <2>8. ToSet(output) = UNION {ToSet(parts[i]) : i \in 1..n}
    <3> HIDE DEF parts
    <3>1. \A k \in Nat : \A p \in [1..k -> Seq(V)] : ToSet(FlattenSeq(p)) = UNION {ToSet(p[j]) : j \in 1..k}
      BY FlattenedElements
    <3>2. QED
      BY <2>4, <2>5, <2>7, <3>1, Zenon
  <2> HIDE DEF parts
  <2>9. ASSUME NEW i \in 1..n
        PROVE  ToSet(parts[i]) = {} \/ \E fn \in functions : ToSet(parts[i]) = From(fn)
    <3> DEFINE d == nodes[i]
    <3>1. d \in ToSet(nodes) /\ ToSet(parts[i]) = IF d.kind \in kinds THEN Whole(d.row, d.last) ELSE {}
      BY <2>6, <2>7
    <3> HIDE DEF d
    <3>2. CASE d.kind \in kinds
      <4>1. <<d.row, d.last>> \in functions /\ From(<<d.row, d.last>>) = Whole(d.row, d.last)
        BY <2>3, <3>1, <3>2
      <4> HIDE DEF functions
      <4>2. QED
        BY <3>1, <3>2, <4>1
    <3>3. CASE d.kind \notin kinds
      BY <3>1, <3>3
    <3>4. QED
      BY <3>2, <3>3
  <2>10. ASSUME NEW fn \in functions
         PROVE  \E i \in 1..n : ToSet(parts[i]) = From(fn)
    <3>1. PICK d \in ToSet(nodes) : d.kind \in kinds /\ fn = <<d.row, d.last>>
      OBVIOUS
    <3>2. PICK i \in 1..n : d = nodes[i]
      BY <2>4
    <3>3. ToSet(parts[i]) = Whole(d.row, d.last)
      BY <2>6, <2>7, <3>1, <3>2
    <3>4. From(fn) = Whole(d.row, d.last)
      BY <2>3, <3>1
    <3>5. QED
      BY <3>3, <3>4
  <2> HIDE DEF functions
  <2>11. UNION {ToSet(parts[i]) : i \in 1..n} = UNION {From(fn) : fn \in functions}
    BY <2>9, <2>10
  <2>12. QED
    BY <2>8, <2>11
<1>2. QED
  BY <1>1, AnswersAreGiven, PTL

\* arch/src/presets.rs: without a violation the innermost zone of a preset
\* reaches no other, over any number of files and imports:
\* AnalysisInputs!InnermostZoneIsClosed.
THEOREM InnermostZoneStaysClosed == Spec => []InnermostZoneIsClosed
<1>1. AnswerInv => InnermostZoneIsClosed
  <2> DEFINE graph == Graph!add_files(input.files)
             adj == Graph!build_adjacency(graph, Graph!PathOrder(input.files))
             named == input.entries[1].name
             Zone(f) == Graph!file_zone(f, Graph!Presets[named].zones)
             IsClosed(S) == \A f \in S : ToSet(adj[f]) \subseteq S
  <2> SUFFICES ASSUME AnswerInv, Answered("layers"), output.violations = {},
                      \A f \in DOMAIN graph : Zone(f) # "none" /\ Last(f) \notin {"tsx", "jsx"},
                      NEW f \in DOMAIN graph, NEW g \in DOMAIN graph, Zone(f) = Innermost[named],
                      \A S \in SUBSET DOMAIN graph : f \in S /\ IsClosed(S) => g \in S
               PROVE  Zone(g) = Innermost[named]
    BY Zenon DEF InnermostZoneIsClosed
  <2>1. /\ "layers" \in DOMAIN Seeds /\ input \in InputsOf("layers")
        /\ output = Graph!analyze(input.files, input.entries)
    BY Zenon DEF AnswerInv, Answered
  <2>2. /\ \E preset \in DOMAIN Innermost : input.entries = <<[kind |-> "preset", name |-> preset]>>
        /\ input.files \in Seq(ToSet(input.files))
        /\ \A file \in ToSet(input.files) : file.imports \in Seq(ToSet(file.imports))
    BY <2>1, ProjectsAreWellFormed, Zenon DEF InputsOf
  <2>3. PICK preset \in DOMAIN Innermost : input.entries = <<[kind |-> "preset", name |-> preset]>>
    BY <2>2
  <2>4. named = preset
    BY <2>3
  <2> DEFINE config == Graph!Presets[preset]
             inner == Innermost[preset]
             names == ZoneNames[preset]
  <2>5. preset \in DOMAIN Graph!Presets /\ KeepsInside(config, names, inner)
    BY PresetsKeepInside
  <2>6. inner # "none"
    BY DEF Innermost
  <2>7. Graph!from_config_map(input.entries) = <<config>>
    BY <2>3, <2>5, PresetIsTaken
  <2> HIDE DEF config, inner, names
  <2>8. Graph!BoundaryViolations(graph, config) = {}
    <3>1. <<config>> # <<>> /\ <<config>>[1] = config
      OBVIOUS
    <3>2. output.violations =
              Graph!BoundaryViolations(graph, IF <<config>> = <<>> THEN Graph!layered_config ELSE <<config>>[1])
      BY <2>1, <2>7 DEF Graph!analyze
    <3>3. QED
      BY <3>1, <3>2
  <2>9. \A e \in DOMAIN graph : Graph!file_zone(e, config.zones) # "none" /\ Last(e) \notin {"tsx", "jsx"}
    BY <2>4 DEF config
  <2> DEFINE inside == {e \in DOMAIN graph : Graph!file_zone(e, config.zones) = inner}
  <2>10. \A e \in inside : ToSet(adj[e]) \subseteq inside
    <3> DEFINE files == input.files
    <3>1. files \in Seq(ToSet(files)) /\ \A file \in ToSet(files) : file.imports \in Seq(ToSet(file.imports))
      BY <2>2
    <3>2. /\ Graph!BoundaryViolations(Graph!add_files(files), config) = {}
          /\ \A e \in DOMAIN Graph!add_files(files) :
                 Graph!file_zone(e, config.zones) # "none" /\ Last(e) \notin {"tsx", "jsx"}
      BY <2>8, <2>9
    <3> HIDE DEF files
    <3>3. LET all == Graph!add_files(files)
              edges == Graph!build_adjacency(all, Graph!PathOrder(files))
              within == {e \in DOMAIN all : Graph!file_zone(e, config.zones) = inner}
          IN  \A e \in within : ToSet(edges[e]) \subseteq within
      BY <2>5, <2>6, <3>1, <3>2, InnerIsClosed
    <3>4. QED
      BY <3>3 DEF files
  <2>11. f \in inside
    BY <2>4 DEF config, inner
  <2>12. g \in inside
    BY <2>10, <2>11
  <2>13. QED
    BY <2>4, <2>12 DEF config, inner
<1>2. QED
  BY <1>1, AnswersAreGiven, PTL
=============================================================================
