------------------------------ MODULE ParseCache -----------------------------
(***************************************************************************)
(* ParseCacheMetrics: four relaxed atomic counters that parsing threads    *)
(* raise while others flush them to the collector.  A flush loads each     *)
(* counter on its own, and hits and misses a second time for the rate.     *)
(*                                                                         *)
(* Loads of one counter by one thread never go back, which is all the      *)
(* relaxed ordering gives and all the interleaving of the steps assumes.   *)
(***************************************************************************)
EXTENDS Integers, Sequences

CONSTANTS
    Flushers,       \* threads that flush
    MaxCalls,       \* bound: events of each kind
    MaxFlushes      \* bound: flushes that reach the collector

VARIABLES
    cache,          \* the counters
    calls,          \* the events so far
    reads,          \* what each flush under way has loaded, in order
    begun,          \* the events before it began
    pushed          \* what the collector was given, with the events around it

cacheVars == <<cache, calls, reads, begun, pushed>>

Counters == {"hits", "misses", "evictions"}

\* Mutant: misses go out as hits, and hits as misses.
FlushReads_Swapped == <<"misses", "hits", "hits", "misses", "size_bytes", "evictions">>

\* The loads of flush_to_collector; the third and fourth are those of hit_rate.
FlushReads == <<"hits", "misses", "hits", "misses", "size_bytes", "evictions">>

Raise(counter) == cache' = [cache EXCEPT ![counter] = @ + 1]
record_hit == Raise("hits")
record_miss == Raise("misses")
record_eviction == Raise("evictions")

Record(counter) ==
    /\ calls[counter] < MaxCalls
    /\ \/ counter = "hits" /\ record_hit
       \/ counter = "misses" /\ record_miss
       \/ counter = "evictions" /\ record_eviction
    /\ calls' = [calls EXCEPT ![counter] = @ + 1]
    /\ UNCHANGED <<reads, begun, pushed>>

set_size_bytes(bytes) ==
    /\ cache' = [cache EXCEPT !["size_bytes"] = bytes]
    /\ UNCHANGED <<calls, reads, begun, pushed>>

Load(t) ==
    /\ Len(pushed) < MaxFlushes
    /\ Len(reads[t]) < Len(FlushReads)
    /\ reads' = [reads EXCEPT ![t] = Append(@, cache[FlushReads[Len(@) + 1]])]
    /\ begun' = IF reads[t] = <<>> THEN [begun EXCEPT ![t] = calls] ELSE begun
    /\ UNCHANGED <<cache, calls, pushed>>

\* The rate is kept as the two numbers it is made of; no event at all is a rate of 0.
Push(t) ==
    /\ Len(reads[t]) = Len(FlushReads)
    /\ pushed' = Append(pushed,
           [hits |-> reads[t][1], misses |-> reads[t][2], hit_rate |-> <<reads[t][3], reads[t][3] + reads[t][4]>>,
            size_bytes |-> reads[t][5], evictions |-> reads[t][6], before |-> begun[t], after |-> calls])
    /\ reads' = [reads EXCEPT ![t] = <<>>]
    /\ UNCHANGED <<cache, calls, begun>>

CacheInit ==
    /\ cache = [c \in Counters \cup {"size_bytes"} |-> 0]
    /\ calls = [c \in Counters |-> 0]
    /\ reads = [t \in Flushers |-> <<>>]
    /\ begun = [t \in Flushers |-> calls]
    /\ pushed = <<>>

CacheNext ==
    \/ \E c \in Counters : Record(c)
    \/ set_size_bytes(1)
    \/ \E t \in Flushers : Load(t) \/ Push(t)

\* A rate need not be that of the hits and misses pushed with it, but it is made
\* of counts the flush itself went through: no count made before the flush is
\* missing from any of its numbers, none made after it is in them, and the rate is
\* never of an older moment than the counters beside it.
FlushedRatesAreOfTheFlush ==
    \A i \in DOMAIN pushed :
        LET b == pushed[i]
        IN  /\ b.before["hits"] <= b.hits /\ b.hits <= b.hit_rate[1] /\ b.hit_rate[1] <= b.after["hits"]
            /\ b.before["misses"] <= b.misses /\ b.misses <= b.hit_rate[2] - b.hit_rate[1]
            /\ b.hit_rate[2] - b.hit_rate[1] <= b.after["misses"]
            /\ b.before["evictions"] <= b.evictions /\ b.evictions <= b.after["evictions"]
=============================================================================
