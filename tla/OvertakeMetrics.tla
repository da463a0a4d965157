-------------------------- MODULE OvertakeMetrics --------------------------
(***************************************************************************)
(* What becomes of the timestamps a trial leaves behind.  The workers hand *)
(* their logs over, each under records_mutex (commit_thread_logs, the same *)
(* in all four queues); the main thread joins them, drops the first records*)
(* as warm-up (run_benchmark in src/BenchmarkDriver.cpp), and measures how *)
(* often elements overtook each other (compute_overtake_metrics in         *)
(* src/FairnessLogger.cpp), first between the enqueue timestamps, then     *)
(* between the dequeue timestamps.                                         *)
(*                                                                         *)
(* A mean or a percentage is kept as its two terms, undivided.             *)
(***************************************************************************)
EXTENDS Integers, Sequences, FiniteSets, FiniteSetsExt, Functions

CONSTANTS
  Workers,   (* the worker threads                                         *)
  Warmup,    (* records dropped per thread: 200 in run_benchmark           *)
  Logs       (* client bound: what the workers may have logged, as         *)
             (* functions from Workers to sequences of records             *)

(* The four timestamps of an element. *)
LogRecord == [EnqueueInv : Nat, EnqueueLin : Nat, DequeueInv : Nat, DequeueLin : Nat]

ASSUME OMAssumption ==
  /\ IsFiniteSet(Workers)
  /\ Warmup \in Nat
  /\ \A l \in Logs : l \in [Workers -> Seq(LogRecord)]

VARIABLES
  log,       (* log[t]: g_tls_log.events of thread t                       *)
  joined,    (* the threads the main thread has joined                     *)
  records,   (* the queue's records                                        *)
  pc,        (* where the main thread is                                   *)
  metric,    (* "enqueue" or "dequeue": which fairness is being computed   *)
  pairs,     (* ts_pairs, sorted                                           *)
  left,      (* i: pairs[1 .. left] have yet to be swept                   *)
  bit,       (* the array of the Fenwick tree                              *)
  depth,     (* depth[k]: how many elements overtook pairs[k]              *)
  report     (* report[m]: the OvertakeMetrics of metric m                 *)

sweep       == <<pairs, left, bit, depth>>
metricsVars == <<log, joined, records, pc, metric, sweep, report>>

NoMetrics == [n |-> 0, sum |-> 0, max_depth |-> 0, count |-> 0]

MetricsInit ==
  /\ log \in Logs
  /\ joined  = {}
  /\ records = <<>>
  /\ pc      = "join"
  /\ metric  = "enqueue"
  /\ pairs   = <<>>
  /\ left    = 0
  /\ bit     = <<>>
  /\ depth   = <<>>
  /\ report  = [m \in {"enqueue", "dequeue"} |-> NoMetrics]

----------------------------------------------------------------------------
(* The end of a trial.                                                     *)

(* A worker appends its log to the records and ends, in any order. *)
Commit(t) ==
  /\ t \notin joined
  /\ records' = records \o log[t]
  /\ log'     = [log EXCEPT ![t] = <<>>]
  /\ joined'  = joined \cup {t}
  /\ UNCHANGED <<pc, metric, sweep, report>>

(* The warm-up: the records that happen to come first are erased. *)
Trim ==
  LET cutoff == Min({Warmup * Cardinality(Workers), Len(records)}) IN
  /\ pc = "join"
  /\ joined = Workers
  /\ records' = SubSeq(records, cutoff + 1, Len(records))
  /\ pc' = IF cutoff = Len(records) THEN "done" ELSE "build"
  /\ UNCHANGED <<log, joined, metric, sweep, report>>

----------------------------------------------------------------------------
(* compute_overtake_metrics                                                *)

(* get_field of event1 and of event2, by the metric asked for. *)
Event1(r, m) == IF m = "enqueue" THEN r.EnqueueInv ELSE r.DequeueInv
Event2(r, m) == IF m = "enqueue" THEN r.EnqueueLin ELSE r.DequeueLin

Before(a, b) == a[1] < b[1] \/ (a[1] = b[1] /\ a[2] < b[2])

(* The coordinate compression of event2: rank_e2, from 1. *)
E2Values == {pairs[k][2] : k \in 1 .. Len(pairs)}
Rank(k)  == Cardinality({v \in E2Values : v < pairs[k][2]}) + 1

(* idx & -idx, for the indices of a tree of n elements. *)
LowBit(n) ==
  LET low[x \in 1 .. n] == IF x % 2 = 1 THEN 1 ELSE 2 * low[x \div 2]
  IN  low

(* Fault: the update walks down the tree, as the query does. *)
UpdatedDown(r) ==
  LET n   == Len(bit)
      low == LowBit(n)
      walk[x \in 0 .. n] == IF x = 0 THEN {} ELSE {x} \cup walk[x - low[x]]
  IN  walk[r]

(* The indices that Fenwick::add visits from r on ... *)
Updated(r) ==
  LET n   == Len(bit)
      low == LowBit(n)
      walk[x \in 1 .. 2 * n] == IF x > n THEN {} ELSE {x} \cup walk[x + low[x]]
  IN  walk[r]

(* ... and what Fenwick::sum_prefix adds up from r on. *)
SumPrefix(r) ==
  LET low == LowBit(Len(bit))
      sum[x \in 0 .. Len(bit)] == IF x = 0 THEN 0 ELSE bit[x] + sum[x - low[x]]
  IN  sum[r]

(* Records without a first timestamp are skipped, the others sorted by     *)
(* both; the sort is stable.                                               *)
Kept    == {r \in 1 .. Len(records) : Event1(records[r], metric) # 0}
Pair(r) == <<Event1(records[r], metric), Event2(records[r], metric)>>

Precedes(r, s) == Before(Pair(r), Pair(s)) \/ (Pair(r) = Pair(s) /\ r < s)

Sorted ==
  CHOOSE f \in [1 .. Cardinality(Kept) -> Kept] :
    \A j, k \in DOMAIN f : j < k => Precedes(f[j], f[k])

Build ==
  /\ pc = "build"
  /\ pairs' = [k \in 1 .. Cardinality(Kept) |-> Pair(Sorted[k])]
  /\ left'  = Cardinality(Kept)
  /\ bit'   = [x \in 1 .. Cardinality({Pair(r)[2] : r \in Kept}) |-> 0]
  /\ depth' = [k \in 1 .. Cardinality(Kept) |-> 0]
  /\ pc'    = IF Kept = {} THEN "aggregate" ELSE "query"
  /\ UNCHANGED <<log, joined, records, metric, report>>

(* The elements that share the largest first timestamp not yet swept. *)
Group == {k \in 1 .. left : \A m \in k .. left : pairs[m][1] = pairs[left][1]}

(* Fault: an element is overtaken by those that entered at its own time. *)
QueryInclusive ==
  /\ pc = "query"
  /\ depth' = [k \in DOMAIN depth |->
                 IF k \in Group THEN SumPrefix(Rank(k)) ELSE depth[k]]
  /\ pc'    = "insert"
  /\ UNCHANGED <<log, joined, records, metric, pairs, left, bit, report>>

(* How many of the elements swept so far have a smaller second timestamp?  *)
Query ==
  /\ pc = "query"
  /\ depth' = [k \in DOMAIN depth |->
                 IF k \in Group THEN SumPrefix(Rank(k) - 1) ELSE depth[k]]
  /\ pc'    = "insert"
  /\ UNCHANGED <<log, joined, records, metric, pairs, left, bit, report>>

(* The group is added to the tree, and the sweep goes on below it. *)
InsertGroup ==
  LET rest == left - Cardinality(Group) IN
  /\ pc = "insert"
  /\ bit' = [x \in DOMAIN bit |->
               bit[x] + Cardinality({k \in Group : x \in Updated(Rank(k))})]
  /\ left' = rest
  /\ pc'  = IF rest = 0 THEN "aggregate" ELSE "query"
  /\ UNCHANGED <<log, joined, records, metric, pairs, depth, report>>

(* The statistics, and then the same for the dequeue timestamps. *)
Aggregate ==
  /\ pc = "aggregate"
  /\ report' = [report EXCEPT ![metric] =
                  [n         |-> Len(depth),
                   sum       |-> SumFunction(depth),
                   max_depth |-> Max({0} \cup Range(depth)),
                   count     |-> Cardinality({k \in DOMAIN depth : depth[k] > 0})]]
  /\ metric' = "dequeue"
  /\ pc'     = IF metric = "enqueue" THEN "build" ELSE "done"
  /\ UNCHANGED <<log, joined, records, sweep>>

MetricsNext ==
  \/ \E t \in Workers : Commit(t)
  \/ Trim
  \/ Build
  \/ Query
  \/ InsertGroup
  \/ Aggregate

MetricsSpec == MetricsInit /\ [][MetricsNext]_metricsVars

----------------------------------------------------------------------------
(* Properties.                                                             *)

(* While the sweep runs, the tree counts, for every rank, exactly the      *)
(* elements already swept whose second timestamp has at most that rank,    *)
(* and only elements with a strictly later first timestamp are in it when  *)
(* it is queried.                                                          *)
TreeHoldsLaterElements ==
  pc \in {"query", "insert"} =>
    /\ \A r \in 0 .. Len(bit) :
         SumPrefix(r) =
           Cardinality({m \in left + 1 .. Len(pairs) : Rank(m) <= r})
    /\ \A m \in left + 1 .. Len(pairs) : pairs[m][1] > pairs[left][1]

(* The definition of the metrics, from the records as they are: an element *)
(* is overtaken by every element whose call came later and which took      *)
(* effect earlier.                                                         *)
Elements(m) == {k \in 1 .. Len(records) : Event1(records[k], m) # 0}

Overtakers(k, m) ==
  {o \in Elements(m) :
     /\ Event1(records[o], m) > Event1(records[k], m)
     /\ Event2(records[o], m) < Event2(records[k], m)}

Definition(m) ==
  LET overtaken == [k \in Elements(m) |-> Cardinality(Overtakers(k, m))] IN
  [n         |-> Cardinality(Elements(m)),
   sum       |-> SumFunction(overtaken),
   max_depth |-> Max({0} \cup Range(overtaken)),
   count     |-> Cardinality({k \in Elements(m) : Overtakers(k, m) # {}})]

(* The sweep computes the metrics it is documented to compute, whatever    *)
(* the order in which the threads handed in their records.                 *)
MetricsCorrect ==
  pc = "done" => \A m \in {"enqueue", "dequeue"} : report[m] = Definition(m)

=============================================================================
