----------------------------- MODULE TrialProofs -----------------------------
(***************************************************************************)
(* A benchmark run (Trial), for every number of threads, trials and        *)
(* operations, is as the driver needs it: no measured operation runs beside*)
(* the prefill or a commit (MeasuredApart), a pair never finds the queue   *)
(* empty (PairsNeverMiss), the prefill covers the deficit (DeficitCovered),*)
(* and the records are complete when they are read (RecordsComplete).      *)
(*                                                                         *)
(* What the invariant adds to these: at the barrier, a thread is in the    *)
(* barrier's phase, or has arrived for it, or was let through by the one   *)
(* before; the barrier counts those who have not arrived; and elements are *)
(* neither lost nor made: those put in and those still to be put in are the*)
(* prefill and everybody's share.                                          *)
(***************************************************************************)
EXTENDS Trial, FiniteSetTheorems, TLAPS

----------------------------------------------------------------------------
(* Adding up a function on the threads: the area under it.                 *)

Under(f) == UNION {{t} \X (0 .. (f[t] - 1)) : t \in Threads}
Total(f) == Cardinality(Under(f))

LEMMA SomeThreads == MaxThreads \in Nat /\ MaxThreads > 0 /\ 0 \in Threads
BY TrialAssumption DEF Threads

LEMMA UnderHas ==
  ASSUME NEW f
  PROVE  \A p : p \in Under(f) <=>
           \E t \in Threads : \E j \in 0 .. (f[t] - 1) : p = <<t, j>>
BY DEF Under

LEMMA TotalType ==
  ASSUME NEW f \in [Threads -> Nat]
  PROVE  IsFiniteSet(Under(f)) /\ Total(f) \in Nat
<1>. DEFINE row == [t \in Threads |-> {t} \X (0 .. (f[t] - 1))]
            rows == {{t} \X (0 .. (f[t] - 1)) : t \in Threads}
<1>1. IsFiniteSet(Threads)
  BY SomeThreads, FS_Interval, 0 \in Int, MaxThreads - 1 \in Int DEF Threads
<1>2. row \in Surjection(Threads, rows)
  BY DEF Surjection
<1>3. IsFiniteSet(rows)
  BY <1>1, <1>2, FS_Surjection
<1>4. ASSUME NEW T \in rows PROVE IsFiniteSet(T)
  <2>1. PICK t \in Threads : T = {t} \X (0 .. (f[t] - 1))
    BY <1>4
  <2>2. f[t] - 1 \in Int /\ 0 \in Int
    OBVIOUS
  <2>3. IsFiniteSet({t}) /\ IsFiniteSet(0 .. (f[t] - 1))
    BY <2>2, FS_Singleton, FS_Interval
  <2>. QED BY <2>1, <2>3, FS_Product
<1>5. IsFiniteSet(UNION rows)
  BY <1>3, <1>4, FS_UNION
<1>6. IsFiniteSet(Under(f))
  BY <1>5 DEF Under
<1>. QED BY <1>6, FS_CardinalityType DEF Total

LEMMA TotalLess ==
  ASSUME NEW f \in [Threads -> Nat], NEW t \in Threads, f[t] > 0
  PROVE  Total([f EXCEPT ![t] = @ - 1]) = Total(f) - 1
<1>. DEFINE g == [f EXCEPT ![t] = @ - 1]
            top == <<t, f[t] - 1>>
<1>1. ASSUME NEW p PROVE p \in Under(g) <=> p \in Under(f) \ {top}
  <2>1. ASSUME NEW u \in Threads, NEW j \in 0 .. (g[u] - 1)
        PROVE  j \in 0 .. (f[u] - 1) /\ <<u, j>> # top
    BY <2>1
  <2>2. ASSUME NEW u \in Threads, NEW j \in 0 .. (f[u] - 1), <<u, j>> # top
        PROVE  j \in 0 .. (g[u] - 1)
    <3>1. CASE u = t
      BY <2>2, <3>1
    <3>2. CASE u # t
      BY <2>2, <3>2
    <3>. QED BY <3>1, <3>2
  <2>. HIDE DEF g, top
  <2>3. p \in Under(g) <=>
          \E u \in Threads : \E j \in 0 .. (g[u] - 1) : p = <<u, j>>
    BY UnderHas
  <2>4. p \in Under(f) <=>
          \E u \in Threads : \E j \in 0 .. (f[u] - 1) : p = <<u, j>>
    BY UnderHas
  <2>5. p \in Under(g) => p \in Under(f) \ {top}
    BY <2>1, <2>3, <2>4
  <2>6. p \in Under(f) \ {top} => p \in Under(g)
    BY <2>2, <2>3, <2>4
  <2>. QED BY <2>5, <2>6
<1>2. Under(g) = Under(f) \ {top}
  BY <1>1
<1>3. top \in Under(f)
  <2>1. f[t] - 1 \in 0 .. (f[t] - 1)
    OBVIOUS
  <2>. QED BY <2>1, UnderHas
<1>4. IsFiniteSet(Under(f))
  BY TotalType
<1>. HIDE DEF g, top
<1>5. Cardinality(Under(f) \ {top}) = Cardinality(Under(f)) - 1
  BY ONLY <1>3, <1>4, FS_RemoveElement
<1>. QED BY <1>2, <1>5 DEF Total, g

LEMMA TotalMore ==
  ASSUME NEW f \in [Threads -> Nat], NEW t \in Threads
  PROVE  Total([f EXCEPT ![t] = @ + 1]) = Total(f) + 1
<1>. DEFINE g == [f EXCEPT ![t] = @ + 1]
<1>1. g \in [Threads -> Nat] /\ g[t] > 0 /\ f = [g EXCEPT ![t] = @ - 1]
  <2>1. g \in [Threads -> Nat] /\ g[t] = f[t] + 1 /\ f[t] \in Nat
    OBVIOUS
  <2>2. ASSUME NEW u \in Threads PROVE f[u] = [g EXCEPT ![t] = @ - 1][u]
    BY <2>1
  <2>3. [g EXCEPT ![t] = @ - 1] \in [Threads -> Int]
    BY <2>1
  <2>4. f = [g EXCEPT ![t] = @ - 1]
    BY <2>2, <2>3
  <2>. QED BY <2>1, <2>4
<1>. HIDE DEF g
<1>2. Total(f) = Total(g) - 1
  BY <1>1, TotalLess
<1>3. Total(f) \in Nat /\ Total(g) \in Nat
  BY <1>1, TotalType
<1>4. Total(g) = Total(f) + 1
  BY <1>2, <1>3
<1>. QED BY <1>4 DEF g

LEMMA TotalClear ==
  ASSUME NEW f \in [Threads -> Nat], NEW t \in Threads
  PROVE  Total([f EXCEPT ![t] = 0]) = Total(f) - f[t]
<1>. DEFINE g == [f EXCEPT ![t] = 0]
            row == {t} \X (0 .. (f[t] - 1))
<1>1. ASSUME NEW p PROVE p \in Under(g) <=> p \in Under(f) \ row
  <2>1. ASSUME NEW u \in Threads, NEW j \in 0 .. (g[u] - 1)
        PROVE  j \in 0 .. (f[u] - 1) /\ <<u, j>> \notin row
    <3>1. CASE u = t
      BY <2>1, <3>1
    <3>2. CASE u # t
      BY <2>1, <3>2
    <3>. QED BY <3>1, <3>2
  <2>2. ASSUME NEW u \in Threads, NEW j \in 0 .. (f[u] - 1), <<u, j>> \notin row
        PROVE  j \in 0 .. (g[u] - 1)
    <3>1. CASE u = t
      BY <2>2, <3>1
    <3>2. CASE u # t
      BY <2>2, <3>2
    <3>. QED BY <3>1, <3>2
  <2>. HIDE DEF g, row
  <2>3. p \in Under(g) <=>
          \E u \in Threads : \E j \in 0 .. (g[u] - 1) : p = <<u, j>>
    BY UnderHas
  <2>4. p \in Under(f) <=>
          \E u \in Threads : \E j \in 0 .. (f[u] - 1) : p = <<u, j>>
    BY UnderHas
  <2>5. p \in Under(g) => p \in Under(f) \ row
    BY <2>1, <2>3, <2>4
  <2>6. p \in Under(f) \ row => p \in Under(g)
    BY <2>2, <2>3, <2>4
  <2>. QED BY <2>5, <2>6
<1>2. Under(g) = Under(f) \ row
  BY <1>1
<1>3. Under(f) \cap row = row
  <2>1. ASSUME NEW j \in 0 .. (f[t] - 1) PROVE <<t, j>> \in Under(f)
    BY UnderHas
  <2>. QED BY <2>1
<1>4. IsFiniteSet(Under(f))
  BY TotalType
<1>5. IsFiniteSet(0 .. (f[t] - 1)) /\ Cardinality(0 .. (f[t] - 1)) = f[t]
  <2>1. 0 \in Int /\ f[t] - 1 \in Int /\ f[t] \in Nat
    OBVIOUS
  <2>2. /\ IsFiniteSet(0 .. (f[t] - 1))
        /\ Cardinality(0 .. (f[t] - 1)) =
             IF 0 > f[t] - 1 THEN 0 ELSE (f[t] - 1) - 0 + 1
    BY <2>1, FS_Interval
  <2>. QED BY <2>1, <2>2
<1>6. Cardinality(row) = 1 * f[t]
  <2>1. IsFiniteSet({t}) /\ Cardinality({t}) = 1
    BY FS_Singleton
  <2>. QED BY <2>1, <1>5, FS_Product
<1>. HIDE DEF row
<1>7. Cardinality(Under(f) \ row) = Cardinality(Under(f)) - Cardinality(row)
  <2>1. Cardinality(Under(f) \ row)
          = Cardinality(Under(f)) - Cardinality(Under(f) \cap row)
    BY <1>4, FS_Difference
  <2>. QED BY <1>3, <2>1
<1>8. 1 * f[t] = f[t]
  OBVIOUS
<1>. QED BY <1>2, <1>6, <1>7, <1>8 DEF Total

LEMMA TotalEven ==
  ASSUME NEW k \in 0 .. MaxThreads, NEW c \in Nat
  PROVE  Total([t \in Threads |-> IF t \in 0 .. (k - 1) THEN c ELSE 0]) = k * c
<1>. DEFINE f == [t \in Threads |-> IF t \in 0 .. (k - 1) THEN c ELSE 0]
<1>0. k \in Nat /\ k <= MaxThreads /\ MaxThreads \in Nat
  BY SomeThreads
<1>1. ASSUME NEW p
      PROVE  p \in Under(f) <=> p \in (0 .. (k - 1)) \X (0 .. (c - 1))
  <2>1. ASSUME NEW u \in Threads, NEW j \in 0 .. (f[u] - 1)
        PROVE  u \in 0 .. (k - 1) /\ j \in 0 .. (c - 1)
    BY <2>1
  <2>2. ASSUME NEW u \in 0 .. (k - 1), NEW j \in 0 .. (c - 1)
        PROVE  u \in Threads /\ j \in 0 .. (f[u] - 1)
    BY <1>0, <2>2 DEF Threads
  <2>. QED BY <2>1, <2>2, UnderHas
<1>2. Under(f) = (0 .. (k - 1)) \X (0 .. (c - 1))
  BY <1>1
<1>3. ASSUME NEW m \in Nat
      PROVE  IsFiniteSet(0 .. (m - 1)) /\ Cardinality(0 .. (m - 1)) = m
  <2>1. 0 \in Int /\ m - 1 \in Int
    OBVIOUS
  <2>2. /\ IsFiniteSet(0 .. (m - 1))
        /\ Cardinality(0 .. (m - 1)) = IF 0 > m - 1 THEN 0 ELSE (m - 1) - 0 + 1
    BY <2>1, FS_Interval
  <2>. QED BY <2>1, <2>2
<1>4. Cardinality((0 .. (k - 1)) \X (0 .. (c - 1)))
        = Cardinality(0 .. (k - 1)) * Cardinality(0 .. (c - 1))
  BY <1>0, <1>3, FS_Product
<1>. HIDE DEF f
<1>5. Total(f) = k * c
  BY <1>0, <1>2, <1>3, <1>4 DEF Total
<1>. QED BY <1>5 DEF f

LEMMA TotalZero ==
  ASSUME NEW f \in [Threads -> Nat], \A t \in Threads : f[t] = 0
  PROVE  Total(f) = 0
<1>1. ASSUME NEW p PROVE p \notin Under(f)
  BY UnderHas
<1>2. Under(f) = {}
  BY <1>1
<1>. QED BY <1>2, FS_EmptySet DEF Total

----------------------------------------------------------------------------
(* The inductive invariant.                                                *)

Steps  == {"setup", "prefill", "deal", "measure"}
Before == {"none", "setup", "prefill", "deal"}
Heavy  == Workload = "DequeueHeavy"

(* How many phases of the barrier are over for a thread that runs in s. *)
Phase(s) ==
  CASE s \in {"none", "setup"} -> 0
    [] s = "prefill"           -> 1
    [] s = "deal"              -> 2
    [] s = "measure"           -> 3
    [] OTHER                   -> 4

(* Where the main thread is tells which workers have begun and ended. *)
MainInv ==
  /\ main = "spawn" =>
       /\ threads < n
       /\ \A t \in Workers : stage[t] = "none" <=> t >= threads
  /\ main = "join" =>
       /\ threads < n
       /\ \A t \in Workers : /\ stage[t] # "none"
                             /\ t < threads => stage[t] = "ended"
  /\ main \in {"read", "end"} => \A t \in Workers : stage[t] = "ended"

OthersInv == \A t \in Threads \ Workers : stage[t] = "none"

(* A thread runs in the barrier's phase, or waits for it to end, or has not*)
(* noticed that the one before is over.                                    *)
InPhase(t) == Running(t) /\ Phase(stage[t]) = sync.phase

AtBarrier(t) ==
  /\ stage[t] \in Steps
  /\ token[t] = Phase(stage[t])
  /\ token[t] \in {sync.phase - 1, sync.phase}

BarrierInv ==
  /\ \A t \in Threads : stage[t] = "none" => Running(t)
  /\ \A t \in Workers : InPhase(t) \/ AtBarrier(t)
  /\ sync.missing = Cardinality({t \in Workers : token[t] # sync.phase})

(* What a thread can still have to do where it is. *)
TodoInv ==
  \A t \in Threads :
    /\ ~ Running(t) => todo[t] = Nothing
    /\ stage[t] \in {"none", "deal", "commit", "ended"} => todo[t] = Nothing
    /\ stage[t] \in {"setup", "prefill"} =>
         todo[t].deq = 0 /\ (t = 0 \/ todo[t].enq = 0)
    /\ stage[t] = "setup" /\ ~ Paired => todo[t] = Nothing

(* Every element taken has a record, in the taker's log or handed over. *)
RecordInv ==
  /\ records + Total(log) = taken
  /\ \A t \in Threads : log[t] # 0 => stage[t] \in {"measure", "commit"}

(* The threads between the enqueue and the dequeue of a pair. *)
Owing == {t \in Threads : todo[t].deq > todo[t].enq}

PairInv ==
  Paired =>
    /\ missed = 0
    /\ size >= Cardinality(Owing)
    /\ \A t \in Threads : todo[t].deq <= todo[t].enq + 1

(* What is left to be done of the measured operations, and the prefill. *)
RestEnq == [t \in Threads |->
             IF t \in Workers /\ stage[t] \in Before THEN Share.enq
             ELSE IF stage[t] = "measure" THEN todo[t].enq ELSE 0]

RestDeq == [t \in Threads |->
             IF t \in Workers /\ stage[t] \in Before THEN Share.deq
             ELSE IF stage[t] = "measure" THEN todo[t].deq ELSE 0]

RestPre == IF stage[0] \in {"none", "setup"} THEN Prefill
           ELSE IF stage[0] = "prefill" THEN todo[0].enq ELSE 0

BalanceInv ==
  Heavy =>
    /\ size + taken + RestPre + Total(RestEnq) = Prefill + n * Share.enq
    /\ taken + missed + Total(RestDeq) = n * Share.deq

Inv ==
  /\ TypeOK
  /\ MainInv
  /\ OthersInv
  /\ BarrierInv
  /\ TodoInv
  /\ RecordInv
  /\ PairInv
  /\ BalanceInv

----------------------------------------------------------------------------
(* What the trial's parameters make of its workload.                       *)

LEMMA Parameters ==
  ASSUME TypeOK
  PROVE  /\ n \in Nat /\ n > 0 /\ n <= MaxThreads
         /\ Workers \subseteq Threads
         /\ 0 \in Workers
         /\ Workload \in {"EnqueueHeavy", "EnqueueDequeuePair", "DequeueHeavy"}
         /\ Heavy => ~ Paired
<1>1. n \in Nat /\ n > 0 /\ n <= MaxThreads
  BY SomeThreads DEF TypeOK
<1>2. Workers \subseteq Threads /\ 0 \in Workers
  BY <1>1, SomeThreads DEF Workers, Threads
<1>3. w = 1 \/ w = 2 \/ w = 3
  BY DEF TypeOK, Workloads
<1>4. Workload \in {"EnqueueHeavy", "EnqueueDequeuePair", "DequeueHeavy"}
  BY <1>3 DEF Workload, Workloads
<1>. QED BY <1>1, <1>2, <1>4 DEF Heavy, Paired

LEMMA Totals ==
  ASSUME TypeOK
  PROVE  /\ n * ops \in Nat
         /\ TotalEnq \in Nat
         /\ TotalDeq \in Nat
         /\ TotalEnq + TotalDeq = n * ops
<1>1. n \in Nat /\ ops \in Nat
  BY Parameters, TrialAssumption DEF TypeOK
<1>2. n * ops \in Nat
  BY <1>1
<1>. DEFINE x == n * ops
<1>. HIDE DEF x
<1>3. Percent(Workload) \in {33, 67, 100}
  BY Parameters DEF Percent
<1>4. TotalEnq = (x * Percent(Workload) + 50) \div 100
  BY DEF TotalEnq, x
<1>5. x \in Nat
  BY <1>2 DEF x
<1>6. ASSUME NEW e, e = (x * 33 + 50) \div 100 \/ e = (x * 67 + 50) \div 100
                    \/ e = (x * 100 + 50) \div 100
      PROVE  e \in Nat /\ e <= x
  BY <1>5, <1>6
<1>7. TotalEnq \in Nat /\ TotalEnq <= x
  BY <1>3, <1>4, <1>6
<1>. QED BY <1>2, <1>7 DEF TotalDeq, x

LEMMA WorkTypes ==
  ASSUME TypeOK
  PROVE  /\ Share \in [enq : Nat, deq : Nat]
         /\ Prefill \in Nat
         /\ Paired => Share.enq = Share.deq
         /\ \A t \in Threads : \A s : Work(t, s) \in [enq : Nat, deq : Nat]
<1>1. n \in Nat /\ n > 0 /\ ops \in Nat
  BY Parameters, TrialAssumption DEF TypeOK
<1>2. TotalEnq \in Nat /\ TotalDeq \in Nat
  BY Totals
<1>3. TotalEnq \div n \in Nat /\ TotalDeq \div n \in Nat
  BY <1>1, <1>2
<1>4. Share \in [enq : Nat, deq : Nat] /\ (Paired => Share.enq = Share.deq)
  BY <1>1, <1>3 DEF Share
<1>5. Slack \in Nat /\ PairSetup \in Nat
  BY TrialAssumption
<1>6. Deficit \in Nat
  BY <1>2 DEF Deficit
<1>7. Prefill \in Nat
  BY <1>5, <1>6, Parameters DEF Prefill, Paired
<1>8. Nothing \in [enq : Nat, deq : Nat]
  BY DEF Nothing
<1>. QED BY <1>4, <1>5, <1>7, <1>8 DEF Work

LEMMA Fixed ==
  ASSUME UNCHANGED trials
  PROVE  /\ ops' = ops /\ w' = w /\ n' = n /\ trial' = trial
         /\ Workload' = Workload /\ Paired' = Paired /\ Heavy' = Heavy
         /\ Workers' = Workers /\ Share' = Share /\ Prefill' = Prefill
<1>1. ops' = ops /\ w' = w /\ n' = n /\ trial' = trial
  BY DEF trials
<1>2. Workload' = Workload /\ Workers' = Workers
  BY <1>1 DEF Workload, Workers
<1>3. Paired' = Paired /\ Heavy' = Heavy
  BY <1>2 DEF Paired, Heavy
<1>4. TotalEnq' = TotalEnq
  BY <1>1, <1>2 DEF TotalEnq
<1>5. TotalDeq' = TotalDeq
  BY <1>1, <1>4 DEF TotalDeq
<1>6. Share' = Share
  BY <1>1, <1>3, <1>4, <1>5 DEF Share
<1>7. Prefill' = Prefill
  BY <1>2, <1>3, <1>4, <1>5 DEF Prefill, Deficit
<1>. QED BY <1>1, <1>2, <1>3, <1>6, <1>7

LEMMA RestTypes ==
  ASSUME TypeOK
  PROVE  /\ RestEnq \in [Threads -> Nat] /\ Total(RestEnq) \in Nat
         /\ RestDeq \in [Threads -> Nat] /\ Total(RestDeq) \in Nat
         /\ RestPre \in Nat
<1>1. /\ Share.enq \in Nat /\ Share.deq \in Nat /\ Prefill \in Nat
      /\ \A t \in Threads : todo[t].enq \in Nat /\ todo[t].deq \in Nat
  BY WorkTypes DEF TypeOK
<1>2. RestEnq \in [Threads -> Nat] /\ RestDeq \in [Threads -> Nat]
  BY <1>1 DEF RestEnq, RestDeq
<1>3. RestPre \in Nat
  BY <1>1, SomeThreads DEF RestPre
<1>. QED BY <1>2, <1>3, TotalType

RestsCount == RestEnq \in [Threads -> Nat] /\ RestDeq \in [Threads -> Nat]

LEMMA RestFunctions == TypeOK => RestsCount
BY RestTypes DEF RestsCount

LEMMA RestFunctionsLater == TypeOK' => RestsCount'
BY RestFunctions, PTL

(* The threads of a set, one of them, and how many.                        *)
LEMMA FiniteThreads ==
  ASSUME NEW S \in SUBSET Threads
  PROVE  /\ IsFiniteSet(S)
         /\ Cardinality(S) \in Nat
         /\ \A t \in S : Cardinality(S) > 0
<1>1. IsFiniteSet(Threads)
  BY SomeThreads, FS_Interval, 0 \in Int, MaxThreads - 1 \in Int DEF Threads
<1>2. IsFiniteSet(S) /\ Cardinality(S) \in Nat
  BY <1>1, FS_Subset, FS_CardinalityType
<1>3. S # {} => Cardinality(S) # 0
  BY <1>2, FS_EmptySet
<1>. QED BY <1>2, <1>3

LEMMA CountWorkers ==
  ASSUME TypeOK
  PROVE  Cardinality(Workers) = n
<1>1. n \in Nat /\ n > 0 /\ 0 \in Int /\ n - 1 \in Int
  BY Parameters
<1>2. Cardinality(0 .. (n - 1)) = IF 0 > n - 1 THEN 0 ELSE (n - 1) - 0 + 1
  BY <1>1, FS_Interval
<1>. QED BY <1>1, <1>2 DEF Workers

----------------------------------------------------------------------------
(* The invariant when a trial begins.                                      *)

Begins ==
  /\ ops     \in OpsChoices
  /\ w       \in 1 .. Len(Workloads)
  /\ n       \in 1 .. MaxThreads
  /\ trial   \in 1 .. Trials
  /\ main    = "spawn"
  /\ threads = 0
  /\ stage   = [t \in Threads |-> "none"]
  /\ token   = [t \in Threads |-> NoPhase]
  /\ sync    = NewBarrier(n)
  /\ todo    = [t \in Threads |-> Nothing]
  /\ size    = 0
  /\ log     = [t \in Threads |-> 0]
  /\ records = 0
  /\ taken   = 0
  /\ missed  = 0

LEMMA BeginsInv == Begins => Inv
<1>. SUFFICES ASSUME Begins PROVE Inv
  OBVIOUS
<1>1. n \in Nat /\ n > 0 /\ sync.phase = 0 /\ sync.missing = n
  BY SomeThreads DEF Begins, NewBarrier
<1>2. TypeOK
  BY <1>1, SomeThreads DEF Begins, TypeOK, NewBarrier, NoPhase, Nothing
<1>3. MainInv
  <2>1. main = "spawn" /\ threads = 0
    BY DEF Begins
  <2>2. ASSUME NEW t \in Workers PROVE stage[t] = "none" /\ t >= 0
    BY <1>1, <1>2, Parameters DEF Begins, Workers
  <2>. QED BY <1>1, <2>1, <2>2 DEF MainInv
<1>4. OthersInv
  BY DEF Begins, OthersInv
<1>5. BarrierInv
  <2>1. \A t \in Threads : Running(t) /\ stage[t] = "none"
    BY DEF Begins, Running
  <2>2. \A t \in Workers : InPhase(t)
    BY <1>1, <1>2, <2>1, Parameters DEF InPhase, Phase
  <2>3. {t \in Workers : token[t] # sync.phase} = Workers
    BY <1>1, <1>2, Parameters DEF Begins, NoPhase
  <2>. QED BY <1>1, <1>2, <2>1, <2>2, <2>3, CountWorkers DEF BarrierInv
<1>6. TodoInv
  BY DEF Begins, TodoInv, Nothing
<1>7. RecordInv
  <2>1. log \in [Threads -> Nat] /\ \A t \in Threads : log[t] = 0
    BY DEF Begins
  <2>. QED BY <2>1, TotalZero DEF RecordInv, Begins
<1>8. PairInv
  <2>1. \A t \in Threads : todo[t] = Nothing
    BY DEF Begins
  <2>2. Owing = {}
    BY <2>1 DEF Owing, Nothing
  <2>3. Cardinality(Owing) = 0
    BY <2>2, FS_EmptySet
  <2>. QED BY <2>1, <2>3 DEF PairInv, Begins, Nothing
<1>9. BalanceInv
  <2>1. Share.enq \in Nat /\ Share.deq \in Nat /\ Prefill \in Nat
    BY <1>2, WorkTypes
  <2>2. RestEnq = [t \in Threads |-> IF t \in 0 .. (n - 1) THEN Share.enq ELSE 0]
    BY DEF Begins, RestEnq, Workers, Before
  <2>3. RestDeq = [t \in Threads |-> IF t \in 0 .. (n - 1) THEN Share.deq ELSE 0]
    BY DEF Begins, RestDeq, Workers, Before
  <2>4. n \in 0 .. MaxThreads
    BY <1>1, <1>2, Parameters, SomeThreads
  <2>5. Total(RestEnq) = n * Share.enq /\ Total(RestDeq) = n * Share.deq
    BY <2>1, <2>2, <2>3, <2>4, TotalEven
  <2>6. RestPre = Prefill
    BY SomeThreads DEF RestPre, Begins
  <2>7. n * Share.enq \in Nat /\ n * Share.deq \in Nat
    BY <1>1, <2>1
  <2>. QED BY <2>1, <2>5, <2>6, <2>7 DEF BalanceInv, Begins
<1>. QED BY <1>2, <1>3, <1>4, <1>5, <1>6, <1>7, <1>8, <1>9 DEF Inv

LEMMA InitInv == Init => Inv
<1>1. Init => Begins
  BY SomeThreads, TrialAssumption DEF Init, Begins, Workloads
<1>. QED BY <1>1, BeginsInv

LEMMA NextTrialInv ==
  ASSUME Inv, NextTrial
  PROVE  Inv'
<1>1. Begins'
  <2>1. TypeOK /\ Trials \in Nat /\ Trials > 0 /\ MaxThreads \in Nat
    BY TrialAssumption DEF Inv
  <2>2. w \in Nat /\ n \in Nat /\ trial \in Nat
    BY <2>1 DEF TypeOK
  <2>3. w' \in 1 .. Len(Workloads) /\ n' \in 1 .. MaxThreads /\ trial' \in 1 .. Trials
    BY <2>1, <2>2, SomeThreads DEF NextTrial, TypeOK, Workloads
  <2>4. ops' \in OpsChoices /\ main' = "spawn" /\ Fresh(n')
    BY <2>1 DEF NextTrial, TypeOK
  <2>. QED BY <2>3, <2>4 DEF Begins, Fresh
<1>2. Begins' => Inv'
  BY BeginsInv, PTL
<1>. QED BY <1>1, <1>2

----------------------------------------------------------------------------
(* The main thread.                                                        *)

LEMMA SpawnInv ==
  ASSUME Inv, Spawn
  PROVE  Inv'
<1>. DEFINE t == threads
<1>1. /\ TypeOK /\ MainInv /\ OthersInv /\ BarrierInv
      /\ TodoInv /\ RecordInv /\ PairInv /\ BalanceInv
  BY DEF Inv
<1>2. /\ main = "spawn" /\ threads < n
      /\ \A u \in Workers : stage[u] = "none" <=> u >= threads
  BY <1>1 DEF Spawn, MainInv
<1>3. /\ n \in Nat /\ n > 0 /\ n <= MaxThreads /\ Workers \subseteq Threads
      /\ 0 \in Workers /\ threads \in Nat /\ threads \in Workers
      /\ threads \in Threads /\ stage[threads] = "none"
  BY <1>1, <1>2, Parameters DEF TypeOK, Workers
<1>4. /\ stage' = [stage EXCEPT ![threads] = "setup"]
      /\ todo'  = [todo EXCEPT ![threads] = Work(threads, "setup")]
      /\ UNCHANGED <<trials, token, sync, size, log, records, history>>
      /\ IF threads + 1 = n
         THEN main' = "join" /\ threads' = 0
         ELSE threads' = threads + 1 /\ main' = main
  BY DEF Spawn
<1>5. /\ token' = token /\ sync' = sync /\ size' = size /\ log' = log
      /\ records' = records /\ taken' = taken /\ missed' = missed
      /\ ops' = ops /\ w' = w /\ n' = n /\ trial' = trial
      /\ Paired' = Paired /\ Heavy' = Heavy /\ Workers' = Workers
      /\ Share' = Share /\ Prefill' = Prefill
  BY <1>4, Fixed DEF history
<1>6. /\ Running(threads) /\ todo[threads] = Nothing
      /\ Work(threads, "setup") \in [enq : Nat, deq : Nat]
      /\ Work(threads, "setup").deq = 0
      /\ threads = 0 \/ Work(threads, "setup").enq = 0
      /\ Paired \/ Work(threads, "setup") = Nothing
  <2>1. Work(threads, "setup") \in [enq : Nat, deq : Nat]
    BY <1>1, <1>3, WorkTypes
  <2>2. /\ Work(threads, "setup").deq = 0
        /\ threads = 0 \/ Work(threads, "setup").enq = 0
        /\ Paired \/ Work(threads, "setup") = Nothing
    BY DEF Work, Nothing
  <2>. QED BY <1>1, <1>3, <2>1, <2>2 DEF BarrierInv, TodoInv
<1>7. /\ \A u \in Threads : stage'[u] = IF u = threads THEN "setup" ELSE stage[u]
      /\ \A u \in Threads : todo'[u] = IF u = threads THEN Work(threads, "setup")
                                       ELSE todo[u]
  BY <1>1, <1>3, <1>4 DEF TypeOK
<1>8. TypeOK'
  <2>1. stage' \in [Threads -> {"none", "setup", "prefill", "deal", "measure",
                                "commit", "ended"}]
    BY <1>1, <1>4 DEF TypeOK
  <2>2. todo' \in [Threads -> [enq : Nat, deq : Nat]]
    BY <1>1, <1>4, <1>6 DEF TypeOK
  <2>3. main' \in {"spawn", "join", "read", "end"} /\ threads' \in 0 .. n
    BY <1>1, <1>2, <1>3, <1>4
  <2>. QED BY <1>1, <1>5, <2>1, <2>2, <2>3 DEF TypeOK
<1>9. MainInv'
  <2>1. CASE threads + 1 = n
    <3>1. main' = "join" /\ threads' = 0
      BY <1>4, <2>1
    <3>2. ASSUME NEW u \in Workers PROVE stage'[u] # "none" /\ ~ u < 0
      <4>1. u \in Nat /\ u < n /\ u \in Threads
        BY <1>3 DEF Workers
      <4>. QED BY <1>2, <1>3, <1>7, <2>1, <4>1
    <3>. QED BY <1>3, <1>5, <3>1, <3>2 DEF MainInv
  <2>2. CASE threads + 1 # n
    <3>1. main' = "spawn" /\ threads' = threads + 1 /\ threads + 1 < n
      BY <1>2, <1>3, <1>4, <2>2
    <3>2. ASSUME NEW u \in Workers
          PROVE  stage'[u] = "none" <=> u >= threads + 1
      <4>1. u \in Nat /\ u \in Threads
        BY <1>3 DEF Workers
      <4>. QED BY <1>2, <1>3, <1>7, <4>1
    <3>. QED BY <1>5, <3>1, <3>2 DEF MainInv
  <2>. QED BY <2>1, <2>2
<1>10. OthersInv'
  BY <1>1, <1>3, <1>5, <1>7 DEF OthersInv
<1>11. BarrierInv'
  <2>1. \A u \in Threads : stage'[u] = "none" => Running(u)'
    BY <1>1, <1>3, <1>5, <1>7 DEF BarrierInv, Running
  <2>2. ASSUME NEW u \in Workers PROVE InPhase(u)' \/ AtBarrier(u)'
    <3>1. CASE u = threads
      <4>1. InPhase(u)
        BY <1>1, <1>3, <3>1 DEF BarrierInv, AtBarrier, Steps
      <4>2. Phase(stage[u]) = 0 /\ Phase(stage'[u]) = 0
        BY <1>3, <1>7, <3>1 DEF Phase
      <4>. QED BY <1>5, <4>1, <4>2 DEF InPhase, Running
    <3>2. CASE u # threads
      <4>1. stage'[u] = stage[u]
        BY <1>3, <1>7, <3>2
      <4>. QED BY <1>1, <1>5, <4>1 DEF BarrierInv, InPhase, AtBarrier, Running
    <3>. QED BY <3>1, <3>2
  <2>. QED BY <1>1, <1>5, <2>1, <2>2 DEF BarrierInv
<1>12. TodoInv'
  <2>. SUFFICES ASSUME NEW u \in Threads
       PROVE  /\ ~ Running(u)' => todo'[u] = Nothing
              /\ stage'[u] \in {"none", "deal", "commit", "ended"}
                   => todo'[u] = Nothing
              /\ stage'[u] \in {"setup", "prefill"} =>
                   todo'[u].deq = 0 /\ (u = 0 \/ todo'[u].enq = 0)
              /\ stage'[u] = "setup" /\ ~ Paired => todo'[u] = Nothing
    BY <1>5 DEF TodoInv, Nothing
  <2>1. CASE u = threads
    BY <1>3, <1>5, <1>6, <1>7, <2>1 DEF Running
  <2>2. CASE u # threads
    BY <1>1, <1>3, <1>5, <1>7, <2>2 DEF Running, TodoInv
  <2>. QED BY <2>1, <2>2
<1>13. RecordInv'
  <2>1. \A u \in Threads : log[u] # 0 => stage'[u] \in {"measure", "commit"}
    BY <1>1, <1>3, <1>7 DEF RecordInv
  <2>2. records + Total(log) = taken
    BY <1>1 DEF RecordInv
  <2>3. Total(log)' = Total(log)
    BY <1>5 DEF Total, Under
  <2>. QED BY <1>5, <2>1, <2>2, <2>3 DEF RecordInv
<1>14. PairInv'
  <2>1. ASSUME NEW u \in Threads
        PROVE  /\ todo'[u].deq > todo'[u].enq <=> todo[u].deq > todo[u].enq
               /\ todo[u].deq <= todo[u].enq + 1 => todo'[u].deq <= todo'[u].enq + 1
    BY <1>3, <1>6, <1>7 DEF Nothing
  <2>2. Owing' = Owing
    BY <2>1 DEF Owing
  <2>. QED BY <1>1, <1>5, <2>1, <2>2 DEF PairInv
<1>15. BalanceInv'
  <2>1. RestEnq' = RestEnq /\ RestDeq' = RestDeq
    BY <1>3, <1>5, <1>7 DEF RestEnq, RestDeq, Before
  <2>2. RestPre' = RestPre
    BY <1>3, <1>5, <1>7, SomeThreads DEF RestPre
  <2>. QED BY <1>1, <1>5, <2>1, <2>2 DEF BalanceInv, Total, Under
<1>. QED BY <1>8, <1>9, <1>10, <1>11, <1>12, <1>13, <1>14, <1>15 DEF Inv

(* A step of the main thread alone disturbs only what is about it.         *)
LEMMA MainAlone ==
  ASSUME Inv,
         UNCHANGED <<trials, stage, token, sync, todo, size, log, records,
                     history>>,
         main' \in {"spawn", "join", "read", "end"}, threads' \in 0 .. n,
         MainInv'
  PROVE  Inv'
<1>1. /\ TypeOK /\ OthersInv /\ BarrierInv
      /\ TodoInv /\ RecordInv /\ PairInv /\ BalanceInv
  BY DEF Inv
<1>2. /\ stage' = stage /\ todo' = todo
      /\ token' = token /\ sync' = sync /\ size' = size /\ log' = log
      /\ records' = records /\ taken' = taken /\ missed' = missed
      /\ ops' = ops /\ w' = w /\ n' = n /\ trial' = trial
      /\ Paired' = Paired /\ Heavy' = Heavy /\ Workers' = Workers
      /\ Share' = Share /\ Prefill' = Prefill
  BY Fixed DEF history
<1>3. TypeOK'
  BY <1>1, <1>2 DEF TypeOK
<1>4. OthersInv'
  BY <1>1, <1>2 DEF OthersInv
<1>5. BarrierInv'
  <2>1. \A t \in Workers : InPhase(t)' \/ AtBarrier(t)'
    BY <1>1, <1>2 DEF BarrierInv, InPhase, AtBarrier, Running
  <2>. QED BY <1>1, <1>2, <2>1 DEF BarrierInv, Running
<1>6. TodoInv'
  BY <1>1, <1>2 DEF TodoInv, Running, Nothing
<1>7. RecordInv'
  BY <1>1, <1>2 DEF RecordInv, Total, Under
<1>8. PairInv'
  BY <1>1, <1>2 DEF PairInv, Owing
<1>9. BalanceInv'
  <2>1. RestEnq' = RestEnq /\ RestDeq' = RestDeq /\ RestPre' = RestPre
    BY <1>2 DEF RestEnq, RestDeq, RestPre
  <2>. QED BY <1>1, <1>2, <2>1 DEF BalanceInv, Total, Under
<1>. QED BY <1>3, <1>4, <1>5, <1>6, <1>7, <1>8, <1>9 DEF Inv

LEMMA JoinInv ==
  ASSUME Inv, Join
  PROVE  Inv'
<1>1. TypeOK /\ MainInv
  BY DEF Inv
<1>2. /\ main = "join" /\ threads < n /\ stage[threads] = "ended"
      /\ \A t \in Workers : /\ stage[t] # "none"
                            /\ t < threads => stage[t] = "ended"
      /\ threads' = threads + 1
      /\ main' = IF threads + 1 = n THEN "read" ELSE "join"
      /\ UNCHANGED <<trials, stage, token, sync, todo, size, log, records,
                     history>>
  BY <1>1 DEF Join, MainInv
<1>3. n \in Nat /\ threads \in Nat /\ threads + 1 <= n
  BY <1>1, <1>2, Parameters DEF TypeOK
<1>4. stage' = stage /\ Workers' = Workers /\ n' = n
  BY <1>2, Fixed
<1>5. ASSUME NEW t \in Workers, t < threads + 1 PROVE stage[t] = "ended"
  <2>1. t \in Nat
    BY <1>3 DEF Workers
  <2>. QED BY <1>2, <1>3, <1>5, <2>1
<1>6. MainInv'
  <2>1. CASE threads + 1 = n
    <3>1. \A t \in Workers : t < threads + 1
      BY <1>3, <2>1 DEF Workers
    <3>. QED BY <1>2, <1>4, <1>5, <2>1, <3>1 DEF MainInv
  <2>2. CASE threads + 1 # n
    <3>1. main' = "join" /\ threads + 1 < n
      BY <1>2, <1>3, <2>2
    <3>. QED BY <1>2, <1>4, <1>5, <3>1 DEF MainInv
  <2>. QED BY <2>1, <2>2
<1>7. main' \in {"spawn", "join", "read", "end"} /\ threads' \in 0 .. n
  BY <1>2, <1>3
<1>. QED BY <1>2, <1>6, <1>7, MainAlone

LEMMA ExitInv ==
  ASSUME Inv, Exit
  PROVE  Inv'
<1>1. TypeOK /\ MainInv
  BY DEF Inv
<1>2. /\ main = "read" /\ main' = "end" /\ threads' = threads
      /\ UNCHANGED <<trials, stage, token, sync, todo, size, log, records,
                     history>>
  BY DEF Exit
<1>3. stage' = stage /\ Workers' = Workers
  BY <1>2, Fixed
<1>4. MainInv'
  BY <1>1, <1>2, <1>3 DEF MainInv
<1>5. main' \in {"spawn", "join", "read", "end"} /\ threads' \in 0 .. n
  BY <1>1, <1>2 DEF TypeOK
<1>. QED BY <1>2, <1>4, <1>5, MainAlone

LEMMA StutterInv ==
  ASSUME Inv, UNCHANGED vars
  PROVE  Inv'
<1>1. TypeOK /\ MainInv
  BY DEF Inv
<1>2. /\ main' = main /\ threads' = threads
      /\ UNCHANGED <<trials, stage, token, sync, todo, size, log, records,
                     history>>
  BY DEF vars
<1>3. stage' = stage /\ Workers' = Workers /\ n' = n
  BY <1>2, Fixed
<1>4. MainInv'
  BY <1>1, <1>2, <1>3 DEF MainInv
<1>5. main' \in {"spawn", "join", "read", "end"} /\ threads' \in 0 .. n
  BY <1>1, <1>2 DEF TypeOK
<1>. QED BY <1>2, <1>4, <1>5, MainAlone

----------------------------------------------------------------------------
(* A worker at the barrier.                                                *)

(* Only a worker does anything.                                            *)
LEMMA BegunWorker ==
  ASSUME Inv, NEW t \in Threads, stage[t] # "none"
  PROVE  t \in Workers
BY DEF Inv, OthersInv

LEMMA WaitingWorker ==
  ASSUME Inv, NEW t \in Threads, ~ Running(t)
  PROVE  t \in Workers /\ AtBarrier(t) /\ todo[t] = Nothing
<1>1. stage[t] # "none" /\ todo[t] = Nothing
  BY DEF Inv, BarrierInv, TodoInv
<1>2. t \in Workers
  BY <1>1, BegunWorker
<1>. QED BY <1>1, <1>2 DEF Inv, BarrierInv, InPhase

LEMMA ArriveInv ==
  ASSUME Inv, NEW t \in Threads, Arrive(t)
  PROVE  Inv'
<1>1. /\ TypeOK /\ MainInv /\ OthersInv /\ BarrierInv
      /\ TodoInv /\ RecordInv /\ PairInv /\ BalanceInv
  BY DEF Inv
<1>2. /\ Running(t) /\ stage[t] \in Steps /\ todo[t] = Nothing
      /\ sync' = IF sync.missing = 1
                 THEN [phase |-> sync.phase + 1, missing |-> n]
                 ELSE [sync EXCEPT !.missing = @ - 1]
      /\ token' = [token EXCEPT ![t] = sync.phase]
      /\ UNCHANGED <<trials, main, threads, stage, todo, size, log, records,
                     history>>
  BY DEF Arrive, Steps
<1>3. /\ stage' = stage /\ todo' = todo /\ main' = main /\ threads' = threads
      /\ size' = size /\ log' = log
      /\ records' = records /\ taken' = taken /\ missed' = missed
      /\ ops' = ops /\ w' = w /\ n' = n /\ trial' = trial
      /\ Paired' = Paired /\ Heavy' = Heavy /\ Workers' = Workers
      /\ Share' = Share /\ Prefill' = Prefill
  BY <1>2, Fixed DEF history
<1>4. /\ t \in Workers /\ n \in Nat /\ n > 0 /\ Workers \subseteq Threads
  BY <1>1, <1>2, BegunWorker, Parameters DEF Steps
<1>5. Phase(stage[t]) = sync.phase /\ sync.phase \in 0 .. 3 /\ token[t] = NoPhase
  <2>1. InPhase(t)
    <3>1. ~ AtBarrier(t)
      BY <1>2 DEF AtBarrier, Running, NoPhase, Phase, Steps
    <3>. QED BY <1>1, <1>4, <3>1 DEF BarrierInv
  <2>2. Phase(stage[t]) \in 0 .. 3
    BY <1>2 DEF Steps, Phase
  <2>. QED BY <2>1, <2>2 DEF InPhase, Running
<1>. DEFINE Missing == {u \in Workers : token[u] # sync.phase}
<1>6. /\ IsFiniteSet(Missing) /\ t \in Missing /\ sync.missing = Cardinality(Missing)
      /\ sync.missing \in Nat /\ sync.missing > 0
  <2>1. t \in Missing
    BY <1>4, <1>5 DEF NoPhase
  <2>2. Missing \in SUBSET Threads
    BY <1>4
  <2>. QED BY <1>1, <2>1, <2>2, FiniteThreads DEF BarrierInv
<1>7. \A u \in Threads : token'[u] = IF u = t THEN sync.phase ELSE token[u]
  BY <1>1, <1>2 DEF TypeOK
<1>8. token' \in [Threads -> 0 .. 3 \cup {NoPhase}]
  BY <1>1, <1>2, <1>5 DEF TypeOK
<1>9. /\ ~ Running(t)'
      /\ \A u \in Threads : u # t => Running(u)' = Running(u)
  <2>1. ~ Running(t)'
    BY <1>5, <1>7 DEF Running, NoPhase
  <2>2. ASSUME NEW u \in Threads, u # t PROVE Running(u)' = Running(u)
    BY <1>7, <2>2 DEF Running
  <2>. QED BY <2>1, <2>2
<1>10. TypeOK' /\ BarrierInv'
  <2>0. \A u \in Threads : stage'[u] = "none" => Running(u)'
    BY <1>1, <1>2, <1>3, <1>9 DEF BarrierInv, Steps
  <2>1. CASE sync.missing = 1
    <3>1. sync'.phase = sync.phase + 1 /\ sync'.missing = n
      BY <1>2, <2>1
    <3>2. Missing = {t}
      BY <1>6, <2>1, FS_Singleton
    <3>3. ASSUME NEW u \in Workers PROVE token'[u] = sync.phase /\ AtBarrier(u)'
      <4>1. CASE u = t
        BY <1>2, <1>3, <1>4, <1>5, <1>7, <3>1, <4>1 DEF AtBarrier
      <4>2. CASE u # t
        <5>1. token[u] = sync.phase
          BY <3>2, <4>2
        <5>2. ~ InPhase(u)
          BY <1>5, <5>1 DEF InPhase, Running, NoPhase
        <5>3. AtBarrier(u)
          BY <1>1, <5>2 DEF BarrierInv
        <5>. QED BY <1>3, <1>4, <1>5, <1>7, <3>1, <4>2, <5>1, <5>3 DEF AtBarrier
      <4>. QED BY <4>1, <4>2
    <3>4. {u \in Workers : token'[u] # sync'.phase} = Workers
      BY <1>5, <3>1, <3>3
    <3>5. BarrierInv'
      BY <1>1, <1>3, <2>0, <3>1, <3>3, <3>4, CountWorkers DEF BarrierInv
    <3>6. sync' \in [phase : 0 .. 4, missing : 1 .. n]
      BY <1>2, <1>4, <1>5, <2>1
    <3>. QED BY <1>1, <1>3, <1>8, <3>5, <3>6 DEF TypeOK
  <2>2. CASE sync.missing # 1
    <3>1. sync'.phase = sync.phase /\ sync'.missing = sync.missing - 1
      BY <1>1, <1>2, <2>2 DEF TypeOK
    <3>2. {u \in Workers : token'[u] # sync'.phase} = Missing \ {t}
      BY <1>4, <1>7, <3>1
    <3>3. Cardinality(Missing \ {t}) = Cardinality(Missing) - 1
      BY <1>6, FS_RemoveElement
    <3>4. ASSUME NEW u \in Workers PROVE InPhase(u)' \/ AtBarrier(u)'
      <4>1. CASE u = t
        BY <1>2, <1>3, <1>4, <1>5, <1>7, <3>1, <4>1 DEF AtBarrier
      <4>2. CASE u # t
        <5>1. token'[u] = token[u] /\ u \in Threads
          BY <1>4, <1>7, <4>2
        <5>. QED BY <1>1, <1>3, <3>1, <5>1 DEF BarrierInv, InPhase, AtBarrier, Running
      <4>. QED BY <4>1, <4>2
    <3>5. BarrierInv'
      BY <1>3, <1>6, <2>0, <3>1, <3>2, <3>3, <3>4 DEF BarrierInv
    <3>6. sync' \in [phase : 0 .. 4, missing : 1 .. n]
      <4>1. sync' = [sync EXCEPT !.missing = @ - 1]
        BY <1>2, <2>2
      <4>2. sync.missing - 1 \in 1 .. n
        BY <1>1, <1>4, <1>6, <2>2 DEF TypeOK
      <4>. QED BY <1>1, <4>1, <4>2 DEF TypeOK
    <3>. QED BY <1>1, <1>3, <1>8, <3>5, <3>6 DEF TypeOK
  <2>. QED BY <2>1, <2>2
<1>11. MainInv' /\ OthersInv'
  BY <1>1, <1>3 DEF MainInv, OthersInv
<1>12. TodoInv'
  <2>1. ASSUME NEW u \in Threads, ~ Running(u)' PROVE todo'[u] = Nothing
    BY <1>1, <1>2, <1>3, <1>9, <2>1 DEF TodoInv
  <2>. QED BY <1>1, <1>3, <2>1 DEF TodoInv, Nothing
<1>13. RecordInv'
  BY <1>1, <1>3 DEF RecordInv, Total, Under
<1>14. PairInv'
  BY <1>1, <1>3 DEF PairInv, Owing
<1>15. BalanceInv'
  <2>1. RestEnq' = RestEnq /\ RestDeq' = RestDeq /\ RestPre' = RestPre
    BY <1>3 DEF RestEnq, RestDeq, RestPre
  <2>. QED BY <1>1, <1>3, <2>1 DEF BalanceInv, Total, Under
<1>. QED BY <1>10, <1>11, <1>12, <1>13, <1>14, <1>15 DEF Inv

LEMMA PassInv ==
  ASSUME Inv, NEW t \in Threads, Pass(t)
  PROVE  Inv'
<1>1. /\ TypeOK /\ MainInv /\ OthersInv /\ BarrierInv
      /\ TodoInv /\ RecordInv /\ PairInv /\ BalanceInv
  BY DEF Inv
<1>. DEFINE next == After(stage[t])
            work == Work(t, next)
<1>2. /\ ~ Running(t) /\ token[t] # sync.phase
      /\ token' = [token EXCEPT ![t] = NoPhase]
      /\ stage' = [stage EXCEPT ![t] = next]
      /\ todo'  = [todo EXCEPT ![t] = work]
      /\ UNCHANGED <<trials, main, threads, sync, size, log, records, history>>
  BY DEF Pass
<1>3. /\ main' = main /\ threads' = threads /\ sync' = sync
      /\ size' = size /\ log' = log
      /\ records' = records /\ taken' = taken /\ missed' = missed
      /\ ops' = ops /\ w' = w /\ n' = n /\ trial' = trial
      /\ Paired' = Paired /\ Heavy' = Heavy /\ Workers' = Workers
      /\ Share' = Share /\ Prefill' = Prefill
  BY <1>2, Fixed DEF history
<1>4. /\ t \in Workers /\ Workers \subseteq Threads
      /\ stage[t] \in Steps /\ token[t] = Phase(stage[t])
      /\ token[t] = sync.phase - 1 /\ todo[t] = Nothing
      /\ sync.phase \in Int
  <2>1. t \in Workers /\ AtBarrier(t) /\ todo[t] = Nothing
    BY <1>2, WaitingWorker
  <2>2. sync.phase \in Int
    BY <1>1 DEF TypeOK
  <2>3. token[t] = sync.phase - 1
    BY <1>2, <2>1 DEF AtBarrier
  <2>. QED BY <1>1, <2>1, <2>2, <2>3, Parameters DEF AtBarrier
<1>5. /\ next \in {"prefill", "deal", "measure", "commit"}
      /\ Phase(next) = sync.phase
  BY <1>4 DEF Steps, After, Phase
<1>6. /\ work \in [enq : Nat, deq : Nat]
      /\ next \in {"deal", "commit"} => work = Nothing
      /\ next = "prefill" => work.deq = 0 /\ (t = 0 \/ work.enq = 0)
      /\ Paired => work.deq <= work.enq
      /\ next = "measure" => work = Share
      /\ next = "prefill" /\ t = 0 => work.enq = Prefill
  <2>1. work \in [enq : Nat, deq : Nat]
    BY <1>1, WorkTypes
  <2>2. CASE next \in {"deal", "commit"}
    BY <2>1, <2>2 DEF Work, Nothing
  <2>3. CASE next = "prefill"
    <3>1. /\ t = 0 => work = [enq |-> Prefill, deq |-> 0]
          /\ t # 0 => work = Nothing
      BY <2>3 DEF Work
    <3>2. Prefill \in Nat
      BY <1>1, WorkTypes
    <3>. QED BY <2>1, <2>3, <3>1, <3>2 DEF Nothing
  <2>4. CASE next = "measure"
    <3>1. work = Share
      BY <2>4 DEF Work
    <3>. QED BY <1>1, <2>1, <2>4, <3>1, WorkTypes
  <2>. HIDE DEF next, work
  <2>. QED BY <1>5, <2>1, <2>2, <2>3, <2>4
<1>. HIDE DEF next, work
<1>7. /\ \A u \in Threads : token'[u] = IF u = t THEN NoPhase ELSE token[u]
      /\ \A u \in Threads : stage'[u] = IF u = t THEN next ELSE stage[u]
      /\ \A u \in Threads : todo'[u] = IF u = t THEN work ELSE todo[u]
  BY <1>1, <1>2 DEF TypeOK
<1>8. /\ Running(t)'
      /\ \A u \in Threads : u # t => Running(u)' = Running(u)
  <2>1. Running(t)'
    BY <1>7 DEF Running
  <2>2. ASSUME NEW u \in Threads, u # t PROVE Running(u)' = Running(u)
    BY <1>7, <2>2 DEF Running
  <2>. QED BY <2>1, <2>2
<1>9. TypeOK'
  <2>1. stage' \in [Threads -> {"none", "setup", "prefill", "deal", "measure",
                                "commit", "ended"}]
    BY <1>1, <1>2, <1>5 DEF TypeOK
  <2>2. todo' \in [Threads -> [enq : Nat, deq : Nat]]
    BY <1>1, <1>2, <1>6 DEF TypeOK
  <2>3. token' \in [Threads -> 0 .. 3 \cup {NoPhase}]
    BY <1>1, <1>2 DEF TypeOK
  <2>. QED BY <1>1, <1>3, <2>1, <2>2, <2>3 DEF TypeOK
<1>10. MainInv'
  <2>1. ASSUME NEW u \in Workers
        PROVE  /\ stage'[u] = "none" <=> stage[u] = "none"
               /\ stage[u] = "ended" => stage'[u] = "ended"
    BY <1>4, <1>5, <1>7 DEF Steps
  <2>. QED BY <1>1, <1>3, <2>1 DEF MainInv
<1>11. OthersInv'
  BY <1>1, <1>3, <1>4, <1>7 DEF OthersInv
<1>12. BarrierInv'
  <2>1. \A u \in Threads : stage'[u] = "none" => Running(u)'
    BY <1>1, <1>7, <1>8 DEF BarrierInv
  <2>2. ASSUME NEW u \in Workers PROVE InPhase(u)' \/ AtBarrier(u)'
    <3>1. CASE u = t
      <4>1. stage'[u] = next
        BY <1>4, <1>7, <3>1
      <4>. QED BY <1>3, <1>5, <1>8, <3>1, <4>1 DEF InPhase
    <3>2. CASE u # t
      <4>1. token'[u] = token[u] /\ stage'[u] = stage[u]
        BY <1>4, <1>7, <3>2
      <4>. QED BY <1>1, <1>3, <4>1 DEF BarrierInv, InPhase, AtBarrier, Running
    <3>. QED BY <3>1, <3>2
  <2>3. ASSUME NEW u \in Workers
        PROVE  token'[u] # sync'.phase <=> token[u] # sync.phase
    <3>1. sync.phase # NoPhase
      <4>1. sync.phase \in 0 .. 4
        BY <1>1 DEF TypeOK
      <4>. QED BY ONLY <4>1 DEF NoPhase
    <3>. QED BY <1>2, <1>3, <1>4, <1>7, <3>1
  <2>4. {u \in Workers : token'[u] # sync'.phase}
          = {u \in Workers : token[u] # sync.phase}
    BY <2>3
  <2>. QED BY <1>1, <1>3, <2>1, <2>2, <2>4 DEF BarrierInv
<1>13. TodoInv'
  <2>. SUFFICES ASSUME NEW u \in Threads
       PROVE  /\ ~ Running(u)' => todo'[u] = Nothing
              /\ stage'[u] \in {"none", "deal", "commit", "ended"}
                   => todo'[u] = Nothing
              /\ stage'[u] \in {"setup", "prefill"} =>
                   todo'[u].deq = 0 /\ (u = 0 \/ todo'[u].enq = 0)
              /\ stage'[u] = "setup" /\ ~ Paired => todo'[u] = Nothing
    BY <1>3 DEF TodoInv, Nothing
  <2>1. CASE u = t
    BY <1>5, <1>6, <1>7, <1>8, <2>1
  <2>2. CASE u # t
    BY <1>1, <1>7, <1>8, <2>2 DEF TodoInv
  <2>. QED BY <2>1, <2>2
<1>14. RecordInv'
  <2>1. ASSUME NEW u \in Threads, log[u] # 0
        PROVE  stage'[u] \in {"measure", "commit"}
    <3>1. stage[u] \in {"measure", "commit"}
      BY <1>1, <2>1 DEF RecordInv
    <3>2. CASE u = t
      <4>1. stage[t] = "measure"
        BY <1>4, <3>1, <3>2 DEF Steps
      <4>2. next = "commit"
        BY <4>1 DEF next, After
      <4>. QED BY <1>7, <3>2, <4>2
    <3>3. CASE u # t
      BY <1>7, <3>1, <3>3
    <3>. QED BY <3>2, <3>3
  <2>2. Total(log)' = Total(log)
    BY <1>3 DEF Total, Under
  <2>. QED BY <1>1, <1>3, <2>1, <2>2 DEF RecordInv
<1>15. PairInv'
  <2>1. ASSUME Paired, NEW u \in Threads
        PROVE  /\ todo'[u].deq > todo'[u].enq <=> todo[u].deq > todo[u].enq
               /\ todo[u].deq <= todo[u].enq + 1 => todo'[u].deq <= todo'[u].enq + 1
    BY <1>4, <1>6, <1>7, <2>1 DEF Nothing
  <2>2. Paired => Owing' = Owing
    BY <2>1 DEF Owing
  <2>. QED BY <1>1, <1>3, <2>1, <2>2 DEF PairInv
<1>16. BalanceInv'
  <2>1. /\ stage[t] \in Before => (next \in Before \/ next = "measure")
        /\ stage[t] \notin Before => next \notin Before /\ next # "measure"
        /\ stage[t] \in {"none", "setup"} => next = "prefill"
        /\ stage[t] \notin {"none", "setup"} => next \notin {"none", "setup", "prefill"}
    BY <1>4 DEF Steps, Before, next, After
  <2>2. todo[t].enq = 0 /\ todo[t].deq = 0
    BY <1>4 DEF Nothing
  <2>3. \A u \in Threads : RestEnq'[u] = RestEnq[u] /\ RestDeq'[u] = RestDeq[u]
    <3>1. ASSUME NEW u \in Threads
          PROVE  RestEnq'[u] = RestEnq[u] /\ RestDeq'[u] = RestDeq[u]
      <4>1. CASE u = t
        <5>1. stage'[u] = next /\ todo'[u] = work /\ u \in Workers
          BY <1>4, <1>7, <4>1
        <5>2. CASE stage[t] \in Before
          <6>1. RestEnq[u] = Share.enq /\ RestDeq[u] = Share.deq
            BY <4>1, <5>1, <5>2 DEF RestEnq, RestDeq
          <6>2. CASE next \in Before
            BY <1>3, <5>1, <6>1, <6>2 DEF RestEnq, RestDeq
          <6>3. CASE next = "measure"
            <7>1. "measure" \notin Before
              BY DEF Before
            <7>. QED BY <1>3, <1>6, <5>1, <6>1, <6>3, <7>1 DEF RestEnq, RestDeq
          <6>. QED BY <2>1, <5>2, <6>2, <6>3
        <5>3. CASE stage[t] \notin Before
          BY <1>3, <2>1, <2>2, <4>1, <5>1, <5>3 DEF RestEnq, RestDeq
        <5>. QED BY <5>2, <5>3
      <4>2. CASE u # t
        BY <1>3, <1>7, <4>2 DEF RestEnq, RestDeq
      <4>. QED BY <4>1, <4>2
    <3>. QED BY <3>1
  <2>4. RestEnq' = RestEnq /\ RestDeq' = RestDeq
    <3>1. /\ RestEnq \in [Threads -> Nat] /\ RestDeq \in [Threads -> Nat]
          /\ RestEnq' \in [Threads -> Nat] /\ RestDeq' \in [Threads -> Nat]
      BY <1>1, <1>9, RestFunctions, RestFunctionsLater DEF RestsCount
    <3>. QED BY <2>3, <3>1
  <2>5. RestPre' = RestPre
    <3>1. CASE t = 0
      BY <1>3, <1>6, <1>7, <2>1, <2>2, <3>1 DEF RestPre
    <3>2. CASE t # 0
      BY <1>3, <1>7, <3>2, SomeThreads DEF RestPre
    <3>. QED BY <3>1, <3>2
  <2>. QED BY <1>1, <1>3, <2>4, <2>5 DEF BalanceInv, Total, Under
<1>. QED BY <1>9, <1>10, <1>11, <1>12, <1>13, <1>14, <1>15, <1>16 DEF Inv

----------------------------------------------------------------------------
(* A worker hands over its log.                                            *)

LEMMA CommitInv ==
  ASSUME Inv, NEW t \in Threads, Commit(t)
  PROVE  Inv'
<1>1. /\ TypeOK /\ MainInv /\ OthersInv /\ BarrierInv
      /\ TodoInv /\ RecordInv /\ PairInv /\ BalanceInv
  BY DEF Inv
<1>2. /\ Running(t) /\ stage[t] = "commit"
      /\ records' = records + log[t]
      /\ log'     = [log EXCEPT ![t] = 0]
      /\ stage'   = [stage EXCEPT ![t] = "ended"]
      /\ UNCHANGED <<trials, main, threads, token, sync, todo, size, history>>
  BY DEF Commit
<1>3. /\ main' = main /\ threads' = threads /\ sync' = sync /\ token' = token
      /\ todo' = todo /\ size' = size /\ taken' = taken /\ missed' = missed
      /\ ops' = ops /\ w' = w /\ n' = n /\ trial' = trial
      /\ Paired' = Paired /\ Heavy' = Heavy /\ Workers' = Workers
      /\ Share' = Share /\ Prefill' = Prefill
  BY <1>2, Fixed DEF history
<1>4. t \in Workers /\ Workers \subseteq Threads
  BY <1>1, <1>2, BegunWorker, Parameters
<1>5. /\ \A u \in Threads : stage'[u] = IF u = t THEN "ended" ELSE stage[u]
      /\ \A u \in Threads : log'[u] = IF u = t THEN 0 ELSE log[u]
  BY <1>1, <1>2 DEF TypeOK
<1>6. TypeOK'
  <2>1. stage' \in [Threads -> {"none", "setup", "prefill", "deal", "measure",
                                "commit", "ended"}]
    BY <1>1, <1>2 DEF TypeOK
  <2>2. log' \in [Threads -> Nat] /\ records' \in Nat
    BY <1>1, <1>2 DEF TypeOK
  <2>. QED BY <1>1, <1>3, <2>1, <2>2 DEF TypeOK
<1>7. MainInv'
  <2>1. ASSUME NEW u \in Workers
        PROVE  /\ stage'[u] = "none" <=> stage[u] = "none"
               /\ stage[u] = "ended" => stage'[u] = "ended"
    BY <1>2, <1>4, <1>5
  <2>. QED BY <1>1, <1>3, <2>1 DEF MainInv
<1>8. OthersInv'
  BY <1>1, <1>3, <1>4, <1>5 DEF OthersInv
<1>9. BarrierInv'
  <2>1. \A u \in Threads : stage'[u] = "none" => Running(u)'
    BY <1>1, <1>3, <1>5 DEF BarrierInv, Running
  <2>2. ASSUME NEW u \in Workers PROVE InPhase(u)' \/ AtBarrier(u)'
    <3>1. CASE u = t
      <4>1. Phase(stage[u]) = 4 /\ Phase(stage'[u]) = 4
        BY <1>2, <1>4, <1>5, <3>1 DEF Phase
      <4>2. InPhase(u)
        BY <1>1, <1>2, <3>1 DEF BarrierInv, AtBarrier, Steps
      <4>. QED BY <1>3, <4>1, <4>2 DEF InPhase, Running
    <3>2. CASE u # t
      <4>1. stage'[u] = stage[u]
        BY <1>4, <1>5, <3>2
      <4>. QED BY <1>1, <1>3, <4>1 DEF BarrierInv, InPhase, AtBarrier, Running
    <3>. QED BY <3>1, <3>2
  <2>. QED BY <1>1, <1>3, <2>1, <2>2 DEF BarrierInv
<1>10. TodoInv'
  <2>1. todo[t] = Nothing
    BY <1>1, <1>2 DEF TodoInv
  <2>. SUFFICES ASSUME NEW u \in Threads
       PROVE  /\ ~ Running(u)' => todo'[u] = Nothing
              /\ stage'[u] \in {"none", "deal", "commit", "ended"}
                   => todo'[u] = Nothing
              /\ stage'[u] \in {"setup", "prefill"} =>
                   todo'[u].deq = 0 /\ (u = 0 \/ todo'[u].enq = 0)
              /\ stage'[u] = "setup" /\ ~ Paired => todo'[u] = Nothing
    BY <1>3 DEF TodoInv, Nothing
  <2>2. CASE u = t
    BY <1>3, <1>5, <2>1, <2>2
  <2>3. CASE u # t
    BY <1>1, <1>3, <1>5, <2>3 DEF TodoInv, Running
  <2>. QED BY <2>2, <2>3
<1>11. RecordInv'
  <2>1. \A u \in Threads : log'[u] # 0 => stage'[u] \in {"measure", "commit"}
    BY <1>1, <1>5 DEF RecordInv
  <2>2. Total(log)' = Total(log')
    BY DEF Total, Under
  <2>3. Total(log') = Total(log) - log[t]
    BY <1>1, <1>2, TotalClear DEF TypeOK
  <2>4. Total(log) \in Nat /\ log[t] \in Nat /\ records \in Nat /\ taken \in Nat
    BY <1>1, TotalType DEF TypeOK
  <2>5. records + Total(log) = taken
    BY <1>1 DEF RecordInv
  <2>6. records' + Total(log') = taken'
    BY <1>2, <1>3, <2>3, <2>4, <2>5
  <2>. QED BY <2>1, <2>2, <2>6 DEF RecordInv
<1>12. PairInv'
  BY <1>1, <1>3 DEF PairInv, Owing
<1>13. BalanceInv'
  <2>1. RestEnq' = RestEnq /\ RestDeq' = RestDeq
    BY <1>2, <1>3, <1>5 DEF RestEnq, RestDeq, Before
  <2>2. RestPre' = RestPre
    BY <1>2, <1>3, <1>5, SomeThreads DEF RestPre
  <2>. QED BY <1>1, <1>3, <2>1, <2>2 DEF BalanceInv, Total, Under
<1>. QED BY <1>6, <1>7, <1>8, <1>9, <1>10, <1>11, <1>12, <1>13 DEF Inv

----------------------------------------------------------------------------
(* The operations of a worker.                                             *)

(* What both leave as it was.                                              *)
LEMMA OperateInv ==
  ASSUME Inv, TypeOK', NEW t \in Threads, Running(t), todo[t] # Nothing,
         UNCHANGED <<trials, main, threads, stage, token, sync, records>>,
         \A u \in Threads : u # t => todo'[u] = todo[u],
         todo'[t].enq <= todo[t].enq, todo'[t].deq <= todo[t].deq
  PROVE  MainInv' /\ OthersInv' /\ BarrierInv' /\ TodoInv'
<1>1. /\ TypeOK /\ MainInv /\ OthersInv /\ BarrierInv /\ TodoInv
  BY DEF Inv
<1>2. /\ main' = main /\ threads' = threads /\ sync' = sync /\ token' = token
      /\ stage' = stage
      /\ ops' = ops /\ w' = w /\ n' = n /\ trial' = trial
      /\ Paired' = Paired /\ Workers' = Workers
  BY Fixed
<1>3. MainInv' /\ OthersInv'
  BY <1>1, <1>2 DEF MainInv, OthersInv
<1>4. BarrierInv'
  <2>1. \A u \in Workers : InPhase(u)' \/ AtBarrier(u)'
    BY <1>1, <1>2 DEF BarrierInv, InPhase, AtBarrier, Running
  <2>. QED BY <1>1, <1>2, <2>1 DEF BarrierInv, Running
<1>5. TodoInv'
  <2>0. /\ stage[t] \notin {"none", "deal", "commit", "ended"}
        /\ ~ (stage[t] = "setup" /\ ~ Paired)
    BY <1>1 DEF TodoInv
  <2>1. /\ todo[t] \in [enq : Nat, deq : Nat]
        /\ todo'[t] \in [enq : Nat, deq : Nat]
    BY <1>1 DEF TypeOK
  <2>. SUFFICES ASSUME NEW u \in Threads
       PROVE  /\ ~ Running(u)' => todo'[u] = Nothing
              /\ stage'[u] \in {"none", "deal", "commit", "ended"}
                   => todo'[u] = Nothing
              /\ stage'[u] \in {"setup", "prefill"} =>
                   todo'[u].deq = 0 /\ (u = 0 \/ todo'[u].enq = 0)
              /\ stage'[u] = "setup" /\ ~ Paired => todo'[u] = Nothing
    BY <1>2 DEF TodoInv, Nothing
  <2>2. CASE u = t
    <3>1. stage[t] \in {"setup", "prefill"} =>
            todo[t].deq = 0 /\ (t = 0 \/ todo[t].enq = 0)
      BY <1>1 DEF TodoInv
    <3>2. stage[t] \in {"setup", "prefill"} =>
            todo'[t].deq = 0 /\ (t = 0 \/ todo'[t].enq = 0)
      BY <2>1, <3>1
    <3>3. Running(t)'
      BY <1>2 DEF Running
    <3>. QED BY <1>2, <2>0, <2>2, <3>2, <3>3
  <2>3. CASE u # t
    BY <1>1, <1>2, <2>3 DEF TodoInv, Running
  <2>. QED BY <2>2, <2>3
<1>. QED BY <1>3, <1>4, <1>5

LEMMA EnqueueInv ==
  ASSUME Inv, NEW t \in Threads, Enqueue(t)
  PROVE  Inv'
<1>1. /\ TypeOK /\ MainInv /\ OthersInv /\ BarrierInv
      /\ TodoInv /\ RecordInv /\ PairInv /\ BalanceInv
  BY DEF Inv
<1>2. /\ Running(t) /\ todo[t].enq > 0
      /\ stage[t] = "measure" /\ Paired => todo[t].enq = todo[t].deq
      /\ size' = size + 1
      /\ todo' = [todo EXCEPT ![t].enq = @ - 1]
      /\ UNCHANGED <<trials, main, threads, stage, token, sync, log, records,
                     history>>
  BY DEF Enqueue, PutOne
<1>3. /\ main' = main /\ threads' = threads /\ sync' = sync /\ token' = token
      /\ stage' = stage /\ log' = log /\ records' = records
      /\ taken' = taken /\ missed' = missed
      /\ ops' = ops /\ w' = w /\ n' = n /\ trial' = trial
      /\ Paired' = Paired /\ Heavy' = Heavy /\ Workers' = Workers
      /\ Share' = Share /\ Prefill' = Prefill
  BY <1>2, Fixed DEF history
<1>4. /\ todo[t] \in [enq : Nat, deq : Nat]
      /\ todo' \in [Threads -> [enq : Nat, deq : Nat]]
      /\ todo'[t].enq = todo[t].enq - 1 /\ todo'[t].deq = todo[t].deq
      /\ \A u \in Threads : u # t => todo'[u] = todo[u]
  <2>1. todo[t] \in [enq : Nat, deq : Nat] /\ todo[t].enq - 1 \in Nat
    BY <1>1, <1>2 DEF TypeOK
  <2>2. todo' = [todo EXCEPT ![t] = [todo[t] EXCEPT !.enq = todo[t].enq - 1]]
    BY <1>2
  <2>3. [todo[t] EXCEPT !.enq = todo[t].enq - 1] \in [enq : Nat, deq : Nat]
    BY <2>1
  <2>. QED BY <1>1, <2>1, <2>2, <2>3 DEF TypeOK
<1>5. TypeOK'
  <2>1. size' \in Nat
    BY <1>1, <1>2 DEF TypeOK
  <2>. QED BY <1>1, <1>3, <1>4, <2>1 DEF TypeOK
<1>6. MainInv' /\ OthersInv' /\ BarrierInv' /\ TodoInv'
  <2>1. todo[t] # Nothing
    BY <1>2 DEF Nothing
  <2>2. todo'[t].enq <= todo[t].enq /\ todo'[t].deq <= todo[t].deq
    BY <1>4
  <2>. QED BY <1>2, <1>4, <1>5, <2>1, <2>2, OperateInv
<1>7. RecordInv'
  BY <1>1, <1>3 DEF RecordInv, Total, Under
<1>8. /\ stage[t] \in {"setup", "prefill"} => todo[t].deq = 0 /\ t = 0
      /\ stage[t] \in {"setup", "prefill", "measure"}
      /\ stage[t] = "setup" => Paired
  <2>1. todo[t] # Nothing /\ todo[t].enq # 0
    BY <1>2 DEF Nothing
  <2>2. stage[t] \in {"none", "setup", "prefill", "deal", "measure", "commit",
                      "ended"}
    BY <1>1 DEF TypeOK
  <2>. QED BY <1>1, <2>1, <2>2 DEF TodoInv
<1>9. PairInv'
  <2>. SUFFICES ASSUME Paired PROVE PairInv'
    BY <1>3 DEF PairInv
  <2>1. /\ missed = 0 /\ size >= Cardinality(Owing)
        /\ \A u \in Threads : todo[u].deq <= todo[u].enq + 1
    BY <1>1 DEF PairInv
  <2>2. Owing \in SUBSET Threads /\ Owing' \in SUBSET Threads
    BY DEF Owing
  <2>3. /\ IsFiniteSet(Owing) /\ Cardinality(Owing) \in Nat
        /\ Cardinality(Owing') \in Nat
    BY <2>2, FiniteThreads
  <2>4. Owing' \subseteq Owing \cup {t}
    BY <1>4 DEF Owing
  <2>5. Cardinality(Owing') <= Cardinality(Owing) + 1
    <3>1. /\ IsFiniteSet(Owing \cup {t})
          /\ Cardinality(Owing \cup {t}) =
               IF t \in Owing THEN Cardinality(Owing) ELSE Cardinality(Owing) + 1
      BY <2>3, FS_AddElement
    <3>2. Cardinality(Owing') <= Cardinality(Owing \cup {t})
      BY <2>4, <3>1, FS_Subset
    <3>. QED BY <2>3, <3>1, <3>2
  <2>6. size' >= Cardinality(Owing')
    <3>1. size \in Nat
      BY <1>1 DEF TypeOK
    <3>. QED BY <1>2, <2>1, <2>3, <2>5, <3>1
  <2>7. ASSUME NEW u \in Threads PROVE todo'[u].deq <= todo'[u].enq + 1
    <3>1. CASE u = t
      <4>1. todo[t].deq <= todo[t].enq
        BY <1>2, <1>4, <1>8
      <4>. QED BY <1>4, <3>1, <4>1
    <3>2. CASE u # t
      BY <1>4, <2>1, <3>2
    <3>. QED BY <3>1, <3>2
  <2>8. Cardinality(Owing)' = Cardinality(Owing')
    BY DEF Owing
  <2>. QED BY <1>3, <2>1, <2>6, <2>7 DEF PairInv
<1>10. BalanceInv'
  <2>. SUFFICES ASSUME Heavy PROVE BalanceInv'
    BY <1>3 DEF BalanceInv
  <2>1. /\ size + taken + RestPre + Total(RestEnq) = Prefill + n * Share.enq
        /\ taken + missed + Total(RestDeq) = n * Share.deq
    BY <1>1 DEF BalanceInv
  <2>2. ~ Paired /\ stage[t] \in {"prefill", "measure"}
    BY <1>1, <1>8, Parameters
  <2>3. /\ RestsCount /\ RestsCount'
        /\ RestPre \in Nat /\ Total(RestEnq) \in Nat
        /\ size \in Nat /\ taken \in Nat
    BY <1>1, <1>5, RestTypes, RestFunctions, RestFunctionsLater DEF TypeOK
  <2>4. RestDeq' = RestDeq
    <3>1. ASSUME NEW u \in Threads PROVE RestDeq'[u] = RestDeq[u]
      BY <1>3, <1>4 DEF RestDeq
    <3>. QED BY <2>3, <3>1 DEF RestsCount
  <2>5. Total(RestDeq)' = Total(RestDeq)
    BY <2>4 DEF Total, Under
  <2>6. Total(RestEnq)' = Total(RestEnq')
    BY DEF Total, Under
  <2>7. \A u \in Threads : u # t => RestEnq'[u] = RestEnq[u]
    BY <1>3, <1>4 DEF RestEnq
  <2>8. CASE stage[t] = "prefill"
    <3>1. RestEnq'[t] = RestEnq[t]
      BY <1>3, <2>8 DEF RestEnq
    <3>2. RestEnq' = RestEnq
      BY <2>3, <2>7, <3>1 DEF RestsCount
    <3>3. RestPre' = RestPre - 1
      BY <1>3, <1>4, <1>8, <2>8 DEF RestPre
    <3>4. size' + taken' + RestPre' + Total(RestEnq')
            = size + taken + RestPre + Total(RestEnq)
      BY <1>2, <1>3, <2>3, <3>2, <3>3
    <3>. QED BY <1>3, <2>1, <2>5, <2>6, <3>4 DEF BalanceInv
  <2>9. CASE stage[t] = "measure"
    <3>1. stage[t] \notin Before
      BY <2>9 DEF Before
    <3>2. RestEnq[t] = todo[t].enq /\ RestEnq'[t] = todo'[t].enq
      BY <1>3, <2>9, <3>1 DEF RestEnq
    <3>3. RestEnq' = [RestEnq EXCEPT ![t] = @ - 1]
      BY <1>2, <1>4, <2>3, <2>7, <3>2 DEF RestsCount
    <3>4. Total(RestEnq') = Total(RestEnq) - 1
      BY <1>2, <2>3, <3>2, <3>3, TotalLess DEF RestsCount
    <3>5. RestPre' = RestPre
      <4>1. 0 = t \/ todo'[0] = todo[0]
        BY <1>4, SomeThreads
      <4>. QED BY <1>3, <2>9, <4>1 DEF RestPre
    <3>6. size' + taken' + RestPre' + Total(RestEnq')
            = size + taken + RestPre + Total(RestEnq)
      BY <1>2, <1>3, <2>3, <3>4, <3>5
    <3>. QED BY <1>3, <2>1, <2>5, <2>6, <3>6 DEF BalanceInv
  <2>. QED BY <2>2, <2>8, <2>9
<1>. QED BY <1>5, <1>6, <1>7, <1>9, <1>10 DEF Inv

LEMMA DequeueInv ==
  ASSUME Inv, NEW t \in Threads, Dequeue(t)
  PROVE  Inv'
<1>1. /\ TypeOK /\ MainInv /\ OthersInv /\ BarrierInv
      /\ TodoInv /\ RecordInv /\ PairInv /\ BalanceInv
  BY DEF Inv
<1>2. /\ Running(t) /\ todo[t].deq > 0
      /\ Paired => todo[t].deq > todo[t].enq
      /\ todo' = [todo EXCEPT ![t].deq = @ - 1]
      /\ TakeOne(t)
      /\ UNCHANGED <<trials, main, threads, stage, token, sync, records>>
  BY DEF Dequeue
<1>3. /\ main' = main /\ threads' = threads /\ sync' = sync /\ token' = token
      /\ stage' = stage /\ records' = records
      /\ ops' = ops /\ w' = w /\ n' = n /\ trial' = trial
      /\ Paired' = Paired /\ Heavy' = Heavy /\ Workers' = Workers
      /\ Share' = Share /\ Prefill' = Prefill
  BY <1>2, Fixed
<1>4. /\ todo[t] \in [enq : Nat, deq : Nat]
      /\ todo' \in [Threads -> [enq : Nat, deq : Nat]]
      /\ todo'[t].enq = todo[t].enq /\ todo'[t].deq = todo[t].deq - 1
      /\ \A u \in Threads : u # t => todo'[u] = todo[u]
  <2>1. todo[t] \in [enq : Nat, deq : Nat] /\ todo[t].deq - 1 \in Nat
    BY <1>1, <1>2 DEF TypeOK
  <2>2. todo' = [todo EXCEPT ![t] = [todo[t] EXCEPT !.deq = todo[t].deq - 1]]
    BY <1>2
  <2>3. [todo[t] EXCEPT !.deq = todo[t].deq - 1] \in [enq : Nat, deq : Nat]
    BY <2>1
  <2>. QED BY <1>1, <2>1, <2>2, <2>3 DEF TypeOK
<1>5. \/ /\ size > 0 /\ size' = size - 1
         /\ log' = [log EXCEPT ![t] = @ + 1]
         /\ taken' = taken + 1 /\ missed' = missed
      \/ /\ size = 0 /\ size' = size /\ log' = log
         /\ taken' = taken /\ missed' = missed + 1
  BY <1>2 DEF TakeOne
<1>6. /\ size \in Nat /\ taken \in Nat /\ missed \in Nat /\ records \in Nat
      /\ log \in [Threads -> Nat]
  BY <1>1 DEF TypeOK
<1>7. TypeOK'
  <2>1. size' \in Nat /\ taken' \in Nat /\ missed' \in Nat
    BY <1>5, <1>6
  <2>2. log' \in [Threads -> Nat]
    BY <1>5, <1>6
  <2>. QED BY <1>1, <1>3, <1>4, <2>1, <2>2 DEF TypeOK
<1>8. MainInv' /\ OthersInv' /\ BarrierInv' /\ TodoInv'
  <2>1. todo[t] # Nothing
    BY <1>2 DEF Nothing
  <2>2. todo'[t].enq <= todo[t].enq /\ todo'[t].deq <= todo[t].deq
    BY <1>4
  <2>. QED BY <1>2, <1>4, <1>7, <2>1, <2>2, OperateInv
<1>9. stage[t] = "measure"
  <2>1. todo[t] # Nothing /\ todo[t].deq # 0
    BY <1>2 DEF Nothing
  <2>2. stage[t] \in {"none", "setup", "prefill", "deal", "measure", "commit",
                      "ended"}
    BY <1>1 DEF TypeOK
  <2>. QED BY <1>1, <2>1, <2>2 DEF TodoInv
<1>10. RecordInv'
  <2>1. \A u \in Threads : log'[u] # 0 => stage[u] \in {"measure", "commit"}
    <3>1. ASSUME NEW u \in Threads, log'[u] # 0
          PROVE  stage[u] \in {"measure", "commit"}
      <4>1. CASE u = t
        BY <1>9, <4>1
      <4>2. CASE u # t
        <5>1. log'[u] = log[u]
          BY <1>5, <1>6, <4>2
        <5>. QED BY <1>1, <3>1, <5>1 DEF RecordInv
      <4>. QED BY <4>1, <4>2
    <3>. QED BY <3>1
  <2>2. records + Total(log) = taken /\ Total(log) \in Nat
    BY <1>1, <1>6, TotalType DEF RecordInv
  <2>3. Total(log)' = Total(log')
    BY DEF Total, Under
  <2>4. records' + Total(log') = taken'
    <3>1. CASE /\ log' = [log EXCEPT ![t] = @ + 1]
               /\ taken' = taken + 1
      <4>1. Total(log') = Total(log) + 1
        BY <1>6, <3>1, TotalMore
      <4>. QED BY <1>3, <1>6, <2>2, <3>1, <4>1
    <3>2. CASE log' = log /\ taken' = taken
      BY <1>3, <2>2, <3>2
    <3>. QED BY <1>5, <3>1, <3>2
  <2>. QED BY <1>3, <2>1, <2>3, <2>4 DEF RecordInv
<1>11. PairInv'
  <2>. SUFFICES ASSUME Paired PROVE PairInv'
    BY <1>3 DEF PairInv
  <2>1. /\ missed = 0 /\ size >= Cardinality(Owing)
        /\ \A u \in Threads : todo[u].deq <= todo[u].enq + 1
    BY <1>1 DEF PairInv
  <2>2. t \in Owing /\ Owing \in SUBSET Threads
    BY <1>2 DEF Owing
  <2>3. /\ IsFiniteSet(Owing) /\ Cardinality(Owing) \in Nat
        /\ Cardinality(Owing) > 0
    BY <2>2, FiniteThreads
  <2>4. size > 0 /\ size' = size - 1 /\ missed' = missed
    BY <1>5, <1>6, <2>1, <2>3
  <2>5. todo[t].deq = todo[t].enq + 1
    BY <1>2, <1>4, <2>1
  <2>6. Owing' = Owing \ {t}
    <3>1. ~ todo'[t].deq > todo'[t].enq
      BY <1>4, <2>5
    <3>. QED BY <1>4, <3>1 DEF Owing
  <2>7. Cardinality(Owing \ {t}) = Cardinality(Owing) - 1
    BY <2>2, <2>3, FS_RemoveElement
  <2>8. size' >= Cardinality(Owing')
    BY <1>6, <2>1, <2>3, <2>4, <2>6, <2>7
  <2>9. ASSUME NEW u \in Threads PROVE todo'[u].deq <= todo'[u].enq + 1
    <3>1. CASE u = t
      BY <1>4, <2>5, <3>1
    <3>2. CASE u # t
      BY <1>4, <2>1, <3>2
    <3>. QED BY <3>1, <3>2
  <2>. QED BY <1>3, <2>1, <2>4, <2>8, <2>9 DEF PairInv
<1>12. BalanceInv'
  <2>. SUFFICES ASSUME Heavy PROVE BalanceInv'
    BY <1>3 DEF BalanceInv
  <2>1. /\ size + taken + RestPre + Total(RestEnq) = Prefill + n * Share.enq
        /\ taken + missed + Total(RestDeq) = n * Share.deq
    BY <1>1 DEF BalanceInv
  <2>2. /\ RestsCount /\ RestsCount'
        /\ RestPre \in Nat /\ Total(RestEnq) \in Nat /\ Total(RestDeq) \in Nat
    BY <1>1, <1>7, RestTypes, RestFunctions, RestFunctionsLater
  <2>3. stage[t] \notin Before
    BY <1>9 DEF Before
  <2>4. RestEnq' = RestEnq
    <3>1. ASSUME NEW u \in Threads PROVE RestEnq'[u] = RestEnq[u]
      BY <1>3, <1>4 DEF RestEnq
    <3>. QED BY <2>2, <3>1 DEF RestsCount
  <2>5. Total(RestEnq)' = Total(RestEnq)
    BY <2>4 DEF Total, Under
  <2>6. RestPre' = RestPre
    <3>1. 0 = t \/ todo'[0] = todo[0]
      BY <1>4, SomeThreads
    <3>. QED BY <1>3, <1>9, <3>1 DEF RestPre
  <2>7. \A u \in Threads : u # t => RestDeq'[u] = RestDeq[u]
    BY <1>3, <1>4 DEF RestDeq
  <2>8. RestDeq[t] = todo[t].deq /\ RestDeq'[t] = todo'[t].deq
    BY <1>3, <1>9, <2>3 DEF RestDeq
  <2>9. RestDeq' = [RestDeq EXCEPT ![t] = @ - 1]
    BY <1>2, <1>4, <2>2, <2>7, <2>8 DEF RestsCount
  <2>10. Total(RestDeq') = Total(RestDeq) - 1
    BY <1>2, <2>2, <2>8, <2>9, TotalLess DEF RestsCount
  <2>11. Total(RestDeq)' = Total(RestDeq')
    BY DEF Total, Under
  <2>12. size' + taken' = size + taken /\ taken' + missed' = taken + missed + 1
    BY <1>5, <1>6
  <2>13. size' \in Nat /\ taken' \in Nat /\ missed' \in Nat
    BY <1>7 DEF TypeOK
  <2>14. size' + taken' + RestPre' + Total(RestEnq)'
           = size + taken + RestPre + Total(RestEnq)
    BY <2>5, <2>6, <2>12
  <2>15. taken' + missed' + Total(RestDeq') = taken + missed + Total(RestDeq)
    <3>1. Total(RestDeq) \in Nat
      BY <2>2
    <3>2. taken' + missed' = taken + missed + 1
      BY <2>12
    <3>3. ASSUME NEW a \in Nat, NEW b \in Nat, NEW c \in Nat, NEW d,
                 b = a + 1, d = c - 1
          PROVE  b + d = a + c
      BY <3>3
    <3>4. taken + missed \in Nat
      BY <1>6
    <3>5. taken' + missed' \in Nat
      <4>1. ASSUME NEW a \in Nat, NEW b \in Nat PROVE a + b \in Nat
        OBVIOUS
      <4>. QED BY <2>13, <4>1
    <3>. QED BY <2>10, <3>1, <3>2, <3>3, <3>4, <3>5
  <2>. QED BY <1>3, <2>1, <2>11, <2>14, <2>15 DEF BalanceInv
<1>. QED BY <1>7, <1>8, <1>10, <1>11, <1>12 DEF Inv

----------------------------------------------------------------------------
(* The invariant holds in every state of every benchmark run.              *)

LEMMA StepInv == Inv /\ [Next]_vars => Inv'
<1>. SUFFICES ASSUME Inv, [Next]_vars PROVE Inv'
  OBVIOUS
<1>1. CASE Spawn
  BY <1>1, SpawnInv
<1>2. CASE Join
  BY <1>2, JoinInv
<1>3. CASE NextTrial
  BY <1>3, NextTrialInv
<1>4. CASE Exit
  BY <1>4, ExitInv
<1>5. ASSUME NEW t \in Threads, Worker(t) PROVE Inv'
  BY <1>5, EnqueueInv, DequeueInv, ArriveInv, PassInv, CommitInv DEF Worker
<1>6. CASE UNCHANGED vars
  BY <1>6, StutterInv
<1>. QED BY <1>1, <1>2, <1>3, <1>4, <1>5, <1>6 DEF Next, Main

(* The invariant above holds throughout.                                   *)
THEOREM InvAlways == Spec => []Inv
<1>1. Init => Inv
  BY InitInv
<1>2. Inv /\ [Next]_vars => Inv'
  BY StepInv
<1>. QED BY <1>1, <1>2, PTL DEF Spec

(* Every variable keeps its type: no more threads arrive at the barrier    *)
(* than it expects, and it ends four phases and no more.                   *)
THEOREM TypeCorrect == Spec => []TypeOK
<1>1. Inv => TypeOK
  BY DEF Inv
<1>. QED BY <1>1, InvAlways, PTL

(* A thread that runs measured operations runs in the barrier's third      *)
(* phase, and so does every other thread that runs; one that waits has     *)
(* arrived for that phase or the one before, from its deal or its share.   *)
LEMMA Apart == Inv => MeasuredApart
<1>. SUFFICES ASSUME Inv,
                     NEW t \in Threads, stage[t] = "measure", Running(t),
                     NEW u \in Workers
              PROVE  stage[u] = "measure" \/ (stage[u] = "deal" /\ ~ Running(u))
  BY DEF MeasuredApart
<1>1. TypeOK /\ BarrierInv
  BY DEF Inv
<1>2. t \in Workers
  BY BegunWorker
<1>3. sync.phase = 3
  <2>1. ~ AtBarrier(t)
    BY DEF AtBarrier, Running, NoPhase, Phase, Steps
  <2>2. InPhase(t)
    BY <1>1, <1>2, <2>1 DEF BarrierInv
  <2>. QED BY <2>2 DEF InPhase, Phase
<1>4. CASE InPhase(u)
  <2>1. u \in Threads
    BY <1>1, Parameters
  <2>2. Phase(stage[u]) = 3
    BY <1>3, <1>4 DEF InPhase
  <2>. QED BY <2>2 DEF Phase
<1>5. CASE AtBarrier(u)
  <2>1. Phase(stage[u]) \in {2, 3} /\ token[u] \in {2, 3} /\ stage[u] \in Steps
    BY <1>3, <1>5 DEF AtBarrier
  <2>2. ~ Running(u)
    BY <2>1 DEF Running, NoPhase
  <2>3. stage[u] \in {"deal", "measure"}
    BY <2>1 DEF Phase, Steps
  <2>. QED BY <2>2, <2>3
<1>. QED BY <1>1, <1>4, <1>5 DEF BarrierInv

(* While any thread runs measured operations, every other is measuring too,*)
(* or waiting before or after it.                                          *)
THEOREM MeasuresApart == Spec => []MeasuredApart
BY InvAlways, Apart, PTL

(* Where every thread enqueues before it dequeues, no dequeue finds the    *)
(* queue empty: there is an element for every thread between the two.      *)
THEOREM PairsHit == Spec => []PairsNeverMiss
<1>1. Inv => PairsNeverMiss
  BY DEF Inv, PairInv, PairsNeverMiss
<1>. QED BY <1>1, InvAlways, PTL

(* With all workers ended no log holds a record that is not handed over.   *)
LEMMA Complete == Inv => RecordsComplete
<1>. SUFFICES ASSUME Inv, main = "read"
              PROVE  records = taken /\ \A t \in Workers : stage[t] = "ended"
  BY DEF RecordsComplete
<1>1. TypeOK /\ RecordInv /\ \A t \in Workers : stage[t] = "ended"
  BY DEF Inv, MainInv
<1>2. \A t \in Threads : stage[t] \in {"none", "ended"}
  BY <1>1, BegunWorker
<1>3. \A t \in Threads : log[t] = 0
  BY <1>1, <1>2 DEF RecordInv
<1>4. Total(log) = 0
  BY <1>1, <1>3, TotalZero DEF TypeOK
<1>5. records \in Nat /\ records + Total(log) = taken
  BY <1>1 DEF RecordInv, TypeOK
<1>. QED BY <1>1, <1>4, <1>5

(* When the main thread reads the records, there is one for every element  *)
(* dequeued in the trial, and every worker has ended.                      *)
THEOREM RecordsAreComplete == Spec => []RecordsComplete
BY InvAlways, Complete, PTL

----------------------------------------------------------------------------
(* The prefill covers the deficit.                                         *)

LEMMA Multiple ==
  ASSUME NEW c \in Nat \ {0}, NEW k \in Int, c * k >= 0, c * k < 2 * c
  PROVE  k = 0 \/ k = 1
<1>1. ~ k < 0
  <2>. SUFFICES ASSUME k < 0 PROVE FALSE
    OBVIOUS
  <2>1. PICK d \in Nat : k = -1 - d
    <3>1. -1 - k \in Nat /\ k = -1 - (-1 - k)
      OBVIOUS
    <3>. QED BY <3>1
  <2>2. c * k = - c - c * d
    BY <2>1
  <2>3. c * d \in Nat
    OBVIOUS
  <2>. QED BY <2>2, <2>3
<1>2. ~ k > 1
  <2>. SUFFICES ASSUME k > 1 PROVE FALSE
    OBVIOUS
  <2>1. PICK d \in Nat : k = 2 + d
    <3>1. k - 2 \in Nat /\ k = 2 + (k - 2)
      OBVIOUS
    <3>. QED BY <3>1
  <2>2. c * k = 2 * c + c * d
    BY <2>1
  <2>3. c * d \in Nat
    OBVIOUS
  <2>. QED BY <2>2, <2>3
<1>. QED BY <1>1, <1>2

(* The shares, rounded down, differ by no more than the prefill: the totals*)
(* leave remainders that are both 0 or add up to the number of threads.    *)
LEMMA PrefillSuffices ==
  ASSUME TypeOK, Heavy
  PROVE  Prefill + n * Share.enq >= n * Share.deq
<1>1. /\ n \in Nat \ {0} /\ n <= MaxThreads /\ ~ Paired
      /\ Slack \in Nat /\ MaxThreads \in Nat /\ Slack + 2 >= MaxThreads
      /\ ops \in Nat
  <2>1. n \in Nat \ {0} /\ n <= MaxThreads /\ ~ Paired
    BY Parameters
  <2>2. Slack \in Nat /\ MaxThreads \in Nat /\ Slack + 2 >= MaxThreads
    BY TrialAssumption
  <2>3. ops \in Nat
    BY TrialAssumption DEF TypeOK
  <2>. QED BY <2>1, <2>2, <2>3
<1>2. /\ TotalEnq \in Nat /\ TotalDeq \in Nat /\ TotalEnq + TotalDeq = n * ops
  BY Totals
<1>. DEFINE q == TotalEnq \div n
            p == TotalDeq \div n
            r == TotalEnq % n
            s == TotalDeq % n
<1>3. ASSUME NEW m \in Nat
      PROVE  /\ m \div n \in Nat /\ m % n \in 0 .. (n - 1)
             /\ m = n * (m \div n) + (m % n)
  BY <1>1
<1>4. /\ q \in Nat /\ r \in 0 .. (n - 1) /\ TotalEnq = n * q + r
      /\ p \in Nat /\ s \in 0 .. (n - 1) /\ TotalDeq = n * p + s
  BY <1>2, <1>3
<1>5. Share.enq = q /\ Share.deq = p
  BY <1>1 DEF Share
<1>6. Prefill = Deficit + Slack
  <2>1. Workload = "DequeueHeavy"
    BY DEF Heavy
  <2>. QED BY <2>1 DEF Prefill, Paired
<1>7. Deficit \in Nat /\ Deficit >= TotalDeq - TotalEnq
  BY <1>2 DEF Deficit
<1>. HIDE DEF q, p, r, s
<1>8. n * q \in Nat /\ n * p \in Nat /\ n * ops \in Nat
  BY <1>1, <1>4
<1>9. n * (ops - q - p) = r + s
  <2>1. n * (ops - q - p) = n * ops - n * q - n * p
    BY <1>1, <1>4
  <2>. QED BY <1>2, <1>4, <1>8, <2>1
<1>10. r + s = 0 \/ r + s = n
  <2>1. ops - q - p \in Int
    BY <1>1, <1>4
  <2>2. r + s >= 0 /\ r + s < 2 * n
    BY <1>1, <1>4
  <2>3. ops - q - p = 0 \/ ops - q - p = 1
    BY <1>1, <1>9, <2>1, <2>2, Multiple
  <2>4. n * 0 = 0 /\ n * 1 = n
    BY <1>1
  <2>. QED BY <1>9, <2>3, <2>4
<1>11. Slack + s >= r
  BY <1>1, <1>4, <1>10
<1>12. Deficit + Slack + n * q >= n * p
  BY <1>1, <1>2, <1>4, <1>7, <1>8, <1>11
<1>. QED BY <1>5, <1>6, <1>12

(* With nothing left to be done, what was put in is the prefill and all    *)
(* shares, and what was taken or missed is all shares.                     *)
LEMMA Covered == Inv => DeficitCovered
<1>. SUFFICES ASSUME Inv, main = "read", Heavy
              PROVE  size >= missed
  BY DEF DeficitCovered, Heavy
<1>1. TypeOK /\ BalanceInv /\ \A t \in Workers : stage[t] = "ended"
  BY DEF Inv, MainInv
<1>2. \A t \in Threads : stage[t] \in {"none", "ended"}
  BY <1>1, BegunWorker
<1>3. RestEnq \in [Threads -> Nat] /\ RestDeq \in [Threads -> Nat]
  BY <1>1, RestTypes
<1>4. \A t \in Threads : RestEnq[t] = 0 /\ RestDeq[t] = 0
  BY <1>1, <1>2 DEF RestEnq, RestDeq, Before
<1>5. Total(RestEnq) = 0 /\ Total(RestDeq) = 0
  BY <1>3, <1>4, TotalZero
<1>6. RestPre = 0
  BY <1>1, Parameters DEF RestPre
<1>7. /\ size + taken + RestPre + Total(RestEnq) = Prefill + n * Share.enq
      /\ taken + missed + Total(RestDeq) = n * Share.deq
  BY <1>1 DEF BalanceInv
<1>8. Prefill + n * Share.enq >= n * Share.deq
  BY <1>1, PrefillSuffices
<1>9. size \in Nat /\ taken \in Nat /\ missed \in Nat
  BY <1>1 DEF TypeOK
<1>10. size + taken >= taken + missed
  BY <1>5, <1>6, <1>7, <1>8, <1>9
<1>. QED BY <1>9, <1>10

(* In a dequeue-heavy trial as many elements are left in the end as        *)
(* dequeues found none: no dequeue was in vain for lack of elements,       *)
(* however many threads, up to Slack + 2, share the operations.            *)
THEOREM DeficitIsCovered == Spec => []DeficitCovered
BY InvAlways, Covered, PTL

=============================================================================
