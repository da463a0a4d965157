-------------------------------- MODULE Trial --------------------------------
(***************************************************************************)
(* A benchmark run over one queue: main, run_benchmark                     *)
(* (src/BenchmarkDriver.cpp) and worker (include/Workloads.hpp).  For every*)
(* workload, number of threads and trial, the main thread makes a queue and*)
(* a barrier, starts the workers, joins them and reads the records.  The   *)
(* workers meet at the barrier four times: after the driver's setup, after *)
(* the prefill, when each has dealt out its operations, and when all of    *)
(* them are done.                                                          *)
(*                                                                         *)
(* The queue is a counter of its elements, and an operation on it takes    *)
(* one step: the other modules show the queues to be linearizable.  A log  *)
(* and the records are counters too; OvertakeMetrics has their contents.   *)
(***************************************************************************)
EXTENDS Integers, Sequences, FiniteSets

CONSTANTS
  MaxThreads,  (* opts.max_threads                                         *)
  Trials,      (* opts.trials                                              *)
  OpsChoices,  (* what opts.ops may be                                     *)
  PairSetup,   (* elements run_benchmark enqueues for pairs: 5000          *)
  Slack        (* elements worker enqueues beyond the deficit: 1000        *)

(* The code does not check how many threads are asked for; with more than  *)
(* Slack + 2 of them, DeficitCovered would not hold.                       *)
ASSUME TrialAssumption ==
  /\ {MaxThreads, Trials} \subseteq Nat \ {0}
  /\ OpsChoices \subseteq Nat
  /\ {PairSetup, Slack} \subseteq Nat
  /\ Slack + 2 >= MaxThreads

Threads   == 0 .. (MaxThreads - 1)
Workloads == <<"EnqueueHeavy", "EnqueueDequeuePair", "DequeueHeavy">>

VARIABLES
  ops,       (* opts.ops                                                   *)
  w,         (* the workload, by its place in Workloads                    *)
  n,         (* num_threads                                                *)
  trial,
  main,      (* what the main thread is about to do                        *)
  threads,   (* how many of the workers have been started, while spawning, *)
             (* or joined, after that                                      *)
  stage,     (* what worker t is about to do, or what it ended before it   *)
             (* arrived at the barrier                                     *)
  token,     (* the phase of the barrier t waits for the end of, or NoPhase*)
  sync,      (* the barrier                                                *)
  todo,      (* the operations t has left in its stage                     *)
  size,      (* elements in the queue                                      *)
  log,       (* log[t]: how many records thread t has logged               *)
  records,   (* how many have been handed over                             *)
  taken,     (* history: dequeues of this trial that returned an element   *)
  missed     (* history: those that found the queue empty                  *)

trials  == <<ops, w, n, trial>>
history == <<taken, missed>>
vars    == <<trials, main, threads, stage, token, sync, todo, size, log,
             records, history>>

Workload == Workloads[w]
Paired   == Workload = "EnqueueDequeuePair"
Workers  == 0 .. (n - 1)
NoPhase  == -1
Nothing  == [enq |-> 0, deq |-> 0]

(* Fault: one thread is not expected at the barrier. *)
NewBarrierShort(count) ==
  [phase |-> 0, missing |-> IF count > 1 THEN count - 1 ELSE 1]

(* Fault: the main thread is expected there too. *)
NewBarrierMain(count) == [phase |-> 0, missing |-> count + 1]

(* std::barrier *)
NewBarrier(count) == [phase |-> 0, missing |-> count]

Fresh(count) ==
  /\ threads' = 0
  /\ stage'   = [t \in Threads |-> "none"]
  /\ token'   = [t \in Threads |-> NoPhase]
  /\ sync'    = NewBarrier(count)
  /\ todo'    = [t \in Threads |-> Nothing]
  /\ size'    = 0
  /\ log'     = [t \in Threads |-> 0]
  /\ records' = 0
  /\ taken'   = 0
  /\ missed'  = 0

Init ==
  /\ ops \in OpsChoices
  /\ w       = 1
  /\ n       = 1
  /\ trial   = 1
  /\ main    = "spawn"
  /\ threads = 0
  /\ stage   = [t \in Threads |-> "none"]
  /\ token   = [t \in Threads |-> NoPhase]
  /\ sync    = NewBarrier(n)
  /\ todo    = [t \in Threads |-> Nothing]
  /\ size    = 0
  /\ log     = [t \in Threads |-> 0]
  /\ records = 0
  /\ taken   = 0
  /\ missed  = 0

----------------------------------------------------------------------------
(* The operations of a workload.                                           *)

Percent(wl) == CASE wl = "EnqueueHeavy" -> 67
                 [] wl = "DequeueHeavy" -> 33
                 [] wl = "EnqueueDequeuePair" -> 100

TotalEnq == (n * ops * Percent(Workload) + 50) \div 100
TotalDeq == n * ops - TotalEnq

(* The workload of one thread, rounded down; a pair is one of each. *)
Share ==
  IF Paired THEN [enq |-> ops, deq |-> ops]
  ELSE [enq |-> TotalEnq \div n, deq |-> TotalDeq \div n]

Deficit == IF TotalDeq > TotalEnq THEN TotalDeq - TotalEnq ELSE 0

(* Fault: the prefill is the deficit of the unrounded totals. *)
PrefillBare == CASE Workload = "EnqueueHeavy" -> 0
                 [] Workload = "DequeueHeavy" -> Deficit
                 [] Paired -> Slack

Prefill == CASE Workload = "EnqueueHeavy" -> 0
             [] Workload = "DequeueHeavy" -> Deficit + Slack
             [] Paired -> Slack

(* What t has to do in stage s. *)
Work(t, s) ==
  CASE s = "setup" /\ t = 0 /\ Paired -> [enq |-> PairSetup, deq |-> 0]
    [] s = "prefill" /\ t = 0         -> [enq |-> Prefill, deq |-> 0]
    [] s = "measure"                  -> Share
    [] OTHER                          -> Nothing

After(s) == CASE s = "setup"   -> "prefill"
              [] s = "prefill" -> "deal"
              [] s = "deal"    -> "measure"
              [] s = "measure" -> "commit"

----------------------------------------------------------------------------
(* A worker.                                                               *)

Running(t) == token[t] = NoPhase

(* The queue's enqueue, and its dequeue, which logs what it takes.         *)
PutOne == size' = size + 1

TakeOne(t) ==
  \/ /\ size > 0
     /\ size'  = size - 1
     /\ log'   = [log EXCEPT ![t] = @ + 1]
     /\ taken' = taken + 1
     /\ UNCHANGED missed
  \/ /\ size = 0
     /\ missed' = missed + 1
     /\ UNCHANGED <<size, log, taken>>

(* Setup, prefill and the enqueues of the workload: in a pair, the enqueue *)
(* comes first; otherwise the operations are shuffled.                     *)
Enqueue(t) ==
  /\ Running(t)
  /\ todo[t].enq > 0
  /\ stage[t] = "measure" /\ Paired => todo[t].enq = todo[t].deq
  /\ PutOne
  /\ todo' = [todo EXCEPT ![t].enq = @ - 1]
  /\ UNCHANGED <<trials, main, threads, stage, token, sync, log, records,
                 history>>

(* Fault: the dequeue of a pair may come before its enqueue. *)
DequeueShuffled(t) ==
  /\ Running(t)
  /\ todo[t].deq > 0
  /\ todo' = [todo EXCEPT ![t].deq = @ - 1]
  /\ TakeOne(t)
  /\ UNCHANGED <<trials, main, threads, stage, token, sync, records>>

(* That it returned false is ignored. *)
Dequeue(t) ==
  /\ Running(t)
  /\ todo[t].deq > 0
  /\ Paired => todo[t].deq > todo[t].enq
  /\ todo' = [todo EXCEPT ![t].deq = @ - 1]
  /\ TakeOne(t)
  /\ UNCHANGED <<trials, main, threads, stage, token, sync, records>>

(* arrive_and_wait: the last to arrive ends the phase ... *)
Arrive(t) ==
  /\ Running(t)
  /\ stage[t] \in {"setup", "prefill", "deal", "measure"}
  /\ todo[t] = Nothing
  /\ sync'  = IF sync.missing = 1
              THEN [phase |-> sync.phase + 1, missing |-> n]
              ELSE [sync EXCEPT !.missing = @ - 1]
  /\ token' = [token EXCEPT ![t] = sync.phase]
  /\ UNCHANGED <<trials, main, threads, stage, todo, size, log, records,
                 history>>

(* ... and all others go on, each in its own time. *)
Pass(t) ==
  /\ ~ Running(t)
  /\ token[t] # sync.phase
  /\ token' = [token EXCEPT ![t] = NoPhase]
  /\ stage' = [stage EXCEPT ![t] = After(@)]
  /\ todo'  = [todo EXCEPT ![t] = Work(t, After(stage[t]))]
  /\ UNCHANGED <<trials, main, threads, sync, size, log, records, history>>

(* commit_thread_logs, under records_mutex; the thread ends. *)
Commit(t) ==
  /\ Running(t)
  /\ stage[t] = "commit"
  /\ records' = records + log[t]
  /\ log'     = [log EXCEPT ![t] = 0]
  /\ stage'   = [stage EXCEPT ![t] = "ended"]
  /\ UNCHANGED <<trials, main, threads, token, sync, todo, size, history>>

Worker(t) ==
  \/ Enqueue(t)
  \/ Dequeue(t)
  \/ Arrive(t)
  \/ Pass(t)
  \/ Commit(t)

----------------------------------------------------------------------------
(* The main thread.                                                        *)

(* Fault: one thread too many is started. *)
SpawnOneMore ==
  /\ main = "spawn"
  /\ stage'   = [stage EXCEPT ![threads] = "setup"]
  /\ todo'    = [todo EXCEPT ![threads] = Work(threads, "setup")]
  /\ IF threads = n
     THEN main' = "join" /\ threads' = 0
     ELSE threads' = threads + 1 /\ UNCHANGED main
  /\ UNCHANGED <<trials, token, sync, size, log, records, history>>

Spawn ==
  /\ main = "spawn"
  /\ stage'   = [stage EXCEPT ![threads] = "setup"]
  /\ todo'    = [todo EXCEPT ![threads] = Work(threads, "setup")]
  /\ IF threads + 1 = n
     THEN main' = "join" /\ threads' = 0
     ELSE threads' = threads + 1 /\ UNCHANGED main
  /\ UNCHANGED <<trials, token, sync, size, log, records, history>>

(* Fault: the threads are detached, and only the last is waited for. *)
JoinLast ==
  /\ main = "join"
  /\ stage[n - 1] = "ended"
  /\ main' = "read"
  /\ UNCHANGED <<trials, threads, stage, token, sync, todo, size, log, records,
                 history>>

Join ==
  /\ main = "join"
  /\ stage[threads] = "ended"
  /\ threads' = threads + 1
  /\ main' = IF threads + 1 = n THEN "read" ELSE "join"
  /\ UNCHANGED <<trials, stage, token, sync, todo, size, log, records, history>>

(* The records have been read, and the next trial begins with a queue and  *)
(* a barrier of its own.                                                   *)
NextTrial ==
  /\ main = "read"
  /\ <<w, n, trial>> # <<Len(Workloads), MaxThreads, Trials>>
  /\ \/ /\ trial < Trials
        /\ trial' = trial + 1
        /\ UNCHANGED <<w, n>>
     \/ /\ trial = Trials
        /\ n < MaxThreads
        /\ trial' = 1
        /\ n' = n + 1
        /\ UNCHANGED w
     \/ /\ trial = Trials
        /\ n = MaxThreads
        /\ trial' = 1
        /\ n' = 1
        /\ w' = w + 1
  /\ main' = "spawn"
  /\ Fresh(n')
  /\ UNCHANGED ops

Exit ==
  /\ main = "read"
  /\ <<w, n, trial>> = <<Len(Workloads), MaxThreads, Trials>>
  /\ main' = "end"
  /\ UNCHANGED <<trials, threads, stage, token, sync, todo, size, log, records,
                 history>>

Main == Spawn \/ Join \/ NextTrial \/ Exit

Next == Main \/ \E t \in Threads : Worker(t)

Spec == Init /\ [][Next]_vars

(* The operating system keeps scheduling every thread. *)
FairSpec == Spec /\ WF_vars(Main) /\ \A t \in Threads : WF_vars(Worker(t))

----------------------------------------------------------------------------
(* Properties.                                                             *)

(* Every variable keeps its type, and no more threads arrive at the barrier*)
(* than it expects.                                                        *)
TypeOK ==
  /\ ops     \in OpsChoices
  /\ w       \in 1 .. Len(Workloads)
  /\ n       \in 1 .. MaxThreads
  /\ trial   \in 1 .. Trials
  /\ main    \in {"spawn", "join", "read", "end"}
  /\ threads \in 0 .. n
  /\ stage   \in [Threads -> {"none", "setup", "prefill", "deal", "measure",
                              "commit", "ended"}]
  /\ token   \in [Threads -> 0 .. 3 \cup {NoPhase}]
  /\ sync    \in [phase : 0 .. 4, missing : 1 .. n]
  /\ todo    \in [Threads -> [enq : Nat, deq : Nat]]
  /\ log     \in [Threads -> Nat]
  /\ {size, records, taken, missed} \subseteq Nat

(* While any thread runs measured operations, all of them have been        *)
(* started, the setup and the prefill are over, and no thread has gone on  *)
(* to hand over its log: the others are measuring too, or waiting before   *)
(* or after it.                                                            *)
MeasuredApart ==
  \A t \in Threads : stage[t] = "measure" /\ Running(t) =>
    \A u \in Workers :
      \/ stage[u] = "measure"
      \/ stage[u] = "deal" /\ ~ Running(u)

(* Where every thread enqueues before it dequeues, no dequeue ever finds   *)
(* the queue empty, so every pair leaves a record.                         *)
PairsNeverMiss == Paired => missed = 0

(* "Prefill must cover global dequeue deficit" (Workloads.hpp:78): in a    *)
(* dequeue-heavy trial a dequeue may come too early, but never for lack of *)
(* elements, although every thread's share of either operation is rounded  *)
(* down: as many elements are left in the end as dequeues found none.      *)
DeficitCovered ==
  main = "read" /\ Workload = "DequeueHeavy" => size >= missed

(* The main thread reads the records when there is one for every element   *)
(* dequeued in this trial, and no worker can touch them any more.          *)
RecordsComplete ==
  main = "read" => records = taken /\ \A t \in Workers : stage[t] = "ended"

(* All trials come to an end: nobody waits at the barrier for ever.        *)
BenchmarkEnds == <>(main = "end")

=============================================================================
