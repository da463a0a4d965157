# A TLA+ verification of the concurrent-queue fairness benchmark

The repository measures how fair four concurrent FIFO queues are: worker threads
enqueue and dequeue, every element carries the times of its call and of its effect,
and a sweep over the logged times counts how often elements overtook one another.
This directory holds TLA+ models of the queues and of that measurement, the TLC
configurations that check them, and TLAPS proofs of most of their safety properties.

Contents: 1 the system, 2 the modules, 3 what is modelled how, 4 the runs,
5 fairness, 6 the proofs, 7 disagreements found, 8 what is not modelled,
9 plan.

To check: `tlc -workers 2 -config <cfg> <MC module>` for a run of section 4,
`tlapm <module>` for the modules of section 6.

## 1. The system

| Part (source) | State it keeps | Operations | Interacts with |
|---|---|---|---|
| FlatCombiningQueue (`include/fcqueue.hpp`) | a slot per thread (atomic opcode, plain value, timestamps, success), a sequential queue, a lock | enqueue, dequeue, scan_combine_apply | threads share slots with the combiner |
| MSQueue (`include/msqueue.hpp`) | head and tail, each pointer + counter; nodes with next, value, timestamps | enqueue, dequeue | the allocator: nodes are deleted at once |
| FAAArrayQueue (`include/FAAArrayQueue.hpp`) | head, tail, segments with enqidx, deqidx, next and cells | enqueue, dequeue | HazardPointers, CacheRemap |
| HazardPointers (`include/HazardPointers.hpp`) | hazard pointers per thread, a list of retired objects per thread | protect, protectPtr, clearOne, retire | FAAArrayQueue, LinkedRingQueue |
| PRQueue, a segment of LPRQueue (`include/LPRQueue.hpp`, `QueueSegmentBase` in `include/LinkedRingQueue.hpp`) | head, tail + closed bit, a ring of cells (value, index + unsafe bit), next | enqueue, dequeue, fixState, closeSegment | LinkedRingQueue |
| LinkedRingQueue (`include/LinkedRingQueue.hpp`) | head and tail segment | enqueue, dequeue | PRQueue or CRQueue, HazardPointers |
| Adapters (in the queue headers) | thread-local logs, shared records, records_mutex | enqueue, dequeue with timestamps, commit_thread_logs | queues, FairnessLogger |
| FairnessLogger (`src/FairnessLogger.cpp`) | a Fenwick tree over compressed timestamps | compute_overtake_metrics | records |
| Benchmark driver (`src/BenchmarkDriver.cpp`) | threads, barriers, results | main, run_benchmark | everything |
| Workloads (`include/Workloads.hpp`) | operation counts and their order | worker: prefill, then EnqueueHeavy (67 % enqueues), DequeueHeavy (33 %) or EnqueueDequeuePair | a queue |
| CacheRemap (`include/CacheRemap.hpp`) | none | operator[] | rings and arrays |
| CRQueue, a segment of LCRQueue (`include/LCRQueue.hpp`) | like PRQueue, with a double-word CAS (`include/x86AtomicOps.hpp`) | enqueue, dequeue | LinkedRingQueue; its adapter is instantiated by no main program |

What makes each part right, and what makes that hard:

- **Flat combining.** Linearizable; one combiner; the plain fields of a slot are
  never touched by both sides; each request is applied once; each call returns
  although the lock is unfair; a waiting request is overtaken by a bounded number
  of others. Hard: the only thing that orders the plain accesses is the opcode.
- **MSQueue.** Linearizable; the list spells out the elements; a node is deleted by
  one thread, after it left the list; a thread that stops blocks nobody. Hard: head,
  tail and next are read at different times, tail lags, and nodes are freed while
  others still hold their address.
- **FAAArrayQueue and LinkedRingQueue.** Linearizable over several segments; no
  segment is used after its deletion, or retired twice. Hard: an enqueuer and a
  dequeuer meet in a cell in either order; "empty" is concluded from several loads;
  tail may still refer to a segment that head has passed and that is retired.
- **PRQueue and CRQueue.** A linearizable queue that may close, and stays closed. Hard:
  an enqueuer and a dequeuer draw the same ticket and meet in a cell in either order, or
  a lap apart. In PRQueue three CASes make up one enqueue, each of which may be overtaken
  by a dequeuer, and index and value of a cell are two words.
- **Adapters and timestamps.** A record says when its element was enqueued and dequeued,
  truly enough for a measure of overtaking. Hard: the time of the effect is taken after
  the effect, when the element may already be in other hands, or deleted, or be another
  element at the same address.
- **CacheRemap.** It permutes the cells.
- **Driver and workloads.** Nobody waits at the barrier for ever; measuring begins when
  the prefill is over and ends before a log is handed over; the prefill covers what the
  workload takes out beyond what it puts in; the records are complete when they are
  read. Hard: one barrier is used for four different meetings, shares are rounded.
- **Metrics.** The sweep computes the number of overtakers of each element, whatever
  the order of commits and the ties. Hard: ties in both timestamps, unset timestamps.

The hazards, each at its line and with the properties that cover it, are listed in
`PROJECT.json`.

## 2. The modules

| Module | Role |
|---|---|
| `FifoQueue` | abstract specification: a linearizable FIFO queue, with its linearization points as actions |
| `FifoMonitor` | the same contract as a monitor of calls and returns, for queues whose linearization point depends on the future; optionally a queue that may close |
| `FlatCombining` | FlatCombiningQueue; implements `FifoQueue` under a refinement mapping |
| `FlatCombiningProofs` | the theorems about it, the refinement included |
| `MSQueue` | MSQueue with the allocator; implements `FifoQueue` while no address is reused |
| `MSQueueProofs` | the theorems about it, the refinement included |
| `HazardPointers` | the operators of hazard pointers and of the allocator |
| `SegmentList` | the list of segments FAAArrayQueue and LinkedRingQueue both keep, composed with `HazardPointers` and `FifoMonitor` |
| `SegmentListProofs` | the list's inductive invariant, and a lemma per kind of step on it; what configurations the monitor reaches |
| `FAAArrayQueue` | FAAArrayQueue: `SegmentList` with arrays of cells for segments |
| `LinkedRingQueue` | LinkedRingQueue: `SegmentList` with segments that are known by their contract |
| `FAAArrayQueueProofs`, `LinkedRingQueueProofs` | the theorems about these two, from `SegmentListProofs` |
| `RingSegment` | QueueSegmentBase and what the two kinds of ring have in common, with `FifoMonitor` |
| `PRQueue`, `CRQueue` | one segment of LPRQueue, one of LCRQueue: each extends `RingSegment` |
| `CacheRemap` | the permutation of the cells |
| `RingProofs` | the theorems about both kinds of ring, and that `CacheRemap` permutes |
| `Timestamps` | the times the queues and their adapters take, and the records they log |
| `OvertakeMetrics` | commit, join, warm-up cutoff and compute_overtake_metrics |
| `TimestampsProofs` | the theorems about both, from the times taken to the metrics computed |
| `Trial` | the benchmark run around the queue: main, run_benchmark, worker, barrier |
| `TrialProofs` | the theorems about it |
| `MC...` | an instance for TLC |

Every detailed module has the same shape: an action is one access to memory that
several threads share, and an access to a local variable goes with the action before
it; `me[t].at` (`pc[t]` in `FlatCombining`) says at which access thread t is, and the
other fields of `me[t]` are its locals; locals that are dead are reset, so that
states that differ in nothing that matters are one state. A definition whose comment
begins with *Fault:* is not part of any specification. It is a variant of the
definition after it with a plausible mistake in it; a run in which it replaces that
definition shows that the property named with it in `PROJECT.json` can fail.

LPRQueue and LCRQueue are checked in two halves. `MCRings` shows that a segment of
either is a FIFO queue that may close for good (`Linearizable` with `CanClose`,
`Monotone`) and that its first enqueue succeeds (`FirstEnqueueFits`). `LinkedRingQueue`
takes segments that have exactly these properties, as operations that are atomic, and
shows that the list of them is a FIFO queue. The second half may take linearizable
operations for atomic ones because a segment is reached through its operations only.
`FirstEnqueueFits` is needed because `LinkedRingQueue::enqueue` ignores the result of
the enqueue into the segment it is about to link. For PRQueue the first half holds under
an assumption the code does not meet: see `prq_stale` in section 7.

The timestamps are a layer of their own. No queue's control depends on them, so the
modules of the queues leave them out, and `Timestamps` puts the steps that take, write,
copy and log them around an atomic FIFO queue, which the other modules show these
queues to be.

## 3. How state and actions correspond to the code

`PROJECT.json` maps each definition to its lines. In outline:

**FlatCombining.** `opcode`, `value`, `success` are the fields of `operations_[t]`,
`q` is `q_`, `lock` the holder of `lock_`. enqueue and dequeue are `CallEnqueue` or
`CallDequeue` (fill the slot), `Publish` (release store of the opcode), `TryLock`,
`TryLockFails`, `Poll` (the loop), and `Return`. scan_combine_apply is `Load`,
`ApplyEnqueue`, `ApplyDequeue`, `Finish` for each slot, then `Unlock`. `bypass` is a
history variable: how many requests of u were applied while t's request waited.

**MSQueue.** `head`, `tail`, `next` are tagged pointers; the counter wraps at
`CountMod`. `heap` is what the allocator knows of an address, and `Reuse` says whether
`new` returns the address of a deleted node. A deleted node keeps its next field (a
read of it is what the code does) and loses its value. `chain` is a history variable,
the nodes linked and not removed: `Link` extends it, `AdvanceHead` shortens it. The
elements are the values of its tail, which is the refinement mapping.

**HazardPointers.** No actions of its own: `Protect`, `ClearOne`, `PushRetired`,
`RetireLoad` and `RetireDelete` are pieces of the queues' actions. retire reads one
hazard pointer per step, in the order of the code. A deleted segment may be allocated
again.

**SegmentList.** `head`, `tail`, `next`; `CasTail` and `CasHead` with the retirement
that follows it, `Allocate`, `Publish`, `ClearAndReturn`, `RetireStep`, `RetireReturn`.
The two queues have this code twice, under two names.

**FAAArrayQueue.** The state of a segment is `enqidx`, `deqidx`, `cell`. An
index beyond the buffer is no longer told apart from others (`Bump`). The wait of up
to 4096 loads for a slow enqueuer is left out: it delays the exchange, which any
schedule may do as well.

**LinkedRingQueue.** `queue[s]` and `closed[s]` are a segment's contract. `EnqSeg` is
an enqueue into it, which may close it and refuse; `DeqSeg` and `DeqAgain` are
dequeues, before and after the load of next.

**RingSegment.** `tail` and `idx` are words: a number and the highest bit (closed,
unsafe). Common to both rings are the draws of tickets (`EnqDraw`, `DeqDraw`:
fetch-and-add), the load of a cell's index, `EnqFull`, `EnqClose` (closeSegment),
`DeqWait`, `DeqDecide`, `DeqTail`, and fixState: `FixTail`, `FixHead`, `FixAgain`,
`FixCas`. Of the 4096 rounds a dequeuer makes, the model keeps whether it is the first:
the later ones may end at any time, and load tail or not. `client` says which of the
two rings it is.

**PRQueue.** The enqueuer goes on with `PEnqReadVal`, `PEnqUnsafe`, `EnqClaim`,
`EnqMove`, `EnqPut` (the three CASes) and `EnqUnclaim`; the dequeuer with `PDeqReadVal`
and one action per branch. `Snapshot` forbids every other thread to run between a
dequeuer's loads of index and value; the code has no such restriction.

**CRQueue.** `CAS2` changes value and index of a cell together. `CEnqPut` is the one CAS
of an enqueue, `CDeqTake`, `CDeqMark` and `CDeqSkip` those of a dequeue. `Snapshot` does
not concern it: each of them fails if the pair loaded never was in the cell.

**Timestamps.** `clock` is the time-stamp counter, which every `now()` advances; `elem`
holds the times of an element, `freed` says which are deleted. `kind` chooses one of four
disciplines: MSQueue (`CallEnqueue`, `Insert`, `Stamp`, `Store`; `CallDequeue`, `Find`,
`Read`, `Claim`, `DeqLin`, `Log`, `Delete`), FlatCombiningQueue (`ServeEnqueue` and
`ServeDequeue` by a combiner), FAAArrayQueueAdapter (`Take`, `DeqLin`, `Log`, `Delete`)
and the adapters of the two ring queues (`DeqInv` after `DeqLin`). enq_lin_ts of an
MSNode is uninitialised until `Store`, that of the others 0 (`Unwritten`).

An element has an address (`addr`), and `Allocate`, the `new` of an enqueue, returns any
address without an undeleted element. An enqueuer reads the clock in `Stamp` and writes
what it read in `Store`, unconditionally and whatever has happened to its element since:
the write changes the enq_lin of every element that has that address, so that of a new
element too if the old one has been deleted and its address returned again, over
the time the new element's enqueuer has written or before it writes one. The history field
`own` is the time that an element's own enqueuer read, and a record is `Genuine` if this is
the time it holds. Of other records nothing can be said of when their enqueue
took effect; section 7 has two ways in which they come about.

**OvertakeMetrics.** `Commit` is commit_thread_logs under the mutex, in any order of
threads; `Trim` the join and the warm-up cutoff; `Build` the collection (`Kept`),
compression and sort (`Sorted`) of the pairs; `Query` and `InsertGroup` the two loops
over a group of equal first timestamps with the Fenwick tree, whose walks up and down
are `Updated` and `SumPrefix`; `Aggregate` the statistics. It is done for both
measures, as the driver does. Means and percentages are kept as numerator and
denominator.

**Trial.** `main` and `threads` are where the main thread is in its loops and how many
workers it has started or joined; `w`, `n`, `trial` are the loops' variables. `stage[t]`
is the part of the worker between two barriers, `todo[t]` what is left of it, `token[t]`
the phase of the barrier it waits for the end of. std::barrier is external: `Arrive` and
`Pass` are the two halves of arrive_and_wait. The queue is the number of its elements
and its operations are atomic, which is what the other modules show of them. The
shuffle of a worker's operations is replaced by any order.

## 4. The runs

Distinct states and time are for two workers of TLC.

| Run | Instance | States | Shows |
|---|---|---|---|
| `fc` | 3 threads, at most 2 outstanding items | 294,785 (56 s) | `SlotOwnership`, `BoundedBypass`, `LinearizableFifo`, `CallsReturn` |
| `ms` | 3 threads of which 2 may stop, 3 addresses, 2 items, counters modulo 2, no reuse | 302,057 (40 s) | `ListIntact`, `SafeDelete`, `LinearizableFifo`, `StalledThreadsDoNotBlock` |
| `faa` | 3 threads, one of which does both; segments of 2 cells, 4 addresses, reuse | 1,814,820 (90 s) | `NoUseAfterFree`, `RetiredOnce`, `Linearizable` |
| `rings` | both kinds of ring, of 2 cells; three kinds of client, see below | 2,212,613 (110 s) | `ClaimHasOwner`, `FirstEnqueueFits`, `Linearizable`, `Monotone` |
| `lrq` | 3 threads, one of which does both; 4 addresses, reuse | 606,901 (30 s) | `NoUseAfterFree`, `RetiredOnce`, `Linearizable` |
| `stamps` | 2 threads, 3 enqueues and 3 dequeues, all four kinds, reuse of addresses | 6,442,982 (75 s) | `FifoInRecords`, `OwnCallsInOrder`, `CombinerTimesLinearize`, `LoggedTimesAreLive` |
| `metrics` | 2 workers, all logs of up to 2 measured records over times 0..3 | 359,925 (9 s) | `TreeHoldsLaterElements`, `MetricsCorrect` |
| `trial` | 1 to 4 threads, all workloads, 2 trials of 2 or 3 operations | 91,862 (9 s) | `MeasuredApart`, `PairsNeverMiss`, `DeficitCovered`, `RecordsComplete`, `BenchmarkEnds` |
| `ms_reuse`, `prq_stale`, `stamps_freed`, `stamps_unwritten` | as above, or 3 threads | | violated: section 7 |

Each passing module also has its `TypeOK` checked once, save `OvertakeMetrics`, whose
two properties fail when a variable leaves its type. What each property says of the
code stands above its definition.

Why these bounds are enough for the cases that matter:

- *Three threads* are two that conflict and one that helps, overtakes or reclaims. In
  `fc` that is a combiner, a waiter before it and one behind it in the order of slots;
  in `faa` and `lrq` a retiring dequeuer, a second dequeuer that found the same
  segment drained and an enqueuer with the old tail.
- *Outstanding items* (`MaxItems` in `fc`): the queue is empty, has one element, has
  two. Calls are not bounded: threads call again for ever. One value is enough: that
  values do not matter to the order is part of the theorem of section 6.
- *Addresses.* In `ms` without reuse, addresses bound the enqueues ever called to 2, so
  that the list is empty, has one element, has two, and tail lags behind either. The
  safety properties also hold with four addresses (505,554 states up to symmetry).
  In `faa` and `lrq` every address but the current ones comes back after deletion, and
  `MaxItems` bounds the enqueues. Two-cell segments (`faa`) fill up, are given up by
  dequeuers and are followed by another segment within these items, since cells
  visited by dequeuers first count. All actions fire.
- *The clients of a ring* (`Clients`) are three threads of which some enqueue (2
  items) and the others dequeue, with 3 tickets; two threads that both do both (3
  items, 5 tickets), so that tickets come round to a cell twice, the ring fills up and
  closes by CAS; and two enqueuers, one of which also dequeues (4 items, 7 tickets). In
  the last one an enqueuer's attempts to close fail, because the other draws tickets,
  and after `Patience` = 1 failed attempts (10 in the code) it closes by force: both as
  the one that closes, and when the other has closed the segment just before. A larger
  patience only adds rounds of the same kind. A thread that would draw
  a ticket beyond the bound stops there, which is why deadlock is not checked in `rings`.
- `Starts`: a segment may start from any ticket (of those within the bound `MaxTicket`:
  `RingAssumption`), and one that is linked does start
  from the last ticket of the segment before it. The instance starts from 0: all
  tickets are compared with each other only, so starting from n shifts them by n and
  turns the ring.
- *Three enqueues and three dequeues by two threads* (`stamps`): an enqueuer is overtaken
  between its call and its effect, or between its effect and its time, by a thread that
  enqueues and dequeues meanwhile; a claimed node of MSQueue is deleted by the next
  dequeue but one. Addresses come back within these bounds, and the late write makes
  a difference: if a record's enq_lin need only have been written, by anyone, instead of
  being `Genuine`, this instance violates both `FifoInRecords` and `OwnCallsInOrder`. The properties also
  hold with three threads and 2 enqueues and 2 dequeues (502,122 states), 2 and 3
  (5,689,246), or 3 and 2 (18,595,093). A client that has used up its calls stops,
  which is why deadlock is not checked there.
- *Counters modulo 2* in `ms` make the tags of head and tail wrap within a run.
- *Times 0..3* in `metrics` include unset (0), ties in either timestamp and in both,
  and crossings. `Trim` ends most behaviours with work to do and some with nothing
  left. A trial ends, so deadlock is not checked there.
- *Prefills of 1 and 2* in `trial` stand for 5000 and 1000, with four threads for
  sixteen. The rounding of shares is off by at most n - 2 elements, which is why `Slack`
  must be at least that (`TrialAssumption`): at four threads, 2 is the tightest slack,
  by the assumption. Together they are less than the
  threads, so that `PairsNeverMiss` does not hold for the prefill alone. The benchmark
  ends, so deadlock is not checked, but `BenchmarkEnds` is.

Deadlock is checked in all other runs: some thread can always call or go on.

Symmetry is used where threads are interchangeable and no liveness property is checked
(`rings`, `stamps`). In `fc`, `faa` and `lrq` threads are numbers: slots and hazard
pointers are visited in their order.

## 5. Fairness

`FlatCombining!FairSpec`: weak fairness of each thread's `Step`, that is, of whatever
it does inside a call. The operating system keeps running every thread; nothing makes
a client call again, and nothing makes `try_lock` succeed: `TryLock` is only a disjunct
of `Step`, next to `TryLockFails`, so a thread may lose every race for the lock.
`CallsReturn` still holds, because a winner serves every slot.

`MSQueue!FairSpec`: weak fairness of the threads in `Running` only. The others may
stop anywhere, with tail lagging behind or an old dummy not deleted. That is the
progress the Michael-Scott queue promises; it holds in the run with one running
thread, whose loops are delayed only by finitely many steps of others. The ring
queues and FAAArrayQueue are not claimed to be live: an enqueuer and a dequeuer may
chase each other for ever.

`Trial!FairSpec`: weak fairness of the main thread and of each worker. Nothing in them
waits except join and the barrier, and a queue operation returns.

## 6. Proofs

Every safety invariant and action property of a passing run is a theorem for every value
of the constants, except `Linearizable` of `rings`. The constants satisfy the named
assumptions of their modules, which say no more than that sizes are positive, that
sentinels are not values and that logs are sequences of records; where one says more, or
where a theorem has a hypothesis, the table names it.

| Module | Theorem: `Spec =>` | For every | And under |
|---|---|---|---|
| `FlatCombiningProofs` | `TypeCorrect`: `[]TypeOK`; `OwnershipHolds`: `[]SlotOwnership`; `BypassIsBounded`: `[]BoundedBypass`; `Linearizable`: `LinearizableFifo` | number of threads, set of items, `MaxItems` | |
| `MSQueueProofs` | `TypeCorrect`: `[]TypeOK`; `ListAlwaysIntact`: `[]ListIntact`; `DeletesAreSafe`: `[]SafeDelete`; `LinkTakesEffect`: `LinkIsLinearizationPoint`; `Linearizable`: `LinearizableFifo` | threads, nodes, values, width of the counters | `~ Reuse` |
| `FAAArrayQueueProofs` | `TypeCorrect`: `[]TypeOK`; `NothingUsedAfterFree`: `[]NoUseAfterFree`; `RetiredByOne`: `[]RetiredOnce`; `CellsTakenOnce`: `[]CellInv`; `AlwaysLinearizable`: `[]Linearizable` | threads, addresses, cells, items | |
| `LinkedRingQueueProofs` | `TypeCorrect`, `NothingUsedAfterFree`, `RetiredByOne`, `AlwaysLinearizable`: the same | threads, addresses, items | |
| `RingProofs` | `TypeCorrect`: `[]TypeOK`; `ClaimsHaveOwners`: `[]ClaimHasOwner`; `NothingGoesBack`: `Monotone`; `FirstFits`: `[]FirstEnqueueFits` | threads, cells, items, tickets, `Patience`; with `Snapshot` or without | `Starts` within the tickets |
| `RingProofs` | `RemapPermutes`: `Remap` is a bijection on the cells | cells, and sizes of cells and cache lines | CacheRemap's static_asserts |
| `TimestampsProofs` | `TypeCorrect`: `[]TypeOK`; `RecordsKeepOrder`: `[]FifoInRecords`; `OwnCallsKeepOrder`: `[]OwnCallsInOrder`; `CombinerLinearizes`: `[]CombinerTimesLinearize`; `NoRecordOfDeleted`: `[]LoggedTimesAreLive` | kind of queue, threads, elements, dequeues | |
| `TimestampsProofs` | from `MetricsSpec`: `SweepHoldsLater`: `[]TreeHoldsLaterElements`; `MetricsAreCorrect`: `[]MetricsCorrect` | workers, records, warm-up | |
| `TrialProofs` | `TypeCorrect`: `[]TypeOK`; `MeasuresApart`: `[]MeasuredApart`; `PairsHit`: `[]PairsNeverMiss`; `DeficitIsCovered`: `[]DeficitCovered`; `RecordsAreComplete`: `[]RecordsComplete` | threads, trials, operations, prefills | `MaxThreads <= Slack + 2` |

`~ Reuse` is not what the allocator promises: `ms_reuse` shows that the queue is wrong
without it. The theorems say that nothing else is. `MaxThreads <= Slack + 2` is 1002
threads; the driver does not check it, and with more the deficit would not be covered.
In each module `Inv` is the inductive invariant and `InvAlways` the theorem that it
holds (`MetricsInv` and `MetricsInvariant` for the sweep); there is a lemma per action, or
per conjunct with a step per action. The two queues of segments have a second invariant
on top of it, `LinInv` with `LinAlways`. TLC has found each `Inv`, `MetricsInv`, and
`LinInv` of FAAArrayQueue, true in the states of the module's run. What the
invariants add to the properties, and why that is needed:

*Flat combining.* That the owner of a slot
waits while it is served needs to know that a published opcode belongs to a thread in
its loop (`PublishedInv`), that the slot being served stays published until `Finish`
(`ServedInv`), that only the lock's holder combines (`LockInv`), and, since the
combiner serves its own slot as well, that it does not leave with its own request
pending: past its own slot its opcode is Done (`PassedInv`). `ItemInv` and `ResultInv`
say that an enqueue request carries an item and a successful dequeue found one.
`BypassInv` says when u can have overtaken t's request: if u's
slot is before t's, in the current pass, which has passed u and has yet to reach t; if
it is behind t's, in a pass that had left t's slot behind when t published, so that
the next pass reaches t first. In neither case can u be served again before t. So a
waiter is overtaken at most once by each other thread, NumThreads - 1 times in all.
For the refinement, `InitMaps` and `StepMaps`: every step is a step of `FifoQueue` or a
stutter. Calls and returns map to calls and returns, `ApplyEnqueue` and `ApplyDequeue`
to the taking effect of the request they serve, all else to stuttering.

*MSQueue.* A node is one thread's own until it is linked (`OwnersInv`), and from then on
its next field is set once, for good, even after its deletion (`LinkedInv`, `Carry`).
Hence what a thread has read stays true in part (`Knows`): a successor it has read is the
successor; the tail it has read, if it still has none, is the last node; the head it has
read is the dummy, or was. A CAS on next therefore succeeds on the last node only, and a
CAS on head takes the element whose value was copied before it. The counters play no part.
`StepMaps` maps `Link` to the enqueue's effect, `AdvanceHead` to the dequeue's, and the
load of a null next (`DeqReadNext`) to a dequeue's seeing the queue empty: a node that is
or was the dummy (`BehindHead`) and has no successor is the last one, so no element is in
the list, wherever head is by then. The comparison that follows returns, or forgets it.

*Segments and hazard pointers.* One invariant (`SegInv`) serves both queues, since they
have the same code; each of their actions is shown to be one of a few kinds of step.
Hazard pointers alone do not suffice: tail may refer to a retired segment, which
no hazard pointer need protect. `TailInv` says why it is not deleted: tail is at the last
segment or at the one before it, so only the segment that head left last can be
tail's, and it is the last entry of its dequeuer's list. That dequeuer's own hazard
pointer is still on it while it scans (`ScanInv`), so the call that retires a segment never
deletes it; the next call that does so comes after head has moved again, which needs
tail to have left. `ScanInv` also says that whoever holds the segment the scan looks for
has not been passed by: a hazard pointer is published before it is checked, and a retired
segment passes no check (`HolderInv`, `Announces`). In FAAArrayQueue, `CellInv` says that
no cell is exchanged twice, since its index is drawn once in the life of a segment.

*Linearizability of the queues of segments.* `FifoMonitor` carries every configuration (an
abstract queue and what each call has come to) that the calls and returns so far allow,
so `Linearizable` says that one is left, and to prove it is to say which. `Reaches` is
the second half of `SegmentListProofs`: a configuration is reached if calls that are
pending, taking effect one after the other, lead to it from one the monitor has. The
monitor's closure is a function by recursion on the number of steps; nothing can be
proved of it by induction, so each lemma (`EffectReaches` and the like) takes the
least number of steps at which a set of natural numbers would first break it (`Least`,
from the library's theorem that the naturals are well-founded).

`LinInv` relates the segments to the configurations. In LinkedRingQueue the queue holds
what the segments from head on hold, one after the other (`Chain`, `Lays`): a segment with
a successor is closed, and one that head leaves is closed and empty (`Found`). The
dequeuers that have found the last segment empty, and have not yet looked whether it
has a successor (`Maybe`), may return nothing or go on, and which of them will is not known:
the empty queue they saw must already be in a configuration, and may have to be
forgotten. So `Explains` asks for a configuration for *every* subset of them.

In FAAArrayQueue what the queue holds is not known either. An enqueuer that has drawn a
cell stores its item there, unless a dequeuer takes the cell first, and then draws
another. The order of items is that of the draws, though, so the items cannot be added
when they are stored, out of order. `Awaits` are the cells that enqueuers have drawn and
dequeuers have not, across segments; `Foreseen` are all the ways in which the cells may
come out, each pending CAS having won or not. For every one of these, and every subset
of `Maybe`, some configuration has the items of those cells in their order as its queue,
and has given each dequeuer that has drawn a cell the item in it. A draw makes twice as
many, a CAS halves them. `FoundInv` says that no cell is awaited or stored into by two,
that a cell below deqidx is taken or about to be, and that a dequeuer is at head's
segment or at one that is drained.

*Rings.* What a thread has read of tail, of an index or a ticket bounds what it will write
(`Sound`), so that fixState cannot set tail back, nor reopen a closed segment. Each
bottom in a cell has the one thread between its claim and its last CAS (`ClaimHasOwner`,
which is inductive together with types). `FirstInv` follows the lone enqueuer of
`FirstEnqueueFits` through its first attempt: while no dequeuer has come before it, its
cell is untouched.

*Timestamps.* An element is taken once (`TakerInv`), and the dummy MSQueue deletes is not
one that is still to be read (`DummyInv`): who copies the times of a deleted element loses
its claim (`LiveInv`). What enq_lin holds is nobody's: a late `Store` may change it at any
time, so all of the invariant is about `own`, the time that the element's own enqueuer
took, which such a step leaves alone (`UnseenStep`, `StoreStep`). A copy tells the time of
the call, and its `own` is the element's (`CopyInv`). No enqueuer takes its time before the
call of an enqueue whose element is ahead of its own in the queue or has left before it
(`OrderInv`); with it `FifoInv` relates the times of any two dequeues, logged or not. Only
then do `FifoInRecords` and `OwnCallsInOrder` follow: in a genuine record enq_lin is `own`.
In `FifoInRecords` that is asked of one of the two records; the other's enq_lin may be
anything. `CombinerInv` is the stronger order of the combiner's times, which are stored as
they are taken: all of its records are genuine.

*The sweep.* Three things are computed by recursion: what `Fenwick::add` visits, what
`sum_prefix` adds up, and the sums of the statistics; and the sort is a CHOOSE. Of each
one writes down what it ought to be, checks that this satisfies the recursion (or sorts:
the place of a record is the number of those before it), and looks at the least place
where what is computed could differ. Node x of the tree stands for the ranks from
x - low(x) + 1 to x, low(x) being its lowest bit: these ranges are nested (`Nested`, by
least counterexample on halving both ends), so that the nodes visited from rank r up are
those whose range r is in (`UpdatedIs`), and the ranges visited down from r are 1 .. r in
pieces (`SumPrefixIs`). A sum is the area below the values (`SumIsArea`), which does not
depend on the order of adding. `MetricsInv` says that the pairs are those of the records,
one for one (`SamePairs`) and in order (`Ordered`), that each node counts the swept ranks
of its range (`TreeCounts`), that what is swept is later than what is not, and that the
depths found are those of the definition (`DepthsFound`). The correspondence of
pairs and records then carries sum, maximum and count over to the definition
(`Statistics`).

*A benchmark run.* A thread runs in the barrier's phase, or has arrived for it, or was let
through by the one before and has not noticed; the barrier misses exactly those who have
not arrived (`BarrierInv`). So whoever measures does so in phase three, and all others
are in it. Every thread between the enqueue and the dequeue of a pair has an element in
the queue (`PairInv`). What is in the queue, was taken, and is still to be put in add up
to the prefill and the shares (`BalanceInv`), as do logs and records (`RecordInv`); sums
over the threads are the area under a function (`Total`), which needs no induction.
`PrefillSuffices` is the arithmetic: the remainders of the two totals are both 0 or
add up to the number of threads n, so that rounding loses at most n - 2 elements.

*The permutation.* `Spread` over n lines of c cells is undone by `Spread` over c lines of n
cells (`SpreadPermutes`), because quotient and remainder determine a number and are
determined by it (`Divide`, `Unique`). It is what lets the models of the rings and of
FAAArrayQueue name a cell by its ticket modulo the size.

*Only model-checked:*

- `Linearizable` of the rings: a cell serves a ticket in every round, an enqueuer may lose
  its cell after one of three CASes, and the segment may close under a call, so that the
  foreseen outcomes are more and the monitor's calls end in one more way (`CanClose`).
  LinkedRingQueue's theorem is about segments that keep this contract.
- `CallsReturn`, `StalledThreadsDoNotBlock` and `BenchmarkEnds`: liveness under fairness,
  and ENABLED, are beyond the prover.

## 7. Disagreements between the code and what is said of it

- `ms_reuse` violates `LinkIsLinearizationPoint`. `msqueue.hpp:111` calls the CAS on
  next the linearization point. A node is deleted while an enqueuer may hold its
  address; reallocated, its next is `{nullptr, 0}` again, counter included, and the
  stale CAS succeeds on a node that is not in the list: the element is lost. Without
  reuse of addresses the queue is linearizable (`ms`).
- `stamps_freed` violates `StampsLiveElement`. `FAAArrayQueue.hpp:99` says that the queue
  may "safely write item->enq_lin_ts". It writes it after the CAS that hands the item
  over (line 130 after 128); by then a dequeuer may have taken, logged and deleted it.
  If `new` has returned the address for another element meanwhile, that one's enq_lin_ts is
  overwritten, perhaps after its own enqueuer has written it, and its record gives a time
  that its enqueuer never took. So a record with an enq_lin_ts is not thereby a record of when
  its element entered the queue: what the records do say (`FifoInRecords`,
  `OwnCallsInOrder`) is stated for genuine ones. The segments of LPRQueue and LCRQueue, and
  MSQueue (`msqueue.hpp:112`), write at the same point.
- `stamps_unwritten` violates `ZeroInSkipped`. An element taken before its enq_lin_ts is
  written is logged with 0 there. `FairnessLogger.cpp:23` means to skip such records
  ("e.g., in_ts==0"), but line 28 looks at the first time of the pair, which is the time
  of the call. The record is measured as if its element had entered the queue before
  every other: it overtakes all elements called earlier.
- `prq_stale` violates `Linearizable` (README.md:4 calls the queues FIFO). A dequeuer
  loads a cell's index and then its value; in between the enqueuer of a later round
  can claim the cell, move its index and store its item. The dequeuer takes that item
  for its own, while an item enqueued earlier is still in the ring. With the two loads
  taken together (`Snapshot`), the segment is linearizable (`rings`). CRQueue loads them
  the same way and is linearizable nevertheless: it takes the item by a CAS on both.

## 8. What is left out, and why

- Memory is sequentially consistent. The benchmark targets x86 (x86AtomicOps), where
  atomic read-modify-writes and sequentially consistent stores are; weaker orders
  appear as the plain fields of a slot, for which `SlotOwnership` shows that no two
  threads access them without a release and an acquire between.
- `compare_exchange_weak` does not fail spuriously, as on x86.
- enq_retries, estimateSize, clear, protectRelease, destructors: read, called or run
  by nothing while threads are at work. The loser of `casNext` in FAAArrayQueue leaks
  its segment; the model forgets it as the code does.
- A read of the time-stamp counter and the store of its result are one step where no
  other thread can reach what is stored into: a local, a slot before it is published, or an
  element that is not in the queue yet or that the thread alone has taken, and, in flat
  combining, what the lock protects. The enq_lin of the other queues is read (`Stamp`) and
  stored (`Store`) in two steps. Counters of different cores agree, as rdtscp needs
  them to for the benchmark to make sense.
- The late store of an enq_lin to memory that is not an element by then (the allocator's
  own, or a segment's) is undefined behaviour that is not modelled.
- In `Timestamps` the queue is FIFO whatever the addresses. For MSQueue that is an assumption,
  since an address that comes back can break it (`ms_reuse`): the theorems say what the
  records of an MSQueue that works show.
- 64-bit tickets and 32-bit counters of FAAArrayQueue do not overflow.
- lcrqueue_old is included by nothing. SCQueue is in no build either, and its operations
  rest on `lf/lf.h`, which is not in the repository. CacheMisses, the command line and
  the plots are I/O.

## 9. Plan

Order: the simplest queue, with proofs, first; then the two other queues the
benchmark compares; then reclamation, the segments, the measurement, the driver, the
timestamps. All modules of section 2 are written and checked; nothing that the benchmark
runs is left without a model. The invariants, the two refinements and linearizability of
the queues of segments are proved, and so is that the metrics are computed as they are
defined. What is left is `Linearizable` of CRQueue, where an item is taken by one CAS on
both words, then of PRQueue with `Snapshot`: as for FAAArrayQueue, with tickets in place
of cells.
