---------------------------- MODULE SegmentList ----------------------------
(***************************************************************************)
(* The list of segments that FAAArrayQueue (include/FAAArrayQueue.hpp) and *)
(* LinkedRingQueue (include/LinkedRingQueue.hpp) keep, each in its own copy*)
(* of the same code: head and tail, segments linked by next, and hazard    *)
(* pointers.  A drained segment is retired when head has left it, and      *)
(* deleted once no hazard pointer holds it; its address may then be used   *)
(* again.                                                                  *)
(***************************************************************************)
EXTENDS Integers, Sequences, FiniteSets

CONSTANTS
  NumThreads,  (* maxThreads                                               *)
  Enqueuers,   (* client bound: the threads that enqueue                   *)
  Dequeuers,   (* client bound: the threads that dequeue                   *)
  NumSegs,     (* client bound: addresses the allocator has for segments   *)
  MaxItems     (* client bound: enqueues ever called                       *)

ASSUME SegmentListAssumption ==
  /\ {NumThreads, NumSegs} \subseteq Nat \ {0}
  /\ MaxItems \in Nat
  /\ Enqueuers \cup Dequeuers \subseteq 0 .. (NumThreads - 1)

Threads == 0 .. (NumThreads - 1)
Segs    == 0 .. (NumSegs - 1)
Null    == NumSegs               (* no segment                             *)
kHpTail == 0
kHpHead == 1
Items   == 1 .. MaxItems         (* numbered in the order of the calls     *)
NoItem  == 0                     (* nullptr                                *)
Taken   == MaxItems + 1          (* what no item is                        *)

VARIABLES
  head, tail, next,
  hp, retired, heap, scan,  (* see HazardPointers                          *)
  me,                       (* me[t]: where thread t is, and its locals    *)
  issued,                   (* history: enqueues called so far             *)
  configs                   (* history: what FifoMonitor makes of the calls*)

memory  == <<hp, retired, heap, scan>>
list    == <<head, tail, next>>
history == <<issued, configs>>

HP      == INSTANCE HazardPointers WITH NumHPs <- 2, NumObjects <- NumSegs
Monitor == INSTANCE FifoMonitor WITH Refused <- Taken, CanClose <- FALSE

Fresh == [at    |-> "idle",
          seg   |-> Null,     (* ltail or lhead                            *)
          other |-> Null,     (* lnext, or the segment made                *)
          item  |-> NoItem,   (* the item enqueued or found                *)
          idx   |-> 0,        (* FAAArrayQueue's idx and t                 *)
          last  |-> 0]

InitList ==
  /\ head    = 0
  /\ tail    = 0
  /\ next    = [s \in Segs |-> Null]
  /\ HP!InitHP
  /\ me      = [t \in Threads |-> Fresh]
  /\ issued  = 0
  /\ configs = Monitor!InitialConfigs

(* Thread t goes on with m for its locals. *)
Become(t, m)   == me' = [me EXCEPT ![t] = m] /\ UNCHANGED history
Goto(t, there) == Become(t, [me[t] EXCEPT !.at = there])

(* The loop starts over: only the item is still needed. *)
Restart(t, there) ==
  Become(t, [Fresh EXCEPT !.at = there, !.item = me[t].item])

CallEnqueue(t) ==
  /\ me[t].at = "idle"
  /\ issued < MaxItems
  /\ issued'  = issued + 1
  /\ me' = [me EXCEPT ![t].at = "enqLoad", ![t].item = issued + 1]
  /\ configs' = Monitor!Called(configs, t, Monitor!EnqCall(issued + 1))
  /\ UNCHANGED <<list, memory>>

CallDequeue(t) ==
  /\ me[t].at = "idle"
  /\ me' = [me EXCEPT ![t].at = "deqLoad"]
  /\ configs' = Monitor!Called(configs, t, Monitor!DeqCall)
  /\ UNCHANGED <<list, memory, issued>>

Call ==
  \/ \E t \in Enqueuers : CallEnqueue(t)
  \/ \E t \in Dequeuers : CallDequeue(t)

(* A hazard pointer is set to seg, which is unverified as yet. *)
Publish(t, here, there, k) ==
  /\ me[t].at = here
  /\ HP!Protect(t, k, me[t].seg)
  /\ Goto(t, there)
  /\ UNCHANGED <<list, retired, heap, scan>>

(* clearOne, and the call returns r. *)
ClearAndReturn(t, here, k, r) ==
  /\ me[t].at = here
  /\ HP!ClearOne(t, k)
  /\ me' = [me EXCEPT ![t] = Fresh]
  /\ configs' = Monitor!Returned(configs, t, r)
  /\ UNCHANGED <<list, retired, heap, scan, issued>>

EnqClear(t) == ClearAndReturn(t, "enqClear", kHpTail, NoItem)
DeqClear(t) == ClearAndReturn(t, "deqClear", kHpHead, me[t].item)

(* A segment is made. *)
Allocate(s) ==
  /\ HP!MayAllocate(s)
  /\ heap' = [heap EXCEPT ![s] = "used"]
  /\ next' = [next EXCEPT ![s] = Null]
  /\ UNCHANGED <<head, tail, hp, retired, scan>>

(* casTail, while the hazard pointer still holds the old tail. *)
CasTail(t) == tail' = IF tail = me[t].seg THEN me[t].other ELSE tail

(* The segment has been linked; tail is moved to it. *)
EnqSwing(t) ==
  /\ me[t].at = "enqSwing"
  /\ CasTail(t)
  /\ Goto(t, "enqClear")
  /\ UNCHANGED <<head, next, memory>>

(* The CAS on head by which seg leaves the list, to be retired. *)
CasHead(t) ==
  /\ head = me[t].seg
  /\ head' = me[t].other
  /\ HP!PushRetired(t, me[t].seg)

(* retire, called when head has left the segment in the list. *)
RetireStep(t) ==
  /\ me[t].at = "retire"
  /\ HP!RetireLoad(t) \/ HP!RetireDelete(t)
  /\ UNCHANGED <<list, hp, me, history>>

RetireReturn(t, there) ==
  /\ me[t].at = "retire"
  /\ HP!RetireDone(t)
  /\ scan' = [scan EXCEPT ![t] = HP!NoScan]
  /\ Goto(t, there)
  /\ UNCHANGED <<list, hp, retired, heap>>

----------------------------------------------------------------------------
(* Parts of the properties.                                                *)

ListTypeOK ==
  /\ {head, tail} \subseteq Segs
  /\ next \in [Segs -> Segs \cup {Null}]
  /\ HP!HPTypeOK
  /\ \A t \in Threads : /\ {me[t].seg, me[t].other} \subseteq Segs \cup {Null}
                        /\ me[t].item \in Items \cup {NoItem}

(* Neither end of the list, nor the segment a thread is about to read or   *)
(* write at one of the places in following, has been deleted.              *)
AliveWhere(following) ==
  /\ {heap[head], heap[tail]} = {"used"}
  /\ \A t \in Threads :
       me[t].at \in following => me[t].seg \in Segs /\ heap[me[t].seg] = "used"

(* A segment is retired by one thread, once, when head has left it, and    *)
(* deleted once: it is in one place of one list until then.                *)
RetiredOnce ==
  /\ HP!RetiredApart
  /\ \A t \in Threads : ~ HP!Listed(t, head)

(* Every execution has a linearization: no item is lost, duplicated or     *)
(* overtaken by one enqueued after it, and no dequeue finds the queue      *)
(* empty when it cannot have been.                                         *)
Linearizable == configs # {}

=============================================================================
