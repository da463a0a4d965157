--------------------------- MODULE FlatCombining ---------------------------
(***************************************************************************)
(* FlatCombiningQueue (include/fcqueue.hpp).  Every thread owns one slot   *)
(* of operations_.  It writes its request there, publishes it by storing   *)
(* the opcode, and then either acquires lock_ and, as the combiner, applies*)
(* every published request to the sequential queue q_, or finds that       *)
(* another combiner has stored Done in its slot.                           *)
(*                                                                         *)
(* One action is one access to memory that other threads may touch; an     *)
(* access to thread-local state goes with the action before it.  The four  *)
(* timestamps an element carries are left out: they are copied together    *)
(* with the value, by the same statements.                                 *)
(***************************************************************************)
EXTENDS Integers, Sequences, FiniteSets

CONSTANTS
  NumThreads,  (* size of operations_                                      *)
  Values,      (* the items enqueued                                       *)
  NoValue,     (* T{}, what a dequeuer leaves in its slot                  *)
  MaxItems     (* client bound: elements in the queue and in pending       *)
               (* enqueues together                                        *)

ASSUME FCAssumption ==
  /\ NumThreads \in Nat \ {0}
  /\ NoValue \notin Values
  /\ MaxItems \in Nat

Threads == 0 .. (NumThreads - 1)

Free == NumThreads          (* lock_ when no thread holds it               *)

Opcodes == {"Done", "Enqueue", "Dequeue"}

VARIABLES
  opcode,   (* operations_[t].opcode                                       *)
  value,    (* operations_[t].node.value                                   *)
  success,  (* operations_[t].success                                      *)
  q,        (* q_                                                          *)
  lock,     (* the holder of lock_, or Free                                *)
  pc,       (* where thread t is                                           *)
  request,  (* the operation t is inside of; "Enqueue" when idle           *)
  i,        (* the combiner's loop index                                   *)
  code,     (* the opcode the combiner loaded from slot i                  *)
  bypass    (* history: bypass[t][u] counts the requests of u applied      *)
            (* since t published the request it is waiting for             *)

vars == <<opcode, value, success, q, lock, pc, request, i, code, bypass>>

slots == <<opcode, value, success>>

(* scan_combine_apply runs between try_lock and unlock. *)
Combining(t) == pc[t] \in {"scan", "dispatch", "finish"}

(* A published request that no combiner has applied yet. *)
Waiting(t) ==
  /\ opcode[t] # "Done"
  /\ ~ \E c \in Threads : pc[c] = "finish" /\ i[c] = t

NoBypass == [u \in Threads |-> 0]

Init ==
  /\ opcode  = [t \in Threads |-> "Done"]
  /\ value   = [t \in Threads |-> NoValue]
  /\ success = [t \in Threads |-> FALSE]
  /\ q       = <<>>
  /\ lock    = Free
  /\ pc      = [t \in Threads |-> "idle"]
  /\ request = [t \in Threads |-> "Enqueue"]
  /\ i       = [t \in Threads |-> 0]
  /\ code    = [t \in Threads |-> "Done"]
  /\ bypass  = [t \in Threads |-> NoBypass]

----------------------------------------------------------------------------
(* The requesting thread.                                                  *)

(* The elements the clients have put or are putting into the queue. *)
Outstanding ==
  Len(q) + Cardinality({t \in Threads :
                          pc[t] # "idle" /\ request[t] = "Enqueue" /\
                          (pc[t] = "publish" \/ Waiting(t))})

(* enqueue(item): the slot is filled in before the opcode is stored. *)
CallEnqueue(t, v) ==
  /\ pc[t] = "idle"
  /\ Outstanding < MaxItems
  /\ value'   = [value EXCEPT ![t] = v]
  /\ request' = [request EXCEPT ![t] = "Enqueue"]
  /\ pc'      = [pc EXCEPT ![t] = "publish"]
  /\ UNCHANGED <<opcode, success, q, lock, i, code, bypass>>

CallDequeue(t) ==
  /\ pc[t] = "idle"
  /\ value'   = [value EXCEPT ![t] = NoValue]
  /\ success' = [success EXCEPT ![t] = FALSE]
  /\ request' = [request EXCEPT ![t] = "Dequeue"]
  /\ pc'      = [pc EXCEPT ![t] = "publish"]
  /\ UNCHANGED <<opcode, q, lock, i, code, bypass>>

(* slot.opcode.store(Enqueue or Dequeue, release) *)
Publish(t) ==
  /\ pc[t] = "publish"
  /\ opcode' = [opcode EXCEPT ![t] = request[t]]
  /\ bypass' = [bypass EXCEPT ![t] = NoBypass]
  /\ pc'     = [pc EXCEPT ![t] = "try"]
  /\ UNCHANGED <<value, success, q, lock, request, i, code>>

(* lock_.try_lock() succeeds: the thread is the combiner from here on. *)
TryLock(t) ==
  /\ pc[t] = "try"
  /\ lock = Free
  /\ lock' = t
  /\ i'    = [i EXCEPT ![t] = 0]
  /\ pc'   = [pc EXCEPT ![t] = "scan"]
  /\ UNCHANGED <<slots, q, request, code, bypass>>

TryLockFails(t) ==
  /\ pc[t] = "try"
  /\ lock # Free
  /\ pc' = [pc EXCEPT ![t] = "poll"]
  /\ UNCHANGED <<slots, q, lock, request, i, code, bypass>>

(* Fault: the loop returns after a failed try_lock without reading the slot. *)
PollAlwaysReturns(t) ==
  /\ pc[t] = "poll"
  /\ pc' = [pc EXCEPT ![t] = "return"]
  /\ UNCHANGED <<slots, q, lock, request, i, code, bypass>>

(* Fault: the loop only ever waits for the lock. *)
PollNeverReturns(t) ==
  /\ pc[t] = "poll"
  /\ pc' = [pc EXCEPT ![t] = "try"]
  /\ UNCHANGED <<slots, q, lock, request, i, code, bypass>>

(* The lock is taken: has another combiner served this slot? *)
Poll(t) ==
  /\ pc[t] = "poll"
  /\ pc' = [pc EXCEPT ![t] = IF opcode[t] = "Done" THEN "return" ELSE "try"]
  /\ UNCHANGED <<slots, q, lock, request, i, code, bypass>>

(* The dequeuer reads success and value of its slot and returns. *)
Return(t) ==
  /\ pc[t] = "return"
  /\ pc'      = [pc EXCEPT ![t] = "idle"]
  /\ request' = [request EXCEPT ![t] = "Enqueue"]
  /\ UNCHANGED <<slots, q, lock, i, code, bypass>>

----------------------------------------------------------------------------
(* The combiner: scan_combine_apply.                                       *)

(* Fault: the slot is handed back before its request is applied. *)
LoadAndRelease(t) ==
  /\ pc[t] = "scan"
  /\ i[t] < NumThreads
  /\ code' = [code EXCEPT ![t] = opcode[i[t]]]
  /\ IF opcode[i[t]] = "Done"
     THEN i' = [i EXCEPT ![t] = @ + 1] /\ UNCHANGED <<opcode, pc>>
     ELSE /\ opcode' = [opcode EXCEPT ![i[t]] = "Done"]
          /\ pc' = [pc EXCEPT ![t] = "dispatch"]
          /\ UNCHANGED i
  /\ UNCHANGED <<value, success, q, lock, request, bypass>>

(* code = slot.opcode.load(acquire); a slot that is Done is passed over. *)
Load(t) ==
  /\ pc[t] = "scan"
  /\ i[t] < NumThreads
  /\ code' = [code EXCEPT ![t] = opcode[i[t]]]
  /\ IF opcode[i[t]] = "Done"
     THEN i' = [i EXCEPT ![t] = @ + 1] /\ UNCHANGED pc
     ELSE pc' = [pc EXCEPT ![t] = "dispatch"] /\ UNCHANGED i
  /\ UNCHANGED <<slots, q, lock, request, bypass>>

(* Applying the request of s ends its wait and overtakes whoever waits. *)
CountBypass(s) ==
  bypass' = [t \in Threads |->
               IF t = s THEN NoBypass
               ELSE IF Waiting(t) THEN [bypass[t] EXCEPT ![s] = @ + 1]
               ELSE bypass[t]]

(* q_.push(slot.node) *)
ApplyEnqueue(t) ==
  /\ pc[t] = "dispatch"
  /\ code[t] = "Enqueue"
  /\ q'  = Append(q, value[i[t]])
  /\ pc' = [pc EXCEPT ![t] = "finish"]
  /\ CountBypass(i[t])
  /\ UNCHANGED <<slots, lock, request, i, code>>

(* The oldest element goes back through the slot, or success is false. *)
ApplyDequeue(t) ==
  /\ pc[t] = "dispatch"
  /\ code[t] = "Dequeue"
  /\ IF q # <<>>
     THEN /\ q'       = Tail(q)
          /\ value'   = [value EXCEPT ![i[t]] = Head(q)]
          /\ success' = [success EXCEPT ![i[t]] = TRUE]
     ELSE /\ success' = [success EXCEPT ![i[t]] = FALSE]
          /\ UNCHANGED <<q, value>>
  /\ pc' = [pc EXCEPT ![t] = "finish"]
  /\ CountBypass(i[t])
  /\ UNCHANGED <<opcode, lock, request, i, code>>

(* Fault: the index is advanced in the body and in the loop header. *)
FinishTwoSteps(t) ==
  /\ pc[t] = "finish"
  /\ opcode' = [opcode EXCEPT ![i[t]] = "Done"]
  /\ i'      = [i EXCEPT ![t] = @ + 2]
  /\ pc'     = [pc EXCEPT ![t] = "scan"]
  /\ UNCHANGED <<value, success, q, lock, request, code, bypass>>

(* slot.opcode.store(Done, release); ++i *)
Finish(t) ==
  /\ pc[t] = "finish"
  /\ opcode' = [opcode EXCEPT ![i[t]] = "Done"]
  /\ i'      = [i EXCEPT ![t] = @ + 1]
  /\ pc'     = [pc EXCEPT ![t] = "scan"]
  /\ UNCHANGED <<value, success, q, lock, request, code, bypass>>

(* Fault: the combiner leaves as soon as its own request is served. *)
UnlockOnceServed(t) ==
  /\ pc[t] = "scan"
  /\ opcode[t] = "Done" \/ i[t] = NumThreads
  /\ lock' = Free
  /\ pc'   = [pc EXCEPT ![t] = "return"]
  /\ UNCHANGED <<slots, q, request, i, code, bypass>>

(* Every slot has been visited: lock_.unlock(), and the call returns. *)
Unlock(t) ==
  /\ pc[t] = "scan"
  /\ i[t] = NumThreads
  /\ lock' = Free
  /\ i'    = [i EXCEPT ![t] = 0]
  /\ code' = [code EXCEPT ![t] = "Done"]
  /\ pc'   = [pc EXCEPT ![t] = "return"]
  /\ UNCHANGED <<slots, q, request, bypass>>

----------------------------------------------------------------------------
(* What thread t does once it has been called, whatever the clients do. *)
Step(t) ==
  \/ Publish(t)
  \/ TryLock(t)
  \/ TryLockFails(t)
  \/ Poll(t)
  \/ Load(t)
  \/ ApplyEnqueue(t)
  \/ ApplyDequeue(t)
  \/ Finish(t)
  \/ Unlock(t)
  \/ Return(t)

Call(t) == CallDequeue(t) \/ \E v \in Values : CallEnqueue(t, v)

Next == \E t \in Threads : Call(t) \/ Step(t)

Spec == Init /\ [][Next]_vars

(* The operating system keeps scheduling every thread; nothing makes a     *)
(* client call again, and the lock is not fair.                            *)
FairSpec == Spec /\ \A t \in Threads : WF_vars(Step(t))

----------------------------------------------------------------------------
(* Properties.                                                             *)

(* Every variable keeps its type; the loop index stays within the slots.   *)
TypeOK ==
  /\ opcode  \in [Threads -> Opcodes]
  /\ value   \in [Threads -> Values \cup {NoValue}]
  /\ success \in [Threads -> BOOLEAN]
  /\ q       \in Seq(Values)
  /\ lock    \in Threads \cup {Free}
  /\ pc      \in [Threads -> {"idle", "publish", "try", "poll", "scan",
                              "dispatch", "finish", "return"}]
  /\ request \in [Threads -> {"Enqueue", "Dequeue"}]
  /\ i       \in [Threads -> 0 .. NumThreads]
  /\ code    \in [Threads -> Opcodes]
  /\ bypass  \in [Threads -> [Threads -> Nat]]

(* The plain (non-atomic) fields of a slot are never touched by the        *)
(* combiner and by the slot's owner at once: while the combiner is between *)
(* its load of slot s and its store of Done there, the owner of s is       *)
(* waiting in its loop, or is that combiner.  Two combiners never serve    *)
(* the same slot.                                                          *)
SlotOwnership ==
  \A c \in Threads : pc[c] \in {"dispatch", "finish"} =>
    /\ \/ i[c] = c
       \/ pc[i[c]] \in {"try", "poll"}
    /\ \A d \in Threads \ {c} : ~ Combining(d)

(* Bounded overtaking: from the moment a request is published until it is  *)
(* applied, no other thread gets more than one request applied.  A waiting *)
(* request is overtaken at most NumThreads - 1 times.                      *)
BoundedBypass == \A t, u \in Threads : bypass[t][u] <= 1

(* Every call returns, however often the other threads keep calling and    *)
(* win the lock: a thread that never gets lock_ is served by those who do. *)
CallsReturn == \A t \in Threads : pc[t] # "idle" ~> pc[t] = "idle"

(***************************************************************************)
(* The refinement mapping.  A request takes effect when the combiner       *)
(* applies it, in ApplyEnqueue or ApplyDequeue, not when its thread calls. *)
(***************************************************************************)
Applied(t) == pc[t] # "publish" /\ ~ Waiting(t)

AbstractCall(t) ==
  IF pc[t] = "idle" THEN [stage |-> "idle"]
  ELSE IF request[t] = "Enqueue"
  THEN IF Applied(t) THEN [stage |-> "enqueued"]
       ELSE [stage |-> "enq", value |-> value[t]]
  ELSE IF Applied(t) /\ success[t]
  THEN [stage |-> "dequeued", value |-> value[t]]
  ELSE [stage |-> "deq", sawEmpty |-> Applied(t)]

Fifo == INSTANCE FifoQueue WITH
          queue <- q, call <- [t \in Threads |-> AbstractCall(t)]

(* FlatCombiningQueue is a linearizable FIFO queue. *)
LinearizableFifo == Fifo!Spec

=============================================================================
