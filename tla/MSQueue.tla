------------------------------ MODULE MSQueue ------------------------------
(***************************************************************************)
(* MSQueue (include/msqueue.hpp): the Michael-Scott linked list with tagged*)
(* pointers.  head points to a dummy node; the node after it is the oldest *)
(* element.  An enqueuer links its node to the last one, then swings tail; *)
(* whoever finds tail behind helps.  The dequeuer that advances head       *)
(* deletes the old dummy at once: there is no deferred reclamation.        *)
(*                                                                         *)
(* One action is one access to shared memory.  The statistics counter      *)
(* enq_retries is left out, and the times are in Timestamps.  A deleted    *)
(* node keeps its next field; its value is overwritten by the allocator's  *)
(* own bookkeeping.                                                        *)
(***************************************************************************)
EXTENDS Integers, Sequences, FiniteSets

CONSTANTS
  Threads,   (* the worker threads                                         *)
  Running,   (* those the operating system keeps scheduling; the others    *)
             (* may stop for good between any two steps                    *)
  NumNodes,  (* client bound: how many addresses the allocator has         *)
  Values,    (* the items enqueued                                         *)
  NoValue,   (* what the value field of a node without element holds       *)
  CountMod,  (* an unsigned int wraps to 0 here                            *)
  Reuse      (* does new return the address of a deleted node?             *)

ASSUME MSAssumption ==
  /\ Running \subseteq Threads
  /\ NumNodes \in Nat \ {0}
  /\ NoValue \notin Values
  /\ CountMod \in Nat \ {0}
  /\ Reuse \in BOOLEAN

(* Addresses, numbered in the order the allocator first returns them. *)
Nodes == 0 .. (NumNodes - 1)
Null  == NumNodes

(* MSPointer *)
Pointer(p, c) == [ptr |-> p, count |-> c]
Counts   == 0 .. (CountMod - 1)
Pointers == [ptr : Nodes \cup {Null}, count : Counts]
NullPointer == Pointer(Null, 0)
Advance(old, p) == Pointer(p, (old.count + 1) % CountMod)

VARIABLES
  head, tail,  (* the two ends                                             *)
  next,        (* next[n], value[n]: the fields of node n                  *)
  value,
  heap,        (* "new", "used" or "freed": what the allocator knows of n  *)
  chain,       (* history: the nodes from the dummy to the last one linked *)
  me           (* me[t]: where thread t is, and its locals                 *)

list   == <<head, tail, next, chain>>
fields == <<value, heap>>
vars   == <<list, fields, me>>

Fresh == [at    |-> "idle",
          node  |-> Null,          (* the node enqueued                    *)
          tail  |-> NullPointer,   (* cur_tail                             *)
          head  |-> NullPointer,   (* cur_head                             *)
          next  |-> NullPointer,
          value |-> NoValue]       (* *value                               *)

Init ==
  /\ head  = Pointer(0, 0)
  /\ tail  = Pointer(0, 0)
  /\ next  = [n \in Nodes |-> NullPointer]
  /\ value = [n \in Nodes |-> NoValue]
  /\ heap  = [n \in Nodes |-> IF n = 0 THEN "used" ELSE "new"]
  /\ chain = <<0>>
  /\ me    = [t \in Threads |-> Fresh]

(* Thread t goes on with m for its locals. *)
Become(t, m)   == me' = [me EXCEPT ![t] = m]
Goto(t, there) == Become(t, [me[t] EXCEPT !.at = there])
Return(t)      == Become(t, Fresh)

(* The loop starts over; of the locals, only node is still needed. *)
Restart(t, there) ==
  Become(t, [Fresh EXCEPT !.at = there, !.node = me[t].node])

(* Fault: tail is stored, not compared first. *)
StoreTail(t, p) == tail' = Advance(me[t].tail, p)

(* tail.compare_exchange_weak(cur_tail, {p, cur_tail.count + 1}) *)
SwingTail(t, p) ==
  tail' = IF tail = me[t].tail THEN Advance(tail, p) ELSE tail

(* Whoever finds a node after cur_tail swings tail to it, then starts over.*)
Help(t, here, there) ==
  /\ me[t].at = here
  /\ SwingTail(t, me[t].next.ptr)
  /\ Restart(t, there)
  /\ UNCHANGED <<head, next, chain, fields>>

----------------------------------------------------------------------------
(* enqueue *)

(* Whether n may be the address of the next node allocated. *)
Malloc(n) ==
  \/ heap[n] = "new" /\ \A m \in 0 .. (n - 1) : heap[m] # "new"
  \/ heap[n] = "freed" /\ Reuse

(* new MSNode<T>(value): next is {nullptr, 0}. *)
CallEnqueue(t, v) ==
  /\ me[t].at = "idle"
  /\ \E n \in Nodes :
       /\ Malloc(n)
       /\ heap'  = [heap EXCEPT ![n] = "used"]
       /\ next'  = [next EXCEPT ![n] = NullPointer]
       /\ value' = [value EXCEPT ![n] = v]
       /\ Become(t, [Fresh EXCEPT !.at = "enq", !.node = n])
  /\ UNCHANGED <<head, tail, chain>>

EnqReadTail(t) ==
  /\ me[t].at = "enq"
  /\ Become(t, [me[t] EXCEPT !.at = "enqNext", !.tail = tail])
  /\ UNCHANGED <<list, fields>>

EnqReadNext(t) ==
  /\ me[t].at = "enqNext"
  /\ Become(t, [me[t] EXCEPT !.at = "enqCheck", !.next = next[me[t].tail.ptr]])
  /\ UNCHANGED <<list, fields>>

EnqCheckTail(t) ==
  /\ me[t].at = "enqCheck"
  /\ \/ me[t].tail # tail /\ Restart(t, "enq")
     \/ /\ me[t].tail = tail
        /\ Goto(t, IF me[t].next.ptr = Null THEN "link" ELSE "enqHelp")
  /\ UNCHANGED <<list, fields>>

(* The CAS on next; chain grows if the node it went to is in the queue. *)
Link(t) ==
  LET last == me[t].tail.ptr IN
  /\ me[t].at = "link"
  /\ \/ /\ next[last] = me[t].next
        /\ next'  = [next EXCEPT ![last] = Advance(me[t].next, me[t].node)]
        /\ chain' = IF last = chain[Len(chain)]
                    THEN Append(chain, me[t].node) ELSE chain
        /\ Goto(t, "swing")
     \/ /\ next[last] # me[t].next
        /\ Restart(t, "enq")
        /\ UNCHANGED <<next, chain>>
  /\ UNCHANGED <<head, tail, fields>>

(* Fault: an enqueuer that finds tail behind just tries again. *)
EnqHelpNot(t) ==
  /\ me[t].at = "enqHelp"
  /\ Restart(t, "enq")
  /\ UNCHANGED <<list, fields>>

EnqHelp(t) == Help(t, "enqHelp", "enq")

Swing(t) ==
  /\ me[t].at = "swing"
  /\ SwingTail(t, me[t].node)
  /\ Return(t)
  /\ UNCHANGED <<head, next, chain, fields>>

----------------------------------------------------------------------------
(* dequeue *)

CallDequeue(t) ==
  /\ me[t].at = "idle"
  /\ Goto(t, "deq")
  /\ UNCHANGED <<list, fields>>

DeqReadHead(t) ==
  /\ me[t].at = "deq"
  /\ Become(t, [me[t] EXCEPT !.at = "deqTail", !.head = head])
  /\ UNCHANGED <<list, fields>>

DeqReadTail(t) ==
  /\ me[t].at = "deqTail"
  /\ Become(t, [me[t] EXCEPT !.at = "deqNext", !.tail = tail])
  /\ UNCHANGED <<list, fields>>

DeqReadNext(t) ==
  /\ me[t].at = "deqNext"
  /\ Become(t, [me[t] EXCEPT !.at = "deqCheck", !.next = next[me[t].head.ptr]])
  /\ UNCHANGED <<list, fields>>

(* Where a dequeuer whose head is still valid goes: to help or to the copy.*)
DeqOnward(t) ==
  Goto(t, IF me[t].head.ptr = me[t].tail.ptr THEN "deqHelp" ELSE "copy")

(* Fault: with head and tail on one node, tail is helped on regardless. *)
DeqCheckHeadOnly(t) ==
  /\ me[t].at = "deqCheck"
  /\ \/ me[t].head # head /\ Restart(t, "deq")
     \/ me[t].head = head /\ DeqOnward(t)
  /\ UNCHANGED <<list, fields>>

(* head must not have moved.  Then either tail was at the dummy, and the   *)
(* queue was empty or tail is behind, or there is an element to take.      *)
DeqCheckHead(t) ==
  LET m     == me[t]
      ends  == m.head.ptr = m.tail.ptr
      none  == m.next.ptr = Null
  IN
  /\ m.at = "deqCheck"
  /\ \/ (m.head # head \/ (~ ends /\ none)) /\ Restart(t, "deq")
     \/ (m.head = head /\ ends /\ none)   /\ Return(t)
     \/ (m.head = head /\ ~ none)          /\ DeqOnward(t)
  /\ UNCHANGED <<list, fields>>

DeqHelp(t) == Help(t, "deqHelp", "deq")

(* Fault: the value is read from the dummy. *)
CopyFromDummy(t) ==
  /\ me[t].at = "copy"
  /\ Become(t, [me[t] EXCEPT !.at = "advance", !.value = value[me[t].head.ptr]])
  /\ UNCHANGED <<list, fields>>

(* The value of the element is read before the element is claimed. *)
Copy(t) ==
  /\ me[t].at = "copy"
  /\ Become(t, [me[t] EXCEPT !.at = "advance", !.value = value[me[t].next.ptr]])
  /\ UNCHANGED <<list, fields>>

(* Fault: head is stored, not compared first. *)
StoreHead(t) ==
  /\ me[t].at = "advance"
  /\ head'  = Advance(me[t].head, me[t].next.ptr)
  /\ chain' = IF Len(chain) > 1 THEN Tail(chain) ELSE chain
  /\ Goto(t, "delete")
  /\ UNCHANGED <<tail, next, fields>>

(* The CAS on head. *)
AdvanceHead(t) ==
  /\ me[t].at = "advance"
  /\ \/ /\ head = me[t].head
        /\ head'  = Advance(head, me[t].next.ptr)
        /\ chain' = Tail(chain)
        /\ Goto(t, "delete")
     \/ /\ head # me[t].head
        /\ Restart(t, "deq")
        /\ UNCHANGED <<head, chain>>
  /\ UNCHANGED <<tail, next, fields>>

(* The old dummy is deleted. *)
Delete(t) ==
  LET dummy == me[t].head.ptr IN
  /\ me[t].at = "delete"
  /\ heap'  = [heap EXCEPT ![dummy] = "freed"]
  /\ value' = [value EXCEPT ![dummy] = NoValue]
  /\ Return(t)
  /\ UNCHANGED list

----------------------------------------------------------------------------
Step(t) ==
  \/ EnqReadTail(t)
  \/ EnqReadNext(t)
  \/ EnqCheckTail(t)
  \/ Link(t)
  \/ EnqHelp(t)
  \/ Swing(t)
  \/ DeqReadHead(t)
  \/ DeqReadTail(t)
  \/ DeqReadNext(t)
  \/ DeqCheckHead(t)
  \/ DeqHelp(t)
  \/ Copy(t)
  \/ AdvanceHead(t)
  \/ Delete(t)

Call(t) == CallDequeue(t) \/ \E v \in Values : CallEnqueue(t, v)

Next == \E t \in Threads : Call(t) \/ Step(t)

Spec == Init /\ [][Next]_vars

(* Only the threads in Running are sure to go on with what they started. *)
FairSpec == Spec /\ \A t \in Running : WF_vars(Step(t))

----------------------------------------------------------------------------
(* Properties.                                                             *)

(* Every variable keeps its type; head and tail never become null, and a   *)
(* dequeuer that copies or claims has an element to take.                  *)
TypeOK ==
  /\ {head, tail} \subseteq [ptr : Nodes, count : Counts]
  /\ next  \in [Nodes -> Pointers]
  /\ value \in [Nodes -> Values \cup {NoValue}]
  /\ heap  \in [Nodes -> {"new", "used", "freed"}]
  /\ chain \in Seq(Nodes)
  /\ me    \in [Threads ->
               [at    : {"idle", "enq", "enqNext", "enqCheck", "link",
                         "enqHelp", "swing", "deq", "deqTail", "deqNext",
                         "deqCheck", "deqHelp", "copy", "advance", "delete"},
                node  : Nodes \cup {Null},
                tail  : Pointers,
                head  : Pointers,
                next  : Pointers,
                value : Values \cup {NoValue}]]
  /\ \A t \in Threads : me[t].at \in {"enqHelp", "deqHelp", "copy", "advance"} =>
       me[t].next.ptr # Null

InChain(n) == \E k \in 1 .. Len(chain) : chain[k] = n

(* The pointers spell out exactly the nodes linked and not yet removed, in *)
(* the order they were linked; head is at the dummy and tail is never      *)
(* behind head, nor more than one node behind the end of the list.         *)
ListIntact ==
  /\ chain # <<>>
  /\ head.ptr = chain[1]
  /\ \A k \in 1 .. Len(chain) :
       next[chain[k]].ptr = IF k = Len(chain) THEN Null ELSE chain[k + 1]
  /\ \/ tail.ptr = chain[Len(chain)]
     \/ Len(chain) > 1 /\ tail.ptr = chain[Len(chain) - 1]

(* The dequeuer that won the CAS on head is the only one to delete the old *)
(* dummy, deletes it once, and only when the list no longer leads to it;   *)
(* a node an enqueuer has yet to link is in nobody's list.                 *)
SafeDelete ==
  /\ \A n \in Nodes : InChain(n) => heap[n] = "used"
  /\ \A t \in Threads : me[t].at = "delete" =>
       /\ heap[me[t].head.ptr] = "used"
       /\ ~ InChain(me[t].head.ptr)
       /\ \A u \in Threads \ {t} :
            me[u].at = "delete" => me[u].head.ptr # me[t].head.ptr

(* Threads that keep running finish what they call, wherever the others    *)
(* have stopped: no step waits for another thread's step.                  *)
StalledThreadsDoNotBlock ==
  \A t \in Running : me[t].at # "idle" ~> me[t].at = "idle"

(* The successful CAS on next is where an enqueue takes effect: from then  *)
(* on its element is in the queue, until it is dequeued.                   *)
LinkIsLinearizationPoint ==
  [][\A t \in Threads :
       me[t].at = "link" /\ me'[t].at = "swing" =>
         chain'[Len(chain')] = me[t].node]_vars

(***************************************************************************)
(* The refinement mapping: an enqueue takes effect in Link, a dequeue that *)
(* returns true in AdvanceHead, one that returns false in DeqReadNext.     *)
(***************************************************************************)
AbstractCall(t) ==
  LET m == me[t] IN
  CASE m.at = "idle" -> [stage |-> "idle"]
    [] m.at \in {"enq", "enqNext", "enqCheck", "link", "enqHelp"} ->
         [stage |-> "enq", value |-> value[m.node]]
    [] m.at = "swing" -> [stage |-> "enqueued"]
    [] m.at = "deqCheck" -> [stage |-> "deq", sawEmpty |-> m.next.ptr = Null]
    [] m.at = "delete" -> [stage |-> "dequeued", value |-> m.value]
    [] OTHER -> [stage |-> "deq", sawEmpty |-> FALSE]

Fifo == INSTANCE FifoQueue WITH
          queue <- [k \in 1 .. Len(chain) - 1 |-> value[chain[k + 1]]],
          call  <- [t \in Threads |-> AbstractCall(t)]

(* MSQueue is a linearizable FIFO queue as long as no address is reused.   *)
LinearizableFifo == Fifo!Spec

=============================================================================
