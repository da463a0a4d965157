----------------------------- MODULE Timestamps -----------------------------
(***************************************************************************)
(* The timestamps the queues and their adapters take, and the records they *)
(* log: the raw material of the fairness metrics.  An element gets a time  *)
(* when its enqueue is called (enq_inv), one when it has entered the queue *)
(* (enq_lin), and its dequeuer takes two more (deq_inv, deq_lin).  There   *)
(* are four disciplines:                                                   *)
(*   "ms"   MSQueue: the dequeuer copies the element's times before it     *)
(*          claims it; a node is deleted by the next dequeuer;             *)
(*   "fc"   FlatCombiningQueue: the combiner takes enq_lin and deq_lin as  *)
(*          it applies the operation, under its lock;                      *)
(*   "faa"  FAAArrayQueueAdapter: deq_inv is taken first, the element's    *)
(*          times are copied after it has been taken;                      *)
(*   "rq"   PRQueueAdapter and CRQueueAdapter: as "faa", but deq_inv is    *)
(*          taken when the dequeue has returned.                           *)
(* The queue is an atomic FIFO queue, which is what the other modules show *)
(* of these queues.  An element is an object at an address, and its        *)
(* enqueuer writes its enq_lin when others may have taken and deleted it   *)
(* and new may have returned the address for another element.  A read of   *)
(* the time-stamp counter and the store of what it returned are one action *)
(* where no other thread can reach the variable stored into.               *)
(***************************************************************************)
EXTENDS Integers, Sequences

CONSTANTS
  Threads,
  Kinds,       (* which of the four disciplines                            *)
  MaxItems,    (* client bound: enqueues ever called                       *)
  MaxDequeues  (* client bound: dequeues ever called                       *)

ASSUME TimestampsAssumption ==
  /\ Kinds \subseteq {"ms", "fc", "faa", "rq"}
  /\ {MaxItems, MaxDequeues} \subseteq Nat

Items == 1 .. MaxItems   (* elements, numbered in the order of the calls   *)
Dummy == 0               (* MSQueue's first dummy node                     *)

VARIABLES
  kind,     (* the discipline of the queue in use                          *)
  clock,    (* the last time now() has returned                            *)
  queue,    (* the elements in the queue, oldest first                     *)
  dummy,    (* the last element claimed: MSQueue's dummy node              *)
  elem,     (* elem[e]: the fields of e; history: the time its own         *)
            (* enqueuer took for enq_lin (0: none yet), and who that was   *)
  addr,     (* addr[e]: the address of e, 0 before it is allocated         *)
  freed,    (* the elements deleted                                        *)
  me,       (* me[t]: where t is, its locals and its slot                  *)
  issued,   (* how many enqueues and dequeues have been called             *)
  called,
  logged    (* the records in the logs of the threads                      *)

vars ==
  <<kind, clock, queue, dummy, elem, addr, freed, me, issued, called, logged>>

NoTimes == [inv |-> 0, lin |-> 0, own |-> 0, from |-> {}]

Fresh == [at     |-> "idle",
          e      |-> Dummy,   (* the element enqueued or dequeued          *)
          old    |-> Dummy,   (* MSQueue's cur_head.ptr                    *)
          enq    |-> NoTimes, (* the element's times, as taken or copied   *)
          live   |-> TRUE,    (* history: was it undeleted when copied?    *)
          deqInv |-> 0,
          deqLin |-> 0]

Init ==
  /\ kind   \in Kinds
  /\ clock  = 0
  /\ queue  = <<>>
  /\ dummy  = Dummy
  /\ elem   = [e \in Items |-> NoTimes]
  /\ addr   = [e \in Items |-> 0]
  /\ freed  = {}
  /\ me     = [t \in Threads |-> Fresh]
  /\ issued = 0
  /\ called = 0
  /\ logged = {}

Now  == clock + 1
Tick == clock' = Now

Become(t, m) == me' = [me EXCEPT ![t] = m]

(* Of a slot, enq_inv_ts is still what the last operation left there. *)
Return(t) ==
  Become(t, [Fresh EXCEPT !.enq.inv = IF kind = "fc" THEN me[t].enq.inv ELSE 0])

----------------------------------------------------------------------------
(* enqueue *)

(* Fault: enq_inv_ts of a slot is set only if it is not set. *)
EnqInvKept(t) == IF me[t].enq.inv # 0 THEN me[t].enq.inv ELSE Now

EnqInv(t) == Now

(* What enq_lin holds at first: 0, where the constructor writes it; in an  *)
(* MSNode it is uninitialised, and may look unset or like an earlier time. *)
Unwritten == IF kind = "ms" THEN {0, clock} ELSE {0}

(* new returns an address for the element e, where no element is, but one  *)
(* may have been: only FlatCombiningQueue copies its elements and deletes  *)
(* none.  (With MSQueue, that the queue is still FIFO is an assumption: see*)
(* Reuse in MSQueue.)                                                      *)
Allocate(e, a) ==
  /\ \A x \in 1 .. issued : addr[x] = a => x \in freed
  /\ addr' = [addr EXCEPT ![e] = a]

CallEnqueue(t) ==
  LET e == issued + 1 IN
  /\ me[t].at = "idle"
  /\ e \in Items
  /\ issued' = e
  /\ Tick
  /\ \E a \in 1 .. e : Allocate(e, a)
  /\ \E lin \in Unwritten :
       elem' = [elem EXCEPT ![e] =
                  [inv |-> EnqInv(t), lin |-> lin, own |-> 0, from |-> {t}]]
  /\ Become(t, [me[t] EXCEPT !.at = IF kind = "fc" THEN "enqSlot" ELSE "insert",
                             !.e  = e,
                             !.enq.inv = EnqInv(t)])
  /\ UNCHANGED <<kind, queue, dummy, freed, called, logged>>

(* The enqueue takes effect ... *)
Insert(t) ==
  /\ me[t].at = "insert"
  /\ queue' = Append(queue, me[t].e)
  /\ Become(t, [me[t] EXCEPT !.at = "stamp"])
  /\ UNCHANGED <<kind, clock, dummy, elem, addr, freed, issued, called, logged>>

(* ... then its time is taken ... *)
Stamp(t) ==
  /\ me[t].at = "stamp"
  /\ Tick
  /\ elem' = [elem EXCEPT ![me[t].e].own = Now]
  /\ Become(t, [me[t] EXCEPT !.at = "store", !.enq.lin = Now])
  /\ UNCHANGED <<kind, queue, dummy, addr, freed, issued, called, logged>>

(* ... and stored at the element's address, whatever is there by then: it  *)
(* becomes the enq_lin of every element that has or had that address.      *)
Store(t) ==
  LET a == addr[me[t].e] IN
  /\ me[t].at = "store"
  /\ elem' = [x \in Items |->
                IF addr[x] = a THEN [elem[x] EXCEPT !.lin = me[t].enq.lin]
                ELSE elem[x]]
  /\ Return(t)
  /\ UNCHANGED <<kind, clock, queue, dummy, addr, freed, issued, called, logged>>

(* Fault: the combiner passes on the time of the call. *)
ServeEnqueueInv(t) ==
  LET e == me[t].e IN
  /\ me[t].at = "enqSlot"
  /\ Tick
  /\ elem'  = [elem EXCEPT ![e].lin = elem[e].inv, ![e].own = Now]
  /\ queue' = Append(queue, e)
  /\ Return(t)
  /\ UNCHANGED <<kind, dummy, addr, freed, issued, called, logged>>

(* A combiner applies the enqueue t has published. *)
ServeEnqueue(t) ==
  LET e == me[t].e IN
  /\ me[t].at = "enqSlot"
  /\ Tick
  /\ elem'  = [elem EXCEPT ![e].lin = Now, ![e].own = Now]
  /\ queue' = Append(queue, e)
  /\ Return(t)
  /\ UNCHANGED <<kind, dummy, addr, freed, issued, called, logged>>

----------------------------------------------------------------------------
(* dequeue *)

(* Fault: FAAArrayQueueAdapter mirrors the other two in this as well. *)
InvokedFirstNot == {"ms", "fc"}

(* Who takes deq_inv when the dequeue is called? *)
InvokedFirst == {"ms", "fc", "faa"}

(* Fault: nobody does. *)
CallDequeueUntimed(t) ==
  /\ me[t].at = "idle"
  /\ called < MaxDequeues
  /\ called' = called + 1
  /\ Become(t, [me[t] EXCEPT !.at = CASE kind = "ms" -> "find"
                                      [] kind = "fc" -> "deqSlot"
                                      [] OTHER       -> "take"])
  /\ UNCHANGED <<kind, clock, queue, dummy, elem, addr, freed, issued, logged>>

CallDequeue(t) ==
  LET first == kind \in InvokedFirst IN
  /\ me[t].at = "idle"
  /\ called < MaxDequeues
  /\ called' = called + 1
  /\ IF first THEN Tick ELSE UNCHANGED clock
  /\ Become(t, [me[t] EXCEPT !.at = CASE kind = "ms" -> "find"
                                      [] kind = "fc" -> "deqSlot"
                                      [] OTHER       -> "take",
                             !.deqInv = IF first THEN Now ELSE 0])
  /\ UNCHANGED <<kind, queue, dummy, elem, addr, freed, issued, logged>>

(* The queue is empty: nothing is logged. *)
Miss(t) ==
  /\ me[t].at \in {"find", "take", "deqSlot"}
  /\ queue = <<>>
  /\ Return(t)
  /\ UNCHANGED <<kind, clock, queue, dummy, elem, addr, freed, issued, called, logged>>

First == IF queue = <<>> THEN Dummy ELSE Head(queue)

(* MSQueue: a pointer to the first element is read, ... *)
Find(t) ==
  /\ me[t].at = "find"
  /\ queue # <<>>
  /\ Become(t, [me[t] EXCEPT !.at = "read", !.e = First])
  /\ UNCHANGED <<kind, clock, queue, dummy, elem, addr, freed, issued, called, logged>>

(* m with the times of element m.e copied.  What a deleted element holds   *)
(* does not matter: no record is made of it (LoggedTimesAreLive).          *)
Copied(m) == [m EXCEPT !.enq = elem[m.e], !.live = m.e \notin freed]

(* ... its times are copied, although it may be gone already, ... *)
Read(t) ==
  /\ me[t].at = "read"
  /\ Become(t, [Copied(me[t]) EXCEPT !.at = "claim"])
  /\ UNCHANGED <<kind, clock, queue, dummy, elem, addr, freed, issued, called, logged>>

(* Fault: head is stored, not compared first. *)
ClaimStored(t) ==
  /\ me[t].at = "claim"
  /\ queue' = IF queue = <<>> THEN queue ELSE Tail(queue)
  /\ dummy' = me[t].e
  /\ Become(t, [me[t] EXCEPT !.at = "deqLin", !.old = dummy])
  /\ UNCHANGED <<kind, clock, elem, addr, freed, issued, called, logged>>

(* ... and the CAS on head claims it, if it still is the first. *)
Claim(t) ==
  /\ me[t].at = "claim"
  /\ \/ /\ First = me[t].e
        /\ queue' = Tail(queue)
        /\ dummy' = me[t].e
        /\ Become(t, [me[t] EXCEPT !.at = "deqLin", !.old = dummy])
     \/ /\ First # me[t].e
        /\ Become(t, [Fresh EXCEPT !.at = "find", !.deqInv = me[t].deqInv])
        /\ UNCHANGED <<queue, dummy>>
  /\ UNCHANGED <<kind, clock, elem, addr, freed, issued, called, logged>>

(* The other queues: the dequeue takes effect. *)
Take(t) ==
  /\ me[t].at = "take"
  /\ queue # <<>>
  /\ queue' = Tail(queue)
  /\ Become(t, [me[t] EXCEPT !.at = "deqLin", !.e = Head(queue)])
  /\ UNCHANGED <<kind, clock, dummy, elem, addr, freed, issued, called, logged>>

DeqLin(t) ==
  /\ me[t].at = "deqLin"
  /\ Tick
  /\ Become(t, [me[t] EXCEPT
       !.at = IF kind \in InvokedFirst THEN "log" ELSE "deqInv",
       !.deqLin = Now])
  /\ UNCHANGED <<kind, queue, dummy, elem, addr, freed, issued, called, logged>>

(* current_deq_inv of PRQueueAdapter and CRQueueAdapter. *)
DeqInv(t) ==
  /\ me[t].at = "deqInv"
  /\ Tick
  /\ Become(t, [me[t] EXCEPT !.at = "log", !.deqInv = Now])
  /\ UNCHANGED <<kind, queue, dummy, elem, addr, freed, issued, called, logged>>

(* A combiner applies the dequeue t has published. *)
ServeDequeue(t) ==
  /\ me[t].at = "deqSlot"
  /\ queue # <<>>
  /\ Tick
  /\ queue' = Tail(queue)
  /\ Become(t, [Copied([me[t] EXCEPT !.e = Head(queue)]) EXCEPT
                  !.at = "log", !.deqLin = Now])
  /\ UNCHANGED <<kind, dummy, elem, addr, freed, issued, called, logged>>

(* The record goes to the log of the thread that dequeued. *)
Log(t) ==
  LET m == IF kind \in {"faa", "rq"} THEN Copied(me[t]) ELSE me[t] IN
  /\ me[t].at = "log"
  /\ logged' = logged \cup
       {[e |-> m.e, enqInv |-> m.enq.inv, enqLin |-> m.enq.lin,
         deqInv |-> m.deqInv, deqLin |-> m.deqLin,
         own |-> m.enq.own, from |-> m.enq.from, by |-> t, live |-> m.live]}
  /\ IF kind = "fc" THEN Return(t) ELSE Become(t, [me[t] EXCEPT !.at = "delete"])
  /\ UNCHANGED <<kind, clock, queue, dummy, elem, addr, freed, issued, called>>

(* MSQueue deletes the node before the one dequeued. *)
Delete(t) ==
  /\ me[t].at = "delete"
  /\ freed' = freed \cup {IF kind = "ms" THEN me[t].old ELSE me[t].e}
  /\ Return(t)
  /\ UNCHANGED <<kind, clock, queue, dummy, elem, addr, issued, called, logged>>

----------------------------------------------------------------------------
Next ==
  \E t \in Threads :
    \/ CallEnqueue(t)
    \/ Insert(t)
    \/ Stamp(t)
    \/ Store(t)
    \/ ServeEnqueue(t)
    \/ CallDequeue(t)
    \/ Miss(t)
    \/ Find(t)
    \/ Read(t)
    \/ Claim(t)
    \/ Take(t)
    \/ DeqLin(t)
    \/ DeqInv(t)
    \/ ServeDequeue(t)
    \/ Log(t)
    \/ Delete(t)

Spec == Init /\ [][Next]_vars

----------------------------------------------------------------------------
(* Properties.                                                             *)

(* Every variable keeps its type, no time is later than the clock, and a   *)
(* record has both of its dequeue times when it is logged.                 *)
TypeOK ==
  LET Times == 0 .. clock
      Stamps == [inv : Times, lin : Times, own : Times, from : SUBSET Threads]
  IN
  /\ kind  \in Kinds
  /\ queue \in Seq(Items)
  /\ elem  \in [Items -> Stamps]
  /\ addr  \in [Items -> 0 .. issued]
  /\ freed \subseteq Items \cup {Dummy}
  /\ \A t \in Threads :
       /\ {me[t].e, me[t].old, dummy} \subseteq Items \cup {Dummy}
       /\ me[t].enq \in Stamps
       /\ {me[t].deqInv, me[t].deqLin} \subseteq Times
       /\ me[t].at = "log" => 0 \notin {me[t].deqInv, me[t].deqLin}

(* Is the enq_lin of a record the time that its own enqueuer took?  It may *)
(* have been copied before it was written, or after the late enqueuer of an*)
(* earlier element had written its time to the same address.  What such a  *)
(* record says of its enqueue is wrong (StampsLiveElement, ZeroInSkipped). *)
Genuine(r) == r.own # 0 /\ r.enqLin = r.own

(* The records bear witness to the order of the queue: an element that was *)
(* in the queue before the enqueue of another was called is not seen to be *)
(* taken after it, if its enq_lin is genuine; that of the other need not be*)
(* This is what a dequeue time taken at the call is for; the records of    *)
(* PRQueueAdapter and CRQueueAdapter (LPRQueue.hpp:204) say nothing of the *)
(* kind, since both their dequeue times follow the dequeue.                *)
FifoInRecords ==
  kind # "rq" =>
    \A a, b \in logged :
      Genuine(a) /\ a.enqLin < b.enqInv => a.deqInv < b.deqLin

(* No thread's own operations overtake each other in the metrics: whenever *)
(* a later call took effect earlier, two threads were at work.  Enqueues   *)
(* whose enq_lin is not genuine are the exception; dequeues know none.     *)
OwnCallsInOrder ==
  \A a, b \in logged :
    /\ /\ a.from = b.from
       /\ Genuine(a) /\ Genuine(b)
       /\ a.enqInv < b.enqInv
       => a.enqLin < b.enqLin
    /\ a.by = b.by /\ a.deqInv < b.deqInv => a.deqLin < b.deqLin

(* The combiner's times are times of linearization: elements left in the   *)
(* order in which they entered, each time inside the call it is about.     *)
CombinerTimesLinearize ==
  kind = "fc" =>
    \A a \in logged :
      /\ a.enqInv < a.enqLin /\ a.enqLin < a.deqLin /\ a.deqInv < a.deqLin
      /\ \A b \in logged : a.enqLin < b.enqLin <=> a.deqLin < b.deqLin

(* A record is never made of the fields of a deleted element, although a   *)
(* dequeuer of MSQueue copies them before it knows that they are its own.  *)
LoggedTimesAreLive == \A r \in logged : r.live

(* The enqueuer writes enq_lin_ts of an element that still exists: it can  *)
(* "safely write item->enq_lin_ts" (FAAArrayQueue.hpp:99).                 *)
StampsLiveElement == \A t \in Threads : me[t].at = "store" => me[t].e \notin freed

(* The records that enqueue_fairness measures ... *)
Measured == {r \in logged : r.enqInv # 0}

(* ... are those with an enq_lin: a zero one is skipped                    *)
(* (FairnessLogger.cpp:23, "e.g., in_ts==0").                              *)
ZeroInSkipped == \A r \in Measured : r.enqLin # 0

=============================================================================
