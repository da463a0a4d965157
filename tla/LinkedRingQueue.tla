-------------------------- MODULE LinkedRingQueue --------------------------
(***************************************************************************)
(* LinkedRingQueue (include/LinkedRingQueue.hpp) over HazardPointers: the  *)
(* list of segments that makes LPRQueue, and LCRQueue, unbounded.  When the*)
(* last segment refuses an item, the enqueuer links a new one that holds   *)
(* it; when the first one is drained and has a successor, a dequeuer moves *)
(* head past it and retires it.                                            *)
(*                                                                         *)
(* A segment is taken for what MCRings shows PRQueue and CRQueue to be: a  *)
(* linearizable FIFO queue that may close, and whose first enqueue         *)
(* succeeds.  One action is one access to memory that threads share, or one*)
(* operation of a segment.                                                 *)
(***************************************************************************)
EXTENDS SegmentList

VARIABLES queue, closed (* the segments                                    *)

vars == <<list, queue, closed, memory, me, history>>

Init ==
  /\ InitList
  /\ queue  = [s \in Segs |-> <<>>]
  /\ closed = [s \in Segs |-> FALSE]

Load(t, here, there, source) ==
  /\ me[t].at = here
  /\ Become(t, [me[t] EXCEPT !.at = there, !.seg = source])
  /\ UNCHANGED <<list, queue, closed, memory>>

(* Is source still what has been published?  If not, that is published. *)
Recheck(t, here, publish, there, source) ==
  Load(t, here, IF source = me[t].seg THEN there ELSE publish, source)

(* next of the segment is loaded; null leads to none, a successor to some. *)
LoadNext(t, here, none, some) ==
  LET n == next[me[t].seg] IN
  /\ me[t].at = here
  /\ Become(t, [me[t] EXCEPT !.at = IF n = Null THEN none ELSE some,
                             !.other = n])
  /\ UNCHANGED <<list, queue, closed, memory>>

----------------------------------------------------------------------------
(* enqueue *)

EnqLoad(t)    == Load(t, "enqLoad", "enqPublish", tail)
EnqRecheck(t) == Recheck(t, "enqRecheck", "enqPublish", "enqNext", tail)

(* A segment that has a successor is not the last one. *)
EnqNext(t) == LoadNext(t, "enqNext", "enqSeg", "enqHelp")

(* The successor is published if the CAS on tail succeeds, else a new tail.*)
EnqHelp(t) ==
  LET m == me[t] IN
  /\ m.at = "enqHelp"
  /\ CasTail(t)
  /\ Become(t, [m EXCEPT
       !.at    = IF tail = m.seg THEN "enqPublish" ELSE "enqLoad",
       !.seg   = IF tail = m.seg THEN m.other ELSE Null,
       !.other = Null])
  /\ UNCHANGED <<head, next, queue, closed, memory>>

(* The segment takes the item; or it is closed, or closes now. *)
EnqSeg(t) ==
  LET s == me[t].seg IN
  /\ me[t].at = "enqSeg"
  /\ \/ /\ ~ closed[s]
        /\ queue' = [queue EXCEPT ![s] = Append(@, me[t].item)]
        /\ Goto(t, "enqClear")
        /\ UNCHANGED closed
     \/ /\ closed' = [closed EXCEPT ![s] = TRUE]
        /\ Goto(t, "enqNew")
        /\ UNCHANGED queue
  /\ UNCHANGED <<list, memory>>

(* A segment of our own, with the item in it. *)
EnqNew(t) ==
  /\ me[t].at = "enqNew"
  /\ \E s \in Segs :
       /\ Allocate(s)
       /\ queue'  = [queue EXCEPT ![s] = <<me[t].item>>]
       /\ closed' = [closed EXCEPT ![s] = FALSE]
       /\ Become(t, [me[t] EXCEPT !.at = "enqLink", !.other = s])

(* Fault: nullNode is taken for null after the CAS that failed. *)
WinnerForgotten(t) == Null

(* What the CAS on next that failed found there. *)
Winner(t) == next[me[t].seg]

(* The CAS on next.  The loser goes on with the winner's segment. *)
EnqLink(t) ==
  LET s == me[t].seg IN
  /\ me[t].at = "enqLink"
  /\ \/ /\ next[s] = Null
        /\ next' = [next EXCEPT ![s] = me[t].other]
        /\ Goto(t, "enqSwing")
     \/ /\ next[s] # Null
        /\ Become(t, [me[t] EXCEPT !.at = "enqDelete", !.seg = Winner(t)])
        /\ UNCHANGED next
  /\ UNCHANGED <<head, tail, queue, closed, memory>>

EnqDelete(t) ==
  /\ me[t].at = "enqDelete"
  /\ heap' = [heap EXCEPT ![me[t].other] = "freed"]
  /\ Become(t, [me[t] EXCEPT !.at = "enqPublish", !.other = Null])
  /\ UNCHANGED <<list, queue, closed, hp, retired, scan>>

----------------------------------------------------------------------------
(* dequeue *)

(* Fault: what has been published is not compared with head again. *)
DeqRecheckNot(t) ==
  Recheck(t, "deqRecheck", "deqPublish", "deqSeg", me[t].seg)

DeqLoad(t)    == Load(t, "deqLoad", "deqPublish", head)
DeqRecheck(t) == Recheck(t, "deqRecheck", "deqPublish", "deqSeg", head)

(* dequeue of the first segment, called at here; empty leads to there. *)
DequeueSegment(t, here, there) ==
  LET q == queue[me[t].seg] IN
  /\ me[t].at = here
  /\ \/ /\ q # <<>>
        /\ queue' = [queue EXCEPT ![me[t].seg] = Tail(q)]
        /\ Become(t, [me[t] EXCEPT !.at = "deqClear", !.item = Head(q)])
     \/ q = <<>> /\ Goto(t, there) /\ UNCHANGED queue
  /\ UNCHANGED <<list, closed, memory>>

DeqSeg(t) == DequeueSegment(t, "deqSeg", "deqNext")

(* Fault: the segment is given up as soon as it has a successor. *)
DeqNextOnce(t) == LoadNext(t, "deqNext", "deqClear", "deqAdvance")

(* No successor: the queue was empty.  Otherwise items may have come after *)
(* the first look at the segment, but none will come any more.             *)
DeqNext(t) == LoadNext(t, "deqNext", "deqClear", "deqAgain")

DeqAgain(t) == DequeueSegment(t, "deqAgain", "deqAdvance")

(* Fault: head is stored, so that several threads retire the segment. *)
DeqAdvanceAlways(t) ==
  /\ me[t].at = "deqAdvance"
  /\ head' = me[t].other
  /\ HP!PushRetired(t, me[t].seg)
  /\ Become(t, [Fresh EXCEPT !.at = "retire", !.seg = head'])
  /\ UNCHANGED <<tail, next, queue, closed, hp, heap, scan>>

(* The winner of the CAS on head retires the segment.  It goes on with the *)
(* successor, the loser with the head it has been told.                    *)
DeqAdvance(t) ==
  LET GoOn(there) == Become(t, [Fresh EXCEPT !.at = there, !.seg = head']) IN
  /\ me[t].at = "deqAdvance"
  /\ \/ CasHead(t) /\ GoOn("retire")
     \/ /\ head # me[t].seg
        /\ UNCHANGED <<head, retired>>
        /\ GoOn("deqPublish")
  /\ UNCHANGED <<tail, next, queue, closed, hp, heap, scan>>

----------------------------------------------------------------------------
(* The steps that leave the segments alone. *)
ListStep(t) ==
  /\ \/ Publish(t, "enqPublish", "enqRecheck", kHpTail)
     \/ EnqSwing(t)
     \/ EnqClear(t)
     \/ Publish(t, "deqPublish", "deqRecheck", kHpHead)
     \/ RetireStep(t)
     \/ RetireReturn(t, "deqPublish")
     \/ DeqClear(t)
  /\ UNCHANGED <<queue, closed>>

Step(t) ==
  \/ ListStep(t)
  \/ EnqLoad(t)
  \/ EnqRecheck(t)
  \/ EnqNext(t)
  \/ EnqHelp(t)
  \/ EnqSeg(t)
  \/ EnqNew(t)
  \/ EnqLink(t)
  \/ EnqDelete(t)
  \/ DeqLoad(t)
  \/ DeqRecheck(t)
  \/ DeqSeg(t)
  \/ DeqNext(t)
  \/ DeqAgain(t)
  \/ DeqAdvance(t)

Next ==
  \/ Call /\ UNCHANGED <<queue, closed>>
  \/ \E t \in Threads : Step(t)

Spec == Init /\ [][Next]_vars

----------------------------------------------------------------------------
(* Properties.                                                             *)

(* Every variable keeps its type, and a thread about to publish or follow a*)
(* pointer has one that is not null.                                       *)
TypeOK ==
  /\ ListTypeOK
  /\ queue  \in [Segs -> Seq(Items)]
  /\ closed \in [Segs -> BOOLEAN]
  /\ \A t \in Threads :
       me[t].at \notin {"idle", "enqLoad", "deqLoad"} => me[t].seg \in Segs

(* No thread follows a pointer to a segment that has been deleted, and     *)
(* neither end of the queue refers to one, even though the segment tail    *)
(* refers to may be retired before tail is swung.                          *)
NoUseAfterFree ==
  AliveWhere({"enqNext", "enqSeg", "enqNew", "enqLink", "deqSeg", "deqNext",
              "deqAgain"})

=============================================================================
