--------------------------- MODULE FAAArrayQueue ---------------------------
(***************************************************************************)
(* FAAArrayQueue (include/FAAArrayQueue.hpp) over HazardPointers.          *)
(* An enqueuer draws a cell of the last segment by fetch-and-add on enqidx *)
(* and puts its item there by CAS; a dequeuer draws a cell of the first one*)
(* by fetch-and-add on deqidx and exchanges what it finds for taken.  A    *)
(* cell visited by its dequeuer first is lost to its enqueuer, who draws   *)
(* another.                                                                *)
(*                                                                         *)
(* One action is one access to shared memory.  Timestamps are the subject  *)
(* of Timestamps, the permutation remap that of CacheRemap.  The bounded   *)
(* wait for a slow enqueuer (4096 loads of the cell) only delays the       *)
(* exchange that follows it.                                               *)
(***************************************************************************)
EXTENDS SegmentList

CONSTANT BufferSize (* BUFFER_SIZE                                         *)

ASSUME FAAAssumption == BufferSize \in Nat \ {0}

VARIABLES enqidx, deqidx, cell (* fields of the segments                   *)

vars == <<list, enqidx, deqidx, cell, memory, me, history>>

(* An index beyond the buffer says no more than that: it stops growing. *)
Bump(n) == IF n > BufferSize THEN n ELSE n + 1

Cells == 0 .. (BufferSize - 1)

Init ==
  /\ InitList
  /\ enqidx = [s \in Segs |-> 0]
  /\ deqidx = [s \in Segs |-> 0]
  /\ cell   = [s \in Segs |-> [k \in Cells |-> NoItem]]

(* protect loads source until two loads in a row agree, and publishes what *)
(* it saw in between.                                                      *)
ProtectLoad(t, load, publish, done, source) ==
  /\ me[t].at = load
  /\ \/ me[t].seg = source /\ Goto(t, done)
     \/ /\ me[t].seg # source
        /\ Become(t, [me[t] EXCEPT !.at = publish, !.seg = source])
  /\ UNCHANGED <<list, enqidx, deqidx, cell, memory>>

Published(t, publish, load, k) ==
  Publish(t, publish, load, k) /\ UNCHANGED <<enqidx, deqidx, cell>>

----------------------------------------------------------------------------
(* enqueue *)

EnqProtectLoad(t)    == ProtectLoad(t, "enqLoad", "enqPublish", "enqDraw", tail)
EnqProtectPublish(t) == Published(t, "enqPublish", "enqLoad", kHpTail)

(* Fault: the comparison with BUFFER_SIZE - 1 is off by one. *)
WithinOneMore(n) == n <= BufferSize

Within(n) == n < BufferSize

EnqDraw(t) ==
  LET n == enqidx[me[t].seg] IN
  /\ me[t].at = "enqDraw"
  /\ enqidx' = [enqidx EXCEPT ![me[t].seg] = Bump(@)]
  /\ Become(t, [me[t] EXCEPT !.at = IF Within(n) THEN "enqCell" ELSE "enqFull",
                             !.idx = n])
  /\ UNCHANGED <<list, deqidx, cell, memory>>

(* The CAS that puts the item into its cell. *)
EnqCell(t) ==
  LET m == me[t] IN
  /\ m.at = "enqCell"
  /\ \/ /\ cell[m.seg][m.idx] = NoItem
        /\ cell' = [cell EXCEPT ![m.seg][m.idx] = m.item]
        /\ Goto(t, "enqClear")
     \/ /\ cell[m.seg][m.idx] # NoItem
        /\ Restart(t, "enqLoad")
        /\ UNCHANGED cell
  /\ UNCHANGED <<list, enqidx, deqidx, memory>>

(* The segment is full.  Is it still the last one? *)
EnqFull(t) ==
  /\ me[t].at = "enqFull"
  /\ \/ me[t].seg = tail /\ Goto(t, "enqNext")
     \/ me[t].seg # tail /\ Restart(t, "enqLoad")
  /\ UNCHANGED <<list, enqidx, deqidx, cell, memory>>

(* The segment made holds the item. *)
EnqNew(t) ==
  \E s \in Segs :
    /\ Allocate(s)
    /\ enqidx' = [enqidx EXCEPT ![s] = 1]
    /\ deqidx' = [deqidx EXCEPT ![s] = 0]
    /\ cell'   = [cell EXCEPT ![s] =
                    [k \in Cells |-> IF k = 0 THEN me[t].item ELSE NoItem]]
    /\ Become(t, [me[t] EXCEPT !.at = "enqLink", !.other = s])

(* next is loaded; if it is null, a segment is made. *)
EnqNext(t) ==
  LET n == next[me[t].seg] IN
  /\ me[t].at = "enqNext"
  /\ \/ /\ n # Null
        /\ Become(t, [me[t] EXCEPT !.at = "enqHelp", !.other = n])
        /\ UNCHANGED <<list, enqidx, deqidx, cell, memory>>
     \/ n = Null /\ EnqNew(t)

EnqHelp(t) ==
  /\ me[t].at = "enqHelp"
  /\ CasTail(t)
  /\ Restart(t, "enqLoad")
  /\ UNCHANGED <<head, next, enqidx, deqidx, cell, memory>>

(* casNext.  The loser forgets its segment without deleting it. *)
EnqLink(t) ==
  LET s == me[t].seg IN
  /\ me[t].at = "enqLink"
  /\ \/ /\ next[s] = Null
        /\ next' = [next EXCEPT ![s] = me[t].other]
        /\ Goto(t, "enqSwing")
     \/ next[s] # Null /\ Restart(t, "enqLoad") /\ UNCHANGED next
  /\ UNCHANGED <<head, tail, enqidx, deqidx, cell, memory>>

----------------------------------------------------------------------------
(* dequeue *)

(* Fault: head is not loaded again after it has been published. *)
DeqProtectPublishOnce(t) == Published(t, "deqPublish", "deqDraw", kHpHead)

DeqProtectLoad(t)    == ProtectLoad(t, "deqLoad", "deqPublish", "deqDraw", head)
DeqProtectPublish(t) == Published(t, "deqPublish", "deqLoad", kHpHead)

DeqDraw(t) ==
  LET n == deqidx[me[t].seg] IN
  /\ me[t].at = "deqDraw"
  /\ deqidx' = [deqidx EXCEPT ![me[t].seg] = Bump(@)]
  /\ Become(t, [me[t] EXCEPT !.at = IF n < BufferSize THEN "deqCell"
                                    ELSE "deqDrained",
                             !.idx = n, !.last = 0])
  /\ UNCHANGED <<list, enqidx, cell, memory>>

(* A drained segment without successor: the queue is empty. *)
DeqDrained(t) ==
  LET n == next[me[t].seg] IN
  /\ me[t].at = "deqDrained"
  /\ Become(t, [me[t] EXCEPT !.at = IF n = Null THEN "deqClear"
                                    ELSE "deqAdvance", !.other = n])
  /\ UNCHANGED <<list, enqidx, deqidx, cell, memory>>

(* Fault: head is stored, so that several threads retire the segment. *)
DeqAdvanceAlways(t) ==
  /\ me[t].at = "deqAdvance"
  /\ head' = me[t].other
  /\ HP!PushRetired(t, me[t].seg)
  /\ Restart(t, "retire")
  /\ UNCHANGED <<tail, next, enqidx, deqidx, cell, hp, heap, scan>>

(* casHead; the winner retires the drained segment.  lhead stays what it   *)
(* was, but is dead: protect starts from nullptr.                          *)
DeqAdvance(t) ==
  /\ me[t].at = "deqAdvance"
  /\ \/ CasHead(t) /\ Restart(t, "retire")
     \/ /\ head # me[t].seg
        /\ Restart(t, "deqLoad")
        /\ UNCHANGED <<head, retired>>
  /\ UNCHANGED <<tail, next, enqidx, deqidx, cell, hp, heap, scan>>

(* cell.val.exchange(taken) *)
DeqCell(t) ==
  LET m == me[t]
      v == cell[m.seg][m.idx]
  IN
  /\ m.at = "deqCell"
  /\ cell' = [cell EXCEPT ![m.seg][m.idx] = Taken]
  /\ Become(t, [m EXCEPT !.at = IF v = NoItem THEN "deqIndex" ELSE "deqClear",
                         !.item = v])
  /\ UNCHANGED <<list, enqidx, deqidx, memory>>

(* Fault: a cell without item is taken for an empty segment. *)
AheadNever(t) == FALSE

(* Is an enqueuer ahead of this cell? *)
Ahead(t) == me[t].idx + 1 < enqidx[me[t].seg]

(* Then the next cell is tried. *)
DeqIndex(t) ==
  /\ me[t].at = "deqIndex"
  /\ \/ Ahead(t) /\ Goto(t, "deqDraw")
     \/ /\ ~ Ahead(t)
        /\ Become(t, [me[t] EXCEPT !.at = "deqLast",
                                   !.last = enqidx[me[t].seg]])
  /\ UNCHANGED <<list, enqidx, deqidx, cell, memory>>

(* No: but the enqueuers may have moved to another segment. *)
DeqLast(t) ==
  /\ me[t].at = "deqLast"
  /\ Goto(t, IF next[me[t].seg] # Null THEN "deqDraw" ELSE "deqFix")
  /\ UNCHANGED <<list, enqidx, deqidx, cell, memory>>

(* The cells given up are not handed out to enqueuers any more. *)
DeqFix(t) ==
  LET m == me[t] IN
  /\ m.at = "deqFix"
  /\ enqidx' = [enqidx EXCEPT ![m.seg] = IF @ = m.last THEN m.idx + 1 ELSE @]
  /\ Goto(t, "deqClear")
  /\ UNCHANGED <<list, deqidx, cell, memory>>

----------------------------------------------------------------------------
(* The steps that leave the fields of the segments alone. *)
ListStep(t) ==
  /\ \/ EnqSwing(t)
     \/ EnqClear(t)
     \/ RetireStep(t)
     \/ RetireReturn(t, "deqLoad")
     \/ DeqClear(t)
  /\ UNCHANGED <<enqidx, deqidx, cell>>

Step(t) ==
  \/ ListStep(t)
  \/ EnqProtectLoad(t)
  \/ EnqProtectPublish(t)
  \/ EnqDraw(t)
  \/ EnqCell(t)
  \/ EnqFull(t)
  \/ EnqNext(t)
  \/ EnqHelp(t)
  \/ EnqLink(t)
  \/ DeqProtectLoad(t)
  \/ DeqProtectPublish(t)
  \/ DeqDraw(t)
  \/ DeqDrained(t)
  \/ DeqAdvance(t)
  \/ DeqCell(t)
  \/ DeqIndex(t)
  \/ DeqLast(t)
  \/ DeqFix(t)

Next ==
  \/ Call /\ UNCHANGED <<enqidx, deqidx, cell>>
  \/ \E t \in Threads : Step(t)

Spec == Init /\ [][Next]_vars

----------------------------------------------------------------------------
(* Properties.                                                             *)

(* Every variable keeps its type, and no cell is used beyond the buffer.   *)
TypeOK ==
  /\ ListTypeOK
  /\ enqidx \in [Segs -> 0 .. (BufferSize + 1)]
  /\ deqidx \in [Segs -> 0 .. (BufferSize + 1)]
  /\ cell   \in [Segs -> [Cells -> Items \cup {NoItem, Taken}]]
  /\ \A t \in Threads :
       me[t].at \in {"enqCell", "deqCell"} => me[t].idx \in Cells

(* No thread follows a pointer to a segment that has been deleted, and     *)
(* neither end of the queue refers to one, even though a segment can be    *)
(* retired while tail has yet to be swung past it.                         *)
NoUseAfterFree ==
  AliveWhere({"enqDraw", "enqCell", "enqNext", "enqLink", "deqDraw",
              "deqDrained", "deqCell", "deqIndex", "deqLast", "deqFix"})

=============================================================================
