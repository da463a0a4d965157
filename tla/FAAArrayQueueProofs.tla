------------------------ MODULE FAAArrayQueueProofs ------------------------
(***************************************************************************)
(* FAAArrayQueue follows no pointer to a segment that has been deleted,    *)
(* retires every segment once, stays within the buffer, and hands out no   *)
(* cell to two dequeuers: every action of the queue is one of the steps    *)
(* that SegmentListProofs shows to keep the list's invariant.  And it is a *)
(* linearizable FIFO queue.  What it contains cannot be read off its cells:*)
(* a cell drawn by an enqueuer may be filled, or be passed by a dequeuer   *)
(* first.  So the invariant speaks of the queue that every outcome of the  *)
(* CASes still to come would give, and of the calls that go with it.       *)
(***************************************************************************)
EXTENDS FAAArrayQueue, SegmentListProofs

Enqueuing == {"enqLoad", "enqPublish", "enqDraw", "enqCell", "enqFull",
              "enqNext", "enqLink", "enqHelp"}
Indexing  == {"enqCell", "deqCell", "deqIndex", "deqLast", "deqFix"}

(* What the locals m hold where they are needed. *)
Local(m) == /\ m.at \in Enqueuing => m.item \in Items
            /\ m.at \in Indexing  => m.idx \in Cells
            /\ m.at = "retire"    => m.seg = Null

Contents ==
  /\ enqidx \in [Segs -> 0 .. (BufferSize + 1)]
  /\ deqidx \in [Segs -> 0 .. (BufferSize + 1)]
  /\ cell   \in [Segs -> [Cells -> Items \cup {NoItem, Taken}]]

(* t has drawn cell k of s, and is about to exchange what it holds. *)
Visits(t, s, k) == me[t].at = "deqCell" /\ me[t].seg = s /\ me[t].idx = k

(* No cell is exchanged twice: that is why no dequeuer finds taken.        *)
CellInv ==
  \A s \in Segs : \A k \in Cells :
    /\ cell[s][k] = Taken =>
         k < deqidx[s] /\ \A t \in Threads : ~ Visits(t, s, k)
    /\ \A t \in Threads : Visits(t, s, k) =>
         k < deqidx[s] /\ \A u \in Threads : Visits(u, s, k) => u = t

Inv == SegInv /\ Contents /\ CellInv /\ \A t \in Threads : Local(me[t])

LEMMA Bounds == /\ BufferSize \in Nat /\ BufferSize > 0
                /\ Cells = 0 .. (BufferSize - 1) /\ 0 \in Cells
                /\ Items = 1 .. MaxItems /\ MaxItems \in Nat
                /\ Taken \notin Items \cup {NoItem}
BY FAAAssumption, Sizes DEF Cells, Items, Taken, NoItem

LEMMA Mine ==
  ASSUME Inv, NEW t \in Threads
  PROVE  /\ me[t] \in Locals /\ me[t].at \in Places
         /\ {me[t].seg, me[t].other} \subseteq Segs \cup {Null}
         /\ me[t].item \in Items \cup {NoItem}
         /\ me[t].idx \in Nat /\ me[t].last \in Nat
         /\ OwnerInv(t) /\ HolderInv(t) /\ Local(me[t])
         /\ head \in Segs /\ tail \in Segs /\ next \in [Segs -> Segs \cup {Null}]
         /\ SegInv /\ Contents /\ CellInv
         /\ me[t].at \in Hold => me[t].seg \in Segs /\ heap[me[t].seg] = "used"
<1>1. me[t] \in Locals
  BY MyLocals DEF Inv
<1>2. me[t].idx \in Nat /\ me[t].last \in Nat
  BY <1>1 DEF Locals
<1> QED BY <1>1, <1>2, MyLocals DEF Inv, SegInv, Types, HolderInv

(* t is not about to exchange, and no cell becomes taken. *)
LEMMA Moves ==
  ASSUME Inv, NEW t \in Threads, NEW m \in Locals,
         me' = [me EXCEPT ![t] = m], Local(m), SegInv', Contents',
         m.at # "deqCell", deqidx' = deqidx,
         \A s \in Segs : \A k \in Cells :
           cell'[s][k] = Taken => cell[s][k] = Taken
  PROVE  Inv'
<1>1. /\ me'[t] = m
      /\ \A u \in Threads : u # t => me'[u] = me[u]
  BY MeFacts DEF Inv, SegInv
<1>2. \A u \in Threads : \A s, k : Visits(u, s, k)' => Visits(u, s, k)
  BY <1>1 DEF Visits
<1>3. CellInv'
  BY <1>2 DEF Inv, CellInv
<1> QED BY <1>1, <1>3 DEF Inv, Local

(* A step that leaves the list, the memory and the cells alone. *)
LEMMA Quiet ==
  ASSUME Inv, NEW t \in Threads, NEW m \in Locals,
         me' = [me EXCEPT ![t] = m],
         issued' = issued, list' = list, memory' = memory,
         Contents', m.at # "deqCell", deqidx' = deqidx,
         \A s \in Segs : \A k \in Cells :
           cell'[s][k] = Taken => cell[s][k] = Taken,
         me[t].at # "retire", m.at \notin Owning \cup {"retire"},
         m.at \in Hold =>
           \/ me[t].at \in Hold /\ m.seg = me[t].seg
              /\ SlotOf(m.at) = SlotOf(me[t].at)
           \/ hp[t][SlotOf(m.at)] = m.seg
              /\ m.seg = IF m.at \in HoldTail THEN tail ELSE head,
         Follows(m), Announces(t, m), Local(m)
  PROVE  Inv'
<1>1. SegInv /\ issued' \in 0 .. MaxItems
  BY DEF Inv, SegInv, Types
<1>2. SegInv'
  BY <1>1, StepQuiet
<1> QED BY <1>2, Moves

LEMMA CallStep ==
  ASSUME Inv, Call, UNCHANGED <<enqidx, deqidx, cell>>
  PROVE  Inv'
<1>1. Contents'
  BY DEF Inv, Contents
<1>2. ASSUME NEW t \in Enqueuers, CallEnqueue(t) PROVE Inv'
  <2>1. t \in Threads
    BY SegmentListAssumption DEF Threads
  <2>2. PICK m \in Locals : /\ me' = [me EXCEPT ![t] = m]
                            /\ m.at = "enqLoad" /\ m.item \in Items
    BY <1>2, <2>1, CallEnqueueSound DEF Inv
  <2>3. SegInv'
    BY <1>2, <2>1, CallEnqueueSound DEF Inv
  <2>4. Local(m)
    BY <2>2 DEF Local, Indexing
  <2> QED BY <1>1, <2>1, <2>2, <2>3, <2>4, Moves
<1>3. ASSUME NEW t \in Dequeuers, CallDequeue(t) PROVE Inv'
  <2>1. t \in Threads
    BY SegmentListAssumption DEF Threads
  <2>2. PICK m \in Locals : me' = [me EXCEPT ![t] = m] /\ m.at = "deqLoad"
    BY <1>3, <2>1, CallDequeueSound DEF Inv
  <2>3. SegInv'
    BY <1>3, <2>1, CallDequeueSound DEF Inv
  <2>4. Local(m)
    BY <2>2 DEF Local, Indexing, Enqueuing
  <2> QED BY <1>1, <2>1, <2>2, <2>3, <2>4, Moves
<1> QED BY <1>2, <1>3 DEF Call

LEMMA ListSteps == ASSUME Inv, NEW t \in Threads, ListStep(t) PROVE Inv'
<1>0. /\ Contents' /\ SegInv /\ Local(me[t])
      /\ Local(Fresh) /\ Fresh \in Locals /\ Fresh.at # "deqCell"
      /\ deqidx' = deqidx /\ cell' = cell
  BY FreshLocals DEF Inv, Contents, ListStep, Local, Fresh, Enqueuing, Indexing
<1>2. CASE EnqSwing(t)
  <2>1. SegInv' /\ me[t].at = "enqSwing"
    BY <1>0, <1>2, EnqSwingSound DEF EnqSwing
  <2>2. PICK m \in Locals : /\ me' = [me EXCEPT ![t] = m] /\ m.at = "enqClear"
                            /\ m.seg = me[t].seg
    BY <1>0, <1>2, EnqSwingSound
  <2>3. Local(m)
    BY <1>0, <2>1, <2>2 DEF Local, Enqueuing, Indexing
  <2> QED BY <1>0, <2>1, <2>2, <2>3, Moves
<1>3. CASE EnqClear(t)
  <2>1. SegInv' /\ me' = [me EXCEPT ![t] = Fresh]
    BY <1>0, <1>3, ClearSound DEF EnqClear, kHpTail
  <2> QED BY <1>0, <2>1, Moves
<1>5. CASE RetireStep(t)
  <2>1. SegInv' /\ me' = me
    BY <1>0, <1>5, RetireStepSound
  <2>2. CellInv'
    BY <2>1, <1>0 DEF Inv, CellInv, Visits
  <2> QED BY <1>0, <2>1, <2>2 DEF Inv
<1>6. CASE RetireReturn(t, "deqLoad")
  <2>0. me[t].at = "retire" /\ me[t].seg = Null
    BY <1>0, <1>6 DEF RetireReturn, Local
  <2>1. SegInv'
    BY <1>0, <1>6, <2>0, RetireReturnSound
  <2>2. PICK m \in Locals : /\ me' = [me EXCEPT ![t] = m] /\ m.at = "deqLoad"
                            /\ m.seg = me[t].seg
    BY <1>0, <1>6, <2>0, RetireReturnSound
  <2>3. Local(m)
    BY <2>2 DEF Local, Enqueuing, Indexing
  <2> QED BY <1>0, <2>1, <2>2, <2>3, Moves
<1>7. CASE DeqClear(t)
  <2>1. SegInv' /\ me' = [me EXCEPT ![t] = Fresh]
    BY <1>0, <1>7, ClearSound DEF DeqClear, kHpHead
  <2> QED BY <1>0, <2>1, Moves
<1> QED BY <1>2, <1>3, <1>5, <1>6, <1>7 DEF ListStep

(* The call starts over with another segment. *)
LEMMA Restarted ==
  ASSUME Inv, NEW t \in Threads, NEW there \in {"enqLoad", "deqLoad", "retire"},
         Restart(t, there), there = "enqLoad" => me[t].item \in Items
  PROVE  \E m \in Locals :
           /\ me' = [me EXCEPT ![t] = m] /\ issued' = issued
           /\ m.at = there /\ m.seg = Null /\ Local(m)
<1> DEFINE m == [Fresh EXCEPT !.at = there, !.item = me[t].item]
<1>1. me' = [me EXCEPT ![t] = m] /\ issued' = issued
  BY DEF Restart, Become, history
<1>2. m \in Locals
  BY FreshLocals, Mine DEF Locals, Places
<1>3. m.at = there /\ m.item = me[t].item
  BY FreshLocals DEF Locals
<1>4. m.seg = Null
  BY DEF Fresh
<1> HIDE DEF m
<1>5. Local(m)
  BY <1>3, <1>4 DEF Local, Enqueuing, Indexing
<1> QED BY <1>1, <1>2, <1>3, <1>4, <1>5

LEMMA RestartQuiet ==
  ASSUME Inv, NEW t \in Threads, NEW there \in {"enqLoad", "deqLoad"},
         Restart(t, there), there = "enqLoad" => me[t].item \in Items,
         list' = list, memory' = memory, me[t].at # "retire",
         enqidx' = enqidx, deqidx' = deqidx, cell' = cell
  PROVE  Inv'
<1>1. PICK m \in Locals :
        /\ me' = [me EXCEPT ![t] = m] /\ issued' = issued
        /\ m.at = there /\ m.seg = Null /\ Local(m)
  BY Restarted
<1>2. m.at \notin Hold \cup Owning \cup Advancing \cup {"retire", "deqCell"}
  BY <1>1 DEF Hold, HoldTail, HoldHead, Owning, Advancing
<1>3. Follows(m) /\ Announces(t, m) /\ Contents'
  BY <1>1, <1>2, Mine DEF Follows, Announces, Contents
<1> QED BY <1>1, <1>2, <1>3, Quiet

(* A place is changed, and nothing else of the locals; the segment is kept.*)
LEMMA Went ==
  ASSUME Inv, NEW t \in Threads, NEW there \in Places, Goto(t, there),
         list' = list, memory' = memory,
         Contents', deqidx' = deqidx,
         \A s \in Segs : \A k \in Cells :
           cell'[s][k] = Taken => cell[s][k] = Taken,
         there \notin Owning \cup Advancing \cup {"retire", "deqCell"},
         there \notin {"enqLoad", "deqLoad", "enqRecheck", "deqRecheck", "idle"},
         me[t].at # "retire",
         there \in Hold => me[t].at \in Hold /\ SlotOf(there) = SlotOf(me[t].at),
         there \in Enqueuing => me[t].at \in Enqueuing,
         there \in Indexing => me[t].at \in Indexing
  PROVE  Inv'
<1> DEFINE m == [me[t] EXCEPT !.at = there]
<1>1. me' = [me EXCEPT ![t] = m] /\ issued' = issued
  BY DEF Goto, Become, history
<1>2. m \in Locals
  BY Mine DEF Locals
<1>3. m.at = there /\ m.seg = me[t].seg /\ m.item = me[t].item /\ m.idx = me[t].idx
  BY Mine DEF Locals
<1> HIDE DEF m
<1>4. Local(m) /\ Follows(m) /\ Announces(t, m)
  BY <1>3, Mine DEF Local, Follows, Announces
<1> QED BY <1>1, <1>2, <1>3, <1>4, Quiet

----------------------------------------------------------------------------
(* enqueue *)

LEMMA EnqProtectLoadStep ==
  ASSUME Inv, NEW t \in Threads, EnqProtectLoad(t) PROVE Inv'
<1>0. /\ me[t].at = "enqLoad" /\ list' = list /\ memory' = memory
      /\ deqidx' = deqidx /\ cell' = cell /\ Contents'
  BY Mine DEF EnqProtectLoad, ProtectLoad, Contents
<1>i. me[t].item \in Items /\ tail \in Segs /\ tail # Null
  BY <1>0, Mine, Sizes DEF Local, Enqueuing
<1>1. CASE me[t].seg = tail /\ Goto(t, "enqDraw")
  <2> DEFINE m == [me[t] EXCEPT !.at = "enqDraw"]
  <2>1. me' = [me EXCEPT ![t] = m] /\ issued' = issued
    BY <1>1 DEF Goto, Become, history
  <2>2. m \in Locals
    BY Mine DEF Locals, Places, Hold, HoldTail
  <2>3. m.at = "enqDraw" /\ m.seg = me[t].seg /\ m.item = me[t].item
    BY Mine DEF Locals
  <2>4. hp[t][kHpTail] = me[t].seg
    BY <1>0, <1>1, <1>i, Mine DEF HolderInv, Announces
  <2> HIDE DEF m
  <2>5. m.at \in HoldTail /\ m.at \notin Owning \cup {"retire", "deqCell"} \cup Advancing
    BY <2>3 DEF HoldTail, Owning, Advancing
  <2>6. SlotOf(m.at) = kHpTail
    BY <2>5, SlotFact DEF kHpTail
  <2>7. Local(m) /\ Follows(m) /\ Announces(t, m)
    BY <2>3, <2>5, <1>i DEF Local, Indexing, Follows, Announces
  <2> QED BY <1>0, <1>1, <2>1, <2>2, <2>3, <2>4, <2>5, <2>6, <2>7, Quiet
<1>2. CASE Become(t, [me[t] EXCEPT !.at = "enqPublish", !.seg = tail])
  <2> DEFINE m == [me[t] EXCEPT !.at = "enqPublish", !.seg = tail]
  <2>1. me' = [me EXCEPT ![t] = m] /\ issued' = issued
    BY <1>2 DEF Become, history
  <2>2. m \in Locals
    BY Mine DEF Locals, Places
  <2>3. m.at = "enqPublish" /\ m.item = me[t].item
    BY Mine DEF Locals
  <2> HIDE DEF m
  <2>5. m.at \notin Hold \cup Owning \cup Advancing \cup {"retire", "deqCell"}
    BY <2>3 DEF Hold, HoldTail, HoldHead, Owning, Advancing
  <2>7. Local(m) /\ Follows(m) /\ Announces(t, m)
    BY <2>3, <2>5, <1>i DEF Local, Indexing, Follows, Announces
  <2> QED BY <1>0, <2>1, <2>2, <2>3, <2>5, <2>7, Quiet
<1> QED BY <1>1, <1>2 DEF EnqProtectLoad, ProtectLoad

LEMMA EnqProtectPublishStep ==
  ASSUME Inv, NEW t \in Threads, EnqProtectPublish(t) PROVE Inv'
<1>0. /\ Publish(t, "enqPublish", "enqLoad", kHpTail) /\ SegInv
      /\ deqidx' = deqidx /\ cell' = cell /\ Contents' /\ Local(me[t])
      /\ me[t].at = "enqPublish"
  BY Mine DEF EnqProtectPublish, Published, Contents, Publish
<1>1. PICK m \in Locals : /\ me' = [me EXCEPT ![t] = m] /\ m.at = "enqLoad"
                          /\ m.item = me[t].item
  BY <1>0, PublishSound
<1>2. SegInv'
  BY <1>0, PublishSound
<1>3. Local(m)
  BY <1>0, <1>1 DEF Local, Enqueuing, Indexing
<1> QED BY <1>0, <1>1, <1>2, <1>3, Moves

LEMMA EnqDrawStep == ASSUME Inv, NEW t \in Threads, EnqDraw(t) PROVE Inv'
<1> DEFINE s == me[t].seg
           n == enqidx[s]
           p == IF Within(n) THEN "enqCell" ELSE "enqFull"
           m == [me[t] EXCEPT !.at = p, !.idx = n]
<1>0. /\ me[t].at = "enqDraw" /\ list' = list /\ memory' = memory
      /\ enqidx' = [enqidx EXCEPT ![s] = Bump(n)]
      /\ deqidx' = deqidx /\ cell' = cell
      /\ me' = [me EXCEPT ![t] = m] /\ issued' = issued
  BY DEF EnqDraw, Become, history
<1>h. me[t].at \in Hold /\ me[t].at \in HoldTail
  BY <1>0 DEF Hold, HoldTail
<1>s. s \in Segs /\ n \in 0 .. (BufferSize + 1)
  BY <1>h, Mine DEF Contents
<1>n. n \in Nat /\ Bump(n) \in 0 .. (BufferSize + 1)
  BY <1>s, Bounds DEF Bump
<1>c. Contents'
  BY <1>0, <1>s, <1>n, Mine DEF Contents
<1>q. (p = "enqCell" /\ n \in Cells) \/ p = "enqFull"
  BY <1>s, Bounds DEF Within
<1>p. p \in Places
  BY DEF Places, Hold, HoldTail
<1> HIDE DEF p, n
<1>2. m \in Locals
  BY Mine, <1>p, <1>n DEF Locals
<1>3. m.at = p /\ m.seg = s /\ m.item = me[t].item /\ m.idx = n
  BY Mine DEF Locals
<1> HIDE DEF m
<1>4. /\ m.at \in HoldTail /\ m.at \notin Owning \cup {"retire", "deqCell"}
      /\ m.at \notin Advancing
  BY <1>3, <1>q DEF HoldTail, Owning, Advancing
<1>5. SlotOf(m.at) = SlotOf(me[t].at)
  BY <1>4, <1>h, SlotFact
<1>6. Local(m) /\ Follows(m) /\ Announces(t, m)
  BY <1>0, <1>3, <1>4, <1>q, Mine
  DEF Local, Indexing, Enqueuing, Follows, Announces
<1> QED BY <1>0, <1>c, <1>h, <1>2, <1>3, <1>4, <1>5, <1>6, Quiet

LEMMA EnqCellStep == ASSUME Inv, NEW t \in Threads, EnqCell(t) PROVE Inv'
<1>0. /\ me[t].at = "enqCell" /\ list' = list /\ memory' = memory
      /\ enqidx' = enqidx /\ deqidx' = deqidx
  BY DEF EnqCell
<1>i. me[t].item \in Items /\ me[t].idx \in Cells /\ me[t].seg \in Segs
  BY <1>0, Mine DEF Local, Enqueuing, Indexing, Hold, HoldTail
<1>1. CASE /\ cell' = [cell EXCEPT ![me[t].seg][me[t].idx] = me[t].item]
           /\ Goto(t, "enqClear")
  <2>1. cell' = [cell EXCEPT ![me[t].seg] =
                   [cell[me[t].seg] EXCEPT ![me[t].idx] = me[t].item]]
    BY <1>1
  <2>2. [cell[me[t].seg] EXCEPT ![me[t].idx] = me[t].item]
          \in [Cells -> Items \cup {NoItem, Taken}]
    BY <1>i, Mine DEF Contents
  <2>3. Contents'
    BY <1>0, <2>1, <2>2, Mine DEF Contents
  <2>4. \A s \in Segs : \A k \in Cells : cell'[s][k] = Taken => cell[s][k] = Taken
    BY <2>1, <1>i, Bounds, Mine DEF Contents
  <2>5. /\ "enqClear" \in Places
        /\ "enqClear" \notin Hold \cup Owning \cup Advancing \cup Enqueuing \cup Indexing
    BY DEF Places, Hold, HoldTail, HoldHead, Owning, Advancing, Enqueuing, Indexing
  <2> QED BY <1>0, <1>1, <2>3, <2>4, <2>5, Went
<1>2. CASE Restart(t, "enqLoad") /\ UNCHANGED cell
  BY <1>0, <1>2, <1>i, RestartQuiet
<1> QED BY <1>1, <1>2 DEF EnqCell

LEMMA EnqFullStep == ASSUME Inv, NEW t \in Threads, EnqFull(t) PROVE Inv'
<1>0. /\ me[t].at = "enqFull" /\ list' = list /\ memory' = memory
      /\ enqidx' = enqidx /\ deqidx' = deqidx /\ cell' = cell /\ Contents'
  BY Mine DEF EnqFull, Contents
<1>1. CASE Goto(t, "enqNext")
  <2>1. /\ "enqNext" \in Places /\ "enqNext" \in HoldTail /\ me[t].at \in HoldTail
        /\ me[t].at \in Hold /\ me[t].at \in Enqueuing
        /\ "enqNext" \notin Owning \cup Advancing \cup Indexing
    BY <1>0 DEF Places, Hold, HoldTail, Owning, Advancing, Enqueuing, Indexing
  <2>2. SlotOf("enqNext") = SlotOf(me[t].at)
    BY <2>1, SlotFact
  <2> QED BY <1>0, <1>1, <2>1, <2>2, Went
<1>2. CASE Restart(t, "enqLoad")
  <2>1. me[t].item \in Items
    BY <1>0, Mine DEF Local, Enqueuing
  <2> QED BY <1>0, <1>2, <2>1, RestartQuiet
<1> QED BY <1>1, <1>2 DEF EnqFull

LEMMA EnqNewStep ==
  ASSUME Inv, NEW t \in Threads, me[t].at = "enqNext", EnqNew(t)
  PROVE  Inv'
<1>0. PICK s \in Segs :
        /\ Allocate(s) /\ issued' = issued
        /\ enqidx' = [enqidx EXCEPT ![s] = 1]
        /\ deqidx' = [deqidx EXCEPT ![s] = 0]
        /\ cell'   = [cell EXCEPT ![s] =
                        [k \in Cells |-> IF k = 0 THEN me[t].item ELSE NoItem]]
        /\ me' = [me EXCEPT ![t] = [me[t] EXCEPT !.at = "enqLink", !.other = s]]
  BY DEF EnqNew, Become, history
<1> DEFINE m == [me[t] EXCEPT !.at = "enqLink", !.other = s]
<1>i. me[t].item \in Items
  BY Mine DEF Local, Enqueuing
<1>n. heap[s] # "used"
  BY <1>0 DEF Allocate, HP!MayAllocate
<1>c. Contents'
  <2>1. [k \in Cells |-> IF k = 0 THEN me[t].item ELSE NoItem]
          \in [Cells -> Items \cup {NoItem, Taken}]
    BY <1>i
  <2> QED BY <1>0, <2>1, Mine, Bounds DEF Contents
<1>1. m \in Locals
  BY Mine DEF Locals, Places, Hold, HoldTail
<1>2. m.at = "enqLink" /\ m.seg = me[t].seg /\ m.other = s /\ m.item = me[t].item
  BY Mine DEF Locals
<1>m. me' = [me EXCEPT ![t] = m]
  BY <1>0
<1> HIDE DEF m
<1>3. me[t].at \in HoldTail \ (Owning \cup Advancing)
  BY DEF HoldTail, Owning, Advancing
<1>4. Local(m)
  BY <1>2, <1>i DEF Local, Indexing
<1>5. SegInv'
  BY <1>0, <1>m, <1>1, <1>2, <1>3, Mine, StepAllocate
<1>6. /\ me'[t] = m
      /\ \A u \in Threads : u # t => me'[u] = me[u]
  BY <1>m, <1>1, MeFacts DEF Inv, SegInv
<1>7. \A u \in Threads : \A x, k : Visits(u, x, k)' => Visits(u, x, k) /\ x # s
  <2> SUFFICES ASSUME NEW u \in Threads, NEW x, NEW k, Visits(u, x, k)'
               PROVE  Visits(u, x, k) /\ x # s
    OBVIOUS
  <2>1. Visits(u, x, k)
    BY <1>2, <1>6 DEF Visits
  <2>2. heap[x] = "used"
    BY <2>1, Mine DEF Visits, Hold, HoldHead
  <2> QED BY <2>1, <2>2, <1>n
<1>8. CellInv'
  <2> SUFFICES ASSUME NEW x \in Segs, NEW k \in Cells
               PROVE  /\ cell'[x][k] = Taken =>
                           /\ k < deqidx'[x]
                           /\ \A u \in Threads : ~ Visits(u, x, k)'
                      /\ \A u \in Threads : Visits(u, x, k)' =>
                           /\ k < deqidx'[x]
                           /\ \A v \in Threads : Visits(v, x, k)' => v = u
    BY DEF CellInv
  <2>1. CASE x = s
    <3>1. cell'[x][k] # Taken
      BY <2>1, <1>0, <1>i, Bounds, Mine DEF Contents
    <3> QED BY <2>1, <3>1, <1>7
  <2>2. CASE x # s
    <3>1. cell'[x] = cell[x] /\ deqidx'[x] = deqidx[x]
      BY <2>2, <1>0, Mine DEF Contents
    <3> QED BY <3>1, <1>7, Mine DEF CellInv
  <2> QED BY <2>1, <2>2
<1> QED BY <1>c, <1>4, <1>5, <1>6, <1>8 DEF Inv, Local

LEMMA EnqNextStep == ASSUME Inv, NEW t \in Threads, EnqNext(t) PROVE Inv'
<1>1. CASE EnqNew(t)
  BY <1>1, EnqNewStep DEF EnqNext
<1>2. CASE /\ next[me[t].seg] # Null
           /\ Become(t, [me[t] EXCEPT !.at = "enqHelp", !.other = next[me[t].seg]])
           /\ UNCHANGED <<list, enqidx, deqidx, cell, memory>>
  <2> DEFINE n == next[me[t].seg]
             m == [me[t] EXCEPT !.at = "enqHelp", !.other = n]
  <2>0. /\ me[t].at = "enqNext" /\ me' = [me EXCEPT ![t] = m] /\ issued' = issued
        /\ list' = list /\ memory' = memory /\ cell' = cell
        /\ enqidx' = enqidx /\ deqidx' = deqidx /\ Contents'
    BY <1>2, Mine DEF EnqNext, Become, history, Contents
  <2>h. me[t].at \in HoldTail /\ me[t].at \in Hold
    BY <2>0 DEF Hold, HoldTail
  <2>n. n \in Segs \cup {Null} /\ n # Null
    BY <1>2, <2>h, Mine
  <2>1. m \in Locals
    BY Mine, <2>n DEF Locals, Places, Hold, HoldTail
  <2>2. m.at = "enqHelp" /\ m.seg = me[t].seg /\ m.other = n /\ m.item = me[t].item
    BY Mine DEF Locals
  <2> HIDE DEF m
  <2>3. m.at \in HoldTail /\ m.at \notin Owning \cup {"retire", "deqCell"}
    BY <2>2 DEF HoldTail, Owning
  <2>4. SlotOf(m.at) = SlotOf(me[t].at)
    BY <2>3, <2>h, SlotFact
  <2>5. Local(m) /\ Follows(m) /\ Announces(t, m)
    BY <2>0, <2>2, <2>n, Mine DEF Local, Enqueuing, Indexing, Follows, Announces
  <2> QED BY <2>0, <2>h, <2>1, <2>2, <2>3, <2>4, <2>5, Quiet
<1> QED BY <1>1, <1>2 DEF EnqNext

LEMMA EnqHelpStep == ASSUME Inv, NEW t \in Threads, EnqHelp(t) PROVE Inv'
<1>0. /\ me[t].at = "enqHelp" /\ CasTail(t) /\ head' = head /\ next' = next
      /\ memory' = memory /\ deqidx' = deqidx /\ cell' = cell /\ Contents'
      /\ Restart(t, "enqLoad")
  BY Mine DEF EnqHelp, Contents
<1>i. me[t].item \in Items
  BY <1>0, Mine DEF Local, Enqueuing
<1>1. PICK m \in Locals :
        /\ me' = [me EXCEPT ![t] = m] /\ issued' = issued
        /\ m.at = "enqLoad" /\ m.seg = Null /\ Local(m)
  BY <1>0, <1>i, Restarted
<1>2. /\ m.at \notin Hold \cup Owning \cup {"retire", "deqCell"}
      /\ me[t].at \in Advancing \cap HoldTail
  BY <1>0, <1>1 DEF Hold, HoldTail, HoldHead, Owning, Advancing
<1>3. Announces(t, m)
  BY <1>1 DEF Announces
<1>4. SegInv'
  BY <1>0, <1>1, <1>2, <1>3, Mine, StepCasTail
<1> QED BY <1>0, <1>1, <1>2, <1>4, Moves

LEMMA EnqLinkStep == ASSUME Inv, NEW t \in Threads, EnqLink(t) PROVE Inv'
<1>0. /\ me[t].at = "enqLink" /\ head' = head /\ tail' = tail
      /\ memory' = memory /\ enqidx' = enqidx /\ deqidx' = deqidx
      /\ cell' = cell /\ Contents'
  BY Mine DEF EnqLink, Contents
<1>i. me[t].item \in Items
  BY <1>0, Mine DEF Local, Enqueuing
<1>won. CASE /\ next[me[t].seg] = Null
             /\ next' = [next EXCEPT ![me[t].seg] = me[t].other]
             /\ Goto(t, "enqSwing")
  <2> DEFINE m == [me[t] EXCEPT !.at = "enqSwing"]
  <2>0. issued' = issued /\ me' = [me EXCEPT ![t] = m]
    BY <1>won DEF Goto, Become, history
  <2>1. SegInv'
    BY <1>won, <1>0, <2>0, Mine, StepLink
  <2>2. m \in Locals
    BY Mine DEF Locals, Places, Hold, HoldTail
  <2>3. m.at = "enqSwing"
    BY Mine DEF Locals
  <2>4. Local(m)
    BY <2>3 DEF Local, Enqueuing, Indexing
  <2> HIDE DEF m
  <2> QED BY <1>0, <2>0, <2>1, <2>2, <2>3, <2>4, Moves
<1>lost. CASE Restart(t, "enqLoad") /\ UNCHANGED next
  <2>1. list' = list
    BY <1>0, <1>lost DEF list
  <2> QED BY <1>0, <1>lost, <1>i, <2>1, RestartQuiet
<1> QED BY <1>won, <1>lost DEF EnqLink

----------------------------------------------------------------------------
(* dequeue *)

LEMMA DeqProtectLoadStep ==
  ASSUME Inv, NEW t \in Threads, DeqProtectLoad(t) PROVE Inv'
<1>0. /\ me[t].at = "deqLoad" /\ list' = list /\ memory' = memory
      /\ deqidx' = deqidx /\ cell' = cell /\ Contents'
  BY Mine DEF DeqProtectLoad, ProtectLoad, Contents
<1>i. head \in Segs /\ head # Null
  BY <1>0, Mine, Sizes
<1>1. CASE me[t].seg = head /\ Goto(t, "deqDraw")
  <2> DEFINE m == [me[t] EXCEPT !.at = "deqDraw"]
  <2>1. me' = [me EXCEPT ![t] = m] /\ issued' = issued
    BY <1>1 DEF Goto, Become, history
  <2>2. m \in Locals
    BY Mine DEF Locals, Places, Hold, HoldHead
  <2>3. m.at = "deqDraw" /\ m.seg = me[t].seg
    BY Mine DEF Locals
  <2>4. hp[t][kHpHead] = me[t].seg
    BY <1>0, <1>1, <1>i, Mine DEF HolderInv, Announces
  <2> HIDE DEF m
  <2>5. m.at \in HoldHead /\ m.at \notin Owning \cup {"retire", "deqCell"} \cup Advancing
    BY <2>3 DEF HoldHead, Owning, Advancing
  <2>6. SlotOf(m.at) = kHpHead /\ m.at \notin HoldTail
    BY <2>5, SlotFact DEF kHpHead
  <2>7. Local(m) /\ Follows(m) /\ Announces(t, m)
    BY <2>3, <2>5 DEF Local, Indexing, Enqueuing, Follows, Announces
  <2> QED BY <1>0, <1>1, <2>1, <2>2, <2>3, <2>4, <2>5, <2>6, <2>7, Quiet
<1>2. CASE Become(t, [me[t] EXCEPT !.at = "deqPublish", !.seg = head])
  <2> DEFINE m == [me[t] EXCEPT !.at = "deqPublish", !.seg = head]
  <2>1. me' = [me EXCEPT ![t] = m] /\ issued' = issued
    BY <1>2 DEF Become, history
  <2>2. m \in Locals
    BY Mine DEF Locals, Places
  <2>3. m.at = "deqPublish"
    BY Mine DEF Locals
  <2> HIDE DEF m
  <2>5. m.at \notin Hold \cup Owning \cup Advancing \cup {"retire", "deqCell"}
    BY <2>3 DEF Hold, HoldTail, HoldHead, Owning, Advancing
  <2>7. Local(m) /\ Follows(m) /\ Announces(t, m)
    BY <2>3, <2>5 DEF Local, Indexing, Enqueuing, Follows, Announces
  <2> QED BY <1>0, <2>1, <2>2, <2>3, <2>5, <2>7, Quiet
<1> QED BY <1>1, <1>2 DEF DeqProtectLoad, ProtectLoad

LEMMA DeqProtectPublishStep ==
  ASSUME Inv, NEW t \in Threads, DeqProtectPublish(t) PROVE Inv'
<1>0. /\ Publish(t, "deqPublish", "deqLoad", kHpHead) /\ SegInv
      /\ deqidx' = deqidx /\ cell' = cell /\ Contents'
  BY Mine DEF DeqProtectPublish, Published, Contents
<1>1. PICK m \in Locals : me' = [me EXCEPT ![t] = m] /\ m.at = "deqLoad"
  BY <1>0, PublishSound
<1>2. SegInv'
  BY <1>0, PublishSound
<1>3. Local(m)
  BY <1>1 DEF Local, Enqueuing, Indexing
<1> QED BY <1>0, <1>1, <1>2, <1>3, Moves

LEMMA DeqDrawStep == ASSUME Inv, NEW t \in Threads, DeqDraw(t) PROVE Inv'
<1> DEFINE s == me[t].seg
           n == deqidx[s]
           p == IF n < BufferSize THEN "deqCell" ELSE "deqDrained"
           m == [me[t] EXCEPT !.at = p, !.idx = n, !.last = 0]
<1>0. /\ me[t].at = "deqDraw" /\ list' = list /\ memory' = memory
      /\ deqidx' = [deqidx EXCEPT ![s] = Bump(n)]
      /\ enqidx' = enqidx /\ cell' = cell
      /\ me' = [me EXCEPT ![t] = m] /\ issued' = issued
  BY DEF DeqDraw, Become, history
<1>h. me[t].at \in Hold /\ me[t].at \in HoldHead
  BY <1>0 DEF Hold, HoldHead
<1>s. s \in Segs /\ n \in 0 .. (BufferSize + 1)
  BY <1>h, Mine DEF Contents
<1>n. /\ n \in Nat /\ Bump(n) \in 0 .. (BufferSize + 1) /\ n <= Bump(n)
      /\ n < BufferSize => Bump(n) = n + 1
  BY <1>s, Bounds DEF Bump
<1>c. Contents'
  BY <1>0, <1>s, <1>n, Mine DEF Contents
<1>q. (p = "deqCell" /\ n \in Cells /\ n < BufferSize) \/ p = "deqDrained"
  BY <1>s, Bounds
<1>p. p \in Places
  BY DEF Places, Hold, HoldHead
<1> HIDE DEF p, n
<1>2. m \in Locals
  BY Mine, <1>p, <1>n DEF Locals
<1>3. m.at = p /\ m.seg = s /\ m.idx = n
  BY Mine DEF Locals
<1> HIDE DEF m
<1>4. /\ m.at \in HoldHead /\ m.at \notin Owning \cup {"retire"}
      /\ m.at \notin Advancing
  BY <1>3, <1>q DEF HoldHead, Owning, Advancing
<1>5. SlotOf(m.at) = SlotOf(me[t].at)
  BY <1>4, <1>h, SlotFact
<1>6. Local(m) /\ Follows(m) /\ Announces(t, m)
  BY <1>0, <1>3, <1>4, <1>q, Mine
  DEF Local, Indexing, Enqueuing, Follows, Announces
<1>7. SegInv'
  <2>1. SegInv /\ issued' \in 0 .. MaxItems
    BY <1>0 DEF Inv, SegInv, Types
  <2> QED BY <2>1, <1>0, <1>h, <1>2, <1>3, <1>4, <1>5, <1>6, StepQuiet
<1>8. /\ me'[t] = m
      /\ \A u \in Threads : u # t => me'[u] = me[u]
  BY <1>0, <1>2, MeFacts DEF Inv, SegInv
<1>9. CellInv'
  <2> SUFFICES ASSUME NEW x \in Segs, NEW k \in Cells
               PROVE  /\ cell[x][k] = Taken =>
                           /\ k < deqidx'[x]
                           /\ \A u \in Threads : ~ Visits(u, x, k)'
                      /\ \A u \in Threads : Visits(u, x, k)' =>
                           /\ k < deqidx'[x]
                           /\ \A v \in Threads : Visits(v, x, k)' => v = u
    BY <1>0 DEF CellInv
  <2>1. \A u \in Threads : u # t => (Visits(u, x, k)' <=> Visits(u, x, k))
    BY <1>8 DEF Visits
  <2>2. Visits(t, x, k)' => x = s /\ k = n /\ n < BufferSize
    BY <1>8, <1>3, <1>q DEF Visits
  <2>3. k \in Int /\ deqidx[x] \in Int /\ deqidx'[x] \in Int /\ deqidx[x] <= deqidx'[x]
    BY <1>0, <1>s, <1>n, Bounds, Mine DEF Contents, n
  <2>4. x = s /\ k = n /\ n < BufferSize => k < deqidx'[x]
    BY <1>0, <1>s, <1>n, Mine DEF Contents
  <2>5. x = s /\ k = n => cell[x][k] # Taken /\ \A u \in Threads : ~ Visits(u, x, k)
    BY <2>3, Mine DEF CellInv, n
  <2>6. /\ cell[x][k] = Taken =>
             k < deqidx[x] /\ \A u \in Threads : ~ Visits(u, x, k)
        /\ \A u \in Threads : Visits(u, x, k) =>
             k < deqidx[x] /\ \A v \in Threads : Visits(v, x, k) => v = u
    BY Mine DEF CellInv
  <2> QED BY <2>1, <2>2, <2>3, <2>4, <2>5, <2>6
<1> QED BY <1>c, <1>6, <1>7, <1>8, <1>9 DEF Inv, Local

LEMMA DeqDrainedStep == ASSUME Inv, NEW t \in Threads, DeqDrained(t) PROVE Inv'
<1> DEFINE n == next[me[t].seg]
           p == IF n = Null THEN "deqClear" ELSE "deqAdvance"
           m == [me[t] EXCEPT !.at = p, !.other = n]
<1>0. /\ me[t].at = "deqDrained" /\ me' = [me EXCEPT ![t] = m]
      /\ issued' = issued /\ list' = list /\ memory' = memory
      /\ deqidx' = deqidx /\ cell' = cell /\ Contents'
  BY Mine DEF DeqDrained, Become, history, Contents
<1>h. me[t].at \in HoldHead /\ me[t].at \in Hold
  BY <1>0 DEF Hold, HoldHead
<1>p. p \in Places
  BY DEF Places, Hold, HoldHead
<1>q. p = "deqClear" \/ (p = "deqAdvance" /\ n # Null)
  OBVIOUS
<1>n. n \in Segs \cup {Null}
  BY <1>h, Mine
<1> HIDE DEF p
<1>1. m \in Locals
  BY Mine, <1>p, <1>n DEF Locals
<1>2. m.at = p /\ m.seg = me[t].seg /\ m.other = n
  BY Mine DEF Locals
<1> HIDE DEF m
<1>3. m.at \notin Owning \cup {"retire", "deqCell"} /\ me[t].at # "retire"
  BY <1>0, <1>2, <1>q DEF Owning
<1>4. m.at \in Hold => m.at \in HoldHead
  BY <1>2, <1>q DEF Hold, HoldHead, HoldTail
<1>5. m.at \in Hold => SlotOf(m.at) = SlotOf(me[t].at)
  BY <1>h, <1>4, SlotFact
<1>6. Local(m) /\ Follows(m) /\ Announces(t, m)
  BY <1>2, <1>q, <1>n
  DEF Local, Enqueuing, Indexing, Follows, Announces, Advancing
<1> QED BY <1>0, <1>h, <1>1, <1>2, <1>3, <1>5, <1>6, Quiet

LEMMA DeqAdvanceStep == ASSUME Inv, NEW t \in Threads, DeqAdvance(t) PROVE Inv'
<1>0. /\ me[t].at = "deqAdvance" /\ tail' = tail /\ next' = next
      /\ hp' = hp /\ heap' = heap /\ scan' = scan
      /\ enqidx' = enqidx /\ deqidx' = deqidx /\ cell' = cell /\ Contents'
  BY Mine DEF DeqAdvance, Contents
<1>won. CASE CasHead(t) /\ Restart(t, "retire")
  <2>1. PICK m \in Locals :
          /\ me' = [me EXCEPT ![t] = m] /\ issued' = issued
          /\ m.at = "retire" /\ m.seg = Null /\ Local(m)
    BY <1>won, Restarted
  <2>2. SegInv'
    BY <1>won, <1>0, <2>1, Mine, StepCasHead
  <2> QED BY <1>0, <2>1, <2>2, Moves
<1>lost. CASE Restart(t, "deqLoad") /\ UNCHANGED <<head, retired>>
  <2>1. list' = list /\ memory' = memory
    BY <1>0, <1>lost DEF list, memory
  <2> QED BY <1>0, <1>lost, <2>1, RestartQuiet
<1> QED BY <1>won, <1>lost DEF DeqAdvance

LEMMA DeqCellStep == ASSUME Inv, NEW t \in Threads, DeqCell(t) PROVE Inv'
<1> DEFINE s == me[t].seg
           i == me[t].idx
           v == cell[s][i]
           p == IF v = NoItem THEN "deqIndex" ELSE "deqClear"
           m == [me[t] EXCEPT !.at = p, !.item = v]
<1>0. /\ me[t].at = "deqCell" /\ list' = list /\ memory' = memory
      /\ cell' = [cell EXCEPT ![s][i] = Taken]
      /\ enqidx' = enqidx /\ deqidx' = deqidx
      /\ me' = [me EXCEPT ![t] = m] /\ issued' = issued
  BY DEF DeqCell, Become, history
<1>h. me[t].at \in Hold /\ me[t].at \in HoldHead
  BY <1>0 DEF Hold, HoldHead
<1>s. s \in Segs /\ i \in Cells
  BY <1>0, <1>h, Mine DEF Local, Indexing
<1>v. Visits(t, s, i) /\ v \in Items \cup {NoItem}
  <2>1. Visits(t, s, i)
    BY <1>0 DEF Visits
  <2>2. v # Taken
    BY <2>1, <1>s, Mine DEF CellInv
  <2> QED BY <2>1, <2>2, <1>s, Mine DEF Contents
<1>e. cell' = [cell EXCEPT ![s] = [cell[s] EXCEPT ![i] = Taken]]
  BY <1>0
<1>c. Contents'
  <2>1. [cell[s] EXCEPT ![i] = Taken] \in [Cells -> Items \cup {NoItem, Taken}]
    BY <1>s, Mine DEF Contents
  <2>2. cell' \in [Segs -> [Cells -> Items \cup {NoItem, Taken}]]
    BY <2>1, <1>e, <1>s, Mine DEF Contents
  <2>3. enqidx' = enqidx /\ deqidx' = deqidx
    BY <1>0
  <2> QED BY <2>2, <2>3, Mine DEF Contents
<1>p. p \in Places
  BY DEF Places, Hold, HoldHead
<1>q. p = "deqIndex" \/ p = "deqClear"
  OBVIOUS
<1> HIDE DEF p, v
<1>2. m \in Locals
  BY Mine, <1>p, <1>v DEF Locals
<1>3. m.at = p /\ m.seg = s /\ m.idx = i
  BY Mine DEF Locals
<1> HIDE DEF m
<1>4. m.at \notin Owning \cup {"retire", "deqCell"} \cup Advancing
  BY <1>3, <1>q DEF Owning, Advancing
<1>5. m.at \in Hold => m.at \in HoldHead
  BY <1>3, <1>q DEF Hold, HoldHead, HoldTail
<1>6. m.at \in Hold => SlotOf(m.at) = SlotOf(me[t].at)
  BY <1>h, <1>5, SlotFact
<1>7. Local(m) /\ Follows(m) /\ Announces(t, m)
  BY <1>3, <1>4, <1>q, <1>s
  DEF Local, Indexing, Enqueuing, Follows, Announces
<1>8. SegInv'
  <2>1. SegInv /\ issued' \in 0 .. MaxItems
    BY <1>0 DEF Inv, SegInv, Types
  <2> QED BY <2>1, <1>0, <1>h, <1>2, <1>3, <1>4, <1>6, <1>7, StepQuiet
<1>9. /\ me'[t] = m
      /\ \A u \in Threads : u # t => me'[u] = me[u]
  BY <1>0, <1>2, MeFacts DEF Inv, SegInv
<1>10. CellInv'
  <2> SUFFICES ASSUME NEW x \in Segs, NEW k \in Cells
               PROVE  /\ cell'[x][k] = Taken =>
                           /\ k < deqidx[x]
                           /\ \A u \in Threads : ~ Visits(u, x, k)'
                      /\ \A u \in Threads : Visits(u, x, k)' =>
                           /\ k < deqidx[x]
                           /\ \A w \in Threads : Visits(w, x, k)' => w = u
    BY <1>0 DEF CellInv
  <2>1. \A u \in Threads : Visits(u, x, k)' => Visits(u, x, k) /\ u # t
    BY <1>9, <1>4 DEF Visits
  <2>2. cell'[x][k] = Taken => cell[x][k] = Taken \/ (x = s /\ k = i)
    BY <1>e, <1>s, Mine DEF Contents
  <2>3. /\ cell[x][k] = Taken =>
             k < deqidx[x] /\ \A u \in Threads : ~ Visits(u, x, k)
        /\ \A u \in Threads : Visits(u, x, k) =>
             k < deqidx[x] /\ \A w \in Threads : Visits(w, x, k) => w = u
    BY Mine DEF CellInv
  <2>4. x = s /\ k = i => Visits(t, x, k)
    BY <1>v
  <2>5. cell'[x][k] = Taken =>
          k < deqidx[x] /\ \A u \in Threads : ~ Visits(u, x, k)'
    BY <2>1, <2>2, <2>3, <2>4
  <2> QED BY <2>1, <2>3, <2>5
<1> QED BY <1>c, <1>7, <1>8, <1>9, <1>10 DEF Inv, Local

LEMMA DeqIndexStep == ASSUME Inv, NEW t \in Threads, DeqIndex(t) PROVE Inv'
<1>0. /\ me[t].at = "deqIndex" /\ list' = list /\ memory' = memory
      /\ deqidx' = deqidx /\ cell' = cell /\ Contents'
  BY Mine DEF DeqIndex, Contents
<1>h. me[t].at \in HoldHead /\ me[t].at \in Hold /\ me[t].at \in Indexing
  BY <1>0 DEF Hold, HoldHead, Indexing
<1>1. CASE Goto(t, "deqDraw")
  <2>1. /\ "deqDraw" \in Places /\ "deqDraw" \in HoldHead
        /\ "deqDraw" \notin Owning \cup Advancing \cup Indexing \cup Enqueuing
    BY DEF Places, Hold, HoldHead, Owning, Advancing, Enqueuing, Indexing
  <2>2. SlotOf("deqDraw") = SlotOf(me[t].at)
    BY <2>1, <1>h, SlotFact
  <2> QED BY <1>0, <1>h, <1>1, <2>1, <2>2, Went
<1>2. CASE Become(t, [me[t] EXCEPT !.at = "deqLast", !.last = enqidx[me[t].seg]])
  <2> DEFINE l == enqidx[me[t].seg]
             m == [me[t] EXCEPT !.at = "deqLast", !.last = l]
  <2>0. me' = [me EXCEPT ![t] = m] /\ issued' = issued
    BY <1>2 DEF Become, history
  <2>l. l \in Nat
    BY <1>h, Mine, Bounds DEF Contents
  <2> HIDE DEF l
  <2>1. m \in Locals
    BY Mine, <2>l DEF Locals, Places, Hold, HoldHead
  <2>2. m.at = "deqLast" /\ m.seg = me[t].seg /\ m.idx = me[t].idx
    BY Mine DEF Locals
  <2> HIDE DEF m
  <2>3. /\ m.at \in HoldHead
        /\ m.at \notin Owning \cup Advancing \cup {"retire", "deqCell"}
    BY <2>2 DEF HoldHead, Owning, Advancing
  <2>4. SlotOf(m.at) = SlotOf(me[t].at)
    BY <2>3, <1>h, SlotFact
  <2>5. Local(m) /\ Follows(m) /\ Announces(t, m)
    BY <2>2, <2>3, <1>h, Mine DEF Local, Enqueuing, Follows, Announces
  <2> QED BY <1>0, <1>h, <2>0, <2>1, <2>2, <2>3, <2>4, <2>5, Quiet
<1> QED BY <1>1, <1>2 DEF DeqIndex

LEMMA DeqLastStep == ASSUME Inv, NEW t \in Threads, DeqLast(t) PROVE Inv'
<1> DEFINE p == IF next[me[t].seg] # Null THEN "deqDraw" ELSE "deqFix"
<1>0. /\ me[t].at = "deqLast" /\ list' = list /\ memory' = memory
      /\ deqidx' = deqidx /\ cell' = cell /\ Contents' /\ Goto(t, p)
  BY Mine DEF DeqLast, Contents
<1>h. me[t].at \in HoldHead /\ me[t].at \in Hold /\ me[t].at \in Indexing
  BY <1>0 DEF Hold, HoldHead, Indexing
<1>1. p \in {"deqDraw", "deqFix"}
  OBVIOUS
<1> HIDE DEF p
<1>2. /\ p \in Places /\ p \in HoldHead
      /\ p \notin Owning \cup Advancing \cup Enqueuing
      /\ p \notin {"retire", "deqCell", "enqLoad", "deqLoad", "enqRecheck",
                   "deqRecheck", "idle"}
  BY <1>1 DEF Places, Hold, HoldHead, Owning, Advancing, Enqueuing
<1>3. SlotOf(p) = SlotOf(me[t].at)
  BY <1>2, <1>h, SlotFact
<1> QED BY <1>0, <1>h, <1>2, <1>3, Went

LEMMA DeqFixStep == ASSUME Inv, NEW t \in Threads, DeqFix(t) PROVE Inv'
<1>0. /\ me[t].at = "deqFix" /\ list' = list /\ memory' = memory
      /\ deqidx' = deqidx /\ cell' = cell /\ Goto(t, "deqClear")
      /\ enqidx' = [enqidx EXCEPT ![me[t].seg] =
                      IF @ = me[t].last THEN me[t].idx + 1 ELSE @]
  BY DEF DeqFix
<1>1. me[t].idx \in Cells /\ me[t].seg \in Segs
  BY <1>0, Mine DEF Local, Indexing, Hold, HoldHead
<1>2. me[t].idx + 1 \in 0 .. (BufferSize + 1)
  BY <1>1, Bounds
<1>3. Contents'
  BY <1>0, <1>1, <1>2, Mine DEF Contents
<1>4. /\ "deqClear" \in Places
      /\ "deqClear" \notin Hold \cup Owning \cup Advancing \cup Enqueuing \cup Indexing
  BY DEF Places, Hold, HoldTail, HoldHead, Owning, Advancing, Enqueuing, Indexing
<1> QED BY <1>0, <1>3, <1>4, Went

----------------------------------------------------------------------------
(* The theorems. *)

LEMMA InvStarts == Init => Inv
<1> SUFFICES ASSUME Init PROVE Inv
  OBVIOUS
<1>1. SegInv
  BY StartsSound DEF Init
<1>2. Contents
  BY Bounds DEF Init, Contents
<1>3. \A t \in Threads : me[t] = Fresh
  BY DEF Init, InitList
<1>4. \A t \in Threads : Local(me[t])
  BY <1>3 DEF Local, Fresh, Enqueuing, Indexing
<1>5. \A t \in Threads : \A s, k : ~ Visits(t, s, k)
  BY <1>3 DEF Visits, Fresh
<1>6. \A s \in Segs : \A k \in Cells : cell[s][k] # Taken
  BY Bounds DEF Init
<1>7. CellInv
  BY <1>5, <1>6 DEF CellInv
<1> QED BY <1>1, <1>2, <1>4, <1>7 DEF Inv

LEMMA InvPreserved == Inv /\ [Next]_vars => Inv'
<1> SUFFICES ASSUME Inv, [Next]_vars PROVE Inv'
  OBVIOUS
<1>1. CASE UNCHANGED vars
  <2>1. /\ list' = list /\ memory' = memory /\ me' = me /\ issued' = issued
        /\ enqidx' = enqidx /\ deqidx' = deqidx /\ cell' = cell
    BY <1>1 DEF vars, history
  <2>2. SegInv'
    BY <2>1, SegInvKept DEF Inv
  <2> QED BY <2>1, <2>2 DEF Inv, Contents, CellInv, Visits
<1>2. CASE Call /\ UNCHANGED <<enqidx, deqidx, cell>>
  BY <1>2, CallStep
<1>3. ASSUME NEW t \in Threads, Step(t) PROVE Inv'
  BY <1>3, ListSteps, EnqProtectLoadStep, EnqProtectPublishStep, EnqDrawStep,
     EnqCellStep, EnqFullStep, EnqNextStep, EnqHelpStep, EnqLinkStep,
     DeqProtectLoadStep, DeqProtectPublishStep, DeqDrawStep, DeqDrainedStep,
     DeqAdvanceStep, DeqCellStep, DeqIndexStep, DeqLastStep, DeqFixStep
  DEF Step
<1> QED BY <1>1, <1>2, <1>3 DEF Next

(* The invariant of the list of segments, the hazard pointers, the scans   *)
(* and the cells holds throughout.                                         *)
THEOREM InvAlways == Spec => []Inv
BY InvStarts, InvPreserved, PTL DEF Spec

(* Every variable keeps its type and no cell is used beyond the buffer;    *)
(* what a dequeuer finds in its cell is an item or nothing, never taken    *)
(* (FAAArrayQueue.hpp, the exchange).                                      *)
THEOREM TypeCorrect == Spec => []TypeOK
<1>1. Inv => TypeOK
  <2> SUFFICES ASSUME Inv PROVE TypeOK
    OBVIOUS
  <2>1. ListTypeOK
    BY SoundList DEF Inv
  <2> QED BY <2>1 DEF Inv, Contents, Local, Indexing, TypeOK
<1> QED BY <1>1, InvAlways, PTL

(* No thread follows a pointer to a segment that has been deleted, and     *)
(* neither end of the queue refers to one, although FAAArrayQueue retires  *)
(* the segment that tail may still be at.                                  *)
THEOREM NothingUsedAfterFree == Spec => []NoUseAfterFree
<1>1. Inv => NoUseAfterFree
  BY SoundList DEF Inv, NoUseAfterFree, Hold, HoldTail, HoldHead
<1> QED BY <1>1, InvAlways, PTL

(* A segment is retired by the one thread that moves head past it, and is  *)
(* in one place of one retired list until it is deleted.                   *)
THEOREM RetiredByOne == Spec => []RetiredOnce
<1>1. Inv => RetiredOnce
  BY SoundList DEF Inv
<1> QED BY <1>1, InvAlways, PTL

(* A cell is exchanged for taken by one dequeuer only: the fetch-and-add on*)
(* deqidx, and the allocator that hands out no segment in use, see to it.  *)
THEOREM CellsTakenOnce == Spec => []CellInv
<1>1. Inv => CellInv
  BY DEF Inv
<1> QED BY <1>1, InvAlways, PTL

----------------------------------------------------------------------------
(* Linearizability.  A cell handed to an enqueuer counts as full from then *)
(* on if the enqueuer is going to fill it, and a dequeuer has taken an item*)
(* as soon as both have drawn its cell.                                    *)

Puts(u, s, k) == me[u].at = "enqCell" /\ me[u].seg = s /\ me[u].idx = k

(* The cells, when some of the enqueuers about to fill theirs have done so.*)
Foreseen ==
  {C \in [Segs -> [Cells -> Items \cup {NoItem, Taken}]] :
     \A s \in Segs : \A k \in Cells :
       \/ C[s][k] = cell[s][k]
       \/ /\ cell[s][k] = NoItem
          /\ \E u \in Threads : Puts(u, s, k) /\ C[s][k] = me[u].item}

At(C, p) == C[p[1]][p[2]]

(* The cell after p. *)
Beyond(p) == IF p[2] + 1 < BufferSize THEN <<p[1], p[2] + 1>> ELSE <<next[p[1]], 0>>

(* The cell the next dequeuer draws. *)
Front == IF deqidx[head] < BufferSize THEN <<head, deqidx[head]>>
         ELSE <<next[head], 0>>

(* W are the cells that enqueuers have drawn and dequeuers have not. *)
Awaits(W) ==
  /\ W \in Seq(Segs \X Cells)
  /\ \A j \in 1 .. Len(W) : deqidx[W[j][1]] <= W[j][2] /\ W[j][2] < enqidx[W[j][1]]
  /\ \A j \in 1 .. (Len(W) - 1) : W[j + 1] = Beyond(W[j])
  /\ IF W = <<>>
     THEN /\ next[head] = Null
          /\ deqidx[head] >= BufferSize \/ deqidx[head] >= enqidx[head]
          /\ tail = head \/ next[tail] = head
     ELSE LET e == W[Len(W)] IN
          /\ W[1] = Front
          /\ next[e[1]] = Null
          /\ e[2] + 1 >= BufferSize \/ e[2] + 1 >= enqidx[e[1]]
          /\ tail = e[1] \/ next[tail] = e[1]

(* The items of the cells W are those of Q. *)
Picks(W, C, Q) ==
  \E f \in [1 .. Len(Q) -> 1 .. Len(W)] :
    /\ \A i, j \in 1 .. Len(Q) : i < j => f[i] < f[j]
    /\ \A i \in 1 .. Len(Q) : Q[i] = At(C, W[f[i]])
    /\ \A j \in 1 .. Len(W) :
         At(C, W[j]) \in Items <=> \E i \in 1 .. Len(Q) : f[i] = j

(* A dequeuer that has seen no enqueuer ahead, and has not yet looked      *)
(* whether its segment is the last. *)
Maybe == {t \in Threads : me[t].at = "deqLast" /\ next[me[t].seg] = Null}

Over == {"enqSwing", "enqClear"}

(* What the call of u has come to when its locals are m, the cells will be *)
(* C, and the dequeuers in S have found the queue empty.                   *)
Status(u, m, C, S) ==
  IF m.at = "idle" THEN Monitor!NoCall
  ELSE IF m.at = "enqCell" /\ C[m.seg][m.idx] = m.item THEN Monitor!Done(NoItem)
  ELSE IF m.at \in Enqueuing THEN Monitor!EnqCall(m.item)
  ELSE IF m.at \in Over THEN Monitor!Done(NoItem)
  ELSE IF m.at = "deqCell" /\ C[m.seg][m.idx] \in Items
       THEN Monitor!Done(C[m.seg][m.idx])
  ELSE IF m.at = "deqClear" THEN Monitor!Done(m.item)
  ELSE IF m.at = "deqFix" \/ u \in S THEN Monitor!Done(NoItem)
  ELSE Monitor!DeqCall

Calling(C, S) == [u \in Threads |-> Status(u, me[u], C, S)]

Explains(W) ==
  \A C \in Foreseen : \A S \in SUBSET Maybe :
    \E Q \in Seq(Items) : Picks(W, C, Q) /\ Reaches(configs, Conf(Q, Calling(C, S)))

(* What the locals m hold where they are needed: an enqueuer leaves only a *)
(* full segment, and a dequeuer is at the first one or at one drained. *)
Found(m) ==
  /\ m.at = "enqCell" => /\ m.idx < enqidx[m.seg]
                         /\ cell[m.seg][m.idx] \in {NoItem, Taken}
  /\ m.at \in {"enqFull", "enqNext", "enqLink"} => enqidx[m.seg] >= BufferSize
  /\ m.at = "enqLink" => /\ enqidx[m.other] = 1 /\ deqidx[m.other] = 0
                         /\ cell[m.other][0] = m.item
  /\ m.at \in HoldHead =>
       m.seg = head \/ (next[m.seg] # Null /\ deqidx[m.seg] >= BufferSize)
  /\ m.at \in {"deqDrained", "deqAdvance"} => deqidx[m.seg] >= BufferSize
  /\ m.at \in {"deqIndex", "deqLast", "deqFix"} => m.idx < deqidx[m.seg]
  /\ m.at \in {"deqLast", "deqFix"} => m.last <= m.idx + 1
  /\ m.at = "deqLast" /\ next[m.seg] = Null => m.seg = head
  /\ m.at \notin Enqueuing \cup Over \cup {"deqClear"} => m.item = NoItem

(* No cell is handed to two enqueuers, and the cell an enqueuer has yet to *)
(* draw holds no item; one that a dequeuer has drawn is taken, or about to *)
(* be.                                                                     *)
FoundInv ==
  /\ \A s \in Segs : next[s] # Null => enqidx[s] >= BufferSize
  /\ \A s \in Segs : \A k \in Cells :
       /\ k >= enqidx[s] => cell[s][k] \in {NoItem, Taken}
       /\ k < deqidx[s] => cell[s][k] = Taken \/ \E t \in Threads : Visits(t, s, k)
       /\ \A u, v \in Threads : Puts(u, s, k) /\ Puts(v, s, k) => u = v
  /\ \A t \in Threads : Found(me[t])

LinInv ==
  /\ FoundInv
  /\ configs \subseteq Confs
  /\ \E W : Awaits(W) /\ Explains(W)

----------------------------------------------------------------------------
(* The items of some cells. *)

LEMMA PicksSame ==
  ASSUME NEW W, NEW C, NEW D, NEW Q, Picks(W, C, Q),
         \A j \in 1 .. Len(W) : At(D, W[j]) = At(C, W[j])
  PROVE  Picks(W, D, Q)
<1>1. PICK f \in [1 .. Len(Q) -> 1 .. Len(W)] :
        /\ \A i, j \in 1 .. Len(Q) : i < j => f[i] < f[j]
        /\ \A i \in 1 .. Len(Q) : Q[i] = At(C, W[f[i]])
        /\ \A j \in 1 .. Len(W) :
             At(C, W[j]) \in Items <=> \E i \in 1 .. Len(Q) : f[i] = j
  BY DEF Picks
<1>2. \A i \in 1 .. Len(Q) : Q[i] = At(D, W[f[i]])
  BY <1>1
<1>3. \A j \in 1 .. Len(W) :
        At(D, W[j]) \in Items <=> \E i \in 1 .. Len(Q) : f[i] = j
  BY <1>1
<1> QED BY <1>1, <1>2, <1>3 DEF Picks

LEMMA PicksNone ==
  ASSUME NEW C
  PROVE  /\ Picks(<<>>, C, <<>>)
         /\ \A Q \in Seq(Items) : Picks(<<>>, C, Q) => Q = <<>>
<1>1. Picks(<<>>, C, <<>>)
  <2> DEFINE f == [i \in 1 .. 0 |-> 1]
  <2>1. f \in [1 .. Len(<<>>) -> 1 .. Len(<<>>)]
    OBVIOUS
  <2>2. 1 .. Len(<<>>) = {}
    OBVIOUS
  <2> HIDE DEF f
  <2> QED BY <2>1, <2>2 DEF Picks
<1>2. ASSUME NEW Q \in Seq(Items), Picks(<<>>, C, Q) PROVE Q = <<>>
  <2>1. PICK f \in [1 .. Len(Q) -> 1 .. Len(<<>>)] : TRUE
    BY <1>2 DEF Picks
  <2>2. Len(Q) \in Nat /\ 1 .. Len(<<>>) = {}
    OBVIOUS
  <2>3. 1 \notin 1 .. Len(Q)
    BY <2>1, <2>2
  <2>4. Len(Q) = 0
    BY <2>2, <2>3
  <2> QED BY <2>4
<1> QED BY <1>1, <1>2

(* A cell is drawn that will be full. *)
LEMMA PicksPut ==
  ASSUME NEW W \in Seq(Segs \X Cells), NEW C, NEW Q \in Seq(Items),
         Picks(W, C, Q), NEW p \in Segs \X Cells, NEW x \in Items, At(C, p) = x
  PROVE  Picks(Append(W, p), C, Append(Q, x))
<1>1. PICK f \in [1 .. Len(Q) -> 1 .. Len(W)] :
        /\ \A i, j \in 1 .. Len(Q) : i < j => f[i] < f[j]
        /\ \A i \in 1 .. Len(Q) : Q[i] = At(C, W[f[i]])
        /\ \A j \in 1 .. Len(W) :
             At(C, W[j]) \in Items <=> \E i \in 1 .. Len(Q) : f[i] = j
  BY DEF Picks
<1> DEFINE W1 == Append(W, p)
           Q1 == Append(Q, x)
           g  == [i \in 1 .. (Len(Q) + 1) |-> IF i = Len(Q) + 1 THEN Len(W) + 1 ELSE f[i]]
<1>2. /\ Len(Q) \in Nat /\ Len(W) \in Nat /\ Len(Q1) = Len(Q) + 1
      /\ Len(W1) = Len(W) + 1
      /\ \A i \in 1 .. Len(Q) : Q1[i] = Q[i]
      /\ \A i \in 1 .. Len(W) : W1[i] = W[i]
      /\ Q1[Len(Q) + 1] = x /\ W1[Len(W) + 1] = p
  OBVIOUS
<1> HIDE DEF W1, Q1
<1>3. g \in [1 .. Len(Q1) -> 1 .. Len(W1)]
  <2>1. \A i \in 1 .. (Len(Q) + 1) :
          (IF i = Len(Q) + 1 THEN Len(W) + 1 ELSE f[i]) \in 1 .. (Len(W) + 1)
    <3>1. \A i \in 1 .. (Len(Q) + 1) : i = Len(Q) + 1 \/ i \in 1 .. Len(Q)
      BY <1>2
    <3>2. \A i \in 1 .. Len(Q) : f[i] \in 1 .. (Len(W) + 1)
      BY <1>1, <1>2
    <3>3. Len(W) + 1 \in 1 .. (Len(W) + 1)
      BY <1>2
    <3> QED BY <3>1, <3>2, <3>3
  <2> QED BY <1>2, <2>1
<1>4. /\ g[Len(Q) + 1] = Len(W) + 1
      /\ \A i \in 1 .. Len(Q) : g[i] = f[i] /\ g[i] \in 1 .. Len(W)
      /\ \A i \in 1 .. Len(Q1) : i = Len(Q) + 1 \/ i \in 1 .. Len(Q)
      /\ \A i \in 1 .. Len(W1) : i = Len(W) + 1 \/ i \in 1 .. Len(W)
  <2>1. g[Len(Q) + 1] = Len(W) + 1
    BY <1>2
  <2>2. \A i \in 1 .. Len(Q) : g[i] = f[i]
    BY <1>2
  <2>3. \A i \in 1 .. Len(Q) : f[i] \in 1 .. Len(W)
    BY <1>1
  <2>4. /\ \A i \in 1 .. Len(Q1) : i = Len(Q) + 1 \/ i \in 1 .. Len(Q)
        /\ \A i \in 1 .. Len(W1) : i = Len(W) + 1 \/ i \in 1 .. Len(W)
    BY <1>2
  <2> HIDE DEF g
  <2> QED BY <2>1, <2>2, <2>3, <2>4
<1> HIDE DEF g
<1>5. ASSUME NEW i \in 1 .. Len(Q1), NEW j \in 1 .. Len(Q1), i < j
      PROVE  g[i] < g[j]
  <2>1. i \in 1 .. Len(Q)
    BY <1>2, <1>5
  <2>2. CASE j \in 1 .. Len(Q)
    BY <1>1, <1>4, <1>5, <2>1, <2>2
  <2>3. CASE j = Len(Q) + 1
    BY <1>2, <1>4, <2>1, <2>3
  <2> QED BY <1>4, <2>2, <2>3
<1>6. ASSUME NEW i \in 1 .. Len(Q1) PROVE Q1[i] = At(C, W1[g[i]])
  BY <1>1, <1>2, <1>4
<1>7. ASSUME NEW j \in 1 .. Len(W1)
      PROVE  At(C, W1[j]) \in Items <=> \E i \in 1 .. Len(Q1) : g[i] = j
  <2>1. CASE j = Len(W) + 1
    <3>1. Len(Q) + 1 \in 1 .. Len(Q1)
      BY <1>2
    <3> QED BY <1>2, <1>4, <2>1, <3>1
  <2>2. CASE j \in 1 .. Len(W)
    <3>1. j # Len(W) + 1 /\ W1[j] = W[j]
      BY <1>2, <2>2
    <3>2. (\E i \in 1 .. Len(Q1) : g[i] = j) <=> \E i \in 1 .. Len(Q) : f[i] = j
      <4>1. \A i \in 1 .. Len(Q) : i \in 1 .. Len(Q1)
        BY <1>2
      <4> QED BY <1>4, <3>1, <4>1
    <3> QED BY <1>1, <2>2, <3>1, <3>2
  <2> QED BY <1>4, <2>1, <2>2
<1>8. Picks(W1, C, Q1)
  BY <1>3, <1>5, <1>6, <1>7 DEF Picks
<1> QED BY <1>8 DEF W1, Q1

(* A cell is drawn that will not be. *)
LEMMA PicksSkip ==
  ASSUME NEW W \in Seq(Segs \X Cells), NEW C, NEW Q \in Seq(Items),
         Picks(W, C, Q), NEW p \in Segs \X Cells, At(C, p) \notin Items
  PROVE  Picks(Append(W, p), C, Q)
<1>1. PICK f \in [1 .. Len(Q) -> 1 .. Len(W)] :
        /\ \A i, j \in 1 .. Len(Q) : i < j => f[i] < f[j]
        /\ \A i \in 1 .. Len(Q) : Q[i] = At(C, W[f[i]])
        /\ \A j \in 1 .. Len(W) :
             At(C, W[j]) \in Items <=> \E i \in 1 .. Len(Q) : f[i] = j
  BY DEF Picks
<1> DEFINE W1 == Append(W, p)
<1>2. /\ Len(W) \in Nat /\ Len(W1) = Len(W) + 1
      /\ \A i \in 1 .. Len(W) : W1[i] = W[i]
      /\ W1[Len(W) + 1] = p
      /\ \A i \in 1 .. Len(W1) : i = Len(W) + 1 \/ i \in 1 .. Len(W)
  OBVIOUS
<1> HIDE DEF W1
<1>3. f \in [1 .. Len(Q) -> 1 .. Len(W1)]
  BY <1>2
<1>4. \A i \in 1 .. Len(Q) : Q[i] = At(C, W1[f[i]])
  BY <1>1, <1>2
<1>5. ASSUME NEW j \in 1 .. Len(W1)
      PROVE  At(C, W1[j]) \in Items <=> \E i \in 1 .. Len(Q) : f[i] = j
  <2>1. CASE j = Len(W) + 1
    <3>1. \A i \in 1 .. Len(Q) : f[i] # j
      BY <1>2, <2>1
    <3> QED BY <1>2, <2>1, <3>1
  <2>2. CASE j \in 1 .. Len(W)
    BY <1>1, <1>2, <2>2
  <2> QED BY <1>2, <2>1, <2>2
<1>6. Picks(W1, C, Q)
  BY <1>1, <1>3, <1>4, <1>5 DEF Picks
<1> QED BY <1>6 DEF W1

(* The first cell is drawn by a dequeuer. *)
LEMMA PicksTake ==
  ASSUME NEW W \in Seq(Segs \X Cells), W # <<>>, NEW C, NEW Q \in Seq(Items),
         Picks(W, C, Q), NEW x \in Items, At(C, W[1]) = x
  PROVE  Q # <<>> /\ Head(Q) = x /\ Tail(Q) \in Seq(Items)
         /\ Picks(Tail(W), C, Tail(Q))
<1>1. PICK f \in [1 .. Len(Q) -> 1 .. Len(W)] :
        /\ \A i, j \in 1 .. Len(Q) : i < j => f[i] < f[j]
        /\ \A i \in 1 .. Len(Q) : Q[i] = At(C, W[f[i]])
        /\ \A j \in 1 .. Len(W) :
             At(C, W[j]) \in Items <=> \E i \in 1 .. Len(Q) : f[i] = j
  BY DEF Picks
<1>2. Len(Q) \in Nat /\ Len(W) \in Nat /\ Len(W) >= 1 /\ 1 \in 1 .. Len(W)
  OBVIOUS
<1>3. PICK i \in 1 .. Len(Q) : f[i] = 1
  BY <1>1, <1>2
<1>4. 1 \in 1 .. Len(Q) /\ f[1] \in 1 .. Len(W)
  BY <1>2, <1>3
<1>5. f[1] = 1
  <2>1. i = 1 \/ f[1] < f[i]
    BY <1>1, <1>3, <1>4
  <2> QED BY <1>2, <1>3, <1>4, <2>1
<1>6. Q # <<>> /\ Head(Q) = Q[1] /\ Q[1] = x
  <2>1. Q[1] = x
    BY <1>1, <1>4, <1>5
  <2> QED BY <1>4, <2>1
<1> DEFINE W1 == Tail(W)
           Q1 == Tail(Q)
           g  == [k \in 1 .. (Len(Q) - 1) |-> f[k + 1] - 1]
<1>7. /\ Len(Q1) = Len(Q) - 1 /\ Len(W1) = Len(W) - 1 /\ Q1 \in Seq(Items)
      /\ \A k \in 1 .. Len(Q1) : Q1[k] = Q[k + 1] /\ k + 1 \in 1 .. Len(Q)
      /\ \A k \in 1 .. Len(W1) : W1[k] = W[k + 1] /\ k + 1 \in 1 .. Len(W)
  BY <1>2, <1>6
<1> HIDE DEF W1, Q1
<1>8. \A k \in 1 .. Len(Q1) :
        /\ f[k + 1] \in 1 .. Len(W) /\ f[k + 1] > 1
  <2> TAKE k \in 1 .. Len(Q1)
  <2>1. k + 1 \in 1 .. Len(Q) /\ 1 \in 1 .. Len(Q) /\ 1 < k + 1
    BY <1>2, <1>4, <1>7
  <2>2. f[1] < f[k + 1] /\ f[k + 1] \in 1 .. Len(W)
    BY <1>1, <2>1
  <2> QED BY ONLY <1>5, <2>2
<1>9. /\ g \in [1 .. Len(Q1) -> 1 .. Len(W1)]
      /\ \A k \in 1 .. Len(Q1) : /\ g[k] = f[k + 1] - 1 /\ g[k] + 1 = f[k + 1]
                                 /\ g[k] \in 1 .. Len(W1)
  <2>1. \A k \in 1 .. Len(Q1) : /\ f[k + 1] - 1 \in 1 .. Len(W1)
                                /\ (f[k + 1] - 1) + 1 = f[k + 1]
    <3> TAKE k \in 1 .. Len(Q1)
    <3>1. f[k + 1] \in 1 .. Len(W) /\ f[k + 1] > 1 /\ Len(W1) = Len(W) - 1
      BY <1>7, <1>8
    <3>2. PICK y : y = f[k + 1]
      OBVIOUS
    <3> QED BY ONLY <3>1, <3>2, Len(W) \in Nat
  <2>2. Len(Q1) = Len(Q) - 1
    BY <1>7
  <2> QED BY ONLY <2>1, <2>2
<1> HIDE DEF g
<1>10. ASSUME NEW a \in 1 .. Len(Q1), NEW b \in 1 .. Len(Q1), a < b
       PROVE  g[a] < g[b]
  <2>1. a + 1 < b + 1 /\ a + 1 \in 1 .. Len(Q) /\ b + 1 \in 1 .. Len(Q)
    BY <1>7, <1>10
  <2>2. f[a + 1] < f[b + 1]
    BY <1>1, <2>1
  <2> QED BY <1>8, <1>9, <2>2
<1>11. ASSUME NEW a \in 1 .. Len(Q1) PROVE Q1[a] = At(C, W1[g[a]])
  <2>1. Q1[a] = Q[a + 1] /\ a + 1 \in 1 .. Len(Q)
    BY <1>7
  <2>2. W1[g[a]] = W[f[a + 1]]
    BY <1>7, <1>9
  <2> QED BY <1>1, <2>1, <2>2
<1>12. ASSUME NEW j \in 1 .. Len(W1)
       PROVE  At(C, W1[j]) \in Items <=> \E a \in 1 .. Len(Q1) : g[a] = j
  <2>1. W1[j] = W[j + 1] /\ j + 1 \in 1 .. Len(W) /\ j + 1 # 1
    BY <1>7
  <2>2. At(C, W[j + 1]) \in Items <=> \E a \in 1 .. Len(Q) : f[a] = j + 1
    BY <1>1, <2>1
  <2>3. ASSUME NEW a \in 1 .. Len(Q), f[a] = j + 1
        PROVE  \E b \in 1 .. Len(Q1) : g[b] = j
    <3>1. a # 1
      BY <1>5, <2>1, <2>3
    <3>2. a - 1 \in 1 .. Len(Q1) /\ (a - 1) + 1 = a
      BY <1>2, <1>7, <3>1
    <3>3. g[a - 1] = j
      <4>1. g[a - 1] + 1 = j + 1 /\ g[a - 1] \in 1 .. Len(W1)
        BY <1>9, <2>3, <3>2
      <4> QED BY ONLY <4>1, j \in 1 .. Len(W1), Len(W1) \in Nat, <2>1
    <3> QED BY <3>2, <3>3
  <2>4. ASSUME NEW b \in 1 .. Len(Q1), g[b] = j
        PROVE  \E a \in 1 .. Len(Q) : f[a] = j + 1
    BY <1>7, <1>9, <2>4
  <2> QED BY <2>1, <2>2, <2>3, <2>4
<1>13. Picks(W1, C, Q1)
  BY <1>9, <1>10, <1>11, <1>12 DEF Picks
<1> QED BY <1>6, <1>7, <1>13 DEF W1, Q1

(* It is a cell that will stay without item. *)
LEMMA PicksPass ==
  ASSUME NEW W \in Seq(Segs \X Cells), W # <<>>, NEW C, NEW Q \in Seq(Items),
         Picks(W, C, Q), At(C, W[1]) \notin Items
  PROVE  Picks(Tail(W), C, Q)
<1>1. PICK f \in [1 .. Len(Q) -> 1 .. Len(W)] :
        /\ \A i, j \in 1 .. Len(Q) : i < j => f[i] < f[j]
        /\ \A i \in 1 .. Len(Q) : Q[i] = At(C, W[f[i]])
        /\ \A j \in 1 .. Len(W) :
             At(C, W[j]) \in Items <=> \E i \in 1 .. Len(Q) : f[i] = j
  BY DEF Picks
<1>2. Len(Q) \in Nat /\ Len(W) \in Nat /\ Len(W) >= 1 /\ 1 \in 1 .. Len(W)
  OBVIOUS
<1>3. \A i \in 1 .. Len(Q) : f[i] # 1
  BY <1>1, <1>2
<1> DEFINE W1 == Tail(W)
           g  == [k \in 1 .. Len(Q) |-> f[k] - 1]
<1>7. /\ Len(W1) = Len(W) - 1
      /\ \A k \in 1 .. Len(W1) : W1[k] = W[k + 1] /\ k + 1 \in 1 .. Len(W)
  BY <1>2
<1> HIDE DEF W1
<1>8. \A k \in 1 .. Len(Q) : f[k] \in 1 .. Len(W) /\ f[k] > 1
  <2> TAKE k \in 1 .. Len(Q)
  <2>1. f[k] \in 1 .. Len(W) /\ f[k] # 1
    BY <1>1, <1>3
  <2> QED BY ONLY <2>1, Len(W) \in Nat
<1>9. /\ g \in [1 .. Len(Q) -> 1 .. Len(W1)]
      /\ \A k \in 1 .. Len(Q) : /\ g[k] = f[k] - 1 /\ g[k] + 1 = f[k]
                                /\ g[k] \in 1 .. Len(W1)
  BY <1>2, <1>7, <1>8
<1> HIDE DEF g
<1>10. ASSUME NEW a \in 1 .. Len(Q), NEW b \in 1 .. Len(Q), a < b
       PROVE  g[a] < g[b]
  BY <1>1, <1>8, <1>9, <1>10
<1>11. ASSUME NEW a \in 1 .. Len(Q) PROVE Q[a] = At(C, W1[g[a]])
  <2>2. W1[g[a]] = W[f[a]]
    BY <1>7, <1>9
  <2> QED BY <1>1, <2>2
<1>12. ASSUME NEW j \in 1 .. Len(W1)
       PROVE  At(C, W1[j]) \in Items <=> \E a \in 1 .. Len(Q) : g[a] = j
  <2>1. W1[j] = W[j + 1] /\ j + 1 \in 1 .. Len(W) /\ j \in Nat
    BY <1>7
  <2>2. At(C, W[j + 1]) \in Items <=> \E a \in 1 .. Len(Q) : f[a] = j + 1
    BY <1>1, <2>1
  <2>3. \A a \in 1 .. Len(Q) : f[a] = j + 1 <=> g[a] = j
    BY <1>8, <1>9, <2>1
  <2> QED BY <2>1, <2>2, <2>3
<1>13. Picks(W1, C, Q)
  BY <1>9, <1>10, <1>11, <1>12 DEF Picks
<1> QED BY <1>13 DEF W1

----------------------------------------------------------------------------
(* The cells that enqueuers have drawn and dequeuers have not. *)

LEMMA AwaitsAt ==
  ASSUME Contents, NEW W, Awaits(W)
  PROVE  /\ W \in Seq(Segs \X Cells) /\ Len(W) \in Nat
         /\ \A s \in Segs : enqidx[s] \in Nat /\ deqidx[s] \in Nat
         /\ \A j \in 1 .. Len(W) :
              /\ W[j] \in Segs \X Cells /\ W[j][1] \in Segs /\ W[j][2] \in Cells
              /\ W[j][2] \in Nat /\ W[j][2] < BufferSize
              /\ W[j] = <<W[j][1], W[j][2]>>
              /\ deqidx[W[j][1]] <= W[j][2] /\ W[j][2] < enqidx[W[j][1]]
         /\ W # <<>> => Len(W) \in 1 .. Len(W) /\ 1 \in 1 .. Len(W)
<1>1. W \in Seq(Segs \X Cells) /\ Len(W) \in Nat
  BY DEF Awaits
<1>2. \A s \in Segs : enqidx[s] \in Nat /\ deqidx[s] \in Nat
  BY Bounds DEF Contents
<1>3. ASSUME NEW j \in 1 .. Len(W)
      PROVE  /\ W[j] \in Segs \X Cells /\ W[j][1] \in Segs /\ W[j][2] \in Cells
             /\ W[j] = <<W[j][1], W[j][2]>>
  BY <1>1
<1>4. \A k \in Cells : k \in Nat /\ k < BufferSize
  BY Bounds
<1>5. W # <<>> => Len(W) \in 1 .. Len(W) /\ 1 \in 1 .. Len(W)
  BY <1>1
<1> QED BY <1>1, <1>2, <1>3, <1>4, <1>5 DEF Awaits

LEMMA Fields ==
  ASSUME Inv
  PROVE  /\ head \in Segs /\ Null \notin Segs /\ Contents /\ BufferSize \in Nat
         /\ enqidx \in [Segs -> 0 .. (BufferSize + 1)]
         /\ deqidx \in [Segs -> 0 .. (BufferSize + 1)]
         /\ \A s \in Segs : enqidx[s] \in Nat /\ deqidx[s] \in Nat
         /\ next \in [Segs -> Segs \cup {Null}]
<1>1. /\ head \in Segs /\ Null \notin Segs /\ Contents
      /\ next \in [Segs -> Segs \cup {Null}]
  BY Sizes DEF Inv, SegInv, Types
<1>2. /\ enqidx \in [Segs -> 0 .. (BufferSize + 1)]
      /\ deqidx \in [Segs -> 0 .. (BufferSize + 1)]
  BY <1>1 DEF Contents
<1>3. \A n \in 0 .. (BufferSize + 1) : n \in Nat
  BY Bounds
<1> QED BY <1>1, <1>2, <1>3, Bounds

(* Their segments have been made and not retired. *)
LEMMA AwaitsLive ==
  ASSUME SegInv, Contents, NEW W, Awaits(W)
  PROVE  \A j \in 1 .. Len(W) :
           Live(W[j][1]) /\ \A u \in Threads : ~ Owns(u, W[j][1])
<1> DEFINE Good(s) == Live(s) /\ \A u \in Threads : ~ Owns(u, s)
           T == {j \in 1 .. Len(W) : ~ Good(W[j][1])}
<1>0. head \in Segs /\ next \in [Segs -> Segs \cup {Null}] /\ Null \notin Segs
  BY Sizes DEF SegInv, Types
<1>1. Good(head)
  BY DEF SegInv, ListInv, EndsAlive, OwnerInv, Private, Owns
<1>2. \A s \in Segs : Good(s) /\ next[s] # Null => Good(next[s])
  BY DEF SegInv, ListInv, LinkInv
<1> HIDE DEF Good
<1>3. SUFFICES ASSUME T # {} PROVE FALSE
  BY DEF Good
<1>4. T \subseteq Nat
  BY AwaitsAt
<1>5. PICK i \in T : \A j \in T : i <= j
  BY <1>3, <1>4, Least
<1>6. i \in 1 .. Len(W) /\ ~ Good(W[i][1]) /\ W[i][1] \in Segs /\ W # <<>>
  BY AwaitsAt, <1>5
<1>7. i # 1
  <2>1. W[1] = Front
    BY <1>6 DEF Awaits
  <2>2. W[1][1] \in Segs
    BY <1>6, AwaitsAt
  <2>3. W[1][1] = head \/ W[1][1] = next[head]
    BY <2>1 DEF Front
  <2>4. Good(W[1][1])
    BY <1>0, <1>1, <1>2, <2>2, <2>3
  <2> QED BY <1>6, <2>4
<1>8. i - 1 \in 1 .. (Len(W) - 1) /\ i - 1 \in 1 .. Len(W) /\ (i - 1) + 1 = i
      /\ ~ i <= i - 1
  BY <1>6, <1>7, AwaitsAt
<1>9. Good(W[i - 1][1]) /\ W[i - 1][1] \in Segs
  BY <1>5, <1>8, AwaitsAt
<1>10. W[i] = Beyond(W[i - 1])
  BY <1>8 DEF Awaits
<1>11. W[i][1] = W[i - 1][1] \/ W[i][1] = next[W[i - 1][1]]
  BY <1>10 DEF Beyond
<1>12. Good(W[i][1])
  BY <1>0, <1>2, <1>6, <1>9, <1>11
<1> QED BY <1>6, <1>12

LEMMA AwaitsKept ==
  ASSUME Inv, NEW W, Awaits(W), head' = head, next' = next,
         enqidx' = enqidx, deqidx' = deqidx,
         tail' = tail \/ (tail' = next[tail] /\ next[tail] # Null)
  PROVE  Awaits(W)'
<1>1. /\ W = <<>> => tail' = head \/ next[tail'] = head
      /\ W # <<>> => tail' = W[Len(W)][1] \/ next[tail'] = W[Len(W)][1]
  BY DEF Awaits
<1> QED BY <1>1 DEF Awaits, Front, Beyond

(* The next cell of the last segment. *)
LEMMA AwaitsPut ==
  ASSUME Inv, NEW W, Awaits(W), NEW s \in Segs, tail = s, next[s] = Null,
         enqidx[s] < BufferSize, deqidx[s] <= enqidx[s],
         head' = head, next' = next, tail' = tail, deqidx' = deqidx,
         enqidx' = [enqidx EXCEPT ![s] = enqidx[s] + 1],
         NEW p, p = <<s, enqidx[s]>>, NEW X, X = Append(W, p)
  PROVE  Awaits(X)'
<1>0. /\ head \in Segs /\ Null \notin Segs /\ Contents
      /\ BufferSize \in Nat /\ enqidx[s] \in Nat /\ deqidx[s] \in Nat
      /\ enqidx \in [Segs -> 0 .. (BufferSize + 1)]
      /\ deqidx \in [Segs -> 0 .. (BufferSize + 1)]
  BY Fields
<1>1. p \in Segs \X Cells
  BY <1>0, Bounds
<1>2. /\ X \in Seq(Segs \X Cells) /\ Len(X) = Len(W) + 1 /\ Len(W) \in Nat
      /\ \A j \in 1 .. Len(W) : X[j] = W[j]
      /\ X[Len(W) + 1] = p /\ X # <<>>
      /\ W = <<>> => Len(W) = 0
  <2>1. W \in Seq(Segs \X Cells)
    BY <1>0, AwaitsAt
  <2> HIDE <1>0
  <2> QED BY <1>1, <2>1
<1>3. /\ enqidx'[s] = enqidx[s] + 1
      /\ \A a \in Segs : a # s => enqidx'[a] = enqidx[a]
  BY <1>0
<1>4. ASSUME NEW j \in 1 .. Len(X)
      PROVE  deqidx'[X[j][1]] <= X[j][2] /\ X[j][2] < enqidx'[X[j][1]]
  <2>1. CASE j = Len(W) + 1
    <3>1. X[j][1] = s /\ X[j][2] = enqidx[s]
      BY <1>2, <2>1
    <3> QED BY <1>0, <1>3, <3>1
  <2>2. CASE j \in 1 .. Len(W)
    <3>1. /\ X[j] = W[j] /\ W[j][1] \in Segs /\ W[j][2] \in Nat
          /\ deqidx[W[j][1]] <= W[j][2] /\ W[j][2] < enqidx[W[j][1]]
          /\ enqidx[W[j][1]] \in Nat
      BY <1>0, <1>2, <2>2, AwaitsAt
    <3>2. enqidx'[W[j][1]] = enqidx[W[j][1]] \/ enqidx'[W[j][1]] = enqidx[W[j][1]] + 1
      BY <1>3, <3>1
    <3>3. W[j][2] < enqidx'[W[j][1]]
      BY <3>1, <3>2
    <3> QED BY <3>1, <3>3
  <2> QED BY <1>2, <2>1, <2>2
<1>5. CASE W = <<>>
  <2>1. head = s /\ enqidx[s] = deqidx[s]
    <3>1. head = s
      BY <1>0, <1>5 DEF Awaits
    <3>2. deqidx[s] >= BufferSize \/ deqidx[s] >= enqidx[s]
      BY <1>5, <3>1 DEF Awaits
    <3> QED BY <1>0, <3>1, <3>2
  <2>2. Len(X) = 1 /\ X[1] = p
    BY <1>2, <1>5
  <2>3. Front' = p
    BY <1>0, <2>1 DEF Front
  <2>4. 1 .. (Len(X) - 1) = {}
    BY <2>2
  <2> QED BY <1>0, <1>2, <1>3, <1>4, <2>2, <2>3, <2>4 DEF Awaits
<1>6. CASE W # <<>>
  <2>0. Len(W) \in 1 .. Len(W) /\ 1 \in 1 .. Len(W)
    BY <1>0, <1>6, AwaitsAt
  <2>e. PICK e : e = W[Len(W)]
    OBVIOUS
  <2>1. /\ e[1] \in Segs /\ e[2] \in Nat /\ e = <<e[1], e[2]>>
        /\ e[2] < enqidx[e[1]]
    BY <2>0, <2>e, <1>0, AwaitsAt
  <2>2. /\ e[2] + 1 >= BufferSize \/ e[2] + 1 >= enqidx[e[1]]
        /\ tail = e[1] \/ next[tail] = e[1]
        /\ W[1] = Front
    BY <1>6, <2>e DEF Awaits
  <2>3. e[1] = s
    BY <1>0, <2>1, <2>2
  <2>4. e[2] + 1 = enqidx[s]
    BY <1>0, <2>1, <2>2, <2>3
  <2>5. Beyond(e)' = p
    BY <1>0, <2>1, <2>3, <2>4 DEF Beyond
  <2>6. ASSUME NEW j \in 1 .. (Len(X) - 1) PROVE X[j + 1] = Beyond(X[j])'
    <3>1. CASE j = Len(W)
      <4>1. X[j] = e /\ X[j + 1] = p
        BY <1>2, <2>0, <2>e, <3>1
      <4> QED BY <2>5, <4>1 DEF Beyond
    <3>2. CASE j # Len(W)
      <4>1. /\ j \in 1 .. (Len(W) - 1) /\ j \in 1 .. Len(W) /\ j + 1 \in 1 .. Len(W)
        BY <1>2, <3>2
      <4>2. W[j + 1] = Beyond(W[j])
        BY <4>1 DEF Awaits
      <4>3. X[j] = W[j] /\ X[j + 1] = W[j + 1]
        BY <1>2, <4>1
      <4> QED BY <4>2, <4>3 DEF Beyond
    <3> QED BY <3>1, <3>2
  <2>7. X[1] = Front'
    <3>1. Front' = Front
      BY DEF Front
    <3> QED BY <1>2, <2>0, <2>2, <3>1
  <2>8. LET z == X[Len(X)] IN
          /\ next'[z[1]] = Null
          /\ z[2] + 1 >= BufferSize \/ z[2] + 1 >= enqidx'[z[1]]
          /\ tail' = z[1]
    BY <1>0, <1>2, <1>3
  <2> QED BY <1>2, <1>4, <2>6, <2>7, <2>8 DEF Awaits
<1> QED BY <1>5, <1>6

(* No cell of segment s awaits a dequeuer, and none will. *)
LEMMA AwaitsSkip ==
  ASSUME Inv, NEW W, Awaits(W), NEW s \in Segs, NEW n \in Nat,
         enqidx[s] <= n, n <= deqidx[s],
         head' = head, next' = next, tail' = tail, deqidx' = deqidx,
         enqidx' = [enqidx EXCEPT ![s] = n]
  PROVE  Awaits(W)'
<1>0. /\ head \in Segs /\ Contents /\ enqidx[s] \in Nat /\ deqidx[s] \in Nat
      /\ enqidx \in [Segs -> 0 .. (BufferSize + 1)]
      /\ deqidx \in [Segs -> 0 .. (BufferSize + 1)] /\ BufferSize \in Nat
      /\ deqidx[head] \in Nat /\ enqidx[head] \in Nat
  BY Fields
<1>1. /\ enqidx'[s] = n
      /\ \A a \in Segs : a # s => enqidx'[a] = enqidx[a]
  BY <1>0
<1>2. CASE n = enqidx[s]
  <2>1. enqidx' = enqidx
    BY <1>0, <1>2
  <2> QED BY <2>1, AwaitsKept
<1>3. CASE n # enqidx[s]
  <2>1. \A j \in 1 .. Len(W) : W[j][1] \in Segs /\ W[j][1] # s
    <3> TAKE j \in 1 .. Len(W)
    <3>1. W[j][1] \in Segs /\ W[j][2] \in Nat
          /\ deqidx[W[j][1]] <= W[j][2] /\ W[j][2] < enqidx[W[j][1]]
      BY <1>0, AwaitsAt
    <3> QED BY <1>0, <1>3, <3>1
  <2>2. \A j \in 1 .. Len(W) : enqidx'[W[j][1]] = enqidx[W[j][1]]
    BY <1>1, <2>1
  <2>3. W # <<>> => Len(W) \in 1 .. Len(W)
    BY <1>0, AwaitsAt
  <2>4. deqidx[head] >= enqidx[head] => deqidx[head] >= enqidx'[head]
    BY <1>0, <1>1
  <2>5. Front' = Front /\ \A p : Beyond(p)' = Beyond(p)
    BY DEF Front, Beyond
  <2> QED BY <2>2, <2>3, <2>4, <2>5 DEF Awaits
<1> QED BY <1>2, <1>3

LEMMA AwaitsNone ==
  ASSUME Inv, NEW W, Awaits(W), NEW s \in Segs, tail = s, next[s] = Null,
         enqidx[s] <= deqidx[s]
  PROVE  W = <<>>
<1>0. head \in Segs /\ Null \notin Segs /\ Contents
  BY Sizes DEF Inv, SegInv, Types
<1>1. SUFFICES ASSUME W # <<>> PROVE FALSE
  OBVIOUS
<1>2. PICK e : e = W[Len(W)]
  OBVIOUS
<1>3. e[1] \in Segs /\ e[2] \in Nat /\ deqidx[e[1]] <= e[2] /\ e[2] < enqidx[e[1]]
      /\ enqidx[e[1]] \in Nat /\ deqidx[e[1]] \in Nat
  BY <1>0, <1>1, <1>2, AwaitsAt
<1>4. tail = e[1] \/ next[tail] = e[1]
  BY <1>1, <1>2 DEF Awaits
<1>5. e[1] = s
  BY <1>0, <1>3, <1>4
<1> QED BY <1>3, <1>5

(* The segment had no more cells to draw. *)
LEMMA AwaitsFull ==
  ASSUME Inv, NEW W, Awaits(W), NEW s \in Segs, NEW n \in Nat,
         BufferSize <= enqidx[s], enqidx[s] <= n,
         head' = head, next' = next, tail' = tail, deqidx' = deqidx,
         enqidx' = [enqidx EXCEPT ![s] = n]
  PROVE  Awaits(W)'
<1>0. /\ head \in Segs /\ Contents /\ enqidx[s] \in Nat
      /\ enqidx \in [Segs -> 0 .. (BufferSize + 1)]
      /\ deqidx \in [Segs -> 0 .. (BufferSize + 1)] /\ BufferSize \in Nat
      /\ deqidx[head] \in Nat /\ enqidx[head] \in Nat
  BY Fields
<1>1. /\ enqidx'[s] = n
      /\ \A a \in Segs : a # s => enqidx'[a] = enqidx[a]
  BY <1>0
<1>2. \A j \in 1 .. Len(W) : W[j][2] < enqidx'[W[j][1]]
  <2> TAKE j \in 1 .. Len(W)
  <2>1. W[j][1] \in Segs /\ W[j][2] \in Nat /\ W[j][2] < enqidx[W[j][1]]
    BY <1>0, AwaitsAt
  <2> QED BY <1>0, <1>1, <2>1
<1>3. W = <<>> => deqidx[head] >= BufferSize \/ deqidx[head] >= enqidx'[head]
  <2>1. W = <<>> => deqidx[head] >= BufferSize \/ deqidx[head] >= enqidx[head]
    BY DEF Awaits
  <2> QED BY <1>0, <1>1, <2>1
<1>4. W # <<>> => LET e == W[Len(W)] IN
        e[2] + 1 >= BufferSize \/ e[2] + 1 >= enqidx'[e[1]]
  <2> SUFFICES ASSUME W # <<>>, NEW e, e = W[Len(W)]
               PROVE  e[2] + 1 >= BufferSize \/ e[2] + 1 >= enqidx'[e[1]]
    OBVIOUS
  <2>1. e[1] \in Segs /\ e[2] \in Nat /\ enqidx[e[1]] \in Nat
    BY <1>0, AwaitsAt
  <2>2. e[2] + 1 >= BufferSize \/ e[2] + 1 >= enqidx[e[1]]
    BY DEF Awaits
  <2> QED BY <1>0, <1>1, <2>1, <2>2
<1>5. Front' = Front /\ \A p : Beyond(p)' = Beyond(p)
  BY DEF Front, Beyond
<1> QED BY <1>2, <1>3, <1>4, <1>5 DEF Awaits

(* The dequeuers draw the first of the cells; or one that no enqueuer has  *)
(* drawn. *)
LEMMA AwaitsEmpty ==
  ASSUME Inv, Awaits(<<>>), NEW n \in Nat, deqidx[head] <= n,
         head' = head, next' = next, tail' = tail, enqidx' = enqidx,
         deqidx' = [deqidx EXCEPT ![head] = n]
  PROVE  Awaits(<<>>)'
<1>1. deqidx'[head] = n /\ deqidx[head] \in Nat /\ enqidx[head] \in Nat
      /\ BufferSize \in Nat
  BY Fields
<1>2. deqidx[head] >= BufferSize \/ deqidx[head] >= enqidx[head]
  BY DEF Awaits
<1>3. deqidx'[head] >= BufferSize \/ deqidx'[head] >= enqidx[head]
  BY <1>1, <1>2
<1> QED BY <1>3 DEF Awaits

LEMMA AwaitsTake ==
  ASSUME Inv, NEW W, Awaits(W), W # <<>>, deqidx[head] < BufferSize,
         head' = head, next' = next, tail' = tail, enqidx' = enqidx,
         deqidx' = [deqidx EXCEPT ![head] = deqidx[head] + 1],
         NEW X, X = Tail(W)
  PROVE  W[1] = <<head, deqidx[head]>> /\ Awaits(X)'
<1> USE Fields
<1>0. /\ W \in Seq(Segs \X Cells) /\ Len(W) \in Nat
      /\ Len(W) \in 1 .. Len(W) /\ 1 \in 1 .. Len(W)
  BY AwaitsAt
<1>1. W[1] = Front /\ Front = <<head, deqidx[head]>>
  BY DEF Awaits, Front
<1>2. /\ X \in Seq(Segs \X Cells) /\ Len(X) = Len(W) - 1
      /\ \A j \in 1 .. Len(X) : X[j] = W[j + 1] /\ j + 1 \in 1 .. Len(W)
  <2> HIDE Fields
  <2> QED BY <1>0
<1>3. /\ deqidx'[head] = deqidx[head] + 1
      /\ \A a \in Segs : a # head => deqidx'[a] = deqidx[a]
  OBVIOUS
<1>4. ASSUME NEW j \in 1 .. Len(W), j # 1
      PROVE  W[j] # <<head, deqidx[head]>>
  <2>1. j - 1 \in 1 .. (Len(W) - 1) /\ j - 1 \in 1 .. Len(W) /\ (j - 1) + 1 = j
    BY <1>0, <1>4
  <2>0. PICK i : i = j - 1
    OBVIOUS
  <2>2. PICK s, k : W[j - 1] = <<s, k>> /\ s \in Segs /\ k \in Nat /\ deqidx[s] <= k
    <3>1. /\ W[i] = <<W[i][1], W[i][2]>> /\ W[i][1] \in Segs /\ W[i][2] \in Nat
          /\ deqidx[W[i][1]] <= W[i][2]
      BY <2>0, <2>1, AwaitsAt
    <3> QED BY <2>0, <3>1
  <2>3. W[j] = Beyond(W[j - 1])
    BY <2>1 DEF Awaits
  <2>4. CASE k + 1 < BufferSize
    <3>1. W[j] = <<s, k + 1>>
      BY <2>2, <2>3, <2>4 DEF Beyond
    <3>2. s = head => k + 1 # deqidx[head]
      BY <2>2
    <3> QED BY <3>1, <3>2
  <2>5. CASE ~ (k + 1 < BufferSize)
    <3>1. W[j] = <<next[s], 0>>
      BY <2>2, <2>3, <2>5 DEF Beyond
    <3>2. Live(W[j - 1][1])
      BY <2>1, AwaitsLive DEF Inv
    <3>3. Live(s)
      BY <2>2, <3>2
    <3>4. next[s] # Null => next[s] # head
      BY <2>2, <3>3 DEF Inv, SegInv, ListInv, LinkInv
    <3> QED BY <3>1, <3>4
  <2> QED BY <2>4, <2>5
<1>5. ASSUME NEW j \in 1 .. Len(X)
      PROVE  deqidx'[X[j][1]] <= X[j][2] /\ X[j][2] < enqidx[X[j][1]]
  <2>0. PICK i : i = j + 1
    OBVIOUS
  <2>1. i \in 1 .. Len(W) /\ i # 1 /\ X[j] = W[i]
    <3> HIDE Fields
    <3>1. X[j] = W[j + 1] /\ j + 1 \in 1 .. Len(W)
      BY <1>2
    <3>2. j + 1 # 1
      OBVIOUS
    <3> QED BY <2>0, <3>1, <3>2
  <2>2. PICK s, k : /\ X[j] = <<s, k>> /\ s \in Segs /\ k \in Nat
                    /\ deqidx[s] <= k /\ k < enqidx[s]
    <3>1. /\ W[i] = <<W[i][1], W[i][2]>> /\ W[i][1] \in Segs /\ W[i][2] \in Nat
          /\ deqidx[W[i][1]] <= W[i][2] /\ W[i][2] < enqidx[W[i][1]]
      BY <2>1, AwaitsAt
    <3> QED BY <2>1, <3>1
  <2>3. <<s, k>> # <<head, deqidx[head]>>
    BY <1>4, <2>1, <2>2
  <2>4. deqidx'[s] <= k
    BY <1>3, <2>2, <2>3
  <2> QED BY <2>2, <2>4
<1>6. ASSUME NEW j \in 1 .. (Len(X) - 1) PROVE X[j + 1] = Beyond(X[j])
  <2>1. /\ j + 1 \in 1 .. (Len(W) - 1) /\ j \in 1 .. Len(X) /\ j + 1 \in 1 .. Len(X)
    BY <1>0, <1>2
  <2>2. W[(j + 1) + 1] = Beyond(W[j + 1])
    BY <2>1 DEF Awaits
  <2> QED BY <1>2, <2>1, <2>2
<1>7. PICK e : e = W[Len(W)]
  OBVIOUS
<1>8. /\ next[e[1]] = Null
      /\ e[2] + 1 >= BufferSize \/ e[2] + 1 >= enqidx[e[1]]
      /\ tail = e[1] \/ next[tail] = e[1]
  BY <1>7 DEF Awaits
<1>9. CASE X = <<>>
  <2>1. e = <<head, deqidx[head]>>
    <3>1. Len(W) = 1
      <4> HIDE Fields
      <4>0. Len(<<>>) = 0
        OBVIOUS
      <4>1. Len(X) = 0
        BY ONLY <1>9, <4>0
      <4> QED BY <1>0, <1>2, <4>1
    <3> QED BY <1>1, <1>7, <3>1
  <2>2. deqidx'[head] >= BufferSize \/ deqidx'[head] >= enqidx[head]
    BY <1>3, <1>8, <2>1
  <2>3. next[head] = Null /\ (tail = head \/ next[tail] = head)
    BY <1>8, <2>1
  <2> QED BY <1>1, <1>2, <1>5, <1>6, <1>9, <2>2, <2>3 DEF Awaits, Beyond
<1>10. CASE X # <<>>
  <2>1. Len(X) \in 1 .. Len(X) /\ 1 \in 1 .. Len(X)
    BY <1>2, <1>10
  <2>2. X[Len(X)] = e
    BY <1>2, <1>7, <2>1
  <2>3. X[1] = Front'
    <3>1. 1 \in 1 .. (Len(W) - 1)
      BY <1>0, <1>2, <2>1
    <3>2. X[1] = Beyond(<<head, deqidx[head]>>)
      <4>1. W[1 + 1] = Beyond(W[1])
        BY <3>1 DEF Awaits
      <4> QED BY <1>1, <1>2, <2>1, <4>1
    <3> QED BY <1>3, <3>2 DEF Beyond, Front
  <2>4. LET z == X[Len(X)] IN
          /\ X[1] = Front'
          /\ next'[z[1]] = Null
          /\ z[2] + 1 >= BufferSize \/ z[2] + 1 >= enqidx'[z[1]]
          /\ tail' = z[1] \/ next'[tail'] = z[1]
    BY <1>8, <2>2, <2>3
  <2>5. \A j \in 1 .. (Len(X) - 1) : X[j + 1] = Beyond(X[j])'
    BY <1>6 DEF Beyond
  <2>6. \A j \in 1 .. Len(X) : deqidx'[X[j][1]] <= X[j][2] /\ X[j][2] < enqidx'[X[j][1]]
    BY <1>5
  <2> QED BY <1>1, <1>2, <1>10, <2>4, <2>5, <2>6 DEF Awaits
<1> QED BY <1>1, <1>9, <1>10

(* They find a segment without cells left to draw. *)
LEMMA AwaitsDrained ==
  ASSUME Inv, NEW W, Awaits(W), NEW s \in Segs, NEW n \in Nat,
         BufferSize <= deqidx[s], deqidx[s] <= n,
         head' = head, next' = next, tail' = tail, enqidx' = enqidx,
         deqidx' = [deqidx EXCEPT ![s] = n]
  PROVE  Awaits(W)'
<1> USE Fields
<1>1. /\ deqidx'[s] = n
      /\ \A a \in Segs : a # s => deqidx'[a] = deqidx[a]
  OBVIOUS
<1>2. ASSUME NEW j \in 1 .. Len(W) PROVE deqidx'[W[j][1]] <= W[j][2]
  <2>1. /\ W[j][1] \in Segs /\ W[j][2] \in Nat /\ W[j][2] < BufferSize
        /\ deqidx[W[j][1]] <= W[j][2]
    BY AwaitsAt
  <2>2. W[j][1] # s
    BY <2>1
  <2> QED BY <1>1, <2>1, <2>2
<1>3. Front' = Front /\ \A p : Beyond(p)' = Beyond(p)
  BY <1>1 DEF Front, Beyond
<1>4. \/ deqidx[head] >= BufferSize \/ deqidx[head] >= enqidx[head]
      => deqidx'[head] >= BufferSize \/ deqidx'[head] >= enqidx[head]
  BY <1>1
<1> QED BY <1>2, <1>3, <1>4 DEF Awaits

(* A segment is linked, with its first cell full. *)
LEMMA AwaitsLink ==
  ASSUME Inv, NEW W, Awaits(W), NEW s \in Segs, tail = s, next[s] = Null,
         BufferSize <= enqidx[s],
         NEW a \in Segs, a # s, next[a] = Null, enqidx[a] = 1, deqidx[a] = 0,
         head' = head, tail' = tail, enqidx' = enqidx, deqidx' = deqidx,
         next' = [next EXCEPT ![s] = a],
         NEW p, p = <<a, 0>>, NEW X, X = Append(W, p)
  PROVE  Awaits(X)'
<1> USE Fields
<1>1. p \in Segs \X Cells
  BY Bounds
<1>2. /\ X \in Seq(Segs \X Cells) /\ Len(X) = Len(W) + 1 /\ Len(W) \in Nat
      /\ \A j \in 1 .. Len(W) : X[j] = W[j]
      /\ X[Len(W) + 1] = p /\ X # <<>>
      /\ W = <<>> => Len(W) = 0
  <2>1. W \in Seq(Segs \X Cells)
    BY AwaitsAt
  <2> QED BY <1>1, <2>1
<1>3. next'[s] = a /\ next'[a] = Null /\ \A b \in Segs : b # s => next'[b] = next[b]
  OBVIOUS
<1>4. ASSUME NEW j \in 1 .. Len(X)
      PROVE  deqidx[X[j][1]] <= X[j][2] /\ X[j][2] < enqidx[X[j][1]]
  <2>1. CASE j = Len(W) + 1
    <3>1. X[j][1] = a /\ X[j][2] = 0
      BY <1>2, <2>1
    <3> QED BY <3>1
  <2>2. CASE j \in 1 .. Len(W)
    BY <1>2, <2>2, AwaitsAt
  <2>3. j \in 1 .. (Len(W) + 1)
    BY <1>2
  <2>4. j = Len(W) + 1 \/ j \in 1 .. Len(W)
    BY ONLY <2>3, Len(W) \in Nat, <1>2
  <2> QED BY ONLY <2>1, <2>2, <2>4
<1>5. LET z == X[Len(X)] IN
        /\ next'[z[1]] = Null
        /\ z[2] + 1 >= BufferSize \/ z[2] + 1 >= enqidx'[z[1]]
        /\ tail' = z[1] \/ next'[tail'] = z[1]
  BY <1>2, <1>3
<1>6. CASE W = <<>>
  <2>1. head = s
    BY <1>6 DEF Awaits
  <2>2. deqidx[head] >= BufferSize
    <3>1. deqidx[head] >= BufferSize \/ deqidx[head] >= enqidx[head]
      BY <1>6 DEF Awaits
    <3> QED BY <2>1, <3>1
  <2>3. Front' = p
    BY <1>3, <2>1, <2>2 DEF Front
  <2>4. Len(X) = 1 /\ X[1] = p /\ 1 .. (Len(X) - 1) = {}
    BY <1>2, <1>6
  <2> QED BY <1>2, <1>4, <1>5, <2>3, <2>4 DEF Awaits
<1>7. CASE W # <<>>
  <2>0. Len(W) \in 1 .. Len(W) /\ 1 \in 1 .. Len(W)
    BY <1>7, AwaitsAt
  <2>e. PICK e : e = W[Len(W)]
    OBVIOUS
  <2>1. e[1] \in Segs /\ e[2] \in Nat /\ e[2] < BufferSize /\ e = <<e[1], e[2]>>
    BY <2>0, <2>e, AwaitsAt
  <2>2. /\ e[2] + 1 >= BufferSize \/ e[2] + 1 >= enqidx[e[1]]
        /\ tail = e[1] \/ next[tail] = e[1]
        /\ W[1] = Front
    BY <1>7, <2>e DEF Awaits
  <2>3. e[1] = s
    BY <2>1, <2>2
  <2>4. ~ (e[2] + 1 < BufferSize)
    BY <2>1, <2>2, <2>3
  <2>5. Beyond(e)' = p
    BY <1>3, <2>3, <2>4 DEF Beyond
  <2>6. ASSUME NEW j \in 1 .. (Len(X) - 1) PROVE X[j + 1] = Beyond(X[j])'
    <3>1. CASE j = Len(W)
      <4>1. X[j] = e /\ X[j + 1] = p
        BY <1>2, <2>0, <2>e, <3>1
      <4> QED BY <2>5, <4>1 DEF Beyond
    <3>2. CASE j # Len(W)
      <4>1. /\ j \in 1 .. (Len(W) - 1) /\ j \in 1 .. Len(W) /\ j + 1 \in 1 .. Len(W)
        BY <1>2, <3>2
      <4>2. W[j + 1] = Beyond(W[j])
        BY <4>1 DEF Awaits
      <4>3. X[j] = W[j] /\ X[j + 1] = W[j + 1]
        BY <1>2, <4>1
      <4>4. PICK b, k : W[j] = <<b, k>> /\ b \in Segs
        <5>1. W[j] = <<W[j][1], W[j][2]>> /\ W[j][1] \in Segs
          BY <4>1, AwaitsAt
        <5> QED BY <5>1
      <4>5. W[j + 1][1] \in Segs
        BY <4>1, AwaitsAt
      <4>6. Beyond(W[j]) = IF k + 1 < BufferSize THEN <<b, k + 1>> ELSE <<next[b], 0>>
        BY <4>4 DEF Beyond
      <4>7. k + 1 < BufferSize \/ next[b] \in Segs
        BY <4>2, <4>5, <4>6
      <4>8. k + 1 < BufferSize \/ next'[b] = next[b]
        BY <1>3, <4>4, <4>7
      <4>9. Beyond(<<b, k>>)'
              = IF k + 1 < BufferSize THEN <<b, k + 1>> ELSE <<next'[b], 0>>
        BY DEF Beyond
      <4>10. Beyond(<<b, k>>)' = X[j + 1]
        BY <4>2, <4>3, <4>6, <4>8, <4>9
      <4> QED BY <4>3, <4>4, <4>10 DEF Beyond
    <3> QED BY <3>1, <3>2
  <2>7. X[1] = Front'
    <3>1. W[1][1] \in Segs
      BY <2>0, AwaitsAt
    <3>2. deqidx[head] < BufferSize \/ next[head] \in Segs
      BY <2>2, <3>1 DEF Front
    <3>3. deqidx[head] < BufferSize \/ next'[head] = next[head]
      BY <1>3, <3>2
    <3>4. Front' = Front
      BY <3>3 DEF Front
    <3> QED BY <1>2, <2>0, <2>2, <3>4
  <2>8. \A j \in 1 .. Len(X) : deqidx'[X[j][1]] <= X[j][2] /\ X[j][2] < enqidx'[X[j][1]]
    BY <1>4
  <2> QED BY <1>2, <1>5, <2>6, <2>7, <2>8 DEF Awaits
<1> QED BY <1>6, <1>7

(* head leaves a segment without cells left to draw. *)
LEMMA AwaitsAdvance ==
  ASSUME Inv, NEW W, Awaits(W), deqidx[head] >= BufferSize, next[head] # Null,
         head' = next[head], next' = next, tail' = tail, enqidx' = enqidx,
         deqidx' = deqidx
  PROVE  Awaits(W)'
<1> USE Fields
<1>1. W # <<>>
  BY DEF Awaits
<1>2. 1 \in 1 .. Len(W)
  BY <1>1, AwaitsAt
<1>3. W[1] = Front /\ Front = <<next[head], 0>>
  BY <1>1 DEF Awaits, Front
<1>4. deqidx[next[head]] = 0
  <2>1. deqidx[W[1][1]] <= W[1][2] /\ W[1][1] = next[head] /\ W[1][2] = 0
    BY <1>2, <1>3, AwaitsAt
  <2>2. next[head] \in Segs
    OBVIOUS
  <2> QED BY <2>1, <2>2
<1>5. Front' = <<next[head], 0>>
  BY <1>4, Bounds DEF Front
<1> QED BY <1>1, <1>3, <1>5 DEF Awaits, Beyond

(* A segment is made. *)
LEMMA AwaitsNew ==
  ASSUME Inv, NEW W, Awaits(W), NEW s \in Segs, heap[s] # "used",
         head' = head, tail' = tail,
         \A a \in Segs : a # s => /\ next'[a] = next[a] /\ enqidx'[a] = enqidx[a]
                                  /\ deqidx'[a] = deqidx[a]
  PROVE  Awaits(W)' /\ \A j \in 1 .. Len(W) : W[j][1] # s
<1> USE Fields
<1>1. head # s /\ tail # s /\ tail \in Segs
  BY DEF Inv, SegInv, Types, ListInv, EndsAlive, Live
<1>2. ASSUME NEW j \in 1 .. Len(W) PROVE W[j][1] \in Segs /\ W[j][1] # s
  <2>1. Live(W[j][1])
    BY AwaitsLive DEF Inv
  <2> QED BY <2>1 DEF Live
<1>3. ASSUME NEW j \in 1 .. Len(W)
      PROVE  /\ next'[W[j][1]] = next[W[j][1]] /\ enqidx'[W[j][1]] = enqidx[W[j][1]]
             /\ deqidx'[W[j][1]] = deqidx[W[j][1]]
  BY <1>2
<1>4. /\ next'[head] = next[head] /\ next'[tail] = next[tail]
      /\ deqidx'[head] = deqidx[head] /\ enqidx'[head] = enqidx[head]
  BY <1>1
<1>5. Front' = Front
  BY <1>4 DEF Front
<1>6. \A j \in 1 .. (Len(W) - 1) : W[j + 1] = Beyond(W[j])'
  <2> TAKE j \in 1 .. (Len(W) - 1)
  <2>1. j \in 1 .. Len(W)
    BY AwaitsAt
  <2>2. next'[W[j][1]] = next[W[j][1]]
    BY <1>3, <2>1
  <2>3. W[j + 1] = Beyond(W[j])
    BY DEF Awaits
  <2> QED BY <2>2, <2>3 DEF Beyond
<1>7. W # <<>> => Len(W) \in 1 .. Len(W)
  BY AwaitsAt
<1> QED BY <1>2, <1>3, <1>4, <1>5, <1>6, <1>7 DEF Awaits

----------------------------------------------------------------------------
(* The calls. *)

Contained == Items \cup {NoItem, Taken}

LEMMA ForeseenAt ==
  ASSUME NEW C \in Foreseen
  PROVE  /\ C \in [Segs -> [Cells -> Contained]]
         /\ \A s \in Segs : C[s] \in [Cells -> Contained]
         /\ \A s \in Segs : \A k \in Cells :
              /\ C[s][k] \in Contained
              /\ C[s][k] = cell[s][k]
                 \/ (cell[s][k] = NoItem
                     /\ \E u \in Threads : Puts(u, s, k) /\ C[s][k] = me[u].item)
BY DEF Foreseen, Contained

LEMMA StatusType ==
  ASSUME Inv, NEW u \in Threads, NEW C \in Foreseen, NEW S
  PROVE  Status(u, me[u], C, S) \in Calls
<1>1. /\ me[u].at \in Enqueuing => me[u].item \in Items
      /\ me[u].item \in Items \cup {NoItem}
  BY Mine DEF Local
<1>2. "enqCell" \in Enqueuing
  BY DEF Enqueuing
<1> QED BY <1>1, <1>2, CallType DEF Status

LEMMA CallingType ==
  ASSUME Inv, NEW C \in Foreseen, NEW S
  PROVE  /\ Calling(C, S) \in [Threads -> Calls]
         /\ \A u \in Threads : Calling(C, S)[u] = Status(u, me[u], C, S)
BY StatusType DEF Calling

LEMMA StatusSame ==
  ASSUME NEW u, NEW m, NEW C, NEW D, NEW S, NEW E, u \in S <=> u \in E,
         m.at \in {"enqCell", "deqCell"} => D[m.seg][m.idx] = C[m.seg][m.idx]
  PROVE  Status(u, m, D, E) = Status(u, m, C, S)
BY DEF Status

(* A call that has come to x, with the queue at Q, comes to y. *)
Effect(Q, x, R, y) ==
  \/ R = Q /\ y = x
  \/ x = Monitor!DeqCall /\ Q = <<>> /\ R = <<>> /\ y = Monitor!Done(NoItem)
  \/ x = Monitor!DeqCall /\ Q # <<>> /\ R = Tail(Q) /\ y = Monitor!Done(Head(Q))
  \/ \E v \in Items : /\ x = Monitor!EnqCall(v) /\ R = Append(Q, v)
                      /\ y = Monitor!Done(NoItem)

LEMMA EffectReaches ==
  ASSUME NEW A, A \subseteq Confs, NEW Q, NEW call \in [Threads -> Calls],
         Reaches(A, Conf(Q, call)), NEW t \in Threads, NEW R, NEW y,
         Effect(Q, call[t], R, y)
  PROVE  Reaches(A, Conf(R, [call EXCEPT ![t] = y]))
<1>0. PICK d : d = Conf(Q, call)
  OBVIOUS
<1>1. d.queue = Q /\ d.call = call
  BY <1>0, ConfType
<1>2. CASE R = Q /\ y = call[t]
  <2>1. [call EXCEPT ![t] = y] = call
    BY <1>2
  <2> QED BY <1>2, <2>1
<1>3. CASE Takes(d, t, Conf(R, [call EXCEPT ![t] = y]))
  BY <1>0, <1>3, ReachesMore
<1> QED BY <1>1, <1>2, <1>3 DEF Effect, Takes

(* What the invariant asks of one choice of cells and of dequeuers. *)
Explained(W, C, S) ==
  \E Q \in Seq(Items) : Picks(W, C, Q) /\ Reaches(configs, Conf(Q, Calling(C, S)))

LEMMA ExplainsEach ==
  ASSUME NEW W, \A C \in Foreseen' : \A S \in SUBSET Maybe' : Explained(W, C, S)'
  PROVE  Explains(W)'
BY DEF Explains, Explained

(* The step of t has at most the effect of the call of t. *)
LEMMA ExplainedStep ==
  ASSUME Inv, configs \subseteq Confs,
         NEW W, NEW C \in Foreseen, NEW S, Explained(W, C, S),
         NEW t \in Threads, NEW m \in Locals, me' = [me EXCEPT ![t] = m],
         configs' = configs, NEW D, NEW E, NEW X,
         \A u \in Threads : u # t => Status(u, me[u], D, E) = Status(u, me[u], C, S),
         \A Q \in Seq(Items) : Picks(W, C, Q) =>
           \E R \in Seq(Items) : /\ Picks(X, D, R)
             /\ Effect(Q, Status(t, me[t], C, S), R, Status(t, m, D, E))
  PROVE  Explained(X, D, E)'
<1>1. PICK Q \in Seq(Items) : /\ Picks(W, C, Q)
                              /\ Reaches(configs, Conf(Q, Calling(C, S)))
  BY DEF Explained
<1>2. PICK R \in Seq(Items) : /\ Picks(X, D, R)
             /\ Effect(Q, Status(t, me[t], C, S), R, Status(t, m, D, E))
  BY <1>1
<1>3. Calling(D, E)' = [Calling(C, S) EXCEPT ![t] = Status(t, m, D, E)]
  <2>1. me'[t] = m /\ \A u \in Threads : u # t => me'[u] = me[u]
    BY MeFacts DEF Inv, SegInv
  <2>2. Calling(D, E)' = [u \in Threads |-> Status(u, me'[u], D, E)]
    BY DEF Calling, Status
  <2>3. Calling(C, S) = [u \in Threads |-> Status(u, me[u], C, S)]
    BY DEF Calling
  <2> QED BY <2>1, <2>2, <2>3
<1>4. Calling(C, S) \in [Threads -> Calls] /\ Calling(C, S)[t] = Status(t, me[t], C, S)
  BY CallingType
<1>5. Reaches(configs, Conf(R, Calling(D, E)'))
  <2>c. PICK call \in [Threads -> Calls] : call = Calling(C, S)
    BY <1>4
  <2>1. Effect(Q, call[t], R, Status(t, m, D, E))
    BY <1>2, <1>4, <2>c
  <2>2. Reaches(configs, Conf(Q, call))
    BY <1>1, <2>c
  <2>3. Reaches(configs, Conf(R, [call EXCEPT ![t] = Status(t, m, D, E)]))
    BY ONLY configs \subseteq Confs, call \in [Threads -> Calls], <2>1, <2>2,
       t \in Threads, EffectReaches
  <2> QED BY <1>3, <2>c, <2>3
<1>6. Reaches(configs', Conf(R, Calling(D, E)'))
  BY <1>5
<1> QED BY <1>2, <1>6 DEF Explained, Reaches, Conf

(* Nor does the queue change. *)
LEMMA ExplainedSilent ==
  ASSUME Inv, configs \subseteq Confs,
         NEW W, NEW C \in Foreseen, NEW S, Explained(W, C, S),
         NEW t \in Threads, NEW m \in Locals, me' = [me EXCEPT ![t] = m],
         configs' = configs, NEW D, NEW E,
         \A u \in Threads : u # t => Status(u, me[u], D, E) = Status(u, me[u], C, S),
         \A j \in 1 .. Len(W) : At(D, W[j]) = At(C, W[j]),
         Status(t, m, D, E) = Status(t, me[t], C, S)
  PROVE  Explained(W, D, E)'
<1>1. ASSUME NEW Q \in Seq(Items), Picks(W, C, Q)
      PROVE  \E R \in Seq(Items) : /\ Picks(W, D, R)
               /\ Effect(Q, Status(t, me[t], C, S), R, Status(t, m, D, E))
  <2>1. Picks(W, D, Q)
    BY <1>1, PicksSame
  <2> QED BY <2>1 DEF Effect
<1> QED BY <1>1, ExplainedStep

LEMMA ExplainedCall ==
  ASSUME Inv, configs \subseteq Confs,
         NEW W, NEW C \in Foreseen, NEW S, Explained(W, C, S),
         NEW t \in Threads, NEW m \in Locals, me' = [me EXCEPT ![t] = m],
         NEW x \in Calls, x.stage # "done", configs' = Monitor!Called(configs, t, x),
         Status(t, me[t], C, S) = Monitor!NoCall, Status(t, m, C, S) = x
  PROVE  Explained(W, C, S)' /\ configs' \subseteq Confs
<1>1. PICK Q \in Seq(Items) : /\ Picks(W, C, Q)
                              /\ Reaches(configs, Conf(Q, Calling(C, S)))
  BY DEF Explained
<1>2. PICK d : d = Conf(Q, Calling(C, S))
  OBVIOUS
<1>3. d.queue = Q /\ d.call = Calling(C, S)
  BY <1>2, ConfType
<1>4. Calling(C, S)' = [Calling(C, S) EXCEPT ![t] = x]
  <2>1. me'[t] = m /\ \A u \in Threads : u # t => me'[u] = me[u]
    BY MeFacts DEF Inv, SegInv
  <2>2. Calling(C, S)' = [u \in Threads |-> Status(u, me'[u], C, S)]
    BY DEF Calling, Status
  <2>3. Calling(C, S) = [u \in Threads |-> Status(u, me[u], C, S)]
    BY DEF Calling
  <2> QED BY <2>1, <2>2, <2>3
<1>5. d.call[t] = Monitor!NoCall
  BY <1>3, CallingType
<1>6. With(d, t, x) = Conf(Q, Calling(C, S)')
  BY <1>3, <1>4 DEF With
<1>7. /\ configs' \subseteq Confs
      /\ Reaches(configs', Conf(Q, Calling(C, S)'))
  BY <1>1, <1>2, <1>5, <1>6, ReachesCall
<1> QED BY <1>1, <1>7 DEF Explained, Reaches, Conf

LEMMA ExplainedReturn ==
  ASSUME Inv, configs \subseteq Confs,
         NEW W, NEW C \in Foreseen, NEW S, Explained(W, C, S),
         NEW t \in Threads, NEW m \in Locals, me' = [me EXCEPT ![t] = m],
         NEW r \in Items \cup {NoItem}, configs' = Monitor!Returned(configs, t, r),
         Status(t, me[t], C, S) = Monitor!Done(r),
         Status(t, m, C, S) = Monitor!NoCall
  PROVE  Explained(W, C, S)' /\ configs' \subseteq Confs
<1>1. PICK Q \in Seq(Items) : /\ Picks(W, C, Q)
                              /\ Reaches(configs, Conf(Q, Calling(C, S)))
  BY DEF Explained
<1>2. PICK d : d = Conf(Q, Calling(C, S))
  OBVIOUS
<1>3. d.queue = Q /\ d.call = Calling(C, S)
  BY <1>2, ConfType
<1>4. Calling(C, S)' = [Calling(C, S) EXCEPT ![t] = Monitor!NoCall]
  <2>1. me'[t] = m /\ \A u \in Threads : u # t => me'[u] = me[u]
    BY MeFacts DEF Inv, SegInv
  <2>2. Calling(C, S)' = [u \in Threads |-> Status(u, me'[u], C, S)]
    BY DEF Calling, Status
  <2>3. Calling(C, S) = [u \in Threads |-> Status(u, me[u], C, S)]
    BY DEF Calling
  <2> QED BY <2>1, <2>2, <2>3
<1>5. d.call[t] = Monitor!Done(r)
  BY <1>3, CallingType
<1>6. With(d, t, Monitor!NoCall) = Conf(Q, Calling(C, S)')
  BY <1>3, <1>4 DEF With
<1>7. /\ configs' \subseteq Confs
      /\ Reaches(configs', Conf(Q, Calling(C, S)'))
  BY <1>1, <1>2, <1>5, <1>6, ReachesReturn
<1> QED BY <1>1, <1>7 DEF Explained, Reaches, Conf

LEMMA MaybeShrinks ==
  ASSUME Inv, NEW t \in Threads, NEW m \in Locals, me' = [me EXCEPT ![t] = m],
         \A u \in Threads : me[u].at = "deqLast" /\ next'[me[u].seg] = Null
                              => next[me[u].seg] = Null,
         ~ (m.at = "deqLast" /\ next'[m.seg] = Null)
  PROVE  Maybe' \subseteq Maybe /\ t \notin Maybe'
<1>1. me'[t] = m /\ \A u \in Threads : u # t => me'[u] = me[u]
  BY MeFacts DEF Inv, SegInv
<1> QED BY <1>1 DEF Maybe

(* Nobody draws a cell to put an item into. *)
LEMMA ForeseenSame ==
  ASSUME Inv, NEW t \in Threads, NEW m \in Locals, me' = [me EXCEPT ![t] = m],
         cell' = cell, m.at # "enqCell"
  PROVE  Foreseen' \subseteq Foreseen
<1>1. me'[t] = m /\ \A u \in Threads : u # t => me'[u] = me[u]
  BY MeFacts DEF Inv, SegInv
<1>2. \A u \in Threads : \A s, k : Puts(u, s, k)' => Puts(u, s, k) /\ me'[u] = me[u]
  BY <1>1 DEF Puts
<1> QED BY <1>2 DEF Foreseen

Searching == {"deqLoad", "deqPublish", "deqDraw", "deqIndex", "deqLast",
              "deqDrained", "deqAdvance", "retire"}

LEMMA StatusFacts ==
  ASSUME NEW u, NEW m, NEW C, NEW S
  PROVE  /\ m.at = "idle" => Status(u, m, C, S) = Monitor!NoCall
         /\ m.at = "enqCell" /\ C[m.seg][m.idx] = m.item
              => Status(u, m, C, S) = Monitor!Done(NoItem)
         /\ m.at \in Enqueuing /\ (m.at = "enqCell" => C[m.seg][m.idx] # m.item)
              => Status(u, m, C, S) = Monitor!EnqCall(m.item)
         /\ m.at \in Over => Status(u, m, C, S) = Monitor!Done(NoItem)
         /\ m.at = "deqCell" /\ C[m.seg][m.idx] \in Items
              => Status(u, m, C, S) = Monitor!Done(C[m.seg][m.idx])
         /\ m.at = "deqCell" /\ C[m.seg][m.idx] \notin Items /\ u \notin S
              => Status(u, m, C, S) = Monitor!DeqCall
         /\ m.at = "deqClear" => Status(u, m, C, S) = Monitor!Done(m.item)
         /\ m.at = "deqFix" => Status(u, m, C, S) = Monitor!Done(NoItem)
         /\ m.at \in Searching /\ u \notin S => Status(u, m, C, S) = Monitor!DeqCall
         /\ m.at \in Searching /\ u \in S => Status(u, m, C, S) = Monitor!Done(NoItem)
<1>1. /\ "idle" \notin Enqueuing \cup Over \cup Searching \cup {"deqCell"}
      /\ "deqClear" \notin Enqueuing \cup Over \cup Searching \cup {"deqCell"}
      /\ "deqFix" \notin Enqueuing \cup Over \cup Searching \cup {"deqCell"}
      /\ "deqCell" \notin Enqueuing \cup Over \cup Searching
      /\ "enqCell" \notin Over \cup Searching /\ "enqCell" \in Enqueuing
      /\ Enqueuing \cap Over = {} /\ Enqueuing \cap Searching = {}
      /\ Over \cap Searching = {} /\ "idle" # "deqClear" /\ "idle" # "enqCell"
      /\ "deqClear" # "enqCell" /\ "deqFix" # "enqCell" /\ "deqFix" # "deqClear"
      /\ "idle" # "deqFix"
  BY DEF Enqueuing, Over, Searching
<1> QED BY <1>1 DEF Status

LEMMA FoundAt ==
  ASSUME FoundInv, NEW t \in Threads
  PROVE  /\ Found(me[t])
         /\ me[t].at \in Searching \cup {"idle", "deqCell", "deqFix"}
              => me[t].item = NoItem
         /\ \A s \in Segs : next[s] # Null => enqidx[s] >= BufferSize
<1>1. Found(me[t]) /\ \A s \in Segs : next[s] # Null => enqidx[s] >= BufferSize
  BY DEF FoundInv
<1>2. \A a \in Searching \cup {"idle", "deqCell", "deqFix"} :
        a \notin Enqueuing \cup Over \cup {"deqClear"}
  BY DEF Searching, Enqueuing, Over
<1> QED BY <1>1, <1>2 DEF Found

LEMMA FoundKept ==
  ASSUME Inv, FoundInv, NEW t \in Threads, NEW m \in Locals,
         me' = [me EXCEPT ![t] = m], head' = head, next' = next,
         enqidx' = enqidx, deqidx' = deqidx, cell' = cell,
         Found(m), m.at # "enqCell", me[t].at # "deqCell"
  PROVE  FoundInv'
<1>1. me'[t] = m /\ \A u \in Threads : u # t => me'[u] = me[u]
  BY MeFacts DEF Inv, SegInv
<1>2. /\ \A u \in Threads : \A s, k : Puts(u, s, k)' => Puts(u, s, k)
      /\ \A u \in Threads : \A s, k : Visits(u, s, k) => Visits(u, s, k)'
  BY <1>1 DEF Puts, Visits
<1>3. ASSUME NEW u \in Threads PROVE Found(me[u])'
  <2>1. PICK x : x = me'[u]
    OBVIOUS
  <2>2. Found(x)
    BY <1>1, <2>1 DEF FoundInv
  <2>3. Found(x)'
    BY <2>2 DEF Found
  <2> QED BY <2>1, <2>3 DEF Found
<1> QED BY <1>2, <1>3 DEF FoundInv

(* The locals that are sound whatever the segments are. *)
LEMMA FoundEasy ==
  ASSUME NEW m,
         \/ m.at \in {"enqLoad", "enqPublish", "enqDraw", "enqHelp", "enqSwing",
                      "enqClear", "deqClear"}
         \/ /\ m.at \in {"idle", "deqLoad", "deqPublish", "retire"}
            /\ m.item = NoItem
  PROVE  Found(m) /\ m.at # "enqCell" /\ m.at # "deqLast"
BY DEF Found, HoldHead, Enqueuing, Over

LEMMA LinKept ==
  ASSUME Inv, LinInv, head' = head, tail' = tail, next' = next, enqidx' = enqidx,
         deqidx' = deqidx, cell' = cell, me' = me, configs' = configs
  PROVE  LinInv'
<1>1. FoundInv'
  BY DEF LinInv, FoundInv, Found, Puts, Visits
<1>2. PICK W : Awaits(W) /\ Explains(W)
  BY DEF LinInv
<1>3. Awaits(W)'
  BY <1>2, AwaitsKept
<1>4. Foreseen' = Foreseen /\ Maybe' = Maybe
  BY DEF Foreseen, Maybe, Puts
<1>5. \A C, S : Explained(W, C, S) => Explained(W, C, S)'
  <2> SUFFICES ASSUME NEW C, NEW S, Explained(W, C, S) PROVE Explained(W, C, S)'
    OBVIOUS
  <2>1. Calling(C, S)' = Calling(C, S)
    BY DEF Calling, Status
  <2> QED BY <2>1 DEF Explained, Reaches, Conf
<1>6. \A C \in Foreseen' : \A S \in SUBSET Maybe' : Explained(W, C, S)'
  BY <1>2, <1>4, <1>5 DEF Explains, Explained
<1> QED BY <1>1, <1>3, <1>6, ExplainsEach DEF LinInv

(* A step of t that only t sees. *)
LEMMA ExplainsSilent ==
  ASSUME Inv, configs \subseteq Confs, NEW W, Explains(W),
         NEW t \in Threads, NEW m \in Locals,
         me' = [me EXCEPT ![t] = m], next' = next, cell' = cell, configs' = configs,
         m.at # "enqCell", ~ (m.at = "deqLast" /\ next[m.seg] = Null),
         \A C \in Foreseen : Status(t, m, C, {}) = Status(t, me[t], C, {})
  PROVE  Explains(W)'
<1>1. Maybe' \subseteq Maybe /\ t \notin Maybe'
  BY MaybeShrinks
<1>2. Foreseen' \subseteq Foreseen
  BY ForeseenSame
<1>3. ASSUME NEW C \in Foreseen', NEW S \in SUBSET Maybe' PROVE Explained(W, C, S)'
  <2>1. C \in Foreseen /\ S \in SUBSET Maybe /\ t \notin S
    BY <1>1, <1>2
  <2>2. Explained(W, C, S)
    BY <2>1 DEF Explains, Explained
  <2>3. Status(t, m, C, S) = Status(t, me[t], C, S)
    <3>1. /\ Status(t, m, C, S) = Status(t, m, C, {})
          /\ Status(t, me[t], C, S) = Status(t, me[t], C, {})
      BY <2>1, StatusSame
    <3> QED BY <2>1, <3>1
  <2>4. /\ \A u \in Threads : u # t => Status(u, me[u], C, S) = Status(u, me[u], C, S)
        /\ \A j \in 1 .. Len(W) : At(C, W[j]) = At(C, W[j])
    OBVIOUS
  <2> QED BY <2>1, <2>2, <2>3, <2>4, ExplainedSilent
<1> QED BY <1>3, ExplainsEach

LEMMA LinSilent ==
  ASSUME Inv, LinInv, NEW t \in Threads, NEW m \in Locals,
         me' = [me EXCEPT ![t] = m], head' = head, next' = next,
         enqidx' = enqidx, deqidx' = deqidx, cell' = cell, configs' = configs,
         tail' = tail \/ (tail' = next[tail] /\ next[tail] # Null),
         Found(m), m.at # "enqCell", me[t].at # "deqCell",
         ~ (m.at = "deqLast" /\ next[m.seg] = Null),
         \A C \in Foreseen : Status(t, m, C, {}) = Status(t, me[t], C, {})
  PROVE  LinInv'
<1>1. FoundInv'
  BY FoundKept DEF LinInv
<1>2. PICK W : Awaits(W) /\ Explains(W)
  BY DEF LinInv
<1>3. Awaits(W)'
  BY <1>2, AwaitsKept
<1>4. Explains(W)'
  BY <1>2, ExplainsSilent DEF LinInv
<1> QED BY <1>1, <1>3, <1>4 DEF LinInv

LEMMA EnqSilent ==
  ASSUME Inv, LinInv, NEW t \in Threads, NEW m \in Locals,
         me' = [me EXCEPT ![t] = m], head' = head, next' = next,
         enqidx' = enqidx, deqidx' = deqidx, cell' = cell, configs' = configs,
         tail' = tail \/ (tail' = next[tail] /\ next[tail] # Null),
         me[t].at \in Enqueuing \ {"enqCell"}, m.at \in Enqueuing \ {"enqCell"},
         Found(m), m.item = me[t].item
  PROVE  LinInv'
<1>1. \A C \in Foreseen : Status(t, m, C, {}) = Status(t, me[t], C, {})
  BY StatusFacts
<1>2. m.at # "deqLast" /\ me[t].at # "deqCell" /\ m.at # "enqCell"
  BY DEF Enqueuing
<1> QED BY <1>1, <1>2, LinSilent

LEMMA DeqSilent ==
  ASSUME Inv, LinInv, NEW t \in Threads, NEW m \in Locals,
         me' = [me EXCEPT ![t] = m], head' = head, next' = next, tail' = tail,
         enqidx' = enqidx, deqidx' = deqidx, cell' = cell, configs' = configs,
         me[t].at \in Searching, m.at \in Searching, Found(m),
         ~ (m.at = "deqLast" /\ next[m.seg] = Null)
  PROVE  LinInv'
<1>1. \A C \in Foreseen : Status(t, m, C, {}) = Status(t, me[t], C, {})
  BY StatusFacts
<1>2. me[t].at # "deqCell" /\ m.at # "enqCell"
  BY DEF Searching
<1> QED BY <1>1, <1>2, LinSilent

LEMMA LocalsMade ==
  ASSUME NEW m \in Locals, NEW at, NEW x, NEW y
  PROVE  /\ LET n == [m EXCEPT !.at = at, !.seg = x] IN
              /\ n.at = at /\ n.seg = x /\ n.other = m.other /\ n.item = m.item
         /\ LET n == [m EXCEPT !.at = at, !.other = x] IN
              /\ n.at = at /\ n.seg = m.seg /\ n.other = x /\ n.item = m.item
         /\ LET n == [m EXCEPT !.at = at, !.item = x] IN
              /\ n.at = at /\ n.seg = m.seg /\ n.idx = m.idx /\ n.item = x
         /\ LET n == [m EXCEPT !.at = at, !.last = x] IN
              /\ n.at = at /\ n.seg = m.seg /\ n.idx = m.idx /\ n.item = m.item
              /\ n.last = x
         /\ LET n == [m EXCEPT !.at = at, !.idx = x] IN
              /\ n.at = at /\ n.seg = m.seg /\ n.idx = x /\ n.item = m.item
         /\ LET n == [m EXCEPT !.at = at, !.idx = x, !.last = y] IN
              /\ n.at = at /\ n.seg = m.seg /\ n.idx = x /\ n.item = m.item
         /\ LET n == [m EXCEPT !.at = at] IN
              /\ n.at = at /\ n.seg = m.seg /\ n.other = m.other /\ n.item = m.item
              /\ n.idx = m.idx /\ n.last = m.last
BY DEF Locals

(* Where t has gone. *)
LEMMA Gone ==
  ASSUME Inv, Inv', NEW t \in Threads, NEW m, me' = [me EXCEPT ![t] = m]
  PROVE  m \in Locals
<1>1. me'[t] = m
  BY DEF Inv, SegInv, Types
<1>2. me'[t] \in Locals
  BY DEF Inv, SegInv, Types
<1> QED BY <1>1, <1>2

LEMMA GotoMade ==
  ASSUME Inv, Inv', NEW t \in Threads, NEW there, Goto(t, there)
  PROVE  \E m \in Locals :
           /\ me' = [me EXCEPT ![t] = m] /\ configs' = configs
           /\ m.at = there /\ m.seg = me[t].seg /\ m.other = me[t].other
           /\ m.item = me[t].item /\ m.idx = me[t].idx /\ m.last = me[t].last
<1>1. PICK m : m = [me[t] EXCEPT !.at = there]
  OBVIOUS
<1>2. me' = [me EXCEPT ![t] = m] /\ configs' = configs
  BY <1>1 DEF Goto, Become, history
<1>3. /\ m.at = there /\ m.seg = me[t].seg /\ m.other = me[t].other
      /\ m.item = me[t].item /\ m.idx = me[t].idx /\ m.last = me[t].last
  BY <1>1, Mine, LocalsMade
<1> QED BY <1>2, <1>3, Gone

LEMMA RestartMade ==
  ASSUME Inv, Inv', NEW t \in Threads, NEW there, Restart(t, there)
  PROVE  \E m \in Locals :
           /\ me' = [me EXCEPT ![t] = m] /\ configs' = configs
           /\ m.at = there /\ m.item = me[t].item
<1>1. PICK m : m = [Fresh EXCEPT !.at = there, !.item = me[t].item]
  OBVIOUS
<1>2. me' = [me EXCEPT ![t] = m] /\ configs' = configs
  BY <1>1 DEF Restart, Become, history
<1>3. m.at = there /\ m.item = me[t].item
  BY <1>1, FreshLocals, LocalsMade
<1> QED BY <1>2, <1>3, Gone

LEMMA TailMoved ==
  ASSUME Inv, NEW t \in Threads, CasTail(t), me[t].at \in Advancing
  PROVE  tail' = tail \/ (tail' = next[tail] /\ next[tail] # Null)
BY Mine DEF CasTail, HolderInv, Follows

----------------------------------------------------------------------------
(* enqueue *)

LEMMA LinEnqProtectLoad ==
  ASSUME Inv, Inv', LinInv, NEW t \in Threads, EnqProtectLoad(t) PROVE LinInv'
<1>1. /\ me[t].at = "enqLoad" /\ head' = head /\ tail' = tail /\ next' = next
      /\ enqidx' = enqidx /\ deqidx' = deqidx /\ cell' = cell
  BY DEF EnqProtectLoad, ProtectLoad, list
<1>2. CASE Goto(t, "enqDraw")
  <2>1. PICK m \in Locals : /\ me' = [me EXCEPT ![t] = m] /\ configs' = configs
                            /\ m.at = "enqDraw" /\ m.item = me[t].item
    BY <1>2, GotoMade
  <2>2. Found(m)
    BY <2>1, FoundEasy
  <2> QED BY <1>1, <2>1, <2>2, EnqSilent DEF Enqueuing
<1>3. CASE Become(t, [me[t] EXCEPT !.at = "enqPublish", !.seg = tail])
  <2>1. PICK m : m = [me[t] EXCEPT !.at = "enqPublish", !.seg = tail]
    OBVIOUS
  <2>2. me' = [me EXCEPT ![t] = m] /\ configs' = configs
    BY <1>3, <2>1 DEF Become, history
  <2>3. m.at = "enqPublish" /\ m.item = me[t].item
    BY <2>1, Mine, LocalsMade
  <2>4. m \in Locals
    BY <2>2, Gone
  <2>5. Found(m)
    BY <2>3, FoundEasy
  <2> QED BY <1>1, <2>2, <2>3, <2>4, <2>5, EnqSilent DEF Enqueuing
<1> QED BY <1>2, <1>3 DEF EnqProtectLoad, ProtectLoad

LEMMA LinEnqProtectPublish ==
  ASSUME Inv, Inv', LinInv, NEW t \in Threads, EnqProtectPublish(t) PROVE LinInv'
<1>1. /\ me[t].at = "enqPublish" /\ head' = head /\ tail' = tail /\ next' = next
      /\ enqidx' = enqidx /\ deqidx' = deqidx /\ cell' = cell /\ Goto(t, "enqLoad")
  BY DEF EnqProtectPublish, Published, Publish, list
<1>2. PICK m \in Locals : /\ me' = [me EXCEPT ![t] = m] /\ configs' = configs
                          /\ m.at = "enqLoad" /\ m.item = me[t].item
  BY <1>1, GotoMade
<1>3. Found(m)
  BY <1>2, FoundEasy
<1> QED BY <1>1, <1>2, <1>3, EnqSilent DEF Enqueuing

LEMMA LinEnqFull ==
  ASSUME Inv, Inv', LinInv, NEW t \in Threads, EnqFull(t) PROVE LinInv'
<1>1. /\ me[t].at = "enqFull" /\ head' = head /\ tail' = tail /\ next' = next
      /\ enqidx' = enqidx /\ deqidx' = deqidx /\ cell' = cell
  BY DEF EnqFull, list
<1>2. CASE Goto(t, "enqNext")
  <2>1. PICK m \in Locals : /\ me' = [me EXCEPT ![t] = m] /\ configs' = configs
                            /\ m.at = "enqNext" /\ m.item = me[t].item
                            /\ m.seg = me[t].seg
    BY <1>2, GotoMade
  <2>2. Found(m)
    <3>1. Found(me[t])
      BY FoundAt DEF LinInv
    <3> QED BY <1>1, <2>1, <3>1 DEF Found, HoldHead, Enqueuing
  <2> QED BY <1>1, <2>1, <2>2, EnqSilent DEF Enqueuing
<1>3. CASE Restart(t, "enqLoad")
  <2>1. PICK m \in Locals : /\ me' = [me EXCEPT ![t] = m] /\ configs' = configs
                            /\ m.at = "enqLoad" /\ m.item = me[t].item
    BY <1>3, RestartMade
  <2>2. Found(m)
    BY <2>1, FoundEasy
  <2> QED BY <1>1, <2>1, <2>2, EnqSilent DEF Enqueuing
<1> QED BY <1>2, <1>3 DEF EnqFull

LEMMA LinEnqHelp ==
  ASSUME Inv, Inv', LinInv, NEW t \in Threads, EnqHelp(t) PROVE LinInv'
<1>1. /\ me[t].at = "enqHelp" /\ head' = head /\ next' = next /\ CasTail(t)
      /\ enqidx' = enqidx /\ deqidx' = deqidx /\ cell' = cell
      /\ Restart(t, "enqLoad")
  BY DEF EnqHelp
<1>2. PICK m \in Locals : /\ me' = [me EXCEPT ![t] = m] /\ configs' = configs
                          /\ m.at = "enqLoad" /\ m.item = me[t].item
  BY <1>1, RestartMade
<1>3. Found(m)
  BY <1>2, FoundEasy
<1>4. tail' = tail \/ (tail' = next[tail] /\ next[tail] # Null)
  BY <1>1, TailMoved DEF Advancing
<1> QED BY <1>1, <1>2, <1>3, <1>4, EnqSilent DEF Enqueuing

(* The loser of the race for next. *)
LEMMA LinEnqUnlinked ==
  ASSUME Inv, Inv', LinInv, NEW t \in Threads, EnqLink(t), next[me[t].seg] # Null
  PROVE  LinInv'
<1>1. /\ me[t].at = "enqLink" /\ head' = head /\ tail' = tail /\ next' = next
      /\ enqidx' = enqidx /\ deqidx' = deqidx /\ cell' = cell
      /\ Restart(t, "enqLoad")
  BY DEF EnqLink
<1>2. PICK m \in Locals : /\ me' = [me EXCEPT ![t] = m] /\ configs' = configs
                          /\ m.at = "enqLoad" /\ m.item = me[t].item
  BY <1>1, RestartMade
<1>3. Found(m)
  BY <1>2, FoundEasy
<1> QED BY <1>1, <1>2, <1>3, EnqSilent DEF Enqueuing

(* The segment has a successor already. *)
LEMMA LinEnqFollow ==
  ASSUME Inv, Inv', LinInv, NEW t \in Threads, EnqNext(t), next[me[t].seg] # Null
  PROVE  LinInv'
<1>1. PICK m : m = [me[t] EXCEPT !.at = "enqHelp", !.other = next[me[t].seg]]
  OBVIOUS
<1>2. /\ me[t].at = "enqNext" /\ head' = head /\ tail' = tail /\ next' = next
      /\ enqidx' = enqidx /\ deqidx' = deqidx /\ cell' = cell
      /\ me' = [me EXCEPT ![t] = m] /\ configs' = configs
  BY <1>1 DEF EnqNext, Become, history, list
<1>3. m.at = "enqHelp" /\ m.item = me[t].item
  BY <1>1, Mine, LocalsMade
<1>4. m \in Locals
  BY <1>2, Gone
<1>5. Found(m)
  BY <1>3, FoundEasy
<1> QED BY <1>2, <1>3, <1>4, <1>5, EnqSilent DEF Enqueuing

(* The cell drawn has been taken. *)
LEMMA LinEnqLost ==
  ASSUME Inv, Inv', LinInv, NEW t \in Threads, EnqCell(t),
         cell[me[t].seg][me[t].idx] # NoItem
  PROVE  LinInv'
<1>1. /\ me[t].at = "enqCell" /\ head' = head /\ tail' = tail /\ next' = next
      /\ enqidx' = enqidx /\ deqidx' = deqidx /\ cell' = cell
      /\ Restart(t, "enqLoad")
  BY DEF EnqCell, list
<1>2. PICK m \in Locals : /\ me' = [me EXCEPT ![t] = m] /\ configs' = configs
                          /\ m.at = "enqLoad" /\ m.item = me[t].item
  BY <1>1, RestartMade
<1>3. Found(m)
  BY <1>2, FoundEasy
<1>4. \A C \in Foreseen : Status(t, m, C, {}) = Status(t, me[t], C, {})
  <2>1. /\ me[t].seg \in Segs /\ me[t].idx \in Cells /\ me[t].item \in Items
        /\ cell[me[t].seg][me[t].idx] = Taken
    <3>1. Found(me[t])
      BY FoundAt DEF LinInv
    <3>2. me[t].seg \in Segs /\ Local(me[t])
      BY <1>1, Mine DEF Hold, HoldTail
    <3> QED BY <1>1, <3>1, <3>2 DEF Found, Local, Indexing, Enqueuing
  <2>2. ASSUME NEW C \in Foreseen PROVE C[me[t].seg][me[t].idx] # me[t].item
    BY <2>1, ForeseenAt, Bounds
  <2> QED BY <1>1, <1>2, <2>2, StatusFacts DEF Enqueuing
<1> QED BY <1>1, <1>2, <1>3, <1>4, LinSilent

----------------------------------------------------------------------------
(* dequeue *)

LEMMA AwaitsNothing ==
  ASSUME Inv, NEW W, Awaits(W), next[head] = Null,
         deqidx[head] >= BufferSize \/ deqidx[head] >= enqidx[head]
  PROVE  W = <<>>
<1> SUFFICES ASSUME W # <<>> PROVE FALSE
  OBVIOUS
<1>1. /\ head \in Segs /\ Null \notin Segs /\ BufferSize \in Nat
      /\ deqidx[head] \in Nat /\ enqidx[head] \in Nat
  BY Fields
<1>2. /\ W[1][1] \in Segs /\ W[1][2] < enqidx[W[1][1]] /\ W[1][2] \in Nat
      /\ W[1] = Front
  <2>1. 1 \in 1 .. Len(W) /\ Contents
    BY AwaitsAt, Fields
  <2>2. W[1] = Front
    BY DEF Awaits
  <2> QED BY <2>1, <2>2, AwaitsAt
<1>3. CASE deqidx[head] < BufferSize
  <2>1. W[1][1] = head /\ W[1][2] = deqidx[head]
    BY <1>2, <1>3 DEF Front
  <2> QED BY <1>1, <1>2, <1>3, <2>1
<1>4. CASE ~ (deqidx[head] < BufferSize)
  <2>1. W[1][1] = Null
    BY <1>2, <1>4 DEF Front
  <2> QED BY <1>1, <1>2, <2>1
<1> QED BY <1>3, <1>4

(* No cell is awaited: a dequeuer that has found none may return empty. *)
LEMMA ExplainsEmptied ==
  ASSUME Inv, configs \subseteq Confs, Explains(<<>>),
         NEW t \in Threads, NEW m \in Locals,
         me' = [me EXCEPT ![t] = m], configs' = configs,
         Foreseen' \subseteq Foreseen, Maybe' \subseteq Maybe \cup {t}, t \notin Maybe,
         me[t].at \in Searching,
         \A D, E : Status(t, m, D, E) \in {Monitor!DeqCall, Monitor!Done(NoItem)}
  PROVE  Explains(<<>>)'
<1>1. ASSUME NEW D \in Foreseen', NEW E \in SUBSET Maybe' PROVE Explained(<<>>, D, E)'
  <2>1. PICK S : S = E \ {t}
    OBVIOUS
  <2>2. D \in Foreseen /\ S \in SUBSET Maybe /\ t \notin S
    BY <2>1
  <2>3. Explained(<<>>, D, S)
    BY <2>2 DEF Explains, Explained
  <2>4. Status(t, me[t], D, S) = Monitor!DeqCall
    BY <2>2, StatusFacts
  <2>5. \A u \in Threads : u # t => Status(u, me[u], D, E) = Status(u, me[u], D, S)
    BY <2>1, StatusSame
  <2>6. ASSUME NEW Q \in Seq(Items), Picks(<<>>, D, Q)
        PROVE  \E R \in Seq(Items) : /\ Picks(<<>>, D, R)
                 /\ Effect(Q, Status(t, me[t], D, S), R, Status(t, m, D, E))
    <3>1. Q = <<>>
      BY <2>6, PicksNone
    <3>2. Effect(Q, Status(t, me[t], D, S), Q, Status(t, m, D, E))
      BY <2>4, <3>1 DEF Effect
    <3> QED BY <2>6, <3>2
  <2> QED BY <2>2, <2>3, <2>5, <2>6, ExplainedStep
<1> QED BY <1>1, ExplainsEach

LEMMA LinDeqProtectLoad ==
  ASSUME Inv, Inv', LinInv, NEW t \in Threads, DeqProtectLoad(t) PROVE LinInv'
<1>1. /\ me[t].at = "deqLoad" /\ head' = head /\ tail' = tail /\ next' = next
      /\ enqidx' = enqidx /\ deqidx' = deqidx /\ cell' = cell
  BY DEF DeqProtectLoad, ProtectLoad, list
<1>0. me[t].item = NoItem
  BY <1>1, FoundAt DEF Searching, LinInv
<1>2. CASE me[t].seg = head /\ Goto(t, "deqDraw")
  <2>1. PICK m \in Locals : /\ me' = [me EXCEPT ![t] = m] /\ configs' = configs
                            /\ m.at = "deqDraw" /\ m.item = me[t].item
                            /\ m.seg = me[t].seg
    BY <1>2, GotoMade
  <2>2. Found(m)
    BY <1>0, <1>2, <2>1 DEF Found
  <2> QED BY <1>1, <2>1, <2>2, DeqSilent DEF Searching
<1>3. CASE Become(t, [me[t] EXCEPT !.at = "deqPublish", !.seg = head])
  <2>1. PICK m : m = [me[t] EXCEPT !.at = "deqPublish", !.seg = head]
    OBVIOUS
  <2>2. me' = [me EXCEPT ![t] = m] /\ configs' = configs
    BY <1>3, <2>1 DEF Become, history
  <2>3. m.at = "deqPublish" /\ m.item = NoItem
    BY <1>0, <2>1, Mine, LocalsMade
  <2>4. m \in Locals
    BY <2>2, Gone
  <2>5. Found(m)
    BY <2>3, FoundEasy
  <2> QED BY <1>1, <2>2, <2>3, <2>4, <2>5, DeqSilent DEF Searching
<1> QED BY <1>2, <1>3 DEF DeqProtectLoad, ProtectLoad

LEMMA LinDeqProtectPublish ==
  ASSUME Inv, Inv', LinInv, NEW t \in Threads, DeqProtectPublish(t) PROVE LinInv'
<1>1. /\ me[t].at = "deqPublish" /\ head' = head /\ tail' = tail /\ next' = next
      /\ enqidx' = enqidx /\ deqidx' = deqidx /\ cell' = cell /\ Goto(t, "deqLoad")
  BY DEF DeqProtectPublish, Published, Publish, list
<1>2. PICK m \in Locals : /\ me' = [me EXCEPT ![t] = m] /\ configs' = configs
                          /\ m.at = "deqLoad" /\ m.item = me[t].item
  BY <1>1, GotoMade
<1>3. m.item = NoItem
  BY <1>1, <1>2, FoundAt DEF Searching, LinInv
<1>4. Found(m)
  BY <1>2, <1>3, FoundEasy
<1> QED BY <1>1, <1>2, <1>4, DeqSilent DEF Searching

LEMMA LinDeqDrained ==
  ASSUME Inv, Inv', LinInv, NEW t \in Threads, DeqDrained(t) PROVE LinInv'
<1>0. PICK p : p = IF next[me[t].seg] = Null THEN "deqClear" ELSE "deqAdvance"
  OBVIOUS
<1>1. PICK m : m = [me[t] EXCEPT !.at = p, !.other = next[me[t].seg]]
  OBVIOUS
<1>2. /\ me[t].at = "deqDrained" /\ head' = head /\ tail' = tail /\ next' = next
      /\ enqidx' = enqidx /\ deqidx' = deqidx /\ cell' = cell
      /\ me' = [me EXCEPT ![t] = m] /\ configs' = configs
  BY <1>0, <1>1 DEF DeqDrained, Become, history, list
<1>3. m.at = p /\ m.seg = me[t].seg /\ m.item = me[t].item
  BY <1>1, Mine, LocalsMade
<1>4. m \in Locals
  BY <1>2, Gone
<1>5. Found(me[t]) /\ me[t].item = NoItem
  BY <1>2, FoundAt DEF Searching, LinInv
<1>6. CASE next[me[t].seg] # Null
  <2>1. m.at = "deqAdvance"
    BY <1>0, <1>3, <1>6
  <2>2. Found(m)
    BY <1>2, <1>3, <1>5, <2>1 DEF Found, HoldHead
  <2> QED BY <1>2, <1>4, <2>1, <2>2, DeqSilent DEF Searching
<1>7. CASE next[me[t].seg] = Null
  <2>1. m.at = "deqClear"
    BY <1>0, <1>3, <1>7
  <2>2. Found(m)
    BY <2>1, FoundEasy
  <2>3. FoundInv'
    BY <1>2, <1>4, <2>1, <2>2, FoundKept DEF LinInv
  <2>4. next[head] = Null /\ deqidx[head] >= BufferSize
    BY <1>2, <1>5, <1>7 DEF Found, HoldHead
  <2>5. PICK W : Awaits(W) /\ Explains(W)
    BY DEF LinInv
  <2>6. W = <<>>
    BY <2>4, <2>5, AwaitsNothing
  <2>7. Awaits(W)'
    BY <1>2, <2>5, AwaitsKept
  <2>8. Maybe' \subseteq Maybe /\ t \notin Maybe
    BY <1>2, <1>4, <2>1, MaybeShrinks DEF Maybe
  <2>9. Foreseen' \subseteq Foreseen
    BY <1>2, <1>4, <2>1, ForeseenSame
  <2>10. \A D, E : Status(t, m, D, E) = Monitor!Done(NoItem)
    BY <1>3, <1>5, <2>1, StatusFacts
  <2>11. Explains(<<>>)'
    BY <1>2, <1>4, <2>5, <2>6, <2>8, <2>9, <2>10, ExplainsEmptied DEF Searching, LinInv
  <2> QED BY <1>2, <2>3, <2>6, <2>7, <2>11 DEF LinInv
<1> QED BY <1>6, <1>7

(* No enqueuer is ahead: if no other segment follows, the queue is empty. *)
LEMMA LinDeqIndex ==
  ASSUME Inv, Inv', LinInv, NEW t \in Threads, DeqIndex(t) PROVE LinInv'
<1>1. /\ me[t].at = "deqIndex" /\ head' = head /\ tail' = tail /\ next' = next
      /\ enqidx' = enqidx /\ deqidx' = deqidx /\ cell' = cell
  BY DEF DeqIndex, list
<1>2. Found(me[t]) /\ me[t].item = NoItem
  BY <1>1, FoundAt DEF Searching, LinInv
<1>3. CASE Goto(t, "deqDraw")
  <2>1. PICK m \in Locals : /\ me' = [me EXCEPT ![t] = m] /\ configs' = configs
                            /\ m.at = "deqDraw" /\ m.item = me[t].item
                            /\ m.seg = me[t].seg
    BY <1>3, GotoMade
  <2>2. Found(m)
    BY <1>1, <1>2, <2>1 DEF Found, HoldHead
  <2> QED BY <1>1, <2>1, <2>2, DeqSilent DEF Searching
<1>4. CASE ~ Ahead(t) /\ Become(t, [me[t] EXCEPT !.at = "deqLast",
                                                 !.last = enqidx[me[t].seg]])
  <2>1. PICK m : m = [me[t] EXCEPT !.at = "deqLast", !.last = enqidx[me[t].seg]]
    OBVIOUS
  <2>2. me' = [me EXCEPT ![t] = m] /\ configs' = configs
    BY <1>4, <2>1 DEF Become, history
  <2>3. /\ m.at = "deqLast" /\ m.seg = me[t].seg /\ m.item = me[t].item
        /\ m.idx = me[t].idx /\ m.last = enqidx[me[t].seg]
    BY <2>1, Mine, LocalsMade
  <2>4. m \in Locals
    BY <2>2, Gone
  <2>5. m.seg \in Segs /\ m.idx \in Nat /\ enqidx[m.seg] \in Nat /\ deqidx[m.seg] \in Nat
    BY <1>1, <2>3, Mine, Fields DEF Hold, HoldHead
  <2>6. m.last <= m.idx + 1 /\ m.idx < deqidx[m.seg]
    BY <1>1, <1>2, <1>4, <2>3, <2>5 DEF Ahead, Found
  <2>7. Found(m)
    BY <1>1, <1>2, <2>3, <2>6 DEF Found, HoldHead
  <2>8. CASE next[m.seg] # Null
    BY <1>1, <2>2, <2>3, <2>4, <2>7, <2>8, DeqSilent DEF Searching
  <2>9. CASE next[m.seg] = Null
    <3>1. m.seg = head
      BY <2>3, <2>7, <2>9 DEF Found
    <3>2. deqidx[head] >= enqidx[head]
      BY <2>3, <2>5, <2>6, <3>1
    <3>3. FoundInv'
      BY <1>1, <2>2, <2>3, <2>4, <2>7, FoundKept DEF LinInv
    <3>4. PICK W : Awaits(W) /\ Explains(W)
      BY DEF LinInv
    <3>5. W = <<>>
      BY <2>9, <3>1, <3>2, <3>4, AwaitsNothing
    <3>6. Awaits(W)'
      BY <1>1, <3>4, AwaitsKept
    <3>7. Maybe' \subseteq Maybe \cup {t} /\ t \notin Maybe
      <4>1. \A u \in Threads : u # t => me'[u] = me[u]
        BY <2>2, <2>4, MeFacts DEF Inv, SegInv
      <4> QED BY <1>1, <4>1 DEF Maybe
    <3>8. Foreseen' \subseteq Foreseen
      BY <1>1, <2>2, <2>3, <2>4, ForeseenSame
    <3>9. \A D, E : Status(t, m, D, E) \in {Monitor!DeqCall, Monitor!Done(NoItem)}
      BY <2>3, StatusFacts DEF Searching
    <3>10. Explains(<<>>)'
      BY <1>1, <2>2, <2>4, <3>4, <3>5, <3>7, <3>8, <3>9, ExplainsEmptied
      DEF Searching, LinInv
    <3> QED BY <2>2, <3>3, <3>5, <3>6, <3>10 DEF LinInv
  <2> QED BY <2>8, <2>9
<1> QED BY <1>3, <1>4 DEF DeqIndex

(* The segment still is the last: the queue was empty when enqidx was read.*)
LEMMA LinDeqLast ==
  ASSUME Inv, Inv', LinInv, NEW t \in Threads, DeqLast(t) PROVE LinInv'
<1>0. PICK p : p = IF next[me[t].seg] # Null THEN "deqDraw" ELSE "deqFix"
  OBVIOUS
<1>1. /\ me[t].at = "deqLast" /\ head' = head /\ tail' = tail /\ next' = next
      /\ enqidx' = enqidx /\ deqidx' = deqidx /\ cell' = cell
      /\ Goto(t, p)
  BY <1>0 DEF DeqLast, list
<1>2. PICK m \in Locals : /\ me' = [me EXCEPT ![t] = m] /\ configs' = configs
                          /\ m.at = p /\ m.seg = me[t].seg /\ m.item = me[t].item
                          /\ m.idx = me[t].idx /\ m.last = me[t].last
  BY <1>1, GotoMade
<1>3. Found(me[t]) /\ me[t].item = NoItem
  BY <1>1, FoundAt DEF Searching, LinInv
<1>4. CASE next[me[t].seg] # Null
  <2>1. Found(m) /\ m.at = "deqDraw"
    BY <1>0, <1>1, <1>2, <1>3, <1>4 DEF Found, HoldHead
  <2> QED BY <1>1, <1>2, <2>1, DeqSilent DEF Searching
<1>5. CASE next[me[t].seg] = Null
  <2>1. Found(m) /\ m.at = "deqFix"
    BY <1>0, <1>1, <1>2, <1>3, <1>5 DEF Found, HoldHead
  <2>2. FoundInv'
    BY <1>1, <1>2, <2>1, FoundKept DEF LinInv
  <2>3. PICK W : Awaits(W) /\ Explains(W)
    BY DEF LinInv
  <2>4. Awaits(W)'
    BY <1>1, <2>3, AwaitsKept
  <2>5. Maybe' \subseteq Maybe /\ t \notin Maybe' /\ t \in Maybe
    BY <1>1, <1>2, <1>5, <2>1, MaybeShrinks DEF Maybe
  <2>6. Foreseen' \subseteq Foreseen
    BY <1>1, <1>2, <2>1, ForeseenSame
  <2>7. ASSUME NEW D \in Foreseen', NEW E \in SUBSET Maybe' PROVE Explained(W, D, E)'
    <3>1. PICK S : S = E \cup {t}
      OBVIOUS
    <3>2. D \in Foreseen /\ S \in SUBSET Maybe /\ t \in S
      BY <2>5, <2>6, <3>1
    <3>3. Explained(W, D, S)
      BY <2>3, <3>2 DEF Explains, Explained
    <3>4. \A u \in Threads : u # t => Status(u, me[u], D, E) = Status(u, me[u], D, S)
      BY <3>1, StatusSame
    <3>5. Status(t, m, D, E) = Status(t, me[t], D, S)
      BY <1>1, <2>1, <3>2, StatusFacts DEF Searching
    <3>6. \A j \in 1 .. Len(W) : At(D, W[j]) = At(D, W[j])
      OBVIOUS
    <3> QED BY <1>2, <3>2, <3>3, <3>4, <3>5, <3>6, ExplainedSilent DEF LinInv
  <2> QED BY <1>2, <2>2, <2>4, <2>7, ExplainsEach DEF LinInv
<1> QED BY <1>4, <1>5

LEMMA CellAt ==
  ASSUME Inv, NEW u \in Threads, me[u].at \in {"enqCell", "deqCell"}
  PROVE  me[u].seg \in Segs /\ me[u].idx \in Cells
<1>1. me[u].at \in Hold /\ me[u].at \in Indexing
  BY DEF Hold, HoldTail, HoldHead, Indexing
<1> QED BY <1>1, Mine DEF Local

(* The call of u sees no other cell than the one it has drawn. *)
LEMMA StatusElsewhere ==
  ASSUME Inv, NEW u \in Threads, NEW C, NEW D, NEW E, NEW s, NEW i,
         \A a \in Segs : \A k \in Cells : a # s \/ k # i => D[a][k] = C[a][k],
         ~ Puts(u, s, i), ~ Visits(u, s, i)
  PROVE  Status(u, me[u], D, E) = Status(u, me[u], C, E)
<1>1. me[u].at \in {"enqCell", "deqCell"} =>
        D[me[u].seg][me[u].idx] = C[me[u].seg][me[u].idx]
  BY CellAt DEF Puts, Visits
<1> QED BY <1>1, StatusSame

LEMMA FoundMoves ==
  ASSUME Inv, NEW t \in Threads, NEW m \in Locals, me' = [me EXCEPT ![t] = m],
         \A s \in Segs : next'[s] # Null => enqidx'[s] >= BufferSize,
         \A s \in Segs : \A k \in Cells :
           /\ k >= enqidx'[s] => cell'[s][k] \in {NoItem, Taken}
           /\ k < deqidx'[s] => cell'[s][k] = Taken \/ \E u \in Threads : Visits(u, s, k)'
           /\ \A u, v \in Threads : Puts(u, s, k)' /\ Puts(v, s, k)' => u = v,
         Found(m)',
         ASSUME NEW u \in Threads, u # t, NEW x, x = me[u] PROVE Found(x)'
  PROVE  FoundInv'
<1>1. me'[t] = m /\ \A u \in Threads : u # t => me'[u] = me[u]
  BY MeFacts DEF Inv, SegInv
<1>2. ASSUME NEW u \in Threads PROVE Found(me[u])'
  <2>1. CASE u = t
    BY <1>1, <2>1 DEF Found
  <2>2. CASE u # t
    <3>1. PICK x : x = me[u]
      OBVIOUS
    <3>2. Found(x)'
      BY <2>2, <3>1
    <3> QED BY <1>1, <2>2, <3>1, <3>2 DEF Found
  <2> QED BY <2>1, <2>2
<1> QED BY <1>2 DEF FoundInv

(* enqidx grows. *)
LEMMA FoundDraws ==
  ASSUME Inv, FoundInv, NEW t \in Threads, NEW m \in Locals,
         me' = [me EXCEPT ![t] = m], head' = head, next' = next,
         deqidx' = deqidx, cell' = cell, NEW s \in Segs, NEW n \in Nat,
         enqidx[s] <= n, enqidx' = [enqidx EXCEPT ![s] = n],
         \A u \in Threads : ~ Owns(u, s), Found(m)', me[t].at # "deqCell",
         m.at = "enqCell" => \A u \in Threads : ~ Puts(u, m.seg, m.idx)
  PROVE  FoundInv'
<1>0. /\ enqidx \in [Segs -> 0 .. (BufferSize + 1)] /\ BufferSize \in Nat
      /\ \A a \in Segs : enqidx[a] \in Nat
  BY Fields
<1>1. me'[t] = m /\ \A u \in Threads : u # t => me'[u] = me[u]
  BY MeFacts DEF Inv, SegInv
<1>2. /\ \A a \in Segs : enqidx'[a] \in Nat /\ enqidx'[a] >= enqidx[a]
      /\ \A a \in Segs : a # s => enqidx'[a] = enqidx[a]
  BY <1>0
<1>3. \A a \in Segs : next'[a] # Null => enqidx'[a] >= BufferSize
  BY <1>0, <1>2 DEF FoundInv
<1>4. ASSUME NEW a \in Segs, NEW k \in Cells
      PROVE  /\ k >= enqidx'[a] => cell'[a][k] \in {NoItem, Taken}
             /\ k < deqidx'[a] => cell'[a][k] = Taken \/ \E u \in Threads : Visits(u, a, k)'
             /\ \A u, v \in Threads : Puts(u, a, k)' /\ Puts(v, a, k)' => u = v
  <2>1. k \in Nat
    BY Bounds
  <2>2. k >= enqidx'[a] => k >= enqidx[a]
    BY <1>0, <1>2, <2>1
  <2>3. \A u \in Threads : Visits(u, a, k) => Visits(u, a, k)'
    BY <1>1 DEF Visits
  <2>4. \A u \in Threads : u # t /\ Puts(u, a, k)' => Puts(u, a, k)
    BY <1>1 DEF Puts
  <2>5. Puts(t, a, k)' => \A u \in Threads : ~ Puts(u, a, k)
    BY <1>1 DEF Puts
  <2> QED BY <2>2, <2>3, <2>4, <2>5 DEF FoundInv
<1>5. ASSUME NEW u \in Threads, u # t, NEW x, x = me[u] PROVE Found(x)'
  <2>1. Found(x)
    BY <1>5, FoundAt
  <2>2. x.at \in {"enqCell", "enqFull", "enqNext", "enqLink"} => x.seg \in Segs
    BY <1>5, Mine DEF Hold, HoldTail
  <2>3. x.at = "enqLink" => x.other \in Segs /\ x.other # s
    BY <1>5, Mine DEF Owns, Owning, OwnerInv, Private, Live
  <2>4. x.at = "enqCell" => x.idx < enqidx'[x.seg]
    <3> SUFFICES ASSUME x.at = "enqCell" PROVE x.idx < enqidx'[x.seg]
      OBVIOUS
    <3>1. x.idx \in Nat /\ x.idx < enqidx[x.seg]
      BY <1>5, <2>1, Mine DEF Found
    <3> QED BY <1>0, <1>2, <2>2, <3>1
  <2>5. x.at \in {"enqFull", "enqNext", "enqLink"} => enqidx'[x.seg] >= BufferSize
    BY <1>0, <1>2, <2>1, <2>2 DEF Found
  <2>6. x.at = "enqLink" => enqidx'[x.other] = enqidx[x.other]
    BY <1>2, <2>3
  <2> QED BY <2>1, <2>4, <2>5, <2>6 DEF Found
<1> QED BY <1>3, <1>4, <1>5, FoundMoves

(* The cells given up are not handed out; the call has come to its end. *)
LEMMA LinDeqFix ==
  ASSUME Inv, Inv', LinInv, NEW t \in Threads, DeqFix(t) PROVE LinInv'
<1>0. PICK s : s = me[t].seg
  OBVIOUS
<1>1. /\ me[t].at = "deqFix" /\ head' = head /\ tail' = tail /\ next' = next
      /\ deqidx' = deqidx /\ cell' = cell /\ Goto(t, "deqClear")
      /\ enqidx' = [enqidx EXCEPT ![s] = IF @ = me[t].last THEN me[t].idx + 1 ELSE @]
  BY <1>0 DEF DeqFix, list
<1>2. PICK m \in Locals : /\ me' = [me EXCEPT ![t] = m] /\ configs' = configs
                          /\ m.at = "deqClear" /\ m.item = me[t].item
  BY <1>1, GotoMade
<1>3. /\ s \in Segs /\ me[t].idx \in Nat /\ me[t].last \in Nat /\ Holds(t, s)
      /\ enqidx[s] \in Nat /\ deqidx[s] \in Nat /\ enqidx \in [Segs -> 0 .. (BufferSize + 1)]
  BY <1>0, <1>1, Mine, Fields DEF Hold, HoldHead, Holds
<1>4. /\ me[t].item = NoItem /\ me[t].idx < deqidx[s] /\ me[t].last <= me[t].idx + 1
  BY <1>0, <1>1, FoundAt DEF Found, LinInv
<1>5. PICK n \in Nat : /\ enqidx[s] <= n /\ enqidx' = [enqidx EXCEPT ![s] = n]
                       /\ n # enqidx[s] => n <= deqidx[s]
  <2>1. CASE enqidx[s] = me[t].last
    <3>1. /\ enqidx' = [enqidx EXCEPT ![s] = me[t].idx + 1] /\ me[t].idx + 1 \in Nat
          /\ enqidx[s] <= me[t].idx + 1 /\ me[t].idx + 1 <= deqidx[s]
      BY <1>1, <1>3, <1>4, <2>1
    <3> QED BY <3>1
  <2>2. CASE enqidx[s] # me[t].last
    <3>1. enqidx' = [enqidx EXCEPT ![s] = enqidx[s]] /\ enqidx[s] <= enqidx[s]
      BY <1>1, <1>3, <2>2
    <3> QED BY <1>3, <3>1
  <2> QED BY <2>1, <2>2
<1>6. \A u \in Threads : ~ Owns(u, s)
  BY <1>3, Mine DEF Owns, OwnerInv, Private
<1>7. FoundInv'
  <2>1. Found(m)'
    BY <1>2 DEF Found, HoldHead, Enqueuing, Over
  <2> QED BY <1>1, <1>2, <1>3, <1>5, <1>6, <2>1, FoundDraws DEF LinInv
<1>8. PICK W : Awaits(W) /\ Explains(W)
  BY DEF LinInv
<1>9. Awaits(W)'
  <2>1. CASE n <= deqidx[s]
    BY <1>1, <1>3, <1>5, <1>8, <2>1, AwaitsSkip
  <2>2. CASE n = enqidx[s]
    <3>1. enqidx' = enqidx
      BY <1>3, <1>5, <2>2
    <3> QED BY <1>1, <1>8, <3>1, AwaitsKept
  <2> QED BY <1>5, <2>1, <2>2
<1>10. \A C \in Foreseen : Status(t, m, C, {}) = Status(t, me[t], C, {})
  BY <1>1, <1>2, <1>4, StatusFacts
<1>11. Explains(W)'
  BY <1>1, <1>2, <1>8, <1>10, ExplainsSilent DEF LinInv
<1> QED BY <1>2, <1>7, <1>9, <1>11 DEF LinInv

(* C is D, but that cell i of s is as it is. *)
LeavesOut(s, i, C, D) ==
  /\ C[s][i] = cell[s][i]
  /\ \A a \in Segs : \A k \in Cells : a # s \/ k # i => D[a][k] = C[a][k]

(* What was foreseen before t drew cell i of s. *)
LEMMA Undrawn ==
  ASSUME Inv, NEW t \in Threads, NEW m \in Locals, me' = [me EXCEPT ![t] = m],
         cell' = cell, NEW s \in Segs, NEW i \in Cells,
         m.at = "enqCell", m.seg = s, m.idx = i,
         NEW D \in Foreseen'
  PROVE  \E C \in Foreseen : LeavesOut(s, i, C, D)
<1>0. PICK C : C = [D EXCEPT ![s] = [D[s] EXCEPT ![i] = cell[s][i]]]
  OBVIOUS
<1>1. me'[t] = m /\ \A u \in Threads : u # t => me'[u] = me[u]
  BY MeFacts DEF Inv, SegInv
<1>2. /\ D \in [Segs -> [Cells -> Items \cup {NoItem, Taken}]]
      /\ \A a \in Segs : \A k \in Cells :
           \/ D[a][k] = cell[a][k]
           \/ /\ cell[a][k] = NoItem
              /\ \E u \in Threads : Puts(u, a, k)' /\ D[a][k] = me'[u].item
  BY DEF Foreseen
<1>3. cell[s][i] \in Items \cup {NoItem, Taken}
  BY Mine DEF Contents
<1>4. C \in [Segs -> [Cells -> Items \cup {NoItem, Taken}]]
  BY <1>0, <1>2, <1>3
<1>5. /\ C[s][i] = cell[s][i]
      /\ \A a \in Segs : \A k \in Cells : a # s \/ k # i => C[a][k] = D[a][k]
  BY <1>0, <1>2
<1>6. \A u \in Threads : \A a, k : (a # s \/ k # i) /\ Puts(u, a, k)'
        => Puts(u, a, k) /\ me'[u] = me[u]
  BY <1>1 DEF Puts
<1>7. ASSUME NEW a \in Segs, NEW k \in Cells
      PROVE  \/ C[a][k] = cell[a][k]
             \/ /\ cell[a][k] = NoItem
                /\ \E u \in Threads : Puts(u, a, k) /\ C[a][k] = me[u].item
  <2>1. CASE a = s /\ k = i
    BY <1>5, <2>1
  <2>2. CASE a # s \/ k # i
    <3>1. C[a][k] = D[a][k]
      BY <1>5, <2>2
    <3>2. CASE D[a][k] = cell[a][k]
      BY <3>1, <3>2
    <3>3. CASE /\ cell[a][k] = NoItem
               /\ \E u \in Threads : Puts(u, a, k)' /\ D[a][k] = me'[u].item
      BY <1>6, <2>2, <3>1, <3>3
    <3> QED BY <1>2, <3>2, <3>3
  <2> QED BY <2>1, <2>2
<1>8. C \in Foreseen
  BY <1>4, <1>7 DEF Foreseen
<1> QED BY <1>5, <1>8 DEF LeavesOut

(* t puts x in the cell that v is about to exchange. *)
Passing(t, m, v, x, C, D, S) ==
  /\ Status(t, me[t], C, S) = Monitor!EnqCall(x)
  /\ Status(t, m, D, S) = Monitor!Done(NoItem)
  /\ Status(v, me[v], C, S) = Monitor!DeqCall
  /\ Status(v, me[v], D, S) = Monitor!Done(x)
  /\ \A u \in Threads : u # t /\ u # v =>
       Status(u, me[u], D, S) = Status(u, me[u], C, S)

(* Two calls take effect: the enqueue of t and the dequeue of v, who is    *)
(* about to find the item in the cell it has drawn. *)
LEMMA ExplainedPassed ==
  ASSUME Inv, configs \subseteq Confs,
         NEW C \in Foreseen, NEW S, Explained(<<>>, C, S),
         NEW t \in Threads, NEW m \in Locals, me' = [me EXCEPT ![t] = m],
         configs' = configs, NEW D, NEW x \in Items, NEW v \in Threads, v # t,
         Passing(t, m, v, x, C, D, S)
  PROVE  Explained(<<>>, D, S)'
<1> USE DEF Passing
<1>1. PICK Q \in Seq(Items) : /\ Picks(<<>>, C, Q)
                              /\ Reaches(configs, Conf(Q, Calling(C, S)))
  BY DEF Explained
<1>2. Q = <<>>
  BY <1>1, PicksNone
<1>3. PICK call : call = Calling(C, S)
  OBVIOUS
<1>4. /\ call \in [Threads -> Calls]
      /\ \A u \in Threads : call[u] = Status(u, me[u], C, S)
  BY <1>3, CallingType
<1>5. PICK one : one = [call EXCEPT ![t] = Monitor!Done(NoItem)]
  OBVIOUS
<1>6. PICK two : two = [one EXCEPT ![v] = Monitor!Done(x)]
  OBVIOUS
<1>7. Reaches(configs, Conf(<<x>>, one))
  <2>1. Effect(<<>>, call[t], <<x>>, Monitor!Done(NoItem))
    <3>1. Append(<<>>, x) = <<x>>
      OBVIOUS
    <3> QED BY <1>4, <3>1 DEF Effect
  <2>2. Reaches(configs, Conf(<<>>, call))
    BY <1>1, <1>2, <1>3
  <2> QED BY ONLY configs \subseteq Confs, <1>4, <1>5, <2>1, <2>2, t \in Threads,
             EffectReaches
<1>8. one \in [Threads -> Calls] /\ one[v] = Monitor!DeqCall
  BY <1>4, <1>5, CallType
<1>9. Reaches(configs, Conf(<<>>, two))
  <2>1. Effect(<<x>>, one[v], <<>>, Monitor!Done(x))
    <3>1. <<x>> # <<>> /\ Tail(<<x>>) = <<>> /\ Head(<<x>>) = x
      OBVIOUS
    <3> QED BY <1>8, <3>1 DEF Effect
  <2> QED BY ONLY configs \subseteq Confs, <1>6, <1>7, <1>8, <2>1, v \in Threads,
             EffectReaches
<1>10. Calling(D, S)' = two
  <2>1. me'[t] = m /\ \A u \in Threads : u # t => me'[u] = me[u]
    BY MeFacts DEF Inv, SegInv
  <2>2. Calling(D, S)' = [u \in Threads |-> Status(u, me'[u], D, S)]
    BY DEF Calling, Status
  <2>3. \A u \in Threads : two[u] = IF u = v THEN Monitor!Done(x)
                                   ELSE IF u = t THEN Monitor!Done(NoItem) ELSE call[u]
    BY <1>4, <1>5, <1>6
  <2>4. \A u \in Threads : two[u] = Status(u, me'[u], D, S)
    BY <1>4, <2>1, <2>3
  <2>5. two = [u \in Threads |-> two[u]]
    BY <1>4, <1>5, <1>6
  <2> QED BY <2>2, <2>4, <2>5
<1>11. Reaches(configs', Conf(<<>>, Calling(D, S)'))
  BY <1>9, <1>10
<1>12. Picks(<<>>, D, <<>>) /\ <<>> \in Seq(Items)
  BY PicksNone
<1> QED BY <1>11, <1>12 DEF Explained, Reaches, Conf

(* t draws the cell: it counts as full from then on, if t will fill it. *)
LEMMA ExplainsDraw ==
  ASSUME Inv, FoundInv, configs \subseteq Confs, NEW W, Awaits(W), Explains(W),
         NEW t \in Threads, NEW m \in Locals, me' = [me EXCEPT ![t] = m],
         cell' = cell, next' = next, configs' = configs,
         me[t].at = "enqDraw", m.at = "enqCell", m.item = me[t].item,
         NEW s \in Segs, NEW i \in Cells, m.seg = s, m.idx = i, i = enqidx[s],
         NEW p, p = <<s, i>>
  PROVE  /\ i >= deqidx[s] => Explains(Append(W, p))'
         /\ i < deqidx[s] /\ W = <<>> => Explains(W)'
<1>1. /\ Maybe' \subseteq Maybe /\ t \notin Maybe'
      /\ m.item \in Items /\ t \notin Maybe
  BY MaybeShrinks, Mine DEF Local, Enqueuing, Maybe
<1>2. me'[t] = m /\ \A u \in Threads : u # t => me'[u] = me[u]
  BY MeFacts DEF Inv, SegInv
<1>3. \A u \in Threads : ~ Puts(u, s, i)
  <2> SUFFICES ASSUME NEW u \in Threads, Puts(u, s, i) PROVE FALSE
    OBVIOUS
  <2>1. i < enqidx[s]
    BY FoundAt DEF Puts, Found
  <2> QED BY <2>1, Bounds
<1>4. cell[s][i] \in {NoItem, Taken} /\ i \in Nat /\ deqidx[s] \in Nat
      /\ BufferSize \in Nat
  <2>1. i >= enqidx[s] /\ i \in Nat
    BY Bounds
  <2> QED BY <2>1, Fields DEF FoundInv
<1>5. ASSUME NEW D \in Foreseen', NEW E \in SUBSET Maybe'
      PROVE  /\ i >= deqidx[s] => Explained(Append(W, p), D, E)'
             /\ i < deqidx[s] /\ W = <<>> => Explained(W, D, E)'
  <2>2. PICK C \in Foreseen :
          /\ C[s][i] = cell[s][i]
          /\ \A a \in Segs : \A k \in Cells : a # s \/ k # i => D[a][k] = C[a][k]
    <3>1. Inv /\ me' = [me EXCEPT ![t] = m] /\ cell' = cell
          /\ m.at = "enqCell" /\ m.seg = s /\ m.idx = i
      OBVIOUS
    <3>2. \E C \in Foreseen : LeavesOut(s, i, C, D)
      BY ONLY <3>1, t \in Threads, m \in Locals, s \in Segs, i \in Cells,
              D \in Foreseen', Undrawn
    <3> QED BY <3>2 DEF LeavesOut
  <2>3. D[s][i] = m.item \/ (D[s][i] = cell[s][i] /\ D[s][i] # m.item)
    <3>1. \/ D[s][i] = cell[s][i]
          \/ \E u \in Threads : Puts(u, s, i)' /\ D[s][i] = me'[u].item
      BY DEF Foreseen
    <3>2. \A u \in Threads : Puts(u, s, i)' => u = t
      BY <1>2, <1>3 DEF Puts
    <3> QED BY <1>2, <3>1, <3>2
  <2>4. Explained(W, C, E)
    BY <1>1, <2>2 DEF Explains, Explained
  <2>5. /\ Status(t, me[t], C, E) = Monitor!EnqCall(m.item)
        /\ D[s][i] = m.item => Status(t, m, D, E) = Monitor!Done(NoItem)
        /\ D[s][i] # m.item => Status(t, m, D, E) = Monitor!EnqCall(m.item)
    BY StatusFacts DEF Enqueuing
  <2>6. \A u \in Threads : ~ Visits(u, s, i) =>
          Status(u, me[u], D, E) = Status(u, me[u], C, E)
    BY <1>3, <2>2, StatusElsewhere
  <2>7. ASSUME i >= deqidx[s] PROVE Explained(Append(W, p), D, E)'
    <3>1. \A u \in Threads : ~ Visits(u, s, i)
      BY <1>4, <2>7 DEF Inv, CellInv
    <3>2. \A j \in 1 .. Len(W) : At(D, W[j]) = At(C, W[j])
      <4>1. ASSUME NEW j \in 1 .. Len(W) PROVE At(D, W[j]) = At(C, W[j])
        <5>1. W[j][1] \in Segs /\ W[j][2] \in Cells /\ W[j][2] < enqidx[W[j][1]]
          BY AwaitsAt, Mine
        <5>2. W[j][1] # s \/ W[j][2] # i
          BY <1>4, <5>1
        <5> QED BY <2>2, <5>1, <5>2 DEF At
      <4> QED BY <4>1
    <3>3. /\ W \in Seq(Segs \X Cells) /\ p \in Segs \X Cells /\ At(D, p) = D[s][i]
      BY AwaitsAt, Mine DEF At
    <3>4. ASSUME NEW Q \in Seq(Items), Picks(W, C, Q)
          PROVE  \E R \in Seq(Items) : /\ Picks(Append(W, p), D, R)
                   /\ Effect(Q, Status(t, me[t], C, E), R, Status(t, m, D, E))
      <4>1. Picks(W, D, Q)
        BY <3>2, <3>4, PicksSame
      <4>2. CASE D[s][i] = m.item
        <5>1. PICK R : R = Append(Q, m.item)
          OBVIOUS
        <5>2. Picks(Append(W, p), D, R) /\ R \in Seq(Items)
          <6>1. At(D, p) = m.item
            BY <3>3, <4>2
          <6>2. Picks(Append(W, p), D, R)
            BY <1>1, <3>3, <4>1, <5>1, <6>1, PicksPut
          <6> QED BY <1>1, <5>1, <6>2
        <5>3. Effect(Q, Status(t, me[t], C, E), R, Status(t, m, D, E))
          BY <1>1, <2>5, <4>2, <5>1 DEF Effect
        <5> QED BY <5>2, <5>3
      <4>3. CASE D[s][i] # m.item
        <5>1. At(D, p) \notin Items
          BY <1>4, <2>3, <3>3, <4>3, Bounds DEF NoItem
        <5>2. Picks(Append(W, p), D, Q)
          BY <3>3, <4>1, <5>1, PicksSkip
        <5>3. Effect(Q, Status(t, me[t], C, E), Q, Status(t, m, D, E))
          BY <2>5, <4>3 DEF Effect
        <5> QED BY <5>2, <5>3
      <4> QED BY <4>2, <4>3
    <3>5. \A u \in Threads : u # t => Status(u, me[u], D, E) = Status(u, me[u], C, E)
      BY <2>6, <3>1
    <3>6. PICK X : X = Append(W, p)
      OBVIOUS
    <3>7. \A Q \in Seq(Items) : Picks(W, C, Q) =>
            \E R \in Seq(Items) : /\ Picks(X, D, R)
              /\ Effect(Q, Status(t, me[t], C, E), R, Status(t, m, D, E))
      BY <3>4, <3>6
    <3>8. Explained(X, D, E)'
      BY ONLY Inv, configs \subseteq Confs, C \in Foreseen, t \in Threads,
         m \in Locals, me' = [me EXCEPT ![t] = m], configs' = configs,
         <2>2, <2>4, <3>5, <3>7, ExplainedStep
    <3> QED BY <3>6, <3>8
  <2>8. ASSUME i < deqidx[s], W = <<>> PROVE Explained(W, D, E)'
    <3>1. CASE D[s][i] # m.item
      <4>1. \A a \in Segs : \A k \in Cells : D[a][k] = C[a][k]
        BY <2>2, <2>3, <3>1
      <4>2. \A u \in Threads : Status(u, me[u], D, E) = Status(u, me[u], C, E)
        BY <4>1, CellAt, StatusSame
      <4>3. \A j \in 1 .. Len(W) : At(D, W[j]) = At(C, W[j])
        <5>1. Len(<<>>) = 0
          BY ONLY TRUE
        <5> QED BY <2>8, <5>1
      <4>4. Status(t, m, D, E) = Status(t, me[t], C, E)
        BY <2>5, <3>1
      <4>5. \A u \in Threads : u # t => Status(u, me[u], D, E) = Status(u, me[u], C, E)
        BY <4>2
      <4> QED BY <2>2, <2>4, <4>3, <4>4, <4>5, ExplainedSilent
    <3>2. CASE D[s][i] = m.item
      <4>1. cell[s][i] = NoItem
        <5>1. D[s][i] = cell[s][i] \/ cell[s][i] = NoItem
          BY DEF Foreseen
        <5> QED BY <1>1, <1>4, <3>2, <5>1, Bounds
      <4>2. PICK v \in Threads : Visits(v, s, i)
        BY <2>8, <4>1, Bounds DEF FoundInv
      <4>3. me[v].at = "deqCell" /\ me[v].seg = s /\ me[v].idx = i /\ v # t
        BY <4>2 DEF Visits
      <4>4. \A u \in Threads : Visits(u, s, i) => u = v
        BY <4>2 DEF Inv, CellInv
      <4>5. /\ Status(v, me[v], C, E) = Monitor!DeqCall
            /\ Status(v, me[v], D, E) = Monitor!Done(m.item)
        <5>1. C[s][i] \notin Items /\ v \notin E
          BY <1>1, <2>2, <4>1, <4>3, Bounds DEF NoItem, Maybe
        <5> QED BY <1>1, <3>2, <4>3, <5>1, StatusFacts
      <4>6. \A u \in Threads : u # t /\ u # v =>
              Status(u, me[u], D, E) = Status(u, me[u], C, E)
        BY <2>6, <4>4
      <4>7. Explained(<<>>, C, E) /\ Status(t, m, D, E) = Monitor!Done(NoItem)
        BY <2>4, <2>5, <2>8, <3>2
      <4>8. Explained(<<>>, D, E)'
        <5>1. PICK x \in Items : x = m.item
          BY <1>1
        <5>2. /\ Status(t, me[t], C, E) = Monitor!EnqCall(x)
              /\ Status(v, me[v], D, E) = Monitor!Done(x)
          BY <2>5, <4>5, <5>1
        <5>3. /\ Inv /\ configs \subseteq Confs /\ me' = [me EXCEPT ![t] = m]
              /\ configs' = configs /\ v # t /\ Explained(<<>>, C, E)
              /\ Status(t, m, D, E) = Monitor!Done(NoItem)
          BY <4>3, <4>7
        <5>4. /\ Status(t, me[t], C, E) = Monitor!EnqCall(x)
              /\ Status(v, me[v], C, E) = Monitor!DeqCall
          BY <4>5, <5>2
        <5>5. Passing(t, m, v, x, C, D, E)
          BY <4>6, <5>2, <5>3, <5>4 DEF Passing
        <5> QED BY ONLY <5>3, <5>5, C \in Foreseen, t \in Threads,
                        m \in Locals, x \in Items, v \in Threads, ExplainedPassed
      <4> QED BY <2>8, <4>8
    <3> QED BY <3>1, <3>2
  <2> QED BY <2>7, <2>8
<1>6. CASE i >= deqidx[s]
  <2>1. PICK X : X = Append(W, p)
    OBVIOUS
  <2>2. \A D \in Foreseen' : \A E \in SUBSET Maybe' : Explained(X, D, E)'
    BY <1>5, <1>6, <2>1
  <2>3. Explains(X)'
    BY <2>2, ExplainsEach
  <2> QED BY <1>4, <1>6, <2>1, <2>3
<1>7. CASE i < deqidx[s] /\ W = <<>>
  <2>1. \A D \in Foreseen' : \A E \in SUBSET Maybe' : Explained(W, D, E)'
    BY <1>5, <1>7
  <2>2. Explains(W)'
    BY <2>1, ExplainsEach
  <2> QED BY <1>4, <1>7, <2>2
<1> QED BY <1>4, <1>6, <1>7

LEMMA LinEnqDraw ==
  ASSUME Inv, Inv', LinInv, NEW t \in Threads, EnqDraw(t) PROVE LinInv'
<1>0. PICK s, i : s = me[t].seg /\ i = enqidx[s]
  OBVIOUS
<1>1. PICK at, m : /\ at = IF Within(i) THEN "enqCell" ELSE "enqFull"
                   /\ m = [me[t] EXCEPT !.at = at, !.idx = i]
  OBVIOUS
<1>2. /\ me[t].at = "enqDraw" /\ head' = head /\ tail' = tail /\ next' = next
      /\ deqidx' = deqidx /\ cell' = cell /\ configs' = configs
      /\ me' = [me EXCEPT ![t] = m] /\ enqidx' = [enqidx EXCEPT ![s] = Bump(@)]
  BY <1>0, <1>1 DEF EnqDraw, Become, history, list
<1>3. m.at = at /\ m.seg = s /\ m.idx = i /\ m.item = me[t].item
  BY <1>0, <1>1, Mine, LocalsMade
<1>4. m \in Locals
  BY <1>2, Gone
<1>5. /\ s \in Segs /\ i \in Nat /\ deqidx[s] \in Nat /\ BufferSize \in Nat
      /\ enqidx \in [Segs -> 0 .. (BufferSize + 1)]
      /\ Holds(t, s) /\ (next[s] = Null => tail = s)
  BY <1>0, <1>2, Mine, Fields DEF Hold, HoldTail, Holds, HolderInv
<1>6. \A u \in Threads : ~ Owns(u, s)
  BY <1>5, Mine DEF Owns, OwnerInv, Private
<1>7. PICK n \in Nat : /\ n = Bump(i) /\ enqidx' = [enqidx EXCEPT ![s] = n] /\ i <= n
                       /\ enqidx'[s] = n
  <2>1. Bump(i) \in Nat /\ i <= Bump(i)
    BY <1>5 DEF Bump
  <2>2. enqidx' = [enqidx EXCEPT ![s] = Bump(i)]
    BY <1>0, <1>2, <1>5
  <2> QED BY <1>5, <2>1, <2>2
<1>8. PICK W : Awaits(W) /\ Explains(W)
  BY DEF LinInv
<1>9. CASE i >= BufferSize
  <2>1. m.at = "enqFull"
    BY <1>1, <1>3, <1>5, <1>9 DEF Within
  <2>2. Found(m)'
    <3>1. enqidx'[m.seg] >= BufferSize
      BY <1>3, <1>5, <1>7, <1>9
    <3> QED BY <2>1, <3>1 DEF Found, HoldHead, Enqueuing
  <2>3. FoundInv'
    BY <1>0, <1>2, <1>4, <1>5, <1>6, <1>7, <2>1, <2>2, FoundDraws DEF LinInv
  <2>4. Awaits(W)'
    BY <1>0, <1>2, <1>5, <1>7, <1>8, <1>9, AwaitsFull
  <2>5. \A C \in Foreseen : Status(t, m, C, {}) = Status(t, me[t], C, {})
    BY <1>2, <1>3, <2>1, StatusFacts DEF Enqueuing
  <2>6. Explains(W)'
    BY <1>2, <1>4, <1>8, <2>1, <2>5, ExplainsSilent DEF LinInv
  <2> QED BY <1>2, <2>3, <2>4, <2>6 DEF LinInv
<1>10. CASE i < BufferSize
  <2>1. m.at = "enqCell" /\ i \in Cells /\ n = i + 1
    BY <1>1, <1>3, <1>5, <1>7, <1>10, Bounds DEF Within, Bump
  <2>2. next[s] = Null /\ tail = s
    <3>1. next[s] # Null => i >= BufferSize
      BY <1>0, <1>5, FoundAt DEF LinInv
    <3> QED BY <1>5, <1>10, <3>1
  <2>3. FoundInv'
    <3>1. cell[s][i] \in {NoItem, Taken}
      <4>1. i >= enqidx[s]
        BY <1>0, <1>5
      <4> QED BY <1>5, <2>1, <4>1 DEF LinInv, FoundInv
    <3>2. Found(m)'
      <4>1. m.idx < enqidx'[m.seg]
        BY <1>3, <1>5, <1>7, <2>1
      <4>2. cell'[m.seg][m.idx] \in {NoItem, Taken}
        BY <1>2, <1>3, <3>1
      <4> QED BY <2>1, <4>1, <4>2 DEF Found, HoldHead, Enqueuing
    <3>3. \A u \in Threads : ~ Puts(u, m.seg, m.idx)
      <4> SUFFICES ASSUME NEW u \in Threads, Puts(u, m.seg, m.idx) PROVE FALSE
        OBVIOUS
      <4>1. i < enqidx[s]
        BY <1>3, FoundAt DEF Puts, Found, LinInv
      <4> QED BY <1>0, <1>5, <4>1
    <3> QED BY <1>0, <1>2, <1>4, <1>5, <1>6, <1>7, <3>2, <3>3, FoundDraws DEF LinInv
  <2>4. PICK p : p = <<s, i>>
    OBVIOUS
  <2>5. /\ i >= deqidx[s] => Explains(Append(W, p))'
        /\ i < deqidx[s] /\ W = <<>> => Explains(W)'
    BY <1>0, <1>2, <1>3, <1>4, <1>5, <1>8, <2>1, <2>4, ExplainsDraw DEF LinInv
  <2>6. CASE i >= deqidx[s]
    <3>1. PICK X : X = Append(W, p)
      OBVIOUS
    <3>2. enqidx' = [enqidx EXCEPT ![s] = enqidx[s] + 1]
      BY <1>0, <1>7, <2>1
    <3>3. enqidx[s] < BufferSize /\ deqidx[s] <= enqidx[s] /\ p = <<s, enqidx[s]>>
      BY <1>0, <1>5, <1>10, <2>4, <2>6
    <3>4. Awaits(X)'
      BY <1>2, <1>5, <1>8, <2>2, <3>1, <3>2, <3>3, AwaitsPut
    <3>5. Explains(X)'
      BY <2>5, <2>6, <3>1
    <3> QED BY <1>2, <2>3, <3>4, <3>5 DEF LinInv
  <2>7. CASE i < deqidx[s]
    <3>1. W = <<>>
      <4>1. enqidx[s] <= deqidx[s]
        BY <1>0, <1>5, <2>7
      <4> QED BY <1>5, <1>8, <2>2, <4>1, AwaitsNone
    <3>2. enqidx[s] <= n /\ n <= deqidx[s]
      BY <1>0, <1>5, <2>1, <2>7
    <3>3. Awaits(W)'
      BY <1>2, <1>5, <1>7, <1>8, <3>2, AwaitsSkip
    <3>4. Explains(W)'
      BY <2>5, <2>7, <3>1
    <3> QED BY <1>2, <2>3, <3>3, <3>4 DEF LinInv
  <2> QED BY <1>5, <2>6, <2>7
<1> QED BY <1>5, <1>9, <1>10

(* The item is in its cell, which was foreseen. *)
LEMMA LinEnqStored ==
  ASSUME Inv, Inv', LinInv, NEW t \in Threads, EnqCell(t),
         cell[me[t].seg][me[t].idx] = NoItem
  PROVE  LinInv'
<1>0. PICK s, k, v : s = me[t].seg /\ k = me[t].idx /\ v = me[t].item
  OBVIOUS
<1>1. /\ me[t].at = "enqCell" /\ head' = head /\ tail' = tail /\ next' = next
      /\ enqidx' = enqidx /\ deqidx' = deqidx /\ Goto(t, "enqClear")
      /\ cell' = [cell EXCEPT ![s][k] = v]
  BY <1>0 DEF EnqCell, list
<1>2. PICK m \in Locals : /\ me' = [me EXCEPT ![t] = m] /\ configs' = configs
                          /\ m.at = "enqClear"
  BY <1>1, GotoMade
<1>3. /\ s \in Segs /\ k \in Cells /\ v \in Items /\ Puts(t, s, k) /\ Holds(t, s)
      /\ k < enqidx[s] /\ k \in Nat /\ enqidx[s] \in Nat /\ cell[s][k] = NoItem
  <2>1. Found(me[t])
    BY FoundAt DEF LinInv
  <2> QED BY <1>0, <1>1, <2>1, CellAt, Mine, Fields, Bounds
          DEF Found, Puts, Holds, Hold, HoldTail, Local, Enqueuing
<1>4. /\ cell'[s][k] = v
      /\ \A a \in Segs : \A b \in Cells : a # s \/ b # k => cell'[a][b] = cell[a][b]
  BY <1>1, <1>3, Mine DEF Contents
<1>5. me'[t] = m /\ \A u \in Threads : u # t => me'[u] = me[u]
  BY <1>2, MeFacts DEF Inv, SegInv
<1>6. \A u \in Threads : \A a, b : Puts(u, a, b)' => u # t /\ Puts(u, a, b) /\ me'[u] = me[u]
  BY <1>2, <1>5 DEF Puts
<1>7. \A u \in Threads : \A a, b : Visits(u, a, b) => Visits(u, a, b)'
  BY <1>1, <1>5 DEF Visits
<1>8. \A u \in Threads : Puts(u, s, k) => u = t
  BY <1>3 DEF LinInv, FoundInv
<1>9. FoundInv'
  <2>1. \A a \in Segs : next'[a] # Null => enqidx'[a] >= BufferSize
    BY <1>1 DEF LinInv, FoundInv
  <2>2. ASSUME NEW a \in Segs, NEW b \in Cells
        PROVE  /\ b >= enqidx'[a] => cell'[a][b] \in {NoItem, Taken}
               /\ b < deqidx'[a] =>
                    cell'[a][b] = Taken \/ \E u \in Threads : Visits(u, a, b)'
               /\ \A u, w \in Threads : Puts(u, a, b)' /\ Puts(w, a, b)' => u = w
    <3>1. /\ b >= enqidx[a] => cell[a][b] \in {NoItem, Taken}
          /\ b < deqidx[a] => cell[a][b] = Taken \/ \E u \in Threads : Visits(u, a, b)
          /\ \A u, w \in Threads : Puts(u, a, b) /\ Puts(w, a, b) => u = w
      BY DEF LinInv, FoundInv
    <3>2. CASE a = s /\ b = k
      <4>1. ~ (b >= enqidx'[a])
        BY <1>1, <1>3, <3>2
      <4>2. cell[a][b] # Taken
        BY <1>3, <3>2, Bounds
      <4> QED BY <1>1, <1>6, <1>7, <3>1, <4>1, <4>2
    <3>3. CASE a # s \/ b # k
      BY <1>1, <1>4, <1>6, <1>7, <3>1, <3>3
    <3> QED BY <3>2, <3>3
  <2>3. Found(m)'
    BY <1>2 DEF Found, HoldHead, Enqueuing, Over
  <2>4. ASSUME NEW u \in Threads, u # t, NEW x, x = me[u] PROVE Found(x)'
    <3>1. Found(x)
      BY <2>4, FoundAt DEF LinInv
    <3>2. x.at = "enqCell" => cell'[x.seg][x.idx] = cell[x.seg][x.idx]
      BY <1>4, <1>8, <2>4, CellAt DEF Puts
    <3>3. x.at = "enqLink" => x.other \in Segs /\ x.other # s /\ 0 \in Cells
      BY <1>3, <2>4, Mine, Bounds DEF Owning, OwnerInv, Private, Live
    <3>4. x.at = "enqLink" => cell'[x.other][0] = cell[x.other][0]
      BY <1>4, <3>3
    <3> QED BY <1>1, <3>1, <3>2, <3>4 DEF Found
  <2> QED BY <1>2, <2>1, <2>2, <2>3, <2>4, FoundMoves
<1>10. PICK W : Awaits(W) /\ Explains(W)
  BY DEF LinInv
<1>11. Awaits(W)'
  BY <1>1, <1>10, AwaitsKept
<1>12. Maybe' \subseteq Maybe /\ t \notin Maybe'
  BY <1>1, <1>2, MaybeShrinks
<1>13. ASSUME NEW D \in Foreseen' PROVE D \in Foreseen /\ D[s][k] = v
  <2>1. D \in [Segs -> [Cells -> Items \cup {NoItem, Taken}]]
    BY DEF Foreseen
  <2>2. \A a \in Segs : \A b \in Cells :
           \/ D[a][b] = cell'[a][b]
           \/ /\ cell'[a][b] = NoItem
              /\ \E u \in Threads : Puts(u, a, b)' /\ D[a][b] = me'[u].item
    BY DEF Foreseen
  <2>3. D[s][k] = v
    BY <1>3, <1>4, <2>2, Bounds DEF NoItem
  <2>4. ASSUME NEW a \in Segs, NEW b \in Cells
        PROVE  \/ D[a][b] = cell[a][b]
               \/ /\ cell[a][b] = NoItem
                  /\ \E u \in Threads : Puts(u, a, b) /\ D[a][b] = me[u].item
    <3>1. CASE a = s /\ b = k
      BY <1>0, <1>3, <2>3, <3>1
    <3>2. CASE a # s \/ b # k
      <4>1. cell'[a][b] = cell[a][b]
        BY <1>4, <3>2
      <4>2. CASE D[a][b] = cell'[a][b]
        BY <4>1, <4>2
      <4>3. CASE /\ cell'[a][b] = NoItem
                 /\ \E u \in Threads : Puts(u, a, b)' /\ D[a][b] = me'[u].item
        BY <1>6, <4>1, <4>3
      <4> QED BY <2>2, <4>2, <4>3
    <3> QED BY <3>1, <3>2
  <2> QED BY <2>1, <2>3, <2>4 DEF Foreseen
<1>14. ASSUME NEW D \in Foreseen', NEW E \in SUBSET Maybe' PROVE Explained(W, D, E)'
  <2>1. D \in Foreseen /\ D[s][k] = v /\ E \in SUBSET Maybe
    BY <1>12, <1>13
  <2>2. Explained(W, D, E)
    BY <1>10, <2>1 DEF Explains, Explained
  <2>3. Status(t, m, D, E) = Status(t, me[t], D, E)
    BY <1>0, <1>1, <1>2, <2>1, StatusFacts DEF Over
  <2>4. /\ \A u \in Threads : u # t => Status(u, me[u], D, E) = Status(u, me[u], D, E)
        /\ \A j \in 1 .. Len(W) : At(D, W[j]) = At(D, W[j])
    OBVIOUS
  <2> QED BY <1>2, <2>1, <2>2, <2>3, <2>4, ExplainedSilent DEF LinInv
<1> QED BY <1>2, <1>9, <1>11, <1>14, ExplainsEach DEF LinInv

(* The segment made is linked, and with it its item. *)
LEMMA LinEnqLinked ==
  ASSUME Inv, Inv', LinInv, NEW t \in Threads, EnqLink(t), next[me[t].seg] = Null
  PROVE  LinInv'
<1>0. PICK s, a, v : s = me[t].seg /\ a = me[t].other /\ v = me[t].item
  OBVIOUS
<1>1. /\ me[t].at = "enqLink" /\ head' = head /\ tail' = tail
      /\ enqidx' = enqidx /\ deqidx' = deqidx /\ cell' = cell /\ Goto(t, "enqSwing")
      /\ next' = [next EXCEPT ![s] = a]
  BY <1>0 DEF EnqLink
<1>2. PICK m \in Locals : /\ me' = [me EXCEPT ![t] = m] /\ configs' = configs
                          /\ m.at = "enqSwing"
  BY <1>1, GotoMade
<1>3. /\ s \in Segs /\ v \in Items /\ next[s] = Null /\ tail = s
      /\ a \in Segs /\ next[a] = Null /\ a # s /\ Null \notin Segs /\ 0 \in Cells
      /\ next \in [Segs -> Segs \cup {Null}]
  <2>1. /\ s \in Segs /\ v \in Items /\ next[s] = Null /\ tail = s
    BY <1>0, <1>1, Mine DEF Hold, HoldTail, Local, Enqueuing, HolderInv
  <2>2. a \in Segs /\ next[a] = Null /\ a # tail
    BY <1>0, <1>1, Mine DEF Owning, OwnerInv, Private, Live
  <2> QED BY <2>1, <2>2, Fields, Bounds
<1>4. /\ enqidx[s] >= BufferSize /\ enqidx[a] = 1 /\ deqidx[a] = 0 /\ cell[a][0] = v
  BY <1>0, <1>1, FoundAt DEF Found, LinInv
<1>5. next'[s] = a /\ \A b \in Segs : b # s => next'[b] = next[b]
  BY <1>1, <1>3
<1>6. me'[t] = m /\ \A u \in Threads : u # t => me'[u] = me[u]
  BY <1>2, MeFacts DEF Inv, SegInv
<1>7. FoundInv'
  <2>1. \A b \in Segs : next'[b] # Null => enqidx'[b] >= BufferSize
    BY <1>1, <1>4, <1>5 DEF LinInv, FoundInv
  <2>2. /\ \A u \in Threads : \A b, k : Puts(u, b, k)' => Puts(u, b, k)
        /\ \A u \in Threads : \A b, k : Visits(u, b, k) => Visits(u, b, k)'
    BY <1>1, <1>2, <1>6 DEF Puts, Visits
  <2>3. \A b \in Segs : \A k \in Cells :
          /\ k >= enqidx'[b] => cell'[b][k] \in {NoItem, Taken}
          /\ k < deqidx'[b] => cell'[b][k] = Taken \/ \E u \in Threads : Visits(u, b, k)'
          /\ \A u, w \in Threads : Puts(u, b, k)' /\ Puts(w, b, k)' => u = w
    BY <1>1, <2>2 DEF LinInv, FoundInv
  <2>4. Found(m)'
    BY <1>2 DEF Found, HoldHead, Enqueuing, Over
  <2>5. ASSUME NEW u \in Threads, u # t, NEW x, x = me[u] PROVE Found(x)'
    <3>1. Found(x)
      BY <2>5, FoundAt DEF LinInv
    <3>2. x.at \in HoldHead => x.seg \in Segs
      BY <2>5, Mine DEF Hold
    <3>3. x.at \in HoldHead /\ next'[x.seg] = Null => next[x.seg] = Null
      BY <1>3, <1>5, <3>2
    <3>4. x.at = "deqLast" => x.at \in HoldHead
      BY DEF HoldHead
    <3>5. x.at \in HoldHead => x.seg = head \/ (next'[x.seg] # Null /\ deqidx[x.seg] >= BufferSize)
      BY <3>1, <3>3 DEF Found
    <3>6. x.at = "deqLast" /\ next'[x.seg] = Null => x.seg = head
      BY <3>1, <3>3, <3>4 DEF Found
    <3> QED BY <1>1, <3>1, <3>5, <3>6 DEF Found
  <2> QED BY <1>2, <2>1, <2>3, <2>4, <2>5, FoundMoves
<1>8. PICK W : Awaits(W) /\ Explains(W)
  BY DEF LinInv
<1>9. PICK p, X : p = <<a, 0>> /\ X = Append(W, p)
  OBVIOUS
<1>10. Awaits(X)'
  BY <1>1, <1>3, <1>4, <1>8, <1>9, AwaitsLink
<1>11. Maybe' \subseteq Maybe /\ t \notin Maybe'
  <2>1. ASSUME NEW u \in Threads, me[u].at = "deqLast", next'[me[u].seg] = Null
        PROVE  next[me[u].seg] = Null
    <3>1. me[u].seg \in Segs
      BY <2>1, Mine DEF Hold, HoldHead
    <3> QED BY <1>3, <1>5, <2>1, <3>1
  <2> QED BY <1>2, <2>1, MaybeShrinks
<1>12. Foreseen' \subseteq Foreseen
  BY <1>1, <1>2, ForeseenSame
<1>13. ASSUME NEW D \in Foreseen', NEW E \in SUBSET Maybe' PROVE Explained(X, D, E)'
  <2>1. D \in Foreseen /\ E \in SUBSET Maybe
    BY <1>11, <1>12
  <2>2. Explained(W, D, E)
    BY <1>8, <2>1 DEF Explains, Explained
  <2>3. /\ Status(t, me[t], D, E) = Monitor!EnqCall(v)
        /\ Status(t, m, D, E) = Monitor!Done(NoItem)
    BY <1>0, <1>1, <1>2, StatusFacts DEF Over, Enqueuing
  <2>4. At(D, p) = v /\ p \in Segs \X Cells /\ W \in Seq(Segs \X Cells)
    <3>1. D[a][0] = v
      BY <1>3, <1>4, <2>1, ForeseenAt, Bounds DEF NoItem
    <3>2. p[1] = a /\ p[2] = 0
      BY <1>9
    <3> QED BY <1>3, <1>8, <1>9, <3>1, <3>2, AwaitsAt, Mine DEF At
  <2>5. \A Q \in Seq(Items) : Picks(W, D, Q) =>
          \E R \in Seq(Items) : /\ Picks(X, D, R)
            /\ Effect(Q, Status(t, me[t], D, E), R, Status(t, m, D, E))
    <3> SUFFICES ASSUME NEW Q \in Seq(Items), Picks(W, D, Q)
                 PROVE  \E R \in Seq(Items) : /\ Picks(X, D, R)
                   /\ Effect(Q, Status(t, me[t], D, E), R, Status(t, m, D, E))
      OBVIOUS
    <3>1. PICK R : R = Append(Q, v)
      OBVIOUS
    <3>2. R \in Seq(Items) /\ Picks(Append(W, p), D, R)
      <4>1. v \in Items
        BY <1>3
      <4>2. Picks(Append(W, p), D, R)
        BY ONLY <2>4, <3>1, <4>1, Q \in Seq(Items), Picks(W, D, Q), PicksPut
      <4> QED BY <3>1, <4>1, <4>2
    <3>3. Effect(Q, Status(t, me[t], D, E), R, Status(t, m, D, E))
      BY <1>3, <2>3, <3>1 DEF Effect
    <3> QED BY <1>9, <3>2, <3>3
  <2>6. \A u \in Threads : u # t => Status(u, me[u], D, E) = Status(u, me[u], D, E)
    OBVIOUS
  <2>7. configs \subseteq Confs
    BY DEF LinInv
  <2> QED BY <1>2, <2>1, <2>2, <2>5, <2>6, <2>7, ExplainedStep
<1> QED BY <1>2, <1>7, <1>10, <1>13, ExplainsEach DEF LinInv

(* Nobody knows of the segment made. *)
LEMMA LinEnqNew ==
  ASSUME Inv, Inv', LinInv, NEW t \in Threads, EnqNew(t), me[t].at = "enqNext"
  PROVE  LinInv'
<1>0. PICK s \in Segs :
        /\ Allocate(s) /\ configs' = configs
        /\ enqidx' = [enqidx EXCEPT ![s] = 1]
        /\ deqidx' = [deqidx EXCEPT ![s] = 0]
        /\ cell'   = [cell EXCEPT ![s] =
                        [k \in Cells |-> IF k = 0 THEN me[t].item ELSE NoItem]]
        /\ me' = [me EXCEPT ![t] = [me[t] EXCEPT !.at = "enqLink", !.other = s]]
  BY DEF EnqNew, Become, history
<1>1. PICK m : m = [me[t] EXCEPT !.at = "enqLink", !.other = s]
  OBVIOUS
<1>2. /\ head' = head /\ tail' = tail /\ heap[s] # "used"
      /\ next' = [next EXCEPT ![s] = Null]
  BY <1>0 DEF Allocate, HP!MayAllocate
<1>3. /\ me' = [me EXCEPT ![t] = m] /\ m.at = "enqLink" /\ m.other = s
      /\ m.seg = me[t].seg /\ m.item = me[t].item
  BY <1>0, <1>1, Mine, LocalsMade
<1>4. m \in Locals
  BY <1>3, Gone
<1>5. /\ next'[s] = Null /\ enqidx'[s] = 1 /\ deqidx'[s] = 0
      /\ \A k \in Cells : cell'[s][k] = IF k = 0 THEN m.item ELSE NoItem
      /\ \A a \in Segs : a # s => /\ next'[a] = next[a] /\ enqidx'[a] = enqidx[a]
                                  /\ deqidx'[a] = deqidx[a] /\ cell'[a] = cell[a]
  BY <1>0, <1>2, <1>3, Mine DEF Contents
<1>6. me'[t] = m /\ \A u \in Threads : u # t => me'[u] = me[u]
  BY <1>3, <1>4, MeFacts DEF Inv, SegInv
<1>7. \A u \in Threads : me[u].at \in Hold => me[u].seg \in Segs /\ me[u].seg # s
  BY <1>2, Mine
<1>8. \A u \in Threads : \A k : ~ Puts(u, s, k) /\ ~ Visits(u, s, k)
  BY <1>7 DEF Puts, Visits, Hold, HoldTail, HoldHead
<1>9. /\ \A u \in Threads : \A a, k : Puts(u, a, k)' => Puts(u, a, k) /\ me'[u] = me[u]
      /\ \A u \in Threads : \A a, k : Visits(u, a, k) => Visits(u, a, k)'
  BY <1>3, <1>6 DEF Puts, Visits
<1>10. FoundInv'
  <2>1. \A a \in Segs : next'[a] # Null => enqidx'[a] >= BufferSize
    BY <1>5 DEF LinInv, FoundInv
  <2>2. ASSUME NEW a \in Segs, NEW k \in Cells
        PROVE  /\ k >= enqidx'[a] => cell'[a][k] \in {NoItem, Taken}
               /\ k < deqidx'[a] =>
                    cell'[a][k] = Taken \/ \E u \in Threads : Visits(u, a, k)'
               /\ \A u, w \in Threads : Puts(u, a, k)' /\ Puts(w, a, k)' => u = w
    <3>1. CASE a = s
      <4>1. k \in Nat
        BY Bounds
      <4>2. ~ (k < deqidx'[a]) /\ (k >= enqidx'[a] => k # 0)
        BY <1>5, <3>1, <4>1
      <4> QED BY <1>5, <1>8, <1>9, <3>1, <4>2
    <3>2. CASE a # s
      BY <1>5, <1>9, <3>2 DEF LinInv, FoundInv
    <3> QED BY <3>1, <3>2
  <2>3. Found(m)'
    <3>1. enqidx'[m.seg] >= BufferSize
      <4>1. enqidx[me[t].seg] >= BufferSize
        BY FoundAt DEF Found, LinInv
      <4>2. me[t].seg \in Segs /\ me[t].seg # s
        BY <1>7 DEF Hold, HoldTail
      <4> QED BY <1>3, <1>5, <4>1, <4>2
    <3>2. enqidx'[m.other] = 1 /\ deqidx'[m.other] = 0 /\ cell'[m.other][0] = m.item
      BY <1>3, <1>5, Bounds
    <3> QED BY <1>3, <3>1, <3>2 DEF Found, HoldHead, Enqueuing
  <2>4. ASSUME NEW u \in Threads, u # t, NEW x, x = me[u] PROVE Found(x)'
    <3>1. Found(x)
      BY <2>4, FoundAt DEF LinInv
    <3>2. x.at = "enqLink" => x.other \in Segs /\ x.other # s
      BY <1>2, <2>4, Mine DEF OwnerInv, Private, Live, Owning
    <3>3. x.at = "enqLink" => /\ enqidx'[x.other] = enqidx[x.other]
                              /\ deqidx'[x.other] = deqidx[x.other]
                              /\ cell'[x.other] = cell[x.other]
      BY <1>5, <3>2
    <3>4. x.at \in Hold => /\ next'[x.seg] = next[x.seg] /\ enqidx'[x.seg] = enqidx[x.seg]
                           /\ deqidx'[x.seg] = deqidx[x.seg] /\ cell'[x.seg] = cell[x.seg]
      BY <1>5, <1>7, <2>4
    <3>5. /\ {"enqCell", "enqFull", "enqNext", "enqLink", "deqDrained", "deqAdvance",
              "deqIndex", "deqLast", "deqFix"} \subseteq Hold
          /\ HoldHead \subseteq Hold
      BY DEF Hold, HoldTail, HoldHead
    <3> QED BY <1>2, <3>1, <3>3, <3>4, <3>5 DEF Found
  <2> QED BY <1>3, <1>4, <2>1, <2>2, <2>3, <2>4, FoundMoves
<1>11. PICK W : Awaits(W) /\ Explains(W)
  BY DEF LinInv
<1>12. Awaits(W)' /\ \A j \in 1 .. Len(W) : W[j][1] # s
  BY <1>2, <1>5, <1>11, AwaitsNew
<1>13. Maybe' \subseteq Maybe /\ t \notin Maybe'
  <2>1. ASSUME NEW u \in Threads, me[u].at = "deqLast", next'[me[u].seg] = Null
        PROVE  next[me[u].seg] = Null
    BY <1>5, <1>7, <2>1 DEF Hold, HoldHead
  <2> QED BY <1>3, <1>4, <2>1, MaybeShrinks
<1>14. ASSUME NEW D \in Foreseen'
       PROVE  \E C \in Foreseen : \A a \in Segs : a # s => D[a] = C[a]
  <2>1. PICK C : C = [D EXCEPT ![s] = cell[s]]
    OBVIOUS
  <2>2. /\ D \in [Segs -> [Cells -> Items \cup {NoItem, Taken}]]
        /\ cell[s] \in [Cells -> Items \cup {NoItem, Taken}]
    BY Mine DEF Foreseen, Contents
  <2>3. /\ C \in [Segs -> [Cells -> Items \cup {NoItem, Taken}]] /\ C[s] = cell[s]
        /\ \A a \in Segs : a # s => C[a] = D[a]
    BY <2>1, <2>2
  <2>4. \A a \in Segs : \A b \in Cells :
          \/ D[a][b] = cell'[a][b]
          \/ /\ cell'[a][b] = NoItem
             /\ \E u \in Threads : Puts(u, a, b)' /\ D[a][b] = me'[u].item
    BY DEF Foreseen
  <2>5. ASSUME NEW a \in Segs, NEW b \in Cells
        PROVE  \/ C[a][b] = cell[a][b]
               \/ /\ cell[a][b] = NoItem
                  /\ \E u \in Threads : Puts(u, a, b) /\ C[a][b] = me[u].item
    <3>1. CASE a = s
      BY <2>3, <3>1
    <3>2. CASE a # s
      <4>1. cell'[a][b] = cell[a][b] /\ C[a][b] = D[a][b]
        BY <1>5, <2>3, <3>2
      <4>2. CASE D[a][b] = cell'[a][b]
        BY <4>1, <4>2
      <4>3. CASE /\ cell'[a][b] = NoItem
                 /\ \E u \in Threads : Puts(u, a, b)' /\ D[a][b] = me'[u].item
        BY <1>9, <4>1, <4>3
      <4> QED BY <2>4, <4>2, <4>3
    <3> QED BY <3>1, <3>2
  <2>6. C \in Foreseen
    BY <2>3, <2>5 DEF Foreseen
  <2> QED BY <2>3, <2>6
<1>15. ASSUME NEW D \in Foreseen', NEW E \in SUBSET Maybe' PROVE Explained(W, D, E)'
  <2>1. PICK C \in Foreseen : \A a \in Segs : a # s => D[a] = C[a]
    BY <1>14
  <2>2. Explained(W, C, E)
    BY <1>11, <1>13 DEF Explains, Explained
  <2>3. \A u \in Threads : Status(u, me[u], D, E) = Status(u, me[u], C, E)
    <3> SUFFICES ASSUME NEW u \in Threads
                 PROVE  Status(u, me[u], D, E) = Status(u, me[u], C, E)
      OBVIOUS
    <3>1. me[u].at \in {"enqCell", "deqCell"} => D[me[u].seg] = C[me[u].seg]
      BY <1>7, <2>1 DEF Hold, HoldTail, HoldHead
    <3> QED BY <3>1, StatusSame
  <2>4. Status(t, m, D, E) = Status(t, me[t], C, E)
    BY <1>3, StatusFacts DEF Enqueuing
  <2>5. \A j \in 1 .. Len(W) : At(D, W[j]) = At(C, W[j])
    BY <1>11, <1>12, <2>1, AwaitsAt, Mine DEF At
  <2>6. configs \subseteq Confs
    BY DEF LinInv
  <2>7. Inv /\ me' = [me EXCEPT ![t] = m] /\ configs' = configs
    BY <1>0, <1>3
  <2>8. \A u \in Threads : u # t => Status(u, me[u], D, E) = Status(u, me[u], C, E)
    BY <2>3
  <2> QED BY ONLY C \in Foreseen, t \in Threads, <1>4, <2>2, <2>4, <2>5, <2>6, <2>7,
                  <2>8, ExplainedSilent
<1> QED BY <1>0, <1>10, <1>12, <1>15, ExplainsEach DEF LinInv

(* A dequeuer draws a cell, and has its item if there is to be one. *)
LEMMA LinDeqDraw ==
  ASSUME Inv, Inv', LinInv, NEW t \in Threads, DeqDraw(t) PROVE LinInv'
<1>0. PICK s, n : s = me[t].seg /\ n = deqidx[s]
  OBVIOUS
<1>1. PICK at, m : /\ at = IF n < BufferSize THEN "deqCell" ELSE "deqDrained"
                   /\ m = [me[t] EXCEPT !.at = at, !.idx = n, !.last = 0]
  OBVIOUS
<1>2. /\ me[t].at = "deqDraw" /\ head' = head /\ tail' = tail /\ next' = next
      /\ enqidx' = enqidx /\ cell' = cell /\ configs' = configs
      /\ me' = [me EXCEPT ![t] = m] /\ deqidx' = [deqidx EXCEPT ![s] = Bump(@)]
  BY <1>0, <1>1 DEF DeqDraw, Become, history, list
<1>3. m.at = at /\ m.seg = s /\ m.idx = n /\ m.item = me[t].item
  BY <1>0, <1>1, Mine, LocalsMade
<1>4. m \in Locals
  BY <1>2, Gone
<1>5. /\ s \in Segs /\ n \in Nat /\ enqidx[s] \in Nat /\ BufferSize \in Nat
      /\ deqidx \in [Segs -> 0 .. (BufferSize + 1)] /\ Holds(t, s)
      /\ \A a \in Segs : deqidx[a] \in Nat
  BY <1>0, <1>2, Mine, Fields DEF Hold, HoldHead, Holds
<1>6. /\ s = head \/ (next[s] # Null /\ n >= BufferSize)
      /\ me[t].item = NoItem
      /\ n < BufferSize => s = head
  <2>1. s = head \/ (next[s] # Null /\ n >= BufferSize)
    BY <1>0, <1>2, FoundAt DEF Found, HoldHead, LinInv
  <2>2. me[t].item = NoItem
    BY <1>2, FoundAt DEF Searching, LinInv
  <2> QED BY <1>5, <2>1, <2>2
<1>7. PICK b \in Nat : /\ b = Bump(n) /\ deqidx' = [deqidx EXCEPT ![s] = b] /\ n <= b
                       /\ deqidx'[s] = b /\ (n < BufferSize => b = n + 1)
  <2>1. Bump(n) \in Nat /\ n <= Bump(n) /\ (n < BufferSize => Bump(n) = n + 1)
    BY <1>5 DEF Bump
  <2>2. deqidx' = [deqidx EXCEPT ![s] = Bump(n)]
    BY <1>0, <1>2, <1>5
  <2> QED BY <1>5, <2>1, <2>2
<1>8. me'[t] = m /\ \A u \in Threads : u # t => me'[u] = me[u]
  BY <1>2, <1>4, MeFacts DEF Inv, SegInv
<1>9. /\ \A a \in Segs : deqidx'[a] \in Nat /\ deqidx'[a] >= deqidx[a]
      /\ \A a \in Segs : a # s => deqidx'[a] = deqidx[a]
  BY <1>0, <1>5, <1>7
<1>10. m.at \in {"deqCell", "deqDrained"}
  BY <1>1, <1>3
<1>11. FoundInv'
  <2>1. \A a \in Segs : next'[a] # Null => enqidx'[a] >= BufferSize
    BY <1>2 DEF LinInv, FoundInv
  <2>2. /\ \A u \in Threads : \A a, k : Puts(u, a, k)' => Puts(u, a, k)
        /\ \A u \in Threads : \A a, k : Visits(u, a, k) => Visits(u, a, k)'
    BY <1>2, <1>8, <1>10 DEF Puts, Visits
  <2>3. ASSUME NEW a \in Segs, NEW k \in Cells
        PROVE  /\ k >= enqidx'[a] => cell'[a][k] \in {NoItem, Taken}
               /\ k < deqidx'[a] =>
                    cell'[a][k] = Taken \/ \E u \in Threads : Visits(u, a, k)'
               /\ \A u, w \in Threads : Puts(u, a, k)' /\ Puts(w, a, k)' => u = w
    <3>1. /\ k >= enqidx'[a] => cell'[a][k] \in {NoItem, Taken}
          /\ k < deqidx[a] =>
               cell'[a][k] = Taken \/ \E u \in Threads : Visits(u, a, k)'
          /\ \A u, w \in Threads : Puts(u, a, k)' /\ Puts(w, a, k)' => u = w
      BY <1>2, <2>2 DEF LinInv, FoundInv
    <3>2. ASSUME k < deqidx'[a], ~ (k < deqidx[a]) PROVE Visits(t, a, k)'
      <4>1. k \in Nat /\ k < BufferSize
        BY Bounds
      <4>2. a = s
        BY <1>9, <3>2
      <4>3. k = n /\ n < BufferSize
        BY <1>0, <1>5, <1>7, <3>2, <4>1, <4>2 DEF Bump
      <4>4. m.at = "deqCell"
        BY <1>1, <1>3, <4>3
      <4> QED BY <1>3, <1>8, <4>2, <4>3, <4>4 DEF Visits
    <3> QED BY <3>1, <3>2
  <2>4. Found(m)'
    <3>1. m.seg = head' \/ (next'[m.seg] # Null /\ deqidx'[m.seg] >= BufferSize)
      BY <1>2, <1>3, <1>5, <1>6, <1>7
    <3>2. m.at = "deqDrained" => deqidx'[m.seg] >= BufferSize
      BY <1>1, <1>3, <1>5, <1>7
    <3> QED BY <1>3, <1>6, <1>10, <3>1, <3>2 DEF Found, HoldHead, Enqueuing, Over
  <2>5. ASSUME NEW u \in Threads, u # t, NEW x, x = me[u] PROVE Found(x)'
    <3>1. Found(x)
      BY <2>5, FoundAt DEF LinInv
    <3>2. x.at = "enqLink" => x.other \in Segs /\ x.other # s
      BY <1>5, <2>5, Mine DEF OwnerInv, Private, Live, Owning
    <3>3. x.at = "enqLink" => deqidx'[x.other] = deqidx[x.other]
      BY <1>9, <3>2
    <3>4. x.at \in HoldHead => x.seg \in Segs
      BY <2>5, Mine DEF Hold
    <3>5. x.at \in HoldHead /\ deqidx[x.seg] >= BufferSize => deqidx'[x.seg] >= BufferSize
      BY <1>5, <1>9, <3>4
    <3>6. x.idx \in Nat
      BY <2>5, Mine
    <3>7. x.at \in HoldHead /\ x.idx < deqidx[x.seg] => x.idx < deqidx'[x.seg]
      BY <1>5, <1>9, <3>4, <3>6
    <3>8. {"deqDrained", "deqAdvance", "deqIndex", "deqLast", "deqFix"} \subseteq HoldHead
      BY DEF HoldHead
    <3> QED BY <1>2, <3>1, <3>3, <3>5, <3>7, <3>8 DEF Found
  <2> QED BY <1>2, <1>4, <2>1, <2>3, <2>4, <2>5, FoundMoves
<1>12. PICK W : Awaits(W) /\ Explains(W)
  BY DEF LinInv
<1>13. CASE n >= BufferSize
  <2>1. m.at = "deqDrained"
    BY <1>1, <1>3, <1>5, <1>13
  <2>2. Awaits(W)'
    BY <1>0, <1>2, <1>5, <1>7, <1>12, <1>13, AwaitsDrained
  <2>3. \A C \in Foreseen : Status(t, m, C, {}) = Status(t, me[t], C, {})
    BY <1>2, <2>1, StatusFacts DEF Searching
  <2>4. Explains(W)'
    BY <1>2, <1>4, <1>12, <2>1, <2>3, ExplainsSilent DEF LinInv
  <2> QED BY <1>2, <1>11, <2>2, <2>4 DEF LinInv
<1>14. CASE n < BufferSize
  <2>1. m.at = "deqCell" /\ s = head /\ n \in Cells
    BY <1>1, <1>3, <1>5, <1>6, <1>14, Bounds
  <2>2. Maybe' \subseteq Maybe /\ t \notin Maybe'
    BY <1>2, <1>4, <2>1, MaybeShrinks
  <2>3. Foreseen' \subseteq Foreseen
    BY <1>2, <1>4, <2>1, ForeseenSame
  <2>4. deqidx' = [deqidx EXCEPT ![head] = deqidx[head] + 1] /\ deqidx[head] < BufferSize
    BY <1>0, <1>7, <1>14, <2>1
  <2>5. ASSUME NEW D \in Foreseen', NEW E \in SUBSET Maybe'
        PROVE  /\ D \in Foreseen /\ Explained(W, D, E)
               /\ Status(t, me[t], D, E) = Monitor!DeqCall
               /\ D[s][n] \in Items => Status(t, m, D, E) = Monitor!Done(D[s][n])
               /\ D[s][n] \notin Items => Status(t, m, D, E) = Monitor!DeqCall
    <3>1. D \in Foreseen /\ E \in SUBSET Maybe /\ t \notin E
      BY <2>2, <2>3
    <3>2. Explained(W, D, E)
      BY <1>12, <3>1 DEF Explains, Explained
    <3> QED BY <1>2, <1>3, <2>1, <3>1, <3>2, StatusFacts DEF Searching
  <2>6. CASE W = <<>>
    <3>1. Awaits(<<>>)'
      <4>1. /\ Awaits(<<>>) /\ deqidx' = [deqidx EXCEPT ![head] = b]
            /\ deqidx[head] <= b
        BY <1>0, <1>7, <1>12, <2>1, <2>6
      <4> QED BY <1>2, <4>1, AwaitsEmpty
    <3>2. n >= enqidx[s] /\ n \in Nat
      BY <1>0, <1>5, <1>12, <1>14, <2>1, <2>6 DEF Awaits
    <3>3. cell[s][n] \in {NoItem, Taken}
      BY <1>5, <2>1, <3>2 DEF LinInv, FoundInv
    <3>4. \A u \in Threads : ~ Puts(u, s, n)
      <4> SUFFICES ASSUME NEW u \in Threads, Puts(u, s, n) PROVE FALSE
        OBVIOUS
      <4>1. n < enqidx[s]
        BY FoundAt DEF Puts, Found, LinInv
      <4> QED BY <1>5, <3>2, <4>1
    <3>5. ASSUME NEW D \in Foreseen', NEW E \in SUBSET Maybe' PROVE Explained(W, D, E)'
      <4>1. D[s][n] \notin Items
        <5>1. D \in Foreseen
          BY <2>5
        <5>2. D[s][n] = cell[s][n]
          BY <1>5, <2>1, <3>4, <5>1, ForeseenAt
        <5> QED BY <3>3, <5>2, Bounds DEF NoItem
      <4>2. Status(t, m, D, E) = Status(t, me[t], D, E)
        BY <2>5, <4>1
      <4>3. /\ \A u \in Threads : u # t => Status(u, me[u], D, E) = Status(u, me[u], D, E)
            /\ \A j \in 1 .. Len(W) : At(D, W[j]) = At(D, W[j])
            /\ configs \subseteq Confs
        BY DEF LinInv
      <4> QED BY <1>2, <1>4, <2>5, <4>2, <4>3, ExplainedSilent
    <3> QED BY <1>2, <1>11, <2>6, <3>1, <3>5, ExplainsEach DEF LinInv
  <2>7. CASE W # <<>>
    <3>1. PICK X : X = Tail(W)
      OBVIOUS
    <3>2. W[1] = <<head, deqidx[head]>> /\ Awaits(X)'
      BY <1>2, <1>12, <2>4, <2>7, <3>1, AwaitsTake
    <3>3. W \in Seq(Segs \X Cells)
      BY <1>12 DEF Awaits
    <3>4. ASSUME NEW D \in Foreseen', NEW E \in SUBSET Maybe' PROVE Explained(X, D, E)'
      <4>1. At(D, W[1]) = D[s][n]
        BY <1>0, <2>1, <3>2 DEF At
      <4>2. \A Q \in Seq(Items) : Picks(W, D, Q) =>
              \E R \in Seq(Items) : /\ Picks(X, D, R)
                /\ Effect(Q, Status(t, me[t], D, E), R, Status(t, m, D, E))
        <5> SUFFICES ASSUME NEW Q \in Seq(Items), Picks(W, D, Q)
                     PROVE  \E R \in Seq(Items) : /\ Picks(X, D, R)
                       /\ Effect(Q, Status(t, me[t], D, E), R, Status(t, m, D, E))
          OBVIOUS
        <5>1. CASE D[s][n] \in Items
          <6>1. PICK x \in Items : x = D[s][n]
            BY <5>1
          <6>2. At(D, W[1]) = x
            BY <4>1, <6>1
          <6>3. Q # <<>> /\ Head(Q) = x /\ Tail(Q) \in Seq(Items) /\ Picks(Tail(W), D, Tail(Q))
            BY ONLY <2>7, <3>3, <6>2, x \in Items, Q \in Seq(Items), Picks(W, D, Q),
                    PicksTake
          <6>4. Effect(Q, Status(t, me[t], D, E), Tail(Q), Status(t, m, D, E))
            BY <2>5, <5>1, <6>1, <6>3 DEF Effect
          <6> QED BY <3>1, <6>3, <6>4
        <5>2. CASE D[s][n] \notin Items
          <6>1. At(D, W[1]) \notin Items
            BY <4>1, <5>2
          <6>2. Picks(Tail(W), D, Q)
            BY ONLY <2>7, <3>3, <6>1, Q \in Seq(Items), Picks(W, D, Q), PicksPass
          <6>3. Effect(Q, Status(t, me[t], D, E), Q, Status(t, m, D, E))
            BY <2>5, <5>2 DEF Effect
          <6> QED BY <3>1, <6>2, <6>3
        <5> QED BY <5>1, <5>2
      <4>3. \A u \in Threads : u # t => Status(u, me[u], D, E) = Status(u, me[u], D, E)
        OBVIOUS
      <4>4. /\ Inv /\ configs \subseteq Confs /\ me' = [me EXCEPT ![t] = m]
            /\ configs' = configs /\ D \in Foreseen /\ Explained(W, D, E)
        BY <1>2, <2>5 DEF LinInv
      <4> QED BY ONLY t \in Threads, <1>4, <4>2, <4>3, <4>4, ExplainedStep
    <3> QED BY <1>2, <1>11, <3>2, <3>4, ExplainsEach DEF LinInv
  <2> QED BY <2>6, <2>7
<1> QED BY <1>5, <1>13, <1>14

(* What a dequeuer finds in the cell it has drawn is what was foreseen. *)
LEMMA LinDeqCell ==
  ASSUME Inv, Inv', LinInv, NEW t \in Threads, DeqCell(t) PROVE LinInv'
<1>0. PICK s, k, v : s = me[t].seg /\ k = me[t].idx /\ v = cell[s][k]
  OBVIOUS
<1>1. PICK at, m : /\ at = IF v = NoItem THEN "deqIndex" ELSE "deqClear"
                   /\ m = [me[t] EXCEPT !.at = at, !.item = v]
  OBVIOUS
<1>2. /\ me[t].at = "deqCell" /\ head' = head /\ tail' = tail /\ next' = next
      /\ enqidx' = enqidx /\ deqidx' = deqidx /\ configs' = configs
      /\ me' = [me EXCEPT ![t] = m] /\ cell' = [cell EXCEPT ![s][k] = Taken]
  BY <1>0, <1>1 DEF DeqCell, Become, history, list
<1>3. m.at = at /\ m.seg = s /\ m.idx = k /\ m.item = v
  BY <1>0, <1>1, Mine, LocalsMade
<1>4. m \in Locals
  BY <1>2, Gone
<1>5. /\ s \in Segs /\ k \in Cells /\ Holds(t, s) /\ Visits(t, s, k)
      /\ k \in Nat /\ enqidx[s] \in Nat /\ deqidx[s] \in Nat
  BY <1>0, <1>2, CellAt, Fields, Bounds DEF Hold, HoldHead, Holds, Visits
<1>6. /\ k < deqidx[s] /\ v \in Items \cup {NoItem}
      /\ \A u \in Threads : Visits(u, s, k) => u = t
  <2>1. v # Taken /\ v \in Items \cup {NoItem, Taken}
    BY <1>0, <1>5, Mine DEF CellInv, Contents
  <2> QED BY <1>5, <2>1 DEF Inv, CellInv
<1>7. /\ cell'[s][k] = Taken
      /\ \A a \in Segs : \A b \in Cells : a # s \/ b # k => cell'[a][b] = cell[a][b]
  BY <1>2, <1>5, Mine DEF Contents
<1>8. me'[t] = m /\ \A u \in Threads : u # t => me'[u] = me[u]
  BY <1>2, <1>4, MeFacts DEF Inv, SegInv
<1>9. /\ \A u \in Threads : \A a, b : Puts(u, a, b)' => Puts(u, a, b) /\ me'[u] = me[u]
      /\ \A u \in Threads : \A a, b : u # t /\ Visits(u, a, b) => Visits(u, a, b)'
      /\ \A a, b : Visits(t, a, b) => a = s /\ b = k
  BY <1>0, <1>1, <1>3, <1>8 DEF Puts, Visits
<1>10. Found(me[t])
  BY FoundAt DEF LinInv
<1>11. FoundInv'
  <2>1. \A a \in Segs : next'[a] # Null => enqidx'[a] >= BufferSize
    BY <1>2 DEF LinInv, FoundInv
  <2>2. ASSUME NEW a \in Segs, NEW b \in Cells
        PROVE  /\ b >= enqidx'[a] => cell'[a][b] \in {NoItem, Taken}
               /\ b < deqidx'[a] =>
                    cell'[a][b] = Taken \/ \E u \in Threads : Visits(u, a, b)'
               /\ \A u, w \in Threads : Puts(u, a, b)' /\ Puts(w, a, b)' => u = w
    <3>1. /\ b >= enqidx[a] => cell[a][b] \in {NoItem, Taken}
          /\ b < deqidx[a] => cell[a][b] = Taken \/ \E u \in Threads : Visits(u, a, b)
          /\ \A u, w \in Threads : Puts(u, a, b) /\ Puts(w, a, b) => u = w
      BY DEF LinInv, FoundInv
    <3>2. CASE a = s /\ b = k
      BY <1>7, <1>9, <3>1, <3>2
    <3>3. CASE a # s \/ b # k
      BY <1>2, <1>7, <1>9, <3>1, <3>3
    <3> QED BY <3>2, <3>3
  <2>3. Found(m)'
    <3>1. m.at = "deqIndex" => /\ m.item = NoItem /\ m.idx < deqidx'[m.seg]
                               /\ m.seg = head' \/ (next'[m.seg] # Null
                                                    /\ deqidx'[m.seg] >= BufferSize)
      BY <1>0, <1>1, <1>2, <1>3, <1>6, <1>10 DEF Found, HoldHead
    <3>2. m.at \in {"deqIndex", "deqClear"}
      BY <1>1, <1>3
    <3> QED BY <3>1, <3>2 DEF Found, HoldHead, Enqueuing, Over
  <2>4. ASSUME NEW u \in Threads, u # t, NEW x, x = me[u] PROVE Found(x)'
    <3>1. Found(x)
      BY <2>4, FoundAt DEF LinInv
    <3>2. x.at = "enqCell" => x.seg \in Segs /\ x.idx \in Cells
      BY <2>4, CellAt
    <3>3. x.at = "enqCell" => cell'[x.seg][x.idx] \in {NoItem, Taken}
      BY <1>7, <3>1, <3>2 DEF Found
    <3>4. x.at = "enqLink" => x.other \in Segs /\ x.other # s /\ 0 \in Cells
      BY <1>5, <2>4, Mine, Bounds DEF Owning, OwnerInv, Private, Live
    <3>5. x.at = "enqLink" => cell'[x.other][0] = cell[x.other][0]
      BY <1>7, <3>4
    <3> QED BY <1>2, <3>1, <3>3, <3>5 DEF Found
  <2> QED BY <1>2, <1>4, <2>1, <2>2, <2>3, <2>4, FoundMoves
<1>12. PICK W : Awaits(W) /\ Explains(W)
  BY DEF LinInv
<1>13. Awaits(W)'
  BY <1>2, <1>12, AwaitsKept
<1>14. Maybe' \subseteq Maybe /\ t \notin Maybe'
  <2>1. m.at # "deqLast"
    BY <1>1, <1>3
  <2> QED BY <1>2, <1>4, <2>1, MaybeShrinks
<1>15. ASSUME NEW D \in Foreseen'
       PROVE  /\ D[s][k] = Taken
              /\ \E C \in Foreseen :
                   /\ C[s][k] = v
                   /\ \A a \in Segs : \A b \in Cells : a # s \/ b # k => D[a][b] = C[a][b]
  <2>1. PICK C : C = [D EXCEPT ![s] = [D[s] EXCEPT ![k] = v]]
    OBVIOUS
  <2>2. /\ D \in [Segs -> [Cells -> Items \cup {NoItem, Taken}]]
        /\ \A a \in Segs : \A b \in Cells :
             \/ D[a][b] = cell'[a][b]
             \/ /\ cell'[a][b] = NoItem
                /\ \E u \in Threads : Puts(u, a, b)' /\ D[a][b] = me'[u].item
    BY DEF Foreseen
  <2>3. C \in [Segs -> [Cells -> Items \cup {NoItem, Taken}]]
    BY <1>6, <2>1, <2>2
  <2>4. /\ C[s][k] = v
        /\ \A a \in Segs : \A b \in Cells : a # s \/ b # k => D[a][b] = C[a][b]
    BY <1>5, <2>1, <2>2
  <2>5. D[s][k] = Taken
    BY <1>5, <1>7, <2>2, Bounds
  <2>6. ASSUME NEW a \in Segs, NEW b \in Cells
        PROVE  \/ C[a][b] = cell[a][b]
               \/ /\ cell[a][b] = NoItem
                  /\ \E u \in Threads : Puts(u, a, b) /\ C[a][b] = me[u].item
    <3>1. CASE a = s /\ b = k
      BY <1>0, <2>4, <3>1
    <3>2. CASE a # s \/ b # k
      <4>1. C[a][b] = D[a][b] /\ cell'[a][b] = cell[a][b]
        BY <1>7, <2>4, <3>2
      <4>2. CASE D[a][b] = cell'[a][b]
        BY <4>1, <4>2
      <4>3. CASE /\ cell'[a][b] = NoItem
                 /\ \E u \in Threads : Puts(u, a, b)' /\ D[a][b] = me'[u].item
        BY <1>9, <4>1, <4>3
      <4> QED BY <2>2, <4>2, <4>3
    <3> QED BY <3>1, <3>2
  <2>7. C \in Foreseen
    BY <2>3, <2>6 DEF Foreseen
  <2> QED BY <2>4, <2>5, <2>7
<1>16. ASSUME NEW D \in Foreseen', NEW E \in SUBSET Maybe' PROVE Explained(W, D, E)'
  <2>1. D[s][k] = Taken
    BY <1>15
  <2>2. PICK C \in Foreseen :
          /\ C[s][k] = v
          /\ \A a \in Segs : \A b \in Cells : a # s \/ b # k => D[a][b] = C[a][b]
    BY <1>15
  <2>3. Explained(W, C, E) /\ t \notin E
    BY <1>12, <1>14, <2>2 DEF Explains, Explained
  <2>4. Status(t, m, D, E) = Status(t, me[t], C, E)
    <3>1. CASE v = NoItem
      <4>1. C[s][k] \notin Items
        BY <2>2, <3>1, Bounds DEF NoItem
      <4>2. Status(t, me[t], C, E) = Monitor!DeqCall
        BY <1>0, <1>2, <2>3, <4>1, StatusFacts
      <4>3. m.at \in Searching
        BY <1>1, <1>3, <3>1 DEF Searching
      <4>4. Status(t, m, D, E) = Monitor!DeqCall
        BY <2>3, <4>3, StatusFacts
      <4> QED BY <4>2, <4>4
    <3>2. CASE v # NoItem
      <4>1. v \in Items
        BY <1>6, <3>2
      <4>2. Status(t, me[t], C, E) = Monitor!Done(v)
        BY <1>0, <1>2, <2>2, <4>1, StatusFacts
      <4>3. m.at = "deqClear" /\ m.item = v
        BY <1>1, <1>3, <3>2
      <4>4. Status(t, m, D, E) = Monitor!Done(v)
        BY <4>3, StatusFacts
      <4> QED BY <4>2, <4>4
    <3> QED BY <3>1, <3>2
  <2>5. ASSUME NEW u \in Threads, u # t
        PROVE  Status(u, me[u], D, E) = Status(u, me[u], C, E)
    <3>1. CASE Puts(u, s, k)
      <4>1. me[u].at = "enqCell" /\ me[u].seg = s /\ me[u].idx = k
        BY <3>1 DEF Puts
      <4>2. v \in {NoItem, Taken} /\ me[u].item \in Items
        BY <1>0, <4>1, FoundAt, Mine DEF Found, LinInv, Local, Enqueuing
      <4>3. C[s][k] # me[u].item /\ D[s][k] # me[u].item
        BY <2>1, <2>2, <4>2, Bounds DEF NoItem
      <4> QED BY <4>1, <4>3, StatusFacts DEF Enqueuing
    <3>2. CASE ~ Puts(u, s, k)
      <4>1. ~ Visits(u, s, k)
        BY <1>6, <2>5
      <4> QED BY <2>2, <3>2, <4>1, StatusElsewhere
    <3> QED BY <3>1, <3>2
  <2>6. \A j \in 1 .. Len(W) : At(D, W[j]) = At(C, W[j])
    <3> SUFFICES ASSUME NEW j \in 1 .. Len(W) PROVE At(D, W[j]) = At(C, W[j])
      OBVIOUS
    <3>1. W[j][1] \in Segs /\ W[j][2] \in Cells /\ deqidx[W[j][1]] <= W[j][2]
          /\ W[j][2] \in Nat
      BY <1>12, AwaitsAt, Mine
    <3>2. W[j][1] # s \/ W[j][2] # k
      BY <1>5, <1>6, <3>1
    <3> QED BY <2>2, <3>1, <3>2 DEF At
  <2>7. /\ Inv /\ configs \subseteq Confs /\ me' = [me EXCEPT ![t] = m]
        /\ configs' = configs /\ Explained(W, C, E)
    BY <1>2, <2>3 DEF LinInv
  <2>8. \A u \in Threads : u # t => Status(u, me[u], D, E) = Status(u, me[u], C, E)
    BY <2>5
  <2> QED BY ONLY C \in Foreseen, t \in Threads, <1>4, <2>4, <2>6, <2>7, <2>8,
                  ExplainedSilent
<1> QED BY <1>2, <1>11, <1>13, <1>16, ExplainsEach DEF LinInv

(* head passes a drained segment. *)
LEMMA LinDeqAdvance ==
  ASSUME Inv, Inv', LinInv, NEW t \in Threads, DeqAdvance(t) PROVE LinInv'
<1>1. /\ me[t].at = "deqAdvance" /\ tail' = tail /\ next' = next
      /\ enqidx' = enqidx /\ deqidx' = deqidx /\ cell' = cell
  BY DEF DeqAdvance
<1>2. /\ me[t].other = next[me[t].seg] /\ me[t].other # Null
      /\ Found(me[t]) /\ me[t].item = NoItem
  BY <1>1, Mine, FoundAt DEF HolderInv, Follows, Advancing, Searching, LinInv
<1>3. CASE CasHead(t) /\ Restart(t, "retire")
  <2>1. head = me[t].seg /\ head' = next[head] /\ next[head] # Null
    BY <1>2, <1>3 DEF CasHead
  <2>2. PICK m \in Locals : /\ me' = [me EXCEPT ![t] = m] /\ configs' = configs
                            /\ m.at = "retire" /\ m.item = me[t].item
    BY <1>3, RestartMade
  <2>3. deqidx[head] >= BufferSize
    BY <1>1, <1>2, <2>1 DEF Found
  <2>4. me'[t] = m /\ \A u \in Threads : u # t => me'[u] = me[u]
    BY <2>2, MeFacts DEF Inv, SegInv
  <2>5. FoundInv'
    <3>1. \A s \in Segs : next'[s] # Null => enqidx'[s] >= BufferSize
      BY <1>1 DEF LinInv, FoundInv
    <3>2. /\ \A u \in Threads : \A s, k : Puts(u, s, k)' => Puts(u, s, k)
          /\ \A u \in Threads : \A s, k : Visits(u, s, k) => Visits(u, s, k)'
      BY <1>1, <2>2, <2>4 DEF Puts, Visits
    <3>3. \A s \in Segs : \A k \in Cells :
            /\ k >= enqidx'[s] => cell'[s][k] \in {NoItem, Taken}
            /\ k < deqidx'[s] => cell'[s][k] = Taken \/ \E u \in Threads : Visits(u, s, k)'
            /\ \A u, w \in Threads : Puts(u, s, k)' /\ Puts(w, s, k)' => u = w
      BY <1>1, <3>2 DEF LinInv, FoundInv
    <3>4. Found(m)'
      BY <1>2, <2>2 DEF Found, HoldHead, Enqueuing, Over
    <3>5. ASSUME NEW u \in Threads, u # t, NEW x, x = me[u] PROVE Found(x)'
      <4>1. Found(x)
        BY <3>5, FoundAt DEF LinInv
      <4>2. x.at \in HoldHead => next[x.seg] # Null /\ deqidx[x.seg] >= BufferSize
        BY <2>1, <2>3, <4>1 DEF Found
      <4>3. x.at = "deqLast" => x.at \in HoldHead
        BY DEF HoldHead
      <4> QED BY <1>1, <4>1, <4>2, <4>3 DEF Found
    <3> QED BY <2>2, <3>1, <3>3, <3>4, <3>5, FoundMoves
  <2>6. PICK W : Awaits(W) /\ Explains(W)
    BY DEF LinInv
  <2>7. Awaits(W)'
    BY <1>1, <2>1, <2>3, <2>6, AwaitsAdvance
  <2>8. \A C \in Foreseen : Status(t, m, C, {}) = Status(t, me[t], C, {})
    BY <1>1, <2>2, StatusFacts DEF Searching
  <2>9. Explains(W)'
    BY <1>1, <2>2, <2>6, <2>8, ExplainsSilent DEF LinInv
  <2> QED BY <2>2, <2>5, <2>7, <2>9 DEF LinInv
<1>4. CASE Restart(t, "deqLoad") /\ head' = head
  <2>1. PICK m \in Locals : /\ me' = [me EXCEPT ![t] = m] /\ configs' = configs
                            /\ m.at = "deqLoad" /\ m.item = me[t].item
    BY <1>4, RestartMade
  <2>2. Found(m)
    BY <1>2, <2>1, FoundEasy
  <2> QED BY <1>1, <1>4, <2>1, <2>2, DeqSilent DEF Searching
<1> QED BY <1>3, <1>4 DEF DeqAdvance

----------------------------------------------------------------------------
(* The steps that leave the cells alone, and the calls. *)

LEMMA LinReturn ==
  ASSUME Inv, Inv', LinInv, NEW t \in Threads, NEW here, NEW k,
         NEW r \in Items \cup {NoItem}, ClearAndReturn(t, here, k, r),
         enqidx' = enqidx, deqidx' = deqidx, cell' = cell, me[t].at # "deqCell",
         \A C, S : Status(t, me[t], C, S) = Monitor!Done(r)
  PROVE  LinInv'
<1>1. /\ me' = [me EXCEPT ![t] = Fresh] /\ head' = head /\ tail' = tail
      /\ next' = next /\ configs' = Monitor!Returned(configs, t, r)
  BY DEF ClearAndReturn, list
<1>2. Fresh.at = "idle" /\ Fresh.item = NoItem /\ Fresh \in Locals
  BY FreshLocals DEF Fresh
<1>3. Found(Fresh)
  BY <1>2, FoundEasy
<1>4. FoundInv'
  BY <1>1, <1>2, <1>3, FoundKept DEF LinInv
<1>5. PICK W : Awaits(W) /\ Explains(W)
  BY DEF LinInv
<1>6. Awaits(W)'
  BY <1>1, <1>5, AwaitsKept
<1>7. Maybe' \subseteq Maybe /\ Foreseen' \subseteq Foreseen
  BY <1>1, <1>2, MaybeShrinks, ForeseenSame
<1>8. ASSUME NEW D \in Foreseen, NEW E \in SUBSET Maybe
      PROVE  Explained(W, D, E)' /\ configs' \subseteq Confs
  <2>1. Explained(W, D, E)
    BY <1>5 DEF Explains, Explained
  <2>2. Status(t, Fresh, D, E) = Monitor!NoCall
    BY <1>2, StatusFacts
  <2> QED BY <1>1, <1>2, <2>1, <2>2, ExplainedReturn DEF LinInv
<1>9. Explains(W)'
  BY <1>7, <1>8, ExplainsEach
<1>10. configs' \subseteq Confs
  <2>1. cell \in Foreseen /\ {} \in SUBSET Maybe
    BY Mine DEF Foreseen, Contents
  <2> QED BY <1>8, <2>1
<1> QED BY <1>4, <1>6, <1>9, <1>10 DEF LinInv

LEMMA LinListSteps ==
  ASSUME Inv, Inv', LinInv, NEW t \in Threads, ListStep(t) PROVE LinInv'
<1>0. enqidx' = enqidx /\ deqidx' = deqidx /\ cell' = cell
  BY DEF ListStep
<1>2. CASE EnqSwing(t)
  <2>1. /\ me[t].at = "enqSwing" /\ CasTail(t) /\ Goto(t, "enqClear")
        /\ head' = head /\ next' = next
    BY <1>2 DEF EnqSwing
  <2>2. PICK m \in Locals : /\ me' = [me EXCEPT ![t] = m] /\ configs' = configs
                            /\ m.at = "enqClear"
    BY <2>1, GotoMade
  <2>3. Found(m)
    BY <2>2, FoundEasy
  <2>4. \A C \in Foreseen : Status(t, m, C, {}) = Status(t, me[t], C, {})
    BY <2>1, <2>2, StatusFacts DEF Over
  <2>5. tail' = tail \/ (tail' = next[tail] /\ next[tail] # Null)
    BY <2>1, TailMoved DEF Advancing
  <2> QED BY <1>0, <2>1, <2>2, <2>3, <2>4, <2>5, LinSilent
<1>3. CASE EnqClear(t)
  <2>1. me[t].at = "enqClear"
    BY <1>3 DEF EnqClear, ClearAndReturn
  <2>2. \A C, S : Status(t, me[t], C, S) = Monitor!Done(NoItem)
    BY <2>1, StatusFacts DEF Over
  <2> QED BY <1>0, <1>3, <2>1, <2>2, LinReturn DEF EnqClear
<1>5. CASE RetireStep(t)
  BY <1>0, <1>5, LinKept DEF RetireStep, history, list
<1>6. CASE RetireReturn(t, "deqLoad")
  <2>1. /\ me[t].at = "retire" /\ Goto(t, "deqLoad")
        /\ head' = head /\ tail' = tail /\ next' = next
    BY <1>6 DEF RetireReturn, list
  <2>2. PICK m \in Locals : /\ me' = [me EXCEPT ![t] = m] /\ configs' = configs
                            /\ m.at = "deqLoad" /\ m.item = me[t].item
    BY <2>1, GotoMade
  <2>3. m.item = NoItem
    BY <2>1, <2>2, FoundAt DEF Searching, LinInv
  <2>4. Found(m)
    BY <2>2, <2>3, FoundEasy
  <2> QED BY <1>0, <2>1, <2>2, <2>4, DeqSilent DEF Searching
<1>7. CASE DeqClear(t)
  <2>1. PICK r : r = me[t].item
    OBVIOUS
  <2>2. me[t].at = "deqClear" /\ ClearAndReturn(t, "deqClear", kHpHead, r)
    BY <1>7, <2>1 DEF DeqClear, ClearAndReturn
  <2>3. r \in Items \cup {NoItem}
    BY <2>1, Mine DEF Locals
  <2>4. \A C, S : Status(t, me[t], C, S) = Monitor!Done(r)
    BY <2>1, <2>2, StatusFacts
  <2> QED BY <1>0, <2>2, <2>3, <2>4, LinReturn
<1> QED BY <1>2, <1>3, <1>5, <1>6, <1>7 DEF ListStep

LEMMA LinCalled ==
  ASSUME Inv, LinInv, NEW t \in Threads, NEW m \in Locals, NEW x \in Calls,
         me[t].at = "idle", me' = [me EXCEPT ![t] = m],
         m.at \in {"enqLoad", "deqLoad"}, Found(m),
         configs' = Monitor!Called(configs, t, x), x.stage # "done",
         \A C, S : t \notin S => Status(t, m, C, S) = x,
         head' = head, tail' = tail, next' = next,
         enqidx' = enqidx, deqidx' = deqidx, cell' = cell
  PROVE  LinInv'
<1>1. FoundInv'
  BY FoundKept DEF LinInv
<1>2. PICK W : Awaits(W) /\ Explains(W)
  BY DEF LinInv
<1>3. Awaits(W)'
  BY <1>2, AwaitsKept
<1>4. Maybe' \subseteq Maybe /\ Foreseen' \subseteq Foreseen /\ t \notin Maybe
  BY MaybeShrinks, ForeseenSame DEF Maybe
<1>5. ASSUME NEW D \in Foreseen, NEW E \in SUBSET Maybe
      PROVE  Explained(W, D, E)' /\ configs' \subseteq Confs
  <2>1. Explained(W, D, E)
    BY <1>2 DEF Explains, Explained
  <2>2. Status(t, me[t], D, E) = Monitor!NoCall
    BY StatusFacts
  <2>3. Status(t, m, D, E) = x
    BY <1>4
  <2> QED BY <2>1, <2>2, <2>3, ExplainedCall DEF LinInv
<1>6. Explains(W)'
  BY <1>4, <1>5, ExplainsEach
<1>7. configs' \subseteq Confs
  <2>1. cell \in Foreseen /\ {} \in SUBSET Maybe
    BY Mine DEF Foreseen, Contents
  <2> QED BY <1>5, <2>1
<1> QED BY <1>1, <1>3, <1>6, <1>7 DEF LinInv

LEMMA LinCall ==
  ASSUME Inv, Inv', LinInv, Call, UNCHANGED <<enqidx, deqidx, cell>> PROVE LinInv'
<1>1. ASSUME NEW t \in Enqueuers, CallEnqueue(t) PROVE LinInv'
  <2>1. t \in Threads
    BY SegmentListAssumption DEF Threads
  <2>2. PICK m, v : /\ v = issued + 1
                    /\ m = [me[t] EXCEPT !.at = "enqLoad", !.item = v]
    OBVIOUS
  <2>3. /\ me[t].at = "idle" /\ me' = [me EXCEPT ![t] = m]
        /\ configs' = Monitor!Called(configs, t, Monitor!EnqCall(v))
        /\ head' = head /\ tail' = tail /\ next' = next
    BY <1>1, <2>2 DEF CallEnqueue, list
  <2>4. m \in Locals
    BY <2>1, <2>3, Gone
  <2>5. m.at = "enqLoad" /\ m.item = v
    BY <2>1, <2>2, Mine, LocalsMade
  <2>6. v \in Items
    <3>1. m.at \in Enqueuing
      BY <2>5 DEF Enqueuing
    <3>2. me'[t] = m
      BY <2>1, <2>3, <2>4, MeFacts DEF Inv, SegInv
    <3>3. Local(m)
      BY <2>1, <3>2 DEF Inv
    <3> QED BY <2>5, <3>1, <3>3 DEF Local
  <2>7. Found(m)
    BY <2>5, FoundEasy
  <2>8. /\ Monitor!EnqCall(v) \in Calls /\ Monitor!EnqCall(v).stage # "done"
        /\ \A C, S : Status(t, m, C, S) = Monitor!EnqCall(v)
    BY <2>5, <2>6, CallType, StatusFacts DEF Enqueuing
  <2> QED BY <2>1, <2>3, <2>4, <2>5, <2>7, <2>8, LinCalled
<1>2. ASSUME NEW t \in Dequeuers, CallDequeue(t) PROVE LinInv'
  <2>1. t \in Threads
    BY SegmentListAssumption DEF Threads
  <2>2. PICK m : m = [me[t] EXCEPT !.at = "deqLoad"]
    OBVIOUS
  <2>3. /\ me[t].at = "idle" /\ me' = [me EXCEPT ![t] = m]
        /\ configs' = Monitor!Called(configs, t, Monitor!DeqCall)
        /\ head' = head /\ tail' = tail /\ next' = next
    BY <1>2, <2>2 DEF CallDequeue, list
  <2>4. m \in Locals
    BY <2>1, <2>3, Gone
  <2>5. m.at = "deqLoad" /\ m.item = NoItem
    BY <2>1, <2>2, <2>3, Mine, LocalsMade, FoundAt DEF LinInv
  <2>7. Found(m)
    BY <2>5, FoundEasy
  <2>8. /\ Monitor!DeqCall \in Calls /\ Monitor!DeqCall.stage # "done"
        /\ \A C, S : t \notin S => Status(t, m, C, S) = Monitor!DeqCall
    BY <2>5, CallType, StatusFacts DEF Searching
  <2> QED BY <2>1, <2>3, <2>4, <2>5, <2>7, <2>8, LinCalled
<1> QED BY <1>1, <1>2 DEF Call

LEMMA LinStarts == Init /\ Inv => LinInv
<1> SUFFICES ASSUME Init, Inv PROVE LinInv
  OBVIOUS
<1>1. /\ head = 0 /\ tail = 0 /\ next = [s \in Segs |-> Null]
      /\ enqidx = [s \in Segs |-> 0] /\ deqidx = [s \in Segs |-> 0]
      /\ cell = [s \in Segs |-> [k \in Cells |-> NoItem]]
      /\ me = [t \in Threads |-> Fresh] /\ configs = Monitor!InitialConfigs
  BY DEF Init, InitList
<1>2. \A t \in Threads : me[t].at = "idle" /\ me[t].item = NoItem
  BY <1>1 DEF Fresh
<1>3. FoundInv
  <2>1. \A t \in Threads : Found(me[t])
    BY <1>2, FoundEasy
  <2>2. \A t \in Threads : \A s, k : ~ Puts(t, s, k)
    BY <1>2 DEF Puts
  <2>3. \A s \in Segs : \A k \in Cells :
          cell[s][k] = NoItem /\ ~ (k < deqidx[s]) /\ next[s] = Null
    BY <1>1, Bounds
  <2>4. 0 \in Cells
    BY Bounds
  <2> QED BY <2>1, <2>2, <2>3, <2>4 DEF FoundInv
<1>4. Awaits(<<>>)
  <2>1. /\ next[head] = Null /\ deqidx[head] >= enqidx[head] /\ tail = head
    BY <1>1, Sizes
  <2>2. Len(<<>>) = 0 /\ <<>> \in Seq(Segs \X Cells)
    BY ONLY TRUE
  <2> QED BY <2>1, <2>2 DEF Awaits
<1>5. Maybe = {} /\ Foreseen = {cell}
  <2>1. Maybe = {}
    BY <1>2 DEF Maybe
  <2>2. ASSUME NEW C \in Foreseen PROVE C = cell
    <3>1. /\ C \in [Segs -> [Cells -> Contained]]
          /\ \A s \in Segs : C[s] \in [Cells -> Contained]
          /\ \A s \in Segs : \A k \in Cells : C[s][k] = cell[s][k]
      BY <1>2, ForeseenAt DEF Puts
    <3>2. \A s \in Segs : C[s] = [k \in Cells |-> NoItem]
      BY <1>1, <3>1
    <3> QED BY <1>1, <3>1, <3>2
  <2>3. cell \in Foreseen
    BY Mine DEF Foreseen, Contents, Inv
  <2> QED BY <2>1, <2>2, <2>3
<1>6. Calling(cell, {}) = [t \in Threads |-> Monitor!NoCall]
  BY <1>2 DEF Calling, Status
<1>7. configs = {Conf(<<>>, Calling(cell, {}))}
  BY <1>1, <1>6 DEF Monitor!InitialConfigs, Conf
<1>8. configs \subseteq Confs
  <2>1. <<>> \in Seq(Items) /\ Calling(cell, {}) \in [Threads -> Calls]
    BY <1>6, CallType
  <2>2. Conf(<<>>, Calling(cell, {})) \in Confs
    BY <2>1, ConfType
  <2> QED BY <1>7, <2>2
<1>9. Reaches(configs, Conf(<<>>, Calling(cell, {})))
  BY <1>7, <1>8, ReachesStart
<1>10. Explains(<<>>)
  <2>1. Picks(<<>>, cell, <<>>) /\ <<>> \in Seq(Items)
    BY PicksNone
  <2> QED BY <1>5, <1>9, <2>1 DEF Explains
<1> QED BY <1>3, <1>4, <1>8, <1>10 DEF LinInv

LEMMA LinPreserved == Inv /\ Inv' /\ LinInv /\ [Next]_vars => LinInv'
<1> SUFFICES ASSUME Inv, Inv', LinInv, [Next]_vars PROVE LinInv'
  OBVIOUS
<1>1. CASE UNCHANGED vars
  BY <1>1, LinKept DEF vars, history, list
<1>2. CASE Call /\ UNCHANGED <<enqidx, deqidx, cell>>
  BY <1>2, LinCall
<1>3. ASSUME NEW t \in Threads, Step(t) PROVE LinInv'
  <2>1. CASE EnqCell(t)
    BY <2>1, LinEnqLost, LinEnqStored
  <2>2. CASE EnqNext(t)
    <3>1. me[t].at = "enqNext" /\ (next[me[t].seg] # Null \/ EnqNew(t))
      BY <2>2 DEF EnqNext
    <3> QED BY <2>2, <3>1, LinEnqFollow, LinEnqNew
  <2>3. CASE EnqLink(t)
    BY <2>3, LinEnqUnlinked, LinEnqLinked
  <2> QED BY <1>3, <2>1, <2>2, <2>3, LinListSteps, LinEnqProtectLoad,
             LinEnqProtectPublish, LinEnqDraw, LinEnqFull, LinEnqHelp,
             LinDeqProtectLoad, LinDeqProtectPublish, LinDeqDraw, LinDeqDrained,
             LinDeqAdvance, LinDeqCell, LinDeqIndex, LinDeqLast, LinDeqFix
          DEF Step
<1> QED BY <1>1, <1>2, <1>3 DEF Next

(* The invariant of the linearizability of FAAArrayQueue::enqueue and       *)
(* dequeue is kept: what the cells hold, once the enqueuers that have drawn*)
(* a cell have or have not stored their items, accounts for every call.    *)
THEOREM LinAlways == Spec => []LinInv
BY InvAlways, InvStarts, LinStarts, LinPreserved, PTL DEF Spec

(* Whatever the interleaving of the fetch-and-adds of FAAArrayQueue, no    *)
(* item is lost, returned twice or overtaken by one enqueued after it, and *)
(* dequeue returns nullptr only if the queue was empty during the call:    *)
(* although a dequeuer may take a cell before its enqueuer has filled it,  *)
(* and may return from a segment that another has already drained.         *)
THEOREM AlwaysLinearizable == Spec => []Linearizable
<1>1. Inv /\ LinInv => Linearizable
  <2> SUFFICES ASSUME Inv, LinInv PROVE Linearizable
    OBVIOUS
  <2>1. PICK W : Explains(W)
    BY DEF LinInv
  <2>2. cell \in Foreseen /\ {} \in SUBSET Maybe
    BY DEF Foreseen, Inv, Contents
  <2>3. PICK Q : Reaches(configs, Conf(Q, Calling(cell, {})))
    BY <2>1, <2>2 DEF Explains
  <2> QED BY <2>3, ReachesSome DEF Linearizable
<1> QED BY <1>1, InvAlways, LinAlways, PTL
=============================================================================
