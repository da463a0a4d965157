----------------------- MODULE LinkedRingQueueProofs -----------------------
(***************************************************************************)
(* LinkedRingQueue follows no pointer to a segment that has been deleted,  *)
(* and retires every segment once: every action of the queue is one of the *)
(* steps that SegmentListProofs shows to keep the list's invariant.  And it*)
(* is a linearizable FIFO queue, if its segments are: it contains what the *)
(* segments from head on contain, one after the other, and a dequeuer that *)
(* has found the last of them empty may already have its answer.           *)
(***************************************************************************)
EXTENDS LinkedRingQueue, SegmentListProofs

Resting   == {"idle", "enqLoad", "deqLoad"}
Enqueuing == {"enqLoad", "enqPublish", "enqRecheck", "enqNext", "enqHelp",
              "enqSeg", "enqNew", "enqLink", "enqDelete"}

(* What the locals m hold where they are needed. *)
Local(m) == /\ m.at \notin Resting  => m.seg \in Segs
            /\ m.at \in Enqueuing => m.item \in Items

Contents == queue \in [Segs -> Seq(Items)] /\ closed \in [Segs -> BOOLEAN]

Inv == SegInv /\ Contents /\ \A t \in Threads : Local(me[t])

LEMMA Moves ==
  ASSUME Inv, NEW t \in Threads, NEW m \in Locals,
         me' = [me EXCEPT ![t] = m], Local(m), SegInv', Contents'
  PROVE  Inv'
<1>1. /\ me'[t] = m
      /\ \A u \in Threads : u # t => me'[u] = me[u]
  BY MeFacts DEF Inv, SegInv
<1> QED BY <1>1 DEF Inv, Local

LEMMA Mine ==
  ASSUME Inv, NEW t \in Threads
  PROVE  /\ me[t] \in Locals /\ me[t].at \in Places
         /\ {me[t].seg, me[t].other} \subseteq Segs \cup {Null}
         /\ OwnerInv(t) /\ HolderInv(t) /\ Local(me[t])
         /\ head \in Segs /\ tail \in Segs /\ next \in [Segs -> Segs \cup {Null}]
         /\ SegInv /\ Contents
BY MyLocals DEF Inv, SegInv, Types

(* A step that leaves the list, the memory and the segments alone. *)
LEMMA Quiet ==
  ASSUME Inv, NEW t \in Threads, NEW m \in Locals,
         me' = [me EXCEPT ![t] = m],
         issued' = issued, list' = list, memory' = memory, Contents',
         me[t].at # "retire", m.at # "retire",
         m.at \in Owning => Owns(t, m.other),
         m.at \in Hold =>
           \/ me[t].at \in Hold /\ m.seg = me[t].seg
              /\ SlotOf(m.at) = SlotOf(me[t].at)
           \/ hp[t][SlotOf(m.at)] = m.seg
              /\ m.seg = IF m.at \in HoldTail THEN tail ELSE head,
         Follows(m), Announces(t, m), Local(m)
  PROVE  Inv'
<1>1. SegInv /\ issued' \in 0 .. MaxItems
  BY DEF Inv, SegInv, Types
<1>2. SegInv'
  BY <1>1, StepQuiet
<1> QED BY <1>2, Moves

LEMMA CallStep == ASSUME Inv, Call, UNCHANGED <<queue, closed>> PROVE Inv'
<1>1. Contents'
  BY DEF Inv, Contents
<1>2. ASSUME NEW t \in Enqueuers, CallEnqueue(t) PROVE Inv'
  <2>1. t \in Threads
    BY SegmentListAssumption DEF Threads
  <2>2. PICK m \in Locals : /\ me' = [me EXCEPT ![t] = m]
                            /\ m.at = "enqLoad" /\ m.item \in Items
    BY <1>2, <2>1, CallEnqueueSound DEF Inv
  <2>3. SegInv'
    BY <1>2, <2>1, CallEnqueueSound DEF Inv
  <2> QED BY <1>1, <2>1, <2>2, <2>3, Moves DEF Local, Resting
<1>3. ASSUME NEW t \in Dequeuers, CallDequeue(t) PROVE Inv'
  <2>1. t \in Threads
    BY SegmentListAssumption DEF Threads
  <2>2. PICK m \in Locals : me' = [me EXCEPT ![t] = m] /\ m.at = "deqLoad"
    BY <1>3, <2>1, CallDequeueSound DEF Inv
  <2>3. SegInv'
    BY <1>3, <2>1, CallDequeueSound DEF Inv
  <2> QED BY <1>1, <2>1, <2>2, <2>3, Moves DEF Local, Resting, Enqueuing
<1> QED BY <1>2, <1>3 DEF Call

LEMMA ListSteps == ASSUME Inv, NEW t \in Threads, ListStep(t) PROVE Inv'
<1>0. /\ Contents' /\ SegInv /\ Local(me[t])
      /\ Local(Fresh) /\ Fresh \in Locals
  BY FreshLocals DEF Inv, Contents, ListStep, Local, Fresh, Resting, Enqueuing
<1>1. CASE Publish(t, "enqPublish", "enqRecheck", kHpTail)
  <2>1. SegInv' /\ me[t].at = "enqPublish"
    BY <1>0, <1>1, PublishSound DEF Publish
  <2>2. PICK m \in Locals : /\ me' = [me EXCEPT ![t] = m] /\ m.at = "enqRecheck"
                            /\ m.seg = me[t].seg /\ m.item = me[t].item
    BY <1>0, <1>1, PublishSound
  <2>3. Local(m)
    BY <1>0, <2>1, <2>2 DEF Local, Resting, Enqueuing
  <2> QED BY <1>0, <2>1, <2>2, <2>3, Moves
<1>2. CASE EnqSwing(t)
  <2>1. SegInv' /\ me[t].at = "enqSwing"
    BY <1>0, <1>2, EnqSwingSound DEF EnqSwing
  <2>2. PICK m \in Locals : /\ me' = [me EXCEPT ![t] = m] /\ m.at = "enqClear"
                            /\ m.seg = me[t].seg
    BY <1>0, <1>2, EnqSwingSound
  <2>3. Local(m)
    BY <1>0, <2>1, <2>2 DEF Local, Resting, Enqueuing
  <2> QED BY <1>0, <2>1, <2>2, <2>3, Moves
<1>3. CASE EnqClear(t)
  BY <1>0, <1>3, ClearSound, Moves DEF EnqClear, kHpTail
<1>4. CASE Publish(t, "deqPublish", "deqRecheck", kHpHead)
  <2>1. SegInv' /\ me[t].at = "deqPublish"
    BY <1>0, <1>4, PublishSound DEF Publish
  <2>2. PICK m \in Locals : /\ me' = [me EXCEPT ![t] = m] /\ m.at = "deqRecheck"
                            /\ m.seg = me[t].seg /\ m.item = me[t].item
    BY <1>0, <1>4, PublishSound
  <2>3. Local(m)
    BY <1>0, <2>1, <2>2 DEF Local, Resting, Enqueuing
  <2> QED BY <1>0, <2>1, <2>2, <2>3, Moves
<1>5. CASE RetireStep(t)
  BY <1>0, <1>5, RetireStepSound DEF Inv
<1>6. CASE RetireReturn(t, "deqPublish")
  <2>1. SegInv' /\ me[t].at = "retire"
    BY <1>0, <1>6, RetireReturnSound DEF RetireReturn
  <2>2. PICK m \in Locals : /\ me' = [me EXCEPT ![t] = m] /\ m.at = "deqPublish"
                            /\ m.seg = me[t].seg
    BY <1>0, <1>6, RetireReturnSound
  <2>3. Local(m)
    BY <1>0, <2>1, <2>2 DEF Local, Resting, Enqueuing
  <2> QED BY <1>0, <2>1, <2>2, <2>3, Moves
<1>7. CASE DeqClear(t)
  BY <1>0, <1>7, ClearSound, Moves DEF DeqClear, kHpHead
<1> QED BY <1>1, <1>2, <1>3, <1>4, <1>5, <1>6, <1>7 DEF ListStep

----------------------------------------------------------------------------
(* enqueue *)

LEMMA EnqLoadStep == ASSUME Inv, NEW t \in Threads, EnqLoad(t) PROVE Inv'
<1> DEFINE m == [me[t] EXCEPT !.at = "enqPublish", !.seg = tail]
<1>0. /\ me[t].at = "enqLoad" /\ me' = [me EXCEPT ![t] = m]
      /\ issued' = issued /\ list' = list /\ memory' = memory /\ Contents'
  BY Mine DEF EnqLoad, Load, Become, history, Contents
<1>1. m \in Locals
  BY Mine DEF Locals, Places
<1>2. m.at = "enqPublish" /\ m.seg = tail /\ m.item = me[t].item
  BY Mine DEF Locals
<1> HIDE DEF m
<1>3. m.at \notin Hold \cup Owning \cup Advancing \cup {"retire"}
  BY <1>2 DEF Hold, HoldTail, HoldHead, Owning, Advancing
<1>4. Local(m) /\ Follows(m) /\ Announces(t, m)
  BY <1>0, <1>2, <1>3, Mine DEF Local, Resting, Enqueuing, Follows, Announces
<1> QED BY <1>0, <1>1, <1>3, <1>4, Quiet

LEMMA EnqRecheckStep == ASSUME Inv, NEW t \in Threads, EnqRecheck(t) PROVE Inv'
<1> DEFINE p == IF tail = me[t].seg THEN "enqNext" ELSE "enqPublish"
           m == [me[t] EXCEPT !.at = p, !.seg = tail]
<1>0. /\ me[t].at = "enqRecheck" /\ me' = [me EXCEPT ![t] = m]
      /\ issued' = issued /\ list' = list /\ memory' = memory /\ Contents'
  BY Mine DEF EnqRecheck, Recheck, Load, Become, history, Contents
<1>p. p \in Places
  BY DEF Places, Hold, HoldTail
<1>q. \/ p = "enqNext" /\ tail = me[t].seg
      \/ p = "enqPublish"
  OBVIOUS
<1> HIDE DEF p
<1>1. m \in Locals
  BY Mine, <1>p DEF Locals
<1>2. m.at = p /\ m.seg = tail /\ m.item = me[t].item
  BY Mine DEF Locals
<1> HIDE DEF m
<1>3. m.at \notin Owning \cup Advancing \cup {"retire"} /\ me[t].at # "retire"
  BY <1>0, <1>2, <1>q DEF Owning, Advancing
<1>4. m.at \in Hold => m.at \in HoldTail /\ SlotOf(m.at) = kHpTail /\ tail = me[t].seg
  BY <1>2, <1>q, SlotFact DEF Hold, HoldTail, HoldHead, kHpTail
<1>5. hp[t][kHpTail] = me[t].seg
  BY <1>0, Mine DEF HolderInv, Announces
<1>6. Local(m) /\ Follows(m) /\ Announces(t, m)
  BY <1>0, <1>2, <1>3, <1>q, Mine
  DEF Local, Resting, Enqueuing, Follows, Announces
<1> QED BY <1>0, <1>1, <1>2, <1>3, <1>4, <1>5, <1>6, Quiet

LEMMA EnqNextStep == ASSUME Inv, NEW t \in Threads, EnqNext(t) PROVE Inv'
<1> DEFINE n == next[me[t].seg]
           p == IF n = Null THEN "enqSeg" ELSE "enqHelp"
           m == [me[t] EXCEPT !.at = p, !.other = n]
<1>0. /\ me[t].at = "enqNext" /\ me' = [me EXCEPT ![t] = m]
      /\ issued' = issued /\ list' = list /\ memory' = memory /\ Contents'
  BY Mine DEF EnqNext, LoadNext, Become, history, Contents
<1>p. p \in Places
  BY DEF Places, Hold, HoldTail
<1>q. p = "enqSeg" \/ (p = "enqHelp" /\ n # Null)
  OBVIOUS
<1>n. me[t].seg \in Segs /\ n \in Segs \cup {Null}
  BY <1>0, Mine DEF Local, Resting
<1> HIDE DEF p
<1>1. m \in Locals
  BY Mine, <1>p, <1>n DEF Locals
<1>2. m.at = p /\ m.seg = me[t].seg /\ m.other = n /\ m.item = me[t].item
  BY Mine DEF Locals
<1> HIDE DEF m
<1>3. /\ m.at \notin Owning \cup {"retire"} /\ me[t].at # "retire"
      /\ m.at \in HoldTail /\ me[t].at \in HoldTail /\ me[t].at \in Hold
  BY <1>0, <1>2, <1>q DEF Owning, Hold, HoldTail
<1>4. SlotOf(m.at) = SlotOf(me[t].at)
  BY <1>3, SlotFact
<1>5. Local(m) /\ Follows(m) /\ Announces(t, m)
  BY <1>0, <1>2, <1>3, <1>q, <1>n, Mine
  DEF Local, Resting, Enqueuing, Follows, Announces, Advancing
<1> QED BY <1>0, <1>1, <1>2, <1>3, <1>4, <1>5, Quiet

LEMMA EnqHelpStep == ASSUME Inv, NEW t \in Threads, EnqHelp(t) PROVE Inv'
<1> DEFINE won == tail = me[t].seg
           m == [me[t] EXCEPT !.at    = IF won THEN "enqPublish" ELSE "enqLoad",
                              !.seg   = IF won THEN me[t].other ELSE Null,
                              !.other = Null]
<1>0. /\ me[t].at = "enqHelp" /\ me' = [me EXCEPT ![t] = m] /\ CasTail(t)
      /\ issued' = issued /\ head' = head /\ next' = next /\ memory' = memory
      /\ Contents'
  BY Mine DEF EnqHelp, Become, history, Contents
<1>o. me[t].other \in Segs
  BY <1>0, Mine DEF HolderInv, Follows, Advancing
<1>1. m \in Locals
  BY Mine DEF Locals, Places
<1>2. /\ \/ m.at = "enqPublish" /\ m.seg \in Segs
         \/ m.at = "enqLoad" /\ m.seg = Null
      /\ m.item = me[t].item
  <2>1. me[t] \in Locals
    BY Mine
  <2>2. m.at = IF won THEN "enqPublish" ELSE "enqLoad"
    BY <2>1 DEF Locals
  <2>3. m.seg = IF won THEN me[t].other ELSE Null
    BY <2>1 DEF Locals
  <2>4. m.item = me[t].item
    BY <2>1 DEF Locals
  <2> QED BY <2>2, <2>3, <2>4, <1>o
<1> HIDE DEF m
<1>3. /\ m.at \notin Hold \cup Owning \cup {"retire"}
      /\ me[t].at \in Advancing \cap HoldTail
  BY <1>0, <1>2 DEF Hold, HoldTail, HoldHead, Owning, Advancing
<1>4. Local(m) /\ Announces(t, m)
  BY <1>0, <1>2, Mine DEF Local, Resting, Enqueuing, Announces
<1>5. SegInv'
  BY <1>0, <1>1, <1>3, <1>4, Mine, StepCasTail
<1> QED BY <1>0, <1>1, <1>4, <1>5, Moves

LEMMA EnqSegStep == ASSUME Inv, NEW t \in Threads, EnqSeg(t) PROVE Inv'
<1>0. PICK p \in {"enqClear", "enqNew"} :
        me' = [me EXCEPT ![t] = [me[t] EXCEPT !.at = p]]
  BY DEF EnqSeg, Goto, Become
<1> DEFINE m == [me[t] EXCEPT !.at = p]
<1>s. /\ me[t].at = "enqSeg" /\ list' = list /\ memory' = memory
      /\ issued' = issued
  BY DEF EnqSeg, Goto, Become, history
<1>i. me[t].seg \in Segs /\ me[t].item \in Items
  BY <1>s, Mine DEF Local, Resting, Enqueuing
<1>c. Contents'
  <2>1. CASE /\ queue' = [queue EXCEPT ![me[t].seg] = Append(@, me[t].item)]
             /\ UNCHANGED closed
    <3>1. Append(queue[me[t].seg], me[t].item) \in Seq(Items)
      BY <1>i, Mine DEF Contents
    <3> QED BY <2>1, <3>1, Mine DEF Contents
  <2>2. CASE /\ closed' = [closed EXCEPT ![me[t].seg] = TRUE]
             /\ UNCHANGED queue
    BY <2>2, Mine DEF Contents
  <2> QED BY <2>1, <2>2 DEF EnqSeg
<1>1. m \in Locals
  BY Mine DEF Locals, Places, Hold, HoldTail
<1>2. m.at = p /\ m.seg = me[t].seg /\ m.item = me[t].item
  BY Mine DEF Locals
<1>m. me' = [me EXCEPT ![t] = m]
  BY <1>0
<1> HIDE DEF m
<1>3. /\ m.at \notin Owning \cup {"retire"} \cup Advancing /\ me[t].at # "retire"
      /\ me[t].at \in HoldTail /\ me[t].at \in Hold
  BY <1>s, <1>2 DEF Owning, Hold, HoldTail, Advancing
<1>4. m.at \in Hold => m.at \in HoldTail
  BY <1>2 DEF Hold, HoldTail, HoldHead
<1>5. m.at \in Hold => SlotOf(m.at) = SlotOf(me[t].at)
  BY <1>3, <1>4, SlotFact
<1>6. Local(m) /\ Follows(m) /\ Announces(t, m)
  BY <1>2, <1>3, <1>i DEF Local, Resting, Enqueuing, Follows, Announces
<1> QED BY <1>s, <1>c, <1>1, <1>m, <1>2, <1>3, <1>5, <1>6, Quiet

LEMMA EnqNewStep == ASSUME Inv, NEW t \in Threads, EnqNew(t) PROVE Inv'
<1>0. PICK s \in Segs :
        /\ Allocate(s) /\ issued' = issued
        /\ queue'  = [queue EXCEPT ![s] = <<me[t].item>>]
        /\ closed' = [closed EXCEPT ![s] = FALSE]
        /\ me' = [me EXCEPT ![t] = [me[t] EXCEPT !.at = "enqLink", !.other = s]]
  BY DEF EnqNew, Become, history
<1> DEFINE m == [me[t] EXCEPT !.at = "enqLink", !.other = s]
<1>s. me[t].at = "enqNew"
  BY DEF EnqNew
<1>i. me[t].seg \in Segs /\ me[t].item \in Items
  BY <1>s, Mine DEF Local, Resting, Enqueuing
<1>c. Contents'
  <2>1. <<me[t].item>> \in Seq(Items)
    BY <1>i
  <2> QED BY <1>0, <2>1, Mine DEF Contents
<1>1. m \in Locals
  BY Mine DEF Locals, Places, Hold, HoldTail
<1>2. m.at = "enqLink" /\ m.seg = me[t].seg /\ m.other = s /\ m.item = me[t].item
  BY Mine DEF Locals
<1>m. me' = [me EXCEPT ![t] = m]
  BY <1>0
<1> HIDE DEF m
<1>3. me[t].at \in HoldTail \ (Owning \cup Advancing)
  BY <1>s DEF HoldTail, Owning, Advancing
<1>4. Local(m)
  BY <1>2, <1>i DEF Local
<1>5. SegInv'
  BY <1>0, <1>m, <1>1, <1>2, <1>3, Mine, StepAllocate
<1> QED BY <1>c, <1>m, <1>1, <1>4, <1>5, Moves

LEMMA EnqLinkStep == ASSUME Inv, NEW t \in Threads, EnqLink(t) PROVE Inv'
<1>s. /\ me[t].at = "enqLink" /\ head' = head /\ tail' = tail
      /\ memory' = memory /\ Contents'
  BY Mine DEF EnqLink, Contents
<1>i. me[t].seg \in Segs /\ me[t].item \in Items
  BY <1>s, Mine DEF Local, Resting, Enqueuing
<1>won. CASE /\ next[me[t].seg] = Null
             /\ next' = [next EXCEPT ![me[t].seg] = me[t].other]
             /\ Goto(t, "enqSwing")
  <2> DEFINE m == [me[t] EXCEPT !.at = "enqSwing"]
  <2>0. issued' = issued /\ me' = [me EXCEPT ![t] = m]
    BY <1>won DEF Goto, Become, history
  <2>1. SegInv'
    BY <1>won, <1>s, <2>0, Mine, StepLink
  <2>2. m \in Locals
    BY Mine DEF Locals, Places, Hold, HoldTail
  <2>3. m.at = "enqSwing" /\ m.seg = me[t].seg
    BY Mine DEF Locals
  <2>4. Local(m)
    BY <2>3, <1>i DEF Local, Enqueuing
  <2> QED BY <1>s, <2>0, <2>1, <2>2, <2>4, Moves
<1>lost. CASE /\ next[me[t].seg] # Null
              /\ Become(t, [me[t] EXCEPT !.at = "enqDelete", !.seg = Winner(t)])
              /\ UNCHANGED next
  <2> DEFINE w == next[me[t].seg]
             m == [me[t] EXCEPT !.at = "enqDelete", !.seg = w]
  <2>0. issued' = issued /\ me' = [me EXCEPT ![t] = m] /\ list' = list
    BY <1>lost, <1>s DEF Become, history, Winner, list
  <2>w. w \in Segs
    BY <1>lost, <1>i, Mine
  <2>1. m \in Locals
    BY Mine, <2>w DEF Locals, Places, Owning
  <2>2. m.at = "enqDelete" /\ m.seg = w /\ m.other = me[t].other /\ m.item = me[t].item
    BY Mine DEF Locals
  <2> HIDE DEF m, w
  <2>3. /\ m.at \notin Hold \cup {"retire"} \cup Advancing /\ me[t].at # "retire"
    BY <1>s, <2>2 DEF Hold, HoldTail, HoldHead, Advancing
  <2>4. Owns(t, m.other)
    BY <1>s, <2>2 DEF Owns, Owning
  <2>5. Local(m) /\ Follows(m) /\ Announces(t, m)
    BY <2>2, <2>3, <2>w, <1>i DEF Local, Follows, Announces
  <2> QED BY <1>s, <2>0, <2>1, <2>3, <2>4, <2>5, Quiet
<1> QED BY <1>won, <1>lost DEF EnqLink

LEMMA EnqDeleteStep == ASSUME Inv, NEW t \in Threads, EnqDelete(t) PROVE Inv'
<1> DEFINE m == [me[t] EXCEPT !.at = "enqPublish", !.other = Null]
<1>0. /\ me[t].at = "enqDelete" /\ me' = [me EXCEPT ![t] = m]
      /\ heap' = [heap EXCEPT ![me[t].other] = "freed"]
      /\ issued' = issued /\ list' = list
      /\ hp' = hp /\ retired' = retired /\ scan' = scan /\ Contents'
  BY Mine DEF EnqDelete, Become, history, Contents
<1>1. m \in Locals
  BY Mine DEF Locals, Places
<1>2. m.at = "enqPublish" /\ m.seg = me[t].seg /\ m.item = me[t].item
  BY Mine DEF Locals
<1> HIDE DEF m
<1>3. /\ m.at \notin Hold \cup Owning \cup {"retire"}
      /\ me[t].at \in Owning \ Hold
  BY <1>0, <1>2 DEF Hold, HoldTail, HoldHead, Owning
<1>4. Local(m) /\ Announces(t, m)
  BY <1>0, <1>2, Mine DEF Local, Resting, Enqueuing, Announces
<1>5. SegInv'
  BY <1>0, <1>1, <1>3, <1>4, Mine, StepDeleteOwn
<1> QED BY <1>0, <1>1, <1>4, <1>5, Moves

----------------------------------------------------------------------------
(* dequeue *)

LEMMA DeqLoadStep == ASSUME Inv, NEW t \in Threads, DeqLoad(t) PROVE Inv'
<1> DEFINE m == [me[t] EXCEPT !.at = "deqPublish", !.seg = head]
<1>0. /\ me[t].at = "deqLoad" /\ me' = [me EXCEPT ![t] = m]
      /\ issued' = issued /\ list' = list /\ memory' = memory /\ Contents'
  BY Mine DEF DeqLoad, Load, Become, history, Contents
<1>1. m \in Locals
  BY Mine DEF Locals, Places
<1>2. m.at = "deqPublish" /\ m.seg = head
  BY Mine DEF Locals
<1> HIDE DEF m
<1>3. m.at \notin Hold \cup Owning \cup Advancing \cup {"retire"}
  BY <1>2 DEF Hold, HoldTail, HoldHead, Owning, Advancing
<1>4. Local(m) /\ Follows(m) /\ Announces(t, m)
  BY <1>0, <1>2, <1>3, Mine DEF Local, Resting, Enqueuing, Follows, Announces
<1> QED BY <1>0, <1>1, <1>3, <1>4, Quiet

LEMMA DeqRecheckStep == ASSUME Inv, NEW t \in Threads, DeqRecheck(t) PROVE Inv'
<1> DEFINE p == IF head = me[t].seg THEN "deqSeg" ELSE "deqPublish"
           m == [me[t] EXCEPT !.at = p, !.seg = head]
<1>0. /\ me[t].at = "deqRecheck" /\ me' = [me EXCEPT ![t] = m]
      /\ issued' = issued /\ list' = list /\ memory' = memory /\ Contents'
  BY Mine DEF DeqRecheck, Recheck, Load, Become, history, Contents
<1>p. p \in Places
  BY DEF Places, Hold, HoldHead
<1>q. \/ p = "deqSeg" /\ head = me[t].seg
      \/ p = "deqPublish"
  OBVIOUS
<1> HIDE DEF p
<1>1. m \in Locals
  BY Mine, <1>p DEF Locals
<1>2. m.at = p /\ m.seg = head
  BY Mine DEF Locals
<1> HIDE DEF m
<1>3. m.at \notin Owning \cup Advancing \cup {"retire"} /\ me[t].at # "retire"
  BY <1>0, <1>2, <1>q DEF Owning, Advancing
<1>4. m.at \in Hold => m.at \notin HoldTail /\ SlotOf(m.at) = kHpHead /\ head = me[t].seg
  BY <1>2, <1>q, SlotFact DEF Hold, HoldTail, HoldHead, kHpHead
<1>5. hp[t][kHpHead] = me[t].seg
  BY <1>0, Mine DEF HolderInv, Announces
<1>6. Local(m) /\ Follows(m) /\ Announces(t, m)
  BY <1>0, <1>2, <1>3, <1>q, Mine
  DEF Local, Resting, Enqueuing, Follows, Announces
<1> QED BY <1>0, <1>1, <1>2, <1>3, <1>4, <1>5, <1>6, Quiet

(* The segment gives an item: t goes to clear its hazard pointer. *)
LEMMA TakeStep ==
  ASSUME Inv, NEW t \in Threads, NEW s \in Segs, me[t].at # "retire",
         queue[s] # <<>>,
         queue' = [queue EXCEPT ![s] = Tail(queue[s])],
         me' = [me EXCEPT ![t] =
                  [me[t] EXCEPT !.at = "deqClear", !.item = Head(queue[s])]],
         issued' = issued, list' = list, memory' = memory, closed' = closed,
         me[t].seg = s
  PROVE  Inv'
<1> DEFINE m == [me[t] EXCEPT !.at = "deqClear", !.item = Head(queue[s])]
<1>1. queue[s] \in Seq(Items)
  BY Mine DEF Contents
<1>2. Head(queue[s]) \in Items /\ Tail(queue[s]) \in Seq(Items)
  BY <1>1
<1>3. Contents'
  BY <1>2, Mine DEF Contents
<1>4. m \in Locals
  BY Mine, <1>2 DEF Locals, Places
<1>5. m.at = "deqClear" /\ m.seg = s
  BY Mine DEF Locals
<1> HIDE DEF m
<1>6. m.at \notin Hold \cup Owning \cup Advancing \cup {"retire"}
  BY <1>5 DEF Hold, HoldTail, HoldHead, Owning, Advancing
<1>7. Local(m) /\ Follows(m) /\ Announces(t, m)
  BY <1>5, <1>6 DEF Local, Resting, Enqueuing, Follows, Announces
<1> QED BY <1>3, <1>4, <1>6, <1>7, Quiet DEF m

LEMMA DeqSegStep == ASSUME Inv, NEW t \in Threads, DeqSeg(t) PROVE Inv'
<1>s. /\ me[t].at = "deqSeg" /\ list' = list /\ memory' = memory
      /\ issued' = issued /\ closed' = closed
  BY DEF DeqSeg, DequeueSegment, Become, Goto, history
<1>i. me[t].seg \in Segs
  BY <1>s, Mine DEF Local, Resting
<1>1. CASE queue[me[t].seg] # <<>>
  BY <1>1, <1>s, <1>i, TakeStep DEF DeqSeg, DequeueSegment, Become
<1>2. CASE queue[me[t].seg] = <<>>
  <2> DEFINE m == [me[t] EXCEPT !.at = "deqNext"]
  <2>1. me' = [me EXCEPT ![t] = m] /\ queue' = queue
    BY <1>2 DEF DeqSeg, DequeueSegment, Goto, Become
  <2>2. m \in Locals
    BY Mine DEF Locals, Places, Hold, HoldHead
  <2>3. m.at = "deqNext" /\ m.seg = me[t].seg
    BY Mine DEF Locals
  <2>4. Contents'
    BY <1>s, <2>1, Mine DEF Contents
  <2> HIDE DEF m
  <2>5. /\ m.at \notin Owning \cup Advancing \cup {"retire"} /\ me[t].at # "retire"
        /\ m.at \in HoldHead /\ me[t].at \in HoldHead /\ me[t].at \in Hold
    BY <1>s, <2>3 DEF Owning, Advancing, Hold, HoldHead
  <2>6. SlotOf(m.at) = SlotOf(me[t].at)
    BY <2>5, SlotFact
  <2>7. Local(m) /\ Follows(m) /\ Announces(t, m)
    BY <2>3, <2>5, <1>i DEF Local, Enqueuing, Follows, Announces
  <2> QED BY <1>s, <2>1, <2>2, <2>3, <2>4, <2>5, <2>6, <2>7, Quiet
<1> QED BY <1>1, <1>2

LEMMA DeqNextStep == ASSUME Inv, NEW t \in Threads, DeqNext(t) PROVE Inv'
<1> DEFINE n == next[me[t].seg]
           p == IF n = Null THEN "deqClear" ELSE "deqAgain"
           m == [me[t] EXCEPT !.at = p, !.other = n]
<1>0. /\ me[t].at = "deqNext" /\ me' = [me EXCEPT ![t] = m]
      /\ issued' = issued /\ list' = list /\ memory' = memory /\ Contents'
  BY Mine DEF DeqNext, LoadNext, Become, history, Contents
<1>p. p \in Places
  BY DEF Places, Hold, HoldHead
<1>q. p = "deqClear" \/ (p = "deqAgain" /\ n # Null)
  OBVIOUS
<1>n. me[t].seg \in Segs /\ n \in Segs \cup {Null}
  BY <1>0, Mine DEF Local, Resting
<1> HIDE DEF p
<1>1. m \in Locals
  BY Mine, <1>p, <1>n DEF Locals
<1>2. m.at = p /\ m.seg = me[t].seg /\ m.other = n
  BY Mine DEF Locals
<1> HIDE DEF m
<1>3. /\ m.at \notin Owning \cup {"retire"} /\ me[t].at # "retire"
      /\ me[t].at \in HoldHead /\ me[t].at \in Hold
  BY <1>0, <1>2, <1>q DEF Owning, Hold, HoldHead
<1>4. m.at \in Hold => m.at \in HoldHead
  BY <1>2, <1>q DEF Hold, HoldHead, HoldTail
<1>5. m.at \in Hold => SlotOf(m.at) = SlotOf(me[t].at)
  BY <1>3, <1>4, SlotFact
<1>6. Local(m) /\ Follows(m) /\ Announces(t, m)
  BY <1>0, <1>2, <1>q, <1>n DEF Local, Enqueuing, Follows, Announces, Advancing
<1> QED BY <1>0, <1>1, <1>2, <1>3, <1>5, <1>6, Quiet

LEMMA DeqAgainStep == ASSUME Inv, NEW t \in Threads, DeqAgain(t) PROVE Inv'
<1>s. /\ me[t].at = "deqAgain" /\ list' = list /\ memory' = memory
      /\ issued' = issued /\ closed' = closed
  BY DEF DeqAgain, DequeueSegment, Become, Goto, history
<1>i. me[t].seg \in Segs
  BY <1>s, Mine DEF Local, Resting
<1>f. me[t].other = next[me[t].seg] /\ me[t].other # Null
  BY <1>s, Mine DEF HolderInv, Follows, Advancing
<1>1. CASE queue[me[t].seg] # <<>>
  BY <1>1, <1>s, <1>i, TakeStep DEF DeqAgain, DequeueSegment, Become
<1>2. CASE queue[me[t].seg] = <<>>
  <2> DEFINE m == [me[t] EXCEPT !.at = "deqAdvance"]
  <2>1. me' = [me EXCEPT ![t] = m] /\ queue' = queue
    BY <1>2 DEF DeqAgain, DequeueSegment, Goto, Become
  <2>2. m \in Locals
    BY Mine DEF Locals, Places, Hold, HoldHead
  <2>3. m.at = "deqAdvance" /\ m.seg = me[t].seg /\ m.other = me[t].other
    BY Mine DEF Locals
  <2>4. Contents'
    BY <1>s, <2>1, Mine DEF Contents
  <2> HIDE DEF m
  <2>5. /\ m.at \notin Owning \cup {"retire"} /\ me[t].at # "retire"
        /\ m.at \in HoldHead /\ me[t].at \in HoldHead /\ me[t].at \in Hold
    BY <1>s, <2>3 DEF Owning, Hold, HoldHead
  <2>6. SlotOf(m.at) = SlotOf(me[t].at)
    BY <2>5, SlotFact
  <2>7. Local(m) /\ Follows(m) /\ Announces(t, m)
    BY <2>3, <2>5, <1>i, <1>f DEF Local, Enqueuing, Follows, Announces
  <2> QED BY <1>s, <2>1, <2>2, <2>3, <2>4, <2>5, <2>6, <2>7, Quiet
<1> QED BY <1>1, <1>2

LEMMA DeqAdvanceStep == ASSUME Inv, NEW t \in Threads, DeqAdvance(t) PROVE Inv'
<1>s. /\ me[t].at = "deqAdvance" /\ tail' = tail /\ next' = next
      /\ hp' = hp /\ heap' = heap /\ scan' = scan /\ Contents'
  BY Mine DEF DeqAdvance, Contents
<1>h. head \in Segs /\ me[t].other \in Segs
  BY <1>s, Mine DEF HolderInv, Follows, Advancing
<1>won. CASE CasHead(t) /\ Become(t, [Fresh EXCEPT !.at = "retire", !.seg = head'])
  <2>1. head' = me[t].other /\ issued' = issued
        /\ me' = [me EXCEPT ![t] = [Fresh EXCEPT !.at = "retire", !.seg = head']]
    BY <1>won DEF CasHead, Become, history
  <2> DEFINE m == [Fresh EXCEPT !.at = "retire", !.seg = me[t].other]
  <2>2. m \in Locals
    BY FreshLocals, <1>h DEF Locals, Places
  <2>3. m.at = "retire" /\ m.seg = me[t].other
    BY DEF Fresh
  <2>4. me' = [me EXCEPT ![t] = m]
    BY <2>1
  <2> HIDE DEF m
  <2>5. SegInv'
    BY <1>won, <1>s, <2>1, <2>2, <2>3, <2>4, Mine, StepCasHead
  <2>6. Local(m)
    BY <2>3, <1>h DEF Local, Enqueuing
  <2> QED BY <1>s, <2>2, <2>4, <2>5, <2>6, Moves
<1>lost. CASE /\ head # me[t].seg
              /\ UNCHANGED <<head, retired>>
              /\ Become(t, [Fresh EXCEPT !.at = "deqPublish", !.seg = head'])
  <2> DEFINE m == [Fresh EXCEPT !.at = "deqPublish", !.seg = head]
  <2>1. me' = [me EXCEPT ![t] = m] /\ issued' = issued
        /\ list' = list /\ memory' = memory
    BY <1>lost, <1>s DEF Become, history, list, memory
  <2>2. m \in Locals
    BY FreshLocals, <1>h DEF Locals, Places
  <2>3. m.at = "deqPublish" /\ m.seg = head
    BY DEF Fresh
  <2> HIDE DEF m
  <2>4. /\ m.at \notin Hold \cup Owning \cup Advancing \cup {"retire"}
        /\ me[t].at # "retire"
    BY <1>s, <2>3 DEF Hold, HoldTail, HoldHead, Owning, Advancing
  <2>5. Local(m) /\ Follows(m) /\ Announces(t, m)
    BY <2>3, <2>4, <1>h DEF Local, Enqueuing, Follows, Announces
  <2> QED BY <1>s, <2>1, <2>2, <2>4, <2>5, Quiet
<1> QED BY <1>won, <1>lost DEF DeqAdvance

----------------------------------------------------------------------------
(* The theorems. *)

LEMMA InvStarts == Init => Inv
<1> SUFFICES ASSUME Init PROVE Inv
  OBVIOUS
<1>1. SegInv
  BY StartsSound DEF Init
<1>2. Contents
  BY DEF Init, Contents
<1>3. \A t \in Threads : me[t] = Fresh
  BY DEF Init, InitList
<1>4. \A t \in Threads : Local(me[t])
  BY <1>3 DEF Local, Fresh, Resting, Enqueuing
<1> QED BY <1>1, <1>2, <1>4 DEF Inv

LEMMA InvPreserved == Inv /\ [Next]_vars => Inv'
<1> SUFFICES ASSUME Inv, [Next]_vars PROVE Inv'
  OBVIOUS
<1>1. CASE UNCHANGED vars
  <2>1. /\ list' = list /\ memory' = memory /\ me' = me /\ issued' = issued
        /\ queue' = queue /\ closed' = closed
    BY <1>1 DEF vars, history
  <2>2. SegInv'
    BY <2>1, SegInvKept DEF Inv
  <2> QED BY <2>1, <2>2 DEF Inv, Contents
<1>2. CASE Call /\ UNCHANGED <<queue, closed>>
  BY <1>2, CallStep
<1>3. ASSUME NEW t \in Threads, Step(t) PROVE Inv'
  BY <1>3, ListSteps, EnqLoadStep, EnqRecheckStep, EnqNextStep, EnqHelpStep,
     EnqSegStep, EnqNewStep, EnqLinkStep, EnqDeleteStep, DeqLoadStep,
     DeqRecheckStep, DeqSegStep, DeqNextStep, DeqAgainStep, DeqAdvanceStep
  DEF Step
<1> QED BY <1>1, <1>2, <1>3 DEF Next

(* The invariant of the list of segments, the hazard pointers and the      *)
(* scans holds throughout.                                                 *)
THEOREM InvAlways == Spec => []Inv
BY InvStarts, InvPreserved, PTL DEF Spec

(* Every variable keeps its type, and a thread that publishes or follows a *)
(* pointer has one: lnext and the node that wins the CAS are never null    *)
(* where the code uses them (LinkedRingQueue.hpp).                         *)
THEOREM TypeCorrect == Spec => []TypeOK
<1>1. Inv => TypeOK
  <2> SUFFICES ASSUME Inv PROVE TypeOK
    OBVIOUS
  <2>1. ListTypeOK
    BY SoundList DEF Inv
  <2> QED BY <2>1 DEF Inv, Contents, Local, Resting, TypeOK
<1> QED BY <1>1, InvAlways, PTL

(* No thread follows a pointer to a segment that has been deleted, and     *)
(* neither end of the queue refers to one, although LinkedRingQueue retires*)
(* the segment that tail may still be at.                                  *)
THEOREM NothingUsedAfterFree == Spec => []NoUseAfterFree
<1>1. Inv => NoUseAfterFree
  BY SoundList DEF Inv, NoUseAfterFree, Hold, HoldTail, HoldHead
<1> QED BY <1>1, InvAlways, PTL

(* A segment is retired by the one thread that moves head past it, and is  *)
(* in one place of one retired list until it is deleted.                   *)
THEOREM RetiredByOne == Spec => []RetiredOnce
<1>1. Inv => RetiredOnce
  BY SoundList DEF Inv
<1> QED BY <1>1, InvAlways, PTL

----------------------------------------------------------------------------
(* Linearizability. *)

(* L is the list of segments from head on. *)
Chain(L) ==
  /\ L \in Seq(Segs) /\ L # <<>> /\ L[1] = head
  /\ next[L[Len(L)]] = Null
  /\ \A i \in 1 .. (Len(L) - 1) : next[L[i]] = L[i + 1]
  /\ next[tail] = head \/ \E i \in 1 .. Len(L) : L[i] = tail

(* The segments of L, one after the other, hold the items of Q; those of   *)
(* the i-th follow the first O[i] of them.                                 *)
Lays(L, O, Q) ==
  LET n == Len(L) IN
  /\ O \in [1 .. n -> Nat] /\ O[1] = 0
  /\ \A i \in 1 .. (n - 1) : O[i + 1] = O[i] + Len(queue[L[i]])
  /\ \A i, j \in 1 .. n : i < j => O[i] + Len(queue[L[i]]) <= O[j]
  /\ Len(Q) = O[n] + Len(queue[L[n]])
  /\ \A i \in 1 .. n : \A k \in 1 .. Len(queue[L[i]]) :
       Q[O[i] + k] = queue[L[i]][k]

(* The queue holds Q. *)
Contains(Q) == Q \in Seq(Items) /\ \E L, O : Chain(L) /\ Lays(L, O, Q)

(* A dequeuer that found the last segment empty and has not yet looked     *)
(* whether it still is the last.                                           *)
Maybe == {t \in Threads : me[t].at = "deqNext" /\ next[me[t].seg] = Null}

Over == {"enqSwing", "enqClear"}

(* What the call of u has come to when its locals are m, if the dequeuers  *)
(* in S have found the queue empty.                                        *)
Status(u, m, S) ==
  IF m.at = "idle" THEN Monitor!NoCall
  ELSE IF m.at \in Enqueuing THEN Monitor!EnqCall(m.item)
  ELSE IF m.at \in Over THEN Monitor!Done(NoItem)
  ELSE IF m.at = "deqClear" THEN Monitor!Done(m.item)
  ELSE IF u \in S THEN Monitor!Done(NoItem)
  ELSE Monitor!DeqCall

Calling(S) == [u \in Threads |-> Status(u, me[u], S)]

Explains(Q) == \A S \in SUBSET Maybe : Reaches(configs, Conf(Q, Calling(S)))

(* A segment that is followed by another is closed, and so is one that an  *)
(* enqueuer replaces. A dequeuer is at the first segment, or at one that   *)
(* will stay empty.                                                        *)
Found(m) ==
  /\ m.at \in {"enqNew", "enqLink"} => closed[m.seg]
  /\ m.at = "enqLink" => queue[m.other] = <<m.item>>
  /\ m.at \in HoldHead =>
       m.seg = head \/ (next[m.seg] # Null /\ queue[m.seg] = <<>>)
  /\ m.at = "deqAdvance" => queue[m.seg] = <<>>
  /\ m.at \notin Enqueuing \cup Over \cup {"deqClear"} => m.item = NoItem

FoundInv ==
  /\ \A s \in Segs : next[s] # Null => closed[s]
  /\ \A t \in Threads : Found(me[t])

LinInv ==
  /\ FoundInv
  /\ configs \subseteq Confs
  /\ \E Q : Contains(Q) /\ Explains(Q)

----------------------------------------------------------------------------
(* The list. *)

LEMMA ChainAt ==
  ASSUME NEW L, Chain(L)
  PROVE  /\ L \in Seq(Segs) /\ Len(L) \in Nat /\ Len(L) >= 1
         /\ \A i \in 1 .. Len(L) : L[i] \in Segs
         /\ L[1] = head /\ next[L[Len(L)]] = Null
         /\ \A i \in 1 .. (Len(L) - 1) :
              /\ i \in 1 .. Len(L) /\ i + 1 \in 1 .. Len(L)
              /\ next[L[i]] = L[i + 1] /\ next[L[i]] # Null
<1>1. L \in Seq(Segs) /\ L # <<>> /\ Len(L) \in Nat
  BY DEF Chain
<1>2. Len(L) >= 1
  BY <1>1
<1>3. \A i \in 1 .. Len(L) : L[i] \in Segs
  BY <1>1
<1>4. \A i \in 1 .. (Len(L) - 1) : i \in 1 .. Len(L) /\ i + 1 \in 1 .. Len(L)
  BY <1>1
<1>5. \A i \in 1 .. (Len(L) - 1) : next[L[i]] # Null
  BY <1>3, <1>4, Sizes DEF Chain
<1> QED BY <1>1, <1>2, <1>3, <1>4, <1>5 DEF Chain

(* The segments of the list have been made and not retired; a segment that *)
(* somebody owns is not among them.                                        *)
LEMMA ChainLive ==
  ASSUME SegInv, NEW L, Chain(L)
  PROVE  \A i \in 1 .. Len(L) :
           Live(L[i]) /\ \A u \in Threads : ~ Owns(u, L[i])
<1> DEFINE Good(s) == Live(s) /\ \A u \in Threads : ~ Owns(u, s)
           T == {i \in 1 .. Len(L) : ~ Good(L[i])}
<1>1. Good(L[1])
  BY ChainAt DEF SegInv, ListInv, EndsAlive, OwnerInv, Private, Owns
<1>2. SUFFICES ASSUME T # {} PROVE FALSE
  OBVIOUS
<1>3. T \subseteq Nat
  BY ChainAt
<1>4. PICK i \in T : \A j \in T : i <= j
  BY <1>2, <1>3, Least
<1>5. i \in 1 .. Len(L) /\ ~ Good(L[i]) /\ i # 1
  BY <1>1, <1>4
<1>6. i - 1 \in 1 .. (Len(L) - 1) /\ i - 1 \in 1 .. Len(L) /\ (i - 1) + 1 = i
      /\ ~ i <= i - 1
  BY <1>5, ChainAt
<1>7. Good(L[i - 1])
  BY <1>4, <1>6
<1>8. next[L[i - 1]] = L[i] /\ next[L[i - 1]] # Null /\ L[i - 1] \in Segs
  BY <1>6, ChainAt
<1>9. Good(L[i])
  BY <1>7, <1>8 DEF SegInv, ListInv, LinkInv
<1> QED BY <1>5, <1>9

LEMMA ChainApart ==
  ASSUME SegInv, NEW L, Chain(L)
  PROVE  \A i, j \in 1 .. Len(L) : L[i] = L[j] => i = j
<1> DEFINE T == {i \in 1 .. Len(L) : \E j \in 1 .. Len(L) : i < j /\ L[i] = L[j]}
<1>1. SUFFICES ASSUME T # {} PROVE FALSE
  <2>1. \A i, j \in 1 .. Len(L) : i # j => i < j \/ j < i
    OBVIOUS
  <2>2. T = {}
    BY <1>1
  <2> QED BY <2>1, <2>2
<1>2. T \subseteq Nat
  BY ChainAt
<1>3. PICK i \in T : \A k \in T : i <= k
  BY <1>1, <1>2, Least
<1>4. PICK j \in 1 .. Len(L) : i < j /\ L[i] = L[j]
  BY <1>3
<1>5. i \in 1 .. Len(L)
  BY <1>3
<1>6. /\ j - 1 \in 1 .. (Len(L) - 1) /\ j - 1 \in 1 .. Len(L) /\ (j - 1) + 1 = j
  BY <1>4, <1>5, ChainAt
<1>7. next[L[j - 1]] = L[j] /\ next[L[j - 1]] # Null /\ L[j - 1] \in Segs
      /\ Live(L[j - 1])
  BY <1>6, ChainAt, ChainLive
<1>8. i # 1
  <2>1. L[j] # head
    BY <1>7 DEF SegInv, ListInv, LinkInv
  <2> QED BY <1>4, <2>1, ChainAt
<1>9. /\ i - 1 \in 1 .. (Len(L) - 1) /\ i - 1 \in 1 .. Len(L) /\ (i - 1) + 1 = i
      /\ i - 1 < j - 1 /\ ~ i <= i - 1
  BY <1>4, <1>5, <1>8, ChainAt
<1>10. next[L[i - 1]] = L[i] /\ L[i - 1] \in Segs /\ Live(L[i - 1])
  BY <1>9, ChainAt, ChainLive
<1>11. L[i - 1] = L[j - 1]
  BY <1>4, <1>7, <1>10 DEF SegInv, ListInv, LinkInv
<1>12. i - 1 \in T
  BY <1>6, <1>9, <1>11
<1> QED BY <1>3, <1>9, <1>12

(* The last segment of the list is the one that an enqueuer holds which has*)
(* no successor.                                                           *)
LEMMA ChainEnd ==
  ASSUME SegInv, NEW L, Chain(L), NEW t \in Threads,
         me[t].at \in HoldTail, next[me[t].seg] = Null
  PROVE  me[t].seg = L[Len(L)]
<1>1. tail = me[t].seg
  BY DEF SegInv, HolderInv
<1>2. next[tail] # head
  BY <1>1, Sizes DEF SegInv, Types
<1>3. PICK i \in 1 .. Len(L) : L[i] = tail
  BY <1>2 DEF Chain
<1>4. i = Len(L)
  BY <1>1, <1>3, ChainAt
<1> QED BY <1>1, <1>3, <1>4

(* The list is as it was, or tail has moved on along it. *)
LEMMA ChainKept ==
  ASSUME NEW L, Chain(L), head' = head, next' = next,
         tail' = tail \/ (tail' = next[tail] /\ next[tail] # Null)
  PROVE  Chain(L)'
<1>1. next[tail'] = head \/ \E i \in 1 .. Len(L) : L[i] = tail'
  <2>1. CASE tail' = tail
    BY <2>1 DEF Chain
  <2>2. CASE tail' # tail
    <3>1. tail' = next[tail] /\ next[tail] # Null
      BY <2>2
    <3>2. CASE next[tail] = head
      <4>1. 1 \in 1 .. Len(L) /\ L[1] = tail'
        BY <3>1, <3>2, ChainAt
      <4> QED BY <4>1
    <3>3. ASSUME NEW i \in 1 .. Len(L), L[i] = tail
          PROVE  \E j \in 1 .. Len(L) : L[j] = tail'
      <4>1. i # Len(L)
        BY <3>1, <3>3, ChainAt
      <4>2. i \in 1 .. (Len(L) - 1)
        BY <4>1, ChainAt
      <4> QED BY <3>1, <3>3, <4>2, ChainAt
    <3> QED BY <3>2, <3>3 DEF Chain
  <2> QED BY <2>1, <2>2
<1> QED BY <1>1 DEF Chain

LEMMA ContainsKept ==
  ASSUME NEW Q, Contains(Q), head' = head, next' = next, queue' = queue,
         tail' = tail \/ (tail' = next[tail] /\ next[tail] # Null)
  PROVE  Contains(Q)'
<1>1. PICK L, O : Chain(L) /\ Lays(L, O, Q)
  BY DEF Contains
<1>2. Chain(L)'
  BY <1>1, ChainKept
<1>3. Lays(L, O, Q)'
  BY <1>1 DEF Lays
<1> QED BY <1>2, <1>3 DEF Contains

LEMMA LaysAt ==
  ASSUME Contents, NEW L, Chain(L), NEW O, NEW Q, Q \in Seq(Items), Lays(L, O, Q)
  PROVE  /\ Len(Q) \in Nat /\ O[1] = 0
         /\ \A i \in 1 .. Len(L) :
              /\ O[i] \in Nat /\ queue[L[i]] \in Seq(Items)
              /\ Len(queue[L[i]]) \in Nat
              /\ O[i] + Len(queue[L[i]]) <= Len(Q)
              /\ \A k \in 1 .. Len(queue[L[i]]) :
                   O[i] + k \in 1 .. Len(Q) /\ Q[O[i] + k] = queue[L[i]][k]
<1> DEFINE n == Len(L)
<1>1. Len(Q) \in Nat /\ n \in 1 .. n /\ n \in Nat
  BY ChainAt
<1>2. \A i \in 1 .. n : /\ O[i] \in Nat /\ queue[L[i]] \in Seq(Items)
                        /\ Len(queue[L[i]]) \in Nat
  <2> TAKE i \in 1 .. n
  <2>1. L[i] \in Segs
    BY ChainAt
  <2>2. queue[L[i]] \in Seq(Items)
    BY <2>1 DEF Contents
  <2>3. O[i] \in Nat
    BY DEF Lays
  <2> QED BY <2>2, <2>3
<1>3. ASSUME NEW i \in 1 .. n PROVE O[i] + Len(queue[L[i]]) <= Len(Q)
  <2>1. Len(Q) = O[n] + Len(queue[L[n]])
    BY DEF Lays
  <2>2. CASE i = n
    BY <2>1, <2>2, <1>1, <1>2
  <2>3. CASE i < n
    <3>1. O[i] + Len(queue[L[i]]) <= O[n]
      BY <1>1, <2>3 DEF Lays
    <3>2. /\ O[i] \in Nat /\ Len(queue[L[i]]) \in Nat
          /\ O[n] \in Nat /\ Len(queue[L[n]]) \in Nat
      BY <1>1, <1>2
    <3> QED BY ONLY <2>1, <3>1, <3>2, Len(Q) \in Nat
  <2> QED BY <2>2, <2>3, <1>1
<1>4. ASSUME NEW i \in 1 .. n, NEW k \in 1 .. Len(queue[L[i]])
      PROVE  O[i] + k \in 1 .. Len(Q) /\ Q[O[i] + k] = queue[L[i]][k]
  <2>1. Q[O[i] + k] = queue[L[i]][k]
    BY DEF Lays
  <2> QED BY <1>1, <1>2, <1>3, <2>1
<1> QED BY <1>1, <1>2, <1>3, <1>4 DEF Lays

(* An enqueuer adds v to the last segment. *)
LEMMA ContainsPut ==
  ASSUME SegInv, Contents, NEW Q, Contains(Q), NEW t \in Threads, NEW v \in Items,
         me[t].at \in HoldTail, next[me[t].seg] = Null,
         queue' = [queue EXCEPT ![me[t].seg] = Append(queue[me[t].seg], v)],
         list' = list
  PROVE  Contains(Append(Q, v))'
<1>1. PICK L, O : Q \in Seq(Items) /\ Chain(L) /\ Lays(L, O, Q)
  BY DEF Contains
<1> DEFINE n == Len(L)
           s == me[t].seg
           R == Append(Q, v)
<1>2. s = L[n] /\ n \in 1 .. n /\ n \in Nat /\ s \in Segs
  BY <1>1, ChainEnd, ChainAt
<1>3. \A i \in 1 .. (n - 1) : i \in 1 .. n /\ i < n /\ L[i] # s /\ L[i] \in Segs
  BY <1>1, <1>2, ChainApart, ChainAt
<1>4. /\ queue'[s] = Append(queue[s], v)
      /\ \A i \in 1 .. (n - 1) : queue'[L[i]] = queue[L[i]]
  BY <1>2, <1>3 DEF Contents
<1>5. Chain(L)'
  BY <1>1 DEF Chain, list
<1>6. /\ R \in Seq(Items) /\ Len(R) = Len(Q) + 1 /\ R[Len(Q) + 1] = v
      /\ \A k \in 1 .. Len(Q) : R[k] = Q[k]
  BY <1>1
<1>7. /\ queue[s] \in Seq(Items) /\ Len(queue[s]) \in Nat
      /\ Len(queue'[s]) = Len(queue[s]) + 1 /\ queue'[s][Len(queue[s]) + 1] = v
      /\ \A k \in 1 .. Len(queue[s]) : queue'[s][k] = queue[s][k]
  BY <1>2, <1>4 DEF Contents
<1>8. Len(Q) = O[n] + Len(queue[s]) /\ O[n] \in Nat /\ Len(Q) \in Nat
  BY <1>1, <1>2, LaysAt DEF Lays
<1>0. \A i \in 1 .. n : \A k \in 1 .. Len(queue[L[i]]) :
         O[i] + k \in 1 .. Len(Q) /\ Q[O[i] + k] = queue[L[i]][k]
  BY <1>1, LaysAt
<1>9. Lays(L, O, R)'
  <2>1. O \in [1 .. n -> Nat] /\ O[1] = 0
    BY <1>1 DEF Lays
  <2>2. \A i \in 1 .. (n - 1) : O[i + 1] = O[i] + Len(queue'[L[i]])
    BY <1>1, <1>4 DEF Lays
  <2>3. ASSUME NEW i \in 1 .. n, NEW j \in 1 .. n, i < j
        PROVE  O[i] + Len(queue'[L[i]]) <= O[j]
    <3>1. i \in 1 .. (n - 1)
      BY <1>2, <2>3
    <3>2. O[i] + Len(queue[L[i]]) <= O[j]
      BY <1>1, <2>3 DEF Lays
    <3> QED BY <1>4, <3>1, <3>2
  <2>4. Len(R) = O[n] + Len(queue'[L[n]])
    BY <1>2, <1>6, <1>7, <1>8
  <2>5. ASSUME NEW i \in 1 .. n, NEW k \in 1 .. Len(queue'[L[i]])
        PROVE  R[O[i] + k] = queue'[L[i]][k]
    <3>1. CASE i # n
      <4>1. i \in 1 .. (n - 1)
        BY <1>2, <3>1
      <4>2. k \in 1 .. Len(queue[L[i]]) /\ queue'[L[i]][k] = queue[L[i]][k]
        BY <1>4, <4>1
      <4>3. O[i] + k \in 1 .. Len(Q) /\ Q[O[i] + k] = queue[L[i]][k]
        BY <1>0, <4>2
      <4> QED BY <1>6, <4>2, <4>3
    <3>2. CASE i = n /\ k \in 1 .. Len(queue[s])
      <4>1. O[n] + k \in 1 .. Len(Q) /\ Q[O[n] + k] = queue[s][k]
        BY <1>0, <1>2, <3>2
      <4> QED BY <1>2, <1>6, <1>7, <3>2, <4>1
    <3>3. CASE i = n /\ k \notin 1 .. Len(queue[s])
      <4>1. k = Len(queue[s]) + 1
        BY <1>2, <1>7, <3>3
      <4>2. O[n] + k = Len(Q) + 1
        <5>1. Len(queue[s]) \in Nat
          BY <1>7
        <5>2. \A a, b, c, d \in Nat : c = a + b /\ d = b + 1 => a + d = c + 1
          OBVIOUS
        <5>3. k \in Nat
          BY <4>1, <5>1
        <5> QED BY ONLY <1>8, <4>1, <5>1, <5>2, <5>3
      <4> QED BY <1>2, <1>6, <1>7, <3>3, <4>1, <4>2
    <3> QED BY <3>1, <3>2, <3>3
  <2>6. L' = L /\ O' = O /\ R' = R
    OBVIOUS
  <2> QED BY <2>1, <2>2, <2>3, <2>4, <2>5 DEF Lays
<1> HIDE DEF R
<1>10. Contains(R)'
  BY <1>5, <1>6, <1>9 DEF Contains
<1> QED BY <1>10 DEF R

(* An enqueuer links a segment of its own that holds v. *)
LEMMA ContainsLink ==
  ASSUME SegInv, Contents, NEW Q, Contains(Q), NEW t \in Threads, NEW v \in Items,
         NEW s, NEW o, me[t].seg = s, me[t].other = o,
         me[t].at = "enqLink", next[s] = Null, queue[o] = <<v>>,
         next' = [next EXCEPT ![s] = o],
         head' = head, tail' = tail, queue' = queue
  PROVE  Contains(Append(Q, v))'
<1>1. PICK L, O : Q \in Seq(Items) /\ Chain(L) /\ Lays(L, O, Q)
  BY DEF Contains
<1> DEFINE n == Len(L)
           R == Append(Q, v)
           M == Append(L, o)
           P == [i \in 1 .. (n + 1) |-> IF i = n + 1 THEN Len(Q) ELSE O[i]]
<1>2. s = L[n] /\ n \in 1 .. n /\ n \in Nat /\ s \in Segs
  <2>1. me[t].at \in HoldTail
    BY DEF HoldTail
  <2> QED BY <1>1, <2>1, ChainEnd, ChainAt
<1>3. Private(t, o) /\ Owns(t, o)
  BY DEF SegInv, OwnerInv, Owning, Owns
<1>4. o \in Segs /\ next[o] = Null /\ \A i \in 1 .. n : L[i] # o
  BY <1>1, <1>3, ChainLive DEF Private, Live
<1>5. o # s
  BY <1>2, <1>4
<1>6. next'[s] = o /\ \A r \in Segs : r # s => next'[r] = next[r]
  BY <1>2 DEF SegInv, Types
<1>7. /\ M \in Seq(Segs) /\ Len(M) = n + 1 /\ M[n + 1] = o
      /\ \A i \in 1 .. n : M[i] = L[i] /\ i \in 1 .. (n + 1)
      /\ n + 1 \in 1 .. (n + 1)
  BY <1>1, <1>2, <1>4, ChainAt
<1>8. Chain(M)'
  <2>1. M # <<>> /\ M[1] = head'
    BY <1>1, <1>2, <1>7, ChainAt
  <2>2. next'[M[Len(M)]] = Null
    BY <1>4, <1>5, <1>6, <1>7
  <2>3. ASSUME NEW i \in 1 .. (Len(M) - 1) PROVE next'[M[i]] = M[i + 1]
    <3>1. CASE i = n
      BY <1>2, <1>6, <1>7, <3>1
    <3>2. CASE i # n
      <4>1. i \in 1 .. (n - 1)
        BY <1>2, <1>7, <3>2
      <4>2. L[i] # s /\ L[i] \in Segs /\ i \in 1 .. n /\ i + 1 \in 1 .. n
            /\ next[L[i]] = L[i + 1]
        BY <1>1, <1>2, <4>1, ChainApart, ChainAt
      <4> QED BY <1>6, <1>7, <4>2
    <3> QED BY <3>1, <3>2
  <2>4. next'[tail] = head \/ \E i \in 1 .. Len(M) : M[i] = tail
    <3>1. CASE next[tail] = head
      <4>1. tail \in Segs /\ head \in Segs
        BY DEF SegInv, Types
      <4> QED BY <1>6, <3>1, <4>1, Sizes
    <3>2. ASSUME NEW i \in 1 .. n, L[i] = tail
          PROVE  \E j \in 1 .. Len(M) : M[j] = tail
      BY <1>7, <3>2
    <3> QED BY <1>1, <3>1, <3>2 DEF Chain
  <2>5. M' = M
    OBVIOUS
  <2> HIDE DEF M
  <2> QED BY <1>7, <2>1, <2>2, <2>3, <2>4 DEF Chain
<1>9. /\ R \in Seq(Items) /\ Len(R) = Len(Q) + 1 /\ R[Len(Q) + 1] = v
      /\ \A k \in 1 .. Len(Q) : R[k] = Q[k]
  BY <1>1
<1>10. /\ Len(queue[o]) = 1 /\ queue[o][1] = v
       /\ Len(Q) \in Nat
  BY <1>1
<1>11. /\ \A i \in 1 .. n : P[i] = O[i] /\ O[i] \in Nat
       /\ P[n + 1] = Len(Q) /\ P \in [1 .. (n + 1) -> Nat]
  <2>1. \A i \in 1 .. n : O[i] \in Nat
    BY <1>1, LaysAt
  <2>2. \A i \in 1 .. (n + 1) : i # n + 1 => i \in 1 .. n
    BY <1>2
  <2> QED BY <1>2, <1>10, <2>1, <2>2
<1>12. Lays(M, P, R)'
  <2> HIDE DEF M, P, R
  <2>1. P[1] = 0
    BY <1>1, <1>2, <1>11 DEF Lays
  <2>2. ASSUME NEW i \in 1 .. (Len(M) - 1)
        PROVE  P[i + 1] = P[i] + Len(queue[M[i]])
    <3>1. CASE i = n
      BY <1>1, <1>2, <1>7, <1>11, <3>1 DEF Lays
    <3>2. CASE i # n
      <4>1. i \in 1 .. (n - 1) /\ i \in 1 .. n /\ i + 1 \in 1 .. n
        BY <1>2, <1>7, <3>2
      <4> QED BY <1>1, <1>7, <1>11, <4>1 DEF Lays
    <3> QED BY <3>1, <3>2
  <2>3. ASSUME NEW i \in 1 .. Len(M), NEW j \in 1 .. Len(M), i < j
        PROVE  P[i] + Len(queue[M[i]]) <= P[j]
    <3>1. i \in 1 .. n
      BY <1>2, <1>7, <2>3
    <3>2. CASE j = n + 1
      BY <1>1, <1>7, <1>11, <3>1, <3>2, LaysAt
    <3>3. CASE j # n + 1
      <4>1. j \in 1 .. n
        BY <1>2, <1>7, <3>3
      <4> QED BY <1>1, <1>7, <1>11, <2>3, <3>1, <4>1 DEF Lays
    <3> QED BY <3>2, <3>3
  <2>4. Len(R) = P[Len(M)] + Len(queue[M[Len(M)]])
    BY <1>7, <1>9, <1>10, <1>11
  <2>5. ASSUME NEW i \in 1 .. Len(M), NEW k \in 1 .. Len(queue[M[i]])
        PROVE  R[P[i] + k] = queue[M[i]][k]
    <3>1. CASE i = n + 1
      <4>1. k = 1
        <5>1. Len(queue[M[i]]) = 1
          BY <1>7, <1>10, <3>1
        <5> QED BY <5>1
      <4> QED BY <1>7, <1>9, <1>10, <1>11, <3>1, <4>1
    <3>2. CASE i # n + 1
      <4>1. i \in 1 .. n /\ M[i] = L[i] /\ P[i] = O[i]
        BY <1>2, <1>7, <1>11, <3>2
      <4>2. O[i] + k \in 1 .. Len(Q) /\ Q[O[i] + k] = queue[L[i]][k]
        BY <1>1, <4>1, LaysAt
      <4> QED BY <1>9, <4>1, <4>2
    <3> QED BY <3>1, <3>2
  <2> QED BY <1>7, <1>11, <2>1, <2>2, <2>3, <2>4, <2>5 DEF Lays
<1> HIDE DEF M, P, R
<1>13. Contains(R)'
  BY <1>8, <1>9, <1>12 DEF Contains
<1> QED BY <1>13 DEF R

(* The first item of the queue is that of the first segment; and the queue *)
(* is empty if its first segment is and no other follows.                  *)
LEMMA ContainsFirst ==
  ASSUME Contents, NEW Q, Contains(Q)
  PROVE  /\ queue[head] # <<>> => Q # <<>> /\ Head(Q) = Head(queue[head])
         /\ queue[head] = <<>> /\ next[head] = Null => Q = <<>>
<1>1. PICK L, O : Q \in Seq(Items) /\ Chain(L) /\ Lays(L, O, Q)
  BY DEF Contains
<1>2. 1 \in 1 .. Len(L) /\ L[1] = head /\ O[1] = 0 /\ queue[head] \in Seq(Items)
  BY <1>1, ChainAt, LaysAt
<1>3. ASSUME queue[head] # <<>>
      PROVE  Q # <<>> /\ Head(Q) = Head(queue[head])
  <2>1. 1 \in 1 .. Len(queue[head])
    BY <1>2, <1>3
  <2>2. O[1] + 1 \in 1 .. Len(Q) /\ Q[O[1] + 1] = queue[head][1]
    <3>1. 1 \in 1 .. Len(queue[L[1]])
      BY <1>2, <2>1
    <3>2. \A k \in 1 .. Len(queue[L[1]]) :
            O[1] + k \in 1 .. Len(Q) /\ Q[O[1] + k] = queue[L[1]][k]
      BY <1>1, <1>2, LaysAt
    <3> QED BY <1>2, <3>1, <3>2
  <2>3. 1 \in 1 .. Len(Q) /\ Q[1] = queue[head][1]
    BY <1>2, <2>2
  <2> QED BY <1>1, <1>2, <1>3, <2>3
<1>4. ASSUME queue[head] = <<>>, next[head] = Null PROVE Q = <<>>
  <2>1. Len(L) = 1
    <3>1. ~ 1 \in 1 .. (Len(L) - 1)
      BY <1>1, <1>2, <1>4, ChainAt
    <3>2. \A a \in Nat : a >= 1 /\ ~ 1 \in 1 .. (a - 1) => a = 1
      OBVIOUS
    <3> QED BY <1>1, <3>1, <3>2, ChainAt
  <2>2. Len(Q) = O[1] + Len(queue[head])
    BY <1>1, <1>2, <2>1 DEF Lays
  <2>3. Len(queue[head]) = 0
    BY <1>4
  <2> QED BY <1>1, <1>2, <2>2, <2>3
<1> QED BY <1>3, <1>4

(* A dequeuer takes the first item. *)
LEMMA ContainsTake ==
  ASSUME SegInv, Contents, NEW Q, Contains(Q), queue[head] # <<>>,
         queue' = [queue EXCEPT ![head] = Tail(queue[head])],
         list' = list
  PROVE  Contains(Tail(Q))'
<1>1. PICK L, O : Q \in Seq(Items) /\ Chain(L) /\ Lays(L, O, Q)
  BY DEF Contains
<1> DEFINE n == Len(L)
           R == Tail(Q)
           P == [i \in 1 .. n |-> IF i = 1 THEN 0 ELSE O[i] - 1]
<1>2. PICK f : f = head
  OBVIOUS
<1>3. /\ 1 \in 1 .. n /\ n \in 1 .. n /\ n \in Nat /\ L[1] = f /\ f \in Segs
      /\ O[1] = 0
  BY <1>1, <1>2, ChainAt, LaysAt
<1>4. /\ queue[f] \in Seq(Items) /\ queue[f] # <<>> /\ Len(queue[f]) \in Nat
      /\ Len(queue[f]) >= 1
  BY <1>2, <1>3 DEF Contents
<1>5. \A i \in 1 .. n : i # 1 => L[i] # f /\ L[i] \in Segs
  BY <1>1, <1>3, ChainApart, ChainAt
<1>6. /\ queue'[f] = Tail(queue[f])
      /\ \A i \in 1 .. n : i # 1 => queue'[L[i]] = queue[L[i]]
  BY <1>2, <1>3, <1>5 DEF Contents
<1>7. /\ Len(queue'[f]) = Len(queue[f]) - 1
      /\ \A k \in 1 .. Len(queue'[f]) :
           queue'[f][k] = queue[f][k + 1] /\ k + 1 \in 1 .. Len(queue[f])
  <2>1. \A q \in Seq(Items) : q # <<>> =>
          /\ Len(Tail(q)) = Len(q) - 1
          /\ \A k \in 1 .. Len(Tail(q)) :
               Tail(q)[k] = q[k + 1] /\ k + 1 \in 1 .. Len(q)
    OBVIOUS
  <2> QED BY <1>4, <1>6, <2>1
<1>8. Chain(L)'
  BY <1>1 DEF Chain, list
<1>9. Q # <<>>
  BY <1>1, ContainsFirst
<1>10. /\ R \in Seq(Items) /\ Len(R) = Len(Q) - 1 /\ Len(Q) \in Nat
       /\ \A k \in 1 .. Len(R) : R[k] = Q[k + 1]
  BY <1>1, <1>9
<1>11. \A i \in 1 .. n : /\ O[i] \in Nat /\ Len(queue[L[i]]) \in Nat
                         /\ i # 1 => O[i] >= Len(queue[f])
  <2> TAKE i \in 1 .. n
  <2>1. O[i] \in Nat /\ Len(queue[L[i]]) \in Nat
    BY <1>1, LaysAt
  <2>2. ASSUME i # 1 PROVE O[i] >= Len(queue[f])
    <3>1. O[1] + Len(queue[L[1]]) <= O[i]
      BY <1>1, <1>3, <2>2 DEF Lays
    <3> QED BY <1>3, <1>4, <2>1, <3>1
  <2> QED BY <2>1, <2>2
<1>12. P \in [1 .. n -> Nat] /\ P[1] = 0 /\ \A i \in 1 .. n : i # 1 => P[i] = O[i] - 1
  <2>1. \A i \in 1 .. n : i # 1 => O[i] - 1 \in Nat
    BY <1>4, <1>11
  <2> QED BY <1>3, <2>1
<1> HIDE DEF R, P
<1>0. \A i \in 1 .. n : \A k \in 1 .. Len(queue[L[i]]) :
         O[i] + k \in 1 .. Len(Q) /\ Q[O[i] + k] = queue[L[i]][k]
  BY <1>1, LaysAt
<1>13. \A i \in 1 .. n : P[i] + Len(queue'[L[i]]) = O[i] + Len(queue[L[i]]) - 1
  <2> TAKE i \in 1 .. n
  <2>1. CASE i = 1
    BY <1>3, <1>4, <1>7, <1>12, <2>1
  <2>2. CASE i # 1
    <3>1. queue'[L[i]] = queue[L[i]]
      BY <1>6, <2>2
    <3>2. P[i] = O[i] - 1 /\ O[i] \in Nat /\ Len(queue[L[i]]) \in Nat
      BY <1>11, <1>12, <2>2
    <3>3. \A a, b, c \in Nat : a - 1 + b = a + b - 1
      OBVIOUS
    <3> QED BY ONLY <3>1, <3>2, <3>3
  <2> QED BY <2>1, <2>2
<1>14. Lays(L, P, R)'
  <2>1. ASSUME NEW i \in 1 .. (n - 1)
        PROVE  P[i + 1] = P[i] + Len(queue'[L[i]])
    <3>1. i \in 1 .. n /\ i + 1 \in 1 .. n /\ i + 1 # 1
      BY <1>3
    <3>2. O[i + 1] = O[i] + Len(queue[L[i]])
      BY <1>1 DEF Lays
    <3>3. P[i + 1] = O[i + 1] - 1 /\ O[i + 1] \in Nat
      BY <1>11, <1>12, <3>1
    <3>4. P[i] + Len(queue'[L[i]]) = O[i] + Len(queue[L[i]]) - 1
      BY <1>13, <3>1
    <3>5. O[i] \in Nat /\ Len(queue[L[i]]) \in Nat
      BY <1>11, <3>1
    <3> QED BY ONLY <3>2, <3>3, <3>4, <3>5
  <2>2. ASSUME NEW i \in 1 .. n, NEW j \in 1 .. n, i < j
        PROVE  P[i] + Len(queue'[L[i]]) <= P[j]
    <3>1. j # 1
      BY <2>2
    <3>2. O[i] + Len(queue[L[i]]) <= O[j]
      BY <1>1, <2>2 DEF Lays
    <3>3. /\ P[j] = O[j] - 1 /\ O[j] \in Nat
          /\ O[i] \in Nat /\ Len(queue[L[i]]) \in Nat
          /\ P[i] + Len(queue'[L[i]]) = O[i] + Len(queue[L[i]]) - 1
      BY <1>11, <1>12, <1>13, <3>1
    <3>4. \A a, b, c \in Nat : a + b <= c => a + b - 1 <= c - 1
      OBVIOUS
    <3>5. O[i] + Len(queue[L[i]]) - 1 <= O[j] - 1
      BY ONLY <3>2, <3>3, <3>4
    <3> QED BY ONLY <3>3, <3>5
  <2>3. Len(R) = P[n] + Len(queue'[L[n]])
    <3>1. Len(Q) = O[n] + Len(queue[L[n]])
      BY <1>1 DEF Lays
    <3>2. P[n] + Len(queue'[L[n]]) = O[n] + Len(queue[L[n]]) - 1
      BY <1>3, <1>13
    <3>3. Len(R) = Len(Q) - 1
      BY <1>10
    <3>4. O[n] \in Nat /\ Len(queue[L[n]]) \in Nat
      BY <1>3, <1>11
    <3> QED BY ONLY <3>1, <3>2, <3>3, <3>4
  <2>4. ASSUME NEW i \in 1 .. n, NEW k \in 1 .. Len(queue'[L[i]])
        PROVE  R[P[i] + k] = queue'[L[i]][k]
    <3>1. CASE i = 1
      <4>1. /\ queue'[L[i]][k] = queue[f][k + 1]
            /\ k + 1 \in 1 .. Len(queue[L[i]])
        BY <1>3, <1>7, <3>1
      <4>2. O[i] + (k + 1) \in 1 .. Len(Q) /\ Q[O[i] + (k + 1)] = queue[L[i]][k + 1]
        BY <1>0, <4>1
      <4>3. k + 1 \in 1 .. Len(Q) /\ Q[k + 1] = queue[f][k + 1]
        BY <1>3, <3>1, <4>2
      <4>4. k \in 1 .. Len(R) /\ P[i] + k = k
        BY <1>10, <1>12, <3>1, <4>3
      <4> QED BY <1>10, <4>1, <4>3, <4>4
    <3>2. CASE i # 1
      <4>1. queue'[L[i]] = queue[L[i]] /\ k \in 1 .. Len(queue[L[i]])
        BY <1>6, <3>2
      <4>2. O[i] + k \in 1 .. Len(Q) /\ Q[O[i] + k] = queue[L[i]][k]
        BY <1>0, <4>1
      <4>3. P[i] = O[i] - 1 /\ O[i] \in Nat /\ O[i] >= 1 /\ k \in Nat /\ k >= 1
        BY <1>4, <1>11, <1>12, <3>2
      <4>4. P[i] + k \in 1 .. Len(R) /\ (P[i] + k) + 1 = O[i] + k
        <5>1. O[i] + k <= Len(Q) /\ Len(R) = Len(Q) - 1 /\ Len(Q) \in Nat
          BY <1>10, <4>2
        <5> QED BY ONLY <4>3, <5>1
      <4> QED BY <1>10, <4>1, <4>2, <4>4
    <3> QED BY <3>1, <3>2
  <2> QED BY <1>12, <2>1, <2>2, <2>3, <2>4 DEF Lays
<1>15. Contains(R)'
  BY <1>8, <1>10, <1>14 DEF Contains
<1> QED BY <1>15 DEF R

(* Head moves past its segment, which is empty. *)
LEMMA ContainsAdvance ==
  ASSUME SegInv, Contents, NEW Q, Contains(Q), queue[head] = <<>>,
         next[head] # Null, head' = next[head],
         next' = next, tail' = tail, queue' = queue
  PROVE  Contains(Q)'
<1>1. PICK L, O : Q \in Seq(Items) /\ Chain(L) /\ Lays(L, O, Q)
  BY DEF Contains
<1> DEFINE n == Len(L)
           M == Tail(L)
           P == [i \in 1 .. (n - 1) |-> O[i + 1]]
<1>2. n \in Nat /\ L[1] = head /\ n \in 1 .. n /\ 1 \in 1 .. n
  BY <1>1, ChainAt
<1>3. n # 1
  BY <1>1, <1>2, ChainAt
<1>4. n >= 2
  BY <1>2, <1>3
<1>5. /\ M \in Seq(Segs) /\ Len(M) = n - 1
      /\ \A i \in 1 .. (n - 1) : M[i] = L[i + 1] /\ i + 1 \in 1 .. n
  BY <1>1, <1>4, ChainAt
<1>6. next[L[1]] = L[2]
  BY <1>1, <1>4, ChainAt
<1> HIDE DEF M
<1>7. Chain(M)'
  <2>1. M # <<>> /\ M[1] = head'
    BY <1>2, <1>4, <1>5, <1>6
  <2>2. next[M[Len(M)]] = Null
    BY <1>1, <1>4, <1>5, ChainAt
  <2>3. ASSUME NEW i \in 1 .. (Len(M) - 1) PROVE next[M[i]] = M[i + 1]
    <3>1. /\ i \in 1 .. (n - 1) /\ i + 1 \in 1 .. (n - 1)
          /\ M[i] = L[i + 1] /\ M[i + 1] = L[(i + 1) + 1]
      BY <1>4, <1>5
    <3> QED BY <1>1, <3>1, ChainAt
  <2>4. next[tail] = head' \/ \E i \in 1 .. Len(M) : M[i] = tail
    <3>1. next[tail] # head
      <4>1. head \in Segs
        BY DEF SegInv, Types
      <4> QED BY <4>1, Sizes DEF SegInv, ListInv, TailInv
    <3>2. PICK i \in 1 .. n : L[i] = tail
      BY <1>1, <3>1 DEF Chain
    <3>3. CASE i = 1
      BY <1>2, <3>2, <3>3
    <3>4. CASE i # 1
      <4>1. i - 1 \in 1 .. (n - 1) /\ (i - 1) + 1 = i
        BY <1>4, <3>4
      <4> QED BY <1>5, <3>2, <4>1
    <3> QED BY <3>3, <3>4
  <2> QED BY <1>5, <2>1, <2>2, <2>3, <2>4 DEF Chain
<1>8. \A i \in 1 .. (n - 1) : P[i] = O[i + 1] /\ O[i + 1] \in Nat
  BY <1>1, <1>5, LaysAt
<1>9. P \in [1 .. (n - 1) -> Nat]
  BY <1>8
<1> HIDE DEF P
<1>0. \A i \in 1 .. n : \A k \in 1 .. Len(queue[L[i]]) :
         O[i] + k \in 1 .. Len(Q) /\ Q[O[i] + k] = queue[L[i]][k]
  BY <1>1, LaysAt
<1>10. P[1] = 0
  <2>1. O[1] = 0 /\ O[1 + 1] = O[1] + Len(queue[L[1]])
    BY <1>1, <1>4 DEF Lays
  <2>2. Len(queue[L[1]]) = 0
    BY <1>2
  <2>3. 1 \in 1 .. (n - 1)
    BY <1>4
  <2> QED BY <1>8, <2>1, <2>2, <2>3
<1>11. Lays(M, P, Q)'
  <2>1. ASSUME NEW i \in 1 .. (Len(M) - 1) PROVE P[i + 1] = P[i] + Len(queue[M[i]])
    <3>1. /\ i \in 1 .. (n - 1) /\ i + 1 \in 1 .. (n - 1)
          /\ M[i] = L[i + 1] /\ P[i] = O[i + 1] /\ P[i + 1] = O[(i + 1) + 1]
      BY <1>4, <1>5, <1>8
    <3> QED BY <1>1, <3>1 DEF Lays
  <2>2. ASSUME NEW i \in 1 .. Len(M), NEW j \in 1 .. Len(M), i < j
        PROVE  P[i] + Len(queue[M[i]]) <= P[j]
    <3>1. /\ i + 1 \in 1 .. n /\ j + 1 \in 1 .. n /\ i + 1 < j + 1
          /\ M[i] = L[i + 1] /\ P[i] = O[i + 1] /\ P[j] = O[j + 1]
      BY <1>5, <1>8, <2>2
    <3> QED BY <1>1, <3>1 DEF Lays
  <2>3. Len(Q) = P[Len(M)] + Len(queue[M[Len(M)]])
    <3>1. Len(M) \in 1 .. (n - 1) /\ Len(M) + 1 = n
      BY <1>4, <1>5
    <3>2. M[Len(M)] = L[n] /\ P[Len(M)] = O[n]
      BY <1>5, <1>8, <3>1
    <3> QED BY <1>1, <3>2 DEF Lays
  <2>4. ASSUME NEW i \in 1 .. Len(M), NEW k \in 1 .. Len(queue[M[i]])
        PROVE  Q[P[i] + k] = queue[M[i]][k]
    <3>1. i + 1 \in 1 .. n /\ M[i] = L[i + 1] /\ P[i] = O[i + 1]
      BY <1>5, <1>8
    <3> QED BY ONLY <1>0, <3>1
  <2> QED BY <1>5, <1>9, <1>10, <2>1, <2>2, <2>3, <2>4 DEF Lays
<1> QED BY <1>1, <1>7, <1>11 DEF Contains

(* A segment is made that is not in the list. *)
LEMMA ContainsNew ==
  ASSUME SegInv, Contents, NEW Q, Contains(Q), NEW s \in Segs, heap[s] # "used",
         NEW v, next' = [next EXCEPT ![s] = Null], queue' = [queue EXCEPT ![s] = v],
         head' = head, tail' = tail
  PROVE  Contains(Q)'
<1>1. PICK L, O : Q \in Seq(Items) /\ Chain(L) /\ Lays(L, O, Q)
  BY DEF Contains
<1>2. \A i \in 1 .. Len(L) :
        /\ i \in Nat /\ L[i] # s /\ L[i] \in Segs
        /\ next'[L[i]] = next[L[i]] /\ queue'[L[i]] = queue[L[i]]
  BY <1>1, ChainLive, ChainAt DEF Live, SegInv, Types, Contents
<1>3. next'[tail] = next[tail]
  BY DEF SegInv, Types, ListInv, EndsAlive
<1>4. Len(L) \in 1 .. Len(L) /\ \A i \in 1 .. (Len(L) - 1) : i \in 1 .. Len(L)
  BY <1>1, ChainAt
<1>5. Chain(L)'
  BY <1>1, <1>2, <1>3, <1>4 DEF Chain
<1>6. Lays(L, O, Q)'
  BY <1>1, <1>2, <1>4 DEF Lays
<1> QED BY <1>1, <1>5, <1>6 DEF Contains

----------------------------------------------------------------------------
(* The calls. *)

LEMMA StatusType ==
  ASSUME Inv, NEW u \in Threads, NEW S
  PROVE  Status(u, me[u], S) \in Calls
<1>1. /\ me[u].at \in Enqueuing => me[u].item \in Items
      /\ me[u].item \in Items \cup {NoItem}
  BY Mine DEF Local, Locals
<1> QED BY <1>1, CallType DEF Status

LEMMA CallingType ==
  ASSUME Inv, NEW S
  PROVE  /\ Calling(S) \in [Threads -> Calls]
         /\ \A u \in Threads : Calling(S)[u] = Status(u, me[u], S)
BY StatusType DEF Calling

LEMMA StatusSame ==
  ASSUME NEW u, NEW m, NEW S1, NEW S2, u \in S1 <=> u \in S2
  PROVE  Status(u, m, S1) = Status(u, m, S2)
BY DEF Status

(* The calls when only t moves. *)
LEMMA CallingStep ==
  ASSUME Inv, NEW t \in Threads, NEW m \in Locals, me' = [me EXCEPT ![t] = m],
         NEW S
  PROVE  Calling(S)' = [Calling(S) EXCEPT ![t] = Status(t, m, S)]
<1>1. me'[t] = m /\ \A u \in Threads : u # t => me'[u] = me[u]
  BY MeFacts DEF Inv, SegInv
<1>2. Calling(S)' = [u \in Threads |-> Status(u, me'[u], S)]
  BY DEF Calling, Status
<1>3. Calling(S) = [u \in Threads |-> Status(u, me[u], S)]
  BY DEF Calling
<1> QED BY <1>1, <1>2, <1>3

LEMMA CallingOff ==
  ASSUME NEW t \in Threads, NEW E, NEW S, E \ {t} = S \ {t}, NEW x
  PROVE  [Calling(S) EXCEPT ![t] = x] = [Calling(E) EXCEPT ![t] = x]
<1>1. \A u \in Threads : u # t => Status(u, me[u], S) = Status(u, me[u], E)
  <2> TAKE u \in Threads
  <2> HAVE u # t
  <2>1. u \in E <=> u \in S
    OBVIOUS
  <2> QED BY <2>1, StatusSame
<1> QED BY <1>1 DEF Calling

LEMMA MaybeShrinks ==
  ASSUME Inv, NEW t \in Threads, NEW m \in Locals, me' = [me EXCEPT ![t] = m],
         \A u \in Threads : me[u].at = "deqNext" /\ next'[me[u].seg] = Null
                              => next[me[u].seg] = Null,
         ~ (m.at = "deqNext" /\ next'[m.seg] = Null)
  PROVE  Maybe' \subseteq Maybe /\ t \notin Maybe'
<1>1. me'[t] = m /\ \A u \in Threads : u # t => me'[u] = me[u]
  BY MeFacts DEF Inv, SegInv
<1> QED BY <1>1 DEF Maybe

(* A step of t that only t sees. *)
LEMMA ExplainsSilent ==
  ASSUME Inv, NEW Q, Explains(Q), NEW t \in Threads, NEW m \in Locals,
         me' = [me EXCEPT ![t] = m], configs' = configs,
         Maybe' \subseteq Maybe, t \notin Maybe',
         Status(t, m, {}) = Status(t, me[t], {})
  PROVE  Explains(Q)'
<1>1. ASSUME NEW S \in SUBSET Maybe' PROVE Calling(S)' = Calling(S)
  <2>1. Calling(S)' = [Calling(S) EXCEPT ![t] = Status(t, m, S)]
    BY CallingStep
  <2>2. /\ Status(t, m, S) = Status(t, m, {})
        /\ Status(t, me[t], S) = Status(t, me[t], {})
    BY StatusSame
  <2>3. Calling(S)[t] = Status(t, m, S) /\ Calling(S) \in [Threads -> Calls]
    BY <2>2, CallingType
  <2> QED BY <2>1, <2>3
<1>2. \A S \in SUBSET Maybe' : Reaches(configs, Conf(Q, Calling(S)))
  BY DEF Explains
<1>3. \A S \in SUBSET Maybe' : Reaches(configs', Conf(Q, Calling(S)'))
  BY <1>1, <1>2
<1>4. Explains(Q)' = \A S \in SUBSET Maybe' : Reaches(configs', Conf(Q, Calling(S)'))
  BY DEF Explains, Reaches, Conf
<1> QED BY <1>3, <1>4

(* t had found the queue empty while it was. *)
LEMMA ExplainsEarly ==
  ASSUME Inv, NEW Q, Explains(Q), NEW t \in Threads, NEW m \in Locals,
         me' = [me EXCEPT ![t] = m], configs' = configs,
         Maybe' \subseteq Maybe, t \notin Maybe', t \in Maybe,
         Status(t, m, {}) = Status(t, me[t], {t})
  PROVE  Explains(Q)'
<1>1. ASSUME NEW S \in SUBSET Maybe'
      PROVE  Calling(S)' = Calling(S \cup {t}) /\ S \cup {t} \in SUBSET Maybe
  <2>e. PICK E : E = S \cup {t}
    OBVIOUS
  <2>0. t \notin S /\ t \in E /\ E \ {t} = S \ {t}
    BY <2>e
  <2>1. Calling(S)' = [Calling(E) EXCEPT ![t] = Status(t, m, S)]
    <3>1. Calling(S)' = [Calling(S) EXCEPT ![t] = Status(t, m, S)]
      BY CallingStep
    <3>2. E \ {t} = S \ {t}
      BY <2>0
    <3>3. [Calling(S) EXCEPT ![t] = Status(t, m, S)]
            = [Calling(E) EXCEPT ![t] = Status(t, m, S)]
      BY ONLY <3>2, t \in Threads, CallingOff
    <3> QED BY <3>1, <3>3
  <2>2. /\ Status(t, m, S) = Status(t, m, {})
        /\ Status(t, me[t], E) = Status(t, me[t], {t})
    BY <2>0, StatusSame
  <2>3. /\ Calling(E)[t] = Status(t, m, S)
        /\ Calling(E) \in [Threads -> Calls]
    BY <2>2, CallingType
  <2> QED BY <2>1, <2>3, <2>e
<1>3. \A S \in SUBSET Maybe' : Reaches(configs', Conf(Q, Calling(S)'))
  BY <1>1 DEF Explains
<1>4. Explains(Q)' = \A S \in SUBSET Maybe' : Reaches(configs', Conf(Q, Calling(S)'))
  BY DEF Explains, Reaches, Conf
<1> QED BY <1>3, <1>4

(* The call of t takes effect. *)
LEMMA ExplainsTakes ==
  ASSUME Inv, configs \subseteq Confs,
         NEW Q \in Seq(Items), Explains(Q), NEW R,
         NEW t \in Threads, NEW m \in Locals,
         me' = [me EXCEPT ![t] = m], configs' = configs,
         Maybe' \subseteq Maybe, t \notin Maybe',
         \A call \in [Threads -> Calls] : call[t] = Status(t, me[t], {}) =>
           Takes(Conf(Q, call), t, Conf(R, [call EXCEPT ![t] = Status(t, m, {})]))
  PROVE  Explains(R)'
<1>1. ASSUME NEW S \in SUBSET Maybe'
      PROVE  Takes(Conf(Q, Calling(S)), t, Conf(R, Calling(S)'))
  <2>1. Calling(S)' = [Calling(S) EXCEPT ![t] = Status(t, m, S)]
    BY CallingStep
  <2>2. /\ Status(t, m, S) = Status(t, m, {})
        /\ Status(t, me[t], S) = Status(t, me[t], {})
    BY StatusSame
  <2>3. Calling(S)[t] = Status(t, me[t], {}) /\ Calling(S) \in [Threads -> Calls]
    BY <2>2, CallingType
  <2> QED BY <2>1, <2>2, <2>3
<1>2. \A S \in SUBSET Maybe' : Reaches(configs, Conf(Q, Calling(S)))
  BY DEF Explains
<1>3. \A S \in SUBSET Maybe' : Reaches(configs', Conf(R, Calling(S)'))
  BY <1>1, <1>2, ReachesMore
<1>4. Explains(R)' = \A S \in SUBSET Maybe' : Reaches(configs', Conf(R, Calling(S)'))
  BY DEF Explains, Reaches, Conf
<1> QED BY <1>3, <1>4

(* t finds the queue empty, and does not know yet whether it is. *)
LEMMA ExplainsEmpty ==
  ASSUME Inv, configs \subseteq Confs, Explains(<<>>),
         NEW t \in Threads, NEW m \in Locals,
         me' = [me EXCEPT ![t] = m], configs' = configs,
         Maybe' \subseteq Maybe \cup {t}, t \notin Maybe,
         Status(t, me[t], {}) = Monitor!DeqCall,
         Status(t, m, {}) = Monitor!DeqCall,
         Status(t, m, {t}) = Monitor!Done(NoItem)
  PROVE  Explains(<<>>)'
<1>1. ASSUME NEW S \in SUBSET Maybe'
      PROVE  Reaches(configs', Conf(<<>>, Calling(S)'))
  <2>e. PICK E : E = S \ {t}
    OBVIOUS
  <2> DEFINE d == Conf(<<>>, Calling(E))
  <2>1. E \in SUBSET Maybe /\ t \notin E
    BY <2>e
  <2>0. E \ {t} = S \ {t}
    BY <2>e
  <2>2. Calling(S)' = [Calling(E) EXCEPT ![t] = Status(t, m, S)]
    <3>1. Calling(S)' = [Calling(S) EXCEPT ![t] = Status(t, m, S)]
      BY CallingStep
    <3>2. E \ {t} = S \ {t}
      BY <2>0
    <3>3. [Calling(S) EXCEPT ![t] = Status(t, m, S)]
            = [Calling(E) EXCEPT ![t] = Status(t, m, S)]
      BY ONLY <3>2, t \in Threads, CallingOff
    <3> QED BY <3>1, <3>3
  <2>3. Reaches(configs, d)
    BY <2>1 DEF Explains
  <2>4. Status(t, me[t], E) = Status(t, me[t], {})
    BY <2>1, StatusSame
  <2>5. Calling(E) \in [Threads -> Calls] /\ Calling(E)[t] = Monitor!DeqCall
    BY <2>4, CallingType
  <2>6. CASE t \notin S
    <3>1. Status(t, m, S) = Status(t, m, {})
      BY <2>6, StatusSame
    <3>2. Calling(S)' = Calling(E)
      BY <2>2, <2>5, <3>1
    <3> QED BY <2>3, <3>2
  <2>7. CASE t \in S
    <3>1. Status(t, m, S) = Status(t, m, {t})
      BY <2>7, StatusSame
    <3>2. Calling(S)' = [Calling(E) EXCEPT ![t] = Monitor!Done(NoItem)]
      BY <2>2, <3>1
    <3>3. d.call = Calling(E) /\ d.queue = <<>>
      BY ConfType
    <3> HIDE DEF d
    <3>4. Takes(d, t, Conf(<<>>, Calling(S)'))
      BY <2>5, <3>2, <3>3 DEF Takes
    <3> QED BY <2>3, <3>4, ReachesMore
  <2> QED BY <2>6, <2>7
<1>2. Explains(<<>>)'
        = \A S \in SUBSET Maybe' : Reaches(configs', Conf(<<>>, Calling(S)'))
  BY DEF Explains, Reaches, Conf
<1> QED BY <1>1, <1>2

LEMMA ExplainsCall ==
  ASSUME Inv, configs \subseteq Confs, NEW Q, Explains(Q),
         NEW t \in Threads, NEW m \in Locals, NEW x \in Calls,
         me' = [me EXCEPT ![t] = m], configs' = Monitor!Called(configs, t, x),
         Maybe' \subseteq Maybe, t \notin Maybe', x.stage # "done",
         Status(t, me[t], {}) = Monitor!NoCall, Status(t, m, {}) = x
  PROVE  Explains(Q)' /\ configs' \subseteq Confs
<1>1. ASSUME NEW S \in SUBSET Maybe'
      PROVE  /\ configs' \subseteq Confs
             /\ Reaches(configs', Conf(Q, Calling(S)'))
  <2>1. Calling(S)' = [Calling(S) EXCEPT ![t] = Status(t, m, S)]
    BY CallingStep
  <2>2. /\ Status(t, m, S) = x
        /\ Status(t, me[t], S) = Monitor!NoCall
    BY StatusSame
  <2> DEFINE d == Conf(Q, Calling(S))
  <2>3. Reaches(configs, d)
    BY DEF Explains
  <2>4. d.call = Calling(S) /\ d.queue = Q
    BY ConfType
  <2>5. d.call[t] = Monitor!NoCall
    BY <2>2, <2>4, CallingType
  <2>6. With(d, t, x) = Conf(Q, Calling(S)')
    BY <2>1, <2>2, <2>4 DEF With
  <2> HIDE DEF d
  <2> QED BY <2>3, <2>5, <2>6, ReachesCall
<1>2. Explains(Q)' = \A S \in SUBSET Maybe' : Reaches(configs', Conf(Q, Calling(S)'))
  BY DEF Explains, Reaches, Conf
<1>3. {} \in SUBSET Maybe'
  OBVIOUS
<1> QED BY <1>1, <1>2, <1>3

LEMMA ExplainsReturn ==
  ASSUME Inv, configs \subseteq Confs, NEW Q, Explains(Q),
         NEW t \in Threads, NEW m \in Locals, NEW r \in Items \cup {NoItem},
         me' = [me EXCEPT ![t] = m], configs' = Monitor!Returned(configs, t, r),
         Maybe' \subseteq Maybe, t \notin Maybe',
         Status(t, me[t], {}) = Monitor!Done(r), Status(t, m, {}) = Monitor!NoCall
  PROVE  Explains(Q)' /\ configs' \subseteq Confs
<1>1. ASSUME NEW S \in SUBSET Maybe'
      PROVE  /\ configs' \subseteq Confs
             /\ Reaches(configs', Conf(Q, Calling(S)'))
  <2>1. Calling(S)' = [Calling(S) EXCEPT ![t] = Status(t, m, S)]
    BY CallingStep
  <2>2. /\ Status(t, m, S) = Monitor!NoCall
        /\ Status(t, me[t], S) = Monitor!Done(r)
    BY StatusSame
  <2> DEFINE d == Conf(Q, Calling(S))
  <2>3. Reaches(configs, d)
    BY DEF Explains
  <2>4. d.call = Calling(S) /\ d.queue = Q
    BY ConfType
  <2>5. d.call[t] = Monitor!Done(r)
    BY <2>2, <2>4, CallingType
  <2>6. With(d, t, Monitor!NoCall) = Conf(Q, Calling(S)')
    BY <2>1, <2>2, <2>4 DEF With
  <2> HIDE DEF d
  <2> QED BY <2>3, <2>5, <2>6, ReachesReturn
<1>2. Explains(Q)' = \A S \in SUBSET Maybe' : Reaches(configs', Conf(Q, Calling(S)'))
  BY DEF Explains, Reaches, Conf
<1>3. {} \in SUBSET Maybe'
  OBVIOUS
<1> QED BY <1>1, <1>2, <1>3

Searching == {"deqLoad", "deqPublish", "deqRecheck", "deqSeg", "deqNext",
              "deqAgain", "deqAdvance", "retire"}

LEMMA StatusFacts ==
  ASSUME NEW u, NEW m, NEW S
  PROVE  /\ m.at = "idle" => Status(u, m, S) = Monitor!NoCall
         /\ m.at \in Enqueuing => Status(u, m, S) = Monitor!EnqCall(m.item)
         /\ m.at \in Over => Status(u, m, S) = Monitor!Done(NoItem)
         /\ m.at = "deqClear" => Status(u, m, S) = Monitor!Done(m.item)
         /\ m.at \in Searching /\ u \notin S => Status(u, m, S) = Monitor!DeqCall
         /\ m.at \in Searching /\ u \in S => Status(u, m, S) = Monitor!Done(NoItem)
<1>1. /\ "idle" \notin Enqueuing \cup Over \cup Searching
      /\ "deqClear" \notin Enqueuing \cup Over \cup Searching
      /\ Enqueuing \cap Over = {} /\ Enqueuing \cap Searching = {}
      /\ Over \cap Searching = {} /\ "idle" # "deqClear"
  BY DEF Enqueuing, Over, Searching
<1> QED BY <1>1 DEF Status

(* The invariant when only t moves. *)
LEMMA FoundMoves ==
  ASSUME Inv, NEW t \in Threads, NEW m \in Locals, me' = [me EXCEPT ![t] = m],
         \A s \in Segs : next'[s] # Null => closed'[s],
         Found(m)',
         ASSUME NEW u \in Threads, u # t, NEW x, x = me[u] PROVE Found(x)'
  PROVE  FoundInv'
<1>1. me'[t] = m /\ \A u \in Threads : u # t => me'[u] = me[u]
  BY MeFacts DEF Inv, SegInv
<1>2. ASSUME NEW u \in Threads PROVE Found(me[u])'
  <2>1. CASE u = t
    BY <1>1, <2>1 DEF Found
  <2>2. CASE u # t
    <3>1. PICK x : x = me[u]
      OBVIOUS
    <3>2. Found(x)'
      BY <2>2, <3>1
    <3> QED BY <1>1, <2>2, <3>1, <3>2 DEF Found
  <2> QED BY <2>1, <2>2
<1> QED BY <1>2 DEF FoundInv

LEMMA FoundKept ==
  ASSUME Inv, FoundInv, NEW t \in Threads, NEW m \in Locals,
         me' = [me EXCEPT ![t] = m], head' = head, next' = next,
         queue' = queue, closed' = closed, Found(m)
  PROVE  FoundInv'
<1>1. Found(m)' /\ \A s \in Segs : next'[s] # Null => closed'[s]
  BY DEF Found, FoundInv
<1>2. ASSUME NEW u \in Threads, u # t, NEW x, x = me[u] PROVE Found(x)'
  BY <1>2 DEF Found, FoundInv
<1> QED BY <1>1, <1>2, FoundMoves

(* The locals that are sound whatever the segments are. *)
LEMMA FoundEasy ==
  ASSUME NEW m,
         \/ m.at \in (Enqueuing \cup Over \cup {"deqClear"}) \ {"enqNew", "enqLink"}
         \/ /\ m.at \in {"idle", "deqLoad", "deqPublish", "deqRecheck", "retire"}
            /\ m.item = NoItem
  PROVE  Found(m)
BY DEF Found, HoldHead, Enqueuing, Over

LEMMA LinKept ==
  ASSUME LinInv, head' = head, tail' = tail, next' = next, queue' = queue,
         closed' = closed, me' = me, configs' = configs
  PROVE  LinInv'
<1>1. FoundInv'
  BY DEF LinInv, FoundInv, Found
<1>2. PICK Q : Contains(Q) /\ Explains(Q)
  BY DEF LinInv
<1>3. Contains(Q)'
  BY <1>2, ContainsKept
<1>4. Explains(Q)'
  BY <1>2 DEF Explains, Maybe, Calling, Status
<1> QED BY <1>1, <1>3, <1>4 DEF LinInv

LEMMA LinSilent ==
  ASSUME Inv, LinInv, NEW t \in Threads, NEW m \in Locals,
         me' = [me EXCEPT ![t] = m], head' = head, next' = next,
         queue' = queue, closed' = closed, configs' = configs,
         tail' = tail \/ (tail' = next[tail] /\ next[tail] # Null),
         Found(m), Status(t, m, {}) = Status(t, me[t], {}),
         ~ (m.at = "deqNext" /\ next[m.seg] = Null)
  PROVE  LinInv'
<1>1. FoundInv'
  BY FoundKept DEF LinInv
<1>2. PICK Q : Contains(Q) /\ Explains(Q)
  BY DEF LinInv
<1>3. Contains(Q)'
  BY <1>2, ContainsKept
<1>4. Maybe' \subseteq Maybe /\ t \notin Maybe'
  BY MaybeShrinks
<1>5. Explains(Q)'
  BY <1>2, <1>4, ExplainsSilent
<1> QED BY <1>1, <1>3, <1>5 DEF LinInv

LEMMA EnqSilent ==
  ASSUME Inv, LinInv, NEW t \in Threads, NEW m \in Locals,
         me' = [me EXCEPT ![t] = m], head' = head, next' = next,
         queue' = queue, closed' = closed, configs' = configs,
         tail' = tail \/ (tail' = next[tail] /\ next[tail] # Null),
         me[t].at \in Enqueuing, m.at \in Enqueuing \ {"enqNew", "enqLink"},
         m.item = me[t].item
  PROVE  LinInv'
<1>1. Found(m)
  BY FoundEasy
<1>2. Status(t, m, {}) = Status(t, me[t], {})
  BY StatusFacts
<1>3. m.at # "deqNext"
  BY DEF Enqueuing
<1> QED BY <1>1, <1>2, <1>3, LinSilent

LEMMA DeqSilent ==
  ASSUME Inv, LinInv, NEW t \in Threads, NEW m \in Locals,
         me' = [me EXCEPT ![t] = m], head' = head, next' = next, tail' = tail,
         queue' = queue, closed' = closed, configs' = configs,
         me[t].at \in Searching, m.at \in Searching, Found(m),
         ~ (m.at = "deqNext" /\ next[m.seg] = Null)
  PROVE  LinInv'
<1>1. Status(t, m, {}) = Status(t, me[t], {})
  BY StatusFacts
<1> QED BY <1>1, LinSilent

LEMMA FoundAt ==
  ASSUME LinInv, NEW t \in Threads
  PROVE  /\ Found(me[t])
         /\ me[t].at \in Searching \cup {"idle"} => me[t].item = NoItem
         /\ \A s \in Segs : next[s] # Null => closed[s]
BY DEF LinInv, FoundInv, Found, Searching, Enqueuing, Over

LEMMA LocalsMade ==
  ASSUME NEW m \in Locals, NEW at, NEW seg, NEW other
  PROVE  /\ LET n == [m EXCEPT !.at = at, !.seg = seg] IN
              /\ n.at = at /\ n.seg = seg /\ n.other = m.other /\ n.item = m.item
         /\ LET n == [m EXCEPT !.at = at, !.other = other] IN
              /\ n.at = at /\ n.seg = m.seg /\ n.other = other /\ n.item = m.item
         /\ LET n == [m EXCEPT !.at = at] IN
              /\ n.at = at /\ n.seg = m.seg /\ n.other = m.other /\ n.item = m.item
BY DEF Locals

(* Where t has gone. *)
LEMMA Gone ==
  ASSUME Inv, Inv', NEW t \in Threads, NEW m, me' = [me EXCEPT ![t] = m]
  PROVE  m \in Locals
<1>1. me'[t] = m
  BY DEF Inv, SegInv, Types
<1>2. me'[t] \in Locals
  BY DEF Inv, SegInv, Types
<1> QED BY <1>1, <1>2

LEMMA LinEnqLoad ==
  ASSUME Inv, Inv', LinInv, NEW t \in Threads, EnqLoad(t) PROVE LinInv'
<1>1. PICK m : m = [me[t] EXCEPT !.at = "enqPublish", !.seg = tail]
  OBVIOUS
<1>2. /\ me[t].at = "enqLoad" /\ me' = [me EXCEPT ![t] = m]
      /\ head' = head /\ tail' = tail /\ next' = next /\ queue' = queue
      /\ closed' = closed /\ configs' = configs
  BY <1>1 DEF EnqLoad, Load, Become, history, list
<1>3. m.at = "enqPublish" /\ m.item = me[t].item
  BY <1>1, Mine, LocalsMade
<1> QED BY <1>2, <1>3, Gone, EnqSilent DEF Enqueuing

LEMMA LinEnqRecheck ==
  ASSUME Inv, Inv', LinInv, NEW t \in Threads, EnqRecheck(t) PROVE LinInv'
<1>0. PICK p : p = IF tail = me[t].seg THEN "enqNext" ELSE "enqPublish"
  OBVIOUS
<1>1. PICK m : m = [me[t] EXCEPT !.at = p, !.seg = tail]
  OBVIOUS
<1>2. /\ me[t].at = "enqRecheck" /\ me' = [me EXCEPT ![t] = m]
      /\ head' = head /\ tail' = tail /\ next' = next /\ queue' = queue
      /\ closed' = closed /\ configs' = configs
  BY <1>0, <1>1 DEF EnqRecheck, Recheck, Load, Become, history, list
<1>3. m.at \in {"enqNext", "enqPublish"} /\ m.item = me[t].item
  BY <1>0, <1>1, Mine, LocalsMade
<1> QED BY <1>2, <1>3, Gone, EnqSilent DEF Enqueuing

LEMMA LinEnqNext ==
  ASSUME Inv, Inv', LinInv, NEW t \in Threads, EnqNext(t) PROVE LinInv'
<1>0. PICK p : p = IF next[me[t].seg] = Null THEN "enqSeg" ELSE "enqHelp"
  OBVIOUS
<1>1. PICK m : m = [me[t] EXCEPT !.at = p, !.other = next[me[t].seg]]
  OBVIOUS
<1>2. /\ me[t].at = "enqNext" /\ me' = [me EXCEPT ![t] = m]
      /\ head' = head /\ tail' = tail /\ next' = next /\ queue' = queue
      /\ closed' = closed /\ configs' = configs
  BY <1>0, <1>1 DEF EnqNext, LoadNext, Become, history, list
<1>3. m.at \in {"enqSeg", "enqHelp"} /\ m.item = me[t].item
  BY <1>0, <1>1, Mine, LocalsMade
<1> QED BY <1>2, <1>3, Gone, EnqSilent DEF Enqueuing

(* Tail moves, if it does, to the successor of the segment it was at. *)
LEMMA TailMoved ==
  ASSUME Inv, NEW t \in Threads, CasTail(t), me[t].at \in Advancing
  PROVE  tail' = tail \/ (tail' = next[tail] /\ next[tail] # Null)
BY Mine DEF CasTail, HolderInv, Follows

LEMMA LinEnqHelp ==
  ASSUME Inv, Inv', LinInv, NEW t \in Threads, EnqHelp(t) PROVE LinInv'
<1>0. PICK p : p = IF tail = me[t].seg THEN "enqPublish" ELSE "enqLoad"
  OBVIOUS
<1>1. PICK m : m = [me[t] EXCEPT !.at = p,
                      !.seg = IF tail = me[t].seg THEN me[t].other ELSE Null,
                      !.other = Null]
  OBVIOUS
<1>2. /\ me[t].at = "enqHelp" /\ me' = [me EXCEPT ![t] = m] /\ CasTail(t)
      /\ head' = head /\ next' = next /\ queue' = queue
      /\ closed' = closed /\ configs' = configs
  BY <1>0, <1>1 DEF EnqHelp, Become, history
<1>3. m.at = p /\ m.item = me[t].item
  BY <1>1, Mine DEF Locals
<1>4. p \in {"enqPublish", "enqLoad"}
  BY <1>0
<1>5. tail' = tail \/ (tail' = next[tail] /\ next[tail] # Null)
  BY <1>2, TailMoved DEF Advancing
<1> QED BY <1>2, <1>3, <1>4, <1>5, Gone, EnqSilent DEF Enqueuing

LEMMA LinEnqDelete ==
  ASSUME Inv, Inv', LinInv, NEW t \in Threads, EnqDelete(t) PROVE LinInv'
<1>1. PICK m : m = [me[t] EXCEPT !.at = "enqPublish", !.other = Null]
  OBVIOUS
<1>2. /\ me[t].at = "enqDelete" /\ me' = [me EXCEPT ![t] = m]
      /\ head' = head /\ tail' = tail /\ next' = next /\ queue' = queue
      /\ closed' = closed /\ configs' = configs
  BY <1>1 DEF EnqDelete, Become, history, list
<1>3. m.at = "enqPublish" /\ m.item = me[t].item
  BY <1>1, Mine, LocalsMade
<1> QED BY <1>2, <1>3, Gone, EnqSilent DEF Enqueuing

(* The segment takes the item, or closes. *)
LEMMA LinEnqSeg ==
  ASSUME Inv, Inv', LinInv, NEW t \in Threads, EnqSeg(t) PROVE LinInv'
<1>1. PICK s, v : s = me[t].seg /\ v = me[t].item
  OBVIOUS
<1>2. /\ me[t].at = "enqSeg" /\ head' = head /\ tail' = tail /\ next' = next
      /\ list' = list /\ configs' = configs
  BY DEF EnqSeg, Goto, Become, history, list
<1>3. /\ s \in Segs /\ v \in Items /\ SegInv /\ Contents
      /\ me[t].at \in HoldTail /\ me[t].at \in Enqueuing
  BY <1>1, <1>2, Mine DEF Local, Resting, Enqueuing, HoldTail
<1>4. PICK Q : Contains(Q) /\ Explains(Q)
  BY DEF LinInv
<1>put. CASE /\ ~ closed[s] /\ closed' = closed
             /\ queue' = [queue EXCEPT ![s] = Append(queue[s], v)]
             /\ me' = [me EXCEPT ![t] = [me[t] EXCEPT !.at = "enqClear"]]
  <2>1. PICK m : m = [me[t] EXCEPT !.at = "enqClear"]
    OBVIOUS
  <2>2. m.at = "enqClear" /\ m \in Locals /\ me' = [me EXCEPT ![t] = m]
    <3>1. me' = [me EXCEPT ![t] = m]
      BY <2>1, <1>put
    <3>2. m.at = "enqClear"
      BY <2>1, Mine, LocalsMade
    <3> QED BY <3>1, <3>2, Gone
  <2>3. next[s] = Null
    BY <1>3, <1>put, FoundAt
  <2>4. FoundInv'
    <3>1. Found(m)' /\ \A a \in Segs : next'[a] # Null => closed'[a]
      BY <2>2, <1>2, <1>put, FoundAt DEF Found, HoldHead, Enqueuing, Over
    <3>2. ASSUME NEW u \in Threads, u # t, NEW x, x = me[u] PROVE Found(x)'
      <4>1. Found(x)
        BY <3>2, FoundAt
      <4>2. x.at = "enqLink" => queue'[x.other] = queue[x.other]
        <5>1. ASSUME x.at = "enqLink" PROVE x.other # s
          <6>1. OwnerInv(u)
            BY Mine
          <6>2. ~ Holds(t, x.other)
            BY <3>2, <5>1, <6>1 DEF OwnerInv, Private, Owning
          <6> QED BY <1>1, <1>3, <6>2 DEF Holds, Hold
        <5>2. x.at = "enqLink" => x.other \in Segs
          <6>1. OwnerInv(u)
            BY Mine
          <6> QED BY <3>2, <6>1 DEF OwnerInv, Private, Owning, Live
        <5> QED BY <1>3, <1>put, <5>1, <5>2 DEF Contents
      <4>3. ASSUME x.at \in HoldHead
            PROVE  x.seg = s \/ queue'[x.seg] = queue[x.seg]
        <5>1. x.seg \in Segs
          BY <3>2, <4>3, Mine DEF HolderInv, Hold
        <5> QED BY <1>3, <1>put, <5>1 DEF Contents
      <4>4. x.at = "deqAdvance" => x.seg # s
        <5>1. ASSUME x.at = "deqAdvance" PROVE next[x.seg] # Null
          BY <3>2, <5>1, Mine DEF HolderInv, Follows, Advancing
        <5> QED BY <2>3, <5>1
      <4>5. x.at = "deqAdvance" => x.at \in HoldHead
        BY DEF HoldHead
      <4> QED BY <1>2, <1>put, <2>3, <4>1, <4>2, <4>3, <4>4, <4>5 DEF Found
    <3> QED BY <2>2, <3>1, <3>2, FoundMoves
  <2>5. Contains(Append(Q, v))'
    BY <1>1, <1>2, <1>3, <1>4, <1>put, <2>3, ContainsPut
  <2>6. Maybe' \subseteq Maybe /\ t \notin Maybe'
    BY <1>2, <2>2, MaybeShrinks
  <2>7. /\ Status(t, me[t], {}) = Monitor!EnqCall(v)
        /\ Status(t, m, {}) = Monitor!Done(NoItem)
    BY <1>1, <1>3, <2>2, StatusFacts DEF Over
  <2>8. ASSUME NEW call \in [Threads -> Calls], call[t] = Status(t, me[t], {})
        PROVE  Takes(Conf(Q, call), t,
                     Conf(Append(Q, v), [call EXCEPT ![t] = Status(t, m, {})]))
    <3>1. Conf(Q, call).call = call /\ Conf(Q, call).queue = Q
      BY ConfType
    <3> QED BY <1>3, <2>7, <2>8, <3>1 DEF Takes
  <2>9. Explains(Append(Q, v))'
    BY <1>2, <1>4, <2>2, <2>6, <2>8, ExplainsTakes DEF LinInv, Contains
  <2> QED BY <1>2, <2>4, <2>5, <2>9 DEF LinInv
<1>close. CASE /\ closed' = [closed EXCEPT ![s] = TRUE] /\ queue' = queue
               /\ me' = [me EXCEPT ![t] = [me[t] EXCEPT !.at = "enqNew"]]
  <2>1. PICK m : m = [me[t] EXCEPT !.at = "enqNew"]
    OBVIOUS
  <2>2. /\ m.at = "enqNew" /\ m \in Locals /\ me' = [me EXCEPT ![t] = m]
        /\ m.seg = s /\ m.item = v
    <3>1. me' = [me EXCEPT ![t] = m]
      BY <2>1, <1>close
    <3>2. m.at = "enqNew" /\ m.seg = s /\ m.item = v
      BY <1>1, <2>1, Mine, LocalsMade
    <3> QED BY <3>1, <3>2, Gone
  <2>3. \A a \in Segs : closed[a] => closed'[a]
    BY <1>close, <1>3 DEF Contents
  <2>4. closed'[s]
    BY <1>close, <1>3 DEF Contents
  <2>5. FoundInv'
    <3>1. Found(m)' /\ \A a \in Segs : next'[a] # Null => closed'[a]
      BY <1>2, <2>2, <2>3, <2>4, FoundAt DEF Found, HoldHead, Enqueuing, Over
    <3>2. ASSUME NEW u \in Threads, u # t, NEW x, x = me[u] PROVE Found(x)'
      <4>1. x.at \in {"enqNew", "enqLink"} => x.seg \in Segs
        BY <3>2, Mine DEF Local, Resting
      <4> QED BY <1>2, <1>close, <2>3, <3>2, <4>1, FoundAt DEF Found
    <3> QED BY <2>2, <3>1, <3>2, FoundMoves
  <2>6. Contains(Q)'
    BY <1>2, <1>4, <1>close, ContainsKept
  <2>7. Maybe' \subseteq Maybe /\ t \notin Maybe'
    BY <1>2, <2>2, MaybeShrinks
  <2>8. Status(t, m, {}) = Status(t, me[t], {})
    BY <1>1, <1>3, <2>2, StatusFacts DEF Enqueuing
  <2>9. Explains(Q)'
    BY <1>2, <1>4, <2>2, <2>7, <2>8, ExplainsSilent
  <2> QED BY <1>2, <2>5, <2>6, <2>9 DEF LinInv
<1> QED BY <1>1, <1>put, <1>close DEF EnqSeg, Goto, Become

LEMMA LinEnqNew ==
  ASSUME Inv, Inv', LinInv, NEW t \in Threads, EnqNew(t) PROVE LinInv'
<1>0. PICK s \in Segs :
        /\ Allocate(s) /\ configs' = configs
        /\ queue'  = [queue EXCEPT ![s] = <<me[t].item>>]
        /\ closed' = [closed EXCEPT ![s] = FALSE]
        /\ me' = [me EXCEPT ![t] = [me[t] EXCEPT !.at = "enqLink", !.other = s]]
  BY DEF EnqNew, Become, history
<1>1. PICK m : m = [me[t] EXCEPT !.at = "enqLink", !.other = s]
  OBVIOUS
<1>2. /\ me[t].at = "enqNew" /\ head' = head /\ tail' = tail
      /\ next' = [next EXCEPT ![s] = Null] /\ heap[s] # "used"
  BY <1>0 DEF EnqNew, Allocate, HP!MayAllocate
<1>3. /\ me[t].at \in HoldTail /\ me[t].at \in Enqueuing
      /\ me[t].seg \in Segs /\ heap[me[t].seg] = "used" /\ SegInv /\ Contents
  BY <1>2, Mine DEF HolderInv, Hold, Enqueuing, HoldTail
<1>4. /\ me' = [me EXCEPT ![t] = m] /\ m.at = "enqLink" /\ m.other = s
      /\ m.seg = me[t].seg /\ m.item = me[t].item
  BY <1>0, <1>1, Mine, LocalsMade
<1>5. m \in Locals
  BY <1>4, Gone
<1>6. /\ queue'[s] = <<m.item>> /\ next'[s] = Null
      /\ \A a \in Segs : a # s => /\ queue'[a] = queue[a] /\ next'[a] = next[a]
                                  /\ closed'[a] = closed[a]
  BY <1>0, <1>2, <1>4, Mine DEF Contents
<1>7. PICK Q : Contains(Q) /\ Explains(Q)
  BY DEF LinInv
<1>8. FoundInv'
  <2>1. \A a \in Segs : next'[a] # Null => closed'[a]
    BY <1>6, FoundAt
  <2>2. Found(m)'
    <3>1. closed[me[t].seg]
      BY <1>2, FoundAt DEF Found
    <3>2. closed'[m.seg]
      BY <1>2, <1>3, <1>4, <1>6, <3>1
    <3> QED BY <1>4, <1>6, <3>2 DEF Found, HoldHead, Enqueuing
  <2>3. ASSUME NEW u \in Threads, u # t, NEW x, x = me[u] PROVE Found(x)'
    <3>1. Found(x)
      BY <2>3, FoundAt
    <3>2. x.at \in HoldHead \cup {"enqNew", "enqLink"} => x.seg \in Segs /\ x.seg # s
      BY <1>2, <2>3, Mine DEF HolderInv, Hold, HoldHead, HoldTail
    <3>3. x.at = "enqLink" => x.other \in Segs /\ x.other # s
      BY <1>2, <2>3, Mine DEF OwnerInv, Private, Live, Owning
    <3>4. x.at = "deqAdvance" => x.at \in HoldHead
      BY DEF HoldHead
    <3> QED BY <1>2, <1>6, <3>1, <3>2, <3>3, <3>4 DEF Found
  <2> QED BY <1>4, <1>5, <2>1, <2>2, <2>3, FoundMoves
<1>9. Contains(Q)'
  BY <1>0, <1>2, <1>3, <1>7, ContainsNew
<1>10. Maybe' \subseteq Maybe /\ t \notin Maybe'
  <2>1. ASSUME NEW u \in Threads, me[u].at = "deqNext", next'[me[u].seg] = Null
        PROVE  next[me[u].seg] = Null
    <3>1. me[u].seg \in Segs /\ heap[me[u].seg] = "used"
      BY <2>1, Mine DEF HolderInv, Hold, HoldHead
    <3> QED BY <1>2, <1>6, <2>1, <3>1
  <2> QED BY <1>4, <1>5, <2>1, MaybeShrinks
<1>11. Status(t, m, {}) = Status(t, me[t], {})
  BY <1>3, <1>4, StatusFacts DEF Enqueuing
<1>12. Explains(Q)'
  BY <1>0, <1>4, <1>5, <1>7, <1>10, <1>11, ExplainsSilent
<1> QED BY <1>0, <1>8, <1>9, <1>12 DEF LinInv

(* The enqueue takes effect when its segment is linked. *)
LEMMA LinEnqLink ==
  ASSUME Inv, Inv', LinInv, NEW t \in Threads, EnqLink(t) PROVE LinInv'
<1>1. PICK s, o, v : s = me[t].seg /\ o = me[t].other /\ v = me[t].item
  OBVIOUS
<1>2. /\ me[t].at = "enqLink" /\ head' = head /\ tail' = tail /\ configs' = configs
      /\ queue' = queue /\ closed' = closed
  BY DEF EnqLink, Goto, Become, history
<1>3. /\ s \in Segs /\ v \in Items /\ SegInv /\ Contents
      /\ me[t].at \in Enqueuing
      /\ closed[s] /\ queue[o] = <<v>> /\ o \in Segs
  <2>1. Found(me[t])
    BY FoundAt
  <2>2. o \in Segs
    BY <1>1, <1>2, Mine DEF OwnerInv, Private, Live, Owning
  <2> QED BY <1>1, <1>2, <2>1, <2>2, Mine DEF Found, Local, Resting, Enqueuing
<1>won. CASE /\ next[s] = Null /\ next' = [next EXCEPT ![s] = o]
             /\ me' = [me EXCEPT ![t] = [me[t] EXCEPT !.at = "enqSwing"]]
  <2>1. PICK m : m = [me[t] EXCEPT !.at = "enqSwing"]
    OBVIOUS
  <2>2. /\ m.at = "enqSwing" /\ me' = [me EXCEPT ![t] = m]
    BY <1>won, <2>1, Mine, LocalsMade
  <2>3. m \in Locals
    BY <2>2, Gone
  <2>4. PICK Q : Contains(Q) /\ Explains(Q)
    BY DEF LinInv
  <2>5. next'[s] = o /\ \A a \in Segs : a # s => next'[a] = next[a]
    BY <1>3, <1>won, Mine
  <2>6. o # Null
    BY <1>3, Sizes
  <2>7. FoundInv'
    <3>1. \A a \in Segs : next'[a] # Null => closed'[a]
      BY <1>2, <1>3, <2>5, FoundAt
    <3>2. Found(m)'
      BY <2>2 DEF Found, HoldHead, Enqueuing, Over
    <3>3. ASSUME NEW u \in Threads, u # t, NEW x, x = me[u] PROVE Found(x)'
      <4>1. Found(x)
        BY <3>3, FoundAt
      <4>2. x.at \in HoldHead => x.seg \in Segs
        BY <3>3, Mine DEF HolderInv, Hold
      <4>3. x.at \in HoldHead /\ next[x.seg] # Null => next'[x.seg] # Null
        BY <1>won, <2>5, <4>2
      <4> QED BY <1>2, <4>1, <4>3 DEF Found
    <3> QED BY <2>2, <2>3, <3>1, <3>2, <3>3, FoundMoves
  <2>8. Contains(Append(Q, v))'
    BY <1>1, <1>2, <1>3, <1>won, <2>4, ContainsLink
  <2>9. Maybe' \subseteq Maybe /\ t \notin Maybe'
    <3>1. ASSUME NEW u \in Threads, me[u].at = "deqNext", next'[me[u].seg] = Null
          PROVE  next[me[u].seg] = Null
      <4>1. me[u].seg \in Segs
        BY <3>1, Mine DEF HolderInv, Hold, HoldHead
      <4> QED BY <2>5, <2>6, <3>1, <4>1
    <3> QED BY <2>2, <2>3, <3>1, MaybeShrinks
  <2>10. /\ Status(t, me[t], {}) = Monitor!EnqCall(v)
         /\ Status(t, m, {}) = Monitor!Done(NoItem)
    BY <1>1, <1>3, <2>2, StatusFacts DEF Over
  <2>11. ASSUME NEW call \in [Threads -> Calls], call[t] = Status(t, me[t], {})
         PROVE  Takes(Conf(Q, call), t,
                      Conf(Append(Q, v), [call EXCEPT ![t] = Status(t, m, {})]))
    <3>1. Conf(Q, call).call = call /\ Conf(Q, call).queue = Q
      BY ConfType
    <3> QED BY <1>3, <2>10, <2>11, <3>1 DEF Takes
  <2>12. Explains(Append(Q, v))'
    BY <1>2, <2>2, <2>3, <2>4, <2>9, <2>11, ExplainsTakes DEF LinInv, Contains
  <2> QED BY <1>2, <2>7, <2>8, <2>12 DEF LinInv
<1>lost. CASE /\ next' = next
              /\ me' = [me EXCEPT ![t] =
                          [me[t] EXCEPT !.at = "enqDelete", !.seg = Winner(t)]]
  <2>1. PICK m : m = [me[t] EXCEPT !.at = "enqDelete", !.seg = Winner(t)]
    OBVIOUS
  <2>2. /\ m.at = "enqDelete" /\ m.item = me[t].item /\ me' = [me EXCEPT ![t] = m]
    BY <1>lost, <2>1, Mine, LocalsMade
  <2> QED BY <1>2, <1>lost, <2>2, Gone, EnqSilent DEF Enqueuing
<1> QED BY <1>1, <1>won, <1>lost DEF EnqLink, Goto, Become

----------------------------------------------------------------------------
(* dequeue *)

LEMMA LinDeqLoad ==
  ASSUME Inv, Inv', LinInv, NEW t \in Threads, DeqLoad(t) PROVE LinInv'
<1>1. PICK m : m = [me[t] EXCEPT !.at = "deqPublish", !.seg = head]
  OBVIOUS
<1>2. /\ me[t].at = "deqLoad" /\ me' = [me EXCEPT ![t] = m]
      /\ head' = head /\ tail' = tail /\ next' = next /\ queue' = queue
      /\ closed' = closed /\ configs' = configs
  BY <1>1 DEF DeqLoad, Load, Become, history, list
<1>3. m.at = "deqPublish" /\ m.item = NoItem
  BY <1>1, <1>2, Mine, LocalsMade, FoundAt DEF Searching
<1>4. Found(m)
  BY <1>3, FoundEasy
<1> QED BY <1>2, <1>3, <1>4, Gone, DeqSilent DEF Searching

LEMMA LinDeqRecheck ==
  ASSUME Inv, Inv', LinInv, NEW t \in Threads, DeqRecheck(t) PROVE LinInv'
<1>0. PICK p : p = IF head = me[t].seg THEN "deqSeg" ELSE "deqPublish"
  OBVIOUS
<1>1. PICK m : m = [me[t] EXCEPT !.at = p, !.seg = head]
  OBVIOUS
<1>2. /\ me[t].at = "deqRecheck" /\ me' = [me EXCEPT ![t] = m]
      /\ head' = head /\ tail' = tail /\ next' = next /\ queue' = queue
      /\ closed' = closed /\ configs' = configs
  BY <1>0, <1>1 DEF DeqRecheck, Recheck, Load, Become, history, list
<1>3. m.at \in {"deqSeg", "deqPublish"} /\ m.seg = head /\ m.item = NoItem
  BY <1>0, <1>1, <1>2, Mine, LocalsMade, FoundAt DEF Searching
<1>4. Found(m)
  BY <1>3 DEF Found, HoldHead
<1> QED BY <1>2, <1>3, <1>4, Gone, DeqSilent DEF Searching

(* The dequeue takes effect when its segment, the first, gives an item. *)
LEMMA LinTake ==
  ASSUME Inv, Inv', LinInv, NEW t \in Threads,
         me[t].at \in {"deqSeg", "deqAgain"},
         queue[me[t].seg] # <<>>,
         queue' = [queue EXCEPT ![me[t].seg] = Tail(queue[me[t].seg])],
         me' = [me EXCEPT ![t] = [me[t] EXCEPT !.at = "deqClear",
                                               !.item = Head(queue[me[t].seg])]],
         list' = list, closed' = closed, configs' = configs
  PROVE  LinInv'
<1>1. PICK s, m : /\ s = me[t].seg
                  /\ m = [me[t] EXCEPT !.at = "deqClear", !.item = Head(queue[s])]
  OBVIOUS
<1>2. /\ m.at = "deqClear" /\ m.item = Head(queue[s])
      /\ me' = [me EXCEPT ![t] = m]
  <2>1. me[t] \in Locals
    BY Mine
  <2> QED BY <1>1, <2>1 DEF Locals
<1>3. m \in Locals
  BY <1>2, Gone
<1>4. head' = head /\ tail' = tail /\ next' = next /\ SegInv /\ Contents
      /\ head \in Segs
  BY Mine DEF list
<1>5. s = head
  <2>1. Found(me[t])
    BY FoundAt
  <2> QED BY <1>1, <2>1 DEF Found, HoldHead
<1>6. PICK Q : Contains(Q) /\ Explains(Q)
  BY DEF LinInv
<1>7. Q \in Seq(Items) /\ Q # <<>> /\ Head(Q) = Head(queue[s])
  BY <1>1, <1>4, <1>5, <1>6, ContainsFirst DEF Contains
<1>8. FoundInv'
  <2>1. Found(m)' /\ \A a \in Segs : next'[a] # Null => closed'[a]
    BY <1>2, <1>4, FoundAt DEF Found, HoldHead, Enqueuing, Over
  <2>2. \A a \in Segs : a # s => queue'[a] = queue[a]
    BY <1>1, <1>4, <1>5 DEF Contents
  <2>3. ASSUME NEW u \in Threads, u # t, NEW x, x = me[u] PROVE Found(x)'
    <3>1. Found(x)
      BY <2>3, FoundAt
    <3>2. x.at \in HoldHead => x.seg \in Segs
      BY <2>3, Mine DEF HolderInv, Hold
    <3>3. x.at = "enqLink" => x.other \in Segs /\ x.other # s
      BY <1>5, <2>3, Mine DEF OwnerInv, Private, Live, Owning
    <3>4. x.at \in HoldHead /\ queue[x.seg] = <<>> => queue'[x.seg] = <<>>
      BY <1>1, <2>2, <3>2
    <3>5. x.at = "deqAdvance" => x.at \in HoldHead
      BY DEF HoldHead
    <3> QED BY <1>4, <2>2, <3>1, <3>3, <3>4, <3>5 DEF Found
  <2> QED BY <1>2, <1>3, <2>1, <2>3, FoundMoves
<1>9. Contains(Tail(Q))'
  BY <1>1, <1>4, <1>5, <1>6, ContainsTake
<1>10. Maybe' \subseteq Maybe /\ t \notin Maybe'
  BY <1>2, <1>3, <1>4, MaybeShrinks
<1>11. /\ Status(t, me[t], {}) = Monitor!DeqCall
       /\ Status(t, m, {}) = Monitor!Done(Head(Q))
  BY <1>2, <1>7, StatusFacts DEF Searching
<1>12. ASSUME NEW call \in [Threads -> Calls], call[t] = Status(t, me[t], {})
       PROVE  Takes(Conf(Q, call), t,
                    Conf(Tail(Q), [call EXCEPT ![t] = Status(t, m, {})]))
  <2>1. Conf(Q, call).call = call /\ Conf(Q, call).queue = Q
    BY ConfType
  <2> QED BY <1>7, <1>11, <1>12, <2>1 DEF Takes
<1>13. Explains(Tail(Q))'
  BY <1>2, <1>3, <1>6, <1>7, <1>10, <1>12, ExplainsTakes DEF LinInv
<1> QED BY <1>8, <1>9, <1>13 DEF LinInv

(* The first segment is empty; if no other follows it, so is the queue. *)
LEMMA LinDeqSeg ==
  ASSUME Inv, Inv', LinInv, NEW t \in Threads, DeqSeg(t) PROVE LinInv'
<1>1. /\ me[t].at = "deqSeg" /\ list' = list /\ closed' = closed
      /\ configs' = configs
  BY DEF DeqSeg, DequeueSegment, Become, Goto, history
<1>2. CASE queue[me[t].seg] # <<>>
  BY <1>1, <1>2, LinTake DEF DeqSeg, DequeueSegment, Become
<1>3. CASE queue[me[t].seg] = <<>>
  <2>1. PICK m : m = [me[t] EXCEPT !.at = "deqNext"]
    OBVIOUS
  <2>2. me' = [me EXCEPT ![t] = m] /\ queue' = queue
    BY <1>3, <2>1 DEF DeqSeg, DequeueSegment, Goto, Become
  <2>3. m.at = "deqNext" /\ m.seg = me[t].seg /\ m.item = NoItem
    BY <1>1, <2>1, Mine, LocalsMade, FoundAt DEF Searching
  <2>4. m \in Locals
    BY <2>2, Gone
  <2>5. head' = head /\ tail' = tail /\ next' = next
    BY <1>1 DEF list
  <2>6. Found(m)
    <3>1. Found(me[t])
      BY FoundAt
    <3> QED BY <1>1, <2>3, <3>1 DEF Found, HoldHead
  <2>7. CASE next[m.seg] # Null
    BY <1>1, <2>2, <2>3, <2>4, <2>5, <2>6, <2>7, DeqSilent DEF Searching
  <2>8. CASE next[m.seg] = Null
    <3>1. m.seg = head
      BY <2>3, <2>6, <2>8 DEF Found, HoldHead
    <3>2. PICK Q : Contains(Q) /\ Explains(Q)
      BY DEF LinInv
    <3>3. Q = <<>>
      BY <1>3, <2>3, <2>8, <3>1, <3>2, Mine, ContainsFirst
    <3>4. FoundInv'
      BY <1>1, <2>2, <2>4, <2>5, <2>6, FoundKept DEF LinInv
    <3>5. Contains(<<>>)'
      BY <2>2, <2>5, <3>2, <3>3, ContainsKept
    <3>6. Maybe' \subseteq Maybe \cup {t} /\ t \notin Maybe
      <4>1. \A u \in Threads : u # t => me'[u] = me[u]
        BY <2>2, <2>4, MeFacts DEF Inv, SegInv
      <4> QED BY <1>1, <2>5, <4>1 DEF Maybe
    <3>7. /\ Status(t, me[t], {}) = Monitor!DeqCall
          /\ Status(t, m, {}) = Monitor!DeqCall
          /\ Status(t, m, {t}) = Monitor!Done(NoItem)
      BY <1>1, <2>3, StatusFacts DEF Searching
    <3>8. Explains(<<>>)'
      BY <1>1, <2>2, <2>4, <3>2, <3>3, <3>6, <3>7, ExplainsEmpty DEF LinInv
    <3> QED BY <1>1, <3>4, <3>5, <3>8 DEF LinInv
  <2> QED BY <2>7, <2>8
<1> QED BY <1>2, <1>3

(* There still is no other: the queue was empty when the segment was. *)
LEMMA LinDeqNext ==
  ASSUME Inv, Inv', LinInv, NEW t \in Threads, DeqNext(t) PROVE LinInv'
<1>0. PICK p : p = IF next[me[t].seg] = Null THEN "deqClear" ELSE "deqAgain"
  OBVIOUS
<1>1. PICK m : m = [me[t] EXCEPT !.at = p, !.other = next[me[t].seg]]
  OBVIOUS
<1>2. /\ me[t].at = "deqNext" /\ me' = [me EXCEPT ![t] = m]
      /\ head' = head /\ tail' = tail /\ next' = next /\ queue' = queue
      /\ closed' = closed /\ configs' = configs
  BY <1>0, <1>1 DEF DeqNext, LoadNext, Become, history, list
<1>3. m.at = p /\ m.seg = me[t].seg /\ m.item = NoItem
  BY <1>1, <1>2, Mine, LocalsMade, FoundAt DEF Searching
<1>4. m \in Locals
  BY <1>2, Gone
<1>5. CASE next[me[t].seg] # Null
  <2>1. m.at = "deqAgain"
    BY <1>0, <1>3, <1>5
  <2>2. Found(m)
    <3>1. Found(me[t])
      BY FoundAt
    <3> QED BY <1>2, <1>3, <2>1, <3>1 DEF Found, HoldHead
  <2> QED BY <1>2, <1>4, <2>1, <2>2, DeqSilent DEF Searching
<1>6. CASE next[me[t].seg] = Null
  <2>1. m.at = "deqClear"
    BY <1>0, <1>3, <1>6
  <2>2. Found(m)
    BY <2>1, FoundEasy
  <2>3. FoundInv'
    BY <1>2, <1>4, <2>2, FoundKept DEF LinInv
  <2>4. PICK Q : Contains(Q) /\ Explains(Q)
    BY DEF LinInv
  <2>5. Contains(Q)'
    BY <1>2, <2>4, ContainsKept
  <2>6. Maybe' \subseteq Maybe /\ t \notin Maybe' /\ t \in Maybe
    BY <1>2, <1>4, <1>6, <2>1, MaybeShrinks DEF Maybe
  <2>7. Status(t, m, {}) = Status(t, me[t], {t})
    BY <1>2, <1>3, <2>1, StatusFacts DEF Searching
  <2>8. Explains(Q)'
    BY <1>2, <1>4, <2>4, <2>6, <2>7, ExplainsEarly
  <2> QED BY <1>2, <2>3, <2>5, <2>8 DEF LinInv
<1> QED BY <1>5, <1>6

LEMMA LinDeqAgain ==
  ASSUME Inv, Inv', LinInv, NEW t \in Threads, DeqAgain(t) PROVE LinInv'
<1>1. /\ me[t].at = "deqAgain" /\ list' = list /\ closed' = closed
      /\ configs' = configs
  BY DEF DeqAgain, DequeueSegment, Become, Goto, history
<1>2. CASE queue[me[t].seg] # <<>>
  BY <1>1, <1>2, LinTake DEF DeqAgain, DequeueSegment, Become
<1>3. CASE queue[me[t].seg] = <<>>
  <2>1. PICK m : m = [me[t] EXCEPT !.at = "deqAdvance"]
    OBVIOUS
  <2>2. me' = [me EXCEPT ![t] = m] /\ queue' = queue
    BY <1>3, <2>1 DEF DeqAgain, DequeueSegment, Goto, Become
  <2>3. m.at = "deqAdvance" /\ m.seg = me[t].seg /\ m.item = NoItem
    BY <1>1, <2>1, Mine, LocalsMade, FoundAt DEF Searching
  <2>4. Found(m)
    <3>1. Found(me[t])
      BY FoundAt
    <3> QED BY <1>1, <1>3, <2>3, <3>1 DEF Found, HoldHead
  <2> QED BY <1>1, <2>2, <2>3, <2>4, Gone, DeqSilent DEF Searching, list
<1> QED BY <1>2, <1>3

LEMMA LinDeqAdvance ==
  ASSUME Inv, Inv', LinInv, NEW t \in Threads, DeqAdvance(t) PROVE LinInv'
<1>1. /\ me[t].at = "deqAdvance" /\ tail' = tail /\ next' = next
      /\ queue' = queue /\ closed' = closed /\ configs' = configs
  BY DEF DeqAdvance, Become, history
<1>2. /\ head \in Segs /\ SegInv /\ Contents /\ Fresh \in Locals
      /\ me[t].other = next[me[t].seg] /\ me[t].other # Null
      /\ Fresh.item = NoItem
  BY <1>1, Mine, FreshLocals DEF HolderInv, Follows, Advancing, Fresh
<1>won. CASE CasHead(t) /\ Become(t, [Fresh EXCEPT !.at = "retire", !.seg = head'])
  <2>1. PICK o : o = me[t].other
    OBVIOUS
  <2>2. PICK m : m = [Fresh EXCEPT !.at = "retire", !.seg = o]
    OBVIOUS
  <2>3. /\ head = me[t].seg /\ head' = o /\ o = next[head] /\ o # Null
        /\ me' = [me EXCEPT ![t] = m]
    BY <1>won, <1>2, <2>1, <2>2 DEF CasHead, Become
  <2>4. m.at = "retire" /\ m.item = NoItem
    BY <1>2, <2>2, LocalsMade
  <2>5. m \in Locals
    BY <2>3, Gone
  <2>6. queue[head] = <<>>
    <3>1. Found(me[t])
      BY FoundAt
    <3> QED BY <1>1, <2>3, <3>1 DEF Found
  <2>7. FoundInv'
    <3>1. Found(m)' /\ \A a \in Segs : next'[a] # Null => closed'[a]
      BY <1>1, <2>4, FoundAt DEF Found, HoldHead, Enqueuing, Over
    <3>2. ASSUME NEW u \in Threads, u # t, NEW x, x = me[u] PROVE Found(x)'
      <4>1. Found(x)
        BY <3>2, FoundAt
      <4> QED BY <1>1, <2>3, <2>6, <4>1 DEF Found
    <3> QED BY <2>3, <2>5, <3>1, <3>2, FoundMoves
  <2>8. PICK Q : Contains(Q) /\ Explains(Q)
    BY DEF LinInv
  <2>9. Contains(Q)'
    BY <1>1, <1>2, <2>3, <2>6, <2>8, ContainsAdvance
  <2>10. Maybe' \subseteq Maybe /\ t \notin Maybe'
    BY <1>1, <2>3, <2>4, <2>5, MaybeShrinks
  <2>11. Status(t, m, {}) = Status(t, me[t], {})
    BY <1>1, <2>4, StatusFacts DEF Searching
  <2>12. Explains(Q)'
    BY <1>1, <2>3, <2>5, <2>8, <2>10, <2>11, ExplainsSilent
  <2> QED BY <1>1, <2>7, <2>9, <2>12 DEF LinInv
<1>lost. CASE /\ head' = head
              /\ Become(t, [Fresh EXCEPT !.at = "deqPublish", !.seg = head'])
  <2>1. PICK m : m = [Fresh EXCEPT !.at = "deqPublish", !.seg = head]
    OBVIOUS
  <2>2. me' = [me EXCEPT ![t] = m]
    BY <1>lost, <2>1 DEF Become
  <2>3. m.at = "deqPublish" /\ m.item = NoItem
    BY <1>2, <2>1, LocalsMade
  <2>4. Found(m)
    BY <2>3, FoundEasy
  <2> QED BY <1>1, <1>lost, <2>2, <2>3, <2>4, Gone, DeqSilent DEF Searching
<1> QED BY <1>won, <1>lost DEF DeqAdvance

----------------------------------------------------------------------------
(* The steps that leave the segments alone, and the calls. *)

LEMMA LinReturn ==
  ASSUME Inv, Inv', LinInv, NEW t \in Threads, NEW here, NEW k,
         NEW r \in Items \cup {NoItem}, ClearAndReturn(t, here, k, r),
         queue' = queue, closed' = closed,
         Status(t, me[t], {}) = Monitor!Done(r)
  PROVE  LinInv'
<1>1. /\ me' = [me EXCEPT ![t] = Fresh] /\ head' = head /\ tail' = tail
      /\ next' = next /\ configs' = Monitor!Returned(configs, t, r)
  BY DEF ClearAndReturn, list
<1>2. Fresh.at = "idle" /\ Fresh.item = NoItem /\ Fresh \in Locals
  BY FreshLocals DEF Fresh
<1>3. Found(Fresh)
  BY <1>2, FoundEasy
<1>4. FoundInv'
  BY <1>1, <1>2, <1>3, FoundKept DEF LinInv
<1>5. PICK Q : Contains(Q) /\ Explains(Q)
  BY DEF LinInv
<1>6. Contains(Q)'
  BY <1>1, <1>5, ContainsKept
<1>7. Maybe' \subseteq Maybe /\ t \notin Maybe'
  BY <1>1, <1>2, MaybeShrinks
<1>8. Status(t, Fresh, {}) = Monitor!NoCall
  BY <1>2, StatusFacts
<1>9. Explains(Q)' /\ configs' \subseteq Confs
  BY <1>1, <1>2, <1>5, <1>7, <1>8, ExplainsReturn DEF LinInv
<1> QED BY <1>4, <1>6, <1>9 DEF LinInv

LEMMA LinListSteps ==
  ASSUME Inv, Inv', LinInv, NEW t \in Threads, ListStep(t) PROVE LinInv'
<1>0. queue' = queue /\ closed' = closed
  BY DEF ListStep
<1>1. CASE Publish(t, "enqPublish", "enqRecheck", kHpTail)
  <2>1. PICK m : m = [me[t] EXCEPT !.at = "enqRecheck"]
    OBVIOUS
  <2>2. /\ me[t].at = "enqPublish" /\ me' = [me EXCEPT ![t] = m]
        /\ head' = head /\ tail' = tail /\ next' = next /\ configs' = configs
    BY <1>1, <2>1 DEF Publish, Goto, Become, history, list
  <2>3. m.at = "enqRecheck" /\ m.item = me[t].item
    BY <2>1, Mine, LocalsMade
  <2> QED BY <1>0, <2>2, <2>3, Gone, EnqSilent DEF Enqueuing
<1>2. CASE EnqSwing(t)
  <2>1. PICK m : m = [me[t] EXCEPT !.at = "enqClear"]
    OBVIOUS
  <2>2. /\ me[t].at = "enqSwing" /\ me' = [me EXCEPT ![t] = m] /\ CasTail(t)
        /\ head' = head /\ next' = next /\ configs' = configs
    BY <1>2, <2>1 DEF EnqSwing, Goto, Become, history
  <2>3. m.at = "enqClear"
    BY <2>1, Mine, LocalsMade
  <2>4. Found(m)
    BY <2>3, FoundEasy DEF Over
  <2>5. Status(t, m, {}) = Status(t, me[t], {})
    BY <2>2, <2>3, StatusFacts DEF Over
  <2>6. tail' = tail \/ (tail' = next[tail] /\ next[tail] # Null)
    BY <2>2, TailMoved DEF Advancing
  <2> QED BY <1>0, <2>2, <2>3, <2>4, <2>5, <2>6, Gone, LinSilent
<1>3. CASE EnqClear(t)
  <2>1. me[t].at = "enqClear"
    BY <1>3 DEF EnqClear, ClearAndReturn
  <2>2. Status(t, me[t], {}) = Monitor!Done(NoItem)
    BY <2>1, StatusFacts DEF Over
  <2> QED BY <1>0, <1>3, <2>2, LinReturn DEF EnqClear
<1>4. CASE Publish(t, "deqPublish", "deqRecheck", kHpHead)
  <2>1. PICK m : m = [me[t] EXCEPT !.at = "deqRecheck"]
    OBVIOUS
  <2>2. /\ me[t].at = "deqPublish" /\ me' = [me EXCEPT ![t] = m]
        /\ head' = head /\ tail' = tail /\ next' = next /\ configs' = configs
    BY <1>4, <2>1 DEF Publish, Goto, Become, history, list
  <2>3. m.at = "deqRecheck" /\ m.item = NoItem
    BY <2>1, <2>2, Mine, LocalsMade, FoundAt DEF Searching
  <2>4. Found(m)
    BY <2>3, FoundEasy
  <2> QED BY <1>0, <2>2, <2>3, <2>4, Gone, DeqSilent DEF Searching
<1>5. CASE RetireStep(t)
  BY <1>0, <1>5, LinKept DEF RetireStep, history, list
<1>6. CASE RetireReturn(t, "deqPublish")
  <2>1. PICK m : m = [me[t] EXCEPT !.at = "deqPublish"]
    OBVIOUS
  <2>2. /\ me[t].at = "retire" /\ me' = [me EXCEPT ![t] = m]
        /\ head' = head /\ tail' = tail /\ next' = next /\ configs' = configs
    BY <1>6, <2>1 DEF RetireReturn, Goto, Become, history, list
  <2>3. m.at = "deqPublish" /\ m.item = NoItem
    BY <2>1, <2>2, Mine, LocalsMade, FoundAt DEF Searching
  <2>4. Found(m)
    BY <2>3, FoundEasy
  <2> QED BY <1>0, <2>2, <2>3, <2>4, Gone, DeqSilent DEF Searching
<1>7. CASE DeqClear(t)
  <2>1. PICK r : r = me[t].item
    OBVIOUS
  <2>2. me[t].at = "deqClear" /\ ClearAndReturn(t, "deqClear", kHpHead, r)
    BY <1>7, <2>1 DEF DeqClear, ClearAndReturn
  <2>3. r \in Items \cup {NoItem}
    BY <2>1, Mine DEF Locals
  <2>4. Status(t, me[t], {}) = Monitor!Done(r)
    BY <2>1, <2>2, StatusFacts
  <2> QED BY <1>0, <2>2, <2>3, <2>4, LinReturn
<1> QED BY <1>1, <1>2, <1>3, <1>4, <1>5, <1>6, <1>7 DEF ListStep

LEMMA LinCalled ==
  ASSUME Inv, LinInv, NEW t \in Threads, NEW m \in Locals, NEW x \in Calls,
         me[t].at = "idle", me' = [me EXCEPT ![t] = m],
         m.at \in {"enqLoad", "deqLoad"}, Found(m),
         configs' = Monitor!Called(configs, t, x), x.stage # "done",
         Status(t, m, {}) = x,
         head' = head, tail' = tail, next' = next, queue' = queue, closed' = closed
  PROVE  LinInv'
<1>1. FoundInv'
  BY FoundKept DEF LinInv
<1>2. PICK Q : Contains(Q) /\ Explains(Q)
  BY DEF LinInv
<1>3. Contains(Q)'
  BY <1>2, ContainsKept
<1>4. Maybe' \subseteq Maybe /\ t \notin Maybe'
  BY MaybeShrinks
<1>5. Status(t, me[t], {}) = Monitor!NoCall
  BY StatusFacts
<1>6. Explains(Q)' /\ configs' \subseteq Confs
  BY <1>2, <1>4, <1>5, ExplainsCall DEF LinInv
<1> QED BY <1>1, <1>3, <1>6 DEF LinInv

LEMMA LinCall ==
  ASSUME Inv, Inv', LinInv, Call, UNCHANGED <<queue, closed>> PROVE LinInv'
<1>1. ASSUME NEW t \in Enqueuers, CallEnqueue(t) PROVE LinInv'
  <2>1. t \in Threads
    BY SegmentListAssumption DEF Threads
  <2>2. PICK m, v : /\ v = issued + 1
                    /\ m = [me[t] EXCEPT !.at = "enqLoad", !.item = v]
    OBVIOUS
  <2>3. /\ me[t].at = "idle" /\ me' = [me EXCEPT ![t] = m]
        /\ configs' = Monitor!Called(configs, t, Monitor!EnqCall(v))
        /\ head' = head /\ tail' = tail /\ next' = next
    BY <1>1, <2>2 DEF CallEnqueue, list
  <2>4. m \in Locals
    BY <2>1, <2>3, Gone
  <2>5. m.at = "enqLoad" /\ m.item = v
    BY <2>1, <2>2, Mine DEF Locals
  <2>6. v \in Items
    <3>1. m.at \in Enqueuing
      BY <2>5 DEF Enqueuing
    <3>2. me'[t] = m
      BY <2>1, <2>3, <2>4, MeFacts DEF Inv, SegInv
    <3>3. Local(m)
      BY <2>1, <3>2 DEF Inv
    <3> QED BY <2>5, <3>1, <3>3 DEF Local
  <2>7. Found(m)
    BY <2>5, FoundEasy DEF Enqueuing
  <2>8. /\ Monitor!EnqCall(v) \in Calls /\ Monitor!EnqCall(v).stage # "done"
        /\ Status(t, m, {}) = Monitor!EnqCall(v)
    BY <2>5, <2>6, CallType, StatusFacts DEF Enqueuing
  <2> QED BY <2>1, <2>3, <2>4, <2>5, <2>7, <2>8, LinCalled
<1>2. ASSUME NEW t \in Dequeuers, CallDequeue(t) PROVE LinInv'
  <2>1. t \in Threads
    BY SegmentListAssumption DEF Threads
  <2>2. PICK m : m = [me[t] EXCEPT !.at = "deqLoad"]
    OBVIOUS
  <2>3. /\ me[t].at = "idle" /\ me' = [me EXCEPT ![t] = m]
        /\ configs' = Monitor!Called(configs, t, Monitor!DeqCall)
        /\ head' = head /\ tail' = tail /\ next' = next
    BY <1>2, <2>2 DEF CallDequeue, list
  <2>4. m \in Locals
    BY <2>1, <2>3, Gone
  <2>5. m.at = "deqLoad" /\ m.item = NoItem
    BY <2>1, <2>2, <2>3, Mine, LocalsMade, FoundAt
  <2>7. Found(m)
    BY <2>5, FoundEasy
  <2>8. /\ Monitor!DeqCall \in Calls /\ Monitor!DeqCall.stage # "done"
        /\ Status(t, m, {}) = Monitor!DeqCall
    BY <2>5, CallType, StatusFacts DEF Searching
  <2> QED BY <2>1, <2>3, <2>4, <2>5, <2>7, <2>8, LinCalled
<1> QED BY <1>1, <1>2 DEF Call

LEMMA LinStarts == Init /\ Inv => LinInv
<1> SUFFICES ASSUME Init, Inv PROVE LinInv
  OBVIOUS
<1>1. /\ head = 0 /\ tail = 0 /\ next = [s \in Segs |-> Null]
      /\ queue = [s \in Segs |-> <<>>]
      /\ me = [t \in Threads |-> Fresh] /\ configs = Monitor!InitialConfigs
  BY DEF Init, InitList
<1>2. \A t \in Threads : me[t].at = "idle" /\ me[t].item = NoItem
  BY <1>1 DEF Fresh
<1>3. FoundInv
  <2>1. \A t \in Threads : Found(me[t])
    BY <1>2, FoundEasy
  <2> QED BY <1>1, <2>1 DEF FoundInv
<1>4. Contains(<<>>)
  <2>1. Chain(<<0>>)
    BY <1>1, Sizes DEF Chain
  <2>2. Lays(<<0>>, [i \in 1 .. 1 |-> 0], <<>>)
    BY <1>1, Sizes DEF Lays
  <2> QED BY <2>1, <2>2 DEF Contains
<1>5. Maybe = {}
  BY <1>2 DEF Maybe
<1>6. Calling({}) = [t \in Threads |-> Monitor!NoCall]
  BY <1>2 DEF Calling, Status
<1>7. configs = {Conf(<<>>, Calling({}))}
  BY <1>1, <1>6 DEF Monitor!InitialConfigs, Conf
<1>8. configs \subseteq Confs
  <2>1. <<>> \in Seq(Items) /\ Calling({}) \in [Threads -> Calls]
    BY CallingType
  <2>2. Conf(<<>>, Calling({})) \in Confs
    BY <2>1, ConfType
  <2> QED BY <1>7, <2>2
<1>9. Reaches(configs, Conf(<<>>, Calling({})))
  BY <1>7, <1>8, ReachesStart
<1>10. Explains(<<>>)
  BY <1>5, <1>9 DEF Explains
<1> QED BY <1>3, <1>4, <1>8, <1>10 DEF LinInv

LEMMA LinPreserved == Inv /\ Inv' /\ LinInv /\ [Next]_vars => LinInv'
<1> SUFFICES ASSUME Inv, Inv', LinInv, [Next]_vars PROVE LinInv'
  OBVIOUS
<1>1. CASE UNCHANGED vars
  BY <1>1, LinKept DEF vars, history, list
<1>2. CASE Call /\ UNCHANGED <<queue, closed>>
  BY <1>2, LinCall
<1>3. ASSUME NEW t \in Threads, Step(t) PROVE LinInv'
  BY <1>3, LinListSteps, LinEnqLoad, LinEnqRecheck, LinEnqNext, LinEnqHelp,
     LinEnqSeg, LinEnqNew, LinEnqLink, LinEnqDelete, LinDeqLoad, LinDeqRecheck,
     LinDeqSeg, LinDeqNext, LinDeqAgain, LinDeqAdvance
  DEF Step
<1> QED BY <1>1, <1>2, <1>3 DEF Next

(* The invariant of the linearizability of LinkedRingQueue::enqueue and     *)
(* dequeue is kept: the contents of the segments from head on, one after   *)
(* the other, account for every call.                                      *)
THEOREM LinAlways == Spec => []LinInv
BY InvAlways, InvStarts, LinStarts, LinPreserved, PTL DEF Spec

(* Whatever the interleaving of LinkedRingQueue::enqueue and dequeue, no   *)
(* item is lost, returned twice or overtaken by one enqueued after it, not *)
(* even where a segment is closed and the next one is linked, and dequeue  *)
(* returns nullptr only if the queue was empty during the call.            *)
THEOREM AlwaysLinearizable == Spec => []Linearizable
<1>1. LinInv => Linearizable
  <2> SUFFICES ASSUME LinInv PROVE Linearizable
    OBVIOUS
  <2>1. PICK Q : Explains(Q)
    BY DEF LinInv
  <2>2. {} \in SUBSET Maybe
    OBVIOUS
  <2>3. Reaches(configs, Conf(Q, Calling({})))
    BY <2>1, <2>2 DEF Explains
  <2> QED BY <2>3, ReachesSome DEF Linearizable
<1> QED BY <1>1, LinAlways, PTL
=============================================================================
