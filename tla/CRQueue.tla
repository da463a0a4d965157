------------------------------ MODULE CRQueue ------------------------------
(***************************************************************************)
(* CRQueue (include/LCRQueue.hpp), the segment of LCRQueue.  Value and     *)
(* index of a cell change together, by a double-word CAS (CAS2 of          *)
(* include/x86AtomicOps.hpp), so no cell is ever claimed without an item.  *)
(* An item's index is its own ticket, not, as in PRQueue, that of the next *)
(* turn.                                                                   *)
(***************************************************************************)
EXTENDS RingSegment

(* CAS2 of cell k from <<v, i>> to <<w, j>>, if it succeeds. *)
CAS2(k, v, i, w, j) ==
  /\ val[k] = v
  /\ idx[k] = i
  /\ val' = [val EXCEPT ![k] = w]
  /\ idx' = [idx EXCEPT ![k] = j]

CAS2Fails(k, v, i) == (val[k] # v \/ idx[k] # i) /\ UNCHANGED <<val, idx>>

----------------------------------------------------------------------------
(* enqueue *)

CUsable(t) == val[Cell(t)] = Nil /\ me[t].cidx.n <= me[t].ticket

CEnqReadVal(t) ==
  /\ At(t, "enqVal")
  /\ \/ /\ CUsable(t)
        /\ Goto(t, IF me[t].cidx.top THEN "enqUnsafe" ELSE "enqPut")
     \/ ~ CUsable(t) /\ Leave(t, "enqFull")
  /\ UNCHANGED <<head, tail, val, idx>>

(* Fault: an unsafe cell is used like any other. *)
CEnqUnsafeIgnored(t) ==
  /\ At(t, "enqUnsafe")
  /\ Goto(t, "enqPut")
  /\ UNCHANGED <<head, tail, val, idx>>

(* In an unsafe cell, head must not have reached our ticket: it may not    *)
(* even be equal, as it may in PRQueue.                                    *)
CEnqUnsafe(t) ==
  /\ At(t, "enqUnsafe")
  /\ \/ head < me[t].ticket /\ Goto(t, "enqPut")
     \/ head >= me[t].ticket /\ Leave(t, "enqFull")
  /\ UNCHANGED <<head, tail, val, idx>>

CEnqPut(t) ==
  /\ At(t, "enqPut")
  /\ \/ /\ CAS2(Cell(t), Nil, me[t].cidx,
                me[t].item, Word(me[t].ticket, FALSE))
        /\ Return(t, Nil)
     \/ CAS2Fails(Cell(t), Nil, me[t].cidx) /\ Leave(t, "enqFull")
  /\ UNCHANGED <<head, tail>>

----------------------------------------------------------------------------
(* dequeue *)

(* Too late for this ticket; or an item, of this turn or of an earlier one;*)
(* or nothing yet.                                                         *)
CDeqReadVal(t) ==
  LET v == val[Cell(t)]
      n == me[t].cidx.n
      See(there) == Become(t, [me[t] EXCEPT !.at = there, !.cval = v])
  IN
  /\ At(t, "deqVal")
  /\ \/ n > me[t].ticket /\ Leave(t, "deqTail")
     \/ n <= me[t].ticket /\ v = Nil /\ See("deqWait")
     \/ n = me[t].ticket /\ v # Nil /\ See("deqTake")
     \/ n < me[t].ticket /\ v # Nil /\ See("deqMark")
  /\ UNCHANGED <<head, tail, val, idx>>

CDeqTake(t) ==
  LET m == me[t] IN
  /\ At(t, "deqTake")
  /\ \/ /\ CAS2(Cell(t), m.cval, m.cidx,
                Nil, Word(m.ticket + RingSize, m.cidx.top))
        /\ Return(t, m.cval)
     \/ CAS2Fails(Cell(t), m.cval, m.cidx) /\ Leave(t, "deqIdx")
  /\ UNCHANGED <<head, tail>>

(* An item of an earlier turn is in the way of ours: the cell gets unsafe. *)
CDeqMark(t) ==
  LET m == me[t] IN
  /\ At(t, "deqMark")
  /\ \/ /\ CAS2(Cell(t), m.cval, m.cidx, m.cval, Word(m.cidx.n, TRUE))
        /\ Leave(t, "deqTail")
     \/ CAS2Fails(Cell(t), m.cval, m.cidx) /\ Leave(t, "deqIdx")
  /\ UNCHANGED <<head, tail>>

(* The index passes the enqueuer of this turn by. *)
CDeqSkip(t) ==
  LET m == me[t] IN
  /\ At(t, "deqSkip")
  /\ \/ /\ CAS2(Cell(t), Nil, m.cidx,
                Nil, Word(m.ticket + RingSize, m.cidx.top))
        /\ Leave(t, "deqTail")
     \/ /\ CAS2Fails(Cell(t), Nil, m.cidx)
        /\ Become(t, [Left(t, "deqIdx") EXCEPT !.count = 1])
  /\ UNCHANGED <<head, tail>>

----------------------------------------------------------------------------
CStep(t) ==
  \/ BaseStep(t)
  \/ CEnqReadVal(t)
  \/ CEnqUnsafe(t)
  \/ CEnqPut(t)
  \/ CDeqReadVal(t)
  \/ CDeqTake(t)
  \/ CDeqMark(t)
  \/ CDeqSkip(t)

CNext ==
  /\ client.kind = "CRQ"
  /\ Call \/ \E t \in Threads : CStep(t)
  /\ UNCHANGED <<client, start>>

CSpec == Init /\ [][CNext]_vars

=============================================================================
