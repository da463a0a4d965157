------------------------------ MODULE PRQueue ------------------------------
(***************************************************************************)
(* PRQueue (include/LPRQueue.hpp), the segment of LPRQueue.  It does       *)
(* without a double-word CAS: the enqueuer first claims the value of its   *)
(* cell with a bottom of its own, then moves the cell's index, then        *)
(* replaces bottom by the item.  A dequeuer that comes too early takes     *)
(* bottom away, moves the index past the enqueuer, or marks the cell       *)
(* unsafe.                                                                 *)
(***************************************************************************)
EXTENDS RingSegment

----------------------------------------------------------------------------
(* enqueue *)

(* Fault: the index must be below the ticket, not at most the ticket. *)
PUsableBelow(t) == val[Cell(t)] = Nil /\ me[t].cidx.n < me[t].ticket

(* The cell must be free, and its turn must not be over. *)
PUsable(t) == val[Cell(t)] = Nil /\ me[t].cidx.n <= me[t].ticket

PEnqReadVal(t) ==
  /\ At(t, "enqVal")
  /\ \/ /\ PUsable(t)
        /\ Goto(t, IF me[t].cidx.top THEN "enqUnsafe" ELSE "enqClaim")
     \/ ~ PUsable(t) /\ Leave(t, "enqFull")
  /\ UNCHANGED <<head, tail, val, idx>>

(* In an unsafe cell, our dequeuer must not have passed. *)
PEnqUnsafe(t) ==
  /\ At(t, "enqUnsafe")
  /\ Goto(t, IF head <= me[t].ticket THEN "enqClaim" ELSE "enqFull")
  /\ UNCHANGED <<head, tail, val, idx>>

(* The first CAS: null to bottom. *)
EnqClaim(t) ==
  /\ At(t, "enqClaim")
  /\ \/ /\ val[Cell(t)] = Nil
        /\ val' = [val EXCEPT ![Cell(t)] = Bottom(t)]
        /\ Goto(t, "enqMove")
     \/ val[Cell(t)] # Nil /\ Goto(t, "enqFull") /\ UNCHANGED val
  /\ UNCHANGED <<head, tail, idx>>

(* The second CAS, on the index. *)
EnqMove(t) ==
  /\ At(t, "enqMove")
  /\ \/ /\ Unmoved(t)
        /\ idx' = [idx EXCEPT ![Cell(t)] =
                     Word(me[t].ticket + RingSize, FALSE)]
        /\ Leave(t, "enqPut")
     \/ ~ Unmoved(t) /\ Leave(t, "enqUnclaim") /\ UNCHANGED idx
  /\ UNCHANGED <<head, tail, val>>

(* The third CAS: bottom to the item. *)
EnqPut(t) ==
  /\ At(t, "enqPut")
  /\ \/ /\ val[Cell(t)] = Bottom(t)
        /\ val' = [val EXCEPT ![Cell(t)] = me[t].item]
        /\ Return(t, Nil)
     \/ val[Cell(t)] # Bottom(t) /\ Goto(t, "enqFull") /\ UNCHANGED val
  /\ UNCHANGED <<head, tail, idx>>

(* Fault: the claim stays behind. *)
EnqUnclaimNot(t) ==
  /\ At(t, "enqUnclaim")
  /\ Goto(t, "enqFull")
  /\ UNCHANGED <<head, tail, val, idx>>

EnqUnclaim(t) ==
  /\ At(t, "enqUnclaim")
  /\ Goto(t, "enqFull")
  /\ val' = [val EXCEPT ![Cell(t)] = IF @ = Bottom(t) THEN Nil ELSE @]
  /\ UNCHANGED <<head, tail, idx>>

----------------------------------------------------------------------------
(* dequeue *)

(* Fault: a bottom is taken for an item. *)
HoldsAnything(v) == v # Nil

(* Neither null nor a bottom. *)
Holds(v) == v \in Items

(* Too late for this ticket; or an item, of this turn or of an earlier one;*)
(* or nothing yet.                                                         *)
PDeqReadVal(t) ==
  LET v    == val[Cell(t)]
      turn == me[t].ticket + RingSize
      c    == me[t].cidx
      See(there) == Become(t, [me[t] EXCEPT !.at = there, !.cval = v])
  IN
  /\ At(t, "deqVal")
  /\ \/ c.n > turn /\ Leave(t, "deqTail")
     \/ c.n <= turn /\ ~ Holds(v) /\ See("deqWait")
     \/ c.n = turn /\ Holds(v) /\ See("deqTake")
     \/ c.n < turn /\ Holds(v) /\ See(IF c.top THEN "deqRecheck" ELSE "deqMark")
  /\ UNCHANGED <<head, tail, val, idx>>

(* A plain store: the value is the one loaded before. *)
PDeqTake(t) ==
  /\ At(t, "deqTake")
  /\ val' = [val EXCEPT ![Cell(t)] = Nil]
  /\ Return(t, me[t].cval)
  /\ UNCHANGED <<head, tail, idx>>

DeqRecheck(t) ==
  /\ At(t, "deqRecheck")
  /\ Leave(t, IF Unmoved(t) THEN "deqTail" ELSE "deqIdx")
  /\ UNCHANGED <<head, tail, val, idx>>

(* An item of an earlier turn is in the way of ours: the cell gets unsafe. *)
PDeqMark(t) ==
  /\ At(t, "deqMark")
  /\ Leave(t, IF Unmoved(t) THEN "deqTail" ELSE "deqIdx")
  /\ idx' = [idx EXCEPT ![Cell(t)].top = @ \/ Unmoved(t)]
  /\ UNCHANGED <<head, tail, val>>

(* The enqueuer's bottom is taken away. *)
DeqUnclaim(t) ==
  /\ At(t, "deqUnclaim")
  /\ \/ /\ val[Cell(t)] = me[t].cval
        /\ val' = [val EXCEPT ![Cell(t)] = Nil]
        /\ Goto(t, "deqSkip")
     \/ val[Cell(t)] # me[t].cval /\ Leave(t, "deqIdx") /\ UNCHANGED val
  /\ UNCHANGED <<head, tail, idx>>

(* The index passes the enqueuer of this turn by. *)
PDeqSkip(t) ==
  /\ At(t, "deqSkip")
  /\ \/ /\ Unmoved(t)
        /\ idx' = [idx EXCEPT ![Cell(t)] =
                     Word(me[t].ticket + RingSize, me[t].cidx.top)]
        /\ Leave(t, "deqTail")
     \/ /\ ~ Unmoved(t)
        /\ Become(t, [Left(t, "deqIdx") EXCEPT !.count = 1])
        /\ UNCHANGED idx
  /\ UNCHANGED <<head, tail, val>>

----------------------------------------------------------------------------
PStep(t) ==
  \/ BaseStep(t)
  \/ PEnqReadVal(t)
  \/ PEnqUnsafe(t)
  \/ EnqClaim(t)
  \/ EnqMove(t)
  \/ EnqPut(t)
  \/ EnqUnclaim(t)
  \/ PDeqReadVal(t)
  \/ PDeqTake(t)
  \/ DeqRecheck(t)
  \/ PDeqMark(t)
  \/ DeqUnclaim(t)
  \/ PDeqSkip(t)

PNext ==
  /\ client.kind = "PRQ"
  /\ Call \/ \E t \in Threads : PStep(t)
  /\ UNCHANGED <<client, start>>

PSpec == Init /\ [][PNext]_vars

----------------------------------------------------------------------------
(* A bottom is in a cell only between the first CAS of its thread there and*)
(* the end of that thread's attempt: no cell is left claimed by a thread   *)
(* that has gone on, and no thread has two claims.                         *)
ClaimHasOwner ==
  \A t \in Threads : \A k \in Cells : val[k] = Bottom(t) =>
    me[t].at \in {"enqMove", "enqPut", "enqUnclaim"} /\ k = Cell(t)

=============================================================================
