----------------------------- MODULE RingProofs -----------------------------
(***************************************************************************)
(* Proofs about PRQueue and CRQueue, for any number of threads and cells,  *)
(* any starting ticket, any number of items and of tickets, whether or not *)
(* a dequeuer of PRQueue may be interrupted between its two loads; and that*)
(* the rings may know a cell by its ticket, since CacheRemap permutes them.*)
(***************************************************************************)
EXTENDS PRQueue, CRQueue, CacheRemap, TLAPS

(* One segment, of either kind. *)
Next == PNext \/ CNext
Spec == Init /\ [][Next]_vars

Places == {"idle", "enqDraw", "enqIdx", "enqVal", "enqUnsafe", "enqClaim",
           "enqMove", "enqPut", "enqUnclaim", "enqFull", "enqClose",
           "deqDraw", "deqIdx", "deqVal", "deqWait", "deqDecide", "deqTake",
           "deqRecheck", "deqMark", "deqUnclaim", "deqSkip", "deqTail",
           "fixTail", "fixHead", "fixAgain", "fixCas"}

Enqueuing == {"enqDraw", "enqIdx", "enqVal", "enqUnsafe", "enqClaim",
              "enqMove", "enqPut", "enqUnclaim", "enqFull", "enqClose"}

(* The places of a dequeuer that has drawn a ticket. *)
Drawn == Places \ (Enqueuing \cup {"idle", "deqDraw"})

(* Where a thread may have a claim on its cell. *)
Claiming == {"enqMove", "enqPut", "enqUnclaim"}

(* Where the cell was found good for the item, and where for the dequeuer. *)
Usable == {"enqUnsafe", "enqClaim", "enqMove", "enqPut"}
InTurn == {"deqWait", "deqDecide", "deqTake", "deqMark", "deqUnclaim", "deqSkip"}

Locals == [at     : Places,
           item   : Items \cup {Nil},
           ticket : 0 .. MaxTicket,
           cidx   : Words,
           cval   : Values,
           tt     : Words,
           chead  : Tickets,
           count  : 0 .. Patience + 1]

(* What a thread knows from its own locals m. *)
Sound(m) ==
  /\ m.at \in Usable => m.cidx.n <= m.ticket
  /\ m.at \in InTurn => m.cidx.n <= m.ticket + RingSize
  /\ m.at = "fixCas" => ~ m.tt.top /\ m.tt.n < m.chead
  /\ m.at = "deqTake" => m.cval \in Items
  /\ m.at \in Enqueuing => m.item \in Items
  /\ client.kind = "CRQ" => m.cval \notin Bottoms

Shared ==
  /\ client \in Clients
  /\ start  \in Starts
  /\ head   \in 0 .. MaxTicket
  /\ tail   \in Words
  /\ val    \in [Cells -> Values]
  /\ idx    \in [Cells -> Words]
  /\ issued \in 0 .. MaxItems
  /\ client.kind = "CRQ" => \A k \in Cells : val[k] \notin Bottoms

Typed ==
  /\ Shared
  /\ me \in [Threads -> Locals]
  /\ \A t \in Threads : Sound(me[t])

----------------------------------------------------------------------------
USE RingAssumption DEF RingAssumption

LEMMA ClientType ==
  ASSUME NEW c \in Clients
  PROVE  /\ c.kind \in Kinds /\ c.items \in 0 .. MaxItems
         /\ c.tickets \in 0 .. MaxTicket
         /\ c.enqueuers \subseteq Threads /\ c.dequeuers \subseteq Threads
  OBVIOUS

LEMMA WordType ==
  /\ \A n \in Tickets, b \in BOOLEAN :
       Word(n, b) \in Words /\ Word(n, b).n = n /\ Word(n, b).top = b
  /\ \A w \in Words : w.n \in Tickets /\ w.top \in BOOLEAN
  /\ \A w \in Words, v \in Words : w.n = v.n /\ w.top = v.top => w = v
  BY DEF Word, Words

LEMMA TicketType ==
  /\ Tickets \subseteq Nat /\ 0 .. MaxTicket \subseteq Tickets
  /\ \A i \in 0 .. MaxTicket : i + RingSize \in Tickets
  BY DEF Tickets

LEMMA CellType ==
  /\ \A n \in Nat : n % RingSize \in Cells
  /\ \A t \in Threads : me[t].ticket \in 0 .. MaxTicket => Cell(t) \in Cells
  BY DEF Cells, Cell

LEMMA ValueType ==
  /\ Nil \in Values /\ Items \subseteq Values /\ Bottoms \subseteq Values
  /\ Nil \notin Bottoms /\ Items \cap Bottoms = {} /\ Nil \notin Items
  /\ Values = Items \cup Bottoms \cup {Nil}
  /\ \A t \in Threads : Bottom(t) \in Bottoms
  /\ \A t, u \in Threads : Bottom(t) = Bottom(u) => t = u
  BY DEF Values, Items, Bottoms, Bottom, Nil

LEMMA FreshType == Fresh \in Locals /\ Sound(Fresh) /\ Fresh.at = "idle"
<1>1. Fresh.cidx = Word(0, FALSE) /\ Fresh.tt = Word(0, FALSE) /\ 0 \in Tickets
  BY TicketType DEF Fresh
<1>2. Word(0, FALSE) \in Words
  BY <1>1, WordType
<1>3. 0 \in 0 .. MaxTicket /\ 0 \in 0 .. Patience + 1 /\ 0 \in Tickets
  BY <1>1
<1>4. Fresh \in Locals
  BY <1>2, <1>3, ValueType DEF Fresh, Locals, Places
<1> QED
  BY <1>4, ValueType DEF Fresh, Sound, Usable, InTurn, Enqueuing

LEMMA Mine ==
  ASSUME Typed, NEW t \in Threads
  PROVE  /\ me[t] \in Locals /\ Sound(me[t]) /\ Cell(t) \in Cells
         /\ val[Cell(t)] \in Values /\ idx[Cell(t)] \in Words
  BY CellType DEF Typed, Shared, Locals

Dequeuing == Drawn \cup {"deqDraw"}

LEMMA PlaceType ==
  /\ Enqueuing \cap Dequeuing = {} /\ "idle" \notin Enqueuing \cup Dequeuing
  /\ Dequeuing = {"deqDraw", "deqIdx", "deqVal", "deqWait", "deqDecide",
                  "deqTake", "deqTail", "deqRecheck", "deqMark", "deqUnclaim",
                  "deqSkip", "fixTail", "fixHead", "fixAgain", "fixCas"}
  /\ Drawn = {"deqIdx", "deqVal", "deqWait", "deqDecide",
              "deqTake", "deqTail", "deqRecheck", "deqMark", "deqUnclaim",
              "deqSkip", "fixTail", "fixHead", "fixAgain", "fixCas"}
  BY DEF Places, Enqueuing, Dequeuing, Drawn

(* The locals after a step that only goes on, and after one that leaves the *)
(* cell.                                                                   *)
LEMMA GoType ==
  ASSUME NEW m \in Locals, NEW there \in Places
  PROVE  [m EXCEPT !.at = there] \in Locals
  BY DEF Locals

LEMMA LeftType ==
  ASSUME NEW t \in Threads, me[t] \in Locals, NEW there \in Places
  PROVE  Left(t, there) \in Locals
<1>1. Fresh.cidx \in Words /\ Nil \in Values
  BY FreshType, ValueType DEF Locals
<1>2. ASSUME NEW m \in Locals, NEW i \in Words, NEW v \in Values
      PROVE  [m EXCEPT !.at = there, !.cidx = i, !.cval = v] \in Locals
  BY DEF Locals
<1> QED
  BY <1>1, <1>2 DEF Left

(* Thread t goes on with sound locals. *)
Goes(t) == \E m \in Locals : me' = [me EXCEPT ![t] = m] /\ Sound(m)

----------------------------------------------------------------------------
LEMMA EnqueuerGoes ==
  ASSUME Typed, NEW t \in Threads,
         \/ EnqDraw(t) \/ EnqReadIdx(t) \/ EnqFull(t) \/ EnqClose(t)
         \/ CEnqReadVal(t) \/ CEnqUnsafe(t) \/ CEnqPut(t)
         \/ PEnqReadVal(t) \/ PEnqUnsafe(t) \/ EnqClaim(t) \/ EnqMove(t)
         \/ EnqPut(t) \/ EnqUnclaim(t)
  PROVE  Goes(t)
<1> DEFINE m == me[t]
<1> USE Mine, FreshType, TicketType DEF Goes, Become, Goto, Leave, Left, Return
<1>1. CASE EnqDraw(t)
  <2>1. tail.n \in 0 .. MaxTicket
    BY <1>1, ClientType DEF EnqDraw, Typed, Shared, Words
  <2>2. [m EXCEPT !.at = "enqIdx", !.ticket = tail.n] \in Locals
    BY <2>1 DEF Locals, Places
  <2> QED
    BY <1>1, <2>2 DEF EnqDraw, At, Locals, Sound, Enqueuing, Usable, InTurn
<1>2. CASE EnqReadIdx(t)
  <2>1. [m EXCEPT !.at = "enqVal", !.cidx = idx[Cell(t)]] \in Locals
    BY DEF Locals, Places
  <2> QED
    BY <1>2, <2>1 DEF EnqReadIdx, At, Locals, Sound, Enqueuing, Usable, InTurn
<1>3. ASSUME NEW there \in Enqueuing \ Usable, m.at \in Enqueuing
      PROVE  /\ [m EXCEPT !.at = there] \in Locals /\ Left(t, there) \in Locals
             /\ Sound([m EXCEPT !.at = there]) /\ Sound(Left(t, there))
  <2>1. [m EXCEPT !.at = there] \in Locals /\ Left(t, there) \in Locals
    <3>1. there \in Places
      BY DEF Places, Enqueuing
    <3>2. me[t] \in Locals
      BY Mine
    <3> HIDE DEF Left
    <3> QED
      BY ONLY <3>1, <3>2, GoType, LeftType
  <2> QED
    BY <1>3, <2>1, ValueType DEF Sound, Locals, Enqueuing, Usable, InTurn
<1>4. CASE EnqFull(t)
  BY <1>3, <1>4 DEF EnqFull, At, Enqueuing, Usable
<1>5. CASE EnqClose(t)
  <2>1. ASSUME NEW n \in 0 .. Patience + 1, m.at = "enqClose"
        PROVE  LET w == [m EXCEPT !.at = "enqDraw", !.count = n]
               IN  w \in Locals /\ Sound(w)
    BY <2>1 DEF Locals, Places, Sound, Enqueuing, Usable, InTurn
  <2>2. m.count \in 0 .. Patience + 1
    BY DEF Locals
  <2>3. m.count + 1 > Patience \/ m.count + 1 \in 0 .. Patience + 1
    BY <2>2
  <2> QED
    BY <1>5, <2>1, <2>2, <2>3 DEF EnqClose, At
<1>6. CASE CEnqReadVal(t) \/ PEnqReadVal(t)
  <2>1. m.at = "enqVal" /\ m.at \in Enqueuing
    BY <1>6 DEF CEnqReadVal, PEnqReadVal, At, Enqueuing
  <2>2. CASE Leave(t, "enqFull")
    BY <1>3, <2>1, <2>2 DEF Enqueuing, Usable
  <2>3. CASE /\ m.cidx.n <= m.ticket
             /\ \E there \in Usable : Goto(t, there)
    <3>1. PICK there \in Usable : Goto(t, there)
      BY <2>3
    <3>2. [m EXCEPT !.at = there] \in Locals
      BY DEF Locals, Places, Usable
    <3>3. Sound([m EXCEPT !.at = there])
      BY <2>1, <2>3, <3>2 DEF Sound, Locals, Enqueuing, Usable, InTurn
    <3> QED
      BY <3>1, <3>2, <3>3
  <2> QED
    BY <1>6, <2>2, <2>3 DEF CEnqReadVal, PEnqReadVal, CUsable, PUsable, Usable
<1>7. CASE m.at = "enqUnsafe" /\ \E there \in {"enqPut", "enqClaim"} : Goto(t, there)
  <2>1. PICK there \in {"enqPut", "enqClaim"} : Goto(t, there)
    BY <1>7
  <2>2. [m EXCEPT !.at = there] \in Locals
    BY DEF Locals, Places
  <2>3. Sound([m EXCEPT !.at = there])
    BY <1>7, <2>2 DEF Sound, Locals, Enqueuing, Usable, InTurn
  <2> QED
    BY <2>1, <2>2, <2>3
<1>8. CASE CEnqUnsafe(t) \/ PEnqUnsafe(t)
  BY <1>3, <1>7, <1>8 DEF CEnqUnsafe, PEnqUnsafe, At, Enqueuing, Usable
<1>9. CASE EnqClaim(t)
  <2>1. [m EXCEPT !.at = "enqMove"] \in Locals
    BY DEF Locals, Places
  <2>2. m.at = "enqClaim" => Sound([m EXCEPT !.at = "enqMove"])
    BY <2>1 DEF Sound, Locals, Enqueuing, Usable, InTurn
  <2> QED
    BY <1>3, <1>9, <2>1, <2>2 DEF EnqClaim, At, Enqueuing, Usable
<1>10. CASE EnqMove(t)
  <2>1. Left(t, "enqPut") \in Locals
    <3>1. "enqPut" \in Places
      BY DEF Places
    <3>2. me[t] \in Locals
      BY Mine
    <3> HIDE DEF Left
    <3> QED
      BY ONLY <3>1, <3>2, LeftType
  <2>2. m.at = "enqMove" => Sound(Left(t, "enqPut"))
    BY <2>1, ValueType DEF Sound, Locals, Fresh, Word, Enqueuing, Usable, InTurn
  <2> QED
    BY <1>3, <1>10, <2>1, <2>2 DEF EnqMove, At, Enqueuing, Usable
<1>11. CASE CEnqPut(t) \/ EnqPut(t) \/ EnqUnclaim(t)
  BY <1>3, <1>11 DEF CEnqPut, EnqPut, EnqUnclaim, At, Enqueuing, Usable
<1> QED
  BY <1>1, <1>2, <1>4, <1>5, <1>6, <1>8, <1>9, <1>10, <1>11

LEMMA DequeuerGoes ==
  ASSUME Typed, NEW t \in Threads,
         \/ DeqDraw(t) \/ DeqReadIdx(t) \/ DeqWait(t) \/ DeqDecide(t)
         \/ DeqTail(t) \/ FixTail(t) \/ FixHead(t) \/ FixAgain(t) \/ FixCas(t)
         \/ CDeqReadVal(t) /\ client.kind = "CRQ"
         \/ CDeqTake(t) \/ CDeqMark(t) \/ CDeqSkip(t)
         \/ PDeqReadVal(t) /\ client.kind = "PRQ"
         \/ PDeqTake(t) \/ DeqRecheck(t) \/ PDeqMark(t) \/ DeqUnclaim(t)
         \/ PDeqSkip(t)
  PROVE  Goes(t)
<1> DEFINE m == me[t]
<1> USE Mine, FreshType, TicketType DEF Goes, Become, Goto, Leave, Left, Return
<1>1. CASE DeqDraw(t)
  <2>1. head \in 0 .. MaxTicket
    BY DEF Typed, Shared
  <2>2. [Fresh EXCEPT !.at = "deqIdx", !.ticket = head] \in Locals
    BY <2>1 DEF Locals, Places
  <2>3. Sound([Fresh EXCEPT !.at = "deqIdx", !.ticket = head])
    BY <2>2, ValueType DEF Locals, Fresh, Sound, Enqueuing, Usable, InTurn
  <2> QED
    BY <1>1, <2>2, <2>3 DEF DeqDraw
<1>2. CASE DeqReadIdx(t)
  <2>1. [m EXCEPT !.at = "deqVal", !.cidx = idx[Cell(t)]] \in Locals
    BY DEF Locals, Places
  <2> QED
    BY <1>2, <2>1 DEF DeqReadIdx, At, Locals, Sound, Enqueuing, Usable, InTurn
<1>3. ASSUME NEW there \in {"deqIdx", "deqTail", "fixTail", "deqDraw"}
      PROVE  /\ [m EXCEPT !.at = there] \in Locals /\ Left(t, there) \in Locals
             /\ [Left(t, there) EXCEPT !.count = 1] \in Locals
             /\ Sound([m EXCEPT !.at = there]) /\ Sound(Left(t, there))
             /\ Sound([Left(t, there) EXCEPT !.count = 1])
  <2>1. [m EXCEPT !.at = there] \in Locals /\ Left(t, there) \in Locals
    <3>1. there \in Places
      BY DEF Places
    <3>2. me[t] \in Locals
      BY Mine
    <3> HIDE DEF Left
    <3> QED
      BY ONLY <3>1, <3>2, GoType, LeftType
  <2>2. [Left(t, there) EXCEPT !.count = 1] \in Locals
    <3>1. 1 \in 0 .. Patience + 1
      OBVIOUS
    <3> QED
      BY <2>1, <3>1 DEF Locals
  <2> QED
    BY <2>1, <2>2, ValueType DEF Sound, Locals, Enqueuing, Usable, InTurn
<1>4. CASE DeqTail(t)
  BY <1>3, <1>4 DEF DeqTail
<1>5. CASE DeqWait(t)
  <2>1. /\ [m EXCEPT !.at = "deqDecide", !.tt = tail] \in Locals
        /\ [m EXCEPT !.at = "deqDecide"] \in Locals
    BY DEF Typed, Shared, Locals, Places
  <2>2. m.at = "deqWait" => /\ Sound([m EXCEPT !.at = "deqDecide", !.tt = tail])
                            /\ Sound([m EXCEPT !.at = "deqDecide"])
    BY <2>1 DEF Sound, Locals, Enqueuing, Usable, InTurn
  <2> QED
    BY <1>5, <2>1, <2>2 DEF DeqWait, At
<1>6. CASE DeqDecide(t)
  <2>1. /\ [m EXCEPT !.at = "deqUnclaim"] \in Locals
        /\ [m EXCEPT !.at = "deqSkip"] \in Locals
    BY DEF Locals, Places
  <2>2. m.at = "deqDecide" => /\ Sound([m EXCEPT !.at = "deqUnclaim"])
                              /\ Sound([m EXCEPT !.at = "deqSkip"])
    BY <2>1 DEF Sound, Locals, Enqueuing, Usable, InTurn
  <2> QED
    BY <1>3, <1>6, <2>1, <2>2 DEF DeqDecide, At
<1>7. ASSUME NEW there \in {"deqWait", "deqTake", "deqMark", "deqRecheck"},
             NEW v \in Values, m.cidx.n <= m.ticket + RingSize,
             there = "deqTake" => v \in Items,
             client.kind = "CRQ" => v \notin Bottoms
      PROVE  /\ [m EXCEPT !.at = there, !.cval = v] \in Locals
             /\ Sound([m EXCEPT !.at = there, !.cval = v])
  <2>1. [m EXCEPT !.at = there, !.cval = v] \in Locals
    BY DEF Locals, Places
  <2> QED
    BY <1>7, <2>1 DEF Sound, Locals, Enqueuing, Usable, InTurn
<1>8. m.ticket \in Nat /\ m.cidx.n \in Nat
  BY DEF Locals, Words
<1>9. CASE CDeqReadVal(t) /\ client.kind = "CRQ"
  <2> DEFINE v == val[Cell(t)]
  <2>1. v \in Values /\ v \notin Bottoms
    BY <1>9 DEF Typed, Shared
  <2>2. v # Nil => v \in Items
    BY <2>1, ValueType
  <2>3. \/ Leave(t, "deqTail")
        \/ /\ m.cidx.n <= m.ticket
           /\ \E there \in {"deqWait", "deqTake", "deqMark", "deqRecheck"} :
                /\ there = "deqTake" => v # Nil
                /\ me' = [me EXCEPT ![t] = [m EXCEPT !.at = there, !.cval = v]]
    BY <1>8, <1>9 DEF CDeqReadVal
  <2>4. m.cidx.n <= m.ticket => m.cidx.n <= m.ticket + RingSize
    BY <1>8
  <2> QED
    BY <1>3, <1>7, <2>1, <2>2, <2>3, <2>4
<1>10. CASE PDeqReadVal(t) /\ client.kind = "PRQ"
  <2> DEFINE v == val[Cell(t)]
  <2>1. \/ Leave(t, "deqTail")
        \/ /\ m.cidx.n <= m.ticket + RingSize
           /\ \E there \in {"deqWait", "deqTake", "deqMark", "deqRecheck"} :
                /\ there = "deqTake" => v \in Items
                /\ me' = [me EXCEPT ![t] = [m EXCEPT !.at = there, !.cval = v]]
    <3> DEFINE turn == m.ticket + RingSize
               See(there) == me' = [me EXCEPT ![t] = [m EXCEPT !.at = there, !.cval = v]]
    <3>1. turn \in Nat
      BY <1>8
    <3>2. \/ Leave(t, "deqTail")
          \/ m.cidx.n <= turn /\ See("deqWait")
          \/ m.cidx.n = turn /\ v \in Items /\ See("deqTake")
          \/ m.cidx.n < turn /\ m.cidx.top /\ See("deqRecheck")
          \/ m.cidx.n < turn /\ ~ m.cidx.top /\ See("deqMark")
      BY <1>10 DEF PDeqReadVal, Holds
    <3> HIDE DEF turn, See
    <3>3. m.cidx.n < turn \/ m.cidx.n = turn => m.cidx.n <= turn
      BY <1>8, <3>1
    <3>4. \/ Leave(t, "deqTail")
          \/ /\ m.cidx.n <= turn
             /\ \E there \in {"deqWait", "deqTake", "deqMark", "deqRecheck"} :
                  (there = "deqTake" => v \in Items) /\ See(there)
      BY <3>2, <3>3
    <3> QED
      BY <3>4 DEF turn, See
  <2> QED
    BY <1>3, <1>7, <1>10, <2>1
<1>11. CASE CDeqTake(t) \/ CDeqMark(t) \/ CDeqSkip(t)
  BY <1>3, <1>11 DEF CDeqTake, CDeqMark, CDeqSkip
<1>12. CASE PDeqTake(t) \/ DeqRecheck(t) \/ PDeqMark(t) \/ PDeqSkip(t)
  BY <1>3, <1>12 DEF PDeqTake, DeqRecheck, PDeqMark, PDeqSkip
<1>13. CASE DeqUnclaim(t)
  <2>1. [m EXCEPT !.at = "deqSkip"] \in Locals
    BY DEF Locals, Places
  <2>2. m.at = "deqUnclaim" => Sound([m EXCEPT !.at = "deqSkip"])
    BY <2>1 DEF Sound, Locals, Enqueuing, Usable, InTurn
  <2> QED
    BY <1>3, <1>13, <2>1, <2>2 DEF DeqUnclaim, At
<1>14. CASE FixTail(t)
  <2>0. tail \in Words /\ "fixHead" \in Places
    BY DEF Typed, Shared, Places
  <2>1. [m EXCEPT !.at = "fixHead", !.tt = tail] \in Locals
    <3>1. ASSUME NEW l \in Locals, NEW w \in Words, NEW there \in Places
          PROVE  [l EXCEPT !.at = there, !.tt = w] \in Locals
      BY DEF Locals
    <3> QED
      BY ONLY <2>0, <3>1, Mine, Typed, t \in Threads
  <2>2. Sound([m EXCEPT !.at = "fixHead", !.tt = tail])
    BY <2>1 DEF Sound, Locals, Enqueuing, Usable, InTurn
  <2> QED
    BY <1>14, <2>1, <2>2 DEF FixTail
<1>15. CASE FixHead(t)
  <2>0. head \in Tickets /\ "fixAgain" \in Places
    BY DEF Typed, Shared, Places
  <2>1. [m EXCEPT !.at = "fixAgain", !.chead = head] \in Locals
    <3>1. ASSUME NEW l \in Locals, NEW n \in Tickets, NEW there \in Places
          PROVE  [l EXCEPT !.at = there, !.chead = n] \in Locals
      BY DEF Locals
    <3> QED
      BY ONLY <2>0, <3>1, Mine, Typed, t \in Threads
  <2>2. Sound([m EXCEPT !.at = "fixAgain", !.chead = head])
    BY <2>1 DEF Sound, Locals, Enqueuing, Usable, InTurn
  <2> QED
    BY <1>15, <2>1, <2>2 DEF FixHead
<1>16. CASE FixAgain(t)
  <2>1. [m EXCEPT !.at = "fixCas"] \in Locals
    BY DEF Locals, Places
  <2>2. Behind(t) => Sound([m EXCEPT !.at = "fixCas"])
    <3>1. ASSUME Behind(t) PROVE ~ m.tt.top /\ m.tt.n < m.chead
      <4>1. m.tt.n \in Nat /\ m.chead \in Nat
        BY WordType DEF Locals
      <4> QED
        BY <3>1, <4>1 DEF Behind
    <3> QED
      BY <2>1, <3>1 DEF Sound, Locals, Enqueuing, Usable, InTurn
  <2> QED
    BY <1>3, <1>16, <2>1, <2>2 DEF FixAgain
<1>17. CASE FixCas(t)
  BY <1>3, <1>17 DEF FixCas
<1> QED
  BY <1>1, <1>2, <1>4, <1>5, <1>6, <1>9, <1>10, <1>11, <1>12, <1>13, <1>14,
     <1>15, <1>16, <1>17

(* An enqueuer keeps its item to the end of the call; a dequeuer never     *)
(* becomes an enqueuer.                                                    *)
LEMMA EnqueuerKeeps ==
  ASSUME Typed, NEW t \in Threads,
         \/ EnqDraw(t) \/ EnqReadIdx(t) \/ EnqFull(t) \/ EnqClose(t)
         \/ CEnqReadVal(t) \/ CEnqUnsafe(t) \/ CEnqPut(t)
         \/ PEnqReadVal(t) \/ PEnqUnsafe(t) \/ EnqClaim(t) \/ EnqMove(t)
         \/ EnqPut(t) \/ EnqUnclaim(t)
  PROVE  /\ me[t].at \in Enqueuing
         /\ \/ me'[t].at = "idle"
            \/ me'[t].at \in Enqueuing /\ me'[t].item = me[t].item
<1> DEFINE m == me[t]
<1>1. m.at \in Enqueuing
  BY DEF EnqDraw, EnqReadIdx, EnqFull, EnqClose, CEnqReadVal, CEnqUnsafe,
     CEnqPut, PEnqReadVal, PEnqUnsafe, EnqClaim, EnqMove, EnqPut, EnqUnclaim,
     At, Enqueuing
<1>2. m \in Locals /\ me \in [Threads -> Locals]
  BY DEF Typed
<1>3. \/ me'[t] = Fresh
      \/ \E there \in Enqueuing :
           \/ me'[t] = [m EXCEPT !.at = there]
           \/ me'[t] = Left(t, there)
           \/ me'[t] = [m EXCEPT !.at = there, !.ticket = tail.n]
           \/ me'[t] = [m EXCEPT !.at = there, !.cidx = idx[Cell(t)]]
           \/ \E n : me'[t] = [m EXCEPT !.at = there, !.count = n]
  <2> USE <1>2 DEF Return, Become, Goto, Leave, Enqueuing
  <2>1. CASE EnqDraw(t) \/ EnqReadIdx(t) \/ EnqFull(t)
    BY <2>1 DEF EnqDraw, EnqReadIdx, EnqFull
  <2>5. CASE EnqClose(t)
    <3>1. \/ Return(t, Refused)
          \/ \E n : Become(t, [m EXCEPT !.at = "enqDraw", !.count = n])
      BY <2>5 DEF EnqClose
    <3> QED
      BY <3>1
  <2>2. CASE CEnqReadVal(t) \/ CEnqUnsafe(t) \/ CEnqPut(t)
    BY <2>2 DEF CEnqReadVal, CEnqUnsafe, CEnqPut
  <2>3. CASE PEnqReadVal(t) \/ PEnqUnsafe(t) \/ EnqClaim(t) \/ EnqMove(t)
    BY <2>3 DEF PEnqReadVal, PEnqUnsafe, EnqClaim, EnqMove
  <2>4. CASE EnqPut(t) \/ EnqUnclaim(t)
    BY <2>4 DEF EnqPut, EnqUnclaim
  <2> QED
    BY <2>1, <2>2, <2>3, <2>4, <2>5
<1> QED
  BY <1>1, <1>2, <1>3, FreshType DEF Locals, Left

LEMMA DequeuerKeeps ==
  ASSUME Typed, NEW t \in Threads,
         \/ DeqDraw(t) \/ DeqReadIdx(t) \/ DeqWait(t) \/ DeqDecide(t)
         \/ DeqTail(t) \/ FixTail(t) \/ FixHead(t) \/ FixAgain(t) \/ FixCas(t)
         \/ CDeqReadVal(t) \/ CDeqTake(t) \/ CDeqMark(t) \/ CDeqSkip(t)
         \/ PDeqReadVal(t) \/ PDeqTake(t) \/ DeqRecheck(t) \/ PDeqMark(t)
         \/ DeqUnclaim(t) \/ PDeqSkip(t)
  PROVE  /\ me[t].at \in Drawn \/ DeqDraw(t)
         /\ me'[t].at \in Dequeuing \cup {"idle"}
<1> DEFINE m == me[t]
<1>1. m.at \in Drawn \/ DeqDraw(t)
  BY PlaceType DEF DeqReadIdx, DeqWait, DeqDecide, DeqTail, FixTail,
     FixHead, FixAgain, FixCas, CDeqReadVal, CDeqTake, CDeqMark, CDeqSkip,
     PDeqReadVal, PDeqTake, DeqRecheck, PDeqMark, DeqUnclaim, PDeqSkip, At
<1>2. m \in Locals /\ me \in [Threads -> Locals]
  BY DEF Typed
<1> DEFINE Lands ==
      \/ me'[t] = Fresh
      \/ \E there \in Dequeuing :
           \/ me'[t] = [m EXCEPT !.at = there]
           \/ me'[t] = Left(t, there)
           \/ me'[t] = [Left(t, there) EXCEPT !.count = 1]
           \/ me'[t] = [Fresh EXCEPT !.at = there, !.ticket = head]
           \/ me'[t] = [m EXCEPT !.at = there, !.cidx = idx[Cell(t)]]
           \/ me'[t] = [m EXCEPT !.at = there, !.cval = val[Cell(t)]]
           \/ me'[t] = [m EXCEPT !.at = there, !.tt = tail]
           \/ me'[t] = [m EXCEPT !.at = there, !.chead = head]
<1>3. Lands
  <2>0. /\ "deqDraw" \in Dequeuing /\ "deqIdx" \in Dequeuing
        /\ "deqVal" \in Dequeuing /\ "deqWait" \in Dequeuing
        /\ "deqDecide" \in Dequeuing /\ "deqTake" \in Dequeuing
        /\ "deqTail" \in Dequeuing /\ "deqRecheck" \in Dequeuing
        /\ "deqMark" \in Dequeuing /\ "deqUnclaim" \in Dequeuing
        /\ "deqSkip" \in Dequeuing /\ "fixTail" \in Dequeuing
        /\ "fixHead" \in Dequeuing /\ "fixAgain" \in Dequeuing
        /\ "fixCas" \in Dequeuing
    BY PlaceType
  <2> HIDE DEF Dequeuing
  <2> USE <1>2, <2>0 DEF Return, Become, Goto, Leave
  <2>1. CASE DeqDraw(t)
    BY <2>1 DEF DeqDraw
  <2>2. CASE DeqReadIdx(t)
    BY <2>2 DEF DeqReadIdx
  <2>3. CASE DeqWait(t)
    BY <2>3 DEF DeqWait
  <2>4. CASE DeqTail(t)
    BY <2>4 DEF DeqTail
  <2>5. CASE DeqDecide(t)
    BY <2>5 DEF DeqDecide
  <2>6. CASE FixTail(t)
    BY <2>6 DEF FixTail
  <2>7. CASE FixHead(t)
    BY <2>7 DEF FixHead
  <2>8. CASE FixAgain(t)
    BY <2>8 DEF FixAgain
  <2>9. CASE FixCas(t)
    BY <2>9 DEF FixCas
  <2>10. CASE CDeqReadVal(t)
    BY <2>10 DEF CDeqReadVal
  <2>11. CASE CDeqTake(t)
    BY <2>11 DEF CDeqTake
  <2>12. CASE CDeqMark(t)
    BY <2>12 DEF CDeqMark
  <2>13. CASE CDeqSkip(t)
    BY <2>13 DEF CDeqSkip
  <2>14. CASE PDeqReadVal(t)
    BY <2>14 DEF PDeqReadVal
  <2>15. CASE PDeqTake(t)
    BY <2>15 DEF PDeqTake
  <2>16. CASE DeqRecheck(t)
    BY <2>16 DEF DeqRecheck
  <2>17. CASE PDeqMark(t)
    BY <2>17 DEF PDeqMark
  <2>18. CASE DeqUnclaim(t)
    BY <2>18 DEF DeqUnclaim
  <2>19. CASE PDeqSkip(t)
    BY <2>19 DEF PDeqSkip
  <2> HIDE <1>2, <2>0 DEF Return, Become, Goto, Leave, Lands
  <2> QED
    BY <2>1, <2>2, <2>3, <2>4, <2>5, <2>6, <2>7, <2>8, <2>9, <2>10, <2>11,
       <2>12, <2>13, <2>14, <2>15, <2>16, <2>17, <2>18, <2>19
<1> QED
  BY <1>1, <1>2, <1>3, FreshType DEF Locals, Left

----------------------------------------------------------------------------
(* What a step does to what the threads share: nothing goes back, and what *)
(* is closed stays closed.                                                 *)
Moves ==
  /\ tail.top => tail'.top
  /\ tail'.n >= tail.n /\ head' >= head
  /\ \A k \in Cells : idx'[k].n >= idx[k].n

LEMMA SharedSame ==
  ASSUME Typed, UNCHANGED <<client, start, head, tail, val, idx>>,
         issued' \in 0 .. MaxItems
  PROVE  Shared' /\ Moves
<1>1. tail.n \in Nat /\ head \in Nat /\ \A k \in Cells : idx[k].n \in Nat
  BY WordType, TicketType DEF Typed, Shared
<1> QED
  BY <1>1 DEF Typed, Shared, Moves

LEMMA TailStep ==
  ASSUME Typed, NEW t \in Threads, UNCHANGED <<client, start>>,
         EnqDraw(t) \/ EnqClose(t) \/ DeqDraw(t) \/ FixCas(t)
  PROVE  Shared' /\ Moves
<1>1. /\ tail.n \in Nat /\ tail \in Words /\ tail.n \in Tickets /\ tail.top \in BOOLEAN
      /\ head \in 0 .. MaxTicket /\ client.tickets \in 0 .. MaxTicket
      /\ \A k \in Cells : idx[k].n \in Nat
  BY WordType, TicketType, ClientType DEF Typed, Shared
<1>2. UNCHANGED <<val, idx, issued>>
  BY DEF EnqDraw, EnqClose, DeqDraw, FixCas, Return, Goto, Become, history
<1>3. SUFFICES /\ tail' \in Words /\ head' \in 0 .. MaxTicket
               /\ tail'.n >= tail.n /\ head' >= head /\ (tail.top => tail'.top)
  BY <1>1, <1>2 DEF Typed, Shared, Moves
<1>4. CASE EnqDraw(t)
  <2>1. tail' = [tail EXCEPT !.n = tail.n + 1] /\ head' = head
    BY <1>4 DEF EnqDraw
  <2>2. tail.n + 1 \in Tickets
    BY <1>1, <1>4, TicketType DEF EnqDraw, Tickets
  <2>3. tail' \in Words /\ tail'.n = tail.n + 1 /\ tail'.top = tail.top
    BY <1>1, <2>1, <2>2 DEF Words
  <2> QED
    BY <1>1, <2>1, <2>3
<1>5. CASE EnqClose(t)
  <2>1. \E b \in BOOLEAN : tail' = [tail EXCEPT !.top = tail.top \/ b] /\ head' = head
    BY <1>5 DEF EnqClose
  <2>2. tail' \in Words /\ tail'.n = tail.n /\ (tail.top => tail'.top)
    BY <1>1, <2>1 DEF Words
  <2> QED
    BY <1>1, <2>1, <2>2
<1>6. CASE DeqDraw(t)
  BY <1>1, <1>6 DEF DeqDraw
<1>7. CASE FixCas(t)
  <2>1. CASE tail' = tail /\ head' = head
    BY <1>1, <2>1
  <2>2. CASE tail = me[t].tt /\ tail' = Word(me[t].chead, FALSE) /\ head' = head
    <3>1. me[t].chead \in Tickets /\ ~ me[t].tt.top /\ me[t].tt.n < me[t].chead
      BY <1>7, Mine DEF FixCas, At, Sound, Locals
    <3>2. tail' \in Words /\ tail'.n = me[t].chead
      BY <2>2, <3>1, WordType
    <3>3. me[t].chead \in Nat
      BY <3>1, TicketType
    <3> QED
      <4>1. ~ tail.top /\ tail.n < me[t].chead
        BY <2>2, <3>1
      <4>2. tail'.n >= tail.n
        <5> DEFINE new == tail'.n
                   old == tail.n
        <5>1. new = me[t].chead /\ old < me[t].chead /\ old \in Nat
          BY <1>1, <3>2, <4>1
        <5> HIDE DEF new, old
        <5>2. new >= old
          BY <3>3, <5>1
        <5> QED
          BY <5>2 DEF new, old
      <4>3. head \in Nat /\ head' \in 0 .. MaxTicket /\ head' >= head
        BY <1>1, <2>2
      <4> QED
        BY <3>2, <4>1, <4>2, <4>3
  <2> QED
    BY <1>7, <2>1, <2>2 DEF FixCas
<1> QED
  BY <1>4, <1>5, <1>6, <1>7

(* A cell changes: its value to w, its index to i. *)
LEMMA CellMoves ==
  ASSUME Typed, NEW k \in Cells, NEW w \in Values, NEW i \in Words,
         UNCHANGED <<client, start, head, tail, issued>>,
         val' = [val EXCEPT ![k] = w], idx' = [idx EXCEPT ![k] = i],
         i.n >= idx[k].n, client.kind = "CRQ" => w \notin Bottoms
  PROVE  Shared' /\ Moves
<1>1. tail.n \in Nat /\ head \in Nat /\ \A c \in Cells : idx[c].n \in Nat
  BY WordType, TicketType DEF Typed, Shared
<1> QED
  BY <1>1 DEF Typed, Shared, Moves

LEMMA CStepMoves ==
  ASSUME Typed, NEW t \in Threads, UNCHANGED <<client, start>>,
         client.kind = "CRQ",
         CEnqPut(t) \/ CDeqTake(t) \/ CDeqMark(t) \/ CDeqSkip(t)
  PROVE  Shared' /\ Moves
<1> DEFINE m == me[t]
           k == Cell(t)
<1>1. /\ UNCHANGED <<head, tail, issued>>
      /\ m \in Locals /\ Sound(m) /\ k \in Cells /\ idx[k] \in Words
      /\ m.ticket \in Tickets /\ m.ticket + RingSize \in Tickets
      /\ m.ticket \in Nat /\ m.cidx \in Words /\ m.cidx.n \in Nat
      /\ m.cidx.n \in Tickets /\ m.cidx.top \in BOOLEAN
  <2>1. UNCHANGED <<head, tail, issued>>
    BY DEF CEnqPut, CDeqTake, CDeqMark, CDeqSkip, Return, Leave, Become, history
  <2>2. m.ticket \in 0 .. MaxTicket /\ m.cidx \in Words
    BY Mine DEF Locals
  <2> QED
    BY <2>1, <2>2, Mine, TicketType, WordType
<1>2. CASE UNCHANGED <<val, idx>>
  BY <1>1, <1>2, SharedSame DEF Typed, Shared
<1>3. ASSUME NEW v \in Values, NEW w \in Values, NEW i \in Words,
             CAS2(k, v, m.cidx, w, i), i.n >= m.cidx.n, w \notin Bottoms
      PROVE  Shared' /\ Moves
  <2>1. idx[k] = m.cidx /\ val' = [val EXCEPT ![k] = w] /\ idx' = [idx EXCEPT ![k] = i]
    BY <1>3 DEF CAS2
  <2> QED
    BY <1>1, <1>3, <2>1, CellMoves
<1>4. CASE CEnqPut(t)
  <2> DEFINE i == Word(m.ticket, FALSE)
  <2>1. i \in Words /\ i.n = m.ticket
    BY <1>1, WordType
  <2>2. m.item \in Values /\ m.item \notin Bottoms /\ m.cidx.n <= m.ticket
    BY <1>1, <1>4, ValueType DEF CEnqPut, At, Locals, Sound, Usable
  <2> QED
    BY <1>1, <1>2, <1>3, <1>4, <2>1, <2>2, ValueType DEF CEnqPut, CAS2Fails
<1>5. CASE CDeqTake(t) \/ CDeqSkip(t)
  <2> DEFINE i == Word(m.ticket + RingSize, m.cidx.top)
  <2>1. i \in Words /\ i.n = m.ticket + RingSize
    BY <1>1, WordType
  <2>2. m.cval \in Values /\ m.cidx.n <= m.ticket + RingSize
    BY <1>1, <1>5 DEF CDeqTake, CDeqSkip, At, Locals, Sound, InTurn
  <2>3. i.n >= m.cidx.n
    <3> HIDE DEF i, m
    <3> QED
      BY <1>1, <2>1, <2>2
  <2>4. UNCHANGED <<val, idx>> \/ CAS2(k, m.cval, m.cidx, Nil, i) \/ CAS2(k, Nil, m.cidx, Nil, i)
    BY <1>5 DEF CDeqTake, CDeqSkip, CAS2Fails
  <2> QED
    BY <1>2, <1>3, <2>1, <2>2, <2>3, <2>4, ValueType
<1>6. CASE CDeqMark(t)
  <2> DEFINE i == Word(m.cidx.n, TRUE)
  <2>1. i \in Words /\ i.n = m.cidx.n
    BY <1>1, WordType
  <2>2. m.cval \in Values /\ m.cval \notin Bottoms
    BY <1>1 DEF Locals, Sound
  <2>3. i.n >= m.cidx.n
    <3> HIDE DEF i, m
    <3> QED
      BY <1>1, <2>1
  <2>4. UNCHANGED <<val, idx>> \/ CAS2(k, m.cval, m.cidx, m.cval, i)
    BY <1>6 DEF CDeqMark, CAS2Fails
  <2> QED
    BY <1>2, <1>3, <2>1, <2>2, <2>3, <2>4
<1> QED
  BY <1>4, <1>5, <1>6

LEMMA PStepMoves ==
  ASSUME Typed, NEW t \in Threads, UNCHANGED <<client, start>>,
         client.kind = "PRQ",
         \/ EnqClaim(t) \/ EnqMove(t) \/ EnqPut(t) \/ EnqUnclaim(t)
         \/ PDeqTake(t) \/ PDeqMark(t) \/ DeqUnclaim(t) \/ PDeqSkip(t)
  PROVE  Shared' /\ Moves
<1> DEFINE m == me[t]
           k == Cell(t)
<1>1. /\ UNCHANGED <<head, tail, issued>>
      /\ m \in Locals /\ Sound(m) /\ k \in Cells /\ idx[k] \in Words
      /\ val[k] \in Values /\ idx[k].n \in Nat /\ idx[k].n \in Tickets
      /\ idx[k].top \in BOOLEAN
      /\ m.ticket \in Tickets /\ m.ticket + RingSize \in Tickets
      /\ m.ticket \in Nat /\ m.cidx \in Words /\ m.cidx.n \in Nat
      /\ m.cidx.top \in BOOLEAN /\ m.item \in Values
      /\ val \in [Cells -> Values] /\ idx \in [Cells -> Words]
  <2>1. UNCHANGED <<head, tail, issued>>
    BY DEF EnqClaim, EnqMove, EnqPut, EnqUnclaim, PDeqTake, PDeqMark,
           DeqUnclaim, PDeqSkip, Return, Leave, Goto, Become, history
  <2>2. m.ticket \in 0 .. MaxTicket /\ m.cidx \in Words /\ m.item \in Values
    BY Mine, ValueType DEF Locals
  <2> QED
    BY <2>1, <2>2, Mine, TicketType, WordType DEF Typed, Shared
<1>2. CASE UNCHANGED <<val, idx>>
  BY <1>1, <1>2, SharedSame DEF Typed, Shared
<1>3. ASSUME NEW w \in Values, val' = [val EXCEPT ![k] = w], idx' = idx
      PROVE  Shared' /\ Moves
  <2>1. idx' = [idx EXCEPT ![k] = idx[k]] /\ idx[k].n >= idx[k].n
    BY <1>1, <1>3
  <2> QED
    BY <1>1, <1>3, <2>1, CellMoves
<1>4. ASSUME NEW i \in Words, i.n >= idx[k].n, val' = val,
             idx' = [idx EXCEPT ![k] = i]
      PROVE  Shared' /\ Moves
  <2>1. val' = [val EXCEPT ![k] = val[k]]
    BY <1>1, <1>4
  <2> QED
    BY <1>1, <1>4, <2>1, CellMoves
<1>5. CASE EnqClaim(t) \/ EnqPut(t) \/ PDeqTake(t) \/ DeqUnclaim(t)
  BY <1>1, <1>2, <1>3, <1>5, ValueType DEF EnqClaim, EnqPut, PDeqTake, DeqUnclaim
<1>6. CASE EnqUnclaim(t)
  <2>1. \E w \in Values : val' = [val EXCEPT ![k] = w] /\ idx' = idx
    BY <1>1, <1>6, ValueType DEF EnqUnclaim
  <2> QED
    BY <1>3, <2>1
<1>7. CASE EnqMove(t)
  <2> DEFINE i == Word(m.ticket + RingSize, FALSE)
  <2>1. i \in Words /\ i.n = m.ticket + RingSize
    BY <1>1, WordType
  <2>2. m.cidx.n <= m.ticket
    BY <1>1, <1>7 DEF EnqMove, At, Sound, Usable
  <2>3. i.n >= m.cidx.n
    <3> HIDE DEF i, m
    <3> QED
      BY <1>1, <2>1, <2>2
  <2> QED
    BY <1>2, <1>4, <1>7, <2>1, <2>3 DEF EnqMove, Unmoved
<1>8. CASE PDeqSkip(t)
  <2> DEFINE i == Word(m.ticket + RingSize, m.cidx.top)
  <2>1. i \in Words /\ i.n = m.ticket + RingSize
    BY <1>1, WordType
  <2>2. m.cidx.n <= m.ticket + RingSize
    BY <1>1, <1>8 DEF PDeqSkip, At, Sound, InTurn
  <2>3. i.n >= m.cidx.n
    <3> HIDE DEF i, m
    <3> QED
      BY <1>1, <2>1, <2>2
  <2> QED
    BY <1>2, <1>4, <1>8, <2>1, <2>3 DEF PDeqSkip, Unmoved
<1>9. CASE PDeqMark(t)
  <2> DEFINE i == [idx[k] EXCEPT !.top = idx[k].top \/ Unmoved(t)]
  <2>1. i \in Words /\ i.n = idx[k].n
    <3>1. (idx[k].top \/ Unmoved(t)) \in BOOLEAN
      BY <1>1
    <3> QED
      BY <1>1, <3>1 DEF Words
  <2>2. idx' = [idx EXCEPT ![k] = i] /\ val' = val
    BY <1>9 DEF PDeqMark
  <2>3. i.n >= idx[k].n
    BY <1>1, <2>1
  <2> QED
    BY <1>4, <2>1, <2>2, <2>3
<1> QED
  BY <1>5, <1>6, <1>7, <1>8, <1>9

----------------------------------------------------------------------------
(* A new call starts from fresh locals. *)
LEMMA CallStep ==
  ASSUME Typed, NEW t \in Threads, UNCHANGED <<client, start>>,
         CallEnqueue(t) \/ CallDequeue(t)
  PROVE  /\ Goes(t) /\ Shared' /\ Moves /\ me[t].at = "idle"
         /\ UNCHANGED <<head, tail, val, idx>>
         /\ \/ CallDequeue(t) /\ me'[t].at = "deqDraw" /\ issued' = issued
            \/ /\ me'[t].at = "enqDraw" /\ issued' = issued + 1
               /\ me'[t].item = issued + 1
<1> DEFINE m == me[t]
<1>1. /\ me[t].at = "idle" /\ UNCHANGED <<head, tail, val, idx>>
      /\ me \in [Threads -> Locals] /\ m \in Locals /\ Sound(m)
      /\ issued \in 0 .. MaxItems /\ client.items \in 0 .. MaxItems
  BY ClientType DEF CallEnqueue, CallDequeue, At, Typed, Shared
<1>2. CASE CallDequeue(t)
  <2>1. me' = [me EXCEPT ![t] = [m EXCEPT !.at = "deqDraw"]] /\ issued' = issued
    BY <1>1, <1>2 DEF CallDequeue
  <2>2. [m EXCEPT !.at = "deqDraw"] \in Locals
    BY <1>1 DEF Locals, Places
  <2>3. Sound([m EXCEPT !.at = "deqDraw"])
    BY <1>1, <2>2 DEF Sound, Locals, Enqueuing, Usable, InTurn
  <2>4. me'[t].at = "deqDraw"
    BY <1>1, <2>1 DEF Locals
  <2> QED
    BY <1>1, <1>2, <2>1, <2>2, <2>3, <2>4, SharedSame DEF Goes
<1>3. CASE CallEnqueue(t)
  <2> DEFINE w == [Fresh EXCEPT !.at = "enqDraw", !.item = issued + 1]
  <2>1. me' = [me EXCEPT ![t] = w] /\ issued' = issued + 1 /\ issued < client.items
    BY <1>3 DEF CallEnqueue
  <2>2. issued + 1 \in Items /\ issued' \in 0 .. MaxItems
    BY <1>1, <2>1 DEF Items
  <2>3. w \in Locals
    BY <2>2, FreshType DEF Locals, Places
  <2>4. w.at = "enqDraw" /\ w.item = issued + 1 /\ w.cval = Nil
    BY FreshType DEF Fresh
  <2>5. Sound(w)
    BY <2>2, <2>4, ValueType DEF Sound, Enqueuing, Usable, InTurn
  <2>6. me'[t] = w
    BY <1>1, <2>1
  <2> HIDE DEF w
  <2> QED
    BY <1>1, <2>1, <2>2, <2>3, <2>4, <2>5, <2>6, SharedSame DEF Goes
<1> QED
  BY <1>2, <1>3

(* Every step but a call leaves issued alone and keeps the types. *)
LEMMA StepStep ==
  ASSUME Typed, NEW t \in Threads, UNCHANGED <<client, start>>,
         \/ client.kind = "PRQ" /\ PStep(t)
         \/ client.kind = "CRQ" /\ CStep(t)
  PROVE  Goes(t) /\ Shared' /\ Moves /\ issued' = issued
<1>1. Goes(t)
  BY EnqueuerGoes, DequeuerGoes DEF PStep, CStep, BaseStep
<1>2. issued' = issued
  <2> USE DEF Return, Goto, Leave, Become, history
  <2>1. CASE BaseStep(t)
    BY <2>1 DEF BaseStep, EnqDraw, EnqReadIdx, EnqFull, EnqClose, DeqDraw,
       DeqReadIdx, DeqWait, DeqDecide, DeqTail, FixTail, FixHead, FixAgain,
       FixCas
  <2>2. CASE PStep(t) /\ ~ BaseStep(t)
    BY <2>2 DEF PStep, PEnqReadVal, PEnqUnsafe, EnqClaim, EnqMove, EnqPut,
       EnqUnclaim, PDeqReadVal, PDeqTake, DeqRecheck, PDeqMark, DeqUnclaim,
       PDeqSkip
  <2>3. CASE CStep(t) /\ ~ BaseStep(t)
    BY <2>3 DEF CStep, CEnqReadVal, CEnqUnsafe, CEnqPut, CDeqReadVal,
       CDeqTake, CDeqMark, CDeqSkip
  <2> QED
    BY <2>1, <2>2, <2>3
<1>3. CASE UNCHANGED <<head, tail, val, idx>>
  BY <1>1, <1>2, <1>3, SharedSame DEF Typed, Shared
<1>4. CASE ~ UNCHANGED <<head, tail, val, idx>>
  <2>1. CASE BaseStep(t)
    <3>1. EnqDraw(t) \/ EnqClose(t) \/ DeqDraw(t) \/ FixCas(t)
      BY <1>4, <2>1 DEF BaseStep, EnqReadIdx, EnqFull, DeqReadIdx, DeqWait,
         DeqDecide, DeqTail, FixTail, FixHead, FixAgain
    <3> QED
      BY <1>1, <1>2, <3>1, TailStep
  <2>2. CASE client.kind = "PRQ" /\ PStep(t) /\ ~ BaseStep(t)
    <3>1. \/ EnqClaim(t) \/ EnqMove(t) \/ EnqPut(t) \/ EnqUnclaim(t)
          \/ PDeqTake(t) \/ PDeqMark(t) \/ DeqUnclaim(t) \/ PDeqSkip(t)
      BY <1>4, <2>2 DEF PStep, PEnqReadVal, PEnqUnsafe, PDeqReadVal, DeqRecheck
    <3> QED
      BY <1>1, <1>2, <2>2, <3>1, PStepMoves
  <2>3. CASE client.kind = "CRQ" /\ CStep(t) /\ ~ BaseStep(t)
    <3>1. CEnqPut(t) \/ CDeqTake(t) \/ CDeqMark(t) \/ CDeqSkip(t)
      BY <1>4, <2>3 DEF CStep, CEnqReadVal, CEnqUnsafe, CDeqReadVal
    <3> QED
      BY <1>1, <1>2, <2>3, <3>1, CStepMoves
  <2> QED
    BY <2>1, <2>2, <2>3
<1> QED
  BY <1>3, <1>4

LEMMA TypedStep ==
  ASSUME Typed, [Next]_vars
  PROVE  Typed' /\ Moves
<1>1. ASSUME NEW t \in Threads, Goes(t), Shared', UNCHANGED <<client, start>>
      PROVE  Typed'
  <2>1. PICK m \in Locals : me' = [me EXCEPT ![t] = m] /\ Sound(m)
    BY <1>1 DEF Goes
  <2>2. me' \in [Threads -> Locals]
    BY <2>1 DEF Typed
  <2>3. \A u \in Threads : Sound(me'[u])
    BY <2>1 DEF Typed
  <2>4. \A u \in Threads : Sound(me[u])'
    BY <1>1, <2>3 DEF Sound
  <2> QED
    BY <1>1, <2>2, <2>4 DEF Typed
<1>2. CASE UNCHANGED vars
  <2>1. UNCHANGED <<client, start, head, tail, val, idx, me, issued>>
    BY <1>2 DEF vars, history
  <2>2. Shared' /\ Moves
    BY <2>1, SharedSame DEF Typed, Shared
  <2>3. \A u \in Threads : Sound(me[u])'
    BY <2>1 DEF Typed, Sound
  <2> QED
    BY <2>1, <2>2, <2>3 DEF Typed
<1>3. CASE Next /\ Call
  <2>1. PICK t \in Threads : CallEnqueue(t) \/ CallDequeue(t)
    BY <1>3, ClientType DEF Call, Typed, Shared
  <2>2. UNCHANGED <<client, start>>
    BY <1>3 DEF Next, PNext, CNext
  <2> QED
    BY <1>1, <2>1, <2>2, CallStep
<1>4. CASE Next /\ ~ Call
  <2>1. UNCHANGED <<client, start>>
    BY <1>4 DEF Next, PNext, CNext
  <2>2. PICK t \in Threads : \/ client.kind = "PRQ" /\ PStep(t)
                             \/ client.kind = "CRQ" /\ CStep(t)
    BY <1>4 DEF Next, PNext, CNext
  <2> QED
    BY <1>1, <2>1, <2>2, StepStep
<1> QED
  BY <1>2, <1>3, <1>4

----------------------------------------------------------------------------
(* Two tickets of one turn of the ring name different cells. *)
LEMMA SameCell ==
  ASSUME NEW n \in Nat, NEW m \in n .. n + RingSize - 1,
         m % RingSize = n % RingSize
  PROVE  m = n
<1> DEFINE r == n % RingSize
           p == n \div RingSize
           q == m \div RingSize
<1>1. m \in Nat
  OBVIOUS
<1>2. /\ r \in Nat /\ p \in Nat /\ q \in Nat
      /\ n = RingSize * p + r /\ m = RingSize * q + r
  <2>1. ASSUME NEW x \in Nat
        PROVE  /\ x % RingSize \in Nat /\ x \div RingSize \in Nat
               /\ x = RingSize * (x \div RingSize) + (x % RingSize)
    OBVIOUS
  <2> QED
    BY <1>1, <2>1
<1> HIDE DEF r, p, q
<1>3. ~ q < p
  <2>1. SUFFICES ASSUME q < p PROVE FALSE
    OBVIOUS
  <2>2. PICK d \in Nat : p = q + 1 + d
    <3>1. p - q - 1 \in Nat /\ p = q + 1 + (p - q - 1)
      BY <1>2, <2>1
    <3> QED
      BY <3>1
  <2>3. RingSize * p = RingSize * q + RingSize + RingSize * d
    BY <1>2, <2>2
  <2>4. RingSize * d \in Nat /\ RingSize * q \in Nat
    BY <1>2
  <2> QED
    BY <1>2, <2>3, <2>4
<1>4. ~ p < q
  <2>1. SUFFICES ASSUME p < q PROVE FALSE
    OBVIOUS
  <2>2. PICK d \in Nat : q = p + 1 + d
    <3>1. q - p - 1 \in Nat /\ q = p + 1 + (q - p - 1)
      BY <1>2, <2>1
    <3> QED
      BY <3>1
  <2>3. RingSize * q = RingSize * p + RingSize + RingSize * d
    BY <1>2, <2>2
  <2>4. RingSize * d \in Nat /\ RingSize * p \in Nat
    BY <1>2
  <2> QED
    BY <1>2, <2>3, <2>4
<1> QED
  BY <1>2, <1>3, <1>4

(* A fresh cell's index is the first ticket that names it. *)
LEMMA FirstTicket ==
  ASSUME NEW k \in Cells, NEW s \in 0 .. MaxTicket
  PROVE  LET n == CHOOSE i \in s .. s + RingSize - 1 : i % RingSize = k
         IN  n \in s .. s + RingSize - 1 /\ n % RingSize = k
<1>1. \E i \in s .. s + RingSize - 1 : i % RingSize = k
  <2> DEFINE r == s % RingSize
             d == IF k >= r THEN k - r ELSE k + RingSize - r
             q == s \div RingSize
  <2>1. /\ r \in 0 .. RingSize - 1 /\ k \in 0 .. RingSize - 1
        /\ q \in Nat /\ s = RingSize * q + r
    BY DEF Cells
  <2>2. d \in 0 .. RingSize - 1 /\ (r + d = k \/ r + d = RingSize + k)
    BY <2>1
  <2>3. (s + d) % RingSize = k
    <3> HIDE DEF r, d, q
    <3>1. ASSUME NEW x \in Nat, s + d = RingSize * x + k
          PROVE  (s + d) % RingSize = k
      <4>1. k \in 0 .. RingSize - 1
        BY <2>1
      <4>2. (RingSize * x + k) % RingSize = k
        BY <4>1
      <4> QED
        BY <3>1, <4>2
    <3>2. RingSize * (q + 1) = RingSize * q + RingSize /\ RingSize * q \in Nat
      BY <2>1
    <3>3. s + d = RingSize * q + k \/ s + d = RingSize * (q + 1) + k
      BY <2>1, <2>2, <3>2
    <3> QED
      BY <2>1, <3>1, <3>3
  <2>4. s + d \in s .. s + RingSize - 1
    BY <2>2
  <2> QED
    BY <2>3, <2>4
<1> QED
  BY <1>1

LEMMA InitTyped == Init => Typed
<1> SUFFICES ASSUME Init PROVE Typed
  OBVIOUS
<1>0. /\ client \in Clients /\ start \in Starts /\ issued = 0
      /\ head = start /\ tail = Word(start, FALSE)
      /\ val = [k \in Cells |-> Nil] /\ me = [t \in Threads |-> Fresh]
      /\ idx = [k \in Cells |->
                  Word(CHOOSE n \in start .. start + RingSize - 1 :
                         n % RingSize = k, FALSE)]
  BY DEF Init
<1>1. head \in 0 .. MaxTicket /\ tail \in Words /\ start \in 0 .. MaxTicket
  BY <1>0, TicketType, WordType
<1>2. \A k \in Cells : idx[k] \in Words
  <2> SUFFICES ASSUME NEW k \in Cells PROVE idx[k] \in Words
    OBVIOUS
  <2> DEFINE n == CHOOSE i \in start .. start + RingSize - 1 : i % RingSize = k
  <2>1. idx[k] = Word(n, FALSE)
    BY <1>0
  <2>2. n \in start .. start + RingSize - 1
    BY <1>1, FirstTicket
  <2> HIDE DEF n
  <2>3. n \in Tickets
    BY <1>1, <2>2 DEF Tickets
  <2>4. Word(n, FALSE) \in Words
    BY ONLY <2>3, WordType
  <2> QED
    BY ONLY <2>1, <2>4
<1>3. idx \in [Cells -> Words]
  <2> DEFINE f(k) == Word(CHOOSE n \in start .. start + RingSize - 1 :
                            n % RingSize = k, FALSE)
  <2>1. idx = [k \in Cells |-> f(k)]
    BY <1>0
  <2> HIDE DEF f
  <2> QED
    BY <1>2, <2>1
<1>4. me \in [Threads -> Locals] /\ \A t \in Threads : Sound(me[t])
  BY <1>0, FreshType
<1>5. val \in [Cells -> Values] /\ \A k \in Cells : val[k] \notin Bottoms
  BY <1>0, ValueType
<1>6. client \in Clients /\ start \in Starts /\ issued \in 0 .. MaxItems
  BY <1>0
<1> QED
  BY <1>1, <1>3, <1>4, <1>5, <1>6 DEF Typed, Shared

----------------------------------------------------------------------------
(* Whatever t does to the values of the cells, it leaves the claims of the *)
(* others alone, and has one itself only where it may.                     *)
LEMMA ClaimsAfter ==
  ASSUME Typed, ClaimHasOwner, NEW t \in Threads, Goes(t),
         \A k \in Cells : val'[k] \in Bottoms /\ val'[k] # Bottom(t) =>
           val'[k] = val[k],
         \A k \in Cells : val'[k] = Bottom(t) =>
           me'[t].at \in Claiming /\ k = me'[t].ticket % RingSize
  PROVE  ClaimHasOwner'
<1>1. \A u \in Threads \ {t} : me'[u] = me[u]
  BY DEF Goes, Typed
<1> SUFFICES ASSUME NEW u \in Threads, NEW k \in Cells, val'[k] = Bottom(u)
             PROVE  me'[u].at \in Claiming /\ k = me'[u].ticket % RingSize
  BY DEF ClaimHasOwner, Cell, Claiming, Bottom
<1>2. CASE u = t
  BY <1>2
<1>3. CASE u # t
  <2>1. val'[k] \in Bottoms /\ val'[k] # Bottom(t)
    BY <1>3, ValueType
  <2>2. val[k] = Bottom(u)
    BY <2>1
  <2> QED
    BY <1>1, <1>3, <2>2 DEF ClaimHasOwner, Cell, Claiming
<1> QED
  BY <1>2, <1>3

(* A thread without a claim that leaves the values alone, or empties its   *)
(* cell, gets no claim.                                                    *)
LEMMA NoClaim ==
  ASSUME Typed, ClaimHasOwner, NEW t \in Threads, Goes(t),
         me[t].at \notin Claiming,
         val' = val \/ val' = [val EXCEPT ![Cell(t)] = Nil]
  PROVE  ClaimHasOwner'
<1>1. \A k \in Cells : val[k] # Bottom(t)
  BY DEF ClaimHasOwner, Claiming
<1>2. \A k \in Cells : val'[k] = val[k] \/ val'[k] = Nil
  BY DEF Typed, Shared
<1> QED
  BY <1>1, <1>2, ValueType, ClaimsAfter

LEMMA ClaimStep ==
  ASSUME Typed, ClaimHasOwner, NEW t \in Threads, Goes(t), PStep(t)
  PROVE  ClaimHasOwner'
<1> DEFINE m == me[t]
<1>1. /\ \A k \in Cells : val[k] = Bottom(t) => m.at \in Claiming /\ k = Cell(t)
      /\ val \in [Cells -> Values] /\ me \in [Threads -> Locals] /\ m \in Locals
      /\ Cell(t) \in Cells
  BY Mine DEF Typed, Shared, ClaimHasOwner, Claiming
<1>2. ASSUME NEW there \in Claiming, me'[t] = [m EXCEPT !.at = there] \/ me'[t] = Left(t, there)
      PROVE  me'[t].at \in Claiming /\ me'[t].ticket % RingSize = Cell(t)
  BY <1>1, <1>2 DEF Locals, Left, Cell, Claiming
<1>3. CASE BaseStep(t)
  <2>1. val' = val /\ m.at \notin Claiming
    BY <1>3 DEF BaseStep, EnqDraw, EnqReadIdx, EnqFull, EnqClose, DeqDraw,
       DeqReadIdx, DeqWait, DeqDecide, DeqTail, FixTail, FixHead, FixAgain,
       FixCas, At, Claiming
  <2> QED
    BY <2>1, NoClaim
<1>4. CASE \/ PEnqReadVal(t) \/ PEnqUnsafe(t) \/ PDeqReadVal(t) \/ PDeqTake(t)
           \/ DeqRecheck(t) \/ PDeqMark(t) \/ DeqUnclaim(t) \/ PDeqSkip(t)
  <2>1. /\ val' = val \/ val' = [val EXCEPT ![Cell(t)] = Nil]
        /\ m.at \notin Claiming
    BY <1>4 DEF PEnqReadVal, PEnqUnsafe, PDeqReadVal, PDeqTake, DeqRecheck,
       PDeqMark, DeqUnclaim, PDeqSkip, At, Claiming
  <2> QED
    BY <2>1, NoClaim
<1>5. CASE EnqClaim(t)
  <2>1. CASE val' = [val EXCEPT ![Cell(t)] = Bottom(t)] /\ Goto(t, "enqMove")
    <3>1. m.at \notin Claiming
      BY <1>5 DEF EnqClaim, At, Claiming
    <3>2. me'[t].at \in Claiming /\ me'[t].ticket % RingSize = Cell(t)
      BY <1>1, <1>2, <2>1 DEF Goto, Become, Claiming
    <3> QED
      BY <1>1, <2>1, <3>1, <3>2, ClaimsAfter
  <2>2. CASE val' = val
    <3>1. m.at \notin Claiming
      BY <1>5 DEF EnqClaim, At, Claiming
    <3> QED
      BY <2>2, <3>1, NoClaim
  <2> QED
    BY <1>5, <2>1, <2>2 DEF EnqClaim
<1>6. CASE EnqMove(t)
  <2>1. val' = val /\ (Leave(t, "enqPut") \/ Leave(t, "enqUnclaim"))
    BY <1>6 DEF EnqMove
  <2>2. me'[t].at \in Claiming /\ me'[t].ticket % RingSize = Cell(t)
    BY <1>1, <1>2, <2>1 DEF Leave, Become, Claiming
  <2> QED
    BY <1>1, <2>1, <2>2, ClaimsAfter
<1>7. CASE EnqPut(t)
  <2>1. m.item \in Values /\ m.item \notin Bottoms
    BY <1>1, ValueType DEF Locals
  <2>2. CASE val' = [val EXCEPT ![Cell(t)] = m.item]
    <3>1. \A k \in Cells : val'[k] = IF k = Cell(t) THEN m.item ELSE val[k]
      BY <1>1, <2>2
    <3> QED
      BY <1>1, <2>1, <3>1, ValueType, ClaimsAfter
  <2>3. CASE val[Cell(t)] # Bottom(t) /\ val' = val
    BY <1>1, <2>3, ClaimsAfter
  <2> QED
    BY <1>7, <2>2, <2>3 DEF EnqPut
<1>8. CASE EnqUnclaim(t)
  <2>1. \A k \in Cells : val'[k] = IF k = Cell(t) /\ val[k] = Bottom(t)
                                   THEN Nil ELSE val[k]
    BY <1>1, <1>8 DEF EnqUnclaim
  <2> QED
    BY <1>1, <2>1, ValueType, ClaimsAfter
<1> QED
  BY <1>3, <1>4, <1>5, <1>6, <1>7, <1>8 DEF PStep

LEMMA ClaimsKept ==
  ASSUME Typed, ClaimHasOwner, [Next]_vars
  PROVE  ClaimHasOwner'
<1>1. CASE UNCHANGED vars
  BY <1>1 DEF vars, ClaimHasOwner, Cell, Bottom
<1>2. CASE client.kind = "CRQ" /\ Next
  <2>1. client' = client /\ Shared'
    BY <1>2, TypedStep DEF Next, PNext, CNext, Typed
  <2>2. \A k \in Cells : val'[k] \notin Bottoms
    BY <1>2, <2>1 DEF Shared
  <2> QED
    BY <2>2, ValueType DEF ClaimHasOwner, Bottom
<1>3. CASE PNext /\ Call
  <2>1. PICK t \in Threads : CallEnqueue(t) \/ CallDequeue(t)
    BY <1>3, ClientType DEF Call, Typed, Shared
  <2>2. Goes(t) /\ me[t].at = "idle" /\ val' = val
    BY <1>3, <2>1, CallStep DEF PNext
  <2> QED
    BY <2>2, NoClaim DEF Claiming
<1>4. CASE PNext /\ ~ Call
  <2>1. PICK t \in Threads : PStep(t)
    BY <1>4 DEF PNext
  <2>2. Goes(t)
    BY <1>4, <2>1, StepStep DEF PNext
  <2> QED
    BY <2>1, <2>2, ClaimStep
<1> QED
  BY <1>1, <1>2, <1>3, <1>4 DEF Next, PNext, CNext

LEMMA InitClaims == Init => ClaimHasOwner
  BY ValueType DEF Init, ClaimHasOwner

----------------------------------------------------------------------------
(* The first enqueue: as long as it is the only one, and nobody has drawn a*)
(* ticket from head, nobody gets in its way.                               *)
Lonely == issued <= 1 /\ head = start

FirstCell == start % RingSize

(* How far the first enqueue is. *)
FirstTry(t) ==
  LET m    == me[t]
      free == m.at \in {"enqDraw", "enqIdx", "enqVal", "enqClaim"}
                \/ (m.at = "enqPut" /\ client.kind = "CRQ")
  IN
  /\ m.at \in {"enqDraw", "enqIdx", "enqVal", "enqClaim", "enqMove", "enqPut"}
  /\ IF m.at = "enqDraw" THEN tail = Word(start, FALSE) ELSE m.ticket = start
  /\ val[FirstCell] = IF free THEN Nil ELSE Bottom(t)
  /\ free \/ m.at = "enqMove" => idx[FirstCell] = Word(start, FALSE)
  /\ (free /\ m.at \notin {"enqDraw", "enqIdx"}) \/ m.at = "enqMove" =>
       m.cidx = Word(start, FALSE)

Untouched ==
  /\ tail = Word(start, FALSE)
  /\ val[FirstCell] = Nil
  /\ idx[FirstCell] = Word(start, FALSE)

FirstInv ==
  /\ head >= start
  /\ \A t \in Threads : me[t].at \in Drawn => head > start
  /\ \A t \in Threads : me[t].at \in Enqueuing => me[t].item \in 1 .. issued
  /\ \A t, u \in Threads :
       me[t].at \in Enqueuing /\ me[u].at \in Enqueuing
         /\ me[t].item = me[u].item => t = u
  /\ Lonely => /\ issued = 0 => Untouched
               /\ \A t \in Threads : me[t].at \in Enqueuing => FirstTry(t)

LEMMA InitFirst == Init => FirstInv
<1> SUFFICES ASSUME Init PROVE FirstInv
  OBVIOUS
<1>1. Typed /\ start \in 0 .. MaxTicket
  BY InitTyped DEF Init
<1>2. start \in Nat /\ FirstCell \in Cells
  BY <1>1, CellType DEF FirstCell
<1>3. head = start /\ \A t \in Threads : me[t].at = "idle"
  BY FreshType DEF Init
<1>4. idx[FirstCell] = Word(start, FALSE)
  <2> DEFINE n == CHOOSE i \in start .. start + RingSize - 1 :
                    i % RingSize = FirstCell
  <2>1. idx[FirstCell] = Word(n, FALSE)
    BY <1>2 DEF Init
  <2>2. n \in start .. start + RingSize - 1 /\ n % RingSize = FirstCell
    BY <1>1, <1>2, FirstTicket
  <2> HIDE DEF n
  <2>3. n = start
    BY <1>2, <2>2, SameCell DEF FirstCell
  <2> QED
    BY <2>1, <2>3
<1>5. tail = Word(start, FALSE) /\ val[FirstCell] = Nil
  BY <1>2 DEF Init
<1> QED
  BY <1>2, <1>3, <1>4, <1>5, PlaceType DEF FirstInv, Untouched

(* What a thread at one of these places does next. *)
LEMMA NextOfEnqueuer ==
  ASSUME NEW t \in Threads,
         \/ client.kind = "PRQ" /\ PStep(t)
         \/ client.kind = "CRQ" /\ CStep(t)
  PROVE  /\ me[t].at = "enqDraw" => EnqDraw(t)
         /\ me[t].at = "enqIdx" => EnqReadIdx(t)
         /\ me[t].at = "enqVal" => \/ client.kind = "PRQ" /\ PEnqReadVal(t)
                                   \/ client.kind = "CRQ" /\ CEnqReadVal(t)
         /\ me[t].at = "enqClaim" => client.kind = "PRQ" /\ EnqClaim(t)
         /\ me[t].at = "enqMove" => client.kind = "PRQ" /\ EnqMove(t)
         /\ me[t].at = "enqPut" => \/ client.kind = "PRQ" /\ EnqPut(t)
                                   \/ client.kind = "CRQ" /\ CEnqPut(t)
  BY DEF PStep, CStep, BaseStep, EnqDraw, EnqReadIdx, EnqFull, EnqClose,
     DeqDraw, DeqReadIdx, DeqWait, DeqDecide, DeqTail, FixTail, FixHead,
     FixAgain, FixCas, PEnqReadVal, PEnqUnsafe, EnqClaim, EnqMove, EnqPut,
     EnqUnclaim, PDeqReadVal, PDeqTake, DeqRecheck, PDeqMark, DeqUnclaim,
     PDeqSkip, CEnqReadVal, CEnqUnsafe, CEnqPut, CDeqReadVal, CDeqTake,
     CDeqMark, CDeqSkip, At

(* One step of the first enqueue. *)
LEMMA FirstTryStep ==
  ASSUME Typed, NEW t \in Threads, FirstTry(t), head = start,
         UNCHANGED <<client, start>>,
         \/ client.kind = "PRQ" /\ PStep(t)
         \/ client.kind = "CRQ" /\ CStep(t)
  PROVE  FirstTry(t)' \/ me'[t].at = "idle"
<1> DEFINE m == me[t]
           w == Word(start, FALSE)
<1>1. /\ m \in Locals /\ me \in [Threads -> Locals] /\ start \in Nat
      /\ FirstCell \in Cells /\ FirstCell' = FirstCell
      /\ val \in [Cells -> Values] /\ idx \in [Cells -> Words]
      /\ (m.ticket = start => Cell(t) = FirstCell)
      /\ w.n = start /\ w.top = FALSE
  BY CellType DEF Typed, Shared, FirstCell, Cell, Word
<1> USE DEF At, Become, Goto, Leave, Left, Return
<1>2. CASE m.at = "enqDraw"
  <2>1. EnqDraw(t)
    BY <1>2, NextOfEnqueuer
  <2>2. tail = w
    BY <1>2 DEF FirstTry
  <2>3. me' = [me EXCEPT ![t] = [m EXCEPT !.at = "enqIdx", !.ticket = start]]
    BY <1>1, <2>1, <2>2 DEF EnqDraw
  <2>4. me'[t].at = "enqIdx" /\ me'[t].ticket = start
    BY <1>1, <2>3 DEF Locals
  <2>5. val' = val /\ idx' = idx
    BY <2>1 DEF EnqDraw
  <2> QED
    BY <1>1, <1>2, <2>4, <2>5 DEF FirstTry
<1>3. CASE m.at = "enqIdx"
  <2>1. EnqReadIdx(t)
    BY <1>3, NextOfEnqueuer
  <2>2. me' = [me EXCEPT ![t] = [m EXCEPT !.at = "enqVal", !.cidx = idx[Cell(t)]]]
    BY <2>1 DEF EnqReadIdx
  <2>3. me'[t].at = "enqVal" /\ me'[t].ticket = m.ticket /\ me'[t].cidx = idx[Cell(t)]
    BY <1>1, <2>2 DEF Locals
  <2>4. val' = val /\ idx' = idx
    BY <2>1 DEF EnqReadIdx
  <2> QED
    BY <1>1, <1>3, <2>3, <2>4 DEF FirstTry
<1>4. CASE m.at = "enqVal"
  <2>1. \/ CEnqReadVal(t) /\ client.kind = "CRQ"
        \/ PEnqReadVal(t) /\ client.kind = "PRQ"
    BY <1>4, NextOfEnqueuer
  <2>2. m.cidx = w /\ m.ticket = start /\ val[Cell(t)] = Nil /\ idx[FirstCell] = w
    BY <1>1, <1>4 DEF FirstTry
  <2>3. val[Cell(t)] = Nil /\ m.cidx.n <= m.ticket /\ ~ m.cidx.top
    <3> HIDE DEF w, m
    <3>1. m.cidx.n = start /\ m.ticket = start /\ start <= start
      BY <1>1, <2>2
    <3> QED
      BY <1>1, <2>2, <3>1
  <2>4. /\ Goto(t, IF client.kind = "CRQ" THEN "enqPut" ELSE "enqClaim")
        /\ val' = val /\ idx' = idx
    BY <2>1, <2>3 DEF CEnqReadVal, CUsable, PEnqReadVal, PUsable
  <2>5. /\ me'[t].at = IF client.kind = "CRQ" THEN "enqPut" ELSE "enqClaim"
        /\ me'[t].ticket = m.ticket /\ me'[t].cidx = m.cidx
    BY <1>1, <2>4 DEF Locals
  <2>6. CASE client.kind = "CRQ"
    <3>1. me'[t].at = "enqPut" /\ client'.kind = "CRQ" /\ me'[t].cidx = w
      BY <2>2, <2>5, <2>6
    <3> QED
      BY <1>1, <2>2, <2>4, <2>5, <3>1 DEF FirstTry
  <2>7. CASE client.kind # "CRQ"
    <3>1. me'[t].at = "enqClaim" /\ me'[t].cidx = w
      BY <2>2, <2>5, <2>7
    <3> QED
      BY <1>1, <2>2, <2>4, <2>5, <3>1 DEF FirstTry
  <2> QED
    BY <2>6, <2>7
<1>5. CASE m.at = "enqClaim"
  <2>1. EnqClaim(t)
    BY <1>5, NextOfEnqueuer
  <2>2. m.cidx = w /\ m.ticket = start /\ val[Cell(t)] = Nil /\ idx[FirstCell] = w
    BY <1>1, <1>5 DEF FirstTry
  <2>3. /\ Goto(t, "enqMove") /\ idx' = idx
        /\ val' = [val EXCEPT ![FirstCell] = Bottom(t)]
    BY <1>1, <2>1, <2>2 DEF EnqClaim
  <2>4. me'[t].at = "enqMove" /\ me'[t].ticket = m.ticket /\ me'[t].cidx = m.cidx
    BY <1>1, <2>3 DEF Locals
  <2>5. val'[FirstCell] = Bottom(t)
    BY <1>1, <2>3
  <2> QED
    BY <1>1, <2>2, <2>3, <2>4, <2>5 DEF FirstTry
<1>6. CASE m.at = "enqMove"
  <2>1. EnqMove(t)  /\ client.kind = "PRQ"
    BY <1>6, NextOfEnqueuer
  <2>2. /\ m.cidx = w /\ m.ticket = start /\ val[FirstCell] = Bottom(t)
        /\ idx[FirstCell] = w
    BY <1>1, <1>6 DEF FirstTry
  <2>3. Leave(t, "enqPut") /\ val' = val
    BY <1>1, <2>1, <2>2 DEF EnqMove, Unmoved
  <2>4. me'[t].at = "enqPut" /\ me'[t].ticket = m.ticket
    BY <1>1, <2>3 DEF Locals
  <2> QED
    BY <1>1, <2>1, <2>2, <2>3, <2>4 DEF FirstTry
<1>7. CASE m.at = "enqPut"
  <2>1. (EnqPut(t) /\ client.kind = "PRQ") \/ (CEnqPut(t) /\ client.kind = "CRQ")
    BY <1>7, NextOfEnqueuer
  <2>2. CASE EnqPut(t) /\ client.kind = "PRQ"
    <3>1. val[Cell(t)] = Bottom(t)
      BY <1>1, <1>7, <2>2 DEF FirstTry
    <3>2. Return(t, Nil)
      BY <2>2, <3>1 DEF EnqPut
    <3> QED
      BY <1>1, <3>2, FreshType
  <2>3. CASE CEnqPut(t) /\ client.kind = "CRQ"
    <3>1. val[Cell(t)] = Nil /\ idx[Cell(t)] = m.cidx
      BY <1>1, <1>7, <2>3 DEF FirstTry
    <3>2. Return(t, Nil)
      BY <2>3, <3>1 DEF CEnqPut, CAS2Fails
    <3> QED
      BY <1>1, <3>2, FreshType
  <2> QED
    BY <2>1, <2>2, <2>3
<1> QED
  BY <1>2, <1>3, <1>4, <1>5, <1>6, <1>7 DEF FirstTry

LEMMA FirstStep ==
  ASSUME Typed, FirstInv, [Next]_vars
  PROVE  FirstInv'
<1>1. /\ Moves /\ Typed' /\ start' = start /\ client' = client
      /\ head \in Nat /\ head' \in Nat /\ start \in Nat /\ issued \in Nat
      /\ head >= start /\ head' >= head /\ head' >= start
      /\ FirstCell' = FirstCell
  <2>1. Moves /\ Typed' /\ start' = start /\ client' = client
    BY TypedStep DEF Next, PNext, CNext, vars
  <2>2. head \in Nat /\ head' \in Nat /\ start \in Nat /\ issued \in Nat
    BY <2>1 DEF Typed, Shared
  <2> QED
    BY <2>1, <2>2 DEF FirstInv, Moves, FirstCell
<1>2. CASE UNCHANGED vars
  BY <1>2 DEF vars, history, FirstInv, Lonely, Untouched, FirstTry, FirstCell
<1>3. ASSUME NEW t \in Threads, Goes(t), CallEnqueue(t) \/ CallDequeue(t)
      PROVE  FirstInv'
  <2>1. /\ me[t].at = "idle" /\ UNCHANGED <<head, tail, val, idx>>
        /\ \/ me'[t].at = "deqDraw" /\ issued' = issued
           \/ /\ me'[t].at = "enqDraw" /\ issued' = issued + 1
              /\ me'[t].item = issued + 1
    BY <1>1, <1>3, CallStep
  <2>2. \A u \in Threads \ {t} : me'[u] = me[u]
    BY <1>3 DEF Goes, Typed
  <2>3. \A u \in Threads : me'[u].at \in Drawn => head' > start'
    BY <1>1, <2>1, <2>2, PlaceType DEF FirstInv, Enqueuing
  <2>4. CASE me'[t].at = "deqDraw" /\ issued' = issued
    <3>1. \A u \in Threads : me'[u].at \in Enqueuing => u # t /\ me'[u] = me[u]
      BY <2>2, <2>4, PlaceType
    <3>2. \A u \in Threads : u # t /\ FirstTry(u) => FirstTry(u)'
      BY <1>1, <2>1, <2>2 DEF FirstTry
    <3>3. Lonely' => Lonely /\ (Untouched => Untouched')
      BY <1>1, <2>1, <2>4 DEF Lonely, Untouched
    <3> QED
      BY <1>1, <2>3, <2>4, <3>1, <3>2, <3>3 DEF FirstInv
  <2>5. CASE /\ me'[t].at = "enqDraw" /\ issued' = issued + 1
             /\ me'[t].item = issued + 1
    <3>1. \A u \in Threads : me'[u].at \in Enqueuing =>
            \/ u = t /\ me'[u].item = issued + 1
            \/ me'[u] = me[u] /\ me[u].item \in 1 .. issued
      BY <2>2, <2>5 DEF FirstInv
    <3>2. \A u \in Threads : me'[u].at \in Enqueuing => me'[u].item \in 1 .. issued'
      BY <1>1, <2>5, <3>1
    <3>3. \A u, x \in Threads :
            me'[u].at \in Enqueuing /\ me'[x].at \in Enqueuing
              /\ me'[u].item = me'[x].item => u = x
      <4>1. \A i \in 1 .. issued : i # issued + 1
        BY <1>1
      <4> QED
        BY <3>1, <4>1 DEF FirstInv
    <3>4. ASSUME Lonely'
          PROVE  /\ issued' = 0 => Untouched'
                 /\ \A u \in Threads : me'[u].at \in Enqueuing => FirstTry(u)'
      <4>1. issued = 0 /\ Lonely
        BY <1>1, <2>1, <2>5, <3>4 DEF Lonely
      <4>2. Untouched
        BY <4>1 DEF FirstInv
      <4>3. \A u \in Threads : me'[u].at \in Enqueuing => u = t
        BY <3>1, <4>1
      <4>4. FirstTry(t)'
        BY <1>1, <2>1, <2>5, <4>2 DEF FirstTry, Untouched
      <4> QED
        BY <1>1, <2>5, <4>3, <4>4
    <3> QED
      BY <1>1, <2>3, <3>2, <3>3, <3>4 DEF FirstInv
  <2> QED
    BY <2>1, <2>4, <2>5
<1>4. ASSUME NEW t \in Threads, Goes(t), issued' = issued,
             \/ client.kind = "PRQ" /\ PStep(t)
             \/ client.kind = "CRQ" /\ CStep(t)
      PROVE  FirstInv'
  <2>1. \A u \in Threads \ {t} : me'[u] = me[u]
    BY <1>4 DEF Goes, Typed
  <2>2. \/ /\ me[t].at \in Enqueuing
           /\ \/ me'[t].at = "idle"
              \/ me'[t].at \in Enqueuing /\ me'[t].item = me[t].item
        \/ /\ me[t].at \in Drawn \/ DeqDraw(t)
           /\ me'[t].at \in Dequeuing \cup {"idle"}
    BY <1>4, EnqueuerKeeps, DequeuerKeeps DEF PStep, CStep, BaseStep
  <2>3. me[t].at \in Drawn \/ DeqDraw(t) => head' > start
    <3>1. DeqDraw(t) => head' = head + 1
      BY DEF DeqDraw
    <3>2. me[t].at \in Drawn => head > start
      BY DEF FirstInv
    <3> QED
      BY <1>1, <3>1, <3>2
  <2>4. \A u \in Threads : me'[u].at \in Drawn => head' > start'
    <3>1. \A u \in Threads \ {t} : me'[u].at \in Drawn => head' > start'
      BY <1>1, <2>1 DEF FirstInv
    <3> QED
      BY <1>1, <2>2, <2>3, <3>1, PlaceType
  <2>5. \A u \in Threads : me'[u].at \in Enqueuing =>
          me[u].at \in Enqueuing /\ me'[u].item = me[u].item
    BY <2>1, <2>2, PlaceType
  <2>6. /\ \A u \in Threads : me'[u].at \in Enqueuing => me'[u].item \in 1 .. issued'
        /\ \A u, x \in Threads :
             me'[u].at \in Enqueuing /\ me'[x].at \in Enqueuing
               /\ me'[u].item = me'[x].item => u = x
    BY <1>4, <2>5 DEF FirstInv
  <2>7. ASSUME Lonely'
        PROVE  /\ issued' = 0 => Untouched'
               /\ \A u \in Threads : me'[u].at \in Enqueuing => FirstTry(u)'
    <3>1. Lonely /\ ~ head' > start /\ head = start
      BY <1>1, <1>4, <2>7 DEF Lonely
    <3>2. /\ me[t].at \in Enqueuing /\ me[t].item \in 1 .. issued
          /\ FirstTry(t)
      BY <2>2, <2>3, <3>1 DEF FirstInv
    <3>3. issued = 1
      BY <1>1, <3>1, <3>2 DEF Lonely
    <3>4. \A u \in Threads : me[u].at \in Enqueuing => u = t
      BY <3>2, <3>3 DEF FirstInv
    <3>5. FirstTry(t)' \/ me'[t].at = "idle"
      BY <1>1, <1>4, <3>1, <3>2, FirstTryStep
    <3> QED
      BY <1>4, <2>5, <3>3, <3>4, <3>5, PlaceType
  <2> QED
    BY <1>1, <2>4, <2>6, <2>7 DEF FirstInv
<1>5. CASE Next /\ Call
  <2>1. PICK t \in Threads : CallEnqueue(t) \/ CallDequeue(t)
    BY <1>5, ClientType DEF Call, Typed, Shared
  <2> QED
    BY <1>1, <1>3, <2>1, CallStep
<1>6. CASE Next /\ ~ Call
  <2>1. PICK t \in Threads : \/ client.kind = "PRQ" /\ PStep(t)
                             \/ client.kind = "CRQ" /\ CStep(t)
    BY <1>6 DEF Next, PNext, CNext
  <2> QED
    BY <1>1, <1>4, <2>1, StepStep
<1> QED
  BY <1>2, <1>5, <1>6

----------------------------------------------------------------------------
Inv == Typed /\ ClaimHasOwner /\ FirstInv

(* Whatever the threads do, what each of them knows of its cell and ticket *)
(* holds, claims have owners and the first enqueue is undisturbed: the     *)
(* inductive invariant.                                                    *)
THEOREM InvAlways == Spec => []Inv
<1>1. Init => Inv
  BY InitTyped, InitClaims, InitFirst DEF Inv
<1>2. Inv /\ [Next]_vars => Inv'
  BY TypedStep, ClaimsKept, FirstStep DEF Inv
<1> QED
  BY <1>1, <1>2, PTL DEF Spec

(* Every variable of a segment keeps its type, and no bottom is ever taken *)
(* for an item.                                                            *)
THEOREM TypeCorrect == Spec => []TypeOK
<1>1. Inv => TypeOK
  BY TicketType DEF Inv, Typed, Shared, Locals, Sound, TypeOK
<1> QED
  BY <1>1, InvAlways, PTL

(* In PRQueue, every bottom in a cell belongs to a thread that is still    *)
(* there to replace it or take it back.                                    *)
THEOREM ClaimsHaveOwners == Spec => []ClaimHasOwner
<1>1. Inv => ClaimHasOwner
  BY DEF Inv
<1> QED
  BY <1>1, InvAlways, PTL

(* A closed segment stays closed, and head, tail and the indices of the    *)
(* cells never go back, although fixState overwrites tail with a value     *)
(* computed from earlier loads.                                            *)
THEOREM NothingGoesBack == Spec => Monotone
<1>1. Inv /\ [Next]_vars => [Moves]_vars
  BY TypedStep DEF Inv
<1> QED
  BY <1>1, InvAlways, PTL DEF Spec, Monotone, Moves

(* The enqueue into a fresh segment, whose result LinkedRingQueue::enqueue *)
(* does not look at, never finds the ring full.                            *)
THEOREM FirstFits == Spec => []FirstEnqueueFits
<1>1. Inv => FirstEnqueueFits
  BY DEF Inv, FirstInv, Lonely, FirstTry, FirstEnqueueFits, Enqueuing
<1> QED
  BY <1>1, InvAlways, PTL

----------------------------------------------------------------------------
(* The models of the rings know a cell by its ticket only.  They may: the  *)
(* remapping of cells permutes them, for every number of cells and every   *)
(* size of cells and cache lines that the static_asserts admit.            *)

(* Two products that are one cell apart leave room for every remainder. *)
LEMMA Room ==
  ASSUME NEW c \in Nat, NEW r \in Nat, NEW s \in Nat, r < s
  PROVE  r * c + c <= s * c
<1>1. PICK d \in Nat : s = r + 1 + d
  <2>1. s - r - 1 \in Nat /\ s = r + 1 + (s - r - 1)
    OBVIOUS
  <2>. QED BY <2>1
<1>2. s * c = r * c + c + d * c
  BY <1>1
<1>3. d * c \in Nat /\ r * c \in Nat
  OBVIOUS
<1>. QED BY <1>2, <1>3

(* Quotient and remainder are what they are called, and determined. *)
LEMMA Divide ==
  ASSUME NEW n \in Nat \ {0}, NEW m \in Nat, NEW i \in 0 .. (n * m - 1)
  PROVE  /\ i % n \in 0 .. (n - 1)
         /\ i \div n \in 0 .. (m - 1)
         /\ i = n * (i \div n) + (i % n)
<1>1. n * m \in Nat
  OBVIOUS
<1>2. i \in Nat
  BY <1>1
<1>3. i % n \in 0 .. (n - 1) /\ i \div n \in Nat /\ i = n * (i \div n) + (i % n)
  BY <1>2
<1>4. i \div n < m
  <2>. DEFINE q == i \div n
  <2>1. q \in Nat
    BY <1>3
  <2>2. SUFFICES ASSUME ~ q < m PROVE FALSE
    OBVIOUS
  <2>. HIDE DEF q
  <2>3. m = q \/ m < q
    BY <2>1, <2>2
  <2>4. m * n <= q * n
    BY <2>1, <2>3, Room
  <2>5. i < n * m /\ n * m = m * n /\ n * q = q * n
    BY <1>1, <2>1
  <2>6. n * q <= i
    BY <1>2, <1>3 DEF q
  <2>. QED BY <1>1, <1>2, <2>1, <2>4, <2>5, <2>6
<1>. QED BY <1>3, <1>4

LEMMA Unique ==
  ASSUME NEW c \in Nat \ {0}, NEW r \in Nat, NEW s \in Nat,
         NEW q \in 0 .. (c - 1), NEW p \in 0 .. (c - 1),
         r * c + q = s * c + p
  PROVE  r = s /\ q = p
<1>1. r * c \in Nat /\ s * c \in Nat
  OBVIOUS
<1>2. ~ r < s
  BY <1>1, Room
<1>3. ~ s < r
  BY <1>1, Room
<1>. QED BY <1>1, <1>2, <1>3

(* Spreading over n lines of c cells permutes the cells; spreading over c  *)
(* lines of n cells undoes it.                                             *)
LEMMA SpreadPermutes ==
  ASSUME NEW n \in Nat \ {0}, NEW c \in Nat \ {0}
  PROVE  \A i \in 0 .. (n * c - 1) :
           /\ Spread(n, c, i) \in 0 .. (n * c - 1)
           /\ Spread(c, n, Spread(n, c, i)) = i
<1>1. SUFFICES ASSUME NEW i \in 0 .. (n * c - 1)
               PROVE  /\ Spread(n, c, i) \in 0 .. (n * c - 1)
                      /\ Spread(c, n, Spread(n, c, i)) = i
  OBVIOUS
<1>. DEFINE r == i % n
            q == i \div n
            j == r * c + q
<1>2. r \in 0 .. (n - 1) /\ q \in 0 .. (c - 1) /\ i = n * q + r
  BY Divide
<1>. HIDE DEF r, q
<1>3. r * c \in Nat /\ n * q = q * n /\ q * n \in Nat /\ n * c \in Nat /\ c * n = n * c
  BY <1>2
<1>4. j \in 0 .. (n * c - 1)
  <2>1. r * c + c <= n * c
    BY <1>2, Room
  <2>. QED BY <1>2, <1>3, <2>1
<1>5. j % c = q /\ j \div c = r
  <2>. HIDE DEF j
  <2>1. j \in 0 .. (c * n - 1)
    BY <1>3, <1>4
  <2>2. j % c \in 0 .. (c - 1) /\ j \div c \in 0 .. (n - 1)
        /\ j = c * (j \div c) + (j % c)
    BY <2>1, Divide
  <2>3. j = r * c + q
    BY DEF j
  <2>. DEFINE s == j \div c
              p == j % c
  <2>4. s \in Nat /\ p \in 0 .. (c - 1) /\ j = c * s + p
    BY <2>2
  <2>. HIDE DEF s, p
  <2>5. c * s = s * c
    BY <2>4
  <2>6. r = s /\ q = p
    BY <1>2, <2>3, <2>4, <2>5, Unique
  <2>. QED BY <2>6 DEF s, p
<1>6. Spread(n, c, i) = j
  BY DEF Spread, r, q
<1>7. Spread(c, n, j) = q * n + r
  BY <1>5 DEF Spread
<1>. QED BY <1>2, <1>3, <1>4, <1>6, <1>7

(* The cells of a ring or an array are permuted: each of them is the place *)
(* of exactly one i.  So two tickets meet in a cell when they are equal    *)
(* modulo the size, and only then, as in the models.                       *)
THEOREM RemapPermutes ==
  ASSUME NEW size \in Nat \ {0}, NEW cellSize \in Nat \ {0},
         NEW lineSize \in Nat \ {0}, Fits(size, cellSize, lineSize)
  PROVE  LET place(i) == Remap(size, cellSize, lineSize, i)
             Indices  == 0 .. (size - 1)
         IN  /\ \A i \in Indices : place(i) \in Indices
             /\ \A i, k \in Indices : place(i) = place(k) => i = k
             /\ \A k \in Indices : \E i \in Indices : place(i) = k
<1>1. CASE size * cellSize < lineSize
  <2>1. ~ size * cellSize >= lineSize
    BY <1>1
  <2>. QED BY <2>1 DEF Remap
<1>2. CASE size * cellSize >= lineSize
  <2>. DEFINE n == NumCacheLines(size, cellSize, lineSize)
              c == CellsPerCacheLine(cellSize, lineSize)
  <2>1. lineSize = cellSize * c /\ c \in Nat
    BY <1>2 DEF Fits, CellsPerCacheLine
  <2>2. size * cellSize = lineSize * n /\ n \in Nat
    BY <1>2 DEF Fits, NumCacheLines
  <2>3. \A i : Remap(size, cellSize, lineSize, i) = Spread(n, c, i)
    BY <1>2 DEF Remap
  <2>. HIDE DEF n, c
  <2>4. n # 0 /\ c # 0
    BY <2>1, <2>2
  <2>5. size = n * c /\ n * c = c * n
    <3>1. n * c \in Nat /\ n * c = c * n
      BY <2>1, <2>2
    <3>2. size * cellSize = (n * c) * cellSize
      BY <2>1, <2>2
    <3>3. ~ size < n * c /\ ~ n * c < size
      BY <3>1, <3>2, Room
    <3>. QED BY <3>1, <3>3
  <2>6. \A i \in 0 .. (size - 1) :
           /\ Spread(n, c, i) \in 0 .. (size - 1)
           /\ Spread(c, n, Spread(n, c, i)) = i
    BY <2>1, <2>2, <2>4, <2>5, SpreadPermutes
  <2>7. \A i \in 0 .. (size - 1) :
           /\ Spread(c, n, i) \in 0 .. (size - 1)
           /\ Spread(n, c, Spread(c, n, i)) = i
    BY <2>1, <2>2, <2>4, <2>5, SpreadPermutes
  <2>. QED BY <2>3, <2>6, <2>7
<1>3. size * cellSize < lineSize \/ size * cellSize >= lineSize
  OBVIOUS
<1>. QED BY <1>1, <1>2, <1>3

=============================================================================
