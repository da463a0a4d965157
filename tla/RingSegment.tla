---------------------------- MODULE RingSegment ----------------------------
(***************************************************************************)
(* QueueSegmentBase (include/LinkedRingQueue.hpp) and what its two heirs,  *)
(* PRQueue and CRQueue, have in common: one segment of a linked queue, a   *)
(* ring of cells.  An enqueuer draws a ticket from tail by fetch-and-add, a*)
(* dequeuer one from head; the ticket names the cell where they meet.  When*)
(* the ring is full, the segment closes for good.                          *)
(*                                                                         *)
(* One action is one access to shared memory.  Timestamps are left out, and*)
(* the permutation of the cells, which CacheRemap shows to be one.         *)
(***************************************************************************)
EXTENDS Integers, Sequences, FiniteSets

CONSTANTS
  Threads,     (* the worker threads; t itself stands for its bottom       *)
  RingSize,    (* RING_SIZE                                                *)
  Starts,      (* the tickets a segment may start from                     *)
  Patience,    (* how often the ring may be found full before the segment  *)
               (* is closed by force: 10                                   *)
  Snapshot,    (* is a dequeuer of PRQueue never interrupted between its   *)
               (* loads of the index and of the value of a cell?           *)
  MaxItems,    (* the most enqueues any client calls                       *)
  MaxTicket,   (* the most tickets drawn for any client                    *)
  Clients      (* client bounds: which segment, who enqueues, who dequeues,*)
               (* how many enqueues, how far head and tail are counted     *)

Kinds == {"PRQ", "CRQ"}

ASSUME RingAssumption ==
  /\ \A t \in Threads : t \notin 0 .. (MaxItems + 1)
  /\ RingSize \in Nat \ {0}
  /\ Snapshot \in BOOLEAN
  /\ {Patience, MaxItems, MaxTicket} \subseteq Nat
  /\ Starts \subseteq 0 .. MaxTicket
  /\ Clients \subseteq [kind : Kinds, enqueuers : SUBSET Threads,
                        dequeuers : SUBSET Threads,
                        items : 0 .. MaxItems, tickets : 0 .. MaxTicket]

Cells     == 0 .. (RingSize - 1)
Items     == 1 .. MaxItems       (* numbered in the order of the calls     *)
Nil       == 0                   (* nullptr                                *)
Bottom(t) == t                   (* threadLocalBottom                      *)
Bottoms   == {Bottom(t) : t \in Threads}
Values    == Items \cup Bottoms \cup {Nil}
Refused   == MaxItems + 1        (* enqueue returns false                  *)

Tickets   == 0 .. (MaxTicket + RingSize)
Words     == [n : Tickets, top : BOOLEAN]   (* 63 bits and the highest bit *)
Word(n, b) == [n |-> n, top |-> b]

VARIABLES
  client,   (* one of Clients, for good                                    *)
  start,    (* the ticket this segment starts from                         *)
  head,
  tail,     (* a word; top: the segment is closed                          *)
  val,      (* the cells                                                   *)
  idx,      (* words; top: the cell is unsafe                              *)
  me,       (* me[t]: where thread t is, and its locals                    *)
  issued,   (* history: enqueues called so far                             *)
  configs   (* history: what FifoMonitor makes of the calls                *)

history == <<issued, configs>>
vars    == <<client, start, head, tail, val, idx, me, history>>

Monitor == INSTANCE FifoMonitor WITH NoItem <- Nil, CanClose <- TRUE

Fresh == [at     |-> "idle",
          item   |-> Nil,              (* the item enqueued                *)
          ticket |-> 0,                (* tailticket or headticket         *)
          cidx   |-> Word(0, FALSE),   (* the index, and the value, of the *)
          cval   |-> Nil,              (* cell as loaded                   *)
          tt     |-> Word(0, FALSE),   (* tail, as loaded                  *)
          chead  |-> 0,                (* head, as loaded by fixState      *)
          count  |-> 0]                (* try_close; in dequeue, 0 while   *)
                                       (* r = 0 and 1 after that           *)
Init ==
  /\ client \in Clients
  /\ start \in Starts
  /\ head    = start
  /\ tail    = Word(start, FALSE)
  /\ val     = [k \in Cells |-> Nil]
  /\ idx     = [k \in Cells |->
                  Word(CHOOSE n \in start .. start + RingSize - 1 :
                         n % RingSize = k, FALSE)]
  /\ me      = [t \in Threads |-> Fresh]
  /\ issued  = 0
  /\ configs = Monitor!InitialConfigs

(* Thread t is at here, and the scheduler may run it. *)
At(t, here) ==
  /\ me[t].at = here
  /\ Snapshot /\ client.kind = "PRQ" =>
       \A u \in Threads \ {t} : me[u].at # "deqVal"

(* Thread t goes on with m for its locals. *)
Become(t, m)   == me' = [me EXCEPT ![t] = m] /\ UNCHANGED history
Goto(t, there) == Become(t, [me[t] EXCEPT !.at = there])

(* It leaves the cell, or will load it anew: what it loaded is dead. *)
Left(t, there) ==
  [me[t] EXCEPT !.at = there, !.cidx = Fresh.cidx, !.cval = Nil]
Leave(t, there) == Become(t, Left(t, there))

Return(t, r) ==
  /\ me' = [me EXCEPT ![t] = Fresh]
  /\ configs' = Monitor!Returned(configs, t, r)
  /\ UNCHANGED issued

Cell(t) == me[t].ticket % RingSize

(* The index of the cell still is what t loaded. *)
Unmoved(t) == idx[Cell(t)] = me[t].cidx

----------------------------------------------------------------------------
(* enqueue *)

CallEnqueue(t) ==
  /\ At(t, "idle")
  /\ issued < client.items
  /\ issued'  = issued + 1
  /\ me' = [me EXCEPT ![t] = [Fresh EXCEPT !.at = "enqDraw",
                                           !.item = issued + 1]]
  /\ configs' = Monitor!Called(configs, t, Monitor!EnqCall(issued + 1))
  /\ UNCHANGED <<head, tail, val, idx>>

EnqDraw(t) ==
  /\ At(t, "enqDraw")
  /\ tail.n < client.tickets
  /\ tail' = [tail EXCEPT !.n = @ + 1]
  /\ \/ tail.top /\ Return(t, Refused)
     \/ /\ ~ tail.top
        /\ Become(t, [me[t] EXCEPT !.at = "enqIdx", !.ticket = tail.n])
  /\ UNCHANGED <<head, val, idx>>

EnqReadIdx(t) ==
  /\ At(t, "enqIdx")
  /\ Become(t, [me[t] EXCEPT !.at = "enqVal", !.cidx = idx[Cell(t)]])
  /\ UNCHANGED <<head, tail, val, idx>>

(* Another ticket is drawn unless the ring is full. *)
EnqFull(t) ==
  /\ At(t, "enqFull")
  /\ Goto(t, IF me[t].ticket >= head + RingSize THEN "enqClose" ELSE "enqDraw")
  /\ UNCHANGED <<head, tail, val, idx>>

(* closeSegment: by CAS if no ticket has been drawn since, or by force,    *)
(* where only the thread that sets the bit takes the segment for closed.   *)
EnqClose(t) ==
  LET force == me[t].count + 1 > Patience
      wins  == IF force THEN ~ tail.top
               ELSE tail = Word(me[t].ticket + 1, FALSE)
  IN
  /\ At(t, "enqClose")
  /\ tail' = [tail EXCEPT !.top = @ \/ wins]
  /\ \/ wins /\ Return(t, Refused)
     \/ /\ ~ wins
        /\ Become(t, [me[t] EXCEPT !.at = "enqDraw",
                                   !.count = IF force THEN @ ELSE @ + 1])
  /\ UNCHANGED <<head, val, idx>>

----------------------------------------------------------------------------
(* dequeue *)

CallDequeue(t) ==
  /\ At(t, "idle")
  /\ me' = [me EXCEPT ![t].at = "deqDraw"]
  /\ configs' = Monitor!Called(configs, t, Monitor!DeqCall)
  /\ UNCHANGED <<head, tail, val, idx, issued>>

DeqDraw(t) ==
  /\ At(t, "deqDraw")
  /\ head < client.tickets
  /\ head' = head + 1
  /\ Become(t, [Fresh EXCEPT !.at = "deqIdx", !.ticket = head])
  /\ UNCHANGED <<tail, val, idx>>

DeqReadIdx(t) ==
  /\ At(t, "deqIdx")
  /\ Become(t, [me[t] EXCEPT !.at = "deqVal", !.cidx = idx[Cell(t)]])
  /\ UNCHANGED <<head, tail, val, idx>>

(* The cell is empty.  tail is loaded in the first round and in every      *)
(* 256th after that.                                                       *)
DeqWait(t) ==
  /\ At(t, "deqWait")
  /\ \/ Become(t, [me[t] EXCEPT !.at = "deqDecide", !.tt = tail])
     \/ me[t].count > 0 /\ Goto(t, "deqDecide")
  /\ UNCHANGED <<head, tail, val, idx>>

(* Nobody will come, so the cell is given up; or another round is made.    *)
(* After the first round the 4096 of them may be over at any time.         *)
DeqDecide(t) ==
  LET m        == me[t]
      hopeless == m.cidx.top \/ m.tt.top \/ m.tt.n < m.ticket + 1
  IN
  /\ At(t, "deqDecide")
  /\ \/ /\ hopeless \/ m.count > 0
        /\ Goto(t, IF m.cval \in Bottoms THEN "deqUnclaim" ELSE "deqSkip")
     \/ /\ ~ hopeless
        /\ Become(t, [Left(t, "deqIdx") EXCEPT !.count = 1])
  /\ UNCHANGED <<head, tail, val, idx>>

(* Were there more tickets drawn for items than we have seen? *)
DeqTail(t) ==
  /\ At(t, "deqTail")
  /\ Goto(t, IF tail.n <= me[t].ticket + 1 THEN "fixTail" ELSE "deqDraw")
  /\ UNCHANGED <<head, tail, val, idx>>

(* fixState: tail is moved up to head, unless the segment is closed. *)
FixTail(t) ==
  /\ At(t, "fixTail")
  /\ Become(t, [me[t] EXCEPT !.at = "fixHead", !.tt = tail])
  /\ UNCHANGED <<head, tail, val, idx>>

FixHead(t) ==
  /\ At(t, "fixHead")
  /\ Become(t, [me[t] EXCEPT !.at = "fixAgain", !.chead = head])
  /\ UNCHANGED <<head, tail, val, idx>>

(* Fault: the indices are compared without the closed bit. *)
BehindIndex(t) == me[t].chead > me[t].tt.n

(* h > t: with its highest bit set, t is above every index. *)
Behind(t) == ~ me[t].tt.top /\ me[t].chead > me[t].tt.n

FixAgain(t) ==
  /\ At(t, "fixAgain")
  /\ \/ tail # me[t].tt /\ Goto(t, "fixTail")
     \/ tail = me[t].tt /\ Behind(t) /\ Goto(t, "fixCas")
     \/ tail = me[t].tt /\ ~ Behind(t) /\ Return(t, Nil)
  /\ UNCHANGED <<head, tail, val, idx>>

FixCas(t) ==
  /\ At(t, "fixCas")
  /\ \/ tail = me[t].tt /\ tail' = Word(me[t].chead, FALSE) /\ Return(t, Nil)
     \/ tail # me[t].tt /\ Goto(t, "fixTail") /\ UNCHANGED tail
  /\ UNCHANGED <<head, val, idx>>

----------------------------------------------------------------------------
(* What a segment does whichever of the two it is. *)
BaseStep(t) ==
  \/ EnqDraw(t)
  \/ EnqReadIdx(t)
  \/ EnqFull(t)
  \/ EnqClose(t)
  \/ DeqDraw(t)
  \/ DeqReadIdx(t)
  \/ DeqWait(t)
  \/ DeqDecide(t)
  \/ DeqTail(t)
  \/ FixTail(t)
  \/ FixHead(t)
  \/ FixAgain(t)
  \/ FixCas(t)

Call ==
  \/ \E t \in client.enqueuers : CallEnqueue(t)
  \/ \E t \in client.dequeuers : CallDequeue(t)

----------------------------------------------------------------------------
(* Properties.                                                             *)

(* Every variable keeps its type, and no bottom is taken for an item. *)
TypeOK ==
  /\ client  \in Clients
  /\ start   \in Starts
  /\ head    \in Tickets
  /\ tail    \in Words
  /\ val     \in [Cells -> Values]
  /\ idx     \in [Cells -> Words]
  /\ \A t \in Threads :
       /\ me[t].item \in Items \cup {Nil}
       /\ {me[t].ticket, me[t].chead} \subseteq Tickets
       /\ {me[t].cidx, me[t].tt} \subseteq Words
       /\ me[t].cval \in Values
       /\ me[t].count \in 0 .. Patience + 1
       /\ me[t].at = "deqTake" => me[t].cval \in Items

(* Once the segment is closed it stays closed, although a dequeuer that    *)
(* read tail before may be about to overwrite it in fixState; and neither  *)
(* head nor tail nor the index of a cell ever goes back.                   *)
Monotone ==
  [][/\ tail.top => tail'.top
     /\ tail'.n >= tail.n /\ head' >= head
     /\ \A k \in Cells : idx'[k].n >= idx[k].n]_vars

(* An enqueue that has a fresh segment to itself succeeds with its first   *)
(* ticket.  LinkedRingQueue::enqueue relies on it when it enqueues into a  *)
(* segment it has yet to link, and does not look at the result.            *)
FirstEnqueueFits ==
  issued <= 1 /\ head = start => \A t \in Threads : me[t].at # "enqFull"

(* The segment is a linearizable FIFO queue that may close: from some      *)
(* instant on it refuses every item, and what it accepted before can still *)
(* be dequeued.                                                            *)
Linearizable == configs # {}

=============================================================================
