--------------------------- MODULE MSQueueProofs ---------------------------
(***************************************************************************)
(* Proofs about MSQueue, for any number of threads and nodes, any items    *)
(* and any width of the counters, as long as no address is used again.     *)
(*                                                                         *)
(* The counters play no part: that an address cannot come back is what     *)
(* makes a CAS on a pointer mean that nothing has happened in between.     *)
(***************************************************************************)
EXTENDS MSQueue, SequenceTheorems, TLAPS

Places == {"idle", "enq", "enqNext", "enqCheck", "link", "enqHelp", "swing",
           "deq", "deqTail", "deqNext", "deqCheck", "deqHelp", "copy",
           "advance", "delete"}

Enqueuing == {"enq", "enqNext", "enqCheck", "link", "enqHelp"}

(* Thread t has a node that nobody else knows of yet. *)
Owns(t, n) == me[t].at \in Enqueuing /\ me[t].node = n

(* n is, or was, in the list.  It stays so: its address is not used again. *)
Linked(n) == n \in Nodes /\ heap[n] # "new" /\ \A t \in Threads : ~ Owns(t, n)

(* No node is in the list twice. *)
Distinct ==
  \A j, k \in 1 .. Len(chain) : chain[j] = chain[k] => j = k

(* A node yet to be linked has one owner, and an element in it. *)
OwnersInv ==
  \A t \in Threads : me[t].at \in Enqueuing =>
    /\ me[t].node \in Nodes
    /\ heap[me[t].node] = "used"
    /\ next[me[t].node] = NullPointer
    /\ value[me[t].node] \in Values
    /\ \A u \in Threads \ {t} : ~ Owns(u, me[t].node)

(* Every node in the list has been linked, and only the last node linked   *)
(* has no successor, whether or not the others are still in the list.      *)
LinkedInv ==
  /\ \A k \in 1 .. Len(chain) : Linked(chain[k])
  /\ \A n \in Nodes : Linked(n) =>
       IF next[n].ptr = Null THEN n = chain[Len(chain)]
                             ELSE Linked(next[n].ptr)

(* What the elements in the list hold. *)
ElementsInv == \A k \in 2 .. Len(chain) : value[chain[k]] \in Values

(* p, read as the successor of n, still is its successor, unless n had none*)
Successor(n, p) == p # Null => next[n].ptr = p

(* n is not an element's node: it is, or was, the dummy. *)
BehindHead(n) == Linked(n) /\ \A k \in 2 .. Len(chain) : chain[k] # n

(* tail is not behind n, if n is the last node. *)
Reached(n) == n = chain[Len(chain)] => tail.ptr = n

(* What an enqueuer knows of the tail it has read and of its successor. *)
EnqueuerKnows(t) ==
  LET m == me[t] IN
  /\ m.at \in {"enqNext", "enqCheck", "link", "enqHelp", "swing"} =>
       Linked(m.tail.ptr) /\ Reached(m.tail.ptr)
  /\ m.at \in {"enqCheck", "enqHelp"} => Successor(m.tail.ptr, m.next.ptr)
  /\ m.at = "link" => m.next.ptr = Null
  /\ m.at = "swing" => m.node # Null /\ Successor(m.tail.ptr, m.node)

(* What a dequeuer knows of the head it has read: if tail was seen at      *)
(* another node, tail has left this one for good.                          *)
DequeuerKnows(t) ==
  LET m == me[t] IN
  /\ m.at \in {"deqTail", "deqNext", "deqCheck", "deqHelp", "copy", "advance"}
       => BehindHead(m.head.ptr)
  /\ m.at \in {"deqNext", "deqCheck", "copy", "advance"} =>
       m.head.ptr = m.tail.ptr \/ m.head.ptr # tail.ptr
  /\ m.at \in {"deqCheck", "deqHelp", "copy", "advance"} =>
       Successor(m.head.ptr, m.next.ptr)
  /\ m.at = "deqHelp" => m.head.ptr = m.tail.ptr
  /\ m.at \in {"copy", "advance"} => m.head.ptr # m.tail.ptr

(* The value a dequeuer has copied is that of the element as long as it may*)
(* still claim the element; the dummy it deletes has left the list.        *)
TakerKnows(t) ==
  LET m == me[t] IN
  /\ m.at = "advance" =>
       heap[m.next.ptr] = "freed" \/ m.value = value[m.next.ptr]
  /\ m.at = "delete" => m.value \in Values /\ Linked(m.head.ptr)

Knows(t) == EnqueuerKnows(t) /\ DequeuerKnows(t) /\ TakerKnows(t)

Shape ==
  /\ ListIntact /\ SafeDelete /\ Distinct
  /\ OwnersInv /\ LinkedInv /\ ElementsInv

Inv == TypeOK /\ Shape /\ \A t \in Threads : Knows(t)

----------------------------------------------------------------------------
USE MSAssumption DEF MSAssumption

LEMMA PointerType ==
  /\ NullPointer \in Pointers /\ NullPointer.ptr = Null
  /\ Null \notin Nodes /\ 0 \in Nodes
  /\ \A p \in Pointers, n \in Nodes \cup {Null} :
       Advance(p, n) \in Pointers /\ Advance(p, n).ptr = n
  /\ \A p \in Pointers, n \in Nodes : Advance(p, n) \in [ptr : Nodes, count : Counts]
  BY DEF NullPointer, Pointers, Pointer, Null, Nodes, Counts, Advance

LEMMA AppendFacts ==
  ASSUME NEW S, NEW s \in Seq(S), NEW e \in S
  PROVE  /\ Append(s, e) \in Seq(S) /\ Len(Append(s, e)) = Len(s) + 1
         /\ \A k \in 1 .. Len(s) : Append(s, e)[k] = s[k]
         /\ Append(s, e)[Len(s) + 1] = e
  OBVIOUS

LEMMA TailFacts ==
  ASSUME NEW S, NEW s \in Seq(S), s # <<>>
  PROVE  /\ Tail(s) \in Seq(S) /\ Len(Tail(s)) = Len(s) - 1 /\ Len(s) \in Nat \ {0}
         /\ \A k \in 1 .. Len(s) - 1 : Tail(s)[k] = s[k + 1]
  OBVIOUS

LEMMA InitInv == Init => Inv
<1> SUFFICES ASSUME Init PROVE Inv
  OBVIOUS
<1> USE DEF Init
<1>1. TypeOK
  <2>1. Pointer(0, 0) \in [ptr : Nodes, count : Counts]
    BY DEF Pointer, Nodes, Counts
  <2>2. Fresh \in [at : Places, node : Nodes \cup {Null}, tail : Pointers,
                   head : Pointers, next : Pointers, value : Values \cup {NoValue}]
    BY PointerType DEF Fresh, Places
  <2>3. \A t \in Threads : me[t].at = "idle"
    BY DEF Fresh
  <2>4. heap \in [Nodes -> {"new", "used", "freed"}] /\ chain \in Seq(Nodes)
    BY PointerType
  <2>5. next \in [Nodes -> Pointers] /\ value \in [Nodes -> Values \cup {NoValue}]
    BY PointerType
  <2> HIDE DEF Init
  <2>6. me \in [Threads -> [at : Places, node : Nodes \cup {Null}, tail : Pointers,
                   head : Pointers, next : Pointers, value : Values \cup {NoValue}]]
    BY <2>2 DEF Init
  <2>7. {head, tail} \subseteq [ptr : Nodes, count : Counts]
    BY <2>1 DEF Init
  <2> QED
    BY <2>3, <2>4, <2>5, <2>6, <2>7 DEF TypeOK, Places
<1>2. /\ chain = <<0>> /\ Len(chain) = 1 /\ chain[1] = 0
      /\ \A n \in Nodes : next[n] = NullPointer
      /\ \A n \in Nodes : heap[n] # "new" <=> n = 0
      /\ \A t \in Threads : me[t].at = "idle"
  BY PointerType DEF Fresh
<1>3. ListIntact
  BY <1>2, PointerType DEF ListIntact, Pointer
<1>4. SafeDelete /\ Distinct /\ OwnersInv /\ ElementsInv
  BY <1>2, PointerType DEF SafeDelete, InChain, Distinct, OwnersInv, ElementsInv, Enqueuing
<1>5. LinkedInv
  BY <1>2, PointerType DEF LinkedInv, Linked, Owns, Enqueuing
<1>6. \A t \in Threads : Knows(t)
  BY <1>2 DEF Knows, EnqueuerKnows, DequeuerKnows, TakerKnows
<1> QED
  BY <1>1, <1>3, <1>4, <1>5, <1>6 DEF Inv, Shape

----------------------------------------------------------------------------
(* What every step carries over, so that whatever a thread knows stays     *)
(* true while others take steps.                                           *)
Carry ==
  /\ \A n \in Nodes : Linked(n) =>
       /\ Linked(n)'
       /\ next[n].ptr # Null => next'[n].ptr = next[n].ptr
       /\ heap'[n] = "freed" \/ (heap'[n] = heap[n] /\ value'[n] = value[n])
       /\ heap[n] = "freed" => heap'[n] = "freed"
       /\ Reached(n) => Reached(n)'
  /\ \A k \in 2 .. Len(chain') :
       \/ ~ Linked(chain'[k])
       \/ \E j \in 2 .. Len(chain) : chain'[k] = chain[j]
  /\ tail' = tail \/ \E k \in 2 .. Len(chain) : tail'.ptr = chain[k]

LEMMA KnowledgeLasts ==
  ASSUME Inv, Carry, NEW u \in Threads, me'[u] = me[u], TypeOK'
  PROVE  Knows(u)'
<1> DEFINE m == me[u]
<1>0. m' = m
  OBVIOUS
<1>1. Knows(u) /\ TypeOK
  BY DEF Inv
<1>2. \A n \in Nodes : BehindHead(n) => BehindHead(n)'
  BY DEF Carry, BehindHead
<1>3. \A n \in Nodes, p \in Nodes \cup {Null} :
        Linked(n) /\ Successor(n, p) => Successor(n, p)'
  BY DEF Carry, Successor
<1>4. m \in [at : Places, node : Nodes \cup {Null}, tail : Pointers,
             head : Pointers, next : Pointers, value : Values \cup {NoValue}]
  BY <1>1 DEF TypeOK, Places
<1>41. /\ {m.tail.ptr, m.head.ptr, m.next.ptr, m.node} \subseteq Nodes \cup {Null}
  BY <1>4 DEF Pointers
<1>42. \A n : Linked(n) => n \in Nodes
  BY DEF Linked
<1>5. EnqueuerKnows(u)'
  BY <1>0, <1>1, <1>3, <1>41, <1>42 DEF Knows, EnqueuerKnows, Carry
<1>6. DequeuerKnows(u)'
  <2>1. m.at \in {"deqTail", "deqNext", "deqCheck", "deqHelp", "copy", "advance"}
          => BehindHead(m.head.ptr) /\ m.head.ptr \in Nodes /\ Linked(m.head.ptr)
    BY <1>1 DEF Knows, DequeuerKnows, BehindHead, Linked
  <2>2. m.at \in {"deqNext", "deqCheck", "copy", "advance"} =>
          m.head.ptr = m.tail.ptr \/ m.head.ptr # tail'.ptr
    BY <1>1, <2>1 DEF Knows, DequeuerKnows, BehindHead, Carry
  <2> QED
    BY <1>0, <1>1, <1>2, <1>3, <1>41, <2>1, <2>2 DEF Knows, DequeuerKnows
<1>7. TakerKnows(u)'
  <2>1. CASE m.at = "advance"
    <3>1. m.next.ptr # Null /\ Linked(m.head.ptr) /\ Successor(m.head.ptr, m.next.ptr)
      BY <1>1, <2>1 DEF TypeOK, Knows, DequeuerKnows, BehindHead
    <3>2. Linked(m.next.ptr) /\ m.next.ptr \in Nodes
      BY <3>1, <1>41 DEF Inv, Shape, LinkedInv, Successor, Linked
    <3> QED
      BY <1>0, <1>1, <2>1, <3>2 DEF Knows, TakerKnows, Carry
  <2>2. CASE m.at # "advance"
    BY <1>0, <1>1, <1>42, <2>2 DEF Knows, TakerKnows, Carry
  <2> QED
    BY <2>1, <2>2
<1> QED
  BY <1>5, <1>6, <1>7 DEF Knows

----------------------------------------------------------------------------
(* Steps that change nothing but the thread's own locals and, maybe, tail. *)
Locals == [at : Places, node : Nodes \cup {Null}, tail : Pointers,
           head : Pointers, next : Pointers, value : Values \cup {NoValue}]

OnlyMe(t) == me' = [me EXCEPT ![t] = me'[t]]

NeedsNext == {"enqHelp", "deqHelp", "copy", "advance"}

LEMMA MyLocals ==
  ASSUME TypeOK, NEW t \in Threads
  PROVE  /\ me[t] \in Locals
         /\ me[t].at \in Places
         /\ {me[t].tail, me[t].head, me[t].next} \subseteq Pointers
         /\ {me[t].tail.ptr, me[t].head.ptr, me[t].next.ptr, me[t].node}
              \subseteq Nodes \cup {Null}
         /\ me[t].value \in Values \cup {NoValue}
         /\ me[t].at \in NeedsNext => me[t].next.ptr # Null
  BY DEF TypeOK, Locals, Places, Pointers, NeedsNext

LEMMA FreshLocals == Fresh \in Locals /\ Fresh.at = "idle"
  BY PointerType DEF Fresh, Locals, Places

LEMMA LocalsType ==
  ASSUME TypeOK, NEW t \in Threads, OnlyMe(t), me'[t] \in Locals,
         me'[t].at \in NeedsNext => me'[t].next.ptr # Null
  PROVE  /\ me' \in [Threads -> Locals]
         /\ \A u \in Threads :
              me'[u].at \in NeedsNext => me'[u].next.ptr # Null
  BY DEF TypeOK, OnlyMe, Locals, Places, NeedsNext

TailMoves ==
  \/ tail' = tail
  \/ /\ tail' \in [ptr : Nodes, count : Counts]
     /\ next[tail.ptr].ptr # Null
     /\ tail'.ptr = next[tail.ptr].ptr

LEMMA QuietStep ==
  ASSUME Inv, NEW t \in Threads, OnlyMe(t), me'[t] \in Locals,
         me'[t].at \in NeedsNext => me'[t].next.ptr # Null,
         me'[t].at \in Enqueuing <=> me[t].at \in Enqueuing,
         me'[t].at \in Enqueuing => me'[t].node = me[t].node,
         me'[t].at # "delete",
         UNCHANGED <<head, next, chain, fields>>, TailMoves
  PROVE  TypeOK' /\ Shape' /\ Carry /\ \A n \in Nodes : Linked(n)' <=> Linked(n)
<1> USE DEF fields
<1>0. TypeOK /\ Shape
  BY DEF Inv
<1>1. TypeOK'
  BY <1>0, LocalsType DEF TypeOK, TailMoves, Locals, Places, NeedsNext
<1>2. \A u \in Threads : \A n : Owns(u, n)' <=> Owns(u, n)
  BY <1>0 DEF Owns, OnlyMe, TypeOK
<1>3. \A n : Linked(n)' <=> Linked(n)
  BY <1>2 DEF Linked
<1>4. /\ chain \in Seq(Nodes) /\ Len(chain) \in Nat /\ chain # <<>>
      /\ Len(chain) > 0
      /\ \A k \in 1 .. Len(chain) : chain[k] \in Nodes
  BY <1>0 DEF TypeOK, Shape, ListIntact
<1>5. \/ tail' = tail
      \/ Len(chain) > 1 /\ tail'.ptr = chain[Len(chain)]
  <2>1. CASE tail' # tail
    <3>1. next[tail.ptr].ptr # Null /\ tail'.ptr = next[tail.ptr].ptr
      BY <2>1 DEF TailMoves
    <3>2. next[chain[Len(chain)]].ptr = Null
      BY <1>0, <1>4 DEF Shape, ListIntact
    <3>3. Len(chain) > 1 /\ tail.ptr = chain[Len(chain) - 1]
      BY <1>0, <3>1, <3>2 DEF Shape, ListIntact
    <3>4. next[chain[Len(chain) - 1]].ptr = chain[Len(chain)]
      <4>1. Len(chain) - 1 \in 1 .. Len(chain) /\ Len(chain) - 1 # Len(chain)
             /\ (Len(chain) - 1) + 1 = Len(chain)
        BY <1>4, <3>3
      <4> QED
        BY <1>0, <4>1 DEF Shape, ListIntact
    <3> QED
      BY <3>1, <3>3, <3>4
  <2> QED
    BY <2>1
<1>6. ListIntact'
  BY <1>0, <1>4, <1>5 DEF Shape, ListIntact
<1>7. SafeDelete'
  BY <1>0 DEF Shape, SafeDelete, OnlyMe, TypeOK, InChain
<1>8. Distinct' /\ ElementsInv'
  BY <1>0 DEF Shape, Distinct, ElementsInv
<1>9. OwnersInv'
  BY <1>0, <1>2 DEF Shape, OwnersInv, OnlyMe, TypeOK
<1>10. LinkedInv'
  BY <1>0, <1>3 DEF Shape, LinkedInv
<1>11. Carry
  <2>1. tail' = tail \/ \E k \in 2 .. Len(chain) : tail'.ptr = chain[k]
    BY <1>4, <1>5
  <2>2. \A n : Reached(n) => Reached(n)'
    BY <1>4, <1>5 DEF Reached
  <2> QED
    BY <1>3, <2>1, <2>2 DEF Carry
<1> QED
  BY <1>1, <1>3, <1>6, <1>7, <1>8, <1>9, <1>10, <1>11 DEF Shape

----------------------------------------------------------------------------
(* What is shown of a step of t. *)
Outcome(t) == OnlyMe(t) /\ TypeOK' /\ Shape' /\ Carry /\ Knows(t)'

(* The state in which a step is taken. *)
LEMMA Before ==
  ASSUME Inv, NEW t \in Threads
  PROVE  /\ TypeOK /\ Shape /\ Knows(t)
         /\ head.ptr \in Nodes /\ tail.ptr \in Nodes
         /\ head \in Pointers /\ tail \in Pointers
         /\ \A n \in Nodes : next[n] \in Pointers
         /\ chain \in Seq(Nodes) /\ Len(chain) \in Nat \ {0}
         /\ \A k \in 1 .. Len(chain) : chain[k] \in Nodes /\ Linked(chain[k])
         /\ head.ptr = chain[1] /\ Linked(head.ptr)
         /\ Linked(tail.ptr) /\ \E k \in 1 .. Len(chain) : tail.ptr = chain[k]
         /\ BehindHead(head.ptr)
<1>1. TypeOK /\ Shape /\ Knows(t)
  BY DEF Inv
<1>2. /\ chain \in Seq(Nodes) /\ Len(chain) \in Nat \ {0}
      /\ \A k \in 1 .. Len(chain) : chain[k] \in Nodes
  BY <1>1 DEF TypeOK, Shape, ListIntact
<1>3. /\ head.ptr \in Nodes /\ tail.ptr \in Nodes
      /\ head \in Pointers /\ tail \in Pointers
      /\ \A n \in Nodes : next[n] \in Pointers
  BY <1>1 DEF TypeOK, Pointers
<1>4. \A k \in 1 .. Len(chain) : Linked(chain[k])
  BY <1>1 DEF Shape, LinkedInv
<1>5. head.ptr = chain[1]
  BY <1>1 DEF Shape, ListIntact
<1>6. \E k \in 1 .. Len(chain) : tail.ptr = chain[k]
  <2>1. Len(chain) \in 1 .. Len(chain)
    BY <1>2
  <2>2. Len(chain) > 1 => Len(chain) - 1 \in 1 .. Len(chain)
    BY <1>2
  <2> QED
    BY <1>1, <2>1, <2>2 DEF Shape, ListIntact
<1>7. 1 \in 1 .. Len(chain)
  BY <1>2
<1>8. \A k \in 2 .. Len(chain) : chain[k] # chain[1]
  <2>1. \A k \in 2 .. Len(chain) : k \in 1 .. Len(chain) /\ k # 1
    BY <1>2
  <2> QED
    BY <1>1, <1>7, <2>1 DEF Shape, Distinct
<1> QED
  BY <1>1, <1>2, <1>3, <1>4, <1>5, <1>6, <1>7, <1>8 DEF BehindHead

LEMMA CallDequeueStep ==
  ASSUME Inv, NEW t \in Threads, CallDequeue(t) PROVE Outcome(t)
<1>1. /\ me[t].at = "idle" /\ me' = [me EXCEPT ![t] = [me[t] EXCEPT !.at = "deq"]]
      /\ UNCHANGED <<head, tail, next, chain, fields>>
  BY DEF CallDequeue, Goto, Become, list
<1>2. me'[t] = [me[t] EXCEPT !.at = "deq"] /\ OnlyMe(t)
  BY <1>1, Before DEF OnlyMe, TypeOK
<1>3. me'[t] \in Locals /\ me'[t].at = "deq"
  BY <1>2, MyLocals, Before DEF Locals, Places
<1>4. TypeOK' /\ Shape' /\ Carry
  BY <1>1, <1>2, <1>3, QuietStep DEF Enqueuing, NeedsNext, TailMoves
<1>5. Knows(t)'
  BY <1>3 DEF Knows, EnqueuerKnows, DequeuerKnows, TakerKnows
<1> QED
  BY <1>2, <1>4, <1>5 DEF Outcome

LEMMA EnqReadTailStep ==
  ASSUME Inv, NEW t \in Threads, EnqReadTail(t) PROVE Outcome(t)
<1>1. /\ me[t].at = "enq"
      /\ me' = [me EXCEPT ![t] = [me[t] EXCEPT !.at = "enqNext", !.tail = tail]]
      /\ UNCHANGED <<head, tail, next, chain, fields>>
  BY DEF EnqReadTail, Become, list
<1>2. me'[t] = [me[t] EXCEPT !.at = "enqNext", !.tail = tail] /\ OnlyMe(t)
  BY <1>1, Before DEF OnlyMe, TypeOK
<1>3. me'[t] \in Locals /\ me'[t].at = "enqNext" /\ me'[t].tail = tail
      /\ me'[t].node = me[t].node
  BY <1>2, MyLocals, Before DEF Locals, Places
<1>4. TypeOK' /\ Shape' /\ Carry /\ \A n \in Nodes : Linked(n)' <=> Linked(n)
  BY <1>1, <1>2, <1>3, QuietStep DEF Enqueuing, NeedsNext, TailMoves
<1>5. Linked(tail.ptr)'
  BY <1>1, <1>4, Before
<1>6. Knows(t)'
  BY <1>1, <1>3, <1>5 DEF Knows, EnqueuerKnows, DequeuerKnows, TakerKnows, Reached
<1> QED
  BY <1>2, <1>4, <1>6 DEF Outcome

LEMMA EnqReadNextStep ==
  ASSUME Inv, NEW t \in Threads, EnqReadNext(t) PROVE Outcome(t)
<1> DEFINE n == me[t].tail.ptr
<1>1. /\ me[t].at = "enqNext"
      /\ me' = [me EXCEPT ![t] = [me[t] EXCEPT !.at = "enqCheck", !.next = next[n]]]
      /\ UNCHANGED <<head, tail, next, chain, fields>>
  BY DEF EnqReadNext, Become, list
<1>2. me'[t] = [me[t] EXCEPT !.at = "enqCheck", !.next = next[n]] /\ OnlyMe(t)
  BY <1>1, Before DEF OnlyMe, TypeOK
<1>3. Linked(n) /\ n \in Nodes /\ Reached(n)
  BY <1>1, Before DEF Knows, EnqueuerKnows, Linked
<1>4. me'[t] \in Locals /\ me'[t].at = "enqCheck" /\ me'[t].tail = me[t].tail
      /\ me'[t].node = me[t].node /\ me'[t].next = next[n]
  BY <1>2, <1>3, MyLocals, Before DEF Locals, Places
<1>5. TypeOK' /\ Shape' /\ Carry /\ \A m \in Nodes : Linked(m)' <=> Linked(m)
  BY <1>1, <1>2, <1>4, QuietStep DEF Enqueuing, NeedsNext, TailMoves
<1>6. Linked(me[t].tail.ptr)' 
  BY <1>3, <1>4, <1>5
<1>7. Knows(t)'
  BY <1>1, <1>3, <1>4, <1>6
     DEF Knows, EnqueuerKnows, DequeuerKnows, TakerKnows, Successor, Reached
<1> QED
  BY <1>2, <1>5, <1>7 DEF Outcome

(* The loop starts over. *)
LEMMA RestartStep ==
  ASSUME Inv, NEW t \in Threads, NEW there \in {"enq", "deq"}, Restart(t, there),
         IF there = "enq" THEN me[t].at \in Enqueuing
                          ELSE me[t].at \notin Enqueuing,
         UNCHANGED <<head, next, chain, fields>>, TailMoves
  PROVE  Outcome(t)
<1>1. me' = [me EXCEPT ![t] = [Fresh EXCEPT !.at = there, !.node = me[t].node]]
  BY DEF Restart, Become
<1>2. me'[t] = [Fresh EXCEPT !.at = there, !.node = me[t].node] /\ OnlyMe(t)
  BY <1>1, Before DEF OnlyMe, TypeOK
<1>3. me'[t] \in Locals /\ me'[t].at = there /\ me'[t].node = me[t].node
  BY <1>2, FreshLocals, MyLocals, Before DEF Locals, Places
<1>4. TypeOK' /\ Shape' /\ Carry
  BY <1>2, <1>3, QuietStep DEF Enqueuing, NeedsNext
<1>5. Knows(t)'
  BY <1>3 DEF Knows, EnqueuerKnows, DequeuerKnows, TakerKnows
<1> QED
  BY <1>2, <1>4, <1>5 DEF Outcome

(* The call returns, without a node yet to be linked. *)
LEMMA ReturnStep ==
  ASSUME Inv, NEW t \in Threads, Return(t), me[t].at \notin Enqueuing,
         UNCHANGED <<head, next, chain, fields>>, TailMoves
  PROVE  Outcome(t)
<1>1. me' = [me EXCEPT ![t] = Fresh]
  BY DEF Return, Become
<1>2. me'[t] = Fresh /\ OnlyMe(t)
  BY <1>1, Before DEF OnlyMe, TypeOK
<1>3. me'[t] \in Locals /\ me'[t].at = "idle"
  BY <1>2, FreshLocals
<1>4. TypeOK' /\ Shape' /\ Carry
  BY <1>2, <1>3, QuietStep DEF Enqueuing, NeedsNext
<1>5. Knows(t)'
  BY <1>3 DEF Knows, EnqueuerKnows, DequeuerKnows, TakerKnows
<1> QED
  BY <1>2, <1>4, <1>5 DEF Outcome

LEMMA EnqCheckTailStep ==
  ASSUME Inv, NEW t \in Threads, EnqCheckTail(t) PROVE Outcome(t)
<1>1. me[t].at = "enqCheck" /\ UNCHANGED <<head, tail, next, chain, fields>>
  BY DEF EnqCheckTail, list
<1>2. CASE Restart(t, "enq")
  BY <1>1, <1>2, RestartStep DEF Enqueuing, TailMoves
<1>3. ASSUME NEW there \in {"link", "enqHelp"}, Goto(t, there),
             there = IF me[t].next.ptr = Null THEN "link" ELSE "enqHelp"
      PROVE  Outcome(t)
  <2>1. me' = [me EXCEPT ![t] = [me[t] EXCEPT !.at = there]]
    BY <1>3 DEF Goto, Become
  <2>2. me'[t] = [me[t] EXCEPT !.at = there] /\ OnlyMe(t)
    BY <2>1, Before DEF OnlyMe, TypeOK
  <2>3. /\ me'[t] \in Locals /\ me'[t].at = there /\ me'[t].node = me[t].node
        /\ me'[t].tail = me[t].tail /\ me'[t].next = me[t].next
    BY <2>2, MyLocals, Before DEF Locals, Places
  <2>4. TypeOK' /\ Shape' /\ Carry /\ \A n \in Nodes : Linked(n)' <=> Linked(n)
    BY <1>1, <1>3, <2>2, <2>3, QuietStep DEF Enqueuing, NeedsNext, TailMoves
  <2>5. /\ Linked(me[t].tail.ptr) /\ Reached(me[t].tail.ptr)
        /\ Successor(me[t].tail.ptr, me[t].next.ptr)
    BY <1>1, Before DEF Knows, EnqueuerKnows
  <2>6. Linked(me[t].tail.ptr)'
    BY <2>3, <2>4, <2>5 DEF Linked
  <2>7. Knows(t)'
    BY <1>1, <1>3, <2>3, <2>5, <2>6
       DEF Knows, EnqueuerKnows, DequeuerKnows, TakerKnows, Successor, Reached
  <2> QED
    BY <2>2, <2>4, <2>7 DEF Outcome
<1> QED
  BY <1>2, <1>3 DEF EnqCheckTail

(* A CAS on tail that may succeed only if p is the successor of cur_tail. *)
LEMMA SwingTailMoves ==
  ASSUME Inv, NEW t \in Threads, NEW p \in Nodes \cup {Null}, SwingTail(t, p),
         p # Null, Successor(me[t].tail.ptr, p)
  PROVE  TailMoves
<1>1. CASE tail = me[t].tail
  <2>1. tail' = Advance(tail, p) /\ p \in Nodes
    BY <1>1 DEF SwingTail
  <2>2. tail'.ptr = p /\ tail' \in [ptr : Nodes, count : Counts]
    BY <2>1, Before, PointerType
  <2>3. next[tail.ptr].ptr = p
    BY <1>1 DEF Successor
  <2> QED
    BY <2>2, <2>3 DEF TailMoves
<1>2. CASE tail # me[t].tail
  BY <1>2 DEF SwingTail, TailMoves
<1> QED
  BY <1>1, <1>2

LEMMA HelpStep ==
  ASSUME Inv, NEW t \in Threads, EnqHelp(t) \/ DeqHelp(t) PROVE Outcome(t)
<1>1. CASE EnqHelp(t)
  <2>1. /\ me[t].at = "enqHelp" /\ SwingTail(t, me[t].next.ptr)
        /\ Restart(t, "enq") /\ UNCHANGED <<head, next, chain, fields>>
    BY <1>1 DEF EnqHelp, Help
  <2>2. Successor(me[t].tail.ptr, me[t].next.ptr) /\ me[t].next.ptr # Null
    BY <2>1, Before, MyLocals DEF Knows, EnqueuerKnows, NeedsNext
  <2>3. TailMoves
    BY <2>1, <2>2, SwingTailMoves, MyLocals, Before
  <2> QED
    BY <2>1, <2>3, RestartStep DEF Enqueuing
<1>2. CASE DeqHelp(t)
  <2>1. /\ me[t].at = "deqHelp" /\ SwingTail(t, me[t].next.ptr)
        /\ Restart(t, "deq") /\ UNCHANGED <<head, next, chain, fields>>
    BY <1>2 DEF DeqHelp, Help
  <2>2. Successor(me[t].tail.ptr, me[t].next.ptr) /\ me[t].next.ptr # Null
    BY <2>1, Before, MyLocals DEF Knows, DequeuerKnows, NeedsNext
  <2>3. TailMoves
    BY <2>1, <2>2, SwingTailMoves, MyLocals, Before
  <2> QED
    BY <2>1, <2>3, RestartStep DEF Enqueuing
<1> QED
  BY <1>1, <1>2

LEMMA SwingStep ==
  ASSUME Inv, NEW t \in Threads, Swing(t) PROVE Outcome(t)
<1>1. /\ me[t].at = "swing" /\ SwingTail(t, me[t].node) /\ Return(t)
      /\ UNCHANGED <<head, next, chain, fields>>
  BY DEF Swing
<1>2. Successor(me[t].tail.ptr, me[t].node) /\ me[t].node # Null
  BY <1>1, Before DEF Knows, EnqueuerKnows
<1>3. TailMoves
  BY <1>1, <1>2, SwingTailMoves, MyLocals, Before
<1> QED
  BY <1>1, <1>3, ReturnStep DEF Enqueuing

(* A step of a dequeuer that changes its own locals only. *)
LEMMA DequeuerStep ==
  ASSUME Inv, NEW t \in Threads, OnlyMe(t), me'[t] \in Locals,
         UNCHANGED <<list, fields>>,
         me[t].at \notin Enqueuing,
         me'[t].at \in {"deqTail", "deqNext", "deqCheck", "deqHelp", "copy",
                        "advance"},
         me'[t].at \in NeedsNext => me'[t].next.ptr # Null
  PROVE  /\ TypeOK' /\ Shape' /\ Carry
         /\ \A n \in Nodes : /\ Linked(n)' <=> Linked(n)
                             /\ BehindHead(n)' <=> BehindHead(n)
<1>1. /\ TypeOK' /\ Shape' /\ Carry
      /\ \A n \in Nodes : Linked(n)' <=> Linked(n)
  BY QuietStep DEF Enqueuing, TailMoves, list
<1> QED
  BY <1>1 DEF BehindHead, list

LEMMA DeqReadHeadStep ==
  ASSUME Inv, NEW t \in Threads, DeqReadHead(t) PROVE Outcome(t)
<1>1. /\ me[t].at = "deq" /\ UNCHANGED <<list, fields>>
      /\ me' = [me EXCEPT ![t] = [me[t] EXCEPT !.at = "deqTail", !.head = head]]
  BY DEF DeqReadHead, Become
<1>2. me'[t] = [me[t] EXCEPT !.at = "deqTail", !.head = head] /\ OnlyMe(t)
  BY <1>1, Before DEF OnlyMe, TypeOK
<1>3. me'[t] \in Locals /\ me'[t].at = "deqTail" /\ me'[t].head = head
  BY <1>2, MyLocals, Before DEF Locals, Places
<1>4. /\ TypeOK' /\ Shape' /\ Carry
      /\ \A n \in Nodes : BehindHead(n)' <=> BehindHead(n)
  BY <1>1, <1>2, <1>3, DequeuerStep DEF Enqueuing, NeedsNext
<1>5. BehindHead(head.ptr)'
  BY <1>1, <1>4, Before DEF list
<1>6. Knows(t)'
  BY <1>1, <1>3, <1>5 DEF Knows, EnqueuerKnows, DequeuerKnows, TakerKnows, list
<1> QED
  BY <1>2, <1>4, <1>6 DEF Outcome

LEMMA DeqReadTailStep ==
  ASSUME Inv, NEW t \in Threads, DeqReadTail(t) PROVE Outcome(t)
<1>1. /\ me[t].at = "deqTail" /\ UNCHANGED <<list, fields>>
      /\ me' = [me EXCEPT ![t] = [me[t] EXCEPT !.at = "deqNext", !.tail = tail]]
  BY DEF DeqReadTail, Become
<1>2. me'[t] = [me[t] EXCEPT !.at = "deqNext", !.tail = tail] /\ OnlyMe(t)
  BY <1>1, Before DEF OnlyMe, TypeOK
<1>3. /\ me'[t] \in Locals /\ me'[t].at = "deqNext" /\ me'[t].head = me[t].head
      /\ me'[t].tail = tail
  BY <1>2, MyLocals, Before DEF Locals, Places
<1>4. /\ TypeOK' /\ Shape' /\ Carry
      /\ \A n \in Nodes : BehindHead(n)' <=> BehindHead(n)
  BY <1>1, <1>2, <1>3, DequeuerStep DEF Enqueuing, NeedsNext
<1>5. BehindHead(me[t].head.ptr) /\ me[t].head.ptr \in Nodes
  BY <1>1, Before DEF Knows, DequeuerKnows, BehindHead, Linked
<1>6. BehindHead(me[t].head.ptr)'
  BY <1>3, <1>4, <1>5
<1>7. Knows(t)'
  BY <1>1, <1>3, <1>6 DEF Knows, EnqueuerKnows, DequeuerKnows, TakerKnows, list
<1> QED
  BY <1>2, <1>4, <1>7 DEF Outcome

LEMMA DeqReadNextStep ==
  ASSUME Inv, NEW t \in Threads, DeqReadNext(t) PROVE Outcome(t)
<1> DEFINE n == me[t].head.ptr
<1>1. /\ me[t].at = "deqNext" /\ UNCHANGED <<list, fields>>
      /\ me' = [me EXCEPT ![t] = [me[t] EXCEPT !.at = "deqCheck", !.next = next[n]]]
  BY DEF DeqReadNext, Become
<1>2. me'[t] = [me[t] EXCEPT !.at = "deqCheck", !.next = next[n]] /\ OnlyMe(t)
  BY <1>1, Before DEF OnlyMe, TypeOK
<1>3. BehindHead(n) /\ n \in Nodes /\ (n = me[t].tail.ptr \/ n # tail.ptr)
  BY <1>1, Before DEF Knows, DequeuerKnows, BehindHead, Linked
<1>4. /\ me'[t] \in Locals /\ me'[t].at = "deqCheck" /\ me'[t].head = me[t].head
      /\ me'[t].tail = me[t].tail /\ me'[t].next = next[n]
  BY <1>2, <1>3, MyLocals, Before DEF Locals, Places
<1>5. /\ TypeOK' /\ Shape' /\ Carry
      /\ \A m \in Nodes : BehindHead(m)' <=> BehindHead(m)
  BY <1>1, <1>2, <1>4, DequeuerStep DEF Enqueuing, NeedsNext
<1>6. BehindHead(me[t].head.ptr)'
  BY <1>3, <1>4, <1>5
<1>7. Knows(t)'
  BY <1>1, <1>3, <1>4, <1>6
     DEF Knows, EnqueuerKnows, DequeuerKnows, TakerKnows, list, Successor
<1> QED
  BY <1>2, <1>5, <1>7 DEF Outcome

LEMMA DeqCheckHeadStep ==
  ASSUME Inv, NEW t \in Threads, DeqCheckHead(t) PROVE Outcome(t)
<1> DEFINE m == me[t]
<1>1. m.at = "deqCheck" /\ UNCHANGED <<list, fields>>
  BY DEF DeqCheckHead
<1>2. CASE Restart(t, "deq")
  BY <1>1, <1>2, RestartStep DEF Enqueuing, TailMoves, list
<1>3. CASE Return(t)
  BY <1>1, <1>3, ReturnStep DEF Enqueuing, TailMoves, list
<1>4. CASE m.next.ptr # Null /\ DeqOnward(t)
  <2> DEFINE there == IF m.head.ptr = m.tail.ptr THEN "deqHelp" ELSE "copy"
  <2>1. me' = [me EXCEPT ![t] = [m EXCEPT !.at = there]]
    BY <1>4 DEF DeqOnward, Goto, Become
  <2>2. me'[t] = [m EXCEPT !.at = there] /\ OnlyMe(t)
    BY <2>1, Before DEF OnlyMe, TypeOK
  <2>3. /\ me'[t] \in Locals /\ me'[t].at = there /\ me'[t].head = m.head
        /\ me'[t].tail = m.tail /\ me'[t].next = m.next
    BY <2>2, MyLocals, Before DEF Locals, Places
  <2>4. /\ TypeOK' /\ Shape' /\ Carry
        /\ \A n \in Nodes : BehindHead(n)' <=> BehindHead(n)
    BY <1>1, <1>4, <2>2, <2>3, DequeuerStep DEF Enqueuing, NeedsNext
  <2>5. /\ BehindHead(m.head.ptr) /\ m.head.ptr \in Nodes
        /\ m.head.ptr = m.tail.ptr \/ m.head.ptr # tail.ptr
        /\ Successor(m.head.ptr, m.next.ptr)
    BY <1>1, Before DEF Knows, DequeuerKnows, BehindHead, Linked
  <2>6. BehindHead(m.head.ptr)'
    BY <2>3, <2>4, <2>5
  <2>7. Knows(t)'
    BY <1>1, <2>3, <2>5, <2>6
       DEF Knows, EnqueuerKnows, DequeuerKnows, TakerKnows, list, Successor
  <2> QED
    BY <2>2, <2>4, <2>7 DEF Outcome
<1> QED
  BY <1>2, <1>3, <1>4 DEF DeqCheckHead

LEMMA CopyStep ==
  ASSUME Inv, NEW t \in Threads, Copy(t) PROVE Outcome(t)
<1> DEFINE m == me[t]
           v == value[m.next.ptr]
<1>1. /\ m.at = "copy" /\ UNCHANGED <<list, fields>>
      /\ me' = [me EXCEPT ![t] = [m EXCEPT !.at = "advance", !.value = v]]
  BY DEF Copy, Become
<1>2. me'[t] = [m EXCEPT !.at = "advance", !.value = v] /\ OnlyMe(t)
  BY <1>1, Before DEF OnlyMe, TypeOK
<1>3. m.next.ptr # Null /\ m.next.ptr \in Nodes
  BY <1>1, MyLocals, Before DEF NeedsNext
<1>4. v \in Values \cup {NoValue}
  BY <1>3, Before DEF TypeOK
<1>5. /\ me'[t] \in Locals /\ me'[t].at = "advance" /\ me'[t].head = m.head
      /\ me'[t].tail = m.tail /\ me'[t].next = m.next /\ me'[t].value = v
  BY <1>2, <1>4, MyLocals, Before DEF Locals, Places
<1>6. /\ TypeOK' /\ Shape' /\ Carry
      /\ \A n \in Nodes : BehindHead(n)' <=> BehindHead(n)
  BY <1>1, <1>2, <1>3, <1>5, DequeuerStep DEF Enqueuing
<1>7. /\ BehindHead(m.head.ptr) /\ m.head.ptr \in Nodes
      /\ m.head.ptr # m.tail.ptr /\ m.head.ptr # tail.ptr
      /\ Successor(m.head.ptr, m.next.ptr)
  BY <1>1, Before DEF Knows, DequeuerKnows, BehindHead, Linked
<1>8. BehindHead(m.head.ptr)'
  BY <1>5, <1>6, <1>7
<1>9. value'[me'[t].next.ptr] = me'[t].value
  BY <1>1, <1>5 DEF fields
<1>10. Knows(t)'
  BY <1>1, <1>5, <1>7, <1>8, <1>9
     DEF Knows, EnqueuerKnows, DequeuerKnows, TakerKnows, list, Successor
<1> QED
  BY <1>2, <1>6, <1>10 DEF Outcome

----------------------------------------------------------------------------
(* The steps that change the list or the fields of a node. *)
LEMMA CallEnqueueStep ==
  ASSUME ~ Reuse, Inv, NEW t \in Threads, NEW v \in Values, CallEnqueue(t, v)
  PROVE  Outcome(t)
<1>1. PICK n \in Nodes :
        /\ Malloc(n)
        /\ heap'  = [heap EXCEPT ![n] = "used"]
        /\ next'  = [next EXCEPT ![n] = NullPointer]
        /\ value' = [value EXCEPT ![n] = v]
        /\ me' = [me EXCEPT ![t] = [Fresh EXCEPT !.at = "enq", !.node = n]]
  BY DEF CallEnqueue, Become
<1>2. me[t].at = "idle" /\ UNCHANGED <<head, tail, chain>> /\ heap[n] = "new"
  BY <1>1 DEF CallEnqueue, Malloc
<1>3. me'[t] = [Fresh EXCEPT !.at = "enq", !.node = n] /\ OnlyMe(t)
  BY <1>1, Before DEF OnlyMe, TypeOK
<1>4. me'[t] \in Locals /\ me'[t].at = "enq" /\ me'[t].node = n
  BY <1>3, FreshLocals DEF Locals, Places
<1>5. TypeOK /\ Shape
  BY Before
<1>6. TypeOK'
  BY <1>1, <1>2, <1>3, <1>4, <1>5, LocalsType, PointerType
     DEF TypeOK, Locals, Places, NeedsNext
<1>7. /\ \A u \in Threads, x \in Nodes :
           Owns(u, x)' <=> Owns(u, x) \/ (u = t /\ x = n)
      /\ \A u \in Threads : ~ Owns(u, n)
  <2>1. \A u \in Threads : ~ Owns(u, n)
    BY <1>2, <1>5 DEF Shape, OwnersInv, Owns
  <2>2. \A u \in Threads \ {t} : me'[u] = me[u]
    BY <1>3, <1>5 DEF OnlyMe, TypeOK
  <2> QED
    BY <1>2, <1>4, <2>1, <2>2 DEF Owns, Enqueuing
<1>8. \A x \in Nodes : x # n =>
        heap'[x] = heap[x] /\ next'[x] = next[x] /\ value'[x] = value[x]
  BY <1>1, <1>5 DEF TypeOK
<1>9. heap'[n] = "used" /\ next'[n] = NullPointer /\ value'[n] = v
  BY <1>1, <1>5 DEF TypeOK
<1>10. \A x \in Nodes : Linked(x) => x # n
  BY <1>2 DEF Linked
<1>11. \A x \in Nodes : Linked(x)' <=> Linked(x)
  BY <1>2, <1>7, <1>8, <1>9 DEF Linked
<1>12. \A k \in 1 .. Len(chain) : chain[k] \in Nodes /\ chain[k] # n
  BY <1>10, Before
<1>13. ListIntact'
  BY <1>2, <1>5, <1>8, <1>12 DEF Shape, ListIntact
<1>14. Distinct'
  BY <1>2, <1>5 DEF Shape, Distinct
<1>15. SafeDelete'
  <2>1. \A x \in Nodes : InChain(x)' => heap'[x] = "used"
    BY <1>2, <1>5, <1>8, <1>12 DEF Shape, SafeDelete, InChain
  <2>2. \A u \in Threads : me'[u].at = "delete" => u # t /\ me'[u] = me[u]
    BY <1>3, <1>4, <1>5 DEF OnlyMe, TypeOK
  <2>3. \A u \in Threads : me[u].at = "delete" =>
          me[u].head.ptr \in Nodes /\ me[u].head.ptr # n
    BY <1>10, <1>5 DEF Inv, Knows, TakerKnows, Linked
  <2> QED
    BY <1>2, <1>5, <1>8, <2>1, <2>2, <2>3 DEF Shape, SafeDelete, InChain
<1>16. OwnersInv'
  <2>1. ASSUME NEW u \in Threads, me'[u].at \in Enqueuing
        PROVE  /\ me'[u].node \in Nodes
               /\ heap'[me'[u].node] = "used"
               /\ next'[me'[u].node] = NullPointer
               /\ value'[me'[u].node] \in Values
               /\ \A w \in Threads \ {u} : ~ Owns(w, me[u].node)'
    <3>1. CASE u = t
      BY <1>4, <1>7, <1>9, <3>1
    <3>2. CASE u # t
      <4>1. me'[u] = me[u]
        BY <1>3, <1>5, <3>2 DEF OnlyMe, TypeOK
      <4>2. /\ me[u].node \in Nodes /\ heap[me[u].node] = "used"
            /\ next[me[u].node] = NullPointer /\ value[me[u].node] \in Values
            /\ \A w \in Threads \ {u} : ~ Owns(w, me[u].node)
        BY <1>5, <2>1, <4>1 DEF Shape, OwnersInv
      <4>3. me[u].node # n
        BY <1>2, <4>2
      <4> QED
        BY <1>7, <1>8, <4>1, <4>2, <4>3
    <3> QED
      BY <3>1, <3>2
  <2> QED
    BY <2>1 DEF OwnersInv
<1>17. LinkedInv'
  <2>1. \A k \in 1 .. Len(chain) : Linked(chain[k])'
    BY <1>2, <1>11, <1>12, <1>5 DEF Shape, LinkedInv
  <2>2. \A x \in Nodes : Linked(x) =>
          /\ next'[x] = next[x]
          /\ IF next[x].ptr = Null THEN x = chain[Len(chain)]
             ELSE next[x].ptr \in Nodes /\ Linked(next[x].ptr)
    BY <1>5, <1>8, <1>10 DEF Shape, LinkedInv, Linked
  <2> QED
    BY <1>2, <1>11, <2>1, <2>2 DEF LinkedInv
<1>18. ElementsInv'
  <2>1. \A k \in 2 .. Len(chain) : k \in 1 .. Len(chain)
    BY Before
  <2> QED
    BY <1>2, <1>5, <1>8, <1>12, <2>1 DEF Shape, ElementsInv
<1>19. Carry
  <2>1. \A x : Reached(x) => Reached(x)'
    BY <1>2 DEF Reached
  <2> QED
    BY <1>2, <1>8, <1>10, <1>11, <2>1 DEF Carry
<1>20. Knows(t)'
  BY <1>4 DEF Knows, EnqueuerKnows, DequeuerKnows, TakerKnows
<1> QED
  BY <1>3, <1>6, <1>13, <1>14, <1>15, <1>16, <1>17, <1>18, <1>19, <1>20
     DEF Outcome, Shape

LEMMA LinkStep ==
  ASSUME Inv, NEW t \in Threads, Link(t) PROVE Outcome(t)
<1> DEFINE last == me[t].tail.ptr
           node == me[t].node
           L    == Len(chain)
<1>1. me[t].at = "link" /\ UNCHANGED <<head, tail, fields>>
  BY DEF Link
<1>2. CASE next[last] # me[t].next
  BY <1>1, <1>2, RestartStep DEF Link, Enqueuing, TailMoves
<1>3. CASE next[last] = me[t].next
  <2>1. /\ Linked(last) /\ last \in Nodes /\ Reached(last) /\ next[last].ptr = Null
    BY <1>1, <1>3, Before DEF Knows, EnqueuerKnows, Linked
  <2>2. last = chain[L] /\ tail.ptr = last
    BY <2>1, Before DEF Shape, LinkedInv, Reached
  <2>3. /\ node \in Nodes /\ heap[node] = "used" /\ next[node] = NullPointer
        /\ value[node] \in Values
        /\ Owns(t, node) /\ \A u \in Threads \ {t} : ~ Owns(u, node)
    BY <1>1, Before DEF Shape, OwnersInv, Owns, Enqueuing
  <2>4. ~ Linked(node) /\ node # last
    BY <2>1, <2>3 DEF Linked
  <2>5. /\ next' = [next EXCEPT ![last] = Advance(me[t].next, node)]
        /\ chain' = Append(chain, node)
        /\ me' = [me EXCEPT ![t] = [me[t] EXCEPT !.at = "swing"]]
    BY <1>3, <2>2 DEF Link, Goto, Become
  <2>6. me'[t] = [me[t] EXCEPT !.at = "swing"] /\ OnlyMe(t)
    BY <2>5, Before DEF OnlyMe, TypeOK
  <2>7. /\ me'[t] \in Locals /\ me'[t].at = "swing" /\ me'[t].node = node
        /\ me'[t].tail = me[t].tail
    BY <2>6, MyLocals, Before DEF Locals, Places
  <2>8. /\ Advance(me[t].next, node) \in Pointers
        /\ Advance(me[t].next, node).ptr = node
    BY <2>3, MyLocals, Before, PointerType
  <2>9. /\ chain' \in Seq(Nodes) /\ Len(chain') = L + 1 /\ L \in Nat \ {0}
        /\ \A k \in 1 .. L : chain'[k] = chain[k]
        /\ chain'[L + 1] = node
    BY <2>3, <2>5, AppendFacts, Before
  <2>10. TypeOK'
    BY <1>1, <2>5, <2>6, <2>7, <2>8, <2>9, LocalsType, Before
       DEF TypeOK, Locals, Places, NeedsNext, fields
  <2>11. /\ next'[last].ptr = node
         /\ \A x \in Nodes : x # last => next'[x] = next[x]
    BY <2>1, <2>5, <2>8, Before DEF TypeOK
  <2>12. /\ \A u \in Threads : \A x \in Nodes :
              Owns(u, x)' <=> Owns(u, x) /\ u # t
         /\ \A x : Owns(t, x) => x = node
    BY <2>6, <2>7, Before DEF Owns, Enqueuing, OnlyMe, TypeOK
  <2>13. \A x \in Nodes : Linked(x)' <=> Linked(x) \/ x = node
    BY <1>1, <2>3, <2>12 DEF Linked, fields
  <2>14. \A k \in 1 .. L : chain[k] \in Nodes /\ Linked(chain[k]) /\ chain[k] # node
    BY <2>4, Before
  <2>15. \A j, k \in 1 .. L : chain[j] = chain[k] => j = k
    BY Before DEF Shape, Distinct
  <2>16. ListIntact'
    <3>1. chain' # <<>> /\ head'.ptr = chain'[1]
      BY <1>1, <2>9, Before
    <3>2. ASSUME NEW k \in 1 .. L + 1
          PROVE  next'[chain'[k]].ptr = IF k = L + 1 THEN Null ELSE chain'[k + 1]
      <4>1. CASE k = L + 1
        BY <2>3, <2>4, <2>9, <2>11, <4>1, PointerType
      <4>2. CASE k = L
        BY <2>2, <2>9, <2>11, <4>2
      <4>3. CASE k < L
        <5>1. k \in 1 .. L /\ k + 1 \in 1 .. L /\ L \in 1 .. L /\ k # L
          BY <2>9, <4>3
        <5>2. chain[k] # last /\ chain[k] \in Nodes
          BY <2>2, <2>14, <2>15, <5>1
        <5>3. next[chain[k]].ptr = chain[k + 1]
          BY <5>1, Before DEF Shape, ListIntact
        <5> QED
          BY <2>9, <2>11, <5>1, <5>2, <5>3
      <4> QED
        BY <2>9, <4>1, <4>2, <4>3
    <3>3. Len(chain') > 1 /\ tail'.ptr = chain'[Len(chain') - 1]
      <4>1. L \in 1 .. L /\ (L + 1) - 1 = L
        BY <2>9
      <4> QED
        BY <1>1, <2>2, <2>9, <4>1
    <3> QED
      BY <2>9, <3>1, <3>2, <3>3 DEF ListIntact
  <2>17. Distinct'
    <3>1. \A k \in 1 .. L + 1 : k \in 1 .. L \/ k = L + 1
      BY <2>9
    <3> QED
      BY <2>9, <2>14, <2>15, <3>1 DEF Distinct
  <2>18. SafeDelete'
    <3>1. \A k \in 1 .. L + 1 : k \in 1 .. L \/ k = L + 1
      BY <2>9
    <3>2. \A x \in Nodes : InChain(x)' => InChain(x) \/ x = node
      BY <2>9, <3>1 DEF InChain
    <3>3. \A u \in Threads : me'[u].at = "delete" => u # t /\ me'[u] = me[u]
      BY <2>6, <2>7, Before DEF OnlyMe, TypeOK
    <3>4. \A u \in Threads : me[u].at = "delete" =>
            me[u].head.ptr \in Nodes /\ me[u].head.ptr # node
      BY <2>4 DEF Inv, Knows, TakerKnows, Linked
    <3> QED
      BY <1>1, <2>3, <3>2, <3>3, <3>4, Before DEF Shape, SafeDelete, fields
  <2>19. OwnersInv'
    <3>1. ASSUME NEW u \in Threads, me'[u].at \in Enqueuing
          PROVE  /\ me'[u].node \in Nodes
                 /\ heap'[me'[u].node] = "used"
                 /\ next'[me'[u].node] = NullPointer
                 /\ value'[me'[u].node] \in Values
                 /\ \A w \in Threads \ {u} : ~ Owns(w, me[u].node)'
      <4>1. u # t /\ me'[u] = me[u]
        BY <2>6, <2>7, <3>1, Before DEF OnlyMe, TypeOK, Enqueuing
      <4>2. /\ me[u].node \in Nodes /\ heap[me[u].node] = "used"
            /\ next[me[u].node] = NullPointer /\ value[me[u].node] \in Values
            /\ \A w \in Threads \ {u} : ~ Owns(w, me[u].node)
            /\ Owns(u, me[u].node)
        BY <3>1, <4>1, Before DEF Shape, OwnersInv, Owns
      <4>3. me[u].node # last
        BY <2>1, <4>2 DEF Linked
      <4> QED
        BY <1>1, <2>11, <2>12, <4>1, <4>2, <4>3 DEF fields
    <3> QED
      BY <3>1 DEF OwnersInv
  <2>20. LinkedInv'
    <3>1. \A k \in 1 .. L + 1 : k \in 1 .. L \/ k = L + 1
      BY <2>9
    <3>2. \A k \in 1 .. L + 1 : Linked(chain[k])'
      <4>1. ASSUME NEW k \in 1 .. L PROVE Linked(chain[k])'
        BY <2>9, <2>13, <2>14
      <4>2. ASSUME NEW k \in {L + 1} PROVE Linked(chain[k])'
        BY <2>3, <2>9, <2>13
      <4> QED
        BY <3>1, <4>1, <4>2
    <3>3. ASSUME NEW x \in Nodes, Linked(x)'
          PROVE  IF next'[x].ptr = Null THEN x = chain'[L + 1]
                                        ELSE Linked(next[x].ptr)'
      <4>1. CASE x = node
        BY <2>3, <2>4, <2>9, <2>11, <4>1, PointerType
      <4>2. CASE x = last
        BY <2>3, <2>11, <2>13, <4>2, PointerType
      <4>3. CASE x # node /\ x # last
        <5>1. Linked(x) /\ next'[x] = next[x] /\ x # chain[L]
          BY <2>2, <2>11, <2>13, <3>3, <4>3
        <5>2. next[x].ptr # Null /\ Linked(next[x].ptr) /\ next[x].ptr \in Nodes
          BY <5>1, Before DEF Shape, LinkedInv, Linked
        <5> QED
          BY <2>13, <5>1, <5>2
      <4> QED
        BY <4>1, <4>2, <4>3
    <3> QED
      BY <2>9, <3>2, <3>3 DEF LinkedInv
  <2>21. ElementsInv'
    <3>1. \A k \in 2 .. L + 1 : k \in 2 .. L \/ k = L + 1
      BY <2>9
    <3>2. \A k \in 2 .. L : k \in 1 .. L
      BY <2>9
    <3> QED
      BY <1>1, <2>3, <2>9, <3>1, <3>2, Before DEF Shape, ElementsInv, fields
  <2>22. Carry
    <3>1. \A x \in Nodes : Linked(x) =>
            /\ Linked(x)'
            /\ next[x].ptr # Null => next'[x].ptr = next[x].ptr
            /\ heap'[x] = heap[x] /\ value'[x] = value[x]
            /\ Reached(x)'
      BY <1>1, <2>1, <2>4, <2>9, <2>11, <2>13 DEF Reached, fields
    <3>2. \A k \in 2 .. L + 1 : k \in 2 .. L \/ k = L + 1
      BY <2>9
    <3>3. \A k \in 2 .. L : k \in 1 .. L
      BY <2>9
    <3>4. \A k \in 2 .. Len(chain') :
            ~ Linked(chain'[k]) \/ \E j \in 2 .. L : chain'[k] = chain[j]
      BY <2>4, <2>9, <3>2, <3>3
    <3> QED
      BY <1>1, <3>1, <3>4 DEF Carry
  <2>23. Knows(t)'
    <3>1. Linked(last)' /\ last' = last
      BY <2>1, <2>7, <2>13
    <3>2. node # Null
      BY <2>3, PointerType
    <3>3. Linked(me[t].tail.ptr)' /\ Reached(me[t].tail.ptr)'
      BY <1>1, <2>2, <3>1 DEF Reached
    <3> QED
      BY <2>7, <2>11, <3>2, <3>3
         DEF Knows, EnqueuerKnows, DequeuerKnows, TakerKnows, Successor
  <2> QED
    BY <2>6, <2>10, <2>16, <2>17, <2>18, <2>19, <2>20, <2>21, <2>22, <2>23
       DEF Outcome, Shape
<1> QED
  BY <1>2, <1>3

LEMMA AdvanceHeadStep ==
  ASSUME Inv, NEW t \in Threads, AdvanceHead(t) PROVE Outcome(t)
<1> DEFINE m == me[t]
           L == Len(chain)
<1>1. m.at = "advance" /\ UNCHANGED <<tail, next, fields>>
  BY DEF AdvanceHead
<1>2. CASE head # m.head
  BY <1>1, <1>2, RestartStep DEF AdvanceHead, Enqueuing, TailMoves
<1>3. CASE head = m.head
  <2>1. /\ BehindHead(m.head.ptr) /\ m.head.ptr \in Nodes /\ Linked(m.head.ptr)
        /\ m.head.ptr # tail.ptr
        /\ Successor(m.head.ptr, m.next.ptr)
        /\ m.next.ptr # Null /\ m.next.ptr \in Nodes
        /\ heap[m.next.ptr] = "freed" \/ m.value = value[m.next.ptr]
    BY <1>1, Before, MyLocals
       DEF Knows, DequeuerKnows, TakerKnows, BehindHead, Linked, NeedsNext
  <2>2. m.head.ptr = chain[1] /\ next[chain[1]].ptr = m.next.ptr
    BY <1>3, <2>1, Before DEF Successor
  <2>3. L \in Nat /\ L > 1 /\ m.next.ptr = chain[2]
    <3>1. 1 \in 1 .. L /\ 1 + 1 = 2 /\ L \in Nat \ {0}
      BY Before
    <3>2. next[chain[1]].ptr = IF 1 = L THEN Null ELSE chain[2]
      BY <3>1, Before DEF Shape, ListIntact
    <3>3. L # 1 /\ next[chain[1]].ptr = chain[2]
      BY <2>1, <2>2, <3>2
    <3>4. L \in Nat /\ L > 1
      <4> HIDE DEF L
      <4> QED
        BY <3>1, <3>3
    <3> QED
      BY <2>2, <3>3, <3>4
  <2>4. /\ chain' = Tail(chain) /\ head' = Advance(head, m.next.ptr)
        /\ me' = [me EXCEPT ![t] = [m EXCEPT !.at = "delete"]]
    BY <1>3 DEF AdvanceHead, Goto, Become
  <2>5. me'[t] = [m EXCEPT !.at = "delete"] /\ OnlyMe(t)
    BY <2>4, Before DEF OnlyMe, TypeOK
  <2>6. /\ me'[t] \in Locals /\ me'[t].at = "delete" /\ me'[t].head = m.head
        /\ me'[t].value = m.value
    BY <2>5, MyLocals, Before DEF Locals, Places
  <2>7. /\ chain' \in Seq(Nodes) /\ Len(chain') = L - 1
        /\ \A k \in 1 .. L - 1 : chain'[k] = chain[k + 1]
    BY <2>3, <2>4, TailFacts, Before
  <2>8. head'.ptr = m.next.ptr /\ head' \in [ptr : Nodes, count : Counts]
    <3>1. head \in Pointers /\ m.next.ptr \in Nodes
      BY <2>1, Before
    <3>2. head' = Advance(head, m.next.ptr)
      BY <2>4
    <3> QED
      BY ONLY <3>1, <3>2, PointerType
  <2>9. TypeOK'
    <3>1. me'[t].at \in NeedsNext => me'[t].next.ptr # Null
      BY <2>6 DEF NeedsNext
    <3>2. /\ me' \in [Threads -> Locals]
          /\ \A u \in Threads :
               me'[u].at \in NeedsNext => me'[u].next.ptr # Null
      BY <2>5, <2>6, <3>1, LocalsType, Before
    <3>3. /\ next' = next /\ value' = value /\ heap' = heap /\ tail' = tail
      BY <1>1 DEF fields
    <3>4. /\ tail \in [ptr : Nodes, count : Counts] /\ next \in [Nodes -> Pointers]
          /\ value \in [Nodes -> Values \cup {NoValue}]
          /\ heap \in [Nodes -> {"new", "used", "freed"}]
      BY Before DEF TypeOK
    <3> QED
      BY <2>7, <2>8, <3>2, <3>3, <3>4 DEF TypeOK, Locals, Places, NeedsNext
  <2>10. \A k \in 1 .. L - 1 : k + 1 \in 1 .. L /\ k + 1 \in 2 .. L
    BY <2>3
  <2>11. \A j, k \in 1 .. L : chain[j] = chain[k] => j = k
    BY Before DEF Shape, Distinct
  <2>12. \A u \in Threads : \A x \in Nodes : Owns(u, x)' <=> Owns(u, x)
    BY <1>1, <2>5, <2>6, Before DEF Owns, Enqueuing, OnlyMe, TypeOK
  <2>13. \A x \in Nodes : Linked(x)' <=> Linked(x)
    BY <1>1, <2>12 DEF Linked, fields
  <2>14. chain'[L - 1] = chain[L] /\ L - 1 \in 1 .. L - 1
    BY <2>3, <2>7
  <2>15. ListIntact'
    <3>1. chain' # <<>>
      BY <2>3, <2>7
    <3>2. head'.ptr = chain'[1]
      <4>1. 1 \in 1 .. L - 1 /\ 1 + 1 = 2
        BY <2>3
      <4> QED
        BY <2>3, <2>7, <2>8, <4>1
    <3>3. ASSUME NEW k \in 1 .. L - 1
          PROVE  next'[chain'[k]].ptr = IF k = L - 1 THEN Null ELSE chain'[k + 1]
      <4>1. next[chain[k + 1]].ptr = IF k + 1 = L THEN Null ELSE chain[(k + 1) + 1]
        BY <2>10, Before DEF Shape, ListIntact
      <4>2. (k = L - 1 <=> k + 1 = L) /\ (k # L - 1 => k + 1 \in 1 .. L - 1)
        BY <2>3
      <4> QED
        BY <1>1, <2>7, <4>1, <4>2
    <3>4. \/ tail'.ptr = chain'[L - 1]
          \/ L - 1 > 1 /\ tail'.ptr = chain'[(L - 1) - 1]
      <4>1. CASE tail.ptr = chain[L]
        BY <1>1, <2>14, <4>1
      <4>2. CASE tail.ptr = chain[L - 1]
        <5>1. L - 1 # 1
          BY <2>1, <2>2, <4>2
        <5>2. L - 1 > 1 /\ L - 2 \in 1 .. L - 1 /\ (L - 2) + 1 = L - 1
               /\ (L - 1) - 1 = L - 2
          <6>1. L \in Nat /\ L > 1 /\ L # 2
            BY <2>3, <5>1
          <6> HIDE DEF L
          <6> QED
            BY <6>1
        <5> QED
          BY <1>1, <2>7, <4>2, <5>2
      <4> QED
        BY <4>1, <4>2, Before DEF Shape, ListIntact
    <3> QED
      BY <2>7, <3>1, <3>2, <3>3, <3>4 DEF ListIntact
  <2>16. Distinct'
    <3>1. \A j, k \in 1 .. L - 1 : j + 1 = k + 1 => j = k
      BY <2>3
    <3> QED
      BY <2>7, <2>10, <2>11, <3>1 DEF Distinct
  <2>17. \A k \in 1 .. L - 1 : chain'[k] # m.head.ptr
    BY <2>1, <2>7, <2>10 DEF BehindHead
  <2>18. SafeDelete'
    <3>1. \A x \in Nodes : InChain(x)' => InChain(x) /\ x # m.head.ptr
      BY <2>7, <2>10, <2>17 DEF InChain
    <3>2. InChain(m.head.ptr) /\ ~ InChain(m.head.ptr)'
      <4>1. 1 \in 1 .. L
        BY <2>3
      <4> QED
        BY <2>1, <2>2, <3>1, <4>1, <2>6 DEF InChain
    <3>3. \A u \in Threads \ {t} : me'[u] = me[u]
      BY <2>5, Before DEF OnlyMe, TypeOK
    <3>4. \A u \in Threads : me[u].at = "delete" =>
            me[u].head.ptr \in Nodes /\ me[u].head.ptr # m.head.ptr
      BY <3>2, Before DEF Inv, Knows, TakerKnows, Linked, Shape, SafeDelete
    <3>5. \A x \in Nodes : InChain(x) => heap'[x] = "used"
      BY <1>1, Before DEF Shape, SafeDelete, fields
    <3>6. ASSUME NEW u \in Threads, me'[u].at = "delete"
          PROVE  /\ heap'[me'[u].head.ptr] = "used"
                 /\ ~ InChain(me[u].head.ptr)'
                 /\ \A w \in Threads \ {u} : me'[w].at = "delete" =>
                      me'[w].head.ptr # me'[u].head.ptr
      <4>1. CASE u = t
        BY <2>1, <2>6, <3>2, <3>3, <3>4, <3>5, <4>1
      <4>2. CASE u # t
        <5>1. /\ heap[me[u].head.ptr] = "used" /\ ~ InChain(me[u].head.ptr)
              /\ me[u].head.ptr \in Nodes /\ me'[u] = me[u]
              /\ me[u].head.ptr # m.head.ptr
              /\ \A w \in Threads \ {u} :
                   me[w].at = "delete" => me[w].head.ptr # me[u].head.ptr
          BY <3>3, <3>4, <3>6, <4>2, Before DEF Shape, SafeDelete
        <5> QED
          BY <1>1, <2>6, <3>1, <3>3, <4>2, <5>1 DEF fields
      <4> QED
        BY <4>1, <4>2
    <3>7. \A x \in Nodes : InChain(x)' => heap'[x] = "used"
      BY <3>1, <3>5
    <3> QED
      BY <3>6, <3>7 DEF SafeDelete
  <2>19. OwnersInv'
    <3>1. ASSUME NEW u \in Threads, me'[u].at \in Enqueuing
          PROVE  /\ me'[u].node \in Nodes
                 /\ heap'[me'[u].node] = "used"
                 /\ next'[me'[u].node] = NullPointer
                 /\ value'[me'[u].node] \in Values
                 /\ \A w \in Threads \ {u} : ~ Owns(w, me[u].node)'
      <4>1. u # t /\ me'[u] = me[u]
        BY <2>5, <2>6, <3>1, Before DEF OnlyMe, TypeOK, Enqueuing
      <4>2. /\ me[u].node \in Nodes /\ heap[me[u].node] = "used"
            /\ next[me[u].node] = NullPointer /\ value[me[u].node] \in Values
            /\ \A w \in Threads \ {u} : ~ Owns(w, me[u].node)
        BY <3>1, <4>1, Before DEF Shape, OwnersInv
      <4> QED
        BY <1>1, <2>12, <4>1, <4>2 DEF fields
    <3> QED
      BY <3>1 DEF OwnersInv
  <2>20. LinkedInv'
    <3>1. \A k \in 1 .. L - 1 : Linked(chain[k])'
      BY <2>7, <2>10, <2>13, Before
    <3>2. \A x \in Nodes : Linked(x) =>
            IF next[x].ptr = Null THEN x = chain'[L - 1]
            ELSE next[x].ptr \in Nodes /\ Linked(next[x].ptr)
      BY <2>14, Before DEF Shape, LinkedInv, Linked
    <3> QED
      BY <1>1, <2>7, <2>13, <3>1, <3>2 DEF LinkedInv
  <2>21. ElementsInv'
    <3>1. \A k \in 2 .. L - 1 : k \in 1 .. L - 1
      BY <2>3
    <3> QED
      BY <1>1, <2>7, <2>10, <3>1, Before DEF Shape, ElementsInv, fields
  <2>22. Carry
    <3>1. \A x : Reached(x) => Reached(x)'
      BY <1>1, <2>7, <2>14 DEF Reached
    <3>2. \A k \in 2 .. L - 1 : k \in 1 .. L - 1
      BY <2>3
    <3>3. \A k \in 2 .. Len(chain') : \E j \in 2 .. L : chain'[k] = chain[j]
      BY <2>7, <2>10, <3>2
    <3> QED
      BY <1>1, <2>13, <3>1, <3>3 DEF Carry, fields
  <2>23. Knows(t)'
    <3>1. Linked(m.head.ptr)'
      BY <2>1, <2>6, <2>13
    <3>2. m.value \in Values
      <4>1. 2 \in 2 .. L /\ 2 \in 1 .. L
        BY <2>3
      <4>2. heap[chain[2]] = "used" /\ value[chain[2]] \in Values
        BY <2>1, <2>3, <4>1, Before DEF Shape, SafeDelete, InChain, ElementsInv
      <4> QED
        BY <2>1, <2>3, <4>2
    <3> QED
      BY <2>6, <3>1, <3>2 DEF Knows, EnqueuerKnows, DequeuerKnows, TakerKnows
  <2> QED
    BY <2>5, <2>9, <2>15, <2>16, <2>18, <2>19, <2>20, <2>21, <2>22, <2>23
       DEF Outcome, Shape
<1> QED
  BY <1>2, <1>3

LEMMA DeleteStep ==
  ASSUME Inv, NEW t \in Threads, Delete(t) PROVE Outcome(t)
<1> DEFINE dummy == me[t].head.ptr
<1>1. /\ me[t].at = "delete" /\ UNCHANGED list
      /\ heap'  = [heap EXCEPT ![dummy] = "freed"]
      /\ value' = [value EXCEPT ![dummy] = NoValue]
      /\ me' = [me EXCEPT ![t] = Fresh]
  BY DEF Delete, Return, Become
<1>2. me'[t] = Fresh /\ OnlyMe(t)
  BY <1>1, Before DEF OnlyMe, TypeOK
<1>3. me'[t] \in Locals /\ me'[t].at = "idle"
  BY <1>2, FreshLocals
<1>4. /\ Linked(dummy) /\ dummy \in Nodes /\ ~ InChain(dummy)
      /\ heap[dummy] = "used"
      /\ \A u \in Threads \ {t} : me[u].at = "delete" => me[u].head.ptr # dummy
  BY <1>1, Before DEF Knows, TakerKnows, Linked, Shape, SafeDelete
<1>5. TypeOK'
  BY <1>1, <1>2, <1>3, LocalsType, Before DEF TypeOK, Locals, Places, NeedsNext, list
<1>6. /\ heap'[dummy] = "freed" /\ value'[dummy] = NoValue
      /\ \A x \in Nodes : x # dummy => heap'[x] = heap[x] /\ value'[x] = value[x]
  BY <1>1, <1>4, Before DEF TypeOK
<1>7. \A u \in Threads : \A x : Owns(u, x)' <=> Owns(u, x)
  BY <1>1, <1>2, <1>3, Before DEF Owns, Enqueuing, OnlyMe, TypeOK
<1>8. \A x \in Nodes : Linked(x)' <=> Linked(x)
  BY <1>4, <1>6, <1>7 DEF Linked
<1>9. ListIntact' /\ Distinct'
  BY <1>1, Before DEF Shape, ListIntact, Distinct, list
<1>10. \A k \in 1 .. Len(chain) : chain[k] \in Nodes /\ chain[k] # dummy
  BY <1>4, Before DEF InChain
<1>11. SafeDelete'
  <2>1. \A u \in Threads : me'[u].at = "delete" => u # t /\ me'[u] = me[u]
    BY <1>2, <1>3, Before DEF OnlyMe, TypeOK
  <2>2. \A u \in Threads : me[u].at = "delete" => me[u].head.ptr \in Nodes
    BY DEF Inv, Knows, TakerKnows, Linked
  <2>3. \A x \in Nodes : InChain(x) => x # dummy
    BY <1>4
  <2> QED
    BY <1>1, <1>4, <1>6, <2>1, <2>2, <2>3, Before DEF Shape, SafeDelete, InChain, list
<1>12. OwnersInv'
  <2>1. ASSUME NEW u \in Threads, me'[u].at \in Enqueuing
        PROVE  /\ me'[u].node \in Nodes
               /\ heap'[me'[u].node] = "used"
               /\ next'[me'[u].node] = NullPointer
               /\ value'[me'[u].node] \in Values
               /\ \A w \in Threads \ {u} : ~ Owns(w, me[u].node)'
    <3>1. u # t /\ me'[u] = me[u]
      BY <1>2, <1>3, <2>1, Before DEF OnlyMe, TypeOK, Enqueuing
    <3>2. /\ me[u].node \in Nodes /\ heap[me[u].node] = "used"
          /\ next[me[u].node] = NullPointer /\ value[me[u].node] \in Values
          /\ \A w \in Threads \ {u} : ~ Owns(w, me[u].node)
          /\ Owns(u, me[u].node)
      BY <2>1, <3>1, Before DEF Shape, OwnersInv, Owns
    <3>3. me[u].node # dummy
      BY <1>4, <3>2 DEF Linked
    <3> QED
      BY <1>1, <1>6, <1>7, <3>1, <3>2, <3>3 DEF list
  <2> QED
    BY <2>1 DEF OwnersInv
<1>13. LinkedInv'
  <2>1. \A k \in 1 .. Len(chain) : Linked(chain[k])'
    BY <1>1, <1>8, Before DEF list
  <2>2. \A x \in Nodes : Linked(x) =>
          IF next[x].ptr = Null THEN x = chain[Len(chain)]
          ELSE next[x].ptr \in Nodes /\ Linked(next[x].ptr)
    BY Before DEF Shape, LinkedInv, Linked
  <2> QED
    BY <1>1, <1>8, <2>1, <2>2 DEF LinkedInv, list
<1>14. ElementsInv'
  <2>1. \A k \in 2 .. Len(chain) : k \in 1 .. Len(chain)
    BY Before
  <2> QED
    BY <1>1, <1>6, <1>10, <2>1, Before DEF Shape, ElementsInv, list
<1>15. Carry
  <2>1. \A x : Reached(x) => Reached(x)'
    BY <1>1 DEF Reached, list
  <2> QED
    BY <1>1, <1>4, <1>6, <1>8, <2>1 DEF Carry, list
<1>16. Knows(t)'
  BY <1>3 DEF Knows, EnqueuerKnows, DequeuerKnows, TakerKnows
<1> QED
  BY <1>2, <1>5, <1>9, <1>11, <1>12, <1>13, <1>14, <1>15, <1>16
     DEF Outcome, Shape

----------------------------------------------------------------------------
LEMMA StepInv ==
  ASSUME ~ Reuse PROVE Inv /\ [Next]_vars => Inv'
<1> SUFFICES ASSUME Inv, [Next]_vars PROVE Inv'
  OBVIOUS
<1>1. ASSUME NEW t \in Threads, Outcome(t) PROVE Inv'
  <2>1. TypeOK' /\ Shape' /\ Carry /\ Knows(t)'
    BY <1>1 DEF Outcome
  <2>2. \A u \in Threads \ {t} : me'[u] = me[u]
    BY <1>1, Before DEF Outcome, OnlyMe, TypeOK
  <2>3. \A u \in Threads \ {t} : Knows(u)'
    BY <2>1, <2>2, KnowledgeLasts
  <2> QED
    BY <2>1, <2>3 DEF Inv
<1>2. ASSUME NEW t \in Threads, Call(t) \/ Step(t) PROVE Outcome(t)
  <2>1. CASE Call(t)
    BY <2>1, CallDequeueStep, CallEnqueueStep DEF Call
  <2>2. CASE Step(t)
    BY <2>2, EnqReadTailStep, EnqReadNextStep, EnqCheckTailStep, LinkStep,
       HelpStep, SwingStep, DeqReadHeadStep, DeqReadTailStep, DeqReadNextStep,
       DeqCheckHeadStep, CopyStep, AdvanceHeadStep, DeleteStep DEF Step
  <2> QED
    BY <1>2, <2>1, <2>2
<1>3. CASE UNCHANGED vars
  <2>1. /\ head' = head /\ tail' = tail /\ next' = next /\ chain' = chain
        /\ value' = value /\ heap' = heap /\ me' = me
    BY <1>3 DEF vars, list, fields
  <2>2. TypeOK' /\ ListIntact' /\ SafeDelete' /\ Distinct' /\ ElementsInv'
    BY <2>1 DEF Inv, Shape, TypeOK, ListIntact, SafeDelete, InChain, Distinct,
                ElementsInv
  <2>3. OwnersInv' /\ LinkedInv'
    BY <2>1 DEF Inv, Shape, OwnersInv, LinkedInv, Owns, Linked
  <2>4. \A t \in Threads : Knows(t)'
    <3>1. /\ \A n : Linked(n)' <=> Linked(n)
          /\ \A n : BehindHead(n)' <=> BehindHead(n)
          /\ \A n : Reached(n)' <=> Reached(n)
      BY <2>1 DEF Linked, BehindHead, Reached, Owns
    <3>2. Carry
      BY <2>1, <3>1, Before DEF Carry, Linked
    <3> QED
      BY <2>1, <2>2, <3>2, KnowledgeLasts
  <2> QED
    BY <2>2, <2>3, <2>4 DEF Inv, Shape
<1> QED
  BY <1>1, <1>2, <1>3 DEF Next

(* Whatever the threads do, the list, the nodes each of them owns and what *)
(* each of them has read fit together: the inductive invariant.            *)
THEOREM InvAlways ==
  ASSUME ~ Reuse PROVE Spec => []Inv
<1>1. Init => Inv
  BY InitInv
<1>2. Inv /\ [Next]_vars => Inv'
  BY StepInv
<1> QED
  BY <1>1, <1>2, PTL DEF Spec

(* Every variable keeps its type; head and tail never become null, and     *)
(* whoever copies or claims an element has one to take.                    *)
THEOREM TypeCorrect ==
  ASSUME ~ Reuse PROVE Spec => []TypeOK
<1>1. Inv => TypeOK
  BY DEF Inv
<1> QED
  BY <1>1, InvAlways, PTL

(* The linked list is always the list of the nodes linked and not yet      *)
(* removed; head is at its dummy, tail at most one node behind its end.    *)
THEOREM ListAlwaysIntact ==
  ASSUME ~ Reuse PROVE Spec => []ListIntact
<1>1. Inv => ListIntact
  BY DEF Inv, Shape
<1> QED
  BY <1>1, InvAlways, PTL

(* Without deferred reclamation, a dummy is deleted by one dequeuer, once, *)
(* when the list no longer leads to it.                                    *)
THEOREM DeletesAreSafe ==
  ASSUME ~ Reuse PROVE Spec => []SafeDelete
<1>1. Inv => SafeDelete
  BY DEF Inv, Shape
<1> QED
  BY <1>1, InvAlways, PTL

(* An enqueuer whose CAS on next succeeds has appended its node to the     *)
(* list: a stale CAS can only succeed if an address is used again.         *)
THEOREM LinkTakesEffect ==
  ASSUME ~ Reuse PROVE Spec => LinkIsLinearizationPoint
<1> DEFINE Linking(t) == me[t].at = "link" /\ me'[t].at = "swing" =>
                           chain'[Len(chain')] = me[t].node
<1>1. ASSUME Inv, NEW t \in Threads, Link(t) PROVE Linking(t)
  <2>1. CASE Restart(t, "enq")
    BY <2>1, <1>1, Before DEF Restart, Become, Fresh, TypeOK
  <2>2. CASE /\ next[me[t].tail.ptr] = me[t].next
             /\ chain' = IF me[t].tail.ptr = chain[Len(chain)]
                         THEN Append(chain, me[t].node) ELSE chain
    <3>1. me[t].at = "link"
      BY <1>1 DEF Link
    <3>2. /\ Linked(me[t].tail.ptr) /\ me[t].tail.ptr \in Nodes
          /\ next[me[t].tail.ptr].ptr = Null
      BY <1>1, <2>2, <3>1, Before DEF Knows, EnqueuerKnows, Linked
    <3>3. me[t].tail.ptr = chain[Len(chain)]
      BY <1>1, <3>2, Before DEF Shape, LinkedInv
    <3>4. chain' = Append(chain, me[t].node) /\ me[t].node \in Nodes
      BY <1>1, <2>2, <3>1, <3>3, Before DEF Shape, OwnersInv, Enqueuing
    <3> QED
      BY <1>1, <3>4, AppendFacts, Before
  <2> QED
    BY <1>1, <2>1, <2>2 DEF Link
<1>2. ASSUME Inv, NEW t \in Threads, Call(t) \/ Step(t), NEW u \in Threads
      PROVE  Linking(u)
  <2>1. CASE Link(t) /\ u = t
    BY <1>1, <1>2, <2>1
  <2>2. CASE ~ Link(t) /\ u = t
    <3>1. me[t].at # "link"
      BY <1>2, <2>2 DEF Call, CallEnqueue, CallDequeue, Step, EnqReadTail,
         EnqReadNext, EnqCheckTail, EnqHelp, Swing, DeqReadHead, DeqReadTail,
         DeqReadNext, DeqCheckHead, DeqHelp, Help, Copy, AdvanceHead, Delete
    <3> QED
      BY <2>2, <3>1
  <2>3. CASE u # t
    <3>1. \E m : me' = [me EXCEPT ![t] = m]
      BY <1>2 DEF Call, CallEnqueue, CallDequeue, Step, EnqReadTail, Link,
         EnqReadNext, EnqCheckTail, EnqHelp, Swing, DeqReadHead, DeqReadTail,
         DeqReadNext, DeqCheckHead, DeqOnward, DeqHelp, Help, Copy,
         AdvanceHead, Delete, Become, Goto, Return, Restart
    <3>2. me'[u] = me[u]
      BY <1>2, <2>3, <3>1, Before DEF TypeOK
    <3> QED
      BY <3>2
  <2> QED
    BY <2>1, <2>2, <2>3
<1>3. Inv /\ [Next]_vars => [\A t \in Threads : Linking(t)]_vars
  BY <1>2 DEF Next
<1> QED
  BY <1>3, InvAlways, PTL DEF Spec, LinkIsLinearizationPoint

----------------------------------------------------------------------------
(* MSQueue implements FifoQueue as long as no address is used again:       *)
(* initial states map to initial states, and every step maps to a step of  *)
(* FifoQueue or to a stutter.                                              *)

Elements == [k \in 1 .. Len(chain) - 1 |-> value[chain[k + 1]]]
Calls    == [t \in Threads |-> AbstractCall(t)]

(* The abstract state of every thread but s is left alone. *)
SameBut(s) ==
  \A t \in Threads \ {s} : AbstractCall(t)' = AbstractCall(t)

LEMMA CallsExcept ==
  ASSUME NEW s \in Threads, SameBut(s)
  PROVE  Calls' = [Calls EXCEPT ![s] = AbstractCall(s)']
  BY DEF SameBut, Calls

LEMMA CallsSame ==
  ASSUME NEW s \in Threads, SameBut(s), AbstractCall(s)' = AbstractCall(s)
  PROVE  Calls' = Calls
  BY DEF SameBut, Calls

(* A function from 1 .. n is a sequence of length n. *)
LEMMA FunctionIsSeq ==
  ASSUME NEW n \in Nat, NEW S, NEW f \in [1 .. n -> S]
  PROVE  f \in Seq(S) /\ Len(f) = n
<1>1. f \in Seq(S)
  BY SeqDef
<1>2. DOMAIN f = 1 .. n /\ DOMAIN f = 1 .. Len(f) /\ Len(f) \in Nat
  BY <1>1, LenProperties
<1> QED
  BY <1>1, <1>2

LEMMA ChainLength ==
  ASSUME Inv
  PROVE  Len(chain) \in Nat \ {0} /\ Len(chain) - 1 \in Nat
<1>1. chain \in Seq(Nodes) /\ chain # <<>>
  BY DEF Inv, Shape, ListIntact, TypeOK
<1> QED
  BY <1>1, EmptySeq

LEMMA ElementsAreSeq ==
  ASSUME Inv
  PROVE  /\ Elements \in Seq(Values) /\ Len(Elements) = Len(chain) - 1
         /\ \A k \in 1 .. Len(chain) - 1 : Elements[k] = value[chain[k + 1]]
<1>1. \A k \in 1 .. Len(chain) - 1 : k + 1 \in 2 .. Len(chain)
  BY ChainLength
<1>2. \A k \in 1 .. Len(chain) - 1 : value[chain[k + 1]] \in Values
  BY <1>1 DEF Inv, Shape, ElementsInv
<1>3. Elements \in [1 .. Len(chain) - 1 -> Values]
  BY <1>2 DEF Elements
<1>4. Elements \in Seq(Values) /\ Len(Elements) = Len(chain) - 1
  BY <1>3, ChainLength, FunctionIsSeq
<1> QED
  BY <1>4 DEF Elements

(* The elements stay the same if the list and their values do. *)
LEMMA ElementsSame ==
  ASSUME Inv, chain' = chain,
         \A n \in Nodes : InChain(n) => value'[n] = value[n]
  PROVE  Elements' = Elements
<1>1. \A k \in 1 .. Len(chain) - 1 : k + 1 \in 1 .. Len(chain)
  BY ChainLength
<1>2. \A k \in 1 .. Len(chain) - 1 : chain[k + 1] \in Nodes /\ InChain(chain[k + 1])
  BY <1>1 DEF Inv, Shape, LinkedInv, Linked, InChain
<1>3. \A k \in 1 .. Len(chain) - 1 : value'[chain[k + 1]] = value[chain[k + 1]]
  BY <1>2
<1> QED
  BY <1>3 DEF Elements

(* The other threads' calls are left alone if their elements are. *)
LEMMA OthersSame ==
  ASSUME Inv, NEW t \in Threads, OnlyMe(t),
         \A u \in Threads \ {t} : me[u].at \in Enqueuing =>
            value'[me[u].node] = value[me[u].node]
  PROVE  SameBut(t)
<1> SUFFICES ASSUME NEW u \in Threads \ {t}
             PROVE  AbstractCall(u)' = AbstractCall(u)
  BY DEF SameBut
<1>1. me'[u] = me[u]
  BY Before DEF OnlyMe, TypeOK
<1>2. CASE me[u].at \in Enqueuing
  BY <1>1, <1>2 DEF AbstractCall, Enqueuing
<1>3. CASE me[u].at \notin Enqueuing
  BY <1>1, <1>3 DEF AbstractCall, Enqueuing
<1> QED
  BY <1>2, <1>3

(* A step that leaves the values and the list alone. *)
LEMMA FieldsSame ==
  ASSUME Inv, NEW t \in Threads, Outcome(t), value' = value, chain' = chain
  PROVE  SameBut(t) /\ Elements' = Elements
  BY OthersSame, ElementsSame DEF Outcome

LEMMA InitMaps == Init => Fifo!Init
<1> SUFFICES ASSUME Init PROVE Fifo!Init
  OBVIOUS
<1>1. Elements = <<>>
  BY DEF Init, Elements
<1>2. \A t \in Threads : AbstractCall(t) = Fifo!Idle
  BY DEF Init, Fresh, AbstractCall, Fifo!Idle
<1> QED
  BY <1>1, <1>2 DEF Fifo!Init, Elements

----------------------------------------------------------------------------
(* The steps, each with the step of FifoQueue that it is.                  *)
LEMMA CallEnqueueMaps ==
  ASSUME ~ Reuse, Inv, NEW t \in Threads, NEW v \in Values, CallEnqueue(t, v)
  PROVE  Fifo!CallEnqueue(t, v)
<1>1. Outcome(t)
  BY CallEnqueueStep
<1>2. PICK n \in Nodes :
        /\ heap[n] = "new"
        /\ value' = [value EXCEPT ![n] = v]
        /\ me' = [me EXCEPT ![t] = [Fresh EXCEPT !.at = "enq", !.node = n]]
  BY DEF CallEnqueue, Become, Malloc
<1>3. me[t].at = "idle" /\ chain' = chain
  BY DEF CallEnqueue
<1>4. value'[n] = v /\ \A x \in Nodes \ {n} : value'[x] = value[x]
  BY <1>2, Before DEF TypeOK
<1>5. SameBut(t)
  <2>1. \A u \in Threads : me[u].at \in Enqueuing =>
          me[u].node \in Nodes /\ me[u].node # n
    BY <1>2, Before DEF Shape, OwnersInv
  <2> QED
    BY <1>1, <1>4, <2>1, OthersSame DEF Outcome
<1>6. Elements' = Elements
  <2>1. \A x \in Nodes : InChain(x) => x # n
    BY <1>2, Before DEF Shape, SafeDelete
  <2> QED
    BY <1>3, <1>4, <2>1, ElementsSame
<1>7. AbstractCall(t) = Fifo!Idle
  BY <1>3 DEF AbstractCall, Fifo!Idle
<1>8. AbstractCall(t)' = Fifo!PendingEnq(v)
  <2>1. me'[t] = [Fresh EXCEPT !.at = "enq", !.node = n]
    BY <1>2, Before DEF TypeOK
  <2>2. me'[t].at = "enq" /\ me'[t].node = n
    BY <2>1 DEF Fresh
  <2> QED
    BY <1>4, <2>2 DEF AbstractCall, Fifo!PendingEnq
<1> QED
  BY <1>5, <1>6, <1>7, <1>8, CallsExcept DEF Fifo!CallEnqueue, Calls, Elements

LEMMA CallDequeueMaps ==
  ASSUME Inv, NEW t \in Threads, CallDequeue(t) PROVE Fifo!CallDequeue(t)
<1>1. Outcome(t) /\ value' = value /\ chain' = chain /\ me[t].at = "idle"
  BY CallDequeueStep DEF CallDequeue, list, fields
<1>2. SameBut(t) /\ Elements' = Elements
  BY <1>1, FieldsSame
<1>3. me'[t].at = "deq"
  BY Before DEF CallDequeue, Goto, Become, TypeOK
<1>4. AbstractCall(t) = Fifo!Idle /\ AbstractCall(t)' = Fifo!PendingDeq(FALSE)
  BY <1>1, <1>3 DEF AbstractCall, Fifo!Idle, Fifo!PendingDeq
<1> QED
  BY <1>2, <1>4, CallsExcept DEF Fifo!CallDequeue, Calls, Elements

(* The enqueue takes effect when its node is linked. *)
LEMMA LinkMaps ==
  ASSUME Inv, NEW t \in Threads, Link(t)
  PROVE  (\E v \in Values : Fifo!Enqueue(t, v)) \/ UNCHANGED <<Elements, Calls>>
<1> DEFINE node == me[t].node
           L == Len(chain)
<1>1. Outcome(t) /\ value' = value /\ me[t].at = "link"
  BY LinkStep DEF Link, fields
<1>2. SameBut(t)
  BY <1>1, OthersSame DEF Outcome
<1>3. CASE Restart(t, "enq") /\ chain' = chain
  <2>1. me'[t].at = "enq" /\ me'[t].node = node
    BY <1>3, Before DEF Restart, Become, Fresh, TypeOK
  <2>2. AbstractCall(t)' = AbstractCall(t)
    BY <1>1, <2>1 DEF AbstractCall
  <2> QED
    BY <1>1, <1>2, <1>3, <2>2, CallsSame, FieldsSame
<1>4. CASE next[me[t].tail.ptr] = me[t].next
  <2>1. /\ Linked(me[t].tail.ptr) /\ me[t].tail.ptr \in Nodes
        /\ next[me[t].tail.ptr].ptr = Null
    BY <1>1, <1>4, Before DEF Knows, EnqueuerKnows, Linked
  <2>2. me[t].tail.ptr = chain[L]
    BY <2>1, Before DEF Shape, LinkedInv
  <2>3. chain' = Append(chain, node) /\ me'[t].at = "swing"
    BY <1>4, <2>2, Before DEF Link, Goto, Become, TypeOK
  <2>4. node \in Nodes /\ value[node] \in Values
    BY <1>1, Before DEF Shape, OwnersInv, Enqueuing
  <2>5. /\ L \in Nat \ {0} /\ Len(chain') = L + 1 /\ chain'[L + 1] = node
        /\ \A k \in 1 .. L : chain'[k] = chain[k]
    BY <2>3, <2>4, AppendFacts, Before
  <2>6. /\ Elements \in Seq(Values) /\ Len(Elements) = L - 1
        /\ \A k \in 1 .. L - 1 : Elements[k] = value[chain[k + 1]]
    BY ElementsAreSeq
  <2>7. Elements' = Append(Elements, value[node])
    <3>1. \A k \in 1 .. L : (k \in 1 .. L - 1 /\ k + 1 \in 1 .. L) \/ k = L
      BY <2>5
    <3>2. \A k \in 1 .. L :
            value'[chain'[k + 1]] = IF k = L THEN value[node] ELSE Elements[k]
      BY <1>1, <2>5, <2>6, <3>1
    <3>3. Elements' = [k \in 1 .. L |-> value'[chain'[k + 1]]]
      <4>1. (L + 1) - 1 = L
        BY <2>5
      <4> QED
        BY <2>5, <4>1 DEF Elements
    <3>4. Elements' \in [1 .. L -> Values]
      <4>1. \A k \in 1 .. L : value'[chain'[k + 1]] \in Values
        BY <2>4, <2>5, <2>6, <3>1, <3>2, ElementOfSeq
      <4> QED
        BY <3>3, <4>1
    <3>5. Elements' \in Seq(Values) /\ Len(Elements') = L
      BY <2>5, <3>4, FunctionIsSeq
    <3>6. /\ Append(Elements, value[node]) \in Seq(Values)
          /\ Len(Append(Elements, value[node])) = L
          /\ \A k \in 1 .. L : Append(Elements, value[node])[k] =
                                 IF k = L THEN value[node] ELSE Elements[k]
      <4>1. (L - 1) + 1 = L
        BY <2>5
      <4> QED
        BY <2>4, <2>6, <3>1, <4>1, AppendFacts
    <3>7. \A k \in 1 .. L : Elements'[k] = Append(Elements, value[node])[k]
      BY <3>2, <3>3, <3>6
    <3> QED
      BY <3>5, <3>6, <3>7, SeqEqual
  <2>8. /\ AbstractCall(t) = Fifo!PendingEnq(value[node])
        /\ AbstractCall(t)' = Fifo!Enqueued
    BY <1>1, <2>3 DEF AbstractCall, Fifo!PendingEnq, Fifo!Enqueued
  <2>9. \E v \in Values : Fifo!Enqueue(t, v)
    <3>1. PICK v \in Values : v = value[node]
      BY <2>4
    <3>2. Fifo!Enqueue(t, v)
      BY <1>2, <2>7, <2>8, <3>1, CallsExcept DEF Fifo!Enqueue, Calls, Elements
    <3> QED
      BY <3>2
  <2> QED
    BY <2>9
<1> QED
  BY <1>3, <1>4 DEF Link

(* The dequeue that returns true takes effect when head moves on. *)
LEMMA AdvanceHeadMaps ==
  ASSUME Inv, NEW t \in Threads, AdvanceHead(t)
  PROVE  Fifo!Dequeue(t) \/ UNCHANGED <<Elements, Calls>>
<1> DEFINE m == me[t]
           L == Len(chain)
<1>1. Outcome(t) /\ value' = value /\ m.at = "advance"
  BY AdvanceHeadStep DEF AdvanceHead, fields
<1>2. SameBut(t)
  BY <1>1, OthersSame DEF Outcome
<1>3. AbstractCall(t) = Fifo!PendingDeq(FALSE)
  BY <1>1 DEF AbstractCall, Fifo!PendingDeq
<1>4. CASE Restart(t, "deq") /\ chain' = chain
  <2>1. me'[t].at = "deq"
    BY <1>4, Before DEF Restart, Become, Fresh, TypeOK
  <2>2. AbstractCall(t)' = AbstractCall(t)
    BY <1>3, <2>1 DEF AbstractCall, Fifo!PendingDeq
  <2> QED
    BY <1>1, <1>2, <1>4, <2>2, CallsSame, FieldsSame
<1>5. CASE head = m.head
  <2>1. chain' = Tail(chain) /\ me' = [me EXCEPT ![t] = [m EXCEPT !.at = "delete"]]
    BY <1>5 DEF AdvanceHead, Goto, Become
  <2>2. me'[t].at = "delete" /\ me'[t].value = m.value
    <3>1. me'[t] = [m EXCEPT !.at = "delete"] /\ m \in Locals
      BY <2>1, MyLocals, Before DEF TypeOK
    <3> QED
      BY <3>1 DEF Locals
  <2>3. /\ m.next.ptr # Null /\ Successor(m.head.ptr, m.next.ptr)
        /\ heap[m.next.ptr] = "freed" \/ m.value = value[m.next.ptr]
    BY <1>1, Before, MyLocals DEF Knows, DequeuerKnows, TakerKnows, NeedsNext
  <2>4. next[chain[1]].ptr = m.next.ptr
    BY <1>5, <2>3, Before DEF Successor
  <2>5. 1 \in 1 .. L /\ 1 + 1 = 2 /\ L \in Nat \ {0}
    BY Before
  <2>6. L # 1 /\ m.next.ptr = chain[2]
    <3>1. next[chain[1]].ptr = IF 1 = L THEN Null ELSE chain[2]
      BY <2>5, Before DEF Shape, ListIntact
    <3> QED
      BY <2>3, <2>4, <3>1
  <2>7. L - 1 \in Nat \ {0} /\ 2 \in 1 .. L /\ 1 \in 1 .. L - 1
    <3>1. L \in Nat /\ L # 0 /\ L # 1
      BY <2>5, <2>6
    <3> HIDE DEF L
    <3> QED
      BY <3>1
  <2>8. m.value = value[chain[2]]
    BY <2>3, <2>6, <2>7, Before DEF Shape, SafeDelete, InChain
  <2>9. /\ Elements \in Seq(Values) /\ Len(Elements) = L - 1
        /\ \A k \in 1 .. L - 1 : Elements[k] = value[chain[k + 1]]
    BY ElementsAreSeq
  <2>10. Elements # <<>> /\ Head(Elements) = m.value
    BY <2>5, <2>7, <2>8, <2>9, EmptySeq
  <2>11. /\ Tail(Elements) \in Seq(Values) /\ Len(Tail(Elements)) = (L - 1) - 1
         /\ \A k \in 1 .. (L - 1) - 1 : Tail(Elements)[k] = Elements[k + 1]
    BY <2>9, <2>10, HeadTailProperties
  <2>12. /\ Len(chain') = L - 1
         /\ \A k \in 1 .. L - 1 : chain'[k] = chain[k + 1]
    BY <2>1, TailFacts, Before DEF Shape, ListIntact
  <2>13. Elements' = Tail(Elements)
    <3>1. \A k \in 1 .. (L - 1) - 1 :
            k + 1 \in 1 .. L - 1
      BY <2>7
    <3>2. \A k \in 1 .. (L - 1) - 1 : value'[chain'[k + 1]] = Tail(Elements)[k]
      BY <1>1, <2>9, <2>11, <2>12, <3>1
    <3>3. Elements' = [k \in 1 .. (L - 1) - 1 |-> value'[chain'[k + 1]]]
      BY <2>12 DEF Elements
    <3>4. (L - 1) - 1 \in Nat
      BY <2>7
    <3>5. \A k \in 1 .. (L - 1) - 1 : Tail(Elements)[k] \in Values
      BY <2>11, ElementOfSeq
    <3>6. Elements' \in Seq(Values) /\ Len(Elements') = (L - 1) - 1
      <4>1. \A k \in 1 .. (L - 1) - 1 : value'[chain'[k + 1]] \in Values
        BY <3>2, <3>5
      <4>2. Elements' \in [1 .. (L - 1) - 1 -> Values]
        BY <3>3, <4>1
      <4> QED
        BY <3>4, <4>2, FunctionIsSeq
    <3>7. \A k \in 1 .. (L - 1) - 1 : Elements'[k] = Tail(Elements)[k]
      BY <3>2, <3>3
    <3> QED
      BY <2>11, <3>6, <3>7, SeqEqual
  <2>14. AbstractCall(t)' = Fifo!Dequeued(Head(Elements))
    BY <2>2, <2>10 DEF AbstractCall, Fifo!Dequeued
  <2>15. Fifo!Dequeue(t)
    BY <1>2, <1>3, <2>10, <2>13, <2>14, CallsExcept DEF Fifo!Dequeue, Calls, Elements
  <2> QED
    BY <2>15
<1> QED
  BY <1>4, <1>5 DEF AdvanceHead

(* A dequeue that reads a null successor has seen the queue empty. *)
LEMMA DeqReadNextMaps ==
  ASSUME Inv, NEW t \in Threads, DeqReadNext(t)
  PROVE  Fifo!SeeEmpty(t) \/ UNCHANGED <<Elements, Calls>>
<1> DEFINE n == me[t].head.ptr
<1>1. Outcome(t) /\ value' = value /\ chain' = chain /\ me[t].at = "deqNext"
  BY DeqReadNextStep DEF DeqReadNext, list, fields
<1>2. SameBut(t) /\ Elements' = Elements
  BY <1>1, FieldsSame
<1>3. me'[t].at = "deqCheck" /\ me'[t].next = next[n]
  <2>1. me'[t] = [me[t] EXCEPT !.at = "deqCheck", !.next = next[n]] /\ me[t] \in Locals
    BY MyLocals, Before DEF DeqReadNext, Become, TypeOK
  <2> QED
    BY <2>1 DEF Locals
<1>4. AbstractCall(t) = Fifo!PendingDeq(FALSE)
  BY <1>1 DEF AbstractCall, Fifo!PendingDeq
<1>5. CASE next[n].ptr = Null
  <2>1. BehindHead(n) /\ n \in Nodes
    BY <1>1, Before DEF Knows, DequeuerKnows, BehindHead, Linked
  <2>2. n = chain[Len(chain)]
    BY <1>5, <2>1, Before DEF BehindHead, Shape, LinkedInv
  <2>3. Len(chain) = 1
    <3>1. Len(chain) \in Nat \ {0}
      BY Before
    <3>2. Len(chain) # 1 => Len(chain) \in 2 .. Len(chain)
      <4> DEFINE L == Len(chain)
      <4>1. L \in Nat \ {0}
        BY <3>1
      <4> HIDE DEF L
      <4>2. L # 1 => L \in 2 .. L
        BY <4>1
      <4> QED
        BY <4>2 DEF L
    <3> QED
      BY <2>1, <2>2, <3>2 DEF BehindHead
  <2>4. Elements = <<>>
    BY <2>3 DEF Elements
  <2>5. AbstractCall(t)' = Fifo!PendingDeq(TRUE)
    BY <1>3, <1>5 DEF AbstractCall, Fifo!PendingDeq
  <2> QED
    BY <1>2, <1>4, <2>4, <2>5, CallsExcept DEF Fifo!SeeEmpty, Calls, Elements
<1>6. CASE next[n].ptr # Null
  <2>1. (me'[t].next.ptr = Null) = FALSE
    BY <1>3, <1>6
  <2>2. AbstractCall(t)' = Fifo!PendingDeq(FALSE)
    BY <1>3, <2>1 DEF AbstractCall, Fifo!PendingDeq
  <2> QED
    BY <1>2, <1>4, <2>2, CallsSame
<1> QED
  BY <1>5, <1>6

(* It may then return false, or start over. *)
LEMMA DeqCheckHeadMaps ==
  ASSUME Inv, NEW t \in Threads, DeqCheckHead(t)
  PROVE  Fifo!Return(t) \/ Fifo!Forget(t) \/ UNCHANGED <<Elements, Calls>>
<1> DEFINE m == me[t]
<1>1. Outcome(t) /\ value' = value /\ chain' = chain /\ m.at = "deqCheck"
  BY DeqCheckHeadStep DEF DeqCheckHead, list, fields
<1>2. SameBut(t) /\ Elements' = Elements
  BY <1>1, FieldsSame
<1>3. AbstractCall(t) = Fifo!PendingDeq(m.next.ptr = Null)
  BY <1>1 DEF AbstractCall, Fifo!PendingDeq
<1>4. CASE Return(t) /\ m.next.ptr = Null
  <2>1. me'[t].at = "idle"
    BY <1>4, Before DEF Return, Become, Fresh, TypeOK
  <2>2. AbstractCall(t)' = Fifo!Idle
    BY <2>1 DEF AbstractCall, Fifo!Idle
  <2>3. (m.next.ptr = Null) = TRUE
    BY <1>4
  <2>4. AbstractCall(t) = Fifo!PendingDeq(TRUE)
    BY <1>3, <2>3
  <2> QED
    BY <1>2, <2>2, <2>4, CallsExcept DEF Fifo!Return, Calls, Elements
<1>5. CASE Restart(t, "deq") \/ (DeqOnward(t) /\ m.next.ptr # Null)
  <2>1. me'[t].at \in {"deq", "deqHelp", "copy"}
    <3>1. CASE Restart(t, "deq")
      BY <3>1, Before DEF Restart, Become, Fresh, TypeOK
    <3>2. CASE DeqOnward(t)
      <4>1. \E there \in {"deqHelp", "copy"} : me'[t] = [m EXCEPT !.at = there]
        BY <3>2, Before DEF DeqOnward, Goto, Become, TypeOK
      <4> QED
        BY <4>1, MyLocals, Before DEF Locals
    <3> QED
      BY <1>5, <3>1, <3>2
  <2>2. AbstractCall(t)' = Fifo!PendingDeq(FALSE)
    BY <2>1 DEF AbstractCall, Fifo!PendingDeq
  <2>3. CASE m.next.ptr = Null
    <3>1. (m.next.ptr = Null) = TRUE
      BY <2>3
    <3>2. AbstractCall(t) = Fifo!PendingDeq(TRUE)
      BY <1>3, <3>1
    <3> QED
      BY <1>2, <2>2, <3>2, CallsExcept DEF Fifo!Forget, Calls, Elements
  <2>4. CASE m.next.ptr # Null
    <3>1. (m.next.ptr = Null) = FALSE
      BY <2>4
    <3>2. AbstractCall(t)' = AbstractCall(t)
      BY <1>3, <2>2, <3>1
    <3> QED
      BY <1>2, <3>2, CallsSame
  <2> QED
    BY <2>3, <2>4
<1> QED
  BY <1>4, <1>5 DEF DeqCheckHead

LEMMA SwingMaps ==
  ASSUME Inv, NEW t \in Threads, Swing(t) PROVE Fifo!Return(t)
<1>1. /\ Outcome(t) /\ value' = value /\ chain' = chain /\ me[t].at = "swing"
      /\ Return(t)
  BY SwingStep DEF Swing, fields
<1>2. SameBut(t) /\ Elements' = Elements
  BY <1>1, FieldsSame
<1>3. me'[t].at = "idle"
  BY <1>1, Before DEF Return, Become, Fresh, TypeOK
<1>4. AbstractCall(t) = Fifo!Enqueued /\ AbstractCall(t)' = Fifo!Idle
  BY <1>1, <1>3 DEF AbstractCall, Fifo!Idle, Fifo!Enqueued
<1> QED
  BY <1>2, <1>4, CallsExcept DEF Fifo!Return, Calls, Elements

LEMMA DeleteMaps ==
  ASSUME Inv, NEW t \in Threads, Delete(t) PROVE Fifo!Return(t)
<1> DEFINE dummy == me[t].head.ptr
<1>1. /\ Outcome(t) /\ chain' = chain /\ me[t].at = "delete" /\ Return(t)
      /\ value' = [value EXCEPT ![dummy] = NoValue]
  BY DeleteStep DEF Delete, list
<1>2. /\ me[t].value \in Values /\ Linked(dummy) /\ dummy \in Nodes
      /\ ~ InChain(dummy)
  BY <1>1, Before DEF Knows, TakerKnows, Linked, Shape, SafeDelete
<1>3. \A x \in Nodes \ {dummy} : value'[x] = value[x]
  BY <1>1, Before DEF TypeOK
<1>4. SameBut(t)
  <2>1. \A u \in Threads : me[u].at \in Enqueuing =>
          me[u].node \in Nodes /\ me[u].node # dummy
    BY <1>2, Before DEF Shape, OwnersInv, Linked, Owns
  <2> QED
    BY <1>1, <1>3, <2>1, OthersSame DEF Outcome
<1>5. Elements' = Elements
  BY <1>1, <1>2, <1>3, ElementsSame
<1>6. me'[t].at = "idle"
  BY <1>1, Before DEF Return, Become, Fresh, TypeOK
<1>7. AbstractCall(t) = Fifo!Dequeued(me[t].value) /\ AbstractCall(t)' = Fifo!Idle
  BY <1>1, <1>6 DEF AbstractCall, Fifo!Idle, Fifo!Dequeued
<1>8. \E v \in Values : AbstractCall(t) = Fifo!Dequeued(v)
  BY <1>2, <1>7
<1> QED
  BY <1>4, <1>5, <1>7, <1>8, CallsExcept DEF Fifo!Return, Calls, Elements

(* All other steps are invisible. *)
LEMMA OthersStutter ==
  ASSUME Inv, NEW t \in Threads,
         \/ EnqReadTail(t) \/ EnqReadNext(t) \/ EnqCheckTail(t) \/ EnqHelp(t)
         \/ DeqReadHead(t) \/ DeqReadTail(t) \/ DeqHelp(t) \/ Copy(t)
  PROVE  UNCHANGED <<Elements, Calls>>
<1> DEFINE m == me[t]
<1>1. Outcome(t)
  BY EnqReadTailStep, EnqReadNextStep, EnqCheckTailStep, HelpStep,
     DeqReadHeadStep, DeqReadTailStep, CopyStep
<1>2. value' = value /\ chain' = chain
  BY DEF EnqReadTail, EnqReadNext, EnqCheckTail, EnqHelp, DeqReadHead,
         DeqReadTail, DeqHelp, Copy, Help, list, fields
<1>3. SameBut(t) /\ Elements' = Elements
  BY <1>1, <1>2, FieldsSame
<1>4. CASE EnqReadTail(t) \/ EnqReadNext(t) \/ EnqCheckTail(t) \/ EnqHelp(t)
  <2>1. m.at \in Enqueuing
    BY <1>4 DEF EnqReadTail, EnqReadNext, EnqCheckTail, EnqHelp, Help, Enqueuing
  <2>2. me'[t].at \in Enqueuing /\ me'[t].node = m.node
    <3>0. me \in [Threads -> Locals] /\ m \in Locals
      BY MyLocals, Before DEF TypeOK, Locals, Places
    <3>1. CASE EnqReadTail(t)
      <4>1. me' = [me EXCEPT ![t] = [m EXCEPT !.at = "enqNext", !.tail = tail]]
        BY <3>1 DEF EnqReadTail, Become
      <4>2. me'[t].at = "enqNext" /\ me'[t].node = m.node
        BY <3>0, <4>1 DEF Locals
      <4> QED
        BY <4>2 DEF Enqueuing
    <3>4. CASE EnqReadNext(t)
      <4>1. me' = [me EXCEPT ![t] = [m EXCEPT !.at = "enqCheck",
                                              !.next = next[m.tail.ptr]]]
        BY <3>4 DEF EnqReadNext, Become
      <4>2. me'[t].at = "enqCheck" /\ me'[t].node = m.node
        BY <3>0, <4>1 DEF Locals
      <4> QED
        BY <4>2 DEF Enqueuing
    <3>2. CASE Restart(t, "enq")
      BY <3>2, Before DEF Restart, Become, Fresh, TypeOK, Enqueuing
    <3>3. CASE \E there \in {"link", "enqHelp"} : Goto(t, there)
      BY <3>3, MyLocals, Before DEF Goto, Become, TypeOK, Locals, Enqueuing
    <3> QED
      BY <1>4, <3>1, <3>2, <3>3, <3>4 DEF EnqCheckTail, EnqHelp, Help
  <2>3. AbstractCall(t)' = AbstractCall(t)
    BY <1>2, <2>1, <2>2 DEF AbstractCall, Enqueuing
  <2> QED
    BY <1>3, <2>3, CallsSame
<1>5. CASE DeqReadHead(t) \/ DeqReadTail(t) \/ DeqHelp(t) \/ Copy(t)
  <2>1. /\ m.at \in {"deq", "deqTail", "deqHelp", "copy"}
        /\ me'[t].at \in {"deq", "deqTail", "deqNext", "advance"}
    <3>1. m \in Locals
      BY MyLocals, Before
    <3>2. CASE DeqReadHead(t)
      <4>1. m.at = "deq" /\ me'[t] = [m EXCEPT !.at = "deqTail", !.head = head]
        BY <3>2, Before DEF DeqReadHead, Become, TypeOK
      <4> QED
        BY <3>1, <4>1 DEF Locals
    <3>3. CASE DeqReadTail(t)
      <4>1. m.at = "deqTail" /\ me'[t] = [m EXCEPT !.at = "deqNext", !.tail = tail]
        BY <3>3, Before DEF DeqReadTail, Become, TypeOK
      <4> QED
        BY <3>1, <4>1 DEF Locals
    <3>4. CASE DeqHelp(t)
      BY <3>4, Before DEF DeqHelp, Help, Restart, Become, Fresh, TypeOK
    <3>5. CASE Copy(t)
      <4>1. /\ m.at = "copy"
            /\ me'[t] = [m EXCEPT !.at = "advance", !.value = value[m.next.ptr]]
        BY <3>5, Before DEF Copy, Become, TypeOK
      <4> QED
        BY <3>1, <4>1 DEF Locals
    <3> QED
      BY <1>5, <3>2, <3>3, <3>4, <3>5
  <2>2. AbstractCall(t) = Fifo!PendingDeq(FALSE) /\ AbstractCall(t)' = Fifo!PendingDeq(FALSE)
    BY <2>1 DEF AbstractCall, Fifo!PendingDeq
  <2> QED
    BY <1>3, <2>2, CallsSame
<1> QED
  BY <1>4, <1>5

LEMMA StepMaps ==
  ASSUME ~ Reuse PROVE Inv /\ [Next]_vars => [Fifo!Next]_(Fifo!vars)
<1> SUFFICES ASSUME Inv, [Next]_vars
             PROVE  Fifo!Next \/ UNCHANGED <<Elements, Calls>>
  BY DEF Fifo!vars, Elements, Calls
<1>1. ASSUME NEW t \in Threads, Call(t) \/ Step(t)
      PROVE  Fifo!Step(t) \/ UNCHANGED <<Elements, Calls>>
  <2>1. CASE Call(t)
    BY <2>1, CallEnqueueMaps, CallDequeueMaps DEF Call, Fifo!Step
  <2>2. CASE Step(t)
    BY <2>2, LinkMaps, SwingMaps, DeqReadNextMaps, DeqCheckHeadMaps,
       AdvanceHeadMaps, DeleteMaps, OthersStutter DEF Step, Fifo!Step
  <2> QED
    BY <1>1, <2>1, <2>2
<1>2. CASE UNCHANGED vars
  BY <1>2 DEF vars, list, fields, Elements, Calls, AbstractCall
<1> QED
  BY <1>1, <1>2 DEF Next, Fifo!Next

(* MSQueue is a linearizable FIFO queue for any number of threads, as long *)
(* as no address is used again: an enqueue takes effect in the CAS on next,*)
(* a dequeue in the CAS on head, or when it reads a null next.             *)
THEOREM Linearizable ==
  ASSUME ~ Reuse PROVE Spec => LinearizableFifo
<1>1. Init => Fifo!Init
  BY InitMaps
<1>2. Inv /\ [Next]_vars => [Fifo!Next]_(Fifo!vars)
  BY StepMaps
<1>3. Spec => []Inv
  BY InvAlways
<1> QED
  BY <1>1, <1>2, <1>3, PTL DEF Spec, LinearizableFifo, Fifo!Spec

=============================================================================
