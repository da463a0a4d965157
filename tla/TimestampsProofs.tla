-------------------------- MODULE TimestampsProofs --------------------------
(***************************************************************************)
(* Proofs about the timestamps, from the moment they are taken to the      *)
(* metrics computed from them: about Timestamps, for any number of         *)
(* threads, elements and dequeues, and any of the disciplines; and, in the *)
(* second half, about OvertakeMetrics, for any workers and any records.    *)
(***************************************************************************)
EXTENDS Timestamps, OvertakeMetrics, SequenceTheorems, FiniteSetTheorems,
        FunctionTheorems, WellFoundedInduction, TLAPS

(* An enqueuer whose element is not in the queue yet; all enqueuers; and   *)
(* the dequeuers that have taken an element.                               *)
Entering  == {"enqSlot", "insert"}
Enqueuing == Entering \cup {"stamp", "store"}
Taking    == {"deqLin", "deqInv", "log", "delete"}
Seeking   == {"find", "read", "claim", "take", "deqSlot"}
Places    == {"idle"} \cup Enqueuing \cup Taking \cup Seeking

Nodes     == Items \cup {Dummy}

Stamps(c)  == [inv : 0 .. c, lin : 0 .. c, own : 0 .. c, from : SUBSET Threads]
Locals(c)  == [at : Places, e : Nodes, old : Nodes, enq : Stamps(c),
               live : BOOLEAN, deqInv : 0 .. c, deqLin : 0 .. c]
Records(c) == [e : Items, enqInv : 0 .. c, enqLin : 0 .. c, deqInv : 1 .. c,
               deqLin : 1 .. c, own : 0 .. c, from : SUBSET Threads,
               by : Threads, live : BOOLEAN]

Types ==
  /\ kind   \in Kinds
  /\ clock  \in Nat
  /\ queue  \in Seq(Items)
  /\ dummy  \in Nodes
  /\ elem   \in [Items -> Stamps(clock)]
  /\ addr   \in [Items -> 0 .. issued]
  /\ freed  \subseteq Nodes
  /\ me     \in [Threads -> Locals(clock)]
  /\ issued \in 0 .. MaxItems
  /\ logged \subseteq Records(clock)

(* What a thread's place says of its locals. *)
Local(m) ==
  /\ m.at \in {"insert", "stamp", "store"} => kind # "fc"
  /\ m.at \in {"enqSlot", "deqSlot"}     => kind = "fc"
  /\ m.at \in {"find", "read", "claim"}  => kind = "ms"
  /\ m.at = "take"                       => kind \in {"faa", "rq"}
  /\ m.at \in {"deqLin", "delete"}       => kind # "fc"
  /\ m.at = "deqInv"                     => kind = "rq"
  /\ m.at \in Enqueuing \cup Taking \cup {"read", "claim"} => m.e \in Items
  /\ m.at \in Seeking \cup {"deqLin"} /\ kind # "rq" => m.deqInv # 0
  /\ m.at \in {"idle", "deqLin"} \cup Enqueuing \cup Seeking => m.deqLin = 0
  /\ m.at \in {"deqInv", "log"} => m.deqLin # 0
  /\ m.at = "log" => m.deqInv # 0

AllLocal == \A t \in Threads : Local(me[t])

(* Has e been put into the queue?  Is it in there, or has it been taken? *)
Entered(e) ==
  /\ e \in 1 .. issued
  /\ \A t \in Threads : me[t].at \in Entering => me[t].e # e
Waits(e) == \E k \in 1 .. Len(queue) : queue[k] = e
Out(e)   == Entered(e) /\ ~ Waits(e)

QueueInv ==
  /\ \A k \in 1 .. Len(queue) : Entered(queue[k])
  /\ \A j, k \in 1 .. Len(queue) : queue[j] = queue[k] => j = k

(* Is the time that its enqueuer took for an element in its enq_lin? *)
Exact(x) == x.own # 0 /\ x.lin = x.own

(* The elements are called for one after another.  Of those of one thread, *)
(* the time for the one before was taken before the next is called for.  A *)
(* combiner stores that time as it takes it.                               *)
ElemInv ==
  /\ \A e \in Items : e > issued => elem[e].own = 0
  /\ \A e \in 1 .. issued : elem[e].own # 0 => elem[e].inv < elem[e].own
  /\ \A e, f \in 1 .. issued : e < f =>
       /\ elem[e].inv < elem[f].inv
       /\ elem[e].from = elem[f].from /\ elem[e].own # 0 =>
            elem[e].own < elem[f].inv
  /\ kind = "fc" => \A e \in 1 .. issued : Entered(e) => Exact(elem[e])

EnqueuerInv ==
  \A t \in Threads : me[t].at \in Enqueuing =>
    /\ me[t].e \in 1 .. issued
    /\ elem[me[t].e].from = {t}
    /\ me[t].at # "store" => elem[me[t].e].own = 0
    /\ \A b \in 1 .. issued : elem[b].from = {t} => b <= me[t].e

(* An element is taken once, and deleted after that: by MSQueue, when it   *)
(* is not the dummy any more, by the others, when its record is logged.    *)
TakerInv ==
  /\ \A t \in Threads : me[t].at \in Taking => Out(me[t].e)
  /\ \A t, u \in Threads :
       me[t].at \in Taking /\ me[u].at \in Taking /\ me[t].e = me[u].e => t = u
  /\ kind # "ms" => \A t \in Threads : me[t].at \in Taking => me[t].e \notin freed
  /\ \A e \in freed \cup {dummy} : e = Dummy \/ Out(e)

DummyInv ==
  kind = "ms" =>
    /\ dummy \notin freed
    /\ \A t \in Threads : me[t].at \in Taking =>
         /\ me[t].old \notin freed \cup {dummy}
         /\ me[t].old = Dummy \/ Out(me[t].old)
    /\ \A t, u \in Threads :
         me[t].at \in Taking /\ me[u].at \in Taking /\ me[t].old = me[u].old
           => t = u

LiveInv ==
  /\ \A t \in Threads :
       /\ me[t].at = "claim" /\ ~ me[t].live => me[t].e \in freed
       /\ me[t].at \in {"deqLin", "log"} /\ kind \in {"ms", "fc"} => me[t].live
  /\ LoggedTimesAreLive

(* x, a copy of the fields of e, tells when it was called for, and by whom;*)
(* its lin may be anything.                                                *)
Copy(e, x) ==
  /\ x.inv = elem[e].inv
  /\ x.from = elem[e].from
  /\ x.own # 0 => x.own = elem[e].own

CopyInv ==
  /\ \A t \in Threads :
       /\ me[t].at \in {"read", "claim"} => Entered(me[t].e)
       /\ \/ me[t].at = "claim"
          \/ me[t].at \in {"deqLin", "log"} /\ kind \in {"ms", "fc"}
          => Copy(me[t].e, me[t].enq)
  /\ \A r \in logged :
       /\ Out(r.e)
       /\ Copy(r.e, [inv |-> r.enqInv, lin |-> r.enqLin,
                     own |-> r.own, from |-> r.from])

(* No enqueuer takes its time before the call of one that has overtaken it.*)
OrderInv ==
  /\ \A j, k \in 1 .. Len(queue) : j < k /\ elem[queue[k]].own # 0 =>
       elem[queue[j]].inv < elem[queue[k]].own
  /\ \A a, b \in 1 .. issued : Out(b) /\ Waits(a) /\ elem[a].own # 0 =>
       elem[b].inv < elem[a].own

(* The dequeues that have taken something, with their times. *)
Takes ==
  {[e |-> r.e, inv |-> r.deqInv, lin |-> r.deqLin] : r \in logged} \cup
  {[e |-> me[t].e, inv |-> me[t].deqInv, lin |-> me[t].deqLin] :
     t \in {u \in Threads : me[u].at \in {"deqLin", "log"}}}

FifoInv ==
  kind # "rq" =>
    \A x, y \in Takes :
      y.lin # 0 /\ elem[x.e].own # 0 /\ elem[x.e].own < elem[y.e].inv =>
        x.inv < y.lin

CombinerInv ==
  kind = "fc" =>
    /\ \A j, k \in 1 .. Len(queue) : j < k =>
         elem[queue[j]].own < elem[queue[k]].own
    /\ \A a, b \in 1 .. issued : Out(b) /\ Waits(a) => elem[b].own < elem[a].own
    /\ \A x \in Takes : x.inv < x.lin /\ elem[x.e].own < x.lin
    /\ \A x, y \in Takes : elem[x.e].own < elem[y.e].own <=> x.lin < y.lin
    /\ \A r \in logged : Genuine(r)
    /\ \A t \in Threads : me[t].at = "log" => Exact(me[t].enq)

(* A thread's dequeues follow each other. *)
OwnInv ==
  /\ \A r \in logged : LET m == me[r.by] IN m.at # "delete" =>
       /\ m.deqInv # 0 => r.deqInv < m.deqInv /\ r.deqLin < m.deqInv
       /\ m.deqLin # 0 => r.deqInv < m.deqLin /\ r.deqLin < m.deqLin
  /\ \A a, b \in logged :
       a.by = b.by /\ a.deqInv < b.deqInv => a.deqLin < b.deqLin

Inv ==
  /\ Types
  /\ AllLocal
  /\ QueueInv
  /\ ElemInv
  /\ EnqueuerInv
  /\ TakerInv
  /\ DummyInv
  /\ LiveInv
  /\ CopyInv
  /\ OrderInv
  /\ FifoInv
  /\ CombinerInv
  /\ OwnInv
----------------------------------------------------------------------------
(* What steps have in common.                                              *)

Moves(t, m) == me' = [me EXCEPT ![t] = m]

LEMMA KindFact == ASSUME Types PROVE kind \in {"ms", "fc", "faa", "rq"}
  BY TimestampsAssumption DEF Types, TimestampsAssumption

LEMMA Mine ==
  ASSUME Types, NEW t \in Threads
  PROVE  /\ me[t] \in Locals(clock)
         /\ me[t].at \in Places /\ me[t].e \in Nodes /\ me[t].old \in Nodes
         /\ me[t].enq \in Stamps(clock) /\ me[t].live \in BOOLEAN
         /\ me[t].deqInv \in 0 .. clock /\ me[t].deqLin \in 0 .. clock
         /\ clock \in Nat
  BY DEF Types, Locals

LEMMA Moved ==
  ASSUME Types, NEW t \in Threads, NEW m, Moves(t, m)
  PROVE  /\ me'[t] = m
         /\ \A u \in Threads : u # t => me'[u] = me[u]
  BY DEF Types, Moves

(* Time passes, and what was a time remains one. *)
LEMMA TimePasses ==
  ASSUME NEW c \in Nat, NEW d \in Nat, c <= d
  PROVE  /\ Stamps(c) \subseteq Stamps(d)
         /\ Locals(c) \subseteq Locals(d)
         /\ Records(c) \subseteq Records(d)
<1>1. 0 .. c \subseteq 0 .. d /\ 1 .. c \subseteq 1 .. d
  OBVIOUS
<1>2. Stamps(c) \subseteq Stamps(d)
  BY <1>1 DEF Stamps
<1>3. Locals(c) \subseteq Locals(d)
  BY <1>1, <1>2 DEF Locals
<1>4. Records(c) \subseteq Records(d)
  BY <1>1 DEF Records
<1> QED BY <1>2, <1>3, <1>4

LEMMA TypesKept ==
  ASSUME Types, NEW t \in Threads, NEW m \in Locals(clock'), Moves(t, m),
         kind' = kind, clock' \in {clock, Now},
         queue' \in Seq(Items), dummy' \in Nodes,
         elem' \in [Items -> Stamps(clock')], freed' \subseteq Nodes,
         addr' \in [Items -> 0 .. issued'], issued' \in 0 .. MaxItems,
         logged' \subseteq Records(clock')
  PROVE  Types'
<1>1. clock' \in Nat /\ clock \in Nat /\ clock <= clock'
  BY DEF Types, Now
<1>2. me \in [Threads -> Locals(clock')]
  BY <1>1, TimePasses DEF Types
<1>3. me' \in [Threads -> Locals(clock')]
  BY <1>2 DEF Moves
<1> QED BY <1>1, <1>3 DEF Types

LEMMA StillTyped ==
  ASSUME Types, clock' \in {clock, Now}
  PROVE  /\ clock \in Nat /\ clock' \in Nat /\ clock <= clock'
         /\ queue \in Seq(Items) /\ dummy \in Nodes /\ freed \subseteq Nodes
         /\ elem \in [Items -> Stamps(clock')] /\ addr \in [Items -> 0 .. issued]
         /\ issued \in 0 .. MaxItems /\ logged \subseteq Records(clock')
         /\ \A t \in Threads : me[t] \in Locals(clock')
<1>1. clock' \in Nat /\ clock \in Nat /\ clock <= clock'
  BY DEF Types, Now
<1> QED BY <1>1, TimePasses DEF Types

LEMMA LocalKept ==
  ASSUME Types, AllLocal, NEW t \in Threads, NEW m, Moves(t, m),
         kind' = kind, Local(m)
  PROVE  AllLocal'
<1> SUFFICES ASSUME NEW u \in Threads PROVE Local(me[u])'
  BY DEF AllLocal
<1>1. Local(me'[u])
  BY Moved DEF AllLocal
<1> QED BY <1>1 DEF Local

(* No element enters the queue in a step of somebody who is not entering. *)
LEMMA EnteredSame ==
  ASSUME Types, NEW t \in Threads, NEW m, Moves(t, m), issued' = issued,
         me[t].at \notin Entering, m.at \notin Entering
  PROVE  \A e : Entered(e)' <=> Entered(e)
<1>1. \A u \in Threads : u # t => me'[u] = me[u]
  BY Moved
<1>2. me'[t] = m
  BY Moved
<1> QED BY <1>1, <1>2 DEF Entered

LEMMA OutSame ==
  ASSUME Types, NEW t \in Threads, NEW m, Moves(t, m), issued' = issued,
         me[t].at \notin Entering, m.at \notin Entering, queue' = queue
  PROVE  \A e : /\ Entered(e)' <=> Entered(e)
                /\ Waits(e)' <=> Waits(e)
                /\ Out(e)' <=> Out(e)
<1>1. \A e : Entered(e)' <=> Entered(e)
  BY EnteredSame
<1>2. \A e : Waits(e)' <=> Waits(e)
  BY DEF Waits
<1> QED BY <1>1, <1>2 DEF Out

LEMMA QueueElements ==
  ASSUME Inv
  PROVE  /\ queue \in Seq(Items) /\ Len(queue) \in Nat
         /\ \A k \in 1 .. Len(queue) :
              Entered(queue[k]) /\ queue[k] \in 1 .. issued
         /\ \A e : Waits(e) => Entered(e)
         /\ \A e : Entered(e) => e \in 1 .. issued /\ e \in Items
<1>1. queue \in Seq(Items) /\ Len(queue) \in Nat
  BY DEF Inv, Types
<1>2. \A k \in 1 .. Len(queue) : Entered(queue[k])
  BY DEF Inv, QueueInv
<1>3. \A e : Entered(e) => e \in 1 .. issued /\ e \in Items
  <2>1. issued \in 0 .. MaxItems
    BY DEF Inv, Types
  <2>2. MaxItems \in Nat
    BY TimestampsAssumption DEF TimestampsAssumption
  <2> QED BY <2>1, <2>2 DEF Entered, Items
<1> QED BY <1>1, <1>2, <1>3 DEF Waits

(* The times of an element that has been called for. *)
LEMMA ElementTimes ==
  ASSUME Inv, NEW e \in 1 .. issued
  PROVE  /\ e \in Items /\ elem[e] \in Stamps(clock)
         /\ elem[e].inv \in 0 .. clock /\ elem[e].own \in 0 .. clock
         /\ clock \in Nat
<1>1. issued \in 0 .. MaxItems /\ elem \in [Items -> Stamps(clock)] /\ clock \in Nat
  BY DEF Inv, Types
<1>2. MaxItems \in Nat
  BY TimestampsAssumption DEF TimestampsAssumption
<1>3. e \in Items
  BY <1>1, <1>2 DEF Items
<1>4. elem[e] \in Stamps(clock)
  BY <1>1, <1>3
<1> QED BY <1>1, <1>3, <1>4 DEF Stamps

(* The elements are as they were, but for what is stored in their enq_lin; *)
(* a combiner is the only one to store anything there.                     *)
SameTimes ==
  /\ \A e \in Items : /\ elem'[e].inv = elem[e].inv
                      /\ elem'[e].own = elem[e].own
                      /\ elem'[e].from = elem[e].from
  /\ kind = "fc" => elem' = elem

LEMMA ElementsKept ==
  ASSUME Inv, queue' = queue, SameTimes, issued' = issued, kind' = kind,
         \A e : /\ Entered(e)' <=> Entered(e)
                /\ Waits(e)' <=> Waits(e)
                /\ Out(e)' <=> Out(e)
  PROVE  QueueInv' /\ ElemInv' /\ OrderInv'
<1>1. QueueInv'
  BY DEF Inv, QueueInv
<1>2. /\ \A e \in 1 .. issued : e \in Items
      /\ \A k \in 1 .. Len(queue) : queue[k] \in Items
  BY ElementTimes, QueueElements
<1>3. ElemInv'
  <2>1. \A e \in Items : e > issued => elem'[e].own = 0
    BY DEF Inv, ElemInv, SameTimes
  <2>2. \A e \in 1 .. issued : elem'[e].own # 0 => elem'[e].inv < elem'[e].own
    BY <1>2 DEF Inv, ElemInv, SameTimes
  <2>3. \A e, f \in 1 .. issued : e < f =>
          /\ elem'[e].inv < elem'[f].inv
          /\ elem'[e].from = elem'[f].from /\ elem'[e].own # 0 =>
               elem'[e].own < elem'[f].inv
    BY <1>2 DEF Inv, ElemInv, SameTimes
  <2>4. kind = "fc" =>
          \A e \in 1 .. issued : Entered(e)' => Exact(elem'[e])
    BY DEF Inv, ElemInv, SameTimes
  <2> QED BY <2>1, <2>2, <2>3, <2>4 DEF ElemInv, Exact
<1>4. OrderInv'
  BY <1>2 DEF Inv, OrderInv, SameTimes
<1> QED BY <1>1, <1>3, <1>4

LEMMA EnqueuersKept ==
  ASSUME Inv, NEW t \in Threads, NEW m, Moves(t, m), SameTimes,
         issued' = issued, m.at \notin Enqueuing
  PROVE  EnqueuerInv'
<1> SUFFICES ASSUME NEW u \in Threads, me'[u].at \in Enqueuing
             PROVE  /\ me'[u].e \in 1 .. issued
                    /\ elem'[me'[u].e].from = {u}
                    /\ me'[u].at # "store" => elem'[me'[u].e].own = 0
                    /\ \A b \in 1 .. issued : elem'[b].from = {u} => b <= me'[u].e
  BY DEF EnqueuerInv
<1>1. me'[u] = me[u]
  BY Moved DEF Inv
<1>2. \A e \in 1 .. issued : e \in Items
  BY ElementTimes
<1> QED BY <1>1, <1>2 DEF Inv, EnqueuerInv, SameTimes

(* The dequeues that have taken something, one by one. *)
LEMMA TakeFacts ==
  ASSUME Inv, NEW x \in Takes
  PROVE  /\ Out(x.e) /\ x.e \in Items /\ x.e \in 1 .. issued
         /\ x.inv \in 0 .. clock /\ x.lin \in 0 .. clock
<1>1. CASE \E r \in logged :
              x = [e |-> r.e, inv |-> r.deqInv, lin |-> r.deqLin]
  <2>1. PICK r \in logged :
             x = [e |-> r.e, inv |-> r.deqInv, lin |-> r.deqLin]
    BY <1>1
  <2>2. x.e = r.e /\ x.inv = r.deqInv /\ x.lin = r.deqLin
    BY <2>1
  <2>3. r \in Records(clock) /\ Out(r.e)
    BY DEF Inv, Types, CopyInv
  <2>4. /\ r.e \in Items /\ r.deqInv \in 1 .. clock /\ r.deqLin \in 1 .. clock
        /\ clock \in Nat
    BY <2>3 DEF Records, Inv, Types
  <2> QED BY <2>2, <2>3, <2>4 DEF Out, Entered
<1>2. CASE \E t \in Threads :
              /\ me[t].at \in {"deqLin", "log"}
              /\ x = [e |-> me[t].e, inv |-> me[t].deqInv, lin |-> me[t].deqLin]
  <2>1. PICK t \in Threads :
              /\ me[t].at \in {"deqLin", "log"}
              /\ x = [e |-> me[t].e, inv |-> me[t].deqInv, lin |-> me[t].deqLin]
    BY <1>2
  <2>2. x.e = me[t].e /\ x.inv = me[t].deqInv /\ x.lin = me[t].deqLin
    BY <2>1
  <2>3. Out(me[t].e) /\ me[t].e \in Items
    BY <2>1 DEF Inv, TakerInv, Taking, AllLocal, Local
  <2> QED BY <2>2, <2>3, Mine DEF Inv, Out, Entered
<1> QED BY <1>1, <1>2 DEF Takes

LEMMA TakesAfter ==
  ASSUME Types, NEW t \in Threads, NEW m, Moves(t, m), logged' = logged,
         NEW x \in Takes'
  PROVE  \/ x \in Takes
         \/ /\ m.at \in {"deqLin", "log"}
            /\ x = [e |-> m.e, inv |-> m.deqInv, lin |-> m.deqLin]
<1>1. CASE \E r \in logged :
              x = [e |-> r.e, inv |-> r.deqInv, lin |-> r.deqLin]
  BY <1>1 DEF Takes
<1>2. CASE \E u \in Threads :
         /\ me'[u].at \in {"deqLin", "log"}
         /\ x = [e |-> me'[u].e, inv |-> me'[u].deqInv, lin |-> me'[u].deqLin]
  <2>1. PICK u \in Threads :
         /\ me'[u].at \in {"deqLin", "log"}
         /\ x = [e |-> me'[u].e, inv |-> me'[u].deqInv, lin |-> me'[u].deqLin]
    BY <1>2
  <2>2. CASE u = t
    BY <2>1, <2>2, Moved
  <2>3. CASE u # t
    BY <2>1, <2>3, Moved DEF Takes
  <2> QED BY <2>2, <2>3
<1> QED BY <1>1, <1>2 DEF Takes

(* The dequeuers' part of the invariant, where elements and records stay.  *)
LEMMA TakersKept ==
  ASSUME Inv, NEW t \in Threads, NEW m, Moves(t, m), kind' = kind,
         freed' = freed, dummy' = dummy,
         \A e : Out(e)' <=> Out(e),
         m.at \in Taking =>
           me[t].at \in Taking /\ m.e = me[t].e /\ m.old = me[t].old
  PROVE  TakerInv' /\ DummyInv'
<1>1. \A u \in Threads : me'[u].at \in Taking =>
        me[u].at \in Taking /\ me'[u].e = me[u].e /\ me'[u].old = me[u].old
  BY Moved DEF Inv
<1>2. TakerInv'
  BY <1>1 DEF Inv, TakerInv
<1>3. DummyInv'
  BY <1>1 DEF Inv, DummyInv
<1> QED BY <1>2, <1>3

LEMMA LiveKept ==
  ASSUME Inv, NEW t \in Threads, NEW m, Moves(t, m), kind' = kind,
         freed' = freed, logged' = logged,
         m.at = "claim" /\ ~ m.live => m.e \in freed,
         m.at \in {"deqLin", "log"} /\ kind \in {"ms", "fc"} => m.live
  PROVE  LiveInv'
<1>1. me'[t] = m /\ \A u \in Threads : u # t => me'[u] = me[u]
  BY Moved DEF Inv
<1> QED BY <1>1 DEF Inv, LiveInv, LoggedTimesAreLive

(* Where a thread has copied the times of its element already. *)
HasCopy(m) == \/ m.at = "claim"
              \/ m.at \in {"deqLin", "log"} /\ kind \in {"ms", "fc"}

LEMMA CopiesKept ==
  ASSUME Inv, NEW t \in Threads, NEW m, Moves(t, m), kind' = kind,
         logged' = logged,
         \A e : Entered(e) => Entered(e)',
         \A e : Out(e) => Out(e)',
         \A e, x : Entered(e) /\ Copy(e, x) => Copy(e, x)',
         m.at \in {"read", "claim"} => Entered(m.e)',
         HasCopy(m) => Copy(m.e, m.enq)'
  PROVE  CopyInv'
<1>1. me'[t] = m /\ \A u \in Threads : u # t => me'[u] = me[u]
  BY Moved DEF Inv
<1>2. \A e, x : Out(e) /\ Copy(e, x) => Copy(e, x)'
  BY DEF Out
<1>3. \A r \in logged' :
       /\ Out(r.e)'
       /\ Copy(r.e, [inv |-> r.enqInv, lin |-> r.enqLin,
                     own |-> r.own, from |-> r.from])'
  <2> SUFFICES ASSUME NEW r \in logged'
               PROVE  /\ Out(r.e)'
                      /\ Copy(r.e, [inv |-> r.enqInv, lin |-> r.enqLin,
                                    own |-> r.own, from |-> r.from])'
    OBVIOUS
  <2>1. /\ Out(r.e)
        /\ Copy(r.e, [inv |-> r.enqInv, lin |-> r.enqLin,
                      own |-> r.own, from |-> r.from])
    BY DEF Inv, CopyInv
  <2> QED BY <1>2, <2>1
<1>4. ASSUME NEW u \in Threads, NEW p, p = me'[u]
      PROVE  /\ p.at \in {"read", "claim"} => Entered(p.e)'
             /\ HasCopy(p) => Copy(p.e, p.enq)'
  <2>1. CASE u = t
    <3>1. p = m
      BY <2>1, <1>1, <1>4
    <3> QED BY <3>1
  <2>2. CASE u # t
    <3>1. p = me[u]
      BY <2>2, <1>1, <1>4
    <3>2. /\ p.at \in {"read", "claim"} => Entered(p.e)
          /\ HasCopy(p) => Copy(p.e, p.enq)
      BY <3>1 DEF Inv, CopyInv, HasCopy
    <3>3. HasCopy(p) => Entered(p.e)
      BY <3>1, <3>2 DEF HasCopy, Inv, TakerInv, Taking, Out
    <3> QED BY <3>2, <3>3
  <2> QED BY <2>1, <2>2
<1>5. \A u \in Threads :
        /\ me'[u].at \in {"read", "claim"} => Entered(me[u].e)'
        /\ HasCopy(me[u])' => Copy(me[u].e, me[u].enq)'
  <2> SUFFICES ASSUME NEW u \in Threads
               PROVE  /\ me'[u].at \in {"read", "claim"} => Entered(me[u].e)'
                      /\ HasCopy(me[u])' => Copy(me[u].e, me[u].enq)'
    OBVIOUS
  <2>1. PICK p : p = me'[u]
    OBVIOUS
  <2>2. /\ p.at \in {"read", "claim"} => Entered(p.e)'
        /\ HasCopy(p) => Copy(p.e, p.enq)'
    BY <1>4, <2>1
  <2>3. me'[u].at \in {"read", "claim"} => Entered(me[u].e)'
    BY <2>1, <2>2 DEF Entered
  <2>4. HasCopy(me[u])' => Copy(me[u].e, me[u].enq)'
    BY <2>1, <2>2 DEF Copy, HasCopy
  <2> QED BY <2>3, <2>4
<1> QED BY <1>3, <1>5 DEF CopyInv, HasCopy

(* New times are later than what the thread has logged. *)
LEMMA OwnKept ==
  ASSUME Inv, NEW t \in Threads, NEW m, Moves(t, m), logged' = logged,
         m.at # "delete" =>
           /\ m.deqInv \in {0, Now} \/ (me[t].at # "delete" /\ m.deqInv = me[t].deqInv)
           /\ m.deqLin \in {0, Now} \/ (me[t].at # "delete" /\ m.deqLin = me[t].deqLin)
  PROVE  OwnInv'
<1> SUFFICES ASSUME NEW r \in logged, me'[r.by].at # "delete"
             PROVE  LET p == me'[r.by] IN
                 /\ p.deqInv # 0 => r.deqInv < p.deqInv /\ r.deqLin < p.deqInv
                 /\ p.deqLin # 0 => r.deqInv < p.deqLin /\ r.deqLin < p.deqLin
  BY DEF Inv, OwnInv
<1>1. r \in Records(clock) /\ clock \in Nat
  BY DEF Inv, Types
<1>2. r.by \in Threads /\ r.deqInv \in 1 .. clock /\ r.deqLin \in 1 .. clock
  BY <1>1 DEF Records
<1>3. LET p == me[r.by] IN p.at # "delete" =>
        /\ p.deqInv # 0 => r.deqInv < p.deqInv /\ r.deqLin < p.deqInv
        /\ p.deqLin # 0 => r.deqInv < p.deqLin /\ r.deqLin < p.deqLin
  BY DEF Inv, OwnInv
<1>4. CASE r.by # t
  BY <1>2, <1>3, <1>4, Moved DEF Inv
<1>5. CASE r.by = t
  <2>1. me'[r.by] = m
    BY <1>5, Moved DEF Inv
  <2> QED BY <1>1, <1>2, <1>3, <1>5, <2>1 DEF Now
<1> QED BY <1>4, <1>5

(* The time of an element in the queue, or taken, may be taken. *)
MayBeStamped(e) ==
  /\ elem'[e].inv = elem[e].inv
  /\ elem'[e].own # 0 =>
       \/ elem'[e].own = Now
       \/ elem[e].own # 0 /\ elem'[e].own = elem[e].own

LEMMA FifoKept ==
  ASSUME Inv, NEW t \in Threads, NEW m, Moves(t, m), kind' = kind,
         logged' = logged,
         \A e : Entered(e) => MayBeStamped(e),
         kind # "rq" /\ m.at \in {"deqLin", "log"} =>
           /\ me[t].at = "deqLin"
           /\ m.e = me[t].e /\ m.deqInv = me[t].deqInv /\ m.deqLin = Now
  PROVE  FifoInv'
<1> SUFFICES ASSUME kind # "rq", NEW x \in Takes', NEW y \in Takes',
                    y.lin # 0, elem'[x.e].own # 0, elem'[x.e].own < elem'[y.e].inv
             PROVE  x.inv < y.lin
  BY DEF FifoInv
<1> DEFINE old == [e |-> me[t].e, inv |-> me[t].deqInv, lin |-> me[t].deqLin]
           new == [e |-> m.e, inv |-> m.deqInv, lin |-> m.deqLin]
<1>1. \A z \in Takes' : \/ z \in Takes
                        \/ z = new /\ m.at \in {"deqLin", "log"}
  BY TakesAfter DEF Inv
<1>2. m.at \in {"deqLin", "log"} => /\ old \in Takes /\ old.e = new.e
                                    /\ old.inv = new.inv /\ new.lin = Now
  BY DEF Takes
<1> HIDE DEF old, new
<1>3. PICK z \in Takes : z.e = x.e /\ z.inv = x.inv
  BY <1>1, <1>2
<1>4. PICK w \in Takes : w.e = y.e /\ (w = y \/ y.lin = Now)
  BY <1>1, <1>2
<1>5. clock \in Nat /\ Now = clock + 1
  BY DEF Inv, Types, Now
<1>6. /\ z.inv \in 0 .. clock
      /\ Entered(z.e) /\ Entered(w.e) /\ z.e \in Items /\ w.e \in Items
  BY TakeFacts DEF Out
<1>7. elem[z.e] \in Stamps(clock) /\ elem[w.e] \in Stamps(clock)
  BY <1>6 DEF Inv, Types
<1>8. elem[w.e].inv \in 0 .. clock
  BY <1>7 DEF Stamps
<1>9. MayBeStamped(z.e) /\ MayBeStamped(w.e)
  BY <1>6
<1>10. elem[z.e].own # 0 /\ elem[z.e].own < elem[w.e].inv
  BY <1>3, <1>4, <1>5, <1>8, <1>9 DEF MayBeStamped
<1>11. CASE w = y
  BY <1>3, <1>10, <1>11 DEF Inv, FifoInv
<1>12. CASE y.lin = Now
  BY <1>3, <1>5, <1>6, <1>12
<1> QED BY <1>4, <1>11, <1>12

LEMMA CombinerKept ==
  ASSUME Inv, NEW t \in Threads, NEW m, Moves(t, m), kind' = kind,
         queue' = queue, logged' = logged,
         \A e : (Out(e)' <=> Out(e)) /\ (Waits(e)' <=> Waits(e)),
         kind = "fc" => \A e : Entered(e) => elem'[e] = elem[e],
         kind = "fc" => m.at \notin {"deqLin", "log"}
  PROVE  CombinerInv'
<1> SUFFICES ASSUME kind = "fc" PROVE CombinerInv'
  BY DEF CombinerInv
<1>1. \A x \in Takes' : x \in Takes /\ elem'[x.e] = elem[x.e]
  BY TakesAfter, TakeFacts DEF Inv, Out
<1>2. \A u \in Threads : me'[u].at = "log" => me[u].at = "log" /\ me'[u] = me[u]
  BY Moved DEF Inv
<1>3. \A k \in 1 .. Len(queue) : Entered(queue[k])
  BY DEF Inv, QueueInv
<1>4. \A e : Waits(e) \/ Out(e) => Entered(e) /\ e \in 1 .. issued
  BY <1>3 DEF Waits, Out, Entered
<1>5. \A j, k \in 1 .. Len(queue') : j < k =>
        elem'[queue'[j]].own < elem'[queue'[k]].own
  BY <1>3 DEF Inv, CombinerInv
<1>6. \A a, b : Out(b)' /\ Waits(a)' => elem'[b].own < elem'[a].own
  <2> SUFFICES ASSUME NEW a, NEW b, Out(b), Waits(a)
               PROVE  elem'[b].own < elem'[a].own
    OBVIOUS
  <2>1. elem[b].own < elem[a].own
    BY <1>4 DEF Inv, CombinerInv
  <2> QED BY <1>4, <2>1
<1>7. \A x \in Takes' : x.inv < x.lin /\ elem'[x.e].own < x.lin
  BY <1>1 DEF Inv, CombinerInv
<1>8. \A x, y \in Takes' : elem'[x.e].own < elem'[y.e].own <=> x.lin < y.lin
  BY <1>1 DEF Inv, CombinerInv
<1>9. \A u \in Threads : me'[u].at = "log" => Exact(me'[u].enq)
  BY <1>2 DEF Inv, CombinerInv
<1>10. \A r \in logged' : Genuine(r)
  BY DEF Inv, CombinerInv
<1> QED BY <1>5, <1>6, <1>7, <1>8, <1>9, <1>10 DEF CombinerInv

(* A thread goes on, and at most an enq_lin is written. *)
LEMMA UnseenStep ==
  ASSUME Inv, NEW t \in Threads, NEW m \in Locals(clock'), Moves(t, m),
         clock' \in {clock, Now},
         UNCHANGED <<kind, queue, dummy, addr, freed, issued, logged>>,
         elem' \in [Items -> Stamps(clock')], SameTimes,
         me[t].at \notin Entering, m.at \notin Enqueuing, Local(m),
         m.at \in Taking =>
           me[t].at \in Taking /\ m.e = me[t].e /\ m.old = me[t].old,
         m.at = "claim" /\ ~ m.live => m.e \in freed,
         m.at \in {"deqLin", "log"} /\ kind \in {"ms", "fc"} => m.live,
         m.at \in {"read", "claim"} => Entered(m.e),
         HasCopy(m) => Copy(m.e, m.enq),
         m.at \in {"deqLin", "log"} /\ kind # "rq" =>
           /\ me[t].at = "deqLin"
           /\ m.deqInv = me[t].deqInv /\ m.deqLin = Now,
         m.at # "delete" =>
           /\ m.deqInv \in {0, Now}
                \/ (me[t].at # "delete" /\ m.deqInv = me[t].deqInv)
           /\ m.deqLin \in {0, Now}
                \/ (me[t].at # "delete" /\ m.deqLin = me[t].deqLin)
  PROVE  Inv'
<1>1. Types /\ AllLocal
  BY DEF Inv
<1>2. Types'
  BY <1>1, StillTyped, TypesKept
<1>3. AllLocal'
  BY <1>1, LocalKept
<1>4. \A e : /\ Entered(e)' <=> Entered(e)
             /\ Waits(e)' <=> Waits(e)
             /\ Out(e)' <=> Out(e)
  BY <1>1, OutSame DEF Enqueuing
<1>5. QueueInv' /\ ElemInv' /\ OrderInv'
  BY <1>4, ElementsKept
<1>6. EnqueuerInv'
  BY EnqueuersKept
<1>7. TakerInv' /\ DummyInv'
  BY <1>4, TakersKept
<1>8. LiveInv'
  BY LiveKept
<1>9. CopyInv'
  <2>1. \A e, x : Entered(e) /\ Copy(e, x) => Copy(e, x)'
    BY QueueElements DEF Copy, SameTimes
  <2>2. HasCopy(m) => Entered(m.e)
    BY DEF HasCopy, Taking, Inv, TakerInv, Out
  <2> QED BY <1>4, <2>1, <2>2, CopiesKept
<1>10. FifoInv'
  <2>1. m.at \in {"deqLin", "log"} => m.e = me[t].e
    BY DEF Taking
  <2>2. \A e : Entered(e) => MayBeStamped(e)
    BY QueueElements DEF MayBeStamped, SameTimes
  <2> QED BY <2>1, <2>2, FifoKept
<1>11. CombinerInv'
  <2>1. kind = "fc" => m.at \notin {"deqLin", "log"}
    <3>1. Local(me[t])
      BY <1>1 DEF AllLocal
    <3> QED BY <3>1 DEF Local
  <2>2. kind = "fc" => \A e : Entered(e) => elem'[e] = elem[e]
    BY DEF SameTimes
  <2> QED BY <1>4, <2>1, <2>2, CombinerKept
<1>12. OwnInv'
  BY OwnKept
<1> QED
  BY <1>2, <1>3, <1>5, <1>6, <1>7, <1>8, <1>9, <1>10, <1>11, <1>12 DEF Inv

(* A thread that is not enqueuing goes on: nobody else can see it. *)
LEMMA QuietStep ==
  ASSUME Inv, NEW t \in Threads, NEW m \in Locals(clock'), Moves(t, m),
         clock' \in {clock, Now},
         UNCHANGED <<kind, queue, dummy, elem, addr, freed, issued, logged>>,
         me[t].at \notin Enqueuing, m.at \notin Enqueuing, Local(m),
         m.at \in Taking =>
           me[t].at \in Taking /\ m.e = me[t].e /\ m.old = me[t].old,
         m.at = "claim" /\ ~ m.live => m.e \in freed,
         m.at \in {"deqLin", "log"} /\ kind \in {"ms", "fc"} => m.live,
         m.at \in {"read", "claim"} => Entered(m.e),
         HasCopy(m) => Copy(m.e, m.enq),
         m.at \in {"deqLin", "log"} /\ kind # "rq" =>
           /\ me[t].at = "deqLin"
           /\ m.deqInv = me[t].deqInv /\ m.deqLin = Now,
         m.at # "delete" =>
           /\ m.deqInv \in {0, Now}
                \/ (me[t].at # "delete" /\ m.deqInv = me[t].deqInv)
           /\ m.deqLin \in {0, Now}
                \/ (me[t].at # "delete" /\ m.deqLin = me[t].deqLin)
  PROVE  Inv'
<1>1. elem' \in [Items -> Stamps(clock')]
  BY StillTyped DEF Inv
<1>2. SameTimes /\ me[t].at \notin Entering
  BY DEF SameTimes, Enqueuing
<1> QED BY <1>1, <1>2, UnseenStep

----------------------------------------------------------------------------
(* The steps that nobody else can see.                                     *)

(* What Return leaves of a thread's locals. *)
Left(t) == [Fresh EXCEPT !.enq.inv = IF kind = "fc" THEN me[t].enq.inv ELSE 0]

LEMMA LeftFacts ==
  ASSUME Types, NEW t \in Threads
  PROVE  /\ Left(t) \in Locals(clock)
         /\ Left(t).at = "idle" /\ Left(t).deqInv = 0 /\ Left(t).deqLin = 0
         /\ Local(Left(t))
<1> DEFINE k == IF kind = "fc" THEN me[t].enq.inv ELSE 0
           q == [NoTimes EXCEPT !.inv = k]
           m == [Fresh EXCEPT !.enq = q]
<1>1. Left(t) = m
  BY DEF Left, Fresh, NoTimes
<1>2. k \in 0 .. clock
  BY Mine DEF Stamps
<1> HIDE DEF k
<1>3. NoTimes \in Stamps(clock)
  BY Mine DEF Stamps, NoTimes
<1>4. q \in Stamps(clock)
  BY <1>2, <1>3 DEF Stamps
<1> HIDE DEF q
<1>5. Fresh \in Locals(clock)
  BY <1>3, Mine DEF Fresh, Locals, Places, Nodes
<1>6. m \in Locals(clock)
  BY <1>4, <1>5 DEF Locals
<1>7. m.at = "idle" /\ m.deqInv = 0 /\ m.deqLin = 0
  BY DEF Fresh
<1> HIDE DEF m
<1>8. Local(m)
  BY <1>7 DEF Local, Enqueuing, Entering, Taking, Seeking
<1> QED BY <1>1, <1>6, <1>7, <1>8

(* Whoever gives up, or finds the queue empty, starts anew. *)
LEMMA MissStep == ASSUME Inv, NEW t \in Threads, Miss(t) PROVE Inv'
<1> DEFINE m == Left(t)
<1>1. /\ me[t].at \in {"find", "take", "deqSlot"} /\ Moves(t, m)
      /\ clock' = clock
      /\ UNCHANGED <<kind, queue, dummy, elem, addr, freed, issued, logged>>
  BY DEF Miss, Return, Become, Moves, Left
<1>2. /\ m \in Locals(clock) /\ Local(m)
      /\ m.at = "idle" /\ m.deqInv = 0 /\ m.deqLin = 0
  BY LeftFacts DEF Inv
<1> HIDE DEF m
<1>3. m \in Locals(clock')
  BY <1>1, <1>2
<1>4. /\ m.at \notin Enqueuing \cup Taking /\ ~ HasCopy(m)
      /\ me[t].at \notin Enqueuing
  BY <1>1, <1>2 DEF Enqueuing, Entering, Taking, HasCopy
<1> QED BY <1>1, <1>2, <1>3, <1>4, QuietStep

LEMMA CallDequeueStep == ASSUME Inv, NEW t \in Threads, CallDequeue(t) PROVE Inv'
<1> DEFINE first == kind \in InvokedFirst
           p == CASE kind = "ms" -> "find"
                  [] kind = "fc" -> "deqSlot"
                  [] OTHER       -> "take"
           i == IF first THEN Now ELSE 0
           m == [me[t] EXCEPT !.at = p, !.deqInv = i]
<1>1. /\ me[t].at = "idle" /\ Moves(t, m)
      /\ clock' = IF first THEN Now ELSE clock
      /\ UNCHANGED <<kind, queue, dummy, elem, addr, freed, issued, logged>>
  BY DEF CallDequeue, Become, Moves, Tick
<1>2. /\ clock' \in {clock, Now} /\ i \in {0, Now} /\ i \in 0 .. clock'
      /\ me[t] \in Locals(clock')
  BY <1>1, StillTyped DEF Inv, Now
<1>3. /\ p \in {"find", "deqSlot", "take"}
      /\ p = "find" => kind = "ms"
      /\ p = "deqSlot" => kind = "fc"
      /\ p = "take" => kind \in {"faa", "rq"}
  BY KindFact DEF Inv
<1>4. kind # "rq" => i # 0
  <2>1. clock \in Nat
    BY DEF Inv, Types
  <2> QED BY <2>1, KindFact DEF InvokedFirst, Now, Inv
<1>5. Local(me[t])
  BY DEF Inv, AllLocal
<1> HIDE DEF first, p, i
<1>6. m \in Locals(clock') /\ m.at = p /\ m.deqInv = i /\ m.deqLin = me[t].deqLin
  BY <1>2, <1>3 DEF Locals, Places, Seeking
<1>7. me[t].deqLin = 0
  BY <1>1, <1>5 DEF Local
<1> HIDE DEF m
<1>8. Local(m)
  BY <1>3, <1>4, <1>6, <1>7 DEF Local, Enqueuing, Entering, Taking
<1>9. /\ m.at \notin Enqueuing \cup Taking \cup {"read", "claim"} /\ ~ HasCopy(m)
      /\ me[t].at \notin Enqueuing
  BY <1>1, <1>3, <1>6 DEF Enqueuing, Entering, Taking, HasCopy
<1>10. m.at \notin {"deqLin", "log"}
  BY <1>9 DEF Taking
<1> QED BY <1>1, <1>2, <1>6, <1>7, <1>8, <1>9, <1>10, QuietStep

LEMMA FirstFacts ==
  ASSUME Inv, queue # <<>>
  PROVE  /\ Head(queue) \in Items /\ Len(queue) \in Nat \ {0}
         /\ Head(queue) = queue[1] /\ First = Head(queue)
         /\ Waits(Head(queue)) /\ Entered(Head(queue))
         /\ First # Dummy
         /\ Tail(queue) \in Seq(Items) /\ Len(Tail(queue)) = Len(queue) - 1
         /\ \A k \in 1 .. Len(Tail(queue)) : Tail(queue)[k] = queue[k + 1]
<1>1. queue \in Seq(Items)
  BY DEF Inv, Types
<1>2. /\ Head(queue) \in Items /\ Len(queue) \in Nat \ {0}
      /\ Head(queue) = queue[1] /\ Tail(queue) \in Seq(Items)
      /\ Len(Tail(queue)) = Len(queue) - 1
      /\ \A k \in 1 .. Len(Tail(queue)) : Tail(queue)[k] = queue[k + 1]
  BY <1>1, HeadTailProperties, EmptySeq
<1>3. 1 \in 1 .. Len(queue)
  BY <1>2
<1>4. Waits(Head(queue)) /\ Entered(Head(queue))
  BY <1>2, <1>3 DEF Waits, Inv, QueueInv
<1>5. Dummy \notin Items
  BY DEF Dummy, Items
<1> QED BY <1>2, <1>4, <1>5 DEF First

LEMMA FindStep == ASSUME Inv, NEW t \in Threads, Find(t) PROVE Inv'
<1> DEFINE m == [me[t] EXCEPT !.at = "read", !.e = First]
<1>1. /\ me[t].at = "find" /\ Moves(t, m) /\ queue # <<>> /\ clock' = clock
      /\ UNCHANGED <<kind, queue, dummy, elem, addr, freed, issued, logged>>
  BY DEF Find, Become, Moves
<1>2. First \in Items /\ Entered(First)
  BY <1>1, FirstFacts
<1>3. Local(me[t])
  BY DEF Inv, AllLocal
<1>4. /\ m \in Locals(clock) /\ m.at = "read" /\ m.e = First
      /\ m.deqInv = me[t].deqInv /\ m.deqLin = me[t].deqLin
  BY <1>2, Mine DEF Inv, Locals, Places, Seeking, Nodes
<1> HIDE DEF m
<1>5. Local(m)
  BY <1>1, <1>2, <1>3, <1>4 DEF Local, Enqueuing, Entering, Taking, Seeking
<1>6. /\ m.at \notin Enqueuing \cup Taking /\ ~ HasCopy(m)
      /\ me[t].at \notin Enqueuing
  BY <1>1, <1>4 DEF Enqueuing, Entering, Taking, HasCopy
<1>7. m \in Locals(clock')
  BY <1>1, <1>4
<1> QED BY <1>1, <1>2, <1>4, <1>5, <1>6, <1>7, QuietStep

LEMMA ReadStep == ASSUME Inv, NEW t \in Threads, Read(t) PROVE Inv'
<1> DEFINE e == me[t].e
           m == [me[t] EXCEPT !.enq = elem[e], !.live = e \notin freed,
                              !.at = "claim"]
<1>1. /\ me[t].at = "read" /\ Moves(t, m) /\ clock' = clock
      /\ UNCHANGED <<kind, queue, dummy, elem, addr, freed, issued, logged>>
  BY DEF Read, Copied, Become, Moves
<1>2. Local(me[t]) /\ Entered(e)
  BY <1>1 DEF Inv, AllLocal, CopyInv
<1>3. e \in Items
  BY <1>1, <1>2 DEF Local
<1>4. elem[e] \in Stamps(clock)
  BY <1>3 DEF Inv, Types
<1>5. /\ m \in Locals(clock) /\ m.at = "claim" /\ m.e = e
      /\ m.enq = elem[e] /\ m.live = (e \notin freed)
      /\ m.deqInv = me[t].deqInv /\ m.deqLin = me[t].deqLin
  BY <1>4, Mine DEF Inv, Locals, Places, Seeking
<1> HIDE DEF m
<1>6. Local(m)
  BY <1>1, <1>2, <1>3, <1>5 DEF Local, Enqueuing, Entering, Taking, Seeking
<1>7. Copy(m.e, m.enq)
  BY <1>5 DEF Copy
<1>8. m.at \notin Enqueuing \cup Taking /\ me[t].at \notin Enqueuing
  BY <1>1, <1>5 DEF Enqueuing, Entering, Taking
<1>9. m \in Locals(clock') /\ m.at = "claim"
  BY <1>1, <1>5
<1> QED BY <1>1, <1>2, <1>5, <1>6, <1>7, <1>8, <1>9, QuietStep

LEMMA ClaimLost ==
  ASSUME Inv, NEW t \in Threads, Claim(t), First # me[t].e
  PROVE  Inv'
<1> DEFINE m == [Fresh EXCEPT !.at = "find", !.deqInv = me[t].deqInv]
<1>1. /\ me[t].at = "claim" /\ Moves(t, m) /\ clock' = clock
      /\ UNCHANGED <<kind, queue, dummy, elem, addr, freed, issued, logged>>
  BY DEF Claim, Become, Moves
<1>2. Local(me[t])
  BY DEF Inv, AllLocal
<1>3. NoTimes \in Stamps(clock)
  BY Mine DEF Inv, Stamps, NoTimes
<1>4. /\ m \in Locals(clock) /\ m.at = "find"
      /\ m.deqInv = me[t].deqInv /\ m.deqLin = 0
  <2>1. Fresh \in Locals(clock) /\ Fresh.deqLin = 0
    BY <1>3, Mine DEF Inv, Fresh, Locals, Places, Nodes
  <2>2. me[t].deqInv \in 0 .. clock
    BY Mine DEF Inv
  <2> QED BY <2>1, <2>2 DEF Locals, Places, Seeking
<1> HIDE DEF m
<1>5. Local(m)
  BY <1>1, <1>2, <1>4 DEF Local, Enqueuing, Entering, Taking, Seeking
<1>6. /\ m.at \notin Enqueuing \cup Taking /\ ~ HasCopy(m)
      /\ me[t].at \notin Enqueuing
  BY <1>1, <1>4 DEF Enqueuing, Entering, Taking, HasCopy
<1>7. m \in Locals(clock')
  BY <1>1, <1>4
<1> QED BY <1>1, <1>4, <1>5, <1>6, <1>7, QuietStep

LEMMA DeqLinStep == ASSUME Inv, NEW t \in Threads, DeqLin(t) PROVE Inv'
<1> DEFINE p == IF kind \in InvokedFirst THEN "log" ELSE "deqInv"
           m == [me[t] EXCEPT !.at = p, !.deqLin = Now]
<1>1. /\ me[t].at = "deqLin" /\ Moves(t, m) /\ clock' = Now
      /\ UNCHANGED <<kind, queue, dummy, elem, addr, freed, issued, logged>>
  BY DEF DeqLin, Become, Moves, Tick
<1>2. clock \in Nat /\ Now \in 0 .. clock' /\ Now # 0 /\ me[t] \in Locals(clock')
  BY <1>1, StillTyped DEF Inv, Now
<1>3. /\ p \in {"log", "deqInv"}
      /\ p = "deqInv" => kind = "rq"
      /\ p = "log" => kind # "rq"
  BY KindFact DEF Inv, InvokedFirst
<1>4. Local(me[t])
  BY DEF Inv, AllLocal
<1> HIDE DEF p
<1>5. /\ m \in Locals(clock') /\ m.at = p /\ m.deqLin = Now
      /\ m.deqInv = me[t].deqInv /\ m.e = me[t].e /\ m.old = me[t].old
      /\ m.enq = me[t].enq /\ m.live = me[t].live
  BY <1>2, <1>3 DEF Locals, Places, Taking
<1> HIDE DEF m
<1>6. me[t].e \in Items /\ (kind # "rq" => me[t].deqInv # 0)
  BY <1>1, <1>4 DEF Local, Taking
<1>7. Local(m)
  BY <1>2, <1>3, <1>5, <1>6 DEF Local, Enqueuing, Entering, Taking, Seeking
<1>8. /\ m.at \notin Enqueuing \cup {"read", "claim", "deqLin", "delete"}
      /\ me[t].at \notin Enqueuing \cup {"delete"} /\ me[t].at \in Taking
  BY <1>1, <1>3, <1>5 DEF Enqueuing, Entering, Taking
<1>9. m.at = "log" => /\ HasCopy(m) => Copy(m.e, m.enq)
                      /\ kind \in {"ms", "fc"} => m.live
  BY <1>1, <1>5 DEF Inv, CopyInv, LiveInv, HasCopy
<1>10. HasCopy(m) => m.at = "log"
  BY <1>8 DEF HasCopy
<1>11. m.at = "log" => kind # "rq"
  BY <1>3, <1>5
<1> QED BY <1>1, <1>2, <1>5, <1>7, <1>8, <1>9, <1>10, <1>11, QuietStep

LEMMA DeqInvStep == ASSUME Inv, NEW t \in Threads, DeqInv(t) PROVE Inv'
<1> DEFINE m == [me[t] EXCEPT !.at = "log", !.deqInv = Now]
<1>1. /\ me[t].at = "deqInv" /\ Moves(t, m) /\ clock' = Now
      /\ UNCHANGED <<kind, queue, dummy, elem, addr, freed, issued, logged>>
  BY DEF DeqInv, Become, Moves, Tick
<1>2. clock \in Nat /\ Now \in 0 .. clock' /\ Now # 0 /\ me[t] \in Locals(clock')
  BY <1>1, StillTyped DEF Inv, Now
<1>3. Local(me[t])
  BY DEF Inv, AllLocal
<1>4. kind = "rq" /\ me[t].e \in Items /\ me[t].deqLin # 0
  BY <1>1, <1>3 DEF Local, Taking
<1>5. /\ m \in Locals(clock') /\ m.at = "log" /\ m.deqInv = Now
      /\ m.deqLin = me[t].deqLin /\ m.e = me[t].e /\ m.old = me[t].old
  BY <1>2 DEF Locals, Places, Taking
<1> HIDE DEF m
<1>6. Local(m)
  BY <1>2, <1>4, <1>5 DEF Local, Enqueuing, Entering, Taking, Seeking
<1>7. /\ m.at \notin Enqueuing \cup {"read", "claim"} /\ ~ HasCopy(m)
      /\ me[t].at \notin Enqueuing \cup {"delete"} /\ me[t].at \in Taking
  BY <1>1, <1>4, <1>5 DEF Enqueuing, Entering, Taking, HasCopy
<1>8. m.at = "log"
  BY <1>5
<1> QED BY <1>1, <1>2, <1>4, <1>5, <1>6, <1>7, <1>8, QuietStep

----------------------------------------------------------------------------
(* The steps of an enqueue.                                                *)

LEMMA CallEnqueueStep == ASSUME Inv, NEW t \in Threads, CallEnqueue(t) PROVE Inv'
<1> DEFINE p == IF kind = "fc" THEN "enqSlot" ELSE "insert"
<1>e. PICK e : e = issued + 1
  OBVIOUS
<1>l. PICK lin \in Unwritten :
        elem' = [elem EXCEPT ![e] = [inv |-> Now, lin |-> lin,
                                     own |-> 0, from |-> {t}]]
  BY <1>e DEF CallEnqueue, EnqInv
<1> DEFINE x == [inv |-> Now, lin |-> lin, own |-> 0, from |-> {t}]
           q == [me[t].enq EXCEPT !.inv = Now]
           m == [me[t] EXCEPT !.at = p, !.e = e, !.enq = q]
<1>1. /\ me[t].at = "idle" /\ Moves(t, m) /\ clock' = Now
      /\ e \in Items /\ issued' = e
      /\ addr' \in [Items -> 0 .. issued']
      /\ UNCHANGED <<kind, queue, dummy, freed, logged>>
  <2>1. me' = [me EXCEPT ![t] = [me[t] EXCEPT !.at = p, !.e = e, !.enq.inv = Now]]
    BY <1>e DEF CallEnqueue, Become, EnqInv
  <2>2. [me[t] EXCEPT !.at = p, !.e = e, !.enq.inv = Now] = m
    OBVIOUS
  <2>3. addr' \in [Items -> 0 .. issued']
    <3>1. /\ addr \in [Items -> 0 .. issued] /\ issued \in Nat /\ issued' = e
      BY <1>e DEF CallEnqueue, Inv, Types
    <3>2. PICK n \in 1 .. e : addr' = [addr EXCEPT ![e] = n]
      BY <1>e DEF CallEnqueue, Allocate
    <3>3. addr \in [Items -> 0 .. e] /\ n \in 0 .. e
      BY <1>e, <3>1
    <3> QED BY <3>1, <3>2, <3>3
  <2> QED BY <1>e, <2>1, <2>2, <2>3 DEF CallEnqueue, Moves, Tick
<1>2. /\ clock \in Nat /\ Now \in Nat /\ Now \in 0 .. clock' /\ clock < Now
      /\ issued \in Nat /\ issued \in 0 .. MaxItems /\ lin \in 0 .. clock'
      /\ elem \in [Items -> Stamps(clock')] /\ me[t] \in Locals(clock')
      /\ clock' \in {clock, Now} /\ Types /\ AllLocal
  BY <1>1, StillTyped DEF Inv, Now, Unwritten
<1>3. x \in Stamps(clock')
  BY <1>2 DEF Stamps
<1> HIDE DEF x
<1>4. elem' \in [Items -> Stamps(clock')]
  BY <1>1, <1>2, <1>3, <1>l DEF x
<1>5. elem'[e] = x /\ \A f \in Items : f # e => elem'[f] = elem[f]
  BY <1>1, <1>l DEF x, Inv, Types
<1>6. q \in Stamps(clock')
  BY <1>2 DEF Stamps, Locals
<1> HIDE DEF q
<1>7. /\ m \in Locals(clock') /\ m.at = p /\ m.e = e
      /\ m.deqInv = me[t].deqInv /\ m.deqLin = me[t].deqLin
  BY <1>1, <1>2, <1>6 DEF Locals, Places, Enqueuing, Entering, Nodes
<1>8. /\ p \in Entering /\ p \in {"enqSlot", "insert"}
      /\ p = "insert" => kind # "fc"
      /\ p = "enqSlot" => kind = "fc"
  BY DEF Entering
<1> HIDE DEF m, p
<1>9. e \notin 1 .. issued /\ 1 .. e = 1 .. issued \cup {e}
  BY <1>2, <1>e
<1>10. me'[t] = m /\ \A u \in Threads : u # t => me'[u] = me[u]
  BY <1>1, <1>2, Moved
<1>11. \A f : Entered(f)' <=> Entered(f)
  <2>1. ASSUME NEW f PROVE Entered(f)' <=> Entered(f)
    <3>1. CASE f = e
      <4>1. ~ Entered(f)
        BY <1>9, <3>1 DEF Entered
      <4>2. ~ Entered(f)'
        BY <1>7, <1>8, <1>10, <3>1 DEF Entered
      <4> QED BY <4>1, <4>2
    <3>2. CASE f # e
      BY <1>1, <1>7, <1>9, <1>10, <3>2 DEF Entered, Entering
    <3> QED BY <3>1, <3>2
  <2> QED BY <2>1
<1>12. \A f : (Waits(f)' <=> Waits(f)) /\ (Out(f)' <=> Out(f))
  BY <1>1, <1>11 DEF Waits, Out
<1>13. \A f : Entered(f) => f \in Items /\ f # e /\ elem'[f] = elem[f]
  BY <1>5, <1>9, QueueElements
<1>14. \A f \in 1 .. issued : f \in Items /\ f # e /\ elem'[f] = elem[f]
  BY <1>5, <1>9, ElementTimes
<1>a. Types'
  <2>1. issued' \in 0 .. MaxItems
    BY <1>1 DEF Items
  <2> QED BY <1>1, <1>2, <1>4, <1>7, <2>1, StillTyped, TypesKept
<1>b. AllLocal'
  <2>1. me[t].deqLin = 0
    BY <1>1, <1>2 DEF AllLocal, Local
  <2>2. Local(m)
    BY <1>1, <1>7, <1>8, <2>1 DEF Local, Enqueuing, Entering, Taking, Seeking
  <2> QED BY <1>1, <1>2, <2>2, LocalKept
<1>c. QueueInv'
  BY <1>1, <1>11 DEF Inv, QueueInv
<1>d. ElemInv'
  <2>1. \A f \in Items : f > issued' => elem'[f].own = 0
    <3>1. ASSUME NEW f \in Items, f > issued' PROVE elem'[f].own = 0
      <4>1. f > issued /\ f # e
        BY <1>1, <1>2, <1>e, <3>1 DEF Items
      <4> QED BY <1>5, <4>1 DEF Inv, ElemInv
    <3> QED BY <3>1
  <2>2. elem'[e].own = 0 /\ elem'[e].inv = Now /\ elem'[e].from = {t}
    BY <1>5 DEF x
  <2>3. \A f \in 1 .. issued' : elem'[f].own # 0 => elem'[f].inv < elem'[f].own
    BY <1>1, <1>9, <1>14, <2>2 DEF Inv, ElemInv
  <2>4. ASSUME NEW f \in 1 .. issued', NEW g \in 1 .. issued', f < g
        PROVE  /\ elem'[f].inv < elem'[g].inv
               /\ elem'[f].from = elem'[g].from /\ elem'[f].own # 0 =>
                    elem'[f].own < elem'[g].inv
    <3>1. f \in 1 .. issued
      BY <1>1, <1>2, <1>e, <2>4
    <3>2. CASE g \in 1 .. issued
      BY <1>14, <2>4, <3>1, <3>2 DEF Inv, ElemInv
    <3>3. CASE g = e
      BY <1>2, <1>14, <2>2, <3>1, <3>3, ElementTimes
    <3> QED BY <1>1, <1>9, <3>2, <3>3
  <2>5. kind' = "fc" => \A f \in 1 .. issued' : Entered(f)' => Exact(elem'[f])
    BY <1>1, <1>9, <1>11, <1>13, <1>14 DEF Inv, ElemInv
  <2> QED BY <2>1, <2>3, <2>4, <2>5 DEF ElemInv, Exact
<1>f. EnqueuerInv'
  <2> SUFFICES ASSUME NEW u \in Threads, me'[u].at \in Enqueuing
               PROVE  /\ me'[u].e \in 1 .. issued'
                      /\ elem'[me'[u].e].from = {u}
                      /\ me'[u].at # "store" => elem'[me'[u].e].own = 0
                      /\ \A b \in 1 .. issued' :
                           elem'[b].from = {u} => b <= me'[u].e
    BY DEF EnqueuerInv
  <2>1. /\ elem'[e].from = {t} /\ elem'[e].own = 0
        /\ issued' = e /\ e \in 1 .. e /\ \A b \in 1 .. e : b <= e
    BY <1>1, <1>2, <1>5, <1>e DEF x
  <2>2. CASE u = t
    BY <1>7, <1>10, <2>1, <2>2
  <2>3. CASE u # t
    <3>1. me'[u] = me[u] /\ me[u].at \in Enqueuing
      BY <1>10, <2>3
    <3>2. /\ me[u].e \in 1 .. issued /\ elem[me[u].e].from = {u}
          /\ me[u].at # "store" => elem[me[u].e].own = 0
          /\ \A b \in 1 .. issued : elem[b].from = {u} => b <= me[u].e
      BY <3>1 DEF Inv, EnqueuerInv
    <3>3. elem'[e].from # {u}
      BY <2>1, <2>3
    <3> QED BY <1>9, <1>14, <2>1, <3>1, <3>2, <3>3
  <2> QED BY <2>2, <2>3
<1>n. m.at \notin Taking \cup {"claim", "read", "deqLin", "log", "delete"}
      /\ ~ HasCopy(m) /\ me[t].at # "delete"
  BY <1>1, <1>7, <1>8 DEF Taking, HasCopy
<1>g. TakerInv' /\ DummyInv'
  BY <1>1, <1>12, <1>n, TakersKept
<1>h. LiveInv'
  BY <1>1, <1>n, LiveKept
<1>i. CopyInv'
  <2>1. \A f, c : Entered(f) /\ Copy(f, c) => Copy(f, c)'
    BY <1>13 DEF Copy
  <2> QED BY <1>1, <1>11, <1>12, <1>n, <2>1, CopiesKept
<1>j. OrderInv'
  <2>1. \A j, k \in 1 .. Len(queue') : j < k /\ elem'[queue'[k]].own # 0 =>
          elem'[queue'[j]].inv < elem'[queue'[k]].own
    <3>1. \A k \in 1 .. Len(queue) : elem'[queue[k]] = elem[queue[k]]
      BY <1>13, QueueElements
    <3> QED BY <1>1, <3>1 DEF Inv, OrderInv
  <2>2. \A a, b \in 1 .. issued' : Out(b)' /\ Waits(a)' /\ elem'[a].own # 0 =>
          elem'[b].inv < elem'[a].own
    BY <1>12, <1>13, <1>14, QueueElements DEF Inv, OrderInv, Out
  <2> QED BY <2>1, <2>2 DEF OrderInv
<1>k. FifoInv'
  <2>1. \A f : Entered(f) => MayBeStamped(f)
    BY <1>13 DEF MayBeStamped
  <2> QED BY <1>1, <1>n, <2>1, FifoKept
<1>m. CombinerInv'
  BY <1>1, <1>12, <1>13, <1>n, CombinerKept
<1>o. OwnInv'
  BY <1>1, <1>7, <1>n, OwnKept
<1> QED
  BY <1>a, <1>b, <1>c, <1>d, <1>f, <1>g, <1>h, <1>i, <1>j, <1>k, <1>m, <1>o
     DEF Inv

(* An element enters the queue. *)
LEMMA EnterFacts ==
  ASSUME Inv, NEW t \in Threads, NEW m, Moves(t, m), NEW e, e = me[t].e,
         me[t].at \in Entering, m.at \notin Entering,
         queue' = Append(queue, e), issued' = issued
  PROVE  /\ e \in 1 .. issued /\ e \in Items /\ ~ Entered(e) /\ ~ Waits(e)
         /\ queue' \in Seq(Items) /\ Len(queue') = Len(queue) + 1
         /\ queue'[Len(queue) + 1] = e
         /\ \A k \in 1 .. Len(queue) : queue'[k] = queue[k]
         /\ \A x : Entered(x)' <=> Entered(x) \/ x = e
         /\ \A x : Waits(x)' <=> Waits(x) \/ x = e
         /\ \A x : Out(x)' <=> Out(x)
         /\ QueueInv'
<1>1. e \in 1 .. issued
  BY DEF Enqueuing, Inv, EnqueuerInv
<1>2. e \in Items
  BY <1>1, ElementTimes
<1>3. ~ Entered(e)
  BY DEF Entered
<1>4. ~ Waits(e)
  BY <1>3, QueueElements
<1>5. queue \in Seq(Items) /\ Len(queue) \in Nat
  BY QueueElements
<1>6. /\ queue' \in Seq(Items) /\ Len(queue') = Len(queue) + 1
      /\ queue'[Len(queue) + 1] = e
      /\ \A k \in 1 .. Len(queue) : queue'[k] = queue[k]
  BY <1>2, <1>5, AppendProperties
<1>7. me'[t] = m /\ \A u \in Threads : u # t => me'[u] = me[u]
  BY Moved DEF Inv
<1>8. \A u \in Threads : u # t /\ me[u].at \in Entering => me[u].e # e
  <2>1. elem[e].from = {t}
    BY DEF Enqueuing, Inv, EnqueuerInv
  <2>2. \A u \in Threads : me[u].at \in Entering => elem[me[u].e].from = {u}
    BY DEF Enqueuing, Inv, EnqueuerInv
  <2> QED BY <2>1, <2>2
<1>9. ASSUME NEW x PROVE Entered(x)' <=> Entered(x) \/ x = e
  BY <1>1, <1>7, <1>8 DEF Entered
<1>10. ASSUME NEW x PROVE Waits(x)' <=> Waits(x) \/ x = e
  <2>1. Waits(x)' => Waits(x) \/ x = e
    <3>1. ASSUME NEW k \in 1 .. Len(queue'), queue'[k] = x
          PROVE  Waits(x) \/ x = e
      <4>1. k \in 1 .. Len(queue) \/ k = Len(queue) + 1
        BY <1>5, <1>6
      <4> QED BY <1>6, <3>1, <4>1 DEF Waits
    <3> QED BY <3>1 DEF Waits
  <2>2. Waits(x) => Waits(x)'
    <3>1. \A k \in 1 .. Len(queue) : k \in 1 .. Len(queue')
      BY <1>5, <1>6
    <3> QED BY <1>6, <3>1 DEF Waits
  <2>3. x = e => Waits(x)'
    <3>1. Len(queue) + 1 \in 1 .. Len(queue')
      BY <1>5, <1>6
    <3> QED BY <1>6, <3>1 DEF Waits
  <2> QED BY <2>1, <2>2, <2>3
<1>11. ASSUME NEW x PROVE Out(x)' <=> Out(x)
  BY <1>3, <1>9, <1>10 DEF Out
<1>12. QueueInv'
  <2>1. \A k \in 1 .. Len(queue') : k \in 1 .. Len(queue) \/ k = Len(queue) + 1
    BY <1>5, <1>6
  <2>2. \A k \in 1 .. Len(queue') : Entered(queue[k])'
    BY <1>6, <1>9, <2>1, QueueElements
  <2>3. \A k \in 1 .. Len(queue) : queue[k] # e
    BY <1>3, QueueElements
  <2>4. \A j, k \in 1 .. Len(queue') : queue'[j] = queue'[k] => j = k
    BY <1>6, <2>1, <2>3 DEF Inv, QueueInv
  <2> QED BY <2>2, <2>4 DEF QueueInv
<1> QED BY <1>1, <1>2, <1>3, <1>4, <1>6, <1>9, <1>10, <1>11, <1>12

(* The time of an element is taken, and maybe stored: later than all there *)
(* is.                                                                     *)
Stamping(e) == \/ elem' = [elem EXCEPT ![e].own = Now]
               \/ elem' = [elem EXCEPT ![e].lin = Now, ![e].own = Now]

LEMMA StampFacts ==
  ASSUME Inv, NEW t \in Threads, NEW e, e = me[t].e,
         me[t].at \in Enqueuing \ {"store"}, clock' = Now, Stamping(e)
  PROVE  /\ e \in 1 .. issued /\ e \in Items
         /\ elem' \in [Items -> Stamps(clock')]
         /\ elem'[e].own = Now /\ elem'[e].own # 0
         /\ elem'[e].from = {t}
         /\ \A x \in Items : x # e => elem'[x] = elem[x]
         /\ \A x \in Items : /\ elem'[x].inv = elem[x].inv
                             /\ elem'[x].from = elem[x].from
         /\ \A x \in Items : \A c : Copy(x, c) => Copy(x, c)'
         /\ \A x \in Items : MayBeStamped(x)
         /\ \A x \in 1 .. issued : elem[x].inv < Now /\ elem[x].own < Now
<1>1. /\ e \in 1 .. issued /\ elem[e].from = {t} /\ elem[e].own = 0
  BY DEF Inv, EnqueuerInv
<1>2. e \in Items
  BY <1>1, ElementTimes
<1>3. /\ clock \in Nat /\ Now \in 0 .. clock' /\ clock < Now
      /\ elem \in [Items -> Stamps(clock')]
  BY StillTyped DEF Inv, Now
<1>4. PICK x \in Stamps(clock') :
        /\ elem' = [elem EXCEPT ![e] = x]
        /\ x.own = Now /\ x.inv = elem[e].inv /\ x.from = elem[e].from
  <2> DEFINE y == [elem[e] EXCEPT !.own = Now]
             z == [elem[e] EXCEPT !.lin = Now, !.own = Now]
  <2>1. /\ y \in Stamps(clock')
        /\ y.own = Now /\ y.inv = elem[e].inv /\ y.from = elem[e].from
    BY <1>2, <1>3 DEF Stamps
  <2>2. /\ z \in Stamps(clock')
        /\ z.own = Now /\ z.inv = elem[e].inv /\ z.from = elem[e].from
    BY <1>2, <1>3 DEF Stamps
  <2>3. \/ elem' = [elem EXCEPT ![e] = y]
        \/ elem' = [elem EXCEPT ![e] = z]
    BY DEF Stamping
  <2> HIDE DEF y, z
  <2> QED BY <2>1, <2>2, <2>3
<1>5. x.own # 0
  BY <1>3, <1>4 DEF Now
<1>6. elem' \in [Items -> Stamps(clock')]
  BY <1>3, <1>4
<1>7. elem'[e] = x /\ \A y \in Items : y # e => elem'[y] = elem[y]
  BY <1>2, <1>3, <1>4
<1>8. \A y \in Items : elem'[y].inv = elem[y].inv /\ elem'[y].from = elem[y].from
  BY <1>4, <1>7
<1>9. \A y \in Items : \A c : Copy(y, c) => Copy(y, c)'
  <2>1. ASSUME NEW y \in Items, NEW c, Copy(y, c) PROVE Copy(y, c)'
    <3>1. CASE y = e
      BY <1>1, <1>8, <2>1, <3>1 DEF Copy
    <3>2. CASE y # e
      BY <1>7, <2>1, <3>2 DEF Copy
    <3> QED BY <3>1, <3>2
  <2> QED BY <2>1
<1>10. \A y \in Items : MayBeStamped(y)
  <2>1. \A y \in Items : y # e => MayBeStamped(y)
    BY <1>7 DEF MayBeStamped
  <2>2. MayBeStamped(e)
    BY <1>2, <1>4, <1>7, <1>8 DEF MayBeStamped
  <2> QED BY <2>1, <2>2
<1>11. \A y \in 1 .. issued : elem[y].inv < Now /\ elem[y].own < Now
  BY <1>3, ElementTimes DEF Now
<1> QED BY <1>1, <1>2, <1>4, <1>5, <1>6, <1>7, <1>8, <1>9, <1>10, <1>11

(* What a stamp means for the elements and for the other enqueuers. *)
LEMMA StampedElements ==
  ASSUME Inv, NEW t \in Threads, NEW e, e = me[t].e,
         me[t].at \in Enqueuing \ {"store"},
         NEW m, Moves(t, m), m.at \in Enqueuing => m.at = "store" /\ m.e = e,
         kind' = kind, clock' = Now, issued' = issued,
         Stamping(e), kind = "fc" => elem'[e].lin = Now,
         \A x : Entered(x)' => Entered(x) \/ x = e
  PROVE  ElemInv' /\ EnqueuerInv'
<1>1. /\ e \in 1 .. issued /\ e \in Items /\ elem'[e].own = Now /\ elem'[e].own # 0
      /\ \A x \in Items : x # e => elem'[x] = elem[x]
      /\ \A x \in Items : elem'[x].inv = elem[x].inv /\ elem'[x].from = elem[x].from
      /\ \A x \in 1 .. issued : elem[x].inv < Now
  BY StampFacts
<1>2. /\ elem[e].from = {t}
      /\ \A b \in 1 .. issued : elem[b].from = {t} => b <= e
  BY DEF Inv, EnqueuerInv
<1>3. issued \in Nat
  BY DEF Inv, Types
<1>4. \A f \in 1 .. issued : f \in Items
  BY ElementTimes
<1>5. \A f \in Items : f > issued => elem'[f].own = 0
  <2>1. \A f \in Items : f > issued => f # e
    BY <1>1, <1>3
  <2> QED BY <1>1, <2>1 DEF Inv, ElemInv
<1>6. ASSUME NEW f \in 1 .. issued, elem'[f].own # 0
      PROVE  elem'[f].inv < elem'[f].own
  <2>1. CASE f = e
    BY <1>1, <2>1
  <2>2. CASE f # e
    <3>1. elem'[f] = elem[f]
      BY <1>1, <1>4, <2>2
    <3> QED BY <1>6, <3>1 DEF Inv, ElemInv
  <2> QED BY <2>1, <2>2
<1>7. ASSUME NEW f \in 1 .. issued, NEW g \in 1 .. issued, f < g
      PROVE  /\ elem'[f].inv < elem'[g].inv
             /\ elem'[f].from = elem'[g].from /\ elem'[f].own # 0 =>
                  elem'[f].own < elem'[g].inv
  <2>1. /\ elem[f].inv < elem[g].inv
        /\ elem[f].from = elem[g].from /\ elem[f].own # 0 =>
             elem[f].own < elem[g].inv
    BY <1>7 DEF Inv, ElemInv
  <2>2. f = e => elem[g].from # elem[f].from
    BY <1>2, <1>7
  <2>3. f # e => elem'[f] = elem[f]
    BY <1>1, <1>4
  <2> QED BY <1>1, <1>4, <2>1, <2>2, <2>3
<1>8. ASSUME kind = "fc", NEW f \in 1 .. issued, Entered(f)'
      PROVE  Exact(elem'[f])
  <2>1. CASE f = e
    BY <1>1, <1>8, <2>1 DEF Exact
  <2>2. CASE f # e
    <3>1. Entered(f)
      BY <1>8, <2>2
    <3>2. Exact(elem[f])
      BY <1>8, <3>1 DEF Inv, ElemInv
    <3> QED BY <1>1, <1>4, <2>2, <3>2
  <2> QED BY <2>1, <2>2
<1>9. ElemInv'
  BY <1>5, <1>6, <1>7, <1>8 DEF ElemInv, Exact
<1>10. EnqueuerInv'
  <2> SUFFICES ASSUME NEW u \in Threads, me'[u].at \in Enqueuing
               PROVE  /\ me'[u].e \in 1 .. issued'
                      /\ elem'[me'[u].e].from = {u}
                      /\ me'[u].at # "store" => elem'[me'[u].e].own = 0
                      /\ \A b \in 1 .. issued' :
                           elem'[b].from = {u} => b <= me'[u].e
    BY DEF EnqueuerInv
  <2>1. CASE u = t
    <3>1. me'[u].at = "store" /\ me'[u].e = e
      BY <2>1, Moved DEF Inv
    <3> QED BY <1>1, <1>2, <1>4, <2>1, <3>1
  <2>2. CASE u # t
    <3>1. me'[u] = me[u] /\ me[u].at \in Enqueuing
      BY <2>2, Moved DEF Inv
    <3>2. /\ me[u].e \in 1 .. issued /\ elem[me[u].e].from = {u}
          /\ me[u].at # "store" => elem[me[u].e].own = 0
          /\ \A b \in 1 .. issued : elem[b].from = {u} => b <= me[u].e
      BY <3>1 DEF Inv, EnqueuerInv
    <3>3. me[u].e # e
      BY <1>2, <2>2, <3>2
    <3> QED BY <1>1, <1>4, <3>1, <3>2, <3>3
  <2> QED BY <2>1, <2>2
<1> QED BY <1>9, <1>10

LEMMA InsertStep == ASSUME Inv, NEW t \in Threads, Insert(t) PROVE Inv'
<1>e. PICK e : e = me[t].e
  OBVIOUS
<1> DEFINE m == [me[t] EXCEPT !.at = "stamp"]
<1>1. /\ me[t].at = "insert" /\ Moves(t, m) /\ clock' = clock
      /\ queue' = Append(queue, e)
      /\ UNCHANGED <<kind, dummy, elem, addr, freed, issued, logged>>
  BY <1>e DEF Insert, Become, Moves
<1>2. Local(me[t]) /\ Types /\ AllLocal
  BY DEF Inv, AllLocal
<1>3. /\ m \in Locals(clock) /\ m.at = "stamp" /\ m.e = e
      /\ m.deqInv = me[t].deqInv /\ m.deqLin = me[t].deqLin
  BY <1>e, <1>2, Mine DEF Locals, Places, Enqueuing
<1> HIDE DEF m
<1>4. /\ me[t].at \in Entering /\ me[t].at \in Enqueuing
      /\ m.at \notin Entering /\ m.at \in Enqueuing
      /\ m.at \notin Taking \cup {"claim", "read", "deqLin", "log", "delete"}
      /\ ~ HasCopy(m) /\ me[t].at # "delete"
  BY <1>1, <1>3 DEF Entering, Enqueuing, Taking, HasCopy
<1>5. /\ e \in 1 .. issued /\ e \in Items /\ ~ Entered(e) /\ ~ Waits(e)
      /\ queue' \in Seq(Items) /\ Len(queue') = Len(queue) + 1
      /\ queue'[Len(queue) + 1] = e
      /\ \A k \in 1 .. Len(queue) : queue'[k] = queue[k]
      /\ \A x : Entered(x)' <=> Entered(x) \/ x = e
      /\ \A x : Waits(x)' <=> Waits(x) \/ x = e
      /\ \A x : Out(x)' <=> Out(x)
      /\ QueueInv'
  BY <1>e, <1>1, <1>4, EnterFacts
<1>6. kind # "fc"
  BY <1>1, <1>2 DEF Local
<1>7. /\ elem[e].from = {t} /\ elem[e].own = 0
  BY <1>e, <1>1, <1>4 DEF Inv, EnqueuerInv
<1>a. Types'
  <2>1. m \in Locals(clock') /\ clock' \in {clock, Now}
    BY <1>1, <1>3
  <2> QED BY <1>1, <1>2, <1>5, <2>1, StillTyped, TypesKept
<1>b. AllLocal'
  <2>1. Local(m)
    BY <1>1, <1>2, <1>3, <1>5 DEF Local, Enqueuing, Entering, Taking, Seeking
  <2> QED BY <1>1, <1>2, <2>1, LocalKept
<1>c. ElemInv'
  BY <1>1, <1>6 DEF Inv, ElemInv
<1>d. EnqueuerInv'
  <2> SUFFICES ASSUME NEW u \in Threads, me'[u].at \in Enqueuing
               PROVE  /\ me'[u].e \in 1 .. issued
                      /\ elem[me'[u].e].from = {u}
                      /\ me'[u].at # "store" => elem[me'[u].e].own = 0
                      /\ \A b \in 1 .. issued :
                           elem[b].from = {u} => b <= me'[u].e
    BY <1>1 DEF EnqueuerInv
  <2>1. /\ me[u].at \in Enqueuing /\ me'[u].e = me[u].e
        /\ me[u].at = "store" => me'[u].at = "store"
    BY <1>e, <1>1, <1>2, <1>3, <1>4, Moved
  <2> QED BY <2>1 DEF Inv, EnqueuerInv
<1>f. TakerInv' /\ DummyInv'
  BY <1>1, <1>4, <1>5, TakersKept
<1>g. LiveInv'
  BY <1>1, <1>4, LiveKept
<1>h. CopyInv'
  <2>1. \A x, c : Copy(x, c) => Copy(x, c)'
    BY <1>1 DEF Copy
  <2> QED BY <1>1, <1>4, <1>5, <2>1, CopiesKept
<1>i. OrderInv'
  <2>1. Len(queue) \in Nat
    BY QueueElements
  <2>2. ASSUME NEW j \in 1 .. Len(queue'), NEW k \in 1 .. Len(queue'), j < k,
               elem[queue'[k]].own # 0
        PROVE  elem[queue'[j]].inv < elem[queue'[k]].own
    <3>1. k # Len(queue) + 1
      BY <1>5, <1>7, <2>2
    <3>2. j \in 1 .. Len(queue) /\ k \in 1 .. Len(queue)
      BY <1>5, <2>1, <2>2, <3>1
    <3> QED BY <1>5, <2>2, <3>2 DEF Inv, OrderInv
  <2>3. \A a, b \in 1 .. issued : Out(b)' /\ Waits(a)' /\ elem[a].own # 0 =>
          elem[b].inv < elem[a].own
    BY <1>5, <1>7 DEF Inv, OrderInv
  <2> QED BY <1>1, <2>2, <2>3 DEF OrderInv
<1>j. FifoInv'
  <2>1. \A x : MayBeStamped(x)
    BY <1>1 DEF MayBeStamped
  <2> QED BY <1>1, <1>4, <2>1, FifoKept
<1>k. CombinerInv'
  BY <1>1, <1>6 DEF CombinerInv
<1>m. OwnInv'
  BY <1>1, <1>3, <1>4, OwnKept
<1> QED
  BY <1>a, <1>b, <1>c, <1>d, <1>5, <1>f, <1>g, <1>h, <1>i, <1>j, <1>k, <1>m
     DEF Inv

LEMMA StampStep == ASSUME Inv, NEW t \in Threads, Stamp(t) PROVE Inv'
<1>e. PICK e : e = me[t].e
  OBVIOUS
<1> DEFINE m == [me[t] EXCEPT !.at = "store",
                              !.enq = [me[t].enq EXCEPT !.lin = Now]]
<1>1. /\ me[t].at = "stamp" /\ Moves(t, m) /\ clock' = Now /\ Stamping(e)
      /\ UNCHANGED <<kind, queue, dummy, addr, freed, issued, logged>>
  BY <1>e DEF Stamp, Become, Moves, Tick, Stamping
<1>3. Local(me[t]) /\ Types /\ AllLocal
  BY DEF Inv, AllLocal
<1>c. clock \in Nat /\ clock' \in {clock, Now} /\ clock <= clock'
  BY <1>1 DEF Inv, Types, Now
<1>2. /\ m \in Locals(clock') /\ m.at = "store" /\ m.e = e
      /\ m.deqInv = me[t].deqInv /\ m.deqLin = me[t].deqLin
  <2>1. me[t] \in Locals(clock') /\ Now \in 0 .. clock'
    BY <1>1, <1>3, <1>c, StillTyped DEF Now
  <2>2. [me[t].enq EXCEPT !.lin = Now] \in Stamps(clock')
    BY <2>1 DEF Locals, Stamps
  <2> QED BY <1>e, <2>1, <2>2 DEF Locals, Places, Enqueuing
<1> HIDE DEF m
<1>l. Local(m)
  BY <1>1, <1>2, <1>3, <1>e DEF Local, Enqueuing, Entering, Taking, Seeking
<1>4. /\ me[t].at \in Enqueuing /\ me[t].at \notin Entering
      /\ m.at = "store" /\ m.at \notin Entering
      /\ m.at \notin Taking \cup {"claim", "read", "deqLin", "log", "delete"}
      /\ ~ HasCopy(m) /\ me[t].at # "delete"
  BY <1>1, <1>2 DEF Entering, Enqueuing, Taking, HasCopy
<1>6. \A x : /\ Entered(x)' <=> Entered(x)
             /\ Waits(x)' <=> Waits(x)
             /\ Out(x)' <=> Out(x)
  BY <1>1, <1>3, <1>4, OutSame
<1>7. kind # "fc"
  BY <1>1, <1>3 DEF Local
<1>8. \A x : Entered(x) => x \in Items /\ x \in 1 .. issued
  BY QueueElements
<1>5. ElemInv' /\ EnqueuerInv'
  BY <1>1, <1>2, <1>4, <1>6, <1>7, <1>e, StampedElements
<1>9. /\ elem' \in [Items -> Stamps(clock')]
      /\ elem'[e].own = Now
      /\ \A x \in Items : x # e => elem'[x] = elem[x]
      /\ \A x \in Items : elem'[x].inv = elem[x].inv
      /\ \A x \in Items : \A c : Copy(x, c) => Copy(x, c)'
      /\ \A x \in Items : MayBeStamped(x)
      /\ \A x \in 1 .. issued : elem[x].inv < Now
  BY <1>1, <1>4, <1>e, StampFacts
<1>10. OrderInv'
  <2>1. ASSUME NEW j \in 1 .. Len(queue), NEW k \in 1 .. Len(queue), j < k,
               elem'[queue[k]].own # 0
        PROVE  elem'[queue[j]].inv < elem'[queue[k]].own
    <3>1. /\ queue[j] \in 1 .. issued /\ queue[j] \in Items
          /\ queue[k] \in 1 .. issued /\ queue[k] \in Items
      BY <1>8, QueueElements
    <3>2. elem[queue[k]].own # 0 => elem[queue[j]].inv < elem[queue[k]].own
      BY <2>1 DEF Inv, OrderInv
    <3> QED BY <1>9, <2>1, <3>1, <3>2
  <2>2. ASSUME NEW a \in 1 .. issued, NEW b \in 1 .. issued,
               Out(b), Waits(a), elem'[a].own # 0
        PROVE  elem'[b].inv < elem'[a].own
    <3>1. a \in Items /\ b \in Items
      BY ElementTimes
    <3>2. elem[a].own # 0 => elem[b].inv < elem[a].own
      BY <2>2 DEF Inv, OrderInv
    <3> QED BY <1>9, <2>2, <3>1, <3>2
  <2> QED BY <1>1, <1>6, <2>1, <2>2 DEF OrderInv
<1>a. Types'
  BY <1>1, <1>2, <1>3, <1>9, <1>c, StillTyped, TypesKept
<1>b. AllLocal'
  BY <1>1, <1>3, <1>l, LocalKept
<1>d. QueueInv'
  BY <1>1, <1>6 DEF Inv, QueueInv
<1>f. TakerInv' /\ DummyInv'
  BY <1>1, <1>4, <1>6, TakersKept
<1>g. LiveInv'
  BY <1>1, <1>4, LiveKept
<1>h. CopyInv'
  BY <1>1, <1>4, <1>6, <1>8, <1>9, CopiesKept
<1>j. FifoInv'
  BY <1>1, <1>4, <1>8, <1>9, FifoKept
<1>k. CombinerInv'
  BY <1>1, <1>7 DEF CombinerInv
<1>m. OwnInv'
  BY <1>1, <1>2, <1>4, OwnKept
<1> QED
  BY <1>a, <1>b, <1>d, <1>5, <1>10, <1>f, <1>g, <1>h, <1>j, <1>k, <1>m DEF Inv

(* Whatever the late enqueuer overwrites, it is no time that an enqueuer   *)
(* took for its own element.                                               *)
LEMMA StoreStep == ASSUME Inv, NEW t \in Threads, Store(t) PROVE Inv'
<1> DEFINE m == Left(t)
           a == addr[me[t].e]
           l == me[t].enq.lin
<1>1. /\ me[t].at = "store" /\ Moves(t, m) /\ clock' = clock
      /\ elem' = [x \in Items |->
                    IF addr[x] = a THEN [elem[x] EXCEPT !.lin = l] ELSE elem[x]]
      /\ UNCHANGED <<kind, queue, dummy, addr, freed, issued, logged>>
  BY DEF Store, Return, Become, Moves, Left
<1>2. /\ m \in Locals(clock) /\ Local(m)
      /\ m.at = "idle" /\ m.deqInv = 0 /\ m.deqLin = 0
  BY LeftFacts DEF Inv
<1> HIDE DEF m, a
<1>3. kind # "fc"
  <2>1. Local(me[t])
    BY DEF Inv, AllLocal
  <2> QED BY <1>1, <2>1 DEF Local
<1>4. l \in 0 .. clock
  BY Mine DEF Inv, Stamps
<1> HIDE DEF l
<1>5. ASSUME NEW x \in Items
      PROVE  /\ elem'[x] \in Stamps(clock)
             /\ elem'[x].inv = elem[x].inv /\ elem'[x].own = elem[x].own
             /\ elem'[x].from = elem[x].from
  <2>1. elem[x] \in Stamps(clock)
    BY DEF Inv, Types
  <2>2. elem'[x] = elem[x] \/ elem'[x] = [elem[x] EXCEPT !.lin = l]
    BY <1>1
  <2> QED BY <1>4, <2>1, <2>2 DEF Stamps
<1>6. elem' \in [Items -> Stamps(clock')] /\ SameTimes
  BY <1>1, <1>3, <1>5 DEF SameTimes
<1>7. /\ m.at \notin Enqueuing \cup Taking /\ ~ HasCopy(m)
      /\ me[t].at \notin Entering
  BY <1>1, <1>2 DEF Enqueuing, Entering, Taking, HasCopy
<1>8. m \in Locals(clock')
  BY <1>1, <1>2
<1> QED BY <1>1, <1>2, <1>6, <1>7, <1>8, UnseenStep

LEMMA ServeEnqueueStep == ASSUME Inv, NEW t \in Threads, ServeEnqueue(t) PROVE Inv'
<1>e. PICK e : e = me[t].e
  OBVIOUS
<1> DEFINE m == Left(t)
<1>1. /\ me[t].at = "enqSlot" /\ Moves(t, m) /\ clock' = Now
      /\ elem' = [elem EXCEPT ![e].lin = Now, ![e].own = Now]
      /\ Stamping(e) /\ queue' = Append(queue, e)
      /\ UNCHANGED <<kind, dummy, addr, freed, issued, logged>>
  BY <1>e DEF ServeEnqueue, Return, Become, Moves, Left, Tick, Stamping
<1>2. /\ m \in Locals(clock) /\ Local(m)
      /\ m.at = "idle" /\ m.deqInv = 0 /\ m.deqLin = 0
  BY LeftFacts DEF Inv
<1> HIDE DEF m
<1>3. Local(me[t]) /\ Types /\ AllLocal
  BY DEF Inv, AllLocal
<1>4. /\ me[t].at \in Enqueuing \ {"store"} /\ me[t].at \in Entering
      /\ m.at \notin Enqueuing /\ m.at \notin Entering
      /\ m.at \notin Taking \cup {"claim", "read", "deqLin", "log", "delete"}
      /\ ~ HasCopy(m) /\ me[t].at # "delete"
  BY <1>1, <1>2 DEF Entering, Enqueuing, Taking, HasCopy
<1>5. /\ clock \in Nat /\ clock' \in {clock, Now} /\ clock <= clock'
      /\ m \in Locals(clock')
  <2>1. clock \in Nat /\ clock' \in Nat /\ clock <= clock'
    BY <1>1 DEF Inv, Types, Now
  <2> QED BY <1>1, <1>2, <2>1, TimePasses DEF Inv, Types
<1>6. /\ e \in 1 .. issued /\ e \in Items /\ ~ Entered(e) /\ ~ Waits(e)
      /\ queue' \in Seq(Items) /\ Len(queue') = Len(queue) + 1
      /\ queue'[Len(queue) + 1] = e
      /\ \A k \in 1 .. Len(queue) : queue'[k] = queue[k]
      /\ \A x : Entered(x)' <=> Entered(x) \/ x = e
      /\ \A x : Waits(x)' <=> Waits(x) \/ x = e
      /\ \A x : Out(x)' <=> Out(x)
      /\ QueueInv'
  BY <1>e, <1>1, <1>4, EnterFacts
<1>7. kind = "fc"
  BY <1>1, <1>3 DEF Local
<1>8. /\ elem' \in [Items -> Stamps(clock')]
      /\ elem'[e].own = Now
      /\ \A x \in Items : x # e => elem'[x] = elem[x]
      /\ \A x \in Items : elem'[x].inv = elem[x].inv
      /\ \A x \in Items : \A c : Copy(x, c) => Copy(x, c)'
      /\ \A x \in Items : MayBeStamped(x)
      /\ \A x \in 1 .. issued : elem[x].inv < Now /\ elem[x].own < Now
  BY <1>1, <1>4, <1>e, StampFacts
<1>9. /\ \A x : Entered(x) => x \in 1 .. issued /\ x \in Items /\ x # e
      /\ \A k \in 1 .. Len(queue) : Entered(queue[k])
      /\ Len(queue) \in Nat /\ \A x : Waits(x) => Entered(x)
  BY <1>6, QueueElements
<1>10. \A j, k \in 1 .. Len(queue') : j < k =>
         /\ j \in 1 .. Len(queue)
         /\ k \in 1 .. Len(queue) \/ k = Len(queue) + 1
  BY <1>6, <1>9
<1>a. Types'
  BY <1>1, <1>3, <1>5, <1>6, <1>8, StillTyped, TypesKept
<1>b. AllLocal'
  BY <1>1, <1>2, <1>3, LocalKept
<1>c. ElemInv' /\ EnqueuerInv'
  <2>1. elem'[e].lin = Now
    BY <1>1, <1>6 DEF Inv, Types, Stamps
  <2> QED BY <1>1, <1>4, <1>6, <1>e, <2>1, StampedElements
<1>f. TakerInv' /\ DummyInv'
  BY <1>1, <1>4, <1>6, TakersKept
<1>g. LiveInv'
  BY <1>1, <1>4, LiveKept
<1>h. CopyInv'
  <2>1. \A x, c : Entered(x) /\ Copy(x, c) => Copy(x, c)'
    BY <1>8, <1>9
  <2> QED BY <1>1, <1>4, <1>6, <2>1, CopiesKept
<1>i. OrderInv'
  <2>1. ASSUME NEW j \in 1 .. Len(queue'), NEW k \in 1 .. Len(queue'), j < k,
               elem'[queue'[k]].own # 0
        PROVE  elem'[queue'[j]].inv < elem'[queue'[k]].own
    <3>1. j \in 1 .. Len(queue) /\ queue'[j] = queue[j] /\ Entered(queue[j])
      BY <1>6, <1>9, <1>10, <2>1
    <3>2. CASE k = Len(queue) + 1
      BY <1>6, <1>8, <1>9, <3>1, <3>2
    <3>3. CASE k \in 1 .. Len(queue)
      <4>1. Entered(queue[k]) /\ queue'[k] = queue[k]
        BY <1>6, <1>9, <3>3
      <4>2. elem'[queue[j]] = elem[queue[j]] /\ elem'[queue[k]] = elem[queue[k]]
        BY <1>8, <1>9, <3>1, <4>1
      <4> QED BY <2>1, <3>1, <3>3, <4>1, <4>2 DEF Inv, OrderInv
    <3> QED BY <1>10, <2>1, <3>2, <3>3
  <2>2. ASSUME NEW a \in 1 .. issued, NEW b \in 1 .. issued,
               Out(b)', Waits(a)', elem'[a].own # 0
        PROVE  elem'[b].inv < elem'[a].own
    <3>1. Out(b) /\ Entered(b) /\ elem'[b] = elem[b]
      BY <1>6, <1>8, <1>9, <2>2 DEF Out
    <3>2. CASE a = e
      BY <1>8, <3>1, <3>2
    <3>3. CASE a # e
      <4>1. Waits(a) /\ elem'[a] = elem[a]
        BY <1>6, <1>8, <1>9, <2>2, <3>3
      <4> QED BY <2>2, <3>1, <4>1 DEF Inv, OrderInv
    <3> QED BY <3>2, <3>3
  <2> QED BY <1>1, <2>1, <2>2 DEF OrderInv
<1>j. FifoInv'
  BY <1>1, <1>4, <1>8, <1>9, FifoKept
<1>k. CombinerInv'
  <2>1. \A x \in Takes' : x \in Takes /\ elem'[x.e] = elem[x.e]
    BY <1>1, <1>3, <1>4, <1>8, <1>9, TakesAfter, TakeFacts DEF Out
  <2>2. \A u \in Threads : me'[u].at = "log" => me[u].at = "log" /\ me'[u] = me[u]
    BY <1>1, <1>3, <1>4, Moved
  <2>3. ASSUME NEW j \in 1 .. Len(queue'), NEW k \in 1 .. Len(queue'), j < k
        PROVE  elem'[queue'[j]].own < elem'[queue'[k]].own
    <3>1. /\ j \in 1 .. Len(queue) /\ queue'[j] = queue[j] /\ Entered(queue[j])
          /\ elem'[queue[j]] = elem[queue[j]]
      BY <1>6, <1>8, <1>9, <1>10, <2>3
    <3>2. CASE k = Len(queue) + 1
      BY <1>6, <1>8, <1>9, <3>1, <3>2
    <3>3. CASE k \in 1 .. Len(queue)
      <4>1. queue'[k] = queue[k] /\ elem'[queue[k]] = elem[queue[k]]
        BY <1>6, <1>8, <1>9, <3>3
      <4> QED BY <1>7, <2>3, <3>1, <3>3, <4>1 DEF Inv, CombinerInv
    <3> QED BY <1>10, <2>3, <3>2, <3>3
  <2>4. ASSUME NEW a \in 1 .. issued, NEW b \in 1 .. issued, Out(b)', Waits(a)'
        PROVE  elem'[b].own < elem'[a].own
    <3>1. Out(b) /\ elem'[b] = elem[b]
      BY <1>6, <1>8, <1>9, <2>4 DEF Out
    <3>2. CASE a = e
      BY <1>8, <3>1, <3>2
    <3>3. CASE a # e
      <4>1. Waits(a) /\ elem'[a] = elem[a]
        BY <1>6, <1>8, <1>9, <2>4, <3>3
      <4> QED BY <1>7, <3>1, <4>1 DEF Inv, CombinerInv
    <3> QED BY <3>2, <3>3
  <2>5. \A x \in Takes' : x.inv < x.lin /\ elem'[x.e].own < x.lin
    BY <1>7, <2>1 DEF Inv, CombinerInv
  <2>6. \A x, y \in Takes' : elem'[x.e].own < elem'[y.e].own <=> x.lin < y.lin
    BY <1>7, <2>1 DEF Inv, CombinerInv
  <2>7. \A u \in Threads : me'[u].at = "log" => Exact(me'[u].enq)
    BY <1>7, <2>2 DEF Inv, CombinerInv
  <2>8. \A r \in logged' : Genuine(r)
    BY <1>1, <1>7 DEF Inv, CombinerInv
  <2> QED BY <1>1, <2>3, <2>4, <2>5, <2>6, <2>7, <2>8 DEF CombinerInv
<1>m. OwnInv'
  BY <1>1, <1>2, <1>4, OwnKept
<1> QED
  BY <1>a, <1>b, <1>c, <1>6, <1>f, <1>g, <1>h, <1>i, <1>j, <1>k, <1>m DEF Inv

----------------------------------------------------------------------------
(* The first element is taken.                                             *)

LEMMA TakeFirst ==
  ASSUME Inv, NEW t \in Threads, NEW m \in Locals(clock'), Moves(t, m),
         clock' \in {clock, Now}, queue # <<>>, queue' = Tail(queue),
         UNCHANGED <<kind, elem, addr, freed, issued, logged>>,
         me[t].at \in Seeking, Local(m), NEW h, h = Head(queue), m.e = h,
         kind = "ms" => dummy' = h /\ m.old = dummy,
         kind # "ms" => dummy' = dummy,
         \/ m.at = "deqLin" /\ kind # "fc" /\ m.deqLin = 0
         \/ m.at = "log" /\ kind = "fc" /\ m.deqLin = Now,
         kind \in {"ms", "fc"} => m.live /\ Copy(h, m.enq),
         kind = "fc" => m.enq = elem[h],
         m.deqInv = me[t].deqInv
  PROVE  Inv'
<1>1. Types /\ AllLocal /\ Local(me[t])
  BY DEF Inv, AllLocal
<1>2. /\ h \in Items /\ Len(queue) \in Nat \ {0} /\ h = queue[1]
      /\ Waits(h) /\ Entered(h) /\ h # Dummy
      /\ queue' \in Seq(Items) /\ Len(queue') = Len(queue) - 1
      /\ \A k \in 1 .. Len(queue') : queue'[k] = queue[k + 1]
  BY FirstFacts
<1>3. /\ me[t].at \notin Enqueuing \cup Taking
      /\ me[t].at \notin Entering \cup {"delete", "deqLin", "log"}
      /\ m.at \notin Enqueuing \cup {"claim", "read", "delete"}
      /\ m.at \notin Entering
      /\ m.at \in Taking /\ m.at \in {"deqLin", "log"}
  BY DEF Enqueuing, Entering, Taking, Seeking
<1>4. me'[t] = m /\ \A u \in Threads : u # t => me'[u] = me[u]
  BY <1>1, Moved
<1>5. \A x : Entered(x)' <=> Entered(x)
  BY <1>1, <1>3, EnteredSame
<1>6. \A k \in 1 .. Len(queue') : k + 1 \in 1 .. Len(queue) /\ 1 < k + 1
  BY <1>2
<1>7. 1 \in 1 .. Len(queue) /\ \A k \in 1 .. Len(queue) : queue[k] = h => k = 1
  BY <1>2 DEF Inv, QueueInv
<1>8. ASSUME NEW x PROVE Waits(x)' <=> Waits(x) /\ x # h
  <2>1. Waits(x)' => Waits(x) /\ x # h
    <3>1. ASSUME NEW k \in 1 .. Len(queue'), queue'[k] = x
          PROVE  Waits(x) /\ x # h
      <4>1. k + 1 \in 1 .. Len(queue) /\ queue[k + 1] = x /\ k + 1 # 1
        BY <1>2, <1>6, <3>1
      <4> QED BY <1>7, <4>1 DEF Waits
    <3> QED BY <3>1 DEF Waits
  <2>2. Waits(x) /\ x # h => Waits(x)'
    <3>1. ASSUME NEW k \in 1 .. Len(queue), queue[k] = x, x # h
          PROVE  Waits(x)'
      <4>1. k # 1
        BY <1>2, <3>1
      <4>2. PICK j : j = k - 1
        OBVIOUS
      <4>3. j \in 1 .. Len(queue') /\ j + 1 = k
        BY <1>2, <4>1, <4>2
      <4>4. queue'[j] = x
        BY <1>2, <3>1, <4>3
      <4> QED BY <4>3, <4>4 DEF Waits
    <3> QED BY <3>1 DEF Waits
  <2> QED BY <2>1, <2>2
<1>9. \A x : Out(x)' <=> Out(x) \/ x = h
  BY <1>2, <1>5, <1>8 DEF Out
<1>10. ~ Out(h) /\ h \in 1 .. issued
  BY <1>2, QueueElements DEF Out
<1>11. h \notin freed \cup {dummy}
  BY <1>2, <1>10 DEF Inv, TakerInv
<1>a. Types'
  <2>1. dummy' \in Nodes
    BY <1>1, <1>2 DEF Nodes, Types
  <2> QED BY <1>1, <1>2, <2>1, StillTyped, TypesKept
<1>b. AllLocal'
  BY <1>1, LocalKept
<1>c. QueueInv'
  <2>1. \A k \in 1 .. Len(queue') : Entered(queue[k])'
    BY <1>2, <1>5, <1>6 DEF Inv, QueueInv
  <2>2. ASSUME NEW j \in 1 .. Len(queue'), NEW k \in 1 .. Len(queue'),
               queue'[j] = queue'[k]
        PROVE  j = k
    <3>1. j + 1 = k + 1
      BY <1>2, <1>6, <2>2 DEF Inv, QueueInv
    <3> QED BY <3>1
  <2> QED BY <2>1, <2>2 DEF QueueInv
<1>d. ElemInv'
  BY <1>5 DEF Inv, ElemInv
<1>e. EnqueuerInv'
  BY <1>3, EnqueuersKept DEF SameTimes
<1>f. TakerInv'
  <2>1. \A u \in Threads : u # t /\ me'[u].at \in Taking =>
          me[u].at \in Taking /\ me'[u].e = me[u].e /\ Out(me[u].e) /\ me[u].e # h
    BY <1>4, <1>10 DEF Inv, TakerInv
  <2>2. me'[t].e = h
    BY <1>4
  <2>3. ASSUME NEW u \in Threads, me'[u].at \in Taking PROVE Out(me[u].e)'
    <3>1. u = t \/ u # t
      OBVIOUS
    <3>2. PICK x : x = me'[u].e
      OBVIOUS
    <3>3. Out(x)'
      BY <1>9, <2>1, <2>2, <2>3, <3>1, <3>2
    <3> QED BY <3>2, <3>3 DEF Out, Entered, Waits
  <2>4. \A u, v \in Threads :
          me'[u].at \in Taking /\ me'[v].at \in Taking /\ me'[u].e = me'[v].e
            => u = v
    BY <2>1, <2>2 DEF Inv, TakerInv
  <2>5. kind # "ms" => \A u \in Threads :
          me'[u].at \in Taking => me'[u].e \notin freed
    BY <1>11, <2>1, <2>2 DEF Inv, TakerInv
  <2>6. \A x \in freed \cup {dummy'} : x = Dummy \/ Out(x)'
    BY <1>9 DEF Inv, TakerInv
  <2> QED BY <2>3, <2>4, <2>5, <2>6 DEF TakerInv
<1>g. DummyInv'
  <2> SUFFICES ASSUME kind = "ms" PROVE DummyInv'
    BY DEF DummyInv
  <2>1. dummy' = h /\ me'[t].old = dummy
    BY <1>4
  <2>2. \A u \in Threads : u # t /\ me'[u].at \in Taking =>
          /\ me[u].at \in Taking /\ me'[u].old = me[u].old
          /\ me[u].old \notin freed \cup {dummy}
          /\ me[u].old = Dummy \/ Out(me[u].old)
    BY <1>4 DEF Inv, DummyInv
  <2>3. dummy \notin freed /\ (dummy = Dummy \/ Out(dummy))
    BY DEF Inv, DummyInv, TakerInv
  <2>4. ASSUME NEW u \in Threads, me'[u].at \in Taking
        PROVE  /\ me'[u].old \notin freed \cup {h}
               /\ me'[u].old = Dummy \/ Out(me'[u].old)
    BY <1>2, <1>10, <2>1, <2>2, <2>3, <2>4
  <2>5. \A u, v \in Threads :
          me'[u].at \in Taking /\ me'[v].at \in Taking /\ me'[u].old = me'[v].old
            => u = v
    BY <2>1, <2>2 DEF Inv, DummyInv
  <2>6. ASSUME NEW u \in Threads, me'[u].at \in Taking
        PROVE  me'[u].old = Dummy \/ Out(me[u].old)'
    <3>1. PICK x : x = me'[u].old
      OBVIOUS
    <3>2. x = Dummy \/ Out(x)'
      BY <1>9, <2>4, <2>6, <3>1
    <3> QED BY <3>1, <3>2 DEF Out, Entered, Waits
  <2> QED BY <1>11, <2>1, <2>4, <2>5, <2>6 DEF DummyInv
<1>h. LiveInv'
  BY <1>3, LiveKept
<1>i. CopyInv'
  <2>1. \A e, x : Copy(e, x) => Copy(e, x)'
    BY DEF Copy
  <2>2. HasCopy(m) => Copy(m.e, m.enq)'
    BY <1>3, <2>1 DEF HasCopy
  <2> QED BY <1>3, <1>5, <1>9, <2>1, <2>2, CopiesKept
<1>j. OrderInv'
  <2>1. ASSUME NEW j \in 1 .. Len(queue'), NEW k \in 1 .. Len(queue'), j < k,
               elem[queue'[k]].own # 0
        PROVE  elem[queue'[j]].inv < elem[queue'[k]].own
    <3>1. /\ j + 1 \in 1 .. Len(queue) /\ k + 1 \in 1 .. Len(queue)
          /\ j + 1 < k + 1
      BY <1>6, <2>1
    <3> QED BY <1>2, <2>1, <3>1 DEF Inv, OrderInv
  <2>2. ASSUME NEW a \in 1 .. issued, NEW b \in 1 .. issued,
               Out(b)', Waits(a)', elem[a].own # 0
        PROVE  elem[b].inv < elem[a].own
    <3>1. Waits(a) /\ a # h
      BY <1>8, <2>2
    <3>2. CASE Out(b)
      BY <2>2, <3>1, <3>2 DEF Inv, OrderInv
    <3>3. CASE b = h
      <4>1. PICK k \in 1 .. Len(queue) : queue[k] = a
        BY <3>1 DEF Waits
      <4>2. 1 < k
        BY <1>2, <3>1, <4>1
      <4> QED BY <1>2, <1>7, <2>2, <3>3, <4>1, <4>2 DEF Inv, OrderInv
    <3> QED BY <1>9, <2>2, <3>2, <3>3
  <2> QED BY <2>1, <2>2 DEF OrderInv
<1> DEFINE new == [e |-> m.e, inv |-> m.deqInv, lin |-> m.deqLin]
<1>t. \A x \in Takes' : x \in Takes \/ x = new
  BY <1>1, <1>3, TakesAfter
<1>n. /\ new.e = h /\ new.inv = me[t].deqInv /\ new.lin = m.deqLin
      /\ clock \in Nat /\ Now = clock + 1 /\ new.inv \in 0 .. clock
  BY <1>1, Mine DEF Now
<1> HIDE DEF new
<1>k. FifoInv'
  <2> SUFFICES ASSUME kind # "rq", NEW x \in Takes', NEW y \in Takes',
                      y.lin # 0, elem[x.e].own # 0, elem[x.e].own < elem[y.e].inv
               PROVE  x.inv < y.lin
    BY DEF FifoInv
  <2>1. \A z \in Takes' : z.inv \in 0 .. clock
    BY <1>t, <1>n, TakeFacts
  <2>2. CASE y = new
    BY <1>n, <2>1, <2>2
  <2>3. CASE y \in Takes /\ x \in Takes
    BY <2>3 DEF Inv, FifoInv
  <2>4. CASE y \in Takes /\ x = new
    <3>1. Out(y.e) /\ y.e \in 1 .. issued
      BY <2>4, TakeFacts
    <3>2. elem[y.e].inv < elem[h].own
      BY <1>2, <1>10, <1>n, <2>4, <3>1 DEF Inv, OrderInv
    <3>3. elem[y.e].inv \in 0 .. clock /\ elem[h].own \in 0 .. clock
      BY <1>10, <3>1, ElementTimes
    <3> QED BY <1>n, <2>4, <3>2, <3>3
  <2> QED BY <1>t, <2>2, <2>3, <2>4
<1>m. CombinerInv'
  <2> SUFFICES ASSUME kind = "fc" PROVE CombinerInv'
    BY DEF CombinerInv
  <2>1. new.lin = Now /\ new.inv < new.lin
    BY <1>n
  <2>2. elem[h].own \in 0 .. clock
    BY <1>10, ElementTimes
  <2>3. \A x \in Takes : elem[x.e].own < elem[h].own /\ x.lin < Now
    <3>1. \A x \in Takes : Out(x.e) /\ x.e \in 1 .. issued /\ x.lin \in 0 .. clock
      BY TakeFacts
    <3> QED BY <1>2, <1>10, <1>n, <3>1 DEF Inv, CombinerInv
  <2>4. ASSUME NEW x \in Takes'
        PROVE  x.inv < x.lin /\ elem[x.e].own < x.lin
    <3>1. CASE x \in Takes
      BY <3>1 DEF Inv, CombinerInv
    <3>2. CASE x = new
      BY <1>n, <2>1, <2>2, <3>2
    <3> QED BY <1>t, <3>1, <3>2
  <2>5. ASSUME NEW x \in Takes', NEW y \in Takes'
        PROVE  elem[x.e].own < elem[y.e].own <=> x.lin < y.lin
    <3>1. CASE x \in Takes /\ y \in Takes
      BY <3>1 DEF Inv, CombinerInv
    <3>2. CASE x \in Takes /\ y = new
      BY <1>n, <2>1, <2>3, <3>2
    <3>3. CASE x = new /\ y \in Takes
      <4>1. /\ y.e \in 1 .. issued /\ y.lin \in 0 .. clock
            /\ elem[y.e].own \in 0 .. clock
        BY <3>3, TakeFacts, ElementTimes
      <4>2. elem[y.e].own < elem[h].own /\ y.lin < Now
        BY <2>3, <3>3
      <4>3. x.e = h /\ x.lin = Now /\ Now \in Nat
        BY <1>n, <2>1, <3>3 DEF Now
      <4>4. ASSUME NEW a \in 0 .. clock, NEW b \in 0 .. clock, a < b
            PROVE  ~ b < a
        BY <4>4
      <4>5. ~ elem[h].own < elem[y.e].own
        BY ONLY <2>2, <4>1, <4>2, <4>4
      <4>6. ~ Now < y.lin
        <5>1. ASSUME NEW a \in Nat, NEW b \in Nat, a < b PROVE ~ b < a
          BY <5>1
        <5>2. y.lin \in Nat
          BY <4>1
        <5> QED BY ONLY <4>2, <4>3, <5>1, <5>2
      <4> QED BY <4>3, <4>5, <4>6
    <3>4. CASE x = new /\ y = new
      BY <1>n, <2>1, <2>2, <3>4
    <3> QED BY <1>t, <3>1, <3>2, <3>3, <3>4
  <2>6. ASSUME NEW j \in 1 .. Len(queue'), NEW k \in 1 .. Len(queue'), j < k
        PROVE  elem[queue'[j]].own < elem[queue'[k]].own
    <3>1. /\ j + 1 \in 1 .. Len(queue) /\ k + 1 \in 1 .. Len(queue)
          /\ j + 1 < k + 1
      BY <1>6, <2>6
    <3> QED BY <1>2, <3>1 DEF Inv, CombinerInv
  <2>7. ASSUME NEW a \in 1 .. issued, NEW b \in 1 .. issued, Out(b)', Waits(a)'
        PROVE  elem[b].own < elem[a].own
    <3>1. Waits(a) /\ a # h
      BY <1>8, <2>7
    <3>2. CASE Out(b)
      BY <3>1, <3>2 DEF Inv, CombinerInv
    <3>3. CASE b = h
      <4>1. PICK k \in 1 .. Len(queue) : queue[k] = a
        BY <3>1 DEF Waits
      <4>2. 1 < k
        BY <1>2, <3>1, <4>1
      <4> QED BY <1>2, <1>7, <3>3, <4>1, <4>2 DEF Inv, CombinerInv
    <3> QED BY <1>9, <2>7, <3>2, <3>3
  <2>8. ASSUME NEW u \in Threads, me'[u].at = "log" PROVE Exact(me'[u].enq)
    <3>1. CASE u = t
      <4>1. m.enq = elem[h]
        OBVIOUS
      <4>2. Exact(elem[h])
        BY <1>2, <1>10 DEF Inv, ElemInv
      <4> QED BY <1>4, <3>1, <4>1, <4>2
    <3>2. CASE u # t
      BY <1>4, <2>8, <3>2 DEF Inv, CombinerInv
    <3> QED BY <3>1, <3>2
  <2>9. \A r \in logged' : Genuine(r)
    BY DEF Inv, CombinerInv
  <2> QED BY <2>4, <2>5, <2>6, <2>7, <2>8, <2>9 DEF CombinerInv
<1>o. OwnInv'
  BY <1>3, OwnKept
<1> QED
  BY <1>a, <1>b, <1>c, <1>d, <1>e, <1>f, <1>g, <1>h, <1>i, <1>j, <1>k, <1>m, <1>o
     DEF Inv

LEMMA ClaimWon ==
  ASSUME Inv, NEW t \in Threads, Claim(t), First = me[t].e
  PROVE  Inv'
<1> DEFINE m == [me[t] EXCEPT !.at = "deqLin", !.old = dummy]
<1>1. /\ me[t].at = "claim" /\ Moves(t, m) /\ clock' = clock
      /\ queue' = Tail(queue) /\ dummy' = me[t].e
      /\ UNCHANGED <<kind, elem, addr, freed, issued, logged>>
  BY DEF Claim, Become, Moves
<1>2. Local(me[t]) /\ Types
  BY DEF Inv, AllLocal
<1>3. me[t].e \in Items /\ kind = "ms" /\ me[t].deqInv # 0 /\ me[t].deqLin = 0
  BY <1>1, <1>2 DEF Local, Seeking
<1>4. queue # <<>>
  BY <1>3 DEF First, Dummy, Items
<1>5. Head(queue) = me[t].e /\ Waits(me[t].e) /\ Entered(me[t].e)
  BY <1>4, FirstFacts
<1>6. /\ m \in Locals(clock) /\ m.at = "deqLin" /\ m.e = me[t].e
      /\ m.old = dummy /\ m.enq = me[t].enq /\ m.live = me[t].live
      /\ m.deqInv = me[t].deqInv /\ m.deqLin = me[t].deqLin
  <2>1. dummy \in Nodes
    BY <1>2 DEF Types
  <2> QED BY <1>2, <2>1, Mine DEF Locals, Places, Taking
<1> HIDE DEF m
<1>7. Local(m)
  BY <1>3, <1>6 DEF Local, Enqueuing, Entering, Taking, Seeking
<1>8. m.live
  <2>1. me[t].e # Dummy /\ ~ Out(me[t].e)
    BY <1>3, <1>5 DEF Out, Dummy, Items
  <2>2. me[t].e \notin freed
    BY <2>1 DEF Inv, TakerInv
  <2> QED BY <1>1, <1>6, <2>2 DEF Inv, LiveInv
<1>9. Copy(me[t].e, m.enq)
  BY <1>1, <1>6 DEF Inv, CopyInv
<1>10. me[t].at \in Seeking /\ m \in Locals(clock') /\ clock' \in {clock, Now}
  BY <1>1, <1>6 DEF Seeking
<1>11. /\ m.at = "deqLin" /\ kind # "fc" /\ m.deqLin = 0 /\ kind = "ms"
       /\ m.deqInv = me[t].deqInv /\ m.e = me[t].e /\ m.old = dummy
  BY <1>3, <1>6
<1> QED BY <1>1, <1>4, <1>5, <1>7, <1>8, <1>9, <1>10, <1>11, TakeFirst

LEMMA TakeStep == ASSUME Inv, NEW t \in Threads, Take(t) PROVE Inv'
<1> DEFINE m == [me[t] EXCEPT !.at = "deqLin", !.e = Head(queue)]
<1>1. /\ me[t].at = "take" /\ queue # <<>> /\ Moves(t, m) /\ clock' = clock
      /\ queue' = Tail(queue)
      /\ UNCHANGED <<kind, dummy, elem, addr, freed, issued, logged>>
  BY DEF Take, Become, Moves
<1>2. Local(me[t]) /\ Types
  BY DEF Inv, AllLocal
<1>3. /\ kind \in {"faa", "rq"} /\ me[t].deqLin = 0
      /\ kind # "rq" => me[t].deqInv # 0
  BY <1>1, <1>2 DEF Local, Seeking
<1>4. Head(queue) \in Items
  BY <1>1, FirstFacts
<1>5. /\ m \in Locals(clock) /\ m.at = "deqLin" /\ m.e = Head(queue)
      /\ m.deqInv = me[t].deqInv /\ m.deqLin = me[t].deqLin
  BY <1>2, <1>4, Mine DEF Locals, Places, Taking, Nodes
<1> HIDE DEF m
<1>6. Local(m)
  BY <1>3, <1>4, <1>5 DEF Local, Enqueuing, Entering, Taking, Seeking
<1>7. me[t].at \in Seeking /\ m \in Locals(clock') /\ clock' \in {clock, Now}
  BY <1>1, <1>5 DEF Seeking
<1>8. /\ m.at = "deqLin" /\ kind # "fc" /\ m.deqLin = 0 /\ kind # "ms"
      /\ m.deqInv = me[t].deqInv /\ m.e = Head(queue)
  BY <1>3, <1>5
<1> QED BY <1>1, <1>3, <1>6, <1>7, <1>8, TakeFirst

LEMMA ServeDequeueStep == ASSUME Inv, NEW t \in Threads, ServeDequeue(t) PROVE Inv'
<1>h. PICK h : h = Head(queue)
  OBVIOUS
<1> DEFINE m == [me[t] EXCEPT !.e = h, !.enq = elem[h], !.live = h \notin freed,
                              !.at = "log", !.deqLin = Now]
<1>1. /\ me[t].at = "deqSlot" /\ queue # <<>> /\ clock' = Now
      /\ queue' = Tail(queue)
      /\ UNCHANGED <<kind, dummy, elem, addr, freed, issued, logged>>
      /\ me' = [me EXCEPT ![t] =
           [Copied([me[t] EXCEPT !.e = h]) EXCEPT !.at = "log", !.deqLin = Now]]
  BY <1>h DEF ServeDequeue, Become, Tick
<1>2. Local(me[t]) /\ Types
  BY DEF Inv, AllLocal
<1>3. kind = "fc" /\ me[t].deqInv # 0
  BY <1>1, <1>2 DEF Local, Seeking
<1>4. h \in Items /\ Waits(h) /\ Entered(h) /\ h # Dummy
  BY <1>h, <1>1, FirstFacts
<1>5. Moves(t, m)
  <2> DEFINE k == [me[t] EXCEPT !.e = h]
  <2>1. k.e = h
    BY <1>2, Mine DEF Locals
  <2>2. Copied(k) = [k EXCEPT !.enq = elem[h], !.live = h \notin freed]
    BY <2>1 DEF Copied
  <2>3. [Copied(k) EXCEPT !.at = "log", !.deqLin = Now] = m
    BY <2>2
  <2> QED BY <1>1, <2>3 DEF Moves
<1>6. /\ clock \in Nat /\ Now \in 0 .. clock' /\ Now # 0
      /\ me[t] \in Locals(clock') /\ elem[h] \in Stamps(clock')
  BY <1>1, <1>2, <1>4, StillTyped DEF Now
<1>7. /\ m \in Locals(clock') /\ m.at = "log" /\ m.e = h /\ m.enq = elem[h]
      /\ m.live = (h \notin freed)
      /\ m.deqInv = me[t].deqInv /\ m.deqLin = Now
  BY <1>4, <1>6 DEF Locals, Places, Taking, Nodes
<1> HIDE DEF m
<1>8. Local(m)
  BY <1>3, <1>4, <1>6, <1>7 DEF Local, Enqueuing, Entering, Taking, Seeking
<1>9. m.live
  <2>1. ~ Out(h)
    BY <1>4 DEF Out
  <2> QED BY <1>4, <1>7, <2>1 DEF Inv, TakerInv
<1>10. Copy(h, m.enq)
  BY <1>7 DEF Copy
<1>11. me[t].at \in Seeking /\ clock' \in {clock, Now}
  BY <1>1 DEF Seeking
<1>12. /\ m.at = "log" /\ kind = "fc" /\ m.deqLin = Now /\ kind # "ms"
       /\ m.deqInv = me[t].deqInv /\ m.e = h /\ m.enq = elem[h]
  BY <1>3, <1>7
<1> QED BY <1>h, <1>1, <1>5, <1>7, <1>8, <1>9, <1>10, <1>11, <1>12, TakeFirst

----------------------------------------------------------------------------
(* The record is logged, and the element deleted.                          *)

LEMMA LogStep == ASSUME Inv, NEW t \in Threads, Log(t) PROVE Inv'
<1> DEFINE c == IF kind \in {"faa", "rq"} THEN elem[me[t].e] ELSE me[t].enq
           v == IF kind \in {"faa", "rq"} THEN me[t].e \notin freed ELSE me[t].live
           m == IF kind = "fc" THEN Left(t) ELSE [me[t] EXCEPT !.at = "delete"]
           r == [e |-> me[t].e, enqInv |-> c.inv, enqLin |-> c.lin,
                 deqInv |-> me[t].deqInv, deqLin |-> me[t].deqLin,
                 from |-> c.from, by |-> t, own |-> c.own, live |-> v]
<1>1. Local(me[t]) /\ Types /\ AllLocal
  BY DEF Inv, AllLocal
<1>2. /\ me[t].at = "log" /\ Moves(t, m) /\ clock' = clock
      /\ logged' = logged \cup {r}
      /\ UNCHANGED <<kind, queue, dummy, elem, addr, freed, issued>>
  <2> DEFINE q == IF kind \in {"faa", "rq"} THEN Copied(me[t]) ELSE me[t]
  <2>1. Copied(me[t]) = [me[t] EXCEPT !.enq = elem[me[t].e],
                                      !.live = me[t].e \notin freed]
    BY DEF Copied
  <2>2. /\ q.e = me[t].e /\ q.enq = c /\ q.live = v
        /\ q.deqInv = me[t].deqInv /\ q.deqLin = me[t].deqLin
    <3>1. me[t] \in Locals(clock)
      BY <1>1, Mine
    <3> QED BY <2>1, <3>1 DEF Locals
  <2>3. /\ me[t].at = "log" /\ clock' = clock
        /\ UNCHANGED <<kind, queue, dummy, elem, addr, freed, issued>>
        /\ logged' = logged \cup
            {[e |-> q.e, enqInv |-> q.enq.inv, enqLin |-> q.enq.lin,
              deqInv |-> q.deqInv, deqLin |-> q.deqLin, from |-> q.enq.from,
              by |-> t, own |-> q.enq.own, live |-> q.live]}
    BY DEF Log
  <2>4. Moves(t, m)
    BY DEF Log, Return, Become, Moves, Left
  <2> HIDE DEF q, c, v
  <2> QED BY <2>2, <2>3, <2>4
<1>3. /\ me[t].e \in Items /\ me[t].deqInv # 0 /\ me[t].deqLin # 0
      /\ me[t].deqInv \in 0 .. clock /\ me[t].deqLin \in 0 .. clock
      /\ clock \in Nat
  BY <1>1, <1>2, Mine DEF Local, Taking
<1>4. Out(me[t].e) /\ (kind # "ms" => me[t].e \notin freed)
  BY <1>2 DEF Inv, TakerInv, Taking
<1>5. c \in Stamps(clock) /\ Copy(me[t].e, c) /\ v \in BOOLEAN /\ v = TRUE
  <2>1. CASE kind \in {"faa", "rq"}
    BY <1>1, <1>3, <1>4, <2>1 DEF Types, Copy
  <2>2. CASE kind \in {"ms", "fc"}
    <3>1. Copy(me[t].e, me[t].enq) /\ me[t].live
      BY <1>2, <2>2 DEF Inv, CopyInv, LiveInv
    <3>2. me[t].enq \in Stamps(clock) /\ me[t].live \in BOOLEAN
      BY <1>1, Mine
    <3> QED BY <2>2, <3>1, <3>2
  <2> QED BY <1>1, <2>1, <2>2, KindFact
<1>6. kind = "fc" => c = me[t].enq
  OBVIOUS
<1> HIDE DEF c, v
<1>7. /\ r.e = me[t].e /\ r.deqInv = me[t].deqInv /\ r.deqLin = me[t].deqLin
      /\ r.by = t /\ r.live /\ r.own = c.own /\ r.enqInv = c.inv
      /\ r.enqLin = c.lin /\ r.from = c.from
  BY <1>5
<1>8. r \in Records(clock)
  BY <1>3, <1>5 DEF Records, Stamps
<1> HIDE DEF r
<1>9. /\ m \in Locals(clock)
      /\ \/ kind = "fc" /\ m.at = "idle" /\ m.deqInv = 0 /\ m.deqLin = 0
         \/ /\ kind # "fc" /\ m.at = "delete" /\ m.e = me[t].e
            /\ m.old = me[t].old /\ m.deqLin = me[t].deqLin
  <2>1. CASE kind = "fc"
    BY <1>1, <2>1, LeftFacts
  <2>2. CASE kind # "fc"
    BY <1>1, <2>2, Mine DEF Locals, Places, Taking
  <2> QED BY <2>1, <2>2
<1>10. Local(m)
  <2>1. CASE kind = "fc"
    BY <1>1, <2>1, LeftFacts
  <2>2. CASE kind # "fc"
    <3> HIDE DEF m
    <3> QED BY <1>3, <1>9, <2>2 DEF Local, Enqueuing, Entering, Taking, Seeking
  <2> QED BY <2>1, <2>2
<1> HIDE DEF m
<1>11. /\ me[t].at \notin Entering /\ me[t].at # "delete" /\ me[t].at \in Taking
       /\ m.at \notin Enqueuing \cup {"claim", "read", "deqLin", "log"}
       /\ m.at \notin Entering /\ ~ HasCopy(m)
  BY <1>2, <1>9 DEF Entering, Enqueuing, Taking, HasCopy
<1>12. m.at \in Taking => m.e = me[t].e /\ m.old = me[t].old
  BY <1>9 DEF Taking
<1>13. me'[t] = m /\ \A u \in Threads : u # t => me'[u] = me[u]
  BY <1>1, <1>2, Moved
<1>14. \A x : /\ Entered(x)' <=> Entered(x)
              /\ Waits(x)' <=> Waits(x)
              /\ Out(x)' <=> Out(x)
  BY <1>1, <1>2, <1>11, OutSame
<1>15. \A x \in Takes' : x \in Takes
  <2>1. ASSUME NEW p \in logged', NEW x,
               x = [e |-> p.e, inv |-> p.deqInv, lin |-> p.deqLin]
        PROVE  x \in Takes
    <3>1. CASE p = r
      BY <1>2, <1>7, <2>1, <3>1 DEF Takes
    <3>2. CASE p \in logged
      BY <2>1, <3>2 DEF Takes
    <3> QED BY <1>2, <2>1, <3>1, <3>2
  <2>2. ASSUME NEW u \in Threads, me'[u].at \in {"deqLin", "log"}, NEW x,
               x = [e |-> me'[u].e, inv |-> me'[u].deqInv, lin |-> me'[u].deqLin]
        PROVE  x \in Takes
    <3>1. u # t /\ me'[u] = me[u]
      BY <1>11, <1>13, <2>2
    <3> QED BY <2>2, <3>1 DEF Takes
  <2> QED BY <2>1, <2>2 DEF Takes
<1>a. Types'
  <2>1. m \in Locals(clock') /\ clock' \in {clock, Now}
        /\ logged' \subseteq Records(clock')
    BY <1>1, <1>2, <1>8, <1>9 DEF Types
  <2> QED BY <1>1, <1>2, <2>1, StillTyped, TypesKept
<1>b. AllLocal'
  BY <1>1, <1>2, <1>10, LocalKept
<1>c. QueueInv' /\ ElemInv' /\ OrderInv'
  BY <1>2, <1>14, ElementsKept DEF SameTimes
<1>d. EnqueuerInv'
  BY <1>2, <1>11, EnqueuersKept DEF SameTimes
<1>e. TakerInv' /\ DummyInv'
  BY <1>2, <1>11, <1>12, <1>14, TakersKept
<1>f. LiveInv'
  BY <1>2, <1>7, <1>11, <1>13 DEF Inv, LiveInv, LoggedTimesAreLive
<1>g. CopyInv'
  <2>1. \A e, x : Copy(e, x)' <=> Copy(e, x)
    BY <1>2 DEF Copy
  <2>2. ASSUME NEW p \in logged'
        PROVE  /\ Out(p.e)'
               /\ Copy(p.e, [inv |-> p.enqInv, lin |-> p.enqLin,
                             own |-> p.own, from |-> p.from])'
    <3>1. CASE p = r
      <4>1. Copy(p.e, [inv |-> p.enqInv, lin |-> p.enqLin,
                       own |-> p.own, from |-> p.from])
        BY <1>5, <1>7, <3>1 DEF Copy
      <4> QED BY <1>4, <1>7, <1>14, <2>1, <3>1, <4>1
    <3>2. CASE p \in logged
      <4>1. /\ Out(p.e)
            /\ Copy(p.e, [inv |-> p.enqInv, lin |-> p.enqLin,
                          own |-> p.own, from |-> p.from])
        BY <3>2 DEF Inv, CopyInv
      <4> QED BY <1>14, <2>1, <4>1
    <3> QED BY <1>2, <2>2, <3>1, <3>2
  <2>3. ASSUME NEW u \in Threads
        PROVE  /\ me'[u].at \in {"read", "claim"} => Entered(me[u].e)'
               /\ HasCopy(me[u])' => Copy(me[u].e, me[u].enq)'
    <3>1. CASE u = t
      BY <1>2, <1>11, <1>13, <3>1 DEF HasCopy
    <3>2. CASE u # t
      <4>1. PICK p : p = me[u] /\ p = me'[u]
        BY <1>13, <3>2
      <4>2. /\ p.at \in {"read", "claim"} => Entered(p.e)
            /\ HasCopy(p) => Copy(p.e, p.enq)
        BY <4>1 DEF Inv, CopyInv, HasCopy
      <4>3. /\ p.at \in {"read", "claim"} => Entered(p.e)'
            /\ HasCopy(p) => Copy(p.e, p.enq)'
        BY <1>14, <2>1, <4>2
      <4>4. p.at \in {"read", "claim"} => Entered(me[u].e)'
        BY <4>1, <4>3 DEF Entered
      <4>5. HasCopy(me[u])' => Copy(me[u].e, me[u].enq)'
        BY <1>2, <4>1, <4>3 DEF Copy, HasCopy
      <4> QED BY <4>1, <4>4, <4>5
    <3> QED BY <3>1, <3>2
  <2> QED BY <2>2, <2>3 DEF CopyInv, HasCopy
<1>h. FifoInv'
  BY <1>2, <1>15 DEF Inv, FifoInv
<1>i. CombinerInv'
  <2> SUFFICES ASSUME kind = "fc" PROVE CombinerInv'
    BY <1>2 DEF CombinerInv
  <2>1. \A p \in logged' : Genuine(p)
    BY <1>2, <1>6, <1>7 DEF Inv, CombinerInv, Exact, Genuine
  <2>2. \A u \in Threads : me'[u].at = "log" => Exact(me'[u].enq)
    BY <1>11, <1>13 DEF Inv, CombinerInv
  <2>3. \A a, b \in 1 .. issued' : Out(b)' /\ Waits(a)' => elem'[b].own < elem'[a].own
    BY <1>2, <1>14 DEF Inv, CombinerInv
  <2>4. \A x \in Takes' : x.inv < x.lin /\ elem'[x.e].own < x.lin
    BY <1>2, <1>15 DEF Inv, CombinerInv
  <2>5. \A x, y \in Takes' : elem'[x.e].own < elem'[y.e].own <=> x.lin < y.lin
    BY <1>2, <1>15 DEF Inv, CombinerInv
  <2>6. \A j, k \in 1 .. Len(queue') : j < k =>
          elem'[queue'[j]].own < elem'[queue'[k]].own
    BY <1>2 DEF Inv, CombinerInv
  <2> QED BY <2>1, <2>2, <2>3, <2>4, <2>5, <2>6 DEF CombinerInv
<1>j. OwnInv'
  <2>1. \A p \in logged : p.by = t =>
          p.deqInv < r.deqInv /\ p.deqLin < r.deqLin
    BY <1>2, <1>3, <1>7 DEF Inv, OwnInv
  <2>2. \A p \in logged : /\ p.deqInv \in 1 .. clock /\ p.deqLin \in 1 .. clock
                          /\ p.by \in Threads
    BY <1>1 DEF Types, Records
  <2>3. ASSUME NEW p \in logged', NEW q, q = me'[p.by], q.at # "delete"
        PROVE  /\ q.deqInv # 0 => p.deqInv < q.deqInv /\ p.deqLin < q.deqInv
               /\ q.deqLin # 0 => p.deqInv < q.deqLin /\ p.deqLin < q.deqLin
    <3>1. CASE p.by = t
      BY <1>9, <1>13, <2>3, <3>1
    <3>2. CASE p.by # t
      BY <1>2, <1>7, <1>13, <2>2, <2>3, <3>2 DEF Inv, OwnInv
    <3> QED BY <3>1, <3>2
  <2>4. ASSUME NEW a \in logged', NEW b \in logged',
               a.by = b.by, a.deqInv < b.deqInv
        PROVE  a.deqLin < b.deqLin
    <3>1. CASE a \in logged /\ b \in logged
      BY <2>4, <3>1 DEF Inv, OwnInv
    <3>2. CASE a \in logged /\ b = r
      BY <1>7, <2>1, <2>4, <3>2
    <3>3. CASE a = r
      BY <1>2, <1>3, <1>7, <2>1, <2>2, <2>4, <3>3
    <3> QED BY <1>2, <2>4, <3>1, <3>2, <3>3
  <2> QED BY <2>3, <2>4 DEF OwnInv
<1> QED
  BY <1>a, <1>b, <1>c, <1>d, <1>e, <1>f, <1>g, <1>h, <1>i, <1>j DEF Inv

LEMMA DeleteStep == ASSUME Inv, NEW t \in Threads, Delete(t) PROVE Inv'
<1>d. PICK d : d = IF kind = "ms" THEN me[t].old ELSE me[t].e
  OBVIOUS
<1> DEFINE m == Left(t)
<1>1. /\ me[t].at = "delete" /\ Moves(t, m) /\ clock' = clock
      /\ freed' = freed \cup {d}
      /\ UNCHANGED <<kind, queue, dummy, elem, addr, issued, logged>>
  BY <1>d DEF Delete, Return, Become, Moves, Left
<1>2. /\ m \in Locals(clock) /\ Local(m)
      /\ m.at = "idle" /\ m.deqInv = 0 /\ m.deqLin = 0
  BY LeftFacts DEF Inv
<1> HIDE DEF m
<1>3. Local(me[t]) /\ Types /\ AllLocal
  BY DEF Inv, AllLocal
<1>4. /\ me[t].at \notin Entering /\ me[t].at \in Taking
      /\ m.at \notin Enqueuing /\ m.at \notin Entering
      /\ m.at \notin Taking \cup {"claim", "read", "deqLin", "log", "delete"}
      /\ ~ HasCopy(m)
  BY <1>1, <1>2 DEF Entering, Enqueuing, Taking, HasCopy
<1>5. me'[t] = m /\ \A u \in Threads : u # t => me'[u] = me[u]
  BY <1>1, <1>3, Moved
<1>6. \A x : /\ Entered(x)' <=> Entered(x)
             /\ Waits(x)' <=> Waits(x)
             /\ Out(x)' <=> Out(x)
  BY <1>1, <1>3, <1>4, OutSame
<1>7. \A u \in Threads : me'[u].at \in Taking =>
        /\ u # t /\ me[u].at \in Taking
        /\ me'[u].e = me[u].e /\ me'[u].old = me[u].old
  BY <1>4, <1>5
<1>8. d = Dummy \/ Out(d)
  BY <1>4, <1>d DEF Inv, TakerInv, DummyInv
<1>a. Types'
  <2>1. m \in Locals(clock') /\ clock' \in {clock, Now} /\ freed' \subseteq Nodes
    BY <1>1, <1>2, <1>3, <1>d, Mine DEF Types
  <2> QED BY <1>1, <1>3, <2>1, StillTyped, TypesKept
<1>b. AllLocal'
  BY <1>1, <1>2, <1>3, LocalKept
<1>c. QueueInv' /\ ElemInv' /\ OrderInv'
  BY <1>1, <1>6, ElementsKept DEF SameTimes
<1>e. EnqueuerInv'
  BY <1>1, <1>4, EnqueuersKept DEF SameTimes
<1>f. TakerInv'
  <2>1. ASSUME NEW u \in Threads, me'[u].at \in Taking PROVE Out(me[u].e)'
    <3>1. PICK x : x = me[u].e /\ x = me'[u].e
      BY <1>7, <2>1
    <3>2. Out(x)'
      BY <1>6, <1>7, <2>1, <3>1 DEF Inv, TakerInv
    <3> QED BY <3>1, <3>2 DEF Out, Entered, Waits
  <2>2. kind # "ms" => \A u \in Threads :
          me'[u].at \in Taking => me'[u].e \notin freed'
    BY <1>1, <1>4, <1>7, <1>d DEF Inv, TakerInv
  <2>3. \A x \in freed' \cup {dummy'} : x = Dummy \/ Out(x)'
    BY <1>1, <1>6, <1>8 DEF Inv, TakerInv
  <2>4. \A u, v \in Threads :
          me'[u].at \in Taking /\ me'[v].at \in Taking /\ me'[u].e = me'[v].e
            => u = v
    BY <1>7 DEF Inv, TakerInv
  <2> QED BY <1>1, <2>1, <2>2, <2>3, <2>4 DEF TakerInv
<1>g. DummyInv'
  <2> SUFFICES ASSUME kind = "ms" PROVE DummyInv'
    BY <1>1 DEF DummyInv
  <2>1. d = me[t].old
    BY <1>d
  <2>2. dummy \notin freed'
    BY <1>1, <1>4, <2>1 DEF Inv, DummyInv
  <2>3. ASSUME NEW u \in Threads, me'[u].at \in Taking
        PROVE  /\ me'[u].old \notin freed' \cup {dummy}
               /\ me'[u].old = Dummy \/ Out(me[u].old)'
    <3>1. PICK x : x = me[u].old /\ x = me'[u].old
      BY <1>7, <2>3
    <3>2. x \notin freed \cup {dummy} /\ x # d /\ (x = Dummy \/ Out(x))
      BY <1>4, <1>7, <2>1, <2>3, <3>1 DEF Inv, DummyInv
    <3>3. x = Dummy \/ Out(x)'
      BY <1>6, <3>2
    <3>4. x = Dummy \/ Out(me[u].old)'
      BY <3>1, <3>3 DEF Out, Entered, Waits
    <3> QED BY <1>1, <3>1, <3>2, <3>4
  <2>4. \A u, v \in Threads :
          me'[u].at \in Taking /\ me'[v].at \in Taking /\ me'[u].old = me'[v].old
            => u = v
    BY <1>7 DEF Inv, DummyInv
  <2> QED BY <1>1, <2>2, <2>3, <2>4 DEF DummyInv
<1>h. LiveInv'
  BY <1>1, <1>4, <1>5 DEF Inv, LiveInv, LoggedTimesAreLive
<1>i. CopyInv'
  <2>1. \A e, x : Copy(e, x) => Copy(e, x)'
    BY <1>1 DEF Copy
  <2> QED BY <1>1, <1>4, <1>6, <2>1, CopiesKept
<1>j. FifoInv'
  <2>1. \A x : MayBeStamped(x)
    BY <1>1 DEF MayBeStamped
  <2> QED BY <1>1, <1>4, <2>1, FifoKept
<1>k. CombinerInv'
  BY <1>1, <1>4, <1>6, CombinerKept
<1>m. OwnInv'
  BY <1>1, <1>2, OwnKept
<1> QED
  BY <1>a, <1>b, <1>c, <1>e, <1>f, <1>g, <1>h, <1>i, <1>j, <1>k, <1>m DEF Inv

----------------------------------------------------------------------------
LEMMA InitInv == Init => Inv
<1> SUFFICES ASSUME Init PROVE Inv
  OBVIOUS
<1>1. /\ kind \in Kinds /\ clock = 0 /\ queue = <<>> /\ dummy = Dummy
      /\ elem = [e \in Items |-> NoTimes] /\ freed = {}
      /\ addr = [e \in Items |-> 0]
      /\ me = [t \in Threads |-> Fresh] /\ issued = 0 /\ logged = {}
  BY DEF Init
<1>2. NoTimes \in Stamps(0) /\ NoTimes.own = 0
  BY DEF NoTimes, Stamps
<1>3. Fresh \in Locals(0)
  BY <1>2 DEF Fresh, Locals, Places, Nodes
<1>4. /\ \A t \in Threads : me[t] = Fresh /\ me[t].at = "idle" /\ me[t].deqLin = 0
      /\ "idle" \notin Enqueuing \cup Taking \cup Seeking
      /\ "idle" \notin Entering
  BY <1>1 DEF Fresh, Enqueuing, Entering, Taking, Seeking
<1>5. MaxItems \in Nat
  BY TimestampsAssumption DEF TimestampsAssumption
<1>6. \A e : ~ Entered(e) /\ ~ Out(e) /\ ~ Waits(e)
  BY <1>1 DEF Entered, Out, Waits
<1>7. Takes = {}
  BY <1>1, <1>4 DEF Takes
<1>8. Len(queue) = 0
  BY <1>1
<1>a. Types
  <2>1. 0 \in 0 .. MaxItems /\ queue \in Seq(Items)
    BY <1>1, <1>5
  <2> QED BY <1>1, <1>2, <1>3, <2>1 DEF Types, Nodes
<1>b. AllLocal
  <2> SUFFICES ASSUME NEW t \in Threads PROVE Local(me[t])
    BY DEF AllLocal
  <2>1. me[t].at = "idle" /\ me[t].deqLin = 0
    BY <1>4
  <2> QED BY <2>1 DEF Local, Enqueuing, Entering, Taking, Seeking
<1>c. QueueInv
  BY <1>8 DEF QueueInv
<1>d. ElemInv
  BY <1>1, <1>2, <1>6 DEF ElemInv
<1>e. EnqueuerInv
  BY <1>4 DEF EnqueuerInv
<1>f. TakerInv /\ DummyInv
  BY <1>1, <1>4 DEF TakerInv, DummyInv
<1>g. LiveInv
  BY <1>1, <1>4 DEF LiveInv, LoggedTimesAreLive, Taking
<1>h. CopyInv
  BY <1>1, <1>4 DEF CopyInv, Taking, Seeking
<1>i. OrderInv
  BY <1>6, <1>8 DEF OrderInv
<1>j. FifoInv
  BY <1>7 DEF FifoInv
<1>k. CombinerInv
  BY <1>1, <1>4, <1>6, <1>7, <1>8 DEF CombinerInv
<1>m. OwnInv
  BY <1>1 DEF OwnInv
<1> QED
  BY <1>a, <1>b, <1>c, <1>d, <1>e, <1>f, <1>g, <1>h, <1>i, <1>j, <1>k, <1>m
     DEF Inv

LEMMA StutterInv == Inv /\ UNCHANGED vars => Inv'
<1> SUFFICES ASSUME Inv, UNCHANGED vars PROVE Inv'
  OBVIOUS
<1>1. UNCHANGED <<kind, clock, queue, dummy, elem, addr, freed, me, issued, logged>>
  BY DEF vars
<1>2. Types' /\ AllLocal'
  BY <1>1 DEF Inv, Types, AllLocal, Local
<1>3. \A e : /\ Entered(e)' <=> Entered(e)
             /\ Waits(e)' <=> Waits(e)
             /\ Out(e)' <=> Out(e)
  BY <1>1 DEF Entered, Waits, Out
<1>4. QueueInv' /\ ElemInv' /\ OrderInv'
  BY <1>1, <1>3, ElementsKept DEF SameTimes
<1>5. EnqueuerInv' /\ OwnInv' /\ LiveInv'
  BY <1>1 DEF Inv, EnqueuerInv, OwnInv, LiveInv, LoggedTimesAreLive
<1>6. TakerInv' /\ DummyInv'
  BY <1>1 DEF Inv, TakerInv, DummyInv, Out, Entered, Waits
<1>7. CopyInv'
  BY <1>1 DEF Inv, CopyInv, Copy, Out, Entered, Waits
<1>8. Takes' = Takes
  BY <1>1 DEF Takes
<1>9. FifoInv' /\ CombinerInv'
  BY <1>1, <1>8 DEF Inv, FifoInv, CombinerInv, Out, Entered, Waits
<1> QED BY <1>2, <1>4, <1>5, <1>6, <1>7, <1>9 DEF Inv

LEMMA NextInv == Inv /\ [Next]_vars => Inv'
<1> SUFFICES ASSUME Inv, [Next]_vars PROVE Inv'
  OBVIOUS
<1>1. CASE UNCHANGED vars
  BY <1>1, StutterInv
<1>2. ASSUME NEW t \in Threads, Claim(t) PROVE Inv'
  BY <1>2, ClaimWon, ClaimLost
<1>3. CASE Next
  BY <1>2, <1>3, CallEnqueueStep, InsertStep, StampStep, StoreStep,
     ServeEnqueueStep, CallDequeueStep, MissStep, FindStep, ReadStep,
     TakeStep, DeqLinStep, DeqInvStep, ServeDequeueStep, LogStep, DeleteStep DEF Next
<1> QED BY <1>1, <1>3

(* Elements are taken once and in order, a copy of an element tells when it*)
(* was called for and what time was taken for it, and no enqueuer takes its*)
(* time before the call of one that comes before it in the queue.          *)
THEOREM InvAlways == Spec => []Inv
<1> QED BY InitInv, NextInv, PTL DEF Spec

(* Every variable keeps its type, and a record has both of its dequeue     *)
(* times when it is logged.                                                *)
THEOREM TypeCorrect == Spec => []TypeOK
<1>1. ASSUME Inv PROVE TypeOK
  <2>1. Types /\ AllLocal
    BY <1>1 DEF Inv
  <2>2. ASSUME NEW t \in Threads
        PROVE  /\ {me[t].e, me[t].old, dummy} \subseteq Items \cup {Dummy}
               /\ me[t].enq \in Stamps(clock)
               /\ {me[t].deqInv, me[t].deqLin} \subseteq 0 .. clock
               /\ me[t].at = "log" => 0 \notin {me[t].deqInv, me[t].deqLin}
    <3>1. dummy \in Items \cup {Dummy} /\ Local(me[t])
      BY <2>1 DEF Types, Nodes, AllLocal
    <3>2. me[t].at = "log" => me[t].deqInv # 0 /\ me[t].deqLin # 0
      BY <3>1 DEF Local
    <3> QED BY <2>1, <3>1, <3>2, Mine DEF Nodes
  <2> QED BY <2>1, <2>2 DEF TypeOK, Types, Stamps, Nodes
<1> QED BY <1>1, InvAlways, PTL

(* What a record says, in terms of the invariant. *)
LEMMA RecordFacts ==
  ASSUME Inv, NEW r \in logged
  PROVE  /\ r.e \in 1 .. issued /\ Out(r.e) /\ Entered(r.e)
         /\ r.enqInv = elem[r.e].inv /\ r.from = elem[r.e].from
         /\ Genuine(r) => elem[r.e].own # 0 /\ r.enqLin = elem[r.e].own
         /\ r.deqLin # 0
         /\ \E x \in Takes : x.e = r.e /\ x.inv = r.deqInv /\ x.lin = r.deqLin
<1>1. Out(r.e) /\ Copy(r.e, [inv |-> r.enqInv, lin |-> r.enqLin,
                             own |-> r.own, from |-> r.from])
  BY DEF Inv, CopyInv
<1>2. r.deqLin # 0
  <2>1. r \in Records(clock) /\ clock \in Nat
    BY DEF Inv, Types
  <2> QED BY <2>1 DEF Records
<1>3. [e |-> r.e, inv |-> r.deqInv, lin |-> r.deqLin] \in Takes
  BY DEF Takes
<1> QED BY <1>1, <1>2, <1>3 DEF Copy, Out, Entered, Genuine

(* An element that was in the queue before the enqueue of another was      *)
(* called is not seen to be taken after it, where the dequeue time is taken*)
(* when the dequeue is called, and whoever may have written to the address *)
(* of the other: the enq_lin of the element itself must be genuine.        *)
THEOREM RecordsKeepOrder == Spec => []FifoInRecords
<1>1. ASSUME Inv, kind # "rq", NEW a \in logged, NEW b \in logged,
             Genuine(a), a.enqLin < b.enqInv
      PROVE  a.deqInv < b.deqLin
  <2>1. PICK x \in Takes : x.e = a.e /\ x.inv = a.deqInv
    BY <1>1, RecordFacts
  <2>2. PICK y \in Takes : y.e = b.e /\ y.lin = b.deqLin /\ y.lin # 0
    BY <1>1, RecordFacts
  <2>3. elem[x.e].own # 0 /\ elem[x.e].own < elem[y.e].inv
    BY <1>1, <2>1, <2>2, RecordFacts
  <2> QED BY <1>1, <2>1, <2>2, <2>3 DEF Inv, FifoInv
<1>2. Inv => FifoInRecords
  BY <1>1 DEF FifoInRecords
<1> QED BY <1>2, InvAlways, PTL

(* No thread's own operations overtake each other in the records, those of *)
(* its enqueues with an enq_lin that another thread has overwritten, or    *)
(* nobody has written yet, left out.                                       *)
THEOREM OwnCallsKeepOrder == Spec => []OwnCallsInOrder
<1>1. ASSUME Inv, NEW a \in logged, NEW b \in logged, a.from = b.from,
             Genuine(a), Genuine(b), a.enqInv < b.enqInv
      PROVE  a.enqLin < b.enqLin
  <2>1. /\ a.e \in 1 .. issued /\ b.e \in 1 .. issued
        /\ elem[a.e].inv < elem[b.e].inv /\ elem[a.e].from = elem[b.e].from
        /\ elem[a.e].own # 0 /\ elem[b.e].own # 0
        /\ a.enqLin = elem[a.e].own /\ b.enqLin = elem[b.e].own
    BY <1>1, RecordFacts
  <2>2. /\ elem[a.e].inv \in 0 .. clock /\ elem[b.e].inv \in 0 .. clock
        /\ elem[a.e].own \in 0 .. clock /\ elem[b.e].own \in 0 .. clock
    BY <1>1, <2>1, ElementTimes
  <2>3. a.e < b.e
    <3>1. ~ b.e < a.e
      <4>1. b.e < a.e => elem[b.e].inv < elem[a.e].inv
        BY <1>1, <2>1 DEF Inv, ElemInv
      <4> QED BY <2>1, <2>2, <4>1
    <3>2. a.e # b.e
      BY <2>1, <2>2
    <3> QED BY <2>1, <2>2, <3>1, <3>2
  <2>4. elem[a.e].own < elem[b.e].inv /\ elem[b.e].inv < elem[b.e].own
    BY <1>1, <2>1, <2>3 DEF Inv, ElemInv
  <2> QED BY <2>1, <2>2, <2>4
<1>2. ASSUME Inv PROVE OwnCallsInOrder
  <2>1. \A a, b \in logged :
          a.by = b.by /\ a.deqInv < b.deqInv => a.deqLin < b.deqLin
    BY <1>2 DEF Inv, OwnInv
  <2> QED BY <1>1, <1>2, <2>1 DEF OwnCallsInOrder
<1> QED BY <1>2, InvAlways, PTL

(* The combiner's times are times of linearization. *)
THEOREM CombinerLinearizes == Spec => []CombinerTimesLinearize
<1>1. ASSUME Inv, kind = "fc" PROVE \A r \in logged : Genuine(r)
  BY <1>1 DEF Inv, CombinerInv
<1>2. ASSUME Inv, kind = "fc", NEW a \in logged
      PROVE  a.enqInv < a.enqLin /\ a.enqLin < a.deqLin /\ a.deqInv < a.deqLin
  <2>1. /\ a.e \in 1 .. issued /\ elem[a.e].own # 0
        /\ a.enqInv = elem[a.e].inv /\ a.enqLin = elem[a.e].own
    BY <1>1, <1>2, RecordFacts
  <2>2. PICK x \in Takes : x.e = a.e /\ x.inv = a.deqInv /\ x.lin = a.deqLin
    BY <1>2, RecordFacts
  <2> QED BY <1>2, <2>1, <2>2 DEF Inv, ElemInv, CombinerInv
<1>3. ASSUME Inv, kind = "fc", NEW a \in logged, NEW b \in logged
      PROVE  a.enqLin < b.enqLin <=> a.deqLin < b.deqLin
  <2>1. a.enqLin = elem[a.e].own /\ b.enqLin = elem[b.e].own
    BY <1>1, <1>3, RecordFacts
  <2>2. PICK x \in Takes : x.e = a.e /\ x.lin = a.deqLin
    BY <1>3, RecordFacts
  <2>3. PICK y \in Takes : y.e = b.e /\ y.lin = b.deqLin
    BY <1>3, RecordFacts
  <2>4. elem[x.e].own < elem[y.e].own <=> x.lin < y.lin
    BY <1>3 DEF Inv, CombinerInv
  <2> QED BY <2>1, <2>2, <2>3, <2>4
<1>4. Inv => CombinerTimesLinearize
  BY <1>2, <1>3 DEF CombinerTimesLinearize
<1> QED BY <1>4, InvAlways, PTL

(* No record is made of the fields of a deleted element. *)
THEOREM NoRecordOfDeleted == Spec => []LoggedTimesAreLive
<1>1. Inv => LoggedTimesAreLive
  BY DEF Inv, LiveInv
<1> QED BY <1>1, InvAlways, PTL

----------------------------------------------------------------------------
(* OvertakeMetrics.  The Fenwick tree, the sums and the sort come first:    *)
(* what their recursions compute is proved from a function that satisfies   *)
(* the recursion, and the least place where another one could differ.       *)

(* The Fenwick tree. *)

(* A set of naturals that is not empty has a least element. *)
LEMMA Least ==
  ASSUME NEW T, T \subseteq Nat, T # {}
  PROVE  \E n \in T : \A m \in T : n <= m
<1>1. IsWellFoundedOn(OpToRel(<, Nat), Nat)
  BY NatLessThanWellFounded
<1>2. \E n \in T : \A m \in T : ~ (<<m, n>> \in OpToRel(<, Nat))
  BY <1>1, WFMin
<1>3. \A m, n \in Nat : m < n => <<m, n>> \in OpToRel(<, Nat)
  BY DEF OpToRel
<1>4. PICK n \in T : \A m \in T : ~ (<<m, n>> \in OpToRel(<, Nat))
  BY <1>2
<1>5. \A m \in T : ~ m < n
  BY <1>3, <1>4
<1> QED BY <1>5

(* Half of a number, by whether it is odd.                                 *)
LEMMA Halves ==
  ASSUME NEW x \in Nat
  PROVE  /\ x \div 2 \in Nat
         /\ x % 2 = 1 => x = 2 * (x \div 2) + 1
         /\ x % 2 # 1 => x = 2 * (x \div 2)
OBVIOUS

(* No number is even and odd.                                              *)
LEMMA Odd == \A u, v \in Nat : 2 * u # 2 * v + 1
OBVIOUS

(* LowBit exists: it is defined for the halves before the whole. *)
LEMMA LowExists ==
  ASSUME NEW n \in Nat
  PROVE  \E f : f = [x \in 1 .. n |-> IF x % 2 = 1 THEN 1 ELSE 2 * f[x \div 2]]
<1> DEFINE Fits(f, i) == f = [x \in 1 .. i |-> IF x % 2 = 1 THEN 1 ELSE 2 * f[x \div 2]]
           T == {i \in Nat : ~ \E f : Fits(f, i)}
<1>1. SUFFICES ASSUME T # {} PROVE FALSE
  OBVIOUS
<1>2. PICK i \in T : \A j \in T : i <= j
  BY <1>1, Least
<1>3. i # 0
  <2> DEFINE g == [x \in 1 .. 0 |-> 1]
  <2>1. Fits(g, 0)
    OBVIOUS
  <2> QED BY <1>2, <2>1
<1>4. i - 1 \in Nat /\ i - 1 \notin T
  <2>1. T \subseteq Nat
    OBVIOUS
  <2> HIDE DEF T
  <2> QED BY <1>2, <1>3, <2>1
<1>5. PICK g : Fits(g, i - 1)
  BY <1>4
<1>6. \A x \in 1 .. (i - 1) : g[x] = IF x % 2 = 1 THEN 1 ELSE 2 * g[x \div 2]
  BY <1>5
<1> DEFINE f == [x \in 1 .. i |-> IF x \in 1 .. (i - 1) THEN g[x]
                                 ELSE IF x % 2 = 1 THEN 1 ELSE 2 * g[x \div 2]]
<1>7. \A x \in 1 .. i : f[x] = IF x % 2 = 1 THEN 1 ELSE 2 * f[x \div 2]
  <2> TAKE x \in 1 .. i
  <2>1. f[x] = IF x % 2 = 1 THEN 1 ELSE 2 * g[x \div 2]
    BY <1>6
  <2>2. x % 2 # 1 => f[x \div 2] = g[x \div 2]
    <3> HAVE x % 2 # 1
    <3>1. x \div 2 \in 1 .. (i - 1) /\ x \div 2 \in 1 .. i
      BY Halves
    <3> QED BY <3>1
  <2> HIDE DEF f
  <2> QED BY <2>1, <2>2
<1>8. Fits(f, i)
  <2> HIDE DEF f
  <2>1. f = [x \in 1 .. i |-> f[x]]
    BY DEF f
  <2> QED BY <1>7, <2>1
<1> QED BY <1>2, <1>8

(* The recursion is that of the trailing zeros of x. *)
LEMMA LowFacts ==
  ASSUME NEW n \in Nat, NEW low, low = LowBit(n)
  PROVE  \A x \in 1 .. n : /\ low[x] \in Nat /\ low[x] >= 1 /\ low[x] <= x
                           /\ x % 2 = 1 => low[x] = 1
                           /\ x % 2 # 1 => /\ low[x] = 2 * low[x \div 2]
                                           /\ x \div 2 \in 1 .. n /\ x \div 2 < x
                                           /\ x = 2 * (x \div 2)
<1>1. \E f : f = [x \in 1 .. n |-> IF x % 2 = 1 THEN 1 ELSE 2 * f[x \div 2]]
  BY LowExists
<1>2. low = [x \in 1 .. n |-> IF x % 2 = 1 THEN 1 ELSE 2 * low[x \div 2]]
  BY <1>1, Zenon DEF LowBit
<1>3. \A x \in 1 .. n : low[x] = IF x % 2 = 1 THEN 1 ELSE 2 * low[x \div 2]
  BY <1>2
<1>4. \A x \in 1 .. n : x % 2 # 1 => /\ x \div 2 \in 1 .. n /\ x \div 2 < x
                                     /\ x = 2 * (x \div 2)
  BY Halves
<1> DEFINE T == {x \in 1 .. n : ~ (low[x] \in Nat /\ low[x] >= 1 /\ low[x] <= x)}
<1>5. T = {}
  <2>1. SUFFICES ASSUME T # {} PROVE FALSE
    OBVIOUS
  <2>2. PICK x \in T : \A y \in T : x <= y
    <3>1. T \subseteq Nat
      OBVIOUS
    <3> HIDE DEF T
    <3> QED BY <2>1, <3>1, Least
  <2>3. CASE x % 2 = 1
    BY <1>3, <2>2, <2>3
  <2>4. CASE x % 2 # 1
    <3>1. /\ x \div 2 \in 1 .. n /\ x \div 2 < x /\ x = 2 * (x \div 2)
          /\ low[x] = 2 * low[x \div 2]
      BY <1>3, <1>4, <2>4
    <3>2. x \div 2 \notin T
      BY <2>2, <3>1
    <3>3. PICK y : y = x \div 2
      OBVIOUS
    <3>4. low[y] \in Nat /\ low[y] >= 1 /\ low[y] <= y /\ y \in 1 .. n
      BY <3>1, <3>2, <3>3
    <3>5. low[x] = 2 * low[y] /\ x = 2 * y
      BY <3>1, <3>3
    <3>6. low[x] \in Nat /\ low[x] >= 1 /\ low[x] <= x
      BY ONLY <3>4, <3>5
    <3> QED BY <2>2, <3>6
  <2> QED BY <2>3, <2>4
<1> QED BY <1>3, <1>4, <1>5

(* The ranges of the nodes, from x - low[x] + 1 to x, are nested. *)
LEMMA Nested ==
  ASSUME NEW n \in Nat, NEW low, low = LowBit(n)
  PROVE  \A x, y \in 1 .. n : x < y =>
           /\ y - low[y] < x => x + low[x] <= y
           /\ x <= y - low[y] /\ x + low[x] <= y => x + low[x] <= y - low[y]
<1> DEFINE Nests(x, y) ==
             /\ y - low[y] < x => x + low[x] <= y
             /\ x <= y - low[y] /\ x + low[x] <= y => x + low[x] <= y - low[y]
           T == {x \in 1 .. n : \E y \in 1 .. n : x < y /\ ~ Nests(x, y)}
<1> SUFFICES ASSUME T # {} PROVE FALSE
  OBVIOUS
<1>1. PICK x \in T : \A z \in T : x <= z
  <2>1. T \subseteq Nat
    OBVIOUS
  <2> HIDE DEF T
  <2> QED BY <2>1, Least
<1>2. PICK y \in 1 .. n : x < y /\ ~ Nests(x, y)
  BY <1>1
<1>3. x \in 1 .. n
  BY <1>1
<1>4. PICK a, b, p, q : a = low[x] /\ b = low[y] /\ p = x \div 2 /\ q = y \div 2
  OBVIOUS
<1>5. /\ a \in Nat /\ a >= 1 /\ a <= x /\ x \in Nat /\ y \in Nat /\ p \in Nat /\ q \in Nat
      /\ b \in Nat /\ b >= 1 /\ b <= y
      /\ x % 2 = 1 => a = 1 /\ x = 2 * p + 1
      /\ y % 2 = 1 => b = 1 /\ y = 2 * q + 1
      /\ x % 2 # 1 => a = 2 * low[p] /\ p \in 1 .. n /\ p < x /\ x = 2 * p
                      /\ low[p] \in Nat
      /\ y % 2 # 1 => b = 2 * low[q] /\ q \in 1 .. n /\ q < y /\ y = 2 * q
                      /\ low[q] \in Nat
  <2>1. x \in Nat /\ y \in Nat
    BY <1>2, <1>3
  <2> QED BY <1>2, <1>3, <1>4, <2>1, LowFacts, Halves
<1>6. CASE y % 2 = 1
  <2>1. CASE x % 2 = 1
    <3>1. Nests(x, y)
      BY <1>2, <1>4, <1>5, <1>6, <2>1
    <3> QED BY <1>2, <3>1
  <2>2. CASE x % 2 # 1
    <3>1. PICK c : c = low[p]
      OBVIOUS
    <3>2. c \in Nat /\ a = 2 * c /\ x = 2 * p /\ b = 1 /\ y = 2 * q + 1
      BY <1>5, <1>6, <2>2, <3>1
    <3>3. x + a # y
      <4>0. p \in Nat /\ q \in Nat
        BY <1>5
      <4>1. p + c \in Nat /\ x + a = 2 * (p + c)
        BY ONLY <3>2, <4>0
      <4>2. 2 * (p + c) # 2 * q + 1
        BY ONLY <4>0, <4>1, Odd
      <4> QED BY ONLY <3>2, <4>1, <4>2
    <3>4. Nests(x, y)
      BY <1>2, <1>4, <1>5, <3>2, <3>3
    <3> QED BY <1>2, <3>4
  <2> QED BY <2>1, <2>2
<1>7. CASE y % 2 # 1
  <2>0. PICK d : d = low[q]
    OBVIOUS
  <2>a. d \in Nat /\ b = 2 * d /\ y = 2 * q /\ q \in 1 .. n
    BY <1>5, <1>7, <2>0
  <2>1. CASE x % 2 = 1
    <3>1. a = 1 /\ x = 2 * p + 1
      BY <1>5, <2>1
    <3>2. y - b # x
      BY ONLY <2>a, <3>1, <1>5
    <3>3. Nests(x, y)
      BY <1>2, <1>4, <1>5, <2>a, <3>1, <3>2
    <3> QED BY <1>2, <3>3
  <2>2. CASE x % 2 # 1
    <3>1. PICK c : c = low[p]
      OBVIOUS
    <3>2. c \in Nat /\ a = 2 * c /\ x = 2 * p /\ p \in 1 .. n /\ p < x
      BY <1>5, <2>2, <3>1
    <3>3. p \notin T
      BY <1>1, <3>2
    <3>4. p < q
      BY ONLY <1>2, <1>5, <2>a, <3>2
    <3>5. Nests(p, q)
      BY <2>a, <3>2, <3>3, <3>4
    <3>6. Nests(x, y)
      BY <3>5, <1>4, <1>5, <2>0, <2>a, <3>1, <3>2
    <3> QED BY <1>2, <3>6
  <2> QED BY <2>1, <2>2
<1> QED BY <1>6, <1>7

(* The nodes from r up are those whose range r is in. *)
LEMMA UpdatedIs ==
  ASSUME NEW low, low = LowBit(Len(bit)), Len(bit) \in Nat,
         NEW r \in 1 .. Len(bit)
  PROVE  Updated(r) = {y \in 1 .. Len(bit) : y - low[y] < r /\ r <= y}
<1> DEFINE n == Len(bit)
           Upper(x) == {y \in 1 .. n : y - low[y] < x /\ x <= y}
           Fits(f) == f = [x \in 1 .. 2 * n |->
                             IF x > n THEN {} ELSE {x} \cup f[x + LowBit(n)[x]]]
           W == [x \in 1 .. 2 * n |-> IF x > n THEN {} ELSE Upper(x)]
<1>0. PICK N \in Nat : N = n
  OBVIOUS
<1>1. \A x \in 1 .. N : low[x] \in Nat /\ low[x] >= 1 /\ low[x] <= x
  BY <1>0, LowFacts
<1>2. \A x, y \in 1 .. N : x < y =>
           /\ y - low[y] < x => x + low[x] <= y
           /\ x <= y - low[y] /\ x + low[x] <= y => x + low[x] <= y - low[y]
  BY <1>0, Nested
<1>3. \A x \in 1 .. n : Upper(x) = {x} \cup {y \in 1 .. n : y - low[y] < x + low[x]
                                                     /\ x + low[x] <= y}
  <2> SUFFICES ASSUME NEW x \in 1 .. n
               PROVE  \A y \in 1 .. n : y \in Upper(x) <=>
                        \/ y = x
                        \/ y - low[y] < x + low[x] /\ x + low[x] <= y
    OBVIOUS
  <2> TAKE y \in 1 .. n
  <2>0. /\ low[x] \in Nat /\ low[x] >= 1 /\ low[y] \in Nat /\ low[y] >= 1
        /\ x \in Nat /\ y \in Nat
    BY <1>0, <1>1
  <2>1. CASE x < y
    <3>1. /\ y - low[y] < x => x + low[x] <= y
          /\ x <= y - low[y] /\ x + low[x] <= y => x + low[x] <= y - low[y]
      BY <1>0, <1>2, <2>1
    <3> QED BY <2>0, <2>1, <3>1
  <2>2. CASE x = y
    BY <2>0, <2>2
  <2>3. CASE y < x
    BY <2>0, <2>3
  <2> QED BY <2>0, <2>1, <2>2, <2>3
<1>4. \A x \in 1 .. 2 * n : W[x] = IF x > n THEN {} ELSE {x} \cup W[x + low[x]]
  <2> TAKE x \in 1 .. 2 * n
  <2>1. CASE x > n
    BY <2>1
  <2>2. CASE x <= n
    <3>1. x \in 1 .. n /\ low[x] \in Nat /\ low[x] >= 1 /\ low[x] <= x
      BY <1>0, <1>1, <2>2
    <3>2. x + low[x] \in 1 .. 2 * n
      BY <1>0, <2>2, <3>1
    <3>3. W[x + low[x]] = {y \in 1 .. n : y - low[y] < x + low[x] /\ x + low[x] <= y}
      <4>1. CASE x + low[x] <= n
        BY <3>1, <3>2, <4>1, <1>0
      <4>2. CASE x + low[x] > n
        <5>1. {y \in 1 .. n : y - low[y] < x + low[x] /\ x + low[x] <= y} = {}
          BY <1>0, <3>1, <4>2
        <5> QED BY <3>2, <4>2, <5>1
      <4> QED BY <1>0, <3>1, <4>1, <4>2
    <3>4. W[x] = Upper(x)
      BY <2>2
    <3>5. Upper(x) = {x} \cup {y \in 1 .. n : y - low[y] < x + low[x] /\ x + low[x] <= y}
      BY <1>3, <3>1
    <3> HIDE DEF W, Upper
    <3> QED BY ONLY <1>0, <2>2, <3>3, <3>4, <3>5
  <2> HIDE DEF W
  <2> QED BY <1>0, <2>1, <2>2
<1>5. Fits(W)
  <2>1. W = [x \in 1 .. 2 * n |-> W[x]]
    OBVIOUS
  <2>2. low = LowBit(n)
    OBVIOUS
  <2> HIDE DEF W
  <2> QED BY <1>4, <2>1, <2>2
<1>6. \E f : Fits(f) /\ Updated(r) = f[r]
  <2>1. \E f : Fits(f)
    BY <1>5
  <2> QED BY <2>1, Zenon DEF Updated
<1>7. PICK f : Fits(f) /\ Updated(r) = f[r]
  BY <1>6
<1>8. \A x \in 1 .. 2 * n : f[x] = IF x > n THEN {} ELSE {x} \cup f[x + low[x]]
  <2>1. low = LowBit(n)
    OBVIOUS
  <2> QED BY <1>7, <2>1
<1> DEFINE T == {d \in Nat : \E x \in 1 .. 2 * n : d = 2 * n - x /\ f[x] # W[x]}
<1>9. T = {}
  <2>1. SUFFICES ASSUME T # {} PROVE FALSE
    OBVIOUS
  <2>2. PICK d \in T : \A c \in T : d <= c
    <3>1. T \subseteq Nat
      OBVIOUS
    <3> HIDE DEF T
    <3> QED BY <2>1, <3>1, Least
  <2>3. PICK x \in 1 .. 2 * n : d = 2 * n - x /\ f[x] # W[x]
    BY <2>2
  <2>4. x <= n
    <3> HIDE DEF W
    <3>1. f[x] = IF x > n THEN {} ELSE {x} \cup f[x + low[x]]
      BY <1>8
    <3>2. W[x] = IF x > n THEN {} ELSE {x} \cup W[x + low[x]]
      BY <1>4
    <3>3. ~ x > n
      BY ONLY <2>3, <3>1, <3>2
    <3> QED BY <1>0, <3>3
  <2>5. low[x] \in Nat /\ low[x] >= 1 /\ low[x] <= x
    BY <1>0, <1>1, <2>3, <2>4
  <2>6. x + low[x] \in 1 .. 2 * n /\ 2 * n - (x + low[x]) \in Nat
    BY <1>0, <2>4, <2>5, <2>3
  <2>7. f[x + low[x]] = W[x + low[x]]
    <3>1. 2 * n - (x + low[x]) < d
      BY <1>0, <2>3, <2>5
    <3>2. PICK c : c = 2 * n - (x + low[x])
      OBVIOUS
    <3>3. c \notin T
      <4>1. T \subseteq Nat
        OBVIOUS
      <4> HIDE DEF T
      <4> QED BY <1>0, <2>2, <2>6, <3>1, <3>2, <4>1
    <3> HIDE DEF W
    <3> QED BY <2>6, <3>2, <3>3
  <2> HIDE DEF W
  <2>8. f[x] = IF x > n THEN {} ELSE {x} \cup f[x + low[x]]
    BY <1>8
  <2>9. W[x] = IF x > n THEN {} ELSE {x} \cup W[x + low[x]]
    BY <1>4
  <2> QED BY ONLY <2>3, <2>7, <2>8, <2>9
<1>10. f[r] = W[r]
  <2>1. r \in 1 .. 2 * n /\ 2 * n - r \in Nat
    BY <1>0
  <2> HIDE DEF W
  <2> QED BY <1>9, <2>1
<1>11. W[r] = Upper(r)
  BY <1>0
<1> QED BY <1>7, <1>10, <1>11

(* What the query adds up, when the nodes hold the differences of g. *)
LEMMA SumPrefixIs ==
  ASSUME NEW low, low = LowBit(Len(bit)), Len(bit) \in Nat,
         NEW g, g \in [0 .. Len(bit) -> Nat], g[0] = 0,
         \A x \in 1 .. Len(bit) : bit[x] + g[x - low[x]] = g[x]
  PROVE  \A r \in 0 .. Len(bit) : SumPrefix(r) = g[r]
<1> SUFFICES ASSUME NEW r \in 0 .. Len(bit) PROVE SumPrefix(r) = g[r]
  OBVIOUS
<1> DEFINE n == Len(bit)
           Fits(f) == f = [x \in 0 .. n |->
                             IF x = 0 THEN 0 ELSE bit[x] + f[x - LowBit(n)[x]]]
<1>0. PICK N \in Nat : N = n
  OBVIOUS
<1>1. \A x \in 1 .. N : low[x] \in Nat /\ low[x] >= 1 /\ low[x] <= x
  BY <1>0, LowFacts
<1>2. \A x \in 0 .. n : g[x] = IF x = 0 THEN 0 ELSE bit[x] + g[x - low[x]]
  BY <1>0
<1>3. Fits(g)
  <2>1. g = [x \in 0 .. n |-> g[x]]
    OBVIOUS
  <2>2. low = LowBit(n)
    OBVIOUS
  <2> QED BY <1>2, <2>1, <2>2
<1>4. PICK f : Fits(f) /\ SumPrefix(r) = f[r]
  <2>1. \E f : Fits(f)
    BY <1>3
  <2> QED BY <2>1, Zenon DEF SumPrefix
<1>5. \A x \in 0 .. n : f[x] = IF x = 0 THEN 0 ELSE bit[x] + f[x - low[x]]
  <2>1. low = LowBit(n)
    OBVIOUS
  <2> QED BY <1>4, <2>1
<1> DEFINE T == {x \in 0 .. n : f[x] # g[x]}
<1>6. T = {}
  <2>1. SUFFICES ASSUME T # {} PROVE FALSE
    OBVIOUS
  <2>2. PICK x \in T : \A y \in T : x <= y
    <3>1. T \subseteq Nat
      BY <1>0
    <3> HIDE DEF T
    <3> QED BY <2>1, <3>1, Least
  <2>3. x # 0
    BY <1>2, <1>5, <2>2
  <2>4. low[x] \in Nat /\ low[x] >= 1 /\ low[x] <= x /\ x \in 0 .. N
    BY <1>0, <1>1, <2>2, <2>3
  <2>5. x - low[x] \in 0 .. n /\ x - low[x] < x
    BY <1>0, <2>4
  <2>6. f[x - low[x]] = g[x - low[x]]
    <3>1. x - low[x] \notin T
      BY <2>2, <2>4, <2>5
    <3> QED BY <2>5, <3>1
  <2> QED BY <1>2, <1>5, <2>2, <2>3, <2>6
<1> QED BY <1>4, <1>6

----------------------------------------------------------------------------
(* Sums. *)

(* A one-to-one correspondence with a finite set keeps the count. *)
LEMMA SameCount ==
  ASSUME NEW S, NEW T, IsFiniteSet(S), NEW f, f \in [S -> T],
         \A a, b \in S : f[a] = f[b] => a = b,
         \A t \in T : \E s \in S : f[s] = t
  PROVE  IsFiniteSet(T) /\ Cardinality(T) = Cardinality(S)
<1>1. f \in Bijection(S, T)
  BY Fun_IsBij, Zenon
<1>2. ExistsBijection(S, T)
  BY <1>1 DEF ExistsBijection
<1> QED BY <1>2, FS_Bijection, Zenon

(* What lies below the graph of f, over the elements of T. *)
Area(f, T) == {p \in T \X Nat : 1 <= p[2] /\ p[2] <= f[p[1]]}

(* Below one value, there are as many points as the value says.            *)
LEMMA AreaOfOne ==
  ASSUME NEW f, NEW a, f[a] \in Nat
  PROVE  IsFiniteSet(Area(f, {a})) /\ Cardinality(Area(f, {a})) = f[a]
<1>1. IsFiniteSet(1 .. f[a]) /\ Cardinality(1 .. f[a]) = f[a]
  <2>1. PICK k \in Nat : k = f[a]
    OBVIOUS
  <2>2. IsFiniteSet(1 .. k) /\ Cardinality(1 .. k) = k
    BY FS_Interval
  <2> QED BY <2>1, <2>2
<1> DEFINE g == [j \in 1 .. f[a] |-> <<a, j>>]
<1>2. g \in [1 .. f[a] -> Area(f, {a})]
  BY DEF Area
<1>3. \A j, k \in 1 .. f[a] : g[j] = g[k] => j = k
  OBVIOUS
<1>4. \A p \in Area(f, {a}) : \E j \in 1 .. f[a] : g[j] = p
  <2> TAKE p \in Area(f, {a})
  <2>1. p = <<a, p[2]>> /\ p[2] \in 1 .. f[a]
    BY DEF Area
  <2> QED BY <2>1
<1> HIDE DEF g
<1>5. /\ IsFiniteSet(Area(f, {a}))
      /\ Cardinality(Area(f, {a})) = Cardinality(1 .. f[a])
  <2>1. PICK I : I = 1 .. f[a]
    OBVIOUS
  <2>2. /\ IsFiniteSet(I) /\ g \in [I -> Area(f, {a})]
        /\ \A j, k \in I : g[j] = g[k] => j = k
        /\ \A p \in Area(f, {a}) : \E j \in I : g[j] = p
    BY <1>1, <1>2, <1>3, <1>4, <2>1
  <2>3. IsFiniteSet(Area(f, {a})) /\ Cardinality(Area(f, {a})) = Cardinality(I)
    BY <2>2, SameCount
  <2> QED BY <2>1, <2>3
<1> QED BY <1>1, <1>5

(* One element more. *)
LEMMA AreaStep ==
  ASSUME NEW f, NEW T, NEW a \in T, f[a] \in Nat, IsFiniteSet(Area(f, T \ {a}))
  PROVE  /\ IsFiniteSet(Area(f, T))
         /\ Cardinality(Area(f, T)) = f[a] + Cardinality(Area(f, T \ {a}))
<1>1. Area(f, T) = Area(f, {a}) \cup Area(f, T \ {a})
  BY DEF Area
<1>2. Area(f, {a}) \cap Area(f, T \ {a}) = {}
  BY DEF Area
<1>3. IsFiniteSet(Area(f, {a})) /\ Cardinality(Area(f, {a})) = f[a]
  BY AreaOfOne
<1>4. /\ IsFiniteSet(Area(f, {a}) \cup Area(f, T \ {a}))
      /\ Cardinality(Area(f, {a}) \cup Area(f, T \ {a})) =
           Cardinality(Area(f, {a})) + Cardinality(Area(f, T \ {a}))
             - Cardinality(Area(f, {a}) \cap Area(f, T \ {a}))
  BY <1>3, FS_Union, Zenon
<1>5. Cardinality({}) = 0
  BY FS_EmptySet
<1>6. Cardinality(Area(f, T \ {a})) \in Nat
  BY FS_CardinalityType
<1>7. PICK c, v : c = Cardinality(Area(f, T \ {a})) /\ v = f[a] /\ c \in Nat /\ v \in Nat
  BY <1>6
<1>8. Cardinality(Area(f, T)) = v + c - 0
  BY <1>1, <1>2, <1>3, <1>4, <1>5, <1>7
<1>9. Cardinality(Area(f, T)) = v + c
  BY <1>7, <1>8
<1> QED BY <1>1, <1>4, <1>7, <1>9

(* The sum of the values is the area below them, whatever order CHOOSE     *)
(* adds them up in.                                                        *)
LEMMA SumIsArea ==
  ASSUME NEW S, IsFiniteSet(S), NEW f, f \in [S -> Nat]
  PROVE  IsFiniteSet(Area(f, S)) /\ SumFunction(f) = Cardinality(Area(f, S))
<1>0. \A T \in SUBSET S : IsFiniteSet(T) /\ Cardinality(T) \in Nat
  BY FS_Subset, FS_CardinalityType
<1>1. \A T \in SUBSET S : \A a \in T :
        T \ {a} \in SUBSET S /\ Cardinality(T \ {a}) = Cardinality(T) - 1
  BY <1>0, FS_RemoveElement
<1>2. \A T \in SUBSET S : IsFiniteSet(Area(f, T))
  <2> DEFINE B == {n \in Nat : \E T \in SUBSET S :
                                 n = Cardinality(T) /\ ~ IsFiniteSet(Area(f, T))}
  <2>1. SUFFICES ASSUME B # {} PROVE FALSE
    BY <1>0
  <2>2. PICK n \in B : \A m \in B : n <= m
    <3>1. B \subseteq Nat
      OBVIOUS
    <3> HIDE DEF B
    <3> QED BY <2>1, <3>1, Least
  <2>3. PICK T \in SUBSET S : n = Cardinality(T) /\ ~ IsFiniteSet(Area(f, T))
    BY <2>2
  <2>4. T # {}
    <3>1. Area(f, {}) = {}
      BY DEF Area
    <3> QED BY <2>3, <3>1, FS_EmptySet
  <2>5. PICK a \in T : TRUE
    BY <2>4
  <2>6. T \ {a} \in SUBSET S /\ Cardinality(T \ {a}) = n - 1 /\ n \in Nat
    BY <1>1, <2>2, <2>3
  <2>7. Cardinality(T \ {a}) \in Nat
    BY <1>0, <2>6
  <2>8. IsFiniteSet(Area(f, T \ {a}))
    <3>1. Cardinality(T \ {a}) \notin B
      <4>1. \A k \in B : n <= k
        BY <2>2
      <4> HIDE DEF B
      <4> QED BY <2>6, <2>7, <4>1
    <3> QED BY <2>6, <2>7, <3>1
  <2>9. f[a] \in Nat
    OBVIOUS
  <2> QED BY <2>3, <2>8, <2>9, AreaStep
<1> DEFINE Chosen(T) == CHOOSE x \in T : TRUE
           Fits(s) == s = [T \in SUBSET S |->
                             IF T = {} THEN 0 ELSE f[Chosen(T)] + s[T \ {Chosen(T)}]]
           A == [T \in SUBSET S |-> Cardinality(Area(f, T))]
<1>3. \A T \in SUBSET S : A[T] = IF T = {} THEN 0 ELSE f[Chosen(T)] + A[T \ {Chosen(T)}]
  <2> TAKE T \in SUBSET S
  <2>1. CASE T = {}
    <3>1. Area(f, {}) = {}
      BY DEF Area
    <3> QED BY <2>1, <3>1, FS_EmptySet
  <2>2. CASE T # {}
    <3>1. Chosen(T) \in T
      BY <2>2
    <3> HIDE DEF Chosen
    <3>2. T \ {Chosen(T)} \in SUBSET S /\ f[Chosen(T)] \in Nat
      BY <3>1
    <3>3. Cardinality(Area(f, T)) = f[Chosen(T)] + Cardinality(Area(f, T \ {Chosen(T)}))
      BY <1>2, <3>1, <3>2, AreaStep
    <3> QED BY <2>2, <3>2, <3>3
  <2> QED BY <2>1, <2>2
<1>4. Fits(A)
  <2>1. A = [T \in SUBSET S |-> A[T]]
    OBVIOUS
  <2> HIDE DEF A, Chosen
  <2> QED BY <1>3, <2>1
<1>5. PICK s : Fits(s) /\ SumFunction(f) = s[S]
  <2>1. \E s : Fits(s)
    BY <1>4
  <2>2. DOMAIN f = S
    OBVIOUS
  <2>3. SumFunction(f) =
          LET sum[T \in SUBSET DOMAIN f] ==
                IF T = {} THEN 0 ELSE LET x == CHOOSE x \in T : TRUE
                                      IN  f[x] + sum[T \ {x}]
          IN  sum[DOMAIN f]
    BY Zenon DEF SumFunction, SumFunctionOnSet, FoldFunctionOnSet, MapThenFoldSet
  <2> DEFINE Sums(s) == s = [T \in SUBSET DOMAIN f |->
                               IF T = {} THEN 0 ELSE LET x == CHOOSE x \in T : TRUE
                                                     IN  f[x] + s[T \ {x}]]
  <2>4. \A s : Fits(s) <=> Sums(s)
    BY <2>2
  <2>5. SumFunction(f) = (CHOOSE s : Sums(s))[DOMAIN f]
    BY <2>3, Zenon
  <2> HIDE DEF Fits, Sums
  <2> QED BY <2>1, <2>2, <2>4, <2>5
<1> HIDE DEF Chosen
<1>6. \A T \in SUBSET S : s[T] = IF T = {} THEN 0 ELSE f[Chosen(T)] + s[T \ {Chosen(T)}]
  BY <1>5
<1>7. \A T \in SUBSET S : T # {} => Chosen(T) \in T
  BY DEF Chosen
<1>8. \A T \in SUBSET S : s[T] = A[T]
  <2> HIDE DEF A
  <2> DEFINE B == {n \in Nat : \E T \in SUBSET S : n = Cardinality(T) /\ s[T] # A[T]}
  <2>1. SUFFICES ASSUME B # {} PROVE FALSE
    BY <1>0
  <2>2. PICK n \in B : \A m \in B : n <= m
    <3>1. B \subseteq Nat
      OBVIOUS
    <3> HIDE DEF B
    <3> QED BY <2>1, <3>1, Least
  <2>3. PICK T \in SUBSET S : n = Cardinality(T) /\ s[T] # A[T]
    BY <2>2
  <2>4. T # {}
    BY <1>3, <1>6, <2>3
  <2>5. PICK a : a = Chosen(T) /\ a \in T
    BY <1>7, <2>4
  <2>6. T \ {a} \in SUBSET S /\ Cardinality(T \ {a}) = n - 1 /\ n \in Nat
    BY <1>1, <2>2, <2>3, <2>5
  <2>7. Cardinality(T \ {a}) \in Nat
    BY <1>0, <2>6
  <2>8. s[T \ {a}] = A[T \ {a}]
    <3>1. Cardinality(T \ {a}) \notin B
      <4>1. \A k \in B : n <= k
        BY <2>2
      <4> HIDE DEF B
      <4> QED BY <2>6, <2>7, <4>1
    <3> QED BY <2>6, <2>7, <3>1
  <2> QED BY <1>3, <1>6, <2>3, <2>4, <2>5, <2>8
<1>9. A[S] = Cardinality(Area(f, S))
  OBVIOUS
<1> HIDE DEF A
<1> QED BY <1>2, <1>5, <1>8, <1>9

----------------------------------------------------------------------------
(* The elements by their pairs. *)

TimePairs == Nat \X Nat

(* The ranks are those of the second timestamps, from 1 on. *)
LEMMA RankFacts ==
  ASSUME pairs \in Seq(TimePairs)
  PROVE  /\ Cardinality(E2Values) \in Nat
         /\ \A k \in 1 .. Len(pairs) : Rank(k) \in 1 .. Cardinality(E2Values)
         /\ \A j, k \in 1 .. Len(pairs) : Rank(j) < Rank(k) <=> pairs[j][2] < pairs[k][2]
<1> DEFINE Below(k) == {v \in E2Values : v < pairs[k][2]}
<1>1. Len(pairs) \in Nat /\ \A k \in 1 .. Len(pairs) : pairs[k] \in TimePairs /\ pairs[k][2] \in Nat
  <2>1. Len(pairs) \in Nat /\ \A k \in 1 .. Len(pairs) : pairs[k] \in TimePairs
    OBVIOUS
  <2> QED BY <2>1 DEF TimePairs
<1>2. IsFiniteSet(E2Values)
  <2> DEFINE f == [k \in 1 .. Len(pairs) |-> pairs[k][2]]
  <2>1. f \in [1 .. Len(pairs) -> E2Values] /\ \A v \in E2Values : \E k \in 1 .. Len(pairs) : f[k] = v
    BY DEF E2Values
  <2>2. IsFiniteSet(1 .. Len(pairs))
    BY <1>1, FS_Interval
  <2> HIDE DEF f
  <2>3. f \in Surjection(1 .. Len(pairs), E2Values)
    BY <2>1, Fun_IsSurj
  <2> QED BY <2>2, <2>3, FS_Surjection
<1>3. E2Values \subseteq Nat /\ \A k \in 1 .. Len(pairs) : pairs[k][2] \in E2Values
  BY <1>1 DEF E2Values
<1>4. Cardinality(E2Values) \in Nat
  BY <1>2, FS_CardinalityType
<1>5. \A k : IsFiniteSet(Below(k)) /\ Cardinality(Below(k)) \in Nat
             /\ Cardinality(Below(k)) <= Cardinality(E2Values)
             /\ (Cardinality(Below(k)) = Cardinality(E2Values) => Below(k) = E2Values)
  <2> TAKE k
  <2>1. Below(k) \in SUBSET E2Values
    OBVIOUS
  <2> HIDE DEF Below
  <2>2. IsFiniteSet(Below(k))
        /\ Cardinality(Below(k)) <= Cardinality(E2Values)
        /\ (Cardinality(Below(k)) = Cardinality(E2Values) => Below(k) = E2Values)
    BY <1>2, <2>1, FS_Subset
  <2> QED BY <2>2, FS_CardinalityType
<1>6. \A k \in 1 .. Len(pairs) : Cardinality(Below(k)) < Cardinality(E2Values)
  <2> TAKE k \in 1 .. Len(pairs)
  <2>1. Below(k) # E2Values
    <3>1. ~ pairs[k][2] < pairs[k][2] /\ pairs[k][2] \in E2Values
      BY <1>1, <1>3
    <3>2. pairs[k][2] \notin Below(k)
      BY <3>1
    <3> QED BY <3>1, <3>2
  <2> HIDE DEF Below
  <2> QED BY <1>4, <1>5, <2>1
<1>7. \A j, k \in 1 .. Len(pairs) : pairs[j][2] < pairs[k][2] =>
        Cardinality(Below(j)) < Cardinality(Below(k))
  <2> SUFFICES ASSUME NEW j \in 1 .. Len(pairs), NEW k \in 1 .. Len(pairs),
                      pairs[j][2] < pairs[k][2]
               PROVE  Cardinality(Below(j)) < Cardinality(Below(k))
    OBVIOUS
  <2>1. Below(j) \in SUBSET Below(k)
    <3>1. \A v \in E2Values : v < pairs[j][2] => v < pairs[k][2]
      <4>1. pairs[j][2] \in Nat /\ pairs[k][2] \in Nat
        BY <1>1
      <4>2. \A v \in Nat : v < pairs[j][2] => v < pairs[k][2]
        BY <4>1
      <4> QED BY <1>3, <4>2
    <3> QED BY <3>1
  <2>2. Below(j) # Below(k)
    <3>1. pairs[j][2] \in Below(k) /\ pairs[j][2] \notin Below(j)
      BY <1>1, <1>3
    <3> QED BY <3>1
  <2> HIDE DEF Below
  <2>3. Cardinality(Below(j)) <= Cardinality(Below(k))
        /\ (Cardinality(Below(k)) = Cardinality(Below(j)) => Below(k) = Below(j))
    BY <1>5, <2>1, FS_Subset
  <2>4. Cardinality(Below(j)) \in Nat /\ Cardinality(Below(k)) \in Nat
    BY <1>5
  <2> QED BY <2>2, <2>3, <2>4
<1>8. \A j, k \in 1 .. Len(pairs) : pairs[j][2] = pairs[k][2] => Below(j) = Below(k)
  OBVIOUS
<1>9. \A k : Rank(k) = Cardinality(Below(k)) + 1
  BY DEF Rank
<1> HIDE DEF Below
<1>10. \A k \in 1 .. Len(pairs) : Rank(k) \in 1 .. Cardinality(E2Values)
  BY <1>4, <1>5, <1>6, <1>9
<1>11. \A j, k \in 1 .. Len(pairs) : Rank(j) < Rank(k) <=> pairs[j][2] < pairs[k][2]
  <2> TAKE j, k \in 1 .. Len(pairs)
  <2>1. pairs[j][2] \in Nat /\ pairs[k][2] \in Nat
    BY <1>1
  <2>2. Cardinality(Below(j)) \in Nat /\ Cardinality(Below(k)) \in Nat
    BY <1>5
  <2>3. pairs[j][2] < pairs[k][2] => Cardinality(Below(j)) < Cardinality(Below(k))
    BY <1>7
  <2>4. pairs[k][2] < pairs[j][2] => Cardinality(Below(k)) < Cardinality(Below(j))
    BY <1>7
  <2>5. pairs[j][2] = pairs[k][2] => Cardinality(Below(k)) = Cardinality(Below(j))
    BY <1>8
  <2>6. Rank(j) = Cardinality(Below(j)) + 1 /\ Rank(k) = Cardinality(Below(k)) + 1
    BY <1>9
  <2> QED BY ONLY <2>1, <2>2, <2>3, <2>4, <2>5, <2>6
<1> QED BY <1>4, <1>10, <1>11

(* The elements swept so far. *)
Swept(r, s) == {m \in left + 1 .. Len(pairs) : r < Rank(m) /\ Rank(m) <= s}

(* The elements that overtook the k-th: later called, earlier in effect. *)
Overtook(k) == {o \in 1 .. Len(pairs) : pairs[o][1] > pairs[k][1] /\ pairs[o][2] < pairs[k][2]}

Ordered ==
  /\ pairs \in Seq(TimePairs)
  /\ \A j, k \in 1 .. Len(pairs) : j < k => pairs[j][1] <= pairs[k][1]

TreeCounts ==
  /\ bit \in Seq(Nat)
  /\ Len(bit) = Cardinality(E2Values)
  /\ left \in 0 .. Len(pairs)
  /\ left > 0 => \A m \in left + 1 .. Len(pairs) : pairs[m][1] > pairs[left][1]
  /\ \A x \in 1 .. Len(bit) : bit[x] = Cardinality(Swept(x - LowBit(Len(bit))[x], x))

DepthsFound ==
  /\ depth \in Seq(Nat)
  /\ Len(depth) = Len(pairs)
  /\ \A k \in left + 1 .. Len(pairs) : depth[k] = Cardinality(Overtook(k))
  /\ pc = "insert" => \A k \in Group : depth[k] = Cardinality(Overtook(k))

(* Sets of swept elements are finite, and their ranges add up. *)
LEMMA SweptAdds ==
  ASSUME Ordered, TreeCounts
  PROVE  /\ \A r, s \in Int : IsFiniteSet(Swept(r, s)) /\ Cardinality(Swept(r, s)) \in Nat
         /\ \A q, r, s \in Int : q <= r /\ r <= s =>
              Cardinality(Swept(q, s)) = Cardinality(Swept(q, r)) + Cardinality(Swept(r, s))
<1>1. Len(pairs) \in Nat /\ left \in Nat /\ left <= Len(pairs)
  <2>1. Len(pairs) \in Nat
    BY DEF Ordered
  <2> QED BY <2>1 DEF TreeCounts
<1>2. IsFiniteSet(left + 1 .. Len(pairs))
  BY <1>1, FS_Interval
<1>3. \A r, s \in Int : IsFiniteSet(Swept(r, s)) /\ Cardinality(Swept(r, s)) \in Nat
  <2> TAKE r, s \in Int
  <2>1. Swept(r, s) \in SUBSET (left + 1 .. Len(pairs))
    BY DEF Swept
  <2>2. IsFiniteSet(Swept(r, s))
    BY <1>2, <2>1, FS_Subset
  <2> QED BY <2>2, FS_CardinalityType
<1>4. \A m \in left + 1 .. Len(pairs) : Rank(m) \in Nat
  <2>1. \A k \in 1 .. Len(pairs) : Rank(k) \in 1 .. Cardinality(E2Values)
    BY RankFacts DEF Ordered
  <2>2. Cardinality(E2Values) \in Nat
    BY RankFacts DEF Ordered
  <2> QED BY <1>1, <2>1, <2>2
<1>5. ASSUME NEW q \in Int, NEW r \in Int, NEW s \in Int, q <= r, r <= s
      PROVE  Cardinality(Swept(q, s)) = Cardinality(Swept(q, r)) + Cardinality(Swept(r, s))
  <2>1. Swept(q, s) = Swept(q, r) \cup Swept(r, s)
    BY <1>4, <1>5 DEF Swept
  <2>2. Swept(q, r) \cap Swept(r, s) = {}
    BY <1>4 DEF Swept
  <2>3. IsFiniteSet(Swept(q, r)) /\ IsFiniteSet(Swept(r, s))
    BY <1>3
  <2>4. Cardinality(Swept(q, r) \cup Swept(r, s)) =
          Cardinality(Swept(q, r)) + Cardinality(Swept(r, s))
            - Cardinality(Swept(q, r) \cap Swept(r, s))
    BY <2>3, FS_Union
  <2>5. PICK c, d : c = Cardinality(Swept(q, r)) /\ d = Cardinality(Swept(r, s))
                    /\ c \in Nat /\ d \in Nat
    BY <1>3
  <2>6. Cardinality({}) = 0
    BY FS_EmptySet
  <2>7. Cardinality(Swept(q, s)) = c + d - 0
    BY <2>1, <2>2, <2>4, <2>5, <2>6
  <2> QED BY <2>5, <2>7
<1> QED BY <1>3, <1>5

(* What the tree answers: how many elements swept so far have a rank of at *)
(* most r.                                                                 *)
LEMMA TreeAnswers ==
  ASSUME Ordered, TreeCounts
  PROVE  \A r \in 0 .. Len(bit) : SumPrefix(r) = Cardinality(Swept(0, r))
<1>1. PICK low, n : low = LowBit(Len(bit)) /\ n = Len(bit) /\ n \in Nat
  BY DEF TreeCounts
<1> DEFINE g == [r \in 0 .. n |-> Cardinality(Swept(0, r))]
<1>2. g \in [0 .. n -> Nat]
  BY <1>1, SweptAdds
<1>3. g[0] = 0
  <2>1. Swept(0, 0) = {}
    <3>1. \A m \in left + 1 .. Len(pairs) : Rank(m) \in Int
      <4>1. left \in Nat /\ Len(pairs) \in Nat
        BY DEF Ordered, TreeCounts
      <4>2. Cardinality(E2Values) \in Nat /\ \A m \in 1 .. Len(pairs) : Rank(m) \in 1 .. Cardinality(E2Values)
        BY RankFacts DEF Ordered
      <4> QED BY <4>1, <4>2
    <3> QED BY <3>1 DEF Swept
  <2> QED BY <1>1, <2>1, FS_EmptySet
<1>4. \A x \in 1 .. n : bit[x] + g[x - low[x]] = g[x]
  <2> TAKE x \in 1 .. n
  <2>1. low[x] \in Nat /\ low[x] >= 1 /\ low[x] <= x
    BY <1>1, LowFacts
  <2>2. x - low[x] \in 0 .. n /\ 0 \in Int /\ x \in Int /\ x - low[x] \in Int
        /\ 0 <= x - low[x] /\ x - low[x] <= x
    BY <1>1, <2>1
  <2>3. Cardinality(Swept(0, x)) = Cardinality(Swept(0, x - low[x])) + Cardinality(Swept(x - low[x], x))
    BY <2>2, SweptAdds
  <2>4. bit[x] = Cardinality(Swept(x - low[x], x))
    BY <1>1 DEF TreeCounts
  <2>5. Cardinality(Swept(0, x - low[x])) \in Nat /\ Cardinality(Swept(x - low[x], x)) \in Nat
    BY <2>2, SweptAdds
  <2>6. g[x] = Cardinality(Swept(0, x)) /\ g[x - low[x]] = Cardinality(Swept(0, x - low[x]))
    BY <1>1, <2>2
  <2> HIDE DEF g
  <2> QED BY ONLY <2>3, <2>4, <2>5, <2>6
<1>5. \A r \in 0 .. n : g[r] = Cardinality(Swept(0, r))
  OBVIOUS
<1> HIDE DEF g
<1>6. \A r \in 0 .. Len(bit) : SumPrefix(r) = g[r]
  BY <1>1, <1>2, <1>3, <1>4, SumPrefixIs
<1> QED BY <1>1, <1>5, <1>6

----------------------------------------------------------------------------
(* The two halves of a round of the sweep. *)

(* The group is the end of what has yet to be swept. *)
LEMMA GroupFacts ==
  ASSUME Ordered, TreeCounts, left > 0
  PROVE  \E g \in 1 .. left :
           /\ Group = g .. left
           /\ left - Cardinality(Group) = g - 1
           /\ \A k \in g .. left : pairs[k][1] = pairs[left][1]
           /\ \A k \in 1 .. g - 1 : \A m \in g .. Len(pairs) : pairs[m][1] > pairs[k][1]
<1>1. /\ Len(pairs) \in Nat /\ left \in Nat /\ left >= 1 /\ left <= Len(pairs)
      /\ \A k \in 1 .. Len(pairs) : pairs[k][1] \in Nat
  <2>1. Len(pairs) \in Nat /\ \A k \in 1 .. Len(pairs) : pairs[k] \in TimePairs
    BY DEF Ordered
  <2>2. \A k \in 1 .. Len(pairs) : pairs[k][1] \in Nat
    BY <2>1 DEF TimePairs
  <2> QED BY <2>1, <2>2 DEF TreeCounts
<1>2. Group \subseteq Nat /\ left \in Group
  BY <1>1 DEF Group
<1>3. PICK g \in Group : \A k \in Group : g <= k
  BY <1>2, Least
<1>4. g \in 1 .. left /\ \A m \in g .. left : pairs[m][1] = pairs[left][1]
  BY DEF Group
<1>5. Group = g .. left
  <2>1. \A k \in Group : k \in g .. left
    <3> TAKE k \in Group
    <3>1. k \in 1 .. left /\ g <= k
      BY <1>3 DEF Group
    <3> QED BY <1>1, <1>4, <3>1
  <2>2. \A k \in g .. left : k \in Group
    <3> TAKE k \in g .. left
    <3>1. k \in 1 .. left /\ \A m \in k .. left : m \in g .. left
      BY <1>1, <1>4
    <3> QED BY <1>4, <3>1 DEF Group
  <2> QED BY <2>1, <2>2
<1>6. Cardinality(g .. left) = left - g + 1
  BY <1>1, <1>4, FS_Interval
<1>7. left - Cardinality(Group) = g - 1
  BY <1>1, <1>4, <1>5, <1>6
<1>8. \A k \in 1 .. g - 1 : pairs[k][1] < pairs[left][1]
  <2> TAKE k \in 1 .. g - 1
  <2>1. k \in 1 .. left /\ k \in 1 .. Len(pairs) /\ left \in 1 .. Len(pairs) /\ k < left /\ k < g
    BY <1>1, <1>4
  <2>2. pairs[k][1] <= pairs[left][1]
    BY <2>1 DEF Ordered
  <2>3. pairs[k][1] # pairs[left][1]
    <3> SUFFICES ASSUME pairs[k][1] = pairs[left][1] PROVE FALSE
      OBVIOUS
    <3>1. \A m \in k .. left : pairs[m][1] = pairs[left][1]
      <4> TAKE m \in k .. left
      <4>1. m \in 1 .. Len(pairs) /\ (m = k \/ k < m) /\ (m = left \/ m < left)
        BY <1>1, <2>1
      <4>2. pairs[k][1] <= pairs[m][1] /\ pairs[m][1] <= pairs[left][1]
        BY <1>1, <2>1, <4>1 DEF Ordered
      <4>3. pairs[k][1] \in Nat /\ pairs[m][1] \in Nat /\ pairs[left][1] \in Nat
        BY <1>1, <2>1, <4>1
      <4> QED BY <4>2, <4>3
    <3>2. k \in Group
      BY <2>1, <3>1 DEF Group
    <3>3. g <= k
      BY <1>3, <3>2
    <3> QED BY <1>1, <1>4, <2>1, <3>3
  <2> QED BY <1>1, <2>1, <2>2, <2>3
<1>9. \A k \in 1 .. g - 1 : \A m \in g .. Len(pairs) : pairs[m][1] > pairs[k][1]
  <2> TAKE k \in 1 .. g - 1
  <2> TAKE m \in g .. Len(pairs)
  <2>1. k \in 1 .. Len(pairs) /\ m \in 1 .. Len(pairs) /\ left \in 1 .. Len(pairs)
    BY <1>1, <1>4
  <2>2. pairs[left][1] <= pairs[m][1]
    <3>1. CASE m \in g .. left
      BY <1>1, <1>4, <2>1, <3>1
    <3>2. CASE left < m
      BY <2>1, <3>2 DEF Ordered
    <3> QED BY <1>1, <1>4, <3>1, <3>2
  <2>3. pairs[k][1] < pairs[left][1]
    BY <1>8
  <2>4. pairs[k][1] \in Nat /\ pairs[m][1] \in Nat /\ pairs[left][1] \in Nat
    BY <1>1, <2>1
  <2> QED BY <2>2, <2>3, <2>4
<1> QED BY <1>4, <1>5, <1>7, <1>9

(* For an element of the group, what the tree answers is its depth.        *)
LEMMA QueryFindsDepth ==
  ASSUME Ordered, TreeCounts, left > 0, NEW k \in Group
  PROVE  /\ k \in 1 .. Len(pairs)
         /\ SumPrefix(Rank(k) - 1) = Cardinality(Overtook(k))
<1>1. PICK g \in 1 .. left :
           /\ Group = g .. left
           /\ \A j \in g .. left : pairs[j][1] = pairs[left][1]
           /\ \A j \in 1 .. g - 1 : \A m \in g .. Len(pairs) : pairs[m][1] > pairs[j][1]
  BY GroupFacts
<1>2. /\ Len(pairs) \in Nat /\ left \in Nat /\ left >= 1 /\ left <= Len(pairs)
      /\ \A j \in 1 .. Len(pairs) : pairs[j][1] \in Nat /\ pairs[j][2] \in Nat
  <2>1. Len(pairs) \in Nat /\ \A j \in 1 .. Len(pairs) : pairs[j] \in TimePairs
    BY DEF Ordered
  <2>2. \A j \in 1 .. Len(pairs) : pairs[j][1] \in Nat /\ pairs[j][2] \in Nat
    BY <2>1 DEF TimePairs
  <2> QED BY <2>1, <2>2 DEF TreeCounts
<1>3. k \in 1 .. Len(pairs) /\ k \in 1 .. left /\ pairs[k][1] = pairs[left][1]
  BY <1>1, <1>2
<1>4. /\ \A j \in 1 .. Len(pairs) : Rank(j) \in 1 .. Len(bit)
      /\ \A j \in 1 .. Len(pairs) : Rank(j) < Rank(k) <=> pairs[j][2] < pairs[k][2]
      /\ Len(bit) \in Nat
  BY <1>3, RankFacts DEF Ordered, TreeCounts
<1>5. Rank(k) \in 1 .. Len(bit) /\ Rank(k) - 1 \in 0 .. Len(bit)
  BY <1>3, <1>4
<1>6. \A m \in 1 .. Len(pairs) : pairs[m][1] > pairs[k][1] <=> m \in left + 1 .. Len(pairs)
  <2> TAKE m \in 1 .. Len(pairs)
  <2>1. CASE m \in left + 1 .. Len(pairs)
    BY <1>2, <1>3, <2>1 DEF TreeCounts
  <2>2. CASE m \in g .. left
    BY <1>1, <1>2, <1>3, <2>2
  <2>3. CASE m \in 1 .. g - 1
    <3>1. left \in g .. Len(pairs)
      BY <1>1, <1>2
    <3>2. pairs[left][1] > pairs[m][1]
      BY <1>1, <2>3, <3>1
    <3>3. left \in 1 .. Len(pairs) /\ m \notin left + 1 .. Len(pairs)
      BY <1>1, <1>2, <2>3
    <3>4. pairs[left][1] \in Nat /\ pairs[m][1] \in Nat
      BY <1>2, <3>3
    <3> QED BY <1>3, <3>2, <3>3, <3>4
  <2> QED BY <1>1, <1>2, <2>1, <2>2, <2>3
<1>7. Swept(0, Rank(k) - 1) = Overtook(k)
  <2>1. \A m \in 1 .. Len(pairs) : (0 < Rank(m) /\ Rank(m) <= Rank(k) - 1) <=> pairs[m][2] < pairs[k][2]
    <3> TAKE m \in 1 .. Len(pairs)
    <3>1. Rank(m) \in 1 .. Len(bit) /\ (Rank(m) < Rank(k) <=> pairs[m][2] < pairs[k][2])
      BY <1>4
    <3>2. PICK a, b : a = Rank(m) /\ b = Rank(k) /\ a \in Nat /\ b \in Nat /\ a > 0
      BY <1>4, <1>5, <3>1
    <3> QED BY <3>1, <3>2
  <2>2. left + 1 .. Len(pairs) \subseteq 1 .. Len(pairs)
    BY <1>2
  <2> QED BY <1>6, <2>1, <2>2 DEF Swept, Overtook
<1>8. SumPrefix(Rank(k) - 1) = Cardinality(Swept(0, Rank(k) - 1))
  BY <1>5, TreeAnswers
<1> QED BY <1>3, <1>7, <1>8

(* A round keeps the pairs, and with them the ranks and what overtook what.*)
LEMMA PairsStay ==
  ASSUME pairs' = pairs
  PROVE  /\ E2Values' = E2Values
         /\ \A k : Rank(k)' = Rank(k)
         /\ \A k : Overtook(k)' = Overtook(k)
         /\ Ordered => Ordered'
BY DEF E2Values, Rank, Overtook, Ordered

(* Query gives every element of the group its depth, and leaves the tree   *)
(* as it is.                                                               *)
LEMMA QueryStep ==
  ASSUME Ordered, TreeCounts, DepthsFound, left > 0, Query
  PROVE  TreeCounts' /\ DepthsFound'
<1>1. /\ pairs' = pairs /\ left' = left /\ bit' = bit /\ pc' = "insert"
      /\ depth' = [k \in DOMAIN depth |->
                    IF k \in Group THEN SumPrefix(Rank(k) - 1) ELSE depth[k]]
  BY DEF Query
<1>2. /\ E2Values' = E2Values
      /\ \A k : Rank(k)' = Rank(k) /\ Overtook(k)' = Overtook(k)
  BY <1>1, PairsStay
<1>3. Group' = Group
  BY <1>1 DEF Group
<1>4. TreeCounts'
  <2>1. \A r, s : Swept(r, s)' = Swept(r, s)
    BY <1>1, <1>2 DEF Swept
  <2> QED BY <1>1, <1>2, <2>1 DEF TreeCounts
<1>5. \A k \in Group : SumPrefix(Rank(k) - 1) = Cardinality(Overtook(k))
  BY QueryFindsDepth
<1>6. \A k : IsFiniteSet(Overtook(k)) /\ Cardinality(Overtook(k)) \in Nat
  <2> TAKE k
  <2>1. IsFiniteSet(1 .. Len(pairs))
    BY FS_Interval DEF Ordered
  <2>2. Overtook(k) \in SUBSET (1 .. Len(pairs))
    BY DEF Overtook
  <2>3. IsFiniteSet(Overtook(k))
    BY <2>1, <2>2, FS_Subset
  <2> QED BY <2>3, FS_CardinalityType
<1>7. PICK n \in Nat : n = Len(depth) /\ DOMAIN depth = 1 .. n /\ n = Len(pairs)
  BY DEF DepthsFound
<1>8. \A k \in 1 .. n : depth'[k] \in Nat
  <2> TAKE k \in 1 .. n
  <2>1. depth[k] \in Nat
    BY <1>7 DEF DepthsFound
  <2>2. depth'[k] = IF k \in Group THEN SumPrefix(Rank(k) - 1) ELSE depth[k]
    BY <1>1, <1>7
  <2> QED BY <1>5, <1>6, <2>1, <2>2
<1>9. depth' \in Seq(Nat) /\ Len(depth') = n
  <2>1. depth' = [k \in 1 .. n |-> depth'[k]]
    BY <1>1, <1>7
  <2> QED BY <1>8, <2>1
<1>10. \A k \in Group : depth'[k] = Cardinality(Overtook(k))
  <2> TAKE k \in Group
  <2>1. k \in 1 .. n
    BY <1>7, QueryFindsDepth
  <2> QED BY <1>1, <1>5, <1>7, <2>1
<1>11. \A k \in left + 1 .. n : depth'[k] = Cardinality(Overtook(k))
  <2> TAKE k \in left + 1 .. n
  <2>1. left \in Nat
    BY <1>7 DEF TreeCounts
  <2>2. k \in 1 .. n /\ k \notin Group
    BY <1>7, <2>1 DEF Group
  <2>3. depth'[k] = depth[k]
    BY <1>1, <1>7, <2>2
  <2> QED BY <1>7, <2>3 DEF DepthsFound
<1>12. DepthsFound'
  BY <1>1, <1>2, <1>3, <1>7, <1>9, <1>10, <1>11 DEF DepthsFound
<1> QED BY <1>4, <1>12

(* InsertGroup adds the group to the tree, and the sweep goes on below it  *)
(* or ends.                                                                *)
LEMMA InsertGroupStep ==
  ASSUME Ordered, TreeCounts, DepthsFound, left > 0, InsertGroup
  PROVE  TreeCounts' /\ DepthsFound' /\ (pc' = "aggregate" <=> left' = 0)
         /\ pc' \in {"query", "aggregate"}
<1>1. /\ pairs' = pairs /\ depth' = depth /\ pc = "insert"
      /\ left' = left - Cardinality(Group)
      /\ pc' = IF left' = 0 THEN "aggregate" ELSE "query"
      /\ bit' = [x \in DOMAIN bit |->
                  bit[x] + Cardinality({k \in Group : x \in Updated(Rank(k))})]
  BY DEF InsertGroup
<1>2. /\ E2Values' = E2Values
      /\ \A k : Rank(k)' = Rank(k) /\ Overtook(k)' = Overtook(k)
  BY <1>1, PairsStay
<1>3. PICK g \in 1 .. left :
           /\ Group = g .. left
           /\ left - Cardinality(Group) = g - 1
           /\ \A k \in 1 .. g - 1 : \A m \in g .. Len(pairs) : pairs[m][1] > pairs[k][1]
  BY GroupFacts
<1>4. /\ left' = g - 1
      /\ Len(pairs) \in Nat /\ left \in Nat /\ left <= Len(pairs)
  <2>1. Len(pairs) \in Nat
    BY DEF Ordered
  <2> QED BY <1>1, <1>3, <2>1 DEF TreeCounts
<1>5. PICK n \in Nat : n = Len(bit) /\ DOMAIN bit = 1 .. n
  BY DEF TreeCounts
<1>6. PICK low : low = LowBit(n)
  OBVIOUS
<1>7. \A k \in 1 .. Len(pairs) : Rank(k) \in 1 .. n
  BY <1>5, RankFacts DEF Ordered, TreeCounts
<1>8. \A x \in 1 .. n : low[x] \in Nat /\ low[x] <= x
  BY <1>6, LowFacts
<1>9. \A x \in 1 .. n : /\ bit'[x] \in Nat
                        /\ bit'[x] = Cardinality({m \in g .. Len(pairs) :
                                         x - low[x] < Rank(m) /\ Rank(m) <= x})
  <2> TAKE x \in 1 .. n
  <2> DEFINE Hit(m) == x - low[x] < Rank(m) /\ Rank(m) <= x
             G == {k \in Group : x \in Updated(Rank(k))}
             O == Swept(x - low[x], x)
             A == {m \in g .. Len(pairs) : Hit(m)}
  <2>1. G = {k \in g .. left : Hit(k)}
    <3>1. \A k \in g .. left : x \in Updated(Rank(k)) <=> Hit(k)
      <4> TAKE k \in g .. left
      <4>1. Rank(k) \in 1 .. Len(bit)
        BY <1>3, <1>4, <1>5, <1>7
      <4>2. low = LowBit(Len(bit)) /\ Len(bit) \in Nat
        BY <1>5, <1>6
      <4>3. Updated(Rank(k)) = {y \in 1 .. Len(bit) : y - low[y] < Rank(k) /\ Rank(k) <= y}
        BY <4>1, <4>2, UpdatedIs
      <4> QED BY <1>5, <4>3
    <3> QED BY <1>3, <3>1
  <2>2. A = O \cup G /\ O \cap G = {}
    <3>1. O = {m \in left + 1 .. Len(pairs) : Hit(m)}
      BY DEF Swept
    <3>2. g .. Len(pairs) = (left + 1 .. Len(pairs)) \cup (g .. left)
          /\ (left + 1 .. Len(pairs)) \cap (g .. left) = {}
      BY <1>3, <1>4
    <3> HIDE DEF Hit, G, O
    <3> QED BY <2>1, <3>1, <3>2
  <2>3. IsFiniteSet(O) /\ IsFiniteSet(G)
    <3>1. x - low[x] \in Int /\ x \in Int
      BY <1>8
    <3>2. IsFiniteSet(O)
      BY <3>1, SweptAdds
    <3>3. IsFiniteSet(g .. left)
      BY <1>4, FS_Interval
    <3>4. G \in SUBSET (g .. left)
      BY <1>3
    <3> HIDE DEF G, O
    <3>5. IsFiniteSet(G)
      BY <3>3, <3>4, FS_Subset
    <3> QED BY <3>2, <3>5
  <2>4. bit[x] = Cardinality(O)
    BY <1>5, <1>6 DEF TreeCounts
  <2>5. bit'[x] = bit[x] + Cardinality(G)
    BY <1>1, <1>5
  <2> HIDE DEF G, O, A
  <2>6. PICK a, b : a = Cardinality(O) /\ b = Cardinality(G) /\ a \in Nat /\ b \in Nat
    BY <2>3, FS_CardinalityType
  <2>7. Cardinality(O \cup G) = Cardinality(O) + Cardinality(G) - Cardinality(O \cap G)
    BY <2>3, FS_Union
  <2>8. Cardinality({}) = 0
    BY FS_EmptySet
  <2>9. Cardinality(A) = a + b - 0
    BY <2>2, <2>6, <2>7, <2>8
  <2>10. bit'[x] \in Nat /\ bit'[x] = Cardinality(A)
    BY <2>4, <2>5, <2>6, <2>9
  <2> QED BY <2>10 DEF A
<1>10. bit' \in Seq(Nat) /\ Len(bit') = n
  <2>1. bit' = [x \in 1 .. n |-> bit'[x]]
    BY <1>1, <1>5
  <2>2. \A x \in 1 .. n : bit'[x] \in Nat
    BY <1>9
  <2> QED BY <2>1, <2>2
<1>11. \A r, s : Swept(r, s)' = {m \in g .. Len(pairs) : r < Rank(m) /\ Rank(m) <= s}
  <2>1. left' + 1 = g
    BY <1>3, <1>4
  <2> QED BY <1>1, <1>2, <2>1 DEF Swept
<1>12. (\A x \in 1 .. Len(bit) : bit[x] = Cardinality(Swept(x - LowBit(Len(bit))[x], x)))'
  <2> SUFFICES ASSUME NEW x \in 1 .. Len(bit')
               PROVE  bit'[x] = Cardinality(Swept(x - LowBit(Len(bit))[x], x)')
    OBVIOUS
  <2>1. x \in 1 .. n /\ LowBit(Len(bit'))[x] = low[x]
    BY <1>6, <1>10
  <2>2. Swept(x - LowBit(Len(bit))[x], x)' =
          {m \in g .. Len(pairs) : x - low[x] < Rank(m) /\ Rank(m) <= x}
    BY <1>11, <2>1
  <2> QED BY <1>9, <2>1, <2>2
<1>13. left' \in 0 .. Len(pairs')
  BY <1>1, <1>3, <1>4
<1>14. left' > 0 => \A m \in left' + 1 .. Len(pairs') : pairs'[m][1] > pairs'[left'][1]
  <2> HAVE left' > 0
  <2>1. g - 1 \in 1 .. g - 1 /\ left' + 1 = g
    BY <1>3, <1>4
  <2> QED BY <1>1, <1>3, <1>4, <2>1
<1>15. Len(bit') = Cardinality(E2Values')
  BY <1>2, <1>5, <1>10 DEF TreeCounts
<1>16. TreeCounts'
  BY <1>10, <1>12, <1>13, <1>14, <1>15 DEF TreeCounts
<1>17. DepthsFound'
  <2>1. pc' # "insert"
    BY <1>1
  <2>2. \A k \in g .. Len(pairs) : depth[k] = Cardinality(Overtook(k))
    <3> TAKE k \in g .. Len(pairs)
    <3>1. CASE k \in left + 1 .. Len(pairs)
      BY <3>1 DEF DepthsFound
    <3>2. CASE k \in g .. left
      BY <1>1, <1>3, <3>2 DEF DepthsFound
    <3> QED BY <1>3, <1>4, <3>1, <3>2
  <2>3. left' + 1 = g
    BY <1>3, <1>4
  <2>4. depth \in Seq(Nat) /\ Len(depth) = Len(pairs)
    BY DEF DepthsFound
  <2> QED BY <1>1, <1>2, <2>1, <2>2, <2>3, <2>4 DEF DepthsFound
<1> QED BY <1>1, <1>16, <1>17

----------------------------------------------------------------------------
(* The sort. *)

(* By their pairs, and then by their place, the records are in a strict    *)
(* total order.                                                            *)
LEMMA PrecedesOrders ==
  ASSUME records \in Seq(LogRecord)
  PROVE  /\ \A r \in Kept : Pair(r) \in TimePairs
         /\ \A r \in Kept : ~ Precedes(r, r)
         /\ \A r, s \in Kept : r = s \/ Precedes(r, s) \/ Precedes(s, r)
         /\ \A r, s, t \in Kept : Precedes(r, s) /\ Precedes(s, t) => Precedes(r, t)
<1>1. \A r \in Kept : /\ r \in Nat /\ Pair(r)[1] \in Nat /\ Pair(r)[2] \in Nat
                      /\ Pair(r) = <<Pair(r)[1], Pair(r)[2]>>
  <2> TAKE r \in Kept
  <2>1. r \in 1 .. Len(records)
    BY DEF Kept
  <2>2. records[r] \in LogRecord
    BY <2>1
  <2>3. Event1(records[r], metric) \in Nat /\ Event2(records[r], metric) \in Nat
    BY <2>2 DEF LogRecord, Event1, Event2
  <2> QED BY <2>1, <2>3 DEF Pair
<1>2. \A r, s \in Kept : Pair(r) = Pair(s) <=> Pair(r)[1] = Pair(s)[1] /\ Pair(r)[2] = Pair(s)[2]
  BY <1>1
<1>3. \A r, s \in Kept : Precedes(r, s) <=>
        \/ Pair(r)[1] < Pair(s)[1]
        \/ Pair(r)[1] = Pair(s)[1] /\ Pair(r)[2] < Pair(s)[2]
        \/ Pair(r)[1] = Pair(s)[1] /\ Pair(r)[2] = Pair(s)[2] /\ r < s
  BY <1>2 DEF Precedes, Before
<1>4. \A r \in Kept : Pair(r) \in TimePairs
  BY <1>1 DEF TimePairs
<1>5. \A r \in Kept : ~ Precedes(r, r)
  BY <1>1, <1>3
<1>6. \A r, s \in Kept : r = s \/ Precedes(r, s) \/ Precedes(s, r)
  <2> TAKE r, s \in Kept
  <2>1. /\ r \in Nat /\ s \in Nat /\ Pair(r)[1] \in Nat /\ Pair(r)[2] \in Nat
        /\ Pair(s)[1] \in Nat /\ Pair(s)[2] \in Nat
    BY <1>1
  <2> QED BY <1>3, <2>1
<1>7. \A r, s, t \in Kept : Precedes(r, s) /\ Precedes(s, t) => Precedes(r, t)
  <2> SUFFICES ASSUME NEW r \in Kept, NEW s \in Kept, NEW t \in Kept,
                      Precedes(r, s), Precedes(s, t)
               PROVE  Precedes(r, t)
    OBVIOUS
  <2>1. PICK a, b, c, u, v, w :
          /\ a = Pair(r)[1] /\ b = Pair(s)[1] /\ c = Pair(t)[1]
          /\ u = Pair(r)[2] /\ v = Pair(s)[2] /\ w = Pair(t)[2]
    OBVIOUS
  <2>2. /\ r \in Nat /\ s \in Nat /\ t \in Nat
        /\ a \in Nat /\ b \in Nat /\ c \in Nat /\ u \in Nat /\ v \in Nat /\ w \in Nat
    BY <1>1, <2>1
  <2>3. /\ a < b \/ (a = b /\ u < v) \/ (a = b /\ u = v /\ r < s)
        /\ b < c \/ (b = c /\ v < w) \/ (b = c /\ v = w /\ s < t)
    BY <1>3, <2>1
  <2>4. a < c \/ (a = c /\ u < w) \/ (a = c /\ u = w /\ r < t)
    BY ONLY <2>2, <2>3
  <2> QED BY <1>3, <2>1, <2>4
<1> QED BY <1>4, <1>5, <1>6, <1>7

(* There are finitely many records to sort.                                *)
LEMMA KeptFinite ==
  ASSUME records \in Seq(LogRecord)
  PROVE  IsFiniteSet(Kept) /\ Cardinality(Kept) \in Nat
<1>1. Len(records) \in Nat
  OBVIOUS
<1>2. IsFiniteSet(1 .. Len(records))
  BY <1>1, FS_Interval
<1>3. Kept \in SUBSET (1 .. Len(records))
  BY DEF Kept
<1>4. IsFiniteSet(Kept)
  BY <1>2, <1>3, FS_Subset
<1> QED BY <1>4, FS_CardinalityType

(* The kept records can be sorted, and sorting loses and doubles none.     *)
LEMMA SortedIs ==
  ASSUME records \in Seq(LogRecord)
  PROVE  /\ Sorted \in [1 .. Cardinality(Kept) -> Kept]
         /\ \A j, k \in 1 .. Cardinality(Kept) : j < k => Precedes(Sorted[j], Sorted[k])
         /\ \A j, k \in 1 .. Cardinality(Kept) : Sorted[j] = Sorted[k] => j = k
         /\ \A r \in Kept : \E k \in 1 .. Cardinality(Kept) : Sorted[k] = r
<1>1. PICK N \in Nat : N = Cardinality(Kept)
  BY KeptFinite
<1>2. IsFiniteSet(Kept) /\ IsFiniteSet(1 .. N) /\ Cardinality(1 .. N) = N
  <2>1. IsFiniteSet(1 .. N) /\ Cardinality(1 .. N) = N
    BY FS_Interval
  <2> QED BY <2>1, KeptFinite
<1> DEFINE Ahead(a) == {b \in Kept : Precedes(b, a)}
           pos == [a \in Kept |-> Cardinality(Ahead(a)) + 1]
<1>3. \A a : IsFiniteSet(Ahead(a)) /\ Cardinality(Ahead(a)) \in Nat
  <2> TAKE a
  <2>1. Ahead(a) \in SUBSET Kept
    OBVIOUS
  <2> HIDE DEF Ahead
  <2>2. IsFiniteSet(Ahead(a))
    BY <1>2, <2>1, FS_Subset
  <2> QED BY <2>2, FS_CardinalityType
<1>4. \A a \in Kept : Cardinality(Ahead(a)) < N
  <2> TAKE a \in Kept
  <2>1. Ahead(a) \in SUBSET Kept /\ Ahead(a) # Kept
    <3>1. a \notin Ahead(a)
      BY PrecedesOrders
    <3> QED BY <3>1
  <2> HIDE DEF Ahead
  <2>2. Cardinality(Ahead(a)) <= Cardinality(Kept)
        /\ (Cardinality(Kept) = Cardinality(Ahead(a)) => Kept = Ahead(a))
    BY <1>2, <2>1, FS_Subset
  <2> QED BY <1>1, <1>3, <2>1, <2>2
<1>5. \A a, b \in Kept : Precedes(a, b) => Cardinality(Ahead(a)) < Cardinality(Ahead(b))
  <2> SUFFICES ASSUME NEW a \in Kept, NEW b \in Kept, Precedes(a, b)
               PROVE  Cardinality(Ahead(a)) < Cardinality(Ahead(b))
    OBVIOUS
  <2>1. Ahead(a) \in SUBSET Ahead(b)
    BY PrecedesOrders
  <2>2. Ahead(a) # Ahead(b)
    <3>1. a \in Ahead(b) /\ a \notin Ahead(a)
      BY PrecedesOrders
    <3> QED BY <3>1
  <2> HIDE DEF Ahead
  <2>3. Cardinality(Ahead(a)) <= Cardinality(Ahead(b))
        /\ (Cardinality(Ahead(b)) = Cardinality(Ahead(a)) => Ahead(b) = Ahead(a))
    BY <1>3, <2>1, FS_Subset
  <2>4. Cardinality(Ahead(a)) \in Nat /\ Cardinality(Ahead(b)) \in Nat
    BY <1>3
  <2> QED BY <2>2, <2>3, <2>4
<1> HIDE DEF Ahead
<1>6. pos \in [Kept -> 1 .. N]
  <2>1. \A a \in Kept : Cardinality(Ahead(a)) + 1 \in 1 .. N
    BY <1>3, <1>4
  <2> QED BY <2>1
<1>7. \A a, b \in Kept : pos[a] < pos[b] => Precedes(a, b)
  <2> TAKE a, b \in Kept
  <2>1. Cardinality(Ahead(a)) \in Nat /\ Cardinality(Ahead(b)) \in Nat
    BY <1>3
  <2>2. Precedes(b, a) => Cardinality(Ahead(b)) < Cardinality(Ahead(a))
    BY <1>5
  <2>3. a = b \/ Precedes(a, b) \/ Precedes(b, a)
    BY PrecedesOrders
  <2>4. a = b => pos[a] = pos[b]
    OBVIOUS
  <2> QED BY <2>1, <2>2, <2>3, <2>4
<1>8. \A a, b \in Kept : pos[a] = pos[b] => a = b
  <2> TAKE a, b \in Kept
  <2>1. Cardinality(Ahead(a)) \in Nat /\ Cardinality(Ahead(b)) \in Nat
    BY <1>3
  <2>2. /\ Precedes(b, a) => Cardinality(Ahead(b)) < Cardinality(Ahead(a))
        /\ Precedes(a, b) => Cardinality(Ahead(a)) < Cardinality(Ahead(b))
    BY <1>5
  <2>3. a = b \/ Precedes(a, b) \/ Precedes(b, a)
    BY PrecedesOrders
  <2> QED BY <2>1, <2>2, <2>3
<1> HIDE DEF pos
<1>9. \A k \in 1 .. N : \E a \in Kept : pos[a] = k
  <2>1. pos \in Injection(Kept, 1 .. N)
    BY <1>6, <1>8, Fun_IsInj
  <2>2. Cardinality(Kept) = Cardinality(1 .. N)
    BY <1>1, <1>2
  <2>3. pos \in Surjection(Kept, 1 .. N)
    BY <1>2, <2>1, <2>2, FS_Injection
  <2> QED BY <2>3, Fun_SurjectionProperties
<1> DEFINE f == [k \in 1 .. N |-> CHOOSE a \in Kept : pos[a] = k]
<1>10. \A k \in 1 .. N : f[k] \in Kept /\ pos[f[k]] = k
  BY <1>9
<1>11. f \in [1 .. N -> Kept]
  BY <1>10
<1> HIDE DEF f
<1>12. \A j, k \in 1 .. N : j < k => Precedes(f[j], f[k])
  BY <1>7, <1>10
<1>13. /\ Sorted \in [1 .. N -> Kept]
       /\ \A j, k \in 1 .. N : j < k => Precedes(Sorted[j], Sorted[k])
  <2>1. f \in [1 .. Cardinality(Kept) -> Kept] /\ \A j, k \in DOMAIN f : j < k => Precedes(f[j], f[k])
    BY <1>1, <1>11, <1>12
  <2>2. /\ Sorted \in [1 .. Cardinality(Kept) -> Kept]
        /\ \A j, k \in DOMAIN Sorted : j < k => Precedes(Sorted[j], Sorted[k])
    BY <2>1, Zenon DEF Sorted
  <2> QED BY <1>1, <2>2
<1>14. \A j, k \in 1 .. N : Sorted[j] = Sorted[k] => j = k
  <2> TAKE j, k \in 1 .. N
  <2>1. Sorted[j] \in Kept /\ Sorted[k] \in Kept
    BY <1>13
  <2>2. j < k \/ j = k \/ k < j
    OBVIOUS
  <2> QED BY <1>13, <2>1, <2>2, PrecedesOrders
<1>15. \A r \in Kept : \E k \in 1 .. N : Sorted[k] = r
  <2>1. Sorted \in Injection(1 .. N, Kept)
    BY <1>13, <1>14, Fun_IsInj
  <2>2. Cardinality(1 .. N) = Cardinality(Kept)
    BY <1>1, <1>2
  <2>3. Sorted \in Surjection(1 .. N, Kept)
    BY <1>2, <2>1, <2>2, FS_Injection
  <2> QED BY <2>3, Fun_SurjectionProperties
<1> QED BY <1>1, <1>13, <1>14, <1>15

(* The pairs are those of the records measured, each once. *)
SamePairs ==
  \E f \in [1 .. Len(pairs) -> Elements(metric)] :
    /\ \A j, k \in 1 .. Len(pairs) : f[j] = f[k] => j = k
    /\ \A r \in Elements(metric) : \E k \in 1 .. Len(pairs) : f[k] = r
    /\ \A k \in 1 .. Len(pairs) : /\ pairs[k][1] = Event1(records[f[k]], metric)
                                  /\ pairs[k][2] = Event2(records[f[k]], metric)

(* Build sorts the pairs, and starts with an empty tree.                   *)
LEMMA BuildStep ==
  ASSUME records \in Seq(LogRecord), Build
  PROVE  /\ Ordered' /\ TreeCounts' /\ DepthsFound' /\ SamePairs'
         /\ pc' \in {"query", "aggregate"}
         /\ pc' = "aggregate" <=> left' = 0
<1>1. PICK N \in Nat : N = Cardinality(Kept)
  BY KeptFinite
<1>2. /\ pairs' = [k \in 1 .. N |-> Pair(Sorted[k])]
      /\ left' = N
      /\ bit' = [x \in 1 .. Cardinality({Pair(r)[2] : r \in Kept}) |-> 0]
      /\ depth' = [k \in 1 .. N |-> 0]
      /\ pc' = IF Kept = {} THEN "aggregate" ELSE "query"
      /\ records' = records /\ metric' = metric
  BY <1>1 DEF Build
<1>3. /\ Sorted \in [1 .. N -> Kept]
      /\ \A j, k \in 1 .. N : j < k => Precedes(Sorted[j], Sorted[k])
      /\ \A j, k \in 1 .. N : Sorted[j] = Sorted[k] => j = k
      /\ \A r \in Kept : \E k \in 1 .. N : Sorted[k] = r
  BY <1>1, SortedIs
<1>4. \A k \in 1 .. N : Pair(Sorted[k]) \in TimePairs
  BY <1>3, PrecedesOrders
<1>5. pairs' \in Seq(TimePairs) /\ Len(pairs') = N
  <2>1. pairs' \in [1 .. N -> TimePairs]
    BY <1>2, <1>4
  <2> QED BY ONLY <2>1
<1>6. \A j, k \in 1 .. N : j < k => pairs'[j][1] <= pairs'[k][1]
  <2> SUFFICES ASSUME NEW j \in 1 .. N, NEW k \in 1 .. N, j < k
               PROVE  pairs'[j][1] <= pairs'[k][1]
    OBVIOUS
  <2>1. Precedes(Sorted[j], Sorted[k])
    BY <1>3
  <2>2. pairs'[j] = Pair(Sorted[j]) /\ pairs'[k] = Pair(Sorted[k])
    BY <1>2
  <2>3. pairs'[j][1] \in Nat /\ pairs'[k][1] \in Nat
    BY <1>4, <2>2 DEF TimePairs
  <2>4. pairs'[j][1] < pairs'[k][1] \/ pairs'[j][1] = pairs'[k][1]
    BY <2>1, <2>2 DEF Precedes, Before
  <2> QED BY <2>3, <2>4
<1>7. Ordered'
  BY <1>5, <1>6 DEF Ordered
<1>8. E2Values' = {Pair(r)[2] : r \in Kept}
  BY <1>2, <1>3, <1>5 DEF E2Values
<1>9. /\ bit' \in Seq(Nat) /\ Len(bit') = Cardinality(E2Values')
      /\ \A x \in 1 .. Len(bit') : bit'[x] = 0
  <2>1. Cardinality(E2Values') \in Nat
    <3>1. (pairs \in Seq(TimePairs))' => (Cardinality(E2Values) \in Nat)'
      BY RankFacts, PTL
    <3> QED BY <1>5, <3>1
  <2>2. PICK M \in Nat : M = Cardinality(E2Values')
    BY <2>1
  <2>3. bit' = [x \in 1 .. M |-> 0]
    BY <1>2, <1>8, <2>2
  <2> QED BY <2>2, <2>3
<1>10. TreeCounts'
  <2>1. left' + 1 .. Len(pairs') = {}
    BY <1>2, <1>5
  <2>2. \A r, s : Swept(r, s)' = {}
    BY <2>1 DEF Swept
  <2>3. \A r, s : Cardinality(Swept(r, s)') = 0
    BY <2>2, FS_EmptySet
  <2>4. left' \in 0 .. Len(pairs')
    BY <1>2, <1>5
  <2>5. left' > 0 => \A m \in left' + 1 .. Len(pairs') : pairs'[m][1] > pairs'[left'][1]
    BY <2>1
  <2>6. (\A x \in 1 .. Len(bit) : bit[x] = Cardinality(Swept(x - LowBit(Len(bit))[x], x)))'
    BY <1>9, <2>3
  <2> QED BY <1>9, <2>4, <2>5, <2>6 DEF TreeCounts
<1>11. DepthsFound'
  <2>1. left' + 1 .. Len(pairs') = {}
    BY <1>2, <1>5
  <2>2. depth' \in Seq(Nat) /\ Len(depth') = N
    BY <1>2
  <2>3. pc' # "insert"
    BY <1>2
  <2> QED BY <1>5, <2>1, <2>2, <2>3 DEF DepthsFound
<1>12. SamePairs'
  <2>1. Kept = Elements(metric)'
    BY <1>2 DEF Kept, Elements
  <2>2. Sorted \in [1 .. Len(pairs') -> Elements(metric)']
    BY <1>3, <1>5, <2>1
  <2>3. \A k \in 1 .. Len(pairs') : /\ pairs'[k][1] = Event1(records'[Sorted[k]], metric')
                                    /\ pairs'[k][2] = Event2(records'[Sorted[k]], metric')
    BY <1>2, <1>5 DEF Pair
  <2>4. PICK f : f = Sorted
    OBVIOUS
  <2> QED BY <1>3, <1>5, <2>1, <2>2, <2>3, <2>4 DEF SamePairs
<1>13. Kept = {} <=> N = 0
  BY <1>1, KeptFinite, FS_EmptySet
<1> QED BY <1>2, <1>7, <1>10, <1>11, <1>12, <1>13

----------------------------------------------------------------------------
(* The statistics. *)

(* There are finitely many elements to measure.                            *)
LEMMA MeasuredFinite ==
  ASSUME records \in Seq(LogRecord), NEW m
  PROVE  IsFiniteSet(Elements(m))
         /\ \A k : IsFiniteSet(Overtakers(k, m)) /\ Cardinality(Overtakers(k, m)) \in Nat
<1>1. Len(records) \in Nat
  OBVIOUS
<1>2. IsFiniteSet(1 .. Len(records))
  BY <1>1, FS_Interval
<1>3. Elements(m) \in SUBSET (1 .. Len(records))
  BY DEF Elements
<1>4. IsFiniteSet(Elements(m))
  BY <1>2, <1>3, FS_Subset
<1>5. \A k : IsFiniteSet(Overtakers(k, m)) /\ Cardinality(Overtakers(k, m)) \in Nat
  <2> TAKE k
  <2>1. Overtakers(k, m) \in SUBSET Elements(m)
    BY DEF Overtakers
  <2>2. IsFiniteSet(Overtakers(k, m))
    BY <1>4, <2>1, FS_Subset
  <2> QED BY <2>2, FS_CardinalityType
<1> QED BY <1>4, <1>5

(* When every element has been swept, the statistics of the depths are the *)
(* metric.                                                                 *)
LEMMA Statistics ==
  ASSUME records \in Seq(LogRecord), Ordered, TreeCounts, DepthsFound, SamePairs, left = 0
  PROVE  [n         |-> Len(depth),
          sum       |-> SumFunction(depth),
          max_depth |-> Max({0} \cup Range(depth)),
          count     |-> Cardinality({k \in DOMAIN depth : depth[k] > 0})]
           = Definition(metric)
<1> DEFINE n  == Len(pairs)
           M  == Elements(metric)
           ov == [r \in M |-> Cardinality(Overtakers(r, metric))]
<1>1. PICK f \in [1 .. n -> M] :
    /\ \A j, k \in 1 .. n : f[j] = f[k] => j = k
    /\ \A r \in M : \E k \in 1 .. n : f[k] = r
    /\ \A k \in 1 .. n : /\ pairs[k][1] = Event1(records[f[k]], metric)
                         /\ pairs[k][2] = Event2(records[f[k]], metric)
  BY DEF SamePairs
<1>2. n \in Nat /\ IsFiniteSet(1 .. n) /\ Cardinality(1 .. n) = n
  <2>1. PICK N \in Nat : N = n
    BY DEF Ordered
  <2>2. IsFiniteSet(1 .. N) /\ Cardinality(1 .. N) = N
    BY FS_Interval
  <2> QED BY <2>1, <2>2
<1>3. /\ depth \in [1 .. n -> Nat] /\ Len(depth) = n
      /\ \A k \in 1 .. n : depth[k] = Cardinality(Overtook(k))
  <2>1. left + 1 .. Len(pairs) = 1 .. n
    BY <1>2
  <2>2. depth \in Seq(Nat) /\ Len(depth) = n /\ \A k \in 1 .. n : depth[k] = Cardinality(Overtook(k))
    BY <2>1 DEF DepthsFound
  <2> QED BY <2>2
<1> HIDE DEF n
<1>4. IsFiniteSet(M) /\ \A r : IsFiniteSet(Overtakers(r, metric)) /\ Cardinality(Overtakers(r, metric)) \in Nat
  BY MeasuredFinite
<1>5. Cardinality(M) = n
  <2> HIDE DEF M
  <2>1. IsFiniteSet(M) /\ Cardinality(M) = Cardinality(1 .. n)
    BY <1>1, <1>2, SameCount
  <2> QED BY <1>2, <2>1
<1>6. \A k \in 1 .. n : ov[f[k]] = depth[k]
  <2> TAKE k \in 1 .. n
  <2> DEFINE g == [o \in Overtook(k) |-> f[o]]
             V == Overtakers(f[k], metric)
  <2>1. Overtook(k) \subseteq 1 .. n
    BY DEF Overtook, n
  <2>2. \A o \in 1 .. n : o \in Overtook(k) <=> f[o] \in V
    BY <1>1 DEF Overtook, Overtakers, n
  <2>3. IsFiniteSet(Overtook(k))
    <3>1. Overtook(k) \in SUBSET (1 .. n)
      BY <2>1
    <3> QED BY <1>2, <3>1, FS_Subset
  <2>4. g \in [Overtook(k) -> V]
    <3> HIDE DEF V
    <3> QED BY <2>1, <2>2
  <2>5. \A a, b \in Overtook(k) : g[a] = g[b] => a = b
    BY <1>1, <2>1
  <2>6. \A v \in V : \E o \in Overtook(k) : g[o] = v
    <3> TAKE v \in V
    <3>1. v \in M
      BY DEF Overtakers
    <3>2. PICK o \in 1 .. n : f[o] = v
      BY <1>1, <3>1
    <3> QED BY <2>2, <3>2
  <2> HIDE DEF g, V
  <2>7. IsFiniteSet(V) /\ Cardinality(V) = Cardinality(Overtook(k))
    <3>1. PICK S : S = Overtook(k)
      OBVIOUS
    <3>2. /\ IsFiniteSet(S) /\ g \in [S -> V]
          /\ \A a, b \in S : g[a] = g[b] => a = b
          /\ \A v \in V : \E o \in S : g[o] = v
      BY <2>3, <2>4, <2>5, <2>6, <3>1
    <3>3. IsFiniteSet(V) /\ Cardinality(V) = Cardinality(S)
      BY ONLY <3>2, SameCount
    <3> QED BY <3>1, <3>3
  <2>8. ov[f[k]] = Cardinality(V)
    BY <1>1 DEF V
  <2> QED BY <1>3, <2>7, <2>8
<1>7. ov \in [M -> Nat]
  BY <1>4
<1>8. \A r \in M : Overtakers(r, metric) # {} <=> ov[r] > 0
  <2> TAKE r \in M
  <2>1. Cardinality(Overtakers(r, metric)) = 0 <=> Overtakers(r, metric) = {}
    BY <1>4, FS_EmptySet
  <2>2. Cardinality(Overtakers(r, metric)) \in Nat
    BY <1>4
  <2> QED BY <2>1, <2>2
<1>9. Definition(metric) =
        [n         |-> Cardinality(M),
         sum       |-> SumFunction(ov),
         max_depth |-> Max({0} \cup Range(ov)),
         count     |-> Cardinality({k \in M : Overtakers(k, metric) # {}})]
  BY Zenon DEF Definition
<1>10. {k \in M : Overtakers(k, metric) # {}} = {r \in M : ov[r] > 0}
  BY <1>8
<1> HIDE DEF ov, M
<1>11. Range(depth) = Range(ov)
  <2>1. DOMAIN depth = 1 .. n /\ DOMAIN ov = M
    BY <1>3, <1>7
  <2> QED BY <1>1, <1>6, <2>1 DEF Range
<1>12. SumFunction(depth) = SumFunction(ov)
  <2> DEFINE A == Area(depth, 1 .. n)
             B == Area(ov, M)
             g == [p \in A |-> <<f[p[1]], p[2]>>]
  <2>1. IsFiniteSet(A) /\ SumFunction(depth) = Cardinality(A)
    BY <1>2, <1>3, SumIsArea
  <2>2. SumFunction(ov) = Cardinality(B)
    BY <1>4, <1>7, SumIsArea
  <2>3. \A p \in A : p = <<p[1], p[2]>> /\ p[1] \in 1 .. n /\ p[2] \in Nat /\ 1 <= p[2] /\ p[2] <= depth[p[1]]
    BY DEF Area
  <2>4. \A p \in B : p = <<p[1], p[2]>> /\ p[1] \in M /\ p[2] \in Nat /\ 1 <= p[2] /\ p[2] <= ov[p[1]]
    BY DEF Area
  <2>5. \A p \in A : <<f[p[1]], p[2]>> \in B
    <3> TAKE p \in A
    <3>1. f[p[1]] \in M /\ ov[f[p[1]]] = depth[p[1]]
      BY <1>1, <1>6, <2>3
    <3> QED BY <2>3, <3>1 DEF Area
  <2>6. \A p, q \in A : g[p] = g[q] => p = q
    <3> TAKE p, q \in A
    <3> HAVE g[p] = g[q]
    <3>1. f[p[1]] = f[q[1]] /\ p[2] = q[2]
      <4> HIDE DEF A
      <4> QED OBVIOUS
    <3>2. p[1] \in 1 .. n /\ q[1] \in 1 .. n
      BY <2>3
    <3>3. p[1] = q[1]
      BY <1>1, <3>1, <3>2
    <3>4. p = <<p[1], p[2]>> /\ q = <<q[1], q[2]>>
      BY <2>3
    <3> QED BY ONLY <3>1, <3>3, <3>4
  <2>7. \A t \in B : \E p \in A : g[p] = t
    <3> TAKE t \in B
    <3>1. t = <<t[1], t[2]>> /\ t[1] \in M /\ t[2] \in Nat /\ 1 <= t[2] /\ t[2] <= ov[t[1]]
      BY <2>4
    <3>2. PICK k \in 1 .. n : f[k] = t[1]
      BY <1>1, <3>1
    <3>3. <<k, t[2]>> \in A
      <4>1. depth[k] = ov[t[1]]
        BY <1>6, <3>2
      <4> QED BY <3>1, <4>1 DEF Area
    <3>4. g[<<k, t[2]>>] = <<f[k], t[2]>>
      <4> HIDE DEF A
      <4> QED BY <3>3
    <3>5. g[<<k, t[2]>>] = t
      BY ONLY <3>1, <3>2, <3>4
    <3> HIDE DEF A, g
    <3> QED BY <3>3, <3>5
  <2> HIDE DEF A, B
  <2>8. g \in [A -> B]
    BY <2>5
  <2> HIDE DEF g
  <2>9. IsFiniteSet(B) /\ Cardinality(B) = Cardinality(A)
    BY <2>1, <2>6, <2>7, <2>8, SameCount
  <2> QED BY <2>1, <2>2, <2>9
<1>13. Cardinality({k \in DOMAIN depth : depth[k] > 0}) = Cardinality({r \in M : ov[r] > 0})
  <2> DEFINE A == {k \in 1 .. n : depth[k] > 0}
             B == {r \in M : ov[r] > 0}
             g == [k \in A |-> f[k]]
  <2>1. IsFiniteSet(A)
    <3>1. A \in SUBSET (1 .. n)
      OBVIOUS
    <3> HIDE DEF A
    <3> QED BY <1>2, <3>1, FS_Subset
  <2>2. g \in [A -> B]
    BY <1>1, <1>6
  <2>3. \A a, b \in A : g[a] = g[b] => a = b
    BY <1>1
  <2>4. \A t \in B : \E k \in A : g[k] = t
    BY <1>1, <1>6
  <2>5. DOMAIN depth = 1 .. n
    BY <1>3
  <2> HIDE DEF A, B, g
  <2>6. IsFiniteSet(B) /\ Cardinality(B) = Cardinality(A)
    BY <2>1, <2>2, <2>3, <2>4, SameCount
  <2> QED BY <2>5, <2>6 DEF A, B
<1> QED BY <1>3, <1>5, <1>9, <1>10, <1>11, <1>12, <1>13

(* Without records to measure, the metric is empty. *)
LEMMA NothingMeasured ==
  ASSUME records = <<>>
  PROVE  \A m : Definition(m) = NoMetrics
<1> SUFFICES ASSUME NEW m PROVE Definition(m) = NoMetrics
  OBVIOUS
<1>1. Elements(m) = {}
  BY DEF Elements
<1> DEFINE ov == [k \in {} |-> Cardinality(Overtakers(k, m))]
<1>2. SumFunction(ov) = 0
  <2>1. ov \in [{} -> Nat] /\ IsFiniteSet({})
    BY FS_EmptySet
  <2> HIDE DEF ov
  <2>2. SumFunction(ov) = Cardinality(Area(ov, {}))
    BY <2>1, SumIsArea
  <2>3. Area(ov, {}) = {}
    BY DEF Area
  <2> QED BY <2>2, <2>3, FS_EmptySet
<1>3. Max({0} \cup Range(ov)) = 0
  <2>1. {0} \cup Range(ov) = {0}
    BY DEF Range
  <2>2. Max({0}) = 0
    BY DEF Max
  <2> QED BY <2>1, <2>2
<1>4. Definition(m) = [n |-> Cardinality({}), sum |-> SumFunction(ov),
                       max_depth |-> Max({0} \cup Range(ov)), count |-> Cardinality({})]
  <2>1. {k \in {} : Overtakers(k, m) # {}} = {}
    OBVIOUS
  <2>2. Definition(m) = [n |-> Cardinality({}), sum |-> SumFunction(ov),
                         max_depth |-> Max({0} \cup Range(ov)),
                         count |-> Cardinality({k \in {} : Overtakers(k, m) # {}})]
    BY <1>1, Zenon DEF Definition
  <2> QED BY <2>1, <2>2
<1> HIDE DEF ov
<1> QED BY <1>2, <1>3, <1>4, FS_EmptySet DEF NoMetrics

----------------------------------------------------------------------------
(* The invariant of the whole measurement. *)

Metrics      == {"enqueue", "dequeue"}
MetricPlaces == {"join", "build", "query", "insert", "aggregate", "done"}

(* Nobody writes records once the threads are joined. *)
Joining ==
  /\ records \in Seq(LogRecord)
  /\ log \in [Workers -> Seq(LogRecord)]
  /\ pc \in MetricPlaces
  /\ metric \in Metrics
  /\ pc # "join" => joined = Workers

Sweeping ==
  pc \in {"query", "insert", "aggregate"} =>
    Ordered /\ SamePairs /\ TreeCounts /\ DepthsFound /\ (pc = "aggregate" <=> left = 0)

Reported ==
  /\ report = [m \in Metrics |-> report[m]]
  /\ pc = "join" => metric = "enqueue" /\ \A m \in Metrics : report[m] = NoMetrics
  /\ metric = "dequeue" => report["enqueue"] = Definition("enqueue")
  /\ pc = "done" => \A m \in Metrics : report[m] = Definition(m)

MetricsInv == Joining /\ Sweeping /\ Reported

(* The metrics depend on nothing but the records.                          *)
LEMMA DefinitionStays ==
  ASSUME records' = records
  PROVE  \A m : Definition(m)' = Definition(m)
<1>1. \A m : Elements(m)' = Elements(m)
  BY DEF Elements
<1>2. \A k, m : Overtakers(k, m)' = Overtakers(k, m)
  BY <1>1 DEF Overtakers
<1> QED BY <1>1, <1>2 DEF Definition

(* The invariant holds at first.                                           *)
LEMMA MetricsStart == MetricsInit => MetricsInv
<1> SUFFICES ASSUME MetricsInit PROVE MetricsInv
  OBVIOUS
<1>1. Joining
  BY OMAssumption DEF MetricsInit, Joining, MetricPlaces, Metrics
<1>2. Sweeping
  BY DEF MetricsInit, Sweeping
<1>4. report = [m \in Metrics |-> NoMetrics] /\ pc = "join" /\ metric = "enqueue"
  BY DEF MetricsInit, Metrics
<1>5. Reported
  BY <1>4 DEF Reported
<1> QED BY <1>1, <1>2, <1>5 DEF MetricsInv

(* A worker only commits while the main thread waits for it.               *)
LEMMA CommitKeeps ==
  ASSUME MetricsInv, NEW t \in Workers, Commit(t)
  PROVE  MetricsInv'
<1>1. /\ t \notin joined /\ records' = records \o log[t] /\ log' = [log EXCEPT ![t] = <<>>]
      /\ pc' = pc /\ metric' = metric /\ report' = report
      /\ joined' = joined \cup {t}
  BY DEF Commit, sweep
<1>2. pc = "join"
  BY <1>1 DEF MetricsInv, Joining
<1>3. Joining'
  <2>1. records' \in Seq(LogRecord)
    <3>1. records \in Seq(LogRecord) /\ log[t] \in Seq(LogRecord)
      BY DEF MetricsInv, Joining
    <3>2. records \o log[t] \in Seq(LogRecord)
      BY <3>1, ConcatProperties
    <3> QED BY <1>1, <3>2
  <2>2. log' \in [Workers -> Seq(LogRecord)]
    <3>1. <<>> \in Seq(LogRecord)
      OBVIOUS
    <3> QED BY <1>1, <3>1 DEF MetricsInv, Joining
  <2> QED BY <1>1, <1>2, <2>1, <2>2 DEF MetricsInv, Joining
<1>4. Sweeping'
  BY <1>1, <1>2 DEF Sweeping
<1>5. Reported'
  BY <1>1, <1>2 DEF MetricsInv, Reported
<1> QED BY <1>3, <1>4, <1>5 DEF MetricsInv

(* The warm-up leaves records to measure, or none and an empty report.     *)
LEMMA TrimKeeps ==
  ASSUME MetricsInv, Trim
  PROVE  MetricsInv'
<1> DEFINE cutoff == Min({Warmup * Cardinality(Workers), Len(records)})
<1>1. /\ pc = "join" /\ joined = Workers
      /\ records' = SubSeq(records, cutoff + 1, Len(records))
      /\ pc' = IF cutoff = Len(records) THEN "done" ELSE "build"
      /\ log' = log /\ joined' = joined /\ metric' = metric /\ report' = report
  BY DEF Trim, sweep
<1>2. records \in Seq(LogRecord) /\ Len(records) \in Nat
  BY DEF MetricsInv, Joining
<1>3. cutoff \in Nat /\ cutoff <= Len(records)
  <2>1. Cardinality(Workers) \in Nat
    BY OMAssumption, FS_CardinalityType
  <2>2. PICK a, b : a = Warmup * Cardinality(Workers) /\ b = Len(records) /\ a \in Nat /\ b \in Nat
    BY <1>2, <2>1, OMAssumption
  <2>3. \E x \in {a, b} : \A y \in {a, b} : x <= y
    <3>1. a <= b \/ b <= a
      BY <2>2
    <3> QED BY <2>2, <3>1
  <2>4. Min({a, b}) \in {a, b} /\ \A y \in {a, b} : Min({a, b}) <= y
    BY <2>3, Zenon DEF Min
  <2>5. Min({a, b}) \in Nat /\ Min({a, b}) <= b
    BY <2>2, <2>4
  <2> QED BY <2>2, <2>5
<1> HIDE DEF cutoff
<1>4. records' \in Seq(LogRecord)
  <2>1. \A k \in cutoff + 1 .. Len(records) : records[k] \in LogRecord
    BY <1>2, <1>3
  <2> QED BY <1>1, <1>2, <1>3, <2>1
<1>5. cutoff = Len(records) => records' = <<>>
  BY <1>1, <1>2, <1>3
<1>6. Joining'
  BY <1>1, <1>4 DEF MetricsInv, Joining, MetricPlaces
<1>7. Sweeping'
  BY <1>1 DEF Sweeping
<1>8. Reported'
  <2>1. pc' = "done" => \A m \in Metrics : report'[m] = Definition(m)'
    <3> HAVE pc' = "done"
    <3>1. records' = <<>>
      BY <1>1, <1>5
    <3>2. \A m : Definition(m)' = NoMetrics
      <4>1. (records = <<>>)' => \A m : (Definition(m) = NoMetrics)'
        <5>1. (records = <<>>)' => (\A m : Definition(m) = NoMetrics)'
          BY NothingMeasured, PTL
        <5> QED BY <5>1
      <4> QED BY <3>1, <4>1
    <3> QED BY <1>1, <3>2 DEF MetricsInv, Reported
  <2> QED BY <1>1, <2>1 DEF MetricsInv, Reported
<1> QED BY <1>6, <1>7, <1>8 DEF MetricsInv

(* Build keeps the invariant.                                              *)
LEMMA BuildKeeps ==
  ASSUME MetricsInv, Build
  PROVE  MetricsInv'
<1>1. /\ pc = "build" /\ pc' \in {"query", "aggregate"}
      /\ log' = log /\ joined' = joined /\ metric' = metric /\ report' = report
      /\ records' = records
  BY DEF Build
<1>2. records \in Seq(LogRecord)
  BY DEF MetricsInv, Joining
<1>3. Joining'
  BY <1>1 DEF MetricsInv, Joining, MetricPlaces
<1>4. Sweeping'
  BY <1>2, BuildStep DEF Sweeping
<1>5. Reported'
  BY <1>1, DefinitionStays DEF MetricsInv, Reported
<1> QED BY <1>3, <1>4, <1>5 DEF MetricsInv

(* A round keeps the pairs those of the records.                           *)
LEMMA SamePairsStay ==
  ASSUME pairs' = pairs, records' = records, metric' = metric
  PROVE  SamePairs => SamePairs'
<1>1. Elements(metric)' = Elements(metric)
  BY DEF Elements
<1> QED BY <1>1 DEF SamePairs

(* Query keeps the invariant.                                              *)
LEMMA QueryKeeps ==
  ASSUME MetricsInv, Query
  PROVE  MetricsInv'
<1>1. /\ pc = "query" /\ pc' = "insert" /\ left' = left /\ pairs' = pairs
      /\ log' = log /\ joined' = joined /\ metric' = metric /\ report' = report
      /\ records' = records
  BY DEF Query
<1>2. Ordered /\ SamePairs /\ TreeCounts /\ DepthsFound /\ left > 0
  <2>1. Ordered /\ SamePairs /\ TreeCounts /\ DepthsFound /\ left # 0
    BY <1>1 DEF MetricsInv, Sweeping
  <2>2. left \in 0 .. Len(pairs) /\ Len(pairs) \in Nat
    BY <2>1 DEF TreeCounts, Ordered
  <2> QED BY <2>1, <2>2
<1>3. Joining'
  BY <1>1 DEF MetricsInv, Joining, MetricPlaces
<1>4. Sweeping'
  <2>1. TreeCounts' /\ DepthsFound'
    BY <1>2, QueryStep
  <2>2. Ordered' /\ SamePairs'
    BY <1>1, <1>2, PairsStay, SamePairsStay
  <2> QED BY <1>1, <1>2, <2>1, <2>2 DEF Sweeping
<1>5. Reported'
  BY <1>1, DefinitionStays DEF MetricsInv, Reported
<1> QED BY <1>3, <1>4, <1>5 DEF MetricsInv

(* InsertGroup keeps the invariant.                                        *)
LEMMA InsertKeeps ==
  ASSUME MetricsInv, InsertGroup
  PROVE  MetricsInv'
<1>1. /\ pc = "insert" /\ pairs' = pairs
      /\ log' = log /\ joined' = joined /\ metric' = metric /\ report' = report
      /\ records' = records
  BY DEF InsertGroup
<1>2. Ordered /\ SamePairs /\ TreeCounts /\ DepthsFound /\ left > 0
  <2>1. Ordered /\ SamePairs /\ TreeCounts /\ DepthsFound /\ left # 0
    BY <1>1 DEF MetricsInv, Sweeping
  <2>2. left \in 0 .. Len(pairs) /\ Len(pairs) \in Nat
    BY <2>1 DEF TreeCounts, Ordered
  <2> QED BY <2>1, <2>2
<1>3. TreeCounts' /\ DepthsFound' /\ (pc' = "aggregate" <=> left' = 0) /\ pc' \in {"query", "aggregate"}
  BY <1>2, InsertGroupStep
<1>4. Joining'
  BY <1>1, <1>3 DEF MetricsInv, Joining, MetricPlaces
<1>5. Sweeping'
  <2>1. Ordered' /\ SamePairs'
    BY <1>1, <1>2, PairsStay, SamePairsStay
  <2> QED BY <1>3, <2>1 DEF Sweeping
<1>6. Reported'
  BY <1>1, <1>3, DefinitionStays DEF MetricsInv, Reported
<1> QED BY <1>4, <1>5, <1>6 DEF MetricsInv

(* Aggregate reports the metric as it is defined, and the other metric is  *)
(* computed next or has been.                                              *)
LEMMA AggregateKeeps ==
  ASSUME MetricsInv, Aggregate
  PROVE  MetricsInv'
<1> DEFINE found == [n         |-> Len(depth),
                     sum       |-> SumFunction(depth),
                     max_depth |-> Max({0} \cup Range(depth)),
                     count     |-> Cardinality({k \in DOMAIN depth : depth[k] > 0})]
<1>1. /\ pc = "aggregate" /\ metric' = "dequeue"
      /\ pc' = IF metric = "enqueue" THEN "build" ELSE "done"
      /\ report' = [report EXCEPT ![metric] = found]
      /\ log' = log /\ joined' = joined /\ records' = records
  BY DEF Aggregate
<1>2. Ordered /\ SamePairs /\ TreeCounts /\ DepthsFound /\ left = 0 /\ records \in Seq(LogRecord)
  BY <1>1 DEF MetricsInv, Sweeping, Joining
<1>3. found = Definition(metric)
  BY <1>2, Statistics
<1> HIDE DEF found
<1>4. Joining'
  BY <1>1 DEF MetricsInv, Joining, MetricPlaces, Metrics
<1>5. Sweeping'
  BY <1>1 DEF Sweeping
<1>6. \A m : Definition(m)' = Definition(m)
  BY <1>1, DefinitionStays
<1>7. metric \in Metrics /\ report = [m \in Metrics |-> report[m]]
      /\ (metric = "dequeue" => report["enqueue"] = Definition("enqueue"))
  BY DEF MetricsInv, Joining, Reported
<1>9. report' = [m \in Metrics |-> report'[m]] /\ report'[metric] = Definition(metric)
      /\ \A m \in Metrics : m # metric => report'[m] = report[m]
  BY <1>1, <1>3, <1>7
<1>10. report'["enqueue"] = Definition("enqueue")
  BY <1>7, <1>9 DEF Metrics
<1>11. pc' = "done" => \A m \in Metrics : report'[m] = Definition(m)
  BY <1>1, <1>7, <1>9, <1>10 DEF Metrics
<1>12. Reported'
  BY <1>1, <1>6, <1>9, <1>10, <1>11 DEF Reported, Metrics
<1> QED BY <1>4, <1>5, <1>12 DEF MetricsInv

(* A step of nobody keeps the invariant.                                   *)
LEMMA StutterKeeps ==
  ASSUME MetricsInv, UNCHANGED metricsVars
  PROVE  MetricsInv'
<1>1. /\ log' = log /\ joined' = joined /\ records' = records /\ pc' = pc /\ metric' = metric
      /\ pairs' = pairs /\ left' = left /\ bit' = bit /\ depth' = depth /\ report' = report
  BY DEF metricsVars, sweep
<1>2. Joining'
  BY <1>1 DEF MetricsInv, Joining
<1>3. Reported'
  BY <1>1, DefinitionStays DEF MetricsInv, Reported
<1>4. TreeCounts => TreeCounts'
  <2>1. E2Values' = E2Values /\ \A r, s : Swept(r, s)' = Swept(r, s)
    BY <1>1, PairsStay DEF Swept
  <2> QED BY <1>1, <2>1 DEF TreeCounts
<1>5. DepthsFound => DepthsFound'
  <2>1. Group' = Group /\ \A k : Overtook(k)' = Overtook(k)
    BY <1>1, PairsStay DEF Group
  <2> QED BY <1>1, <2>1 DEF DepthsFound
<1>6. Sweeping'
  BY <1>1, <1>4, <1>5, PairsStay, SamePairsStay DEF MetricsInv, Sweeping
<1> QED BY <1>2, <1>3, <1>6 DEF MetricsInv

(* The invariant of the measurement: the sweep holds the pairs of the      *)
(* records, its tree counts the elements swept, the depths found are those *)
(* of the definition.                                                      *)
THEOREM MetricsInvariant == MetricsSpec => []MetricsInv
<1>1. MetricsInv /\ [MetricsNext]_metricsVars => MetricsInv'
  BY CommitKeeps, TrimKeeps, BuildKeeps, QueryKeeps, InsertKeeps, AggregateKeeps, StutterKeeps
     DEF MetricsNext
<1> QED BY <1>1, MetricsStart, PTL DEF MetricsSpec

(* The Fenwick tree counts exactly the elements already swept, for every   *)
(* number of records: the query of compute_overtake_metrics asks among     *)
(* elements with a strictly later first timestamp, and no other.           *)
THEOREM SweepHoldsLater == MetricsSpec => []TreeHoldsLaterElements
<1>1. MetricsInv => TreeHoldsLaterElements
  <2> SUFFICES ASSUME MetricsInv, pc \in {"query", "insert"}
               PROVE  /\ \A r \in 0 .. Len(bit) :
                            SumPrefix(r) = Cardinality({m \in left + 1 .. Len(pairs) : Rank(m) <= r})
                      /\ \A m \in left + 1 .. Len(pairs) : pairs[m][1] > pairs[left][1]
    BY DEF TreeHoldsLaterElements
  <2>1. Ordered /\ TreeCounts /\ left # 0
    BY DEF MetricsInv, Sweeping
  <2>2. left > 0 /\ left \in Nat /\ Len(pairs) \in Nat
    BY <2>1 DEF TreeCounts, Ordered
  <2>3. \A r \in 0 .. Len(bit) : SumPrefix(r) = Cardinality(Swept(0, r))
    BY <2>1, TreeAnswers
  <2>4. \A m \in left + 1 .. Len(pairs) : 0 < Rank(m)
    <3>1. Cardinality(E2Values) \in Nat /\ \A k \in 1 .. Len(pairs) : Rank(k) \in 1 .. Cardinality(E2Values)
      BY <2>1, RankFacts DEF Ordered
    <3> QED BY <2>2, <3>1
  <2>5. \A r : Swept(0, r) = {m \in left + 1 .. Len(pairs) : Rank(m) <= r}
    BY <2>4 DEF Swept
  <2> QED BY <2>1, <2>2, <2>3, <2>5 DEF TreeCounts
<1> QED BY <1>1, MetricsInvariant, PTL

(* The sweep computes the overtake metrics as they are defined, whatever   *)
(* the records and the order in which the threads handed them in.          *)
THEOREM MetricsAreCorrect == MetricsSpec => []MetricsCorrect
<1>1. MetricsInv => MetricsCorrect
  BY DEF MetricsInv, Reported, MetricsCorrect, Metrics
<1> QED BY <1>1, MetricsInvariant, PTL
=============================================================================
