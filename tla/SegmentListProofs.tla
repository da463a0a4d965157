------------------------- MODULE SegmentListProofs -------------------------
(***************************************************************************)
(* Why the hazard pointers of FAAArrayQueue and LinkedRingQueue suffice:   *)
(* the invariant of the list of segments that they share, and what each    *)
(* kind of step does to it.  There may be any number of threads, addresses *)
(* and items.                                                              *)
(*                                                                         *)
(* A segment is linked, then retired when head leaves it, then deleted, and*)
(* its address used again.  The argument rests on two things the code does *)
(* not say.  tail is at the last segment or at the one before it, so only  *)
(* the segment head left last can still be tail's; and a dequeuer's own    *)
(* hazard pointer is still on the segment it retires, so that this segment *)
(* is never deleted by the call that retires it, but by a later one, when  *)
(* tail has left it too.                                                   *)
(*                                                                         *)
(* The second part is about the linearizability monitor: which             *)
(* configurations it reaches when a call starts, takes effect or returns.  *)
(* There is no induction over operators here, so that what it takes any    *)
(* number of steps to reach is argued with the least number of steps that  *)
(* reach it.                                                               *)
(***************************************************************************)
EXTENDS SegmentList, SequenceTheorems, WellFoundedInduction,
        FiniteSetTheorems, TLAPS

(* The places in both queues where a thread relies on its hazard pointer   *)
(* on seg, the old tail or the old head: to follow it, or for a CAS.       *)
HoldTail == {"enqDraw", "enqCell", "enqFull", "enqNext", "enqSeg", "enqNew",
             "enqLink", "enqHelp", "enqSwing"}
HoldHead == {"deqDraw", "deqCell", "deqIndex", "deqLast", "deqFix",
             "deqDrained", "deqSeg", "deqNext", "deqAgain", "deqAdvance"}
Hold     == HoldTail \cup HoldHead

SlotOf(at) == IF at \in HoldTail THEN kHpTail ELSE kHpHead

Holds(t, s) == me[t].at \in Hold /\ me[t].seg = s

(* t has made s, which nobody else knows of. *)
Owning == {"enqLink", "enqDelete"}
Owns(t, s) == me[t].at \in Owning /\ me[t].other = s

(* other is the successor of seg, which t is about to make an end. *)
Advancing == {"enqHelp", "enqSwing", "deqAgain", "deqAdvance"}

InRetired(s) == \E u \in Threads : HP!Listed(u, s)

(* Made, and not retired. *)
Live(s) == s \in Segs /\ heap[s] = "used" /\ ~ InRetired(s)

Places == Hold \cup Owning \cup
          {"idle", "enqLoad", "enqPublish", "enqRecheck", "enqClear",
           "deqLoad", "deqPublish", "deqRecheck", "deqClear", "retire"}

Locals == [at    : Places,
           seg   : Segs \cup {Null},
           other : Segs \cup {Null},
           item  : Items \cup {NoItem},
           idx   : Nat,
           last  : Nat]

Types ==
  /\ head \in Segs /\ tail \in Segs
  /\ next    \in [Segs -> Segs \cup {Null}]
  /\ hp      \in [Threads -> [0 .. 1 -> Segs \cup {Null}]]
  /\ retired \in [Threads -> Seq(Segs)]
  /\ heap    \in [Segs -> {"new", "used", "freed"}]
  /\ scan    \in [Threads -> [at : Nat, tid : 0 .. NumThreads, ihp : 0 .. 1]]
  /\ me      \in [Threads -> Locals]
  /\ issued  \in 0 .. MaxItems

EndsAlive == Live(head) /\ heap[tail] = "used"

(* The successor of a segment of the list is in the list, has no other     *)
(* predecessor, and is nobody's own any more.                              *)
LinkInv ==
  \A a \in Segs : Live(a) /\ next[a] # Null =>
    /\ Live(next[a]) /\ next[a] # head
    /\ \A u \in Threads : ~ Owns(u, next[a])
    /\ \A b \in Segs : Live(b) /\ next[b] = next[a] => b = a

(* tail is at the last segment or the one before; if head has passed it,   *)
(* it has only just done so.                                               *)
TailInv ==
  /\ next[tail] # Null => next[next[tail]] = Null
  /\ InRetired(tail) => head = next[tail]
  /\ \A u \in Threads : \A k \in 1 .. Len(retired[u]) :
       retired[u][k] = tail => k = Len(retired[u])

RetiredLinked == \A a \in Segs : InRetired(a) => next[a] # Null

ListInv == EndsAlive /\ LinkInv /\ TailInv /\ RetiredLinked

(* A segment that t has made and not linked is known to t alone. *)
Private(t, s) ==
  /\ Live(s) /\ next[s] = Null
  /\ s # head /\ s # tail
  /\ \A u \in Threads : ~ Holds(u, s)
  /\ \A u \in Threads \ {t} : ~ Owns(u, s)

OwnerInv(t) == me[t].at \in Owning => Private(t, me[t].other)

Follows(m) == m.at \in Advancing => m.other = next[m.seg] /\ m.other # Null

(* What t compares tail or head with is what it has announced. *)
Announces(t, m) ==
  /\ m.at = "enqRecheck" \/ (m.at = "enqLoad" /\ m.seg # Null) =>
       hp[t][kHpTail] = m.seg
  /\ m.at = "deqRecheck" \/ (m.at = "deqLoad" /\ m.seg # Null) =>
       hp[t][kHpHead] = m.seg
  /\ m.at = "idle" => m.seg = Null

(* What t holds is announced and not deleted; and what an enqueuer holds   *)
(* is still tail's while it is the last segment.                           *)
HolderInv(t) ==
  LET m == me[t] IN
  /\ m.at \in Hold => /\ m.seg \in Segs /\ heap[m.seg] = "used"
                      /\ hp[t][SlotOf(m.at)] = m.seg
  /\ m.at \in HoldTail /\ next[m.seg] = Null => tail = m.seg
  /\ Follows(m)
  /\ Announces(t, m)

(* Has the scan of u passed hazard pointer k of v? *)
Passed(u, v, k) ==
  v < scan[u].tid \/ (v = scan[u].tid /\ k > scan[u].ihp)

(* u will meet its own hazard pointer on the segment it has just retired;  *)
(* and whoever holds the segment it looks for has not been passed.         *)
ScanInv(u) ==
  LET size == Len(retired[u])
      at   == scan[u].at
  IN
  IF me[u].at = "retire"
  THEN /\ size > 0 /\ hp[u][kHpHead] = retired[u][size]
       /\ at \in 1 .. (size + 1)
       /\ at = size => ~ Passed(u, u, kHpHead)
       /\ at < size => \A v \in Threads :
            Holds(v, retired[u][at]) => ~ Passed(u, v, SlotOf(me[v].at))
  ELSE scan[u] = HP!NoScan

SegInv ==
  /\ Types /\ ListInv /\ HP!RetiredApart
  /\ \A t \in Threads : OwnerInv(t) /\ HolderInv(t) /\ ScanInv(t)

----------------------------------------------------------------------------
(* Facts. *)

LEMMA Sizes ==
  /\ NumThreads \in Nat /\ NumSegs \in Nat /\ Threads = 0 .. (NumThreads - 1)
  /\ Segs = 0 .. (NumSegs - 1) /\ Null \notin Segs
  /\ 0 \in Segs /\ MaxItems \in Nat
  /\ \A t \in Threads : t \in Nat /\ t < NumThreads
BY SegmentListAssumption DEF Threads, Segs, Null

LEMMA NoScanFact ==
  /\ HP!NoScan = [at |-> 1, tid |-> 0, ihp |-> 1]
  /\ HP!NoScan \in [at : Nat, tid : 0 .. NumThreads, ihp : 0 .. 1]
BY Sizes DEF HP!NoScan

LEMMA NextLoadFact ==
  ASSUME NEW s \in [at : Nat, tid : 0 .. NumThreads, ihp : 0 .. 1]
  PROVE  HP!NextLoad(s) = IF s.ihp > 0
                          THEN [at |-> s.at, tid |-> s.tid, ihp |-> s.ihp - 1]
                          ELSE [at |-> s.at, tid |-> s.tid + 1, ihp |-> 1]
<1>1. s.at \in Nat /\ s.tid \in 0 .. NumThreads /\ s.ihp \in 0 .. 1
  OBVIOUS
<1>2. [s EXCEPT !.ihp = s.ihp - 1]
        = [at |-> s.at, tid |-> s.tid, ihp |-> s.ihp - 1]
  OBVIOUS
<1>3. [s EXCEPT !.ihp = 1, !.tid = s.tid + 1]
        = [at |-> s.at, tid |-> s.tid + 1, ihp |-> 1]
  <2> DEFINE w == [s EXCEPT !.ihp = 1, !.tid = s.tid + 1]
  <2>1. w \in [at : Nat, tid : Nat, ihp : Nat]
    <3>1. s \in [at : Nat, tid : Nat, ihp : Nat] /\ s.tid + 1 \in Nat
      BY <1>1, Sizes
    <3> QED BY <3>1
  <2>2. w.at = s.at /\ w.tid = s.tid + 1 /\ w.ihp = 1
    OBVIOUS
  <2> HIDE DEF w
  <2>3. w = [at |-> s.at, tid |-> s.tid + 1, ihp |-> 1]
    BY <2>1, <2>2
  <2> QED BY <2>3 DEF w
<1>4. HP!NextLoad(s) = IF s.ihp > 0 THEN [s EXCEPT !.ihp = s.ihp - 1]
                       ELSE [s EXCEPT !.ihp = 1, !.tid = s.tid + 1]
  BY DEF HP!NextLoad
<1> QED BY <1>2, <1>3, <1>4

LEMMA SlotFact ==
  /\ \A at : SlotOf(at) \in 0 .. 1
  /\ \A at : at \in HoldTail => SlotOf(at) = 0
  /\ \A at : at \in HoldHead => SlotOf(at) = 1 /\ at \notin HoldTail
BY DEF SlotOf, HoldTail, HoldHead, kHpTail, kHpHead

LEMMA LocalsAt ==
  ASSUME NEW m \in Locals, NEW there \in Places
  PROVE  /\ [m EXCEPT !.at = there] \in Locals
         /\ [m EXCEPT !.at = there].at = there
         /\ [m EXCEPT !.at = there].seg = m.seg
         /\ [m EXCEPT !.at = there].other = m.other
BY DEF Locals

LEMMA RetiredFacts ==
  ASSUME Types, HP!RetiredApart, NEW u \in Threads,
         NEW k \in 1 .. Len(retired[u])
  PROVE  /\ retired[u][k] \in Segs /\ heap[retired[u][k]] = "used"
         /\ \A j \in 1 .. Len(retired[u]) :
              retired[u][j] = retired[u][k] => j = k
         /\ \A v \in Threads : v # u => ~ HP!Listed(v, retired[u][k])
<1>1. retired[u] \in Seq(Segs)
  BY DEF Types
<1>2. retired[u][k] \in Segs
  BY <1>1
<1> QED BY <1>2 DEF HP!RetiredApart, HP!Threads, Threads

(* What is listed as retired has been made and not been deleted. *)
LEMMA RetiredUsed ==
  ASSUME HP!RetiredApart, NEW s, InRetired(s)
  PROVE  heap[s] = "used"
BY DEF HP!RetiredApart, InRetired, HP!Listed, HP!Threads, Threads

(* Where me' comes from when only t moves. *)
LEMMA MeFacts ==
  ASSUME Types, NEW t \in Threads, NEW m \in Locals,
         me' = [me EXCEPT ![t] = m]
  PROVE  /\ me' \in [Threads -> Locals] /\ me'[t] = m
         /\ \A u \in Threads : u # t => me'[u] = me[u]
BY DEF Types

(* A call, or a step of t that leaves all but its locals alone.  It may    *)
(* keep its hold of a segment, or gain one by finding what it has announced*)
(* at an end of the list.                                                  *)
LEMMA StepQuiet ==
  ASSUME NEW t \in Threads, NEW m \in Locals, SegInv,
         me' = [me EXCEPT ![t] = m], issued' \in 0 .. MaxItems,
         UNCHANGED <<list, memory>>,
         me[t].at # "retire", m.at # "retire",
         m.at \in Owning => Owns(t, m.other),
         m.at \in Hold =>
           \/ me[t].at \in Hold /\ m.seg = me[t].seg
              /\ SlotOf(m.at) = SlotOf(me[t].at)
           \/ hp[t][SlotOf(m.at)] = m.seg
              /\ m.seg = IF m.at \in HoldTail THEN tail ELSE head,
         Follows(m), Announces(t, m)
  PROVE  SegInv'
<1>t. Types
  BY DEF SegInv
<1>l. ListInv /\ HP!RetiredApart
  BY DEF SegInv
<1>i. \A u \in Threads : OwnerInv(u) /\ HolderInv(u) /\ ScanInv(u)
  BY DEF SegInv
<1>u. /\ head' = head /\ tail' = tail /\ next' = next
      /\ hp' = hp /\ retired' = retired /\ heap' = heap /\ scan' = scan
  BY DEF list, memory
<1>m. /\ me' \in [Threads -> Locals] /\ me'[t] = m
      /\ \A u \in Threads : u # t => me'[u] = me[u]
  BY <1>t, MeFacts
<1>o. \A u \in Threads : \A s : Owns(u, s)' => Owns(u, s)
  BY <1>m DEF Owns
<1>r. /\ \A s : InRetired(s)' = InRetired(s)
      /\ \A s : Live(s)' = Live(s)
  BY <1>u DEF InRetired, Live, HP!Listed
<1>h. \A u \in Threads : \A s : Holds(u, s)' =>
        \/ Holds(u, s) /\ SlotOf(me'[u].at) = SlotOf(me[u].at)
        \/ (s = tail \/ s = head) /\ u = t
  BY <1>m DEF Holds
<1>1. Types'
  BY <1>t, <1>m, <1>u DEF Types
<1>2. ListInv'
  <2>1. EndsAlive' /\ RetiredLinked'
    BY <1>l, <1>u, <1>r DEF ListInv, EndsAlive, RetiredLinked
  <2>2. LinkInv'
    BY <1>l, <1>u, <1>r, <1>o DEF ListInv, LinkInv
  <2>3. TailInv'
    BY <1>l, <1>u, <1>r DEF ListInv, TailInv
  <2> QED BY <2>1, <2>2, <2>3 DEF ListInv
<1>3. HP!RetiredApart'
  BY <1>l, <1>u DEF HP!RetiredApart, HP!Listed
<1>4. ASSUME NEW u \in Threads PROVE OwnerInv(u)'
  <2> SUFFICES ASSUME me'[u].at \in Owning
               PROVE  Private(u, me[u].other)'
    BY DEF OwnerInv
  <2>1. me[u].at \in Owning /\ me[u].other = me'[u].other
    BY <1>m DEF Owns
  <2>2. Private(u, me[u].other)
    BY <1>i, <2>1 DEF OwnerInv
  <2> QED BY <2>1, <2>2, <1>u, <1>r, <1>h, <1>o DEF Private
<1>5. ASSUME NEW u \in Threads PROVE HolderInv(u)'
  <2>1. CASE u # t
    <3>1. me'[u] = me[u] /\ HolderInv(u)
      BY <2>1, <1>m, <1>i
    <3> QED BY <3>1, <1>u DEF HolderInv, Follows, Announces
  <2>2. CASE u = t
    <3>1. HolderInv(t) /\ EndsAlive
      BY <1>i, <1>l DEF ListInv
    <3>2. m.at \in Hold => /\ m.seg \in Segs /\ heap[m.seg] = "used"
                           /\ hp[t][SlotOf(m.at)] = m.seg
      BY <3>1, <1>t DEF HolderInv, EndsAlive, Live, Types
    <3>3. m.at \in HoldTail /\ next[m.seg] = Null => tail = m.seg
      <4> SUFFICES ASSUME m.at \in HoldTail, next[m.seg] = Null, tail # m.seg
                   PROVE  FALSE
        OBVIOUS
      <4>1. me[t].at \in Hold /\ m.seg = me[t].seg
            /\ SlotOf(m.at) = SlotOf(me[t].at)
        BY DEF Hold
      <4>2. me[t].at \in HoldTail
        BY <4>1, SlotFact DEF Hold
      <4> QED BY <4>1, <4>2, <3>1 DEF HolderInv
    <3> QED BY <2>2, <3>2, <3>3, <1>u, <1>m DEF HolderInv, Follows, Announces
  <2> QED BY <2>1, <2>2
<1>6. ASSUME NEW u \in Threads PROVE ScanInv(u)'
  <2>1. ScanInv(u) /\ (me'[u].at = "retire" <=> me[u].at = "retire")
    BY <1>i, <1>m
  <2>2. CASE me[u].at # "retire"
    BY <2>1, <2>2, <1>u DEF ScanInv
  <2>3. CASE me[u].at = "retire"
    <3>1. ASSUME scan[u].at < Len(retired[u]), NEW v \in Threads,
                 Holds(v, retired[u][scan[u].at])'
          PROVE  ~ Passed(u, v, SlotOf(me'[v].at))
      <4>1. Len(retired[u]) \in Nat /\ scan[u].at \in 1 .. Len(retired[u])
        BY <1>t, <2>1, <2>3, <3>1 DEF ScanInv, Types
      <4>2. retired[u][scan[u].at] # tail
        BY <4>1, <3>1, <1>l DEF ListInv, TailInv
      <4>3. retired[u][scan[u].at] # head
        BY <4>1, <1>l DEF ListInv, EndsAlive, Live, InRetired, HP!Listed
      <4>4. /\ Holds(v, retired[u][scan[u].at])
            /\ SlotOf(me'[v].at) = SlotOf(me[v].at)
        BY <3>1, <1>h, <1>u, <4>2, <4>3
      <4> QED BY <4>4, <2>1, <2>3, <3>1 DEF ScanInv
    <3> QED BY <3>1, <2>1, <2>3, <1>u DEF ScanInv, Passed
  <2> QED BY <2>2, <2>3
<1> QED BY <1>1, <1>2, <1>3, <1>4, <1>5, <1>6 DEF SegInv

(* t lets go of what it held and had made: what that says of its locals.   *)
LEMMA LetGo ==
  ASSUME SegInv, NEW t \in Threads, NEW m \in Locals,
         me' = [me EXCEPT ![t] = m], m.at \notin Hold \cup Owning
  PROVE  /\ \A u \in Threads : \A s : Owns(u, s)' => u # t /\ Owns(u, s)
         /\ \A u \in Threads : \A s : Holds(u, s)' => u # t /\ Holds(u, s)
         /\ OwnerInv(t)'
         /\ m.at \notin Hold \cup HoldTail \cup HoldHead \cup Owning \cup Advancing
<1>1. /\ me' \in [Threads -> Locals] /\ me'[t] = m
      /\ \A u \in Threads : u # t => me'[u] = me[u]
  BY MeFacts DEF SegInv
<1>2. m.at \notin HoldTail \cup HoldHead \cup Owning \cup Advancing
  BY DEF Hold, HoldTail, HoldHead, Owning, Advancing
<1> QED BY <1>1, <1>2 DEF Owns, Holds, OwnerInv

(* The list is what it was, and nothing has been made or retired. *)
LEMMA ListUnmoved ==
  ASSUME SegInv, head' = head, tail' = tail, next' = next,
         retired' = retired, heap' = heap,
         \A u \in Threads : \A s : Owns(u, s)' => Owns(u, s)
  PROVE  /\ ListInv' /\ HP!RetiredApart'
         /\ \A s : Live(s)' = Live(s)
<1>l. ListInv /\ HP!RetiredApart
  BY DEF SegInv
<1>r. /\ \A s : InRetired(s)' = InRetired(s)
      /\ \A s : Live(s)' = Live(s)
  BY DEF InRetired, Live, HP!Listed
<1>1. EndsAlive' /\ RetiredLinked'
  BY <1>l, <1>r DEF ListInv, EndsAlive, RetiredLinked
<1>2. LinkInv'
  BY <1>l, <1>r DEF ListInv, LinkInv
<1>3. TailInv'
  BY <1>l, <1>r DEF ListInv, TailInv
<1>4. HP!RetiredApart'
  BY <1>l DEF HP!RetiredApart, HP!Listed
<1> QED BY <1>1, <1>2, <1>3, <1>4, <1>r DEF ListInv

(* A hazard pointer is set or cleared by a thread that holds nothing. *)
LEMMA StepPublish ==
  ASSUME NEW t \in Threads, NEW m \in Locals, SegInv,
         NEW k \in 0 .. 1, NEW o \in Segs \cup {Null}, HP!Protect(t, k, o),
         me' = [me EXCEPT ![t] = m], issued' = issued,
         UNCHANGED <<list, retired, heap, scan>>,
         me[t].at \notin Hold \cup {"retire"},
         m.at \notin Hold \cup Owning \cup {"retire"}, Announces(t, m)'
  PROVE  SegInv'
<1>t. Types
  BY DEF SegInv
<1>i. \A u \in Threads : OwnerInv(u) /\ HolderInv(u) /\ ScanInv(u)
  BY DEF SegInv
<1>u. /\ head' = head /\ tail' = tail /\ next' = next
      /\ retired' = retired /\ heap' = heap /\ scan' = scan
  BY DEF list
<1>p. /\ hp' \in [Threads -> [0 .. 1 -> Segs \cup {Null}]]
      /\ \A u \in Threads : u # t => hp'[u] = hp[u]
  <2>1. hp' = [hp EXCEPT ![t] = [hp[t] EXCEPT ![k] = o]]
    BY DEF HP!Protect
  <2>2. [hp[t] EXCEPT ![k] = o] \in [0 .. 1 -> Segs \cup {Null}]
    BY <1>t DEF Types
  <2> QED BY <2>1, <2>2, <1>t DEF Types
<1>m. /\ me' \in [Threads -> Locals] /\ me'[t] = m
      /\ \A u \in Threads : u # t => me'[u] = me[u]
  BY <1>t, MeFacts
<1>g. /\ \A u \in Threads : \A s : Owns(u, s)' => u # t /\ Owns(u, s)
      /\ \A u \in Threads : \A s : Holds(u, s)' => u # t /\ Holds(u, s)
      /\ OwnerInv(t)'
      /\ m.at \notin Hold \cup HoldTail \cup HoldHead \cup Owning \cup Advancing
  BY LetGo
<1>1. Types'
  BY <1>t, <1>m, <1>u, <1>p DEF Types
<1>2. ListInv' /\ HP!RetiredApart' /\ \A s : Live(s)' = Live(s)
  BY <1>u, <1>g, ListUnmoved
<1>4. ASSUME NEW u \in Threads PROVE OwnerInv(u)'
  BY <1>i, <1>u, <1>g, <1>m, <1>2 DEF OwnerInv, Private
<1>5. ASSUME NEW u \in Threads PROVE HolderInv(u)'
  <2>1. CASE u # t
    <3>1. me'[u] = me[u] /\ HolderInv(u) /\ hp'[u] = hp[u]
      BY <2>1, <1>m, <1>i, <1>p
    <3> QED BY <3>1, <1>u DEF HolderInv, Follows, Announces
  <2>2. CASE u = t
    BY <2>2, <1>m, <1>g DEF HolderInv, Follows, Announces
  <2> QED BY <2>1, <2>2
<1>6. ASSUME NEW u \in Threads PROVE ScanInv(u)'
  <2>1. ScanInv(u) /\ (me'[u].at = "retire" <=> me[u].at = "retire")
    BY <1>i, <1>m
  <2>2. CASE me[u].at # "retire"
    BY <2>1, <2>2, <1>u DEF ScanInv
  <2>3. CASE me[u].at = "retire"
    <3>1. u # t /\ hp'[u] = hp[u]
      BY <2>3, <1>p
    <3>2. \A v \in Threads : \A s : Holds(v, s)' => Holds(v, s) /\ me'[v] = me[v]
      BY <1>g, <1>m
    <3> QED BY <3>1, <3>2, <2>1, <2>3, <1>u DEF ScanInv, Passed
  <2> QED BY <2>2, <2>3
<1> QED BY <1>1, <1>2, <1>4, <1>5, <1>6 DEF SegInv

(* An end of the list is advanced by t, which lets go of the segment: the  *)
(* CAS on tail.                                                            *)
LEMMA StepCasTail ==
  ASSUME NEW t \in Threads, NEW m \in Locals, SegInv, CasTail(t),
         me' = [me EXCEPT ![t] = m], issued' = issued,
         UNCHANGED <<head, next, memory>>,
         me[t].at \in Advancing \cap HoldTail,
         m.at \notin Hold \cup Owning \cup {"retire"}, Announces(t, m)
  PROVE  SegInv'
<1>t. Types
  BY DEF SegInv
<1>l. EndsAlive /\ LinkInv /\ TailInv /\ RetiredLinked /\ HP!RetiredApart
  BY DEF SegInv, ListInv
<1>i. \A u \in Threads : OwnerInv(u) /\ HolderInv(u) /\ ScanInv(u)
  BY DEF SegInv
<1>u. /\ head' = head /\ next' = next
      /\ hp' = hp /\ retired' = retired /\ heap' = heap /\ scan' = scan
  BY DEF memory
<1>m. /\ me' \in [Threads -> Locals] /\ me'[t] = m
      /\ \A u \in Threads : u # t => me'[u] = me[u]
  BY <1>t, MeFacts
<1>g. /\ \A u \in Threads : \A s : Owns(u, s)' => u # t /\ Owns(u, s)
      /\ \A u \in Threads : \A s : Holds(u, s)' => u # t /\ Holds(u, s)
      /\ OwnerInv(t)'
      /\ m.at \notin Hold \cup HoldTail \cup HoldHead \cup Owning \cup Advancing
  BY LetGo
<1>f. me[t].other = next[me[t].seg] /\ me[t].other # Null /\ me[t].seg \in Segs
      /\ heap[me[t].seg] = "used"
  BY <1>i DEF HolderInv, Follows, Hold
<1>c. CASE tail' = tail
  <2>1. Types'
    BY <1>t, <1>m, <1>u, <1>c DEF Types
  <2>2. ListInv' /\ HP!RetiredApart' /\ \A s : Live(s)' = Live(s)
    BY <1>u, <1>g, <1>c, ListUnmoved
  <2>3. ASSUME NEW u \in Threads PROVE OwnerInv(u)'
    BY <1>i, <1>u, <1>g, <1>m, <1>c, <2>2 DEF OwnerInv, Private
  <2>4. ASSUME NEW u \in Threads PROVE HolderInv(u)'
    BY <1>i, <1>u, <1>c, <1>m, <1>g DEF HolderInv, Follows, Announces
  <2>5. ASSUME NEW u \in Threads PROVE ScanInv(u)'
    <3>1. me'[u].at = "retire" <=> me[u].at = "retire"
      BY <1>m DEF HoldTail
    <3>2. \A v \in Threads : \A s : Holds(v, s)' => Holds(v, s) /\ me'[v] = me[v]
      BY <1>g, <1>m
    <3> QED BY <1>i, <3>1, <3>2, <1>u DEF ScanInv, Passed
  <2> QED BY <2>1, <2>2, <2>3, <2>4, <2>5 DEF SegInv
<1>d. CASE tail' # tail
  <2>1. tail = me[t].seg /\ tail' = next[tail] /\ next[tail] # Null
        /\ next[tail] \in Segs
    BY <1>d, <1>f, <1>t DEF CasTail, Types
  <2>2. Live(next[tail])
    <3>1. CASE InRetired(tail)
      BY <3>1, <2>1, <1>l DEF TailInv, EndsAlive
    <3>2. CASE ~ InRetired(tail)
      BY <3>2, <2>1, <1>l, <1>t DEF LinkInv, Live, EndsAlive, Types
    <3> QED BY <3>1, <3>2
  <2>3. \A u \in Threads : ~ Owns(u, next[tail])
    <3>1. CASE InRetired(tail)
      BY <3>1, <1>l, <1>i DEF TailInv, OwnerInv, Private, Owns
    <3>2. CASE ~ InRetired(tail)
      BY <3>2, <2>1, <1>l, <1>t DEF LinkInv, Live, EndsAlive, Types
    <3> QED BY <3>1, <3>2
  <2>4. next[next[tail]] = Null
    BY <2>1, <1>l DEF TailInv
  <2>r. /\ \A s : InRetired(s)' = InRetired(s)
        /\ \A s : Live(s)' = Live(s)
    BY <1>u DEF InRetired, Live, HP!Listed
  <2>5. Types'
    BY <1>t, <1>m, <1>u, <2>1 DEF Types
  <2>6. ListInv'
    <3>1. EndsAlive' /\ RetiredLinked'
      BY <1>l, <1>u, <2>r, <2>1, <2>2 DEF EndsAlive, RetiredLinked, Live
    <3>2. LinkInv'
      BY <1>l, <1>u, <2>r, <1>g DEF LinkInv
    <3>3. TailInv'
      <4>1. ~ InRetired(next[tail])
        BY <2>2 DEF Live
      <4>2. \A u \in Threads : \A k \in 1 .. Len(retired[u]) :
              retired[u][k] # next[tail]
        BY <4>1 DEF InRetired, HP!Listed
      <4> QED BY <4>1, <4>2, <2>1, <2>4, <2>r, <1>u DEF TailInv
    <3> QED BY <3>1, <3>2, <3>3 DEF ListInv
  <2>7. HP!RetiredApart'
    BY <1>l, <1>u DEF HP!RetiredApart, HP!Listed
  <2>8. ASSUME NEW u \in Threads PROVE OwnerInv(u)'
    BY <1>i, <1>u, <1>g, <1>m, <2>1, <2>3, <2>r DEF OwnerInv, Private, Owns
  <2>9. ASSUME NEW u \in Threads PROVE HolderInv(u)'
    BY <1>i, <1>u, <1>m, <1>g, <2>1 DEF HolderInv, Follows, Announces
  <2>10. ASSUME NEW u \in Threads PROVE ScanInv(u)'
    <3>1. me'[u].at = "retire" <=> me[u].at = "retire"
      BY <1>m DEF HoldTail
    <3>2. \A v \in Threads : \A s : Holds(v, s)' => Holds(v, s) /\ me'[v] = me[v]
      BY <1>g, <1>m
    <3> QED BY <1>i, <3>1, <3>2, <1>u DEF ScanInv, Passed
  <2> QED BY <2>5, <2>6, <2>7, <2>8, <2>9, <2>10 DEF SegInv
<1> QED BY <1>c, <1>d

(* A segment is made; t keeps its hold of the last one. *)
LEMMA StepAllocate ==
  ASSUME NEW t \in Threads, NEW m \in Locals, SegInv,
         NEW s \in Segs, Allocate(s),
         me' = [me EXCEPT ![t] = m], issued' = issued,
         me[t].at \in HoldTail \ (Owning \cup Advancing),
         m.at = "enqLink", m.other = s, m.seg = me[t].seg
  PROVE  SegInv'
<1>t. Types
  BY DEF SegInv
<1>l. EndsAlive /\ LinkInv /\ TailInv /\ RetiredLinked /\ HP!RetiredApart
  BY DEF SegInv, ListInv
<1>i. \A u \in Threads : OwnerInv(u) /\ HolderInv(u) /\ ScanInv(u)
  BY DEF SegInv
<1>n. Null \notin Segs
  BY Sizes
<1>u. /\ head' = head /\ tail' = tail /\ hp' = hp
      /\ retired' = retired /\ scan' = scan
  BY DEF Allocate
<1>h. /\ heap[s] # "used" /\ heap'[s] = "used" /\ next'[s] = Null
      /\ \A a \in Segs : a # s => heap'[a] = heap[a] /\ next'[a] = next[a]
  BY <1>t DEF Allocate, HP!MayAllocate, Types
<1>m. /\ me' \in [Threads -> Locals] /\ me'[t] = m
      /\ \A u \in Threads : u # t => me'[u] = me[u]
  BY <1>t, MeFacts
<1>a. m.at \in HoldTail /\ m.at \in Hold /\ m.at \in Owning /\ m.at \notin Advancing
      /\ me[t].at \in Hold /\ me[t].at \notin Owning
  BY DEF Hold, HoldTail, Owning, Advancing
<1>r. \A a : InRetired(a)' = InRetired(a)
  BY <1>u DEF InRetired, HP!Listed
<1>s. ~ InRetired(s)
  BY <1>h, <1>l, RetiredUsed
<1>v. \A a : Live(a)' <=> Live(a) \/ a = s
  BY <1>r, <1>s, <1>h DEF Live
<1>w. ~ Live(s)
  BY <1>h DEF Live
<1>hold. \A u \in Threads : \A a : Holds(u, a)' =>
           Holds(u, a) /\ SlotOf(me'[u].at) = SlotOf(me[u].at)
  BY <1>m, <1>a, SlotFact DEF Holds
<1>o. \A u \in Threads : \A a : Owns(u, a)' <=> Owns(u, a) \/ (u = t /\ a = s)
  BY <1>m, <1>a DEF Owns
<1>no. \A u \in Threads : ~ Owns(u, s) /\ ~ Holds(u, s)
  BY <1>i, <1>w, <1>h DEF OwnerInv, Private, Owns, Holds, HolderInv
<1>1. Types'
  <2>1. heap' \in [Segs -> {"new", "used", "freed"}]
        /\ next' \in [Segs -> Segs \cup {Null}]
    BY <1>t DEF Types, Allocate
  <2> QED BY <2>1, <1>t, <1>m, <1>u DEF Types
<1>2. ListInv'
  <2>1. EndsAlive'
    BY <1>l, <1>u, <1>v, <1>h, <1>t DEF EndsAlive, Types
  <2>2. RetiredLinked'
    BY <1>l, <1>r, <1>s, <1>h DEF RetiredLinked
  <2>3. LinkInv'
    <3> SUFFICES ASSUME NEW a \in Segs, NEW c, Live(a)', next'[a] = c, c # Null
                 PROVE  /\ Live(c)' /\ c # head
                        /\ \A u \in Threads : ~ Owns(u, c)'
                        /\ \A b \in Segs : Live(b)' /\ next'[b] = c => b = a
      BY <1>u DEF LinkInv
    <3>1. a # s /\ Live(a) /\ next'[a] = next[a] /\ next[a] = c
      BY <1>h, <1>v
    <3>2. /\ Live(next[a]) /\ next[a] # head
          /\ \A u \in Threads : ~ Owns(u, next[a])
          /\ \A b \in Segs : Live(b) /\ next[b] = next[a] => b = a
      BY <3>1, <1>l DEF LinkInv
    <3>3. next[a] # s
      BY <3>2, <1>w
    <3>4. \A b \in Segs : Live(b)' /\ next'[b] = next[a] => b = a
      BY <3>1, <3>2, <1>h, <1>v
    <3> QED BY <3>1, <3>2, <3>3, <3>4, <1>v, <1>o
  <2>4. TailInv'
    <3>1. tail # s /\ tail \in Segs
      BY <1>l, <1>h, <1>t DEF EndsAlive, Types
    <3>2. next'[tail] = next[tail]
      BY <3>1, <1>h
    <3>3. next[tail] # Null => next'[next[tail]] = Null
      BY <1>l, <1>h, <3>1, <1>t DEF TailInv, Types
    <3> QED BY <3>2, <3>3, <1>l, <1>u, <1>r DEF TailInv
  <2> QED BY <2>1, <2>2, <2>3, <2>4 DEF ListInv
<1>3. HP!RetiredApart'
  <2>1. \A u \in Threads : \A k \in 1 .. Len(retired[u]) :
          /\ heap'[retired[u][k]] = "used"
          /\ \A j \in 1 .. Len(retired[u]) :
               retired[u][j] = retired[u][k] => j = k
          /\ \A v \in Threads : v # u => ~ HP!Listed(v, retired[u][k])
    BY <1>l, <1>h, <1>t, RetiredFacts
  <2>2. \A v : \A x : HP!Listed(v, x)' = HP!Listed(v, x)
    BY <1>u DEF HP!Listed
  <2> QED BY <2>1, <2>2, <1>u DEF HP!RetiredApart, HP!Threads, Threads
<1>4. ASSUME NEW u \in Threads PROVE OwnerInv(u)'
  <2>1. CASE u = t
    <3>1. s # head /\ s # tail
      BY <1>h, <1>l DEF EndsAlive, Live
    <3>2. Private(t, s)'
      BY <3>1, <1>u, <1>v, <1>h, <1>hold, <1>o, <1>no DEF Private
    <3> QED BY <2>1, <3>2, <1>m DEF OwnerInv, Private
  <2>2. CASE u # t
    <3>1. ASSUME me[u].at \in Owning PROVE Private(u, me[u].other)'
      <4>1. Private(u, me[u].other)
        BY <3>1, <1>i DEF OwnerInv
      <4>2. me[u].other # s /\ me[u].other \in Segs
        BY <4>1, <1>w DEF Private, Live
      <4> QED BY <2>2, <4>1, <4>2, <1>m, <1>u, <1>v, <1>h, <1>hold, <1>o DEF Private
    <3> QED BY <2>2, <3>1, <1>m DEF OwnerInv, Private
  <2> QED BY <2>1, <2>2
<1>5. ASSUME NEW u \in Threads PROVE HolderInv(u)'
  <2>1. CASE u # t
    <3>1. me'[u] = me[u] /\ HolderInv(u)
      BY <2>1, <1>m, <1>i
    <3>2. me[u].at \in Hold => me[u].seg \in Segs \ {s}
      BY <3>1, <1>h DEF HolderInv
    <3>3. me[u].at \in HoldTail \cup Advancing => me[u].at \in Hold
      BY DEF Hold, HoldTail, HoldHead, Advancing
    <3> QED BY <3>1, <3>2, <3>3, <1>u, <1>h DEF HolderInv, Follows, Announces
  <2>2. CASE u = t
    <3>1. HolderInv(t)
      BY <1>i
    <3>2. me[t].seg \in Segs /\ heap[me[t].seg] = "used"
          /\ hp[t][0] = me[t].seg /\ me[t].seg # s
      BY <3>1, <1>a, <1>h, SlotFact DEF HolderInv
    <3> QED BY <2>2, <3>1, <3>2, <1>u, <1>m, <1>a, <1>h, SlotFact
            DEF HolderInv, Follows, Announces
  <2> QED BY <2>1, <2>2
<1>6. ASSUME NEW u \in Threads PROVE ScanInv(u)'
  <2>1. me'[u].at = "retire" <=> me[u].at = "retire"
    BY <1>m, <1>a DEF HoldTail
  <2> QED BY <1>i, <2>1, <1>hold, <1>u DEF ScanInv, Passed
<1> QED BY <1>1, <1>2, <1>3, <1>4, <1>5, <1>6 DEF SegInv

(* The CAS on next by which t's own segment becomes the last one. *)
LEMMA StepLink ==
  ASSUME NEW t \in Threads, SegInv, me[t].at = "enqLink",
         next[me[t].seg] = Null,
         next' = [next EXCEPT ![me[t].seg] = me[t].other],
         me' = [me EXCEPT ![t] = [me[t] EXCEPT !.at = "enqSwing"]],
         issued' = issued, UNCHANGED <<head, tail, memory>>
  PROVE  SegInv'
<1> DEFINE a == me[t].seg
           o == me[t].other
           m == [me[t] EXCEPT !.at = "enqSwing"]
<1>t. Types
  BY DEF SegInv
<1>l. EndsAlive /\ LinkInv /\ TailInv /\ RetiredLinked /\ HP!RetiredApart
  BY DEF SegInv, ListInv
<1>i. \A u \in Threads : OwnerInv(u) /\ HolderInv(u) /\ ScanInv(u)
  BY DEF SegInv
<1>n. Null \notin Segs
  BY Sizes
<1>u. /\ head' = head /\ tail' = tail /\ hp' = hp
      /\ retired' = retired /\ scan' = scan /\ heap' = heap
  BY DEF memory
<1>ml. m \in Locals /\ m.at = "enqSwing" /\ m.seg = a /\ m.other = o
  <2>1. me[t] \in Locals
    BY <1>t DEF Types
  <2>2. "enqSwing" \in Places
    BY DEF Places, Hold, HoldTail
  <2> HIDE DEF a, o, m
  <2>3. m \in Locals
    BY <2>1, <2>2, LocalsAt DEF m
  <2>4. m.at = "enqSwing" /\ m.seg = a /\ m.other = o
    BY <2>1, <2>2, LocalsAt DEF m, a, o
  <2> QED BY <2>3, <2>4
<1>m. /\ me' \in [Threads -> Locals] /\ me'[t] = m
      /\ \A u \in Threads : u # t => me'[u] = me[u]
  BY <1>t, <1>ml, MeFacts
<1>p. Private(t, o) /\ o \in Segs
  BY <1>i DEF OwnerInv, Private, Owning, Live
<1>a. a = tail /\ a \in Segs /\ hp[t][0] = a /\ heap[a] = "used"
  BY <1>i, SlotFact DEF HolderInv, HoldTail, Hold
<1>al. Live(a) /\ ~ InRetired(a) /\ a # o
  BY <1>a, <1>l, <1>p DEF RetiredLinked, Live, Private
<1>x. next'[a] = o /\ \A b \in Segs : b # a => next'[b] = next[b]
  BY <1>a, <1>t DEF Types
<1>r. /\ \A s : InRetired(s)' = InRetired(s)
      /\ \A s : Live(s)' = Live(s)
  BY <1>u DEF InRetired, Live, HP!Listed
<1>hold. \A u \in Threads : \A s : Holds(u, s)' =>
           Holds(u, s) /\ SlotOf(me'[u].at) = SlotOf(me[u].at)
  BY <1>m, <1>ml, SlotFact DEF Holds, Hold, HoldTail
<1>o. \A u \in Threads : \A s : Owns(u, s)' => Owns(u, s) /\ u # t
  BY <1>m, <1>ml DEF Owns, Owning
<1> HIDE DEF a, o, m
<1>1. Types'
  <2>1. next' \in [Segs -> Segs \cup {Null}]
    BY <1>t, <1>p DEF Types, o
  <2> QED BY <2>1, <1>t, <1>m, <1>u DEF Types
<1>2. ListInv'
  <2>1. EndsAlive' /\ RetiredLinked'
    BY <1>l, <1>u, <1>r, <1>x, <1>n, <1>p DEF EndsAlive, RetiredLinked
  <2>2. LinkInv'
    <3> SUFFICES ASSUME NEW b \in Segs, NEW d, Live(b), next'[b] = d, d # Null
                 PROVE  /\ Live(d) /\ d # head
                        /\ \A u \in Threads : ~ Owns(u, d)'
                        /\ \A c \in Segs : Live(c) /\ next'[c] = d => c = b
      BY <1>u, <1>r DEF LinkInv
    <3>1. \A c \in Segs : Live(c) /\ next'[c] = o => c = a
      <4> SUFFICES ASSUME NEW c \in Segs, Live(c), next'[c] = o, c # a
                   PROVE  FALSE
        OBVIOUS
      <4>1. next[c] = o /\ next[c] # Null
        BY <1>x, <1>p, <1>n
      <4>2. Owns(t, o)
        BY DEF Owns, Owning, o
      <4> QED BY <4>1, <4>2, <1>l DEF LinkInv
    <3>2. CASE b = a
      BY <3>1, <3>2, <1>x, <1>p, <1>o DEF Private
    <3>3. CASE b # a
      <4>1. next[b] = d /\ d # o
        BY <3>1, <3>3, <1>x
      <4>2. /\ Live(d) /\ d # head
            /\ \A u \in Threads : ~ Owns(u, d)
            /\ \A c \in Segs : Live(c) /\ next[c] = d => c = b
        BY <4>1, <1>l DEF LinkInv
      <4> QED BY <4>1, <4>2, <1>x, <1>o
    <3> QED BY <3>2, <3>3
  <2>3. TailInv'
    BY <1>l, <1>u, <1>r, <1>a, <1>al, <1>x, <1>p DEF TailInv, Private
  <2> QED BY <2>1, <2>2, <2>3 DEF ListInv
<1>3. HP!RetiredApart'
  BY <1>l, <1>u DEF HP!RetiredApart, HP!Listed
<1>4. ASSUME NEW u \in Threads PROVE OwnerInv(u)'
  <2>1. CASE u = t
    BY <2>1, <1>m, <1>ml DEF OwnerInv, Owning
  <2>2. CASE u # t
    <3>1. ASSUME me[u].at \in Owning PROVE Private(u, me[u].other)'
      <4>1. Private(u, me[u].other)
        BY <3>1, <1>i DEF OwnerInv
      <4>2. me[u].other # a /\ me[u].other \in Segs
        BY <4>1, <1>a DEF Private, Live
      <4> QED BY <2>2, <4>1, <4>2, <1>m, <1>u, <1>r, <1>x, <1>hold, <1>o DEF Private
    <3> QED BY <2>2, <3>1, <1>m DEF OwnerInv, Private
  <2> QED BY <2>1, <2>2
<1>5. ASSUME NEW u \in Threads PROVE HolderInv(u)'
  <2>1. CASE u # t
    <3>1. me'[u] = me[u] /\ HolderInv(u)
      BY <2>1, <1>m, <1>i
    <3>2. me[u].at \in Hold => me[u].seg \in Segs
      BY <3>1 DEF HolderInv
    <3>3. me[u].at \in HoldTail \cup Advancing => me[u].at \in Hold
      BY DEF Hold, HoldTail, HoldHead, Advancing
    <3>4. me[u].at \in Advancing => me[u].seg # a
      BY <3>1 DEF HolderInv, Follows, a
    <3> QED BY <3>1, <3>2, <3>3, <3>4, <1>u, <1>x, <1>a
            DEF HolderInv, Follows, Announces
  <2>2. CASE u = t
    <3>1. m.at \in Hold /\ m.at \in HoldTail
      BY <1>ml DEF Hold, HoldTail
    <3> QED BY <2>2, <3>1, <1>u, <1>m, <1>ml, <1>a, <1>x, <1>p, <1>n, SlotFact
            DEF HolderInv, Follows, Announces
  <2> QED BY <2>1, <2>2
<1>6. ASSUME NEW u \in Threads PROVE ScanInv(u)'
  <2>1. me'[u].at = "retire" <=> me[u].at = "retire"
    BY <1>m, <1>ml
  <2> QED BY <1>i, <2>1, <1>hold, <1>u DEF ScanInv, Passed
<1> QED BY <1>1, <1>2, <1>3, <1>4, <1>5, <1>6 DEF SegInv

(* The CAS on head: the segment t holds leaves the list and is retired. *)
LEMMA StepCasHead ==
  ASSUME NEW t \in Threads, NEW m \in Locals, SegInv,
         me[t].at = "deqAdvance", CasHead(t), m.at = "retire",
         me' = [me EXCEPT ![t] = m], issued' = issued,
         UNCHANGED <<tail, next, hp, heap, scan>>
  PROVE  SegInv'
<1> DEFINE a == me[t].seg
           n == Len(retired[t])
<1>u. tail' = tail /\ next' = next /\ hp' = hp /\ heap' = heap /\ scan' = scan
  OBVIOUS
<1>t. Types
  BY DEF SegInv
<1>l. EndsAlive /\ LinkInv /\ TailInv /\ RetiredLinked /\ HP!RetiredApart
  BY DEF SegInv, ListInv
<1>i. \A u \in Threads : OwnerInv(u) /\ HolderInv(u) /\ ScanInv(u)
  BY DEF SegInv
<1>m. /\ me' \in [Threads -> Locals] /\ me'[t] = m
      /\ \A u \in Threads : u # t => me'[u] = me[u]
  BY <1>t, MeFacts
<1>at. m.at \notin Hold \cup Owning
  BY DEF Hold, HoldTail, HoldHead, Owning
<1>g. /\ \A u \in Threads : \A s : Owns(u, s)' => u # t /\ Owns(u, s)
      /\ \A u \in Threads : \A s : Holds(u, s)' => u # t /\ Holds(u, s)
      /\ OwnerInv(t)'
      /\ m.at \notin Hold \cup HoldTail \cup HoldHead \cup Owning \cup Advancing
  BY LetGo, <1>at
<1>a. /\ head = a /\ head' = next[a] /\ next[a] # Null /\ a \in Segs
      /\ hp[t][kHpHead] = a /\ Live(a)
  <2>1. me[t].at \in Hold /\ me[t].at \in HoldHead /\ me[t].at \in Advancing
    BY DEF Hold, HoldHead, Advancing
  <2>2. SlotOf(me[t].at) = kHpHead
    BY <2>1, SlotFact DEF kHpHead
  <2> QED BY <1>i, <1>l, <2>1, <2>2 DEF CasHead, HolderInv, Follows, EndsAlive
<1>n. /\ Live(next[a]) /\ next[a] # a
      /\ \A u \in Threads : ~ Owns(u, next[a])
      /\ \A b \in Segs : Live(b) /\ next[b] = next[a] => b = a
  BY <1>a, <1>l DEF LinkInv
<1>r. /\ retired' \in [Threads -> Seq(Segs)] /\ n \in Nat
      /\ \A u \in Threads : u # t => retired'[u] = retired[u]
      /\ Len(retired'[t]) = n + 1 /\ retired'[t][n + 1] = a
      /\ \A k \in 1 .. n : retired'[t][k] = retired[t][k]
  <2>1. retired' = [retired EXCEPT ![t] = Append(retired[t], a)]
    BY DEF CasHead, HP!PushRetired
  <2>2. retired[t] \in Seq(Segs)
    BY <1>t DEF Types
  <2>3. /\ Append(retired[t], a) \in Seq(Segs) /\ n \in Nat
        /\ Len(Append(retired[t], a)) = n + 1
        /\ Append(retired[t], a)[n + 1] = a
        /\ \A k \in 1 .. n : Append(retired[t], a)[k] = retired[t][k]
    BY <2>2, <1>a
  <2> QED BY <2>1, <2>3, <1>t DEF Types
<1> HIDE DEF n
<1>ir. \A s : InRetired(s)' <=> InRetired(s) \/ s = a
  <2>1. \A u \in Threads : u # t => \A s : HP!Listed(u, s)' <=> HP!Listed(u, s)
    BY <1>r DEF HP!Listed
  <2>2. \A s : HP!Listed(t, s)' <=> HP!Listed(t, s) \/ s = a
    <3>1. \A s : HP!Listed(t, s)' => HP!Listed(t, s) \/ s = a
      <4> SUFFICES ASSUME NEW s, NEW k \in 1 .. (n + 1), retired'[t][k] = s,
                          s # a
                   PROVE  HP!Listed(t, s)
        BY <1>r DEF HP!Listed
      <4>1. k \in 1 .. n
        BY <1>r
      <4> QED BY <4>1, <1>r DEF HP!Listed, n
    <3>2. \A s : HP!Listed(t, s) => HP!Listed(t, s)'
      <4> SUFFICES ASSUME NEW s, NEW k \in 1 .. n, retired[t][k] = s
                   PROVE  HP!Listed(t, s)'
        BY DEF HP!Listed, n
      <4>1. k \in 1 .. (n + 1)
        BY <1>r
      <4> QED BY <4>1, <1>r DEF HP!Listed
    <3>3. ASSUME NEW s, s = a PROVE HP!Listed(t, s)'
      <4>1. n + 1 \in 1 .. Len(retired'[t])
        BY <1>r
      <4> QED BY <4>1, <3>3, <1>r DEF HP!Listed
    <3> QED BY <3>1, <3>2, <3>3
  <2> QED BY <2>1, <2>2 DEF InRetired
<1>v. \A s : Live(s)' <=> Live(s) /\ s # a
  BY <1>ir DEF Live
<1>tail. ~ InRetired(tail)
  BY <1>l, <1>a, Sizes DEF TailInv
<1> HIDE DEF a
<1>1. Types'
  BY <1>t, <1>m, <1>r, <1>n, <1>a, <1>u DEF Types, Live
<1>2. ListInv'
  <2>1. EndsAlive' /\ RetiredLinked'
    BY <1>l, <1>a, <1>n, <1>v, <1>ir DEF EndsAlive, RetiredLinked
  <2>2. LinkInv'
    BY <1>l, <1>a, <1>n, <1>v, <1>g DEF LinkInv
  <2>3. TailInv'
    <3>1. InRetired(tail)' => head' = next[tail]
      BY <1>ir, <1>tail, <1>a
    <3>2. ASSUME NEW u \in Threads, NEW k \in 1 .. Len(retired'[u]),
                 retired'[u][k] = tail
          PROVE  k = Len(retired'[u])
      <4>1. CASE u # t
        BY <4>1, <3>2, <1>r, <1>tail DEF InRetired, HP!Listed
      <4>2. CASE u = t
        BY <4>2, <3>2, <1>r, <1>tail DEF InRetired, HP!Listed, n
      <4> QED BY <4>1, <4>2
    <3> QED BY <3>1, <3>2, <1>l DEF TailInv
  <2> QED BY <2>1, <2>2, <2>3 DEF ListInv
<1>3. HP!RetiredApart'
  <2>0. \A u \in Threads : ~ HP!Listed(u, a)
    BY <1>a DEF Live, InRetired
  <2>1. \A u \in Threads : \A k \in 1 .. Len(retired'[u]) :
          /\ heap[retired'[u][k]] = "used"
          /\ \A j \in 1 .. Len(retired'[u]) :
               retired'[u][j] = retired'[u][k] => j = k
    <3> SUFFICES ASSUME NEW u \in Threads, NEW k \in 1 .. Len(retired'[u])
                 PROVE  /\ heap[retired'[u][k]] = "used"
                        /\ \A j \in 1 .. Len(retired'[u]) :
                             retired'[u][j] = retired'[u][k] => j = k
      OBVIOUS
    <3>1. CASE u # t
      BY <3>1, <1>r, <1>l, <1>t, RetiredFacts
    <3>2. CASE u = t /\ k = n + 1
      BY <3>2, <1>r, <1>a, <2>0 DEF HP!Listed, n, Live
    <3>3. CASE u = t /\ k \in 1 .. n
      <4>1. retired'[t][k] = retired[t][k] /\ retired[t][k] # a
            /\ k \in 1 .. Len(retired[t])
        BY <3>3, <1>r, <2>0 DEF HP!Listed, n
      <4>2. /\ heap[retired[t][k]] = "used"
            /\ \A j \in 1 .. Len(retired[t]) :
                 retired[t][j] = retired[t][k] => j = k
        BY <4>1, <1>l, <1>t, RetiredFacts
      <4> QED BY <3>3, <4>1, <4>2, <1>r DEF n
    <3> QED BY <3>1, <3>2, <3>3, <1>r
  <2>2. ASSUME NEW u \in Threads, NEW k \in 1 .. Len(retired'[u]),
               NEW v \in Threads, v # u,
               NEW j \in 1 .. Len(retired'[v]),
               retired'[v][j] = retired'[u][k]
        PROVE  FALSE
    <3>1. CASE u # t /\ v # t
      <4>1. /\ k \in 1 .. Len(retired[u]) /\ j \in 1 .. Len(retired[v])
            /\ retired[v][j] = retired[u][k]
        BY <2>2, <3>1, <1>r
      <4>2. ~ HP!Listed(v, retired[u][k])
        BY <2>2, <4>1, <1>l, <1>t, RetiredFacts
      <4> QED BY <4>1, <4>2 DEF HP!Listed
    <3>2. CASE u = t
      <4>1. j \in 1 .. Len(retired[v]) /\ retired'[v][j] = retired[v][j]
        BY <2>2, <3>2, <1>r
      <4>2. \A x \in 1 .. Len(retired[t]) : retired[v][j] # retired[t][x]
        BY <2>2, <3>2, <4>1, <1>l, <1>t, RetiredFacts DEF HP!Listed
      <4>3. retired[v][j] # a
        BY <4>1, <2>0 DEF HP!Listed
      <4>4. k = n + 1 \/ k \in 1 .. n
        BY <3>2, <1>r
      <4>5. k # n + 1
        BY <2>2, <3>2, <4>1, <4>3, <1>r
      <4>6. retired'[u][k] = retired[t][k] /\ k \in 1 .. Len(retired[t])
        BY <3>2, <4>4, <4>5, <1>r DEF n
      <4> QED BY <2>2, <4>1, <4>2, <4>6
    <3>3. CASE v = t
      <4>1. k \in 1 .. Len(retired[u]) /\ retired'[u][k] = retired[u][k]
        BY <2>2, <3>3, <1>r
      <4>2. \A x \in 1 .. Len(retired[t]) : retired[u][k] # retired[t][x]
        BY <2>2, <3>3, <4>1, <1>l, <1>t, RetiredFacts DEF HP!Listed
      <4>3. retired[u][k] # a
        BY <4>1, <2>0 DEF HP!Listed
      <4> QED BY <2>2, <3>3, <4>1, <4>2, <4>3, <1>r DEF n
    <3> QED BY <3>1, <3>2, <3>3
  <2> QED BY <2>1, <2>2, <1>u DEF HP!RetiredApart, HP!Listed, HP!Threads, Threads
<1>4. ASSUME NEW u \in Threads PROVE OwnerInv(u)'
  <2>1. CASE u = t
    BY <2>1, <1>g
  <2>2. CASE u # t
    <3>1. ASSUME me[u].at \in Owning PROVE Private(u, me[u].other)'
      <4>1. Private(u, me[u].other) /\ Owns(u, me[u].other)
        BY <3>1, <1>i DEF OwnerInv, Owns
      <4> QED BY <2>2, <4>1, <1>m, <1>a, <1>n, <1>v, <1>g DEF Private
    <3> QED BY <2>2, <3>1, <1>m DEF OwnerInv, Private
  <2> QED BY <2>1, <2>2
<1>5. ASSUME NEW u \in Threads PROVE HolderInv(u)'
  BY <1>i, <1>m, <1>g DEF HolderInv, Follows, Announces
<1>6. ASSUME NEW u \in Threads PROVE ScanInv(u)'
  <2>1. CASE u # t
    <3>1. me'[u] = me[u] /\ retired'[u] = retired[u] /\ ScanInv(u)
      BY <2>1, <1>i, <1>m, <1>r
    <3>2. \A v \in Threads : \A s : Holds(v, s)' => Holds(v, s) /\ me'[v] = me[v]
      BY <1>g, <1>m
    <3> QED BY <3>1, <3>2 DEF ScanInv, Passed
  <2>2. CASE u = t
    <3>1. scan[t] = HP!NoScan
      BY <1>i DEF ScanInv
    <3>2. scan[t].at = 1 /\ scan[t].tid = 0 /\ scan[t].ihp = 1
      BY <3>1, NoScanFact
    <3>3. \A v \in Threads : \A k \in 0 .. 1 : ~ Passed(t, v, k)
      BY <3>2, Sizes DEF Passed
    <3>4. \A v \in Threads : ~ Passed(t, v, SlotOf(me[v].at))' /\ ~ Passed(t, v, kHpHead)'
      BY <3>3, SlotFact DEF Passed, kHpHead
    <3> QED BY <2>2, <3>2, <3>4, <1>m, <1>r, <1>a DEF ScanInv
  <2> QED BY <2>1, <2>2
<1> QED BY <1>1, <1>2, <1>3, <1>4, <1>5, <1>6 DEF SegInv

(* One load of a scan. *)
LEMMA StepRetireLoad ==
  ASSUME NEW t \in Threads, SegInv, me[t].at = "retire", HP!RetireLoad(t),
         UNCHANGED <<list, hp, me, issued>>
  PROVE  SegInv'
<1> DEFINE s == scan[t]
           n == Len(retired[t])
<1>t. Types
  BY DEF SegInv
<1>i. \A u \in Threads : OwnerInv(u) /\ HolderInv(u) /\ ScanInv(u)
  BY DEF SegInv
<1>u. /\ head' = head /\ tail' = tail /\ next' = next /\ me' = me
      /\ hp' = hp /\ retired' = retired /\ heap' = heap
  BY DEF list, HP!RetireLoad
<1>s. /\ s \in [at : Nat, tid : 0 .. NumThreads, ihp : 0 .. 1]
      /\ s.at \in 1 .. n /\ n \in Nat /\ s.tid \in Threads
      /\ retired[t][n] = hp[t][kHpHead]
      /\ scan' = [scan EXCEPT ![t] =
                    IF hp[s.tid][s.ihp] = retired[t][s.at]
                    THEN [at |-> s.at + 1, tid |-> 0, ihp |-> 1]
                    ELSE IF s.ihp > 0
                         THEN [at |-> s.at, tid |-> s.tid, ihp |-> s.ihp - 1]
                         ELSE [at |-> s.at, tid |-> s.tid + 1, ihp |-> 1]]
  <2>1. s \in [at : Nat, tid : 0 .. NumThreads, ihp : 0 .. 1] /\ n \in Nat
    BY <1>t DEF Types
  <2>2. s.at \in 1 .. n /\ s.tid \in Threads /\ retired[t][n] = hp[t][kHpHead]
    BY <1>i, <2>1, Sizes DEF ScanInv, HP!RetireLoad, HP!RetireDone
  <2>3. [HP!NoScan EXCEPT !.at = s.at + 1] = [at |-> s.at + 1, tid |-> 0, ihp |-> 1]
    BY NoScanFact
  <2>4. HP!NextLoad(s) = IF s.ihp > 0
                         THEN [at |-> s.at, tid |-> s.tid, ihp |-> s.ihp - 1]
                         ELSE [at |-> s.at, tid |-> s.tid + 1, ihp |-> 1]
    BY <2>1, NextLoadFact
  <2> QED BY <2>1, <2>2, <2>3, <2>4 DEF HP!RetireLoad
<1>1. Types'
  <2>1. scan' \in [Threads -> [at : Nat, tid : 0 .. NumThreads, ihp : 0 .. 1]]
    <3> DEFINE Scans == [at : Nat, tid : 0 .. NumThreads, ihp : 0 .. 1]
    <3>1. [at |-> s.at + 1, tid |-> 0, ihp |-> 1] \in Scans
      BY <1>s, Sizes
    <3>2. s.ihp > 0 => [at |-> s.at, tid |-> s.tid, ihp |-> s.ihp - 1] \in Scans
      BY <1>s, Sizes
    <3>3. [at |-> s.at, tid |-> s.tid + 1, ihp |-> 1] \in Scans
      BY <1>s, Sizes
    <3> HIDE DEF Scans
    <3>4. scan \in [Threads -> Scans]
      BY <1>t DEF Types, Scans
    <3>5. scan' \in [Threads -> Scans]
      BY <1>s, <3>1, <3>2, <3>3, <3>4
    <3> QED BY <3>5 DEF Scans
  <2> QED BY <2>1, <1>t, <1>u DEF Types
<1>2. ListInv' /\ HP!RetiredApart' /\ \A x : Live(x)' = Live(x)
  BY <1>u, ListUnmoved DEF Owns
<1>4. ASSUME NEW u \in Threads PROVE OwnerInv(u)' /\ HolderInv(u)'
  BY <1>i, <1>u, <1>2 DEF OwnerInv, Private, Owns, Holds, HolderInv, Follows, Announces
<1>6. ASSUME NEW u \in Threads PROVE ScanInv(u)'
  <2>0. \A v \in Threads : \A x : Holds(v, x)' = Holds(v, x)
    BY <1>u DEF Holds
  <2>1. CASE u # t
    <3>1. scan'[u] = scan[u] /\ ScanInv(u)
      BY <2>1, <1>i, <1>s, <1>t DEF Types
    <3> QED BY <2>0, <3>1, <1>u DEF ScanInv, Passed
  <2>2. CASE u = t
    <3>1. CASE hp[s.tid][s.ihp] = retired[t][s.at]
      <4>1. scan'[t] = [at |-> s.at + 1, tid |-> 0, ihp |-> 1]
        BY <3>1, <1>s, <1>t DEF Types
      <4>2. \A v \in Threads : \A k \in 0 .. 1 : ~ Passed(t, v, k)'
        BY <4>1, Sizes DEF Passed
      <4>3. \A v \in Threads : ~ Passed(t, v, SlotOf(me[v].at))' /\ ~ Passed(t, v, kHpHead)'
        BY <4>2, SlotFact DEF Passed, kHpHead
      <4> QED BY <2>2, <4>1, <4>3, <1>s, <1>u, <1>i DEF ScanInv
    <3>2. CASE hp[s.tid][s.ihp] # retired[t][s.at]
      <4>1. /\ scan'[t].at = s.at
            /\ \A v \in Threads : \A k \in 0 .. 1 :
                 Passed(t, v, k)' => Passed(t, v, k) \/ (v = s.tid /\ k = s.ihp)
        <5>1. scan'[t] = IF s.ihp > 0
                         THEN [at |-> s.at, tid |-> s.tid, ihp |-> s.ihp - 1]
                         ELSE [at |-> s.at, tid |-> s.tid + 1, ihp |-> 1]
          BY <3>2, <1>s, <1>t DEF Types
        <5>2. CASE s.ihp > 0
          BY <5>1, <5>2, <1>s, Sizes DEF Passed
        <5>3. CASE ~ (s.ihp > 0)
          BY <5>1, <5>3, <1>s, Sizes DEF Passed
        <5> QED BY <5>2, <5>3
      <4>2. ASSUME s.at = n PROVE ~ Passed(t, t, kHpHead)'
        BY <4>1, <4>2, <3>2, <1>s, <1>i DEF ScanInv, kHpHead
      <4>3. ASSUME s.at < n, NEW v \in Threads, Holds(v, retired[t][s.at])
            PROVE  ~ Passed(t, v, SlotOf(me[v].at))'
        <5>1. hp[v][SlotOf(me[v].at)] = retired[t][s.at]
          BY <4>3, <1>i DEF Holds, HolderInv
        <5>2. ~ Passed(t, v, SlotOf(me[v].at))
          BY <4>3, <1>i DEF ScanInv
        <5> QED BY <5>1, <5>2, <4>1, <3>2, <1>u, SlotFact
      <4> QED BY <2>2, <4>1, <4>2, <4>3, <2>0, <1>u, <1>i, <1>s DEF ScanInv
    <3> QED BY <3>1, <3>2
  <2> QED BY <2>1, <2>2
<1> QED BY <1>1, <1>2, <1>4, <1>6 DEF SegInv

(* What erasing element a of a list leaves. *)
LEMMA Erased ==
  ASSUME NEW S, NEW q \in Seq(S), NEW a \in 1 .. Len(q)
  PROVE  LET r == SubSeq(q, 1, a - 1) \o SubSeq(q, a + 1, Len(q)) IN
         /\ r \in Seq(S) /\ Len(r) = Len(q) - 1
         /\ \A k \in 1 .. Len(r) : r[k] = IF k < a THEN q[k] ELSE q[k + 1]
<1> DEFINE x == SubSeq(q, 1, a - 1)
           y == SubSeq(q, a + 1, Len(q))
           r == x \o y
<1>0. Len(q) \in Nat
  OBVIOUS
<1>1. /\ x \in Seq(S) /\ Len(x) = a - 1
      /\ \A k \in 1 .. (a - 1) : x[k] = q[k]
  <2>1. \A k \in 1 .. (a - 1) : q[k] \in S
    BY <1>0
  <2> QED BY <2>1, <1>0, SubSeqProperties
<1>2. /\ y \in Seq(S) /\ Len(y) = Len(q) - a
      /\ \A k \in 1 .. (Len(q) - a) : y[k] = q[k + a]
  <2>1. \A k \in (a + 1) .. Len(q) : q[k] \in S
    BY <1>0
  <2> QED BY <2>1, <1>0, SubSeqProperties
<1> HIDE DEF x, y, r
<1>3. r = x \o y
  BY DEF r
<1>4. /\ r \in Seq(S) /\ Len(r) = Len(x) + Len(y)
      /\ \A k \in 1 .. Len(r) : r[k] = IF k <= Len(x) THEN x[k] ELSE y[k - Len(x)]
  <2>1. /\ x \o y \in Seq(S) /\ Len(x \o y) = Len(x) + Len(y)
        /\ \A k \in 1 .. (Len(x) + Len(y)) :
             (x \o y)[k] = IF k <= Len(x) THEN x[k] ELSE y[k - Len(x)]
    BY <1>1, <1>2, ConcatProperties
  <2> QED BY <2>1, <1>3
<1>n. Len(r) = Len(q) - 1 /\ Len(x) = a - 1
  <2>1. Len(r) = Len(x) + Len(y) /\ Len(x) = a - 1 /\ Len(y) = Len(q) - a
    BY <1>1, <1>2, <1>4
  <2> QED BY <2>1, <1>0
<1>5. ASSUME NEW k \in 1 .. Len(r)
      PROVE  r[k] = IF k < a THEN q[k] ELSE q[k + 1]
  <2>1. CASE k < a
    <3>1. k <= Len(x) /\ k \in 1 .. (a - 1)
      BY <2>1, <1>0, <1>n
    <3>2. r[k] = x[k]
      BY <3>1, <1>4
    <3> QED BY <2>1, <3>1, <3>2, <1>1
  <2>2. CASE ~ (k < a)
    <3>1. k - (a - 1) \in 1 .. (Len(q) - a) /\ (k - (a - 1)) + a = k + 1
      <4>1. k \in Int /\ a \in Int /\ 1 <= a /\ a <= Len(q) /\ k <= Len(q) - 1
        BY <1>0, <1>n
      <4> QED BY <4>1, <2>2, <1>0
    <3>2. r[k] = y[k - (a - 1)]
      <4>1. ~ (k <= Len(x))
        BY <2>2, <1>0, <1>n
      <4> QED BY <4>1, <1>4, <1>n
    <3> QED BY <2>2, <3>1, <3>2, <1>2
  <2> QED BY <2>1, <2>2
<1> QED BY <1>n, <1>4, <1>5 DEF r, x, y

(* The segment a scan has looked for is erased and deleted. *)
LEMMA StepRetireDelete ==
  ASSUME NEW t \in Threads, SegInv, me[t].at = "retire", HP!RetireDelete(t),
         UNCHANGED <<list, hp, me, issued>>
  PROVE  SegInv'
<1> DEFINE at == scan[t].at
           q  == retired[t]
           n  == Len(q)
           o  == q[at]
           r  == retired'[t]
<1>t. Types
  BY DEF SegInv
<1>l. EndsAlive /\ LinkInv /\ TailInv /\ RetiredLinked /\ HP!RetiredApart
  BY DEF SegInv, ListInv
<1>i. \A u \in Threads : OwnerInv(u) /\ HolderInv(u) /\ ScanInv(u)
  BY DEF SegInv
<1>u. /\ head' = head /\ tail' = tail /\ next' = next /\ me' = me /\ hp' = hp
      /\ issued' = issued
  BY DEF list
<1>q. q \in Seq(Segs) /\ n \in Nat
  BY <1>t DEF Types
<1>s. /\ at \in 1 .. n /\ scan[t].tid = NumThreads
      /\ n > 0 /\ hp[t][kHpHead] = q[n]
  <2>1. scan[t].at \in Nat
    BY <1>t DEF Types
  <2> QED BY <1>i, <1>q, <2>1 DEF ScanInv, HP!RetireDelete, HP!RetireDone
<1>p. \A v \in Threads : \A k : Passed(t, v, k)
  BY <1>s, Sizes DEF Passed
<1>last. at < n
  <2>1. at # n
    BY <1>i, <1>p DEF ScanInv
  <2> QED BY <2>1, <1>s, <1>q
<1>nobody. \A v \in Threads : ~ Holds(v, o)
  BY <1>i, <1>p, <1>last DEF ScanInv
<1>o. /\ o \in Segs /\ heap[o] = "used" /\ InRetired(o)
      /\ \A j \in 1 .. n : q[j] = o => j = at
      /\ \A v \in Threads : v # t => ~ HP!Listed(v, o)
  <2>1. InRetired(o)
    BY <1>s DEF InRetired, HP!Listed
  <2> QED BY <2>1, <1>s, <1>t, <1>l, RetiredFacts
<1>nt. o # tail
  BY <1>s, <1>last, <1>l DEF TailInv
<1>h. /\ heap' \in [Segs -> {"new", "used", "freed"}] /\ heap'[o] # "used"
      /\ \A a \in Segs : a # o => heap'[a] = heap[a]
  BY <1>t, <1>o DEF Types, HP!RetireDelete
<1>rr. /\ retired' \in [Threads -> Seq(Segs)]
       /\ \A u \in Threads : u # t => retired'[u] = retired[u]
       /\ r \in Seq(Segs) /\ Len(r) = n - 1
       /\ \A k \in 1 .. Len(r) : r[k] = IF k < at THEN q[k] ELSE q[k + 1]
  <2>1. retired' = [retired EXCEPT ![t] =
                      SubSeq(q, 1, at - 1) \o SubSeq(q, at + 1, n)]
    BY DEF HP!RetireDelete
  <2>2. r = SubSeq(q, 1, at - 1) \o SubSeq(q, at + 1, n)
    BY <2>1, <1>t DEF Types
  <2>3. /\ r \in Seq(Segs) /\ Len(r) = n - 1
        /\ \A k \in 1 .. Len(r) : r[k] = IF k < at THEN q[k] ELSE q[k + 1]
    <3>1. q \in Seq(Segs) /\ at \in 1 .. Len(q)
      BY <1>q, <1>s
    <3> HIDE DEF q, at, r
    <3> QED BY <3>1, <2>2, Erased
  <2> QED BY <2>1, <2>2, <2>3, <1>t DEF Types
<1>sc. /\ scan' \in [Threads -> [at : Nat, tid : 0 .. NumThreads, ihp : 0 .. 1]]
       /\ \A u \in Threads : u # t => scan'[u] = scan[u]
       /\ scan'[t] = [at |-> at, tid |-> 0, ihp |-> 1]
  <2>1. [HP!NoScan EXCEPT !.at = at] = [at |-> at, tid |-> 0, ihp |-> 1]
    BY NoScanFact
  <2>2. [at |-> at, tid |-> 0, ihp |-> 1]
          \in [at : Nat, tid : 0 .. NumThreads, ihp : 0 .. 1]
    BY <1>s, Sizes
  <2>3. scan' = [scan EXCEPT ![t] = [at |-> at, tid |-> 0, ihp |-> 1]]
    BY <2>1 DEF HP!RetireDelete
  <2> QED BY <2>2, <2>3, <1>t DEF Types
<1> HIDE DEF n, q, o, r, at
<1>ix. \A k \in 1 .. Len(r) :
         \E j \in 1 .. n : r[k] = q[j] /\ j # at /\ j = IF k < at THEN k ELSE k + 1
  <2> SUFFICES ASSUME NEW k \in 1 .. Len(r)
               PROVE  \E j \in 1 .. n : r[k] = q[j] /\ j # at
                                        /\ j = IF k < at THEN k ELSE k + 1
    OBVIOUS
  <2>1. CASE k < at
    BY <2>1, <1>rr, <1>s, <1>q
  <2>2. CASE ~ (k < at)
    BY <2>2, <1>rr, <1>s, <1>q
  <2> QED BY <2>1, <2>2
<1>li. \A s : HP!Listed(t, s)' <=> HP!Listed(t, s) /\ s # o
  <2>1. ASSUME NEW s, HP!Listed(t, s)' PROVE HP!Listed(t, s) /\ s # o
    <3>1. PICK k \in 1 .. Len(r) : r[k] = s
      BY <2>1 DEF HP!Listed, r
    <3> QED BY <3>1, <1>ix, <1>o DEF HP!Listed, n, q
  <2>2. ASSUME NEW s, HP!Listed(t, s), s # o PROVE HP!Listed(t, s)'
    <3>1. PICK j \in 1 .. n : q[j] = s
      BY <2>2 DEF HP!Listed, n, q
    <3>2. j # at
      BY <3>1, <2>2 DEF o
    <3>3. CASE j < at
      <4>1. j \in 1 .. Len(r) /\ r[j] = s
        BY <3>1, <3>3, <1>rr, <1>s, <1>q
      <4> QED BY <4>1 DEF HP!Listed, r
    <3>4. CASE j > at
      <4>1. j - 1 \in 1 .. Len(r) /\ ~ (j - 1 < at) /\ (j - 1) + 1 = j
        BY <3>1, <3>4, <1>rr, <1>s, <1>q
      <4>2. r[j - 1] = s
        BY <4>1, <3>1, <1>rr
      <4> QED BY <4>1, <4>2 DEF HP!Listed, r
    <3> QED BY <3>2, <3>3, <3>4, <1>s, <1>q
  <2> QED BY <2>1, <2>2
<1>lo. \A u \in Threads : u # t => \A s : HP!Listed(u, s)' <=> HP!Listed(u, s)
  BY <1>rr DEF HP!Listed
<1>ir. \A s : InRetired(s)' <=> InRetired(s) /\ s # o
  BY <1>li, <1>lo, <1>o DEF InRetired
<1>v. \A s : Live(s)' <=> Live(s)
  BY <1>ir, <1>h, <1>o DEF Live
<1>hold. \A u \in Threads : \A s : (Holds(u, s)' <=> Holds(u, s))
                                   /\ (Owns(u, s)' <=> Owns(u, s))
  BY <1>u DEF Holds, Owns
<1>1. Types'
  BY <1>t, <1>u, <1>h, <1>rr, <1>sc DEF Types
<1>2. ListInv'
  <2>1. EndsAlive' /\ RetiredLinked'
    BY <1>l, <1>u, <1>v, <1>ir, <1>h, <1>nt, <1>t DEF EndsAlive, RetiredLinked, Types
  <2>2. LinkInv'
    BY <1>l, <1>u, <1>v, <1>hold DEF LinkInv
  <2>3. TailInv'
    <3>1. ASSUME NEW u \in Threads, NEW k \in 1 .. Len(retired'[u]),
                 retired'[u][k] = tail
          PROVE  k = Len(retired'[u])
      <4>1. CASE u # t
        BY <4>1, <3>1, <1>rr, <1>l DEF TailInv
      <4>2. CASE u = t
        <5>1. PICK j \in 1 .. n : r[k] = q[j] /\ j = IF k < at THEN k ELSE k + 1
          BY <4>2, <1>ix DEF r
        <5>2. j = n
          BY <5>1, <4>2, <3>1, <1>l DEF TailInv, r, n, q
        <5> QED BY <5>1, <5>2, <4>2, <1>last, <1>rr, <1>s, <1>q DEF r
      <4> QED BY <4>1, <4>2
    <3> QED BY <3>1, <1>l, <1>u, <1>ir DEF TailInv
  <2> QED BY <2>1, <2>2, <2>3 DEF ListInv
<1>3. HP!RetiredApart'
  <2>1. \A u \in Threads : \A k \in 1 .. Len(retired'[u]) :
          /\ heap'[retired'[u][k]] = "used"
          /\ \A j \in 1 .. Len(retired'[u]) :
               retired'[u][j] = retired'[u][k] => j = k
    <3> SUFFICES ASSUME NEW u \in Threads, NEW k \in 1 .. Len(retired'[u])
                 PROVE  /\ heap'[retired'[u][k]] = "used"
                        /\ \A j \in 1 .. Len(retired'[u]) :
                             retired'[u][j] = retired'[u][k] => j = k
      OBVIOUS
    <3>1. CASE u # t
      <4>1. /\ k \in 1 .. Len(retired[u]) /\ retired'[u] = retired[u]
            /\ retired[u][k] # o
        BY <3>1, <1>rr, <1>o DEF HP!Listed
      <4> QED BY <4>1, <1>h, <1>l, <1>t, RetiredFacts
    <3>2. CASE u = t
      <4>1. PICK x \in 1 .. n : r[k] = q[x] /\ x # at
                                /\ x = IF k < at THEN k ELSE k + 1
        BY <3>2, <1>ix DEF r
      <4>2. /\ q[x] \in Segs /\ heap[q[x]] = "used"
            /\ \A y \in 1 .. n : q[y] = q[x] => y = x
        BY <4>1, <1>l, <1>t, RetiredFacts DEF n, q
      <4>3. heap'[r[k]] = "used"
        BY <4>1, <4>2, <1>h, <1>o
      <4>4. ASSUME NEW j \in 1 .. Len(r), r[j] = r[k] PROVE j = k
        <5>1. PICK y \in 1 .. n : r[j] = q[y] /\ y = IF j < at THEN j ELSE j + 1
          BY <4>4, <1>ix
        <5>2. y = x
          BY <5>1, <4>1, <4>2, <4>4
        <5>3. j \in Int /\ k \in Int /\ at \in Int
          BY <3>2, <1>s, <1>rr DEF r
        <5> QED BY <5>1, <5>2, <5>3, <4>1
      <4> QED BY <3>2, <4>3, <4>4 DEF r
    <3> QED BY <3>1, <3>2
  <2>2. ASSUME NEW u \in Threads, NEW k \in 1 .. Len(retired'[u]),
               NEW v \in Threads, v # u, NEW s, s = retired'[u][k],
               HP!Listed(v, s)'
        PROVE  FALSE
    <3>1. HP!Listed(v, s)
      BY <2>2, <1>li, <1>lo
    <3>2. PICK x \in 1 .. Len(retired[u]) : retired[u][x] = s
      <4>1. CASE u # t
        BY <4>1, <2>2, <1>rr
      <4>2. CASE u = t
        BY <4>2, <2>2, <1>ix DEF r, n, q
      <4> QED BY <4>1, <4>2
    <3> QED BY <3>1, <3>2, <2>2, <1>l, <1>t, RetiredFacts
  <2>3. \A u \in Threads : \A k \in 1 .. Len(retired'[u]) :
          \A v \in Threads : v # u =>
            \A j \in 1 .. Len(retired'[v]) : retired'[v][j] # retired'[u][k]
    BY <2>2 DEF HP!Listed
  <2>4. HP!Threads = Threads
    BY DEF HP!Threads, Threads
  <2>5. \A u \in HP!Threads : \A k \in 1 .. Len(retired'[u]) :
          \A v \in HP!Threads \ {u} :
            ~ \E j \in 1 .. Len(retired'[v]) : retired'[v][j] = retired'[u][k]
    BY <2>3, <2>4
  <2>6. \A u \in HP!Threads : \A k \in 1 .. Len(retired'[u]) :
          /\ heap'[retired'[u][k]] = "used"
          /\ \A j \in 1 .. Len(retired'[u]) :
               retired'[u][j] = retired'[u][k] => j = k
    BY <2>1, <2>4
  <2> QED BY <2>5, <2>6 DEF HP!RetiredApart, HP!Listed
<1>4. ASSUME NEW u \in Threads PROVE OwnerInv(u)'
  BY <1>i, <1>u, <1>v, <1>hold DEF OwnerInv, Private
<1>5. ASSUME NEW u \in Threads PROVE HolderInv(u)'
  <2>1. HolderInv(u) /\ (me[u].at \in Hold => me[u].seg # o)
    BY <1>i, <1>nobody DEF Holds
  <2> QED BY <2>1, <1>u, <1>h DEF HolderInv, Follows, Announces
<1>6. ASSUME NEW u \in Threads PROVE ScanInv(u)'
  <2>1. CASE u # t
    <3>1. scan'[u] = scan[u] /\ retired'[u] = retired[u] /\ ScanInv(u)
      BY <2>1, <1>i, <1>sc, <1>rr
    <3> QED BY <3>1, <1>u, <1>hold DEF ScanInv, Passed
  <2>2. CASE u = t
    <3>1. \A v \in Threads : \A k \in 0 .. 1 : ~ Passed(t, v, k)'
      BY <1>sc, Sizes DEF Passed
    <3>2. \A v \in Threads : ~ Passed(t, v, SlotOf(me[v].at))' /\ ~ Passed(t, v, kHpHead)'
      BY <3>1, SlotFact DEF Passed, kHpHead
    <3>3. Len(r) > 0 /\ r[Len(r)] = q[n] /\ at \in 1 .. (Len(r) + 1)
      BY <1>rr, <1>s, <1>q, <1>last
    <3>4. /\ Len(retired'[t]) > 0
          /\ hp'[t][kHpHead] = retired'[t][Len(retired'[t])]
          /\ scan'[t].at \in 1 .. (Len(retired'[t]) + 1)
      BY <3>3, <1>s, <1>sc, <1>u DEF r
    <3> QED BY <2>2, <3>2, <3>4, <1>u DEF ScanInv
  <2> QED BY <2>1, <2>2
<1> QED BY <1>1, <1>2, <1>3, <1>4, <1>5, <1>6 DEF SegInv

(* retire returns. *)
LEMMA StepRetireReturn ==
  ASSUME NEW t \in Threads, NEW m \in Locals, SegInv, me[t].at = "retire",
         scan' = [scan EXCEPT ![t] = HP!NoScan],
         me' = [me EXCEPT ![t] = m], issued' = issued,
         UNCHANGED <<list, hp, retired, heap>>,
         m.at \notin Hold \cup Owning \cup {"retire"}, Announces(t, m)
  PROVE  SegInv'
<1>t. Types
  BY DEF SegInv
<1>i. \A u \in Threads : OwnerInv(u) /\ HolderInv(u) /\ ScanInv(u)
  BY DEF SegInv
<1>u. /\ head' = head /\ tail' = tail /\ next' = next
      /\ hp' = hp /\ retired' = retired /\ heap' = heap
  BY DEF list
<1>m. /\ me' \in [Threads -> Locals] /\ me'[t] = m
      /\ \A u \in Threads : u # t => me'[u] = me[u]
  BY <1>t, MeFacts
<1>g. /\ \A u \in Threads : \A s : Owns(u, s)' => u # t /\ Owns(u, s)
      /\ \A u \in Threads : \A s : Holds(u, s)' => u # t /\ Holds(u, s)
      /\ OwnerInv(t)'
      /\ m.at \notin Hold \cup HoldTail \cup HoldHead \cup Owning \cup Advancing
  BY LetGo
<1>s. /\ scan' \in [Threads -> [at : Nat, tid : 0 .. NumThreads, ihp : 0 .. 1]]
      /\ scan'[t] = HP!NoScan
      /\ \A u \in Threads : u # t => scan'[u] = scan[u]
  BY <1>t, NoScanFact DEF Types
<1>1. Types'
  BY <1>t, <1>m, <1>u, <1>s DEF Types
<1>2. ListInv' /\ HP!RetiredApart' /\ \A s : Live(s)' = Live(s)
  BY <1>u, <1>g, ListUnmoved
<1>4. ASSUME NEW u \in Threads PROVE OwnerInv(u)'
  BY <1>i, <1>u, <1>g, <1>m, <1>2 DEF OwnerInv, Private
<1>5. ASSUME NEW u \in Threads PROVE HolderInv(u)'
  BY <1>i, <1>u, <1>m, <1>g DEF HolderInv, Follows, Announces
<1>6. ASSUME NEW u \in Threads PROVE ScanInv(u)'
  <2>1. CASE u # t
    <3>1. \A v \in Threads : \A s : Holds(v, s)' => Holds(v, s) /\ me'[v] = me[v]
      BY <1>g, <1>m
    <3>2. me'[u] = me[u] /\ scan'[u] = scan[u] /\ ScanInv(u)
      BY <2>1, <1>i, <1>m, <1>s
    <3> QED BY <3>1, <3>2, <1>u DEF ScanInv, Passed
  <2>2. CASE u = t
    BY <2>2, <1>m, <1>s DEF ScanInv
  <2> QED BY <2>1, <2>2
<1> QED BY <1>1, <1>2, <1>4, <1>5, <1>6 DEF SegInv

(* The segment that t had made, and could not link, is deleted. *)
LEMMA StepDeleteOwn ==
  ASSUME NEW t \in Threads, NEW m \in Locals, SegInv,
         me[t].at \in Owning \ Hold,
         heap' = [heap EXCEPT ![me[t].other] = "freed"],
         me' = [me EXCEPT ![t] = m], issued' = issued,
         UNCHANGED <<list, hp, retired, scan>>,
         m.at \notin Hold \cup Owning \cup {"retire"}, Announces(t, m)
  PROVE  SegInv'
<1> DEFINE o == me[t].other
<1>t. Types
  BY DEF SegInv
<1>l. EndsAlive /\ LinkInv /\ TailInv /\ RetiredLinked /\ HP!RetiredApart
  BY DEF SegInv, ListInv
<1>i. \A u \in Threads : OwnerInv(u) /\ HolderInv(u) /\ ScanInv(u)
  BY DEF SegInv
<1>u. /\ head' = head /\ tail' = tail /\ next' = next
      /\ hp' = hp /\ retired' = retired /\ scan' = scan
  BY DEF list
<1>m. /\ me' \in [Threads -> Locals] /\ me'[t] = m
      /\ \A u \in Threads : u # t => me'[u] = me[u]
  BY <1>t, MeFacts
<1>g. /\ \A u \in Threads : \A s : Owns(u, s)' => u # t /\ Owns(u, s)
      /\ \A u \in Threads : \A s : Holds(u, s)' => u # t /\ Holds(u, s)
      /\ OwnerInv(t)'
      /\ m.at \notin Hold \cup HoldTail \cup HoldHead \cup Owning \cup Advancing
  BY LetGo
<1>p. Private(t, o) /\ Owns(t, o) /\ o \in Segs
  BY <1>i DEF OwnerInv, Private, Owns, Live
<1>h. /\ heap' \in [Segs -> {"new", "used", "freed"}] /\ heap'[o] # "used"
      /\ \A a \in Segs : a # o => heap'[a] = heap[a]
  BY <1>t, <1>p DEF Types
<1> HIDE DEF o
<1>r. \A s : InRetired(s)' = InRetired(s)
  BY <1>u DEF InRetired, HP!Listed
<1>v. \A s : Live(s)' <=> Live(s) /\ s # o
  BY <1>r, <1>h, <1>p DEF Live
<1>1. Types'
  BY <1>t, <1>m, <1>u, <1>h DEF Types
<1>2. ListInv'
  <2>1. EndsAlive' /\ RetiredLinked'
    BY <1>l, <1>u, <1>v, <1>r, <1>h, <1>p, <1>t
    DEF EndsAlive, RetiredLinked, Types, Private
  <2>2. LinkInv'
    BY <1>l, <1>u, <1>v, <1>g, <1>p DEF LinkInv
  <2>3. TailInv'
    BY <1>l, <1>u, <1>r DEF TailInv
  <2> QED BY <2>1, <2>2, <2>3 DEF ListInv
<1>3. HP!RetiredApart'
  <2>1. \A u \in Threads : \A k \in 1 .. Len(retired[u]) :
          /\ heap'[retired[u][k]] = "used"
          /\ \A j \in 1 .. Len(retired[u]) :
               retired[u][j] = retired[u][k] => j = k
          /\ \A v \in Threads : v # u => ~ HP!Listed(v, retired[u][k])
    <3>1. \A u \in Threads : \A k \in 1 .. Len(retired[u]) : retired[u][k] # o
      BY <1>p DEF Private, Live, InRetired, HP!Listed
    <3> QED BY <3>1, <1>l, <1>h, <1>t, RetiredFacts
  <2>2. \A v : \A x : HP!Listed(v, x)' = HP!Listed(v, x)
    BY <1>u DEF HP!Listed
  <2> QED BY <2>1, <2>2, <1>u DEF HP!RetiredApart, HP!Threads, Threads
<1>4. ASSUME NEW u \in Threads PROVE OwnerInv(u)'
  <2>1. CASE u = t
    BY <2>1, <1>g
  <2>2. CASE u # t
    <3>1. ASSUME me[u].at \in Owning PROVE Private(u, me[u].other)'
      <4>1. Private(u, me[u].other) /\ Owns(u, me[u].other)
        BY <3>1, <1>i DEF OwnerInv, Owns
      <4>2. me[u].other # o
        BY <4>1, <2>2, <1>p DEF Private
      <4> QED BY <2>2, <4>1, <4>2, <1>m, <1>u, <1>v, <1>g DEF Private
    <3> QED BY <2>2, <3>1, <1>m DEF OwnerInv, Private
  <2> QED BY <2>1, <2>2
<1>5. ASSUME NEW u \in Threads PROVE HolderInv(u)'
  <2>1. CASE u # t
    <3>1. me'[u] = me[u] /\ HolderInv(u) /\ ~ Holds(u, o)
      BY <2>1, <1>m, <1>i, <1>p DEF Private
    <3> QED BY <3>1, <1>u, <1>h DEF HolderInv, Holds, Follows, Announces
  <2>2. CASE u = t
    BY <2>2, <1>m, <1>g, <1>u DEF HolderInv, Follows, Announces
  <2> QED BY <2>1, <2>2
<1>6. ASSUME NEW u \in Threads PROVE ScanInv(u)'
  <2>1. me'[u].at = "retire" <=> me[u].at = "retire"
    BY <1>m DEF Owning
  <2>2. \A v \in Threads : \A s : Holds(v, s)' => Holds(v, s) /\ me'[v] = me[v]
    BY <1>g, <1>m
  <2> QED BY <1>i, <2>1, <2>2, <1>u DEF ScanInv, Passed
<1> QED BY <1>1, <1>2, <1>3, <1>4, <1>5, <1>6 DEF SegInv

----------------------------------------------------------------------------
(* The beginning, and what the invariant is for. *)

LEMMA FreshLocals == Fresh \in Locals
BY Sizes DEF Fresh, Locals, Places

LEMMA StartsSound == InitList => SegInv
<1> SUFFICES ASSUME InitList PROVE SegInv
  OBVIOUS
<1>0. /\ head = 0 /\ tail = 0 /\ next = [s \in Segs |-> Null]
      /\ hp = [t \in Threads |-> [k \in 0 .. 1 |-> Null]]
      /\ retired = [t \in Threads |-> <<>>]
      /\ heap = [s \in Segs |-> IF s = 0 THEN "used" ELSE "new"]
      /\ scan = [t \in Threads |-> HP!NoScan]
      /\ me = [t \in Threads |-> Fresh] /\ issued = 0
  BY DEF InitList, HP!InitHP, HP!Threads, Threads, HP!Objects, Segs,
         HP!Indices, HP!Null, Null
<1>1. \A t \in Threads : me[t].at = "idle" /\ me[t].seg = Null
  BY <1>0 DEF Fresh
<1>2. \A t \in Threads : \A s : ~ HP!Listed(t, s)
  BY <1>0 DEF HP!Listed
<1>3. \A t \in Threads : \A s : ~ Holds(t, s) /\ ~ Owns(t, s)
  BY <1>1 DEF Holds, Owns, Hold, HoldTail, HoldHead, Owning
<1>4. Types
  <2>1. hp \in [Threads -> [0 .. 1 -> Segs \cup {Null}]]
    BY <1>0
  <2>2. retired \in [Threads -> Seq(Segs)]
    BY <1>0
  <2>3. scan \in [Threads -> [at : Nat, tid : 0 .. NumThreads, ihp : 0 .. 1]]
    BY <1>0, NoScanFact
  <2>4. me \in [Threads -> Locals]
    BY <1>0, FreshLocals
  <2>5. /\ head \in Segs /\ tail \in Segs
        /\ next \in [Segs -> Segs \cup {Null}]
        /\ heap \in [Segs -> {"new", "used", "freed"}]
        /\ issued \in 0 .. MaxItems
    BY <1>0, Sizes
  <2> QED BY <2>1, <2>2, <2>3, <2>4, <2>5 DEF Types
<1>5. ListInv
  BY <1>0, <1>2, Sizes
  DEF ListInv, EndsAlive, LinkInv, TailInv, RetiredLinked, Live, InRetired
<1>6. HP!RetiredApart
  BY <1>0 DEF HP!RetiredApart, HP!Threads, Threads
<1>7. \A t \in Threads : OwnerInv(t) /\ HolderInv(t) /\ ScanInv(t)
  BY <1>0, <1>1 DEF OwnerInv, HolderInv, ScanInv, Follows, Announces, Advancing,
                    Hold, HoldTail, HoldHead, Owning
<1> QED BY <1>4, <1>5, <1>6, <1>7 DEF SegInv

LEMMA SegInvKept ==
  ASSUME SegInv, list' = list, memory' = memory, me' = me, issued' = issued
  PROVE  SegInv'
BY DEF SegInv, Types, ListInv, EndsAlive, LinkInv, TailInv, RetiredLinked, Live,
   InRetired, HP!Listed, HP!RetiredApart, OwnerInv, Private, Holds, Owns,
   HolderInv, Follows, Announces, ScanInv, Passed, list, memory

(* What the queues' properties say of the list. *)
LEMMA SoundList ==
  ASSUME SegInv
  PROVE  /\ ListTypeOK /\ RetiredOnce
         /\ \A following \in SUBSET Hold : AliveWhere(following)
<1>1. ListTypeOK
  <2>1. /\ HP!Threads = Threads /\ HP!Objects = Segs /\ HP!Indices = 0 .. 1
        /\ HP!Null = Null
    BY DEF HP!Threads, Threads, HP!Objects, Segs, HP!Indices, HP!Null, Null
  <2>2. HP!HPTypeOK
    BY <2>1 DEF SegInv, Types, HP!HPTypeOK
  <2>3. \A t \in Threads : me[t] \in Locals
    BY DEF SegInv, Types
  <2> QED BY <2>2, <2>3 DEF SegInv, Types, ListTypeOK, Locals
<1>2. RetiredOnce
  BY DEF SegInv, ListInv, EndsAlive, Live, InRetired, RetiredOnce
<1>3. ASSUME NEW following \in SUBSET Hold PROVE AliveWhere(following)
  BY DEF SegInv, ListInv, EndsAlive, Live, HolderInv, AliveWhere
<1> QED BY <1>1, <1>2, <1>3

----------------------------------------------------------------------------
(* The actions that both queues have. *)

LEMMA MyLocals ==
  ASSUME SegInv, NEW t \in Threads
  PROVE  /\ me[t] \in Locals /\ me[t].at \in Places
         /\ {me[t].seg, me[t].other} \subseteq Segs \cup {Null}
         /\ me[t].item \in Items \cup {NoItem}
         /\ OwnerInv(t) /\ HolderInv(t)
BY DEF SegInv, Types, Locals

LEMMA CallEnqueueSound ==
  ASSUME SegInv, NEW t \in Threads, CallEnqueue(t)
  PROVE  SegInv' /\ \E m \in Locals :
           /\ me' = [me EXCEPT ![t] = m]
           /\ m.at = "enqLoad" /\ m.item \in Items
<1> DEFINE m == [me[t] EXCEPT !.at = "enqLoad", !.item = issued + 1]
<1>1. me' = [me EXCEPT ![t] = m] /\ me[t].at = "idle"
  BY DEF CallEnqueue
<1>2. issued + 1 \in Items /\ issued' \in 0 .. MaxItems
  BY Sizes DEF CallEnqueue, Items, SegInv, Types
<1>3. m \in Locals
  BY MyLocals, <1>2 DEF Locals, Places
<1>4. m.at = "enqLoad" /\ m.seg = me[t].seg /\ m.item = issued + 1
  BY MyLocals DEF Locals
<1>5. m.seg = Null
  BY <1>1, <1>4, MyLocals DEF HolderInv, Announces
<1>6. list' = list /\ memory' = memory
  BY DEF CallEnqueue
<1> HIDE DEF m
<1>7. m.at \notin Hold \cup Owning \cup Advancing \cup {"retire"}
  BY <1>4 DEF Hold, HoldTail, HoldHead, Owning, Advancing
<1>8. Announces(t, m) /\ Follows(m)
  BY <1>4, <1>5, <1>7 DEF Announces, Follows
<1>9. SegInv'
  BY <1>1, <1>2, <1>3, <1>6, <1>7, <1>8, StepQuiet
<1> QED BY <1>1, <1>2, <1>3, <1>4, <1>9

LEMMA CallDequeueSound ==
  ASSUME SegInv, NEW t \in Threads, CallDequeue(t)
  PROVE  SegInv' /\ \E m \in Locals :
           me' = [me EXCEPT ![t] = m] /\ m.at = "deqLoad"
<1> DEFINE m == [me[t] EXCEPT !.at = "deqLoad"]
<1>1. me' = [me EXCEPT ![t] = m] /\ me[t].at = "idle"
  BY DEF CallDequeue
<1>2. issued' \in 0 .. MaxItems
  BY DEF CallDequeue, SegInv, Types
<1>3. m \in Locals
  BY MyLocals DEF Locals, Places
<1>4. m.at = "deqLoad" /\ m.seg = me[t].seg
  BY MyLocals DEF Locals
<1>5. m.seg = Null
  BY <1>1, <1>4, MyLocals DEF HolderInv, Announces
<1>6. list' = list /\ memory' = memory
  BY DEF CallDequeue
<1> HIDE DEF m
<1>7. m.at \notin Hold \cup Owning \cup Advancing \cup {"retire"}
  BY <1>4 DEF Hold, HoldTail, HoldHead, Owning, Advancing
<1>8. Announces(t, m) /\ Follows(m)
  BY <1>4, <1>5, <1>7 DEF Announces, Follows
<1>9. SegInv'
  BY <1>1, <1>2, <1>3, <1>6, <1>7, <1>8, StepQuiet
<1> QED BY <1>1, <1>3, <1>4, <1>9

LEMMA PublishSound ==
  ASSUME SegInv, NEW t \in Threads, NEW here, NEW there, NEW k,
         Publish(t, here, there, k),
         \/ here = "enqPublish" /\ there \in {"enqRecheck", "enqLoad"} /\ k = kHpTail
         \/ here = "deqPublish" /\ there \in {"deqRecheck", "deqLoad"} /\ k = kHpHead
  PROVE  SegInv' /\ \E m \in Locals :
           /\ me' = [me EXCEPT ![t] = m]
           /\ m.at = there /\ m.seg = me[t].seg /\ m.item = me[t].item
<1>1. /\ me' = [me EXCEPT ![t] = [me[t] EXCEPT !.at = there]]
      /\ me[t].at = here /\ issued' = issued /\ HP!Protect(t, k, me[t].seg)
      /\ list' = list /\ retired' = retired /\ heap' = heap /\ scan' = scan
  BY DEF Publish, Goto, Become, history
<1>2. [me[t] EXCEPT !.at = there] \in Locals
  BY MyLocals DEF Locals, Places
<1>3. PICK m \in Locals : m = [me[t] EXCEPT !.at = there]
  BY <1>2
<1>4. m.at = there /\ m.seg = me[t].seg /\ m.item = me[t].item
  BY <1>3, MyLocals DEF Locals
<1>5. k \in 0 .. 1 /\ m.seg \in Segs \cup {Null} /\ HP!Protect(t, k, m.seg)
  BY <1>1, <1>4, MyLocals DEF kHpTail, kHpHead
<1>6. hp'[t][k] = m.seg
  BY <1>5 DEF HP!Protect, SegInv, Types
<1>7. /\ m.at \notin Hold \cup Owning \cup Advancing \cup {"retire"}
      /\ me[t].at \notin Hold \cup {"retire"}
  BY <1>1, <1>4 DEF Hold, HoldTail, HoldHead, Owning, Advancing
<1>8. Announces(t, m)'
  BY <1>4, <1>6 DEF Announces
<1>9. SegInv'
  BY <1>1, <1>3, <1>5, <1>7, <1>8, StepPublish
<1> QED BY <1>1, <1>3, <1>4, <1>9

LEMMA ClearSound ==
  ASSUME SegInv, NEW t \in Threads, NEW here, NEW k, NEW x,
         ClearAndReturn(t, here, k, x),
         here \in {"enqClear", "deqClear"}, k \in 0 .. 1
  PROVE  SegInv' /\ me' = [me EXCEPT ![t] = Fresh]
<1>1. /\ me' = [me EXCEPT ![t] = Fresh] /\ me[t].at = here /\ issued' = issued
      /\ HP!Protect(t, k, Null)
      /\ list' = list /\ retired' = retired /\ heap' = heap /\ scan' = scan
  BY DEF ClearAndReturn, HP!ClearOne, HP!Null, Null
<1>4. Fresh.at = "idle" /\ Fresh.seg = Null
  BY DEF Fresh
<1>7. /\ Fresh.at \notin Hold \cup Owning \cup Advancing \cup {"retire"}
      /\ me[t].at \notin Hold \cup {"retire"}
  BY <1>1, <1>4 DEF Hold, HoldTail, HoldHead, Owning, Advancing
<1>8. Announces(t, Fresh)'
  BY <1>4 DEF Announces, Fresh
<1>9. SegInv'
  BY <1>1, <1>7, <1>8, FreshLocals, StepPublish
<1> QED BY <1>1, <1>9

LEMMA EnqSwingSound ==
  ASSUME SegInv, NEW t \in Threads, EnqSwing(t)
  PROVE  SegInv' /\ \E m \in Locals :
           me' = [me EXCEPT ![t] = m] /\ m.at = "enqClear" /\ m.seg = me[t].seg
<1> DEFINE m == [me[t] EXCEPT !.at = "enqClear"]
<1>1. /\ me' = [me EXCEPT ![t] = m] /\ me[t].at = "enqSwing" /\ issued' = issued
      /\ CasTail(t) /\ head' = head /\ next' = next /\ memory' = memory
  BY DEF EnqSwing, Goto, Become, history
<1>3. m \in Locals
  BY MyLocals DEF Locals, Places
<1>4. m.at = "enqClear" /\ m.seg = me[t].seg
  BY MyLocals DEF Locals
<1> HIDE DEF m
<1>7. /\ m.at \notin Hold \cup Owning \cup Advancing \cup {"retire"}
      /\ me[t].at \in Advancing \cap HoldTail
  BY <1>1, <1>4 DEF Hold, HoldTail, HoldHead, Owning, Advancing
<1>8. Announces(t, m)
  BY <1>4 DEF Announces
<1>9. SegInv'
  BY <1>1, <1>3, <1>7, <1>8, StepCasTail
<1> QED BY <1>1, <1>3, <1>4, <1>9

LEMMA RetireStepSound ==
  ASSUME SegInv, NEW t \in Threads, RetireStep(t)
  PROVE  SegInv' /\ me' = me
<1>1. /\ me[t].at = "retire" /\ (HP!RetireLoad(t) \/ HP!RetireDelete(t))
      /\ list' = list /\ hp' = hp /\ me' = me /\ issued' = issued
  BY DEF RetireStep, history
<1>2. CASE HP!RetireLoad(t)
  BY <1>1, <1>2, StepRetireLoad DEF RetireStep
<1>3. CASE HP!RetireDelete(t)
  BY <1>1, <1>3, StepRetireDelete DEF RetireStep
<1> QED BY <1>1, <1>2, <1>3 DEF RetireStep

LEMMA RetireReturnSound ==
  ASSUME SegInv, NEW t \in Threads, NEW there, RetireReturn(t, there),
         \/ there = "deqPublish"
         \/ there = "deqLoad" /\ me[t].seg = Null
  PROVE  SegInv' /\ \E m \in Locals :
           me' = [me EXCEPT ![t] = m] /\ m.at = there /\ m.seg = me[t].seg
<1> DEFINE m == [me[t] EXCEPT !.at = there]
<1>1. /\ me' = [me EXCEPT ![t] = m] /\ me[t].at = "retire" /\ issued' = issued
      /\ scan' = [scan EXCEPT ![t] = HP!NoScan]
      /\ list' = list /\ hp' = hp /\ retired' = retired /\ heap' = heap
  BY DEF RetireReturn, Goto, Become, history
<1>3. m \in Locals
  BY MyLocals DEF Locals, Places
<1>4. m.at = there /\ m.seg = me[t].seg
  BY MyLocals DEF Locals
<1> HIDE DEF m
<1>7. m.at \notin Hold \cup Owning \cup Advancing \cup {"retire"}
  BY <1>4 DEF Hold, HoldTail, HoldHead, Owning, Advancing
<1>8. Announces(t, m)
  BY <1>4 DEF Announces
<1>9. SegInv'
  BY <1>1, <1>3, <1>7, <1>8, StepRetireReturn
<1> QED BY <1>1, <1>3, <1>4, <1>9

----------------------------------------------------------------------------
(* Linearizability: the monitor over these queues. *)

(* A set of naturals that is not empty has a least element. *)
LEMMA Least ==
  ASSUME NEW T, T \subseteq Nat, T # {}
  PROVE  \E n \in T : \A m \in T : n <= m
<1>1. IsWellFoundedOn(OpToRel(<, Nat), Nat)
  BY NatLessThanWellFounded
<1>2. \E n \in T : \A m \in T : ~ (<<m, n>> \in OpToRel(<, Nat))
  BY <1>1, WFMin
<1>3. \A m, n \in Nat : m < n => <<m, n>> \in OpToRel(<, Nat)
  BY DEF OpToRel
<1>4. PICK n \in T : \A m \in T : ~ (<<m, n>> \in OpToRel(<, Nat))
  BY <1>2
<1>5. \A m \in T : ~ m < n
  BY <1>3, <1>4
<1> QED BY <1>5

Calls == {Monitor!NoCall, Monitor!DeqCall}
           \cup {Monitor!EnqCall(v) : v \in Items}
           \cup {Monitor!Done(r) : r \in Items \cup {NoItem}}

(* A configuration of FifoMonitor; the queue does not close. *)
Conf(q, call) == [queue |-> q, closed |-> FALSE, call |-> call]
Confs == {Conf(q, call) : q \in Seq(Items), call \in [Threads -> Calls]}

DoneIn(d) == {t \in Threads : d.call[t].stage = "done"}

Stepped(C) ==
  C \cup UNION {UNION {Monitor!Effects(c, t) : t \in Threads} : c \in C}

N == Cardinality(Threads)

(* What the configurations C may have become after at most k effects. *)
After(C) ==
  CHOOSE f : f = [k \in 0 .. N |-> IF k = 0 THEN C ELSE Stepped(f[k - 1])]

(* d comes from C by no more effects than there are calls done in d. *)
Reaches(C, d) ==
  /\ d \in Confs
  /\ \E k \in 0 .. N : k <= Cardinality(DoneIn(d)) /\ d \in After(C)[k]

LEMMA Card == Monitor!Cardinality(Threads) = Cardinality(Threads)
BY DEF Monitor!Cardinality, Cardinality

LEMMA ClosureAfter == ASSUME NEW C PROVE Monitor!Closure(C) = After(C)[N]
BY Card, Zenon DEF Monitor!Closure, After, N, Stepped

LEMMA ThreadCount == IsFiniteSet(Threads) /\ N \in Nat
<1>1. 0 \in Int /\ NumThreads - 1 \in Int
  BY SegmentListAssumption
<1>2. IsFiniteSet(Threads)
  BY <1>1, FS_Interval DEF Threads
<1> QED BY <1>2, FS_CardinalityType DEF N

(* After is the function that its definition by recursion describes. *)
LEMMA AfterExists ==
  ASSUME NEW C, NEW n \in Nat
  PROVE  \E f : f = [k \in 0 .. n |-> IF k = 0 THEN C ELSE Stepped(f[k - 1])]
<1> DEFINE Fits(f, i) ==
             f = [k \in 0 .. i |-> IF k = 0 THEN C ELSE Stepped(f[k - 1])]
           T == {i \in Nat : ~ \E f : Fits(f, i)}
<1>1. SUFFICES ASSUME T # {} PROVE FALSE
  OBVIOUS
<1>2. PICK i \in T : \A j \in T : i <= j
  BY <1>1, Least
<1>3. i # 0
  <2> SUFFICES \E f : Fits(f, 0)
    OBVIOUS
  <2> DEFINE g == [k \in 0 .. 0 |-> C]
  <2>1. Fits(g, 0)
    OBVIOUS
  <2> QED BY <2>1
<1>4. i - 1 \in Nat /\ i - 1 \notin T
  BY <1>2, <1>3
<1>5. PICK g : Fits(g, i - 1)
  BY <1>4
<1> DEFINE f == [k \in 0 .. i |-> IF k \in 0 .. (i - 1) THEN g[k]
                                 ELSE Stepped(g[i - 1])]
<1>6. \A k \in 0 .. (i - 1) : g[k] = IF k = 0 THEN C ELSE Stepped(g[k - 1])
  BY <1>5
<1>7. \A k \in 0 .. i : f[k] = IF k = 0 THEN C ELSE Stepped(f[k - 1])
  <2> TAKE k \in 0 .. i
  <2>1. CASE k = 0
    BY <1>4, <1>6, <2>1
  <2>2. CASE k # 0
    <3>1. k - 1 \in 0 .. (i - 1) /\ k - 1 \in 0 .. i
      BY <1>3, <2>2
    <3>2. f[k - 1] = g[k - 1]
      BY <3>1
    <3>3. CASE k \in 0 .. (i - 1)
      BY <1>6, <2>2, <3>2, <3>3
    <3>4. CASE k \notin 0 .. (i - 1)
      <4>1. k = i
        BY <3>4
      <4> QED BY <2>2, <3>2, <3>4, <4>1
    <3> QED BY <3>3, <3>4
  <2> QED BY <2>1, <2>2
<1>8. Fits(f, i)
  <2> HIDE DEF f
  <2>1. f = [k \in 0 .. i |-> f[k]]
    BY DEF f
  <2> QED BY <1>7, <2>1
<1> QED BY <1>2, <1>8

LEMMA AfterRecursion ==
  ASSUME NEW C
  PROVE  /\ After(C)[0] = C
         /\ \A k \in 1 .. N : After(C)[k] = Stepped(After(C)[k - 1])
<1>1. \E f : f = [k \in 0 .. N |-> IF k = 0 THEN C ELSE Stepped(f[k - 1])]
  BY AfterExists, ThreadCount
<1>2. After(C) = [k \in 0 .. N |-> IF k = 0 THEN C ELSE Stepped(After(C)[k - 1])]
  BY <1>1, Zenon DEF After
<1>3. 0 \in 0 .. N /\ \A k \in 1 .. N : k \in 0 .. N /\ k # 0
  BY ThreadCount
<1> HIDE DEF After
<1> QED BY <1>2, <1>3

(* Induction over the number of effects. *)
LEMMA Least0 ==
  ASSUME NEW T, T \subseteq 0 .. N, 0 \notin T,
         ASSUME NEW k \in 1 .. N, k \in T PROVE k - 1 \in T
  PROVE  T = {}
<1>1. SUFFICES ASSUME T # {} PROVE FALSE
  OBVIOUS
<1>2. T \subseteq Nat
  BY ThreadCount
<1>3. PICK k \in T : \A j \in T : k <= j
  BY <1>1, <1>2, Least
<1>4. k \in 1 .. N
  BY <1>3, ThreadCount
<1>5. k - 1 \in T
  BY <1>4
<1> QED BY <1>3, <1>4, <1>5

LEMMA CallType ==
  /\ Monitor!NoCall \in Calls /\ Monitor!DeqCall \in Calls
  /\ \A v \in Items : Monitor!EnqCall(v) \in Calls
  /\ \A r \in Items \cup {NoItem} : Monitor!Done(r) \in Calls
  /\ Monitor!NoCall.stage = "idle" /\ Monitor!DeqCall.stage = "deq"
  /\ \A v : Monitor!EnqCall(v).stage = "enq" /\ Monitor!EnqCall(v).item = v
  /\ \A r : Monitor!Done(r).stage = "done" /\ Monitor!Done(r).item = r
BY DEF Calls, Monitor!NoCall, Monitor!DeqCall, Monitor!EnqCall, Monitor!Done

LEMMA StageFact ==
  ASSUME NEW x \in Calls
  PROVE  /\ x.stage = "deq" <=> x = Monitor!DeqCall
         /\ x.stage = "enq" <=> \E v \in Items : x = Monitor!EnqCall(v)
         /\ x.stage = "idle" <=> x = Monitor!NoCall
BY DEF Calls, Monitor!NoCall, Monitor!DeqCall, Monitor!EnqCall, Monitor!Done

LEMMA ConfType ==
  /\ \A q \in Seq(Items), call \in [Threads -> Calls] : Conf(q, call) \in Confs
  /\ \A d \in Confs : /\ d = Conf(d.queue, d.call) /\ d.closed = FALSE
                      /\ d.queue \in Seq(Items) /\ d.call \in [Threads -> Calls]
  /\ \A q, call : Conf(q, call).queue = q /\ Conf(q, call).call = call
                 /\ Conf(q, call).closed = FALSE
<1>1. \A q, call : /\ Conf(q, call).queue = q /\ Conf(q, call).call = call
                   /\ Conf(q, call).closed = FALSE
  BY DEF Conf
<1>2. \A d \in Confs : \E q \in Seq(Items), call \in [Threads -> Calls] :
        d = Conf(q, call)
  BY DEF Confs
<1>3. \A q \in Seq(Items), call \in [Threads -> Calls] : Conf(q, call) \in Confs
  BY DEF Confs
<1> QED BY <1>1, <1>2, <1>3

(* What the call of t may make of configuration d. *)
Takes(d, t, e) ==
  \/ /\ d.call[t] = Monitor!DeqCall /\ d.queue = <<>>
     /\ e = Conf(<<>>, [d.call EXCEPT ![t] = Monitor!Done(NoItem)])
  \/ /\ d.call[t] = Monitor!DeqCall /\ d.queue # <<>>
     /\ e = Conf(Tail(d.queue), [d.call EXCEPT ![t] = Monitor!Done(Head(d.queue))])
  \/ \E v \in Items :
       /\ d.call[t] = Monitor!EnqCall(v)
       /\ e = Conf(Append(d.queue, v), [d.call EXCEPT ![t] = Monitor!Done(NoItem)])

Triples == [queue : Seq(Items), closed : {FALSE}, call : [Threads -> Calls]]

LEMMA ConfIs ==
  ASSUME NEW w \in Triples
  PROVE  w = Conf(w.queue, w.call)
<1>1. w.queue \in Seq(Items) /\ w.closed = FALSE /\ w.call \in [Threads -> Calls]
  BY DEF Triples
<1>2. Conf(w.queue, w.call) \in Triples
  BY <1>1 DEF Triples, Conf
<1> DEFINE v == Conf(w.queue, w.call)
<1>3. v.queue = w.queue /\ v.closed = w.closed /\ v.call = w.call
  BY <1>1, ConfType
<1> HIDE DEF v
<1> QED BY <1>2, <1>3 DEF Triples, v

LEMMA TripleType ==
  ASSUME NEW d \in Confs
  PROVE  d \in Triples
<1>1. d = Conf(d.queue, d.call) /\ d.queue \in Seq(Items)
      /\ d.call \in [Threads -> Calls]
  BY ConfType
<1>2. Conf(d.queue, d.call) \in Triples
  BY <1>1 DEF Triples, Conf
<1> QED BY <1>1, <1>2

LEMMA ChangeCall ==
  ASSUME NEW d \in Confs, NEW t \in Threads, NEW x \in Calls
  PROVE  [d EXCEPT !.call[t] = x] = Conf(d.queue, [d.call EXCEPT ![t] = x])
<1> DEFINE w == [d EXCEPT !.call[t] = x]
<1>1. w \in Triples /\ w.queue = d.queue /\ w.call = [d.call EXCEPT ![t] = x]
  BY TripleType DEF Triples
<1> HIDE DEF w
<1>2. w = Conf(d.queue, [d.call EXCEPT ![t] = x])
  BY <1>1, ConfIs
<1> QED BY <1>2 DEF w

LEMMA EffectsFact ==
  ASSUME NEW d \in Confs, NEW t \in Threads
  PROVE  \A e : e \in Monitor!Effects(d, t) <=> Takes(d, t, e)
<1>0. d.call[t] \in Calls /\ d.closed = FALSE /\ d.queue \in Seq(Items)
  BY ConfType
<1>1. CASE d.call[t] = Monitor!DeqCall
  <2>1. d.call[t].stage = "deq" /\ \A v : d.call[t] # Monitor!EnqCall(v)
    BY <1>1, CallType
  <2>2. Monitor!Effects(d, t) = {Monitor!Dequeued(d, t)}
    BY <2>1 DEF Monitor!Effects
  <2>3. Monitor!Dequeued(d, t) =
          IF d.queue = <<>>
          THEN Conf(<<>>, [d.call EXCEPT ![t] = Monitor!Done(NoItem)])
          ELSE Conf(Tail(d.queue), [d.call EXCEPT ![t] = Monitor!Done(Head(d.queue))])
    <3>1. CASE d.queue = <<>>
      <4>1. Monitor!Dequeued(d, t) = [d EXCEPT !.call[t] = Monitor!Done(NoItem)]
        BY <3>1 DEF Monitor!Dequeued
      <4>2. Monitor!Done(NoItem) \in Calls
        BY CallType
      <4>3. Monitor!Dequeued(d, t)
              = Conf(d.queue, [d.call EXCEPT ![t] = Monitor!Done(NoItem)])
        BY <4>1, <4>2, ChangeCall
      <4> QED BY <3>1, <4>3
    <3>2. CASE d.queue # <<>>
      <4>1. Tail(d.queue) \in Seq(Items) /\ Head(d.queue) \in Items
        BY <1>0, <3>2
      <4>2. Monitor!Done(Head(d.queue)) \in Calls
        BY <4>1, CallType
      <4> DEFINE w == Monitor!Dequeued(d, t)
      <4>3. /\ w \in Triples /\ w.queue = Tail(d.queue)
            /\ w.call = [d.call EXCEPT ![t] = Monitor!Done(Head(d.queue))]
        BY <3>2, <4>1, <4>2, TripleType DEF Monitor!Dequeued, Triples
      <4> HIDE DEF w
      <4>4. w = Conf(Tail(d.queue),
                     [d.call EXCEPT ![t] = Monitor!Done(Head(d.queue))])
        BY <4>3, ConfIs
      <4> QED BY <3>2, <4>4 DEF w
    <3> QED BY <3>1, <3>2
  <2> QED BY <1>1, <2>1, <2>2, <2>3 DEF Takes
<1>2. ASSUME NEW v \in Items, d.call[t] = Monitor!EnqCall(v)
      PROVE  \A e : e \in Monitor!Effects(d, t) <=> Takes(d, t, e)
  <2>1. /\ d.call[t].stage = "enq" /\ d.call[t].item = v
        /\ d.call[t] # Monitor!DeqCall
        /\ \A w : d.call[t] = Monitor!EnqCall(w) => w = v
    BY <1>2, CallType
  <2>2. Monitor!Effects(d, t) = {Monitor!Enqueued(d, t)}
    BY <1>0, <2>1 DEF Monitor!Effects
  <2>3. Monitor!Enqueued(d, t) =
          Conf(Append(d.queue, v), [d.call EXCEPT ![t] = Monitor!Done(NoItem)])
    <3>1. Append(d.queue, v) \in Seq(Items)
      BY <1>0
    <3>2. Monitor!Done(NoItem) \in Calls
      BY CallType
    <3> DEFINE w == Monitor!Enqueued(d, t)
    <3>3. /\ w \in Triples /\ w.queue = Append(d.queue, v)
          /\ w.call = [d.call EXCEPT ![t] = Monitor!Done(NoItem)]
      BY <2>1, <3>1, <3>2, TripleType DEF Monitor!Enqueued, Triples
    <3> HIDE DEF w
    <3> QED BY <3>3, ConfIs DEF w
  <2> QED BY <1>2, <2>1, <2>2, <2>3 DEF Takes
<1>3. CASE /\ d.call[t] # Monitor!DeqCall
           /\ \A v \in Items : d.call[t] # Monitor!EnqCall(v)
  <2>1. d.call[t].stage # "deq" /\ d.call[t].stage # "enq"
    BY <1>0, <1>3, StageFact
  <2>2. Monitor!Effects(d, t) = {}
    BY <2>1 DEF Monitor!Effects
  <2> QED BY <1>3, <2>2 DEF Takes
<1> QED BY <1>1, <1>2, <1>3

LEMMA TakesFacts ==
  ASSUME NEW d \in Confs, NEW t \in Threads, NEW e, Takes(d, t, e)
  PROVE  /\ e \in Confs
         /\ d.call[t].stage # "done" /\ d.call[t].stage # "idle"
         /\ e.call[t].stage = "done"
         /\ \A u \in Threads : u # t => e.call[u] = d.call[u]
<1>0. d.call \in [Threads -> Calls] /\ d.queue \in Seq(Items)
  BY ConfType
<1>1. PICK q \in Seq(Items), r \in Items \cup {NoItem} :
        e = Conf(q, [d.call EXCEPT ![t] = Monitor!Done(r)])
  <2>1. CASE d.call[t] = Monitor!DeqCall /\ d.queue # <<>>
    <3>1. Head(d.queue) \in Items /\ Tail(d.queue) \in Seq(Items)
      BY <1>0, <2>1
    <3> QED BY <2>1, <3>1, CallType DEF Takes
  <2>2. CASE d.call[t] = Monitor!DeqCall /\ d.queue = <<>>
    BY <1>0, <2>2, CallType DEF Takes
  <2>3. CASE \E v \in Items : d.call[t] = Monitor!EnqCall(v)
    <3>1. \A v \in Items : Append(d.queue, v) \in Seq(Items)
      BY <1>0
    <3> QED BY <2>3, <3>1, CallType DEF Takes
  <2> QED BY <2>1, <2>2, <2>3 DEF Takes
<1>2. [d.call EXCEPT ![t] = Monitor!Done(r)] \in [Threads -> Calls]
  BY <1>0, CallType
<1>3. e \in Confs /\ e.call = [d.call EXCEPT ![t] = Monitor!Done(r)]
  BY <1>1, <1>2, ConfType
<1>4. d.call[t].stage # "done" /\ d.call[t].stage # "idle"
  BY CallType DEF Takes
<1> QED BY <1>0, <1>3, <1>4, CallType

LEMMA SteppedFact ==
  ASSUME NEW D, D \subseteq Confs
  PROVE  /\ \A e : e \in Stepped(D) <=>
               e \in D \/ \E c \in D, t \in Threads : Takes(c, t, e)
         /\ Stepped(D) \subseteq Confs
<1>1. \A e : e \in Stepped(D) <=>
        e \in D \/ \E c \in D : \E t \in Threads : e \in Monitor!Effects(c, t)
  BY DEF Stepped
<1>2. \A c \in D : \A t \in Threads : \A e :
        e \in Monitor!Effects(c, t) <=> Takes(c, t, e)
  BY EffectsFact
<1>3. \A e : e \in Stepped(D) <=>
        e \in D \/ \E c \in D : \E t \in Threads : Takes(c, t, e)
  BY <1>1, <1>2
<1>4. \A c \in D : \A t \in Threads : \A e : Takes(c, t, e) => e \in Confs
  BY TakesFacts
<1> QED BY <1>3, <1>4

LEMMA AfterConfs ==
  ASSUME NEW C, C \subseteq Confs
  PROVE  \A k \in 0 .. N : After(C)[k] \subseteq Confs
<1> DEFINE T == {k \in 0 .. N : ~ (After(C)[k] \subseteq Confs)}
<1>1. 0 \notin T
  BY AfterRecursion
<1>2. ASSUME NEW k \in 1 .. N, k \in T PROVE k - 1 \in T
  <2>1. k - 1 \in 0 .. N
    BY ThreadCount
  <2>2. SUFFICES ASSUME After(C)[k - 1] \subseteq Confs PROVE FALSE
    BY <2>1
  <2>3. Stepped(After(C)[k - 1]) \subseteq Confs
    BY <2>2, SteppedFact
  <2> QED BY <1>2, <2>3, AfterRecursion
<1>3. T \subseteq 0 .. N
  OBVIOUS
<1> HIDE DEF T
<1>4. T = {}
  BY <1>1, <1>2, <1>3, Least0
<1> QED BY <1>4 DEF T

(* Once more effects are allowed, nothing is lost. *)
LEMMA AfterGrows ==
  ASSUME NEW C, C \subseteq Confs, NEW i \in 0 .. N
  PROVE  After(C)[i] \subseteq After(C)[N]
<1> DEFINE T == {k \in 0 .. N : i <= k /\ ~ (After(C)[i] \subseteq After(C)[k])}
<1>0. i \in Nat /\ N \in Nat
  BY ThreadCount
<1>1. 0 \notin T
  BY <1>0
<1>2. ASSUME NEW k \in 1 .. N, k \in T PROVE k - 1 \in T
  <2>1. k - 1 \in 0 .. N /\ i <= k /\ k # i
    BY <1>0, <1>2
  <2>2. i <= k - 1
    BY <1>0, <2>1
  <2>3. After(C)[k] = Stepped(After(C)[k - 1])
    BY AfterRecursion
  <2>4. After(C)[k - 1] \subseteq After(C)[k]
    BY <2>3 DEF Stepped
  <2>5. ~ (After(C)[i] \subseteq After(C)[k])
    BY <1>2
  <2> QED BY <2>1, <2>2, <2>4, <2>5
<1>3. T \subseteq 0 .. N
  OBVIOUS
<1>4. N \in 0 .. N /\ i <= N
  BY <1>0
<1> HIDE DEF T
<1>5. T = {}
  BY <1>1, <1>2, <1>3, Least0
<1> QED BY <1>4, <1>5 DEF T

LEMMA DoneCount ==
  ASSUME NEW d
  PROVE  Cardinality(DoneIn(d)) \in 0 .. N
<1>1. DoneIn(d) \subseteq Threads
  BY DEF DoneIn
<1>2. Cardinality(DoneIn(d)) \in Nat /\ Cardinality(DoneIn(d)) <= N
  BY <1>1, ThreadCount, FS_Subset, FS_CardinalityType DEF N
<1> QED BY <1>2, ThreadCount

(* A configuration that is there is reached. *)
LEMMA ReachesStart ==
  ASSUME NEW C, C \subseteq Confs, NEW d \in C
  PROVE  Reaches(C, d)
<1>1. 0 \in 0 .. N /\ 0 <= Cardinality(DoneIn(d))
  BY ThreadCount, DoneCount
<1> QED BY <1>1, AfterRecursion DEF Reaches

(* A pending call may take effect. *)
LEMMA ReachesMore ==
  ASSUME NEW C, C \subseteq Confs, NEW d, Reaches(C, d),
         NEW t \in Threads, NEW e, Takes(d, t, e)
  PROVE  Reaches(C, e)
<1>1. PICK k \in 0 .. N : k <= Cardinality(DoneIn(d)) /\ d \in After(C)[k]
  BY DEF Reaches
<1>2. /\ d \in Confs /\ e \in Confs /\ t \notin DoneIn(d)
      /\ DoneIn(e) = DoneIn(d) \cup {t}
  BY TakesFacts DEF Reaches, DoneIn
<1>3. Cardinality(DoneIn(e)) = Cardinality(DoneIn(d)) + 1
  <2>1. IsFiniteSet(DoneIn(d))
    BY ThreadCount, FS_Subset DEF DoneIn
  <2> QED BY <1>2, <2>1, FS_AddElement
<1>4. /\ k + 1 \in 1 .. N /\ k + 1 <= Cardinality(DoneIn(e)) /\ (k + 1) - 1 = k
      /\ k + 1 \in 0 .. N
  BY <1>1, <1>3, DoneCount, ThreadCount
<1>5. After(C)[k + 1] = Stepped(After(C)[k])
  BY <1>4, AfterRecursion
<1>6. e \in After(C)[k + 1]
  BY <1>1, <1>5, AfterConfs, SteppedFact
<1> QED BY <1>2, <1>4, <1>6 DEF Reaches

LEMMA ReachesSome ==
  ASSUME NEW C, NEW d, Reaches(C, d)
  PROVE  C # {}
<1>1. SUFFICES ASSUME C = {} PROVE FALSE
  OBVIOUS
<1> DEFINE T == {k \in 0 .. N : After(C)[k] # {}}
<1>2. 0 \notin T
  BY <1>1, AfterRecursion
<1>3. ASSUME NEW k \in 1 .. N, k \in T PROVE k - 1 \in T
  <2>1. k - 1 \in 0 .. N
    BY ThreadCount
  <2>2. After(C)[k] = Stepped(After(C)[k - 1]) /\ After(C)[k] # {}
    BY <1>3, AfterRecursion
  <2>3. After(C)[k - 1] # {}
    BY <2>2 DEF Stepped
  <2> QED BY <2>1, <2>3
<1>4. T \subseteq 0 .. N
  OBVIOUS
<1> HIDE DEF T
<1>5. T = {}
  BY <1>2, <1>3, <1>4, Least0
<1> QED BY <1>5 DEF T, Reaches

(* d after the call of t has become x. *)
With(d, t, x) == Conf(d.queue, [d.call EXCEPT ![t] = x])

LEMMA WithType ==
  ASSUME NEW d \in Confs, NEW t \in Threads, NEW x \in Calls
  PROVE  /\ With(d, t, x) \in Confs /\ [d EXCEPT !.call[t] = x] = With(d, t, x)
         /\ With(d, t, x).queue = d.queue /\ With(d, t, x).call[t] = x
         /\ \A u \in Threads : u # t => With(d, t, x).call[u] = d.call[u]
         /\ With(d, t, x).call = [d.call EXCEPT ![t] = x]
<1>1. d.queue \in Seq(Items) /\ d.call \in [Threads -> Calls]
  BY ConfType
<1>2. [d.call EXCEPT ![t] = x] \in [Threads -> Calls]
  BY <1>1
<1> DEFINE c == [d.call EXCEPT ![t] = x]
<1>3. With(d, t, x) = Conf(d.queue, c) /\ [d EXCEPT !.call[t] = x] = Conf(d.queue, c)
  BY ChangeCall DEF With
<1>4. c[t] = x /\ \A u \in Threads : u # t => c[u] = d.call[u]
  BY <1>1
<1>5. /\ Conf(d.queue, c) \in Confs
      /\ Conf(d.queue, c).queue = d.queue /\ Conf(d.queue, c).call = c
  BY <1>1, <1>2, ConfType
<1> QED BY ONLY <1>3, <1>4, <1>5

LEMMA WithIs ==
  \A d \in Confs : \A t \in Threads : \A x \in Calls :
    With(d, t, x) \in Confs /\ [d EXCEPT !.call[t] = x] = With(d, t, x)
<1> TAKE d \in Confs
<1> TAKE t \in Threads
<1> TAKE x \in Calls
<1>1. With(d, t, x) \in Confs
  BY WithType
<1>2. [d EXCEPT !.call[t] = x] = With(d, t, x)
  BY ChangeCall DEF With
<1> QED BY <1>1, <1>2

LEMMA WithCall ==
  \A d \in Confs : \A t \in Threads : \A x \in Calls :
    /\ With(d, t, x).call[t] = x
    /\ \A u \in Threads : u # t => With(d, t, x).call[u] = d.call[u]
<1> TAKE d \in Confs
<1> TAKE t \in Threads
<1> TAKE x \in Calls
<1>1. d.call \in [Threads -> Calls] /\ With(d, t, x).call = [d.call EXCEPT ![t] = x]
  BY ConfType DEF With
<1> QED BY <1>1

(* What another call does it also does when t has called. *)
LEMMA TakesWith ==
  ASSUME NEW c \in Confs, NEW t \in Threads, NEW u \in Threads, u # t,
         NEW e, Takes(c, u, e), NEW x \in Calls
  PROVE  Takes(With(c, t, x), u, With(e, t, x))
<1> DEFINE w == With(c, t, x)
<1>1. /\ c.call \in [Threads -> Calls] /\ w.queue = c.queue
      /\ w.call[u] = c.call[u] /\ w.call = [c.call EXCEPT ![t] = x]
  BY WithType, ConfType
<1>2. \A r : [[c.call EXCEPT ![u] = r] EXCEPT ![t] = x] = [w.call EXCEPT ![u] = r]
  BY <1>1
<1>3. \A q, r : e = Conf(q, [c.call EXCEPT ![u] = r]) =>
        With(e, t, x) = Conf(q, [w.call EXCEPT ![u] = r])
  <2> TAKE q, r
  <2> HAVE e = Conf(q, [c.call EXCEPT ![u] = r])
  <2>1. e.queue = q /\ e.call = [c.call EXCEPT ![u] = r]
    BY ConfType
  <2>2. With(e, t, x) = Conf(q, [[c.call EXCEPT ![u] = r] EXCEPT ![t] = x])
    BY <2>1 DEF With
  <2> QED BY <1>2, <2>2
<1> HIDE DEF w
<1>4. Takes(w, u, With(e, t, x))
  <2>1. CASE /\ c.call[u] = Monitor!DeqCall /\ c.queue = <<>>
             /\ e = Conf(<<>>, [c.call EXCEPT ![u] = Monitor!Done(NoItem)])
    <3>1. With(e, t, x) = Conf(<<>>, [w.call EXCEPT ![u] = Monitor!Done(NoItem)])
      BY <1>3, <2>1
    <3> QED BY <1>1, <2>1, <3>1 DEF Takes
  <2>2. CASE /\ c.call[u] = Monitor!DeqCall /\ c.queue # <<>>
             /\ e = Conf(Tail(c.queue),
                         [c.call EXCEPT ![u] = Monitor!Done(Head(c.queue))])
    <3>1. With(e, t, x)
            = Conf(Tail(w.queue), [w.call EXCEPT ![u] = Monitor!Done(Head(w.queue))])
      BY <1>1, <1>3, <2>2
    <3> QED BY <1>1, <2>2, <3>1 DEF Takes
  <2>3. ASSUME NEW v \in Items, c.call[u] = Monitor!EnqCall(v),
               e = Conf(Append(c.queue, v),
                        [c.call EXCEPT ![u] = Monitor!Done(NoItem)])
        PROVE  Takes(w, u, With(e, t, x))
    <3>1. With(e, t, x)
            = Conf(Append(w.queue, v), [w.call EXCEPT ![u] = Monitor!Done(NoItem)])
      BY <1>1, <1>3, <2>3
    <3> QED BY <1>1, <2>3, <3>1 DEF Takes
  <2> QED BY <2>1, <2>2, <2>3 DEF Takes
<1> QED BY <1>4 DEF w

LEMMA ReachesCall ==
  ASSUME NEW C, C \subseteq Confs, NEW d, Reaches(C, d), NEW t \in Threads,
         d.call[t] = Monitor!NoCall, NEW x \in Calls, x.stage # "done"
  PROVE  /\ Monitor!Called(C, t, x) \subseteq Confs
         /\ Reaches(Monitor!Called(C, t, x), With(d, t, x))
<1> DEFINE C2 == Monitor!Called(C, t, x)
           T == {k \in 0 .. N : \E e \in After(C)[k] :
                   e.call[t] = Monitor!NoCall /\ With(e, t, x) \notin After(C2)[k]}
<1>0. /\ \A c \in C : With(c, t, x) \in C2
      /\ C2 \subseteq Confs
  <2>1. C2 = {[c EXCEPT !.call[t] = x] : c \in C}
    BY DEF Monitor!Called
  <2>2. ASSUME NEW c \in C
        PROVE  /\ [c EXCEPT !.call[t] = x] = With(c, t, x)
               /\ With(c, t, x) \in Confs
    <3>1. c \in Confs
      OBVIOUS
    <3> QED BY <3>1, WithIs
  <2> HIDE DEF C2
  <2> QED BY <2>1, <2>2
<1> HIDE DEF C2
<1>1. 0 \notin T
  BY <1>0, AfterRecursion
<1>2. ASSUME NEW k \in 1 .. N, k \in T PROVE k - 1 \in T
  <2>1. k - 1 \in 0 .. N
    BY ThreadCount
  <2>2. PICK e \in After(C)[k] :
          e.call[t] = Monitor!NoCall /\ With(e, t, x) \notin After(C2)[k]
    BY <1>2
  <2>3. /\ After(C)[k] = Stepped(After(C)[k - 1])
        /\ After(C2)[k] = Stepped(After(C2)[k - 1])
    BY AfterRecursion
  <2>4. After(C)[k - 1] \subseteq Confs /\ After(C2)[k - 1] \subseteq Confs
    BY <1>0, <2>1, AfterConfs
  <2>5. SUFFICES ASSUME k - 1 \notin T PROVE FALSE
    OBVIOUS
  <2>6. \A c \in After(C)[k - 1] :
          c.call[t] = Monitor!NoCall => With(c, t, x) \in After(C2)[k - 1]
    BY <2>1, <2>5
  <2>7. CASE e \in After(C)[k - 1]
    BY <2>2, <2>3, <2>4, <2>6, <2>7, SteppedFact
  <2>8. ASSUME NEW c \in After(C)[k - 1], NEW u \in Threads, Takes(c, u, e)
        PROVE  FALSE
    <3>1. e.call[u].stage = "done" /\ (u # t => e.call[t] = c.call[t])
      BY <2>4, <2>8, TakesFacts
    <3>2. u # t
      BY <2>2, <3>1, CallType
    <3>3. With(c, t, x) \in After(C2)[k - 1]
      BY <2>2, <2>6, <3>1, <3>2
    <3>4. Takes(With(c, t, x), u, With(e, t, x))
      BY <2>4, <2>8, <3>2, TakesWith
    <3> QED BY <2>2, <2>3, <2>4, <3>3, <3>4, SteppedFact
  <2> QED BY <2>2, <2>3, <2>4, <2>7, <2>8, SteppedFact
<1>3. T \subseteq 0 .. N
  OBVIOUS
<1>4. PICK k \in 0 .. N : k <= Cardinality(DoneIn(d)) /\ d \in After(C)[k]
  BY DEF Reaches
<1>5. d \in Confs
  BY DEF Reaches
<1> HIDE DEF T
<1>6. T = {}
  BY <1>1, <1>2, <1>3, Least0
<1>7. With(d, t, x) \in After(C2)[k]
  BY <1>4, <1>6 DEF T
<1>8. DoneIn(With(d, t, x)) = DoneIn(d)
  <2>0. /\ With(d, t, x).call[t] = x
        /\ \A u \in Threads : u # t => With(d, t, x).call[u] = d.call[u]
    BY <1>5, WithCall
  <2> HIDE DEF With
  <2>1. ASSUME NEW u \in Threads
        PROVE  With(d, t, x).call[u].stage = "done" <=> d.call[u].stage = "done"
    <3>1. CASE u = t
      BY <2>0, <3>1, CallType
    <3>2. CASE u # t
      BY <2>0, <3>2
    <3> QED BY <3>1, <3>2
  <2> QED BY <2>1 DEF DoneIn
<1>9. Reaches(C2, With(d, t, x))
  BY <1>4, <1>5, <1>7, <1>8, WithType DEF Reaches
<1> QED BY <1>0, <1>9 DEF C2

LEMMA ReachesReturn ==
  ASSUME NEW C, C \subseteq Confs, NEW d, Reaches(C, d), NEW t \in Threads,
         NEW r \in Items \cup {NoItem}, d.call[t] = Monitor!Done(r)
  PROVE  /\ Monitor!Returned(C, t, r) \subseteq Confs
         /\ Reaches(Monitor!Returned(C, t, r), With(d, t, Monitor!NoCall))
<1>1. Monitor!Closure(C) = After(C)[N] /\ N \in 0 .. N
  BY ClosureAfter, ThreadCount
<1>2. Monitor!Closure(C) \subseteq Confs
  BY <1>1, AfterConfs
<1>3. PICK k \in 0 .. N : d \in After(C)[k]
  BY DEF Reaches
<1>4. d \in Monitor!Closure(C) /\ d \in Confs
  BY <1>1, <1>3, AfterGrows DEF Reaches
<1>5. \A c \in Confs : /\ [c EXCEPT !.call[t] = Monitor!NoCall] = With(c, t, Monitor!NoCall)
                      /\ With(c, t, Monitor!NoCall) \in Confs
  <2>1. Monitor!NoCall \in Calls
    BY CallType
  <2> TAKE c \in Confs
  <2> QED BY <2>1, WithIs
<1> DEFINE C2 == Monitor!Returned(C, t, r)
<1>6. C2 = {[c EXCEPT !.call[t] = Monitor!NoCall] :
              c \in {e \in Monitor!Closure(C) : e.call[t] = Monitor!Done(r)}}
  BY DEF Monitor!Returned
<1> HIDE DEF C2
<1>7. C2 \subseteq Confs
  BY <1>2, <1>5, <1>6
<1>8. With(d, t, Monitor!NoCall) \in C2
  BY <1>4, <1>5, <1>6
<1>9. Reaches(C2, With(d, t, Monitor!NoCall))
  BY <1>7, <1>8, ReachesStart
<1> QED BY <1>7, <1>9 DEF C2
=============================================================================
