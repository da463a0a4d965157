------------------------ MODULE FlatCombiningProofs ------------------------
(***************************************************************************)
(* Proofs about FlatCombining, for any number of threads, any set of items *)
(* and any bound on the elements outstanding.                              *)
(***************************************************************************)
EXTENDS FlatCombining, TLAPS

(* lock_ is held by the thread that runs scan_combine_apply. *)
LockInv == \A t \in Threads : Combining(t) <=> lock = t

(* A published request belongs to a thread in its waiting loop; the one    *)
(* being served is published; a combiner past its own slot has served it.  *)
PublishedInv ==
  \A t \in Threads : opcode[t] # "Done" =>
    /\ opcode[t] = request[t]
    /\ pc[t] \in {"try", "poll", "scan", "dispatch", "finish"}

ServedInv ==
  \A c \in Threads : pc[c] \in {"dispatch", "finish"} =>
    /\ i[c] \in Threads
    /\ opcode[i[c]] # "Done"
    /\ pc[c] = "dispatch" => code[c] = opcode[i[c]]

PassedInv ==
  \A c \in Threads : Combining(c) /\ c < i[c] => opcode[c] = "Done"

SlotInv == PublishedInv /\ ServedInv /\ PassedInv

(* An enqueue request carries an item. *)
ItemInv ==
  \A t \in Threads :
    \/ opcode[t] = "Enqueue"
    \/ pc[t] = "publish" /\ request[t] = "Enqueue"
    => value[t] \in Values

(* How far the combiner's pass over the slots has come. *)
Passed(c) == IF pc[c] = "finish" THEN i[c] + 1 ELSE i[c]

(* When u can have overtaken the request t waits with.  The slots are      *)
(* served in order: a u before t was served by the pass that has yet to    *)
(* reach t; a u after t by a pass that had left t behind, so that no later *)
(* pass reaches u again before it reaches t.                               *)
Overtook(t, u) ==
  \/ /\ u < t
     /\ lock \in Threads
     /\ u < Passed(lock)
     /\ Passed(lock) <= t
  \/ /\ t < u
     /\ lock \in Threads => Passed(lock) <= t \/ u < Passed(lock)

BypassInv ==
  \A t, u \in Threads :
    \/ bypass[t][u] = 0
    \/ bypass[t][u] = 1 /\ Waiting(t) /\ Overtook(t, u)

(* A dequeue that reports success has an item in its slot. *)
ResultInv ==
  \A t \in Threads : request[t] = "Dequeue" /\ success[t] => value[t] \in Values

Inv == TypeOK /\ LockInv /\ SlotInv /\ ItemInv /\ ResultInv

(* Unfolded by every step below. *)
USE FCAssumption DEF FCAssumption, Free, Opcodes, slots, Combining

LEMMA InitInv == Init => Inv
  BY DEF Init, Inv, TypeOK, LockInv, SlotInv, PublishedInv, ServedInv,
         PassedInv, ItemInv, ResultInv, NoBypass, Threads

LEMMA IndexBounds ==
  /\ NumThreads \notin Threads
  /\ Threads \subseteq Nat
  /\ \A k \in Threads : k + 1 \in 0 .. NumThreads
  /\ \A k \in 0 .. NumThreads : k < NumThreads => k \in Threads
  BY DEF Threads

(* What one request served does to the history variable. *)
LEMMA CountBypassType ==
  ASSUME bypass \in [Threads -> [Threads -> Nat]],
         NEW s \in Threads, CountBypass(s)
  PROVE  bypass' \in [Threads -> [Threads -> Nat]]
<1> DEFINE b(t) == IF t = s THEN NoBypass
                   ELSE IF Waiting(t) THEN [bypass[t] EXCEPT ![s] = @ + 1]
                   ELSE bypass[t]
<1>1. \A t \in Threads : b(t) \in [Threads -> Nat]
  BY DEF NoBypass
<1>2. bypass' = [t \in Threads |-> b(t)]
  BY DEF CountBypass
<1> HIDE DEF b
<1> QED
  BY <1>1, <1>2

LEMMA InvType == Inv /\ [Next]_vars => TypeOK'
<1> SUFFICES ASSUME TypeOK, SlotInv, ItemInv, [Next]_vars PROVE TypeOK'
  BY DEF Inv
<1> USE DEF TypeOK
<1>1. ASSUME NEW t \in Threads, NEW v \in Values, CallEnqueue(t, v)
      PROVE  TypeOK'
  BY <1>1 DEF CallEnqueue
<1>2. ASSUME NEW t \in Threads, CallDequeue(t) PROVE TypeOK'
  BY <1>2 DEF CallDequeue
<1>3. ASSUME NEW t \in Threads, Publish(t) PROVE TypeOK'
  BY <1>3 DEF Publish, NoBypass
<1>4. ASSUME NEW t \in Threads, TryLock(t) PROVE TypeOK'
  BY <1>4 DEF TryLock
<1>5. ASSUME NEW t \in Threads, TryLockFails(t) PROVE TypeOK'
  BY <1>5 DEF TryLockFails
<1>6. ASSUME NEW t \in Threads, Poll(t) PROVE TypeOK'
  BY <1>6 DEF Poll
<1>7. ASSUME NEW t \in Threads, Return(t) PROVE TypeOK'
  BY <1>7 DEF Return
<1>8. ASSUME NEW t \in Threads, Load(t) PROVE TypeOK'
  <2>0. i[t] \in 0 .. NumThreads /\ i[t] < NumThreads
    BY <1>8 DEF Load
  <2>1. i[t] \in Threads /\ i[t] + 1 \in 0 .. NumThreads
    BY <2>0, IndexBounds
  <2>2. CASE opcode[i[t]] = "Done"
    BY <1>8, <2>1, <2>2 DEF Load
  <2>3. CASE opcode[i[t]] # "Done"
    BY <1>8, <2>1, <2>3 DEF Load
  <2> QED
    BY <2>2, <2>3
<1>9. ASSUME NEW t \in Threads, ApplyEnqueue(t) PROVE TypeOK'
  <2>1. i[t] \in Threads /\ value[i[t]] \in Values
    BY <1>9 DEF ApplyEnqueue, SlotInv, ServedInv, PublishedInv, ItemInv
  <2>2. q' \in Seq(Values)
    BY <1>9, <2>1 DEF ApplyEnqueue
  <2>3. bypass' \in [Threads -> [Threads -> Nat]]
    BY <1>9, <2>1, CountBypassType DEF ApplyEnqueue
  <2> QED
    BY <1>9, <2>2, <2>3 DEF ApplyEnqueue
<1>10. ASSUME NEW t \in Threads, ApplyDequeue(t) PROVE TypeOK'
  <2>1. i[t] \in Threads
    BY <1>10 DEF ApplyDequeue, SlotInv, ServedInv
  <2>2. CountBypass(i[t])
    BY <1>10 DEF ApplyDequeue
  <2>3. bypass' \in [Threads -> [Threads -> Nat]]
    BY <2>1, <2>2, CountBypassType
  <2>4. CASE q # <<>>
    <3>1. Head(q) \in Values /\ Tail(q) \in Seq(Values)
      BY <2>4
    <3>2. value' \in [Threads -> Values \cup {NoValue}]
      BY <1>10, <2>1, <2>4, <3>1 DEF ApplyDequeue
    <3>3. success' \in [Threads -> BOOLEAN]
      BY <1>10, <2>1, <2>4 DEF ApplyDequeue
    <3>4. q' = Tail(q)
      BY <1>10, <2>4 DEF ApplyDequeue
    <3> QED
      BY <1>10, <2>3, <3>1, <3>2, <3>3, <3>4 DEF ApplyDequeue
  <2>5. CASE q = <<>>
    BY <1>10, <2>1, <2>3, <2>5 DEF ApplyDequeue
  <2> QED
    BY <2>4, <2>5
<1>11. ASSUME NEW t \in Threads, Finish(t) PROVE TypeOK'
  <2>0. i[t] \in Threads
    BY <1>11 DEF Finish, SlotInv, ServedInv
  <2>1. i[t] + 1 \in 0 .. NumThreads
    BY <2>0, IndexBounds
  <2> QED
    BY <1>11, <2>0, <2>1 DEF Finish
<1>12. ASSUME NEW t \in Threads, Unlock(t) PROVE TypeOK'
  BY <1>12, 0 \in 0 .. NumThreads DEF Unlock
<1>13. CASE UNCHANGED vars
  BY <1>13 DEF vars
<1> QED
  BY <1>1, <1>2, <1>3, <1>4, <1>5, <1>6, <1>7, <1>8, <1>9, <1>10, <1>11,
     <1>12, <1>13 DEF Next, Call, Step

LEMMA InvLock == Inv /\ [Next]_vars => LockInv'
<1> SUFFICES ASSUME TypeOK, LockInv, [Next]_vars PROVE LockInv'
  BY DEF Inv
<1> USE IndexBounds DEF TypeOK, LockInv
<1>1. ASSUME NEW t \in Threads, NEW v \in Values, CallEnqueue(t, v)
      PROVE  LockInv'
  BY <1>1 DEF CallEnqueue
<1>2. ASSUME NEW t \in Threads, CallDequeue(t) PROVE LockInv'
  BY <1>2 DEF CallDequeue
<1>3. ASSUME NEW t \in Threads, Publish(t) PROVE LockInv'
  BY <1>3 DEF Publish
<1>4. ASSUME NEW t \in Threads, TryLock(t) PROVE LockInv'
  BY <1>4 DEF TryLock
<1>5. ASSUME NEW t \in Threads, TryLockFails(t) PROVE LockInv'
  BY <1>5 DEF TryLockFails
<1>6. ASSUME NEW t \in Threads, Poll(t) PROVE LockInv'
  BY <1>6 DEF Poll
<1>7. ASSUME NEW t \in Threads, Return(t) PROVE LockInv'
  BY <1>7 DEF Return
<1>8. ASSUME NEW t \in Threads, Load(t) PROVE LockInv'
  BY <1>8 DEF Load
<1>9. ASSUME NEW t \in Threads, ApplyEnqueue(t) PROVE LockInv'
  BY <1>9 DEF ApplyEnqueue
<1>10. ASSUME NEW t \in Threads, ApplyDequeue(t) PROVE LockInv'
  BY <1>10 DEF ApplyDequeue
<1>11. ASSUME NEW t \in Threads, Finish(t) PROVE LockInv'
  BY <1>11 DEF Finish
<1>12. ASSUME NEW t \in Threads, Unlock(t) PROVE LockInv'
  BY <1>12 DEF Unlock
<1>13. CASE UNCHANGED vars
  BY <1>13 DEF vars
<1> QED
  BY <1>1, <1>2, <1>3, <1>4, <1>5, <1>6, <1>7, <1>8, <1>9, <1>10, <1>11,
     <1>12, <1>13 DEF Next, Call, Step

LEMMA InvItem == Inv /\ [Next]_vars => ItemInv'
<1> SUFFICES ASSUME TypeOK, SlotInv, ItemInv, [Next]_vars PROVE ItemInv'
  BY DEF Inv
<1> USE DEF TypeOK, ItemInv, SlotInv, PublishedInv, ServedInv
<1>1. ASSUME NEW t \in Threads, NEW v \in Values, CallEnqueue(t, v)
      PROVE  ItemInv'
  BY <1>1 DEF CallEnqueue
<1>2. ASSUME NEW t \in Threads, CallDequeue(t) PROVE ItemInv'
  BY <1>2 DEF CallDequeue
<1>3. ASSUME NEW t \in Threads, Publish(t) PROVE ItemInv'
  BY <1>3 DEF Publish
<1>4. ASSUME NEW t \in Threads, TryLock(t) PROVE ItemInv'
  BY <1>4 DEF TryLock
<1>5. ASSUME NEW t \in Threads, TryLockFails(t) PROVE ItemInv'
  BY <1>5 DEF TryLockFails
<1>6. ASSUME NEW t \in Threads, Poll(t) PROVE ItemInv'
  BY <1>6 DEF Poll
<1>7. ASSUME NEW t \in Threads, Return(t) PROVE ItemInv'
  BY <1>7 DEF Return
<1>8. ASSUME NEW t \in Threads, Load(t) PROVE ItemInv'
  BY <1>8 DEF Load
<1>9. ASSUME NEW t \in Threads, ApplyEnqueue(t) PROVE ItemInv'
  BY <1>9 DEF ApplyEnqueue
<1>10. ASSUME NEW t \in Threads, ApplyDequeue(t) PROVE ItemInv'
  <2>1. opcode[i[t]] = "Dequeue" /\ pc[i[t]] # "publish"
    BY <1>10 DEF ApplyDequeue
  <2>2. \A u \in Threads \ {i[t]} : value'[u] = value[u]
    BY <1>10 DEF ApplyDequeue
  <2>3. pc' = [pc EXCEPT ![t] = "finish"] /\ UNCHANGED <<opcode, request>>
    BY <1>10 DEF ApplyDequeue
  <2>4. ASSUME NEW u \in Threads
        PROVE  \/ opcode'[u] = "Enqueue"
               \/ pc'[u] = "publish" /\ request'[u] = "Enqueue"
               => value'[u] \in Values
    <3>1. opcode'[u] = opcode[u] /\ request'[u] = request[u]
      BY <2>3
    <3>2. pc'[u] = "publish" => pc[u] = "publish"
      BY <2>3
    <3>3. CASE u = i[t]
      BY <2>1, <3>1, <3>2, <3>3
    <3>4. CASE u # i[t]
      BY <2>2, <3>1, <3>2, <3>4
    <3> QED
      BY <3>3, <3>4
  <2> QED
    BY ONLY <2>4 DEF ItemInv
<1>11. ASSUME NEW t \in Threads, Finish(t) PROVE ItemInv'
  BY <1>11 DEF Finish
<1>12. ASSUME NEW t \in Threads, Unlock(t) PROVE ItemInv'
  BY <1>12 DEF Unlock
<1>13. CASE UNCHANGED vars
  BY <1>13 DEF vars
<1> QED
  BY <1>1, <1>2, <1>3, <1>4, <1>5, <1>6, <1>7, <1>8, <1>9, <1>10, <1>11,
     <1>12, <1>13 DEF Next, Call, Step

LEMMA InvPublished == Inv /\ [Next]_vars => PublishedInv'
<1> SUFFICES ASSUME TypeOK, PublishedInv, PassedInv, [Next]_vars
             PROVE  PublishedInv'
  BY DEF Inv, SlotInv
<1> USE DEF TypeOK, PublishedInv
<1>1. ASSUME NEW t \in Threads, NEW v \in Values, CallEnqueue(t, v)
      PROVE  PublishedInv'
  BY <1>1 DEF CallEnqueue
<1>2. ASSUME NEW t \in Threads, CallDequeue(t) PROVE PublishedInv'
  BY <1>2 DEF CallDequeue
<1>3. ASSUME NEW t \in Threads, Publish(t) PROVE PublishedInv'
  BY <1>3 DEF Publish
<1>4. ASSUME NEW t \in Threads, TryLock(t) PROVE PublishedInv'
  BY <1>4 DEF TryLock
<1>5. ASSUME NEW t \in Threads, TryLockFails(t) PROVE PublishedInv'
  BY <1>5 DEF TryLockFails
<1>6. ASSUME NEW t \in Threads, Poll(t) PROVE PublishedInv'
  BY <1>6 DEF Poll
<1>7. ASSUME NEW t \in Threads, Return(t) PROVE PublishedInv'
  BY <1>7 DEF Return
<1>8. ASSUME NEW t \in Threads, Load(t) PROVE PublishedInv'
  BY <1>8 DEF Load
<1>9. ASSUME NEW t \in Threads, ApplyEnqueue(t) PROVE PublishedInv'
  BY <1>9 DEF ApplyEnqueue
<1>10. ASSUME NEW t \in Threads, ApplyDequeue(t) PROVE PublishedInv'
  BY <1>10 DEF ApplyDequeue
<1>11. ASSUME NEW t \in Threads, Finish(t) PROVE PublishedInv'
  BY <1>11 DEF Finish
<1>12. ASSUME NEW t \in Threads, Unlock(t) PROVE PublishedInv'
  <2>1. t < NumThreads
    BY DEF Threads
  <2>2. opcode[t] = "Done"
    BY <1>12, <2>1 DEF Unlock, PassedInv
  <2> QED
    BY <1>12, <2>2 DEF Unlock
<1>13. CASE UNCHANGED vars
  BY <1>13 DEF vars
<1> QED
  BY <1>1, <1>2, <1>3, <1>4, <1>5, <1>6, <1>7, <1>8, <1>9, <1>10, <1>11,
     <1>12, <1>13 DEF Next, Call, Step

LEMMA InvServed == Inv /\ [Next]_vars => ServedInv'
<1> SUFFICES ASSUME TypeOK, LockInv, PublishedInv, ServedInv, [Next]_vars
             PROVE  ServedInv'
  BY DEF Inv, SlotInv
<1> USE DEF TypeOK, ServedInv
<1>1. ASSUME NEW t \in Threads, NEW v \in Values, CallEnqueue(t, v)
      PROVE  ServedInv'
  BY <1>1 DEF CallEnqueue
<1>2. ASSUME NEW t \in Threads, CallDequeue(t) PROVE ServedInv'
  BY <1>2 DEF CallDequeue
<1>3. ASSUME NEW t \in Threads, Publish(t) PROVE ServedInv'
  <2>1. opcode[t] = "Done"
    BY <1>3 DEF Publish, PublishedInv
  <2> QED
    BY <1>3, <2>1 DEF Publish
<1>4. ASSUME NEW t \in Threads, TryLock(t) PROVE ServedInv'
  BY <1>4 DEF TryLock
<1>5. ASSUME NEW t \in Threads, TryLockFails(t) PROVE ServedInv'
  BY <1>5 DEF TryLockFails
<1>6. ASSUME NEW t \in Threads, Poll(t) PROVE ServedInv'
  BY <1>6 DEF Poll
<1>7. ASSUME NEW t \in Threads, Return(t) PROVE ServedInv'
  BY <1>7 DEF Return
<1>8. ASSUME NEW t \in Threads, Load(t) PROVE ServedInv'
  <2>1. i[t] < NumThreads => i[t] \in Threads
    BY IndexBounds
  <2> QED
    BY <1>8, <2>1 DEF Load
<1>9. ASSUME NEW t \in Threads, ApplyEnqueue(t) PROVE ServedInv'
  BY <1>9 DEF ApplyEnqueue
<1>10. ASSUME NEW t \in Threads, ApplyDequeue(t) PROVE ServedInv'
  BY <1>10 DEF ApplyDequeue
<1>11. ASSUME NEW t \in Threads, Finish(t) PROVE ServedInv'
  <2>1. \A c \in Threads \ {t} : ~ Combining(c)
    BY <1>11 DEF Finish, LockInv
  <2> QED
    BY <1>11, <2>1 DEF Finish
<1>12. ASSUME NEW t \in Threads, Unlock(t) PROVE ServedInv'
  BY <1>12 DEF Unlock
<1>13. CASE UNCHANGED vars
  BY <1>13 DEF vars
<1> QED
  BY <1>1, <1>2, <1>3, <1>4, <1>5, <1>6, <1>7, <1>8, <1>9, <1>10, <1>11,
     <1>12, <1>13 DEF Next, Call, Step

LEMMA InvPassed == Inv /\ [Next]_vars => PassedInv'
<1> SUFFICES ASSUME TypeOK, LockInv, PublishedInv, ServedInv,
                    PassedInv, [Next]_vars
             PROVE  PassedInv'
  BY DEF Inv, SlotInv
<1> USE DEF TypeOK, PassedInv
<1>1. ASSUME NEW t \in Threads, NEW v \in Values, CallEnqueue(t, v)
      PROVE  PassedInv'
  BY <1>1 DEF CallEnqueue
<1>2. ASSUME NEW t \in Threads, CallDequeue(t) PROVE PassedInv'
  BY <1>2 DEF CallDequeue
<1>3. ASSUME NEW t \in Threads, Publish(t) PROVE PassedInv'
  <2>1. ~ Combining(t)
    BY <1>3 DEF Publish
  <2> QED
    BY <1>3, <2>1 DEF Publish
<1>4. ASSUME NEW t \in Threads, TryLock(t) PROVE PassedInv'
  <2>1. ~ t < 0
    BY IndexBounds
  <2> QED
    BY <1>4, <2>1 DEF TryLock
<1>5. ASSUME NEW t \in Threads, TryLockFails(t) PROVE PassedInv'
  BY <1>5 DEF TryLockFails
<1>6. ASSUME NEW t \in Threads, Poll(t) PROVE PassedInv'
  BY <1>6 DEF Poll
<1>7. ASSUME NEW t \in Threads, Return(t) PROVE PassedInv'
  BY <1>7 DEF Return
<1>8. ASSUME NEW t \in Threads, Load(t) PROVE PassedInv'
  <2>1. t < i[t] + 1 => t < i[t] \/ t = i[t]
    <3>1. i[t] \in Int /\ t \in Int
      BY DEF Threads
    <3>2. \A a, b \in Int : a < b + 1 => a < b \/ a = b
      BY ONLY TRUE
    <3> QED
      BY ONLY <3>1, <3>2
  <2>2. CASE opcode[i[t]] = "Done"
    <3>1. /\ i' = [i EXCEPT ![t] = @ + 1] /\ pc' = pc
          /\ pc[t] = "scan" /\ opcode' = opcode
      BY <1>8, <2>2 DEF Load, slots
    <3>2. ASSUME NEW c \in Threads, Combining(c), c < i'[c]
          PROVE  opcode'[c] = "Done"
      <4>1. CASE c = t
        BY <2>1, <2>2, <3>1, <3>2, <4>1 DEF Combining
      <4>2. CASE c # t
        BY <3>1, <3>2, <4>2
      <4> QED
        BY <4>1, <4>2
    <3>3. ASSUME NEW c \in Threads, Combining(c)', c < i'[c]
          PROVE  opcode'[c] = "Done"
      BY ONLY <3>1, <3>2, <3>3 DEF Combining
    <3> QED
      BY ONLY <3>3 DEF PassedInv
  <2>3. CASE opcode[i[t]] # "Done"
    BY <1>8, <2>3 DEF Load
  <2> QED
    BY <2>2, <2>3
<1>9. ASSUME NEW t \in Threads, ApplyEnqueue(t) PROVE PassedInv'
  BY <1>9 DEF ApplyEnqueue
<1>10. ASSUME NEW t \in Threads, ApplyDequeue(t) PROVE PassedInv'
  BY <1>10 DEF ApplyDequeue
<1>11. ASSUME NEW t \in Threads, Finish(t) PROVE PassedInv'
  <2>1. t < i[t] + 1 => t < i[t] \/ t = i[t]
    <3>1. i[t] \in Int /\ t \in Int
      BY DEF Threads
    <3>2. \A a, b \in Int : a < b + 1 => a < b \/ a = b
      BY ONLY TRUE
    <3> QED
      BY ONLY <3>1, <3>2
  <2>2. i[t] \in Threads
    BY <1>11 DEF Finish, ServedInv
  <2>3. /\ pc[t] = "finish" /\ i' = [i EXCEPT ![t] = @ + 1]
        /\ opcode' = [opcode EXCEPT ![i[t]] = "Done"]
        /\ pc' = [pc EXCEPT ![t] = "scan"]
    BY <1>11 DEF Finish
  <2> QED
    BY <1>11, <2>1, <2>2 DEF Finish
<1>12. ASSUME NEW t \in Threads, Unlock(t) PROVE PassedInv'
  BY <1>12 DEF Unlock
<1>13. CASE UNCHANGED vars
  BY <1>13 DEF vars
<1> QED
  BY <1>1, <1>2, <1>3, <1>4, <1>5, <1>6, <1>7, <1>8, <1>9, <1>10, <1>11,
     <1>12, <1>13 DEF Next, Call, Step

LEMMA InvResult == Inv /\ [Next]_vars => ResultInv'
<1> SUFFICES ASSUME TypeOK, PublishedInv, ServedInv, ResultInv, [Next]_vars
             PROVE  ResultInv'
  BY DEF Inv, SlotInv
<1> USE DEF TypeOK, ResultInv
<1>1. ASSUME NEW t \in Threads, NEW v \in Values, CallEnqueue(t, v)
      PROVE  ResultInv'
  BY <1>1 DEF CallEnqueue
<1>2. ASSUME NEW t \in Threads, CallDequeue(t) PROVE ResultInv'
  BY <1>2 DEF CallDequeue
<1>3. ASSUME NEW t \in Threads, Publish(t) PROVE ResultInv'
  BY <1>3 DEF Publish
<1>4. ASSUME NEW t \in Threads, TryLock(t) PROVE ResultInv'
  BY <1>4 DEF TryLock
<1>5. ASSUME NEW t \in Threads, TryLockFails(t) PROVE ResultInv'
  BY <1>5 DEF TryLockFails
<1>6. ASSUME NEW t \in Threads, Poll(t) PROVE ResultInv'
  BY <1>6 DEF Poll
<1>7. ASSUME NEW t \in Threads, Return(t) PROVE ResultInv'
  BY <1>7 DEF Return
<1>8. ASSUME NEW t \in Threads, Load(t) PROVE ResultInv'
  BY <1>8 DEF Load
<1>9. ASSUME NEW t \in Threads, ApplyEnqueue(t) PROVE ResultInv'
  BY <1>9 DEF ApplyEnqueue
<1>10. ASSUME NEW t \in Threads, ApplyDequeue(t) PROVE ResultInv'
  <2>1. i[t] \in Threads /\ request' = request
    BY <1>10 DEF ApplyDequeue, ServedInv
  <2>2. CASE q # <<>>
    <3>1. Head(q) \in Values
      BY <2>2
    <3>2. value' = [value EXCEPT ![i[t]] = Head(q)]
      BY <1>10, <2>2 DEF ApplyDequeue
    <3>3. success' = [success EXCEPT ![i[t]] = TRUE]
      BY <1>10, <2>2 DEF ApplyDequeue
    <3> QED
      BY <2>1, <3>1, <3>2, <3>3
  <2>3. CASE q = <<>>
    <3>1. value' = value /\ success' = [success EXCEPT ![i[t]] = FALSE]
      BY <1>10, <2>3 DEF ApplyDequeue
    <3> QED
      BY <2>1, <3>1
  <2> QED
    BY <2>2, <2>3
<1>11. ASSUME NEW t \in Threads, Finish(t) PROVE ResultInv'
  BY <1>11 DEF Finish
<1>12. ASSUME NEW t \in Threads, Unlock(t) PROVE ResultInv'
  BY <1>12 DEF Unlock
<1>13. CASE UNCHANGED vars
  BY <1>13 DEF vars
<1> QED
  BY <1>1, <1>2, <1>3, <1>4, <1>5, <1>6, <1>7, <1>8, <1>9, <1>10, <1>11,
     <1>12, <1>13 DEF Next, Call, Step

LEMMA InvInductive == Inv /\ [Next]_vars => Inv'
  BY InvType, InvLock, InvItem, InvResult, InvPublished, InvServed, InvPassed
     DEF Inv, SlotInv

----------------------------------------------------------------------------
(* Bounded overtaking.                                                     *)

(* A step that leaves the slots, the lock and the pass alone. *)
LEMMA BypassFrame ==
  ASSUME TypeOK, BypassInv, UNCHANGED <<opcode, lock, i, bypass>>,
         \A d \in Threads : pc'[d] = "finish" <=> pc[d] = "finish"
  PROVE  BypassInv'
<1>1. \A d \in Threads : Passed(d)' = Passed(d)
  BY DEF Passed
<1>2. \A t \in Threads : Waiting(t)' <=> Waiting(t)
  BY DEF Waiting
<1>3. ASSUME NEW t \in Threads, NEW u \in Threads
      PROVE  Overtook(t, u)' <=> Overtook(t, u)
  BY <1>1 DEF Overtook
<1> QED
  BY <1>2, <1>3 DEF BypassInv

LEMMA BypassInductive == Inv /\ BypassInv /\ [Next]_vars => BypassInv'
<1> SUFFICES ASSUME TypeOK, LockInv, PublishedInv, ServedInv, PassedInv,
                    BypassInv, [Next]_vars
             PROVE  BypassInv'
  BY DEF Inv, SlotInv
<1>1. ASSUME NEW c \in Threads, NEW v \in Values, CallEnqueue(c, v)
      PROVE  BypassInv'
  BY <1>1, BypassFrame DEF CallEnqueue, TypeOK
<1>2. ASSUME NEW c \in Threads, CallDequeue(c) PROVE BypassInv'
  BY <1>2, BypassFrame DEF CallDequeue, TypeOK
<1>3. ASSUME NEW c \in Threads, Publish(c) PROVE BypassInv'
  <2>1. ~ Combining(c) /\ lock # c
    BY <1>3 DEF Publish, LockInv
  <2>2. bypass'[c] = NoBypass
    BY <1>3 DEF Publish, TypeOK
  <2>3. \A d \in Threads : pc'[d] = "finish" <=> pc[d] = "finish"
    BY <1>3 DEF Publish, TypeOK
  <2>4. \A t \in Threads \ {c} : /\ Waiting(t)' <=> Waiting(t)
                                 /\ bypass'[t] = bypass[t]
    BY <1>3, <2>3 DEF Publish, TypeOK, Waiting
  <2>5. \A d \in Threads : Passed(d)' = Passed(d)
    BY <1>3, <2>3 DEF Publish, Passed
  <2>6. \A t, u \in Threads : Overtook(t, u)' <=> Overtook(t, u)
    BY <1>3, <2>5 DEF Publish, Overtook
  <2> QED
    BY <2>2, <2>4, <2>6 DEF BypassInv, NoBypass
<1>4. ASSUME NEW c \in Threads, TryLock(c) PROVE BypassInv'
  <2>1. \A d \in Threads : pc'[d] = "finish" <=> pc[d] = "finish"
    BY <1>4 DEF TryLock, TypeOK
  <2>2. \A t \in Threads : Waiting(t)' <=> Waiting(t)
    <3>1. \A d \in Threads : pc[d] # "finish"
      BY <1>4, IndexBounds DEF TryLock, LockInv
    <3> QED
      BY <1>4, <2>1, <3>1 DEF TryLock, Waiting
  <2>3. lock \notin Threads /\ lock' = c /\ Passed(c)' = 0
    BY <1>4, <2>1, IndexBounds DEF TryLock, TypeOK, Passed
  <2>4. \A t, u \in Threads : Overtook(t, u) => Overtook(t, u)'
    BY <2>3, IndexBounds DEF Overtook
  <2> QED
    BY <1>4, <2>2, <2>4 DEF TryLock, BypassInv
<1>5. ASSUME NEW c \in Threads, TryLockFails(c) PROVE BypassInv'
  BY <1>5, BypassFrame DEF TryLockFails, TypeOK
<1>6. ASSUME NEW c \in Threads, Poll(c) PROVE BypassInv'
  BY <1>6, BypassFrame DEF Poll, TypeOK
<1>7. ASSUME NEW c \in Threads, Return(c) PROVE BypassInv'
  BY <1>7, BypassFrame DEF Return, TypeOK
<1>8. ASSUME NEW c \in Threads, Load(c) PROVE BypassInv'
  <2>1. CASE opcode[i[c]] # "Done"
    BY <1>8, <2>1, BypassFrame DEF Load, TypeOK
  <2>2. CASE opcode[i[c]] = "Done"
    <3>1. lock = c
      BY <1>8 DEF Load, LockInv
    <3>2. \A t \in Threads : Waiting(t)' <=> Waiting(t)
      <4>1. pc' = pc /\ pc[c] = "scan" /\ opcode' = opcode
        BY <1>8, <2>2 DEF Load
      <4>2. \A d \in Threads : pc[d] = "finish" => i'[d] = i[d]
        BY <1>8, <2>2, <4>1 DEF Load, TypeOK
      <4> QED
        BY <4>1, <4>2 DEF Waiting
    <3>3. Passed(c) = i[c] /\ Passed(c)' = i[c] + 1 /\ lock' = c
      BY <1>8, <2>2, <3>1 DEF Load, TypeOK, Passed
    <3>4. i[c] \in Nat
      BY DEF TypeOK
    <3>5. ASSUME NEW t \in Threads, NEW u \in Threads, Waiting(t),
                 Overtook(t, u)
          PROVE  Overtook(t, u)'
      <4>1. i[c] # t
        BY <2>2, <3>5 DEF Waiting
      <4>2. t \in Nat /\ u \in Nat
        BY IndexBounds
      <4> QED
        BY <3>1, <3>3, <3>4, <3>5, <4>1, <4>2 DEF Overtook
    <3> QED
      BY <1>8, <3>2, <3>5 DEF Load, BypassInv
  <2> QED
    BY <2>1, <2>2
<1>9. ASSUME NEW c \in Threads, ApplyEnqueue(c) \/ ApplyDequeue(c)
      PROVE  BypassInv'
  <2>1. /\ pc[c] = "dispatch"
        /\ pc' = [pc EXCEPT ![c] = "finish"]
        /\ CountBypass(i[c])
        /\ UNCHANGED <<opcode, lock, i>>
    BY <1>9 DEF ApplyEnqueue, ApplyDequeue
  <2> DEFINE s == i[c]
  <2>2. s \in Threads /\ lock = c
    BY <2>1 DEF ServedInv, LockInv
  <2>3. Passed(c) = s /\ Passed(c)' = s + 1 /\ lock' = c
    BY <2>1, <2>2 DEF Passed, TypeOK
  <2>4. \A t \in Threads \ {s} : Waiting(t)' <=> Waiting(t)
    BY <2>1 DEF Waiting, TypeOK
  <2>5. bypass'[s] = NoBypass
    BY <2>1, <2>2 DEF CountBypass
  <2>6. ASSUME NEW t \in Threads \ {s}, NEW u \in Threads
        PROVE  \/ bypass'[t][u] = 0
               \/ bypass'[t][u] = 1 /\ Waiting(t)' /\ Overtook(t, u)'
    <3>1. t \in Nat /\ u \in Nat /\ s \in Nat
      BY <2>2, IndexBounds
    <3>2. CASE ~ Waiting(t)
      <4>1. bypass'[t] = bypass[t]
        BY <2>1, <2>2, <3>2 DEF CountBypass
      <4> QED
        BY <3>2, <4>1 DEF BypassInv
    <3>3. CASE Waiting(t) /\ u = s
      <4>1. bypass[t][s] = 0
        BY <2>2, <2>3, <3>1, <3>3 DEF BypassInv, Overtook
      <4>2. bypass'[t] = [bypass[t] EXCEPT ![s] = @ + 1]
        BY <2>1, <2>2, <3>3 DEF CountBypass
      <4>3. bypass'[t][s] = 1
        BY <2>2, <4>1, <4>2 DEF TypeOK
      <4>4. Overtook(t, u)'
        BY <2>2, <2>3, <3>1, <3>3 DEF Overtook
      <4> QED
        BY <2>4, <3>3, <4>3, <4>4
    <3>4. CASE Waiting(t) /\ u # s
      <4>1. bypass'[t] = [bypass[t] EXCEPT ![s] = @ + 1]
        BY <2>1, <2>2, <3>4 DEF CountBypass
      <4>2. bypass'[t][u] = bypass[t][u]
        BY <3>4, <4>1 DEF TypeOK
      <4>3. Overtook(t, u) => Overtook(t, u)'
        BY <2>2, <2>3, <3>1, <3>4 DEF Overtook
      <4> QED
        BY <2>4, <3>4, <4>2, <4>3 DEF BypassInv
    <3> QED
      BY <3>2, <3>3, <3>4
  <2> QED
    BY <2>5, <2>6 DEF BypassInv, NoBypass
<1>10. ASSUME NEW c \in Threads, Finish(c) PROVE BypassInv'
  <2>1. i[c] \in Threads /\ lock = c
    BY <1>10 DEF Finish, ServedInv, LockInv
  <2>2. \A d \in Threads \ {c} : pc[d] # "finish" /\ pc'[d] = pc[d]
    BY <1>10, <2>1 DEF Finish, LockInv, TypeOK
  <2>3. pc[c] = "finish" /\ pc'[c] = "scan" /\ i'[c] = i[c] + 1
    BY <1>10 DEF Finish, TypeOK
  <2>4. \A t \in Threads : Waiting(t)' <=> Waiting(t)
    <3>0. PICK s \in Threads : s = i[c]
      BY <2>1
    <3>1. opcode' = [opcode EXCEPT ![s] = "Done"]
      BY <1>10, <3>0 DEF Finish
    <3>2. ~ Waiting(s) /\ ~ Waiting(s)'
      BY <2>3, <3>0, <3>1 DEF Waiting, TypeOK
    <3>3. ASSUME NEW t \in Threads \ {s}
          PROVE  Waiting(t)' <=> Waiting(t)
      BY <2>2, <2>3, <3>0, <3>1 DEF Waiting, TypeOK
    <3> QED
      BY <3>2, <3>3
  <2>5. Passed(c)' = Passed(c)
    BY <2>3 DEF Passed
  <2>6. \A t, u \in Threads : Overtook(t, u)' <=> Overtook(t, u)
    BY <1>10, <2>1, <2>5 DEF Finish, Overtook
  <2> QED
    BY <1>10, <2>4, <2>6 DEF Finish, BypassInv
<1>11. ASSUME NEW c \in Threads, Unlock(c) PROVE BypassInv'
  <2>1. lock = c /\ Passed(c) = NumThreads /\ lock' \notin Threads
    BY <1>11, IndexBounds DEF Unlock, LockInv, Passed
  <2>2. \A t \in Threads : Waiting(t)' <=> Waiting(t)
    <3>1. \A d \in Threads : pc[d] # "finish" /\ pc'[d] # "finish"
      BY <1>11, <2>1 DEF Unlock, LockInv, TypeOK
    <3> QED
      BY <1>11, <3>1 DEF Unlock, Waiting
  <2>3. \A t, u \in Threads : Overtook(t, u) => Overtook(t, u)'
    <3>1. \A t \in Threads : ~ NumThreads <= t
      BY DEF Threads
    <3> QED
      BY <2>1, <3>1 DEF Overtook
  <2> QED
    BY <1>11, <2>2, <2>3 DEF Unlock, BypassInv
<1>12. CASE UNCHANGED vars
  BY <1>12, BypassFrame DEF vars
<1> QED
  BY <1>1, <1>2, <1>3, <1>4, <1>5, <1>6, <1>7, <1>8, <1>9, <1>10, <1>11,
     <1>12 DEF Next, Call, Step

----------------------------------------------------------------------------
(* The theorems.                                                           *)

LEMMA InitBypass == Init => BypassInv
  BY DEF Init, BypassInv, NoBypass

LEMMA InvAlways == Spec => [](Inv /\ BypassInv)
<1>1. Init => Inv /\ BypassInv
  BY InitInv, InitBypass
<1>2. (Inv /\ BypassInv) /\ [Next]_vars => (Inv /\ BypassInv)'
  BY InvInductive, BypassInductive
<1> QED
  BY <1>1, <1>2, PTL DEF Spec

(* Type correctness, for any number of threads. *)
THEOREM TypeCorrect == Spec => []TypeOK
<1>1. Inv => TypeOK
  BY DEF Inv
<1> QED
  BY <1>1, InvAlways, PTL

(* The combiner has the slot it serves to itself: its owner is waiting.    *)
THEOREM OwnershipHolds == Spec => []SlotOwnership
<1>1. Inv => SlotOwnership
  <2> SUFFICES ASSUME Inv, NEW c \in Threads,
                      pc[c] \in {"dispatch", "finish"}
               PROVE  /\ i[c] = c \/ pc[i[c]] \in {"try", "poll"}
                      /\ \A d \in Threads \ {c} : ~ Combining(d)
    BY DEF SlotOwnership
  <2>1. \A d \in Threads \ {c} : ~ Combining(d)
    BY DEF Inv, LockInv
  <2>2. i[c] \in Threads /\ opcode[i[c]] # "Done"
    BY DEF Inv, SlotInv, ServedInv
  <2>3. pc[i[c]] \in {"try", "poll", "scan", "dispatch", "finish"}
    BY <2>2 DEF Inv, SlotInv, PublishedInv
  <2> QED
    BY <2>1, <2>2, <2>3
<1> QED
  BY <1>1, InvAlways, PTL

(* A waiting request is overtaken at most once by each other thread.       *)
THEOREM BypassIsBounded == Spec => []BoundedBypass
<1>1. BypassInv => BoundedBypass
  <2> SUFFICES ASSUME BypassInv, NEW t \in Threads, NEW u \in Threads
               PROVE  bypass[t][u] <= 1
    BY DEF BoundedBypass
  <2>1. bypass[t][u] = 0 \/ bypass[t][u] = 1
    BY DEF BypassInv
  <2> QED
    BY <2>1
<1> QED
  BY <1>1, InvAlways, PTL

----------------------------------------------------------------------------
(* FlatCombining implements FifoQueue: initial states map to initial       *)
(* states, and every step maps to a step of FifoQueue or to a stutter.     *)

USE DEF slots, Combining

Calls == [t \in Threads |-> AbstractCall(t)]

(* The abstract state of every thread but s is left alone. *)
SameBut(s) ==
  \A t \in Threads \ {s} : AbstractCall(t)' = AbstractCall(t)

LEMMA CallsExcept ==
  ASSUME NEW s \in Threads, SameBut(s)
  PROVE  Calls' = [Calls EXCEPT ![s] = AbstractCall(s)']
  BY DEF SameBut, Calls

LEMMA CallsSame ==
  ASSUME \A t \in Threads : AbstractCall(t)' = AbstractCall(t)
  PROVE  Calls' = Calls
  BY DEF Calls

(* What AbstractCall(t) depends on. *)
LEMMA SameCall ==
  ASSUME NEW t \in Threads,
         Waiting(t)' <=> Waiting(t),
         pc'[t] = "idle" <=> pc[t] = "idle",
         pc'[t] = "publish" <=> pc[t] = "publish",
         request'[t] = request[t], value'[t] = value[t],
         success'[t] = success[t]
  PROVE  AbstractCall(t)' = AbstractCall(t)
  BY DEF AbstractCall, Applied

(* No request starts or stops waiting in a step that publishes none and    *)
(* applies none.                                                           *)
LEMMA SameWaiting ==
  ASSUME opcode' = opcode,
         \A d \in Threads : /\ pc'[d] = "finish" <=> pc[d] = "finish"
                            /\ pc[d] = "finish" => i'[d] = i[d]
  PROVE  \A t \in Threads : Waiting(t)' <=> Waiting(t)
  BY DEF Waiting

LEMMA InitMaps == Init => Fifo!Init
  BY DEF Init, Fifo!Init, Fifo!Idle, AbstractCall

LEMMA StepMaps == Inv /\ [Next]_vars => [Fifo!Next]_(Fifo!vars)
<1> SUFFICES ASSUME TypeOK, LockInv, PublishedInv, ServedInv, ItemInv,
                    ResultInv, [Next]_vars
             PROVE  Fifo!Next \/ Fifo!vars' = Fifo!vars
  BY DEF Inv, SlotInv
<1>1. ASSUME NEW c \in Threads, NEW v \in Values, CallEnqueue(c, v)
      PROVE  Fifo!Next
  <2>1. \A t \in Threads : Waiting(t)' <=> Waiting(t)
    BY <1>1, SameWaiting DEF CallEnqueue, TypeOK
  <2>2. SameBut(c)
    BY <1>1, <2>1, SameCall DEF CallEnqueue, SameBut, TypeOK
  <2>3. ~ Applied(c)'
    BY <1>1 DEF CallEnqueue, Applied, TypeOK
  <2>4. AbstractCall(c) = Fifo!Idle
    BY <1>1 DEF CallEnqueue, AbstractCall, Fifo!Idle
  <2>5. AbstractCall(c)' = Fifo!PendingEnq(v)
    BY <1>1, <2>3 DEF CallEnqueue, AbstractCall, Fifo!PendingEnq, TypeOK
  <2>6. Calls' = [Calls EXCEPT ![c] = AbstractCall(c)'] /\ q' = q
    BY <1>1, <2>2, CallsExcept DEF CallEnqueue
  <2>7. Fifo!CallEnqueue(c, v)
    BY <2>4, <2>5, <2>6 DEF Fifo!CallEnqueue, Calls
  <2> QED
    BY <2>7 DEF Fifo!Next, Fifo!Step
<1>2. ASSUME NEW c \in Threads, CallDequeue(c) PROVE Fifo!Next
  <2>1. \A t \in Threads : Waiting(t)' <=> Waiting(t)
    BY <1>2, SameWaiting DEF CallDequeue, TypeOK
  <2>2. SameBut(c)
    BY <1>2, <2>1, SameCall DEF CallDequeue, SameBut, TypeOK
  <2>3. ~ Applied(c)'
    BY <1>2 DEF CallDequeue, Applied, TypeOK
  <2>4. AbstractCall(c) = Fifo!Idle
    BY <1>2 DEF CallDequeue, AbstractCall, Fifo!Idle
  <2>5. AbstractCall(c)' = Fifo!PendingDeq(FALSE)
    <3>1. pc'[c] = "publish" /\ request'[c] = "Dequeue"
      BY <1>2 DEF CallDequeue, TypeOK
    <3>2. Applied(c)' = FALSE
      BY <2>3 DEF Applied
    <3> QED
      BY <2>3, <3>1, <3>2 DEF AbstractCall, Fifo!PendingDeq
  <2>6. Calls' = [Calls EXCEPT ![c] = AbstractCall(c)'] /\ q' = q
    BY <1>2, <2>2, CallsExcept DEF CallDequeue
  <2>7. Fifo!CallDequeue(c)
    BY <2>4, <2>5, <2>6 DEF Fifo!CallDequeue, Calls
  <2> QED
    BY <2>7 DEF Fifo!Next, Fifo!Step
<1>3. ASSUME NEW c \in Threads, Publish(c) PROVE Fifo!vars' = Fifo!vars
  <2>1. \A d \in Threads : pc'[d] = "finish" <=> pc[d] = "finish"
    BY <1>3 DEF Publish, TypeOK
  <2>2. \A t \in Threads \ {c} : Waiting(t)' <=> Waiting(t)
    BY <1>3, <2>1 DEF Publish, Waiting, TypeOK
  <2>3. SameBut(c)
    BY <1>3, <2>2, SameCall DEF Publish, SameBut, TypeOK
  <2>4. \A d \in Threads : pc[d] = "finish" => i[d] # c
    BY <1>3 DEF Publish, PublishedInv, ServedInv
  <2>5. ~ Applied(c) /\ ~ Applied(c)'
    BY <1>3, <2>1, <2>4 DEF Publish, Applied, Waiting, TypeOK
  <2>6. AbstractCall(c)' = AbstractCall(c)
    <3>1. Applied(c)' = Applied(c)
      BY <2>5 DEF Applied
    <3>2. pc[c] # "idle" /\ pc'[c] # "idle"
      BY <1>3 DEF Publish, TypeOK
    <3>3. UNCHANGED <<value, request, success>>
      BY <1>3 DEF Publish
    <3> QED
      BY <2>5, <3>1, <3>2, <3>3 DEF AbstractCall
  <2>7. Calls' = Calls /\ q' = q
    BY <1>3, <2>3, <2>6, CallsSame DEF SameBut, Publish
  <2> QED
    BY <2>7 DEF Fifo!vars, Calls
<1>4. ASSUME NEW c \in Threads, TryLock(c) PROVE Fifo!vars' = Fifo!vars
  <2>1. pc[c] = "try" /\ pc' = [pc EXCEPT ![c] = "scan"]
    BY <1>4 DEF TryLock
  <2>2. \A t \in Threads : Waiting(t)' <=> Waiting(t)
    BY <1>4, <2>1, SameWaiting DEF TryLock, TypeOK
  <2>3. \A t \in Threads : AbstractCall(t)' = AbstractCall(t)
    BY <1>4, <2>1, <2>2, SameCall DEF TryLock, TypeOK
  <2> QED
    BY <1>4, <2>3, CallsSame DEF TryLock, Fifo!vars, Calls
<1>5. ASSUME NEW c \in Threads, TryLockFails(c) \/ Poll(c)
      PROVE  Fifo!vars' = Fifo!vars
  <2>1. /\ pc[c] \in {"try", "poll"}
        /\ \E l \in {"poll", "try", "return"} : pc' = [pc EXCEPT ![c] = l]
        /\ UNCHANGED <<slots, q, lock, request, i, code, bypass>>
    BY <1>5 DEF TryLockFails, Poll
  <2>2. \A t \in Threads : Waiting(t)' <=> Waiting(t)
    BY <2>1, SameWaiting DEF TypeOK
  <2>3. \A t \in Threads : AbstractCall(t)' = AbstractCall(t)
    BY <2>1, <2>2, SameCall DEF TypeOK
  <2> QED
    BY <2>1, <2>3, CallsSame DEF Fifo!vars, Calls
<1>6. ASSUME NEW c \in Threads, Return(c) PROVE Fifo!Next
  <2>1. \A t \in Threads : Waiting(t)' <=> Waiting(t)
    BY <1>6, SameWaiting DEF Return, TypeOK
  <2>2. SameBut(c)
    BY <1>6, <2>1, SameCall DEF Return, SameBut, TypeOK
  <2>3. Applied(c)
    BY <1>6 DEF Return, Applied, Waiting, PublishedInv
  <2>4. \/ AbstractCall(c) \in {Fifo!Enqueued, Fifo!PendingDeq(TRUE)}
        \/ \E v \in Values : AbstractCall(c) = Fifo!Dequeued(v)
    <3>1. CASE request[c] = "Enqueue"
      BY <1>6, <2>3, <3>1 DEF Return, AbstractCall, Fifo!Enqueued
    <3>2. CASE request[c] # "Enqueue" /\ success[c]
      <4>1. value[c] \in Values
        BY <3>2 DEF ResultInv, TypeOK
      <4>2. AbstractCall(c) = Fifo!Dequeued(value[c])
        BY <1>6, <2>3, <3>2 DEF Return, AbstractCall, Fifo!Dequeued
      <4> QED
        BY <4>1, <4>2
    <3>3. CASE request[c] # "Enqueue" /\ ~ success[c]
      BY <1>6, <2>3, <3>3 DEF Return, AbstractCall, Fifo!PendingDeq
    <3> QED
      BY <3>1, <3>2, <3>3
  <2>5. AbstractCall(c)' = Fifo!Idle
    BY <1>6 DEF Return, AbstractCall, Fifo!Idle, TypeOK
  <2>6. Calls' = [Calls EXCEPT ![c] = AbstractCall(c)'] /\ q' = q
    BY <1>6, <2>2, CallsExcept DEF Return
  <2>7. Calls[c] = AbstractCall(c)
    BY DEF Calls
  <2>8. Fifo!Return(c)
    BY <2>4, <2>5, <2>6, <2>7 DEF Fifo!Return, Calls
  <2> QED
    BY <2>8 DEF Fifo!Next, Fifo!Step
<1>7. ASSUME NEW c \in Threads, Load(c) PROVE Fifo!vars' = Fifo!vars
  <2>1. /\ pc[c] = "scan"
        /\ \A d \in Threads \ {c} : pc'[d] = pc[d] /\ i'[d] = i[d]
        /\ pc'[c] \in {"scan", "dispatch"}
        /\ UNCHANGED <<slots, q, request>>
    <3>1. CASE opcode[i[c]] = "Done"
      BY <1>7, <3>1 DEF Load, TypeOK
    <3>2. CASE opcode[i[c]] # "Done"
      BY <1>7, <3>2 DEF Load, TypeOK
    <3> QED
      BY <3>1, <3>2
  <2>2. \A t \in Threads : Waiting(t)' <=> Waiting(t)
    BY <2>1, SameWaiting
  <2>3. \A t \in Threads : AbstractCall(t)' = AbstractCall(t)
    BY <2>1, <2>2, SameCall
  <2> QED
    BY <2>1, <2>3, CallsSame DEF Fifo!vars, Calls
<1>8. ASSUME NEW c \in Threads, ApplyEnqueue(c) \/ ApplyDequeue(c)
      PROVE  Fifo!Next
  <2>1. PICK s \in Threads : s = i[c]
    BY <1>8 DEF ApplyEnqueue, ApplyDequeue, ServedInv
  <2>2. /\ pc[c] = "dispatch" /\ pc' = [pc EXCEPT ![c] = "finish"]
        /\ opcode[s] = code[c] /\ opcode[s] = request[s]
        /\ pc[s] \in {"try", "poll", "scan", "dispatch", "finish"}
        /\ UNCHANGED <<opcode, request, i>>
    BY <1>8, <2>1 DEF ApplyEnqueue, ApplyDequeue, ServedInv, PublishedInv
  <2>3. \A d \in Threads : pc[d] # "finish"
    BY <2>2 DEF LockInv
  <2>4. Waiting(s) /\ ~ Waiting(s)'
    BY <1>8, <2>1, <2>2, <2>3 DEF Waiting, TypeOK, ApplyEnqueue, ApplyDequeue
  <2>5. \A t \in Threads \ {s} : Waiting(t)' <=> Waiting(t)
    BY <2>1, <2>2, <2>3 DEF Waiting, TypeOK
  <2>6. ~ Applied(s) /\ Applied(s)'
    BY <2>2, <2>4 DEF Applied, TypeOK
  <2>7. Calls[s] = AbstractCall(s)
    BY DEF Calls
  <2>8. CASE ApplyEnqueue(c)
    <3>1. value[s] \in Values
      BY <2>1, <2>2, <2>8 DEF ApplyEnqueue, ItemInv
    <3>2. SameBut(s)
      BY <2>2, <2>5, <2>8, SameCall DEF ApplyEnqueue, SameBut, TypeOK
    <3>3. AbstractCall(s) = Fifo!PendingEnq(value[s])
      BY <2>2, <2>6, <2>8 DEF ApplyEnqueue, AbstractCall, Fifo!PendingEnq
    <3>4. AbstractCall(s)' = Fifo!Enqueued
      BY <2>2, <2>6, <2>8 DEF ApplyEnqueue, AbstractCall, Fifo!Enqueued,
                              TypeOK
    <3>5. q' = Append(q, value[s])
      BY <2>1, <2>8 DEF ApplyEnqueue
    <3>6. Fifo!Enqueue(s, value[s])
      BY <2>7, <3>2, <3>3, <3>4, <3>5, CallsExcept DEF Fifo!Enqueue, Calls
    <3> QED
      BY <3>1, <3>6 DEF Fifo!Next, Fifo!Step
  <2>9. CASE ApplyDequeue(c)
    <3>1. AbstractCall(s) = Fifo!PendingDeq(FALSE)
      <4>1. request[s] = "Dequeue" /\ pc[s] # "idle"
        BY <2>2, <2>9 DEF ApplyDequeue
      <4>2. Applied(s) = FALSE
        BY <2>6 DEF Applied
      <4> QED
        BY <2>6, <4>1, <4>2 DEF AbstractCall, Fifo!PendingDeq
    <3>2. \A t \in Threads \ {s} :
             value'[t] = value[t] /\ success'[t] = success[t]
      BY <2>1, <2>9 DEF ApplyDequeue, TypeOK
    <3>3. SameBut(s)
      BY <2>2, <2>5, <3>2, SameCall DEF SameBut, TypeOK
    <3>4. Calls' = [Calls EXCEPT ![s] = AbstractCall(s)']
      BY <3>3, CallsExcept
    <3>5. CASE q # <<>>
      <4>1. q' = Tail(q) /\ value'[s] = Head(q) /\ success'[s]
        BY <2>1, <2>9, <3>5 DEF ApplyDequeue, TypeOK
      <4>2. AbstractCall(s)' = Fifo!Dequeued(Head(q))
        BY <2>2, <2>6, <2>9, <4>1 DEF ApplyDequeue, AbstractCall,
                                      Fifo!Dequeued, TypeOK
      <4>3. Fifo!Dequeue(s)
        BY <2>7, <3>1, <3>4, <3>5, <4>1, <4>2 DEF Fifo!Dequeue, Calls
      <4> QED
        BY <4>3 DEF Fifo!Next, Fifo!Step
    <3>6. CASE q = <<>>
      <4>1. q' = q /\ ~ success'[s]
        BY <2>1, <2>9, <3>6 DEF ApplyDequeue, TypeOK
      <4>2. AbstractCall(s)' = Fifo!PendingDeq(TRUE)
        BY <2>2, <2>6, <2>9, <4>1 DEF ApplyDequeue, AbstractCall,
                                      Fifo!PendingDeq, TypeOK
      <4>3. Fifo!SeeEmpty(s)
        BY <2>7, <3>1, <3>4, <3>6, <4>1, <4>2 DEF Fifo!SeeEmpty, Calls
      <4> QED
        BY <4>3 DEF Fifo!Next, Fifo!Step
    <3> QED
      BY <3>5, <3>6
  <2> QED
    BY <1>8, <2>8, <2>9
<1>9. ASSUME NEW c \in Threads, Finish(c) PROVE Fifo!vars' = Fifo!vars
  <2>1. PICK s \in Threads : s = i[c]
    BY <1>9 DEF Finish, ServedInv
  <2>2. /\ pc[c] = "finish" /\ pc' = [pc EXCEPT ![c] = "scan"]
        /\ opcode' = [opcode EXCEPT ![s] = "Done"]
        /\ UNCHANGED <<value, success, q, request>>
    BY <1>9, <2>1 DEF Finish
  <2>3. \A d \in Threads \ {c} : pc[d] # "finish"
    BY <2>2 DEF LockInv
  <2>4. ~ Waiting(s) /\ ~ Waiting(s)'
    BY <2>1, <2>2 DEF Waiting, TypeOK
  <2>5. \A t \in Threads \ {s} : Waiting(t)' <=> Waiting(t)
    BY <2>1, <2>2, <2>3 DEF Waiting, TypeOK
  <2>6. \A t \in Threads : AbstractCall(t)' = AbstractCall(t)
    BY <2>2, <2>4, <2>5, SameCall DEF TypeOK
  <2> QED
    BY <2>2, <2>6, CallsSame DEF Fifo!vars, Calls
<1>10. ASSUME NEW c \in Threads, Unlock(c) PROVE Fifo!vars' = Fifo!vars
  <2>1. pc[c] = "scan" /\ pc' = [pc EXCEPT ![c] = "return"]
    BY <1>10 DEF Unlock
  <2>2. \A t \in Threads : Waiting(t)' <=> Waiting(t)
    BY <1>10, <2>1, SameWaiting DEF Unlock, TypeOK
  <2>3. \A t \in Threads : AbstractCall(t)' = AbstractCall(t)
    BY <1>10, <2>1, <2>2, SameCall DEF Unlock, TypeOK
  <2> QED
    BY <1>10, <2>3, CallsSame DEF Unlock, Fifo!vars, Calls
<1>11. CASE UNCHANGED vars
  BY <1>11 DEF vars, Fifo!vars, AbstractCall, Applied, Waiting
<1> QED
  BY <1>1, <1>2, <1>3, <1>4, <1>5, <1>6, <1>7, <1>8, <1>9, <1>10, <1>11
     DEF Next, Call, Step

(* FlatCombiningQueue is a linearizable FIFO queue for any number of       *)
(* threads: a request takes effect when the combiner applies it.           *)
THEOREM Linearizable == Spec => LinearizableFifo
<1>1. Init => Fifo!Init
  BY InitMaps
<1>2. Inv /\ [Next]_vars => [Fifo!Next]_(Fifo!vars)
  BY StepMaps
<1>3. Spec => []Inv
  BY InvAlways, PTL
<1> QED
  BY <1>1, <1>2, <1>3, PTL DEF Spec, LinearizableFifo, Fifo!Spec

=============================================================================
