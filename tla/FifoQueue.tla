----------------------------- MODULE FifoQueue -----------------------------
(***************************************************************************)
(* What every queue of the benchmark promises its callers: a linearizable  *)
(* first-in first-out queue.  An operation takes effect atomically at some *)
(* instant between its call and its return:                                *)
(*   - an enqueue appends its value;                                       *)
(*   - a dequeue that returns true removes the oldest value;               *)
(*   - a dequeue that returns false returns after an instant, inside its   *)
(*     own interval, at which the queue was empty.                         *)
(* The module has no counterpart in the code: it is the contract that the  *)
(* detailed modules implement under a refinement mapping.                  *)
(***************************************************************************)
EXTENDS Sequences

CONSTANTS
  Threads,   (* the worker threads                                         *)
  Values     (* what they enqueue                                          *)

VARIABLES
  queue,     (* the values in the queue, oldest first                      *)
  call       (* call[t]: where thread t is in the operation it called      *)

vars == <<queue, call>>

(***************************************************************************)
(* The stages of a call.  PendingDeq(TRUE) has observed the queue empty,   *)
(* and may return false.                                                   *)
(***************************************************************************)
Idle            == [stage |-> "idle"]
PendingEnq(v)   == [stage |-> "enq", value |-> v]
Enqueued        == [stage |-> "enqueued"]
PendingDeq(e)   == [stage |-> "deq", sawEmpty |-> e]
Dequeued(v)     == [stage |-> "dequeued", value |-> v]

Init ==
  /\ queue = <<>>
  /\ call  = [t \in Threads |-> Idle]

CallEnqueue(t, v) ==
  /\ call[t] = Idle
  /\ call' = [call EXCEPT ![t] = PendingEnq(v)]
  /\ UNCHANGED queue

CallDequeue(t) ==
  /\ call[t] = Idle
  /\ call' = [call EXCEPT ![t] = PendingDeq(FALSE)]
  /\ UNCHANGED queue

(* The linearization point of an enqueue. *)
Enqueue(t, v) ==
  /\ call[t] = PendingEnq(v)
  /\ queue' = Append(queue, v)
  /\ call' = [call EXCEPT ![t] = Enqueued]

(* The linearization point of a dequeue that returns true. *)
Dequeue(t) ==
  /\ \E e \in BOOLEAN : call[t] = PendingDeq(e)
  /\ queue # <<>>
  /\ queue' = Tail(queue)
  /\ call' = [call EXCEPT ![t] = Dequeued(Head(queue))]

(* A dequeue observes the queue empty ... *)
SeeEmpty(t) ==
  /\ call[t] = PendingDeq(FALSE)
  /\ queue = <<>>
  /\ call' = [call EXCEPT ![t] = PendingDeq(TRUE)]
  /\ UNCHANGED queue

(* ... and may start over instead of returning false. *)
Forget(t) ==
  /\ call[t] = PendingDeq(TRUE)
  /\ call' = [call EXCEPT ![t] = PendingDeq(FALSE)]
  /\ UNCHANGED queue

Return(t) ==
  /\ \/ call[t] \in {Enqueued, PendingDeq(TRUE)}
     \/ \E v \in Values : call[t] = Dequeued(v)
  /\ call' = [call EXCEPT ![t] = Idle]
  /\ UNCHANGED queue

Step(t) ==
  \/ \E v \in Values : CallEnqueue(t, v) \/ Enqueue(t, v)
  \/ CallDequeue(t)
  \/ Dequeue(t)
  \/ SeeEmpty(t)
  \/ Forget(t)
  \/ Return(t)

Next == \E t \in Threads : Step(t)

Spec == Init /\ [][Next]_vars

=============================================================================
