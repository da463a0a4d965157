---------------------------- MODULE FifoMonitor ----------------------------
(***************************************************************************)
(* Linearizability of a FIFO queue, checked as the calls and returns of an *)
(* execution happen.  FifoQueue asks for the instant at which a call takes *)
(* effect; the ring queues have calls whose instant depends on what others *)
(* do later.  So the monitor keeps every configuration that some choice of *)
(* instants allows, and a return discards those that cannot explain it.    *)
(* The execution is linearizable as long as one is left.                   *)
(*                                                                         *)
(* A segment of a linked queue may moreover close: from some instant on,   *)
(* chosen by an enqueue, it refuses every item.  Like FifoQueue, the module*)
(* is a contract and has no counterpart in the code.                       *)
(***************************************************************************)
EXTENDS Integers, Sequences, FiniteSets

CONSTANTS
  Threads,
  NoItem,    (* the result of an enqueue, and of a dequeue that fails      *)
  Refused,   (* the result of an enqueue that finds the queue closed       *)
  CanClose   (* may an enqueue close the queue?                            *)

NoCall      == [stage |-> "idle", item |-> NoItem]
EnqCall(v)  == [stage |-> "enq",  item |-> v]
DeqCall     == [stage |-> "deq",  item |-> NoItem]
Done(r)     == [stage |-> "done", item |-> r]

InitialConfigs ==
  {[queue |-> <<>>, closed |-> FALSE, call |-> [t \in Threads |-> NoCall]]}

(* Thread t calls an operation. *)
Called(configs, t, op) == {[c EXCEPT !.call[t] = op] : c \in configs}

(* What the pending call of t may do, if it takes effect now. *)
Enqueued(c, t) ==
  [c EXCEPT !.queue = Append(@, c.call[t].item), !.call[t] = Done(NoItem)]

Turned(c, t) == [c EXCEPT !.closed = TRUE, !.call[t] = Done(Refused)]

Dequeued(c, t) ==
  IF c.queue = <<>> THEN [c EXCEPT !.call[t] = Done(NoItem)]
  ELSE [c EXCEPT !.queue = Tail(@), !.call[t] = Done(Head(c.queue))]

Effects(c, t) ==
  CASE c.call[t].stage = "deq" -> {Dequeued(c, t)}
    [] c.call[t].stage = "enq" /\ ~ c.closed ->
         {Enqueued(c, t)} \cup (IF CanClose THEN {Turned(c, t)} ELSE {})
    [] c.call[t].stage = "enq" /\ c.closed -> {Turned(c, t)}
    [] OTHER -> {}

(* Any of the pending calls may have taken effect by now, in any order. *)
Closure(configs) ==
  LET after[k \in 0 .. Cardinality(Threads)] ==
        IF k = 0 THEN configs
        ELSE after[k - 1] \cup
             UNION {UNION {Effects(c, t) : t \in Threads} : c \in after[k - 1]}
  IN  after[Cardinality(Threads)]

(* The call of t returns r, so it has taken effect with that result. *)
Returned(configs, t, r) ==
  {[c EXCEPT !.call[t] = NoCall] :
     c \in {d \in Closure(configs) : d.call[t] = Done(r)}}

=============================================================================
