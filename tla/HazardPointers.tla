--------------------------- MODULE HazardPointers ---------------------------
(***************************************************************************)
(* HazardPointers (include/HazardPointers.hpp), and the allocator as far as*)
(* it and the queues use it.  A thread announces the object it is about to *)
(* follow a pointer to; retire puts an object on the thread's own list and *)
(* then goes through that list, deleting whatever no thread announces.     *)
(*                                                                         *)
(* The module has no next-state relation: its operators are the pieces of  *)
(* the queues' actions, which leave to it the variables below.             *)
(***************************************************************************)
EXTENDS Integers, Sequences

CONSTANTS
  NumThreads,  (* maxThreads                                               *)
  NumHPs,      (* maxHPs                                                   *)
  NumObjects   (* client bound: addresses the allocator has                *)

VARIABLES
  hp,          (* hp[t][k]: hazard pointer k of thread t                   *)
  retired,     (* retiredList[t]                                           *)
  heap,        (* "new", "used" or "freed": what the allocator knows       *)
  scan         (* where t is in retire: index into its list, thread, slot  *)

Threads == 0 .. (NumThreads - 1)
Objects == 0 .. (NumObjects - 1)
Null    == NumObjects
Indices == 0 .. (NumHPs - 1)

NoScan == [at |-> 1, tid |-> 0, ihp |-> NumHPs - 1]

(* Object 0 is the queue's first. *)
InitHP ==
  /\ hp      = [t \in Threads |-> [k \in Indices |-> Null]]
  /\ retired = [t \in Threads |-> <<>>]
  /\ heap    = [o \in Objects |-> IF o = 0 THEN "used" ELSE "new"]
  /\ scan    = [t \in Threads |-> NoScan]

HPTypeOK ==
  /\ hp      \in [Threads -> [Indices -> Objects \cup {Null}]]
  /\ retired \in [Threads -> Seq(Objects)]
  /\ heap    \in [Objects -> {"new", "used", "freed"}]
  /\ scan    \in [Threads -> [at : Nat, tid : 0 .. NumThreads, ihp : Indices]]

(* Whether o may be the address of the next object allocated. *)
MayAllocate(o) ==
  \/ heap[o] = "new" /\ \A p \in 0 .. (o - 1) : heap[p] # "new"
  \/ heap[o] = "freed"

(* protectPtr, and the store in the loop of protect. *)
Protect(t, k, o) == hp' = [hp EXCEPT ![t][k] = o]

ClearOne(t, k) == Protect(t, k, Null)

(* The first statement of retire. *)
PushRetired(t, o) == retired' = [retired EXCEPT ![t] = Append(@, o)]

RetireDone(t) == scan[t].at > Len(retired[t])

(* The hazard pointers are loaded thread by thread, from the last index. *)
NextLoad(s) ==
  IF s.ihp > 0 THEN [s EXCEPT !.ihp = @ - 1]
  ELSE [s EXCEPT !.ihp = NumHPs - 1, !.tid = @ + 1]

(* One load of retire.  Announced: the object stays in the list. *)
RetireLoad(t) ==
  LET s == scan[t] IN
  /\ ~ RetireDone(t)
  /\ s.tid < NumThreads
  /\ scan' = [scan EXCEPT ![t] =
                IF hp[s.tid][s.ihp] = retired[t][s.at]
                THEN [NoScan EXCEPT !.at = s.at + 1] ELSE NextLoad(s)]
  /\ UNCHANGED <<retired, heap>>

(* Announced by none: it is erased from the list and deleted. *)
RetireDelete(t) ==
  LET at == scan[t].at IN
  /\ ~ RetireDone(t)
  /\ scan[t].tid = NumThreads
  /\ heap'    = [heap EXCEPT ![retired[t][at]] = "freed"]
  /\ retired' = [retired EXCEPT ![t] =
                   SubSeq(@, 1, at - 1) \o SubSeq(@, at + 1, Len(@))]
  /\ scan'    = [scan EXCEPT ![t] = [NoScan EXCEPT !.at = at]]

Listed(t, o) == \E k \in 1 .. Len(retired[t]) : retired[t][k] = o

(* An object is in at most one place of one list, and not yet deleted. *)
RetiredApart ==
  \A t \in Threads : \A k \in 1 .. Len(retired[t]) :
    LET o == retired[t][k] IN
    /\ heap[o] = "used"
    /\ \A j \in 1 .. Len(retired[t]) : retired[t][j] = o => j = k
    /\ \A u \in Threads \ {t} : ~ Listed(u, o)

=============================================================================
