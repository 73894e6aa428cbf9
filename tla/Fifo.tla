-------------------------------- MODULE Fifo --------------------------------
(***************************************************************************)
(* What the queues of queue.c, and the array of array.c, promise: values   *)
(* are kept in the order they went in, and an empty queue gives NULL.      *)
(***************************************************************************)
EXTENDS Integers, Sequences

CONSTANTS
  Value,     (* What is put in queues: pointers, and symbols cast to them.  *)
  Capacity,  (* How many values a queue holds at once, at most.             *)
  NULL

VARIABLES
  q,    (* The values in the queue, the oldest first.                       *)
  ret   (* What the last call returned.                                     *)

fifoVars == <<q, ret>>

Add(v) == Len(q) < Capacity /\ q' = Append(q, v) /\ ret' = NULL

Take ==
  IF q = <<>> THEN ret' = NULL /\ UNCHANGED q
  ELSE ret' = Head(q) /\ q' = Tail(q)

Peek == ret' = (IF q = <<>> THEN NULL ELSE Head(q)) /\ UNCHANGED q

Count == ret' = Len(q) /\ UNCHANGED q

(* The queue is freed and a new one made, which is what the call returns:  *)
(* no add may do the same.                                                 *)
NewQueue == -1

Renew == q' = <<>> /\ ret' = NewQueue

Init == q = <<>> /\ ret = NULL

Next == (\E v \in Value : Add(v)) \/ Take \/ Peek \/ Count \/ Renew

Spec == Init /\ [][Next]_fifoVars
=============================================================================
