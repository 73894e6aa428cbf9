----------------------------- MODULE ArrayQueue -----------------------------
(***************************************************************************)
(* array_queue of queue.c: a ring in an array of one place more than the   *)
(* queue's size.  array_queue_add does not look for room; who uses it never*)
(* adds more than the size it asked for.                                   *)
(***************************************************************************)
EXTENDS Integers, Sequences

CONSTANTS Value, Capacity, NULL

VARIABLES
  arr,    (* The ring.                                                      *)
  head,   (* Where the oldest value is,                                     *)
  tail,   (* and where the next one goes.                                   *)
  ret     (* What the last call returned: -1 for a new queue.               *)

vars == <<arr, head, tail, ret>>

-----------------------------------------------------------------------------
(* One more place than values, so that full and empty differ.              *)
size == Capacity + 1

Places == 0..size - 1

array_queue_count ==
  IF head > tail THEN size + tail - head ELSE tail - head

array_queue_add(v) ==
  /\ array_queue_count < Capacity
  /\ arr' = [arr EXCEPT ![tail] = v]
  /\ tail' = (tail + 1) % size
  /\ ret' = NULL
  /\ UNCHANGED head

array_queue_take ==
  /\ IF head = tail
     THEN ret' = NULL /\ UNCHANGED head
     ELSE ret' = arr[head] /\ head' = (head + 1) % size
  /\ UNCHANGED <<arr, tail>>

array_queue_peek ==
  /\ ret' = IF head = tail THEN NULL ELSE arr[head]
  /\ UNCHANGED <<arr, head, tail>>

Count ==
  /\ ret' = array_queue_count
  /\ UNCHANGED <<arr, head, tail>>

(* And array_queue_new, whose calloc clears the ring.                      *)
array_queue_free ==
  /\ arr' = [p \in Places |-> NULL]
  /\ head' = 0 /\ tail' = 0 /\ ret' = -1

Init ==
  /\ arr = [p \in Places |-> NULL]
  /\ head = 0 /\ tail = 0 /\ ret = NULL

Next ==
  \/ \E v \in Value : array_queue_add(v)
  \/ array_queue_take
  \/ array_queue_peek
  \/ Count
  \/ array_queue_free

Spec == Init /\ [][Next]_vars

-----------------------------------------------------------------------------
(* The values from head round to tail.                                     *)
Contents == [k \in 1..array_queue_count |-> arr[(head + k - 1) % size]]

F == INSTANCE Fifo WITH q <- Contents

(* The ring is a queue: the count, the order and NULL for empty are right  *)
(* wherever head and tail stand, also when one has gone round.             *)
ImplementsFifo == F!Spec
=============================================================================
