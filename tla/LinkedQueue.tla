---------------------------- MODULE LinkedQueue ----------------------------
(***************************************************************************)
(* queue of queue.c: a linked list with a tail pointer.  A value may be    *)
(* NULL itself: find_depth queues symbols as pointers, and byte 0 is one.  *)
(***************************************************************************)
EXTENDS Integers, Sequences, FiniteSets

CONSTANTS
  Value,     (* What is put in queues.                                      *)
  NULL,      (* The null pointer, as a node or as a value.                  *)
  Addr,      (* The addresses malloc has.  Bounds the model.                *)
  Free       (* What an address holds that is not allocated.                *)

VARIABLES
  heap,   (* The struct el at each address, Free if there is none.          *)
  head, tail, count,
  ret     (* What the last call returned: -1 for a new queue.               *)

vars == <<heap, head, tail, count, ret>>

-----------------------------------------------------------------------------
Allocated == {a \in Addr : heap[a] # Free}

(* The nodes from head on, as far as there are nodes.                      *)
Chain ==
  LET at[k \in 1..Cardinality(Addr) + 1] ==
        IF k = 1 THEN head
        ELSE IF at[k - 1] \in Allocated THEN heap[at[k - 1]].next ELSE NULL
      linked == {k \in DOMAIN at : \A j \in 1..k : at[j] \in Allocated}
  IN [k \in linked |-> at[k]]

queue_add(v) ==
  \E node \in Addr :
    /\ heap[node] = Free
    /\ heap' = [a \in Addr |->
         IF a = node THEN [value |-> v, next |-> NULL]
         ELSE IF a = tail THEN [heap[a] EXCEPT !.next = node]
         ELSE heap[a]]
    /\ head' = IF tail = NULL THEN node ELSE head
    /\ tail' = node
    /\ count' = count + 1
    /\ ret' = NULL

queue_take_M1 ==
  IF head = NULL THEN ret' = NULL /\ UNCHANGED <<heap, head, tail, count>>
  ELSE /\ ret' = heap[head].value
       /\ head' = heap[head].next
       /\ tail' = IF head' = NULL THEN NULL ELSE tail
       /\ count' = count - 1
       /\ UNCHANGED heap

queue_take ==
  IF head = NULL THEN ret' = NULL /\ UNCHANGED <<heap, head, tail, count>>
  ELSE /\ ret' = heap[head].value
       /\ head' = heap[head].next
       /\ tail' = IF head' = NULL THEN NULL ELSE tail
       /\ heap' = [heap EXCEPT ![head] = Free]
       /\ count' = count - 1

(* Not for an empty queue: it reads head without a test.                   *)
queue_peek ==
  /\ head # NULL
  /\ ret' = heap[head].value
  /\ UNCHANGED <<heap, head, tail, count>>

queue_count ==
  /\ ret' = count
  /\ UNCHANGED <<heap, head, tail, count>>

(* Take until that gives NULL, and free the queue; a new one follows.  A   *)
(* value that is NULL stops the loop and leaks what is behind it: the      *)
(* library frees queues that are empty.                                    *)
queue_free ==
  LET ends == {k \in 1..count : heap[Chain[k]].value = NULL} \cup {count}
      taken == {Chain[k] : k \in {j \in 1..count : \A e \in ends : j <= e}}
  IN /\ \A k \in 1..count - 1 : heap[Chain[k]].value # NULL
     /\ heap' = [a \in Addr |-> IF a \in taken THEN Free ELSE heap[a]]
     /\ head' = NULL /\ tail' = NULL /\ count' = 0 /\ ret' = -1

Init ==
  /\ heap = [a \in Addr |-> Free]
  /\ head = NULL /\ tail = NULL /\ count = 0 /\ ret = NULL

Next ==
  \/ \E v \in Value \cup {NULL} : queue_add(v)
  \/ queue_take
  \/ queue_peek
  \/ queue_count
  \/ queue_free

Spec == Init /\ [][Next]_vars

-----------------------------------------------------------------------------
(* The nodes linked from head are all there are, one for each value, and   *)
(* tail is the last: nothing leaks, nothing freed is linked, and the next  *)
(* add appends.                                                            *)
WellLinked ==
  /\ {Chain[k] : k \in DOMAIN Chain} = Allocated
  /\ Cardinality(DOMAIN Chain) = count /\ Cardinality(Allocated) = count
  /\ tail = IF count = 0 THEN NULL ELSE Chain[count]

F == INSTANCE Fifo WITH
  Value <- Value \cup {NULL},
  Capacity <- Cardinality(Addr),
  q <- [k \in 1..Cardinality(DOMAIN Chain) |-> heap[Chain[k]].value]

(* Whatever is added, taken and freed in turn, the list is a queue.        *)
ImplementsFifo == F!Spec
=============================================================================
