---------------------------- MODULE StringArray ----------------------------
(***************************************************************************)
(* array.c: pointers in an array that realloc makes longer by BINSIZE each *)
(* time a multiple of BINSIZE has been added.                              *)
(***************************************************************************)
EXTENDS Integers, Sequences

CONSTANTS
  Value,     (* Pointers.                                                   *)
  Capacity,  (* How many are added, at most.  Bounds the model.             *)
  BINSIZE,   (* 256.                                                        *)
  Unset,     (* A place of realloc'ed memory nothing was written to.        *)
  NULL

VARIABLES
  length,
  arr,    (* The memory at arr: places 0 to its size - 1.                   *)
  ret     (* NULL after array_add, -1 after array_new.                        *)

vars == <<length, arr, ret>>

-----------------------------------------------------------------------------
(* How many places are allocated when an item is added.                    *)
Places_M1 == IF length % BINSIZE = 0 THEN BINSIZE * (length \div BINSIZE) ELSE Len(arr)

Places == IF length % BINSIZE = 0 THEN BINSIZE * (length \div BINSIZE + 1) ELSE Len(arr)

(* realloc keeps what is there; a write past the end is lost.              *)
array_add(s) ==
  /\ length < Capacity
  /\ arr' = [k \in 1..Places |-> IF k = length + 1 THEN s
                                 ELSE IF k <= Len(arr) THEN arr[k] ELSE Unset]
  /\ length' = length + 1
  /\ ret' = NULL

(* And array_new.                                                          *)
array_free == length' = 0 /\ arr' = <<>> /\ ret' = -1

Init == length = 0 /\ arr = <<>> /\ ret = NULL

Next == (\E s \in Value : array_add(s)) \/ array_free

-----------------------------------------------------------------------------
(* What who reads arr[0] to arr[length - 1] gets.                          *)
F == INSTANCE Fifo WITH
  q <- [k \in 1..length |-> IF k \in DOMAIN arr THEN arr[k] ELSE Unset]

(* The array has what was added, in order, however often it was moved.     *)
ImplementsFifo == F!Spec
=============================================================================
