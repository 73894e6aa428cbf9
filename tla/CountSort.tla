----------------------------- MODULE CountSort -----------------------------
(***************************************************************************)
(* One counting pass, as every radix sort of the library makes it: clear   *)
(* the counts, count the digits, add the counts up from the low end (UP)   *)
(* or from the high end (DOWN), and put the items in their slots, the last *)
(* one first.  One action is one turn of one loop.  Items are their places *)
(* in the input, 0 to N - 1, so that the result shows the order in full.   *)
(***************************************************************************)
EXTENDS Integers, FiniteSets

CONSTANTS
  N,       (* How many items.                                               *)
  K,       (* How many values a digit has: 256, 2048 or 65536.              *)
  Unset    (* A slot of output nothing has been written to.                 *)

VARIABLES
  digit,   (* The digit of each item.                                       *)
  dir,     (* "UP" or "DOWN".                                               *)
  phase,   (* The loop that is running.                                     *)
  i,
  offset,  (* count in radix.c.                                             *)
  output

vars == <<digit, dir, phase, i, offset, output>>

Items == 0..N - 1
Digits == 0..K - 1

-----------------------------------------------------------------------------
(* The counts are static arrays: they hold what the last pass left.        *)
zero_M1 ==
  /\ phase = "zero"
  /\ phase' = "count"
  /\ UNCHANGED <<digit, dir, i, offset, output>>

zero ==
  /\ phase = "zero"
  /\ offset' = [d \in Digits |-> 0]
  /\ phase' = "count"
  /\ UNCHANGED <<digit, dir, i, output>>

Count ==
  /\ phase = "count" /\ i < N
  /\ offset' = [offset EXCEPT ![digit[i]] = @ + 1]
  /\ i' = i + 1
  /\ UNCHANGED <<digit, dir, phase, output>>

(* The loop that adds up starts next to the end it counts from.            *)
Counted ==
  /\ phase = "count" /\ i = N
  /\ phase' = "add"
  /\ i' = IF dir = "UP" THEN 1 ELSE K - 2
  /\ UNCHANGED <<digit, dir, offset, output>>

Add ==
  /\ phase = "add"
  /\ \/ /\ dir = "UP" /\ i < K
        /\ offset' = [offset EXCEPT ![i] = @ + offset[i - 1]]
        /\ i' = i + 1
     \/ /\ dir = "DOWN" /\ i >= 0
        /\ offset' = [offset EXCEPT ![i] = @ + offset[i + 1]]
        /\ i' = i - 1
  /\ UNCHANGED <<digit, dir, phase, output>>

(* Items go to their slots from the last to the first.                     *)
Added ==
  /\ phase = "add" /\ (IF dir = "UP" THEN i = K ELSE i < 0)
  /\ phase' = "scatter" /\ i' = N - 1
  /\ UNCHANGED <<digit, dir, offset, output>>

Slot(d) == offset[d] - 1

Scatter_M1 ==
  /\ phase = "scatter" /\ i >= 0
  /\ output' = [output EXCEPT ![Slot(digit[i])] = i]
  /\ i' = i - 1
  /\ UNCHANGED <<digit, dir, phase, offset>>

Scatter ==
  /\ phase = "scatter" /\ i >= 0
  /\ output' = [output EXCEPT ![Slot(digit[i])] = i]
  /\ offset' = [offset EXCEPT ![digit[i]] = @ - 1]
  /\ i' = i - 1
  /\ UNCHANGED <<digit, dir, phase>>

(* The pass before left in count[d] how many of its items came before      *)
(* those of digit d: it had N items at most, which bounds the model.       *)
Init ==
  /\ digit \in [Items -> Digits]
  /\ dir \in {"UP", "DOWN"}
  /\ phase = "zero" /\ i = 0
  /\ offset \in [Digits -> 0..N]
  /\ output = [k \in Items |-> Unset]

Next == zero \/ Count \/ Counted \/ Add \/ Added \/ Scatter

Spec == Init /\ [][Next]_vars

-----------------------------------------------------------------------------
Done == phase = "scatter" /\ i < 0

(* The slot an item is about to take is in the array, and is free: no item *)
(* overwrites another or what lies before the array.                       *)
SlotsFree ==
  phase = "scatter" /\ i >= 0 =>
    Slot(digit[i]) \in Items /\ output[Slot(digit[i])] = Unset

(* Does item x come before item y: by digit, then by place in the input.   *)
Precedes(x, y) ==
  \/ IF dir = "UP" THEN digit[x] < digit[y] ELSE digit[x] > digit[y]
  \/ digit[x] = digit[y] /\ x < y

(* The output has the items by digit, and those of a digit as they were.   *)
Sorted ==
  \A j, k \in Items : j < k =>
    /\ output[j] \in Items /\ output[k] \in Items
    /\ Precedes(output[j], output[k])
=============================================================================
