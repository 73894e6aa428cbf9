-------------------------------- MODULE Baos --------------------------------
(***************************************************************************)
(* baos.c: a stream of bytes in a list of bins, the newest bin first.  A   *)
(* new bin is added as soon as one is full.  baos_to_array reverses the    *)
(* list in place, copies the bins into one array and frees them; one       *)
(* action is one turn of its loops.                                        *)
(*                                                                         *)
(* baos_copy and baos_push_int are pushes, one for each byte.              *)
(***************************************************************************)
EXTENDS Integers, Sequences, FiniteSets

CONSTANTS
  Byte, NULL,
  SIZE,      (* Bytes in a bin: 4096 in the code.                           *)
  MaxCount,  (* How many bytes a stream gets.  Bounds the model.            *)
  Addr,      (* Addresses for bins.                                         *)
  Unset      (* A byte of malloc'ed memory nothing was written to.          *)

ASSUME BaosAssumption ==
  /\ SIZE \in Nat \ {0} /\ MaxCount \in Nat
  /\ IsFiniteSet(Addr) /\ Cardinality(Addr) > MaxCount \div SIZE
  /\ NULL \notin Addr \cup Seq(Byte \cup {Unset}) /\ Unset \notin Byte /\ 0 \in Byte
  /\ NULL \notin [next : Addr \cup {NULL}, bin : [0..SIZE - 1 -> Byte]]

VARIABLES
  phase,   (* "none" when there is no stream, "push", "reverse" or "copy".  *)
  heap,    (* The struct list at each address, NULL if there is none.       *)
  count,
  bins,    (* baos->bins.                                                   *)
  bin,     (* baos->bin.                                                    *)
  list,    (* The list that is left to reverse, or to copy.                 *)
  rev,     (* The reversed part of it.                                      *)
  array,   (* The array that is filled.                                     *)
  outp,    (* How far.                                                      *)
  out,     (* What baos_to_array returned last.                             *)
  written  (* History: the bytes pushed.                                    *)

vars == <<phase, heap, count, bins, bin, list, rev, array, outp, out, written>>

-----------------------------------------------------------------------------
(* Adds a bin at address a, filled with 0, in front of the list next.      *)
WithBin(h, a, next) ==
  [h EXCEPT ![a] = [next |-> next, bin |-> [k \in 0..SIZE - 1 |-> 0]]]

baos_new ==
  /\ phase = "none"
  /\ \E a \in Addr :
       /\ heap[a] = NULL
       /\ heap' = WithBin(heap, a, NULL)
       /\ bins' = a /\ bin' = a
  /\ phase' = "push" /\ count' = 0 /\ written' = <<>>
  /\ UNCHANGED <<list, rev, array, outp, out>>

(* Write the byte, and add a bin if that filled one.                       *)
baos_push(b) ==
  LET h == [heap EXCEPT ![bin].bin[count % SIZE] = b] IN
  /\ phase = "push" /\ count < MaxCount
  /\ count' = count + 1
  /\ IF count' % SIZE # 0 THEN heap' = h /\ UNCHANGED <<bins, bin>>
     ELSE \E a \in Addr :
            /\ heap[a] = NULL
            /\ heap' = WithBin(h, a, bins)
            /\ bins' = a /\ bin' = a
  /\ written' = Append(written, b)
  /\ UNCHANGED <<phase, list, rev, array, outp, out>>

-----------------------------------------------------------------------------
(* baos_to_array of an empty stream: free its one bin.                     *)
ToNothing ==
  /\ phase = "push" /\ count = 0
  /\ heap' = [heap EXCEPT ![bins] = NULL]
  /\ out' = NULL
  /\ phase' = "none" /\ bins' = NULL /\ bin' = NULL /\ written' = NULL
  /\ UNCHANGED <<count, list, rev, array, outp>>

(* Of another: malloc the array, and reverse the list of bins.             *)
ToArray ==
  /\ phase = "push" /\ count > 0
  /\ array' = [k \in 1..count |-> Unset] /\ outp' = 0
  /\ list' = bins /\ rev' = NULL
  /\ phase' = "reverse"
  /\ UNCHANGED <<heap, count, bins, bin, out, written>>

ReverseBins_M1 ==
  /\ phase = "reverse"
  /\ phase' = "copy"
  /\ UNCHANGED <<heap, count, bins, bin, list, rev, array, outp, out, written>>

ReverseBins ==
  /\ phase = "reverse"
  /\ IF list # NULL
     THEN /\ heap' = [heap EXCEPT ![list].next = rev]
          /\ rev' = list /\ list' = heap[list].next
          /\ UNCHANGED phase
     ELSE phase' = "copy" /\ list' = rev /\ UNCHANGED <<heap, rev>>
  /\ UNCHANGED <<count, bins, bin, array, outp, out, written>>

(* How many bytes of the bin at list are copied.                           *)
Copied_M1 ==
  IF heap[list].next # NULL \/ count % SIZE = 0 THEN SIZE ELSE count % SIZE

Copied == IF heap[list].next # NULL THEN SIZE ELSE count % SIZE

(* Copy a bin and free it.  Bytes past the array's end overrun it.         *)
CopyBin_M1 ==
  /\ phase = "copy" /\ list # NULL
  /\ array' = [k \in DOMAIN array |->
       IF k > outp /\ k <= outp + Copied THEN heap[list].bin[k - outp - 1] ELSE array[k]]
  /\ outp' = outp + SIZE
  /\ list' = heap[list].next
  /\ UNCHANGED <<phase, heap, count, bins, bin, rev, out, written>>

CopyBin ==
  /\ phase = "copy" /\ list # NULL
  /\ array' = [k \in DOMAIN array |->
       IF k > outp /\ k <= outp + Copied THEN heap[list].bin[k - outp - 1] ELSE array[k]]
  /\ outp' = outp + SIZE
  /\ heap' = [heap EXCEPT ![list] = NULL]
  /\ list' = heap[list].next
  /\ UNCHANGED <<phase, count, bins, bin, rev, out, written>>

(* Free the stream itself.                                                 *)
Return ==
  /\ phase = "copy" /\ list = NULL
  /\ out' = array
  /\ phase' = "none" /\ bins' = NULL /\ bin' = NULL /\ written' = NULL
  /\ UNCHANGED <<heap, count, list, rev, array, outp>>

Init ==
  /\ phase = "none"
  /\ heap = [a \in Addr |-> NULL]
  /\ count = 0 /\ bins = NULL /\ bin = NULL /\ list = NULL /\ rev = NULL
  /\ array = <<>> /\ outp = 0 /\ out = NULL /\ written = NULL

Next ==
  \/ baos_new
  \/ \E b \in Byte : baos_push(b)
  \/ ToNothing \/ ToArray \/ ReverseBins \/ CopyBin \/ Return

Spec == Init /\ [][Next]_vars

-----------------------------------------------------------------------------
(* The addresses from p on, along next.                                    *)
Chain(p) ==
  LET at[k \in 1..Cardinality(Addr) + 1] ==
        IF k = 1 THEN p ELSE IF at[k - 1] = NULL THEN NULL ELSE heap[at[k - 1]].next
  IN {at[k] : k \in DOMAIN at} \ {NULL}

Allocated == {a \in Addr : heap[a] # NULL}

(* Every bin is in the list, or on either side of the point the reversal   *)
(* has come to; when the stream is gone, so are its bins.                  *)
NothingLost ==
  LET reached == CASE phase = "none" -> {}
                   [] phase = "push" -> Chain(bins)
                   [] phase = "reverse" -> Chain(list) \cup Chain(rev)
                   [] phase = "copy" -> Chain(list)
  IN Allocated = reached

(* No bin is copied past the end of the array, and a push has a bin: a bin *)
(* is added early, so the last bin's share is count % SIZE, also if 0.     *)
CopiesInside ==
  /\ phase = "push" => bin \in Allocated /\ bin = bins
  /\ phase = "copy" /\ list # NULL => outp + Copied <= count

S == INSTANCE ByteStream

(* The array has all the bytes, in the order they were pushed.             *)
ImplementsStream == S!Spec
=============================================================================
