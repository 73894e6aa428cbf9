----------------------------- MODULE Containers -----------------------------
(***************************************************************************)
(* The library's containers side by side: the ring and the list of queue.c,*)
(* the array of array.c and the stream of baos.c.  A behaviour uses one.   *)
(***************************************************************************)
EXTENDS Baos

CONSTANTS Value, Capacity, Nodes, Free, BINSIZE

ASSUME ContainersAssumption ==
  /\ Capacity \in Nat \ {0} /\ BINSIZE \in Nat \ {0} /\ IsFiniteSet(Nodes)
  /\ NULL \notin Value \cup Nodes \cup Int
  /\ Free \notin [value : Value \cup {NULL}, next : Nodes \cup {NULL}]

VARIABLES
  used,                                  (* The container in use.           *)
  arr, first, next, taken,               (* array_queue's variables.        *)
  nodes, head, tail, length, ret,        (* queue's variables.              *)
  added, strings, got                    (* array's variables.              *)

ringVars == <<arr, first, next, taken>>
listVars == <<nodes, head, tail, length, ret>>
stringVars == <<added, strings, got>>

Ring == INSTANCE ArrayQueue WITH head <- first, tail <- next, ret <- taken

Linked == INSTANCE LinkedQueue WITH heap <- nodes, count <- length, Addr <- Nodes

Strings == INSTANCE StringArray WITH length <- added, arr <- strings, ret <- got

AllInit ==
  /\ used \in {"array_queue", "queue", "array", "baos"}
  /\ Ring!Init /\ Linked!Init /\ Strings!Init /\ Init

AllNext ==
  \/ used = "array_queue" /\ Ring!Next /\ UNCHANGED <<used, listVars, stringVars, vars>>
  \/ used = "queue" /\ Linked!Next /\ UNCHANGED <<used, ringVars, stringVars, vars>>
  \/ used = "array" /\ Strings!Next /\ UNCHANGED <<used, ringVars, listVars, vars>>
  \/ used = "baos" /\ Next /\ UNCHANGED <<used, ringVars, listVars, stringVars>>

AllSpec == AllInit /\ [][AllNext]_<<used, ringVars, listVars, stringVars, vars>>

-----------------------------------------------------------------------------
(* Values are kept in order: by the ring wherever head and tail stand, also*)
(* when one has gone round; by the list whatever is taken in turn, NULL    *)
(* too; by the array however often realloc has moved it.                   *)
ImplementFifo == Ring!ImplementsFifo /\ Linked!ImplementsFifo /\ Strings!ImplementsFifo

(* The nodes linked from head are all there are, and tail is the last.     *)
WellLinked == Linked!WellLinked
=============================================================================
