----------------------------- MODULE HuffmanTree -----------------------------
(***************************************************************************)
(* encode_tree_build of huffman.c, the two-queue construction of the       *)
(* Huffman tree, and find_depth, which groups the tree's symbols by depth. *)
(* One action is one turn of the merge loop, or one call of find_depth_n.  *)
(*                                                                         *)
(* heap holds the struct encode_tree nodes in the order they are           *)
(* allocated; a pointer is an index of heap, and 0 is the null pointer.    *)
(***************************************************************************)
EXTENDS Integers, Sequences, FiniteSetsExt, Functions

CONSTANTS
  Symbol,      (* The bytes that may occur.                                 *)
  Freq,        (* The frequencies a byte may have.                          *)
  MinSymbols   (* How many different bytes the input has, at least.         *)

ASSUME TreeAssumption ==
  /\ Symbol \subseteq Int /\ IsFiniteSet(Symbol)
  /\ Freq \subseteq Nat
  /\ MinSymbols \in Nat

VARIABLES
  phase,    (* "sort", "merge", "find" or "done".                           *)
  freqs,    (* The frequency of each byte.                                  *)
  heap,
  leaves,   (* The queue of symbols not merged yet.                         *)
  nodes,    (* The queue of merged nodes.                                   *)
  tree,     (* encode_tree_build's result.                                  *)
  level,    (* find_depth_n's nodes.                                        *)
  depths,   (* find_depth_n's acc: the symbols of each depth.               *)
  merged    (* History: how many merged nodes each depth had.               *)

vars == <<phase, freqs, heap, leaves, nodes, tree, level, depths, merged>>

-----------------------------------------------------------------------------
Used == {s \in Symbol : freqs[s] > 0}

symbol(s) == [type |-> "symbol", symbol |-> s, priority |-> freqs[s]]

merge(a, b, h) ==
  [type |-> "merged", left |-> a, right |-> b, priority |-> h[a].priority + h[b].priority]

(* The queue take_lowest takes from: the leaves first among equals.        *)
FromLeaves_M1(a, b) ==
  \/ b = <<>>
  \/ a # <<>> /\ heap[Head(b)].priority > heap[Head(a)].priority

FromLeaves(a, b) ==
  \/ b = <<>>
  \/ a # <<>> /\ heap[Head(b)].priority >= heap[Head(a)].priority

(* take_lowest: the pointer taken and the two queues after it.             *)
take_lowest_M1(a, b) ==
  IF a # <<>>
  THEN [node |-> Head(a), a |-> Tail(a), b |-> b]
  ELSE [node |-> Head(b), a |-> a, b |-> Tail(b)]

take_lowest_M2(a, b) ==
  [node |-> IF FromLeaves(a, b) THEN Head(a) ELSE Head(b), a |-> a, b |-> b]

take_lowest(a, b) ==
  IF FromLeaves(a, b)
  THEN [node |-> Head(a), a |-> Tail(a), b |-> b]
  ELSE [node |-> Head(b), a |-> a, b |-> Tail(b)]

(* A permutation of the used symbols that qsort with gt may leave: ties    *)
(* are in any order.                                                       *)
Sorted_M1(idx) == Range(idx) = Used

Sorted(idx) ==
  /\ Range(idx) = Used
  /\ \A j, k \in DOMAIN idx : j < k => freqs[idx[j]] <= freqs[idx[k]]

-----------------------------------------------------------------------------
(* encode_tree_build up to its loop: one leaf for each used symbol.        *)
SortLeaves ==
  /\ phase = "sort"
  /\ \E idx \in [1..Cardinality(Used) -> Used] :
       /\ Sorted(idx)
       /\ heap' = [k \in DOMAIN idx |-> symbol(idx[k])]
       /\ leaves' = [k \in DOMAIN idx |-> k]
  /\ phase' = "merge"
  /\ UNCHANGED <<freqs, nodes, tree, level, depths, merged>>

(* One turn of the loop: merge the two lowest nodes.                       *)
MergeLowest ==
  /\ phase = "merge" /\ Len(leaves) + Len(nodes) > 1
  /\ LET a == take_lowest(leaves, nodes)
         b == take_lowest(a.a, a.b)
     IN /\ heap' = Append(heap, merge(a.node, b.node, heap))
        /\ leaves' = b.a
        /\ nodes' = Append(b.b, Len(heap) + 1)
  /\ UNCHANGED <<phase, freqs, tree, level, depths, merged>>

(* After the loop: take the tree from nodes, even when the one node left   *)
(* is a leaf, and start find_depth.                                        *)
TakeTree ==
  /\ phase = "merge" /\ Len(leaves) + Len(nodes) <= 1
  /\ tree' = IF nodes = <<>> THEN 0 ELSE Head(nodes)
  /\ level' = <<tree'>>
  /\ phase' = "find"
  /\ leaves' = <<>> /\ nodes' = <<>>
  /\ UNCHANGED <<freqs, heap, depths, merged>>

IsSymbol(n) == n # 0 /\ heap[n].type = "symbol"
IsMerged(n) == n # 0 /\ heap[n].type = "merged"

(* The left and right children of the merged nodes of q, in order.         *)
Children_M1(q) ==
  LET of[k \in 0..Len(q)] ==
        IF k = 0 THEN <<>>
        ELSE IF IsMerged(q[k]) THEN Append(of[k - 1], heap[q[k]].left) ELSE of[k - 1]
  IN of[Len(q)]

Children(q) ==
  LET of[k \in 0..Len(q)] ==
        IF k = 0 THEN <<>>
        ELSE IF IsMerged(q[k]) THEN of[k - 1] \o <<heap[q[k]].left, heap[q[k]].right>>
        ELSE of[k - 1]
  IN of[Len(q)]

(* One call of find_depth_n: the level's symbols, then its children.  The  *)
(* null pointer, taken from the queue, ends its loop.                      *)
FindDepth ==
  /\ phase = "find" /\ level # <<>>
  /\ depths' = Append(depths, {heap[n].symbol : n \in {m \in Range(level) : IsSymbol(m)}})
  /\ level' = Children(level)
  /\ merged' = Append(merged, Cardinality({n \in Range(level) : IsMerged(n)}))
  /\ phase' = IF level' = <<>> THEN "done" ELSE "find"
  /\ UNCHANGED <<freqs, heap, leaves, nodes, tree>>

-----------------------------------------------------------------------------
(* The depths found here are the ones CanonicalCode starts from: its       *)
(* variables while find_depth runs and when encoder starts.                *)
C == INSTANCE CanonicalCode WITH
  NULL <- 0,
  phase <- IF phase = "done" THEN "encode" ELSE "find",
  lens <- IF phase = "done" THEN [d \in 0..Len(depths) - 2 |-> 0] ELSE <<>>,
  depth <- 0, dict <- <<>>, symbols <- <<>>, i <- 0, offs <- 0, base <- <<>>,
  offset <- <<>>, code <- 0, len <- -1, pushed <- 0, first <- <<>>

-----------------------------------------------------------------------------
Init ==
  /\ phase = "sort"
  /\ freqs \in [Symbol -> Freq]
  /\ Cardinality(Used) >= MinSymbols
  /\ heap = <<>> /\ leaves = <<>> /\ nodes = <<>> /\ tree = 0
  /\ level = <<>> /\ depths = <<>> /\ merged = <<>>

Next == SortLeaves \/ MergeLowest \/ TakeTree \/ FindDepth

Spec == Init /\ [][Next]_vars

-----------------------------------------------------------------------------
Pointer == 1..Len(heap)

Node ==
  [type : {"symbol"}, symbol : Symbol, priority : Nat]
    \cup [type : {"merged"}, left : Nat, right : Nat, priority : Nat]

(* Every variable has its type, and no queue holds more than the NBYTE     *)
(* entries it was made for (array_queue_add does not check).               *)
TypeOK ==
  /\ phase \in {"sort", "merge", "find", "done"}
  /\ freqs \in [Symbol -> Nat]
  /\ heap \in Seq(Node)
  /\ leaves \in Seq(Pointer) /\ Len(leaves) <= Cardinality(Symbol)
  /\ nodes \in Seq(Pointer) /\ Len(nodes) <= Cardinality(Symbol)
  /\ tree \in Pointer \cup {0}
  /\ level \in Seq(Pointer \cup {0})
  /\ depths \in Seq(SUBSET Symbol)
  /\ merged \in Seq(Nat)

Ascending(q) ==
  \A j, k \in DOMAIN q : j < k => heap[q[j]].priority <= heap[q[k]].priority

(* The comment at huffman.c:115: the loop ends when all are merged, with   *)
(* one node.                                                               *)
OneNodeLeft == phase = "find" => tree # 0

(* Both queues ascend although nothing sorts nodes: a merged node is never *)
(* lighter than one merged before it, so the two heads are the two lowest. *)
QueuesAscend == Ascending(leaves) /\ Ascending(nodes)

-----------------------------------------------------------------------------
(* Powers(n)[k] is 2^k.                                                    *)
Powers(n) == LET power[k \in 0..n] == IF k = 0 THEN 1 ELSE 2 * power[k - 1] IN power

(* Reference: the code lengths of every full tree over n symbols, by the   *)
(* Kraft equality, and what they cost.                                     *)
FullTrees(S) ==
  LET n == Cardinality(S) - 1  power == Powers(n)
  IN {l \in [S -> 1..n] : SumFunction([s \in S |-> power[n - l[s]]]) = power[n]}

Cost(l) == SumFunction([s \in DOMAIN l |-> l[s] * freqs[s]])

Height(l) == Max(Range(l))

(* The code lengths find_depth gives.                                      *)
Lengths == [s \in Used |-> (CHOOSE d \in DOMAIN depths : s \in depths[d]) - 1]

(* No prefix code is shorter: the text costs as few bits as in any full    *)
(* tree.                                                                   *)
Optimal ==
  phase = "done" /\ Cardinality(Used) >= 2 =>
    /\ Lengths \in FullTrees(Used)
    /\ \A l \in FullTrees(Used) : Cost(Lengths) <= Cost(l)

(* Leaves first among equals (vb >= va) keeps the longest code as short as *)
(* an optimal code allows: the codes must fit encoder's int and the 64-bit *)
(* word of huffman_encode_bytes.                                           *)
Shortest ==
  phase = "done" /\ Cardinality(Used) >= 2 =>
    \A l \in FullTrees(Used) :
      Cost(l) = Cost(Lengths) => Height(Lengths) <= Height(l)

(* Whatever encode_tree_build returns, find_depth makes of it one of the   *)
(* trees CanonicalCode is about: full, with each symbol at one depth.      *)
ImplementsFindDepth == C!Spec
=============================================================================
