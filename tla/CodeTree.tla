------------------------------ MODULE CodeTree ------------------------------
(***************************************************************************)
(* The binary trees huffman.c decodes with.  A node is the path to it, the *)
(* bits of its code so far; a tree says which nodes there are: the symbol  *)
(* of a leaf, or NULL for an inner node.                                   *)
(***************************************************************************)
EXTENDS Integers, Sequences

CONSTANT NULL

(* huffman_new: the root.                                                  *)
huffman_new == [p \in {<<>>} |-> NULL]

(* The bits of a code of length l, the highest first.                      *)
Path(c, l) ==
  LET shifted[k \in 0..l] == IF k = 0 THEN c ELSE shifted[k - 1] \div 2
  IN [k \in 1..l |-> shifted[l - k] % 2]

Above(path) == {SubSeq(path, 1, k) : k \in 0..Len(path) - 1}

(* insert: inner nodes where there are none yet, and a leaf.               *)
Inserted(tree, c, l, sym) ==
  [p \in DOMAIN tree \cup Above(Path(c, l)) \cup {Path(c, l)} |->
    IF p = Path(c, l) THEN sym ELSE IF p \in DOMAIN tree THEN tree[p] ELSE NULL]

(* The decoders' step from node n by one bit: down, and from a leaf, whose *)
(* symbol is pushed, back to the root.                                     *)
Step(tree, n, bit) ==
  LET m == Append(n, bit)
      leaf == m \in DOMAIN tree /\ tree[m] # NULL
  IN [node |-> IF leaf THEN <<>> ELSE m, pushed |-> IF leaf THEN tree[m] ELSE NULL]
=============================================================================
