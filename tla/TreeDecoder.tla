----------------------------- MODULE TreeDecoder -----------------------------
(***************************************************************************)
(* The other decoder of huffman.c, next to CanonicalCode's: huffman_tree   *)
(* inserts the codes into a binary tree, and huffman_decode_range walks    *)
(* it.  It shares only lens and symbols with the encoder and the table     *)
(* decoder.  Here the tree is built once the tables are, and both decoders *)
(* are given the same bits.                                                *)
(***************************************************************************)
EXTENDS CanonicalCode

INSTANCE CodeTree

ASSUME DecoderAssumption ==
  NULL \notin Symbol /\ NULL \notin [symbol : Symbol, length : Nat, code : Nat]

VARIABLES
  tree,
  at,       (* huffman_tree's loops: the length that is next,               *)
  j,        (* how many of its codes are inserted,                          *)
  icode,    (* the next code,                                               *)
  symbol8,  (* and where the symbols of this length begin.                  *)
  node,     (* huffman_decode_range's n.                                    *)
  output    (* What the last bit made it push.                              *)

treeVars == <<tree, at, j, icode, symbol8, node, output>>

-----------------------------------------------------------------------------
Building == phase = "decode" /\ at <= MaxDepth

Built == phase = "decode" /\ at > MaxDepth

(* The inner loop: one code.  lens counts lengths from 0.                  *)
InsertCode ==
  /\ Building /\ j < lens[at - 1]
  /\ tree' = Inserted(tree, icode, at, symbols[symbol8 + j + 1])
  /\ j' = j + 1 /\ icode' = icode + 1
  /\ UNCHANGED <<at, symbol8, node, output>>

(* The outer loop: the codes of the next length.                           *)
NextLength_M1 ==
  /\ Building /\ j = lens[at - 1]
  /\ at' = at + 1 /\ j' = 0
  /\ icode' = 2 * icode
  /\ UNCHANGED <<tree, symbol8, node, output>>

NextLength ==
  /\ Building /\ j = lens[at - 1]
  /\ at' = at + 1 /\ j' = 0
  /\ icode' = 2 * icode
  /\ symbol8' = symbol8 + lens[at - 1]
  /\ UNCHANGED <<tree, node, output>>

(* One bit.                                                                *)
Walk(bit) ==
  LET step == Step(tree, node, bit) IN
  /\ node' = step.node /\ output' = step.pushed
  /\ UNCHANGED <<tree, at, j, icode, symbol8>>

-----------------------------------------------------------------------------
TreeInit ==
  /\ Init
  /\ tree = huffman_new
  /\ at = 1 /\ j = 0 /\ icode = 0 /\ symbol8 = 0
  /\ node = <<>> /\ output = NULL

TreeNext ==
  \/ /\ \/ \E S \in SUBSET Unplaced : FindDepth(S)
        \/ EncodeDepth \/ InitLength \/ InitLast
     /\ UNCHANGED treeVars
  \/ (InsertCode \/ NextLength) /\ UNCHANGED vars
  \/ Built /\ \E bit \in {0, 1} : CheckBit(bit) /\ Walk(bit)

TreeSpec == TreeInit /\ [][TreeNext]_<<vars, treeVars>>

-----------------------------------------------------------------------------
(* No code is inserted below another's leaf (whose symbol would be read as *)
(* a pointer); no bit string leaves the finished tree (a null pointer);    *)
(* and the two decoders push the same symbols at the same bits.            *)
TreeAgrees ==
  /\ \A p \in DOMAIN tree : \A q \in Above(p) : tree[q] = NULL
  /\ Built => \A bit \in {0, 1} : Append(node, bit) \in DOMAIN tree
  /\ output = IF pushed = NULL THEN NULL ELSE pushed.symbol
=============================================================================
