---------------------------- MODULE CanonicalCode ----------------------------
(***************************************************************************)
(* The canonical Huffman code of huffman.c, from the tree to the decoder:  *)
(* find_depth groups the symbols of a tree by depth, encoder numbers them, *)
(* huffman_decoder_init rebuilds first codes and offsets from the counts   *)
(* alone, and huffman_canonical_decode reads one bit after the other.      *)
(* One action is one iteration of one of these loops.                      *)
(*                                                                         *)
(* The tree is any full binary tree with two leaves or more over distinct  *)
(* symbols.  It is chosen level by level, while find_depth walks it; the   *)
(* tree of a one-symbol alphabet is the subject of HuffmanTree.  Codes are *)
(* unbounded: the code keeps them in an int, which a tree deeper than 30   *)
(* would overflow.                                                         *)
(***************************************************************************)
EXTENDS Integers, Sequences, FiniteSets

CONSTANTS
  Symbol,  (* The bytes that may occur, in the order of cmp_char.           *)
  NULL     (* No symbol pushed.                                             *)

ASSUME CodeAssumption ==
  /\ Symbol \subseteq Int
  /\ IsFiniteSet(Symbol)
  /\ Cardinality(Symbol) >= 2

VARIABLES
  phase,    (* The loop that is running.                                    *)
  depths,   (* depths[d + 1]: the symbols at depth d of the tree.           *)
  merged,   (* merged[d + 1]: how many merged nodes depth d has.            *)
  depth,    (* encoder's loop: the next depth to number.                    *)
  dict,     (* encoder->dict: the code of each symbol.                      *)
  lens,     (* canonical.lens: how many codes of each length.               *)
  symbols,  (* canonical.symbols: the symbols in code order.                *)
  i,        (* huffman_decoder_init's loop.                                 *)
  offs,
  base,     (* decoder->base, and a last element for termination.           *)
  offset,   (* decoder->offset.                                             *)
  code,     (* The local code of the loop that is running.                  *)
  len,      (* huffman_canonical_decode: bits of the pending code, less 1.  *)
  pushed,   (* The last step's output, with the bits it was read from.      *)
  first     (* History: encoder's code and output size at each depth.       *)

vars == <<phase, depths, merged, depth, dict, lens, symbols,
          i, offs, base, offset, code, len, pushed, first>>

-----------------------------------------------------------------------------
Count(d) == Cardinality(depths[d + 1])

MaxDepth == Len(depths) - 1

Unplaced == Symbol \ UNION {depths[d] : d \in DOMAIN depths}

(* How many nodes the next depth has.                                      *)
Nodes == IF merged = <<>> THEN 1 ELSE 2 * merged[Len(merged)]

Elements(s) == {s[k] : k \in DOMAIN s}

(* s is the set S after qsort with cmp_char.                               *)
Sorted(s, S) ==
  /\ Elements(s) = S
  /\ \A j, k \in DOMAIN s : j < k => s[j] < s[k]

IndexOf(s, x) == CHOOSE k \in DOMAIN s : s[k] = x

(* The function f, also defined at x, with value v there.                  *)
With(f, x, v) == [y \in DOMAIN f \cup {x} |-> IF y = x THEN v ELSE f[y]]

-----------------------------------------------------------------------------
(* One level of find_depth_n: S are the level's symbols, the rest of its   *)
(* nodes are merged.  The root is merged, and the symbols not placed yet   *)
(* must be enough for the levels below.                                    *)
FindDepth(S) ==
  /\ phase = "find"
  /\ Cardinality(S) <= Nodes
  /\ depths = <<>> => S = {}
  /\ 2 * (Nodes - Cardinality(S)) <= Cardinality(Unplaced \ S)
  /\ depths' = Append(depths, S)
  /\ merged' = Append(merged, Nodes - Cardinality(S))
  /\ IF Nodes = Cardinality(S)
     THEN phase' = "encode" /\ lens' = [d \in 0..Len(depths) - 1 |-> 0]
     ELSE UNCHANGED <<phase, lens>>
  /\ UNCHANGED <<depth, dict, symbols, i, offs, base, offset, code, len, pushed, first>>

(* One turn of encoder's loop: number the symbols of this depth.           *)
EncodeDepth_M1 ==
  LET S == depths[depth + 1] IN
  /\ phase = "encode"
  /\ \E syms \in [1..Cardinality(S) -> S] :
       /\ Sorted(syms, S)
       /\ dict' = [s \in DOMAIN dict \cup S |->
                    IF s \in S THEN [length |-> depth, code |-> code + IndexOf(syms, s) - 1]
                    ELSE dict[s]]
       /\ symbols' = symbols \o syms
  /\ lens' = IF S = {} THEN lens ELSE [lens EXCEPT ![depth - 1] = Cardinality(S)]
  /\ first' = With(first, depth, [code |-> code, at |-> Len(symbols)])
  /\ depth' = depth + 1
  /\ IF depth = MaxDepth
     THEN phase' = "init" /\ code' = 0
     ELSE phase' = phase /\ code' = 2 * code + Cardinality(S)
  /\ UNCHANGED <<depths, merged, i, offs, base, offset, len, pushed>>

EncodeDepth ==
  LET S == depths[depth + 1] IN
  /\ phase = "encode"
  /\ \E syms \in [1..Cardinality(S) -> S] :
       /\ Sorted(syms, S)
       /\ dict' = [s \in DOMAIN dict \cup S |->
                    IF s \in S THEN [length |-> depth, code |-> code + IndexOf(syms, s) - 1]
                    ELSE dict[s]]
       /\ symbols' = symbols \o syms
  /\ lens' = IF S = {} THEN lens ELSE [lens EXCEPT ![depth - 1] = Cardinality(S)]
  /\ first' = With(first, depth, [code |-> code, at |-> Len(symbols)])
  /\ depth' = depth + 1
  /\ IF depth = MaxDepth
     THEN phase' = "init" /\ code' = 0
     ELSE phase' = phase /\ code' = 2 * (code + Cardinality(S))
  /\ UNCHANGED <<depths, merged, i, offs, base, offset, len, pushed>>

(* One turn of huffman_decoder_init_transform's loop.                      *)
InitLength ==
  /\ phase = "init" /\ i < MaxDepth
  /\ base' = With(base, i, code)
  /\ offset' = With(offset, i, offs)
  /\ code' = 2 * (code + lens[i])
  /\ offs' = offs + lens[i]
  /\ i' = i + 1
  /\ UNCHANGED <<phase, depths, merged, depth, dict, lens, symbols, len, pushed, first>>

(* After it: one more base, for termination.                               *)
InitLast_M1 ==
  /\ phase = "init" /\ i = MaxDepth
  /\ phase' = "decode" /\ code' = 0
  /\ UNCHANGED <<depths, merged, depth, dict, lens, symbols, i, offs, base, offset, len, pushed, first>>

InitLast ==
  /\ phase = "init" /\ i = MaxDepth
  /\ base' = With(base, i, code)
  /\ phase' = "decode" /\ code' = 0
  /\ UNCHANGED <<depths, merged, depth, dict, lens, symbols, i, offs, offset, len, pushed, first>>

(* The test of CHECKBIT: the len + 1 bits of c are a code.                 *)
Complete_M1(c, l) == 2 * (c + 1) < base[l + 1]

Complete(c, l) == 2 * c < base[l + 1]

(* Where CHECKBIT then finds the symbol, counting from 0.                  *)
SymbolIndex(c, l) == offset[l] + (c - base[l])

(* CHECKBIT: shift in one bit, push a symbol when the code is complete.    *)
CheckBit(bit) ==
  LET c == 2 * code + bit
      l == len + 1
  IN
  /\ phase = "decode"
  /\ IF Complete(c, l)
     THEN /\ pushed' = [symbol |-> symbols[SymbolIndex(c, l) + 1], length |-> l + 1, code |-> c]
          /\ code' = 0 /\ len' = -1
     ELSE /\ pushed' = NULL
          /\ code' = c /\ len' = l
  /\ UNCHANGED <<phase, depths, merged, depth, dict, lens, symbols, i, offs, base, offset, first>>

-----------------------------------------------------------------------------
Init ==
  /\ phase = "find"
  /\ depths = <<>> /\ merged = <<>>
  /\ depth = 0 /\ dict = <<>> /\ lens = <<>> /\ symbols = <<>>
  /\ i = 0 /\ offs = 0 /\ base = <<>> /\ offset = <<>>
  /\ code = 0 /\ len = -1 /\ pushed = NULL
  /\ first = <<>>

Next ==
  \/ \E S \in SUBSET Unplaced : FindDepth(S)
  \/ EncodeDepth
  \/ InitLength
  \/ InitLast
  \/ \E bit \in {0, 1} : CheckBit(bit)

Spec == Init /\ [][Next]_vars

-----------------------------------------------------------------------------
Code == [length : Nat, code : Nat]

TypeOK ==
  /\ phase \in {"find", "encode", "init", "decode"}
  /\ depths \in Seq(SUBSET Symbol)
  /\ merged \in Seq(Nat)
  /\ depth \in Nat
  /\ DOMAIN dict \subseteq Symbol /\ \A s \in DOMAIN dict : dict[s] \in Code
  /\ DOMAIN lens \subseteq Nat /\ \A d \in DOMAIN lens : lens[d] \in Nat
  /\ symbols \in Seq(Symbol)
  /\ i \in Nat /\ offs \in Nat
  /\ DOMAIN base \subseteq Nat /\ \A d \in DOMAIN base : base[d] \in Nat
  /\ DOMAIN offset \subseteq Nat /\ \A d \in DOMAIN offset : offset[d] \in Nat
  /\ code \in Nat
  /\ len \in Nat \cup {-1}
  /\ pushed \in {NULL} \cup [symbol : Symbol, length : Nat, code : Nat]

(* Whatever bits follow, the decoder reads base, offset and symbols inside *)
(* their bounds: no bit string, padding included, runs past the last       *)
(* length (huffman.c:658-663 has no check of its own).                     *)
ReadsInBounds ==
  phase = "decode" => \A bit \in {0, 1} :
    LET c == 2 * code + bit
        l == len + 1
    IN /\ l + 1 \in DOMAIN base
       /\ Complete(c, l) =>
            /\ l \in DOMAIN offset /\ l \in DOMAIN base
            /\ c >= base[l]
            /\ SymbolIndex(c, l) + 1 \in DOMAIN symbols

(* The encoder and the decoder agree: a pushed symbol is the one whose     *)
(* code was read.  They share only lens and symbols.                       *)
DecodesOnlyCodes ==
  pushed # NULL =>
    /\ pushed.symbol \in DOMAIN dict
    /\ dict[pushed.symbol] = [length |-> pushed.length, code |-> pushed.code]

(* And no code is read past: while the decoder waits for more bits, the    *)
(* bits it holds are no symbol's code.                                     *)
StopsAtCodes ==
  phase = "decode" /\ len >= 0 =>
    \A s \in DOMAIN dict : dict[s] # [length |-> len + 1, code |-> code]
=============================================================================
