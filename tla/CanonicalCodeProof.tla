-------------------------- MODULE CanonicalCodeProof --------------------------
(***************************************************************************)
(* For every alphabet and every full code tree, the canonical decoder      *)
(* inverts the canonical encoder and never reads out of bounds; and the    *)
(* tree that huffman_tree builds has a leaf for every code and a way on    *)
(* for every bit string, and the walk down it pushes what the table        *)
(* decoder pushes.                                                         *)
(***************************************************************************)
EXTENDS TreeDecoder, Induction, SequenceTheorems

-----------------------------------------------------------------------------
(* Sequences and counts.                                                   *)

LEMMA FcnIsSeq ==
  ASSUME NEW n \in Nat, NEW S, NEW m \in [1..n -> S]
  PROVE  m \in Seq(S) /\ Len(m) = n
  OBVIOUS

(* A listing of S is a sequence over S, and finds each member of S at one  *)
(* place.                                                                  *)
LEMMA SortedIs ==
  ASSUME NEW S \in SUBSET Symbol, NEW n \in Nat, NEW s \in [1..n -> S], Sorted(s, S)
  PROVE  /\ \A x \in S : IndexOf(s, x) \in 1..n /\ s[IndexOf(s, x)] = x
         /\ \A k \in 1..n : s[k] \in S /\ IndexOf(s, s[k]) = k
<1>1. \A x \in S : \E k \in 1..n : s[k] = x
  BY DEF Sorted, Elements
<1>2. \A x \in S : IndexOf(s, x) \in 1..n /\ s[IndexOf(s, x)] = x
  BY <1>1 DEF IndexOf
<1>3. ASSUME NEW h \in 1..n, NEW k \in 1..n, s[h] = s[k] PROVE h = k
  <2>1. s[h] \in Int
    BY CodeAssumption
  <2>2. ~ (h < k) /\ ~ (k < h)
    BY <1>3, <2>1 DEF Sorted
  <2> QED
    BY <2>2
<1>4. \A k \in 1..n : s[k] \in S
  OBVIOUS
<1>5. ASSUME NEW k \in 1..n PROVE IndexOf(s, s[k]) = k
  BY <1>2, <1>3, <1>4
<1> QED
  BY <1>2, <1>4, <1>5

LEMMA SubsetCount ==
  ASSUME NEW S \in SUBSET Symbol
  PROVE  Cardinality(S) \in Nat /\ IsFiniteSet(S)
  BY CodeAssumption, FS_Subset, FS_CardinalityType

-----------------------------------------------------------------------------
(* The inductive invariant, one part for each loop.                        *)

(* The depths of the tree: disjoint sets of symbols, as many nodes as the  *)
(* depth above has children.                                               *)
TreeInv ==
  /\ depths \in Seq(SUBSET Symbol)
  /\ merged \in Seq(Nat)
  /\ Len(merged) = Len(depths)
  /\ depths # <<>> => depths[1] = {} /\ merged[1] = 1
  /\ \A d \in 1..MaxDepth : Count(d) + merged[d + 1] = 2 * merged[d]
  /\ \A d, e \in DOMAIN depths : d # e => depths[d] \cap depths[e] = {}

(* Once find_depth is done the last depth has no merged node.              *)
TreeDone == depths # <<>> /\ merged[MaxDepth + 1] = 0

(* Where the codes and the symbols of depth d + 1 start, given depth d.    *)
NextCode(d) == 2 * (first[d].code + Count(d))
NextAt(d) == first[d].at + Count(d)

(* What encoder has numbered: the depths before depth.                     *)
EncodeInv ==
  /\ depth \in 0..MaxDepth + 1
  /\ DOMAIN first = 0..depth - 1
  /\ \A d \in 0..depth - 1 : first[d] \in [code : Nat, at : Nat]
  /\ depth > 0 => first[0] = [code |-> 0, at |-> 0]
  /\ \A d \in 1..depth - 1 : first[d] = [code |-> NextCode(d - 1), at |-> NextAt(d - 1)]
  /\ symbols \in Seq(Symbol)
  /\ Len(symbols) = IF depth = 0 THEN 0 ELSE NextAt(depth - 1)
  /\ DOMAIN dict = UNION {depths[d] : d \in 1..depth}
  /\ \A d \in 0..depth - 1 : \A s \in depths[d + 1] :
       \E k \in 1..Count(d) : dict[s] = [length |-> d, code |-> first[d].code + k - 1]
  /\ \A d \in 0..depth - 1 : \A k \in 1..Count(d) :
       /\ first[d].at + k \in 1..Len(symbols)
       /\ symbols[first[d].at + k] \in depths[d + 1]
       /\ dict[symbols[first[d].at + k]] = [length |-> d, code |-> first[d].code + k - 1]
  /\ DOMAIN lens = 0..MaxDepth - 1
  /\ \A d \in 0..MaxDepth - 1 : lens[d] = IF d + 1 < depth THEN Count(d + 1) ELSE 0

(* What huffman_decoder_init has rebuilt: lengths before i.                *)
InitInv ==
  /\ i \in 0..MaxDepth
  /\ DOMAIN offset = 0..i - 1
  /\ 0..i - 1 \subseteq DOMAIN base
  /\ \A x \in 0..i - 1 : base[x] = first[x + 1].code /\ offset[x] = first[x + 1].at

(* The bits read so far are past the codes of depth len + 1 and among its  *)
(* merged nodes.                                                           *)
DecodeInv ==
  LET d == len + 1 IN
  /\ d \in 0..MaxDepth - 1
  /\ first[d].code + Count(d) <= code
  /\ code < first[d].code + Count(d) + merged[d + 1]

Undecoded == i = 0 /\ offs = 0 /\ base = <<>> /\ offset = <<>>

FindPart ==
  /\ depth = 0 /\ dict = <<>> /\ symbols = <<>> /\ first = <<>> /\ lens = <<>>
  /\ Undecoded /\ code = 0

EncodePart ==
  /\ TreeDone /\ EncodeInv /\ Undecoded
  /\ depth <= MaxDepth
  /\ code = IF depth = 0 THEN 0 ELSE NextCode(depth - 1)

InitPart ==
  /\ TreeDone /\ EncodeInv /\ depth = MaxDepth + 1
  /\ InitInv
  /\ DOMAIN base = 0..i - 1
  /\ code = IF i < MaxDepth THEN first[i + 1].code ELSE NextCode(MaxDepth)
  /\ offs = IF i < MaxDepth THEN first[i + 1].at ELSE NextAt(MaxDepth)

DecodePart ==
  /\ TreeDone /\ EncodeInv /\ depth = MaxDepth + 1
  /\ InitInv /\ i = MaxDepth
  /\ DOMAIN base = 0..MaxDepth /\ base[MaxDepth] = NextCode(MaxDepth)
  /\ DecodeInv

IInv ==
  /\ TypeOK
  /\ TreeInv
  /\ DecodesOnlyCodes
  /\ phase # "decode" => len = -1 /\ pushed = NULL
  /\ phase = "find" => FindPart
  /\ phase = "encode" => EncodePart
  /\ phase = "init" => InitPart
  /\ phase = "decode" => DecodePart

LEMMA InitIInv == Init => IInv
<1> SUFFICES ASSUME Init PROVE IInv
  OBVIOUS
<1> USE DEF Init
<1>1. TypeOK
  BY DEF TypeOK
<1>2. TreeInv
  BY DEF TreeInv, MaxDepth
<1>3. DecodesOnlyCodes
  BY DEF DecodesOnlyCodes
<1>4. FindPart
  BY DEF FindPart, Undecoded
<1> QED
  BY <1>1, <1>2, <1>3, <1>4 DEF IInv

(* The state of the later loops while find_depth runs.                     *)
LEMMA FindStep ==
  ASSUME IInv, NEW S \in SUBSET Unplaced, FindDepth(S)
  PROVE  IInv'
<1> DEFINE n == Cardinality(S)
           L == Len(depths)
<1>1. phase = "find" /\ len = -1 /\ pushed = NULL /\ FindPart /\ TreeInv /\ TypeOK
  BY DEF IInv, FindDepth
<1>2. S \in SUBSET Symbol /\ n \in Nat
  BY SubsetCount DEF Unplaced
<1>3. /\ depths \in Seq(SUBSET Symbol) /\ merged \in Seq(Nat) /\ Len(merged) = L /\ L \in Nat
      /\ depths' = Append(depths, S) /\ merged' = Append(merged, Nodes - n)
      /\ n <= Nodes
  BY <1>1 DEF FindDepth, TreeInv
<1>4. /\ Nodes \in Nat
      /\ L = 0 => Nodes = 1 /\ S = {}
      /\ L > 0 => Nodes = 2 * merged[L] /\ merged[L] \in Nat
  <2>1. L = 0 => depths = <<>> /\ merged = <<>>
    BY <1>3
  <2>2. L > 0 => merged # <<>> /\ merged[L] \in Nat
    BY <1>3
  <2> QED
    BY <2>1, <2>2, <1>3 DEF Nodes, FindDepth
<1>5. L = 0 => n = 0
  BY <1>4, FS_EmptySet
<1>6. /\ depths' \in Seq(SUBSET Symbol) /\ merged' \in Seq(Nat)
      /\ Len(depths') = L + 1 /\ Len(merged') = L + 1 /\ MaxDepth' = L
      /\ \A d \in 1..L : depths'[d] = depths[d] /\ merged'[d] = merged[d]
      /\ depths'[L + 1] = S /\ merged'[L + 1] = Nodes - n
  BY <1>2, <1>3, <1>4 DEF MaxDepth
<1>7. TreeInv'
  <2>1. depths' # <<>> => depths'[1] = {} /\ merged'[1] = 1
    <3>1. CASE L = 0
      BY <3>1, <1>4, <1>5, <1>6
    <3>2. CASE L > 0
      <4>1. depths # <<>>
        BY <3>2, <1>3
      <4> QED
        BY <3>2, <4>1, <1>1, <1>3, <1>6 DEF TreeInv
    <3> QED
      BY <3>1, <3>2, <1>3
  <2>2. ASSUME NEW d \in 1..L
        PROVE  Cardinality(depths'[d + 1]) + merged'[d + 1] = 2 * merged'[d]
    <3>1. CASE d = L
      BY <3>1, <1>2, <1>3, <1>4, <1>6
    <3>2. CASE d < L
      <4>1. Cardinality(depths[d + 1]) + merged[d + 1] = 2 * merged[d]
        BY <3>2, <1>1, <1>3 DEF TreeInv, Count, MaxDepth
      <4> QED
        BY <3>2, <4>1, <1>3, <1>6
    <3> QED
      BY <3>1, <3>2, <1>3
  <2>3. ASSUME NEW d \in 1..L + 1, NEW e \in 1..L + 1, d # e
        PROVE  depths'[d] \cap depths'[e] = {}
    <3>0. DOMAIN depths = 1..L
      BY <1>3
    <3>1. \A x \in 1..L : S \cap depths[x] = {}
      BY <3>0 DEF Unplaced
    <3>2. \A x, y \in 1..L : x # y => depths[x] \cap depths[y] = {}
      BY <3>0, <1>1 DEF TreeInv
    <3>3. /\ d \in 1..L => depths'[d] = depths[d]
          /\ e \in 1..L => depths'[e] = depths[e]
          /\ d \notin 1..L => depths'[d] = S
          /\ e \notin 1..L => depths'[e] = S
      BY <1>3, <1>6
    <3> QED
      BY <2>3, <3>1, <3>2, <3>3, <1>3
  <2> QED
    BY <2>1, <2>2, <2>3, <1>6 DEF TreeInv, Count
<1>8. /\ depth' = depth /\ dict' = dict /\ symbols' = symbols /\ i' = i /\ offs' = offs
      /\ base' = base /\ offset' = offset /\ code' = code /\ len' = len
      /\ pushed' = pushed /\ first' = first
  BY DEF FindDepth
<1>9. CASE Nodes = n
  <2>1. phase' = "encode" /\ lens' = [d \in 0..L - 1 |-> 0]
    BY <1>9 DEF FindDepth
  <2>2. TreeDone'
    BY <1>9, <1>3, <1>4, <1>5, <1>6 DEF TreeDone
  <2>3. EncodeInv'
    BY <2>1, <1>1, <1>3, <1>6, <1>8 DEF EncodeInv, FindPart
  <2>4. EncodePart'
    BY <2>2, <2>3, <1>1, <1>3, <1>6, <1>8 DEF EncodePart, FindPart, Undecoded
  <2>5. TypeOK'
    BY <2>1, <1>1, <1>3, <1>6, <1>8 DEF TypeOK
  <2> QED
    BY <2>1, <2>4, <2>5, <1>1, <1>7, <1>8 DEF IInv, DecodesOnlyCodes
<1>10. CASE Nodes # n
  <2>1. phase' = phase /\ lens' = lens
    BY <1>10 DEF FindDepth
  <2>2. FindPart'
    BY <2>1, <1>1, <1>8 DEF FindPart, Undecoded
  <2>3. TypeOK'
    BY <2>1, <1>1, <1>6, <1>8 DEF TypeOK
  <2> QED
    BY <2>1, <2>2, <2>3, <1>1, <1>7, <1>8 DEF IInv, DecodesOnlyCodes
<1> QED
  BY <1>9, <1>10

(* Depth 0 is the merged root alone.                                       *)
LEMMA RootIs ==
  ASSUME TreeInv, depths # <<>>
  PROVE  /\ MaxDepth \in Nat
         /\ \A d \in 0..MaxDepth : /\ depths[d + 1] \in SUBSET Symbol
                                  /\ Count(d) \in Nat /\ merged[d + 1] \in Nat
         /\ depths[1] = {} /\ Count(0) = 0 /\ merged[1] = 1
         /\ TreeDone => MaxDepth >= 1
<1>1. /\ depths \in Seq(SUBSET Symbol) /\ merged \in Seq(Nat) /\ Len(merged) = Len(depths)
      /\ Len(depths) \in Nat /\ MaxDepth = Len(depths) - 1
  BY DEF TreeInv, MaxDepth
<1>2. MaxDepth \in Nat
  BY <1>1
<1>3. depths[1] = {} /\ merged[1] = 1
  BY DEF TreeInv
<1>4. \A d \in 0..MaxDepth : depths[d + 1] \in SUBSET Symbol /\ merged[d + 1] \in Nat
  BY <1>1, <1>2
<1>5. \A d \in 0..MaxDepth : Count(d) \in Nat
  BY <1>4, SubsetCount DEF Count
<1>6. Count(0) = 0
  <2>1. Cardinality({}) = 0
    BY FS_EmptySet
  <2>2. depths[0 + 1] = {}
    BY <1>3
  <2> QED
    BY <2>1, <2>2 DEF Count
<1>7. TreeDone => MaxDepth >= 1
  BY <1>2, <1>3 DEF TreeDone
<1> QED
  BY <1>2, <1>3, <1>4, <1>5, <1>6, <1>7

LEMMA EncodeStep ==
  ASSUME IInv, EncodeDepth
  PROVE  IInv'
<1>0. PICK D, S, n, L : D = depth /\ S = depths[D + 1] /\ n = Cardinality(S) /\ L = Len(symbols)
  OBVIOUS
<1>1. /\ TypeOK /\ TreeInv /\ TreeDone /\ EncodeInv /\ Undecoded
      /\ phase = "encode" /\ len = -1 /\ pushed = NULL
      /\ D <= MaxDepth
      /\ code = IF D = 0 THEN 0 ELSE NextCode(D - 1)
  BY <1>0 DEF IInv, EncodePart, EncodeDepth
<1>2. D \in 0..MaxDepth /\ MaxDepth \in Nat /\ MaxDepth >= 1
  <2>1. MaxDepth \in Nat /\ MaxDepth >= 1
    BY <1>1, RootIs DEF TreeDone
  <2>2. D \in 0..MaxDepth + 1
    BY <1>0, <1>1 DEF EncodeInv
  <2> QED
    BY <2>1, <2>2, <1>1
<1>2a. /\ \A d \in 0..MaxDepth : Count(d) \in Nat
       /\ depths[1] = {} /\ Count(0) = 0
  BY <1>1, RootIs DEF TreeDone
<1>3. S \in SUBSET Symbol /\ n \in Nat /\ n = Count(D) /\ code \in Nat /\ L \in Nat
      /\ symbols \in Seq(Symbol)
  BY <1>0, <1>1, <1>2, RootIs DEF Count, TypeOK, TreeDone
<1>4. PICK syms \in [1..n -> S] :
        /\ Sorted(syms, S)
        /\ dict' = [s \in DOMAIN dict \cup S |->
                     IF s \in S THEN [length |-> D, code |-> code + IndexOf(syms, s) - 1]
                     ELSE dict[s]]
        /\ symbols' = symbols \o syms
  <2>1. PICK ss \in [1..Cardinality(depths[depth + 1]) -> depths[depth + 1]] :
          /\ Sorted(ss, depths[depth + 1])
          /\ dict' = [s \in DOMAIN dict \cup depths[depth + 1] |->
                       IF s \in depths[depth + 1]
                       THEN [length |-> depth, code |-> code + IndexOf(ss, s) - 1]
                       ELSE dict[s]]
          /\ symbols' = symbols \o ss
    BY Zenon DEF EncodeDepth
  <2>2. depth = D /\ depths[depth + 1] = S /\ Cardinality(depths[depth + 1]) = n
    BY <1>0
  <2>3. ss \in [1..n -> S] /\ Sorted(ss, S)
    BY <2>1, <2>2
  <2>4. dict' = [s \in DOMAIN dict \cup S |->
                  IF s \in S THEN [length |-> D, code |-> code + IndexOf(ss, s) - 1]
                  ELSE dict[s]]
    BY <2>1, <2>2
  <2>5. symbols' = symbols \o ss
    BY <2>1
  <2> QED
    BY <2>3, <2>4, <2>5, Zenon
<1>5. /\ \A x \in S : IndexOf(syms, x) \in 1..n /\ syms[IndexOf(syms, x)] = x
      /\ \A k \in 1..n : syms[k] \in S /\ IndexOf(syms, syms[k]) = k
  <2>1. Sorted(syms, S)
    BY <1>4
  <2>2. S \in SUBSET Symbol /\ n \in Nat /\ syms \in [1..n -> S]
    BY <1>3
  <2> QED
    BY ONLY <2>1, <2>2, SortedIs
<1>6. /\ lens' = IF S = {} THEN lens ELSE [lens EXCEPT ![D - 1] = n]
      /\ first' = With(first, D, [code |-> code, at |-> L])
      /\ depth' = D + 1
      /\ depths' = depths /\ merged' = merged /\ MaxDepth' = MaxDepth
      /\ i' = i /\ offs' = offs /\ base' = base /\ offset' = offset
      /\ len' = len /\ pushed' = pushed
  BY <1>0 DEF EncodeDepth, MaxDepth
<1>7. \A d : Count(d)' = Count(d)
  BY <1>6 DEF Count
<1>8. /\ DOMAIN first' = 0..D
      /\ first'[D] = [code |-> code, at |-> L]
      /\ \A d \in 0..D - 1 : first'[d] = first[d]
  <2>1. DOMAIN first = 0..D - 1
    BY <1>0, <1>1 DEF EncodeInv
  <2>2. 0..D - 1 \cup {D} = 0..D /\ \A d \in 0..D - 1 : d # D
    BY <1>2
  <2> QED
    BY <2>1, <2>2, <1>6 DEF With
<1>9. \A d \in 0..D : first'[d] \in [code : Nat, at : Nat]
  <2>1. \A d \in 0..D - 1 : first[d] \in [code : Nat, at : Nat]
    BY <1>0, <1>1 DEF EncodeInv
  <2>2. first'[D] \in [code : Nat, at : Nat]
    BY <1>3, <1>8
  <2> QED
    BY <2>1, <2>2, <1>2, <1>8
<1>10. first'[0] = [code |-> 0, at |-> 0]
  <2>1. CASE D = 0
    BY <1>0, <2>1, <1>1, <1>8 DEF EncodeInv
  <2>2. CASE D > 0
    BY <1>0, <2>2, <1>1, <1>2, <1>8 DEF EncodeInv
  <2> QED
    BY <2>1, <2>2, <1>2
<1>11. \A d \in 1..D : first'[d] = [code |-> NextCode(d - 1)', at |-> NextAt(d - 1)']
  <2> SUFFICES ASSUME NEW d \in 1..D
               PROVE  first'[d] = [code |-> NextCode(d - 1)', at |-> NextAt(d - 1)']
    OBVIOUS
  <2>1. first'[d - 1] = first[d - 1]
    BY <1>2, <1>8
  <2>2. NextCode(d - 1)' = NextCode(d - 1) /\ NextAt(d - 1)' = NextAt(d - 1)
    BY <2>1, <1>7 DEF NextCode, NextAt
  <2>3. CASE d = D
    BY <1>0, <2>2, <2>3, <1>1, <1>2, <1>8 DEF EncodeInv
  <2>4. CASE d < D
    BY <1>0, <2>2, <2>4, <1>1, <1>2, <1>8 DEF EncodeInv
  <2> QED
    BY <2>3, <2>4, <1>2
<1>12. /\ symbols' \in Seq(Symbol) /\ Len(symbols') = L + n
       /\ \A x \in 1..L : symbols'[x] = symbols[x]
       /\ \A k \in 1..n : symbols'[L + k] = syms[k]
  <2>1. syms \in Seq(Symbol) /\ Len(syms) = n
    <3>1. syms \in [1..n -> Symbol]
      BY <1>3
    <3> QED
      BY <1>3, <3>1, FcnIsSeq
  <2> QED
    BY <1>0, <2>1, <1>3, <1>4
<1>14. /\ DOMAIN dict' = DOMAIN dict \cup S
       /\ \A s \in S : dict'[s] = [length |-> D, code |-> code + IndexOf(syms, s) - 1]
       /\ \A s \in DOMAIN dict \ S : dict'[s] = dict[s]
  BY <1>4
<1>15. DOMAIN dict' = UNION {depths[d] : d \in 1..D + 1}
  <2>1. DOMAIN dict = UNION {depths[d] : d \in 1..D}
    BY <1>0, <1>1 DEF EncodeInv
  <2>2. 1..D + 1 = 1..D \cup {D + 1}
    BY <1>2
  <2> QED
    BY <1>0, <2>1, <2>2, <1>14
<1>16. \A d \in 0..D - 1 : /\ depths[d + 1] \subseteq DOMAIN dict
                           /\ depths[d + 1] \cap S = {}
  <2>1. DOMAIN depths = 1..MaxDepth + 1
    BY <1>1 DEF TreeInv, MaxDepth
  <2>2. \A d \in 0..D - 1 : d + 1 \in 1..D /\ d + 1 # D + 1
                           /\ d + 1 \in DOMAIN depths /\ D + 1 \in DOMAIN depths
    BY <1>2, <2>1
  <2>3. DOMAIN dict = UNION {depths[d] : d \in 1..D}
    BY <1>0, <1>1 DEF EncodeInv
  <2>4. \A d, e \in DOMAIN depths : d # e => depths[d] \cap depths[e] = {}
    BY <1>1 DEF TreeInv
  <2> QED
    BY <1>0, <2>2, <2>3, <2>4
<1>17. ASSUME NEW d \in 0..D, NEW s \in depths[d + 1]
       PROVE  \E k \in 1..Count(d) : dict'[s] = [length |-> d, code |-> first'[d].code + k - 1]
  <2>1. CASE d = D
    <3>1. dict'[s] = [length |-> D, code |-> first'[D].code + IndexOf(syms, s) - 1]
      BY <1>0, <2>1, <1>8, <1>14, <1>17
    <3>2. IndexOf(syms, s) \in 1..Count(d)
      BY <1>0, <2>1, <1>3, <1>5, <1>17
    <3> QED
      BY <2>1, <3>1, <3>2
  <2>2. CASE d < D
    <3>1. d \in 0..D - 1
      BY <2>2, <1>2
    <3>2. PICK k \in 1..Count(d) : dict[s] = [length |-> d, code |-> first[d].code + k - 1]
      BY <1>0, <3>1, <1>1, <1>17 DEF EncodeInv
    <3>3. dict'[s] = dict[s]
      BY <3>1, <1>14, <1>16, <1>17
    <3> QED
      BY <3>1, <3>2, <3>3, <1>8
  <2>3. d = D \/ d < D
    BY <1>2
  <2> QED
    BY <2>1, <2>2, <2>3
<1>18. ASSUME NEW d \in 0..D, NEW k \in 1..Count(d)
       PROVE  /\ first'[d].at + k \in 1..Len(symbols')
              /\ symbols'[first'[d].at + k] \in depths[d + 1]
              /\ dict'[symbols'[first'[d].at + k]]
                   = [length |-> d, code |-> first'[d].code + k - 1]
  <2>1. CASE d = D
    <3>1. first'[d].at = L /\ first'[d].code = code /\ k \in 1..n
      BY <2>1, <1>3, <1>8, <1>18
    <3>2. L + k \in 1..L + n /\ symbols'[L + k] = syms[k] /\ syms[k] \in S
      BY <3>1, <1>3, <1>5, <1>12
    <3>3. dict'[syms[k]] = [length |-> D, code |-> code + k - 1]
      BY <3>1, <3>2, <1>5, <1>14
    <3> QED
      BY <1>0, <2>1, <3>1, <3>2, <3>3, <1>12
  <2>2. CASE d < D
    <3>1. d \in 0..D - 1
      BY <2>2, <1>2
    <3>2. /\ first[d].at + k \in 1..L
          /\ symbols[first[d].at + k] \in depths[d + 1]
          /\ dict[symbols[first[d].at + k]] = [length |-> d, code |-> first[d].code + k - 1]
      BY <1>0, <3>1, <1>1, <1>18 DEF EncodeInv
    <3>3. symbols'[first[d].at + k] = symbols[first[d].at + k] /\ first[d].at + k \in 1..L + n
      BY <3>2, <1>3, <1>12
    <3>4. dict'[symbols[first[d].at + k]] = dict[symbols[first[d].at + k]]
      BY <3>1, <3>2, <1>14, <1>16
    <3>5. first'[d] = first[d]
      BY <3>1, <1>8
    <3> QED
      BY <3>2, <3>3, <3>4, <3>5, <1>12
  <2> QED
    BY <2>1, <2>2, <1>2
<1>19. /\ DOMAIN lens' = 0..MaxDepth - 1
       /\ \A d \in 0..MaxDepth - 1 : lens'[d] = IF d + 1 < D + 1 THEN Count(d + 1) ELSE 0
  <2>1. /\ DOMAIN lens = 0..MaxDepth - 1
        /\ \A d \in 0..MaxDepth - 1 : lens[d] = IF d + 1 < D THEN Count(d + 1) ELSE 0
    BY <1>0, <1>1 DEF EncodeInv
  <2>2. S = {} => n = 0
    BY <1>0, FS_EmptySet
  <2>3. D = 0 => S = {}
    BY <1>0, <1>2a
  <2>4. CASE S = {}
    <3>1. lens' = lens
      BY <2>4, <1>6
    <3> QED
      BY <3>1, <2>1, <2>2, <2>4, <1>2, <1>3
  <2>5. CASE S # {}
    <3>1. lens' = [lens EXCEPT ![D - 1] = n] /\ D > 0
      BY <2>3, <2>5, <1>2, <1>6
    <3> QED
      BY <3>1, <2>1, <1>2, <1>3
  <2> QED
    BY <2>4, <2>5
<1>20. EncodeInv'
  <2>1. /\ depth' = D + 1 /\ depth' - 1 = D /\ depth' > 0 /\ depth' # 0
        /\ depth' \in 0..MaxDepth' + 1
    BY <1>2, <1>6
  <2>2. DOMAIN first' = 0..depth' - 1
    BY <2>1, <1>8
  <2>3. \A d \in 0..depth' - 1 : first'[d] \in [code : Nat, at : Nat]
    BY <2>1, <1>9
  <2>4. \A d \in 1..depth' - 1 : first'[d] = [code |-> NextCode(d - 1)', at |-> NextAt(d - 1)']
    BY <2>1, <1>11
  <2>5. Len(symbols') = IF depth' = 0 THEN 0 ELSE NextAt(depth - 1)'
    BY <2>1, <1>0, <1>6, <1>8, <1>12 DEF NextAt, Count
  <2>6. DOMAIN dict' = UNION {depths'[d] : d \in 1..depth'}
    BY <2>1, <1>6, <1>15
  <2>7. \A d \in 0..depth' - 1 : \A s \in depths'[d + 1] :
          \E k \in 1..Count(d)' : dict'[s] = [length |-> d, code |-> first'[d].code + k - 1]
    BY <2>1, <1>6, <1>7, <1>17
  <2>8. \A d \in 0..depth' - 1 : \A k \in 1..Count(d)' :
          /\ first'[d].at + k \in 1..Len(symbols')
          /\ symbols'[first'[d].at + k] \in depths'[d + 1]
          /\ dict'[symbols'[first'[d].at + k]] = [length |-> d, code |-> first'[d].code + k - 1]
    BY <2>1, <1>6, <1>7, <1>18
  <2>9. /\ DOMAIN lens' = 0..MaxDepth' - 1
        /\ \A d \in 0..MaxDepth' - 1 : lens'[d] = IF d + 1 < depth' THEN Count(d + 1)' ELSE 0
    BY <2>1, <1>6, <1>7, <1>19
  <2> QED
    BY <2>1, <2>2, <2>3, <2>4, <2>5, <2>6, <2>7, <2>8, <2>9, <1>10, <1>12 DEF EncodeInv
<1>21. TypeOK'
  <2>1. \A s \in DOMAIN dict' : s \in Symbol /\ dict'[s] \in Code
    <3>1. ASSUME NEW s \in S PROVE s \in Symbol /\ dict'[s] \in Code
      <4>1. IndexOf(syms, s) \in 1..n
        BY <1>5
      <4> QED
        BY <4>1, <1>2, <1>3, <1>14 DEF Code
    <3>2. \A s \in DOMAIN dict : s \in Symbol /\ dict[s] \in Code
      BY <1>1 DEF TypeOK
    <3> QED
      BY <3>1, <3>2, <1>14
  <2>2. /\ phase' \in {"encode", "init"}
        /\ code' \in Nat
    BY <1>0, <1>1, <1>3 DEF EncodeDepth
  <2>3. \A d \in DOMAIN lens' : d \in Nat /\ lens'[d] \in Nat
    BY <1>2, <1>2a, <1>19
  <2> QED
    BY <2>1, <2>2, <2>3, <1>1, <1>2, <1>6, <1>12 DEF TypeOK
<1>22. TreeInv' /\ TreeDone'
  BY <1>1, <1>6, <1>7 DEF TreeInv, TreeDone
<1>23. CASE D = MaxDepth
  <2>1. phase' = "init" /\ code' = 0
    BY <1>0, <1>23 DEF EncodeDepth
  <2>2. first'[1] = [code |-> 0, at |-> 0]
    <3>1. NextCode(0)' = 0 /\ NextAt(0)' = 0
      BY <1>2a, <1>7, <1>10 DEF NextCode, NextAt
    <3>2. 1 \in 1..D /\ 1 - 1 = 0
      BY <1>2, <1>23
    <3> QED
      BY <3>1, <3>2, <1>11
  <2>3. InitInv'
    BY <1>1, <1>2, <1>6 DEF InitInv, Undecoded
  <2>4. InitPart'
    BY <2>1, <2>2, <2>3, <1>1, <1>2, <1>6, <1>20, <1>22, <1>23 DEF InitPart, Undecoded
  <2> QED
    BY <2>1, <2>4, <1>1, <1>6, <1>21, <1>22 DEF IInv, DecodesOnlyCodes
<1>24. CASE D # MaxDepth
  <2>1. phase' = "encode" /\ code' = 2 * (code + n)
    BY <1>0, <1>1, <1>24 DEF EncodeDepth
  <2>2. code' = NextCode(D)'
    BY <2>1, <1>3, <1>7, <1>8 DEF NextCode
  <2>3. depth' # 0 /\ depth' - 1 = D /\ depth' <= MaxDepth'
    BY <1>2, <1>6, <1>24
  <2>4. EncodePart'
    BY <2>2, <2>3, <1>1, <1>6, <1>20, <1>22 DEF EncodePart, Undecoded
  <2> QED
    BY <2>1, <2>4, <1>1, <1>6, <1>21, <1>22 DEF IInv, DecodesOnlyCodes
<1> QED
  BY <1>23, <1>24

(* encoder has finished: what its tables say of every depth.               *)
LEMMA Tables ==
  ASSUME TreeInv, TreeDone, EncodeInv, depth = MaxDepth + 1
  PROVE  /\ MaxDepth \in Nat /\ MaxDepth >= 1
         /\ DOMAIN first = 0..MaxDepth
         /\ \A d \in 0..MaxDepth : /\ first[d].code \in Nat /\ first[d].at \in Nat
                                  /\ Count(d) \in Nat /\ merged[d + 1] \in Nat
         /\ first[0].code = 0 /\ first[0].at = 0 /\ Count(0) = 0 /\ merged[1] = 1
         /\ \A d \in 0..MaxDepth - 1 :
              /\ first[d + 1].code = NextCode(d) /\ first[d + 1].at = NextAt(d)
              /\ Count(d + 1) + merged[d + 2] = 2 * merged[d + 1]
              /\ lens[d] = Count(d + 1)
         /\ merged[MaxDepth + 1] = 0
<1>0. depths # <<>> /\ merged[MaxDepth + 1] = 0
  BY DEF TreeDone
<1>1. MaxDepth \in Nat /\ MaxDepth >= 1
  BY <1>0, RootIs
<1>2. \A d \in 0..MaxDepth : Count(d) \in Nat /\ merged[d + 1] \in Nat
  BY <1>0, RootIs
<1>3. Count(0) = 0 /\ merged[1] = 1
  BY <1>0, RootIs
<1>4. depth - 1 = MaxDepth /\ depth > 0
  BY <1>1
<1>5. DOMAIN first = 0..MaxDepth /\ first[0] = [code |-> 0, at |-> 0]
  BY <1>4 DEF EncodeInv
<1>6. \A d \in 0..MaxDepth : first[d] \in [code : Nat, at : Nat]
  BY <1>4 DEF EncodeInv
<1>7. ASSUME NEW d \in 0..MaxDepth - 1
      PROVE  /\ first[d + 1].code = NextCode(d) /\ first[d + 1].at = NextAt(d)
             /\ Count(d + 1) + merged[d + 2] = 2 * merged[d + 1]
             /\ lens[d] = Count(d + 1)
  <2>1. d + 1 \in 1..MaxDepth /\ (d + 1) - 1 = d /\ (d + 1) + 1 = d + 2 /\ d + 1 < depth
    BY <1>1, <1>4
  <2>2. first[d + 1] = [code |-> NextCode(d), at |-> NextAt(d)]
    BY <2>1, <1>4 DEF EncodeInv
  <2>3. Count(d + 1) + merged[d + 2] = 2 * merged[d + 1]
    BY <2>1 DEF TreeInv
  <2>4. lens[d] = Count(d + 1)
    BY <2>1 DEF EncodeInv
  <2> QED
    BY <2>2, <2>3, <2>4
<1>8. \A d \in 0..MaxDepth : first[d].code \in Nat /\ first[d].at \in Nat
  BY <1>6
<1>9. first[0].code = 0 /\ first[0].at = 0
  BY <1>5
<1> QED
  BY <1>0, <1>1, <1>2, <1>3, <1>5, <1>7, <1>8, <1>9

(* The decoder's loops leave the tree and the encoder's tables alone.      *)
LEMMA EncoderKept ==
  ASSUME UNCHANGED <<depths, merged, depth, dict, lens, symbols, first>>
  PROVE  /\ TreeInv => TreeInv'
         /\ TreeDone => TreeDone'
         /\ EncodeInv => EncodeInv'
         /\ MaxDepth' = MaxDepth
         /\ \A d : /\ Count(d)' = Count(d)
                  /\ NextCode(d)' = NextCode(d)
                  /\ NextAt(d)' = NextAt(d)
<1>1. MaxDepth' = MaxDepth
  BY DEF MaxDepth
<1>2. \A d : Count(d)' = Count(d)
  BY DEF Count
<1>3. \A d : NextCode(d)' = NextCode(d) /\ NextAt(d)' = NextAt(d)
  BY <1>2 DEF NextCode, NextAt
<1>4. TreeInv => TreeInv'
  BY <1>1, <1>2 DEF TreeInv
<1>5. TreeDone => TreeDone'
  BY <1>1 DEF TreeDone
<1>6. ASSUME EncodeInv PROVE EncodeInv'
  <2>1. /\ depth' \in 0..MaxDepth' + 1
        /\ DOMAIN first' = 0..depth' - 1
        /\ \A d \in 0..depth' - 1 : first'[d] \in [code : Nat, at : Nat]
        /\ depth' > 0 => first'[0] = [code |-> 0, at |-> 0]
        /\ symbols' \in Seq(Symbol)
    BY <1>1, <1>6 DEF EncodeInv
  <2>2. \A d \in 1..depth' - 1 :
          first'[d] = [code |-> NextCode(d - 1)', at |-> NextAt(d - 1)']
    BY <1>3, <1>6 DEF EncodeInv
  <2>3. Len(symbols') = IF depth' = 0 THEN 0 ELSE NextAt(depth - 1)'
    <3>1. NextAt(depth - 1)' = NextAt(depth - 1)
      BY <1>2 DEF NextAt, Count
    <3> QED
      BY <3>1, <1>6 DEF EncodeInv
  <2>4. DOMAIN dict' = UNION {depths'[d] : d \in 1..depth'}
    BY <1>6 DEF EncodeInv
  <2>5. \A d \in 0..depth' - 1 : \A s \in depths'[d + 1] :
          \E k \in 1..Count(d)' : dict'[s] = [length |-> d, code |-> first'[d].code + k - 1]
    BY <1>2, <1>6 DEF EncodeInv
  <2>6. \A d \in 0..depth' - 1 : \A k \in 1..Count(d)' :
          /\ first'[d].at + k \in 1..Len(symbols')
          /\ symbols'[first'[d].at + k] \in depths'[d + 1]
          /\ dict'[symbols'[first'[d].at + k]] = [length |-> d, code |-> first'[d].code + k - 1]
    BY <1>2, <1>6 DEF EncodeInv
  <2>7. /\ DOMAIN lens' = 0..MaxDepth' - 1
        /\ \A d \in 0..MaxDepth' - 1 : lens'[d] = IF d + 1 < depth' THEN Count(d + 1)' ELSE 0
    BY <1>1, <1>2, <1>6 DEF EncodeInv
  <2> QED
    BY <2>1, <2>2, <2>3, <2>4, <2>5, <2>6, <2>7 DEF EncodeInv
<1> QED
  BY <1>1, <1>2, <1>3, <1>4, <1>5, <1>6

LEMMA InitLengthStep ==
  ASSUME IInv, InitLength
  PROVE  IInv'
<1>1. /\ TypeOK /\ TreeInv /\ TreeDone /\ EncodeInv /\ depth = MaxDepth + 1 /\ InitInv
      /\ DOMAIN base = 0..i - 1 /\ phase = "init" /\ len = -1 /\ pushed = NULL
      /\ code = IF i < MaxDepth THEN first[i + 1].code ELSE NextCode(MaxDepth)
      /\ offs = IF i < MaxDepth THEN first[i + 1].at ELSE NextAt(MaxDepth)
  BY DEF IInv, InitPart, InitLength
<1>2. /\ UNCHANGED <<depths, merged, depth, dict, lens, symbols, first>>
      /\ i' = i + 1 /\ phase' = phase /\ len' = len /\ pushed' = pushed
      /\ base' = With(base, i, code) /\ offset' = With(offset, i, offs)
      /\ code' = 2 * (code + lens[i]) /\ offs' = offs + lens[i]
      /\ i < MaxDepth
  BY DEF InitLength
<1>3. /\ TreeInv' /\ TreeDone' /\ EncodeInv' /\ MaxDepth' = MaxDepth
      /\ \A d : /\ NextCode(d)' = NextCode(d)
               /\ NextAt(d)' = NextAt(d)
  BY <1>1, <1>2, EncoderKept
<1>4. PICK I : I = i
  OBVIOUS
<1>5. I \in 0..MaxDepth - 1 /\ MaxDepth \in Nat /\ MaxDepth >= 1
  BY <1>1, <1>2, <1>4, Tables DEF InitInv
<1>6. code = first[I + 1].code /\ offs = first[I + 1].at /\ lens[I] = Count(I + 1)
  BY <1>1, <1>2, <1>4, <1>5, Tables
<1>7. /\ code \in Nat /\ offs \in Nat /\ lens[I] \in Nat
      /\ code' \in Nat /\ offs' \in Nat
  <2>1. code \in Nat /\ offs \in Nat
    BY <1>1 DEF TypeOK
  <2>2. Count(I + 1) \in Nat
    BY <1>1, <1>5, Tables
  <2> QED
    BY <2>1, <2>2, <1>2, <1>4, <1>6
<1>8. /\ DOMAIN base' = 0..I /\ DOMAIN offset' = 0..I
      /\ base'[I] = first[I + 1].code /\ offset'[I] = first[I + 1].at
      /\ \A x \in 0..I - 1 : base'[x] = base[x] /\ offset'[x] = offset[x]
  <2>1. DOMAIN base = 0..I - 1 /\ DOMAIN offset = 0..I - 1
    BY <1>1, <1>4 DEF InitInv
  <2>2. 0..I - 1 \cup {I} = 0..I
    BY <1>5
  <2> QED
    BY <2>1, <2>2, <1>2, <1>4, <1>5, <1>6 DEF With
<1>9. \A x \in 0..I : base'[x] = first[x + 1].code /\ offset'[x] = first[x + 1].at
  <2>1. \A x \in 0..I - 1 : base[x] = first[x + 1].code /\ offset[x] = first[x + 1].at
    BY <1>1, <1>4 DEF InitInv
  <2> QED
    BY <2>1, <1>5, <1>8
<1>10. InitInv'
  <2>1. i' = I + 1 /\ i' - 1 = I
    BY <1>2, <1>4, <1>5
  <2> QED
    BY <2>1, <1>2, <1>3, <1>5, <1>8, <1>9 DEF InitInv
<1>11. /\ code' = NextCode(I + 1) /\ offs' = NextAt(I + 1)
  BY <1>2, <1>4, <1>6 DEF NextCode, NextAt
<1>12. /\ code' = (IF i < MaxDepth THEN first[i + 1].code ELSE NextCode(MaxDepth))'
       /\ offs' = (IF i < MaxDepth THEN first[i + 1].at ELSE NextAt(MaxDepth))'
  <2>1. i' = I + 1 /\ first' = first
    BY <1>2, <1>4
  <2>2. CASE I + 1 = MaxDepth
    BY <2>1, <2>2, <1>3, <1>5, <1>11
  <2>3. CASE I + 1 < MaxDepth
    <3>1. I + 1 \in 0..MaxDepth - 1
      BY <2>3, <1>5
    <3>2. first[(I + 1) + 1].code = NextCode(I + 1) /\ first[(I + 1) + 1].at = NextAt(I + 1)
      BY <3>1, <1>1, Tables
    <3> QED
      BY <2>1, <2>3, <3>2, <1>3, <1>11
  <2> QED
    BY <2>2, <2>3, <1>5
<1>13. InitPart'
  <2>1. DOMAIN base' = 0..i' - 1
    BY <1>2, <1>4, <1>5, <1>8
  <2> QED
    BY <2>1, <1>1, <1>2, <1>3, <1>10, <1>12 DEF InitPart
<1>14. TypeOK'
  <2>1. \A x \in 0..I : base'[x] \in Nat /\ offset'[x] \in Nat /\ x \in Nat
    <3>1. \A x \in 0..I : first[x + 1].code \in Nat /\ first[x + 1].at \in Nat
      BY <1>1, <1>5, Tables
    <3> QED
      BY <3>1, <1>9, <1>5
  <2>2. /\ DOMAIN base' \subseteq Nat /\ \A x \in DOMAIN base' : base'[x] \in Nat
        /\ DOMAIN offset' \subseteq Nat /\ \A x \in DOMAIN offset' : offset'[x] \in Nat
    BY <2>1, <1>8
  <2>3. i' \in Nat /\ offs' \in Nat /\ code' \in Nat
    BY <1>2, <1>4, <1>5, <1>7
  <2> QED
    BY <2>2, <2>3, <1>1, <1>2 DEF TypeOK
<1> QED
  BY <1>1, <1>2, <1>3, <1>13, <1>14 DEF IInv, DecodesOnlyCodes

LEMMA InitLastStep ==
  ASSUME IInv, InitLast
  PROVE  IInv'
<1>1. /\ TypeOK /\ TreeInv /\ TreeDone /\ EncodeInv /\ depth = MaxDepth + 1 /\ InitInv
      /\ DOMAIN base = 0..i - 1 /\ len = -1 /\ pushed = NULL
      /\ code = IF i < MaxDepth THEN first[i + 1].code ELSE NextCode(MaxDepth)
  BY DEF IInv, InitPart, InitLast
<1>2. /\ UNCHANGED <<depths, merged, depth, dict, lens, symbols, first>>
      /\ i' = i /\ phase' = "decode" /\ len' = len /\ pushed' = pushed
      /\ base' = With(base, i, code) /\ offset' = offset /\ offs' = offs
      /\ code' = 0 /\ i = MaxDepth
  BY DEF InitLast
<1>3. /\ TreeInv' /\ TreeDone' /\ EncodeInv' /\ MaxDepth' = MaxDepth
      /\ \A d : /\ Count(d)' = Count(d)
               /\ NextCode(d)' = NextCode(d)
  BY <1>1, <1>2, EncoderKept
<1>4. MaxDepth \in Nat /\ MaxDepth >= 1 /\ code = NextCode(MaxDepth) /\ code \in Nat
  BY <1>1, <1>2, Tables DEF TypeOK
<1>5. /\ DOMAIN base' = 0..MaxDepth
      /\ base'[MaxDepth] = code
      /\ \A x \in 0..MaxDepth - 1 : base'[x] = base[x]
  <2>1. DOMAIN base = 0..MaxDepth - 1
    BY <1>1, <1>2
  <2>2. 0..MaxDepth - 1 \cup {MaxDepth} = 0..MaxDepth
    BY <1>4
  <2> QED
    BY <2>1, <2>2, <1>2, <1>4 DEF With
<1>6. InitInv'
  <2>1. /\ DOMAIN offset = 0..MaxDepth - 1
        /\ \A x \in 0..MaxDepth - 1 : base[x] = first[x + 1].code /\ offset[x] = first[x + 1].at
    BY <1>1, <1>2 DEF InitInv
  <2> QED
    BY <2>1, <1>2, <1>3, <1>4, <1>5 DEF InitInv
<1>7. DecodeInv'
  <2>1. first[0].code = 0 /\ Count(0) = 0 /\ merged[1] = 1
    BY <1>1, Tables
  <2>2. len' + 1 = 0 /\ code' = 0 /\ first' = first /\ merged' = merged
    BY <1>1, <1>2
  <2>3. 0 \in 0..MaxDepth' - 1
    BY <1>3, <1>4
  <2>4. Count(len + 1)' = 0
    <3>1. Count(0)' = 0
      BY <2>1, <1>3
    <3> QED
      BY <3>1, <2>2 DEF Count
  <2>5. /\ first'[len' + 1].code + Count(len + 1)' <= code'
        /\ code' < first'[len' + 1].code + Count(len + 1)' + merged'[(len' + 1) + 1]
    BY <2>1, <2>2, <2>4
  <2> QED
    BY <2>2, <2>3, <2>5 DEF DecodeInv
<1>8. DecodePart'
  BY <1>1, <1>2, <1>3, <1>4, <1>5, <1>6, <1>7 DEF DecodePart
<1>9. TypeOK'
  <2>1. \A x \in 0..MaxDepth : base'[x] \in Nat
    <3>1. \A x \in 0..MaxDepth - 1 : base[x] \in Nat
      BY <1>1, <1>2 DEF TypeOK
    <3> QED
      BY <3>1, <1>4, <1>5
  <2> QED
    BY <2>1, <1>1, <1>2, <1>4, <1>5 DEF TypeOK
<1> QED
  BY <1>1, <1>2, <1>3, <1>8, <1>9 DEF IInv, DecodesOnlyCodes

(* Where the next bit puts the decoder: depth d = len + 1 of the tree has  *)
(* a merged node, so depth d + 1 exists, and the code stays among its      *)
(* nodes.                                                                  *)
LEMMA NextBit ==
  ASSUME TypeOK, TreeInv, DecodePart, NEW bit \in {0, 1}, NEW c, NEW l,
         c = 2 * code + bit, l = len + 1
  PROVE  /\ l \in 0..MaxDepth - 1 /\ l + 1 \in 0..MaxDepth
         /\ c \in Nat
         /\ first[l + 1].code \in Nat /\ first[l + 1].at \in Nat /\ Count(l + 1) \in Nat
         /\ base[l] = first[l + 1].code /\ offset[l] = first[l + 1].at
         /\ first[l + 1].code <= c
         /\ c < first[l + 1].code + Count(l + 1) + merged[l + 2]
         /\ Complete(c, l) <=> c < first[l + 1].code + Count(l + 1)
<1>1. /\ TreeDone /\ EncodeInv /\ depth = MaxDepth + 1 /\ InitInv /\ i = MaxDepth
      /\ base[MaxDepth] = NextCode(MaxDepth) /\ DecodeInv
  BY DEF DecodePart
<1>2. code \in Nat /\ MaxDepth \in Nat /\ MaxDepth >= 1
  BY <1>1, Tables DEF TypeOK
<1>3. l \in 0..MaxDepth - 1 /\ l + 1 \in 0..MaxDepth
  BY <1>1, <1>2 DEF DecodeInv
<1>4. c \in Nat
  BY <1>2
<1>5. /\ first[l].code \in Nat /\ Count(l) \in Nat /\ merged[l + 1] \in Nat
      /\ first[l + 1].code \in Nat /\ first[l + 1].at \in Nat /\ Count(l + 1) \in Nat
      /\ merged[l + 2] \in Nat
      /\ first[l + 1].code = NextCode(l)
      /\ Count(l + 1) + merged[l + 2] = 2 * merged[l + 1]
  <2>1. (l + 1) + 1 = l + 2
    BY <1>3
  <2> QED
    <3>1. l \in 0..MaxDepth /\ l + 1 \in 0..MaxDepth /\ l \in 0..MaxDepth - 1
      BY <1>2, <1>3
    <3>2. \A d \in 0..MaxDepth : /\ first[d].code \in Nat /\ first[d].at \in Nat
                                /\ Count(d) \in Nat /\ merged[d + 1] \in Nat
      BY <1>1, Tables
    <3>3. /\ first[l + 1].code = NextCode(l)
          /\ Count(l + 1) + merged[l + 2] = 2 * merged[l + 1]
      BY <3>1, <1>1, Tables
    <3> QED
      BY <3>1, <3>2, <3>3, <2>1
<1>6. first[l].code + Count(l) <= code /\ code < first[l].code + Count(l) + merged[l + 1]
  BY <1>1 DEF DecodeInv
<1>7. first[l + 1].code = 2 * (first[l].code + Count(l))
  BY <1>5 DEF NextCode
<1>8. /\ first[l + 1].code <= c
      /\ c < first[l + 1].code + Count(l + 1) + merged[l + 2]
  BY <1>2, <1>4, <1>5, <1>6, <1>7
<1>9. base[l] = first[l + 1].code /\ offset[l] = first[l + 1].at
  BY <1>1, <1>3 DEF InitInv
<1>10. base[l + 1] = 2 * (first[l + 1].code + Count(l + 1))
  <2>1. CASE l + 1 = MaxDepth
    BY <2>1, <1>1 DEF NextCode
  <2>2. CASE l + 1 < MaxDepth
    <3>1. l + 1 \in 0..i - 1 /\ l + 1 \in 0..MaxDepth - 1
      BY <2>2, <1>1, <1>2, <1>3
    <3>2. base[l + 1] = first[(l + 1) + 1].code
      BY <3>1, <1>1 DEF InitInv
    <3>3. first[(l + 1) + 1].code = NextCode(l + 1)
      BY <3>1, <1>1, Tables
    <3> QED
      BY <3>2, <3>3 DEF NextCode
  <2> QED
    BY <2>1, <2>2, <1>2, <1>3
<1>11. Complete(c, l) <=> c < first[l + 1].code + Count(l + 1)
  BY <1>4, <1>5, <1>10 DEF Complete
<1> QED
  BY <1>3, <1>4, <1>5, <1>8, <1>9, <1>11

LEMMA CheckBitStep ==
  ASSUME IInv, NEW bit \in {0, 1}, CheckBit(bit)
  PROVE  IInv'
<1>1. TypeOK /\ TreeInv /\ DecodePart /\ phase = "decode" /\ EncodeInv /\ TreeDone
      /\ depth = MaxDepth + 1 /\ InitInv /\ i = MaxDepth
      /\ DOMAIN base = 0..MaxDepth /\ base[MaxDepth] = NextCode(MaxDepth)
  BY DEF IInv, CheckBit, DecodePart
<1>2. PICK c, l : c = 2 * code + bit /\ l = len + 1
  OBVIOUS
<1>3. /\ l \in 0..MaxDepth - 1 /\ l + 1 \in 0..MaxDepth
      /\ c \in Nat
      /\ first[l + 1].code \in Nat /\ first[l + 1].at \in Nat /\ Count(l + 1) \in Nat
      /\ base[l] = first[l + 1].code /\ offset[l] = first[l + 1].at
      /\ first[l + 1].code <= c
      /\ c < first[l + 1].code + Count(l + 1) + merged[l + 2]
      /\ Complete(c, l) <=> c < first[l + 1].code + Count(l + 1)
  BY <1>1, <1>2, NextBit
<1>4. /\ UNCHANGED <<depths, merged, depth, dict, lens, symbols, first>>
      /\ UNCHANGED <<phase, i, offs, base, offset>>
  BY DEF CheckBit
<1>5. /\ TreeInv' /\ TreeDone' /\ EncodeInv' /\ MaxDepth' = MaxDepth
      /\ \A d : Count(d)' = Count(d) /\ NextCode(d)' = NextCode(d)
  BY <1>1, <1>4, EncoderKept
<1>6. MaxDepth \in Nat /\ MaxDepth >= 1 /\ merged[MaxDepth + 1] = 0
      /\ first[0].code = 0 /\ Count(0) = 0 /\ merged[1] = 1
  BY <1>1, Tables
<1>7. InitInv'
  BY <1>1, <1>4, <1>5 DEF InitInv
<1>8. CASE Complete(c, l)
  <2>1. /\ pushed' = [symbol |-> symbols[SymbolIndex(c, l) + 1], length |-> l + 1, code |-> c]
        /\ code' = 0 /\ len' = -1
    BY <1>2, <1>8 DEF CheckBit
  <2>2. PICK k : k = c - first[l + 1].code + 1
    OBVIOUS
  <2>3. /\ k \in 1..Count(l + 1)
        /\ SymbolIndex(c, l) + 1 = first[l + 1].at + k
        /\ first[l + 1].code + k - 1 = c
    BY <2>2, <1>3, <1>8 DEF SymbolIndex
  <2>4. PICK s : s = symbols[first[l + 1].at + k]
    OBVIOUS
  <2>5. /\ s \in depths[(l + 1) + 1]
        /\ dict[s] = [length |-> l + 1, code |-> first[l + 1].code + k - 1]
        /\ first[l + 1].at + k \in 1..Len(symbols)
    <3>1. l + 1 \in 0..depth - 1
      BY <1>1, <1>3, <1>6
    <3> QED
      BY <3>1, <2>3, <2>4, <1>1 DEF EncodeInv
  <2>6. s \in DOMAIN dict /\ s \in Symbol
    <3>1. DOMAIN dict = UNION {depths[d] : d \in 1..depth} /\ symbols \in Seq(Symbol)
      BY <1>1 DEF EncodeInv
    <3>2. (l + 1) + 1 \in 1..depth
      BY <1>1, <1>3, <1>6
    <3> QED
      BY <3>1, <3>2, <2>4, <2>5
  <2>7. /\ pushed' = [symbol |-> s, length |-> l + 1, code |-> c]
        /\ dict[s] = [length |-> l + 1, code |-> c]
    BY <2>1, <2>3, <2>4, <2>5
  <2>8. DecodesOnlyCodes'
    BY <2>6, <2>7, <1>4 DEF DecodesOnlyCodes
  <2>9. TypeOK'
    <3>1. pushed' \in [symbol : Symbol, length : Nat, code : Nat]
      BY <2>6, <2>7, <1>3
    <3> QED
      BY <3>1, <2>1, <1>1, <1>4 DEF TypeOK
  <2>10. DecodeInv'
    <3>1. len' + 1 = 0 /\ 0 \in 0..MaxDepth' - 1
      BY <2>1, <1>5, <1>6
    <3>2. Count(len + 1)' = 0
      <4>1. Count(0)' = 0
        BY <1>5, <1>6
      <4> QED
        BY <4>1, <3>1 DEF Count
    <3>3. /\ first'[len' + 1].code + Count(len + 1)' <= code'
          /\ code' < first'[len' + 1].code + Count(len + 1)' + merged'[(len' + 1) + 1]
      BY <3>1, <3>2, <2>1, <1>4, <1>6
    <3> QED
      BY <3>1, <3>3 DEF DecodeInv
  <2>11. DecodePart'
    BY <2>10, <1>1, <1>4, <1>5, <1>7 DEF DecodePart
  <2> QED
    BY <2>8, <2>9, <2>11, <1>1, <1>4, <1>5 DEF IInv
<1>9. CASE ~ Complete(c, l)
  <2>1. pushed' = NULL /\ code' = c /\ len' = l
    BY <1>2, <1>9 DEF CheckBit
  <2>2. /\ first[l + 1].code + Count(l + 1) <= c
        /\ c < first[l + 1].code + Count(l + 1) + merged[l + 2]
    BY <1>3, <1>9
  <2>3. l + 1 \in 0..MaxDepth - 1
    <3>1. CASE l + 1 = MaxDepth
      <4>1. merged[l + 2] = 0
        BY <3>1, <1>3, <1>6
      <4> QED
        BY <4>1, <2>2, <1>3
    <3>2. CASE l + 1 # MaxDepth
      BY <3>2, <1>3, <1>6
    <3> QED
      BY <3>1, <3>2
  <2>4. DecodeInv'
    <3>1. len' + 1 = l + 1 /\ (l + 1) + 1 = l + 2
      BY <2>1, <1>3
    <3>2. Count(len + 1)' = Count(l + 1)
      <4>1. Count(l + 1)' = Count(l + 1)
        BY <1>5
      <4> QED
        BY <4>1, <3>1 DEF Count
    <3>3. /\ first'[len' + 1].code + Count(len + 1)' <= code'
          /\ code' < first'[len' + 1].code + Count(len + 1)' + merged'[(len' + 1) + 1]
      BY <3>1, <3>2, <2>1, <2>2, <1>4
    <3>4. len' + 1 \in 0..MaxDepth' - 1
      BY <3>1, <2>3, <1>5
    <3> QED
      BY <3>3, <3>4 DEF DecodeInv
  <2>5. DecodePart'
    BY <2>4, <1>1, <1>4, <1>5, <1>7 DEF DecodePart
  <2>6. TypeOK'
    <3>1. code' \in Nat /\ len' \in Nat \cup {-1} /\ pushed' = NULL
      BY <2>1, <1>3
    <3>2. TypeOK
      BY <1>1
    <3> QED
      BY <3>1, <3>2, <1>4 DEF TypeOK
  <2> QED
    BY <2>1, <2>5, <2>6, <1>1, <1>4, <1>5 DEF IInv, DecodesOnlyCodes
<1> QED
  BY <1>8, <1>9

LEMMA NextIInv == IInv /\ [Next]_vars => IInv'
<1> SUFFICES ASSUME IInv, [Next]_vars PROVE IInv'
  OBVIOUS
<1>1. ASSUME NEW S \in SUBSET Unplaced, FindDepth(S) PROVE IInv'
  BY <1>1, FindStep
<1>2. CASE EncodeDepth
  BY <1>2, EncodeStep
<1>3. CASE InitLength
  BY <1>3, InitLengthStep
<1>4. CASE InitLast
  BY <1>4, InitLastStep
<1>5. ASSUME NEW bit \in {0, 1}, CheckBit(bit) PROVE IInv'
  BY <1>5, CheckBitStep
<1>6. CASE UNCHANGED vars
  <2>1. /\ UNCHANGED <<depths, merged, depth, dict, lens, symbols, first>>
        /\ UNCHANGED <<phase, i, offs, base, offset, code, len, pushed>>
    BY <1>6 DEF vars
  <2>2. /\ TreeInv => TreeInv'
        /\ TreeDone => TreeDone'
        /\ EncodeInv => EncodeInv'
        /\ MaxDepth' = MaxDepth
        /\ \A d : Count(d)' = Count(d) /\ NextCode(d)' = NextCode(d) /\ NextAt(d)' = NextAt(d)
    BY <2>1, EncoderKept
  <2>3. TypeOK' /\ TreeInv' /\ DecodesOnlyCodes'
    BY <2>1, <2>2 DEF IInv, TypeOK, DecodesOnlyCodes
  <2>4. phase' # "decode" => len' = -1 /\ pushed' = NULL
    BY <2>1 DEF IInv
  <2>5. phase' = "find" => FindPart'
    BY <2>1 DEF IInv, FindPart, Undecoded
  <2>6. phase' = "encode" => EncodePart'
    <3>1. NextCode(depth - 1)' = NextCode(depth - 1)
      BY <2>1 DEF NextCode, Count
    <3> QED
      BY <3>1, <2>1, <2>2 DEF IInv, EncodePart, Undecoded
  <2>7. InitInv => InitInv'
    BY <2>1, <2>2 DEF InitInv
  <2>8. NextCode(MaxDepth)' = NextCode(MaxDepth) /\ NextAt(MaxDepth)' = NextAt(MaxDepth)
    BY <2>1 DEF NextCode, NextAt, Count, MaxDepth
  <2>9. phase' = "init" => InitPart'
    BY <2>1, <2>2, <2>7, <2>8 DEF IInv, InitPart
  <2>10. Count(len + 1)' = Count(len + 1)
    BY <2>1 DEF Count
  <2>11. DecodeInv => DecodeInv'
    BY <2>1, <2>2, <2>10 DEF DecodeInv
  <2>12. phase' = "decode" => DecodePart'
    BY <2>1, <2>2, <2>7, <2>8, <2>11 DEF IInv, DecodePart
  <2> QED
    BY <2>3, <2>4, <2>5, <2>6, <2>9, <2>12 DEF IInv
<1> QED
  BY <1>1, <1>2, <1>3, <1>4, <1>5, <1>6 DEF Next

-----------------------------------------------------------------------------
(* The inductive invariant holds in every reachable state of the loops.    *)
THEOREM IInvAlways == Spec => []IInv
<1> QED
  BY InitIInv, NextIInv, PTL DEF Spec

(* Every variable of the loops keeps its type.                             *)
THEOREM TypeCorrect == Spec => []TypeOK
<1>1. IInv => TypeOK
  BY DEF IInv
<1> QED
  BY <1>1, IInvAlways, PTL

(* Whatever bits it is fed, the decoder indexes base, offset and symbols   *)
(* within their bounds: a code never gets longer than the tree is deep.    *)
THEOREM InBounds == Spec => []ReadsInBounds
<1>1. IInv => ReadsInBounds
  <2> SUFFICES ASSUME IInv, phase = "decode", NEW bit \in {0, 1}, NEW c, NEW l,
                      c = 2 * code + bit, l = len + 1
               PROVE  /\ l + 1 \in DOMAIN base
                      /\ Complete(c, l) =>
                           /\ l \in DOMAIN offset /\ l \in DOMAIN base
                           /\ c >= base[l]
                           /\ SymbolIndex(c, l) + 1 \in DOMAIN symbols
    BY DEF ReadsInBounds
  <2>1. TypeOK /\ TreeInv /\ DecodePart
    BY DEF IInv
  <2>2. /\ TreeDone /\ EncodeInv /\ depth = MaxDepth + 1 /\ InitInv /\ i = MaxDepth
        /\ DOMAIN base = 0..MaxDepth
    BY <2>1 DEF DecodePart
  <2>2a. MaxDepth \in Nat
    BY <2>1, <2>2, Tables
  <2>3. /\ l \in 0..MaxDepth - 1 /\ l + 1 \in 0..MaxDepth
        /\ c \in Nat
        /\ first[l + 1].code \in Nat /\ first[l + 1].at \in Nat /\ Count(l + 1) \in Nat
        /\ base[l] = first[l + 1].code /\ offset[l] = first[l + 1].at
        /\ first[l + 1].code <= c
        /\ Complete(c, l) <=> c < first[l + 1].code + Count(l + 1)
    BY <2>1, NextBit
  <2>4. DOMAIN offset = 0..MaxDepth - 1
    BY <2>2 DEF InitInv
  <2>5. ASSUME Complete(c, l) PROVE SymbolIndex(c, l) + 1 \in DOMAIN symbols
    <3>1. PICK k : k = c - first[l + 1].code + 1
      OBVIOUS
    <3>2. k \in 1..Count(l + 1) /\ SymbolIndex(c, l) + 1 = first[l + 1].at + k
      BY <3>1, <2>3, <2>5 DEF SymbolIndex
    <3>3. l + 1 \in 0..depth - 1
      BY <2>2, <2>2a, <2>3
    <3>4. first[l + 1].at + k \in 1..Len(symbols) /\ symbols \in Seq(Symbol)
      BY <3>2, <3>3, <2>2 DEF EncodeInv
    <3> QED
      BY <3>2, <3>4
  <2>6. l \in DOMAIN base /\ l \in DOMAIN offset /\ l + 1 \in DOMAIN base /\ c >= base[l]
    BY <2>2, <2>2a, <2>3, <2>4
  <2> QED
    BY <2>5, <2>6
<1> QED
  BY <1>1, IInvAlways, PTL

(* The decoder inverts the encoder: a symbol it pushes is the one whose    *)
(* code it has read.                                                       *)
THEOREM DecoderInverts == Spec => []DecodesOnlyCodes
<1>1. IInv => DecodesOnlyCodes
  BY DEF IInv
<1> QED
  BY <1>1, IInvAlways, PTL

(* The decoder never waits with a whole code in hand: no code is a proper  *)
(* prefix of bits it has left pending.                                     *)
THEOREM PrefixFree == Spec => []StopsAtCodes
<1>1. IInv => StopsAtCodes
  <2> SUFFICES ASSUME IInv, phase = "decode", len >= 0, NEW s \in DOMAIN dict,
                      dict[s] = [length |-> len + 1, code |-> code]
               PROVE  FALSE
    BY DEF StopsAtCodes
  <2>1. /\ TypeOK /\ TreeInv /\ TreeDone /\ EncodeInv /\ depth = MaxDepth + 1 /\ DecodeInv
    BY DEF IInv, DecodePart
  <2>2. PICK D : D = len + 1
    OBVIOUS
  <2>3. MaxDepth \in Nat /\ D \in 0..MaxDepth /\ first[D].code + Count(D) <= code
    <3>1. MaxDepth \in Nat
      BY <2>1, Tables
    <3> QED
      BY <3>1, <2>1, <2>2 DEF DecodeInv
  <2>4. PICK d \in 1..depth : s \in depths[d]
    BY <2>1 DEF EncodeInv
  <2>5. d - 1 \in 0..depth - 1 /\ (d - 1) + 1 = d
    BY <2>1, <2>3, <2>4
  <2>6. PICK k \in 1..Count(d - 1) :
          dict[s] = [length |-> d - 1, code |-> first[d - 1].code + k - 1]
    <3>1. \A x \in 0..depth - 1 : \A y \in depths[x + 1] :
            \E k \in 1..Count(x) : dict[y] = [length |-> x, code |-> first[x].code + k - 1]
      BY <2>1 DEF EncodeInv
    <3>2. s \in depths[(d - 1) + 1]
      BY <2>4, <2>5
    <3> QED
      BY <3>1, <3>2, <2>5
  <2>7. d - 1 = D /\ first[D].code + k - 1 = code
    BY <2>2, <2>6
  <2>8. first[D].code \in Nat /\ Count(D) \in Nat /\ k \in 1..Count(D)
    BY <2>1, <2>3, <2>6, <2>7, Tables
  <2> QED
    BY <2>3, <2>7, <2>8
<1> QED
  BY <1>1, IInvAlways, PTL

-----------------------------------------------------------------------------
(* Paths.                                                                  *)

IsShift(c, l, f) ==
  f = [k \in 0..l |-> IF k = 0 THEN c ELSE f[k - 1] \div 2]

LEMMA Shifts ==
  ASSUME NEW c \in Nat, NEW l \in Nat
  PROVE  \E f \in [0..l -> Nat] :
           /\ f[0] = c /\ \A k \in 1..l : f[k] = f[k - 1] \div 2
           /\ Path(c, l) = [k \in 1..l |-> f[l - k] % 2]
<1> DEFINE g == [k \in Nat |-> [x \in Nat |-> x \div 2]]
<1>1. g \in [Nat -> [Nat -> Nat]]
  OBVIOUS
<1>2. PICK w \in [0..l -> Nat] : w[0] = c /\ \A k \in 1..l : w[k] = g[k][w[k - 1]]
  <2> HIDE DEF g
  <2>1. PICK f : Iterates(f, Nat, c, g, l)
    BY <1>1, Recursion, Zenon
  <2> QED
    BY <2>1 DEF Iterates
<1>3. \A k \in 1..l : w[k] = w[k - 1] \div 2
  <2>1. \A k \in 1..l : k \in Nat /\ k - 1 \in 0..l
    OBVIOUS
  <2>2. \A k \in 1..l : w[k - 1] \in Nat
    BY <2>1
  <2> QED
    BY <1>2, <2>1, <2>2
<1>4. IsShift(c, l, w)
  <2> DEFINE u == [k \in 0..l |-> IF k = 0 THEN c ELSE w[k - 1] \div 2]
  <2>1. \A k \in 0..l : w[k] = u[k]
    <3>1. \A k \in 0..l : k # 0 => k \in 1..l
      OBVIOUS
    <3> HIDE DEF g
    <3> QED
      BY <1>2, <1>3, <3>1
  <2>2. w = [k \in 0..l |-> w[k]]
    OBVIOUS
  <2>3. u = [k \in 0..l |-> u[k]]
    OBVIOUS
  <2> HIDE DEF u
  <2>4. w = u
    BY <2>1, <2>2, <2>3
  <2> QED
    BY <2>4 DEF IsShift, u
<1>5. PICK f : IsShift(c, l, f) /\ Path(c, l) = [k \in 1..l |-> f[l - k] % 2]
  <2>1. Path(c, l) = [k \in 1..l |-> (CHOOSE f : IsShift(c, l, f))[l - k] % 2]
    BY Zenon DEF Path, IsShift
  <2> QED
    BY <1>4, <2>1
<1>6. /\ DOMAIN f = 0..l /\ f[0] = c /\ f = [k \in 0..l |-> f[k]]
      /\ \A k \in 1..l : f[k] = f[k - 1] \div 2
  <2>1. f = [k \in 0..l |-> IF k = 0 THEN c ELSE f[k - 1] \div 2]
    BY <1>5 DEF IsShift
  <2>2. DOMAIN f = 0..l
    BY <2>1, Zenon
  <2>3. \A k \in 0..l : f[k] = IF k = 0 THEN c ELSE f[k - 1] \div 2
    BY <2>1, Zenon
  <2>4. 0 \in 0..l /\ \A k \in 1..l : k \in 0..l /\ k # 0
    OBVIOUS
  <2> QED
    BY <2>1, <2>2, <2>3, <2>4
<1>7. \A k \in 0..l : f[k] \in Nat
  <2> DEFINE Q == {k \in 0..l : f[k] \in Nat}
  <2>1. 0 \in Q
    BY <1>6
  <2>2. ASSUME NEW k \in 0..l - 1, k \in Q PROVE k + 1 \in Q
    <3>1. k + 1 \in 1..l /\ k + 1 \in 0..l /\ (k + 1) - 1 = k /\ f[k] \in Nat
      BY <2>2
    <3>2. f[k + 1] = f[k] \div 2
      BY <1>6, <3>1
    <3> QED
      BY <3>1, <3>2
  <2>3. 0..l \subseteq Q
    <3> HIDE DEF Q
    <3>1. 0 \in Int /\ l \in Int
      OBVIOUS
    <3> QED
      BY <2>1, <2>2, <3>1, IntervalIsInductive, Zenon
  <2> QED
    BY <2>3
<1>8. f \in [0..l -> Nat]
  BY <1>6, <1>7
<1> QED
  BY <1>5, <1>6, <1>8

Bits == {0, 1}

LEMMA PathIs ==
  ASSUME NEW c \in Nat, NEW l \in Nat
  PROVE  Path(c, l) \in Seq(Bits) /\ Len(Path(c, l)) = l
<1>1. PICK f \in [0..l -> Nat] : Path(c, l) = [k \in 1..l |-> f[l - k] % 2]
  BY Shifts, ZenonT(30)
<1>2. \A k \in 1..l : (f[l - k] % 2) \in Bits
  <2>1. \A k \in 1..l : l - k \in 0..l
    OBVIOUS
  <2>2. \A x \in Nat : (x % 2) \in Bits
    BY DEF Bits
  <2> QED
    BY <2>1, <2>2
<1>3. Path(c, l) \in [1..l -> Bits]
  BY <1>1, <1>2
<1> QED
  BY <1>3, FcnIsSeq

(* One bit more.                                                           *)
LEMMA PathNext ==
  ASSUME NEW c \in Nat, NEW l \in Nat, NEW b \in Bits
  PROVE  Path(2 * c + b, l + 1) = Append(Path(c, l), b)
<1>1. PICK f \in [0..l -> Nat] :
        /\ f[0] = c /\ \A k \in 1..l : f[k] = f[k - 1] \div 2
        /\ Path(c, l) = [k \in 1..l |-> f[l - k] % 2]
  BY Shifts
<1>2. PICK m \in Nat : m = 2 * c + b /\ m \div 2 = c /\ (m % 2) = b
  BY DEF Bits
<1>n. PICK n \in Nat : n = l + 1
  OBVIOUS
<1>3. PICK h \in [0..n -> Nat] :
        /\ h[0] = m /\ \A k \in 1..n : h[k] = h[k - 1] \div 2
        /\ Path(m, n) = [k \in 1..n |-> h[n - k] % 2]
  BY Shifts
<1>4. \A k \in 0..l : h[k + 1] = f[k]
  <2> DEFINE Q == {k \in 0..l : h[k + 1] = f[k]}
  <2>1. 0 \in Q
    <3>1. 1 \in 1..n /\ 0 \in 0..l
      BY <1>n
    <3>2. h[1] = h[0] \div 2
      BY <1>3, <3>1
    <3> QED
      BY <1>1, <1>2, <1>3, <3>1, <3>2
  <2>2. ASSUME NEW k \in 0..l - 1, k \in Q PROVE k + 1 \in Q
    <3>1. k + 1 \in 1..l /\ k + 1 \in 0..l /\ (k + 1) - 1 = k /\ h[k + 1] = f[k]
      BY <2>2
    <3>2. k + 2 \in 1..n /\ (k + 2) - 1 = k + 1 /\ (k + 1) + 1 = k + 2
      BY <1>n
    <3>3. h[k + 2] = h[k + 1] \div 2 /\ f[k + 1] = f[k] \div 2
      BY <1>1, <1>3, <3>1, <3>2
    <3> QED
      BY <3>1, <3>2, <3>3
  <2>3. 0..l \subseteq Q
    <3> HIDE DEF Q
    <3>1. 0 \in Int /\ l \in Int
      OBVIOUS
    <3> QED
      BY <2>1, <2>2, <3>1, IntervalIsInductive, Zenon
  <2> QED
    BY <2>3
<1>a. PICK p : p = Path(c, l)
  OBVIOUS
<1>b. PICK q : q = Path(m, n)
  OBVIOUS
<1>5. /\ p \in Seq(Bits) /\ Len(p) = l /\ \A k \in 1..l : p[k] = f[l - k] % 2
  BY <1>1, <1>a, PathIs
<1>6. /\ q \in Seq(Bits) /\ Len(q) = n /\ \A k \in 1..n : q[k] = h[n - k] % 2
  BY <1>3, <1>b, PathIs
<1>7. ASSUME NEW k \in 1..l PROVE q[k] = p[k]
  <2>1. PICK z : z = l - k
    OBVIOUS
  <2>2. k \in 1..n /\ z \in 0..l /\ n - k = z + 1
    BY <1>n, <2>1
  <2>3. h[n - k] = f[l - k]
    BY <1>4, <2>1, <2>2
  <2> QED
    BY <1>5, <1>6, <2>2, <2>3
<1>8. q[n] = b
  <2>1. n \in 1..n /\ n - n = 0
    BY <1>n
  <2> QED
    BY <1>2, <1>3, <1>6, <2>1
<1>9. q = Append(p, b)
  <2>a. PICK s : s = Append(p, b)
    OBVIOUS
  <2>1. s \in Seq(Bits) /\ Len(s) = n /\ (\A k \in 1..l : s[k] = p[k]) /\ s[n] = b
    BY <1>5, <1>n, <2>a, AppendProperties, SMTT(30)
  <2>2. \A k \in 1..n : k \in 1..l \/ k = n
    BY <1>n
  <2>3. \A k \in 1..n : q[k] = s[k]
    BY <1>7, <1>8, <2>1, <2>2
  <2> QED
    BY <1>6, <2>1, <2>3, <2>a, SeqEqual
<1> QED
  BY <1>2, <1>9, <1>a, <1>b, <1>n

(* What is above a path with one bit more.                                 *)
LEMMA AboveNext ==
  ASSUME NEW s \in Seq(Bits), NEW b \in Bits, NEW t, t = Append(s, b)
  PROVE  Above(t) = Above(s) \cup {s}
<1>1. /\ t \in Seq(Bits) /\ Len(s) \in Nat /\ Len(t) = Len(s) + 1
      /\ \A k \in 1..Len(s) : t[k] = s[k]
  BY AppendProperties, LenProperties
<1>2. ASSUME NEW k \in 0..Len(s) PROVE SubSeq(t, 1, k) = SubSeq(s, 1, k)
  <2>1. SubSeq(t, 1, k) = [x \in 1..k |-> t[x]] /\ SubSeq(s, 1, k) = [x \in 1..k |-> s[x]]
    BY <1>1
  <2>2. \A x \in 1..k : t[x] = s[x]
    BY <1>1
  <2> QED
    BY <2>1, <2>2
<1>3. SubSeq(s, 1, Len(s)) = s
  <2>1. SubSeq(s, 1, Len(s)) = [x \in 1..Len(s) |-> s[x]] /\ s = [x \in 1..Len(s) |-> s[x]]
    BY <1>1
  <2> QED
    BY <2>1
<1>4. 0..Len(t) - 1 = 0..Len(s) /\ 0..Len(s) = (0..Len(s) - 1) \cup {Len(s)}
  BY <1>1
<1>5. Above(t) = {SubSeq(s, 1, k) : k \in 0..Len(s)}
  BY <1>2, <1>4 DEF Above
<1> QED
  BY <1>3, <1>4, <1>5 DEF Above

-----------------------------------------------------------------------------
(* The nodes of each depth, by number: the leaves first.                   *)

Depths == 0..MaxDepth

Start(d) == first[d].code

Numbers(d) == {n \in Nat : Start(d) <= n /\ n < Start(d) + Count(d) + merged[d + 1]}

IsLeaf(n, d) == n < Start(d) + Count(d)

Label(n, d) == IF IsLeaf(n, d) THEN symbols[first[d].at + (n - Start(d)) + 1] ELSE NULL

(* What the other proofs say of them once the tables are there.            *)
Numbered ==
  /\ MaxDepth \in Nat /\ MaxDepth >= 1
  /\ \A d \in Depths : /\ Start(d) \in Nat /\ first[d].at \in Nat
                        /\ Count(d) \in Nat /\ merged[d + 1] \in Nat
  /\ Start(0) = 0 /\ Count(0) = 0 /\ first[0].at = 0 /\ merged[1] = 1
  /\ \A d \in 0..MaxDepth - 1 :
       /\ Start(d + 1) = 2 * (Start(d) + Count(d)) /\ first[d + 1].at = first[d].at + Count(d)
       /\ Count(d + 1) + merged[d + 2] = 2 * merged[d + 1]
       /\ lens[d] = Count(d + 1)
  /\ merged[MaxDepth + 1] = 0
  /\ \A d \in Depths : \A k \in 1..Count(d) : symbols[first[d].at + k] \in Symbol

LEMMA TablesNumber ==
  ASSUME TreeInv, TreeDone, EncodeInv, depth = MaxDepth + 1
  PROVE  Numbered
<1>1. /\ MaxDepth \in Nat /\ MaxDepth >= 1
      /\ \A d \in 0..MaxDepth : /\ first[d].code \in Nat /\ first[d].at \in Nat
                               /\ Count(d) \in Nat /\ merged[d + 1] \in Nat
      /\ first[0].code = 0 /\ first[0].at = 0 /\ Count(0) = 0 /\ merged[1] = 1
      /\ \A d \in 0..MaxDepth - 1 :
           /\ first[d + 1].code = NextCode(d) /\ first[d + 1].at = NextAt(d)
           /\ Count(d + 1) + merged[d + 2] = 2 * merged[d + 1]
           /\ lens[d] = Count(d + 1)
      /\ merged[MaxDepth + 1] = 0
  BY Tables
<1>2. ASSUME NEW d \in Depths, NEW k \in 1..Count(d) PROVE symbols[first[d].at + k] \in Symbol
  <2>1. symbols[first[d].at + k] \in depths[d + 1]
    <3>1. d \in 0..depth - 1
      BY <1>1 DEF Depths
    <3>2. \A x \in 0..depth - 1 : \A y \in 1..Count(x) : symbols[first[x].at + y] \in depths[x + 1]
      BY DEF EncodeInv
    <3> QED
      BY <3>1, <3>2
  <2>2. depths[d + 1] \in SUBSET Symbol
    <3>1. depths # <<>>
      BY DEF TreeDone
    <3> QED
      BY <3>1, RootIs DEF Depths
  <2> QED
    BY <2>1, <2>2
<1> QED
  BY <1>1, <1>2 DEF Numbered, Depths, Start, NextCode, NextAt

LEMMA Leaves ==
  ASSUME Numbered, NEW d \in Depths, NEW n \in Numbers(d)
  PROVE  /\ IsLeaf(n, d) => Label(n, d) \in Symbol /\ Label(n, d) # NULL
         /\ ~ IsLeaf(n, d) => Label(n, d) = NULL /\ d < MaxDepth
<1>1. /\ Start(d) \in Nat /\ Count(d) \in Nat /\ merged[d + 1] \in Nat /\ MaxDepth \in Nat
      /\ merged[MaxDepth + 1] = 0 /\ n \in Nat
      /\ Start(d) <= n /\ n < Start(d) + Count(d) + merged[d + 1]
  BY DEF Numbered, Numbers
<1>2. ASSUME IsLeaf(n, d) PROVE Label(n, d) \in Symbol
  <2>1. PICK k : k = n - Start(d) + 1
    OBVIOUS
  <2>2. k \in 1..Count(d)
    BY <1>1, <1>2, <2>1 DEF IsLeaf
  <2>3. first[d].at + k = first[d].at + (n - Start(d)) + 1
    BY <1>1, <2>1 DEF Numbered
  <2>4. symbols[first[d].at + k] \in Symbol
    BY <2>2 DEF Numbered
  <2> QED
    BY <1>2, <2>3, <2>4 DEF Label
<1>3. ASSUME ~ IsLeaf(n, d) PROVE d < MaxDepth
  <2>1. merged[d + 1] # 0
    BY <1>1, <1>3 DEF IsLeaf
  <2>2. d # MaxDepth
    BY <1>1, <2>1
  <2> QED
    BY <1>1, <2>2 DEF Depths
<1> QED
  BY <1>2, <1>3, DecoderAssumption DEF Label

LEMMA Parent ==
  ASSUME Numbered, NEW d \in 0..MaxDepth - 1, NEW n \in Numbers(d + 1)
  PROVE  \E m \in Numbers(d) : \E b \in Bits : n = 2 * m + b /\ ~ IsLeaf(m, d)
<1>1. /\ d \in Depths /\ d + 1 \in Depths /\ (d + 1) + 1 = d + 2
  BY DEF Numbered, Depths
<1>a. PICK s, t, c, e, x, y : /\ s = Start(d) /\ t = Start(d + 1) /\ c = Count(d) /\ e = Count(d + 1)
                              /\ x = merged[d + 1] /\ y = merged[d + 2]
  OBVIOUS
<1>2. s \in Nat /\ t \in Nat /\ c \in Nat /\ e \in Nat /\ x \in Nat /\ y \in Nat
  BY <1>1, <1>a DEF Numbered
<1>3. t = 2 * (s + c) /\ e + y = 2 * x
  BY <1>a DEF Numbered
<1>4. n \in Nat /\ t <= n /\ n < t + e + y
  BY <1>1, <1>a DEF Numbers
<1>5. PICK m \in Nat, b \in Bits : n = 2 * m + b
  <2>1. n = 2 * (n \div 2) + (n % 2) /\ n \div 2 \in Nat /\ (n % 2) \in Bits
    BY <1>4 DEF Bits
  <2> QED
    BY <2>1
<1>6. s + c <= m /\ m < s + c + x
  BY <1>2, <1>3, <1>4, <1>5 DEF Bits
<1>7. m \in Numbers(d) /\ ~ IsLeaf(m, d)
  BY <1>2, <1>5, <1>6, <1>a DEF Numbers, IsLeaf
<1> QED
  BY <1>5, <1>7

LEMMA Child ==
  ASSUME Numbered, NEW d \in Depths, NEW m \in Numbers(d), ~ IsLeaf(m, d), NEW b \in Bits
  PROVE  d + 1 \in Depths /\ 2 * m + b \in Numbers(d + 1)
<1>1. d < MaxDepth
  BY Leaves
<1>2. d \in 0..MaxDepth - 1 /\ d + 1 \in Depths /\ (d + 1) + 1 = d + 2
  BY <1>1 DEF Numbered, Depths
<1>a. PICK s, t, c, e, x, y : /\ s = Start(d) /\ t = Start(d + 1) /\ c = Count(d) /\ e = Count(d + 1)
                              /\ x = merged[d + 1] /\ y = merged[d + 2]
  OBVIOUS
<1>3. s \in Nat /\ t \in Nat /\ c \in Nat /\ e \in Nat /\ x \in Nat /\ y \in Nat
  BY <1>2, <1>a DEF Numbered
<1>4. t = 2 * (s + c) /\ e + y = 2 * x
  BY <1>2, <1>a DEF Numbered
<1>5. m \in Nat /\ s + c <= m /\ m < s + c + x
  BY <1>3, <1>a DEF Numbers, IsLeaf
<1>6. 2 * m + b \in Nat /\ t <= 2 * m + b /\ 2 * m + b < t + e + y
  BY <1>3, <1>4, <1>5 DEF Bits
<1>7. 2 * m + b \in Numbers(d + 1)
  BY <1>2, <1>6, <1>a DEF Numbers
<1> QED
  BY <1>2, <1>7

LEMMA Root ==
  ASSUME Numbered
  PROVE  0 \in Depths /\ Numbers(0) = {0} /\ ~ IsLeaf(0, 0) /\ Path(0, 0) = <<>> /\ Above(<<>>) = {}
<1>1. 0 \in Depths /\ Start(0) = 0 /\ Count(0) = 0 /\ merged[0 + 1] = 1
  BY DEF Numbered, Depths
<1>2. Numbers(0) = {0} /\ ~ IsLeaf(0, 0)
  BY <1>1 DEF Numbers, IsLeaf
<1>3. Path(0, 0) = <<>>
  BY PathIs
<1>4. Above(<<>>) = {}
  BY DEF Above
<1> QED
  BY <1>1, <1>2, <1>3, <1>4

(* Different nodes are at the ends of different paths.                     *)
LEMMA OnePath ==
  ASSUME Numbered, NEW d \in Depths, NEW e \in Depths, NEW m \in Numbers(d), NEW n \in Numbers(e),
         Path(m, d) = Path(n, e)
  PROVE  d = e /\ m = n
<1> DEFINE Q == {x \in Depths : \A y, z \in Numbers(x) : Path(y, x) = Path(z, x) => y = z}
<1>1. 0 \in Q
  BY Root
<1>2. ASSUME NEW x \in 0..MaxDepth - 1, x \in Q PROVE x + 1 \in Q
  <2> SUFFICES ASSUME NEW y \in Numbers(x + 1), NEW z \in Numbers(x + 1),
                      Path(y, x + 1) = Path(z, x + 1)
               PROVE  y = z
    BY DEF Numbered, Depths
  <2>1. PICK p \in Numbers(x), a \in Bits : y = 2 * p + a
    BY Parent
  <2>2. PICK q \in Numbers(x), b \in Bits : z = 2 * q + b
    BY Parent
  <2>3. p \in Nat /\ q \in Nat /\ x \in Nat
    BY DEF Numbers
  <2>a. PICK s, t : s = Path(p, x) /\ t = Path(q, x)
    OBVIOUS
  <2>4. s \in Seq(Bits) /\ t \in Seq(Bits) /\ Len(s) = x /\ Len(t) = x
    BY <2>3, <2>a, PathIs
  <2>5. Path(y, x + 1) = Append(s, a) /\ Path(z, x + 1) = Append(t, b)
    BY <2>1, <2>2, <2>3, <2>a, PathNext
  <2>6. Append(s, a) = Append(t, b)
    BY <2>5
  <2>7. a = b
    <3>1. Append(s, a)[x + 1] = a /\ Append(t, b)[x + 1] = b
      BY <2>4, AppendProperties
    <3> QED
      BY <2>6, <3>1
  <2>8. s = t
    <3>1. \A k \in 1..x : Append(s, a)[k] = s[k] /\ Append(t, b)[k] = t[k]
      BY <2>4, AppendProperties
    <3>2. \A k \in 1..x : s[k] = t[k]
      BY <2>6, <3>1
    <3> QED
      BY <2>4, <3>2, SeqEqual
  <2>9. p = q
    BY <1>2, <2>8, <2>a
  <2> QED
    BY <2>1, <2>2, <2>7, <2>9
<1>3. 0..MaxDepth \subseteq Q
  <2> HIDE DEF Q
  <2>1. 0 \in Int /\ MaxDepth \in Int
    BY DEF Numbered
  <2> QED
    BY <1>1, <1>2, <2>1, IntervalIsInductive, Zenon
<1>4. d = e
  <2>1. d \in Nat /\ e \in Nat /\ m \in Nat /\ n \in Nat
    BY DEF Depths, Numbers, Numbered
  <2>2. Len(Path(m, d)) = d /\ Len(Path(n, e)) = e
    BY <2>1, PathIs
  <2> QED
    BY <2>2
<1> QED
  BY <1>3, <1>4 DEF Depths

(* The paths above a node's are those of merged nodes, and so is what is   *)
(* above them.                                                             *)
Inners(P) == \A q \in P : \E e \in Depths : \E m \in Numbers(e) : ~ IsLeaf(m, e) /\ q = Path(m, e)

LEMMA Ancestors ==
  ASSUME Numbered, NEW d \in Depths, NEW n \in Numbers(d)
  PROVE  /\ Inners(Above(Path(n, d)))
         /\ \A q \in Above(Path(n, d)) : Above(q) \subseteq Above(Path(n, d))
         /\ Path(n, d) \notin Above(Path(n, d))
<1> DEFINE Good(p) == Inners(Above(p)) /\ \A q \in Above(p) : Above(q) \subseteq Above(p)
           Q == {x \in Depths : \A y \in Numbers(x) : Good(Path(y, x))}
<1>1. 0 \in Q
  BY Root DEF Inners
<1>2. ASSUME NEW x \in 0..MaxDepth - 1, x \in Q PROVE x + 1 \in Q
  <2>0. x \in Depths /\ x + 1 \in Depths /\ x \in Nat
    BY DEF Numbered, Depths
  <2> SUFFICES ASSUME NEW y \in Numbers(x + 1)
               PROVE  Good(Path(y, x + 1))
    BY <2>0
  <2>1. PICK m \in Numbers(x), b \in Bits : y = 2 * m + b /\ ~ IsLeaf(m, x)
    BY Parent
  <2>2. m \in Nat
    BY DEF Numbers
  <2>a. PICK s, t : s = Path(m, x) /\ t = Path(y, x + 1)
    OBVIOUS
  <2>3. s \in Seq(Bits) /\ t = Append(s, b)
    BY <2>0, <2>1, <2>2, <2>a, PathIs, PathNext
  <2>4. Above(t) = Above(s) \cup {s}
    BY <2>3, AboveNext
  <2>5. Good(s)
    BY <1>2, <2>a
  <2>6. Inners(Above(t))
    BY <2>0, <2>1, <2>4, <2>5, <2>a DEF Inners
  <2>7. \A q \in Above(t) : Above(q) \subseteq Above(t)
    BY <2>4, <2>5
  <2> QED
    BY <2>6, <2>7, <2>a
<1>3. 0..MaxDepth \subseteq Q
  <2> HIDE DEF Q
  <2>1. 0 \in Int /\ MaxDepth \in Int
    BY DEF Numbered
  <2> QED
    BY <1>1, <1>2, <2>1, IntervalIsInductive, Zenon
<1>4. Good(Path(n, d))
  BY <1>3 DEF Depths
<1>5. Path(n, d) \notin Above(Path(n, d))
  <2> SUFFICES ASSUME Path(n, d) \in Above(Path(n, d)) PROVE FALSE
    OBVIOUS
  <2>1. d \in Nat /\ n \in Nat
    BY DEF Depths, Numbers, Numbered
  <2>2. PICK p : p = Path(n, d)
    OBVIOUS
  <2>3. p \in Seq(Bits) /\ Len(p) = d
    BY <2>1, <2>2, PathIs
  <2>4. PICK k \in 0..Len(p) - 1 : p = SubSeq(p, 1, k)
    BY <2>2 DEF Above
  <2>5. Len(SubSeq(p, 1, k)) = k
    BY <2>1, <2>3, <2>4
  <2> QED
    BY <2>1, <2>3, <2>4, <2>5
<1> QED
  BY <1>4, <1>5

-----------------------------------------------------------------------------
(* The inductive invariant.                                                *)

(* Every path of T is a node's, with its label, and what is above it is in *)
(* T as well.                                                              *)
Grown(T) ==
  /\ \A p \in DOMAIN T : \E d \in Depths : \E n \in Numbers(d) : p = Path(n, d) /\ T[p] = Label(n, d)
  /\ \A p \in DOMAIN T : Above(p) \subseteq DOMAIN T
  /\ <<>> \in DOMAIN T

(* The leaves of a length are in the tree, up to number n.                 *)
Placed(T, d, n) == \A m \in Numbers(d) : IsLeaf(m, d) /\ m < n => Path(m, d) \in DOMAIN T

(* Where huffman_tree is, and which leaves it has inserted in T.           *)
BuiltTo(T, d, k, c, s) ==
  /\ d \in 1..MaxDepth + 1 /\ k \in Nat
  /\ d <= MaxDepth => k <= Count(d) /\ c = Start(d) + k /\ s = first[d].at
  /\ Grown(T)
  /\ \A e \in 1..d - 1 : Placed(T, e, Start(e) + Count(e))
  /\ d <= MaxDepth => Placed(T, d, c)

BuildInv == BuiltTo(tree, at, j, icode, symbol8)

(* Where both decoders are.                                                *)
WalkInv ==
  /\ node = Path(code, len + 1)
  /\ output = IF pushed = NULL THEN NULL ELSE pushed.symbol

NothingBuilt ==
  /\ tree = huffman_new /\ at = 1 /\ j = 0 /\ icode = 0 /\ symbol8 = 0
  /\ node = <<>> /\ output = NULL

TreeDecoderInv ==
  /\ IInv
  /\ phase # "decode" => NothingBuilt
  /\ phase = "decode" => BuildInv /\ WalkInv

-----------------------------------------------------------------------------
LEMMA DecodeNumbers ==
  ASSUME IInv, phase = "decode"
  PROVE  Numbered /\ DecodePart /\ TreeInv /\ TypeOK
<1>1. TreeInv /\ TreeDone /\ EncodeInv /\ depth = MaxDepth + 1 /\ DecodePart /\ TypeOK
  BY DEF IInv, DecodePart
<1> QED
  BY <1>1, TablesNumber

(* A step that leaves the tables alone moves no node and no label.         *)
LEMMA BuildKept ==
  ASSUME UNCHANGED <<depths, merged, first, symbols>>,
         NEW T, NEW d, NEW k, NEW c, NEW s, BuiltTo(T, d, k, c, s),
         tree' = T, at' = d, j' = k, icode' = c, symbol8' = s
  PROVE  BuildInv'
<1>1. MaxDepth' = MaxDepth /\ Depths' = Depths
  BY DEF Depths, MaxDepth
<1>2. \A e : Count(e)' = Count(e) /\ Start(e)' = Start(e) /\ Numbers(e)' = Numbers(e)
  BY DEF Count, Start, Numbers
<1>3. \A n, e : IsLeaf(n, e)' = IsLeaf(n, e)
  BY <1>2 DEF IsLeaf
<1>4. \A n, e : Label(n, e)' = Label(n, e)
  BY <1>2, <1>3 DEF Label
<1>5. Grown(tree)'
  BY <1>1, <1>2, <1>4 DEF BuiltTo, Grown
<1>6. \A e \in 1..d - 1 : Placed(tree, e, Start(e) + Count(e))'
  BY <1>2, <1>3 DEF BuiltTo, Placed
<1>7. d <= MaxDepth => Placed(tree, at, icode)'
  BY DEF BuiltTo, Placed, Numbers, IsLeaf, Start, Count
<1>8. at' \in 1..MaxDepth' + 1 /\ j' \in Nat
  BY <1>1 DEF BuiltTo
<1>9. at' <= MaxDepth' => j' <= Count(at)' /\ icode' = Start(at)' + j' /\ symbol8' = first'[at'].at
  BY <1>1 DEF BuiltTo, Count, Start
<1> QED
  BY <1>1, <1>5, <1>6, <1>7, <1>8, <1>9 DEF BuildInv, BuiltTo

LEMMA TreeInitInv == TreeInit => TreeDecoderInv
<1> SUFFICES ASSUME TreeInit PROVE TreeDecoderInv
  OBVIOUS
<1>1. IInv /\ phase # "decode"
  BY InitIInv DEF TreeInit, Init
<1> QED
  BY <1>1 DEF TreeInit, TreeDecoderInv, NothingBuilt

(* The loops before the tree.                                              *)
LEMMA EarlierStep ==
  ASSUME TreeDecoderInv, UNCHANGED treeVars,
         (\E S \in SUBSET Unplaced : FindDepth(S)) \/ EncodeDepth \/ InitLength \/ InitLast
  PROVE  TreeDecoderInv'
<1>1. IInv'
  <2>1. [Next]_vars
    BY DEF Next
  <2> QED
    BY <2>1, NextIInv DEF TreeDecoderInv
<1>2. phase # "decode"
  BY DEF FindDepth, EncodeDepth, InitLength, InitLast
<1>3. NothingBuilt /\ NothingBuilt'
  BY <1>2 DEF TreeDecoderInv, NothingBuilt, treeVars
<1>4. ASSUME phase' = "decode" PROVE BuildInv' /\ WalkInv'
  <2>1. InitLast
    BY <1>2, <1>4 DEF FindDepth, EncodeDepth, InitLength
  <2>2. code' = 0 /\ len' = -1 /\ pushed' = NULL /\ UNCHANGED <<depths, merged, first, symbols>>
    BY <1>2, <2>1 DEF InitLast, TreeDecoderInv, IInv
  <2>3. Numbered
    <3>1. TreeInv /\ TreeDone /\ EncodeInv /\ depth = MaxDepth + 1
      BY <2>1 DEF InitLast, TreeDecoderInv, IInv, InitPart
    <3> QED
      BY <3>1, TablesNumber
  <2>4. /\ 0 \in Depths /\ Numbers(0) = {0} /\ ~ IsLeaf(0, 0)
        /\ Path(0, 0) = <<>> /\ Above(<<>>) = {}
    BY <2>3, Root
  <2>5. PICK T : T = huffman_new
    OBVIOUS
  <2>6. Grown(T)
    <3>1. DOMAIN T = {<<>>} /\ T[<<>>] = NULL
      BY <2>5 DEF huffman_new
    <3>2. Label(0, 0) = NULL
      BY <2>4 DEF Label
    <3> QED
      BY <2>4, <3>1, <3>2 DEF Grown
  <2>7. /\ MaxDepth \in Nat /\ MaxDepth >= 1
        /\ Start(1) = 0 /\ first[1].at = 0 /\ Count(1) \in Nat
    <3>1. 0 \in 0..MaxDepth - 1 /\ 0 + 1 = 1 /\ 1 \in Depths
      BY <2>3 DEF Numbered, Depths
    <3>2. Start(0 + 1) = 2 * (Start(0) + Count(0)) /\ first[0 + 1].at = first[0].at + Count(0)
      BY <2>3, <3>1 DEF Numbered
    <3> QED
      BY <2>3, <3>1, <3>2 DEF Numbered
  <2>8. Placed(T, 1, 0)
    BY DEF Placed, Numbers
  <2>9. BuiltTo(T, 1, 0, 0, 0)
    BY <2>6, <2>7, <2>8 DEF BuiltTo
  <2>10. BuildInv'
    <3>1. tree' = T /\ at' = 1 /\ j' = 0 /\ icode' = 0 /\ symbol8' = 0
      BY <1>3, <2>5 DEF NothingBuilt
    <3> QED
      BY <2>2, <2>9, <3>1, BuildKept, Zenon
  <2>11. WalkInv'
    <3>1. len' + 1 = 0 /\ node' = <<>> /\ output' = NULL
      BY <1>3, <2>2 DEF NothingBuilt
    <3> QED
      BY <2>2, <2>4, <3>1 DEF WalkInv
  <2> QED
    BY <2>10, <2>11
<1> QED
  BY <1>1, <1>3, <1>4 DEF TreeDecoderInv

(* Inserting a leaf below whose parent the tree is not cut off.            *)
LEMMA InsertGrows ==
  ASSUME Numbered, NEW T, Grown(T), NEW d \in Depths, NEW n \in Numbers(d), IsLeaf(n, d),
         NEW U, U = Inserted(T, n, d, Label(n, d))
  PROVE  Grown(U) /\ DOMAIN T \subseteq DOMAIN U /\ Path(n, d) \in DOMAIN U
<1>1. PICK p : p = Path(n, d)
  OBVIOUS
<1>2. /\ DOMAIN U = DOMAIN T \cup Above(p) \cup {p}
      /\ \A q \in DOMAIN U : U[q] = IF q = p THEN Label(n, d) ELSE IF q \in DOMAIN T THEN T[q] ELSE NULL
  BY <1>1 DEF Inserted
<1>3. /\ Inners(Above(p)) /\ (\A q \in Above(p) : Above(q) \subseteq Above(p)) /\ p \notin Above(p)
  BY <1>1, Ancestors
<1>4. ASSUME NEW q \in DOMAIN U
      PROVE  \E e \in Depths : \E m \in Numbers(e) : q = Path(m, e) /\ U[q] = Label(m, e)
  <2>1. CASE q = p
    BY <1>1, <1>2, <2>1
  <2>2. CASE q # p /\ q \in DOMAIN T
    BY <1>2, <2>2 DEF Grown
  <2>3. CASE q # p /\ q \notin DOMAIN T
    <3>1. q \in Above(p) /\ U[q] = NULL
      BY <1>2, <2>3
    <3>2. PICK e \in Depths : \E m \in Numbers(e) : ~ IsLeaf(m, e) /\ q = Path(m, e)
      BY <1>3, <3>1 DEF Inners
    <3>3. PICK m \in Numbers(e) : ~ IsLeaf(m, e) /\ q = Path(m, e)
      BY <3>2
    <3> QED
      BY <3>1, <3>3, Leaves
  <2> QED
    BY <2>1, <2>2, <2>3
<1>5. \A q \in DOMAIN U : Above(q) \subseteq DOMAIN U
  BY <1>2, <1>3 DEF Grown
<1> QED
  BY <1>1, <1>2, <1>4, <1>5 DEF Grown

(* One more code.                                                          *)
LEMMA InsertStep ==
  ASSUME TreeDecoderInv, InsertCode, UNCHANGED vars
  PROVE  TreeDecoderInv'
<1>1. IInv'
  BY NextIInv DEF TreeDecoderInv
<1>2. phase = "decode" /\ BuildInv /\ WalkInv /\ at <= MaxDepth /\ j < lens[at - 1] /\ Numbered
  BY DecodeNumbers DEF InsertCode, Building, TreeDecoderInv
<1>a. PICK T, d, k, c, s : T = tree /\ d = at /\ k = j /\ c = icode /\ s = symbol8
  OBVIOUS
<1>3. BuiltTo(T, d, k, c, s) /\ d <= MaxDepth
  BY <1>2, <1>a DEF BuildInv
<1>4. d \in Depths /\ d \in 1..MaxDepth /\ d - 1 \in 0..MaxDepth - 1 /\ (d - 1) + 1 = d
  BY <1>2, <1>3 DEF BuiltTo, Depths, Numbered
<1>5. /\ Start(d) \in Nat /\ first[d].at \in Nat /\ Count(d) \in Nat /\ merged[d + 1] \in Nat
      /\ lens[d - 1] = Count(d)
  BY <1>2, <1>4 DEF Numbered
<1>6. k \in Nat /\ k < Count(d) /\ c = Start(d) + k /\ s = first[d].at
  BY <1>2, <1>3, <1>5, <1>a DEF BuiltTo
<1>7. c \in Numbers(d) /\ IsLeaf(c, d) /\ c \in Nat
  BY <1>5, <1>6 DEF Numbers, IsLeaf
<1>8. symbols[s + k + 1] = Label(c, d)
  <2>1. first[d].at + (c - Start(d)) + 1 = s + k + 1
    BY <1>5, <1>6
  <2> QED
    BY <1>7, <2>1 DEF Label
<1>9. PICK U : U = Inserted(T, c, d, Label(c, d))
  OBVIOUS
<1>10. tree' = U /\ at' = d /\ j' = k + 1 /\ icode' = c + 1 /\ symbol8' = s
  BY <1>8, <1>9, <1>a DEF InsertCode
<1>11. Grown(U) /\ DOMAIN T \subseteq DOMAIN U /\ Path(c, d) \in DOMAIN U
  <2>1. Grown(T)
    BY <1>3 DEF BuiltTo
  <2> QED
    BY <1>2, <1>4, <1>7, <1>9, <2>1, InsertGrows
<1>12. BuiltTo(U, d, k + 1, c + 1, s)
  <2>1. \A e \in 1..d - 1 : Placed(U, e, Start(e) + Count(e))
    BY <1>3, <1>11 DEF BuiltTo, Placed
  <2>2. Placed(U, d, c + 1)
    <3>1. \A m \in Nat : m < c + 1 => m < c \/ m = c
      BY <1>7
    <3>2. Placed(T, d, c)
      BY <1>3 DEF BuiltTo
    <3> QED
      BY <1>11, <3>1, <3>2 DEF Placed, Numbers
  <2>3. d \in 1..MaxDepth + 1 /\ k + 1 \in Nat /\ k + 1 <= Count(d) /\ c + 1 = Start(d) + (k + 1)
    BY <1>2, <1>4, <1>5, <1>6 DEF Numbered
  <2> QED
    BY <1>6, <1>11, <2>1, <2>2, <2>3 DEF BuiltTo
<1>13. BuildInv'
  <2>1. UNCHANGED <<depths, merged, first, symbols>>
    BY DEF vars
  <2> QED
    BY <1>10, <1>12, <2>1, BuildKept, Zenon
<1>14. WalkInv' /\ phase' = "decode"
  BY <1>2 DEF WalkInv, InsertCode, vars
<1> QED
  BY <1>1, <1>13, <1>14 DEF TreeDecoderInv

(* The next length.                                                        *)
LEMMA NextLengthStep ==
  ASSUME TreeDecoderInv, NextLength, UNCHANGED vars
  PROVE  TreeDecoderInv'
<1>1. IInv'
  BY NextIInv DEF TreeDecoderInv
<1>2. phase = "decode" /\ BuildInv /\ WalkInv /\ at <= MaxDepth /\ j = lens[at - 1] /\ Numbered
  BY DecodeNumbers DEF NextLength, Building, TreeDecoderInv
<1>a. PICK T, d, k, c, s : T = tree /\ d = at /\ k = j /\ c = icode /\ s = symbol8
  OBVIOUS
<1>3. BuiltTo(T, d, k, c, s) /\ d <= MaxDepth
  BY <1>2, <1>a DEF BuildInv
<1>4. d \in Depths /\ d \in 1..MaxDepth /\ d - 1 \in 0..MaxDepth - 1 /\ (d - 1) + 1 = d
  BY <1>2, <1>3 DEF BuiltTo, Depths, Numbered
<1>5. /\ Start(d) \in Nat /\ first[d].at \in Nat /\ Count(d) \in Nat
      /\ lens[d - 1] = Count(d)
  BY <1>2, <1>4 DEF Numbered
<1>6. c = Start(d) + Count(d) /\ s = first[d].at /\ k = Count(d)
  BY <1>2, <1>3, <1>5, <1>a DEF BuiltTo
<1>b. PICK e, u, v : e = d + 1 /\ u = 2 * c /\ v = s + Count(d)
  OBVIOUS
<1>7. tree' = T /\ at' = e /\ j' = 0 /\ icode' = u /\ symbol8' = v
  BY <1>5, <1>a, <1>b DEF NextLength
<1>8. e <= MaxDepth => u = Start(e) + 0 /\ v = first[e].at /\ 0 <= Count(e)
  <2> SUFFICES ASSUME e <= MaxDepth PROVE u = Start(e) + 0 /\ v = first[e].at /\ 0 <= Count(e)
    OBVIOUS
  <2>1. d \in 0..MaxDepth - 1 /\ e \in Depths
    BY <1>2, <1>4, <1>b DEF Numbered, Depths
  <2>2. Start(e) = 2 * (Start(d) + Count(d)) /\ first[e].at = first[d].at + Count(d)
    BY <1>2, <1>b, <2>1 DEF Numbered
  <2>3. Start(e) \in Nat /\ Count(e) \in Nat
    BY <1>2, <2>1 DEF Numbered
  <2> QED
    BY <1>6, <1>b, <2>2, <2>3
<1>9. \A x \in 1..e - 1 : Placed(T, x, Start(x) + Count(x))
  <2>1. \A x \in 1..e - 1 : x \in 1..d - 1 \/ x = d
    BY <1>4, <1>b
  <2> QED
    BY <1>3, <1>6, <2>1 DEF BuiltTo
<1>10. e <= MaxDepth => Placed(T, e, u)
  <2> SUFFICES ASSUME e <= MaxDepth, NEW m \in Numbers(e), m < u PROVE FALSE
    BY DEF Placed
  <2>1. e \in Depths
    BY <1>2, <1>4, <1>b DEF Numbered, Depths
  <2>2. Start(e) \in Nat /\ u = Start(e)
    BY <1>2, <1>8, <2>1 DEF Numbered
  <2> QED
    BY <2>2 DEF Numbers
<1>11. BuiltTo(T, e, 0, u, v)
  <2>1. e \in 1..MaxDepth + 1 /\ Grown(T)
    BY <1>2, <1>3, <1>4, <1>b DEF BuiltTo, Numbered
  <2> QED
    BY <1>8, <1>9, <1>10, <2>1 DEF BuiltTo
<1>12. BuildInv'
  <2>1. UNCHANGED <<depths, merged, first, symbols>>
    BY DEF vars
  <2> QED
    BY <1>7, <1>11, <2>1, BuildKept, Zenon
<1>13. WalkInv' /\ phase' = "decode"
  BY <1>2 DEF WalkInv, NextLength, vars
<1> QED
  BY <1>1, <1>12, <1>13 DEF TreeDecoderInv

(* Once every leaf is in the tree every node is: the tree is full.         *)
LEMMA AllNodes ==
  ASSUME Numbered, NEW T, Grown(T), \A d \in 1..MaxDepth : Placed(T, d, Start(d) + Count(d))
  PROVE  \A d \in Depths : \A n \in Numbers(d) : Path(n, d) \in DOMAIN T
<1> DEFINE Q == {k \in 0..MaxDepth : \A n \in Numbers(MaxDepth - k) : Path(n, MaxDepth - k) \in DOMAIN T}
<1>0. MaxDepth \in Nat /\ MaxDepth >= 1
  BY DEF Numbered
<1>1. ASSUME NEW d \in Depths, NEW n \in Numbers(d), IsLeaf(n, d) PROVE Path(n, d) \in DOMAIN T
  <2>1. d # 0
    <3> SUFFICES ASSUME d = 0 PROVE FALSE
      OBVIOUS
    <3>1. n = 0 /\ ~ IsLeaf(0, 0)
      BY Root
    <3> QED
      BY <1>1, <3>1
  <2>2. d \in 1..MaxDepth
    BY <1>0, <2>1 DEF Depths
  <2>3. n < Start(d) + Count(d) /\ Placed(T, d, Start(d) + Count(d))
    BY <1>1, <2>2 DEF IsLeaf
  <2> QED
    BY <1>1, <2>3 DEF Placed
<1>2. 0 \in Q
  <2>1. MaxDepth - 0 = MaxDepth /\ MaxDepth \in Depths /\ ~ (MaxDepth < MaxDepth)
    BY <1>0 DEF Depths
  <2>2. \A n \in Numbers(MaxDepth) : IsLeaf(n, MaxDepth)
    BY <2>1, Leaves
  <2> QED
    BY <1>0, <1>1, <2>1, <2>2
<1>3. ASSUME NEW k \in 0..MaxDepth - 1, k \in Q PROVE k + 1 \in Q
  <2>1. PICK d : d = MaxDepth - (k + 1)
    OBVIOUS
  <2>2. d \in Depths /\ d \in Nat /\ MaxDepth - k = d + 1 /\ k + 1 \in 0..MaxDepth
    BY <1>0, <2>1 DEF Depths
  <2>3. ASSUME NEW n \in Numbers(d), ~ IsLeaf(n, d) PROVE Path(n, d) \in DOMAIN T
    <3>1. 0 \in Bits /\ n \in Nat /\ 2 * n + 0 = 2 * n
      BY DEF Bits, Numbers
    <3>2. 2 * n + 0 \in Numbers(d + 1)
      BY <2>2, <2>3, <3>1, Child
    <3>3. Path(2 * n + 0, d + 1) \in DOMAIN T
      BY <1>3, <2>2, <3>2
    <3>4. PICK s, t : s = Path(n, d) /\ t = Path(2 * n + 0, d + 1)
      OBVIOUS
    <3>5. s \in Seq(Bits) /\ t = Append(s, 0)
      BY <2>2, <3>1, <3>4, PathIs, PathNext
    <3>6. s \in Above(t)
      <4>1. Above(t) = Above(s) \cup {s}
        BY <3>1, <3>5, AboveNext, Zenon
      <4> QED
        BY <4>1
    <3> QED
      BY <3>3, <3>4, <3>6 DEF Grown
  <2> QED
    BY <1>1, <2>1, <2>2, <2>3
<1>4. 0..MaxDepth \subseteq Q
  <2> HIDE DEF Q
  <2>1. 0 \in Int /\ MaxDepth \in Int
    BY <1>0
  <2> QED
    BY <1>2, <1>3, <2>1, IntervalIsInductive, Zenon
<1>5. ASSUME NEW d \in Depths, NEW n \in Numbers(d) PROVE Path(n, d) \in DOMAIN T
  <2>1. MaxDepth - d \in Q /\ MaxDepth - (MaxDepth - d) = d
    BY <1>0, <1>4 DEF Depths
  <2> QED
    BY <2>1
<1> QED
  BY <1>5

(* The finished tree has every node, with its label.                       *)
LEMMA BuiltTree ==
  ASSUME Numbered, BuildInv, at > MaxDepth, NEW d \in Depths, NEW n \in Numbers(d)
  PROVE  Path(n, d) \in DOMAIN tree /\ tree[Path(n, d)] = Label(n, d)
<1>1. MaxDepth \in Nat /\ at = MaxDepth + 1 /\ at - 1 = MaxDepth
  BY DEF Numbered, BuildInv, BuiltTo
<1>2. Grown(tree) /\ \A e \in 1..MaxDepth : Placed(tree, e, Start(e) + Count(e))
  BY <1>1 DEF BuildInv, BuiltTo
<1>3. Path(n, d) \in DOMAIN tree
  BY <1>2, AllNodes
<1>4. PICK e \in Depths : \E m \in Numbers(e) : Path(n, d) = Path(m, e) /\ tree[Path(n, d)] = Label(m, e)
  BY <1>2, <1>3 DEF Grown
<1>5. PICK m \in Numbers(e) : Path(n, d) = Path(m, e) /\ tree[Path(n, d)] = Label(m, e)
  BY <1>4
<1>6. d = e /\ n = m
  BY <1>5, OnePath
<1> QED
  BY <1>3, <1>5, <1>6

(* One bit, for both decoders.                                             *)
LEMMA WalkStep ==
  ASSUME TreeDecoderInv, Built, NEW bit \in {0, 1}, CheckBit(bit), Walk(bit)
  PROVE  TreeDecoderInv'
<1>1. IInv'
  <2>1. [Next]_vars
    BY DEF Next
  <2> QED
    BY <2>1, NextIInv DEF TreeDecoderInv
<1>2. phase = "decode" /\ BuildInv /\ WalkInv /\ at > MaxDepth /\ IInv
  BY DEF Built, TreeDecoderInv
<1>3. Numbered /\ DecodePart /\ TreeInv /\ TypeOK
  BY <1>2, DecodeNumbers
<1>4. PICK c, l : c = 2 * code + bit /\ l = len + 1
  OBVIOUS
<1>5. /\ l \in 0..MaxDepth - 1 /\ l + 1 \in 0..MaxDepth /\ c \in Nat
      /\ Start(l + 1) \in Nat /\ first[l + 1].at \in Nat
      /\ base[l] = Start(l + 1) /\ offset[l] = first[l + 1].at
      /\ Start(l + 1) <= c /\ c < Start(l + 1) + Count(l + 1) + merged[l + 2]
      /\ Complete(c, l) <=> IsLeaf(c, l + 1)
  BY <1>3, <1>4, NextBit DEF Start, IsLeaf
<1>a. PICK e : e = l + 1
  OBVIOUS
<1>6. e \in Depths /\ e \in Nat /\ l \in Nat /\ c \in Numbers(e)
  <2>1. (l + 1) + 1 = l + 2
    BY <1>5
  <2> QED
    BY <1>3, <1>5, <1>a, <2>1 DEF Depths, Numbers, Numbered
<1>b. PICK m : m = Append(node, bit)
  OBVIOUS
<1>7. m = Path(c, e)
  <2>1. node = Path(code, l) /\ code \in Nat /\ bit \in Bits
    BY <1>2, <1>3, <1>4 DEF WalkInv, TypeOK, Bits
  <2> QED
    BY <1>4, <1>6, <1>a, <1>b, <2>1, PathNext
<1>8. m \in DOMAIN tree /\ tree[m] = Label(c, e)
  BY <1>2, <1>3, <1>6, <1>7, BuiltTree
<1>9. WalkInv'
  <2>1. CASE IsLeaf(c, e)
    <3>1. Label(c, e) \in Symbol /\ Label(c, e) # NULL
      BY <1>3, <1>6, <2>1, Leaves
    <3>2. node' = <<>> /\ output' = Label(c, e)
      BY <1>8, <1>b, <3>1 DEF Walk, Step
    <3>3. /\ pushed' = [symbol |-> symbols[SymbolIndex(c, l) + 1], length |-> l + 1, code |-> c]
          /\ code' = 0 /\ len' = -1
      BY <1>4, <1>5, <1>a, <2>1 DEF CheckBit
    <3>4. symbols[SymbolIndex(c, l) + 1] = Label(c, e)
      BY <1>5, <1>a, <2>1 DEF SymbolIndex, Label
    <3>5. pushed' \in [symbol : Symbol, length : Nat, code : Nat] /\ pushed'.symbol = Label(c, e)
      BY <1>5, <3>1, <3>3, <3>4
    <3>6. pushed' # NULL
      BY <3>5, DecoderAssumption
    <3>7. Path(0, 0) = <<>> /\ len' + 1 = 0
      BY <1>3, <3>3, Root
    <3> QED
      BY <3>2, <3>3, <3>5, <3>6, <3>7 DEF WalkInv
  <2>2. CASE ~ IsLeaf(c, e)
    <3>1. Label(c, e) = NULL
      BY <1>3, <1>6, <2>2, Leaves
    <3>2. node' = m /\ output' = NULL
      BY <1>8, <1>b, <3>1 DEF Walk, Step
    <3>3. pushed' = NULL /\ code' = c /\ len' = l
      BY <1>4, <1>5, <1>a, <2>2 DEF CheckBit
    <3> QED
      BY <1>7, <1>a, <3>2, <3>3 DEF WalkInv
  <2> QED
    BY <2>1, <2>2
<1>10. BuildInv' /\ phase' = "decode"
  <2>1. /\ UNCHANGED <<depths, merged, first, symbols>>
        /\ UNCHANGED <<tree, at, j, icode, symbol8>> /\ phase' = "decode"
    BY <1>2 DEF CheckBit, Walk
  <2>2. BuiltTo(tree, at, j, icode, symbol8)
    BY <1>2 DEF BuildInv
  <2>3. tree' = tree /\ at' = at /\ j' = j /\ icode' = icode /\ symbol8' = symbol8
    BY <2>1
  <2> QED
    BY <2>1, <2>2, <2>3, BuildKept, Zenon
<1> QED
  BY <1>1, <1>9, <1>10 DEF TreeDecoderInv

LEMMA TreeStutter ==
  ASSUME TreeDecoderInv, UNCHANGED <<vars, treeVars>>
  PROVE  TreeDecoderInv'
<1>0. UNCHANGED vars /\ UNCHANGED treeVars
  OBVIOUS
<1>1. IInv'
  BY <1>0, NextIInv DEF TreeDecoderInv
<1>2. phase' # "decode" => NothingBuilt'
  BY <1>0 DEF TreeDecoderInv, NothingBuilt, treeVars, vars
<1>3. ASSUME phase' = "decode" PROVE BuildInv' /\ WalkInv'
  <2>1. BuildInv /\ WalkInv /\ UNCHANGED <<depths, merged, first, symbols>>
    BY <1>0, <1>3 DEF TreeDecoderInv, vars
  <2>2. BuiltTo(tree, at, j, icode, symbol8)
    BY <2>1 DEF BuildInv
  <2>3. tree' = tree /\ at' = at /\ j' = j /\ icode' = icode /\ symbol8' = symbol8
    BY <1>0 DEF treeVars
  <2>4. BuildInv'
    BY <2>1, <2>2, <2>3, BuildKept, Zenon
  <2>5. WalkInv'
    BY <1>0, <2>1 DEF WalkInv, treeVars, vars
  <2> QED
    BY <2>4, <2>5
<1> QED
  BY <1>1, <1>2, <1>3 DEF TreeDecoderInv

LEMMA NextTreeDecoderInv == TreeDecoderInv /\ [TreeNext]_<<vars, treeVars>> => TreeDecoderInv'
<1> SUFFICES ASSUME TreeDecoderInv, [TreeNext]_<<vars, treeVars>> PROVE TreeDecoderInv'
  OBVIOUS
<1>1. CASE /\ \/ \E S \in SUBSET Unplaced : FindDepth(S)
              \/ EncodeDepth \/ InitLength \/ InitLast
           /\ UNCHANGED treeVars
  BY <1>1, EarlierStep
<1>2. CASE InsertCode /\ UNCHANGED vars
  BY <1>2, InsertStep
<1>3. CASE NextLength /\ UNCHANGED vars
  BY <1>3, NextLengthStep
<1>4. ASSUME Built, NEW bit \in {0, 1}, CheckBit(bit), Walk(bit) PROVE TreeDecoderInv'
  BY <1>4, WalkStep
<1>5. CASE UNCHANGED <<vars, treeVars>>
  BY <1>5, TreeStutter
<1> QED
  BY <1>1, <1>2, <1>3, <1>4, <1>5 DEF TreeNext

-----------------------------------------------------------------------------
LEMMA Agree == TreeDecoderInv => TreeAgrees
<1> SUFFICES ASSUME TreeDecoderInv PROVE TreeAgrees
  OBVIOUS
<1>1. CASE phase # "decode"
  <2>1. NothingBuilt /\ pushed = NULL /\ ~ Built
    BY <1>1 DEF TreeDecoderInv, IInv, Built
  <2>2. DOMAIN tree = {<<>>} /\ tree[<<>>] = NULL /\ Above(<<>>) = {} /\ output = NULL
    BY <2>1 DEF NothingBuilt, huffman_new, Above
  <2> QED
    BY <2>1, <2>2 DEF TreeAgrees
<1>2. CASE phase = "decode"
  <2>1. BuildInv /\ WalkInv /\ IInv /\ Numbered /\ DecodePart /\ TypeOK /\ Grown(tree)
    BY <1>2, DecodeNumbers DEF TreeDecoderInv, BuildInv, BuiltTo
  <2>2. ASSUME NEW p \in DOMAIN tree, NEW q \in Above(p) PROVE tree[q] = NULL
    <3>1. PICK d \in Depths : \E n \in Numbers(d) : p = Path(n, d)
      BY <2>1 DEF Grown
    <3>2. PICK n \in Numbers(d) : p = Path(n, d)
      BY <3>1
    <3>3. PICK e \in Depths : \E m \in Numbers(e) : ~ IsLeaf(m, e) /\ q = Path(m, e)
      BY <2>1, <2>2, <3>2, Ancestors DEF Inners
    <3>4. PICK m \in Numbers(e) : ~ IsLeaf(m, e) /\ q = Path(m, e)
      BY <3>3
    <3>5. q \in DOMAIN tree
      BY <2>1, <2>2 DEF Grown
    <3>6. PICK x \in Depths : \E y \in Numbers(x) : q = Path(y, x) /\ tree[q] = Label(y, x)
      BY <2>1, <3>5 DEF Grown
    <3>7. PICK y \in Numbers(x) : q = Path(y, x) /\ tree[q] = Label(y, x)
      BY <3>6
    <3>8. x = e /\ y = m
      BY <2>1, <3>4, <3>7, OnePath, ZenonT(30)
    <3> QED
      BY <3>4, <3>7, <3>8 DEF Label
  <2>3. ASSUME Built, NEW bit \in {0, 1} PROVE Append(node, bit) \in DOMAIN tree
    <3>1. PICK c, l : c = 2 * code + bit /\ l = len + 1
      OBVIOUS
    <3>2. /\ l \in 0..MaxDepth - 1 /\ l + 1 \in 0..MaxDepth /\ c \in Nat
          /\ Start(l + 1) <= c /\ c < Start(l + 1) + Count(l + 1) + merged[l + 2]
      <4>1. TreeInv
        BY <2>1 DEF IInv
      <4> QED
        BY <2>1, <3>1, <4>1, NextBit DEF Start
    <3>3. l + 1 \in Depths /\ l \in Nat /\ c \in Numbers(l + 1)
      <4>1. (l + 1) + 1 = l + 2
        BY <3>2
      <4> QED
        BY <2>1, <3>2, <4>1 DEF Depths, Numbers, Numbered
    <3>4. Append(node, bit) = Path(c, l + 1)
      <4>1. node = Path(code, l) /\ code \in Nat /\ bit \in Bits
        BY <2>1, <3>1 DEF WalkInv, TypeOK, Bits
      <4> QED
        BY <3>1, <3>3, <4>1, PathNext
    <3>5. at > MaxDepth
      BY <2>3 DEF Built
    <3> QED
      BY <2>1, <3>3, <3>4, <3>5, BuiltTree
  <2> QED
    BY <2>1, <2>2, <2>3 DEF TreeAgrees, WalkInv
<1> QED
  BY <1>1, <1>2

(* For every alphabet and every full tree over it, of any depth: while     *)
(* huffman_tree builds its tree no code comes below another's leaf; once   *)
(* it is built no bit string leads out of it; and huffman_decode_range     *)
(* pushes what huffman_canonical_decode pushes, at the same bits.          *)
THEOREM TreeDecoderAgrees == TreeSpec => []TreeAgrees
<1> QED
  BY TreeInitInv, NextTreeDecoderInv, Agree, PTL DEF TreeSpec
=============================================================================
