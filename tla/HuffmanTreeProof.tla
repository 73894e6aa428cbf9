-------------------------- MODULE HuffmanTreeProof --------------------------
(***************************************************************************)
(* What holds of the Huffman tree for any alphabet and any frequencies.    *)
(***************************************************************************)
EXTENDS HuffmanTree, Induction, SequenceTheorems

-----------------------------------------------------------------------------
(* The inductive invariant.                                                *)

Total == Cardinality(Used)

(* The merged nodes are allocated after the leaves.                        *)
Inner == Total + 1..Len(heap)

Kids(n) == {heap[n].left, heap[n].right}

Injects(q) == \A j, k \in DOMAIN q : q[j] = q[k] => j = k

(* Every node is one node's child at most, and of a node made after it.    *)
HeapInv ==
  /\ phase \in {"sort", "merge", "find", "done"}
  /\ freqs \in [Symbol -> Freq] /\ Total \in Nat
  /\ heap \in Seq(Node)
  /\ phase = "sort" => heap = <<>>
  /\ phase # "sort" =>
       /\ Len(heap) >= Total
       /\ \A k \in 1..Total : heap[k].type = "symbol"
       /\ \A j, k \in 1..Total : heap[j].symbol = heap[k].symbol => j = k
       /\ \A k \in Inner : /\ heap[k].type = "merged" /\ heap[k].left # heap[k].right
                           /\ Kids(k) \subseteq 1..k - 1
       /\ \A j, k \in Inner : Kids(j) \cap Kids(k) # {} => j = k

(* The queues hold the nodes that are no node's child.  None of nodes is   *)
(* more than twice as heavy as any other that waits: the two that make the *)
(* next node weigh at least as much.                                       *)
QueueInv ==
  /\ phase # "merge" => leaves = <<>> /\ nodes = <<>>
  /\ phase = "merge" =>
       /\ leaves \in Seq(1..Total) /\ nodes \in Seq(Inner)
       /\ Injects(leaves) /\ Injects(nodes)
       /\ Len(leaves) + Len(nodes) + Len(heap) = 2 * Total
       /\ Len(heap) > Total => nodes # <<>>
       /\ \A n \in Inner : Kids(n) \cap (Range(leaves) \cup Range(nodes)) = {}
       /\ Ascending(leaves) /\ Ascending(nodes)
       /\ \A y \in Range(nodes), x \in Range(leaves) \cup Range(nodes) :
            heap[y].priority <= 2 * heap[x].priority

(* The variables of find_depth.                                            *)
FindType ==
  /\ tree \in Pointer \cup {0}
  /\ level \in Seq(Pointer \cup {0})
  /\ depths \in Seq(SUBSET Symbol)
  /\ merged \in Seq(Nat)

(* V are the nodes above the level: those find_depth has seen.             *)
Above(V) ==
  /\ V \subseteq Pointer /\ V \cap Range(level) = {}
  /\ \A c \in V \cup Range(level) : c = tree \/ \E n \in V \cap Inner : c \in Kids(n)
  /\ \A n \in V \cap Inner : Kids(n) \subseteq V \cup Range(level)
  /\ \A d \in DOMAIN depths : depths[d] \subseteq {heap[n].symbol : n \in V \cap 1..Total}
  /\ Cardinality(V) + Len(level) = 1 + 2 * Cardinality(V \cap Inner)

(* What find_depth has seen, when there are two leaves or more.            *)
FindInv ==
  /\ phase \in {"sort", "merge"} => tree = 0 /\ level = <<>> /\ depths = <<>> /\ merged = <<>>
  /\ phase \in {"find", "done"} /\ Total >= 2 =>
       /\ Len(heap) = 2 * Total - 1
       /\ tree \in Inner /\ \A n \in Inner : tree \notin Kids(n)
       /\ level \in Seq(Pointer) /\ Injects(level)
       /\ Len(depths) = Len(merged)
       /\ Len(level) = IF merged = <<>> THEN 1 ELSE 2 * merged[Len(merged)]
       /\ depths = <<>> => level = <<tree>>
       /\ phase = "done" <=> level = <<>>
       /\ \E V \in SUBSET Pointer : Above(V)

TreeInv == HeapInv /\ QueueInv /\ FindType /\ FindInv

-----------------------------------------------------------------------------
LEMMA Numbers ==
  ASSUME HeapInv
  PROVE  /\ IsFiniteSet(Symbol) /\ Cardinality(Symbol) \in Nat /\ IsFiniteSet(Used)
         /\ Total <= Cardinality(Symbol) /\ Len(heap) \in Nat /\ DOMAIN heap = 1..Len(heap)
<1>1. IsFiniteSet(Symbol) /\ Used \in SUBSET Symbol
  BY TreeAssumption DEF Used
<1>2. IsFiniteSet(Used) /\ Cardinality(Used) <= Cardinality(Symbol)
  BY <1>1, FS_Subset
<1>3. Len(heap) \in Nat /\ DOMAIN heap = 1..Len(heap)
  BY DEF HeapInv
<1> QED
  BY <1>1, <1>2, <1>3, FS_CardinalityType DEF Total

LEMMA Nodes ==
  ASSUME HeapInv
  PROVE  /\ \A n \in Pointer : /\ heap[n] \in Node /\ heap[n].priority \in Nat
                               /\ heap[n].type = "symbol" => heap[n].symbol \in Symbol
                               /\ heap[n].type \in {"symbol", "merged"}
         /\ phase # "sort" => \A n \in Pointer :
              /\ heap[n].type = "symbol" <=> n \in 1..Total
              /\ heap[n].type = "merged" <=> n \in Inner
<1>1. \A n \in Pointer : heap[n] \in Node
  BY DEF HeapInv, Pointer
<1>2. \A n \in Pointer : /\ heap[n].priority \in Nat /\ heap[n].type \in {"symbol", "merged"}
                         /\ heap[n].type = "symbol" => heap[n].symbol \in Symbol
  BY <1>1 DEF Node
<1>3. ASSUME phase # "sort", NEW n \in Pointer
      PROVE  (heap[n].type = "symbol" <=> n \in 1..Total) /\ (heap[n].type = "merged" <=> n \in Inner)
  <2>1. n \in 1..Total \/ n \in Inner
    BY <1>3, Numbers DEF Pointer, Inner, HeapInv
  <2>2. (n \in 1..Total => heap[n].type = "symbol") /\ (n \in Inner => heap[n].type = "merged")
    BY <1>3 DEF HeapInv
  <2> QED
    BY <2>1, <2>2
<1> QED
  BY <1>1, <1>2, <1>3

LEMMA TreeInit == Init => TreeInv
<1> SUFFICES ASSUME Init PROVE TreeInv
  OBVIOUS
<1>1. Total \in Nat
  <2>1. IsFiniteSet(Symbol) /\ Used \in SUBSET Symbol
    BY TreeAssumption DEF Used
  <2>2. IsFiniteSet(Used)
    BY <2>1, FS_Subset
  <2> QED
    BY <2>2, FS_CardinalityType DEF Total
<1>2. HeapInv
  BY <1>1 DEF Init, HeapInv
<1>3. FindType
  BY DEF Init, FindType
<1> QED
  BY <1>2, <1>3 DEF Init, TreeInv, QueueInv, FindInv

LEMMA SortStep == TreeInv /\ SortLeaves => TreeInv'
<1> SUFFICES ASSUME TreeInv, SortLeaves PROVE TreeInv'
  OBVIOUS
<1>1. /\ phase = "sort" /\ phase' = "merge" /\ UNCHANGED <<freqs, nodes, tree, level, depths, merged>>
      /\ nodes = <<>> /\ freqs \in [Symbol -> Freq] /\ HeapInv
  BY DEF SortLeaves, TreeInv, QueueInv, HeapInv
<1>2. /\ Total' = Total /\ Total \in Nat /\ IsFiniteSet(Used) /\ Used' = Used
  BY <1>1, Numbers DEF Total, Used, HeapInv
<1>3. PICK idx \in [1..Total -> Used] :
        /\ Sorted(idx)
        /\ heap' = [k \in DOMAIN idx |-> symbol(idx[k])]
        /\ leaves' = [k \in DOMAIN idx |-> k]
  BY DEF SortLeaves, Total
<1>4. DOMAIN idx = 1..Total /\ \A k \in 1..Total : idx[k] \in Used /\ idx[k] \in Symbol /\ freqs[idx[k]] \in Nat
  BY <1>1, <1>3, TreeAssumption DEF Used
<1>5. \A j, k \in 1..Total : idx[j] = idx[k] => j = k
  <2>1. Range(idx) = Used
    BY <1>3 DEF Sorted
  <2>2. idx \in Surjection(1..Total, Used)
    BY <1>3, <1>4, <2>1 DEF Surjection, Range
  <2>3. IsFiniteSet(1..Total) /\ Cardinality(1..Total) = Cardinality(Used)
    <3>1. 1 \in Int /\ Total \in Int /\ Total >= 0
      BY <1>2
    <3> QED
      BY <3>1, FS_Interval DEF Total
  <2>4. idx \in Injection(1..Total, Used)
    BY <2>2, <2>3, FS_SurjSameCardinalityImpliesInj
  <2> QED
    BY <2>4 DEF Injection, IsInjective
<1>6. /\ heap' \in Seq(Node) /\ Len(heap') = Total
      /\ \A k \in 1..Total : /\ heap'[k].type = "symbol" /\ heap'[k].symbol = idx[k]
                             /\ heap'[k].priority = freqs[idx[k]]
  <2>1. \A k \in 1..Total : symbol(idx[k]) \in Node
    BY <1>4 DEF symbol, Node
  <2>2. heap' \in [1..Total -> Node]
    BY <1>3, <1>4, <2>1
  <2>3. heap' \in Seq(Node) /\ Len(heap') = Total
    BY <1>2, <2>2
  <2> QED
    BY <1>3, <1>4, <2>3 DEF symbol
<1>7. /\ leaves' \in Seq(1..Total) /\ Len(leaves') = Total
      /\ \A k \in 1..Total : leaves'[k] = k
  <2>1. leaves' \in [1..Total -> 1..Total]
    BY <1>3, <1>4
  <2> QED
    BY <1>2, <1>3, <1>4, <2>1
<1>8. Inner' = {}
  BY <1>2, <1>6 DEF Inner
<1>9. HeapInv'
  BY <1>1, <1>2, <1>4, <1>5, <1>6, <1>8 DEF HeapInv
<1>10. QueueInv'
  <2>1. DOMAIN leaves' = 1..Total
    BY <1>7
  <2>2. Injects(leaves)'
    BY <1>7, <2>1 DEF Injects
  <2>3. nodes' = <<>> /\ nodes' \in Seq(Inner') /\ Injects(nodes)' /\ Ascending(nodes)' /\ Len(nodes') = 0
    BY <1>1 DEF Injects, Ascending
  <2>4. Ascending(leaves)'
    BY <1>3, <1>4, <1>6, <1>7, <2>1 DEF Sorted, Ascending
  <2>5. Range(nodes') = {}
    BY <2>3 DEF Range
  <2>6. Len(leaves') + Len(nodes') + Len(heap') = 2 * Total'
    BY <1>2, <1>6, <1>7, <2>3
  <2>7. ~ (Len(heap') > Total')
    BY <1>2, <1>6
  <2> QED
    BY <1>1, <1>2, <1>7, <1>8, <2>2, <2>3, <2>4, <2>5, <2>6, <2>7 DEF QueueInv
<1>11. FindType' /\ FindInv'
  <2>1. tree = 0 /\ level = <<>> /\ depths = <<>> /\ merged = <<>>
    BY <1>1 DEF TreeInv, FindInv
  <2> QED
    BY <1>1, <2>1 DEF FindType, FindInv
<1> QED
  BY <1>9, <1>10, <1>11 DEF TreeInv

Weight(n) == heap[n].priority

(* What take_lowest takes of two ascending queues is the lightest of all   *)
(* that wait in them, and the rest stays as it was.                        *)
LEMMA HeadIsLowest ==
  ASSUME NEW P, NEW q \in Seq(P), q # <<>>, Injects(q), Ascending(q)
  PROVE  /\ Head(q) \in P /\ Head(q) \in Range(q)
         /\ Tail(q) \in Seq(P) /\ Len(Tail(q)) = Len(q) - 1
         /\ Range(Tail(q)) \subseteq Range(q) /\ Head(q) \notin Range(Tail(q))
         /\ Injects(Tail(q)) /\ Ascending(Tail(q))
         /\ \A x \in Range(q) : x = Head(q) \/ Weight(Head(q)) <= Weight(x)
<1> DEFINE t == Tail(q)
<1>1. /\ Len(q) \in Nat /\ Len(q) # 0 /\ DOMAIN q = 1..Len(q) /\ Head(q) = q[1] /\ Head(q) \in P
      /\ 1 \in 1..Len(q)
  BY LenProperties
<1>2. /\ t \in Seq(P) /\ Len(t) = Len(q) - 1 /\ DOMAIN t = 1..Len(q) - 1
      /\ \A k \in 1..Len(q) - 1 : t[k] = q[k + 1]
  BY HeadTailProperties, LenProperties
<1> HIDE DEF t
<1>3. \A k \in 1..Len(q) - 1 : k + 1 \in 1..Len(q) /\ k + 1 # 1
  BY <1>1
<1>4. Range(t) \subseteq Range(q)
  BY <1>1, <1>2, <1>3 DEF Range
<1>5. Head(q) \notin Range(t)
  BY <1>1, <1>2, <1>3, SMTT(30) DEF Range, Injects
<1>6. Injects(t)
  <2> SUFFICES ASSUME NEW j \in 1..Len(q) - 1, NEW k \in 1..Len(q) - 1, t[j] = t[k] PROVE j = k
    BY <1>2 DEF Injects
  <2>1. q[j + 1] = q[k + 1] /\ j + 1 \in 1..Len(q) /\ k + 1 \in 1..Len(q)
    BY <1>2, <1>3
  <2>2. j + 1 = k + 1
    BY <1>1, <2>1 DEF Injects
  <2> QED
    BY <1>1, <2>2
<1>7. Ascending(t)
  <2> SUFFICES ASSUME NEW j \in 1..Len(q) - 1, NEW k \in 1..Len(q) - 1, j < k
               PROVE  heap[t[j]].priority <= heap[t[k]].priority
    BY <1>2 DEF Ascending
  <2>1. j + 1 \in 1..Len(q) /\ k + 1 \in 1..Len(q) /\ j + 1 < k + 1
    BY <1>1, <1>3
  <2>2. heap[q[j + 1]].priority <= heap[q[k + 1]].priority
    BY <1>1, <2>1 DEF Ascending
  <2> QED
    BY <1>2, <2>2
<1>8. ASSUME NEW x \in Range(q) PROVE x = Head(q) \/ Weight(Head(q)) <= Weight(x)
  <2>1. PICK k \in 1..Len(q) : x = q[k]
    BY <1>1 DEF Range
  <2>2. k = 1 \/ 1 < k
    BY <1>1
  <2> QED
    BY <1>1, <2>1, <2>2 DEF Ascending, Weight
<1>9. Head(q) \in Range(q)
  BY <1>1 DEF Range
<1> QED
  BY <1>1, <1>2, <1>4, <1>5, <1>6, <1>7, <1>8, <1>9 DEF t

Waiting(P, R, a, b) ==
  /\ a \in Seq(P) /\ b \in Seq(R)
  /\ P \subseteq Pointer /\ R \subseteq Pointer /\ P \cap R = {}
  /\ Injects(a) /\ Injects(b) /\ Ascending(a) /\ Ascending(b)

Lightest(a, b, t) ==
  /\ Len(t.a) + Len(t.b) = Len(a) + Len(b) - 1
  /\ Range(t.a) \subseteq Range(a) /\ Range(t.b) \subseteq Range(b)
  /\ t.node \in Range(a) \cup Range(b) /\ t.node \notin Range(t.a) \cup Range(t.b)
  /\ \A x \in Range(a) \cup Range(b) : Weight(t.node) <= Weight(x)

LEMMA Taken ==
  ASSUME HeapInv, NEW P, NEW R, NEW a, NEW b, Waiting(P, R, a, b), Len(a) + Len(b) > 0,
         NEW t, t = take_lowest(a, b)
  PROVE  Waiting(P, R, t.a, t.b) /\ Lightest(a, b, t) /\ t.node \in P \cup R
<1>0. /\ a \in Seq(P) /\ b \in Seq(R)
      /\ P \subseteq Pointer /\ R \subseteq Pointer /\ P \cap R = {}
      /\ Injects(a) /\ Injects(b) /\ Ascending(a) /\ Ascending(b)
  BY DEF Waiting
<1>1. Len(a) \in Nat /\ Len(b) \in Nat /\ (a = <<>> <=> Len(a) = 0) /\ (b = <<>> <=> Len(b) = 0)
  BY <1>0, LenProperties
<1>2. Range(a) \subseteq P /\ Range(b) \subseteq R
  BY <1>0, LenProperties DEF Range
<1>3. \A n \in P \cup R : Weight(n) \in Nat
  BY <1>0, Nodes DEF Weight
<1>4. (a = <<>> => Range(a) = {}) /\ (b = <<>> => Range(b) = {})
  BY DEF Range
<1>5. CASE FromLeaves(a, b)
  <2>1. a # <<>>
    BY <1>1, <1>5 DEF FromLeaves
  <2>2. t.node = Head(a) /\ t.a = Tail(a) /\ t.b = b
    BY <1>5 DEF take_lowest
  <2>3. /\ Head(a) \in P /\ Head(a) \in Range(a)
        /\ Tail(a) \in Seq(P) /\ Len(Tail(a)) = Len(a) - 1
        /\ Range(Tail(a)) \subseteq Range(a) /\ Head(a) \notin Range(Tail(a))
        /\ Injects(Tail(a)) /\ Ascending(Tail(a))
        /\ \A x \in Range(a) : x = Head(a) \/ Weight(Head(a)) <= Weight(x)
    BY <1>0, <2>1, HeadIsLowest
  <2>4. ASSUME NEW x \in Range(a) \cup Range(b) PROVE Weight(Head(a)) <= Weight(x)
    <3>1. CASE x \in Range(a)
      BY <1>3, <2>3, <3>1
    <3>2. CASE x \in Range(b)
      <4>1. b # <<>>
        BY <1>4, <3>2
      <4>2. Weight(Head(b)) >= Weight(Head(a))
        BY <1>5, <4>1 DEF FromLeaves, Weight
      <4>3. Head(b) \in R /\ (x = Head(b) \/ Weight(Head(b)) <= Weight(x))
        BY <1>0, <3>2, <4>1, HeadIsLowest
      <4> QED
        BY <1>2, <1>3, <2>3, <3>2, <4>2, <4>3
    <3> QED
      BY <3>1, <3>2
  <2>5. Head(a) \notin Range(b)
    BY <1>0, <1>2, <2>3
  <2>6. Len(Tail(a)) + Len(b) = Len(a) + Len(b) - 1
    BY <1>1, <2>3
  <2> QED
    BY <1>0, <2>2, <2>3, <2>4, <2>5, <2>6 DEF Waiting, Lightest
<1>6. CASE ~ FromLeaves(a, b)
  <2>1. b # <<>>
    BY <1>6 DEF FromLeaves
  <2>2. t.node = Head(b) /\ t.a = a /\ t.b = Tail(b)
    BY <1>6 DEF take_lowest
  <2>3. /\ Head(b) \in R /\ Head(b) \in Range(b)
        /\ Tail(b) \in Seq(R) /\ Len(Tail(b)) = Len(b) - 1
        /\ Range(Tail(b)) \subseteq Range(b) /\ Head(b) \notin Range(Tail(b))
        /\ Injects(Tail(b)) /\ Ascending(Tail(b))
        /\ \A x \in Range(b) : x = Head(b) \/ Weight(Head(b)) <= Weight(x)
    BY <1>0, <2>1, HeadIsLowest
  <2>4. ASSUME NEW x \in Range(a) \cup Range(b) PROVE Weight(Head(b)) <= Weight(x)
    <3>1. CASE x \in Range(b)
      BY <1>3, <2>3, <3>1
    <3>2. CASE x \in Range(a)
      <4>1. a # <<>>
        BY <1>4, <3>2
      <4>2. ~ (Weight(Head(b)) >= Weight(Head(a)))
        BY <1>6, <4>1 DEF FromLeaves, Weight
      <4>3. Head(a) \in P /\ (x = Head(a) \/ Weight(Head(a)) <= Weight(x))
        BY <1>0, <3>2, <4>1, HeadIsLowest
      <4> QED
        BY <1>2, <1>3, <2>3, <3>2, <4>2, <4>3
    <3> QED
      BY <3>1, <3>2
  <2>5. Head(b) \notin Range(a)
    BY <1>0, <1>2, <2>3
  <2>6. Len(a) + Len(Tail(b)) = Len(a) + Len(b) - 1
    BY <1>1, <2>3
  <2> QED
    BY <1>0, <2>2, <2>3, <2>4, <2>5, <2>6 DEF Waiting, Lightest
<1> QED
  BY <1>5, <1>6

LEMMA LessByOne ==
  ASSUME NEW x \in Nat, NEW y \in Nat, NEW u \in Nat, NEW v \in Nat, u + v = x + y - 1
  PROVE  x + y > 1 => u + v > 0
OBVIOUS

LEMMA MergeStep == TreeInv /\ MergeLowest => TreeInv'
<1> SUFFICES ASSUME TreeInv, MergeLowest PROVE TreeInv'
  OBVIOUS
<1>1. /\ phase = "merge" /\ Len(leaves) + Len(nodes) > 1
      /\ UNCHANGED <<phase, freqs, tree, level, depths, merged>> /\ HeapInv
  BY DEF MergeLowest, TreeInv
<1>2. /\ leaves \in Seq(1..Total) /\ nodes \in Seq(Inner)
      /\ Injects(leaves) /\ Injects(nodes)
      /\ Len(leaves) + Len(nodes) + Len(heap) = 2 * Total
      /\ \A n \in Inner : Kids(n) \cap (Range(leaves) \cup Range(nodes)) = {}
      /\ Ascending(leaves) /\ Ascending(nodes)
      /\ \A y \in Range(nodes), x \in Range(leaves) \cup Range(nodes) : Weight(y) <= 2 * Weight(x)
  BY <1>1 DEF TreeInv, QueueInv, Weight
<1>3. /\ Total \in Nat /\ heap \in Seq(Node) /\ Len(heap) \in Nat /\ Len(heap) >= Total
      /\ \A k \in 1..Total : heap[k].type = "symbol"
      /\ \A j, k \in 1..Total : heap[j].symbol = heap[k].symbol => j = k
      /\ \A k \in Inner : /\ heap[k].type = "merged" /\ heap[k].left # heap[k].right
                          /\ Kids(k) \subseteq 1..k - 1
      /\ \A j, k \in Inner : Kids(j) \cap Kids(k) # {} => j = k
  BY <1>1, Numbers DEF HeapInv
<1>a. PICK a : a = take_lowest(leaves, nodes)
  OBVIOUS
<1>b. PICK b : b = take_lowest(a.a, a.b)
  OBVIOUS
<1>4. 1..Total \subseteq Pointer /\ Inner \subseteq Pointer /\ (1..Total) \cap Inner = {}
  BY <1>3 DEF Pointer, Inner
<1>5. /\ Waiting(1..Total, Inner, a.a, a.b) /\ Lightest(leaves, nodes, a)
      /\ a.node \in (1..Total) \cup Inner
  <2>1. Len(leaves) + Len(nodes) > 0
    <3>1. Len(leaves) \in Nat /\ Len(nodes) \in Nat
      BY <1>2, LenProperties
    <3>2. Len(leaves) + Len(nodes) > 1
      BY <1>1
    <3> QED
      BY <3>1, <3>2
  <2>2. Waiting(1..Total, Inner, leaves, nodes)
    BY <1>2, <1>4 DEF Waiting
  <2> QED
    BY <1>a, <1>1, <2>1, <2>2, Taken, Zenon
<1>6. /\ Waiting(1..Total, Inner, b.a, b.b) /\ Lightest(a.a, a.b, b)
      /\ b.node \in (1..Total) \cup Inner
  <2>1. Len(a.a) + Len(a.b) > 0
    <3>1. Len(leaves) \in Nat /\ Len(nodes) \in Nat
      BY <1>2, LenProperties
    <3>2. Len(leaves) + Len(nodes) > 1
      BY <1>1
    <3>3. Len(a.a) + Len(a.b) = Len(leaves) + Len(nodes) - 1
      BY <1>5 DEF Lightest
    <3>4. Len(a.a) \in Nat /\ Len(a.b) \in Nat
      BY <1>5, LenProperties DEF Waiting
    <3> QED
      BY <3>1, <3>2, <3>3, <3>4, LessByOne
  <2> QED
    BY <1>b, <1>1, <1>5, <2>1, Taken, Zenon
<1>c. /\ Len(a.a) + Len(a.b) = Len(leaves) + Len(nodes) - 1
      /\ Range(a.a) \subseteq Range(leaves) /\ Range(a.b) \subseteq Range(nodes)
      /\ a.node \in Range(leaves) \cup Range(nodes) /\ a.node \notin Range(a.a) \cup Range(a.b)
      /\ \A x \in Range(leaves) \cup Range(nodes) : Weight(a.node) <= Weight(x)
  BY <1>5 DEF Lightest
<1>d. /\ Len(b.a) + Len(b.b) = Len(a.a) + Len(a.b) - 1
      /\ Range(b.a) \subseteq Range(a.a) /\ Range(b.b) \subseteq Range(a.b)
      /\ b.node \in Range(a.a) \cup Range(a.b) /\ b.node \notin Range(b.a) \cup Range(b.b)
      /\ \A x \in Range(a.a) \cup Range(a.b) : Weight(b.node) <= Weight(x)
  BY <1>6 DEF Lightest
<1>e. /\ b.a \in Seq(1..Total) /\ b.b \in Seq(Inner)
      /\ Injects(b.a) /\ Injects(b.b) /\ Ascending(b.a) /\ Ascending(b.b)
  BY <1>6 DEF Waiting
<1>7. PICK m : m = merge(a.node, b.node, heap)
  OBVIOUS
<1>8. PICK n : n = Len(heap) + 1
  OBVIOUS
<1>9. heap' = Append(heap, m) /\ leaves' = b.a /\ nodes' = Append(b.b, n)
  BY <1>a, <1>b, <1>7, <1>8 DEF MergeLowest
<1>10. /\ a.node \in Pointer /\ b.node \in Pointer /\ a.node # b.node
       /\ Weight(a.node) \in Nat /\ Weight(b.node) \in Nat
  <2>1. a.node \in Pointer /\ b.node \in Pointer /\ a.node # b.node
    BY <1>4, <1>5, <1>6, <1>c, <1>d
  <2> QED
    BY <1>1, <2>1, Nodes DEF Weight
<1>11. /\ m \in Node /\ m.type = "merged" /\ m.left = a.node /\ m.right = b.node
       /\ m.priority = Weight(a.node) + Weight(b.node)
  <2>1. m = [type |-> "merged", left |-> a.node, right |-> b.node,
             priority |-> Weight(a.node) + Weight(b.node)]
    BY <1>7 DEF merge, Weight
  <2>2. a.node \in Nat /\ b.node \in Nat /\ Weight(a.node) + Weight(b.node) \in Nat
    BY <1>3, <1>10 DEF Pointer
  <2> QED
    BY <2>1, <2>2 DEF Node
<1>12. /\ heap' \in Seq(Node) /\ Len(heap') = n /\ heap'[n] = m
       /\ \A k \in Pointer : heap'[k] = heap[k] /\ k # n
  BY <1>3, <1>8, <1>9, <1>11, AppendProperties DEF Pointer
<1>13. Total' = Total /\ Inner' = Inner \cup {n} /\ n \notin Inner /\ n \notin 1..Total
  <2>1. Total' = Total
    BY <1>1 DEF Total, Used
  <2> QED
    BY <1>3, <1>8, <1>12, <2>1 DEF Inner
<1>14. /\ Kids(n)' = {a.node, b.node}
       /\ \A k \in Inner : Kids(k)' = Kids(k)
  BY <1>4, <1>11, <1>12 DEF Kids
<1>15. HeapInv'
  <2>1. phase' = phase /\ freqs' = freqs /\ freqs \in [Symbol -> Freq] /\ phase # "sort"
    BY <1>1 DEF HeapInv
  <2>2. Len(heap') >= Total'
    BY <1>3, <1>8, <1>12, <1>13
  <2>3. \A k \in 1..Total : heap'[k] = heap[k]
    BY <1>4, <1>12
  <2>4. ASSUME NEW k \in Inner'
        PROVE  /\ heap'[k].type = "merged" /\ heap'[k].left # heap'[k].right
               /\ Kids(k)' \subseteq 1..k - 1
    <3>1. CASE k = n
      <4>1. a.node \in 1..n - 1 /\ b.node \in 1..n - 1
        BY <1>3, <1>8, <1>10 DEF Pointer
      <4> QED
        BY <1>10, <1>11, <1>12, <1>14, <3>1, <4>1
    <3>2. CASE k # n
      <4>1. k \in Inner /\ k \in Pointer
        BY <1>4, <1>13, <3>2
      <4> QED
        BY <1>3, <1>12, <1>14, <4>1
    <3> QED
      BY <3>1, <3>2
  <2>5. ASSUME NEW j \in Inner', NEW k \in Inner', Kids(j)' \cap Kids(k)' # {} PROVE j = k
    <3>1. \A i \in Inner : Kids(i)' \cap Kids(n)' = {}
      BY <1>2, <1>c, <1>d, <1>14
    <3>2. (j \in Inner \/ j = n) /\ (k \in Inner \/ k = n)
      BY <1>13
    <3>3. j \in Inner /\ k \in Inner => j = k
      BY <1>3, <1>14, <2>5
    <3> QED
      BY <2>5, <3>1, <3>2, <3>3
  <2>6. \A k \in 1..Total' : heap'[k].type = "symbol"
    BY <1>3, <1>13, <2>3
  <2>7. \A j, k \in 1..Total' : heap'[j].symbol = heap'[k].symbol => j = k
    BY <1>3, <1>13, <2>3
  <2>8. heap' \in Seq(Node) /\ Total' \in Nat
    BY <1>3, <1>12, <1>13
  <2>9. phase' \in {"sort", "merge", "find", "done"} /\ phase' # "sort"
    BY <1>1
  <2> QED
    BY <2>1, <2>2, <2>4, <2>5, <2>6, <2>7, <2>8, <2>9 DEF HeapInv
<1>16. QueueInv'
  <2>1. /\ nodes' \in Seq(Inner') /\ Len(nodes') = Len(b.b) + 1 /\ nodes' # <<>>
        /\ (\A k \in 1..Len(b.b) : nodes'[k] = b.b[k]) /\ nodes'[Len(b.b) + 1] = n
        /\ Len(b.b) \in Nat /\ DOMAIN b.b = 1..Len(b.b) /\ DOMAIN nodes' = 1..Len(b.b) + 1
    <3>1. b.b \in Seq(Inner') /\ n \in Inner'
      BY <1>e, <1>13
    <3> QED
      BY <1>9, <3>1, AppendProperties, LenProperties
  <2>2. b.a \in Seq(1..Total) /\ Len(b.a) \in Nat /\ DOMAIN b.a = 1..Len(b.a)
    BY <1>e, LenProperties
  <2>3. /\ Range(b.a) \subseteq 1..Total /\ Range(b.b) \subseteq Inner
        /\ Range(nodes') = Range(b.b) \cup {n}
    <3>1. Range(b.a) \subseteq 1..Total /\ Range(b.b) \subseteq Inner
      <4>1. \A k \in 1..Len(b.a) : b.a[k] \in 1..Total
        <5>1. b.a \in Seq(1..Total)
          BY <1>e
        <5> QED
          BY <5>1, ElementOfSeq
      <4>2. \A k \in 1..Len(b.b) : b.b[k] \in Inner
        BY <1>e
      <4> QED
        BY <2>1, <2>2, <4>1, <4>2 DEF Range
    <3>2. Range(nodes') \subseteq Range(b.b) \cup {n}
      BY <2>1 DEF Range
    <3>3. Range(b.b) \cup {n} \subseteq Range(nodes')
      BY <2>1 DEF Range
    <3> QED
      BY <3>1, <3>2, <3>3
  <2>4. Injects(nodes)'
    <3> SUFFICES ASSUME NEW j \in 1..Len(b.b) + 1, NEW k \in 1..Len(b.b) + 1, nodes'[j] = nodes'[k]
                 PROVE  j = k
      BY <2>1 DEF Injects
    <3>1. \A i \in 1..Len(b.b) : nodes'[i] = b.b[i] /\ b.b[i] # n
      BY <1>13, <2>1, <2>3 DEF Range
    <3>2. \A i \in 1..Len(b.b) + 1 : i \in 1..Len(b.b) \/ i = Len(b.b) + 1
      BY <2>1
    <3> QED
      BY <1>e, <2>1, <3>1, <3>2 DEF Injects
  <2>5. Injects(leaves)'
    BY <1>e, <1>9 DEF Injects
  <2>6. Len(leaves') + Len(nodes') + Len(heap') = 2 * Total'
    <3>1. Len(b.a) + Len(b.b) = Len(a.a) + Len(a.b) - 1
      BY <1>d
    <3>2. Len(a.a) + Len(a.b) = Len(leaves) + Len(nodes) - 1
      BY <1>c
    <3>3. Len(leaves) \in Nat /\ Len(nodes) \in Nat
      BY <1>2, LenProperties
    <3>4. Len(leaves) + Len(nodes) + Len(heap) = 2 * Total
      BY <1>2
    <3>5. Len(leaves') = Len(b.a) /\ Len(nodes') = Len(b.b) + 1 /\ Len(heap') = Len(heap) + 1 /\ Total' = Total
      BY <1>8, <1>9, <1>12, <1>13, <2>1
    <3>6. Len(b.a) \in Nat /\ Len(b.b) \in Nat /\ Total \in Nat /\ Len(heap) \in Nat
      BY <1>3, <2>1, <2>2
    <3>7. Len(a.a) \in Nat /\ Len(a.b) \in Nat
      BY <1>5, LenProperties DEF Waiting
    <3>8. Len(b.a) + (Len(b.b) + 1) + (Len(heap) + 1) = 2 * Total
      <4>1. PICK c, d, u, v : c = Len(b.a) /\ d = Len(b.b) /\ u = Len(a.a) /\ v = Len(a.b)
        OBVIOUS
      <4>2. PICK x, y, h, t : x = Len(leaves) /\ y = Len(nodes) /\ h = Len(heap) /\ t = Total
        OBVIOUS
      <4>3. c \in Nat /\ d \in Nat /\ u \in Nat /\ v \in Nat
        BY <3>6, <3>7, <4>1
      <4>4. x \in Nat /\ y \in Nat /\ h \in Nat /\ t \in Nat
        BY <3>3, <3>6, <4>2
      <4>5. c + d = u + v - 1
        BY <3>1, <4>1
      <4>6. u + v = x + y - 1 /\ x + y + h = 2 * t
        BY <3>2, <3>4, <4>1, <4>2
      <4>7. c + (d + 1) + (h + 1) = 2 * t
        BY <4>3, <4>4, <4>5, <4>6
      <4> QED
        BY <4>1, <4>2, <4>7
    <3> QED
      BY <3>5, <3>8, Zenon
  <2>7. \A x \in Range(b.a) \cup Range(b.b) : /\ x \in Pointer /\ x # n /\ heap'[x] = heap[x]
                                             /\ Weight(x) \in Nat
                                             /\ x \in Range(leaves) \cup Range(nodes)
    <3>1. \A x \in Range(b.a) \cup Range(b.b) : x \in Pointer /\ x \in Range(leaves) \cup Range(nodes)
      BY <1>4, <1>c, <1>d, <2>3
    <3> QED
      BY <1>1, <1>12, <3>1, Nodes DEF Weight
  <2>8. \A x \in Range(b.a) \cup Range(b.b) : Weight(b.node) <= Weight(x)
    BY <1>d
  <2>9. Weight(a.node) <= Weight(b.node)
    BY <1>c, <1>d
  <2>10. \A y \in Range(b.b) : Weight(y) <= 2 * Weight(a.node)
    BY <1>2, <1>c, <1>d
  <2>11. heap'[n].priority = Weight(a.node) + Weight(b.node)
    BY <1>11, <1>12
  <2>12. \A y \in Range(b.b) : heap'[y].priority <= heap'[n].priority
    BY <1>10, <2>7, <2>9, <2>10, <2>11 DEF Weight
  <2>13. Ascending(leaves)'
    <3>1. \A k \in DOMAIN b.a : heap'[b.a[k]] = heap[b.a[k]]
      BY <2>7 DEF Range
    <3> QED
      BY <1>e, <1>9, <3>1 DEF Ascending
  <2>14. Ascending(nodes)'
    <3> SUFFICES ASSUME NEW j \in 1..Len(b.b) + 1, NEW k \in 1..Len(b.b) + 1, j < k
                 PROVE  heap'[nodes'[j]].priority <= heap'[nodes'[k]].priority
      BY <2>1 DEF Ascending
    <3>1. j \in 1..Len(b.b) /\ nodes'[j] = b.b[j] /\ b.b[j] \in Range(b.b)
      BY <2>1 DEF Range
    <3>2. CASE k = Len(b.b) + 1
      BY <2>1, <2>12, <3>1, <3>2
    <3>3. CASE k # Len(b.b) + 1
      <4>1. k \in 1..Len(b.b) /\ nodes'[k] = b.b[k] /\ b.b[k] \in Range(b.b)
        BY <2>1, <3>3 DEF Range
      <4>2. heap'[b.b[j]] = heap[b.b[j]] /\ heap'[b.b[k]] = heap[b.b[k]]
        BY <2>7, <3>1, <4>1
      <4> QED
        BY <1>e, <2>1, <3>1, <4>1, <4>2 DEF Ascending
    <3> QED
      BY <3>2, <3>3
  <2>15. ASSUME NEW y \in Range(nodes'), NEW x \in Range(leaves') \cup Range(nodes')
         PROVE  heap'[y].priority <= 2 * heap'[x].priority
    <3> DEFINE wa == Weight(a.node)
               wb == Weight(b.node)
    <3>1. wa \in Nat /\ wb \in Nat /\ wa <= wb /\ heap'[n].priority = wa + wb
      BY <1>10, <2>9, <2>11
    <3> HIDE DEF wa, wb
    <3>2. (y \in Range(b.b) \/ y = n) /\ (x \in Range(b.a) \cup Range(b.b) \/ x = n)
      BY <1>9, <2>3
    <3>3. CASE x = n
      <4>1. heap'[y].priority <= wa + wb
        BY <2>12, <3>1, <3>2
      <4>2. heap'[y].priority \in Nat
        BY <2>7, <3>1, <3>2 DEF Weight
      <4> QED
        BY <3>1, <3>3, <4>1, <4>2
    <3>4. CASE x # n
      <4>1. heap'[x].priority = Weight(x) /\ Weight(x) \in Nat /\ wb <= Weight(x)
        BY <2>7, <2>8, <3>2, <3>4 DEF Weight, wb
      <4>2. CASE y = n
        BY <3>1, <4>1, <4>2
      <4>3. CASE y # n
        <5>1. y \in Range(b.b) /\ heap'[y].priority = Weight(y) /\ Weight(y) \in Nat
          BY <2>7, <3>2, <4>3 DEF Weight
        <5>2. Weight(y) <= 2 * wa
          BY <2>10, <5>1 DEF wa
        <5> QED
          BY <3>1, <4>1, <5>1, <5>2
      <4> QED
        BY <4>2, <4>3
    <3> QED
      BY <3>3, <3>4
  <2>16. ASSUME NEW k \in Inner' PROVE Kids(k)' \cap (Range(leaves') \cup Range(nodes')) = {}
    <3>1. n \notin Kids(k)'
      BY <1>10, <1>12, <1>13, <1>14, <1>3, <1>4, <1>8 DEF Pointer
    <3>2. CASE k = n
      BY <1>c, <1>d, <1>9, <1>14, <2>3, <3>1, <3>2
    <3>3. CASE k # n
      <4>1. k \in Inner
        BY <1>13, <3>3
      <4> QED
        BY <1>2, <1>9, <1>14, <2>3, <2>7, <3>1, <4>1
    <3> QED
      BY <3>2, <3>3
  <2> QED
    BY <1>1, <1>9, <1>13, <2>1, <2>2, <2>4, <2>5, <2>6, <2>13, <2>14, <2>15, <2>16 DEF QueueInv
<1>17. FindType' /\ FindInv'
  <2>1. tree = 0 /\ level = <<>> /\ depths = <<>> /\ merged = <<>>
    BY <1>1 DEF TreeInv, FindInv
  <2> QED
    BY <1>1, <2>1 DEF FindType, FindInv
<1> QED
  BY <1>15, <1>16, <1>17 DEF TreeInv

LEMMA TakeStep == TreeInv /\ TakeTree => TreeInv'
<1> SUFFICES ASSUME TreeInv, TakeTree PROVE TreeInv'
  OBVIOUS
<1>1. /\ phase = "merge" /\ Len(leaves) + Len(nodes) <= 1 /\ phase' = "find"
      /\ tree' = (IF nodes = <<>> THEN 0 ELSE Head(nodes)) /\ level' = <<tree'>>
      /\ leaves' = <<>> /\ nodes' = <<>>
      /\ UNCHANGED <<freqs, heap, depths, merged>> /\ HeapInv
  BY DEF TakeTree, TreeInv
<1>2. /\ leaves \in Seq(1..Total) /\ nodes \in Seq(Inner)
      /\ Len(leaves) + Len(nodes) + Len(heap) = 2 * Total
      /\ Len(heap) > Total => nodes # <<>>
      /\ \A n \in Inner : Kids(n) \cap (Range(leaves) \cup Range(nodes)) = {}
  BY <1>1 DEF TreeInv, QueueInv
<1>3. depths = <<>> /\ merged = <<>>
  BY <1>1 DEF TreeInv, FindInv
<1>4. Total \in Nat /\ Len(heap) \in Nat /\ Inner \subseteq Pointer
  BY <1>1, Numbers DEF HeapInv, Pointer, Inner
<1>5. Total' = Total /\ Inner' = Inner /\ Pointer' = Pointer /\ \A n : Kids(n)' = Kids(n)
  BY <1>1 DEF Total, Used, Inner, Pointer, Kids
<1>6. HeapInv'
  BY <1>1, <1>5 DEF HeapInv
<1>7. QueueInv'
  BY <1>1 DEF QueueInv
<1>8. /\ Len(leaves) \in Nat /\ Len(nodes) \in Nat
      /\ nodes # <<>> => Len(nodes) # 0 /\ Head(nodes) = nodes[1] /\ 1 \in DOMAIN nodes /\ Head(nodes) \in Inner
  <2>1. Len(leaves) \in Nat /\ Len(nodes) \in Nat
    BY <1>2, LenProperties
  <2>2. ASSUME nodes # <<>>
        PROVE  Len(nodes) # 0 /\ Head(nodes) = nodes[1] /\ 1 \in DOMAIN nodes /\ Head(nodes) \in Inner
    BY <1>2, <2>2
  <2> QED
    BY <2>1, <2>2
<1>9. tree' \in Pointer \cup {0}
  BY <1>1, <1>4, <1>8
<1>10. FindType'
  <2>1. level' \in Seq(Pointer \cup {0})
    BY <1>1, <1>9
  <2> QED
    BY <1>1, <1>3, <1>5, <1>9, <2>1 DEF FindType
<1>11. FindInv'
  <2> SUFFICES ASSUME Total >= 2
               PROVE  FindInv'
    BY <1>1, <1>5 DEF FindInv
  <2>1. nodes # <<>> /\ Len(heap) = 2 * Total - 1
    <3>1. Len(heap) >= 2 * Total - 1
      BY <1>1, <1>2, <1>4, <1>8
    <3>2. Len(heap) > Total
      BY <1>4, <3>1
    <3>3. nodes # <<>> /\ Len(nodes) >= 1
      BY <1>2, <1>8, <3>2
    <3> QED
      BY <1>1, <1>2, <1>4, <1>8, <3>3
  <2>2. tree' \in Inner /\ \A n \in Inner : tree' \notin Kids(n)
    BY <1>1, <1>2, <1>8, <2>1 DEF Range
  <2>3. level' = <<tree'>> /\ level' \in Seq(Pointer) /\ Injects(level)' /\ Len(level') = 1
    BY <1>1, <1>4, <2>2 DEF Injects
  <2>4. Range(level') = {tree'}
    BY <2>3 DEF Range
  <2>5. level' # <<>>
    BY <2>3
  <2>6. {} \in SUBSET Pointer' /\ Above({})'
    <3>1. Cardinality({}) = 0 /\ {} \cap Inner' = {}
      BY FS_EmptySet
    <3> QED
      BY <1>1, <1>3, <2>3, <2>4, <3>1 DEF Above
  <2>7. /\ Len(heap') = 2 * Total' - 1
        /\ tree' \in Inner' /\ \A n \in Inner' : tree' \notin Kids(n)'
        /\ level' \in Seq(Pointer')
        /\ Len(depths') = Len(merged') /\ merged' = <<>>
    BY <1>1, <1>3, <1>5, <2>1, <2>2, <2>3
  <2> QED
    BY <1>1, <2>3, <2>5, <2>6, <2>7 DEF FindInv
<1> QED
  BY <1>6, <1>7, <1>10, <1>11 DEF TreeInv

-----------------------------------------------------------------------------
(* The children of a level.                                                *)

IsFill(q, v) ==
  v = [k \in 0..Len(q) |->
        IF k = 0 THEN <<>>
        ELSE IF IsMerged(q[k]) THEN v[k - 1] \o <<heap[q[k]].left, heap[q[k]].right>>
        ELSE v[k - 1]]

LEMMA ChildrenFill ==
  ASSUME HeapInv, phase # "sort", NEW q \in Seq(Pointer \cup {0})
  PROVE  \E f \in [0..Len(q) -> Seq(Pointer)] :
           /\ f[0] = <<>> /\ Children(q) = f[Len(q)]
           /\ \A k \in 1..Len(q) :
                f[k] = IF IsMerged(q[k]) THEN f[k - 1] \o <<heap[q[k]].left, heap[q[k]].right>>
                       ELSE f[k - 1]
<1> DEFINE Pair(k) == <<heap[q[k]].left, heap[q[k]].right>>
           g == [k \in Nat |-> [s \in Seq(Pointer) |->
                  IF k \in 1..Len(q) /\ IsMerged(q[k]) THEN s \o Pair(k) ELSE s]]
<1>1. Len(q) \in Nat /\ <<>> \in Seq(Pointer) /\ \A k \in 1..Len(q) : q[k] \in Pointer \cup {0}
  BY LenProperties
<1>2. ASSUME NEW k \in 1..Len(q), IsMerged(q[k]) PROVE Pair(k) \in Seq(Pointer)
  <2>1. q[k] \in Pointer /\ heap[q[k]].type = "merged"
    BY <1>1, <1>2 DEF IsMerged
  <2>2. q[k] \in Inner
    BY <2>1, Nodes
  <2>3. Kids(q[k]) \subseteq 1..q[k] - 1 /\ q[k] \in 1..Len(heap)
    BY <2>1, <2>2 DEF HeapInv, Pointer
  <2>4. 1..q[k] - 1 \subseteq Pointer
    BY <2>3, Numbers DEF Pointer
  <2> QED
    BY <2>3, <2>4 DEF Kids
<1>3. g \in [Nat -> [Seq(Pointer) -> Seq(Pointer)]]
  <2>1. ASSUME NEW k \in Nat, NEW s \in Seq(Pointer)
        PROVE  (IF k \in 1..Len(q) /\ IsMerged(q[k]) THEN s \o Pair(k) ELSE s) \in Seq(Pointer)
    <3> HIDE DEF Pair
    <3> QED
      BY <1>2, ConcatProperties
  <2> HIDE DEF Pair
  <2> QED
    BY <2>1
<1>4. PICK w \in [0..Len(q) -> Seq(Pointer)] :
        w[0] = <<>> /\ \A k \in 1..Len(q) : w[k] = g[k][w[k - 1]]
  <2> HIDE DEF g, Pair
  <2>1. PICK f : Iterates(f, Seq(Pointer), <<>>, g, Len(q))
    BY <1>1, <1>3, Recursion, Zenon
  <2> QED
    BY <2>1 DEF Iterates
<1>5. ASSUME NEW k \in 1..Len(q)
      PROVE  w[k] = IF IsMerged(q[k]) THEN w[k - 1] \o Pair(k) ELSE w[k - 1]
  <2>1. k \in Nat /\ k - 1 \in 0..Len(q)
    BY <1>1
  <2>2. w[k - 1] \in Seq(Pointer)
    BY <2>1
  <2> HIDE DEF Pair
  <2> QED
    BY <1>4, <2>1, <2>2
<1>6. IsFill(q, w)
  <2> DEFINE u == [k \in 0..Len(q) |->
                    IF k = 0 THEN <<>> ELSE IF IsMerged(q[k]) THEN w[k - 1] \o Pair(k) ELSE w[k - 1]]
  <2>1. \A k \in 0..Len(q) : w[k] = u[k]
    <3> HIDE DEF Pair
    <3>1. \A k \in 0..Len(q) : k # 0 => k \in 1..Len(q)
      BY <1>1
    <3> QED
      BY <1>4, <1>5, <3>1
  <2>2. DOMAIN u = 0..Len(q)
    OBVIOUS
  <2> HIDE DEF u
  <2>3. w = u
    <3>1. w = [k \in 0..Len(q) |-> w[k]]
      OBVIOUS
    <3>2. u = [k \in 0..Len(q) |-> u[k]]
      BY DEF u
    <3> QED
      BY <2>1, <3>1, <3>2
  <2> QED
    BY <2>3 DEF IsFill, u
<1>7. PICK f : IsFill(q, f) /\ Children(q) = f[Len(q)]
  <2>1. Children(q) = (CHOOSE f : IsFill(q, f))[Len(q)]
    BY Zenon DEF Children, IsFill
  <2> QED
    BY <1>6, <2>1
<1>8. /\ DOMAIN f = 0..Len(q) /\ f[0] = <<>>
      /\ \A k \in 1..Len(q) : f[k] = IF IsMerged(q[k]) THEN f[k - 1] \o Pair(k) ELSE f[k - 1]
  <2>1. f = [k \in 0..Len(q) |->
              IF k = 0 THEN <<>> ELSE IF IsMerged(q[k]) THEN f[k - 1] \o Pair(k) ELSE f[k - 1]]
    BY <1>7 DEF IsFill
  <2> HIDE DEF Pair
  <2>2. DOMAIN f = 0..Len(q)
    BY <2>1, Zenon
  <2>3. \A k \in 0..Len(q) :
          f[k] = IF k = 0 THEN <<>> ELSE IF IsMerged(q[k]) THEN f[k - 1] \o Pair(k) ELSE f[k - 1]
    BY <2>1, Zenon
  <2>4. 0 \in 0..Len(q) /\ \A k \in 1..Len(q) : k \in 0..Len(q) /\ k # 0
    BY <1>1
  <2> QED
    BY <2>2, <2>3, <2>4
<1>9. f \in [0..Len(q) -> Seq(Pointer)]
  <2> DEFINE Q == {k \in 0..Len(q) : f[k] \in Seq(Pointer)}
  <2>1. 0 \in Q
    <3> HIDE DEF Pair, g
    <3>1. 0 \in 0..Len(q) /\ f[0] \in Seq(Pointer)
      BY <1>1, <1>8
    <3> QED
      BY <3>1
  <2>2. ASSUME NEW k \in 0..Len(q) - 1, k \in Q PROVE k + 1 \in Q
    <3>1. k + 1 \in 1..Len(q) /\ k + 1 \in 0..Len(q) /\ (k + 1) - 1 = k /\ f[k] \in Seq(Pointer)
      BY <1>1, <2>2
    <3>2. f[k + 1] = IF IsMerged(q[k + 1]) THEN f[k] \o Pair(k + 1) ELSE f[k]
      BY <1>8, <3>1
    <3> HIDE DEF Pair
    <3>3. f[k + 1] \in Seq(Pointer)
      BY <1>2, <3>1, <3>2, ConcatProperties
    <3> QED
      BY <3>1, <3>3
  <2>3. 0..Len(q) \subseteq Q
    <3> HIDE DEF Q, Pair, g
    <3>1. 0 \in Int /\ Len(q) \in Int
      BY <1>1
    <3> QED
      BY <2>1, <2>2, <3>1, IntervalIsInductive, Zenon
  <2>4. f = [k \in 0..Len(q) |-> f[k]]
    BY <1>7, <1>8 DEF IsFill
  <2> QED
    BY <2>3, <2>4
<1> QED
  BY <1>7, <1>8, <1>9

(* Two more, different from each other and from those there are.           *)
Extends(P, s, x, y, t) ==
  /\ s \in Seq(P) /\ x \in P /\ y \in P
  /\ Injects(s) /\ x # y /\ x \notin Range(s) /\ y \notin Range(s)
  /\ t = s \o <<x, y>>

Extended(P, s, x, y, t) ==
  t \in Seq(P) /\ Injects(t) /\ Range(t) = Range(s) \cup {x, y} /\ Len(t) = Len(s) + 2

LEMMA TwoMore ==
  ASSUME NEW P, NEW s, NEW x, NEW y, NEW t, Extends(P, s, x, y, t)
  PROVE  Extended(P, s, x, y, t)
<1>0. /\ s \in Seq(P) /\ x \in P /\ y \in P
      /\ Injects(s) /\ x # y /\ x \notin Range(s) /\ y \notin Range(s)
      /\ t = s \o <<x, y>>
  BY DEF Extends
<1>1. /\ t \in Seq(P) /\ Len(t) = Len(s) + 2 /\ Len(s) \in Nat
      /\ \A k \in 1..Len(s) : t[k] = s[k]
      /\ t[Len(s) + 1] = x /\ t[Len(s) + 2] = y
      /\ DOMAIN s = 1..Len(s) /\ DOMAIN t = 1..Len(s) + 2
  <2>1. /\ <<x, y>> \in Seq(P) /\ Len(<<x, y>>) = 2 /\ <<x, y>>[1] = x /\ <<x, y>>[2] = y
    BY <1>0
  <2>2. PICK p : p = <<x, y>>
    OBVIOUS
  <2>3. p \in Seq(P) /\ Len(p) = 2 /\ p[1] = x /\ p[2] = y
    BY <2>1, <2>2
  <2>4. t = s \o p
    BY <1>0, <2>2
  <2>5. /\ t \in Seq(P) /\ Len(t) = Len(s) + 2 /\ Len(s) \in Nat
        /\ \A k \in 1..Len(s) + 2 : t[k] = IF k <= Len(s) THEN s[k] ELSE p[k - Len(s)]
    BY <1>0, <2>3, <2>4, ConcatProperties, LenProperties
  <2>6. \A k \in 1..Len(s) : t[k] = s[k]
    BY <2>5
  <2>7. t[Len(s) + 1] = p[1] /\ t[Len(s) + 2] = p[2]
    <3>1. /\ Len(s) + 1 \in 1..Len(s) + 2 /\ ~ (Len(s) + 1 <= Len(s)) /\ Len(s) + 1 - Len(s) = 1
          /\ Len(s) + 2 \in 1..Len(s) + 2 /\ ~ (Len(s) + 2 <= Len(s)) /\ Len(s) + 2 - Len(s) = 2
      BY <2>5
    <3> QED
      BY <2>5, <3>1
  <2>8. DOMAIN s = 1..Len(s) /\ DOMAIN t = 1..Len(s) + 2
    BY <1>0, <2>5, LenProperties
  <2> QED
    BY <2>3, <2>5, <2>6, <2>7, <2>8
<1>2. \A k \in 1..Len(s) + 2 : k \in 1..Len(s) \/ k = Len(s) + 1 \/ k = Len(s) + 2
  BY <1>1
<1>3. \A k \in 1..Len(s) : s[k] # x /\ s[k] # y
  BY <1>0, <1>1 DEF Range
<1>4. Injects(t)
  BY <1>0, <1>1, <1>2, <1>3 DEF Injects
<1>5. Range(t) = Range(s) \cup {x, y}
  <2>1. Range(t) \subseteq Range(s) \cup {x, y}
    BY <1>1, <1>2 DEF Range
  <2>2. Range(s) \cup {x, y} \subseteq Range(t)
    <3>1. x \in Range(t) /\ y \in Range(t)
      <4>1. Len(s) + 1 \in DOMAIN t /\ Len(s) + 2 \in DOMAIN t
        BY <1>1
      <4> QED
        BY <1>1, <4>1 DEF Range
    <3>2. Range(s) \subseteq Range(t)
      <4>1. \A k \in 1..Len(s) : k \in DOMAIN t
        BY <1>1
      <4> QED
        BY <1>1, <4>1 DEF Range
    <3> QED
      BY <3>1, <3>2
  <2> QED
    BY <2>1, <2>2
<1> QED
  BY <1>1, <1>4, <1>5 DEF Extended

MergedOf(q) == {n \in Range(q) : IsMerged(n)}

(* The children of different nodes are different nodes, two of each merged *)
(* one.                                                                    *)
LEMMA ChildrenAre ==
  ASSUME HeapInv, phase # "sort", NEW q \in Seq(Pointer), Injects(q), NEW c, c = Children(q)
  PROVE  /\ c \in Seq(Pointer) /\ Injects(c)
         /\ Range(c) = UNION {Kids(n) : n \in MergedOf(q)}
         /\ Len(c) = 2 * Cardinality(MergedOf(q))
<1>1. /\ Len(q) \in Nat /\ DOMAIN q = 1..Len(q) /\ q \in Seq(Pointer \cup {0})
      /\ \A k \in 1..Len(q) : q[k] \in Pointer
  <2>1. Len(q) \in Nat /\ DOMAIN q = 1..Len(q) /\ \A k \in 1..Len(q) : q[k] \in Pointer
    BY LenProperties
  <2>2. q \in Seq(Pointer \cup {0})
    BY <2>1
  <2> QED
    BY <2>1, <2>2
<1>2. PICK f \in [0..Len(q) -> Seq(Pointer)] :
        /\ f[0] = <<>> /\ Children(q) = f[Len(q)]
        /\ \A k \in 1..Len(q) :
             f[k] = IF IsMerged(q[k]) THEN f[k - 1] \o <<heap[q[k]].left, heap[q[k]].right>>
                    ELSE f[k - 1]
  BY <1>1, ChildrenFill
<1> DEFINE M(k) == {q[j] : j \in {i \in 1..k : IsMerged(q[i])}}
           Good(k) == /\ Injects(f[k])
                      /\ Range(f[k]) = UNION {Kids(n) : n \in M(k)}
                      /\ IsFiniteSet(M(k)) /\ Cardinality(M(k)) \in Nat
                      /\ Len(f[k]) = 2 * Cardinality(M(k))
           Q == {k \in 0..Len(q) : Good(k)}
<1>3. 0 \in Q
  <2>1. M(0) = {}
    OBVIOUS
  <2>2. f[0] = <<>> /\ Injects(f[0]) /\ Range(f[0]) = {} /\ Len(f[0]) = 0
    BY <1>2 DEF Injects, Range
  <2>3. UNION {Kids(n) : n \in {}} = {}
    OBVIOUS
  <2> HIDE DEF M
  <2>4. Good(0)
    BY <2>1, <2>2, <2>3, FS_EmptySet
  <2> QED
    BY <1>1, <2>4
<1>4. ASSUME NEW k \in 0..Len(q) - 1, k \in Q PROVE k + 1 \in Q
  <2>1. k + 1 \in 1..Len(q) /\ k + 1 \in 0..Len(q) /\ (k + 1) - 1 = k /\ Good(k) /\ q[k + 1] \in Pointer
    BY <1>1, <1>4
  <2>2. PICK n : n = q[k + 1]
    OBVIOUS
  <2>3. \A i \in 1..k + 1 : i \in 1..k \/ i = k + 1
    BY <2>1
  <2>4. CASE ~ IsMerged(n)
    <3>1. f[k + 1] = f[k]
      BY <1>2, <2>1, <2>2, <2>4
    <3>2. M(k + 1) = M(k)
      <4>1. {i \in 1..k + 1 : IsMerged(q[i])} = {i \in 1..k : IsMerged(q[i])}
        BY <2>1, <2>2, <2>3, <2>4
      <4> QED
        BY <4>1
    <3> HIDE DEF M
    <3> QED
      BY <2>1, <3>1, <3>2
  <2>5. CASE IsMerged(n)
    <3>1. f[k + 1] = f[k] \o <<heap[n].left, heap[n].right>>
      BY <1>2, <2>1, <2>2, <2>5
    <3>2. M(k + 1) = M(k) \cup {n}
      <4>1. {i \in 1..k + 1 : IsMerged(q[i])} = {i \in 1..k : IsMerged(q[i])} \cup {k + 1}
        BY <2>1, <2>2, <2>3, <2>5
      <4> QED
        BY <2>2, <4>1
    <3>3. M(k) \subseteq Inner /\ n \in Inner /\ n \notin M(k)
      <4>1. \A i \in 1..k : i \in 1..Len(q) /\ q[i] \in Pointer /\ q[i] # n
        BY <1>1, <2>1, <2>2, SMTT(30) DEF Injects
      <4>2. \A p \in Pointer : IsMerged(p) => p \in Inner
        BY Nodes DEF IsMerged
      <4> QED
        BY <2>1, <2>2, <2>5, <4>1, <4>2
    <3>4. heap[n].left \in Pointer /\ heap[n].right \in Pointer /\ heap[n].left # heap[n].right
      <4>1. Kids(n) \subseteq 1..n - 1 /\ heap[n].left # heap[n].right /\ n \in 1..Len(heap)
        BY <2>1, <2>2, <3>3 DEF HeapInv, Pointer
      <4> QED
        BY <4>1, Numbers DEF Kids, Pointer
    <3>5. \A p \in M(k) : Kids(p) \cap Kids(n) = {}
      BY <3>3 DEF HeapInv
    <3>6. heap[n].left \notin Range(f[k]) /\ heap[n].right \notin Range(f[k])
      <4> HIDE DEF M
      <4>1. Range(f[k]) = UNION {Kids(p) : p \in M(k)}
        BY <2>1
      <4> QED
        BY <3>5, <4>1 DEF Kids
    <3> HIDE DEF M
    <3>7. /\ Injects(f[k + 1]) /\ Len(f[k + 1]) = Len(f[k]) + 2
          /\ Range(f[k + 1]) = Range(f[k]) \cup {heap[n].left, heap[n].right}
      <4>a. PICK s : s = f[k]
        OBVIOUS
      <4>b. PICK x, y : x = heap[n].left /\ y = heap[n].right
        OBVIOUS
      <4>c. PICK t : t = s \o <<x, y>>
        OBVIOUS
      <4>1. s \in Seq(Pointer) /\ Injects(s)
        BY <2>1, <4>a
      <4>2. x \in Pointer /\ y \in Pointer /\ x # y /\ x \notin Range(s) /\ y \notin Range(s)
        BY <3>4, <3>6, <4>a, <4>b
      <4>3. Injects(t) /\ Range(t) = Range(s) \cup {x, y} /\ Len(t) = Len(s) + 2
        <5>1. Extends(Pointer, s, x, y, t)
          BY <4>1, <4>2, <4>c DEF Extends
        <5>2. Extended(Pointer, s, x, y, t)
          BY <5>1, TwoMore, Zenon
        <5> QED
          BY <5>2 DEF Extended
      <4>4. t = f[k + 1]
        BY <3>1, <4>a, <4>b, <4>c
      <4> QED
        BY <4>3, <4>4, <4>a, <4>b
    <3>8. UNION {Kids(p) : p \in M(k) \cup {n}} = UNION {Kids(p) : p \in M(k)} \cup Kids(n)
      OBVIOUS
    <3>9. /\ IsFiniteSet(M(k + 1)) /\ Cardinality(M(k + 1)) = Cardinality(M(k)) + 1
      BY <2>1, <3>2, <3>3, FS_AddElement
    <3>10. Range(f[k + 1]) = UNION {Kids(p) : p \in M(k + 1)}
      BY <2>1, <3>2, <3>7, <3>8 DEF Kids
    <3>11. Len(f[k + 1]) = 2 * Cardinality(M(k + 1)) /\ Cardinality(M(k + 1)) \in Nat
      <4>a. PICK a, b, d, e : /\ a = Len(f[k]) /\ b = Len(f[k + 1])
                              /\ d = Cardinality(M(k)) /\ e = Cardinality(M(k + 1))
        OBVIOUS
      <4>1. a = 2 * d /\ d \in Nat
        BY <2>1, <4>a
      <4>2. b = a + 2 /\ e = d + 1
        BY <3>7, <3>9, <4>a
      <4>3. b = 2 * e /\ e \in Nat
        BY <4>1, <4>2
      <4> QED
        BY <4>3, <4>a
    <3> QED
      BY <2>1, <3>7, <3>9, <3>10, <3>11
  <2> QED
    BY <2>4, <2>5
<1>5. Len(q) \in Q
  <2>1. 0 \in Int /\ Len(q) \in Int /\ Len(q) \in 0..Len(q)
    BY <1>1
  <2>2. 0..Len(q) \subseteq Q
    <3> HIDE DEF Q
    <3> QED
      BY <1>3, <1>4, <2>1, IntervalIsInductive, Zenon
  <2> QED
    BY <2>1, <2>2
<1>6. M(Len(q)) = MergedOf(q)
  BY <1>1 DEF MergedOf, Range
<1>7. f[Len(q)] \in Seq(Pointer)
  BY <1>1
<1> HIDE DEF M
<1> QED
  BY <1>2, <1>5, <1>6, <1>7

-----------------------------------------------------------------------------
(* One call of find_depth_n.                                               *)

LEMMA SeqInto ==
  ASSUME NEW S, NEW T, S \subseteq T, NEW q \in Seq(S)
  PROVE  q \in Seq(T)
<1>1. Len(q) \in Nat /\ q \in [1..Len(q) -> S]
  BY LenProperties
<1>2. q \in [1..Len(q) -> T]
  BY <1>1
<1> QED
  BY <1>1, <1>2

LEMMA Apart ==
  ASSUME NEW S, NEW T, IsFiniteSet(S), IsFiniteSet(T), S \cap T = {}
  PROVE  /\ IsFiniteSet(S \cup T)
         /\ Cardinality(S \cup T) = Cardinality(S) + Cardinality(T)
         /\ Cardinality(S) \in Nat /\ Cardinality(T) \in Nat
<1>1. Cardinality(S \cap T) = 0
  BY FS_EmptySet
<1>2. /\ IsFiniteSet(S \cup T)
      /\ Cardinality(S \cup T) = Cardinality(S) + Cardinality(T) - Cardinality(S \cap T)
  BY FS_Union
<1>3. Cardinality(S) \in Nat /\ Cardinality(T) \in Nat
  BY FS_CardinalityType
<1> QED
  BY <1>1, <1>2, <1>3

LEMMA RangeSize ==
  ASSUME NEW P, NEW q \in Seq(P), Injects(q)
  PROVE  /\ Range(q) \subseteq P /\ IsFiniteSet(Range(q))
         /\ Cardinality(Range(q)) = Len(q) /\ Len(q) \in Nat
<1>1. Len(q) \in Nat /\ DOMAIN q = 1..Len(q) /\ q \in [1..Len(q) -> P]
  BY LenProperties
<1>2. Range(q) \subseteq P
  BY <1>1 DEF Range
<1>3. q \in Bijection(1..Len(q), Range(q))
  <2>1. q \in [1..Len(q) -> Range(q)]
    BY <1>1 DEF Range
  <2> QED
    BY <1>1, <2>1 DEF Injects, Range, Bijection, Injection, Surjection, IsInjective
<1>4. IsFiniteSet(1..Len(q)) /\ Cardinality(1..Len(q)) = Len(q)
  BY <1>1, FS_Interval
<1>5. ExistsBijection(1..Len(q), Range(q))
  BY <1>3 DEF ExistsBijection
<1> QED
  BY <1>1, <1>2, <1>4, <1>5, FS_Bijection

(* Different leaves have different symbols.                                *)
LEMMA LabelsSize ==
  ASSUME HeapInv, phase # "sort", NEW L \in SUBSET (1..Total),
         NEW S, S = {heap[n].symbol : n \in L}
  PROVE  /\ S \subseteq Symbol /\ IsFiniteSet(S) /\ IsFiniteSet(L)
         /\ Cardinality(S) = Cardinality(L)
<1>1. Total \in Nat /\ Len(heap) >= Total /\ Len(heap) \in Nat
  BY Numbers DEF HeapInv
<1>2. 1..Total \subseteq Pointer
  BY <1>1 DEF Pointer
<1>3. S \subseteq Symbol
  BY <1>2, Nodes
<1>4. IsFiniteSet(L)
  <2>1. IsFiniteSet(1..Total)
    BY <1>1, FS_Interval
  <2> QED
    BY <2>1, FS_Subset
<1>5. [n \in L |-> heap[n].symbol] \in Bijection(L, S)
  BY DEF HeapInv, Bijection, Injection, Surjection, IsInjective
<1>6. ExistsBijection(L, S)
  BY <1>5 DEF ExistsBijection
<1> QED
  BY <1>3, <1>4, <1>6, FS_Bijection

LevelSymbols == {heap[n].symbol : n \in {m \in Range(level) : IsSymbol(m)}}

LevelInner == Range(level) \cap Inner

LevelLeaves == Range(level) \cap 1..Total

(* A level is its leaves and its merged nodes.                             *)
LEMMA LevelParts ==
  ASSUME HeapInv, phase # "sort", level \in Seq(Pointer), Injects(level)
  PROVE  /\ LevelInner = MergedOf(level)
         /\ LevelSymbols = {heap[n].symbol : n \in LevelLeaves}
         /\ Range(level) = LevelLeaves \cup LevelInner /\ LevelLeaves \cap LevelInner = {}
         /\ IsFiniteSet(LevelLeaves) /\ IsFiniteSet(LevelInner)
         /\ Len(level) = Cardinality(LevelLeaves) + Cardinality(LevelInner)
         /\ Cardinality(LevelLeaves) \in Nat /\ Cardinality(LevelInner) \in Nat
<1>1. Range(level) \subseteq Pointer /\ IsFiniteSet(Range(level)) /\ Cardinality(Range(level)) = Len(level)
  BY RangeSize
<1>2. Total \in Nat /\ Len(heap) >= Total /\ Len(heap) \in Nat
  BY Numbers DEF HeapInv
<1>3. \A n \in Pointer : /\ n # 0 /\ (heap[n].type = "symbol" <=> n \in 1..Total)
                         /\ (heap[n].type = "merged" <=> n \in Inner)
                         /\ n \in 1..Total \/ n \in Inner
  <2>1. \A n \in Pointer : n # 0 /\ (n \in 1..Total \/ n \in Inner)
    BY <1>2 DEF Pointer, Inner
  <2> QED
    BY <2>1, Nodes
<1>4. LevelInner = MergedOf(level)
  BY <1>1, <1>3 DEF LevelInner, MergedOf, IsMerged
<1>5. {m \in Range(level) : IsSymbol(m)} = LevelLeaves
  BY <1>1, <1>3 DEF LevelLeaves, IsSymbol
<1>6. Range(level) = LevelLeaves \cup LevelInner
  BY <1>1, <1>3 DEF LevelLeaves, LevelInner
<1>7. LevelLeaves \cap LevelInner = {}
  BY <1>2 DEF LevelLeaves, LevelInner, Inner
<1>8. IsFiniteSet(LevelLeaves) /\ IsFiniteSet(LevelInner)
  BY <1>1, FS_Intersection DEF LevelLeaves, LevelInner
<1>9. /\ Cardinality(LevelLeaves \cup LevelInner) = Cardinality(LevelLeaves) + Cardinality(LevelInner)
      /\ Cardinality(LevelLeaves) \in Nat /\ Cardinality(LevelInner) \in Nat
  BY <1>7, <1>8, Apart
<1> QED
  BY <1>1, <1>4, <1>5, <1>6, <1>7, <1>8, <1>9 DEF LevelSymbols

(* With the level above it, the next level is what the children are.       *)
Follows(V, W, c) ==
  /\ c \in Seq(Pointer) /\ Injects(c) /\ Len(c) = 2 * Cardinality(LevelInner)
  /\ W \subseteq Pointer /\ W \cap Range(c) = {}
  /\ \A x \in W \cup Range(c) : x = tree \/ \E n \in W \cap Inner : x \in Kids(n)
  /\ \A n \in W \cap Inner : Kids(n) \subseteq W \cup Range(c)
  /\ W \cap 1..Total = (V \cap 1..Total) \cup LevelLeaves
  /\ Cardinality(W) + Len(c) = 1 + 2 * Cardinality(W \cap Inner)

LEMMA NextLevel ==
  ASSUME TreeInv, phase = "find", Total >= 2, NEW V, Above(V),
         NEW W, W = V \cup Range(level), NEW c, c = Children(level)
  PROVE  Follows(V, W, c)
<1>1. /\ HeapInv /\ phase # "sort" /\ tree \in Inner /\ (\A n \in Inner : tree \notin Kids(n))
      /\ level \in Seq(Pointer) /\ Injects(level)
  BY DEF TreeInv, FindInv
<1>2. /\ c \in Seq(Pointer) /\ Injects(c)
      /\ Range(c) = UNION {Kids(n) : n \in MergedOf(level)}
      /\ Len(c) = 2 * Cardinality(MergedOf(level))
  BY <1>1, ChildrenAre, Zenon
<1>3. /\ V \subseteq Pointer /\ V \cap Range(level) = {}
      /\ \A x \in V \cup Range(level) : x = tree \/ \E n \in V \cap Inner : x \in Kids(n)
      /\ \A n \in V \cap Inner : Kids(n) \subseteq V \cup Range(level)
      /\ Cardinality(V) + Len(level) = 1 + 2 * Cardinality(V \cap Inner)
  BY DEF Above
<1>4. /\ LevelInner = MergedOf(level) /\ IsFiniteSet(LevelInner)
      /\ Cardinality(LevelInner) \in Nat
  BY <1>1, LevelParts
<1>5. /\ Range(level) \subseteq Pointer /\ IsFiniteSet(Range(level))
      /\ Cardinality(Range(level)) = Len(level) /\ Len(level) \in Nat
  BY <1>1, RangeSize, Zenon
<1>6. Range(c) = UNION {Kids(n) : n \in LevelInner}
  BY <1>2, <1>4
<1>7. W \cap Range(c) = {}
  <2> SUFFICES ASSUME NEW x \in W, x \in Range(c) PROVE FALSE
    OBVIOUS
  <2>1. PICK n \in LevelInner : x \in Kids(n)
    BY <1>6
  <2>2. n \in Inner /\ n \in Range(level)
    BY DEF LevelInner
  <2>3. PICK p \in V \cap Inner : x \in Kids(p)
    BY <1>1, <1>3, <2>1, <2>2
  <2>4. p = n
    BY <1>1, <2>1, <2>2, <2>3 DEF HeapInv
  <2> QED
    BY <1>3, <2>2, <2>3, <2>4
<1>8. W \cap Inner = (V \cap Inner) \cup LevelInner /\ W \cap 1..Total = (V \cap 1..Total) \cup LevelLeaves
  BY DEF LevelInner, LevelLeaves
<1>9. \A x \in W \cup Range(c) : x = tree \/ \E n \in W \cap Inner : x \in Kids(n)
  BY <1>3, <1>6, <1>8
<1>10. \A n \in W \cap Inner : Kids(n) \subseteq W \cup Range(c)
  BY <1>3, <1>6, <1>8
<1>11. Cardinality(W) + Len(c) = 1 + 2 * Cardinality(W \cap Inner)
  <2>1. IsFiniteSet(V)
    <3>1. IsFiniteSet(Pointer)
      BY <1>1, Numbers, FS_Interval DEF Pointer
    <3> QED
      BY <1>3, <3>1, FS_Subset
  <2>2. Cardinality(W) = Cardinality(V) + Len(level) /\ Cardinality(V) \in Nat
    BY <1>3, <1>5, <2>1, Apart
  <2>3. /\ Cardinality(W \cap Inner) = Cardinality(V \cap Inner) + Cardinality(LevelInner)
        /\ Cardinality(V \cap Inner) \in Nat
    <3>1. IsFiniteSet(V \cap Inner) /\ (V \cap Inner) \cap LevelInner = {}
      BY <1>3, <2>1, FS_Intersection DEF LevelInner
    <3> QED
      BY <1>4, <1>8, <3>1, Apart
  <2>4. Len(c) = 2 * Cardinality(LevelInner)
    BY <1>2, <1>4
  <2>a. PICK w, v, l, i, j, k, d : /\ w = Cardinality(W) /\ v = Cardinality(V) /\ l = Len(level)
                                /\ i = Cardinality(W \cap Inner) /\ j = Cardinality(V \cap Inner)
                                /\ k = Cardinality(LevelInner) /\ d = Len(c)
    OBVIOUS
  <2>5. v \in Nat /\ l \in Nat /\ j \in Nat /\ k \in Nat
    BY <1>4, <1>5, <2>2, <2>3, <2>a
  <2>6. w = v + l /\ i = j + k /\ d = 2 * k /\ v + l = 1 + 2 * j
    BY <1>3, <2>2, <2>3, <2>4, <2>a
  <2>7. w + d = 1 + 2 * i
    BY <2>5, <2>6
  <2> QED
    BY <2>7, <2>a
<1> QED
  BY <1>2, <1>3, <1>4, <1>5, <1>7, <1>8, <1>9, <1>10, <1>11 DEF Follows

LEMMA FindStep == TreeInv /\ FindDepth => TreeInv'
<1> SUFFICES ASSUME TreeInv, FindDepth PROVE TreeInv'
  OBVIOUS
<1>1. /\ phase = "find" /\ level # <<>> /\ HeapInv
      /\ depths' = Append(depths, LevelSymbols)
      /\ level' = Children(level)
      /\ merged' = Append(merged, Cardinality({n \in Range(level) : IsMerged(n)}))
      /\ phase' = (IF level' = <<>> THEN "done" ELSE "find")
      /\ UNCHANGED <<freqs, heap, leaves, nodes, tree>>
  BY DEF FindDepth, TreeInv, LevelSymbols
<1>2. /\ Total' = Total /\ Inner' = Inner /\ Pointer' = Pointer /\ \A n : Kids(n)' = Kids(n)
  BY <1>1 DEF Total, Used, Inner, Pointer, Kids
<1>3. phase # "sort" /\ phase' \in {"find", "done"}
  BY <1>1
<1>4. HeapInv'
  BY <1>1, <1>2, <1>3 DEF HeapInv
<1>5. QueueInv'
  <2>1. leaves = <<>> /\ nodes = <<>>
    BY <1>1 DEF TreeInv, QueueInv
  <2> QED
    BY <1>1, <1>3, <2>1 DEF QueueInv
<1>6. tree \in Pointer \cup {0} /\ level \in Seq(Pointer \cup {0}) /\ depths \in Seq(SUBSET Symbol) /\ merged \in Seq(Nat)
  BY DEF TreeInv, FindType
<1>7. level' \in Seq(Pointer)
  <2>1. PICK f \in [0..Len(level) -> Seq(Pointer)] : Children(level) = f[Len(level)]
    BY <1>1, <1>3, <1>6, ChildrenFill
  <2>2. Len(level) \in 0..Len(level)
    BY <1>6, LenProperties
  <2> QED
    BY <1>1, <2>1, <2>2
<1>8. LevelSymbols \in SUBSET Symbol
  <2>1. \A n \in Range(level) : n \in Pointer \cup {0}
    BY <1>6, LenProperties DEF Range
  <2>2. \A n \in Range(level) : IsSymbol(n) => heap[n].symbol \in Symbol
    BY <1>1, <2>1, Nodes DEF IsSymbol
  <2> QED
    BY <2>2 DEF LevelSymbols
<1>9. Cardinality({n \in Range(level) : IsMerged(n)}) \in Nat
  <2>1. IsFiniteSet(Pointer \cup {0})
    <3>1. IsFiniteSet(Pointer)
      BY <1>1, Numbers, FS_Interval DEF Pointer
    <3> QED
      BY <3>1, FS_AddElement
  <2>2. {n \in Range(level) : IsMerged(n)} \subseteq Pointer \cup {0}
    BY <1>6, LenProperties DEF Range
  <2> QED
    BY <2>1, <2>2, FS_Subset, FS_CardinalityType
<1>10. FindType'
  <2>1. level' \in Seq(Pointer \cup {0})
    BY <1>7
  <2>2. depths' \in Seq(SUBSET Symbol)
    BY <1>1, <1>6, <1>8, AppendProperties
  <2>3. merged' \in Seq(Nat)
    BY <1>1, <1>6, <1>9, AppendProperties
  <2> QED
    BY <1>1, <1>2, <1>6, <2>1, <2>2, <2>3 DEF FindType
<1>11. ASSUME Total >= 2 PROVE FindInv'
  <2>1. /\ Len(heap) = 2 * Total - 1
        /\ tree \in Inner /\ (\A n \in Inner : tree \notin Kids(n))
        /\ level \in Seq(Pointer) /\ Injects(level)
        /\ Len(depths) = Len(merged)
    BY <1>1, <1>11 DEF TreeInv, FindInv
  <2>2. PICK V \in SUBSET Pointer : Above(V)
    BY <1>1, <1>11 DEF TreeInv, FindInv
  <2>3. PICK W : W = V \cup Range(level)
    OBVIOUS
  <2>4. PICK c : c = Children(level)
    OBVIOUS
  <2>5. /\ c \in Seq(Pointer) /\ Injects(c) /\ Len(c) = 2 * Cardinality(LevelInner)
        /\ W \subseteq Pointer /\ W \cap Range(c) = {}
        /\ \A x \in W \cup Range(c) : x = tree \/ \E n \in W \cap Inner : x \in Kids(n)
        /\ \A n \in W \cap Inner : Kids(n) \subseteq W \cup Range(c)
        /\ W \cap 1..Total = (V \cap 1..Total) \cup LevelLeaves
        /\ Cardinality(W) + Len(c) = 1 + 2 * Cardinality(W \cap Inner)
    <3>1. Follows(V, W, c)
      BY <1>1, <1>11, <2>2, <2>3, <2>4, NextLevel, Zenon
    <3> QED
      BY <3>1 DEF Follows
  <2>6. LevelInner = MergedOf(level) /\ LevelSymbols = {heap[n].symbol : n \in LevelLeaves}
    BY <1>1, <1>3, <2>1, LevelParts
  <2>7. level' = c
    BY <1>1, <2>4
  <2>8. /\ merged' = Append(merged, Cardinality(LevelInner))
        /\ Len(merged') = Len(merged) + 1 /\ merged' # <<>>
        /\ merged'[Len(merged')] = Cardinality(LevelInner)
    <3>1. merged' = Append(merged, Cardinality(LevelInner)) /\ Cardinality(LevelInner) \in Nat
      BY <1>1, <1>9, <2>6 DEF MergedOf
    <3> HIDE DEF LevelInner
    <3> QED
      BY <1>6, <3>1, AppendProperties
  <2>9. /\ Len(depths') = Len(depths) + 1 /\ depths' # <<>>
        /\ \A d \in DOMAIN depths : depths'[d] = depths[d]
        /\ \A d \in DOMAIN depths' : d \in DOMAIN depths \/ depths'[d] = LevelSymbols
    <3>1. Len(depths) \in Nat /\ DOMAIN depths = 1..Len(depths)
      BY <1>6, LenProperties
    <3>2. /\ depths' \in Seq(SUBSET Symbol) /\ Len(depths') = Len(depths) + 1
          /\ \A d \in 1..Len(depths) : depths'[d] = depths[d]
          /\ depths'[Len(depths) + 1] = LevelSymbols
      BY <1>1, <1>6, <1>8, AppendProperties
    <3>3. DOMAIN depths' = 1..Len(depths) + 1 /\ depths' # <<>>
      BY <3>1, <3>2, LenProperties
    <3> QED
      BY <3>1, <3>2, <3>3
  <2>10. \A d \in DOMAIN depths' : depths'[d] \subseteq {heap[n].symbol : n \in W \cap 1..Total}
    <3>1. \A d \in DOMAIN depths : depths[d] \subseteq {heap[n].symbol : n \in V \cap 1..Total}
      BY <2>2 DEF Above
    <3>2. {heap[n].symbol : n \in V \cap 1..Total} \subseteq {heap[n].symbol : n \in W \cap 1..Total}
      BY <2>5
    <3>3. LevelSymbols \subseteq {heap[n].symbol : n \in W \cap 1..Total}
      BY <2>5, <2>6
    <3> QED
      BY <2>9, <3>1, <3>2, <3>3
  <2>11. Above(W)'
    BY <1>1, <1>2, <2>5, <2>7, <2>10 DEF Above
  <2>12. W \in SUBSET Pointer'
    BY <1>2, <2>5
  <2>13. phase' = "done" <=> level' = <<>>
    BY <1>1
  <2>14. Injects(level)'
    BY <2>5, <2>7 DEF Injects
  <2>15. Len(level') = IF merged' = <<>> THEN 1 ELSE 2 * merged'[Len(merged')]
    BY <2>5, <2>7, <2>8
  <2>16. Len(depths') = Len(merged')
    BY <2>1, <2>8, <2>9
  <2> QED
    BY <1>1, <1>2, <1>3, <1>7, <2>1, <2>9, <2>11, <2>12, <2>13, <2>14, <2>15, <2>16 DEF FindInv
<1>12. FindInv'
  <2>1. Total' >= 2 => FindInv'
    BY <1>2, <1>11
  <2>2. ~ (Total' >= 2) => FindInv'
    BY <1>3 DEF FindInv
  <2> QED
    BY <2>1, <2>2
<1> QED
  BY <1>4, <1>5, <1>10, <1>12 DEF TreeInv

LEMMA TreeNext == TreeInv /\ [Next]_vars => TreeInv'
<1>1. ASSUME TreeInv, UNCHANGED vars PROVE TreeInv'
  <2>1. UNCHANGED <<phase, freqs, heap, leaves, nodes, tree, level, depths, merged>>
    BY <1>1 DEF vars
  <2>2. /\ Total' = Total /\ Inner' = Inner /\ Pointer' = Pointer /\ \A n : Kids(n)' = Kids(n)
    BY <2>1 DEF Total, Used, Inner, Pointer, Kids
  <2>3. HeapInv'
    BY <1>1, <2>1, <2>2 DEF TreeInv, HeapInv
  <2>4. QueueInv'
    <3>1. Injects(leaves)' = Injects(leaves) /\ Injects(nodes)' = Injects(nodes)
      BY <2>1 DEF Injects
    <3>2. Ascending(leaves)' = Ascending(leaves) /\ Ascending(nodes)' = Ascending(nodes)
      BY <2>1 DEF Ascending
    <3>3. QueueInv
      BY <1>1 DEF TreeInv
    <3> QED
      BY <2>1, <2>2, <3>1, <3>2, <3>3 DEF QueueInv
  <2>5. FindType'
    BY <1>1, <2>1, <2>2 DEF TreeInv, FindType
  <2>6. FindInv'
    <3>1. Injects(level)' = Injects(level)
      BY <2>1 DEF Injects
    <3>2. \A V : Above(V)' = Above(V)
      BY <2>1, <2>2 DEF Above
    <3>3. FindInv
      BY <1>1 DEF TreeInv
    <3> QED
      BY <2>1, <2>2, <3>1, <3>2, <3>3 DEF FindInv
  <2> QED
    BY <2>3, <2>4, <2>5, <2>6 DEF TreeInv
<1> QED
  BY <1>1, SortStep, MergeStep, TakeStep, FindStep DEF Next

LEMMA TreeStays == Spec => []TreeInv
BY TreeInit, TreeNext, PTL DEF Spec

-----------------------------------------------------------------------------
(* Both queues ascend, whatever the frequencies, though nothing sorts the  *)
(* queue of merged nodes: the loop of encode_tree_build merges the two     *)
(* lightest nodes by looking at two heads.                                 *)
THEOREM QueuesStaySorted == Spec => []QueuesAscend
<1>1. TreeInv => QueuesAscend
  <2> SUFFICES ASSUME TreeInv PROVE QueuesAscend
    OBVIOUS
  <2>1. CASE phase = "merge"
    BY <2>1 DEF TreeInv, QueueInv, QueuesAscend
  <2>2. CASE phase # "merge"
    <3>1. leaves = <<>> /\ nodes = <<>>
      BY <2>2 DEF TreeInv, QueueInv
    <3> QED
      BY <3>1 DEF QueuesAscend, Ascending
  <2> QED
    BY <2>1, <2>2
<1> QED
  BY <1>1, TreeStays, PTL

(* Every variable has its type, and no queue ever holds more than the      *)
(* NBYTE entries that encode_tree_build makes it for: array_queue_add does *)
(* not check.                                                              *)
THEOREM QueuesHaveRoom == Spec => []TypeOK
<1>1. TreeInv => TypeOK
  <2> SUFFICES ASSUME TreeInv PROVE TypeOK
    OBVIOUS
  <2>1. HeapInv /\ heap \in Seq(Node) /\ phase \in {"sort", "merge", "find", "done"}
        /\ freqs \in [Symbol -> Nat]
    BY TreeAssumption DEF TreeInv, HeapInv
  <2>2. /\ Total \in Nat /\ Len(heap) \in Nat /\ Cardinality(Symbol) \in Nat
        /\ Total <= Cardinality(Symbol)
    BY <2>1, Numbers DEF HeapInv
  <2>3. /\ leaves \in Seq(Pointer) /\ Len(leaves) <= Cardinality(Symbol)
        /\ nodes \in Seq(Pointer) /\ Len(nodes) <= Cardinality(Symbol)
    <3>1. CASE phase = "merge"
      <4>1. /\ leaves \in Seq(1..Total) /\ nodes \in Seq(Inner)
            /\ Len(leaves) + Len(nodes) + Len(heap) = 2 * Total /\ Len(heap) >= Total
        BY <2>1, <3>1 DEF TreeInv, QueueInv, HeapInv
      <4>2. 1..Total \subseteq Pointer /\ Inner \subseteq Pointer
        BY <2>2, <4>1 DEF Pointer, Inner
      <4>3. leaves \in Seq(Pointer) /\ nodes \in Seq(Pointer)
        BY <4>1, <4>2, SeqInto, Zenon
      <4>4. Len(leaves) \in Nat /\ Len(nodes) \in Nat
        BY <4>1, LenProperties
      <4> QED
        BY <2>2, <4>1, <4>3, <4>4
    <3>2. CASE phase # "merge"
      <4>1. leaves = <<>> /\ nodes = <<>>
        BY <3>2 DEF TreeInv, QueueInv
      <4> QED
        BY <2>2, <4>1
    <3> QED
      BY <3>1, <3>2
  <2> QED
    BY <2>1, <2>3 DEF TypeOK, TreeInv, FindType
<1> QED
  BY <1>1, TreeStays, PTL

-----------------------------------------------------------------------------
(* The depths are those of a full tree.                                    *)

LEMMA SameSize == \A T : C!Cardinality(T) = Cardinality(T)
BY DEF C!Cardinality, Cardinality

(* The leaves below the level are as many as its merged nodes need.        *)
LEMMA LeavesLeft ==
  ASSUME TreeInv, phase = "find", Total >= 2
  PROVE  /\ LevelSymbols \subseteq C!Unplaced
         /\ Cardinality(LevelSymbols) = Cardinality(LevelLeaves)
         /\ 2 * Cardinality(LevelInner) <= Cardinality(C!Unplaced \ LevelSymbols)
<1>1. /\ HeapInv /\ phase # "sort" /\ Len(heap) = 2 * Total - 1 /\ Total \in Nat
      /\ level \in Seq(Pointer) /\ Injects(level)
  BY DEF TreeInv, FindInv, HeapInv
<1>2. PICK V \in SUBSET Pointer : Above(V)
  BY DEF TreeInv, FindInv
<1>3. PICK W : W = V \cup Range(level)
  OBVIOUS
<1>4. PICK c : c = Children(level)
  OBVIOUS
<1>5. /\ Len(c) = 2 * Cardinality(LevelInner) /\ W \subseteq Pointer
      /\ W \cap 1..Total = (V \cap 1..Total) \cup LevelLeaves
      /\ Cardinality(W) + Len(c) = 1 + 2 * Cardinality(W \cap Inner)
  <2>1. Follows(V, W, c)
    BY <1>2, <1>3, <1>4, NextLevel, Zenon
  <2> QED
    BY <2>1 DEF Follows
<1>6. /\ LevelSymbols = {heap[n].symbol : n \in LevelLeaves}
      /\ Cardinality(LevelInner) \in Nat
  BY <1>1, LevelParts
<1>7. /\ V \cap Range(level) = {}
      /\ \A d \in DOMAIN depths : depths[d] \subseteq {heap[n].symbol : n \in V \cap 1..Total}
  BY <1>2 DEF Above
<1>8. LevelLeaves \in SUBSET (1..Total) /\ LevelLeaves \cap V = {}
  BY <1>7 DEF LevelLeaves
<1>9. LevelSymbols \subseteq Symbol /\ Cardinality(LevelSymbols) = Cardinality(LevelLeaves)
  BY <1>1, <1>6, <1>8, LabelsSize, Zenon
<1>10. \A j, k \in 1..Total : heap[j].symbol = heap[k].symbol => j = k
  BY <1>1 DEF HeapInv
<1>11. LevelSymbols \subseteq C!Unplaced
  <2> SUFFICES ASSUME NEW s \in LevelSymbols, NEW d \in DOMAIN depths, s \in depths[d] PROVE FALSE
    BY <1>9 DEF C!Unplaced
  <2>1. PICK j \in LevelLeaves : s = heap[j].symbol
    BY <1>6
  <2>2. PICK k \in V \cap 1..Total : s = heap[k].symbol
    BY <1>7
  <2> QED
    BY <1>8, <1>10, <2>1, <2>2
<1>a. PICK X : X = (1..Total) \ W
  OBVIOUS
<1>b. PICK T : T = {heap[n].symbol : n \in X}
  OBVIOUS
<1>12. T \subseteq Symbol /\ IsFiniteSet(T) /\ Cardinality(T) = Cardinality(X)
  <2>1. X \in SUBSET (1..Total)
    BY <1>a
  <2> QED
    BY <1>1, <1>b, <2>1, LabelsSize, Zenon
<1>13. T \subseteq C!Unplaced \ LevelSymbols
  <2> SUFFICES ASSUME NEW s \in T
               PROVE  s \in Symbol /\ s \notin LevelSymbols /\ \A d \in DOMAIN depths : s \notin depths[d]
    BY DEF C!Unplaced
  <2>1. PICK j \in X : s = heap[j].symbol
    BY <1>b
  <2>2. \A k \in W \cap 1..Total : heap[k].symbol # s
    BY <1>10, <1>a, <2>1
  <2>3. s \notin LevelSymbols
    BY <1>5, <1>6, <2>2
  <2>4. \A d \in DOMAIN depths : s \notin depths[d]
    BY <1>5, <1>7, <2>2
  <2> QED
    BY <1>12, <2>3, <2>4
<1>14. Cardinality(X) <= Cardinality(C!Unplaced \ LevelSymbols)
  <2>1. IsFiniteSet(C!Unplaced \ LevelSymbols)
    <3>1. C!Unplaced \ LevelSymbols \subseteq Symbol
      BY DEF C!Unplaced
    <3> QED
      BY <3>1, TreeAssumption, FS_Subset
  <2> QED
    BY <1>12, <1>13, <2>1, FS_Subset
<1>15. IsFiniteSet(1..Total) /\ Cardinality(1..Total) = Total
  <2>1. 1 \in Int /\ Total \in Int /\ ~ (1 > Total) /\ Total - 1 + 1 = Total
    BY <1>1
  <2> QED
    BY <2>1, FS_Interval
<1>16. IsFiniteSet(Inner) /\ Cardinality(Inner) = Total - 1
  <2>1. Total + 1 \in Int /\ Len(heap) \in Int /\ ~ (Total + 1 > Len(heap))
    BY <1>1
  <2>2. IsFiniteSet(Inner) /\ Cardinality(Inner) = Len(heap) - (Total + 1) + 1
    BY <2>1, FS_Interval DEF Inner
  <2> QED
    BY <1>1, <2>1, <2>2
<1>17. Cardinality(X) = Total - Cardinality(W \cap 1..Total)
  <2>1. Cardinality(X) = Cardinality(1..Total) - Cardinality((1..Total) \cap W)
    BY <1>15, <1>a, FS_Difference
  <2>2. (1..Total) \cap W = W \cap 1..Total
    OBVIOUS
  <2> QED
    BY <1>15, <2>1, <2>2
<1>18. Cardinality(W \cap Inner) <= Total - 1
  <2>1. W \cap Inner \in SUBSET Inner
    OBVIOUS
  <2> QED
    BY <1>16, <2>1, FS_Subset
<1>19. /\ Cardinality(W) = Cardinality(W \cap Inner) + Cardinality(W \cap 1..Total)
       /\ Cardinality(W \cap Inner) \in Nat /\ Cardinality(W \cap 1..Total) \in Nat
  <2>1. W = (W \cap Inner) \cup (W \cap 1..Total) /\ (W \cap Inner) \cap (W \cap 1..Total) = {}
    <3>1. Len(heap) \in Nat
      BY <1>1
    <3>2. \A n \in 1..Len(heap) : n \in Inner \/ n \in 1..Total
      BY <1>1, <3>1 DEF Inner
    <3>3. \A n \in Inner : n \notin 1..Total
      BY <1>1, <3>1 DEF Inner
    <3> QED
      BY <1>5, <3>2, <3>3 DEF Pointer
  <2>2. IsFiniteSet(W \cap Inner) /\ IsFiniteSet(W \cap 1..Total)
    BY <1>15, <1>16, FS_Intersection
  <2> QED
    BY <2>1, <2>2, Apart
<1>20. 2 * Cardinality(LevelInner) <= Cardinality(X)
  <2>a. PICK w, i, l, m, x, t : /\ w = Cardinality(W) /\ i = Cardinality(W \cap Inner)
                                /\ l = Cardinality(W \cap 1..Total) /\ m = Cardinality(LevelInner)
                                /\ x = Cardinality(X) /\ t = Total
    OBVIOUS
  <2>1. i \in Nat /\ l \in Nat /\ m \in Nat /\ t \in Nat
    BY <1>1, <1>6, <1>19, <2>a
  <2>2. w + 2 * m = 1 + 2 * i
    BY <1>5, <2>a
  <2>3. w = i + l /\ i <= t - 1 /\ x = t - l
    BY <1>17, <1>18, <1>19, <2>a
  <2>4. 2 * m <= x
    BY <2>1, <2>2, <2>3
  <2> QED
    BY <2>4, <2>a
<1>21. Cardinality(C!Unplaced \ LevelSymbols) \in Nat /\ Cardinality(X) \in Nat
  <2>1. C!Unplaced \ LevelSymbols \subseteq Symbol
    BY DEF C!Unplaced
  <2>2. IsFiniteSet(C!Unplaced \ LevelSymbols)
    BY <2>1, TreeAssumption, FS_Subset
  <2> QED
    BY <1>12, <2>2, FS_CardinalityType
<1> QED
  BY <1>6, <1>9, <1>11, <1>14, <1>20, <1>21

LEMMA FindMaps ==
  ASSUME TreeInv, FindDepth, Total >= 2
  PROVE  \E S \in SUBSET C!Unplaced : C!FindDepth(S)
<1>1. /\ phase = "find" /\ HeapInv /\ depths' = Append(depths, LevelSymbols) /\ level' = Children(level)
      /\ merged' = Append(merged, Cardinality({n \in Range(level) : IsMerged(n)}))
      /\ phase' = (IF level' = <<>> THEN "done" ELSE "find")
  BY DEF FindDepth, TreeInv, LevelSymbols
<1>2. /\ phase # "sort" /\ level \in Seq(Pointer) /\ Injects(level) /\ tree \in Inner
      /\ Len(level) = (IF merged = <<>> THEN 1 ELSE 2 * merged[Len(merged)])
      /\ depths = <<>> => level = <<tree>>
  BY <1>1 DEF TreeInv, FindInv
<1>3. /\ LevelInner = MergedOf(level) /\ LevelSymbols = {heap[n].symbol : n \in LevelLeaves}
      /\ Len(level) = Cardinality(LevelLeaves) + Cardinality(LevelInner)
      /\ Cardinality(LevelLeaves) \in Nat /\ Cardinality(LevelInner) \in Nat
  BY <1>1, <1>2, LevelParts
<1>4. /\ LevelSymbols \subseteq C!Unplaced
      /\ Cardinality(LevelSymbols) = Cardinality(LevelLeaves)
      /\ 2 * Cardinality(LevelInner) <= Cardinality(C!Unplaced \ LevelSymbols)
  BY <1>1, LeavesLeft
<1>5. C!Nodes = Len(level)
  BY <1>2 DEF C!Nodes
<1>6. /\ C!Cardinality(LevelSymbols) = Cardinality(LevelLeaves)
      /\ C!Cardinality(C!Unplaced \ LevelSymbols) = Cardinality(C!Unplaced \ LevelSymbols)
  BY <1>4, SameSize
<1>7. depths = <<>> => LevelSymbols = {}
  <2> SUFFICES ASSUME depths = <<>> PROVE LevelLeaves = {}
    BY <1>3
  <2>1. Range(level) = {tree}
    BY <1>2 DEF Range
  <2>2. tree \notin 1..Total
    BY <1>1, <1>2 DEF Inner, HeapInv
  <2> QED
    BY <2>1, <2>2 DEF LevelLeaves
<1>8. /\ C!Nodes - C!Cardinality(LevelSymbols) = Cardinality(LevelInner)
      /\ C!Cardinality(LevelSymbols) <= C!Nodes
      /\ C!Nodes = C!Cardinality(LevelSymbols) <=> Cardinality(LevelInner) = 0
  <2>a. PICK a, b, d : a = Cardinality(LevelLeaves) /\ b = Cardinality(LevelInner) /\ d = Len(level)
    OBVIOUS
  <2>1. a \in Nat /\ b \in Nat /\ d = a + b
    BY <1>3, <2>a
  <2>2. d - a = b /\ a <= d /\ (d = a <=> b = 0)
    BY <2>1
  <2> QED
    BY <1>5, <1>6, <2>2, <2>a
<1>9. merged' = Append(merged, Cardinality(LevelInner))
  BY <1>1, <1>3 DEF MergedOf
<1>10. level' = <<>> <=> Cardinality(LevelInner) = 0
  <2>1. PICK c : c = Children(level)
    OBVIOUS
  <2>2. PICK V \in SUBSET Pointer : Above(V)
    BY <1>1 DEF TreeInv, FindInv
  <2>3. PICK W : W = V \cup Range(level)
    OBVIOUS
  <2>4. Follows(V, W, c)
    BY <1>1, <2>1, <2>2, <2>3, NextLevel, Zenon
  <2>5. c \in Seq(Pointer) /\ Len(c) = 2 * Cardinality(LevelInner)
    BY <2>4 DEF Follows
  <2> QED
    BY <1>1, <1>3, <2>1, <2>5
<1>11. phase' = "done" => /\ C!Nodes = C!Cardinality(LevelSymbols)
                          /\ 0..Len(depths') - 2 = 0..Len(depths) - 1
  <2>1. Len(depths') = Len(depths) + 1 /\ Len(depths) \in Nat
    BY <1>1 DEF TreeInv, FindType
  <2> QED
    BY <1>1, <1>8, <1>10, <2>1
<1>12. phase' # "done" => C!Nodes # C!Cardinality(LevelSymbols)
  BY <1>1, <1>8, <1>10
<1>13. C!FindDepth(LevelSymbols)
  BY <1>1, <1>4, <1>6, <1>7, <1>8, <1>9, <1>11, <1>12 DEF C!FindDepth
<1> QED
  BY <1>4, <1>13

(* Where there are two symbols or more, find_depth makes of                *)
(* encode_tree_build's result one of the trees CanonicalCode is about, and *)
(* so what is proved of the canonical code there holds of the codes this   *)
(* tree gets: the tree is full, every symbol is at one depth and none is   *)
(* lost.                                                                   *)
THEOREM TreesAreFull ==
  ASSUME MinSymbols >= 2
  PROVE  Spec => ImplementsFindDepth
<1> DEFINE Enough == Total >= MinSymbols
<1>1. Spec => []Enough
  <2>1. Init => Enough
    BY DEF Init, Total
  <2>2. Enough /\ [Next]_vars => Enough'
    <3>1. [Next]_vars => freqs' = freqs
      BY DEF Next, vars, SortLeaves, MergeLowest, TakeTree, FindDepth
    <3> QED
      BY <3>1 DEF Total, Used
  <2> QED
    BY <2>1, <2>2, PTL DEF Spec
<1>2. Init => C!Init
  BY DEF Init, C!Init
<1>3. ASSUME TreeInv, Enough, [Next]_vars PROVE [C!Next]_(C!vars)
  <2>1. Total >= 2
    BY <1>3, TreeAssumption DEF TreeInv, HeapInv
  <2>2. CASE FindDepth
    BY <1>3, <2>1, <2>2, FindMaps DEF C!Next
  <2>3. CASE SortLeaves
    BY <2>3 DEF SortLeaves, C!vars
  <2>4. CASE MergeLowest
    BY <2>4 DEF MergeLowest, C!vars
  <2>5. CASE TakeTree
    BY <2>5 DEF TakeTree, C!vars
  <2>6. CASE UNCHANGED vars
    BY <2>6 DEF vars, C!vars
  <2> QED
    BY <1>3, <2>2, <2>3, <2>4, <2>5, <2>6 DEF Next
<1> QED
  BY <1>1, <1>2, <1>3, TreeStays, PTL DEF Spec, ImplementsFindDepth, C!Spec
-----------------------------------------------------------------------------
(* Code lengths, for what follows.  A tree is seen as the lengths e of its *)
(* leaves R; it is full when their shares of a tree of depth n add up to   *)
(* all of it (the Kraft equality).  The argument is Huffman's: two leaves  *)
(* that come first may as well be the deepest siblings, and siblings may   *)
(* as well be one leaf.  Weights decide, then heights: what hangs below a  *)
(* leaf counts too, so the lengths stay short as well as cheap.            *)

(* The table of the powers of two, as it is written and as it is used.     *)
IsPowers(f, n) == f = [k \in 0..n |-> IF k = 0 THEN 1 ELSE 2 * f[k - 1]]

Powered(p, n) ==
  /\ n \in Nat /\ p \in [0..n -> Nat \ {0}] /\ p[0] = 1
  /\ \A k \in 1..n : p[k] = 2 * p[k - 1]

(* Powers is what it is meant to be.                                       *)
LEMMA PowersAre ==
  ASSUME NEW n \in Nat
  PROVE  Powered(Powers(n), n)
<1> DEFINE S == Nat \ {0}
           g == [k \in Nat |-> [q \in S |-> 2 * q]]
<1>1. 1 \in S /\ g \in [Nat -> [S -> S]]
  OBVIOUS
<1>2. PICK f : Iterates(f, S, 1, g, n)
  <2> HIDE DEF S, g
  <2> QED
    BY <1>1, Recursion
<1>3. f \in [0..n -> S] /\ f[0] = 1 /\ \A k \in 1..n : f[k] = 2 * f[k - 1]
  <2>1. f \in [0..n -> S] /\ f[0] = 1 /\ \A k \in 1..n : f[k] = g[k][f[k - 1]]
    BY <1>2 DEF Iterates
  <2>2. ASSUME NEW k \in 1..n PROVE g[k][f[k - 1]] = 2 * f[k - 1]
    <3>1. f[k - 1] \in S
      BY <2>1
    <3> QED
      BY <3>1
  <2> QED
    BY <2>1, <2>2
<1>4. IsPowers(f, n)
  <2>1. DOMAIN f = 0..n /\ \A k \in 0..n : f[k] = IF k = 0 THEN 1 ELSE 2 * f[k - 1]
    BY <1>3
  <2>2. f = [k \in 0..n |-> f[k]]
    BY <1>3
  <2> QED
    BY <2>1, <2>2 DEF IsPowers
<1>5. IsPowers(Powers(n), n)
  <2>1. Powers(n) = CHOOSE h : IsPowers(h, n)
    BY Zenon DEF Powers, IsPowers
  <2> QED
    BY <1>4, <2>1
<1>6. PICK p : p = Powers(n)
  OBVIOUS
<1>7. DOMAIN p = 0..n /\ \A k \in 0..n : p[k] = IF k = 0 THEN 1 ELSE 2 * p[k - 1]
  BY <1>5, <1>6 DEF IsPowers
<1>8. p[0] = 1 /\ \A k \in 1..n : p[k] = 2 * p[k - 1]
  BY <1>7
<1> DEFINE Q == {k \in 0..n : p[k] \in Nat \ {0}}
<1>9. 0..n \subseteq Q
  <2>1. 0 \in Q
    BY <1>8
  <2>2. \A k \in 0..n - 1 : k \in Q => k + 1 \in Q
    <3> SUFFICES ASSUME NEW k \in 0..n - 1, k \in Q PROVE k + 1 \in Q
      OBVIOUS
    <3>1. p[k + 1] = 2 * p[k]
      <4>1. k + 1 \in 1..n /\ (k + 1) - 1 = k
        OBVIOUS
      <4> QED
        BY <4>1, <1>8
    <3> QED
      BY <3>1
  <2> HIDE DEF Q
  <2> QED
    BY <2>1, <2>2, IntervalIsInductive
<1>10. p \in [0..n -> Nat \ {0}]
  <2>1. p = [k \in 0..n |-> p[k]]
    BY <1>5, <1>6, <1>7 DEF IsPowers
  <2> QED
    BY <2>1, <1>9
<1> QED
  BY <1>6, <1>8, <1>10 DEF Powered

(* A higher power is an even multiple of a lower one.                      *)
LEMMA PowersDivide ==
  ASSUME NEW p, NEW n, Powered(p, n), NEW j \in 0..n, NEW k \in j + 1..n
  PROVE  \E t \in Nat : p[k] = (2 * p[j]) * t
<1>1. n \in Nat /\ p \in [0..n -> Nat \ {0}] /\ \A m \in 1..n : p[m] = 2 * p[m - 1]
  BY DEF Powered
<1>2. PICK u \in Nat : u = 2 * p[j]
  BY <1>1
<1> DEFINE Q == {m \in j + 1..n : \E t \in Nat : p[m] = u * t}
<1>3. j + 1 \in Q
  <2>1. p[j + 1] = u * 1
    <3>1. j + 1 \in 1..n /\ (j + 1) - 1 = j
      BY <1>1
    <3> QED
      BY <3>1, <1>1, <1>2
  <2>2. j + 1 \in j + 1..n
    BY <1>1
  <2> QED
    BY <2>1, <2>2
<1>4. \A m \in j + 1..n - 1 : m \in Q => m + 1 \in Q
  <2> SUFFICES ASSUME NEW m \in j + 1..n - 1, m \in Q PROVE m + 1 \in Q
    OBVIOUS
  <2>1. PICK t \in Nat : p[m] = u * t
    OBVIOUS
  <2>2. p[m + 1] = 2 * p[m]
    <3>1. m + 1 \in 1..n /\ (m + 1) - 1 = m
      BY <1>1
    <3> QED
      BY <3>1, <1>1
  <2>3. p[m + 1] = u * (2 * t) /\ 2 * t \in Nat
    BY <2>1, <2>2
  <2>4. m + 1 \in j + 1..n
    BY <1>1
  <2> QED
    BY <2>3, <2>4
<1>5. j + 1..n \subseteq Q
  <2>1. j + 1 \in Int /\ n \in Int
    BY <1>1
  <2> HIDE DEF Q
  <2> QED
    BY <1>3, <1>4, <2>1, IntervalIsInductive
<1> QED
  BY <1>5, <1>2

-----------------------------------------------------------------------------
(* Lengths that fill a tree.                                               *)

(* Every term is a multiple of m.                                          *)
Multiples(f, S, m) == \A x \in S : \E t \in Int : f[x] = m * t

(* A sum of multiples is a multiple.                                       *)
LEMMA SumMultiple ==
  ASSUME NEW S, NEW f, Summable(f, S), NEW m \in Int, Multiples(f, S, m)
  PROVE  \E t \in Int : SumFunctionOnSet(f, S) = m * t
<1>1. IsFiniteSet(S) /\ \A V \in SUBSET S : Summable(f, V)
  BY FS_Subset DEF Summable
<1> DEFINE Q == {V \in SUBSET S : \E t \in Int : SumFunctionOnSet(f, V) = m * t}
<1>2. {} \in Q
  <2>1. SumFunctionOnSet(f, {}) = m * 0
    BY SumNone
  <2> QED
    BY <2>1
<1>3. \A V \in SUBSET S : \A x \in S \ V : V \in Q => V \cup {x} \in Q
  <2> SUFFICES ASSUME NEW V \in SUBSET S, NEW x \in S \ V, V \in Q PROVE V \cup {x} \in Q
    OBVIOUS
  <2>1. f[x] \in Int
    BY DEF Summable
  <2>2. SumFunctionOnSet(f, V \cup {x}) = f[x] + SumFunctionOnSet(f, V)
    BY <1>1, <2>1, SumAdd
  <2>3. PICK t \in Int : SumFunctionOnSet(f, V) = m * t
    OBVIOUS
  <2>4. PICK u \in Int : f[x] = m * u
    BY DEF Multiples
  <2>5. m * u + m * t = m * (u + t) /\ u + t \in Int
    OBVIOUS
  <2> QED
    BY <2>2, <2>3, <2>4, <2>5
<1>4. S \in Q
  <2> HIDE DEF Q
  <2> QED
    BY <1>1, <1>2, <1>3, FiniteIsInductive
<1> QED
  BY <1>4

(* A sum of natural numbers is one.                                        *)
LEMMA SumIsNat ==
  ASSUME NEW S, NEW f, IsFiniteSet(S), \A x \in S : f[x] \in Nat
  PROVE  Summable(f, S) /\ SumFunctionOnSet(f, S) \in Nat
<1>1. Summable(f, S) /\ \A x \in S : f[x] >= 0
  BY DEF Summable
<1>2. /\ Cardinality(S) \in Nat /\ SumFunctionOnSet(f, S) \in Int
      /\ SumFunctionOnSet(f, S) >= 0 * Cardinality(S)
  BY <1>1, SumAbove
<1> QED
  BY <1>1, <1>2

(* Two elements taken from a sum.                                          *)
LEMMA SumTakeTwo ==
  ASSUME NEW S, NEW f, Summable(f, S), NEW x \in S, NEW y \in S, x # y
  PROVE  /\ f[x] \in Int /\ f[y] \in Int /\ Summable(f, S \ {x, y})
         /\ SumFunctionOnSet(f, S \ {x, y}) \in Int
         /\ SumFunctionOnSet(f, S) = f[x] + f[y] + SumFunctionOnSet(f, S \ {x, y})
<1>1. /\ Summable(f, S \ {x}) /\ f[x] \in Int
      /\ SumFunctionOnSet(f, S) = f[x] + SumFunctionOnSet(f, S \ {x})
  BY SumTake
<1>2. y \in S \ {x} /\ (S \ {x}) \ {y} = S \ {x, y}
  OBVIOUS
<1>3. /\ Summable(f, (S \ {x}) \ {y}) /\ f[y] \in Int
      /\ SumFunctionOnSet(f, (S \ {x}) \ {y}) \in Int
      /\ SumFunctionOnSet(f, S \ {x}) = f[y] + SumFunctionOnSet(f, (S \ {x}) \ {y})
  BY <1>1, <1>2, SumTake
<1>4. PICK s, t, u : /\ s = SumFunctionOnSet(f, S) /\ t = SumFunctionOnSet(f, S \ {x})
                     /\ u = SumFunctionOnSet(f, S \ {x, y})
  OBVIOUS
<1>5. s = f[x] + t /\ t = f[y] + u /\ u \in Int
  BY <1>1, <1>2, <1>3, <1>4
<1>6. s = f[x] + f[y] + u
  BY <1>1, <1>3, <1>5
<1> QED
  BY <1>1, <1>2, <1>3, <1>4, <1>6

(* What lengths take of a tree of depth n.                                 *)
Shares(e, R, p, n) == [r \in R |-> p[n - e[r]]]

(* The lengths e fill a tree of depth n: each of R has its share of it.    *)
Fills(e, R, p, n) ==
  /\ IsFiniteSet(R) /\ e \in [R -> 0..n]
  /\ SumFunctionOnSet(Shares(e, R, p, n), R) = p[n]

(* Each has a share, and the shares add up to a natural number.            *)
LEMMA SharesAre ==
  ASSUME NEW p, NEW n, Powered(p, n), NEW R, IsFiniteSet(R), NEW e \in [R -> 0..n]
  PROVE  /\ \A r \in R : /\ n - e[r] \in 0..n
                         /\ Shares(e, R, p, n)[r] = p[n - e[r]]
                         /\ Shares(e, R, p, n)[r] \in Nat \ {0}
         /\ Summable(Shares(e, R, p, n), R)
         /\ \A T \in SUBSET R : SumFunctionOnSet(Shares(e, R, p, n), T) \in Nat
<1>1. n \in Nat /\ p \in [0..n -> Nat \ {0}]
  BY DEF Powered
<1> DEFINE f == Shares(e, R, p, n)
<1>2. \A r \in R : n - e[r] \in 0..n /\ f[r] = p[n - e[r]] /\ f[r] \in Nat \ {0}
  BY <1>1 DEF Shares
<1> HIDE DEF f
<1>3. ASSUME NEW T \in SUBSET R PROVE IsFiniteSet(T) /\ \A x \in T : f[x] \in Nat
  BY <1>2, FS_Subset
<1>4. \A T \in SUBSET R : Summable(f, T) /\ SumFunctionOnSet(f, T) \in Nat
  BY <1>3, SumIsNat
<1> QED
  BY <1>2, <1>4 DEF f

(* A filled tree with two leaves has a deepest one, and next to each leaf  *)
(* another that is as deep as the deepest.                                 *)
LEMMA Deepest ==
  ASSUME NEW p, NEW n, Powered(p, n), NEW R, NEW e, Fills(e, R, p, n),
         NEW a \in R, NEW b \in R, a # b
  PROVE  \E D \in 1..n : /\ \A r \in R : e[r] <= D
                         /\ \A x \in R : \E y \in R \ {x} : e[y] = D
<1>1. IsFiniteSet(R) /\ e \in [R -> 0..n] /\ n \in Nat /\ p \in [0..n -> Nat \ {0}]
  BY DEF Fills, Powered
<1> DEFINE f == Shares(e, R, p, n)
<1>2. /\ \A r \in R : n - e[r] \in 0..n /\ f[r] = p[n - e[r]] /\ f[r] \in Nat \ {0}
      /\ Summable(f, R) /\ SumFunctionOnSet(f, R) = p[n]
      /\ \A T \in SUBSET R : SumFunctionOnSet(f, T) \in Nat
  <2>1. SumFunctionOnSet(f, R) = p[n]
    BY DEF Fills
  <2> HIDE DEF f
  <2>2. /\ \A r \in R : n - e[r] \in 0..n /\ f[r] = p[n - e[r]] /\ f[r] \in Nat \ {0}
        /\ Summable(f, R)
        /\ \A T \in SUBSET R : SumFunctionOnSet(f, T) \in Nat
    <3>1. IsFiniteSet(R) /\ e \in [R -> 0..n]
      BY <1>1
    <3>2. /\ \A r \in R : /\ n - e[r] \in 0..n
                          /\ Shares(e, R, p, n)[r] = p[n - e[r]]
                          /\ Shares(e, R, p, n)[r] \in Nat \ {0}
          /\ Summable(Shares(e, R, p, n), R)
          /\ \A T \in SUBSET R : SumFunctionOnSet(Shares(e, R, p, n), T) \in Nat
      BY <3>1, SharesAre
    <3> QED
      BY <3>2, Zenon DEF f
  <2> QED
    BY <2>1, <2>2
<1>3. PICK D \in 0..n : (\A r \in R : e[r] <= D) /\ \E r \in R : e[r] = D
  <2> DEFINE T == {n - e[r] : r \in R}
  <2>1. T \in SUBSET Nat /\ T # {}
    BY <1>1
  <2>2. PICK m \in T : \A k \in T : m <= k
    <3> HIDE DEF T
    <3> QED
      BY <2>1, Least
  <2>3. PICK r \in R : m = n - e[r]
    OBVIOUS
  <2>4. ASSUME NEW q \in R PROVE e[q] <= e[r]
    <3>1. n - e[q] \in T
      OBVIOUS
    <3>2. n - e[r] <= n - e[q]
      BY <2>2, <2>3, <3>1
    <3> QED
      BY <1>1, <3>2
  <2> QED
    BY <2>3, <2>4, <1>1
<1> HIDE DEF f
<1>4. D # 0
  <2> SUFFICES ASSUME D = 0 PROVE FALSE
    OBVIOUS
  <2>1. f[a] = p[n] /\ f[b] = p[n]
    BY <1>1, <1>2, <1>3
  <2>2. SumFunctionOnSet(f, R) = f[a] + f[b] + SumFunctionOnSet(f, R \ {a, b})
    BY <1>2, SumTakeTwo
  <2>3. SumFunctionOnSet(f, R \ {a, b}) \in Nat /\ p[n] \in Nat \ {0}
    BY <1>1, <1>2
  <2>4. PICK q, t : q = p[n] /\ t = SumFunctionOnSet(f, R \ {a, b})
    OBVIOUS
  <2>5. q = q + q + t /\ q \in Nat \ {0} /\ t \in Nat
    BY <1>2, <2>1, <2>2, <2>3, <2>4
  <2> QED
    BY <2>5
<1>5. ASSUME NEW x \in R, \A y \in R \ {x} : e[y] # D PROVE FALSE
  <2>1. e[x] = D
    BY <1>3, <1>5
  <2>2. PICK u \in Nat \ {0} : u = p[n - D] /\ f[x] = u
    BY <1>1, <1>2, <2>1
  <2>3. n - D \in 0..n
    BY <1>1
  <2>4. PICK s \in Nat : p[n] = (2 * u) * s
    <3>1. n \in n - D + 1..n
      BY <1>1, <1>4
    <3> QED
      BY <2>2, <2>3, <3>1, PowersDivide
  <2>5. \A y \in R \ {x} : \E t \in Int : f[y] = (2 * u) * t
    <3> SUFFICES ASSUME NEW y \in R \ {x} PROVE \E t \in Int : f[y] = (2 * u) * t
      OBVIOUS
    <3>1. n - e[y] \in n - D + 1..n
      BY <1>1, <1>3, <1>5
    <3>2. \E t \in Nat : p[n - e[y]] = (2 * u) * t
      BY <2>2, <2>3, <3>1, PowersDivide
    <3> QED
      BY <1>2, <3>2
  <2>6. PICK t \in Int : SumFunctionOnSet(f, R \ {x}) = (2 * u) * t
    <3>1. PICK m \in Int : m = 2 * u
      OBVIOUS
    <3>2. Summable(f, R \ {x})
      BY <1>2, SumTake
    <3>3. Multiples(f, R \ {x}, m)
      BY <2>5, <3>1 DEF Multiples
    <3>4. \E t \in Int : SumFunctionOnSet(f, R \ {x}) = m * t
      BY <3>2, <3>3, SumMultiple
    <3> QED
      BY <3>1, <3>4
  <2>7. p[n] = u + (2 * u) * t
    <3>1. SumFunctionOnSet(f, R) = f[x] + SumFunctionOnSet(f, R \ {x})
      BY <1>2, SumTake
    <3> QED
      BY <1>2, <2>2, <2>6, <3>1
  <2>8. PICK v \in Int : v = u * s /\ v \in Int
    OBVIOUS
  <2>9. PICK w \in Int : w = u * t
    OBVIOUS
  <2>10. 2 * v = u + 2 * w
    <3>1. (2 * u) * s = 2 * v /\ (2 * u) * t = 2 * w
      BY <2>8, <2>9
    <3> QED
      BY <3>1, <2>4, <2>7
  <2>11. u * (s - t) = v - w
    BY <2>8, <2>9
  <2>12. PICK d \in Int : d = s - t
    OBVIOUS
  <2>13. u = 2 * (u * d)
    BY <2>10, <2>11, <2>12
  <2>14. d <= 0 => u * d <= 0
    <3> SUFFICES ASSUME d <= 0 PROVE u * d <= 0
      OBVIOUS
    <3>1. PICK c \in Nat : d = -c
      <4>1. -d \in Nat
        OBVIOUS
      <4> QED
        BY <4>1
    <3>2. u * c \in Nat /\ u * d = -(u * c)
      BY <3>1
    <3> QED
      BY <3>2
  <2>15. d >= 1 => u * d >= u
    <3> SUFFICES ASSUME d >= 1 PROVE u * d >= u
      OBVIOUS
    <3>1. PICK c \in Nat : d = c + 1
      <4>1. d - 1 \in Nat
        OBVIOUS
      <4> QED
        BY <4>1
    <3>2. u * c \in Nat /\ u * d = u * c + u
      BY <3>1
    <3> QED
      BY <3>2
  <2>16. PICK q \in Int : q = u * d
    OBVIOUS
  <2> QED
    BY <2>13, <2>14, <2>15, <2>16
<1> QED
  BY <1>3, <1>4, <1>5
-----------------------------------------------------------------------------
(* What lengths cost: the sum of each, as often as w says.                 *)

(* What each length costs, and what they cost together.                    *)
Terms(e, w, R) == [r \in R |-> e[r] * w[r]]

Dot(e, w, R) == SumFunctionOnSet(Terms(e, w, R), R)

(* Weights and heights of R.                                               *)
Weighs(w, h, R) == IsFiniteSet(R) /\ \A r \in R : w[r] \in Nat /\ h[r] \in Nat

(* Lighter, or as light and no higher.                                     *)
Before(w, h, x, y) == w[x] < w[y] \/ (w[x] = w[y] /\ h[x] <= h[y])

(* Where trees of height h hang at the lengths f, those at the lengths e   *)
(* reach no deeper.                                                        *)
Within(e, h, R, T) == \A r \in R : e[r] + h[r] <= T

(* e reaches no deeper than f does.                                        *)
NoHigher(e, f, h, R) == \A T \in Nat : Within(f, h, R, T) => Within(e, h, R, T)

(* e costs no more than f and, if as much, reaches no deeper.              *)
NoWorse(e, f, w, h, R) ==
  /\ Dot(e, w, R) \in Nat /\ Dot(f, w, R) \in Nat
  /\ Dot(e, w, R) <= Dot(f, w, R)
  /\ Dot(e, w, R) = Dot(f, w, R) => NoHigher(e, f, h, R)

(* What lengths cost is a natural number.                                  *)
LEMMA TermsAre ==
  ASSUME NEW w, NEW h, NEW R, Weighs(w, h, R), NEW n \in Nat, NEW e \in [R -> 0..n]
  PROVE  /\ Dot(e, w, R) \in Nat
         /\ \E f : /\ Summable(f, R) /\ SumFunctionOnSet(f, R) = Dot(e, w, R)
                   /\ \A r \in R : f[r] = e[r] * w[r]
<1>1. PICK f : f = Terms(e, w, R)
  OBVIOUS
<1>2. ASSUME NEW r \in R PROVE f[r] = e[r] * w[r] /\ f[r] \in Nat
  <2>1. e[r] \in Nat /\ w[r] \in Nat
    BY DEF Weighs
  <2>2. e[r] * w[r] \in Nat
    BY <2>1
  <2> QED
    BY <1>1, <2>2 DEF Terms
<1>3. IsFiniteSet(R) /\ \A r \in R : f[r] \in Nat
  BY <1>2 DEF Weighs
<1>4. Summable(f, R) /\ SumFunctionOnSet(f, R) \in Nat
  BY <1>3, SumIsNat
<1>5. SumFunctionOnSet(f, R) = Dot(e, w, R)
  BY <1>1 DEF Dot
<1> QED
  BY <1>2, <1>4, <1>5

(* Two terms of a sum changed.                                             *)
LEMMA SumTwoChanged ==
  ASSUME NEW R, NEW f, Summable(f, R), NEW g, Summable(g, R), NEW x \in R, NEW y \in R, x # y,
         \A r \in R \ {x, y} : g[r] = f[r]
  PROVE  /\ f[x] \in Int /\ f[y] \in Int /\ g[x] \in Int /\ g[y] \in Int
         /\ SumFunctionOnSet(f, R) \in Int /\ SumFunctionOnSet(g, R) \in Int
         /\ SumFunctionOnSet(g, R) + (f[x] + f[y]) = SumFunctionOnSet(f, R) + (g[x] + g[y])
<1>1. PICK V : V = R \ {x, y}
  OBVIOUS
<1>2. /\ f[x] \in Int /\ f[y] \in Int /\ Summable(f, V) /\ SumFunctionOnSet(f, V) \in Int
      /\ SumFunctionOnSet(f, R) = f[x] + f[y] + SumFunctionOnSet(f, V)
  BY <1>1, SumTakeTwo
<1>3. /\ g[x] \in Int /\ g[y] \in Int
      /\ SumFunctionOnSet(g, R) = g[x] + g[y] + SumFunctionOnSet(g, V)
  BY <1>1, SumTakeTwo
<1>4. SumFunctionOnSet(g, V) = SumFunctionOnSet(f, V)
  <2>1. \A r \in V : g[r] = f[r]
    BY <1>1
  <2> QED
    BY <1>2, <2>1, SumSame
<1>5. PICK s, t, u : /\ s = SumFunctionOnSet(f, R) /\ t = SumFunctionOnSet(g, R)
                     /\ u = SumFunctionOnSet(f, V)
  OBVIOUS
<1>6. u \in Int /\ s = f[x] + f[y] + u /\ t = g[x] + g[y] + u
  BY <1>2, <1>3, <1>4, <1>5
<1>7. t + (f[x] + f[y]) = s + (g[x] + g[y]) /\ s \in Int /\ t \in Int
  BY <1>2, <1>3, <1>6
<1> QED
  BY <1>2, <1>3, <1>5, <1>7

(* e1 is e with the lengths of x and y exchanged.                          *)
Swapped(e1, e, x, y, R) ==
  e1[x] = e[y] /\ e1[y] = e[x] /\ \A r \in R \ {x, y} : e1[r] = e[r]

(* Lengths exchanged so that the lighter gets the longer.                  *)
LEMMA Swap ==
  ASSUME NEW p, NEW n, Powered(p, n), NEW R, NEW e, Fills(e, R, p, n),
         NEW w, NEW h, Weighs(w, h, R),
         NEW x \in R, NEW y \in R, x # y, Before(w, h, x, y), e[x] <= e[y]
  PROVE  \E e1 : Fills(e1, R, p, n) /\ Swapped(e1, e, x, y, R) /\ NoWorse(e1, e, w, h, R)
<1>1. IsFiniteSet(R) /\ e \in [R -> 0..n] /\ n \in Nat /\ e[x] \in Nat /\ e[y] \in Nat
  BY DEF Fills, Powered
<1>2. PICK d : d = [r \in R |-> IF r = x THEN e[y] ELSE IF r = y THEN e[x] ELSE e[r]]
  OBVIOUS
<1>3. d \in [R -> 0..n] /\ Swapped(d, e, x, y, R)
  <2>1. \A r \in R : d[r] \in 0..n /\ d[r] = IF r = x THEN e[y] ELSE IF r = y THEN e[x] ELSE e[r]
    BY <1>1, <1>2
  <2>2. d = [r \in R |-> d[r]]
    BY <1>2
  <2> QED
    BY <2>1, <2>2 DEF Swapped
<1>4. d[x] = e[y] /\ d[y] = e[x] /\ \A r \in R \ {x, y} : d[r] = e[r]
  BY <1>3 DEF Swapped
<1>5. Fills(d, R, p, n)
  <2>1. PICK f, g : f = Shares(e, R, p, n) /\ g = Shares(d, R, p, n)
    OBVIOUS
  <2>2. Summable(f, R) /\ \A r \in R : f[r] = p[n - e[r]]
    BY <1>1, <2>1, SharesAre
  <2>3. Summable(g, R) /\ \A r \in R : g[r] = p[n - d[r]]
    BY <1>1, <1>3, <2>1, SharesAre
  <2>4. g[x] = f[y] /\ g[y] = f[x] /\ \A r \in R \ {x, y} : g[r] = f[r]
    BY <1>4, <2>2, <2>3
  <2>5. /\ f[x] \in Int /\ f[y] \in Int /\ SumFunctionOnSet(f, R) \in Int
        /\ SumFunctionOnSet(g, R) \in Int
        /\ SumFunctionOnSet(g, R) + (f[x] + f[y]) = SumFunctionOnSet(f, R) + (g[x] + g[y])
    BY <2>2, <2>3, <2>4, SumTwoChanged
  <2>6. SumFunctionOnSet(g, R) = SumFunctionOnSet(f, R)
    BY <2>4, <2>5
  <2> QED
    BY <1>1, <1>3, <2>1, <2>6 DEF Fills
<1>6. /\ w[x] \in Nat /\ w[y] \in Nat /\ h[x] \in Nat /\ h[y] \in Nat
      /\ \A r \in R : h[r] \in Nat /\ e[r] \in Nat /\ d[r] \in Nat
  BY <1>1, <1>3 DEF Weighs
<1>7. PICK s \in Nat, t \in Nat : s = Dot(e, w, R) /\ t = Dot(d, w, R)
  <2>1. Dot(e, w, R) \in Nat
    BY <1>1, TermsAre
  <2>2. Dot(d, w, R) \in Nat
    BY <1>1, <1>3, TermsAre
  <2> QED
    BY <2>1, <2>2
<1>8. t + (e[x] * w[x] + e[y] * w[y]) = s + (e[y] * w[x] + e[x] * w[y])
  <2>2. PICK f : /\ Summable(f, R) /\ SumFunctionOnSet(f, R) = Dot(e, w, R)
                 /\ \A r \in R : f[r] = e[r] * w[r]
    BY <1>1, TermsAre
  <2>3. PICK g : /\ Summable(g, R) /\ SumFunctionOnSet(g, R) = Dot(d, w, R)
                 /\ \A r \in R : g[r] = d[r] * w[r]
    BY <1>1, <1>3, TermsAre
  <2>4. \A r \in R \ {x, y} : g[r] = f[r]
    BY <1>4, <2>2, <2>3
  <2>5. SumFunctionOnSet(g, R) + (f[x] + f[y]) = SumFunctionOnSet(f, R) + (g[x] + g[y])
    BY <2>2, <2>3, <2>4, SumTwoChanged
  <2>6. SumFunctionOnSet(f, R) = s /\ SumFunctionOnSet(g, R) = t
    BY <1>7, <2>2, <2>3
  <2> QED
    BY <1>4, <2>2, <2>3, <2>5, <2>6
<1>9. PICK i \in Nat, j \in Nat : w[y] = w[x] + i /\ e[y] = e[x] + j
  <2>1. w[y] - w[x] \in Nat /\ e[y] - e[x] \in Nat
    BY <1>1, <1>6 DEF Before
  <2> QED
    BY <1>1, <1>6, <2>1
<1>10. t + i * j = s /\ i * j \in Nat
  <2>1. PICK u \in Nat, v \in Nat : u = w[x] /\ v = e[x]
    BY <1>1, <1>6
  <2>2. t + (v * u + (v + j) * (u + i)) = s + ((v + j) * u + v * (u + i))
    BY <1>8, <1>9, <2>1
  <2>3. /\ (v + j) * (u + i) = v * u + v * i + j * u + i * j
        /\ (v + j) * u = v * u + j * u /\ v * (u + i) = v * u + v * i
    OBVIOUS
  <2>4. PICK k \in Nat, l \in Nat, m \in Nat, q \in Nat :
          k = v * u /\ l = v * i /\ m = j * u /\ q = i * j
    OBVIOUS
  <2>5. t + (k + (k + l + m + q)) = s + ((k + m) + (k + l))
    BY <2>2, <2>3, <2>4
  <2> QED
    BY <2>4, <2>5
<1>11. ASSUME s = t PROVE NoHigher(d, e, h, R)
  <2> SUFFICES ASSUME NEW T \in Nat, \A r \in R : e[r] + h[r] <= T, NEW r \in R
               PROVE  d[r] + h[r] <= T
    BY DEF NoHigher, Within
  <2>1. i = 0 \/ j = 0
    <3>1. i * j = 0
      <4>1. PICK q \in Nat : q = i * j
        BY <1>10
      <4> QED
        BY <1>10, <1>11, <4>1
    <3> QED
      BY <3>1
  <2>2. CASE r \notin {x, y}
    BY <1>4, <2>2
  <2>3. CASE j = 0
    <3>1. d[x] = e[x] /\ d[y] = e[y]
      BY <1>1, <1>4, <1>9, <2>3
    <3> QED
      BY <1>4, <3>1
  <2>4. CASE i = 0 /\ r \in {x, y}
    <3>1. h[x] <= h[y]
      BY <1>6, <1>9, <2>4 DEF Before
    <3>2. e[y] + h[y] <= T
      OBVIOUS
    <3> QED
      BY <1>1, <1>4, <1>6, <2>4, <3>1, <3>2
  <2> QED
    BY <2>1, <2>2, <2>3, <2>4
<1>12. NoWorse(d, e, w, h, R)
  <2>1. PICK q \in Nat : t + q = s
    BY <1>10
  <2> QED
    BY <1>7, <1>11, <2>1 DEF NoWorse
<1> QED
  BY <1>3, <1>5, <1>12

(* a and b of R made one, c.                                               *)
Joins(R, Q, a, b, c) ==
  a \in R /\ b \in R /\ a # b /\ c \notin R /\ Q = (R \ {a, b}) \cup {c}

(* In e they are one below where c is in d.                                *)
Deeper(e, d, R, a, b, c) ==
  e[a] = d[c] + 1 /\ e[b] = d[c] + 1 /\ \A r \in R \ {a, b} : d[r] = e[r]

(* A sum over Q, against the same sum over R.                              *)
LEMMA SumJoined ==
  ASSUME NEW R, NEW Q, NEW a, NEW b, NEW c, Joins(R, Q, a, b, c),
         NEW f, Summable(f, R), NEW g, Summable(g, Q), \A r \in R \ {a, b} : g[r] = f[r]
  PROVE  /\ f[a] \in Int /\ f[b] \in Int /\ g[c] \in Int
         /\ SumFunctionOnSet(f, R) \in Int /\ SumFunctionOnSet(g, Q) \in Int
         /\ SumFunctionOnSet(g, Q) + (f[a] + f[b]) = SumFunctionOnSet(f, R) + g[c]
<1>1. PICK V : V = R \ {a, b}
  OBVIOUS
<1>2. /\ f[a] \in Int /\ f[b] \in Int /\ Summable(f, V) /\ SumFunctionOnSet(f, V) \in Int
      /\ SumFunctionOnSet(f, R) = f[a] + f[b] + SumFunctionOnSet(f, V)
  <2>1. a \in R /\ b \in R /\ a # b
    BY DEF Joins
  <2> QED
    BY <1>1, <2>1, SumTakeTwo
<1>3. g[c] \in Int /\ SumFunctionOnSet(g, Q) = g[c] + SumFunctionOnSet(g, V)
  <2>1. c \in Q /\ Q \ {c} = V
    BY <1>1 DEF Joins
  <2> QED
    BY <2>1, SumTake
<1>4. SumFunctionOnSet(g, V) = SumFunctionOnSet(f, V)
  <2>1. \A r \in V : g[r] = f[r]
    BY <1>1
  <2> QED
    BY <1>2, <2>1, SumSame
<1>5. PICK s, t, u : /\ s = SumFunctionOnSet(f, R) /\ t = SumFunctionOnSet(g, Q)
                     /\ u = SumFunctionOnSet(f, V)
  OBVIOUS
<1>6. u \in Int /\ s = f[a] + f[b] + u /\ t = g[c] + u
  BY <1>2, <1>3, <1>4, <1>5
<1>7. t + (f[a] + f[b]) = s + g[c] /\ s \in Int /\ t \in Int
  BY <1>2, <1>3, <1>6
<1> QED
  BY <1>2, <1>3, <1>5, <1>7

(* Lengths fill R if and only if their join fills Q.                       *)
LEMMA JoinedFill ==
  ASSUME NEW p, NEW n, Powered(p, n), NEW R, NEW Q, NEW a, NEW b, NEW c, Joins(R, Q, a, b, c),
         IsFiniteSet(R), IsFiniteSet(Q), NEW e \in [R -> 0..n], NEW d \in [Q -> 0..n],
         Deeper(e, d, R, a, b, c)
  PROVE  Fills(e, R, p, n) <=> Fills(d, Q, p, n)
<1>1. PICK f, g : f = Shares(e, R, p, n) /\ g = Shares(d, Q, p, n)
  OBVIOUS
<1>2. Summable(f, R) /\ \A r \in R : f[r] = p[n - e[r]] /\ n - e[r] \in 0..n
  BY <1>1, SharesAre
<1>3. Summable(g, Q) /\ \A r \in Q : g[r] = p[n - d[r]] /\ n - d[r] \in 0..n
  BY <1>1, SharesAre
<1>4. /\ a \in R /\ b \in R /\ c \in Q /\ R \ {a, b} \subseteq Q
      /\ e[a] = d[c] + 1 /\ e[b] = d[c] + 1 /\ \A r \in R \ {a, b} : d[r] = e[r]
  BY DEF Joins, Deeper
<1>5. /\ f[a] \in Int /\ f[b] \in Int /\ g[c] \in Int
      /\ SumFunctionOnSet(f, R) \in Int /\ SumFunctionOnSet(g, Q) \in Int
      /\ SumFunctionOnSet(g, Q) + (f[a] + f[b]) = SumFunctionOnSet(f, R) + g[c]
  <2>1. \A r \in R \ {a, b} : g[r] = f[r]
    BY <1>2, <1>3, <1>4
  <2> QED
    BY <1>2, <1>3, <2>1, SumJoined
<1>6. f[a] + f[b] = g[c]
  <2>1. PICK k : k = n - d[c]
    OBVIOUS
  <2>2. n \in Nat /\ d[c] \in 0..n /\ e[a] \in 0..n /\ \A j \in 1..n : p[j] = 2 * p[j - 1]
    BY <1>4 DEF Powered
  <2>3. k \in 1..n /\ n - e[a] = k - 1 /\ n - e[b] = k - 1
    BY <1>4, <2>1, <2>2
  <2>4. p[k] = 2 * p[k - 1]
    BY <2>2, <2>3
  <2>5. f[a] = p[k - 1] /\ f[b] = p[k - 1] /\ g[c] = p[k]
    BY <1>2, <1>3, <1>4, <2>1, <2>3
  <2> QED
    BY <1>5, <2>4, <2>5
<1>7. SumFunctionOnSet(g, Q) = SumFunctionOnSet(f, R)
  BY <1>5, <1>6
<1> QED
  BY <1>1, <1>7 DEF Fills

(* c is as heavy as a and b are, and higher than both by one.              *)
Over(w, h, a, b, c) ==
  /\ w[c] = w[a] + w[b] /\ h[c] >= h[a] + 1 /\ h[c] >= h[b] + 1
  /\ h[c] = h[a] + 1 \/ h[c] = h[b] + 1

(* Joining saves the weight of c, and the depths stay.                     *)
LEMMA JoinedDot ==
  ASSUME NEW n \in Nat, NEW R, NEW Q, NEW a, NEW b, NEW c, Joins(R, Q, a, b, c),
         NEW w, NEW h, Weighs(w, h, R), Weighs(w, h, Q), Over(w, h, a, b, c),
         NEW e \in [R -> 0..n], NEW d \in [Q -> 0..n], Deeper(e, d, R, a, b, c)
  PROVE  /\ Dot(d, w, Q) \in Nat /\ Dot(e, w, R) = Dot(d, w, Q) + w[c]
         /\ \A T \in Nat : Within(e, h, R, T) <=> Within(d, h, Q, T)
<1>1. /\ a \in R /\ b \in R /\ c \in Q /\ Q = (R \ {a, b}) \cup {c}
      /\ e[a] = d[c] + 1 /\ e[b] = d[c] + 1 /\ \A r \in R \ {a, b} : d[r] = e[r]
  BY DEF Joins, Deeper
<1>2. PICK f : /\ Summable(f, R) /\ SumFunctionOnSet(f, R) = Dot(e, w, R)
               /\ \A r \in R : f[r] = e[r] * w[r]
  BY TermsAre
<1>3. PICK g : /\ Summable(g, Q) /\ SumFunctionOnSet(g, Q) = Dot(d, w, Q)
               /\ \A r \in Q : g[r] = d[r] * w[r]
  BY TermsAre
<1>4. /\ SumFunctionOnSet(f, R) \in Int /\ SumFunctionOnSet(g, Q) \in Int
      /\ SumFunctionOnSet(g, Q) + (f[a] + f[b]) = SumFunctionOnSet(f, R) + g[c]
  <2>1. \A r \in R \ {a, b} : g[r] = f[r]
    BY <1>1, <1>2, <1>3
  <2> QED
    BY <1>2, <1>3, <2>1, SumJoined
<1>5. /\ \A r \in R : w[r] \in Nat /\ h[r] \in Nat /\ e[r] \in Nat
      /\ \A r \in Q : w[r] \in Nat /\ h[r] \in Nat /\ d[r] \in Nat
  BY DEF Weighs
<1>6. Dot(e, w, R) = Dot(d, w, Q) + w[c]
  <2>1. PICK u \in Nat, v \in Nat, k \in Nat : u = w[a] /\ v = w[b] /\ k = d[c]
    BY <1>1, <1>5
  <2>2. w[c] = u + v
    BY <2>1 DEF Over
  <2>3. f[a] = (k + 1) * u /\ f[b] = (k + 1) * v /\ g[c] = k * (u + v)
    BY <1>1, <1>2, <1>3, <2>1, <2>2
  <2>4. (k + 1) * u = k * u + u /\ (k + 1) * v = k * v + v /\ k * (u + v) = k * u + k * v
    OBVIOUS
  <2>5. PICK i \in Nat, j \in Nat : i = k * u /\ j = k * v
    OBVIOUS
  <2>6. PICK s \in Int, t \in Int : s = Dot(e, w, R) /\ t = Dot(d, w, Q)
    BY <1>2, <1>3, <1>4
  <2>7. f[a] = i + u /\ f[b] = j + v /\ g[c] = i + j
    BY <2>3, <2>4, <2>5
  <2>8. t + ((i + u) + (j + v)) = s + (i + j)
    BY <1>2, <1>3, <1>4, <2>6, <2>7
  <2>9. s = t + (u + v)
    BY <2>8
  <2> QED
    BY <2>2, <2>6, <2>9
<1>7. Dot(d, w, Q) \in Nat
  BY TermsAre
<1>8. ASSUME NEW T \in Nat
      PROVE  (\A r \in R : e[r] + h[r] <= T) <=> (\A r \in Q : d[r] + h[r] <= T)
  <2>1. (e[a] + h[a] <= T /\ e[b] + h[b] <= T) <=> d[c] + h[c] <= T
    BY <1>1, <1>5 DEF Over
  <2>2. (\A r \in R : e[r] + h[r] <= T) <=>
          /\ e[a] + h[a] <= T /\ e[b] + h[b] <= T
          /\ \A r \in R \ {a, b} : e[r] + h[r] <= T
    BY <1>1
  <2>3. (\A r \in Q : d[r] + h[r] <= T) <=>
          d[c] + h[c] <= T /\ \A r \in R \ {a, b} : d[r] + h[r] <= T
    BY <1>1
  <2>4. (\A r \in R \ {a, b} : e[r] + h[r] <= T) <=> (\A r \in R \ {a, b} : d[r] + h[r] <= T)
    BY <1>1
  <2> QED
    BY <2>1, <2>2, <2>3, <2>4
<1> QED
  BY <1>6, <1>7, <1>8 DEF Within

(* No length is more than D.                                               *)
AtMost(e, R, D) == \A r \in R : e[r] <= D

(* d is e with x at the bottom, D.                                         *)
Sunk(d, e, w, h, R, D, x, y, p, n) ==
  /\ Fills(d, R, p, n) /\ NoWorse(d, e, w, h, R) /\ AtMost(d, R, D)
  /\ d[x] = D /\ \A r \in R \ {x, y} : d[r] = e[r]

(* x goes to the bottom, where y is, at no loss.                           *)
LEMMA Sink ==
  ASSUME NEW p, NEW n, Powered(p, n), NEW R, NEW e, Fills(e, R, p, n),
         NEW w, NEW h, Weighs(w, h, R), NEW D, AtMost(e, R, D),
         NEW x \in R, NEW y \in R, e[y] = D, Before(w, h, x, y)
  PROVE  \E d : Sunk(d, e, w, h, R, D, x, y, p, n)
<1>0. \A r \in R : e[r] <= D
  BY DEF AtMost
<1>1. CASE x # y
  <2>1. e[x] <= e[y]
    BY <1>0
  <2>2. PICK d : Fills(d, R, p, n) /\ Swapped(d, e, x, y, R) /\ NoWorse(d, e, w, h, R)
    BY <1>1, <2>1, Swap
  <2>3. d[x] = e[y] /\ d[y] = e[x] /\ \A r \in R \ {x, y} : d[r] = e[r]
    BY <2>2 DEF Swapped
  <2>4. AtMost(d, R, D)
    BY <1>0, <2>3 DEF AtMost
  <2> QED
    BY <2>2, <2>3, <2>4 DEF Sunk
<1>2. CASE x = y
  <2>1. e \in [R -> 0..n] /\ n \in Nat
    BY DEF Fills, Powered
  <2>2. Dot(e, w, R) \in Nat
    BY <2>1, TermsAre
  <2>3. NoWorse(e, e, w, h, R)
    BY <2>2 DEF NoWorse, NoHigher
  <2>4. \A r \in R \ {x, y} : e[r] = e[r]
    OBVIOUS
  <2> QED
    BY <1>2, <2>3, <2>4 DEF Sunk
<1> QED
  BY <1>1, <1>2

(* No worse than what is no worse.                                         *)
LEMMA NoWorseThan ==
  ASSUME NEW w, NEW h, NEW R, NEW e, NEW f, NEW g,
         NoWorse(e, f, w, h, R), NoWorse(f, g, w, h, R)
  PROVE  NoWorse(e, g, w, h, R)
<1>1. PICK x \in Nat, y \in Nat, z \in Nat :
        x = Dot(e, w, R) /\ y = Dot(f, w, R) /\ z = Dot(g, w, R)
  BY DEF NoWorse
<1>2. /\ x <= y /\ y <= z /\ (x = y => NoHigher(e, f, h, R)) /\ (y = z => NoHigher(f, g, h, R))
  BY <1>1 DEF NoWorse
<1>3. x <= z /\ (x = z => x = y /\ y = z)
  BY <1>2
<1>4. NoHigher(e, f, h, R) /\ NoHigher(f, g, h, R) => NoHigher(e, g, h, R)
  BY DEF NoHigher
<1> QED
  BY <1>1, <1>2, <1>3, <1>4 DEF NoWorse

(* a comes before all, and b before all but a.                             *)
First(w, h, R, a, b) ==
  (\A r \in R : Before(w, h, a, r)) /\ \A r \in R \ {a} : Before(w, h, b, r)

(* What merging them costs is w[c], and it leaves no less that can be had. *)
Gains(d, e, w, h, R, Q, c) ==
  /\ Dot(d, w, Q) \in Nat /\ Dot(d, w, Q) + w[c] <= Dot(e, w, R)
  /\ Dot(d, w, Q) + w[c] = Dot(e, w, R) =>
       \A T \in Nat : Within(e, h, R, T) => Within(d, h, Q, T)

(* The exchange: of any lengths for R there are as good ones where a and b *)
(* are two deepest siblings, and those are lengths for Q and c.            *)
LEMMA Greedy ==
  ASSUME NEW p, NEW n, Powered(p, n), NEW R, NEW e, Fills(e, R, p, n),
         NEW Q, NEW a, NEW b, NEW c, Joins(R, Q, a, b, c),
         NEW w, NEW h, Weighs(w, h, R), Weighs(w, h, Q), Over(w, h, a, b, c),
         First(w, h, R, a, b)
  PROVE  \E d : Fills(d, Q, p, n) /\ Gains(d, e, w, h, R, Q, c)
<1>1. a \in R /\ b \in R /\ a # b /\ c \notin R /\ Q = (R \ {a, b}) \cup {c}
  BY DEF Joins
<1>2. PICK D \in 1..n : /\ \A r \in R : e[r] <= D
                        /\ \A x \in R : \E y \in R \ {x} : e[y] = D
  BY <1>1, Deepest
<1>3. PICK d1 : /\ Fills(d1, R, p, n) /\ NoWorse(d1, e, w, h, R)
                /\ d1[a] = D /\ \A r \in R : d1[r] <= D
  <2>1. PICK y \in R : e[y] = D
    BY <1>1, <1>2
  <2>2. Before(w, h, a, y)
    BY <2>1 DEF First
  <2>3. AtMost(e, R, D)
    BY <1>2 DEF AtMost
  <2>4. PICK d0 : Sunk(d0, e, w, h, R, D, a, y, p, n)
    BY <1>1, <2>1, <2>2, <2>3, Sink
  <2> QED
    BY <2>4 DEF Sunk, AtMost
<1>4. PICK y \in R \ {a} : d1[y] = D
  <2>1. PICK G \in 1..n : /\ \A r \in R : d1[r] <= G
                          /\ \A x \in R : \E y \in R \ {x} : d1[y] = G
    BY <1>1, <1>3, Deepest
  <2>2. PICK y \in R \ {a} : d1[y] = G
    BY <1>1, <2>1
  <2>3. G <= D /\ D <= G
    BY <1>1, <1>3, <2>1, <2>2
  <2>4. G = D
    <3>1. n \in Nat
      BY DEF Powered
    <3> QED
      BY <2>3, <3>1
  <2> QED
    BY <2>2, <2>4
<1>5. PICK d2 : /\ Fills(d2, R, p, n) /\ NoWorse(d2, d1, w, h, R)
                /\ d2[b] = D /\ \A r \in R \ {b, y} : d2[r] = d1[r]
  <2>1. Before(w, h, b, y)
    BY <1>4 DEF First
  <2>2. AtMost(d1, R, D)
    BY <1>3 DEF AtMost
  <2>3. PICK d3 : Sunk(d3, d1, w, h, R, D, b, y, p, n)
    BY <1>1, <1>3, <1>4, <2>1, <2>2, Sink
  <2> QED
    BY <2>3 DEF Sunk
<1>6. d2[a] = D
  BY <1>1, <1>3, <1>4, <1>5
<1>7. NoWorse(d2, e, w, h, R)
  BY <1>3, <1>5, NoWorseThan
<1>8. n \in Nat /\ d2 \in [R -> 0..n] /\ IsFiniteSet(R) /\ IsFiniteSet(Q)
  BY <1>5 DEF Fills, Powered, Weighs
<1>9. PICK d : d = [r \in Q |-> IF r = c THEN D - 1 ELSE d2[r]]
  OBVIOUS
<1>10. d \in [Q -> 0..n] /\ d[c] = D - 1 /\ \A r \in R \ {a, b} : d[r] = d2[r]
  <2>1. ASSUME NEW r \in Q PROVE (IF r = c THEN D - 1 ELSE d2[r]) \in 0..n
    <3>1. CASE r = c
      BY <1>8, <3>1
    <3>2. CASE r # c
      BY <1>1, <1>8, <3>2
    <3> QED
      BY <3>1, <3>2
  <2>2. c \in Q /\ \A r \in R \ {a, b} : r \in Q /\ r # c
    BY <1>1
  <2> QED
    BY <1>9, <2>1, <2>2
<1>11. Deeper(d2, d, R, a, b, c)
  <2>1. d[c] + 1 = D
    BY <1>8, <1>10
  <2> QED
    BY <1>5, <1>6, <1>10, <2>1 DEF Deeper
<1>12. Fills(d, Q, p, n)
  BY <1>5, <1>8, <1>10, <1>11, JoinedFill
<1>13. /\ Dot(d, w, Q) \in Nat /\ Dot(d2, w, R) = Dot(d, w, Q) + w[c]
       /\ \A T \in Nat : Within(d2, h, R, T) <=> Within(d, h, Q, T)
  BY <1>8, <1>10, <1>11, JoinedDot
<1>14. Gains(d, e, w, h, R, Q, c)
  <2>1. /\ Dot(d2, w, R) <= Dot(e, w, R)
        /\ Dot(d2, w, R) = Dot(e, w, R) => NoHigher(d2, e, h, R)
    BY <1>7 DEF NoWorse
  <2> QED
    BY <1>13, <2>1 DEF Gains, NoHigher
<1> QED
  BY <1>12, <1>14

(* And back: lengths with c are the lengths with a and b below it.         *)
Unmerges(e, d, w, h, R, Q, a, b, c) ==
  /\ Deeper(e, d, R, a, b, c)
  /\ Dot(d, w, Q) \in Nat /\ Dot(e, w, R) = Dot(d, w, Q) + w[c]
  /\ \A T \in Nat : Within(e, h, R, T) <=> Within(d, h, Q, T)

(* Lengths for Q give lengths for R, with a and b one below c.             *)
LEMMA Split ==
  ASSUME NEW p, NEW n, Powered(p, n), NEW R, NEW Q, NEW d, Fills(d, Q, p, n),
         NEW a, NEW b, NEW c, Joins(R, Q, a, b, c),
         NEW w, NEW h, Weighs(w, h, R), Weighs(w, h, Q), Over(w, h, a, b, c),
         Within(d, h, Q, n)
  PROVE  \E e : Fills(e, R, p, n) /\ Unmerges(e, d, w, h, R, Q, a, b, c)
<1>1. a \in R /\ b \in R /\ a # b /\ c \notin R /\ Q = (R \ {a, b}) \cup {c}
  BY DEF Joins
<1>2. n \in Nat /\ d \in [Q -> 0..n] /\ IsFiniteSet(R) /\ IsFiniteSet(Q)
  BY DEF Fills, Powered, Weighs
<1>3. d[c] + 1 \in 0..n
  <2>1. c \in Q /\ d[c] \in 0..n
    BY <1>1, <1>2
  <2>2. h[a] \in Nat /\ h[c] \in Nat /\ h[c] >= h[a] + 1
    BY <1>1, <2>1 DEF Weighs, Over
  <2>3. d[c] + h[c] <= n
    BY <2>1 DEF Within
  <2> QED
    BY <1>2, <2>1, <2>2, <2>3
<1>4. PICK e : e = [r \in R |-> IF r \in {a, b} THEN d[c] + 1 ELSE d[r]]
  OBVIOUS
<1>5. e \in [R -> 0..n] /\ Deeper(e, d, R, a, b, c)
  <2>1. \A r \in R : (IF r \in {a, b} THEN d[c] + 1 ELSE d[r]) \in 0..n
    BY <1>1, <1>2, <1>3
  <2>2. e \in [R -> 0..n]
    BY <1>4, <2>1
  <2>3. e[a] = d[c] + 1 /\ e[b] = d[c] + 1 /\ \A r \in R \ {a, b} : d[r] = e[r]
    BY <1>1, <1>4
  <2> QED
    BY <2>2, <2>3 DEF Deeper
<1>6. Fills(e, R, p, n)
  BY <1>2, <1>5, JoinedFill
<1>7. /\ Dot(d, w, Q) \in Nat /\ Dot(e, w, R) = Dot(d, w, Q) + w[c]
      /\ \A T \in Nat : Within(e, h, R, T) <=> Within(d, h, Q, T)
  BY <1>2, <1>5, JoinedDot
<1> QED
  BY <1>5, <1>6, <1>7 DEF Unmerges
-----------------------------------------------------------------------------
(* The same sum over other names.                                          *)

(* g gives each of S a name in R of its own.                               *)
Names(g, S, R) ==
  /\ IsFiniteSet(S) /\ IsFiniteSet(R)
  /\ \A x \in S : g[x] \in R
  /\ \A r \in R : \E x \in S : g[x] = r
  /\ \A x, y \in S : g[x] = g[y] => x = y

(* A sum of one term.                                                      *)
LEMMA SumSingle ==
  ASSUME NEW f, NEW x, f[x] \in Int
  PROVE  Summable(f, {x}) /\ SumFunctionOnSet(f, {x}) = f[x]
<1>1. Summable(f, {}) /\ x \notin {} /\ {} \cup {x} = {x}
  BY FS_EmptySet DEF Summable
<1>2. Summable(f, {} \cup {x}) /\ SumFunctionOnSet(f, {} \cup {x}) = f[x] + SumFunctionOnSet(f, {})
  BY <1>1, SumAdd
<1>3. SumFunctionOnSet(f, {}) = 0
  BY SumNone
<1>4. Summable(f, {x}) /\ SumFunctionOnSet(f, {x}) = f[x] + SumFunctionOnSet(f, {})
  BY <1>1, <1>2, Zenon
<1> QED
  BY <1>3, <1>4

(* A sum under other names.                                                *)
LEMMA SumRenamed ==
  ASSUME NEW g, NEW S, NEW R, Names(g, S, R), NEW f, Summable(f, S),
         NEW t, \A x \in S : t[g[x]] = f[x]
  PROVE  Summable(t, R) /\ SumFunctionOnSet(t, R) = SumFunctionOnSet(f, S)
<1>1. /\ IsFiniteSet(R) /\ (\A x \in S : g[x] \in R) /\ (\A r \in R : \E x \in S : g[x] = r)
      /\ \A x, y \in S : g[x] = g[y] => x = y
  BY DEF Names
<1>2. SumsParts(t, R, f, S, g)
  <2> SUFFICES ASSUME NEW r \in R PROVE t[r] = SumFunctionOnSet(f, {x \in S : g[x] = r})
    BY DEF SumsParts
  <2>1. PICK x \in S : g[x] = r
    BY <1>1
  <2>2. {y \in S : g[y] = r} = {x}
    BY <1>1, <2>1
  <2>3. f[x] \in Int
    BY DEF Summable
  <2>4. SumFunctionOnSet(f, {x}) = f[x]
    BY <2>3, SumSingle
  <2> QED
    BY <2>1, <2>2, <2>4
<1>3. Summable(t, R) /\ SumFunctionOnSet(t, R) = SumFunctionOnSet(f, {x \in S : g[x] \in R})
  BY <1>1, <1>2, SumByParts
<1>4. {x \in S : g[x] \in R} = S
  BY <1>1
<1> QED
  BY <1>3, <1>4, Zenon

(* Lengths under other names fill as much.                                 *)
LEMMA RenamedFill ==
  ASSUME NEW p, NEW n, Powered(p, n), NEW g, NEW S, NEW R, Names(g, S, R),
         NEW e \in [S -> 0..n], NEW l \in [R -> 0..n], \A x \in S : e[x] = l[g[x]]
  PROVE  Fills(e, S, p, n) <=> Fills(l, R, p, n)
<1>1. IsFiniteSet(S) /\ IsFiniteSet(R) /\ \A x \in S : g[x] \in R
  BY DEF Names
<1>2. PICK f, t : f = Shares(e, S, p, n) /\ t = Shares(l, R, p, n)
  OBVIOUS
<1>3. Summable(f, S) /\ \A r \in S : f[r] = p[n - e[r]]
  BY <1>1, <1>2, SharesAre
<1>4. \A r \in R : t[r] = p[n - l[r]]
  BY <1>1, <1>2, SharesAre
<1>5. \A x \in S : t[g[x]] = f[x]
  BY <1>1, <1>3, <1>4
<1>6. SumFunctionOnSet(t, R) = SumFunctionOnSet(f, S)
  BY <1>3, <1>5, SumRenamed
<1> QED
  BY <1>1, <1>2, <1>6 DEF Fills

(* And cost as much.                                                       *)
LEMMA RenamedDot ==
  ASSUME NEW n \in Nat, NEW g, NEW S, NEW R, Names(g, S, R), NEW w, NEW h, Weighs(w, h, S),
         NEW e \in [S -> 0..n], NEW l, NEW t, \A x \in S : t[g[x]] = l[g[x]] * w[x],
         \A x \in S : e[x] = l[g[x]]
  PROVE  SumFunctionOnSet(t, R) = Dot(e, w, S)
<1>1. PICK f : /\ Summable(f, S) /\ SumFunctionOnSet(f, S) = Dot(e, w, S)
               /\ \A r \in S : f[r] = e[r] * w[r]
  BY TermsAre
<1>2. \A x \in S : t[g[x]] = f[x]
  BY <1>1
<1>3. SumFunctionOnSet(t, R) = SumFunctionOnSet(f, S)
  BY <1>1, <1>2, SumRenamed
<1> QED
  BY <1>1, <1>3

(* Weights and heights that agree on R.                                    *)
LEMMA SameDot ==
  ASSUME NEW R, NEW w, NEW h, NEW v, NEW k, \A r \in R : v[r] = w[r] /\ k[r] = h[r], NEW e
  PROVE  /\ Dot(e, v, R) = Dot(e, w, R)
         /\ \A T : Within(e, k, R, T) <=> Within(e, h, R, T)
<1>1. Terms(e, v, R) = Terms(e, w, R)
  BY DEF Terms
<1> QED
  BY <1>1 DEF Dot, Within

(* The greatest of a finite set of numbers.                                *)
LEMMA GreatestIs ==
  ASSUME NEW n \in Nat, NEW T \in SUBSET (0..n), T # {}
  PROVE  Max(T) \in T /\ \A x \in T : x <= Max(T)
<1> DEFINE U == {n - x : x \in T}
<1>1. U \in SUBSET Nat /\ U # {}
  <2>1. \A x \in T : x \in 0..n /\ n - x \in Nat
    OBVIOUS
  <2>2. PICK x : x \in T
    OBVIOUS
  <2> QED
    BY <2>1, <2>2
<1>2. PICK m \in U : \A k \in U : m <= k
  <2> HIDE DEF U
  <2> QED
    BY <1>1, Least
<1>3. PICK x \in T : m = n - x
  OBVIOUS
<1>4. ASSUME NEW y \in T PROVE x >= y
  <2>1. n - y \in U
    OBVIOUS
  <2>2. n - x <= n - y
    BY <1>2, <1>3, <2>1
  <2> QED
    BY <2>2
<1>5. Max(T) \in T /\ \A y \in T : Max(T) >= y
  BY <1>3, <1>4 DEF Max
<1> QED
  BY <1>5

-----------------------------------------------------------------------------
(* The tree is optimal.  While the queues are merged, what they hold are   *)
(* the roots of a forest over the symbols.  The invariant: for any full    *)
(* tree over the symbols there are lengths for the roots that, with what   *)
(* the merges have cost so far, are no worse; and any lengths for the      *)
(* roots give the symbols theirs.  With one root left, the first says that *)
(* no full tree costs less than z, the second that the tree made costs z.  *)

(* No code of a full tree is longer.                                       *)
Longest == Total - 1

(* What waits to be merged.                                                *)
Roots == Range(leaves) \cup Range(nodes)

(* What the nodes weigh.                                                   *)
Weights == [k \in Pointer |-> heap[k].priority]

(* h is how high the nodes stand.                                          *)
HeightsOf(h) ==
  /\ h \in [Pointer -> Nat]
  /\ \A k \in 1..Total : h[k] = 0
  /\ \A k \in Inner : Over(Weights, h, heap[k].left, heap[k].right, k) /\ h[k] <= k - Total

(* The leaves are the symbols; every node but the roots is some node's     *)
(* child.                                                                  *)
LeafInv ==
  /\ \A k \in 1..Total : heap[k].symbol \in Used /\ heap[k].priority = freqs[heap[k].symbol]
  /\ \A s \in Used : \E k \in 1..Total : heap[k].symbol = s

(* The merged nodes wait in order of weight and, among equals, of height;  *)
(* what was merged came before all that wait.                              *)
OrderInv(h) ==
  /\ \A j, k \in DOMAIN nodes : j < k => Before(Weights, h, nodes[j], nodes[k])
  /\ \A n \in Inner : \A x \in Kids(n), r \in Roots : Before(Weights, h, x, r)
  /\ \A k \in Pointer : k \in Roots \/ \E n \in Inner : k \in Kids(n)

(* Depths, counted from the roots.                                         *)
Labels(E) ==
  E \in [Pointer -> 0..Longest] /\ \A n \in Inner : \A x \in Kids(n) : E[x] = E[n] + 1

(* Those of the leaves.                                                    *)
OnLeaves(E) == [k \in 1..Total |-> E[k]]

(* z is what the merges so far cost.  No full tree costs less than these   *)
(* and some lengths for the roots, and if one costs as much it is as high. *)
NoneCheaper(h, z) ==
  \A l \in FullTrees(Used) : \E e :
    /\ Fills(e, Roots, Powers(Longest), Longest)
    /\ Dot(e, Weights, Roots) + z <= Cost(l)
    /\ Dot(e, Weights, Roots) + z = Cost(l) => Within(e, h, Roots, Height(l))

(* And lengths for the roots give each leaf its own.                       *)
Unfolds(E, e, h, z) ==
  /\ Labels(E) /\ \A r \in Roots : E[r] = e[r]
  /\ Fills(OnLeaves(E), 1..Total, Powers(Longest), Longest)
  /\ Dot(OnLeaves(E), Weights, 1..Total) = Dot(e, Weights, Roots) + z
  /\ \A T \in Nat : Within(e, h, Roots, T) => \A k \in 1..Total : E[k] <= T

AllUnfold(h, z) ==
  \A e : Fills(e, Roots, Powers(Longest), Longest) /\ Within(e, h, Roots, Longest) =>
           \E E : Unfolds(E, e, h, z)

(* The invariant of the loop.                                              *)
MergeInv(h, z) ==
  HeightsOf(h) /\ OrderInv(h) /\ z \in Nat /\ NoneCheaper(h, z) /\ AllUnfold(h, z)

(* E is how deep each node of the tree is.                                 *)
DepthsAre(E) ==
  /\ Labels(E) /\ E[tree] = 0
  /\ \A k \in Pointer : k = tree \/ \E n \in Inner : k \in Kids(n)
  /\ Fills(OnLeaves(E), 1..Total, Powers(Longest), Longest)
  /\ \A l \in FullTrees(Used) :
       /\ Dot(OnLeaves(E), Weights, 1..Total) <= Cost(l)
       /\ Dot(OnLeaves(E), Weights, 1..Total) = Cost(l) => \A k \in 1..Total : E[k] <= Height(l)

(* And find_depth is as deep as it has depths.                             *)
LevelsAre(E) ==
  /\ Range(level) = {n \in Pointer : E[n] = Len(depths)}
  /\ \A d \in DOMAIN depths : depths[d] = {heap[k].symbol : k \in {j \in 1..Total : E[j] = d - 1}}

(* The invariant of the proof.                                             *)
BestInv ==
  Total >= 2 =>
    /\ phase # "sort" => LeafInv
    /\ phase = "merge" => \E h, z : MergeInv(h, z)
    /\ phase \in {"find", "done"} => \E E : DepthsAre(E) /\ LevelsAre(E)

-----------------------------------------------------------------------------
(* What a full tree's lengths are.                                         *)
LEMMA FullTreesAre ==
  ASSUME Total \in Nat, Total >= 2, NEW l \in FullTrees(Used)
  PROVE  /\ Longest \in Nat \ {0} /\ Powered(Powers(Longest), Longest) /\ IsFiniteSet(Used)
         /\ l \in [Used -> 1..Longest] /\ l \in [Used -> 0..Longest]
         /\ Fills(l, Used, Powers(Longest), Longest)
         /\ Height(l) \in Nat /\ \A s \in Used : l[s] <= Height(l)
<1>1. Longest \in Nat \ {0} /\ Used \in SUBSET Symbol /\ IsFiniteSet(Used)
  <2>1. Used \in SUBSET Symbol
    BY DEF Used
  <2>2. IsFiniteSet(Used)
    BY <2>1, TreeAssumption, FS_Subset
  <2>3. Longest \in Nat \ {0}
    BY DEF Longest
  <2> QED
    BY <2>1, <2>2, <2>3
<1>2. Powered(Powers(Longest), Longest)
  BY <1>1, PowersAre
<1>3. /\ l \in [Used -> 1..Longest]
      /\ SumFunction([s \in Used |-> Powers(Longest)[Longest - l[s]]]) = Powers(Longest)[Longest]
  BY DEF FullTrees, Total, Longest
<1>4. l \in [Used -> 0..Longest]
  <2>1. 1..Longest \subseteq 0..Longest
    BY <1>1
  <2> QED
    BY <1>3, <2>1
<1>5. Fills(l, Used, Powers(Longest), Longest)
  <2>1. DOMAIN [s \in Used |-> Powers(Longest)[Longest - l[s]]] = Used
    OBVIOUS
  <2>2. SumFunctionOnSet(Shares(l, Used, Powers(Longest), Longest), Used) = Powers(Longest)[Longest]
    BY <1>3, <2>1 DEF Shares, SumFunction
  <2> QED
    BY <1>1, <1>4, <2>2 DEF Fills
<1>6. Range(l) \in SUBSET (0..Longest) /\ (\A s \in Used : l[s] \in Range(l)) /\ Range(l) # {}
  <2>1. DOMAIN l = Used
    BY <1>3
  <2>2. PICK s : s \in Used
    BY FS_EmptySet DEF Total
  <2> QED
    BY <1>4, <2>1, <2>2 DEF Range
<1>7. Height(l) \in Range(l) /\ \A x \in Range(l) : x <= Height(l)
  BY <1>1, <1>6, GreatestIs DEF Height
<1> QED
  BY <1>1, <1>2, <1>3, <1>4, <1>5, <1>6, <1>7

(* Cost, of any frequencies f.                                             *)
CostOf(l, f) == SumFunction([s \in DOMAIN l |-> l[s] * f[s]])

(* g names the leaves S: their weights and lengths are those of the names. *)
Carries(g, S, w, f, e, l) == \A k \in S : w[k] = f[g[k]] /\ e[k] = l[g[k]]

(* e and l fill as much and cost as much.                                  *)
AsGood(e, l, S, U, p, n, w, f) ==
  (Fills(e, S, p, n) <=> Fills(l, U, p, n)) /\ CostOf(l, f) = Dot(e, w, S)

(* The same lengths, of leaves and of the symbols they are.                *)
LEMMA AsSymbols ==
  ASSUME NEW p, NEW n, Powered(p, n), NEW g, NEW S, NEW U, Names(g, S, U),
         NEW w, NEW h, Weighs(w, h, S),
         NEW e \in [S -> 0..n], NEW l \in [U -> 0..n], NEW f, Carries(g, S, w, f, e, l)
  PROVE  AsGood(e, l, S, U, p, n, w, f)
<1>0. \A k \in S : w[k] = f[g[k]] /\ e[k] = l[g[k]]
  BY DEF Carries
<1>1. Fills(e, S, p, n) <=> Fills(l, U, p, n)
  BY <1>0, RenamedFill
<1>2. PICK t : t = [s \in U |-> l[s] * f[s]]
  OBVIOUS
<1>3. \A k \in S : t[g[k]] = l[g[k]] * w[k]
  <2>1. \A k \in S : g[k] \in U
    BY DEF Names
  <2> QED
    BY <1>0, <1>2, <2>1
<1>4. n \in Nat
  BY DEF Powered
<1>5. SumFunctionOnSet(t, U) = Dot(e, w, S)
  BY <1>0, <1>3, <1>4, RenamedDot
<1>6. DOMAIN l = U /\ DOMAIN t = U
  BY <1>2
<1>7. CostOf(l, f) = SumFunctionOnSet(t, U)
  <2>1. [s \in DOMAIN l |-> l[s] * f[s]] = t
    BY <1>2, <1>6
  <2> QED
    BY <1>6, <2>1 DEF SumFunction, CostOf
<1> QED
  BY <1>1, <1>5, <1>7 DEF AsGood

(* When the leaves are made, any full tree gives them lengths.             *)
LEMMA BestSort == TreeInv /\ TreeInv' /\ SortLeaves => BestInv'
<1> SUFFICES ASSUME TreeInv, TreeInv', SortLeaves, Total' >= 2 PROVE BestInv'
  BY DEF BestInv
<1>1. phase = "sort" /\ phase' = "merge" /\ UNCHANGED <<freqs, nodes>> /\ nodes = <<>> /\ HeapInv
  BY DEF SortLeaves, TreeInv, QueueInv
<1>2. /\ Used' = Used /\ Total' = Total /\ Longest' = Longest /\ Total \in Nat /\ Total >= 2
      /\ freqs \in [Symbol -> Freq]
  BY <1>1 DEF Total, Used, HeapInv, Longest
<1>3. PICK idx \in [1..Total -> Used] :
        /\ Sorted(idx)
        /\ heap' = [k \in DOMAIN idx |-> symbol(idx[k])]
        /\ leaves' = [k \in DOMAIN idx |-> k]
  BY DEF SortLeaves, Total
<1>4. \A k \in 1..Total : /\ idx[k] \in Used /\ heap'[k].symbol = idx[k]
                          /\ heap'[k].priority = freqs[idx[k]] /\ freqs[idx[k]] \in Nat
  <2>1. DOMAIN idx = 1..Total /\ \A k \in 1..Total : idx[k] \in Used
    BY <1>3
  <2>2. \A s \in Used : freqs[s] \in Nat
    BY <1>2, TreeAssumption DEF Used
  <2> QED
    BY <1>3, <2>1, <2>2 DEF symbol
<1>5. Pointer' = 1..Total /\ Roots' = 1..Total /\ Inner' = {}
  <2>1. DOMAIN idx = 1..Total
    BY <1>3
  <2>2. heap' \in Seq(Node)
    BY DEF TreeInv, HeapInv
  <2>3. Len(heap') = Total
    BY <1>2, <1>3, <2>1, <2>2
  <2>4. Range(leaves') = 1..Total /\ Range(nodes') = {}
    BY <1>1, <1>3, <2>1 DEF Range
  <2> QED
    BY <1>2, <2>3, <2>4 DEF Pointer, Roots, Inner
<1>6. Names(idx, 1..Total, Used)
  <2>1. IsFiniteSet(1..Total)
    BY <1>2, RangeIsFinite
  <2>2. IsFiniteSet(Used)
    BY <1>1, Numbers
  <2>3. \A j, k \in 1..Total : idx[j] = idx[k] => j = k
    <3>1. \A j, k \in 1..Total : heap'[j].symbol = heap'[k].symbol => j = k
      BY <1>1, <1>2 DEF TreeInv, HeapInv
    <3> QED
      BY <1>4, <3>1
  <2>4. \A s \in Used : \E k \in 1..Total : idx[k] = s
    BY <1>3 DEF Sorted, Range
  <2> QED
    BY <1>4, <2>1, <2>2, <2>3, <2>4 DEF Names
<1>7. LeafInv'
  BY <1>1, <1>2, <1>4, <1>6 DEF LeafInv, Names
<1>8. PICK h : h = [k \in 1..Total |-> 0]
  OBVIOUS
<1>9. PICK w : w = Weights'
  OBVIOUS
<1>10. \A k \in 1..Total : w[k] = freqs[idx[k]] /\ h[k] = 0
  BY <1>4, <1>5, <1>8, <1>9 DEF Weights
<1>11. Weighs(w, h, 1..Total)
  <2>1. IsFiniteSet(1..Total)
    BY <1>6 DEF Names
  <2> QED
    BY <1>4, <1>10, <2>1 DEF Weighs
<1>12. HeightsOf(h)' /\ OrderInv(h)'
  <2>1. HeightsOf(h)'
    BY <1>2, <1>5, <1>8 DEF HeightsOf
  <2>2. DOMAIN nodes' = {}
    BY <1>1
  <2> QED
    BY <1>5, <2>1, <2>2 DEF OrderInv
<1>13. \A l : Cost(l)' = Cost(l)
  BY <1>1 DEF Cost
<1>14. NoneCheaper(h, 0)'
  <2> DEFINE p == Powers(Longest)
             n == Longest
             Found(e, l) == /\ Fills(e, 1..Total, p, n)
                            /\ Dot(e, w, 1..Total) + 0 <= Cost(l)
                            /\ Dot(e, w, 1..Total) + 0 = Cost(l) => Within(e, h, 1..Total, Height(l))
  <2>1. ASSUME NEW l \in FullTrees(Used) PROVE \E e : Found(e, l)
    <3>1. /\ n \in Nat \ {0} /\ Powered(p, n) /\ l \in [Used -> 0..n] /\ Fills(l, Used, p, n)
          /\ \A s \in Used : l[s] <= Height(l)
      BY <1>2, FullTreesAre
    <3>2. PICK e : e = [k \in 1..Total |-> l[idx[k]]]
      OBVIOUS
    <3>3. e \in [1..Total -> 0..n] /\ \A k \in 1..Total : e[k] = l[idx[k]]
      <4>1. \A k \in 1..Total : l[idx[k]] \in 0..n
        BY <1>4, <3>1
      <4> QED
        BY <3>2, <4>1
    <3> HIDE DEF p, n
    <3>4. /\ Fills(e, 1..Total, p, n) <=> Fills(l, Used, p, n)
          /\ CostOf(l, freqs) = Dot(e, w, 1..Total)
      <4>1. Carries(idx, 1..Total, w, freqs, e, l)
        BY <1>10, <3>3 DEF Carries
      <4> QED
        <5>1. Powered(p, n) /\ l \in [Used -> 0..n] /\ e \in [1..Total -> 0..n]
          BY <3>1, <3>3
        <5>2. AsGood(e, l, 1..Total, Used, p, n, w, freqs)
          BY <1>6, <1>11, <5>1, <4>1, AsSymbols
        <5> QED
          BY <5>2 DEF AsGood
    <3>5. Dot(e, w, 1..Total) \in Nat
      BY <1>11, <3>1, <3>3, TermsAre
    <3>6. Dot(e, w, 1..Total) + 0 = Cost(l)
      BY <3>4, <3>5 DEF Cost, CostOf
    <3>7. Within(e, h, 1..Total, Height(l))
      <4> SUFFICES ASSUME NEW k \in 1..Total PROVE e[k] + h[k] <= Height(l)
        BY DEF Within
      <4>1. e[k] <= Height(l) /\ e[k] \in 0..n /\ h[k] = 0
        BY <1>4, <1>10, <3>1, <3>3
      <4>2. e[k] + h[k] = e[k]
        BY <4>1
      <4> QED
        BY <4>1, <4>2
    <3>8. Dot(e, w, 1..Total) + 0 <= Cost(l)
      BY <3>5, <3>6
    <3> QED
      BY <3>1, <3>4, <3>7, <3>8
  <2> QED
    BY <1>2, <1>5, <1>9, <1>13, <2>1 DEF NoneCheaper
<1>15. AllUnfold(h, 0)'
  <2> DEFINE p == Powers(Longest)
             n == Longest
  <2> SUFFICES ASSUME NEW e, Fills(e, 1..Total, p, n)
               PROVE  Unfolds(e, e, h, 0)'
    BY <1>2, <1>5 DEF AllUnfold
  <2>1. e \in [1..Total -> 0..n] /\ n \in Nat
    BY <1>2 DEF Fills, Longest
  <2>2. [k \in 1..Total |-> e[k]] = e
    BY <2>1
  <2>3. Labels(e)'
    BY <1>2, <1>5, <2>1 DEF Labels
  <2>4. OnLeaves(e)' = e
    BY <1>2, <2>2 DEF OnLeaves
  <2>5. Dot(e, w, 1..Total) = Dot(e, w, 1..Total) + 0
    <3>1. Dot(e, w, 1..Total) \in Nat
      BY <1>11, <2>1, TermsAre
    <3> QED
      BY <3>1
  <2>6. ASSUME NEW T \in Nat, Within(e, h, 1..Total, T), NEW k \in 1..Total PROVE e[k] <= T
    <3>1. e[k] + h[k] <= T /\ h[k] = 0 /\ e[k] \in 0..n
      BY <1>10, <2>1, <2>6 DEF Within
    <3> QED
      BY <2>1, <3>1
  <2> QED
    BY <1>2, <1>5, <1>9, <2>3, <2>4, <2>5, <2>6 DEF Unfolds
<1>16. MergeInv(h, 0)'
  BY <1>12, <1>14, <1>15 DEF MergeInv
<1> QED
  BY <1>1, <1>7, <1>16 DEF BestInv
-----------------------------------------------------------------------------
(* Before is transitive.                                                   *)
LEMMA BeforeBefore ==
  ASSUME NEW w, NEW h, NEW x, NEW y, NEW z, Before(w, h, x, y), Before(w, h, y, z),
         w[x] \in Nat, w[y] \in Nat, w[z] \in Nat, h[x] \in Nat, h[y] \in Nat, h[z] \in Nat
  PROVE  Before(w, h, x, z)
BY DEF Before

(* A queue in order.                                                       *)
Ordered(w, h, q) == \A j, k \in DOMAIN q : j < k => Before(w, h, q[j], q[k])

(* The head of a queue in order comes before the rest.                     *)
LEMMA HeadAndTail ==
  ASSUME NEW P, NEW q \in Seq(P), q # <<>>, NEW w, NEW h, Ordered(w, h, q)
  PROVE  /\ Head(q) \in P /\ Range(q) = {Head(q)} \cup Range(Tail(q))
         /\ Tail(q) \in Seq(P) /\ Ordered(w, h, Tail(q))
         /\ \A x \in Range(Tail(q)) : Before(w, h, Head(q), x)
<1>1. PICK t : t = Tail(q)
  OBVIOUS
<1>2. PICK n \in Nat : n = Len(q) /\ n >= 1
  <2>1. Len(q) \in Nat /\ Len(q) # 0
    BY EmptySeq
  <2> QED
    BY <2>1
<1>3. /\ t \in Seq(P) /\ DOMAIN t = 1..n - 1 /\ DOMAIN q = 1..n /\ Head(q) = q[1] /\ q[1] \in P
      /\ \A k \in 1..n - 1 : t[k] = q[k + 1]
  BY <1>1, <1>2, HeadTailProperties, LenProperties
<1>4. Range(q) = {q[1]} \cup Range(t)
  <2>1. ASSUME NEW k \in 1..n PROVE q[k] \in {q[1]} \cup Range(t)
    <3>1. CASE k = 1
      BY <3>1
    <3>2. CASE k # 1
      <4>1. k - 1 \in 1..n - 1 /\ (k - 1) + 1 = k
        BY <1>2, <3>2
      <4>2. t[k - 1] = q[k]
        BY <1>3, <4>1
      <4> QED
        BY <1>3, <4>1, <4>2 DEF Range
    <3> QED
      BY <3>1, <3>2
  <2>2. ASSUME NEW k \in 1..n - 1 PROVE t[k] \in Range(q)
    <3>1. k + 1 \in 1..n /\ t[k] = q[k + 1]
      BY <1>2, <1>3
    <3> QED
      BY <1>3, <3>1 DEF Range
  <2>3. q[1] \in Range(q)
    <3>1. 1 \in 1..n
      BY <1>2
    <3> QED
      BY <1>3, <3>1 DEF Range
  <2> QED
    BY <1>3, <2>1, <2>2, <2>3 DEF Range
<1>5. Ordered(w, h, t)
  <2> SUFFICES ASSUME NEW j \in 1..n - 1, NEW k \in 1..n - 1, j < k
               PROVE  Before(w, h, t[j], t[k])
    BY <1>3 DEF Ordered
  <2>1. j + 1 \in 1..n /\ k + 1 \in 1..n /\ j + 1 < k + 1
    BY <1>2
  <2>2. Before(w, h, q[j + 1], q[k + 1])
    BY <1>3, <2>1 DEF Ordered
  <2> QED
    BY <1>3, <2>2
<1>6. ASSUME NEW x \in Range(t) PROVE Before(w, h, q[1], x)
  <2>1. PICK k \in 1..n - 1 : x = t[k]
    BY <1>3 DEF Range
  <2>2. 1 \in 1..n /\ k + 1 \in 1..n /\ 1 < k + 1 /\ x = q[k + 1]
    BY <1>2, <1>3, <2>1
  <2>3. Before(w, h, q[1], q[k + 1])
    BY <1>3, <2>2 DEF Ordered
  <2> QED
    BY <2>2, <2>3
<1> QED
  BY <1>1, <1>3, <1>4, <1>5, <1>6

(* Two queues in order, the first of what has no height.                   *)
InOrder(P, R, w, h, a, b) ==
  /\ a \in Seq(P) /\ b \in Seq(R) /\ Ordered(w, h, a) /\ Ordered(w, h, b)
  /\ \A x \in P \cup R : w[x] \in Nat /\ h[x] \in Nat /\ w[x] = heap[x].priority
  /\ \A x \in P : h[x] = 0

(* t.node comes before all that is left.                                   *)
TakesFirst(w, h, a, b, t) ==
  /\ Range(a) \cup Range(b) = {t.node} \cup Range(t.a) \cup Range(t.b)
  /\ \A x \in Range(t.a) \cup Range(t.b) : Before(w, h, t.node, x)

(* take_lowest takes the first of all that wait, leaves first among equals:*)
(* they have no height.                                                    *)
LEMMA TakenFirst ==
  ASSUME NEW P, NEW R, NEW w, NEW h, NEW a, NEW b, InOrder(P, R, w, h, a, b),
         a # <<>> \/ b # <<>>, NEW t, t = take_lowest(a, b)
  PROVE  InOrder(P, R, w, h, t.a, t.b) /\ TakesFirst(w, h, a, b, t)
<1>1. /\ a \in Seq(P) /\ b \in Seq(R) /\ Ordered(w, h, a) /\ Ordered(w, h, b)
      /\ \A x \in P \cup R : w[x] \in Nat /\ h[x] \in Nat /\ w[x] = heap[x].priority
      /\ \A x \in P : h[x] = 0
  BY DEF InOrder
<1>2. a # <<>> =>
        /\ Head(a) \in P /\ Range(a) = {Head(a)} \cup Range(Tail(a))
        /\ Tail(a) \in Seq(P) /\ Ordered(w, h, Tail(a))
        /\ \A x \in Range(Tail(a)) : Before(w, h, Head(a), x)
  BY <1>1, HeadAndTail
<1>3. b # <<>> =>
        /\ Head(b) \in R /\ Range(b) = {Head(b)} \cup Range(Tail(b))
        /\ Tail(b) \in Seq(R) /\ Ordered(w, h, Tail(b))
        /\ \A x \in Range(Tail(b)) : Before(w, h, Head(b), x)
  BY <1>1, HeadAndTail
<1>4. /\ \A q \in Seq(P) : Range(q) \subseteq P
      /\ \A q \in Seq(R) : Range(q) \subseteq R
  BY DEF Range
<1>5. Range(<<>>) = {}
  BY DEF Range
<1>6. CASE FromLeaves(a, b)
  <2>1. a # <<>> /\ t.node = Head(a) /\ t.a = Tail(a) /\ t.b = b
    BY <1>6 DEF take_lowest, FromLeaves
  <2>2. ASSUME NEW x \in Range(b) PROVE Before(w, h, Head(a), x)
    <3>1. b # <<>>
      BY <1>5
    <3>2. heap[Head(b)].priority >= heap[Head(a)].priority
      BY <1>6, <3>1 DEF FromLeaves
    <3>3. /\ w[Head(a)] \in Nat /\ w[Head(b)] \in Nat /\ h[Head(b)] \in Nat /\ h[Head(a)] = 0
          /\ w[Head(a)] = heap[Head(a)].priority /\ w[Head(b)] = heap[Head(b)].priority
      BY <1>1, <1>2, <1>3, <2>1, <3>1
    <3>4. Before(w, h, Head(a), Head(b))
      BY <3>2, <3>3 DEF Before
    <3>5. CASE x = Head(b)
      BY <3>4, <3>5
    <3>6. CASE x # Head(b)
      <4>1. Before(w, h, Head(b), x)
        BY <1>3, <3>1, <3>6
      <4>2. w[x] \in Nat /\ h[x] \in Nat
        BY <1>1, <1>4
      <4> QED
        BY <3>3, <3>4, <4>1, <4>2, BeforeBefore
    <3> QED
      BY <3>5, <3>6
  <2>3. TakesFirst(w, h, a, b, t)
    BY <1>2, <2>1, <2>2 DEF TakesFirst
  <2> QED
    BY <1>1, <1>2, <2>1, <2>3 DEF InOrder
<1>7. CASE ~ FromLeaves(a, b)
  <2>1. b # <<>> /\ t.node = Head(b) /\ t.a = a /\ t.b = Tail(b)
    BY <1>7 DEF take_lowest, FromLeaves
  <2>2. ASSUME NEW x \in Range(a) PROVE Before(w, h, Head(b), x)
    <3>1. a # <<>>
      BY <1>5
    <3>2. ~ (heap[Head(b)].priority >= heap[Head(a)].priority)
      BY <1>7, <3>1 DEF FromLeaves
    <3>3. /\ w[Head(a)] \in Nat /\ w[Head(b)] \in Nat /\ h[Head(b)] \in Nat /\ h[Head(a)] \in Nat
          /\ w[Head(a)] = heap[Head(a)].priority /\ w[Head(b)] = heap[Head(b)].priority
      BY <1>1, <1>2, <1>3, <2>1, <3>1
    <3>4. Before(w, h, Head(b), Head(a))
      BY <3>2, <3>3 DEF Before
    <3>5. CASE x = Head(a)
      BY <3>4, <3>5
    <3>6. CASE x # Head(a)
      <4>1. Before(w, h, Head(a), x)
        BY <1>2, <3>1, <3>6
      <4>2. w[x] \in Nat /\ h[x] \in Nat
        BY <1>1, <1>4
      <4> QED
        BY <3>3, <3>4, <4>1, <4>2, BeforeBefore
    <3> QED
      BY <3>5, <3>6
  <2>3. TakesFirst(w, h, a, b, t)
    BY <1>3, <2>1, <2>2 DEF TakesFirst
  <2> QED
    BY <1>1, <1>3, <2>1, <2>3 DEF InOrder
<1> QED
  BY <1>6, <1>7

(* One turn of the loop: a and b are merged, q is left of nodes.           *)
Chosen(h, a, b, q) ==
  /\ a \in Roots /\ b \in Roots /\ a # b /\ First(Weights, h, Roots, a, b)
  /\ q \in Seq(Inner) /\ Ordered(Weights, h, q) /\ Range(q) \subseteq Roots \ {a, b}
  /\ nodes' = Append(q, Len(heap) + 1)
  /\ Roots' = (Roots \ {a, b}) \cup {Len(heap) + 1}
  /\ heap' = Append(heap, merge(a, b, heap))

(* The elements of a sequence.                                             *)
LEMMA RangeIn ==
  ASSUME NEW P, NEW q \in Seq(P)
  PROVE  (\A k \in DOMAIN q : q[k] \in P) /\ Range(q) \subseteq P
<1>1. DOMAIN q = 1..Len(q) /\ \A k \in 1..Len(q) : q[k] \in P
  BY LenProperties, ElementOfSeq
<1> QED
  BY <1>1 DEF Range

(* One element more.                                                       *)
LEMMA RangeAppend ==
  ASSUME NEW P, NEW q \in Seq(P), NEW x
  PROVE  Range(Append(q, x)) = Range(q) \cup {x}
<1>1. PICK S : S = P \cup {x}
  OBVIOUS
<1>2. q \in Seq(S) /\ x \in S /\ Len(q) \in Nat /\ DOMAIN q = 1..Len(q)
  <2>1. P \subseteq S
    BY <1>1
  <2>2. q \in Seq(S)
    BY <2>1, SeqInto
  <2> QED
    BY <1>1, <2>2, LenProperties
<1>3. PICK t : t = Append(q, x)
  OBVIOUS
<1>4. /\ t \in Seq(S) /\ Len(t) = Len(q) + 1 /\ t[Len(q) + 1] = x
      /\ \A k \in 1..Len(q) : t[k] = q[k]
  BY <1>2, <1>3, AppendProperties
<1>5. PICK n \in Nat : n = Len(q)
  BY <1>2
<1>6. /\ DOMAIN t = 1..n + 1 /\ DOMAIN q = 1..n /\ t[n + 1] = x /\ \A k \in 1..n : t[k] = q[k]
      /\ 1..n + 1 = (1..n) \cup {n + 1}
  BY <1>2, <1>4, <1>5, LenProperties
<1>7. Range(t) \subseteq Range(q) \cup {x} /\ Range(q) \cup {x} \subseteq Range(t)
  BY <1>6 DEF Range
<1> QED
  BY <1>3, <1>7

(* A turn of the loop merges the first two.                                *)
LEMMA Merging ==
  ASSUME TreeInv, MergeLowest, NEW h, HeightsOf(h), OrderInv(h)
  PROVE  \E a, b, q : Chosen(h, a, b, q)
<1>1. /\ phase = "merge" /\ Len(leaves) + Len(nodes) > 1 /\ HeapInv
  BY DEF MergeLowest, TreeInv
<1>2. /\ leaves \in Seq(1..Total) /\ nodes \in Seq(Inner)
      /\ Injects(leaves) /\ Injects(nodes) /\ Ascending(leaves) /\ Ascending(nodes)
  BY <1>1 DEF TreeInv, QueueInv
<1>3. 1..Total \subseteq Pointer /\ Inner \subseteq Pointer /\ (1..Total) \cap Inner = {}
  <2>1. Total \in Nat /\ Len(heap) \in Nat /\ Len(heap) >= Total
    BY <1>1, Numbers DEF HeapInv
  <2> QED
    BY <2>1 DEF Pointer, Inner
<1>a. PICK t : t = take_lowest(leaves, nodes)
  OBVIOUS
<1>b. PICK u : u = take_lowest(t.a, t.b)
  OBVIOUS
<1>4. Len(leaves) \in Nat /\ Len(nodes) \in Nat
  BY <1>2, LenProperties
<1>5. Waiting(1..Total, Inner, t.a, t.b) /\ Lightest(leaves, nodes, t)
  <2>1. Len(leaves) + Len(nodes) > 0
    BY <1>1, <1>4
  <2>2. Waiting(1..Total, Inner, leaves, nodes)
    BY <1>2, <1>3 DEF Waiting
  <2> QED
    BY <1>a, <1>1, <2>1, <2>2, Taken, Zenon
<1>6. Len(t.a) + Len(t.b) > 0
  <2>1. Len(t.a) + Len(t.b) = Len(leaves) + Len(nodes) - 1
    BY <1>5 DEF Lightest
  <2>2. Len(t.a) \in Nat /\ Len(t.b) \in Nat
    BY <1>5, LenProperties DEF Waiting
  <2> QED
    BY <1>1, <1>4, <2>1, <2>2, LessByOne
<1>7. Lightest(t.a, t.b, u) /\ Waiting(1..Total, Inner, u.a, u.b)
  BY <1>b, <1>1, <1>5, <1>6, Taken, Zenon
<1>c. PICK w : w = Weights
  OBVIOUS
<1>8. InOrder(1..Total, Inner, w, h, leaves, nodes)
  <2>1. \A x \in Pointer : w[x] = heap[x].priority /\ w[x] \in Nat /\ h[x] \in Nat
    BY <1>1, <1>c, Nodes DEF Weights, HeightsOf
  <2>2. \A x \in 1..Total : h[x] = 0
    BY DEF HeightsOf
  <2>3. Ordered(w, h, leaves)
    <3> SUFFICES ASSUME NEW j \in DOMAIN leaves, NEW k \in DOMAIN leaves, j < k
                 PROVE  Before(w, h, leaves[j], leaves[k])
      BY DEF Ordered
    <3>1. leaves[j] \in 1..Total /\ leaves[k] \in 1..Total
      BY <1>2, RangeIn
    <3>2. heap[leaves[j]].priority <= heap[leaves[k]].priority
      BY <1>2 DEF Ascending
    <3>3. w[leaves[j]] <= w[leaves[k]] /\ w[leaves[j]] \in Nat /\ w[leaves[k]] \in Nat
      BY <1>3, <2>1, <3>1, <3>2
    <3>4. h[leaves[j]] = 0 /\ h[leaves[k]] = 0
      BY <2>2, <3>1
    <3> QED
      BY <3>3, <3>4 DEF Before
  <2>4. Ordered(w, h, nodes)
    BY <1>c DEF OrderInv, Ordered
  <2> QED
    BY <1>2, <1>3, <2>1, <2>2, <2>3, <2>4 DEF InOrder
<1>9. InOrder(1..Total, Inner, w, h, t.a, t.b) /\ TakesFirst(w, h, leaves, nodes, t)
  <2>1. leaves # <<>> \/ nodes # <<>>
    BY <1>1, <1>2
  <2> QED
    BY <1>8, <1>a, <2>1, TakenFirst, Zenon
<1>10. InOrder(1..Total, Inner, w, h, u.a, u.b) /\ TakesFirst(w, h, t.a, t.b, u)
  <2>1. t.a # <<>> \/ t.b # <<>>
    <3>1. t.a = <<>> /\ t.b = <<>> => Len(t.a) = 0 /\ Len(t.b) = 0
      OBVIOUS
    <3>2. PICK i, j : i = Len(t.a) /\ j = Len(t.b)
      OBVIOUS
    <3>3. i + j > 0 /\ (t.a = <<>> /\ t.b = <<>> => i = 0 /\ j = 0)
      BY <1>6, <3>1, <3>2
    <3> QED
      BY <3>3
  <2> QED
    BY <1>9, <1>b, <2>1, TakenFirst, Zenon
<1>d. PICK X : X = Range(u.a) \cup Range(u.b)
  OBVIOUS
<1>11. /\ Range(leaves) \cup Range(nodes) = {t.node} \cup Range(t.a) \cup Range(t.b)
       /\ \A x \in Range(t.a) \cup Range(t.b) : Before(w, h, t.node, x)
       /\ Range(t.a) \cup Range(t.b) = {u.node} \cup X
       /\ \A x \in X : Before(w, h, u.node, x)
  <2>1. \A x \in Range(u.a) \cup Range(u.b) : Before(w, h, u.node, x)
    BY <1>10 DEF TakesFirst
  <2>2. Range(t.a) \cup Range(t.b) = {u.node} \cup Range(u.a) \cup Range(u.b)
    BY <1>10 DEF TakesFirst
  <2> QED
    BY <1>9, <1>d, <2>1, <2>2 DEF TakesFirst
<1>12. t.node \notin {u.node} \cup X /\ u.node \notin X
  <2>1. t.node \notin Range(t.a) \cup Range(t.b)
    BY <1>5 DEF Lightest
  <2>2. u.node \notin Range(u.a) \cup Range(u.b)
    BY <1>7 DEF Lightest
  <2> QED
    BY <1>11, <1>d, <2>1, <2>2
<1>13. Roots = {t.node, u.node} \cup X
  BY <1>11 DEF Roots
<1>14. First(w, h, Roots, t.node, u.node)
  <2>1. Before(w, h, t.node, t.node) /\ Before(w, h, u.node, u.node)
    <3>1. t.node \in Roots /\ u.node \in Roots
      BY <1>13
    <3>2. \A x \in Roots : w[x] \in Nat /\ h[x] \in Nat
      <4>1. Roots \subseteq (1..Total) \cup Inner
        <5>1. Range(leaves) \subseteq 1..Total /\ Range(nodes) \subseteq Inner
          BY <1>2, RangeIn
        <5> QED
          BY <5>1 DEF Roots
      <4> QED
        BY <1>8, <4>1 DEF InOrder
    <3> QED
      BY <3>1, <3>2 DEF Before
  <2> QED
    BY <1>11, <1>13, <2>1 DEF First
<1>15. /\ heap' = Append(heap, merge(t.node, u.node, heap)) /\ leaves' = u.a
       /\ nodes' = Append(u.b, Len(heap) + 1)
  BY <1>a, <1>b DEF MergeLowest
<1>16. u.b \in Seq(Inner) /\ Ordered(w, h, u.b)
  BY <1>10 DEF InOrder
<1>17. Range(nodes') = Range(u.b) \cup {Len(heap) + 1}
  BY <1>15, <1>16, RangeAppend
<1>18. Roots' = (Roots \ {t.node, u.node}) \cup {Len(heap) + 1}
  <2>1. Roots' = X \cup {Len(heap) + 1}
    BY <1>15, <1>17, <1>d DEF Roots
  <2>2. Roots \ {t.node, u.node} = X
    BY <1>12, <1>13
  <2> QED
    BY <2>1, <2>2
<1>19. Range(u.b) \subseteq Roots \ {t.node, u.node}
  BY <1>12, <1>13, <1>d
<1>20. t.node \in Roots /\ u.node \in Roots /\ t.node # u.node
  BY <1>12, <1>13
<1>21. Chosen(h, t.node, u.node, u.b)
  BY <1>c, <1>14, <1>15, <1>16, <1>18, <1>19, <1>20 DEF Chosen
<1> QED
  BY <1>21

(* What one turn of the loop leaves: a new node c over a and b, and all    *)
(* else as it was.                                                         *)
Grows(h, k, a, b, c) ==
  /\ c = Len(heap) + 1 /\ c \notin Pointer /\ Pointer' = Pointer \cup {c}
  /\ Inner' = Inner \cup {c} /\ Inner \subseteq Pointer /\ 1..Total \subseteq Pointer
  /\ Total' = Total /\ Longest' = Longest /\ Used' = Used /\ freqs' = freqs
  /\ Total \in Nat /\ Total <= Len(heap)
  /\ a \in Pointer /\ b \in Pointer /\ Roots \subseteq Pointer
  /\ \A n \in Pointer : heap'[n] = heap[n]
  /\ heap'[c].left = a /\ heap'[c].right = b
  /\ \A n \in Inner : Kids(n)' = Kids(n) /\ Kids(n) \subseteq Pointer
  /\ Kids(c)' = {a, b}

(* And how they weigh and stand.                                           *)
Heavier(h, k, a, b, c) ==
  /\ \A n \in Pointer : /\ Weights'[n] = Weights[n] /\ Weights[n] \in Nat
                        /\ k[n] = h[n] /\ h[n] \in Nat
  /\ k \in [Pointer' -> Nat] /\ Over(Weights', k, a, b, c)
  /\ Joins(Roots, Roots', a, b, c)
  /\ Weighs(Weights', k, Roots) /\ Weighs(Weights', k, Roots') /\ First(Weights', k, Roots, a, b)

(* The height of a node over two others.                                   *)
Higher(x, y) == IF x >= y THEN x + 1 ELSE y + 1

(* And the new node has their weight and stands over them.                 *)
LEMMA BestGrows ==
  ASSUME TreeInv, TreeInv', MergeLowest, NEW h, HeightsOf(h), NEW a, NEW b, NEW q, Chosen(h, a, b, q)
  PROVE  \E k, c : Grows(h, k, a, b, c) /\ Heavier(h, k, a, b, c)
<1>1. /\ HeapInv /\ HeapInv' /\ phase = "merge" /\ phase' = "merge"
      /\ freqs' = freqs
      /\ a \in Roots /\ b \in Roots /\ a # b /\ First(Weights, h, Roots, a, b)
      /\ Roots' = (Roots \ {a, b}) \cup {Len(heap) + 1}
      /\ heap' = Append(heap, merge(a, b, heap))
  BY DEF TreeInv, MergeLowest, Chosen
<1>2. PICK c : c = Len(heap) + 1
  OBVIOUS
<1>3. PICK m : m = merge(a, b, heap)
  OBVIOUS
<1>4. m.left = a /\ m.right = b /\ m.priority = heap[a].priority + heap[b].priority
  BY <1>3 DEF merge
<1>5. /\ heap \in Seq(Node) /\ Len(heap) \in Nat /\ DOMAIN heap = 1..Len(heap)
      /\ heap' \in Seq(Node) /\ Len(heap') \in Nat
      /\ Total \in Nat /\ Len(heap) >= Total
      /\ \A n \in Inner : Kids(n) \subseteq 1..n - 1
  BY <1>1, Numbers DEF HeapInv
<1>6. Len(heap') = c /\ heap'[c] = m /\ \A n \in Pointer : heap'[n] = heap[n]
  <2>1. PICK S : S = Node \cup {m}
    OBVIOUS
  <2>2. heap \in Seq(S)
    <3>1. Node \subseteq S
      BY <2>1
    <3> QED
      BY <1>5, <3>1, SeqInto
  <2>3. m \in S
    BY <2>1
  <2> QED
    BY <1>1, <1>2, <1>3, <2>2, <2>3, AppendProperties DEF Pointer
<1>7. Total' = Total /\ Longest' = Longest /\ Used' = Used
  BY <1>1 DEF Total, Used, Longest
<1>8. /\ c \notin Pointer /\ Pointer' = Pointer \cup {c}
      /\ Inner' = Inner \cup {c} /\ Inner \subseteq Pointer /\ 1..Total \subseteq Pointer
  <2>1. Pointer' = 1..c /\ Pointer = 1..Len(heap)
    BY <1>6 DEF Pointer
  <2>2. Inner' = Total + 1..c /\ Inner = Total + 1..Len(heap)
    BY <1>6, <1>7 DEF Inner
  <2>3. c \notin Pointer /\ Pointer' = Pointer \cup {c}
    BY <1>2, <1>5, <2>1
  <2>4. Inner' = Inner \cup {c}
    BY <1>2, <1>5, <2>2
  <2>5. Inner \subseteq Pointer /\ 1..Total \subseteq Pointer
    BY <1>5, <2>1, <2>2
  <2> QED
    BY <2>3, <2>4, <2>5
<1>9. Roots \subseteq Pointer
  <2>1. leaves \in Seq(1..Total) /\ nodes \in Seq(Inner)
    BY <1>1 DEF TreeInv, QueueInv
  <2>2. Range(leaves) \subseteq 1..Total /\ Range(nodes) \subseteq Inner
    BY <2>1, RangeIn
  <2> QED
    BY <1>8, <2>2 DEF Roots
<1>10. \A n \in Inner : Kids(n)' = Kids(n) /\ Kids(n) \subseteq Pointer
  <2> SUFFICES ASSUME NEW n \in Inner PROVE Kids(n)' = Kids(n) /\ Kids(n) \subseteq Pointer
    OBVIOUS
  <2>1. n \in 1..Len(heap) /\ heap'[n] = heap[n]
    BY <1>6, <1>8 DEF Pointer
  <2>2. Kids(n)' = Kids(n)
    BY <2>1 DEF Kids
  <2>3. Kids(n) \subseteq Pointer
    <3>1. 1..n - 1 \subseteq 1..Len(heap)
      BY <1>5, <2>1
    <3> QED
      BY <1>5, <3>1 DEF Pointer
  <2> QED
    BY <2>2, <2>3
<1>11. Kids(c)' = {a, b}
  BY <1>4, <1>6 DEF Kids
<1>12. PICK k : k = [n \in Pointer' |-> IF n = c THEN Higher(h[a], h[b]) ELSE h[n]]
  OBVIOUS
<1>13. Grows(h, k, a, b, c)
  BY <1>1, <1>2, <1>4, <1>5, <1>6, <1>7, <1>8, <1>9, <1>10, <1>11 DEF Grows
<1>14. \A n \in Pointer : /\ Weights'[n] = Weights[n] /\ Weights[n] \in Nat
                          /\ k[n] = h[n] /\ h[n] \in Nat
  <2> SUFFICES ASSUME NEW n \in Pointer
               PROVE  /\ Weights'[n] = Weights[n] /\ Weights[n] \in Nat
                      /\ k[n] = h[n] /\ h[n] \in Nat
    OBVIOUS
  <2>1. n \in Pointer' /\ n # c /\ heap'[n] = heap[n] /\ heap[n].priority \in Nat
    BY <1>1, <1>6, <1>8, Nodes
  <2> QED
    BY <1>12, <2>1 DEF Weights, HeightsOf
<1>15. Weights'[c] = Weights[a] + Weights[b] /\ k[c] = Higher(h[a], h[b]) /\ Weights'[c] \in Nat
  <2>1. c \in Pointer' /\ a \in Pointer /\ b \in Pointer
    BY <1>1, <1>8, <1>9
  <2>2. Weights[a] = heap[a].priority /\ Weights[b] = heap[b].priority /\ Weights'[c] = m.priority
    BY <1>6, <2>1 DEF Weights
  <2>3. Weights[a] \in Nat /\ Weights[b] \in Nat
    BY <1>14, <2>1
  <2>4. Weights'[c] = Weights[a] + Weights[b]
    BY <1>4, <2>2
  <2> QED
    BY <1>12, <2>1, <2>3, <2>4
<1>16. a \in Pointer /\ b \in Pointer
  BY <1>1, <1>9
<1>17. Over(Weights', k, a, b, c)
  <2>1. h[a] \in Nat /\ h[b] \in Nat /\ k[a] = h[a] /\ k[b] = h[b]
    BY <1>14, <1>16
  <2>2. k[c] >= k[a] + 1 /\ k[c] >= k[b] + 1 /\ (k[c] = k[a] + 1 \/ k[c] = k[b] + 1)
    BY <1>15, <2>1 DEF Higher
  <2>3. Weights'[a] = Weights[a] /\ Weights'[b] = Weights[b]
    BY <1>14, <1>16
  <2> QED
    BY <1>15, <2>2, <2>3 DEF Over
<1>18. k[c] \in Nat
  BY <1>14, <1>15, <1>16 DEF Higher
<1>19. k \in [Pointer' -> Nat]
  <2>1. \A n \in Pointer' : k[n] \in Nat
    BY <1>8, <1>14, <1>18
  <2>2. k = [n \in Pointer' |-> k[n]]
    BY <1>12
  <2> QED
    BY <2>1, <2>2
<1>20. Joins(Roots, Roots', a, b, c)
  BY <1>1, <1>2, <1>8, <1>9 DEF Joins
<1>21. Weighs(Weights', k, Roots) /\ Weighs(Weights', k, Roots')
  <2>1. IsFiniteSet(Pointer')
    <3>1. Pointer' = 1..Len(heap')
      BY DEF Pointer
    <3> QED
      BY <1>5, <3>1, RangeIsFinite
  <2>2. Roots \subseteq Pointer' /\ Roots' \subseteq Pointer'
    BY <1>1, <1>2, <1>8, <1>9
  <2>3. IsFiniteSet(Roots) /\ IsFiniteSet(Roots')
    BY <2>1, <2>2, FS_Subset
  <2>4. \A n \in Pointer' : Weights'[n] \in Nat /\ k[n] \in Nat
    BY <1>8, <1>14, <1>15, <1>18
  <2> QED
    BY <2>2, <2>3, <2>4 DEF Weighs
<1>22. First(Weights', k, Roots, a, b)
  <2>1. \A x, y \in Roots : Before(Weights', k, x, y) <=> Before(Weights, h, x, y)
    BY <1>9, <1>14 DEF Before
  <2> QED
    BY <1>1, <2>1 DEF First
<1> QED
  BY <1>13, <1>14, <1>17, <1>19, <1>20, <1>21, <1>22 DEF Heavier

(* A node that was made before comes before one that is made now.          *)
LEMMA MadeBefore ==
  ASSUME NEW w, NEW h, NEW x, NEW y, NEW a, NEW b, NEW n, NEW c,
         \A i \in {x, y, a, b, n, c} : w[i] \in Nat /\ h[i] \in Nat,
         Over(w, h, x, y, n), Over(w, h, a, b, c), Before(w, h, x, a), Before(w, h, y, b)
  PROVE  Before(w, h, n, c)
<1>1. /\ w[x] \in Nat /\ w[y] \in Nat /\ w[a] \in Nat /\ w[b] \in Nat
      /\ h[x] \in Nat /\ h[y] \in Nat /\ h[a] \in Nat /\ h[b] \in Nat
      /\ h[n] \in Nat /\ h[c] \in Nat
  OBVIOUS
<1>2. w[n] = w[x] + w[y] /\ w[c] = w[a] + w[b] /\ w[x] <= w[a] /\ w[y] <= w[b]
  BY <1>1 DEF Over, Before
<1>3. w[n] < w[c] \/ (w[n] = w[c] /\ w[x] = w[a] /\ w[y] = w[b])
  BY <1>1, <1>2
<1>4. ASSUME w[x] = w[a], w[y] = w[b] PROVE h[n] <= h[c]
  <2>1. h[x] <= h[a] /\ h[y] <= h[b]
    BY <1>1, <1>4 DEF Before
  <2> QED
    BY <1>1, <2>1 DEF Over
<1> QED
  BY <1>3, <1>4 DEF Before

(* The queue of merged nodes stays in order though nothing sorts it: a new *)
(* node comes after all that were made before.                             *)
LEMMA BestOrder ==
  ASSUME NEW h, HeightsOf(h), OrderInv(h), NEW a, NEW b, NEW q, Chosen(h, a, b, q),
         NEW k, NEW c, Grows(h, k, a, b, c), Heavier(h, k, a, b, c)
  PROVE  HeightsOf(k)' /\ OrderInv(k)'
<1>1. /\ c = Len(heap) + 1 /\ c \notin Pointer /\ Pointer' = Pointer \cup {c}
      /\ Inner' = Inner \cup {c} /\ Inner \subseteq Pointer /\ 1..Total \subseteq Pointer
      /\ Total' = Total /\ Total \in Nat /\ Total <= Len(heap)
      /\ a \in Pointer /\ b \in Pointer /\ Roots \subseteq Pointer
      /\ \A n \in Pointer : heap'[n] = heap[n]
      /\ heap'[c].left = a /\ heap'[c].right = b
      /\ \A n \in Inner : Kids(n)' = Kids(n) /\ Kids(n) \subseteq Pointer
      /\ Kids(c)' = {a, b}
  BY DEF Grows
<1>w. PICK w, v : w = Weights' /\ v = Weights
  OBVIOUS
<1>2. /\ \A n \in Pointer : w[n] = v[n] /\ v[n] \in Nat /\ k[n] = h[n] /\ h[n] \in Nat
      /\ k \in [Pointer' -> Nat] /\ Over(w, k, a, b, c)
  BY <1>w DEF Heavier
<1>3. w[c] \in Nat /\ k[c] \in Nat /\ w[c] = w[a] + w[b]
  BY <1>1, <1>2 DEF Over
<1>4. /\ \A n \in 1..Total : h[n] = 0
      /\ \A n \in Inner : Over(v, h, heap[n].left, heap[n].right, n) /\ h[n] <= n - Total
  BY <1>w DEF HeightsOf
<1>5. \A n \in Inner : Over(w, k, heap[n].left, heap[n].right, n)
  <2> SUFFICES ASSUME NEW n \in Inner PROVE Over(w, k, heap[n].left, heap[n].right, n)
    OBVIOUS
  <2>1. heap[n].left \in Pointer /\ heap[n].right \in Pointer /\ n \in Pointer
    BY <1>1 DEF Kids
  <2> QED
    BY <1>2, <1>4, <2>1 DEF Over
<1>6. \A x, y \in Pointer : Before(w, k, x, y) <=> Before(v, h, x, y)
  BY <1>2 DEF Before
<1>7. HeightsOf(k)'
  <2>1. \A n \in 1..Total : k[n] = 0
    BY <1>1, <1>2, <1>4
  <2>2. ASSUME NEW x \in Pointer PROVE k[x] + 1 <= c - Total
    <3>1. x \in 1..Len(heap) /\ Len(heap) \in Nat
      <4>1. x \in 1..Len(heap)
        BY DEF Pointer
      <4>2. Len(heap) \in Nat
        BY <1>1, <4>1 DEF Pointer, Grows
      <4> QED
        BY <4>1, <4>2
    <3>2. CASE x \in 1..Total
      BY <1>1, <2>1, <3>1, <3>2
    <3>3. CASE x \notin 1..Total
      <4>1. x \in Inner
        BY <1>1, <3>1, <3>3 DEF Inner
      <4>2. k[x] <= x - Total
        BY <1>2, <1>4, <4>1
      <4>3. k[x] \in Nat
        BY <1>2
      <4> QED
        BY <1>1, <3>1, <4>2, <4>3
    <3> QED
      BY <3>2, <3>3
  <2>3. k[c] <= c - Total
    BY <1>1, <1>2, <2>2 DEF Over
  <2>4. ASSUME NEW n \in Inner'
        PROVE  Over(w, k, heap'[n].left, heap'[n].right, n) /\ k[n] <= n - Total
    <3>1. CASE n = c
      BY <1>1, <1>2, <2>3, <3>1
    <3>2. CASE n # c
      <4>1. n \in Inner /\ n \in Pointer
        BY <1>1, <3>2
      <4> QED
        BY <1>1, <1>2, <1>4, <1>5, <4>1
    <3> QED
      BY <3>1, <3>2
  <2> QED
    BY <1>1, <1>2, <1>w, <2>1, <2>4 DEF HeightsOf
<1>8. /\ a \in Roots /\ b \in Roots /\ First(v, h, Roots, a, b)
      /\ q \in Seq(Inner) /\ Ordered(v, h, q) /\ Range(q) \subseteq Roots \ {a, b}
      /\ nodes' = Append(q, c) /\ Roots' = (Roots \ {a, b}) \cup {c}
  BY <1>1, <1>w DEF Chosen
<1>9. \A n \in Inner : \A x \in Kids(n), r \in Roots : Before(v, h, x, r)
  BY <1>w DEF OrderInv
<1>10. ASSUME NEW n \in Inner, n \in Roots PROVE Before(w, k, n, c)
  <2>1. PICK x, y : x = heap[n].left /\ y = heap[n].right
    OBVIOUS
  <2>2. x \in Pointer /\ y \in Pointer /\ n \in Pointer
    BY <1>1, <2>1 DEF Kids
  <2>3. Before(w, k, x, a) /\ Before(w, k, y, b)
    <3>1. Before(v, h, x, a) /\ Before(v, h, y, b)
      BY <1>8, <1>9, <2>1 DEF Kids
    <3> QED
      BY <1>1, <1>6, <2>2, <3>1
  <2>4. Over(w, k, x, y, n)
    BY <1>5, <2>1
  <2>5. \A i \in {x, y, a, b, n, c} : w[i] \in Nat /\ k[i] \in Nat
    BY <1>1, <1>2, <1>3, <2>2
  <2> QED
    BY <1>2, <2>3, <2>4, <2>5, MadeBefore
<1>11. \A j, l \in DOMAIN nodes' : j < l => Before(w, k, nodes'[j], nodes'[l])
  <2>1. PICK n \in Nat : n = Len(q)
    BY <1>8
  <2>2. PICK t : t = nodes'
    OBVIOUS
  <2>3. /\ DOMAIN t = 1..n + 1 /\ t[n + 1] = c /\ DOMAIN q = 1..n
        /\ \A j \in 1..n : t[j] = q[j]
    <3>1. q \in Seq(Inner') /\ c \in Inner'
      <4>1. Inner \subseteq Inner' /\ c \in Inner'
        BY <1>1
      <4> QED
        BY <1>8, <4>1, SeqInto
    <3>2. t = Append(q, c)
      BY <1>8, <2>2
    <3> QED
      BY <2>1, <3>1, <3>2, AppendProperties, LenProperties
  <2>4. \A j \in 1..n : q[j] \in Inner /\ q[j] \in Roots /\ q[j] \in Pointer
    <3>1. \A j \in 1..n : q[j] \in Range(q)
      BY <2>3 DEF Range
    <3>2. \A j \in 1..n : q[j] \in Inner
      BY <1>8, <2>3, RangeIn
    <3> QED
      BY <1>1, <1>8, <3>1, <3>2
  <2> SUFFICES ASSUME NEW j \in 1..n + 1, NEW l \in 1..n + 1, j < l
               PROVE  Before(w, k, t[j], t[l])
    BY <2>2, <2>3
  <2>5. j \in 1..n
    BY <2>1
  <2>6. CASE l = n + 1
    BY <1>10, <2>3, <2>4, <2>5, <2>6
  <2>7. CASE l # n + 1
    <3>1. l \in 1..n
      BY <2>1, <2>7
    <3>2. Before(v, h, q[j], q[l])
      BY <1>8, <2>3, <2>5, <3>1 DEF Ordered
    <3> QED
      BY <1>6, <2>3, <2>4, <2>5, <3>1, <3>2
  <2> QED
    BY <2>6, <2>7
<1>12. ASSUME NEW x \in Pointer, Before(w, k, x, a) PROVE Before(w, k, x, c)
  <2>1. /\ w[x] \in Nat /\ w[a] \in Nat /\ w[b] \in Nat /\ w[c] = w[a] + w[b]
        /\ k[x] \in Nat /\ k[a] \in Nat /\ k[c] \in Nat /\ k[c] >= k[a] + 1
    BY <1>1, <1>2, <1>3 DEF Over
  <2> QED
    BY <1>12, <2>1 DEF Before
<1>13. ASSUME NEW x \in Pointer, Before(w, k, x, b) PROVE Before(w, k, x, c)
  <2>1. /\ w[x] \in Nat /\ w[a] \in Nat /\ w[b] \in Nat /\ w[c] = w[a] + w[b]
        /\ k[x] \in Nat /\ k[b] \in Nat /\ k[c] \in Nat /\ k[c] >= k[b] + 1
    BY <1>1, <1>2, <1>3 DEF Over
  <2> QED
    BY <1>13, <2>1 DEF Before
<1>14. ASSUME NEW n \in Inner', NEW x \in Kids(n)', NEW r \in Roots' PROVE Before(w, k, x, r)
  <2>1. CASE n = c
    <3>1. x = a \/ x = b
      BY <1>1, <2>1
    <3>2. CASE r = c
      <4>1. Before(w, k, a, a) /\ Before(w, k, b, b)
        BY <1>1, <1>2 DEF Before
      <4> QED
        BY <1>1, <1>12, <1>13, <3>1, <3>2, <4>1
    <3>3. CASE r # c
      <4>1. r \in Roots /\ r # a /\ r # b
        BY <1>8, <3>3
      <4>2. Before(v, h, x, r)
        BY <1>8, <3>1, <4>1 DEF First
      <4> QED
        BY <1>1, <1>6, <3>1, <4>1, <4>2
    <3> QED
      BY <3>2, <3>3
  <2>2. CASE n # c
    <3>1. n \in Inner /\ x \in Kids(n) /\ x \in Pointer
      BY <1>1, <2>2
    <3>2. \A y \in Roots : Before(w, k, x, y)
      BY <1>1, <1>6, <1>9, <3>1
    <3>3. CASE r = c
      BY <1>8, <1>12, <3>1, <3>2, <3>3
    <3>4. CASE r # c
      BY <1>8, <3>2, <3>4
    <3> QED
      BY <3>3, <3>4
  <2> QED
    BY <2>1, <2>2
<1>15. ASSUME NEW n \in Pointer' PROVE n \in Roots' \/ \E i \in Inner' : n \in Kids(i)'
  <2>1. CASE n = c
    BY <1>8, <2>1
  <2>2. CASE n \in {a, b}
    BY <1>1, <2>2
  <2>3. CASE n \notin {a, b, c}
    <3>1. n \in Pointer
      BY <1>1, <2>3
    <3>2. CASE n \in Roots
      BY <1>8, <2>3, <3>2
    <3>3. CASE n \notin Roots
      <4>1. PICK i \in Inner : n \in Kids(i)
        BY <3>1, <3>3 DEF OrderInv
      <4> QED
        BY <1>1, <4>1
    <3> QED
      BY <3>2, <3>3
  <2> QED
    BY <2>1, <2>2, <2>3
<1>16. OrderInv(k)'
  BY <1>w, <1>11, <1>14, <1>15 DEF OrderInv
<1> QED
  BY <1>7, <1>16
-----------------------------------------------------------------------------
(* What a full tree costs is a natural number.                             *)
LEMMA CostIsNat ==
  ASSUME Total \in Nat, Total >= 2, freqs \in [Symbol -> Freq], NEW l \in FullTrees(Used)
  PROVE  Cost(l) \in Nat
<1>1. IsFiniteSet(Used) /\ l \in [Used -> 0..Longest] /\ Longest \in Nat
  BY FullTreesAre
<1>2. PICK f : f = [s \in DOMAIN l |-> l[s] * freqs[s]]
  OBVIOUS
<1>3. DOMAIN f = Used /\ \A s \in Used : f[s] \in Nat
  <2> SUFFICES ASSUME NEW s \in Used PROVE DOMAIN f = Used /\ f[s] \in Nat
    BY <1>1, <1>2
  <2>1. freqs[s] \in Nat
    BY TreeAssumption DEF Used
  <2>2. l[s] \in Nat
    BY <1>1
  <2>3. f[s] = l[s] * freqs[s]
    BY <1>1, <1>2
  <2> QED
    BY <1>1, <1>2, <2>1, <2>2, <2>3
<1>4. SumFunctionOnSet(f, Used) \in Nat
  BY <1>1, <1>3, SumIsNat
<1>5. Cost(l) = SumFunctionOnSet(f, Used)
  BY <1>2, <1>3 DEF Cost, SumFunction
<1> QED
  BY <1>4, <1>5

(* Still no full tree costs less.                                          *)
LEMMA BestCheaper ==
  ASSUME Total >= 2, NEW h, NEW z \in Nat, NoneCheaper(h, z), NEW a, NEW b, NEW k, NEW c,
         Grows(h, k, a, b, c), Heavier(h, k, a, b, c), NEW y, y = z + Weights'[c],
         freqs \in [Symbol -> Freq]
  PROVE  y \in Nat /\ NoneCheaper(k, y)'
<1>1. /\ c \notin Pointer /\ Pointer' = Pointer \cup {c}
      /\ Total' = Total /\ Longest' = Longest /\ Used' = Used /\ freqs' = freqs
      /\ Total \in Nat /\ a \in Pointer /\ b \in Pointer /\ Roots \subseteq Pointer
  BY DEF Grows
<1>w. PICK w, v : w = Weights' /\ v = Weights
  OBVIOUS
<1>2. /\ \A n \in Pointer : w[n] = v[n] /\ v[n] \in Nat /\ k[n] = h[n] /\ h[n] \in Nat
      /\ Over(w, k, a, b, c) /\ First(w, k, Roots, a, b)
  BY <1>w DEF Heavier
<1>q. PICK R, Q : R = Roots /\ Q = Roots'
  OBVIOUS
<1>3. /\ Joins(R, Q, a, b, c) /\ Weighs(w, k, R) /\ Weighs(w, k, Q) /\ First(w, k, R, a, b)
      /\ R \subseteq Pointer
  BY <1>1, <1>w, <1>q DEF Heavier
<1>4. w[c] \in Nat /\ y = z + w[c] /\ y \in Nat
  <2>1. w[c] = w[a] + w[b]
    BY <1>2 DEF Over
  <2> QED
    BY <1>1, <1>2, <1>w, <2>1
<1>5. FullTrees(Used)' = FullTrees(Used) /\ \A l : Cost(l)' = Cost(l)
  BY <1>1 DEF FullTrees, Cost
<1>p. PICK p, n : p = Powers(Longest) /\ n = Longest
  OBVIOUS
<1>6. n \in Nat /\ Powered(p, n)
  <2>1. Longest \in Nat
    BY <1>1 DEF Longest
  <2> QED
    BY <1>p, <2>1, PowersAre
<1>7. ASSUME NEW l \in FullTrees(Used)
      PROVE  \E d : /\ Fills(d, Q, p, n) /\ Dot(d, w, Q) + y <= Cost(l)
                    /\ Dot(d, w, Q) + y = Cost(l) => Within(d, k, Q, Height(l))
  <2>1. PICK e : /\ Fills(e, R, p, n) /\ Dot(e, v, R) + z <= Cost(l)
                 /\ Dot(e, v, R) + z = Cost(l) => Within(e, h, R, Height(l))
    BY <1>q, <1>w, <1>p DEF NoneCheaper
  <2>2. Dot(e, w, R) = Dot(e, v, R) /\ \A T : Within(e, k, R, T) <=> Within(e, h, R, T)
    <3>1. \A r \in R : w[r] = v[r] /\ k[r] = h[r]
      BY <1>2, <1>3
    <3> QED
      BY <3>1, SameDot
  <2>3. PICK d : Fills(d, Q, p, n) /\ Gains(d, e, w, k, R, Q, c)
    BY <1>2, <1>3, <1>6, <2>1, Greedy
  <2>4. Dot(e, w, R) \in Nat
    <3>1. e \in [R -> 0..n]
      BY <2>1 DEF Fills
    <3> QED
      BY <1>3, <1>6, <3>1, TermsAre
  <2>5. Height(l) \in Nat
    BY <1>1, FullTreesAre
  <2>6. PICK x, t : x = Dot(d, w, Q) /\ t = Dot(e, w, R)
    OBVIOUS
  <2>7. PICK m : m = Cost(l)
    OBVIOUS
  <2>8. /\ x \in Nat /\ t \in Nat /\ x + w[c] <= t
        /\ x + w[c] = t => \A T \in Nat : Within(e, k, R, T) => Within(d, k, Q, T)
    BY <2>3, <2>4, <2>6 DEF Gains
  <2>9. t + z <= m /\ (t + z = m => Within(e, k, R, Height(l)))
    BY <2>1, <2>2, <2>6, <2>7
  <2>c. m \in Int
    BY <1>1, <2>7, CostIsNat
  <2>10. x + y <= m /\ (x + y = m => x + w[c] = t /\ t + z = m)
    BY <1>4, <2>8, <2>9, <2>c
  <2> QED
    BY <2>3, <2>5, <2>6, <2>7, <2>8, <2>9, <2>10
<1>8. NoneCheaper(k, y)'
  BY <1>1, <1>5, <1>7, <1>q, <1>w, <1>p DEF NoneCheaper
<1> QED
  BY <1>4, <1>8

(* And still lengths for the roots give each leaf its own.                 *)
LEMMA BestUnfolds ==
  ASSUME Total >= 2, NEW h, NEW z \in Nat, AllUnfold(h, z), NEW a, NEW b, NEW k, NEW c,
         Grows(h, k, a, b, c), Heavier(h, k, a, b, c), NEW y, y = z + Weights'[c]
  PROVE  AllUnfold(k, y)'
<1>1. /\ c \notin Pointer /\ Pointer' = Pointer \cup {c} /\ Inner' = Inner \cup {c}
      /\ Total' = Total /\ Longest' = Longest
      /\ Total \in Nat /\ a \in Pointer /\ b \in Pointer /\ Roots \subseteq Pointer
      /\ Inner \subseteq Pointer /\ 1..Total \subseteq Pointer /\ Kids(c)' = {a, b}
      /\ \A n \in Inner : Kids(n)' = Kids(n) /\ Kids(n) \subseteq Pointer
  BY DEF Grows
<1>w. PICK w, v : w = Weights' /\ v = Weights
  OBVIOUS
<1>2. /\ \A n \in Pointer : w[n] = v[n] /\ v[n] \in Nat /\ k[n] = h[n] /\ h[n] \in Nat
      /\ Over(w, k, a, b, c)
  BY <1>w DEF Heavier
<1>q. PICK R, Q : R = Roots /\ Q = Roots'
  OBVIOUS
<1>3. /\ Joins(R, Q, a, b, c) /\ Weighs(w, k, R) /\ Weighs(w, k, Q) /\ R \subseteq Pointer
  BY <1>1, <1>w, <1>q DEF Heavier
<1>4. w[c] \in Nat /\ y = z + w[c] /\ y \in Nat
  <2>1. w[c] = w[a] + w[b]
    BY <1>2 DEF Over
  <2> QED
    BY <1>1, <1>2, <1>w, <2>1
<1>p. PICK p, n : p = Powers(Longest) /\ n = Longest
  OBVIOUS
<1>6. n \in Nat /\ Powered(p, n)
  <2>1. Longest \in Nat
    BY <1>1 DEF Longest
  <2> QED
    BY <1>p, <2>1, PowersAre
<1>s. /\ \A f : Dot(f, w, R) = Dot(f, v, R) /\ \A T : Within(f, k, R, T) <=> Within(f, h, R, T)
      /\ \A f : Dot(f, w, 1..Total) = Dot(f, v, 1..Total)
  <2>1. \A r \in R : w[r] = v[r] /\ k[r] = h[r]
    BY <1>2, <1>3
  <2>2. \A r \in 1..Total : w[r] = v[r] /\ k[r] = h[r]
    BY <1>1, <1>2
  <2>3. ASSUME NEW f
        PROVE  Dot(f, w, R) = Dot(f, v, R) /\ \A T : Within(f, k, R, T) <=> Within(f, h, R, T)
    BY <2>1, SameDot
  <2>4. ASSUME NEW f PROVE Dot(f, w, 1..Total) = Dot(f, v, 1..Total)
    BY <2>2, SameDot
  <2> QED
    BY <2>3, <2>4
<1>7. ASSUME NEW d, Fills(d, Q, p, n), Within(d, k, Q, n)
      PROVE  \E E1 : Unfolds(E1, d, k, y)'
  <2>1. PICK e : Fills(e, R, p, n) /\ Unmerges(e, d, w, k, R, Q, a, b, c)
    BY <1>2, <1>3, <1>6, <1>7, Split
  <2>2. /\ e[a] = d[c] + 1 /\ e[b] = d[c] + 1 /\ \A r \in R \ {a, b} : d[r] = e[r]
        /\ Dot(d, w, Q) \in Nat /\ Dot(e, w, R) = Dot(d, w, Q) + w[c]
        /\ \A T \in Nat : Within(e, k, R, T) <=> Within(d, k, Q, T)
    BY <2>1 DEF Unmerges, Deeper
  <2>3. Within(e, h, R, n)
    BY <1>6, <1>7, <1>s, <2>2
  <2>4. PICK E : Unfolds(E, e, h, z)
    BY <1>q, <1>p, <2>1, <2>3 DEF AllUnfold
  <2>5. /\ E \in [Pointer -> 0..n] /\ (\A m \in Inner : \A x \in Kids(m) : E[x] = E[m] + 1)
        /\ \A r \in R : E[r] = e[r]
        /\ Fills(OnLeaves(E), 1..Total, p, n)
        /\ Dot(OnLeaves(E), v, 1..Total) = Dot(e, v, R) + z
        /\ \A T \in Nat : Within(e, h, R, T) => \A j \in 1..Total : E[j] <= T
    BY <2>4, <1>q, <1>p, <1>w DEF Unfolds, Labels
  <2>6. PICK E1 : E1 = [m \in Pointer' |-> IF m = c THEN d[c] ELSE E[m]]
    OBVIOUS
  <2>7. c \in Q /\ a \in R /\ b \in R /\ Q = (R \ {a, b}) \cup {c}
    BY <1>3 DEF Joins
  <2>8. d[c] \in 0..n
    BY <1>7, <2>7 DEF Fills
  <2>9. E1[c] = d[c] /\ \A m \in Pointer : E1[m] = E[m] /\ E[m] \in 0..n
    BY <1>1, <2>5, <2>6
  <2>10. E1 \in [Pointer' -> 0..n]
    <3>1. \A m \in Pointer' : E1[m] \in 0..n
      BY <1>1, <2>8, <2>9
    <3>2. E1 = [m \in Pointer' |-> E1[m]]
      BY <2>6
    <3> QED
      BY <3>1, <3>2
  <2>11. ASSUME NEW m \in Inner', NEW x \in Kids(m)' PROVE E1[x] = E1[m] + 1
    <3>1. CASE m = c
      <4>1. x \in {a, b}
        BY <1>1, <3>1
      <4>2. E[x] = d[c] + 1 /\ x \in Pointer
        BY <1>1, <2>2, <2>5, <2>7, <4>1
      <4> QED
        BY <2>9, <3>1, <4>2
    <3>2. CASE m # c
      <4>1. m \in Inner /\ x \in Kids(m) /\ x \in Pointer /\ m \in Pointer
        BY <1>1, <3>2
      <4> QED
        BY <2>5, <2>9, <4>1
    <3> QED
      BY <3>1, <3>2
  <2>12. Labels(E1)'
    BY <1>1, <1>p, <2>10, <2>11 DEF Labels
  <2>13. ASSUME NEW r \in Q PROVE E1[r] = d[r]
    <3>1. CASE r = c
      BY <2>9, <3>1
    <3>2. CASE r # c
      <4>1. r \in R \ {a, b} /\ r \in Pointer
        BY <1>3, <2>7, <3>2
      <4> QED
        BY <2>2, <2>5, <2>9, <4>1
    <3> QED
      BY <3>1, <3>2
  <2>14. OnLeaves(E1)' = OnLeaves(E)
    <3>1. \A j \in 1..Total : E1[j] = E[j]
      BY <1>1, <2>9
    <3>2. [j \in 1..Total |-> E1[j]] = [j \in 1..Total |-> E[j]]
      BY <3>1
    <3> QED
      BY <1>1, <3>2 DEF OnLeaves
  <2>15. Dot(OnLeaves(E), w, 1..Total) = Dot(d, w, Q) + y
    <3>1. Dot(OnLeaves(E), w, 1..Total) = Dot(e, w, R) + z
      BY <1>s, <2>5
    <3>2. PICK x, t : x = Dot(d, w, Q) /\ t = Dot(e, w, R)
      OBVIOUS
    <3>3. x \in Nat /\ t = x + w[c]
      BY <2>2, <3>2
    <3>4. t + z = x + y
      BY <1>4, <3>3
    <3> QED
      BY <3>1, <3>2, <3>4
  <2>16. ASSUME NEW T \in Nat, Within(d, k, Q, T), NEW j \in 1..Total PROVE E1[j] <= T
    <3>1. Within(e, h, R, T)
      BY <1>s, <2>2, <2>16
    <3>2. E[j] <= T /\ E1[j] = E[j]
      BY <1>1, <2>5, <2>9, <3>1
    <3> QED
      BY <3>2
  <2>17. Unfolds(E1, d, k, y)'
    BY <1>1, <1>p, <1>q, <1>w, <2>5, <2>12, <2>13, <2>14, <2>15, <2>16 DEF Unfolds
  <2> QED
    BY <2>17
<1> QED
  BY <1>1, <1>7, <1>p, <1>q DEF AllUnfold

(* One turn of the loop.                                                   *)
LEMMA BestMerge == TreeInv /\ TreeInv' /\ MergeLowest /\ BestInv => BestInv'
<1> SUFFICES ASSUME TreeInv, TreeInv', MergeLowest, BestInv, Total' >= 2 PROVE BestInv'
  BY DEF BestInv
<1>1. /\ phase = "merge" /\ phase' = "merge" /\ freqs' = freqs /\ freqs \in [Symbol -> Freq]
  BY DEF TreeInv, HeapInv, MergeLowest
<1>2. Total' = Total /\ Total >= 2 /\ Used' = Used
  BY <1>1 DEF Total, Used
<1>3. PICK h, z : MergeInv(h, z)
  BY <1>1, <1>2 DEF BestInv
<1>4. HeightsOf(h) /\ OrderInv(h) /\ z \in Nat /\ NoneCheaper(h, z) /\ AllUnfold(h, z)
  BY <1>3 DEF MergeInv
<1>5. PICK a, b, q : Chosen(h, a, b, q)
  BY <1>4, Merging
<1>6. PICK k, c : Grows(h, k, a, b, c) /\ Heavier(h, k, a, b, c)
  BY <1>4, <1>5, BestGrows
<1>7. PICK y : y = z + Weights'[c]
  OBVIOUS
<1>8. HeightsOf(k)' /\ OrderInv(k)'
  BY <1>4, <1>5, <1>6, BestOrder
<1>9. y \in Nat /\ NoneCheaper(k, y)'
  BY <1>1, <1>2, <1>4, <1>6, <1>7, BestCheaper
<1>10. AllUnfold(k, y)'
  BY <1>2, <1>4, <1>6, <1>7, BestUnfolds
<1>11. MergeInv(k, y)'
  BY <1>8, <1>9, <1>10 DEF MergeInv
<1>12. LeafInv'
  <2>1. LeafInv
    BY <1>1, <1>2 DEF BestInv
  <2>2. \A j \in 1..Total : heap'[j] = heap[j]
    BY <1>6 DEF Grows
  <2> QED
    BY <1>1, <1>2, <2>1, <2>2 DEF LeafInv
<1> QED
  BY <1>1, <1>11, <1>12 DEF BestInv
-----------------------------------------------------------------------------
(* A single root, at no depth, fills a tree.                               *)
LEMMA FillsAlone ==
  ASSUME NEW p, NEW n, Powered(p, n), NEW t, NEW e, e = [r \in {t} |-> 0]
  PROVE  Fills(e, {t}, p, n) /\ e[t] = 0
<1>1. n \in Nat /\ p[n] \in Int /\ e[t] = 0 /\ n - 0 = n /\ e \in [{t} -> 0..n]
  <2>1. n \in Nat /\ p \in [0..n -> Nat \ {0}]
    BY DEF Powered
  <2>2. n \in 0..n /\ 0 \in 0..n
    BY <2>1
  <2> QED
    BY <2>1, <2>2
<1>2. PICK s : s = Shares(e, {t}, p, n)
  OBVIOUS
<1>3. s[t] = p[n]
  <2>1. s[t] = p[n - e[t]]
    BY <1>2 DEF Shares
  <2> QED
    BY <1>1, <2>1
<1>4. SumFunctionOnSet(s, {t}) = p[n]
  BY <1>1, <1>3, SumSingle
<1>5. IsFiniteSet({t})
  BY FS_Singleton
<1> QED
  BY <1>1, <1>2, <1>4, <1>5 DEF Fills

(* A single root costs its weight times its depth.                         *)
LEMMA DotAlone ==
  ASSUME NEW t, NEW n \in Nat, NEW e \in [{t} -> 0..n], NEW w, w[t] \in Nat
  PROVE  Dot(e, w, {t}) \in Nat /\ Dot(e, w, {t}) = e[t] * w[t]
<1>1. PICK s : s = Terms(e, w, {t})
  OBVIOUS
<1>2. s[t] = e[t] * w[t]
  BY <1>1 DEF Terms
<1>3. s[t] \in Nat
  <2>1. e[t] \in Nat
    OBVIOUS
  <2> QED
    BY <1>2, <2>1
<1>4. SumFunctionOnSet(s, {t}) = s[t]
  BY <1>3, SumSingle
<1> QED
  BY <1>1, <1>2, <1>3, <1>4 DEF Dot

(* When one root is left, it is the tree, and no full tree does better.    *)
LEMMA BestTake == TreeInv /\ TreeInv' /\ TakeTree /\ BestInv => BestInv'
<1> SUFFICES ASSUME TreeInv, TreeInv', TakeTree, BestInv, Total' >= 2 PROVE BestInv'
  BY DEF BestInv
<1>1. /\ phase = "merge" /\ phase' = "find" /\ heap' = heap /\ freqs' = freqs /\ depths' = depths
      /\ Len(leaves) + Len(nodes) <= 1 /\ HeapInv /\ freqs \in [Symbol -> Freq]
      /\ tree' = (IF nodes = <<>> THEN 0 ELSE Head(nodes)) /\ level' = <<tree'>>
  BY DEF TakeTree, TreeInv, HeapInv
<1>2. /\ Total' = Total /\ Inner' = Inner /\ Pointer' = Pointer /\ Used' = Used /\ Longest' = Longest
      /\ Weights' = Weights /\ Total >= 2 /\ Total \in Nat /\ Len(heap) \in Nat
      /\ \A n : Kids(n)' = Kids(n)
  BY <1>1, Numbers DEF Total, Used, Inner, Pointer, Kids, Longest, Weights, HeapInv
<1>3. depths = <<>>
  BY <1>1 DEF TreeInv, FindInv
<1>4. PICK h, z : MergeInv(h, z)
  BY <1>1, <1>2 DEF BestInv
<1>5. HeightsOf(h) /\ OrderInv(h) /\ z \in Nat /\ NoneCheaper(h, z) /\ AllUnfold(h, z)
  BY <1>4 DEF MergeInv
<1>6. Len(heap) = 2 * Total - 1 /\ tree' \in Inner
  BY <1>1, <1>2 DEF TreeInv, FindInv
<1>7. PICK t : t = tree'
  OBVIOUS
<1>8. t \in Inner /\ t \in Pointer /\ t # 0 /\ Inner \subseteq Pointer /\ 1..Total \subseteq Pointer
      /\ t \in Nat /\ t <= 2 * Total - 1
  <2>1. Inner \subseteq Pointer /\ 1..Total \subseteq Pointer
    BY <1>2, <1>6 DEF Inner, Pointer
  <2>2. t \in Total + 1..2 * Total - 1
    BY <1>6, <1>7 DEF Inner
  <2>3. t \in Nat /\ t <= 2 * Total - 1 /\ t # 0
    BY <1>2, <2>2
  <2> QED
    BY <1>6, <1>7, <2>1, <2>3
<1>9. Roots = {t}
  <2>1. leaves \in Seq(1..Total) /\ nodes \in Seq(Inner)
    BY <1>1 DEF TreeInv, QueueInv
  <2>2. nodes # <<>> /\ t = Head(nodes)
    BY <1>1, <1>7, <1>8
  <2>3. PICK i, j : i = Len(leaves) /\ j = Len(nodes)
    OBVIOUS
  <2>4. i \in Nat /\ j \in Nat /\ j # 0 /\ i + j <= 1
    BY <1>1, <2>1, <2>2, <2>3, LenProperties, EmptySeq
  <2>5. i = 0 /\ j = 1
    BY <2>4
  <2>6. Range(leaves) = {}
    <3>1. leaves = <<>>
      BY <2>1, <2>3, <2>5, EmptySeq
    <3> QED
      BY <3>1 DEF Range
  <2>7. Range(nodes) = {t}
    <3>1. DOMAIN nodes = 1..j /\ Head(nodes) = nodes[1]
      <4>1. DOMAIN nodes = 1..Len(nodes)
        BY <2>1, LenProperties
      <4>2. Head(nodes) = nodes[1]
        BY <2>1, <2>2, HeadTailProperties
      <4> QED
        BY <2>3, <4>1, <4>2
    <3>2. 1..j = {1}
      BY <2>5
    <3> QED
      BY <2>2, <3>1, <3>2 DEF Range
  <2> QED
    BY <2>6, <2>7 DEF Roots
<1>v. PICK v, p, n : v = Weights /\ p = Powers(Longest) /\ n = Longest
  OBVIOUS
<1>10. n \in Nat /\ n = Total - 1 /\ Powered(p, n)
  <2>1. Longest \in Nat /\ Longest = Total - 1
    BY <1>2 DEF Longest
  <2> QED
    BY <1>v, <2>1, PowersAre
<1>11. h[t] \in Nat /\ h[t] <= n /\ v[t] \in Nat
  <2>1. h[t] \in Nat /\ h[t] <= t - Total
    BY <1>5, <1>8 DEF HeightsOf
  <2>2. v[t] \in Nat
    BY <1>1, <1>8, <1>v, Nodes DEF Weights
  <2> QED
    BY <1>2, <1>8, <1>10, <2>1, <2>2
<1>12. PICK e0 : e0 = [r \in {t} |-> 0]
  OBVIOUS
<1>13. Fills(e0, {t}, p, n) /\ e0[t] = 0 /\ e0 \in [{t} -> 0..n]
  <2>1. Fills(e0, {t}, p, n) /\ e0[t] = 0
    BY <1>10, <1>12, FillsAlone
  <2> QED
    BY <2>1 DEF Fills
<1>14. \A T \in Nat : h[t] <= T => Within(e0, h, {t}, T)
  BY <1>11, <1>13 DEF Within
<1>15. Dot(e0, v, {t}) = 0
  <2>1. Dot(e0, v, {t}) = e0[t] * v[t]
    BY <1>10, <1>11, <1>13, DotAlone
  <2> QED
    BY <1>11, <1>13, <2>1
<1>16. PICK E : Unfolds(E, e0, h, z)
  <2>1. Within(e0, h, {t}, n)
    BY <1>10, <1>11, <1>14
  <2> QED
    BY <1>5, <1>9, <1>13, <1>v, <2>1 DEF AllUnfold
<1>17. /\ Labels(E) /\ E[t] = 0
       /\ Fills(OnLeaves(E), 1..Total, p, n)
       /\ Dot(OnLeaves(E), v, 1..Total) = z
       /\ \A T \in Nat : h[t] <= T => \A j \in 1..Total : E[j] <= T
  <2>1. /\ Labels(E) /\ \A r \in {t} : E[r] = e0[r]
        /\ Fills(OnLeaves(E), 1..Total, p, n)
        /\ Dot(OnLeaves(E), v, 1..Total) = Dot(e0, v, {t}) + z
        /\ \A T \in Nat : Within(e0, h, {t}, T) => \A j \in 1..Total : E[j] <= T
    BY <1>9, <1>16, <1>v DEF Unfolds
  <2>2. Dot(OnLeaves(E), v, 1..Total) = z
    BY <1>5, <1>15, <2>1
  <2> QED
    BY <1>13, <1>14, <2>1, <2>2
<1>18. ASSUME NEW l \in FullTrees(Used)
       PROVE  z <= Cost(l) /\ (z = Cost(l) => \A j \in 1..Total : E[j] <= Height(l))
  <2>1. PICK e : /\ Fills(e, {t}, p, n) /\ Dot(e, v, {t}) + z <= Cost(l)
                 /\ Dot(e, v, {t}) + z = Cost(l) => Within(e, h, {t}, Height(l))
    BY <1>5, <1>9, <1>v DEF NoneCheaper
  <2>2. Dot(e, v, {t}) \in Nat /\ e[t] \in 0..n
    <3>1. e \in [{t} -> 0..n]
      BY <2>1 DEF Fills
    <3> QED
      BY <1>10, <1>11, <3>1, DotAlone
  <2>3. Cost(l) \in Nat /\ Height(l) \in Nat
    BY <1>1, <1>2, CostIsNat, FullTreesAre
  <2>4. PICK x, m, g : x = Dot(e, v, {t}) /\ m = Cost(l) /\ g = Height(l)
    OBVIOUS
  <2>5. x \in Nat /\ m \in Nat /\ x + z <= m /\ z \in Nat /\ g \in Nat
    BY <1>5, <2>1, <2>2, <2>3, <2>4
  <2>6. z <= m
    BY <2>5
  <2>7. ASSUME z = m, NEW j \in 1..Total PROVE E[j] <= g
    <3>1. x + z = m
      BY <2>5, <2>7
    <3>2. Within(e, h, {t}, g)
      BY <2>1, <2>4, <3>1
    <3>3. e[t] + h[t] <= g
      BY <3>2 DEF Within
    <3>4. h[t] <= g
      BY <1>10, <1>11, <2>2, <2>5, <3>3
    <3> QED
      BY <1>17, <2>5, <3>4
  <2> QED
    BY <2>4, <2>6, <2>7
<1>19. \A k \in Pointer : k = t \/ \E m \in Inner : k \in Kids(m)
  BY <1>5, <1>9 DEF OrderInv
<1>20. DepthsAre(E)'
  <2>1. Labels(E)'
    BY <1>2, <1>17 DEF Labels
  <2>2. OnLeaves(E)' = OnLeaves(E)
    BY <1>2 DEF OnLeaves
  <2>3. FullTrees(Used)' = FullTrees(Used) /\ \A l : Cost(l)' = Cost(l)
    BY <1>1, <1>2 DEF FullTrees, Cost
  <2> QED
    BY <1>2, <1>7, <1>17, <1>18, <1>19, <1>v, <2>1, <2>2, <2>3 DEF DepthsAre
<1>21. LevelsAre(E)'
  <2>1. Range(level') = {t}
    BY <1>1, <1>7 DEF Range
  <2>2. Len(depths') = 0 /\ DOMAIN depths' = {}
    BY <1>1, <1>3
  <2>3. {m \in Pointer : E[m] = 0} = {t}
    <3> SUFFICES ASSUME NEW m \in Pointer, m # t PROVE E[m] # 0
      BY <1>8, <1>17
    <3>1. PICK i \in Inner : m \in Kids(i)
      BY <1>19
    <3>2. E[m] = E[i] + 1 /\ E[i] \in 0..Longest
      BY <1>8, <1>17, <3>1 DEF Labels
    <3> QED
      BY <1>10, <1>v, <3>2
  <2> QED
    BY <1>1, <1>2, <2>1, <2>2, <2>3 DEF LevelsAre
<1>22. LeafInv'
  <2>1. LeafInv
    BY <1>1, <1>2 DEF BestInv
  <2> QED
    BY <1>1, <1>2, <2>1 DEF LeafInv
<1> QED
  BY <1>1, <1>20, <1>21, <1>22 DEF BestInv

(* A call of find_depth_n goes one level down.                             *)
LEMMA BestFind == TreeInv /\ TreeInv' /\ FindDepth /\ BestInv => BestInv'
<1> SUFFICES ASSUME TreeInv, TreeInv', FindDepth, BestInv, Total' >= 2 PROVE BestInv'
  BY DEF BestInv
<1>1. /\ phase = "find" /\ phase' \in {"find", "done"} /\ heap' = heap /\ freqs' = freqs
      /\ tree' = tree /\ HeapInv /\ level' = Children(level)
      /\ depths' = Append(depths, LevelSymbols)
  BY DEF FindDepth, TreeInv, HeapInv, LevelSymbols
<1>2. /\ Total' = Total /\ Inner' = Inner /\ Pointer' = Pointer /\ Used' = Used /\ Longest' = Longest
      /\ Weights' = Weights /\ Total >= 2 /\ Total \in Nat /\ Len(heap) \in Nat /\ Len(heap) >= Total
      /\ \A n : Kids(n)' = Kids(n)
  BY <1>1, Numbers DEF Total, Used, Inner, Pointer, Kids, Longest, Weights, HeapInv
<1>3. /\ tree \in Inner /\ level \in Seq(Pointer) /\ Injects(level)
      /\ depths \in Seq(SUBSET Symbol) /\ depths' \in Seq(SUBSET Symbol)
  BY <1>1, <1>2 DEF TreeInv, FindInv, FindType
<1>4. PICK E : DepthsAre(E) /\ LevelsAre(E)
  BY <1>1, <1>2 DEF BestInv
<1>5. PICK N \in Nat : N = Len(depths)
  BY <1>3
<1>6. /\ Labels(E) /\ E[tree] = 0
      /\ \A k \in Pointer : k = tree \/ \E n \in Inner : k \in Kids(n)
      /\ Range(level) = {m \in Pointer : E[m] = N}
      /\ \A d \in DOMAIN depths : depths[d] = {heap[k].symbol : k \in {j \in 1..Total : E[j] = d - 1}}
  BY <1>4, <1>5 DEF DepthsAre, LevelsAre
<1>7. 1..Total \subseteq Pointer /\ Inner \subseteq Pointer /\ \A n \in Inner : Kids(n) \subseteq Pointer
  <2>1. 1..Total \subseteq Pointer /\ Inner \subseteq Pointer
    BY <1>2 DEF Inner, Pointer
  <2>2. ASSUME NEW n \in Inner PROVE Kids(n) \subseteq Pointer
    <3>1. Kids(n) \subseteq 1..n - 1
      BY <1>1 DEF HeapInv
    <3>2. n \in 1..Len(heap)
      BY <2>1 DEF Pointer
    <3>3. 1..n - 1 \subseteq 1..Len(heap)
      BY <1>2, <3>2
    <3> QED
      BY <3>1, <3>3 DEF Pointer
  <2> QED
    BY <2>1, <2>2
<1>8. /\ MergedOf(level) = {m \in Inner : E[m] = N}
      /\ LevelSymbols = {heap[k].symbol : k \in {j \in 1..Total : E[j] = N}}
  <2>1. LevelInner = MergedOf(level) /\ LevelSymbols = {heap[n].symbol : n \in LevelLeaves}
    BY <1>1, <1>3, LevelParts
  <2>2. LevelInner = {m \in Inner : E[m] = N} /\ LevelLeaves = {j \in 1..Total : E[j] = N}
    BY <1>6, <1>7 DEF LevelInner, LevelLeaves
  <2> QED
    BY <2>1, <2>2
<1>9. Range(level') = UNION {Kids(n) : n \in {m \in Inner : E[m] = N}}
  BY <1>1, <1>3, <1>8, ChildrenAre
<1>10. \A m \in Pointer : E[m] \in Nat
  BY <1>2, <1>6 DEF Labels, Longest
<1>11. {m \in Pointer : E[m] = N + 1} = UNION {Kids(n) : n \in {m \in Inner : E[m] = N}}
  <2>1. ASSUME NEW m \in Pointer, E[m] = N + 1
        PROVE  \E n \in {i \in Inner : E[i] = N} : m \in Kids(n)
    <3>1. m # tree
      BY <1>6, <2>1
    <3>2. PICK i \in Inner : m \in Kids(i)
      BY <1>6, <3>1
    <3>3. E[m] = E[i] + 1 /\ E[i] \in Nat
      BY <1>6, <1>7, <1>10, <3>2 DEF Labels
    <3>4. E[i] = N
      BY <2>1, <3>3
    <3> QED
      BY <3>2, <3>4
  <2>2. ASSUME NEW n \in Inner, E[n] = N, NEW m \in Kids(n)
        PROVE  m \in Pointer /\ E[m] = N + 1
    BY <1>6, <1>7, <2>2 DEF Labels
  <2> QED
    BY <2>1, <2>2
<1>12. PICK s : s = LevelSymbols
  OBVIOUS
<1>13. /\ Len(depths') = N + 1 /\ DOMAIN depths' = 1..N + 1 /\ DOMAIN depths = 1..N
       /\ depths'[N + 1] = s /\ \A d \in 1..N : depths'[d] = depths[d]
  <2>1. PICK S : S = (SUBSET Symbol) \cup {s}
    OBVIOUS
  <2>2. depths \in Seq(S)
    <3>1. SUBSET Symbol \subseteq S
      BY <2>1
    <3> QED
      BY <1>3, <3>1, SeqInto
  <2>3. s \in S /\ depths' = Append(depths, s)
    BY <1>1, <1>12, <2>1
  <2> QED
    BY <1>3, <1>5, <2>2, <2>3, AppendProperties, LenProperties
<1>14. ASSUME NEW d \in 1..N + 1
       PROVE  depths'[d] = {heap[k].symbol : k \in {j \in 1..Total : E[j] = d - 1}}
  <2>1. CASE d = N + 1
    <3>1. d - 1 = N
      BY <2>1
    <3> QED
      BY <1>8, <1>12, <1>13, <2>1, <3>1
  <2>2. CASE d # N + 1
    <3>1. d \in 1..N
      BY <2>2
    <3> QED
      BY <1>6, <1>13, <3>1
  <2> QED
    BY <2>1, <2>2
<1>15. LevelsAre(E)'
  BY <1>1, <1>2, <1>9, <1>11, <1>13, <1>14 DEF LevelsAre
<1>16. DepthsAre(E)'
  <2>1. Labels(E)'
    BY <1>2, <1>6 DEF Labels
  <2>2. OnLeaves(E)' = OnLeaves(E)
    BY <1>2 DEF OnLeaves
  <2>3. FullTrees(Used)' = FullTrees(Used) /\ \A l : Cost(l)' = Cost(l)
    BY <1>1, <1>2 DEF FullTrees, Cost
  <2> QED
    BY <1>1, <1>2, <1>4, <2>1, <2>2, <2>3 DEF DepthsAre
<1>17. LeafInv'
  <2>1. LeafInv
    BY <1>1, <1>2 DEF BestInv
  <2> QED
    BY <1>1, <1>2, <2>1 DEF LeafInv
<1> QED
  BY <1>1, <1>15, <1>16, <1>17 DEF BestInv

(* Before the leaves are made there is nothing to show.                    *)
LEMMA BestInit == Init => BestInv
<1> SUFFICES ASSUME Init PROVE BestInv
  OBVIOUS
<1>1. phase = "sort"
  BY DEF Init
<1> QED
  BY <1>1 DEF BestInv

(* A step that changes nothing.                                            *)
LEMMA BestSame == UNCHANGED vars /\ BestInv => BestInv'
<1> SUFFICES ASSUME UNCHANGED vars, BestInv PROVE BestInv'
  OBVIOUS
<1>1. UNCHANGED <<phase, freqs, heap, leaves, nodes, tree, level, depths, merged>>
  BY DEF vars
<1>2. /\ Total' = Total /\ Inner' = Inner /\ Pointer' = Pointer /\ Used' = Used /\ Longest' = Longest
      /\ Weights' = Weights /\ Roots' = Roots /\ FullTrees(Used)' = FullTrees(Used)
      /\ \A n : Kids(n)' = Kids(n)
      /\ \A l : Cost(l)' = Cost(l)
  BY <1>1 DEF Total, Used, Inner, Pointer, Kids, Longest, Weights, Roots, FullTrees, Cost
<1>3. LeafInv' = LeafInv
  BY <1>1, <1>2 DEF LeafInv
<1>4. \A E : OnLeaves(E)' = OnLeaves(E) /\ (Labels(E)' <=> Labels(E))
  BY <1>2 DEF OnLeaves, Labels
<1>5. ASSUME NEW h, NEW z, MergeInv(h, z) PROVE MergeInv(h, z)'
  <2>1. HeightsOf(h)' <=> HeightsOf(h)
    BY <1>1, <1>2 DEF HeightsOf
  <2>2. OrderInv(h)' <=> OrderInv(h)
    BY <1>1, <1>2 DEF OrderInv
  <2>3. NoneCheaper(h, z)' <=> NoneCheaper(h, z)
    BY <1>2 DEF NoneCheaper
  <2>4. \A E, e : Unfolds(E, e, h, z)' <=> Unfolds(E, e, h, z)
    BY <1>2, <1>4 DEF Unfolds
  <2>5. AllUnfold(h, z)' <=> AllUnfold(h, z)
    BY <1>2, <2>4 DEF AllUnfold
  <2> QED
    BY <1>5, <2>1, <2>2, <2>3, <2>5 DEF MergeInv
<1>6. ASSUME NEW E, DepthsAre(E), LevelsAre(E) PROVE DepthsAre(E)' /\ LevelsAre(E)'
  <2>1. DepthsAre(E)' <=> DepthsAre(E)
    BY <1>1, <1>2, <1>4 DEF DepthsAre
  <2>2. LevelsAre(E)' <=> LevelsAre(E)
    BY <1>1, <1>2 DEF LevelsAre
  <2> QED
    BY <1>6, <2>1, <2>2
<1>7. (\E h, z : MergeInv(h, z)) => (\E h, z : MergeInv(h, z)')
  BY <1>5
<1>8. (\E E : DepthsAre(E) /\ LevelsAre(E)) => (\E E : DepthsAre(E)' /\ LevelsAre(E)')
  BY <1>6
<1> QED
  BY <1>1, <1>2, <1>3, <1>7, <1>8 DEF BestInv

(* The invariant, of every step.                                           *)
LEMMA BestStays == Spec => [](TreeInv /\ BestInv)
<1>1. Init => TreeInv /\ BestInv
  BY TreeInit, BestInit
<1>2. TreeInv /\ BestInv /\ [Next]_vars => (TreeInv /\ BestInv)'
  <2> SUFFICES ASSUME TreeInv, BestInv, [Next]_vars PROVE TreeInv' /\ BestInv'
    OBVIOUS
  <2>1. TreeInv'
    BY TreeNext
  <2>2. CASE Next
    BY <2>1, <2>2, BestSort, BestMerge, BestTake, BestFind DEF Next
  <2>3. CASE UNCHANGED vars
    BY <2>1, <2>3, BestSame
  <2> QED
    BY <2>1, <2>2, <2>3
<1> QED
  BY <1>1, <1>2, PTL DEF Spec
-----------------------------------------------------------------------------
(* When find_depth is done it has found every leaf, as deep as it is.      *)
LEMMA AllAbove ==
  ASSUME TreeInv, Total >= 2, phase = "done", NEW E, DepthsAre(E), LevelsAre(E)
  PROVE  \A m \in Pointer : E[m] \in Nat /\ E[m] < Len(depths)
<1>1. /\ HeapInv /\ level = <<>> /\ tree \in Inner /\ depths \in Seq(SUBSET Symbol)
  BY DEF TreeInv, FindInv, FindType
<1>2. PICK N \in Nat : N = Len(depths)
  BY <1>1
<1>3. /\ Labels(E) /\ E[tree] = 0
      /\ \A k \in Pointer : k = tree \/ \E n \in Inner : k \in Kids(n)
      /\ Range(level) = {m \in Pointer : E[m] = N}
  BY <1>2 DEF DepthsAre, LevelsAre
<1>4. Total \in Nat /\ Inner \subseteq Pointer /\ \A m \in Pointer : E[m] \in Nat
  <2>1. Total \in Nat /\ Len(heap) \in Nat
    BY <1>1, Numbers DEF HeapInv
  <2>2. Inner \subseteq Pointer
    BY <2>1 DEF Inner, Pointer
  <2>3. \A m \in Pointer : E[m] \in Nat
    BY <1>3, <2>1 DEF Labels, Longest
  <2> QED
    BY <2>1, <2>2, <2>3
<1>5. \A m \in Pointer : E[m] # N
  <2>1. Range(level) = {}
    BY <1>1 DEF Range
  <2> QED
    BY <1>3, <2>1
<1>6. PICK T : T = {x \in Nat : x >= N /\ \E m \in Pointer : E[m] = x}
  OBVIOUS
<1>7. ASSUME NEW m \in Pointer, E[m] >= N PROVE FALSE
  <2>1. E[m] \in T /\ T \in SUBSET Nat
    BY <1>4, <1>6, <1>7
  <2>2. PICK x \in T : \A y \in T : x <= y
    BY <2>1, Least
  <2>3. PICK i \in Pointer : E[i] = x /\ x \in Nat /\ x >= N
    BY <1>6, <2>2
  <2>4. x > N
    BY <1>5, <2>3
  <2>5. i # tree
    BY <1>3, <2>3, <2>4
  <2>6. PICK j \in Inner : i \in Kids(j)
    BY <1>3, <2>5
  <2>7. E[i] = E[j] + 1 /\ E[j] \in Nat /\ j \in Pointer
    BY <1>3, <1>4, <2>6 DEF Labels
  <2>8. E[j] >= N /\ ~ (x <= E[j])
    BY <2>3, <2>4, <2>7
  <2> QED
    BY <1>6, <2>2, <2>7, <2>8
<1>8. ASSUME NEW m \in Pointer PROVE E[m] \in Nat /\ E[m] < N
  BY <1>4, <1>7, <1>8
<1> QED
  BY <1>2, <1>8

(* A symbol's code is as long as its leaf is deep.                         *)
LEMMA LengthsAre ==
  ASSUME TreeInv, Total >= 2, phase = "done", LeafInv, NEW E, DepthsAre(E), LevelsAre(E)
  PROVE  /\ DOMAIN Lengths = Used
         /\ \A j \in 1..Total : Lengths[heap[j].symbol] = E[j] /\ E[j] \in 1..Longest
<1>1. /\ HeapInv /\ tree \in Inner /\ depths \in Seq(SUBSET Symbol)
  BY DEF TreeInv, FindInv, FindType
<1>2. PICK N \in Nat : N = Len(depths) /\ DOMAIN depths = 1..N
  BY <1>1, LenProperties
<1>3. \A d \in 1..N : depths[d] = {heap[k].symbol : k \in {j \in 1..Total : E[j] = d - 1}}
  BY <1>2 DEF LevelsAre
<1>4. 1..Total \subseteq Pointer /\ Inner \subseteq Pointer /\ (1..Total) \cap Inner = {}
  <2>1. Total \in Nat /\ Len(heap) \in Nat /\ Len(heap) >= Total
    BY <1>1, Numbers DEF HeapInv
  <2> QED
    BY <2>1 DEF Inner, Pointer
<1>5. \A m \in Pointer : E[m] \in Nat /\ E[m] < N
  BY <1>2, AllAbove
<1>6. DOMAIN Lengths = Used
  BY DEF Lengths
<1>7. ASSUME NEW j \in 1..Total
      PROVE  Lengths[heap[j].symbol] = E[j] /\ E[j] \in 1..Longest
  <2>1. PICK s \in Used : s = heap[j].symbol
    BY DEF LeafInv
  <2>2. E[j] \in Nat /\ E[j] < N /\ j \in Pointer
    BY <1>4, <1>5
  <2>3. PICK c : c = E[j] + 1
    OBVIOUS
  <2>4. c \in 1..N /\ c - 1 = E[j]
    BY <2>2, <2>3
  <2>5. s \in depths[c]
    BY <1>3, <2>1, <2>4
  <2>6. ASSUME NEW d \in 1..N, s \in depths[d] PROVE d = c
    <3>1. PICK i \in 1..Total : heap[i].symbol = s /\ E[i] = d - 1
      BY <1>3, <2>6
    <3>2. i = j
      BY <1>1, <2>1, <3>1 DEF HeapInv
    <3> QED
      BY <2>2, <2>3, <3>1, <3>2
  <2>7. PICK x : x = CHOOSE d \in DOMAIN depths : s \in depths[d]
    OBVIOUS
  <2>8. x \in 1..N /\ s \in depths[x]
    BY <1>2, <2>4, <2>5, <2>7
  <2>9. x = c
    BY <2>6, <2>8
  <2>10. Lengths[s] = x - 1
    BY <2>7 DEF Lengths
  <2>11. E[j] \in 1..Longest
    <3>1. j # tree
      BY <1>1, <1>4
    <3>2. PICK i \in Inner : j \in Kids(i)
      BY <2>2, <3>1 DEF DepthsAre
    <3>3. E[j] = E[i] + 1 /\ E[i] \in Nat /\ E[j] \in 0..Longest
      BY <1>4, <1>5, <2>2, <3>2 DEF DepthsAre, Labels
    <3> QED
      BY <3>3
  <2> QED
    BY <2>1, <2>4, <2>9, <2>10, <2>11
<1> QED
  BY <1>6, <1>7

(* So the code lengths are those of a full tree, and none is better.       *)
LEMMA BestFound ==
  ASSUME TreeInv, BestInv, phase = "done", Total >= 2
  PROVE  /\ Lengths \in FullTrees(Used)
         /\ \A l \in FullTrees(Used) :
              /\ Cost(Lengths) <= Cost(l)
              /\ Cost(l) = Cost(Lengths) => Height(Lengths) <= Height(l)
<1>1. HeapInv /\ LeafInv /\ freqs \in [Symbol -> Freq]
  BY DEF TreeInv, BestInv, HeapInv
<1>2. PICK E : DepthsAre(E) /\ LevelsAre(E)
  BY DEF BestInv
<1>3. DOMAIN Lengths = Used /\ \A j \in 1..Total : Lengths[heap[j].symbol] = E[j] /\ E[j] \in 1..Longest
  BY <1>1, <1>2, LengthsAre
<1>4. Total \in Nat /\ IsFiniteSet(Used) /\ 1..Total \subseteq Pointer
  <2>1. Total \in Nat /\ Len(heap) \in Nat /\ Len(heap) >= Total /\ IsFiniteSet(Used)
    BY <1>1, Numbers DEF HeapInv
  <2> QED
    BY <2>1 DEF Pointer
<1>v. PICK v, p, n : v = Weights /\ p = Powers(Longest) /\ n = Longest
  OBVIOUS
<1>5. n \in Nat \ {0} /\ n = Total - 1 /\ Powered(p, n)
  <2>1. Longest \in Nat \ {0} /\ Longest = Total - 1
    BY <1>4 DEF Longest
  <2> QED
    BY <1>v, <2>1, PowersAre
<1>6. PICK g : g = [j \in 1..Total |-> heap[j].symbol]
  OBVIOUS
<1>7. Names(g, 1..Total, Used)
  <2>1. IsFiniteSet(1..Total)
    BY <1>4, RangeIsFinite
  <2>2. \A i, j \in 1..Total : g[i] = g[j] => i = j
    <3>1. \A i, j \in 1..Total : heap[i].symbol = heap[j].symbol => i = j
      BY <1>1 DEF HeapInv
    <3> QED
      BY <1>6, <3>1
  <2>3. (\A j \in 1..Total : g[j] \in Used) /\ \A s \in Used : \E j \in 1..Total : g[j] = s
    BY <1>1, <1>6 DEF LeafInv
  <2> QED
    BY <1>4, <2>1, <2>2, <2>3 DEF Names
<1>8. PICK l0 : l0 = Lengths
  OBVIOUS
<1>9. l0 \in [Used -> 1..n] /\ l0 \in [Used -> 0..n]
  <2>1. ASSUME NEW s \in Used PROVE l0[s] \in 1..n
    <3>1. PICK j \in 1..Total : heap[j].symbol = s
      BY <1>1 DEF LeafInv
    <3> QED
      BY <1>3, <1>8, <1>v, <3>1
  <2>2. l0 = [s \in Used |-> l0[s]]
    BY <1>8 DEF Lengths
  <2>3. 1..n \subseteq 0..n
    BY <1>5
  <2>4. l0 \in [Used -> 1..n]
    BY <2>1, <2>2
  <2> QED
    BY <2>3, <2>4
<1>10. PICK e : e = OnLeaves(E)
  OBVIOUS
<1>11. Fills(e, 1..Total, p, n) /\ e \in [1..Total -> 0..n] /\ \A j \in 1..Total : e[j] = l0[g[j]]
  <2>1. Fills(e, 1..Total, p, n)
    BY <1>2, <1>10, <1>v DEF DepthsAre
  <2>2. \A j \in 1..Total : e[j] = l0[g[j]]
    BY <1>3, <1>6, <1>8, <1>10 DEF OnLeaves
  <2> QED
    BY <2>1, <2>2 DEF Fills
<1>12. Carries(g, 1..Total, v, freqs, e, l0)
  <2>1. \A j \in 1..Total : v[j] = freqs[g[j]]
    BY <1>1, <1>4, <1>6, <1>v DEF LeafInv, Weights
  <2> QED
    BY <1>11, <2>1 DEF Carries
<1>13. PICK h : h = [j \in 1..Total |-> 0]
  OBVIOUS
<1>14. Weighs(v, h, 1..Total)
  <2>1. \A j \in 1..Total : v[j] \in Nat
    BY <1>1, <1>4, <1>v, Nodes DEF Weights
  <2> QED
    BY <1>7, <1>13, <2>1 DEF Weighs, Names
<1>15. AsGood(e, l0, 1..Total, Used, p, n, v, freqs)
  BY <1>5, <1>7, <1>9, <1>11, <1>12, <1>14, AsSymbols
<1>16. l0 \in FullTrees(Used)
  <2>1. Fills(l0, Used, p, n)
    BY <1>11, <1>15 DEF AsGood
  <2>2. PICK s : s = Shares(l0, Used, p, n)
    OBVIOUS
  <2>3. SumFunctionOnSet(s, Used) = p[n] /\ s = [x \in Used |-> p[n - l0[x]]]
    BY <2>1, <2>2 DEF Fills, Shares
  <2>4. DOMAIN s = Used
    BY <2>3
  <2>5. SumFunction([x \in Used |-> p[n - l0[x]]]) = p[n]
    BY <2>3, <2>4 DEF SumFunction
  <2>6. n = Cardinality(Used) - 1 /\ p = Powers(n)
    BY <1>5, <1>v DEF Total
  <2> QED
    BY <1>9, <2>5, <2>6 DEF FullTrees
<1>17. Cost(l0) = Dot(e, v, 1..Total)
  <2>1. CostOf(l0, freqs) = Dot(e, v, 1..Total)
    BY <1>15 DEF AsGood
  <2> QED
    BY <2>1 DEF Cost, CostOf
<1>18. PICK j0 \in 1..Total : Height(l0) = E[j0]
  <2>1. Range(l0) \in SUBSET (0..n) /\ Range(l0) # {}
    <3>1. PICK s : s \in Used
      BY <1>4, FS_EmptySet DEF Total
    <3> QED
      BY <1>9, <3>1 DEF Range
  <2>2. Height(l0) \in Range(l0)
    BY <1>5, <2>1, GreatestIs DEF Height
  <2>3. PICK s \in Used : Height(l0) = l0[s]
    BY <1>9, <2>2 DEF Range
  <2>4. PICK j \in 1..Total : heap[j].symbol = s
    BY <1>1 DEF LeafInv
  <2> QED
    BY <1>3, <1>8, <2>3, <2>4
<1>19. ASSUME NEW l \in FullTrees(Used)
       PROVE  Cost(l0) <= Cost(l) /\ (Cost(l) = Cost(l0) => Height(l0) <= Height(l))
  BY <1>2, <1>10, <1>17, <1>18, <1>v DEF DepthsAre
<1> QED
  BY <1>8, <1>16, <1>19

(* No prefix code is shorter, whatever the frequencies: what find_depth    *)
(* makes of encode_tree_build's tree costs as few bits as any full tree.   *)
THEOREM CodesAreOptimal == Spec => []Optimal
<1>1. TreeInv /\ BestInv => Optimal
  BY BestFound DEF Optimal, Total
<1> QED
  BY <1>1, BestStays, PTL

(* And of the codes that cost as little none has a shorter longest code:   *)
(* that is what taking leaves first among equals is for.                   *)
THEOREM CodesAreShortest == Spec => []Shortest
<1>1. TreeInv /\ BestInv => Shortest
  BY BestFound DEF Shortest, Total
<1> QED
  BY <1>1, BestStays, PTL
=============================================================================
