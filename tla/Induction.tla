------------------------------ MODULE Induction ------------------------------
(***************************************************************************)
(* Induction as facts about sets.  The induction theorems of the library   *)
(* take the statement to be proved as an operator; here it is the set of   *)
(* the values it holds of, so that a proof can name it in a step.          *)
(* With it, the facts about numbers, sums and sequences that several of    *)
(* the proofs rest on.                                                     *)
(***************************************************************************)
EXTENDS Integers, SequencesExt, Functions, FiniteSetTheorems, SequenceTheorems, TLAPS

(* A set of natural numbers that is not empty has a least one.             *)
LEMMA Least ==
  ASSUME NEW T \in SUBSET Nat, T # {}
  PROVE  \E n \in T : \A m \in T : n <= m
<1> DEFINE R == OpToRel(<, Nat)
<1>1. IsWellFoundedOn(R, Nat)
  BY NatLessThanWellFounded, Zenon
<1>2. PICK n \in T : \A m \in T : ~ (<<m, n>> \in R)
  <2> HIDE DEF R
  <2> QED
    BY <1>1, WFMin
<1>3. \A m \in T : ~ (m < n)
  BY <1>2 DEF OpToRel
<1> QED
  BY <1>3

(* What holds of 0, and of the next of each number it holds of, holds of   *)
(* every number.                                                           *)
LEMMA NatIsInductive ==
  ASSUME NEW S, 0 \in S, \A n \in Nat : n \in S => n + 1 \in S
  PROVE  Nat \subseteq S
<1> SUFFICES ASSUME Nat \ S # {} PROVE FALSE
  OBVIOUS
<1>1. PICK n \in Nat \ S : \A m \in Nat \ S : n <= m
  BY Least
<1>2. n # 0
  OBVIOUS
<1>3. n - 1 \in Nat /\ n - 1 \notin Nat \ S
  BY <1>1, <1>2
<1> QED
  BY <1>3

(* The same from any number on, and up to any number.                      *)
LEMMA IntervalIsInductive ==
  ASSUME NEW a \in Int, NEW b \in Int, NEW S,
         a \in S, \A n \in a..b - 1 : n \in S => n + 1 \in S
  PROVE  a..b \subseteq S
<1> DEFINE Q == {n \in Nat : a + n <= b => a + n \in S}
<1>1. 0 \in Q
  OBVIOUS
<1>2. ASSUME NEW n \in Nat, n \in Q PROVE n + 1 \in Q
  BY <1>2
<1>3. Nat \subseteq Q
  <2> HIDE DEF Q
  <2> QED
    BY <1>1, <1>2, NatIsInductive
<1>4. ASSUME NEW m \in a..b PROVE m \in S
  <2>1. m - a \in Q
    BY <1>3
  <2> QED
    BY <2>1
<1> QED
  BY <1>4

(* What holds of the empty set, and of a set with one more element, holds  *)
(* of every finite set.                                                    *)
LEMMA FiniteIsInductive ==
  ASSUME NEW U, IsFiniteSet(U), NEW Q, {} \in Q,
         \A T \in SUBSET U : \A x \in U \ T : T \in Q => T \cup {x} \in Q
  PROVE  U \in Q
<1> DEFINE S == {n \in Nat : \A T \in SUBSET U : Cardinality(T) = n => T \in Q}
<1>1. \A T \in SUBSET U : IsFiniteSet(T) /\ Cardinality(T) \in Nat
  BY FS_Subset, FS_CardinalityType
<1>2. 0 \in S
  BY <1>1, FS_EmptySet
<1>3. ASSUME NEW n \in Nat, n \in S PROVE n + 1 \in S
  <2> SUFFICES ASSUME NEW T \in SUBSET U, Cardinality(T) = n + 1 PROVE T \in Q
    OBVIOUS
  <2>1. IsFiniteSet(T) /\ Cardinality(T) # 0
    BY <1>1
  <2>2. PICK x : x \in T
    BY <2>1, FS_EmptySet
  <2>3. Cardinality(T \ {x}) = Cardinality(T) - 1
    BY <2>1, <2>2, FS_RemoveElement
  <2>4. T \ {x} \in Q
    BY <1>3, <2>3
  <2>5. T = (T \ {x}) \cup {x}
    BY <2>2
  <2> QED
    BY <2>2, <2>4, <2>5
<1>4. Nat \subseteq S
  <2> HIDE DEF S
  <2> QED
    BY <1>2, <1>3, NatIsInductive
<1> QED
  BY <1>1, <1>4

(* f is what p becomes in n steps, the k-th of which is g[k].              *)
Iterates(f, S, p, g, n) ==
  f \in [0..n -> S] /\ f[0] = p /\ \A k \in 1..n : f[k] = g[k][f[k - 1]]

(* A function on 0..n is determined by its first value and by what each    *)
(* next value is made of the one before; g[k][v] is the one after v at k.  *)
LEMMA Recursion ==
  ASSUME NEW S, NEW p \in S, NEW g \in [Nat -> [S -> S]], NEW n \in Nat
  PROVE  \E f : Iterates(f, S, p, g, n)
<1> DEFINE Is(f, m) == f[0] = p /\ \A k \in 1..m : f[k] = g[k][f[k - 1]]
           Q == {m \in Nat : \E f \in [0..m -> S] : Is(f, m)}
<1>1. 0 \in Q
  <2>1. [k \in 0..0 |-> p] \in [0..0 -> S] /\ Is([k \in 0..0 |-> p], 0)
    OBVIOUS
  <2> QED
    BY <2>1
<1>2. ASSUME NEW m \in Nat, m \in Q PROVE m + 1 \in Q
  <2>1. PICK f \in [0..m -> S] : Is(f, m)
    BY <1>2
  <2> DEFINE h == [k \in 0..m + 1 |-> IF k = m + 1 THEN g[m + 1][f[m]] ELSE f[k]]
  <2>2. h \in [0..m + 1 -> S]
    OBVIOUS
  <2>3. Is(h, m + 1)
    <3>1. h[0] = p
      BY <2>1
    <3>2. ASSUME NEW k \in 1..m + 1 PROVE h[k] = g[k][h[k - 1]]
      <4>1. h[k - 1] = f[k - 1]
        OBVIOUS
      <4> QED
        BY <2>1, <4>1
    <3> QED
      BY <3>1, <3>2
  <2> HIDE DEF h
  <2> QED
    BY <2>2, <2>3
<1> HIDE DEF Q
<1>3. Nat \subseteq Q
  BY <1>1, <1>2, NatIsInductive
<1> QED
  BY <1>3 DEF Q, Iterates

(* What a function on 0..n is made of like that, it is.                    *)
LEMMA IsIterated ==
  ASSUME NEW S, NEW p \in S, NEW g \in [Nat -> [S -> S]], NEW n \in Nat,
         NEW f, f = [k \in 0..n |-> f[k]], f[0] = p,
         \A k \in 1..n : f[k - 1] \in S => f[k] = g[k][f[k - 1]]
  PROVE  Iterates(f, S, p, g, n)
<1> DEFINE Q == {k \in 0..n : f[k] \in S}
<1>1. 0 \in Q
  OBVIOUS
<1>2. ASSUME NEW k \in 0..n - 1, k \in Q PROVE k + 1 \in Q
  <2>1. k + 1 \in 1..n /\ (k + 1) - 1 = k /\ k + 1 \in Nat /\ k + 1 \in 0..n
    OBVIOUS
  <2>2. f[k + 1] = g[k + 1][f[k]]
    BY <1>2, <2>1
  <2> QED
    BY <1>2, <2>1, <2>2
<1>3. 0..n \subseteq Q
  <2> HIDE DEF Q
  <2>1. 0 \in Int /\ n \in Int
    OBVIOUS
  <2> QED
    BY <1>1, <1>2, <2>1, IntervalIsInductive, Zenon
<1>4. f \in [0..n -> S]
  BY <1>3
<1>5. \A k \in 1..n : f[k] = g[k][f[k - 1]]
  BY <1>4, SMTT(30)
<1> QED
  BY <1>4, <1>5 DEF Iterates

-----------------------------------------------------------------------------
(* Division.                                                               *)
LEMMA Division ==
  ASSUME NEW b \in Nat \ {0}, NEW x \in Nat
  PROVE  /\ x \div b \in Nat /\ (x % b) \in 0..b - 1
         /\ x = b * (x \div b) + (x % b)
<1> QED
  OBVIOUS

LEMMA Quotient ==
  ASSUME NEW b \in Nat \ {0}, NEW q \in Nat, NEW r \in 0..b - 1
  PROVE  (b * q + r) \div b = q /\ ((b * q + r) % b) = r
<1>1. PICK x \in Nat : x = b * q + r
  OBVIOUS
<1>2. PICK y, z : y = x \div b /\ z = (x % b)
  OBVIOUS
<1>3. y \in Nat /\ z \in 0..b - 1 /\ x = b * y + z
  BY <1>2, Division
<1>4. b * (q - y) = z - r
  BY <1>1, <1>3
<1>5. q - y = 0
  <2>1. CASE q - y >= 1
    <3>1. b * (q - y) >= b
      BY <1>3, <2>1
    <3> QED
      BY <1>3, <1>4, <3>1
  <2>2. CASE q - y <= -1
    <3>1. b * (q - y) <= - b
      BY <1>3, <2>2
    <3> QED
      BY <1>3, <1>4, <3>1
  <2> QED
    BY <1>3, <2>1, <2>2
<1> QED
  BY <1>1, <1>2, <1>3, <1>5

-----------------------------------------------------------------------------
(* Sequences put one after the other, and where each of them then is.      *)

Flattens(f, n, seqs) == f = [k \in 1..n |-> IF k = 1 THEN seqs[k] ELSE f[k - 1] \o seqs[k]]

(* What FlattenSeq makes of the first k, for each k.                       *)
LEMMA Flattening ==
  ASSUME NEW S, NEW seqs \in Seq(Seq(S)), NEW n \in Nat, n = Len(seqs)
  PROVE  \E w \in [0..n -> Seq(S)] :
           /\ w[0] = <<>> /\ \A k \in 1..n : w[k] = w[k - 1] \o seqs[k]
           /\ FlattenSeq(seqs) = w[n]
<1> DEFINE g == [k \in Nat |-> [v \in Seq(S) |-> IF k \in 1..n THEN v \o seqs[k] ELSE v]]
<1>1. \A k \in 1..n : seqs[k] \in Seq(S)
  OBVIOUS
<1>2. g \in [Nat -> [Seq(S) -> Seq(S)]]
  BY <1>1, ConcatProperties
<1>3. PICK w \in [0..n -> Seq(S)] : w[0] = <<>> /\ \A k \in 1..n : w[k] = g[k][w[k - 1]]
  <2> HIDE DEF g
  <2>1. <<>> \in Seq(S)
    OBVIOUS
  <2>2. PICK f : Iterates(f, Seq(S), <<>>, g, n)
    BY <1>2, <2>1, Recursion, Zenon
  <2> QED
    BY <2>2 DEF Iterates
<1>4. \A k \in 1..n : w[k] = w[k - 1] \o seqs[k]
  <2>1. \A k \in 1..n : k \in Nat /\ k - 1 \in 0..n
    OBVIOUS
  <2>2. \A k \in 1..n : w[k - 1] \in Seq(S)
    BY <2>1
  <2> QED
    BY <1>3, <2>1, <2>2
<1>5. CASE n = 0
  <2>1. seqs = <<>>
    BY <1>5, EmptySeq
  <2> QED
    BY <1>3, <1>4, <1>5, <2>1 DEF FlattenSeq
<1>6. CASE n # 0
  <2> DEFINE u == [k \in 1..n |-> w[k]]
  <2>1. Flattens(u, n, seqs)
    <3> DEFINE v == [k \in 1..n |-> IF k = 1 THEN seqs[k] ELSE u[k - 1] \o seqs[k]]
    <3>1. \A k \in 1..n : u[k] = v[k]
      <4>1. ASSUME NEW k \in 1..n, k = 1 PROVE u[k] = v[k]
        <5>1. w[1] = <<>> \o seqs[1]
          <6>1. 1 \in 1..n /\ 1 - 1 = 0
            BY <4>1
          <6>2. w[1] = w[1 - 1] \o seqs[1]
            BY <1>4, <6>1
          <6> QED
            BY <1>3, <6>1, <6>2
        <5>2. <<>> \o seqs[1] = seqs[1]
          BY <1>1, <4>1, ConcatEmptySeq
        <5> QED
          BY <4>1, <5>1, <5>2
      <4>2. ASSUME NEW k \in 1..n, k # 1 PROVE u[k] = v[k]
        <5>1. k - 1 \in 1..n
          BY <4>2
        <5>2. u[k - 1] = w[k - 1]
          BY <5>1
        <5> QED
          BY <1>4, <4>2, <5>2
      <4> QED
        BY <4>1, <4>2
    <3> HIDE DEF u
    <3>2. u = v
      BY <3>1 DEF u
    <3> QED
      BY <3>2 DEF Flattens
  <2>2. PICK f : Flattens(f, n, seqs) /\ FlattenSeq(seqs) = f[n]
    <3>1. FlattenSeq(seqs) = (CHOOSE f : Flattens(f, n, seqs))[n]
      BY <1>6, Zenon DEF FlattenSeq, Flattens
    <3> HIDE DEF u
    <3> QED
      BY <2>1, <3>1
  <2>3. \A k \in 1..n : f[k] = IF k = 1 THEN seqs[k] ELSE f[k - 1] \o seqs[k]
    BY <2>2 DEF Flattens
  <2> DEFINE Q == {k \in 1..n : f[k] = w[k]}
  <2>4. 1 \in Q
    <3>1. 1 \in 1..n
      BY <1>6
    <3>2. w[1] = <<>> \o seqs[1]
      <4>1. 1 - 1 = 0
        OBVIOUS
      <4>2. w[1] = w[1 - 1] \o seqs[1]
        BY <1>4, <3>1
      <4> QED
        BY <1>3, <4>1, <4>2
    <3>3. <<>> \o seqs[1] = seqs[1]
      BY <1>1, <3>1, ConcatEmptySeq
    <3> QED
      BY <2>3, <3>1, <3>2, <3>3
  <2>5. ASSUME NEW k \in 1..n - 1, k \in Q PROVE k + 1 \in Q
    <3>1. k + 1 \in 1..n /\ k + 1 # 1 /\ (k + 1) - 1 = k
      BY <1>6
    <3>2. f[k + 1] = f[k] \o seqs[k + 1] /\ w[k + 1] = w[k] \o seqs[k + 1]
      BY <1>4, <2>3, <3>1
    <3> QED
      BY <2>5, <3>1, <3>2
  <2>6. 1..n \subseteq Q
    <3> HIDE DEF Q
    <3>1. 1 \in Int /\ n \in Int
      OBVIOUS
    <3> QED
      BY <2>4, <2>5, <3>1, IntervalIsInductive, Zenon
  <2>7. f[n] = w[n]
    BY <1>6, <2>6
  <2> QED
    BY <1>3, <1>4, <2>2, <2>7
<1> QED
  BY <1>5, <1>6

LEMMA FlattenNext ==
  ASSUME NEW S, NEW seqs \in Seq(Seq(S)), NEW x \in Seq(S)
  PROVE  /\ FlattenSeq(seqs) \in Seq(S)
         /\ FlattenSeq(Append(seqs, x)) = FlattenSeq(seqs) \o x
<1>1. PICK n \in Nat : n = Len(seqs)
  OBVIOUS
<1>2. PICK w \in [0..n -> Seq(S)] :
        /\ w[0] = <<>> /\ \A k \in 1..n : w[k] = w[k - 1] \o seqs[k]
        /\ FlattenSeq(seqs) = w[n]
  BY <1>1, Flattening, ZenonT(30)
<1>3. PICK more : more = Append(seqs, x)
  OBVIOUS
<1>4. PICK m \in Nat : m = n + 1
  OBVIOUS
<1>5. /\ more \in Seq(Seq(S)) /\ m = Len(more) /\ more[m] = x
      /\ \A k \in 1..n : more[k] = seqs[k]
  BY <1>1, <1>3, <1>4, AppendProperties
<1>6. PICK u \in [0..m -> Seq(S)] :
        /\ u[0] = <<>> /\ \A k \in 1..m : u[k] = u[k - 1] \o more[k]
        /\ FlattenSeq(more) = u[m]
  <2>1. more \in Seq(Seq(S)) /\ m = Len(more)
    BY <1>5
  <2> QED
    BY <2>1, Flattening, ZenonT(30)
<1> DEFINE Q == {k \in 0..n : u[k] = w[k]}
<1>7. 0 \in Q
  BY <1>2, <1>6
<1>8. ASSUME NEW k \in 0..n - 1, k \in Q PROVE k + 1 \in Q
  <2>1. k + 1 \in 1..n /\ k + 1 \in 1..m /\ (k + 1) - 1 = k
    BY <1>4
  <2>2. u[k + 1] = u[k] \o more[k + 1] /\ w[k + 1] = w[k] \o seqs[k + 1]
    BY <1>2, <1>6, <2>1
  <2>3. more[k + 1] = seqs[k + 1] /\ u[k] = w[k]
    BY <1>5, <1>8, <2>1
  <2>4. k + 1 \in 0..n
    BY <2>1
  <2> QED
    BY <2>2, <2>3, <2>4
<1>9. 0..n \subseteq Q
  <2> HIDE DEF Q
  <2>1. 0 \in Int /\ n \in Int
    OBVIOUS
  <2> QED
    BY <1>7, <1>8, <2>1, IntervalIsInductive, Zenon
<1>10. u[n] = w[n]
  BY <1>9
<1>11. m \in 1..m /\ m - 1 = n
  BY <1>4
<1>12. FlattenSeq(more) = w[n] \o x
  BY <1>5, <1>6, <1>10, <1>11
<1> QED
  BY <1>2, <1>3, <1>12

LEMMA FlattenNone == FlattenSeq(<<>>) = <<>>
<1> QED
  BY DEF FlattenSeq

(* s is in t from c on.                                                    *)
IsAt(t, c, s) ==
  /\ c \in Nat \ {0} /\ c + Len(s) <= Len(t) + 1
  /\ \A k \in 1..Len(s) : t[c + k - 1] = s[k]

LEMMA AtParts ==
  ASSUME NEW S, NEW t \in Seq(S), NEW u \in Seq(S), NEW v \in Seq(S), NEW c, IsAt(t, c, u \o v)
  PROVE  IsAt(t, c, u) /\ IsAt(t, c + Len(u), v)
<1>1. PICK l \in Nat, m \in Nat, n \in Nat : l = Len(t) /\ m = Len(u) /\ n = Len(v)
  OBVIOUS
<1>2. PICK w : w = u \o v
  OBVIOUS
<1>3. /\ Len(w) = m + n
      /\ \A k \in 1..m + n : w[k] = IF k <= m THEN u[k] ELSE v[k - m]
  BY <1>1, <1>2, ConcatProperties
<1>4. c \in Nat \ {0} /\ c + m + n <= l + 1 /\ \A k \in 1..m + n : t[c + k - 1] = w[k]
  BY <1>1, <1>2, <1>3 DEF IsAt
<1>5. \A k \in 1..m : t[c + k - 1] = u[k]
  BY <1>3, <1>4
<1>6. ASSUME NEW k \in 1..n PROVE t[c + m + k - 1] = v[k]
  <2>1. PICK h : h = m + k
    OBVIOUS
  <2>2. h \in 1..m + n /\ ~ (h <= m) /\ h - m = k /\ c + m + k - 1 = c + h - 1
    BY <1>4, <2>1
  <2> QED
    BY <1>3, <1>4, <2>2
<1> QED
  BY <1>1, <1>4, <1>5, <1>6 DEF IsAt

LEMMA AtMore ==
  ASSUME NEW S, NEW t \in Seq(S), NEW u \in Seq(S), NEW s, Len(s) \in Nat, NEW c, IsAt(t, c, s)
  PROVE  IsAt(t \o u, c, s)
<1>1. PICK l \in Nat, m \in Nat, n \in Nat : l = Len(t) /\ m = Len(u) /\ n = Len(s)
  OBVIOUS
<1>2. PICK w : w = t \o u
  OBVIOUS
<1>3. /\ Len(w) = l + m
      /\ \A k \in 1..l + m : w[k] = IF k <= l THEN t[k] ELSE u[k - l]
  BY <1>1, <1>2, ConcatProperties
<1>4. c \in Nat \ {0} /\ c + n <= l + 1 /\ \A k \in 1..n : t[c + k - 1] = s[k]
  BY <1>1 DEF IsAt
<1>5. ASSUME NEW k \in 1..n PROVE w[c + k - 1] = s[k]
  <2>1. c + k - 1 \in 1..l + m /\ c + k - 1 <= l
    BY <1>4
  <2> QED
    BY <1>3, <1>4, <2>1
<1> QED
  BY <1>1, <1>2, <1>3, <1>4, <1>5 DEF IsAt

(* And in what is left of t without its first m.                           *)
LEMMA AtRest ==
  ASSUME NEW S, NEW t \in Seq(S), NEW m \in Nat, m <= Len(t),
         NEW s, Len(s) \in Nat, NEW c, c > m, IsAt(t, c, s)
  PROVE  IsAt(SubSeq(t, m + 1, Len(t)), c - m, s)
<1>1. PICK l \in Nat, n \in Nat : l = Len(t) /\ n = Len(s)
  OBVIOUS
<1>2. PICK w : w = SubSeq(t, m + 1, l)
  OBVIOUS
<1>3. Len(w) = l - m /\ \A k \in 1..l - m : w[k] = t[m + k]
  <2>1. m + 1 \in Int /\ l \in Int /\ \A k \in m + 1..l : t[k] \in S
    BY <1>1
  <2>2. /\ Len(w) = IF m + 1 <= l THEN l - (m + 1) + 1 ELSE 0
        /\ \A k \in 1..l - (m + 1) + 1 : w[k] = t[m + 1 + k - 1]
    BY <1>2, <2>1, SubSeqProperties
  <2>3. ASSUME NEW k \in 1..l - m PROVE w[k] = t[m + k]
    <3>1. k \in 1..l - (m + 1) + 1 /\ m + 1 + k - 1 = m + k
      BY <1>1
    <3> QED
      BY <2>2, <3>1
  <2>4. Len(w) = l - m
    BY <1>1, <2>2
  <2> QED
    BY <2>3, <2>4
<1>4. c \in Nat \ {0} /\ c + n <= l + 1 /\ \A k \in 1..n : t[c + k - 1] = s[k]
  BY <1>1 DEF IsAt
<1>5. c - m \in Nat \ {0} /\ (c - m) + n <= (l - m) + 1
  BY <1>4
<1>6. ASSUME NEW k \in 1..n PROVE w[(c - m) + k - 1] = s[k]
  <2>1. PICK h : h = (c - m) + k - 1
    OBVIOUS
  <2>2. h \in 1..l - m /\ m + h = c + k - 1
    BY <1>4, <2>1
  <2> QED
    BY <1>3, <1>4, <2>1, <2>2
<1> QED
  BY <1>1, <1>2, <1>3, <1>5, <1>6 DEF IsAt

LEMMA SubSeqAt ==
  ASSUME NEW S, NEW t \in Seq(S), NEW s \in Seq(S), NEW c, IsAt(t, c, s)
  PROVE  SubSeq(t, c, c + Len(s) - 1) = s
<1>1. PICK l \in Nat, m \in Nat : l = Len(t) /\ m = Len(s)
  OBVIOUS
<1>2. c \in Nat \ {0} /\ c + m <= l + 1 /\ \A k \in 1..m : t[c + k - 1] = s[k]
  BY <1>1 DEF IsAt
<1>3. PICK e : e = c + m - 1
  OBVIOUS
<1>4. PICK w : w = SubSeq(t, c, e)
  OBVIOUS
<1>5. c \in Int /\ e \in Int /\ \A k \in c..e : t[k] \in S
  BY <1>1, <1>2, <1>3
<1>6. /\ w \in Seq(S) /\ Len(w) = IF c <= e THEN e - c + 1 ELSE 0
      /\ \A k \in 1..e - c + 1 : w[k] = t[c + k - 1]
  <2>1. /\ SubSeq(t, c, e) \in Seq(S) /\ Len(SubSeq(t, c, e)) = IF c <= e THEN e - c + 1 ELSE 0
        /\ \A k \in 1..e - c + 1 : SubSeq(t, c, e)[k] = t[c + k - 1]
    BY <1>5, SubSeqProperties
  <2> QED
    BY <1>4, <2>1, Zenon
<1>7. Len(w) = m /\ e - c + 1 = m
  BY <1>2, <1>3, <1>6
<1>8. \A k \in 1..m : w[k] = s[k]
  BY <1>2, <1>6, <1>7
<1>9. w = s
  BY <1>1, <1>6, <1>7, <1>8, SeqEqual
<1> QED
  BY <1>1, <1>3, <1>4, <1>9

(* Where the parts of a flattened sequence are.                            *)
Until(seqs, k) == FlattenSeq(SubSeq(seqs, 1, k))

LEMMA UntilIs ==
  ASSUME NEW S, NEW seqs \in Seq(Seq(S))
  PROVE  /\ Until(seqs, 0) = <<>> /\ Until(seqs, Len(seqs)) = FlattenSeq(seqs)
         /\ \A k \in 0..Len(seqs) : Until(seqs, k) \in Seq(S)
         /\ \A k \in 1..Len(seqs) : Until(seqs, k) = Until(seqs, k - 1) \o seqs[k]
<1>1. PICK n \in Nat : n = Len(seqs)
  OBVIOUS
<1>2. Until(seqs, 0) = <<>>
  <2>1. SubSeq(seqs, 1, 0) = <<>>
    BY SubSeqEmpty
  <2> QED
    BY <2>1, FlattenNone DEF Until
<1>3. Until(seqs, n) = FlattenSeq(seqs)
  BY <1>1, SubSeqFull DEF Until
<1>4. \A k \in 0..n : SubSeq(seqs, 1, k) \in Seq(Seq(S))
  <2>1. ASSUME NEW k \in 0..n PROVE SubSeq(seqs, 1, k) \in Seq(Seq(S))
    <3>1. 1 \in Int /\ k \in Int /\ \A h \in 1..k : seqs[h] \in Seq(S)
      BY <1>1
    <3> QED
      BY <3>1, SubSeqProperties
  <2> QED
    BY <2>1
<1>5. \A k \in 0..n : Until(seqs, k) \in Seq(S)
  BY <1>4, FlattenNext, EmptySeq, <1>2 DEF Until
<1>6. ASSUME NEW k \in 1..n PROVE Until(seqs, k) = Until(seqs, k - 1) \o seqs[k]
  <2>1. seqs[k] \in Seq(S) /\ k - 1 \in 0..n /\ 1 \in 1..Len(seqs) /\ k \in 1..Len(seqs)
    BY <1>1
  <2>2. PICK ps : ps = SubSeq(seqs, 1, k - 1)
    OBVIOUS
  <2>3. ps \in Seq(Seq(S))
    BY <1>4, <2>1, <2>2
  <2>4. SubSeq(seqs, 1, k) = ps \o <<seqs[k]>>
    BY <2>1, <2>2, SubSeqRecursiveSecond
  <2>5. SubSeq(seqs, 1, k) = Append(ps, seqs[k])
    <3>1. Append(ps, seqs[k]) = ps \o <<seqs[k]>>
      BY <2>1, <2>3, AppendIsConcat
    <3> QED
      BY <2>4, <3>1
  <2>6. FlattenSeq(Append(ps, seqs[k])) = FlattenSeq(ps) \o seqs[k]
    BY <2>1, <2>3, FlattenNext
  <2> QED
    BY <2>2, <2>5, <2>6 DEF Until
<1> QED
  BY <1>1, <1>2, <1>3, <1>5, <1>6

LEMMA AtUntil ==
  ASSUME NEW S, NEW seqs \in Seq(Seq(S)), NEW k \in 1..Len(seqs)
  PROVE  /\ IsAt(FlattenSeq(seqs), Len(Until(seqs, k - 1)) + 1, seqs[k])
         /\ Len(Until(seqs, k)) = Len(Until(seqs, k - 1)) + Len(seqs[k])
         /\ Len(Until(seqs, k)) <= Len(FlattenSeq(seqs))
<1>1. PICK n \in Nat : n = Len(seqs)
  OBVIOUS
<1>2. PICK before, c : before = Until(seqs, k - 1) /\ c = Len(before) + 1
  OBVIOUS
<1>3. PICK x : x = seqs[k]
  OBVIOUS
<1>4. before \in Seq(S) /\ x \in Seq(S) /\ Until(seqs, k) = before \o x
  <2>1. k - 1 \in 0..n /\ k \in 1..n /\ seqs[k] \in Seq(S)
    BY <1>1
  <2> QED
    BY <1>1, <1>2, <1>3, <2>1, UntilIs
<1>5. Len(Until(seqs, k)) = Len(before) + Len(x)
  BY <1>4, ConcatProperties
<1>6. IsAt(Until(seqs, k), c, x)
  <2>1. PICK w : w = before \o x
    OBVIOUS
  <2>2. w \in Seq(S) /\ Len(w) \in Nat
    BY <1>4, <2>1, ConcatProperties
  <2>3. IsAt(w, 1, before \o x)
    <3>1. IsAt(w, 1, w)
      <4>1. \A h \in 1..Len(w) : 1 + h - 1 = h
        BY <2>2
      <4> QED
        BY <2>2, <4>1 DEF IsAt
    <3> QED
      BY <2>1, <3>1
  <2>4. IsAt(w, 1 + Len(before), x)
    BY <1>4, <2>2, <2>3, AtParts
  <2>5. 1 + Len(before) = c
    BY <1>2, <1>4
  <2> QED
    BY <1>4, <2>1, <2>4, <2>5
<1> DEFINE Q == {m \in k..n : IsAt(Until(seqs, m), c, x) /\ Len(Until(seqs, k)) <= Len(Until(seqs, m))}
<1>7. k \in Q
  <2>1. k \in k..n /\ Len(Until(seqs, k)) \in Nat
    BY <1>1, <1>4, <1>5
  <2> QED
    BY <1>6, <2>1
<1>8. ASSUME NEW m \in k..n - 1, m \in Q PROVE m + 1 \in Q
  <2>1. m + 1 \in 1..n /\ (m + 1) - 1 = m /\ m \in 0..n /\ m + 1 \in k..n
    BY <1>1
  <2>2. seqs[m + 1] \in Seq(S)
    BY <1>1, <2>1
  <2>3. PICK t, u : t = Until(seqs, m) /\ u = seqs[m + 1]
    OBVIOUS
  <2>4. t \in Seq(S) /\ u \in Seq(S) /\ Until(seqs, m + 1) = t \o u
    BY <1>1, <2>1, <2>2, <2>3, UntilIs
  <2>5. IsAt(t, c, x) /\ Len(x) \in Nat /\ Len(Until(seqs, k)) <= Len(t)
    BY <1>4, <1>8, <2>3
  <2>6. IsAt(t \o u, c, x)
    BY <2>4, <2>5, AtMore
  <2>7. Len(t \o u) = Len(t) + Len(u) /\ Len(t) \in Nat /\ Len(u) \in Nat
    BY <2>4, ConcatProperties
  <2>8. Len(Until(seqs, k)) \in Nat
    BY <1>4, <1>5
  <2>9. Len(Until(seqs, k)) <= Len(t \o u)
    BY <2>5, <2>7, <2>8
  <2> QED
    BY <2>1, <2>4, <2>6, <2>9
<1>9. k..n \subseteq Q
  <2> HIDE DEF Q
  <2>1. k \in Int /\ n \in Int
    BY <1>1
  <2> QED
    BY <1>7, <1>8, <2>1, IntervalIsInductive, Zenon
<1>10. n \in Q
  <2> HIDE DEF Q
  <2>1. n \in k..n
    BY <1>1
  <2> QED
    BY <1>9, <2>1
<1> QED
  BY <1>1, <1>2, <1>3, <1>5, <1>10, UntilIs

LEMMA UntilGrows ==
  ASSUME NEW S, NEW seqs \in Seq(Seq(S)), NEW k \in 0..Len(seqs), NEW m \in k..Len(seqs)
  PROVE  Len(Until(seqs, k)) <= Len(Until(seqs, m))
<1>1. PICK n \in Nat : n = Len(seqs)
  OBVIOUS
<1> DEFINE Q == {h \in k..n : Len(Until(seqs, k)) <= Len(Until(seqs, h))}
<1>2. \A h \in 0..n : Len(Until(seqs, h)) \in Nat
  BY <1>1, UntilIs
<1>3. k \in Q
  BY <1>1, <1>2
<1>4. ASSUME NEW h \in k..n - 1, h \in Q PROVE h + 1 \in Q
  <2>1. h + 1 \in 1..n /\ h + 1 \in k..n /\ (h + 1) - 1 = h /\ h \in 0..n /\ h + 1 \in 0..n
    BY <1>1
  <2>2. seqs[h + 1] \in Seq(S) /\ Until(seqs, h) \in Seq(S)
    <3>1. h + 1 \in 1..Len(seqs) /\ h \in 0..Len(seqs)
      BY <1>1, <2>1
    <3>2. seqs[h + 1] \in Seq(S)
      BY <3>1, ElementOfSeq
    <3>3. Until(seqs, h) \in Seq(S)
      BY <3>1, UntilIs
    <3> QED
      BY <3>2, <3>3
  <2>3. Until(seqs, h + 1) = Until(seqs, h) \o seqs[h + 1]
    BY <1>1, <2>1, UntilIs
  <2>4. Len(Until(seqs, h + 1)) = Len(Until(seqs, h)) + Len(seqs[h + 1])
    BY <2>2, <2>3, ConcatProperties
  <2>5. Len(seqs[h + 1]) \in Nat
    BY <2>2
  <2>6. Len(Until(seqs, k)) <= Len(Until(seqs, h + 1))
    BY <1>1, <1>2, <1>4, <2>1, <2>4, <2>5
  <2> QED
    BY <2>1, <2>6
<1>5. k..n \subseteq Q
  <2> HIDE DEF Q
  <2>1. k \in Int /\ n \in Int
    BY <1>1
  <2> QED
    BY <1>3, <1>4, <2>1, IntervalIsInductive, Zenon
<1> QED
  BY <1>1, <1>5

(* A sequence of the first k + 1 is that of the first k with one more.     *)
LEMMA OneMoreOf ==
  ASSUME NEW S, NEW s \in Seq(S), NEW k \in Nat, k + 1 <= Len(s)
  PROVE  /\ SubSeq(s, 1, k) \in Seq(S) /\ s[k + 1] \in S
         /\ SubSeq(s, 1, k + 1) = Append(SubSeq(s, 1, k), s[k + 1])
<1>1. k + 1 \in 1..Len(s) /\ (k + 1) - 1 = k /\ 1 \in 1..Len(s)
  OBVIOUS
<1>2. s[k + 1] \in S
  BY <1>1, ElementOfSeq
<1>3. SubSeq(s, 1, k) \in Seq(S)
  <2>1. 1 \in Int /\ k \in Int /\ \A h \in 1..k : s[h] \in S
    OBVIOUS
  <2> QED
    BY <2>1, SubSeqProperties
<1>4. SubSeq(s, 1, k + 1) = SubSeq(s, 1, (k + 1) - 1) \o <<s[k + 1]>>
  BY <1>1, SubSeqRecursiveSecond
<1>5. SubSeq(s, 1, k + 1) = SubSeq(s, 1, k) \o <<s[k + 1]>>
  BY <1>1, <1>4
<1>6. Append(SubSeq(s, 1, k), s[k + 1]) = SubSeq(s, 1, k) \o <<s[k + 1]>>
  BY <1>2, <1>3, AppendIsConcat
<1> QED
  BY <1>2, <1>3, <1>5, <1>6

(* One element more at the end of two sequences.                           *)
LEMMA ConcatAppend ==
  ASSUME NEW P, NEW s \in Seq(P), NEW u \in Seq(P), NEW x \in P
  PROVE  Append(u, x) \in Seq(P) /\ s \o Append(u, x) = Append(s \o u, x) /\ s \o u \in Seq(P)
<1>1. <<x>> \in Seq(P)
  OBVIOUS
<1>2. s \o u \in Seq(P)
  BY ConcatProperties
<1>3. Append(u, x) = u \o <<x>> /\ Append(u, x) \in Seq(P)
  BY AppendIsConcat, AppendProperties
<1>4. Append(s \o u, x) = (s \o u) \o <<x>>
  BY <1>2, AppendIsConcat
<1>5. (s \o u) \o <<x>> = s \o (u \o <<x>>)
  BY <1>1, ConcatAssociative
<1> QED
  BY <1>2, <1>3, <1>4, <1>5

LEMMA FlattenConcat ==
  ASSUME NEW S, NEW s \in Seq(Seq(S)), NEW t \in Seq(Seq(S))
  PROVE  /\ FlattenSeq(s) \in Seq(S) /\ FlattenSeq(t) \in Seq(S) /\ s \o t \in Seq(Seq(S))
         /\ FlattenSeq(s \o t) = FlattenSeq(s) \o FlattenSeq(t)
<1>1. PICK n \in Nat : n = Len(t)
  OBVIOUS
<1>2. \A w \in Seq(Seq(S)) : FlattenSeq(w) \in Seq(S)
  <2>1. <<>> \in Seq(S)
    OBVIOUS
  <2> QED
    BY <2>1, FlattenNext
<1> DEFINE F(k) == FlattenSeq(SubSeq(t, 1, k))
           Q == {k \in 0..n : /\ SubSeq(t, 1, k) \in Seq(Seq(S))
                              /\ FlattenSeq(s \o SubSeq(t, 1, k)) = FlattenSeq(s) \o F(k)}
<1>3. 0 \in Q
  <2>1. SubSeq(t, 1, 0) = <<>>
    BY SubSeqEmpty
  <2>2. <<>> \in Seq(Seq(S)) /\ s \o <<>> = s /\ FlattenSeq(s) \o <<>> = FlattenSeq(s)
    <3>1. FlattenSeq(s) \in Seq(S)
      BY <1>2
    <3> QED
      BY <3>1, ConcatEmptySeq, EmptySeq
  <2>3. FlattenSeq(s \o SubSeq(t, 1, 0)) = FlattenSeq(s) \o F(0)
    BY <2>1, <2>2, FlattenNone, Zenon
  <2>4. 0 \in 0..n /\ SubSeq(t, 1, 0) \in Seq(Seq(S))
    BY <2>1, <2>2
  <2> QED
    BY <2>3, <2>4, Zenon
<1>4. ASSUME NEW k \in 0..n - 1, k \in Q PROVE k + 1 \in Q
  <2>1. PICK u, x : u = SubSeq(t, 1, k) /\ x = t[k + 1]
    OBVIOUS
  <2>2. SubSeq(t, 1, k + 1) = Append(u, x) /\ u \in Seq(Seq(S)) /\ x \in Seq(S)
    <3>1. k \in Nat /\ k + 1 <= Len(t)
      BY <1>1
    <3> QED
      BY <2>1, <3>1, OneMoreOf
  <2>3. Append(u, x) \in Seq(Seq(S)) /\ s \o Append(u, x) = Append(s \o u, x) /\ s \o u \in Seq(Seq(S))
    <3>1. PICK P : P = Seq(S)
      OBVIOUS
    <3>2. s \in Seq(P) /\ u \in Seq(P) /\ x \in P
      BY <2>2, <3>1
    <3>3. Append(u, x) \in Seq(P) /\ s \o Append(u, x) = Append(s \o u, x) /\ s \o u \in Seq(P)
      BY <3>2, ConcatAppend
    <3> QED
      BY <3>1, <3>3
  <2>4. FlattenSeq(Append(s \o u, x)) = FlattenSeq(s \o u) \o x
    BY <2>2, <2>3, FlattenNext
  <2>5. FlattenSeq(s \o u) = FlattenSeq(s) \o FlattenSeq(u)
    BY <1>4, <2>1
  <2>6. FlattenSeq(Append(u, x)) = FlattenSeq(u) \o x
    BY <2>2, FlattenNext
  <2>7. (FlattenSeq(s) \o FlattenSeq(u)) \o x = FlattenSeq(s) \o (FlattenSeq(u) \o x)
    <3>1. PICK v \in Seq(S), y \in Seq(S) : v = FlattenSeq(s) /\ y = FlattenSeq(u)
      BY <1>2, <2>2
    <3>2. x \in Seq(S)
      BY <2>2
    <3>3. (v \o y) \o x = v \o (y \o x)
      BY <3>2, ConcatAssociative, SMTT(30)
    <3> QED
      BY <3>1, <3>3
  <2>8. FlattenSeq(s \o Append(u, x)) = FlattenSeq(s) \o FlattenSeq(Append(u, x))
    BY <2>3, <2>4, <2>5, <2>6, <2>7
  <2>9. k + 1 \in 0..n
    BY <1>1
  <2> QED
    BY <2>2, <2>3, <2>8, <2>9
<1>5. 0..n \subseteq Q
  <2> HIDE DEF Q
  <2>1. 0 \in Int /\ n \in Int
    BY <1>1
  <2> QED
    BY <1>3, <1>4, <2>1, IntervalIsInductive, Zenon
<1>6. n \in Q
  BY <1>1, <1>5
<1>7. SubSeq(t, 1, n) = t
  BY <1>1, SubSeqFull
<1>8. s \o t \in Seq(Seq(S))
  BY ConcatProperties
<1> QED
  BY <1>2, <1>6, <1>7, <1>8

(* The n parts of length b of a sequence of S are its beginning.           *)
Cuts(seqs, w, n, b, S) ==
  /\ w \in Seq(S) /\ n \in Nat /\ b \in Nat /\ n * b <= Len(w)
  /\ seqs \in Seq(Seq(S)) /\ Len(seqs) = n
  /\ \A k \in 1..n : seqs[k] = SubSeq(w, (k - 1) * b + 1, k * b)

LEMMA FlattenParts ==
  ASSUME NEW seqs, NEW w, NEW n, NEW b, NEW S, Cuts(seqs, w, n, b, S)
  PROVE  /\ seqs \in Seq([1..b -> S])
         /\ FlattenSeq(seqs) = SubSeq(w, 1, n * b)
<1> DEFINE Part(k) == SubSeq(w, (k - 1) * b + 1, k * b)
           parts == [k \in 1..n |-> Part(k)]
<1> USE DEF Cuts
<1>1. ASSUME NEW k \in 1..n
      PROVE  /\ k * b \in Nat /\ (k - 1) * b \in Nat /\ k * b = (k - 1) * b + b /\ k * b <= Len(w)
             /\ Part(k) \in Seq(S) /\ Part(k) \in [1..b -> S]
             /\ SubSeq(w, 1, (k - 1) * b) \o Part(k) = SubSeq(w, 1, k * b)
  <2>1. PICK p \in Nat, q \in Nat : p = (k - 1) * b /\ q = k * b
    OBVIOUS
  <2>2. q = p + b
    BY <2>1
  <2>3. q <= Len(w)
    <3>1. k * b <= n * b
      OBVIOUS
    <3>2. PICK e \in Nat : e = n * b
      OBVIOUS
    <3>3. q <= e /\ e <= Len(w) /\ Len(w) \in Nat
      BY <2>1, <3>1, <3>2
    <3> QED
      BY <3>2, <3>3
  <2>4. Len(SubSeq(w, p + 1, q)) = b /\ SubSeq(w, p + 1, q) \in Seq(S)
    <3>1. p + 1 \in Int /\ q \in Int /\ \A h \in p + 1..q : w[h] \in S
      BY <2>3
    <3>2. q - (p + 1) + 1 = b
      BY <2>2
    <3> QED
      BY <2>2, <3>1, <3>2, SubSeqProperties
  <2>5. SubSeq(w, p + 1, q) \in [1..b -> S]
    BY <2>4, LenProperties
  <2>6. SubSeq(w, 1, p) \o SubSeq(w, p + 1, q) = SubSeq(w, 1, q)
    <3>1. 1 \in 1..Len(w) + 1 /\ p \in 1 - 1..Len(w) /\ q \in p..Len(w)
      BY <2>2, <2>3
    <3> QED
      BY <3>1, ConcatAdjacentSubSeq
  <2> QED
    BY <2>1, <2>2, <2>3, <2>4, <2>5, <2>6
<1> HIDE DEF Part
<1>2. parts \in Seq([1..b -> S]) /\ parts \in Seq(Seq(S)) /\ Len(parts) = n
  BY <1>1
<1> DEFINE Q == {k \in 0..n : Until(parts, k) = SubSeq(w, 1, k * b)}
<1>3. 0 \in Q
  <2>1. SubSeq(w, 1, 0) = <<>>
    BY SubSeqEmpty
  <2>2. Until(parts, 0) = <<>>
    BY <1>2, UntilIs
  <2>3. 0 * b = 0 /\ 0 \in 0..n
    OBVIOUS
  <2> HIDE DEF parts
  <2> QED
    BY <2>1, <2>2, <2>3
<1>4. ASSUME NEW k \in 0..n - 1, k \in Q PROVE k + 1 \in Q
  <2>1. k + 1 \in 1..n /\ (k + 1) - 1 = k /\ k + 1 \in 0..n
    OBVIOUS
  <2>2. Until(parts, k + 1) = Until(parts, (k + 1) - 1) \o parts[k + 1]
    BY <1>2, <2>1, UntilIs
  <2>3. Until(parts, k + 1) = SubSeq(w, 1, k * b) \o Part(k + 1)
    BY <1>4, <2>1, <2>2
  <2>4. SubSeq(w, 1, ((k + 1) - 1) * b) \o Part(k + 1) = SubSeq(w, 1, (k + 1) * b)
    BY <1>1, <2>1
  <2> QED
    BY <2>1, <2>3, <2>4
<1>5. 0..n \subseteq Q
  <2> HIDE DEF Q
  <2>1. 0 \in Int /\ n \in Int
    OBVIOUS
  <2> QED
    BY <1>3, <1>4, <2>1, IntervalIsInductive, Zenon
<1>6. FlattenSeq(parts) = SubSeq(w, 1, n * b)
  <2>1. Until(parts, n) = FlattenSeq(parts)
    <3> HIDE DEF parts
    <3> QED
      BY <1>2, UntilIs
  <2>2. n \in Q
    BY <1>5
  <2> QED
    BY <2>1, <2>2
<1>7. seqs = parts
  <2>1. \A k \in 1..n : seqs[k] = parts[k]
    BY DEF Part
  <2> HIDE DEF parts
  <2> QED
    BY <1>2, <2>1, SeqEqual
<1> QED
  BY <1>2, <1>6, <1>7

LEMMA ConcatIs ==
  ASSUME NEW S, NEW u \in Seq(S), NEW v \in Seq(S), NEW m \in Nat, NEW n \in Nat,
         m = Len(u), n = Len(v), NEW w, w = u \o v
  PROVE  /\ w \in Seq(S) /\ Len(w) = m + n
         /\ \A k \in 1..m : w[k] = u[k]
         /\ \A k \in 1..n : w[m + k] = v[k]
<1>1. /\ w \in Seq(S) /\ Len(w) = Len(u) + Len(v)
      /\ \A k \in 1..Len(u) + Len(v) : w[k] = IF k <= Len(u) THEN u[k] ELSE v[k - Len(u)]
  BY ConcatProperties
<1>2. ASSUME NEW k \in 1..m PROVE w[k] = u[k]
  BY <1>1
<1>3. ASSUME NEW k \in 1..n PROVE w[m + k] = v[k]
  <2>1. m + k \in 1..m + n /\ ~ (m + k <= m) /\ (m + k) - m = k
    OBVIOUS
  <2> QED
    BY <1>1, <2>1
<1> QED
  BY <1>1, <1>2, <1>3

LEMMA FirstOf ==
  ASSUME NEW S, NEW w \in Seq(S), NEW b \in 0..Len(w)
  PROVE  /\ SubSeq(w, 1, b) \in Seq(S) /\ Len(SubSeq(w, 1, b)) = b
         /\ \A k \in 1..b : SubSeq(w, 1, b)[k] = w[k]
<1>1. 1 \in Int /\ b \in Int /\ \A k \in 1..b : w[k] \in S
  OBVIOUS
<1>2. PICK v : v = SubSeq(w, 1, b)
  OBVIOUS
<1>3. /\ v \in Seq(S) /\ Len(v) = IF 1 <= b THEN b - 1 + 1 ELSE 0
      /\ \A k \in 1..b - 1 + 1 : v[k] = w[1 + k - 1]
  BY <1>1, <1>2, SubSeqProperties
<1>4. Len(v) = b
  BY <1>3
<1>5. ASSUME NEW k \in 1..b PROVE v[k] = w[k]
  <2>1. k \in 1..b - 1 + 1 /\ 1 + k - 1 = k
    OBVIOUS
  <2> QED
    BY <1>3, <2>1
<1> QED
  BY <1>2, <1>3, <1>4, <1>5

LEMMA AtConcat ==
  ASSUME NEW S, NEW u \in Seq(S), NEW v \in Seq(S)
  PROVE  IsAt(u \o v, 1, u) /\ IsAt(u \o v, Len(u) + 1, v)
<1>1. PICK w \in Seq(S) : w = u \o v
  BY ConcatProperties
<1>2. IsAt(w, 1, w)
  <2>1. 1 + Len(w) <= Len(w) + 1 /\ \A k \in 1..Len(w) : 1 + k - 1 = k
    OBVIOUS
  <2> QED
    BY <2>1 DEF IsAt
<1>3. IsAt(w, 1, u \o v)
  BY <1>1, <1>2
<1>4. IsAt(w, 1, u) /\ IsAt(w, 1 + Len(u), v)
  BY <1>3, AtParts
<1>5. 1 + Len(u) = Len(u) + 1
  OBVIOUS
<1> QED
  BY <1>1, <1>4, <1>5

(* What is in a part is in the whole.                                      *)
LEMMA AtWithin ==
  ASSUME NEW t, NEW s, NEW r, Len(t) \in Nat, Len(s) \in Nat, Len(r) \in Nat,
         NEW c, NEW d, IsAt(t, c, s), IsAt(s, d, r)
  PROVE  IsAt(t, c + d - 1, r)
<1>1. PICK l, m, n \in Nat : l = Len(t) /\ m = Len(s) /\ n = Len(r)
  OBVIOUS
<1>2. /\ c \in Nat \ {0} /\ c + m <= l + 1 /\ \A k \in 1..m : t[c + k - 1] = s[k]
      /\ d \in Nat \ {0} /\ d + n <= m + 1 /\ \A k \in 1..n : s[d + k - 1] = r[k]
  BY <1>1 DEF IsAt
<1>3. c + d - 1 \in Nat \ {0} /\ (c + d - 1) + n <= l + 1
  BY <1>2
<1>4. ASSUME NEW k \in 1..n PROVE t[(c + d - 1) + k - 1] = r[k]
  <2>1. PICK j : j = d + k - 1
    OBVIOUS
  <2>2. j \in 1..m /\ (c + d - 1) + k - 1 = c + j - 1
    BY <1>2, <2>1
  <2>3. t[c + j - 1] = s[j] /\ s[j] = r[k]
    BY <1>2, <2>1, <2>2
  <2> QED
    BY <2>2, <2>3
<1> QED
  BY <1>1, <1>3, <1>4 DEF IsAt

(* Parts all of one length.                                                *)
LEMMA EvenParts ==
  ASSUME NEW S, NEW seqs \in Seq(Seq(S)), NEW b \in Nat,
         \A k \in 1..Len(seqs) : Len(seqs[k]) = b
  PROVE  /\ \A k \in 0..Len(seqs) : Len(Until(seqs, k)) = b * k
         /\ FlattenSeq(seqs) \in Seq(S) /\ Len(FlattenSeq(seqs)) = b * Len(seqs)
<1>1. PICK n \in Nat : n = Len(seqs)
  OBVIOUS
<1> DEFINE Q == {k \in 0..n : Len(Until(seqs, k)) = b * k}
<1>2. 0 \in Q
  <2>1. Until(seqs, 0) = <<>>
    BY UntilIs
  <2>2. b * 0 = 0 /\ 0 \in 0..n
    OBVIOUS
  <2> QED
    BY <2>1, <2>2
<1>3. ASSUME NEW k \in 0..n - 1, k \in Q PROVE k + 1 \in Q
  <2>1. k + 1 \in 1..Len(seqs) /\ (k + 1) - 1 = k /\ k + 1 \in 0..n
    BY <1>1
  <2>2. Len(Until(seqs, k + 1)) = Len(Until(seqs, (k + 1) - 1)) + Len(seqs[k + 1])
    BY <2>1, AtUntil
  <2>3. Len(seqs[k + 1]) = b
    BY <2>1
  <2>4. Len(Until(seqs, k)) = b * k
    BY <1>3
  <2>5. b * (k + 1) = b * k + b
    OBVIOUS
  <2> QED
    BY <2>1, <2>2, <2>3, <2>4, <2>5
<1>4. 0..n \subseteq Q
  <2> HIDE DEF Q
  <2>1. 0 \in Int /\ n \in Int
    OBVIOUS
  <2> QED
    BY <1>2, <1>3, <2>1, IntervalIsInductive, Zenon
<1>5. Until(seqs, n) = FlattenSeq(seqs) /\ FlattenSeq(seqs) \in Seq(S)
  <2>1. Until(seqs, Len(seqs)) = FlattenSeq(seqs)
    BY UntilIs
  <2>2. Until(seqs, Len(seqs)) \in Seq(S)
    <3>1. Len(seqs) \in 0..Len(seqs)
      OBVIOUS
    <3> QED
      BY <3>1, UntilIs
  <2> QED
    BY <1>1, <2>1, <2>2
<1>6. n \in 0..n
  OBVIOUS
<1> QED
  BY <1>1, <1>4, <1>5, <1>6

LEMMA AtJoin ==
  ASSUME NEW S, NEW t, NEW u \in Seq(S), NEW v \in Seq(S), NEW c,
         IsAt(t, c, u), IsAt(t, c + Len(u), v)
  PROVE  IsAt(t, c, u \o v)
<1>1. PICK w, m, n : w = u \o v /\ m = Len(u) /\ n = Len(v)
  OBVIOUS
<1>2. m \in Nat /\ n \in Nat
  BY <1>1
<1>3. /\ w \in Seq(S) /\ Len(w) = m + n
      /\ \A k \in 1..m : w[k] = u[k]
      /\ \A k \in 1..n : w[m + k] = v[k]
  BY <1>1, <1>2, ConcatIs
<1>4. /\ c \in Nat \ {0} /\ \A k \in 1..m : t[c + k - 1] = u[k]
      /\ (c + m) + n <= Len(t) + 1 /\ \A k \in 1..n : t[(c + m) + k - 1] = v[k]
  BY <1>1 DEF IsAt
<1>5. c + (m + n) <= Len(t) + 1
  <2>1. (c + m) + n = c + (m + n)
    BY <1>2, <1>4
  <2> QED
    BY <1>4, <2>1
<1>6. ASSUME NEW k \in 1..m + n PROVE t[c + k - 1] = w[k]
  <2>1. CASE k <= m
    <3>1. k \in 1..m
      BY <1>2, <2>1
    <3> QED
      BY <1>3, <1>4, <3>1
  <2>2. CASE ~ (k <= m)
    <3>1. PICK j : j = k - m
      OBVIOUS
    <3>2. j \in 1..n /\ m + j = k /\ (c + m) + j - 1 = c + k - 1
      BY <1>2, <1>4, <2>2, <3>1
    <3> QED
      BY <1>3, <1>4, <3>2
  <2> QED
    BY <2>1, <2>2
<1> QED
  BY <1>1, <1>3, <1>4, <1>5, <1>6 DEF IsAt

-----------------------------------------------------------------------------
(* Sums over finite sets.                                                  *)

(* What SumFunctionOnSet unfolds to: h is the sum of f over subsets of S,  *)
(* an element at a time.                                                   *)
Picked(T) == CHOOSE x \in T : TRUE

Adds(h, f, S) ==
  h = [T \in SUBSET S |-> IF T = {} THEN 0 ELSE f[Picked(T)] + h[T \ {Picked(T)}]]

LEMMA SumUnfolds ==
  ASSUME NEW f, NEW S
  PROVE  SumFunctionOnSet(f, S) = (CHOOSE h : Adds(h, f, S))[S]
BY DEF SumFunctionOnSet, FoldFunctionOnSet, MapThenFoldSet, Adds, Picked

LEMMA PickedIn ==
  ASSUME NEW T, T # {}
  PROVE  Picked(T) \in T
BY DEF Picked

Summable(f, S) == IsFiniteSet(S) /\ \A x \in S : f[x] \in Int

SumsUp(h, f, S) == h \in [SUBSET S -> Int] /\ Adds(h, f, S)

LEMMA OneLess ==
  ASSUME NEW S, IsFiniteSet(S), NEW x \in S, NEW k \in Nat, Cardinality(S) = k + 1
  PROVE  IsFiniteSet(S \ {x}) /\ Cardinality(S \ {x}) = k
BY FS_RemoveElement

LEMMA AddsType ==
  ASSUME NEW S, NEW f, Summable(f, S), NEW h, Adds(h, f, S)
  PROVE  h \in [SUBSET S -> Int]
<1>1. IsFiniteSet(S) /\ \A x \in S : f[x] \in Int
  BY DEF Summable
<1>2. /\ h = [T \in SUBSET S |-> h[T]]
      /\ \A T \in SUBSET S : h[T] = IF T = {} THEN 0 ELSE f[Picked(T)] + h[T \ {Picked(T)}]
  BY DEF Adds
<1> DEFINE Q == {k \in Nat : \A T \in SUBSET S : Cardinality(T) = k => h[T] \in Int}
<1>3. \A T \in SUBSET S : IsFiniteSet(T) /\ Cardinality(T) \in Nat /\ (Cardinality(T) = 0 => T = {})
  BY <1>1, FS_Subset, FS_CardinalityType, FS_EmptySet
<1>4. 0 \in Q
  <2>1. \A T \in SUBSET S : Cardinality(T) = 0 => h[T] = 0
    BY <1>2, <1>3
  <2> QED
    BY <2>1
<1>5. ASSUME NEW k \in Nat, k \in Q PROVE k + 1 \in Q
  <2> SUFFICES ASSUME NEW T \in SUBSET S, Cardinality(T) = k + 1 PROVE h[T] \in Int
    OBVIOUS
  <2>1. T # {}
    BY FS_EmptySet
  <2>2. Picked(T) \in T
    BY <2>1, PickedIn
  <2>3. Cardinality(T \ {Picked(T)}) = k
    BY <1>3, <2>2, OneLess
  <2>4. h[T \ {Picked(T)}] \in Int
    BY <2>3, <1>5
  <2>5. f[Picked(T)] \in Int
    BY <2>2, <1>1
  <2>6. h[T] = f[Picked(T)] + h[T \ {Picked(T)}]
    BY <2>1, <1>2
  <2> QED
    BY <2>4, <2>5, <2>6
<1>6. Nat \subseteq Q
  <2> HIDE DEF Q
  <2> QED
    BY <1>4, <1>5, NatIsInductive
<1>7. \A T \in SUBSET S : h[T] \in Int
  BY <1>6, <1>3
<1> QED
  BY <1>2, <1>7

LEMMA SumExists ==
  ASSUME NEW S, NEW f, Summable(f, S)
  PROVE  \E h : SumsUp(h, f, S) /\ SumFunctionOnSet(f, S) = h[S]
<1> USE DEF Summable
<1> DEFINE M == [SUBSET S -> Int]
           none == [T \in SUBSET S |-> 0]
           Next(m) == [T \in SUBSET S |->
                        IF T = {} THEN 0 ELSE f[Picked(T)] + m[T \ {Picked(T)}]]
           g == [k \in Nat |-> [m \in M |-> Next(m)]]
           n == Cardinality(S)
<1>1. n \in Nat /\ \A T \in SUBSET S : Cardinality(T) \in 0..n /\ IsFiniteSet(T)
  BY FS_CardinalityType, FS_Subset
<1>2. \A T \in SUBSET S : T # {} =>
        /\ Picked(T) \in S /\ T \ {Picked(T)} \in SUBSET S
        /\ Cardinality(T) # 0 /\ Cardinality(T \ {Picked(T)}) = Cardinality(T) - 1
  <2> SUFFICES ASSUME NEW T \in SUBSET S, T # {}
               PROVE  /\ Picked(T) \in S /\ T \ {Picked(T)} \in SUBSET S
                      /\ Cardinality(T) # 0 /\ Cardinality(T \ {Picked(T)}) = Cardinality(T) - 1
    OBVIOUS
  <2>1. Picked(T) \in T
    BY PickedIn
  <2> QED
    BY <2>1, <1>1, FS_RemoveElement, FS_EmptySet
<1>3. none \in M /\ \A m \in M : Next(m) \in M
  <2>1. ASSUME NEW m \in M, NEW T \in SUBSET S, T # {}
        PROVE  f[Picked(T)] + m[T \ {Picked(T)}] \in Int
    <3>1. Picked(T) \in S /\ T \ {Picked(T)} \in SUBSET S
      BY <1>2, <2>1
    <3>2. f[Picked(T)] \in Int /\ m[T \ {Picked(T)}] \in Int
      BY <3>1
    <3> QED
      BY <3>2
  <2>2. ASSUME NEW m \in M PROVE Next(m) \in M
    <3>1. ASSUME NEW T \in SUBSET S
          PROVE  (IF T = {} THEN 0 ELSE f[Picked(T)] + m[T \ {Picked(T)}]) \in Int
      <4>1. CASE T = {}
        BY <4>1
      <4>2. CASE T # {}
        BY <4>2, <2>1
      <4> QED
        BY <4>1, <4>2
    <3> QED
      BY <3>1
  <2>3. none \in M
    OBVIOUS
  <2> HIDE DEF M, Next, none
  <2> QED
    BY <2>2, <2>3
<1>4. g \in [Nat -> [M -> M]]
  BY <1>3
<1>5. PICK F : Iterates(F, M, none, g, n)
  <2> HIDE DEF M, none, g, n
  <2> QED
    BY <1>1, <1>3, <1>4, Recursion
<1>6. F \in [0..n -> M] /\ F[0] = none /\ \A k \in 1..n : F[k] = Next(F[k - 1])
  <2>1. F \in [0..n -> M] /\ F[0] = none /\ \A k \in 1..n : F[k] = g[k][F[k - 1]]
    BY <1>5 DEF Iterates
  <2>2. ASSUME NEW k \in 1..n PROVE g[k][F[k - 1]] = Next(F[k - 1])
    <3>1. F[k - 1] \in M /\ k \in Nat
      BY <2>1, <1>1
    <3> HIDE DEF M, Next, none
    <3> QED
      BY <3>1
  <2> QED
    BY <2>1, <2>2
<1> DEFINE h == [T \in SUBSET S |-> F[Cardinality(T)][T]]
<1>7. h \in M
  BY <1>1, <1>6
<1>8. Adds(h, f, S)
  <2> SUFFICES ASSUME NEW T \in SUBSET S
               PROVE  h[T] = IF T = {} THEN 0 ELSE f[Picked(T)] + h[T \ {Picked(T)}]
    BY DEF Adds
  <2>1. CASE T = {}
    BY <2>1, <1>6, FS_EmptySet
  <2>2. CASE T # {}
    <3> DEFINE k == Cardinality(T)  R == T \ {Picked(T)}
    <3>1. k \in 1..n /\ R \in SUBSET S /\ Cardinality(R) = k - 1
      BY <2>2, <1>1, <1>2
    <3>2. h[T] = Next(F[k - 1])[T] /\ h[R] = F[k - 1][R]
      BY <3>1, <1>6
    <3> QED
      BY <3>2, <2>2
  <2> QED
    BY <2>1, <2>2
<1>9. Adds(CHOOSE e : Adds(e, f, S), f, S)
  <2> HIDE DEF h
  <2> QED
    BY <1>8, Zenon
<1> DEFINE c == CHOOSE e : Adds(e, f, S)
<1> HIDE DEF M
<1>11. c \in [SUBSET S -> Int]
  <2> HIDE DEF c
  <2> QED
    BY <1>9, AddsType DEF c
<1>12. SumFunctionOnSet(f, S) = c[S]
  BY SumUnfolds
<1> QED
  <2> HIDE DEF c
  <2> QED
    BY <1>9, <1>11, <1>12 DEF c, SumsUp

LEMMA SumRemoves ==
  ASSUME NEW S, NEW f, Summable(f, S), NEW h, SumsUp(h, f, S)
  PROVE  h[{}] = 0 /\ \A T \in SUBSET S : \A x \in T : h[T] = f[x] + h[T \ {x}]
<1>0. IsFiniteSet(S) /\ (\A x \in S : f[x] \in Int) /\ h \in [SUBSET S -> Int]
  BY DEF Summable, SumsUp
<1>1. \A T \in SUBSET S : h[T] = IF T = {} THEN 0 ELSE f[Picked(T)] + h[T \ {Picked(T)}]
  BY DEF Adds, SumsUp
<1>2. \A T \in SUBSET S : IsFiniteSet(T) /\ Cardinality(T) \in Nat
  BY <1>0, FS_Subset, FS_CardinalityType
<1> DEFINE Q == {k \in Nat : \A T \in SUBSET S : Cardinality(T) = k =>
                   \A x \in T : h[T] = f[x] + h[T \ {x}]}
<1>3. 0 \in Q
  BY <1>2, FS_EmptySet
<1>4. ASSUME NEW k \in Nat, k \in Q PROVE k + 1 \in Q
  <2> SUFFICES ASSUME NEW T \in SUBSET S, Cardinality(T) = k + 1, NEW x \in T
               PROVE  h[T] = f[x] + h[T \ {x}]
    OBVIOUS
  <2> DEFINE y == Picked(T)
  <2>1. y \in T
    BY PickedIn
  <2> HIDE DEF y
  <2>2. h[T] = f[y] + h[T \ {y}]
    BY <1>1 DEF y
  <2>3. CASE x = y
    BY <2>3, <2>2
  <2>4. CASE x # y
    <3> DEFINE A == T \ {y}  B == T \ {x}  D == T \ {x, y}
    <3>1. A \in SUBSET S /\ B \in SUBSET S /\ D \in SUBSET S
      OBVIOUS
    <3>2. Cardinality(A) = k /\ Cardinality(B) = k
      BY <2>1, <1>2, OneLess
    <3>3. x \in A /\ A \ {x} = D /\ y \in B /\ B \ {y} = D
      BY <2>1, <2>4
    <3>0. \A V \in SUBSET S : Cardinality(V) = k => \A z \in V : h[V] = f[z] + h[V \ {z}]
      BY <1>4
    <3> HIDE DEF A, B, D, Q
    <3>4. h[A] = f[x] + h[D] /\ h[B] = f[y] + h[D]
      BY <3>0, <3>1, <3>2, <3>3
    <3>5. f[x] \in Int /\ f[y] \in Int /\ h[D] \in Int
      BY <3>1, <2>1, <1>0
    <3>6. h[T] = f[y] + h[A] /\ h[T \ {x}] = h[B]
      BY <2>2 DEF A, B
    <3> QED
      BY <3>4, <3>5, <3>6
  <2> QED
    BY <2>3, <2>4
<1>5. Nat \subseteq Q
  <2> HIDE DEF Q
  <2> QED
    BY <1>3, <1>4, NatIsInductive
<1> QED
  BY <1>1, <1>2, <1>5

(* Nothing is 0, and one more element adds its value.                      *)
LEMMA SumNone ==
  ASSUME NEW f
  PROVE  SumFunctionOnSet(f, {}) = 0
<1>1. Summable(f, {})
  BY FS_EmptySet DEF Summable
<1>2. PICK h : SumsUp(h, f, {}) /\ SumFunctionOnSet(f, {}) = h[{}]
  BY <1>1, SumExists
<1> QED
  BY <1>2 DEF Adds, SumsUp

LEMMA SumOfSubset ==
  ASSUME NEW S, NEW f, Summable(f, S), NEW h, SumsUp(h, f, S), NEW T \in SUBSET S
  PROVE  SumFunctionOnSet(f, T) = h[T]
<1>1. Summable(f, T) /\ IsFiniteSet(T)
  BY FS_Subset DEF Summable
<1>2. PICK e : SumsUp(e, f, T) /\ SumFunctionOnSet(f, T) = e[T]
  BY <1>1, SumExists
<1>3. e[{}] = 0 /\ \A V \in SUBSET T : \A x \in V : e[V] = f[x] + e[V \ {x}]
  BY <1>1, <1>2, SumRemoves
<1>4. h[{}] = 0 /\ \A V \in SUBSET S : \A x \in V : h[V] = f[x] + h[V \ {x}]
  BY SumRemoves
<1> DEFINE Q == {V \in SUBSET T : e[V] = h[V]}
<1>5. {} \in Q
  BY <1>3, <1>4
<1>6. \A V \in SUBSET T : \A x \in T \ V : V \in Q => V \cup {x} \in Q
  <2> SUFFICES ASSUME NEW V \in SUBSET T, NEW x \in T \ V, V \in Q PROVE V \cup {x} \in Q
    OBVIOUS
  <2>1. V \cup {x} \in SUBSET T /\ (V \cup {x}) \ {x} = V
    OBVIOUS
  <2>2. V \cup {x} \in SUBSET S
    OBVIOUS
  <2>3. e[V \cup {x}] = f[x] + e[V]
    BY <1>3, <2>1
  <2>4. h[V \cup {x}] = f[x] + h[V]
    BY <1>4, <2>1, <2>2
  <2> QED
    BY <2>1, <2>3, <2>4
<1>7. T \in Q
  <2> HIDE DEF Q
  <2> QED
    BY <1>1, <1>5, <1>6, FiniteIsInductive
<1> QED
  BY <1>7, <1>2

LEMMA SumAdd ==
  ASSUME NEW S, NEW x, x \notin S, NEW f, Summable(f, S), f[x] \in Int
  PROVE  /\ Summable(f, S \cup {x})
         /\ SumFunctionOnSet(f, S) \in Int
         /\ SumFunctionOnSet(f, S \cup {x}) = f[x] + SumFunctionOnSet(f, S)
<1> DEFINE T == S \cup {x}
<1>1. Summable(f, T) /\ T \ {x} = S /\ x \in T /\ S \in SUBSET T /\ T \in SUBSET T
  BY FS_AddElement DEF Summable
<1>0. T = S \cup {x}
  OBVIOUS
<1> HIDE DEF T
<1>2. PICK h : SumsUp(h, f, T) /\ SumFunctionOnSet(f, T) = h[T]
  BY <1>1, SumExists
<1>3. SumFunctionOnSet(f, S) = h[S]
  BY <1>1, <1>2, SumOfSubset
<1>4. h[T] = f[x] + h[S]
  BY <1>1, <1>2, SumRemoves
<1>5. h[S] \in Int
  BY <1>1, <1>2 DEF SumsUp
<1> QED
  BY <1>1, <1>2, <1>3, <1>4, <1>5, <1>0

LEMMA SumIsInt ==
  ASSUME NEW S, NEW f, Summable(f, S)
  PROVE  SumFunctionOnSet(f, S) \in Int
<1>1. PICK h : SumsUp(h, f, S) /\ SumFunctionOnSet(f, S) = h[S]
  BY SumExists
<1> QED
  BY <1>1 DEF SumsUp

LEMMA SumSame ==
  ASSUME NEW S, NEW f, Summable(f, S), NEW g, \A x \in S : g[x] = f[x]
  PROVE  Summable(g, S) /\ SumFunctionOnSet(g, S) = SumFunctionOnSet(f, S)
<1>1. PICK h : SumsUp(h, f, S) /\ SumFunctionOnSet(f, S) = h[S]
  BY SumExists
<1>2. Summable(g, S)
  BY DEF Summable
<1>3. Adds(h, g, S)
  <2>1. h = [T \in SUBSET S |-> IF T = {} THEN 0 ELSE f[Picked(T)] + h[T \ {Picked(T)}]]
    BY <1>1 DEF SumsUp, Adds
  <2>2. \A T \in SUBSET S : T # {} => Picked(T) \in S
    BY PickedIn
  <2> QED
    BY <2>1, <2>2 DEF Adds
<1>4. SumsUp(h, g, S)
  BY <1>1, <1>3 DEF SumsUp
<1>5. SumFunctionOnSet(g, S) = h[S]
  BY <1>2, <1>4, SumOfSubset
<1> QED
  BY <1>1, <1>2, <1>5

(* The sum over a set is one element and the sum over the others.          *)
LEMMA SumTake ==
  ASSUME NEW S, NEW f, Summable(f, S), NEW x \in S
  PROVE  /\ Summable(f, S \ {x}) /\ f[x] \in Int
         /\ SumFunctionOnSet(f, S \ {x}) \in Int
         /\ SumFunctionOnSet(f, S) = f[x] + SumFunctionOnSet(f, S \ {x})
<1> DEFINE T == S \ {x}
<1>1. Summable(f, T) /\ x \notin T /\ f[x] \in Int /\ S = T \cup {x}
  BY FS_RemoveElement DEF Summable
<1>2. T = S \ {x}
  OBVIOUS
<1> HIDE DEF T
<1> QED
  BY <1>1, <1>2, SumAdd

LEMMA SumUnion ==
  ASSUME NEW S, NEW T, S \cap T = {}, NEW f, Summable(f, S), Summable(f, T)
  PROVE  /\ Summable(f, S \cup T)
         /\ SumFunctionOnSet(f, S \cup T) = SumFunctionOnSet(f, S) + SumFunctionOnSet(f, T)
<1>1. Summable(f, S \cup T) /\ IsFiniteSet(T) /\ \A x \in T : f[x] \in Int
  BY FS_Union DEF Summable
<1>2. \A V \in SUBSET T : Summable(f, V) /\ Summable(f, S \cup V)
  BY <1>1, FS_Subset, FS_Union DEF Summable
<1> DEFINE Q == {V \in SUBSET T : SumFunctionOnSet(f, S \cup V)
                   = SumFunctionOnSet(f, S) + SumFunctionOnSet(f, V)}
<1>3. {} \in Q
  <2>1. SumFunctionOnSet(f, S) \in Int
    BY SumIsInt
  <2>2. S \cup {} = S
    OBVIOUS
  <2> QED
    BY <2>1, <2>2, SumNone
<1>4. \A V \in SUBSET T : \A x \in T \ V : V \in Q => V \cup {x} \in Q
  <2> SUFFICES ASSUME NEW V \in SUBSET T, NEW x \in T \ V, V \in Q PROVE V \cup {x} \in Q
    OBVIOUS
  <2>1. SumFunctionOnSet(f, V \cup {x}) = f[x] + SumFunctionOnSet(f, V)
        /\ SumFunctionOnSet(f, V) \in Int /\ f[x] \in Int
    BY <1>1, <1>2, SumAdd
  <2>2. x \notin S \cup V /\ (S \cup V) \cup {x} = S \cup (V \cup {x})
    OBVIOUS
  <2>3. SumFunctionOnSet(f, S \cup (V \cup {x})) = f[x] + SumFunctionOnSet(f, S \cup V)
    <3> DEFINE W == S \cup V
    <3>1. SumFunctionOnSet(f, W \cup {x}) = f[x] + SumFunctionOnSet(f, W)
      <4>1. Summable(f, W) /\ x \notin W /\ f[x] \in Int
        BY <1>1, <1>2, <2>2
      <4> HIDE DEF W
      <4> QED
        BY <4>1, SumAdd
    <3> QED
      BY <3>1, <2>2
  <2>4. SumFunctionOnSet(f, S) \in Int
    BY SumIsInt
  <2> QED
    BY <2>1, <2>3, <2>4
<1>5. T \in Q
  <2> HIDE DEF Q
  <2> QED
    BY <1>1, <1>3, <1>4, FiniteIsInductive
<1> QED
  BY <1>1, <1>5

(* Sums of what is smaller are smaller.                                    *)
LEMMA SumLess ==
  ASSUME NEW S, NEW f, Summable(f, S), NEW g, Summable(g, S), \A x \in S : f[x] <= g[x]
  PROVE  SumFunctionOnSet(f, S) <= SumFunctionOnSet(g, S)
<1>1. IsFiniteSet(S) /\ \A V \in SUBSET S : Summable(f, V) /\ Summable(g, V)
  BY FS_Subset DEF Summable
<1> DEFINE Q == {V \in SUBSET S : SumFunctionOnSet(f, V) <= SumFunctionOnSet(g, V)}
<1>2. {} \in Q
  BY SumNone
<1>3. \A V \in SUBSET S : \A x \in S \ V : V \in Q => V \cup {x} \in Q
  <2> SUFFICES ASSUME NEW V \in SUBSET S, NEW x \in S \ V, V \in Q PROVE V \cup {x} \in Q
    OBVIOUS
  <2>1. f[x] \in Int /\ g[x] \in Int /\ f[x] <= g[x]
    BY DEF Summable
  <2>2. SumFunctionOnSet(f, V \cup {x}) = f[x] + SumFunctionOnSet(f, V)
        /\ SumFunctionOnSet(f, V) \in Int
    BY <1>1, <2>1, SumAdd
  <2>3. SumFunctionOnSet(g, V \cup {x}) = g[x] + SumFunctionOnSet(g, V)
        /\ SumFunctionOnSet(g, V) \in Int
    BY <1>1, <2>1, SumAdd
  <2> QED
    BY <2>1, <2>2, <2>3
<1>4. S \in Q
  <2> HIDE DEF Q
  <2> QED
    BY <1>1, <1>2, <1>3, FiniteIsInductive
<1> QED
  BY <1>4

LEMMA SumBelow ==
  ASSUME NEW S, NEW f, Summable(f, S), NEW b \in Int, \A x \in S : f[x] <= b
  PROVE  /\ Cardinality(S) \in Nat /\ SumFunctionOnSet(f, S) \in Int
         /\ SumFunctionOnSet(f, S) <= b * Cardinality(S)
<1>1. IsFiniteSet(S) /\ \A V \in SUBSET S : Summable(f, V) /\ IsFiniteSet(V) /\ Cardinality(V) \in Nat
  BY FS_Subset, FS_CardinalityType DEF Summable
<1> DEFINE Q == {V \in SUBSET S : SumFunctionOnSet(f, V) <= b * Cardinality(V)}
<1>2. {} \in Q
  BY SumNone, FS_EmptySet
<1>3. \A V \in SUBSET S : \A x \in S \ V : V \in Q => V \cup {x} \in Q
  <2> SUFFICES ASSUME NEW V \in SUBSET S, NEW x \in S \ V, V \in Q PROVE V \cup {x} \in Q
    OBVIOUS
  <2>1. f[x] \in Int /\ f[x] <= b
    BY DEF Summable
  <2>2. SumFunctionOnSet(f, V \cup {x}) = f[x] + SumFunctionOnSet(f, V)
        /\ SumFunctionOnSet(f, V) \in Int
    BY <1>1, <2>1, SumAdd
  <2>3. PICK n \in Nat : n = Cardinality(V) /\ Cardinality(V \cup {x}) = n + 1
    BY <1>1, FS_AddElement
  <2>4. b * (n + 1) = b * n + b /\ b * n \in Int
    BY <2>3
  <2> QED
    BY <2>1, <2>2, <2>3, <2>4
<1>4. S \in Q
  <2> HIDE DEF Q
  <2> QED
    BY <1>1, <1>2, <1>3, FiniteIsInductive
<1> QED
  BY <1>1, <1>4, SumIsInt

LEMMA SumAbove ==
  ASSUME NEW S, NEW f, Summable(f, S), NEW b \in Int, \A x \in S : f[x] >= b
  PROVE  /\ Cardinality(S) \in Nat /\ SumFunctionOnSet(f, S) \in Int
         /\ SumFunctionOnSet(f, S) >= b * Cardinality(S)
<1>1. IsFiniteSet(S) /\ \A V \in SUBSET S : Summable(f, V) /\ IsFiniteSet(V) /\ Cardinality(V) \in Nat
  BY FS_Subset, FS_CardinalityType DEF Summable
<1> DEFINE Q == {V \in SUBSET S : SumFunctionOnSet(f, V) >= b * Cardinality(V)}
<1>2. {} \in Q
  BY SumNone, FS_EmptySet
<1>3. \A V \in SUBSET S : \A x \in S \ V : V \in Q => V \cup {x} \in Q
  <2> SUFFICES ASSUME NEW V \in SUBSET S, NEW x \in S \ V, V \in Q PROVE V \cup {x} \in Q
    OBVIOUS
  <2>1. f[x] \in Int /\ f[x] >= b
    BY DEF Summable
  <2>2. SumFunctionOnSet(f, V \cup {x}) = f[x] + SumFunctionOnSet(f, V)
        /\ SumFunctionOnSet(f, V) \in Int
    BY <1>1, <2>1, SumAdd
  <2>3. PICK n \in Nat : n = Cardinality(V) /\ Cardinality(V \cup {x}) = n + 1
    BY <1>1, FS_AddElement
  <2>4. b * (n + 1) = b * n + b /\ b * n \in Int
    BY <2>3
  <2> QED
    BY <2>1, <2>2, <2>3, <2>4
<1>4. S \in Q
  <2> HIDE DEF Q
  <2> QED
    BY <1>1, <1>2, <1>3, FiniteIsInductive
<1> QED
  BY <1>1, <1>4, SumIsInt

(* A sum is the sum over the parts that g puts its elements in.            *)
SumsParts(t, R, f, S, g) == \A r \in R : t[r] = SumFunctionOnSet(f, {x \in S : g[x] = r})

LEMMA SumByParts ==
  ASSUME NEW S, NEW f, Summable(f, S), NEW g, NEW R, IsFiniteSet(R),
         NEW t, SumsParts(t, R, f, S, g)
  PROVE  /\ Summable(t, R)
         /\ SumFunctionOnSet(t, R) = SumFunctionOnSet(f, {x \in S : g[x] \in R})
<1> USE DEF SumsParts
<1> DEFINE Of(P) == {x \in S : g[x] \in P}
           On(r) == {x \in S : g[x] = r}
<1>1. \A V \in SUBSET S : Summable(f, V)
  BY FS_Subset DEF Summable
<1>2. \A r \in R : t[r] \in Int
  BY <1>1, SumIsInt
<1>3. \A P \in SUBSET R : Summable(t, P)
  BY <1>2, FS_Subset DEF Summable
<1> DEFINE Q == {P \in SUBSET R : SumFunctionOnSet(t, P) = SumFunctionOnSet(f, Of(P))}
<1>4. {} \in Q
  <2>1. Of({}) = {}
    OBVIOUS
  <2> QED
    BY <2>1, SumNone
<1>5. \A P \in SUBSET R : \A r \in R \ P : P \in Q => P \cup {r} \in Q
  <2> SUFFICES ASSUME NEW P \in SUBSET R, NEW r \in R \ P, P \in Q PROVE P \cup {r} \in Q
    OBVIOUS
  <2>1. Of(P \cup {r}) = On(r) \cup Of(P) /\ On(r) \cap Of(P) = {}
    OBVIOUS
  <2>2. Summable(f, On(r)) /\ Summable(f, Of(P)) /\ t[r] = SumFunctionOnSet(f, On(r))
    BY <1>1
  <2>3. SumFunctionOnSet(t, P) = SumFunctionOnSet(f, Of(P))
    OBVIOUS
  <2>4. SumFunctionOnSet(t, P \cup {r}) = t[r] + SumFunctionOnSet(t, P)
    <3>1. Summable(t, P) /\ t[r] \in Int /\ r \notin P
      BY <1>2, <1>3
    <3> QED
      BY <3>1, SumAdd
  <2>5. SumFunctionOnSet(f, On(r) \cup Of(P))
          = SumFunctionOnSet(f, On(r)) + SumFunctionOnSet(f, Of(P))
    <3> HIDE DEF On, Of, Q
    <3> QED
      BY <2>1, <2>2, SumUnion
  <2> QED
    BY <2>1, <2>2, <2>3, <2>4, <2>5
<1>6. R \in Q
  <2> HIDE DEF Q
  <2> QED
    BY <1>4, <1>5, FiniteIsInductive
<1> QED
  BY <1>3, <1>6

LEMMA RangeIsFinite ==
  ASSUME NEW a \in Int, NEW b \in Int
  PROVE  IsFiniteSet(a..b)
BY ONLY FS_Interval

LEMMA Monotone ==
  ASSUME NEW a \in Nat, NEW b \in Nat, NEW c \in Nat
  PROVE  /\ a <= b => a * c <= b * c
         /\ a * c < b * c => a < b
<1>1. ASSUME NEW u \in Nat, NEW v \in Nat, u <= v PROVE u * c <= v * c
  <2>1. PICK w \in Nat : v = u + w
    BY <1>1, v - u \in Nat
  <2>2. v * c = u * c + w * c /\ w * c \in Nat
    BY <2>1
  <2> QED
    BY <2>2
<1>2. a <= b => a * c <= b * c
  BY <1>1
<1>3. b <= a => b * c <= a * c
  BY <1>1
<1>4. a * c \in Nat /\ b * c \in Nat
  OBVIOUS
<1> QED
  BY <1>2, <1>3, <1>4
=============================================================================
