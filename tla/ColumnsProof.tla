---------------------------- MODULE ColumnsProof ----------------------------
(***************************************************************************)
(* What holds of the sorts and the statistics for any number of items,     *)
(* rows and columns, and of the heatmap for any picture.                   *)
(***************************************************************************)
EXTENDS Sorts, Heatmap, Induction, FunctionTheorems

-----------------------------------------------------------------------------
(* Places by rank.                                                         *)

(* before is a strict total order of S: before[x] are those before x.      *)
Total(S, before) ==
  /\ before \in [S -> SUBSET S]
  /\ \A x \in S : x \notin before[x]
  /\ \A x, y \in S : x \in before[y] => before[x] \subseteq before[y]
  /\ \A x, y \in S : x = y \/ x \in before[y] \/ y \in before[x]

(* In a finite total order, to count what precedes gives each element a    *)
(* place of its own, in that order, and leaves no place empty.             *)
LEMMA Places ==
  ASSUME NEW S, IsFiniteSet(S), NEW n, n = Cardinality(S),
         NEW before, Total(S, before),
         NEW at, at = [x \in S |-> Cardinality(before[x])]
  PROVE  /\ n \in Nat
         /\ at \in [S -> 0..n - 1]
         /\ \A x, y \in S : x \in before[y] <=> at[x] < at[y]
         /\ \A x, y \in S : at[x] = at[y] => x = y
         /\ \A k \in 0..n - 1 : \E x \in S : at[x] = k
<1>1. n \in Nat
  BY FS_CardinalityType
<1>2. ASSUME NEW x \in S
      PROVE  /\ IsFiniteSet(before[x]) /\ at[x] \in 0..n - 1
             /\ at[x] = Cardinality(before[x])
  <2>1. before[x] \in SUBSET S /\ x \notin before[x]
    BY DEF Total
  <2>2. at[x] = Cardinality(before[x])
    OBVIOUS
  <2>3. /\ IsFiniteSet(before[x]) /\ at[x] <= n
        /\ n = at[x] => before[x] = S
    BY <2>1, <2>2, FS_Subset
  <2>4. at[x] \in Nat
    BY <2>2, <2>3, FS_CardinalityType
  <2> QED
    BY <1>1, <2>1, <2>2, <2>3, <2>4
<1>3. ASSUME NEW x \in S, NEW y \in S, x \in before[y]
      PROVE  at[x] < at[y]
  <2>1. before[x] \in SUBSET before[y] /\ x \notin before[x]
    BY <1>3 DEF Total
  <2>2. at[x] <= at[y] /\ (at[y] = at[x] => before[x] = before[y])
    BY <1>2, <2>1, FS_Subset
  <2> QED
    BY <1>1, <1>2, <1>3, <2>1, <2>2
<1>4. ASSUME NEW x \in S, NEW y \in S
      PROVE  /\ x \in before[y] <=> at[x] < at[y]
             /\ at[x] = at[y] => x = y
  <2>1. at[x] \in Int /\ at[y] \in Int
    BY <1>2
  <2>2. x = y \/ x \in before[y] \/ y \in before[x]
    BY DEF Total
  <2> QED
    BY <1>3, <2>1, <2>2
<1>5. at \in [S -> 0..n - 1]
  BY <1>2
<1>6. at \in Injection(S, 0..n - 1)
  BY <1>4, <1>5 DEF Injection, IsInjective
<1>7. IsFiniteSet(0..n - 1) /\ Cardinality(0..n - 1) = n
  <2>1. 0 \in Int /\ n - 1 \in Int
    BY <1>1
  <2> QED
    BY <1>1, <2>1, FS_Interval
<1>8. at \in Surjection(S, 0..n - 1)
  BY <1>6, <1>7, FS_Injection
<1>9. \A k \in 0..n - 1 : \E x \in S : at[x] = k
  BY <1>8 DEF Surjection
<1> QED
  BY <1>1, <1>4, <1>5, <1>9

-----------------------------------------------------------------------------
(* A pass of RadixSort.                                                    *)

(* Whether place p of the rows precedes place q, as Pass has it.           *)
PlaceBefore(rows, dg, dr, p, q) ==
  \/ IF dr = "UP" THEN dg[rows[p]] < dg[rows[q]] ELSE dg[rows[p]] > dg[rows[q]]
  \/ dg[rows[p]] = dg[rows[q]] /\ p < q

(* The row at each place goes to the place that its rank gives it: At is a *)
(* permutation, in the order of the digits.                                *)
LEMMA PassPlaces ==
  ASSUME NEW n \in Nat, NEW R, NEW rows \in [1..n -> R], NEW dg \in [R -> Int], NEW dr
  PROVE  /\ Pass(rows, dg, dr) \in [1..n -> R]
         /\ \E At \in [1..n -> 1..n] :
              /\ \A p \in 1..n : Pass(rows, dg, dr)[At[p]] = rows[p]
              /\ \A p, q \in 1..n : At[p] < At[q] <=> PlaceBefore(rows, dg, dr, p, q)
              /\ \A k \in 1..n : \E p \in 1..n : At[p] = k
              /\ \A p \in 1..n :
                   At[p] = Cardinality({q \in 1..n : PlaceBefore(rows, dg, dr, q, p)}) + 1
<1> DEFINE D == DOMAIN rows
           before == [q \in D |-> {p \in D : PlaceBefore(rows, dg, dr, p, q)}]
           f == [p \in D |-> Cardinality(before[p])]
           At == [p \in D |-> f[p] + 1]
           out == Pass(rows, dg, dr)
<1>1. D = 1..n /\ \A p \in D : p \in Int /\ rows[p] \in R /\ dg[rows[p]] \in Int
  OBVIOUS
<1>2. out = [k \in D |-> rows[CHOOSE p \in D :
               Cardinality({q \in D : PlaceBefore(rows, dg, dr, q, p)}) + 1 = k]]
  BY Zenon DEF Pass, PlaceBefore
<1> HIDE DEF D, out
<1>3. /\ before \in [D -> SUBSET D]
      /\ \A p, q \in D : p \in before[q] <=> PlaceBefore(rows, dg, dr, p, q)
      /\ \A p \in D : before[p] = {q \in D : PlaceBefore(rows, dg, dr, q, p)}
  OBVIOUS
<1> HIDE DEF before
<1>4. Total(D, before)
  <2>1. \A x \in D : x \notin before[x]
    BY <1>1, <1>3 DEF PlaceBefore
  <2>2. ASSUME NEW x \in D, NEW y \in D, NEW z \in D, x \in before[y], z \in before[x]
        PROVE  z \in before[y]
    <3>1. PlaceBefore(rows, dg, dr, x, y) /\ PlaceBefore(rows, dg, dr, z, x)
      BY <1>3, <2>2
    <3>2. PlaceBefore(rows, dg, dr, z, y)
      BY <1>1, <3>1 DEF PlaceBefore
    <3> QED
      BY <1>3, <3>2
  <2>3. ASSUME NEW x \in D, NEW y \in D
        PROVE  x = y \/ x \in before[y] \/ y \in before[x]
    BY <1>1, <1>3 DEF PlaceBefore
  <2>4. \A x, y \in D : x \in before[y] => before[x] \subseteq before[y]
    BY <1>3, <2>2
  <2> QED
    BY <1>3, <2>1, <2>3, <2>4 DEF Total
<1>5. IsFiniteSet(D) /\ n = Cardinality(D)
  BY <1>1, FS_Interval
<1>6. \A p \in D : f[p] = Cardinality({q \in D : PlaceBefore(rows, dg, dr, q, p)})
  BY <1>3
<1>7. /\ f \in [D -> 0..n - 1]
      /\ \A p, q \in D : p \in before[q] <=> f[p] < f[q]
      /\ \A p, q \in D : f[p] = f[q] => p = q
      /\ \A k \in 0..n - 1 : \E p \in D : f[p] = k
  <2>1. f = [p \in D |-> Cardinality(before[p])]
    OBVIOUS
  <2> HIDE DEF f
  <2> QED
    BY <1>4, <1>5, <2>1, Places
<1> HIDE DEF f
<1>8. \A p \in D : f[p] \in 0..n - 1 /\ f[p] \in Int /\ At[p] = f[p] + 1
  BY <1>7
<1>9. ASSUME NEW k \in D PROVE out[k] = rows[CHOOSE p \in D : f[p] + 1 = k]
  <2>1. (CHOOSE p \in D : Cardinality({q \in D : PlaceBefore(rows, dg, dr, q, p)}) + 1 = k)
          = (CHOOSE p \in D : f[p] + 1 = k)
    BY <1>6, Zenon
  <2>2. out[k] = rows[CHOOSE p \in D :
                   Cardinality({q \in D : PlaceBefore(rows, dg, dr, q, p)}) + 1 = k]
    BY <1>2, Zenon
  <2> QED
    BY <2>1, <2>2, Zenon
<1>10. ASSUME NEW k \in D
       PROVE  \E p \in D : f[p] + 1 = k /\ out[k] = rows[p]
  <2> DEFINE q == CHOOSE p \in D : f[p] + 1 = k
  <2>1. k - 1 \in 0..n - 1
    BY <1>1
  <2>2. PICK p \in D : f[p] = k - 1
    BY <1>7, <2>1
  <2>3. f[p] + 1 = k
    BY <1>1, <2>2
  <2>4. q \in D /\ f[q] + 1 = k
    BY <2>3, Zenon
  <2>5. out[k] = rows[q]
    BY <1>9, Zenon
  <2> QED
    BY <2>4, <2>5, Zenon
<1>11. At \in [D -> D]
  BY <1>1, <1>8
<1>12. ASSUME NEW p \in D, NEW q \in D
       PROVE  At[p] < At[q] <=> PlaceBefore(rows, dg, dr, p, q)
  <2>1. f[p] < f[q] <=> PlaceBefore(rows, dg, dr, p, q)
    BY <1>3, <1>7
  <2> QED
    BY <1>8, <2>1
<1>13. ASSUME NEW k \in D PROVE \E p \in D : At[p] = k
  BY <1>8, <1>10
<1>14. \A p \in D : out[At[p]] = rows[p]
  <2> SUFFICES ASSUME NEW p \in D PROVE out[At[p]] = rows[p]
    OBVIOUS
  <2>1. PICK q \in D : f[q] + 1 = At[p] /\ out[At[p]] = rows[q]
    BY <1>10, <1>11
  <2>2. f[q] = f[p]
    BY <1>8, <2>1
  <2> QED
    BY <1>7, <2>1, <2>2
<1>18. \A p \in D :
          At[p] = Cardinality({q \in D : PlaceBefore(rows, dg, dr, q, p)}) + 1
  BY <1>6
<1>15. out \in [D -> R]
  <2>1. \A k \in D : out[k] \in R
    BY <1>1, <1>10
  <2>2. \E g : out = [k \in D |-> g[k]]
    <3> DEFINE g == [k \in D |-> rows[CHOOSE p \in D :
                      Cardinality({q \in D : PlaceBefore(rows, dg, dr, q, p)}) + 1 = k]]
    <3>1. out = g /\ g = [k \in D |-> g[k]]
      BY <1>2
    <3> HIDE DEF g
    <3> QED
      BY <3>1
  <2> QED
    BY <2>1, <2>2
<1> HIDE DEF At
<1>16. out \in [1..n -> R] /\ At \in [1..n -> 1..n]
  BY <1>1, <1>11, <1>15, Zenon
<1>17. /\ \A p \in 1..n : out[At[p]] = rows[p]
       /\ \A p, q \in 1..n : At[p] < At[q] <=> PlaceBefore(rows, dg, dr, p, q)
       /\ \A k \in 1..n : \E p \in 1..n : At[p] = k
       /\ \A p \in 1..n :
            At[p] = Cardinality({q \in 1..n : PlaceBefore(rows, dg, dr, q, p)}) + 1
  BY <1>1, <1>12, <1>13, <1>14, <1>18, Zenon
<1> QED
  BY <1>16, <1>17, Zenon DEF out

-----------------------------------------------------------------------------
(* Keys and their digits.                                                  *)

(* The remainder by a product, digit by digit.                             *)
LEMMA DivideTwice ==
  ASSUME NEW x \in Nat, NEW P \in Nat \ {0}, NEW B \in Nat \ {0}
  PROVE  /\ P * B \in Nat \ {0}
         /\ x % P \in 0..P - 1 /\ (x \div P) % B \in 0..B - 1
         /\ x % (P * B) = ((x \div P) % B) * P + (x % P)
<1> DEFINE q == x \div P
           r == x % P
           d == q % B
           e == q \div B
<1>1. q \in Nat /\ r \in 0..P - 1 /\ x = P * q + r
  OBVIOUS
<1>2. d \in 0..B - 1 /\ e \in Nat /\ q = B * e + d
  BY <1>1
<1> HIDE DEF q, r, d, e
<1>3. P * B \in Nat \ {0}
  OBVIOUS
<1>4. x = (P * B) * e + (d * P + r)
  BY <1>1, <1>2
<1>5. d * P + r \in 0..(P * B) - 1
  <2>1. d * P + r < d * P + P
    BY <1>1, <1>2
  <2>2. d * P + P = (d + 1) * P
    BY <1>2
  <2>3. (d + 1) * P <= B * P
    BY <1>2
  <2>4. d * P + r \in Nat
    BY <1>1, <1>2
  <2> QED
    BY <1>1, <1>2, <2>1, <2>2, <2>3, <2>4
<1>6. x % (P * B) = d * P + r
  <2> DEFINE M == P * B
             t == d * P + r
  <2>1. M \in Nat \ {0} /\ t \in 0..M - 1 /\ x = M * e + t /\ e \in Int
    BY <1>2, <1>3, <1>4, <1>5
  <2> HIDE DEF M, t
  <2>2. x % M = t
    BY <2>1
  <2> QED
    BY <2>2 DEF M, t
<1> QED
  BY <1>1, <1>2, <1>3, <1>6, Zenon DEF q, r, d, e

(* Of two numbers written with a high and a low digit, the high tells.     *)
LEMMA HighThenLow ==
  ASSUME NEW P \in Nat \ {0}, NEW c \in Nat, NEW d \in Nat,
         NEW r \in 0..P - 1, NEW s \in 0..P - 1
  PROVE  /\ c * P + r < d * P + s <=> c < d \/ (c = d /\ r < s)
         /\ c * P + r = d * P + s <=> c = d /\ r = s
<1>1. ASSUME NEW u \in Nat, NEW v \in Nat, u < v PROVE u * P + P <= v * P
  <2>1. u * P + P = (u + 1) * P
    OBVIOUS
  <2>2. (u + 1) * P <= v * P
    BY <1>1
  <2> QED
    BY <2>1, <2>2
<1>2. c * P \in Nat /\ d * P \in Nat
  OBVIOUS
<1>3. CASE c < d
  <2>1. c * P + P <= d * P
    BY <1>1, <1>3
  <2> QED
    BY <1>2, <1>3, <2>1
<1>4. CASE d < c
  <2>1. d * P + P <= c * P
    BY <1>1, <1>4
  <2> QED
    BY <1>2, <1>4, <2>1
<1>5. CASE c = d
  BY <1>2, <1>5
<1> QED
  BY <1>3, <1>4, <1>5

(* What digit b counts in a base: the power, also the fourth.              *)
Weight(base, b) == IF b = 4 THEN Powers(base)[4] * base ELSE Powers(base)[b + 1]

(* A key's digits below digit b.                                           *)
Low(x, b, base) == x % Weight(base, b)

(* Digit b is the one above those below it.                                *)
LEMMA NextDigit ==
  ASSUME NEW base \in Nat \ {0}, NEW b \in 0..3, NEW x \in Nat
  PROVE  /\ Weight(base, b) \in Nat \ {0} /\ Weight(base, b + 1) \in Nat \ {0}
         /\ Digit(x, b, base) \in Nat /\ Low(x, b, base) \in 0..Weight(base, b) - 1
         /\ Low(x, b + 1, base) = Digit(x, b, base) * Weight(base, b) + Low(x, b, base)
<1> DEFINE P == Weight(base, b)
<1>1. /\ P \in Nat \ {0} /\ P = Powers(base)[b + 1]
      /\ Weight(base, b + 1) = P * base
  <2>1. base * base \in Nat \ {0} /\ base * base * base \in Nat \ {0}
    OBVIOUS
  <2>2. /\ Powers(base)[1] = 1 /\ Powers(base)[2] = base
        /\ Powers(base)[3] = base * base /\ Powers(base)[4] = base * base * base
    BY DEF Powers
  <2>3. b = 0 \/ b = 1 \/ b = 2 \/ b = 3
    OBVIOUS
  <2> QED
    BY <2>1, <2>2, <2>3 DEF Weight
<1>2. Digit(x, b, base) = (x \div P) % base
  BY <1>1 DEF Digit
<1>3. Low(x, b, base) = x % P /\ Low(x, b + 1, base) = x % (P * base)
  BY <1>1 DEF Low
<1> HIDE DEF P
<1>4. /\ P * base \in Nat \ {0}
      /\ x % P \in 0..P - 1 /\ (x \div P) % base \in 0..base - 1
      /\ x % (P * base) = ((x \div P) % base) * P + (x % P)
  BY <1>1, DivideTwice
<1>5. (x \div P) % base \in Nat
  BY <1>4
<1> QED
  BY <1>1, <1>2, <1>3, <1>4, <1>5, Zenon DEF P

(* So it tells two keys apart first, and the digits below it only where it *)
(* is the same in both.                                                    *)
LEMMA DigitFirst ==
  ASSUME NEW base \in Nat \ {0}, NEW b \in 0..3, NEW x \in Nat, NEW y \in Nat
  PROVE  /\ Low(x, b + 1, base) < Low(y, b + 1, base)
              <=> \/ Digit(x, b, base) < Digit(y, b, base)
                  \/ /\ Digit(x, b, base) = Digit(y, b, base)
                     /\ Low(x, b, base) < Low(y, b, base)
         /\ Low(x, b + 1, base) = Low(y, b + 1, base)
              <=> /\ Digit(x, b, base) = Digit(y, b, base)
                  /\ Low(x, b, base) = Low(y, b, base)
<1> DEFINE P == Weight(base, b)
           c == Digit(x, b, base)
           d == Digit(y, b, base)
           r == Low(x, b, base)
           t == Low(y, b, base)
<1>1. /\ P \in Nat \ {0} /\ c \in Nat /\ d \in Nat /\ r \in 0..P - 1 /\ t \in 0..P - 1
      /\ Low(x, b + 1, base) = c * P + r /\ Low(y, b + 1, base) = d * P + t
  BY NextDigit
<1> HIDE DEF P, c, d, r, t
<1>2. /\ c * P + r < d * P + t <=> c < d \/ (c = d /\ r < t)
      /\ c * P + r = d * P + t <=> c = d /\ r = t
  BY <1>1, HighThenLow
<1> QED
  BY <1>1, <1>2, Zenon DEF c, d, r, t

(* Below digit 0 there is nothing, and below a weight above it all of it.  *)
LEMMA AllLow ==
  ASSUME NEW base \in Nat \ {0}, NEW x \in Nat
  PROVE  /\ Low(x, 0, base) = 0
         /\ \A b \in 0..4 : x < Weight(base, b) => Low(x, b, base) = x
<1>1. Weight(base, 0) = 1
  BY DEF Weight, Powers
<1>2. ASSUME NEW b \in 0..4, x < Weight(base, b) PROVE Low(x, b, base) = x
  <2> DEFINE P == Weight(base, b)
  <2>1. P \in Nat
    <3>1. b \in 0..3 \/ (b = 4 /\ 3 + 1 = 4 /\ 3 \in 0..3)
      OBVIOUS
    <3> QED
      BY <3>1, NextDigit
  <2>2. Low(x, b, base) = x % P
    BY DEF Low
  <2> HIDE DEF P
  <2>3. x < P => x % P = x
    BY <2>1
  <2> QED
    BY <1>2, <2>2, <2>3 DEF P
<1> QED
  BY <1>1, <1>2 DEF Low

-----------------------------------------------------------------------------
(* What a pass makes of rows that are in some order.                       *)

(* The same of rows that are numbers.                                      *)
LEMMA RowPlaces ==
  ASSUME NEW n \in Nat, NEW rows \in [1..n -> 1..n], NEW dg \in [1..n -> Int], NEW dr
  PROVE  /\ Pass(rows, dg, dr) \in [1..n -> 1..n]
         /\ \E At \in [1..n -> 1..n] :
              /\ \A p \in 1..n : Pass(rows, dg, dr)[At[p]] = rows[p]
              /\ \A p, q \in 1..n : At[p] < At[q] <=> PlaceBefore(rows, dg, dr, p, q)
              /\ \A k \in 1..n : \E p \in 1..n : At[p] = k
              /\ \A p \in 1..n :
                   At[p] = Cardinality({q \in 1..n : PlaceBefore(rows, dg, dr, q, p)}) + 1
<1> DEFINE R == 1..n
<1>1. rows \in [1..n -> R] /\ dg \in [R -> Int]
  OBVIOUS
<1> HIDE DEF R
<1>2. Pass(rows, dg, dr) \in [1..n -> R]
  BY <1>1, PassPlaces, Zenon
<1>3. \E At \in [1..n -> 1..n] :
        /\ \A p \in 1..n : Pass(rows, dg, dr)[At[p]] = rows[p]
        /\ \A p, q \in 1..n : At[p] < At[q] <=> PlaceBefore(rows, dg, dr, p, q)
        /\ \A k \in 1..n : \E p \in 1..n : At[p] = k
        /\ \A p \in 1..n :
             At[p] = Cardinality({q \in 1..n : PlaceBefore(rows, dg, dr, q, p)}) + 1
  BY <1>1, PassPlaces, Zenon
<1> QED
  BY <1>2, <1>3, Zenon DEF R

(* x comes before y by direction and digit, or else in the order before.   *)
ByDigit(dg, dr, before, x, y) ==
  \/ IF dr = "UP" THEN dg[x] < dg[y] ELSE dg[x] > dg[y]
  \/ dg[x] = dg[y] /\ x \in before[y]

LEMMA PassSorts ==
  ASSUME NEW n \in Nat, NEW rows \in [1..n -> 1..n],
         \A x \in 1..n : \E k \in 1..n : rows[k] = x,
         NEW dg \in [1..n -> Int], NEW dr, NEW before,
         \A j, k \in 1..n : j < k => rows[j] \in before[rows[k]]
  PROVE  /\ Pass(rows, dg, dr) \in [1..n -> 1..n]
         /\ \A x \in 1..n : \E k \in 1..n : Pass(rows, dg, dr)[k] = x
         /\ \A j, k \in 1..n :
              j < k => ByDigit(dg, dr, before, Pass(rows, dg, dr)[j], Pass(rows, dg, dr)[k])
<1> DEFINE out == Pass(rows, dg, dr)
<1>1. /\ out \in [1..n -> 1..n]
      /\ \E At \in [1..n -> 1..n] :
           /\ \A p \in 1..n : out[At[p]] = rows[p]
           /\ \A p, q \in 1..n : At[p] < At[q] <=> PlaceBefore(rows, dg, dr, p, q)
           /\ \A k \in 1..n : \E p \in 1..n : At[p] = k
  BY RowPlaces, Zenon
<1> HIDE DEF out
<1>2. PICK At \in [1..n -> 1..n] :
        /\ \A p \in 1..n : out[At[p]] = rows[p]
        /\ \A p, q \in 1..n : At[p] < At[q] <=> PlaceBefore(rows, dg, dr, p, q)
        /\ \A k \in 1..n : \E p \in 1..n : At[p] = k
  BY <1>1
<1>3. \A x \in 1..n : \E k \in 1..n : out[k] = x
  <2> SUFFICES ASSUME NEW x \in 1..n PROVE \E k \in 1..n : out[k] = x
    OBVIOUS
  <2>1. PICK p \in 1..n : rows[p] = x
    OBVIOUS
  <2>2. At[p] \in 1..n /\ out[At[p]] = x
    BY <1>2, <2>1
  <2> QED
    BY <2>2
<1>4. ASSUME NEW j \in 1..n, NEW k \in 1..n, j < k
      PROVE  ByDigit(dg, dr, before, out[j], out[k])
  <2>1. PICK p \in 1..n : At[p] = j
    BY <1>2
  <2>2. PICK q \in 1..n : At[q] = k
    BY <1>2
  <2>3. PlaceBefore(rows, dg, dr, p, q) /\ out[j] = rows[p] /\ out[k] = rows[q]
    BY <1>2, <1>4, <2>1, <2>2
  <2>4. p < q => rows[p] \in before[rows[q]]
    OBVIOUS
  <2> QED
    BY <2>3, <2>4 DEF PlaceBefore, ByDigit
<1> QED
  BY <1>1, <1>3, <1>4 DEF out

-----------------------------------------------------------------------------
(* The order the rows are in after each pass.                              *)

(* The digit's values, and the words, of the sort that runs.               *)
Base == IF fn = "fradixSort" THEN Base11 ELSE IF fn \in Float THEN Base16 ELSE Base8

WordsOf == IF fn \in Float THEN FloatWord ELSE IF fn \in Integer THEN IntWord ELSE Ordinals

Key(x) == IF fn \in Float THEN flop(x) ELSE x

(* Column k by weight tells row x from row y, or does not.                 *)
RankOf(k, x) == Rank(vals[Columnwise[k]][x])
Less(k, x, y) ==
  IF dirs[Columnwise[k]] = "UP" THEN RankOf(k, x) < RankOf(k, y) ELSE RankOf(k, x) > RankOf(k, y)

(* Row x before row y by the columns of weight m and below.                *)
BeforeFrom(m, x, y) ==
  \/ \E k \in m..LastColumn :
       Less(k, x, y) /\ \A l \in m..k - 1 : RankOf(l, x) = RankOf(l, y)
  \/ x < y /\ \A l \in m..LastColumn : RankOf(l, x) = RankOf(l, y)

(* The weight of the column that is being sorted, 0 after the last.        *)
Weighs == IF fn \in Float THEN col ELSE LastColumn + 1 - col

(* Row x before row y by the digits below b of that column, and then by    *)
(* those of less weight, which have been sorted.                           *)
LowOf(b, x) == Low(Key(vals[Columnwise[Weighs]][x]), b, Base)
LowBefore(b, x, y) ==
  \/ IF dirs[Columnwise[Weighs]] = "UP" THEN LowOf(b, x) < LowOf(b, y)
                                        ELSE LowOf(b, x) > LowOf(b, y)
  \/ LowOf(b, x) = LowOf(b, y) /\ BeforeFrom(Weighs + 1, x, y)

Passed(x, y) == IF byte = 0 THEN BeforeFrom(Weighs + 1, x, y) ELSE LowBefore(byte, x, y)

(* The words and the key order agree with the order of floats.             *)
LEMMA HalfOfWords ==
  Words \in Nat /\ Words = 2 * (Words \div 2) /\ Words \div 2 \in Nat \ {0}
<1>1. Base16 \in Nat \ {0} /\ Base16 % 2 = 0
  BY RadixAssumption
<1> DEFINE h == Base16 \div 2
<1>2. h \in Nat \ {0} /\ Base16 = 2 * h
  BY <1>1
<1> HIDE DEF h
<1>3. h * Base16 \in Nat \ {0} /\ Words = 2 * (h * Base16)
  BY <1>1, <1>2 DEF Words
<1> DEFINE m == h * Base16
<1>4. m \in Nat \ {0} /\ Words = 2 * m
  BY <1>3
<1> HIDE DEF m
<1> QED
  BY <1>4

LEMMA KeysRank ==
  ASSUME fn \in Float \cup Integer \cup Ordinal,
         NEW x \in WordsOf, NEW y \in WordsOf
  PROVE  /\ Key(x) \in Nat /\ (fn \notin Ordinal => Key(x) < Words)
         /\ Rank(x) \in Int
         /\ Key(x) < Key(y) <=> Rank(x) < Rank(y)
         /\ Key(x) = Key(y) <=> Rank(x) = Rank(y)
<1>1. CASE fn \in Float
  <2> DEFINE W == Words
             H == Words \div 2
  <2>1. W \in Nat /\ H \in Nat \ {0} /\ W = 2 * H
    BY HalfOfWords
  <2>2. x \in 0..W - 1 /\ y \in 0..W - 1 /\ NaN \in 0..H - 1 /\ MinusInf \in H..W - 1
    BY <1>1, RadixAssumption DEF WordsOf
  <2> DEFINE w(z) == IF z = NaN /\ fn # "fradixSort" THEN MinusInf ELSE z
             key(z) == IF w(z) >= H THEN W - 1 - w(z) ELSE w(z) + H
             rank(z) == IF w(z) >= H THEN H - 1 - w(z) ELSE w(z)
  <2>3. Key(x) = key(x) /\ Key(y) = key(y) /\ Rank(x) = rank(x) /\ Rank(y) = rank(y)
    <3> HIDE DEF W, H
    <3> QED
      BY <1>1, <2>1, <2>2 DEF Key, flop, flip, Rank, W, H
  <2>4. fn \notin Ordinal
    BY <1>1 DEF Float, Ordinal
  <2> HIDE DEF W, H
  <2>5. /\ key(x) \in Nat /\ key(x) < W /\ rank(x) \in Int
        /\ key(x) < key(y) <=> rank(x) < rank(y)
        /\ key(x) = key(y) <=> rank(x) = rank(y)
    BY <2>1, <2>2
  <2> HIDE DEF key, rank
  <2> QED
    BY <2>3, <2>4, <2>5 DEF W
<1>2. CASE fn \notin Float
  <2>1. Key(x) = x /\ Key(y) = y /\ Rank(x) = x /\ Rank(y) = y
    BY <1>2 DEF Key, Rank, Float
  <2>2. x \in Nat /\ y \in Nat
    BY <1>2, RadixAssumption, HalfOfWords DEF WordsOf
  <2>3. fn \notin Ordinal => x < Words
    BY <1>2, RadixAssumption, HalfOfWords DEF WordsOf
  <2> QED
    BY <2>1, <2>2, <2>3
<1> QED
  BY <1>1, <1>2

-----------------------------------------------------------------------------
(* The sorts, pass by pass.                                                *)

RadixType ==
  /\ fn \in Float \cup Integer \cup Ordinal
  /\ LastColumn \in Nat \ {0} /\ (fn \in OneColumn => LastColumn = 1)
  /\ \A c \in 1..LastColumn : vals[c] \in [1..Rows -> WordsOf]
  /\ dirs \in [1..LastColumn -> {"UP", "DOWN"}]
  /\ fn # "fradixSortL16_64" => \A c \in 1..LastColumn : dirs[c] = "UP"
  /\ buffer \in [{"caller", "own"} -> [1..Rows -> 0..Rows]]
  /\ current \in {"caller", "own"} /\ done \in BOOLEAN

(* Where the loops of each sort are between two passes.                    *)
InLoop ==
  \/ /\ fn = "fradixSortL16_64" /\ col \in 0..LastColumn
     /\ byte \in 0..1 /\ (col = 0 => byte = 0)
  \/ fn = "fradixSort16" /\ col = 1 /\ byte \in 0..2
  \/ fn = "fradixSort" /\ col = 1 /\ byte \in 0..3
  \/ /\ fn \in Integer /\ col \in 1..LastColumn + 1 /\ byte \in 0..3
     /\ IF col <= LastColumn THEN byte < getMaxByte(vals[col]) ELSE byte = 0
  \/ fn \in Ordinal /\ col \in 1..LastColumn + 1 /\ byte = 0

(* The buffer of the caller is the current one when it must be.            *)
InBuffer ==
  /\ fn \in {"fradixSort16", "fradixSortL16_64"} => (current = "caller" <=> byte # 1)
  /\ done => /\ LastPassDone
             /\ fn \in Integer \cup Ordinal => buffer["caller"] = buffer[current]

(* The rows are all there, in the order of the digits they were passed by. *)
SortedSoFar ==
  /\ buffer[current] \in [1..Rows -> 1..Rows]
  /\ \A x \in 1..Rows : \E k \in 1..Rows : buffer[current][k] = x
  /\ \A j, k \in 1..Rows : j < k => Passed(buffer[current][j], buffer[current][k])

RadixInv == RadixType /\ InLoop /\ InBuffer /\ SortedSoFar

(* The columns by weight are the columns, and ranks are numbers.           *)
LEMMA ColumnsRank ==
  ASSUME RadixType
  PROVE  /\ \A k \in 1..LastColumn : Columnwise[k] \in 1..LastColumn
         /\ \A k \in 1..LastColumn, x \in 1..Rows :
              vals[Columnwise[k]][x] \in WordsOf /\ RankOf(k, x) \in Int
<1>1. ASSUME NEW k \in 1..LastColumn PROVE Columnwise[k] \in 1..LastColumn
  <2>1. LastColumn \in Nat
    BY DEF RadixType
  <2> QED
    BY <2>1 DEF Columnwise
<1>2. ASSUME NEW k \in 1..LastColumn, NEW x \in 1..Rows
      PROVE  vals[Columnwise[k]][x] \in WordsOf /\ RankOf(k, x) \in Int
  <2>1. vals[Columnwise[k]][x] \in WordsOf
    BY <1>1 DEF RadixType
  <2>2. fn \in Float \cup Integer \cup Ordinal
    BY DEF RadixType
  <2> QED
    BY <2>1, <2>2, KeysRank DEF RankOf
<1> QED
  BY <1>1, <1>2

(* The column being sorted is the one of its weight.                       *)
LEMMA Weighing ==
  ASSUME RadixType, col \in 1..LastColumn
  PROVE  Weighs \in 1..LastColumn /\ Columnwise[Weighs] = col
<1>1. LastColumn \in Nat
  BY DEF RadixType
<1>2. Weighs \in 1..LastColumn
  BY <1>1 DEF Weighs
<1> QED
  BY <1>1, <1>2 DEF Weighs, Columnwise

LEMMA BaseType == Base \in Nat \ {0}
  BY RadixAssumption DEF Base

(* A pass by a digit of the column puts the rows in the order of the       *)
(* digits up to it.                                                        *)
LEMMA PassStep ==
  ASSUME RadixType, SortedSoFar, fn \notin Ordinal,
         byte \in 0..3, col \in 1..LastColumn,
         NEW key, key = [r \in 1..Rows |-> Key(vals[col][r])],
         Sort(key, Base, dirs[col])
  PROVE  /\ current' = Other(current) /\ current' \in {"caller", "own"}
         /\ buffer' \in [{"caller", "own"} -> [1..Rows -> 0..Rows]]
         /\ buffer'[current'] \in [1..Rows -> 1..Rows]
         /\ \A x \in 1..Rows : \E k \in 1..Rows : buffer'[current'][k] = x
         /\ \A j, k \in 1..Rows :
              j < k => LowBefore(byte + 1, buffer'[current'][j], buffer'[current'][k])
<1> DEFINE before == [y \in 1..Rows |-> {x \in 1..Rows : Passed(x, y)}]
           dg == [r \in 1..Rows |-> Digit(key[r], byte, Base)]
           rows == buffer[current]
           out == buffer'[current']
<1>1. current' = Other(current) /\ current' \in {"caller", "own"}
  BY DEF Sort, Other, RadixType
<1>2. out = Pass(rows, dg, dirs[col])
  BY <1>1 DEF Sort, RadixType
<1>3. \A r \in 1..Rows : vals[col][r] \in WordsOf /\ key[r] = Key(vals[col][r]) /\ key[r] \in Nat
  <2>1. \A r \in 1..Rows : vals[col][r] \in WordsOf /\ key[r] = Key(vals[col][r])
    BY DEF RadixType
  <2> QED
    BY <2>1, KeysRank DEF RadixType
<1>4. ASSUME NEW z \in Nat
      PROVE  /\ Digit(z, byte, Base) \in Int
             /\ Low(z, byte, Base) \in Int /\ Low(z, byte + 1, Base) \in Int
  <2> DEFINE B == Base
  <2>1. B \in Nat \ {0}
    BY BaseType
  <2> HIDE DEF B
  <2>2. /\ Weight(B, byte) \in Nat \ {0}
        /\ Digit(z, byte, B) \in Nat /\ Low(z, byte, B) \in 0..Weight(B, byte) - 1
        /\ Low(z, byte + 1, B) = Digit(z, byte, B) * Weight(B, byte) + Low(z, byte, B)
    BY <2>1, NextDigit
  <2> QED
    BY <2>2 DEF B
<1>10. dg \in [1..Rows -> Int]
  BY <1>3, <1>4
<1>5. /\ rows \in [1..Rows -> 1..Rows] /\ Rows \in Nat
      /\ \A x \in 1..Rows : \E k \in 1..Rows : rows[k] = x
  BY RadixAssumption DEF SortedSoFar
<1>6. \A j, k \in 1..Rows : j < k => rows[j] \in before[rows[k]]
  BY <1>5 DEF SortedSoFar
<1>7. /\ out \in [1..Rows -> 1..Rows]
      /\ \A x \in 1..Rows : \E k \in 1..Rows : out[k] = x
      /\ \A j, k \in 1..Rows : j < k => ByDigit(dg, dirs[col], before, out[j], out[k])
  <2> DEFINE dir0 == dirs[col]
             n == Rows
  <2>1. /\ n \in Nat /\ rows \in [1..n -> 1..n] /\ dg \in [1..n -> Int]
        /\ \A x \in 1..n : \E k \in 1..n : rows[k] = x
        /\ \A j, k \in 1..n : j < k => rows[j] \in before[rows[k]]
        /\ out = Pass(rows, dg, dir0)
    BY <1>2, <1>5, <1>6, <1>10
  <2> HIDE DEF before, dg, rows, out, dir0, n
  <2>2. /\ Pass(rows, dg, dir0) \in [1..n -> 1..n]
        /\ \A x \in 1..n : \E k \in 1..n : Pass(rows, dg, dir0)[k] = x
        /\ \A j, k \in 1..n : j < k =>
             ByDigit(dg, dir0, before, Pass(rows, dg, dir0)[j], Pass(rows, dg, dir0)[k])
    BY <2>1, PassSorts, Zenon
  <2> QED
    BY <2>1, <2>2, Zenon DEF dir0, n
<1>8. ASSUME NEW x \in 1..Rows, NEW y \in 1..Rows, ByDigit(dg, dirs[col], before, x, y)
      PROVE  LowBefore(byte + 1, x, y)
  <2> DEFINE p == key[x]
             q == key[y]
  <2>1. /\ p \in Nat /\ q \in Nat
        /\ \A b : LowOf(b, x) = Low(p, b, Base) /\ LowOf(b, y) = Low(q, b, Base)
    BY <1>3, Weighing DEF LowOf
  <2>2. /\ Low(p, byte + 1, Base) < Low(q, byte + 1, Base)
             <=> \/ Digit(p, byte, Base) < Digit(q, byte, Base)
                 \/ /\ Digit(p, byte, Base) = Digit(q, byte, Base)
                    /\ Low(p, byte, Base) < Low(q, byte, Base)
        /\ Low(q, byte + 1, Base) < Low(p, byte + 1, Base)
             <=> \/ Digit(q, byte, Base) < Digit(p, byte, Base)
                 \/ /\ Digit(q, byte, Base) = Digit(p, byte, Base)
                    /\ Low(q, byte, Base) < Low(p, byte, Base)
        /\ Low(p, byte + 1, Base) = Low(q, byte + 1, Base)
             <=> /\ Digit(p, byte, Base) = Digit(q, byte, Base)
                 /\ Low(p, byte, Base) = Low(q, byte, Base)
    <3> HIDE DEF p, q
    <3> QED
      BY <2>1, BaseType, DigitFirst
  <2>3. dg[x] = Digit(p, byte, Base) /\ dg[y] = Digit(q, byte, Base)
    OBVIOUS
  <2>4. /\ Low(p, byte, Base) \in Int /\ Low(q, byte, Base) \in Int
        /\ Low(p, byte + 1, Base) \in Int /\ Low(q, byte + 1, Base) \in Int
        /\ dg[x] \in Int /\ dg[y] \in Int
    BY <1>4, <1>10, <2>1
  <2>5. (IF dirs[col] = "UP" THEN dg[x] < dg[y] ELSE dg[x] > dg[y])
        => LowBefore(byte + 1, x, y)
    <3>1. dirs[Columnwise[Weighs]] = dirs[col]
      BY Weighing
    <3>2. /\ LowOf(byte + 1, x) = Low(p, byte + 1, Base)
          /\ LowOf(byte + 1, y) = Low(q, byte + 1, Base)
      BY <2>1
    <3> HIDE DEF p, q, dg
    <3>3. /\ dg[x] < dg[y] => LowOf(byte + 1, x) < LowOf(byte + 1, y)
          /\ dg[x] > dg[y] => LowOf(byte + 1, x) > LowOf(byte + 1, y)
      BY <2>2, <2>3, <2>4, <3>2
    <3> QED
      BY <3>1, <3>3, Zenon DEF LowBefore
  <2>6. x \in before[y] => Passed(x, y)
    OBVIOUS
  <2>7. Passed(x, y) => LowBefore(byte, x, y)
    <3>1. byte = 0 => LowOf(byte, x) = LowOf(byte, y)
      BY <2>1, AllLow, BaseType
    <3> QED
      BY <3>1 DEF Passed, LowBefore
  <2>8. dg[x] = dg[y] /\ LowBefore(byte, x, y) => LowBefore(byte + 1, x, y)
    <3> HIDE DEF p, q, dg
    <3> QED
      BY <2>1, <2>2, <2>3, <2>4, Weighing DEF LowBefore
  <2> QED
    <3>1. \/ IF dirs[col] = "UP" THEN dg[x] < dg[y] ELSE dg[x] > dg[y]
          \/ dg[x] = dg[y] /\ x \in before[y]
      <4> HIDE DEF dg, before
      <4> QED
        BY <1>8 DEF ByDigit
    <3> HIDE DEF dg, before
    <3> QED
      BY <2>5, <2>6, <2>7, <2>8, <3>1
<1>9. buffer' \in [{"caller", "own"} -> [1..Rows -> 0..Rows]]
  <2>1. buffer' = [buffer EXCEPT ![Other(current)] = out]
    BY <1>1 DEF Sort, RadixType
  <2>2. out \in [1..Rows -> 0..Rows]
    BY <1>7
  <2> HIDE DEF out
  <2> QED
    BY <2>1, <2>2 DEF RadixType
<1> QED
  BY <1>1, <1>7, <1>8, <1>9

(* A column decides first, and those of less weight where it does not.     *)
LEMMA ColumnFirst ==
  ASSUME LastColumn \in Nat, NEW w \in 1..LastColumn, NEW x, NEW y,
         \/ Less(w, x, y)
         \/ RankOf(w, x) = RankOf(w, y) /\ BeforeFrom(w + 1, x, y)
  PROVE  BeforeFrom(w, x, y)
<1>1. w \in Int /\ LastColumn \in Nat
  OBVIOUS
<1>2. CASE Less(w, x, y)
  <2>1. w..w - 1 = {}
    BY <1>1
  <2> QED
    BY <1>1, <1>2, <2>1 DEF BeforeFrom
<1>3. CASE RankOf(w, x) = RankOf(w, y) /\ BeforeFrom(w + 1, x, y)
  <2>1. ASSUME NEW m \in Int,
               \A l \in w + 1..m : RankOf(l, x) = RankOf(l, y)
        PROVE  \A l \in w..m : RankOf(l, x) = RankOf(l, y)
    <3> SUFFICES ASSUME NEW l \in w..m PROVE RankOf(l, x) = RankOf(l, y)
      OBVIOUS
    <3>1. l = w \/ l \in w + 1..m
      BY <1>1
    <3> QED
      BY <1>3, <2>1, <3>1
  <2>2. CASE \E k \in w + 1..LastColumn :
               Less(k, x, y) /\ \A l \in w + 1..k - 1 : RankOf(l, x) = RankOf(l, y)
    <3>1. PICK k \in w + 1..LastColumn :
            Less(k, x, y) /\ \A l \in w + 1..k - 1 : RankOf(l, x) = RankOf(l, y)
      BY <2>2
    <3>2. k \in w..LastColumn /\ k - 1 \in Int
      BY <1>1
    <3>3. \A l \in w..k - 1 : RankOf(l, x) = RankOf(l, y)
      BY <2>1, <3>1, <3>2
    <3> QED
      BY <3>1, <3>2, <3>3 DEF BeforeFrom
  <2>3. CASE x < y /\ \A l \in w + 1..LastColumn : RankOf(l, x) = RankOf(l, y)
    <3>1. LastColumn \in Int
      BY <1>1
    <3>2. \A l \in w..LastColumn : RankOf(l, x) = RankOf(l, y)
      BY <2>1, <2>3, <3>1
    <3> QED
      BY <2>3, <3>2 DEF BeforeFrom
  <2> QED
    BY <1>3, <2>2, <2>3 DEF BeforeFrom
<1> QED
  BY <1>2, <1>3

(* After a column's last digit the rows are in the order of the column.    *)
LEMMA ColumnDone ==
  ASSUME RadixType, col \in 1..LastColumn, NEW b \in 1..4,
         \A r \in 1..Rows : Low(Key(vals[col][r]), b, Base) = Key(vals[col][r]),
         NEW x \in 1..Rows, NEW y \in 1..Rows, LowBefore(b, x, y)
  PROVE  BeforeFrom(Weighs, x, y)
<1> DEFINE w == Weighs
           p == Key(vals[col][x])
           q == Key(vals[col][y])
<1>1. w \in 1..LastColumn /\ Columnwise[w] = col /\ LastColumn \in Nat
  BY Weighing DEF RadixType
<1>2. LowOf(b, x) = p /\ LowOf(b, y) = q
  BY <1>1 DEF LowOf
<1>3. RankOf(w, x) = Rank(vals[col][x]) /\ RankOf(w, y) = Rank(vals[col][y])
  BY <1>1 DEF RankOf
<1>4. vals[col][x] \in WordsOf /\ vals[col][y] \in WordsOf
  BY DEF RadixType
<1>5. /\ p \in Nat /\ q \in Nat /\ RankOf(w, x) \in Int /\ RankOf(w, y) \in Int
      /\ p < q <=> RankOf(w, x) < RankOf(w, y)
      /\ q < p <=> RankOf(w, y) < RankOf(w, x)
      /\ p = q <=> RankOf(w, x) = RankOf(w, y)
  BY <1>3, <1>4, KeysRank DEF RadixType
<1> HIDE DEF p, q, w
<1>6. \/ Less(w, x, y)
      \/ RankOf(w, x) = RankOf(w, y) /\ BeforeFrom(w + 1, x, y)
  <2>1. CASE p = q /\ BeforeFrom(w + 1, x, y)
    BY <1>5, <2>1
  <2>2. CASE IF dirs[col] = "UP" THEN p < q ELSE p > q
    BY <1>1, <1>5, <2>2 DEF Less
  <2> QED
    BY <1>1, <1>2, <2>1, <2>2 DEF LowBefore, w
<1>7. BeforeFrom(w, x, y)
  BY <1>1, <1>6, ColumnFirst
<1> QED
  BY <1>7 DEF w

(* getMaxByte finds all digits that are not 0.                             *)
LEMMA MaxByte ==
  ASSUME NEW v \in [1..Rows -> Nat]
  PROVE  /\ getMaxByte(v) \in 1..4
         /\ \A b \in 0..3, r \in 1..Rows :
              b >= getMaxByte(v) => Digit(v[r], b, Base8) = 0
<1> DEFINE S == {1} \cup {b \in 2..4 : \E r \in DOMAIN v : Digit(v[r], b - 1, Base8) > 0}
           m == getMaxByte(v)
<1>1. S \subseteq 1..4 /\ 1 \in S
  OBVIOUS
<1>2. m = CHOOSE x \in S : \A y \in S : x >= y
  BY DEF getMaxByte, Max
<1>3. \E x \in S : \A y \in S : x >= y
  <2> HIDE DEF S
  <2>1. \A x \in S : x \in 1..4
    BY <1>1
  <2> QED
    BY <1>1, <2>1
<1>4. m \in S /\ \A y \in S : m >= y
  <2> HIDE DEF S, m
  <2> QED
    BY <1>2, <1>3
<1>5. ASSUME NEW b \in 0..3, NEW r \in 1..Rows, b >= m
      PROVE  Digit(v[r], b, Base8) = 0
  <2>1. Digit(v[r], b, Base8) \in Nat
    BY RadixAssumption, NextDigit
  <2>2. b + 1 \notin S /\ b + 1 \in 2..4
    BY <1>1, <1>4, <1>5
  <2>3. ~ (Digit(v[r], (b + 1) - 1, Base8) > 0)
    BY <2>2
  <2>4. (b + 1) - 1 = b
    OBVIOUS
  <2> QED
    BY <2>1, <2>3, <2>4
<1> QED
  BY <1>1, <1>4, <1>5

(* The passes a column gets take its keys whole.                           *)
LEMMA KeysWhole ==
  ASSUME RadixType, col \in 1..LastColumn, NEW r \in 1..Rows
  PROVE  /\ fn \in {"fradixSort16", "fradixSortL16_64"} =>
              Low(Key(vals[col][r]), 2, Base) = Key(vals[col][r])
         /\ fn = "fradixSort" => Low(Key(vals[col][r]), 3, Base) = Key(vals[col][r])
         /\ fn \in Integer =>
              /\ getMaxByte(vals[col]) \in 1..4
              /\ Low(Key(vals[col][r]), getMaxByte(vals[col]), Base) = Key(vals[col][r])
<1> DEFINE x == Key(vals[col][r])
<1>1. vals[col] \in [1..Rows -> WordsOf] /\ vals[col][r] \in WordsOf
  BY DEF RadixType
<1>2. x \in Nat /\ (fn \notin Ordinal => x < Words)
  BY <1>1, KeysRank DEF RadixType
<1>3. Words \in Nat
  BY HalfOfWords
<1> HIDE DEF x
<1>4. CASE fn \in {"fradixSort16", "fradixSortL16_64"}
  <2>1. Base = Base16 /\ fn \notin Ordinal /\ fn # "fradixSort" /\ fn \notin Integer
    BY <1>4 DEF Base, Ordinal, Float, Integer
  <2>2. Weight(Base16, 2) = Words
    BY DEF Weight, Powers, Words
  <2> QED
    BY <1>2, <1>4, <2>1, <2>2, AllLow, RadixAssumption DEF x
<1>5. CASE fn = "fradixSort"
  <2>1. Base = Base11 /\ fn \notin Ordinal /\ fn \notin Integer
    BY <1>5 DEF Base, Ordinal, Integer
  <2>2. Weight(Base11, 3) = Powers(Base11)[4] /\ Weight(Base11, 3) \in Nat
    <3>1. Base11 \in Nat \ {0} /\ 3 \in 0..3 /\ 0 \in Nat
      BY RadixAssumption
    <3>2. Weight(Base11, 3) \in Nat \ {0}
      BY <3>1, NextDigit, Zenon
    <3> QED
      BY <3>2 DEF Weight
  <2>3. x < Weight(Base11, 3)
    BY <1>2, <1>3, <2>1, <2>2, RadixAssumption
  <2> QED
    BY <1>2, <1>5, <2>1, <2>3, AllLow, RadixAssumption DEF x
<1>6. CASE fn \in Integer
  <2> DEFINE m == getMaxByte(vals[col])
  <2>1. /\ Base = Base8 /\ fn \notin Ordinal /\ fn # "fradixSort" /\ fn \notin Float
        /\ fn \notin {"fradixSort16", "fradixSortL16_64"}
    BY <1>6 DEF Base, Ordinal, Float, Integer
  <2>2. x = vals[col][r] /\ vals[col] \in [1..Rows -> Nat]
    <3>1. WordsOf = IntWord
      BY <1>6, <2>1 DEF WordsOf
    <3>2. IntWord \subseteq Nat
      BY RadixAssumption, HalfOfWords
    <3> QED
      BY <1>1, <2>1, <3>1, <3>2 DEF x, Key
  <2>3. m \in 1..4 /\ \A b \in 0..3 : b >= m => Digit(x, b, Base8) = 0
    BY <2>2, MaxByte
  <2>4. \A b \in 0..3 :
          /\ Weight(Base8, b) \in Nat /\ Low(x, b, Base8) \in Nat
          /\ Low(x, b + 1, Base8) = Digit(x, b, Base8) * Weight(Base8, b) + Low(x, b, Base8)
    <3> SUFFICES ASSUME NEW b \in 0..3
                 PROVE  /\ Weight(Base8, b) \in Nat /\ Low(x, b, Base8) \in Nat
                        /\ Low(x, b + 1, Base8)
                             = Digit(x, b, Base8) * Weight(Base8, b) + Low(x, b, Base8)
      OBVIOUS
    <3>1. Base8 \in Nat \ {0}
      BY RadixAssumption
    <3>2. /\ Weight(Base8, b) \in Nat \ {0} /\ Low(x, b, Base8) \in 0..Weight(Base8, b) - 1
          /\ Low(x, b + 1, Base8)
               = Digit(x, b, Base8) * Weight(Base8, b) + Low(x, b, Base8)
      BY <1>2, <3>1, NextDigit, Zenon
    <3> QED
      BY <3>2
  <2>5. \A b \in 0..3 : b >= m => Low(x, b + 1, Base8) = Low(x, b, Base8)
    BY <2>3, <2>4
  <2>6. Low(x, 4, Base8) = x
    BY <1>2, <2>1, AllLow, RadixAssumption DEF Weight
  <2>7. Low(x, m, Base8) = x
    <3> HIDE DEF m
    <3>1. /\ m <= 3 => Low(x, 3 + 1, Base8) = Low(x, 3, Base8)
          /\ m <= 2 => Low(x, 2 + 1, Base8) = Low(x, 2, Base8)
          /\ m <= 1 => Low(x, 1 + 1, Base8) = Low(x, 1, Base8)
      BY <2>3, <2>5
    <3>2. m = 1 \/ m = 2 \/ m = 3 \/ m = 4
      BY <2>3
    <3> QED
      BY <2>6, <3>1, <3>2
  <2> QED
    BY <1>6, <2>1, <2>3, <2>7 DEF x
<1> QED
  BY <1>4, <1>5, <1>6 DEF x

(* The orders are of the columns and directions, which no pass changes.    *)
LEMMA OrdersStay ==
  ASSUME UNCHANGED <<fn, vals, dirs>>
  PROVE  /\ LastColumn' = LastColumn /\ WordsOf' = WordsOf /\ Base' = Base
         /\ \A m, x, y : BeforeFrom(m, x, y)' = BeforeFrom(m, x, y)
         /\ \A x : Key(x)' = Key(x)
         /\ Columnwise' = Columnwise
<1>1. LastColumn' = LastColumn /\ WordsOf' = WordsOf /\ Base' = Base
  BY DEF LastColumn, WordsOf, Base
<1>2. \A x : Key(x)' = Key(x) /\ Rank(x)' = Rank(x)
  BY DEF Key, Rank, flop
<1>3. Columnwise' = Columnwise
  BY <1>1 DEF Columnwise
<1>4. \A k, x : RankOf(k, x)' = RankOf(k, x)
  BY <1>2, <1>3 DEF RankOf
<1>5. \A k, x, y : Less(k, x, y)' = Less(k, x, y)
  BY <1>3, <1>4 DEF Less
<1>6. \A m, x, y : BeforeFrom(m, x, y)' = BeforeFrom(m, x, y)
  BY <1>1, <1>4, <1>5 DEF BeforeFrom
<1> QED
  BY <1>1, <1>2, <1>3, <1>6

LEMMA PassOn ==
  ASSUME RadixType, SortedSoFar, fn \notin Ordinal,
         byte \in 0..3, col \in 1..LastColumn,
         Sort([r \in 1..Rows |-> Key(vals[col][r])], Base, dirs[col]),
         UNCHANGED <<fn, vals, dirs, done>>,
         \/ col' = col /\ byte' = byte + 1
         \/ /\ byte' = 0 /\ Weighs' + 1 = Weighs
            /\ \A r \in 1..Rows :
                 Low(Key(vals[col][r]), byte + 1, Base) = Key(vals[col][r])
  PROVE  RadixType' /\ SortedSoFar' /\ current' = Other(current)
<1>1. /\ current' = Other(current) /\ current' \in {"caller", "own"}
      /\ buffer' \in [{"caller", "own"} -> [1..Rows -> 0..Rows]]
      /\ buffer'[current'] \in [1..Rows -> 1..Rows]
      /\ \A x \in 1..Rows : \E k \in 1..Rows : buffer'[current'][k] = x
      /\ \A j, k \in 1..Rows :
           j < k => LowBefore(byte + 1, buffer'[current'][j], buffer'[current'][k])
  BY PassStep
<1>2. /\ LastColumn' = LastColumn /\ WordsOf' = WordsOf /\ Base' = Base
      /\ \A m, x, y : BeforeFrom(m, x, y)' = BeforeFrom(m, x, y)
      /\ \A x : Key(x)' = Key(x)
      /\ Columnwise' = Columnwise
  BY OrdersStay
<1>3. RadixType'
  BY <1>1, <1>2 DEF RadixType
<1>4. ASSUME NEW x \in 1..Rows, NEW y \in 1..Rows, LowBefore(byte + 1, x, y)
      PROVE  Passed(x, y)'
  <2>1. CASE col' = col /\ byte' = byte + 1
    <3>1. Weighs' = Weighs
      BY <1>2, <2>1 DEF Weighs
    <3>3. LowBefore(byte, x, y)'
      <4>1. LowOf(byte, x)' = LowOf(byte + 1, x) /\ LowOf(byte, y)' = LowOf(byte + 1, y)
        BY <1>2, <2>1, <3>1 DEF LowOf
      <4>2. dirs'[Columnwise'[Weighs']] = dirs[Columnwise[Weighs]]
        BY <1>2, <3>1
      <4>3. BeforeFrom(Weighs + 1, x, y)' <=> BeforeFrom(Weighs + 1, x, y)
        <5>1. BeforeFrom(Weighs + 1, x, y)' <=> BeforeFrom(Weighs' + 1, x, y)
          BY <1>2, Zenon
        <5> QED
          BY <3>1, <5>1, Zenon
      <4> QED
        BY <1>4, <4>1, <4>2, <4>3 DEF LowBefore
    <3>4. byte' # 0
      BY <2>1
    <3> QED
      BY <3>3, <3>4 DEF Passed
  <2>2. CASE /\ byte' = 0 /\ Weighs' + 1 = Weighs
             /\ \A r \in 1..Rows :
                  Low(Key(vals[col][r]), byte + 1, Base) = Key(vals[col][r])
    <3>1. byte + 1 \in 1..4
      OBVIOUS
    <3>2. BeforeFrom(Weighs, x, y)
      BY <1>4, <2>2, <3>1, ColumnDone
    <3> QED
      BY <1>2, <2>2, <3>2 DEF Passed
  <2> QED
    BY <2>1, <2>2
<1>5. SortedSoFar'
  BY <1>1, <1>4 DEF SortedSoFar
<1> QED
  BY <1>1, <1>3, <1>5

LEMMA RadixInit == Init => RadixInv
<1> SUFFICES ASSUME Init PROVE RadixInv
  OBVIOUS
<1>1. PICK m \in 1..(IF fn \in OneColumn THEN 1 ELSE Columns) :
        vals \in [1..m -> [1..Rows -> WordsOf]]
  BY DEF Init, Inputs, WordsOf
<1>2. m \in Nat \ {0} /\ LastColumn = m
  BY <1>1, RadixAssumption DEF LastColumn
<1>3. /\ Rows \in Nat /\ fn \in Float \cup Integer \cup Ordinal
      /\ current = "caller" /\ byte = 0 /\ done = FALSE
      /\ buffer[current] = [k \in 1..Rows |-> k]
      /\ buffer \in [{"caller", "own"} -> [1..Rows -> 0..Rows]]
  BY RadixAssumption DEF Init
<1>4. dirs \in [1..LastColumn -> {"UP", "DOWN"}]
  BY DEF Init
<1>5. fn # "fradixSortL16_64" => \A c \in 1..LastColumn : dirs[c] = "UP"
  BY DEF Init
<1>6. fn \in OneColumn => LastColumn = 1
  BY <1>1, <1>2
<1>7. RadixType
  BY <1>1, <1>2, <1>3, <1>4, <1>5, <1>6 DEF RadixType
<1>8. getMaxByte(vals[1]) > 0 \/ fn \notin Integer
  <2> SUFFICES ASSUME fn \in Integer PROVE getMaxByte(vals[1]) > 0
    OBVIOUS
  <2>1. WordsOf \subseteq Nat
    BY RadixAssumption, HalfOfWords DEF WordsOf, Integer, Float
  <2>2. vals[1] \in [1..Rows -> Nat]
    <3>1. vals[1] \in [1..Rows -> WordsOf]
      BY <1>1, <1>2
    <3> QED
      BY <2>1, <3>1
  <2> QED
    BY <2>2, MaxByte
<1>9. InLoop
  <2>1. col = IF fn = "fradixSortL16_64" THEN LastColumn ELSE 1
    BY DEF Init
  <2> QED
    BY <1>2, <1>3, <1>8, <2>1 DEF InLoop, Float, Integer, Ordinal
<1>10. InBuffer
  BY <1>3 DEF InBuffer
<1>11. Weighs = LastColumn
  BY <1>2, <1>3, <1>6 DEF Init, Weighs, Float, Integer, Ordinal, OneColumn
<1>12. ASSUME NEW j \in 1..Rows, NEW k \in 1..Rows, j < k PROVE Passed(j, k)
  <2>1. Weighs + 1..LastColumn = {}
    BY <1>2, <1>11
  <2> QED
    BY <1>3, <1>12, <2>1 DEF Passed, BeforeFrom
<1>13. SortedSoFar
  BY <1>3, <1>12 DEF SortedSoFar
<1> QED
  BY <1>7, <1>9, <1>10, <1>13 DEF RadixInv

LEMMA FlopKeys ==
  ASSUME RadixType, fn \in Float, col \in 1..LastColumn
  PROVE  Flopped(vals[col]) = [r \in 1..Rows |-> Key(vals[col][r])]
  BY DEF RadixType, Flopped, Key

LEMMA Fradix16_64PassInv == RadixInv /\ Fradix16_64Pass => RadixInv'
<1> SUFFICES ASSUME RadixInv, Fradix16_64Pass PROVE RadixInv'
  OBVIOUS
<1>1. /\ fn = "fradixSortL16_64" /\ fn \in Float /\ fn \notin Ordinal /\ fn \notin Integer
      /\ LastColumn \in Nat
  BY DEF Fradix16_64Pass, Float, Integer, Ordinal, RadixInv, RadixType
<1>2. col \in 1..LastColumn /\ byte \in 0..1
  BY <1>1 DEF Fradix16_64Pass, RadixInv, InLoop, Integer, Ordinal
<1>3. Sort([r \in 1..Rows |-> Key(vals[col][r])], Base, dirs[col])
  BY <1>1, <1>2, FlopKeys DEF Fradix16_64Pass, RadixInv, Base
<1>4. UNCHANGED <<fn, vals, dirs, done>>
  BY DEF Fradix16_64Pass
<1>5. LastColumn' = LastColumn
  BY <1>4 DEF LastColumn
<1>6. IF byte = 0 THEN byte' = 1 /\ col' = col ELSE byte' = 0 /\ col' = col - 1
  BY DEF Fradix16_64Pass
<1>7. \/ col' = col /\ byte' = byte + 1
      \/ /\ byte' = 0 /\ Weighs' + 1 = Weighs
         /\ \A r \in 1..Rows : Low(Key(vals[col][r]), byte + 1, Base) = Key(vals[col][r])
  <2>1. CASE byte = 0
    BY <1>6, <2>1
  <2>2. CASE byte = 1
    <3>1. Weighs' + 1 = Weighs
      BY <1>1, <1>2, <1>4, <1>6, <2>2 DEF Weighs
    <3>2. \A r \in 1..Rows : Low(Key(vals[col][r]), 2, Base) = Key(vals[col][r])
      BY <1>1, <1>2, KeysWhole DEF RadixInv
    <3> QED
      BY <1>6, <2>2, <3>1, <3>2
  <2> QED
    BY <1>2, <2>1, <2>2
<1>8. RadixType' /\ SortedSoFar' /\ current' = Other(current)
  BY <1>1, <1>2, <1>3, <1>4, <1>7, PassOn DEF RadixInv
<1>9. InLoop'
  BY <1>1, <1>2, <1>4, <1>5, <1>6 DEF InLoop
<1>10. ~ done
  BY <1>1, <1>2 DEF RadixInv, InBuffer, LastPassDone
<1>11. InBuffer'
  <2>1. current = "caller" <=> byte # 1
    BY <1>1 DEF RadixInv, InBuffer
  <2>2. current' = "caller" <=> byte' # 1
    BY <1>2, <1>6, <1>8, <2>1 DEF Other, RadixInv, RadixType
  <2> QED
    BY <1>4, <1>10, <2>2 DEF InBuffer
<1> QED
  BY <1>8, <1>9, <1>11 DEF RadixInv

LEMMA Fradix16PassInv == RadixInv /\ Fradix16Pass => RadixInv'
<1> SUFFICES ASSUME RadixInv, Fradix16Pass PROVE RadixInv'
  OBVIOUS
<1>1. /\ fn = "fradixSort16" /\ fn \in Float /\ fn \notin Ordinal /\ fn \notin Integer
      /\ LastColumn = 1 /\ byte' = byte + 1 /\ col' = col
  BY DEF Fradix16Pass, Float, Integer, Ordinal, OneColumn, RadixInv, RadixType
<1>2. col = 1 /\ byte \in 0..1
  BY <1>1 DEF Fradix16Pass, RadixInv, InLoop, Integer, Ordinal
<1>3. Sort([r \in 1..Rows |-> Key(vals[col][r])], Base, dirs[col])
  <2>1. dirs[col] = "UP"
    BY <1>1, <1>2 DEF RadixInv, RadixType
  <2> QED
    BY <1>1, <1>2, <2>1, FlopKeys DEF Fradix16Pass, RadixInv, Base
<1>4. UNCHANGED <<fn, vals, dirs, done>>
  BY DEF Fradix16Pass
<1>5. RadixType' /\ SortedSoFar' /\ current' = Other(current)
  BY <1>1, <1>2, <1>3, <1>4, PassOn DEF RadixInv
<1>6. InLoop'
  BY <1>1, <1>2, <1>4 DEF InLoop
<1>7. ~ done
  BY <1>1, <1>2 DEF RadixInv, InBuffer, LastPassDone
<1>8. InBuffer'
  <2>1. current = "caller" <=> byte # 1
    BY <1>1 DEF RadixInv, InBuffer
  <2>2. current' = "caller" <=> byte' # 1
    BY <1>1, <1>2, <1>5, <2>1 DEF Other, RadixInv, RadixType
  <2> QED
    BY <1>4, <1>7, <2>2 DEF InBuffer
<1> QED
  BY <1>5, <1>6, <1>8 DEF RadixInv

LEMMA FradixPassInv == RadixInv /\ FradixPass => RadixInv'
<1> SUFFICES ASSUME RadixInv, FradixPass PROVE RadixInv'
  OBVIOUS
<1>1. /\ fn = "fradixSort" /\ fn \in Float /\ fn \notin Ordinal /\ fn \notin Integer
      /\ LastColumn = 1 /\ byte' = byte + 1 /\ col' = col
  BY DEF FradixPass, Float, Integer, Ordinal, OneColumn, RadixInv, RadixType
<1>2. col = 1 /\ byte \in 0..2
  BY <1>1 DEF FradixPass, RadixInv, InLoop, Integer, Ordinal
<1>3. Sort([r \in 1..Rows |-> Key(vals[col][r])], Base, dirs[col])
  <2>1. dirs[col] = "UP"
    BY <1>1, <1>2 DEF RadixInv, RadixType
  <2> QED
    BY <1>1, <1>2, <2>1, FlopKeys DEF FradixPass, RadixInv, Base
<1>4. UNCHANGED <<fn, vals, dirs, done>>
  BY DEF FradixPass
<1>5. RadixType' /\ SortedSoFar' /\ current' = Other(current)
  BY <1>1, <1>2, <1>3, <1>4, PassOn DEF RadixInv
<1>6. InLoop'
  BY <1>1, <1>2, <1>4 DEF InLoop
<1>7. ~ done
  BY <1>1, <1>2 DEF RadixInv, InBuffer, LastPassDone
<1>8. InBuffer'
  BY <1>1, <1>4, <1>7 DEF InBuffer
<1> QED
  BY <1>5, <1>6, <1>8 DEF RadixInv

LEMMA RadixPassInv == RadixInv /\ RadixPass => RadixInv'
<1> SUFFICES ASSUME RadixInv, RadixPass PROVE RadixInv'
  OBVIOUS
<1>1. /\ fn \in Integer /\ fn \notin Float /\ fn \notin Ordinal
      /\ fn # "fradixSortL16_64" /\ fn # "fradixSort16" /\ fn # "fradixSort"
      /\ LastColumn \in Nat
  BY DEF RadixPass, Float, Integer, Ordinal, RadixInv, RadixType
<1>2. /\ col \in 1..LastColumn /\ byte \in 0..3 /\ byte < getMaxByte(vals[col])
      /\ getMaxByte(vals[col]) \in 1..4
      /\ \A r \in 1..Rows :
           Low(Key(vals[col][r]), getMaxByte(vals[col]), Base) = Key(vals[col][r])
  <2>1. col \in 1..LastColumn /\ byte \in 0..3 /\ byte < getMaxByte(vals[col])
    BY <1>1 DEF RadixPass, RadixInv, InLoop
  <2>2. 1 \in 1..Rows
    BY RadixAssumption
  <2> QED
    BY <1>1, <2>1, <2>2, KeysWhole DEF RadixInv
<1>3. Sort([r \in 1..Rows |-> Key(vals[col][r])], Base, dirs[col])
  <2>1. dirs[col] = "UP"
    BY <1>1, <1>2 DEF RadixInv, RadixType
  <2>2. vals[col] = [r \in 1..Rows |-> Key(vals[col][r])]
    BY <1>1, <1>2 DEF RadixInv, RadixType, Key
  <2>3. Base = Base8
    BY <1>1 DEF Base
  <2>4. Sort(vals[col], Base8, "UP")
    BY DEF RadixPass
  <2> QED
    BY <2>1, <2>2, <2>3, <2>4
<1>4. UNCHANGED <<fn, vals, dirs, done>>
  BY DEF RadixPass
<1>5. LastColumn' = LastColumn
  BY <1>4 DEF LastColumn
<1>6. IF byte + 1 < getMaxByte(vals[col])
      THEN byte' = byte + 1 /\ col' = col
      ELSE byte' = 0 /\ col' = col + 1
  BY DEF RadixPass
<1>7. \/ col' = col /\ byte' = byte + 1
      \/ /\ byte' = 0 /\ Weighs' + 1 = Weighs
         /\ \A r \in 1..Rows : Low(Key(vals[col][r]), byte + 1, Base) = Key(vals[col][r])
  <2>1. CASE byte + 1 < getMaxByte(vals[col])
    BY <1>6, <2>1
  <2>2. CASE ~ (byte + 1 < getMaxByte(vals[col]))
    <3>1. byte + 1 = getMaxByte(vals[col])
      BY <1>2, <2>2
    <3>2. Weighs' + 1 = Weighs
      BY <1>1, <1>2, <1>4, <1>5, <1>6, <2>2 DEF Weighs
    <3> QED
      BY <1>2, <1>6, <2>2, <3>1, <3>2
  <2> QED
    BY <2>1, <2>2
<1>8. RadixType' /\ SortedSoFar' /\ current' = Other(current)
  BY <1>1, <1>2, <1>3, <1>4, <1>7, PassOn DEF RadixInv
<1>9. InLoop'
  <2>1. CASE byte + 1 < getMaxByte(vals[col])
    <3>1. byte' = byte + 1 /\ col' = col /\ getMaxByte(vals[col])' = getMaxByte(vals[col])
      BY <1>4, <1>6, <2>1 DEF getMaxByte, Digit
    <3> QED
      BY <1>1, <1>2, <1>4, <1>5, <2>1, <3>1 DEF InLoop
  <2>2. CASE ~ (byte + 1 < getMaxByte(vals[col]))
    <3>1. byte' = 0 /\ col' = col + 1
      BY <1>6, <2>2
    <3>2. col' <= LastColumn => 0 < getMaxByte(vals'[col'])
      <4> SUFFICES ASSUME col' <= LastColumn PROVE 0 < getMaxByte(vals'[col'])
        OBVIOUS
      <4>1. vals'[col'] \in [1..Rows -> Nat]
        <5>1. WordsOf \subseteq Nat
          BY <1>1, RadixAssumption, HalfOfWords DEF WordsOf
        <5>2. vals[col'] \in [1..Rows -> WordsOf]
          BY <1>1, <1>2, <3>1 DEF RadixInv, RadixType
        <5> QED
          BY <1>4, <5>1, <5>2
      <4> QED
        BY <4>1, MaxByte
    <3> QED
      BY <1>1, <1>2, <1>4, <1>5, <3>1, <3>2 DEF InLoop
  <2> QED
    BY <2>1, <2>2
<1>10. ~ done
  BY <1>1, <1>2 DEF RadixInv, InBuffer, LastPassDone
<1>11. InBuffer'
  BY <1>1, <1>4, <1>10 DEF InBuffer
<1> QED
  BY <1>8, <1>9, <1>11 DEF RadixInv

-----------------------------------------------------------------------------
(* The ordinals, which must be below the number of rows.                   *)

InRange == fn \in Ordinal => Ordinals \subseteq 0..Rows - 1

LEMMA OneMore ==
  ASSUME NEW p \in Nat \ {0}
  PROVE  1..p = (1..p - 1) \cup {p} /\ p \notin 1..p - 1
  OBVIOUS

(* Then OrdinalSort is the pass by the words, whatever the last call left. *)
LEMMA RowsUp ==
  ASSUME NEW n \in Nat, NEW rows \in [1..n -> 1..n], NEW v \in [1..n -> Int]
  PROVE  \E at \in [1..n -> 1..n] :
           /\ \A p \in 1..n : Pass(rows, v, "UP")[at[p]] = rows[p]
           /\ \A p, q \in 1..n : at[p] < at[q] <=> PlaceBefore(rows, v, "UP", p, q)
           /\ \A k \in 1..n : \E p \in 1..n : at[p] = k
           /\ \A p \in 1..n :
                at[p] = Cardinality({q \in 1..n : PlaceBefore(rows, v, "UP", q, p)}) + 1
<1> DEFINE u == "UP"
<1> HIDE DEF u
<1>1. \E at \in [1..n -> 1..n] :
          /\ \A p \in 1..n : Pass(rows, v, u)[at[p]] = rows[p]
          /\ \A p, q \in 1..n : at[p] < at[q] <=> PlaceBefore(rows, v, u, p, q)
          /\ \A k \in 1..n : \E p \in 1..n : at[p] = k
          /\ \A p \in 1..n :
               at[p] = Cardinality({q \in 1..n : PlaceBefore(rows, v, u, q, p)}) + 1
  BY RowPlaces, Zenon
<1> QED
  BY <1>1, Zenon DEF u

LEMMA OrdinalIsPass ==
  ASSUME NEW rows \in [1..Rows -> 1..Rows],
         NEW v \in [1..Rows -> 0..Rows - 1], NEW g
  PROVE  OrdinalSort(rows, v, g) = Pass(rows, v, "UP")
<1> DEFINE D == DOMAIN rows
           w(p) == v[rows[p]]
           At(p) == IF v[rows[p]] < Rows
                    THEN Cardinality({q \in D : v[rows[q]] < v[rows[p]]})
                           + Cardinality({q \in 1..p : v[rows[q]] = v[rows[p]]})
                    ELSE g + Cardinality({q \in 1..p : v[rows[q]] = v[rows[p]]})
           Before(p) == {q \in D : PlaceBefore(rows, v, "UP", q, p)}
           Put(k) == {p \in D : At(p) = k}
           out == Pass(rows, v, "UP")
<1>0. Rows \in Nat
  BY RadixAssumption
<1>1. D = 1..Rows /\ \A p \in D : p \in Nat \ {0} /\ w(p) \in 0..Rows - 1 /\ w(p) = v[rows[p]] /\ w(p) \in Int
  BY <1>0
<1>2. OrdinalSort(rows, v, g) = [k \in D |-> IF Put(k) = {} THEN 0 ELSE rows[Min(Put(k))]]
  BY DEF OrdinalSort
<1>3. /\ \E f : out = [k \in D |-> f[k]]
      /\ \E at \in [1..Rows -> 1..Rows] :
           /\ \A p \in 1..Rows : out[at[p]] = rows[p]
           /\ \A p, q \in 1..Rows : at[p] < at[q] <=> PlaceBefore(rows, v, "UP", p, q)
           /\ \A k \in 1..Rows : \E p \in 1..Rows : at[p] = k
           /\ \A p \in 1..Rows :
                at[p] = Cardinality({q \in 1..Rows : PlaceBefore(rows, v, "UP", q, p)}) + 1
  <2> HIDE DEF At, Before, Put, w, D
  <2>1. v \in [1..Rows -> Int]
    BY <1>0
  <2>2. out \in [1..Rows -> 1..Rows]
    BY <1>0, <2>1, RowPlaces, Zenon
  <2>3. \E at \in [1..Rows -> 1..Rows] :
           /\ \A p \in 1..Rows : out[at[p]] = rows[p]
           /\ \A p, q \in 1..Rows : at[p] < at[q] <=> PlaceBefore(rows, v, "UP", p, q)
           /\ \A k \in 1..Rows : \E p \in 1..Rows : at[p] = k
           /\ \A p \in 1..Rows :
                at[p] = Cardinality({q \in 1..Rows : PlaceBefore(rows, v, "UP", q, p)}) + 1
    BY <1>0, <2>1, RowsUp, Zenon
  <2> HIDE DEF out
  <2>4. out = [k \in D |-> out[k]]
    BY <1>1, <2>2
  <2> QED
    BY <2>3, <2>4
<1> HIDE DEF D, w, At, Before, Put, out
<1>4. PICK at \in [1..Rows -> 1..Rows] :
        /\ \A p \in 1..Rows : out[at[p]] = rows[p]
        /\ \A p, q \in 1..Rows : at[p] < at[q] <=> PlaceBefore(rows, v, "UP", p, q)
        /\ \A k \in 1..Rows : \E p \in 1..Rows : at[p] = k
        /\ \A p \in 1..Rows :
             at[p] = Cardinality({q \in 1..Rows : PlaceBefore(rows, v, "UP", q, p)}) + 1
  BY <1>3
<1>5. \A p, q \in D :
        PlaceBefore(rows, v, "UP", p, q) <=> w(p) < w(q) \/ (w(p) = w(q) /\ p < q)
  BY DEF PlaceBefore, w
<1>6. ASSUME NEW p \in D PROVE At(p) = at[p]
  <2> DEFINE A == {q \in D : w(q) < w(p)}
             B == {q \in 1..p : v[rows[q]] = v[rows[p]]}
             C == {q \in 1..p - 1 : v[rows[q]] = v[rows[p]]}
  <2>1. w(p) < Rows /\ p \in 1..Rows /\ p \in Nat \ {0}
    BY <1>0, <1>1
  <2>2. A = {q \in D : v[rows[q]] < v[rows[p]]}
    BY <1>1
  <2>3. At(p) = Cardinality(A) + Cardinality(B)
    BY <1>1, <2>1, <2>2, Zenon DEF At
  <2>4. IsFiniteSet(1..Rows) /\ 1..p \subseteq 1..Rows /\ 1..p - 1 \subseteq 1..Rows
    <3>1. IsFiniteSet(1..Rows)
      BY <1>0, FS_Interval
    <3>2. \A q \in 1..p : q \in 1..Rows
      BY <1>0, <2>1
    <3>3. \A q \in 1..p - 1 : q \in 1..Rows
      BY <1>0, <2>1
    <3> QED
      BY <3>1, <3>2, <3>3
  <2>5. IsFiniteSet(A) /\ IsFiniteSet(B) /\ IsFiniteSet(C)
    <3>1. A \in SUBSET (1..Rows) /\ B \in SUBSET (1..Rows) /\ C \in SUBSET (1..Rows)
      BY <1>1, <2>4
    <3> HIDE DEF A, B, C
    <3> QED
      BY <2>4, <3>1, FS_Subset
  <2>6. B = C \cup {p} /\ p \notin C
    BY <2>1, OneMore
  <2>7. Before(p) = A \cup C /\ A \cap C = {}
    <3>1. ASSUME NEW q \in D PROVE q < p <=> q \in 1..p - 1
      <4>1. q \in Nat /\ q >= 1 /\ p \in Nat
        BY <1>1
      <4> HIDE DEF A, B, C
      <4> QED
        BY <4>1
    <3>2. \A q \in 1..p - 1 : q \in D
      BY <1>1, <2>4
    <3>3. \A q \in D : w(q) = w(p) <=> v[rows[q]] = v[rows[p]]
      BY <1>1
    <3>4. \A q : q \in C <=> q \in D /\ w(q) = w(p) /\ q < p
      BY <3>1, <3>2, <3>3
    <3>5. \A q : q \in Before(p) <=> q \in D /\ (w(q) < w(p) \/ (w(q) = w(p) /\ q < p))
      BY <1>5, Zenon DEF Before
    <3>6. \A q \in D : ~ (w(q) < w(p) /\ w(q) = w(p))
      BY <1>1, <2>1
    <3> HIDE DEF C
    <3> QED
      BY <3>4, <3>5, <3>6
  <2>8. at[p] = Cardinality(Before(p)) + 1
    BY <1>1, <1>4, <2>1, Zenon DEF Before
  <2> HIDE DEF A, B, C
  <2>9. Cardinality(B) = Cardinality(C) + 1
    BY <2>5, <2>6, FS_AddElement
  <2>10. /\ Cardinality(A \cup C) = Cardinality(A) + Cardinality(C) - Cardinality(A \cap C)
         /\ Cardinality(A) \in Nat /\ Cardinality(C) \in Nat
    BY <2>5, FS_Union, FS_CardinalityType
  <2>11. Cardinality(A \cap C) = 0
    BY <2>7, FS_EmptySet
  <2> QED
    BY <2>3, <2>7, <2>8, <2>9, <2>10, <2>11
<1>7. ASSUME NEW k \in D
      PROVE  (IF Put(k) = {} THEN 0 ELSE rows[Min(Put(k))]) = out[k]
  <2>1. PICK p \in D : at[p] = k
    BY <1>1, <1>4
  <2>2. ASSUME NEW q \in D, at[q] = k PROVE q = p
    <3>1. q \in Int /\ p \in Int /\ w(p) \in Int /\ w(q) \in Int /\ k \in Int
      BY <1>1
    <3>2. /\ at[p] < at[q] <=> PlaceBefore(rows, v, "UP", p, q)
          /\ at[q] < at[p] <=> PlaceBefore(rows, v, "UP", q, p)
      BY <1>1, <1>4
    <3>3. /\ PlaceBefore(rows, v, "UP", p, q) <=> w(p) < w(q) \/ (w(p) = w(q) /\ p < q)
          /\ PlaceBefore(rows, v, "UP", q, p) <=> w(q) < w(p) \/ (w(q) = w(p) /\ q < p)
      BY <1>5
    <3> QED
      BY <2>1, <2>2, <3>1, <3>2, <3>3
  <2>3. Put(k) = {p}
    BY <1>6, <2>1, <2>2 DEF Put
  <2>4. Min({p}) = p
    <3>1. p \in Int
      BY <1>1
    <3> QED
      BY <3>1 DEF Min
  <2>5. out[k] = rows[p]
    BY <1>1, <1>4, <2>1
  <2> QED
    BY <2>3, <2>4, <2>5
<1> QED
  BY <1>2, <1>3, <1>7 DEF out

LEMMA OrdinalPassInv == RadixInv /\ InRange /\ OrdinalPass => RadixInv'
<1> SUFFICES ASSUME RadixInv, InRange, OrdinalPass PROVE RadixInv'
  OBVIOUS
<1> DEFINE rows == buffer[current]
           out == buffer'[current']
           v == vals[col]
           before == [y \in 1..Rows |-> {x \in 1..Rows : Passed(x, y)}]
<1>1. /\ fn \in Ordinal /\ fn \notin Float /\ fn \notin Integer
      /\ fn # "fradixSortL16_64" /\ fn # "fradixSort16" /\ fn # "fradixSort"
      /\ LastColumn \in Nat
  BY DEF OrdinalPass, Float, Integer, Ordinal, RadixInv, RadixType
<1>2. col \in 1..LastColumn /\ col' = col + 1 /\ byte = 0 /\ byte' = 0
  BY <1>1 DEF OrdinalPass, RadixInv, InLoop
<1>3. UNCHANGED <<fn, vals, dirs, done>>
  BY DEF OrdinalPass
<1>4. current' = Other(current) /\ current' \in {"caller", "own"}
  BY DEF OrdinalPass, Other, RadixInv, RadixType
<1>5. /\ rows \in [1..Rows -> 1..Rows] /\ Rows \in Nat
      /\ \A x \in 1..Rows : \E k \in 1..Rows : rows[k] = x
      /\ \A j, k \in 1..Rows : j < k => rows[j] \in before[rows[k]]
  BY RadixAssumption DEF RadixInv, SortedSoFar
<1>6. v \in [1..Rows -> 0..Rows - 1] /\ v \in [1..Rows -> Int]
  <2>1. vals[col] \in [1..Rows -> WordsOf]
    BY <1>2 DEF RadixInv, RadixType
  <2>2. WordsOf \subseteq 0..Rows - 1
    BY <1>1 DEF InRange, WordsOf
  <2> HIDE DEF v
  <2>3. v \in [1..Rows -> 0..Rows - 1]
    BY <2>1, <2>2 DEF v
  <2> QED
    <3>1. 0..Rows - 1 \subseteq Int
      OBVIOUS
    <3> QED
      BY <2>3, <3>1
<1>7. /\ out = Pass(rows, v, "UP")
      /\ buffer' = [buffer EXCEPT ![Other(current)] = out]
  <2>1. PICK g \in 0..Rows :
          buffer' = [buffer EXCEPT ![Other(current)] = OrdinalSort(rows, v, g)]
    BY DEF OrdinalPass
  <2>2. OrdinalSort(rows, v, g) = Pass(rows, v, "UP")
    BY <1>5, <1>6, OrdinalIsPass
  <2> QED
    BY <1>4, <2>1, <2>2 DEF RadixInv, RadixType
<1>8. /\ out \in [1..Rows -> 1..Rows]
      /\ \A x \in 1..Rows : \E k \in 1..Rows : out[k] = x
      /\ \A j, k \in 1..Rows : j < k => ByDigit(v, "UP", before, out[j], out[k])
  <2> DEFINE u == "UP"
  <2> HIDE DEF before, v, rows, out, u
  <2>1. /\ Pass(rows, v, u) \in [1..Rows -> 1..Rows]
        /\ \A x \in 1..Rows : \E k \in 1..Rows : Pass(rows, v, u)[k] = x
        /\ \A j, k \in 1..Rows : j < k =>
             ByDigit(v, u, before, Pass(rows, v, u)[j], Pass(rows, v, u)[k])
    BY <1>5, <1>6, PassSorts, Zenon
  <2> QED
    BY <1>7, <2>1, Zenon DEF u
<1>9. /\ LastColumn' = LastColumn /\ WordsOf' = WordsOf
      /\ \A m, x, y : BeforeFrom(m, x, y)' = BeforeFrom(m, x, y)
  BY <1>3, OrdersStay
<1>10. Weighs \in 1..LastColumn /\ Columnwise[Weighs] = col /\ Weighs' + 1 = Weighs
  <2>1. Weighs' + 1 = Weighs
    BY <1>1, <1>2, <1>3, <1>9 DEF Weighs
  <2> QED
    BY <1>2, <2>1, Weighing DEF RadixInv
<1>11. ASSUME NEW x \in 1..Rows, NEW y \in 1..Rows, ByDigit(v, "UP", before, x, y)
       PROVE  Passed(x, y)'
  <2>1. RankOf(Weighs, x) = v[x] /\ RankOf(Weighs, y) = v[y]
    BY <1>1, <1>10 DEF RankOf, Rank
  <2>2. dirs[Columnwise[Weighs]] = "UP"
    BY <1>1, <1>2, <1>10 DEF RadixInv, RadixType
  <2>3. \/ v[x] < v[y]
        \/ v[x] = v[y] /\ Passed(x, y)
    BY <1>11 DEF ByDigit
  <2>4. \/ Less(Weighs, x, y)
        \/ RankOf(Weighs, x) = RankOf(Weighs, y) /\ BeforeFrom(Weighs + 1, x, y)
    BY <1>2, <2>1, <2>2, <2>3 DEF Less, Passed
  <2>5. BeforeFrom(Weighs, x, y)
    <3> DEFINE w == Weighs
    <3>1. w \in 1..LastColumn /\ LastColumn \in Nat
      BY <1>1, <1>10
    <3>2. Less(w, x, y) \/ (RankOf(w, x) = RankOf(w, y) /\ BeforeFrom(w + 1, x, y))
      BY <2>4
    <3> HIDE DEF w
    <3>3. BeforeFrom(w, x, y)
      BY <3>1, <3>2, ColumnFirst
    <3> QED
      BY <3>3 DEF w
  <2> QED
    BY <1>2, <1>9, <1>10, <2>5 DEF Passed
<1> HIDE DEF before, v
<1>12. RadixType'
  <2>1. buffer' \in [{"caller", "own"} -> [1..Rows -> 0..Rows]]
    <3>1. out \in [1..Rows -> 0..Rows]
      BY <1>8
    <3> HIDE DEF out
    <3> QED
      BY <1>7, <3>1 DEF RadixInv, RadixType
  <2> QED
    BY <1>3, <1>4, <1>9, <2>1 DEF RadixInv, RadixType
<1>13. InLoop'
  BY <1>1, <1>2, <1>3, <1>9 DEF InLoop
<1>14. InBuffer'
  <2>1. ~ done
    BY <1>1, <1>2 DEF RadixInv, InBuffer, LastPassDone
  <2> QED
    BY <1>1, <1>3, <2>1 DEF InBuffer
<1>15. SortedSoFar'
  BY <1>8, <1>11 DEF SortedSoFar
<1> QED
  BY <1>12, <1>13, <1>14, <1>15 DEF RadixInv

LEMMA FinishInv == RadixInv /\ Finish => RadixInv'
<1> SUFFICES ASSUME RadixInv, Finish PROVE RadixInv'
  OBVIOUS
<1>1. UNCHANGED <<fn, vals, dirs, current, col, byte>> /\ done' = TRUE /\ LastPassDone
  BY DEF Finish
<1>2. /\ LastColumn' = LastColumn /\ WordsOf' = WordsOf /\ Base' = Base
      /\ \A m, x, y : BeforeFrom(m, x, y)' = BeforeFrom(m, x, y)
      /\ \A x : Key(x)' = Key(x)
      /\ Columnwise' = Columnwise
  BY <1>1, OrdersStay
<1>3. /\ buffer' \in [{"caller", "own"} -> [1..Rows -> 0..Rows]]
      /\ buffer'[current] = buffer[current]
      /\ fn \in Integer \cup Ordinal => buffer'["caller"] = buffer'[current]
  BY DEF Finish, CopyBack, RadixInv, RadixType
<1>4. RadixType'
  BY <1>1, <1>2, <1>3 DEF RadixInv, RadixType
<1>5. InLoop'
  <2>1. \A v : getMaxByte(v)' = getMaxByte(v)
    BY DEF getMaxByte, Digit
  <2> QED
    BY <1>1, <1>2, <2>1 DEF RadixInv, InLoop
<1>6. InBuffer'
  <2>1. LastPassDone'
    BY <1>1, <1>2 DEF LastPassDone
  <2> QED
    BY <1>1, <1>3, <2>1 DEF RadixInv, InBuffer
<1>7. ASSUME NEW x, NEW y, Passed(x, y) PROVE Passed(x, y)'
  <2>1. Weighs' = Weighs
    BY <1>1, <1>2 DEF Weighs
  <2>2. BeforeFrom(Weighs + 1, x, y)' <=> BeforeFrom(Weighs + 1, x, y)
    <3>1. BeforeFrom(Weighs + 1, x, y)' <=> BeforeFrom(Weighs' + 1, x, y)
      BY <1>2
    <3> QED
      BY <2>1, <3>1, Zenon
  <2>3. LowBefore(byte, x, y)' <=> LowBefore(byte, x, y)
    <3>1. LowOf(byte, x)' = LowOf(byte, x) /\ LowOf(byte, y)' = LowOf(byte, y)
      BY <1>1, <1>2, <2>1 DEF LowOf
    <3>2. dirs'[Columnwise'[Weighs']] = dirs[Columnwise[Weighs]]
      BY <1>1, <1>2, <2>1
    <3> QED
      BY <2>2, <3>1, <3>2, Zenon DEF LowBefore
  <2> QED
    BY <1>1, <1>7, <2>2, <2>3, Zenon DEF Passed
<1>8. SortedSoFar'
  BY <1>1, <1>3, <1>7 DEF RadixInv, SortedSoFar
<1> QED
  BY <1>4, <1>5, <1>6, <1>8 DEF RadixInv

LEMMA StutterInv == RadixInv /\ UNCHANGED vars => RadixInv'
<1> SUFFICES ASSUME RadixInv, UNCHANGED vars PROVE RadixInv'
  OBVIOUS
<1>1. UNCHANGED <<fn, vals, dirs, buffer, current, col, byte, done>>
  BY DEF vars
<1>2. RadixType' /\ InBuffer' /\ InLoop'
  BY <1>1 DEF RadixInv, RadixType, InBuffer, InLoop, LastPassDone, LastColumn, WordsOf,
       getMaxByte, Digit
<1>3. /\ LastColumn' = LastColumn /\ WordsOf' = WordsOf /\ Base' = Base
      /\ \A m, x, y : BeforeFrom(m, x, y)' = BeforeFrom(m, x, y)
      /\ \A x : Key(x)' = Key(x)
      /\ Columnwise' = Columnwise
  BY <1>1, OrdersStay
<1>4. ASSUME NEW x, NEW y, Passed(x, y) PROVE Passed(x, y)'
  <2>1. Weighs' = Weighs
    BY <1>1, <1>3 DEF Weighs
  <2>2. BeforeFrom(Weighs + 1, x, y)' <=> BeforeFrom(Weighs + 1, x, y)
    <3>1. BeforeFrom(Weighs + 1, x, y)' <=> BeforeFrom(Weighs' + 1, x, y)
      BY <1>3
    <3> QED
      BY <2>1, <3>1, Zenon
  <2>3. LowBefore(byte, x, y)' <=> LowBefore(byte, x, y)
    <3>1. LowOf(byte, x)' = LowOf(byte, x) /\ LowOf(byte, y)' = LowOf(byte, y)
      BY <1>1, <1>3, <2>1 DEF LowOf
    <3>2. dirs'[Columnwise'[Weighs']] = dirs[Columnwise[Weighs]]
      BY <1>1, <1>3, <2>1
    <3> QED
      BY <2>2, <3>1, <3>2, Zenon DEF LowBefore
  <2> QED
    BY <1>1, <1>4, <2>2, <2>3, Zenon DEF Passed
<1>5. SortedSoFar'
  BY <1>1, <1>4 DEF RadixInv, SortedSoFar
<1> QED
  BY <1>2, <1>5 DEF RadixInv

LEMMA RadixNextInv == RadixInv /\ InRange /\ [Next]_vars => RadixInv'
  BY Fradix16_64PassInv, Fradix16PassInv, FradixPassInv, RadixPassInv, OrdinalPassInv,
     FinishInv, StutterInv DEF Next

(* The columns in order are the order of the rows the callers expect.      *)
LEMMA OrderOfRows ==
  ASSUME RadixType, NEW x \in 1..Rows, NEW y \in 1..Rows, BeforeFrom(1, x, y)
  PROVE  RowBefore(x, y)
<1> DEFINE differ == {k \in 1..LastColumn :
                       Rank(vals[Columnwise[k]][x]) # Rank(vals[Columnwise[k]][y])}
<1>1. LastColumn \in Nat /\ \A k \in 1..LastColumn : RankOf(k, x) \in Int /\ RankOf(k, y) \in Int
  BY ColumnsRank DEF RadixType
<1>2. differ = {k \in 1..LastColumn : RankOf(k, x) # RankOf(k, y)}
  BY DEF RankOf
<1> HIDE DEF differ
<1>3. CASE x < y /\ \A l \in 1..LastColumn : RankOf(l, x) = RankOf(l, y)
  <2>1. differ = {}
    BY <1>2, <1>3
  <2> QED
    BY <1>3, <2>1 DEF RowBefore, differ
<1>4. CASE \E k \in 1..LastColumn :
             Less(k, x, y) /\ \A l \in 1..k - 1 : RankOf(l, x) = RankOf(l, y)
  <2>1. PICK k \in 1..LastColumn :
          Less(k, x, y) /\ \A l \in 1..k - 1 : RankOf(l, x) = RankOf(l, y)
    BY <1>4
  <2>2. k \in differ
    BY <1>1, <1>2, <2>1 DEF Less
  <2>3. \A l \in differ : l \in Int /\ k <= l
    BY <1>1, <1>2, <2>1
  <2>4. Min(differ) = k
    <3>1. \A l \in differ : (\A m \in differ : l <= m) <=> l = k
      BY <2>2, <2>3
    <3> QED
      BY <2>2, <2>3, <3>1 DEF Min
  <2>5. IF dirs[Columnwise[k]] = "UP" THEN RankOf(k, x) < RankOf(k, y)
                                      ELSE ~ (RankOf(k, x) < RankOf(k, y))
    BY <1>1, <2>1 DEF Less
  <2>6. IF dirs[Columnwise[k]] = "UP"
        THEN Rank(vals[Columnwise[k]][x]) < Rank(vals[Columnwise[k]][y])
        ELSE ~ (Rank(vals[Columnwise[k]][x]) < Rank(vals[Columnwise[k]][y]))
    BY <2>5 DEF RankOf
  <2> QED
    BY <2>2, <2>4, <2>6, Zenon DEF RowBefore, differ
<1> QED
  BY <1>3, <1>4 DEF BeforeFrom

LEMMA ResultInOrder == RadixInv /\ done => InOrder(Result)
<1> SUFFICES ASSUME RadixInv, done PROVE InOrder(Result)
  OBVIOUS
<1>1. Result = buffer[current]
  BY DEF RadixInv, RadixType, InBuffer, LastPassDone, InLoop, Result, Float, Integer, Ordinal
<1>2. LastPassDone /\ LastColumn \in Nat \ {0}
  BY DEF RadixInv, InBuffer, RadixType
<1>3. ASSUME NEW x \in 1..Rows, NEW y \in 1..Rows, Passed(x, y)
      PROVE  BeforeFrom(1, x, y)
  <2>1. CASE fn = "fradixSortL16_64" \/ fn \in Integer \/ fn \in Ordinal
    <3>1. byte = 0 /\ Weighs = 0
      BY <1>2, <2>1 DEF RadixInv, RadixType, InLoop, LastPassDone, Weighs, Float, Integer, Ordinal
    <3> QED
      BY <1>3, <3>1 DEF Passed
  <2>2. CASE fn = "fradixSort16"
    <3>1. byte = 2 /\ col = 1 /\ col \in 1..LastColumn /\ Weighs = 1
      BY <1>2, <2>2 DEF RadixInv, InLoop, LastPassDone, Weighs, Float, Integer, Ordinal
    <3>2. \A r \in 1..Rows : Low(Key(vals[col][r]), 2, Base) = Key(vals[col][r])
      BY <2>2, <3>1, KeysWhole DEF RadixInv
    <3>3. LowBefore(2, x, y)
      BY <1>3, <3>1 DEF Passed
    <3>4. BeforeFrom(Weighs, x, y)
      BY <3>1, <3>2, <3>3, ColumnDone DEF RadixInv
    <3> QED
      BY <3>1, <3>4
  <2>3. CASE fn = "fradixSort"
    <3>1. byte = 3 /\ col = 1 /\ col \in 1..LastColumn /\ Weighs = 1
      BY <1>2, <2>3 DEF RadixInv, InLoop, LastPassDone, Weighs, Float, Integer, Ordinal
    <3>2. \A r \in 1..Rows : Low(Key(vals[col][r]), 3, Base) = Key(vals[col][r])
      BY <2>3, <3>1, KeysWhole DEF RadixInv
    <3>3. LowBefore(3, x, y)
      BY <1>3, <3>1 DEF Passed
    <3>4. BeforeFrom(Weighs, x, y)
      BY <3>1, <3>2, <3>3, ColumnDone DEF RadixInv
    <3> QED
      BY <3>1, <3>4
  <2> QED
    BY <2>1, <2>2, <2>3 DEF RadixInv, RadixType, Float
<1>4. /\ buffer[current] \in [1..Rows -> 1..Rows]
      /\ \A x \in 1..Rows : \E k \in 1..Rows : buffer[current][k] = x
      /\ \A j, k \in 1..Rows : j < k => RowBefore(buffer[current][j], buffer[current][k])
  BY <1>3, OrderOfRows DEF RadixInv, SortedSoFar
<1>5. Range(buffer[current]) = 1..Rows
  BY <1>4 DEF Range
<1> QED
  BY <1>1, <1>4, <1>5 DEF InOrder

-----------------------------------------------------------------------------
(* The counting pass.                                                      *)

(* Whether digit c comes before digit d.                                   *)
Before(c, d) == IF dir = "UP" THEN c < d ELSE c > d

(* How many items come before item x.                                      *)
ItemRank(x) == Cardinality({y \in 0..N - 1 : CountingPass!Precedes(y, x)})

Empty == \A k \in 0..N - 1 : output[k] = Unset

PassType ==
  /\ digit \in [0..N - 1 -> 0..K - 1] /\ dir \in {"UP", "DOWN"}
  /\ phase \in {"zero", "count", "add", "scatter"} /\ i \in Int
  /\ offset \in [0..K - 1 -> Nat]
  /\ output \in [0..N - 1 -> (0..N - 1) \cup {Unset}]

(* Nothing has been done.                                                  *)
ZeroInv == phase = "zero" => i = 0 /\ Empty

(* The items that have been counted.                                       *)
CountInv ==
  phase = "count" =>
    /\ i \in 0..N /\ Empty
    /\ \A d \in 0..K - 1 :
         offset[d] = Cardinality({x \in 0..N - 1 : digit[x] = d /\ x < i})

(* The items of a digit, and from where the loop has been also those of    *)
(* all digits before it.                                                   *)
AddInv ==
  phase = "add" =>
    /\ i \in (IF dir = "UP" THEN 1..K ELSE -1..K - 2) /\ Empty
    /\ \A d \in 0..K - 1 :
         offset[d] = Cardinality({x \in 0..N - 1 :
                        digit[x] = d \/ (Before(d, i) /\ Before(digit[x], d))})

(* The items of the digits before, and those of the digit that are not in  *)
(* their slots yet.  A slot is free or has the item of its rank.           *)
ScatterInv ==
  phase = "scatter" =>
    /\ i \in -1..N - 1
    /\ \A d \in 0..K - 1 :
         offset[d] = Cardinality({x \in 0..N - 1 :
                        Before(digit[x], d) \/ (digit[x] = d /\ x <= i)})
    /\ \A x \in 0..N - 1 : x > i => output[ItemRank(x)] = x
    /\ \A k \in 0..N - 1 :
         output[k] # Unset => \E x \in 0..N - 1 : x > i /\ ItemRank(x) = k

PassInv == PassType /\ ZeroInv /\ CountInv /\ AddInv /\ ScatterInv

LEMMA ItemSets ==
  /\ N \in Nat /\ K \in Nat \ {0} /\ Unset \notin 0..N - 1
  /\ IsFiniteSet(0..N - 1) /\ Cardinality(0..N - 1) = N
  /\ \A T \in SUBSET (0..N - 1) : IsFiniteSet(T) /\ Cardinality(T) \in Nat
<1>1. N \in Nat /\ K \in Nat \ {0} /\ Unset \notin 0..N - 1
  BY CountAssumption
<1>2. IsFiniteSet(0..N - 1) /\ Cardinality(0..N - 1) = N
  <2>1. 0 \in Int /\ N - 1 \in Int
    BY <1>1
  <2> QED
    BY <1>1, <2>1, FS_Interval
<1>3. ASSUME NEW T \in SUBSET (0..N - 1)
      PROVE  IsFiniteSet(T) /\ Cardinality(T) \in Nat
  BY <1>2, FS_Subset, FS_CardinalityType
<1> QED
  BY <1>1, <1>2, <1>3

(* What a set of items has more members with one item more.                *)
LEMMA OneItemMore ==
  ASSUME NEW T \in SUBSET (0..N - 1), NEW x \in (0..N - 1) \ T, NEW S, S = T \cup {x}
  PROVE  Cardinality(S) = Cardinality(T) + 1
<1>1. IsFiniteSet(T)
  BY ItemSets
<1> QED
  BY <1>1, FS_AddElement

LEMMA PassInit == CountingPass!Init => PassInv
<1> SUFFICES ASSUME CountingPass!Init PROVE PassInv
  OBVIOUS
<1>1. /\ digit \in [0..N - 1 -> 0..K - 1] /\ dir \in {"UP", "DOWN"}
      /\ phase = "zero" /\ i = 0 /\ offset \in [0..K - 1 -> 0..N]
      /\ output = [k \in 0..N - 1 |-> Unset]
  BY DEF CountingPass!Init, CountingPass!Items, CountingPass!Digits
<1>2. PassType
  BY <1>1, ItemSets DEF PassType
<1>3. ZeroInv
  BY <1>1 DEF ZeroInv, Empty
<1> QED
  BY <1>1, <1>2, <1>3 DEF PassInv, CountInv, AddInv, ScatterInv

(* Whatever the counts were, none has been counted now.                    *)
LEMMA ZeroStep == PassInv /\ CountingPass!zero => PassInv'
<1> SUFFICES ASSUME PassInv, CountingPass!zero PROVE PassInv'
  OBVIOUS
<1>1. /\ phase = "zero" /\ phase' = "count" /\ offset' = [d \in 0..K - 1 |-> 0]
      /\ UNCHANGED <<digit, dir, i, output>>
  BY DEF CountingPass!zero, CountingPass!Digits
<1>2. PassType'
  BY <1>1 DEF PassInv, PassType
<1>3. ASSUME NEW d \in 0..K - 1
      PROVE  offset'[d] = Cardinality({x \in 0..N - 1 : digit'[x] = d /\ x < i'})
  <2>1. i' = 0
    BY <1>1 DEF PassInv, ZeroInv
  <2>2. {x \in 0..N - 1 : digit'[x] = d /\ x < i'} = {}
    BY <2>1
  <2> QED
    BY <1>1, <2>2, FS_EmptySet
<1>4. CountInv'
  <2>1. Empty' /\ i' \in 0..N
    BY <1>1, ItemSets DEF PassInv, ZeroInv, Empty
  <2> QED
    BY <1>3, <2>1 DEF CountInv
<1> QED
  BY <1>1, <1>2, <1>4 DEF PassInv, ZeroInv, AddInv, ScatterInv

LEMMA CountStep == PassInv /\ CountingPass!Count => PassInv'
<1> SUFFICES ASSUME PassInv, CountingPass!Count PROVE PassInv'
  OBVIOUS
<1>1. /\ phase = "count" /\ i \in 0..N - 1 /\ i' = i + 1
      /\ offset' = [offset EXCEPT ![digit[i]] = @ + 1]
      /\ UNCHANGED <<digit, dir, phase, output>>
  BY ItemSets DEF CountingPass!Count, PassInv, PassType, CountInv
<1>2. digit[i] \in 0..K - 1
  BY <1>1 DEF PassInv, PassType
<1>3. PassType'
  BY <1>1, <1>2 DEF PassInv, PassType
<1>4. ASSUME NEW d \in 0..K - 1
      PROVE  offset'[d] = Cardinality({x \in 0..N - 1 : digit'[x] = d /\ x < i'})
  <2> DEFINE T == {x \in 0..N - 1 : digit[x] = d /\ x < i}
             S == {x \in 0..N - 1 : digit'[x] = d /\ x < i'}
  <2>1. offset[d] = Cardinality(T)
    BY <1>1 DEF PassInv, CountInv
  <2>2. CASE d = digit[i]
    <3>1. S = T \cup {i} /\ i \in (0..N - 1) \ T /\ T \in SUBSET (0..N - 1)
      BY <1>1, <2>2
    <3> HIDE DEF S, T
    <3>2. Cardinality(S) = Cardinality(T) + 1
      BY <3>1, OneItemMore
    <3>3. offset'[d] = offset[d] + 1
      BY <1>1, <1>2, <2>2 DEF PassInv, PassType
    <3> QED
      BY <2>1, <3>2, <3>3 DEF S
  <2>3. CASE d # digit[i]
    <3>1. S = T
      BY <1>1, <2>3
    <3>2. offset'[d] = offset[d]
      BY <1>1, <1>2, <2>3 DEF PassInv, PassType
    <3> QED
      BY <2>1, <3>1, <3>2
  <2> QED
    BY <2>2, <2>3
<1>5. CountInv'
  <2>1. i' \in 0..N /\ Empty'
    BY <1>1, ItemSets DEF PassInv, CountInv, Empty
  <2> QED
    BY <1>4, <2>1 DEF CountInv
<1> QED
  BY <1>1, <1>3, <1>5 DEF PassInv, ZeroInv, AddInv, ScatterInv

LEMMA CountedStep == PassInv /\ CountingPass!Counted => PassInv'
<1> SUFFICES ASSUME PassInv, CountingPass!Counted PROVE PassInv'
  OBVIOUS
<1>1. /\ phase = "count" /\ i = N /\ phase' = "add"
      /\ i' = IF dir = "UP" THEN 1 ELSE K - 2
      /\ UNCHANGED <<digit, dir, offset, output>>
  BY DEF CountingPass!Counted
<1>2. PassType'
  BY <1>1, ItemSets DEF PassInv, PassType
<1>3. ASSUME NEW d \in 0..K - 1
      PROVE  offset'[d] = Cardinality({x \in 0..N - 1 :
               digit'[x] = d \/ (Before(d, i)' /\ Before(digit[x], d)')})
  <2>1. offset[d] = Cardinality({x \in 0..N - 1 : digit[x] = d /\ x < i})
    BY <1>1 DEF PassInv, CountInv
  <2>2. ASSUME NEW x \in 0..N - 1
        PROVE  (digit[x] = d /\ x < i)
                 <=> (digit'[x] = d \/ (Before(d, i)' /\ Before(digit[x], d)'))
    <3>1. digit[x] \in 0..K - 1 /\ x < i
      BY <1>1, ItemSets DEF PassInv, PassType
    <3>2. ~ (Before(d, i)' /\ Before(digit[x], d)')
      BY <1>1, <3>1, ItemSets DEF Before, PassInv, PassType
    <3> QED
      BY <1>1, <3>1, <3>2
  <2>3. {x \in 0..N - 1 : digit[x] = d /\ x < i}
          = {x \in 0..N - 1 : digit'[x] = d \/ (Before(d, i)' /\ Before(digit[x], d)')}
    BY <2>2
  <2> QED
    BY <1>1, <2>1, <2>3
<1>4. AddInv'
  <2>1. i' \in IF dir' = "UP" THEN 1..K ELSE -1..K - 2
    BY <1>1, ItemSets DEF PassInv, PassType
  <2>2. Empty'
    BY <1>1 DEF PassInv, CountInv, Empty
  <2> QED
    BY <1>3, <2>1, <2>2 DEF AddInv
<1> QED
  BY <1>1, <1>2, <1>4 DEF PassInv, ZeroInv, CountInv, ScatterInv

LEMMA AddStep == PassInv /\ CountingPass!Add => PassInv'
<1> SUFFICES ASSUME PassInv, CountingPass!Add PROVE PassInv'
  OBVIOUS
<1> DEFINE from == IF dir = "UP" THEN i - 1 ELSE i + 1
<1>1. /\ phase = "add" /\ UNCHANGED <<digit, dir, phase, output>>
      /\ dir \in {"UP", "DOWN"} /\ i \in Int /\ K \in Nat
      /\ digit \in [0..N - 1 -> 0..K - 1] /\ offset \in [0..K - 1 -> Nat]
  BY ItemSets DEF CountingPass!Add, PassInv, PassType
<1>2. /\ dir = "UP" => i \in 1..K - 1 /\ i' = i + 1
      /\ dir # "UP" => i \in 0..K - 2 /\ i' = i - 1
      /\ offset' = [offset EXCEPT ![i] = @ + offset[from]]
  BY <1>1 DEF CountingPass!Add, PassInv, AddInv
<1>3. i \in 0..K - 1 /\ from \in 0..K - 1 /\ i' \in Int
  BY <1>1, <1>2
<1>4. PassType'
  <2>1. offset' \in [0..K - 1 -> Nat]
    <3> HIDE DEF from
    <3>1. offset[i] + offset[from] \in Nat
      BY <1>1, <1>3
    <3> QED
      BY <1>1, <1>2, <1>3, <3>1
  <2> QED
    BY <1>1, <1>3, <2>1 DEF PassInv, PassType
<1>5. ASSUME NEW d \in 0..K - 1
      PROVE  offset'[d] = Cardinality({x \in 0..N - 1 :
               digit'[x] = d \/ (Before(d, i)' /\ Before(digit[x], d)')})
  <2> DEFINE Old(e) == {x \in 0..N - 1 :
                         digit[x] = e \/ (Before(e, i) /\ Before(digit[x], e))}
             New == {x \in 0..N - 1 :
                      digit'[x] = d \/ (Before(d, i)' /\ Before(digit[x], d)')}
  <2>1. /\ offset[d] = Cardinality(Old(d)) /\ offset[from] = Cardinality(Old(from))
        /\ Old(d) \in SUBSET (0..N - 1) /\ Old(from) \in SUBSET (0..N - 1)
    BY <1>1, <1>3 DEF PassInv, AddInv
  <2>2. \A x \in 0..N - 1 : digit[x] \in 0..K - 1 /\ digit[x] \in Int
    BY <1>1
  <2>3. CASE d = i
    <3>1. ASSUME NEW x \in 0..N - 1
          PROVE  /\ x \in New <=> digit[x] = i \/ Before(digit[x], i)
                 /\ x \in Old(d) <=> digit[x] = i
                 /\ x \in Old(from) <=> Before(digit[x], i)
      <4>1. CASE dir = "UP"
        <5>1. i \in 1..K - 1 /\ i' = i + 1 /\ from = i - 1
          BY <1>2, <4>1
        <5>2. x \in New <=> digit[x] = i \/ Before(digit[x], i)
          BY <1>1, <2>2, <2>3, <4>1, <5>1 DEF Before
        <5>3. x \in Old(d) <=> digit[x] = i
          BY <1>1, <2>2, <2>3, <4>1, <5>1 DEF Before
        <5>4. x \in Old(from) <=> Before(digit[x], i)
          <6> HIDE DEF from
          <6> QED
            BY <1>1, <2>2, <4>1, <5>1 DEF Before
        <5> QED
          BY <5>2, <5>3, <5>4
      <4>2. CASE dir = "DOWN"
        <5>1. i \in 0..K - 2 /\ i' = i - 1 /\ from = i + 1
          BY <1>2, <4>2
        <5>2. x \in New <=> digit[x] = i \/ Before(digit[x], i)
          BY <1>1, <2>2, <2>3, <4>2, <5>1 DEF Before
        <5>3. x \in Old(d) <=> digit[x] = i
          BY <1>1, <2>2, <2>3, <4>2, <5>1 DEF Before
        <5>4. x \in Old(from) <=> Before(digit[x], i)
          <6> HIDE DEF from
          <6> QED
            BY <1>1, <2>2, <4>2, <5>1 DEF Before
        <5> QED
          BY <5>2, <5>3, <5>4
      <4> QED
        BY <1>1, <4>1, <4>2
    <3>2. \A x \in 0..N - 1 : ~ (digit[x] = i /\ Before(digit[x], i))
      BY <1>3, <2>2 DEF Before
    <3>3. New \in SUBSET (0..N - 1)
      OBVIOUS
    <3> HIDE DEF New, Old, from
    <3>4. New = Old(d) \cup Old(from) /\ Old(d) \cap Old(from) = {}
      BY <2>1, <3>1, <3>2, <3>3
    <3>5. /\ Cardinality(New) = Cardinality(Old(d)) + Cardinality(Old(from))
                                  - Cardinality(Old(d) \cap Old(from))
          /\ Cardinality(Old(d)) \in Nat /\ Cardinality(Old(from)) \in Nat
      BY <2>1, <3>4, ItemSets, FS_Union
    <3>6. Cardinality(New) = offset[d] + offset[from]
      <4>1. Cardinality(Old(d) \cap Old(from)) = 0
        BY <3>4, FS_EmptySet
      <4> QED
        BY <2>1, <3>5, <4>1
    <3>7. offset'[d] = offset[d] + offset[from]
      BY <1>1, <1>2, <1>3, <2>3
    <3> QED
      BY <3>6, <3>7 DEF New
  <2>4. CASE d # i
    <3>1. \A x \in 0..N - 1 : x \in New <=> x \in Old(d)
      BY <1>1, <1>2, <1>3, <2>2, <2>4 DEF Before
    <3>2. New = Old(d)
      BY <3>1
    <3>3. offset'[d] = offset[d]
      BY <1>1, <1>2, <1>3, <2>4
    <3> HIDE DEF Old
    <3> QED
      BY <2>1, <3>2, <3>3
  <2> QED
    BY <2>3, <2>4
<1>6. AddInv'
  <2>1. i' \in IF dir' = "UP" THEN 1..K ELSE -1..K - 2
    BY <1>1, <1>2, SMTT(30)
  <2>2. Empty'
    BY <1>1 DEF PassInv, AddInv, Empty
  <2> QED
    BY <1>5, <2>1, <2>2 DEF AddInv
<1> QED
  BY <1>1, <1>4, <1>6 DEF PassInv, ZeroInv, CountInv, ScatterInv

LEMMA AddedStep == PassInv /\ CountingPass!Added => PassInv'
<1> SUFFICES ASSUME PassInv, CountingPass!Added PROVE PassInv'
  OBVIOUS
<1>1. /\ phase = "add" /\ phase' = "scatter" /\ i' = N - 1
      /\ UNCHANGED <<digit, dir, offset, output>>
      /\ dir \in {"UP", "DOWN"} /\ K \in Nat /\ N \in Nat
      /\ digit \in [0..N - 1 -> 0..K - 1]
  BY ItemSets DEF CountingPass!Added, PassInv, PassType
<1>2. i = IF dir = "UP" THEN K ELSE -1
  BY <1>1 DEF CountingPass!Added, PassInv, AddInv
<1>3. PassType'
  BY <1>1 DEF PassInv, PassType
<1>4. ASSUME NEW d \in 0..K - 1
      PROVE  offset'[d] = Cardinality({x \in 0..N - 1 :
               Before(digit[x], d)' \/ (digit'[x] = d /\ x <= i')})
  <2>1. offset[d] = Cardinality({x \in 0..N - 1 :
                       digit[x] = d \/ (Before(d, i) /\ Before(digit[x], d))})
    BY <1>1 DEF PassInv, AddInv
  <2>2. ASSUME NEW x \in 0..N - 1
        PROVE  (digit[x] = d \/ (Before(d, i) /\ Before(digit[x], d)))
                 <=> (Before(digit[x], d)' \/ (digit'[x] = d /\ x <= i'))
    <3>1. Before(d, i)
      BY <1>1, <1>2 DEF Before
    <3>2. x <= i'
      BY <1>1
    <3>3. Before(digit[x], d)' <=> Before(digit[x], d)
      BY <1>1 DEF Before
    <3> QED
      BY <1>1, <3>1, <3>2, <3>3
  <2>3. {x \in 0..N - 1 : digit[x] = d \/ (Before(d, i) /\ Before(digit[x], d))}
          = {x \in 0..N - 1 : Before(digit[x], d)' \/ (digit'[x] = d /\ x <= i')}
    BY <2>2
  <2> QED
    BY <1>1, <2>1, <2>3
<1>5. ScatterInv'
  <2>1. i' \in -1..N - 1
    BY <1>1
  <2>2. \A x \in 0..N - 1 : ~ (x > i')
    BY <1>1
  <2>3. \A k \in 0..N - 1 : output'[k] = Unset
    BY <1>1 DEF PassInv, AddInv, Empty
  <2> QED
    BY <1>4, <2>1, <2>2, <2>3 DEF ScatterInv
<1> QED
  BY <1>1, <1>3, <1>5 DEF PassInv, ZeroInv, CountInv, AddInv

(* Each item has a slot of its own, in the order they precede each other.  *)
LEMMA Ranks ==
  ASSUME PassType
  PROVE  /\ \A x \in 0..N - 1 : ItemRank(x) \in 0..N - 1
         /\ \A x, y \in 0..N - 1 : CountingPass!Precedes(x, y) <=> ItemRank(x) < ItemRank(y)
         /\ \A x, y \in 0..N - 1 : ItemRank(x) = ItemRank(y) => x = y
         /\ \A k \in 0..N - 1 : \E x \in 0..N - 1 : ItemRank(x) = k
<1> DEFINE S == 0..N - 1
           before == [x \in S |-> {y \in S : CountingPass!Precedes(y, x)}]
           at == [x \in S |-> Cardinality(before[x])]
<1>1. IsFiniteSet(S) /\ N = Cardinality(S)
  BY ItemSets
<1>2. \A x \in S : x \in Int /\ digit[x] \in Int
  BY ItemSets DEF PassType
<1>3. /\ before \in [S -> SUBSET S]
      /\ \A x, y \in S : y \in before[x] <=> CountingPass!Precedes(y, x)
      /\ \A x \in S : at[x] = ItemRank(x)
  BY DEF ItemRank
<1> HIDE DEF S
<1>4. at = [x \in S |-> Cardinality(before[x])]
  OBVIOUS
<1> HIDE DEF before, at
<1>5. Total(S, before)
  <2>1. \A x \in S : x \notin before[x]
    BY <1>2, <1>3 DEF CountingPass!Precedes
  <2>2. ASSUME NEW x \in S, NEW y \in S, NEW z \in S, x \in before[y], z \in before[x]
        PROVE  z \in before[y]
    <3>1. CountingPass!Precedes(x, y) /\ CountingPass!Precedes(z, x)
      BY <1>3, <2>2
    <3>2. CountingPass!Precedes(z, y)
      BY <1>2, <3>1 DEF CountingPass!Precedes
    <3> QED
      BY <1>3, <3>2
  <2>3. ASSUME NEW x \in S, NEW y \in S
        PROVE  x = y \/ x \in before[y] \/ y \in before[x]
    BY <1>2, <1>3 DEF CountingPass!Precedes
  <2>4. \A x, y \in S : x \in before[y] => before[x] \subseteq before[y]
    BY <1>3, <2>2
  <2> QED
    BY <1>3, <2>1, <2>3, <2>4 DEF Total
<1>6. /\ at \in [S -> 0..N - 1]
      /\ \A x, y \in S : x \in before[y] <=> at[x] < at[y]
      /\ \A x, y \in S : at[x] = at[y] => x = y
      /\ \A k \in 0..N - 1 : \E x \in S : at[x] = k
  BY <1>1, <1>4, <1>5, Places
<1>7. \A x, y \in S : CountingPass!Precedes(x, y) <=> ItemRank(x) < ItemRank(y)
  <2> SUFFICES ASSUME NEW x \in S, NEW y \in S
               PROVE  CountingPass!Precedes(x, y) <=> ItemRank(x) < ItemRank(y)
    OBVIOUS
  <2>1. x \in before[y] <=> CountingPass!Precedes(x, y)
    BY <1>3
  <2>2. x \in before[y] <=> at[x] < at[y]
    BY <1>6
  <2>3. at[x] = ItemRank(x) /\ at[y] = ItemRank(y)
    BY <1>3
  <2> QED
    BY <2>1, <2>2, <2>3
<1>8. /\ \A x \in S : ItemRank(x) \in 0..N - 1
      /\ \A x, y \in S : ItemRank(x) = ItemRank(y) => x = y
      /\ \A k \in 0..N - 1 : \E x \in S : ItemRank(x) = k
  <2>1. /\ \A x \in S : at[x] \in 0..N - 1 /\ at[x] = ItemRank(x)
        /\ \A x, y \in S : at[x] = at[y] => x = y
        /\ \A k \in 0..N - 1 : \E x \in S : at[x] = k
    BY <1>3, <1>6
  <2> QED
    BY <2>1, Zenon
<1> QED
  BY <1>7, <1>8 DEF S

(* The slot of the item whose turn it is: that of its rank, and free.      *)
LEMMA SlotOfRank ==
  ASSUME PassInv, phase = "scatter", i >= 0
  PROVE  /\ i \in 0..N - 1 /\ digit[i] \in 0..K - 1
         /\ offset[digit[i]] - 1 = ItemRank(i) /\ ItemRank(i) \in 0..N - 1
         /\ output[ItemRank(i)] = Unset
<1>1. /\ i \in 0..N - 1 /\ digit[i] \in 0..K - 1
      /\ \A x \in 0..N - 1 : digit[x] \in Int
  BY ItemSets DEF PassInv, PassType, ScatterInv
<1>2. offset[digit[i]] - 1 = ItemRank(i)
  <2> DEFINE T == {y \in 0..N - 1 : CountingPass!Precedes(y, i)}
             S == {x \in 0..N - 1 :
                    Before(digit[x], digit[i]) \/ (digit[x] = digit[i] /\ x <= i)}
  <2>1. offset[digit[i]] = Cardinality(S)
    BY <1>1 DEF PassInv, ScatterInv
  <2>2. \A x \in 0..N - 1 : x \in S <=> x \in T \/ x = i
    BY <1>1 DEF Before, CountingPass!Precedes
  <2>3. i \notin T
    BY <1>1 DEF CountingPass!Precedes
  <2>4. T \in SUBSET (0..N - 1) /\ S \in SUBSET (0..N - 1)
    OBVIOUS
  <2>5. ItemRank(i) = Cardinality(T)
    BY DEF ItemRank
  <2> HIDE DEF S, T
  <2>6. S = T \cup {i}
    BY <1>1, <2>2, <2>4
  <2>7. Cardinality(S) = Cardinality(T) + 1
    BY <1>1, <2>3, <2>4, <2>6, OneItemMore
  <2>8. Cardinality(T) \in Nat
    BY <2>4, ItemSets
  <2> QED
    BY <2>1, <2>5, <2>7, <2>8
<1>3. ItemRank(i) \in 0..N - 1
  BY <1>1, Ranks DEF PassInv
<1>4. output[ItemRank(i)] = Unset
  <2>1. SUFFICES ASSUME output[ItemRank(i)] # Unset PROVE FALSE
    OBVIOUS
  <2>2. PICK x \in 0..N - 1 : x > i /\ ItemRank(x) = ItemRank(i)
    BY <1>3, <2>1 DEF PassInv, ScatterInv
  <2>3. x = i
    BY <1>1, <2>2, Ranks DEF PassInv
  <2> QED
    BY <1>1, <2>2, <2>3
<1> QED
  BY <1>1, <1>2, <1>3, <1>4

LEMMA ScatterStep == PassInv /\ CountingPass!Scatter => PassInv'
<1> SUFFICES ASSUME PassInv, CountingPass!Scatter PROVE PassInv'
  OBVIOUS
<1>1. /\ phase = "scatter" /\ i >= 0 /\ i' = i - 1
      /\ output' = [output EXCEPT ![offset[digit[i]] - 1] = i]
      /\ offset' = [offset EXCEPT ![digit[i]] = @ - 1]
      /\ UNCHANGED <<digit, dir, phase>>
  BY DEF CountingPass!Scatter, CountingPass!Slot
<1>2. /\ i \in 0..N - 1 /\ digit[i] \in 0..K - 1
      /\ offset[digit[i]] - 1 = ItemRank(i) /\ ItemRank(i) \in 0..N - 1
      /\ output[ItemRank(i)] = Unset
  BY <1>1, SlotOfRank
<1>3. /\ offset \in [0..K - 1 -> Nat] /\ output \in [0..N - 1 -> (0..N - 1) \cup {Unset}]
      /\ digit \in [0..N - 1 -> 0..K - 1] /\ N \in Nat
  BY ItemSets DEF PassInv, PassType
<1>4. \A x : ItemRank(x)' = ItemRank(x)
  BY <1>1 DEF ItemRank, CountingPass!Precedes
<1>5. PassType'
  <2>1. offset[digit[i]] - 1 \in Nat
    BY <1>2, ItemSets
  <2>2. offset' \in [0..K - 1 -> Nat]
    BY <1>1, <1>2, <1>3, <2>1
  <2>3. output' \in [0..N - 1 -> (0..N - 1) \cup {Unset}]
    BY <1>1, <1>2, <1>3
  <2> QED
    BY <1>1, <1>2, <2>2, <2>3 DEF PassInv, PassType
<1>6. ASSUME NEW d \in 0..K - 1
      PROVE  offset'[d] = Cardinality({x \in 0..N - 1 :
               Before(digit[x], d)' \/ (digit'[x] = d /\ x <= i')})
  <2> DEFINE S == {x \in 0..N - 1 : Before(digit[x], d) \/ (digit[x] = d /\ x <= i)}
             T == {x \in 0..N - 1 : Before(digit[x], d)' \/ (digit'[x] = d /\ x <= i')}
  <2>1. offset[d] = Cardinality(S)
    BY <1>1 DEF PassInv, ScatterInv
  <2>2. \A x \in 0..N - 1 : /\ Before(digit[x], d)' <=> Before(digit[x], d)
                            /\ digit'[x] = digit[x] /\ digit[x] \in Int
    BY <1>1, <1>3 DEF Before
  <2>3. S \in SUBSET (0..N - 1) /\ T \in SUBSET (0..N - 1)
    OBVIOUS
  <2>4. CASE d = digit[i]
    <3>1. \A x \in 0..N - 1 : x \in S <=> x \in T \/ x = i
      BY <1>1, <1>2, <2>2, <2>4
    <3>2. i \notin T
      BY <1>1, <1>2, <2>2, <2>4 DEF Before
    <3> HIDE DEF S, T
    <3>3. S = T \cup {i}
      BY <1>2, <2>3, <3>1
    <3>4. Cardinality(S) = Cardinality(T) + 1
      BY <1>2, <2>3, <3>2, <3>3, OneItemMore
    <3>5. offset'[d] = offset[d] - 1
      BY <1>1, <1>2, <1>3, <2>4
    <3>6. Cardinality(T) \in Nat
      BY <2>3, ItemSets
    <3>7. offset'[d] = Cardinality(T)
      BY <2>1, <3>4, <3>5, <3>6
    <3> QED
      BY <3>7 DEF T
  <2>5. CASE d # digit[i]
    <3>1. \A x \in 0..N - 1 : x \in S <=> x \in T
      BY <1>1, <1>2, <2>2, <2>5
    <3>2. S = T
      BY <3>1
    <3>3. offset'[d] = offset[d]
      BY <1>1, <1>2, <1>3, <2>5
    <3> HIDE DEF S
    <3> QED
      BY <2>1, <3>2, <3>3
  <2> QED
    BY <2>4, <2>5
<1>7. ASSUME NEW x \in 0..N - 1, x > i'
      PROVE  output'[ItemRank(x)'] = x
  <2>1. CASE x = i
    BY <1>1, <1>2, <1>3, <1>4, <2>1
  <2>2. CASE x # i
    <3>1. x > i /\ output[ItemRank(x)] = x
      BY <1>1, <1>2, <1>7, <2>2 DEF PassInv, ScatterInv
    <3>2. ItemRank(x) # ItemRank(i) /\ ItemRank(x) \in 0..N - 1
      BY <1>2, <2>2, Ranks DEF PassInv
    <3> QED
      BY <1>1, <1>2, <1>3, <1>4, <3>1, <3>2
  <2> QED
    BY <2>1, <2>2
<1>8. ASSUME NEW k \in 0..N - 1, output'[k] # Unset
      PROVE  \E x \in 0..N - 1 : x > i' /\ ItemRank(x)' = k
  <2>1. CASE k = ItemRank(i)
    <3>1. PICK x \in 0..N - 1 : x = i
      BY <1>2
    <3>2. x > i'
      BY <1>1, <1>2, <1>3, <3>1
    <3>3. ItemRank(x)' = k
      BY <1>4, <2>1, <3>1, Zenon
    <3> QED
      BY <3>2, <3>3, Zenon
  <2>2. CASE k # ItemRank(i)
    <3>1. output[k] # Unset
      BY <1>1, <1>2, <1>3, <1>8, <2>2
    <3>2. PICK x \in 0..N - 1 : x > i /\ ItemRank(x) = k
      BY <1>1, <3>1 DEF PassInv, ScatterInv
    <3>3. x > i'
      BY <1>1, <1>2, <1>3, <3>2
    <3>4. ItemRank(x)' = k
      BY <1>4, <3>2
    <3> QED
      BY <3>3, <3>4, Zenon
  <2> QED
    BY <2>1, <2>2
<1>9. ScatterInv'
  <2>1. i' \in -1..N - 1
    BY <1>1, <1>2, <1>3
  <2>2. \A x \in 0..N - 1 : x > i' => output'[ItemRank(x)'] = x
    BY <1>7
  <2>3. \A k \in 0..N - 1 :
          output'[k] # Unset => \E x \in 0..N - 1 : x > i' /\ ItemRank(x)' = k
    BY <1>8
  <2> QED
    BY <1>6, <2>1, <2>2, <2>3 DEF ScatterInv
<1> QED
  BY <1>1, <1>5, <1>9 DEF PassInv, ZeroInv, CountInv, AddInv

LEMMA PassStutter == PassInv /\ UNCHANGED passVars => PassInv'
<1> SUFFICES ASSUME PassInv, UNCHANGED passVars PROVE PassInv'
  OBVIOUS
<1>1. UNCHANGED <<digit, dir, phase, i, offset, output>>
  BY DEF passVars
<1>2. \A c, d : Before(c, d)' <=> Before(c', d')
  BY <1>1 DEF Before
<1>3. PassType' /\ ZeroInv' /\ CountInv'
  BY <1>1 DEF PassInv, PassType, ZeroInv, CountInv, Empty
<1>4. AddInv'
  BY <1>1 DEF PassInv, AddInv, Empty, Before
<1>5. ScatterInv'
  BY <1>1 DEF PassInv, ScatterInv, ItemRank, Before, CountingPass!Precedes
<1> QED
  BY <1>3, <1>4, <1>5 DEF PassInv

LEMMA SlotIsFree == PassInv => CountingPass!SlotsFree
BY SlotOfRank DEF CountingPass!SlotsFree, CountingPass!Slot, CountingPass!Items

(* At the end every slot has the item of its rank.                         *)
LEMMA OutputOfRank ==
  ASSUME PassInv, CountingPass!Done
  PROVE  \A x \in 0..N - 1 : ItemRank(x) \in 0..N - 1 /\ output[ItemRank(x)] = x
<1>1. phase = "scatter" /\ i < 0 /\ PassType
  BY DEF CountingPass!Done, PassInv
<1>2. ASSUME NEW x \in 0..N - 1 PROVE x > i
  BY <1>1 DEF PassType
<1>3. ASSUME NEW x \in 0..N - 1 PROVE ItemRank(x) \in 0..N - 1
  BY <1>1, Ranks
<1> QED
  BY <1>1, <1>2, <1>3 DEF PassInv, ScatterInv

LEMMA OutputSorted == PassInv /\ CountingPass!Done => CountingPass!Sorted
<1> SUFFICES ASSUME PassInv, CountingPass!Done, NEW j \in 0..N - 1, NEW k \in 0..N - 1, j < k
             PROVE  /\ output[j] \in 0..N - 1 /\ output[k] \in 0..N - 1
                    /\ CountingPass!Precedes(output[j], output[k])
  BY DEF CountingPass!Sorted, CountingPass!Items
<1>1. PassType
  BY DEF PassInv
<1>2. PICK x \in 0..N - 1 : ItemRank(x) = j
  BY <1>1, Ranks
<1>3. PICK y \in 0..N - 1 : ItemRank(y) = k
  BY <1>1, Ranks
<1>4. output[j] = x /\ output[k] = y
  BY <1>2, <1>3, OutputOfRank
<1>5. CountingPass!Precedes(x, y)
  BY <1>1, <1>2, <1>3, Ranks
<1> QED
  BY <1>4, <1>5

(* It is the pass that RadixSort takes in one step.                        *)
LEMMA OutputIsPass ==
  PassInv /\ CountingPass!Done =>
    [k \in 1..N |-> output[k - 1]] = Pass([k \in 1..N |-> k - 1], digit, dir)
<1> SUFFICES ASSUME PassInv, CountingPass!Done
             PROVE  [k \in 1..N |-> output[k - 1]] = Pass([k \in 1..N |-> k - 1], digit, dir)
  OBVIOUS
<1> DEFINE rows == [k \in 1..N |-> k - 1]
<1>1. /\ PassType /\ N \in Nat /\ digit \in [0..N - 1 -> Int] /\ rows \in [1..N -> 0..N - 1]
      /\ \A p \in 1..N : rows[p] = p - 1 /\ p - 1 \in 0..N - 1
  BY ItemSets DEF PassInv, PassType
<1>2. ASSUME NEW p \in 1..N, NEW q \in 1..N
      PROVE  PlaceBefore(rows, digit, dir, p, q) <=> CountingPass!Precedes(p - 1, q - 1)
  <2>1. rows[p] = p - 1 /\ rows[q] = q - 1
    BY <1>1
  <2>2. p < q <=> p - 1 < q - 1
    BY <1>1
  <2> HIDE DEF rows
  <2> QED
    BY <2>1, <2>2 DEF PlaceBefore, CountingPass!Precedes
<1> HIDE DEF rows
<1>3. PICK At \in [1..N -> 1..N] :
        /\ \A p \in 1..N : Pass(rows, digit, dir)[At[p]] = rows[p]
        /\ \A p, q \in 1..N : At[p] < At[q] <=> PlaceBefore(rows, digit, dir, p, q)
        /\ \A k \in 1..N : \E p \in 1..N : At[p] = k
        /\ \A p \in 1..N :
             At[p] = Cardinality({q \in 1..N : PlaceBefore(rows, digit, dir, q, p)}) + 1
  BY <1>1, PassPlaces, Zenon
<1>4. Pass(rows, digit, dir) \in [1..N -> 0..N - 1]
  BY <1>1, PassPlaces, Zenon
<1>5. ASSUME NEW p \in 1..N PROVE At[p] = ItemRank(p - 1) + 1
  <2> DEFINE S == {q \in 1..N : PlaceBefore(rows, digit, dir, q, p)}
             T == {y \in 0..N - 1 : CountingPass!Precedes(y, p - 1)}
             f == [q \in S |-> q - 1]
  <2>1. S \in SUBSET (1..N) /\ T \in SUBSET (0..N - 1)
    OBVIOUS
  <2>2. \A q \in 1..N : q \in S <=> q - 1 \in T
    BY <1>1, <1>2
  <2> HIDE DEF S, T
  <2>3. f \in [S -> T] /\ \A q \in S : f[q] = q - 1
    BY <2>1, <2>2
  <2>4. \A a, b \in S : f[a] = f[b] => a = b
    BY <2>1, <2>3
  <2>5. ASSUME NEW y \in T PROVE \E q \in S : f[q] = y
    <3>1. y + 1 \in 1..N /\ (y + 1) - 1 = y
      BY <1>1, <2>1
    <3>2. y + 1 \in S
      BY <2>2, <3>1
    <3> QED
      BY <2>3, <3>1, <3>2
  <2> HIDE DEF f
  <2>6. f \in Bijection(S, T)
    BY <2>3, <2>4, <2>5, Fun_IsBij
  <2>7. IsFiniteSet(T)
    BY <2>1, ItemSets
  <2>8. Cardinality(S) = Cardinality(T)
    <3>1. ExistsBijection(S, T)
      BY <2>6 DEF ExistsBijection
    <3>2. ExistsBijection(T, S)
      BY <3>1, Fun_ExistsBijSymmetric
    <3> QED
      BY <2>7, <3>2, FS_Bijection
  <2> QED
    BY <1>3, <2>8 DEF S, T, ItemRank
<1>6. ASSUME NEW k \in 1..N PROVE Pass(rows, digit, dir)[k] = output[k - 1]
  <2>1. PICK p \in 1..N : At[p] = k
    BY <1>3
  <2>2. p - 1 \in 0..N - 1 /\ rows[p] = p - 1
    BY <1>1
  <2>3. output[ItemRank(p - 1)] = p - 1 /\ ItemRank(p - 1) \in 0..N - 1
    BY <2>2, OutputOfRank
  <2>4. ItemRank(p - 1) = k - 1
    BY <1>5, <2>1, <2>3
  <2> QED
    BY <1>3, <2>1, <2>2, <2>3, <2>4
<1>7. Pass(rows, digit, dir) = [k \in 1..N |-> output[k - 1]]
  BY <1>4, <1>6
<1> QED
  BY <1>7 DEF rows

-----------------------------------------------------------------------------
(* The two runs.                                                           *)
SortsInv ==
  /\ used \in {"sort", "pass"}
  /\ used = "sort" /\ InRange => RadixInv
  /\ used = "pass" => NoSort /\ PassInv

LEMMA SortsInvInit == SortsInit => SortsInv
<1> SUFFICES ASSUME SortsInit PROVE SortsInv
  OBVIOUS
<1>1. CASE used = "sort" /\ StatsInit /\ NoPass
  BY <1>1, RadixInit DEF SortsInv, StatsInit
<1>2. CASE used = "pass" /\ CountingPass!Init /\ NoSort
  BY <1>2, PassInit DEF SortsInv
<1> QED
  BY <1>1, <1>2 DEF SortsInit

LEMMA SortsInvNext == SortsInv /\ [SortsNext]_<<used, sortVars, passVars>> => SortsInv'
<1> SUFFICES ASSUME SortsInv, [SortsNext]_<<used, sortVars, passVars>> PROVE SortsInv'
  OBVIOUS
<1>1. used' = used /\ used \in {"sort", "pass"}
  BY DEF SortsNext, SortsInv
<1>2. CASE used = "sort"
  <2>1. [Next]_vars
    BY <1>2 DEF SortsNext, StatsNext, fastats, sortVars
  <2>2. InRange' => InRange
    BY <2>1 DEF InRange, Next, vars, Fradix16_64Pass, Fradix16Pass, FradixPass, RadixPass,
                OrdinalPass, Finish
  <2>3. InRange' => RadixInv'
    BY <1>2, <2>1, <2>2, RadixNextInv DEF SortsInv
  <2> QED
    BY <1>1, <1>2, <2>3 DEF SortsInv
<1>3. CASE used = "pass"
  <2>1. CountingPass!Next \/ UNCHANGED passVars
    BY <1>3 DEF SortsNext
  <2>2. NoSort'
    <3>1. NoSort /\ UNCHANGED sortVars
      BY <1>3 DEF SortsNext, SortsInv
    <3> QED
      BY <3>1 DEF NoSort, sortVars, vars, statsVars
  <2>3. PassInv'
    BY <1>3, <2>1, ZeroStep, CountStep, CountedStep, AddStep, AddedStep, ScatterStep, PassStutter
       DEF SortsInv, CountingPass!Next
  <2> QED
    BY <1>1, <1>3, <2>2, <2>3 DEF SortsInv
<1> QED
  BY <1>1, <1>2, <1>3

(* The invariant holds of every behaviour of a sort or of a pass.          *)
THEOREM SortsHold == SortsSpec => []SortsInv
<1> QED
  BY SortsInvInit, SortsInvNext, PTL DEF SortsSpec

(* When one of the float sorts of fradix.c, fradix16.c and fradix16-64.c   *)
(* has ended, the rows are ordered by all columns, each in its direction,  *)
(* NaN below every number, and rows that are equal are as they were.       *)
THEOREM FloatsSorted == SortsSpec => []SortsFloats
<1>1. SortsInv => SortsFloats
  <2> SUFFICES ASSUME SortsInv, done, fn \in Float PROVE InOrder(Result)
    BY DEF SortsFloats
  <2>1. used = "sort" /\ InRange
    BY DEF SortsInv, NoSort, InRange, Float, Ordinal
  <2> QED
    BY <2>1, ResultInOrder DEF SortsInv
<1> QED
  BY <1>1, SortsHold, PTL

(* So are they when radixSort or radixSortMultiple of radix.c has ended,   *)
(* in the caller's buffer, by as many passes as the largest word needs.    *)
THEOREM IntegersSorted == SortsSpec => []SortsIntegers
<1>1. SortsInv => SortsIntegers
  <2> SUFFICES ASSUME SortsInv, done, fn \in Integer PROVE InOrder(Result)
    BY DEF SortsIntegers
  <2>1. used = "sort" /\ InRange
    BY DEF SortsInv, NoSort, InRange, Integer, Ordinal
  <2> QED
    BY <2>1, ResultInOrder DEF SortsInv
<1> QED
  BY <1>1, SortsHold, PTL

(* And when radixSortMultiple32 has, if every word is below the number of  *)
(* rows: of a word as high as that number, which radix.c:164 allows, the   *)
(* run RadixSortDoc shows that they need not be.                           *)
THEOREM OrdinalsSorted ==
  ASSUME Ordinals \subseteq 0..Rows - 1
  PROVE  SortsSpec => []SortsOrdinals
<1>1. SortsInv => SortsOrdinals
  <2> SUFFICES ASSUME SortsInv, done, fn \in Ordinal PROVE InOrder(Result)
    BY DEF SortsOrdinals
  <2>1. used = "sort" /\ InRange
    BY DEF SortsInv, NoSort, InRange
  <2> QED
    BY <2>1, ResultInOrder DEF SortsInv
<1> QED
  BY <1>1, SortsHold, PTL

(* No item of a counting pass goes over another or to a slot that is not   *)
(* in the array, whatever the digits and the direction.                    *)
THEOREM SlotsAreFree == SortsSpec => []SlotsFree
<1>1. SortsInv => SlotsFree
  BY SlotIsFree DEF SortsInv, SlotsFree
<1> QED
  BY <1>1, SortsHold, PTL

(* A counting pass, loop by loop, sorts by digit in its direction, keeps   *)
(* the order of the items of a digit, and so is the one step that the      *)
(* sorts above are made of.                                                *)
THEOREM PassIsStable == SortsSpec => []StableSort
<1>1. SortsInv => StableSort
  BY OutputSorted, OutputIsPass DEF SortsInv, StableSort
<1> QED
  BY <1>1, SortsHold, PTL

-----------------------------------------------------------------------------
(* The statistics of a column.                                             *)

(* Rows of different places are different rows.                            *)
LEMMA RowsOfPlaces ==
  ASSUME NEW n \in Nat, NEW rows \in [1..n -> 1..n],
         \A x \in 1..n : \E k \in 1..n : rows[k] = x,
         NEW a \in 0..n, NEW b \in a..n
  PROVE  /\ IsFiniteSet({rows[k] : k \in a + 1..b})
         /\ Cardinality({rows[k] : k \in a + 1..b}) = b - a
<1>1. IsFiniteSet(1..n)
  BY FS_Interval
<1>2. rows \in Surjection(1..n, 1..n)
  BY DEF Surjection
<1>3. rows \in Injection(1..n, 1..n)
  BY <1>1, <1>2, FS_SurjSameCardinalityImpliesInj
<1>4. \A j, k \in 1..n : rows[j] = rows[k] => j = k
  BY <1>3 DEF Injection, IsInjective
<1> DEFINE P == a + 1..b
           T == {rows[k] : k \in P}
           g == [k \in P |-> rows[k]]
<1>5. P \subseteq 1..n
  OBVIOUS
<1>6. g \in Bijection(P, T)
  <2>1. g \in [P -> T]
    OBVIOUS
  <2>2. \A j, k \in P : g[j] = g[k] => j = k
    BY <1>4, <1>5
  <2>3. \A t \in T : \E k \in P : g[k] = t
    OBVIOUS
  <2> HIDE DEF g, P, T
  <2> QED
    BY <2>1, <2>2, <2>3 DEF Bijection, Injection, Surjection, IsInjective
<1>7. ExistsBijection(P, T)
  BY <1>6 DEF ExistsBijection
<1>8. IsFiniteSet(P) /\ Cardinality(P) = b - a
  <2>1. a + 1 \in Int /\ b \in Int /\ b - a = (IF a + 1 > b THEN 0 ELSE b - (a + 1) + 1)
    OBVIOUS
  <2>2. IsFiniteSet(a + 1..b) /\ Cardinality(a + 1..b) = b - a
    BY <2>1, FS_Interval
  <2> QED
    BY <2>2
<1>9. IsFiniteSet(T) /\ Cardinality(T) = Cardinality(P)
  <2> HIDE DEF P, T
  <2> QED
    BY <1>7, <1>8, FS_Bijection
<1> QED
  BY <1>8, <1>9

(* x is the k-th smallest of M by rank.                                    *)
NthOf(M, rank, x, k) ==
  /\ Cardinality({r \in M : rank[r] < rank[x]}) < k
  /\ Cardinality({r \in M : rank[r] <= rank[x]}) >= k

(* Of rows in the order of their ranks, those in M last, the k-th of M is  *)
(* the k-th smallest.                                                      *)
LEMMA Counted ==
  ASSUME NEW n \in Nat, NEW rows \in [1..n -> 1..n],
         \A x \in 1..n : \E k \in 1..n : rows[k] = x,
         NEW rank \in [1..n -> Int],
         \A j, k \in 1..n : j < k => rank[rows[j]] <= rank[rows[k]],
         NEW f \in 0..n, NEW M \in SUBSET (1..n), \A k \in 1..n : rows[k] \in M <=> k > f
  PROVE  /\ Cardinality(M) = n - f
         /\ \A k \in 1..n - f : NthOf(M, rank, rows[f + k], k)
<1>1. M = {rows[k] : k \in f + 1..n}
  <2>1. ASSUME NEW r \in M PROVE r \in {rows[k] : k \in f + 1..n}
    <3>1. PICK k \in 1..n : rows[k] = r
      OBVIOUS
    <3> QED
      BY <3>1
  <2>2. ASSUME NEW k \in f + 1..n PROVE rows[k] \in M
    OBVIOUS
  <2> QED
    BY <2>1, <2>2
<1>2. IsFiniteSet(M) /\ Cardinality(M) = n - f
  <2>1. n \in f..n
    OBVIOUS
  <2> QED
    BY <1>1, <2>1, RowsOfPlaces
<1>3. ASSUME NEW k \in 1..n - f
      PROVE  NthOf(M, rank, rows[f + k], k)
  <2> DEFINE Lower == {r \in M : rank[r] < rank[rows[f + k]]}
             Most == {r \in M : rank[r] <= rank[rows[f + k]]}
             Ahead == {rows[j] : j \in f + 1..f + (k - 1)}
             Upto == {rows[j] : j \in f + 1..f + k}
  <2>1. f + k \in f..n /\ f + (k - 1) \in f..n
    OBVIOUS
  <2>2. IsFiniteSet(Ahead) /\ Cardinality(Ahead) = (f + (k - 1)) - f
    BY <2>1, RowsOfPlaces
  <2>3. IsFiniteSet(Upto) /\ Cardinality(Upto) = (f + k) - f
    BY <2>1, RowsOfPlaces
  <2>11. PICK m \in 1..n : m = f + k
    BY <2>1
  <2>12. PICK x \in 1..n : x = rows[m]
    OBVIOUS
  <2> HIDE DEF Lower, Most, Ahead, Upto
  <2>13. \A q \in 1..n : q <= m => rank[rows[q]] <= rank[x]
    <3> SUFFICES ASSUME NEW q \in 1..n, q <= m PROVE rank[rows[q]] <= rank[x]
      OBVIOUS
    <3>1. CASE q < m
      BY <2>12, <3>1
    <3>2. CASE q = m
      BY <2>12, <3>2
    <3> QED
      BY <3>1, <3>2
  <2>14. \A q \in 1..n : m <= q => rank[x] <= rank[rows[q]]
    <3> SUFFICES ASSUME NEW q \in 1..n, m <= q PROVE rank[x] <= rank[rows[q]]
      OBVIOUS
    <3>1. CASE m < q
      BY <2>12, <3>1
    <3>2. CASE q = m
      BY <2>12, <3>2
    <3> QED
      BY <3>1, <3>2
  <2>4. Lower \subseteq Ahead
    <3> SUFFICES ASSUME NEW r \in M, rank[r] < rank[x] PROVE r \in Ahead
      BY <2>11, <2>12 DEF Lower
    <3>1. PICK j \in f + 1..n : rows[j] = r
      BY <1>1
    <3>2. j \in 1..n /\ rank[r] \in Int /\ rank[x] \in Int
      OBVIOUS
    <3>3. ~ (m <= j)
      BY <2>14, <3>1, <3>2
    <3>4. j \in f + 1..f + (k - 1)
      BY <2>11, <3>2, <3>3
    <3> QED
      BY <3>1, <3>4 DEF Ahead
  <2>5. Upto \subseteq Most
    <3> SUFFICES ASSUME NEW j \in f + 1..f + k PROVE rows[j] \in Most
      BY DEF Upto
    <3>1. j \in 1..n /\ j <= m /\ j > f
      BY <2>11
    <3>2. rows[j] \in M /\ rank[rows[j]] <= rank[x]
      BY <2>13, <3>1
    <3> QED
      BY <2>11, <2>12, <3>2 DEF Most
  <2>6. Most \subseteq M
    BY DEF Most
  <2>7. IsFiniteSet(Lower) /\ Cardinality(Lower) <= Cardinality(Ahead)
    BY <2>2, <2>4, FS_Subset
  <2>8. IsFiniteSet(Most)
    BY <1>2, <2>6, FS_Subset
  <2>9. Cardinality(Upto) <= Cardinality(Most)
    BY <2>5, <2>8, FS_Subset
  <2>10. Cardinality(Lower) \in Nat /\ Cardinality(Most) \in Nat
    BY <2>7, <2>8, FS_CardinalityType
  <2> QED
    BY <2>2, <2>3, <2>7, <2>9, <2>10 DEF Lower, Most, NthOf
<1> QED
  BY <1>2, <1>3

(* Every NaN with the sign clear is the canonical one, the only one the    *)
(* sort moves below the numbers.                                           *)
OneNaN == isnan(NaN) /\ \A w \in FloatWord : isnan(w) /\ w < Words \div 2 => w = NaN

(* A NaN comes before a number, unless they are the canonical NaN and      *)
(* minus infinity.                                                         *)
LEMMA NaNsFirst ==
  ASSUME OneNaN, fn = "fradixSort16", NEW v \in FloatWord, NEW w \in FloatWord,
         isnan(v), ~ isnan(w), ~ (v = NaN /\ w = MinusInf)
  PROVE  Rank(v) < Rank(w)
<1>1. PICK h \in Nat \ {0} : h = Words \div 2
  BY HalfOfWords
<1>2. PICK m \in 0..h - 1, t \in 0..h - 1 : m = MinusInf - h /\ t = NaN /\ Words = 2 * h
  BY <1>1, HalfOfWords, RadixAssumption
<1>3. v \in 0..2 * h - 1 /\ w \in 0..2 * h - 1
  BY <1>2, RadixAssumption
<1>4. ASSUME NEW x \in 0..2 * h - 1 PROVE x % h = (IF x < h THEN x ELSE x - h)
  <2>1. CASE x < h
    BY <2>1
  <2>2. CASE x >= h
    <3>1. PICK y \in 0..h - 1 : x = y + h
      BY <2>2
    <3>2. (y + h) % h = y
      OBVIOUS
    <3> QED
      BY <2>2, <3>1, <3>2
  <2> QED
    BY <2>1, <2>2
<1>5. \A x \in 0..2 * h - 1 : isnan(x) <=> (IF x < h THEN x ELSE x - h) > m
  BY <1>1, <1>2, <1>4 DEF isnan, Infinity
<1>6. fn \in Float \ {"fradixSort"}
  BY DEF Float
<1> DEFINE up(x) == IF x = t THEN m + h ELSE x
           rank(x) == IF up(x) >= h THEN h - 1 - up(x) ELSE up(x)
<1>7. Rank(v) = rank(v) /\ Rank(w) = rank(w)
  <2>1. MinusInf = m + h
    BY <1>2, RadixAssumption
  <2> QED
    BY <1>1, <1>2, <1>6, <2>1 DEF Rank
<1>8. t > m /\ (v < h => v = t) /\ (IF v < h THEN v ELSE v - h) > m
      /\ ~ ((IF w < h THEN w ELSE w - h) > m) /\ ~ (v = t /\ w = m + h)
  <2>1. MinusInf = m + h
    BY <1>2, RadixAssumption
  <2>2. t \in 0..2 * h - 1
    BY <1>2
  <2>3. t > m
    BY <1>2, <1>5, <2>2 DEF OneNaN
  <2>4. v < h => v = t
    BY <1>1, <1>2 DEF OneNaN
  <2> QED
    BY <1>2, <1>3, <1>5, <2>1, <2>3, <2>4
<1>9. rank(v) < rank(w)
  BY <1>3, <1>8
<1> QED
  BY <1>7, <1>9

(* The words of the column as rows puts them in order.                     *)
Ordered(rows) == [k \in 1..Rows |-> given[rows[k]]]

(* What there is of a column when its statistics have been taken.          *)
Taken(rows) ==
  /\ rows \in [1..Rows -> 1..Rows]
  /\ \A x \in 1..Rows : \E k \in 1..Rows : rows[k] = x
  /\ given \in [1..Rows -> FloatWord]
  /\ \A j, k \in 1..Rows : j < k => Rank(given[rows[j]]) <= Rank(given[rows[k]])
  /\ mm_result = Statistics(Ordered(rows))

StatsInv ==
  mm_result # <<>> =>
    /\ fn = "fradixSort16"
    /\ \/ given = <<>> /\ mm_result = Statistics(<<>>)
       \/ \E rows : Taken(rows)

(* The NaNs are the first words of the sorted column.                      *)
LEMMA FirstNumber ==
  ASSUME OneNaN, fn = "fradixSort16", NEW rows, Taken(rows),
         ~ ({NaN, MinusInf} \subseteq Range(given)),
         NEW f, f = first_val(Ordered(rows))
  PROVE  /\ f \in 0..Rows /\ Len(Ordered(rows)) = Rows
         /\ \A k \in 1..Rows : rows[k] \in Numbers <=> k > f
<1>1. PICK n \in Nat \ {0} : n = Rows
  BY RadixAssumption
<1>2. PICK sorted : sorted = Ordered(rows)
  OBVIOUS
<1>3. /\ sorted \in Seq(FloatWord) /\ Len(sorted) = n /\ DOMAIN sorted = 1..n
      /\ \A k \in 1..n : sorted[k] = given[rows[k]] /\ sorted[k] \in FloatWord
      /\ \A k \in 1..n : rows[k] \in 1..n
      /\ \A k \in 1..n : rows[k] \in Numbers <=> ~ isnan(sorted[k])
  <2>1. rows \in [1..n -> 1..n] /\ given \in [1..n -> FloatWord]
    BY <1>1 DEF Taken
  <2>2. sorted = [k \in 1..n |-> given[rows[k]]]
    BY <1>1, <1>2 DEF Ordered
  <2>3. \A k \in 1..n : rows[k] \in 1..n /\ sorted[k] = given[rows[k]] /\ sorted[k] \in FloatWord
    BY <2>1, <2>2
  <2>4. sorted \in [1..n -> FloatWord]
    BY <2>2, <2>3
  <2>5. DOMAIN given = 1..n
    BY <2>1
  <2>6. \A k \in 1..n : rows[k] \in Numbers <=> ~ isnan(sorted[k])
    BY <2>3, <2>5 DEF Numbers
  <2> QED
    BY <2>3, <2>4, <2>6
<1> DEFINE T == {k \in DOMAIN sorted : ~ isnan(sorted[k])} \cup {Len(sorted) + 1}
<1>4. T \subseteq 1..n + 1 /\ n + 1 \in T /\ \A k \in 1..n : k \in T <=> ~ isnan(sorted[k])
  BY <1>3
<1>5. f = Min(T) - 1
  BY <1>2 DEF first_val
<1> HIDE DEF T
<1>6. \E m \in T : \A k \in T : m <= k
  BY <1>4, Least
<1>7. Min(T) \in T /\ \A k \in T : Min(T) <= k
  BY <1>6, Zenon DEF Min
<1>8. PICK m \in 1..n + 1 : m = Min(T)
  BY <1>4, <1>7
<1>9. f = m - 1
  BY <1>5, <1>8
<1>10. ASSUME NEW k \in 1..n PROVE rows[k] \in Numbers <=> k > f
  <2>1. CASE k < m
    <3>1. k \notin T
      BY <1>7, <1>8, <2>1
    <3> QED
      BY <1>3, <1>4, <1>9, <2>1, <3>1
  <2>2. CASE k = m
    BY <1>3, <1>4, <1>7, <1>8, <1>9, <2>2
  <2>3. CASE k > m
    <3> SUFFICES ASSUME isnan(sorted[k]) PROVE FALSE
      BY <1>3, <1>9, <2>3
    <3>1. m \in 1..n /\ ~ isnan(sorted[m])
      BY <1>4, <1>7, <1>8, <2>3
    <3>2. PICK v \in FloatWord, w \in FloatWord : v = sorted[k] /\ w = sorted[m]
      BY <1>3, <3>1
    <3>3. v \in Range(given) /\ w \in Range(given)
      <4>1. DOMAIN given = 1..n
        BY <1>1 DEF Taken
      <4> QED
        BY <1>3, <3>1, <3>2, <4>1 DEF Range
    <3>4. Rank(v) < Rank(w)
      BY <3>1, <3>2, <3>3, NaNsFirst
    <3>5. Rank(w) <= Rank(v)
      BY <1>1, <1>3, <2>3, <3>1, <3>2 DEF Taken
    <3>6. Rank(v) \in Int /\ Rank(w) \in Int
      <4>1. fn \in Float \cup Integer \cup Ordinal /\ fn \in Float
        BY DEF Float
      <4>2. WordsOf = FloatWord
        BY <4>1 DEF WordsOf
      <4> QED
        BY <4>1, <4>2, KeysRank
    <3> QED
      BY <3>4, <3>5, <3>6
  <2> QED
    BY <2>1, <2>2, <2>3
<1> QED
  BY <1>1, <1>2, <1>3, <1>9, <1>10

(* The k-th number of the sorted column is the k-th smallest.              *)
LEMMA NthIs ==
  ASSUME OneNaN, fn = "fradixSort16", NEW rows, Taken(rows),
         ~ ({NaN, MinusInf} \subseteq Range(given)),
         NEW f, f = first_val(Ordered(rows))
  PROVE  /\ Cardinality(Numbers) = Rows - f
         /\ f = Rows => Numbers = {}
         /\ \A k \in 1..Rows - f : IsNth(k, Ordered(rows)[f + k])
<1>1. PICK n \in Nat \ {0} : n = Rows
  BY RadixAssumption
<1>2. f \in 0..n /\ \A k \in 1..n : rows[k] \in Numbers <=> k > f
  BY <1>1, FirstNumber
<1>3. /\ rows \in [1..n -> 1..n] /\ given \in [1..n -> FloatWord]
      /\ \A x \in 1..n : \E k \in 1..n : rows[k] = x
  BY <1>1 DEF Taken
<1>4. Numbers \in SUBSET (1..n)
  BY <1>3 DEF Numbers
<1> DEFINE rank == [r \in 1..n |-> Rank(given[r])]
<1>5. rank \in [1..n -> Int]
  <2>1. fn \in Float \cup Integer \cup Ordinal /\ fn \in Float
    BY DEF Float
  <2>2. WordsOf = FloatWord
    BY <2>1 DEF WordsOf
  <2>3. \A r \in 1..n : Rank(given[r]) \in Int
    BY <1>3, <2>1, <2>2, KeysRank
  <2> QED
    BY <2>3
<1>6. \A j, k \in 1..n : j < k => rank[rows[j]] <= rank[rows[k]]
  BY <1>1, <1>3 DEF Taken
<1>7. PICK M : M = Numbers
  OBVIOUS
<1> HIDE DEF rank
<1>8. /\ Cardinality(M) = n - f
      /\ \A k \in 1..n - f : NthOf(M, rank, rows[f + k], k)
  <2>1. M \in SUBSET (1..n) /\ \A k \in 1..n : rows[k] \in M <=> k > f
    BY <1>2, <1>4, <1>7
  <2> QED
    BY <1>2, <1>3, <1>5, <1>6, <2>1, Counted
<1>9. f = n => Numbers = {}
  <2> SUFFICES ASSUME f = n, NEW r \in Numbers PROVE FALSE
    OBVIOUS
  <2>1. PICK k \in 1..n : rows[k] = r
    BY <1>3, <1>4
  <2> QED
    BY <1>2, <2>1
<1>10. ASSUME NEW k \in 1..n - f PROVE IsNth(k, Ordered(rows)[f + k])
  <2>6. PICK x \in 1..n : f + k \in 1..n /\ x = rows[f + k]
    <3>1. f + k \in 1..n
      BY <1>2
    <3> QED
      BY <1>3, <3>1
  <2>1. PICK w : f + k \in 1..n /\ x = rows[f + k] /\ w = Ordered(rows)[f + k]
    BY <2>6
  <2>2. w = given[x] /\ x \in M /\ rank[x] = Rank(w)
    BY <1>1, <1>2, <1>7, <2>1 DEF Ordered, rank
  <2>5. NthOf(M, rank, x, k)
    BY <1>8, <2>1
  <2>3. /\ {r \in M : rank[r] < rank[x]} = {r \in Numbers : Rank(given[r]) < Rank(w)}
        /\ {r \in M : rank[r] <= rank[x]} = {r \in Numbers : Rank(given[r]) <= Rank(w)}
    <3>1. \A r \in M : rank[r] = Rank(given[r])
      BY <1>4, <1>7 DEF rank
    <3> QED
      BY <1>7, <2>2, <3>1
  <2>4. IsNth(k, w)
    <3>1. \E r \in Numbers : given[r] = w
      BY <1>7, <2>2
    <3> QED
      BY <2>3, <2>5, <3>1 DEF IsNth, NthOf
  <2> QED
    BY <2>1, <2>4
<1> QED
  BY <1>1, <1>7, <1>8, <1>9, <1>10

(* The statistics of a column with numbers in it are their order           *)
(* statistics.                                                             *)
LEMMA StatisticsRight ==
  ASSUME OneNaN, fn = "fradixSort16", NEW rows, Taken(rows),
         ~ ({NaN, MinusInf} \subseteq Range(given))
  PROVE  OrderStatistics
<1>1. PICK n \in Nat \ {0} : n = Rows
  BY RadixAssumption
<1>2. PICK sorted : sorted = Ordered(rows)
  OBVIOUS
<1>3. PICK f \in 0..n : f = first_val(sorted)
  BY <1>1, <1>2, FirstNumber
<1>4. /\ Len(sorted) = n /\ Cardinality(Numbers) = n - f
      /\ f = n => Numbers = {}
      /\ \A k \in 1..n - f : IsNth(k, sorted[f + k])
  BY <1>1, <1>2, <1>3, FirstNumber, NthIs
<1>5. mm_result = Statistics(sorted)
  BY <1>2 DEF Taken
<1>6. CASE f = n
  <2>1. mm_result = NoNumbers
    BY <1>3, <1>4, <1>5, <1>6 DEF Statistics
  <2> QED
    BY <1>4, <1>6, <2>1 DEF OrderStatistics
<1>7. CASE f # n
  <2>1. PICK c \in Nat \ {0} : c = n - f
    BY <1>7
  <2>2. PICK numbers : numbers = SubSeq(sorted, f + 1, n)
    OBVIOUS
  <2>3. Len(numbers) = c /\ \A k \in 1..c : numbers[k] = sorted[f + k]
    <3>1. sorted = [k \in 1..n |-> given[rows[k]]]
      BY <1>1, <1>2 DEF Ordered
    <3>2. \A k \in 1..n : given[rows[k]] \in FloatWord
      BY <1>1 DEF Taken
    <3>3. sorted \in Seq(FloatWord)
      BY <3>1, <3>2
    <3> QED
      BY <1>4, <2>1, <2>2, <3>3
  <2>4. \A k \in 1..c : IsNth(k, numbers[k])
    BY <1>4, <2>1, <2>3
  <2>5. mm_result =
          [min |-> sorted[f + 1], max |-> sorted[n],
           median |-> Between(sorted[((f + n - 1) \div 2) + 1], sorted[((f + n) \div 2) + 1], 50),
           mean |-> numbers,
           percentiles |-> [p \in Percents |-> percentile(numbers, p)]]
    BY <1>3, <1>4, <1>5, <1>7, <2>2 DEF Statistics
  <2>6. IsNth(1, mm_result.min) /\ IsNth(c, mm_result.max)
    <3>1. f + 1 \in 1..n /\ f + c = n
      BY <2>1
    <3>2. numbers[1] = sorted[f + 1] /\ numbers[c] = sorted[n]
      BY <2>3, <3>1
    <3>3. IsNth(1, numbers[1]) /\ IsNth(c, numbers[c])
      BY <2>4
    <3> QED
      BY <2>5, <3>2, <3>3
  <2>7. IsQuantile(mm_result.median, 50)
    <3>1. PICK h \in Nat : c = 2 * h + 1 \/ c = 2 * h + 2
      <4>1. c - 1 = 2 * ((c - 1) \div 2) + ((c - 1) % 2) /\ (c - 1) % 2 \in 0..1
            /\ (c - 1) \div 2 \in Nat
        OBVIOUS
      <4> QED
        BY <4>1
    <3>2. h + 1 \in 1..c /\ (c = 2 * h + 2 => h + 2 \in 1..c)
      BY <3>1
    <3>3. (f + n - 1) \div 2 = f + h
      <4>1. f + n - 1 = 2 * (f + h) \/ f + n - 1 = 2 * (f + h) + 1
        BY <2>1, <3>1
      <4> QED
        BY <4>1
    <3>4. (f + n) \div 2 = (IF c = 2 * h + 1 THEN f + h ELSE f + h + 1)
      <4>1. f + n = (IF c = 2 * h + 1 THEN 2 * (f + h) + 1 ELSE 2 * (f + h + 1))
        BY <2>1, <3>1
      <4> QED
        BY <3>1, <4>1
    <3>5. mm_result.median =
            Between(sorted[f + h + 1], sorted[IF c = 2 * h + 1 THEN f + h + 1 ELSE f + h + 2], 50)
      BY <2>5, <3>3, <3>4
    <3>6. /\ mm_result.median.low = numbers[h + 1] /\ mm_result.median.part = 50
          /\ c = 2 * h + 1 => mm_result.median.high = numbers[h + 1]
          /\ c = 2 * h + 2 => mm_result.median.high = numbers[h + 2]
      <4>1. sorted[f + h + 1] = numbers[h + 1]
        BY <2>3, <3>2
      <4>2. c = 2 * h + 2 => sorted[f + h + 2] = numbers[h + 2]
        BY <2>3, <3>2
      <4> QED
        BY <3>1, <3>5, <4>1, <4>2 DEF Between
    <3>7. PICK above, k : above = (c - 1) * 50 /\ k = (above \div 100) + 1
      OBVIOUS
    <3>8. k = h + 1 /\ above % 100 = (IF c = 2 * h + 1 THEN 0 ELSE 50)
      BY <3>1, <3>7
    <3>9. IsNth(h + 1, numbers[h + 1]) /\ (c = 2 * h + 2 => IsNth(h + 2, numbers[h + 2]))
      BY <2>4, <3>2
    <3>10. h + 2 = h + 1 + 1
      OBVIOUS
    <3> QED
      BY <1>4, <2>1, <3>1, <3>6, <3>7, <3>8, <3>9, <3>10 DEF IsQuantile
  <2>8. ASSUME NEW p \in Percents PROVE IsQuantile(mm_result.percentiles[p], p)
    <3>1. PICK s : s = mm_result.percentiles[p]
      OBVIOUS
    <3>2. s = percentile(numbers, p)
      BY <2>5, <3>1
    <3>3. PICK x, q, t : x = (c - 1) * p /\ q = x \div 100 /\ t = x % 100
      OBVIOUS
    <3>4. x \in Nat /\ x <= (c - 1) * 100 /\ (c # 1 => x < (c - 1) * 100) /\ (c = 1 => x = 0)
      BY <3>3 DEF Percents
    <3>5. q \in Nat /\ t \in 0..99 /\ x = 100 * q + t
      <4>1. x \in Nat /\ q = x \div 100 /\ t = x % 100
        BY <3>3, <3>4
      <4> QED
        BY <4>1
    <3>6. q + 1 \in 1..c /\ (t # 0 => q < c - 1)
      BY <3>4, <3>5
    <3>7. /\ s.low = numbers[q + 1] /\ s.part = t
          /\ q < c - 1 => s.high = numbers[q + 2]
      BY <2>3, <3>2, <3>3 DEF percentile, Between
    <3>8. IsNth(q + 1, numbers[q + 1]) /\ (q < c - 1 => IsNth(q + 2, numbers[q + 2]))
      <4>1. q < c - 1 => q + 2 \in 1..c
        BY <3>5
      <4> QED
        BY <2>4, <3>6, <4>1
    <3>9. q + 2 = q + 1 + 1
      BY <3>5
    <3>10. IsQuantile(s, p)
      <4>1. t = 0 \/ IsNth(q + 1 + 1, s.high)
        BY <3>6, <3>7, <3>8, <3>9
      <4>2. IsNth(q + 1, s.low)
        BY <3>7, <3>8
      <4> QED
        BY <1>4, <2>1, <3>3, <3>7, <4>1, <4>2 DEF IsQuantile
    <3> QED
      BY <3>1, <3>10
  <2>9. /\ Len(mm_result.mean) = c
        /\ \A k \in DOMAIN mm_result.mean : IsNth(k, mm_result.mean[k])
    <3>1. numbers \in Seq(FloatWord)
      <4>1. sorted = [k \in 1..n |-> given[rows[k]]]
        BY <1>1, <1>2 DEF Ordered
      <4>2. \A k \in 1..n : given[rows[k]] \in FloatWord
        BY <1>1 DEF Taken
      <4>3. sorted \in Seq(FloatWord) /\ Len(sorted) = n
        BY <1>4, <4>1, <4>2
      <4> QED
        BY <2>2, <4>3
    <3>2. DOMAIN numbers = 1..c
      BY <2>3, <3>1
    <3>3. mm_result.mean = numbers
      BY <2>5
    <3> QED
      BY <2>3, <2>4, <3>2, <3>3
  <2>10. Numbers # {}
    BY <2>4 DEF IsNth
  <2> QED
    BY <1>4, <2>1, <2>6, <2>7, <2>8, <2>9, <2>10 DEF OrderStatistics
<1> QED
  BY <1>6, <1>7

LEMMA MinOfOne == Min({1}) = 1
<1>1. \E m \in {1} : \A k \in {1} : m <= k
  OBVIOUS
<1>2. Min({1}) \in {1}
  BY <1>1, Zenon DEF Min
<1> QED
  BY <1>2

LEMMA StatsRight == OneNaN /\ StatsInv => OrderStatistics
<1> SUFFICES ASSUME OneNaN, StatsInv, mm_result # <<>>,
                    ~ ({NaN, MinusInf} \subseteq Range(given))
             PROVE  OrderStatistics
  BY DEF OrderStatistics
<1>1. CASE given = <<>> /\ mm_result = Statistics(<<>>)
  <2>1. first_val(<<>>) = 0
    <3>1. {k \in DOMAIN <<>> : ~ isnan(<<>>[k])} \cup {Len(<<>>) + 1} = {1}
      OBVIOUS
    <3>2. Min({1}) = 1
      BY MinOfOne
    <3> QED
      BY <3>1, <3>2 DEF first_val
  <2>2. mm_result = NoNumbers
    BY <1>1, <2>1 DEF Statistics
  <2>3. Numbers = {}
    BY <1>1 DEF Numbers
  <2> QED
    BY <2>2, <2>3 DEF OrderStatistics
<1> QED
  BY <1>1, StatisticsRight DEF StatsInv

LEMMA StatsStart == SortsInit => StatsInv
  BY DEF SortsInit, StatsInit, NoSort, StatsInv

LEMMA StatsTaken == RadixInv /\ fastats => StatsInv'
<1> SUFFICES ASSUME RadixInv, fastats PROVE StatsInv'
  OBVIOUS
<1>1. fn = "fradixSort16" /\ fn' = fn /\ UNCHANGED vars
  BY DEF fastats, vars
<1>2. CASE given' = <<>> /\ mm_result' = Statistics(<<>>)
  <2>1. Statistics(<<>>)' = Statistics(<<>>)
    BY DEF Statistics, first_val, isnan, NoNumbers, percentile, Between
  <2> QED
    BY <1>1, <1>2, <2>1 DEF StatsInv
<1>3. CASE /\ done /\ given' = vals[1]
           /\ mm_result' = Statistics([k \in 1..Rows |-> vals[1][buffer["caller"][k]]])
  <2>1. InOrder(Result) /\ Result = buffer["caller"]
    BY <1>1, <1>3, ResultInOrder DEF Result
  <2>2. /\ LastColumn = 1 /\ dirs[1] = "UP" /\ vals[1] \in [1..Rows -> FloatWord]
        /\ buffer["caller"] \in [1..Rows -> 0..Rows]
    BY <1>1 DEF RadixInv, RadixType, OneColumn, WordsOf, Float
  <2>3. PICK rows : rows = buffer["caller"]
    OBVIOUS
  <2>4. /\ \A x \in 1..Rows : \E k \in 1..Rows : rows[k] = x
        /\ \A k \in 1..Rows : rows[k] \in 1..Rows
    BY <2>1, <2>2, <2>3 DEF InOrder, Range
  <2>5. ASSUME NEW x \in 1..Rows, NEW y \in 1..Rows, RowBefore(x, y)
        PROVE  Rank(vals[1][x]) <= Rank(vals[1][y])
    <3>1. Columnwise[1] = 1
      BY <1>1, <2>2 DEF Columnwise, Float
    <3>2. Rank(vals[1][x]) \in Int /\ Rank(vals[1][y]) \in Int
      <4>1. fn \in Float \cup Integer \cup Ordinal /\ fn \in Float
        BY <1>1 DEF Float
      <4>2. WordsOf = FloatWord /\ vals[1][x] \in FloatWord /\ vals[1][y] \in FloatWord
        BY <2>2, <4>1 DEF WordsOf
      <4> QED
        BY <4>1, <4>2, KeysRank
    <3>3. CASE Rank(vals[1][x]) = Rank(vals[1][y])
      BY <3>2, <3>3
    <3>4. CASE Rank(vals[1][x]) # Rank(vals[1][y])
      <4> DEFINE differ == {k \in 1..LastColumn :
                             Rank(vals[Columnwise[k]][x]) # Rank(vals[Columnwise[k]][y])}
      <4>1. differ = {1}
        BY <2>2, <3>1, <3>4
      <4>2. Min(differ) = 1
        BY <4>1, MinOfOne, SMTT(30)
      <4>3. differ # {}
        BY <4>1
      <4>4. Rank(vals[1][x]) < Rank(vals[1][y])
        BY <2>2, <2>5, <3>1, <4>2, <4>3 DEF RowBefore
      <4> QED
        BY <3>2, <4>4
    <3> QED
      BY <3>3, <3>4
  <2>6. rows \in [1..Rows -> 1..Rows]
    BY <2>2, <2>3, <2>4
  <2>7. \A j, k \in 1..Rows : j < k => Rank(vals[1][rows[j]]) <= Rank(vals[1][rows[k]])
    <3> SUFFICES ASSUME NEW j \in 1..Rows, NEW k \in 1..Rows, j < k
                 PROVE  Rank(vals[1][rows[j]]) <= Rank(vals[1][rows[k]])
      OBVIOUS
    <3>1. RowBefore(rows[j], rows[k])
      BY <2>1, <2>2, <2>3 DEF InOrder
    <3> QED
      BY <2>4, <2>5, <3>1
  <2>8. mm_result' = Statistics([k \in 1..Rows |-> given'[rows[k]]])
    BY <1>3, <2>3
  <2>9. Taken(rows)'
    <3>1. Ordered(rows)' = [k \in 1..Rows |-> given'[rows[k]]]
      BY DEF Ordered
    <3>2. mm_result' = Statistics(Ordered(rows))'
      BY <2>8 DEF Ordered
    <3>3. \A w : Rank(w)' = Rank(w)
      BY <1>1 DEF Rank
    <3> QED
      BY <1>3, <2>2, <2>4, <2>6, <2>7, <3>2, <3>3 DEF Taken
  <2> QED
    BY <1>1, <2>9 DEF StatsInv
<1> QED
  BY <1>2, <1>3 DEF fastats

LEMMA StatsStay ==
  SortsInv /\ StatsInv /\ [SortsNext]_<<used, sortVars, passVars>> => StatsInv'
<1> SUFFICES ASSUME SortsInv, StatsInv, [SortsNext]_<<used, sortVars, passVars>>
             PROVE  StatsInv'
  OBVIOUS
<1>1. CASE used = "sort" /\ fastats
  <2>1. RadixInv
    BY <1>1 DEF SortsInv, InRange, fastats, Ordinal
  <2> QED
    BY <1>1, <2>1, StatsTaken
<1>2. CASE UNCHANGED <<fn, statsVars>>
  <2>1. fn' = fn /\ given' = given /\ mm_result' = mm_result
    BY <1>2 DEF statsVars
  <2> QED
    <3>1. \A rows : Taken(rows) => Taken(rows)'
      <4> SUFFICES ASSUME NEW rows, Taken(rows) PROVE Taken(rows)'
        OBVIOUS
      <4>1. \A w : Rank(w)' = Rank(w)
        BY <2>1 DEF Rank
      <4>2. Ordered(rows)' = Ordered(rows)
        BY <2>1 DEF Ordered
      <4>3. Statistics(Ordered(rows))' = Statistics(Ordered(rows))
        BY <2>1 DEF Ordered
      <4> QED
        BY <2>1, <4>1, <4>3 DEF Taken
    <3> QED
      BY <2>1, <3>1 DEF StatsInv
<1> QED
  BY <1>1, <1>2 DEF SortsNext, StatsNext, Next, Fradix16_64Pass, Fradix16Pass, FradixPass,
                    RadixPass, OrdinalPass, Finish, sortVars, vars, statsVars

(* Whatever words and however many a column has, the statistics fastats    *)
(* finds are the order statistics of the numbers among them.  The one      *)
(* assumption is that a NaN with the sign clear is the canonical one, as   *)
(* those of JavaScript are: the sort takes any other for a high number.    *)
THEOREM StatisticsAreOrdered ==
  ASSUME OneNaN
  PROVE  SortsSpec => []OrderStatistics
<1>1. StatsInv => OrderStatistics
  BY StatsRight
<1> QED
  BY <1>1, StatsStart, StatsStay, SortsHold, PTL DEF SortsSpec

-----------------------------------------------------------------------------
(* Rounding.                                                               *)

LEMMA FloorIs ==
  ASSUME NEW x \in Nat, NEW b \in Nat \ {0}, NEW k \in Nat
  PROVE  x \div b \in Nat /\ (k <= x \div b <=> k * b <= x)
<1>1. PICK q \in Nat : q = x \div b
  BY Division
<1>2. PICK r \in 0..b - 1 : r = x % b
  BY Division
<1>3. x = q * b + r
  BY Division, <1>1, <1>2
<1>4. k <= q => k * b <= q * b
  BY Monotone
<1>5. k * b <= x => k <= q
  <2>1. k * b \in Nat /\ q * b \in Nat /\ (q + 1) * b = q * b + b
    OBVIOUS
  <2>2. k * b <= x => k * b < (q + 1) * b
    BY <2>1, <1>3
  <2>3. k * b < (q + 1) * b => k < q + 1
    BY Monotone
  <2> QED
    BY <2>2, <2>3
<1>6. k * b \in Nat /\ q * b \in Nat
  OBVIOUS
<1> QED
  BY <1>1, <1>3, <1>4, <1>5, <1>6

LEMMA CeilIs ==
  ASSUME NEW x \in Nat, NEW b \in Nat \ {0}, NEW k \in Nat
  PROVE  div_ceil(x, b) \in Nat /\ (div_ceil(x, b) <= k <=> x <= k * b)
<1>1. x + b - 1 \in Nat
  OBVIOUS
<1>2. div_ceil(x, b) = (x + b - 1) \div b
  BY DEF div_ceil
<1>3. (x + b - 1) \div b \in Nat /\ (k + 1 <= (x + b - 1) \div b <=> (k + 1) * b <= x + b - 1)
  BY <1>1, FloorIs
<1>4. (k + 1) * b = k * b + b /\ k * b \in Nat
  OBVIOUS
<1> QED
  BY <1>2, <1>3, <1>4

LEMMA NoWrap ==
  ASSUME NEW x \in Nat, NEW y \in Nat, x * y <= MaxInt
  PROVE  Times(x, y) = x * y
<1>1. MaxInt \in Nat
  BY HeatmapAssumption
<1>2. PICK p \in Nat : p = x * y
  OBVIOUS
<1>3. p + MaxInt + 1 \in 0..2 * (MaxInt + 1) - 1
  BY <1>1, <1>2
<1>4. (p + MaxInt + 1) % (2 * (MaxInt + 1)) = p + MaxInt + 1
  <2>1. PICK b \in Nat \ {0} : b = 2 * (MaxInt + 1)
    BY <1>1
  <2>2. PICK r \in 0..b - 1 : r = p + MaxInt + 1
    BY <1>3, <2>1
  <2>3. r % b = r
    BY <2>2
  <2> QED
    BY <2>1, <2>2, <2>3
<1> QED
  BY <1>1, <1>2, <1>4 DEF Times

-----------------------------------------------------------------------------
(* Which samples a row shows.                                              *)

LEMMA PictureIs ==
  ASSUME pic \in Pictures
  PROVE  /\ pic.first \in Nat /\ pic.count \in Nat /\ pic.height \in Nat
         /\ \A k \in pic.first..pic.first + pic.count - 1 : Value(k) \in Int \cup {NoValue}
         /\ pic.count * pic.height <= MaxInt \/ pic.height = 0
         /\ pic.type = "ORDINAL" \/ IsScale(pic.type, pic.domain)
<1>1. /\ {pic.first, pic.count, pic.height} \subseteq Nat /\ MaxInt \in Nat
      /\ \A k \in pic.first..pic.first + pic.count - 1 : pic.d[pic.order[k]] \in Int \cup {NoValue}
      /\ pic.count * pic.height + pic.height - 1 <= MaxInt
      /\ pic.type = "ORDINAL" \/ IsScale(pic.type, pic.domain)
  BY HeatmapAssumption
<1>2. PICK p \in Nat : p = pic.count * pic.height
  BY <1>1
<1> QED
  BY <1>1, <1>2 DEF Value

LEMMA TimesIs ==
  ASSUME pic \in Pictures, NEW t \in Nat
  PROVE  /\ t <= pic.count => Times(t, pic.height) = t * pic.height
         /\ t <= pic.height => Times(t, pic.count) = t * pic.count
<1>1. pic.count \in Nat /\ pic.height \in Nat /\ MaxInt \in Nat
      /\ (pic.count * pic.height <= MaxInt \/ pic.height = 0)
  BY PictureIs, HeatmapAssumption
<1> DEFINE C == pic.count  H == pic.height
<1>2. C \in Nat /\ H \in Nat /\ MaxInt \in Nat /\ C * H \in Nat /\ C * H = H * C
      /\ C * H <= MaxInt
  BY <1>1
<1> HIDE DEF C, H
<1>3. t <= C => t * H <= C * H
  BY <1>2, Monotone
<1>4. t <= H => t * C <= H * C
  BY <1>2, Monotone
<1>5. t * H \in Nat /\ t * C \in Nat
  BY <1>2
<1>6. t <= C => Times(t, H) = t * H
  BY <1>2, <1>3, <1>5, NoWrap
<1>7. t <= H => Times(t, C) = t * C
  BY <1>2, <1>4, <1>5, NoWrap
<1> QED
  BY <1>6, <1>7 DEF C, H

(* Sample t has the rows from the lower edge of the one before on.         *)
LEMMA SampleHasRows ==
  ASSUME pic \in Pictures, pic.height > pic.count, NEW t \in Nat, t < pic.count, NEW y \in Nat
  PROVE  y \in Times(t, pic.height) \div pic.count..(Times(t + 1, pic.height) \div pic.count) - 1
           <=> Shown(y) = {t}
<1> DEFINE C == pic.count  H == pic.height
<1>1. C \in Nat \ {0} /\ H \in Nat /\ H > C
  BY PictureIs
<1>2. Times(t, H) = t * H /\ Times(t + 1, H) = (t + 1) * H
  BY <1>1, TimesIs
<1>3. t * H \in Nat /\ (t + 1) * H \in Nat
  BY <1>1
<1>4. Shown(y) = {k \in 0..C - 1 : k * H < (y + 1) * C /\ (y + 1) * C <= (k + 1) * H}
  BY <1>1 DEF Shown
<1> HIDE DEF C, H
<1>5. (t * H) \div C \in Nat /\ (y + 1 <= (t * H) \div C <=> (y + 1) * C <= t * H)
  BY <1>1, <1>3, FloorIs
<1>6. ((t + 1) * H) \div C \in Nat /\ (y + 1 <= ((t + 1) * H) \div C <=> (y + 1) * C <= (t + 1) * H)
  BY <1>1, <1>3, FloorIs
<1>7. (y + 1) * C \in Nat
  BY <1>1
<1>8. y \in (t * H) \div C..(((t + 1) * H) \div C) - 1
        <=> t * H < (y + 1) * C /\ (y + 1) * C <= (t + 1) * H
  BY <1>3, <1>5, <1>6, <1>7
<1>9. t \in Shown(y) <=> t * H < (y + 1) * C /\ (y + 1) * C <= (t + 1) * H
  BY <1>4, <1>1 DEF C
<1>10. ASSUME NEW k \in Shown(y), t \in Shown(y) PROVE k = t
  <2>1. k \in Nat /\ k * H < (y + 1) * C /\ (y + 1) * C <= (k + 1) * H
        /\ k * H \in Nat /\ (k + 1) * H \in Nat
    BY <1>4, <1>1
  <2>2. k * H < (t + 1) * H /\ t * H < (k + 1) * H
    BY <2>1, <1>9, <1>10, <1>3, <1>7
  <2>3. k < t + 1 /\ t < k + 1
    BY <2>1, <2>2, <1>1, Monotone
  <2> QED
    BY <2>1, <2>3
<1> QED
  BY <1>2, <1>8, <1>9, <1>10 DEF C, H

(* Row t has the samples between two quotients rounded up.                 *)
LEMMA RowHasSamples ==
  ASSUME pic \in Pictures, pic.height <= pic.count, NEW t \in Nat, t < pic.height, NEW k \in Nat
  PROVE  /\ k \in Shown(t)
              <=> /\ div_ceil(Times(t, pic.count), pic.height) <= k
                  /\ k < div_ceil(Times(t + 1, pic.count), pic.height)
         /\ div_ceil(Times(t, pic.count), pic.height) \in Nat
         /\ div_ceil(Times(t + 1, pic.count), pic.height) \in Nat
<1> DEFINE C == pic.count  H == pic.height
<1>1. C \in Nat /\ H \in Nat \ {0} /\ ~ (H > C) /\ t + 1 <= H
  BY PictureIs
<1>2. Times(t, C) = t * C /\ Times(t + 1, C) = (t + 1) * C
  BY <1>1, TimesIs
<1>3. t * C \in Nat /\ (t + 1) * C \in Nat /\ k * H \in Nat /\ C * H = H * C /\ C * H \in Nat
  BY <1>1
<1>4. Shown(t) = {j \in 0..C - 1 : t * C <= j * H /\ j * H < (t + 1) * C}
  BY <1>1 DEF Shown
<1> HIDE DEF C, H
<1>5. div_ceil(t * C, H) \in Nat /\ (div_ceil(t * C, H) <= k <=> t * C <= k * H)
  BY <1>1, <1>3, CeilIs
<1>6. div_ceil((t + 1) * C, H) \in Nat /\ (div_ceil((t + 1) * C, H) <= k <=> (t + 1) * C <= k * H)
  BY <1>1, <1>3, CeilIs
<1>7. k * H < (t + 1) * C => k < C
  <2>1. (t + 1) * C <= H * C
    BY <1>1, Monotone
  <2>2. k * H < (t + 1) * C => k * H < C * H
    BY <2>1, <1>3
  <2> QED
    BY <2>2, <1>1, Monotone
<1>8. k \in Shown(t) <=> t * C <= k * H /\ k * H < (t + 1) * C
  BY <1>4, <1>7, <1>1
<1> QED
  BY <1>2, <1>3, <1>5, <1>6, <1>8 DEF C, H

(* Every sample has a row.                                                 *)
LEMMA EverySampleShown ==
  ASSUME pic \in Pictures, pic.height > 0
  PROVE  UNION {Shown(y) : y \in 0..pic.height - 1} = 0..pic.count - 1
<1> DEFINE C == pic.count  H == pic.height
<1>1. C \in Nat /\ H \in Nat \ {0}
  BY PictureIs
<1>2. \A y : Shown(y) \subseteq 0..C - 1
  BY DEF Shown
<1>3. ASSUME NEW k \in 0..C - 1 PROVE \E y \in 0..H - 1 : k \in Shown(y)
  <2>1. k \in Nat /\ C \in Nat \ {0} /\ k + 1 <= C /\ k * H \in Nat /\ (k + 1) * H \in Nat
        /\ (k + 1) * H = k * H + H /\ C * H \in Nat /\ C * H = H * C
    BY <1>1
  <2>2. CASE H > C
    <3> DEFINE q == ((k + 1) * H) \div C
    <3> HIDE DEF C, H
    <3>1. q \in Nat /\ q * C <= (k + 1) * H
      BY <2>1, FloorIs
    <3>2. ~ ((q + 1) * C <= (k + 1) * H)
      BY <2>1, <3>1, FloorIs
    <3>3. (q + 1) * C = q * C + C /\ q * C \in Nat
      BY <2>1, <3>1
    <3>4. k * H < q * C
      BY <2>1, <2>2, <3>2, <3>3, <1>1
    <3>5. (k + 1) * H <= C * H
      BY <2>1, <1>1, Monotone
    <3>6. q < H + 1
      <4>1. (H + 1) * C = H * C + C
        BY <1>1
      <4>2. q * C < (H + 1) * C
        BY <4>1, <3>1, <3>3, <3>5, <2>1
      <4> QED
        BY <4>2, <3>1, <1>1, Monotone
    <3>7. q # 0
      BY <3>4, <2>1
    <3> DEFINE y == q - 1
    <3>8. y \in 0..H - 1 /\ y + 1 = q
      BY <3>1, <3>6, <3>7, <1>1
    <3>9. k * H < (y + 1) * C /\ (y + 1) * C <= (k + 1) * H
      BY <3>8, <3>4, <3>1
    <3> HIDE DEF y
    <3> QED
      BY <3>8, <3>9, <2>2 DEF Shown, C, H
  <2>3. CASE ~ (H > C)
    <3> DEFINE y == (k * H) \div C
    <3> HIDE DEF C, H
    <3>1. y \in Nat /\ y * C <= k * H
      BY <2>1, FloorIs
    <3>2. ~ ((y + 1) * C <= k * H)
      BY <2>1, <3>1, FloorIs
    <3>3. (y + 1) * C \in Nat /\ y * C \in Nat
      BY <2>1, <3>1
    <3>4. y < H
      <4>1. (k + 1) * H <= C * H
        BY <2>1, <1>1, Monotone
      <4>2. y * C < H * C
        BY <4>1, <3>1, <3>3, <2>1, <1>1
      <4> QED
        BY <4>2, <3>1, <2>1, <1>1, Monotone
    <3>5. y \in 0..H - 1 /\ k * H < (y + 1) * C
      BY <3>1, <3>2, <3>3, <3>4, <2>1, <1>1
    <3> HIDE DEF y
    <3> QED
      BY <3>1, <3>5, <2>3 DEF Shown, C, H
  <2> QED
    BY <2>2, <2>3
<1> QED
  BY <1>2, <1>3

-----------------------------------------------------------------------------
(* Mixes.                                                                  *)

(* Samples that have values, of a picture with a scale.                    *)
IsSamples(S) == IsFiniteSet(S) /\ \A k \in S : Value(k) \in Int

LEMMA SumOfIs ==
  ASSUME NEW S, IsSamples(S)
  PROVE  /\ Summable([k \in S |-> Value(k)], S)
         /\ SumOf(S) = SumFunctionOnSet([k \in S |-> Value(k)], S)
BY DEF IsSamples, Summable, SumOf, SumFunction

LEMMA CountIs ==
  ASSUME NEW S, IsFiniteSet(S)
  PROVE  /\ Summable([k \in S |-> 1], S)
         /\ Cardinality(S) = SumFunctionOnSet([k \in S |-> 1], S)
<1> DEFINE f == [k \in S |-> 1]
<1>1. Summable(f, S) /\ \A k \in S : f[k] <= 1 /\ f[k] >= 1
  BY DEF Summable
<1> HIDE DEF f
<1>2. Cardinality(S) \in Nat /\ SumFunctionOnSet(f, S) \in Int
      /\ SumFunctionOnSet(f, S) <= 1 * Cardinality(S)
  BY <1>1, SumBelow
<1>3. SumFunctionOnSet(f, S) >= 1 * Cardinality(S)
  BY <1>1, SumAbove
<1>4. Cardinality(S) = SumFunctionOnSet(f, S)
  BY <1>2, <1>3
<1> QED
  BY <1>1, <1>4 DEF f

(* The region of a value is the part of the scale it is in.                *)
LEMMA RegionIs ==
  ASSUME IsScale(pic.type, pic.domain), NEW v \in Int
  PROVE  LET h == Len(pic.domain)  r == Region(v)
         IN /\ h \in 2..4 /\ r \in 0..h
            /\ r = 0 => v <= pic.domain[1]
            /\ r = h => v >= pic.domain[h]
            /\ r \in 1..h - 1 => pic.domain[r] < v /\ v <= pic.domain[r + 1] /\ v < pic.domain[h]
<1> DEFINE dom == pic.domain  h == Len(pic.domain)
<1>1. dom \in Seq(Int) /\ h \in 2..4 /\ \A j, k \in DOMAIN dom : j < k => dom[j] < dom[k]
  BY DEF IsScale
<1>2. DOMAIN dom = 1..h /\ dom \in [1..h -> Int]
  BY <1>1
<1>3. Region(v) = IF v >= dom[h] THEN h
                  ELSE IF v <= dom[1] THEN 0
                  ELSE IF h >= 4 /\ v > dom[3] THEN 3
                  ELSE IF h >= 3 /\ v > dom[2] THEN 2
                  ELSE 1
  BY DEF Region
<1> HIDE DEF dom, h
<1>4. CASE h = 2
  BY <1>1, <1>2, <1>3, <1>4 DEF dom, h
<1>5. CASE h = 3
  BY <1>1, <1>2, <1>3, <1>5 DEF dom, h
<1>6. CASE h = 4
  BY <1>1, <1>2, <1>3, <1>6 DEF dom, h
<1> QED
  BY <1>1, <1>4, <1>5, <1>6

(* What ColoursByRegion says of one part of a mix.                         *)
PartIsRight(r, part) ==
  LET c == part.color  n == part.count  sum == part.sum
      h == Len(pic.domain)
  IN /\ IF c.low < c.high
        THEN pic.domain[c.low] * n <= sum /\ sum <= pic.domain[c.high] * n
        ELSE IF c.low = 1 THEN sum <= pic.domain[1] * n
        ELSE c.high = h /\ sum >= pic.domain[h] * n
     /\ r = 0 => c.low = 1
     /\ r = h => c.high = h
     /\ r \in 1..h - 1 => c = Within(r)

PartOf(S) ==
  [ count |-> Cardinality(S), sum |-> SumOf(S), color |-> get_method(SumOf(S), Cardinality(S)) ]

LEMMA PartsAreRight ==
  ASSUME IsScale(pic.type, pic.domain), NEW S, IsSamples(S), S # {},
         NEW r, \A k \in S : Region(Value(k)) = r
  PROVE  PartOf(S) \in Part /\ PartIsRight(r, PartOf(S))
<1> DEFINE dom == pic.domain  h == Len(pic.domain)
           f == [k \in S |-> Value(k)]
<1>1. dom \in Seq(Int) /\ h \in 2..4 /\ (\A j, k \in DOMAIN dom : j < k => dom[j] < dom[k])
      /\ (pic.type = "LOG" => h = 2)
  BY DEF IsScale
<1>2. DOMAIN dom = 1..h /\ dom \in [1..h -> Int]
  BY <1>1
<1>3. /\ r \in 0..h
      /\ r = 0 => \A k \in S : Value(k) <= dom[1]
      /\ r = h => \A k \in S : Value(k) >= dom[h]
      /\ r \in 1..h - 1 => \A k \in S : /\ dom[r] + 1 <= Value(k) /\ Value(k) <= dom[r + 1]
                                        /\ Value(k) <= dom[h] - 1
  <2>1. \A k \in S : Value(k) \in Int
    BY DEF IsSamples
  <2>2. ASSUME NEW k \in S
        PROVE  /\ r \in 0..h
               /\ r = 0 => Value(k) <= dom[1]
               /\ r = h => Value(k) >= dom[h]
               /\ r \in 1..h - 1 => /\ dom[r] + 1 <= Value(k) /\ Value(k) <= dom[r + 1]
                                    /\ Value(k) <= dom[h] - 1
    <3>1. Value(k) \in Int /\ Region(Value(k)) = r
      BY <2>1
    <3>2. /\ r \in 0..h
          /\ r = 0 => Value(k) <= dom[1]
          /\ r = h => Value(k) >= dom[h]
          /\ r \in 1..h - 1 => dom[r] < Value(k) /\ Value(k) <= dom[r + 1] /\ Value(k) < dom[h]
      BY <3>1, RegionIs
    <3>3. r \in 1..h - 1 => dom[r] \in Int /\ dom[h] \in Int
      BY <1>1, <1>2
    <3> QED
      BY <3>1, <3>2, <3>3
  <2> QED
    BY <2>2
<1>4. Summable(f, S) /\ SumOf(S) = SumFunctionOnSet(f, S) /\ \A k \in S : f[k] = Value(k)
  BY SumOfIs
<1>5. PICK n \in Nat \ {0} : n = Cardinality(S)
  BY FS_CardinalityType, FS_EmptySet DEF IsSamples
<1>6. PICK s \in Int : s = SumOf(S)
  BY <1>4, SumIsInt
<1> HIDE DEF dom, h, f
<1>7. \A b \in Int : (\A k \in S : Value(k) <= b) => s <= b * n
  <2> SUFFICES ASSUME NEW b \in Int, \A k \in S : Value(k) <= b PROVE s <= b * n
    OBVIOUS
  <2>1. \A k \in S : f[k] <= b
    BY <1>4
  <2> QED
    BY <2>1, <1>4, <1>5, <1>6, SumBelow
<1>8. \A b \in Int : (\A k \in S : b <= Value(k)) => b * n <= s
  <2> SUFFICES ASSUME NEW b \in Int, \A k \in S : b <= Value(k) PROVE b * n <= s
    OBVIOUS
  <2>1. Summable(f, S) /\ \A k \in S : f[k] >= b
    <3>1. \A k \in S : Value(k) \in Int
      BY DEF IsSamples
    <3> QED
      BY <1>4, <3>1
  <2>2. SumFunctionOnSet(f, S) >= b * Cardinality(S)
    BY <2>1, SumAbove
  <2>3. b * n \in Int
    OBVIOUS
  <2> QED
    BY <2>2, <2>3, <1>4, <1>5, <1>6
(* The scale's stops, times n.                                             *)
<1> DEFINE e == [j \in 1..h |-> dom[j] * n]
<1>9. e \in [1..h -> Int] /\ \A j, k \in 1..h : j < k => e[j] < e[k]
  <2>1. ASSUME NEW j \in 1..h, NEW k \in 1..h, j < k PROVE dom[j] * n < dom[k] * n
    <3>1. dom[j] \in Int /\ dom[k] \in Int /\ dom[j] < dom[k]
      BY <2>1, <1>1, <1>2
    <3>2. PICK w \in Nat \ {0} : dom[k] = dom[j] + w
      BY <3>1, dom[k] - dom[j] \in Nat \ {0}
    <3>3. dom[k] * n = dom[j] * n + w * n /\ w * n \in Nat \ {0} /\ dom[j] * n \in Int
      BY <3>1, <3>2
    <3> QED
      BY <3>3
  <2>2. \A j \in 1..h : dom[j] * n \in Int
    BY <1>2
  <2> QED
    BY <2>1, <2>2
<1>10. \A j \in 1..h : dom[j] * n = e[j]
  OBVIOUS
<1> HIDE DEF e
<1>11. /\ r = 0 => s <= e[1]
       /\ r = h => e[h] <= s
       /\ r \in 1..h - 1 => e[r] < s /\ s <= e[r + 1] /\ s < e[h]
  <2>1. CASE r = 0
    BY <2>1, <1>1, <1>2, <1>3, <1>7, <1>10
  <2>2. CASE r = h
    BY <2>2, <1>1, <1>2, <1>3, <1>8, <1>10
  <2>3. CASE r \in 1..h - 1
    <3>1. dom[r] + 1 \in Int /\ dom[r + 1] \in Int /\ dom[h] - 1 \in Int /\ dom[r] \in Int /\ dom[h] \in Int
          /\ r \in 1..h /\ r + 1 \in 1..h /\ h \in 1..h
      BY <2>3, <1>1, <1>2
    <3>2. (dom[r] + 1) * n <= s /\ s <= dom[r + 1] * n /\ s <= (dom[h] - 1) * n
      BY <2>3, <3>1, <1>3, <1>7, <1>8
    <3>3. (dom[r] + 1) * n = e[r] + n /\ (dom[h] - 1) * n = e[h] - n /\ dom[r + 1] * n = e[r + 1]
          /\ e[r] \in Int /\ e[h] \in Int
      <4>1. e[r] = dom[r] * n /\ e[h] = dom[h] * n /\ e[r + 1] = dom[r + 1] * n
        BY <3>1, <1>10
      <4>2. PICK u \in Int : u = dom[r]
        BY <3>1
      <4>3. PICK v \in Int : v = dom[h]
        BY <3>1
      <4>4. (u + 1) * n = u * n + n /\ (v - 1) * n = v * n - n /\ u * n \in Int /\ v * n \in Int
        OBVIOUS
      <4> QED
        BY <4>1, <4>2, <4>3, <4>4
    <3> QED
      BY <3>2, <3>3
  <2> QED
    BY <2>1, <2>2, <2>3, <1>1
<1> DEFINE c == get_method(s, n)
<1>12. pic.type = "LOG" => c = IF s < e[1] THEN Stop(1) ELSE IF s > e[2] THEN Stop(2) ELSE Within(1)
  <2>1. pic.type = "LOG" => dom[1] * n = e[1] /\ dom[2] * n = e[2]
    BY <1>1, <1>10
  <2> QED
    BY <2>1 DEF get_method, get_color_log2, dom
<1>13. pic.type # "LOG" =>
         c = IF s >= e[h] THEN Stop(h)
             ELSE IF s <= e[1] THEN Stop(1)
             ELSE IF h >= 4 /\ s > e[3] THEN Within(3)
             ELSE IF h >= 3 /\ s > e[2] THEN Within(2)
             ELSE Within(1)
  <2>1. dom[1] * n = e[1] /\ dom[h] * n = e[h] /\ (h >= 3 => dom[2] * n = e[2]) /\ (h >= 4 => dom[3] * n = e[3])
    BY <1>1, <1>10
  <2> QED
    BY <2>1 DEF get_method, get_color_linear, dom, h
<1> HIDE DEF c
<1>14. /\ c \in [low : 1..h, high : 1..h]
       /\ IF c.low < c.high THEN e[c.low] <= s /\ s <= e[c.high]
          ELSE IF c.low = 1 THEN s <= e[1]
          ELSE c.high = h /\ s >= e[h]
       /\ r = 0 => c.low = 1
       /\ r = h => c.high = h
       /\ r \in 1..h - 1 => c = Within(r)
  <2>1. CASE pic.type = "LOG"
    BY <2>1, <1>1, <1>3, <1>9, <1>11, <1>12 DEF Stop, Within
  <2>2. CASE pic.type # "LOG"
    <3>1. CASE h = 2
      BY <3>1, <2>2, <1>3, <1>9, <1>11, <1>13 DEF Stop, Within
    <3>2. CASE h = 3
      BY <3>2, <2>2, <1>3, <1>9, <1>11, <1>13 DEF Stop, Within
    <3>3. CASE h = 4
      BY <3>3, <2>2, <1>3, <1>9, <1>11, <1>13 DEF Stop, Within
    <3> QED
      BY <3>1, <3>2, <3>3, <1>1
  <2> QED
    BY <2>1, <2>2
<1>15. PartOf(S) = [count |-> n, sum |-> s, color |-> c]
  BY <1>5, <1>6 DEF PartOf, c
<1>16. PartOf(S) \in Part
  BY <1>14, <1>15, <1>1 DEF Part
<1>17. PartIsRight(r, PartOf(S))
  <2>1. PartOf(S).color = c /\ PartOf(S).count = n /\ PartOf(S).sum = s
    BY <1>15
  <2>2. c.low \in 1..h /\ c.high \in 1..h /\ 1 \in 1..h /\ h \in 1..h
    BY <1>14, <1>1
  <2>3. dom[c.low] * n = e[c.low] /\ dom[c.high] * n = e[c.high] /\ dom[1] * n = e[1] /\ dom[h] * n = e[h]
    BY <2>2, <1>10
  <2> QED
    BY <2>1, <2>3, <1>14 DEF PartIsRight, dom, h
<1> QED
  BY <1>16, <1>17

(* The mix of samples has the parts of its regions, and is not grey.       *)
RegionsOf(S) == {Region(Value(k)) : k \in S}

LEMMA MixIs ==
  ASSUME IsScale(pic.type, pic.domain), NEW S, IsSamples(S)
  PROVE  /\ RegionsOf(S) \subseteq 0..4
         /\ S = {} => region_color_default(S) = Grey
         /\ S # {} =>
              /\ region_color_default(S) # Grey
              /\ region_color_default(S)
                   = [r \in RegionsOf(S) |-> PartOf({k \in S : Region(Value(k)) = r})]
<1> DEFINE h == Len(pic.domain)
           On(r) == {k \in S : Region(Value(k)) = r}
           tally == tally_domains(S)
           some == {r \in DOMAIN tally : tally[r].count > 0}
<1>1. h \in 2..4 /\ \A k \in S : Region(Value(k)) \in 0..h
  BY RegionIs DEF IsSamples, IsScale
<1>0. RegionsOf(S) \subseteq 0..4
  <2> HIDE DEF h
  <2>1. 0..h \subseteq 0..4
    BY <1>1
  <2> QED
    BY <1>1, <2>1 DEF RegionsOf
<1>2. \A r : IsFiniteSet(On(r)) /\ IsSamples(On(r))
  BY FS_Subset DEF IsSamples
<1>3. tally = [r \in 0..h |-> [count |-> Cardinality(On(r)), sum |-> SumOf(On(r))]]
  BY DEF tally_domains
<1>4. some = RegionsOf(S)
  <2>1. ASSUME NEW r \in 0..h PROVE tally[r].count > 0 <=> r \in RegionsOf(S)
    <3>1. tally[r].count = Cardinality(On(r))
      BY <1>3
    <3>2. Cardinality(On(r)) \in Nat /\ (Cardinality(On(r)) = 0 <=> On(r) = {})
      BY <1>2, FS_CardinalityType, FS_EmptySet
    <3>3. On(r) # {} <=> r \in RegionsOf(S)
      BY DEF RegionsOf
    <3> QED
      BY <3>1, <3>2, <3>3
  <2>2. DOMAIN tally = 0..h
    BY <1>3
  <2>3. RegionsOf(S) \subseteq 0..h
    BY <1>1 DEF RegionsOf
  <2> QED
    BY <2>1, <2>2, <2>3
<1>5. region_color_default(S)
        = IF some = {} THEN Grey
          ELSE [r \in some |->
                 [ count |-> tally[r].count, sum |-> tally[r].sum,
                   color |-> get_method(tally[r].sum, tally[r].count) ]]
  BY DEF region_color_default
<1>6. CASE S = {}
  BY <1>4, <1>5, <1>6 DEF RegionsOf
<1>7. CASE S # {}
  <2>1. some # {}
    BY <1>4, <1>7 DEF RegionsOf
  <2>2. \A r \in some : [ count |-> tally[r].count, sum |-> tally[r].sum,
                          color |-> get_method(tally[r].sum, tally[r].count) ] = PartOf(On(r))
    BY <1>3 DEF PartOf
  <2>3. region_color_default(S) = [r \in some |-> PartOf(On(r))]
    <3> HIDE DEF tally, some, On
    <3> QED
      BY <1>5, <2>1, <2>2
  <2>4. \A r \in RegionsOf(S) : PartOf(On(r)) \in Part
    <3> SUFFICES ASSUME NEW r \in RegionsOf(S) PROVE PartOf(On(r)) \in Part
      OBVIOUS
    <3>1. On(r) # {} /\ IsSamples(On(r)) /\ \A k \in On(r) : Region(Value(k)) = r
      BY <1>2 DEF RegionsOf
    <3> HIDE DEF On
    <3> QED
      BY <3>1, PartsAreRight
  <2>5. RegionsOf(S) \in SUBSET (0..4)
    BY <1>0
  <2>6. Grey \notin [RegionsOf(S) -> Part]
    BY <2>5, HeatmapAssumption
  <2>7. region_color_default(S) = [r \in RegionsOf(S) |-> PartOf(On(r))]
    <3> HIDE DEF some, On
    <3> QED
      BY <2>3, <1>4
  <2>8. [r \in RegionsOf(S) |-> PartOf(On(r))] \in [RegionsOf(S) -> Part]
    <3> HIDE DEF On
    <3> QED
      BY <2>4
  <2> QED
    BY <1>0, <2>6, <2>7, <2>8, <1>7
<1> QED
  BY <1>0, <1>6, <1>7

(* All samples are counted once, each with its value.                      *)
LEMMA MixHasAll ==
  ASSUME IsScale(pic.type, pic.domain), NEW S, IsSamples(S), S # {},
         NEW c, c = region_color_default(S)
  PROVE  /\ SumFunction([r \in DOMAIN c |-> c[r].count]) = Cardinality(S)
         /\ SumFunction([r \in DOMAIN c |-> c[r].sum]) = SumOf(S)
<1> DEFINE R == RegionsOf(S)
           On(r) == {k \in S : Region(Value(k)) = r}
           ones == [k \in S |-> 1]
           values == [k \in S |-> Value(k)]
           g == [k \in S |-> Region(Value(k))]
           counts == [r \in R |-> c[r].count]
           sums == [r \in R |-> c[r].sum]
<1>1. c = [r \in R |-> PartOf(On(r))]
  BY MixIs
<1>2. \A r \in R : c[r].count = Cardinality(On(r)) /\ c[r].sum = SumOf(On(r))
  BY <1>1 DEF PartOf
<1>3. IsFiniteSet(R)
  <2>1. RegionsOf(S) \subseteq 0..4
    BY MixIs
  <2>2. IsFiniteSet(0..4)
    <3>1. PICK n \in Int : n = 4
      OBVIOUS
    <3>2. IsFiniteSet(0..n)
      BY RangeIsFinite
    <3> QED
      BY <3>1, <3>2
  <2> HIDE DEF R
  <2> QED
    BY <2>1, <2>2, FS_Subset DEF R
<1>4. \A r : IsFiniteSet(On(r)) /\ IsSamples(On(r))
  BY FS_Subset DEF IsSamples
<1>5. IsFiniteSet(S) /\ Summable(ones, S) /\ Cardinality(S) = SumFunctionOnSet(ones, S)
  BY CountIs DEF IsSamples
<1>6. Summable(values, S) /\ SumOf(S) = SumFunctionOnSet(values, S)
  BY SumOfIs
<1>7. \A r : On(r) = {k \in S : g[k] = r}
  OBVIOUS
<1>8. {k \in S : g[k] \in R} = S
  BY DEF RegionsOf
<1>9. ASSUME NEW r \in R PROVE counts[r] = SumFunctionOnSet(ones, {k \in S : g[k] = r})
  <2> DEFINE T == On(r)
  <2>1. T \in SUBSET S /\ IsFiniteSet(T)
    BY <1>4
  <2>2. Summable([k \in T |-> 1], T) /\ Cardinality(T) = SumFunctionOnSet([k \in T |-> 1], T)
    <3> HIDE DEF T
    <3> QED
      BY <2>1, CountIs
  <2>3. \A k \in T : ones[k] = [j \in T |-> 1][k]
    BY <2>1
  <2>4. SumFunctionOnSet(ones, T) = SumFunctionOnSet([k \in T |-> 1], T)
    <3> HIDE DEF T, ones
    <3> QED
      BY <2>2, <2>3, SumSame
  <2>5. counts[r] = Cardinality(T)
    BY <1>2
  <2>6. T = {k \in S : g[k] = r}
    BY <1>7
  <2> HIDE DEF T, counts, g, ones
  <2> QED
    BY <2>2, <2>4, <2>5, <2>6
<1>10. ASSUME NEW r \in R PROVE sums[r] = SumFunctionOnSet(values, {k \in S : g[k] = r})
  <2> DEFINE T == On(r)
  <2>1. T \in SUBSET S /\ IsSamples(T)
    BY <1>4
  <2>2. Summable([k \in T |-> Value(k)], T) /\ SumOf(T) = SumFunctionOnSet([k \in T |-> Value(k)], T)
    <3> HIDE DEF T
    <3> QED
      BY <2>1, SumOfIs
  <2>3. \A k \in T : values[k] = [j \in T |-> Value(j)][k]
    BY <2>1
  <2>4. SumFunctionOnSet(values, T) = SumFunctionOnSet([k \in T |-> Value(k)], T)
    <3> HIDE DEF T, values
    <3> QED
      BY <2>2, <2>3, SumSame
  <2>5. sums[r] = SumOf(T)
    BY <1>2
  <2>6. T = {k \in S : g[k] = r}
    BY <1>7
  <2> HIDE DEF T, sums, g, values
  <2> QED
    BY <2>2, <2>4, <2>5, <2>6
<1>11. SumFunctionOnSet(counts, R) = Cardinality(S) /\ SumFunctionOnSet(sums, R) = SumOf(S)
  <2>1. SumsParts(counts, R, ones, S, g) /\ SumsParts(sums, R, values, S, g)
    <3> HIDE DEF counts, sums, ones, values, g, R
    <3> QED
      BY <1>9, <1>10 DEF SumsParts
  <2> HIDE DEF counts, sums, ones, values, g, R
  <2>2. SumFunctionOnSet(counts, R) = SumFunctionOnSet(ones, S)
    BY <2>1, <1>3, <1>5, <1>8, SumByParts
  <2>3. SumFunctionOnSet(sums, R) = SumFunctionOnSet(values, S)
    BY <2>1, <1>3, <1>6, <1>8, SumByParts
  <2> QED
    BY <2>2, <2>3, <1>5, <1>6
<1>12. DOMAIN c = R /\ DOMAIN counts = R /\ DOMAIN sums = R
  BY <1>1
<1>13. SumFunction(counts) = SumFunctionOnSet(counts, R) /\ SumFunction(sums) = SumFunctionOnSet(sums, R)
  <2> HIDE DEF counts, sums, R
  <2> QED
    BY <1>12 DEF SumFunction
<1>14. [r \in DOMAIN c |-> c[r].count] = counts /\ [r \in DOMAIN c |-> c[r].sum] = sums
  BY <1>12
<1> QED
  <2> HIDE DEF counts, sums, R
  <2> QED
    BY <1>11, <1>13, <1>14

LEMMA MixIsRight ==
  ASSUME IsScale(pic.type, pic.domain), NEW S, IsSamples(S), S # {},
         NEW c, c = region_color_default(S), NEW r \in DOMAIN c
  PROVE  PartIsRight(r, c[r])
<1> DEFINE T == {k \in S : Region(Value(k)) = r}
<1>1. c = [q \in RegionsOf(S) |-> PartOf({k \in S : Region(Value(k)) = q})]
  BY MixIs
<1>2. r \in RegionsOf(S) /\ c[r] = PartOf(T)
  BY <1>1
<1>3. T # {} /\ IsSamples(T) /\ \A k \in T : Region(Value(k)) = r
  BY <1>2, FS_Subset DEF RegionsOf, IsSamples
<1> HIDE DEF T
<1> QED
  BY <1>2, <1>3, PartsAreRight

-----------------------------------------------------------------------------
(* The image.                                                              *)

(* How many rows are drawn in t turns.                                     *)
RowsIn(t) ==
  IF pic.height > pic.count THEN IF t = 0 THEN 0 ELSE (t * pic.height) \div pic.count ELSE t

(* The colour of a pixel of the element in a row that is drawn.            *)
IsColour(y, c) ==
  LET S == WithValue(y)
  IN IF S = {} THEN c = Grey
     ELSE IF pic.type = "ORDINAL" THEN y \in ended \/ \E k \in S : c = get_color_ordinal(Value(k))
     ELSE c = region_color_default(S)

Inside(x) == x \in Elstart..Elstart + Elsize - 1

LastTurn == IF pic.height > pic.count THEN pic.count ELSE pic.height

HeatmapInv ==
  /\ pic \in Pictures /\ turn \in 0..LastTurn
  /\ DOMAIN img = 0..Width * pic.height - 1
  /\ img = [p \in DOMAIN img |-> img[p]]
  /\ \A y \in 0..pic.height - 1, x \in 0..Width - 1 :
       IF Inside(x) /\ y < RowsIn(turn) THEN IsColour(y, img[y * Width + x])
       ELSE img[y * Width + x] = Grey

LEMMA WithValueIs ==
  ASSUME pic \in Pictures, NEW y
  PROVE  IsSamples(WithValue(y))
<1>1. pic.first \in Nat /\ pic.count \in Nat
      /\ \A k \in pic.first..pic.first + pic.count - 1 : Value(k) \in Int \cup {NoValue}
  BY PictureIs
<1>2. IsFiniteSet(pic.first..pic.first + pic.count - 1)
  <2>1. pic.first \in Int /\ pic.first + pic.count - 1 \in Int
    BY <1>1
  <2> QED
    BY <2>1, RangeIsFinite
<1>3. WithValue(y) \subseteq pic.first..pic.first + pic.count - 1
      /\ \A k \in WithValue(y) : Value(k) # NoValue
  BY DEF WithValue
<1>4. IsFiniteSet(WithValue(y))
  BY <1>2, <1>3, FS_Subset
<1> QED
  BY <1>1, <1>3, <1>4 DEF IsSamples

(* A place in the image is one row and one column.                         *)
LEMMA PlaceIs ==
  ASSUME NEW H \in Nat
  PROVE  /\ \A y \in 0..H - 1, x \in 0..Width - 1 : y * Width + x \in 0..Width * H - 1
         /\ \A p \in 0..Width * H - 1 : \E y \in 0..H - 1, x \in 0..Width - 1 : p = y * Width + x
         /\ \A y \in Nat, z \in Nat, x \in 0..Width - 1, w \in 0..Width - 1 :
              y * Width + x = z * Width + w => y = z /\ x = w
<1>1. Width \in Nat
  BY HeatmapAssumption
<1>2. ASSUME NEW y \in 0..H - 1, NEW x \in 0..Width - 1 PROVE y * Width + x \in 0..Width * H - 1
  <2>1. (y + 1) * Width <= H * Width
    BY <1>1, Monotone
  <2>2. (y + 1) * Width = y * Width + Width /\ y * Width \in Nat /\ H * Width = Width * H /\ H * Width \in Nat
    BY <1>1
  <2> QED
    BY <2>1, <2>2, <1>1
<1>3. ASSUME NEW p \in 0..Width * H - 1
      PROVE  \E y \in 0..H - 1, x \in 0..Width - 1 : p = y * Width + x
  <2>1. Width * H \in Nat /\ p \in Nat /\ p < Width * H
    BY <1>1
  <2>2. Width # 0
    BY <2>1
  <2>3. PICK y \in Nat : y = p \div Width
    BY <2>1, <2>2, <1>1, Division
  <2>4. PICK x \in 0..Width - 1 : x = p % Width
    BY <2>1, <2>2, <1>1, Division
  <2>5. p = Width * y + x
    BY <2>1, <2>2, <2>3, <2>4, <1>1, Division
  <2>6. Width * y = y * Width /\ y * Width \in Nat /\ H * Width = Width * H
    BY <1>1
  <2>7. y < H
    <3>1. y * Width < H * Width
      BY <2>1, <2>5, <2>6
    <3> QED
      BY <3>1, <1>1, Monotone
  <2> QED
    BY <2>5, <2>6, <2>7
<1>4. ASSUME NEW y \in Nat, NEW z \in Nat, NEW x \in 0..Width - 1, NEW w \in 0..Width - 1,
             y * Width + x = z * Width + w
      PROVE  y = z /\ x = w
  <2>1. Width \in Nat \ {0}
    BY <1>1
  <2>2. (Width * y + x) \div Width = y /\ (Width * z + w) \div Width = z
    BY <2>1, Quotient
  <2>3. y * Width = Width * y /\ z * Width = Width * z /\ y * Width \in Nat
    BY <1>1
  <2>4. y = z
    BY <2>2, <2>3, <1>4
  <2> QED
    BY <2>3, <2>4, <1>4
<1> QED
  BY <1>2, <1>3, <1>4

(* What depends on the picture alone is kept.                              *)
LEMMA SamePicture ==
  ASSUME pic' = pic
  PROVE  /\ \A y : WithValue(y)' = WithValue(y)
         /\ \A S : region_color_default(S)' = region_color_default(S)
         /\ \A k : Value(k)' = Value(k)
         /\ \A t : RowsIn(t)' = RowsIn(t)
         /\ LastTurn' = LastTurn
<1>1. \A k : Value(k)' = Value(k)
  BY DEF Value
<1>2. \A y : WithValue(y)' = WithValue(y)
  BY <1>1 DEF WithValue, Shown
<1>3. ASSUME NEW S PROVE region_color_default(S)' = region_color_default(S)
  <2>1. \A v : Region(v)' = Region(v)
    BY DEF Region
  <2>2. \A T : SumOf(T)' = SumOf(T)
    BY <1>1, Zenon DEF SumOf
  <2>3. tally_domains(S)' = tally_domains(S)
    BY <1>1, <2>1, <2>2, Zenon DEF tally_domains
  <2>4. \A sum, c : get_method(sum, c)' = get_method(sum, c)
    BY Zenon DEF get_method
  <2> QED
    BY <2>3, <2>4, Zenon DEF region_color_default
<1>4. \A t : RowsIn(t)' = RowsIn(t)
  BY DEF RowsIn
<1>5. LastTurn' = LastTurn
  BY DEF LastTurn
<1> QED
  BY <1>1, <1>2, <1>3, <1>4, <1>5

(* Rows a to b - 1 are filled with the colour of the samples they show.    *)
LEMMA FillKeeps ==
  ASSUME HeatmapInv, NEW start, NEW end, NEW ry \in Nat, NEW rheight \in Int,
         Fill(start, end, ry, rheight), pic' = pic, turn' = turn + 1, turn + 1 <= LastTurn,
         ry = RowsIn(turn), RowsIn(turn + 1) = ry + rheight, rheight >= 0,
         \A y \in 0..pic.height - 1 : y \in ry..ry + rheight - 1 => WithValue(y) = Values(start, end)
  PROVE  HeatmapInv'
<1> DEFINE H == pic.height
           S == Values(start, end)
           O == pic.type = "ORDINAL"
<1>1. /\ pic \in Pictures /\ turn \in 0..LastTurn
      /\ DOMAIN img = 0..Width * H - 1 /\ img = [p \in DOMAIN img |-> img[p]]
      /\ \A y \in 0..H - 1, x \in 0..Width - 1 :
           IF Inside(x) /\ y < RowsIn(turn) THEN IsColour(y, img[y * Width + x])
           ELSE img[y * Width + x] = Grey
  BY DEF HeatmapInv
<1>2. PICK c \in IF O THEN region_color_ordinal(S)
                  ELSE {[color |-> region_color_default(S), end |-> FALSE]} :
        /\ img' = IF c.color = Grey THEN img ELSE fill_region(ry, rheight, c.color)
        /\ ended' = IF c.end THEN ended \cup (ry..ry + rheight - 1) ELSE ended
  BY DEF Fill
<1>3. H \in Nat /\ Width \in Nat /\ Elstart \in Nat /\ Elsize \in Nat /\ Elstart + Elsize <= Width
  BY <1>1, PictureIs, HeatmapAssumption
(* The colour chosen is one that the rows may have.                        *)
<1>4. /\ c.end \in BOOLEAN
      /\ IF S = {} THEN c.color = Grey /\ ~ c.end
         ELSE IF O THEN c.end \/ \E k \in S : c.color = get_color_ordinal(Value(k))
         ELSE c.color = region_color_default(S) /\ ~ c.end
  <2>1. CASE O /\ S = {}
    <3>1. c \in {[color |-> Grey, end |-> FALSE]}
      BY <1>2, <2>1 DEF region_color_ordinal
    <3>2. c.color = Grey /\ c.end = FALSE
      BY <3>1
    <3> QED
      BY <3>2, <2>1
  <2>2. CASE O /\ S # {}
    <3>1. c \in {[color |-> get_color_ordinal(Value(k)), end |-> FALSE] : k \in S}
                 \cup [color : 0..Colors - 1, end : {TRUE}]
      BY <1>2, <2>2 DEF region_color_ordinal
    <3>2. CASE c \in [color : 0..Colors - 1, end : {TRUE}]
      BY <3>2, <2>2
    <3>3. CASE c \in {[color |-> get_color_ordinal(Value(k)), end |-> FALSE] : k \in S}
      <4>1. PICK k \in S : c = [color |-> get_color_ordinal(Value(k)), end |-> FALSE]
        BY <3>3
      <4>2. c.color = get_color_ordinal(Value(k)) /\ c.end = FALSE
        BY <4>1
      <4> QED
        BY <4>2, <2>2
    <3> QED
      BY <3>1, <3>2, <3>3
  <2>3. CASE ~ O
    <3>1. c.color = region_color_default(S) /\ c.end = FALSE
      BY <1>2, <2>3
    <3>2. S = {} => region_color_default(S) = Grey
      <4>1. IsScale(pic.type, pic.domain)
        BY <1>1, <2>3, PictureIs
      <4>2. IsSamples({})
        BY FS_EmptySet DEF IsSamples
      <4> QED
        BY <4>1, <4>2, MixIs
    <3> QED
      BY <3>1, <3>2, <2>3
  <2> QED
    BY <2>1, <2>2, <2>3
<1>5. \A y \in 0..H - 1, x \in 0..Width - 1 :
        img'[y * Width + x] = IF Inside(x) /\ y \in ry..ry + rheight - 1 /\ c.color # Grey
                              THEN c.color ELSE img[y * Width + x]
  <2>1. CASE c.color = Grey
    BY <1>2, <2>1
  <2>2. CASE c.color # Grey
    <3> SUFFICES ASSUME NEW y \in 0..H - 1, NEW x \in 0..Width - 1
                 PROVE  img'[y * Width + x]
                          = IF Inside(x) /\ y \in ry..ry + rheight - 1 THEN c.color
                            ELSE img[y * Width + x]
      BY <2>2
    <3> DEFINE p == y * Width + x
               Filled(q) == \E z \in ry..ry + rheight - 1 :
                              q \in z * Width + Elstart..z * Width + Elstart + Elsize - 1
    <3>1. p \in DOMAIN img
      BY <1>1, <1>3, PlaceIs
    <3>2. img' = [q \in DOMAIN img |-> IF Filled(q) THEN c.color ELSE img[q]]
      BY <1>2, <2>2 DEF fill_region
    <3>3. Filled(p) <=> Inside(x) /\ y \in ry..ry + rheight - 1
      <4>1. y \in Nat /\ y * Width \in Nat
        BY <1>3
      <4>2. ASSUME NEW z \in ry..ry + rheight - 1,
                   p \in z * Width + Elstart..z * Width + Elstart + Elsize - 1
            PROVE  z = y /\ Inside(x)
        <5>1. z \in Nat /\ z * Width \in Nat
          BY <1>3
        <5>2. PICK w \in 0..Width - 1 : p = z * Width + w /\ Inside(w)
          <6> DEFINE w == p - z * Width
          <6>1. w \in Elstart..Elstart + Elsize - 1 /\ p = z * Width + w
            BY <4>2, <5>1, <1>3, <4>1
          <6> HIDE DEF w
          <6> QED
            BY <6>1, <1>3 DEF Inside
        <5>3. y * Width + x = z * Width + w
          BY <5>2
        <5>4. y = z /\ x = w
          BY <4>1, <5>1, <5>3, <1>3, PlaceIs
        <5> QED
          BY <5>2, <5>4
      <4>3. Inside(x) => p \in y * Width + Elstart..y * Width + Elstart + Elsize - 1
        BY <4>1, <1>3 DEF Inside
      <4> QED
        BY <4>2, <4>3
    <3> HIDE DEF Filled, p
    <3>4. img'[p] = IF Filled(p) THEN c.color ELSE img[p]
      BY <3>1, <3>2
    <3> QED
      BY <3>3, <3>4 DEF p
  <2> QED
    BY <2>1, <2>2
<1>6. DOMAIN img' = DOMAIN img /\ img' = [p \in DOMAIN img' |-> img'[p]]
  <2>1. CASE c.color = Grey
    BY <2>1, <1>1, <1>2
  <2>2. CASE c.color # Grey
    BY <2>2, <1>2 DEF fill_region
  <2> QED
    BY <2>1, <2>2
<1>7. /\ \A y : y \in ended => y \in ended'
      /\ \A y \in ry..ry + rheight - 1 : c.end => y \in ended'
  BY <1>2
<1>8. ASSUME NEW y \in 0..H - 1, NEW x \in 0..Width - 1
      PROVE  IF Inside(x) /\ y < ry + rheight THEN IsColour(y, img[y * Width + x])'
             ELSE img'[y * Width + x] = Grey
  <2> DEFINE p == y * Width + x
  <2>1. img'[p] = IF Inside(x) /\ y \in ry..ry + rheight - 1 /\ c.color # Grey THEN c.color ELSE img[p]
    BY <1>5
  <2>2. IF Inside(x) /\ y < ry THEN IsColour(y, img[p]) ELSE img[p] = Grey
    BY <1>1
  <2>3. IsColour(y, img[p])'
          = IF WithValue(y) = {} THEN img'[p] = Grey
            ELSE IF O THEN y \in ended' \/ \E k \in WithValue(y) : img'[p] = get_color_ordinal(Value(k))
            ELSE img'[p] = region_color_default(WithValue(y))
    BY SamePicture DEF IsColour
  <2> HIDE DEF p
  <2>4. CASE Inside(x) /\ y < ry
    <3>1. img'[p] = img[p]
      BY <2>1, <2>4
    <3>2. IsColour(y, img[p])
      BY <2>2, <2>4
    <3>3. IsColour(y, img[p])'
      BY <2>3, <3>1, <3>2, <1>7 DEF IsColour
    <3> QED
      BY <3>3, <2>4 DEF p
  <2>5. CASE Inside(x) /\ y \in ry..ry + rheight - 1
    <3>1. WithValue(y) = S
      BY <2>5
    <3>2. img[p] = Grey
      BY <2>2, <2>5
    <3>3. img'[p] = c.color
      BY <2>1, <2>5, <3>2
    <3>4. IsColour(y, img[p])'
      <4>1. CASE S = {} \/ ~ O
        BY <4>1, <2>3, <3>1, <3>3, <1>4
      <4>2. CASE S # {} /\ O /\ c.end
        <5>1. y \in ended'
          BY <4>2, <1>7, <2>5
        <5> QED
          BY <4>2, <5>1, <2>3, <3>1
      <4>3. CASE S # {} /\ O /\ ~ c.end
        <5>1. PICK k \in S : c.color = get_color_ordinal(Value(k))
          BY <4>3, <1>4
        <5>2. \E j \in S : c.color = get_color_ordinal(Value(j))
          BY <5>1
        <5> QED
          BY <4>3, <5>2, <2>3, <3>1, <3>3
      <4> QED
        BY <4>1, <4>2, <4>3, <1>4
    <3> QED
      BY <3>4, <2>5 DEF p
  <2>6. CASE ~ (Inside(x) /\ y < ry + rheight)
    BY <2>1, <2>2, <2>6 DEF p
  <2> QED
    BY <2>4, <2>5, <2>6
<1>9. /\ pic' \in Pictures /\ turn' \in 0..LastTurn' /\ RowsIn(turn)' = ry + rheight
      /\ DOMAIN img' = 0..Width * pic'.height - 1
  <2>1. turn' \in 0..LastTurn'
    <3>1. LastTurn' = LastTurn
      BY SamePicture
    <3> QED
      BY <3>1, <1>1
  <2>2. RowsIn(turn)' = RowsIn(turn + 1)
    BY DEF RowsIn
  <2> QED
    BY <2>1, <2>2, <1>1, <1>6
<1> QED
  BY <1>6, <1>7, <1>8, <1>9 DEF HeatmapInv, Inside
LEMMA FirstTurn ==
  ASSUME HeatmapInit
  PROVE  HeatmapInv
<1> DEFINE H == pic.height
<1>1. pic \in Pictures /\ turn = 0
      /\ img = [p \in 0..Width * H - 1 |-> Grey]
  BY DEF HeatmapInit
<1>2. H \in Nat /\ pic.count \in Nat
  BY <1>1, PictureIs
<1>3. RowsIn(turn) = 0 /\ turn \in 0..LastTurn
  BY <1>1, <1>2 DEF RowsIn, LastTurn
<1> HIDE DEF H
<1>4. ASSUME NEW y \in 0..H - 1, NEW x \in 0..Width - 1 PROVE img[y * Width + x] = Grey
  <2>1. y * Width + x \in 0..Width * H - 1
    BY <1>2, PlaceIs
  <2> QED
    BY <1>1, <2>1
<1>5. \A y \in 0..H - 1 : ~ y < RowsIn(turn)
  BY <1>2, <1>3
<1> QED
  BY <1>1, <1>3, <1>4, <1>5 DEF HeatmapInv, H

(* Sample turn is drawn in the rows that show it alone.                    *)
LEMMA SamplesStep ==
  ASSUME HeatmapInv, project_samples
  PROVE  HeatmapInv'
<1> DEFINE C == pic.count  H == pic.height  F == pic.first
           ry == Times(turn, H) \div C
           rnext == Times(turn + 1, H) \div C
<1>1. /\ pic \in Pictures /\ turn \in 0..LastTurn
      /\ H > C /\ turn < C
      /\ Fill(F + turn, F + turn + 1, ry, rnext - ry)
      /\ turn' = turn + 1 /\ pic' = pic
  BY DEF HeatmapInv, project_samples
<1>2. C \in Nat /\ H \in Nat /\ F \in Nat
  BY <1>1, PictureIs
<1>3. turn \in Nat /\ C \in Nat \ {0} /\ turn + 1 <= LastTurn
  BY <1>1, <1>2 DEF LastTurn
<1>4. Times(turn, H) = turn * H /\ Times(turn + 1, H) = (turn + 1) * H
  BY <1>1, <1>2, <1>3, TimesIs
<1>5. ry \in Nat /\ rnext \in Nat /\ ry <= rnext
  <2>1. turn * H \in Nat /\ (turn + 1) * H \in Nat /\ turn * H <= (turn + 1) * H
    BY <1>2, <1>3, Monotone
  <2> DEFINE u == turn * H  v == (turn + 1) * H
  <2> HIDE DEF u, v
  <2>2. u \in Nat /\ v \in Nat /\ u <= v /\ ry = u \div C /\ rnext = v \div C
    BY <2>1, <1>4 DEF u, v
  <2> HIDE DEF ry, rnext, C
  <2>3. ry \in Nat /\ rnext \in Nat
    BY <2>2, <1>3, FloorIs
  <2>4. ry * C <= u
    BY <2>2, <2>3, <1>3, FloorIs
  <2>5. ry * C \in Nat
    BY <2>3, <1>3
  <2>6. ry * C <= v
    BY <2>2, <2>4, <2>5
  <2>7. ry <= rnext
    BY <2>2, <2>3, <2>6, <1>3, FloorIs
  <2> QED
    BY <2>3, <2>7
<1>6. RowsIn(turn) = ry
  <2>1. CASE turn = 0
    <3>1. 0 * H = 0 /\ Times(turn, H) = 0
      BY <2>1, <1>4, <1>2
    <3>2. 0 \div C \in Nat /\ (1 <= 0 \div C <=> 1 * C <= 0)
      BY <1>3, FloorIs
    <3>3. ry = 0
      BY <3>1, <3>2, <1>3
    <3> QED
      BY <2>1, <3>3, <1>1 DEF RowsIn
  <2>2. CASE turn # 0
    BY <2>2, <1>1, <1>4 DEF RowsIn
  <2> QED
    BY <2>1, <2>2
<1>7. RowsIn(turn + 1) = ry + (rnext - ry)
  <2>1. turn + 1 # 0 /\ rnext = ry + (rnext - ry)
    BY <1>3, <1>5
  <2>2. RowsIn(turn + 1) = rnext
    BY <2>1, <1>1, <1>4 DEF RowsIn
  <2> QED
    BY <2>1, <2>2
<1>8. ASSUME NEW y \in 0..H - 1, y \in ry..ry + (rnext - ry) - 1
      PROVE  WithValue(y) = Values(F + turn, F + turn + 1)
  <2>1. y \in Nat /\ y \in ry..rnext - 1
    BY <1>8, <1>5, <1>2
  <2>2. Shown(y) = {turn}
    BY <2>1, <1>1, <1>3, SampleHasRows
  <2>3. \A k : k \in F..F + C - 1 /\ k - F \in {turn} <=> k \in F + turn..(F + turn + 1) - 1
    BY <1>1, <1>2, <1>3
  <2> DEFINE A == F..F + C - 1  B == F + turn..(F + turn + 1) - 1
  <2>4. WithValue(y) = {k \in A : k - F \in {turn} /\ Value(k) # NoValue}
    BY <2>2 DEF WithValue
  <2>5. Values(F + turn, F + turn + 1) = {k \in B : Value(k) # NoValue}
    BY DEF Values
  <2>6. \A k : k \in A /\ k - F \in {turn} <=> k \in B
    BY <2>3
  <2> HIDE DEF A, B
  <2>7. {k \in A : k - F \in {turn} /\ Value(k) # NoValue} = {k \in B : Value(k) # NoValue}
    BY <2>6, Zenon
  <2> QED
    BY <2>4, <2>5, <2>7, Zenon
<1> HIDE DEF ry, rnext, C, F
<1>9. rnext - ry \in Int /\ rnext - ry >= 0
  BY <1>5
<1> QED
  BY <1>1, <1>3, <1>5, <1>6, <1>7, <1>8, <1>9, FillKeeps DEF H

(* Row turn is drawn of the samples it shows.                              *)
LEMMA PixelsStep ==
  ASSUME HeatmapInv, project_pixels
  PROVE  HeatmapInv'
<1> DEFINE C == pic.count  H == pic.height  F == pic.first
           rstart == div_ceil(Times(turn, C), H)
           rnext == div_ceil(Times(turn + 1, C), H)
<1>1. /\ pic \in Pictures /\ turn \in 0..LastTurn
      /\ H <= C /\ turn < H
      /\ Fill(F + rstart, F + (rnext - 1) + 1, turn, 1)
      /\ turn' = turn + 1 /\ pic' = pic
  BY DEF HeatmapInv, project_pixels
<1>2. C \in Nat /\ H \in Nat /\ F \in Nat
  BY <1>1, PictureIs
<1>3. turn \in Nat /\ turn + 1 <= LastTurn /\ ~ (H > C)
  BY <1>1, <1>2 DEF LastTurn
<1>4. /\ rstart \in Nat /\ rnext \in Nat
      /\ \A k \in Nat : k \in Shown(turn) <=> rstart <= k /\ k < rnext
  BY <1>1, <1>3, RowHasSamples
<1>5. RowsIn(turn) = turn /\ RowsIn(turn + 1) = turn + 1
  BY <1>3 DEF RowsIn
<1>6. WithValue(turn) = Values(F + rstart, F + (rnext - 1) + 1)
  <2>1. Shown(turn) \subseteq 0..C - 1
    BY DEF Shown
  <2> HIDE DEF rstart, rnext, C, F
  <2>2. ASSUME NEW k PROVE k \in F..F + C - 1 /\ k - F \in Shown(turn)
                             <=> k \in F + rstart..(F + (rnext - 1) + 1) - 1
    <3>1. ASSUME k \in F..F + C - 1, k - F \in Shown(turn)
          PROVE  k \in F + rstart..(F + (rnext - 1) + 1) - 1
      <4>1. k - F \in Nat
        BY <3>1, <1>2
      <4>2. rstart <= k - F /\ k - F < rnext
        BY <4>1, <3>1, <1>4
      <4> QED
        BY <4>2, <3>1, <1>2, <1>4
    <3>2. ASSUME k \in F + rstart..(F + (rnext - 1) + 1) - 1
          PROVE  k \in F..F + C - 1 /\ k - F \in Shown(turn)
      <4>1. PICK j \in Nat : j = k - F /\ rstart <= j /\ j < rnext /\ k \in Int
        BY <3>2, <1>2, <1>4
      <4>2. j \in Shown(turn)
        BY <4>1, <1>4
      <4>3. j \in 0..C - 1
        BY <4>2, <2>1
      <4> QED
        BY <4>1, <4>2, <4>3, <1>2
    <3> QED
      BY <3>1, <3>2
  <2> DEFINE A == F..F + C - 1  B == F + rstart..(F + (rnext - 1) + 1) - 1
  <2>3. WithValue(turn) = {k \in A : k - F \in Shown(turn) /\ Value(k) # NoValue}
    BY DEF WithValue, C, F
  <2>4. Values(F + rstart, F + (rnext - 1) + 1) = {k \in B : Value(k) # NoValue}
    BY DEF Values
  <2>5. \A k : k \in A /\ k - F \in Shown(turn) <=> k \in B
    BY <2>2
  <2> HIDE DEF A, B
  <2>6. {k \in A : k - F \in Shown(turn) /\ Value(k) # NoValue} = {k \in B : Value(k) # NoValue}
    BY <2>5, Zenon
  <2> QED
    BY <2>3, <2>4, <2>6, Zenon
<1>7. \A y \in 0..H - 1 : y \in turn..turn + 1 - 1 => y = turn
  BY <1>3
<1> HIDE DEF rstart, rnext, C, F
<1>8. 1 \in Int /\ 1 >= 0
  OBVIOUS
<1> QED
  BY <1>1, <1>3, <1>5, <1>6, <1>7, <1>8, FillKeeps DEF H

(* In every state that is reached, the rows that are drawn have the colour *)
(* of the samples they show, and no other pixel has been touched.          *)
THEOREM DrawnAsFar == HeatmapSpec => []HeatmapInv
<1>1. HeatmapInit => HeatmapInv
  BY FirstTurn
<1>2. HeatmapInv /\ [HeatmapNext]_heatmapVars => HeatmapInv'
  <2>1. CASE UNCHANGED heatmapVars
    <3>1. pic' = pic /\ turn' = turn /\ img' = img /\ ended' = ended
      BY <2>1 DEF heatmapVars
    <3>2. /\ \A y : WithValue(y)' = WithValue(y)
          /\ \A S : region_color_default(S)' = region_color_default(S)
          /\ \A k : Value(k)' = Value(k)
          /\ RowsIn(turn)' = RowsIn(turn)
          /\ LastTurn' = LastTurn
      BY <3>1, SamePicture DEF RowsIn
    <3>3. \A y, c : (ended' = ended /\ pic' = pic) => (IsColour(y, c)' <=> IsColour(y, c))
      BY <3>1, <3>2 DEF IsColour
    <3> QED
      BY <3>1, <3>2, <3>3 DEF HeatmapInv, IsColour
  <2>2. HeatmapInv /\ HeatmapNext => HeatmapInv'
    BY SamplesStep, PixelsStep DEF HeatmapNext
  <2> QED
    BY <2>1, <2>2
<1> QED
  BY <1>1, <1>2, PTL DEF HeatmapSpec
(* When all is drawn, every pixel of the element has the colour of the     *)
(* samples its row shows, of all of them and of no other, every sample is  *)
(* shown, and no pixel beside the element is touched: draw_subcolumn.      *)
THEOREM ShowsItsSamples == HeatmapSpec => []ShowsSamples
<1>1. HeatmapInv => ShowsSamples
  <2> SUFFICES ASSUME HeatmapInv, Drawn
               PROVE  ShowsSamples
    BY DEF ShowsSamples
  <2> DEFINE C == pic.count  H == pic.height
  <2>1. pic \in Pictures /\ turn = LastTurn
    BY DEF HeatmapInv, Drawn, LastTurn
  <2>2. C \in Nat /\ H \in Nat /\ (pic.type = "ORDINAL" \/ IsScale(pic.type, pic.domain))
    BY <2>1, PictureIs
  <2>3. H > 0 => UNION {Shown(y) : y \in 0..H - 1} = 0..C - 1
    BY <2>1, EverySampleShown
  (* The rows that are not drawn show no sample.                           *)
  <2>4. ASSUME NEW y \in 0..H - 1 PROVE y < RowsIn(turn) \/ WithValue(y) = {}
    <3>1. CASE ~ (H > C)
      BY <3>1, <2>1, <2>2 DEF RowsIn, LastTurn
    <3>2. CASE H > C /\ C = 0
      <4>1. Shown(y) = {}
        BY <3>2 DEF Shown
      <4> QED
        BY <4>1 DEF WithValue
    <3>3. CASE H > C /\ C # 0
      <4>1. RowsIn(turn) = (C * H) \div C
        BY <3>3, <2>1 DEF RowsIn, LastTurn
      <4>2. C * H \in Nat /\ H * C <= C * H
        BY <2>2
      <4> HIDE DEF C, H
      <4>3. (C * H) \div C \in Nat /\ H <= (C * H) \div C
        BY <4>2, <3>3, <2>2, FloorIs
      <4>4. y < (C * H) \div C
        <5>1. PICK q \in Nat : q = (C * H) \div C
          BY <4>3
        <5> QED
          BY <5>1, <4>3, <2>2
      <4> QED
        BY <4>1, <4>4
    <3> QED
      BY <3>1, <3>2, <3>3
  <2>5. ASSUME NEW y \in 0..H - 1, NEW x \in 0..Width - 1
        PROVE  LET c == img[y * Width + x]
                   inside == x >= Elstart /\ x < Elstart + Elsize
               IN CASE ~ inside \/ WithValue(y) = {} -> c = Grey
                    [] inside /\ WithValue(y) # {} /\ pic.type = "ORDINAL" ->
                         y \in ended \/ \E k \in WithValue(y) : c = get_color_ordinal(Value(k))
                    [] OTHER ->
                         /\ c # Grey
                         /\ SumFunction([r \in DOMAIN c |-> c[r].count]) = Cardinality(WithValue(y))
                         /\ SumFunction([r \in DOMAIN c |-> c[r].sum]) = SumOf(WithValue(y))
    <3> DEFINE c == img[y * Width + x]  S == WithValue(y)
               inside == x >= Elstart /\ x < Elstart + Elsize
               Full == /\ c # Grey
                       /\ SumFunction([r \in DOMAIN c |-> c[r].count]) = Cardinality(S)
                       /\ SumFunction([r \in DOMAIN c |-> c[r].sum]) = SumOf(S)
               OfOne == y \in ended \/ \E k \in S : c = get_color_ordinal(Value(k))
    <3>1. inside <=> Inside(x)
      BY HeatmapAssumption DEF Inside
    <3>2. IF Inside(x) /\ y < RowsIn(turn) THEN IsColour(y, c) ELSE c = Grey
      BY DEF HeatmapInv
    <3>3. y < RowsIn(turn) \/ S = {}
      BY <2>4
    <3>4. ~ inside \/ S = {} => c = Grey
      BY <3>1, <3>2 DEF IsColour
    <3>5. inside /\ S # {} /\ pic.type = "ORDINAL" => OfOne
      BY <3>1, <3>2, <3>3 DEF IsColour
    <3>6. ASSUME inside, S # {}, pic.type # "ORDINAL" PROVE Full
      <4>1. c = region_color_default(S)
        BY <3>1, <3>2, <3>3, <3>6 DEF IsColour
      <4>2. IsSamples(S)
        BY <2>1, WithValueIs
      <4> HIDE DEF c, S
      <4>3. c # Grey
        BY <4>1, <4>2, <3>6, <2>2, MixIs
      <4>4. /\ SumFunction([r \in DOMAIN c |-> c[r].count]) = Cardinality(S)
            /\ SumFunction([r \in DOMAIN c |-> c[r].sum]) = SumOf(S)
        BY <4>1, <4>2, <3>6, <2>2, MixHasAll
      <4> QED
        BY <4>3, <4>4
    <3> HIDE DEF Full, OfOne, inside
    <3>7. (CASE ~ inside \/ S = {} -> c = Grey
             [] inside /\ S # {} /\ pic.type = "ORDINAL" -> OfOne
             [] OTHER -> Full)
      BY <3>4, <3>5, <3>6
    <3> QED
      BY <3>7 DEF Full, OfOne, inside
  <2> QED
    BY <2>3, <2>5 DEF ShowsSamples
<1> QED
  BY <1>1, DrawnAsFar, PTL

(* Each part of a mixed colour is taken from the part of the scale that    *)
(* the values counted for it lie in: tally_domains and color_scales.c, in  *)
(* their different ways, find the same part.                               *)
THEOREM ColoursItsRegions == HeatmapSpec => []ColoursByRegion
<1>1. HeatmapInv => ColoursByRegion
  <2> SUFFICES ASSUME HeatmapInv, NEW p \in DOMAIN img, img[p] # Grey, pic.type # "ORDINAL",
                      NEW r \in DOMAIN img[p]
               PROVE  PartIsRight(r, img[p][r])
    BY DEF ColoursByRegion, PartIsRight
  <2>1. pic \in Pictures /\ p \in 0..Width * pic.height - 1
    BY DEF HeatmapInv
  <2>2. pic.height \in Nat /\ IsScale(pic.type, pic.domain)
    BY <2>1, PictureIs
  <2>3. PICK y \in 0..pic.height - 1, x \in 0..Width - 1 : p = y * Width + x
    BY <2>1, <2>2, PlaceIs
  <2>4. Inside(x) /\ y < RowsIn(turn) /\ IsColour(y, img[p])
    BY <2>3 DEF HeatmapInv
  <2>5. WithValue(y) # {} /\ img[p] = region_color_default(WithValue(y))
    BY <2>4 DEF IsColour
  <2>6. IsSamples(WithValue(y))
    BY <2>1, WithValueIs
  <2> QED
    BY <2>2, <2>5, <2>6, MixIsRight
<1> QED
  BY <1>1, DrawnAsFar, PTL
=============================================================================
