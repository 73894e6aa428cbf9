-------------------------- MODULE ContainersProof --------------------------
(***************************************************************************)
(* What holds of the containers for any capacity, any number of nodes and  *)
(* any size of a bin.                                                      *)
(***************************************************************************)
EXTENDS Containers, Induction, FunctionTheorems, SequenceTheorems

-----------------------------------------------------------------------------
(* Sequences, place by place.                                              *)

IsSeqOf(q, n) == n \in Nat /\ q = [k \in 1..n |-> q[k]]

LEMMA LengthOf ==
  ASSUME NEW q, NEW n, IsSeqOf(q, n)
  PROVE  Len(q) = n /\ (q = <<>> <=> n = 0) /\ (n # 0 => Head(q) = q[1])
<1>1. n \in Nat /\ DOMAIN q = 1..n /\ q \in Seq({q[k] : k \in 1..n})
  BY DEF IsSeqOf
<1> QED
  BY <1>1

LEMMA IsAppend ==
  ASSUME NEW q, NEW n, IsSeqOf(q, n), NEW p, IsSeqOf(p, n + 1), \A k \in 1..n : p[k] = q[k]
  PROVE  p = Append(q, p[n + 1])
<1> DEFINE E == {p[k] : k \in 1..n + 1}
<1>1. n \in Nat /\ Len(q) = n /\ n + 1 \in 1..n + 1
  BY LengthOf DEF IsSeqOf
<1>4. q \in [1..n -> E] /\ p[n + 1] \in E
  <2>1. ASSUME NEW k \in 1..n PROVE q[k] \in E
    <3>1. k \in 1..n + 1 /\ q[k] = p[k]
      BY <1>1
    <3> QED
      BY <3>1
  <2>2. p[n + 1] \in E
    BY <1>1
  <2> HIDE DEF E
  <2> QED
    BY <2>1, <2>2 DEF IsSeqOf
<1> HIDE DEF E
<1>2. Append(q, p[n + 1]) = [k \in 1..n + 1 |-> IF k = n + 1 THEN p[n + 1] ELSE q[k]]
  BY <1>1, <1>4
<1>3. [k \in 1..n + 1 |-> IF k = n + 1 THEN p[n + 1] ELSE q[k]] = [k \in 1..n + 1 |-> p[k]]
  BY <1>1
<1> QED
  BY <1>2, <1>3 DEF IsSeqOf

LEMMA IsTail ==
  ASSUME NEW q, NEW n, n # 0, IsSeqOf(q, n), NEW p, IsSeqOf(p, n - 1),
         \A k \in 1..n - 1 : p[k] = q[k + 1]
  PROVE  p = Tail(q)
<1> DEFINE E == {q[k] : k \in 1..n}
<1>1. n \in Nat /\ Len(q) = n /\ q # <<>> /\ q \in [1..n -> E]
  BY LengthOf DEF IsSeqOf
<1>2. \A k \in 1..n - 1 : p[k] \in E
  <2>1. ASSUME NEW k \in 1..n - 1 PROVE p[k] \in E
    <3>1. k + 1 \in 1..n /\ p[k] = q[k + 1]
      BY <1>1
    <3> QED
      BY <3>1
  <2> QED
    BY <2>1
<1> HIDE DEF E
<1>3. q \in Seq(E) /\ p \in Seq(E) /\ Len(p) = n - 1
  <2>1. p \in [1..n - 1 -> E] /\ n - 1 \in Nat
    BY <1>2 DEF IsSeqOf
  <2> QED
    BY <1>1, <2>1
<1>4. /\ Tail(q) \in Seq(E) /\ Len(Tail(q)) = n - 1
      /\ \A k \in 1..n - 1 : Tail(q)[k] = q[k + 1]
  BY <1>1, <1>3, HeadTailProperties
<1> QED
  BY <1>3, <1>4, SeqEqual

(* QuotientIs and remainder are determined by what they are.                 *)
LEMMA QuotientIs ==
  ASSUME NEW B \in Nat \ {0}, NEW x \in Int, NEW m \in Int, NEW r \in 0..B - 1, x = B * m + r
  PROVE  x % B = r /\ x \div B = m
<1>1. x % B = r
  OBVIOUS
<1>2. x \div B = m
  OBVIOUS
<1> QED
  BY <1>1, <1>2

-----------------------------------------------------------------------------
(* The ring.                                                               *)

RingInv ==
  /\ first \in 0..Capacity /\ next \in 0..Capacity
  /\ DOMAIN arr = 0..Capacity

(* A place reached by going on from one in the ring.                       *)
LEMMA Around ==
  ASSUME NEW m \in Nat \ {0}, NEW x \in 0..m + m - 1
  PROVE  x % m = IF x < m THEN x ELSE x - m
<1>1. CASE x < m
  BY <1>1
<1>2. CASE x >= m
  <2>1. x = m * 1 + (x - m) /\ x - m \in 0..m - 1
    BY <1>2
  <2> QED
    BY <1>2, <2>1
<1> QED
  BY <1>1, <1>2

(* The k-th place from f on.                                               *)
PlaceOf(f, k) == (f + k - 1) % Ring!size

LEMMA RingPlaces ==
  /\ Capacity \in Nat \ {0} /\ Ring!size = Capacity + 1
  /\ \A f \in 0..Capacity, k \in 1..Capacity + 1 :
       PlaceOf(f, k) = IF f + k - 1 <= Capacity THEN f + k - 1 ELSE f + k - 2 - Capacity
  /\ \A f \in 0..Capacity : (f + 1) % Ring!size = IF f = Capacity THEN 0 ELSE f + 1
<1>1. Capacity \in Nat \ {0} /\ Ring!size = Capacity + 1
  BY ContainersAssumption DEF Ring!size
<1>2. ASSUME NEW x \in 0..Capacity + 1 + (Capacity + 1) - 1
      PROVE  x % Ring!size = IF x <= Capacity THEN x ELSE x - (Capacity + 1)
  <2> DEFINE m == Capacity + 1
  <2>1. m \in Nat \ {0} /\ x \in 0..m + m - 1
    BY <1>1
  <2>2. x < m <=> x <= Capacity
    BY <1>1
  <2> HIDE DEF m
  <2>3. x % m = IF x < m THEN x ELSE x - m
    BY <2>1, Around
  <2> QED
    BY <1>1, <2>2, <2>3 DEF m
<1>3. ASSUME NEW f \in 0..Capacity, NEW k \in 1..Capacity + 1
      PROVE  PlaceOf(f, k)
               = IF f + k - 1 <= Capacity THEN f + k - 1 ELSE f + k - 2 - Capacity
  <2>1. f + k - 1 \in 0..Capacity + 1 + (Capacity + 1) - 1
    BY <1>1
  <2>2. (f + k - 1) - (Capacity + 1) = f + k - 2 - Capacity
    BY <1>1
  <2> QED
    BY <1>2, <2>1, <2>2 DEF PlaceOf
<1>4. ASSUME NEW f \in 0..Capacity
      PROVE  (f + 1) % Ring!size = IF f = Capacity THEN 0 ELSE f + 1
  <2>1. f + 1 \in 0..Capacity + 1 + (Capacity + 1) - 1
    BY <1>1
  <2>2. (f + 1) % Ring!size = IF f + 1 <= Capacity THEN f + 1 ELSE f + 1 - (Capacity + 1)
    <3>1. PICK x \in 0..Capacity + 1 + (Capacity + 1) - 1 : x = f + 1
      BY <2>1
    <3>2. x % Ring!size = IF x <= Capacity THEN x ELSE x - (Capacity + 1)
      BY <1>2
    <3> QED
      BY <1>1, <3>1, <3>2
  <2>3. (f + 1 <= Capacity <=> f # Capacity) /\ Capacity + 1 - (Capacity + 1) = 0
    BY <1>1
  <2> QED
    BY <2>2, <2>3
<1> QED
  BY <1>1, <1>3, <1>4

LEMMA RingInit == Ring!Init => RingInv /\ Ring!F!Init
<1> SUFFICES ASSUME Ring!Init PROVE RingInv /\ Ring!F!Init
  OBVIOUS
<1>1. RingInv
  BY ContainersAssumption DEF Ring!Init, RingInv, Ring!Places, Ring!size
<1>2. Ring!array_queue_count = 0
  BY DEF Ring!Init, Ring!array_queue_count
<1>3. Ring!Contents = <<>>
  BY <1>2 DEF Ring!Contents
<1> QED
  BY <1>1, <1>3 DEF Ring!F!Init, Ring!Init

(* One place more at the end, or one less at the front.                    *)
LEMMA RingStep == RingInv /\ [Ring!Next]_ringVars => RingInv' /\ [Ring!F!Next]_<<Ring!Contents, taken>>
<1> SUFFICES ASSUME RingInv, [Ring!Next]_ringVars
             PROVE  RingInv' /\ [Ring!F!Next]_<<Ring!Contents, taken>>
  OBVIOUS
<1> DEFINE c == Ring!array_queue_count
           q == Ring!Contents
<1>1. /\ Capacity \in Nat \ {0} /\ c \in 0..Capacity
      /\ c = IF first > next THEN Capacity + 1 + next - first ELSE next - first
      /\ c = 0 <=> first = next
      /\ (next + 1) % Ring!size = IF next = Capacity THEN 0 ELSE next + 1
      /\ (first + 1) % Ring!size = IF first = Capacity THEN 0 ELSE first + 1
      /\ first \in 0..Capacity /\ next \in 0..Capacity /\ DOMAIN arr = 0..Capacity
  <2>1. first \in 0..Capacity /\ next \in 0..Capacity /\ DOMAIN arr = 0..Capacity
    BY DEF RingInv
  <2>2. c = IF first > next THEN Capacity + 1 + next - first ELSE next - first
    BY RingPlaces DEF Ring!array_queue_count
  <2> QED
    BY <2>1, <2>2, RingPlaces
<1>2. \A f \in 0..Capacity, k \in 1..Capacity + 1 :
        PlaceOf(f, k) = IF f + k - 1 <= Capacity THEN f + k - 1 ELSE f + k - 2 - Capacity
  BY RingPlaces
<1>3. q = [k \in 1..c |-> arr[PlaceOf(first, k)]]
  BY DEF Ring!Contents, PlaceOf
<1>4. IsSeqOf(q, c)
  BY <1>1, <1>3 DEF IsSeqOf
<1>5. Len(q) = c /\ (q = <<>> <=> c = 0) /\ (c # 0 => Head(q) = q[1])
  BY <1>4, LengthOf
<1>6. c # 0 => Head(q) = arr[first]
  <2>1. PlaceOf(first, 1) = first
    BY <1>1, <1>2
  <2> QED
    BY <1>1, <1>3, <1>5, <2>1
<1> HIDE DEF c, q
<1>7. ASSUME NEW v \in Value, Ring!array_queue_add(v)
      PROVE  RingInv' /\ Ring!F!Add(v)
  <2>1. /\ c < Capacity /\ arr' = [arr EXCEPT ![next] = v] /\ taken' = NULL /\ first' = first
        /\ next' = IF next = Capacity THEN 0 ELSE next + 1
    BY <1>1, <1>7 DEF Ring!array_queue_add, c
  <2>2. RingInv'
    BY <1>1, <2>1 DEF RingInv
  <2>3. c' = c + 1
    BY <1>1, <2>1 DEF c, Ring!array_queue_count, Ring!size
  <2>4. PlaceOf(first, c + 1) = next /\ \A k \in 1..c : PlaceOf(first, k) # next
    <3>1. PlaceOf(first, c + 1) = next
      <4>1. c + 1 \in 1..Capacity + 1
        BY <1>1, <2>1
      <4>2. PlaceOf(first, c + 1) = IF first + (c + 1) - 1 <= Capacity THEN first + (c + 1) - 1
                                    ELSE first + (c + 1) - 2 - Capacity
        BY <1>1, <1>2, <4>1, Zenon
      <4> QED
        BY <1>1, <4>2
    <3>2. ASSUME NEW k \in 1..c PROVE PlaceOf(first, k) # next
      <4>1. k \in 1..Capacity + 1
        BY <1>1, <2>1
      <4>2. PlaceOf(first, k) = IF first + k - 1 <= Capacity THEN first + k - 1
                                ELSE first + k - 2 - Capacity
        BY <1>1, <1>2, <4>1, Zenon
      <4> QED
        BY <1>1, <2>1, <4>2
    <3> QED
      BY <3>1, <3>2
  <2>5. q' = [k \in 1..c + 1 |-> arr'[PlaceOf(first, k)]]
    BY <2>1, <2>3 DEF q, c, Ring!Contents, PlaceOf
  <2>6. ASSUME NEW k \in 1..c PROVE q'[k] = q[k]
    <3>1. PlaceOf(first, k) # next /\ k \in 1..Capacity + 1
      BY <1>1, <2>4
    <3>2. arr'[PlaceOf(first, k)] = arr[PlaceOf(first, k)]
      <4>1. PlaceOf(first, k) \in DOMAIN arr
        <5>1. PlaceOf(first, k) = IF first + k - 1 <= Capacity THEN first + k - 1
                                  ELSE first + k - 2 - Capacity
          BY <1>1, <1>2, <3>1, Zenon
        <5> QED
          BY <1>1, <3>1, <5>1
      <4> QED
        BY <2>1, <3>1, <4>1
    <3> QED
      BY <1>1, <1>3, <2>5, <3>2
  <2>7. q'[c + 1] = v
    BY <1>1, <2>1, <2>4, <2>5
  <2>8. IsSeqOf(q', c + 1)
    BY <1>1, <2>5 DEF IsSeqOf
  <2>9. q' = Append(q, v)
    BY <1>4, <2>6, <2>7, <2>8, IsAppend
  <2> QED
    BY <1>5, <2>1, <2>2, <2>9 DEF Ring!F!Add, q
<1>8. ASSUME Ring!array_queue_take
      PROVE  RingInv' /\ Ring!F!Take
  <2>1. CASE first = next
    <3>1. taken' = NULL /\ UNCHANGED <<arr, first, next>>
      BY <1>8, <2>1 DEF Ring!array_queue_take
    <3>2. q' = q
      BY <3>1 DEF q, Ring!Contents, Ring!array_queue_count
    <3> QED
      BY <1>1, <1>5, <2>1, <3>1, <3>2 DEF RingInv, Ring!F!Take, q
  <2>2. CASE first # next
    <3>1. /\ taken' = arr[first] /\ UNCHANGED <<arr, next>>
          /\ first' = IF first = Capacity THEN 0 ELSE first + 1
      BY <1>1, <1>8, <2>2 DEF Ring!array_queue_take
    <3>2. RingInv'
      BY <1>1, <3>1 DEF RingInv
    <3>3. c' = c - 1 /\ c - 1 \in Nat
      BY <1>1, <2>2, <3>1 DEF c, Ring!array_queue_count, Ring!size
    <3>4. q' = [k \in 1..c - 1 |-> arr[PlaceOf(first', k)]]
      BY <3>1, <3>3 DEF q, c, Ring!Contents, PlaceOf
    <3>5. ASSUME NEW k \in 1..c - 1 PROVE PlaceOf(first', k) = PlaceOf(first, k + 1)
      <4>1. first' \in 0..Capacity /\ k \in 1..Capacity + 1 /\ k + 1 \in 1..Capacity + 1
        BY <1>1, <3>1
      <4>2. /\ PlaceOf(first', k) = IF first' + k - 1 <= Capacity THEN first' + k - 1
                                     ELSE first' + k - 2 - Capacity
            /\ PlaceOf(first, k + 1) = IF first + (k + 1) - 1 <= Capacity THEN first + (k + 1) - 1
                                        ELSE first + (k + 1) - 2 - Capacity
        BY <1>1, <1>2, <4>1, Zenon
      <4> QED
        BY <1>1, <3>1, <4>1, <4>2
    <3>6. \A k \in 1..c - 1 : q'[k] = q[k + 1]
      BY <1>1, <1>3, <3>4, <3>5
    <3>7. IsSeqOf(q', c - 1)
      BY <3>3, <3>4 DEF IsSeqOf
    <3>8. q' = Tail(q)
      BY <1>1, <1>4, <2>2, <3>6, <3>7, IsTail
    <3> QED
      BY <1>1, <1>5, <1>6, <2>2, <3>1, <3>2, <3>8 DEF Ring!F!Take, q
  <2> QED
    BY <2>1, <2>2
<1>9. ASSUME UNCHANGED <<arr, first, next>>
      PROVE  RingInv' /\ Ring!Contents' = Ring!Contents
  BY <1>9 DEF RingInv, Ring!Contents, Ring!array_queue_count
<1>10. ASSUME Ring!array_queue_peek PROVE RingInv' /\ Ring!F!Peek
  <2>1. UNCHANGED <<arr, first, next>> /\ taken' = IF first = next THEN NULL ELSE arr[first]
    BY <1>10 DEF Ring!array_queue_peek
  <2> QED
    BY <1>1, <1>5, <1>6, <1>9, <2>1 DEF Ring!F!Peek, q
<1>11. ASSUME Ring!Count PROVE RingInv' /\ Ring!F!Count
  <2>1. UNCHANGED <<arr, first, next>> /\ taken' = c
    BY <1>11 DEF Ring!Count, c
  <2> QED
    BY <1>5, <1>9, <2>1 DEF Ring!F!Count, q
<1>12. ASSUME Ring!array_queue_free PROVE RingInv' /\ Ring!F!Renew
  <2>1. first' = 0 /\ next' = 0 /\ taken' = -1 /\ DOMAIN arr' = 0..Capacity
    BY <1>1, <1>12 DEF Ring!array_queue_free, Ring!Places, Ring!size
  <2>2. RingInv'
    BY <1>1, <2>1 DEF RingInv
  <2>3. Ring!array_queue_count' = 0
    BY <2>1 DEF Ring!array_queue_count
  <2>4. Ring!Contents' = <<>>
    BY <2>3 DEF Ring!Contents
  <2> QED
    BY <2>1, <2>2, <2>4 DEF Ring!F!Renew, Ring!F!NewQueue
<1>13. CASE UNCHANGED ringVars
  BY <1>9, <1>13 DEF ringVars
<1> QED
  BY <1>7, <1>8, <1>10, <1>11, <1>12, <1>13 DEF Ring!Next, Ring!F!Next

-----------------------------------------------------------------------------
(* The array of strings.                                                   *)

StringsInv ==
  /\ added \in Nat /\ DOMAIN strings = 1..Len(strings) /\ Len(strings) \in Nat
  /\ added <= Len(strings) /\ Len(strings) % BINSIZE = 0

LEMMA StringsInit == Strings!Init => StringsInv /\ Strings!F!Init
<1> SUFFICES ASSUME Strings!Init PROVE StringsInv /\ Strings!F!Init
  OBVIOUS
<1>1. added = 0 /\ strings = <<>> /\ got = NULL /\ 0 % BINSIZE = 0
  BY ContainersAssumption DEF Strings!Init
<1>2. [k \in 1..added |-> IF k \in DOMAIN strings THEN strings[k] ELSE Unset] = <<>>
  BY <1>1
<1> QED
  BY <1>1, <1>2 DEF StringsInv, Strings!F!Init

(* There is room for one more when an item is added: realloc has just made *)
(* some, or the last it made is not full.                                  *)
LEMMA RoomForOne ==
  ASSUME StringsInv
  PROVE  /\ Strings!Places \in Nat /\ Strings!Places % BINSIZE = 0
         /\ added + 1 <= Strings!Places
<1>1. /\ BINSIZE \in Nat \ {0} /\ added \in Nat /\ Len(strings) \in Nat
      /\ added <= Len(strings) /\ Len(strings) % BINSIZE = 0
  BY ContainersAssumption DEF StringsInv
<1>2. CASE added % BINSIZE = 0
  <2> DEFINE m == added \div BINSIZE + 1
  <2>1. Strings!Places = BINSIZE * m
    BY <1>2 DEF Strings!Places
  <2>2. m \in Nat /\ BINSIZE * m = added + BINSIZE
    BY <1>1, <1>2
  <2>3. (BINSIZE * m) % BINSIZE = 0
    <3> HIDE DEF m
    <3> DEFINE x == BINSIZE * m
    <3>1. x \in Int /\ x = BINSIZE * m + 0 /\ 0 \in 0..BINSIZE - 1 /\ m \in Int
      BY <1>1, <2>2
    <3> HIDE DEF x
    <3>2. x % BINSIZE = 0
      BY <1>1, <3>1, QuotientIs
    <3> QED
      BY <3>2 DEF x
  <2> HIDE DEF m
  <2> QED
    BY <1>1, <2>1, <2>2, <2>3
<1>3. CASE added % BINSIZE # 0
  <2>1. Strings!Places = Len(strings) /\ added # Len(strings)
    BY <1>1, <1>3 DEF Strings!Places
  <2> QED
    BY <1>1, <2>1
<1> QED
  BY <1>2, <1>3

LEMMA StringsStep ==
  StringsInv /\ [Strings!Next]_stringVars
    => StringsInv' /\ [Strings!F!Next]_<<[k \in 1..added |-> IF k \in DOMAIN strings
                                            THEN strings[k] ELSE Unset], got>>
<1> DEFINE q == [k \in 1..added |-> IF k \in DOMAIN strings THEN strings[k] ELSE Unset]
<1> SUFFICES ASSUME StringsInv, [Strings!Next]_stringVars
             PROVE  StringsInv' /\ [Strings!F!Next]_<<q, got>>
  OBVIOUS
<1>1. /\ added \in Nat /\ Len(strings) \in Nat /\ DOMAIN strings = 1..Len(strings)
      /\ added <= Len(strings)
  BY DEF StringsInv
<1>2. q = [k \in 1..added |-> strings[k]] /\ IsSeqOf(q, added)
  BY <1>1 DEF IsSeqOf
<1>3. Len(q) = added
  <2> HIDE DEF q
  <2> QED
    BY <1>2, LengthOf
<1>4. ASSUME NEW s \in Value, Strings!array_add(s)
      PROVE  StringsInv' /\ Strings!F!Add(s)
  <2> DEFINE P == Strings!Places
  <2>1. /\ added < Capacity /\ added' = added + 1 /\ got' = NULL
        /\ strings' = [k \in 1..P |-> IF k = added + 1 THEN s
                                      ELSE IF k <= Len(strings) THEN strings[k] ELSE Unset]
    BY <1>4 DEF Strings!array_add
  <2>2. P \in Nat /\ P % BINSIZE = 0 /\ added + 1 <= P
    BY RoomForOne
  <2> HIDE DEF P
  <2>3. Len(strings') = P /\ DOMAIN strings' = 1..P
    <3>1. IsSeqOf(strings', P)
      BY <2>1, <2>2 DEF IsSeqOf
    <3> QED
      BY <2>1, <3>1, LengthOf
  <2>4. StringsInv'
    BY <1>1, <2>1, <2>2, <2>3 DEF StringsInv
  <2>5. q' = [k \in 1..added + 1 |-> strings'[k]]
    BY <1>1, <2>1, <2>2, <2>3
  <2>6. ASSUME NEW k \in 1..added PROVE q'[k] = q[k]
    <3>1. k \in 1..P /\ k # added + 1 /\ k <= Len(strings) /\ k \in 1..added + 1
      BY <1>1, <2>2
    <3> HIDE DEF q
    <3> QED
      BY <1>2, <2>1, <2>5, <3>1
  <2>7. q'[added + 1] = s
    <3>1. added + 1 \in 1..P /\ added + 1 \in 1..added + 1
      BY <1>1, <2>2
    <3> HIDE DEF q
    <3> QED
      BY <2>1, <2>5, <3>1
  <2> HIDE DEF q
  <2>8. IsSeqOf(q', added + 1)
    BY <1>1, <2>5 DEF IsSeqOf
  <2>9. IsSeqOf(q, added)
    BY <1>2
  <2>10. q' = Append(q, s)
    BY <2>6, <2>7, <2>8, <2>9, IsAppend
  <2> QED
    BY <1>3, <2>1, <2>4, <2>10 DEF Strings!F!Add, q
<1>5. ASSUME Strings!array_free PROVE StringsInv' /\ Strings!F!Renew
  <2>1. added' = 0 /\ strings' = <<>> /\ got' = -1 /\ 0 % BINSIZE = 0
    BY <1>5, ContainersAssumption DEF Strings!array_free
  <2>2. q' = <<>>
    BY <2>1
  <2> QED
    BY <2>1, <2>2 DEF StringsInv, Strings!F!Renew, Strings!F!NewQueue
<1>6. CASE UNCHANGED stringVars
  BY <1>6 DEF stringVars, StringsInv
<1> QED
  BY <1>4, <1>5, <1>6 DEF Strings!Next, Strings!F!Next

-----------------------------------------------------------------------------
(* The list.                                                               *)

Node == [value : Value \cup {NULL}, next : Nodes \cup {NULL}]

(* The m nodes of s, and no others, are linked in their order from p.      *)
ListOf(h, p, m, s) ==
  /\ s \in [1..m -> Nodes]
  /\ \A j, k \in 1..m : s[j] = s[k] => j = k
  /\ \A k \in 1..m : h[s[k]] # Free /\ h[s[k]].next = IF k = m THEN NULL ELSE s[k + 1]
  /\ p = IF m = 0 THEN NULL ELSE s[1]
  /\ \A a \in Nodes : h[a] # Free => \E k \in 1..m : s[k] = a

AreLinked(s) ==
  /\ ListOf(nodes, head, length, s)
  /\ tail = IF length = 0 THEN NULL ELSE s[length]

ListInv ==
  /\ nodes \in [Nodes -> Node \cup {Free}]
  /\ length \in Nat
  /\ \E s : AreLinked(s)

(* The chain as LinkedQueue has it, of any heap and from any node.         *)
IsWalk(h, p, n, w) ==
  w = [k \in 1..n |->
        IF k = 1 THEN p
        ELSE IF w[k - 1] \in {a \in Nodes : h[a] # Free} THEN h[w[k - 1]].next ELSE NULL]

ChainOf(h, p, n) ==
  LET at[k \in 1..n] ==
        IF k = 1 THEN p
        ELSE IF at[k - 1] \in {a \in Nodes : h[a] # Free} THEN h[at[k - 1]].next ELSE NULL
      linked == {k \in DOMAIN at : \A j \in 1..k : at[j] \in {a \in Nodes : h[a] # Free}}
  IN [k \in linked |-> at[k]]

LEMMA SameSize == \A T : Linked!Cardinality(T) = Cardinality(T)
BY DEF Linked!Cardinality, Cardinality

LEMMA NoNull == NULL \notin Nodes /\ NULL # -1 /\ Free \notin Node /\ IsFiniteSet(Nodes)
BY ContainersAssumption DEF Node

LEMMA OneWalk ==
  ASSUME NEW h, NEW p, NEW n \in Nat, NEW v, NEW w, IsWalk(h, p, n, v), IsWalk(h, p, n, w)
  PROVE  v = w
<1> DEFINE Q == {k \in 1..n : v[k] = w[k]}
<1>1. \A u : IsWalk(h, p, n, u) => \A k \in 1..n :
        u[k] = IF k = 1 THEN p
               ELSE IF u[k - 1] \in {a \in Nodes : h[a] # Free} THEN h[u[k - 1]].next ELSE NULL
  BY DEF IsWalk
<1>2. n # 0 => 1 \in Q
  BY <1>1
<1>3. ASSUME NEW k \in 1..n - 1, k \in Q PROVE k + 1 \in Q
  <2>1. k + 1 \in 1..n /\ k + 1 # 1 /\ (k + 1) - 1 = k /\ v[k] = w[k]
    BY <1>3
  <2>2. v[k + 1] = IF v[k] \in {a \in Nodes : h[a] # Free} THEN h[v[k]].next ELSE NULL
    BY <1>1, <2>1
  <2>3. w[k + 1] = IF w[k] \in {a \in Nodes : h[a] # Free} THEN h[w[k]].next ELSE NULL
    BY <1>1, <2>1
  <2> QED
    BY <2>1, <2>2, <2>3
<1>4. 1..n \subseteq Q
  <2> HIDE DEF Q
  <2>1. CASE n = 0
    BY <2>1
  <2>2. CASE n # 0
    BY <1>2, <1>3, <2>2, IntervalIsInductive
  <2> QED
    BY <2>1, <2>2
<1>5. \A k \in 1..n : v[k] = w[k]
  BY <1>4
<1> QED
  BY <1>5 DEF IsWalk

(* A list has no more nodes than there are, so the walk comes to its end.  *)
LEMMA ListFits ==
  ASSUME NEW h, NEW p, NEW m \in Nat, NEW s, ListOf(h, p, m, s)
  PROVE  m <= Cardinality(Nodes) /\ Cardinality(Nodes) \in Nat
<1>1. s \in Injection(1..m, Nodes)
  BY DEF ListOf, Injection, IsInjective
<1>2. IsFiniteSet(Nodes) /\ Cardinality(1..m) = m
  <2>1. 1 \in Int /\ m \in Int
    OBVIOUS
  <2> QED
    BY <2>1, NoNull, FS_Interval
<1>3. Cardinality(1..m) <= Cardinality(Nodes)
  BY <1>1, <1>2, FS_Injection
<1> QED
  BY <1>2, <1>3, FS_CardinalityType

LEMMA ChainIsList ==
  ASSUME NEW h, NEW p, NEW m \in Nat, NEW s, ListOf(h, p, m, s),
         NEW n, n = Cardinality(Nodes) + 1
  PROVE  ChainOf(h, p, n) = s
<1> DEFINE A == {a \in Nodes : h[a] # Free}
           at[k \in 1..n] ==
             IF k = 1 THEN p
             ELSE IF at[k - 1] \in {a \in Nodes : h[a] # Free} THEN h[at[k - 1]].next ELSE NULL
           w == [k \in 1..n |-> IF k <= m THEN s[k] ELSE NULL]
<1>1. m \in Nat /\ n \in Nat /\ m + 1 <= n /\ NULL \notin Nodes
  BY ListFits, NoNull
<1>2. /\ s \in [1..m -> Nodes] /\ (\A k \in 1..m : s[k] \in A)
      /\ \A k \in 1..m : h[s[k]].next = IF k = m THEN NULL ELSE s[k + 1]
      /\ p = IF m = 0 THEN NULL ELSE s[1]
  BY DEF ListOf
<1>3. \A k \in 1..n : w[k] = IF k <= m THEN s[k] ELSE NULL
  OBVIOUS
<1>4. DOMAIN w = 1..n
  OBVIOUS
<1>5. IsWalk(h, p, n, w)
  <2> HIDE DEF w
  <2>1. ASSUME NEW k \in 1..n
        PROVE  w[k] = IF k = 1 THEN p ELSE IF w[k - 1] \in A THEN h[w[k - 1]].next ELSE NULL
    <3>1. CASE k = 1
      BY <1>1, <1>2, <1>3, <3>1
    <3>2. CASE k # 1 /\ k - 1 <= m
      <4>1. k - 1 \in 1..m /\ k - 1 \in 1..n /\ w[k - 1] = s[k - 1] /\ s[k - 1] \in A
        BY <1>1, <1>2, <1>3, <3>2
      <4>2. h[s[k - 1]].next = IF k - 1 = m THEN NULL ELSE s[k]
        BY <1>1, <1>2, <4>1
      <4>3. w[k] = IF k - 1 = m THEN NULL ELSE s[k]
        BY <1>1, <1>3, <3>2
      <4> QED
        BY <3>2, <4>1, <4>2, <4>3
    <3>3. CASE k # 1 /\ ~ (k - 1 <= m)
      <4>1. k - 1 \in 1..n /\ w[k - 1] = NULL /\ w[k] = NULL
        BY <1>1, <1>3, <3>3
      <4> QED
        BY <1>1, <3>3, <4>1
    <3> QED
      BY <3>1, <3>2, <3>3
  <2>2. w = [k \in 1..n |-> w[k]]
    BY DEF w
  <2> QED
    BY <2>1, <2>2 DEF IsWalk
<1>6. at = w
  <2>1. at = CHOOSE v : IsWalk(h, p, n, v)
    BY Zenon DEF IsWalk
  <2> HIDE DEF at, w
  <2>2. IsWalk(h, p, n, at)
    BY <1>5, <2>1
  <2> QED
    BY <1>1, <1>5, <2>2, OneWalk
<1>7. ChainOf(h, p, n) = [k \in {k \in DOMAIN at : \A j \in 1..k : at[j] \in A} |-> at[k]]
  BY Zenon DEF ChainOf
<1> HIDE DEF at, w
<1>8. {k \in 1..n : \A j \in 1..k : w[j] \in A} = 1..m
  <2>1. ASSUME NEW k \in 1..m PROVE k \in 1..n /\ \A j \in 1..k : w[j] \in A
    BY <1>1, <1>2, <1>3
  <2>2. ASSUME NEW k \in 1..n, \A j \in 1..k : w[j] \in A PROVE k \in 1..m
    <3>1. w[k] \in A
      BY <1>1, <2>2
    <3>2. k <= m
      BY <1>1, <1>3, <3>1
    <3> QED
      BY <1>1, <3>2
  <2> HIDE DEF A
  <2> QED
    BY <1>1, <2>1, <2>2
<1>9. [k \in 1..m |-> w[k]] = s
  BY <1>1, <1>2, <1>3
<1> QED
  BY <1>4, <1>6, <1>7, <1>8, <1>9

(* What the list holds, in the words of LinkedQueue.                       *)
Held ==
  [k \in 1..Linked!Cardinality(DOMAIN Linked!Chain) |-> nodes[Linked!Chain[k]].value]

HeldIn(h, c) == [k \in 1..Cardinality(DOMAIN c) |-> h[c[k]].value]

LEMMA HeldOfList ==
  ASSUME NEW h, NEW p, NEW m \in Nat, NEW s, ListOf(h, p, m, s),
         NEW n, n = Cardinality(Nodes) + 1, NEW q, q = HeldIn(h, ChainOf(h, p, n))
  PROVE  q = [k \in 1..m |-> h[s[k]].value] /\ IsSeqOf(q, m)
<1>1. ChainOf(h, p, n) = s
  BY ChainIsList
<1>2. DOMAIN s = 1..m /\ Cardinality(1..m) = m
  <2>1. 1 \in Int /\ m \in Int
    OBVIOUS
  <2> QED
    BY <2>1, FS_Interval DEF ListOf
<1>3. q = [k \in 1..m |-> h[s[k]].value]
  BY <1>1, <1>2 DEF HeldIn
<1> QED
  BY <1>3 DEF IsSeqOf

LEMMA ChainThere ==
  /\ Linked!Chain = ChainOf(nodes, head, Linked!Cardinality(Nodes) + 1)
  /\ Linked!Chain' = ChainOf(nodes', head', Linked!Cardinality(Nodes) + 1)
  /\ Linked!Cardinality(Nodes) + 1 = Cardinality(Nodes) + 1
<1>1. Linked!Chain = ChainOf(nodes, head, Linked!Cardinality(Nodes) + 1)
  BY Zenon DEF Linked!Chain, ChainOf, Linked!Allocated
<1>2. Linked!Chain' = ChainOf(nodes', head', Linked!Cardinality(Nodes) + 1)
  BY Zenon DEF Linked!Chain, ChainOf, Linked!Allocated
<1>3. Linked!Cardinality(Nodes) + 1 = Cardinality(Nodes) + 1
  BY SameSize
<1> QED
  BY <1>1, <1>2, <1>3

LEMMA HeldThere ==
  /\ Held = HeldIn(nodes, ChainOf(nodes, head, Linked!Cardinality(Nodes) + 1))
  /\ Held' = HeldIn(nodes', ChainOf(nodes', head', Linked!Cardinality(Nodes) + 1))
<1>1. Held = HeldIn(nodes, Linked!Chain)
  <2>1. Linked!Cardinality(DOMAIN Linked!Chain) = Cardinality(DOMAIN Linked!Chain)
    BY SameSize
  <2> QED
    BY <2>1 DEF Held, HeldIn
<1>2. Held' = HeldIn(nodes', Linked!Chain')
  <2>1. Linked!Cardinality(DOMAIN Linked!Chain') = Cardinality(DOMAIN Linked!Chain')
    BY SameSize
  <2> QED
    BY <2>1 DEF Held, HeldIn
<1> QED
  BY <1>1, <1>2, ChainThere

(* It is the values of the linked nodes.                                   *)
LEMMA HeldIs ==
  ASSUME length \in Nat, NEW s, AreLinked(s)
  PROVE  /\ Held = [k \in 1..length |-> nodes[s[k]].value] /\ IsSeqOf(Held, length)
         /\ Linked!Chain = s
<1>1. ListOf(nodes, head, length, s)
  BY DEF AreLinked
<1> QED
  BY <1>1, HeldThere, ChainThere, HeldOfList, ChainIsList

LEMMA HeldNext ==
  ASSUME NEW m \in Nat, NEW s, ListOf(nodes', head', m, s)
  PROVE  Held' = [k \in 1..m |-> nodes'[s[k]].value] /\ IsSeqOf(Held', m)
BY HeldThere, ChainThere, HeldOfList

LEMMA ListIsWellLinked == ListInv => Linked!WellLinked
<1> SUFFICES ASSUME ListInv PROVE Linked!WellLinked
  OBVIOUS
<1>1. PICK s : AreLinked(s)
  BY DEF ListInv
<1>2. /\ length \in Nat /\ Linked!Chain = s /\ s \in [1..length -> Nodes]
      /\ \A j, k \in 1..length : s[j] = s[k] => j = k
      /\ \A k \in 1..length : nodes[s[k]] # Free
      /\ \A a \in Nodes : nodes[a] # Free => \E k \in 1..length : s[k] = a
      /\ tail = IF length = 0 THEN NULL ELSE s[length]
  BY <1>1, HeldIs DEF ListInv, AreLinked, ListOf
<1> DEFINE A == Linked!Allocated
<1>3. A \in SUBSET Nodes /\ \A a \in Nodes : a \in A <=> nodes[a] # Free
  BY DEF Linked!Allocated
<1> HIDE DEF A
<1>4. {s[k] : k \in DOMAIN s} = A
  BY <1>2, <1>3
<1>5. Cardinality(1..length) = length /\ IsFiniteSet(1..length)
  <2>1. 1 \in Int /\ length \in Int
    BY <1>2
  <2> QED
    BY <1>2, <2>1, FS_Interval
<1>6. Cardinality(A) = length
  <2>1. s \in [1..length -> A]
    BY <1>2, <1>3
  <2>2. \A a \in A : \E k \in 1..length : s[k] = a
    BY <1>2, <1>3
  <2>3. s \in Bijection(1..length, A)
    BY <1>2, <2>1, <2>2, Fun_IsBij
  <2>4. ExistsBijection(1..length, A)
    BY <2>3 DEF ExistsBijection
  <2> QED
    BY <1>5, <2>4, FS_Bijection
<1>7. Linked!Cardinality(DOMAIN Linked!Chain) = length /\ Linked!Cardinality(A) = length
  BY <1>2, <1>5, <1>6, SameSize
<1>8. {Linked!Chain[k] : k \in DOMAIN Linked!Chain} = A
  BY <1>2, <1>4
<1> QED
  BY <1>2, <1>7, <1>8 DEF Linked!WellLinked, A

LEMMA ListInit == Linked!Init => ListInv /\ Linked!F!Init
<1> SUFFICES ASSUME Linked!Init PROVE ListInv /\ Linked!F!Init
  OBVIOUS
<1>1. /\ nodes = [a \in Nodes |-> Free] /\ head = NULL /\ tail = NULL
      /\ length = 0 /\ ret = NULL
  BY DEF Linked!Init
<1>2. AreLinked(<<>>)
  BY <1>1 DEF AreLinked, ListOf
<1>3. ListInv
  BY <1>1, <1>2, Zenon DEF ListInv
<1>4. Held = <<>>
  BY <1>1, <1>2, HeldIs
<1> QED
  BY <1>1, <1>3, <1>4 DEF Linked!F!Init, Held

LEMMA ListAdd ==
  ASSUME ListInv, NEW v \in Value \cup {NULL}, Linked!queue_add(v)
  PROVE  ListInv' /\ Linked!F!Add(v)
<1>1. PICK s : AreLinked(s)
  BY DEF ListInv
<1>2. PICK node \in Nodes :
        /\ nodes[node] = Free
        /\ nodes' = [a \in Nodes |->
             IF a = node THEN [value |-> v, next |-> NULL]
             ELSE IF a = tail THEN [nodes[a] EXCEPT !.next = node]
             ELSE nodes[a]]
        /\ head' = IF tail = NULL THEN node ELSE head
        /\ tail' = node /\ length' = length + 1 /\ ret' = NULL
  BY DEF Linked!queue_add
<1>a. PICK t : t = [k \in 1..length + 1 |-> IF k = length + 1 THEN node ELSE s[k]]
  OBVIOUS
<1>3. /\ length \in Nat /\ length + 1 \in Nat /\ nodes \in [Nodes -> Node \cup {Free}]
      /\ NULL \notin Nodes /\ Free \notin Node /\ NULL # -1
  BY NoNull DEF ListInv
<1>4. /\ s \in [1..length -> Nodes]
      /\ \A j, k \in 1..length : s[j] = s[k] => j = k
      /\ \A k \in 1..length : nodes[s[k]] # Free
      /\ \A k \in 1..length : nodes[s[k]].next = IF k = length THEN NULL ELSE s[k + 1]
      /\ head = IF length = 0 THEN NULL ELSE s[1]
      /\ \A a \in Nodes : nodes[a] # Free => \E k \in 1..length : s[k] = a
      /\ tail = IF length = 0 THEN NULL ELSE s[length]
  BY <1>1 DEF AreLinked, ListOf
<1>5. /\ \A k \in 1..length : t[k] = s[k] /\ s[k] # node
      /\ t[length + 1] = node /\ t \in [1..length + 1 -> Nodes]
  BY <1>2, <1>3, <1>4, <1>a
<1>6. nodes' \in [Nodes -> Node \cup {Free}]
  <2>1. ASSUME NEW a \in Nodes PROVE nodes'[a] \in Node \cup {Free}
    <3>1. CASE a = node
      BY <1>2, <3>1 DEF Node
    <3>2. CASE a # node /\ a = tail
      <4>1. length \in 1..length /\ a = s[length]
        BY <1>3, <1>4, <3>2
      <4>2. nodes[a] \in Node
        BY <1>3, <1>4, <4>1
      <4>3. nodes'[a] = [nodes[a] EXCEPT !.next = node]
        BY <1>2, <3>2
      <4> QED
        BY <4>2, <4>3 DEF Node
    <3>3. CASE a # node /\ a # tail
      BY <1>2, <1>3, <3>3
    <3> QED
      BY <3>1, <3>2, <3>3
  <2> QED
    BY <1>2, <2>1
<1>7. ASSUME NEW k \in 1..length
      PROVE  /\ nodes[s[k]] \in Node /\ nodes'[s[k]] # Free
             /\ nodes'[s[k]].value = nodes[s[k]].value
             /\ nodes'[s[k]].next = t[k + 1]
  <2>1. nodes[s[k]] \in Node /\ s[k] \in Nodes /\ s[k] # node
    BY <1>3, <1>4, <1>5
  <2>2. CASE k = length
    <3>1. s[k] = tail
      BY <1>4, <2>2
    <3>2. nodes'[s[k]] = [nodes[s[k]] EXCEPT !.next = node]
      BY <1>2, <2>1, <3>1
    <3>3. nodes'[s[k]] \in Node /\ nodes'[s[k]].value = nodes[s[k]].value /\ nodes'[s[k]].next = node
      BY <2>1, <3>2 DEF Node
    <3> QED
      BY <1>3, <1>5, <2>1, <2>2, <3>3
  <2>3. CASE k # length
    <3>1. k + 1 \in 1..length /\ s[k] # tail
      BY <1>3, <1>4, <2>3
    <3>2. nodes'[s[k]] = nodes[s[k]]
      BY <1>2, <2>1, <3>1
    <3> QED
      BY <1>3, <1>4, <1>5, <2>1, <2>3, <3>1, <3>2
  <2> QED
    BY <2>2, <2>3
<1>8. nodes'[node] # Free /\ nodes'[node].value = v /\ nodes'[node].next = NULL
  <2>1. nodes'[node] = [value |-> v, next |-> NULL]
    BY <1>2
  <2>2. nodes'[node] \in Node
    BY <2>1 DEF Node
  <2> QED
    BY <1>3, <2>1, <2>2
<1>9. ListOf(nodes', head', length + 1, t)
  <2>1. \A j, k \in 1..length + 1 : t[j] = t[k] => j = k
    BY <1>3, <1>4, <1>5
  <2>2. ASSUME NEW k \in 1..length + 1
        PROVE  nodes'[t[k]] # Free /\ nodes'[t[k]].next = IF k = length + 1 THEN NULL ELSE t[k + 1]
    <3>1. CASE k = length + 1
      BY <1>5, <1>8, <3>1
    <3>2. CASE k # length + 1
      <4>1. k \in 1..length
        BY <1>3, <3>2
      <4> QED
        BY <1>5, <1>7, <3>2, <4>1
    <3> QED
      BY <3>1, <3>2
  <2>3. head' = IF length + 1 = 0 THEN NULL ELSE t[1]
    BY <1>2, <1>3, <1>4, <1>5
  <2>4. ASSUME NEW a \in Nodes, nodes'[a] # Free
        PROVE  \E k \in 1..length + 1 : t[k] = a
    <3>1. CASE a = node
      BY <1>3, <1>5, <3>1
    <3>2. CASE a # node
      <4>1. nodes[a] # Free
        <5>1. a = tail => \E k \in 1..length : s[k] = a
          BY <1>3, <1>4
        <5> QED
          BY <1>2, <1>4, <2>4, <3>2, <5>1
      <4>2. PICK k \in 1..length : s[k] = a
        BY <1>4, <4>1
      <4>3. k \in 1..length + 1 /\ t[k] = a
        BY <1>3, <1>5, <4>2
      <4> QED
        BY <4>3
    <3> QED
      BY <3>1, <3>2
  <2> QED
    BY <1>5, <2>1, <2>2, <2>3, <2>4 DEF ListOf
<1>10. ListInv'
  <2>1. AreLinked(t)'
    <3>1. ListOf(nodes', head', length', t)
      BY <1>2, <1>9
    <3>2. tail' = IF length' = 0 THEN NULL ELSE t[length']
      BY <1>2, <1>3, <1>5
    <3> QED
      BY <3>1, <3>2 DEF AreLinked
  <2> QED
    BY <1>2, <1>3, <1>6, <2>1, Zenon DEF ListInv
<1>11. Held = [k \in 1..length |-> nodes[s[k]].value] /\ IsSeqOf(Held, length)
  BY <1>1, <1>3, HeldIs
<1>12. /\ Held' = [k \in 1..length + 1 |-> nodes'[t[k]].value]
       /\ IsSeqOf(Held', length + 1)
  BY <1>3, <1>9, HeldNext
<1>13. \A k \in 1..length : Held'[k] = Held[k]
  BY <1>3, <1>5, <1>7, <1>11, <1>12
<1>14. Held'[length + 1] = v
  BY <1>3, <1>5, <1>8, <1>12
<1>15. Held' = Append(Held, v)
  <2>1. IsSeqOf(Held, length) /\ IsSeqOf(Held', length + 1)
    BY <1>11, <1>12
  <2> QED
    BY <1>13, <1>14, <2>1, IsAppend
<1>16. Len(Held) < Linked!Cardinality(Nodes)
  <2>1. Len(Held) = length
    BY <1>11, LengthOf
  <2>2. length + 1 <= Cardinality(Nodes) /\ Cardinality(Nodes) \in Nat
    BY <1>3, <1>9, ListFits
  <2>3. Linked!Cardinality(Nodes) = Cardinality(Nodes)
    BY SameSize
  <2> QED
    BY <1>3, <2>1, <2>2, <2>3
<1> QED
  BY <1>2, <1>10, <1>15, <1>16 DEF Linked!F!Add, Held

LEMMA ListTake ==
  ASSUME ListInv, Linked!queue_take
  PROVE  ListInv' /\ Linked!F!Take
<1>1. PICK s : AreLinked(s)
  BY DEF ListInv
<1>2. /\ length \in Nat /\ nodes \in [Nodes -> Node \cup {Free}]
      /\ NULL \notin Nodes /\ Free \notin Node /\ NULL # -1
  BY NoNull DEF ListInv
<1>3. /\ s \in [1..length -> Nodes]
      /\ \A j, k \in 1..length : s[j] = s[k] => j = k
      /\ \A k \in 1..length : nodes[s[k]] # Free
      /\ \A k \in 1..length : nodes[s[k]].next = IF k = length THEN NULL ELSE s[k + 1]
      /\ head = IF length = 0 THEN NULL ELSE s[1]
      /\ \A a \in Nodes : nodes[a] # Free => \E k \in 1..length : s[k] = a
      /\ tail = IF length = 0 THEN NULL ELSE s[length]
  BY <1>1 DEF AreLinked, ListOf
<1>4. Held = [k \in 1..length |-> nodes[s[k]].value] /\ IsSeqOf(Held, length)
  BY <1>1, <1>2, HeldIs
<1>5. (Held = <<>> <=> length = 0) /\ (length # 0 => Head(Held) = Held[1])
  BY <1>4, LengthOf
<1>6. CASE length = 0
  <2>1. ret' = NULL /\ UNCHANGED <<nodes, head, tail, length>>
    BY <1>3, <1>6 DEF Linked!queue_take
  <2>2. ListInv'
    BY <2>1 DEF ListInv, AreLinked
  <2>3. Held' = Held
    BY <2>1 DEF Held, Linked!Chain, Linked!Allocated
  <2> QED
    BY <1>5, <1>6, <2>1, <2>2, <2>3 DEF Linked!F!Take, Held
<1>7. CASE length # 0
  <2>a. PICK t : t = [k \in 1..length - 1 |-> s[k + 1]]
    OBVIOUS
  <2>1. /\ 1 \in 1..length /\ head = s[1] /\ s[1] \in Nodes /\ s[1] # NULL
        /\ length - 1 \in Nat
    BY <1>2, <1>3, <1>7
  <2>2. /\ ret' = nodes[s[1]].value /\ head' = nodes[s[1]].next
        /\ tail' = IF head' = NULL THEN NULL ELSE tail
        /\ nodes' = [nodes EXCEPT ![s[1]] = Free]
        /\ length' = length - 1
    BY <2>1 DEF Linked!queue_take
  <2>3. /\ \A k \in 1..length - 1 : t[k] = s[k + 1] /\ s[k + 1] # s[1]
        /\ t \in [1..length - 1 -> Nodes]
    BY <1>2, <1>3, <2>1, <2>a
  <2>4. nodes' \in [Nodes -> Node \cup {Free}]
    BY <1>2, <2>2
  <2>5. ASSUME NEW k \in 1..length - 1 PROVE nodes'[t[k]] = nodes[s[k + 1]]
    BY <1>2, <2>1, <2>2, <2>3
  <2>6. ListOf(nodes', head', length - 1, t)
    <3>1. ASSUME NEW j \in 1..length - 1, NEW k \in 1..length - 1, t[j] = t[k] PROVE j = k
      <4>1. j + 1 \in 1..length /\ k + 1 \in 1..length /\ s[j + 1] = s[k + 1]
        BY <1>2, <2>3, <3>1
      <4>2. j + 1 = k + 1
        BY <1>3, <4>1
      <4> QED
        BY <1>2, <4>2
    <3>2. ASSUME NEW k \in 1..length - 1
          PROVE  nodes'[t[k]] # Free /\ nodes'[t[k]].next = IF k = length - 1 THEN NULL ELSE t[k + 1]
      <4>1. k + 1 \in 1..length
        BY <1>2
      <4>2. /\ nodes[s[k + 1]] # Free
            /\ nodes[s[k + 1]].next = IF k + 1 = length THEN NULL ELSE s[(k + 1) + 1]
        BY <1>3, <4>1
      <4>3. k # length - 1 => k + 1 \in 1..length - 1 /\ t[k + 1] = s[(k + 1) + 1]
        BY <1>2, <2>3
      <4>4. k + 1 = length <=> k = length - 1
        BY <1>2
      <4> QED
        BY <2>5, <4>2, <4>3, <4>4
    <3>3. head' = IF length - 1 = 0 THEN NULL ELSE t[1]
      BY <1>2, <1>3, <2>1, <2>2, <2>3
    <3>4. ASSUME NEW a \in Nodes, nodes'[a] # Free
          PROVE  \E k \in 1..length - 1 : t[k] = a
      <4>1. a # s[1] /\ nodes[a] # Free
        BY <1>2, <2>1, <2>2, <3>4
      <4>2. PICK k \in 1..length : s[k] = a
        BY <1>3, <4>1
      <4>3. k - 1 \in 1..length - 1 /\ s[(k - 1) + 1] = a
        BY <1>2, <4>1, <4>2
      <4>4. t[k - 1] = a
        BY <2>3, <4>3
      <4> QED
        BY <4>3, <4>4
    <3> QED
      BY <2>3, <3>1, <3>2, <3>3, <3>4 DEF ListOf
  <2>7. ListInv'
    <3>1. AreLinked(t)'
      <4>1. ListOf(nodes', head', length', t)
        BY <2>2, <2>6
      <4>2. head' = IF length - 1 = 0 THEN NULL ELSE s[2]
        BY <1>3, <1>7, <2>1, <2>2
      <4>3. length - 1 # 0 => length - 1 \in 1..length - 1 /\ s[2] \in Nodes
        BY <1>2, <1>3, <2>1
      <4>4. length - 1 # 0 => t[length - 1] = s[length]
        <5>1. length - 1 # 0 => t[length - 1] = s[(length - 1) + 1]
          BY <2>3, <4>3
        <5> QED
          BY <1>2, <5>1
      <4>5. tail' = IF length' = 0 THEN NULL ELSE t[length']
        BY <1>2, <1>3, <1>7, <2>2, <4>2, <4>3, <4>4
      <4> QED
        BY <4>1, <4>5 DEF AreLinked
    <3> QED
      BY <2>1, <2>2, <2>4, <3>1, Zenon DEF ListInv
  <2>8. Held' = [k \in 1..length - 1 |-> nodes'[t[k]].value] /\ IsSeqOf(Held', length - 1)
    BY <2>1, <2>6, HeldNext
  <2>9. ASSUME NEW k \in 1..length - 1 PROVE Held'[k] = Held[k + 1]
    <3>1. k + 1 \in 1..length
      BY <1>2
    <3> QED
      BY <1>4, <2>5, <2>8, <3>1
  <2>10. Held' = Tail(Held)
    <3>1. IsSeqOf(Held, length) /\ IsSeqOf(Held', length - 1)
      BY <1>4, <2>8
    <3> QED
      BY <1>7, <2>9, <3>1, IsTail
  <2>11. ret' = Head(Held) /\ Held # <<>>
    BY <1>4, <1>5, <1>7, <2>1, <2>2
  <2> QED
    BY <2>7, <2>10, <2>11 DEF Linked!F!Take, Held
<1> QED
  BY <1>6, <1>7

(* Taking until NULL comes frees every node: only the last may hold NULL.  *)
LEMMA ListFree ==
  ASSUME ListInv, Linked!queue_free
  PROVE  ListInv' /\ Linked!F!Renew
<1>1. PICK s : AreLinked(s)
  BY DEF ListInv
<1>2. length \in Nat /\ Linked!Chain = s
  BY <1>1, HeldIs DEF ListInv
<1>3. \A a \in Nodes : nodes[a] # Free => \E k \in 1..length : s[k] = a
  BY <1>1 DEF AreLinked, ListOf
<1> DEFINE ends == {k \in 1..length : nodes[s[k]].value = NULL} \cup {length}
           freed == {s[k] : k \in {j \in 1..length : \A e \in ends : j <= e}}
<1>4. /\ \A k \in 1..length - 1 : nodes[s[k]].value # NULL
      /\ nodes' = [a \in Nodes |-> IF a \in freed THEN Free ELSE nodes[a]]
      /\ head' = NULL /\ tail' = NULL /\ length' = 0 /\ ret' = -1
  BY <1>2 DEF Linked!queue_free
<1>5. ASSUME NEW k \in 1..length PROVE s[k] \in freed
  <2>1. \A e \in ends : k <= e
    BY <1>2, <1>4
  <2> QED
    BY <2>1
<1> HIDE DEF freed
<1>6. \A a \in Nodes : nodes'[a] = Free
  BY <1>3, <1>4, <1>5
<1>7. nodes' \in [Nodes -> Node \cup {Free}]
  BY <1>4, <1>6
<1>8. ListOf(nodes', head', 0, <<>>)
  BY <1>4, <1>6 DEF ListOf
<1>9. AreLinked(<<>>)'
  <2>1. ListOf(nodes', head', length', <<>>)
    BY <1>4, <1>8
  <2> QED
    BY <1>4, <2>1 DEF AreLinked
<1>10. ListInv'
  <2>1. length' \in Nat
    BY <1>4
  <2> QED
    BY <1>7, <1>9, <2>1, Zenon DEF ListInv
<1>11. Held' = <<>>
  BY <1>8, HeldNext
<1> QED
  BY <1>4, <1>10, <1>11 DEF Linked!F!Renew, Linked!F!NewQueue, Held

LEMMA ListStep ==
  ListInv /\ [Linked!Next]_listVars => ListInv' /\ [Linked!F!Next]_<<Held, ret>>
<1> SUFFICES ASSUME ListInv, [Linked!Next]_listVars
             PROVE  ListInv' /\ [Linked!F!Next]_<<Held, ret>>
  OBVIOUS
<1>1. PICK s : AreLinked(s)
  BY DEF ListInv
<1>2. length \in Nat /\ Held = [k \in 1..length |-> nodes[s[k]].value] /\ IsSeqOf(Held, length)
  BY <1>1, HeldIs DEF ListInv
<1>3. Len(Held) = length /\ (Held = <<>> <=> length = 0) /\ (length # 0 => Head(Held) = Held[1])
  <2>1. IsSeqOf(Held, length)
    BY <1>2
  <2> QED
    BY <2>1, LengthOf
<1>4. ASSUME UNCHANGED <<nodes, head, tail, length>>
      PROVE  ListInv' /\ Held' = Held
  BY <1>4 DEF ListInv, AreLinked, Held, Linked!Chain, Linked!Allocated
<1>5. ASSUME Linked!queue_peek PROVE ListInv' /\ Linked!F!Peek
  <2>1. head # NULL /\ ret' = nodes[head].value /\ UNCHANGED <<nodes, head, tail, length>>
    BY <1>5 DEF Linked!queue_peek
  <2>2. length # 0 /\ head = s[1]
    BY <1>1, <2>1 DEF AreLinked, ListOf
  <2>3. 1 \in 1..length
    BY <1>2, <2>2
  <2>4. ret' = Head(Held) /\ Held # <<>>
    BY <1>2, <1>3, <2>1, <2>2, <2>3
  <2> QED
    BY <1>4, <2>1, <2>4 DEF Linked!F!Peek, Held
<1>6. ASSUME Linked!queue_count PROVE ListInv' /\ Linked!F!Count
  <2>1. ret' = length /\ UNCHANGED <<nodes, head, tail, length>>
    BY <1>6 DEF Linked!queue_count
  <2> QED
    BY <1>3, <1>4, <2>1 DEF Linked!F!Count, Held
<1>7. CASE UNCHANGED listVars
  BY <1>4, <1>7 DEF listVars
<1>8. CASE Linked!Next
  BY <1>5, <1>6, <1>8, ListAdd, ListTake, ListFree DEF Linked!Next, Linked!F!Next
<1> QED
  BY <1>7, <1>8

-----------------------------------------------------------------------------
(* The queues and the array, whichever a behaviour uses.                   *)
FifoInv == RingInv /\ ListInv /\ StringsInv

LEMMA FifoStep ==
  FifoInv /\ [AllNext]_<<used, ringVars, listVars, stringVars, vars>>
    => [Ring!Next]_ringVars /\ [Linked!Next]_listVars /\ [Strings!Next]_stringVars
BY DEF AllNext

(* The values that are in the ring, in the list or in the array come out   *)
(* in the order they went in, however head and tail of the ring go round,  *)
(* whatever nodes malloc gives and however often realloc moves the array:  *)
(* each of them is a queue of any capacity.                                *)
THEOREM QueuesKeepOrder == AllSpec => ImplementFifo
<1>1. AllInit => FifoInv /\ Ring!F!Init /\ Linked!F!Init /\ Strings!F!Init
  BY RingInit, ListInit, StringsInit DEF AllInit, FifoInv
<1>2. FifoInv /\ [AllNext]_<<used, ringVars, listVars, stringVars, vars>> => FifoInv'
  BY FifoStep, RingStep, ListStep, StringsStep DEF FifoInv
<1>3. FifoInv /\ [AllNext]_<<used, ringVars, listVars, stringVars, vars>>
        => [Ring!F!Next]_(Ring!F!fifoVars)
  BY FifoStep, RingStep DEF FifoInv, Ring!F!fifoVars
<1>4. FifoInv /\ [AllNext]_<<used, ringVars, listVars, stringVars, vars>>
        => [Linked!F!Next]_(Linked!F!fifoVars)
  BY FifoStep, ListStep DEF FifoInv, Linked!F!fifoVars, Held
<1>5. FifoInv /\ [AllNext]_<<used, ringVars, listVars, stringVars, vars>>
        => [Strings!F!Next]_(Strings!F!fifoVars)
  BY FifoStep, StringsStep DEF FifoInv, Strings!F!fifoVars
<1> QED
  BY <1>1, <1>2, <1>3, <1>4, <1>5, PTL
     DEF AllSpec, ImplementFifo, Ring!ImplementsFifo, Linked!ImplementsFifo,
         Strings!ImplementsFifo, Ring!F!Spec, Linked!F!Spec, Strings!F!Spec

(* Every node that malloc gave is linked from head, once, and tail is the  *)
(* last, whatever is added, taken and freed in turn.                       *)
THEOREM ListStaysLinked == AllSpec => []WellLinked
<1>1. AllInit => FifoInv
  BY RingInit, ListInit, StringsInit DEF AllInit, FifoInv
<1>2. FifoInv /\ [AllNext]_<<used, ringVars, listVars, stringVars, vars>> => FifoInv'
  BY FifoStep, RingStep, ListStep, StringsStep DEF FifoInv
<1>3. FifoInv => WellLinked
  BY ListIsWellLinked DEF FifoInv, WellLinked
<1> QED
  BY <1>1, <1>2, <1>3, PTL DEF AllSpec

-----------------------------------------------------------------------------
(* The stream.                                                             *)

Bin == [next : Addr \cup {NULL}, bin : [0..SIZE - 1 -> Byte]]

(* How many bins a stream has, and how many bytes there are in k of them.  *)
HowMany == count \div SIZE + 1

In(k) == SIZE * k

(* The bins are those of s, in the order they were filled; those from past *)
(* on are allocated, and have the bytes written.                           *)
Kept(s, past) ==
  /\ s \in [1..HowMany -> Addr]
  /\ \A j, k \in 1..HowMany : s[j] = s[k] => j = k
  /\ \A k \in past + 1..HowMany : heap[s[k]] # NULL
  /\ \A a \in Addr : heap[a] # NULL => \E k \in past + 1..HowMany : s[k] = a
  /\ \A k \in past + 1..HowMany, j \in 0..SIZE - 1 :
       In(k - 1) + j < count => heap[s[k]].bin[j] = written[In(k - 1) + j + 1]

(* Neighbours among the bins.                                              *)
Older(s, k) == IF k = 1 THEN NULL ELSE s[k - 1]
Newer(s, k) == IF k = HowMany THEN NULL ELSE s[k + 1]

BaosType ==
  /\ phase \in {"none", "push", "reverse", "copy"}
  /\ heap \in [Addr -> Bin \cup {NULL}]
  /\ count \in 0..MaxCount
  /\ phase = "none" => written = NULL /\ \A a \in Addr : heap[a] = NULL
  /\ phase # "none" => written \in [1..count -> Byte]

PushInv ==
  phase = "push" =>
    \E s : /\ Kept(s, 0)
           /\ \A k \in 1..HowMany : heap[s[k]].next = Older(s, k)
           /\ bins = s[HowMany] /\ bin = bins

(* The r oldest bins are still to be reversed.                             *)
ReverseInv ==
  phase = "reverse" =>
    /\ count > 0 /\ outp = 0 /\ array \in [1..count -> {Unset}]
    /\ \E s, r : /\ Kept(s, 0) /\ r \in 0..HowMany
                 /\ \A k \in 1..r : heap[s[k]].next = Older(s, k)
                 /\ \A k \in r + 1..HowMany : heap[s[k]].next = Newer(s, k)
                 /\ list = IF r = 0 THEN NULL ELSE s[r]
                 /\ rev = Newer(s, r)

(* The r oldest bins are copied and freed.                                 *)
CopyInv ==
  phase = "copy" =>
    /\ count > 0 /\ array \in [1..count -> Byte \cup {Unset}]
    /\ \A k \in 1..count : k <= outp => array[k] = written[k]
    /\ \E s, r : /\ Kept(s, r) /\ r \in 0..HowMany /\ outp = In(r)
                 /\ \A k \in r + 1..HowMany : heap[s[k]].next = Newer(s, k)
                 /\ list = Newer(s, r)

BaosInv == BaosType /\ PushInv /\ ReverseInv /\ CopyInv

LEMMA BaosConstants ==
  /\ SIZE \in Nat \ {0} /\ MaxCount \in Nat /\ IsFiniteSet(Addr)
  /\ NULL \notin Addr /\ NULL \notin Bin /\ 0 \in Byte /\ Unset \notin Byte
  /\ \A n \in Nat : NULL \notin [1..n -> Byte]
<1>1. ASSUME NEW n \in Nat PROVE NULL \notin [1..n -> Byte]
  <2>1. [1..n -> Byte] \subseteq Seq(Byte \cup {Unset})
    OBVIOUS
  <2> QED
    BY <2>1, BaosAssumption
<1> QED
  BY <1>1, BaosAssumption DEF Bin

LEMMA Offsets ==
  /\ In(0) = 0
  /\ \A k \in Nat : In(k) \in Nat /\ In(k + 1) = In(k) + SIZE
  /\ \A j, k \in Nat : j < k => In(j) + SIZE <= In(k)
  /\ count \in Nat => /\ count \div SIZE \in Nat /\ count % SIZE \in 0..SIZE - 1
                      /\ count = In(count \div SIZE) + (count % SIZE)
<1>1. SIZE \in Nat \ {0}
  BY BaosConstants
<1>2. In(0) = 0 /\ \A k \in Nat : In(k) \in Nat /\ In(k + 1) = In(k) + SIZE
  BY <1>1 DEF In
<1>3. ASSUME NEW j \in Nat, NEW k \in Nat, j < k PROVE In(j) + SIZE <= In(k)
  <2>1. PICK d \in Nat : k = j + 1 + d
    <3>1. k - j - 1 \in Nat /\ k = j + 1 + (k - j - 1)
      BY <1>3
    <3> QED
      BY <3>1
  <2>2. SIZE * k = SIZE * j + SIZE + SIZE * d
    BY <1>1, <2>1
  <2>3. SIZE * d \in Nat
    BY <1>1
  <2>4. SIZE * j \in Nat
    BY <1>1
  <2> QED
    BY <1>1, <2>2, <2>3, <2>4 DEF In
<1>4. ASSUME count \in Nat
      PROVE  /\ count \div SIZE \in Nat /\ count % SIZE \in 0..SIZE - 1
             /\ count = In(count \div SIZE) + (count % SIZE)
  BY <1>1, <1>4 DEF In
<1> QED
  BY <1>2, <1>3, <1>4

(* One byte more.                                                          *)
LEMMA OneByte ==
  ASSUME NEW n \in Nat
  PROVE  /\ (n + 1) % SIZE # 0 => /\ (n + 1) \div SIZE = n \div SIZE
                                  /\ n % SIZE < SIZE - 1
         /\ (n + 1) % SIZE = 0 => /\ (n + 1) \div SIZE = n \div SIZE + 1
                                  /\ n % SIZE = SIZE - 1
<1> DEFINE m == n \div SIZE
           r == n % SIZE
           x == n + 1
<1>1. /\ SIZE \in Nat \ {0} /\ m \in Int /\ r \in 0..SIZE - 1 /\ n = SIZE * m + r
      /\ x = n + 1 /\ x \in Int
  BY BaosConstants
<1> HIDE DEF m, r, x
<1>2. CASE r = SIZE - 1
  <2>1. x = SIZE * (m + 1) + 0 /\ m + 1 \in Int /\ 0 \in 0..SIZE - 1
    BY <1>1, <1>2
  <2>2. x % SIZE = 0 /\ x \div SIZE = m + 1
    BY <1>1, <2>1, QuotientIs
  <2> QED
    BY <1>1, <1>2, <2>2 DEF x, m, r
<1>3. CASE r # SIZE - 1
  <2>1. x = SIZE * m + (r + 1) /\ r + 1 \in 0..SIZE - 1
    BY <1>1, <1>3
  <2>2. x % SIZE = r + 1 /\ x \div SIZE = m
    <3> DEFINE t == r + 1
    <3>1. t \in 0..SIZE - 1 /\ x = SIZE * m + t
      BY <2>1
    <3> HIDE DEF t
    <3>2. x % SIZE = t /\ x \div SIZE = m
      BY <1>1, <3>1, QuotientIs
    <3> QED
      BY <3>2 DEF t
  <2>3. r + 1 # 0 /\ r < SIZE - 1
    BY <1>1, <1>3
  <2> QED
    BY <2>2, <2>3 DEF x, m, r
<1> QED
  BY <1>2, <1>3

LEMMA BaosInit == Init => BaosInv /\ S!Init
<1> SUFFICES ASSUME Init PROVE BaosInv /\ S!Init
  OBVIOUS
<1>1. BaosType
  BY BaosConstants DEF Init, BaosType
<1> QED
  BY <1>1 DEF Init, BaosInv, PushInv, ReverseInv, CopyInv, S!Init

LEMMA NewStep == BaosInv /\ baos_new => BaosInv' /\ S!New
<1> SUFFICES ASSUME BaosInv, baos_new PROVE BaosInv' /\ S!New
  OBVIOUS
<1>1. /\ phase = "none" /\ written = NULL /\ heap \in [Addr -> Bin \cup {NULL}]
      /\ \A a \in Addr : heap[a] = NULL
  BY DEF baos_new, BaosInv, BaosType
<1> DEFINE zeros == [k \in 0..SIZE - 1 |-> 0]
<1>2. PICK a \in Addr :
        /\ heap' = [heap EXCEPT ![a] = [next |-> NULL, bin |-> zeros]]
        /\ bins' = a /\ bin' = a
  BY DEF baos_new, WithBin
<1>3. phase' = "push" /\ count' = 0 /\ written' = <<>> /\ out' = out
  BY DEF baos_new
<1>4. [next |-> NULL, bin |-> zeros] \in Bin /\ NULL \notin Bin
  BY BaosConstants DEF Bin
<1>5. BaosType'
  <2>1. heap' \in [Addr -> Bin \cup {NULL}]
    BY <1>1, <1>2, <1>4
  <2>2. written' \in [1..count' -> Byte] /\ count' \in 0..MaxCount
    BY <1>3, BaosConstants
  <2> QED
    BY <1>3, <2>1, <2>2 DEF BaosType
<1>6. HowMany' = 1
  BY <1>3, BaosConstants DEF HowMany
<1>7. PICK s : s = [k \in 1..1 |-> a]
  OBVIOUS
<1>8. /\ s \in [1..1 -> Addr] /\ s[1] = a /\ heap'[a] = [next |-> NULL, bin |-> zeros]
      /\ heap'[a] # NULL /\ heap'[a].next = NULL
  <2>1. s \in [1..1 -> Addr] /\ s[1] = a
    BY <1>7
  <2>2. heap'[a] = [next |-> NULL, bin |-> zeros]
    BY <1>1, <1>2
  <2> HIDE DEF zeros
  <2> QED
    BY <1>4, <2>1, <2>2
<1>9. Kept(s, 0)'
  <2>1. \A b \in Addr : heap'[b] # NULL => b = a
    BY <1>1, <1>2
  <2>2. \A k \in 0 + 1..1 : k = 1
    OBVIOUS
  <2>3. \A k \in Nat : ~ (In(k)' + 0 < 0)
    BY Offsets DEF In
  <2>4. \A k \in 0 + 1..1, j \in 0..SIZE - 1 : ~ (In(k - 1)' + j < count')
    BY <1>3, BaosConstants DEF In
  <2> QED
    BY <1>6, <1>8, <2>1, <2>2, <2>4 DEF Kept
<1>10. PushInv'
  <2>1. \A k \in 1..1 : heap'[s[k]].next = Older(s, k)'
    BY <1>8 DEF Older
  <2>2. bins' = s[HowMany'] /\ bin' = bins'
    BY <1>2, <1>6, <1>8
  <2>3. \A k \in 1..HowMany' : heap'[s[k]].next = Older(s, k)'
    BY <1>6, <2>1
  <2> QED
    BY <1>9, <2>2, <2>3, Zenon DEF PushInv
<1> QED
  BY <1>1, <1>3, <1>5, <1>10 DEF BaosInv, ReverseInv, CopyInv, S!New

WithByte(b) == [heap EXCEPT ![bin].bin[count % SIZE] = b]

(* The byte goes after the others, and the bins' bytes stay where they are.*)
LEMMA Written ==
  ASSUME BaosType, NEW s, Kept(s, 0), phase = "push", bin = s[HowMany],
         NEW b \in Byte
  PROVE  LET h == WithByte(b) IN
         /\ h \in [Addr -> Bin \cup {NULL}]
         /\ \A a \in Addr : h[a] = NULL <=> heap[a] = NULL
         /\ \A k \in 1..HowMany : h[s[k]].next = heap[s[k]].next
         /\ \A k \in 1..HowMany, j \in 0..SIZE - 1 :
              In(k - 1) + j < count + 1 =>
                h[s[k]].bin[j] = Append(written, b)[In(k - 1) + j + 1]
<1> DEFINE h == WithByte(b)
<1>1. /\ heap \in [Addr -> Bin \cup {NULL}] /\ count \in Nat /\ written \in [1..count -> Byte]
  BY BaosConstants DEF BaosType
<1>2. /\ count \div SIZE \in Nat /\ count % SIZE \in 0..SIZE - 1
      /\ count = In(count \div SIZE) + (count % SIZE)
      /\ HowMany = count \div SIZE + 1
  BY <1>1, Offsets DEF HowMany
<1>3. /\ s \in [1..HowMany -> Addr]
      /\ \A j, k \in 1..HowMany : s[j] = s[k] => j = k
      /\ \A k \in 1..HowMany : heap[s[k]] # NULL
      /\ \A k \in 1..HowMany, j \in 0..SIZE - 1 :
           In(k - 1) + j < count => heap[s[k]].bin[j] = written[In(k - 1) + j + 1]
  <2>1. 0 + 1 = 1
    OBVIOUS
  <2> QED
    BY <2>1 DEF Kept
<1>4. NULL \notin Bin /\ HowMany \in 1..HowMany /\ HowMany \in Nat
  BY <1>2, BaosConstants
<1>5. \A k \in 1..HowMany : heap[s[k]] \in Bin /\ s[k] \in Addr
  BY <1>1, <1>3
<1>6. bin \in Addr /\ heap[bin] \in Bin
  BY <1>4, <1>5
<1>7. /\ h[bin] \in Bin /\ h[bin].next = heap[bin].next
      /\ h[bin].bin = [heap[bin].bin EXCEPT ![count % SIZE] = b]
      /\ \A a \in Addr : a # bin => h[a] = heap[a]
      /\ DOMAIN h = Addr
  <2> DEFINE x == [heap[bin] EXCEPT !.bin[count % SIZE] = b]
  <2>1. h = [heap EXCEPT ![bin] = x]
    BY DEF WithByte
  <2>2. x \in Bin /\ x.next = heap[bin].next /\ x.bin = [heap[bin].bin EXCEPT ![count % SIZE] = b]
    BY <1>2, <1>6 DEF Bin
  <2> HIDE DEF x
  <2> QED
    BY <1>1, <1>6, <2>1, <2>2
<1>8. h \in [Addr -> Bin \cup {NULL}]
  <2>1. \A a \in Addr : h[a] \in Bin \cup {NULL}
    BY <1>1, <1>7
  <2>2. h = [a \in Addr |-> h[a]]
    BY <1>1 DEF WithByte
  <2> QED
    BY <2>1, <2>2
<1> HIDE DEF h
<1>9. \A a \in Addr : h[a] = NULL <=> heap[a] = NULL
  BY <1>4, <1>6, <1>7
<1>10. \A k \in 1..HowMany : h[s[k]].next = heap[s[k]].next
  BY <1>5, <1>7
<1>11. ASSUME NEW k \in 1..HowMany, NEW j \in 0..SIZE - 1, In(k - 1) + j < count + 1
       PROVE  h[s[k]].bin[j] = Append(written, b)[In(k - 1) + j + 1]
  <2> DEFINE n == In(k - 1) + j
  <2>1. k - 1 \in Nat /\ In(k - 1) \in Nat /\ n \in Nat /\ n <= count
    <3>1. k - 1 \in Nat /\ j \in Nat
      BY <1>4, BaosConstants
    <3>2. In(k - 1) \in Nat
      BY <3>1, Offsets
    <3> QED
      BY <1>1, <1>11, <3>1, <3>2
  <2>2. written \in Seq(Byte) /\ Len(written) = count
    BY <1>1
  <2>3. CASE k = HowMany /\ j = count % SIZE
    <3>1. n = count
      BY <1>2, <2>3
    <3>2. Append(written, b)[count + 1] = b
      BY <2>2, AppendProperties
    <3>3. h[s[k]].bin[j] = b
      <4>1. heap[bin].bin \in [0..SIZE - 1 -> Byte]
        BY <1>6 DEF Bin
      <4> QED
        BY <1>2, <1>7, <2>3, <4>1
    <3> QED
      BY <3>1, <3>2, <3>3
  <2>4. CASE ~ (k = HowMany /\ j = count % SIZE)
    <3>1. n # count
      <4>1. CASE k = HowMany
        <5>1. k - 1 = count \div SIZE
          BY <1>2, <4>1
        <5> QED
          BY <1>2, <2>1, <2>4, <4>1, <5>1
      <4>2. CASE k # HowMany
        <5>1. k - 1 < count \div SIZE
          BY <1>2, <4>2
        <5>2. In(k - 1) + SIZE <= In(count \div SIZE) /\ In(count \div SIZE) \in Nat
          BY <1>2, <2>1, <5>1, Offsets
        <5>3. n < In(k - 1) + SIZE
          BY <2>1, BaosConstants
        <5>4. In(count \div SIZE) <= count
          BY <1>2, <5>2, BaosConstants
        <5> HIDE DEF n
        <5> QED
          BY <1>1, <2>1, <5>2, <5>3, <5>4, BaosConstants
      <4> QED
        BY <4>1, <4>2
    <3>2. n < count /\ n + 1 \in 1..count
      BY <1>1, <2>1, <3>1
    <3>3. Append(written, b)[n + 1] = written[n + 1]
      BY <2>2, <3>2, AppendProperties
    <3>4. heap[s[k]].bin[j] = written[n + 1]
      BY <1>3, <3>2
    <3>5. h[s[k]].bin[j] = heap[s[k]].bin[j]
      <4>1. CASE k = HowMany
        <5>1. heap[bin].bin \in [0..SIZE - 1 -> Byte]
          BY <1>6 DEF Bin
        <5> QED
          BY <1>7, <2>4, <4>1, <5>1
      <4>2. CASE k # HowMany
        <5>1. s[k] # bin
          BY <1>3, <1>4, <4>2
        <5> QED
          BY <1>5, <1>7, <5>1
      <4> QED
        BY <4>1, <4>2
    <3> QED
      BY <3>3, <3>4, <3>5
  <2> QED
    BY <2>3, <2>4
<1> QED
  BY <1>8, <1>9, <1>10, <1>11 DEF h

LEMMA PushStep ==
  ASSUME BaosInv, NEW b \in Byte, baos_push(b)
  PROVE  BaosInv' /\ S!Push(b)
<1> DEFINE h == WithByte(b)
<1>1. /\ phase = "push" /\ count < MaxCount /\ count' = count + 1
      /\ written' = Append(written, b)
      /\ UNCHANGED <<phase, list, rev, array, outp, out>>
  BY DEF baos_push
<1>2. /\ BaosType /\ count \in Nat /\ written \in [1..count -> Byte]
      /\ MaxCount \in Nat /\ SIZE \in Nat \ {0} /\ NULL \notin Addr /\ NULL \notin Bin
  BY <1>1, BaosConstants DEF BaosInv, BaosType
<1>3. PICK s : /\ Kept(s, 0)
               /\ \A k \in 1..HowMany : heap[s[k]].next = Older(s, k)
               /\ bins = s[HowMany] /\ bin = bins
  BY <1>1 DEF BaosInv, PushInv
<1>4. /\ h \in [Addr -> Bin \cup {NULL}]
      /\ \A a \in Addr : h[a] = NULL <=> heap[a] = NULL
      /\ \A k \in 1..HowMany : h[s[k]].next = heap[s[k]].next
      /\ \A k \in 1..HowMany, j \in 0..SIZE - 1 :
           In(k - 1) + j < count + 1 =>
             h[s[k]].bin[j] = Append(written, b)[In(k - 1) + j + 1]
  <2>1. BaosType /\ Kept(s, 0) /\ phase = "push" /\ bin = s[HowMany]
    BY <1>1, <1>2, <1>3
  <2> QED
    BY <2>1, Written, ZenonT(30)
<1>a. h = WithByte(b)
  OBVIOUS
<1> HIDE DEF h
<1>5. /\ IF count' % SIZE # 0 THEN heap' = h /\ UNCHANGED <<bins, bin>>
         ELSE \E a \in Addr : heap[a] = NULL /\ heap' = WithBin(h, a, bins) /\ bins' = a /\ bin' = a
  BY <1>a DEF baos_push, WithByte
<1>6. /\ s \in [1..HowMany -> Addr]
      /\ \A j, k \in 1..HowMany : s[j] = s[k] => j = k
      /\ \A k \in 1..HowMany : heap[s[k]] # NULL
      /\ \A a \in Addr : heap[a] # NULL => \E k \in 1..HowMany : s[k] = a
  <2>1. 0 + 1 = 1
    OBVIOUS
  <2> QED
    BY <1>3, <2>1 DEF Kept
<1>7. HowMany \in Nat \ {0} /\ HowMany \in 1..HowMany
  BY <1>2, Offsets DEF HowMany
<1>8. written' \in [1..count' -> Byte] /\ count' \in 0..MaxCount
  <2>1. written \in Seq(Byte) /\ Len(written) = count
    BY <1>2
  <2>2. written' \in Seq(Byte) /\ Len(written') = count'
    BY <1>1, <2>1, AppendProperties
  <2>3. written' \in [1..count' -> Byte]
    BY <2>2, LenProperties
  <2>4. count' \in 0..MaxCount
    BY <1>1, <1>2
  <2> QED
    BY <2>3, <2>4
<1>11. S!Push(b)
  <2>1. written # NULL /\ Len(written) = count
    BY <1>2, BaosConstants
  <2> QED
    BY <1>1, <2>1 DEF S!Push
<1>9. CASE count' % SIZE # 0
  <2>1. HowMany' = HowMany
    BY <1>1, <1>2, <1>9, OneByte DEF HowMany
  <2>2. heap' = h /\ bins' = bins /\ bin' = bin
    BY <1>5, <1>9
  <2>3. BaosType'
    BY <1>1, <1>4, <1>8, <2>2 DEF BaosType
  <2>4. Kept(s, 0)'
    <3>1. \A k \in 1..HowMany : heap'[s[k]] # NULL
      BY <1>4, <1>6, <2>2
    <3>2. \A a \in Addr : heap'[a] # NULL => \E k \in 1..HowMany : s[k] = a
      BY <1>4, <1>6, <2>2
    <3>3. \A k \in 1..HowMany, j \in 0..SIZE - 1 :
            In(k - 1) + j < count' => heap'[s[k]].bin[j] = written'[In(k - 1) + j + 1]
      BY <1>1, <1>4, <2>2
    <3>4. 0 + 1 = 1
      OBVIOUS
    <3> QED
      BY <1>6, <2>1, <3>1, <3>2, <3>3, <3>4 DEF Kept, In
  <2>5. \A k \in 1..HowMany' : heap'[s[k]].next = Older(s, k)'
    BY <1>3, <1>4, <2>1, <2>2 DEF Older
  <2>6. PushInv'
    BY <1>3, <2>1, <2>2, <2>4, <2>5, Zenon DEF PushInv
  <2> QED
    BY <1>1, <1>11, <2>3, <2>6 DEF BaosInv, ReverseInv, CopyInv
<1>10. CASE count' % SIZE = 0
  <2> DEFINE zeros == [k \in 0..SIZE - 1 |-> 0]
  <2>1. HowMany' = HowMany + 1 /\ count' = In(HowMany)
    <3>1. count' \div SIZE = count \div SIZE + 1 /\ count % SIZE = SIZE - 1
      BY <1>1, <1>2, <1>10, OneByte
    <3>2. count = In(count \div SIZE) + (count % SIZE) /\ count \div SIZE \in Nat
      BY <1>2, Offsets
    <3>3. In(HowMany) = In(count \div SIZE) + SIZE /\ In(count \div SIZE) \in Nat
      BY <3>2, Offsets DEF HowMany
    <3> QED
      BY <1>1, <1>2, <3>1, <3>2, <3>3 DEF HowMany
  <2>2. PICK a \in Addr :
          /\ heap[a] = NULL /\ bins' = a /\ bin' = a
          /\ heap' = [h EXCEPT ![a] = [next |-> bins, bin |-> zeros]]
    BY <1>5, <1>10 DEF WithBin
  <2>3. PICK t : t = [k \in 1..HowMany + 1 |-> IF k = HowMany + 1 THEN a ELSE s[k]]
    OBVIOUS
  <2>4. /\ t \in [1..HowMany + 1 -> Addr] /\ t[HowMany + 1] = a
        /\ \A k \in 1..HowMany : t[k] = s[k] /\ s[k] # a
    BY <1>6, <1>7, <2>2, <2>3
  <2>5. [next |-> bins, bin |-> zeros] \in Bin
    BY <1>3, <1>6, <1>7, BaosConstants DEF Bin
  <2>6. /\ heap' \in [Addr -> Bin \cup {NULL}] /\ heap'[a] # NULL /\ heap'[a].next = bins
        /\ \A c \in Addr : c # a => heap'[c] = h[c]
    <3>1. heap'[a] = [next |-> bins, bin |-> zeros]
      BY <1>4, <2>2
    <3> HIDE DEF zeros
    <3> QED
      BY <1>2, <1>4, <2>2, <2>5, <3>1
  <2>7. BaosType'
    BY <1>1, <1>8, <2>6 DEF BaosType
  <2>8. Kept(t, 0)'
    <3>1. \A j, k \in 1..HowMany + 1 : t[j] = t[k] => j = k
      BY <1>6, <1>7, <2>4
    <3>2. \A k \in 1..HowMany + 1 : heap'[t[k]] # NULL
      BY <1>4, <1>6, <1>7, <2>4, <2>6
    <3>3. ASSUME NEW c \in Addr, heap'[c] # NULL PROVE \E k \in 1..HowMany + 1 : t[k] = c
      <4>1. CASE c = a
        BY <1>7, <2>4, <4>1
      <4>2. CASE c # a
        <5>1. PICK k \in 1..HowMany : s[k] = c
          BY <1>4, <1>6, <2>6, <3>3, <4>2
        <5> QED
          BY <1>7, <2>4, <5>1
      <4> QED
        BY <4>1, <4>2
    <3>4. ASSUME NEW k \in 1..HowMany + 1, NEW j \in 0..SIZE - 1, In(k - 1) + j < count'
          PROVE  heap'[t[k]].bin[j] = written'[In(k - 1) + j + 1]
      <4>1. k # HowMany + 1
        <5>1. SUFFICES ASSUME k = HowMany + 1 PROVE FALSE
          OBVIOUS
        <5>2. k - 1 = HowMany /\ j \in Nat
          BY <1>2, <1>7, <5>1
        <5>3. In(HowMany) \in Nat
          BY <1>7, Offsets
        <5> QED
          BY <2>1, <3>4, <5>2, <5>3
      <4>2. k \in 1..HowMany
        BY <1>7, <4>1
      <4>3. t[k] = s[k] /\ s[k] # a /\ s[k] \in Addr
        BY <1>6, <2>4, <4>2
      <4>4. In(k - 1) + j < count + 1
        BY <1>1, <3>4
      <4>5. h[s[k]].bin[j] = Append(written, b)[In(k - 1) + j + 1]
        BY <1>4, <4>2, <4>4
      <4>6. heap'[t[k]] = h[s[k]]
        BY <2>6, <4>3
      <4> QED
        BY <1>1, <4>5, <4>6
    <3>5. 0 + 1 = 1
      OBVIOUS
    <3> QED
      BY <2>1, <2>4, <3>1, <3>2, <3>3, <3>4, <3>5 DEF Kept, In
  <2>9. ASSUME NEW k \in 1..HowMany + 1 PROVE heap'[t[k]].next = Older(t, k)'
    <3>1. CASE k = HowMany + 1
      <4>1. k # 1 /\ k - 1 \in 1..HowMany /\ k - 1 = HowMany
        BY <1>7, <3>1
      <4> QED
        BY <1>3, <2>4, <2>6, <3>1, <4>1 DEF Older
    <3>2. CASE k # HowMany + 1
      <4>1. k \in 1..HowMany /\ (k # 1 => k - 1 \in 1..HowMany)
        BY <1>7, <3>2
      <4>2. heap'[t[k]].next = Older(s, k)
        BY <1>3, <1>4, <1>6, <2>4, <2>6, <4>1
      <4>3. Older(s, k) = Older(t, k)
        BY <2>4, <4>1 DEF Older
      <4> QED
        BY <4>2, <4>3 DEF Older
    <3> QED
      BY <3>1, <3>2
  <2>10. PushInv'
    <3>1. bins' = t[HowMany'] /\ bin' = bins'
      BY <2>1, <2>2, <2>4
    <3>2. \A k \in 1..HowMany' : heap'[t[k]].next = Older(t, k)'
      BY <2>1, <2>9
    <3> QED
      BY <2>8, <3>1, <3>2, Zenon DEF PushInv
  <2> QED
    BY <1>1, <1>11, <2>7, <2>10 DEF BaosInv, ReverseInv, CopyInv
<1> QED
  BY <1>9, <1>10

LEMMA NothingStep == BaosInv /\ ToNothing => BaosInv' /\ S!ToArray
<1> SUFFICES ASSUME BaosInv, ToNothing PROVE BaosInv' /\ S!ToArray
  OBVIOUS
<1>1. /\ phase = "push" /\ count = 0 /\ heap' = [heap EXCEPT ![bins] = NULL]
      /\ out' = NULL /\ phase' = "none" /\ written' = NULL /\ count' = count
  BY DEF ToNothing
<1>2. heap \in [Addr -> Bin \cup {NULL}] /\ written \in [1..count -> Byte] /\ count \in 0..MaxCount
  BY <1>1 DEF BaosInv, BaosType
<1>3. HowMany = 1
  BY <1>1, BaosConstants DEF HowMany
<1>4. PICK s : Kept(s, 0) /\ bins = s[HowMany]
  BY <1>1 DEF BaosInv, PushInv
<1>5. \A a \in Addr : heap[a] # NULL => a = bins
  <2>1. \A k \in 0 + 1..HowMany : k = 1
    BY <1>3
  <2> QED
    BY <1>3, <1>4, <2>1 DEF Kept
<1>6. BaosType'
  <2>1. heap' \in [Addr -> Bin \cup {NULL}] /\ \A a \in Addr : heap'[a] = NULL
    BY <1>1, <1>2, <1>5
  <2> QED
    BY <1>1, <1>2, <2>1 DEF BaosType
<1>7. S!ToArray
  <2>1. written = <<>>
    BY <1>1, <1>2
  <2>2. written # NULL
    BY <1>1, <1>2, BaosConstants
  <2> QED
    BY <1>1, <2>1, <2>2 DEF S!ToArray
<1> QED
  BY <1>1, <1>6, <1>7 DEF BaosInv, PushInv, ReverseInv, CopyInv

LEMMA ToArrayStep == BaosInv /\ ToArray => BaosInv' /\ UNCHANGED <<written, out>>
<1> SUFFICES ASSUME BaosInv, ToArray PROVE BaosInv'
  BY DEF ToArray
<1>1. /\ phase = "push" /\ count > 0 /\ array' = [k \in 1..count |-> Unset] /\ outp' = 0
      /\ list' = bins /\ rev' = NULL /\ phase' = "reverse"
      /\ heap' = heap /\ count' = count /\ written' = written
  BY DEF ToArray
<1>2. count \in Nat /\ HowMany \in Nat \ {0}
  <2>1. count \in Nat
    BY BaosConstants DEF BaosInv, BaosType
  <2> QED
    BY <2>1, Offsets, SMTT(30) DEF HowMany
<1>3. PICK s : /\ Kept(s, 0)
               /\ \A k \in 1..HowMany : heap[s[k]].next = Older(s, k)
               /\ bins = s[HowMany]
  BY <1>1 DEF BaosInv, PushInv
<1>4. BaosType'
  BY <1>1 DEF BaosInv, BaosType
<1>5. HowMany' = HowMany
  BY <1>1 DEF HowMany
<1>6. Kept(s, 0)'
  BY <1>1, <1>3, <1>5 DEF Kept, In
<1>7. ReverseInv'
  <2>1. array' \in [1..count' -> {Unset}] /\ count' > 0 /\ outp' = 0
    BY <1>1
  <2>2. \A k \in 1..HowMany' : heap'[s[k]].next = Older(s, k)'
    BY <1>1, <1>3, <1>5 DEF Older
  <2>3. \A k \in HowMany' + 1..HowMany' : FALSE
    BY <1>2, <1>5
  <2>4. list' = IF HowMany' = 0 THEN NULL ELSE s[HowMany']
    BY <1>1, <1>2, <1>3, <1>5
  <2>5. rev' = NULL
    BY <1>1
  <2>6. HowMany' \in 0..HowMany'
    BY <1>2, <1>5
  <2>7. /\ Kept(s, 0)' /\ HowMany \in 0..HowMany'
        /\ \A k \in 1..HowMany : heap'[s[k]].next = Older(s, k)'
        /\ \A k \in HowMany + 1..HowMany' : heap'[s[k]].next = Newer(s, k)'
        /\ list' = (IF HowMany = 0 THEN NULL ELSE s[HowMany])
        /\ rev' = NULL
    BY <1>5, <1>6, <2>2, <2>3, <2>4, <2>5, <2>6
  <2>8. PICK r : r = HowMany
    OBVIOUS
  <2>9. /\ Kept(s, 0)' /\ r \in 0..HowMany'
        /\ \A k \in 1..r : heap'[s[k]].next = Older(s, k)'
        /\ \A k \in r + 1..HowMany' : heap'[s[k]].next = Newer(s, k)'
        /\ list' = (IF r = 0 THEN NULL ELSE s[r])
        /\ rev' = IF r = HowMany' THEN NULL ELSE s[r + 1]
    BY <1>1, <1>5, <2>7, <2>8
  <2> QED
    BY <2>1, <2>9 DEF ReverseInv, Newer
<1> QED
  BY <1>1, <1>4, <1>7 DEF BaosInv, PushInv, CopyInv

LEMMA ReverseStep == BaosInv /\ ReverseBins => BaosInv' /\ UNCHANGED <<written, out>>
<1> SUFFICES ASSUME BaosInv, ReverseBins PROVE BaosInv'
  BY DEF ReverseBins
<1>1. /\ phase = "reverse"
      /\ UNCHANGED <<count, bins, bin, array, outp, out, written>>
  BY DEF ReverseBins
<1>2. /\ heap \in [Addr -> Bin \cup {NULL}] /\ written \in [1..count -> Byte]
      /\ count \in 0..MaxCount /\ count \in Nat /\ NULL \notin Addr /\ NULL \notin Bin
  BY <1>1, BaosConstants DEF BaosInv, BaosType
<1>3. PICK s, r : /\ Kept(s, 0) /\ r \in 0..HowMany
                  /\ \A k \in 1..r : heap[s[k]].next = Older(s, k)
                  /\ \A k \in r + 1..HowMany : heap[s[k]].next = Newer(s, k)
                  /\ list = (IF r = 0 THEN NULL ELSE s[r])
                  /\ rev = Newer(s, r)
  BY <1>1 DEF BaosInv, ReverseInv
<1>4. count > 0 /\ outp = 0 /\ array \in [1..count -> {Unset}]
  BY <1>1 DEF BaosInv, ReverseInv
<1>5. HowMany \in Nat \ {0} /\ HowMany' = HowMany
  <2>1. count \div SIZE \in Nat
    BY <1>2, Offsets
  <2> QED
    BY <1>1, <2>1 DEF HowMany
<1>6. /\ s \in [1..HowMany -> Addr]
      /\ \A j, k \in 1..HowMany : s[j] = s[k] => j = k
      /\ \A k \in 1..HowMany : heap[s[k]] # NULL
      /\ \A a \in Addr : heap[a] # NULL => \E k \in 1..HowMany : s[k] = a
      /\ \A k \in 1..HowMany, j \in 0..SIZE - 1 :
           In(k - 1) + j < count => heap[s[k]].bin[j] = written[In(k - 1) + j + 1]
  <2>1. 0 + 1 = 1
    OBVIOUS
  <2> QED
    BY <1>3, <2>1 DEF Kept
<1>7. CASE r = 0
  <2>1. phase' = "copy" /\ list' = rev /\ heap' = heap
    BY <1>3, <1>7 DEF ReverseBins
  <2>2. BaosType'
    BY <1>1, <2>1 DEF BaosInv, BaosType
  <2>3. Kept(s, 0)'
    BY <1>1, <1>3, <1>5, <2>1 DEF Kept, In
  <2>4. \A k \in 0 + 1..HowMany' : heap'[s[k]].next = Newer(s, k)'
    BY <1>3, <1>5, <1>7, <2>1 DEF Newer
  <2>5. list' = Newer(s, 0)'
    BY <1>3, <1>5, <1>7, <2>1 DEF Newer
  <2>6. count' > 0 /\ array' \in [1..count' -> Byte \cup {Unset}] /\ outp' = In(0)'
    BY <1>1, <1>4, Offsets DEF In
  <2>7. \A k \in 1..count' : k <= outp' => array'[k] = written'[k]
    BY <1>1, <1>2, <1>4
  <2>8. 0 \in 0..HowMany'
    BY <1>5
  <2>9. CopyInv'
    BY <2>3, <2>4, <2>5, <2>6, <2>7, <2>8, Zenon DEF CopyInv
  <2> QED
    BY <2>1, <2>2, <2>9 DEF BaosInv, PushInv, ReverseInv
<1>8. CASE r # 0
  <2>1. r \in 1..HowMany /\ list = s[r] /\ s[r] \in Addr /\ heap[s[r]] \in Bin
    BY <1>2, <1>3, <1>5, <1>6, <1>8
  <2>2. /\ phase' = "reverse" /\ rev' = s[r] /\ list' = heap[s[r]].next
        /\ heap' = [heap EXCEPT ![s[r]].next = rev]
    BY <1>1, <1>2, <2>1 DEF ReverseBins
  <2>3. rev \in Addr \cup {NULL}
    <3>1. r # HowMany => r + 1 \in 1..HowMany
      BY <1>5, <2>1
    <3> QED
      BY <1>3, <1>6, <3>1 DEF Newer
  <2>4. /\ heap'[s[r]] \in Bin /\ heap'[s[r]].next = rev /\ heap'[s[r]].bin = heap[s[r]].bin
        /\ \A a \in Addr : a # s[r] => heap'[a] = heap[a]
        /\ heap' \in [Addr -> Bin \cup {NULL}]
    <3> DEFINE x == [heap[s[r]] EXCEPT !.next = rev]
    <3>1. x \in Bin /\ x.next = rev /\ x.bin = heap[s[r]].bin
      BY <2>1, <2>3 DEF Bin
    <3>2. heap' = [heap EXCEPT ![s[r]] = x]
      BY <2>2
    <3> HIDE DEF x
    <3> QED
      BY <1>2, <2>1, <3>1, <3>2
  <2>5. \A k \in 1..HowMany : k # r => heap'[s[k]] = heap[s[k]]
    BY <1>6, <2>1, <2>4
  <2>6. BaosType'
    BY <1>1, <1>2, <2>2, <2>4 DEF BaosType
  <2>7. Kept(s, 0)'
    <3>1. \A k \in 1..HowMany : heap'[s[k]] # NULL
      BY <1>2, <1>6, <2>4, <2>5
    <3>2. \A a \in Addr : heap'[a] # NULL => \E k \in 1..HowMany : s[k] = a
      BY <1>6, <2>1, <2>4
    <3>3. \A k \in 1..HowMany : heap'[s[k]].bin = heap[s[k]].bin
      BY <2>4, <2>5
    <3>4. \A k \in 1..HowMany, j \in 0..SIZE - 1 :
            In(k - 1) + j < count' => heap'[s[k]].bin[j] = written'[In(k - 1) + j + 1]
      BY <1>1, <1>6, <3>3
    <3>5. 0 + 1 = 1
      OBVIOUS
    <3> QED
      BY <1>5, <1>6, <3>1, <3>2, <3>4, <3>5 DEF Kept, In
  <2>8. PICK q : q = r - 1
    OBVIOUS
  <2>9. q \in 0..HowMany /\ q + 1 = r /\ q # HowMany
    BY <1>5, <2>1, <2>8
  <2>10. \A k \in 1..q : heap'[s[k]].next = Older(s, k)'
    <3>1. ASSUME NEW k \in 1..q PROVE k \in 1..r /\ k \in 1..HowMany /\ k # r
      BY <1>5, <2>1, <2>9
    <3> QED
      BY <1>3, <2>5, <3>1 DEF Older
  <2>11. \A k \in q + 1..HowMany : heap'[s[k]].next = Newer(s, k)'
    <3>1. ASSUME NEW k \in q + 1..HowMany PROVE k \in 1..HowMany /\ (k # r => k \in r + 1..HowMany)
      BY <1>5, <2>1, <2>9
    <3>2. ASSUME NEW k \in q + 1..HowMany PROVE heap'[s[k]].next = Newer(s, k)
      BY <1>3, <2>4, <2>5, <3>1
    <3> QED
      BY <1>5, <3>2 DEF Newer
  <2>12. list' = IF q = 0 THEN NULL ELSE s[q]
    <3>1. heap[s[r]].next = Older(s, r)
      BY <1>3, <2>1
    <3> QED
      BY <2>1, <2>2, <2>8, <3>1 DEF Older
  <2>13. rev' = Newer(s, q)'
    BY <1>5, <2>2, <2>9 DEF Newer
  <2>14. ReverseInv'
    <3>1. count' > 0 /\ outp' = 0 /\ array' \in [1..count' -> {Unset}]
      BY <1>1, <1>4
    <3> QED
      BY <1>5, <2>7, <2>9, <2>10, <2>11, <2>12, <2>13, <3>1, Zenon DEF ReverseInv
  <2> QED
    BY <2>2, <2>6, <2>14 DEF BaosInv, PushInv, CopyInv
<1> QED
  BY <1>7, <1>8

(* What is copied of the bin after the r oldest: all that was pushed to it.*)
LEMMA Share ==
  ASSUME BaosType, phase = "copy", NEW s, NEW r \in 0..HowMany - 1, Kept(s, r),
         list = s[r + 1], heap[s[r + 1]].next = Newer(s, r + 1)
  PROVE  /\ Copied \in 0..SIZE /\ In(r) + Copied <= count
         /\ r + 1 # HowMany => Copied = SIZE
         /\ r + 1 = HowMany => In(r) + Copied = count
<1>1. /\ count \in Nat /\ HowMany = count \div SIZE + 1 /\ SIZE \in Nat \ {0} /\ NULL \notin Addr
  BY BaosConstants DEF BaosType, HowMany
<1>2. /\ count \div SIZE \in Nat /\ count % SIZE \in 0..SIZE - 1
      /\ count = In(count \div SIZE) + (count % SIZE)
  BY <1>1, Offsets
<1>3. r \in Nat /\ HowMany \in Nat /\ In(r) \in Nat
  <2>1. r \in Nat /\ HowMany \in Nat
    BY <1>1, <1>2
  <2> QED
    BY <2>1, Offsets
<1>4. CASE r + 1 = HowMany
  <2>1. r = count \div SIZE
    BY <1>1, <1>2, <1>3, <1>4
  <2>2. Copied = count % SIZE
    BY <1>4 DEF Copied, Newer
  <2> HIDE DEF Copied
  <2> QED
    BY <1>1, <1>2, <1>3, <1>4, <2>1, <2>2
<1>5. CASE r + 1 # HowMany
  <2>1. r < count \div SIZE /\ r + 2 \in 1..HowMany /\ r + 1 + 1 = r + 2
    BY <1>1, <1>2, <1>3, <1>5
  <2>2. s[r + 2] \in Addr
    BY <2>1 DEF Kept
  <2>3. Copied = SIZE
    BY <1>1, <1>5, <2>1, <2>2 DEF Copied, Newer
  <2>4. In(r) + SIZE <= In(count \div SIZE) /\ In(count \div SIZE) \in Nat
    BY <1>2, <1>3, <2>1, Offsets
  <2> HIDE DEF Copied
  <2> QED
    BY <1>1, <1>2, <1>3, <1>5, <2>3, <2>4
<1> QED
  BY <1>4, <1>5

LEMMA CopyStep == BaosInv /\ CopyBin => BaosInv' /\ UNCHANGED <<written, out>>
<1> SUFFICES ASSUME BaosInv, CopyBin PROVE BaosInv'
  BY DEF CopyBin
<1>1. /\ phase = "copy" /\ list # NULL /\ outp' = outp + SIZE
      /\ heap' = [heap EXCEPT ![list] = NULL] /\ list' = heap[list].next
      /\ UNCHANGED <<phase, count, bins, bin, rev, out, written>>
  BY DEF CopyBin
<1>2. /\ heap \in [Addr -> Bin \cup {NULL}] /\ written \in [1..count -> Byte]
      /\ count \in 0..MaxCount /\ count \in Nat /\ BaosType
      /\ SIZE \in Nat \ {0} /\ NULL \notin Addr /\ NULL \notin Bin
  BY <1>1, BaosConstants DEF BaosInv, BaosType
<1>3. PICK s, r : /\ Kept(s, r) /\ r \in 0..HowMany /\ outp = In(r)
                  /\ \A k \in r + 1..HowMany : heap[s[k]].next = Newer(s, k)
                  /\ list = Newer(s, r)
  BY <1>1 DEF BaosInv, CopyInv
<1>4. /\ count > 0 /\ array \in [1..count -> Byte \cup {Unset}]
      /\ \A k \in 1..count : k <= outp => array[k] = written[k]
  BY <1>1 DEF BaosInv, CopyInv
<1>5. HowMany \in Nat \ {0} /\ HowMany' = HowMany
  <2>1. count \div SIZE \in Nat
    BY <1>2, Offsets
  <2> QED
    BY <1>1, <2>1 DEF HowMany
<1>6. r \in 0..HowMany - 1 /\ list = s[r + 1] /\ r \in Nat
  BY <1>1, <1>3, <1>5 DEF Newer
<1>7. PICK q : q = r + 1
  OBVIOUS
<1>8. q \in 1..HowMany /\ q \in r + 1..HowMany /\ q - 1 = r
  BY <1>5, <1>6, <1>7
<1>9. /\ s \in [1..HowMany -> Addr]
      /\ \A j, k \in 1..HowMany : s[j] = s[k] => j = k
      /\ \A k \in q..HowMany : heap[s[k]] # NULL
      /\ \A a \in Addr : heap[a] # NULL => \E k \in q..HowMany : s[k] = a
      /\ \A k \in q..HowMany, j \in 0..SIZE - 1 :
           In(k - 1) + j < count => heap[s[k]].bin[j] = written[In(k - 1) + j + 1]
  BY <1>3, <1>7 DEF Kept
<1>10. /\ s[q] \in Addr /\ heap[s[q]] \in Bin /\ list = s[q] /\ heap[s[q]].next = Newer(s, q)
  BY <1>2, <1>3, <1>6, <1>7, <1>8, <1>9
<1>11. PICK c : c = Copied
  OBVIOUS
<1>12. /\ c \in 0..SIZE /\ outp + c <= count
       /\ q # HowMany => c = SIZE
       /\ q = HowMany => outp + c = count
  BY <1>1, <1>2, <1>3, <1>6, <1>7, <1>10, <1>11, Share
<1>13. outp \in Nat /\ outp' = In(q) /\ outp' \in Nat
  BY <1>1, <1>3, <1>6, <1>7, Offsets
<1>14. ASSUME NEW k \in 1..count, k > outp, k <= outp + c
       PROVE  heap[list].bin[k - outp - 1] = written[k] /\ written[k] \in Byte
  <2> DEFINE j == k - outp - 1
  <2>1. j \in 0..SIZE - 1 /\ outp + j < count /\ outp + j + 1 = k
    BY <1>2, <1>12, <1>13, <1>14
  <2>2. In(q - 1) = outp
    BY <1>3, <1>8
  <2>3. q \in q..HowMany
    BY <1>8
  <2> HIDE DEF j
  <2>4. heap[s[q]].bin[j] = written[In(q - 1) + j + 1]
    BY <1>9, <2>1, <2>2, <2>3
  <2> QED
    BY <1>2, <1>10, <2>1, <2>2, <2>4 DEF j
<1>15. array' = [k \in 1..count |-> IF k > outp /\ k <= outp + c
                                    THEN heap[list].bin[k - outp - 1] ELSE array[k]]
  <2>1. DOMAIN array = 1..count
    BY <1>4
  <2> QED
    BY <1>11, <2>1 DEF CopyBin
<1>16. array' \in [1..count -> Byte \cup {Unset}]
  <2>1. \A k \in 1..count : array'[k] \in Byte \cup {Unset}
    BY <1>4, <1>14, <1>15
  <2> QED
    BY <1>15, <2>1
<1>17. ASSUME NEW k \in 1..count, k <= outp' PROVE array'[k] = written[k]
  <2>1. CASE k <= outp
    <3>1. array'[k] = array[k]
      BY <1>13, <1>15, <2>1
    <3> QED
      BY <1>4, <2>1, <3>1
  <2>2. CASE ~ (k <= outp)
    <3>1. k > outp /\ k <= outp + c
      BY <1>1, <1>2, <1>12, <1>13, <1>17, <2>2
    <3> QED
      BY <1>14, <1>15, <3>1
  <2> QED
    BY <2>1, <2>2
<1>18. /\ heap' \in [Addr -> Bin \cup {NULL}] /\ heap'[s[q]] = NULL
       /\ \A a \in Addr : a # s[q] => heap'[a] = heap[a]
  BY <1>1, <1>2, <1>10
<1>19. ASSUME NEW k \in q + 1..HowMany
       PROVE  k \in 1..HowMany /\ k \in q..HowMany /\ heap'[s[k]] = heap[s[k]] /\ s[k] # s[q]
  <2>1. k \in 1..HowMany /\ k \in q..HowMany /\ k # q
    BY <1>8
  <2> QED
    BY <1>8, <1>9, <1>18, <2>1
<1>20. Kept(s, q)'
  <2>1. \A k \in q + 1..HowMany : heap'[s[k]] # NULL
    BY <1>9, <1>19
  <2>2. ASSUME NEW a \in Addr, heap'[a] # NULL PROVE \E k \in q + 1..HowMany : s[k] = a
    <3>1. a # s[q] /\ heap[a] # NULL
      BY <1>18, <2>2
    <3>2. PICK k \in q..HowMany : s[k] = a
      BY <1>9, <3>1
    <3>3. k \in q + 1..HowMany
      BY <1>8, <3>1, <3>2
    <3> QED
      BY <3>2, <3>3
  <2>3. \A k \in q + 1..HowMany, j \in 0..SIZE - 1 :
          In(k - 1) + j < count' => heap'[s[k]].bin[j] = written'[In(k - 1) + j + 1]
    BY <1>1, <1>9, <1>19
  <2> QED
    BY <1>5, <1>9, <2>1, <2>2, <2>3 DEF Kept, In
<1>21. CopyInv'
  <2>1. \A k \in q + 1..HowMany' : heap'[s[k]].next = Newer(s, k)'
    <3>1. \A k \in q + 1..HowMany : k \in r + 1..HowMany
      BY <1>7, <1>8, <1>6
    <3>2. \A k \in q + 1..HowMany : heap'[s[k]].next = Newer(s, k)
      BY <1>3, <1>19, <3>1
    <3> QED
      BY <1>5, <3>2 DEF Newer
  <2>2. list' = Newer(s, q)'
    BY <1>1, <1>5, <1>10 DEF Newer
  <2>3. count' > 0 /\ array' \in [1..count' -> Byte \cup {Unset}] /\ outp' = In(q)'
    BY <1>1, <1>4, <1>13, <1>16 DEF In
  <2>4. \A k \in 1..count' : k <= outp' => array'[k] = written'[k]
    BY <1>1, <1>17
  <2>5. q \in 0..HowMany'
    BY <1>5, <1>8
  <2> QED
    BY <1>20, <2>1, <2>2, <2>3, <2>4, <2>5, Zenon DEF CopyInv
<1>22. BaosType'
  BY <1>1, <1>2, <1>18 DEF BaosType
<1> QED
  BY <1>1, <1>21, <1>22 DEF BaosInv, PushInv, ReverseInv

LEMMA ReturnStep == BaosInv /\ Return => BaosInv' /\ S!ToArray
<1> SUFFICES ASSUME BaosInv, Return PROVE BaosInv' /\ S!ToArray
  OBVIOUS
<1>1. /\ phase = "copy" /\ list = NULL /\ out' = array /\ phase' = "none" /\ written' = NULL
      /\ heap' = heap /\ count' = count
  BY DEF Return
<1>2. /\ heap \in [Addr -> Bin \cup {NULL}] /\ written \in [1..count -> Byte]
      /\ count \in 0..MaxCount /\ count \in Nat /\ NULL \notin Addr /\ SIZE \in Nat \ {0}
  BY <1>1, BaosConstants DEF BaosInv, BaosType
<1>3. PICK s, r : Kept(s, r) /\ r \in 0..HowMany /\ outp = In(r) /\ list = Newer(s, r)
  BY <1>1 DEF BaosInv, CopyInv
<1>4. /\ count > 0 /\ array \in [1..count -> Byte \cup {Unset}]
      /\ \A k \in 1..count : k <= outp => array[k] = written[k]
  BY <1>1 DEF BaosInv, CopyInv
<1>5. HowMany \in Nat /\ HowMany = count \div SIZE + 1 /\ count \div SIZE \in Nat
  <2>1. count \div SIZE \in Nat
    BY <1>2, Offsets
  <2> QED
    BY <2>1 DEF HowMany
<1>6. r = HowMany
  <2>1. r # HowMany => r + 1 \in 1..HowMany
    BY <1>3, <1>5
  <2>2. s \in [1..HowMany -> Addr]
    BY <1>3 DEF Kept
  <2> QED
    BY <1>1, <1>2, <1>3, <2>1, <2>2 DEF Newer
<1>7. outp > count
  <2>1. /\ count % SIZE \in 0..SIZE - 1 /\ count = In(count \div SIZE) + (count % SIZE)
    BY <1>2, Offsets
  <2>2. In(HowMany) = In(count \div SIZE) + SIZE /\ In(count \div SIZE) \in Nat
    BY <1>5, Offsets
  <2> QED
    BY <1>2, <1>3, <1>6, <2>1, <2>2
<1>8. array = written
  <2>1. \A k \in 1..count : array[k] = written[k]
    <3>1. outp \in Nat
      BY <1>3, <1>5, <1>6, Offsets
    <3>2. \A k \in 1..count : k <= outp
      BY <1>2, <1>7, <3>1
    <3> QED
      BY <1>4, <3>2
  <2> QED
    BY <1>2, <1>4, <2>1
<1>9. written # <<>> /\ written # NULL
  <2>1. Len(written) = count
    BY <1>2
  <2> QED
    BY <1>2, <1>4, <2>1, BaosConstants
<1>10. \A a \in Addr : heap[a] = NULL
  <2>1. \A k \in HowMany + 1..HowMany : FALSE
    BY <1>5
  <2> QED
    BY <1>3, <1>6, <2>1 DEF Kept
<1>11. BaosType'
  BY <1>1, <1>2, <1>10 DEF BaosType
<1>12. S!ToArray
  BY <1>1, <1>8, <1>9 DEF S!ToArray
<1> QED
  BY <1>1, <1>11, <1>12 DEF BaosInv, PushInv, ReverseInv, CopyInv

LEMMA StreamStep == BaosInv /\ [Next]_vars => BaosInv' /\ [S!Next]_<<written, out>>
<1> SUFFICES ASSUME BaosInv, [Next]_vars PROVE BaosInv' /\ [S!Next]_<<written, out>>
  OBVIOUS
<1>1. CASE baos_new
  BY <1>1, NewStep DEF S!Next
<1>2. CASE \E b \in Byte : baos_push(b)
  BY <1>2, PushStep DEF S!Next
<1>3. CASE ToNothing
  BY <1>3, NothingStep DEF S!Next
<1>4. CASE ToArray
  BY <1>4, ToArrayStep
<1>5. CASE ReverseBins
  BY <1>5, ReverseStep
<1>6. CASE CopyBin
  BY <1>6, CopyStep
<1>7. CASE Return
  BY <1>7, ReturnStep DEF S!Next
<1>8. CASE UNCHANGED vars
  <2>1. /\ phase' = phase /\ heap' = heap /\ count' = count /\ bins' = bins /\ bin' = bin
        /\ list' = list /\ rev' = rev /\ array' = array /\ outp' = outp
        /\ written' = written /\ out' = out
    BY <1>8 DEF vars
  <2>2. BaosType'
    BY <2>1 DEF BaosInv, BaosType
  <2>3. /\ HowMany' = HowMany /\ \A s, k : Kept(s, k)' <=> Kept(s, k)
        /\ \A s, k : Older(s, k)' = Older(s, k) /\ Newer(s, k)' = Newer(s, k)
        /\ \A k : In(k)' = In(k)
    BY <2>1, ZenonT(30) DEF Kept, HowMany, In, Older, Newer
  <2>4. PushInv'
    BY <2>1, <2>3, Zenon DEF BaosInv, PushInv
  <2>5. ReverseInv'
    BY <2>1, <2>3, Zenon DEF BaosInv, ReverseInv
  <2>6. CopyInv'
    BY <2>1, <2>3, Zenon DEF BaosInv, CopyInv
  <2> QED
    BY <2>1, <2>2, <2>4, <2>5, <2>6 DEF BaosInv
<1> QED
  BY <1>1, <1>2, <1>3, <1>4, <1>5, <1>6, <1>7, <1>8 DEF Next

(* The chains of bins.                                                     *)
IsReach(h, p, n, v) ==
  v = [k \in 1..n |-> IF k = 1 THEN p ELSE IF v[k - 1] = NULL THEN NULL ELSE h[v[k - 1]].next]

ReachOf(h, p, n) ==
  LET at[k \in 1..n] ==
        IF k = 1 THEN p ELSE IF at[k - 1] = NULL THEN NULL ELSE h[at[k - 1]].next
  IN {at[k] : k \in DOMAIN at} \ {NULL}

LEMMA OneReach ==
  ASSUME NEW h, NEW p, NEW n \in Nat \ {0}, NEW v, NEW w, IsReach(h, p, n, v), IsReach(h, p, n, w)
  PROVE  v = w
<1> DEFINE Q == {k \in 1..n : v[k] = w[k]}
<1>1. \A u : IsReach(h, p, n, u) => \A k \in 1..n :
        u[k] = IF k = 1 THEN p ELSE IF u[k - 1] = NULL THEN NULL ELSE h[u[k - 1]].next
  BY DEF IsReach
<1>2. 1 \in Q
  BY <1>1
<1>3. ASSUME NEW k \in 1..n - 1, k \in Q PROVE k + 1 \in Q
  <2>1. k + 1 \in 1..n /\ k + 1 # 1 /\ (k + 1) - 1 = k /\ v[k] = w[k]
    BY <1>3
  <2>2. v[k + 1] = IF v[k] = NULL THEN NULL ELSE h[v[k]].next
    BY <1>1, <2>1
  <2>3. w[k + 1] = IF w[k] = NULL THEN NULL ELSE h[w[k]].next
    BY <1>1, <2>1
  <2> QED
    BY <2>1, <2>2, <2>3
<1>4. 1..n \subseteq Q
  <2> HIDE DEF Q
  <2> QED
    BY <1>2, <1>3, IntervalIsInductive
<1>5. \A k \in 1..n : v[k] = w[k]
  BY <1>4
<1> QED
  BY <1>5 DEF IsReach

(* The bins of t are linked one after the other, from p to the end.        *)
Linking(h, p, m, t) ==
  /\ t \in [1..m -> Addr]
  /\ \A j, k \in 1..m : t[j] = t[k] => j = k
  /\ \A k \in 1..m : h[t[k]].next = IF k = m THEN NULL ELSE t[k + 1]
  /\ p = IF m = 0 THEN NULL ELSE t[1]

LEMMA Reached ==
  ASSUME NEW h, NEW p, NEW m \in Nat, NEW t, Linking(h, p, m, t),
         NEW n, n = Cardinality(Addr) + 1
  PROVE  ReachOf(h, p, n) = {t[k] : k \in 1..m}
<1> DEFINE at[k \in 1..n] ==
             IF k = 1 THEN p ELSE IF at[k - 1] = NULL THEN NULL ELSE h[at[k - 1]].next
           w == [k \in 1..n |-> IF k <= m THEN t[k] ELSE NULL]
<1>1. n \in Nat \ {0} /\ m + 1 <= n /\ NULL \notin Addr
  <2>1. t \in Injection(1..m, Addr)
    BY DEF Linking, Injection, IsInjective
  <2>2. IsFiniteSet(Addr) /\ NULL \notin Addr /\ Cardinality(1..m) = m
    <3>1. 1 \in Int /\ m \in Int
      OBVIOUS
    <3> QED
      BY <3>1, BaosConstants, FS_Interval
  <2>3. Cardinality(1..m) <= Cardinality(Addr)
    BY <2>1, <2>2, FS_Injection
  <2>4. Cardinality(Addr) \in Nat
    BY <2>2, FS_CardinalityType
  <2> QED
    BY <2>2, <2>3, <2>4
<1>2. /\ t \in [1..m -> Addr]
      /\ \A k \in 1..m : h[t[k]].next = IF k = m THEN NULL ELSE t[k + 1]
      /\ p = IF m = 0 THEN NULL ELSE t[1]
  BY DEF Linking
<1>3. \A k \in 1..n : w[k] = IF k <= m THEN t[k] ELSE NULL
  OBVIOUS
<1>4. DOMAIN w = 1..n
  OBVIOUS
<1>5. IsReach(h, p, n, w)
  <2> HIDE DEF w
  <2>1. ASSUME NEW k \in 1..n
        PROVE  w[k] = IF k = 1 THEN p ELSE IF w[k - 1] = NULL THEN NULL ELSE h[w[k - 1]].next
    <3>1. CASE k = 1
      BY <1>1, <1>2, <1>3, <3>1
    <3>2. CASE k # 1 /\ k - 1 <= m
      <4>1. k - 1 \in 1..m /\ k - 1 \in 1..n /\ w[k - 1] = t[k - 1] /\ t[k - 1] \in Addr
        BY <1>1, <1>2, <1>3, <3>2
      <4>2. h[t[k - 1]].next = IF k - 1 = m THEN NULL ELSE t[k]
        BY <1>1, <1>2, <4>1
      <4>3. w[k] = IF k - 1 = m THEN NULL ELSE t[k]
        BY <1>1, <1>3, <3>2
      <4> QED
        BY <1>1, <3>2, <4>1, <4>2, <4>3
    <3>3. CASE k # 1 /\ ~ (k - 1 <= m)
      <4>1. k - 1 \in 1..n /\ w[k - 1] = NULL /\ w[k] = NULL
        BY <1>1, <1>3, <3>3
      <4> QED
        BY <3>3, <4>1
    <3> QED
      BY <3>1, <3>2, <3>3
  <2>2. w = [k \in 1..n |-> w[k]]
    BY DEF w
  <2> QED
    BY <2>1, <2>2 DEF IsReach
<1>6. at = w
  <2>1. at = CHOOSE v : IsReach(h, p, n, v)
    BY Zenon DEF IsReach
  <2> HIDE DEF at, w
  <2>2. IsReach(h, p, n, at)
    BY <1>5, <2>1
  <2> QED
    BY <1>1, <1>5, <2>2, OneReach
<1>7. ReachOf(h, p, n) = {at[k] : k \in DOMAIN at} \ {NULL}
  BY Zenon DEF ReachOf
<1> HIDE DEF at, w
<1>8. {w[k] : k \in 1..n} \ {NULL} = {t[k] : k \in 1..m}
  <2>1. ASSUME NEW k \in 1..m PROVE k \in 1..n /\ w[k] = t[k] /\ t[k] # NULL
    BY <1>1, <1>2, <1>3
  <2>2. ASSUME NEW k \in 1..n, w[k] # NULL PROVE k \in 1..m /\ w[k] = t[k]
    BY <1>1, <1>3, <2>2
  <2> QED
    BY <2>1, <2>2
<1> QED
  BY <1>4, <1>6, <1>7, <1>8

LEMMA ChainReaches == \A p : Chain(p) = ReachOf(heap, p, Cardinality(Addr) + 1)
BY Zenon DEF Chain, ReachOf

(* The bins up to the r-th, as they are linked before the reversal, and    *)
(* those after it, as they are linked by it.                               *)
LEMMA ChainDown ==
  ASSUME count \in Nat, NEW s, NEW past, Kept(s, past), NEW r \in 0..HowMany,
         \A k \in 1..r : heap[s[k]].next = Older(s, k)
  PROVE  Chain(IF r = 0 THEN NULL ELSE s[r]) = {s[k] : k \in 1..r}
<1>1. HowMany \in Nat /\ r \in Nat
  <2>1. count \div SIZE \in Nat
    BY Offsets
  <2> QED
    BY <2>1 DEF HowMany
<1>2. /\ s \in [1..HowMany -> Addr]
      /\ \A j, k \in 1..HowMany : s[j] = s[k] => j = k
  BY DEF Kept
<1>a. PICK t : t = [k \in 1..r |-> s[r + 1 - k]]
  OBVIOUS
<1>3. /\ t \in [1..r -> Addr]
      /\ \A k \in 1..r : t[k] = s[r + 1 - k] /\ r + 1 - k \in 1..r /\ r + 1 - k \in 1..HowMany
  BY <1>a, <1>1, <1>2
<1>4. \A j, k \in 1..r : t[j] = t[k] => j = k
  <2> SUFFICES ASSUME NEW j \in 1..r, NEW k \in 1..r, t[j] = t[k] PROVE j = k
    OBVIOUS
  <2>1. r + 1 - j = r + 1 - k
    BY <1>2, <1>3
  <2> QED
    BY <1>1, <2>1
<1>5. ASSUME NEW k \in 1..r PROVE heap[t[k]].next = IF k = r THEN NULL ELSE t[k + 1]
  <2>1. heap[t[k]].next = Older(s, r + 1 - k)
    BY <1>3
  <2>2. CASE k = r
    BY <1>1, <2>1, <2>2 DEF Older
  <2>3. CASE k # r
    <3>1. k + 1 \in 1..r /\ r + 1 - k # 1 /\ r + 1 - k - 1 = r + 1 - (k + 1)
      BY <1>1, <2>3
    <3> QED
      BY <1>3, <2>1, <2>3, <3>1 DEF Older
  <2> QED
    BY <2>2, <2>3
<1>b. PICK p : p = IF r = 0 THEN NULL ELSE s[r]
  OBVIOUS
<1>6. p = IF r = 0 THEN NULL ELSE t[1]
  BY <1>b, <1>1, <1>3
<1>7. Linking(heap, p, r, t)
  BY <1>3, <1>4, <1>5, <1>6 DEF Linking
<1>8. Chain(p) = {t[k] : k \in 1..r}
  <2>1. PICK n : n = Cardinality(Addr) + 1
    OBVIOUS
  <2>2. ReachOf(heap, p, n) = {t[k] : k \in 1..r}
    BY <1>1, <1>7, <2>1, Reached
  <2> QED
    BY <2>1, <2>2, ChainReaches
<1>9. {t[k] : k \in 1..r} = {s[k] : k \in 1..r}
  <2>1. \A k \in 1..r : r + 1 - k \in 1..r /\ t[r + 1 - k] = s[k]
    <3> SUFFICES ASSUME NEW k \in 1..r PROVE r + 1 - k \in 1..r /\ t[r + 1 - k] = s[k]
      OBVIOUS
    <3>1. r + 1 - k \in 1..r /\ r + 1 - (r + 1 - k) = k
      BY <1>1
    <3> QED
      BY <1>3, <3>1
  <2> QED
    BY <1>3, <2>1
<1> QED
  BY <1>b, <1>8, <1>9

LEMMA ChainUp ==
  ASSUME count \in Nat, NEW s, NEW past, Kept(s, past), NEW r \in 0..HowMany,
         \A k \in r + 1..HowMany : heap[s[k]].next = Newer(s, k)
  PROVE  Chain(Newer(s, r)) = {s[k] : k \in r + 1..HowMany}
<1>1. HowMany \in Nat /\ r \in Nat
  <2>1. count \div SIZE \in Nat
    BY Offsets
  <2> QED
    BY <2>1 DEF HowMany
<1>2. /\ s \in [1..HowMany -> Addr]
      /\ \A j, k \in 1..HowMany : s[j] = s[k] => j = k
  BY DEF Kept
<1>a. PICK m : m = HowMany - r
  OBVIOUS
<1>b. PICK t : t = [k \in 1..m |-> s[r + k]]
  OBVIOUS
<1>3. m \in Nat /\ \A k \in 1..m : r + k \in r + 1..HowMany /\ r + k \in 1..HowMany
  BY <1>a, <1>1
<1>4. t \in [1..m -> Addr] /\ \A k \in 1..m : t[k] = s[r + k]
  BY <1>b, <1>2, <1>3
<1>5. \A j, k \in 1..m : t[j] = t[k] => j = k
  <2> SUFFICES ASSUME NEW j \in 1..m, NEW k \in 1..m, t[j] = t[k] PROVE j = k
    OBVIOUS
  <2>1. r + j = r + k
    BY <1>2, <1>3, <1>4
  <2> QED
    BY <1>1, <2>1
<1>6. ASSUME NEW k \in 1..m PROVE heap[t[k]].next = IF k = m THEN NULL ELSE t[k + 1]
  <2>1. heap[t[k]].next = Newer(s, r + k)
    BY <1>3, <1>4
  <2>2. CASE k = m
    <3>1. r + k = HowMany
      BY <1>a, <1>1, <2>2
    <3> QED
      BY <2>1, <2>2, <3>1 DEF Newer
  <2>3. CASE k # m
    <3>1. k + 1 \in 1..m /\ r + k # HowMany /\ r + k + 1 = r + (k + 1)
      BY <1>a, <1>1, <1>3, <2>3
    <3> QED
      BY <1>4, <2>1, <2>3, <3>1 DEF Newer
  <2> QED
    BY <2>2, <2>3
<1>c. PICK p : p = Newer(s, r)
  OBVIOUS
<1>7. p = IF m = 0 THEN NULL ELSE t[1]
  <2>1. CASE m = 0
    BY <1>a, <1>c, <1>1, <2>1 DEF Newer
  <2>2. CASE m # 0
    <3>1. 1 \in 1..m /\ r # HowMany
      BY <1>a, <1>1, <1>3, <2>2
    <3> QED
      BY <1>c, <1>4, <2>2, <3>1 DEF Newer
  <2> QED
    BY <2>1, <2>2
<1>8. Linking(heap, p, m, t)
  BY <1>4, <1>5, <1>6, <1>7 DEF Linking
<1>9. Chain(p) = {t[k] : k \in 1..m}
  <2>1. PICK n : n = Cardinality(Addr) + 1
    OBVIOUS
  <2>2. ReachOf(heap, p, n) = {t[k] : k \in 1..m}
    BY <1>3, <1>8, <2>1, Reached
  <2> QED
    BY <2>1, <2>2, ChainReaches
<1>10. {t[k] : k \in 1..m} = {s[k] : k \in r + 1..HowMany}
  <2>1. ASSUME NEW k \in r + 1..HowMany PROVE k - r \in 1..m /\ t[k - r] = s[k]
    <3>1. k - r \in 1..m /\ r + (k - r) = k
      BY <1>a, <1>1
    <3> QED
      BY <1>4, <3>1
  <2>2. \A k \in 1..m : r + k \in r + 1..HowMany /\ t[k] = s[r + k]
    BY <1>3, <1>4
  <2>3. ASSUME NEW x \in {t[k] : k \in 1..m} PROVE x \in {s[k] : k \in r + 1..HowMany}
    <3>1. PICK k \in 1..m : x = t[k]
      OBVIOUS
    <3> QED
      BY <2>2, <3>1
  <2>4. ASSUME NEW x \in {s[k] : k \in r + 1..HowMany} PROVE x \in {t[k] : k \in 1..m}
    <3>1. PICK k \in r + 1..HowMany : x = s[k]
      OBVIOUS
    <3> QED
      BY <2>1, <3>1
  <2> QED
    BY <2>3, <2>4
<1> QED
  BY <1>c, <1>9, <1>10

LEMMA AllAllocated ==
  ASSUME count \in Nat, NEW s, NEW r \in 0..HowMany, Kept(s, r)
  PROVE  Allocated = {s[k] : k \in r + 1..HowMany}
<1>1. HowMany \in Nat /\ r \in Nat
  <2>1. count \div SIZE \in Nat
    BY Offsets
  <2> QED
    BY <2>1 DEF HowMany
<1>2. \A k \in r + 1..HowMany : s[k] \in Addr /\ heap[s[k]] # NULL
  BY <1>1 DEF Kept
<1>3. \A a \in Addr : heap[a] # NULL => \E k \in r + 1..HowMany : s[k] = a
  BY DEF Kept
<1> QED
  BY <1>2, <1>3 DEF Allocated

LEMMA StreamLosesNothing == BaosInv => NothingLost
<1> SUFFICES ASSUME BaosInv PROVE NothingLost
  OBVIOUS
<1>1. /\ phase \in {"none", "push", "reverse", "copy"} /\ count \in Nat
      /\ phase = "none" => \A a \in Addr : heap[a] = NULL
  BY BaosConstants DEF BaosInv, BaosType
<1>2. HowMany \in Nat \ {0}
  <2>1. count \div SIZE \in Nat
    BY <1>1, Offsets
  <2> QED
    BY <2>1 DEF HowMany
<1>3. CASE phase = "none"
  <2>1. Allocated = {}
    BY <1>1, <1>3 DEF Allocated
  <2> QED
    BY <1>3, <2>1 DEF NothingLost
<1>4. CASE phase = "push"
  <2>1. PICK s : /\ Kept(s, 0)
                 /\ \A k \in 1..HowMany : heap[s[k]].next = Older(s, k)
                 /\ bins = s[HowMany]
    BY <1>4 DEF BaosInv, PushInv
  <2>2. HowMany \in 0..HowMany /\ 0 \in 0..HowMany /\ HowMany # 0 /\ 0 + 1 = 1
    BY <1>2
  <2>3. Chain(IF HowMany = 0 THEN NULL ELSE s[HowMany]) = {s[k] : k \in 1..HowMany}
    BY <1>1, <2>1, <2>2, ChainDown
  <2>4. Allocated = {s[k] : k \in 1..HowMany}
    BY <1>1, <2>1, <2>2, AllAllocated
  <2>5. Allocated = Chain(bins)
    BY <2>1, <2>2, <2>3, <2>4
  <2> QED
    BY <1>4, <2>5 DEF NothingLost
<1>5. CASE phase = "reverse"
  <2>1. PICK s, r : /\ Kept(s, 0) /\ r \in 0..HowMany
                    /\ \A k \in 1..r : heap[s[k]].next = Older(s, k)
                    /\ \A k \in r + 1..HowMany : heap[s[k]].next = Newer(s, k)
                    /\ list = (IF r = 0 THEN NULL ELSE s[r])
                    /\ rev = Newer(s, r)
    BY <1>5 DEF BaosInv, ReverseInv
  <2>2. Chain(list) = {s[k] : k \in 1..r}
    BY <1>1, <2>1, ChainDown
  <2>3. Chain(rev) = {s[k] : k \in r + 1..HowMany}
    BY <1>1, <2>1, ChainUp
  <2>4. Allocated = {s[k] : k \in 1..HowMany}
    <3>1. 0 \in 0..HowMany /\ 0 + 1 = 1
      BY <1>2
    <3> QED
      BY <1>1, <2>1, <3>1, AllAllocated
  <2>5. {s[k] : k \in 1..r} \cup {s[k] : k \in r + 1..HowMany} = {s[k] : k \in 1..HowMany}
    <3>1. (1..r) \cup (r + 1..HowMany) = 1..HowMany
      BY <1>2, <2>1
    <3> QED
      BY <3>1
  <2>6. Allocated = Chain(list) \cup Chain(rev)
    BY <2>2, <2>3, <2>4, <2>5
  <2> QED
    BY <1>5, <2>6 DEF NothingLost
<1>6. CASE phase = "copy"
  <2>1. PICK s, r : /\ Kept(s, r) /\ r \in 0..HowMany
                    /\ \A k \in r + 1..HowMany : heap[s[k]].next = Newer(s, k)
                    /\ list = Newer(s, r)
    BY <1>6 DEF BaosInv, CopyInv
  <2>2. Chain(list) = {s[k] : k \in r + 1..HowMany}
    BY <1>1, <2>1, ChainUp
  <2>3. Allocated = Chain(list)
    BY <1>1, <2>1, <2>2, AllAllocated
  <2> QED
    BY <1>6, <2>3 DEF NothingLost
<1> QED
  BY <1>1, <1>3, <1>4, <1>5, <1>6

LEMMA StreamCopiesInside == BaosInv => CopiesInside
<1> SUFFICES ASSUME BaosInv PROVE CopiesInside
  OBVIOUS
<1>1. count \in Nat /\ BaosType
  BY BaosConstants DEF BaosInv, BaosType
<1>2. HowMany \in Nat \ {0}
  <2>1. count \div SIZE \in Nat
    BY <1>1, Offsets
  <2> QED
    BY <2>1 DEF HowMany
<1>3. ASSUME phase = "push" PROVE bin \in Allocated /\ bin = bins
  <2>1. PICK s : Kept(s, 0) /\ bins = s[HowMany] /\ bin = bins
    BY <1>3 DEF BaosInv, PushInv
  <2>2. 0 \in 0..HowMany /\ HowMany \in 0 + 1..HowMany
    BY <1>2
  <2>3. Allocated = {s[k] : k \in 0 + 1..HowMany}
    BY <1>1, <2>1, <2>2, AllAllocated
  <2> QED
    BY <2>1, <2>2, <2>3
<1>4. ASSUME phase = "copy", list # NULL PROVE outp + Copied <= count
  <2>1. PICK s, r : /\ Kept(s, r) /\ r \in 0..HowMany /\ outp = In(r)
                    /\ \A k \in r + 1..HowMany : heap[s[k]].next = Newer(s, k)
                    /\ list = Newer(s, r)
    BY <1>4 DEF BaosInv, CopyInv
  <2>2. r # HowMany /\ r \in 0..HowMany - 1 /\ list = s[r + 1] /\ r + 1 \in r + 1..HowMany
    BY <1>2, <1>4, <2>1 DEF Newer
  <2>3. heap[s[r + 1]].next = Newer(s, r + 1)
    BY <2>1, <2>2
  <2>4. In(r) + Copied <= count
    BY <1>1, <1>4, <2>1, <2>2, <2>3, Share
  <2> QED
    BY <2>1, <2>4
<1> QED
  BY <1>3, <1>4 DEF CopiesInside

LEMMA StreamStays ==
  /\ AllInit => BaosInv /\ S!Init
  /\ BaosInv /\ [AllNext]_<<used, ringVars, listVars, stringVars, vars>>
       => BaosInv' /\ [S!Next]_<<written, out>>
<1>1. [AllNext]_<<used, ringVars, listVars, stringVars, vars>> => [Next]_vars
  BY DEF AllNext
<1> QED
  BY <1>1, BaosInit, StreamStep DEF AllInit

(* Every bin malloc gave is in the list, or on either side of the point    *)
(* the reversal has come to, and freed by the time the stream is gone: for *)
(* any size of a bin, any stream, and whatever addresses malloc gives.     *)
THEOREM NoBinIsLost == AllSpec => []NothingLost
<1> QED
  BY StreamStays, StreamLosesNothing, PTL DEF AllSpec

(* A push always has a bin to write to, and no copy of a bin goes past the *)
(* end of the array, whatever share of the last bin is filled.             *)
THEOREM CopyStaysInside == AllSpec => []CopiesInside
<1> QED
  BY StreamStays, StreamCopiesInside, PTL DEF AllSpec

(* The array that a stream becomes is all the bytes that were pushed, in   *)
(* the order they were.                                                    *)
THEOREM StreamIsKept == AllSpec => ImplementsStream
<1> QED
  BY StreamStays, PTL DEF AllSpec, ImplementsStream, S!Spec, S!streamVars
=============================================================================
