--------------------------- MODULE HfcReaderProof ---------------------------
(***************************************************************************)
(* For every list of strings: what the readers decode of it is what was    *)
(* compressed, a search finds what matches, and a merge is the union.      *)
(***************************************************************************)
EXTENDS HfcReader, Induction

-----------------------------------------------------------------------------
(* Numbers.                                                                *)

(* A set of natural numbers with a bound has a greatest one.               *)
LEMMA Greatest ==
  ASSUME NEW T \in SUBSET Nat, T # {}, NEW n \in Nat, \A x \in T : x <= n
  PROVE  Max(T) \in T /\ \A x \in T : x <= Max(T)
<1> DEFINE D == {n - x : x \in T}
<1>1. D \in SUBSET Nat /\ D # {}
  <2>1. PICK x : x \in T
    OBVIOUS
  <2>2. \A d \in D : d \in Nat
    OBVIOUS
  <2>3. n - x \in D
    BY <2>1
  <2> HIDE DEF D
  <2> QED
    BY <2>2, <2>3
<1>2. PICK d \in D : \A e \in D : d <= e
  <2> HIDE DEF D
  <2> QED
    BY <1>1, Least
<1>3. PICK m \in T : d = n - m
  BY <1>2
<1>4. \A x \in T : m >= x
  BY <1>2, <1>3
<1>5. \E m2 \in T : \A x \in T : m2 >= x
  BY <1>4
<1>6. Max(T) \in T /\ \A x \in T : Max(T) >= x
  BY <1>5, Zenon DEF Max
<1> QED
  BY <1>6

LEMMA Lowest ==
  ASSUME NEW T \in SUBSET Nat, NEW m \in T, \A x \in T : m <= x
  PROVE  Min(T) = m
<1>1. \E n \in T : \A x \in T : n <= x
  OBVIOUS
<1>2. Min(T) \in T /\ \A x \in T : Min(T) <= x
  BY <1>1, Zenon DEF Min
<1>3. PICK n : n = Min(T)
  OBVIOUS
<1>4. n \in T /\ n <= m /\ m <= n /\ n \in Nat /\ m \in Nat
  BY <1>2, <1>3
<1> QED
  BY <1>3, <1>4

-----------------------------------------------------------------------------
(* Bytes, and what the decoder that lowers them makes of them.             *)

Bytes == 0..2 * Radix - 1
Byte(fold, b) == IF fold THEN tolower(b) ELSE b
Shown(fold, s) == [k \in DOMAIN s |-> Byte(fold, s[k])]

LEMMA ByteIs ==
  ASSUME NEW fold \in BOOLEAN
  PROVE  /\ \A b \in Char : Byte(fold, b) \in Char
         /\ Byte(fold, 0) = 0 /\ \A b \in Bytes : Byte(fold, b) \in Bytes
         /\ \A b \in Bytes : b >= Radix => Byte(fold, b) = b
<1>1. Upper \subseteq Char /\ Char \subseteq 1..2 * Radix - 1 /\ Radix \in Nat
  BY FrontAssumption
<1>2. \A u \in Upper : u < Radix /\ lower[u] \in Char
  BY FrontAssumption
<1>3. \A b \in Char : tolower(b) \in Char
  BY <1>2 DEF tolower
<1>4. 0 \notin Upper
  BY <1>1
<1>5. tolower(0) = 0
  BY <1>4 DEF tolower
<1>6. \A b \in Bytes : tolower(b) \in Bytes
  <2>1. Char \subseteq Bytes
    BY <1>1 DEF Bytes
  <2> QED
    BY <1>2, <2>1 DEF tolower
<1>7. \A b \in Bytes : b >= Radix => tolower(b) = b
  BY <1>1, <1>2 DEF tolower, Bytes
<1> QED
  BY <1>3, <1>5, <1>6, <1>7 DEF Byte

LEMMA CharsAre ==
  ASSUME NEW s \in Chars
  PROVE  /\ s \in Seq(Char) /\ s \in Seq(Bytes) /\ Len(s) \in 0..Size - 1
         /\ \A k \in 1..Len(s) : s[k] \in Char /\ s[k] # 0 /\ s[k] \in Bytes
<1>1. PICK n \in 0..Size - 1 : s \in [1..n -> Char]
  BY DEF Chars
<1>2. Size \in Nat /\ n \in Nat
  BY FrontAssumption
<1>3. s \in Seq(Char) /\ Len(s) = n
  BY <1>1, <1>2
<1>4. Char \subseteq Bytes /\ 0 \notin Char
  BY FrontAssumption DEF Bytes
<1>5. s \in Seq(Bytes)
  BY <1>3, <1>4
<1> QED
  BY <1>1, <1>3, <1>4, <1>5

LEMMA ShownIs ==
  ASSUME NEW fold \in BOOLEAN, NEW s \in Chars
  PROVE  /\ Shown(fold, s) \in Chars /\ Len(Shown(fold, s)) = Len(s)
         /\ \A k \in 1..Len(s) : Shown(fold, s)[k] = Byte(fold, s[k])
<1>1. PICK n \in 0..Size - 1 : s \in [1..n -> Char]
  BY DEF Chars
<1>2. n \in Nat /\ Len(s) = n /\ DOMAIN s = 1..n
  BY <1>1, FrontAssumption
<1>3. Shown(fold, s) \in [1..n -> Char]
  BY <1>1, <1>2, ByteIs DEF Shown
<1>4. Len(Shown(fold, s)) = n
  BY <1>2, <1>3
<1> QED
  BY <1>2, <1>3, <1>4 DEF Chars, Shown

(* What is in the lowered buffer is the lowered sequence.                  *)
LEMMA AtShown ==
  ASSUME NEW fold \in BOOLEAN, NEW t \in Seq(Bytes), NEW s \in Seq(Bytes), NEW c, IsAt(t, c, s)
  PROVE  /\ IsAt(Shown(fold, t), c, Shown(fold, s))
         /\ Shown(fold, t) \in Seq(Bytes) /\ Len(Shown(fold, t)) = Len(t)
<1>1. PICK l \in Nat, m \in Nat : l = Len(t) /\ m = Len(s)
  OBVIOUS
<1>2. DOMAIN t = 1..l /\ DOMAIN s = 1..m
  BY <1>1
<1>3. PICK T, R : T = Shown(fold, t) /\ R = Shown(fold, s)
  OBVIOUS
<1>4. T = [k \in 1..l |-> Byte(fold, t[k])] /\ R = [k \in 1..m |-> Byte(fold, s[k])]
  BY <1>2, <1>3 DEF Shown
<1>5. T \in [1..l -> Bytes]
  <2>1. \A k \in 1..l : t[k] \in Bytes
    BY <1>1
  <2> QED
    BY <1>4, <2>1, ByteIs
<1>6. T \in Seq(Bytes) /\ Len(T) = l /\ Len(R) = m
  <2>1. \A k \in 1..m : s[k] \in Bytes
    BY <1>1
  <2>2. R \in [1..m -> Bytes]
    BY <1>4, <2>1, ByteIs
  <2> QED
    BY <1>5, <2>2
<1>7. c \in Nat \ {0} /\ c + m <= l + 1 /\ \A k \in 1..m : t[c + k - 1] = s[k]
  BY <1>1 DEF IsAt
<1>8. ASSUME NEW k \in 1..m PROVE T[c + k - 1] = R[k]
  <2>1. c + k - 1 \in 1..l
    BY <1>7
  <2> QED
    BY <1>4, <1>7, <2>1
<1> QED
  BY <1>1, <1>3, <1>6, <1>7, <1>8 DEF IsAt

(* A number as vbyte_encode writes it.                                     *)
IsVbyte(v, n) ==
  \/ v = <<Radix + n>> /\ n \in 0..Radix - 1
  \/ \E q \in 1..Radix - 1, r \in 0..Radix - 1 :
       v = <<q, Radix + r>> /\ n = Radix * q + r /\ \A u \in Upper : q < u

LEMMA VbyteIs ==
  ASSUME NEW n \in 0..Size - 1
  PROVE  IsVbyte(vbyte_encode(n), n)
<1>1. Radix \in Nat \ {0} /\ Size \in Nat /\ Size <= Radix * Radix /\ n \in Nat
  BY FrontAssumption
<1>2. PICK q, r : q = n \div Radix /\ r = (n % Radix)
  OBVIOUS
<1>3. q \in Nat /\ r \in 0..Radix - 1 /\ n = Radix * q + r
  BY <1>1, <1>2, Division
<1>4. q < Radix
  <2>1. CASE q >= Radix
    <3>1. Radix * q >= Radix * Radix
      BY <1>1, <1>3, <2>1
    <3> QED
      BY <1>1, <1>3, <3>1
  <2> QED
    BY <1>1, <1>3, <2>1
<1>5. ASSUME NEW u \in Upper PROVE q < u
  <2>1. u \in Nat /\ u * Radix > Size
    BY FrontAssumption
  <2>2. CASE q >= u
    <3>1. Radix * q >= u * Radix
      BY <1>1, <1>3, <2>1, <2>2
    <3> QED
      BY <1>1, <1>3, <2>1, <3>1
  <2> QED
    BY <1>3, <2>1, <2>2
<1>6. CASE n < Radix
  <2>1. n \in 0..Radix - 1 /\ n = Radix * 0 + n
    BY <1>1, <1>6
  <2>2. (n % Radix) = n
    <3>1. (Radix * 0 + n) % Radix = n
      BY <1>1, <2>1, Quotient
    <3> QED
      BY <2>1, <3>1
  <2>3. vbyte_encode(n) = <<Radix + n>>
    BY <1>6, <2>2 DEF vbyte_encode
  <2> QED
    BY <2>1, <2>3 DEF IsVbyte
<1>7. CASE ~ (n < Radix)
  <2>1. q # 0
    <3>1. CASE q = 0
      <4>1. n = r
        BY <1>1, <1>3, <3>1
      <4> QED
        BY <1>1, <1>3, <1>7, <4>1
    <3> QED
      BY <3>1
  <2>2. vbyte_encode(n) = <<q, Radix + r>>
    BY <1>2, <1>4, <1>7 DEF vbyte_encode
  <2>3. q \in 1..Radix - 1
    BY <1>1, <1>3, <1>4, <2>1
  <2> QED
    BY <1>3, <1>5, <2>2, <2>3 DEF IsVbyte
<1> QED
  BY <1>6, <1>7

(* Lowering leaves it alone: its first byte is less than any letter.       *)
LEMMA VbyteStays ==
  ASSUME NEW fold \in BOOLEAN, NEW n, NEW v, IsVbyte(v, n)
  PROVE  v \in Seq(Bytes) /\ Shown(fold, v) = v
<1>1. Radix \in Nat /\ Radix > 1
  BY FrontAssumption
<1>2. \A r \in 0..Radix - 1 : Radix + r \in Bytes /\ Byte(fold, Radix + r) = Radix + r
  <2>1. \A r \in 0..Radix - 1 : Radix + r \in Bytes /\ Radix + r >= Radix
    BY <1>1 DEF Bytes
  <2> QED
    BY <2>1, ByteIs
<1>3. CASE v = <<Radix + n>> /\ n \in 0..Radix - 1
  BY <1>2, <1>3 DEF Shown
<1>4. ASSUME NEW q \in 1..Radix - 1, NEW r \in 0..Radix - 1, v = <<q, Radix + r>>,
             \A u \in Upper : q < u
      PROVE  v \in Seq(Bytes) /\ Shown(fold, v) = v
  <2>1. q \in Bytes
    BY <1>1 DEF Bytes
  <2>2. q \notin Upper
    BY <1>4
  <2>3. Byte(fold, q) = q
    BY <2>2 DEF Byte, tolower
  <2> QED
    BY <1>2, <1>4, <2>1, <2>3 DEF Shown
<1> QED
  BY <1>3, <1>4 DEF IsVbyte

-----------------------------------------------------------------------------
(* What compute_inner writes for one string.                               *)

Records(ss) ==
  [k \in DOMAIN ss |-> IF k = 1 THEN Append(ss[1], 0) ELSE diff_rec(ss[k - 1], ss[k])]

LEMMA CommonPrefixIs ==
  ASSUME NEW a \in Chars, NEW b \in Chars
  PROVE  /\ common_prefix(a, b) \in 0..Len(a) /\ common_prefix(a, b) \in 0..Len(b)
         /\ \A k \in 1..common_prefix(a, b) : a[k] = b[k]
<1>1. PICK m \in Nat, l \in Nat : m = Len(a) /\ l = Len(b)
  BY CharsAre
<1> DEFINE T == {n \in 0..m : n <= l /\ \A k \in 1..n : a[k] = b[k]}
<1>2. T \in SUBSET Nat /\ 0 \in T /\ \A x \in T : x <= m
  OBVIOUS
<1>3. Max(T) \in T
  <2> HIDE DEF T
  <2>1. T # {}
    BY <1>2
  <2> QED
    BY <1>2, <2>1, Greatest
<1>4. common_prefix(a, b) = Max(T)
  BY <1>1 DEF common_prefix
<1> QED
  BY <1>1, <1>3, <1>4

(* The suffix s of b from position n on.                                   *)
IsRest(s, b, n) ==
  /\ n \in 0..Len(b) /\ Len(s) = Len(b) - n /\ \A k \in 1..Len(b) - n : s[k] = b[n + k]

LEMMA RestIs ==
  ASSUME NEW b \in Chars, NEW n \in 0..Len(b)
  PROVE  /\ SubSeq(b, n + 1, Len(b)) \in Chars
         /\ IsRest(SubSeq(b, n + 1, Len(b)), b, n)
<1>1. PICK l \in Nat : l = Len(b)
  BY CharsAre
<1>2. PICK s : s = SubSeq(b, n + 1, l)
  OBVIOUS
<1>3. l \in 0..Size - 1 /\ \A k \in 1..l : b[k] \in Char
  BY <1>1, CharsAre
<1>4. /\ s \in Seq(Char) /\ Len(s) = IF n + 1 <= l THEN l - (n + 1) + 1 ELSE 0
      /\ \A k \in 1..l - (n + 1) + 1 : s[k] = b[n + 1 + k - 1]
  <2>1. n + 1 \in Int /\ l \in Int /\ \A k \in n + 1..l : b[k] \in Char
    BY <1>1, <1>3
  <2> QED
    BY <1>2, <2>1, SubSeqProperties
<1>5. Len(s) = l - n
  BY <1>1, <1>4
<1>6. ASSUME NEW k \in 1..l - n PROVE s[k] = b[n + k]
  <2>1. k \in 1..l - (n + 1) + 1 /\ n + 1 + k - 1 = n + k
    BY <1>1
  <2> QED
    BY <1>4, <2>1
<1>7. s \in Chars
  <2>1. s \in [1..Len(s) -> Char]
    BY <1>4, LenProperties
  <2>2. s \in [1..l - n -> Char]
    BY <1>5, <2>1
  <2>3. l - n \in 0..Size - 1
    <3>1. n \in Nat /\ n <= l /\ Size \in Nat /\ l <= Size - 1
      BY <1>1, <1>3, FrontAssumption
    <3> QED
      BY <3>1
  <2> QED
    BY <2>2, <2>3 DEF Chars
<1> QED
  BY <1>1, <1>2, <1>5, <1>6, <1>7 DEF IsRest

LEMMA DiffIs ==
  ASSUME NEW a \in Chars, NEW b \in Chars
  PROVE  \E n \in 0..Len(b), s \in Chars :
           /\ n <= Len(a) /\ \A k \in 1..n : a[k] = b[k]
           /\ IsRest(s, b, n) /\ IsVbyte(vbyte_encode(n), n)
           /\ diff_rec(a, b) = (vbyte_encode(n) \o s) \o << 0 >>
<1>1. PICK n : n = common_prefix(a, b)
  OBVIOUS
<1>2. n \in 0..Len(b) /\ n \in 0..Len(a) /\ \A k \in 1..n : a[k] = b[k]
  BY <1>1, CommonPrefixIs
<1>3. Len(b) \in 0..Size - 1 /\ Size \in Nat
  BY CharsAre, FrontAssumption
<1>4. IsVbyte(vbyte_encode(n), n)
  <2>1. n \in 0..Size - 1
    BY <1>2, <1>3
  <2> QED
    BY <2>1, VbyteIs
<1>5. PICK s \in Chars : s = SubSeq(b, n + 1, Len(b)) /\ IsRest(s, b, n)
  BY <1>2, RestIs
<1>6. diff_rec(a, b) = (vbyte_encode(n) \o s) \o << 0 >>
  BY <1>1, <1>5 DEF diff_rec
<1>7. n <= Len(a)
  BY <1>2
<1> QED
  BY <1>2, <1>4, <1>5, <1>6, <1>7

LEMMA RecordsAre ==
  ASSUME NEW ss \in Seq(Chars)
  PROVE  /\ Records(ss) \in Seq(Seq(Bytes)) /\ Len(Records(ss)) = Len(ss)
         /\ compute_inner(ss) = FlattenSeq(Records(ss))
         /\ compute_inner(ss) \in Seq(Bytes)
<1>1. PICK n \in Nat : n = Len(ss) /\ DOMAIN ss = 1..n
  OBVIOUS
<1>2. \A k \in 1..n : ss[k] \in Chars
  BY <1>1
<1>3. 0 \in Bytes
  BY FrontAssumption DEF Bytes
<1>4. ASSUME NEW s \in Chars PROVE Append(s, 0) \in Seq(Bytes)
  <2>1. s \in Seq(Bytes)
    BY CharsAre
  <2> QED
    BY <1>3, <2>1, AppendProperties
<1>5. ASSUME NEW a \in Chars, NEW b \in Chars PROVE diff_rec(a, b) \in Seq(Bytes)
  <2>1. PICK m \in 0..Len(b), s \in Chars :
          /\ IsVbyte(vbyte_encode(m), m)
          /\ diff_rec(a, b) = (vbyte_encode(m) \o s) \o << 0 >>
    BY DiffIs
  <2>2. PICK v : v = vbyte_encode(m)
    OBVIOUS
  <2>3. v \in Seq(Bytes) /\ s \in Seq(Bytes) /\ << 0 >> \in Seq(Bytes)
    <3>1. IsVbyte(v, m) /\ TRUE \in BOOLEAN
      BY <2>1, <2>2
    <3>2. v \in Seq(Bytes)
      BY <3>1, VbyteStays, Zenon
    <3>3. s \in Seq(Bytes)
      BY CharsAre
    <3> QED
      BY <1>3, <3>2, <3>3
  <2>4. v \o s \in Seq(Bytes)
    BY <2>3, ConcatProperties
  <2>5. (v \o s) \o << 0 >> \in Seq(Bytes)
    BY <2>3, <2>4, ConcatProperties
  <2> QED
    BY <2>1, <2>2, <2>5
<1>6. ASSUME NEW k \in 1..n PROVE Records(ss)[k] \in Seq(Bytes)
  <2>1. CASE k = 1
    BY <1>1, <1>2, <1>4, <2>1 DEF Records
  <2>2. CASE k # 1
    <3>1. k - 1 \in 1..n
      BY <2>2
    <3> QED
      BY <1>1, <1>2, <1>5, <2>2, <3>1 DEF Records
  <2> QED
    BY <2>1, <2>2
<1>7. Records(ss) \in Seq(Seq(Bytes)) /\ Len(Records(ss)) = n
  <2>1. Records(ss) \in [1..n -> Seq(Bytes)]
    BY <1>1, <1>6 DEF Records
  <2> QED
    BY <2>1
<1>8. compute_inner(ss) = FlattenSeq(Records(ss))
  BY DEF compute_inner, Records
<1> QED
  BY <1>1, <1>7, <1>8, FlattenNext
-----------------------------------------------------------------------------
(* What the reader reads where a record is.                                *)

LEMMA EndIs ==
  ASSUME NEW t \in Seq(Bytes), NEW s, NEW c, Len(s) \in Nat, IsAt(t, c, s),
         \A k \in 1..Len(s) : s[k] # 0, IsAt(t, c + Len(s), << 0 >>)
  PROVE  StringEnd(t, c) = c + Len(s)
<1>9. PICK l \in Nat, m \in Nat : l = Len(t) /\ m = Len(s)
  OBVIOUS
<1>1. PICK e : l = Len(t) /\ m = Len(s) /\ e = c + m
  BY <1>9
<1>2. c \in Nat \ {0} /\ \A k \in 1..m : t[c + k - 1] = s[k] /\ s[k] # 0
  BY <1>1 DEF IsAt
<1>3. e <= l /\ t[e] = 0 /\ e \in Nat
  <2>1. PICK z : z = << 0 >>
    OBVIOUS
  <2>2. Len(z) = 1 /\ z[1] = 0
    BY <2>1
  <2>3. e + 1 <= l + 1 /\ t[e + 1 - 1] = 0
    BY <1>1, <2>1, <2>2 DEF IsAt
  <2>4. e \in Nat /\ e + 1 - 1 = e
    BY <1>1, <1>2
  <2> QED
    BY <2>3, <2>4
<1> DEFINE T == {i \in c..l : t[i] = 0}
<1>4. T \in SUBSET Nat /\ e \in T
  BY <1>1, <1>2, <1>3
<1>5. ASSUME NEW i \in T PROVE e <= i
  <2>1. CASE i < e
    <3>1. PICK k : k = i - c + 1
      OBVIOUS
    <3>2. k \in 1..m /\ c + k - 1 = i
      BY <1>1, <1>2, <2>1, <3>1
    <3> QED
      BY <1>2, <3>2
  <2> QED
    BY <1>2, <1>3, <2>1
<1>6. Min(T) = e
  <2> HIDE DEF T
  <2> QED
    BY <1>4, <1>5, Lowest
<1>7. T # {}
  BY <1>4
<1>8. StringEnd(t, c) = Min(T)
  BY <1>1, <1>7 DEF StringEnd, SelectInSubSeq
<1> QED
  BY <1>1, <1>6, <1>8

LEMMA VbyteDecoded ==
  ASSUME NEW t \in Seq(Bytes), NEW c, NEW n, NEW v, IsVbyte(v, n), IsAt(t, c, v)
  PROVE  vbyte_decode(t, c) = [x |-> n, c |-> c + Len(v)]
<1>1. PICK l \in Nat, R \in Nat : l = Len(t) /\ R = Radix /\ R > 1
  BY FrontAssumption
<1>2. c \in Nat \ {0}
  BY DEF IsAt
<1> DEFINE T == {i \in c..l : t[i] >= Radix}
           IsX(x, e) == x = [k \in c - 1..e - 1 |-> IF k < c THEN 0 ELSE (x[k - 1] + t[k]) * Radix]
           X(e) == CHOOSE x : IsX(x, e)
<1>3. ASSUME NEW e, e \in T, \A i \in T : e <= i
      PROVE  vbyte_decode(t, c) = [x |-> X(e)[e - 1] + (t[e] % Radix), c |-> e + 1]
  <2>1. T \in SUBSET Nat
    BY <1>1, <1>2
  <2>2. Min(T) = e /\ T # {}
    <3> HIDE DEF T
    <3> QED
      BY <1>3, <2>1, Lowest
  <2>3. SelectInSubSeq(t, c, Len(t), LAMBDA b : b >= Radix) = e
    BY <1>1, <2>2 DEF SelectInSubSeq
  <2> QED
    BY <2>3, Zenon DEF vbyte_decode
<1>4. CASE v = <<Radix + n>> /\ n \in 0..Radix - 1
  <2>1. t[c] = R + n /\ c <= l /\ Len(v) = 1
    <3>1. Len(v) = 1 /\ v[1] = R + n
      BY <1>1, <1>4
    <3>2. c + 1 <= l + 1 /\ t[c + 1 - 1] = v[1] /\ c + 1 - 1 = c
      BY <1>1, <1>2, <3>1 DEF IsAt
    <3> QED
      BY <1>1, <1>2, <3>1, <3>2
  <2>2. c \in T /\ \A i \in T : c <= i
    BY <1>1, <1>2, <1>4, <2>1
  <2>3. PICK y : y = [k \in c - 1..c - 1 |-> 0]
    OBVIOUS
  <2>4. IsX(y, c)
    <3>1. [k \in c - 1..c - 1 |-> IF k < c THEN 0 ELSE (y[k - 1] + t[k]) * Radix] = y
      BY <1>2, <2>3
    <3> QED
      BY <3>1
  <2>5. X(c)[c - 1] = 0
    <3>1. IsX(X(c), c)
      <4> HIDE DEF IsX
      <4> QED
        BY <2>4
    <3>2. c - 1 \in c - 1..c - 1 /\ c - 1 < c
      BY <1>2
    <3> HIDE DEF X
    <3> QED
      BY <3>1, <3>2
  <2>6. (R + n) % R = n
    <3>1. (R * 1 + n) % R = n
      <4>1. R \in Nat \ {0} /\ 1 \in Nat /\ n \in 0..R - 1
        BY <1>1, <1>4
      <4> QED
        BY <4>1, Quotient, Zenon
    <3>2. R * 1 + n = R + n
      BY <1>1, <1>4
    <3> QED
      BY <3>1, <3>2
  <2>7. vbyte_decode(t, c) = [x |-> X(c)[c - 1] + (t[c] % Radix), c |-> c + 1]
    BY <1>3, <2>2
  <2>8. X(c)[c - 1] + (t[c] % Radix) = n
    <3>1. t[c] % Radix = n
      BY <1>1, <2>1, <2>6
    <3> QED
      BY <1>4, <1>1, <2>5, <3>1
  <2> QED
    BY <2>1, <2>7, <2>8
<1>5. ASSUME NEW q \in 1..Radix - 1, NEW r \in 0..Radix - 1, v = <<q, Radix + r>>,
             n = Radix * q + r
      PROVE  vbyte_decode(t, c) = [x |-> n, c |-> c + Len(v)]
  <2>1. t[c] = q /\ t[c + 1] = R + r /\ c + 1 <= l /\ Len(v) = 2
    <3>1. Len(v) = 2 /\ v[1] = q /\ v[2] = R + r
      BY <1>1, <1>5
    <3>2. 1 \in 1..Len(v) /\ 2 \in 1..Len(v)
      BY <3>1
    <3>3. c + 2 <= l + 1 /\ t[c + 1 - 1] = v[1] /\ t[c + 2 - 1] = v[2]
      BY <1>1, <3>1, <3>2 DEF IsAt
    <3>4. c + 1 - 1 = c /\ c + 2 - 1 = c + 1
      BY <1>2
    <3> QED
      BY <1>1, <1>2, <3>1, <3>3, <3>4
  <2>2. PICK e \in Nat : e = c + 1
    BY <1>2
  <2>3. e \in T /\ \A i \in T : e <= i
    <3>1. e \in T
      BY <1>1, <1>2, <1>5, <2>1, <2>2
    <3>2. c \notin T
      BY <1>1, <1>5, <2>1
    <3>3. ASSUME NEW i \in T PROVE e <= i
      <4>1. i \in c..l
        OBVIOUS
      <4>2. i # c
        BY <3>2, <3>3
      <4> QED
        BY <1>2, <2>2, <4>1, <4>2
    <3> QED
      BY <3>1, <3>3
  <2>4. PICK y : y = [k \in c - 1..e - 1 |-> IF k < c THEN 0 ELSE R * q]
    OBVIOUS
  <2>5. IsX(y, e)
    <3>1. ASSUME NEW k \in c - 1..e - 1
          PROVE  (IF k < c THEN 0 ELSE (y[k - 1] + t[k]) * Radix) = y[k]
      <4>1. CASE k < c
        BY <2>4, <4>1
      <4>2. CASE ~ (k < c)
        <5>1. k = c /\ y[k - 1] = 0 /\ k - 1 \in c - 1..e - 1
          BY <1>2, <2>2, <2>4, <4>2
        <5>2. y[k] = R * q
          BY <2>4, <4>2
        <5>3. (0 + q) * R = R * q
          BY <1>1, <1>5
        <5> QED
          BY <1>1, <2>1, <4>2, <5>1, <5>2, <5>3
      <4> QED
        BY <4>1, <4>2
    <3>2. y = [k \in c - 1..e - 1 |-> y[k]]
      BY <2>4
    <3> QED
      BY <3>1, <3>2
  <2>6. X(e)[e - 1] = R * q
    <3>1. IsX(X(e), e)
      <4> HIDE DEF IsX
      <4> QED
        BY <2>5
    <3>2. c - 1 \in c - 1..e - 1 /\ c - 1 < c /\ c \in c - 1..e - 1 /\ ~ (c < c) /\ e - 1 = c
      BY <1>2, <2>2
    <3> HIDE DEF X
    <3>3. X(e)[c - 1] = 0
      BY <3>1, <3>2
    <3>4. X(e)[c] = (X(e)[c - 1] + t[c]) * Radix
      BY <3>1, <3>2
    <3>5. (0 + q) * R = R * q
      BY <1>1, <1>5
    <3> QED
      BY <1>1, <2>1, <3>2, <3>3, <3>4, <3>5
  <2>7. (R + r) % R = r
    <3>1. (R * 1 + r) % R = r
      <4>1. R \in Nat \ {0} /\ 1 \in Nat /\ r \in 0..R - 1
        BY <1>1, <1>5
      <4> QED
        BY <4>1, Quotient, Zenon
    <3>2. R * 1 + r = R + r
      BY <1>1, <1>5
    <3> QED
      BY <3>1, <3>2
  <2>8. vbyte_decode(t, c) = [x |-> X(e)[e - 1] + (t[e] % Radix), c |-> e + 1]
    BY <1>3, <2>3
  <2>9. X(e)[e - 1] + (t[e] % Radix) = n
    <3>1. t[e] % Radix = r
      BY <1>1, <2>1, <2>2, <2>7
    <3> QED
      BY <1>1, <1>5, <2>6, <3>1
  <2>10. e + 1 = c + 2
    BY <1>2, <2>2
  <2> QED
    BY <2>1, <2>8, <2>9, <2>10
<1> QED
  BY <1>4, <1>5 DEF IsVbyte

(* current is an array, and a C string is in it.                           *)
Arrays == [0..Size - 1 -> Int]
Holds(current, s) == current[Len(s)] = 0 /\ \A k \in 1..Len(s) : current[k - 1] = s[k]

LEMMA CStringIs ==
  ASSUME NEW current \in Arrays, NEW s \in Chars, Holds(current, s)
  PROVE  CString(current) = s
<1>1. PICK m \in 0..Size - 1 : m = Len(s) /\ s \in Seq(Char) /\ \A k \in 1..m : s[k] # 0
  BY CharsAre
<1>2. Size \in Nat /\ m \in Nat
  BY FrontAssumption
<1>3. current[m] = 0 /\ \A k \in 1..m : current[k - 1] = s[k]
  BY <1>1 DEF Holds
<1>4. \A k \in 0..m - 1 : current[k] # 0
  <2>1. ASSUME NEW k \in 0..m - 1 PROVE current[k] # 0
    <3>1. k + 1 \in 1..m /\ (k + 1) - 1 = k
      BY <1>2
    <3> QED
      BY <1>1, <1>3, <3>1
  <2> QED
    BY <2>1
<1> DEFINE P(n) == current[n] = 0 /\ \A k \in 0..n - 1 : current[k] # 0
<1>5. DOMAIN current = 0..Size - 1
  BY DEF Arrays
<1>6. ASSUME NEW n \in DOMAIN current, P(n) PROVE n = m
  <2>1. n \in Nat
    BY <1>2, <1>5
  <2>2. ~ (n < m)
    BY <1>4, <1>6, <2>1
  <2>3. ~ (m < n)
    <3>1. m < n => m \in 0..n - 1
      BY <1>2, <2>1
    <3> QED
      BY <1>3, <1>6, <3>1
  <2> QED
    BY <1>2, <2>1, <2>2, <2>3
<1>7. m \in DOMAIN current /\ P(m)
  BY <1>3, <1>4, <1>5
<1>8. PICK c : c = CHOOSE n \in DOMAIN current : P(n)
  OBVIOUS
<1>9. c = m
  <2>1. c \in DOMAIN current /\ P(c)
    <3> HIDE DEF P
    <3> QED
      BY <1>7, <1>8
  <2> QED
    BY <1>6, <2>1
<1>10. CString(current) = [k \in 1..m |-> current[k - 1]]
  BY <1>8, <1>9, Zenon DEF CString
<1>11. s = [k \in 1..m |-> s[k]]
  BY <1>1, <1>2
<1> QED
  BY <1>3, <1>10, <1>11

LEMMA WrittenHolds ==
  ASSUME NEW current \in Arrays, NEW b \in Chars, NEW n, NEW s, IsRest(s, b, n),
         \A k \in 1..n : current[k - 1] = b[k]
  PROVE  Written(current, n, s) \in Arrays /\ Holds(Written(current, n, s), b)
<1>1. PICK m \in 0..Size - 1 : m = Len(b) /\ \A k \in 1..m : b[k] \in Char
  BY CharsAre
<1>2. Size \in Nat /\ m \in Nat /\ Char \subseteq Int
  BY FrontAssumption
<1>3. n \in 0..m /\ Len(s) = m - n /\ \A k \in 1..m - n : s[k] = b[n + k]
  BY <1>1 DEF IsRest
<1>4. PICK w : w = Written(current, n, s)
  OBVIOUS
<1>5. w = [k \in 0..Size - 1 |->
             IF k < n \/ k > m THEN current[k] ELSE IF k = m THEN 0 ELSE s[k - n + 1]]
  <2>1. DOMAIN current = 0..Size - 1
    BY DEF Arrays
  <2>2. n + Len(s) = m
    BY <1>2, <1>3
  <2>3. (0..Size - 1) \cup (n..m) = 0..Size - 1
    BY <1>2, <1>3
  <2>4. w = [k \in (0..Size - 1) \cup (n..m) |->
               IF k < n \/ k > m THEN current[k] ELSE IF k = m THEN 0 ELSE s[k - n + 1]]
    BY <1>4, <2>1, <2>2 DEF Written
  <2> QED
    BY <2>3, <2>4
<1>6. ASSUME NEW k \in 0..Size - 1, ~ (k < n \/ k > m), k # m PROVE s[k - n + 1] = b[k + 1]
  <2>1. k - n + 1 \in 1..m - n /\ n + (k - n + 1) = k + 1
    BY <1>2, <1>3, <1>6
  <2> QED
    BY <1>3, <2>1
<1>7. ASSUME NEW k \in 0..Size - 1, ~ (k < n \/ k > m), k # m PROVE b[k + 1] \in Int
  <2>1. k + 1 \in 1..m
    BY <1>2, <1>7
  <2> QED
    BY <1>1, <1>2, <2>1
<1>8. w \in Arrays
  <2>1. \A k \in 0..Size - 1 : current[k] \in Int
    BY DEF Arrays
  <2> QED
    BY <1>5, <1>6, <1>7, <2>1 DEF Arrays
<1>9. w[m] = 0
  BY <1>2, <1>3, <1>5
<1>10. ASSUME NEW k \in 1..m PROVE w[k - 1] = b[k]
  <2>1. k - 1 \in 0..Size - 1 /\ k - 1 # m /\ ~ (k - 1 > m) /\ (k - 1) + 1 = k
    BY <1>2
  <2>2. CASE k - 1 < n
    <3>1. k \in 1..n
      BY <1>3, <2>2
    <3> QED
      BY <1>5, <2>1, <2>2, <3>1
  <2>3. CASE ~ (k - 1 < n)
    BY <1>5, <1>6, <2>1, <2>3
  <2> QED
    BY <2>2, <2>3
<1> QED
  BY <1>1, <1>4, <1>8, <1>9, <1>10 DEF Holds

-----------------------------------------------------------------------------
(* One string of a bin after another.  raw is what was written, and buff   *)
(* what the decoder made of it.                                            *)

(* A string of the buffer, and the 0 behind it.                            *)
LEMMA StringRead ==
  ASSUME NEW fold \in BOOLEAN, NEW raw \in Seq(Bytes), NEW c, NEW s \in Chars,
         IsAt(raw, c, s \o << 0 >>)
  PROVE  /\ StringEnd(Shown(fold, raw), c) = c + Len(s)
         /\ SubSeq(Shown(fold, raw), c, c + Len(s) - 1) = Shown(fold, s)
<1>1. PICK buff, r : buff = Shown(fold, raw) /\ r = Shown(fold, s)
  OBVIOUS
<1>2. s \in Seq(Bytes) /\ << 0 >> \in Seq(Bytes)
  <2>1. 0 \in Bytes
    BY FrontAssumption DEF Bytes
  <2> QED
    BY <2>1, CharsAre
<1>3. IsAt(raw, c, s) /\ IsAt(raw, c + Len(s), << 0 >>)
  BY <1>2, AtParts
<1>4. Shown(fold, << 0 >>) = << 0 >>
  BY ByteIs DEF Shown
<1>5. IsAt(buff, c, r) /\ IsAt(buff, c + Len(s), << 0 >>) /\ buff \in Seq(Bytes)
  <2>1. IsAt(buff, c, r) /\ buff \in Seq(Bytes)
    BY <1>1, <1>2, <1>3, AtShown
  <2>2. IsAt(buff, c + Len(s), Shown(fold, << 0 >>))
    BY <1>1, <1>2, <1>3, AtShown
  <2> QED
    BY <1>4, <2>1, <2>2
<1>6. r \in Chars /\ Len(r) = Len(s)
  BY <1>1, ShownIs
<1>7. r \in Seq(Bytes) /\ Len(r) \in Nat /\ \A k \in 1..Len(r) : r[k] # 0
  BY <1>6, CharsAre
<1>8. IsAt(buff, c + Len(r), << 0 >>)
  BY <1>5, <1>6
<1>9. StringEnd(buff, c) = c + Len(r)
  BY <1>5, <1>7, <1>8, EndIs
<1>10. SubSeq(buff, c, c + Len(r) - 1) = r
  BY <1>5, <1>7, SubSeqAt
<1> QED
  BY <1>1, <1>6, <1>9, <1>10

LEMMA NextReads ==
  ASSUME NEW fold \in BOOLEAN, NEW raw \in Seq(Bytes), NEW a \in Chars, NEW b \in Chars,
         NEW inner, inner.buff = Shown(fold, raw),
         IsAt(raw, inner.c, diff_rec(a, b)),
         inner.current \in Arrays, Holds(inner.current, Shown(fold, a))
  PROVE  \E current \in Arrays :
           /\ Holds(current, Shown(fold, b))
           /\ inner_next(inner) = [ buff |-> inner.buff, current |-> current,
                                    c |-> inner.c + Len(diff_rec(a, b)) ]
<1>1. PICK n \in 0..Len(b), s \in Chars :
        /\ n <= Len(a) /\ \A k \in 1..n : a[k] = b[k]
        /\ IsRest(s, b, n) /\ IsVbyte(vbyte_encode(n), n)
        /\ diff_rec(a, b) = (vbyte_encode(n) \o s) \o << 0 >>
  BY DiffIs
<1>2. PICK v, c, buff : v = vbyte_encode(n) /\ c = inner.c /\ buff = inner.buff
  OBVIOUS
<1>3. /\ v \in Seq(Bytes) /\ Shown(fold, v) = v /\ s \in Seq(Bytes) /\ << 0 >> \in Seq(Bytes)
      /\ Len(v) \in Nat /\ Len(s) \in Nat
  <2>1. IsVbyte(v, n)
    BY <1>1, <1>2
  <2>2. v \in Seq(Bytes) /\ Shown(fold, v) = v
    BY <2>1, VbyteStays
  <2>3. 0 \in Bytes
    BY FrontAssumption DEF Bytes
  <2> QED
    BY <2>2, <2>3, CharsAre
<1>4. /\ v \o s \in Seq(Bytes) /\ s \o << 0 >> \in Seq(Bytes)
      /\ (v \o s) \o << 0 >> = v \o (s \o << 0 >>)
  <2>1. PICK w : w = << 0 >>
    OBVIOUS
  <2>2. v \in Seq(Bytes) /\ s \in Seq(Bytes) /\ w \in Seq(Bytes)
    BY <1>3, <2>1
  <2>3. v \o s \in Seq(Bytes) /\ s \o w \in Seq(Bytes)
    BY <2>2, ConcatProperties
  <2>4. (v \o s) \o w = v \o (s \o w)
    <3>1. PICK x \in Seq(Bytes), y \in Seq(Bytes), t \in Seq(Bytes) : x = v /\ y = s /\ t = w
      BY <2>2
    <3>2. (x \o y) \o t = x \o (y \o t)
      BY ConcatAssociative, SMTT(30)
    <3> QED
      BY <3>1, <3>2
  <2> QED
    BY <2>1, <2>3, <2>4
<1>5. IsAt(raw, c, v \o (s \o << 0 >>))
  BY <1>1, <1>2, <1>4
<1>6. IsAt(raw, c, v) /\ IsAt(raw, c + Len(v), s \o << 0 >>) /\ c \in Nat
  <2>1. IsAt(raw, c, v) /\ IsAt(raw, c + Len(v), s \o << 0 >>)
    BY <1>3, <1>4, <1>5, AtParts
  <2> QED
    BY <2>1 DEF IsAt
<1>7. vbyte_decode(buff, c) = [x |-> n, c |-> c + Len(v)]
  <2>1. IsAt(buff, c, Shown(fold, v)) /\ buff \in Seq(Bytes)
    BY <1>2, <1>3, <1>6, AtShown
  <2>2. IsAt(buff, c, v) /\ IsVbyte(v, n)
    BY <1>1, <1>2, <1>3, <2>1
  <2> QED
    BY <2>1, <2>2, VbyteDecoded
<1>8. PICK d \in Nat, z \in Nat : d = c + Len(v) /\ z = d + Len(s)
  BY <1>3, <1>6
<1>9. StringEnd(buff, d) = z /\ SubSeq(buff, d, z - 1) = Shown(fold, s)
  <2>1. IsAt(raw, d, s \o << 0 >>)
    BY <1>6, <1>8
  <2>2. /\ StringEnd(Shown(fold, raw), d) = d + Len(s)
        /\ SubSeq(Shown(fold, raw), d, d + Len(s) - 1) = Shown(fold, s)
    BY <2>1, StringRead, Zenon
  <2>3. Shown(fold, raw) = buff /\ d + Len(s) = z
    BY <1>2, <1>8
  <2>4. StringEnd(buff, d) = d + Len(s) /\ SubSeq(buff, d, d + Len(s) - 1) = Shown(fold, s)
    BY <2>2, <2>3, Zenon
  <2> QED
    BY <2>3, <2>4
<1>10. PICK w : w = Written(inner.current, n, Shown(fold, s))
  OBVIOUS
<1>11. inner_next(inner) = [buff |-> buff, c |-> z + 1, current |-> w]
  <2>1. vbyte_decode(inner.buff, inner.c) = [x |-> n, c |-> d]
    BY <1>2, <1>7, <1>8
  <2>2. /\ vbyte_decode(inner.buff, inner.c).x = n /\ vbyte_decode(inner.buff, inner.c).c = d
        /\ StringEnd(inner.buff, d) = z /\ SubSeq(inner.buff, d, z - 1) = Shown(fold, s)
    BY <1>2, <1>9, <2>1
  <2> QED
    BY <1>2, <1>10, <2>2, Zenon DEF inner_next
<1>12. z + 1 = inner.c + Len(diff_rec(a, b))
  <2>1. Len((v \o s) \o << 0 >>) = Len(v) + Len(s) + 1
    <3>1. Len(v \o s) = Len(v) + Len(s)
      BY <1>3, ConcatProperties
    <3>2. Len((v \o s) \o << 0 >>) = Len(v \o s) + Len(<< 0 >>)
      BY <1>3, <1>4, ConcatProperties
    <3>3. Len(<< 0 >>) = 1
      OBVIOUS
    <3> QED
      BY <3>1, <3>2, <3>3
  <2>2. diff_rec(a, b) = (v \o s) \o << 0 >> /\ c = inner.c
    BY <1>1, <1>2
  <2>3. z + 1 = c + (Len(v) + Len(s) + 1)
    <3>1. PICK m, l : m = Len(v) /\ l = Len(s)
      OBVIOUS
    <3>2. m \in Nat /\ l \in Nat /\ c \in Nat /\ d = c + m /\ z = d + l
      BY <1>3, <1>6, <1>8, <3>1
    <3>3. z + 1 = c + (m + l + 1)
      BY <3>2
    <3> QED
      BY <3>1, <3>3
  <2> QED
    BY <2>1, <2>2, <2>3
<1>13. w \in Arrays /\ Holds(w, Shown(fold, b))
  <2>1. PICK B, r : B = Shown(fold, b) /\ r = Shown(fold, s)
    OBVIOUS
  <2>2. /\ B \in Chars /\ Len(B) = Len(b) /\ \A k \in 1..Len(b) : B[k] = Byte(fold, b[k])
        /\ Len(r) = Len(s) /\ \A k \in 1..Len(s) : r[k] = Byte(fold, s[k])
    BY <2>1, ShownIs
  <2>3. IsRest(r, B, n)
    <3>1. PICK m \in Nat : m = Len(b)
      BY CharsAre
    <3>2. n \in 0..m /\ Len(s) = m - n /\ \A k \in 1..m - n : s[k] = b[n + k]
      BY <1>1, <3>1 DEF IsRest
    <3>3. ASSUME NEW k \in 1..m - n PROVE r[k] = B[n + k]
      <4>1. n + k \in 1..m
        BY <3>2
      <4> QED
        BY <2>2, <3>1, <3>2, <4>1
    <3> QED
      BY <2>2, <3>1, <3>2, <3>3 DEF IsRest
  <2>4. ASSUME NEW k \in 1..n PROVE inner.current[k - 1] = B[k]
    <3>1. Len(a) \in Nat /\ Len(b) \in Nat /\ n \in 0..Len(b) /\ n <= Len(a)
      BY <1>1, CharsAre
    <3>2. k \in 1..Len(a) /\ k \in 1..Len(b)
      BY <3>1
    <3>3. inner.current[k - 1] = Shown(fold, a)[k]
      <4>1. Len(Shown(fold, a)) = Len(a)
        BY ShownIs
      <4> QED
        BY <3>2, <4>1 DEF Holds
    <3>4. Shown(fold, a)[k] = Byte(fold, a[k])
      BY <3>2, ShownIs
    <3> QED
      BY <1>1, <2>2, <3>2, <3>3, <3>4
  <2> QED
    BY <1>10, <2>1, <2>2, <2>3, <2>4, WrittenHolds
<1> QED
  BY <1>2, <1>11, <1>12, <1>13

(* What the buffer of a bin holds, in the older format without the header. *)
Whole(bin, padding) == compute_inner(bin) \o padding
Skip(older, bin) == IF older THEN Len(Append(bin[1], 0)) ELSE 0
Raw(older, bin, padding) ==
  IF older THEN SubSeq(Whole(bin, padding), Skip(older, bin) + 1, Len(Whole(bin, padding)))
  ELSE Whole(bin, padding)

(* How much of it the first m strings take.                                *)
Taken(older, bin, m) == Len(Until(Records(bin), m)) - Skip(older, bin)

LEMMA RawIs ==
  ASSUME NEW older \in BOOLEAN, NEW bin \in Seq(Chars), bin # <<>>, NEW padding \in Seq(Bytes)
  PROVE  /\ Raw(older, bin, padding) \in Seq(Bytes)
         /\ \A m \in 1..Len(bin) :
              /\ Taken(older, bin, m) \in Nat
              /\ Taken(older, bin, m) <= Len(Raw(older, bin, padding)) - Len(padding)
         /\ Taken(older, bin, 1) = IF older THEN 0 ELSE Len(bin[1]) + 1
         /\ ~ older => IsAt(Raw(older, bin, padding), 1, Append(bin[1], 0))
         /\ \A m \in 2..Len(bin) :
              LET r == diff_rec(bin[m - 1], bin[m])
              IN /\ IsAt(Raw(older, bin, padding), Taken(older, bin, m - 1) + 1, r)
                 /\ Taken(older, bin, m) = Taken(older, bin, m - 1) + Len(r)
<1>1. PICK n \in Nat \ {0} : n = Len(bin) /\ DOMAIN bin = 1..n
  BY EmptySeq
<1> DEFINE p == Len(padding)
<1>2. PICK recs, all, t, u :
        /\ recs = Records(bin) /\ all = compute_inner(bin) /\ t = Whole(bin, padding)
        /\ u = [m \in 0..n |-> Len(Until(recs, m))]
  OBVIOUS
<1>22. p \in Nat
  OBVIOUS
<1> HIDE DEF p
<1>3. recs \in Seq(Seq(Bytes)) /\ Len(recs) = n /\ all = FlattenSeq(recs) /\ all \in Seq(Bytes)
  BY <1>1, <1>2, RecordsAre
<1>4. t \in Seq(Bytes) /\ Len(t) = Len(all) + p /\ Len(all) \in Nat /\ t = all \o padding
  BY <1>2, <1>3, ConcatProperties DEF Whole, p
<1>5. \A m \in 0..n : u[m] = Len(Until(recs, m)) /\ u[m] \in Nat
  BY <1>2, <1>3, UntilIs
<1>6. ASSUME NEW m \in 1..n
      PROVE  /\ IsAt(t, u[m - 1] + 1, recs[m]) /\ u[m] = u[m - 1] + Len(recs[m])
             /\ u[m] <= Len(all)
  <2>1. m \in 1..Len(recs) /\ m - 1 \in 0..n /\ m \in 0..n
    BY <1>3
  <2>2. /\ IsAt(all, u[m - 1] + 1, recs[m]) /\ u[m] = u[m - 1] + Len(recs[m])
        /\ u[m] <= Len(all)
    BY <1>3, <1>5, <2>1, AtUntil
  <2>3. Len(recs[m]) \in Nat
    BY <1>3, <2>1
  <2>4. IsAt(all \o padding, u[m - 1] + 1, recs[m])
    BY <1>3, <2>2, <2>3, AtMore
  <2> QED
    BY <1>4, <2>2, <2>4
<1>7. recs[1] = Append(bin[1], 0) /\ \A m \in 2..n : recs[m] = diff_rec(bin[m - 1], bin[m])
  BY <1>1, <1>2 DEF Records
<1>8. u[0] = 0
  <2>1. Until(recs, 0) = <<>>
    BY <1>3, UntilIs
  <2> QED
    BY <1>5, <2>1
<1>9. bin[1] \in Chars /\ Len(recs[1]) = Len(bin[1]) + 1 /\ Len(bin[1]) \in Nat
  <2>1. bin[1] \in Chars /\ 0 \in Bytes
    BY <1>1, FrontAssumption DEF Bytes
  <2>2. bin[1] \in Seq(Bytes)
    BY <2>1, CharsAre
  <2>3. Len(Append(bin[1], 0)) = Len(bin[1]) + 1
    BY <2>1, <2>2, AppendProperties
  <2> QED
    BY <1>7, <2>1, <2>2, <2>3
<1>10. u[1] = Len(bin[1]) + 1
  <2>1. 1 \in 1..n /\ 1 - 1 = 0
    BY <1>1
  <2>2. u[1] = u[1 - 1] + Len(recs[1])
    BY <1>6, <2>1
  <2> QED
    BY <1>8, <1>9, <2>1, <2>2
<1>11. \A m \in 1..n : u[1] <= u[m]
  <2>1. ASSUME NEW m \in 1..n PROVE u[1] <= u[m]
    <3>1. 1 \in 0..Len(recs) /\ m \in 1..Len(recs) /\ 1 \in 0..n /\ m \in 0..n
      BY <1>1, <1>3
    <3>2. Len(Until(recs, 1)) <= Len(Until(recs, m))
      BY <1>3, <3>1, UntilGrows
    <3> QED
      BY <1>5, <3>1, <3>2
  <2> QED
    BY <2>1
<1>12. PICK k \in Nat : k = Skip(older, bin) /\ k = IF older THEN u[1] ELSE 0
  BY <1>7, <1>9, <1>10 DEF Skip
<1>13. PICK raw : raw = Raw(older, bin, padding)
  OBVIOUS
<1>14. \A m \in 1..n : Taken(older, bin, m) = u[m] - k /\ u[m] \in Nat /\ k <= u[m]
  <2>1. ASSUME NEW m \in 1..n PROVE Taken(older, bin, m) = u[m] - k /\ u[m] \in Nat /\ k <= u[m]
    <3>1. m \in 0..n
      OBVIOUS
    <3>2. u[m] = Len(Until(recs, m)) /\ u[m] \in Nat
      BY <1>5, <3>1
    <3>3. Taken(older, bin, m) = u[m] - k
      BY <1>2, <1>12, <3>2 DEF Taken
    <3> QED
      BY <1>11, <1>12, <3>2, <3>3
  <2> QED
    BY <2>1
<1>15. k <= Len(t) /\ k <= Len(all)
  <2>1. 1 \in 1..n
    BY <1>1
  <2>2. u[1] <= Len(all)
    BY <1>6, <2>1
  <2> QED
    BY <1>4, <1>12, <2>2
<1>16. raw \in Seq(Bytes) /\ Len(raw) = Len(t) - k
  <2>1. CASE older
    <3>1. raw = SubSeq(t, k + 1, Len(t))
      BY <1>2, <1>12, <1>13, <2>1 DEF Raw
    <3>2. k + 1 \in Int /\ Len(t) \in Int /\ \A h \in k + 1..Len(t) : t[h] \in Bytes
      BY <1>4
    <3>3. /\ raw \in Seq(Bytes)
          /\ Len(raw) = IF k + 1 <= Len(t) THEN Len(t) - (k + 1) + 1 ELSE 0
      BY <3>1, <3>2, SubSeqProperties
    <3> QED
      BY <1>4, <1>15, <3>3
  <2>2. CASE ~ older
    <3>1. raw = t /\ k = 0
      BY <1>2, <1>12, <1>13, <2>2 DEF Raw
    <3>2. Len(t) \in Nat
      BY <1>4
    <3> QED
      BY <1>4, <3>1, <3>2
  <2> QED
    BY <2>1, <2>2
<1>17. ASSUME NEW c, NEW s, Len(s) \in Nat, c > k, IsAt(t, c, s) PROVE IsAt(raw, c - k, s)
  <2>1. CASE older
    <3>1. raw = SubSeq(t, k + 1, Len(t))
      BY <1>2, <1>12, <1>13, <2>1 DEF Raw
    <3> QED
      BY <1>4, <1>15, <1>17, <3>1, AtRest
  <2>2. CASE ~ older
    <3>1. raw = t /\ c - k = c
      BY <1>2, <1>12, <1>13, <1>17, <2>2 DEF Raw, IsAt
    <3> QED
      BY <1>17, <3>1
  <2> QED
    BY <2>1, <2>2
<1>18. ASSUME NEW m \in 1..n
       PROVE  /\ Taken(older, bin, m) \in Nat
              /\ Taken(older, bin, m) <= Len(raw) - p
  <2>1. Taken(older, bin, m) = u[m] - k /\ u[m] \in Nat /\ k <= u[m] /\ u[m] <= Len(all)
    BY <1>6, <1>14
  <2>2. Len(raw) = (Len(all) + p) - k /\ Len(all) \in Nat
    BY <1>4, <1>16
  <2> QED
    BY <1>12, <1>22, <2>1, <2>2
<1>19. Taken(older, bin, 1) = IF older THEN 0 ELSE Len(bin[1]) + 1
  BY <1>1, <1>9, <1>10, <1>12, <1>14
<1>20. ASSUME ~ older PROVE IsAt(raw, 1, Append(bin[1], 0))
  <2>1. 1 \in 1..n /\ 1 - 1 = 0 /\ k = 0 /\ u[0] + 1 = 1
    BY <1>1, <1>8, <1>12, <1>20
  <2>2. IsAt(t, 1, recs[1])
    BY <1>6, <2>1
  <2>3. 1 > k /\ 1 - k = 1 /\ Len(recs[1]) \in Nat
    BY <1>9, <2>1
  <2>4. IsAt(raw, 1 - k, recs[1])
    BY <1>17, <2>2, <2>3
  <2> QED
    BY <1>7, <2>3, <2>4
<1>21. ASSUME NEW m \in 2..n
       PROVE  LET r == diff_rec(bin[m - 1], bin[m])
              IN /\ IsAt(raw, Taken(older, bin, m - 1) + 1, r)
                 /\ Taken(older, bin, m) = Taken(older, bin, m - 1) + Len(r)
  <2>1. m \in 1..n /\ m - 1 \in 1..n /\ m \in 1..Len(recs)
    BY <1>3
  <2>2. PICK r : r = recs[m] /\ r = diff_rec(bin[m - 1], bin[m])
    BY <1>7
  <2>3. IsAt(t, u[m - 1] + 1, r) /\ u[m] = u[m - 1] + Len(r) /\ Len(r) \in Nat
    <3>1. r \in Seq(Bytes)
      BY <1>3, <2>1, <2>2, ElementOfSeq
    <3>2. IsAt(t, u[m - 1] + 1, r) /\ u[m] = u[m - 1] + Len(r)
      BY <1>6, <2>1, <2>2
    <3> QED
      BY <3>1, <3>2
  <2>4. u[m - 1] \in Nat /\ k <= u[m - 1] /\ Taken(older, bin, m - 1) = u[m - 1] - k
        /\ Taken(older, bin, m) = u[m] - k
    BY <1>14, <2>1
  <2>5. u[m - 1] + 1 > k /\ (u[m - 1] + 1) - k = Taken(older, bin, m - 1) + 1
    BY <1>12, <2>4
  <2>6. IsAt(raw, (u[m - 1] + 1) - k, r)
    BY <1>17, <2>3, <2>5
  <2>7. IsAt(raw, Taken(older, bin, m - 1) + 1, r)
    BY <2>5, <2>6
  <2>8. Taken(older, bin, m) = Taken(older, bin, m - 1) + Len(r)
    BY <1>12, <2>3, <2>4
  <2> QED
    BY <2>2, <2>7, <2>8
<1> QED
  BY <1>1, <1>2, <1>13, <1>16, <1>18, <1>19, <1>20, <1>21 DEF p

-----------------------------------------------------------------------------
(* inner has read the m-th string of a bin.                                *)
Reading(fold, older, bin, padding, inner, m) ==
  /\ inner.buff = Shown(fold, Raw(older, bin, padding))
  /\ inner.c = Taken(older, bin, m) + 1
  /\ inner.current \in Arrays /\ Holds(inner.current, Shown(fold, bin[m]))

LEMMA StartsReading ==
  ASSUME NEW fold \in BOOLEAN, NEW older \in BOOLEAN, NEW bin \in Seq(Chars), bin # <<>>,
         older => Len(bin[1]) + 1 < Size,
         NEW padding \in Seq(Bytes), NEW inner, inner.current \in Arrays,
         NEW buff, buff = Shown(fold, Raw(older, bin, padding)),
         NEW header, header = Shown(fold, Append(bin[1], 0)),
         NEW next, next = IF older THEN htfc_inner_init(inner, buff, header)
                          ELSE inner_init(inner, buff)
  PROVE  Reading(fold, older, bin, padding, next, 1)
<1>1. PICK raw, first : raw = Raw(older, bin, padding) /\ first = bin[1]
  OBVIOUS
<1>2. first \in Chars
  <2>1. 1 \in 1..Len(bin)
    <3>1. Len(bin) \in Nat \ {0}
      BY EmptySeq
    <3> QED
      BY <3>1
  <2> QED
    BY <1>1, <2>1, ElementOfSeq
<1>3. PICK shown, n : shown = Shown(fold, first) /\ n = Len(first)
  OBVIOUS
<1>4. /\ shown \in Chars /\ Len(shown) = n /\ n \in 0..Size - 1 /\ first \in Seq(Bytes)
      /\ \A k \in 1..n : shown[k] = Byte(fold, first[k])
  BY <1>2, <1>3, ShownIs, CharsAre
<1>5. 0 \in Bytes /\ Size \in Nat
  BY FrontAssumption DEF Bytes
<1>6. raw \in Seq(Bytes)
  BY <1>1, RawIs
<1>7. Taken(older, bin, 1) = IF older THEN 0 ELSE n + 1
  BY <1>1, <1>3, RawIs
<1>8. PICK array : array = inner.current /\ array \in Arrays
  OBVIOUS
<1>9. CASE older
  <2>1. next = [buff |-> buff, c |-> 1, current |-> Written(array, 0, header)]
    BY <1>8, <1>9 DEF htfc_inner_init
  <2>2. PICK w : w = Written(array, 0, header)
    OBVIOUS
  <2>3. /\ Append(first, 0) \in Seq(Bytes) /\ Len(Append(first, 0)) = n + 1
        /\ \A k \in 1..n : Append(first, 0)[k] = first[k]
        /\ Append(first, 0)[n + 1] = 0
    BY <1>3, <1>4, <1>5, AppendProperties
  <2>4. DOMAIN Append(first, 0) = 1..n + 1
    BY <2>3, LenProperties
  <2>5. header = [k \in 1..n + 1 |-> Byte(fold, Append(first, 0)[k])]
    BY <1>1, <2>4 DEF Shown
  <2>6. Len(header) = n + 1
    <3>1. n + 1 \in Nat
      BY <1>4
    <3> QED
      BY <2>5, <3>1
  <2>7. header[n + 1] = 0 /\ \A k \in 1..n : header[k] = shown[k]
    <3>1. header[n + 1] = 0
      <4>1. n + 1 \in 1..n + 1
        BY <1>4
      <4>2. header[n + 1] = Byte(fold, 0)
        BY <2>3, <2>5, <4>1
      <4> QED
        BY <4>2, ByteIs
    <3>2. ASSUME NEW k \in 1..n PROVE header[k] = shown[k]
      <4>1. k \in 1..n + 1
        BY <1>4
      <4> QED
        BY <1>4, <2>3, <2>5, <4>1
    <3> QED
      BY <3>1, <3>2
  <2>8. w = [k \in 0..Size - 1 |->
               IF k < 0 \/ k > n + 1 THEN array[k] ELSE IF k = n + 1 THEN 0 ELSE header[k + 1]]
    <3>1. DOMAIN array = 0..Size - 1
      BY <1>8 DEF Arrays
    <3>2. 0 + Len(header) = n + 1
      BY <1>4, <2>6
    <3>5. (0..Size - 1) \cup (0..n + 1) = 0..Size - 1
      <4>1. n + 1 < Size
        BY <1>1, <1>3, <1>9
      <4> QED
        BY <1>4, <1>5, <4>1
    <3>6. w = [k \in (0..Size - 1) \cup (0..n + 1) |->
               IF k < 0 \/ k > n + 1 THEN array[k] ELSE IF k = n + 1 THEN 0 ELSE header[k - 0 + 1]]
      BY <2>2, <3>1, <3>2 DEF Written
    <3>3. w = [k \in 0..Size - 1 |->
               IF k < 0 \/ k > n + 1 THEN array[k] ELSE IF k = n + 1 THEN 0 ELSE header[k - 0 + 1]]
      BY <3>5, <3>6
    <3>4. \A k \in 0..Size - 1 : k - 0 + 1 = k + 1
      BY <1>5
    <3> QED
      BY <3>3, <3>4
  <2>9. w \in Arrays
    <3>1. ASSUME NEW k \in 0..Size - 1, ~ (k < 0 \/ k > n + 1), k # n + 1
          PROVE  header[k + 1] \in Int
      <4>1. k = n \/ k + 1 \in 1..n
        BY <1>4, <1>5, <3>1
      <4>2. \A h \in 1..n : shown[h] \in Int
        <5>1. \A h \in 1..n : shown[h] \in Bytes
          BY <1>4, CharsAre
        <5>2. Bytes \subseteq Int
          BY FrontAssumption DEF Bytes
        <5> QED
          BY <5>1, <5>2
      <4> QED
        BY <2>7, <4>1, <4>2
    <3>2. \A k \in 0..Size - 1 : array[k] \in Int
      BY <1>8 DEF Arrays
    <3> QED
      BY <2>8, <3>1, <3>2 DEF Arrays
  <2>10. Holds(w, shown)
    <3>1. n \in 0..Size - 1 /\ ~ (n < 0 \/ n > n + 1) /\ n # n + 1
      BY <1>4
    <3>2. w[n] = 0
      BY <2>7, <2>8, <3>1
    <3>3. ASSUME NEW k \in 1..n PROVE w[k - 1] = shown[k]
      <4>1. /\ k - 1 \in 0..Size - 1 /\ ~ (k - 1 < 0 \/ k - 1 > n + 1) /\ k - 1 # n + 1
            /\ (k - 1) + 1 = k
        BY <1>4, <1>5
      <4> QED
        BY <2>7, <2>8, <4>1
    <3> QED
      BY <1>4, <3>2, <3>3 DEF Holds
  <2>11. next.buff = buff /\ next.c = 0 + 1 /\ next.current = w
    BY <2>1, <2>2
  <2> QED
    BY <1>1, <1>3, <1>7, <1>9, <2>9, <2>10, <2>11 DEF Reading
<1>10. CASE ~ older
  <2>1. IsAt(raw, 1, Append(first, 0))
    BY <1>1, <1>10, RawIs
  <2>2. IsAt(raw, 1, first \o << 0 >>)
    BY <1>4, <1>5, <2>1, AppendIsConcat
  <2>3. StringEnd(buff, 1) = 1 + n /\ SubSeq(buff, 1, 1 + n - 1) = shown
    <3>1. /\ StringEnd(Shown(fold, raw), 1) = 1 + Len(first)
          /\ SubSeq(Shown(fold, raw), 1, 1 + Len(first) - 1) = Shown(fold, first)
      BY <1>2, <1>6, <2>2, StringRead, ZenonT(30)
    <3>2. buff = Shown(fold, raw)
      BY <1>1
    <3> QED
      BY <1>3, <3>1, <3>2
  <2>4. PICK w : w = Written(array, 0, shown)
    OBVIOUS
  <2>5. next = [buff |-> buff, c |-> (1 + n) + 1, current |-> w]
    <3>1. next = inner_init(inner, buff)
      BY <1>10
    <3>2. PICK end : end = StringEnd(buff, 1)
      OBVIOUS
    <3>6. end = 1 + n
      BY <2>3, <3>2
    <3>3. end = 1 + n /\ SubSeq(buff, 1, end - 1) = shown
      <4>1. end - 1 = 1 + n - 1
        BY <1>4, <3>6
      <4> QED
        BY <2>3, <3>6, <4>1
    <3>4. next = [ buff |-> buff, c |-> end + 1,
                   current |-> Written(inner.current, 0, SubSeq(buff, 1, end - 1)) ]
      BY <3>1, <3>2, Zenon DEF inner_init
    <3>5. next = [buff |-> buff, c |-> end + 1, current |-> Written(array, 0, shown)]
      BY <1>8, <3>3, <3>4
    <3> QED
      BY <2>4, <3>3, <3>5
  <2>6. IsRest(shown, shown, 0)
    <3>1. n \in Nat /\ n - 0 = n /\ \A k \in 1..n - 0 : 0 + k = k
      BY <1>4
    <3> QED
      BY <1>4, <3>1 DEF IsRest
  <2>7. \A k \in 1..0 : array[k - 1] = shown[k]
    OBVIOUS
  <2>8. w \in Arrays /\ Holds(w, shown)
    BY <1>4, <1>8, <2>4, <2>6, <2>7, WrittenHolds
  <2>9. next.buff = buff /\ next.c = (n + 1) + 1 /\ next.current = w
    BY <1>4, <2>5
  <2> QED
    BY <1>1, <1>3, <1>7, <1>10, <2>8, <2>9 DEF Reading
<1> QED
  BY <1>9, <1>10

LEMMA KeepsReading ==
  ASSUME NEW fold \in BOOLEAN, NEW older \in BOOLEAN, NEW bin \in Seq(Chars),
         NEW padding \in Seq(Bytes), NEW inner, NEW m \in 1..Len(bin) - 1,
         Reading(fold, older, bin, padding, inner, m)
  PROVE  Reading(fold, older, bin, padding, inner_next(inner), m + 1)
<1>1. PICK raw, a, b, r :
        /\ raw = Raw(older, bin, padding) /\ a = bin[m] /\ b = bin[m + 1]
        /\ r = diff_rec(a, b)
  OBVIOUS
<1>2. Len(bin) \in Nat /\ bin # <<>>
  BY EmptySeq
<1>3. m \in 1..Len(bin) /\ m + 1 \in 2..Len(bin) /\ m + 1 \in 1..Len(bin) /\ (m + 1) - 1 = m
  BY <1>2
<1>4. a \in Chars /\ b \in Chars
  BY <1>1, <1>3, ElementOfSeq
<1>5. /\ raw \in Seq(Bytes) /\ IsAt(raw, Taken(older, bin, m) + 1, r)
      /\ Taken(older, bin, m + 1) = Taken(older, bin, m) + Len(r)
      /\ Taken(older, bin, m) \in Nat /\ Taken(older, bin, m + 1) \in Nat
  <2>1. raw \in Seq(Bytes)
    BY <1>1, <1>2, RawIs
  <2>2. LET s == diff_rec(bin[(m + 1) - 1], bin[m + 1])
        IN /\ IsAt(raw, Taken(older, bin, (m + 1) - 1) + 1, s)
           /\ Taken(older, bin, m + 1) = Taken(older, bin, (m + 1) - 1) + Len(s)
    BY <1>1, <1>2, <1>3, RawIs
  <2>3. Taken(older, bin, m) \in Nat /\ Taken(older, bin, m + 1) \in Nat
    BY <1>2, <1>3, RawIs
  <2> QED
    BY <1>1, <1>3, <2>1, <2>2, <2>3
<1>6. /\ inner.buff = Shown(fold, raw) /\ inner.c = Taken(older, bin, m) + 1
      /\ inner.current \in Arrays /\ Holds(inner.current, Shown(fold, a))
  BY <1>1 DEF Reading
<1>7. IsAt(raw, inner.c, diff_rec(a, b))
  BY <1>1, <1>5, <1>6
<1>8. PICK current \in Arrays :
        /\ Holds(current, Shown(fold, b))
        /\ inner_next(inner) = [ buff |-> inner.buff, current |-> current,
                                 c |-> inner.c + Len(diff_rec(a, b)) ]
  BY <1>4, <1>5, <1>6, <1>7, NextReads
<1>9. PICK next : next = inner_next(inner)
  OBVIOUS
<1>10. /\ next.buff = Shown(fold, raw) /\ next.current = current
       /\ next.c = inner.c + Len(r)
  BY <1>1, <1>6, <1>8, <1>9
<1>11. next.c = Taken(older, bin, m + 1) + 1
  <2>1. PICK k \in Nat, l \in Nat : k = Taken(older, bin, m) /\ l = Taken(older, bin, m + 1)
    BY <1>5
  <2>2. l = k + Len(r) /\ inner.c = k + 1
    BY <1>5, <1>6, <2>1
  <2>3. Len(r) = l - k
    <3>1. Len(r) \in Nat
      BY <1>5 DEF IsAt
    <3> QED
      BY <2>1, <2>2
  <2> QED
    BY <1>10, <2>1, <2>2, <2>3
<1> QED
  BY <1>1, <1>8, <1>9, <1>10, <1>11 DEF Reading

LEMMA ReadingStays ==
  ASSUME NEW fold \in BOOLEAN, NEW older \in BOOLEAN, NEW bin \in Seq(Chars),
         NEW padding \in Seq(Bytes), NEW inner, NEW m \in 1..Len(bin),
         Reading(fold, older, bin, padding, inner, m)
  PROVE  /\ CString(inner.current) = Shown(fold, bin[m])
         /\ inner.c \in Nat \ {0} /\ inner.current \in Arrays
         /\ inner.c <= Len(inner.buff) - Len(padding) + 1
<1>1. bin # <<>>
  BY EmptySeq
<1>2. PICK raw : raw = Raw(older, bin, padding)
  OBVIOUS
<1>3. /\ raw \in Seq(Bytes) /\ Taken(older, bin, m) \in Nat
      /\ Taken(older, bin, m) <= Len(raw) - Len(padding)
  BY <1>1, <1>2, RawIs
<1>4. bin[m] \in Chars /\ Shown(fold, bin[m]) \in Chars
  BY ShownIs
<1>5. /\ inner.buff = Shown(fold, raw) /\ inner.c = Taken(older, bin, m) + 1
      /\ inner.current \in Arrays /\ Holds(inner.current, Shown(fold, bin[m]))
  BY <1>2 DEF Reading
<1>6. Len(inner.buff) = Len(raw)
  <2>1. DOMAIN raw = 1..Len(raw) /\ Len(raw) \in Nat
    BY <1>3
  <2>2. Shown(fold, raw) = [k \in 1..Len(raw) |-> Byte(fold, raw[k])]
    BY <2>1 DEF Shown
  <2> QED
    BY <1>5, <2>1, <2>2
<1>7. CString(inner.current) = Shown(fold, bin[m])
  BY <1>4, <1>5, CStringIs
<1>8. PICK k \in Nat, l \in Nat, p \in Nat :
        k = Taken(older, bin, m) /\ l = Len(raw) /\ p = Len(padding)
  BY <1>3
<1>9. k <= l - p /\ inner.c = k + 1 /\ Len(inner.buff) = l
  BY <1>3, <1>5, <1>6, <1>8
<1> QED
  BY <1>5, <1>7, <1>8, <1>9

-----------------------------------------------------------------------------
(* The bins of a list.                                                     *)

LEMMA BinSizeIs == BinSize \in Nat \ {0}
<1> QED
  BY FrontAssumption

LEMMA BinCountIs ==
  ASSUME NEW n \in Nat
  PROVE  /\ BinCount(n) \in Nat
         /\ BinCount(n) = IF (n % BinSize) = 0 THEN n \div BinSize ELSE n \div BinSize + 1
<1>1. PICK d \in Nat \ {0} : d = BinSize
  BY BinSizeIs
<1>2. PICK q \in Nat, r \in 0..d - 1 : q = n \div d /\ r = (n % d) /\ n = d * q + r
  BY Division
<1>3. PICK x : x = n + d - 1
  OBVIOUS
<1>4. CASE r = 0
  <2>1. d - 1 \in 0..d - 1
    BY <1>1
  <2>2. (d * q + (d - 1)) \div d = q
    BY <1>1, <1>2, <2>1, Quotient, Zenon
  <2>3. x = d * q + (d - 1)
    BY <1>1, <1>2, <1>3, <1>4
  <2>4. x \div d = q
    BY <2>2, <2>3
  <2> QED
    BY <1>1, <1>2, <1>3, <1>4, <2>4 DEF BinCount
<1>5. CASE r # 0
  <2>1. r - 1 \in 0..d - 1 /\ q + 1 \in Nat
    BY <1>1, <1>2, <1>5
  <2>2. (d * (q + 1) + (r - 1)) \div d = q + 1
    BY <1>1, <1>2, <2>1, Quotient, Zenon
  <2>3. d * (q + 1) = d * q + d
    BY <1>1, <1>2
  <2>4. x = d * (q + 1) + (r - 1)
    BY <1>1, <1>2, <1>3, <2>3
  <2>5. x \div d = q + 1
    BY <2>2, <2>4
  <2> QED
    BY <1>1, <1>2, <1>3, <1>5, <2>5 DEF BinCount
<1> QED
  BY <1>4, <1>5

LEMMA BinIs ==
  ASSUME NEW n \in Nat, NEW b \in 0..BinCount(n) - 1
  PROVE  /\ BinLength(b, n) \in 1..BinSize /\ b * BinSize + BinLength(b, n) <= n
         /\ b < BinCount(n) - 1 => BinLength(b, n) = BinSize
         /\ b = BinCount(n) - 1 => b * BinSize + BinLength(b, n) = n
         /\ b * BinSize \in Nat
<1>1. PICK d \in Nat \ {0} : d = BinSize
  BY BinSizeIs
<1>2. PICK q \in Nat, r \in 0..d - 1 : q = n \div d /\ r = (n % d) /\ n = d * q + r
  BY Division
<1>20. PICK c \in Nat : c = BinCount(n)
  BY BinCountIs
<1>3. PICK l : c = BinCount(n) /\ l = BinLength(b, n)
  BY <1>20
<1>4. c = IF r = 0 THEN q ELSE q + 1
  BY <1>1, <1>2, <1>3, BinCountIs
<1>5. l = IF b < c - 1 \/ r = 0 THEN d ELSE r
  BY <1>1, <1>2, <1>3 DEF BinLength
<1>6. b \in Nat /\ b <= c - 1
  BY <1>3
<1>7. l \in 1..d
  BY <1>1, <1>2, <1>5
<1>8. CASE b < c - 1 \/ r = 0
  <2>1. l = d /\ b + 1 <= q
    BY <1>2, <1>4, <1>5, <1>6, <1>8
  <2>2. d * (b + 1) <= d * q
    BY <1>1, <1>2, <1>6, <2>1
  <2>3. b * d + l = d * (b + 1)
    BY <1>1, <1>6, <2>1
  <2>4. b = c - 1 => b * d + l = n
    <3>1. CASE b = c - 1
      <4>1. r = 0 /\ b + 1 = q
        BY <1>4, <1>6, <1>8, <3>1
      <4> QED
        BY <1>2, <2>3, <4>1
    <3> QED
      BY <3>1
  <2>5. b * d + l <= n
    BY <1>1, <1>2, <1>6, <2>2, <2>3
  <2> QED
    BY <1>1, <1>3, <1>6, <1>7, <2>1, <2>4, <2>5
<1>9. CASE ~ (b < c - 1 \/ r = 0)
  <2>1. b = q /\ l = r /\ b = c - 1
    BY <1>2, <1>4, <1>5, <1>6, <1>9
  <2>2. b * d + l = n
    BY <1>1, <1>2, <2>1
  <2>3. b * d \in Nat
    BY <1>1, <1>6
  <2> QED
    BY <1>1, <1>3, <1>7, <2>1, <2>2, <2>3
<1> QED
  BY <1>8, <1>9

Bin(ss, b) == SubSeq(ss, b * BinSize + 1, b * BinSize + BinLength(b, Len(ss)))

LEMMA BinStrings ==
  ASSUME NEW ss \in Seq(Chars), NEW b \in 0..BinCount(Len(ss)) - 1
  PROVE  /\ Bin(ss, b) \in Seq(Chars) /\ Bin(ss, b) # <<>>
         /\ Len(Bin(ss, b)) = BinLength(b, Len(ss))
         /\ \A m \in 1..BinLength(b, Len(ss)) :
              /\ Bin(ss, b)[m] = ss[b * BinSize + m]
              /\ b * BinSize + m \in 1..Len(ss)
<1>1. PICK n \in Nat : n = Len(ss)
  OBVIOUS
<1>11. PICK d \in Nat \ {0} : d = BinSize
  BY BinSizeIs
<1>2. PICK l \in 1..d : d = BinSize /\ l = BinLength(b, n)
  BY <1>1, <1>11, BinIs
<1>3. PICK k : k = b * d
  OBVIOUS
<1>4. k \in Nat /\ k + l <= n
  BY <1>1, <1>2, <1>3, BinIs
<1>5. PICK s : s = SubSeq(ss, k + 1, k + l)
  OBVIOUS
<1>6. k + 1 \in Int /\ k + l \in Int /\ \A h \in k + 1..k + l : ss[h] \in Chars
  BY <1>1, <1>2, <1>4
<1>7. /\ s \in Seq(Chars)
      /\ Len(s) = IF k + 1 <= k + l THEN (k + l) - (k + 1) + 1 ELSE 0
      /\ \A m \in 1..(k + l) - (k + 1) + 1 : s[m] = ss[k + 1 + m - 1]
  BY <1>5, <1>6, SubSeqProperties
<1>8. Len(s) = l
  BY <1>2, <1>4, <1>7
<1>9. ASSUME NEW m \in 1..l PROVE s[m] = ss[k + m] /\ k + m \in 1..n
  <2>1. m \in 1..(k + l) - (k + 1) + 1 /\ k + 1 + m - 1 = k + m
    BY <1>2, <1>4
  <2> QED
    BY <1>2, <1>4, <1>7, <2>1
<1>10. s # <<>>
  BY <1>2, <1>8
<1> QED
  BY <1>1, <1>2, <1>3, <1>5, <1>7, <1>8, <1>9, <1>10 DEF Bin

(* Only one bin and one place in it have a position.                       *)
LEMMA OnePlace ==
  ASSUME NEW b \in Nat, NEW c \in Nat, NEW m \in 1..BinSize, NEW k \in 1..BinSize,
         b * BinSize + m = c * BinSize + k
  PROVE  b = c /\ m = k
<1>1. PICK d \in Nat \ {0} : d = BinSize
  BY BinSizeIs
<1>2. m - 1 \in 0..d - 1 /\ k - 1 \in 0..d - 1
  BY <1>1
<1>3. d * b + (m - 1) = d * c + (k - 1)
  BY <1>1
<1>4. (d * b + (m - 1)) \div d = b /\ (d * c + (k - 1)) \div d = c
  BY <1>1, <1>2, Quotient, Zenon
<1>5. b = c
  BY <1>3, <1>4
<1>6. m = k
  BY <1>1, <1>5
<1> QED
  BY <1>5, <1>6

-----------------------------------------------------------------------------
(* The dictionary of a list, and inner when p strings have been read.      *)

Dict(older, ss, padding) ==
  IF older THEN OlderFormat(ss, padding) ELSE hfc_compress_sorted(ss, padding)

Decoded(older, dict, b, inner, fold) ==
  IF older THEN htfc_uncompress_bin(dict, b, inner, fold) ELSE uncompress_bin(dict, b, inner, fold)

InnerAt(fold, older, ss, padding, inner, p) ==
  /\ inner.current \in Arrays
  /\ p = 0 => inner.c = 0
  /\ p # 0 => \E b \in 0..BinCount(Len(ss)) - 1 : \E m \in 1..BinLength(b, Len(ss)) :
       p = b * BinSize + m /\ Reading(fold, older, Bin(ss, b), padding, inner, m)

LEMMA ShownIsFolded ==
  ASSUME NEW fold \in BOOLEAN, NEW t \in Seq(Bytes)
  PROVE  Shown(fold, t) = IF fold THEN Folded(t) ELSE t
<1>1. CASE fold
  BY <1>1 DEF Shown, Folded, Byte
<1>2. CASE ~ fold
  <2>1. t = [k \in DOMAIN t |-> t[k]]
    BY LenProperties
  <2> QED
    BY <1>2, <2>1 DEF Shown, Byte
<1> QED
  BY <1>1, <1>2

IsDict(dict, older, ss, padding) ==
  /\ dict.length = Len(ss) /\ dict.padding = padding
  /\ \A b \in 0..BinCount(Len(ss)) - 1 :
       IF older THEN /\ dict.bins[b + 1].inner = Raw(TRUE, Bin(ss, b), padding)
                     /\ dict.bins[b + 1].header = Append(Bin(ss, b)[1], 0)
       ELSE dict.bins[b + 1] = Raw(FALSE, Bin(ss, b), padding)

LEMMA DictIs ==
  ASSUME NEW older \in BOOLEAN, NEW ss \in Seq(Chars), NEW padding \in Seq(Bytes)
  PROVE  IsDict(Dict(older, ss, padding), older, ss, padding)
<1>7. PICK dict : dict = Dict(older, ss, padding)
  OBVIOUS
<1>1. PICK n \in Nat, count \in Nat : n = Len(ss) /\ count = BinCount(n)
  BY BinCountIs
<1>2. PICK new : new = hfc_compress_sorted(ss, padding)
  OBVIOUS
<1> DEFINE NewBin(b) == compute_inner(SubSeq(ss, (b - 1) * BinSize + 1,
                           (b - 1) * BinSize + BinLength(b - 1, n))) \o padding
<1>3. new = [length |-> n, padding |-> padding, bins |-> [b \in 1..count |-> NewBin(b)]]
  BY <1>1, <1>2 DEF hfc_compress_sorted
<1>4. ASSUME NEW b \in 0..count - 1
      PROVE  b + 1 \in 1..count /\ NewBin(b + 1) = Whole(Bin(ss, b), padding)
  <2>1. b + 1 \in 1..count /\ (b + 1) - 1 = b
    BY <1>1
  <2> QED
    BY <1>1, <2>1 DEF Whole, Bin
<1> HIDE DEF NewBin
<1>5. CASE ~ older
  <2>1. dict = new
    BY <1>2, <1>5, <1>7 DEF Dict
  <2>2. dict.length = n /\ dict.padding = padding /\ dict.bins = [b \in 1..count |-> NewBin(b)]
    BY <1>3, <2>1
  <2>3. ASSUME NEW b \in 0..count - 1 PROVE dict.bins[b + 1] = Raw(FALSE, Bin(ss, b), padding)
    BY <1>4, <2>2 DEF Raw
  <2> QED
    BY <1>1, <1>5, <1>7, <2>2, <2>3 DEF IsDict
<1>6. CASE older
  <2> DEFINE Header(b) == Append(ss[(b - 1) * BinSize + 1], 0)
             bins == [b \in 1..count |-> NewBin(b)]
             OlderBin(b) == [ header |-> Header(b),
                              inner |-> SubSeq(bins[b], Len(Header(b)) + 1, Len(bins[b])) ]
  <2>1. new.bins = bins /\ DOMAIN bins = 1..count
    BY <1>3
  <2>2. dict = [new EXCEPT !.bins = [b \in 1..count |-> OlderBin(b)]]
    <3>1. dict = OlderFormat(ss, padding)
      BY <1>6, <1>7 DEF Dict
    <3>2. OlderFormat(ss, padding) =
            [new EXCEPT !.bins = [b \in DOMAIN new.bins |->
               [ header |-> Header(b),
                 inner |-> SubSeq(new.bins[b], Len(Header(b)) + 1, Len(new.bins[b])) ]]]
      BY <1>2, Zenon DEF OlderFormat
    <3> HIDE DEF bins, Header
    <3> QED
      BY <2>1, <3>1, <3>2
  <2> HIDE DEF OlderBin, bins
  <2>3. dict.length = n /\ dict.padding = padding /\ dict.bins = [b \in 1..count |-> OlderBin(b)]
    BY <1>3, <2>2
  <2>4. ASSUME NEW b \in 0..count - 1
        PROVE  /\ dict.bins[b + 1].inner = Raw(TRUE, Bin(ss, b), padding)
               /\ dict.bins[b + 1].header = Append(Bin(ss, b)[1], 0)
    <3>1. b + 1 \in 1..count /\ (b + 1) - 1 = b
      BY <1>1
    <3>2. dict.bins[b + 1] = OlderBin(b + 1)
      BY <2>3, <3>1
    <3>3. Header(b + 1) = Append(Bin(ss, b)[1], 0)
      <4>1. 1 \in 1..BinLength(b, Len(ss))
        <5>1. BinLength(b, Len(ss)) \in 1..BinSize /\ BinSize \in Nat
          BY <1>1, BinIs, BinSizeIs
        <5> QED
          BY <5>1
      <4>2. Bin(ss, b)[1] = ss[b * BinSize + 1]
        BY <1>1, <4>1, BinStrings
      <4> QED
        BY <3>1, <4>2
    <3>4. bins[b + 1] = Whole(Bin(ss, b), padding)
      BY <1>4, <3>1 DEF bins
    <3> HIDE DEF Header
    <3>5. dict.bins[b + 1].header = Header(b + 1)
      BY <3>2 DEF OlderBin
    <3>6. dict.bins[b + 1].inner = SubSeq(bins[b + 1], Len(Header(b + 1)) + 1, Len(bins[b + 1]))
      <4>1. PICK h, t : h = Header(b + 1) /\ t = bins[b + 1]
        OBVIOUS
      <4>2. PICK u : u = SubSeq(t, Len(h) + 1, Len(t))
        OBVIOUS
      <4>3. dict.bins[b + 1] = [header |-> h, inner |-> u]
        BY <3>2, <4>1, <4>2, Zenon DEF OlderBin
      <4>4. dict.bins[b + 1].inner = u
        BY <4>3
      <4> QED
        BY <4>1, <4>2, <4>4
    <3> QED
      BY <3>3, <3>4, <3>5, <3>6 DEF Raw, Skip
  <2> QED
    BY <1>1, <1>6, <1>7, <2>3, <2>4 DEF IsDict
<1> QED
  BY <1>5, <1>6

(* Decoding a bin is reading its first string.                             *)
LEMMA InnerStarts ==
  ASSUME NEW fold \in BOOLEAN, NEW older \in BOOLEAN, NEW ss \in Seq(Chars),
         older => HeadersFit(ss),
         NEW padding \in Seq(Bytes), NEW inner, inner.current \in Arrays,
         NEW b \in 0..BinCount(Len(ss)) - 1
  PROVE  InnerAt(fold, older, ss, padding,
                 Decoded(older, Dict(older, ss, padding), b, inner, fold), b * BinSize + 1)
<1>1. PICK dict, bin : dict = Dict(older, ss, padding) /\ bin = Bin(ss, b)
  OBVIOUS
<1>2. bin \in Seq(Chars) /\ bin # <<>> /\ Len(bin) = BinLength(b, Len(ss))
  BY <1>1, BinStrings
<1>3. PICK next, buff, header :
        /\ next = Decoded(older, dict, b, inner, fold)
        /\ buff = Shown(fold, Raw(older, bin, padding))
        /\ header = Shown(fold, Append(bin[1], 0))
  OBVIOUS
<1>4. Raw(older, bin, padding) \in Seq(Bytes) /\ Append(bin[1], 0) \in Seq(Bytes)
  <2>1. Raw(older, bin, padding) \in Seq(Bytes)
    BY <1>2, RawIs
  <2>2. bin[1] \in Chars
    <3>1. 1 \in 1..Len(bin)
      <4>1. Len(bin) \in Nat \ {0}
        BY <1>2, EmptySeq
      <4> QED
        BY <4>1
    <3> QED
      BY <1>2, <3>1, ElementOfSeq
  <2>3. bin[1] \in Seq(Bytes) /\ 0 \in Bytes
    BY <2>2, CharsAre, FrontAssumption DEF Bytes
  <2>4. Append(bin[1], 0) \in Seq(Bytes)
    BY <2>3, AppendProperties
  <2> QED
    BY <2>1, <2>4
<1>9. IF older THEN /\ dict.bins[b + 1].inner = Raw(TRUE, Bin(ss, b), padding)
                     /\ dict.bins[b + 1].header = Append(Bin(ss, b)[1], 0)
      ELSE dict.bins[b + 1] = Raw(FALSE, Bin(ss, b), padding)
  <2>1. IsDict(dict, older, ss, padding)
    BY <1>1, DictIs
  <2> QED
    BY <2>1, Zenon DEF IsDict
<1>5. next = IF older THEN htfc_inner_init(inner, buff, header) ELSE inner_init(inner, buff)
  <2>1. CASE older
    <3>1. /\ dict.bins[b + 1].inner = Raw(TRUE, bin, padding)
          /\ dict.bins[b + 1].header = Append(bin[1], 0)
      BY <1>1, <1>9, <2>1
    <3>2. buff = IF fold THEN Folded(dict.bins[b + 1].inner) ELSE dict.bins[b + 1].inner
      BY <1>3, <1>4, <2>1, <3>1, ShownIsFolded
    <3>3. header = IF fold THEN Folded(dict.bins[b + 1].header) ELSE dict.bins[b + 1].header
      BY <1>3, <1>4, <3>1, ShownIsFolded
    <3>4. next = htfc_uncompress_bin(dict, b, inner, fold)
      BY <1>3, <2>1 DEF Decoded
    <3>5. next = htfc_inner_init(inner, buff, header)
      <4>1. CASE fold
        BY <3>2, <3>3, <3>4, <4>1 DEF htfc_uncompress_bin
      <4>2. CASE ~ fold
        BY <3>2, <3>3, <3>4, <4>2 DEF htfc_uncompress_bin
      <4> QED
        BY <4>1, <4>2
    <3> QED
      BY <2>1, <3>5
  <2>2. CASE ~ older
    <3>1. dict.bins[b + 1] = Raw(FALSE, bin, padding)
      BY <1>1, <1>9, <2>2
    <3>2. buff = IF fold THEN Folded(dict.bins[b + 1]) ELSE dict.bins[b + 1]
      BY <1>3, <1>4, <2>2, <3>1, ShownIsFolded
    <3>3. next = uncompress_bin(dict, b, inner, fold)
      BY <1>3, <2>2 DEF Decoded
    <3>4. next = inner_init(inner, buff)
      BY <3>2, <3>3 DEF uncompress_bin
    <3> QED
      BY <2>2, <3>4
  <2> QED
    BY <2>1, <2>2
<1>6. Reading(fold, older, bin, padding, next, 1)
  <2>1. older => Len(bin[1]) + 1 < Size
    <3>1. 1 \in 1..BinLength(b, Len(ss))
      <4>1. BinLength(b, Len(ss)) \in 1..BinSize /\ BinSize \in Nat
        BY BinIs, BinSizeIs
      <4> QED
        BY <4>1
    <3>2. bin[1] = ss[b * BinSize + 1]
      BY <1>1, <3>1, BinStrings
    <3> QED
      BY <3>2 DEF HeadersFit
  <2> QED
    BY <1>2, <1>3, <1>5, <2>1, StartsReading
<1>7. next.current \in Arrays
  BY <1>6 DEF Reading
<1>8. 1 \in 1..BinLength(b, Len(ss)) /\ b * BinSize + 1 # 0
  <2>1. BinLength(b, Len(ss)) \in 1..BinSize /\ BinSize \in Nat /\ b * BinSize \in Nat
    BY BinIs, BinSizeIs
  <2> QED
    BY <2>1
<1> QED
  BY <1>1, <1>3, <1>6, <1>7, <1>8 DEF InnerAt

(* inner_next reads the next one of the bin.                               *)
LEMMA InnerNext ==
  ASSUME NEW fold \in BOOLEAN, NEW older \in BOOLEAN, NEW ss \in Seq(Chars),
         NEW padding \in Seq(Bytes), NEW inner,
         NEW b \in 0..BinCount(Len(ss)) - 1, NEW m \in 1..BinLength(b, Len(ss)) - 1,
         InnerAt(fold, older, ss, padding, inner, b * BinSize + m)
  PROVE  InnerAt(fold, older, ss, padding, inner_next(inner), b * BinSize + (m + 1))
<1>11. PICK n \in Nat : n = Len(ss)
  OBVIOUS
<1>1. PICK l : n = Len(ss) /\ l = BinLength(b, n)
  BY <1>11
<1>2. l \in 1..BinSize /\ BinSize \in Nat /\ b * BinSize \in Nat
  BY <1>1, BinIs, BinSizeIs
<1>3. b * BinSize + m # 0 /\ b * BinSize + (m + 1) # 0
  BY <1>1, <1>2
<1>10. PICK c \in 0..BinCount(n) - 1 : \E k \in 1..BinLength(c, n) :
         /\ b * BinSize + m = c * BinSize + k
         /\ Reading(fold, older, Bin(ss, c), padding, inner, k)
  BY <1>1, <1>3 DEF InnerAt
<1>4. PICK k \in 1..BinLength(c, n) :
        /\ b * BinSize + m = c * BinSize + k
        /\ Reading(fold, older, Bin(ss, c), padding, inner, k)
  BY <1>10
<1>5. b = c /\ m = k
  <2>1. BinLength(c, n) \in 1..BinSize
    BY BinIs
  <2>2. b \in Nat /\ c \in Nat /\ m \in 1..BinSize /\ k \in 1..BinSize
    <3>1. BinCount(n) \in Nat /\ b \in 0..BinCount(n) - 1
      BY <1>1, BinCountIs
    <3>2. b \in Nat /\ c \in Nat
      BY <3>1
    <3>3. PICK h : h = BinLength(c, n)
      OBVIOUS
    <3>4. m \in 1..l - 1 /\ k \in 1..h /\ h \in 1..BinSize
      BY <1>1, <2>1, <3>3
    <3> QED
      BY <1>2, <3>2, <3>4
  <2> QED
    BY <1>4, <2>2, OnePlace
<1>6. PICK bin, next : bin = Bin(ss, b) /\ next = inner_next(inner)
  OBVIOUS
<1>7. bin \in Seq(Chars) /\ Len(bin) = l
  BY <1>1, <1>6, BinStrings
<1>8. Reading(fold, older, bin, padding, next, m + 1)
  <2>1. m \in 1..Len(bin) - 1 /\ Reading(fold, older, bin, padding, inner, m)
    BY <1>1, <1>4, <1>5, <1>6, <1>7
  <2> QED
    BY <1>6, <1>7, <2>1, KeepsReading
<1>9. m + 1 \in 1..l /\ next.current \in Arrays
  BY <1>1, <1>2, <1>8 DEF Reading
<1> QED
  BY <1>1, <1>3, <1>6, <1>8, <1>9 DEF InnerAt

(* What has been read is the string at that position, in its bin.          *)
LEMMA InnerReads ==
  ASSUME NEW fold \in BOOLEAN, NEW older \in BOOLEAN, NEW ss \in Seq(Chars),
         NEW padding \in Seq(Bytes), NEW inner, NEW p, p # 0,
         InnerAt(fold, older, ss, padding, inner, p)
  PROVE  /\ p \in 1..Len(ss) /\ CString(inner.current) = Shown(fold, ss[p])
         /\ inner.c \in Nat \ {0}
         /\ inner.c <= Len(inner.buff) - Len(padding) + 1
<1>6. PICK b \in 0..BinCount(Len(ss)) - 1 : \E m \in 1..BinLength(b, Len(ss)) :
        p = b * BinSize + m /\ Reading(fold, older, Bin(ss, b), padding, inner, m)
  BY DEF InnerAt
<1>1. PICK m \in 1..BinLength(b, Len(ss)) :
        p = b * BinSize + m /\ Reading(fold, older, Bin(ss, b), padding, inner, m)
  BY <1>6
<1>2. PICK bin : bin = Bin(ss, b)
  OBVIOUS
<1>3. /\ bin \in Seq(Chars) /\ Len(bin) = BinLength(b, Len(ss))
      /\ bin[m] = ss[p] /\ p \in 1..Len(ss)
  BY <1>1, <1>2, BinStrings
<1>4. m \in 1..Len(bin) /\ Reading(fold, older, bin, padding, inner, m)
  BY <1>1, <1>2, <1>3
<1>5. /\ CString(inner.current) = Shown(fold, bin[m])
      /\ inner.c \in Nat \ {0}
      /\ inner.c <= Len(inner.buff) - Len(padding) + 1
  BY <1>3, <1>4, ReadingStays
<1> QED
  BY <1>3, <1>5

-----------------------------------------------------------------------------
(* The lines of a text: u[k] is where the k-th of ss ends in it.           *)
Marks(u, t, ss) ==
  /\ u \in [0..Len(ss) -> 0..Len(t)] /\ u[0] = 0
  /\ \A k \in 1..Len(ss) :
       /\ u[k] = u[k - 1] + Len(ss[k]) + 1 /\ t[u[k]] = Newline
       /\ \A h \in 1..Len(ss[k]) : t[u[k - 1] + h] = ss[k][h] /\ ss[k][h] # Newline
  /\ \A h \in u[Len(ss)] + 1..Len(t) : t[h] # Newline

Letters == Char \cup {Newline}

LEMMA TextIsMarked ==
  ASSUME NEW ss \in Seq(Chars), NEW tail \in Seq(Char)
  PROVE  /\ TextOf(ss, tail) \in Seq(Letters)
         /\ \E u : Marks(u, TextOf(ss, tail), ss) /\ u[Len(ss)] + Len(tail) = Len(TextOf(ss, tail))
<1>1. PICK n \in Nat : n = Len(ss) /\ DOMAIN ss = 1..n
  OBVIOUS
<1>2. PICK recs : recs = [k \in 1..n |-> Append(ss[k], Newline)]
  OBVIOUS
<1>3. \A k \in 1..n : ss[k] \in Seq(Letters) /\ Len(ss[k]) \in Nat /\ ss[k] \in Seq(Char)
  <2>1. ASSUME NEW k \in 1..n PROVE ss[k] \in Seq(Letters) /\ ss[k] \in Seq(Char)
    <3>1. ss[k] \in Seq(Char)
      BY <1>1, CharsAre
    <3> QED
      BY <3>1, SeqMonotonic DEF Letters
  <2> QED
    BY <2>1
<1>4. ASSUME NEW k \in 1..n
      PROVE  /\ recs[k] \in Seq(Letters) /\ Len(recs[k]) = Len(ss[k]) + 1
             /\ \A h \in 1..Len(ss[k]) : recs[k][h] = ss[k][h]
             /\ recs[k][Len(ss[k]) + 1] = Newline
  <2>1. Newline \in Letters /\ ss[k] \in Seq(Letters) /\ recs[k] = Append(ss[k], Newline)
    BY <1>2, <1>3 DEF Letters
  <2> QED
    BY <2>1, AppendProperties
<1>5. recs \in Seq(Seq(Letters)) /\ Len(recs) = n
  <2>1. recs \in [1..n -> Seq(Letters)]
    BY <1>2, <1>4
  <2> QED
    BY <2>1
<1>6. PICK all : all = FlattenSeq(recs)
  OBVIOUS
<1>7. all \in Seq(Letters) /\ tail \in Seq(Letters)
  BY <1>5, <1>6, FlattenNext, SeqMonotonic DEF Letters
<1>8. PICK t : t = TextOf(ss, tail)
  OBVIOUS
<1>9. /\ t = all \o tail /\ t \in Seq(Letters) /\ Len(t) = Len(all) + Len(tail)
      /\ \A h \in 1..Len(all) + Len(tail) :
           t[h] = IF h <= Len(all) THEN all[h] ELSE tail[h - Len(all)]
  <2>1. t = all \o tail
    BY <1>1, <1>2, <1>6, <1>8 DEF TextOf
  <2> QED
    BY <1>7, <2>1, ConcatProperties
<1>10. PICK a \in Nat, b \in Nat : a = Len(all) /\ b = Len(tail)
  BY <1>7
<1>11. PICK u : u = [k \in 0..n |-> Len(Until(recs, k))]
  OBVIOUS
<1>12. \A k \in 0..n : u[k] = Len(Until(recs, k)) /\ u[k] \in Nat
  BY <1>5, <1>11, UntilIs
<1>13. u[0] = 0 /\ u[n] = a
  <2>1. Until(recs, 0) = <<>> /\ Until(recs, n) = all
    BY <1>5, <1>6, UntilIs
  <2>2. u[0] = Len(Until(recs, 0)) /\ u[n] = Len(Until(recs, n))
    BY <1>12
  <2> QED
    BY <1>10, <2>1, <2>2
<1>14. ASSUME NEW k \in 1..n
       PROVE  /\ IsAt(all, u[k - 1] + 1, recs[k]) /\ u[k] = u[k - 1] + Len(recs[k])
              /\ u[k] <= a /\ u[k - 1] \in Nat /\ u[k] \in Nat
  <2>1. k \in 1..Len(recs) /\ k - 1 \in 0..n /\ k \in 0..n
    BY <1>5
  <2> QED
    BY <1>5, <1>6, <1>10, <1>12, <2>1, AtUntil
<1>15. u \in [0..n -> 0..Len(t)]
  <2>1. Len(t) = a + b
    BY <1>9, <1>10
  <2>2. ASSUME NEW k \in 0..n PROVE u[k] \in 0..a + b
    <3>1. CASE k = 0
      BY <1>10, <1>13, <3>1
    <3>2. CASE k # 0
      <4>1. k \in 1..n
        BY <3>2
      <4> QED
        BY <1>10, <1>14, <4>1
    <3> QED
      BY <3>1, <3>2
  <2> QED
    BY <1>11, <2>1, <2>2
<1>16. ASSUME NEW k \in 1..n
       PROVE  /\ u[k] = u[k - 1] + Len(ss[k]) + 1 /\ t[u[k]] = Newline
              /\ \A h \in 1..Len(ss[k]) : t[u[k - 1] + h] = ss[k][h] /\ ss[k][h] # Newline
  <2>1. PICK l \in Nat, c \in Nat : l = Len(ss[k]) /\ c = u[k - 1]
    BY <1>3, <1>14
  <2>2. u[k] = c + (l + 1) /\ u[k] = c + l + 1 /\ u[k] <= a
    <3>1. Len(recs[k]) = l + 1
      BY <1>4, <2>1
    <3>2. u[k] = c + Len(recs[k]) /\ u[k] <= a
      BY <1>14, <2>1
    <3>3. u[k] = c + (l + 1)
      BY <3>1, <3>2, Zenon
    <3>4. c + (l + 1) = c + l + 1
      OBVIOUS
    <3> QED
      BY <3>2, <3>3, <3>4
  <2>3. \A h \in 1..l + 1 : all[(c + 1) + h - 1] = recs[k][h]
    BY <1>4, <1>14, <2>1 DEF IsAt
  <2>4. ASSUME NEW h \in 1..l + 1 PROVE t[c + h] = recs[k][h]
    <3>1. c + h \in 1..a + b /\ c + h <= a /\ (c + 1) + h - 1 = c + h
      BY <1>10, <2>2
    <3> QED
      BY <1>9, <1>10, <2>3, <3>1
  <2>5. t[u[k]] = Newline
    <3>1. l + 1 \in 1..l + 1 /\ u[k] = c + (l + 1)
      <4>1. l + 1 \in 1..l + 1
        OBVIOUS
      <4> QED
        BY <2>2, <4>1
    <3>2. recs[k][l + 1] = Newline
      BY <1>4, <2>1
    <3> QED
      BY <2>4, <3>1, <3>2
  <2>6. ASSUME NEW h \in 1..l PROVE t[c + h] = ss[k][h] /\ ss[k][h] # Newline
    <3>1. h \in 1..l + 1
      BY <2>1
    <3>2. ss[k][h] \in Char
      BY <1>3, <2>1, ElementOfSeq
    <3> QED
      BY <1>4, <2>1, <2>4, <3>1, <3>2, FrontAssumption
  <2> QED
    BY <2>1, <2>2, <2>5, <2>6
<1>17. ASSUME NEW h \in u[n] + 1..Len(t) PROVE t[h] # Newline
  <2>1. h \in 1..a + b /\ ~ (h <= a) /\ h - a \in 1..b
    BY <1>9, <1>10, <1>13
  <2>2. t[h] = tail[h - a]
    BY <1>9, <1>10, <2>1
  <2>3. tail[h - a] \in Char
    BY <1>10, <2>1, ElementOfSeq
  <2> QED
    BY <2>2, <2>3, FrontAssumption
<1>18. u[n] + Len(tail) = Len(t)
  BY <1>9, <1>10, <1>13
<1>19. Marks(u, t, ss)
  BY <1>1, <1>13, <1>15, <1>16, <1>17 DEF Marks
<1> QED
  BY <1>1, <1>8, <1>9, <1>18, <1>19

(* The function that Lines is defined with.                                *)
Reads(f, t) ==
  f = [k \in 0..Len(t) |->
         IF k = 0 THEN [strs |-> <<>>, c |-> 1]
         ELSE IF t[k] # Newline THEN f[k - 1]
         ELSE [strs |-> Append(f[k - 1].strs, SubSeq(t, f[k - 1].c, k - 1)), c |-> k + 1]]

LEMMA ReadsExists ==
  ASSUME NEW t \in Seq(Letters)
  PROVE  \E f : Reads(f, t)
<1>1. PICK l \in Nat : l = Len(t)
  OBVIOUS
<1> DEFINE S == [strs : Seq(Seq(Letters)), c : 1..l + 1]
           More(k, v) == [strs |-> Append(v.strs, SubSeq(t, v.c, k - 1)), c |-> k + 1]
           g == [k \in Nat |-> [v \in S |-> IF k \notin 1..l THEN v
                                          ELSE IF t[k] # Newline THEN v ELSE More(k, v)]]
           p == [strs |-> <<>>, c |-> 1]
<1>2. ASSUME NEW k \in 1..l, NEW v \in S PROVE More(k, v) \in S
  <2>1. v.strs \in Seq(Seq(Letters)) /\ v.c \in 1..l + 1
    OBVIOUS
  <2>2. v.c \in Int /\ k - 1 \in Int /\ \A h \in v.c..k - 1 : t[h] \in Letters
    BY <1>1, <2>1
  <2>3. SubSeq(t, v.c, k - 1) \in Seq(Letters)
    BY <2>2, SubSeqProperties
  <2>4. Append(v.strs, SubSeq(t, v.c, k - 1)) \in Seq(Seq(Letters))
    BY <2>1, <2>3, AppendProperties
  <2>5. k + 1 \in 1..l + 1
    BY <1>1
  <2> QED
    BY <2>4, <2>5
<1>3. p \in S
  <2>1. <<>> \in Seq(Seq(Letters)) /\ 1 \in 1..l + 1
    BY <1>1
  <2> QED
    BY <2>1
<1>4. g \in [Nat -> [S -> S]]
  <2> HIDE DEF S, More
  <2> QED
    BY <1>2
<1>5. PICK f : Iterates(f, S, p, g, l)
  <2> HIDE DEF S, g, p
  <2> QED
    BY <1>1, <1>3, <1>4, Recursion, Zenon
<1>6. f \in [0..l -> S] /\ f[0] = p /\ \A k \in 1..l : f[k] = g[k][f[k - 1]]
  <2> HIDE DEF S, g, p
  <2> QED
    BY <1>5 DEF Iterates
<1>7. ASSUME NEW k \in 1..l PROVE f[k] = IF t[k] # Newline THEN f[k - 1] ELSE More(k, f[k - 1])
  <2> HIDE DEF S, More
  <2>1. k - 1 \in 0..l /\ k \in Nat
    BY <1>1
  <2>2. f[k - 1] \in S /\ f[k] = g[k][f[k - 1]]
    BY <1>6, <2>1
  <2> QED
    BY <2>1, <2>2
<1>8. ASSUME NEW k \in 0..Len(t)
      PROVE  f[k] = IF k = 0 THEN [strs |-> <<>>, c |-> 1]
               ELSE IF t[k] # Newline THEN f[k - 1]
               ELSE [strs |-> Append(f[k - 1].strs, SubSeq(t, f[k - 1].c, k - 1)), c |-> k + 1]
  <2>1. CASE k = 0
    BY <1>6, <2>1
  <2>2. CASE k # 0
    <3>1. k \in 1..l
      BY <1>1, <2>2
    <3> QED
      BY <1>7, <2>2, <3>1
  <2> QED
    BY <2>1, <2>2
<1>9. f = [k \in 0..Len(t) |-> f[k]]
  <2> HIDE DEF S
  <2> QED
    BY <1>1, <1>6
<1>10. Reads(f, t)
  <2> HIDE DEF S, g, p, More
  <2> QED
    BY <1>8, <1>9 DEF Reads
<1> QED
  BY <1>10

LEMMA LinesAre ==
  ASSUME NEW ss \in Seq(Chars), NEW t \in Seq(Letters), NEW u, Marks(u, t, ss)
  PROVE  Lines(t) = ss
<1>1. PICK n \in Nat, l \in Nat : n = Len(ss) /\ l = Len(t)
  OBVIOUS
<1>2. PICK f : Reads(f, t) /\ Lines(t) = f[l].strs
  <2>1. Lines(t) = (CHOOSE f : Reads(f, t))[l].strs
    BY <1>1, Zenon DEF Lines, Reads
  <2> QED
    BY <2>1, ReadsExists
<1>3. f[0] = [strs |-> <<>>, c |-> 1]
  <2>1. 0 \in 0..Len(t)
    BY <1>1, SMTT(30)
  <2> QED
    BY <1>2, <2>1 DEF Reads
<1>4. \A k \in 1..l :
        f[k] = IF t[k] # Newline THEN f[k - 1]
               ELSE [strs |-> Append(f[k - 1].strs, SubSeq(t, f[k - 1].c, k - 1)), c |-> k + 1]
  <2>1. \A k \in 1..l : k \in 0..Len(t) /\ k # 0
    BY <1>1
  <2> QED
    BY <1>2, <2>1 DEF Reads
<1>5. /\ u[0] = 0 /\ \A k \in 0..n : u[k] \in 0..l
      /\ \A k \in 1..n :
           /\ u[k] = u[k - 1] + Len(ss[k]) + 1 /\ t[u[k]] = Newline
           /\ \A h \in 1..Len(ss[k]) : t[u[k - 1] + h] = ss[k][h] /\ ss[k][h] # Newline
      /\ \A h \in u[n] + 1..l : t[h] # Newline
  BY <1>1 DEF Marks
(* Without a newline nothing changes.                                      *)
<1>6. ASSUME NEW a \in 0..l, NEW b \in a..l, \A h \in a + 1..b : t[h] # Newline
      PROVE  f[b] = f[a]
  <2> DEFINE Q == {h \in a..b : f[h] = f[a]}
  <2>1. a \in Q
    BY <1>1
  <2>2. ASSUME NEW h \in a..b - 1, h \in Q PROVE h + 1 \in Q
    <3>1. h + 1 \in 1..l /\ (h + 1) - 1 = h /\ h + 1 \in a + 1..b /\ h + 1 \in a..b
      BY <1>1
    <3>2. f[h + 1] = f[h]
      BY <1>4, <1>6, <3>1
    <3> QED
      BY <2>2, <3>1, <3>2
  <2>3. a..b \subseteq Q
    <3> HIDE DEF Q
    <3>1. a \in Int /\ b \in Int
      BY <1>1
    <3> QED
      BY <2>1, <2>2, <3>1, IntervalIsInductive, Zenon
  <2>4. b \in a..b
    BY <1>1
  <2> QED
    BY <2>3, <2>4
<1> DEFINE P == {k \in 0..n : f[u[k]] = [strs |-> SubSeq(ss, 1, k), c |-> u[k] + 1]}
<1>7. 0 \in P
  <2>1. SubSeq(ss, 1, 0) = <<>>
    BY SubSeqEmpty
  <2>2. u[0] + 1 = 1 /\ 0 \in 0..n
    BY <1>1, <1>5
  <2> QED
    BY <1>3, <1>5, <2>1, <2>2
<1>8. ASSUME NEW k \in 0..n - 1, k \in P PROVE k + 1 \in P
  <2>1. PICK h : h = k + 1
    OBVIOUS
  <2>2. h \in 1..n /\ h - 1 = k /\ h \in 0..n /\ h \in 1..Len(ss) /\ k \in 0..n
    BY <1>1, <2>1
  <2>3. PICK s : s = ss[h]
    OBVIOUS
  <2>4. s \in Chars
    BY <2>2, <2>3, ElementOfSeq
  <2>5. PICK m \in Nat : m = Len(s)
    BY <2>4, CharsAre
  <2>6. PICK a \in 0..l, z \in 0..l : a = u[k] /\ z = u[h] /\ z = a + m + 1
    BY <1>5, <2>2, <2>3, <2>5
  <2>14. a \in Nat /\ z \in Nat
    BY <1>1
  <2>7. t[z] = Newline /\ \A i \in 1..m : t[a + i] = s[i] /\ s[i] # Newline
    BY <1>5, <2>2, <2>3, <2>5, <2>6
  <2>8. f[a + m] = f[a]
    <3>1. a + m \in a..l
      BY <1>1, <2>6, SMTT(30)
    <3>2. ASSUME NEW i \in a + 1..a + m PROVE t[i] # Newline
      <4>1. i - a \in 1..m /\ a + (i - a) = i
        BY <2>14
      <4> QED
        BY <2>7, <4>1
    <3> QED
      BY <1>6, <3>1, <3>2
  <2>9. f[a] = [strs |-> SubSeq(ss, 1, k), c |-> a + 1]
    BY <1>8, <2>6
  <2>10. f[z] = [strs |-> Append(SubSeq(ss, 1, k), SubSeq(t, a + 1, a + m)), c |-> z + 1]
    <3>1. z \in 1..l /\ z - 1 = a + m
      BY <1>1, <2>5, <2>6
    <3>2. f[z] = [strs |-> Append(f[a + m].strs, SubSeq(t, f[a + m].c, a + m)), c |-> z + 1]
      BY <1>4, <2>7, <3>1
    <3>3. f[a + m].strs = SubSeq(ss, 1, k) /\ f[a + m].c = a + 1
      BY <2>8, <2>9
    <3> QED
      BY <3>2, <3>3
  <2>11. SubSeq(t, a + 1, a + m) = s
    <3>1. PICK w : w = SubSeq(t, a + 1, a + m)
      OBVIOUS
    <3>2. a + 1 \in Int /\ a + m \in Int /\ \A i \in a + 1..a + m : t[i] \in Letters
      <4>1. a + m <= l
        BY <1>1, <2>5, <2>6
      <4>2. \A i \in a + 1..a + m : i \in 1..l
        BY <2>14, <4>1
      <4> QED
        BY <1>1, <2>14, <4>2, ElementOfSeq
    <3>3. /\ w \in Seq(Letters) /\ Len(w) = IF a + 1 <= a + m THEN (a + m) - (a + 1) + 1 ELSE 0
          /\ \A i \in 1..(a + m) - (a + 1) + 1 : w[i] = t[(a + 1) + i - 1]
      BY <3>1, <3>2, SubSeqProperties
    <3>4. Len(w) = m
      BY <2>5, <2>6, <3>3, SMTT(30)
    <3>5. ASSUME NEW i \in 1..m PROVE w[i] = s[i]
      <4>1. i \in 1..(a + m) - (a + 1) + 1 /\ (a + 1) + i - 1 = a + i
        BY <2>5, <2>6, SMTT(30)
      <4> QED
        BY <2>7, <3>3, <4>1
    <3>6. s \in Seq(Letters)
      BY <2>4, CharsAre, SeqMonotonic DEF Letters
    <3> QED
      BY <2>5, <3>1, <3>3, <3>4, <3>5, <3>6, SeqEqual
  <2>12. Append(SubSeq(ss, 1, k), s) = SubSeq(ss, 1, h)
    <3>1. 1 \in 1..Len(ss) /\ h \in 1..Len(ss)
      BY <2>2
    <3>2. SubSeq(ss, 1, h) = SubSeq(ss, 1, h - 1) \o <<ss[h]>>
      BY <3>1, SubSeqRecursiveSecond
    <3>3. SubSeq(ss, 1, k) \in Seq(Chars)
      <4>1. 1 \in Int /\ k \in Int /\ \A i \in 1..k : ss[i] \in Chars
        BY <1>1
      <4> QED
        BY <4>1, SubSeqProperties
    <3> QED
      BY <2>2, <2>3, <2>4, <3>2, <3>3, AppendIsConcat
  <2>13. f[u[h]] = [strs |-> SubSeq(ss, 1, h), c |-> u[h] + 1]
    BY <2>6, <2>10, <2>11, <2>12
  <2> QED
    BY <2>1, <2>2, <2>13
<1>9. 0..n \subseteq P
  <2> HIDE DEF P
  <2>1. 0 \in Int /\ n \in Int
    OBVIOUS
  <2> QED
    BY <1>7, <1>8, <2>1, IntervalIsInductive, Zenon
<1>10. f[u[n]].strs = SubSeq(ss, 1, n)
  <2>1. n \in 0..n
    OBVIOUS
  <2>2. n \in P
    <3> HIDE DEF P
    <3> QED
      BY <1>9, <2>1
  <2> QED
    BY <2>2
<1>11. f[l] = f[u[n]]
  <2>1. u[n] \in 0..l /\ l \in u[n]..l
    BY <1>1, <1>5
  <2> QED
    BY <1>5, <1>6, <2>1
<1> QED
  BY <1>1, <1>2, <1>10, <1>11, SubSeqFull

-----------------------------------------------------------------------------
(* Where the readers are.                                                  *)

LEMMA PlaceIs ==
  ASSUME NEW n \in Nat, NEW i \in 0..n - 1
  PROVE  /\ i \div BinSize \in 0..BinCount(n) - 1
         /\ (i % BinSize) \in 0..BinLength(i \div BinSize, n) - 1
         /\ i = (i \div BinSize) * BinSize + (i % BinSize)
<1>1. PICK d \in Nat \ {0} : d = BinSize
  BY BinSizeIs
<1>2. PICK q \in Nat, r \in 0..d - 1 : q = n \div d /\ r = (n % d) /\ n = d * q + r
  BY Division
<1>3. PICK b \in Nat, m \in 0..d - 1 : b = i \div d /\ m = (i % d) /\ i = d * b + m
  BY Division
<1>20. PICK c \in Nat : c = BinCount(n)
  BY BinCountIs
<1>4. PICK l : c = BinCount(n) /\ l = BinLength(b, n)
  BY <1>20
<1>5. c = IF r = 0 THEN q ELSE q + 1
  BY <1>1, <1>2, <1>4, BinCountIs
<1>6. l = IF b < c - 1 \/ r = 0 THEN d ELSE r
  BY <1>1, <1>2, <1>4 DEF BinLength
<1>7. b <= q
  <2>1. CASE b >= q + 1
    <3>1. d * b >= d * (q + 1)
      BY <1>1, <1>2, <1>3, <2>1
    <3>2. d * (q + 1) = d * q + d
      BY <1>1, <1>2
    <3> QED
      BY <1>2, <1>3, <3>1, <3>2
  <2> QED
    BY <1>2, <1>3, <2>1
<1>8. b = q => m < r
  BY <1>2, <1>3
<1>9. b \in 0..c - 1
  BY <1>2, <1>3, <1>5, <1>7, <1>8
<1>10. m \in 0..l - 1
  <2>1. CASE b < c - 1 \/ r = 0
    BY <1>3, <1>6, <2>1
  <2>2. CASE ~ (b < c - 1 \/ r = 0)
    <3>1. b = q /\ l = r
      BY <1>2, <1>3, <1>5, <1>6, <1>7, <2>2
    <3> QED
      BY <1>2, <1>3, <1>8, <3>1
  <2> QED
    BY <2>1, <2>2
<1>11. i = b * d + m
  BY <1>1, <1>3
<1> QED
  BY <1>1, <1>3, <1>4, <1>9, <1>10, <1>11

(* One more string through an iterator.                                    *)
Iterated(older, ss, padding, it, next) ==
  IF it.i < Len(ss)
  THEN /\ next.i = it.i + 1 /\ next.ret = "current"
       /\ InnerAt(FALSE, older, ss, padding, next.inner, it.i + 1)
  ELSE next.i = it.i /\ next.ret = "NULL" /\ next.inner = it.inner

LEMMA IterNextIs ==
  ASSUME NEW older \in BOOLEAN, NEW ss \in Seq(Chars), NEW padding \in Seq(Bytes),
         older => HeadersFit(ss), NEW it, it.i \in 0..Len(ss),
         InnerAt(FALSE, older, ss, padding, it.inner, it.i),
         NEW dict, dict = Dict(older, ss, padding),
         NEW next, next = IterNext(dict, it, Decoded(older, dict, it.i \div BinSize, it.inner, FALSE))
  PROVE  Iterated(older, ss, padding, it, next)
<1>1. PICK n \in Nat, i \in Nat : n = Len(ss) /\ i = it.i /\ i \in 0..n
  OBVIOUS
<1>2. dict.length = n
  <2>1. IsDict(dict, older, ss, padding)
    BY DictIs
  <2> QED
    BY <1>1, <2>1 DEF IsDict
<1>3. CASE i < n
  <2>1. i \in 0..n - 1
    BY <1>1, <1>3
  <2>2. PICK b : b = i \div BinSize
    OBVIOUS
  <2>3. PICK m : m = (i % BinSize)
    OBVIOUS
  <2>4. b \in 0..BinCount(n) - 1 /\ m \in 0..BinLength(b, n) - 1 /\ i = b * BinSize + m
    BY <2>1, <2>2, <2>3, PlaceIs
  <2>5. PICK more : more = IF m = 0 THEN Decoded(older, dict, b, it.inner, FALSE)
                           ELSE inner_next(it.inner)
    OBVIOUS
  <2>6. next = [i |-> i + 1, ret |-> "current", inner |-> more]
    BY <1>1, <1>2, <1>3, <2>2, <2>3, <2>5 DEF IterNext
  <2>7. b * BinSize \in Nat
    BY <2>4, BinIs
  <2>8. InnerAt(FALSE, older, ss, padding, more, i + 1)
    <3>1. CASE m = 0
      <4>1. it.inner.current \in Arrays /\ FALSE \in BOOLEAN
        BY DEF InnerAt
      <4>2. i + 1 = b * BinSize + 1
        BY <2>4, <2>7, <3>1
      <4>3. InnerAt(FALSE, older, ss, padding,
                    Decoded(older, Dict(older, ss, padding), b, it.inner, FALSE), b * BinSize + 1)
        BY <1>1, <2>4, <4>1, InnerStarts
      <4> QED
        BY <2>5, <3>1, <4>2, <4>3
    <3>2. CASE m # 0
      <4>1. m \in 1..BinLength(b, n) - 1
        BY <2>4, <3>2
      <4>2. i + 1 = b * BinSize + (m + 1)
        BY <2>4, <2>7, <4>1
      <4>3. InnerAt(FALSE, older, ss, padding, it.inner, b * BinSize + m)
        BY <1>1, <2>4
      <4>4. InnerAt(FALSE, older, ss, padding, inner_next(it.inner), b * BinSize + (m + 1))
        BY <1>1, <2>4, <4>1, <4>3, InnerNext
      <4> QED
        BY <2>5, <3>2, <4>2, <4>4
    <3> QED
      BY <3>1, <3>2
  <2>9. next.i = it.i + 1 /\ next.ret = "current" /\ next.inner = more
    <3>1. PICK z : z = [i |-> i + 1, ret |-> "current", inner |-> more]
      OBVIOUS
    <3>2. z.i = i + 1 /\ z.ret = "current" /\ z.inner = more
      BY <3>1
    <3> QED
      BY <1>1, <2>6, <3>1, <3>2
  <2> QED
    BY <1>1, <1>3, <2>8, <2>9 DEF Iterated
<1>4. CASE ~ (i < n)
  BY <1>1, <1>2, <1>4 DEF IterNext, Iterated
<1> QED
  BY <1>3, <1>4

(* How many strings of bin b a search looks at, and of all bins.           *)
VisitsOf(older, n, b) ==
  IF b < BinCount(n) - 1 \/ (~ older /\ (n % BinSize) = 0) THEN BinSize ELSE (n % BinSize)
VisitedOf(older, n, b) == IF VisitsOf(older, n, b) = 0 THEN 1 ELSE VisitsOf(older, n, b)
SearchedOf(older, n) == IF older /\ (n % BinSize) = 0 THEN n - BinSize + 1 ELSE n

LEMMA SearchedIs ==
  ASSUME NEW older \in BOOLEAN, NEW n \in Nat, older => n # 0
  PROVE  /\ SearchedOf(older, n) \in 0..n
         /\ \A b \in 0..BinCount(n) - 1 :
              /\ VisitedOf(older, n, b) \in 1..BinLength(b, n)
              /\ VisitsOf(older, n, b) \in 0..VisitedOf(older, n, b)
              /\ b * BinSize + VisitedOf(older, n, b) <= SearchedOf(older, n)
              /\ b < BinCount(n) - 1 => VisitedOf(older, n, b) = BinSize
              /\ b = BinCount(n) - 1 => b * BinSize + VisitedOf(older, n, b) = SearchedOf(older, n)
         /\ BinCount(n) = 0 => SearchedOf(older, n) = 0
<1>1. PICK d \in Nat \ {0} : d = BinSize
  BY BinSizeIs
<1>2. PICK q \in Nat, r \in 0..d - 1 : q = n \div d /\ r = (n % d) /\ n = d * q + r
  BY Division
<1>3. PICK c \in Nat : c = BinCount(n) /\ c = IF r = 0 THEN q ELSE q + 1
  BY <1>1, <1>2, BinCountIs
<1>4. PICK s : s = SearchedOf(older, n) /\ s = IF older /\ r = 0 THEN n - d + 1 ELSE n
  BY <1>1, <1>2 DEF SearchedOf
<1>5. older /\ r = 0 => n >= d
  <2>1. CASE older /\ r = 0
    <3>1. q # 0
      <4>1. CASE q = 0
        <5>1. n = 0
          BY <1>1, <1>2, <2>1, <4>1
        <5> QED
          BY <2>1, <5>1
      <4> QED
        BY <4>1
    <3>2. d * q >= d
      BY <1>1, <1>2, <3>1
    <3> QED
      BY <1>2, <2>1, <3>2
  <2> QED
    BY <2>1
<1>6. s \in 0..n
  BY <1>1, <1>4, <1>5
<1>7. c = 0 => s = 0
  <2>1. CASE c = 0
    <3>1. q = 0 /\ r = 0
      BY <1>2, <1>3, <2>1
    <3>2. n = 0
      BY <1>1, <1>2, <3>1
    <3> QED
      BY <1>4, <3>2
  <2> QED
    BY <2>1
<1>8. ASSUME NEW b \in 0..c - 1
      PROVE  /\ VisitedOf(older, n, b) \in 1..BinLength(b, n)
             /\ VisitsOf(older, n, b) \in 0..VisitedOf(older, n, b)
             /\ b * d + VisitedOf(older, n, b) <= s
             /\ b < c - 1 => VisitedOf(older, n, b) = d
             /\ b = c - 1 => b * d + VisitedOf(older, n, b) = s
  <2>1. PICK l, v, w : l = BinLength(b, n) /\ v = VisitsOf(older, n, b) /\ w = VisitedOf(older, n, b)
    OBVIOUS
  <2>2. v = IF b < c - 1 \/ (~ older /\ r = 0) THEN d ELSE r
    BY <1>1, <1>2, <1>3, <2>1 DEF VisitsOf
  <2>3. w = IF v = 0 THEN 1 ELSE v
    BY <2>1 DEF VisitedOf
  <2>4. PICK k : k = b * d
    OBVIOUS
  <2>5. /\ l \in 1..d /\ k + l <= n
        /\ b < c - 1 => l = d
        /\ b = c - 1 => k + l = n
        /\ k \in Nat
    BY <1>1, <1>3, <2>1, <2>4, BinIs, ZenonT(30)
  <2>6. l = IF b < c - 1 \/ r = 0 THEN d ELSE r
    BY <1>1, <1>2, <1>3, <2>1 DEF BinLength
  <2>7. b \in Nat /\ b <= c - 1
    BY <1>3
  <2>8. w \in 1..l /\ v \in 0..w
    BY <1>1, <1>2, <2>2, <2>3, <2>6
  <2>9. b < c - 1 => w = d
    BY <1>1, <2>2, <2>3
  <2>10. b = c - 1 => k + w = s
    <3>1. CASE b = c - 1 /\ older /\ r = 0
      <4>1. w = 1 /\ l = d
        BY <2>2, <2>3, <2>6, <2>7, <3>1
      <4> QED
        BY <1>1, <1>4, <2>5, <3>1, <4>1
    <3>2. CASE b = c - 1 /\ ~ (older /\ r = 0)
      <4>1. w = l
        BY <1>1, <1>2, <2>2, <2>3, <2>6, <2>7, <3>2
      <4> QED
        BY <1>4, <2>5, <3>2, <4>1
    <3> QED
      BY <3>1, <3>2
  <2>11. b < c - 1 => k + w <= s
    <3>1. CASE b < c - 1
      <4>1. w = d /\ l = d
        BY <2>5, <2>9, <3>1
      <4>2. CASE older /\ r = 0
        <5>1. b + 2 <= q
          BY <1>2, <1>3, <2>7, <3>1, <4>2
        <5>2. d * (b + 2) <= d * q
          BY <1>1, <1>2, <2>7, <5>1
        <5>3. d * (b + 2) = k + d + d
          BY <1>1, <2>4, <2>7
        <5>4. n = d * q
          BY <1>1, <1>2, <4>2
        <5>5. k + d + d <= n /\ k \in Nat
          BY <2>5, <5>2, <5>3, <5>4
        <5>6. s = n - d + 1
          BY <1>4, <4>2
        <5>7. k + d <= s
          BY <5>5, <5>6
        <5> QED
          BY <4>1, <5>7
      <4>3. CASE ~ (older /\ r = 0)
        BY <1>4, <2>5, <4>1, <4>3
      <4> QED
        BY <4>2, <4>3
    <3> QED
      BY <3>1
  <2>12. k + w <= s
    <3>1. b = c - 1 \/ b < c - 1
      BY <1>3, <2>7
    <3> QED
      BY <1>6, <2>5, <2>8, <2>10, <2>11, <3>1
  <2> QED
    BY <2>1, <2>4, <2>8, <2>9, <2>10, <2>12
<1> QED
  BY <1>1, <1>3, <1>4, <1>6, <1>7, <1>8

PositionOf(older, n, i, k) == Min({i * BinSize + k, SearchedOf(older, n)})

LEMMA LowerIs ==
  ASSUME NEW x \in Nat, NEW y \in Nat
  PROVE  Min({x, y}) = IF x <= y THEN x ELSE y
<1>1. PICK T : T = {x, y}
  OBVIOUS
<1>2. T \in SUBSET Nat
  BY <1>1
<1>3. CASE x <= y
  <2>1. x \in T /\ \A z \in T : x <= z
    BY <1>1, <1>3
  <2> QED
    BY <1>1, <1>2, <1>3, <2>1, Lowest
<1>4. CASE ~ (x <= y)
  <2>1. y \in T /\ \A z \in T : y <= z
    BY <1>1, <1>4
  <2> QED
    BY <1>1, <1>2, <1>4, <2>1, Lowest
<1> QED
  BY <1>3, <1>4

LEMMA PositionIs ==
  ASSUME NEW older \in BOOLEAN, NEW n \in Nat, older => n # 0,
         NEW i \in 0..BinCount(n) - 1, NEW k \in Nat, k # 0 => k < VisitsOf(older, n, i)
  PROVE  /\ PositionOf(older, n, i, k) = i * BinSize + k
         /\ i * BinSize + k < SearchedOf(older, n)
         /\ IF k + 1 >= VisitsOf(older, n, i)
            THEN PositionOf(older, n, i + 1, 0) = i * BinSize + (k + 1)
            ELSE PositionOf(older, n, i, k + 1) = i * BinSize + (k + 1)
<1>1. PICK d \in Nat \ {0} : d = BinSize
  BY BinSizeIs
<1>20. PICK c \in Nat : c = BinCount(n)
  BY BinCountIs
<1>2. PICK s : c = BinCount(n) /\ s = SearchedOf(older, n)
  BY <1>20
<1>3. PICK l, v, w : l = BinLength(i, n) /\ v = VisitsOf(older, n, i) /\ w = VisitedOf(older, n, i)
  OBVIOUS
<1>4. PICK h : h = i * d
  OBVIOUS
<1>5. l \in 1..d /\ h \in Nat
  BY <1>1, <1>2, <1>3, <1>4, BinIs
<1>6. /\ s \in 0..n /\ w \in 1..l /\ v \in 0..w /\ h + w <= s
      /\ i < c - 1 => w = d
      /\ i = c - 1 => h + w = s
  BY <1>1, <1>2, <1>3, <1>4, SearchedIs
<1>7. w = IF v = 0 THEN 1 ELSE v
  BY <1>3 DEF VisitedOf
<1>8. i \in Nat /\ i <= c - 1
  BY <1>2
<1>9. k < w
  BY <1>3, <1>6, <1>7
<1>10. \A z \in 0..w : PositionOf(older, n, i, z) = h + z
  <2>1. ASSUME NEW z \in 0..w PROVE Min({h + z, s}) = h + z
    <3>1. h + z \in Nat /\ s \in Nat /\ h + z <= s
      BY <1>5, <1>6
    <3> QED
      BY <3>1, LowerIs
  <2> QED
    BY <1>1, <1>2, <1>4, <2>1 DEF PositionOf
<1>11. PositionOf(older, n, i + 1, 0) = h + w
  <2>1. PICK z : z = (i + 1) * d + 0
    OBVIOUS
  <2>2. z = h + d /\ z \in Nat /\ s \in Nat
    BY <1>1, <1>4, <1>5, <1>6, <1>8, <2>1
  <2>3. Min({z, s}) = h + w
    <3>1. CASE i < c - 1
      <4>1. w = d /\ z <= s
        BY <1>1, <1>5, <1>6, <2>2, <3>1
      <4> QED
        BY <2>2, <4>1, LowerIs
    <3>2. CASE i = c - 1
      <4>1. h + w = s /\ s <= z
        BY <1>1, <1>5, <1>6, <2>2, <3>2
      <4>2. Min({z, s}) = IF z <= s THEN z ELSE s
        BY <2>2, LowerIs
      <4> QED
        BY <2>2, <4>1, <4>2
    <3> QED
      BY <1>2, <1>8, <3>1, <3>2
  <2> QED
    BY <1>1, <1>2, <2>1, <2>3 DEF PositionOf
<1>12. k + 1 >= v => k + 1 = w
  BY <1>3, <1>5, <1>6, <1>7
<1>13. k \in 0..w /\ k + 1 \in 0..w /\ h + k < s
  BY <1>5, <1>6, <1>9
<1> QED
  BY <1>1, <1>2, <1>3, <1>4, <1>10, <1>11, <1>12, <1>13

LEMMA AllSearched ==
  ASSUME NEW older \in BOOLEAN, NEW n \in Nat, older => n # 0
  PROVE  PositionOf(older, n, BinCount(n), 0) = SearchedOf(older, n)
<1>1. PICK d \in Nat \ {0} : d = BinSize
  BY BinSizeIs
<1>20. PICK c \in Nat : c = BinCount(n)
  BY BinCountIs
<1>2. PICK s : c = BinCount(n) /\ s = SearchedOf(older, n)
  BY <1>20
<1>3. s \in Nat
  BY <1>2, SearchedIs
<1>4. PICK z : z = c * d + 0
  OBVIOUS
<1>5. z \in Nat /\ s <= z
  <2>1. CASE c = 0
    <3>1. s = 0
      BY <1>2, <2>1, SearchedIs
    <3>2. z = 0
      BY <1>1, <1>4, <2>1
    <3> QED
      BY <3>1, <3>2
  <2>2. CASE c # 0
    <3>1. PICK b \in Nat : b = c - 1
      BY <1>2, <2>2
    <3>2. b \in 0..c - 1
      BY <3>1
    <3>3. PICK w, l : w = VisitedOf(older, n, b) /\ l = BinLength(b, n)
      OBVIOUS
    <3>4. b * d + w = s /\ w \in 1..l
      BY <1>1, <1>2, <3>1, <3>2, <3>3, SearchedIs
    <3>5. l \in 1..d /\ b * d \in Nat
      BY <1>1, <1>2, <3>2, <3>3, BinIs
    <3>6. c * d = b * d + d
      BY <1>1, <3>1
    <3> QED
      BY <1>1, <1>4, <3>4, <3>5, <3>6
  <2> QED
    BY <2>1, <2>2
<1>6. Min({z, s}) = s
  <2>1. Min({z, s}) = IF z <= s THEN z ELSE s
    BY <1>3, <1>5, LowerIs
  <2> QED
    BY <1>3, <1>5, <2>1
<1> QED
  BY <1>1, <1>2, <1>4, <1>6 DEF PositionOf

-----------------------------------------------------------------------------
(* The invariant of the readers.                                           *)

Older == format = "htfc"
Pad == hfc["a"].padding
List == strings["a"]

(* What no step changes.                                                   *)
Stored ==
  /\ format \in {"hfc", "htfc"} /\ mode \in {"merge", "contains", "exact", "print"}
  /\ DOMAIN strings = IF mode = "merge" THEN {"a", "b"} ELSE {"a"}
  /\ \A x \in DOMAIN strings : strings[x] \in Seq(Chars)
  /\ Pad \in Seq(Bytes) /\ hfc = [x \in DOMAIN strings |-> Dict(Older, strings[x], Pad)]
  /\ Older /\ mode \in {"contains", "exact"} => List # <<>>
  /\ Older => \A x \in DOMAIN strings : HeadersFit(strings[x])

(* An iterator that was called it.i times, or once more.                   *)
IteratedAs(x, it) ==
  /\ it.i \in 0..Len(strings[x]) /\ it.ret \in {"none", "current", "NULL"}
  /\ it.ret = "none" => it.i = 0
  /\ it.ret = "current" => it.i # 0
  /\ it.ret = "NULL" => it.i = Len(strings[x])
  /\ InnerAt(FALSE, Older, strings[x], Pad, it.inner, it.i)

(* A search that is at string k of bin i.                                  *)
SearchedAs(i, k, inner) ==
  /\ i \in 0..BinCount(Len(List)) /\ k \in Nat
  /\ k # 0 => i < BinCount(Len(List)) /\ k < VisitsOf(Older, Len(List), i)
  /\ InnerAt(ignore_case, Older, List, Pad, inner, PositionOf(Older, Len(List), i, k))

Iterates2 == mode \in {"merge", "print"} => \A x \in DOMAIN strings : IteratedAs(x, iter[x])
Searches == mode \in {"contains", "exact"} => SearchedAs(iter["a"].i, j, iter["a"].inner)

ReaderInv ==
  /\ Stored /\ iter = [x \in DOMAIN strings |-> iter[x]]
  /\ Iterates2 /\ Searches

LEMMA StoredIs ==
  ASSUME Stored
  PROVE  /\ "a" \in DOMAIN strings /\ List \in Seq(Chars) /\ Older \in BOOLEAN
         /\ Len(List) \in Nat /\ BinCount(Len(List)) \in Nat
         /\ \A x \in DOMAIN strings : strings[x] \in Seq(Chars) /\ hfc[x] = Dict(Older, strings[x], Pad)
                                      /\ hfc[x].length = Len(strings[x]) /\ hfc[x].padding = Pad
         /\ Searched = SearchedOf(Older, Len(List))
         /\ \A b \in 0..BinCount(Len(List)) - 1 : Visits(b) = VisitsOf(Older, Len(List), b)
         /\ mode \in {"contains", "exact"} /\ Older => Len(List) # 0
<1>1. "a" \in DOMAIN strings /\ List \in Seq(Chars) /\ Older \in BOOLEAN
  BY DEF Stored, List, Older
<1>2. ASSUME NEW x \in DOMAIN strings
      PROVE  /\ strings[x] \in Seq(Chars) /\ hfc[x] = Dict(Older, strings[x], Pad)
             /\ hfc[x].length = Len(strings[x]) /\ hfc[x].padding = Pad
  <2>1. strings[x] \in Seq(Chars) /\ hfc[x] = Dict(Older, strings[x], Pad) /\ Pad \in Seq(Bytes)
    BY DEF Stored
  <2>2. IsDict(hfc[x], Older, strings[x], Pad)
    BY <1>1, <2>1, DictIs
  <2> QED
    BY <2>1, <2>2 DEF IsDict
<1>3. hfc["a"].length = Len(List)
  BY <1>1, <1>2 DEF List
<1>4. Len(List) \in Nat /\ BinCount(Len(List)) \in Nat
  <2>1. Len(List) \in Nat
    BY <1>1
  <2> QED
    BY <2>1, BinCountIs
<1>5. Searched = SearchedOf(Older, Len(List))
  BY <1>3 DEF Searched, SearchedOf, Older
<1>6. \A b \in 0..BinCount(Len(List)) - 1 : Visits(b) = VisitsOf(Older, Len(List), b)
  BY <1>3 DEF Visits, hfc_Visits, htfc_Visits, VisitsOf, Older
<1>7. mode \in {"contains", "exact"} /\ Older => Len(List) # 0
  BY <1>1, EmptySeq DEF Stored
<1> QED
  BY <1>1, <1>2, <1>4, <1>5, <1>6, <1>7

LEMMA MovedIs ==
  ASSUME ReaderInv, mode \in {"merge", "print"}, NEW S, NEW next, next = Moved(S)
  PROVE  /\ next = [x \in DOMAIN strings |-> next[x]]
         /\ \A x \in DOMAIN strings : IteratedAs(x, next[x])
         /\ \A x \in DOMAIN strings \ S : next[x] = iter[x]
         /\ \A x \in DOMAIN strings \cap S :
              IF iter[x].i < Len(strings[x])
              THEN next[x].i = iter[x].i + 1 /\ next[x].ret = "current"
              ELSE next[x].i = iter[x].i /\ next[x].ret = "NULL"
<1>1. DOMAIN iter = DOMAIN strings /\ \A x \in DOMAIN strings : IteratedAs(x, iter[x])
  BY DEF ReaderInv, Iterates2
<1>2. next = [x \in DOMAIN strings |->
        IF x \notin S THEN iter[x]
        ELSE IF format = "htfc" THEN htfc_iter_next(hfc[x], iter[x])
        ELSE hfc_iter_next(hfc[x], iter[x])]
  BY <1>1 DEF Moved
<1>3. next = [x \in DOMAIN strings |-> next[x]]
  BY <1>2
<1>4. \A x \in DOMAIN strings \ S : next[x] = iter[x]
  BY <1>2
<1>5. ASSUME NEW x \in DOMAIN strings \cap S
      PROVE  /\ IteratedAs(x, next[x])
             /\ IF iter[x].i < Len(strings[x])
                THEN next[x].i = iter[x].i + 1 /\ next[x].ret = "current"
                ELSE next[x].i = iter[x].i /\ next[x].ret = "NULL"
  <2>1. PICK ss, it, dict : ss = strings[x] /\ it = iter[x] /\ dict = hfc[x]
    OBVIOUS
  <2>2. PICK more : more = next[x]
    OBVIOUS
  <2>3. ss \in Seq(Chars) /\ Older \in BOOLEAN /\ Pad \in Seq(Bytes) /\ dict = Dict(Older, ss, Pad)
    BY <2>1, StoredIs DEF ReaderInv, Stored
  <2>4. /\ it.i \in 0..Len(ss) /\ InnerAt(FALSE, Older, ss, Pad, it.inner, it.i)
        /\ it.ret \in {"none", "current", "NULL"}
    BY <1>1, <2>1 DEF IteratedAs
  <2>5. more = IterNext(dict, it, Decoded(Older, dict, it.i \div BinSize, it.inner, FALSE))
    <3>1. CASE format = "htfc"
      <4>1. more = htfc_iter_next(dict, it)
        BY <1>2, <2>1, <2>2, <3>1
      <4> QED
        BY <3>1, <4>1 DEF htfc_iter_next, Decoded, Older
    <3>2. CASE format # "htfc"
      <4>1. more = hfc_iter_next(dict, it)
        BY <1>2, <2>1, <2>2, <3>2
      <4> QED
        BY <3>2, <4>1 DEF hfc_iter_next, Decoded, Older
    <3> QED
      BY <3>1, <3>2
  <2>6. IF it.i < Len(ss)
        THEN /\ more.i = it.i + 1 /\ more.ret = "current"
             /\ InnerAt(FALSE, Older, ss, Pad, more.inner, it.i + 1)
        ELSE more.i = it.i /\ more.ret = "NULL" /\ more.inner = it.inner
    <3>1. PICK older \in BOOLEAN : older = Older
      BY <2>3
    <3>2. PICK padding \in Seq(Bytes) : padding = Pad
      BY <2>3
    <3>3. dict = Dict(older, ss, padding)
      BY <2>3, <3>1, <3>2
    <3>4. more = IterNext(dict, it, Decoded(older, dict, it.i \div BinSize, it.inner, FALSE))
      BY <2>5, <3>1
    <3>5. it.i \in 0..Len(ss) /\ InnerAt(FALSE, older, ss, padding, it.inner, it.i)
      BY <2>4, <3>1, <3>2
    <3>6. ss \in Seq(Chars)
      BY <2>3
    <3>8. older => HeadersFit(ss)
      BY <2>1, <3>1 DEF ReaderInv, Stored
    <3>7. Iterated(older, ss, padding, it, more)
      BY <3>3, <3>4, <3>5, <3>6, <3>8, IterNextIs, Zenon
    <3> QED
      BY <3>1, <3>2, <3>7 DEF Iterated
  <2>7. PICK n \in Nat, i \in Nat : n = Len(ss) /\ i = it.i /\ i \in 0..n
    BY <2>3, <2>4
  <2>8. CASE i < n
    <3>1. /\ more.i = i + 1 /\ more.ret = "current"
          /\ InnerAt(FALSE, Older, ss, Pad, more.inner, i + 1)
      BY <2>6, <2>7, <2>8
    <3>2. i + 1 \in 0..n /\ i + 1 # 0
      BY <2>7, <2>8
    <3>3. IteratedAs(x, more)
      BY <2>1, <2>7, <3>1, <3>2 DEF IteratedAs
    <3> QED
      BY <2>1, <2>2, <2>7, <2>8, <3>1, <3>3
  <2>9. CASE ~ (i < n)
    <3>1. more.i = i /\ more.ret = "NULL" /\ more.inner = it.inner /\ i = n
      BY <2>6, <2>7, <2>9
    <3>2. IteratedAs(x, more)
      BY <2>1, <2>4, <2>7, <3>1 DEF IteratedAs
    <3> QED
      BY <2>1, <2>2, <2>7, <2>9, <3>1, <3>2
  <2> QED
    BY <2>8, <2>9
<1>6. \A x \in DOMAIN strings : IteratedAs(x, next[x])
  BY <1>1, <1>4, <1>5
<1> QED
  BY <1>3, <1>4, <1>5, <1>6

(* One string of a search.                                                 *)
LEMMA SearchNext ==
  ASSUME NEW fold \in BOOLEAN, NEW older \in BOOLEAN, NEW ss \in Seq(Chars),
         NEW padding \in Seq(Bytes), older => Len(ss) # 0, older => HeadersFit(ss),
         NEW i \in 0..BinCount(Len(ss)) - 1, NEW k \in Nat,
         k # 0 => k < VisitsOf(older, Len(ss), i),
         NEW inner, InnerAt(fold, older, ss, padding, inner, PositionOf(older, Len(ss), i, k)),
         NEW next, next = IF k = 0 THEN Decoded(older, Dict(older, ss, padding), i, inner, fold)
                          ELSE inner_next(inner)
  PROVE  InnerAt(fold, older, ss, padding, next, i * BinSize + (k + 1))
<1>1. PICK n \in Nat : n = Len(ss)
  OBVIOUS
<1>2. inner.current \in Arrays
  BY DEF InnerAt
<1>3. CASE k = 0
  <2>1. InnerAt(fold, older, ss, padding,
                Decoded(older, Dict(older, ss, padding), i, inner, fold), i * BinSize + 1)
    BY <1>2, InnerStarts
  <2>2. k + 1 = 1
    BY <1>3
  <2> QED
    BY <1>3, <2>1, <2>2
<1>4. CASE k # 0
  <2>1. PositionOf(older, n, i, k) = i * BinSize + k
    BY <1>1, PositionIs
  <2>2. k \in 1..BinLength(i, n) - 1
    <3>1. PICK v, w, l : v = VisitsOf(older, n, i) /\ w = VisitedOf(older, n, i) /\ l = BinLength(i, n)
      OBVIOUS
    <3>2. w \in 1..l /\ v \in 0..w /\ l \in 1..BinSize /\ BinSize \in Nat
      BY <1>1, <3>1, SearchedIs, BinIs, BinSizeIs
    <3>3. k < v
      BY <1>1, <1>4, <3>1
    <3> QED
      BY <1>4, <3>1, <3>2, <3>3
  <2>3. InnerAt(fold, older, ss, padding, inner, i * BinSize + k)
    BY <1>1, <2>1
  <2>4. InnerAt(fold, older, ss, padding, inner_next(inner), i * BinSize + (k + 1))
    BY <1>1, <2>2, <2>3, InnerNext
  <2> QED
    BY <1>4, <2>4
<1> QED
  BY <1>3, <1>4

LEMMA SearchStep ==
  ASSUME ReaderInv, SearchHeader \/ SearchInner
  PROVE  \E inner :
           /\ BinsLeft /\ Compare(inner)
           /\ InnerAt(ignore_case, Older, List, Pad, inner, iter["a"].i * BinSize + (j + 1))
<1>1. BinsLeft /\ mode \in {"contains", "exact"}
  BY DEF SearchHeader, SearchInner, BinsLeft, Searching
<1>2. /\ List \in Seq(Chars) /\ Older \in BOOLEAN /\ Pad \in Seq(Bytes) /\ ignore_case \in BOOLEAN
      /\ hfc["a"] = Dict(Older, List, Pad) /\ hfc["a"].length = Len(List)
      /\ Older => Len(List) # 0
  BY <1>1, StoredIs DEF ReaderInv, Stored, ignore_case, List
<1>3. PICK n \in Nat, count \in Nat : n = Len(List) /\ count = BinCount(n)
  BY <1>2, BinCountIs
<1>10. PICK fold \in BOOLEAN : fold = ignore_case
  BY <1>2
<1>11. PICK older \in BOOLEAN : older = Older
  BY <1>2
<1>4. PICK i, inner :
        /\ i = iter["a"].i /\ inner = iter["a"].inner
        /\ fold = ignore_case /\ older = Older
  BY <1>10, <1>11
<1>5. /\ i \in 0..count /\ j \in Nat /\ i < count
      /\ j # 0 => j < VisitsOf(older, n, i)
      /\ InnerAt(fold, older, List, Pad, inner, PositionOf(older, n, i, j))
  BY <1>1, <1>2, <1>3, <1>4 DEF ReaderInv, Searches, SearchedAs, BinsLeft
<1>6. i \in 0..count - 1
  BY <1>5
<1>7. PICK next : next = IF j = 0 THEN Decoded(older, hfc["a"], i, inner, fold) ELSE inner_next(inner)
  OBVIOUS
<1>8. Compare(next)
  <2>1. CASE SearchHeader
    <3>1. j = 0 /\ Compare(IF format = "htfc" THEN htfc_uncompress_bin(hfc["a"], i, inner, fold)
                           ELSE uncompress_bin(hfc["a"], i, inner, fold))
      BY <1>4, <2>1 DEF SearchHeader
    <3>2. next = IF format = "htfc" THEN htfc_uncompress_bin(hfc["a"], i, inner, fold)
                 ELSE uncompress_bin(hfc["a"], i, inner, fold)
      BY <1>4, <1>7, <3>1 DEF Decoded, Older
    <3> QED
      BY <3>1, <3>2
  <2>2. CASE SearchInner
    <3>1. j > 0 /\ Compare(inner_next(inner))
      BY <1>4, <2>2 DEF SearchInner
    <3>2. j # 0
      BY <1>5, <3>1
    <3> QED
      BY <1>7, <3>1, <3>2
  <2> QED
    BY <2>1, <2>2
<1>9. InnerAt(fold, older, List, Pad, next, i * BinSize + (j + 1))
  <2>1. older => Len(List) # 0
    BY <1>2, <1>4
  <2>2. next = IF j = 0 THEN Decoded(older, Dict(older, List, Pad), i, inner, fold)
               ELSE inner_next(inner)
    BY <1>2, <1>4, <1>7
  <2>3. i \in 0..BinCount(Len(List)) - 1 /\ (j # 0 => j < VisitsOf(older, Len(List), i))
    BY <1>3, <1>5, <1>6
  <2>4. InnerAt(fold, older, List, Pad, inner, PositionOf(older, Len(List), i, j))
    BY <1>3, <1>5
  <2>5. older => HeadersFit(List)
    BY <1>4, StoredIs DEF ReaderInv, Stored, List
  <2> QED
    BY <1>2, <1>5, <2>1, <2>2, <2>3, <2>4, <2>5, SearchNext
<1> QED
  BY <1>1, <1>4, <1>8, <1>9

(* The lists there can be.                                                 *)
LEMMA DictionariesAre ==
  ASSUME NEW n \in Nat, NEW ss \in Dictionaries(n)
  PROVE  ss \in Seq(Chars) /\ ss \in Seq(Strings) /\ Sorted(ss)
<1>1. PICK k \in 0..n : ss \in [1..k -> Strings]
  BY DEF Dictionaries
<1>2. ss \in Seq(Strings)
  <2>1. k \in Nat
    OBVIOUS
  <2> QED
    BY <1>1, <2>1, SeqDef
<1>3. Strings \subseteq Chars
  BY ReaderAssumption
<1>4. ss \in Seq(Chars)
  BY <1>2, <1>3, SeqMonotonic
<1> QED
  BY <1>2, <1>4 DEF Dictionaries

(* The lists hfcz makes of a text.                                         *)
Lined(t, ss, lines, u, tail) ==
  /\ lines \in Seq(Chars) /\ lines \in Seq(Strings) /\ t \in Seq(Letters) /\ tail \in Tails
  /\ Marks(u, t, lines) /\ u[Len(lines)] + Len(tail) = Len(t) /\ Lines(t) = lines
  /\ ss \in Seq(Chars) /\ Len(ss) = Len(lines) /\ Range(ss) \subseteq Range(lines) /\ Sorted(ss)
  /\ \A s \in Range(lines) : Occurs(s, ss) = Occurs(s, lines)

LEMMA TextsAre ==
  ASSUME NEW t \in Texts, NEW ss \in Compressed(Lines(t))
  PROVE  \E lines, u, tail : Lined(t, ss, lines, u, tail)
<1>1. PICK lines \in UNION {[1..k -> Strings] : k \in 0..MaxMerged} :
        \E tail \in Tails : t = TextOf(lines, tail)
  BY DEF Texts
<1>2. PICK tail \in Tails : t = TextOf(lines, tail)
  BY <1>1
<1>3. PICK k \in 0..MaxMerged : lines \in [1..k -> Strings]
  BY <1>1
<1>4. lines \in Seq(Strings)
  <2>1. k \in Nat
    BY <1>3, ReaderAssumption
  <2> QED
    BY <1>3, <2>1, SeqDef
<1>5. lines \in Seq(Chars)
  <2>1. Strings \subseteq Chars
    BY ReaderAssumption
  <2> QED
    BY <1>4, <2>1, SeqMonotonic
<1>6. tail \in Seq(Char)
  BY <1>2, ReaderAssumption
<1>7. t \in Seq(Letters)
  BY <1>2, <1>5, <1>6, TextIsMarked
<1>8. PICK u : Marks(u, t, lines) /\ u[Len(lines)] + Len(tail) = Len(t)
  BY <1>2, <1>5, <1>6, TextIsMarked
<1>9. Lines(t) = lines
  BY <1>5, <1>7, <1>8, LinesAre
<1>10. /\ ss \in [DOMAIN lines -> Range(lines)] /\ Sorted(ss)
       /\ \A s \in Range(lines) : Occurs(s, ss) = Occurs(s, lines)
  BY <1>9 DEF Compressed
<1>11. Range(lines) \subseteq Chars
  BY <1>5, ElementOfSeq DEF Range
<1>12. DOMAIN lines = 1..Len(lines) /\ Len(lines) \in Nat
  BY <1>5
<1>13. ss \in Seq(Range(lines))
  BY <1>10, <1>12, SeqDef
<1>14. ss \in Seq(Chars)
  BY <1>11, <1>13, SeqMonotonic
<1>15. Len(ss) = Len(lines)
  <2>1. DOMAIN ss = 1..Len(lines)
    BY <1>10, <1>12
  <2> QED
    BY <1>12, <1>14, <2>1, LenProperties
<1>16. Range(ss) \subseteq Range(lines)
  BY <1>10 DEF Range
<1>17. Lined(t, ss, lines, u, tail)
  BY <1>2, <1>4, <1>5, <1>7, <1>8, <1>9, <1>10, <1>14, <1>15, <1>16 DEF Lined
<1> QED
  BY <1>17

(* What a function starts with.                                            *)
LEMMA StartIs ==
  ASSUME Init
  PROVE  /\ Stored /\ iter = [x \in DOMAIN strings |-> hfc_iter_init]
         /\ j = 0 /\ out = <<>> /\ ~ done
         /\ \A x \in DOMAIN strings : Sorted(strings[x])
         /\ mode = "print" => \E lines, u, tail : Lined(text, List, lines, u, tail)
         /\ mode = "merge" => \A x \in DOMAIN strings : strings[x] \in Seq(Strings)
<1>1. PICK padding \in Padding :
        hfc = [x \in DOMAIN strings |->
               IF format = "htfc" THEN OlderFormat(strings[x], padding)
               ELSE hfc_compress_sorted(strings[x], padding)]
  BY DEF Init
<1>2. padding \in Seq(Bytes)
  BY <1>1, ReaderAssumption DEF Bytes
<1>3. /\ iter = [x \in DOMAIN strings |-> hfc_iter_init]
      /\ j = 0 /\ out = <<>> /\ ~ done
  BY DEF Init
<1>4. MaxSearched \in Nat /\ MaxMerged \in Nat
  BY ReaderAssumption
<1>5. /\ format \in {"hfc", "htfc"} /\ mode \in {"merge", "contains", "exact", "print"}
      /\ DOMAIN strings = IF mode = "merge" THEN {"a", "b"} ELSE {"a"}
      /\ \A x \in DOMAIN strings : strings[x] \in Seq(Chars) /\ Sorted(strings[x])
      /\ format = "htfc" /\ mode \in {"contains", "exact"} => strings["a"] # <<>>
      /\ mode = "print" => \E lines, u, tail : Lined(text, strings["a"], lines, u, tail)
      /\ mode = "merge" => \A x \in DOMAIN strings : strings[x] \in Seq(Strings)
  <2>1. CASE /\ mode \in {"contains", "exact"} /\ format \in {"hfc", "htfc"}
             /\ strings \in [{"a"} -> Dictionaries(MaxSearched)]
             /\ format = "htfc" => strings["a"] # <<>>
    BY <1>4, <2>1, DictionariesAre
  <2>2. CASE /\ mode = "merge" /\ format = "hfc"
             /\ strings \in [{"a", "b"} -> Dictionaries(MaxMerged)]
    BY <1>4, <2>2, DictionariesAre
  <2>3. CASE /\ mode = "print" /\ format \in {"hfc", "htfc"} /\ text \in Texts
             /\ strings \in [{"a"} -> Compressed(Lines(text))]
    <3>1. strings["a"] \in Compressed(Lines(text)) /\ DOMAIN strings = {"a"}
      BY <2>3
    <3>2. PICK lines, u, tail : Lined(text, strings["a"], lines, u, tail)
      BY <2>3, <3>1, TextsAre
    <3>3. strings["a"] \in Seq(Chars) /\ Sorted(strings["a"])
      BY <3>2 DEF Lined
    <3> QED
      BY <2>3, <3>1, <3>2, <3>3
  <2> QED
    BY <2>1, <2>2, <2>3 DEF Init
<1>6. "a" \in DOMAIN strings /\ Older \in BOOLEAN
  BY <1>5 DEF Older
<1>7. hfc = [x \in DOMAIN strings |-> Dict(Older, strings[x], padding)]
  BY <1>1 DEF Dict, Older
<1>8. Pad = padding
  <2>1. hfc["a"] = Dict(Older, strings["a"], padding) /\ strings["a"] \in Seq(Chars)
    BY <1>5, <1>6, <1>7
  <2>2. IsDict(hfc["a"], Older, strings["a"], padding)
    BY <1>2, <1>6, <2>1, DictIs
  <2> QED
    BY <2>2 DEF IsDict, Pad
<1>10. Older => \A x \in DOMAIN strings : HeadersFit(strings[x])
  <2>1. Older => DOMAIN strings = {"a"} /\ HeadersFit(strings["a"])
    BY DEF Init, Older
  <2> QED
    BY <2>1
<1>9. Stored
  BY <1>2, <1>5, <1>6, <1>7, <1>8, <1>10 DEF Stored, Older, List
<1> QED
  BY <1>3, <1>5, <1>9 DEF List

LEMMA ReaderStarts == Init => ReaderInv
<1> SUFFICES ASSUME Init PROVE ReaderInv
  OBVIOUS
<1>1. Stored /\ iter = [x \in DOMAIN strings |-> hfc_iter_init] /\ j = 0
  BY StartIs
<1>2. iter = [x \in DOMAIN strings |-> iter[x]]
  BY <1>1
<1>3. PICK it : it = hfc_iter_init
  OBVIOUS
<1>4. it.i = 0 /\ it.ret = "none" /\ it.inner = Unread
  BY <1>3 DEF hfc_iter_init
<1>5. it.inner.current \in Arrays /\ it.inner.c = 0
  <2>1. PICK inner : inner = Unread
    OBVIOUS
  <2>2. inner.current = [k \in 0..Size - 1 |-> Unset] /\ inner.c = 0
    BY <2>1 DEF Unread
  <2>3. [k \in 0..Size - 1 |-> Unset] \in Arrays
    BY DEF Arrays, Unset
  <2> QED
    BY <1>4, <2>1, <2>2, <2>3
<1>6. \A x \in DOMAIN strings : iter[x] = it
  BY <1>1, <1>3
<1>7. Iterates2
  <2>1. ASSUME NEW x \in DOMAIN strings PROVE IteratedAs(x, it)
    <3>1. strings[x] \in Seq(Chars)
      BY <1>1 DEF Stored
    <3>2. InnerAt(FALSE, Older, strings[x], Pad, it.inner, 0)
      BY <1>5 DEF InnerAt
    <3>3. 0 \in 0..Len(strings[x])
      BY <3>1
    <3> QED
      BY <1>4, <3>2, <3>3 DEF IteratedAs
  <2> QED
    BY <1>6, <2>1 DEF Iterates2
<1>8. Searches
  <2> SUFFICES ASSUME mode \in {"contains", "exact"} PROVE SearchedAs(iter["a"].i, j, iter["a"].inner)
    BY DEF Searches
  <2>1. /\ "a" \in DOMAIN strings /\ Older \in BOOLEAN /\ Len(List) \in Nat
        /\ BinCount(Len(List)) \in Nat /\ (Older => Len(List) # 0)
    BY <1>1, StoredIs
  <2>2. iter["a"] = it
    BY <1>6, <2>1
  <2>3. PositionOf(Older, Len(List), 0, 0) = 0
    <3>1. PICK s \in Nat : s = SearchedOf(Older, Len(List))
      BY <2>1, SearchedIs
    <3>2. 0 * BinSize + 0 = 0
      BY BinSizeIs
    <3>3. Min({0, s}) = 0
      BY LowerIs
    <3> QED
      BY <3>1, <3>2, <3>3 DEF PositionOf
  <2>4. InnerAt(ignore_case, Older, List, Pad, it.inner, 0)
    BY <1>5 DEF InnerAt
  <2>5. SearchedAs(0, 0, it.inner)
    BY <2>1, <2>3, <2>4 DEF SearchedAs
  <2> QED
    BY <1>1, <1>4, <2>2, <2>5
<1> QED
  BY <1>1, <1>2, <1>7, <1>8 DEF ReaderInv

(* A string that was read, as it comes out.                                *)
LEMMA InnerShows ==
  ASSUME NEW fold \in BOOLEAN, NEW older \in BOOLEAN, NEW ss \in Seq(Chars),
         NEW padding \in Seq(Bytes), NEW inner, NEW p, p # 0,
         InnerAt(fold, older, ss, padding, inner, p)
  PROVE  /\ p \in 1..Len(ss)
         /\ CString(inner.current) = IF fold THEN Folded(ss[p]) ELSE ss[p]
<1>1. p \in 1..Len(ss) /\ CString(inner.current) = Shown(fold, ss[p])
  BY InnerReads
<1>2. ss[p] \in Chars
  BY <1>1, ElementOfSeq
<1>3. ss[p] \in Seq(Bytes)
  BY <1>2, CharsAre
<1>4. Shown(fold, ss[p]) = IF fold THEN Folded(ss[p]) ELSE ss[p]
  BY <1>3, ShownIsFolded
<1> QED
  BY <1>1, <1>4

(* How many strings a search has looked at.                                *)
Looked == PositionOf(Older, Len(List), iter["a"].i, j)

LEMMA SearchMoves ==
  ASSUME ReaderInv, SearchHeader \/ SearchInner
  PROVE  /\ UNCHANGED <<format, mode, text, query, strings, hfc, done>>
         /\ mode \in {"contains", "exact"} /\ ~ done
         /\ iter' = [x \in DOMAIN strings |-> iter'[x]]
         /\ SearchedAs(iter'["a"].i, j', iter'["a"].inner)
         /\ Looked \in 0..Len(List) - 1 /\ Looked < SearchedOf(Older, Len(List))
         /\ PositionOf(Older, Len(List), iter'["a"].i, j') = Looked + 1
         /\ out' = IF Matches(List[Looked + 1]) THEN Append(out, Looked) ELSE out
<1>1. PICK inner :
        /\ BinsLeft /\ Compare(inner)
        /\ InnerAt(ignore_case, Older, List, Pad, inner, iter["a"].i * BinSize + (j + 1))
  BY SearchStep
<1>2. mode \in {"contains", "exact"} /\ ~ done
  BY <1>1 DEF BinsLeft, Searching
<1>3. /\ "a" \in DOMAIN strings /\ List \in Seq(Chars) /\ Older \in BOOLEAN /\ Pad \in Seq(Bytes)
      /\ ignore_case \in BOOLEAN /\ hfc["a"].length = Len(List)
      /\ (Older => Len(List) # 0)
      /\ \A b \in 0..BinCount(Len(List)) - 1 : Visits(b) = VisitsOf(Older, Len(List), b)
  <2>1. Stored /\ ignore_case \in BOOLEAN
    BY DEF ReaderInv, ignore_case
  <2>2. Pad \in Seq(Bytes)
    BY <2>1 DEF Stored
  <2>3. "a" \in DOMAIN strings /\ hfc["a"].length = Len(List)
    BY <2>1, StoredIs DEF List
  <2>4. Older => Len(List) # 0
    BY <1>2, <2>1, StoredIs
  <2> QED
    BY <2>1, <2>2, <2>3, <2>4, StoredIs
<1>4. PICK n \in Nat, count \in Nat : n = Len(List) /\ count = BinCount(n)
  BY <1>3, BinCountIs
<1>5. PICK i : i = iter["a"].i
  OBVIOUS
<1>6. /\ i \in 0..count - 1 /\ j \in Nat
      /\ (j # 0 => j < VisitsOf(Older, n, i))
  <2>1. /\ i \in 0..count /\ j \in Nat /\ i < count
        /\ (j # 0 => j < VisitsOf(Older, n, i))
    BY <1>1, <1>2, <1>3, <1>4, <1>5 DEF ReaderInv, Searches, SearchedAs, BinsLeft
  <2> QED
    BY <2>1
<1>7. PICK p : p = i * BinSize + j
  OBVIOUS
<1>8. p \in Nat /\ i * BinSize + (j + 1) = p + 1
  BY <1>6, <1>7, BinSizeIs
<1>9. InnerAt(ignore_case, Older, List, Pad, inner, p + 1)
  BY <1>1, <1>5, <1>8
<1>10. PICK s : s = SearchedOf(Older, n)
  OBVIOUS
<1>11. PICK older \in BOOLEAN : older = Older
  BY <1>3
<1> DEFINE last == j + 1 >= VisitsOf(older, n, i)
<1>13. /\ PositionOf(older, n, i, j) = p /\ p < s
       /\ IF last THEN PositionOf(older, n, i + 1, 0) = p + 1
          ELSE PositionOf(older, n, i, j + 1) = p + 1
  <2>1. (older => n # 0) /\ i \in 0..BinCount(n) - 1
    BY <1>3, <1>4, <1>6, <1>11
  <2>2. j \in Nat /\ (j # 0 => j < VisitsOf(older, n, i))
    BY <1>6, <1>11
  <2>3. /\ PositionOf(older, n, i, j) = i * BinSize + j
        /\ i * BinSize + j < SearchedOf(older, n)
        /\ IF j + 1 >= VisitsOf(older, n, i)
           THEN PositionOf(older, n, i + 1, 0) = i * BinSize + (j + 1)
           ELSE PositionOf(older, n, i, j + 1) = i * BinSize + (j + 1)
    BY <2>1, <2>2, PositionIs
  <2> QED
    BY <1>7, <1>8, <1>10, <1>11, <2>3
<1>14. s \in 0..n
  BY <1>3, <1>4, <1>10, SearchedIs
<1>15. p \in 0..n - 1
  BY <1>8, <1>13, <1>14
<1>16. Looked = p
  BY <1>4, <1>5, <1>11, <1>13 DEF Looked
<1>17. Visits(i) = VisitsOf(older, n, i)
  BY <1>3, <1>4, <1>6, <1>11
<1>18. /\ iter' = [iter EXCEPT !["a"] = [ i |-> IF last THEN i + 1 ELSE i, inner |-> inner,
                                          ret |-> iter["a"].ret ]]
       /\ out' = IF cmp(CString(iter'["a"].inner.current), query) THEN Append(out, p) ELSE out
       /\ j' = IF last THEN 0 ELSE j + 1
       /\ UNCHANGED <<format, mode, text, query, strings, hfc, done>>
  BY <1>1, <1>5, <1>7, <1>17 DEF Compare
<1>19. iter = [x \in DOMAIN strings |-> iter[x]]
  BY DEF ReaderInv
<1>20. PICK it : it = [ i |-> IF last THEN i + 1 ELSE i, inner |-> inner, ret |-> iter["a"].ret ]
  OBVIOUS
<1>21. it.i = (IF last THEN i + 1 ELSE i) /\ it.inner = inner
  BY <1>20
<1>22. iter' = [x \in DOMAIN strings |-> iter'[x]] /\ iter'["a"] = it
  BY <1>3, <1>18, <1>19, <1>20
<1>23. CString(inner.current) = IF ignore_case THEN Folded(List[p + 1]) ELSE List[p + 1]
  <2>1. p + 1 # 0
    BY <1>8
  <2> QED
    BY <1>3, <1>9, <2>1, InnerShows
<1>24. out' = IF Matches(List[p + 1]) THEN Append(out, p) ELSE out
  BY <1>18, <1>21, <1>22, <1>23 DEF Matches
<1>25. PositionOf(older, n, it.i, j') = p + 1
  BY <1>13, <1>18, <1>21
<1>26. SearchedAs(it.i, j', inner)
  <2>1. it.i \in 0..count /\ j' \in Nat
    BY <1>6, <1>18, <1>21
  <2>2. j' # 0 => it.i < count /\ j' < VisitsOf(older, n, it.i)
    <3>1. CASE last
      BY <1>18, <3>1
    <3>2. CASE ~ last
      <4>1. it.i = i /\ j' = j + 1 /\ i < count
        BY <1>6, <1>18, <1>21, <3>2
      <4>2. VisitsOf(older, n, i) \in Int
        <5>1. BinSize \in Nat /\ (n % BinSize) \in Nat
          BY <1>4, BinSizeIs
        <5> QED
          BY <5>1 DEF VisitsOf
      <4>3. j + 1 < VisitsOf(older, n, i)
        BY <1>6, <3>2, <4>2
      <4> QED
        BY <4>1, <4>3
    <3> QED
      BY <3>1, <3>2
  <2>3. InnerAt(ignore_case, Older, List, Pad, inner, PositionOf(older, n, it.i, j'))
    BY <1>9, <1>25
  <2> QED
    BY <1>4, <1>11, <2>1, <2>2, <2>3 DEF SearchedAs
<1> QED
  BY <1>2, <1>4, <1>10, <1>11, <1>13, <1>15, <1>16, <1>18, <1>21, <1>22, <1>24, <1>25, <1>26

LEMMA StoredStays ==
  ASSUME Stored, UNCHANGED <<format, mode, strings, hfc>>
  PROVE  Stored' /\ Older' = Older /\ Pad' = Pad /\ List' = List /\ ignore_case' = ignore_case
<1>1. Older' = Older /\ Pad' = Pad /\ List' = List /\ ignore_case' = ignore_case
  BY DEF Older, Pad, List, ignore_case
<1>2. Stored'
  BY <1>1 DEF Stored
<1> QED
  BY <1>1, <1>2

(* What the steps of the iterators change.                                 *)
Moves(S) ==
  /\ mode \in {"merge", "print"} /\ iter' = Moved(S)
  /\ UNCHANGED <<format, mode, text, query, strings, hfc, j, done>>

(* The last steps, and steps of anything else.                             *)
Rests ==
  /\ UNCHANGED <<format, mode, text, query, strings, hfc, iter, j, out>>
  /\ done' # done => SearchDone \/ MergeDone \/ PrintDone

LEMMA StepsAre ==
  ASSUME [Next]_vars
  PROVE  SearchHeader \/ SearchInner \/ (\E S : Moves(S)) \/ Rests
<1>1. CASE SearchHeader \/ SearchInner
  BY <1>1
<1>2. CASE SearchDone \/ MergeDone \/ PrintDone \/ UNCHANGED vars
  BY <1>2 DEF SearchDone, MergeDone, PrintDone, vars, Rests
<1>3. CASE Start
  <2>1. Moves({"a", "b"})
    BY <1>3 DEF Start, Moves
  <2> QED
    BY <2>1
<1>4. CASE MergeBoth
  <2>1. Moves({"a", "b"})
    BY <1>4 DEF MergeBoth, Moves, Merging
  <2> QED
    BY <2>1
<1>5. CASE MergeA
  <2>1. Moves({"a"})
    BY <1>5 DEF MergeA, Moves, Merging
  <2> QED
    BY <2>1
<1>6. CASE MergeB
  <2>1. Moves({"b"})
    BY <1>6 DEF MergeB, Moves, Merging
  <2> QED
    BY <2>1
<1>7. CASE Drain
  <2>1. Moves({"a"}) \/ Moves({"b"})
    BY <1>7 DEF Drain, Moves, Merging
  <2> QED
    BY <2>1
<1>8. CASE PrintFirst
  <2>1. Moves({"a"})
    BY <1>8 DEF PrintFirst, Moves
  <2> QED
    BY <2>1
<1>9. CASE PrintLine
  <2>1. Moves({"a"})
    BY <1>9 DEF PrintLine, Moves
  <2> QED
    BY <2>1
<1> QED
  BY <1>1, <1>2, <1>3, <1>4, <1>5, <1>6, <1>7, <1>8, <1>9 DEF Next

LEMMA ReaderStays ==
  ASSUME ReaderInv, [Next]_vars
  PROVE  ReaderInv'
<1>1. CASE SearchHeader \/ SearchInner
  <2>1. /\ UNCHANGED <<format, mode, text, query, strings, hfc, done>>
        /\ mode \in {"contains", "exact"}
        /\ iter' = [x \in DOMAIN strings |-> iter'[x]]
        /\ SearchedAs(iter'["a"].i, j', iter'["a"].inner)
    BY <1>1, SearchMoves
  <2>2. Stored' /\ Older' = Older /\ Pad' = Pad /\ List' = List /\ ignore_case' = ignore_case
    BY <2>1, StoredStays DEF ReaderInv
  <2>3. Searches'
    BY <2>1, <2>2 DEF Searches, SearchedAs
  <2>4. Iterates2'
    BY <2>1 DEF Iterates2
  <2> QED
    BY <2>1, <2>2, <2>3, <2>4 DEF ReaderInv
<1>2. ASSUME NEW S, Moves(S) PROVE ReaderInv'
  <2>1. /\ UNCHANGED <<format, mode, text, query, strings, hfc, j, done>>
        /\ mode \in {"merge", "print"} /\ iter' = Moved(S)
    BY <1>2 DEF Moves
  <2>2. /\ iter' = [x \in DOMAIN strings |-> iter'[x]]
        /\ \A x \in DOMAIN strings : IteratedAs(x, iter'[x])
    BY <2>1, MovedIs
  <2>3. Stored' /\ Older' = Older /\ Pad' = Pad /\ List' = List /\ ignore_case' = ignore_case
    BY <2>1, StoredStays DEF ReaderInv
  <2>4. Iterates2'
    BY <2>1, <2>2, <2>3 DEF Iterates2, IteratedAs
  <2>5. Searches'
    BY <2>1 DEF Searches
  <2> QED
    BY <2>1, <2>2, <2>3, <2>4, <2>5 DEF ReaderInv
<1>3. CASE Rests
  <2>1. UNCHANGED <<format, mode, strings, hfc, iter, j>>
    BY <1>3 DEF Rests
  <2>2. Stored' /\ Older' = Older /\ Pad' = Pad /\ List' = List /\ ignore_case' = ignore_case
    BY <2>1, StoredStays DEF ReaderInv
  <2>3. Iterates2'
    BY <2>1, <2>2 DEF ReaderInv, Iterates2, IteratedAs
  <2>4. Searches'
    BY <2>1, <2>2 DEF ReaderInv, Searches, SearchedAs
  <2> QED
    BY <2>1, <2>2, <2>3, <2>4 DEF ReaderInv
<1> QED
  BY <1>1, <1>2, <1>3, StepsAre

(* At every step of a search, a merge or a print the buffer of each        *)
(* iterator holds the decoded bin of its place, the next record is where   *)
(* it will be read from, and current the string that was read last.        *)
THEOREM ReaderInductive == Spec => []ReaderInv
<1>1. ReaderInv /\ [Next]_vars => ReaderInv'
  BY ReaderStays
<1> QED
  BY <1>1, ReaderStarts, PTL DEF Spec

(* Where ReaderInv says an iterator is, it is.                             *)
LEMMA PlacesAre ==
  ASSUME ReaderInv, NEW x \in DOMAIN iter
  PROVE  /\ x \in DOMAIN strings /\ strings[x] \in Seq(Chars)
         /\ InnerAt(ignore_case, Older, strings[x], Pad, iter[x].inner, Position(x))
<1>1. x \in DOMAIN strings /\ strings[x] \in Seq(Chars)
  BY DEF ReaderInv, Stored
<1>2. CASE mode \in {"merge", "print"}
  <2>1. IteratedAs(x, iter[x]) /\ ignore_case = FALSE
    BY <1>1, <1>2 DEF ReaderInv, Iterates2, ignore_case
  <2> QED
    BY <1>1, <1>2, <2>1 DEF IteratedAs, Position
<1>3. CASE mode \in {"contains", "exact"}
  <2>1. x = "a"
    BY <1>1, <1>3 DEF ReaderInv, Stored
  <2>2. SearchedAs(iter["a"].i, j, iter["a"].inner) /\ Searched = SearchedOf(Older, Len(List))
    BY <1>3, StoredIs DEF ReaderInv, Searches
  <2>3. Position(x) = PositionOf(Older, Len(List), iter["a"].i, j)
    BY <1>3, <2>1, <2>2 DEF Position, PositionOf
  <2> QED
    BY <1>1, <2>1, <2>2, <2>3 DEF SearchedAs, List
<1> QED
  BY <1>1, <1>2, <1>3 DEF ReaderInv, Stored

(* Each string comes back as it went in, or lowered if case is ignored:    *)
(* no byte of an earlier, longer string shows in current, none is unset    *)
(* (inner_next and uncompress_bin of hfc.c and htfc.c).                    *)
THEOREM StringsReadBack == Spec => []ReadsBack
<1>1. ReaderInv => ReadsBack
  <2> SUFFICES ASSUME ReaderInv, NEW x \in DOMAIN iter, iter[x].inner.c > 0
               PROVE  CString(iter[x].inner.current) =
                        IF ignore_case THEN Folded(strings[x][Position(x)])
                        ELSE strings[x][Position(x)]
    BY DEF ReadsBack
  <2>1. PICK inner, p, ss : inner = iter[x].inner /\ p = Position(x) /\ ss = strings[x]
    OBVIOUS
  <2>2. ss \in Seq(Chars) /\ InnerAt(ignore_case, Older, ss, Pad, inner, p)
    BY <2>1, PlacesAre
  <2>3. p # 0
    BY <2>1, <2>2 DEF InnerAt
  <2>4. Pad \in Seq(Bytes) /\ Older \in BOOLEAN /\ ignore_case \in BOOLEAN
    BY DEF ReaderInv, Stored, Older, ignore_case
  <2>5. CString(inner.current) = IF ignore_case THEN Folded(ss[p]) ELSE ss[p]
    BY <2>2, <2>3, <2>4, InnerShows
  <2> QED
    BY <2>1, <2>5
<1> QED
  BY <1>1, ReaderInductive, PTL

(* No reader writes past the end of current, though none looks at its      *)
(* size: strings are shorter than it, and by one more the headers of the   *)
(* older format, which end in two zeros (inner_init and inner_next of      *)
(* hfc.c and htfc.c).                                                      *)
THEOREM NothingOverruns == Spec => []WithinCurrent
<1>1. ReaderInv => WithinCurrent
  <2> SUFFICES ASSUME ReaderInv, NEW x \in DOMAIN iter
               PROVE  DOMAIN iter[x].inner.current = 0..Size - 1
    BY DEF WithinCurrent
  <2>1. iter[x].inner.current \in Arrays
    BY PlacesAre DEF InnerAt
  <2> QED
    BY <2>1 DEF Arrays
<1> QED
  BY <1>1, ReaderInductive, PTL

(* What the padding of a bin decodes to is never read as a record          *)
(* (uncompress_bin, inner_next): c never comes to lie in it but at its     *)
(* first byte, behind the last string.                                     *)
THEOREM ReadersStayInBin == Spec => []StaysInBin
<1>1. ReaderInv => StaysInBin
  <2> SUFFICES ASSUME ReaderInv, NEW x \in DOMAIN iter, iter[x].inner.c > 0
               PROVE  iter[x].inner.c <= Len(iter[x].inner.buff) - Len(hfc[x].padding) + 1
    BY DEF StaysInBin
  <2>1. PICK inner, p, ss : inner = iter[x].inner /\ p = Position(x) /\ ss = strings[x]
    OBVIOUS
  <2>2. ss \in Seq(Chars) /\ InnerAt(ignore_case, Older, ss, Pad, inner, p)
    BY <2>1, PlacesAre
  <2>3. p # 0
    BY <2>1, <2>2 DEF InnerAt
  <2>4. Pad \in Seq(Bytes) /\ Older \in BOOLEAN /\ ignore_case \in BOOLEAN
    BY DEF ReaderInv, Stored, Older, ignore_case
  <2>5. inner.c <= Len(inner.buff) - Len(Pad) + 1
    BY <2>2, <2>3, <2>4, InnerReads
  <2>6. hfc[x].padding = Pad
    BY PlacesAre, StoredIs DEF ReaderInv
  <2> QED
    BY <2>1, <2>5, <2>6
<1> QED
  BY <1>1, ReaderInductive, PTL

-----------------------------------------------------------------------------
(* What a search finds.                                                    *)

FoundInv ==
  mode \in {"contains", "exact"} =>
    /\ out \in Seq(Nat) /\ \A k, n \in 1..Len(out) : k < n => out[k] < out[n]
    /\ Range(out) = {k \in 0..Looked - 1 : Matches(List[k + 1])}
    /\ done => iter["a"].i = BinCount(Len(List)) /\ j = 0

LEMMA RangeOfAppend ==
  ASSUME NEW S, NEW s \in Seq(S), NEW e \in S
  PROVE  Range(Append(s, e)) = Range(s) \cup {e}
<1>5. PICK n \in Nat : n = Len(s)
  OBVIOUS
<1>1. PICK t : n = Len(s) /\ t = Append(s, e)
  BY <1>5
<1>2. /\ DOMAIN s = 1..n /\ DOMAIN t = 1..n + 1
      /\ t[n + 1] = e /\ \A k \in 1..n : t[k] = s[k]
  BY <1>1
<1>3. 1..n + 1 = (1..n) \cup {n + 1}
  OBVIOUS
<1>4. Range(t) = Range(s) \cup {e}
  BY <1>2, <1>3 DEF Range
<1> QED
  BY <1>1, <1>4

LEMMA RangeOfNone == Range(<<>>) = {}
  BY DEF Range

LEMMA FoundMore ==
  ASSUME FoundInv, ReaderInv, SearchHeader \/ SearchInner
  PROVE  FoundInv'
<1>1. /\ UNCHANGED <<format, mode, text, query, strings, hfc, done>>
      /\ mode \in {"contains", "exact"} /\ ~ done
      /\ Looked \in 0..Len(List) - 1
      /\ PositionOf(Older, Len(List), iter'["a"].i, j') = Looked + 1
      /\ out' = IF Matches(List[Looked + 1]) THEN Append(out, Looked) ELSE out
  BY SearchMoves
<1>2. /\ out \in Seq(Nat) /\ \A k, n \in 1..Len(out) : k < n => out[k] < out[n]
      /\ Range(out) = {k \in 0..Looked - 1 : Matches(List[k + 1])}
  BY <1>1 DEF FoundInv
<1>3. Looked' = Looked + 1
  BY <1>1 DEF Looked, Older, List
<1>4. PICK p \in Nat : p = Looked
  <2>1. Looked \in Nat
    BY <1>1
  <2> QED
    BY <2>1
<1>5. PICK M : M = {k \in Nat : Matches(List[k + 1])}
  OBVIOUS
<1>6. Range(out) = {k \in 0..p - 1 : k \in M}
  BY <1>2, <1>4, <1>5
<1>7. {k \in 0..Looked' - 1 : Matches(List[k + 1])'} = {k \in 0..p : k \in M}
  <2>1. \A k \in 0..p : Matches(List[k + 1])' <=> k \in M
    <3>1. \A x : Matches(x)' <=> Matches(x)
      BY <1>1 DEF Matches, cmp, ignore_case
    <3>2. List' = List
      BY <1>1 DEF List
    <3>3. \A k \in 0..p : Matches(List[k + 1])' <=> Matches(List[k + 1])
      BY <3>1, <3>2
    <3> QED
      BY <1>5, <3>3
  <2>2. Looked' - 1 = p
    BY <1>3, <1>4
  <2> QED
    BY <2>1, <2>2
<1>8. CASE Matches(List[p + 1])
  <2>1. out' = Append(out, p) /\ p \in M
    BY <1>1, <1>4, <1>5, <1>8
  <2>2. out' \in Seq(Nat)
    BY <1>2, <2>1
  <2>3. PICK m \in Nat : m = Len(out)
    BY <1>2
  <2>4. Len(out') = m + 1 /\ out'[m + 1] = p /\ \A k \in 1..m : out'[k] = out[k]
    BY <1>2, <2>1, <2>3
  <2>5. \A k \in 1..m : out[k] < p
    <3>1. \A k \in 1..m : out[k] \in Range(out)
      BY <1>2, <2>3 DEF Range
    <3> QED
      BY <1>6, <3>1
  <2>6. ASSUME NEW k \in 1..Len(out'), NEW n \in 1..Len(out'), k < n
        PROVE  out'[k] < out'[n]
    <3>1. k \in 1..m /\ (n \in 1..m \/ n = m + 1)
      BY <2>3, <2>4, <2>6
    <3> QED
      BY <1>2, <2>3, <2>4, <2>5, <2>6, <3>1
  <2>7. Range(out') = Range(out) \cup {p}
    BY <1>2, <2>1, RangeOfAppend
  <2>8. Range(out') = {k \in 0..p : k \in M}
    <3>1. 0..p = (0..p - 1) \cup {p}
      OBVIOUS
    <3> QED
      BY <1>6, <2>1, <2>7, <3>1
  <2> QED
    BY <1>1, <1>7, <2>2, <2>6, <2>8 DEF FoundInv
<1>9. CASE ~ Matches(List[p + 1])
  <2>1. out' = out /\ p \notin M
    BY <1>1, <1>4, <1>5, <1>9
  <2>2. Range(out') = {k \in 0..p : k \in M}
    <3>1. 0..p = (0..p - 1) \cup {p}
      OBVIOUS
    <3> QED
      BY <1>6, <2>1, <3>1
  <2> QED
    BY <1>1, <1>2, <1>7, <2>1, <2>2 DEF FoundInv
<1> QED
  BY <1>8, <1>9

(* A finished search has found each string that matches and no other, in   *)
(* ascending order (hfc_search_method, htfc_search).                       *)
THEOREM SearchesFind == Spec => []FindsAll
<1>1. Init => FoundInv
  <2> SUFFICES ASSUME Init, mode \in {"contains", "exact"}
               PROVE  /\ out \in Seq(Nat) /\ \A k, n \in 1..Len(out) : k < n => out[k] < out[n]
                      /\ Range(out) = {k \in 0..Looked - 1 : Matches(List[k + 1])}
                      /\ ~ done
    BY DEF FoundInv
  <2>1. Stored /\ iter = [x \in DOMAIN strings |-> hfc_iter_init] /\ j = 0 /\ out = <<>> /\ ~ done
    BY StartIs
  <2>2. iter["a"].i = 0
    BY <2>1, StoredIs DEF hfc_iter_init
  <2>3. Looked = 0
    <3>1. Older \in BOOLEAN /\ Len(List) \in Nat /\ (Older => Len(List) # 0)
      BY <2>1, StoredIs
    <3>2. PICK s \in Nat : s = SearchedOf(Older, Len(List))
      BY <3>1, SearchedIs
    <3>3. 0 * BinSize + 0 = 0
      BY BinSizeIs
    <3>4. Min({0, s}) = 0
      BY LowerIs
    <3> QED
      BY <2>1, <2>2, <3>2, <3>3, <3>4 DEF Looked, PositionOf
  <2>4. {k \in 0..Looked - 1 : Matches(List[k + 1])} = {}
    BY <2>3
  <2> QED
    BY <2>1, <2>4, RangeOfNone
<1>2. FoundInv /\ ReaderInv /\ [Next]_vars => FoundInv'
  <2> SUFFICES ASSUME FoundInv, ReaderInv, [Next]_vars PROVE FoundInv'
    OBVIOUS
  <2>1. CASE SearchHeader \/ SearchInner
    BY <2>1, FoundMore
  <2>2. ASSUME NEW S, Moves(S) PROVE FoundInv'
    BY <2>2 DEF Moves, FoundInv
  <2>3. CASE Rests
    <3> SUFFICES ASSUME mode \in {"contains", "exact"} PROVE FoundInv'
      BY <2>3 DEF Rests, FoundInv
    <3>1. UNCHANGED <<format, mode, text, query, strings, hfc, iter, j, out>>
      BY <2>3 DEF Rests
    <3>2. Looked' = Looked /\ List' = List
      BY <3>1 DEF Looked, Older, List
    <3>3. \A k \in Int : Matches(List[k + 1])' = Matches(List[k + 1])
      BY <3>1, <3>2 DEF Matches, cmp, ignore_case
    <3>4. Range(out') = {k \in 0..Looked' - 1 : Matches(List[k + 1])'}
      BY <3>1, <3>2, <3>3 DEF FoundInv
    <3>5. done' => iter["a"].i = BinCount(Len(List)) /\ j = 0
      <4>1. CASE done' = done
        BY <4>1 DEF FoundInv
      <4>2. CASE SearchDone
        <5>1. iter["a"].i = BinCount(Len(List))
          BY <4>2, StoredIs DEF SearchDone, ReaderInv, List
        <5>2. BinCount(Len(List)) \in Nat /\ (j # 0 => iter["a"].i < BinCount(Len(List)))
          BY StoredIs DEF ReaderInv, Searches, SearchedAs
        <5> QED
          BY <5>1, <5>2
      <4> QED
        BY <2>3, <4>1, <4>2 DEF Rests, MergeDone, Merging, PrintDone
    <3> QED
      BY <3>1, <3>2, <3>4, <3>5 DEF FoundInv
  <2> QED
    BY <2>1, <2>2, <2>3, StepsAre
<1>3. FoundInv /\ ReaderInv => FindsAll
  <2> SUFFICES ASSUME FoundInv, ReaderInv, done, mode \in {"contains", "exact"}
               PROVE  /\ \A k, n \in DOMAIN out : k < n => out[k] < out[n]
                      /\ Range(out) = {k \in 0..Searched - 1 : Matches(strings["a"][k + 1])}
    BY DEF FindsAll
  <2>1. /\ out \in Seq(Nat) /\ \A k, n \in 1..Len(out) : k < n => out[k] < out[n]
        /\ Range(out) = {k \in 0..Looked - 1 : Matches(List[k + 1])}
        /\ iter["a"].i = BinCount(Len(List)) /\ j = 0
    BY DEF FoundInv
  <2>2. Looked = Searched
    <3>1. /\ Older \in BOOLEAN /\ Len(List) \in Nat /\ (Older => Len(List) # 0)
          /\ Searched = SearchedOf(Older, Len(List))
      BY StoredIs DEF ReaderInv
    <3>2. PositionOf(Older, Len(List), BinCount(Len(List)), 0) = SearchedOf(Older, Len(List))
      BY <3>1, AllSearched
    <3> QED
      BY <2>1, <3>1, <3>2 DEF Looked
  <2>3. DOMAIN out = 1..Len(out)
    BY <2>1
  <2> QED
    BY <2>1, <2>2, <2>3 DEF List
<1> QED
  BY <1>1, <1>2, <1>3, ReaderInductive, PTL DEF Spec

-----------------------------------------------------------------------------
(* The order of the strings.                                               *)

(* s is before t: they first differ behind n, where s ends or is smaller.  *)
Split(s, t, n) ==
  /\ n <= Len(s) /\ n <= Len(t) /\ \A k \in 1..n : s[k] = t[k]
  /\ n = Len(s) \/ (n < Len(s) /\ n < Len(t) /\ s[n + 1] < t[n + 1])

LEMMA NumbersAre ==
  ASSUME NEW s \in Chars
  PROVE  s \in Seq(Bytes) /\ Len(s) \in Nat /\ \A k \in 1..Len(s) : s[k] \in Nat
<1>1. /\ s \in Seq(Bytes) /\ Len(s) \in 0..Size - 1
      /\ \A k \in 1..Len(s) : s[k] \in Bytes
  BY CharsAre
<1>2. \A b \in Bytes : b \in Nat
  BY FrontAssumption DEF Bytes
<1> QED
  BY <1>1, <1>2

LEMMA SameStart ==
  ASSUME NEW s \in Chars, NEW t \in Chars, NEW n \in Nat, n <= Len(s), n <= Len(t)
  PROVE  SubSeq(s, 1, n) = SubSeq(t, 1, n) <=> \A k \in 1..n : s[k] = t[k]
<1>1. PICK l \in Nat : l = Len(s) /\ s \in Seq(Bytes)
  BY CharsAre
<1>2. PICK m \in Nat : m = Len(t) /\ t \in Seq(Bytes)
  BY CharsAre
<1>3. PICK u : u = SubSeq(s, 1, n)
  OBVIOUS
<1>4. PICK v : v = SubSeq(t, 1, n)
  OBVIOUS
<1>5. u \in Seq(Bytes) /\ Len(u) = n /\ \A k \in 1..n : u[k] = s[k]
  <2>1. 1 \in Int /\ n \in Int /\ \A k \in 1..n : s[k] \in Bytes
    BY <1>1
  <2> QED
    BY <1>1, <1>3, <2>1, SubSeqProperties
<1>6. v \in Seq(Bytes) /\ Len(v) = n /\ \A k \in 1..n : v[k] = t[k]
  <2>1. 1 \in Int /\ n \in Int /\ \A k \in 1..n : t[k] \in Bytes
    BY <1>2
  <2> QED
    BY <1>2, <1>4, <2>1, SubSeqProperties
<1>7. CASE \A k \in 1..n : s[k] = t[k]
  <2>1. \A k \in 1..n : u[k] = v[k]
    BY <1>5, <1>6, <1>7
  <2>2. u = v
    BY <1>5, <1>6, <2>1, SeqEqual
  <2> QED
    BY <1>3, <1>4, <1>7, <2>2
<1>8. CASE u = v
  BY <1>3, <1>4, <1>5, <1>6, <1>8
<1> QED
  BY <1>3, <1>4, <1>7, <1>8

LEMMA BeforeIs ==
  ASSUME NEW s \in Chars, NEW t \in Chars
  PROVE  Before(s, t) <=> \E n \in Nat : Split(s, t, n)
<1>1. PICK l \in Nat : l = Len(s) /\ DOMAIN s = 1..l
  BY CharsAre
<1>2. PICK m \in Nat : m = Len(t) /\ DOMAIN t = 1..m
  BY CharsAre
<1>3. ASSUME NEW n \in Nat, Split(s, t, n) PROVE Before(s, t)
  <2>1. /\ n <= l /\ n <= m /\ \A k \in 1..n : s[k] = t[k]
        /\ n = l \/ (n < l /\ n < m /\ s[n + 1] < t[n + 1])
    BY <1>1, <1>2, <1>3 DEF Split
  <2>2. SubSeq(s, 1, n) = SubSeq(t, 1, n)
    BY <1>1, <1>2, <2>1, SameStart
  <2>3. CASE n = l
    BY <1>1, <1>2, <2>1, <2>2, <2>3 DEF Before, IsPrefix
  <2>4. CASE n < l /\ n < m /\ s[n + 1] < t[n + 1]
    <3>1. n + 1 \in 1..l /\ n + 1 \in 1..m /\ (n + 1) - 1 = n
      BY <2>4
    <3>2. PICK h : h = n + 1
      OBVIOUS
    <3>3. h \in DOMAIN s \cap DOMAIN t /\ s[h] < t[h] /\ SubSeq(s, 1, h - 1) = SubSeq(t, 1, h - 1)
      BY <1>1, <1>2, <2>2, <2>4, <3>1, <3>2
    <3> QED
      BY <3>3 DEF Before
  <2> QED
    BY <2>1, <2>3, <2>4
<1>4. ASSUME Before(s, t) PROVE \E n \in Nat : Split(s, t, n)
  <2>1. CASE IsPrefix(s, t)
    <3>1. l <= m /\ SubSeq(s, 1, l) = SubSeq(t, 1, l)
      BY <1>1, <1>2, <2>1 DEF IsPrefix
    <3>2. \A k \in 1..l : s[k] = t[k]
      BY <1>1, <1>2, <3>1, SameStart
    <3>3. Split(s, t, l)
      BY <1>1, <1>2, <3>1, <3>2 DEF Split
    <3> QED
      BY <3>3
  <2>2. CASE ~ IsPrefix(s, t)
    <3>1. PICK h \in DOMAIN s \cap DOMAIN t :
            s[h] < t[h] /\ SubSeq(s, 1, h - 1) = SubSeq(t, 1, h - 1)
      BY <1>4, <2>2 DEF Before
    <3>2. PICK n \in Nat : n = h - 1
      BY <1>1, <3>1
    <3>3. n < l /\ n < m /\ n + 1 = h
      BY <1>1, <1>2, <3>1, <3>2
    <3>4. \A k \in 1..n : s[k] = t[k]
      BY <1>1, <1>2, <3>1, <3>2, <3>3, SameStart
    <3>5. Split(s, t, n)
      BY <1>1, <1>2, <3>1, <3>3, <3>4 DEF Split
    <3> QED
      BY <3>5
  <2> QED
    BY <2>1, <2>2
<1> QED
  BY <1>3, <1>4

LEMMA BeforeSelf ==
  ASSUME NEW s \in Chars
  PROVE  Before(s, s)
<1>1. Len(s) \in Nat
  BY CharsAre
<1>2. Split(s, s, Len(s))
  BY <1>1 DEF Split
<1> QED
  BY <1>1, <1>2, BeforeIs

LEMMA BeforeTotal ==
  ASSUME NEW s \in Chars, NEW t \in Chars
  PROVE  Before(s, t) \/ Before(t, s)
<1>1. PICK l \in Nat : l = Len(s) /\ \A k \in 1..l : s[k] \in Nat
  BY NumbersAre
<1>2. PICK m \in Nat : m = Len(t) /\ \A k \in 1..m : t[k] \in Nat
  BY NumbersAre
<1> DEFINE T == {n \in 0..l : n <= m /\ \A k \in 1..n : s[k] = t[k]}
<1>3. T \in SUBSET Nat /\ T # {} /\ \A x \in T : x <= l
  <2>1. 0 \in T
    BY <1>1, <1>2
  <2> QED
    BY <2>1
<1>4. PICK n \in Nat : n \in T /\ \A x \in T : x <= n
  <2> HIDE DEF T
  <2>1. Max(T) \in T /\ \A x \in T : x <= Max(T)
    BY <1>1, <1>3, Greatest
  <2> QED
    BY <1>3, <2>1
<1>5. n <= l /\ n <= m /\ \A k \in 1..n : s[k] = t[k]
  BY <1>4
<1>6. CASE n = l
  BY <1>1, <1>2, <1>5, <1>6, BeforeIs DEF Split
<1>7. CASE n = m
  BY <1>1, <1>2, <1>5, <1>7, BeforeIs DEF Split
<1>8. CASE n < l /\ n < m
  <2>1. s[n + 1] # t[n + 1]
    <3>1. CASE s[n + 1] = t[n + 1]
      <4>1. \A k \in 1..n + 1 : k \in 1..n \/ k = n + 1
        OBVIOUS
      <4>2. n + 1 \in T
        BY <1>5, <1>8, <3>1, <4>1
      <4>3. n + 1 <= n
        <5> HIDE DEF T
        <5> QED
          BY <1>4, <4>2
      <4> QED
        BY <4>3
    <3> QED
      BY <3>1
  <2>2. s[n + 1] \in Nat /\ t[n + 1] \in Nat
    BY <1>1, <1>2, <1>8
  <2>3. s[n + 1] < t[n + 1] \/ t[n + 1] < s[n + 1]
    BY <2>1, <2>2
  <2>4. Split(s, t, n) \/ Split(t, s, n)
    BY <1>1, <1>2, <1>5, <1>8, <2>3 DEF Split
  <2> QED
    BY <2>4, BeforeIs
<1> QED
  BY <1>5, <1>6, <1>7, <1>8

LEMMA BeforeBoth ==
  ASSUME NEW s \in Chars, NEW t \in Chars, Before(s, t), Before(t, s)
  PROVE  s = t
<1>1. PICK l \in Nat : l = Len(s) /\ s \in Seq(Bytes) /\ \A k \in 1..l : s[k] \in Nat
  BY NumbersAre
<1>2. PICK m \in Nat : m = Len(t) /\ t \in Seq(Bytes) /\ \A k \in 1..m : t[k] \in Nat
  BY NumbersAre
<1>3. PICK n \in Nat : Split(s, t, n)
  BY BeforeIs
<1>4. PICK h \in Nat : Split(t, s, h)
  BY BeforeIs
<1>5. /\ n <= l /\ n <= m /\ \A k \in 1..n : s[k] = t[k]
      /\ n = l \/ (n < l /\ n < m /\ s[n + 1] < t[n + 1])
  BY <1>1, <1>2, <1>3 DEF Split
<1>6. /\ h <= l /\ h <= m /\ \A k \in 1..h : t[k] = s[k]
      /\ h = m \/ (h < l /\ h < m /\ t[h + 1] < s[h + 1])
  BY <1>1, <1>2, <1>4 DEF Split
<1>7. n = l
  <2>1. CASE n < l /\ n < m /\ s[n + 1] < t[n + 1]
    <3>1. s[n + 1] \in Nat /\ t[n + 1] \in Nat
      BY <1>1, <1>2, <2>1
    <3>2. ~ (n + 1 \in 1..h)
      BY <1>6, <2>1, <3>1
    <3>3. h <= n
      BY <3>2
    <3>4. h < m /\ t[h + 1] < s[h + 1]
      BY <1>6, <2>1, <3>3
    <3>5. h + 1 \in 1..n \/ h = n
      BY <3>3
    <3>6. s[h + 1] \in Nat /\ t[h + 1] \in Nat
      BY <1>1, <1>2, <2>1, <3>3
    <3> QED
      BY <1>5, <2>1, <3>1, <3>4, <3>5, <3>6
  <2> QED
    BY <1>5, <2>1
<1>8. h = m
  <2>1. CASE h < l /\ h < m /\ t[h + 1] < s[h + 1]
    <3>1. s[h + 1] \in Nat /\ t[h + 1] \in Nat /\ h + 1 \in 1..n
      BY <1>1, <1>2, <1>7, <2>1
    <3> QED
      BY <1>5, <2>1, <3>1
  <2> QED
    BY <1>6, <2>1
<1>9. l = m
  BY <1>5, <1>6, <1>7, <1>8
<1> QED
  BY <1>1, <1>2, <1>5, <1>7, <1>9, SeqEqual

LEMMA BeforeThrough ==
  ASSUME NEW s \in Chars, NEW t \in Chars, NEW u \in Chars, Before(s, t), Before(t, u)
  PROVE  Before(s, u)
<1>1. PICK l \in Nat : l = Len(s) /\ \A k \in 1..l : s[k] \in Nat
  BY NumbersAre
<1>2. PICK m \in Nat : m = Len(t) /\ \A k \in 1..m : t[k] \in Nat
  BY NumbersAre
<1>3. PICK o \in Nat : o = Len(u) /\ \A k \in 1..o : u[k] \in Nat
  BY NumbersAre
<1>4. PICK n \in Nat : Split(s, t, n)
  BY BeforeIs
<1>5. PICK h \in Nat : Split(t, u, h)
  BY BeforeIs
<1>6. /\ n <= l /\ n <= m /\ \A k \in 1..n : s[k] = t[k]
      /\ n = l \/ (n < l /\ n < m /\ s[n + 1] < t[n + 1])
  BY <1>1, <1>2, <1>4 DEF Split
<1>7. /\ h <= m /\ h <= o /\ \A k \in 1..h : t[k] = u[k]
      /\ h = m \/ (h < m /\ h < o /\ t[h + 1] < u[h + 1])
  BY <1>2, <1>3, <1>5 DEF Split
<1>8. CASE n < h
  <2>1. n <= o /\ \A k \in 1..n : s[k] = u[k]
    <3>1. \A k \in 1..n : k \in 1..h
      BY <1>8
    <3> QED
      BY <1>6, <1>7, <1>8, <3>1
  <2>2. n < o /\ n + 1 \in 1..h
    BY <1>7, <1>8
  <2>3. t[n + 1] = u[n + 1]
    BY <1>7, <2>2
  <2>4. n = l \/ (n < l /\ n < o /\ s[n + 1] < u[n + 1])
    BY <1>6, <2>2, <2>3
  <2>5. Split(s, u, n)
    BY <1>1, <1>3, <1>6, <2>1, <2>4 DEF Split
  <2> QED
    BY <2>5, BeforeIs
<1>9. CASE h < n
  <2>1. h < m /\ h < o /\ t[h + 1] < u[h + 1] /\ h + 1 \in 1..n
    BY <1>6, <1>7, <1>9
  <2>2. s[h + 1] = t[h + 1]
    BY <1>6, <2>1
  <2>3. h < l /\ \A k \in 1..h : s[k] = u[k]
    <3>1. \A k \in 1..h : k \in 1..n
      BY <1>9
    <3> QED
      BY <1>6, <1>7, <1>9, <3>1
  <2>4. Split(s, u, h)
    BY <1>1, <1>3, <2>1, <2>2, <2>3 DEF Split
  <2> QED
    BY <2>4, BeforeIs
<1>10. CASE n = h
  <2>1. n <= o /\ \A k \in 1..n : s[k] = u[k]
    BY <1>6, <1>7, <1>10
  <2>2. n = l \/ (n < l /\ n < o /\ s[n + 1] < u[n + 1])
    <3>1. CASE n < l /\ n < m /\ s[n + 1] < t[n + 1]
      <4>1. n < o /\ t[n + 1] < u[n + 1]
        BY <1>7, <1>10, <3>1
      <4>2. s[n + 1] \in Nat /\ t[n + 1] \in Nat /\ u[n + 1] \in Nat
        BY <1>1, <1>2, <1>3, <3>1, <4>1
      <4> QED
        BY <3>1, <4>1, <4>2
    <3> QED
      BY <1>6, <3>1
  <2>3. Split(s, u, n)
    BY <1>1, <1>3, <1>6, <2>1, <2>2 DEF Split
  <2> QED
    BY <2>3, BeforeIs
<1> QED
  BY <1>8, <1>9, <1>10


LEMMA SortedAscends ==
  ASSUME NEW ss \in Seq(Chars)
  PROVE  Sorted(ss) <=> \A i, k \in 1..Len(ss) : i <= k => Before(ss[i], ss[k])
<1>1. PICK n \in Nat : n = Len(ss) /\ \A k \in 1..n : ss[k] \in Chars
  <2>1. Len(ss) \in Nat /\ \A k \in 1..Len(ss) : ss[k] \in Chars
    BY ElementOfSeq
  <2> QED
    BY <2>1
<1>2. ASSUME Sorted(ss), NEW i \in 1..n, NEW m \in 1..n, i <= m PROVE Before(ss[i], ss[m])
  <2> DEFINE P == {k \in i..m : Before(ss[i], ss[k])}
  <2>1. i \in P
    BY <1>1, <1>2, BeforeSelf
  <2>2. ASSUME NEW k \in i..m - 1, k \in P PROVE k + 1 \in P
    <3>1. k \in 1..n /\ k + 1 \in 1..n /\ k \in 1..n - 1 /\ k + 1 \in i..m
      BY <1>2
    <3>2. Before(ss[k], ss[k + 1])
      BY <1>1, <1>2, <3>1 DEF Sorted
    <3>3. Before(ss[i], ss[k + 1])
      BY <1>1, <2>2, <3>1, <3>2, BeforeThrough
    <3> QED
      BY <3>1, <3>3
  <2>3. i..m \subseteq P
    <3> HIDE DEF P
    <3>1. i \in Int /\ m \in Int
      OBVIOUS
    <3> QED
      BY <2>1, <2>2, <3>1, IntervalIsInductive, Zenon
  <2>4. m \in i..m
    BY <1>2
  <2> QED
    BY <2>3, <2>4
<1>3. ASSUME \A i, k \in 1..n : i <= k => Before(ss[i], ss[k]) PROVE Sorted(ss)
  BY <1>1, <1>3 DEF Sorted
<1> QED
  BY <1>1, <1>2, <1>3

-----------------------------------------------------------------------------
(* How often a string is among the first n.                                *)

Times(s, ss, n) == Cardinality({k \in 1..n : ss[k] = s})

LEMMA TimesIs ==
  ASSUME NEW ss, NEW s, NEW n \in Nat
  PROVE  /\ Times(s, ss, n) \in Nat /\ Times(s, ss, 0) = 0
         /\ ss[n + 1] = s => Times(s, ss, n + 1) = Times(s, ss, n) + 1
         /\ ss[n + 1] # s => Times(s, ss, n + 1) = Times(s, ss, n)
         /\ Times(s, ss, n) = 0 <=> \A k \in 1..n : ss[k] # s
<1>1. PICK T : T = {k \in 1..n : ss[k] = s}
  OBVIOUS
<1>2. IsFiniteSet(T) /\ Cardinality(T) \in Nat
  <2>1. IsFiniteSet(1..n) /\ T \subseteq 1..n
    BY <1>1, FS_Interval
  <2>2. IsFiniteSet(T)
    BY <2>1, FS_Subset
  <2> QED
    BY <2>2, FS_CardinalityType
<1>3. {k \in 1..0 : ss[k] = s} = {}
  OBVIOUS
<1>4. Times(s, ss, n) = Cardinality(T)
  BY <1>1 DEF Times
<1>5. Times(s, ss, n + 1) = Cardinality(T) + (IF ss[n + 1] = s THEN 1 ELSE 0)
  <2>1. PICK U : U = {k \in 1..n + 1 : ss[k] = s}
    OBVIOUS
  <2>2. 1..n + 1 = (1..n) \cup {n + 1} /\ n + 1 \notin 1..n
    OBVIOUS
  <2>3. CASE ss[n + 1] = s
    <3>1. U = T \cup {n + 1} /\ n + 1 \notin T
      BY <1>1, <2>1, <2>2, <2>3
    <3>2. Cardinality(U) = Cardinality(T) + 1
      BY <1>2, <3>1, FS_AddElement
    <3> QED
      BY <2>1, <2>3, <3>2 DEF Times
  <2>4. CASE ss[n + 1] # s
    <3>1. U = T
      BY <1>1, <2>1, <2>2, <2>4
    <3> QED
      BY <1>2, <2>1, <2>4, <3>1 DEF Times
  <2> QED
    BY <2>3, <2>4
<1>6. Cardinality(T) = 0 <=> T = {}
  BY <1>2, FS_EmptySet
<1>7. T = {} <=> \A k \in 1..n : ss[k] # s
  BY <1>1
<1>8. Times(s, ss, 0) = 0
  BY <1>3, FS_EmptySet DEF Times
<1> QED
  BY <1>2, <1>4, <1>5, <1>6, <1>7, <1>8

LEMMA OccursIs ==
  ASSUME NEW S, NEW ss \in Seq(S), NEW s, NEW e \in S
  PROVE  /\ Occurs(s, ss) = Times(s, ss, Len(ss)) /\ Occurs(s, ss) \in Nat
         /\ e = s => Occurs(s, Append(ss, e)) = Occurs(s, ss) + 1
         /\ e # s => Occurs(s, Append(ss, e)) = Occurs(s, ss)
         /\ Occurs(s, ss) = 0 <=> \A k \in 1..Len(ss) : ss[k] # s
<1>1. PICK n \in Nat : n = Len(ss) /\ DOMAIN ss = 1..n
  BY LenProperties
<1>2. Occurs(s, ss) = Times(s, ss, n)
  BY <1>1 DEF Occurs, Times
<1>3. PICK t : t = Append(ss, e)
  OBVIOUS
<1>4. DOMAIN t = 1..n + 1 /\ t[n + 1] = e /\ \A k \in 1..n : t[k] = ss[k]
  BY <1>1, <1>3, AppendProperties
<1>5. Occurs(s, t) = Times(s, t, n + 1)
  BY <1>4 DEF Occurs, Times
<1>6. Times(s, t, n) = Times(s, ss, n)
  <2>1. {k \in 1..n : t[k] = s} = {k \in 1..n : ss[k] = s}
    BY <1>4
  <2> QED
    BY <2>1 DEF Times
<1>7. /\ t[n + 1] = s => Times(s, t, n + 1) = Times(s, t, n) + 1
      /\ t[n + 1] # s => Times(s, t, n + 1) = Times(s, t, n)
  BY TimesIs
<1>8. Times(s, ss, n) \in Nat /\ (Times(s, ss, n) = 0 <=> \A k \in 1..n : ss[k] # s)
  BY TimesIs
<1> QED
  BY <1>1, <1>2, <1>3, <1>4, <1>5, <1>6, <1>7, <1>8

LEMMA SomeOccurs ==
  ASSUME NEW ss \in Seq(Chars), NEW s, Occurs(s, ss) # 0
  PROVE  \E k \in 1..Len(ss) : ss[k] = s
<1>1. DOMAIN ss = 1..Len(ss)
  OBVIOUS
<1>2. CASE \A k \in 1..Len(ss) : ss[k] # s
  <2>1. {k \in DOMAIN ss : ss[k] = s} = {}
    BY <1>1, <1>2
  <2>2. Occurs(s, ss) = 0
    BY <2>1, FS_EmptySet DEF Occurs
  <2> QED
    BY <2>2
<1> QED
  BY <1>2

LEMMA HigherIs ==
  ASSUME NEW x \in Nat, NEW y \in Nat
  PROVE  Max({x, y}) = IF x <= y THEN y ELSE x
<1>1. PICK T : T = {x, y}
  OBVIOUS
<1>2. T \in SUBSET Nat /\ T # {}
  BY <1>1
<1>3. PICK n \in Nat : n = IF x <= y THEN y ELSE x
  OBVIOUS
<1>4. n \in T /\ \A z \in T : z <= n
  BY <1>1, <1>3
<1>5. Max(T) \in T /\ \A z \in T : z <= Max(T)
  BY <1>2, <1>4, Greatest
<1>6. Max(T) = n
  <2>1. PICK m : m = Max(T)
    OBVIOUS
  <2>2. m \in T /\ m \in Nat /\ n <= m /\ m <= n
    BY <1>2, <1>4, <1>5, <2>1
  <2> QED
    BY <2>1, <2>2
<1> QED
  BY <1>1, <1>3, <1>6

-----------------------------------------------------------------------------
(* Two lists, p strings of A and q of B merged into w: w ascends up to     *)
(* what is left, it holds each string as often as the list that has shown  *)
(* it more often, and the other list has not shown more of the string a    *)
(* list is at than that list has.                                          *)

Lists(A, B, p, q, w) ==
  /\ A \in Seq(Chars) /\ B \in Seq(Chars) /\ w \in Seq(Chars)
  /\ Sorted(A) /\ Sorted(B) /\ Sorted(w)
  /\ p \in 0..Len(A) /\ q \in 0..Len(B)

Below(w, A, p) == \A k \in 1..Len(w) : \A i \in p + 1..Len(A) : Before(w[k], A[i])

Counted(A, B, p, q, w) == \A s : Occurs(s, w) = Max({Times(s, A, p), Times(s, B, q)})

Ahead(A, B, p, q) == p < Len(A) => Times(A[p + 1], B, q) <= Times(A[p + 1], A, p)

Merged(A, B, p, q, w) ==
  /\ Lists(A, B, p, q, w) /\ Below(w, A, p) /\ Below(w, B, q) /\ Counted(A, B, p, q, w)
  /\ Ahead(A, B, p, q) /\ Ahead(B, A, q, p)

LEMMA MergedTurned ==
  ASSUME NEW A, NEW B, NEW p, NEW q, NEW w, Merged(A, B, p, q, w)
  PROVE  Merged(B, A, q, p, w)
<1>1. Lists(B, A, q, p, w)
  BY DEF Merged, Lists
<1>2. Counted(B, A, q, p, w)
  <2>1. \A x, y : {x, y} = {y, x}
    OBVIOUS
  <2> QED
    BY <2>1 DEF Merged, Counted
<1> QED
  BY <1>1, <1>2 DEF Merged

LEMMA NothingMerged ==
  ASSUME NEW A \in Seq(Chars), NEW B \in Seq(Chars), Sorted(A), Sorted(B)
  PROVE  Merged(A, B, 0, 0, <<>>)
<1>1. Len(A) \in Nat /\ Len(B) \in Nat
  OBVIOUS
<1>2. PICK w : w = <<>>
  OBVIOUS
<1>3. w \in Seq(Chars) /\ Len(w) = 0
  BY <1>2, EmptySeq
<1>4. Sorted(w)
  BY <1>3 DEF Sorted
<1>5. Below(w, A, 0) /\ Below(w, B, 0)
  BY <1>3 DEF Below
<1>6. ASSUME NEW s PROVE Times(s, A, 0) = 0 /\ Times(s, B, 0) = 0 /\ Occurs(s, w) = 0
  <2>1. Times(s, A, 0) = 0 /\ Times(s, B, 0) = 0 /\ Times(s, w, 0) = 0
    BY TimesIs
  <2>2. DOMAIN w = 1..0
    BY <1>3
  <2>3. Occurs(s, w) = Times(s, w, 0)
    BY <2>2 DEF Occurs, Times
  <2> QED
    BY <2>1, <2>3
<1>7. Counted(A, B, 0, 0, w)
  <2>1. Max({0, 0}) = 0
    BY HigherIs
  <2> QED
    BY <1>6, <2>1 DEF Counted
<1>8. Ahead(A, B, 0, 0) /\ Ahead(B, A, 0, 0)
  BY <1>6 DEF Ahead
<1> QED
  BY <1>1, <1>2, <1>3, <1>4, <1>5, <1>7, <1>8 DEF Merged, Lists

(* Where the next string of A is another, B has not shown that one.        *)
LEMMA NewInBoth ==
  ASSUME NEW A, NEW B, NEW p \in Nat, NEW q \in Nat, NEW w, Merged(A, B, p, q, w),
         p + 1 < Len(A), A[p + 2] # A[p + 1]
  PROVE  Times(A[p + 2], B, q) = 0
<1>1. PICK s, t : s = A[p + 1] /\ t = A[p + 2]
  OBVIOUS
<1>2. /\ A \in Seq(Chars) /\ w \in Seq(Chars) /\ Sorted(A) /\ Below(w, A, p)
      /\ Counted(A, B, p, q, w)
  BY DEF Merged, Lists
<1>3. PICK n \in Nat : n = Len(A) /\ p + 1 \in 1..n /\ p + 2 \in 1..n
  <2>1. Len(A) \in Nat
    BY <1>2
  <2> QED
    BY <2>1
<1>4. s \in Chars /\ t \in Chars /\ Before(s, t) /\ s # t
  <2>1. s \in Chars /\ t \in Chars
    BY <1>1, <1>2, <1>3, ElementOfSeq
  <2>2. Before(A[p + 1], A[p + 2])
    <3>1. p + 1 <= p + 2
      OBVIOUS
    <3> QED
      BY <1>2, <1>3, <3>1, SortedAscends
  <2> QED
    BY <1>1, <2>1, <2>2
<1>5. CASE Times(t, B, q) # 0
  <2>1. PICK x \in Nat : x = Times(t, A, p)
    BY TimesIs
  <2>2. PICK y \in Nat : y = Times(t, B, q) /\ y # 0
    BY <1>5, TimesIs
  <2>3. Occurs(t, w) = IF x <= y THEN y ELSE x
    BY <1>2, <2>1, <2>2, HigherIs DEF Counted
  <2>4. Occurs(t, w) # 0
    BY <2>1, <2>2, <2>3
  <2>5. PICK k \in 1..Len(w) : w[k] = t
    BY <1>2, <1>4, <2>4, SomeOccurs
  <2>6. p + 1 \in p + 1..Len(A)
    BY <1>3
  <2>7. Before(t, s)
    BY <1>1, <1>2, <2>5, <2>6 DEF Below
  <2> QED
    BY <1>4, <2>7, BeforeBoth
<1> QED
  BY <1>1, <1>5

(* What one more string does to the order.                                 *)
LEMMA AppendedBelow ==
  ASSUME NEW w \in Seq(Chars), NEW s \in Chars, NEW A \in Seq(Chars), NEW p \in Nat, NEW n \in Nat,
         p <= n, Below(w, A, p), \A i \in n + 1..Len(A) : Before(s, A[i])
  PROVE  Below(Append(w, s), A, n)
<1>1. PICK m \in Nat : m = Len(w)
  OBVIOUS
<1>2. PICK v : v = Append(w, s)
  OBVIOUS
<1>3. Len(v) = m + 1 /\ v[m + 1] = s /\ \A k \in 1..m : v[k] = w[k]
  BY <1>1, <1>2
<1>4. \A k \in 1..m + 1 : k \in 1..m \/ k = m + 1
  OBVIOUS
<1>5. \A i \in n + 1..Len(A) : i \in p + 1..Len(A)
  OBVIOUS
<1>6. Below(v, A, n)
  BY <1>1, <1>3, <1>4, <1>5 DEF Below
<1> QED
  BY <1>2, <1>6

LEMMA AppendedSorted ==
  ASSUME NEW w \in Seq(Chars), NEW s \in Chars, Sorted(w), \A k \in 1..Len(w) : Before(w[k], s)
  PROVE  Append(w, s) \in Seq(Chars) /\ Sorted(Append(w, s))
<1>1. PICK m \in Nat : m = Len(w)
  OBVIOUS
<1>2. PICK v : v = Append(w, s)
  OBVIOUS
<1>3. v \in Seq(Chars) /\ Len(v) = m + 1 /\ v[m + 1] = s /\ \A k \in 1..m : v[k] = w[k]
  BY <1>1, <1>2
<1>4. ASSUME NEW k \in 1..m PROVE Before(v[k], v[k + 1])
  <2>1. CASE k = m
    BY <1>1, <1>3, <2>1
  <2>2. CASE k # m
    <3>1. k \in 1..Len(w) - 1 /\ k + 1 \in 1..m
      BY <1>1, <2>2
    <3>2. Before(w[k], w[k + 1])
      BY <3>1 DEF Sorted
    <3> QED
      BY <1>3, <3>1, <3>2
  <2> QED
    BY <2>1, <2>2
<1>5. Sorted(v)
  BY <1>3, <1>4 DEF Sorted
<1> QED
  BY <1>2, <1>3, <1>5

(* A string of A that is before what is left of B.                         *)
LEMMA TakeOne ==
  ASSUME NEW A, NEW B, NEW p, NEW q, NEW w, Merged(A, B, p, q, w), p < Len(A),
         q < Len(B) => A[p + 1] # B[q + 1] /\ Before(A[p + 1], B[q + 1])
  PROVE  Merged(A, B, p + 1, q, Append(w, A[p + 1]))
<1>1. /\ A \in Seq(Chars) /\ B \in Seq(Chars) /\ w \in Seq(Chars)
      /\ Sorted(A) /\ Sorted(B) /\ Sorted(w)
      /\ p \in 0..Len(A) /\ q \in 0..Len(B)
      /\ Below(w, A, p) /\ Below(w, B, q)
  BY DEF Merged, Lists
<1>2. PICK n \in Nat : n = Len(A)
  BY <1>1
<1>3. PICK m \in Nat : m = Len(B)
  BY <1>1
<1>4. p \in Nat /\ q \in Nat /\ p + 1 \in 1..n /\ p + 1 \in 0..n
  BY <1>1, <1>2, <1>3
<1>5. PICK s \in Chars : s = A[p + 1]
  BY <1>1, <1>2, <1>4, ElementOfSeq
<1>6. PICK v : v = Append(w, s)
  OBVIOUS
<1>7. v \in Seq(Chars) /\ Sorted(v)
  <2>1. p + 1 \in p + 1..Len(A)
    BY <1>2, <1>4
  <2>2. \A k \in 1..Len(w) : Before(w[k], s)
    BY <1>1, <1>5, <2>1 DEF Below
  <2> QED
    BY <1>1, <1>6, <2>2, AppendedSorted
<1>8. Below(v, A, p + 1)
  <2>1. ASSUME NEW i \in (p + 1) + 1..Len(A) PROVE Before(s, A[i])
    <3>1. i \in 1..n /\ p + 1 <= i
      BY <1>2, <1>4
    <3> QED
      BY <1>1, <1>2, <1>4, <1>5, <3>1, SortedAscends
  <2>2. p <= p + 1 /\ p + 1 \in Nat
    BY <1>4
  <2> QED
    BY <1>1, <1>4, <1>6, <2>1, <2>2, AppendedBelow
<1>9. Below(v, B, q)
  <2>1. ASSUME NEW i \in q + 1..Len(B) PROVE Before(s, B[i])
    <3>1. q + 1 \in 1..m /\ i \in 1..m /\ q + 1 <= i /\ q < m
      BY <1>3, <1>4
    <3>2. B[q + 1] \in Chars /\ B[i] \in Chars
      BY <1>1, <1>3, <3>1, ElementOfSeq
    <3>3. Before(B[q + 1], B[i])
      BY <1>1, <1>3, <3>1, SortedAscends
    <3>4. Before(s, B[q + 1])
      BY <1>3, <1>5, <3>1
    <3> QED
      BY <1>5, <3>2, <3>3, <3>4, BeforeThrough
  <2>2. q <= q
    BY <1>4
  <2> QED
    BY <1>1, <1>4, <1>6, <2>1, <2>2, AppendedBelow
<1>10. Times(s, B, q) <= Times(s, A, p)
  BY <1>2, <1>4, <1>5 DEF Merged, Ahead
<1>11. Counted(A, B, p + 1, q, v)
  <2> SUFFICES ASSUME NEW t
               PROVE  Occurs(t, v) = Max({Times(t, A, p + 1), Times(t, B, q)})
    BY DEF Counted
  <2>1. PICK x \in Nat : x = Times(t, A, p)
    BY <1>4, TimesIs
  <2>2. PICK y \in Nat : y = Times(t, B, q)
    BY <1>4, TimesIs
  <2>3. PICK z \in Nat : z = Times(t, A, p + 1)
    BY <1>4, TimesIs
  <2>4. Occurs(t, w) = IF x <= y THEN y ELSE x
    BY <2>1, <2>2, HigherIs DEF Merged, Counted
  <2>5. Max({z, y}) = IF z <= y THEN y ELSE z
    BY HigherIs
  <2>6. CASE s = t
    <3>4. A[p + 1] = t
      BY <1>5, <2>6
    <3>1. z = x + 1
      BY <1>4, <2>1, <2>3, <3>4, TimesIs
    <3>2. Occurs(t, v) = Occurs(t, w) + 1
      BY <1>1, <1>6, <2>6, OccursIs
    <3>3. y <= x
      BY <1>10, <2>1, <2>2, <2>6
    <3> QED
      BY <2>2, <2>3, <2>4, <2>5, <3>1, <3>2, <3>3
  <2>7. CASE s # t
    <3>1. z = x
      BY <1>4, <1>5, <2>1, <2>3, <2>7, TimesIs
    <3>2. Occurs(t, v) = Occurs(t, w)
      BY <1>1, <1>6, <2>7, OccursIs
    <3> QED
      BY <2>2, <2>3, <2>4, <2>5, <3>1, <3>2
  <2> QED
    BY <2>6, <2>7
<1>12. Ahead(A, B, p + 1, q)
  <2> SUFFICES ASSUME p + 1 < n
               PROVE  Times(A[p + 2], B, q) <= Times(A[p + 2], A, p + 1)
    <3>1. (p + 1) + 1 = p + 2
      BY <1>4
    <3> QED
      BY <1>2, <3>1 DEF Ahead
  <2>1. PICK t : t = A[p + 2]
    OBVIOUS
  <2>2. Times(t, A, p + 1) \in Nat /\ Times(t, A, p) \in Nat /\ Times(t, B, q) \in Nat
    BY <1>4, TimesIs
  <2>3. CASE t = s
    <3>1. Times(t, A, p + 1) = Times(t, A, p) + 1
      BY <1>4, <1>5, <2>3, TimesIs
    <3> QED
      BY <1>10, <2>1, <2>2, <2>3, <3>1
  <2>4. CASE t # s
    <3>1. Times(t, B, q) = 0
      BY <1>2, <1>4, <1>5, <2>1, <2>4, NewInBoth
    <3> QED
      BY <2>1, <2>2, <3>1
  <2> QED
    BY <2>3, <2>4
<1>13. Ahead(B, A, q, p + 1)
  <2> SUFFICES ASSUME q < m
               PROVE  Times(B[q + 1], A, p + 1) <= Times(B[q + 1], B, q)
    BY <1>3 DEF Ahead
  <2>1. B[q + 1] # A[p + 1]
    BY <1>3
  <2>2. Times(B[q + 1], A, p + 1) = Times(B[q + 1], A, p)
    BY <1>4, <2>1, TimesIs
  <2>3. Times(B[q + 1], A, p) <= Times(B[q + 1], B, q)
    BY <1>3 DEF Merged, Ahead
  <2> QED
    BY <2>2, <2>3
<1>14. Lists(A, B, p + 1, q, v)
  BY <1>1, <1>2, <1>4, <1>7 DEF Lists
<1> QED
  BY <1>5, <1>6, <1>8, <1>9, <1>11, <1>12, <1>13, <1>14 DEF Merged

(* A string both lists are at.                                             *)
LEMMA TakeBoth ==
  ASSUME NEW A, NEW B, NEW p, NEW q, NEW w, Merged(A, B, p, q, w), p < Len(A), q < Len(B),
         A[p + 1] = B[q + 1]
  PROVE  Merged(A, B, p + 1, q + 1, Append(w, A[p + 1]))
<1>1. /\ A \in Seq(Chars) /\ B \in Seq(Chars) /\ w \in Seq(Chars)
      /\ Sorted(A) /\ Sorted(B) /\ Sorted(w)
      /\ p \in 0..Len(A) /\ q \in 0..Len(B)
      /\ Below(w, A, p) /\ Below(w, B, q)
  BY DEF Merged, Lists
<1>2. PICK n \in Nat : n = Len(A)
  BY <1>1
<1>3. PICK m \in Nat : m = Len(B)
  BY <1>1
<1>4. p \in Nat /\ q \in Nat /\ p + 1 \in 1..n /\ p + 1 \in 0..n /\ q + 1 \in 1..m /\ q + 1 \in 0..m
  BY <1>1, <1>2, <1>3
<1>5. PICK s \in Chars : s = A[p + 1]
  BY <1>1, <1>2, <1>4, ElementOfSeq
<1>6. PICK v : v = Append(w, s)
  OBVIOUS
<1>7. v \in Seq(Chars) /\ Sorted(v)
  <2>1. p + 1 \in p + 1..Len(A)
    BY <1>2, <1>4
  <2>2. \A k \in 1..Len(w) : Before(w[k], s)
    BY <1>1, <1>5, <2>1 DEF Below
  <2> QED
    BY <1>1, <1>6, <2>2, AppendedSorted
<1>8. Below(v, A, p + 1)
  <2>1. ASSUME NEW i \in (p + 1) + 1..Len(A) PROVE Before(s, A[i])
    <3>1. i \in 1..n /\ p + 1 <= i
      BY <1>2, <1>4
    <3> QED
      BY <1>1, <1>2, <1>4, <1>5, <3>1, SortedAscends
  <2>2. p <= p + 1 /\ p + 1 \in Nat
    BY <1>4
  <2> QED
    BY <1>1, <1>4, <1>6, <2>1, <2>2, AppendedBelow
<1>9. Below(v, B, q + 1)
  <2>1. ASSUME NEW i \in (q + 1) + 1..Len(B) PROVE Before(s, B[i])
    <3>1. i \in 1..m /\ q + 1 <= i
      BY <1>3, <1>4
    <3> QED
      BY <1>1, <1>3, <1>4, <1>5, <3>1, SortedAscends
  <2>2. q <= q + 1 /\ q + 1 \in Nat
    BY <1>4
  <2> QED
    BY <1>1, <1>4, <1>6, <2>1, <2>2, AppendedBelow
<1>11. Counted(A, B, p + 1, q + 1, v)
  <2> SUFFICES ASSUME NEW t
               PROVE  Occurs(t, v) = Max({Times(t, A, p + 1), Times(t, B, q + 1)})
    BY DEF Counted
  <2>1. PICK x \in Nat : x = Times(t, A, p)
    BY <1>4, TimesIs
  <2>2. PICK y \in Nat : y = Times(t, B, q)
    BY <1>4, TimesIs
  <2>3. PICK a \in Nat : a = Times(t, A, p + 1)
    BY <1>4, TimesIs
  <2>4. PICK b \in Nat : b = Times(t, B, q + 1)
    BY <1>4, TimesIs
  <2>5. Occurs(t, w) = IF x <= y THEN y ELSE x
    BY <2>1, <2>2, HigherIs DEF Merged, Counted
  <2>6. Max({a, b}) = IF a <= b THEN b ELSE a
    BY HigherIs
  <2>7. CASE s = t
    <3>4. A[p + 1] = t /\ B[q + 1] = t
      BY <1>5, <2>7
    <3>1. a = x + 1
      BY <1>4, <2>1, <2>3, <3>4, TimesIs
    <3>2. b = y + 1
      BY <1>4, <2>2, <2>4, <3>4, TimesIs
    <3>3. Occurs(t, v) = Occurs(t, w) + 1
      BY <1>1, <1>6, <2>7, OccursIs
    <3> QED
      BY <2>3, <2>4, <2>5, <2>6, <3>1, <3>2, <3>3
  <2>8. CASE s # t
    <3>1. a = x
      BY <1>4, <1>5, <2>1, <2>3, <2>8, TimesIs
    <3>2. b = y
      BY <1>4, <1>5, <2>2, <2>4, <2>8, TimesIs
    <3>3. Occurs(t, v) = Occurs(t, w)
      BY <1>1, <1>6, <2>8, OccursIs
    <3> QED
      BY <2>3, <2>4, <2>5, <2>6, <3>1, <3>2, <3>3
  <2> QED
    BY <2>7, <2>8
<1>12. Ahead(A, B, p + 1, q + 1)
  <2> SUFFICES ASSUME p + 1 < n
               PROVE  Times(A[p + 2], B, q + 1) <= Times(A[p + 2], A, p + 1)
    <3>1. (p + 1) + 1 = p + 2
      BY <1>4
    <3> QED
      BY <1>2, <3>1 DEF Ahead
  <2>1. PICK t : t = A[p + 2]
    OBVIOUS
  <2>2. /\ Times(t, A, p + 1) \in Nat /\ Times(t, A, p) \in Nat
        /\ Times(t, B, q + 1) \in Nat /\ Times(t, B, q) \in Nat
    BY <1>4, TimesIs
  <2>3. CASE t = s
    <3>1. Times(t, A, p + 1) = Times(t, A, p) + 1 /\ Times(t, B, q + 1) = Times(t, B, q) + 1
      BY <1>4, <1>5, <2>3, TimesIs
    <3>2. Times(t, B, q) <= Times(t, A, p)
      BY <1>2, <1>4, <1>5, <2>3 DEF Merged, Ahead
    <3> QED
      BY <2>1, <2>2, <3>1, <3>2
  <2>4. CASE t # s
    <3>1. Times(t, B, q) = 0
      BY <1>2, <1>4, <1>5, <2>1, <2>4, NewInBoth
    <3>2. Times(t, B, q + 1) = Times(t, B, q)
      BY <1>4, <1>5, <2>4, TimesIs
    <3> QED
      BY <2>1, <2>2, <3>1, <3>2
  <2> QED
    BY <2>3, <2>4
<1>13. Ahead(B, A, q + 1, p + 1)
  <2> SUFFICES ASSUME q + 1 < m
               PROVE  Times(B[q + 2], A, p + 1) <= Times(B[q + 2], B, q + 1)
    <3>1. (q + 1) + 1 = q + 2
      BY <1>4
    <3> QED
      BY <1>3, <3>1 DEF Ahead
  <2>1. PICK t : t = B[q + 2]
    OBVIOUS
  <2>2. /\ Times(t, A, p + 1) \in Nat /\ Times(t, A, p) \in Nat
        /\ Times(t, B, q + 1) \in Nat /\ Times(t, B, q) \in Nat
    BY <1>4, TimesIs
  <2>3. CASE t = s
    <3>1. Times(t, A, p + 1) = Times(t, A, p) + 1 /\ Times(t, B, q + 1) = Times(t, B, q) + 1
      BY <1>4, <1>5, <2>3, TimesIs
    <3>2. Times(t, A, p) <= Times(t, B, q)
      BY <1>3, <1>4, <1>5, <2>3 DEF Merged, Ahead
    <3> QED
      BY <2>1, <2>2, <3>1, <3>2
  <2>4. CASE t # s
    <3>1. Times(t, A, p) = 0
      <4>1. Merged(B, A, q, p, w)
        BY MergedTurned
      <4>2. B[q + 2] # B[q + 1] /\ q + 1 < Len(B)
        BY <1>3, <1>5, <2>1, <2>4
      <4> QED
        BY <1>4, <2>1, <4>1, <4>2, NewInBoth
    <3>2. Times(t, A, p + 1) = Times(t, A, p)
      BY <1>4, <1>5, <2>4, TimesIs
    <3> QED
      BY <2>1, <2>2, <3>1, <3>2
  <2> QED
    BY <2>3, <2>4
<1>14. Lists(A, B, p + 1, q + 1, v)
  BY <1>1, <1>2, <1>3, <1>4, <1>7 DEF Lists
<1> QED
  BY <1>5, <1>6, <1>8, <1>9, <1>11, <1>12, <1>13, <1>14 DEF Merged

-----------------------------------------------------------------------------
(* What a merge and a print have made of their lists so far.               *)

(* How many strings the iterator of x has returned and been called after.  *)
Got(x) == IF iter[x].ret = "current" THEN iter[x].i - 1 ELSE iter[x].i

LEMMA GotIs ==
  ASSUME ReaderInv, mode \in {"merge", "print"}, NEW x \in DOMAIN strings
  PROVE  /\ Got(x) \in 0..Len(strings[x]) /\ Len(strings[x]) \in Nat
         /\ iter[x].ret \in {"none", "current", "NULL"}
         /\ iter[x].ret = "none" => Got(x) = 0
         /\ iter[x].ret = "NULL" => Got(x) = Len(strings[x])
         /\ iter[x].ret = "current" =>
              /\ Got(x) < Len(strings[x])
              /\ CString(iter[x].inner.current) = strings[x][Got(x) + 1]
<1>1. IteratedAs(x, iter[x])
  BY DEF ReaderInv, Iterates2
<1>2. strings[x] \in Seq(Chars) /\ Pad \in Seq(Bytes) /\ Older \in BOOLEAN
  BY DEF ReaderInv, Stored, Older
<1>3. PICK n \in Nat : n = Len(strings[x])
  BY <1>2
<1>4. PICK i \in Nat : i = iter[x].i /\ i <= n
  BY <1>1, <1>3 DEF IteratedAs
<1>5. PICK ret : ret = iter[x].ret
  OBVIOUS
<1>6. /\ ret \in {"none", "current", "NULL"}
      /\ (ret = "none" => i = 0) /\ (ret = "current" => i # 0) /\ (ret = "NULL" => i = n)
      /\ InnerAt(FALSE, Older, strings[x], Pad, iter[x].inner, i)
  BY <1>1, <1>3, <1>4, <1>5 DEF IteratedAs
<1>7. Got(x) = IF ret = "current" THEN i - 1 ELSE i
  BY <1>4, <1>5 DEF Got
<1>8. ASSUME ret = "current" PROVE CString(iter[x].inner.current) = strings[x][Got(x) + 1]
  <2>1. PICK ss, inner : ss = strings[x] /\ inner = iter[x].inner
    OBVIOUS
  <2>2. i # 0 /\ ss \in Seq(Chars) /\ InnerAt(FALSE, Older, ss, Pad, inner, i)
    BY <1>2, <1>6, <1>8, <2>1
  <2>3. PICK fold \in BOOLEAN : fold = FALSE
    OBVIOUS
  <2>4. CString(inner.current) = ss[i]
    <3>2. InnerAt(fold, Older, ss, Pad, inner, i)
      BY <2>2, <2>3
    <3>1. CString(inner.current) = IF fold THEN Folded(ss[i]) ELSE ss[i]
      BY <1>2, <2>2, <3>2, InnerShows
    <3> QED
      BY <2>3, <3>1
  <2>5. Got(x) + 1 = i
    BY <1>7, <1>8
  <2> QED
    BY <2>1, <2>4, <2>5
<1> QED
  BY <1>3, <1>4, <1>5, <1>6, <1>7, <1>8

LEMMA GotMoves ==
  ASSUME ReaderInv, mode \in {"merge", "print"}, NEW S, iter' = Moved(S)
  PROVE  /\ \A x \in DOMAIN strings \ S : Got(x)' = Got(x) /\ iter'[x].ret = iter[x].ret
         /\ \A x \in DOMAIN strings \cap S :
              /\ iter'[x].ret \in {"current", "NULL"}
              /\ iter[x].ret = "current" => Got(x)' = Got(x) + 1
              /\ iter[x].ret # "current" => Got(x)' = Got(x)
<1>1. PICK next : next = iter'
  OBVIOUS
<1>2. /\ \A x \in DOMAIN strings \ S : next[x] = iter[x]
      /\ \A x \in DOMAIN strings \cap S :
           IF iter[x].i < Len(strings[x])
           THEN next[x].i = iter[x].i + 1 /\ next[x].ret = "current"
           ELSE next[x].i = iter[x].i /\ next[x].ret = "NULL"
  BY <1>1, MovedIs
<1>3. \A x \in DOMAIN strings \ S : Got(x)' = Got(x) /\ iter'[x].ret = iter[x].ret
  BY <1>1, <1>2 DEF Got
<1>4. ASSUME NEW x \in DOMAIN strings \cap S
      PROVE  /\ iter'[x].ret \in {"current", "NULL"}
             /\ iter[x].ret = "current" => Got(x)' = Got(x) + 1
             /\ iter[x].ret # "current" => Got(x)' = Got(x)
  <2>1. IteratedAs(x, iter[x]) /\ strings[x] \in Seq(Chars)
    BY DEF ReaderInv, Iterates2, Stored
  <2>2. PICK n \in Nat : n = Len(strings[x])
    BY <2>1
  <2>3. PICK i \in Nat : i = iter[x].i /\ i <= n
    BY <2>1, <2>2 DEF IteratedAs
  <2>4. Got(x)' = IF iter'[x].ret = "current" THEN iter'[x].i - 1 ELSE iter'[x].i
    BY DEF Got
  <2>5. Got(x) = IF iter[x].ret = "current" THEN i - 1 ELSE i
    BY <2>3 DEF Got
  <2>6. IF i < n THEN iter'[x].i = i + 1 /\ iter'[x].ret = "current"
        ELSE iter'[x].i = i /\ iter'[x].ret = "NULL"
    BY <1>1, <1>2, <2>2, <2>3
  <2> QED
    BY <2>3, <2>4, <2>5, <2>6
<1> QED
  BY <1>3, <1>4

MergeInv ==
  mode = "merge" =>
    /\ Merged(strings["a"], strings["b"], Got("a"), Got("b"), out)
    /\ iter["a"].ret = "none" <=> iter["b"].ret = "none"
    /\ done => iter["a"].ret = "NULL" /\ iter["b"].ret = "NULL"

LEMMA MergeStarts == Init => MergeInv
<1> SUFFICES ASSUME Init, mode = "merge"
             PROVE  /\ Merged(strings["a"], strings["b"], Got("a"), Got("b"), out)
                    /\ iter["a"].ret = "none" /\ iter["b"].ret = "none" /\ ~ done
  BY DEF MergeInv
<1>1. /\ Stored /\ iter = [x \in DOMAIN strings |-> hfc_iter_init]
      /\ out = <<>> /\ ~ done
      /\ \A x \in DOMAIN strings : Sorted(strings[x])
  BY StartIs
<1>2. "a" \in DOMAIN strings /\ "b" \in DOMAIN strings
  BY <1>1 DEF Stored
<1>3. iter["a"].i = 0 /\ iter["a"].ret = "none" /\ iter["b"].i = 0 /\ iter["b"].ret = "none"
  BY <1>1, <1>2 DEF hfc_iter_init
<1>4. Got("a") = 0 /\ Got("b") = 0
  BY <1>3 DEF Got
<1>5. strings["a"] \in Seq(Chars) /\ strings["b"] \in Seq(Chars)
  BY <1>1, <1>2 DEF Stored
<1>6. Merged(strings["a"], strings["b"], 0, 0, <<>>)
  BY <1>1, <1>2, <1>5, NothingMerged
<1> QED
  BY <1>1, <1>3, <1>4, <1>6

(* The cases of a merge: both lists at the same string, one list at the    *)
(* smaller one or at the only one, and the end.                            *)
LEMMA MergeStays ==
  ASSUME MergeInv, ReaderInv, [Next]_vars
  PROVE  MergeInv'
<1> USE DEF MergeInv
<1>1. CASE mode # "merge"
  <2>1. mode' = mode
    <3>1. CASE SearchHeader \/ SearchInner
      BY <3>1, SearchMoves
    <3>2. CASE (\E S : Moves(S)) \/ Rests
      BY <3>2 DEF Moves, Rests
    <3> QED
      BY <3>1, <3>2, StepsAre
  <2> QED
    BY <1>1, <2>1
<1>2. CASE mode = "merge"
  <2>1. /\ "a" \in DOMAIN strings /\ "b" \in DOMAIN strings /\ DOMAIN iter = {"a", "b"}
        /\ DOMAIN strings = {"a", "b"}
        /\ strings["a"] \in Seq(Chars) /\ strings["b"] \in Seq(Chars)
    BY <1>2 DEF ReaderInv, Stored
  <2>2. PICK A : A = strings["a"]
    OBVIOUS
  <2>3. PICK B : B = strings["b"]
    OBVIOUS
  <2>4. PICK p : p = Got("a")
    OBVIOUS
  <2>5. PICK q : q = Got("b")
    OBVIOUS
  <2>6. Merged(A, B, p, q, out)
    BY <1>2, <2>2, <2>3, <2>4, <2>5
  <2>7. /\ iter["a"].ret \in {"none", "current", "NULL"}
        /\ iter["a"].ret = "NULL" => p = Len(A)
        /\ iter["a"].ret = "current" => p < Len(A) /\ ba = A[p + 1]
    BY <1>2, <2>1, <2>2, <2>4, GotIs DEF ba
  <2>8. /\ iter["b"].ret \in {"none", "current", "NULL"}
        /\ iter["b"].ret = "NULL" => q = Len(B)
        /\ iter["b"].ret = "current" => q < Len(B) /\ bb = B[q + 1]
    BY <1>2, <2>1, <2>3, <2>5, GotIs DEF bb
  <2>9. iter["a"].ret = "none" <=> iter["b"].ret = "none"
    BY <1>2
  <2>10. p \in 0..Len(A) /\ q \in 0..Len(B) /\ Len(A) \in Nat /\ Len(B) \in Nat
    BY <1>2, <2>1, <2>2, <2>3, <2>4, <2>5, GotIs
  <2>11. iter["a"].ret = "current" => A[p + 1] \in Chars
    BY <2>1, <2>2, <2>7, <2>10, ElementOfSeq
  <2>12. iter["b"].ret = "current" => B[q + 1] \in Chars
    BY <2>1, <2>3, <2>8, <2>10, ElementOfSeq
  (* What is left to show of a step that moves the iterators in S.         *)
  <2>13. ASSUME NEW S, Moves(S),
                iter["a"].ret = "none" => "a" \in S /\ "b" \in S,
                NEW v, out' = v,
                Merged(A, B, IF "a" \in S /\ iter["a"].ret = "current" THEN p + 1 ELSE p,
                       IF "b" \in S /\ iter["b"].ret = "current" THEN q + 1 ELSE q, v),
                ~ done
         PROVE  MergeInv'
    <3>1. UNCHANGED <<mode, strings, done>> /\ iter' = Moved(S)
      BY <2>13 DEF Moves
    <3>2. /\ \A x \in DOMAIN strings \ S : Got(x)' = Got(x) /\ iter'[x].ret = iter[x].ret
          /\ \A x \in DOMAIN strings \cap S :
               /\ iter'[x].ret \in {"current", "NULL"}
               /\ iter[x].ret = "current" => Got(x)' = Got(x) + 1
               /\ iter[x].ret # "current" => Got(x)' = Got(x)
      BY <1>2, <3>1, GotMoves
    <3>3. Got("a")' = IF "a" \in S /\ iter["a"].ret = "current" THEN p + 1 ELSE p
      BY <2>1, <2>4, <3>2
    <3>4. Got("b")' = IF "b" \in S /\ iter["b"].ret = "current" THEN q + 1 ELSE q
      BY <2>1, <2>5, <3>2
    <3>5. iter'["a"].ret # "none" /\ iter'["b"].ret # "none"
      <4>1. CASE iter["a"].ret = "none"
        BY <2>1, <2>13, <3>2, <4>1
      <4>2. CASE iter["a"].ret # "none"
        BY <2>1, <2>9, <3>2, <4>2
      <4> QED
        BY <4>1, <4>2
    <3>6. Merged(strings["a"]', strings["b"]', Got("a")', Got("b")', out')
      BY <2>2, <2>3, <2>13, <3>1, <3>3, <3>4
    <3> QED
      BY <2>13, <3>1, <3>5, <3>6
  <2>14. CASE Start
    <3>1. Moves({"a", "b"}) /\ iter["a"].ret = "none" /\ out' = out
      BY <2>14 DEF Start, Moves
    <3>2. iter["b"].ret = "none" /\ ~ done
      BY <1>2, <2>9, <3>1
    <3> QED
      BY <2>6, <2>13, <3>1, <3>2
  <2>15. CASE MergeBoth
    <3>1. Moves({"a", "b"}) /\ ~ done /\ ba = bb /\ out' = Append(out, ba)
      BY <2>15 DEF MergeBoth, Merging, Moves
    <3>2. iter["a"].ret = "current" /\ iter["b"].ret = "current"
      BY <2>15 DEF MergeBoth, Merging
    <3>3. Merged(A, B, p + 1, q + 1, Append(out, A[p + 1]))
      BY <2>6, <2>7, <2>8, <3>1, <3>2, TakeBoth
    <3>4. PICK v : v = Append(out, A[p + 1])
      OBVIOUS
    <3>5. Merged(A, B, IF "a" \in {"a", "b"} /\ iter["a"].ret = "current" THEN p + 1 ELSE p,
                 IF "b" \in {"a", "b"} /\ iter["b"].ret = "current" THEN q + 1 ELSE q, v)
      BY <3>2, <3>3, <3>4
    <3>6. out' = v
      BY <2>7, <3>1, <3>2, <3>4
    <3> QED
      BY <2>13, <3>1, <3>2, <3>5, <3>6
  <2>16. CASE MergeA
    <3>1. Moves({"a"}) /\ ~ done /\ ba # bb /\ Before(ba, bb) /\ out' = Append(out, ba)
      BY <2>16 DEF MergeA, Merging, Moves
    <3>2. iter["a"].ret = "current" /\ iter["b"].ret = "current"
      BY <2>16 DEF MergeA, Merging
    <3>3. Merged(A, B, p + 1, q, Append(out, A[p + 1]))
      BY <2>6, <2>7, <2>8, <3>1, <3>2, TakeOne
    <3> QED
      BY <2>7, <2>13, <3>1, <3>2, <3>3
  <2>17. CASE MergeB
    <3>1. Moves({"b"}) /\ ~ done /\ ~ Before(ba, bb) /\ out' = Append(out, bb)
      BY <2>17 DEF MergeB, Merging, Moves
    <3>2. iter["a"].ret = "current" /\ iter["b"].ret = "current"
      BY <2>17 DEF MergeB, Merging
    <3>3. Merged(B, A, q, p, out)
      BY <2>6, MergedTurned
    <3>4. B[q + 1] # A[p + 1] /\ Before(B[q + 1], A[p + 1])
      <4>1. ~ Before(A[p + 1], B[q + 1])
        BY <2>7, <2>8, <3>1, <3>2
      <4> QED
        BY <2>11, <2>12, <3>2, <4>1, BeforeTotal, BeforeSelf
    <3>5. Merged(B, A, q + 1, p, Append(out, B[q + 1]))
      BY <2>8, <3>2, <3>3, <3>4, TakeOne
    <3>6. Merged(A, B, p, q + 1, Append(out, B[q + 1]))
      BY <3>5, MergedTurned
    <3> QED
      BY <2>8, <2>13, <3>1, <3>2, <3>6
  <2>18. CASE Merging({"a"}) /\ out' = Append(out, ba) /\ Moves({"a"})
    <3>1. ~ done /\ iter["a"].ret = "current" /\ iter["b"].ret # "current"
      BY <2>1, <2>18 DEF Merging
    <3>2. q = Len(B)
      BY <2>8, <2>9, <3>1
    <3>3. Merged(A, B, p + 1, q, Append(out, A[p + 1]))
      BY <2>6, <2>7, <2>10, <3>1, <3>2, TakeOne
    <3> QED
      BY <2>7, <2>13, <2>18, <3>1, <3>3
  <2>19. CASE Merging({"b"}) /\ out' = Append(out, bb) /\ Moves({"b"})
    <3>1. ~ done /\ iter["b"].ret = "current" /\ iter["a"].ret # "current"
      BY <2>1, <2>19 DEF Merging
    <3>2. p = Len(A)
      BY <2>7, <2>9, <3>1
    <3>3. Merged(B, A, q, p, out)
      BY <2>6, MergedTurned
    <3>4. Merged(B, A, q + 1, p, Append(out, B[q + 1]))
      BY <2>8, <2>10, <3>1, <3>2, <3>3, TakeOne
    <3>5. Merged(A, B, p, q + 1, Append(out, B[q + 1]))
      BY <3>4, MergedTurned
    <3> QED
      BY <2>8, <2>9, <2>13, <2>19, <3>1, <3>5
  <2>20. CASE Drain
    BY <2>18, <2>19, <2>20 DEF Drain, Moves, Merging
  <2>21. CASE MergeDone
    <3>1. /\ UNCHANGED <<mode, strings, iter, out>> /\ iter["a"].ret = "NULL"
          /\ iter["b"].ret # "current"
      BY <2>1, <2>21 DEF MergeDone, Merging
    <3>2. iter["b"].ret = "NULL"
      BY <2>8, <2>9, <3>1
    <3>3. Got("a")' = Got("a") /\ Got("b")' = Got("b")
      BY <3>1 DEF Got
    <3> QED
      BY <1>2, <3>1, <3>2, <3>3
  <2>22. CASE UNCHANGED vars
    <3>1. UNCHANGED <<mode, strings, iter, out, done>>
      BY <2>22 DEF vars
    <3>2. Got("a")' = Got("a") /\ Got("b")' = Got("b")
      BY <3>1 DEF Got
    <3> QED
      BY <1>2, <3>1, <3>2
  <2>23. ~ (SearchHeader \/ SearchInner \/ SearchDone \/ PrintFirst \/ PrintLine \/ PrintDone)
    BY <1>2 DEF SearchHeader, SearchInner, SearchDone, BinsLeft, Searching, PrintFirst, PrintLine, PrintDone
  <2> QED
    BY <2>14, <2>15, <2>16, <2>17, <2>20, <2>21, <2>22, <2>23 DEF Next
<1> QED
  BY <1>1, <1>2

LEMMA MergeInductive == Spec => []MergeInv
<1>1. MergeInv /\ ReaderInv /\ [Next]_vars => MergeInv'
  BY MergeStays
<1> QED
  BY <1>1, MergeStarts, ReaderInductive, PTL DEF Spec

(* What is merged ascends at every turn, and nothing still to come is      *)
(* before its last (hfc_merge_two): the qsort that follows has nothing to  *)
(* do.                                                                     *)
THEOREM MergesStaySorted == Spec => []StaysSorted
<1>1. MergeInv /\ ReaderInv => StaysSorted
  <2> SUFFICES ASSUME MergeInv, ReaderInv, mode = "merge"
               PROVE  /\ Sorted(out)
                      /\ out # <<>> => \A x \in DOMAIN iter :
                           iter[x].ret = "current" =>
                             Before(Last(out), CString(iter[x].inner.current))
    BY DEF StaysSorted
  <2>1. DOMAIN iter = {"a", "b"} /\ DOMAIN strings = {"a", "b"}
    BY DEF ReaderInv, Stored
  <2>2. /\ out \in Seq(Chars) /\ Sorted(out)
        /\ Below(out, strings["a"], Got("a")) /\ Below(out, strings["b"], Got("b"))
    BY DEF MergeInv, Merged, Lists
  <2>3. ASSUME out # <<>>, NEW x \in DOMAIN iter, iter[x].ret = "current"
        PROVE  Before(Last(out), CString(iter[x].inner.current))
    <3>1. PICK g : g = Got(x)
      OBVIOUS
    <3>2. PICK n \in Nat : n = Len(strings[x])
      BY <2>1, GotIs
    <3>3. /\ g \in 0..n /\ g < n
          /\ CString(iter[x].inner.current) = strings[x][g + 1]
      BY <2>1, <2>3, <3>1, <3>2, GotIs
    <3>4. Below(out, strings[x], g)
      BY <2>1, <2>2, <3>1
    <3>5. Len(out) \in 1..Len(out)
      BY <2>2, <2>3, EmptySeq
    <3>6. g + 1 \in g + 1..n
      BY <3>3
    <3>7. Before(out[Len(out)], strings[x][g + 1])
      BY <3>2, <3>4, <3>5, <3>6 DEF Below
    <3> QED
      BY <3>3, <3>7 DEF Last
  <2> QED
    BY <2>2, <2>3
<1> QED
  BY <1>1, MergeInductive, ReaderInductive, PTL

(* A finished merge holds each string as often as the list that has it     *)
(* more often (hfc_merge_two).                                             *)
THEOREM MergesAreUnions == Spec => []IsUnion
<1>1. MergeInv /\ ReaderInv => IsUnion
  <2> SUFFICES ASSUME MergeInv, ReaderInv, mode = "merge", done, NEW s
               PROVE  Occurs(s, out) = Max({Occurs(s, strings["a"]), Occurs(s, strings["b"])})
    BY DEF IsUnion
  <2>1. DOMAIN strings = {"a", "b"} /\ strings["a"] \in Seq(Chars) /\ strings["b"] \in Seq(Chars)
    BY DEF ReaderInv, Stored
  <2>2. iter["a"].ret = "NULL" /\ iter["b"].ret = "NULL"
    BY DEF MergeInv
  <2>3. Got("a") = Len(strings["a"]) /\ Got("b") = Len(strings["b"])
    BY <2>1, <2>2, GotIs
  <2>4. Occurs(s, out) =
          Max({Times(s, strings["a"], Len(strings["a"])), Times(s, strings["b"], Len(strings["b"]))})
    BY <2>3 DEF MergeInv, Merged, Counted
  <2>5. ASSUME NEW ss \in Seq(Chars) PROVE Occurs(s, ss) = Times(s, ss, Len(ss))
    <3>1. DOMAIN ss = 1..Len(ss)
      OBVIOUS
    <3> QED
      BY <3>1 DEF Occurs, Times
  <2> QED
    BY <2>1, <2>4, <2>5
<1> QED
  BY <1>1, MergeInductive, ReaderInductive, PTL

-----------------------------------------------------------------------------
(* The lines of a text that ends with a newline.                           *)

EndsLine == text # <<>> => Last(text) = Newline

LEMMA LineStartsAre ==
  ASSUME NEW lines \in Seq(Chars), text \in Seq(Letters), NEW u, Marks(u, text, lines),
         u[Len(lines)] = Len(text)
  PROVE  /\ LineStarts = {u[i - 1] + 1 : i \in 1..Len(lines)}
         /\ \A i \in 1..Len(lines) : LineFrom(u[i - 1] + 1) = lines[i]
         /\ \A i, k \in 1..Len(lines) : i < k => u[i - 1] + 1 < u[k - 1] + 1
<1>1. PICK n \in Nat : n = Len(lines)
  OBVIOUS
<1>2. PICK l \in Nat : l = Len(text) /\ DOMAIN text = 1..l
  BY LenProperties
<1>3. u[0] = 0 /\ u[n] = l /\ \A i \in 0..n : u[i] \in 0..l
  BY <1>1, <1>2 DEF Marks
<1>4. ASSUME NEW i \in 1..n
      PROVE  /\ lines[i] \in Chars /\ u[i] = u[i - 1] + Len(lines[i]) + 1 /\ text[u[i]] = Newline
             /\ \A h \in 1..Len(lines[i]) : text[u[i - 1] + h] = lines[i][h] /\ lines[i][h] # Newline
             /\ u[i - 1] \in 0..l /\ u[i] \in 1..l /\ u[i - 1] < u[i]
  <2>1. lines[i] \in Chars
    BY <1>1, ElementOfSeq
  <2>2. /\ u[i] = u[i - 1] + Len(lines[i]) + 1 /\ text[u[i]] = Newline
        /\ \A h \in 1..Len(lines[i]) : text[u[i - 1] + h] = lines[i][h] /\ lines[i][h] # Newline
    BY <1>1 DEF Marks
  <2>3. PICK m \in Nat : m = Len(lines[i])
    BY <2>1, CharsAre
  <2>4. PICK a \in Nat : a = u[i - 1] /\ a <= l
    <3>1. i - 1 \in 0..n
      OBVIOUS
    <3> QED
      BY <1>3, <3>1
  <2>5. PICK z \in Nat : z = u[i] /\ z <= l
    <3>1. i \in 0..n
      OBVIOUS
    <3> QED
      BY <1>3, <3>1
  <2>6. z = a + m + 1
    BY <2>2, <2>3, <2>4, <2>5
  <2> QED
    BY <2>1, <2>2, <2>4, <2>5, <2>6, SMTT(30)
<1>5. ASSUME NEW i \in 0..n, NEW k \in i..n PROVE i < k => u[i] < u[k]
  <2> DEFINE P == {h \in i..n : i < h => u[i] < u[h]}
  <2>1. i \in P
    OBVIOUS
  <2>2. ASSUME NEW h \in i..k - 1, h \in P PROVE h + 1 \in P
    <3>1. h + 1 \in 1..n /\ (h + 1) - 1 = h /\ h + 1 \in i..n /\ h \in 0..n
      OBVIOUS
    <3>2. u[h] < u[h + 1]
      BY <1>4, <3>1
    <3>3. u[i] \in Nat /\ u[h] \in Nat /\ u[h + 1] \in Nat
      <4>1. i \in 0..n /\ h \in 0..n /\ h + 1 \in 0..n
        BY <3>1
      <4> QED
        BY <1>3, <4>1
    <3>4. i < h \/ i = h
      OBVIOUS
    <3> QED
      BY <2>2, <3>1, <3>2, <3>3, <3>4
  <2>3. i..k \subseteq P
    <3> HIDE DEF P
    <3>1. i \in Int /\ k \in Int
      OBVIOUS
    <3> QED
      BY <2>1, <2>2, <3>1, IntervalIsInductive, Zenon
  <2>4. k \in i..k
    OBVIOUS
  <2> QED
    BY <2>3, <2>4
<1>6. ASSUME NEW h \in 1..l, text[h] = Newline
      PROVE  \E i \in 1..n : h = u[i]
  <2> DEFINE T == {i \in 0..n : u[i] >= h}
  <2>1. T \in SUBSET Nat /\ T # {}
    <3>1. n \in T
      BY <1>3
    <3> QED
      BY <3>1
  <2>2. PICK i \in T : \A k \in T : i <= k
    <3> HIDE DEF T
    <3> QED
      BY <2>1, Least
  <2>3. i \in 0..n /\ u[i] >= h
    OBVIOUS
  <2>4. i # 0
    BY <1>3, <2>3
  <2>5. i \in 1..n /\ i - 1 \in 0..n
    BY <2>3, <2>4
  <2>6. u[i - 1] < h
    <3>1. i - 1 \notin T
      <4>1. CASE i - 1 \in T
        <5>1. i <= i - 1
          <6> HIDE DEF T
          <6> QED
            BY <2>2, <4>1
        <5> QED
          BY <2>3, <5>1
      <4> QED
        BY <4>1
    <3>2. u[i - 1] \in Nat
      BY <1>3, <2>5
    <3> QED
      BY <2>5, <3>1, <3>2
  <2>7. PICK g \in 1..n : g = i
    BY <2>5
  <2>8. PICK s : s = lines[g]
    OBVIOUS
  <2>9. PICK m \in Nat : m = Len(s)
    BY <1>4, <2>8, CharsAre
  <2>10. PICK a \in Nat : a = u[g - 1]
    BY <1>3, <2>5, <2>7
  <2>12. u[g] = a + m + 1 /\ \A k \in 1..m : text[a + k] # Newline
    <3>1. /\ u[g] = u[g - 1] + Len(lines[g]) + 1
          /\ \A k \in 1..Len(lines[g]) :
               text[u[g - 1] + k] = lines[g][k] /\ lines[g][k] # Newline
      BY <1>4
    <3> QED
      BY <2>8, <2>9, <2>10, <3>1
  <2>13. a < h /\ h <= a + m + 1
    BY <2>3, <2>6, <2>7, <2>10, <2>12
  <2>11. CASE h # u[g]
    <3>1. PICK k : k = h - a
      OBVIOUS
    <3>2. k \in 1..m /\ a + k = h
      BY <2>11, <2>12, <2>13, <3>1
    <3> QED
      BY <1>6, <2>12, <3>2
  <2> QED
    BY <2>11
<1>7. \A i \in 1..n : u[i - 1] + 1 \in LineStarts
  <2>1. ASSUME NEW i \in 1..n PROVE u[i - 1] + 1 \in LineStarts
    <3>3. u[i - 1] \in 0..l /\ u[i] \in 1..l /\ u[i - 1] < u[i]
      BY <1>4
    <3>1. PICK a \in Nat : a = u[i - 1] /\ a + 1 \in 1..l
      BY <3>3
    <3>2. a + 1 = 1 \/ text[(a + 1) - 1] = Newline
      <4>1. CASE i = 1
        BY <1>3, <3>1, <4>1
      <4>2. CASE i # 1
        <5>1. i - 1 \in 1..n
          BY <4>2
        <5>2. text[u[i - 1]] = Newline
          BY <1>4, <5>1
        <5>3. (a + 1) - 1 = a
          BY <3>1
        <5> QED
          BY <3>1, <5>2, <5>3
      <4> QED
        BY <4>1, <4>2
    <3> QED
      BY <1>2, <3>1, <3>2 DEF LineStarts
  <2> QED
    BY <2>1
<1>8. ASSUME NEW k \in LineStarts PROVE \E i \in 1..n : k = u[i - 1] + 1
  <2>1. k \in 1..l /\ (k = 1 \/ text[k - 1] = Newline)
    BY <1>2 DEF LineStarts
  <2>2. CASE k = 1
    <3>1. n # 0
      BY <1>3, <2>1
    <3>2. 1 \in 1..n /\ u[1 - 1] + 1 = 1
      BY <1>3, <3>1
    <3> QED
      BY <2>2, <3>2
  <2>3. CASE k # 1
    <3>1. k - 1 \in 1..l /\ text[k - 1] = Newline
      BY <2>1, <2>3
    <3>2. PICK i \in 1..n : k - 1 = u[i]
      BY <1>6, <3>1
    <3>3. i # n
      BY <1>3, <2>1, <3>2
    <3>4. i + 1 \in 1..n /\ (i + 1) - 1 = i /\ k = u[i] + 1
      BY <2>1, <3>2, <3>3
    <3> QED
      BY <3>4
  <2> QED
    BY <2>2, <2>3
<1>9. LineStarts = {u[i - 1] + 1 : i \in 1..n}
  BY <1>7, <1>8
<1>10. ASSUME NEW i \in 1..n PROVE LineFrom(u[i - 1] + 1) = lines[i]
  <2>1. PICK s \in Chars : s = lines[i]
    BY <1>4
  <2>2. PICK m \in Nat : m = Len(s)
    BY <2>1, CharsAre
  <2>3. PICK a \in Nat : a = u[i - 1]
    BY <1>4, SMTT(30)
  <2>4. /\ a + m + 1 \in 1..l /\ text[a + m + 1] = Newline
        /\ \A h \in 1..m : text[a + h] = s[h] /\ s[h] # Newline
    BY <1>4, <2>1, <2>2, <2>3
  <2> DEFINE T == {h \in (a + 1) - 1..l : h = l \/ text[h + 1] = Newline}
  <2>5. Min(T) = a + m
    <3>1. T \in SUBSET Nat
      BY <2>3
    <3>2. a + m \in T
      BY <2>2, <2>3, <2>4
    <3>3. ASSUME NEW h \in T PROVE a + m <= h
      <4>1. h \in a..l /\ (h = l \/ text[h + 1] = Newline)
        OBVIOUS
      <4>2. CASE h < a + m
        <5>1. (h + 1) - a \in 1..m /\ a + ((h + 1) - a) = h + 1
          BY <4>1, <4>2
        <5>2. text[h + 1] # Newline
          BY <2>4, <5>1
        <5> QED
          BY <2>4, <4>1, <4>2, <5>2
      <4> QED
        BY <4>1, <4>2
    <3>4. PICK e : e = a + m
      OBVIOUS
    <3> HIDE DEF T
    <3>5. e \in T /\ \A h \in T : e <= h
      BY <3>2, <3>3, <3>4
    <3> QED
      BY <3>1, <3>4, <3>5, Lowest
  <2>6. LineFrom(a + 1) = SubSeq(text, a + 1, Min(T))
    BY <1>2 DEF LineFrom
  <2>7. SubSeq(text, a + 1, a + m) = s
    <3>1. PICK t \in Seq(Letters) : t = text
      OBVIOUS
    <3>2. s \in Seq(Letters)
      BY CharsAre, SeqMonotonic DEF Letters
    <3>3. PICK c \in Nat : c = a + 1
      OBVIOUS
    <3>4. ASSUME NEW h \in 1..m PROVE t[c + h - 1] = s[h]
      <4>1. c + h - 1 = a + h
        BY <3>3
      <4> QED
        BY <2>4, <3>1, <4>1
    <3>5. IsAt(t, c, s)
      BY <1>2, <2>2, <2>4, <3>1, <3>3, <3>4 DEF IsAt
    <3>6. SubSeq(t, c, c + Len(s) - 1) = s
      BY <3>2, <3>5, SubSeqAt
    <3>7. c + Len(s) - 1 = a + m
      BY <2>2, <3>3
    <3> QED
      BY <3>1, <3>3, <3>6, <3>7
  <2> QED
    BY <2>1, <2>3, <2>5, <2>6, <2>7
<1>11. ASSUME NEW i \in 1..n, NEW k \in 1..n, i < k PROVE u[i - 1] + 1 < u[k - 1] + 1
  <2>1. i - 1 \in 0..n /\ k - 1 \in i - 1..n /\ i - 1 < k - 1 /\ k - 1 \in 0..n
    BY <1>11
  <2>2. u[i - 1] < u[k - 1] /\ u[i - 1] \in Nat /\ u[k - 1] \in Nat
    BY <1>3, <1>5, <2>1
  <2> QED
    BY <2>2
<1> QED
  BY <1>1, <1>9, <1>10, <1>11

LEMMA LinesCounted ==
  ASSUME NEW ss, NEW lines, NEW u, NEW tail, Lined(text, ss, lines, u, tail), EndsLine
  PROVE  \A s \in Range(ss) \cup {LineFrom(k) : k \in LineStarts} :
           Occurs(s, ss) = Cardinality({k \in LineStarts : LineFrom(k) = s})
<1>1. /\ lines \in Seq(Chars) /\ text \in Seq(Letters) /\ Marks(u, text, lines)
      /\ Range(ss) \subseteq Range(lines)
      /\ \A s \in Range(lines) : Occurs(s, ss) = Occurs(s, lines)
  BY DEF Lined
<1>2. PICK n \in Nat : n = Len(lines) /\ DOMAIN lines = 1..n
  BY <1>1, LenProperties
<1>3. PICK l \in Nat : l = Len(text)
  BY <1>1
<1>4. u[n] \in 0..l /\ \A h \in u[n] + 1..l : text[h] # Newline
  BY <1>2, <1>3 DEF Lined, Marks
<1>5. u[n] = l
  <2>1. CASE u[n] # l
    <3>1. l # 0 /\ l \in u[n] + 1..l
      BY <1>4, <2>1
    <3>2. text # <<>>
      BY <1>3, <3>1, EmptySeq
    <3>3. text[l] = Newline
      BY <1>3, <3>2 DEF EndsLine, Last
    <3> QED
      BY <1>4, <3>1, <3>3
  <2> QED
    BY <2>1
<1>6. /\ LineStarts = {u[i - 1] + 1 : i \in 1..n}
      /\ \A i \in 1..n : LineFrom(u[i - 1] + 1) = lines[i]
      /\ \A i, k \in 1..n : i < k => u[i - 1] + 1 < u[k - 1] + 1
  BY <1>1, <1>2, <1>3, <1>5, LineStartsAre
<1>7. ASSUME NEW s \in Range(lines)
      PROVE  Occurs(s, lines) = Cardinality({k \in LineStarts : LineFrom(k) = s})
  <2>1. PICK S : S = {i \in 1..n : lines[i] = s}
    OBVIOUS
  <2>2. PICK T : T = {k \in LineStarts : LineFrom(k) = s}
    OBVIOUS
  <2>3. PICK f : f = [i \in S |-> u[i - 1] + 1]
    OBVIOUS
  <2>4. IsFiniteSet(S)
    <3>1. S \subseteq 1..n /\ IsFiniteSet(1..n)
      BY <2>1, FS_Interval
    <3> QED
      BY <3>1, FS_Subset
  <2>5. f \in [S -> T]
    BY <1>6, <2>1, <2>2, <2>3
  <2>6. ASSUME NEW i \in S, NEW k \in S, f[i] = f[k] PROVE i = k
    <3>1. i \in 1..n /\ k \in 1..n
      BY <2>1
    <3>2. f[i] = u[i - 1] + 1 /\ f[k] = u[k - 1] + 1
      BY <2>3
    <3>3. PICK a \in Nat, b \in Nat : a = u[i - 1] + 1 /\ b = u[k - 1] + 1
      <4>1. i - 1 \in 0..n /\ k - 1 \in 0..n
        BY <3>1
      <4>2. u[i - 1] \in Nat /\ u[k - 1] \in Nat
        BY <1>1, <1>2, <1>3, <4>1 DEF Marks
      <4> QED
        BY <4>2
    <3>5. a = b
      BY <2>6, <3>2, <3>3
    <3>6. (i < k => a < b) /\ (k < i => b < a)
      BY <1>6, <3>1, <3>3
    <3>4. ~ (i < k) /\ ~ (k < i)
      BY <3>3, <3>5, <3>6
    <3> QED
      BY <3>1, <3>4
  <2>7. ASSUME NEW k \in T PROVE \E i \in S : f[i] = k
    <3>1. k \in LineStarts /\ LineFrom(k) = s
      BY <2>2
    <3>2. PICK i \in 1..n : k = u[i - 1] + 1
      BY <1>6, <3>1
    <3>3. i \in S
      BY <1>6, <2>1, <3>1, <3>2
    <3> QED
      BY <2>3, <3>2, <3>3
  <2>8. f \in Bijection(S, T)
    BY <2>5, <2>6, <2>7 DEF Bijection, Injection, Surjection, IsInjective
  <2>9. ExistsBijection(S, T)
    BY <2>8 DEF ExistsBijection
  <2>10. Cardinality(T) = Cardinality(S)
    BY <2>4, <2>9, FS_Bijection
  <2> QED
    BY <1>2, <2>1, <2>2, <2>10 DEF Occurs
<1>8. ASSUME NEW k \in LineStarts PROVE LineFrom(k) \in Range(lines)
  <2>1. PICK i \in 1..n : k = u[i - 1] + 1
    BY <1>6
  <2>2. LineFrom(k) = lines[i]
    BY <1>6, <2>1
  <2> QED
    BY <1>2, <2>2 DEF Range
<1>9. ASSUME NEW s \in Range(ss) \cup {LineFrom(k) : k \in LineStarts}
      PROVE  s \in Range(lines)
  BY <1>1, <1>8
<1> QED
  BY <1>1, <1>7, <1>9

PrintInv ==
  mode = "print" =>
    /\ out = SubSeq(List, 1, Got("a")) /\ (done => iter["a"].ret = "NULL")
    /\ Sorted(List) /\ \E lines, u, tail : Lined(text, List, lines, u, tail)

LEMMA PrintStarts == Init => PrintInv
<1> SUFFICES ASSUME Init, mode = "print" PROVE PrintInv
  BY DEF PrintInv
<1>1. /\ Stored /\ iter = [x \in DOMAIN strings |-> hfc_iter_init]
      /\ out = <<>> /\ ~ done
      /\ \A x \in DOMAIN strings : Sorted(strings[x])
      /\ \E lines, u, tail : Lined(text, List, lines, u, tail)
  BY StartIs
<1>2. "a" \in DOMAIN strings
  BY <1>1 DEF Stored
<1>3. iter["a"].i = 0 /\ iter["a"].ret = "none"
  BY <1>1, <1>2 DEF hfc_iter_init
<1>4. Got("a") = 0
  BY <1>3 DEF Got
<1>5. SubSeq(List, 1, 0) = <<>>
  BY SubSeqEmpty
<1> QED
  BY <1>1, <1>2, <1>4, <1>5 DEF PrintInv, List

LEMMA PrintStays ==
  ASSUME PrintInv, ReaderInv, [Next]_vars
  PROVE  PrintInv'
<1>1. CASE mode # "print"
  <2>1. mode' = mode
    <3>1. CASE SearchHeader \/ SearchInner
      BY <3>1, SearchMoves
    <3>2. CASE (\E S : Moves(S)) \/ Rests
      BY <3>2 DEF Moves, Rests
    <3> QED
      BY <3>1, <3>2, StepsAre
  <2> QED
    BY <1>1, <2>1 DEF PrintInv
<1>2. CASE mode = "print"
  <2>1. DOMAIN strings = {"a"} /\ DOMAIN iter = {"a"} /\ List \in Seq(Chars)
    BY <1>2, StoredIs DEF ReaderInv, Stored
  <2>2. PICK p : p = Got("a")
    OBVIOUS
  <2>3. PICK n \in Nat : n = Len(List)
    BY <2>1
  <2>4. /\ p \in 0..n
        /\ iter["a"].ret = "none" => p = 0
        /\ iter["a"].ret = "current" => p < n /\ ba = List[p + 1]
    BY <1>2, <2>1, <2>2, <2>3, GotIs DEF ba, List
  <2>5. /\ out = SubSeq(List, 1, p) /\ (done => iter["a"].ret = "NULL")
        /\ Sorted(List) /\ \E lines, u, tail : Lined(text, List, lines, u, tail)
    BY <1>2, <2>2 DEF PrintInv
  <2>6. ASSUME UNCHANGED <<mode, text, strings>>, out' = SubSeq(List, 1, Got("a")'),
               done' => iter'["a"].ret = "NULL"
        PROVE  PrintInv'
    <3>1. List' = List
      BY <2>6 DEF List
    <3> QED
      BY <2>5, <2>6, <3>1 DEF PrintInv
  <2>7. CASE PrintFirst
    <3>1. /\ UNCHANGED <<mode, text, strings, out, done>> /\ iter["a"].ret = "none"
          /\ iter' = Moved({"a"})
      BY <2>7 DEF PrintFirst
    <3>2. Got("a")' = p
      BY <1>2, <2>1, <2>2, <3>1, GotMoves
    <3> QED
      BY <2>5, <2>6, <3>1, <3>2
  <2>8. CASE PrintLine
    <3>1. /\ UNCHANGED <<mode, text, strings, done>> /\ iter["a"].ret = "current"
          /\ iter' = Moved({"a"}) /\ out' = Append(out, ba)
      BY <2>8 DEF PrintLine
    <3>2. Got("a")' = p + 1
      BY <1>2, <2>1, <2>2, <3>1, GotMoves
    <3>3. p \in Nat /\ p + 1 \in 1..n /\ ba = List[p + 1]
      BY <2>3, <2>4, <3>1
    <3>4. SubSeq(List, 1, p + 1) = Append(SubSeq(List, 1, p), List[p + 1])
      <4>1. 1 \in 1..n /\ 1 <= p + 1
        BY <3>3
      <4>2. SubSeq(List, 1, p + 1) = SubSeq(List, 1, (p + 1) - 1) \o <<List[p + 1]>>
        BY <2>1, <2>3, <3>3, <4>1, SubSeqRecursiveSecond
      <4>3. SubSeq(List, 1, p) \in Seq(Chars)
        <5>1. 1 \in Int /\ p \in Int /\ \A i \in 1..p : List[i] \in Chars
          <6>1. \A i \in 1..p : i \in 1..n
            BY <3>3
          <6> QED
            BY <2>1, <2>3, <3>3, <6>1, ElementOfSeq
        <5> QED
          BY <5>1, SubSeqProperties
      <4>4. List[p + 1] \in Chars /\ (p + 1) - 1 = p
        BY <2>1, <2>3, <3>3, ElementOfSeq
      <4> QED
        BY <4>2, <4>3, <4>4, AppendIsConcat
    <3>5. ~ done
      BY <2>5, <3>1
    <3> QED
      BY <2>5, <2>6, <3>1, <3>2, <3>3, <3>4, <3>5
  <2>9. CASE Rests /\ (done' # done => PrintDone)
    <3>1. UNCHANGED <<mode, text, strings, iter, out>>
      BY <2>9 DEF Rests
    <3>2. Got("a")' = p
      BY <2>2, <3>1 DEF Got
    <3>3. done' => iter'["a"].ret = "NULL"
      BY <2>5, <2>9, <3>1 DEF PrintDone
    <3> QED
      BY <2>5, <2>6, <3>1, <3>2, <3>3
  <2>10. CASE PrintDone \/ UNCHANGED vars
    BY <2>9, <2>10 DEF PrintDone, vars, Rests
  <2>11. ~ (SearchHeader \/ SearchInner \/ SearchDone \/ Start \/ MergeBoth \/ MergeA \/ MergeB
            \/ Drain \/ MergeDone)
    BY <1>2 DEF SearchHeader, SearchInner, SearchDone, BinsLeft, Searching, Start, MergeBoth,
                MergeA, MergeB, Drain, MergeDone, Merging
  <2> QED
    BY <2>7, <2>8, <2>10, <2>11 DEF Next
<1> QED
  BY <1>1, <1>2

(* What hfcz -u prints of what hfcz made of a text that ends with a        *)
(* newline, or is empty, are the lines of the text, in order (decompress   *)
(* of hfcz.c and htfcz.c).                                                 *)
THEOREM PrintsWholeTexts == Spec => [](EndsLine => PrintsLines)
<1>1. PrintInv /\ [Next]_vars /\ ReaderInv => PrintInv'
  BY PrintStays
<1>2. PrintInv /\ ReaderInv => (EndsLine => PrintsLines)
  <2> SUFFICES ASSUME PrintInv, ReaderInv, EndsLine, done, mode = "print"
               PROVE  /\ Sorted(out)
                      /\ \A s \in Range(out) \cup {LineFrom(k) : k \in LineStarts} :
                           Occurs(s, out) = Cardinality({k \in LineStarts : LineFrom(k) = s})
    BY DEF PrintsLines
  <2>1. "a" \in DOMAIN strings /\ List \in Seq(Chars)
    BY StoredIs DEF ReaderInv
  <2>2. out = SubSeq(List, 1, Got("a")) /\ iter["a"].ret = "NULL" /\ Sorted(List)
    BY DEF PrintInv
  <2>3. Got("a") = Len(List)
    BY <2>1, <2>2, GotIs DEF List
  <2>4. out = List
    BY <2>1, <2>2, <2>3, SubSeqFull
  <2>5. PICK lines, u, tail : Lined(text, List, lines, u, tail)
    BY DEF PrintInv
  <2> QED
    BY <2>2, <2>4, <2>5, LinesCounted
<1> QED
  BY <1>1, <1>2, PrintStarts, ReaderInductive, PTL DEF Spec
=============================================================================
