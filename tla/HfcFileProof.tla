---------------------------- MODULE HfcFileProof ----------------------------
(***************************************************************************)
(* For every code and all bins: what is packed is the codes one after the  *)
(* other, whoever reads the file finds each part of it where it is, and    *)
(* the bins are decoded as they went in; of older files too.               *)
(***************************************************************************)
EXTENDS HtfcFile, Induction

-----------------------------------------------------------------------------
(* Bits.                                                                   *)

Bit == {0, 1}
Word64 == [1..WordBits -> Bit]
Byte8 == [1..ByteBits -> Bit]

LEMMA Sizes ==
  /\ WordBits \in Nat /\ ByteBits \in Nat \ {0}
  /\ \A n \in 1..WordBits - ByteBits : n + ByteBits <= WordBits
  /\ ByteBits <= WordBits
<1>1. WordBits \in Nat \ {0} /\ ByteBits \in Nat \ {0} /\ WordBits % ByteBits = 0
  BY PackerAssumption
<1>2. PICK q \in Nat : WordBits = ByteBits * q
  <2>1. WordBits = ByteBits * (WordBits \div ByteBits) + (WordBits % ByteBits)
        /\ WordBits \div ByteBits \in Nat
    BY <1>1, Division
  <2>2. PICK q \in Nat : q = WordBits \div ByteBits
    BY <2>1
  <2>3. ByteBits * q \in Nat
    BY <1>1
  <2> QED
    BY <1>1, <2>1, <2>2, <2>3
<1>3. q # 0
  BY <1>1, <1>2
<1>4. ByteBits <= ByteBits * q
  BY <1>1, <1>2, <1>3
<1> QED
  BY <1>1, <1>2, <1>4

IsHalves(f, x) == f = [j \in 0..WordBits |-> IF j = 0 THEN x ELSE f[j - 1] \div 2]

LEMMA HalvesAre ==
  ASSUME NEW x \in Nat
  PROVE  /\ Halves(x) \in [0..WordBits -> Nat]
         /\ Halves(x)[0] = x
         /\ \A j \in 1..WordBits : Halves(x)[j] = Halves(x)[j - 1] \div 2
<1> DEFINE g == [j \in Nat |-> [v \in Nat |-> v \div 2]]
<1>1. g \in [Nat -> [Nat -> Nat]]
  OBVIOUS
<1>2. PICK w \in [0..WordBits -> Nat] : w[0] = x /\ \A j \in 1..WordBits : w[j] = g[j][w[j - 1]]
  <2> HIDE DEF g
  <2>1. PICK f : Iterates(f, Nat, x, g, WordBits)
    BY <1>1, Sizes, Recursion, Zenon
  <2> QED
    BY <2>1 DEF Iterates
<1>3. \A j \in 1..WordBits : w[j] = w[j - 1] \div 2
  <2>1. \A j \in 1..WordBits : j \in Nat /\ w[j - 1] \in Nat
    BY Sizes
  <2> QED
    BY <1>2, <2>1
<1>4. IsHalves(w, x)
  <2> DEFINE u == [j \in 0..WordBits |-> IF j = 0 THEN x ELSE w[j - 1] \div 2]
  <2>1. \A j \in 0..WordBits : w[j] = u[j]
    BY <1>2, <1>3, Sizes
  <2> HIDE DEF u
  <2>2. w = u
    BY <2>1 DEF u
  <2> QED
    BY <2>2 DEF IsHalves, u
<1>5. IsHalves(Halves(x), x)
  <2>1. Halves(x) = CHOOSE f : IsHalves(f, x)
    BY Zenon DEF Halves, IsHalves
  <2> QED
    BY <1>4, <2>1, Zenon
<1>6. PICK f : f = Halves(x)
  OBVIOUS
<1>7. f = [j \in 0..WordBits |-> IF j = 0 THEN x ELSE f[j - 1] \div 2]
  BY <1>5, <1>6 DEF IsHalves
<1>8. f[0] = x /\ \A j \in 1..WordBits : f[j] = f[j - 1] \div 2
  <2>1. 0 \in 0..WordBits /\ \A j \in 1..WordBits : j \in 0..WordBits /\ j # 0
    BY Sizes
  <2> QED
    BY <1>7, <2>1
<1>9. f = [j \in 0..WordBits |-> f[j]]
  BY <1>7
<1>10. \A j \in 1..WordBits : f[j - 1] \in Nat => f[j] = g[j][f[j - 1]]
  BY <1>8
<1>11. Iterates(f, Nat, x, g, WordBits)
  <2> HIDE DEF g
  <2> QED
    BY <1>1, <1>8, <1>9, <1>10, Sizes, IsIterated
<1> QED
  BY <1>6, <1>8, <1>11 DEF Iterates

LEMMA BitsAre ==
  ASSUME NEW x \in Nat
  PROVE  Bits(x) \in Word64 /\ \A j \in 1..WordBits : Bits(x)[j] = Halves(x)[WordBits - j] % 2
<1>1. ASSUME NEW j \in 1..WordBits PROVE Halves(x)[WordBits - j] % 2 \in Bit
  <2>1. WordBits - j \in 0..WordBits
    BY Sizes
  <2>2. Halves(x)[WordBits - j] \in Nat
    BY <2>1, HalvesAre
  <2> QED
    BY <2>2 DEF Bit
<1> QED
  BY <1>1 DEF Bits, Word64

LEMMA WordIsSeq ==
  ASSUME NEW n \in Nat, NEW S, NEW w
  PROVE  w \in [1..n -> S] <=> w \in Seq(S) /\ Len(w) = n
<1>1. ASSUME w \in [1..n -> S] PROVE w \in Seq(S) /\ Len(w) = n
  BY <1>1
<1>2. ASSUME w \in Seq(S), Len(w) = n PROVE w \in [1..n -> S]
  BY <1>2, LenProperties
<1> QED
  BY <1>1, <1>2

LEMMA ZerosAre ==
  ASSUME NEW n \in Nat
  PROVE  /\ Zeros(n) \in [1..n -> Bit] /\ Zeros(n) \in Seq(Bit) /\ Len(Zeros(n)) = n
         /\ \A j \in 1..n : Zeros(n)[j] = 0
<1>1. Zeros(n) \in [1..n -> Bit] /\ \A j \in 1..n : Zeros(n)[j] = 0
  BY DEF Zeros, Bit
<1>2. Zeros(n) \in Seq(Bit) /\ Len(Zeros(n)) = n
  BY <1>1, WordIsSeq
<1> QED
  BY <1>1, <1>2

(* A slice of a word, or of a sequence.                                    *)
LEMMA SliceIs ==
  ASSUME NEW S, NEW w \in Seq(S), NEW a \in Nat, NEW b \in Nat, a <= b, b <= Len(w)
  PROVE  /\ SubSeq(w, a + 1, b) \in Seq(S) /\ Len(SubSeq(w, a + 1, b)) = b - a
         /\ \A j \in 1..b - a : SubSeq(w, a + 1, b)[j] = w[a + j]
<1>1. a + 1 \in Int /\ b \in Int /\ \A j \in a + 1..b : w[j] \in S
  OBVIOUS
<1>2. PICK v : v = SubSeq(w, a + 1, b)
  OBVIOUS
<1>3. /\ v \in Seq(S) /\ Len(v) = IF a + 1 <= b THEN b - (a + 1) + 1 ELSE 0
      /\ \A j \in 1..b - (a + 1) + 1 : v[j] = w[(a + 1) + j - 1]
  BY <1>1, <1>2, SubSeqProperties
<1>4. Len(v) = b - a
  BY <1>3
<1>5. ASSUME NEW j \in 1..b - a PROVE v[j] = w[a + j]
  <2>1. j \in 1..b - (a + 1) + 1 /\ (a + 1) + j - 1 = a + j
    OBVIOUS
  <2> QED
    BY <1>3, <2>1
<1> QED
  BY <1>2, <1>3, <1>4, <1>5

LEMMA ShiftedIs ==
  ASSUME NEW x \in Nat, NEW s \in 0..WordBits
  PROVE  /\ Shifted(x, s) \in Word64
         /\ \A j \in 1..WordBits :
              Shifted(x, s)[j] = IF j + s <= WordBits THEN Bits(x)[j + s] ELSE 0
<1>1. PICK w \in Seq(Bit), z \in Seq(Bit) : w = SubSeq(Bits(x), s + 1, WordBits) /\ z = Zeros(s)
  <2>1. Bits(x) \in Seq(Bit) /\ Len(Bits(x)) = WordBits
    BY BitsAre, WordIsSeq, Sizes DEF Word64
  <2>2. s \in Nat /\ WordBits \in Nat /\ s <= WordBits
    BY Sizes
  <2>3. SubSeq(Bits(x), s + 1, WordBits) \in Seq(Bit)
    BY <2>1, <2>2, SliceIs
  <2>4. Zeros(s) \in Seq(Bit)
    BY <2>2, ZerosAre
  <2> QED
    BY <2>3, <2>4, Zenon
<1>2. Len(w) = WordBits - s /\ \A j \in 1..WordBits - s : w[j] = Bits(x)[s + j]
  <2>1. Bits(x) \in Seq(Bit) /\ Len(Bits(x)) = WordBits
    BY BitsAre, WordIsSeq, Sizes DEF Word64
  <2>2. s \in Nat /\ WordBits \in Nat /\ s <= WordBits
    BY Sizes
  <2> QED
    BY <1>1, <2>1, <2>2, SliceIs
<1>3. Len(z) = s /\ \A j \in 1..s : z[j] = 0
  BY <1>1, Sizes, ZerosAre
<1>4. PICK v : v = w \o z
  OBVIOUS
<1>5. /\ v \in Seq(Bit) /\ Len(v) = WordBits
      /\ \A j \in 1..WordBits : v[j] = IF j <= WordBits - s THEN w[j] ELSE z[j - (WordBits - s)]
  <2>1. PICK m \in Nat : m = WordBits - s /\ m + s = WordBits
    BY Sizes
  <2>2. /\ v \in Seq(Bit) /\ Len(v) = Len(w) + Len(z)
        /\ \A j \in 1..Len(w) + Len(z) : v[j] = IF j <= Len(w) THEN w[j] ELSE z[j - Len(w)]
    BY <1>4, ConcatProperties
  <2>3. Len(w) = m /\ Len(z) = s
    BY <1>2, <1>3, <2>1
  <2> QED
    BY <2>1, <2>2, <2>3
<1>6. ASSUME NEW j \in 1..WordBits PROVE v[j] = IF j + s <= WordBits THEN Bits(x)[j + s] ELSE 0
  <2>1. CASE j + s <= WordBits
    <3>1. j \in 1..WordBits - s /\ s + j = j + s
      BY <2>1, Sizes
    <3> QED
      BY <1>2, <1>5, <2>1, <3>1
  <2>2. CASE ~ (j + s <= WordBits)
    <3>1. j - (WordBits - s) \in 1..s /\ ~ (j <= WordBits - s)
      BY <2>2, Sizes
    <3> QED
      BY <1>3, <1>5, <2>2, <3>1
  <2> QED
    BY <2>1, <2>2
<1>7. v \in Word64
  BY <1>5, WordIsSeq, Sizes DEF Word64
<1>8. v = Shifted(x, s)
  BY <1>1, <1>4 DEF Shifted
<1> QED
  BY <1>6, <1>7, <1>8

-----------------------------------------------------------------------------
(* Codes and the bits of them.                                             *)

(* A code of length bits, and no more.                                     *)
Fits(c) ==
  /\ c \in [length : 1..WordBits - ByteBits, code : Nat]
  /\ \A j \in 1..WordBits - c.length : Bits(c.code)[j] = 0

LEMMA CodeBitsAre ==
  ASSUME NEW c, Fits(c)
  PROVE  /\ CodeBits(c) \in Seq(Bit) /\ Len(CodeBits(c)) = c.length
         /\ \A j \in 1..c.length : CodeBits(c)[j] = Bits(c.code)[(WordBits - c.length) + j]
<1>1. c.length \in 1..WordBits - ByteBits /\ c.code \in Nat
  BY DEF Fits
<1>2. PICK w : w = Bits(c.code)
  OBVIOUS
<1>3. w \in Seq(Bit) /\ Len(w) = WordBits
  BY <1>1, <1>2, BitsAre, WordIsSeq, Sizes DEF Word64
<1>4. PICK a : a = WordBits - c.length
  OBVIOUS
<1>5. a \in Nat /\ WordBits \in Nat /\ a <= WordBits /\ WordBits - a = c.length
  BY <1>1, <1>4, Sizes
<1>6. /\ SubSeq(w, a + 1, WordBits) \in Seq(Bit) /\ Len(SubSeq(w, a + 1, WordBits)) = WordBits - a
      /\ \A j \in 1..WordBits - a : SubSeq(w, a + 1, WordBits)[j] = w[a + j]
  BY <1>3, <1>5, SliceIs
<1>7. CodeBits(c) = SubSeq(w, a + 1, WordBits)
  BY <1>2, <1>4 DEF CodeBits
<1> QED
  BY <1>2, <1>4, <1>5, <1>6, <1>7

-----------------------------------------------------------------------------
(* Packing.                                                                *)

(* codes is what has been packed and what waits; the rest of the word is 0.*)
Packing(state, codes) ==
  /\ state.packed \in Seq(Byte8) /\ state.out \in Word64 /\ state.m \in 0..ByteBits - 1
  /\ codes = FlattenSeq(state.packed) \o SubSeq(state.out, 1, state.m)
  /\ \A j \in state.m + 1..WordBits : state.out[j] = 0

LEMMA PackedIsSeq ==
  ASSUME NEW p \in Seq(Byte8)
  PROVE  p \in Seq(Seq(Bit)) /\ FlattenSeq(p) \in Seq(Bit)
<1>1. Byte8 \subseteq Seq(Bit)
  BY WordIsSeq, Sizes DEF Byte8
<1>2. p \in Seq(Seq(Bit))
  BY <1>1, SeqMonotonic
<1>3. <<>> \in Seq(Bit)
  OBVIOUS
<1> QED
  BY <1>2, <1>3, FlattenNext

LEMMA RoomInWord ==
  ASSUME NEW state, NEW codes, Packing(state, codes), NEW c, Fits(c)
  PROVE  /\ WordBits - state.m - c.length \in 0..WordBits - 1
         /\ state.m + c.length \in 0..WordBits /\ state.m + c.length < WordBits
<1>1. c.length \in 1..WordBits - ByteBits /\ state.m \in 0..ByteBits - 1
  BY DEF Fits, Packing
<1> QED
  BY <1>1, Sizes

LEMMA IdlePacking == Packing(Idle, <<>>)
<1>1. Idle.packed = <<>> /\ Idle.out = Zeros(WordBits) /\ Idle.m = 0
  BY DEF Idle
<1>2. SubSeq(Idle.out, 1, 0) = <<>>
  BY SubSeqEmpty
<1>3. FlattenSeq(<<>>) \o <<>> = <<>>
  <2>1. <<>> \in Seq(Bit)
    OBVIOUS
  <2> QED
    BY <2>1, FlattenNone, ConcatEmptySeq
<1>4. <<>> \in Seq(Byte8)
  OBVIOUS
<1>5. Zeros(WordBits) \in Word64 /\ \A j \in 1..WordBits : Zeros(WordBits)[j] = 0
  BY ZerosAre, Sizes DEF Word64
<1> QED
  BY <1>1, <1>2, <1>3, <1>4, <1>5, Sizes DEF Packing

(* The next code is or'ed in behind what waits.                            *)
LEMMA OredIn ==
  ASSUME NEW state, NEW codes, Packing(state, codes), NEW c, Fits(c),
         NEW word, word = Or(state.out, Shifted(c.code, WordBits - state.m - c.length))
  PROVE  /\ word \in Seq(Bit) /\ Len(word) = WordBits
         /\ \A j \in state.m + c.length + 1..WordBits : word[j] = 0
         /\ SubSeq(word, 1, state.m + c.length) = SubSeq(state.out, 1, state.m) \o CodeBits(c)
<1>1. PICK m, l, o : m = state.m /\ l = c.length /\ o = state.out
  OBVIOUS
<1>2. /\ m \in 0..ByteBits - 1 /\ o \in Word64 /\ \A j \in m + 1..WordBits : o[j] = 0
      /\ l \in 1..WordBits - ByteBits /\ c.code \in Nat
      /\ \A j \in 1..WordBits - l : Bits(c.code)[j] = 0
  BY <1>1 DEF Packing, Fits
<1>3. PICK s : s = WordBits - m - l
  OBVIOUS
<1>4. s \in 0..WordBits /\ m + l \in 0..WordBits /\ s = WordBits - (m + l)
  BY <1>2, <1>3, Sizes
<1>5. PICK x : x = Shifted(c.code, s)
  OBVIOUS
<1>6. /\ x \in Word64
      /\ \A j \in 1..WordBits : x[j] = IF j + s <= WordBits THEN Bits(c.code)[j + s] ELSE 0
  BY <1>2, <1>4, <1>5, ShiftedIs
<1>7. word = Or(o, x)
  BY <1>1, <1>3, <1>5
<1>8. \A j \in 1..WordBits : word[j] = IF o[j] = 1 THEN 1 ELSE x[j]
  BY <1>7 DEF Or
<1>9. word \in [1..WordBits -> Bit]
  <2>1. \A j \in 1..WordBits : (IF o[j] = 1 THEN 1 ELSE x[j]) \in Bit
    BY <1>6 DEF Word64, Bit
  <2> QED
    BY <1>7, <2>1 DEF Or
<1>10. word \in Seq(Bit) /\ Len(word) = WordBits
  BY <1>9, WordIsSeq, Sizes
<1>11. ASSUME NEW j \in m + l + 1..WordBits PROVE word[j] = 0
  <2>1. j \in 1..WordBits /\ j \in m + 1..WordBits /\ ~ (j + s <= WordBits)
    BY <1>2, <1>4, Sizes
  <2> QED
    BY <1>2, <1>6, <1>8, <2>1
<1>12. ASSUME NEW j \in 1..m PROVE word[j] = o[j]
  <2>1. j \in 1..WordBits /\ j + s \in 1..WordBits - l /\ j + s <= WordBits
    BY <1>2, <1>4, Sizes
  <2>2. x[j] = 0
    BY <1>2, <1>6, <2>1
  <2>3. o[j] \in Bit
    BY <1>2, <2>1 DEF Word64
  <2> QED
    BY <1>8, <2>1, <2>2, <2>3 DEF Bit
<1>13. ASSUME NEW j \in 1..l PROVE word[m + j] = CodeBits(c)[j]
  <2>1. /\ m + j \in 1..WordBits /\ m + j \in m + 1..WordBits
        /\ (m + j) + s <= WordBits /\ (m + j) + s = (WordBits - l) + j
    BY <1>2, <1>4, Sizes
  <2>2. x[m + j] = Bits(c.code)[(WordBits - l) + j]
    BY <1>6, <2>1
  <2>3. o[m + j] = 0
    BY <1>2, <2>1
  <2>4. CodeBits(c)[j] = Bits(c.code)[(WordBits - l) + j]
    BY <1>1, CodeBitsAre
  <2> QED
    BY <1>8, <2>1, <2>2, <2>3, <2>4
<1>14. SubSeq(word, 1, m + l) = SubSeq(o, 1, m) \o CodeBits(c)
  <2>1. PICK u, v, w : u = SubSeq(o, 1, m) /\ v = CodeBits(c) /\ w = SubSeq(word, 1, m + l)
    OBVIOUS
  <2>2. u \in Seq(Bit) /\ Len(u) = m /\ \A j \in 1..m : u[j] = o[j]
    <3>1. o \in Seq(Bit) /\ Len(o) = WordBits
      BY <1>2, WordIsSeq, Sizes DEF Word64
    <3>2. 0 \in Nat /\ m \in Nat /\ 0 <= m /\ m <= WordBits /\ m - 0 = m
      BY <1>2, <1>4, Sizes
    <3>3. SubSeq(o, 0 + 1, m) \in Seq(Bit) /\ Len(SubSeq(o, 0 + 1, m)) = m - 0
          /\ \A j \in 1..m - 0 : SubSeq(o, 0 + 1, m)[j] = o[0 + j]
      BY <3>1, <3>2, SliceIs
    <3>4. 0 + 1 = 1 /\ \A j \in 1..m : 0 + j = j
      OBVIOUS
    <3> QED
      BY <2>1, <3>2, <3>3, <3>4
  <2>3. v \in Seq(Bit) /\ Len(v) = l
    BY <1>1, <2>1, CodeBitsAre
  <2>4. w \in Seq(Bit) /\ Len(w) = m + l /\ \A j \in 1..m + l : w[j] = word[j]
    <3>1. 0 \in Nat /\ m + l \in Nat /\ 0 <= m + l /\ m + l <= Len(word) /\ (m + l) - 0 = m + l
      BY <1>2, <1>4, <1>10, Sizes
    <3>2. SubSeq(word, 0 + 1, m + l) \in Seq(Bit) /\ Len(SubSeq(word, 0 + 1, m + l)) = (m + l) - 0
          /\ \A j \in 1..(m + l) - 0 : SubSeq(word, 0 + 1, m + l)[j] = word[0 + j]
      BY <1>10, <3>1, SliceIs
    <3>3. 0 + 1 = 1 /\ \A j \in 1..m + l : 0 + j = j
      OBVIOUS
    <3> QED
      BY <2>1, <3>1, <3>2, <3>3
  <2>5. PICK y : y = u \o v
    OBVIOUS
  <2>6. /\ y \in Seq(Bit) /\ Len(y) = m + l
        /\ \A j \in 1..m + l : y[j] = IF j <= m THEN u[j] ELSE v[j - m]
    BY <2>2, <2>3, <2>5, ConcatProperties
  <2>7. ASSUME NEW j \in 1..m + l PROVE w[j] = y[j]
    <3>1. CASE j <= m
      <4>1. j \in 1..m
        BY <3>1
      <4> QED
        BY <1>12, <2>2, <2>4, <2>6, <3>1, <4>1
    <3>2. CASE ~ (j <= m)
      <4>1. PICK h : h = j - m
        OBVIOUS
      <4>2. h \in 1..l /\ m + h = j
        BY <1>2, <3>2, <4>1
      <4>3. y[j] = v[h] /\ word[m + h] = v[h]
        BY <1>13, <2>1, <2>6, <3>2, <4>1, <4>2
      <4> QED
        BY <2>4, <4>2, <4>3
    <3> QED
      BY <3>1, <3>2
  <2>8. w = y
    BY <2>4, <2>6, <2>7, SeqEqual
  <2> QED
    BY <2>1, <2>5, <2>8
<1> QED
  BY <1>1, <1>10, <1>11, <1>14

(* One more code packed is one more code behind the others.                *)
LEMMA PackStep ==
  ASSUME NEW state, NEW codes, Packing(state, codes), NEW c, Fits(c)
  PROVE  Packing(Packed(state, c), codes \o CodeBits(c))
<1>1. PICK m, l, o, p, t : m = state.m /\ l = c.length /\ o = state.out /\ p = state.packed /\ t = m + l
  OBVIOUS
<1>2. /\ m \in 0..ByteBits - 1 /\ o \in Word64 /\ p \in Seq(Byte8)
      /\ codes = FlattenSeq(p) \o SubSeq(o, 1, m)
  BY <1>1 DEF Packing
<1>3. t \in Nat /\ t < WordBits /\ WordBits \in Nat /\ ByteBits \in Nat \ {0}
  BY <1>1, RoomInWord, Sizes
<1>4. PICK word : word = Or(o, Shifted(c.code, WordBits - m - l))
  OBVIOUS
<1>5. /\ word \in Seq(Bit) /\ Len(word) = WordBits
      /\ \A j \in t + 1..WordBits : word[j] = 0
      /\ SubSeq(word, 1, t) = SubSeq(o, 1, m) \o CodeBits(c)
  <2>1. word = Or(state.out, Shifted(c.code, WordBits - state.m - c.length))
    BY <1>1, <1>4, Zenon
  <2>2. /\ word \in Seq(Bit) /\ Len(word) = WordBits
        /\ \A j \in state.m + c.length + 1..WordBits : word[j] = 0
        /\ SubSeq(word, 1, state.m + c.length) = SubSeq(state.out, 1, state.m) \o CodeBits(c)
    BY <2>1, OredIn
  <2> QED
    BY <1>1, <2>2
<1>6. PICK n, z, r : n = Whole(t) /\ z = n * ByteBits /\ r = t - z
  OBVIOUS
<1>7. n \in Nat /\ z \in Nat /\ r \in 0..ByteBits - 1 /\ t = z + r /\ z <= WordBits
  <2>1. t \div ByteBits \in Nat /\ (t % ByteBits) \in 0..ByteBits - 1
        /\ t = ByteBits * (t \div ByteBits) + (t % ByteBits)
    BY <1>3, Division
  <2>2. n \in Nat
    BY <1>6, <2>1 DEF Whole
  <2>3. z = ByteBits * n /\ z \in Nat
    BY <1>3, <1>6, <2>2
  <2>4. t = z + (t % ByteBits)
    BY <1>6, <2>1, <2>3 DEF Whole
  <2>5. r = t % ByteBits
    BY <1>3, <1>6, <2>3, <2>4
  <2>6. r \in 0..ByteBits - 1 /\ t = z + r
    BY <2>1, <2>4, <2>5
  <2> QED
    BY <1>3, <2>2, <2>3, <2>6
<1>8. PICK parts : parts = [j \in 1..n |-> SubSeq(word, (j - 1) * ByteBits + 1, j * ByteBits)]
  OBVIOUS
<1>9. parts \in Seq(Byte8) /\ FlattenSeq(parts) = SubSeq(word, 1, z)
  <2>1. n * ByteBits <= Len(word) /\ ByteBits \in Nat
    BY <1>3, <1>5, <1>6, <1>7
  <2>2. parts \in Seq([1..ByteBits -> Bit]) /\ FlattenSeq(parts) = SubSeq(word, 1, n * ByteBits)
    <3>1. n \in Nat /\ word \in Seq(Bit)
      BY <1>5, <1>7
    <3>2. parts \in Seq(Seq(Bit)) /\ Len(parts) = n
      <4>1. \A j \in 1..n : SubSeq(word, (j - 1) * ByteBits + 1, j * ByteBits) \in Seq(Bit)
        <5>1. ASSUME NEW j \in 1..n PROVE j * ByteBits <= n * ByteBits
          BY <1>3, <1>7
        <5>2. ASSUME NEW j \in 1..n
              PROVE  SubSeq(word, (j - 1) * ByteBits + 1, j * ByteBits) \in Seq(Bit)
          <6>1. PICK f \in Nat, g \in Nat : f = (j - 1) * ByteBits /\ g = j * ByteBits
            BY <1>3, <1>7
          <6>2. f + 1 \in Int /\ g \in Int /\ g <= z
            BY <1>3, <1>6, <1>7, <5>1, <6>1
          <6>3. \A h \in f + 1..g : word[h] \in Bit
            BY <1>3, <1>5, <1>7, <6>2
          <6> QED
            BY <6>1, <6>2, <6>3, SubSeqProperties
        <5> QED
          BY <5>2
      <4> QED
        BY <1>7, <1>8, <4>1
    <3>3. \A j \in 1..n : parts[j] = SubSeq(word, (j - 1) * ByteBits + 1, j * ByteBits)
      BY <1>8
    <3> QED
      <4>1. Cuts(parts, word, n, ByteBits, Bit)
        BY <2>1, <3>1, <3>2, <3>3, Zenon DEF Cuts
      <4> QED
        BY <4>1, FlattenParts
  <2> QED
    BY <1>6, <2>2 DEF Byte8
<1>10. PICK v, w : v = SubSeq(word, z + 1, WordBits) /\ w = v \o Zeros(z)
  OBVIOUS
<1>11. Packed(state, c) = [packed |-> p \o parts, out |-> w, m |-> r]
  <2>1. parts = [j \in 1..n |-> ByteOf(word, j)]
    BY <1>8 DEF ByteOf
  <2>2. /\ state.m + c.length = t /\ WordBits - state.m - c.length = WordBits - m - l
        /\ word = Or(state.out, Shifted(c.code, WordBits - state.m - c.length))
        /\ n = Whole(state.m + c.length)
    BY <1>1, <1>4, <1>6
  <2>3. Packed(state, c) = [ packed |-> state.packed \o [j \in 1..n |-> ByteOf(word, j)],
                             out |-> SubSeq(word, n * ByteBits + 1, WordBits) \o Zeros(n * ByteBits),
                             m |-> state.m + c.length - n * ByteBits ]
    BY <2>2, Zenon DEF Packed
  <2>4. w = SubSeq(word, n * ByteBits + 1, WordBits) \o Zeros(n * ByteBits)
    BY <1>6, <1>10, Zenon
  <2>5. r = state.m + c.length - n * ByteBits
    <3>1. r = t - n * ByteBits /\ t = state.m + c.length
      BY <1>6, <2>2
    <3>2. state.m \in Int /\ c.length \in Int
      BY <1>1, <1>2 DEF Fits
    <3>3. n * ByteBits \in Int
      BY <1>6, <1>7
    <3> QED
      BY <3>1, <3>2, <3>3
  <2> QED
    BY <1>1, <2>1, <2>3, <2>4, <2>5, Zenon
<1>12. v \in Seq(Bit) /\ Len(v) = WordBits - z /\ \A j \in 1..WordBits - z : v[j] = word[z + j]
  BY <1>3, <1>5, <1>7, <1>10, SliceIs
<1>13. /\ w \in Seq(Bit) /\ Len(w) = WordBits
       /\ \A j \in 1..WordBits : w[j] = IF j <= WordBits - z THEN word[z + j] ELSE 0
  <2>1. PICK u \in Seq(Bit) : u = Zeros(z) /\ Len(u) = z /\ \A j \in 1..z : u[j] = 0
    BY <1>7, ZerosAre
  <2>2. /\ w \in Seq(Bit) /\ Len(w) = Len(v) + Len(u)
        /\ \A j \in 1..Len(v) + Len(u) : w[j] = IF j <= Len(v) THEN v[j] ELSE u[j - Len(v)]
    BY <1>10, <1>12, <2>1, ConcatProperties
  <2>3. PICK d \in Nat : d = WordBits - z /\ d + z = WordBits
    BY <1>3, <1>7
  <2>4. Len(v) = d /\ Len(u) = z /\ \A j \in 1..d : v[j] = word[z + j]
    BY <1>12, <2>1, <2>3
  <2>5. w \in Seq(Bit) /\ Len(w) = WordBits
    BY <2>2, <2>3, <2>4
  <2>6. ASSUME NEW j \in 1..WordBits PROVE w[j] = IF j <= d THEN word[z + j] ELSE 0
    <3>1. w[j] = IF j <= d THEN v[j] ELSE u[j - d]
      BY <2>2, <2>3, <2>4
    <3>2. CASE j <= d
      <4>1. j \in 1..d
        BY <3>2
      <4> QED
        BY <2>4, <3>1, <3>2, <4>1
    <3>3. CASE ~ (j <= d)
      <4>1. j - d \in 1..z
        BY <1>7, <2>3, <3>3
      <4> QED
        BY <2>1, <3>1, <3>3, <4>1
    <3> QED
      BY <3>2, <3>3
  <2> QED
    BY <2>3, <2>5, <2>6
<1>14. w \in Word64
  BY <1>3, <1>13, WordIsSeq DEF Word64
<1>15. ASSUME NEW j \in r + 1..WordBits PROVE w[j] = 0
  <2>1. CASE j <= WordBits - z
    <3>1. z + j \in t + 1..WordBits
      BY <1>3, <1>7, <2>1
    <3>2. j \in 1..WordBits
      BY <1>7
    <3> QED
      BY <1>5, <1>13, <2>1, <3>1, <3>2
  <2>2. CASE ~ (j <= WordBits - z)
    <3>1. j \in 1..WordBits
      BY <1>7
    <3> QED
      BY <1>13, <2>2, <3>1
  <2> QED
    BY <2>1, <2>2
<1>16. SubSeq(w, 1, r) = SubSeq(word, z + 1, t)
  <2>1. PICK f, g : f = SubSeq(w, 0 + 1, r) /\ g = SubSeq(word, z + 1, t)
    OBVIOUS
  <2>2. f \in Seq(Bit) /\ Len(f) = r - 0 /\ \A j \in 1..r - 0 : f[j] = w[0 + j]
    <3>1. 0 \in Nat /\ r \in Nat /\ 0 <= r /\ r <= Len(w)
      BY <1>3, <1>7, <1>13
    <3> QED
      BY <1>13, <2>1, <3>1, SliceIs
  <2>3. g \in Seq(Bit) /\ Len(g) = t - z /\ \A j \in 1..t - z : g[j] = word[z + j]
    <3>1. z <= t /\ t <= Len(word)
      BY <1>3, <1>5, <1>7
    <3> QED
      BY <1>3, <1>5, <1>7, <2>1, <3>1, SliceIs
  <2>4. Len(f) = r /\ Len(g) = r
    BY <1>7, <2>2, <2>3
  <2>5. ASSUME NEW j \in 1..r PROVE f[j] = g[j]
    <3>1. j \in 1..r - 0 /\ j \in 1..t - z /\ 0 + j = j /\ j \in 1..WordBits /\ j <= WordBits - z
      BY <1>3, <1>7
    <3>2. w[j] = word[z + j]
      BY <1>13, <3>1
    <3> QED
      BY <2>2, <2>3, <3>1, <3>2
  <2>6. f = g
    BY <2>2, <2>3, <2>4, <2>5, SeqEqual
  <2>7. 0 + 1 = 1
    OBVIOUS
  <2> QED
    BY <2>1, <2>6, <2>7
<1>17. FlattenSeq(p \o parts) \o SubSeq(w, 1, r) = codes \o CodeBits(c)
  <2>1. /\ FlattenSeq(p) \in Seq(Bit) /\ FlattenSeq(parts) \in Seq(Bit)
        /\ FlattenSeq(p \o parts) = FlattenSeq(p) \o FlattenSeq(parts)
    <3>1. p \in Seq(Seq(Bit)) /\ parts \in Seq(Seq(Bit))
      BY <1>2, <1>9, PackedIsSeq
    <3> QED
      BY <3>1, FlattenConcat
  <2>2. PICK a, b, d, e, y : /\ a = FlattenSeq(p) /\ b = SubSeq(word, 1, z) /\ d = SubSeq(word, z + 1, t)
                             /\ e = SubSeq(o, 1, m) /\ y = CodeBits(c)
    OBVIOUS
  <2>3. a \in Seq(Bit) /\ b \in Seq(Bit) /\ y \in Seq(Bit)
    BY <1>9, <2>1, <2>2, CodeBitsAre
  <2>4. d \in Seq(Bit)
    <3>1. z <= t /\ t <= Len(word)
      BY <1>3, <1>5, <1>7
    <3> QED
      BY <1>3, <1>5, <1>7, <2>2, <3>1, SliceIs
  <2>5. e \in Seq(Bit)
    <3>1. o \in Seq(Bit) /\ Len(o) = WordBits
      BY <1>2, <1>3, WordIsSeq DEF Word64
    <3>2. 0 \in Nat /\ m \in Nat /\ 0 <= m /\ m <= Len(o)
      <4>1. l \in Nat
        BY <1>1 DEF Fits
      <4>2. m \in Nat
        BY <1>2, <1>3
      <4>3. m <= t
        BY <1>1, <4>1, <4>2
      <4> QED
        BY <1>3, <3>1, <4>2, <4>3
    <3>3. SubSeq(o, 0 + 1, m) \in Seq(Bit)
      BY <3>1, <3>2, SliceIs
    <3> QED
      BY <2>2, <3>3
  <2>6. b \o d = e \o y
    <3>1. SubSeq(word, 1, t) = b \o d
      <4>1. 1 \in 1..Len(word) + 1 /\ z \in 1 - 1..Len(word) /\ t \in z..Len(word)
        BY <1>3, <1>5, <1>7
      <4> QED
        BY <1>5, <2>2, <4>1, ConcatAdjacentSubSeq
    <3> QED
      BY <1>5, <2>2, <3>1
  <2>7. (a \o b) \o d = a \o (b \o d) /\ (a \o e) \o y = a \o (e \o y)
    <3>1. (a \o b) \o d = a \o (b \o d)
      BY <2>3, <2>4, ConcatAssociative
    <3>2. (a \o e) \o y = a \o (e \o y)
      BY <2>3, <2>5, ConcatAssociative
    <3> QED
      BY <3>1, <3>2, Zenon
  <2>8. FlattenSeq(p \o parts) \o SubSeq(w, 1, r) = (a \o b) \o d
    BY <1>9, <1>16, <2>1, <2>2
  <2>9. codes \o CodeBits(c) = (a \o e) \o y
    BY <1>2, <2>2
  <2> QED
    BY <2>6, <2>7, <2>8, <2>9
<1>18. p \o parts \in Seq(Byte8)
  BY <1>2, <1>9, ConcatProperties
<1>19. PICK next : next = Packed(state, c)
  OBVIOUS
<1>20. next.packed = p \o parts /\ next.out = w /\ next.m = r
  BY <1>11, <1>19
<1> QED
  BY <1>7, <1>14, <1>15, <1>17, <1>18, <1>19, <1>20 DEF Packing

LEMMA BitsOfBytes ==
  ASSUME NEW p \in Seq(Byte8)
  PROVE  FlattenSeq(p) \in Seq(Bit) /\ Len(FlattenSeq(p)) = ByteBits * Len(p)
<1>1. p \in Seq(Seq(Bit)) /\ ByteBits \in Nat
  BY PackedIsSeq, Sizes
<1>2. ASSUME NEW j \in 1..Len(p) PROVE Len(p[j]) = ByteBits
  <2>1. p[j] \in [1..ByteBits -> Bit]
    BY ElementOfSeq DEF Byte8
  <2> QED
    BY <1>1, <2>1, WordIsSeq
<1> QED
  BY <1>1, <1>2, EvenParts

(* At the end what waits is filled up to a byte.                           *)
Encodes(bytes, codes) ==
  /\ bytes \in Seq(Byte8)
  /\ \E e \in 0..ByteBits - 1 : FlattenSeq(bytes) = codes \o Zeros(e)

LEMMA FlushedIs ==
  ASSUME NEW state, NEW codes, Packing(state, codes)
  PROVE  codes \in Seq(Bit) /\ Encodes(Flushed(state), codes)
<1>1. PICK m, o, p : m = state.m /\ o = state.out /\ p = state.packed
  OBVIOUS
<1>2. /\ p \in Seq(Byte8) /\ o \in Word64 /\ m \in 0..ByteBits - 1
      /\ codes = FlattenSeq(p) \o SubSeq(o, 1, m)
      /\ \A j \in m + 1..WordBits : o[j] = 0
  BY <1>1 DEF Packing
<1>3. p \in Seq(Seq(Bit)) /\ FlattenSeq(p) \in Seq(Bit) /\ o \in Seq(Bit) /\ Len(o) = WordBits
  BY <1>2, PackedIsSeq, WordIsSeq, Sizes DEF Word64
<1>4. PICK f : f = SubSeq(o, 1, m)
  OBVIOUS
<1>5. CASE m = 0
  <2>1. f = <<>>
    BY <1>4, <1>5, SubSeqEmpty
  <2>2. codes = FlattenSeq(p)
    BY <1>2, <1>3, <1>4, <2>1, ConcatEmptySeq
  <2>3. PICK z \in Seq(Bit) : z = Zeros(0) /\ z = <<>>
    <3>1. Zeros(0) \in Seq(Bit) /\ Len(Zeros(0)) = 0
      BY ZerosAre
    <3> QED
      BY <3>1, EmptySeq
  <2>4. codes = codes \o Zeros(0)
    BY <1>3, <2>2, <2>3, ConcatEmptySeq
  <2>5. Flushed(state) = p
    BY <1>1, <1>5 DEF Flushed
  <2>6. 0 \in 0..ByteBits - 1
    BY Sizes
  <2> QED
    BY <1>2, <1>3, <2>2, <2>4, <2>5, <2>6 DEF Encodes
<1>6. CASE m # 0
  <2>1. PICK byte : byte = SubSeq(o, 1, ByteBits)
    OBVIOUS
  <2>2. ByteBits <= WordBits /\ ByteBits \in Nat /\ WordBits \in Nat
    BY Sizes
  <2>3. byte \in Seq(Bit) /\ Len(byte) = ByteBits /\ \A j \in 1..ByteBits : byte[j] = o[j]
    <3>1. PICK g : g = SubSeq(o, 0 + 1, ByteBits)
      OBVIOUS
    <3>2. g \in Seq(Bit) /\ Len(g) = ByteBits - 0 /\ \A j \in 1..ByteBits - 0 : g[j] = o[0 + j]
      BY <1>3, <2>2, <3>1, SliceIs
    <3>3. 0 + 1 = 1 /\ ByteBits - 0 = ByteBits /\ \A j \in 1..ByteBits : 0 + j = j
      BY <2>2
    <3> QED
      BY <2>1, <3>1, <3>2, <3>3
  <2>4. f \in Seq(Bit) /\ Len(f) = m /\ \A j \in 1..m : f[j] = o[j]
    <3>1. PICK g : g = SubSeq(o, 0 + 1, m)
      OBVIOUS
    <3>2. m \in Nat /\ m <= WordBits
      BY <1>2, <2>2
    <3>3. g \in Seq(Bit) /\ Len(g) = m - 0 /\ \A j \in 1..m - 0 : g[j] = o[0 + j]
      BY <1>3, <2>2, <3>1, <3>2, SliceIs
    <3>4. 0 + 1 = 1 /\ m - 0 = m /\ \A j \in 1..m : 0 + j = j
      BY <3>2
    <3> QED
      BY <1>4, <3>1, <3>3, <3>4
  <2>5. PICK e \in 1..ByteBits - 1 : e = ByteBits - m
    BY <1>2, <1>6, <2>2
  <2>6. PICK z \in Seq(Bit) : z = Zeros(e) /\ Len(z) = e /\ \A j \in 1..e : z[j] = 0
    BY <2>2, <2>5, ZerosAre
  <2>7. byte = f \o z
    <3>1. PICK y : y = f \o z
      OBVIOUS
    <3>2. /\ y \in Seq(Bit) /\ Len(y) = m + e
          /\ \A j \in 1..m : y[j] = f[j]
          /\ \A j \in 1..e : y[m + j] = z[j]
      <4>1. m \in Nat /\ e \in Nat /\ m = Len(f) /\ e = Len(z) /\ f \in Seq(Bit)
        BY <1>2, <2>4, <2>5, <2>6
      <4> QED
        BY <3>1, <4>1, ConcatIs
    <3>3. m + e = ByteBits
      BY <1>2, <2>2, <2>5
    <3>4. ASSUME NEW j \in 1..ByteBits PROVE byte[j] = y[j]
      <4>1. CASE j <= m
        <5>1. j \in 1..m
          BY <4>1
        <5> QED
          BY <2>3, <2>4, <3>2, <3>3, <4>1, <5>1
      <4>2. CASE ~ (j <= m)
        <5>1. PICK h : h = j - m
          OBVIOUS
        <5>2. h \in 1..e /\ m + h = j /\ j \in m + 1..WordBits
          BY <1>2, <2>2, <3>3, <4>2, <5>1
        <5>3. y[j] = 0
          BY <2>6, <3>2, <5>2
        <5>4. byte[j] = 0
          BY <1>2, <2>3, <5>2
        <5> QED
          BY <5>3, <5>4
      <4> QED
        BY <4>1, <4>2
    <3>5. byte = y
      BY <2>3, <3>2, <3>3, <3>4, SeqEqual
    <3> QED
      BY <3>1, <3>5
  <2>8. byte \in Byte8
    BY <2>2, <2>3, WordIsSeq DEF Byte8
  <2>9. Flushed(state) = Append(p, byte)
    <3>1. ByteOf(o, 1) = byte
      <4>1. (1 - 1) * ByteBits + 1 = 1 /\ 1 * ByteBits = ByteBits
        BY <2>2
      <4> QED
        BY <2>1, <4>1 DEF ByteOf
    <3> QED
      BY <1>1, <1>6, <3>1 DEF Flushed
  <2>10. Append(p, byte) \in Seq(Byte8)
    BY <1>2, <2>8
  <2>11. FlattenSeq(Append(p, byte)) = FlattenSeq(p) \o byte
    BY <1>3, <2>3, FlattenNext
  <2>12. codes \in Seq(Bit) /\ FlattenSeq(p) \o byte = codes \o Zeros(e)
    <3>1. PICK a \in Seq(Bit) : a = FlattenSeq(p)
      BY <1>3
    <3>2. (a \o f) \o z = a \o (f \o z)
      BY <2>4, <2>6, <3>1, ConcatAssociative
    <3>3. codes = a \o f
      BY <1>2, <1>4, <3>1
    <3>4. a \o f \in Seq(Bit)
      BY <2>4, <3>1, ConcatProperties
    <3> QED
      BY <2>6, <2>7, <3>1, <3>2, <3>3, <3>4
  <2>13. e \in 0..ByteBits - 1
    BY <2>5
  <2>14. FlattenSeq(Flushed(state)) = codes \o Zeros(e)
    BY <2>9, <2>11, <2>12
  <2> QED
    BY <2>9, <2>10, <2>12, <2>13, <2>14 DEF Encodes
<1> QED
  BY <1>2, <1>5, <1>6

-----------------------------------------------------------------------------
(* Sums, and the lengths of the parts of a sequence.                       *)

IsSums(f, ns) == f = [n \in 0..Len(ns) |-> IF n = 0 THEN 0 ELSE f[n - 1] + ns[n]]

LEMMA SumsAre ==
  ASSUME NEW ns \in Seq(Nat)
  PROVE  /\ Sums(ns) \in [0..Len(ns) -> Nat] /\ Sums(ns)[0] = 0
         /\ \A n \in 1..Len(ns) : Sums(ns)[n] = Sums(ns)[n - 1] + ns[n]
         /\ Sum(ns) \in Nat
<1>1. PICK l \in Nat : l = Len(ns)
  OBVIOUS
<1> DEFINE g == [j \in Nat |-> [v \in Nat |-> IF j \in 1..l THEN v + ns[j] ELSE v]]
<1>2. g \in [Nat -> [Nat -> Nat]]
  BY <1>1
<1>3. PICK w \in [0..l -> Nat] : w[0] = 0 /\ \A j \in 1..l : w[j] = g[j][w[j - 1]]
  <2> HIDE DEF g
  <2>1. 0 \in Nat
    OBVIOUS
  <2>2. PICK f : Iterates(f, Nat, 0, g, l)
    BY <1>2, <2>1, Recursion, Zenon
  <2> QED
    BY <2>2 DEF Iterates
<1>4. \A j \in 1..l : w[j] = w[j - 1] + ns[j]
  <2>1. \A j \in 1..l : j \in Nat /\ w[j - 1] \in Nat
    OBVIOUS
  <2> QED
    BY <1>3, <2>1
<1>5. IsSums(w, ns)
  <2> DEFINE u == [n \in 0..l |-> IF n = 0 THEN 0 ELSE w[n - 1] + ns[n]]
  <2>1. \A j \in 0..l : w[j] = u[j]
    BY <1>3, <1>4
  <2> HIDE DEF u
  <2>2. w = u
    BY <2>1 DEF u
  <2> QED
    BY <1>1, <2>2 DEF IsSums, u
<1>6. IsSums(Sums(ns), ns)
  <2>1. Sums(ns) = CHOOSE f : IsSums(f, ns)
    BY Zenon DEF Sums, IsSums
  <2> QED
    BY <1>5, <2>1, Zenon
<1>7. PICK f : f = Sums(ns)
  OBVIOUS
<1>8. f = [n \in 0..l |-> IF n = 0 THEN 0 ELSE f[n - 1] + ns[n]]
  BY <1>1, <1>6, <1>7 DEF IsSums
<1>9. f[0] = 0 /\ \A j \in 1..l : f[j] = f[j - 1] + ns[j]
  <2>1. 0 \in 0..l /\ \A j \in 1..l : j \in 0..l /\ j # 0
    OBVIOUS
  <2> QED
    BY <1>8, <2>1
<1>10. f = [n \in 0..l |-> f[n]]
  BY <1>8
<1>11. \A j \in 1..l : f[j - 1] \in Nat => f[j] = g[j][f[j - 1]]
  BY <1>9
<1>12. f \in [0..l -> Nat]
  <2> HIDE DEF g
  <2>1. 0 \in Nat
    OBVIOUS
  <2>2. Iterates(f, Nat, 0, g, l)
    BY <1>2, <1>9, <1>10, <1>11, <2>1, IsIterated
  <2> QED
    BY <2>2 DEF Iterates
<1>13. f[l] \in Nat
  BY <1>12
<1> QED
  BY <1>1, <1>7, <1>9, <1>12, <1>13 DEF Sum

LEMMA SumsGrow ==
  ASSUME NEW ns \in Seq(Nat), NEW a \in 0..Len(ns), NEW b \in a..Len(ns)
  PROVE  Sums(ns)[a] <= Sums(ns)[b]
<1>1. PICK f, l : f = Sums(ns) /\ l = Len(ns)
  OBVIOUS
<1>2. /\ l \in Nat /\ f \in [0..l -> Nat] /\ \A n \in 1..l : f[n] = f[n - 1] + ns[n]
      /\ \A n \in 1..l : ns[n] \in Nat
  <2>1. /\ Sums(ns) \in [0..Len(ns) -> Nat]
        /\ \A n \in 1..Len(ns) : Sums(ns)[n] = Sums(ns)[n - 1] + ns[n]
    BY SumsAre
  <2>2. \A n \in 1..Len(ns) : ns[n] \in Nat
    OBVIOUS
  <2> QED
    BY <1>1, <2>1, <2>2
<1> DEFINE Q == {n \in a..l : f[a] <= f[n]}
<1>3. a \in Q
  <2>1. a \in a..l /\ a \in 0..l
    BY <1>1, <1>2
  <2>2. f[a] \in Nat
    BY <1>2, <2>1
  <2> QED
    BY <2>1, <2>2
<1>4. ASSUME NEW n \in a..l - 1, n \in Q PROVE n + 1 \in Q
  <2>1. n + 1 \in 1..l /\ (n + 1) - 1 = n /\ n + 1 \in a..l /\ n \in 0..l
    BY <1>1, <1>2
  <2>2. f[n + 1] = f[n] + ns[n + 1] /\ ns[n + 1] \in Nat /\ f[n] \in Nat /\ f[a] \in Nat
    BY <1>1, <1>2, <2>1
  <2>3. f[a] <= f[n + 1]
    BY <1>4, <2>2
  <2> QED
    BY <2>1, <2>3
<1>5. a..l \subseteq Q
  <2> HIDE DEF Q
  <2>1. a \in Int /\ l \in Int
    BY <1>2
  <2> QED
    BY <1>3, <1>4, <2>1, IntervalIsInductive, Zenon
<1> QED
  BY <1>1, <1>5

(* Behind the parts up to any, their lengths.                              *)
LEMMA SumsOfParts ==
  ASSUME NEW S, NEW seqs \in Seq(Seq(S)), NEW n \in 0..Len(seqs)
  PROVE  LET ns == [a \in DOMAIN seqs |-> Len(seqs[a])]
         IN ns \in Seq(Nat) /\ Len(ns) = Len(seqs) /\ Sums(ns)[n] = Len(Until(seqs, n))
<1>1. PICK l \in Nat : l = Len(seqs) /\ DOMAIN seqs = 1..l
  OBVIOUS
<1>2. PICK ns : ns = [a \in DOMAIN seqs |-> Len(seqs[a])]
  OBVIOUS
<1>3. ns \in Seq(Nat) /\ Len(ns) = l /\ \A a \in 1..l : ns[a] = Len(seqs[a])
  <2>1. \A a \in 1..l : Len(seqs[a]) \in Nat
    BY <1>1, ElementOfSeq
  <2> QED
    BY <1>1, <1>2, <2>1
<1>4. PICK f : f = Sums(ns)
  OBVIOUS
<1>5. f[0] = 0 /\ \A a \in 1..l : f[a] = f[a - 1] + ns[a]
  BY <1>3, <1>4, SumsAre
<1> DEFINE Q == {a \in 0..l : f[a] = Len(Until(seqs, a))}
<1>6. 0 \in Q
  <2>1. Until(seqs, 0) = <<>>
    BY UntilIs
  <2>2. 0 \in 0..l
    OBVIOUS
  <2> QED
    BY <1>5, <2>1, <2>2
<1>7. ASSUME NEW a \in 0..l - 1, a \in Q PROVE a + 1 \in Q
  <2>1. a + 1 \in 1..l /\ a + 1 \in 1..Len(seqs) /\ (a + 1) - 1 = a /\ a + 1 \in 0..l
    BY <1>1
  <2>2. Len(Until(seqs, a + 1)) = Len(Until(seqs, (a + 1) - 1)) + Len(seqs[a + 1])
    BY <2>1, AtUntil
  <2>3. f[a + 1] = f[a] + Len(seqs[a + 1])
    BY <1>3, <1>5, <2>1
  <2> QED
    BY <1>7, <2>1, <2>2, <2>3
<1>8. 0..l \subseteq Q
  <2> HIDE DEF Q
  <2>1. 0 \in Int /\ l \in Int
    OBVIOUS
  <2> QED
    BY <1>6, <1>7, <2>1, IntervalIsInductive, Zenon
<1>9. f[n] = Len(Until(seqs, n))
  BY <1>1, <1>8
<1> QED
  BY <1>1, <1>2, <1>3, <1>4, <1>9

-----------------------------------------------------------------------------
(* The canonical code of the lengths.                                      *)

IsFirstCodes(f, ls) ==
  f = [n \in DOMAIN ls |-> IF n = 1 THEN 0 ELSE 2 * (f[n - 1] + ls[n - 1])]

LEMMA FirstCodesAre ==
  ASSUME NEW ls \in Seq(Nat)
  PROVE  /\ FirstCodes(ls) \in [1..Len(ls) -> Nat]
         /\ 1 \in 1..Len(ls) => FirstCodes(ls)[1] = 0
         /\ \A n \in 2..Len(ls) : FirstCodes(ls)[n] = 2 * (FirstCodes(ls)[n - 1] + ls[n - 1])
<1>1. PICK l \in Nat : l = Len(ls) /\ DOMAIN ls = 1..l
  OBVIOUS
<1> DEFINE g == [j \in Nat |-> [v \in Nat |-> IF j \in 1..l THEN 2 * (v + ls[j]) ELSE v]]
<1>2. g \in [Nat -> [Nat -> Nat]]
  BY <1>1
<1>3. PICK w \in [0..l -> Nat] : w[0] = 0 /\ \A j \in 1..l : w[j] = g[j][w[j - 1]]
  <2> HIDE DEF g
  <2>1. 0 \in Nat
    OBVIOUS
  <2>2. PICK f : Iterates(f, Nat, 0, g, l)
    BY <1>2, <2>1, Recursion, Zenon
  <2> QED
    BY <2>2 DEF Iterates
<1>4. \A j \in 1..l : w[j] = 2 * (w[j - 1] + ls[j])
  <2>1. \A j \in 1..l : j \in Nat /\ w[j - 1] \in Nat
    OBVIOUS
  <2> QED
    BY <1>3, <2>1
<1>5. \E f : IsFirstCodes(f, ls)
  <2>1. PICK v : v = [n \in 1..l |-> w[n - 1]]
    OBVIOUS
  <2> DEFINE u == [n \in 1..l |-> IF n = 1 THEN 0 ELSE 2 * (v[n - 1] + ls[n - 1])]
  <2>2. ASSUME NEW n \in 1..l PROVE v[n] = u[n]
    <3>1. CASE n = 1
      BY <1>3, <2>1, <3>1
    <3>2. CASE n # 1
      <4>1. PICK j \in 1..l : j = n - 1 /\ n # 1
        BY <3>2
      <4>2. w[j] = 2 * (w[j - 1] + ls[j])
        BY <1>4
      <4>3. v[n] = w[j] /\ v[j] = w[j - 1]
        BY <2>1, <4>1
      <4>4. u[n] = 2 * (v[j] + ls[j])
        BY <4>1
      <4> QED
        BY <4>2, <4>3, <4>4
    <3> QED
      BY <3>1, <3>2
  <2>3. v = [n \in 1..l |-> v[n]]
    BY <2>1
  <2>4. v = u
    <3>1. u = [n \in 1..l |-> u[n]]
      OBVIOUS
    <3> HIDE DEF u
    <3> QED
      BY <2>2, <2>3, <3>1
  <2>5. IsFirstCodes(v, ls)
    BY <1>1, <2>4 DEF IsFirstCodes
  <2> QED
    BY <2>5
<1>6. IsFirstCodes(FirstCodes(ls), ls)
  <2>1. FirstCodes(ls) = CHOOSE f : IsFirstCodes(f, ls)
    BY Zenon DEF FirstCodes, IsFirstCodes
  <2> QED
    BY <1>5, <2>1, Zenon
<1>7. PICK f : f = FirstCodes(ls)
  OBVIOUS
<1>8. f = [n \in 1..l |-> IF n = 1 THEN 0 ELSE 2 * (f[n - 1] + ls[n - 1])]
  BY <1>1, <1>6, <1>7 DEF IsFirstCodes
<1>9. (1 \in 1..l => f[1] = 0) /\ \A n \in 2..l : f[n] = 2 * (f[n - 1] + ls[n - 1])
  <2>1. \A n \in 2..l : n \in 1..l /\ n # 1
    OBVIOUS
  <2> QED
    BY <1>8, <2>1
<1> DEFINE Q == {n \in 0..l : n # 0 => f[n] \in Nat}
<1>10. 0 \in Q
  OBVIOUS
<1>11. ASSUME NEW n \in 0..l - 1, n \in Q PROVE n + 1 \in Q
  <2>1. n + 1 \in 0..l /\ n + 1 \in 1..l
    OBVIOUS
  <2>2. CASE n = 0
    BY <1>9, <2>1, <2>2
  <2>3. CASE n # 0
    <3>1. n + 1 \in 2..l /\ (n + 1) - 1 = n /\ n \in 1..l
      BY <2>3
    <3>2. f[n] \in Nat /\ ls[n] \in Nat
      BY <1>1, <1>11, <2>3, <3>1
    <3>3. f[n + 1] = 2 * (f[n] + ls[n])
      BY <1>9, <3>1
    <3>4. f[n + 1] \in Nat
      <4>1. PICK a \in Nat, c \in Nat : a = f[n] /\ c = ls[n]
        BY <3>2
      <4>2. f[n + 1] = 2 * (a + c)
        BY <3>3, <4>1, Zenon
      <4>3. 2 * (a + c) \in Nat
        OBVIOUS
      <4> QED
        BY <4>2, <4>3, Zenon
    <3> QED
      BY <2>1, <3>4
  <2> QED
    BY <2>2, <2>3
<1>12. 0..l \subseteq Q
  <2> HIDE DEF Q
  <2>1. 0 \in Int /\ l \in Int
    OBVIOUS
  <2> QED
    BY <1>10, <1>11, <2>1, IntervalIsInductive, Zenon
<1>13. f \in [1..l -> Nat]
  <2>1. \A n \in 1..l : f[n] \in Nat
    BY <1>12
  <2>2. f = [n \in 1..l |-> f[n]]
    BY <1>8
  <2> QED
    BY <2>1, <2>2
<1> QED
  BY <1>1, <1>7, <1>9, <1>13

IsRoom(f, ls) == f = [n \in 0..Len(ls) |-> IF n = 0 THEN 1 ELSE 2 * f[n - 1] - ls[n]]

LEMMA RoomIs ==
  ASSUME NEW ls \in Seq(Nat)
  PROVE  /\ Room(ls) \in [0..Len(ls) -> Int] /\ Room(ls)[0] = 1
         /\ \A n \in 1..Len(ls) : Room(ls)[n] = 2 * Room(ls)[n - 1] - ls[n]
<1>1. PICK l \in Nat : l = Len(ls) /\ \A j \in 1..l : ls[j] \in Nat
  OBVIOUS
<1> DEFINE g == [j \in Nat |-> [v \in Int |-> IF j \in 1..l THEN 2 * v - ls[j] ELSE v]]
<1>2. g \in [Nat -> [Int -> Int]]
  BY <1>1
<1>3. PICK w \in [0..l -> Int] : w[0] = 1 /\ \A j \in 1..l : w[j] = g[j][w[j - 1]]
  <2> HIDE DEF g
  <2>1. 1 \in Int
    OBVIOUS
  <2>2. PICK f : Iterates(f, Int, 1, g, l)
    BY <1>2, <2>1, Recursion, Zenon
  <2> QED
    BY <2>2 DEF Iterates
<1>4. \A j \in 1..l : w[j] = 2 * w[j - 1] - ls[j]
  <2>1. \A j \in 1..l : j \in Nat /\ w[j - 1] \in Int
    OBVIOUS
  <2> QED
    BY <1>3, <2>1
<1>5. IsRoom(w, ls)
  <2> DEFINE u == [n \in 0..l |-> IF n = 0 THEN 1 ELSE 2 * w[n - 1] - ls[n]]
  <2>1. \A j \in 0..l : w[j] = u[j]
    BY <1>3, <1>4
  <2> HIDE DEF u
  <2>2. w = u
    BY <2>1 DEF u
  <2> QED
    BY <1>1, <2>2 DEF IsRoom, u
<1>6. IsRoom(Room(ls), ls)
  <2>1. Room(ls) = CHOOSE f : IsRoom(f, ls)
    BY Zenon DEF Room, IsRoom
  <2> QED
    BY <1>5, <2>1, Zenon
<1>7. PICK f : f = Room(ls)
  OBVIOUS
<1>8. f = [n \in 0..l |-> IF n = 0 THEN 1 ELSE 2 * f[n - 1] - ls[n]]
  BY <1>1, <1>6, <1>7 DEF IsRoom
<1>9. f[0] = 1 /\ \A j \in 1..l : f[j] = 2 * f[j - 1] - ls[j]
  <2>1. 0 \in 0..l /\ \A j \in 1..l : j \in 0..l /\ j # 0
    OBVIOUS
  <2> QED
    BY <1>8, <2>1
<1>10. f = [n \in 0..l |-> f[n]]
  BY <1>8
<1>11. \A j \in 1..l : f[j - 1] \in Int => f[j] = g[j][f[j - 1]]
  BY <1>9
<1>12. f \in [0..l -> Int]
  <2> HIDE DEF g
  <2>1. 1 \in Int
    OBVIOUS
  <2>2. Iterates(f, Int, 1, g, l)
    BY <1>2, <1>9, <1>10, <1>11, <2>1, IsIterated
  <2> QED
    BY <2>2 DEF Iterates
<1> QED
  BY <1>1, <1>7, <1>9, <1>12

(* The codes of length n are the numbers from FirstCodes(ls)[n] on.        *)
LEMMA CodeOf ==
  ASSUME NEW ls \in Seq(Nat), NEW s \in 1..Sum(ls), NEW c, c = Dict(ls)[s]
  PROVE  /\ c = [length |-> c.length, code |-> c.code] /\ c.length \in 1..Len(ls)
         /\ Sums(ls)[c.length - 1] < s /\ s <= Sums(ls)[c.length]
         /\ c.code = FirstCodes(ls)[c.length] + s - 1 - Sums(ls)[c.length - 1]
         /\ c.code \in Nat /\ FirstCodes(ls)[c.length] <= c.code
         /\ c.code < FirstCodes(ls)[c.length] + ls[c.length]
<1>1. PICK f, l, first : f = Sums(ls) /\ l = Len(ls) /\ first = FirstCodes(ls)
  OBVIOUS
<1>2. /\ l \in Nat /\ f \in [0..l -> Nat] /\ f[0] = 0 /\ DOMAIN ls = 1..l
      /\ \A n \in 1..l : f[n] = f[n - 1] + ls[n]
  BY <1>1, SumsAre
<1>3. s \in Nat /\ 0 < s /\ s <= f[l]
  <2>1. Sum(ls) = f[l] /\ f[l] \in Nat
    BY <1>1, <1>2 DEF Sum
  <2> QED
    BY <2>1
<1>4. \E n \in 1..l : f[n - 1] < s /\ s <= f[n]
  <2> DEFINE T == {n \in 0..l : s <= f[n]}
  <2>1. T \in SUBSET Nat
    OBVIOUS
  <2>2. T # {}
    BY <1>2, <1>3
  <2>3. PICK n \in T : \A m \in T : n <= m
    <3> HIDE DEF T
    <3> QED
      BY <2>1, <2>2, Least
  <2>4. n \in 0..l /\ s <= f[n] /\ n # 0
    BY <1>2, <1>3, <2>3
  <2>5. n \in 1..l /\ n - 1 \in 0..l /\ ~ (n <= n - 1)
    BY <1>2, <2>4
  <2>6. n - 1 \notin T
    BY <2>3, <2>5
  <2>7. ~ (s <= f[n - 1])
    BY <2>5, <2>6
  <2>8. f[n - 1] \in Nat
    BY <1>2, <2>5
  <2> QED
    BY <1>3, <2>4, <2>5, <2>7, <2>8
<1> DEFINE n == CHOOSE n \in DOMAIN ls : f[n - 1] < s /\ s <= f[n]
<1>5. n \in 1..l /\ f[n - 1] < s /\ s <= f[n]
  BY <1>2, <1>4
<1>6. c = [length |-> n, code |-> first[n] + s - 1 - f[n - 1]]
  BY <1>1 DEF Dict
<1> HIDE DEF n
<1>7. first[n] \in Nat /\ f[n - 1] \in Nat /\ f[n] = f[n - 1] + ls[n] /\ ls[n] \in Nat
  <2>1. first \in [1..l -> Nat]
    BY <1>1, FirstCodesAre
  <2>2. n - 1 \in 0..l
    BY <1>2, <1>5
  <2>3. ls[n] \in Nat
    BY <1>1, <1>5
  <2> QED
    BY <1>2, <1>5, <2>1, <2>2, <2>3
<1>8. PICK x : x = first[n] + s - 1 - f[n - 1]
  OBVIOUS
<1>9. x \in Nat /\ first[n] <= x /\ x < first[n] + ls[n]
  <2>1. PICK fst \in Nat, g \in Nat, m \in Nat : fst = first[n] /\ g = f[n - 1] /\ m = ls[n]
    BY <1>7
  <2>2. s \in Nat /\ g < s /\ s <= g + m
    BY <1>3, <1>5, <1>7, <2>1
  <2>3. x = fst + s - 1 - g
    BY <1>8, <2>1
  <2>4. x \in Nat /\ fst <= x /\ x < fst + m
    BY <2>2, <2>3
  <2> QED
    BY <2>1, <2>4
<1>10. c.length = n /\ c.code = x
  BY <1>6, <1>8
<1>11. c = [length |-> c.length, code |-> c.code]
  BY <1>6, <1>10
<1> QED
  BY <1>1, <1>5, <1>8, <1>9, <1>10, <1>11

(* The room behind the codes of each length is never less than none.       *)
LEMMA RoomIsNat ==
  ASSUME NEW ls \in Codes, NEW n \in 0..Len(ls)
  PROVE  ls \in Seq(Nat) /\ Room(ls)[n] \in Nat
<1>1. ls \in Seq(Nat) /\ (ls # <<>> => Room(ls)[Len(ls)] = 0)
  BY FileAssumption
<1>2. PICK f, l : f = Room(ls) /\ l = Len(ls)
  OBVIOUS
<1>3. l \in Nat /\ \A j \in 1..l : ls[j] \in Nat
  BY <1>1, <1>2
<1>4. f \in [0..l -> Int] /\ f[0] = 1 /\ \A j \in 1..l : f[j] = 2 * f[j - 1] - ls[j]
  BY <1>1, <1>2, RoomIs
<1>5. f[l] \in Nat
  <2>1. CASE l = 0
    BY <1>4, <2>1
  <2>2. CASE l # 0
    <3>1. ls # <<>>
      BY <1>2, <2>2
    <3> QED
      BY <1>1, <1>2, <3>1
  <2> QED
    BY <2>1, <2>2
<1> DEFINE Q == {d \in 0..l : f[l - d] \in Nat}
<1>6. 0 \in Q
  <2>1. l - 0 = l /\ 0 \in 0..l
    BY <1>3
  <2> QED
    BY <1>5, <2>1
<1>7. ASSUME NEW d \in 0..l - 1, d \in Q PROVE d + 1 \in Q
  <2>1. PICK j : j = l - d
    OBVIOUS
  <2>2. j \in 1..l /\ l - (d + 1) = j - 1 /\ j - 1 \in 0..l /\ d + 1 \in 0..l
    BY <1>3, <2>1
  <2>3. f[j] = 2 * f[j - 1] - ls[j] /\ f[j] \in Nat /\ ls[j] \in Nat /\ f[j - 1] \in Int
    BY <1>3, <1>4, <1>7, <2>1, <2>2
  <2>4. f[j - 1] \in Nat
    BY <2>3
  <2> QED
    BY <2>2, <2>4
<1>8. 0..l \subseteq Q
  <2> HIDE DEF Q
  <2>1. 0 \in Int /\ l \in Int
    BY <1>3
  <2> QED
    BY <1>6, <1>7, <2>1, IntervalIsInductive, Zenon
<1>9. l - n \in 0..l /\ l - (l - n) = n
  BY <1>2, <1>3
<1>10. f[n] \in Nat
  BY <1>8, <1>9
<1> QED
  BY <1>1, <1>2, <1>10

(* A code of length n has no bits but the last n.                          *)
LEMMA CodeIsShort ==
  ASSUME NEW ls \in Codes, NEW n \in 1..Len(ls),
         NEW x \in Nat, x < FirstCodes(ls)[n] + ls[n]
  PROVE  n <= WordBits /\ \A j \in n..WordBits : Halves(x)[j] = 0
<1>1. PICK f, l, first, h : /\ f = Room(ls) /\ l = Len(ls) /\ first = FirstCodes(ls)
                            /\ h = Halves(x)
  OBVIOUS
<1>2. ls \in Seq(Nat) /\ l <= WordBits
  <2>1. ls \in Seq(Nat) /\ Len(ls) <= WordBits - ByteBits
    BY FileAssumption
  <2> QED
    BY <1>1, <2>1, Sizes
<1>3. /\ l \in Nat /\ n \in 1..l /\ n <= WordBits /\ WordBits \in Nat
      /\ \A j \in 1..l : ls[j] \in Nat /\ first[j] \in Nat
      /\ \A j \in 0..l : f[j] \in Nat
  <2>1. \A j \in 1..l : ls[j] \in Nat
    BY <1>1, <1>2
  <2>2. first \in [1..l -> Nat]
    BY <1>1, <1>2, FirstCodesAre
  <2>3. \A j \in 0..l : f[j] \in Nat
    BY <1>1, RoomIsNat
  <2>4. l \in Nat /\ n \in 1..l
    BY <1>1, <1>2
  <2>5. n <= WordBits /\ WordBits \in Nat
    BY <1>2, <2>4, Sizes
  <2>6. \A j \in 1..l : first[j] \in Nat
    BY <2>2
  <2> QED
    BY <2>1, <2>3, <2>4, <2>5, <2>6
<1>4. /\ f[0] = 1 /\ \A j \in 1..l : f[j] = 2 * f[j - 1] - ls[j]
  BY <1>1, <1>2, RoomIs
<1>5. first[1] = 0 /\ \A j \in 2..l : first[j] = 2 * (first[j - 1] + ls[j - 1])
  <2>1. 1 \in 1..l
    BY <1>3
  <2> QED
    BY <1>1, <1>2, <2>1, FirstCodesAre
<1>6. h[0] = x /\ \A j \in 1..WordBits : h[j] = h[j - 1] \div 2
  BY <1>1, HalvesAre
<1>7. \A j \in 0..WordBits : h[j] \in Nat
  BY <1>1, HalvesAre
<1> DEFINE Top(m) == IF m = 0 THEN 1 ELSE first[m] + ls[m] + f[m]
<1>8. ASSUME NEW m \in 1..n PROVE Top(m - 1) \in Nat /\ Top(m) = 2 * Top(m - 1)
  <2>1. m \in 1..l /\ m - 1 \in 0..l
    BY <1>3
  <2>2. /\ f[m] = 2 * f[m - 1] - ls[m] /\ f[m - 1] \in Nat /\ f[m] \in Nat
        /\ ls[m] \in Nat /\ first[m] \in Nat
    BY <1>3, <1>4, <2>1
  <2>3. CASE m = 1
    BY <1>4, <1>5, <2>2, <2>3
  <2>4. CASE m # 1
    <3>1. m \in 2..l /\ m - 1 \in 1..l /\ m - 1 # 0 /\ m # 0
      BY <2>1, <2>4
    <3>2. ls[m - 1] \in Nat /\ first[m - 1] \in Nat /\ first[m] = 2 * (first[m - 1] + ls[m - 1])
      BY <1>3, <1>5, <3>1
    <3>3. Top(m) = first[m] + ls[m] + f[m] /\ Top(m - 1) = first[m - 1] + ls[m - 1] + f[m - 1]
      BY <3>1
    <3>4. PICK a \in Nat, b \in Nat, d \in Nat : a = first[m - 1] /\ b = ls[m - 1] /\ d = f[m - 1]
      BY <2>2, <3>2
    <3>5. Top(m) = 2 * (a + b) + ls[m] + (2 * d - ls[m]) /\ Top(m - 1) = a + b + d
      BY <2>2, <3>2, <3>3, <3>4, Zenon
    <3>6. PICK p, q, e : p = Top(m) /\ q = Top(m - 1) /\ e = ls[m]
      OBVIOUS
    <3>7. p = 2 * (a + b) + e + (2 * d - e) /\ q = a + b + d
      BY <3>5, <3>6, Zenon
    <3>8. q \in Nat /\ p = 2 * q
      <4>1. e \in Nat
        BY <2>2, <3>6
      <4> QED
        BY <3>7, <4>1
    <3> QED
      BY <3>6, <3>8, Zenon
  <2> QED
    BY <2>3, <2>4
<1> DEFINE Q == {j \in 0..n : h[j] < Top(n - j)}
<1>9. 0 \in Q
  <2>1. n - 0 = n /\ n # 0 /\ 0 \in 0..n /\ f[n] \in Nat /\ first[n] \in Nat /\ ls[n] \in Nat
    BY <1>3
  <2>2. Top(n) = first[n] + ls[n] + f[n]
    BY <2>1
  <2>3. x < Top(n)
    BY <1>1, <2>1, <2>2
  <2> QED
    BY <1>6, <2>1, <2>3
<1>10. ASSUME NEW j \in 0..n - 1, j \in Q PROVE j + 1 \in Q
  <2>1. PICK m : m = n - j
    OBVIOUS
  <2>2. m \in 1..n /\ n - (j + 1) = m - 1 /\ j + 1 \in 0..n /\ j + 1 \in 1..WordBits /\ (j + 1) - 1 = j
    BY <1>3, <2>1
  <2>3. PICK t \in Nat : t = Top(m - 1) /\ Top(m) = 2 * t
    BY <1>8, <2>2
  <2> HIDE DEF Top
  <2>4. h[j + 1] = h[j] \div 2 /\ h[j] \in Nat
    <3>1. j \in 0..WordBits
      BY <1>3
    <3> QED
      BY <1>6, <1>7, <2>2, <3>1
  <2>5. h[j] < 2 * t
    BY <1>10, <2>1, <2>3
  <2>6. h[j] \div 2 < t
    BY <2>4, <2>5
  <2> QED
    BY <2>2, <2>3, <2>4, <2>6
<1>11. 0..n \subseteq Q
  <2> HIDE DEF Q
  <2>1. 0 \in Int /\ n \in Int
    OBVIOUS
  <2> QED
    BY <1>9, <1>10, <2>1, IntervalIsInductive, Zenon
<1>12. h[n] = 0
  <2>1. n \in Q /\ n - n = 0 /\ n \in 0..WordBits
    BY <1>3, <1>11
  <2>2. h[n] < 1
    BY <2>1
  <2> QED
    BY <1>7, <2>1, <2>2
<1> DEFINE Z == {j \in n..WordBits : h[j] = 0}
<1>13. n \in Z
  BY <1>3, <1>12
<1>14. ASSUME NEW j \in n..WordBits - 1, j \in Z PROVE j + 1 \in Z
  <2>1. j + 1 \in n..WordBits /\ j + 1 \in 1..WordBits /\ (j + 1) - 1 = j
    BY <1>3
  <2>2. h[j + 1] = 0 \div 2
    BY <1>6, <1>14, <2>1
  <2>3. 0 \div 2 = 0
    OBVIOUS
  <2> QED
    BY <2>1, <2>2, <2>3
<1>15. n..WordBits \subseteq Z
  <2> HIDE DEF Z
  <2>1. n \in Int /\ WordBits \in Int
    BY <1>3
  <2> QED
    BY <1>13, <1>14, <2>1, IntervalIsInductive, Zenon
<1> QED
  BY <1>1, <1>3, <1>15

LEMMA DictFits ==
  ASSUME NEW ls \in Codes, NEW s \in 1..Sum(ls)
  PROVE  Fits(Dict(ls)[s])
<1>1. PICK c : c = Dict(ls)[s]
  OBVIOUS
<1>2. ls \in Seq(Nat) /\ Len(ls) <= WordBits - ByteBits
  BY FileAssumption
<1>3. /\ c = [length |-> c.length, code |-> c.code] /\ c.length \in 1..Len(ls)
      /\ c.code \in Nat /\ c.code < FirstCodes(ls)[c.length] + ls[c.length]
  BY <1>1, <1>2, CodeOf
<1>4. PICK n, x : n = c.length /\ x = c.code
  OBVIOUS
<1>5. n \in 1..WordBits - ByteBits /\ WordBits \in Nat /\ n <= WordBits
  BY <1>2, <1>3, <1>4, Sizes
<1>6. \A j \in n..WordBits : Halves(x)[j] = 0
  BY <1>3, <1>4, CodeIsShort
<1>7. ASSUME NEW j \in 1..WordBits - n PROVE Bits(x)[j] = 0
  <2>1. j \in 1..WordBits /\ WordBits - j \in n..WordBits
    BY <1>5
  <2>2. Bits(x)[j] = Halves(x)[WordBits - j] % 2
    BY <1>3, <1>4, <2>1, BitsAre
  <2>3. Halves(x)[WordBits - j] = 0
    BY <1>6, <2>1
  <2> QED
    BY <2>2, <2>3
<1>8. c \in [length : 1..WordBits - ByteBits, code : Nat]
  BY <1>3, <1>4, <1>5
<1> QED
  BY <1>1, <1>4, <1>7, <1>8 DEF Fits

(* No code is where another begins.                                        *)
LEMMA CodesApart ==
  ASSUME NEW ls \in Codes, NEW s \in 1..Sum(ls), NEW t \in 1..Sum(ls),
         IsPrefix(CodeBits(Dict(ls)[s]), CodeBits(Dict(ls)[t]))
  PROVE  s = t
<1>1. PICK a, b, n, m, x, y : /\ a = Dict(ls)[s] /\ b = Dict(ls)[t] /\ n = a.length /\ m = b.length
                              /\ x = a.code /\ y = b.code
  OBVIOUS
<1>2. PICK f, l, first, hx, hy : /\ f = Sums(ls) /\ l = Len(ls) /\ first = FirstCodes(ls)
                                 /\ hx = Halves(x) /\ hy = Halves(y)
  OBVIOUS
<1>3. ls \in Seq(Nat) /\ l <= WordBits - ByteBits
  BY <1>2, FileAssumption
<1>4. /\ n \in 1..l /\ x \in Nat /\ x < first[n] + ls[n]
      /\ x = first[n] + s - 1 - f[n - 1]
  BY <1>1, <1>2, <1>3, CodeOf
<1>5. /\ m \in 1..l /\ y \in Nat /\ y < first[m] + ls[m] /\ first[m] <= y
      /\ y = first[m] + t - 1 - f[m - 1]
  BY <1>1, <1>2, <1>3, CodeOf
<1>6. /\ l \in Nat /\ WordBits \in Nat /\ n <= WordBits /\ m <= WordBits
  BY <1>2, <1>3, <1>4, <1>5, Sizes, SMTT(30)
<1>7. hx[n] = 0 /\ hy[m] = 0
  <2>1. n \in n..WordBits /\ m \in m..WordBits
    BY <1>4, <1>5, <1>6
  <2>2. \A j \in n..WordBits : hx[j] = 0
    BY <1>2, <1>4, CodeIsShort
  <2>3. \A j \in m..WordBits : hy[j] = 0
    BY <1>2, <1>5, CodeIsShort
  <2> QED
    BY <2>1, <2>2, <2>3
<1>8. /\ hx[0] = x /\ \A j \in 1..WordBits : hx[j] = hx[j - 1] \div 2
      /\ hy[0] = y /\ \A j \in 1..WordBits : hy[j] = hy[j - 1] \div 2
  BY <1>2, <1>4, <1>5, HalvesAre
<1>9. \A j \in 0..WordBits : hx[j] \in Nat /\ hy[j] \in Nat
  <2>1. hx \in [0..WordBits -> Nat] /\ hy \in [0..WordBits -> Nat]
    BY <1>2, <1>4, <1>5, HalvesAre
  <2> QED
    BY <2>1
<1>10. n <= m /\ \A j \in 1..n : hx[n - j] % 2 = hy[m - j] % 2
  <2>1. /\ CodeBits(a) \in Seq(Bit) /\ Len(CodeBits(a)) = n
        /\ \A j \in 1..n : CodeBits(a)[j] = Bits(x)[(WordBits - n) + j]
    BY <1>1, DictFits, CodeBitsAre
  <2>2. /\ CodeBits(b) \in Seq(Bit) /\ Len(CodeBits(b)) = m
        /\ \A j \in 1..m : CodeBits(b)[j] = Bits(y)[(WordBits - m) + j]
    BY <1>1, DictFits, CodeBitsAre
  <2>3. PICK u, v : u = CodeBits(a) /\ v = CodeBits(b)
    OBVIOUS
  <2>4. Len(u) <= Len(v) /\ SubSeq(u, 1, Len(u)) = SubSeq(v, 1, Len(u))
    BY <1>1, <2>3 DEF IsPrefix
  <2>5. n <= m
    BY <2>1, <2>2, <2>3, <2>4
  <2>6. ASSUME NEW j \in 1..n PROVE hx[n - j] % 2 = hy[m - j] % 2
    <3>1. n \in 0..Len(u) /\ n \in 0..Len(v) /\ u \in Seq(Bit) /\ v \in Seq(Bit)
      BY <1>4, <2>1, <2>2, <2>3, <2>5
    <3>2. SubSeq(u, 1, n)[j] = u[j] /\ SubSeq(v, 1, n)[j] = v[j]
      BY <3>1, FirstOf
    <3>3. u[j] = v[j]
      BY <2>1, <2>3, <2>4, <3>2
    <3>4. j \in 1..m
      BY <2>5, <1>4, <1>5
    <3>5. Bits(x)[(WordBits - n) + j] = Bits(y)[(WordBits - m) + j]
      BY <2>1, <2>2, <2>3, <3>3, <3>4
    <3>6. /\ (WordBits - n) + j \in 1..WordBits /\ WordBits - ((WordBits - n) + j) = n - j
          /\ (WordBits - m) + j \in 1..WordBits /\ WordBits - ((WordBits - m) + j) = m - j
      BY <1>4, <1>5, <1>6, <3>4
    <3>7. Bits(x)[(WordBits - n) + j] = hx[WordBits - ((WordBits - n) + j)] % 2
      BY <1>2, <1>4, <3>6, BitsAre
    <3>8. Bits(y)[(WordBits - m) + j] = hy[WordBits - ((WordBits - m) + j)] % 2
      BY <1>2, <1>5, <3>6, BitsAre
    <3> QED
      BY <3>5, <3>6, <3>7, <3>8
  <2> QED
    BY <2>5, <2>6
<1> DEFINE Q == {j \in 0..n : hx[n - j] = hy[m - j]}
<1>11. 0 \in Q
  <2>1. n - 0 = n /\ m - 0 = m /\ 0 \in 0..n
    BY <1>4, <1>5
  <2> QED
    BY <1>7, <2>1
<1>12. ASSUME NEW j \in 0..n - 1, j \in Q PROVE j + 1 \in Q
  <2>1. PICK c, d : c = n - (j + 1) /\ d = m - (j + 1)
    OBVIOUS
  <2>2. /\ c \in 0..WordBits /\ d \in 0..WordBits /\ n - j = c + 1 /\ m - j = d + 1
        /\ c + 1 \in 1..WordBits /\ d + 1 \in 1..WordBits /\ (c + 1) - 1 = c /\ (d + 1) - 1 = d
        /\ j + 1 \in 1..n /\ j + 1 \in 0..n
    BY <1>4, <1>5, <1>6, <1>10, <2>1
  <2>3. hx[c + 1] = hx[c] \div 2 /\ hy[d + 1] = hy[d] \div 2 /\ hx[c] \in Nat /\ hy[d] \in Nat
    BY <1>8, <1>9, <2>2
  <2>4. hx[c] % 2 = hy[d] % 2
    BY <1>10, <2>1, <2>2
  <2>5. hx[c + 1] = hy[d + 1]
    BY <1>12, <2>2
  <2>6. hx[c] = hy[d]
    BY <2>3, <2>4, <2>5
  <2> QED
    BY <2>1, <2>2, <2>6
<1>13. 0..n \subseteq Q
  <2> HIDE DEF Q
  <2>1. 0 \in Int /\ n \in Int
    BY <1>4
  <2> QED
    BY <1>11, <1>12, <2>1, IntervalIsInductive, Zenon
<1>14. x = hy[m - n]
  <2>1. n \in Q /\ n - n = 0
    BY <1>4, <1>13
  <2> QED
    BY <1>8, <2>1
<1>15. CASE n = m
  <2>1. m - n = 0
    BY <1>5, <1>15
  <2>2. x = y
    BY <1>8, <1>14, <2>1
  <2>3. first[n] \in Nat /\ f[n - 1] \in Nat
    <3>1. first \in [1..l -> Nat] /\ f \in [0..l -> Nat]
      BY <1>2, <1>3, FirstCodesAre, SumsAre
    <3>2. n - 1 \in 0..l
      BY <1>4, <1>6
    <3> QED
      BY <1>4, <3>1, <3>2
  <2>4. Sum(ls) \in Nat
    BY <1>3, SumsAre
  <2>5. PICK p \in Nat, q \in Nat : p = first[n] /\ q = f[n - 1]
    BY <2>3
  <2>6. x = p + s - 1 - q /\ x = p + t - 1 - q
    BY <1>4, <1>5, <1>15, <2>2, <2>5
  <2> QED
    BY <2>4, <2>6
<1>16. CASE n # m
  <2>1. n < m
    BY <1>4, <1>5, <1>10, <1>16
  <2> DEFINE End(j) == first[j] + ls[j]
             R == {d \in 1..m - 1 : End(m - d) <= hy[d]}
  <2>2. ASSUME NEW j \in 1..l PROVE first[j] \in Nat /\ ls[j] \in Nat /\ End(j) \in Nat
    <3>1. first \in [1..l -> Nat]
      BY <1>2, <1>3, FirstCodesAre
    <3>2. ls[j] \in Nat
      BY <1>2, <1>3
    <3> QED
      BY <3>1, <3>2
  <2>3. ASSUME NEW j \in 1..l - 1 PROVE first[j + 1] = 2 * End(j)
    <3>1. j + 1 \in 2..l /\ (j + 1) - 1 = j
      BY <1>6
    <3>2. first[j + 1] = 2 * (first[(j + 1) - 1] + ls[(j + 1) - 1])
      BY <1>2, <1>3, <3>1, FirstCodesAre
    <3> QED
      BY <3>1, <3>2
  <2>4. ASSUME NEW d \in 0..m - 2, first[m - d] <= hy[d] PROVE d + 1 \in R
    <3>1. PICK j : j = m - (d + 1)
      OBVIOUS
    <3>2. j \in 1..l - 1 /\ j \in 1..l /\ j + 1 = m - d
      BY <1>5, <1>6, <3>1
    <3>3. PICK e \in Nat : e = End(j)
      BY <2>2, <3>2
    <3>4. first[m - d] = 2 * e
      BY <2>3, <3>2, <3>3
    <3>5. d \in 0..WordBits /\ d + 1 \in 1..WordBits /\ (d + 1) - 1 = d /\ d + 1 \in 1..m - 1
      BY <1>5, <1>6
    <3>6. hy[d + 1] = hy[d] \div 2 /\ hy[d] \in Nat
      BY <1>8, <1>9, <3>5
    <3>7. 2 * e <= hy[d]
      BY <2>4, <3>4
    <3>8. e <= hy[d + 1]
      BY <3>6, <3>7
    <3> HIDE DEF End
    <3> QED
      BY <3>1, <3>3, <3>5, <3>8
  <2>5. 1 \in R
    <3>1. 0 \in 0..m - 2 /\ m - 0 = m /\ 0 + 1 = 1
      BY <1>4, <1>5, <2>1
    <3>2. first[m - 0] <= hy[0]
      BY <1>5, <1>8, <3>1
    <3> HIDE DEF R
    <3> QED
      BY <2>4, <3>1, <3>2
  <2>6. ASSUME NEW d \in 1..(m - 1) - 1, d \in R PROVE d + 1 \in R
    <3>1. d \in 0..m - 2 /\ m - d \in 1..l /\ d \in 0..WordBits
      BY <1>5, <1>6
    <3>2. first[m - d] \in Nat /\ ls[m - d] \in Nat /\ hy[d] \in Nat
      BY <1>9, <2>2, <3>1
    <3>3. first[m - d] + ls[m - d] <= hy[d]
      BY <2>6
    <3>4. first[m - d] <= hy[d]
      BY <3>2, <3>3
    <3> HIDE DEF R
    <3> QED
      BY <2>4, <3>1, <3>4
  <2>7. 1..m - 1 \subseteq R
    <3> HIDE DEF R
    <3>1. 1 \in Int /\ m - 1 \in Int
      BY <1>5
    <3> QED
      BY <2>5, <2>6, <3>1, IntervalIsInductive, Zenon
  <2>8. m - n \in 1..m - 1 /\ m - (m - n) = n
    BY <1>4, <1>5, <2>1
  <2>9. End(n) <= x
    BY <1>14, <2>7, <2>8
  <2>10. End(n) \in Nat
    BY <1>4, <2>2
  <2> QED
    BY <1>4, <2>9, <2>10
<1> QED
  BY <1>15, <1>16

(* What is decoded with.                                                   *)
Decodable(dict) ==
  IsPrefixCode(dict) /\ \A s \in DOMAIN dict : Fits(dict[s])

LEMMA DictIsDecodable ==
  ASSUME NEW ls \in Codes
  PROVE  Decodable(Dict(ls)) /\ DOMAIN Dict(ls) = 1..Sum(ls)
<1>1. DOMAIN Dict(ls) = 1..Sum(ls)
  BY DEF Dict
<1>2. \A s \in 1..Sum(ls) : Fits(Dict(ls)[s])
  BY DictFits
<1>3. \A s, t \in 1..Sum(ls) : s # t => ~ IsPrefix(CodeBits(Dict(ls)[s]), CodeBits(Dict(ls)[t]))
  BY CodesApart
<1>4. \A s \in 1..Sum(ls) : \A n \in 1..WordBits - Dict(ls)[s].length : Bits(Dict(ls)[s].code)[n] = 0
  BY <1>2 DEF Fits
<1> QED
  BY <1>1, <1>2, <1>3, <1>4 DEF Decodable, IsPrefixCode

-----------------------------------------------------------------------------
(* Decoding.                                                               *)

(* The codes of the first n symbols of a text.                             *)
Coded(dict, text, n) == FlattenSeq([j \in 1..n |-> CodeBits(dict[text[j]])])

LEMMA CodedIs ==
  ASSUME NEW dict, Decodable(dict), NEW text \in Seq(DOMAIN dict)
  PROVE  /\ Coded(dict, text, 0) = <<>>
         /\ \A n \in 0..Len(text) : Coded(dict, text, n) \in Seq(Bit)
         /\ \A n \in 1..Len(text) :
              Coded(dict, text, n) = Coded(dict, text, n - 1) \o CodeBits(dict[text[n]])
<1> DEFINE Codes8(n) == [j \in 1..n |-> CodeBits(dict[text[j]])]
<1>1. ASSUME NEW n \in 0..Len(text) PROVE Codes8(n) \in Seq(Seq(Bit)) /\ Len(Codes8(n)) = n
  <2>1. ASSUME NEW j \in 1..n PROVE CodeBits(dict[text[j]]) \in Seq(Bit)
    <3>1. text[j] \in DOMAIN dict
      <4>1. j \in 1..Len(text)
        OBVIOUS
      <4> QED
        BY <4>1, ElementOfSeq
    <3>2. Fits(dict[text[j]])
      BY <3>1 DEF Decodable
    <3> QED
      BY <3>2, CodeBitsAre
  <2> QED
    BY <2>1
<1>2. ASSUME NEW n \in 1..Len(text)
      PROVE  /\ CodeBits(dict[text[n]]) \in Seq(Bit)
             /\ Codes8(n) = Append(Codes8(n - 1), CodeBits(dict[text[n]]))
  <2>1. n \in 0..Len(text) /\ n - 1 \in 0..Len(text) /\ n \in 1..n /\ n - 1 \in Nat /\ n \in Nat
    OBVIOUS
  <2>2. CodeBits(dict[text[n]]) \in Seq(Bit)
    <3>1. Codes8(n) \in Seq(Seq(Bit)) /\ Len(Codes8(n)) = n /\ Codes8(n)[n] = CodeBits(dict[text[n]])
      BY <1>1, <2>1
    <3> HIDE DEF Codes8
    <3> QED
      BY <2>1, <3>1, ElementOfSeq
  <2>3. PICK u, v, x : u = Codes8(n - 1) /\ v = Codes8(n) /\ x = CodeBits(dict[text[n]])
    OBVIOUS
  <2>4. /\ u \in Seq(Seq(Bit)) /\ Len(u) = n - 1 /\ v \in Seq(Seq(Bit)) /\ Len(v) = n
    BY <1>1, <2>1, <2>3
  <2>5. \A j \in 1..n - 1 : v[j] = u[j]
    BY <2>3
  <2>6. v[n] = x
    BY <2>1, <2>3
  <2>7. x \in Seq(Bit)
    BY <2>2, <2>3
  <2>8. v = Append(u, x)
    <3>1. /\ Append(u, x) \in Seq(Seq(Bit)) /\ Len(Append(u, x)) = n
          /\ \A j \in 1..n - 1 : Append(u, x)[j] = u[j]
          /\ Append(u, x)[n] = x
      BY <2>1, <2>4, <2>7, AppendProperties
    <3>2. \A j \in 1..n : v[j] = Append(u, x)[j]
      BY <2>1, <2>5, <2>6, <3>1
    <3> QED
      BY <2>4, <3>1, <3>2, SeqEqual
  <2> QED
    BY <2>2, <2>3, <2>8
<1>3. Coded(dict, text, 0) = <<>>
  <2>1. Codes8(0) = <<>>
    OBVIOUS
  <2> QED
    BY <2>1, FlattenNone DEF Coded
<1>4. ASSUME NEW n \in 0..Len(text) PROVE Coded(dict, text, n) \in Seq(Bit)
  <2>1. PICK v \in Seq(Seq(Bit)) : v = Codes8(n)
    BY <1>1
  <2>2. FlattenSeq(v) \in Seq(Bit)
    <3>1. <<>> \in Seq(Bit)
      OBVIOUS
    <3> QED
      BY <3>1, FlattenNext
  <2> QED
    BY <2>1, <2>2 DEF Coded
<1>5. ASSUME NEW n \in 1..Len(text)
      PROVE  Coded(dict, text, n) = Coded(dict, text, n - 1) \o CodeBits(dict[text[n]])
  <2>1. n - 1 \in 0..Len(text)
    OBVIOUS
  <2>2. PICK u \in Seq(Seq(Bit)), x \in Seq(Bit) : u = Codes8(n - 1) /\ x = CodeBits(dict[text[n]])
    BY <1>1, <1>2, <2>1
  <2>3. FlattenSeq(Append(u, x)) = FlattenSeq(u) \o x
    BY FlattenNext
  <2>4. Codes8(n) = Append(u, x)
    BY <1>2, <2>2
  <2> QED
    BY <2>2, <2>3, <2>4 DEF Coded
<1> QED
  BY <1>3, <1>4, <1>5

LEMMA PrefixIs ==
  ASSUME NEW S, NEW u \in Seq(S), NEW v \in Seq(S), Len(u) <= Len(v),
         \A j \in 1..Len(u) : u[j] = v[j]
  PROVE  IsPrefix(u, v)
<1>1. SubSeq(u, 1, Len(u)) = u
  BY SubSeqFull
<1>2. PICK b \in Nat : b = Len(u)
  OBVIOUS
<1>3. b \in 0..Len(v)
  BY <1>2
<1>4. PICK w : w = SubSeq(v, 1, b)
  OBVIOUS
<1>5. w \in Seq(S) /\ Len(w) = b /\ \A j \in 1..b : w[j] = v[j]
  BY <1>3, <1>4, FirstOf
<1>6. w = u
  BY <1>2, <1>5, SeqEqual
<1> QED
  BY <1>1, <1>2, <1>4, <1>6 DEF IsPrefix

(* While a code is read, it is found when all of it is there, not before,  *)
(* and nothing else is.                                                    *)
Found(dict, bits) == {s \in DOMAIN dict : CodeBits(dict[s]) = bits}

LEMMA FoundIs ==
  ASSUME NEW dict, Decodable(dict), NEW s \in DOMAIN dict, NEW h \in 1..Len(CodeBits(dict[s]))
  PROVE  Found(dict, SubSeq(CodeBits(dict[s]), 1, h)) = IF h < Len(CodeBits(dict[s])) THEN {} ELSE {s}
<1>0. PICK code : code = CodeBits(dict[s])
  OBVIOUS
<1>1. code \in Seq(Bit) /\ h \in 1..Len(code)
  BY <1>0, CodeBitsAre DEF Decodable
<1>2. PICK u : u = SubSeq(code, 1, h)
  OBVIOUS
<1>3. u \in Seq(Bit) /\ Len(u) = h /\ \A j \in 1..h : u[j] = code[j]
  <2>1. h \in 0..Len(code)
    BY <1>1
  <2> QED
    BY <1>1, <1>2, <2>1, FirstOf
<1>4. ASSUME NEW t \in DOMAIN dict, CodeBits(dict[t]) = u PROVE t = s
  <2>1. IsPrefix(u, code)
    BY <1>1, <1>3, PrefixIs
  <2> QED
    BY <1>0, <1>4, <2>1 DEF Decodable, IsPrefixCode
<1>5. CASE h < Len(code)
  <2>1. u # code
    BY <1>1, <1>3, <1>5
  <2>2. \A t \in DOMAIN dict : CodeBits(dict[t]) # u
    BY <1>0, <1>4, <2>1
  <2> QED
    BY <1>0, <1>2, <1>5, <2>2 DEF Found
<1>6. CASE ~ (h < Len(code))
  <2>1. h = Len(code)
    BY <1>1, <1>6
  <2>2. u = code
    BY <1>1, <1>2, <2>1, SubSeqFull
  <2>3. Found(dict, u) = {s}
    BY <1>0, <1>4, <2>2 DEF Found
  <2> QED
    BY <1>0, <1>2, <1>6, <2>3
<1> QED
  BY <1>0, <1>5, <1>6

States(dict) == [pending : Seq(Bit), pushed : Seq(DOMAIN dict)]

LEMMA CheckBitIs ==
  ASSUME NEW dict, NEW state \in States(dict), NEW bit \in Bit
  PROVE  /\ CheckBit(dict, state, bit) \in States(dict)
         /\ Len(CheckBit(dict, state, bit).pushed) \in Len(state.pushed)..Len(state.pushed) + 1
         /\ \A j \in 1..Len(state.pushed) : CheckBit(dict, state, bit).pushed[j] = state.pushed[j]
<1>1. PICK bits : bits = Append(state.pending, bit)
  OBVIOUS
<1>2. state.pending \in Seq(Bit) /\ state.pushed \in Seq(DOMAIN dict) /\ bits \in Seq(Bit)
  BY <1>1 DEF States
<1>3. PICK l \in Nat : l = Len(state.pushed)
  BY <1>2
<1>4. CASE Found(dict, bits) = {}
  <2>1. CheckBit(dict, state, bit) = [state EXCEPT !.pending = bits]
    BY <1>1, <1>4, Zenon DEF CheckBit, Found
  <2>2. /\ [state EXCEPT !.pending = bits] \in States(dict)
        /\ [state EXCEPT !.pending = bits].pushed = state.pushed
    BY <1>2 DEF States
  <2> QED
    BY <1>3, <2>1, <2>2
<1>5. CASE Found(dict, bits) # {}
  <2>1. PICK s \in DOMAIN dict : s = CHOOSE t \in Found(dict, bits) : TRUE
    BY <1>5 DEF Found
  <2>2. CheckBit(dict, state, bit) = [pending |-> <<>>, pushed |-> Append(state.pushed, s)]
    BY <1>1, <1>5, <2>1, Zenon DEF CheckBit, Found
  <2>3. PICK p, q : p = state.pushed /\ q = Append(p, s)
    OBVIOUS
  <2>4. q \in Seq(DOMAIN dict) /\ Len(q) = l + 1 /\ \A j \in 1..l : q[j] = p[j]
    BY <1>2, <1>3, <2>3, AppendProperties
  <2>5. [pending |-> <<>>, pushed |-> q] \in States(dict)
    BY <2>4 DEF States
  <2> QED
    BY <1>3, <2>2, <2>3, <2>4, <2>5
<1> QED
  BY <1>4, <1>5

NoSymbols == [pending |-> <<>>, pushed |-> <<>>]

Decoding(f, dict, bits) ==
  /\ f \in [0..Len(bits) -> States(dict)] /\ f[0] = NoSymbols
  /\ \A n \in 1..Len(bits) : f[n] = CheckBit(dict, f[n - 1], bits[n])

IsDecoding(f, dict, bits) ==
  f = [n \in 0..Len(bits) |-> IF n = 0 THEN NoSymbols ELSE CheckBit(dict, f[n - 1], bits[n])]

LEMMA DecodingIs ==
  ASSUME NEW dict, NEW bytes, FlattenSeq(bytes) \in Seq(Bit)
  PROVE  \E f : /\ Decoding(f, dict, FlattenSeq(bytes))
                /\ huffman_canonical_decode(dict, bytes) = f[Len(FlattenSeq(bytes))].pushed
<1>0. PICK bits \in Seq(Bit) : bits = FlattenSeq(bytes)
  OBVIOUS
<1>1. PICK l \in Nat : l = Len(bits) /\ \A j \in 1..l : bits[j] \in Bit
  OBVIOUS
<1>2. PICK T : T = States(dict)
  OBVIOUS
<1>3. NoSymbols \in T
  BY <1>2 DEF NoSymbols, States
<1> DEFINE g == [j \in Nat |-> [v \in T |-> IF j \in 1..l THEN CheckBit(dict, v, bits[j]) ELSE v]]
<1>4. g \in [Nat -> [T -> T]]
  <2>1. ASSUME NEW j \in Nat, NEW v \in T PROVE (IF j \in 1..l THEN CheckBit(dict, v, bits[j]) ELSE v) \in T
    BY <1>1, <1>2, CheckBitIs
  <2> QED
    BY <2>1
<1>5. PICK w \in [0..l -> T] : w[0] = NoSymbols /\ \A j \in 1..l : w[j] = g[j][w[j - 1]]
  <2> HIDE DEF g
  <2>1. PICK f : Iterates(f, T, NoSymbols, g, l)
    BY <1>1, <1>3, <1>4, Recursion, Zenon
  <2> QED
    BY <2>1 DEF Iterates
<1>6. \A j \in 1..l : w[j] = CheckBit(dict, w[j - 1], bits[j])
  <2>1. \A j \in 1..l : j \in Nat /\ w[j - 1] \in T
    BY <1>5
  <2> QED
    BY <1>5, <2>1
<1>7. IsDecoding(w, dict, bits)
  <2> DEFINE u == [n \in 0..l |-> IF n = 0 THEN NoSymbols ELSE CheckBit(dict, w[n - 1], bits[n])]
  <2>1. \A j \in 0..l : w[j] = u[j]
    BY <1>5, <1>6
  <2> HIDE DEF u
  <2>2. w = u
    BY <1>5, <2>1 DEF u
  <2> QED
    BY <1>1, <2>2 DEF IsDecoding, u
<1>8. PICK f : f = CHOOSE h : IsDecoding(h, dict, bits)
  OBVIOUS
<1>9. huffman_canonical_decode(dict, bytes) = f[l].pushed
  <2>1. f = CHOOSE h : h = [n \in 0..Len(bits) |-> IF n = 0 THEN [pending |-> <<>>, pushed |-> <<>>]
                                                  ELSE CheckBit(dict, h[n - 1], bits[n])]
    BY <1>8, Zenon DEF IsDecoding, NoSymbols
  <2>2. huffman_canonical_decode(dict, bytes) = f[Len(bits)].pushed
    BY <1>0, <2>1, Zenon DEF huffman_canonical_decode
  <2> QED
    BY <1>1, <2>2
<1>10. IsDecoding(f, dict, bits)
  BY <1>7, <1>8, Zenon
<1>11. f = [n \in 0..l |-> IF n = 0 THEN NoSymbols ELSE CheckBit(dict, f[n - 1], bits[n])]
  BY <1>1, <1>10 DEF IsDecoding
<1>12. f[0] = NoSymbols /\ \A j \in 1..l : f[j] = CheckBit(dict, f[j - 1], bits[j])
  <2>1. 0 \in 0..l /\ \A j \in 1..l : j \in 0..l /\ j # 0
    BY <1>1
  <2> QED
    BY <1>11, <2>1
<1>13. f = [n \in 0..l |-> f[n]]
  BY <1>11
<1>14. \A j \in 1..l : f[j - 1] \in T => f[j] = g[j][f[j - 1]]
  BY <1>12
<1>15. f \in [0..l -> T]
  <2> HIDE DEF g
  <2>1. Iterates(f, T, NoSymbols, g, l)
    BY <1>1, <1>3, <1>4, <1>12, <1>13, <1>14, IsIterated
  <2> QED
    BY <2>1 DEF Iterates
<1>16. Decoding(f, dict, bits)
  BY <1>1, <1>2, <1>12, <1>15 DEF Decoding
<1> QED
  BY <1>0, <1>1, <1>9, <1>16

(* u has been decoded, and the next symbol is due.                         *)
Due(u) == [pending |-> <<>>, pushed |-> u]

(* A code that begins where a symbol is due gives that symbol.             *)
LEMMA DecodesSymbol ==
  ASSUME NEW dict, Decodable(dict), NEW bits \in Seq(Bit), NEW f, Decoding(f, dict, bits),
         NEW s \in DOMAIN dict, NEW p \in Nat, IsAt(bits, p + 1, CodeBits(dict[s])),
         NEW u \in Seq(DOMAIN dict), f[p] = Due(u)
  PROVE  f[p + Len(CodeBits(dict[s]))] = Due(Append(u, s))
<1>0. PICK code : code = CodeBits(dict[s])
  OBVIOUS
<1>1. code \in Seq(Bit) /\ Len(code) \in Nat \ {0}
  <2>1. Fits(dict[s])
    BY DEF Decodable
  <2>2. CodeBits(dict[s]) \in Seq(Bit) /\ Len(CodeBits(dict[s])) = dict[s].length
    BY <2>1, CodeBitsAre
  <2>3. dict[s].length \in 1..WordBits - ByteBits
    BY <2>1 DEF Fits
  <2>4. dict[s].length \in Nat \ {0}
    BY <2>3, Sizes
  <2> QED
    BY <1>0, <2>2, <2>4
<1>2. PICK l \in Nat \ {0} : l = Len(code)
  BY <1>1
<1>3. p + l <= Len(bits) /\ \A j \in 1..l : bits[p + j] = code[j]
  <2>1. (p + 1) + Len(code) <= Len(bits) + 1 /\ \A j \in 1..Len(code) : bits[(p + 1) + j - 1] = code[j]
    BY <1>0 DEF IsAt
  <2>2. \A j \in 1..l : (p + 1) + j - 1 = p + j
    OBVIOUS
  <2> QED
    BY <1>2, <2>1, <2>2
<1>4. ASSUME NEW h \in 0..l - 1, NEW state, f[p + h] = state
      PROVE  f[p + (h + 1)] = CheckBit(dict, state, code[h + 1])
  <2>1. p + (h + 1) \in 1..Len(bits) /\ (p + (h + 1)) - 1 = p + h /\ h + 1 \in 1..l
    BY <1>3
  <2>2. f[p + (h + 1)] = CheckBit(dict, f[(p + (h + 1)) - 1], bits[p + (h + 1)])
    BY <2>1 DEF Decoding
  <2>3. bits[p + (h + 1)] = code[h + 1]
    BY <1>3, <2>1
  <2> QED
    BY <1>4, <2>1, <2>2, <2>3
<1>5. ASSUME NEW h \in 0..l - 1
      PROVE  /\ Append(SubSeq(code, 1, h), code[h + 1]) = SubSeq(code, 1, h + 1)
             /\ Found(dict, SubSeq(code, 1, h + 1)) = IF h + 1 < l THEN {} ELSE {s}
  <2>1. h \in Nat /\ h + 1 <= Len(code) /\ h + 1 \in 1..Len(code)
    BY <1>2
  <2>2. Append(SubSeq(code, 1, h), code[h + 1]) = SubSeq(code, 1, h + 1)
    BY <1>1, <2>1, OneMoreOf
  <2>3. Found(dict, SubSeq(code, 1, h + 1)) = IF h + 1 < Len(code) THEN {} ELSE {s}
    BY <1>0, <2>1, FoundIs
  <2> QED
    BY <1>2, <2>2, <2>3
<1> DEFINE At(h) == [pending |-> SubSeq(code, 1, h), pushed |-> u]
           Q == {h \in 0..l - 1 : f[p + h] = At(h)}
<1>6. 0 \in Q
  <2>1. SubSeq(code, 1, 0) = <<>> /\ p + 0 = p /\ 0 \in 0..l - 1
    BY <1>1, <1>2, SubSeqEmpty
  <2> QED
    BY <2>1 DEF Due
<1>7. ASSUME NEW h \in 0..(l - 1) - 1, h \in Q PROVE h + 1 \in Q
  <2>1. h \in 0..l - 1 /\ h + 1 < l /\ h + 1 \in 0..l - 1
    BY <1>2
  <2>2. f[p + (h + 1)] = CheckBit(dict, At(h), code[h + 1])
    BY <1>4, <1>7, <2>1
  <2>3. PICK v, w : v = SubSeq(code, 1, h) /\ w = SubSeq(code, 1, h + 1)
    OBVIOUS
  <2>4. Append(v, code[h + 1]) = w /\ Found(dict, w) = {}
    BY <1>5, <2>1, <2>3
  <2>5. CheckBit(dict, [pending |-> v, pushed |-> u], code[h + 1]) = [pending |-> w, pushed |-> u]
    <3>1. PICK state : state = [pending |-> v, pushed |-> u]
      OBVIOUS
    <3>2. state.pending = v
      BY <3>1
    <3>3. CheckBit(dict, state, code[h + 1]) = [state EXCEPT !.pending = w]
      BY <2>4, <3>2, Zenon DEF CheckBit, Found
    <3>4. [state EXCEPT !.pending = w] = [pending |-> w, pushed |-> u]
      BY <3>1
    <3> QED
      BY <3>1, <3>3, <3>4
  <2> QED
    BY <2>1, <2>2, <2>3, <2>5
<1>8. l - 1 \in Q
  <2> HIDE DEF Q
  <2>1. 0 \in Int /\ l - 1 \in Int /\ l - 1 \in 0..l - 1
    BY <1>2
  <2>2. 0..l - 1 \subseteq Q
    BY <1>6, <1>7, <2>1, IntervalIsInductive, Zenon
  <2> QED
    BY <2>1, <2>2
<1>9. f[p + l] = CheckBit(dict, At(l - 1), code[l])
  <2>1. l - 1 \in 0..l - 1 /\ (l - 1) + 1 = l
    BY <1>2
  <2>2. f[p + (l - 1)] = At(l - 1)
    BY <1>8
  <2> QED
    BY <1>4, <2>1, <2>2
<1>10. CheckBit(dict, At(l - 1), code[l]) = Due(Append(u, s))
  <2>1. PICK v, w, h : v = SubSeq(code, 1, h) /\ w = SubSeq(code, 1, l) /\ h = l - 1
    OBVIOUS
  <2>2. h \in 0..l - 1 /\ h + 1 = l /\ ~ (h + 1 < l)
    BY <1>2, <2>1
  <2>3. Append(v, code[l]) = w /\ Found(dict, w) = {s}
    BY <1>5, <2>1, <2>2
  <2>4. PICK state : state = [pending |-> v, pushed |-> u]
    OBVIOUS
  <2>5. state.pending = v /\ state.pushed = u
    BY <2>4
  <2>6. {t \in DOMAIN dict : CodeBits(dict[t]) = w} = {s}
    BY <2>3 DEF Found
  <2>7. CheckBit(dict, state, code[l])
          = [pending |-> <<>>, pushed |-> Append(u, CHOOSE t \in {s} : TRUE)]
    <3>1. {s} # {}
      OBVIOUS
    <3> QED
      BY <2>3, <2>5, <2>6, <3>1, Zenon DEF CheckBit
  <2>8. (CHOOSE t \in {s} : TRUE) = s
    OBVIOUS
  <2> QED
    BY <2>1, <2>4, <2>7, <2>8 DEF Due
<1> QED
  BY <1>0, <1>2, <1>9, <1>10

(* The codes of a text, from the beginning on, give the text.              *)
LEMMA DecodesText ==
  ASSUME NEW dict, Decodable(dict), NEW bits \in Seq(Bit), NEW f, Decoding(f, dict, bits),
         NEW text \in Seq(DOMAIN dict), IsAt(bits, 1, Coded(dict, text, Len(text)))
  PROVE  f[Len(Coded(dict, text, Len(text)))] = Due(text)
<1>1. PICK l \in Nat : l = Len(text)
  OBVIOUS
<1> DEFINE C(n) == Coded(dict, text, n)
           Q == {n \in 0..l : /\ f[Len(C(n))] = Due(SubSeq(text, 1, n))
                              /\ Len(C(n)) \in Nat}
<1>2. /\ C(0) = <<>> /\ \A n \in 0..l : C(n) \in Seq(Bit)
      /\ \A n \in 1..l : C(n) = C(n - 1) \o CodeBits(dict[text[n]])
  BY <1>1, CodedIs
(* Each of the beginnings is one of bits.                                  *)
<1>3. ASSUME NEW n \in 0..l PROVE IsAt(bits, 1, C(n))
  <2> DEFINE R == {d \in 0..l : IsAt(bits, 1, C(l - d))}
  <2>1. 0 \in R
    <3>1. l \in 0..l /\ l - 0 = l /\ 0 \in 0..l
      OBVIOUS
    <3>2. IsAt(bits, 1, C(l))
      BY <1>1
    <3> QED
      BY <3>1, <3>2
  <2>2. ASSUME NEW d \in 0..l - 1, d \in R PROVE d + 1 \in R
    <3>1. PICK m : m = l - d
      OBVIOUS
    <3>2. m \in 1..l /\ m - 1 \in 0..l /\ l - (d + 1) = m - 1 /\ d + 1 \in 0..l /\ m \in 1..Len(text)
      BY <1>1, <3>1
    <3>3. PICK u \in Seq(Bit), v \in Seq(Bit) : u = C(m - 1) /\ v = CodeBits(dict[text[m]])
      <4>1. text[m] \in DOMAIN dict
        BY <3>2, ElementOfSeq
      <4>2. Fits(dict[text[m]])
        BY <4>1 DEF Decodable
      <4> QED
        BY <1>2, <3>2, <4>2, CodeBitsAre
    <3>4. C(m) = u \o v
      BY <1>2, <3>2, <3>3
    <3> HIDE DEF C
    <3>5. IsAt(bits, 1, u \o v)
      BY <2>2, <3>1, <3>4
    <3>6. IsAt(bits, 1, u)
      BY <3>5, AtParts
    <3> QED
      BY <3>2, <3>3, <3>6
  <2>3. 0..l \subseteq R
    <3> HIDE DEF R
    <3>1. 0 \in Int /\ l \in Int
      OBVIOUS
    <3> QED
      BY <2>1, <2>2, <3>1, IntervalIsInductive, Zenon
  <2>4. l - n \in 0..l /\ l - (l - n) = n
    OBVIOUS
  <2> QED
    BY <2>3, <2>4
<1>4. 0 \in Q
  <2>1. SubSeq(text, 1, 0) = <<>> /\ Len(<<>>) = 0 /\ 0 \in 0..l
    BY SubSeqEmpty
  <2>2. f[0] = Due(<<>>)
    BY DEF Decoding, NoSymbols, Due
  <2> QED
    BY <1>2, <2>1, <2>2
<1>5. ASSUME NEW n \in 0..l - 1, n \in Q PROVE n + 1 \in Q
  <2>1. PICK m : m = n + 1
    OBVIOUS
  <2>2. m \in 1..l /\ m \in 0..l /\ m - 1 = n /\ n \in 0..l /\ m \in 1..Len(text)
    BY <1>1, <2>1
  <2>3. PICK s \in DOMAIN dict : s = text[m]
    BY <2>2, ElementOfSeq
  <2>4. PICK code \in Seq(Bit) : code = CodeBits(dict[s])
    BY CodeBitsAre DEF Decodable
  <2>5. PICK c \in Seq(Bit) : c = C(n)
    BY <1>2, <2>2
  <2>6. C(m) = c \o code
    BY <1>2, <2>2, <2>3, <2>4, <2>5
  <2>7. PICK p \in Nat : p = Len(c)
    BY <2>5
  <2>8. Len(C(m)) = p + Len(code)
    BY <2>4, <2>5, <2>6, <2>7, ConcatProperties
  <2>9. IsAt(bits, p + 1, code)
    <3>1. IsAt(bits, 1, c \o code)
      BY <1>3, <2>2, <2>6
    <3>2. IsAt(bits, 1 + Len(c), code)
      BY <2>4, <2>5, <3>1, AtParts
    <3>3. 1 + Len(c) = p + 1
      BY <2>7
    <3> QED
      BY <3>2, <3>3
  <2>10. PICK u \in Seq(DOMAIN dict) : u = SubSeq(text, 1, n)
    <3>1. n \in 0..Len(text)
      BY <1>1, <2>2
    <3> QED
      BY <3>1, FirstOf
  <2>11. f[p] = Due(u)
    BY <1>5, <2>5, <2>7, <2>10
  <2>12. f[p + Len(code)] = Due(Append(u, s))
    <3>1. IsAt(bits, p + 1, CodeBits(dict[s]))
      BY <2>4, <2>9
    <3>2. f[p + Len(CodeBits(dict[s]))] = Due(Append(u, s))
      BY <2>11, <3>1, DecodesSymbol
    <3> QED
      BY <2>4, <3>2
  <2>13. Append(u, s) = SubSeq(text, 1, m)
    <3>1. n \in Nat /\ n + 1 <= Len(text)
      BY <1>1
    <3> QED
      BY <2>1, <2>3, <2>10, <3>1, OneMoreOf
  <2>14. p + Len(code) \in Nat
    BY <2>4, <2>7
  <2> HIDE DEF C
  <2> QED
    BY <2>1, <2>2, <2>8, <2>12, <2>13, <2>14
<1>6. l \in Q
  <2> HIDE DEF Q
  <2>1. 0 \in Int /\ l \in Int /\ l \in 0..l
    OBVIOUS
  <2>2. 0..l \subseteq Q
    BY <1>4, <1>5, <2>1, IntervalIsInductive, Zenon
  <2> QED
    BY <2>1, <2>2
<1>7. SubSeq(text, 1, l) = text
  BY <1>1, SubSeqFull
<1> QED
  BY <1>1, <1>6, <1>7

(* Whatever bytes begin with the codes of a text, they are decoded to the  *)
(* text, and then to no more symbols than there are bits left.             *)
LEMMA DecodesBytes ==
  ASSUME NEW dict, Decodable(dict), NEW text \in Seq(DOMAIN dict), NEW bytes,
         NEW z \in Seq(Bit), FlattenSeq(bytes) = Coded(dict, text, Len(text)) \o z
  PROVE  /\ IsPrefix(text, huffman_canonical_decode(dict, bytes))
         /\ Len(huffman_canonical_decode(dict, bytes)) <= Len(text) + Len(z)
<1>1. PICK c \in Seq(Bit) : c = Coded(dict, text, Len(text))
  <2>1. Len(text) \in 0..Len(text)
    OBVIOUS
  <2> QED
    BY <2>1, CodedIs
<1>2. PICK bits \in Seq(Bit) : bits = FlattenSeq(bytes) /\ bits = c \o z
  BY <1>1, ConcatProperties
<1>3. PICK f : Decoding(f, dict, bits) /\ huffman_canonical_decode(dict, bytes) = f[Len(bits)].pushed
  BY <1>2, DecodingIs
<1>4. PICK p \in Nat, e \in Nat, l \in Nat : p = Len(c) /\ e = Len(z) /\ l = Len(text)
  OBVIOUS
<1>5. Len(bits) = p + e
  BY <1>2, <1>4, ConcatProperties
<1>6. f[p] = Due(text)
  <2>1. IsAt(bits, 1, Coded(dict, text, Len(text)))
    <3>1. \A j \in 1..Len(c) : bits[j] = c[j] /\ 1 + j - 1 = j
      BY <1>2, <1>4, ConcatIs
    <3>2. 1 + Len(c) <= Len(bits) + 1
      BY <1>4, <1>5
    <3> QED
      BY <1>1, <3>1, <3>2 DEF IsAt
  <2>2. f[Len(Coded(dict, text, Len(text)))] = Due(text)
    BY <1>3, <2>1, DecodesText
  <2> QED
    BY <1>1, <1>4, <2>2
<1> DEFINE Pushed(d) == f[p + d].pushed
           Q == {d \in 0..e : Len(Pushed(d)) \in l..l + d /\ \A j \in 1..l : Pushed(d)[j] = text[j]}
<1>7. 0 \in Q
  <2>1. p + 0 = p /\ 0 \in 0..e /\ l \in l..l + 0
    OBVIOUS
  <2> QED
    BY <1>4, <1>6, <2>1 DEF Due
<1>8. ASSUME NEW d \in 0..e - 1, d \in Q PROVE d + 1 \in Q
  <2>1. /\ p + (d + 1) \in 1..Len(bits) /\ (p + (d + 1)) - 1 = p + d /\ d + 1 \in 0..e
        /\ p + d \in 0..Len(bits)
    BY <1>5
  <2>2. f[p + (d + 1)] = CheckBit(dict, f[(p + (d + 1)) - 1], bits[p + (d + 1)])
    BY <1>3, <2>1 DEF Decoding
  <2>3. PICK v, b : v = f[p + d] /\ b = bits[p + (d + 1)]
    OBVIOUS
  <2>4. v \in States(dict) /\ b \in Bit
    <3>1. f \in [0..Len(bits) -> States(dict)]
      BY <1>3 DEF Decoding
    <3>2. b \in Bit
      BY <2>1, <2>3, ElementOfSeq
    <3> QED
      BY <2>1, <2>3, <3>1, <3>2
  <2>5. PICK w : w = CheckBit(dict, v, b)
    OBVIOUS
  <2>6. /\ w = f[p + (d + 1)]
        /\ Len(w.pushed) \in Len(v.pushed)..Len(v.pushed) + 1
        /\ \A j \in 1..Len(v.pushed) : w.pushed[j] = v.pushed[j]
    <3>1. w = f[p + (d + 1)]
      BY <2>1, <2>2, <2>3, <2>5
    <3> QED
      <4>1. /\ Len(CheckBit(dict, v, b).pushed) \in Len(v.pushed)..Len(v.pushed) + 1
            /\ \A j \in 1..Len(v.pushed) : CheckBit(dict, v, b).pushed[j] = v.pushed[j]
        BY <2>4, CheckBitIs
      <4> QED
        BY <2>5, <3>1, <4>1
  <2>7. Len(v.pushed) \in l..l + d /\ \A j \in 1..l : v.pushed[j] = text[j]
    BY <1>8, <2>3
  <2>8. PICK a : a = Len(v.pushed)
    OBVIOUS
  <2>9. Len(w.pushed) \in l..l + (d + 1)
    <3>1. PICK b2 : b2 = Len(w.pushed)
      OBVIOUS
    <3>2. a \in l..l + d /\ b2 \in a..a + 1
      BY <2>6, <2>7, <2>8, <3>1
    <3>3. b2 \in l..l + (d + 1)
      BY <3>2
    <3> QED
      BY <3>1, <3>3
  <2>10. \A j \in 1..l : w.pushed[j] = text[j]
    <3>1. \A j \in 1..l : j \in 1..Len(v.pushed)
      BY <2>7
    <3> QED
      BY <2>6, <2>7, <3>1
  <2> QED
    BY <2>1, <2>6, <2>9, <2>10
<1>9. e \in Q
  <2> HIDE DEF Q
  <2>1. 0 \in Int /\ e \in Int /\ e \in 0..e
    OBVIOUS
  <2>2. 0..e \subseteq Q
    BY <1>7, <1>8, <2>1, IntervalIsInductive, Zenon
  <2> QED
    BY <2>1, <2>2
<1>10. PICK w : w = f[p + e].pushed
  OBVIOUS
<1>11. Len(w) \in l..l + e /\ \A j \in 1..l : w[j] = text[j]
  BY <1>9, <1>10
<1>12. w \in Seq(DOMAIN dict)
  <2>1. p + e \in 0..Len(bits)
    BY <1>5
  <2>2. f[p + e] \in States(dict)
    BY <1>3, <2>1 DEF Decoding
  <2> QED
    BY <1>10, <2>2 DEF States
<1>13. IsPrefix(text, w)
  BY <1>4, <1>11, <1>12, PrefixIs
<1>14. Len(w) <= l + e
  BY <1>11
<1> QED
  BY <1>3, <1>4, <1>5, <1>10, <1>13, <1>14

-----------------------------------------------------------------------------
(* The file.                                                               *)

(* What a byte of it can be.                                               *)
Cell ==
  Byte8 \cup {<<"h">>, <<"f">>, <<"c">>} \cup {"int"} \X Int \X (1..4)
    \cup {"symbol", "header"} \X Nat \X {0}

LEMMA WordIs ==
  ASSUME NEW n \in Int
  PROVE  Word(n) \in Seq(Cell) /\ Len(Word(n)) = 4 /\ Word(n)[1] = <<"int", n, 1>>
<1>1. \A byte \in 1..4 : <<"int", n, byte>> \in Cell
  BY DEF Cell
<1> QED
  BY <1>1 DEF Word

LEMMA WordsAre ==
  ASSUME NEW ns \in Seq(Int)
  PROVE  /\ Words(ns) \in Seq(Cell) /\ Len(Words(ns)) = 4 * Len(ns)
         /\ \A n \in 1..Len(ns) : IsAt(Words(ns), 4 * (n - 1) + 1, Word(ns[n]))
<1>1. PICK seqs : seqs = [j \in DOMAIN ns |-> Word(ns[j])]
  OBVIOUS
<1>2. PICK l \in Nat : l = Len(ns) /\ DOMAIN ns = 1..l
  OBVIOUS
<1>3. /\ seqs \in Seq(Seq(Cell)) /\ Len(seqs) = l
      /\ \A j \in 1..l : seqs[j] = Word(ns[j]) /\ Len(seqs[j]) = 4
  <2>1. \A j \in 1..l : Word(ns[j]) \in Seq(Cell) /\ Len(Word(ns[j])) = 4
    BY <1>2, ElementOfSeq, WordIs
  <2> QED
    BY <1>1, <1>2, <2>1
<1>4. Words(ns) = FlattenSeq(seqs)
  BY <1>1 DEF Words
<1>5. /\ \A j \in 0..l : Len(Until(seqs, j)) = 4 * j
      /\ FlattenSeq(seqs) \in Seq(Cell) /\ Len(FlattenSeq(seqs)) = 4 * l
  <2>1. 4 \in Nat /\ seqs \in Seq(Seq(Cell)) /\ \A j \in 1..Len(seqs) : Len(seqs[j]) = 4
    BY <1>3
  <2>2. /\ \A j \in 0..Len(seqs) : Len(Until(seqs, j)) = 4 * j
        /\ FlattenSeq(seqs) \in Seq(Cell) /\ Len(FlattenSeq(seqs)) = 4 * Len(seqs)
    BY <2>1, EvenParts, Zenon
  <2> QED
    BY <1>3, <2>2
<1>6. ASSUME NEW n \in 1..l PROVE IsAt(FlattenSeq(seqs), 4 * (n - 1) + 1, Word(ns[n]))
  <2>1. n \in 1..Len(seqs) /\ n - 1 \in 0..l
    BY <1>3
  <2>2. IsAt(FlattenSeq(seqs), Len(Until(seqs, n - 1)) + 1, seqs[n])
    BY <1>3, <2>1, AtUntil
  <2> QED
    BY <1>3, <1>5, <2>1, <2>2
<1> QED
  BY <1>2, <1>4, <1>5, <1>6

LEMMA FillIs ==
  ASSUME NEW n \in Nat
  PROVE  Fill(n) \in Seq(Byte8) /\ Fill(n) \in Seq(Cell) /\ Len(Fill(n)) = n
<1>1. Zeros(ByteBits) \in Byte8
  BY ZerosAre, Sizes DEF Byte8
<1>2. Zeros(ByteBits) \in Cell
  BY <1>1 DEF Cell
<1> QED
  BY <1>1, <1>2 DEF Fill

LEMMA SymbolsAre ==
  ASSUME NEW n \in Nat
  PROVE  Symbols(n) \in Seq(Cell) /\ Len(Symbols(n)) = n
<1>1. \A s \in 1..n : <<"symbol", s, 0>> \in Cell
  BY DEF Cell
<1> QED
  BY <1>1 DEF Symbols

(* What is read of an integer is that integer, and so on.                  *)
LEMMA ReadsWord ==
  ASSUME out \in Seq(Cell), NEW w \in Nat, NEW n \in Int, IsAt(out, 4 * w + 1, Word(n))
  PROVE  Buff32(w) = n
<1>1. PICK v : v = Word(n)
  OBVIOUS
<1>2. v \in Seq(Cell) /\ Len(v) = 4 /\ v[1] = <<"int", n, 1>>
  BY <1>1, WordIs
<1>3. PICK c : c = 4 * w + 1
  OBVIOUS
<1>4. c \in Nat \ {0} /\ c + 4 <= Len(out) + 1 /\ \A j \in 1..4 : out[c + j - 1] = v[j]
  BY <1>1, <1>2, <1>3 DEF IsAt
<1>5. out[c] = <<"int", n, 1>>
  <2>1. 1 \in 1..4 /\ c + 1 - 1 = c
    BY <1>4
  <2> QED
    BY <1>2, <1>4, <2>1
<1>6. SubSeq(out, c, c + 3) = v
  <2>1. SubSeq(out, c, c + Len(v) - 1) = v
    BY <1>1, <1>2, <1>3, SubSeqAt
  <2>2. c + Len(v) - 1 = c + 3
    BY <1>2, <1>4
  <2> QED
    BY <2>1, <2>2
<1>7. 4 * w + 4 <= Len(out) /\ 4 * w + 1 = c /\ 4 * w + 4 = c + 3
  BY <1>3, <1>4
<1>8. Len(out[c]) = 3 /\ out[c][2] = n
  BY <1>5
<1>9. SubSeq(out, 4 * w + 1, 4 * w + 4) = Word(out[4 * w + 1][2])
  BY <1>1, <1>6, <1>7, <1>8
<1> QED
  BY <1>7, <1>8, <1>9 DEF Buff32

LEMMA ReadsWords ==
  ASSUME out \in Seq(Cell), NEW w \in Nat, NEW ns \in Seq(Int), IsAt(out, 4 * w + 1, Words(ns)),
         NEW n \in 1..Len(ns)
  PROVE  Buff32(w + n - 1) = ns[n]
<1>1. /\ Words(ns) \in Seq(Cell)
      /\ IsAt(Words(ns), 4 * (n - 1) + 1, Word(ns[n]))
  BY WordsAre
<1>2. ns[n] \in Int
  BY ElementOfSeq
<1>3. Len(Word(ns[n])) = 4
  BY <1>2, WordIs
<1>4. PICK c, d : c = 4 * w + 1 /\ d = 4 * (n - 1) + 1
  OBVIOUS
<1>5. IsAt(out, c + d - 1, Word(ns[n]))
  <2>1. Len(out) \in Nat /\ Len(Words(ns)) \in Nat /\ Len(Word(ns[n])) \in Nat
    BY <1>1, <1>3
  <2>2. IsAt(out, c, Words(ns)) /\ IsAt(Words(ns), d, Word(ns[n]))
    BY <1>1, <1>4
  <2> QED
    BY <2>1, <2>2, AtWithin
<1>6. PICK v \in Nat : v = w + n - 1
  OBVIOUS
<1>7. c + d - 1 = 4 * v + 1
  BY <1>4, <1>6
<1>8. IsAt(out, 4 * v + 1, Word(ns[n]))
  BY <1>5, <1>7
<1> QED
  BY <1>2, <1>6, <1>8, ReadsWord

LEMMA UpToWord ==
  ASSUME NEW n \in Nat
  PROVE  (n + 3) \div 4 \in Nat /\ 4 * ((n + 3) \div 4) - n \in 0..3
  OBVIOUS

LEMMA LensAre ==
  ASSUME lens \in Codes
  PROVE  /\ lens \in Seq(Nat) /\ Sum(lens) \in Nat /\ Len(lens) \in Nat
         /\ <<Len(lens)>> \o lens \in Seq(Int) /\ Len(<<Len(lens)>> \o lens) = Len(lens) + 1
         /\ (<<Len(lens)>> \o lens)[1] = Len(lens)
         /\ \A n \in 1..Len(lens) : (<<Len(lens)>> \o lens)[n + 1] = lens[n]
<1>1. lens \in Seq(Nat)
  BY FileAssumption
<1>2. Sum(lens) \in Nat
  BY <1>1, SumsAre
<1>3. lens \in Seq(Int) /\ <<Len(lens)>> \in Seq(Int) /\ Len(<<Len(lens)>>) = 1
  BY <1>1
<1>4. PICK u, v, l : u = <<Len(lens)>> /\ v = u \o lens /\ l = Len(lens)
  OBVIOUS
<1>5. u \in Seq(Int) /\ 1 = Len(u) /\ l \in Nat /\ u[1] = l /\ 1 \in Nat
  BY <1>1, <1>3, <1>4
<1>6. /\ v \in Seq(Int) /\ Len(v) = 1 + l
      /\ \A n \in 1..1 : v[n] = u[n]
      /\ \A n \in 1..l : v[1 + n] = lens[n]
  BY <1>3, <1>4, <1>5, ConcatIs
<1>7. v[1] = l /\ \A n \in 1..l : v[n + 1] = lens[n]
  <2>1. 1 \in 1..1 /\ \A n \in 1..l : n + 1 = 1 + n
    OBVIOUS
  <2> QED
    BY <1>5, <1>6, <2>1
<1>8. Len(v) = l + 1
  BY <1>5, <1>6
<1> QED
  BY <1>1, <1>2, <1>4, <1>5, <1>6, <1>7, <1>8

(* What huffman_serialize writes, in three parts.                          *)
LEMMA SerializeIs ==
  ASSUME lens \in Codes
  PROVE  \E u, v, z \in Seq(Cell) :
           /\ huffman_serialize = (u \o v) \o z
           /\ u = Words(<<Len(lens)>> \o lens) /\ Len(u) = 4 * (Len(lens) + 1)
           /\ v = Symbols(Sum(lens)) /\ Len(v) = Sum(lens)
           /\ huffman_serialize \in Seq(Cell)
           /\ Len(huffman_serialize) = 4 * (1 + Len(lens) + ((Sum(lens) + 3) \div 4))
<1>1. PICK l \in Nat, t \in Nat, q \in Nat : l = Len(lens) /\ t = Sum(lens) /\ q = (t + 3) \div 4
  BY LensAre, UpToWord
<1>2. PICK d \in 0..3 : d = 4 * q - t
  BY <1>1, UpToWord
<1>3. PICK u \in Seq(Cell) : u = Words(<<Len(lens)>> \o lens) /\ Len(u) = 4 * (l + 1)
  BY <1>1, LensAre, WordsAre
<1>4. PICK v \in Seq(Cell) : v = Symbols(t) /\ Len(v) = t
  BY SymbolsAre
<1>5. PICK z \in Seq(Cell) : z = Fill(d) /\ Len(z) = d
  <2>1. d \in Nat
    OBVIOUS
  <2> QED
    BY <2>1, FillIs
<1>6. huffman_serialize = (u \o v) \o z
  BY <1>1, <1>2, <1>3, <1>4, <1>5 DEF huffman_serialize
<1>7. u \o v \in Seq(Cell) /\ Len(u \o v) = 4 * (l + 1) + t
  BY <1>3, <1>4, ConcatProperties
<1>8. (u \o v) \o z \in Seq(Cell) /\ Len((u \o v) \o z) = (4 * (l + 1) + t) + d
  <2>1. PICK y \in Seq(Cell) : y = u \o v /\ Len(y) = 4 * (l + 1) + t
    BY <1>7
  <2>2. y \o z \in Seq(Cell) /\ Len(y \o z) = Len(y) + Len(z)
    BY ConcatProperties
  <2> QED
    BY <1>5, <2>1, <2>2
<1>9. (4 * (l + 1) + t) + d = 4 * (1 + l + q)
  BY <1>2
<1> QED
  BY <1>1, <1>3, <1>4, <1>6, <1>8, <1>9

LEMMA ReadsCode ==
  ASSUME lens \in Codes, out \in Seq(Cell), NEW w \in Nat, IsAt(out, 4 * w + 1, huffman_serialize)
  PROVE  /\ Buff32(w) = Len(lens)
         /\ [b \in 1..Buff32(w) |-> Buff32(w + b)] = lens
         /\ huff_dict_len(w) = 1 + Len(lens) + ((Sum(lens) + 3) \div 4)
         /\ SubSeq(out, 4 * (w + 1 + Len(lens)) + 1, 4 * (w + 1 + Len(lens)) + Sum(lens))
              = Symbols(Sum(lens))
<1>1. PICK u, v, z \in Seq(Cell) :
        /\ huffman_serialize = (u \o v) \o z
        /\ u = Words(<<Len(lens)>> \o lens) /\ Len(u) = 4 * (Len(lens) + 1)
        /\ v = Symbols(Sum(lens)) /\ Len(v) = Sum(lens)
  BY SerializeIs
<1>2. PICK l \in Nat, t \in Nat : l = Len(lens) /\ t = Sum(lens)
  BY LensAre
<1>3. IsAt(out, 4 * w + 1, u) /\ IsAt(out, (4 * w + 1) + Len(u), v)
  <2>1. u \o v \in Seq(Cell)
    BY ConcatProperties
  <2>2. IsAt(out, 4 * w + 1, (u \o v) \o z)
    BY <1>1
  <2>3. IsAt(out, 4 * w + 1, u \o v)
    BY <2>1, <2>2, AtParts
  <2> QED
    BY <2>3, AtParts
<1>4. PICK ns \in Seq(Int) : ns = <<Len(lens)>> \o lens
  BY LensAre
<1>5. Len(ns) = l + 1 /\ ns[1] = l /\ \A n \in 1..l : ns[n + 1] = lens[n]
  BY <1>2, <1>4, LensAre
<1>6. IsAt(out, 4 * w + 1, Words(ns))
  BY <1>1, <1>3, <1>4
<1>7. \A n \in 1..l + 1 : Buff32(w + n - 1) = ns[n]
  BY <1>5, <1>6, ReadsWords
<1>8. Buff32(w) = l
  <2>1. 1 \in 1..l + 1 /\ w + 1 - 1 = w
    OBVIOUS
  <2> QED
    BY <1>5, <1>7, <2>1
<1>9. ASSUME NEW n \in 1..l PROVE Buff32(w + n) = lens[n]
  <2>1. n + 1 \in 1..l + 1 /\ w + (n + 1) - 1 = w + n
    OBVIOUS
  <2> QED
    BY <1>5, <1>7, <2>1
<1>10. [b \in 1..l |-> Buff32(w + b)] = lens
  <2>1. lens = [b \in 1..l |-> lens[b]]
    BY <1>2, LensAre
  <2> QED
    BY <1>9, <2>1
<1>11. huff_dict_len(w) = 1 + l + ((t + 3) \div 4)
  BY <1>2, <1>8, <1>10 DEF huff_dict_len
<1>12. SubSeq(out, 4 * (w + 1 + l) + 1, 4 * (w + 1 + l) + t) = v
  <2>1. PICK c : c = (4 * w + 1) + Len(u)
    OBVIOUS
  <2>2. SubSeq(out, c, c + Len(v) - 1) = v
    BY <1>3, <2>1, SubSeqAt
  <2>3. c = 4 * (w + 1 + l) + 1 /\ c + Len(v) - 1 = 4 * (w + 1 + l) + t
    BY <1>1, <1>2, <2>1
  <2> QED
    BY <2>2, <2>3
<1> QED
  BY <1>1, <1>2, <1>8, <1>10, <1>11, <1>12

-----------------------------------------------------------------------------
(* The offsets and the bins.                                               *)

OffsetsOf(packed) ==
  [b \in DOMAIN packed |-> Sums([a \in DOMAIN packed |-> Len(packed[a])])[b - 1]]

LEMMA OffsetsAre ==
  ASSUME NEW packed \in Seq(Seq(Byte8))
  PROVE  /\ OffsetsOf(packed) \in Seq(Int) /\ Len(OffsetsOf(packed)) = Len(packed)
         /\ \A b \in 1..Len(packed) : OffsetsOf(packed)[b] = Len(Until(packed, b - 1))
<1>1. PICK n \in Nat : n = Len(packed) /\ DOMAIN packed = 1..n
  OBVIOUS
<1>2. PICK ns : ns = [a \in DOMAIN packed |-> Len(packed[a])]
  OBVIOUS
<1>3. \A m \in 0..n : Sums(ns)[m] = Len(Until(packed, m))
  BY <1>1, <1>2, SumsOfParts
<1>4. ASSUME NEW b \in 1..n PROVE Sums(ns)[b - 1] = Len(Until(packed, b - 1)) /\ Sums(ns)[b - 1] \in Int
  <2>1. b - 1 \in 0..n /\ b - 1 \in 0..Len(packed)
    BY <1>1
  <2>2. Until(packed, b - 1) \in Seq(Byte8)
    BY <2>1, UntilIs
  <2>3. Len(Until(packed, b - 1)) \in Int
    BY <2>2
  <2> QED
    BY <1>3, <2>1, <2>3
<1>5. OffsetsOf(packed) = [b \in 1..n |-> Sums(ns)[b - 1]]
  BY <1>1, <1>2 DEF OffsetsOf
<1> QED
  BY <1>1, <1>4, <1>5

(* The offsets are from word o on, the bins from word f on.                *)
Layout(o, f, packed, z) ==
  /\ out \in Seq(Cell) /\ packed \in Seq(Seq(Byte8)) /\ o \in Nat /\ f \in Nat /\ z \in 0..3
  /\ IsAt(out, 4 * o + 1, Words(OffsetsOf(packed)))
  /\ IsAt(out, 4 * f + 1, FlattenSeq(packed) \o Fill(z))
  /\ Len(out) = 4 * f + Len(FlattenSeq(packed)) + z

Finds(o, f, n) == hfc.first_bin = f /\ hfc.bin_offsets = o /\ hfc.bin_count = n

LEMMA FlatBins ==
  ASSUME NEW packed \in Seq(Seq(Byte8))
  PROVE  FlattenSeq(packed) \in Seq(Byte8) /\ Len(FlattenSeq(packed)) \in Nat
<1>1. <<>> \in Seq(Byte8)
  OBVIOUS
<1> QED
  BY <1>1, FlattenNext

LEMMA ReadsBin ==
  ASSUME NEW o, NEW f, NEW packed, NEW z, Layout(o, f, packed, z),
         Finds(o, f, Len(packed)), NEW b \in 0..Len(packed) - 1
  PROVE  LET e == IF b = Len(packed) - 1 THEN z ELSE 0
         IN /\ Start(b) \in Nat /\ e \in 0..3 /\ packed[b + 1] \in Seq(Byte8)
            /\ 4 * f <= Start(b)
            /\ IsAt(out, Start(b) + 1, packed[b + 1] \o Fill(e))
            /\ Upper(b) = Start(b) + Len(packed[b + 1]) + e
<1> DEFINE e == IF b = Len(packed) - 1 THEN z ELSE 0
<1>1. /\ out \in Seq(Cell) /\ packed \in Seq(Seq(Byte8)) /\ o \in Nat /\ f \in Nat /\ z \in 0..3
      /\ Len(out) = 4 * f + Len(FlattenSeq(packed)) + z
      /\ IsAt(out, 4 * o + 1, Words(OffsetsOf(packed)))
  BY DEF Layout
<1>2. PICK n \in Nat : n = Len(packed)
  BY <1>1
<1>3. b \in 0..n - 1 /\ b + 1 \in 1..n /\ b + 1 \in 1..Len(packed) /\ b \in 0..Len(packed) /\ b \in Nat
  BY <1>2
<1>4. ASSUME NEW j \in 0..n PROVE Len(Until(packed, j)) \in Nat
  <2>1. Until(packed, j) \in Seq(Byte8)
    BY <1>1, <1>2, UntilIs
  <2> QED
    BY <2>1
<1>5. packed[b + 1] \in Seq(Byte8)
  BY <1>1, <1>3, ElementOfSeq
<1>6. PICK p, q, l \in Nat : /\ p = Len(Until(packed, b)) /\ q = Len(Until(packed, b + 1))
                             /\ l = Len(packed[b + 1])
  <2>1. b \in 0..n /\ b + 1 \in 0..n
    BY <1>2, <1>3
  <2> QED
    BY <1>4, <1>5, <2>1
<1>7. q = p + l
  <2>1. Len(Until(packed, b + 1)) = Len(Until(packed, (b + 1) - 1)) + Len(packed[b + 1])
    BY <1>1, <1>3, AtUntil
  <2>2. (b + 1) - 1 = b
    BY <1>3
  <2> QED
    BY <1>6, <2>1, <2>2
<1>8. ASSUME NEW j \in 0..n - 1 PROVE Buff32(o + j) = Len(Until(packed, j))
  <2>1. PICK ns \in Seq(Int) : ns = OffsetsOf(packed) /\ Len(ns) = n
    BY <1>1, <1>2, OffsetsAre
  <2>2. j + 1 \in 1..n /\ o + (j + 1) - 1 = o + j /\ (j + 1) - 1 = j
    BY <1>1
  <2>3. Buff32(o + (j + 1) - 1) = ns[j + 1]
    BY <1>1, <2>1, <2>2, ReadsWords
  <2>4. ns[j + 1] = Len(Until(packed, (j + 1) - 1))
    BY <1>1, <1>2, <2>1, <2>2, OffsetsAre
  <2> QED
    BY <2>2, <2>3, <2>4
<1>9. Start(b) = 4 * f + p
  BY <1>3, <1>6, <1>8 DEF Start, Finds
<1>10. Start(b) \in Nat /\ 4 * f <= Start(b)
  BY <1>1, <1>9
<1>11. PICK bytes, fill : bytes = FlattenSeq(packed) /\ fill = Fill(z)
  OBVIOUS
<1>12. /\ bytes \in Seq(Byte8) /\ Len(bytes) \in Nat
       /\ fill \in Seq(Byte8) /\ Len(fill) = z
  <2>1. z \in Nat
    BY <1>1
  <2>2. Fill(z) \in Seq(Byte8) /\ Len(Fill(z)) = z
    BY <2>1, FillIs
  <2>3. FlattenSeq(packed) \in Seq(Byte8) /\ Len(FlattenSeq(packed)) \in Nat
    BY <1>1, FlatBins
  <2> QED
    BY <1>11, <2>2, <2>3
<1>13. IsAt(out, 4 * f + 1, bytes) /\ IsAt(out, (4 * f + 1) + Len(bytes), fill)
  <2>1. IsAt(out, 4 * f + 1, bytes \o fill)
    BY <1>11 DEF Layout
  <2>2. Byte8 \subseteq Cell
    BY DEF Cell
  <2>3. bytes \in Seq(Cell) /\ fill \in Seq(Cell)
    BY <1>12, <2>2, SeqMonotonic
  <2> QED
    BY <1>1, <2>1, <2>3, AtParts
<1>14. IsAt(out, Start(b) + 1, packed[b + 1])
  <2>1. IsAt(bytes, Len(Until(packed, (b + 1) - 1)) + 1, packed[b + 1])
    BY <1>1, <1>3, <1>11, AtUntil
  <2>2. (b + 1) - 1 = b
    BY <1>3
  <2>3. IsAt(bytes, p + 1, packed[b + 1])
    BY <1>6, <2>1, <2>2
  <2>4. Len(out) \in Nat /\ Len(bytes) \in Nat /\ Len(packed[b + 1]) \in Nat
    BY <1>1, <1>6, <1>12
  <2>5. PICK c, d : c = 4 * f + 1 /\ d = p + 1
    OBVIOUS
  <2>6. IsAt(out, c, bytes) /\ IsAt(bytes, d, packed[b + 1])
    BY <1>13, <2>3, <2>5
  <2>7. IsAt(out, c + d - 1, packed[b + 1])
    BY <2>4, <2>6, AtWithin
  <2>8. c + d - 1 = Start(b) + 1
    BY <1>1, <1>9, <2>5
  <2> QED
    BY <2>7, <2>8
<1>15. CASE b = n - 1
  <2>1. e = z /\ hfc.bin_count = n /\ b + 1 = n
    BY <1>2, <1>3, <1>15 DEF Finds
  <2>2. q = Len(bytes)
    <3>1. Until(packed, n) = bytes
      BY <1>1, <1>2, <1>11, UntilIs
    <3> QED
      BY <1>6, <2>1, <3>1
  <2>3. Upper(b) = Len(out)
    BY <1>15, <2>1 DEF Upper
  <2>4. Len(out) = Start(b) + l + z
    <3>1. Len(out) = 4 * f + q + z
      BY <1>1, <1>11, <2>2
    <3>2. PICK g \in Nat : g = 4 * f
      BY <1>1
    <3>3. Start(b) = g + p /\ Len(out) = g + q + z
      BY <1>9, <3>1, <3>2, Zenon
    <3>4. z \in Nat
      BY <1>1
    <3>5. g + q + z = (g + p) + l + z
      BY <1>7, <3>4
    <3> QED
      BY <3>3, <3>5, Zenon
  <2>5. IsAt(out, (Start(b) + 1) + l, fill)
    <3>1. (4 * f + 1) + Len(bytes) = (Start(b) + 1) + l
      BY <1>1, <1>7, <1>9, <2>2
    <3> QED
      BY <1>13, <3>1
  <2>6. IsAt(out, Start(b) + 1, packed[b + 1] \o fill)
    BY <1>5, <1>6, <1>12, <1>14, <2>5, AtJoin
  <2>7. e \in 0..3
    BY <1>1
  <2> QED
    BY <1>5, <1>6, <1>10, <1>11, <2>1, <2>3, <2>4, <2>6, <2>7
<1>16. CASE b # n - 1
  <2>1. e = 0 /\ hfc.bin_count = n /\ b + 1 \in 0..n - 1 /\ b # hfc.bin_count - 1
    BY <1>2, <1>3, <1>16 DEF Finds
  <2>2. Upper(b) = 4 * f + q
    <3>1. Buff32(o + (b + 1)) = q
      BY <1>6, <1>8, <2>1
    <3>2. hfc.bin_offsets + 1 + b = o + (b + 1)
      BY <1>1, <1>3 DEF Finds
    <3> QED
      BY <2>1, <3>1, <3>2 DEF Upper, Finds
  <2>3. 4 * f + q = Start(b) + l + 0
    BY <1>1, <1>7, <1>9
  <2>4. packed[b + 1] \o Fill(0) = packed[b + 1]
    <3>1. Fill(0) = <<>>
      BY DEF Fill
    <3> QED
      BY <1>5, <3>1, ConcatEmptySeq
  <2>5. 0 \in 0..3
    OBVIOUS
  <2> QED
    BY <1>5, <1>6, <1>10, <1>14, <2>1, <2>2, <2>3, <2>4, <2>5
<1> QED
  BY <1>15, <1>16

(* Whatever bytes are filled up with decodes to less symbols than it and   *)
(* the bits left of the last byte have bits.                               *)
LEMMA DecodesFilled ==
  ASSUME NEW dict, Decodable(dict), NEW text \in Seq(DOMAIN dict), NEW p,
         Encodes(p, Coded(dict, text, Len(text))), NEW e \in 0..3
  PROVE  /\ IsPrefix(text, huffman_canonical_decode(dict, p \o Fill(e)))
         /\ Len(huffman_canonical_decode(dict, p \o Fill(e))) \in Nat
         /\ Len(huffman_canonical_decode(dict, p \o Fill(e))) < Len(text) + ByteBits * (e + 1)
<1>1. PICK x \in 0..ByteBits - 1 : FlattenSeq(p) = Coded(dict, text, Len(text)) \o Zeros(x)
  BY DEF Encodes
<1>2. p \in Seq(Byte8) /\ x \in Nat /\ e \in Nat
  BY Sizes DEF Encodes
<1>3. PICK codes : codes = Coded(dict, text, Len(text))
  OBVIOUS
<1>4. codes \in Seq(Bit)
  <2>1. Len(text) \in 0..Len(text)
    OBVIOUS
  <2> QED
    BY <1>3, <2>1, CodedIs
<1>5. PICK y \in Seq(Bit) : y = Zeros(x) /\ Len(y) = x
  BY <1>2, ZerosAre
<1>6. PICK fill : fill = Fill(e) /\ fill \in Seq(Byte8) /\ Len(fill) = e
  BY <1>2, FillIs
<1>7. PICK w \in Seq(Bit) : w = FlattenSeq(fill) /\ Len(w) = ByteBits * e
  BY <1>6, BitsOfBytes
<1>8. FlattenSeq(p \o fill) = codes \o (y \o w)
  <2>1. p \in Seq(Seq(Bit)) /\ fill \in Seq(Seq(Bit))
    BY <1>2, <1>6, PackedIsSeq
  <2>2. FlattenSeq(p \o fill) = FlattenSeq(p) \o FlattenSeq(fill)
    BY <2>1, FlattenConcat
  <2>3. FlattenSeq(p \o fill) = (codes \o y) \o w
    BY <1>1, <1>3, <1>5, <1>7, <2>2, Zenon
  <2>4. (codes \o y) \o w = codes \o (y \o w)
    BY <1>4, ConcatAssociative
  <2> QED
    BY <2>3, <2>4, Zenon
<1>9. y \o w \in Seq(Bit) /\ Len(y \o w) = x + ByteBits * e
  BY <1>5, <1>7, ConcatProperties
<1>10. PICK z \in Seq(Bit) : z = y \o w /\ Len(z) = x + ByteBits * e
  BY <1>9
<1>11. FlattenSeq(p \o Fill(e)) = Coded(dict, text, Len(text)) \o z
  BY <1>3, <1>6, <1>8, <1>10, Zenon
<1>12. PICK bytes : bytes = p \o Fill(e)
  OBVIOUS
<1>13. /\ IsPrefix(text, huffman_canonical_decode(dict, bytes))
       /\ Len(huffman_canonical_decode(dict, bytes)) <= Len(text) + Len(z)
  <2>1. FlattenSeq(bytes) = Coded(dict, text, Len(text)) \o z
    BY <1>11, <1>12
  <2> QED
    BY <2>1, DecodesBytes
<1>14. Len(huffman_canonical_decode(dict, bytes)) \in Nat
  <2>1. FlattenSeq(bytes) \in Seq(Bit)
    <3>1. codes \o z \in Seq(Bit)
      BY <1>4, ConcatProperties
    <3> QED
      BY <1>3, <1>11, <1>12, <3>1
  <2>2. PICK f : /\ Decoding(f, dict, FlattenSeq(bytes))
                 /\ huffman_canonical_decode(dict, bytes) = f[Len(FlattenSeq(bytes))].pushed
    BY <2>1, DecodingIs
  <2>3. Len(FlattenSeq(bytes)) \in 0..Len(FlattenSeq(bytes))
    BY <2>1
  <2>4. f[Len(FlattenSeq(bytes))] \in States(dict)
    BY <2>2, <2>3 DEF Decoding
  <2>5. f[Len(FlattenSeq(bytes))].pushed \in Seq(DOMAIN dict)
    BY <2>4 DEF States
  <2> QED
    BY <2>2, <2>5
<1>15. PICK n \in Nat, l \in Nat, m \in Nat :
         /\ n = Len(huffman_canonical_decode(dict, bytes)) /\ l = Len(text) /\ m = ByteBits * e
  <2>1. ByteBits * e \in Nat
    BY <1>2, Sizes
  <2> QED
    BY <1>14, <2>1
<1>16. ByteBits * (e + 1) = m + ByteBits
  BY <1>2, <1>15, Sizes
<1>17. n < l + ByteBits * (e + 1)
  BY <1>10, <1>13, <1>15, <1>16, Sizes
<1> QED
  BY <1>12, <1>13, <1>14, <1>15, <1>17

(* From a byte of bin b on, all that is left of it.                        *)
LEMMA DecodesRest ==
  ASSUME NEW dict, Decodable(dict), NEW text \in Seq(DOMAIN dict), NEW p,
         Encodes(p, Coded(dict, text, Len(text))), NEW e \in 0..3, NEW s \in Nat,
         out \in Seq(Cell), IsAt(out, s + 1, p \o Fill(e))
  PROVE  LET bin == huffman_canonical_decode(dict, SubSeq(out, s + 1, s + Len(p) + e))
         IN /\ IsPrefix(text, bin) /\ Len(bin) \in Nat
            /\ Len(bin) < Len(text) + ByteBits * (e + 1)
<1>1. p \in Seq(Byte8) /\ e \in Nat
  BY DEF Encodes
<1>2. Fill(e) \in Seq(Byte8) /\ Len(Fill(e)) = e
  BY <1>1, FillIs
<1>3. PICK bytes : bytes = p \o Fill(e)
  OBVIOUS
<1>4. bytes \in Seq(Byte8) /\ Len(bytes) = Len(p) + e
  BY <1>1, <1>2, <1>3, ConcatProperties
<1>5. bytes \in Seq(Cell)
  <2>1. Byte8 \subseteq Cell
    BY DEF Cell
  <2> QED
    BY <1>4, <2>1, SeqMonotonic
<1>6. SubSeq(out, s + 1, (s + 1) + Len(bytes) - 1) = bytes
  BY <1>3, <1>5, SubSeqAt
<1>7. (s + 1) + Len(bytes) - 1 = s + Len(p) + e
  BY <1>1, <1>4
<1> QED
  BY <1>3, <1>6, <1>7, DecodesFilled

(* How much the last bin, and any other, may be filled up with.            *)
FillOf(b, n) == IF b = n - 1 THEN 4 * ByteBits ELSE ByteBits

LEMMA DecodesBin ==
  ASSUME NEW o, NEW f, NEW packed, NEW z, Layout(o, f, packed, z),
         Finds(o, f, Len(packed)), NEW b \in 0..Len(packed) - 1,
         Decodable(Dict(hfc.lens)), NEW text \in Seq(DOMAIN Dict(hfc.lens)),
         Encodes(packed[b + 1], Coded(Dict(hfc.lens), text, Len(text)))
  PROVE  /\ IsPrefix(text, uncompress_bin(b))
         /\ Len(uncompress_bin(b)) < Len(text) + FillOf(b, Len(packed))
<1>1. PICK e : e = IF b = Len(packed) - 1 THEN z ELSE 0
  OBVIOUS
<1>2. /\ Start(b) \in Nat /\ e \in 0..3 /\ IsAt(out, Start(b) + 1, packed[b + 1] \o Fill(e))
      /\ Upper(b) = Start(b) + Len(packed[b + 1]) + e
  BY <1>1, ReadsBin
<1>3. out \in Seq(Cell)
  BY DEF Layout
<1>4. PICK dict : dict = Dict(hfc.lens)
  OBVIOUS
<1>5. PICK bin : bin = huffman_canonical_decode(dict, SubSeq(out, Start(b) + 1,
                         Start(b) + Len(packed[b + 1]) + e))
  OBVIOUS
<1>6. IsPrefix(text, bin) /\ Len(bin) \in Nat /\ Len(bin) < Len(text) + ByteBits * (e + 1)
  <2>1. Decodable(dict) /\ text \in Seq(DOMAIN dict)
        /\ Encodes(packed[b + 1], Coded(dict, text, Len(text)))
    BY <1>4
  <2> QED
    BY <1>2, <1>3, <1>5, <2>1, DecodesRest
<1>7. bin = uncompress_bin(b)
  BY <1>2, <1>4, <1>5 DEF uncompress_bin
<1>8. ByteBits * (e + 1) \in Nat /\ FillOf(b, Len(packed)) \in Nat
      /\ ByteBits * (e + 1) <= FillOf(b, Len(packed))
  <2>1. CASE b = Len(packed) - 1
    <3>1. ByteBits * (e + 1) \in Nat /\ 4 * ByteBits \in Nat /\ ByteBits * (e + 1) <= 4 * ByteBits
      BY <1>2, Sizes
    <3> QED
      BY <2>1, <3>1 DEF FillOf
  <2>2. CASE b # Len(packed) - 1
    <3>1. e = 0
      BY <1>1, <2>2
    <3>2. ByteBits * (0 + 1) = ByteBits
      BY Sizes
    <3> QED
      BY <2>2, <3>1, <3>2, Sizes DEF FillOf
  <2> QED
    BY <2>1, <2>2
<1>9. ASSUME NEW m, m = Len(bin), NEW l, l = Len(text), NEW g, g = ByteBits * (e + 1),
             NEW h, h = FillOf(b, Len(packed))
      PROVE  m < l + h
  <2>1. m \in Nat /\ l \in Nat /\ g \in Nat /\ h \in Nat /\ m < l + g /\ g <= h
    BY <1>6, <1>8, <1>9
  <2> QED
    BY <2>1
<1> QED
  BY <1>6, <1>7, <1>9

-----------------------------------------------------------------------------
(* What is so whenever: nothing of it changes.                             *)
Given ==
  /\ lens \in Codes /\ count \in Nat
  /\ bins \in Seq(Seq(1..Sum(lens))) /\ Len(bins) = bin_count

(* The words the offsets and the bins begin at.                            *)
DictLen == 1 + Len(lens) + ((Sum(lens) + 3) \div 4)
OffsetsWord == 3 + DictLen
BinsWord == OffsetsWord + bin_count

(* The first n bins, each packed by itself.                                *)
PackedAs(packed, n) ==
  /\ packed \in Seq(Seq(Byte8)) /\ Len(packed) = n
  /\ \A b \in 1..n : Encodes(packed[b], Coded(Dict(lens), bins[b], Len(bins[b])))

FileHeader ==
  <<<<"h">>, <<"f">>, <<"c">>>> \o Fill(1) \o Words(<<count, BINSIZE>>) \o huffman_serialize

PackInv ==
  phase = "pack" =>
    /\ hfc = <<>> /\ i \in 1..bin_count + 1 /\ PackedAs(inner_bins, i - 1)
    /\ i <= bin_count =>
         k \in 1..Len(bins[i]) + 1 /\ Packing(packer, Coded(Dict(lens), bins[i], k - 1))

WriteInv ==
  /\ phase \in {"words", "bins", "align"} =>
       hfc = <<>> /\ PackedAs(inner_bins, bin_count) /\ offsets = OffsetsOf(inner_bins)
  /\ phase \in {"words", "bins"} => i \in 1..bin_count + 1
  /\ phase = "words" => out = FileHeader \o Words(SubSeq(offsets, 1, i - 1))
  /\ phase = "bins" => out = FileHeader \o Words(offsets) \o Until(inner_bins, i - 1)
  /\ phase = "align" => out = FileHeader \o Words(offsets) \o FlattenSeq(inner_bins)

HasRead ==
  hfc = [ length |-> count, bin_size |-> BINSIZE,
          bin_offsets |-> OffsetsWord, bin_count |-> bin_count, first_bin |-> BinsWord,
          lens |-> lens, symbols |-> Symbols(Sum(lens)) ]

ReadInv ==
  phase = "read" =>
    /\ PackedAs(inner_bins, bin_count)
    /\ IsAt(out, 5, Words(<<count, BINSIZE>>)) /\ IsAt(out, 13, huffman_serialize)
    /\ \E z : Layout(OffsetsWord, BinsWord, inner_bins, z)
    /\ hfc # <<>> => HasRead

(* An older file, which some code of headers was written with.             *)
OlderDictAt(ls) == 3 + 2 * Len(ls) + ((Len(ls) + 3) \div 4)

HasReadOlder(ls) ==
  hfc = [ length |-> count, bin_size |-> BINSIZE,
          bin_offsets |-> OlderDictAt(ls) + DictLen + 1, bin_count |-> bin_count,
          first_bin |-> OlderDictAt(ls) + DictLen + bin_count + 1,
          lens |-> lens, symbols |-> Symbols(Sum(lens)), header_huff |-> huffman_ht_tree(8) ]

OlderInv ==
  phase = "older" => \E ls \in HeaderCodes :
    /\ headers \in [1..bin_count -> Seq(2..Len(ls))] /\ out = OlderFile(HuTucker(ls))
    /\ hfc # <<>> => HasReadOlder(ls)

FileInv ==
  /\ Given /\ (\E codes : Packing(packer, codes))
  /\ phase \in {"pack", "words", "bins", "align", "read", "older"}
  /\ PackInv /\ WriteInv /\ ReadInv /\ OlderInv

LEMMA BinCount ==
  ASSUME count \in Nat
  PROVE  bin_count \in Nat
<1>1. BINSIZE \in Nat \ {0}
  BY FileAssumption
<1>2. count + BINSIZE - 1 \in Nat
  BY <1>1
<1> QED
  BY <1>1, <1>2, Division DEF bin_count

LEMMA GivenIs ==
  ASSUME Given
  PROVE  /\ bin_count \in Nat /\ BINSIZE \in Nat /\ count \in Nat /\ DictLen \in Nat
         /\ Decodable(Dict(lens))
         /\ \A b \in 1..bin_count : bins[b] \in Seq(DOMAIN Dict(lens)) /\ Len(bins[b]) \in Nat
<1>1. lens \in Codes /\ count \in Nat /\ bins \in Seq(Seq(1..Sum(lens))) /\ Len(bins) = bin_count
  BY DEF Given
<1>2. bin_count \in Nat /\ BINSIZE \in Nat
  BY <1>1, BinCount, FileAssumption
<1>3. Decodable(Dict(lens)) /\ DOMAIN Dict(lens) = 1..Sum(lens)
  BY <1>1, DictIsDecodable
<1>4. DictLen \in Nat
  <2>1. Len(lens) \in Nat /\ Sum(lens) \in Nat
    BY <1>1, LensAre
  <2>2. (Sum(lens) + 3) \div 4 \in Nat
    BY <2>1, UpToWord
  <2> QED
    BY <2>1, <2>2 DEF DictLen
<1>5. ASSUME NEW b \in 1..bin_count PROVE bins[b] \in Seq(DOMAIN Dict(lens)) /\ Len(bins[b]) \in Nat
  <2>1. bins[b] \in Seq(1..Sum(lens))
    BY <1>1, ElementOfSeq
  <2> QED
    BY <1>3, <2>1
<1> QED
  BY <1>1, <1>2, <1>3, <1>4, <1>5

(* The header's length, and where its parts are.                           *)
LEMMA FileHeaderIs ==
  ASSUME Given
  PROVE  /\ FileHeader \in Seq(Cell) /\ Len(FileHeader) = 4 * OffsetsWord
         /\ IsAt(FileHeader, 5, Words(<<count, BINSIZE>>))
         /\ IsAt(FileHeader, 13, huffman_serialize)
<1>1. PICK a \in Seq(Cell) : a = <<<<"h">>, <<"f">>, <<"c">>>> /\ Len(a) = 3
  <2>1. <<<<"h">>, <<"f">>, <<"c">>>> \in Seq(Cell)
    BY DEF Cell
  <2>2. Len(<<<<"h">>, <<"f">>, <<"c">>>>) = 3
    OBVIOUS
  <2> QED
    BY <2>1, <2>2
<1>2. PICK u \in Seq(Cell) : u = Fill(1) /\ Len(u) = 1
  <2>1. 1 \in Nat
    OBVIOUS
  <2> QED
    BY <2>1, FillIs
<1>3. PICK v \in Seq(Cell) : v = Words(<<count, BINSIZE>>) /\ Len(v) = 8
  <2>1. <<count, BINSIZE>> \in Seq(Int) /\ Len(<<count, BINSIZE>>) = 2
    BY GivenIs
  <2>2. 4 * 2 = 8
    OBVIOUS
  <2> QED
    BY <2>1, <2>2, WordsAre
<1>4. PICK w \in Seq(Cell) : w = huffman_serialize /\ Len(w) = 4 * DictLen
  <2>1. lens \in Codes
    BY DEF Given
  <2> QED
    BY <2>1, SerializeIs DEF DictLen
<1>5. FileHeader = ((a \o u) \o v) \o w
  BY <1>1, <1>2, <1>3, <1>4 DEF FileHeader
<1>6. Len(a) = 3 /\ Len(u) = 1 /\ Len(v) = 8 /\ Len(w) = 4 * DictLen
  BY <1>1, <1>2, <1>3, <1>4
<1>7. PICK p : p = a \o u
  OBVIOUS
<1>a. p \in Seq(Cell) /\ Len(p) = 4
  <2>1. a \o u \in Seq(Cell) /\ Len(a \o u) = Len(a) + Len(u)
    BY ConcatProperties
  <2>2. p \in Seq(Cell) /\ Len(p) = Len(a) + Len(u)
    BY <1>7, <2>1, Zenon
  <2> QED
    BY <1>6, <2>2
<1>b. PICK q : q = p \o v
  OBVIOUS
<1>c. q \in Seq(Cell) /\ Len(q) = 12
  <2>1. p \o v \in Seq(Cell) /\ Len(p \o v) = Len(p) + Len(v)
    BY <1>a, ConcatProperties
  <2>2. q \in Seq(Cell) /\ Len(q) = Len(p) + Len(v)
    BY <1>b, <2>1, Zenon
  <2> QED
    BY <1>6, <1>a, <2>2
<1>8. FileHeader = q \o w
  BY <1>5, <1>7, <1>b, Zenon
<1>9. q \o w \in Seq(Cell) /\ Len(q \o w) = 12 + 4 * DictLen
  <2>1. q \o w \in Seq(Cell) /\ Len(q \o w) = Len(q) + Len(w)
    BY <1>c, ConcatProperties
  <2> QED
    BY <1>6, <1>c, <2>1
<1>10. 12 + 4 * DictLen = 4 * OffsetsWord
  BY GivenIs DEF OffsetsWord
<1>11. IsAt(q \o w, 13, w)
  <2>1. IsAt(q \o w, Len(q) + 1, w)
    BY <1>c, AtConcat
  <2>2. 12 + 1 = 13
    OBVIOUS
  <2> QED
    BY <1>c, <2>1, <2>2
<1>12. IsAt(q \o w, 5, v)
  <2>1. IsAt(q, 5, v)
    <3>1. IsAt(p \o v, Len(p) + 1, v)
      BY <1>a, AtConcat
    <3>2. 4 + 1 = 5
      OBVIOUS
    <3> QED
      BY <1>a, <1>b, <3>1, <3>2, Zenon
  <2>2. Len(v) \in Nat
    OBVIOUS
  <2> QED
    BY <1>c, <2>1, <2>2, AtMore
<1> QED
  BY <1>3, <1>4, <1>8, <1>9, <1>10, <1>11, <1>12

LEMMA WordsNext ==
  ASSUME NEW ns \in Seq(Int), NEW n \in Int
  PROVE  Words(Append(ns, n)) = Words(ns) \o Word(n)
<1>1. PICK l \in Nat : l = Len(ns) /\ DOMAIN ns = 1..l
  OBVIOUS
<1>2. PICK seqs : seqs = [j \in DOMAIN ns |-> Word(ns[j])]
  OBVIOUS
<1>3. \A j \in 1..l : ns[j] \in Int
  BY <1>1
<1>4. seqs \in Seq(Seq(Cell)) /\ Len(seqs) = l
  <2>1. \A j \in 1..l : Word(ns[j]) \in Seq(Cell)
    BY <1>3, WordIs
  <2>2. seqs = [j \in 1..l |-> Word(ns[j])]
    BY <1>1, <1>2
  <2> QED
    BY <2>1, <2>2
<1>5. Word(n) \in Seq(Cell)
  BY WordIs
<1>6. PICK more : more = Append(ns, n)
  OBVIOUS
<1>7. DOMAIN more = 1..l + 1 /\ (\A j \in 1..l : more[j] = ns[j]) /\ more[l + 1] = n
  BY <1>1, <1>6
<1>8. [j \in DOMAIN more |-> Word(more[j])] = Append(seqs, Word(n))
  <2>1. Append(seqs, Word(n)) = [j \in 1..l + 1 |-> IF j <= l THEN seqs[j] ELSE Word(n)]
    <3>1. PICK app : app = Append(seqs, Word(n))
      OBVIOUS
    <3>2. app \in Seq(Seq(Cell)) /\ Len(app) = l + 1
          /\ (\A j \in 1..l : app[j] = seqs[j]) /\ app[l + 1] = Word(n)
      BY <1>4, <1>5, <3>1, AppendProperties
    <3>3. app = [j \in 1..l + 1 |-> app[j]]
      BY <3>2
    <3>4. \A j \in 1..l + 1 : app[j] = IF j <= l THEN seqs[j] ELSE Word(n)
      BY <3>2
    <3> QED
      BY <3>1, <3>3, <3>4
  <2>2. ASSUME NEW j \in 1..l + 1
        PROVE  Word(more[j]) = IF j <= l THEN seqs[j] ELSE Word(n)
    <3>1. CASE j <= l
      <4>1. j \in 1..l
        BY <3>1
      <4> QED
        BY <1>1, <1>2, <1>7, <3>1, <4>1
    <3>2. CASE ~ j <= l
      <4>1. j = l + 1
        BY <3>2
      <4> QED
        BY <1>7, <3>2, <4>1
    <3> QED
      BY <3>1, <3>2
  <2> QED
    BY <1>7, <2>1, <2>2
<1>9. FlattenSeq(Append(seqs, Word(n))) = FlattenSeq(seqs) \o Word(n)
  BY <1>4, <1>5, FlattenNext
<1> QED
  BY <1>2, <1>6, <1>8, <1>9 DEF Words

-----------------------------------------------------------------------------
(* Each step keeps it.                                                     *)

LEMMA PackByteKeeps ==
  ASSUME FileInv, PackByte
  PROVE  FileInv'
<1>1. /\ phase = "pack" /\ i <= bin_count /\ k <= Len(bins[i])
      /\ packer' = Packed(packer, Dict(lens)[bins[i][k]]) /\ k' = k + 1
      /\ UNCHANGED <<lens, bins, count, inner_bins, offsets, out, phase, i, hfc>>
  BY DEF PackByte
<1>2. Given /\ PackInv
  BY DEF FileInv
<1>3. /\ hfc = <<>> /\ i \in 1..bin_count + 1 /\ PackedAs(inner_bins, i - 1)
      /\ k \in 1..Len(bins[i]) + 1 /\ Packing(packer, Coded(Dict(lens), bins[i], k - 1))
  BY <1>1, <1>2 DEF PackInv
<1>4. PICK dict, text, n : dict = Dict(lens) /\ text = bins[i] /\ n = bin_count
  OBVIOUS
<1>5. n \in Nat /\ Decodable(dict) /\ text \in Seq(DOMAIN dict) /\ Len(text) \in Nat
  <2>1. i \in 1..bin_count
    BY <1>1, <1>2, <1>3, GivenIs
  <2> QED
    BY <1>2, <1>4, <2>1, GivenIs
<1>6. k \in 1..Len(text) /\ k - 1 \in Nat /\ k' - 1 = k /\ k' \in 1..Len(text) + 1
  BY <1>1, <1>3, <1>4, <1>5
<1>7. Packing(packer', Coded(dict, text, k))
  <2>1. Fits(dict[text[k]])
    BY <1>5, <1>6 DEF Decodable
  <2>2. Packing(packer, Coded(dict, text, k - 1))
    BY <1>3, <1>4
  <2>3. Packing(packer', Coded(dict, text, k - 1) \o CodeBits(dict[text[k]]))
    BY <1>1, <1>4, <2>1, <2>2, PackStep
  <2> QED
    BY <1>5, <1>6, <2>3, CodedIs
<1>8. Packing(packer', Coded(Dict(lens'), bins'[i'], k' - 1))
  BY <1>1, <1>4, <1>6, <1>7
<1>9. Given'
  BY <1>1, <1>2 DEF Given, bin_count
<1>10. PackInv'
  <2>1. PackedAs(inner_bins, i - 1)'
    BY <1>1, <1>3 DEF PackedAs
  <2>2. hfc' = <<>> /\ (i \in 1..bin_count + 1)' /\ k' \in 1..Len(bins'[i']) + 1
    BY <1>1, <1>3, <1>4, <1>6 DEF bin_count
  <2> QED
    BY <1>8, <2>1, <2>2 DEF PackInv
<1>11. phase' = "pack"
  BY <1>1
<1> QED
  BY <1>8, <1>9, <1>10, <1>11 DEF FileInv, WriteInv, ReadInv, OlderInv

LEMMA PackBinKeeps ==
  ASSUME FileInv, PackBin
  PROVE  FileInv'
<1>1. /\ phase = "pack" /\ i <= bin_count /\ k > Len(bins[i])
      /\ inner_bins' = Append(inner_bins, Flushed(packer))
      /\ packer' = Idle /\ k' = 1 /\ i' = i + 1
      /\ UNCHANGED <<lens, bins, count, offsets, out, phase, hfc>>
  BY DEF PackBin
<1>2. Given /\ PackInv
  BY DEF FileInv
<1>3. /\ hfc = <<>> /\ i \in 1..bin_count + 1 /\ PackedAs(inner_bins, i - 1)
      /\ k \in 1..Len(bins[i]) + 1 /\ Packing(packer, Coded(Dict(lens), bins[i], k - 1))
  BY <1>1, <1>2 DEF PackInv
<1>4. PICK n \in Nat : n = bin_count
  BY <1>2, GivenIs
<1>5. i \in 1..n /\ i' \in 1..n + 1 /\ i' - 1 = i
  BY <1>1, <1>3, <1>4
<1>6. Len(bins[i]) \in Nat
  BY <1>2, <1>4, <1>5, GivenIs
<1>7. k - 1 = Len(bins[i])
  BY <1>1, <1>3, <1>6
<1>8. Encodes(Flushed(packer), Coded(Dict(lens), bins[i], Len(bins[i])))
  BY <1>3, <1>7, FlushedIs
<1>9. PackedAs(inner_bins', i)
  <2>1. PICK bytes : bytes = Flushed(packer)
    OBVIOUS
  <2>2. bytes \in Seq(Byte8) /\ Encodes(bytes, Coded(Dict(lens), bins[i], Len(bins[i])))
    BY <1>8, <2>1 DEF Encodes
  <2>3. inner_bins \in Seq(Seq(Byte8)) /\ Len(inner_bins) = i - 1
        /\ \A b \in 1..i - 1 : Encodes(inner_bins[b], Coded(Dict(lens), bins[b], Len(bins[b])))
    BY <1>3 DEF PackedAs
  <2>4. /\ inner_bins' \in Seq(Seq(Byte8)) /\ Len(inner_bins') = i /\ inner_bins'[i] = bytes
        /\ \A b \in 1..i - 1 : inner_bins'[b] = inner_bins[b]
    BY <1>1, <1>5, <2>1, <2>2, <2>3, AppendProperties
  <2>5. \A b \in 1..i : b = i \/ b \in 1..i - 1
    BY <1>5
  <2> QED
    BY <2>2, <2>3, <2>4, <2>5 DEF PackedAs
<1>10. Given'
  BY <1>1, <1>2 DEF Given, bin_count
<1>11. Packing(packer', <<>>)
  BY <1>1, IdlePacking
<1>12. PackInv'
  <2>1. PackedAs(inner_bins, i - 1)'
    <3>1. PackedAs(inner_bins', i' - 1)
      BY <1>5, <1>9
    <3> QED
      BY <1>1, <3>1 DEF PackedAs
  <2>2. hfc' = <<>> /\ (i \in 1..bin_count + 1)'
    BY <1>1, <1>3, <1>4, <1>5 DEF bin_count
  <2>3. ASSUME i' <= n
        PROVE  k' \in 1..Len(bins[i']) + 1 /\ Packing(packer', Coded(Dict(lens), bins[i'], k' - 1))
    <3>1. i' \in 1..n
      BY <1>4, <1>5, <2>3
    <3>2. Decodable(Dict(lens)) /\ bins[i'] \in Seq(DOMAIN Dict(lens)) /\ Len(bins[i']) \in Nat
      BY <1>2, <1>4, <3>1, GivenIs
    <3>3. Coded(Dict(lens), bins[i'], 0) = <<>>
      BY <3>2, CodedIs
    <3>4. k' \in 1..Len(bins[i']) + 1 /\ k' - 1 = 0
      BY <1>1, <3>2
    <3> QED
      BY <1>11, <3>3, <3>4
  <2>4. bin_count' = n /\ bins' = bins /\ lens' = lens
    BY <1>1, <1>4 DEF bin_count
  <2> QED
    BY <2>1, <2>2, <2>3, <2>4 DEF PackInv
<1>13. phase' = "pack"
  BY <1>1
<1> QED
  BY <1>10, <1>11, <1>12, <1>13 DEF FileInv, WriteInv, ReadInv, OlderInv

LEMMA PushHeaderKeeps ==
  ASSUME FileInv, PushHeader
  PROVE  FileInv'
<1>1. /\ phase = "pack" /\ i > bin_count /\ offsets' = compute_offsets /\ phase' = "words" /\ i' = 1
      /\ out' = FileHeader
      /\ UNCHANGED <<lens, bins, count, packer, k, inner_bins, hfc>>
  BY DEF PushHeader, FileHeader
<1>2. Given /\ PackInv /\ \E codes : Packing(packer, codes)
  BY DEF FileInv
<1>3. PICK n \in Nat : n = bin_count
  BY <1>2, GivenIs
<1>4. hfc = <<>> /\ i - 1 = n /\ PackedAs(inner_bins, n)
  <2>1. hfc = <<>> /\ i \in 1..n + 1 /\ PackedAs(inner_bins, i - 1)
    BY <1>1, <1>2, <1>3 DEF PackInv
  <2>2. i - 1 = n
    BY <1>1, <1>3, <2>1
  <2> QED
    BY <2>1, <2>2
<1>5. Given' /\ bin_count' = n
  BY <1>1, <1>2, <1>3 DEF Given, bin_count
<1>6. out' = FileHeader \o Words(SubSeq(offsets', 1, 0))
  <2>1. PICK o \in Seq(Int) : o = offsets'
    <3>1. inner_bins \in Seq(Seq(Byte8))
      BY <1>4 DEF PackedAs
    <3>2. offsets' = OffsetsOf(inner_bins)
      BY <1>1 DEF compute_offsets, OffsetsOf
    <3> QED
      BY <3>1, <3>2, OffsetsAre
  <2>2. SubSeq(o, 1, 0) = <<>>
    OBVIOUS
  <2>3. [j \in DOMAIN <<>> |-> Word(<<>>[j])] = <<>>
    OBVIOUS
  <2>4. Words(<<>>) = <<>>
    BY <2>3, FlattenNone DEF Words
  <2>5. FileHeader \o <<>> = FileHeader
    BY <1>2, FileHeaderIs, ConcatEmptySeq
  <2> QED
    BY <1>1, <2>1, <2>2, <2>4, <2>5
<1>7. FileHeader' = FileHeader
  BY <1>1 DEF FileHeader, huffman_serialize
<1>8. WriteInv'
  <2>1. hfc' = <<>> /\ PackedAs(inner_bins, bin_count)'
    BY <1>1, <1>4, <1>5 DEF PackedAs
  <2>2. offsets' = OffsetsOf(inner_bins')
    BY <1>1 DEF compute_offsets, OffsetsOf
  <2>3. i' \in 1..bin_count' + 1 /\ i' - 1 = 0
    BY <1>1, <1>3, <1>5
  <2>4. out' = FileHeader' \o Words(SubSeq(offsets', 1, i' - 1))
    BY <1>6, <1>7, <2>3
  <2> QED
    BY <1>1, <2>1, <2>2, <2>3, <2>4 DEF WriteInv
<1> QED
  BY <1>1, <1>2, <1>5, <1>8 DEF FileInv, PackInv, ReadInv, OlderInv

(* What the writing steps have in common.                                  *)
LEMMA Writing ==
  ASSUME FileInv, phase \in {"words", "bins", "align"}
  PROVE  /\ Given /\ hfc = <<>> /\ PackedAs(inner_bins, bin_count)
         /\ bin_count \in Nat /\ offsets = OffsetsOf(inner_bins)
         /\ inner_bins \in Seq(Seq(Byte8)) /\ Len(inner_bins) = bin_count
         /\ offsets \in Seq(Int) /\ Len(offsets) = bin_count
         /\ FileHeader \o Words(offsets) \in Seq(Cell)
         /\ Len(FileHeader \o Words(offsets)) = 4 * BinsWord
<1>1. Given /\ WriteInv
  BY DEF FileInv
<1>2. hfc = <<>> /\ PackedAs(inner_bins, bin_count) /\ offsets = OffsetsOf(inner_bins)
  BY <1>1 DEF WriteInv
<1>3. PICK n \in Nat : n = bin_count
  BY <1>1, GivenIs
<1>4. inner_bins \in Seq(Seq(Byte8)) /\ Len(inner_bins) = n
  BY <1>2, <1>3 DEF PackedAs
<1>5. offsets \in Seq(Int) /\ Len(offsets) = n
  BY <1>2, <1>4, OffsetsAre
<1>6. Words(offsets) \in Seq(Cell) /\ Len(Words(offsets)) = 4 * n
  BY <1>5, WordsAre
<1>7. FileHeader \in Seq(Cell) /\ Len(FileHeader) = 4 * OffsetsWord
  BY <1>1, FileHeaderIs
<1>8. /\ FileHeader \o Words(offsets) \in Seq(Cell)
      /\ Len(FileHeader \o Words(offsets)) = 4 * OffsetsWord + 4 * n
  BY <1>6, <1>7, ConcatProperties
<1>9. 4 * OffsetsWord + 4 * n = 4 * BinsWord
  BY <1>1, <1>3, GivenIs DEF BinsWord, OffsetsWord
<1> QED
  BY <1>1, <1>2, <1>3, <1>4, <1>5, <1>8, <1>9

LEMMA PushOffsetKeeps ==
  ASSUME FileInv, PushOffset
  PROVE  FileInv'
<1>1. /\ phase = "words" /\ UNCHANGED <<lens, bins, count, packer, k, inner_bins, offsets, hfc>>
      /\ IF i <= bin_count
         THEN out' = out \o Word(offsets[i]) /\ i' = i + 1 /\ UNCHANGED phase
         ELSE phase' = "bins" /\ i' = 1 /\ UNCHANGED out
  BY DEF PushOffset
<1>2. /\ Given /\ hfc = <<>> /\ PackedAs(inner_bins, bin_count) /\ offsets = OffsetsOf(inner_bins)
      /\ inner_bins \in Seq(Seq(Byte8)) /\ offsets \in Seq(Int) /\ Len(offsets) = bin_count
  BY <1>1, Writing
<1>3. PICK n \in Nat : n = bin_count
  BY <1>1, Writing
<1>4. i \in 1..n + 1 /\ out = FileHeader \o Words(SubSeq(offsets, 1, i - 1))
      /\ \E codes : Packing(packer, codes)
  BY <1>1, <1>3 DEF FileInv, WriteInv
<1>5. Given' /\ bin_count' = n /\ FileHeader' = FileHeader
  BY <1>1, <1>2, <1>3 DEF Given, bin_count, FileHeader, huffman_serialize
<1>6. hfc' = <<>> /\ PackedAs(inner_bins, bin_count)' /\ offsets' = OffsetsOf(inner_bins')
  BY <1>1, <1>2, <1>3, <1>5 DEF PackedAs, OffsetsOf
<1>7. CASE i <= n
  <2>1. out' = out \o Word(offsets[i]) /\ i' = i + 1 /\ phase' = "words"
    BY <1>1, <1>3, <1>7
  <2>2. PICK j \in Nat : j = i - 1 /\ j + 1 = i /\ j + 1 <= Len(offsets) /\ i' - 1 = j + 1
    BY <1>2, <1>3, <1>4, <1>7, <2>1
  <2>3. PICK ns, w : ns = SubSeq(offsets, 1, j) /\ w = offsets[j + 1]
    OBVIOUS
  <2>4. ns \in Seq(Int) /\ w \in Int /\ SubSeq(offsets, 1, j + 1) = Append(ns, w)
    BY <1>2, <2>2, <2>3, OneMoreOf
  <2>5. Words(Append(ns, w)) = Words(ns) \o Word(w)
    BY <2>4, WordsNext
  <2>6. (FileHeader \o Words(ns)) \o Word(w) = FileHeader \o (Words(ns) \o Word(w))
    <3>1. FileHeader \in Seq(Cell)
      BY <1>2, FileHeaderIs
    <3>2. Words(ns) \in Seq(Cell) /\ Word(w) \in Seq(Cell)
      BY <2>4, WordsAre, WordIs
    <3> QED
      BY <3>1, <3>2, ConcatAssociative
  <2>7. out' = FileHeader \o Words(SubSeq(offsets, 1, j + 1))
    BY <1>4, <2>1, <2>2, <2>3, <2>4, <2>5, <2>6
  <2>8. out' = FileHeader' \o Words(SubSeq(offsets', 1, i' - 1))
    BY <1>1, <1>5, <2>2, <2>7
  <2>9. i' \in 1..bin_count' + 1
    BY <1>4, <1>5, <1>7, <2>1
  <2>10. WriteInv'
    BY <1>6, <2>1, <2>8, <2>9 DEF WriteInv
  <2> QED
    BY <1>1, <1>4, <1>5, <2>1, <2>10 DEF FileInv, PackInv, ReadInv, OlderInv
<1>8. CASE ~ i <= n
  <2>1. out' = out /\ i' = 1 /\ phase' = "bins" /\ i - 1 = n
    BY <1>1, <1>3, <1>4, <1>8
  <2>2. SubSeq(offsets, 1, i - 1) = offsets
    BY <1>2, <1>3, <2>1
  <2>3. Until(inner_bins, 0) = <<>>
    BY <1>2, UntilIs
  <2>4. out' = (FileHeader \o Words(offsets)) \o Until(inner_bins, 0)
    <3>1. FileHeader \o Words(offsets) \in Seq(Cell)
      BY <1>1, Writing
    <3>2. (FileHeader \o Words(offsets)) \o <<>> = FileHeader \o Words(offsets)
      BY <3>1, ConcatEmptySeq
    <3> QED
      BY <1>4, <2>1, <2>2, <2>3, <3>2
  <2>5. out' = (FileHeader' \o Words(offsets')) \o Until(inner_bins', i' - 1)
    <3>1. i' - 1 = 0
      BY <2>1
    <3> QED
      BY <1>1, <1>5, <2>4, <3>1
  <2>6. i' \in 1..bin_count' + 1
    BY <1>5, <2>1
  <2>7. WriteInv'
    BY <1>6, <2>1, <2>5, <2>6 DEF WriteInv
  <2> QED
    BY <1>1, <1>4, <1>5, <2>1, <2>7 DEF FileInv, PackInv, ReadInv, OlderInv
<1> QED
  BY <1>7, <1>8

LEMMA CopyBinKeeps ==
  ASSUME FileInv, CopyBin
  PROVE  FileInv'
<1>1. /\ phase = "bins" /\ UNCHANGED <<lens, bins, count, packer, k, inner_bins, offsets, hfc>>
      /\ IF i <= bin_count
         THEN out' = out \o inner_bins[i] /\ i' = i + 1 /\ UNCHANGED phase
         ELSE phase' = "align" /\ UNCHANGED <<out, i>>
  BY DEF CopyBin
<1>2. /\ Given /\ hfc = <<>> /\ PackedAs(inner_bins, bin_count) /\ offsets = OffsetsOf(inner_bins)
      /\ inner_bins \in Seq(Seq(Byte8)) /\ Len(inner_bins) = bin_count
      /\ FileHeader \o Words(offsets) \in Seq(Cell)
  BY <1>1, Writing
<1>3. PICK n \in Nat : n = bin_count
  BY <1>1, Writing
<1>4. i \in 1..n + 1 /\ out = FileHeader \o Words(offsets) \o Until(inner_bins, i - 1)
      /\ \E codes : Packing(packer, codes)
  BY <1>1, <1>3 DEF FileInv, WriteInv
<1>5. Given' /\ bin_count' = n /\ FileHeader' = FileHeader
  BY <1>1, <1>2, <1>3 DEF Given, bin_count, FileHeader, huffman_serialize
<1>6. hfc' = <<>> /\ PackedAs(inner_bins, bin_count)' /\ offsets' = OffsetsOf(inner_bins')
  BY <1>1, <1>2, <1>3, <1>5 DEF PackedAs, OffsetsOf
<1>7. CASE i <= n
  <2>1. out' = out \o inner_bins[i] /\ i' = i + 1 /\ phase' = "bins" /\ i' - 1 = i
    <3>1. i <= bin_count /\ i \in 1..n + 1
      BY <1>3, <1>4, <1>7
    <3>2. out' = out \o inner_bins[i] /\ i' = i + 1 /\ phase' = "bins"
      BY <1>1, <3>1
    <3>3. i' - 1 = i
      BY <3>1, <3>2
    <3> QED
      BY <3>2, <3>3
  <2>2. i \in 1..Len(inner_bins) /\ i - 1 \in 0..Len(inner_bins)
    BY <1>2, <1>3, <1>4, <1>7
  <2>3. PICK u, v, w : u = Until(inner_bins, i - 1) /\ v = inner_bins[i] /\ w = FileHeader \o Words(offsets)
    OBVIOUS
  <2>4. u \in Seq(Cell) /\ v \in Seq(Cell) /\ w \in Seq(Cell)
    <3>1. Byte8 \subseteq Cell
      BY DEF Cell
    <3>2. u \in Seq(Byte8)
      BY <1>2, <2>2, <2>3, UntilIs
    <3>3. v \in Seq(Byte8)
      BY <1>2, <2>2, <2>3, ElementOfSeq
    <3> QED
      BY <1>2, <2>3, <3>1, <3>2, <3>3, SeqMonotonic
  <2>5. (w \o u) \o v = w \o (u \o v)
    BY <2>4, ConcatAssociative
  <2>6. Until(inner_bins, i) = u \o v
    BY <1>2, <2>2, <2>3, UntilIs
  <2>7. out' = FileHeader \o Words(offsets) \o Until(inner_bins, i)
    BY <1>4, <2>1, <2>3, <2>5, <2>6
  <2>8. out' = FileHeader' \o Words(offsets') \o Until(inner_bins', i' - 1)
    BY <1>1, <1>5, <2>1, <2>7
  <2>9. i' \in 1..bin_count' + 1
    BY <1>4, <1>5, <1>7, <2>1
  <2>10. WriteInv'
    BY <1>6, <2>1, <2>8, <2>9 DEF WriteInv
  <2> QED
    BY <1>1, <1>4, <1>5, <2>1, <2>10 DEF FileInv, PackInv, ReadInv, OlderInv
<1>8. CASE ~ i <= n
  <2>1. out' = out /\ phase' = "align" /\ i - 1 = Len(inner_bins)
    BY <1>1, <1>2, <1>3, <1>4, <1>8
  <2>2. Until(inner_bins, i - 1) = FlattenSeq(inner_bins)
    BY <1>2, <2>1, UntilIs
  <2>3. out' = FileHeader' \o Words(offsets') \o FlattenSeq(inner_bins')
    BY <1>1, <1>4, <1>5, <2>1, <2>2
  <2>4. WriteInv'
    BY <1>6, <2>1, <2>3 DEF WriteInv
  <2> QED
    BY <1>1, <1>4, <1>5, <2>1, <2>4 DEF FileInv, PackInv, ReadInv, OlderInv
<1> QED
  BY <1>7, <1>8

(* The finished file: the header, the offsets, the bins, and what fills    *)
(* the last word up.                                                       *)
LEMMA AlignKeeps ==
  ASSUME FileInv, Align
  PROVE  FileInv'
<1>1. /\ phase = "align" /\ phase' = "read" /\ out' = out \o Fill((4 - (Len(out) % 4)) % 4)
      /\ UNCHANGED <<lens, bins, count, packer, k, inner_bins, offsets, i, hfc>>
  BY DEF Align
<1>2. /\ Given /\ hfc = <<>> /\ PackedAs(inner_bins, bin_count) /\ offsets = OffsetsOf(inner_bins)
      /\ inner_bins \in Seq(Seq(Byte8)) /\ Len(inner_bins) = bin_count
      /\ offsets \in Seq(Int) /\ Len(offsets) = bin_count
      /\ FileHeader \o Words(offsets) \in Seq(Cell)
      /\ Len(FileHeader \o Words(offsets)) = 4 * BinsWord
  BY <1>1, Writing
<1>3. PICK n \in Nat : n = bin_count
  BY <1>1, Writing
<1>4. out = FileHeader \o Words(offsets) \o FlattenSeq(inner_bins) /\ \E codes : Packing(packer, codes)
  BY <1>1 DEF FileInv, WriteInv
<1>5. /\ FileHeader \in Seq(Cell) /\ Len(FileHeader) = 4 * OffsetsWord
      /\ IsAt(FileHeader, 5, Words(<<count, BINSIZE>>)) /\ IsAt(FileHeader, 13, huffman_serialize)
  BY <1>2, FileHeaderIs
<1>6. Given' /\ bin_count' = n
  BY <1>1, <1>2, <1>3 DEF Given, bin_count
<1>7. PICK o, f \in Nat : o = OffsetsWord /\ f = BinsWord
  BY <1>2, GivenIs DEF BinsWord, OffsetsWord
<1>8. PICK h, w, b : h = FileHeader /\ w = Words(offsets) /\ b = FlattenSeq(inner_bins)
  OBVIOUS
<1>9. Byte8 \subseteq Cell
  BY DEF Cell
<1>10. w \in Seq(Cell) /\ h \in Seq(Cell) /\ Len(h) = 4 * o
  BY <1>2, <1>5, <1>7, <1>8, WordsAre
<1>11. b \in Seq(Cell) /\ Len(b) \in Nat
  <2>1. b \in Seq(Byte8) /\ Len(b) \in Nat
    BY <1>2, <1>8, FlatBins
  <2> QED
    BY <1>9, <2>1, SeqMonotonic
<1>12. PICK t : t = h \o w
  OBVIOUS
<1>13. t \in Seq(Cell) /\ Len(t) = 4 * f /\ out = t \o b
  BY <1>2, <1>4, <1>7, <1>8, <1>12
<1>14. out \in Seq(Cell) /\ Len(out) = 4 * f + Len(b)
  <2>1. t \o b \in Seq(Cell) /\ Len(t \o b) = Len(t) + Len(b)
    BY <1>11, <1>13, ConcatProperties
  <2> QED
    BY <1>13, <2>1
<1>15. PICK z \in 0..3 : z = (4 - (Len(out) % 4)) % 4
  BY <1>14
<1>16. PICK y : y = Fill(z)
  OBVIOUS
<1>17. y \in Seq(Cell) /\ Len(y) = z
  <2>1. z \in Nat
    OBVIOUS
  <2> QED
    BY <1>16, <2>1, FillIs
<1>18. out' = out \o y
  BY <1>1, <1>15, <1>16
<1>19. out' \in Seq(Cell) /\ Len(out') = 4 * f + Len(b) + z
  <2>1. out \o y \in Seq(Cell) /\ Len(out \o y) = Len(out) + Len(y)
    BY <1>14, <1>17, ConcatProperties
  <2>2. PICK g \in Nat, m \in Nat : g = 4 * f /\ m = Len(b)
    BY <1>11
  <2>3. Len(out) = g + m /\ Len(out \o y) = Len(out) + z
    BY <1>14, <1>17, <2>1, <2>2
  <2>4. (g + m) + z = g + m + z
    BY <2>2
  <2> QED
    BY <1>18, <2>1, <2>2, <2>3, <2>4
<1>20. ASSUME NEW s, Len(s) \in Nat, NEW c, IsAt(t, c, s)
       PROVE  IsAt(out', c, s)
  <2>1. IsAt(t \o b, c, s)
    BY <1>11, <1>13, <1>20, AtMore
  <2>2. IsAt(out, c, s)
    BY <1>13, <2>1
  <2>3. IsAt(out \o y, c, s)
    BY <1>14, <1>17, <1>20, <2>2, AtMore
  <2> QED
    BY <1>18, <2>3
<1>21. ASSUME NEW s, Len(s) \in Nat, NEW c, IsAt(h, c, s)
       PROVE  IsAt(out', c, s)
  <2>1. IsAt(h \o w, c, s)
    BY <1>10, <1>21, AtMore
  <2> QED
    BY <1>12, <1>20, <1>21, <2>1
<1>22. IsAt(out', 5, Words(<<count, BINSIZE>>)) /\ IsAt(out', 13, huffman_serialize)
  <2>1. lens \in Codes /\ <<count, BINSIZE>> \in Seq(Int)
    BY <1>2, GivenIs DEF Given
  <2>2. Len(huffman_serialize) \in Nat
    <3>1. huffman_serialize \in Seq(Cell)
      BY <2>1, SerializeIs
    <3> QED
      BY <3>1
  <2>3. Len(Words(<<count, BINSIZE>>)) \in Nat
    <3>1. Words(<<count, BINSIZE>>) \in Seq(Cell)
      BY <2>1, WordsAre
    <3> QED
      BY <3>1
  <2>4. PICK u, v : u = Words(<<count, BINSIZE>>) /\ v = huffman_serialize
    OBVIOUS
  <2>5. Len(u) \in Nat /\ Len(v) \in Nat /\ IsAt(h, 5, u) /\ IsAt(h, 13, v)
    BY <1>5, <1>8, <2>2, <2>3, <2>4
  <2>6. IsAt(out', 5, u) /\ IsAt(out', 13, v)
    BY <1>21, <2>5
  <2> QED
    BY <2>4, <2>6
<1>23. IsAt(out', 4 * o + 1, w)
  <2>1. IsAt(h \o w, Len(h) + 1, w)
    BY <1>10, AtConcat
  <2>2. IsAt(t, 4 * o + 1, w) /\ Len(w) \in Nat
    BY <1>10, <1>12, <2>1
  <2> QED
    BY <1>20, <2>2
<1>24. IsAt(out', 4 * f + 1, b \o y)
  <2>1. IsAt(t \o (b \o y), Len(t) + 1, b \o y)
    <3>1. b \o y \in Seq(Cell)
      BY <1>11, <1>17, ConcatProperties
    <3> QED
      BY <1>13, <3>1, AtConcat
  <2>2. (t \o b) \o y = t \o (b \o y)
    <3>1. t \in Seq(Cell) /\ b \in Seq(Cell) /\ y \in Seq(Cell)
      BY <1>11, <1>13, <1>17
    <3> QED
      BY <3>1, ConcatAssociative
  <2>3. out' = t \o (b \o y)
    BY <1>13, <1>18, <2>2
  <2>4. Len(t) = 4 * f
    BY <1>13
  <2>5. IsAt(out', Len(t) + 1, b \o y)
    BY <2>1, <2>3, Zenon
  <2> QED
    BY <2>4, <2>5, Zenon
<1>25. Layout(o, f, inner_bins, z)'
  <2>1. IsAt(out', 4 * o + 1, Words(OffsetsOf(inner_bins)))
    BY <1>2, <1>8, <1>23
  <2>2. IsAt(out', 4 * f + 1, FlattenSeq(inner_bins) \o Fill(z))
    BY <1>8, <1>16, <1>24
  <2>3. Len(out') = 4 * f + Len(FlattenSeq(inner_bins)) + z
    BY <1>8, <1>19
  <2>4. inner_bins' = inner_bins /\ z \in 0..3 /\ inner_bins \in Seq(Seq(Byte8)) /\ out' \in Seq(Cell)
    BY <1>1, <1>2, <1>19
  <2> QED
    BY <2>1, <2>2, <2>3, <2>4 DEF Layout
<1>26. PackedAs(inner_bins, bin_count)'
  BY <1>1, <1>2, <1>3, <1>6 DEF PackedAs
<1>27. ReadInv'
  <2>1. (OffsetsWord)' = o /\ (BinsWord)' = f
    BY <1>1, <1>3, <1>6, <1>7 DEF OffsetsWord, BinsWord, DictLen
  <2>2. \E x : Layout(OffsetsWord, BinsWord, inner_bins, x)'
    BY <1>25, <2>1 DEF Layout
  <2>3. huffman_serialize' = huffman_serialize /\ count' = count
    BY <1>1 DEF huffman_serialize
  <2>4. hfc' = <<>>
    BY <1>1, <1>2
  <2>5. IsAt(out', 5, Words(<<count', BINSIZE>>)) /\ IsAt(out', 13, huffman_serialize')
    BY <1>22, <2>3
  <2> QED
    BY <1>26, <2>2, <2>4, <2>5 DEF ReadInv
<1> QED
  BY <1>1, <1>4, <1>6, <1>27 DEF FileInv, PackInv, WriteInv, OlderInv

(* The two numbers that files begin with.                                  *)
LEMMA ReadsPair ==
  ASSUME out \in Seq(Cell), NEW w \in Nat, NEW m \in Int, NEW n \in Int,
         IsAt(out, 4 * w + 1, Words(<<m, n>>))
  PROVE  Buff32(w) = m /\ Buff32(w + 1) = n
<1>1. PICK ns : ns = <<m, n>>
  OBVIOUS
<1>2. ns \in Seq(Int) /\ Len(ns) = 2 /\ ns[1] = m /\ ns[2] = n
  BY <1>1
<1>3. IsAt(out, 4 * w + 1, Words(ns))
  BY <1>1
<1>4. Buff32(w + 1 - 1) = ns[1] /\ Buff32(w + 2 - 1) = ns[2]
  <2>1. 1 \in 1..Len(ns) /\ 2 \in 1..Len(ns)
    BY <1>2
  <2> QED
    BY <1>2, <1>3, <2>1, ReadsWords
<1>5. w + 1 - 1 = w /\ w + 2 - 1 = w + 1
  OBVIOUS
<1> QED
  BY <1>2, <1>4, <1>5

LEMMA HfcInitKeeps ==
  ASSUME FileInv, hfc_init
  PROVE  FileInv'
<1>1. /\ phase = "read" /\ hfc = <<>>
      /\ UNCHANGED <<lens, bins, count, packer, k, inner_bins, offsets, out, phase, i>>
  BY DEF hfc_init
<1>2. /\ Given /\ ReadInv /\ \E codes : Packing(packer, codes)
  BY DEF FileInv
<1>3. /\ PackedAs(inner_bins, bin_count)
      /\ IsAt(out, 5, Words(<<count, BINSIZE>>)) /\ IsAt(out, 13, huffman_serialize)
      /\ \E z : Layout(OffsetsWord, BinsWord, inner_bins, z)
  BY <1>1, <1>2 DEF ReadInv
<1>4. lens \in Codes /\ out \in Seq(Cell) /\ count \in Int /\ BINSIZE \in Int
  BY <1>2, <1>3, GivenIs DEF Given, Layout
<1>5. Buff32(1) = count /\ Buff32(2) = BINSIZE
  <2>1. 4 * 1 + 1 = 5 /\ 1 + 1 = 2 /\ 1 \in Nat
    OBVIOUS
  <2> QED
    BY <1>3, <1>4, <2>1, ReadsPair
<1>6. /\ Buff32(3) = Len(lens)
      /\ [b \in 1..Buff32(3) |-> Buff32(3 + b)] = lens
      /\ huff_dict_len(3) = DictLen
      /\ SubSeq(out, 4 * (3 + 1 + Len(lens)) + 1, 4 * (3 + 1 + Len(lens)) + Sum(lens))
           = Symbols(Sum(lens))
  <2>1. 4 * 3 + 1 = 13 /\ 3 \in Nat
    OBVIOUS
  <2> QED
    BY <1>3, <1>4, <2>1, ReadsCode DEF DictLen
<1>7. hfc' = [ length |-> count, bin_size |-> BINSIZE,
               bin_offsets |-> OffsetsWord, bin_count |-> bin_count, first_bin |-> BinsWord,
               lens |-> lens, symbols |-> Symbols(Sum(lens)) ]
  BY <1>5, <1>6 DEF hfc_init, bin_dict_offset, SymbolsAt, OffsetsWord, BinsWord, bin_count
<1>8. Given' /\ PackedAs(inner_bins, bin_count)'
  BY <1>1, <1>2, <1>3 DEF Given, bin_count, PackedAs
<1>9. (OffsetsWord)' = OffsetsWord /\ (BinsWord)' = BinsWord /\ bin_count' = bin_count
  BY <1>1 DEF OffsetsWord, BinsWord, DictLen, bin_count
<1>10. ReadInv'
  <2>1. PICK z : Layout(OffsetsWord, BinsWord, inner_bins, z)
    BY <1>3
  <2>2. Layout(OffsetsWord, BinsWord, inner_bins, z)'
    BY <1>1, <1>9, <2>1 DEF Layout
  <2>3. IsAt(out', 5, Words(<<count', BINSIZE>>)) /\ IsAt(out', 13, huffman_serialize')
    BY <1>1, <1>3 DEF huffman_serialize
  <2>4. HasRead'
    BY <1>1, <1>7, <1>9 DEF HasRead
  <2> QED
    BY <1>8, <2>2, <2>3, <2>4 DEF ReadInv
<1> QED
  BY <1>1, <1>2, <1>8, <1>10 DEF FileInv, PackInv, WriteInv, OlderInv

LEMMA StutterKeeps ==
  ASSUME FileInv, UNCHANGED <<vars, headers>>
  PROVE  FileInv'
<1>1. /\ UNCHANGED <<lens, bins, count, packer, k, inner_bins, offsets, out, phase, i, hfc>>
      /\ UNCHANGED headers
  BY DEF vars
<1>2. Given /\ PackInv /\ WriteInv /\ ReadInv /\ OlderInv /\ (\E codes : Packing(packer, codes))
      /\ phase \in {"pack", "words", "bins", "align", "read", "older"}
  BY DEF FileInv
<1>3. (OffsetsWord)' = OffsetsWord /\ (BinsWord)' = BinsWord /\ bin_count' = bin_count
      /\ FileHeader' = FileHeader /\ huffman_serialize' = huffman_serialize
  BY <1>1 DEF OffsetsWord, BinsWord, DictLen, bin_count, FileHeader, huffman_serialize
<1>4. \A packed, n : PackedAs(packed, n)' = PackedAs(packed, n)
  BY <1>1 DEF PackedAs
<1>5. Given'
  BY <1>1, <1>2, <1>3 DEF Given
<1>6. PackInv'
  BY <1>1, <1>2, <1>3, <1>4 DEF PackInv, PackedAs
<1>7. WriteInv'
  BY <1>1, <1>2, <1>3 DEF WriteInv, PackedAs
<1>8. ReadInv'
  BY <1>1, <1>2, <1>3 DEF ReadInv, PackedAs, Layout, HasRead
<1>9. OlderInv'
  <2>1. \A ls : HasReadOlder(ls)' = HasReadOlder(ls)
    BY <1>1, <1>3 DEF HasReadOlder, DictLen, huffman_ht_tree, Buff32
  <2>2. \A dict : OlderFile(dict)' = OlderFile(dict)
    BY <1>1, <1>3 DEF OlderFile
  <2> QED
    BY <1>1, <1>2, <1>3, <2>1, <2>2 DEF OlderInv
<1> QED
  BY <1>1, <1>2, <1>5, <1>6, <1>7, <1>8, <1>9 DEF FileInv

LEMMA BinsAreGiven ==
  ASSUME lens \in Codes, count \in Nat, NEW T,
         bins \in [1..bin_count -> UNION {[1..n -> 1..Sum(lens)] : n \in T}], T \subseteq Nat
  PROVE  Given
<1>1. PICK m \in Nat : m = bin_count
  BY BinCount
<1>2. PICK S : S = 1..Sum(lens)
  OBVIOUS
<1>3. UNION {[1..n -> S] : n \in T} \subseteq Seq(S)
  OBVIOUS
<1>4. bins \in [1..m -> Seq(S)]
  BY <1>1, <1>2, <1>3
<1>5. bins \in Seq(Seq(S)) /\ Len(bins) = m
  BY <1>4
<1> QED
  BY <1>1, <1>2, <1>5 DEF Given

LEMMA InitFileInv ==
  ASSUME Init
  PROVE  FileInv
<1>1. /\ packer = Idle /\ k = 1 /\ inner_bins = <<>> /\ phase = "pack" /\ i = 1 /\ hfc = <<>>
      /\ lens \in Codes /\ count \in IF lens = <<>> THEN {0} ELSE 1..MaxBins * BINSIZE
  BY DEF Init
<1>2. count \in Nat
  BY <1>1, FileAssumption
<1>3. bins \in [1..bin_count -> UNION {[1..n -> 1..Sum(lens)] : n \in 1..MaxBytes}]
  BY DEF Init
<1>4. Given
  <2>1. 1..MaxBytes \subseteq Nat
    BY FileAssumption
  <2> QED
    BY <1>1, <1>2, <1>3, <2>1, BinsAreGiven
<1>5. PICK n \in Nat : n = bin_count
  BY <1>4, GivenIs
<1>6. Packing(packer, <<>>)
  BY <1>1, IdlePacking
<1>7. PackInv
  <2>1. PackedAs(inner_bins, i - 1)
    BY <1>1 DEF PackedAs
  <2>2. i \in 1..bin_count + 1
    BY <1>1, <1>5
  <2>3. ASSUME i <= bin_count
        PROVE  k \in 1..Len(bins[i]) + 1 /\ Packing(packer, Coded(Dict(lens), bins[i], k - 1))
    <3>1. 1 \in 1..bin_count /\ i = 1
      BY <1>1, <1>5, <2>3
    <3>2. Decodable(Dict(lens)) /\ bins[i] \in Seq(DOMAIN Dict(lens)) /\ Len(bins[i]) \in Nat
      BY <1>4, <3>1, GivenIs
    <3>3. Coded(Dict(lens), bins[i], 0) = <<>>
      BY <3>2, CodedIs
    <3>4. k \in 1..Len(bins[i]) + 1 /\ k - 1 = 0
      BY <1>1, <3>2
    <3> QED
      BY <1>6, <3>3, <3>4
  <2> QED
    BY <1>1, <2>1, <2>2, <2>3 DEF PackInv
<1> QED
  BY <1>1, <1>4, <1>6, <1>7 DEF FileInv, WriteInv, ReadInv, OlderInv

LEMMA OlderInitFileInv ==
  ASSUME OlderInit
  PROVE  FileInv
<1>1. /\ packer = Idle /\ phase = "older" /\ hfc = <<>> /\ lens \in Codes
      /\ count \in 1..MaxBins * BINSIZE
  BY DEF OlderInit
<1>2. count \in Nat
  BY <1>1
<1>3. bins \in [1..bin_count -> UNION {[1..n -> 1..Sum(lens)] : n \in 0..MaxOlder}]
  BY DEF OlderInit
<1>4. Given
  <2>1. 0..MaxOlder \subseteq Nat
    OBVIOUS
  <2> QED
    BY <1>1, <1>2, <1>3, <2>1, BinsAreGiven
<1>5. Packing(packer, <<>>)
  BY <1>1, IdlePacking
<1>6. OlderInv
  <2>1. PICK ls \in HeaderCodes :
          /\ headers \in [1..bin_count -> {h \in Headers : Range(h) \subseteq 2..Len(ls)}]
          /\ out = OlderFile(HuTucker(ls))
    BY DEF OlderInit
  <2>2. {h \in Headers : Range(h) \subseteq 2..Len(ls)} \subseteq Seq(2..Len(ls))
    <3>1. ASSUME NEW h \in Headers, Range(h) \subseteq 2..Len(ls)
          PROVE  h \in Seq(2..Len(ls))
      <4>1. h \in Seq(Nat)
        BY OlderAssumption
      <4>2. \A j \in 1..Len(h) : h[j] \in 2..Len(ls)
        BY <3>1, <4>1 DEF Range
      <4> QED
        BY <4>1, <4>2
    <3> QED
      BY <3>1
  <2> QED
    BY <1>1, <2>1, <2>2 DEF OlderInv
<1> QED
  BY <1>1, <1>4, <1>5, <1>6 DEF FileInv, PackInv, WriteInv, ReadInv

-----------------------------------------------------------------------------
(* Older files.                                                            *)

LEMMA HeaderCodeIs ==
  ASSUME NEW ls \in HeaderCodes
  PROVE  /\ Len(ls) \in Nat \ {0} /\ DOMAIN HuTucker(ls) = 1..Len(ls) /\ Len(HuTucker(ls)) = Len(ls)
         /\ Decodable(HuTucker(ls))
         /\ \A s \in 1..Len(ls) :
              HuTucker(ls)[s].code \in Nat /\ HuTucker(ls)[s].length \in 1..WordBits - ByteBits
<1>1. /\ ls \in Seq(Nat) /\ ls # <<>> /\ IsPrefixCode(HuTucker(ls))
      /\ HuTucker(ls) \in Seq([length : 1..WordBits - ByteBits, code : Nat])
  BY OlderAssumption
<1>2. PICK l \in Nat : l = Len(ls) /\ DOMAIN ls = 1..l /\ l # 0
  BY <1>1
<1>3. PICK dict : dict = HuTucker(ls)
  OBVIOUS
<1>4. DOMAIN dict = 1..l
  BY <1>2, <1>3 DEF HuTucker
<1>5. Len(dict) = l
  <2>1. DOMAIN dict = 1..Len(dict) /\ Len(dict) \in Nat
    BY <1>1, <1>3
  <2> QED
    BY <1>4, <2>1
<1>6. ASSUME NEW s \in 1..l
      PROVE  Fits(dict[s])
  <2>1. dict[s] \in [length : 1..WordBits - ByteBits, code : Nat]
    BY <1>1, <1>3, <1>5, ElementOfSeq
  <2>2. \A j \in 1..WordBits - dict[s].length : Bits(dict[s].code)[j] = 0
    BY <1>1, <1>3, <1>4 DEF IsPrefixCode
  <2> QED
    BY <2>1, <2>2 DEF Fits
<1>7. Decodable(dict)
  BY <1>1, <1>3, <1>4, <1>6 DEF Decodable
<1>8. \A s \in 1..l : dict[s].code \in Nat /\ dict[s].length \in 1..WordBits - ByteBits
  BY <1>6 DEF Fits
<1> QED
  BY <1>2, <1>3, <1>4, <1>5, <1>7, <1>8

Packers == {state \in [out : Word64, m : 0..ByteBits - 1, packed : Seq(Byte8)] :
              \E codes : Packing(state, codes)}

LEMMA PackedKeeps ==
  ASSUME NEW state \in Packers, NEW c, Fits(c)
  PROVE  Packed(state, c) \in Packers
<1>1. PICK codes : Packing(state, codes)
  BY DEF Packers
<1>2. Packing(Packed(state, c), codes \o CodeBits(c))
  BY <1>1, PackStep
<1>3. PICK v : v = Packed(state, c)
  OBVIOUS
<1>4. v.packed \in Seq(Byte8) /\ v.out \in Word64 /\ v.m \in 0..ByteBits - 1
  BY <1>2, <1>3 DEF Packing
<1>5. v = [packed |-> v.packed, out |-> v.out, m |-> v.m]
  BY <1>3 DEF Packed
<1>6. v \in [out : Word64, m : 0..ByteBits - 1, packed : Seq(Byte8)]
  BY <1>4, <1>5
<1> QED
  BY <1>2, <1>3, <1>6 DEF Packers

IsEncoding(f, dict, text) ==
  f = [n \in 0..Len(text) |-> IF n = 0 THEN Idle ELSE Packed(f[n - 1], dict[text[n]])]

LEMMA EncodedIs ==
  ASSUME NEW dict, Decodable(dict), NEW text \in Seq(DOMAIN dict)
  PROVE  Encodes(Encoded(dict, text), Coded(dict, text, Len(text)))
<1>1. PICK l \in Nat : l = Len(text) /\ \A j \in 1..l : text[j] \in DOMAIN dict
  OBVIOUS
<1>2. PICK T : T = Packers
  OBVIOUS
<1>3. Idle \in T /\ Packing(Idle, <<>>)
  <2>1. Idle \in [out : Word64, m : 0..ByteBits - 1, packed : Seq(Byte8)]
    <3>1. Packing(Idle, <<>>) /\ Idle = [packed |-> Idle.packed, out |-> Idle.out, m |-> Idle.m]
      BY IdlePacking DEF Idle
    <3> QED
      BY <3>1 DEF Packing
  <2> QED
    BY <1>2, <2>1, IdlePacking DEF Packers
<1> DEFINE g == [j \in Nat |-> [v \in T |-> IF j \in 1..l THEN Packed(v, dict[text[j]]) ELSE v]]
<1>4. \A j \in 1..l : Fits(dict[text[j]])
  BY <1>1 DEF Decodable
<1>5. g \in [Nat -> [T -> T]]
  <2>1. ASSUME NEW j \in Nat, NEW v \in T PROVE (IF j \in 1..l THEN Packed(v, dict[text[j]]) ELSE v) \in T
    BY <1>2, <1>4, PackedKeeps
  <2> QED
    BY <2>1
<1>6. PICK w \in [0..l -> T] : w[0] = Idle /\ \A j \in 1..l : w[j] = g[j][w[j - 1]]
  <2> HIDE DEF g
  <2>1. PICK f : Iterates(f, T, Idle, g, l)
    BY <1>1, <1>3, <1>5, Recursion, Zenon
  <2> QED
    BY <2>1 DEF Iterates
<1>7. \A j \in 1..l : w[j] = Packed(w[j - 1], dict[text[j]])
  <2>1. \A j \in 1..l : j \in Nat /\ w[j - 1] \in T
    BY <1>6
  <2> QED
    BY <1>6, <2>1
<1>8. IsEncoding(w, dict, text)
  <2> DEFINE u == [n \in 0..l |-> IF n = 0 THEN Idle ELSE Packed(w[n - 1], dict[text[n]])]
  <2>1. \A j \in 0..l : w[j] = u[j]
    BY <1>6, <1>7
  <2> HIDE DEF u
  <2>2. w = u
    BY <1>6, <2>1 DEF u
  <2> QED
    BY <1>1, <2>2 DEF IsEncoding, u
<1>9. PICK f : f = CHOOSE h : IsEncoding(h, dict, text)
  OBVIOUS
<1>10. Encoded(dict, text) = Flushed(f[l])
  <2>1. f = CHOOSE h : h = [n \in 0..Len(text) |-> IF n = 0 THEN Idle ELSE Packed(h[n - 1], dict[text[n]])]
    BY <1>9, Zenon DEF IsEncoding
  <2>2. Encoded(dict, text) = Flushed(f[Len(text)])
    BY <2>1, Zenon DEF Encoded
  <2> QED
    BY <1>1, <2>2
<1>11. IsEncoding(f, dict, text)
  BY <1>8, <1>9, Zenon
<1>12. f = [n \in 0..l |-> IF n = 0 THEN Idle ELSE Packed(f[n - 1], dict[text[n]])]
  BY <1>1, <1>11 DEF IsEncoding
<1>13. f[0] = Idle /\ \A j \in 1..l : f[j] = Packed(f[j - 1], dict[text[j]])
  <2>1. 0 \in 0..l /\ \A j \in 1..l : j \in 0..l /\ j # 0
    BY <1>1
  <2> QED
    BY <1>12, <2>1
<1> DEFINE Q == {n \in 0..l : Packing(f[n], Coded(dict, text, n))}
<1>14. 0 \in Q
  <2>1. 0 \in 0..l /\ Coded(dict, text, 0) = <<>>
    BY <1>1, CodedIs
  <2> QED
    BY <1>3, <1>13, <2>1
<1>15. ASSUME NEW n \in 0..l - 1, n \in Q PROVE n + 1 \in Q
  <2>1. PICK m : m = n + 1
    OBVIOUS
  <2>2. m \in 1..l /\ m - 1 = n /\ m \in 0..l /\ m \in 1..Len(text)
    BY <1>1, <2>1
  <2>3. Packing(f[n], Coded(dict, text, n)) /\ Fits(dict[text[m]])
    BY <1>4, <1>15, <2>2
  <2>4. Packing(Packed(f[n], dict[text[m]]), Coded(dict, text, n) \o CodeBits(dict[text[m]]))
    BY <2>3, PackStep
  <2>5. Coded(dict, text, m) = Coded(dict, text, n) \o CodeBits(dict[text[m]])
    BY <2>2, CodedIs
  <2>6. f[m] = Packed(f[n], dict[text[m]])
    BY <1>13, <2>2
  <2>7. Packing(f[m], Coded(dict, text, m))
    BY <2>4, <2>5, <2>6
  <2> QED
    BY <2>1, <2>2, <2>7
<1>16. l \in Q
  <2> HIDE DEF Q
  <2>1. 0 \in Int /\ l \in Int /\ l \in 0..l
    OBVIOUS
  <2>2. 0..l \subseteq Q
    BY <1>14, <1>15, <2>1, IntervalIsInductive, Zenon
  <2> QED
    BY <2>1, <2>2
<1>17. Encodes(Flushed(f[l]), Coded(dict, text, l))
  BY <1>16, FlushedIs
<1> QED
  BY <1>1, <1>10, <1>17

(* The numbers and the lengths of the codes, one after the other.          *)
PairsOf(dict) == FlattenSeq([s \in 1..Len(dict) |-> <<dict[s].code, dict[s].length>>])

LEMMA PairsAre ==
  ASSUME NEW ls \in HeaderCodes, NEW dict, dict = HuTucker(ls)
  PROVE  /\ PairsOf(dict) \in Seq(Nat) /\ Len(PairsOf(dict)) = 2 * Len(ls)
         /\ \A s \in 1..Len(ls) : /\ PairsOf(dict)[2 * s - 1] = dict[s].code
                                  /\ PairsOf(dict)[2 * s] = dict[s].length
<1>1. PICK n \in Nat : n = Len(ls) /\ n = Len(dict)
  BY HeaderCodeIs
<1>2. \A s \in 1..n : dict[s].code \in Nat /\ dict[s].length \in Nat
  <2>1. \A s \in 1..n : dict[s].code \in Nat /\ dict[s].length \in 1..WordBits - ByteBits
    BY <1>1, HeaderCodeIs
  <2>2. 1..WordBits - ByteBits \subseteq Nat
    BY Sizes
  <2> QED
    BY <2>1, <2>2
<1>3. PICK seqs : seqs = [s \in 1..n |-> <<dict[s].code, dict[s].length>>]
  OBVIOUS
<1>4. \A s \in 1..n : seqs[s] \in Seq(Nat) /\ Len(seqs[s]) = 2 /\ seqs[s][1] = dict[s].code
                      /\ seqs[s][2] = dict[s].length
  BY <1>2, <1>3
<1>5. seqs \in Seq(Seq(Nat)) /\ Len(seqs) = n
  BY <1>3, <1>4
<1>6. /\ \A s \in 0..n : Len(Until(seqs, s)) = 2 * s
      /\ FlattenSeq(seqs) \in Seq(Nat) /\ Len(FlattenSeq(seqs)) = 2 * n
  <2>1. 2 \in Nat /\ \A s \in 1..Len(seqs) : Len(seqs[s]) = 2
    BY <1>4, <1>5
  <2> QED
    BY <1>5, <2>1, EvenParts
<1>7. ASSUME NEW s \in 1..n
      PROVE  /\ FlattenSeq(seqs)[2 * s - 1] = dict[s].code
             /\ FlattenSeq(seqs)[2 * s] = dict[s].length
  <2>1. s \in 1..Len(seqs) /\ s - 1 \in 0..n
    BY <1>5
  <2>2. IsAt(FlattenSeq(seqs), Len(Until(seqs, s - 1)) + 1, seqs[s])
    BY <1>5, <2>1, AtUntil
  <2>3. IsAt(FlattenSeq(seqs), 2 * (s - 1) + 1, seqs[s])
    BY <1>6, <2>1, <2>2
  <2>4. 1 \in 1..Len(seqs[s]) /\ 2 \in 1..Len(seqs[s])
    BY <1>4
  <2>5. /\ FlattenSeq(seqs)[(2 * (s - 1) + 1) + 1 - 1] = seqs[s][1]
        /\ FlattenSeq(seqs)[(2 * (s - 1) + 1) + 2 - 1] = seqs[s][2]
    BY <2>3, <2>4 DEF IsAt
  <2>6. (2 * (s - 1) + 1) + 1 - 1 = 2 * s - 1 /\ (2 * (s - 1) + 1) + 2 - 1 = 2 * s
    OBVIOUS
  <2> QED
    BY <1>4, <2>5, <2>6
<1>8. PairsOf(dict) = FlattenSeq(seqs)
  BY <1>1, <1>3 DEF PairsOf
<1> QED
  BY <1>1, <1>6, <1>7, <1>8

HeaderSymbols(n) == [s \in 1..n |-> <<"header", s, 0>>]

LEMMA HeaderSymbolsAre ==
  ASSUME NEW n \in Nat
  PROVE  HeaderSymbols(n) \in Seq(Cell) /\ Len(HeaderSymbols(n)) = n
<1>1. \A s \in 1..n : <<"header", s, 0>> \in Cell
  BY DEF Cell
<1> QED
  BY <1>1 DEF HeaderSymbols

(* What an older file has of the headers' code, in three parts.            *)
LEMMA HuTuckerDictIs ==
  ASSUME NEW ls \in HeaderCodes
  PROVE  \E ns \in Seq(Int), u, v, z \in Seq(Cell) :
           /\ HuTuckerDict(HuTucker(ls)) = (u \o v) \o z
           /\ ns = <<Len(ls)>> \o PairsOf(HuTucker(ls)) /\ Len(ns) = 2 * Len(ls) + 1
           /\ u = Words(ns) /\ Len(u) = 4 * (2 * Len(ls) + 1)
           /\ v = HeaderSymbols(Len(ls)) /\ Len(v) = Len(ls)
           /\ HuTuckerDict(HuTucker(ls)) \in Seq(Cell)
           /\ Len(HuTuckerDict(HuTucker(ls))) = 4 * (1 + 2 * Len(ls) + ((Len(ls) + 3) \div 4))
<1>0. PICK dict : dict = HuTucker(ls)
  OBVIOUS
<1>1. PICK n \in Nat, q \in Nat : n = Len(ls) /\ n = Len(dict) /\ q = (n + 3) \div 4
  BY <1>0, HeaderCodeIs, UpToWord
<1>2. PICK d \in 0..3 : d = 4 * q - n
  BY <1>1, UpToWord
<1>3. PICK ps : ps = PairsOf(dict)
  OBVIOUS
<1>4. ps \in Seq(Int) /\ Len(ps) = 2 * n
  <2>1. ps \in Seq(Nat) /\ Len(ps) = 2 * n
    BY <1>0, <1>1, <1>3, PairsAre
  <2> QED
    BY <2>1
<1>5. PICK ns : ns = <<n>> \o ps
  OBVIOUS
<1>6. ns \in Seq(Int) /\ Len(ns) = 2 * n + 1
  <2>1. PICK x : x = <<n>>
    OBVIOUS
  <2>2. x \in Seq(Int) /\ Len(x) = 1
    BY <2>1
  <2>3. x \o ps \in Seq(Int) /\ Len(x \o ps) = Len(x) + Len(ps)
    BY <1>4, <2>2, ConcatProperties
  <2> QED
    BY <1>4, <1>5, <2>1, <2>2, <2>3
<1>7. PICK u : u = Words(ns)
  OBVIOUS
<1>8. u \in Seq(Cell) /\ Len(u) = 4 * (2 * n + 1)
  BY <1>6, <1>7, WordsAre
<1>9. PICK v : v = HeaderSymbols(n)
  OBVIOUS
<1>10. v \in Seq(Cell) /\ Len(v) = n
  BY <1>9, HeaderSymbolsAre
<1>11. PICK z : z = Fill(d)
  OBVIOUS
<1>12. z \in Seq(Cell) /\ Len(z) = d
  <2>1. d \in Nat
    OBVIOUS
  <2> QED
    BY <1>11, <2>1, FillIs
<1>13. HuTuckerDict(dict) = (u \o v) \o z
  <2>1. HuTuckerDict(dict) = Words(<<n>> \o ps) \o v \o Fill(4 * q - n)
    BY <1>1, <1>3, <1>9 DEF HuTuckerDict, PairsOf, HeaderSymbols
  <2> QED
    BY <1>2, <1>5, <1>7, <1>11, <2>1
<1>14. PICK y : y = u \o v
  OBVIOUS
<1>15. y \in Seq(Cell) /\ Len(y) = 4 * (2 * n + 1) + n
  <2>1. u \o v \in Seq(Cell) /\ Len(u \o v) = Len(u) + Len(v)
    BY <1>8, <1>10, ConcatProperties
  <2> QED
    BY <1>8, <1>10, <1>14, <2>1
<1>16. y \o z \in Seq(Cell) /\ Len(y \o z) = (4 * (2 * n + 1) + n) + d
  <2>1. y \o z \in Seq(Cell) /\ Len(y \o z) = Len(y) + Len(z)
    BY <1>12, <1>15, ConcatProperties
  <2> QED
    BY <1>12, <1>15, <2>1
<1>17. (4 * (2 * n + 1) + n) + d = 4 * (1 + 2 * n + q)
  BY <1>2
<1>18. HuTuckerDict(dict) \in Seq(Cell) /\ Len(HuTuckerDict(dict)) = 4 * (1 + 2 * n + q)
  BY <1>13, <1>14, <1>16, <1>17
<1>19. ns = <<n>> \o PairsOf(dict)
  BY <1>3, <1>5
<1> QED
  BY <1>0, <1>1, <1>6, <1>7, <1>8, <1>9, <1>10, <1>12, <1>13, <1>18, <1>19

LEMMA ReadsHeaderCode ==
  ASSUME NEW ls \in HeaderCodes, NEW dict, dict = HuTucker(ls),
         out \in Seq(Cell), IsAt(out, 9, HuTuckerDict(dict))
  PROVE  /\ Buff32(2) = Len(ls) /\ 2 + ht_dict_len(2) = OlderDictAt(ls)
         /\ \A s \in 1..Len(ls) :
              /\ Buff32(2 + 2 * s - 1) = dict[s].code /\ Buff32(2 + 2 * s) = dict[s].length
              /\ out[8 + 4 * (1 + 2 * Len(ls)) + s] = <<"header", s, 0>>
<1>1. PICK n \in Nat : n = Len(ls)
  BY HeaderCodeIs
<1>0. PICK ns \in Seq(Int), u, v, z \in Seq(Cell) :
        /\ HuTuckerDict(HuTucker(ls)) = (u \o v) \o z
        /\ ns = <<Len(ls)>> \o PairsOf(HuTucker(ls)) /\ Len(ns) = 2 * Len(ls) + 1
        /\ u = Words(ns) /\ Len(u) = 4 * (2 * Len(ls) + 1)
        /\ v = HeaderSymbols(Len(ls)) /\ Len(v) = Len(ls)
        /\ HuTuckerDict(HuTucker(ls)) \in Seq(Cell)
        /\ Len(HuTuckerDict(HuTucker(ls))) = 4 * (1 + 2 * Len(ls) + ((Len(ls) + 3) \div 4))
  BY HuTuckerDictIs
<1>2. /\ HuTuckerDict(dict) = (u \o v) \o z
      /\ ns = <<Len(ls)>> \o PairsOf(dict) /\ Len(ns) = 2 * Len(ls) + 1
      /\ u = Words(ns) /\ Len(u) = 4 * (2 * Len(ls) + 1)
      /\ v = HeaderSymbols(Len(ls)) /\ Len(v) = Len(ls)
  BY <1>0
<1>3. Len(ns) = 2 * n + 1 /\ Len(u) = 4 * (2 * n + 1) /\ Len(v) = n
  BY <1>1, <1>2
<1>4. IsAt(out, 9, u) /\ IsAt(out, 9 + Len(u), v)
  <2>1. u \o v \in Seq(Cell)
    BY ConcatProperties
  <2>2. IsAt(out, 9, (u \o v) \o z)
    BY <1>2
  <2>3. IsAt(out, 9, u \o v)
    BY <2>1, <2>2, AtParts
  <2> QED
    BY <2>3, AtParts
<1>5. \A j \in 1..2 * n + 1 : Buff32(2 + j - 1) = ns[j]
  <2>1. IsAt(out, 4 * 2 + 1, Words(ns)) /\ 2 \in Nat
    <3>1. 4 * 2 + 1 = 9
      OBVIOUS
    <3> QED
      BY <1>2, <1>4, <3>1
  <2> QED
    BY <1>3, <2>1, ReadsWords
<1>6. ns[1] = n /\ \A j \in 1..2 * n : ns[1 + j] = PairsOf(dict)[j]
  <2>1. PICK x, ps : x = <<n>> /\ ps = PairsOf(dict)
    OBVIOUS
  <2>2. x \in Seq(Int) /\ Len(x) = 1 /\ x[1] = n
    BY <2>1
  <2>3. ps \in Seq(Int) /\ Len(ps) = 2 * n
    <3>1. ps \in Seq(Nat) /\ Len(ps) = 2 * n
      BY <1>1, <2>1, PairsAre
    <3> QED
      BY <3>1
  <2>4. ns = x \o ps
    BY <1>1, <1>2, <2>1
  <2>7. PICK m \in Nat, o \in Nat : m = 2 * n /\ m = Len(ps) /\ o = Len(x) /\ o = 1
    BY <2>2, <2>3
  <2>8. (\A j \in 1..o : ns[j] = x[j]) /\ \A j \in 1..m : ns[o + j] = ps[j]
    <3>1. x \in Seq(Int) /\ ps \in Seq(Int) /\ m = Len(ps) /\ o = Len(x)
      BY <2>2, <2>3, <2>7
    <3> QED
      BY <2>4, <3>1, ConcatIs
  <2>5. (\A j \in 1..1 : ns[j] = x[j]) /\ \A j \in 1..2 * n : ns[1 + j] = ps[j]
    BY <2>7, <2>8
  <2>6. 1 \in 1..1
    OBVIOUS
  <2> QED
    BY <2>1, <2>2, <2>5, <2>6
<1>7. Buff32(2) = n
  <2>1. 1 \in 1..2 * n + 1 /\ 2 + 1 - 1 = 2
    OBVIOUS
  <2> QED
    BY <1>5, <1>6, <2>1
<1>8. 2 + ht_dict_len(2) = OlderDictAt(ls)
  <2>1. (n + 3) \div 4 \in Nat
    BY UpToWord
  <2>2. 2 + (1 + 2 * n + ((n + 3) \div 4)) = 3 + 2 * n + ((n + 3) \div 4)
    BY <2>1
  <2> QED
    BY <1>1, <1>7, <2>2 DEF ht_dict_len, OlderDictAt
<1>9. ASSUME NEW s \in 1..n
      PROVE  /\ Buff32(2 + 2 * s - 1) = dict[s].code /\ Buff32(2 + 2 * s) = dict[s].length
             /\ out[8 + 4 * (1 + 2 * n) + s] = <<"header", s, 0>>
  <2>1. PICK a, b \in Nat : a = 2 * s - 1 /\ b = 2 * s
    OBVIOUS
  <2>2. a \in 1..2 * n /\ b \in 1..2 * n /\ a + 1 \in 1..2 * n + 1 /\ b + 1 \in 1..2 * n + 1
    BY <2>1
  <2>3. Buff32(2 + (a + 1) - 1) = PairsOf(dict)[a] /\ Buff32(2 + (b + 1) - 1) = PairsOf(dict)[b]
    <3>1. a + 1 = 1 + a /\ b + 1 = 1 + b
      OBVIOUS
    <3>2. ns[1 + a] = PairsOf(dict)[a] /\ ns[1 + b] = PairsOf(dict)[b]
      BY <1>6, <2>2
    <3>3. Buff32(2 + (a + 1) - 1) = ns[a + 1] /\ Buff32(2 + (b + 1) - 1) = ns[b + 1]
      BY <1>5, <2>2
    <3> QED
      BY <3>1, <3>2, <3>3
  <2>4. PairsOf(dict)[a] = dict[s].code /\ PairsOf(dict)[b] = dict[s].length
    BY <1>1, <2>1, PairsAre
  <2>5. 2 + (a + 1) - 1 = 2 + 2 * s - 1 /\ 2 + (b + 1) - 1 = 2 + 2 * s
    BY <2>1
  <2>6. out[8 + 4 * (1 + 2 * n) + s] = <<"header", s, 0>>
    <3>1. out[(9 + Len(u)) + s - 1] = v[s]
      BY <1>3, <1>4 DEF IsAt
    <3>2. (9 + Len(u)) + s - 1 = 8 + 4 * (1 + 2 * n) + s
      BY <1>3
    <3>3. v[s] = <<"header", s, 0>>
      BY <1>1, <1>2 DEF HeaderSymbols
    <3> QED
      BY <3>1, <3>2, <3>3
  <2> QED
    BY <2>3, <2>4, <2>5, <2>6
<1> QED
  BY <1>1, <1>7, <1>8, <1>9

(* The bins of an older file: each its header, then the rest of it.        *)
OlderBins(dict) ==
  [b \in 1..bin_count |-> Encoded(dict, Append(headers[b], 1)) \o Encoded(Dict(lens), bins[b])]

LEMMA OlderBinsAre ==
  ASSUME Given, NEW ls \in HeaderCodes, headers \in [1..bin_count -> Seq(2..Len(ls))],
         NEW dict, dict = HuTucker(ls)
  PROVE  /\ OlderBins(dict) \in Seq(Seq(Byte8)) /\ Len(OlderBins(dict)) = bin_count
         /\ \A b \in 1..bin_count :
              /\ headers[b] \in Seq(2..Len(ls)) /\ Append(headers[b], 1) \in Seq(DOMAIN dict)
              /\ Encodes(Encoded(dict, Append(headers[b], 1)),
                         Coded(dict, Append(headers[b], 1), Len(Append(headers[b], 1))))
              /\ Encodes(Encoded(Dict(lens), bins[b]), Coded(Dict(lens), bins[b], Len(bins[b])))
<1>1. PICK n \in Nat : n = bin_count
  BY GivenIs
<1>2. Decodable(dict) /\ DOMAIN dict = 1..Len(ls) /\ Len(ls) \in Nat \ {0}
  BY HeaderCodeIs
<1>3. ASSUME NEW b \in 1..n
      PROVE  /\ headers[b] \in Seq(2..Len(ls)) /\ Append(headers[b], 1) \in Seq(DOMAIN dict)
             /\ Encodes(Encoded(dict, Append(headers[b], 1)),
                        Coded(dict, Append(headers[b], 1), Len(Append(headers[b], 1))))
             /\ Encodes(Encoded(Dict(lens), bins[b]), Coded(Dict(lens), bins[b], Len(bins[b])))
  <2>1. headers[b] \in Seq(2..Len(ls))
    BY <1>1
  <2>2. Append(headers[b], 1) \in Seq(DOMAIN dict)
    <3>1. 2..Len(ls) \subseteq 1..Len(ls) /\ 1 \in 1..Len(ls)
      BY <1>2
    <3>2. headers[b] \in Seq(1..Len(ls))
      BY <2>1, <3>1, SeqMonotonic
    <3> QED
      BY <1>2, <3>1, <3>2, AppendProperties
  <2>3. Decodable(Dict(lens)) /\ bins[b] \in Seq(DOMAIN Dict(lens))
    BY <1>1, GivenIs
  <2> QED
    BY <1>2, <2>1, <2>2, <2>3, EncodedIs
<1>4. PICK packed : packed = OlderBins(dict)
  OBVIOUS
<1>5. ASSUME NEW b \in 1..n PROVE packed[b] \in Seq(Byte8)
  <2>1. Encoded(dict, Append(headers[b], 1)) \in Seq(Byte8) /\ Encoded(Dict(lens), bins[b]) \in Seq(Byte8)
    BY <1>3 DEF Encodes
  <2>2. packed[b] = Encoded(dict, Append(headers[b], 1)) \o Encoded(Dict(lens), bins[b])
    BY <1>1, <1>4 DEF OlderBins
  <2> QED
    BY <2>1, <2>2, ConcatProperties
<1>6. packed = [b \in 1..n |-> packed[b]]
  BY <1>1, <1>4 DEF OlderBins
<1>7. packed \in Seq(Seq(Byte8)) /\ Len(packed) = n
  BY <1>5, <1>6
<1> QED
  BY <1>1, <1>3, <1>4, <1>7

(* A sequence put together is where it is, and its end behind the rest.    *)
LEMMA AtEnd ==
  ASSUME NEW S, NEW t \in Seq(S), NEW x \in Seq(S), NEW u \in Seq(S), NEW v \in Seq(S), x = u \o v,
         IsAt(t, 1, x)
  PROVE  IsAt(t, 1, u) /\ IsAt(t, Len(u) + 1, v)
<1>1. IsAt(t, 1, u \o v)
  OBVIOUS
<1>2. IsAt(t, 1, u) /\ IsAt(t, 1 + Len(u), v)
  BY <1>1, AtParts
<1>3. 1 + Len(u) = Len(u) + 1
  OBVIOUS
<1> QED
  BY <1>2, <1>3

(* Where the parts of an older file are.                                   *)
LEMMA OlderFileIs ==
  ASSUME Given, NEW ls \in HeaderCodes, headers \in [1..bin_count -> Seq(2..Len(ls))],
         out = OlderFile(HuTucker(ls))
  PROVE  /\ OlderDictAt(ls) \in Nat /\ out \in Seq(Cell)
         /\ IsAt(out, 1, Words(<<count, BINSIZE>>)) /\ IsAt(out, 9, HuTuckerDict(HuTucker(ls)))
         /\ IsAt(out, 4 * OlderDictAt(ls) + 1, huffman_serialize)
         /\ IsAt(out, 4 * (OlderDictAt(ls) + DictLen) + 1, Words(<<bin_count>>))
         /\ Layout(OlderDictAt(ls) + DictLen + 1, OlderDictAt(ls) + DictLen + bin_count + 1,
                   OlderBins(HuTucker(ls)), 0)
<1>1. PICK n, m \in Nat : n = bin_count /\ m = DictLen
  BY GivenIs
<1>2. PICK q \in Nat : q = OlderDictAt(ls)
  <2>1. Len(ls) \in Nat
    BY HeaderCodeIs
  <2>2. (Len(ls) + 3) \div 4 \in Nat
    BY <2>1, UpToWord
  <2> QED
    BY <2>1, <2>2 DEF OlderDictAt
<1>3. PICK packed : packed = OlderBins(HuTucker(ls))
  OBVIOUS
<1>4. packed \in Seq(Seq(Byte8)) /\ Len(packed) = n /\ DOMAIN packed = 1..n
  BY <1>1, <1>3, OlderBinsAre
<1>5. PICK a, b, c, d, e, g : /\ a = Words(<<count, BINSIZE>>) /\ b = HuTuckerDict(HuTucker(ls))
                              /\ c = huffman_serialize /\ d = Words(<<bin_count>>)
                              /\ e = Words(OffsetsOf(packed)) /\ g = FlattenSeq(packed)
  OBVIOUS
<1>6. out = ((((a \o b) \o c) \o d) \o e) \o g
  <2>1. OffsetsOf(packed) = [j \in 1..bin_count |-> Sums([l \in 1..bin_count |-> Len(packed[l])])[j - 1]]
    BY <1>1, <1>4, Zenon DEF OffsetsOf
  <2>2. out = ((((a \o b) \o c) \o d)
                 \o Words([j \in 1..bin_count |-> Sums([l \in 1..bin_count |-> Len(packed[l])])[j - 1]])) \o g
    BY <1>3, <1>5, Zenon DEF OlderFile, OlderBins
  <2> QED
    BY <1>5, <2>1, <2>2
<1>7. a \in Seq(Cell) /\ Len(a) = 8
  <2>1. <<count, BINSIZE>> \in Seq(Int) /\ Len(<<count, BINSIZE>>) = 2
    BY GivenIs
  <2>2. PICK ns : ns = <<count, BINSIZE>>
    OBVIOUS
  <2>3. ns \in Seq(Int) /\ Len(ns) = 2
    BY <2>1, <2>2
  <2>4. Words(ns) \in Seq(Cell) /\ Len(Words(ns)) = 4 * Len(ns)
    BY <2>3, WordsAre
  <2>5. a = Words(ns)
    BY <1>5, <2>2
  <2> QED
    BY <2>3, <2>4, <2>5
<1>8. b \in Seq(Cell) /\ Len(b) = 4 * q - 8
  <2>1. b \in Seq(Cell) /\ Len(b) = 4 * (1 + 2 * Len(ls) + ((Len(ls) + 3) \div 4))
    BY <1>5, HuTuckerDictIs
  <2>2. Len(ls) \in Nat
    BY HeaderCodeIs
  <2>3. PICK l, x \in Nat : l = Len(ls) /\ x = (Len(ls) + 3) \div 4
    BY <2>2, UpToWord
  <2>4. q = 3 + 2 * l + x
    BY <1>2, <2>3 DEF OlderDictAt
  <2> QED
    BY <2>1, <2>3, <2>4
<1>9. c \in Seq(Cell) /\ Len(c) = 4 * m
  BY <1>1, <1>5, SerializeIs DEF Given, DictLen
<1>10. d \in Seq(Cell) /\ Len(d) = 4
  <2>1. <<bin_count>> \in Seq(Int) /\ Len(<<bin_count>>) = 1
    BY <1>1
  <2>2. PICK ns : ns = <<bin_count>>
    OBVIOUS
  <2>3. ns \in Seq(Int) /\ Len(ns) = 1
    BY <2>1, <2>2
  <2>4. Words(ns) \in Seq(Cell) /\ Len(Words(ns)) = 4 * Len(ns)
    BY <2>3, WordsAre
  <2>5. d = Words(ns)
    BY <1>5, <2>2
  <2> QED
    BY <2>3, <2>4, <2>5
<1>11. e \in Seq(Cell) /\ Len(e) = 4 * n
  BY <1>4, <1>5, OffsetsAre, WordsAre
<1>12. g \in Seq(Cell) /\ Len(g) \in Nat
  <2>1. g \in Seq(Byte8) /\ Len(g) \in Nat
    BY <1>4, <1>5, FlatBins
  <2>2. Byte8 \subseteq Cell
    BY DEF Cell
  <2> QED
    BY <2>1, <2>2, SeqMonotonic
<1>13. PICK ab, ac, ad, ae : ab = a \o b /\ ac = ab \o c /\ ad = ac \o d /\ ae = ad \o e
  OBVIOUS
<1>14. out = ae \o g
  BY <1>6, <1>13, Zenon
<1>15. ab \in Seq(Cell) /\ Len(ab) = 4 * q
  <2>1. a \o b \in Seq(Cell) /\ Len(a \o b) = Len(a) + Len(b)
    BY <1>7, <1>8, ConcatProperties
  <2>2. ab \in Seq(Cell) /\ Len(ab) = Len(a) + Len(b)
    BY <1>13, <2>1, Zenon
  <2> QED
    BY <1>7, <1>8, <2>2
<1>16. ac \in Seq(Cell) /\ Len(ac) = 4 * (q + m)
  <2>1. ab \o c \in Seq(Cell) /\ Len(ab \o c) = Len(ab) + Len(c)
    BY <1>15, <1>9, ConcatProperties
  <2>2. ac \in Seq(Cell) /\ Len(ac) = Len(ab) + Len(c)
    BY <1>13, <2>1, Zenon
  <2> QED
    BY <1>15, <1>9, <2>2
<1>17. ad \in Seq(Cell) /\ Len(ad) = 4 * (q + m + 1)
  <2>1. ac \o d \in Seq(Cell) /\ Len(ac \o d) = Len(ac) + Len(d)
    BY <1>16, <1>10, ConcatProperties
  <2>2. ad \in Seq(Cell) /\ Len(ad) = Len(ac) + Len(d)
    BY <1>13, <2>1, Zenon
  <2> QED
    BY <1>16, <1>10, <2>2
<1>18. ae \in Seq(Cell) /\ Len(ae) = 4 * (q + m + n + 1)
  <2>1. ad \o e \in Seq(Cell) /\ Len(ad \o e) = Len(ad) + Len(e)
    BY <1>17, <1>11, ConcatProperties
  <2>2. ae \in Seq(Cell) /\ Len(ae) = Len(ad) + Len(e)
    BY <1>13, <2>1, Zenon
  <2> QED
    BY <1>17, <1>11, <2>2
<1>19. out \in Seq(Cell) /\ Len(out) = 4 * (q + m + n + 1) + Len(g)
  <2>1. ae \o g \in Seq(Cell) /\ Len(ae \o g) = Len(ae) + Len(g)
    BY <1>18, <1>12, ConcatProperties
  <2>2. out \in Seq(Cell) /\ Len(out) = Len(ae) + Len(g)
    BY <1>14, <2>1, Zenon
  <2> QED
    BY <1>18, <2>2
<1>20. IsAt(out, 1, ae) /\ IsAt(out, 4 * (q + m + n + 1) + 1, g)
  <2>1. IsAt(out, 1, out)
    BY <1>19, <1>12 DEF IsAt
  <2> QED
    BY <1>12, <1>14, <1>18, <1>19, <2>1, AtEnd
<1>21. IsAt(out, 1, ad) /\ IsAt(out, 4 * (q + m + 1) + 1, e)
  BY <1>11, <1>13, <1>17, <1>18, <1>19, <1>20, AtEnd
<1>22. IsAt(out, 1, ac) /\ IsAt(out, 4 * (q + m) + 1, d)
  BY <1>10, <1>13, <1>16, <1>17, <1>19, <1>21, AtEnd
<1>23. IsAt(out, 1, ab) /\ IsAt(out, 4 * q + 1, c)
  BY <1>9, <1>13, <1>15, <1>16, <1>19, <1>22, AtEnd
<1>24. IsAt(out, 1, a) /\ IsAt(out, 9, b)
  <2>1. IsAt(out, 1, a) /\ IsAt(out, Len(a) + 1, b)
    BY <1>7, <1>8, <1>13, <1>15, <1>19, <1>23, AtEnd
  <2>2. Len(a) + 1 = 9
    BY <1>7
  <2> QED
    BY <2>1, <2>2
<1>25. Layout(q + m + 1, q + m + n + 1, packed, 0)
  <2>1. FlattenSeq(packed) \o Fill(0) = g
    <3>1. Fill(0) = <<>>
      BY DEF Fill
    <3> QED
      BY <1>5, <1>12, <3>1, ConcatEmptySeq
  <2>2. Len(out) = 4 * (q + m + n + 1) + Len(FlattenSeq(packed)) + 0
    BY <1>5, <1>12, <1>19
  <2>3. 0 \in 0..3 /\ q + m + 1 \in Nat /\ q + m + n + 1 \in Nat
    OBVIOUS
  <2> QED
    BY <1>4, <1>5, <1>19, <1>20, <1>21, <2>1, <2>2, <2>3 DEF Layout
<1> QED
  BY <1>1, <1>2, <1>3, <1>5, <1>19, <1>22, <1>23, <1>24, <1>25

LEMMA HtfcInitKeeps ==
  ASSUME FileInv, htfc_init
  PROVE  FileInv'
<1>1. /\ phase = "older" /\ hfc = <<>>
      /\ UNCHANGED <<lens, bins, count, packer, k, inner_bins, offsets, out, phase, i, headers>>
  BY DEF htfc_init
<1>2. /\ Given /\ OlderInv /\ \E codes : Packing(packer, codes)
  BY DEF FileInv
<1>3. PICK ls \in HeaderCodes :
        headers \in [1..bin_count -> Seq(2..Len(ls))] /\ out = OlderFile(HuTucker(ls))
  BY <1>1, <1>2 DEF OlderInv
<1>4. PICK q, m, n \in Nat : q = OlderDictAt(ls) /\ m = DictLen /\ n = bin_count
  BY <1>2, <1>3, OlderFileIs, GivenIs
<1>5. /\ out \in Seq(Cell)
      /\ IsAt(out, 1, Words(<<count, BINSIZE>>)) /\ IsAt(out, 9, HuTuckerDict(HuTucker(ls)))
      /\ IsAt(out, 4 * q + 1, huffman_serialize) /\ IsAt(out, 4 * (q + m) + 1, Words(<<n>>))
  BY <1>2, <1>3, <1>4, OlderFileIs
<1>6. lens \in Codes /\ count \in Int /\ BINSIZE \in Int
  BY <1>2, GivenIs DEF Given
<1>7. Buff32(0) = count /\ Buff32(1) = BINSIZE
  <2>1. 4 * 0 + 1 = 1 /\ 0 + 1 = 1 /\ 0 \in Nat
    OBVIOUS
  <2> QED
    BY <1>5, <1>6, <2>1, ReadsPair, ZenonT(30)
<1>8. 2 + ht_dict_len(2) = q
  BY <1>4, <1>5, ReadsHeaderCode
<1>9. /\ Buff32(q) = Len(lens)
      /\ [b \in 1..Buff32(q) |-> Buff32(q + b)] = lens
      /\ huff_dict_len(q) = m
      /\ SubSeq(out, 4 * (q + 1 + Len(lens)) + 1, 4 * (q + 1 + Len(lens)) + Sum(lens))
           = Symbols(Sum(lens))
  BY <1>4, <1>5, <1>6, ReadsCode DEF DictLen
<1>10. Buff32(q + m) = n
  <2>1. PICK ns : ns = <<n>>
    OBVIOUS
  <2>2. ns \in Seq(Int) /\ Len(ns) = 1 /\ ns[1] = n
    BY <2>1
  <2>3. IsAt(out, 4 * (q + m) + 1, Words(ns)) /\ 1 \in 1..Len(ns) /\ q + m \in Nat
    BY <1>5, <2>1, <2>2
  <2>4. Buff32((q + m) + 1 - 1) = ns[1]
    BY <1>5, <2>2, <2>3, ReadsWords
  <2>5. (q + m) + 1 - 1 = q + m
    OBVIOUS
  <2> QED
    BY <2>2, <2>4, <2>5
<1>11. hfc' = [ length |-> count, bin_size |-> BINSIZE,
                bin_offsets |-> q + m + 1, bin_count |-> n, first_bin |-> q + m + n + 1,
                lens |-> lens, symbols |-> Symbols(Sum(lens)), header_huff |-> huffman_ht_tree(8) ]
  BY <1>7, <1>8, <1>9, <1>10 DEF htfc_init
<1>12. Given' /\ bin_count' = n /\ DictLen' = m
  BY <1>1, <1>2, <1>4 DEF Given, bin_count, DictLen
<1>13. HasReadOlder(ls)'
  <2>1. huffman_ht_tree(8)' = huffman_ht_tree(8)
    BY <1>1 DEF huffman_ht_tree, Buff32
  <2> QED
    BY <1>1, <1>4, <1>11, <1>12, <2>1 DEF HasReadOlder
<1>14. OlderFile(HuTucker(ls))' = OlderFile(HuTucker(ls))
  BY <1>1 DEF OlderFile, bin_count, huffman_serialize
<1>15. OlderInv'
  BY <1>1, <1>3, <1>4, <1>12, <1>13, <1>14 DEF OlderInv
<1> QED
  BY <1>1, <1>2, <1>12, <1>15 DEF FileInv, PackInv, WriteInv, ReadInv

LEMMA NextFileInv == FileInv /\ [FileNext]_<<vars, headers>> => FileInv'
<1> SUFFICES ASSUME FileInv, [FileNext]_<<vars, headers>>
             PROVE  FileInv'
  OBVIOUS
<1>1. CASE PackByte
  BY <1>1, PackByteKeeps
<1>2. CASE PackBin
  BY <1>2, PackBinKeeps
<1>3. CASE PushHeader
  BY <1>3, PushHeaderKeeps
<1>4. CASE PushOffset
  BY <1>4, PushOffsetKeeps
<1>5. CASE CopyBin
  BY <1>5, CopyBinKeeps
<1>6. CASE Align
  BY <1>6, AlignKeeps
<1>7. CASE hfc_init
  BY <1>7, HfcInitKeeps
<1>8. CASE htfc_init
  BY <1>8, HtfcInitKeeps
<1>9. CASE UNCHANGED <<vars, headers>>
  BY <1>9, StutterKeeps
<1> QED
  BY <1>1, <1>2, <1>3, <1>4, <1>5, <1>6, <1>7, <1>8, <1>9 DEF FileNext, Next

(* The invariant, in every file that is written or read.                   *)
THEOREM FileInvAlways == FileSpec => []FileInv
<1>1. FileInit => FileInv
  BY InitFileInv, OlderInitFileInv DEF FileInit
<1> QED
  BY <1>1, NextFileInv, PTL DEF FileSpec

(* C leaves neither of huffman_encode_bytes' shifts undefined, whatever    *)
(* code comes next.                                                        *)
THEOREM ShiftsAreDefined == FileSpec => []ShiftsDefined
<1>1. FileInv => ShiftsDefined
  <2> SUFFICES ASSUME FileInv, NEW s \in 1..Sum(lens)
               PROVE  /\ WordBits - packer.m - Dict(lens)[s].length \in 0..WordBits - 1
                      /\ Whole(packer.m + Dict(lens)[s].length) * ByteBits < WordBits
    BY DEF ShiftsDefined
  <2>1. PICK codes : Packing(packer, codes)
    BY DEF FileInv
  <2>2. Fits(Dict(lens)[s])
    BY DictFits DEF FileInv, Given
  <2>3. PICK c : c = Dict(lens)[s]
    OBVIOUS
  <2>4. /\ WordBits - packer.m - c.length \in 0..WordBits - 1
        /\ packer.m + c.length \in 0..WordBits /\ packer.m + c.length < WordBits
    BY <2>1, <2>2, <2>3, RoomInWord
  <2>5. PICK x \in Nat : x = packer.m + c.length /\ x < WordBits
    BY <2>4, Sizes
  <2>6. Whole(x) * ByteBits < WordBits
    <3>1. x \div ByteBits \in Nat /\ x % ByteBits \in 0..ByteBits - 1
          /\ x = ByteBits * (x \div ByteBits) + (x % ByteBits)
      BY Sizes, Division
    <3>2. PICK d, r \in Nat : d = x \div ByteBits /\ r = x % ByteBits /\ x = ByteBits * d + r
      BY <3>1, Sizes
    <3>3. d * ByteBits <= x
      BY <3>2, Sizes
    <3> QED
      BY <2>5, <3>2, <3>3, Sizes DEF Whole
  <2> QED
    BY <2>3, <2>4, <2>5, <2>6
<1> QED
  BY <1>1, FileInvAlways, PTL

(* What is packed of a bin, with what waits in the word, is the codes of   *)
(* its bytes so far, and the rest of the word is 0.                        *)
THEOREM PacksItsCodes == FileSpec => []PacksCodes
<1>1. FileInv => PacksCodes
  <2> SUFFICES ASSUME FileInv, phase = "pack", i <= bin_count
               PROVE  FlattenSeq(packer.packed) \o packer.out =
                        FlattenSeq([j \in 1..k - 1 |-> CodeBits(Dict(lens)[bins[i][j]])])
                          \o Zeros(WordBits - packer.m)
    BY DEF PacksCodes
  <2>1. Packing(packer, Coded(Dict(lens), bins[i], k - 1))
    BY DEF FileInv, PackInv
  <2>2. PICK codes, p, o, m : codes = Coded(Dict(lens), bins[i], k - 1) /\ p = FlattenSeq(packer.packed)
                              /\ o = packer.out /\ m = packer.m
    OBVIOUS
  <2>3. /\ p \in Seq(Bit) /\ o \in Word64 /\ m \in 0..ByteBits - 1 /\ codes = p \o SubSeq(o, 1, m)
        /\ \A j \in m + 1..WordBits : o[j] = 0
    BY <2>1, <2>2, PackedIsSeq DEF Packing
  <2>4. o \in Seq(Bit) /\ Len(o) = WordBits /\ m \in 0..WordBits /\ m \in Nat
    BY <2>3, Sizes, WordIsSeq DEF Word64
  <2>5. o = SubSeq(o, 1, m) \o Zeros(WordBits - m)
    <3>1. PICK u, v : u = SubSeq(o, 1, m) /\ v = Zeros(WordBits - m)
      OBVIOUS
    <3>2. u \in Seq(Bit) /\ Len(u) = m /\ \A j \in 1..m : u[j] = o[j]
      BY <2>4, <3>1, FirstOf
    <3>3. PICK d \in Nat : d = WordBits - m
      BY <2>4, Sizes
    <3>4. v \in Seq(Bit) /\ Len(v) = d /\ \A j \in 1..d : v[j] = 0
      BY <3>1, <3>3, ZerosAre
    <3>5. PICK w : w = u \o v
      OBVIOUS
    <3>6. w \in Seq(Bit) /\ Len(w) = m + d
          /\ (\A j \in 1..m : w[j] = u[j]) /\ \A j \in 1..d : w[m + j] = v[j]
      <4>1. u \in Seq(Bit) /\ v \in Seq(Bit) /\ m \in Nat /\ m = Len(u) /\ d = Len(v)
        BY <2>4, <3>2, <3>4
      <4> QED
        BY <3>5, <4>1, ConcatIs
    <3>7. ASSUME NEW j \in 1..WordBits PROVE w[j] = o[j]
      <4>1. CASE j <= m
        BY <2>4, <3>2, <3>6, <4>1
      <4>2. CASE ~ j <= m
        <5>1. j - m \in 1..d /\ m + (j - m) = j /\ j \in m + 1..WordBits
          BY <2>4, <3>3, <4>2, Sizes
        <5> QED
          BY <2>3, <3>4, <3>6, <5>1
      <4> QED
        BY <4>1, <4>2
    <3>8. Len(w) = WordBits
      BY <2>4, <3>3, <3>6, Sizes
    <3>9. w = o
      BY <2>4, <3>6, <3>7, <3>8
    <3> QED
      BY <3>1, <3>5, <3>9
  <2>6. SubSeq(o, 1, m) \in Seq(Bit) /\ Zeros(WordBits - m) \in Seq(Bit)
    <3>1. WordBits - m \in Nat
      BY <2>4, Sizes
    <3> QED
      BY <2>4, <3>1, FirstOf, ZerosAre
  <2>7. p \o (SubSeq(o, 1, m) \o Zeros(WordBits - m)) = (p \o SubSeq(o, 1, m)) \o Zeros(WordBits - m)
    <3>1. PICK u, v : u = SubSeq(o, 1, m) /\ v = Zeros(WordBits - m)
      OBVIOUS
    <3>2. p \in Seq(Bit) /\ u \in Seq(Bit) /\ v \in Seq(Bit)
      BY <2>3, <2>6, <3>1
    <3>3. p \o (u \o v) = (p \o u) \o v
      BY <3>2, ConcatAssociative
    <3> QED
      BY <3>1, <3>3
  <2>8. p \o o = codes \o Zeros(WordBits - m)
    BY <2>3, <2>5, <2>7, Zenon
  <2> QED
    BY <2>2, <2>8 DEF Coded
<1> QED
  BY <1>1, FileInvAlways, PTL

(* Of every file, of this or the older format, what is read first is what  *)
(* was written: the number of strings and of bins, and their code.         *)
THEOREM HeadersReadBack == FileSpec => []HeaderReadsBack
<1>1. FileInv => HeaderReadsBack
  <2> SUFFICES ASSUME FileInv, hfc # <<>>
               PROVE  /\ hfc.length = count /\ hfc.bin_size = BINSIZE /\ hfc.bin_count = bin_count
                      /\ hfc.lens = lens /\ hfc.symbols = Symbols(Sum(lens))
    BY DEF HeaderReadsBack
  <2>1. phase \in {"read", "older"}
    BY DEF FileInv, PackInv, WriteInv
  <2>2. CASE phase = "read"
    <3>1. HasRead
      BY <2>2 DEF FileInv, ReadInv
    <3> QED
      BY <3>1 DEF HasRead
  <2>3. CASE phase = "older"
    <3>1. PICK ls \in HeaderCodes : HasReadOlder(ls)
      BY <2>3 DEF FileInv, OlderInv
    <3> QED
      BY <3>1 DEF HasReadOlder
  <2> QED
    BY <2>1, <2>2, <2>3
<1> QED
  BY <1>1, FileInvAlways, PTL

(* Every bin is found where it is and decodes to what was packed of it,    *)
(* followed by no more than what its fill bits decode to.                  *)
THEOREM EveryBinReadsBack == FileSpec => []BinsReadBack
<1>1. FileInv => BinsReadBack
  <2> SUFFICES ASSUME FileInv, phase = "read", hfc # <<>>, NEW b \in 0..hfc.bin_count - 1
               PROVE  BinReadsBack(b, uncompress_bin(b))
    BY DEF BinsReadBack
  <2>1. Given /\ HasRead /\ PackedAs(inner_bins, bin_count)
    BY DEF FileInv, ReadInv
  <2>2. PICK z : Layout(OffsetsWord, BinsWord, inner_bins, z)
    BY DEF FileInv, ReadInv
  <2>3. PICK n \in Nat : n = bin_count
    BY <2>1, GivenIs
  <2>4. Len(inner_bins) = n /\ hfc.bin_count = n /\ hfc.lens = lens
        /\ Finds(OffsetsWord, BinsWord, Len(inner_bins))
    BY <2>1, <2>3 DEF HasRead, PackedAs, Finds
  <2>5. b + 1 \in 1..n /\ b \in 0..Len(inner_bins) - 1
    BY <2>3, <2>4
  <2>6. PICK text : text = bins[b + 1]
    OBVIOUS
  <2>7. Decodable(Dict(hfc.lens)) /\ text \in Seq(DOMAIN Dict(hfc.lens))
    BY <2>1, <2>3, <2>4, <2>5, <2>6, GivenIs
  <2>8. Encodes(inner_bins[b + 1], Coded(Dict(hfc.lens), text, Len(text)))
    BY <2>1, <2>3, <2>4, <2>5, <2>6 DEF PackedAs
  <2>9. IsPrefix(text, uncompress_bin(b)) /\ Len(uncompress_bin(b)) < Len(text) + FillOf(b, Len(inner_bins))
    BY <2>2, <2>4, <2>5, <2>7, <2>8, DecodesBin
  <2> QED
    BY <2>4, <2>6, <2>9 DEF BinReadsBack, FillOf
<1> QED
  BY <1>1, FileInvAlways, PTL

-----------------------------------------------------------------------------
(* The tree of the headers' code.                                          *)

IsShifted(f, c, l) == f = [j \in 0..l |-> IF j = 0 THEN c ELSE f[j - 1] \div 2]

(* The path to a code is its bits.                                         *)
LEMMA PathIsCode ==
  ASSUME NEW c, Fits(c)
  PROVE  Path(c.code, c.length) = CodeBits(c)
<1>1. PICK l, x \in Nat : l = c.length /\ x = c.code /\ l \in 1..WordBits /\ 0..l \subseteq 0..WordBits
  BY Sizes DEF Fits
<1>2. PICK half : half = Halves(x)
  OBVIOUS
<1>3. half[0] = x /\ \A j \in 1..WordBits : half[j] = half[j - 1] \div 2
  BY <1>2, HalvesAre
<1>4. PICK w : w = [j \in 0..l |-> half[j]]
  OBVIOUS
<1>5. IsShifted(w, x, l)
  <2> DEFINE u == [j \in 0..l |-> IF j = 0 THEN x ELSE w[j - 1] \div 2]
  <2>1. ASSUME NEW j \in 0..l PROVE w[j] = u[j]
    <3>1. CASE j = 0
      BY <1>3, <1>4, <3>1
    <3>2. CASE j # 0
      <4>1. j \in 1..WordBits /\ j - 1 \in 0..l
        BY <1>1, <3>2
      <4> QED
        BY <1>3, <1>4, <3>2, <4>1
    <3> QED
      BY <3>1, <3>2
  <2> HIDE DEF u
  <2>2. w = u
    BY <1>4, <2>1 DEF u
  <2> QED
    BY <2>2 DEF IsShifted, u
<1>6. PICK f : f = CHOOSE h : IsShifted(h, x, l)
  OBVIOUS
<1>7. Path(x, l) = [j \in 1..l |-> f[l - j] % 2]
  <2>1. Path(x, l) = [j \in 1..l |-> (CHOOSE h : IsShifted(h, x, l))[l - j] % 2]
    BY Zenon DEF Path, IsShifted
  <2> QED
    BY <1>6, <2>1
<1>8. f = [j \in 0..l |-> IF j = 0 THEN x ELSE f[j - 1] \div 2]
  <2>1. IsShifted(f, x, l)
    BY <1>5, <1>6, Zenon
  <2> QED
    BY <2>1 DEF IsShifted
<1>9. \A j \in 0..l : f[j] = half[j]
  <2> DEFINE Q == {j \in 0..l : f[j] = half[j]}
  <2>1. 0 \in Q
    <3>1. 0 \in 0..l
      OBVIOUS
    <3> QED
      BY <1>3, <1>8, <3>1
  <2>2. ASSUME NEW j \in 0..l - 1, j \in Q PROVE j + 1 \in Q
    <3>1. j + 1 \in 0..l /\ j + 1 # 0 /\ (j + 1) - 1 = j /\ j + 1 \in 1..WordBits
      BY <1>1
    <3> QED
      BY <1>3, <1>8, <2>2, <3>1
  <2> HIDE DEF Q
  <2>3. 0 \in Int /\ l \in Int
    OBVIOUS
  <2>4. 0..l \subseteq Q
    BY <2>1, <2>2, <2>3, IntervalIsInductive, Zenon
  <2> QED
    BY <2>4 DEF Q
<1>10. PICK code : code = CodeBits(c)
  OBVIOUS
<1>11. code \in Seq(Bit) /\ Len(code) = l /\ \A j \in 1..l : code[j] = Bits(x)[(WordBits - l) + j]
  BY <1>1, <1>10, CodeBitsAre
<1>12. ASSUME NEW j \in 1..l PROVE code[j] = f[l - j] % 2
  <2>1. (WordBits - l) + j \in 1..WordBits /\ WordBits - ((WordBits - l) + j) = l - j /\ l - j \in 0..l
    BY <1>1, Sizes
  <2>2. Bits(x)[(WordBits - l) + j] = half[l - j] % 2
    BY <1>2, <2>1, BitsAre
  <2> QED
    BY <1>9, <1>11, <2>1, <2>2
<1>13. code = [j \in 1..l |-> code[j]]
  BY <1>11
<1> QED
  BY <1>1, <1>7, <1>10, <1>12, <1>13

(* The leaves of a tree are the first n codes, each with its symbol.       *)
Leaves(tree, dict, n) ==
  /\ \A s \in 1..n : /\ CodeBits(dict[s]) \in DOMAIN tree
                     /\ tree[CodeBits(dict[s])] = <<"header", s, 0>>
  /\ \A p \in DOMAIN tree : tree[p] # NULL => \E s \in 1..n : p = CodeBits(dict[s])

(* One more code inserted is one more leaf, since no other is its path.    *)
LEMMA InsertedLeaf ==
  ASSUME NEW dict, Decodable(dict), NEW n \in Nat, 1..n + 1 \subseteq DOMAIN dict,
         NEW tree, Leaves(tree, dict, n)
  PROVE  Leaves(Inserted(tree, dict[n + 1].code, dict[n + 1].length, <<"header", n + 1, 0>>), dict, n + 1)
<1>1. PICK m : m = n + 1
  OBVIOUS
<1>2. m \in DOMAIN dict /\ Fits(dict[m])
  BY <1>1 DEF Decodable
<1>3. PICK path : path = CodeBits(dict[m])
  OBVIOUS
<1>4. Path(dict[m].code, dict[m].length) = path
  BY <1>2, <1>3, PathIsCode
<1>5. PICK sym : sym = <<"header", m, 0>>
  OBVIOUS
<1>6. PICK t : t = Inserted(tree, dict[m].code, dict[m].length, sym)
  OBVIOUS
<1>7. t = [p \in DOMAIN tree \cup Above(path) \cup {path} |->
             IF p = path THEN sym ELSE IF p \in DOMAIN tree THEN tree[p] ELSE NULL]
  BY <1>4, <1>6, Zenon DEF Inserted
<1>8. ASSUME NEW s \in 1..m
      PROVE  CodeBits(dict[s]) \in DOMAIN t /\ t[CodeBits(dict[s])] = <<"header", s, 0>>
  <2>1. CASE s = m
    BY <1>3, <1>5, <1>7, <2>1
  <2>2. CASE s # m
    <3>1. s \in 1..n /\ s \in DOMAIN dict
      BY <1>1, <2>2
    <3>2. CodeBits(dict[s]) \in DOMAIN tree /\ tree[CodeBits(dict[s])] = <<"header", s, 0>>
      BY <3>1 DEF Leaves
    <3>3. CodeBits(dict[s]) # path
      <4>1. ~ IsPrefix(CodeBits(dict[s]), CodeBits(dict[m]))
        BY <1>2, <2>2, <3>1 DEF Decodable, IsPrefixCode
      <4>2. path \in Seq(Bit)
        BY <1>2, <1>3, CodeBitsAre
      <4>3. IsPrefix(path, path)
        <5>1. Len(path) <= Len(path) /\ \A j \in 1..Len(path) : path[j] = path[j]
          BY <4>2
        <5> QED
          BY <4>2, <5>1, PrefixIs
      <4> QED
        BY <1>3, <4>1, <4>3
    <3> QED
      BY <1>7, <3>2, <3>3
  <2> QED
    BY <2>1, <2>2
<1>9. ASSUME NEW p \in DOMAIN t, t[p] # NULL
      PROVE  \E s \in 1..m : p = CodeBits(dict[s])
  <2>1. m \in 1..m /\ 1..n \subseteq 1..m
    BY <1>1
  <2>2. CASE p = path
    BY <1>3, <2>1, <2>2
  <2>3. CASE p # path
    <3>1. p \in DOMAIN tree /\ tree[p] # NULL
      BY <1>7, <1>9, <2>3
    <3> QED
      BY <2>1, <3>1 DEF Leaves
  <2> QED
    BY <2>2, <2>3
<1>10. Leaves(t, dict, m)
  BY <1>8, <1>9 DEF Leaves
<1> QED
  BY <1>1, <1>5, <1>6, <1>10

Trees == UNION {[D -> Cell \cup {NULL}] : D \in SUBSET Seq(Bit)}

IsTrees(f, l) ==
  f = [n \in 0..l |->
        IF n = 0 THEN huffman_new
        ELSE Inserted(f[n - 1], Buff32(2 + 2 * n - 1), Buff32(2 + 2 * n), out[8 + 4 * (1 + 2 * l) + n])]

LEMMA InsertedKeeps ==
  ASSUME NEW tree \in Trees, NEW c, Fits(c), NEW sym \in Cell
  PROVE  Inserted(tree, c.code, c.length, sym) \in Trees
<1>1. PICK path \in Seq(Bit) : path = CodeBits(c)
  BY CodeBitsAre
<1>2. Path(c.code, c.length) = path
  BY <1>1, PathIsCode
<1>3. Above(path) \subseteq Seq(Bit)
  <2>1. \A j \in 0..Len(path) - 1 : SubSeq(path, 1, j) \in Seq(Bit)
    <3>1. \A j \in 0..Len(path) - 1 : j \in 0..Len(path)
      OBVIOUS
    <3> QED
      BY <3>1, FirstOf
  <2> QED
    BY <2>1 DEF Above
<1>4. PICK D \in SUBSET Seq(Bit) : tree \in [D -> Cell \cup {NULL}]
  BY DEF Trees
<1>5. PICK t : t = Inserted(tree, c.code, c.length, sym)
  OBVIOUS
<1>6. t = [p \in DOMAIN tree \cup Above(path) \cup {path} |->
             IF p = path THEN sym ELSE IF p \in DOMAIN tree THEN tree[p] ELSE NULL]
  BY <1>2, <1>5, Zenon DEF Inserted
<1>7. PICK E : E = DOMAIN tree \cup Above(path) \cup {path}
  OBVIOUS
<1>8. E \in SUBSET Seq(Bit) /\ t \in [E -> Cell \cup {NULL}]
  BY <1>3, <1>4, <1>6, <1>7
<1> QED
  BY <1>5, <1>8 DEF Trees

(* What the reader builds of the codes it finds listed.                    *)
LEMMA HeaderTreeIs ==
  ASSUME NEW ls \in HeaderCodes, out \in Seq(Cell), IsAt(out, 9, HuTuckerDict(HuTucker(ls)))
  PROVE  Leaves(huffman_ht_tree(8), HuTucker(ls), Len(ls))
<1>0. PICK dict : dict = HuTucker(ls)
  OBVIOUS
<1>1. PICK l \in Nat : dict = HuTucker(ls) /\ l = Len(ls)
  BY <1>0, HeaderCodeIs
<1>2. Decodable(dict) /\ DOMAIN dict = 1..l
  BY <1>1, HeaderCodeIs
<1>3. Buff32(2) = l /\ \A s \in 1..l :
        /\ Buff32(2 + 2 * s - 1) = dict[s].code /\ Buff32(2 + 2 * s) = dict[s].length
        /\ out[8 + 4 * (1 + 2 * l) + s] = <<"header", s, 0>>
  BY <1>1, ReadsHeaderCode
<1>4. \A s \in 1..l : Fits(dict[s]) /\ <<"header", s, 0>> \in Cell
  <2>1. \A s \in 1..l : Fits(dict[s])
    BY <1>2 DEF Decodable
  <2> QED
    BY <2>1 DEF Cell
<1> DEFINE Add(v, j) == Inserted(v, dict[j].code, dict[j].length, <<"header", j, 0>>)
           g == [j \in Nat |-> [v \in Trees |-> IF j \in 1..l THEN Add(v, j) ELSE v]]
<1>5. huffman_new \in Trees /\ Leaves(huffman_new, dict, 0)
  <2>1. {<<>>} \in SUBSET Seq(Bit) /\ huffman_new \in [{<<>>} -> Cell \cup {NULL}]
    BY DEF huffman_new
  <2>2. \A p \in DOMAIN huffman_new : huffman_new[p] = NULL
    BY DEF huffman_new
  <2>3. huffman_new \in Trees
    <3> HIDE DEF Add, g
    <3> QED
      BY <2>1 DEF Trees
  <2>4. 1..0 = {}
    OBVIOUS
  <2>5. Leaves(huffman_new, dict, 0)
    <3> HIDE DEF Add, g
    <3> QED
      BY <2>2, <2>4 DEF Leaves
  <2> QED
    BY <2>3, <2>5
<1>6. g \in [Nat -> [Trees -> Trees]]
  <2>1. ASSUME NEW j \in Nat, NEW v \in Trees PROVE (IF j \in 1..l THEN Add(v, j) ELSE v) \in Trees
    BY <1>4, InsertedKeeps
  <2> HIDE DEF Add
  <2> QED
    BY <2>1
<1>7. PICK w \in [0..l -> Trees] : w[0] = huffman_new /\ \A j \in 1..l : w[j] = g[j][w[j - 1]]
  <2> HIDE DEF g
  <2>1. PICK f : Iterates(f, Trees, huffman_new, g, l)
    BY <1>5, <1>6, Recursion, Zenon
  <2> QED
    BY <2>1 DEF Iterates
<1>8. \A j \in 1..l : w[j] = Add(w[j - 1], j)
  <2> HIDE DEF Add
  <2>1. \A j \in 1..l : j \in Nat /\ w[j - 1] \in Trees
    BY <1>7
  <2> QED
    BY <1>7, <2>1
<1>9. \A v, j : j \in 1..l =>
        Inserted(v, Buff32(2 + 2 * j - 1), Buff32(2 + 2 * j), out[8 + 4 * (1 + 2 * l) + j]) = Add(v, j)
  BY <1>3
<1>10. IsTrees(w, l)
  <2> DEFINE More(v, j) == Inserted(v, Buff32(2 + 2 * j - 1), Buff32(2 + 2 * j), out[8 + 4 * (1 + 2 * l) + j])
             u == [n \in 0..l |-> IF n = 0 THEN huffman_new ELSE More(w[n - 1], n)]
  <2>1. \A j \in 1..l : w[j] = More(w[j - 1], j)
    BY <1>8, <1>9
  <2>2. ASSUME NEW j \in 0..l PROVE w[j] = u[j]
    <3> HIDE DEF More, Add, g
    <3>1. CASE j = 0
      BY <1>7, <3>1
    <3>2. CASE j # 0
      <4>1. j \in 1..l
        BY <3>2
      <4> QED
        BY <2>1, <3>2, <4>1
    <3> QED
      BY <3>1, <3>2
  <2> HIDE DEF u
  <2>3. w = u
    BY <1>7, <2>2 DEF u
  <2> QED
    BY <2>3 DEF IsTrees, u
<1>11. PICK f : f = CHOOSE h : IsTrees(h, l)
  OBVIOUS
<1>12. huffman_ht_tree(8) = f[l]
  <2>1. 8 \div 4 = 2
    OBVIOUS
  <2>2. huffman_ht_tree(8) = (CHOOSE h : IsTrees(h, Buff32(2)))[Buff32(2)]
    BY <2>1, Zenon DEF huffman_ht_tree, IsTrees
  <2> QED
    BY <1>3, <1>11, <2>2
<1>13. f = [n \in 0..l |->
             IF n = 0 THEN huffman_new
             ELSE Inserted(f[n - 1], Buff32(2 + 2 * n - 1), Buff32(2 + 2 * n), out[8 + 4 * (1 + 2 * l) + n])]
  <2>1. IsTrees(f, l)
    BY <1>10, <1>11, Zenon
  <2> QED
    BY <2>1 DEF IsTrees
<1>14. f[0] = huffman_new /\ \A j \in 1..l : f[j] = Add(f[j - 1], j)
  <2>1. 0 \in 0..l /\ \A j \in 1..l : j \in 0..l /\ j # 0
    OBVIOUS
  <2>2. \A j \in 1..l : f[j] = Inserted(f[j - 1], Buff32(2 + 2 * j - 1), Buff32(2 + 2 * j),
                                        out[8 + 4 * (1 + 2 * l) + j])
    BY <1>13, <2>1
  <2>3. f[0] = huffman_new
    BY <1>13, <2>1
  <2> QED
    BY <1>9, <2>2, <2>3
<1> DEFINE Q == {n \in 0..l : Leaves(f[n], dict, n)}
<1>15. 0 \in Q
  BY <1>5, <1>14
<1>16. ASSUME NEW n \in 0..l - 1, n \in Q PROVE n + 1 \in Q
  <2>1. n \in Nat /\ n + 1 \in 1..l /\ n + 1 \in 0..l /\ (n + 1) - 1 = n /\ 1..n + 1 \subseteq DOMAIN dict
    BY <1>2
  <2>2. Leaves(f[n], dict, n)
    BY <1>16
  <2>3. Leaves(Inserted(f[n], dict[n + 1].code, dict[n + 1].length, <<"header", n + 1, 0>>), dict, n + 1)
    BY <1>2, <2>1, <2>2, InsertedLeaf
  <2>4. f[n + 1] = Inserted(f[n], dict[n + 1].code, dict[n + 1].length, <<"header", n + 1, 0>>)
    BY <1>14, <2>1
  <2> QED
    BY <2>1, <2>3, <2>4
<1>17. l \in Q
  <2> HIDE DEF Q
  <2>1. 0 \in Int /\ l \in Int /\ l \in 0..l
    OBVIOUS
  <2>2. 0..l \subseteq Q
    BY <1>15, <1>16, <2>1, IntervalIsInductive, Zenon
  <2> QED
    BY <2>1, <2>2
<1> QED
  BY <1>1, <1>12, <1>17

-----------------------------------------------------------------------------
(* Decoding a header.                                                      *)

AsHeader(u) == [j \in DOMAIN u |-> <<"header", u[j], 0>>]

(* What the tree's reader holds when the other has come to state, after n  *)
(* bits.                                                                   *)
View(state, n) == [node |-> state.pending, bits |-> n, pushed |-> AsHeader(state.pushed)]

(* The tree's reader sees a code's end where the other finds the code.     *)
LEMMA StepIs ==
  ASSUME NEW dict, Decodable(dict), NEW l \in Nat, DOMAIN dict = 1..l,
         NEW tree, Leaves(tree, dict, l), NEW path \in Seq(Bit)
  PROVE  \/ /\ Found(dict, path) = {}
            /\ ~ (path \in DOMAIN tree /\ tree[path] # NULL)
         \/ \E s \in 1..l :
              /\ Found(dict, path) = {s}
              /\ path \in DOMAIN tree /\ tree[path] = <<"header", s, 0>> /\ tree[path] # NULL
<1>1. CASE Found(dict, path) = {}
  <2>1. \A s \in 1..l : path # CodeBits(dict[s])
    BY <1>1 DEF Found
  <2> QED
    BY <1>1, <2>1 DEF Leaves
<1>2. CASE Found(dict, path) # {}
  <2>1. PICK s \in 1..l : CodeBits(dict[s]) = path
    BY <1>2 DEF Found
  <2>2. path \in DOMAIN tree /\ tree[path] = <<"header", s, 0>>
    BY <2>1 DEF Leaves
  <2>3. <<"header", s, 0>> # NULL
    <3>1. <<"header", s, 0>> \in {"header"} \X Nat \X {0}
      OBVIOUS
    <3> QED
      BY <3>1, OlderAssumption
  <2>4. ASSUME NEW t \in 1..l, CodeBits(dict[t]) = path PROVE t = s
    <3>1. IsPrefix(path, path)
      <4>1. Len(path) <= Len(path) /\ \A j \in 1..Len(path) : path[j] = path[j]
        OBVIOUS
      <4> QED
        BY <4>1, PrefixIs
    <3>2. IsPrefix(CodeBits(dict[t]), CodeBits(dict[s]))
      BY <2>1, <2>4, <3>1
    <3> QED
      BY <3>2 DEF Decodable, IsPrefixCode
  <2>5. Found(dict, path) = {s}
    BY <2>1, <2>4 DEF Found
  <2> QED
    BY <2>2, <2>3, <2>5
<1> QED
  BY <1>1, <1>2

LEMMA AsHeaderIs ==
  ASSUME NEW l \in Nat, NEW u \in Seq(1..l)
  PROVE  /\ AsHeader(u) \in Seq(Cell) /\ Len(AsHeader(u)) = Len(u)
         /\ \A s \in 1..l : AsHeader(Append(u, s)) = Append(AsHeader(u), <<"header", s, 0>>)
<1>1. PICK n \in Nat : n = Len(u) /\ DOMAIN u = 1..n /\ \A j \in 1..n : u[j] \in 1..l
  OBVIOUS
<1>2. \A s \in 1..l : <<"header", s, 0>> \in Cell
  BY DEF Cell
<1>3. PICK v : v = AsHeader(u)
  OBVIOUS
<1>4. v = [j \in 1..n |-> <<"header", u[j], 0>>]
  BY <1>1, <1>3 DEF AsHeader
<1>5. v \in Seq(Cell) /\ Len(v) = n
  BY <1>1, <1>2, <1>4
<1>6. ASSUME NEW s \in 1..l PROVE AsHeader(Append(u, s)) = Append(v, <<"header", s, 0>>)
  <2>1. PICK x, y, sym : x = Append(u, s) /\ sym = <<"header", s, 0>> /\ y = Append(v, sym)
    OBVIOUS
  <2>2. /\ x \in Seq(1..l) /\ Len(x) = n + 1 /\ x[n + 1] = s
        /\ \A j \in 1..n : x[j] = u[j]
    BY <1>1, <2>1, AppendProperties
  <2>3. /\ y \in Seq(Cell) /\ Len(y) = n + 1 /\ y[n + 1] = sym
        /\ \A j \in 1..n : y[j] = v[j]
    BY <1>2, <1>5, <2>1, AppendProperties
  <2>4. DOMAIN x = 1..n + 1
    BY <2>2
  <2>5. \A j \in 1..n + 1 : <<"header", x[j], 0>> = y[j]
    <3>1. \A j \in 1..n + 1 : j \in 1..n \/ j = n + 1
      BY <1>1
    <3> QED
      BY <1>4, <2>1, <2>2, <2>3, <3>1
  <2>6. y = [j \in 1..n + 1 |-> y[j]]
    BY <2>3
  <2>7. AsHeader(x) = y
    BY <2>4, <2>5, <2>6 DEF AsHeader
  <2> QED
    BY <2>1, <2>7
<1> QED
  BY <1>1, <1>3, <1>5, <1>6

(* No string has ended.                                                    *)
Goes(u) == \A j \in 1..Len(u) : u[j] # 1

LEMMA ReadBitIs ==
  ASSUME NEW dict, Decodable(dict), NEW l \in Nat, DOMAIN dict = 1..l,
         NEW tree, Leaves(tree, dict, l), NEW state \in States(dict), Goes(state.pushed),
         NEW bit \in Bit, NEW n \in Nat
  PROVE  ReadBit(tree, View(state, n), bit) = View(CheckBit(dict, state, bit), n + 1)
<1>1. PICK node, u : node = state.pending /\ u = state.pushed
  OBVIOUS
<1>2. node \in Seq(Bit) /\ u \in Seq(1..l)
  BY <1>1 DEF States
<1>3. PICK path, v, view : path = Append(node, bit) /\ v = AsHeader(u) /\ view = View(state, n)
  OBVIOUS
<1>4. path \in Seq(Bit)
  BY <1>2, <1>3
<1>5. view = [node |-> node, bits |-> n, pushed |-> v]
  BY <1>1, <1>3 DEF View
<1>6. v \in Seq(Cell) /\ Len(v) = Len(u)
  BY <1>2, <1>3, AsHeaderIs
<1>7. ~ (v # <<>> /\ Last(v) = EndOfString)
  <2> SUFFICES ASSUME v # <<>> PROVE Last(v) # EndOfString
    OBVIOUS
  <2>1. PICK m \in 1..Len(u) : m = Len(v)
    BY <1>6
  <2>2. u[m] # 1
    BY <1>1, <2>1 DEF Goes
  <2>3. v[m] = <<"header", u[m], 0>>
    BY <1>2, <1>3, <2>1 DEF AsHeader
  <2> QED
    BY <2>1, <2>2, <2>3 DEF Last, EndOfString
<1>8. PICK step : step = Step(tree, node, bit)
  OBVIOUS
<1>9. ReadBit(tree, view, bit) =
        [ node |-> step.node, bits |-> n + 1,
          pushed |-> IF step.pushed = NULL THEN v ELSE Append(v, step.pushed) ]
  <2>1. view.node = node /\ view.bits = n /\ view.pushed = v
    BY <1>5
  <2> QED
    BY <1>7, <1>8, <2>1, Zenon DEF ReadBit
<1>10. CASE /\ Found(dict, path) = {}
            /\ ~ (path \in DOMAIN tree /\ tree[path] # NULL)
  <2>1. step = [node |-> path, pushed |-> NULL]
    BY <1>3, <1>8, <1>10 DEF Step
  <2>2. ReadBit(tree, view, bit) = [node |-> path, bits |-> n + 1, pushed |-> v]
    BY <1>9, <2>1
  <2>3. CheckBit(dict, state, bit) = [state EXCEPT !.pending = path]
    BY <1>1, <1>3, <1>10, Zenon DEF CheckBit, Found
  <2>4. CheckBit(dict, state, bit) = [pending |-> path, pushed |-> u]
    BY <1>1, <2>3 DEF States
  <2>5. View(CheckBit(dict, state, bit), n + 1) = [node |-> path, bits |-> n + 1, pushed |-> v]
    BY <1>3, <2>4 DEF View
  <2> QED
    BY <1>3, <2>2, <2>5
<1>11. ASSUME NEW s \in 1..l, Found(dict, path) = {s}, path \in DOMAIN tree,
              tree[path] = <<"header", s, 0>>, tree[path] # NULL
       PROVE  ReadBit(tree, view, bit) = View(CheckBit(dict, state, bit), n + 1)
  <2>0. PICK sym : sym = <<"header", s, 0>>
    OBVIOUS
  <2>1. step = [node |-> <<>>, pushed |-> sym] /\ sym # NULL
    BY <1>3, <1>8, <1>11, <2>0 DEF Step
  <2>2. ReadBit(tree, view, bit) = [node |-> <<>>, bits |-> n + 1, pushed |-> Append(v, sym)]
    BY <1>9, <2>1
  <2>3. s = CHOOSE t \in Found(dict, path) : TRUE
    BY <1>11
  <2>4. Found(dict, path) # {}
    BY <1>11
  <2>5. CheckBit(dict, state, bit) = [pending |-> <<>>, pushed |-> Append(u, s)]
    BY <1>1, <1>3, <2>3, <2>4, Zenon DEF CheckBit, Found
  <2>6. AsHeader(Append(u, s)) = Append(v, sym)
    BY <1>2, <1>3, <2>0, AsHeaderIs
  <2>7. View(CheckBit(dict, state, bit), n + 1) = [node |-> <<>>, bits |-> n + 1, pushed |-> Append(v, sym)]
    <3>1. PICK x : x = Append(u, s)
      OBVIOUS
    <3>2. PICK after : after = [pending |-> <<>>, pushed |-> x]
      OBVIOUS
    <3>3. AsHeader(after.pushed) = Append(v, sym) /\ after.pending = <<>>
      BY <2>6, <3>1, <3>2
    <3>4. View(after, n + 1) = [node |-> <<>>, bits |-> n + 1, pushed |-> Append(v, sym)]
      BY <3>3, Zenon DEF View
    <3> QED
      BY <2>5, <3>1, <3>2, <3>4, Zenon
  <2> QED
    BY <2>2, <2>7
<1>12. \/ /\ Found(dict, path) = {}
          /\ ~ (path \in DOMAIN tree /\ tree[path] # NULL)
       \/ \E s \in 1..l :
            /\ Found(dict, path) = {s}
            /\ path \in DOMAIN tree /\ tree[path] = <<"header", s, 0>> /\ tree[path] # NULL
  BY <1>4, StepIs
<1> QED
  BY <1>3, <1>10, <1>11, <1>12, Zenon

IsReadTo(f, tree, bits) ==
  f = [n \in 0..Len(bits) |-> IF n = 0 THEN [node |-> <<>>, bits |-> 0, pushed |-> <<>>]
                              ELSE ReadBit(tree, f[n - 1], bits[n])]

(* Nothing is pushed behind the end of a string before it.                 *)
LEMMA GoesBefore ==
  ASSUME NEW dict, NEW bits \in Seq(Bit), NEW f, Decoding(f, dict, bits),
         NEW n \in 0..Len(bits), Goes(f[n].pushed)
  PROVE  \A j \in 0..n : Goes(f[j].pushed)
<1>1. f \in [0..Len(bits) -> States(dict)] /\ \A j \in 1..Len(bits) : f[j] = CheckBit(dict, f[j - 1], bits[j])
  BY DEF Decoding
<1> DEFINE R == {d \in 0..n : Goes(f[n - d].pushed)}
<1>2. 0 \in R
  <2>1. 0 \in 0..n /\ n - 0 = n
    OBVIOUS
  <2> QED
    BY <2>1
<1>3. ASSUME NEW d \in 0..n - 1, d \in R PROVE d + 1 \in R
  <2>1. PICK m \in 1..Len(bits) : m = n - d
    OBVIOUS
  <2>2. m - 1 \in 0..Len(bits) /\ n - (d + 1) = m - 1 /\ d + 1 \in 0..n /\ bits[m] \in Bit
    BY <2>1
  <2>3. PICK x, y : x = f[m - 1] /\ y = f[m]
    OBVIOUS
  <2>4. x \in States(dict) /\ y = CheckBit(dict, x, bits[m])
    BY <1>1, <2>2, <2>3
  <2>5. /\ Len(y.pushed) \in Len(x.pushed)..Len(x.pushed) + 1
        /\ \A j \in 1..Len(x.pushed) : y.pushed[j] = x.pushed[j]
    BY <2>2, <2>4, CheckBitIs
  <2>6. Goes(y.pushed)
    BY <1>3, <2>1, <2>3
  <2>7. Goes(x.pushed)
    <3>1. Len(x.pushed) \in Nat
      BY <2>4 DEF States
    <3>2. \A j \in 1..Len(x.pushed) : j \in 1..Len(y.pushed)
      BY <2>5, <3>1
    <3> QED
      BY <2>5, <2>6, <3>2 DEF Goes
  <2> QED
    BY <2>2, <2>3, <2>7
<1>4. 0..n \subseteq R
  <2> HIDE DEF R
  <2>1. 0 \in Int /\ n \in Int
    OBVIOUS
  <2> QED
    BY <1>2, <1>3, <2>1, IntervalIsInductive, Zenon
<1>5. \A j \in 0..n : n - j \in 0..n /\ n - (n - j) = j
  OBVIOUS
<1> QED
  BY <1>4, <1>5

(* The bit before the end of the string's code: all but the end is there.  *)
LEMMA LastBitIs ==
  ASSUME NEW dict, NEW state \in States(dict), NEW bit \in Bit, NEW h \in Seq(DOMAIN dict), 1 \in DOMAIN dict,
         CheckBit(dict, state, bit) = Due(Append(h, 1))
  PROVE  state.pushed = h
<1>1. PICK path : path = Append(state.pending, bit)
  OBVIOUS
<1>2. state.pending \in Seq(Bit) /\ state.pushed \in Seq(DOMAIN dict) /\ path \in Seq(Bit) /\ path # <<>>
  <2>1. state.pending \in Seq(Bit) /\ state.pushed \in Seq(DOMAIN dict)
    BY DEF States
  <2> QED
    BY <1>1, <2>1, AppendProperties
<1>3. PICK text : text = Append(h, 1)
  OBVIOUS
<1>4. CheckBit(dict, state, bit) = [pending |-> <<>>, pushed |-> text]
  BY <1>3, Zenon DEF Due
<1>5. Found(dict, path) # {}
  <2> SUFFICES ASSUME Found(dict, path) = {} PROVE FALSE
    OBVIOUS
  <2>1. CheckBit(dict, state, bit) = [state EXCEPT !.pending = path]
    BY <1>1, Zenon DEF CheckBit, Found
  <2>2. [state EXCEPT !.pending = path].pending = path
    BY DEF States
  <2>3. CheckBit(dict, state, bit).pending = <<>>
    BY <1>4
  <2> QED
    BY <1>2, <2>1, <2>2, <2>3, Zenon
<1>6. PICK s \in DOMAIN dict : s = CHOOSE t \in Found(dict, path) : TRUE
  BY <1>5 DEF Found
<1>7. CheckBit(dict, state, bit) = [pending |-> <<>>, pushed |-> Append(state.pushed, s)]
  BY <1>1, <1>5, <1>6, Zenon DEF CheckBit, Found
<1>8. PICK u : u = Append(state.pushed, s)
  OBVIOUS
<1>9. u = text
  <2>1. CheckBit(dict, state, bit).pushed = text
    BY <1>4
  <2>2. CheckBit(dict, state, bit).pushed = u
    BY <1>7, <1>8
  <2> QED
    BY <2>1, <2>2, Zenon
<1>10. Append(state.pushed, s) = Append(h, 1)
  BY <1>3, <1>8, <1>9
<1>11. PICK p, D : p = state.pushed /\ D = DOMAIN dict
  OBVIOUS
<1>12. p \in Seq(D) /\ h \in Seq(D) /\ s \in D /\ 1 \in D /\ Append(p, s) = Append(h, 1)
  BY <1>2, <1>10, <1>11
<1>13. Append(p, s) = Append(h, 1) <=> p = h /\ s = 1
  BY <1>12, AppendInjective
<1> QED
  BY <1>11, <1>12, <1>13

(* The header's reader stops behind the end of the first string.           *)
LEMMA ReadToIs ==
  ASSUME NEW dict, Decodable(dict), NEW l \in Nat \ {0}, DOMAIN dict = 1..l,
         NEW tree, Leaves(tree, dict, l), NEW h \in Seq(2..l),
         NEW bytes, FlattenSeq(bytes) \in Seq(Bit),
         IsAt(FlattenSeq(bytes), 1, Coded(dict, Append(h, 1), Len(Append(h, 1))))
  PROVE  ReadTo(tree, FlattenSeq(bytes))
           = View(Due(Append(h, 1)), Len(Coded(dict, Append(h, 1), Len(Append(h, 1)))))
<1>1. PICK bits \in Seq(Bit) : bits = FlattenSeq(bytes)
  OBVIOUS
<1>2. PICK m \in Nat : m = Len(bits) /\ \A j \in 1..m : bits[j] \in Bit
  OBVIOUS
<1>3. PICK text : text = Append(h, 1)
  OBVIOUS
<1>4. /\ h \in Seq(1..l) /\ 1 \in 1..l /\ text \in Seq(1..l) /\ text # <<>>
      /\ Len(text) \in Nat /\ text[Len(text)] = 1
  <2>1. 2..l \subseteq 1..l /\ 1 \in 1..l
    OBVIOUS
  <2>2. h \in Seq(1..l)
    BY <2>1, SeqMonotonic
  <2>3. text \in Seq(1..l) /\ text # <<>> /\ Len(text) = Len(h) + 1 /\ text[Len(h) + 1] = 1
    BY <1>3, <2>1, <2>2, AppendProperties
  <2> QED
    BY <2>1, <2>2, <2>3
<1>5. PICK f : Decoding(f, dict, bits)
  BY <1>1, DecodingIs
<1>6. PICK code : code = Coded(dict, text, Len(text))
  OBVIOUS
<1>7. code \in Seq(Bit) /\ IsAt(bits, 1, code)
  <2>1. Len(text) \in 0..Len(text) /\ text \in Seq(DOMAIN dict)
    BY <1>4
  <2>2. code \in Seq(Bit)
    BY <1>6, <2>1, CodedIs
  <2> QED
    BY <1>1, <1>3, <1>6, <2>2
<1>8. PICK N \in Nat : N = Len(code)
  BY <1>7
<1>9. f[N] = Due(text)
  <2>1. text \in Seq(DOMAIN dict) /\ IsAt(bits, 1, Coded(dict, text, Len(text)))
    BY <1>4, <1>6, <1>7
  <2>2. f[Len(Coded(dict, text, Len(text)))] = Due(text)
    BY <1>5, <2>1, DecodesText
  <2> QED
    BY <1>6, <1>8, <2>2
<1>10. N \in 1..m
  <2>1. N <= m
    BY <1>2, <1>7, <1>8 DEF IsAt
  <2>2. N # 0
    <3>1. f[0].pushed = <<>>
      BY <1>5 DEF Decoding, NoSymbols
    <3>2. f[N].pushed = text
      BY <1>9 DEF Due
    <3> QED
      BY <1>4, <3>1, <3>2
  <2> QED
    BY <2>1, <2>2
<1>11. /\ \A n \in 0..m : f[n] \in States(dict)
       /\ \A n \in 1..m : f[n] = CheckBit(dict, f[n - 1], bits[n])
       /\ f[0] = NoSymbols
  BY <1>2, <1>5 DEF Decoding
<1>12. f[N - 1].pushed = h
  <2>1. N - 1 \in 0..m /\ N \in 1..m
    BY <1>10
  <2>2. PICK state \in States(dict), bit \in Bit : state = f[N - 1] /\ bit = bits[N]
    BY <1>2, <1>11, <2>1
  <2>3. CheckBit(dict, state, bit) = Due(Append(h, 1))
    BY <1>3, <1>9, <1>11, <2>1, <2>2
  <2>4. h \in Seq(DOMAIN dict) /\ 1 \in DOMAIN dict
    BY <1>4
  <2> QED
    BY <2>2, <2>3, <2>4, LastBitIs
<1>13. \A n \in 0..N - 1 : Goes(f[n].pushed)
  <2>1. Goes(f[N - 1].pushed)
    <3>1. \A j \in 1..Len(h) : h[j] \in 2..l
      OBVIOUS
    <3> QED
      BY <1>12, <3>1 DEF Goes
  <2>2. N - 1 \in 0..Len(bits)
    BY <1>2, <1>10
  <2> QED
    BY <1>5, <2>1, <2>2, GoesBefore
<1>14. PICK end : end = View(Due(text), N)
  OBVIOUS
<1>15. ASSUME NEW bit PROVE ReadBit(tree, end, bit) = end
  <2>1. end.pushed = AsHeader(text)
    BY <1>14 DEF View, Due
  <2>2. PICK v : v = AsHeader(text)
    OBVIOUS
  <2>3. Len(v) = Len(text) /\ v # <<>> /\ v[Len(v)] = <<"header", 1, 0>>
    <3>1. v \in Seq(Cell) /\ Len(v) = Len(text)
      BY <1>4, <2>2, AsHeaderIs
    <3>2. Len(text) \in DOMAIN text
      BY <1>4
    <3> QED
      BY <1>4, <2>2, <3>1, <3>2 DEF AsHeader
  <2>4. Last(v) = EndOfString
    BY <2>3 DEF Last, EndOfString
  <2> QED
    BY <2>1, <2>2, <2>3, <2>4, Zenon DEF ReadBit
<1> DEFINE w == [n \in 0..m |-> IF n <= N THEN View(f[n], n) ELSE end]
<1>16. w[0] = [node |-> <<>>, bits |-> 0, pushed |-> <<>>]
  <2>1. w[0] = View(f[0], 0)
    BY <1>10
  <2>2. AsHeader(<<>>) = <<>>
    BY DEF AsHeader
  <2> QED
    BY <1>11, <2>1, <2>2 DEF View, NoSymbols
<1>17. ASSUME NEW n \in 1..m PROVE w[n] = ReadBit(tree, w[n - 1], bits[n])
  <2>1. n \in 0..m /\ n - 1 \in 0..m /\ bits[n] \in Bit
    BY <1>2
  <2>2. CASE n <= N
    <3>1. n - 1 \in 0..N - 1 /\ n - 1 <= N /\ n - 1 \in Nat /\ (n - 1) + 1 = n
      BY <1>10, <2>2
    <3>2. w[n - 1] = View(f[n - 1], n - 1) /\ w[n] = View(f[n], n)
      BY <2>1, <2>2, <3>1
    <3>3. PICK state \in States(dict) : state = f[n - 1]
      BY <1>11, <2>1
    <3>4. Goes(state.pushed)
      BY <1>13, <3>1, <3>3
    <3> HIDE DEF w
    <3>5. ReadBit(tree, View(state, n - 1), bits[n]) = View(CheckBit(dict, state, bits[n]), (n - 1) + 1)
      BY <2>1, <3>1, <3>4, ReadBitIs
    <3>6. f[n] = CheckBit(dict, state, bits[n])
      BY <1>11, <3>3
    <3> QED
      BY <3>1, <3>2, <3>3, <3>5, <3>6
  <2>3. CASE ~ (n <= N)
    <3>1. w[n] = end
      BY <2>1, <2>3
    <3>2. w[n - 1] = end
      <4>1. CASE n - 1 = N
        <5>1. w[n - 1] = View(f[N], N)
          BY <2>1, <4>1
        <5> QED
          BY <1>9, <1>14, <5>1
      <4>2. CASE n - 1 # N
        <5>1. ~ (n - 1 <= N)
          BY <2>3, <4>2
        <5> QED
          BY <2>1, <5>1
      <4> QED
        BY <4>1, <4>2
    <3> QED
      BY <1>15, <3>1, <3>2, Zenon
  <2> QED
    BY <2>2, <2>3
<1>18. w[m] = end
  <2>1. CASE m = N
    <3>1. w[m] = View(f[N], N)
      BY <2>1
    <3> QED
      BY <1>9, <1>14, <3>1
  <2>2. CASE m # N
    <3>1. ~ (m <= N)
      BY <1>10, <2>2
    <3> QED
      BY <3>1
  <2> QED
    BY <2>1, <2>2
<1>19. PICK v : v = w
  OBVIOUS
<1>20. /\ v = [n \in 0..m |-> v[n]] /\ v[0] = [node |-> <<>>, bits |-> 0, pushed |-> <<>>] /\ v[m] = end
       /\ \A n \in 1..m : v[n] = ReadBit(tree, v[n - 1], bits[n])
  BY <1>16, <1>17, <1>18, <1>19
<1> HIDE DEF w
<1>21. IsReadTo(v, tree, bits)
  <2> DEFINE x == [n \in 0..m |-> IF n = 0 THEN [node |-> <<>>, bits |-> 0, pushed |-> <<>>]
                                  ELSE ReadBit(tree, v[n - 1], bits[n])]
  <2>1. ASSUME NEW n \in 0..m PROVE v[n] = x[n]
    <3>1. CASE n = 0
      BY <1>20, <3>1
    <3>2. CASE n # 0
      <4>1. n \in 1..m
        BY <3>2
      <4> QED
        BY <1>20, <3>2, <4>1
    <3> QED
      BY <3>1, <3>2
  <2> HIDE DEF x
  <2>2. v = x
    BY <1>20, <2>1 DEF x
  <2> QED
    BY <1>2, <2>2 DEF IsReadTo, x
<1>22. PICK g : g = CHOOSE x : IsReadTo(x, tree, bits)
  OBVIOUS
<1>23. ReadTo(tree, bits) = g[m]
  <2>1. ReadTo(tree, bits) = (CHOOSE x : IsReadTo(x, tree, bits))[Len(bits)]
    BY Zenon DEF ReadTo, IsReadTo
  <2> QED
    BY <1>2, <1>22, <2>1
<1>24. g = [n \in 0..m |-> IF n = 0 THEN [node |-> <<>>, bits |-> 0, pushed |-> <<>>]
                           ELSE ReadBit(tree, g[n - 1], bits[n])]
  <2>1. IsReadTo(g, tree, bits)
    BY <1>21, <1>22, Zenon
  <2> QED
    BY <1>2, <2>1 DEF IsReadTo
<1> DEFINE Q == {n \in 0..m : g[n] = v[n]}
<1>25. 0 \in Q
  <2>1. 0 \in 0..m
    OBVIOUS
  <2> QED
    BY <1>20, <1>24, <2>1
<1>26. ASSUME NEW n \in 0..m - 1, n \in Q PROVE n + 1 \in Q
  <2>1. n + 1 \in 1..m /\ n + 1 \in 0..m /\ n + 1 # 0 /\ (n + 1) - 1 = n
    OBVIOUS
  <2>2. g[n + 1] = ReadBit(tree, g[n], bits[n + 1])
    BY <1>24, <2>1
  <2>3. v[n + 1] = ReadBit(tree, v[n], bits[n + 1])
    BY <1>20, <2>1
  <2> QED
    BY <1>26, <2>1, <2>2, <2>3
<1>27. m \in Q
  <2> HIDE DEF Q
  <2>1. 0 \in Int /\ m \in Int /\ m \in 0..m
    OBVIOUS
  <2>2. 0..m \subseteq Q
    BY <1>25, <1>26, <2>1, IntervalIsInductive, Zenon
  <2> QED
    BY <2>1, <2>2
<1>28. ReadTo(tree, bits) = end
  BY <1>20, <1>23, <1>27
<1> QED
  BY <1>1, <1>3, <1>6, <1>8, <1>14, <1>28

-----------------------------------------------------------------------------
(* Reading an older file's bins.                                           *)

LEMMA StartsWith ==
  ASSUME NEW S, NEW t \in Seq(S), NEW p \in Seq(S), IsAt(t, 1, p)
  PROVE  /\ SubSeq(t, Len(p) + 1, Len(t)) \in Seq(S)
         /\ t = p \o SubSeq(t, Len(p) + 1, Len(t))
<1>1. PICK m, n \in Nat : m = Len(p) /\ n = Len(t)
  OBVIOUS
<1>2. m <= n /\ \A j \in 1..m : t[j] = p[j]
  <2>1. m <= n
    BY <1>1 DEF IsAt
  <2>2. \A j \in 1..m : t[1 + j - 1] = p[j]
    BY <1>1 DEF IsAt
  <2>3. \A j \in 1..m : 1 + j - 1 = j
    OBVIOUS
  <2> QED
    BY <2>1, <2>2, <2>3
<1>3. PICK z : z = SubSeq(t, m + 1, n)
  OBVIOUS
<1>4. z \in Seq(S) /\ Len(z) = n - m /\ \A j \in 1..n - m : z[j] = t[m + j]
  BY <1>1, <1>2, <1>3, SliceIs
<1>5. PICK w : w = p \o z
  OBVIOUS
<1>6. PICK r \in Nat : r = n - m /\ r = Len(z)
  BY <1>2, <1>4
<1>7. /\ w \in Seq(S) /\ Len(w) = m + r
      /\ \A j \in 1..m : w[j] = p[j]
      /\ \A j \in 1..r : w[m + j] = z[j]
  <2>1. z \in Seq(S) /\ m = Len(p) /\ r = Len(z)
    BY <1>1, <1>4, <1>6
  <2> QED
    BY <1>5, <2>1, ConcatIs
<1>8. \A j \in 1..n : w[j] = t[j]
  <2>1. ASSUME NEW j \in 1..n PROVE w[j] = t[j]
    <3>1. CASE j <= m
      BY <1>2, <1>7, <3>1
    <3>2. CASE ~ (j <= m)
      <4>1. j - m \in 1..r /\ m + (j - m) = j
        BY <1>6, <3>2
      <4> QED
        BY <1>4, <1>6, <1>7, <4>1
    <3> QED
      BY <3>1, <3>2
  <2> QED
    BY <2>1
<1>9. Len(w) = n
  <2>1. m + r = n
    BY <1>6
  <2>2. Len(w) = m + r
    BY <1>7
  <2> QED
    BY <2>1, <2>2, Zenon
<1>10. w = t
  BY <1>1, <1>7, <1>8, <1>9, SeqEqual
<1> QED
  BY <1>1, <1>3, <1>4, <1>5, <1>10

(* Behind the offsets there are only bins.                                 *)
LEMMA RestIsBytes ==
  ASSUME NEW o, NEW f, NEW packed, NEW z, Layout(o, f, packed, z),
         NEW s \in Nat, 4 * f <= s, s <= Len(out)
  PROVE  SubSeq(out, s + 1, Len(out)) \in Seq(Byte8)
<1>1. PICK m \in Nat, g \in Nat : m = Len(out) /\ g = 4 * f
  BY DEF Layout
<1>2. PICK body : body = FlattenSeq(packed) \o Fill(z)
  OBVIOUS
<1>3. body \in Seq(Byte8) /\ m = g + Len(body)
  <2>1. FlattenSeq(packed) \in Seq(Byte8) /\ Len(FlattenSeq(packed)) \in Nat
    BY FlatBins DEF Layout
  <2>2. z \in Nat /\ m = g + Len(FlattenSeq(packed)) + z
    BY <1>1 DEF Layout
  <2>3. Fill(z) \in Seq(Byte8) /\ Len(Fill(z)) = z
    BY <2>2, FillIs
  <2>4. body \in Seq(Byte8) /\ Len(body) = Len(FlattenSeq(packed)) + z
    <3>1. PICK u, v : u = FlattenSeq(packed) /\ v = Fill(z)
      OBVIOUS
    <3>2. u \in Seq(Byte8) /\ v \in Seq(Byte8) /\ Len(v) = z
      BY <2>1, <2>3, <3>1
    <3>3. u \o v \in Seq(Byte8) /\ Len(u \o v) = Len(u) + Len(v)
      BY <3>2, ConcatProperties
    <3> QED
      BY <1>2, <3>1, <3>2, <3>3, Zenon
  <2> QED
    BY <2>1, <2>2, <2>4
<1>4. PICK l \in Nat : l = Len(body) /\ \A j \in 1..l : body[j] \in Byte8
  BY <1>3
<1>5. \A j \in 1..l : out[(g + 1) + j - 1] = body[j]
  <2>1. IsAt(out, g + 1, body)
    BY <1>1, <1>2 DEF Layout
  <2> QED
    BY <1>4, <2>1 DEF IsAt
<1>6. \A j \in g + 1..m : out[j] \in Byte8
  <2>1. ASSUME NEW j \in g + 1..m PROVE out[j] \in Byte8
    <3>1. j - g \in 1..l /\ (g + 1) + (j - g) - 1 = j
      BY <1>3, <1>4
    <3> QED
      BY <1>4, <1>5, <3>1
  <2> QED
    BY <2>1
<1>7. PICK v : v = SubSeq(out, s + 1, m)
  OBVIOUS
<1>8. v \in Seq(Cell) /\ Len(v) = m - s /\ \A j \in 1..m - s : v[j] = out[s + j]
  <2>1. out \in Seq(Cell) /\ s <= m /\ m <= Len(out)
    BY <1>1 DEF Layout
  <2> QED
    BY <1>7, <2>1, SliceIs
<1>9. \A j \in 1..m - s : v[j] \in Byte8
  <2>1. \A j \in 1..m - s : s + j \in g + 1..m
    BY <1>1
  <2> QED
    BY <1>6, <1>8, <2>1
<1>10. v = [j \in 1..m - s |-> v[j]]
  BY <1>8
<1>11. m - s \in Nat
  BY <1>1
<1>12. v \in Seq(Byte8)
  BY <1>9, <1>10, <1>11
<1> QED
  BY <1>1, <1>7, <1>12

(* The header h is packed as p from byte s on, with the code of the tree.  *)
HeaderAt(dict, l, tree, h, p, s) ==
  /\ Decodable(dict) /\ l \in Nat \ {0} /\ DOMAIN dict = 1..l /\ Leaves(tree, dict, l)
  /\ h \in Seq(2..l) /\ Encodes(p, Coded(dict, Append(h, 1), Len(Append(h, 1))))
  /\ s \in Nat /\ s <= Len(out) /\ out \in Seq(Cell) /\ IsAt(out, s + 1, p)
  /\ SubSeq(out, s + 1, Len(out)) \in Seq(Byte8)

(* A header comes out as it went in, and what follows begins on the next   *)
(* whole byte.                                                             *)
LEMMA DecodesHeader ==
  ASSUME NEW dict, NEW l, NEW tree, NEW h, NEW p, NEW s, HeaderAt(dict, l, tree, h, p, s)
  PROVE  huffman_decode_to(tree, s) = [pushed |-> AsHeader(Append(h, 1)), next |-> s + Len(p)]
<1>0. /\ Decodable(dict) /\ l \in Nat \ {0} /\ DOMAIN dict = 1..l /\ Leaves(tree, dict, l)
      /\ h \in Seq(2..l) /\ Encodes(p, Coded(dict, Append(h, 1), Len(Append(h, 1))))
      /\ s \in Nat /\ s <= Len(out) /\ out \in Seq(Cell) /\ IsAt(out, s + 1, p)
      /\ SubSeq(out, s + 1, Len(out)) \in Seq(Byte8)
  BY DEF HeaderAt
<1> USE <1>0
<1>1. PICK text, code, N : text = Append(h, 1) /\ code = Coded(dict, text, Len(text)) /\ N = Len(code)
  OBVIOUS
<1>2. PICK x \in 0..ByteBits - 1 : FlattenSeq(p) = code \o Zeros(x)
  BY <1>1 DEF Encodes
<1>3. p \in Seq(Byte8) /\ Len(p) \in Nat /\ x \in Nat
  BY Sizes DEF Encodes
<1>4. code \in Seq(Bit) /\ N \in Nat
  <2>1. 2..l \subseteq 1..l /\ 1 \in 1..l
    OBVIOUS
  <2>2. h \in Seq(1..l)
    BY <2>1, SeqMonotonic
  <2>3. text \in Seq(DOMAIN dict)
    BY <1>1, <2>1, <2>2, AppendProperties
  <2>4. Len(text) \in 0..Len(text)
    BY <2>3
  <2>5. code \in Seq(Bit)
    BY <1>1, <2>3, <2>4, CodedIs
  <2> QED
    BY <1>1, <2>5
<1>5. PICK rest : rest = SubSeq(out, s + 1, Len(out))
  OBVIOUS
<1>6. rest \in Seq(Byte8) /\ IsAt(rest, 1, p)
  <2>1. s + 1 > s /\ (s + 1) - s = 1
    OBVIOUS
  <2>2. IsAt(rest, (s + 1) - s, p)
    BY <1>3, <1>5, <2>1, AtRest
  <2> QED
    BY <1>5, <2>1, <2>2
<1>7. PICK z \in Seq(Byte8) : rest = p \o z
  <2>1. PICK v : v = SubSeq(rest, Len(p) + 1, Len(rest))
    OBVIOUS
  <2>2. v \in Seq(Byte8) /\ rest = p \o v
    BY <1>3, <1>6, <2>1, StartsWith
  <2> QED
    BY <2>2
<1>8. PICK bits : bits = FlattenSeq(rest)
  OBVIOUS
<1>9. PICK y \in Seq(Bit), w \in Seq(Bit) : y = Zeros(x) /\ Len(y) = x /\ w = FlattenSeq(z)
  BY <1>3, ZerosAre, BitsOfBytes
<1>10. bits \in Seq(Bit) /\ IsAt(bits, 1, code)
  <2>1. p \in Seq(Seq(Bit)) /\ z \in Seq(Seq(Bit))
    BY <1>3, PackedIsSeq
  <2>2. FlattenSeq(p \o z) = FlattenSeq(p) \o FlattenSeq(z)
    BY <2>1, FlattenConcat
  <2>3. bits = (code \o y) \o w
    BY <1>2, <1>7, <1>8, <1>9, <2>2, Zenon
  <2>4. PICK u : u = code \o y
    OBVIOUS
  <2>5. u \in Seq(Bit)
    BY <1>4, <1>9, <2>4, ConcatProperties
  <2>6. bits = u \o w
    BY <2>3, <2>4
  <2>7. bits \in Seq(Bit)
    BY <1>9, <2>5, <2>6, ConcatProperties
  <2>8. IsAt(u \o w, 1, u) /\ IsAt(code \o y, 1, code)
    BY <1>4, <1>9, <2>5, AtConcat
  <2>9. IsAt(u \o w, 1, code)
    <3>1. IsAt(u, 1, code) /\ Len(code) \in Nat
      BY <1>4, <2>4, <2>8
    <3> QED
      BY <1>9, <2>5, <3>1, AtMore
  <2> QED
    BY <2>6, <2>7, <2>9
<1>11. ReadTo(tree, bits) = View(Due(text), N)
  <2>1. IsAt(FlattenSeq(rest), 1, Coded(dict, Append(h, 1), Len(Append(h, 1)))) /\ FlattenSeq(rest) \in Seq(Bit)
    BY <1>1, <1>8, <1>10
  <2>2. ReadTo(tree, FlattenSeq(rest))
          = View(Due(Append(h, 1)), Len(Coded(dict, Append(h, 1), Len(Append(h, 1)))))
    BY <2>1, ReadToIs
  <2> QED
    BY <1>1, <1>8, <2>2
<1>12. PICK end : end = ReadTo(tree, bits)
  OBVIOUS
<1>13. end.pushed = AsHeader(text) /\ end.bits = N
  BY <1>11, <1>12 DEF View, Due
<1>14. (N + ByteBits - 1) \div ByteBits = Len(p)
  <2>1. ByteBits \in Nat \ {0}
    BY Sizes
  <2>2. Len(FlattenSeq(p)) = ByteBits * Len(p)
    BY <1>3, BitsOfBytes
  <2>3. Len(code \o y) = N + x
    <3>1. Len(code \o y) = Len(code) + Len(y)
      BY <1>4, <1>9, ConcatProperties
    <3> QED
      BY <1>1, <1>9, <3>1
  <2>0. PICK q \in Nat : q = Len(p)
    BY <1>3
  <2>4. PICK t : t = ByteBits * q
    OBVIOUS
  <2>5. t = N + x
    BY <1>2, <1>9, <2>0, <2>2, <2>3, <2>4
  <2>6. PICK r \in 0..ByteBits - 1 : r = ByteBits - 1 - x
    BY <2>1
  <2>7. N + ByteBits - 1 = t + r
    BY <1>3, <1>4, <2>1, <2>5, <2>6
  <2>8. (ByteBits * q + r) \div ByteBits = q
    BY <2>1, Quotient
  <2> QED
    BY <2>0, <2>4, <2>7, <2>8, Zenon
<1>15. huffman_decode_to(tree, s)
         = [pushed |-> end.pushed, next |-> s + ((end.bits + ByteBits - 1) \div ByteBits)]
  BY <1>5, <1>8, <1>12, Zenon DEF huffman_decode_to
<1> QED
  BY <1>1, <1>13, <1>14, <1>15

(* Where bin b of an older file is, and its two parts.                     *)
LEMMA OlderBinIs ==
  ASSUME FileInv, phase = "older", hfc # <<>>, NEW b \in 0..hfc.bin_count - 1
  PROVE  \E ls \in HeaderCodes, p \in Seq(Byte8), r \in Seq(Byte8) :
           /\ hfc.lens = lens /\ hfc.header_huff = huffman_ht_tree(8)
           /\ out \in Seq(Cell) /\ IsAt(out, 9, HuTuckerDict(HuTucker(ls)))
           /\ headers[b + 1] \in Seq(2..Len(ls)) /\ bins[b + 1] \in Seq(DOMAIN Dict(lens))
           /\ Encodes(p, Coded(HuTucker(ls), Append(headers[b + 1], 1), Len(Append(headers[b + 1], 1))))
           /\ Encodes(r, Coded(Dict(lens), bins[b + 1], Len(bins[b + 1])))
           /\ Start(b) \in Nat /\ Start(b) <= Len(out) /\ SubSeq(out, Start(b) + 1, Len(out)) \in Seq(Byte8)
           /\ IsAt(out, Start(b) + 1, p) /\ IsAt(out, Start(b) + Len(p) + 1, r)
           /\ Upper(b) = Start(b) + Len(p) + Len(r)
<1>1. Given
  BY DEF FileInv
<1>2. PICK ls \in HeaderCodes : /\ headers \in [1..bin_count -> Seq(2..Len(ls))]
                                /\ out = OlderFile(HuTucker(ls)) /\ HasReadOlder(ls)
  BY DEF FileInv, OlderInv
<1>3. PICK n \in Nat : n = bin_count
  BY <1>1, GivenIs
<1>4. PICK o, f : /\ o = OlderDictAt(ls) + DictLen + 1
                  /\ f = OlderDictAt(ls) + DictLen + bin_count + 1
  OBVIOUS
<1>5. PICK dict : dict = HuTucker(ls)
  OBVIOUS
<1>6. PICK packed : packed = OlderBins(dict)
  OBVIOUS
<1>7. Layout(o, f, packed, 0) /\ out \in Seq(Cell) /\ IsAt(out, 9, HuTuckerDict(HuTucker(ls)))
  <2>1. /\ out \in Seq(Cell) /\ IsAt(out, 9, HuTuckerDict(HuTucker(ls)))
        /\ Layout(OlderDictAt(ls) + DictLen + 1, OlderDictAt(ls) + DictLen + bin_count + 1,
                  OlderBins(HuTucker(ls)), 0)
    BY <1>1, <1>2, OlderFileIs
  <2> QED
    BY <1>4, <1>5, <1>6, <2>1, Zenon
<1>8. /\ packed \in Seq(Seq(Byte8)) /\ Len(packed) = n
      /\ \A a \in 1..n :
           /\ headers[a] \in Seq(2..Len(ls))
           /\ Encodes(Encoded(dict, Append(headers[a], 1)),
                      Coded(dict, Append(headers[a], 1), Len(Append(headers[a], 1))))
           /\ Encodes(Encoded(Dict(lens), bins[a]), Coded(Dict(lens), bins[a], Len(bins[a])))
  BY <1>1, <1>2, <1>3, <1>5, <1>6, OlderBinsAre
<1>9. /\ hfc.bin_count = n /\ hfc.lens = lens /\ hfc.header_huff = huffman_ht_tree(8)
      /\ hfc.bin_offsets = o /\ hfc.first_bin = f
  BY <1>2, <1>3, <1>4 DEF HasReadOlder
<1>10. Finds(o, f, Len(packed)) /\ b + 1 \in 1..n /\ b \in 0..Len(packed) - 1
  BY <1>3, <1>8, <1>9 DEF Finds
<1>11. /\ Start(b) \in Nat /\ packed[b + 1] \in Seq(Byte8) /\ 4 * f <= Start(b)
       /\ IsAt(out, Start(b) + 1, packed[b + 1] \o Fill(0))
       /\ Upper(b) = Start(b) + Len(packed[b + 1]) + 0
  <2>1. PICK e : e = IF b = Len(packed) - 1 THEN 0 ELSE 0
    OBVIOUS
  <2>2. e = 0
    BY <2>1
  <2>3. /\ Start(b) \in Nat /\ packed[b + 1] \in Seq(Byte8) /\ 4 * f <= Start(b)
        /\ IsAt(out, Start(b) + 1, packed[b + 1] \o Fill(e))
        /\ Upper(b) = Start(b) + Len(packed[b + 1]) + e
    BY <1>7, <1>10, <2>1, ReadsBin
  <2> QED
    BY <2>2, <2>3
<1>12. PICK p, r : p = Encoded(dict, Append(headers[b + 1], 1)) /\ r = Encoded(Dict(lens), bins[b + 1])
  OBVIOUS
<1>13. /\ headers[b + 1] \in Seq(2..Len(ls))
       /\ Encodes(p, Coded(dict, Append(headers[b + 1], 1), Len(Append(headers[b + 1], 1))))
       /\ Encodes(r, Coded(Dict(lens), bins[b + 1], Len(bins[b + 1])))
  BY <1>8, <1>10, <1>12
<1>14. p \in Seq(Byte8) /\ r \in Seq(Byte8)
  BY <1>13 DEF Encodes
<1>15. packed[b + 1] = p \o r
  BY <1>3, <1>6, <1>10, <1>12 DEF OlderBins
<1>16. PICK both : both = packed[b + 1]
  OBVIOUS
<1>17. /\ both \in Seq(Byte8) /\ both = p \o r /\ Len(both) = Len(p) + Len(r)
       /\ IsAt(out, Start(b) + 1, both) /\ Upper(b) = Start(b) + Len(both)
  <2>1. Fill(0) = <<>>
    BY DEF Fill
  <2>2. both \o <<>> = both
    BY <1>11, <1>16, ConcatEmptySeq
  <2>3. Len(p \o r) = Len(p) + Len(r)
    BY <1>14, ConcatProperties
  <2>4. Len(both) \in Nat
    BY <1>11, <1>16
  <2> QED
    <3>1. IsAt(out, Start(b) + 1, both)
      BY <1>11, <1>16, <2>1, <2>2
    <3>2. Upper(b) = Start(b) + Len(both) + 0
      BY <1>11, <1>16
    <3>3. Upper(b) = Start(b) + Len(both)
      BY <1>11, <2>4, <3>2
    <3>4. both \in Seq(Byte8) /\ both = p \o r
      BY <1>11, <1>15, <1>16
    <3>5. Len(both) = Len(p) + Len(r)
      BY <2>3, <3>4
    <3> QED
      BY <3>1, <3>3, <3>4, <3>5
<1>18. IsAt(out, Start(b) + 1, p) /\ IsAt(out, Start(b) + Len(p) + 1, r)
  <2>1. IsAt(out, Start(b) + 1, p \o r)
    BY <1>17
  <2>2. Byte8 \subseteq Cell
    BY DEF Cell
  <2>3. p \in Seq(Cell) /\ r \in Seq(Cell)
    BY <1>14, <2>2, SeqMonotonic
  <2>4. IsAt(out, Start(b) + 1, p) /\ IsAt(out, (Start(b) + 1) + Len(p), r)
    BY <1>7, <2>1, <2>3, AtParts
  <2>5. (Start(b) + 1) + Len(p) = Start(b) + Len(p) + 1
    BY <1>11, <1>14
  <2> QED
    BY <2>4, <2>5
<1>19. Start(b) <= Len(out) /\ SubSeq(out, Start(b) + 1, Len(out)) \in Seq(Byte8)
  <2>1. Start(b) <= Len(out)
    <3>1. (Start(b) + 1) + Len(p) <= Len(out) + 1
      BY <1>18 DEF IsAt
    <3>2. PICK s \in Nat, l \in Nat, m \in Nat : s = Start(b) /\ l = Len(p) /\ m = Len(out)
      BY <1>7, <1>11, <1>14
    <3> QED
      BY <3>1, <3>2
  <2>2. SubSeq(out, Start(b) + 1, Len(out)) \in Seq(Byte8)
    BY <1>7, <1>11, <2>1, RestIsBytes
  <2> QED
    BY <2>1, <2>2
<1>20. bins[b + 1] \in Seq(DOMAIN Dict(lens))
  BY <1>1, <1>3, <1>10, GivenIs
<1>21. Upper(b) = Start(b) + Len(p) + Len(r)
  <2>1. PICK s \in Nat, l \in Nat, m \in Nat : s = Start(b) /\ l = Len(p) /\ m = Len(r)
    BY <1>11, <1>14
  <2>2. Upper(b) = s + (l + m)
    BY <1>17, <2>1
  <2> QED
    BY <2>1, <2>2
<1> QED
  BY <1>5, <1>7, <1>9, <1>11, <1>13, <1>14, <1>18, <1>19, <1>20, <1>21

(* Every header of an older file comes out as it went in, and the rest of  *)
(* its bin from the next byte on, in the other code.                       *)
THEOREM OlderFilesReadBack == FileSpec => []OlderReadsBack
<1>1. FileInv => OlderReadsBack
  <2> SUFFICES ASSUME FileInv, phase = "older", hfc # <<>>, NEW b \in 0..hfc.bin_count - 1
               PROVE  /\ Header(b).pushed
                           = Append([n \in DOMAIN headers[b + 1] |-> <<"header", headers[b + 1][n], 0>>],
                                    EndOfString)
                      /\ BinReadsBack(b, htfc_uncompress_bin(b))
    BY DEF OlderReadsBack
  <2>1. PICK ls \in HeaderCodes, p \in Seq(Byte8), r \in Seq(Byte8) :
           /\ hfc.lens = lens /\ hfc.header_huff = huffman_ht_tree(8)
           /\ out \in Seq(Cell) /\ IsAt(out, 9, HuTuckerDict(HuTucker(ls)))
           /\ headers[b + 1] \in Seq(2..Len(ls)) /\ bins[b + 1] \in Seq(DOMAIN Dict(lens))
           /\ Encodes(p, Coded(HuTucker(ls), Append(headers[b + 1], 1), Len(Append(headers[b + 1], 1))))
           /\ Encodes(r, Coded(Dict(lens), bins[b + 1], Len(bins[b + 1])))
           /\ Start(b) \in Nat /\ Start(b) <= Len(out) /\ SubSeq(out, Start(b) + 1, Len(out)) \in Seq(Byte8)
           /\ IsAt(out, Start(b) + 1, p) /\ IsAt(out, Start(b) + Len(p) + 1, r)
           /\ Upper(b) = Start(b) + Len(p) + Len(r)
    BY OlderBinIs
  <2>2. PICK dict : dict = HuTucker(ls)
    OBVIOUS
  <2>3. PICK l \in Nat \ {0} : l = Len(ls)
    BY HeaderCodeIs
  <2>4. Decodable(dict) /\ DOMAIN dict = 1..l
    BY <2>2, <2>3, HeaderCodeIs
  <2>5. PICK tree : tree = hfc.header_huff
    OBVIOUS
  <2>6. Leaves(tree, dict, l)
    BY <2>1, <2>2, <2>3, <2>5, HeaderTreeIs
  <2>7. PICK h, s : h = headers[b + 1] /\ s = Start(b)
    OBVIOUS
  <2>8. /\ h \in Seq(2..l) /\ s \in Nat /\ s <= Len(out) /\ out \in Seq(Cell) /\ IsAt(out, s + 1, p)
        /\ SubSeq(out, s + 1, Len(out)) \in Seq(Byte8)
        /\ Encodes(p, Coded(dict, Append(h, 1), Len(Append(h, 1))))
    BY <2>1, <2>2, <2>3, <2>7
  <2>9. huffman_decode_to(tree, s) = [pushed |-> AsHeader(Append(h, 1)), next |-> s + Len(p)]
    <3>1. HeaderAt(dict, l, tree, h, p, s)
      BY <2>4, <2>6, <2>8 DEF HeaderAt
    <3> QED
      BY <3>1, DecodesHeader
  <2>10. Header(b).pushed = AsHeader(Append(h, 1)) /\ Header(b).next = s + Len(p)
    BY <2>5, <2>7, <2>9 DEF Header
  <2>11. AsHeader(Append(h, 1)) = Append(AsHeader(h), EndOfString)
    <3>1. 2..l \subseteq 1..l /\ 1 \in 1..l
      OBVIOUS
    <3>2. h \in Seq(1..l)
      BY <2>8, <3>1, SeqMonotonic
    <3>3. l \in Nat
      OBVIOUS
    <3> QED
      BY <3>1, <3>2, <3>3, AsHeaderIs DEF EndOfString
  <2>12. PICK text, code : text = bins[b + 1] /\ code = Dict(hfc.lens)
    OBVIOUS
  <2>13. /\ Decodable(code) /\ text \in Seq(DOMAIN code)
         /\ Encodes(r, Coded(code, text, Len(text)))
    <3>1. lens \in Codes
      BY DEF FileInv, Given
    <3> QED
      BY <2>1, <2>12, <3>1, DictIsDecodable
  <2>14. PICK t \in Nat : t = s + Len(p)
    BY <2>8
  <2>15. IsAt(out, t + 1, r \o Fill(0))
    <3>1. Fill(0) = <<>>
      BY DEF Fill
    <3>2. r \o <<>> = r
      BY ConcatEmptySeq
    <3> QED
      BY <2>1, <2>7, <2>14, <3>1, <3>2
  <2>16. PICK bin : bin = huffman_canonical_decode(code, SubSeq(out, t + 1, t + Len(r) + 0))
    OBVIOUS
  <2>17. IsPrefix(text, bin) /\ Len(bin) \in Nat /\ Len(bin) < Len(text) + ByteBits * (0 + 1)
    <3>1. 0 \in 0..3
      OBVIOUS
    <3> QED
      BY <2>1, <2>13, <2>15, <2>16, <3>1, DecodesRest
  <2>18. bin = htfc_uncompress_bin(b)
    <3>1. Upper(b) = t + Len(r) + 0
      <4>1. Len(r) \in Nat
        OBVIOUS
      <4> QED
        BY <2>1, <2>7, <2>14, <4>1
    <3> QED
      BY <2>10, <2>12, <2>14, <2>16, <3>1 DEF htfc_uncompress_bin
  <2>19. PICK fill \in Nat : fill = (IF b = hfc.bin_count - 1 THEN 4 * ByteBits ELSE ByteBits)
    BY Sizes
  <2>20. Len(bin) < Len(text) + fill
    <3>1. ByteBits * (0 + 1) = ByteBits /\ ByteBits \in Nat /\ ByteBits <= fill
      BY <2>19, Sizes
    <3>2. PICK m, n \in Nat : m = Len(bin) /\ n = Len(text)
      BY <2>13, <2>17
    <3> QED
      BY <2>17, <3>1, <3>2
  <2>21. BinReadsBack(b, htfc_uncompress_bin(b))
    BY <2>12, <2>17, <2>18, <2>19, <2>20 DEF BinReadsBack
  <2> QED
    BY <2>7, <2>10, <2>11, <2>21 DEF AsHeader
<1> QED
  BY <1>1, FileInvAlways, PTL
=============================================================================
