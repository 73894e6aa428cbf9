--------------------------- MODULE HfcSessionProof ---------------------------
(***************************************************************************)
(* What holds of HfcSession for every dictionary size, bin size and heap.  *)
(***************************************************************************)
EXTENDS HfcSession, FiniteSetTheorems, TLAPS

-----------------------------------------------------------------------------
(* The layout of bins.                                                     *)

(* Division with remainder by a positive number.                           *)
LEMMA DivMod ==
  ASSUME NEW n \in Nat, NEW b \in Nat \ {0}
  PROVE  /\ n \div b \in Nat
         /\ n % b \in 0..b - 1
         /\ n = b * (n \div b) + (n % b)
  BY Z3

(* Multiplication by a natural number is monotone.                         *)
LEMMA Monotone ==
  ASSUME NEW b \in Nat, NEW x \in Int, NEW y \in Int, x <= y
  PROVE  b * x <= b * y
  BY Z3

(* The quotient and the remainder are determined by the product form.      *)
LEMMA DivUnique ==
  ASSUME NEW n \in Nat, NEW b \in Nat \ {0}, NEW q \in Int, NEW r \in 0..b - 1,
         n = b * q + r
  PROVE  n \div b = q /\ n % b = r
  BY Z3

(* A function on 1..n is a sequence.                                       *)
LEMMA FcnIsSeq ==
  ASSUME NEW n \in Nat, NEW S, NEW m \in [1..n -> S]
  PROVE  m \in Seq(S)
  OBVIOUS

(* A dictionary is a sequence of names.                                    *)
LEMMA DictIsSeq ==
  ASSUME NEW d \in D!Dict
  PROVE  /\ d \in Seq(Name)
         /\ Len(d) \in 0..MaxLen
         /\ DOMAIN d = 1..Len(d)
         /\ \A i \in 1..Len(d) : d[i] \in Name
<1>1. PICK n \in 0..MaxLen : d \in [1..n -> Name]
  BY DEF D!Dict, D!NameSeq
<1>2. n \in Nat
  BY SessionAssumption
<1>3. d \in Seq(Name) /\ Len(d) = n
  BY <1>1, <1>2
<1> QED
  BY <1>1, <1>3

(* The full bins, and one more for the rest.                               *)
LEMMA BinCountIs ==
  ASSUME NEW d \in D!Dict
  PROVE  /\ BinSize \in Nat \ {0}
         /\ Len(d) \in Nat
         /\ Len(d) \div BinSize \in Nat
         /\ Len(d) % BinSize \in 0..BinSize - 1
         /\ Len(d) = BinSize * (Len(d) \div BinSize) + (Len(d) % BinSize)
         /\ BinCount(d) = IF Len(d) % BinSize = 0 THEN Len(d) \div BinSize
                          ELSE Len(d) \div BinSize + 1
<1> DEFINE L == Len(d)
           q == L \div BinSize
           r == L % BinSize
<1>1. L \in Nat /\ BinSize \in Nat \ {0}
  BY DictIsSeq, SessionAssumption
<1>2. q \in Nat /\ r \in 0..BinSize - 1 /\ L = BinSize * q + r
  BY <1>1, DivMod
<1> DEFINE p == IF r = 0 THEN q ELSE q + 1
           o == IF r = 0 THEN BinSize - 1 ELSE r - 1
           n == L + BinSize - 1
<1> HIDE DEF L, q, r
<1>3. n \in Nat /\ p \in Int /\ o \in 0..BinSize - 1
  BY <1>1, <1>2
<1>4. n = BinSize * p + o
  BY <1>1, <1>2, Z3
<1> HIDE DEF n, p, o
<1>5. n \div BinSize = p
  BY <1>1, <1>3, <1>4, DivUnique
<1> QED
  BY <1>1, <1>2, <1>5 DEF BinCount, L, q, r, p, n

(* Every bin lies inside its dictionary, and the search scans all of it.   *)
LEMMA BinLayout ==
  ASSUME NEW d \in D!Dict, NEW bin \in 0..BinCount(d) - 1
  PROVE  /\ BinLen(d, bin) \in 1..BinSize
         /\ bin * BinSize + BinLen(d, bin) <= Len(d)
         /\ ScanLen(d, bin) = BinLen(d, bin)
<1> DEFINE q == Len(d) \div BinSize
           r == Len(d) % BinSize
<1>1. /\ BinSize \in Nat \ {0} /\ Len(d) \in Nat /\ q \in Nat /\ r \in 0..BinSize - 1
      /\ Len(d) = BinSize * q + r
      /\ BinCount(d) = IF r = 0 THEN q ELSE q + 1
  BY BinCountIs
<1> HIDE DEF q, r
<1>2. bin \in Nat /\ bin <= q
  BY <1>1
<1>3. CASE bin = q
  <2>1. r # 0 /\ BinCount(d) = q + 1
    BY <1>1, <1>3
  <2>2. BinLen(d, bin) = r /\ ScanLen(d, bin) = r
    BY <1>1, <1>3, <2>1 DEF BinLen, ScanLen, r
  <2>3. bin * BinSize = BinSize * q
    BY <1>1, <1>3, Z3
  <2> QED
    BY <2>1, <2>2, <2>3, <1>1
<1>4. CASE bin < q
  <2>1. BinLen(d, bin) = BinSize /\ ScanLen(d, bin) = BinSize
    BY <1>1, <1>2, <1>4 DEF BinLen, ScanLen, r
  <2>2. BinSize * (bin + 1) <= BinSize * q
    BY <1>1, <1>2, <1>4, Monotone
  <2>3. bin * BinSize + BinSize = BinSize * (bin + 1)
    BY <1>1, <1>2, Z3
  <2> QED
    BY <2>1, <2>2, <2>3, <1>1, <1>2
<1> QED
  BY <1>1, <1>2, <1>3, <1>4

(* Entry i is entry i % BinSize of bin i \div BinSize.                     *)
LEMMA EntryLayout ==
  ASSUME NEW d \in D!Dict, NEW i \in 0..Len(d) - 1
  PROVE  /\ i \div BinSize \in 0..BinCount(d) - 1
         /\ (i % BinSize) + 1 \in 1..BinLen(d, i \div BinSize)
         /\ i = (i \div BinSize) * BinSize + (i % BinSize)
<1> DEFINE q == Len(d) \div BinSize
           r == Len(d) % BinSize
           b == i \div BinSize
           j == i % BinSize
<1>1. /\ BinSize \in Nat \ {0} /\ Len(d) \in Nat /\ q \in Nat /\ r \in 0..BinSize - 1
      /\ Len(d) = BinSize * q + r
      /\ BinCount(d) = IF r = 0 THEN q ELSE q + 1
  BY BinCountIs
<1>2. i \in Nat /\ i < Len(d)
  BY <1>1
<1>3. b \in Nat /\ j \in 0..BinSize - 1 /\ i = BinSize * b + j
  BY <1>1, <1>2, DivMod
<1> HIDE DEF q, r, b, j
<1>4. BinSize * b = b * BinSize
  BY <1>1, <1>3, Z3
<1>5. b <= q
  <2> SUFFICES ASSUME q + 1 <= b PROVE FALSE
    BY <1>1, <1>3
  <2>1. BinSize * (q + 1) <= BinSize * b
    BY <1>1, <1>3, Monotone
  <2>2. BinSize * (q + 1) = BinSize * q + BinSize
    BY <1>1, Z3
  <2> QED
    BY <2>1, <2>2, <1>1, <1>2, <1>3
<1>6. b = q => r # 0 /\ j < r
  BY <1>1, <1>2, <1>3
<1>7. BinLen(d, b) = IF b = q THEN r ELSE BinSize
  BY <1>1, <1>3, <1>5, <1>6 DEF BinLen, r
<1>8. b \in 0..BinCount(d) - 1
  BY <1>1, <1>3, <1>5, <1>6
<1>9. j + 1 \in 1..BinLen(d, b)
  BY <1>1, <1>3, <1>6, <1>7
<1> QED
  BY <1>3, <1>4, <1>8, <1>9 DEF b, j

(* Decoding a bin gives the names of that bin.                             *)
LEMMA BinIsSeq ==
  ASSUME NEW d \in D!Dict, NEW bin \in 0..BinCount(d) - 1
  PROVE  /\ uncompress_bin(d, bin) \in Seq(Name)
         /\ \A j \in 1..BinLen(d, bin) :
              bin * BinSize + j \in 1..Len(d) /\ uncompress_bin(d, bin)[j] = d[bin * BinSize + j]
<1>1. BinLen(d, bin) \in Nat /\ bin * BinSize + BinLen(d, bin) <= Len(d) /\ Len(d) \in Nat
  BY BinLayout, BinCountIs
<1>2. bin * BinSize \in Nat
  <2>1. bin \in Nat /\ BinSize \in Nat
    BY BinCountIs
  <2> QED
    BY <2>1, Z3
<1>3. \A j \in 1..BinLen(d, bin) : bin * BinSize + j \in 1..Len(d)
  BY <1>1, <1>2
<1>4. \A j \in 1..BinLen(d, bin) : d[bin * BinSize + j] \in Name
  BY <1>3, DictIsSeq
<1>5. uncompress_bin(d, bin) \in [1..BinLen(d, bin) -> Name]
  BY <1>4 DEF uncompress_bin
<1> QED
  BY <1>1, <1>3, <1>5 DEF uncompress_bin

(* A search finds exactly the entries it accepts, at their indices.        *)
LEMMA HitsAre ==
  ASSUME NEW d \in D!Dict, NEW accepted
  PROVE  /\ Hits(d, accepted) = {i - 1 : i \in {j \in DOMAIN d : d[j] \in accepted}}
         /\ Hits(d, accepted) \subseteq 0..Len(d) - 1
<1> DEFINE Want == {i - 1 : i \in {j \in DOMAIN d : d[j] \in accepted}}
<1>1. DOMAIN d = 1..Len(d) /\ Len(d) \in Nat /\ BinSize \in Nat \ {0}
  BY DictIsSeq, BinCountIs
<1>2. Want \subseteq 0..Len(d) - 1
  BY <1>1
<1>3. ASSUME NEW h \in Hits(d, accepted) PROVE h \in Want
  <2>1. PICK bin \in 0..BinCount(d) - 1 :
          \E k \in 0..ScanLen(d, bin) - 1 :
            h = bin * BinSize + k /\ uncompress_bin(d, bin)[k + 1] \in accepted
    BY <1>3 DEF Hits
  <2>2. PICK k \in 0..ScanLen(d, bin) - 1 :
            h = bin * BinSize + k /\ uncompress_bin(d, bin)[k + 1] \in accepted
    BY <2>1
  <2>3. k + 1 \in 1..BinLen(d, bin) /\ bin * BinSize \in Int
    BY BinLayout, <1>1, Z3
  <2>4. h + 1 \in 1..Len(d) /\ d[h + 1] \in accepted /\ h = (h + 1) - 1
    <3>1. h + 1 = bin * BinSize + (k + 1)
      BY <2>2, <2>3
    <3> QED
      BY <2>2, <2>3, <3>1, BinIsSeq
  <2> QED
    BY <2>4, <1>1
<1>4. ASSUME NEW h \in Want PROVE h \in Hits(d, accepted)
  <2>1. h \in 0..Len(d) - 1 /\ d[h + 1] \in accepted
    BY <1>1
  <2> DEFINE bin == h \div BinSize
             k == h % BinSize
  <2>2. bin \in 0..BinCount(d) - 1 /\ k + 1 \in 1..BinLen(d, bin) /\ h = bin * BinSize + k
    BY <2>1, EntryLayout
  <2>3. k \in Nat /\ bin * BinSize \in Int
    BY <1>1, <2>1, <2>2, DivMod, Z3
  <2> HIDE DEF bin, k
  <2>4. k \in 0..ScanLen(d, bin) - 1
    BY <2>2, <2>3, BinLayout
  <2>5. uncompress_bin(d, bin)[k + 1] = d[h + 1]
    <3>1. h + 1 = bin * BinSize + (k + 1)
      BY <2>2, <2>3
    <3> QED
      BY <2>2, <3>1, BinIsSeq
  <2> QED
    BY <2>1, <2>2, <2>4, <2>5 DEF Hits
<1> QED
  BY <1>2, <1>3, <1>4

-----------------------------------------------------------------------------
(* The inductive invariant: what is allocated is what the pointers own, so *)
(* no call frees twice, and the decoded bin is one of the dictionary's, so *)
(* a lookup answers with a name.                                           *)
IInv == TypeOK /\ EachBlockFreedOnce /\ NoLeak /\ InnerCoherent

LEMMA BlockTypes ==
  /\ Free \in Block
  /\ \A d \in D!Dict : [kind |-> "dict", data |-> d] \in Block
  /\ \A d \in Seq(Name) : [kind |-> "array", data |-> d] \in Block
  /\ \A d \in Seq(0..MaxLen - 1) : [kind |-> "matches", data |-> d] \in Block
  /\ \A b \in Block : /\ b.kind \in {"free", "dict", "array", "matches"}
                      /\ b.kind = "dict" => b.data \in D!Dict
                      /\ b.kind = "array" => b.data \in Seq(Name)
                      /\ b.kind = "matches" => b.data \in Seq(0..MaxLen - 1)
  BY DEF Block, Free

LEMMA InitIInv == Init => IInv
<1> SUFFICES ASSUME Init PROVE IInv
  OBVIOUS
<1>1. TypeOK
  BY BlockTypes, SessionAssumption DEF Init, TypeOK
<1>2. EachBlockFreedOnce /\ NoLeak /\ InnerCoherent
  BY SessionAssumption DEF Init, EachBlockFreedOnce, NoLeak, InnerCoherent, Free
<1> QED
  BY <1>1, <1>2 DEF IInv

(* The blocks of each kind.                                                *)
LEMMA Blocks ==
  ASSUME IInv
  PROVE  /\ \A a \in Addr : Live(a) <=> a \in {hfc_cache, upload, matches, inner_cache}
         /\ hfc_cache # NULL => heap[hfc_cache].data \in D!Dict
         /\ upload # NULL => heap[upload].data \in D!Dict
         /\ inner_cache # NULL => heap[inner_cache].data \in Seq(Name)
         /\ matches # NULL => heap[matches].data \in Seq(0..MaxLen - 1)
         /\ hfc_cache # NULL => hfc_cache \notin {upload, matches, inner_cache}
         /\ upload # NULL => upload \notin {matches, inner_cache}
         /\ matches # NULL => matches # inner_cache
<1>1. \A a \in Addr : heap[a] \in Block
  BY DEF IInv, TypeOK
<1>2. \A a \in Addr : /\ heap[a].kind \in {"free", "dict", "array", "matches"}
                      /\ heap[a].kind = "dict" => heap[a].data \in D!Dict
                      /\ heap[a].kind = "array" => heap[a].data \in Seq(Name)
                      /\ heap[a].kind = "matches" => heap[a].data \in Seq(0..MaxLen - 1)
  BY <1>1, BlockTypes
<1>3. /\ hfc_cache # NULL => hfc_cache # upload
      /\ \A a \in Addr : /\ heap[a].kind = "dict" <=> a \in {hfc_cache, upload}
                         /\ heap[a].kind = "matches" <=> a = matches
                         /\ heap[a].kind = "array" <=> a = inner_cache
  BY DEF IInv, NoLeak
<1>4. /\ hfc_cache # NULL => hfc_cache \in Addr
      /\ upload # NULL => upload \in Addr
      /\ matches # NULL => matches \in Addr
      /\ inner_cache # NULL => inner_cache \in Addr
  BY DEF IInv, TypeOK
<1>5. \A a \in Addr : Live(a) <=> a \in {hfc_cache, upload, matches, inner_cache}
  BY <1>2, <1>3 DEF Live
<1>6. /\ hfc_cache # NULL => heap[hfc_cache].data \in D!Dict
      /\ upload # NULL => heap[upload].data \in D!Dict
      /\ inner_cache # NULL => heap[inner_cache].data \in Seq(Name)
      /\ matches # NULL => heap[matches].data \in Seq(0..MaxLen - 1)
  BY <1>2, <1>3, <1>4
<1>7. /\ hfc_cache # NULL => hfc_cache \notin {upload, matches, inner_cache}
      /\ upload # NULL => upload \notin {matches, inner_cache}
      /\ matches # NULL => matches # inner_cache
  BY <1>3, <1>4
<1> QED
  BY <1>5, <1>6, <1>7

(* A call that frees distinct pointers it owns frees nothing twice.        *)
LEMMA HeapStep ==
  ASSUME IInv, NEW a, NEW block \in Block, NEW ptrs,
         \A j \in DOMAIN ptrs : ptrs[j] \in {hfc_cache, matches, inner_cache, upload, NULL},
         \A j, k \in DOMAIN ptrs : j # k /\ ptrs[j] # NULL => ptrs[j] # ptrs[k],
         FreeAndStore(ptrs, a, block)
  PROVE  /\ badFrees' = {}
         /\ heap' \in [Addr -> Block]
<1>1. badFrees = {}
  BY DEF IInv, EachBlockFreedOnce
<1>2. \A j \in DOMAIN ptrs : ptrs[j] \in Addr => Live(ptrs[j])
  BY Blocks, SessionAssumption
<1>3. badFrees' = {}
  BY <1>1, <1>2, SessionAssumption DEF FreeAndStore
<1>4. heap \in [Addr -> Block] /\ Free \in Block
  BY BlockTypes DEF IInv, TypeOK
<1> QED
  BY <1>3, <1>4 DEF FreeAndStore

(* Storing a dictionary over the old one keeps the invariant.              *)
LEMMA SetInternalStep ==
  ASSUME IInv, NEW a \in Addr, NEW d \in D!Dict, NEW other \in {upload, NULL},
         SetInternal(a, d, other),
         \/ ~ Live(a) \/ a = inner_cache
         \/ a = upload /\ other = NULL,
         upload' = IF a = upload THEN NULL ELSE IF other = NULL THEN upload ELSE NULL
  PROVE  IInv'
<1> DEFINE block == [kind |-> "dict", data |-> d]
<1>1. block \in Block
  BY BlockTypes
<1>2. PICK ptrs : ptrs = <<hfc_cache, inner_cache, other>>
  OBVIOUS
<1>3. DOMAIN ptrs = {1, 2, 3} /\ ptrs[1] = hfc_cache /\ ptrs[2] = inner_cache /\ ptrs[3] = other
  BY <1>2
<1> HIDE DEF block
<1>4. \A j \in DOMAIN ptrs : ptrs[j] \in {hfc_cache, matches, inner_cache, upload, NULL}
  BY <1>3
<1>5. \A j, k \in DOMAIN ptrs : j # k /\ ptrs[j] # NULL => ptrs[j] # ptrs[k]
  BY <1>3, Blocks
<1>6. badFrees' = {} /\ heap' \in [Addr -> Block]
  <2>1. FreeAndStore(ptrs, a, block)
    BY <1>2 DEF SetInternal, FreeAndStore, block
  <2> QED
    BY <1>1, <1>4, <1>5, <2>1, HeapStep
<1>7. \A x \in Addr : heap'[x] = IF x = a THEN block
                                 ELSE IF x \in {hfc_cache, inner_cache, other} THEN Free
                                 ELSE heap[x]
  BY DEF SetInternal, FreeAndStore, block
<1>8. /\ hfc_cache' = a /\ matches' = matches /\ inner_cache' = NULL
      /\ inner_bin' = -1 /\ ret' = NULL
  BY DEF SetInternal, DropBin
<1>9. TypeOK'
  BY <1>6, <1>8 DEF TypeOK, IInv
<1>10. NoLeak'
  <2>1. upload' # a
    BY SessionAssumption
  <2>2. ASSUME NEW x \in Addr
        PROVE  /\ heap'[x].kind = "dict" <=> x \in {hfc_cache', upload'}
               /\ heap'[x].kind = "matches" <=> x = matches'
               /\ heap'[x].kind = "array" <=> x = inner_cache'
    <3>1. CASE x = a
      BY <3>1, <1>7, <1>8, Blocks, SessionAssumption DEF block
    <3>2. CASE x # a /\ x \in {hfc_cache, inner_cache, other}
      BY <3>2, <1>7, <1>8, Blocks, SessionAssumption DEF Free
    <3>3. CASE x # a /\ x \notin {hfc_cache, inner_cache, other}
      BY <3>3, <1>7, <1>8, SessionAssumption DEF IInv, NoLeak
    <3> QED
      BY <3>1, <3>2, <3>3
  <2> QED
    BY <2>1, <2>2, <1>8 DEF NoLeak
<1>11. EachBlockFreedOnce' /\ InnerCoherent'
  BY <1>6, <1>8 DEF EachBlockFreedOnce, InnerCoherent
<1> QED
  BY <1>9, <1>10, <1>11 DEF IInv

LEMMA EmptyDict == <<>> \in D!Dict
<1>1. <<>> \in [1..0 -> Name] /\ 0 \in 0..MaxLen
  BY SessionAssumption
<1>2. <<>> \in D!NameSeq
  BY <1>1 DEF D!NameSeq
<1>3. D!IsSorted(<<>>)
  BY DEF D!IsSorted
<1> QED
  BY <1>2, <1>3 DEF D!Dict

LEMMA UploadStep ==
  ASSUME IInv, NEW a \in Addr, NEW d \in D!Dict, Upload(a, d)
  PROVE  IInv'
<1> DEFINE block == [kind |-> "dict", data |-> d]
<1>1. block \in Block
  BY BlockTypes
<1>2. FreeAndStore(<<>>, a, block) /\ ~ Live(a) /\ upload = NULL
  BY DEF Upload
<1>3. \A x \in Addr : heap'[x] = IF x = a THEN block ELSE heap[x]
  BY <1>2 DEF FreeAndStore
<1> HIDE DEF block
<1>4. badFrees' = {} /\ heap' \in [Addr -> Block]
  <2>1. PICK ptrs : ptrs = <<>>
    OBVIOUS
  <2>2. FreeAndStore(ptrs, a, block) /\ DOMAIN ptrs = {}
    BY <1>2, <2>1
  <2> QED
    BY <1>1, <2>2, HeapStep
<1>5. /\ upload' = a /\ ret' = NULL /\ hfc_cache' = hfc_cache /\ matches' = matches
      /\ inner_cache' = inner_cache /\ inner_bin' = inner_bin
  BY DEF Upload
<1>6. TypeOK'
  BY <1>4, <1>5 DEF TypeOK, IInv
<1>7. NoLeak'
  <2>1. hfc_cache # a
    BY <1>2, Blocks
  <2>2. ASSUME NEW x \in Addr
        PROVE  /\ heap'[x].kind = "dict" <=> x \in {hfc_cache', upload'}
               /\ heap'[x].kind = "matches" <=> x = matches'
               /\ heap'[x].kind = "array" <=> x = inner_cache'
    <3>1. CASE x = a
      BY <3>1, <1>2, <1>3, <1>5, Blocks DEF block
    <3>2. CASE x # a
      BY <3>2, <1>2, <1>3, <1>5, SessionAssumption DEF IInv, NoLeak
    <3> QED
      BY <3>1, <3>2
  <2> QED
    BY <2>1, <2>2, <1>5 DEF NoLeak
<1>8. InnerCoherent'
  <2>1. /\ hfc_cache # NULL => hfc_cache \in Addr /\ hfc_cache # a
        /\ inner_cache # NULL => inner_cache \in Addr /\ inner_cache # a
    BY <1>2, Blocks DEF IInv, TypeOK
  <2>2. /\ hfc_cache # NULL => heap'[hfc_cache] = heap[hfc_cache]
        /\ inner_cache # NULL => heap'[inner_cache] = heap[inner_cache]
    BY <2>1, <1>3
  <2> QED
    BY <2>2, <1>5 DEF IInv, InnerCoherent
<1>9. EachBlockFreedOnce'
  BY <1>4 DEF EachBlockFreedOnce
<1> QED
  BY <1>6, <1>7, <1>8, <1>9 DEF IInv

LEMMA SetStep ==
  ASSUME IInv, hfc_set
  PROVE  IInv'
<1>1. PICK a, d : a = upload /\ d = heap[upload].data
  OBVIOUS
<1>2. a \in Addr /\ d \in D!Dict
  BY <1>1, Blocks DEF hfc_set, IInv, TypeOK
<1>3. SetInternal(a, d, NULL) /\ upload' = NULL
  BY <1>1 DEF hfc_set, SetInternal, FreeAndStore
<1> QED
  BY <1>1, <1>2, <1>3, SetInternalStep

LEMMA SetEmptyStep ==
  ASSUME IInv, NEW a \in Addr, hfc_set_empty(a)
  PROVE  IInv'
<1>1. ~ Live(a) /\ SetInternal(a, <<>>, NULL) /\ upload' = upload
  BY DEF hfc_set_empty
<1>2. a # upload
  BY <1>1, Blocks
<1> QED
  BY <1>1, <1>2, EmptyDict, SetInternalStep

LEMMA MergeStep ==
  ASSUME IInv, NEW a \in Addr, hfc_merge(a)
  PROVE  IInv'
<1>1. PICK d \in D!Dict : SetInternal(a, d, upload)
  BY DEF hfc_merge
<1>2. PICK other : other = upload
  OBVIOUS
<1>3. SetInternal(a, d, other)
  BY <1>1, <1>2 DEF SetInternal, FreeAndStore
<1>4. ~ Live(a) /\ upload' = NULL /\ other # NULL /\ a # upload
  BY <1>2, Blocks DEF hfc_merge
<1> QED
  BY <1>2, <1>3, <1>4, SetInternalStep

LEMMA FilterStep ==
  ASSUME IInv, NEW a \in Addr, NEW list, hfc_filter(a, list)
  PROVE  IInv'
<1>1. PICK d \in D!Dict : SetInternal(a, d, NULL)
  BY DEF hfc_filter
<1>2. (~ Live(a) \/ a = inner_cache) /\ upload' = upload
  BY DEF hfc_filter
<1>3. a # upload
  BY <1>2, Blocks, SessionAssumption
<1> QED
  BY <1>1, <1>2, <1>3, SetInternalStep

(* Freeing the pointer p and storing one block, as a search and a lookup do.*)
LEMMA ReplaceStep ==
  ASSUME IInv, NEW a, NEW block \in Block,
         NEW p \in {matches, inner_cache},
         FreeAndStore(<<p>>, a, block)
  PROVE  /\ badFrees' = {}
         /\ heap' \in [Addr -> Block]
         /\ \A x \in Addr : heap'[x] = IF x = a THEN block ELSE IF x = p THEN Free ELSE heap[x]
<1>1. PICK ptrs : ptrs = <<p>>
  OBVIOUS
<1>2. FreeAndStore(ptrs, a, block) /\ DOMAIN ptrs = {1} /\ ptrs[1] = p
  BY <1>1 DEF FreeAndStore
<1>3. badFrees' = {} /\ heap' \in [Addr -> Block]
  BY <1>2, HeapStep
<1> QED
  BY <1>2, <1>3 DEF FreeAndStore

LEMMA SearchStep ==
  ASSUME IInv, NEW a \in Addr, NEW accepted, hfc_search(a, accepted)
  PROVE  IInv'
<1> DEFINE hits == Hits(heap[hfc_cache].data, accepted)
<1>1. /\ hfc_cache # NULL /\ (~ Live(a) \/ a = matches)
      /\ ret' = NULL /\ hfc_cache' = hfc_cache /\ inner_cache' = inner_cache
      /\ inner_bin' = inner_bin /\ upload' = upload
  BY DEF hfc_search
<1>2. hfc_cache \in Addr
  BY <1>1 DEF IInv, TypeOK
<1>3. hits \subseteq 0..MaxLen - 1
  <2>1. PICK d \in D!Dict : d = heap[hfc_cache].data
    BY <1>1, Blocks
  <2>2. Hits(d, accepted) \subseteq 0..Len(d) - 1 /\ Len(d) <= MaxLen /\ Len(d) \in Nat
    BY HitsAre, DictIsSeq, SessionAssumption
  <2> QED
    BY <2>1, <2>2, SessionAssumption
<1>4. PICK b \in Addr \cup {NULL}, block \in Block :
        /\ FreeAndStore(<<matches>>, b, block)
        /\ matches' = b
        /\ b = NULL \/ (b = a /\ block.kind = "matches")
  <2>1. CASE hits = {}
    <3>1. FreeAndStore(<<matches>>, NULL, Free) /\ matches' = NULL
      BY <2>1 DEF hfc_search
    <3> QED
      BY <3>1, BlockTypes
  <2>2. CASE hits # {}
    <3>1. PICK H : H = hits
      OBVIOUS
    <3>2. PICK m \in [1..Cardinality(H) -> H] :
            /\ FreeAndStore(<<matches>>, a, [kind |-> "matches", data |-> m])
            /\ matches' = a
      BY <2>2, <3>1 DEF hfc_search
    <3>3. H \in SUBSET (0..MaxLen - 1)
      BY <1>3, <3>1
    <3>4. Cardinality(H) \in Nat
      <4>1. MaxLen - 1 \in Int /\ 0 \in Int
        BY SessionAssumption
      <4>2. IsFiniteSet(0..MaxLen - 1)
        BY <4>1, FS_Interval
      <4> QED
        BY <4>2, <3>3, FS_Subset, FS_CardinalityType
    <3>5. m \in [1..Cardinality(H) -> 0..MaxLen - 1]
      BY <3>2, <3>3
    <3>6. m \in Seq(0..MaxLen - 1)
      BY <3>4, <3>5, FcnIsSeq
    <3>7. [kind |-> "matches", data |-> m] \in Block
      BY <3>6, BlockTypes
    <3> QED
      BY <3>2, <3>7
  <2> QED
    BY <2>1, <2>2
<1>5. PICK p : p = matches
  OBVIOUS
<1>6. FreeAndStore(<<p>>, b, block)
  BY <1>4, <1>5 DEF FreeAndStore
<1>7. /\ badFrees' = {}
      /\ heap' \in [Addr -> Block]
      /\ \A x \in Addr : heap'[x] = IF x = b THEN block ELSE IF x = p THEN Free ELSE heap[x]
  BY <1>5, <1>6, ReplaceStep
<1>8. TypeOK'
  BY <1>1, <1>4, <1>7 DEF TypeOK, IInv
<1>9. NoLeak'
  <2>1. ASSUME NEW x \in Addr
        PROVE  /\ heap'[x].kind = "dict" <=> x \in {hfc_cache', upload'}
               /\ heap'[x].kind = "matches" <=> x = matches'
               /\ heap'[x].kind = "array" <=> x = inner_cache'
    <3>1. CASE x = b
      BY <3>1, <1>1, <1>4, <1>7, Blocks, SessionAssumption
    <3>2. CASE x # b /\ x = p
      BY <3>2, <1>1, <1>4, <1>5, <1>7, Blocks, SessionAssumption DEF Free
    <3>3. CASE x # b /\ x # p
      BY <3>3, <1>1, <1>4, <1>5, <1>7, SessionAssumption DEF IInv, NoLeak
    <3> QED
      BY <3>1, <3>2, <3>3
  <2> QED
    BY <2>1, <1>1 DEF NoLeak, IInv
<1>10. InnerCoherent'
  <2>1. heap'[hfc_cache] = heap[hfc_cache]
    BY <1>1, <1>2, <1>4, <1>5, <1>7, Blocks, SessionAssumption
  <2>2. inner_cache # NULL => heap'[inner_cache] = heap[inner_cache]
    BY <1>1, <1>4, <1>5, <1>7, Blocks, SessionAssumption DEF IInv, TypeOK
  <2> QED
    BY <2>1, <2>2, <1>1 DEF IInv, InnerCoherent
<1>11. EachBlockFreedOnce'
  BY <1>7 DEF EachBlockFreedOnce
<1> QED
  BY <1>8, <1>9, <1>10, <1>11 DEF IInv

LEMMA ClearCacheStep ==
  ASSUME IInv, hfc_clear_cache
  PROVE  IInv'
<1>1. PICK p : p = inner_cache
  OBVIOUS
<1>2. FreeAndStore(<<p>>, NULL, Free) /\ Free \in Block
  BY <1>1, BlockTypes DEF hfc_clear_cache, FreeAndStore
<1>3. /\ badFrees' = {}
      /\ heap' \in [Addr -> Block]
      /\ \A x \in Addr : heap'[x] = IF x = NULL THEN Free ELSE IF x = p THEN Free ELSE heap[x]
  BY <1>1, <1>2, ReplaceStep
<1>4. /\ inner_cache' = NULL /\ inner_bin' = -1 /\ ret' = NULL
      /\ hfc_cache' = hfc_cache /\ matches' = matches /\ upload' = upload
  BY DEF hfc_clear_cache, DropBin
<1>5. TypeOK'
  BY <1>3, <1>4 DEF TypeOK, IInv
<1>6. NoLeak'
  <2>1. ASSUME NEW x \in Addr
        PROVE  /\ heap'[x].kind = "dict" <=> x \in {hfc_cache', upload'}
               /\ heap'[x].kind = "matches" <=> x = matches'
               /\ heap'[x].kind = "array" <=> x = inner_cache'
    <3>1. CASE x = p
      BY <3>1, <1>1, <1>3, <1>4, Blocks, SessionAssumption DEF Free
    <3>2. CASE x # p
      BY <3>2, <1>1, <1>3, <1>4, SessionAssumption DEF IInv, NoLeak
    <3> QED
      BY <3>1, <3>2
  <2> QED
    BY <2>1, <1>4 DEF NoLeak, IInv
<1>7. EachBlockFreedOnce' /\ InnerCoherent'
  BY <1>3, <1>4 DEF EachBlockFreedOnce, InnerCoherent
<1> QED
  BY <1>5, <1>6, <1>7 DEF IInv

LEMMA LookupStep ==
  ASSUME IInv, NEW a \in Addr, NEW i \in Nat, hfc_lookup(a, i)
  PROVE  IInv'
<1>1. PICK d \in D!Dict : d = heap[hfc_cache].data /\ i \in 0..Len(d) - 1
  BY Blocks DEF hfc_lookup
<1> DEFINE bin == i \div BinSize
           j == (i % BinSize) + 1
<1>2. bin \in 0..BinCount(d) - 1 /\ j \in 1..BinLen(d, bin)
  BY <1>1, EntryLayout
<1>3. uncompress_bin(d, bin) \in Seq(Name) /\ uncompress_bin(d, bin)[j] \in Name
  BY <1>2, BinIsSeq, DictIsSeq
<1>4. hfc_cache # NULL /\ hfc_cache \in Addr /\ hfc_cache' = hfc_cache
      /\ matches' = matches /\ upload' = upload
  BY DEF hfc_lookup, IInv, TypeOK
<1>5. CASE bin = inner_bin
  <2>1. /\ ret' = heap[inner_cache].data[j] /\ heap' = heap /\ inner_cache' = inner_cache
        /\ inner_bin' = inner_bin /\ badFrees' = badFrees
    BY <1>5 DEF hfc_lookup
  <2>2. inner_cache # NULL /\ heap[inner_cache].data = uncompress_bin(d, bin)
    BY <1>1, <1>2, <1>5 DEF IInv, InnerCoherent
  <2>3. ret' \in Name
    BY <2>1, <2>2, <1>3
  <2> QED
    BY <2>1, <2>3, <1>4
       DEF IInv, TypeOK, EachBlockFreedOnce, NoLeak, InnerCoherent
<1>6. CASE bin # inner_bin
  <2> DEFINE block == [kind |-> "array", data |-> uncompress_bin(d, bin)]
  <2>1. PICK p : p = inner_cache
    OBVIOUS
  <2>2. /\ ~ Live(a) \/ a = inner_cache
        /\ FreeAndStore(<<p>>, a, block)
        /\ ret' = uncompress_bin(d, bin)[j] /\ inner_cache' = a /\ inner_bin' = bin
    BY <1>1, <1>6, <2>1 DEF hfc_lookup, FreeAndStore
  <2>3. block \in Block /\ block.kind = "array" /\ block.data = uncompress_bin(d, bin)
    BY <1>3, BlockTypes
  <2> HIDE DEF block
  <2>4. /\ badFrees' = {}
        /\ heap' \in [Addr -> Block]
        /\ \A x \in Addr : heap'[x] = IF x = a THEN block ELSE IF x = p THEN Free ELSE heap[x]
    BY <2>1, <2>2, <2>3, ReplaceStep
  <2>5. TypeOK'
    <3>1. bin \in Int
      BY <1>2
    <3> QED
      BY <1>3, <1>4, <2>2, <2>4, <3>1 DEF TypeOK, IInv
  <2>6. NoLeak'
    <3>1. ASSUME NEW x \in Addr
          PROVE  /\ heap'[x].kind = "dict" <=> x \in {hfc_cache', upload'}
                 /\ heap'[x].kind = "matches" <=> x = matches'
                 /\ heap'[x].kind = "array" <=> x = inner_cache'
      <4>1. CASE x = a
        BY <4>1, <1>4, <2>1, <2>2, <2>3, <2>4, Blocks, SessionAssumption
      <4>2. CASE x # a /\ x = p
        BY <4>2, <1>4, <2>1, <2>2, <2>4, Blocks, SessionAssumption DEF Free
      <4>3. CASE x # a /\ x # p
        BY <4>3, <1>4, <2>1, <2>2, <2>4, SessionAssumption DEF IInv, NoLeak
      <4> QED
        BY <4>1, <4>2, <4>3
    <3> QED
      BY <3>1, <1>4 DEF NoLeak, IInv
  <2>7. InnerCoherent'
    <3>1. heap'[hfc_cache] = heap[hfc_cache] /\ heap'[a] = block
      BY <1>4, <2>1, <2>2, <2>4, Blocks, SessionAssumption
    <3>2. bin # -1 /\ a # NULL
      BY <1>2, SessionAssumption
    <3> QED
      BY <3>1, <3>2, <1>1, <1>2, <1>4, <2>2, <2>3 DEF InnerCoherent
  <2> QED
    BY <2>4, <2>5, <2>6, <2>7 DEF IInv, EachBlockFreedOnce
<1> QED
  BY <1>5, <1>6

(* Every call keeps the invariant.                                         *)
LEMMA NextIInv == IInv /\ [Next]_vars => IInv'
<1> SUFFICES ASSUME IInv, [Next]_vars PROVE IInv'
  OBVIOUS
<1>1. CASE UNCHANGED vars
  BY <1>1 DEF vars, IInv, TypeOK, EachBlockFreedOnce, NoLeak, InnerCoherent
<1>2. ASSUME NEW a \in Addr, NEW d \in D!Dict, Upload(a, d) PROVE IInv'
  BY <1>2, UploadStep
<1>3. CASE hfc_set
  BY <1>3, SetStep
<1>4. ASSUME NEW a \in Addr, hfc_set_empty(a) PROVE IInv'
  BY <1>4, SetEmptyStep
<1>5. ASSUME NEW a \in Addr, hfc_merge(a) PROVE IInv'
  BY <1>5, MergeStep
<1>6. ASSUME NEW a \in Addr, NEW list, hfc_filter(a, list) PROVE IInv'
  BY <1>6, FilterStep
<1>7. ASSUME NEW a \in Addr, NEW accepted, hfc_search(a, accepted) PROVE IInv'
  BY <1>7, SearchStep
<1>8. ASSUME NEW a \in Addr, NEW i \in 0..MaxLen - 1, hfc_lookup(a, i) PROVE IInv'
  BY <1>8, LookupStep, SessionAssumption
<1>9. CASE hfc_clear_cache
  BY <1>9, ClearCacheStep
<1> QED
  BY <1>1, <1>2, <1>3, <1>4, <1>5, <1>6, <1>7, <1>8, <1>9 DEF Next

THEOREM IInvAlways == Spec => []IInv
  BY InitIInv, NextIInv, PTL DEF Spec

-----------------------------------------------------------------------------
(* Type correctness: in particular every index a search returns is one a   *)
(* dictionary can have, and every string a lookup returns is a name.       *)
THEOREM TypeCorrect == Spec => []TypeOK
<1>1. IInv => TypeOK
  BY DEF IInv
<1> QED
  BY <1>1, IInvAlways, PTL

(* No order of calls makes the API free a block twice (hfc.c:411-420,      *)
(* 455-458, 473-474).                                                      *)
THEOREM NoDoubleFree == Spec => []EachBlockFreedOnce
<1>1. IInv => EachBlockFreedOnce
  BY DEF IInv
<1> QED
  BY <1>1, IInvAlways, PTL

(* No order of calls leaks a block or lets two pointers share one.         *)
THEOREM OwnedExactly == Spec => []NoLeak
<1>1. IInv => NoLeak
  BY DEF IInv
<1> QED
  BY <1>1, IInvAlways, PTL

(* No order of calls leaves a decoded bin of an older dictionary behind.   *)
THEOREM NoStaleBin == Spec => []InnerCoherent
<1>1. IInv => InnerCoherent
  BY DEF IInv
<1> QED
  BY <1>1, IInvAlways, PTL

-----------------------------------------------------------------------------
(* The string a lookup returned outlives every call that keeps the         *)
(* dictionary and the decoded bin.                                         *)

(* hfc_set_internal always moves the dictionary.                           *)
LEMMA SetInternalMoves ==
  ASSUME IInv, NEW a \in Addr, NEW d, NEW other, SetInternal(a, d, other),
         ~ Live(a) \/ a = inner_cache \/ a = upload
  PROVE  hfc_cache' # hfc_cache
  BY Blocks, SessionAssumption DEF SetInternal

LEMMA StringsOutliveStep ==
  ASSUME IInv, [Next]_vars, inner_cache # NULL, hfc_cache' = hfc_cache, inner_bin' = inner_bin
  PROVE  inner_cache' = inner_cache /\ heap'[inner_cache] = heap[inner_cache]
<1>1. inner_cache \in Addr /\ inner_bin # -1
  BY DEF IInv, TypeOK, InnerCoherent
<1>2. CASE UNCHANGED vars
  BY <1>2 DEF vars
<1>3. ASSUME NEW a \in Addr, NEW d \in D!Dict, Upload(a, d)
      PROVE  inner_cache' = inner_cache /\ heap'[inner_cache] = heap[inner_cache]
  BY <1>1, <1>3, Blocks DEF Upload, FreeAndStore
<1>4. CASE hfc_set
  <2>1. PICK a, d : a = upload /\ d = heap[upload].data
    OBVIOUS
  <2>2. a \in Addr /\ SetInternal(a, d, NULL)
    BY <1>4, <2>1 DEF hfc_set, SetInternal, FreeAndStore, IInv, TypeOK
  <2> QED
    BY <2>1, <2>2, SetInternalMoves
<1>5. ASSUME NEW a \in Addr, hfc_set_empty(a) PROVE FALSE
  BY <1>5, SetInternalMoves DEF hfc_set_empty
<1>6. ASSUME NEW a \in Addr, hfc_merge(a) PROVE FALSE
  <2>1. PICK d \in D!Dict : SetInternal(a, d, upload)
    BY <1>6 DEF hfc_merge
  <2>2. PICK other : other = upload
    OBVIOUS
  <2>3. SetInternal(a, d, other) /\ ~ Live(a)
    BY <1>6, <2>1, <2>2 DEF hfc_merge, SetInternal, FreeAndStore
  <2> QED
    BY <2>3, SetInternalMoves
<1>7. ASSUME NEW a \in Addr, NEW list, hfc_filter(a, list) PROVE FALSE
  BY <1>7, SetInternalMoves DEF hfc_filter
<1>8. ASSUME NEW a \in Addr, NEW accepted, hfc_search(a, accepted)
      PROVE  inner_cache' = inner_cache /\ heap'[inner_cache] = heap[inner_cache]
  <2>1. inner_cache' = inner_cache /\ inner_cache # matches /\ inner_cache # a
    BY <1>1, <1>8, Blocks DEF hfc_search
  <2>2. \/ FreeAndStore(<<matches>>, NULL, Free)
        \/ \E m : FreeAndStore(<<matches>>, a, [kind |-> "matches", data |-> m])
    BY <1>8 DEF hfc_search
  <2>3. \A x \in Addr : x # a /\ x # matches => heap'[x] = heap[x]
    BY <2>2, SessionAssumption DEF FreeAndStore
  <2> QED
    BY <1>1, <2>1, <2>3
<1>9. ASSUME NEW a \in Addr, NEW i \in 0..MaxLen - 1, hfc_lookup(a, i)
      PROVE  inner_cache' = inner_cache /\ heap'[inner_cache] = heap[inner_cache]
  BY <1>9 DEF hfc_lookup
<1>10. CASE hfc_clear_cache
  BY <1>1, <1>10 DEF hfc_clear_cache, DropBin
<1> QED
  BY <1>2, <1>3, <1>4, <1>5, <1>6, <1>7, <1>8, <1>9, <1>10 DEF Next

THEOREM LookupStringsOutlive == Spec => StringsOutlive
<1>1. IInv /\ [Next]_vars =>
        [ /\ inner_cache # NULL
          /\ hfc_cache' = hfc_cache
          /\ inner_bin' = inner_bin
          => /\ inner_cache' = inner_cache
             /\ heap'[inner_cache] = heap[inner_cache] ]_vars
  BY StringsOutliveStep
<1> QED
  BY <1>1, IInvAlways, PTL DEF Spec, StringsOutlive

-----------------------------------------------------------------------------
(* The API implements the dictionary of HfcDict.                           *)

LEMMA RefinesInit == Init => D!Init
  BY DEF Init, D!Init, names, found

(* Once there is a dictionary, names is it.                                *)
LEMMA NamesAre ==
  ASSUME IInv, hfc_cache # NULL
  PROVE  names = heap[hfc_cache].data /\ names \in D!Dict /\ names # NULL
<1>1. names = heap[hfc_cache].data /\ names \in D!Dict
  BY Blocks DEF names
<1> QED
  BY <1>1, SessionAssumption DEF D!Dict

(* The indices of the last search are kept where their block is.           *)
LEMMA FoundKept ==
  ASSUME matches' = matches, matches # NULL => heap'[matches] = heap[matches]
  PROVE  found' = found
  BY DEF found, Elements

LEMMA RefinesSetInternal ==
  ASSUME IInv, NEW a \in Addr, NEW d \in D!Dict, NEW other \in {upload, NULL},
         SetInternal(a, d, other),
         ~ Live(a) \/ a = inner_cache \/ a = upload
  PROVE  names' = d /\ found' = found /\ ret' = NULL
<1>1. /\ hfc_cache' = a /\ matches' = matches /\ ret' = NULL
      /\ FreeAndStore(<<hfc_cache, inner_cache, other>>, a, [kind |-> "dict", data |-> d])
  BY DEF SetInternal
<1>2. \A x \in Addr : heap'[x] = IF x = a THEN [kind |-> "dict", data |-> d]
                                 ELSE IF x \in {hfc_cache, inner_cache, other} THEN Free
                                 ELSE heap[x]
  BY <1>1 DEF FreeAndStore
<1>3. names' = d
  BY <1>1, <1>2, SessionAssumption DEF names
<1>4. matches # NULL => heap'[matches] = heap[matches]
  <2> SUFFICES ASSUME matches # NULL PROVE heap'[matches] = heap[matches]
    OBVIOUS
  <2>1. matches \in Addr
    BY DEF IInv, TypeOK
  <2>2. matches \notin {hfc_cache, inner_cache, other} /\ matches # a
    BY <2>1, Blocks
  <2> QED
    BY <1>2, <2>1, <2>2
<1> QED
  BY <1>1, <1>3, <1>4, FoundKept

LEMMA RefinesUpload ==
  ASSUME IInv, NEW a \in Addr, NEW d \in D!Dict, Upload(a, d)
  PROVE  D!ClearCache
<1>1. /\ ~ Live(a) /\ hfc_cache' = hfc_cache /\ matches' = matches
      /\ ret' = NULL /\ asked' = D!NoQuestion
      /\ \A x \in Addr : x # a => heap'[x] = heap[x]
  BY DEF Upload, FreeAndStore
<1>2. /\ hfc_cache # NULL => hfc_cache \in Addr /\ hfc_cache # a
      /\ matches # NULL => matches \in Addr /\ matches # a
  BY <1>1, Blocks DEF IInv, TypeOK
<1>3. names' = names
  BY <1>1, <1>2 DEF names
<1>4. found' = found
  BY <1>1, <1>2, FoundKept
<1> QED
  BY <1>1, <1>3, <1>4 DEF D!ClearCache

LEMMA RefinesSet ==
  ASSUME IInv, hfc_set
  PROVE  \E d \in D!Dict : D!Set(d)
<1>1. PICK a, d : a = upload /\ d = heap[upload].data
  OBVIOUS
<1>2. a \in Addr /\ d \in D!Dict
  BY <1>1, Blocks DEF hfc_set, IInv, TypeOK
<1>3. SetInternal(a, d, NULL)
  BY <1>1 DEF hfc_set, SetInternal, FreeAndStore
<1>4. names' = d /\ found' = found /\ ret' = NULL /\ asked' = D!NoQuestion
  BY <1>1, <1>2, <1>3, RefinesSetInternal DEF hfc_set
<1> QED
  BY <1>2, <1>4 DEF D!Set

LEMMA RefinesSetEmpty ==
  ASSUME IInv, NEW a \in Addr, hfc_set_empty(a)
  PROVE  \E d \in D!Dict : D!Set(d)
<1>1. SetInternal(a, <<>>, NULL) /\ ~ Live(a)
  BY DEF hfc_set_empty
<1>2. names' = <<>> /\ found' = found /\ ret' = NULL /\ asked' = D!NoQuestion
  BY <1>1, EmptyDict, RefinesSetInternal DEF hfc_set_empty
<1> QED
  BY <1>2, EmptyDict DEF D!Set

LEMMA RefinesMerge ==
  ASSUME IInv, NEW a \in Addr, hfc_merge(a)
  PROVE  \E d \in D!Dict : D!Merge(d)
<1>1. hfc_cache # NULL /\ upload # NULL /\ ~ Live(a)
  BY DEF hfc_merge
<1>2. PICK m \in D!Dict : /\ D!IsMergeOf(m, heap[hfc_cache].data, heap[upload].data)
                          /\ SetInternal(a, m, upload)
  BY DEF hfc_merge
<1>3. PICK other : other = upload
  OBVIOUS
<1>4. SetInternal(a, m, other)
  BY <1>2, <1>3 DEF SetInternal, FreeAndStore
<1>5. names' = m /\ found' = found /\ ret' = NULL
  BY <1>1, <1>3, <1>4, RefinesSetInternal
<1>6. names = heap[hfc_cache].data /\ names \in D!Dict /\ names # NULL
  BY <1>1, NamesAre
<1>7. heap[upload].data \in D!Dict
  BY <1>1, Blocks
<1>8. asked' = D!NoQuestion
  BY DEF hfc_merge
<1> QED
  BY <1>2, <1>5, <1>6, <1>7, <1>8 DEF D!Merge

LEMMA RefinesFilter ==
  ASSUME IInv, NEW a \in Addr, hfc_cache # NULL,
         NEW list \in D!IndexList(names), hfc_filter(a, list)
  PROVE  D!Filter(list)
<1>1. names = heap[hfc_cache].data /\ names \in D!Dict /\ names # NULL
  BY NamesAre
<1>2. PICK d : d = names
  OBVIOUS
<1>3. DOMAIN d = 1..Len(d) /\ Len(d) \in Nat
  BY <1>1, <1>2, DictIsSeq
<1>4. \A k \in DOMAIN list : k \in Nat \ {0} /\ list[k] \in 0..Len(d) - 1
  BY <1>2, <1>3 DEF D!IndexList
<1>5. ASSUME NEW k \in DOMAIN list
      PROVE  Picked(list)[k] = d[list[k] + 1]
  <2> DEFINE bin == list[k] \div BinSize
             j == (list[k] % BinSize) + 1
  <2>1. /\ bin \in 0..BinCount(d) - 1 /\ j \in 1..BinLen(d, bin)
        /\ list[k] = bin * BinSize + (list[k] % BinSize)
    BY <1>1, <1>2, <1>4, <1>5, EntryLayout
  <2>2. uncompress_bin(d, bin)[j] = d[bin * BinSize + j]
    BY <1>1, <1>2, <2>1, BinIsSeq
  <2>3. bin * BinSize + j = list[k] + 1
    <3>1. list[k] \in Nat /\ BinSize \in Nat \ {0}
      BY <1>3, <1>4, <1>5, SessionAssumption
    <3>2. bin \in Nat /\ list[k] % BinSize \in Nat
      BY <3>1, DivMod
    <3>3. bin * BinSize \in Nat
      BY <3>1, <3>2, Z3
    <3> QED
      BY <2>1, <3>2, <3>3
  <2>4. CASE StaysInBin(list, k)
    <3>1. bin = inner_bin
      BY <2>4, <1>4, <1>5 DEF StaysInBin
    <3>2. heap[inner_cache].data = uncompress_bin(d, bin)
      BY <3>1, <2>1, <1>1, <1>2 DEF IInv, InnerCoherent
    <3> QED
      BY <2>4, <3>2, <2>2, <2>3 DEF Picked
  <2>5. CASE ~ StaysInBin(list, k)
    BY <2>5, <2>2, <2>3, <1>1, <1>2 DEF Picked
  <2> QED
    BY <2>4, <2>5
<1>6. Picked(list) = [k \in DOMAIN list |-> names[list[k] + 1]]
  BY <1>2, <1>5 DEF Picked
<1>7. PICK m \in D!Dict : D!IsSortOf(m, Picked(list)) /\ SetInternal(a, m, NULL)
  BY DEF hfc_filter
<1>8. ~ Live(a) \/ a = inner_cache
  BY DEF hfc_filter
<1>9. names' = m /\ found' = found /\ ret' = NULL
  BY <1>7, <1>8, RefinesSetInternal
<1>10. asked' = D!NoQuestion
  BY DEF hfc_filter
<1> QED
  BY <1>1, <1>6, <1>7, <1>9, <1>10 DEF D!Filter

LEMMA RefinesSearch ==
  ASSUME IInv, NEW a \in Addr, NEW accepted, hfc_search(a, accepted)
  PROVE  D!Search(accepted)
<1>1. /\ hfc_cache # NULL /\ (~ Live(a) \/ a = matches)
      /\ ret' = NULL /\ asked' = <<"search", accepted>>
      /\ hfc_cache' = hfc_cache
  BY DEF hfc_search
<1>2. names = heap[hfc_cache].data /\ names \in D!Dict /\ names # NULL
  BY <1>1, NamesAre
<1>3. PICK d, H : d \in D!Dict /\ d = names /\ H = Hits(d, accepted)
  BY <1>2
<1>4. H = {i - 1 : i \in {j \in DOMAIN names : names[j] \in accepted}}
  BY <1>3, HitsAre
<1>5. \/ /\ H = {} /\ FreeAndStore(<<matches>>, NULL, Free) /\ matches' = NULL
      \/ \E m : /\ Lists(m, H)
                /\ FreeAndStore(<<matches>>, a, [kind |-> "matches", data |-> m])
                /\ matches' = a
  BY <1>2, <1>3 DEF hfc_search
<1>6. found' = H
  <2>1. CASE H = {} /\ FreeAndStore(<<matches>>, NULL, Free) /\ matches' = NULL
    BY <2>1 DEF found
  <2>2. ASSUME NEW m, Lists(m, H),
               FreeAndStore(<<matches>>, a, [kind |-> "matches", data |-> m]),
               matches' = a
        PROVE  found' = H
    <3>1. heap'[a] = [kind |-> "matches", data |-> m]
      BY <2>2 DEF FreeAndStore
    <3>2. found' = Elements(m)
      BY <2>2, <3>1, SessionAssumption DEF found, Elements
    <3> QED
      BY <2>2, <3>2 DEF Lists
  <2> QED
    BY <1>5, <2>1, <2>2
<1>7. names' = names
  <2>1. hfc_cache \in Addr /\ hfc_cache # a /\ hfc_cache # matches
    BY <1>1, Blocks DEF IInv, TypeOK
  <2>2. heap'[hfc_cache] = heap[hfc_cache]
    BY <1>5, <2>1, SessionAssumption DEF FreeAndStore
  <2> QED
    BY <1>1, <2>2 DEF names
<1> QED
  BY <1>1, <1>2, <1>4, <1>6, <1>7 DEF D!Search

LEMMA RefinesLookup ==
  ASSUME IInv, NEW a \in Addr, NEW i \in Nat, hfc_lookup(a, i)
  PROVE  D!Lookup(i) /\ i \in {j - 1 : j \in DOMAIN names}
<1>1. /\ hfc_cache # NULL /\ hfc_cache' = hfc_cache /\ matches' = matches
      /\ asked' = <<"lookup", i>>
      /\ i \in 0..Len(heap[hfc_cache].data) - 1
  BY DEF hfc_lookup
<1>2. names = heap[hfc_cache].data /\ names \in D!Dict /\ names # NULL
  BY <1>1, NamesAre
<1>3. PICK d \in D!Dict : d = names
  BY <1>2
<1>4. DOMAIN d = 1..Len(d) /\ Len(d) \in Nat /\ i \in 0..Len(d) - 1
  BY <1>1, <1>2, <1>3, DictIsSeq
<1> DEFINE bin == i \div BinSize
           j == (i % BinSize) + 1
<1>5. /\ bin \in 0..BinCount(d) - 1 /\ j \in 1..BinLen(d, bin)
      /\ i = bin * BinSize + (i % BinSize)
  BY <1>4, EntryLayout
<1>6. uncompress_bin(d, bin)[j] = d[i + 1]
  <2>1. bin \in Nat /\ i % BinSize \in Nat /\ BinSize \in Nat
    <3>1. BinSize \in Nat \ {0}
      BY SessionAssumption
    <3>2. bin \in Nat /\ i % BinSize \in 0..BinSize - 1
      BY <3>1, DivMod
    <3> HIDE DEF bin
    <3> QED
      BY <3>1, <3>2
  <2>2. bin * BinSize \in Nat
    BY <2>1, Z3
  <2>3. bin * BinSize + j = i + 1
    BY <1>5, <2>1, <2>2
  <2> QED
    BY <1>5, <2>3, BinIsSeq
<1>7. CASE bin = inner_bin
  <2>1. ret' = heap[inner_cache].data[j] /\ heap' = heap
    BY <1>7 DEF hfc_lookup
  <2>2. heap[inner_cache].data = uncompress_bin(d, bin)
    BY <1>2, <1>3, <1>5, <1>7 DEF IInv, InnerCoherent
  <2>3. names' = names /\ found' = found
    BY <1>1, <2>1 DEF names, found
  <2> QED
    BY <1>1, <1>2, <1>3, <1>4, <1>6, <2>1, <2>2, <2>3 DEF D!Lookup
<1>8. CASE bin # inner_bin
  <2>1. /\ ~ Live(a) \/ a = inner_cache
        /\ FreeAndStore(<<inner_cache>>, a,
                        [kind |-> "array", data |-> uncompress_bin(d, bin)])
        /\ ret' = uncompress_bin(d, bin)[j]
    BY <1>2, <1>3, <1>8 DEF hfc_lookup
  <2>2. \A x \in Addr : x # a /\ x # inner_cache => heap'[x] = heap[x]
    BY <2>1 DEF FreeAndStore
  <2>3. /\ hfc_cache \in Addr /\ hfc_cache # a /\ hfc_cache # inner_cache
        /\ matches # NULL => matches \in Addr /\ matches # a /\ matches # inner_cache
    BY <1>1, <2>1, Blocks DEF IInv, TypeOK
  <2>4. names' = names
    BY <1>1, <2>2, <2>3 DEF names
  <2>5. found' = found
    BY <1>1, <2>2, <2>3, FoundKept
  <2> QED
    BY <1>1, <1>2, <1>3, <1>4, <1>6, <2>1, <2>4, <2>5 DEF D!Lookup
<1> QED
  BY <1>7, <1>8

LEMMA RefinesClearCache ==
  ASSUME IInv, hfc_clear_cache
  PROVE  D!ClearCache
<1>1. /\ hfc_cache' = hfc_cache /\ matches' = matches
      /\ ret' = NULL /\ asked' = D!NoQuestion
      /\ \A x \in Addr : x # inner_cache => heap'[x] = heap[x]
  BY SessionAssumption DEF hfc_clear_cache, FreeAndStore
<1>2. /\ hfc_cache # NULL => hfc_cache \in Addr /\ hfc_cache # inner_cache
      /\ matches # NULL => matches \in Addr /\ matches # inner_cache
  BY Blocks DEF IInv, TypeOK
<1>3. names' = names
  BY <1>1, <1>2 DEF names
<1>4. found' = found
  BY <1>1, <1>2, FoundKept
<1> QED
  BY <1>1, <1>3, <1>4 DEF D!ClearCache

LEMMA RefinesNext == IInv /\ [Next]_vars => [D!Next]_<<names, found, ret, asked>>
<1> SUFFICES ASSUME IInv, Next \/ UNCHANGED vars
             PROVE  D!Next \/ UNCHANGED <<names, found, ret, asked>>
  OBVIOUS
<1>1. CASE UNCHANGED vars
  BY <1>1 DEF vars, names, found
<1>2. ASSUME NEW a \in Addr, NEW d \in D!Dict, Upload(a, d) PROVE D!Next
  BY <1>2, RefinesUpload DEF D!Next
<1>3. CASE hfc_set
  BY <1>3, RefinesSet DEF D!Next
<1>4. ASSUME NEW a \in Addr, hfc_set_empty(a) PROVE D!Next
  BY <1>4, RefinesSetEmpty DEF D!Next
<1>5. ASSUME NEW a \in Addr, hfc_merge(a) PROVE D!Next
  BY <1>5, RefinesMerge DEF D!Next
<1>6. ASSUME hfc_cache # NULL, NEW a \in Addr,
             NEW list \in D!IndexList(heap[hfc_cache].data), hfc_filter(a, list)
      PROVE  D!Next
  <2>1. names = heap[hfc_cache].data /\ names # NULL
    BY <1>6, NamesAre
  <2>2. list \in D!IndexList(names)
    BY <1>6, <2>1
  <2> QED
    BY <1>6, <2>1, <2>2, RefinesFilter DEF D!Next
<1>7. ASSUME NEW a \in Addr, NEW accepted \in SUBSET Name, hfc_search(a, accepted)
      PROVE  D!Next
  BY <1>7, RefinesSearch DEF D!Next
<1>8. ASSUME NEW a \in Addr, NEW i \in 0..MaxLen - 1, hfc_lookup(a, i) PROVE D!Next
  <2>1. i \in Nat
    BY SessionAssumption
  <2>2. D!Lookup(i) /\ i \in {j - 1 : j \in DOMAIN names}
    BY <1>8, <2>1, RefinesLookup
  <2> QED
    BY <2>2 DEF D!Next, D!Lookup
<1>9. CASE hfc_clear_cache
  BY <1>9, RefinesClearCache DEF D!Next
<1> QED
  BY <1>1, <1>2, <1>3, <1>4, <1>5, <1>6, <1>7, <1>8, <1>9 DEF Next

(* Bins, cache and heap show in no answer: every history of calls is one of*)
(* the plain dictionary of HfcDict, for every bin size and every heap.     *)
THEOREM Refinement == Spec => ImplementsDict
<1>1. IInv /\ [Next]_vars => [D!Next]_D!dictVars
  BY RefinesNext DEF D!dictVars
<1> QED
  BY RefinesInit, <1>1, IInvAlways, PTL DEF Spec, ImplementsDict, D!Spec
=============================================================================
