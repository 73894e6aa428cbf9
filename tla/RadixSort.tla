----------------------------- MODULE RadixSort -----------------------------
(***************************************************************************)
(* The radix sorts of radix.c, fradix.c, fradix16.c and fradix16-64.c,     *)
(* built from counting passes.  One action is one pass; CountSort is about *)
(* what goes on in a pass.                                                 *)
(*                                                                         *)
(* They all move the items between the caller's buffer and one of their    *)
(* own, from the least significant digit of the least significant column   *)
(* on.  They differ in how a word becomes a key, in how many digits it     *)
(* has, in the order of the columns, and in where the result must end up.  *)
(***************************************************************************)
EXTENDS Integers, SequencesExt

CONSTANTS
  Rows,      (* How many rows there are to sort.                            *)
  Columns,   (* How many columns the multi-column sorts are given, at most. *)
  Base8,     (* Values of a digit of radixSort and radixSortMultiple: 2^8,  *)
  Base11,    (* of fradixSort: 2^11,                                        *)
  Base16,    (* of fradixSort16 and fradixSort16_64: 2^16.                  *)
  IntWord,   (* Words the integer sorts are given: none negative.           *)
  FloatWord, (* Words the float sorts are given.                            *)
  NaN,       (* The word of the canonical NaN, 0x7FC00000,                  *)
  MinusInf,  (* and that of minus infinity, 0xFF800000.                     *)
  Ordinals   (* Words radixSortMultiple32 is given.                         *)

(* The powers of a base: power b is Powers(base)[b + 1].                    *)
Powers(base) == <<1, base, base * base, base * base * base>>

Words == Base16 * Base16

ASSUME RadixAssumption ==
  /\ Rows \in Nat \ {0} /\ Columns \in Nat \ {0}
  /\ {Base8, Base11, Base16} \subseteq Nat \ {0} /\ Base16 % 2 = 0
  /\ Powers(Base8)[4] * Base8 = Words /\ Powers(Base11)[4] >= Words
  /\ IntWord \subseteq 0..(Words \div 2) - 1
  /\ FloatWord \subseteq 0..Words - 1
  /\ NaN \in 0..(Words \div 2) - 1 /\ MinusInf \in Words \div 2..Words - 1
  /\ Ordinals \subseteq Nat

VARIABLES
  fn,       (* Which sort runs.                                             *)
  vals,     (* vals[c][r]: the word of row r in column c.                   *)
  dirs,     (* The direction of each column.                                *)
  buffer,   (* The two buffers of rows: "caller" and "own".                 *)
  current,  (* The one that holds the last pass's output.                   *)
  col,      (* The column of the next pass,                                 *)
  byte,     (* and its digit.                                               *)
  done

vars == <<fn, vals, dirs, buffer, current, col, byte, done>>

Float == {"fradixSort", "fradixSort16", "fradixSortL16_64"}
Integer == {"radixSort", "radixSortMultiple"}
Ordinal == {"radixSortMultiple32"}
OneColumn == {"fradixSort", "fradixSort16", "radixSort"}

LastColumn == Len(vals)

-----------------------------------------------------------------------------
(* Words to keys.                                                          *)

(* x ^ (-(x >> 31) | 0x80000000): negative words in reverse, before the    *)
(* others.                                                                 *)
flip(x) == IF x >= Words \div 2 THEN Words - 1 - x ELSE x + Words \div 2

(* flop, and fradix.c's, which has no case for NaN.                        *)
flop_M1(x) == flip(x)

flop(x) == IF x = NaN /\ fn # "fradixSort" THEN flip(MinusInf) ELSE flip(x)

Digit(x, b, base) == (x \div Powers(base)[b + 1]) % base

(* How many bytes the largest word of a column has: 1 to 4.                *)
getMaxByte_M1(v) ==
  Max({1} \cup {b \in 2..4 : Digit(v[1], b - 1, Base8) > 0})

getMaxByte(v) ==
  Max({1} \cup {b \in 2..4 : \E r \in DOMAIN v : Digit(v[r], b - 1, Base8) > 0})

-----------------------------------------------------------------------------
(* A counting pass: the rows by digit, ascending or descending, those of a *)
(* digit in their order (CountSort's StableSort).  A row goes to the place *)
(* after those of all rows that precede it.                                *)
Pass(rows, digit, dir) ==
  LET Precedes(p, q) ==
        \/ IF dir = "UP" THEN digit[rows[p]] < digit[rows[q]]
                         ELSE digit[rows[p]] > digit[rows[q]]
        \/ digit[rows[p]] = digit[rows[q]] /\ p < q
      At(p) == Cardinality({q \in DOMAIN rows : Precedes(q, p)}) + 1
  IN [k \in DOMAIN rows |-> rows[CHOOSE p \in DOMAIN rows : At(p) = k]]

Other(b) == IF b = "caller" THEN "own" ELSE "caller"

Sort(key, base, dir) ==
  /\ buffer' = [buffer EXCEPT ![Other(current)] =
       Pass(buffer[current], [r \in DOMAIN key |-> Digit(key[r], byte, base)], dir)]
  /\ current' = Other(current)

Flopped(v) == [r \in DOMAIN v |-> flop(v[r])]

(* fradixSort16_64 for the columns from the last to the first: two passes  *)
(* a column.                                                               *)
Fradix16_64Pass ==
  /\ fn = "fradixSortL16_64" /\ col > 0
  /\ Sort(Flopped(vals[col]), Base16, dirs[col])
  /\ IF byte = 0 THEN byte' = 1 /\ col' = col ELSE byte' = 0 /\ col' = col - 1
  /\ UNCHANGED <<fn, vals, dirs, done>>

(* fradixSort16, one column, and fradixSort16InPlace, the words instead of *)
(* the rows: two passes.                                                   *)
Fradix16Pass ==
  /\ fn = "fradixSort16" /\ byte < 2
  /\ Sort(Flopped(vals[col]), Base16, "UP")
  /\ byte' = byte + 1
  /\ UNCHANGED <<fn, vals, dirs, col, done>>

(* fradixSort: three passes.                                               *)
FradixPass ==
  /\ fn = "fradixSort" /\ byte < 3
  /\ Sort(Flopped(vals[col]), Base11, "UP")
  /\ byte' = byte + 1
  /\ UNCHANGED <<fn, vals, dirs, col, done>>

(* radixSort and radixSortMultiple: as many passes as the column needs,    *)
(* for the columns from the first to the last.                             *)
RadixPass ==
  /\ fn \in Integer /\ col <= LastColumn
  /\ Sort(vals[col], Base8, "UP")
  /\ IF byte + 1 < getMaxByte(vals[col])
     THEN byte' = byte + 1 /\ col' = col
     ELSE byte' = 0 /\ col' = col + 1
  /\ UNCHANGED <<fn, vals, dirs, done>>

(* countSortIndicies32 clears and adds up count32 for the words below      *)
(* Rows.  A row with the word Rows goes from place g on, g being what the  *)
(* last call, or malloc, left in count32[Rows]; of two rows for one place, *)
(* the one nearer the front is put there last, and 0 stands for a place    *)
(* nothing is put in.                                                      *)
OrdinalSort(rows, v, g) ==
  LET At(p) ==
        IF v[rows[p]] < Rows
        THEN Cardinality({q \in DOMAIN rows : v[rows[q]] < v[rows[p]]})
               + Cardinality({q \in 1..p : v[rows[q]] = v[rows[p]]})
        ELSE g + Cardinality({q \in 1..p : v[rows[q]] = v[rows[p]]})
      Put(k) == {p \in DOMAIN rows : At(p) = k}
  IN [k \in DOMAIN rows |-> IF Put(k) = {} THEN 0 ELSE rows[Min(Put(k))]]

(* radixSortMultiple32: one pass for each column, the words its digits.    *)
(* A place of the last pass nothing was put in has no row to go on with.   *)
OrdinalPass ==
  /\ fn \in Ordinal /\ col <= LastColumn
  /\ \A k \in DOMAIN buffer[current] : buffer[current][k] # 0
  /\ \E g \in 0..Rows :
       buffer' = [buffer EXCEPT ![Other(current)] = OrdinalSort(buffer[current], vals[col], g)]
  /\ current' = Other(current)
  /\ col' = col + 1
  /\ UNCHANGED <<fn, vals, dirs, byte, done>>

LastPassDone ==
  CASE fn = "fradixSortL16_64" -> col = 0
    [] fn = "fradixSort16" -> byte = 2
    [] fn = "fradixSort" -> byte = 3
    [] OTHER -> col > LastColumn

(* The end: the sorts of radix.c copy a result in their own buffer to the  *)
(* caller's.                                                               *)
CopyBack_M1 == UNCHANGED buffer

CopyBack ==
  IF fn \in Integer \cup Ordinal
  THEN buffer' = [buffer EXCEPT !["caller"] = buffer[current]]
  ELSE UNCHANGED buffer

Finish ==
  /\ LastPassDone /\ ~ done
  /\ CopyBack
  /\ done' = TRUE
  /\ UNCHANGED <<fn, vals, dirs, current, col, byte>>

-----------------------------------------------------------------------------
Inputs(words) ==
  UNION {[1..m -> [1..Rows -> words]] : m \in 1..(IF fn \in OneColumn THEN 1 ELSE Columns)}

Init ==
  /\ fn \in Float \cup Integer \cup Ordinal
  /\ vals \in Inputs(IF fn \in Float THEN FloatWord
                     ELSE IF fn \in Integer THEN IntWord ELSE Ordinals)
  /\ dirs \in [1..LastColumn -> IF fn = "fradixSortL16_64" THEN {"UP", "DOWN"} ELSE {"UP"}]
  /\ buffer = [b \in {"caller", "own"} |->
       [k \in 1..Rows |-> IF b = "caller" THEN k ELSE 0]]
  /\ current = "caller"
  /\ col = IF fn = "fradixSortL16_64" THEN LastColumn ELSE 1
  /\ byte = 0 /\ done = FALSE

Next == Fradix16_64Pass \/ Fradix16Pass \/ FradixPass \/ RadixPass \/ OrdinalPass \/ Finish

Spec == Init /\ [][Next]_vars

-----------------------------------------------------------------------------
(* The order of floats, written without flop: NaN with minus infinity,     *)
(* then the negatives by descending magnitude, -0 before 0.  (fradixSort,  *)
(* which only the benchmark calls, takes NaN for the highest.)             *)
Rank(x) ==
  LET w == IF x = NaN /\ fn \in Float \ {"fradixSort"} THEN MinusInf ELSE x
  IN IF fn \in Float /\ w >= Words \div 2 THEN (Words \div 2) - 1 - w ELSE w

(* The columns by weight: the float sorts take the first for the most      *)
(* significant, radixSortMultiple and radixSortMultiple32 the last.        *)
Columnwise == IF fn \in Float THEN [k \in 1..LastColumn |-> k]
              ELSE [k \in 1..LastColumn |-> LastColumn + 1 - k]

(* Row x comes before row y: by the first column that tells them apart, in *)
(* its direction, else as the caller had them.                             *)
RowBefore(x, y) ==
  LET differ == {k \in 1..LastColumn :
                  Rank(vals[Columnwise[k]][x]) # Rank(vals[Columnwise[k]][y])}
      c == Columnwise[Min(differ)]
      up == Rank(vals[c][x]) < Rank(vals[c][y])
  IN IF differ = {} THEN x < y ELSE IF dirs[c] = "UP" THEN up ELSE ~ up

InOrder(rows) ==
  /\ Range(rows) = 1..Rows
  /\ \A j, k \in DOMAIN rows : j < k => RowBefore(rows[j], rows[k])

(* Where the caller finds the rows: fradixSort returns its own buffer.     *)
Result == IF fn = "fradixSort" THEN buffer[current] ELSE buffer["caller"]

(* The float sorts order the rows by all columns, each in its direction,   *)
(* NaN below all numbers, and keep the order of rows that are equal.       *)
SortsFloats == done /\ fn \in Float => InOrder(Result)

(* So do the integer sorts, and they leave the rows in the caller's buffer *)
(* whether the number of passes is even or odd.                            *)
SortsIntegers == done /\ fn \in Integer => InOrder(Result)

(* And radixSortMultiple32, of which radix.c:164 says that its words may   *)
(* be as high as the number of rows.                                       *)
SortsOrdinals == done /\ fn \in Ordinal => InOrder(Result)
=============================================================================
