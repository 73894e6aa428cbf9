----------------------------- MODULE FrontCoding -----------------------------
(***************************************************************************)
(* The front-coded bins of hfc.c: compute_inner writes a bin, inner_init   *)
(* and inner_next read it back string by string, each from the one before. *)
(* htfc.c reads an older format with the same records (its vbyte_decode    *)
(* and inner_next are the same), in which the first string of a bin is     *)
(* apart, in a code of its own.                                            *)
(*                                                                         *)
(* A string is a sequence of characters; in a buffer it ends with 0.  The  *)
(* Huffman code of a bin is a bijection on its bytes (CanonicalCode), so a *)
(* dictionary here is the list of its decoded bins.  Buffers and indices   *)
(* into them count from 1, positions in current from 0, as in the code.    *)
(***************************************************************************)
EXTENDS Integers, SequencesExt

CONSTANTS
  Char,     (* The bytes of strings: anything but 0.                        *)
  Newline,  (* One more byte, which the lines of a text end with.           *)
  Upper,    (* Those tolower changes,                                       *)
  lower,    (* and what to.                                                 *)
  Radix,    (* How many values a byte of a vbyte holds: 128.                *)
  BinSize,  (* BINSIZE: strings per bin.                                    *)
  Size      (* The size of struct inner's current: 500.                     *)

(* Strings fit in current; a shared length takes two bytes at most, 500    *)
(* being less than 128 * 128, and the first of them is no upper-case       *)
(* letter: 65 * 128 > 500.                                                 *)
ASSUME FrontAssumption ==
  /\ Char \subseteq 1..2 * Radix - 1 /\ Newline \notin Char
  /\ Upper \subseteq Char /\ lower \in [Upper -> Char \ Upper]
  /\ Radix \in Nat /\ Radix > 1
  /\ BinSize \in Nat /\ BinSize > 0
  /\ Size \in Nat /\ Size > 0 /\ Size <= Radix * Radix
  /\ \A u \in Upper : u < Radix /\ lower[u] < Radix /\ u * Radix > Size

Chars == UNION {[1..n -> Char] : n \in 0..Size - 1}

tolower(c) == IF c \in Upper THEN lower[c] ELSE c
Folded(s) == [k \in DOMAIN s |-> tolower(s[k])]

-----------------------------------------------------------------------------
(* Writing.                                                                *)

(* A number in base Radix, up to four digits, the last one marked.         *)
vbyte_encode_M1(x) == <<Radix + (x % Radix)>>

vbyte_encode(x) ==
  LET high == x \div Radix
      higher == high \div Radix
      last == Radix + (x % Radix)
  IN IF x < Radix THEN <<last>>
     ELSE IF high < Radix THEN <<high, last>>
     ELSE IF higher < Radix THEN <<higher, high % Radix, last>>
     ELSE <<(higher \div Radix) % Radix, higher % Radix, high % Radix, last>>

common_prefix(a, b) ==
  Max({n \in 0..Len(a) : n <= Len(b) /\ \A k \in 1..n : a[k] = b[k]})

diff_rec(a, b) ==
  LET n == common_prefix(a, b)
  IN vbyte_encode(n) \o SubSeq(b, n + 1, Len(b)) \o <<0>>

(* One bin: the first string whole, then what each next one changes.       *)
compute_inner(strings) ==
  FlattenSeq([k \in DOMAIN strings |->
    IF k = 1 THEN Append(strings[1], 0) ELSE diff_rec(strings[k - 1], strings[k])])

BinCount(length) == (length + BinSize - 1) \div BinSize

(* How many strings bin b of the count has, b from 0.                      *)
BinLength(b, length) ==
  IF b < BinCount(length) - 1 \/ length % BinSize = 0 THEN BinSize ELSE length % BinSize

(* The dictionary of a list of strings.  The bits that fill up the last    *)
(* byte and word of a bin may decode to more bytes.                        *)
hfc_compress_sorted(strings, padding) ==
  [ length |-> Len(strings), padding |-> padding,
    bins |-> [b \in 1..BinCount(Len(strings)) |->
      compute_inner(SubSeq(strings, (b - 1) * BinSize + 1,
                           (b - 1) * BinSize + BinLength(b - 1, Len(strings)))) \o padding] ]

(* The same list in the older format, which nothing here writes any more.  *)
OlderFormat(strings, padding) ==
  LET hfc == hfc_compress_sorted(strings, padding)
      Header(b) == Append(strings[(b - 1) * BinSize + 1], 0)
  IN [hfc EXCEPT !.bins = [b \in DOMAIN @ |->
        [ header |-> Header(b),
          inner |-> SubSeq(@[b], Len(Header(b)) + 1, Len(@[b])) ]]]

-----------------------------------------------------------------------------
(* Reading: inner is [buff, c, current].                                   *)

(* A byte of current nothing has written.                                  *)
Unset == -1

Unread == [buff |-> <<>>, c |-> 0, current |-> [k \in 0..Size - 1 |-> Unset]]

(* Where the string that begins at c ends: at its 0.                       *)
StringEnd(buff, c) == SelectInSubSeq(buff, c, Len(buff), LAMBDA b : b = 0)

(* current after the bytes s and a 0 are written from position at on.  No  *)
(* writer looks where current ends: bytes behind it become part of it here *)
(* (they are what follows it in memory), which WithinCurrent rules out.    *)
Written(current, at, s) ==
  [k \in DOMAIN current \cup at..at + Len(s) |->
    IF k < at \/ k > at + Len(s) THEN current[k]
    ELSE IF k = at + Len(s) THEN 0 ELSE s[k - at + 1]]

(* The C string in current.                                                *)
CString(current) ==
  LET n == CHOOSE n \in DOMAIN current : current[n] = 0 /\ \A k \in 0..n - 1 : current[k] # 0
  IN [k \in 1..n |-> current[k - 1]]

vbyte_decode(buff, c) ==
  LET last == SelectInSubSeq(buff, c, Len(buff), LAMBDA b : b >= Radix)
      x[k \in c - 1..last - 1] == IF k < c THEN 0 ELSE (x[k - 1] + buff[k]) * Radix
  IN [x |-> x[last - 1] + (buff[last] % Radix), c |-> last + 1]

inner_init_M1(inner, buff) ==
  LET end == StringEnd(buff, 1)
  IN [buff |-> buff, c |-> end + 1,
      current |-> Written(inner.current, 0, SubSeq(buff, 1, end))]

inner_init(inner, buff) ==
  LET end == StringEnd(buff, 1)
  IN [buff |-> buff, c |-> end + 1,
      current |-> Written(inner.current, 0, SubSeq(buff, 1, end - 1))]

inner_next(inner) ==
  LET v == vbyte_decode(inner.buff, inner.c)
      end == StringEnd(inner.buff, v.c)
  IN [buff |-> inner.buff, c |-> end + 1,
      current |-> Written(inner.current, v.x, SubSeq(inner.buff, v.c, end - 1))]

(* Decode a bin, with the decoder that lowers every byte if asked to.      *)
uncompress_bin(hfc, bin, inner, ignore_case) ==
  LET buff == hfc.bins[bin + 1]
  IN inner_init(inner, IF ignore_case THEN Folded(buff) ELSE buff)

(* In the older format the inner strings start the buffer, and the header, *)
(* whose 0 was decoded with it and counts in its length, gets another      *)
(* behind it: it takes two bytes more than it has characters.              *)
htfc_inner_init(inner, buff, header) ==
  [buff |-> buff, c |-> 1, current |-> Written(inner.current, 0, header)]

htfc_uncompress_bin(dict, bin, inner, ignore_case) ==
  LET b == dict.bins[bin + 1]
  IN IF ignore_case THEN htfc_inner_init(inner, Folded(b.inner), Folded(b.header))
     ELSE htfc_inner_init(inner, b.inner, b.header)

-----------------------------------------------------------------------------
(* Iterating: iter is [i, inner, ret], ret whether hfc_iter_next last      *)
(* returned the address of current or NULL.  The zeros calloc leaves in    *)
(* current count as unset, too: no reader may rely on them.                *)
hfc_iter_init == [i |-> 0, inner |-> Unread, ret |-> "none"]

(* One more string; decoded is inner after the bin that begins here is.    *)
IterNext(dict, iter, decoded) ==
  IF iter.i < dict.length
  THEN [ i |-> iter.i + 1, ret |-> "current",
         inner |-> IF iter.i % BinSize = 0 THEN decoded ELSE inner_next(iter.inner) ]
  ELSE [i |-> iter.i, ret |-> "NULL", inner |-> iter.inner]

hfc_iter_next(hfc, iter) ==
  IterNext(hfc, iter, uncompress_bin(hfc, iter.i \div BinSize, iter.inner, FALSE))

htfc_iter_next(dict, iter) ==
  IterNext(dict, iter, htfc_uncompress_bin(dict, iter.i \div BinSize, iter.inner, FALSE))

-----------------------------------------------------------------------------
(* The lines of a text, as hfcz.c takes it apart: c is where the line      *)
(* begins that the loop is in.                                             *)
Lines_M1(text) ==
  LET state[k \in 0..Len(text)] ==
        IF k = 0 THEN [strs |-> <<>>, c |-> 1]
        ELSE IF text[k] # Newline \/ k = Len(text) THEN state[k - 1]
        ELSE [strs |-> Append(state[k - 1].strs, SubSeq(text, state[k - 1].c, k - 1)), c |-> k + 1]
  IN state[Len(text)].strs

Lines(text) ==
  LET state[k \in 0..Len(text)] ==
        IF k = 0 THEN [strs |-> <<>>, c |-> 1]
        ELSE IF text[k] # Newline THEN state[k - 1]
        ELSE [strs |-> Append(state[k - 1].strs, SubSeq(text, state[k - 1].c, k - 1)), c |-> k + 1]
  IN state[Len(text)].strs

-----------------------------------------------------------------------------
(* The order of strcmp, and the lists qsort leaves with it.                *)
Before(s, t) ==
  \/ IsPrefix(s, t)
  \/ \E k \in DOMAIN s \cap DOMAIN t :
       s[k] < t[k] /\ SubSeq(s, 1, k - 1) = SubSeq(t, 1, k - 1)

Sorted(ss) == \A k \in 1..Len(ss) - 1 : Before(ss[k], ss[k + 1])
=============================================================================
