------------------------------ MODULE HfcReader ------------------------------
(***************************************************************************)
(* The readers of compressed dictionaries: hfc_search_method and           *)
(* htfc_search, which go through all bins of one and collect the indices   *)
(* of the strings that match; hfc_merge_two, which merges two of them      *)
(* through iterators; and decompress of hfcz.c and htfcz.c, which prints   *)
(* what an iterator returns, hfcz of the lines of a file it compressed.    *)
(* An iterator returns the address of a buffer its next call overwrites;   *)
(* ba and bb of the code are what the iterators returned last, so they are *)
(* not variables here.  One action is one turn of a loop.                  *)
(***************************************************************************)
EXTENDS FrontCoding

CONSTANTS
  Strings,      (* The strings there are, and those searched for.           *)
  MaxSearched,  (* The longest dictionary searched, and the longest that is *)
  MaxMerged,    (* merged or printed.  They bound the model.                *)
  Tails,        (* What may follow the last newline of a text.              *)
  Padding       (* What may follow a bin's strings: the bytes its fill bits *)
                (* decode to, and whatever memory holds after them.         *)

ASSUME ReaderAssumption ==
  /\ Strings \subseteq Chars /\ Tails \subseteq Seq(Char)
  /\ MaxSearched \in Nat /\ MaxMerged \in Nat
  /\ Padding \subseteq Seq(0..2 * Radix - 1)

VARIABLES
  format,   (* "hfc" or "htfc".                                             *)
  mode,     (* "merge", "contains", "exact" or "print".                     *)
  text,     (* The file that hfcz was given.                                *)
  query,    (* The substring of a search.                                   *)
  strings,  (* The lists that were compressed: "a", and "b" for a merge.    *)
  hfc,      (* The compressed dictionaries.                                 *)
  iter,     (* Their iterators.  In a search, a's i is the bin.             *)
  j,        (* In a search, the next string of the bin.                     *)
  out,      (* The strings merged, or the indices found.                    *)
  done      (* Has the function returned?                                   *)

vars == <<format, mode, text, query, strings, hfc, iter, j, out, done>>

-----------------------------------------------------------------------------
(* Searching.                                                              *)

ignore_case == mode = "contains"

(* contains and exact: strstr and strcmp.                                  *)
cmp(s, t) ==
  IF mode = "exact" THEN s = t
  ELSE \E k \in 0..Len(s) - Len(t) : SubSeq(s, k + 1, k + Len(t)) = t

(* The index hfc_search_method stops at in bin b, and the one htfc_search  *)
(* does; both begin with the header, whatever it is.                       *)
hfc_Visits_M1(b) ==
  IF b < BinCount(hfc["a"].length) - 1 THEN BinSize ELSE hfc["a"].length % BinSize

hfc_Visits_M2(b) == BinSize

hfc_Visits(b) ==
  IF b < BinCount(hfc["a"].length) - 1 \/ hfc["a"].length % BinSize = 0 THEN BinSize
  ELSE hfc["a"].length % BinSize

htfc_Visits(b) ==
  IF b < BinCount(hfc["a"].length) - 1 THEN BinSize ELSE hfc["a"].length % BinSize

Visits(b) == IF format = "htfc" THEN htfc_Visits(b) ELSE hfc_Visits(b)

Searching == mode \in {"contains", "exact"} /\ ~ done

BinsLeft == Searching /\ iter["a"].i < BinCount(hfc["a"].length)

(* Compare the string in inner, and go on to the next of the bin or to the *)
(* next bin.                                                               *)
Compare(inner) ==
  LET bin == iter["a"].i
      last == j + 1 >= Visits(bin)
  IN
  /\ iter' = [iter EXCEPT !["a"] = [ i |-> IF last THEN bin + 1 ELSE bin, inner |-> inner,
                                      ret |-> @.ret ]]
  /\ out' = IF cmp(CString(iter'["a"].inner.current), query)
            THEN Append(out, bin * BinSize + j) ELSE out
  /\ j' = IF last THEN 0 ELSE j + 1
  /\ UNCHANGED <<format, mode, text, query, strings, hfc, done>>

SearchHeader ==
  /\ BinsLeft /\ j = 0
  /\ LET bin == iter["a"].i
         inner == iter["a"].inner
     IN Compare(IF format = "htfc" THEN htfc_uncompress_bin(hfc["a"], bin, inner, ignore_case)
                ELSE uncompress_bin(hfc["a"], bin, inner, ignore_case))

SearchInner ==
  /\ BinsLeft /\ j > 0
  /\ Compare(inner_next(iter["a"].inner))

SearchDone ==
  /\ Searching /\ iter["a"].i = BinCount(hfc["a"].length)
  /\ done' = TRUE
  /\ UNCHANGED <<format, mode, text, query, strings, hfc, iter, j, out>>

-----------------------------------------------------------------------------
(* Merging.                                                                *)

ba == CString(iter["a"].inner.current)
bb == CString(iter["b"].inner.current)

(* The iterators after a call of hfc_iter_next for each in S.              *)
Moved(S) == [x \in DOMAIN iter |->
  IF x \notin S THEN iter[x]
  ELSE IF format = "htfc" THEN htfc_iter_next(hfc[x], iter[x])
  ELSE hfc_iter_next(hfc[x], iter[x])]

Merging(S) == mode = "merge" /\ ~ done /\ {x \in DOMAIN iter : iter[x].ret = "current"} = S

(* The two calls before the loop.                                          *)
Start ==
  /\ mode = "merge" /\ iter["a"].ret = "none"
  /\ iter' = Moved({"a", "b"})
  /\ UNCHANGED <<format, mode, text, query, strings, hfc, j, out, done>>

(* The three outcomes of strcmp.                                           *)
MergeBoth_M1 == Merging({"a", "b"}) /\ ba = bb /\ UNCHANGED vars

MergeBoth_M2 ==
  /\ Merging({"a", "b"}) /\ ba = bb
  /\ out' = Append(out, ba) /\ iter' = Moved({"a"})
  /\ UNCHANGED <<format, mode, text, query, strings, hfc, j, done>>

MergeBoth ==
  /\ Merging({"a", "b"}) /\ ba = bb
  /\ out' = Append(out, ba) /\ iter' = Moved({"a", "b"})
  /\ UNCHANGED <<format, mode, text, query, strings, hfc, j, done>>

MergeA_M1 ==
  /\ Merging({"a", "b"}) /\ ba # bb /\ Before(ba, bb)
  /\ iter' = Moved({"a"}) /\ out' = Append(out, CString(iter'["a"].inner.current))
  /\ UNCHANGED <<format, mode, text, query, strings, hfc, j, done>>

MergeA ==
  /\ Merging({"a", "b"}) /\ ba # bb /\ Before(ba, bb)
  /\ out' = Append(out, ba) /\ iter' = Moved({"a"})
  /\ UNCHANGED <<format, mode, text, query, strings, hfc, j, done>>

MergeB ==
  /\ Merging({"a", "b"}) /\ ~ Before(ba, bb)
  /\ out' = Append(out, bb) /\ iter' = Moved({"b"})
  /\ UNCHANGED <<format, mode, text, query, strings, hfc, j, done>>

(* The loops after it: one of the lists is at its end.                     *)
Drain ==
  /\ \/ Merging({"a"}) /\ out' = Append(out, ba) /\ iter' = Moved({"a"})
     \/ Merging({"b"}) /\ out' = Append(out, bb) /\ iter' = Moved({"b"})
  /\ UNCHANGED <<format, mode, text, query, strings, hfc, j, done>>

(* Both are: out is compressed, and the iterators are freed.               *)
MergeDone ==
  /\ Merging({}) /\ iter["a"].ret = "NULL"
  /\ done' = TRUE
  /\ UNCHANGED <<format, mode, text, query, strings, hfc, iter, j, out>>

-----------------------------------------------------------------------------
(* Printing: a call before the loop, and one after each line.              *)
PrintFirst ==
  /\ mode = "print" /\ iter["a"].ret = "none"
  /\ iter' = Moved({"a"})
  /\ UNCHANGED <<format, mode, text, query, strings, hfc, j, out, done>>

PrintLine ==
  /\ mode = "print" /\ iter["a"].ret = "current"
  /\ out' = Append(out, ba)
  /\ iter' = Moved({"a"})
  /\ UNCHANGED <<format, mode, text, query, strings, hfc, j, done>>

PrintDone ==
  /\ mode = "print" /\ iter["a"].ret = "NULL" /\ ~ done
  /\ done' = TRUE
  /\ UNCHANGED <<format, mode, text, query, strings, hfc, iter, j, out>>

-----------------------------------------------------------------------------
Dictionaries(n) == {ss \in UNION {[1..k -> Strings] : k \in 0..n} : Sorted(ss)}

TextOf(ss, tail) == FlattenSeq([k \in DOMAIN ss |-> Append(ss[k], Newline)]) \o tail

Texts ==
  {TextOf(ss, tail) : ss \in UNION {[1..k -> Strings] : k \in 0..MaxMerged}, tail \in Tails}

Occurs(s, ss) == Cardinality({k \in DOMAIN ss : ss[k] = s})

(* What hfc_compress makes of lines: qsort with cmpstr.                    *)
Compressed(lines) ==
  {ss \in [DOMAIN lines -> Range(lines)] :
     Sorted(ss) /\ \A s \in Range(lines) : Occurs(s, ss) = Occurs(s, lines)}

(* The first strings of the bins fit in current with two zeros.            *)
HeadersFit(ss) == \A b \in 0..BinCount(Len(ss)) - 1 : Len(ss[b * BinSize + 1]) + 1 < Size

(* hfc_search and htfc_search_store lower the substring of a CONTAINS      *)
(* search.  htfc_search is not given a dictionary without strings: it      *)
(* decodes a bin without a test whether there is one.  Nor is any reader   *)
(* of the older format given a header that htfc_inner_init would write     *)
(* past current: one of Size - 1 characters, which hfc.c has room for.     *)
Init ==
  /\ \/ /\ mode \in {"contains", "exact"} /\ format \in {"hfc", "htfc"}
        /\ \E s \in Strings : query = IF mode = "contains" THEN Folded(s) ELSE s
        /\ strings \in [{"a"} -> Dictionaries(MaxSearched)]
        /\ format = "htfc" => strings["a"] # <<>>
        /\ text = <<>>
     \/ /\ mode = "merge" /\ format = "hfc" /\ query = <<>> /\ text = <<>>
        /\ strings \in [{"a", "b"} -> Dictionaries(MaxMerged)]
     \/ /\ mode = "print" /\ format \in {"hfc", "htfc"} /\ query = <<>>
        /\ text \in Texts
        /\ strings \in [{"a"} -> Compressed(Lines(text))]
  /\ format = "htfc" => HeadersFit(strings["a"])
  /\ \E padding \in Padding :
       hfc = [x \in DOMAIN strings |->
               IF format = "htfc" THEN OlderFormat(strings[x], padding)
               ELSE hfc_compress_sorted(strings[x], padding)]
  /\ iter = [x \in DOMAIN strings |-> hfc_iter_init]
  /\ j = 0 /\ out = <<>> /\ done = FALSE

Next ==
  \/ SearchHeader \/ SearchInner \/ SearchDone
  \/ Start \/ MergeBoth \/ MergeA \/ MergeB \/ Drain \/ MergeDone
  \/ PrintFirst \/ PrintLine \/ PrintDone

(* One thread runs the function to its end.                                *)
Spec == Init /\ [][Next]_vars /\ WF_vars(Next)

-----------------------------------------------------------------------------
(* How many strings a search looks at: htfc_search leaves out those behind *)
(* the header of a full last bin.                                          *)
Searched ==
  IF format = "htfc" /\ hfc["a"].length % BinSize = 0 THEN hfc["a"].length - BinSize + 1
  ELSE hfc["a"].length

(* How many strings of x have been read.                                   *)
Position(x) ==
  IF mode \in {"merge", "print"} THEN iter[x].i ELSE Min({iter[x].i * BinSize + j, Searched})

(* Each string comes back as it went in, or lowered if case is ignored,    *)
(* from the shared prefix that is left in current and the bytes of the     *)
(* record: no byte of an earlier, longer string shows, none is unset.      *)
ReadsBack ==
  \A x \in DOMAIN iter : iter[x].inner.c > 0 =>
    LET s == strings[x][Position(x)]
    IN CString(iter[x].inner.current) = IF ignore_case THEN Folded(s) ELSE s

(* No reader writes past the end of current, in which strings are put      *)
(* together at a shared prefix, a rest and a 0 (two for an older header)   *)
(* without a look at its size: the XXX at hfc.c:170 and htfc.c:41.         *)
WithinCurrent == \A x \in DOMAIN iter : DOMAIN iter[x].inner.current = 0..Size - 1

(* No read leaves the strings of the bin: padding is never decoded as a    *)
(* record, whatever the number of strings in the last bin.                 *)
StaysInBin ==
  \A x \in DOMAIN iter :
    LET inner == iter[x].inner
    IN inner.c > 0 => inner.c <= Len(inner.buff) - Len(hfc[x].padding) + 1

(* A finished search has found each string that matches and no other, in   *)
(* ascending order; case makes no difference to a CONTAINS search.         *)
Matches(s) == cmp(IF ignore_case THEN Folded(s) ELSE s, query)

FindsAll ==
  done /\ mode \in {"contains", "exact"} =>
    /\ \A k, n \in DOMAIN out : k < n => out[k] < out[n]
    /\ Range(out) = {k \in 0..Searched - 1 : Matches(strings["a"][k + 1])}

(* What is merged is ascending at every turn, and the strings still to     *)
(* come are not before its last: the qsort of hfc_compress has nothing to  *)
(* do.                                                                     *)
StaysSorted ==
  mode = "merge" =>
    /\ Sorted(out)
    /\ out # <<>> => \A x \in DOMAIN iter :
         iter[x].ret = "current" => Before(Last(out), CString(iter[x].inner.current))

(* A finished merge holds each string as often as the list that has it     *)
(* more often: nothing is lost, and nothing common to both is doubled.     *)
IsUnion ==
  done /\ mode = "merge" => \A s \in Strings \cup Range(out) :
    Occurs(s, out) = Max({Occurs(s, strings["a"]), Occurs(s, strings["b"])})

(* The lines of a text: from its start, or from behind a newline, up to    *)
(* the next or to the end.                                                 *)
LineStarts == {k \in DOMAIN text : k = 1 \/ text[k - 1] = Newline}
LineFrom(k) ==
  SubSeq(text, k, Min({n \in k - 1..Len(text) : n = Len(text) \/ text[n + 1] = Newline}))

(* What hfcz -u prints of what hfcz made of a text are its lines, in       *)
(* order: a last line without a newline too, says the comment at           *)
(* hfcz.c:44.                                                              *)
PrintsLines ==
  done /\ mode = "print" =>
    /\ Sorted(out)
    /\ \A s \in Range(out) \cup {LineFrom(k) : k \in LineStarts} :
         Occurs(s, out) = Cardinality({k \in LineStarts : LineFrom(k) = s})

(* Searches, merges and prints come to an end, of empty dictionaries too   *)
(* (the comment at hfc.c:364 excludes them).                               *)
Terminates == <>done
=============================================================================
