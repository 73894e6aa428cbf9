------------------------------- MODULE Stats -------------------------------
(***************************************************************************)
(* fastats of stats.c: sort a column of floats in place, skip the NaNs,    *)
(* and read the statistics off by place.  fradixSort16InPlace moves the    *)
(* words as RadixSort's fradixSort16 moves the rows.                       *)
(*                                                                         *)
(* The arithmetic of floats is left out: a median or a percentile is the   *)
(* pair of words it lies between and its distance from the first, in       *)
(* hundredths; the mean and the deviation are the words they are taken of. *)
(***************************************************************************)
EXTENDS RadixSort

VARIABLES
  given,      (* History: the words fastats was called with last.           *)
  mm_result   (* What it found.                                             *)

statsVars == <<given, mm_result>>

Infinity == MinusInf - (Words \div 2)

isnan(w) == w % (Words \div 2) > Infinity

Percents == {1, 99, 5, 95, 10, 90, 25, 75, 33, 66}

-----------------------------------------------------------------------------
(* How many words there are before the first that is not NaN.              *)
first_val_M1(arr) == Cardinality({k \in DOMAIN arr : arr[k] = NaN})

first_val(arr) == Min({k \in DOMAIN arr : ~ isnan(arr[k])} \cup {Len(arr) + 1}) - 1

Between(low, high, part) == [low |-> low, high |-> high, part |-> part]

(* The percentile of a[1..n], which it reads the word after only if there  *)
(* is one.                                                                 *)
percentile(a, p) ==
  LET x == (Len(a) - 1) * p
      i == x \div 100
  IN Between(a[i + 1], IF i < Len(a) - 1 THEN a[i + 2] ELSE a[i + 1], x % 100)

NoNumbers ==
  [min |-> Infinity, max |-> MinusInf, median |-> NaN, mean |-> NaN,
   percentiles |-> [p \in Percents |-> NaN]]

(* The statistics of a sorted column of n words.                           *)
Statistics(sorted) ==
  LET f == first_val(sorted)
      n == Len(sorted)
      numbers == SubSeq(sorted, f + 1, n)
  IN IF n = f THEN NoNumbers
     ELSE [min |-> sorted[f + 1], max |-> sorted[n],
           median |-> Between(sorted[((f + n - 1) \div 2) + 1], sorted[((f + n) \div 2) + 1], 50),
           mean |-> numbers,
           percentiles |-> [p \in Percents |-> percentile(numbers, p)]]

(* A column of Rows words has been sorted by now; one of none is not.      *)
fastats ==
  /\ fn = "fradixSort16" /\ mm_result = <<>>
  /\ \/ /\ done
        /\ given' = vals[1]
        /\ mm_result' = Statistics([k \in 1..Rows |-> vals[1][buffer["caller"][k]]])
     \/ /\ byte = 0
        /\ given' = <<>>
        /\ mm_result' = Statistics(<<>>)
  /\ UNCHANGED vars

StatsInit == Init /\ given = <<>> /\ mm_result = <<>>

StatsNext == (Next /\ UNCHANGED statsVars) \/ fastats

-----------------------------------------------------------------------------
Numbers == {r \in DOMAIN given : ~ isnan(given[r])}

(* w is the k-th smallest number of the column, by counting.               *)
IsNth(k, w) ==
  /\ \E r \in Numbers : given[r] = w
  /\ Cardinality({r \in Numbers : Rank(given[r]) < Rank(w)}) < k
  /\ Cardinality({r \in Numbers : Rank(given[r]) <= Rank(w)}) >= k

(* s is the quantile p / 100 of the column: it lies (c - 1) * p / 100      *)
(* numbers above the lowest, c being how many there are.                   *)
IsQuantile(s, p) ==
  LET above == (Cardinality(Numbers) - 1) * p
      k == (above \div 100) + 1
  IN /\ IsNth(k, s.low)
     /\ s.part = above % 100 \/ s.high = s.low
     /\ IsNth(IF above % 100 = 0 THEN k ELSE k + 1, s.high) \/ s.part = 0

(* The statistics are the order statistics of the numbers in the column,   *)
(* whatever NaNs of either sign it has, also when it has only NaNs or no   *)
(* word at all.  Not if it has both minus infinity and the NaN that sorts  *)
(* equal to it: then a NaN may be left behind the first number.            *)
OrderStatistics ==
  mm_result # <<>> /\ ~ ({NaN, MinusInf} \subseteq Range(given)) =>
    IF Numbers = {} THEN mm_result = NoNumbers
    ELSE /\ IsNth(1, mm_result.min) /\ IsNth(Cardinality(Numbers), mm_result.max)
         /\ IsQuantile(mm_result.median, 50)
         /\ \A p \in Percents : IsQuantile(mm_result.percentiles[p], p)
         /\ Len(mm_result.mean) = Cardinality(Numbers)
         /\ \A k \in DOMAIN mm_result.mean : IsNth(k, mm_result.mean[k])
=============================================================================
