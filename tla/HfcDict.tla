------------------------------- MODULE HfcDict -------------------------------
(***************************************************************************)
(* What the exported dictionary API of hfc.c promises its caller: one      *)
(* current dictionary, a sorted list of names, that is replaced, merged,   *)
(* filtered, searched and indexed.  Nothing here knows of bins, of caches  *)
(* or of memory.                                                           *)
(*                                                                         *)
(* A name is an integer: strcmp order is the integer order.  What a search *)
(* string and a search type accept is a set of names.  The module that     *)
(* implements this one states what it assumes of the constants.            *)
(***************************************************************************)
EXTENDS Integers, FiniteSets

CONSTANTS
  Name,    (* The strings a dictionary may hold.                      *)
  MaxLen,  (* Longest dictionary considered. Bounds the model.        *)
  NULL     (* Absent: no dictionary yet, no string returned.          *)

VARIABLES
  names,   (* The current dictionary, NULL before the first set.      *)
  found,   (* The indices the last search returned.                   *)
  ret,     (* The string the last call returned, NULL for other calls.*)
  asked    (* What the last call was asked: what to search or look up.*)

dictVars == <<names, found, ret, asked>>

(* Of the calls that replace the dictionary: what they did shows in names. *)
NoQuestion == <<"none", NULL>>

NameSeq == UNION {[1..n -> Name] : n \in 0..MaxLen}

IsSorted(s) == \A i, j \in DOMAIN s : i < j => s[i] <= s[j]

Dict == {s \in NameSeq : IsSorted(s)}

Occurs(s, x) == Cardinality({i \in DOMAIN s : s[i] = x})

(* d is s after qsort: the same strings, ascending.                        *)
IsSortOf(d, s) == \A x \in Name : Occurs(d, x) = Occurs(s, x)

(* d is the sorted union of a and b: a string held by both is kept once    *)
(* for each of its copies in the side that has more.                       *)
IsMergeOf(d, a, b) ==
  \A x \in Name :
    Occurs(d, x) = IF Occurs(a, x) >= Occurs(b, x) THEN Occurs(a, x) ELSE Occurs(b, x)

-----------------------------------------------------------------------------
Init == names = NULL /\ found = {} /\ ret = NULL /\ asked = NoQuestion

Set(d) == names' = d /\ ret' = NULL /\ asked' = NoQuestion /\ UNCHANGED found

Merge(d) ==
  /\ names # NULL
  /\ \E m \in Dict : IsMergeOf(m, names, d) /\ names' = m
  /\ ret' = NULL /\ asked' = NoQuestion
  /\ UNCHANGED found

(* Keep the listed entries. The list may repeat an index and need not be   *)
(* ordered.                                                                *)
Filter(list) ==
  /\ names # NULL
  /\ \E m \in Dict :
       /\ IsSortOf(m, [k \in DOMAIN list |-> names[list[k] + 1]])
       /\ names' = m
  /\ ret' = NULL /\ asked' = NoQuestion
  /\ UNCHANGED found

Search(accepted) ==
  /\ names # NULL
  /\ found' = {i - 1 : i \in {j \in DOMAIN names : names[j] \in accepted}}
  /\ ret' = NULL /\ asked' = <<"search", accepted>>
  /\ UNCHANGED names

Lookup(i) ==
  /\ names # NULL
  /\ i + 1 \in DOMAIN names
  /\ ret' = names[i + 1] /\ asked' = <<"lookup", i>>
  /\ UNCHANGED <<names, found>>

ClearCache == ret' = NULL /\ asked' = NoQuestion /\ UNCHANGED <<names, found>>

(* The index lists a caller may pass to hfc_filter for dictionary s.       *)
IndexList(s) == UNION {[1..n -> {i - 1 : i \in DOMAIN s}] : n \in 0..MaxLen}

Next ==
  \/ \E d \in Dict : Set(d) \/ Merge(d)
  \/ names # NULL /\ \E list \in IndexList(names) : Filter(list)
  \/ \E accepted \in SUBSET Name : Search(accepted)
  \/ names # NULL /\ \E i \in {j - 1 : j \in DOMAIN names} : Lookup(i)
  \/ ClearCache

Spec == Init /\ [][Next]_dictVars
=============================================================================
