----------------------------- MODULE HfcSession -----------------------------
(***************************************************************************)
(* The exported dictionary API of hfc.c: the static variables of one wasm  *)
(* instance (hfc.c:406-409), the heap blocks they own, and one action per  *)
(* exported call.  The calls are made one at a time by a single-threaded   *)
(* JavaScript client, so each call is one step.                            *)
(*                                                                         *)
(* A heap block stands for one compressed buffer with the struct hfc over  *)
(* it ("dict"), the array of strdup'ed strings of one bin ("array"), or    *)
(* the indices of a search ("matches").  What uncompress_bin decodes is    *)
(* the bin's strings: the codec is modelled in modules of its own.         *)
(***************************************************************************)
EXTENDS Integers, FiniteSets, Sequences

CONSTANTS
  Name,     (* The strings a dictionary may hold, as integers.            *)
  MaxLen,   (* Longest dictionary considered. Bounds the model.           *)
  NULL,
  BinSize,  (* Strings per bin, BINSIZE (256) in hfc.c.                   *)
  Addr      (* Heap addresses. Bounds the blocks alive at once.           *)

VARIABLES
  heap,         (* What each address holds.                               *)
  hfc_cache,    (* The current dictionary's block, or NULL.               *)
  matches,      (* hfc_cache_result.matches.                              *)
  inner_cache,  (* The decoded bin, or NULL.                              *)
  inner_bin,    (* The index of the decoded bin, or -1.                   *)
  upload,       (* A buffer the client filled and has not handed over.    *)
  ret,          (* The string hfc_lookup returned, NULL for other calls.  *)
  asked,        (* History: what a search or a lookup was asked, for HfcDict.*)
  badFrees      (* Addresses some call freed when they were not allocated.*)

vars == <<heap, hfc_cache, matches, inner_cache, inner_bin, upload, ret, asked, badFrees>>

(* What the client sees of the state: the refinement mapping.              *)
names == IF hfc_cache = NULL THEN NULL ELSE heap[hfc_cache].data

Elements(s) == {s[k] : k \in DOMAIN s}

found == IF matches = NULL THEN {} ELSE Elements(heap[matches].data)

D == INSTANCE HfcDict

ASSUME SessionAssumption ==
  /\ Name \subseteq Int
  /\ MaxLen \in Nat
  /\ BinSize \in Nat \ {0}
  /\ NULL \notin Name \cup Addr \cup D!NameSeq

-----------------------------------------------------------------------------
(* The heap.                                                               *)

Free == [kind |-> "free", data |-> <<>>]

Live(a) == heap[a].kind # "free"

(* free() the pointers of ptrs in turn, passing over those that are NULL,  *)
(* and let block be malloc'ed at address a: either before the frees, at an *)
(* address that is not in use, or after them, when it may be an address    *)
(* just freed.  With a = NULL nothing is malloc'ed.                        *)
FreeAndStore(ptrs, a, block) ==
  /\ badFrees' = badFrees \cup
       {x \in Addr : \E j \in DOMAIN ptrs :
          ptrs[j] = x /\ (~ Live(x) \/ \E k \in DOMAIN ptrs \ {j} : ptrs[k] = x)}
  /\ heap' = [x \in Addr |->
                IF x = a THEN block
                ELSE IF \E j \in DOMAIN ptrs : ptrs[j] = x THEN Free
                ELSE heap[x]]

-----------------------------------------------------------------------------
(* The shape of a dictionary d: bins of BinSize strings, the last of them  *)
(* shorter when BinSize does not divide the length.                        *)

BinCount(d) == (Len(d) + BinSize - 1) \div BinSize

BinLen(d, bin) ==
  IF Len(d) % BinSize # 0 /\ bin = BinCount(d) - 1 THEN Len(d) % BinSize ELSE BinSize

uncompress_bin(d, bin) == [j \in 1..BinLen(d, bin) |-> d[bin * BinSize + j]]

(* hfc_search_method: every bin but the last in full, then the last.       *)
ScanLen_M1(d, bin) == IF bin = BinCount(d) - 1 THEN Len(d) % BinSize ELSE BinSize

ScanLen(d, bin) ==
  IF bin < BinCount(d) - 1 THEN BinSize
  ELSE IF Len(d) % BinSize # 0 THEN Len(d) % BinSize ELSE BinSize

Hits(d, accepted) ==
  UNION {{bin * BinSize + j : j \in
            {k \in 0..ScanLen(d, bin) - 1 : uncompress_bin(d, bin)[k + 1] \in accepted}}
         : bin \in 0..BinCount(d) - 1}

(* m lists the members of the finite set of integers S in ascending order. *)
Lists(m, S) ==
  /\ Elements(m) = S
  /\ \A i, j \in DOMAIN m : i < j => m[i] < m[j]

-----------------------------------------------------------------------------
(* hfc_clear_cache drops the decoded bin.                                  *)
DropBin_M1 == inner_cache' = inner_cache /\ inner_bin' = -1

DropBin == inner_cache' = NULL /\ inner_bin' = -1

(* hfc_set_internal: free the old dictionary, then the decoded bin.        *)
(* other is a block the caller frees after it, or NULL.                    *)
SetInternal_M1(a, d, other) ==
  /\ FreeAndStore(<<hfc_cache, other>>, a, [kind |-> "dict", data |-> d])
  /\ hfc_cache' = a
  /\ UNCHANGED <<inner_cache, inner_bin, matches>>
  /\ ret' = NULL

SetInternal(a, d, other) ==
  /\ FreeAndStore(<<hfc_cache, inner_cache, other>>, a, [kind |-> "dict", data |-> d])
  /\ hfc_cache' = a
  /\ DropBin
  /\ UNCHANGED matches
  /\ ret' = NULL

(* The client mallocs a buffer and writes a compressed dictionary into it. *)
Upload(a, d) ==
  /\ upload = NULL
  /\ ~ Live(a)
  /\ FreeAndStore(<<>>, a, [kind |-> "dict", data |-> d])
  /\ upload' = a
  /\ ret' = NULL /\ asked' = D!NoQuestion
  /\ UNCHANGED <<hfc_cache, matches, inner_cache, inner_bin>>

(* The buffer now belongs to the dictionary.                               *)
hfc_set ==
  /\ upload # NULL
  /\ SetInternal(upload, heap[upload].data, NULL)
  /\ upload' = NULL /\ asked' = D!NoQuestion

hfc_set_empty(a) ==
  /\ ~ Live(a)
  /\ SetInternal(a, <<>>, NULL)
  /\ asked' = D!NoQuestion
  /\ UNCHANGED upload

(* The merged dictionary replaces the current one, then the input is freed.*)
hfc_merge_M1(a) ==
  /\ hfc_cache # NULL /\ upload # NULL
  /\ ~ Live(a)
  /\ \E d \in D!Dict :
       /\ D!IsMergeOf(d, heap[hfc_cache].data, heap[upload].data)
       /\ SetInternal(a, d, NULL)
  /\ upload' = NULL /\ asked' = D!NoQuestion

hfc_merge(a) ==
  /\ hfc_cache # NULL /\ upload # NULL
  /\ ~ Live(a)
  /\ \E d \in D!Dict :
       /\ D!IsMergeOf(d, heap[hfc_cache].data, heap[upload].data)
       /\ SetInternal(a, d, upload)
  /\ upload' = NULL /\ asked' = D!NoQuestion

(* The strings hfc_filter copies out, one hfc_lookup each: from the        *)
(* decoded bin until the first index outside it evicts that bin.           *)
StaysInBin(list, k) == \A j \in 1..k : list[j] \div BinSize = inner_bin

Picked(list) ==
  [k \in DOMAIN list |->
    IF StaysInBin(list, k)
    THEN heap[inner_cache].data[(list[k] % BinSize) + 1]
    ELSE uncompress_bin(heap[hfc_cache].data, list[k] \div BinSize)[(list[k] % BinSize) + 1]]

hfc_filter(a, list) ==
  /\ hfc_cache # NULL
  /\ ~ Live(a) \/ (a = inner_cache /\ ~ StaysInBin(list, Len(list)))
  /\ \E d \in D!Dict : D!IsSortOf(d, Picked(list)) /\ SetInternal(a, d, NULL)
  /\ asked' = D!NoQuestion
  /\ UNCHANGED upload

(* An empty result has no array: baos_to_array returns NULL.               *)
hfc_search(a, accepted) ==
  /\ hfc_cache # NULL
  /\ ~ Live(a) \/ a = matches
  /\ LET hits == Hits(heap[hfc_cache].data, accepted)
     IN IF hits = {}
        THEN /\ FreeAndStore(<<matches>>, NULL, Free)
             /\ matches' = NULL
        ELSE \E m \in [1..Cardinality(hits) -> hits] :
               /\ Lists(m, hits)
               /\ FreeAndStore(<<matches>>, a, [kind |-> "matches", data |-> m])
               /\ matches' = a
  /\ ret' = NULL /\ asked' = <<"search", accepted>>
  /\ UNCHANGED <<hfc_cache, inner_cache, inner_bin, upload>>

(* Decode the bin of entry i unless it is the one already decoded.         *)
hfc_lookup_M1(a, i) ==
  /\ hfc_cache # NULL
  /\ i \in 0..Len(heap[hfc_cache].data) - 1
  /\ ~ Live(a) \/ a = inner_cache
  /\ LET strings == uncompress_bin(heap[hfc_cache].data, i \div BinSize)
     IN /\ FreeAndStore(<<inner_cache>>, a, [kind |-> "array", data |-> strings])
        /\ ret' = strings[(i % BinSize) + 1]
  /\ inner_cache' = a
  /\ inner_bin' = i \div BinSize
  /\ asked' = <<"lookup", i>>
  /\ UNCHANGED <<hfc_cache, matches, upload>>

hfc_lookup(a, i) ==
  /\ hfc_cache # NULL
  /\ i \in 0..Len(heap[hfc_cache].data) - 1
  /\ \/ /\ i \div BinSize # inner_bin
        /\ ~ Live(a) \/ a = inner_cache
        /\ LET strings == uncompress_bin(heap[hfc_cache].data, i \div BinSize)
           IN /\ FreeAndStore(<<inner_cache>>, a, [kind |-> "array", data |-> strings])
              /\ ret' = strings[(i % BinSize) + 1]
        /\ inner_cache' = a
        /\ inner_bin' = i \div BinSize
     \/ /\ i \div BinSize = inner_bin
        /\ ret' = heap[inner_cache].data[(i % BinSize) + 1]
        /\ UNCHANGED <<heap, inner_cache, inner_bin, badFrees>>
  /\ asked' = <<"lookup", i>>
  /\ UNCHANGED <<hfc_cache, matches, upload>>

hfc_clear_cache ==
  /\ FreeAndStore(<<inner_cache>>, NULL, Free)
  /\ DropBin
  /\ ret' = NULL /\ asked' = D!NoQuestion
  /\ UNCHANGED <<hfc_cache, matches, upload>>

-----------------------------------------------------------------------------
Init ==
  /\ heap = [a \in Addr |-> Free]
  /\ hfc_cache = NULL
  /\ matches = NULL
  /\ inner_cache = NULL
  /\ inner_bin = -1
  /\ upload = NULL
  /\ ret = NULL
  /\ asked = D!NoQuestion
  /\ badFrees = {}

Next ==
  \/ \E a \in Addr, d \in D!Dict : Upload(a, d)
  \/ hfc_set
  \/ \E a \in Addr : hfc_set_empty(a)
  \/ \E a \in Addr : hfc_merge(a)
  \/ /\ hfc_cache # NULL
     /\ \E a \in Addr, list \in D!IndexList(heap[hfc_cache].data) : hfc_filter(a, list)
  \/ \E a \in Addr, accepted \in SUBSET Name : hfc_search(a, accepted)
  \/ \E a \in Addr, i \in 0..MaxLen - 1 : hfc_lookup(a, i)
  \/ hfc_clear_cache

Spec == Init /\ [][Next]_vars

-----------------------------------------------------------------------------
Block ==
  {Free} \cup [kind : {"dict"}, data : D!Dict]
         \cup [kind : {"array"}, data : Seq(Name)]
         \cup [kind : {"matches"}, data : Seq(0..MaxLen - 1)]

(* The variables have their types; a search result holds 0-based indices   *)
(* that some dictionary can have (hfc_search_method pushes i * bin_size +  *)
(* j, hfc.c:288).                                                          *)
TypeOK ==
  /\ heap \in [Addr -> Block]
  /\ {hfc_cache, matches, inner_cache, upload} \subseteq Addr \cup {NULL}
  /\ inner_bin \in Int
  /\ ret \in Name \cup {NULL}
  /\ badFrees \subseteq Addr

(* No call frees a block twice or frees one it does not own, whatever the  *)
(* order of the calls (hfc_set_internal, hfc_merge, hfc_search,            *)
(* hfc_lookup and hfc_clear_cache all free).                               *)
EachBlockFreedOnce == badFrees = {}

(* Between calls exactly the blocks the statics and the client point to    *)
(* are allocated, each of the kind its pointer means: nothing leaks and    *)
(* nothing is shared.                                                      *)
NoLeak ==
  /\ hfc_cache # NULL => hfc_cache # upload
  /\ \A a \in Addr :
       /\ heap[a].kind = "dict"    <=> a \in {hfc_cache, upload}
       /\ heap[a].kind = "matches" <=> a = matches
       /\ heap[a].kind = "array"   <=> a = inner_cache

(* The decoded bin is always a bin of the current dictionary, the one its  *)
(* index says: set, merge and filter leave no stale bin behind.            *)
InnerCoherent ==
  /\ inner_bin = -1 <=> inner_cache = NULL
  /\ inner_cache # NULL =>
       /\ hfc_cache # NULL
       /\ inner_bin \in 0..BinCount(heap[hfc_cache].data) - 1
       /\ heap[inner_cache].data = uncompress_bin(heap[hfc_cache].data, inner_bin)

(* The char* that hfc_lookup hands out stays valid while neither the       *)
(* dictionary nor the decoded bin changes: searches and lookups in the     *)
(* same bin move nothing.                                                  *)
StringsOutlive ==
  [][ /\ inner_cache # NULL
      /\ hfc_cache' = hfc_cache
      /\ inner_bin' = inner_bin
      => /\ inner_cache' = inner_cache
         /\ heap'[inner_cache] = heap[inner_cache] ]_vars

(* The API is the dictionary of HfcDict: bins, cache and memory show in no *)
(* answer, and a search result stays readable until the next search.       *)
ImplementsDict == D!Spec
=============================================================================
