------------------------------ MODULE HtfcFile ------------------------------
(***************************************************************************)
(* The files of htfc.c, the older format, next to those of HfcFile: the    *)
(* first string of each bin, its header, is packed by itself with a        *)
(* Hu-Tucker code, which the file lists code by code, and is decoded with  *)
(* a tree; the other strings of the bin follow in HfcFile's code.  These   *)
(* files are only read: what wrote them is not part of the library.        *)
(***************************************************************************)
EXTENDS HfcFile

CONSTANTS
  NULL,
  HeaderCodes,  (* The lengths of the codes for headers, symbol by symbol.  *)
  Headers,      (* The first strings of bins, their end (symbol 1) left out.*)
  MaxOlder      (* How many bytes the rest of the bins has.  Bounds the model.*)

INSTANCE CodeTree

VARIABLE headers  (* The headers of the bins of an older file.              *)

-----------------------------------------------------------------------------
(* The file, as its reader expects it.                                     *)

(* Codes of the given lengths in the order of the symbols: each is the one *)
(* before plus 1, with zeros added or taken from its end.                  *)
HuTucker(ls) ==
  LET code[s \in DOMAIN ls] ==
        IF s = 1 THEN 0
        ELSE LET next == code[s - 1] + 1
             IN IF ls[s] >= ls[s - 1] THEN next * 2^(ls[s] - ls[s - 1])
                ELSE next \div 2^(ls[s - 1] - ls[s])
  IN [s \in DOMAIN ls |-> [length |-> ls[s], code |-> code[s]]]

(* What makes codes of the lengths, and what the reader relies on: they    *)
(* fit a word, and none begins with another.                               *)
ASSUME OlderAssumption ==
  /\ \A ls \in HeaderCodes :
       /\ ls \in Seq(Nat) /\ ls # <<>>
       /\ HuTucker(ls) \in Seq([length : 1..WordBits - ByteBits, code : Nat])
       /\ IsPrefixCode(HuTucker(ls))
  /\ Headers \subseteq Seq(Nat)
  /\ NULL \notin {"header"} \X Nat \X {0}

EndOfString == <<"header", 1, 0>>

(* The codes with their lengths, and the symbols up to a whole word.       *)
HuTuckerDict(dict) ==
  LET n == Len(dict)
  IN Words(<<n>> \o FlattenSeq([s \in 1..n |-> <<dict[s].code, dict[s].length>>]))
       \o [s \in 1..n |-> <<"header", s, 0>>] \o Fill(4 * ((n + 3) \div 4) - n)

Encoded(dict, symbols8) ==
  LET state[n \in 0..Len(symbols8)] ==
        IF n = 0 THEN Idle ELSE Packed(state[n - 1], dict[symbols8[n]])
  IN Flushed(state[Len(symbols8)])

OlderFile(dict) ==
  LET packed == [b \in 1..bin_count |->
        Encoded(dict, Append(headers[b], 1)) \o Encoded(Dict(lens), bins[b])]
  IN Words(<<count, BINSIZE>>) \o HuTuckerDict(dict) \o huffman_serialize
       \o Words(<<bin_count>>)
       \o Words([b \in 1..bin_count |-> Sums([a \in 1..bin_count |-> Len(packed[a])])[b - 1]])
       \o FlattenSeq(packed)

-----------------------------------------------------------------------------
(* Its reader.                                                             *)

ht_dict_len(offset) == 1 + 2 * Buff32(offset) + ((Buff32(offset) + 3) \div 4)

(* The tree of the codes listed from byte offset8 on.                      *)
huffman_ht_tree(offset8) ==
  LET offset32 == offset8 \div 4
      len == Buff32(offset32)
      tree[n \in 0..len] ==
        IF n = 0 THEN huffman_new
        ELSE Inserted(tree[n - 1], Buff32(offset32 + 2 * n - 1), Buff32(offset32 + 2 * n),
                      out[offset8 + 4 * (1 + 2 * len) + n])
  IN tree[len]

(* A turn of huffman_decode_to's loop: nothing more once a string has      *)
(* ended.                                                                  *)
ReadBit(tree, state, bit) ==
  LET step == Step(tree, state.node, bit)
  IN IF state.pushed # <<>> /\ Last(state.pushed) = EndOfString THEN state
     ELSE [ node |-> step.node, bits |-> state.bits + 1,
            pushed |-> IF step.pushed = NULL THEN state.pushed
                       ELSE Append(state.pushed, step.pushed) ]

ReadTo(tree, bits) ==
  LET state[n \in 0..Len(bits)] ==
        IF n = 0 THEN [node |-> <<>>, bits |-> 0, pushed |-> <<>>]
        ELSE ReadBit(tree, state[n - 1], bits[n])
  IN state[Len(bits)]

(* Decode from byte start on to the end of a string: the symbols, and the  *)
(* byte after the one in which that is, its other bits dropped.            *)
huffman_decode_to_M1(tree, start) ==
  LET end == ReadTo(tree, FlattenSeq(SubSeq(out, start + 1, Len(out))))
  IN [pushed |-> end.pushed, next |-> start + (end.bits \div ByteBits)]

huffman_decode_to(tree, start) ==
  LET end == ReadTo(tree, FlattenSeq(SubSeq(out, start + 1, Len(out))))
  IN [pushed |-> end.pushed, next |-> start + ((end.bits + ByteBits - 1) \div ByteBits)]

htfc_init ==
  /\ phase = "older" /\ hfc = <<>>
  /\ LET bin_dict == 2 + ht_dict_len(2)
         bin_count_offset == bin_dict + huff_dict_len(bin_dict)
         bits == Buff32(bin_dict)
         ls == [b \in 1..bits |-> Buff32(bin_dict + b)]
         symbols == 4 * (bin_dict + 1 + bits)
     IN hfc' = [ length |-> Buff32(0), bin_size |-> Buff32(1),
                 bin_offsets |-> bin_count_offset + 1, bin_count |-> Buff32(bin_count_offset),
                 first_bin |-> bin_count_offset + Buff32(bin_count_offset) + 1,
                 lens |-> ls, symbols |-> SubSeq(out, symbols + 1, symbols + Sum(ls)),
                 header_huff |-> huffman_ht_tree(8) ]
  /\ UNCHANGED <<lens, bins, count, packer, k, inner_bins, offsets, out, phase, i, headers>>

(* uncompress_bin: the header, then the rest of the bin from the next byte.*)
Header(b) == huffman_decode_to(hfc.header_huff, Start(b))

htfc_uncompress_bin(b) ==
  huffman_canonical_decode(Dict(hfc.lens), SubSeq(out, Header(b).next + 1, Upper(b)))

-----------------------------------------------------------------------------
(* The headers use what symbols their code has.  (A bin with a header only *)
(* has no other strings.)                                                  *)
OlderInit ==
  LET Inner == UNION {[1..n -> 1..Sum(lens)] : n \in 0..MaxOlder} IN
  /\ lens \in Codes \ {<<>>}
  /\ count \in 1..MaxBins * BINSIZE
  /\ bins \in {bs \in [1..bin_count -> Inner] : Sum([b \in 1..bin_count |-> Len(bs[b])]) <= MaxOlder}
  /\ \E ls \in HeaderCodes :
       /\ headers \in [1..bin_count -> {h \in Headers : Range(h) \subseteq 2..Len(ls)}]
       /\ out = OlderFile(HuTucker(ls))
  /\ packer = Idle /\ k = 1
  /\ inner_bins = <<>> /\ offsets = <<>> /\ phase = "older" /\ i = 1 /\ hfc = <<>>

FileInit == (Init /\ headers = <<>>) \/ OlderInit

FileNext == (Next /\ UNCHANGED headers) \/ htfc_init

FileSpec == FileInit /\ [][FileNext]_<<vars, headers>>

-----------------------------------------------------------------------------
(* Each header comes out of an older file as it went in, and so does the   *)
(* rest of its bin, from the next whole byte on.                           *)
OlderReadsBack ==
  phase = "older" /\ hfc # <<>> => \A b \in 0..hfc.bin_count - 1 :
    /\ Header(b).pushed = Append([n \in DOMAIN headers[b + 1] |-> <<"header", headers[b + 1][n], 0>>],
                                 EndOfString)
    /\ BinReadsBack(b, htfc_uncompress_bin(b))
=============================================================================
