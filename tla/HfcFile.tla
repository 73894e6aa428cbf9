------------------------------- MODULE HfcFile -------------------------------
(***************************************************************************)
(* A dictionary's way through its file.  hfc_compress_sorted packs the     *)
(* bins with the code of all of them, huffman_serialize writes the code's  *)
(* lengths and symbols, and the offsets and the bins follow.  hfc_init and *)
(* uncompress_bin read the file by words and have to work out where each   *)
(* part is and what the code was.  One action is one turn of a loop.       *)
(*                                                                         *)
(* In the file a byte of a bin is the sequence of its bits; any other byte *)
(* is named by what was written, so that a read at the wrong place is not  *)
(* taken for the right one.  Symbols are numbered in code order.           *)
(***************************************************************************)
EXTENDS BitPacker

CONSTANTS
  BINSIZE,    (* Strings per bin.                                           *)
  Codes,      (* How many symbols the code has of each length.              *)
  MaxBins,    (* How many bins there are,                                   *)
  MaxBytes    (* and how many bytes they have.  They bound the model.       *)

(* How many codes of length n there is room for behind the shorter ones.   *)
Room(ls) == LET room[n \in 0..Len(ls)] == IF n = 0 THEN 1 ELSE 2 * room[n - 1] - ls[n] IN room

(* The codes are complete (CanonicalCode), or have no symbol, and none is  *)
(* longer than a word has room for with a byte less one bit waiting: 56    *)
(* bits.  A deeper tree takes almost 10^12 bytes of input.                 *)
ASSUME FileAssumption ==
  /\ BINSIZE \in Nat \ {0} /\ MaxBins \in Nat /\ MaxBytes \in Nat
  /\ \A ls \in Codes :
       /\ ls \in Seq(Nat) /\ Len(ls) <= WordBits - ByteBits
       /\ ls # <<>> => Room(ls)[Len(ls)] = 0

VARIABLES
  lens,        (* canonical.lens.                                           *)
  bins,        (* The front-coded bins, sequences of symbols.               *)
  count,       (* How many strings they hold.                               *)
  packer,      (* huffman_encode_bytes' locals.                             *)
  k,           (* The next byte of the bin it packs.                        *)
  inner_bins,  (* The packed bins.                                          *)
  offsets,     (* What compute_offsets returns.                             *)
  out,         (* The bytes written.                                        *)
  phase,       (* "pack", "offsets", "words", "bins", "align" or "read".    *)
  i,           (* The loop's index.                                         *)
  hfc          (* struct hfc, <<>> before hfc_init.                         *)

vars == <<lens, bins, count, packer, k, inner_bins, offsets, out, phase, i, hfc>>

-----------------------------------------------------------------------------
(* Sums(ns)[n] is the sum of the first n.                                  *)
Sums(ns) == LET sum[n \in 0..Len(ns)] == IF n = 0 THEN 0 ELSE sum[n - 1] + ns[n] IN sum

Sum(ns) == Sums(ns)[Len(ns)]

(* The code that encoder makes of the lengths: ascending numbers, doubled  *)
(* from one length to the next.                                            *)
FirstCodes(ls) ==
  LET first[n \in DOMAIN ls] == IF n = 1 THEN 0 ELSE 2 * (first[n - 1] + ls[n - 1]) IN first

Dict(ls) ==
  LET Length(s) == CHOOSE n \in DOMAIN ls : Sums(ls)[n - 1] < s /\ s <= Sums(ls)[n]
  IN [s \in 1..Sum(ls) |->
       [ length |-> Length(s),
         code |-> FirstCodes(ls)[Length(s)] + s - 1 - Sums(ls)[Length(s) - 1] ]]

bin_count == (count + BINSIZE - 1) \div BINSIZE

-----------------------------------------------------------------------------
(* Writing.                                                                *)

(* One turn of huffman_encode_bytes' loop.                                 *)
PackByte ==
  /\ phase = "pack" /\ i <= bin_count /\ k <= Len(bins[i])
  /\ packer' = Packed(packer, Dict(lens)[bins[i][k]])
  /\ k' = k + 1
  /\ UNCHANGED <<lens, bins, count, inner_bins, offsets, out, phase, i, hfc>>

(* Its end, and the next bin.                                              *)
PackBin ==
  /\ phase = "pack" /\ i <= bin_count /\ k > Len(bins[i])
  /\ inner_bins' = Append(inner_bins, Flushed(packer))
  /\ packer' = Idle /\ k' = 1 /\ i' = i + 1
  /\ UNCHANGED <<lens, bins, count, offsets, out, phase, hfc>>

(* compute_offsets: where each bin begins, from the first one on.          *)
compute_offsets_M1 ==
  [b \in DOMAIN inner_bins |-> Sums([a \in DOMAIN inner_bins |-> Len(inner_bins[a])])[b]]

compute_offsets ==
  [b \in DOMAIN inner_bins |-> Sums([a \in DOMAIN inner_bins |-> Len(inner_bins[a])])[b - 1]]

(* baos_push_int: the four bytes of n, the lowest first.                   *)
Word(n) == [byte \in 1..4 |-> <<"int", n, byte>>]
Words(ns) == FlattenSeq([j \in DOMAIN ns |-> Word(ns[j])])
Fill(n) == [j \in 1..n |-> Zeros(ByteBits)]
Symbols(n) == [s \in 1..n |-> <<"symbol", s, 0>>]

(* huffman_serialize: the lengths, the symbols, and up to a whole word.    *)
huffman_serialize ==
  LET total == Sum(lens)
  IN Words(<<Len(lens)>> \o lens) \o Symbols(total) \o Fill(4 * ((total + 3) \div 4) - total)

(* The header: the type, the count, the bin size, and the code.            *)
PushHeader ==
  /\ phase = "pack" /\ i > bin_count
  /\ offsets' = compute_offsets
  /\ out' = <<<<"h">>, <<"f">>, <<"c">>>> \o Fill(1) \o Words(<<count, BINSIZE>>)
              \o huffman_serialize
  /\ phase' = "words" /\ i' = 1
  /\ UNCHANGED <<lens, bins, count, packer, k, inner_bins, hfc>>

(* The loop over the offsets, and the loop over the bins.                  *)
PushOffset ==
  /\ phase = "words"
  /\ IF i <= bin_count
     THEN out' = out \o Word(offsets[i]) /\ i' = i + 1 /\ UNCHANGED phase
     ELSE phase' = "bins" /\ i' = 1 /\ UNCHANGED out
  /\ UNCHANGED <<lens, bins, count, packer, k, inner_bins, offsets, hfc>>

CopyBin ==
  /\ phase = "bins"
  /\ IF i <= bin_count
     THEN out' = out \o inner_bins[i] /\ i' = i + 1 /\ UNCHANGED phase
     ELSE phase' = "align" /\ UNCHANGED <<out, i>>
  /\ UNCHANGED <<lens, bins, count, packer, k, inner_bins, offsets, hfc>>

(* Fill up the last word.                                                  *)
Align ==
  /\ phase = "align"
  /\ out' = out \o Fill((4 - (Len(out) % 4)) % 4)
  /\ phase' = "read"
  /\ UNCHANGED <<lens, bins, count, packer, k, inner_bins, offsets, i, hfc>>

-----------------------------------------------------------------------------
(* Reading.                                                                *)

Garbage == -1

(* buff32[w]: the integer written there, if one was.                       *)
Buff32(w) ==
  IF /\ 4 * w + 4 <= Len(out) /\ Len(out[4 * w + 1]) = 3
     /\ SubSeq(out, 4 * w + 1, 4 * w + 4) = Word(out[4 * w + 1][2])
  THEN out[4 * w + 1][2] ELSE Garbage

huff_dict_len(offset) ==
  LET bits == Buff32(offset)
      sum == Sum([n \in 1..bits |-> Buff32(offset + n)])
  IN 1 + bits + ((sum + 3) \div 4)

bin_dict_offset == 3

(* Where huffman_decoder_init_transform takes the symbols from.            *)
SymbolsAt_M1(bits) == 4 * (bin_dict_offset + bits)

SymbolsAt(bits) == 4 * (bin_dict_offset + 1 + bits)

(* hfc_init: where everything is, and the decoder's lengths and symbols.   *)
hfc_init ==
  /\ phase = "read" /\ hfc = <<>>
  /\ LET length == Buff32(1)
         bin_size == Buff32(2)
         bin_offsets == bin_dict_offset + huff_dict_len(bin_dict_offset)
         n == (length + bin_size - 1) \div bin_size
         bits == Buff32(bin_dict_offset)
         ls == [b \in 1..bits |-> Buff32(bin_dict_offset + b)]
     IN hfc' = [ length |-> length, bin_size |-> bin_size,
                 bin_offsets |-> bin_offsets, bin_count |-> n,
                 first_bin |-> bin_offsets + n, lens |-> ls,
                 symbols |-> SubSeq(out, SymbolsAt(bits) + 1, SymbolsAt(bits) + Sum(ls)) ]
  /\ UNCHANGED <<lens, bins, count, packer, k, inner_bins, offsets, out, phase, i>>

(* Where uncompress_bin has bin b decoded from, b from 0.                  *)
Start(b) == 4 * hfc.first_bin + Buff32(hfc.bin_offsets + b)
Upper(b) ==
  IF b = hfc.bin_count - 1 THEN Len(out)
  ELSE 4 * hfc.first_bin + Buff32(hfc.bin_offsets + 1 + b)

uncompress_bin(b) ==
  huffman_canonical_decode(Dict(hfc.lens), SubSeq(out, Start(b) + 1, Upper(b)))

-----------------------------------------------------------------------------
(* A bin has a byte at least, the first string's 0, and without bins the   *)
(* code has no symbol.  Codes for symbols the bins do not have are more    *)
(* than the program makes.                                                 *)
Init ==
  LET Bin == UNION {[1..n -> 1..Sum(lens)] : n \in 1..MaxBytes} IN
  /\ lens \in Codes
  /\ count \in IF lens = <<>> THEN {0} ELSE 1..MaxBins * BINSIZE
  /\ bins \in {bs \in [1..bin_count -> Bin] : Sum([b \in 1..bin_count |-> Len(bs[b])]) <= MaxBytes}
  /\ packer = Idle /\ k = 1
  /\ inner_bins = <<>> /\ offsets = <<>> /\ out = <<>> /\ phase = "pack" /\ i = 1 /\ hfc = <<>>

Next ==
  \/ PackByte \/ PackBin \/ PushHeader \/ PushOffset \/ CopyBin \/ Align
  \/ hfc_init

Spec == Init /\ [][Next]_vars

-----------------------------------------------------------------------------
(* Whatever comes next, its code fits the word behind the bits that wait,  *)
(* and the word is never shifted by all of its bits: C leaves both other   *)
(* cases undefined.                                                        *)
ShiftsDefined ==
  \A s \in 1..Sum(lens) :
    LET length == Dict(lens)[s].length
    IN /\ WordBits - packer.m - length \in 0..WordBits - 1
       /\ Whole(packer.m + length) * ByteBits < WordBits

(* What is packed of a bin and what waits are the codes so far in their    *)
(* order, and the rest of the word is 0 (the question of the comment at    *)
(* huffman.c:280), so that or'ing the next code in is right.               *)
PacksCodes ==
  phase = "pack" /\ i <= bin_count =>
    FlattenSeq(packer.packed) \o packer.out =
      FlattenSeq([j \in 1..k - 1 |-> CodeBits(Dict(lens)[bins[i][j]])])
        \o Zeros(WordBits - packer.m)

(* hfc_init reads what was written: the count, the code's lengths and its  *)
(* symbols, whatever their number is modulo 4.                             *)
HeaderReadsBack ==
  hfc # <<>> =>
    /\ hfc.length = count /\ hfc.bin_size = BINSIZE /\ hfc.bin_count = bin_count
    /\ hfc.lens = lens /\ hfc.symbols = Symbols(Sum(lens))

(* What was decoded of bin b, from 0, and what may come behind it: no more *)
(* than the fill bits of a byte and of the last word decode to.            *)
BinReadsBack(b, bin) ==
  LET fill == IF b = hfc.bin_count - 1 THEN 4 * ByteBits ELSE ByteBits
  IN IsPrefix(bins[b + 1], bin) /\ Len(bin) < Len(bins[b + 1]) + fill

(* Each bin comes out of the file as it went in: it is decoded from its    *)
(* own bytes, with its own code.                                           *)
BinsReadBack ==
  phase = "read" /\ hfc # <<>> =>
    \A b \in 0..hfc.bin_count - 1 : BinReadsBack(b, uncompress_bin(b))
=============================================================================
