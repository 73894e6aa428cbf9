------------------------------ MODULE BitPacker ------------------------------
(***************************************************************************)
(* huffman_encode_bytes, which packs codes into bytes through a word of 64 *)
(* bits, and huffman_canonical_decode, which unpacks them.                 *)
(*                                                                         *)
(* A word or a byte is the sequence of its bits, the highest first.  A     *)
(* code is [length, code], a dict a function from symbols to codes.  The   *)
(* decoder is CHECKBIT as CanonicalCode shows it to be: it pushes a symbol *)
(* as soon as the bits it holds are that symbol's code.                    *)
(***************************************************************************)
EXTENDS Integers, SequencesExt

CONSTANTS
  WordBits,  (* 64.                                                         *)
  ByteBits   (* 8.                                                          *)

ASSUME PackerAssumption ==
  /\ ByteBits \in Nat \ {0} /\ WordBits \in Nat \ {0} /\ WordBits % ByteBits = 0

Zeros(n) == [k \in 1..n |-> 0]

(* Halves(x)[j] is x >> j.                                                 *)
Halves(x) == LET half[j \in 0..WordBits] == IF j = 0 THEN x ELSE half[j - 1] \div 2 IN half

Bits(x) == [k \in 1..WordBits |-> Halves(x)[WordBits - k] % 2]

(* x << s, s within 0 and WordBits - 1.                                    *)
Shifted(x, s) == SubSeq(Bits(x), s + 1, WordBits) \o Zeros(s)

Or(v, w) == [k \in 1..WordBits |-> IF v[k] = 1 THEN 1 ELSE w[k]]

(* The n-th byte of a word, the highest first.                             *)
ByteOf(word, n) == SubSeq(word, (n - 1) * ByteBits + 1, n * ByteBits)

-----------------------------------------------------------------------------
(* Packing: out is the word, m how many bits of it are waiting, and packed *)
(* the bytes pushed to output.                                             *)
Idle == [out |-> Zeros(WordBits), m |-> 0, packed |-> <<>>]

(* How many whole bytes of n bits are pushed and shifted out.              *)
Whole_M1(n) == IF n < 2 * ByteBits THEN 0 ELSE n \div ByteBits

Whole(n) == n \div ByteBits

(* One turn of the loop.                                                   *)
Packed_M1(state, c) ==
  LET word == Or(state.out, Shifted(c.code, WordBits - state.m - c.length))
      n == Whole(state.m + c.length)
  IN [ packed |-> state.packed \o [k \in 1..n |-> ByteOf(word, k)],
       out |-> word,
       m |-> state.m + c.length - n * ByteBits ]

Packed(state, c) ==
  LET word == Or(state.out, Shifted(c.code, WordBits - state.m - c.length))
      n == Whole(state.m + c.length)
  IN [ packed |-> state.packed \o [k \in 1..n |-> ByteOf(word, k)],
       out |-> SubSeq(word, n * ByteBits + 1, WordBits) \o Zeros(n * ByteBits),
       m |-> state.m + c.length - n * ByteBits ]

(* The end of it: the bits that wait go out in a byte of their own.        *)
Flushed(state) ==
  IF state.m = 0 THEN state.packed ELSE Append(state.packed, ByteOf(state.out, 1))

-----------------------------------------------------------------------------
CodeBits(c) == SubSeq(Bits(c.code), WordBits - c.length + 1, WordBits)

(* A dict whose codes have no more bits than their lengths say, and of     *)
(* which none begins with another.                                         *)
IsPrefixCode(dict) ==
  /\ \A s \in DOMAIN dict : \A n \in 1..WordBits - dict[s].length : Bits(dict[s].code)[n] = 0
  /\ \A s, t \in DOMAIN dict : s # t => ~ IsPrefix(CodeBits(dict[s]), CodeBits(dict[t]))

(* CHECKBIT: state has the bits read since the last symbol and the symbols *)
(* pushed.                                                                 *)
CheckBit(dict, state, bit) ==
  LET bits == Append(state.pending, bit)
      found == {s \in DOMAIN dict : CodeBits(dict[s]) = bits}
  IN IF found = {} THEN [state EXCEPT !.pending = bits]
     ELSE [ pending |-> <<>>,
            pushed |-> Append(state.pushed, CHOOSE s \in found : TRUE) ]

(* The symbols decoded from a sequence of bytes, bit by bit.               *)
huffman_canonical_decode(dict, bytes) ==
  LET bits == FlattenSeq(bytes)
      state[n \in 0..Len(bits)] ==
        IF n = 0 THEN [pending |-> <<>>, pushed |-> <<>>]
        ELSE CheckBit(dict, state[n - 1], bits[n])
  IN state[Len(bits)].pushed
=============================================================================
