----------------------------- MODULE MCHfcReader -----------------------------
EXTENDS HfcReader

(* Byte 2 is the upper case of byte 1, and byte 4 has the high bit, as the *)
(* last byte of a vbyte has.  With Radix 3, a shared prefix of 3 takes a   *)
(* vbyte of two bytes.  With Size 5, strings of 4 fill current, and so do  *)
(* headers of 3 in the older format.                                       *)
MCLower == [c \in {2} |-> 1]

MCStrings ==
  {<<>>, <<1>>, <<1, 1, 1, 1>>, <<1, 1, 1, 2>>, <<2, 4, 1>>, <<2, 4, 1, 4>>}

(* Texts end with a newline, or do not.                                    *)
MCTails == {<<>>}
DocTails == {<<>>, <<1>>}

MCPadding == {<<1, 5, 2, 0>>}
=============================================================================
