------------------------------ MODULE MCHfcFile ------------------------------
EXTENDS HtfcFile

(* No symbol, all remainders of their number modulo 4, a length no symbol  *)
(* has, and the longest code there is room for.                            *)
MCCodes ==
  {<<>>, <<2>>, <<1, 2>>, <<0, 4>>, <<1, 0, 4>>, <<0, 2, 4>>, <<1, 1, 1, 1, 1, 2>>}

(* As many symbols as 4, and not; codes that get longer and shorter again. *)
MCHeaderCodes == {<<1, 2, 2>>, <<2, 3, 3, 1>>}

MCHeaders == {<<>>, <<2>>, <<3, 3>>, <<2, 4, 3>>}
=============================================================================
