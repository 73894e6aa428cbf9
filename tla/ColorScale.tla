----------------------------- MODULE ColorScale -----------------------------
(***************************************************************************)
(* color_scales.c: which stops of a scale a value is coloured by.  A value *)
(* is sum / c; a colour is the stop whose colour it is, or the two it lies *)
(* between.  The arithmetic between two stops is left out.                 *)
(*                                                                         *)
(* The domain is a sequence: domain[k] here is s->domain[k - 1].           *)
(***************************************************************************)
EXTENDS Integers, Sequences

CONSTANTS
  Colors,  (* How many colours an ordinal scale has.                        *)
  MaxInt   (* The highest int, 2^31 - 1.                                    *)

Stop(k) == [low |-> k, high |-> k]

Within(k) == [low |-> k, high |-> k + 1]

(* A switch that falls through from the case of the number of stops.       *)
get_color_linear_M1(domain, sum, c) ==
  LET h == Len(domain)
      case(stops) == h >= stops /\ sum > domain[stops] * c
  IN IF sum >= domain[h] * c THEN Stop(h)
     ELSE IF sum <= domain[1] * c THEN Stop(1)
     ELSE IF case(4) THEN Within(3)
     ELSE IF case(3) THEN Within(2)
     ELSE Within(1)

get_color_linear(domain, sum, c) ==
  LET h == Len(domain)
      case(stops) == h >= stops /\ sum > domain[stops - 1] * c
  IN IF sum >= domain[h] * c THEN Stop(h)
     ELSE IF sum <= domain[1] * c THEN Stop(1)
     ELSE IF case(4) THEN Within(3)
     ELSE IF case(3) THEN Within(2)
     ELSE Within(1)

(* Scales of two stops only.  A value at a stop is interpolated.           *)
get_color_log2(domain, sum, c) ==
  IF sum < domain[1] * c THEN Stop(1)
  ELSE IF sum > domain[2] * c THEN Stop(2)
  ELSE Within(1)

(* v is an int, and becomes unsigned to be divided.                        *)
get_color_ordinal(v) == (v % (2 * (MaxInt + 1))) % Colors
=============================================================================
