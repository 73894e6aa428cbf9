----------------------------- MODULE ByteStream -----------------------------
(***************************************************************************)
(* What a baos promises: bytes are pushed one after the other, and in the  *)
(* end one array holds all of them in that order.                          *)
(***************************************************************************)
EXTENDS Integers, Sequences

CONSTANTS
  Byte,
  MaxCount,  (* How many bytes a stream gets, at most.                      *)
  NULL       (* No stream, or no array.                                     *)

VARIABLES
  written,  (* The bytes pushed, NULL when there is no stream.              *)
  out       (* The array the last stream became.                            *)

streamVars == <<written, out>>

New == written = NULL /\ written' = <<>> /\ UNCHANGED out

Push(b) ==
  /\ written # NULL /\ Len(written) < MaxCount
  /\ written' = Append(written, b)
  /\ UNCHANGED out

(* A stream nothing was pushed to becomes no array.                        *)
ToArray ==
  /\ written # NULL
  /\ out' = IF written = <<>> THEN NULL ELSE written
  /\ written' = NULL

Init == written = NULL /\ out = NULL

Next == New \/ (\E b \in Byte : Push(b)) \/ ToArray

Spec == Init /\ [][Next]_streamVars
=============================================================================
