---------------------------- MODULE MCHfcSession ----------------------------
(* HfcSession for TLC. Addresses are interchangeable.                      *)
EXTENDS HfcSession, TLC

AddrSymmetry == Permutations(Addr)
=============================================================================
