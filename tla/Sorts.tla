------------------------------- MODULE Sorts -------------------------------
(***************************************************************************)
(* The sorts and the column statistics, and next to them the counting pass *)
(* that RadixSort takes for one step: a behaviour is one pass, loop by     *)
(* loop, or one sort, pass by pass.                                        *)
(***************************************************************************)
EXTENDS Stats

CONSTANTS N, K, Unset

ASSUME CountAssumption == N \in Nat /\ K \in Nat \ {0} /\ Unset \notin 0..N - 1

VARIABLES
  used,                                     (* Which of the two runs.       *)
  digit, dir, phase, i, offset, output      (* CountSort's variables.       *)

CountingPass == INSTANCE CountSort

sortVars == <<vars, statsVars>>
passVars == <<digit, dir, phase, i, offset, output>>

(* The variables of the run that is not in use.                            *)
NoPass ==
  /\ digit = <<>> /\ dir = "UP" /\ phase = "none"
  /\ i = 0 /\ offset = <<>> /\ output = <<>>

NoSort ==
  /\ fn = "none" /\ vals = <<>> /\ dirs = <<>> /\ buffer = <<>> /\ current = "own"
  /\ col = 0 /\ byte = 0 /\ done = FALSE /\ given = <<>> /\ mm_result = <<>>

SortsInit ==
  \/ used = "sort" /\ StatsInit /\ NoPass
  \/ used = "pass" /\ CountingPass!Init /\ NoSort

SortsNext ==
  \/ used = "sort" /\ StatsNext /\ UNCHANGED <<used, passVars>>
  \/ used = "pass" /\ CountingPass!Next /\ UNCHANGED <<used, sortVars>>

SortsSpec == SortsInit /\ [][SortsNext]_<<used, sortVars, passVars>>

-----------------------------------------------------------------------------
(* The slot an item is about to take is in the array, and is free: no item *)
(* overwrites another or what lies before the array.                       *)
SlotsFree == used = "pass" => CountingPass!SlotsFree

(* The pass sorts by digit and is stable in both directions, although DOWN *)
(* adds up from the other end: it is what RadixSort's sorts are made of.   *)
StableSort ==
  used = "pass" /\ CountingPass!Done =>
    /\ CountingPass!Sorted
    /\ [k \in 1..N |-> output[k - 1]] =
         Pass([k \in 1..N |-> k - 1], digit, dir)
=============================================================================
