---------------------------- MODULE HfcSessionDoc ----------------------------
(***************************************************************************)
(* HfcSession with a client that does what the comment on hfc_search asks  *)
(* of it: "result.matches must be freed after use." (hfc.c:446).           *)
(***************************************************************************)
EXTENDS HfcSession

(* The client frees the indices of the last search when it has read them.  *)
ClientFree ==
  /\ matches # NULL
  /\ heap[matches].kind = "matches"
  /\ FreeAndStore(<<matches>>, NULL, Free)
  /\ ret' = NULL /\ asked' = D!NoQuestion
  /\ UNCHANGED <<hfc_cache, matches, inner_cache, inner_bin, upload>>

NextDoc == Next \/ ClientFree

SpecDoc == Init /\ [][NextDoc]_vars
=============================================================================
