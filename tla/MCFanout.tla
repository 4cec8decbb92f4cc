------------------------------ MODULE MCFanout ------------------------------
(***************************************************************************)
(* Fanout for TLC.  Byte slices and workers have no identity of their own. *)
(***************************************************************************)
EXTENDS Fanout, TLC

Symmetric == Permutations(Bufs) \cup Permutations(Workers) \cup Permutations(Clients)
=============================================================================
