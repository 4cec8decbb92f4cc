-------------------------- MODULE MCClientDelivery --------------------------
(***************************************************************************)
(* Small instances of ClientDelivery for TLC.                              *)
(***************************************************************************)
EXTENDS ClientDelivery, TLC

\* Workers are interchangeable; not used where liveness is checked.
Symmetry == Permutations(Workers)

\* Bound: all of the broadcasts may fall into the first connection, but the
\* last of them is left out where the object has been used again.
ReuseBound == life > 1 => published < MaxMsgs
=============================================================================
