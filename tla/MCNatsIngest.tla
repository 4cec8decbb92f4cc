---------------------------- MODULE MCNatsIngest ----------------------------
(***************************************************************************)
(* Small instances of NatsIngest for TLC.                                  *)
(***************************************************************************)
EXTENDS NatsIngest, TLC

\* Workers are interchangeable; used only where no liveness is checked.
Symmetry == Permutations(Workers)
=============================================================================
