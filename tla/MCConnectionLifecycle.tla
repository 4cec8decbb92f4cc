----------------------- MODULE MCConnectionLifecycle -----------------------
(***************************************************************************)
(* Small instances of ConnectionLifecycle for TLC.                         *)
(***************************************************************************)
EXTENDS ConnectionLifecycle, TLC

\* Attempts are interchangeable, and so are Client objects: used only where
\* no liveness property is checked.
Symmetry == Permutations(Conns) \cup Permutations(Clients)
=============================================================================
