---------------------------- MODULE AdmissionGate ----------------------------
(***************************************************************************)
(* What admission control promises, and nothing of how: an attempt is      *)
(* turned away or opens once, at most Capacity attempts are open at a      *)
(* time, and an attempt that ended never comes back.                       *)
(***************************************************************************)
EXTENDS Naturals, FiniteSets

CONSTANTS Attempts, Capacity

VARIABLES gate   \* "waiting", "open" or "ended", per attempt

OpenAttempts == {a \in Attempts : gate[a] = "open"}

GateInit == gate = [a \in Attempts |-> "waiting"]

Refuse(a) == /\ gate[a] = "waiting"
             /\ gate' = [gate EXCEPT ![a] = "ended"]

Open(a) == /\ gate[a] = "waiting"
           /\ Cardinality(OpenAttempts) < Capacity
           /\ gate' = [gate EXCEPT ![a] = "open"]

Close(a) == /\ gate[a] = "open"
            /\ gate' = [gate EXCEPT ![a] = "ended"]

GateNext == \E a \in Attempts : Refuse(a) \/ Open(a) \/ Close(a)

GateSpec == GateInit /\ [][GateNext]_gate
=============================================================================
