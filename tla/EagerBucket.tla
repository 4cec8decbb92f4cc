---------------------------- MODULE EagerBucket -----------------------------
(***************************************************************************)
(* A token bucket as its documentation draws it: tokens drip in one unit   *)
(* per tick, up to the brim; a request is granted exactly when there is a  *)
(* whole token, and takes it.                                              *)
(***************************************************************************)
EXTENDS Naturals

CONSTANTS
    Size,  \* the bucket, in units of refill per tick
    Cost   \* one token, in the same units

VARIABLES
    level,   \* units in the bucket
    answer   \* what the latest request was told

vars == <<level, answer>>

Init == level = Size /\ answer = "none"

Drip == /\ level' = IF level < Size THEN level + 1 ELSE level
        /\ UNCHANGED answer

Grant == /\ level >= Cost
         /\ level' = level - Cost /\ answer' = "yes"

Refuse == /\ level < Cost
          /\ answer' = "no"
          /\ UNCHANGED level

Next == Drip \/ Grant \/ Refuse

Spec == Init /\ [][Next]_vars
=============================================================================
