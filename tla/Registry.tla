------------------------------ MODULE Registry ------------------------------
(***************************************************************************)
(* What the subscription index promises to broadcast: a relation between   *)
(* channels and the clients that are present, and broadcasts that each     *)
(* serve, once, exactly the clients that were in the relation when the     *)
(* broadcast began.  A client that leaves takes its own entries with it    *)
(* and nobody else's.                                                      *)
(***************************************************************************)
CONSTANTS Clients, Channels, Workers

VARIABLES
    present,  \* the clients that may subscribe
    members,  \* the clients of every channel
    serving   \* the clients every worker still has to serve

vars == <<present, members, serving>>

Init == /\ present = {}
        /\ members = [ch \in Channels |-> {}]
        /\ serving = [w \in Workers |-> {}]

Join(c) ==
    /\ c \notin present
    /\ present' = present \cup {c}
    /\ UNCHANGED <<members, serving>>

Leave(c) ==
    /\ c \in present
    /\ present' = present \ {c}
    /\ members' = [ch \in Channels |-> members[ch] \ {c}]
    /\ UNCHANGED serving

Subscribe(c, chs) ==
    /\ c \in present
    /\ members' = [ch \in Channels |->
                     IF ch \in chs THEN members[ch] \cup {c} ELSE members[ch]]
    /\ UNCHANGED <<present, serving>>

Unsubscribe(c, chs) ==
    /\ c \in present
    /\ members' = [ch \in Channels |->
                     IF ch \in chs THEN members[ch] \ {c} ELSE members[ch]]
    /\ UNCHANGED <<present, serving>>

Broadcast(w, ch) ==
    /\ serving[w] = {}
    /\ serving' = [serving EXCEPT ![w] = members[ch]]
    /\ UNCHANGED <<present, members>>

Serve(w, c) ==
    /\ c \in serving[w]
    /\ serving' = [serving EXCEPT ![w] = @ \ {c}]
    /\ UNCHANGED <<present, members>>

Next == \/ \E c \in Clients : Join(c) \/ Leave(c)
        \/ \E c \in Clients, chs \in SUBSET Channels : Subscribe(c, chs) \/ Unsubscribe(c, chs)
        \/ \E w \in Workers, ch \in Channels : Broadcast(w, ch)
        \/ \E w \in Workers, c \in Clients : Serve(w, c)

Spec == Init /\ [][Next]_vars
=============================================================================
