----------------------------- MODULE RateLimits -----------------------------
(***************************************************************************)
(* The two limiters in front of the server's work: the TokenBucket of one  *)
(* client, refilled lazily when the client sends something, and the        *)
(* limiter of NATS messages, which takes a token first and gives it back   *)
(* when the message would have to wait.  Time is in ticks; a bucket gains  *)
(* one unit per tick and a token is Cost units, so that fractions of a     *)
(* token are part of the model.                                            *)
(***************************************************************************)
EXTENDS Integers

CONSTANTS
    Burst, Cost,          \* TokenBucket: maxTokens, units per token
    NatsBurst, NatsCost,  \* natsLimiter: burst, units per token
    Horizon               \* bound: ticks a window of observation may last

\* Validate asks nothing of WS_MAX_NATS_RATE; with zero every reservation fails
\* and nothing is ever allowed, which needs no model.
ASSUME LimitsAssumption ==
    /\ Burst \in Nat \ {0} /\ Cost \in Nat \ {0}
    /\ NatsBurst \in Nat \ {0} /\ NatsCost \in Nat \ {0}
    /\ Horizon \in Nat

VARIABLES
    tokens, idle,          \* TokenBucket: tokens, now - lastRefill
    answer,                \* what TryConsume returned last
    natsTokens, natsIdle,  \* natsLimiter: tokens, now - last
    callback,              \* the subscription callback in AllowNATSMessage
    window                 \* history: what was granted since some moment

bucketVars == <<tokens, idle, answer>>
natsVars   == <<natsTokens, natsIdle, callback>>
vars == <<bucketVars, natsVars, window>>

Size == Burst * Cost
NatsSize == NatsBurst * NatsCost

AtMost(n, bound) == IF n > bound THEN bound ELSE n

NoWindow == [open |-> FALSE, age |-> 0, client |-> 0, nats |-> 0]
Waiting == [pc |-> "idle", due |-> 0]

\* Both buckets start full.
Init ==
    /\ tokens = Size /\ idle = 0 /\ answer = "none"
    /\ natsTokens = NatsSize /\ natsIdle = 0 /\ callback = Waiting
    /\ window = NoWindow

-----------------------------------------------------------------------------
\* Time passes, also between two steps of the callback.  An elapsed time that
\* fills the bucket is not told from a longer one, nor a due time long past.
Tick ==
    /\ idle' = AtMost(idle + 1, Size)
    /\ natsIdle' = AtMost(natsIdle + 1, NatsSize + NatsCost)
    /\ callback' = [callback EXCEPT !.due = IF @ > -1 /\ callback.pc # "idle"
                                            THEN @ - 1 ELSE @]
    /\ window' = IF ~window.open THEN window
                 ELSE IF window.age = Horizon THEN NoWindow
                 ELSE [window EXCEPT !.age = @ + 1]
    /\ UNCHANGED <<tokens, answer, natsTokens>>

\* Somebody starts to count what is granted, between two callbacks: one that
\* is under way took its token before.
Observe ==
    /\ ~window.open /\ callback.pc = "idle"
    /\ window' = [NoWindow EXCEPT !.open = TRUE]
    /\ UNCHANGED <<bucketVars, natsVars>>

Count(w, who) == IF w.open THEN [w EXCEPT ![who] = @ + 1] ELSE w

-----------------------------------------------------------------------------
(***************************************************************************)
(* TokenBucket.TryConsume(1), with its mutex held throughout.              *)
(***************************************************************************)
Refilled == AtMost(tokens + idle, Size)

\* Mutant: a refused request adds the refill and leaves lastRefill.
TryConsumeKeepsTime ==
    /\ tokens' = IF Refilled >= Cost THEN Refilled - Cost ELSE Refilled
    /\ answer' = IF Refilled >= Cost THEN "yes" ELSE "no"
    /\ idle' = IF Refilled >= Cost THEN 0 ELSE idle
    /\ window' = IF Refilled >= Cost THEN Count(window, "client") ELSE window
    /\ UNCHANGED natsVars

\* Mutant: no cap.
TryConsumeUncapped ==
    LET refilled == tokens + idle IN
    /\ tokens' = IF refilled >= Cost THEN refilled - Cost ELSE refilled
    /\ answer' = IF refilled >= Cost THEN "yes" ELSE "no"
    /\ idle' = 0
    /\ window' = IF refilled >= Cost THEN Count(window, "client") ELSE window
    /\ UNCHANGED natsVars

TryConsume ==
    /\ tokens' = IF Refilled >= Cost THEN Refilled - Cost ELSE Refilled
    /\ answer' = IF Refilled >= Cost THEN "yes" ELSE "no"
    /\ idle' = 0
    /\ window' = IF Refilled >= Cost THEN Count(window, "client") ELSE window
    /\ UNCHANGED natsVars

-----------------------------------------------------------------------------
(***************************************************************************)
(* AllowNATSMessage: Reserve, Delay and perhaps Cancel, each with its own  *)
(* reading of the clock.  Callbacks of one subscription never overlap.     *)
(***************************************************************************)

\* What the bucket holds now; negative while a reservation is outstanding.
NatsRefilled == AtMost(natsTokens + natsIdle, NatsSize)

\* Reserve takes a token that may still have to drip in; due is how long.
Reserve ==
    /\ callback.pc = "idle"
    /\ natsTokens' = NatsRefilled - NatsCost /\ natsIdle' = 0
    /\ callback' = [pc |-> "reserved",
                    due |-> IF natsTokens' < 0 THEN -natsTokens' ELSE 0]
    /\ UNCHANGED <<bucketVars, window>>

\* Mutant: whatever could be reserved is allowed.
AllowReserved ==
    /\ callback.pc = "reserved"
    /\ callback' = Waiting /\ window' = Count(window, "nats")
    /\ UNCHANGED <<bucketVars, natsTokens, natsIdle>>

\* Delay() is zero by now.
Allow ==
    /\ callback.pc = "reserved" /\ callback.due <= 0
    /\ callback' = Waiting /\ window' = Count(window, "nats")
    /\ UNCHANGED <<bucketVars, natsTokens, natsIdle>>

MustWait ==
    /\ callback.pc = "reserved" /\ callback.due > 0
    /\ callback' = [callback EXCEPT !.pc = "cancel"]
    /\ UNCHANGED <<bucketVars, natsTokens, natsIdle, window>>

\* Mutant: the message is refused and its reservation stands.
CancelForgotten ==
    /\ callback.pc = "cancel"
    /\ callback' = Waiting
    /\ UNCHANGED <<bucketVars, natsTokens, natsIdle, window>>

\* Cancel gives the token back unless the due time is past: then the token is
\* spent although the message was refused.
Cancel ==
    /\ callback.pc = "cancel"
    /\ callback' = Waiting
    /\ IF callback.due >= 0
       THEN natsTokens' = AtMost(NatsRefilled + NatsCost, NatsSize) /\ natsIdle' = 0
       ELSE UNCHANGED <<natsTokens, natsIdle>>
    /\ UNCHANGED <<bucketVars, window>>

-----------------------------------------------------------------------------
Next == Tick \/ Observe \/ TryConsume \/ Reserve \/ Allow \/ MustWait \/ Cancel

Spec == Init /\ [][Next]_vars

-----------------------------------------------------------------------------
(***************************************************************************)
(* What the code promises.                                                 *)
(***************************************************************************)
TypeOK ==
    /\ tokens \in 0..Size /\ idle \in 0..Size
    /\ answer \in {"none", "yes", "no"}
    /\ natsTokens \in (-NatsCost)..NatsSize
    /\ natsIdle \in 0..(NatsSize + NatsCost)
    /\ callback \in [pc : {"idle", "reserved", "cancel"}, due : (-1)..NatsCost]
    /\ window \in [open : BOOLEAN, age : 0..Horizon, client : Nat, nats : Nat]

\* Computing the refill from the elapsed time, only when a request comes, gives
\* every request the answer of a bucket that drips all the time.
Eager == INSTANCE EagerBucket WITH level <- Refilled
ImplementsEagerBucket == Eager!Spec

\* "100 burst, then 10/sec sustained": no window of time, wherever it begins,
\* grants a client more than the burst and what dripped in meanwhile.
ClientBurstBound == window.client * Cost <= Size + window.age

\* The same for the messages taken from NATS.
NatsBurstBound == window.nats * NatsCost <= NatsSize + window.age

\* Both limits hold in every window.
BurstBound == ClientBurstBound /\ NatsBurstBound

\* Refused messages leave no debt behind: however many are refused in a row,
\* the next one waits for at most one token.
RefusalsLeaveNoDebt == callback.pc = "idle" => natsTokens + natsIdle >= 0
=============================================================================
