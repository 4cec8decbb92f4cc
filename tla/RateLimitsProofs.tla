-------------------------- MODULE RateLimitsProofs --------------------------
(***************************************************************************)
(* Proofs about RateLimits, for buckets and tokens of any size and windows *)
(* of any length.                                                          *)
(***************************************************************************)
EXTENDS RateLimits, TLAPS

USE DEF bucketVars, natsVars

-----------------------------------------------------------------------------
(***************************************************************************)
(* The only products of the model.                                         *)
(***************************************************************************)

\* A bucket holds at least one token.
LEMMA BucketHoldsToken ==
    ASSUME NEW n \in Nat \ {0}, NEW c \in Nat \ {0}
    PROVE  n * c \in Nat /\ n * c >= c
<1>1. PICK m \in Nat : n = m + 1
  <2>1. n - 1 \in Nat /\ n = (n - 1) + 1
    OBVIOUS
  <2>2. QED
    BY <2>1
<1>2. m * c \in Nat
  OBVIOUS
<1>3. n * c = m * c + c
  BY <1>1
<1>4. QED
  BY <1>2, <1>3

\* The sizes of the two buckets and of their tokens.
LEMMA Sizes ==
    /\ Size \in Nat /\ Cost \in Nat /\ Cost > 0 /\ Size >= Cost
    /\ NatsSize \in Nat /\ NatsCost \in Nat /\ NatsCost > 0 /\ NatsSize >= NatsCost
    /\ Horizon \in Nat
  BY LimitsAssumption, BucketHoldsToken DEF Size, NatsSize

\* One grant more costs one token more.
LEMMA OneMore ==
    ASSUME NEW n \in Nat, NEW c \in Nat
    PROVE  n * c \in Nat /\ (n + 1) * c = n * c + c /\ 0 * c = 0
  OBVIOUS

-----------------------------------------------------------------------------
(***************************************************************************)
(* Types.  A reservation brings the NATS bucket below zero by one token at *)
(* most, because no debt is left when it is made; and the debt is covered  *)
(* by the time the callback still has to wait.                             *)
(***************************************************************************)
DebtIsDue == callback.pc # "idle" => natsTokens + natsIdle + callback.due >= 0

NoWindowNoCount == ~window.open => window = NoWindow

TypeInv == TypeOK /\ RefusalsLeaveNoDebt /\ DebtIsDue /\ NoWindowNoCount

\* The buckets start full.
LEMMA TypeInit == Init => TypeInv
  BY Sizes DEF Init, TypeInv, TypeOK, RefusalsLeaveNoDebt, DebtIsDue, NoWindowNoCount,
               NoWindow, Waiting

\* Time passes.
LEMMA TypeTick == TypeInv /\ Tick => TypeInv'
<1> SUFFICES ASSUME TypeInv, Tick PROVE TypeInv'
  OBVIOUS
<1> USE DEF TypeInv
<1>1. idle' \in 0..Size /\ UNCHANGED <<tokens, answer, natsTokens>>
  BY Sizes DEF TypeOK, Tick, AtMost
<1>2. natsIdle' \in 0..(NatsSize + NatsCost)
  BY Sizes DEF TypeOK, Tick, AtMost
<1>3. /\ callback' \in [pc : {"idle", "reserved", "cancel"}, due : (-1)..NatsCost]
      /\ callback'.pc = callback.pc
      /\ callback.pc # "idle" => callback'.due = IF callback.due > -1
                                                 THEN callback.due - 1 ELSE callback.due
  BY Sizes DEF TypeOK, Tick
<1>4. /\ window' \in [open : BOOLEAN, age : 0..Horizon, client : Nat, nats : Nat]
      /\ NoWindowNoCount'
  <2>1. CASE window.open /\ window.age # Horizon
    <3>1. window.age + 1 \in 0..Horizon
      BY <2>1, Sizes DEF TypeOK
    <3>2. QED
      BY <2>1, <3>1 DEF TypeOK, Tick, NoWindowNoCount
  <2>2. CASE ~window.open
    BY <2>2 DEF TypeOK, Tick, NoWindowNoCount
  <2>3. CASE window.open /\ window.age = Horizon
    <3>1. window' = NoWindow
      BY <2>3 DEF Tick
    <3>2. NoWindow \in [open : BOOLEAN, age : 0..Horizon, client : Nat, nats : Nat]
      BY Sizes DEF NoWindow
    <3>3. QED
      BY <3>1, <3>2 DEF NoWindowNoCount
  <2>4. QED
    BY <2>1, <2>2, <2>3
<1>5. RefusalsLeaveNoDebt'
  BY <1>3, Sizes DEF TypeOK, Tick, AtMost, RefusalsLeaveNoDebt
<1>6. DebtIsDue'
  BY <1>3, Sizes DEF TypeOK, Tick, AtMost, DebtIsDue
<1>7. QED
  BY <1>1, <1>2, <1>3, <1>4, <1>5, <1>6 DEF TypeOK

\* The client's bucket.
LEMMA TypeClient == TypeInv /\ TryConsume => TypeInv'
<1> SUFFICES ASSUME TypeInv, TryConsume PROVE TypeInv'
  OBVIOUS
<1> USE DEF TypeInv
<1>1. tokens' \in 0..Size /\ idle' \in 0..Size /\ answer' \in {"none", "yes", "no"}
  BY Sizes DEF TypeOK, TryConsume, Refilled, AtMost
<1>2. /\ window' \in [open : BOOLEAN, age : 0..Horizon, client : Nat, nats : Nat]
      /\ NoWindowNoCount'
  BY DEF TypeOK, TryConsume, Count, NoWindowNoCount
<1>3. UNCHANGED <<natsTokens, natsIdle, callback>>
  BY DEF TryConsume
<1>4. QED
  BY <1>1, <1>2, <1>3 DEF TypeOK, RefusalsLeaveNoDebt, DebtIsDue

\* The NATS bucket: reserving, allowing, waiting, giving back.
LEMMA TypeNats ==
    TypeInv /\ (Reserve \/ Allow \/ MustWait \/ Cancel) => TypeInv'
<1> SUFFICES ASSUME TypeInv, Reserve \/ Allow \/ MustWait \/ Cancel PROVE TypeInv'
  OBVIOUS
<1> USE DEF TypeInv
<1>1. CASE Reserve
  <2>1. /\ natsTokens' \in (-NatsCost)..NatsSize /\ natsIdle' = 0
        /\ callback'.pc = "reserved"
        /\ callback'.due = IF natsTokens' < 0 THEN -natsTokens' ELSE 0
        /\ callback' \in [pc : {"idle", "reserved", "cancel"}, due : (-1)..NatsCost]
    <3>1. NatsRefilled \in 0..NatsSize
      BY <1>1, Sizes DEF TypeOK, Reserve, NatsRefilled, AtMost, RefusalsLeaveNoDebt
    <3>2. natsTokens' \in (-NatsCost)..NatsSize
      BY <1>1, <3>1, Sizes DEF Reserve
    <3>3. ASSUME NEW t \in (-NatsCost)..NatsSize
          PROVE  (IF t < 0 THEN -t ELSE 0) \in (-1)..NatsCost
      BY Sizes
    <3>4. QED
      BY <1>1, <3>2, <3>3 DEF Reserve
  <2>2. UNCHANGED <<tokens, idle, answer, window>>
    BY <1>1 DEF Reserve
  <2>3. RefusalsLeaveNoDebt'
    BY <2>1 DEF RefusalsLeaveNoDebt
  <2>4. DebtIsDue'
    <3>1. ASSUME NEW t \in Int
          PROVE  t + 0 + (IF t < 0 THEN -t ELSE 0) >= 0
      OBVIOUS
    <3>2. natsTokens' \in Int
      BY <2>1, Sizes
    <3>3. natsTokens' + natsIdle' + callback'.due >= 0
      BY <2>1, <3>1, <3>2
    <3>4. QED
      BY <3>3 DEF DebtIsDue
  <2>5. QED
    BY <2>1, <2>2, <2>3, <2>4, Sizes DEF TypeOK, NoWindowNoCount
<1>2. CASE Allow
  <2>1. /\ window' \in [open : BOOLEAN, age : 0..Horizon, client : Nat, nats : Nat]
        /\ NoWindowNoCount'
    BY <1>2 DEF TypeOK, Allow, Count, NoWindowNoCount
  <2>2. natsTokens + natsIdle >= 0
    BY <1>2 DEF TypeOK, Allow, DebtIsDue
  <2>3. QED
    BY <1>2, <2>1, <2>2, Sizes DEF TypeOK, Allow, Waiting, RefusalsLeaveNoDebt, DebtIsDue
<1>3. CASE MustWait
  BY <1>3 DEF TypeOK, MustWait, RefusalsLeaveNoDebt, DebtIsDue, NoWindowNoCount
<1>4. CASE Cancel
  <2>1. callback' = Waiting /\ UNCHANGED <<tokens, idle, answer, window>>
    BY <1>4 DEF Cancel
  <2>2. /\ natsTokens' \in (-NatsCost)..NatsSize
        /\ natsIdle' \in 0..(NatsSize + NatsCost)
        /\ natsTokens' + natsIdle' >= 0
    <3>1. CASE callback.due >= 0
      BY <1>4, <3>1, Sizes DEF TypeOK, Cancel, NatsRefilled, AtMost
    <3>2. CASE callback.due < 0
      BY <1>4, <3>2, Sizes DEF TypeOK, Cancel, DebtIsDue
    <3>3. QED
      BY <3>1, <3>2 DEF TypeOK
  <2>3. TypeOK'
    BY <2>1, <2>2, Sizes DEF TypeOK, Waiting
  <2>4. RefusalsLeaveNoDebt' /\ DebtIsDue' /\ NoWindowNoCount'
    BY <2>1, <2>2 DEF Waiting, RefusalsLeaveNoDebt, DebtIsDue, NoWindowNoCount
  <2>5. QED
    BY <2>3, <2>4
<1>5. QED
  BY <1>1, <1>2, <1>3, <1>4

\* Every step keeps the types and the debt.
LEMMA TypeStep == TypeInv /\ [Next]_vars => TypeInv'
<1> SUFFICES ASSUME TypeInv, [Next]_vars PROVE TypeInv'
  OBVIOUS
<1>1. CASE Observe \/ UNCHANGED vars
  <2>1. /\ UNCHANGED <<bucketVars, natsVars>>
        /\ window' \in [open : BOOLEAN, age : 0..Horizon, client : Nat, nats : Nat]
        /\ NoWindowNoCount'
    BY <1>1, Sizes DEF TypeInv, TypeOK, Observe, vars, NoWindow, NoWindowNoCount
  <2>2. QED
    BY <2>1 DEF TypeInv, TypeOK, RefusalsLeaveNoDebt, DebtIsDue
<1>2. QED
  BY <1>1, TypeTick, TypeClient, TypeNats DEF Next

\* Every variable of the limiters keeps its type: neither bucket exceeds its
\* size, and the NATS bucket owes one token at most.
THEOREM LimiterTypes == Spec => []TypeOK
  BY TypeInit, TypeStep, PTL DEF Spec, TypeInv

\* However many reservations are made and given back, early or late, the next
\* callback finds no debt.
THEOREM NoDebtAfterRefusals == Spec => []RefusalsLeaveNoDebt
  BY TypeInit, TypeStep, PTL DEF Spec, TypeInv

-----------------------------------------------------------------------------
(***************************************************************************)
(* The bounds on a window.  What was granted since it was opened, what is  *)
(* reserved and what the bucket holds now add up to no more than what it   *)
(* held at most and has gained since.                                      *)
(***************************************************************************)
Reserved == IF callback.pc = "idle" THEN 0 ELSE NatsCost

ClientAccount == window.open => window.client * Cost + Refilled <= Size + window.age

NatsAccount ==
    window.open =>
        window.nats * NatsCost + Reserved + NatsRefilled <= NatsSize + window.age

Accounts == ClientAccount /\ NatsAccount

\* Both buckets gain one unit per tick at most.
LEMMA RefillByTick ==
    TypeInv /\ Tick => /\ Refilled \in Nat /\ Refilled' \in Nat
                       /\ Refilled' <= Refilled + 1
                       /\ NatsRefilled \in Int /\ NatsRefilled' \in Int
                       /\ NatsRefilled' <= NatsRefilled + 1
  BY Sizes DEF TypeInv, TypeOK, Tick, Refilled, NatsRefilled, AtMost

\* Time passes: the window gets older with what drips in, or ends.
LEMMA AccountsTick == TypeInv /\ Accounts /\ Tick => Accounts'
<1> SUFFICES ASSUME TypeInv, Accounts, Tick, window'.open PROVE Accounts'
  BY DEF Accounts, ClientAccount, NatsAccount
<1>1. /\ window.open /\ window'.client = window.client /\ window'.nats = window.nats
      /\ window.age \in Nat /\ window'.age = window.age + 1
  BY Sizes DEF TypeInv, TypeOK, Tick, NoWindow
<1>2. Reserved' = Reserved
  BY DEF TypeInv, TypeOK, Tick, Reserved
<1>3. window.client * Cost \in Nat /\ window.nats * NatsCost \in Nat /\ Reserved \in Nat
  BY OneMore, Sizes DEF TypeInv, TypeOK, Reserved
<1>4. QED
  BY <1>1, <1>2, <1>3, RefillByTick, Sizes DEF Accounts, ClientAccount, NatsAccount

\* A request of the client takes a token from the bucket and counts it.
LEMMA AccountsClient == TypeInv /\ Accounts /\ TryConsume => Accounts'
<1> SUFFICES ASSUME TypeInv, Accounts, TryConsume, window.open PROVE Accounts'
  BY DEF Accounts, ClientAccount, NatsAccount, TryConsume, TypeInv, TypeOK, Count
<1>1. NatsAccount'
  BY DEF Accounts, NatsAccount, TryConsume, TypeInv, TypeOK, Count, NatsRefilled, Reserved
<1>2. Refilled \in 0..Size
  BY Sizes DEF TypeInv, TypeOK, Refilled, AtMost
<1>3. CASE Refilled >= Cost
  <2>1. Refilled' = Refilled - Cost
    BY <1>2, <1>3, Sizes DEF TryConsume, Refilled, AtMost
  <2>2. window'.client = window.client + 1 /\ window'.age = window.age
    BY <1>3 DEF TryConsume, Count, TypeInv, TypeOK
  <2>3. window'.client * Cost = window.client * Cost + Cost /\ window.client * Cost \in Nat
    BY <2>2, OneMore, Sizes DEF TypeInv, TypeOK
  <2>4. QED
    BY <1>1, <1>2, <2>1, <2>2, <2>3, Sizes
       DEF Accounts, ClientAccount, TypeInv, TypeOK
<1>4. CASE Refilled < Cost
  <2>1. Refilled' = Refilled
    BY <1>2, <1>4, Sizes DEF TryConsume, Refilled, AtMost
  <2>2. UNCHANGED window
    BY <1>2, <1>4, Sizes DEF TryConsume
  <2>3. QED
    BY <1>1, <2>1, <2>2 DEF Accounts, ClientAccount
<1>5. QED
  BY <1>2, <1>3, <1>4, Sizes

\* A NATS message moves its token from the bucket to the reservation, and from
\* there to the count, back, or away.
LEMMA AccountsNats ==
    TypeInv /\ Accounts /\ (Reserve \/ Allow \/ MustWait \/ Cancel) => Accounts'
<1> SUFFICES ASSUME TypeInv, Accounts, Reserve \/ Allow \/ MustWait \/ Cancel
             PROVE  Accounts'
  OBVIOUS
<1>1. ClientAccount'
  BY DEF Accounts, ClientAccount, Reserve, Allow, MustWait, Cancel, Refilled, Count,
         TypeInv, TypeOK
<1>2. /\ NatsRefilled \in (-NatsCost)..NatsSize
      /\ callback.pc = "idle" => NatsRefilled >= 0
  BY Sizes DEF TypeInv, TypeOK, NatsRefilled, AtMost, RefusalsLeaveNoDebt
<1>3. window.age \in Nat /\ window.nats * NatsCost \in Nat
  BY OneMore, Sizes DEF TypeInv, TypeOK
<1> SUFFICES ASSUME window.open PROVE NatsAccount'
  BY <1>1 DEF Accounts, NatsAccount, Reserve, Allow, MustWait, Cancel, TypeInv, TypeOK,
              Count
<1>4. window.nats * NatsCost + Reserved + NatsRefilled <= NatsSize + window.age
  BY DEF Accounts, NatsAccount
<1>5. CASE Reserve
  <2>1. NatsRefilled' = NatsRefilled - NatsCost
    BY <1>2, <1>5, Sizes DEF Reserve, NatsRefilled, AtMost
  <2>2. Reserved = 0 /\ Reserved' = NatsCost /\ UNCHANGED window
    BY <1>5 DEF Reserve, Reserved
  <2>3. QED
    BY <1>2, <1>3, <1>4, <2>1, <2>2, Sizes DEF NatsAccount
<1>6. CASE Allow
  <2>1. Reserved = NatsCost /\ Reserved' = 0 /\ NatsRefilled' = NatsRefilled
    BY <1>6 DEF Allow, Reserved, Waiting, NatsRefilled
  <2>2. window'.nats = window.nats + 1 /\ window'.age = window.age
    BY <1>6 DEF Allow, Count, TypeInv, TypeOK
  <2>3. window'.nats * NatsCost = window.nats * NatsCost + NatsCost
    BY <2>2, OneMore, Sizes DEF TypeInv, TypeOK
  <2>4. QED
    BY <1>2, <1>3, <1>4, <2>1, <2>2, <2>3, Sizes DEF NatsAccount
<1>7. CASE MustWait
  <2>1. Reserved' = Reserved /\ NatsRefilled' = NatsRefilled /\ UNCHANGED window
    BY <1>7 DEF MustWait, Reserved, NatsRefilled, TypeInv, TypeOK
  <2>2. QED
    BY <1>4, <2>1 DEF NatsAccount
<1>8. CASE Cancel
  <2>1. Reserved = NatsCost /\ Reserved' = 0 /\ UNCHANGED window
    BY <1>8 DEF Cancel, Reserved, Waiting
  <2>2. NatsRefilled' \in Int /\ NatsRefilled' <= NatsRefilled + NatsCost
    <3>1. CASE callback.due >= 0
      BY <1>2, <1>8, <3>1, Sizes DEF Cancel, NatsRefilled, AtMost
    <3>2. CASE ~(callback.due >= 0)
      BY <1>2, <1>8, <3>2, Sizes DEF Cancel, NatsRefilled
    <3>3. QED
      BY <3>1, <3>2
  <2>3. QED
    BY <1>2, <1>3, <1>4, <2>1, <2>2, Sizes DEF NatsAccount
<1>9. QED
  BY <1>5, <1>6, <1>7, <1>8

\* A window that opens counts from zero, beside buckets that hold their size at
\* most.
LEMMA AccountsObserve == TypeInv /\ Accounts /\ Observe => Accounts'
<1> SUFFICES ASSUME TypeInv, Observe PROVE Accounts'
  OBVIOUS
<1>1. window'.client = 0 /\ window'.nats = 0 /\ window'.age = 0
  BY DEF Observe, NoWindow
<1>2. /\ Refilled' = Refilled /\ NatsRefilled' = NatsRefilled /\ Reserved' = 0
      /\ Refilled <= Size /\ NatsRefilled <= NatsSize
      /\ Refilled \in Int /\ NatsRefilled \in Int
  BY Sizes DEF Observe, Refilled, NatsRefilled, Reserved, AtMost, TypeInv, TypeOK
<1>3. QED
  BY <1>1, <1>2, OneMore, Sizes DEF Accounts, ClientAccount, NatsAccount

\* The accounts bound what was granted.
LEMMA AccountsBound == TypeInv /\ Accounts => BurstBound
<1> SUFFICES ASSUME TypeInv, Accounts PROVE BurstBound
  OBVIOUS
<1>1. window.age \in Nat /\ window.client * Cost \in Nat /\ window.nats * NatsCost \in Nat
  BY OneMore, Sizes DEF TypeInv, TypeOK
<1>2. CASE ~window.open
  BY <1>1, <1>2, OneMore, Sizes
     DEF TypeInv, NoWindowNoCount, NoWindow, BurstBound, ClientBurstBound, NatsBurstBound
<1>3. CASE window.open
  <2>1. Refilled \in Nat
    BY Sizes DEF TypeInv, TypeOK, Refilled, AtMost
  <2>2. NatsRefilled \in Int /\ Reserved \in Nat /\ Reserved + NatsRefilled >= 0
    BY Sizes DEF TypeInv, TypeOK, NatsRefilled, AtMost, Reserved, RefusalsLeaveNoDebt
  <2>3. QED
    BY <1>1, <1>3, <2>1, <2>2, Sizes DEF Accounts, ClientAccount, NatsAccount,
       BurstBound, ClientBurstBound, NatsBurstBound
<1>4. QED
  BY <1>2, <1>3

\* No window, whenever it is opened, grants more than the burst and what drips in
\* while it lasts: to a client, and to NATS although its tokens are taken and
\* given back at different times.
THEOREM WindowsAreBounded == Spec => []BurstBound
<1>1. Init => Accounts
  BY DEF Init, Accounts, ClientAccount, NatsAccount, NoWindow
<1>2. TypeInv /\ Accounts /\ [Next]_vars => Accounts'
  <2> SUFFICES ASSUME TypeInv, Accounts, [Next]_vars PROVE Accounts'
    OBVIOUS
  <2>1. CASE UNCHANGED vars
    BY <2>1 DEF vars, Accounts, ClientAccount, NatsAccount, Refilled, NatsRefilled,
                Reserved
  <2>2. QED
    BY <2>1, AccountsTick, AccountsClient, AccountsNats, AccountsObserve DEF Next
<1>3. QED
  BY <1>1, <1>2, AccountsBound, TypeInit, TypeStep, PTL DEF Spec

-----------------------------------------------------------------------------
(***************************************************************************)
(* The lazy bucket implements the one that drips.                          *)
(***************************************************************************)

\* Both start full.
LEMMA EagerInit == Init => Eager!Init
  BY Sizes DEF Init, Eager!Init, Refilled, AtMost

\* A tick is a drop; a request is granted or refused by what has dripped in; the
\* limiter of NATS messages is another bucket.
LEMMA EagerStep == TypeInv /\ [Next]_vars => [Eager!Next]_(Eager!vars)
<1> SUFFICES ASSUME TypeInv, [Next]_vars PROVE [Eager!Next]_(Eager!vars)
  OBVIOUS
<1>1. Refilled \in 0..Size
  BY Sizes DEF TypeInv, TypeOK, Refilled, AtMost
<1>2. CASE Tick
  <2>1. Eager!Drip
    BY <1>2, Sizes DEF TypeInv, TypeOK, Tick, Eager!Drip, Refilled, AtMost
  <2>2. QED
    BY <2>1 DEF Eager!Next
<1>3. CASE TryConsume
  <2>1. CASE Refilled >= Cost
    <3>1. Refilled' = Refilled - Cost
      BY <1>1, <1>3, <2>1, Sizes DEF TryConsume, Refilled, AtMost
    <3>2. Eager!Grant
      BY <1>3, <2>1, <3>1 DEF TryConsume, Eager!Grant
    <3>3. QED
      BY <3>2 DEF Eager!Next
  <2>2. CASE Refilled < Cost
    <3>1. Refilled' = Refilled
      BY <1>1, <1>3, <2>2, Sizes DEF TryConsume, Refilled, AtMost
    <3>2. answer' = "no"
      BY <1>1, <1>3, <2>2, Sizes DEF TryConsume
    <3>3. Eager!Refuse
      BY <2>2, <3>1, <3>2 DEF Eager!Refuse
    <3>4. QED
      BY <3>3 DEF Eager!Next
  <2>3. QED
    BY <1>1, <2>1, <2>2, Sizes
<1>4. CASE Observe \/ Reserve \/ Allow \/ MustWait \/ Cancel \/ UNCHANGED vars
  BY <1>4 DEF Observe, Reserve, Allow, MustWait, Cancel, vars, Eager!vars, Refilled
<1>5. QED
  BY <1>2, <1>3, <1>4 DEF Next

\* Refilling when somebody asks, by the time that has passed, is refilling all
\* the time: every request gets the answer of a bucket that drips.
THEOREM LazyBucketIsEager == Spec => ImplementsEagerBucket
  BY EagerInit, EagerStep, TypeInit, TypeStep, PTL
     DEF Spec, ImplementsEagerBucket, Eager!Spec
=============================================================================
